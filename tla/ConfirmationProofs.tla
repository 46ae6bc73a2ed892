--------------------------- MODULE ConfirmationProofs ---------------------------
(***************************************************************************)
(* What a confirmation grants is what the owner answered, for every set of *)
(* delegations, actions and variants and every number of challenges,       *)
(* answers in flight and changes that race with them.                      *)
(***************************************************************************)
EXTENDS Confirmation, TLAPS

-----------------------------------------------------------------------------
(* The inductive invariant. *)

\* A challenge asks for dangerous actions of the plan it was presented on, and
\* is of the current plan only if it asks what the current plan says.
ChallengesFitPlan ==
    \A k \in DOMAIN challenges :
        LET c == challenges[k] IN
        /\ c.plan <= plan[c.del].rev
        /\ c.plan = plan[c.del].rev => c.leaf = plan[c.del].leaf
        /\ \A a \in c.alts : c.leaf[a] # None

\* The gateway signs alternatives of the challenge.
SignedIsAsked == \A s \in signed : s.action \in challenges[s.challenge].alts

\* A grant belongs to the delegation of its challenge.
GrantsAreOfChallenges ==
    \A i \in DOMAIN grants :
        /\ grants[i].challenge \in DOMAIN challenges
        /\ grants[i].del = challenges[grants[i].challenge].del

\* What was admitted has a grant.
AdmittedIsGranted ==
    \A x \in admitted : \E i \in DOMAIN grants :
        grants[i].challenge = x.challenge /\ grants[i].action = x.action

GrantsAnswer ==
    GrantsAreOfChallenges /\ GrantIsTheAnswer /\ GrantByCurrentOwner /\ AdmittedIsGranted /\ AdmittedOnce

GrantsFit == ActiveGrantFitsPlan /\ InvalidatedOnlyByDrift

ConfirmInvariant == TypeOK /\ ChallengesFitPlan /\ SignedIsAsked /\ GrantsAnswer /\ GrantsFit

-----------------------------------------------------------------------------
(* How rows may change. *)

\* Challenges are added at the end; what a row asks stays, and so does an answer.
ChallengesEvolve ==
    /\ DOMAIN challenges \subseteq DOMAIN challenges'
    /\ \A k \in DOMAIN challenges :
         LET c == challenges[k]
             n == challenges'[k]
         IN
         /\ n.del = c.del /\ n.plan = c.plan /\ n.leaf = c.leaf /\ n.alts = c.alts /\ n.saved = c.saved
         /\ c.status = "resolved" /\ c.decision = "resolved" =>
              n.status = "resolved" /\ n.decision = "resolved" /\ n.result = c.result
                /\ n.selected = c.selected

\* Grants stay what they are apart from their validity.
GrantsEvolve ==
    /\ DOMAIN grants' = DOMAIN grants
    /\ \A i \in DOMAIN grants :
         LET g == grants[i]
             n == grants'[i]
         IN n.challenge = g.challenge /\ n.del = g.del /\ n.action = g.action /\ n.ident = g.ident
              /\ n.signer = g.signer /\ n.binding = g.binding /\ n.plan = g.plan

\* Rows are added to the owner's ingress, never changed.
IngressEvolves ==
    DOMAIN ingress \subseteq DOMAIN ingress' /\ \A k \in DOMAIN ingress : ingress'[k] = ingress[k]

\* The rows as records.
LEMMA RowFacts ==
    ASSUME TypeOK
    PROVE  /\ DOMAIN challenges = 1..Len(challenges) /\ Len(challenges) \in Nat
           /\ DOMAIN grants = 1..Len(grants) /\ Len(grants) \in Nat
           /\ \A k \in DOMAIN challenges : challenges[k] \in ChallengeRow
           /\ \A i \in DOMAIN grants : grants[i] \in GrantRow
  BY DEF TypeOK

\* A row rewritten in place.
LEMMA MapType ==
    ASSUME NEW S, NEW s \in Seq(S), NEW f, DOMAIN f = DOMAIN s, f = [i \in DOMAIN f |-> f[i]],
           \A i \in DOMAIN s : f[i] \in S
    PROVE  f \in Seq(S) /\ Len(f) = Len(s)
<1>1. DOMAIN s = 1..Len(s) /\ Len(s) \in Nat
  OBVIOUS
<1>2. f \in [1..Len(s) -> S]
  BY <1>1
<1> QED BY <1>1, <1>2

\* The changes are bounded.
LEMMA ChangeType ==
    ASSUME TypeOK, Change
    PROVE  changes' \in 0..MaxRaces
<1>1. Len(ingress) \in Nat /\ changes \in Nat /\ MaxRaces \in Nat
  BY ConfirmationAssumption DEF TypeOK
<1> QED BY <1>1 DEF Change, Races

\* The answers given stay given.
LEMMA AnswersKeep ==
    ASSUME TypeOK, GrantsAnswer, ChallengesEvolve, GrantsEvolve, IngressEvolves, admitted' = admitted
    PROVE  GrantsAnswer'
<1>1. \A i \in DOMAIN grants : grants[i].challenge \in DOMAIN challenges
  BY DEF GrantsAnswer, GrantsAreOfChallenges
<1>2. GrantsAreOfChallenges'
  BY <1>1 DEF GrantsAnswer, GrantsAreOfChallenges, ChallengesEvolve, GrantsEvolve
<1>3. GrantIsTheAnswer'
  <2> SUFFICES ASSUME NEW i \in DOMAIN grants'
               PROVE  LET g == grants'[i]
                          c == challenges'[g.challenge]
                      IN /\ c.status = "resolved" /\ c.decision = "resolved" /\ c.result = "confirm"
                         /\ c.selected = g.action /\ g.action \in c.alts
                         /\ g.ident = Ident(g.action, c.leaf[g.action], c.saved)
                         /\ g.plan = c.plan
                         /\ \A j \in DOMAIN grants' : grants'[j].challenge = g.challenge => i = j
    BY DEF GrantIsTheAnswer, Ident
  <2>1. i \in DOMAIN grants /\ grants[i].challenge \in DOMAIN challenges
        /\ grants'[i].challenge = grants[i].challenge
    BY <1>1 DEF GrantsEvolve
  <2>2. \A j \in DOMAIN grants' : grants'[j].challenge = grants'[i].challenge => i = j
    BY <2>1 DEF GrantsAnswer, GrantIsTheAnswer, GrantsEvolve
  <2> QED BY <2>1, <2>2 DEF GrantsAnswer, GrantIsTheAnswer, ChallengesEvolve, GrantsEvolve
<1>4. GrantByCurrentOwner'
  BY DEF GrantsAnswer, GrantByCurrentOwner, GrantsEvolve, IngressEvolves
<1>5. AdmittedIsGranted'
  BY DEF GrantsAnswer, AdmittedIsGranted, GrantsEvolve
<1>6. AdmittedOnce'
  <2>1. \A x \in admitted : x.challenge \in DOMAIN challenges
    BY DEF TypeOK
  <2> QED BY <2>1 DEF GrantsAnswer, AdmittedOnce, ChallengesEvolve, Ident
<1> QED BY <1>2, <1>3, <1>4, <1>5, <1>6 DEF GrantsAnswer

\* Nothing else has to be shown of a step that leaves plans and grants alone.
LEMMA QuestionStep ==
    ASSUME ConfirmInvariant, ChallengesEvolve, IngressEvolves, TypeOK', plan' = plan, grants' = grants,
           admitted' = admitted,
           \A k \in DOMAIN challenges' \ DOMAIN challenges :
              /\ challenges'[k].plan = plan[challenges'[k].del].rev
              /\ challenges'[k].leaf = plan[challenges'[k].del].leaf
              /\ \A a \in challenges'[k].alts : challenges'[k].leaf[a] # None,
           \A s \in signed' : s \in signed \/ s.action \in challenges[s.challenge].alts,
           \A s \in signed' : s.challenge \in DOMAIN challenges
    PROVE  ConfirmInvariant'
<1>1. GrantsAnswer'
  BY AnswersKeep DEF ConfirmInvariant, GrantsEvolve
<1>2. GrantsFit'
  BY DEF ConfirmInvariant, GrantsFit, ActiveGrantFitsPlan, InvalidatedOnlyByDrift
<1>3. ChallengesFitPlan'
  <2> SUFFICES ASSUME NEW k \in DOMAIN challenges'
               PROVE  LET c == challenges'[k] IN
                      /\ c.plan <= plan'[c.del].rev
                      /\ c.plan = plan'[c.del].rev => c.leaf = plan'[c.del].leaf
                      /\ \A a \in c.alts : c.leaf[a] # None
    BY DEF ChallengesFitPlan
  <2>1. CASE k \in DOMAIN challenges
    BY <2>1 DEF ConfirmInvariant, ChallengesFitPlan, ChallengesEvolve
  <2>2. CASE k \notin DOMAIN challenges
    <3>1. challenges'[k] \in ChallengeRow
      BY DEF TypeOK
    <3>2. plan[challenges'[k].del].rev \in Nat
      BY <3>1 DEF ConfirmInvariant, TypeOK, ChallengeRow
    <3> QED BY <2>2, <3>2
  <2> QED BY <2>1, <2>2
<1>4. SignedIsAsked'
  BY DEF ConfirmInvariant, SignedIsAsked, ChallengesEvolve
<1> QED BY <1>1, <1>2, <1>3, <1>4 DEF ConfirmInvariant

-----------------------------------------------------------------------------
(* The steps. *)

\* Nothing is asked or granted yet.
LEMMA ConfirmInit == Init => ConfirmInvariant
<1> SUFFICES ASSUME Init PROVE ConfirmInvariant
  OBVIOUS
<1>1. challenges = <<>> /\ grants = <<>> /\ signed = {} /\ admitted = {}
  BY DEF Init
<1>2. PICK v \in Variants : plan = [d \in Delegations |-> [rev |-> 1, leaf |-> [a \in Actions |-> v]]]
  BY DEF Init
<1>3. TypeOK
  BY <1>1, <1>2, ConfirmationAssumption DEF Init, TypeOK
<1>4. ChallengesFitPlan /\ SignedIsAsked
  BY <1>1 DEF ChallengesFitPlan, SignedIsAsked
<1>5. GrantsAnswer /\ GrantsFit
  BY <1>1 DEF GrantsAnswer, GrantsFit, GrantsAreOfChallenges, GrantIsTheAnswer, GrantByCurrentOwner,
              AdmittedIsGranted, AdmittedOnce, ActiveGrantFitsPlan, InvalidatedOnlyByDrift
<1> QED BY <1>3, <1>4, <1>5 DEF ConfirmInvariant

\* Presenting: lapsed questions are expired, one may be added.
LEMMA PresentStep ==
    ASSUME ConfirmInvariant, NEW d \in Delegations, NEW a \in Actions, NEW alts \in SUBSET Actions,
           NEW saved \in BOOLEAN, Present(d, a, alts, saved)
    PROVE  ConfirmInvariant'
<1> DEFINE id == Ident(a, plan[d].leaf[a], saved)
           swept == [i \in DOMAIN challenges |->
                       IF Matches(challenges[i], d, id) /\ challenges[i].lapsed
                       THEN Expired(challenges[i]) ELSE challenges[i]]
           new == [del |-> d, plan |-> plan[d].rev, rev |-> rev[d], rep |-> a,
                   leaf |-> plan[d].leaf, alts |-> alts, saved |-> saved,
                   status |-> "pending", decision |-> "pending", result |-> "none",
                   selected |-> None, lapsed |-> FALSE]
<1>1. TypeOK /\ UNCHANGED <<plan, rev, grants, ingress, signed, admitted, changes>>
  BY DEF ConfirmInvariant, Present
<1>2. challenges' = swept \/ challenges' = Append(swept, new)
  BY DEF Present
<1>3. \A b \in alts : plan[d].leaf[b] # None
  BY DEF Present, Dangerous
<1>4. \A k \in DOMAIN challenges :
         /\ swept[k] \in ChallengeRow
         /\ swept[k].del = challenges[k].del /\ swept[k].plan = challenges[k].plan
         /\ swept[k].leaf = challenges[k].leaf /\ swept[k].alts = challenges[k].alts
         /\ swept[k].saved = challenges[k].saved
         /\ challenges[k].status = "resolved" => swept[k] = challenges[k]
  <2> SUFFICES ASSUME NEW k \in DOMAIN challenges
               PROVE  /\ swept[k] \in ChallengeRow
                      /\ swept[k].del = challenges[k].del /\ swept[k].plan = challenges[k].plan
                      /\ swept[k].leaf = challenges[k].leaf /\ swept[k].alts = challenges[k].alts
                      /\ swept[k].saved = challenges[k].saved
                      /\ challenges[k].status = "resolved" => swept[k] = challenges[k]
    OBVIOUS
  <2>1. challenges[k] \in ChallengeRow
    BY <1>1, RowFacts
  <2>2. CASE swept[k] = challenges[k]
    BY <2>1, <2>2
  <2>3. CASE challenges[k].status = "pending" /\ swept[k] = Expired(challenges[k])
    BY <2>1, <2>3 DEF Expired, ChallengeRow
  <2> QED BY <2>2, <2>3 DEF Matches
<1>5. new \in ChallengeRow
  BY <1>1 DEF TypeOK, ChallengeRow
<1>6. swept \in Seq(ChallengeRow) /\ DOMAIN swept = DOMAIN challenges
  <2>1. challenges \in Seq(ChallengeRow)
    BY <1>1 DEF TypeOK
  <2> QED BY <1>4, <2>1, MapType
<1> HIDE DEF swept, new
<1>7. /\ challenges' \in Seq(ChallengeRow) /\ DOMAIN challenges \subseteq DOMAIN challenges'
      /\ \A k \in DOMAIN challenges : challenges'[k] = swept[k]
      /\ \A k \in DOMAIN challenges' \ DOMAIN challenges : challenges'[k] = new
  <2>1. CASE challenges' = swept
    BY <1>6, <2>1
  <2>2. CASE challenges' = Append(swept, new)
    <3>1. DOMAIN swept = 1..Len(swept) /\ Len(swept) \in Nat
      BY <1>6
    <3>2. challenges' \in Seq(ChallengeRow) /\ Len(challenges') = Len(swept) + 1
      BY <1>5, <1>6, <2>2
    <3>3. DOMAIN challenges' = 1..(Len(swept) + 1)
      BY <3>2
    <3>4. \A k \in 1..Len(swept) : challenges'[k] = swept[k]
      BY <1>5, <1>6, <2>2
    <3>5. challenges'[Len(swept) + 1] = new
      BY <1>5, <1>6, <2>2
    <3>6. \A k \in DOMAIN challenges' \ DOMAIN challenges : k = Len(swept) + 1
      BY <1>6, <3>1, <3>3
    <3> QED BY <1>6, <3>1, <3>2, <3>3, <3>4, <3>5, <3>6
  <2> QED BY <1>2, <2>1, <2>2
<1>8. ChallengesEvolve /\ IngressEvolves
  BY <1>1, <1>4, <1>7 DEF ChallengesEvolve, IngressEvolves
<1>9. TypeOK'
  BY <1>1, <1>7 DEF TypeOK
<1>10. new.plan = plan[new.del].rev /\ new.leaf = plan[new.del].leaf /\ \A b \in new.alts : new.leaf[b] # None
  BY <1>3 DEF new
<1>11. \A s \in signed' : s \in signed /\ s.challenge \in DOMAIN challenges
  BY <1>1 DEF TypeOK
<1> QED BY <1>1, <1>7, <1>8, <1>9, <1>10, <1>11, QuestionStep

\* The clock, refusals, signatures and rejected answers.
LEMMA QuestionSteps ==
    ASSUME ConfirmInvariant,
           \/ \E i \in DOMAIN challenges : Lapse(i)
           \/ \E i \in DOMAIN challenges, a \in Actions, signer \in Signers : Sign(i, a, signer)
           \/ \E i \in DOMAIN challenges, a \in Actions : Refuse(i, a)
           \/ \E s \in signed : Reject(s)
    PROVE  ConfirmInvariant'
<1>1. TypeOK /\ \A k \in DOMAIN challenges : challenges[k] \in ChallengeRow
  BY RowFacts DEF ConfirmInvariant
<1>2. \A s \in signed : s.challenge \in DOMAIN challenges
  BY <1>1 DEF TypeOK
<1>3. ASSUME NEW i \in DOMAIN challenges, NEW n \in ChallengeRow, challenges' = [challenges EXCEPT ![i] = n],
             challenges[i].status = "pending",
             n.del = challenges[i].del, n.plan = challenges[i].plan, n.leaf = challenges[i].leaf,
             n.alts = challenges[i].alts, n.saved = challenges[i].saved,
             UNCHANGED <<plan, rev, grants, ingress, signed, admitted, changes>>
      PROVE  ConfirmInvariant'
  <2>1. challenges' \in Seq(ChallengeRow) /\ DOMAIN challenges' = DOMAIN challenges
    BY <1>1, <1>3 DEF TypeOK
  <2>2. ChallengesEvolve /\ IngressEvolves
    BY <1>3, <2>1 DEF ChallengesEvolve, IngressEvolves
  <2>3. TypeOK'
    BY <1>1, <1>3, <2>1 DEF TypeOK
  <2> QED BY <1>2, <1>3, <2>1, <2>2, <2>3, QuestionStep
<1>4. ASSUME NEW i \in DOMAIN challenges, Lapse(i) PROVE ConfirmInvariant'
  <2> DEFINE n == [challenges[i] EXCEPT !.lapsed = TRUE]
  <2>1. n \in ChallengeRow /\ n.del = challenges[i].del /\ n.plan = challenges[i].plan
        /\ n.leaf = challenges[i].leaf /\ n.alts = challenges[i].alts /\ n.saved = challenges[i].saved
    BY <1>1 DEF ChallengeRow
  <2>2. challenges' = [challenges EXCEPT ![i] = n] /\ challenges[i].status = "pending"
        /\ UNCHANGED <<plan, rev, grants, ingress, signed, admitted, changes>>
    BY <1>4 DEF Lapse
  <2> HIDE DEF n
  <2> QED BY <1>3, <2>1, <2>2
<1>5. ASSUME NEW i \in DOMAIN challenges, NEW a \in Actions, Refuse(i, a) PROVE ConfirmInvariant'
  <2> DEFINE n == [challenges[i] EXCEPT !.status = "resolved", !.decision = "resolved",
                                        !.result = "refuse", !.selected = a]
  <2>1. n \in ChallengeRow /\ n.del = challenges[i].del /\ n.plan = challenges[i].plan
        /\ n.leaf = challenges[i].leaf /\ n.alts = challenges[i].alts /\ n.saved = challenges[i].saved
    BY <1>1 DEF ChallengeRow
  <2>2. challenges' = [challenges EXCEPT ![i] = n] /\ challenges[i].status = "pending"
        /\ UNCHANGED <<plan, rev, grants, ingress, signed, admitted, changes>>
    BY <1>1, <1>5 DEF Refuse, Answerable, TypeOK
  <2> HIDE DEF n
  <2> QED BY <1>3, <2>1, <2>2
<1>6. ASSUME challenges' = challenges, UNCHANGED <<plan, rev, grants, ingress, admitted, changes>>,
             \A s \in signed' : \/ s \in signed
                                \/ /\ s \in [challenge: DOMAIN challenges, action: Actions, signer: Signers]
                                   /\ s.action \in challenges[s.challenge].alts
      PROVE  ConfirmInvariant'
  <2>1. TypeOK'
    BY <1>1, <1>6 DEF TypeOK
  <2>2. ChallengesEvolve /\ IngressEvolves
    BY <1>6 DEF ChallengesEvolve, IngressEvolves
  <2> QED BY <1>2, <1>6, <2>1, <2>2, QuestionStep
<1>7. ASSUME NEW i \in DOMAIN challenges, NEW a \in Actions, NEW signer \in Signers,
             Sign(i, a, signer)
      PROVE  ConfirmInvariant'
  <2>2. [challenge |-> i, action |-> a, signer |-> signer]
           \in [challenge: DOMAIN challenges, action: Actions, signer: Signers]
    OBVIOUS
  <2> QED BY <1>6, <1>7, <2>2 DEF Sign
<1>8. ASSUME NEW s \in signed, Reject(s) PROVE ConfirmInvariant'
  BY <1>6, <1>8 DEF Reject
<1> QED BY <1>4, <1>5, <1>7, <1>8

\* An answer is applied.
LEMMA AcceptStep ==
    ASSUME ConfirmInvariant, NEW s \in signed, Accept(s)
    PROVE  ConfirmInvariant'
<1> DEFINE k == s.challenge
           c == challenges[k]
           g == NewGrant(s)
           n == [c EXCEPT !.status = "resolved", !.decision = "resolved", !.result = "confirm",
                          !.selected = s.action]
<1>1. TypeOK /\ \A j \in DOMAIN challenges : challenges[j] \in ChallengeRow
  BY RowFacts DEF ConfirmInvariant
<1>2. k \in DOMAIN challenges /\ s.action \in Actions /\ s.signer \in Signers /\ c \in ChallengeRow
      /\ s.action \in c.alts
  BY <1>1 DEF TypeOK, ConfirmInvariant, SignedIsAsked
<1>3. /\ c.status = "pending" /\ c.plan = plan[c.del].rev /\ OwnerCurrent(s.signer)
      /\ ~IdentTaken(c.del, Ident(s.action, c.leaf[s.action], c.saved))
      /\ c.leaf = plan[c.del].leaf /\ c.leaf[s.action] # None
  BY <1>2 DEF Accept, Acceptable, Answerable, ConfirmInvariant, ChallengesFitPlan
<1>4. /\ g.challenge = k /\ g.del = c.del /\ g.action = s.action /\ g.active /\ g.reason = "none"
      /\ g.ident = Ident(s.action, c.leaf[s.action], c.saved) /\ g.plan = c.plan
      /\ g.signer = s.signer /\ g.binding = Len(ingress) /\ g \in GrantRow
  <2>1. Len(ingress) \in Nat
    BY <1>1 DEF TypeOK
  <2>2. Ident(s.action, c.leaf[s.action], c.saved) \in Idents
    BY <1>2, <1>3 DEF Ident, Idents, ChallengeRow
  <2>3. plan[c.del].rev \in Nat /\ k \in Nat
    <3>1. c.del \in Delegations
      BY <1>2 DEF ChallengeRow
    <3>2. plan[c.del].rev \in Nat
      BY <1>1, <3>1 DEF TypeOK
    <3>3. k \in Nat
      BY <1>1, <1>2, RowFacts
    <3> QED BY <3>2, <3>3
  <2> QED BY <1>2, <1>3, <2>1, <2>2, <2>3 DEF NewGrant, GrantRow, ChallengeRow, Signers
<1>5. /\ n \in ChallengeRow /\ n.del = c.del /\ n.plan = c.plan /\ n.leaf = c.leaf /\ n.alts = c.alts
      /\ n.saved = c.saved /\ n.status = "resolved" /\ n.decision = "resolved" /\ n.result = "confirm"
      /\ n.selected = s.action
  BY <1>2 DEF ChallengeRow
<1>6. challenges' = [challenges EXCEPT ![k] = n]
  BY <1>1, <1>2 DEF Accept, TypeOK
<1>7. /\ challenges' \in Seq(ChallengeRow) /\ DOMAIN challenges' = DOMAIN challenges
      /\ challenges'[k] = n /\ \A j \in DOMAIN challenges \ {k} : challenges'[j] = challenges[j]
  BY <1>1, <1>2, <1>5, <1>6 DEF TypeOK
<1>8. grants' = Append(grants, g) /\ grants \in Seq(GrantRow)
      /\ admitted' = admitted \cup {[challenge |-> k, action |-> s.action]}
      /\ signed' = signed \ {s} /\ UNCHANGED <<plan, rev, ingress, changes>>
  BY <1>1 DEF Accept, TypeOK
<1> DEFINE m == Len(grants) + 1
<1> HIDE DEF g, n, k, c
<1>9. /\ grants' \in Seq(GrantRow) /\ DOMAIN grants' = DOMAIN grants \cup {m} /\ m \notin DOMAIN grants
      /\ grants'[m] = g /\ \A i \in DOMAIN grants : grants'[i] = grants[i]
  <2>1. DOMAIN grants = 1..Len(grants) /\ Len(grants) \in Nat
    BY <1>1, RowFacts
  <2>2. grants' \in Seq(GrantRow) /\ Len(grants') = m
    BY <1>4, <1>8
  <2>3. DOMAIN grants' = 1..m
    BY <2>2
  <2>4. grants'[m] = g /\ \A i \in 1..Len(grants) : grants'[i] = grants[i]
    BY <1>4, <1>8
  <2> QED BY <2>1, <2>2, <2>3, <2>4
<1> HIDE DEF m
<1>10. TypeOK'
  BY <1>1, <1>2, <1>7, <1>8, <1>9 DEF TypeOK, k
<1>11. ChallengesFitPlan' /\ SignedIsAsked'
  <2>1. \A j \in DOMAIN challenges :
           challenges'[j].del = challenges[j].del /\ challenges'[j].plan = challenges[j].plan
             /\ challenges'[j].leaf = challenges[j].leaf /\ challenges'[j].alts = challenges[j].alts
    BY <1>5, <1>7 DEF c
  <2>2. \A x \in signed : x.challenge \in DOMAIN challenges
    BY <1>1 DEF TypeOK
  <2> QED BY <1>7, <1>8, <2>1, <2>2 DEF ConfirmInvariant, ChallengesFitPlan, SignedIsAsked
<1>12. \A i \in DOMAIN grants : grants[i].challenge \in DOMAIN challenges /\ grants[i].challenge # k
  BY <1>3 DEF ConfirmInvariant, GrantsAnswer, GrantIsTheAnswer, GrantsAreOfChallenges, c
<1>13. GrantsAreOfChallenges' /\ GrantByCurrentOwner'
  <2>1. GrantsAreOfChallenges'
    BY <1>2, <1>4, <1>5, <1>7, <1>9, <1>12
    DEF ConfirmInvariant, GrantsAnswer, GrantsAreOfChallenges
  <2>2. ingress \in Seq(IngressRow) /\ DOMAIN ingress = 1..Len(ingress) /\ Len(ingress) \in Nat
    BY <1>1 DEF TypeOK
  <2>3. g.signer # Local =>
          g.binding \in DOMAIN ingress /\ ingress[g.binding] = [owner |-> g.signer, active |-> TRUE]
    <3> SUFFICES ASSUME g.signer # Local
                 PROVE  g.binding \in DOMAIN ingress
                          /\ ingress[g.binding] = [owner |-> g.signer, active |-> TRUE]
      OBVIOUS
    <3>1. ingress # <<>> /\ ingress[Len(ingress)] = [owner |-> s.signer, active |-> TRUE]
      BY <1>3, <1>4 DEF OwnerCurrent
    <3>2. Len(ingress) # 0
      BY <2>2, <3>1
    <3>3. Len(ingress) \in DOMAIN ingress
      BY <2>2, <3>2
    <3> QED BY <1>4, <3>1, <3>3
  <2>4. GrantByCurrentOwner'
    <3>1. \A i \in DOMAIN grants' : grants'[i] = g \/ (i \in DOMAIN grants /\ grants'[i] = grants[i])
      BY <1>9
    <3> QED BY <1>8, <2>3, <3>1 DEF ConfirmInvariant, GrantsAnswer, GrantByCurrentOwner
  <2> QED BY <2>1, <2>4
<1>14. GrantIsTheAnswer'
  <2> SUFFICES ASSUME NEW i \in DOMAIN grants'
               PROVE  LET h == grants'[i]
                          d == challenges'[h.challenge]
                      IN /\ d.status = "resolved" /\ d.decision = "resolved" /\ d.result = "confirm"
                         /\ d.selected = h.action /\ h.action \in d.alts
                         /\ h.ident = Ident(h.action, d.leaf[h.action], d.saved)
                         /\ h.plan = d.plan
                         /\ \A j \in DOMAIN grants' : grants'[j].challenge = h.challenge => i = j
    BY DEF GrantIsTheAnswer, Ident
  <2>1. CASE i = m
    BY <1>2, <1>4, <1>5, <1>7, <1>9, <1>12, <2>1
  <2>2. CASE i \in DOMAIN grants
    <3>1. challenges'[grants[i].challenge] = challenges[grants[i].challenge]
      BY <1>7, <1>12, <2>2
    <3>2. \A j \in DOMAIN grants' : grants'[j].challenge = grants[i].challenge => i = j
      BY <1>4, <1>9, <1>12, <2>2 DEF ConfirmInvariant, GrantsAnswer, GrantIsTheAnswer
    <3> QED BY <1>9, <2>2, <3>1, <3>2 DEF ConfirmInvariant, GrantsAnswer, GrantIsTheAnswer
  <2> QED BY <1>9, <2>1, <2>2
<1>15. AdmittedIsGranted'
  BY <1>4, <1>8, <1>9 DEF ConfirmInvariant, GrantsAnswer, AdmittedIsGranted
<1>16. AdmittedOnce'
  <2> DEFINE What(x) == <<challenges'[x.challenge].del,
                          Ident(x.action, challenges'[x.challenge].leaf[x.action],
                                challenges'[x.challenge].saved)>>
             z == [challenge |-> k, action |-> s.action]
  <2> SUFFICES ASSUME NEW x \in admitted', NEW y \in admitted', What(x) = What(y) PROVE x = y
    BY DEF AdmittedOnce, Ident
  <2>1. \A w \in admitted :
           /\ What(w) = <<challenges[w.challenge].del,
                          Ident(w.action, challenges[w.challenge].leaf[w.action],
                                challenges[w.challenge].saved)>>
           /\ \E i \in DOMAIN grants : What(w) = <<grants[i].del, grants[i].ident>>
    <3> SUFFICES ASSUME NEW w \in admitted
                 PROVE  /\ What(w) = <<challenges[w.challenge].del,
                                       Ident(w.action, challenges[w.challenge].leaf[w.action],
                                             challenges[w.challenge].saved)>>
                        /\ \E i \in DOMAIN grants : What(w) = <<grants[i].del, grants[i].ident>>
      OBVIOUS
    <3>1. PICK i \in DOMAIN grants : grants[i].challenge = w.challenge /\ grants[i].action = w.action
      BY DEF ConfirmInvariant, GrantsAnswer, AdmittedIsGranted
    <3>2. challenges'[w.challenge] = challenges[w.challenge]
      BY <1>7, <1>12, <3>1
    <3>3. grants[i].del = challenges[w.challenge].del
          /\ grants[i].ident = Ident(w.action, challenges[w.challenge].leaf[w.action],
                                     challenges[w.challenge].saved)
      BY <3>1 DEF ConfirmInvariant, GrantsAnswer, GrantsAreOfChallenges, GrantIsTheAnswer
    <3> QED BY <3>2, <3>3
  <2>2. What(z) = <<c.del, Ident(s.action, c.leaf[s.action], c.saved)>>
    BY <1>5, <1>7
  <2>3. \A w \in admitted : What(w) # What(z)
    BY <1>3, <2>1, <2>2 DEF IdentTaken
  <2>4. CASE x \in admitted /\ y \in admitted
    BY <2>1, <2>4 DEF ConfirmInvariant, GrantsAnswer, AdmittedOnce
  <2>5. CASE x = z \/ y = z
    BY <1>8, <2>3, <2>5
  <2> QED BY <1>8, <2>4, <2>5
<1>17. GrantsFit'
  <2>1. ASSUME NEW i \in DOMAIN grants',
               grants'[i].active, ~grants'[i].ident[3], plan'[grants'[i].del].leaf[grants'[i].action] # None
        PROVE  grants'[i].ident[2] = plan'[grants'[i].del].leaf[grants'[i].action]
    <3>1. CASE i = m
      BY <1>3, <1>4, <1>8, <1>9, <3>1 DEF Ident
    <3>2. CASE i \in DOMAIN grants
      BY <1>8, <1>9, <2>1, <3>2 DEF ConfirmInvariant, GrantsFit, ActiveGrantFitsPlan
    <3> QED BY <1>9, <3>1, <3>2
  <2>2. InvalidatedOnlyByDrift'
    BY <1>4, <1>9 DEF ConfirmInvariant, GrantsFit, InvalidatedOnlyByDrift
  <2> QED BY <2>1, <2>2 DEF GrantsFit, ActiveGrantFitsPlan
<1> QED BY <1>10, <1>11, <1>13, <1>14, <1>15, <1>16, <1>17 DEF ConfirmInvariant, GrantsAnswer

\* An amendment: pending decisions are superseded, grants are reconciled.
LEMMA AmendStep ==
    ASSUME ConfirmInvariant, NEW d \in Delegations, NEW leaf \in [Actions -> Variants \cup {None}],
           Amend(d, leaf)
    PROVE  ConfirmInvariant'
<1>1. /\ TypeOK
      /\ \A k \in DOMAIN challenges : challenges[k] \in ChallengeRow
      /\ \A i \in DOMAIN grants : grants[i] \in GrantRow
  BY RowFacts DEF ConfirmInvariant
<1>2. /\ plan' = [plan EXCEPT ![d] = [rev |-> @.rev + 1, leaf |-> leaf]]
      /\ UNCHANGED <<ingress, signed, admitted>>
  BY DEF Amend
<1>3. /\ plan'[d].rev = plan[d].rev + 1 /\ plan'[d].leaf = leaf /\ plan[d].rev \in Nat
      /\ \A e \in Delegations \ {d} : plan'[e] = plan[e]
      /\ plan' \in [Delegations -> [rev: Nat, leaf: [Actions -> Variants \cup {None}]]]
  BY <1>1, <1>2 DEF TypeOK
<1>4. /\ DOMAIN challenges' = DOMAIN challenges
      /\ challenges' = [i \in DOMAIN challenges' |-> challenges'[i]]
      /\ \A k \in DOMAIN challenges :
           \/ challenges'[k] = challenges[k]
           \/ /\ challenges[k].decision = "pending"
              /\ challenges'[k] = [challenges[k] EXCEPT !.decision = "superseded"]
  BY DEF Amend
<1>5. \A k \in DOMAIN challenges :
         /\ challenges'[k] \in ChallengeRow
         /\ challenges'[k].del = challenges[k].del /\ challenges'[k].plan = challenges[k].plan
         /\ challenges'[k].leaf = challenges[k].leaf /\ challenges'[k].alts = challenges[k].alts
         /\ challenges'[k].saved = challenges[k].saved
         /\ challenges[k].decision = "resolved" => challenges'[k] = challenges[k]
  BY <1>1, <1>4 DEF ChallengeRow
<1>6. challenges' \in Seq(ChallengeRow)
  <2>1. challenges \in Seq(ChallengeRow)
    BY <1>1 DEF TypeOK
  <2> QED BY <1>4, <1>5, <2>1, MapType
<1>7. /\ DOMAIN grants' = DOMAIN grants
      /\ grants' = [i \in DOMAIN grants' |-> grants'[i]]
      /\ \A i \in DOMAIN grants :
           grants'[i] = IF grants[i].del = d THEN Reconciled(grants[i], leaf) ELSE grants[i]
  BY DEF Amend
<1>8. ASSUME NEW i \in DOMAIN grants
      PROVE  /\ grants'[i] \in GrantRow
             /\ grants'[i].challenge = grants[i].challenge /\ grants'[i].del = grants[i].del
             /\ grants'[i].action = grants[i].action /\ grants'[i].ident = grants[i].ident
             /\ grants'[i].signer = grants[i].signer /\ grants'[i].binding = grants[i].binding
             /\ grants'[i].plan = grants[i].plan
  <2>1. grants[i] \in GrantRow
    BY <1>1
  <2>2. CASE grants'[i] = grants[i]
    BY <2>1, <2>2
  <2>3. CASE grants'[i] = [grants[i] EXCEPT !.active = FALSE, !.reason = "drift",
                                            !.drifted = leaf[grants[i].action] # grants[i].ident[2]]
    BY <2>1, <2>3 DEF GrantRow
  <2> QED BY <1>7, <2>2, <2>3 DEF Reconciled
<1>9. grants' \in Seq(GrantRow)
  <2>1. grants \in Seq(GrantRow)
    BY <1>1 DEF TypeOK
  <2> QED BY <1>7, <1>8, <2>1, MapType
<1>10. TypeOK'
  <2>1. rev' \in [Delegations -> Nat] /\ changes' \in 0..MaxRaces
    BY <1>1, ChangeType DEF TypeOK, Amend
  <2> QED BY <1>1, <1>2, <1>3, <1>4, <1>6, <1>9, <2>1 DEF TypeOK
<1>11. GrantsAnswer'
  <2>1. ChallengesEvolve /\ IngressEvolves
    BY <1>2, <1>4, <1>5 DEF ChallengesEvolve, IngressEvolves
  <2>2. GrantsEvolve
    BY <1>7, <1>8 DEF GrantsEvolve
  <2> QED BY <1>1, <1>2, <2>1, <2>2, AnswersKeep DEF ConfirmInvariant
<1>12. ChallengesFitPlan'
  <2> SUFFICES ASSUME NEW k \in DOMAIN challenges
               PROVE  LET c == challenges'[k] IN
                      /\ c.plan <= plan'[c.del].rev
                      /\ c.plan = plan'[c.del].rev => c.leaf = plan'[c.del].leaf
                      /\ \A a \in c.alts : c.leaf[a] # None
    BY <1>4 DEF ChallengesFitPlan
  <2>1. challenges[k].del \in Delegations /\ challenges[k].plan \in Nat
    BY <1>1 DEF ChallengeRow
  <2>2. CASE challenges[k].del = d
    <3>1. challenges[k].plan <= plan[d].rev
      BY <2>2 DEF ConfirmInvariant, ChallengesFitPlan
    <3>2. challenges[k].plan < plan'[d].rev
      BY <1>3, <2>1, <3>1
    <3>3. \A a \in challenges[k].alts : challenges[k].leaf[a] # None
      BY DEF ConfirmInvariant, ChallengesFitPlan
    <3>4. plan'[d].rev \in Nat
      BY <1>3
    <3> QED BY <1>5, <2>1, <2>2, <3>2, <3>3, <3>4
  <2>3. CASE challenges[k].del # d
    BY <1>3, <1>5, <2>1, <2>3 DEF ConfirmInvariant, ChallengesFitPlan
  <2> QED BY <2>2, <2>3
<1>13. SignedIsAsked'
  <2>1. \A s \in signed : s.challenge \in DOMAIN challenges
    BY <1>1 DEF TypeOK
  <2> QED BY <1>2, <1>5, <2>1 DEF ConfirmInvariant, SignedIsAsked
<1>14. GrantsFit'
  <2> SUFFICES ASSUME NEW i \in DOMAIN grants
               PROVE  LET h == grants'[i]
                          v == plan'[h.del].leaf[h.action]
                      IN /\ h.active /\ ~h.ident[3] /\ v # None => h.ident[2] = v
                         /\ h.reason = "drift" /\ ~h.ident[3] => h.drifted
    BY <1>7 DEF GrantsFit, ActiveGrantFitsPlan, InvalidatedOnlyByDrift
  <2>1. grants[i] \in GrantRow /\ grants[i].del \in Delegations
    BY <1>1 DEF GrantRow
  <2>2. PICK v, saved : grants[i].ident = <<grants[i].action, v, saved>>
    BY DEF ConfirmInvariant, GrantsAnswer, GrantIsTheAnswer, Ident
  <2>3. saved \in BOOLEAN
    BY <2>1, <2>2 DEF GrantRow, Idents
  <2>4. /\ grants[i].active /\ ~saved /\ plan[grants[i].del].leaf[grants[i].action] # None
             => v = plan[grants[i].del].leaf[grants[i].action]
        /\ grants[i].reason = "drift" /\ ~saved => grants[i].drifted
    BY <2>2 DEF ConfirmInvariant, GrantsFit, ActiveGrantFitsPlan, InvalidatedOnlyByDrift
  <2>5. CASE grants[i].del # d
    BY <1>3, <1>7, <2>1, <2>2, <2>4, <2>5
  <2> DEFINE w == leaf[grants[i].action]
             off == grants[i].active /\ w # None /\ grants[i].ident # Ident(grants[i].action, w, FALSE)
  <2>6. CASE grants[i].del = d /\ off
    <3>1. grants'[i] = [grants[i] EXCEPT !.active = FALSE, !.reason = "drift",
                                         !.drifted = w # grants[i].ident[2]]
      BY <1>7, <2>6 DEF Reconciled
    <3>2. grants'[i].active = FALSE /\ grants'[i].drifted = (w # grants[i].ident[2])
      BY <2>1, <3>1 DEF GrantRow
    <3>3. saved = FALSE => w # v
      BY <2>2, <2>6 DEF Ident
    <3>4. grants'[i].ident[3] = saved /\ grants[i].ident[2] = v
      BY <1>8, <2>2
    <3> QED BY <2>3, <3>2, <3>3, <3>4
  <2>7. CASE grants[i].del = d /\ ~off
    <3>1. grants'[i] = grants[i]
      BY <1>7, <2>7 DEF Reconciled
    <3>2. plan'[grants[i].del].leaf[grants[i].action] = w
      BY <1>3, <2>7
    <3>3. grants[i].ident[3] = saved /\ grants[i].ident[2] = v
      BY <2>2
    <3>4. grants[i].active /\ w # None => v = w
      <4>1. grants[i].active /\ w # None => grants[i].ident = <<grants[i].action, w, FALSE>>
        BY <2>7 DEF Ident
      <4> HIDE DEF w
      <4>2. \A t : t = <<grants[i].action, w, FALSE>> => t[2] = w
        OBVIOUS
      <4> QED BY <3>3, <4>1, <4>2
    <3> QED BY <2>4, <3>1, <3>2, <3>3, <3>4
  <2> QED BY <2>5, <2>6, <2>7
<1> QED BY <1>10, <1>11, <1>12, <1>13, <1>14 DEF ConfirmInvariant

\* Stops, resumes, revocations and new ingresses.
LEMMA ChangeSteps ==
    ASSUME ConfirmInvariant,
           \/ \E d \in Delegations : Advance(d)
           \/ \E i \in DOMAIN grants : Revoke(i)
           \/ \E configured \in Owners \cup {None} : ReconcileIngress(configured)
    PROVE  ConfirmInvariant'
<1>1. /\ TypeOK /\ Len(ingress) \in Nat /\ DOMAIN ingress = 1..Len(ingress)
      /\ \A i \in DOMAIN grants : grants[i] \in GrantRow
      /\ \A s \in signed : s.challenge \in DOMAIN challenges
  <2>1. TypeOK
    BY DEF ConfirmInvariant
  <2>2. Len(ingress) \in Nat /\ DOMAIN ingress = 1..Len(ingress)
    BY <2>1 DEF TypeOK
  <2>3. \A s \in signed : s.challenge \in DOMAIN challenges
    BY <2>1 DEF TypeOK
  <2> QED BY <2>1, <2>2, <2>3, RowFacts
<1>2. ASSUME challenges' = challenges, UNCHANGED <<plan, grants, signed, admitted>>, TypeOK', IngressEvolves
      PROVE  ConfirmInvariant'
  <2>1. ChallengesEvolve
    BY <1>2 DEF ChallengesEvolve
  <2> QED BY <1>1, <1>2, <2>1, QuestionStep
<1>3. ASSUME NEW d \in Delegations, Advance(d) PROVE ConfirmInvariant'
  <2>1. TypeOK' /\ IngressEvolves
    BY <1>1, <1>3, ChangeType DEF TypeOK, Advance, IngressEvolves
  <2> QED BY <1>2, <1>3, <2>1 DEF Advance
<1>4. ASSUME NEW configured \in Owners \cup {None}, ReconcileIngress(configured) PROVE ConfirmInvariant'
  <2>1. PICK row \in IngressRow : ingress' = Append(ingress, row)
    <3>1. CASE configured \in Owners /\ ingress' = Append(ingress, [owner |-> configured, active |-> TRUE])
      <4>1. [owner |-> configured, active |-> TRUE] \in IngressRow
        BY <3>1 DEF IngressRow
      <4> QED BY <3>1, <4>1
    <3>2. CASE /\ ingress # <<>>
               /\ ingress' = Append(ingress, [owner |-> ingress[Len(ingress)].owner, active |-> FALSE])
      <4>1. ingress \in Seq(IngressRow)
        BY <1>1 DEF TypeOK
      <4>2. Len(ingress) # 0
        BY <3>2, <4>1
      <4>3. ingress[Len(ingress)] \in IngressRow
        BY <1>1, <4>1, <4>2
      <4>4. [owner |-> ingress[Len(ingress)].owner, active |-> FALSE] \in IngressRow
        BY <4>3 DEF IngressRow
      <4> QED BY <3>2, <4>4
    <3> QED BY <1>4, <3>1, <3>2 DEF ReconcileIngress
  <2>2. /\ ingress' \in Seq(IngressRow) /\ DOMAIN ingress \subseteq DOMAIN ingress'
        /\ \A k \in DOMAIN ingress : ingress'[k] = ingress[k]
    <3>1. ingress \in Seq(IngressRow)
      BY <1>1 DEF TypeOK
    <3>2. ingress' \in Seq(IngressRow) /\ Len(ingress') = Len(ingress) + 1
      BY <2>1, <3>1
    <3>3. DOMAIN ingress' = 1..(Len(ingress) + 1)
      BY <3>2
    <3>4. \A k \in 1..Len(ingress) : ingress'[k] = ingress[k]
      BY <2>1, <3>1
    <3> QED BY <1>1, <3>2, <3>3, <3>4
  <2>3. UNCHANGED <<plan, rev, challenges, grants, signed, admitted, changes>>
    BY <1>4 DEF ReconcileIngress
  <2>4. TypeOK' /\ IngressEvolves
    BY <1>1, <2>2, <2>3 DEF TypeOK, IngressEvolves
  <2> QED BY <1>2, <2>3, <2>4
<1>5. ASSUME NEW i \in DOMAIN grants, Revoke(i) PROVE ConfirmInvariant'
  <2> DEFINE n == [grants[i] EXCEPT !.active = FALSE, !.reason = "revoked"]
  <2>1. /\ n \in GrantRow /\ n.challenge = grants[i].challenge /\ n.del = grants[i].del
        /\ n.action = grants[i].action /\ n.ident = grants[i].ident /\ n.signer = grants[i].signer
        /\ n.binding = grants[i].binding /\ n.plan = grants[i].plan /\ ~n.active /\ n.reason = "revoked"
    BY <1>1 DEF GrantRow
  <2>2. /\ grants' = [grants EXCEPT ![i] = n]
        /\ UNCHANGED <<plan, rev, challenges, ingress, signed, admitted>>
    BY <1>1, <1>5 DEF Revoke, TypeOK
  <2> HIDE DEF n
  <2>3. /\ grants' \in Seq(GrantRow) /\ DOMAIN grants' = DOMAIN grants /\ grants'[i] = n
        /\ \A j \in DOMAIN grants \ {i} : grants'[j] = grants[j]
    BY <1>1, <2>1, <2>2 DEF TypeOK
  <2>4. TypeOK'
    BY <1>1, <1>5, <2>2, <2>3, ChangeType DEF TypeOK, Revoke
  <2>5. GrantsAnswer'
    <3>1. GrantsEvolve
      BY <2>1, <2>3 DEF GrantsEvolve
    <3>2. ChallengesEvolve /\ IngressEvolves
      BY <2>2 DEF ChallengesEvolve, IngressEvolves
    <3> QED BY <1>1, <2>2, <3>1, <3>2, AnswersKeep DEF ConfirmInvariant
  <2>6. GrantsFit'
    BY <2>1, <2>2, <2>3 DEF ConfirmInvariant, GrantsFit, ActiveGrantFitsPlan, InvalidatedOnlyByDrift
  <2>7. ChallengesFitPlan' /\ SignedIsAsked'
    BY <2>2 DEF ConfirmInvariant, ChallengesFitPlan, SignedIsAsked
  <2> QED BY <2>4, <2>5, <2>6, <2>7 DEF ConfirmInvariant
<1> QED BY <1>3, <1>4, <1>5

\* Every step.
LEMMA ConfirmStep == ConfirmInvariant /\ [Next]_vars => ConfirmInvariant'
<1> SUFFICES ASSUME ConfirmInvariant, [Next]_vars PROVE ConfirmInvariant'
  OBVIOUS
<1>1. CASE UNCHANGED vars
  BY <1>1 DEF vars, ConfirmInvariant, TypeOK, ChallengesFitPlan, SignedIsAsked, GrantsAnswer, GrantsFit,
              GrantsAreOfChallenges, GrantIsTheAnswer, GrantByCurrentOwner, AdmittedIsGranted, AdmittedOnce,
              ActiveGrantFitsPlan, InvalidatedOnlyByDrift
<1>2. CASE Next
  BY <1>2, PresentStep, QuestionSteps, AcceptStep, AmendStep, ChangeSteps DEF Next
<1> QED BY <1>1, <1>2

-----------------------------------------------------------------------------
(* The theorems. *)

\* The inductive invariant of the confirmation tables.
THEOREM ConfirmCorrect == Spec => []ConfirmInvariant
  BY ConfirmInit, ConfirmStep, PTL DEF Spec

\* confirm_dangerous_action_attested_atomically records the owner's own answer:
\* a confirmed challenge of the plan in force, its selected alternative, once.
THEOREM AnswerCorrect == Spec => []GrantIsTheAnswer
<1>1. ConfirmInvariant => GrantIsTheAnswer
  BY DEF ConfirmInvariant, GrantsAnswer
<1> QED BY <1>1, ConfirmCorrect, PTL

\* A remote answer grants something only while the newest row of the owner's ingress
\* enrols the one who gave it (require_active_owner_ingress_binding): not after its
\* owner was retired or replaced, until the same owner is enrolled again.
THEOREM OwnerCorrect == Spec => []GrantByCurrentOwner
<1>1. ConfirmInvariant => GrantByCurrentOwner
  BY DEF ConfirmInvariant, GrantsAnswer
<1> QED BY <1>1, ConfirmCorrect, PTL

\* After any amendments an active grant of an exact action agrees with the plan
\* (reconcile_accepted_confirmation_grants_for_amendment_in_tx).
THEOREM FitsPlanCorrect == Spec => []ActiveGrantFitsPlan
<1>1. ConfirmInvariant => ActiveGrantFitsPlan
  BY DEF ConfirmInvariant, GrantsFit
<1> QED BY <1>1, ConfirmCorrect, PTL

\* Of several open questions about one exact action one at most is admitted
\* (the table's unique logical action identity).
THEOREM AdmittedOnceCorrect == Spec => []AdmittedOnce
<1>1. ConfirmInvariant => AdmittedOnce
  BY DEF ConfirmInvariant, GrantsAnswer
<1> QED BY <1>1, ConfirmCorrect, PTL

\* An amendment takes the grant of an exact action only if it changed the action.
THEOREM DriftCorrect == Spec => []InvalidatedOnlyByDrift
<1>1. ConfirmInvariant => InvalidatedOnlyByDrift
  BY DEF ConfirmInvariant, GrantsFit
<1> QED BY <1>1, ConfirmCorrect, PTL

=============================================================================
