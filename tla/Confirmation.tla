------------------------------ MODULE Confirmation ------------------------------
(***************************************************************************)
(* Dangerous-action confirmation (confirmation.rs, with the parts of       *)
(* decision.rs, lifecycle.rs and the gateway's confirmation runtime that   *)
(* act on its rows).  A dangerous action of the current plan is presented  *)
(* as an expiring challenge; a signed answer of the owner turns it into a  *)
(* durable grant and admits the action; amendments, run control, expiry,   *)
(* refusals, revocations and changes of the owner's remote ingress race    *)
(* with the answer between the moment it is signed and the moment it is    *)
(* applied.                                                                *)
(*                                                                         *)
(* Abstractions.  All delegations have one normalized intent.  A variant   *)
(* of an action stands for its kind, operands, target, tool and            *)
(* consequence, and different actions are materially different; a manifest *)
(* digest is the plan revision; a signature cannot be forged.  A challenge *)
(* whose expiry has passed is lapsed.                                      *)
(***************************************************************************)
EXTENDS Naturals, Sequences, FiniteSets

CONSTANTS
    Delegations, Actions, Variants,
    None,               \* no dangerous leaf, no selection
    Local,              \* the local owner, who is always enrolled
    Owners,             \* credential and ingress of a remote owner that may be configured
    MaxChallenges,      \* bound on presented challenges
    MaxRaces,           \* bound on what races with the answers: two for an amendment, stop,
                        \* resume or revocation, one for a row of the remote ingress
    MaxSigned,          \* bound on answers in flight at one time
    SavedRoutines       \* are saved routine selectors confirmed too?

ASSUME ConfirmationAssumption ==
    /\ None \notin Actions \cup Variants \cup Owners /\ Local \notin Owners
    /\ MaxChallenges \in Nat /\ MaxRaces \in Nat /\ MaxSigned \in Nat
    /\ SavedRoutines \in BOOLEAN

VARIABLES
    plan,       \* the current plan of each delegation
    rev,        \* execass_delegations.state_revision
    challenges, \* execass_confirmation_challenges with their decisions
    grants,     \* execass_accepted_confirmation_grants
    ingress,    \* the remote rows of execass_owner_ingress_bindings, oldest first
    signed,     \* attestations the gateway has signed and not yet applied
    admitted,   \* continuations admitted by a confirmation
    changes     \* how many changes raced with the answers

vars == <<plan, rev, challenges, grants, ingress, signed, admitted, changes>>

Ident(a, v, saved) == <<a, v, saved>>
Idents == Actions \X Variants \X BOOLEAN
Signers == Owners \cup {Local}

ChallengeRow ==
    [del: Delegations, plan: Nat, rev: Nat, rep: Actions, leaf: [Actions -> Variants \cup {None}],
     alts: SUBSET Actions, saved: BOOLEAN, status: {"pending", "resolved", "expired"},
     decision: {"pending", "resolved", "superseded", "expired"},
     result: {"none", "confirm", "refuse"}, selected: Actions \cup {None}, lapsed: BOOLEAN]

GrantRow ==
    [challenge: Nat, del: Delegations, action: Actions, ident: Idents, active: BOOLEAN,
     reason: {"none", "drift", "revoked"}, drifted: BOOLEAN,
     signer: Signers, binding: Nat, plan: Nat]

IngressRow == [owner: Owners, active: BOOLEAN]

\* Plans, challenges, grants and attestations hold values of their types.
TypeOK ==
    /\ plan \in [Delegations -> [rev: Nat, leaf: [Actions -> Variants \cup {None}]]]
    /\ rev \in [Delegations -> Nat]
    /\ challenges \in Seq(ChallengeRow)
    /\ grants \in Seq(GrantRow)
    /\ ingress \in Seq(IngressRow)
    /\ signed \subseteq [challenge: DOMAIN challenges, action: Actions, signer: Signers]
    /\ admitted \subseteq [challenge: DOMAIN challenges, action: Actions]
    /\ changes \in 0..MaxRaces

Init ==
    /\ \E v \in Variants :
         plan = [d \in Delegations |-> [rev |-> 1, leaf |-> [a \in Actions |-> v]]]
    /\ rev = [d \in Delegations |-> 1]
    /\ challenges = <<>> /\ grants = <<>>
    /\ ingress = <<>>
    /\ signed = {} /\ admitted = {}
    /\ changes = 0

-----------------------------------------------------------------------------
(* Presenting a challenge. *)

Dangerous(d) == {a \in Actions : plan[d].leaf[a] # None}

\* The rows that cover an identity: of the delegation, or of any delegation for
\* a saved routine.
InScope(row, d, saved) == saved \/ row.del = d

\* find_active_grant
Covered(d, id) ==
    \E i \in DOMAIN grants :
        grants[i].active /\ grants[i].ident = id /\ InScope(grants[i], d, id[3])

\* The identity a challenge row is found by: its representative alternative's.
RowIdent(c) == Ident(c.rep, c.leaf[c.rep], c.saved)

Matches(c, d, id) == c.status = "pending" /\ RowIdent(c) = id /\ InScope(c, d, id[3])

\* expire_matching_pending_challenges, for one row.
Expired(c) == [c EXCEPT !.status = "expired",
                        !.decision = IF @ = "pending" THEN "expired" ELSE @]

\* ensure_dangerous_action_confirmation and its saved-routine and combined forms:
\* lapsed challenges are expired; a pending one is found or a new one presented.
Present(d, a, alts, saved) ==
    LET id == Ident(a, plan[d].leaf[a], saved)
        swept == [i \in DOMAIN challenges |->
                    IF Matches(challenges[i], d, id) /\ challenges[i].lapsed
                    THEN Expired(challenges[i]) ELSE challenges[i]]
        found == \E i \in DOMAIN swept : Matches(swept[i], d, id)
        new == [del |-> d, plan |-> plan[d].rev, rev |-> rev[d], rep |-> a,
                leaf |-> plan[d].leaf, alts |-> alts, saved |-> saved,
                status |-> "pending", decision |-> "pending", result |-> "none",
                selected |-> None, lapsed |-> FALSE]
    IN
    /\ alts = {a} \/ (~saved /\ alts = Dangerous(d))
    /\ a \in Dangerous(d) /\ ~Covered(d, id)
    /\ \/ found /\ challenges' = swept
       \/ ~found /\ Len(challenges) < MaxChallenges /\ challenges' = Append(swept, new)
    /\ UNCHANGED <<plan, rev, grants, ingress, signed, admitted, changes>>

\* The clock passes a challenge's expires_at.
Lapse(i) ==
    /\ challenges[i].status = "pending" /\ ~challenges[i].lapsed
    /\ challenges' = [challenges EXCEPT ![i].lapsed = TRUE]
    /\ UNCHANGED <<plan, rev, grants, ingress, signed, admitted, changes>>

-----------------------------------------------------------------------------
(* Answering it. *)

\* Storage's view of a challenge that may still be answered.
Answerable(c) ==
    /\ c.status = "pending" /\ c.decision = "pending" /\ ~c.lapsed
    /\ c.rev = rev[c.del]

\* Mutant: any active row of the owner will do, as for the local owner.
OwnerEverActive(signer) ==
    signer = Local \/ \E k \in DOMAIN ingress : ingress[k] = [owner |-> signer, active |-> TRUE]

\* require_active_owner_ingress_binding: the newest remote row is active and names
\* the credential and the ingress of the answer.  The row itself is not compared.
OwnerCurrent(signer) ==
    signer = Local \/ (ingress # <<>> /\ ingress[Len(ingress)] = [owner |-> signer, active |-> TRUE])

\* An event passes the actor gate of a gateway configured with its owner; such a
\* gateway has enrolled the owner when it started, and may run on after another
\* has changed the table.
Configured(signer) == signer = Local \/ \E k \in DOMAIN ingress : ingress[k].owner = signer

\* The owner says yes: the gateway reads the pending alternative of the current
\* plan and signs it for the ingress the event came from.
Sign(i, a, signer) ==
    /\ Answerable(challenges[i]) /\ a \in challenges[i].alts
    /\ challenges[i].plan = plan[challenges[i].del].rev
    /\ Configured(signer) /\ Cardinality(signed) < MaxSigned
    /\ signed' = signed \cup {[challenge |-> i, action |-> a, signer |-> signer]}
    /\ UNCHANGED <<plan, rev, challenges, grants, ingress, admitted, changes>>

\* Mutant: the identity is unique among the active grants only.
IdentTakenActive(d, id) ==
    \E i \in DOMAIN grants : grants[i].active /\ grants[i].del = d /\ grants[i].ident = id

\* UNIQUE (delegation_id, confirmed_logical_action_identity)
IdentTaken(d, id) == \E i \in DOMAIN grants : grants[i].del = d /\ grants[i].ident = id

\* require_exact_attestation_binding, and what the tables accept.
Acceptable(s) ==
    LET c == challenges[s.challenge] IN
    /\ Answerable(c) /\ c.plan = plan[c.del].rev
    /\ OwnerCurrent(s.signer)
    /\ ~IdentTaken(c.del, Ident(s.action, c.leaf[s.action], c.saved))

\* Mutant: the grant is recorded for the representative, not for the selection.
GrantRepresentative(s) ==
    LET c == challenges[s.challenge] IN
    [challenge |-> s.challenge, del |-> c.del, action |-> c.rep,
     ident |-> Ident(c.rep, c.leaf[c.rep], c.saved), active |-> TRUE,
     reason |-> "none", drifted |-> FALSE,
     signer |-> s.signer, binding |-> Len(ingress), plan |-> plan[c.del].rev]

NewGrant(s) ==
    LET c == challenges[s.challenge] IN
    [challenge |-> s.challenge, del |-> c.del, action |-> s.action,
     ident |-> Ident(s.action, c.leaf[s.action], c.saved), active |-> TRUE,
     reason |-> "none", drifted |-> FALSE,
     signer |-> s.signer, binding |-> Len(ingress), plan |-> plan[c.del].rev]

\* confirm_dangerous_action_attested_atomically: decision, challenge, grant and
\* continuation in one transaction.
Accept(s) ==
    /\ s \in signed /\ Acceptable(s)
    /\ challenges' = [challenges EXCEPT ![s.challenge].status = "resolved",
                                        ![s.challenge].decision = "resolved",
                                        ![s.challenge].result = "confirm",
                                        ![s.challenge].selected = s.action]
    /\ grants' = Append(grants, NewGrant(s))
    /\ admitted' = admitted \cup {[challenge |-> s.challenge, action |-> s.action]}
    /\ signed' = signed \ {s}
    /\ UNCHANGED <<plan, rev, ingress, changes>>

\* The transaction fails or finds the decision resolved; the caller gets the
\* recorded grant or the error.
Reject(s) ==
    /\ s \in signed /\ ~Acceptable(s)
    /\ signed' = signed \ {s}
    /\ UNCHANGED <<plan, rev, challenges, grants, ingress, admitted, changes>>

\* The owner revises or declines (resolve_decision_atomically).
Refuse(i, a) ==
    /\ Answerable(challenges[i]) /\ a \in challenges[i].alts
    /\ challenges' = [challenges EXCEPT ![i].status = "resolved", ![i].decision = "resolved",
                                        ![i].result = "refuse", ![i].selected = a]
    /\ UNCHANGED <<plan, rev, grants, ingress, signed, admitted, changes>>

-----------------------------------------------------------------------------
(* What races with the answer. *)

Races == 2 * changes + Len(ingress)

Change == Races + 2 <= MaxRaces /\ changes' = changes + 1

\* Mutant: an amendment leaves the grants of changed actions alone.
ReconciledNever(g, leaf) == g

\* Mutant: an amendment invalidates every grant of the delegation.
ReconciledAlways(g, leaf) ==
    IF g.active
    THEN [g EXCEPT !.active = FALSE, !.reason = "drift", !.drifted = leaf[g.action] # g.ident[2]]
    ELSE g

\* reconcile_accepted_confirmation_grants_for_amendment_in_tx: a grant whose
\* action is dangerous in the new plan must match its exact binding.
Reconciled(g, leaf) ==
    IF g.active /\ leaf[g.action] # None /\ g.ident # Ident(g.action, leaf[g.action], FALSE)
    THEN [g EXCEPT !.active = FALSE, !.reason = "drift",
                   !.drifted = leaf[g.action] # g.ident[2]]
    ELSE g

\* apply_verified_follow_up_amendment: a new plan, the pending decisions
\* superseded, the grants reconciled.  The challenge rows are left as they are.
Amend(d, leaf) ==
    /\ Change
    /\ plan' = [plan EXCEPT ![d] = [rev |-> @.rev + 1, leaf |-> leaf]]
    /\ rev' = [rev EXCEPT ![d] = @ + 1]
    /\ challenges' = [i \in DOMAIN challenges |->
                        IF challenges[i].del = d /\ challenges[i].decision = "pending"
                        THEN [challenges[i] EXCEPT !.decision = "superseded"]
                        ELSE challenges[i]]
    /\ grants' = [i \in DOMAIN grants |->
                    IF grants[i].del = d THEN Reconciled(grants[i], leaf) ELSE grants[i]]
    /\ UNCHANGED <<ingress, signed, admitted>>

\* A stop or a resume of the delegation advances its revision.
Advance(d) ==
    /\ Change
    /\ rev' = [rev EXCEPT ![d] = @ + 1]
    /\ UNCHANGED <<plan, challenges, grants, ingress, signed, admitted>>

\* invalidate_confirmation_grant_by_owner
Revoke(i) ==
    /\ grants[i].active /\ Change
    /\ grants' = [grants EXCEPT ![i].active = FALSE, ![i].reason = "revoked"]
    /\ UNCHANGED <<plan, rev, challenges, ingress, signed, admitted>>

\* reconcile_remote_confirmation_ingress, at a gateway's start: a configured owner
\* that is not the current one is enrolled by a new row, also one retired before;
\* without a configured owner the current one is retired by a new row.
ReconcileIngress(configured) ==
    LET last == ingress[Len(ingress)] IN
    /\ Races < MaxRaces
    /\ \/ /\ configured \in Owners /\ ~OwnerCurrent(configured)
          /\ ingress' = Append(ingress, [owner |-> configured, active |-> TRUE])
       \/ /\ configured = None
          /\ ingress # <<>> /\ last.active
          /\ ingress' = Append(ingress, [owner |-> last.owner, active |-> FALSE])
    /\ UNCHANGED <<plan, rev, challenges, grants, signed, admitted, changes>>

-----------------------------------------------------------------------------
Next ==
    \/ \E d \in Delegations, a \in Actions, alts \in SUBSET Actions, saved \in BOOLEAN :
         (saved => SavedRoutines) /\ Present(d, a, alts, saved)
    \/ \E i \in DOMAIN challenges : Lapse(i)
    \/ \E i \in DOMAIN challenges, a \in Actions, signer \in Signers :
         Sign(i, a, signer)
    \/ \E i \in DOMAIN challenges, a \in Actions : Refuse(i, a)
    \/ \E s \in signed : Accept(s) \/ Reject(s)
    \/ \E d \in Delegations, leaf \in [Actions -> Variants \cup {None}] : Amend(d, leaf)
    \/ \E d \in Delegations : Advance(d)
    \/ \E i \in DOMAIN grants : Revoke(i)
    \/ \E configured \in Owners \cup {None} : ReconcileIngress(configured)

Spec == Init /\ [][Next]_vars

-----------------------------------------------------------------------------
(* Properties. *)

\* A grant says what the owner said: it stands for the alternative selected in
\* a challenge that was confirmed, on the plan in force when it was applied, and
\* never for a challenge that was refused, superseded or expired first.
GrantIsTheAnswer ==
    \A i \in DOMAIN grants :
        LET g == grants[i]
            c == challenges[g.challenge]
        IN
        /\ c.status = "resolved" /\ c.decision = "resolved" /\ c.result = "confirm"
        /\ c.selected = g.action /\ g.action \in c.alts
        /\ g.ident = Ident(g.action, c.leaf[g.action], c.saved)
        /\ g.plan = c.plan
        /\ \A j \in DOMAIN grants : grants[j].challenge = g.challenge => i = j

\* A remote answer becomes a grant only while the newest row of the owner's ingress
\* enrols the one who gave it: an answer signed before its owner was retired or
\* replaced confirms nothing, unless the same owner has been enrolled again.
GrantByCurrentOwner ==
    \A i \in DOMAIN grants :
        LET g == grants[i] IN
        g.signer # Local =>
            /\ g.binding \in DOMAIN ingress
            /\ ingress[g.binding] = [owner |-> g.signer, active |-> TRUE]

\* After any sequence of amendments an active grant of an exact action agrees
\* with the plan ("material drift invalidates the earlier grant").
ActiveGrantFitsPlan ==
    \A i \in DOMAIN grants :
        LET g == grants[i]
            v == plan[g.del].leaf[g.action]
        IN g.active /\ ~g.ident[3] /\ v # None => g.ident[2] = v

\* An exact action of a delegation is admitted once, although combined and
\* single questions about it can be open at the same time.
AdmittedOnce ==
    LET What(x) == LET c == challenges[x.challenge]
                   IN <<c.del, Ident(x.action, c.leaf[x.action], c.saved)>>
    IN \A x, y \in admitted : What(x) = What(y) => x = y

\* An amendment invalidates the grant of an exact action only when the action
\* changed ("only material action drift or an explicit action-specific owner
\* amendment, revocation, or cancellation can invalidate it").  The grant of a
\* saved routine is lost with any amendment that keeps its action.
InvalidatedOnlyByDrift ==
    \A i \in DOMAIN grants :
        grants[i].reason = "drift" /\ ~grants[i].ident[3] => grants[i].drifted

=============================================================================
