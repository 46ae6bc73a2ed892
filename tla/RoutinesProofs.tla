----------------------------- MODULE RoutinesProofs -----------------------------
(***************************************************************************)
(* Every instant of a routine is evaluated once and leads to one           *)
(* delegation at most, for every set of workers and schedules, every       *)
(* length of days, leases and intervals, and every number of changes.      *)
(* Which instants are due (DueCandidates, Resolve) does not matter here.   *)
(***************************************************************************)
EXTENDS Routines, TLAPS

\* The shape of the state the two properties rest on.
RoutineShape ==
    /\ now \in Time /\ cursor \in Time \cup {-1}
    /\ wk \in [Workers -> [busy: BOOLEAN, clk: Time, exp: Int]]
    /\ judged \in [Time -> Nat] /\ runs \in [Time -> Nat]
    /\ occ = [i \in DOMAIN occ |-> occ[i]]
    /\ \A i \in DOMAIN occ :
         occ[i] = [ver |-> occ[i].ver, pol |-> occ[i].pol, status |-> occ[i].status,
                   enabled |-> occ[i].enabled, leased |-> occ[i].leased,
                   ops |-> occ[i].ops]

\* An instant that led to a delegation is settled, by the admission and nothing
\* else, and its trigger disabled.
RunsAreSettled ==
    \A i \in Time :
        /\ runs[i] \in {0, 1}
        /\ runs[i] = 1 => /\ i \in DOMAIN occ /\ occ[i].ops = {"admit"}
                          /\ occ[i].status = "settled" /\ ~occ[i].enabled

RoutineInvariant == RoutineShape /\ JudgedOnce /\ RunsAreSettled

-----------------------------------------------------------------------------
\* The invariant holds of a routine just created.
LEMMA RoutineInit == Init => RoutineInvariant
<1> SUFFICES ASSUME Init PROVE RoutineInvariant
  OBVIOUS
<1>1. MaxTime \in Nat /\ Time = 0..MaxTime
  BY RoutinesAssumption DEF Time
<1>2. occ = <<>> /\ DOMAIN occ = {}
  BY DEF Init
<1>3. RoutineShape
  BY <1>1, <1>2 DEF Init, RoutineShape, IdleWorker
<1>4. JudgedOnce /\ RunsAreSettled
  BY <1>1 DEF Init, JudgedOnce, RunsAreSettled
<1> QED BY <1>3, <1>4 DEF RoutineInvariant

\* Evaluations move the cursor to the clock they read and judge what lies
\* between.
LEMMA EvaluationStep ==
    ASSUME RoutineInvariant, NEW w \in Workers, Materialize(w)
    PROVE  RoutineInvariant'
<1>1. MaxTime \in Nat /\ Time = 0..MaxTime
  BY RoutinesAssumption DEF Time
<1>2. wk[w].clk \in Time /\ cursor \in Time \cup {-1} /\ judged \in [Time -> Nat]
  BY DEF RoutineInvariant, RoutineShape
<1>3. wk' \in [Workers -> [busy: BOOLEAN, clk: Time, exp: Int]]
  <2>1. IdleWorker \in [busy: BOOLEAN, clk: Time, exp: Int]
    BY <1>1 DEF IdleWorker
  <2> QED BY <2>1 DEF Materialize, RoutineInvariant, RoutineShape
<1>4. now' = now /\ runs' = runs
  BY DEF Materialize
<1>5. /\ cursor' \in Time \cup {-1} /\ judged' \in [Time -> Nat]
      /\ JudgedOnce'
  <2>1. CASE cursor' = cursor /\ judged' = judged
    BY <2>1 DEF RoutineInvariant, RoutineShape, JudgedOnce
  <2>2. CASE cursor' = wk[w].clk /\ wk[w].clk > cursor /\ Judge(wk[w].clk)
    <3>1. judged' = [t \in Time |-> IF Start < t /\ t <= wk[w].clk THEN judged[t] + 1 ELSE judged[t]]
      BY <2>2 DEF Judge
    <3>2. \A t \in Time : judged'[t] = IF 0 < t /\ t <= wk[w].clk THEN 1 ELSE 0
      <4> SUFFICES ASSUME NEW t \in Time PROVE judged'[t] = IF 0 < t /\ t <= wk[w].clk THEN 1 ELSE 0
        OBVIOUS
      <4>1. judged[t] = IF 0 < t /\ t <= cursor THEN 1 ELSE 0
        BY DEF RoutineInvariant, JudgedOnce
      <4>2. Start = IF cursor = -1 THEN 0 ELSE cursor
        BY DEF Start
      <4>3. judged'[t] = IF Start < t /\ t <= wk[w].clk THEN judged[t] + 1 ELSE judged[t]
        BY <3>1
      <4> QED BY <1>1, <1>2, <2>2, <4>1, <4>2, <4>3
    <3> QED BY <1>2, <2>2, <3>1, <3>2 DEF JudgedOnce
  <2> QED BY <2>1, <2>2 DEF Materialize, Evaluate
<1>6. /\ occ' = [i \in DOMAIN occ' |-> occ'[i]]
      /\ \A i \in DOMAIN occ :
           i \in DOMAIN occ' /\ occ'[i] = occ[i]
      /\ \A i \in DOMAIN occ' : i \notin DOMAIN occ => occ'[i] = Reserved(i)
  <2>1. CASE occ' = occ
    BY <2>1 DEF RoutineInvariant, RoutineShape
  <2>2. ASSUME NEW selected, Reserve(selected)
        PROVE  /\ occ' = [i \in DOMAIN occ' |-> occ'[i]]
               /\ \A i \in DOMAIN occ :
                    i \in DOMAIN occ' /\ occ'[i] = occ[i]
               /\ \A i \in DOMAIN occ' : i \notin DOMAIN occ => occ'[i] = Reserved(i)
    BY <2>2 DEF Reserve
  <2> QED BY <2>1, <2>2 DEF Materialize, Evaluate
<1>7. RoutineShape'
  BY <1>3, <1>4, <1>5, <1>6 DEF RoutineInvariant, RoutineShape, Reserved
<1>8. RunsAreSettled'
  BY <1>4, <1>6 DEF RoutineInvariant, RunsAreSettled
<1> QED BY <1>5, <1>7, <1>8 DEF RoutineInvariant

\* The steps of a trigger change one occurrence, and a settled one is left
\* settled.
LEMMA TriggerStep ==
    ASSUME RoutineInvariant, NEW i \in DOMAIN occ,
           AcquireTrigger(i) \/ LapseTrigger(i) \/ Plan(i) \/ Settle(i) \/ Admit(i)
    PROVE  RoutineInvariant'
<1>1. /\ UNCHANGED <<now, cursor, wk, judged>>
      /\ DOMAIN occ' = DOMAIN occ /\ occ' = [k \in DOMAIN occ' |-> occ'[k]]
      /\ \A k \in DOMAIN occ \ {i} : occ'[k] = occ[k]
  BY DEF AcquireTrigger, LapseTrigger, Plan, Settle, Admit, RoutineInvariant, RoutineShape
<1>2. occ[i] = [ver |-> occ[i].ver, pol |-> occ[i].pol, status |-> occ[i].status,
                enabled |-> occ[i].enabled, leased |-> occ[i].leased,
                ops |-> occ[i].ops]
  BY DEF RoutineInvariant, RoutineShape
<1>3. CASE Admit(i)
  <2>1. occ'[i] = [ver |-> occ[i].ver, pol |-> occ[i].pol, status |-> "settled", enabled |-> FALSE,
                   leased |-> FALSE, ops |-> {"admit"}]
    BY <1>2, <1>3 DEF Admit, Admitted, TriggerOpen, RoutineInvariant, RoutineShape
  <2>2. runs' \in [Time -> Nat] /\ \A k \in Time \ {i} : runs'[k] = runs[k]
    <3>1. runs \in [Time -> Nat] /\ runs' = [runs EXCEPT ![i] = runs[i] + 1]
      BY <1>3 DEF Admit, RoutineInvariant, RoutineShape
    <3>2. CASE i \in Time
      BY <3>1, <3>2
    <3>3. CASE i \notin Time
      BY <3>1, <3>3
    <3> QED BY <3>2, <3>3
  <2>3. i \in Time => runs'[i] = 1
    BY <1>3 DEF Admit, RoutineInvariant, RoutineShape, RunsAreSettled
  <2>4. RunsAreSettled'
    BY <1>1, <2>1, <2>2, <2>3 DEF RoutineInvariant, RunsAreSettled
  <2>5. RoutineShape'
    BY <1>1, <2>1, <2>2 DEF RoutineInvariant, RoutineShape
  <2> QED BY <1>1, <2>4, <2>5 DEF RoutineInvariant, JudgedOnce
<1>4. CASE AcquireTrigger(i) \/ LapseTrigger(i) \/ Plan(i) \/ Settle(i)
  <2>1. runs' = runs
    BY <1>4 DEF AcquireTrigger, LapseTrigger, Plan, Settle
  <2>2. /\ occ'[i].status = "settled" \/ occ[i].status # "settled"
        /\ occ'[i].enabled => occ[i].enabled
        /\ occ[i].status = "settled" => occ'[i].ops = occ[i].ops
        /\ occ'[i] = [ver |-> occ'[i].ver, pol |-> occ'[i].pol, status |-> occ'[i].status,
                      enabled |-> occ'[i].enabled, leased |-> occ'[i].leased,
                      ops |-> occ'[i].ops]
    <3>1. CASE AcquireTrigger(i) \/ LapseTrigger(i)
      BY <1>2, <3>1 DEF AcquireTrigger, LapseTrigger, RoutineInvariant, RoutineShape
    <3>2. CASE Plan(i)
      BY <1>2, <3>2 DEF Plan, RoutineInvariant, RoutineShape
    <3>3. CASE Settle(i)
      BY <1>2, <3>3 DEF Settle, RoutineInvariant, RoutineShape
    <3> QED BY <1>4, <3>1, <3>2, <3>3
  <2>3. RunsAreSettled'
    BY <1>1, <2>1, <2>2 DEF RoutineInvariant, RunsAreSettled
  <2>4. RoutineShape'
    BY <1>1, <2>1, <2>2 DEF RoutineInvariant, RoutineShape
  <2> QED BY <1>1, <2>3, <2>4 DEF RoutineInvariant, JudgedOnce
<1> QED BY <1>3, <1>4

\* Leases, the owner, the runtime control and the clock leave both alone.
LEMMA QuietStep ==
    ASSUME RoutineInvariant,
           \/ \E w \in Workers : AcquireDriver(w) \/ Abandon(w)
           \/ \E settings \in Schedules, enabled \in BOOLEAN : Amend(settings, enabled)
           \/ SetEnabled \/ Control \/ Tick
           \/ \E t \in Time : SetClockBack(t)
           \/ UNCHANGED vars
    PROVE  RoutineInvariant'
<1>1. MaxTime \in Nat /\ Time = 0..MaxTime /\ LeaseMs \in Nat
  BY RoutinesAssumption DEF Time
<1>2. UNCHANGED <<cursor, occ, judged, runs>>
  BY DEF AcquireDriver, Abandon, Amend, SetEnabled, Control, Tick, SetClockBack, vars
<1>3. now' \in Time
  BY <1>1 DEF AcquireDriver, Abandon, Amend, SetEnabled, Control, Tick, SetClockBack, vars,
              RoutineInvariant, RoutineShape
<1>4. wk' \in [Workers -> [busy: BOOLEAN, clk: Time, exp: Int]]
  <2>1. ASSUME NEW w \in Workers, AcquireDriver(w)
        PROVE  wk' \in [Workers -> [busy: BOOLEAN, clk: Time, exp: Int]]
    <3>1. [busy |-> TRUE, clk |-> now, exp |-> now + LeaseMs] \in [busy: BOOLEAN, clk: Time, exp: Int]
      BY <1>1 DEF RoutineInvariant, RoutineShape
    <3> QED BY <2>1, <3>1 DEF AcquireDriver, RoutineInvariant, RoutineShape
  <2>2. ASSUME NEW w \in Workers, Abandon(w)
        PROVE  wk' \in [Workers -> [busy: BOOLEAN, clk: Time, exp: Int]]
    <3>1. IdleWorker \in [busy: BOOLEAN, clk: Time, exp: Int]
      BY <1>1 DEF IdleWorker
    <3> QED BY <2>2, <3>1 DEF Abandon, RoutineInvariant, RoutineShape
  <2>3. (\E w \in Workers : AcquireDriver(w) \/ Abandon(w)) \/ wk' = wk
    BY DEF Amend, SetEnabled, Control, Tick, SetClockBack, vars
  <2> QED BY <2>1, <2>2, <2>3 DEF RoutineInvariant, RoutineShape
<1>5. RoutineShape'
  BY <1>2, <1>3, <1>4 DEF RoutineInvariant, RoutineShape
<1> QED BY <1>2, <1>5 DEF RoutineInvariant, JudgedOnce, RunsAreSettled

\* The inductive invariant (materialize_due_routine_occurrences,
\* admit_claimed_routine_occurrence).
THEOREM RoutineCorrect == Spec => []RoutineInvariant
<1>1. RoutineInvariant /\ [Next]_vars => RoutineInvariant'
  BY EvaluationStep, TriggerStep, QuietStep DEF Next
<1> QED BY RoutineInit, <1>1, PTL DEF Spec

\* No instant is evaluated twice and none is left out, whatever the clock, a
\* dead worker, a pause or an amendment did in between (JudgedOnce).
THEOREM JudgedCorrect == Spec => []JudgedOnce
<1>1. RoutineInvariant => JudgedOnce
  BY DEF RoutineInvariant
<1> QED BY <1>1, RoutineCorrect, PTL

\* An instant leads to one delegation at most, and to none once its trigger was
\* settled without one (OneRunPerInstant).
THEOREM OneRunCorrect == Spec => []OneRunPerInstant
<1>1. RoutineInvariant => OneRunPerInstant
  BY DEF RoutineInvariant, RunsAreSettled, OneRunPerInstant
<1> QED BY <1>1, RoutineCorrect, PTL

=============================================================================
