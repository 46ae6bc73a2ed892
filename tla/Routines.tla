-------------------------------- MODULE Routines --------------------------------
(***************************************************************************)
(* Saved routines (routines.rs, routine_admission.rs and the scheduler's   *)
(* driver step).  A routine has a daily local time in a time zone; its     *)
(* driver job evaluates the time since its cursor, reserves the            *)
(* occurrences the catch-up policy selects with one trigger job each, and  *)
(* a leased trigger is planned, settled or admitted as a delegation of its *)
(* own.  Amendments, pauses, the global stop, a new policy, dead workers   *)
(* and a clock that is set back race with all of it.                       *)
(*                                                                         *)
(* Abstractions.  One routine, created at time 0.  Time is counted in      *)
(* units; a local day has DayLen of them and a zone changes its offset     *)
(* once.  The immutable version rows are their number and policy revision; *)
(* the checks of source plan, danger proof and saved grant may refuse an   *)
(* admission, which changes nothing.  The gateway of this build leases     *)
(* trigger jobs and calls none of the three trigger operations.            *)
(***************************************************************************)
EXTENDS Integers, Sequences, FiniteSets

CONSTANTS
    Workers,            \* scheduler loops, one per gateway process
    None,               \* no lease holder
    Schedules,          \* the settings the owner chooses from: zone, local time, policies
    DayLen,             \* units of a local day
    LeaseMs,            \* 30 s lease of acquire_due_jobs
    Interval,           \* 60 s between two evaluations
    MaxTime,            \* bound on the clock
    MaxChanges          \* bound on amendments, pauses, stops, new policies, clock rollbacks

ASSUME RoutinesAssumption ==
    /\ DayLen \in Nat \ {0} /\ LeaseMs \in Nat \ {0} /\ Interval \in Nat \ {0}
    /\ \A s \in Schedules :
         /\ s.zone.at \in Nat /\ s.zone.before \in Nat /\ s.zone.after \in Nat
         /\ s.hour \in 0..(DayLen - 1) /\ s.cap \in 1..10
         /\ s.overlap \in {"earlier", "later"}
         /\ s.catchUp \in {"skip", "latest_only", "replay"}
    /\ MaxTime \in Nat /\ MaxChanges \in Nat
    /\ None \notin Workers

VARIABLES
    now,        \* the wall clock
    routine,    \* execass_routines with the schedule in force
    cursor,     \* last_evaluated_instant_ms
    driver,     \* the driver job's next_run_at and lease
    occ,        \* execass_routine_occurrences with trigger jobs, by instant
    ctl,        \* execass_global_runtime_control
    wk,         \* each scheduler loop: the driver lease it works under
    judged,     \* history: how many evaluations covered each instant
    runs,       \* history: delegations admitted for each instant
    changes     \* how many changes were made

vars == <<now, routine, cursor, driver, occ, ctl, wk, judged, runs, changes>>

Time == 0..MaxTime
Lease == [owner: Workers \cup {None}, exp: Int]
NoLease == [owner |-> None, exp |-> 0]

OccurrenceRow ==
    [ver: Nat, pol: Nat, status: {"planned", "admission_planned", "settled"},
     enabled: BOOLEAN, leased: BOOLEAN, ops: SUBSET {"settle", "admit"}]

\* The rows and the scheduler loops hold values of their types.
TypeOK ==
    /\ now \in Time
    /\ routine \in [ver: 1..(MaxChanges + 1), pol: Nat, enabled: BOOLEAN, set: Schedules]
    /\ cursor \in Time \cup {-1}
    /\ driver \in [next: Nat, lease: Lease]
    /\ DOMAIN occ \subseteq Time /\ \A i \in DOMAIN occ : occ[i] \in OccurrenceRow
    /\ ctl \in [engaged: BOOLEAN, pol: Nat]
    /\ wk \in [Workers -> [busy: BOOLEAN, clk: Time, exp: Int]]
    /\ judged \in [Time -> Nat] /\ runs \in [Time -> Nat]
    /\ changes \in 0..MaxChanges

IdleWorker == [busy |-> FALSE, clk |-> 0, exp |-> 0]

\* create_routine: no cursor yet, the driver job is due at once.
Init ==
    /\ now = 0
    /\ routine \in [ver: {1}, pol: {1}, enabled: BOOLEAN, set: Schedules]
    /\ cursor = -1
    /\ driver = [next |-> 0, lease |-> NoLease]
    /\ occ = <<>>
    /\ ctl = [engaged |-> FALSE, pol |-> 1]
    /\ wk = [w \in Workers |-> IdleWorker]
    /\ judged = [t \in Time |-> 0] /\ runs = [t \in Time |-> 0]
    /\ changes = 0

-----------------------------------------------------------------------------
(* Local time. *)

MinOf(S) == CHOOSE x \in S : \A y \in S : x <= y
MaxOf(S) == CHOOSE x \in S : \A y \in S : x >= y

Local(z, t) == t + (IF t < z.at THEN z.before ELSE z.after)
LocalDay(z, t) == Local(z, t) \div DayLen

\* from_local_datetime: none in a gap, two in an overlap.
Instants(z, l) == {t \in 0..(MaxTime + 2 * DayLen) : Local(z, t) = l}

\* resolve_routine_local_time: a gap is advanced to the next local time that
\* exists, an overlap resolved by policy.
Resolve(r, day) ==
    LET wanted == day * DayLen + r.hour
        found == Instants(r.zone, MinOf({l \in wanted..(wanted + DayLen) : Instants(r.zone, l) # {}}))
    IN IF r.overlap = "earlier" THEN MinOf(found) ELSE MaxOf(found)

\* Where the time not yet evaluated begins: the cursor, or the creation.
Start == IF cursor = -1 THEN 0 ELSE cursor

\* due_candidates: one candidate per local day of the window, in order.
DueCandidates(r, start, upto) ==
    LET first == LocalDay(r.zone, start)
        n == LocalDay(r.zone, upto) - first + 1
    IN SelectSeq([i \in 1..n |-> Resolve(r, first + i - 1)],
                 LAMBDA t : start < t /\ t <= upto)

\* Mutant: the replay takes the oldest instants.
SelectOldest(r, due) ==
    LET n == Len(due) IN
    CASE r.catchUp = "skip" \/ n = 0 -> {}
      [] r.catchUp = "latest_only" /\ n > 0 -> {due[n]}
      [] r.catchUp = "replay" /\ n > 0 -> {due[i] : i \in {j \in 1..n : j <= r.cap}}

\* select_catch_up_occurrences
Select(r, due) ==
    LET n == Len(due) IN
    CASE r.catchUp = "skip" \/ n = 0 -> {}
      [] r.catchUp = "latest_only" /\ n > 0 -> {due[n]}
      [] r.catchUp = "replay" /\ n > 0 ->
           {due[i] : i \in {j \in 1..n : j > n - r.cap}}

-----------------------------------------------------------------------------
(* The scheduler loop and the driver. *)

Leasable(lease) == lease.owner = None \/ lease.exp < now

\* acquire_due_jobs hands the driver job out; the loop keeps the clock it read.
AcquireDriver(w) ==
    /\ ~wk[w].busy /\ driver.next <= now /\ Leasable(driver.lease)
    /\ driver' = [driver EXCEPT !.lease = [owner |-> w, exp |-> now + LeaseMs]]
    /\ wk' = [wk EXCEPT ![w] = [busy |-> TRUE, clk |-> now, exp |-> now + LeaseMs]]
    /\ UNCHANGED <<now, routine, cursor, occ, ctl, judged, runs, changes>>

\* advance_driver_job.  It is recorded under the clock, so that a clock that was
\* set back can meet a used identity: such an evaluation fails as in Abandon.
Advanced(w) == driver' = [next |-> wk[w].clk + Interval, lease |-> NoLease]

\* The window of an evaluation is accounted for in the history.
Judge(upto) == judged' = [t \in Time |-> IF Start < t /\ t <= upto THEN judged[t] + 1 ELSE judged[t]]

\* reserve_candidates: INSERT OR IGNORE of occurrence and trigger job.  An
\* instant that is reserved for another version, or whose trigger is settled,
\* fails the whole evaluation.
Reservable(i) == i \in DOMAIN occ => occ[i].ver = routine.ver /\ occ[i].enabled

Reserved(i) ==
    [ver |-> routine.ver, pol |-> routine.pol, status |-> "planned", enabled |-> TRUE,
     leased |-> FALSE, ops |-> {}]

Reserve(selected) ==
    /\ \A i \in selected : Reservable(i)
    /\ occ' = [i \in DOMAIN occ \cup selected |-> IF i \in DOMAIN occ THEN occ[i] ELSE Reserved(i)]

DriverLeased(w) ==
    /\ wk[w].busy
    /\ driver.lease = [owner |-> w, exp |-> wk[w].exp] /\ wk[w].exp > wk[w].clk

\* Mutant: a pause does not move the cursor.
EvaluateKeepsPausedTime(w) ==
    LET upto == wk[w].clk IN
    /\ DriverLeased(w)
    /\ \/ /\ upto <= cursor /\ UNCHANGED <<cursor, occ, judged>>
       \/ /\ upto > cursor /\ ~routine.enabled /\ Judge(upto) /\ UNCHANGED <<cursor, occ>>
       \/ /\ upto > cursor /\ routine.enabled /\ cursor' = upto /\ Judge(upto)
          /\ Reserve(Select(routine.set, DueCandidates(routine.set, Start, upto)))
    /\ Advanced(w)

\* materialize_due_routine_occurrences: nothing below the cursor, a paused
\* routine lets its time pass, an enabled one reserves what is due.
Evaluate(w) ==
    LET upto == wk[w].clk IN
    /\ DriverLeased(w)
    /\ \/ /\ upto <= cursor /\ UNCHANGED <<cursor, occ, judged>>
       \/ /\ upto > cursor /\ ~routine.enabled /\ cursor' = upto /\ Judge(upto) /\ UNCHANGED occ
       \/ /\ upto > cursor /\ routine.enabled /\ cursor' = upto /\ Judge(upto)
          /\ Reserve(Select(routine.set, DueCandidates(routine.set, Start, upto)))
    /\ Advanced(w)

Materialize(w) ==
    /\ Evaluate(w)
    /\ wk' = [wk EXCEPT ![w] = IdleWorker]
    /\ UNCHANGED <<now, routine, ctl, runs, changes>>

\* The evaluation bails out (or its process dies); the lease is left to expire.
Abandon(w) ==
    /\ wk[w].busy
    /\ wk' = [wk EXCEPT ![w] = IdleWorker]
    /\ UNCHANGED <<now, routine, cursor, driver, occ, ctl, judged, runs, changes>>

-----------------------------------------------------------------------------
(* Triggers. *)

\* acquire_due_jobs hands a trigger job out; every operation on it names the
\* owner and the expiry of that lease ...
AcquireTrigger(i) ==
    /\ occ[i].enabled /\ i <= now /\ ~occ[i].leased
    /\ occ' = [occ EXCEPT ![i].leased = TRUE]
    /\ UNCHANGED <<now, routine, cursor, driver, ctl, wk, judged, runs, changes>>

\* ... and its lease runs out.
LapseTrigger(i) ==
    /\ occ[i].leased
    /\ occ' = [occ EXCEPT ![i].leased = FALSE]
    /\ UNCHANGED <<now, routine, cursor, driver, ctl, wk, judged, runs, changes>>

\* The refusals shared by planning and admission: paused, superseded, stopped,
\* policy changed.
Admissible(i) ==
    /\ routine.enabled /\ routine.ver = occ[i].ver
    /\ ~ctl.engaged /\ ctl.pol = routine.pol /\ ctl.pol = occ[i].pol

\* plan_routine_occurrence_admission
Plan(i) ==
    /\ occ[i].status = "planned" /\ Admissible(i) /\ occ[i].leased
    /\ occ' = [occ EXCEPT ![i].status = "admission_planned"]
    /\ UNCHANGED <<now, routine, cursor, driver, ctl, wk, judged, runs, changes>>

\* settle_routine_trigger: the trigger is disabled, the occurrence stays planned.
Settle(i) ==
    /\ occ[i].status = "admission_planned" /\ occ[i].leased /\ occ[i].ops = {}
    /\ occ' = [occ EXCEPT ![i].ops = @ \cup {"settle"}, ![i].enabled = FALSE, ![i].leased = FALSE]
    /\ UNCHANGED <<now, routine, cursor, driver, ctl, wk, judged, runs, changes>>

\* Mutant: an admission does not look at its trigger.
TriggerAny(i) == TRUE

\* trigger_matches: the trigger job is enabled and leased; and an occurrence has
\* one trigger operation (UNIQUE).
TriggerOpen(i) == occ[i].enabled /\ occ[i].leased /\ occ[i].ops = {}

Admitted(row) ==
    [row EXCEPT !.status = "settled", !.ops = @ \cup {"admit"}, !.enabled = FALSE, !.leased = FALSE]

\* admit_claimed_routine_occurrence: delegation, occurrence and trigger in one
\* transaction; a settled occurrence is replayed.
Admit(i) ==
    /\ occ[i].status # "settled" /\ Admissible(i) /\ TriggerOpen(i)
    /\ occ' = [occ EXCEPT ![i] = Admitted(@)]
    /\ runs' = [runs EXCEPT ![i] = @ + 1]
    /\ UNCHANGED <<now, routine, cursor, driver, ctl, wk, judged, changes>>

-----------------------------------------------------------------------------
(* The owner, the runtime control and the clock. *)

Change == changes < MaxChanges /\ changes' = changes + 1

\* amend_routine: the next version, perhaps another schedule; the cursor stays.
Amend(settings, enabled) ==
    /\ Change
    /\ routine' = [ver |-> routine.ver + 1, pol |-> ctl.pol, enabled |-> enabled, set |-> settings]
    /\ UNCHANGED <<now, cursor, driver, occ, ctl, wk, judged, runs>>

SetEnabled ==
    /\ Change
    /\ routine' = [routine EXCEPT !.enabled = ~@]
    /\ UNCHANGED <<now, cursor, driver, occ, ctl, wk, judged, runs>>

Control ==
    /\ Change
    /\ \/ ctl' = [ctl EXCEPT !.engaged = ~@]
       \/ ctl' = [ctl EXCEPT !.pol = @ + 1]
    /\ UNCHANGED <<now, routine, cursor, driver, occ, wk, judged, runs>>

Tick ==
    /\ now < MaxTime /\ now' = now + 1
    /\ UNCHANGED <<routine, cursor, driver, occ, ctl, wk, judged, runs, changes>>

SetClockBack(t) ==
    /\ t < now /\ Change
    /\ now' = t
    /\ UNCHANGED <<routine, cursor, driver, occ, ctl, wk, judged, runs>>

-----------------------------------------------------------------------------
Next ==
    \/ \E w \in Workers : AcquireDriver(w) \/ Materialize(w) \/ Abandon(w)
    \/ \E i \in DOMAIN occ :
         AcquireTrigger(i) \/ LapseTrigger(i) \/ Plan(i) \/ Settle(i) \/ Admit(i)
    \/ \E settings \in Schedules, enabled \in BOOLEAN : Amend(settings, enabled)
    \/ SetEnabled \/ Control \/ Tick
    \/ \E t \in Time : SetClockBack(t)

Spec == Init /\ [][Next]_vars

-----------------------------------------------------------------------------
(* Properties. *)

\* No instant is evaluated twice and none is left out, whatever the clock, a
\* dead worker, a pause or an amendment did between two evaluations.
JudgedOnce ==
    \A t \in Time : judged[t] = IF 0 < t /\ t <= cursor THEN 1 ELSE 0

\* The instants of a schedule, without a look at days and windows.
Scheduled(r) == {Resolve(r, day) : day \in 0..LocalDay(r.zone, MaxTime)}

\* The newest n of a set of instants.
Newest(S, n) == {t \in S : Cardinality({u \in S : u > t}) < n}

\* What an evaluation reserves is what the policy says of the instants between
\* the two cursors: none, the latest, or the newest replay_cap; nothing else
\* ever adds an occurrence, and paused time adds none.
CatchUpIsExact ==
    [][LET new == DOMAIN occ' \ DOMAIN occ
           due == {t \in Scheduled(routine.set) : Start < t /\ t <= cursor'}
       IN new = IF cursor' = cursor \/ ~routine.enabled \/ routine.set.catchUp = "skip" THEN {}
                ELSE Newest(due, IF routine.set.catchUp = "replay" THEN routine.set.cap ELSE 1)]_vars

\* An instant leads to one delegation at most, under whatever versions it was
\* due, and to none once its trigger was settled without an admission: the
\* admission is the only operation on the trigger, and ends it.
OneRunPerInstant ==
    \A i \in Time :
        /\ runs[i] <= 1
        /\ runs[i] = 1 => /\ i \in DOMAIN occ /\ occ[i].ops = {"admit"}
                          /\ occ[i].status = "settled" /\ ~occ[i].enabled

=============================================================================
