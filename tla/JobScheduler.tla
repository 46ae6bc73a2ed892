---------------------------- MODULE JobScheduler ----------------------------
(***************************************************************************)
(* The generic jobs of the gateway: the scheduler loop leases the due jobs *)
(* and runs them one after the other, an operator's request may run one    *)
(* beside it, and the routes change or remove them meanwhile.              *)
(*                                                                         *)
(* Times are offsets from the present, which Tick moves: a value counts    *)
(* down and stops at its floor, so a behaviour may go on for ever in       *)
(* finitely many states.  No more jobs exist than a batch of eight takes,  *)
(* so the ORDER BY next_run_at of a batch leaves its order open.  The rows *)
(* of job_runs are written and never read by a run, and are left out: a    *)
(* run that dies between its row and its job is one that dies before both. *)
(***************************************************************************)
EXTENDS Integers, Sequences, FiniteSets, FiniteSetsExt

CONSTANTS
  Jobs,
  Period,       \* interval_seconds, and the distance of two cron instants
  LeaseLen,     \* the 30 s of a lease
  Cooldown,     \* cooldown of the circuit breaker
  Threshold,    \* max_consecutive_failures_before_breaker
  Retries,      \* max_retries
  Patches,      \* the changes an operator asks for
  MaxEvents     \* bound: requests of operators, failed storage calls and
                \* ends of the process, together

ASSUME SchedulerAssumption ==
  /\ IsFiniteSet(Jobs)
  /\ {Period, LeaseLen, Cooldown, Threshold} \subseteq Nat \ {0}
  /\ {Retries, MaxEvents} \subseteq Nat

VARIABLES
  job,      \* the row of each job
  breaker,  \* its circuit breaker
  batch,    \* jobs of the loop's batch that did not start yet, as they were read
  ex,       \* the run of the scheduler loop and of the run-now route
  op,       \* the change an operator's request is making
  ready,    \* the phases of a turn of the loop before the jobs succeed
  used,     \* events so far
  ghost     \* for the properties, see Ghost

vars == <<job, breaker, batch, ex, op, ready, used, ghost>>

None == -9
Keep == -8         \* the patch leaves the time alone
NoRow == [read |-> FALSE]
Runners == {"loop", "manual"}
Once == "once"
Kinds == {Once, "interval", "cron"}
When == {None} \cup 0..Period * (1 + MaxEvents)

JobRow == [enabled: BOOLEAN, kind: Kinds, next: When, at: When,
           lease: {None} \cup -1..LeaseLen, deleted: BOOLEAN]

\* What a request may ask for: an instant lies in the future or is due.
ASSUME PatchesAssumption ==
  Patches \subseteq [switch: {"keep", "on", "off"}, kind: Kinds \cup {"keep"}, at: Nat \cup {Keep, None}]

BreakerRow == [open: BOOLEAN, failures: 0..Threshold, until: 0..Cooldown]
Closed == [open |-> FALSE, failures |-> 0, until |-> 0]

\* allowed: successes the loop may still have with a job that runs once;
\* failed: its failed runs, as far as Threshold
Ghost == [allowed: -1..1 + MaxEvents, failed: 0..Threshold]

Phases == {"idle", "check", "close", "run", "finish", "reset", "resetWrite",
           "disable", "disableWrite", "record", "recordWrite"}

Idle == [pc |-> "idle", job |-> None, kind |-> Once, tries |-> 0, ok |-> FALSE,
         skipped |-> FALSE, row |-> NoRow]
Rest == [pc |-> "idle", job |-> None, patch |-> NoRow, row |-> NoRow]

\* One type for what the module's state may be.
TypeOK ==
  /\ job \in [Jobs -> JobRow]
  /\ breaker \in [Jobs -> BreakerRow]
  /\ \A i \in DOMAIN batch : batch[i].job \in Jobs /\ batch[i].kind \in Kinds
  /\ \A r \in Runners :
       /\ ex[r].pc \in Phases
       /\ ex[r].tries \in 0..Retries
       /\ ex[r] = Idle \/ (ex[r].job \in Jobs /\ ex[r].kind \in Kinds)
  /\ op = Rest \/ (op.job \in Jobs /\ op.patch \in Patches /\ op.pc \in {"patch", "write"})
  /\ ready \in BOOLEAN
  /\ used \in 0..MaxEvents
  /\ ghost \in [Jobs -> Ghost]

Init ==
  /\ \E kind \in [Jobs -> Kinds] :
       job = [j \in Jobs |-> [enabled |-> TRUE, kind |-> kind[j], next |-> 0,
                              at |-> IF kind[j] = Once THEN 0 ELSE None,
                              lease |-> None, deleted |-> FALSE]]
  /\ breaker = [j \in Jobs |-> Closed]
  /\ batch = <<>> /\ ex = [r \in Runners |-> Idle] /\ op = Rest
  /\ ready = TRUE /\ used = 0
  /\ ghost = [j \in Jobs |-> [allowed |-> 1, failed |-> 0]]

Event == used < MaxEvents /\ used' = used + 1

-----------------------------------------------------------------------------
(* Acquiring a batch: the job has to be due, and free or left by a lease   *)
(* that ran out.                                                           *)

\* Mutant: a lease that ran out still binds.
DueUnleased(j) == /\ ~job[j].deleted /\ job[j].enabled /\ job[j].next = 0
                  /\ job[j].lease = None

Due(j) ==
  /\ ~job[j].deleted /\ job[j].enabled /\ job[j].next = 0
  /\ job[j].lease = None \/ job[j].lease < 0

Orders(S) == {s \in [1..Cardinality(S) -> S] : \A i, k \in DOMAIN s : s[i] = s[k] => i = k}

\* Each turn of the loop first recovers technical resources, evaluates due
\* recoveries and materializes continuation jobs.  A failure of one of these,
\* or of the acquisition itself, ends the turn before a job is leased; it may
\* come and go at any time and may also stay for ever.
TurnReady == ready' = ~ready /\ UNCHANGED <<job, breaker, batch, ex, op, used, ghost>>

AcquireDueJobs ==
  LET due == {j \in Jobs : Due(j)}
  IN /\ ready /\ batch = <<>> /\ ex["loop"] = Idle /\ due # {}
     /\ \E s \in Orders(due) :
          batch' = [i \in DOMAIN s |-> [job |-> s[i], kind |-> job[s[i]].kind]]
     /\ job' = [j \in Jobs |-> IF j \in due THEN [job[j] EXCEPT !.lease = LeaseLen] ELSE job[j]]
     /\ UNCHANGED <<breaker, ex, op, ready, used, ghost>>

-----------------------------------------------------------------------------
(* execute_job_once                                                        *)

ClearLease(j) == job' = IF job[j].deleted THEN job ELSE [job EXCEPT ![j].lease = None]

To(r, pc) == ex' = [ex EXCEPT ![r].pc = pc, ![r].row = NoRow]
Done(r) == ex' = [ex EXCEPT ![r] = Idle]

Begin(r, j, kind) ==
  ex' = [ex EXCEPT ![r] = [Idle EXCEPT !.pc = "check", !.job = j, !.kind = kind]]

\* The loop goes on to the next job of its batch; a removed job has no run
\* and its lease is left alone.
StartScheduled ==
  /\ batch # <<>> /\ ex["loop"] = Idle /\ batch' = Tail(batch)
  /\ LET j == Head(batch).job
     IN IF job[j].deleted
          THEN UNCHANGED ex
          ELSE Begin("loop", j, Head(batch).kind)
  /\ UNCHANGED <<job, breaker, op, ready, used, ghost>>

\* The run-now route takes no lease and runs a job that is switched off too.
StartManual ==
  /\ ex["manual"] = Idle /\ Event
  /\ \E j \in Jobs : ~job[j].deleted /\ Begin("manual", j, job[j].kind)
  /\ UNCHANGED <<job, breaker, batch, op, ready, ghost>>

CheckBreaker(r) ==
  LET b == breaker[ex[r].job]
  IN /\ ex[r].pc = "check"
     /\ \/ ~b.open /\ To(r, "run")
        \/ b.open /\ b.until = 0 /\ To(r, "close")
        \/ b.open /\ b.until > 0
           /\ ex' = [ex EXCEPT ![r].pc = "finish", ![r].skipped = TRUE]
     /\ UNCHANGED <<job, breaker, batch, op, ready, used, ghost>>

CloseBreaker(r) ==
  /\ ex[r].pc = "close" /\ To(r, "run")
  /\ breaker' = [breaker EXCEPT ![ex[r].job] = Closed]
  /\ UNCHANGED <<job, batch, op, ready, used, ghost>>

\* One attempt ends well, badly or by its timeout.
Attempt(r) ==
  LET e == ex[r]
  IN /\ e.pc = "run"
     /\ \/ /\ ex' = [ex EXCEPT ![r].pc = "finish", ![r].ok = TRUE]
           /\ ghost' = IF r = "loop" /\ e.kind = Once
                         THEN [ghost EXCEPT ![e.job].allowed = Max({-1, @ - 1})] ELSE ghost
        \/ e.tries < Retries /\ ex' = [ex EXCEPT ![r].tries = @ + 1] /\ UNCHANGED ghost
        \/ /\ e.tries = Retries /\ To(r, "finish")
           /\ ghost' = [ghost EXCEPT ![e.job].failed = Min({Threshold, @ + 1})]
     /\ UNCHANGED <<job, breaker, batch, op, ready, used>>

\* By the schedule the run was started with, whatever the row says by now.
NextRunAfterCompletion(kind) == IF kind = Once THEN None ELSE Period

\* Mutant: every job is rescheduled as a periodic one.
FinishPeriodic(r) ==
  LET e == ex[r] j == ex[r].job
  IN /\ e.pc = "finish"
     /\ job' = IF job[j].deleted THEN job
               ELSE [job EXCEPT ![j].next = Period, ![j].lease = None]
     /\ \/ e.ok /\ To(r, "reset")
        \/ ~e.ok /\ ~e.skipped /\ To(r, "record")
        \/ ~e.ok /\ e.skipped /\ Done(r)
     /\ UNCHANGED <<breaker, batch, op, ready, used, ghost>>

\* finish_job_run_success, finish_job_run_failed
Finish(r) ==
  LET e == ex[r] j == ex[r].job
  IN /\ e.pc = "finish"
     /\ job' = IF job[j].deleted THEN job
               ELSE [job EXCEPT ![j].next = NextRunAfterCompletion(e.kind),
                                ![j].lease = None,
                                ![j].enabled = @ /\ ~(e.ok /\ e.kind = Once)]
     /\ \/ e.ok /\ To(r, "reset")
        \/ ~e.ok /\ e.kind = Once /\ To(r, "disable")
        \/ ~e.ok /\ e.kind # Once /\ ~e.skipped /\ To(r, "record")
        \/ ~e.ok /\ e.kind # Once /\ e.skipped /\ Done(r)
     /\ UNCHANGED <<breaker, batch, op, ready, used, ghost>>

\* reset_circuit_breaker_state_on_success reads, then writes.
ResetBreaker(r) ==
  LET j == ex[r].job
  IN /\ \/ /\ ex[r].pc = "reset" /\ UNCHANGED breaker
           /\ IF breaker[j] = Closed THEN Done(r) ELSE To(r, "resetWrite")
        \/ /\ ex[r].pc = "resetWrite" /\ Done(r)
           /\ breaker' = [breaker EXCEPT ![j] = Closed]
     /\ UNCHANGED <<job, batch, op, ready, used, ghost>>

\* What is left of a failed run after disable_once_scheduled_job_if_needed.
AfterDisable(r) == IF ex[r].skipped THEN Done(r) ELSE To(r, "record")

\* update_job with enabled = false: it reads the row and writes every field
\* back but the lease.
DisableOnce(r) ==
  LET j == ex[r].job
  IN /\ \/ /\ ex[r].pc = "disable" /\ UNCHANGED job
           /\ IF job[j].deleted THEN AfterDisable(r)
              ELSE ex' = [ex EXCEPT ![r].pc = "disableWrite", ![r].row = job[j]]
        \/ /\ ex[r].pc = "disableWrite" /\ AfterDisable(r)
           /\ job' = IF job[j].deleted THEN job
                     ELSE [job EXCEPT ![j] = [ex[r].row EXCEPT !.enabled = FALSE,
                                                               !.lease = job[j].lease]]
     /\ UNCHANGED <<breaker, batch, op, ready, used, ghost>>

\* Mutant: the count starts at one.
FailedEarly(b) ==
  LET n == IF b.open THEN 1 ELSE b.failures + 1
  IN [open |-> n + 1 >= Threshold, failures |-> n,
      until |-> IF n + 1 >= Threshold THEN Cooldown ELSE 0]

Failed(b) ==
  LET n == IF b.open THEN 1 ELSE b.failures + 1
  IN [open |-> n >= Threshold, failures |-> n,
      until |-> IF n >= Threshold THEN Cooldown ELSE 0]

\* record_circuit_breaker_failure_with_cooldown reads, then writes.
RecordFailure(r) ==
  LET j == ex[r].job
  IN /\ \/ /\ ex[r].pc = "record" /\ UNCHANGED breaker
           /\ IF breaker[j].open /\ breaker[j].until > 0 THEN Done(r)
              ELSE ex' = [ex EXCEPT ![r].pc = "recordWrite", ![r].row = breaker[j]]
        \/ /\ ex[r].pc = "recordWrite" /\ Done(r)
           /\ breaker' = [breaker EXCEPT ![j] = Failed(ex[r].row)]
     /\ UNCHANGED <<job, batch, op, ready, used, ghost>>

Step(r) ==
  \/ CheckBreaker(r) \/ CloseBreaker(r) \/ Attempt(r) \/ Finish(r)
  \/ ResetBreaker(r) \/ DisableOnce(r) \/ RecordFailure(r)

\* The caller of run-now goes away while the payload runs.
CancelManual ==
  /\ ex["manual"].pc = "run" /\ Done("manual")
  /\ UNCHANGED <<job, breaker, batch, op, ready, used, ghost>>

\* After a fault every job may have to be run again.
Excused == [j \in Jobs |-> [ghost[j] EXCEPT !.allowed = @ + 1]]

\* A storage call fails: the run ends with an error, which the loop answers
\* by giving the lease back.
FailRun(r) ==
  /\ Event
  /\ ex[r].pc \notin {"idle", "run", "disable", "disableWrite"} /\ Done(r)
  /\ IF r = "loop" THEN ClearLease(ex[r].job) ELSE UNCHANGED job
  /\ ghost' = Excused
  /\ UNCHANGED <<breaker, batch, op, ready>>

\* A failure to switch a job off is ignored.
SkipDisable(r) ==
  /\ Event /\ ex[r].pc \in {"disable", "disableWrite"} /\ AfterDisable(r)
  /\ UNCHANGED <<job, breaker, batch, op, ready, ghost>>

\* The gateway dies and starts again; nothing of a run is taken up.
Crash ==
  /\ Event
  /\ batch' = <<>> /\ ex' = [r \in Runners |-> Idle] /\ op' = Rest
  /\ ghost' = Excused
  /\ UNCHANGED <<job, breaker, ready>>

-----------------------------------------------------------------------------
(* The routes that change a job                                            *)

\* The route reads the job to work out the patch: the schedule it read is
\* part of what will be written.
BeginUpdate ==
  /\ op = Rest /\ Event
  /\ \E j \in Jobs, p \in Patches :
       /\ ~job[j].deleted
       /\ op' = [pc |-> "patch", job |-> j, patch |-> p, row |-> job[j]]
  /\ UNCHANGED <<job, breaker, batch, ex, ready, ghost>>

Or(a, b) == IF a \in {Keep, None} THEN b ELSE a

PatchKind == IF op.patch.kind = "keep" THEN op.row.kind ELSE op.patch.kind

\* The first cron instant after a baseline; a baseline that passed lies any
\* number of periods back.
CronAfter(t) == IF t = 0 THEN 0..Period ELSE {Or(t, 0) + Period}

\* compute_updated_next_run_at, from the row the route read; a cron job moves
\* on from the instant it waits for
UpdatedNextRunAt ==
  CASE PatchKind = Once -> {Or(op.patch.at, Or(op.row.at, op.row.next))}
    [] PatchKind = "interval" -> {Or(op.patch.at, Or(op.row.next, Period))}
    [] PatchKind = "cron" -> CronAfter(Or(op.patch.at, op.row.next))

Patched(row, next) ==
  [row EXCEPT !.enabled = IF op.patch.switch = "keep" THEN @ ELSE op.patch.switch = "on",
              !.kind = PatchKind,
              !.at = IF PatchKind = "cron" THEN None ELSE Or(op.patch.at, @),
              !.next = Or(next, @)]

\* update_job of the storage reads the row again ...
LoadUpdate ==
  /\ op.pc = "patch"
  /\ IF job[op.job].deleted THEN op' = Rest
     ELSE \E next \in UpdatedNextRunAt :
            op' = [op EXCEPT !.pc = "write", !.row = Patched(job[op.job], next)]
  /\ UNCHANGED <<job, breaker, batch, ex, ready, used, ghost>>

\* ... and writes every field of it but the lease.
WriteUpdate ==
  LET j == op.job
  IN /\ op.pc = "write" /\ op' = Rest
     /\ IF job[j].deleted THEN UNCHANGED <<job, ghost>>
        ELSE /\ job' = [job EXCEPT ![j] = [op.row EXCEPT !.lease = job[j].lease]]
             /\ ghost' = [ghost EXCEPT ![j].allowed = @ + 1]
     /\ UNCHANGED <<breaker, batch, ex, ready, used>>

RemoveJob ==
  /\ Event
  /\ \E j \in Jobs :
       /\ ~job[j].deleted
       /\ job' = [job EXCEPT ![j].deleted = TRUE, ![j].enabled = FALSE]
  /\ UNCHANGED <<breaker, batch, ex, op, ready, ghost>>

-----------------------------------------------------------------------------
Sooner(t, floor) == IF t \in {None, floor} THEN t ELSE t - 1

SoonerRow(row) == [row EXCEPT !.next = Sooner(@, 0), !.at = Sooner(@, 0),
                              !.lease = Sooner(@, -1)]

Tick ==
  /\ job' = [j \in Jobs |-> SoonerRow(job[j])]
  /\ breaker' = [j \in Jobs |-> [breaker[j] EXCEPT !.until = Sooner(@, 0)]]
  /\ ex' = [r \in Runners |-> IF ex[r].pc = "disableWrite"
                              THEN [ex[r] EXCEPT !.row = SoonerRow(@)] ELSE ex[r]]
  /\ op' = IF op = Rest THEN op ELSE [op EXCEPT !.row = SoonerRow(@)]
  /\ UNCHANGED <<batch, ready, used, ghost>>

Next ==
  \/ TurnReady \/ AcquireDueJobs \/ StartScheduled \/ StartManual \/ CancelManual
  \/ \E r \in Runners : Step(r) \/ FailRun(r) \/ SkipDisable(r)
  \/ BeginUpdate \/ LoadUpdate \/ WriteUpdate \/ RemoveJob
  \/ Crash \/ Tick

Spec == Init /\ [][Next]_vars

\* The loop keeps running, a payload ends by its timeout at the latest, and
\* time goes on.  Nothing says that the turns of the loop stay ready.
FairSpec ==
  /\ Spec /\ WF_vars(Tick)
  /\ WF_vars(AcquireDueJobs) /\ WF_vars(StartScheduled) /\ WF_vars(Step("loop"))

-----------------------------------------------------------------------------
(* Properties                                                              *)

\* The scheduler completes a job that runs once at most once, beyond the
\* times a fault or a change of the job calls for, whatever run-now does to
\* the same job meanwhile.
OnceRunsOnce == \A j \in Jobs : ghost[j].allowed >= 0

\* A breaker opens after Threshold failed runs and not before, though two
\* runs may read and write its count in turns.
BreakerIsEarned == \A j \in Jobs : breaker[j].open => ghost[j].failed = Threshold

Runnable(j) == ~job[j].deleted /\ job[j].enabled /\ job[j].next # None

\* A job that is due is run in the end, also when the process that leased it
\* died, since its lease runs out; provided that the loop's turns come to
\* reach the jobs, which a recovery that fails on every turn prevents.
DueJobRuns ==
  <>[]ready =>
    \A j \in Jobs : Runnable(j) /\ job[j].next = 0
                      ~> ~Runnable(j) \/ job[j].next # 0 \/ ex["loop"].job = j

=============================================================================
