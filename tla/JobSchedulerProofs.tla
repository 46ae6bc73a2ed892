-------------------------- MODULE JobSchedulerProofs --------------------------
(***************************************************************************)
(* What the scheduler and the run-now route may do to one job side by      *)
(* side, for every set of jobs, every period, lease, cooldown, threshold   *)
(* and retry bound and any number of requests, faults and crashes.         *)
(***************************************************************************)
EXTENDS JobScheduler, FiniteSetTheorems, TLAPS

-----------------------------------------------------------------------------
(* The inductive invariant. *)

AnyJob == [enabled: BOOLEAN, kind: Kinds, next: Int, at: Int, lease: Int, deleted: BOOLEAN]
AnyBreaker == [open: BOOLEAN, failures: Nat, until: Int]
AnyRun == [pc: Phases, job: Jobs \cup {None}, kind: Kinds, tries: Nat, ok: BOOLEAN, skipped: BOOLEAN,
           row: {NoRow} \cup AnyJob \cup AnyBreaker]
AnyGhost == [allowed: Int, failed: 0..Threshold]

\* A run that is under way has a job, and holds the row it read where it will
\* write it back.
RunIsWhole(e) ==
  /\ e.pc # "idle" => e.job \in Jobs
  /\ e.pc = "disableWrite" => e.row \in AnyJob
  /\ e.pc = "recordWrite" => e.row \in AnyBreaker

\* The same of an operator's request.
RequestIsWhole ==
  \/ op = Rest
  \/ /\ op \in [pc: {"patch", "write"}, job: Jobs, patch: Patches, row: AnyJob]

SchedulerTypes ==
  /\ job \in [Jobs -> AnyJob]
  /\ breaker \in [Jobs -> AnyBreaker]
  /\ batch \in Seq([job: Jobs, kind: Kinds])
  /\ ex \in [Runners -> AnyRun] /\ \A r \in Runners : RunIsWhole(ex[r])
  /\ RequestIsWhole
  /\ ghost \in [Jobs -> AnyGhost]

\* A batch holds a job once, and not the one the loop is running.
BatchIsApart ==
  /\ \A i, k \in DOMAIN batch : batch[i].job = batch[k].job => i = k
  /\ ex["loop"].pc # "idle" => \A i \in DOMAIN batch : batch[i].job # ex["loop"].job

\* A run of the loop may yet complete the job as one that runs once.
Waits(j) == \E i \in DOMAIN batch : batch[i].job = j /\ batch[i].kind = Once
Runs(e, j) == e.job = j /\ e.kind = Once /\ e.pc \in {"check", "close", "run"}

\* It did, and the row does not show it yet.
Completed(e, j) == e.job = j /\ e.kind = Once /\ e.pc = "finish" /\ e.ok = TRUE

\* The row lets the loop take the job.
Armed(row) == row.deleted = FALSE /\ row.enabled = TRUE /\ row.kind = Once

MayComplete(j) ==
  Waits(j) \/ Runs(ex["loop"], j) \/ (Armed(job[j]) /\ ~Completed(ex["loop"], j))

OnceOf(j) == ghost[j].allowed >= 0 /\ (MayComplete(j) => ghost[j].allowed >= 1)

\* A run failed and its failure is not yet in the breaker.
Owes(e, j) ==
  /\ e.job = j
  /\ \/ e.pc \in {"record", "recordWrite"}
     \/ e.pc \in {"disable", "disableWrite"} /\ e.skipped = FALSE
     \/ e.pc = "finish" /\ e.ok = FALSE /\ e.skipped = FALSE

Debt(e, j) == IF Owes(e, j) THEN 1 ELSE 0
Owed(j) == Debt(ex["loop"], j) + Debt(ex["manual"], j)

\* A count that was read or is stored does not exceed the failed runs less
\* those that still have to be added.
Covered(b, j) == b.open = FALSE /\ b.failures + Owed(j) <= ghost[j].failed

CountsOf(j) ==
  \/ ghost[j].failed = Threshold
  \/ /\ Covered(breaker[j], j)
     /\ \A r \in Runners : ex[r].pc = "recordWrite" /\ ex[r].job = j => Covered(ex[r].row, j)

SchedulerInvariant ==
  /\ SchedulerTypes /\ BatchIsApart
  /\ \A j \in Jobs : OnceOf(j) /\ CountsOf(j)

-----------------------------------------------------------------------------
(* What a step has to leave alone. *)

\* A breaker's count stays or starts again.
Milder(b, before) ==
  (b.open = before.open /\ b.failures = before.failures) \/ (b.open = FALSE /\ b.failures = 0)

\* How many runs of a job owe their failure.
LEMMA OwedType ==
  ASSUME NEW j
  PROVE  /\ Owed(j) \in Nat /\ Owed(j)' \in Nat
         /\ (\A r \in Runners : Owes(ex'[r], j) => Owes(ex[r], j)) => Owed(j)' <= Owed(j)
  BY DEF Owed, Debt, Runners

\* The successes of one job that runs once.
LEMMA OnceKeep ==
  ASSUME SchedulerTypes, SchedulerTypes', NEW j \in Jobs, OnceOf(j),
         ghost'[j].allowed >= ghost[j].allowed,
         MayComplete(j)' => MayComplete(j) \/ ghost'[j].allowed >= 1
  PROVE  OnceOf(j)'
<1>1. ghost[j].allowed \in Int /\ ghost'[j].allowed \in Int
  BY DEF SchedulerTypes, AnyGhost
<1> QED BY <1>1 DEF OnceOf

\* The failures of one job.
LEMMA CountsKeep ==
  ASSUME SchedulerTypes, SchedulerTypes', NEW j \in Jobs, CountsOf(j),
         ghost'[j].failed = ghost[j].failed, Milder(breaker'[j], breaker[j]),
         \A r \in Runners : Owes(ex'[r], j) => Owes(ex[r], j),
         \A r \in Runners : ex'[r].pc = "recordWrite" /\ ex'[r].job = j =>
            \/ ex[r].pc = "recordWrite" /\ ex[r].job = j /\ ex'[r].row = ex[r].row
            \/ ex'[r].row = breaker[j]
  PROVE  CountsOf(j)'
<1>1. Owed(j) \in Nat /\ Owed(j)' \in Nat /\ Owed(j)' <= Owed(j)
  BY OwedType
<1>2. ghost[j].failed \in Nat /\ breaker[j].failures \in Nat
  BY DEF SchedulerTypes, AnyGhost, AnyBreaker
<1>3. CASE ghost[j].failed = Threshold
  BY <1>3 DEF CountsOf
<1>4. CASE ghost[j].failed # Threshold
  <2>1. Covered(breaker[j], j)
    BY <1>4 DEF CountsOf
  <2>3. Covered(breaker[j], j)'
    BY <1>1, <1>2, <2>1 DEF Covered, Milder
  <2>4. ASSUME NEW r \in Runners, ex'[r].pc = "recordWrite", ex'[r].job = j
        PROVE  Covered(ex[r].row, j)'
    <3>1. CASE ex[r].pc = "recordWrite" /\ ex[r].job = j /\ ex'[r].row = ex[r].row
      <4>1. ex[r].row.failures \in Nat
        BY <3>1 DEF SchedulerTypes, RunIsWhole, AnyBreaker
      <4>2. Covered(ex[r].row, j)
        BY <1>4, <3>1 DEF CountsOf
      <4> QED BY <1>1, <1>2, <3>1, <4>1, <4>2 DEF Covered
    <3>2. CASE ex'[r].row = breaker[j]
      BY <1>1, <1>2, <2>1, <3>2 DEF Covered
    <3> QED BY <2>4, <3>1, <3>2
  <2> QED BY <2>3, <2>4 DEF CountsOf
<1> QED BY <1>3, <1>4

\* A run that changes.
LEMMA RunType ==
  ASSUME SchedulerTypes, NEW r \in Runners, NEW n \in AnyRun, RunIsWhole(n),
         ex' = [ex EXCEPT ![r] = n]
  PROVE  /\ ex' \in [Runners -> AnyRun] /\ \A q \in Runners : RunIsWhole(ex'[q])
         /\ ex'[r] = n /\ \A q \in Runners \ {r} : ex'[q] = ex[q]
  BY DEF SchedulerTypes

\* Rows, breakers and ghosts change as a run may change them: no row is armed,
\* no count grows.
RowsKeep ==
  /\ batch' = batch /\ op' = op
  /\ job' \in [Jobs -> AnyJob] /\ breaker' \in [Jobs -> AnyBreaker] /\ ghost' \in [Jobs -> AnyGhost]
  /\ \A j \in Jobs :
       /\ ghost'[j].allowed >= ghost[j].allowed /\ ghost'[j].failed = ghost[j].failed
       /\ Armed(job'[j]) => Armed(job[j])
       /\ Milder(breaker'[j], breaker[j])

\* A run goes on as n without a failure or a completion of its own.
GoesOn(r, n) ==
  /\ n \in AnyRun /\ RunIsWhole(n)
  /\ \A j \in Jobs : Owes(n, j) => Owes(ex[r], j)
  /\ r = "loop" => /\ \A j \in Jobs : Runs(n, j) => Runs(ex[r], j)
                   /\ n.pc # "idle" => ex[r].pc # "idle" /\ n.job = ex[r].job
  /\ n.pc = "recordWrite" => n.row = breaker[n.job]

\* A completion that is not shown any more by the run is shown by the row.
Shown(r, n) ==
  r = "loop" => \A j \in Jobs : Completed(ex[r], j) =>
                   Completed(n, j) \/ ~Armed(job'[j]) \/ ghost'[j].allowed >= 1

\* Such a step of one run keeps the invariant.
LEMMA RunnerStep ==
  ASSUME SchedulerInvariant, NEW r \in Runners, NEW n, RowsKeep, GoesOn(r, n), Shown(r, n),
         ex' = [ex EXCEPT ![r] = n]
  PROVE  SchedulerInvariant'
<1>1. SchedulerTypes /\ BatchIsApart
  BY DEF SchedulerInvariant
<1>2. /\ ex' \in [Runners -> AnyRun] /\ \A q \in Runners : RunIsWhole(ex'[q])
      /\ ex'[r] = n /\ \A q \in Runners \ {r} : ex'[q] = ex[q]
  BY <1>1, RunType DEF GoesOn
<1>3. SchedulerTypes'
  BY <1>1, <1>2 DEF SchedulerTypes, RequestIsWhole, RowsKeep
<1>4. BatchIsApart'
  BY <1>1, <1>2 DEF BatchIsApart, Runners, RowsKeep, GoesOn
<1>5. ASSUME NEW j \in Jobs PROVE OnceOf(j)' /\ CountsOf(j)'
  <2>1. OnceOf(j) /\ CountsOf(j)
    BY DEF SchedulerInvariant
  <2>2. OnceOf(j)'
    <3>1. MayComplete(j)' => MayComplete(j) \/ ghost'[j].allowed >= 1
      <4>1. CASE r = "loop"
        BY <1>2, <4>1 DEF MayComplete, Waits, RowsKeep, GoesOn, Shown
      <4>2. CASE r # "loop"
        <5>1. ex'["loop"] = ex["loop"]
          BY <1>2, <4>2 DEF Runners
        <5> QED BY <5>1 DEF MayComplete, Waits, RowsKeep
      <4> QED BY <4>1, <4>2
    <3> QED BY <1>1, <1>3, <2>1, <3>1, OnceKeep DEF RowsKeep
  <2>3. CountsOf(j)'
    <3>1. \A q \in Runners : Owes(ex'[q], j) => Owes(ex[q], j)
      BY <1>2 DEF GoesOn
    <3>2. \A q \in Runners : ex'[q].pc = "recordWrite" /\ ex'[q].job = j =>
             \/ ex[q].pc = "recordWrite" /\ ex[q].job = j /\ ex'[q].row = ex[q].row
             \/ ex'[q].row = breaker[j]
      BY <1>2 DEF GoesOn
    <3> QED BY <1>1, <1>3, <2>1, <3>1, <3>2, CountsKeep DEF RowsKeep
  <2> QED BY <2>2, <2>3
<1> QED BY <1>3, <1>4, <1>5 DEF SchedulerInvariant

\* A step that leaves the runs alone.
LEMMA RequestStep ==
  ASSUME SchedulerInvariant, ex' = ex, batch' = batch, RequestIsWhole',
         job' \in [Jobs -> AnyJob], breaker' = breaker, ghost' \in [Jobs -> AnyGhost],
         \A j \in Jobs :
           /\ ghost'[j].allowed >= ghost[j].allowed /\ ghost'[j].failed = ghost[j].failed
           /\ (Armed(job'[j]) => Armed(job[j])) \/ ghost'[j].allowed >= 1
  PROVE  SchedulerInvariant'
<1>1. SchedulerTypes /\ BatchIsApart
  BY DEF SchedulerInvariant
<1>2. SchedulerTypes'
  BY <1>1 DEF SchedulerTypes
<1>3. BatchIsApart'
  BY <1>1 DEF BatchIsApart
<1>4. ASSUME NEW j \in Jobs PROVE OnceOf(j)' /\ CountsOf(j)'
  <2>1. OnceOf(j) /\ CountsOf(j)
    BY DEF SchedulerInvariant
  <2>2. MayComplete(j)' => MayComplete(j) \/ ghost'[j].allowed >= 1
    BY DEF MayComplete, Waits
  <2>3. OnceOf(j)'
    BY <1>1, <1>2, <2>1, <2>2, OnceKeep
  <2>4. CountsOf(j)'
    BY <1>1, <1>2, <2>1, CountsKeep DEF Milder
  <2> QED BY <2>3, <2>4
<1> QED BY <1>2, <1>3, <1>4 DEF SchedulerInvariant

-----------------------------------------------------------------------------
(* The steps. *)

\* Every job may run, nothing has run.
LEMMA SchedulerInit == Init => SchedulerInvariant
<1> SUFFICES ASSUME Init PROVE SchedulerInvariant
  OBVIOUS
<1>1. PICK kind \in [Jobs -> Kinds] :
         job = [j \in Jobs |-> [enabled |-> TRUE, kind |-> kind[j], next |-> 0,
                               at |-> IF kind[j] = Once THEN 0 ELSE None,
                               lease |-> None, deleted |-> FALSE]]
  BY DEF Init
<1>2. job \in [Jobs -> AnyJob]
  BY <1>1 DEF AnyJob, None
<1>3. breaker \in [Jobs -> AnyBreaker] /\ ghost \in [Jobs -> AnyGhost]
  BY SchedulerAssumption DEF Init, AnyBreaker, AnyGhost, Closed
<1>4. batch = <<>> /\ op = Rest /\ \A r \in Runners : ex[r] = Idle
  BY DEF Init
<1>5. ex \in [Runners -> AnyRun] /\ \A r \in Runners : RunIsWhole(ex[r])
  BY DEF Init, AnyRun, Idle, Phases, Kinds, RunIsWhole
<1>6. SchedulerTypes
  BY <1>2, <1>3, <1>4, <1>5 DEF SchedulerTypes, RequestIsWhole
<1>7. BatchIsApart
  BY <1>4 DEF BatchIsApart, Runners, Idle
<1>8. ASSUME NEW j \in Jobs PROVE OnceOf(j) /\ CountsOf(j)
  <2>1. ghost[j].allowed = 1 /\ ghost[j].failed = 0 /\ breaker[j].open = FALSE /\ breaker[j].failures = 0
    BY DEF Init, Closed
  <2>2. Owed(j) = 0
    BY <1>4 DEF Owed, Debt, Owes, Idle, Runners
  <2>3. Covered(breaker[j], j)
    BY <2>1, <2>2 DEF Covered
  <2>4. \A r \in Runners : ex[r].pc # "recordWrite"
    BY <1>4 DEF Idle
  <2> QED BY <2>1, <2>3, <2>4 DEF OnceOf, CountsOf
<1> QED BY <1>6, <1>7, <1>8 DEF SchedulerInvariant

\* The forms in which a step changes a run.
LEMMA RunForms ==
  ASSUME SchedulerTypes, NEW r \in Runners
  PROVE  /\ ex[r] \in AnyRun /\ RunIsWhole(ex[r])
         /\ \A pc \in Phases : To(r, pc) => ex' = [ex EXCEPT ![r] = [ex[r] EXCEPT !.pc = pc, !.row = NoRow]]
         /\ Done(r) => ex' = [ex EXCEPT ![r] = Idle]
         /\ Idle \in AnyRun /\ RunIsWhole(Idle)
  BY DEF SchedulerTypes, To, Done, Idle, AnyRun, RunIsWhole, Phases, Kinds

\* A run that ends.
LEMMA DoneStep ==
  ASSUME SchedulerInvariant, NEW r \in Runners, RowsKeep, Shown(r, Idle), Done(r)
  PROVE  SchedulerInvariant'
<1>1. SchedulerTypes
  BY DEF SchedulerInvariant
<1>2. ex' = [ex EXCEPT ![r] = Idle] /\ Idle \in AnyRun /\ RunIsWhole(Idle)
  BY <1>1, RunForms
<1>3. Idle.pc = "idle" /\ \A j : ~Owes(Idle, j) /\ ~Runs(Idle, j)
  BY DEF Idle, Owes, Runs
<1>4. GoesOn(r, Idle)
  BY <1>2, <1>3 DEF GoesOn
<1> QED BY <1>2, <1>4, RunnerStep

\* A run that goes on to another phase without a row it read.
LEMMA ToStep ==
  ASSUME SchedulerInvariant, NEW r \in Runners, RowsKeep,
         \A j \in Jobs : r = "loop" /\ Completed(ex[r], j) => ~Armed(job'[j]) \/ ghost'[j].allowed >= 1,
         NEW pc \in Phases \ {"recordWrite", "disableWrite", "finish"}, To(r, pc),
         ex[r].pc # "idle",
         pc = "record" => Owes(ex[r], ex[r].job),
         pc = "disable" => ex[r].skipped = TRUE \/ Owes(ex[r], ex[r].job),
         pc \in {"check", "close", "run"} => ex[r].pc \in {"check", "close", "run"}
  PROVE  SchedulerInvariant'
<1> DEFINE n == [ex[r] EXCEPT !.pc = pc, !.row = NoRow]
<1>1. SchedulerTypes
  BY DEF SchedulerInvariant
<1>2. ex' = [ex EXCEPT ![r] = n] /\ ex[r] \in AnyRun /\ RunIsWhole(ex[r])
  BY <1>1, RunForms
<1>3. /\ n \in AnyRun /\ n.pc = pc /\ n.job = ex[r].job /\ n.kind = ex[r].kind /\ n.ok = ex[r].ok
      /\ n.skipped = ex[r].skipped /\ n.row = NoRow
  BY <1>2 DEF AnyRun
<1> HIDE DEF n
<1>4. RunIsWhole(n)
  BY <1>2, <1>3 DEF RunIsWhole
<1>5. \A j \in Jobs : (Owes(n, j) => Owes(ex[r], j)) /\ (Runs(n, j) => Runs(ex[r], j))
  BY <1>3 DEF Owes, Runs
<1>6. GoesOn(r, n)
  BY <1>3, <1>4, <1>5 DEF GoesOn
<1>7. Shown(r, n)
  BY DEF Shown
<1> QED BY <1>2, <1>6, <1>7, RunnerStep

\* Nothing but the run changes.
LEMMA Still ==
  ASSUME SchedulerInvariant, UNCHANGED <<job, breaker, batch, op, ghost>>
  PROVE  RowsKeep
  BY DEF SchedulerInvariant, SchedulerTypes, AnyGhost, Milder, RowsKeep

\* The breaker lets a run begin, makes it wait for its cooldown, or is closed.
LEMMA BreakerSteps ==
  ASSUME SchedulerInvariant, NEW r \in Runners, CheckBreaker(r) \/ CloseBreaker(r) \/ ResetBreaker(r)
  PROVE  SchedulerInvariant'
<1>1. SchedulerTypes
  BY DEF SchedulerInvariant
<1>2. ex[r] \in AnyRun /\ RunIsWhole(ex[r])
  BY <1>1, RunForms
<1>3. ex[r].pc \in {"check", "close", "reset", "resetWrite"}
  BY DEF CheckBreaker, CloseBreaker, ResetBreaker
<1>4. ex[r].job \in Jobs /\ \A j : ~Completed(ex[r], j)
  BY <1>2, <1>3 DEF RunIsWhole, Completed
<1>5. \A n : Shown(r, n)
  BY <1>4 DEF Shown
<1>6. RowsKeep
  <2>1. CASE UNCHANGED breaker
    BY <2>1, Still DEF CheckBreaker, CloseBreaker, ResetBreaker
  <2>2. CASE breaker' = [breaker EXCEPT ![ex[r].job] = Closed]
    <3>1. Closed \in AnyBreaker /\ Closed.open = FALSE /\ Closed.failures = 0
      BY DEF Closed, AnyBreaker
    <3>2. /\ breaker' \in [Jobs -> AnyBreaker]
          /\ \A j \in Jobs : Milder(breaker'[j], breaker[j])
      BY <1>1, <2>2, <3>1 DEF SchedulerTypes, Milder
    <3>3. UNCHANGED <<job, batch, op, ghost>>
      BY DEF CheckBreaker, CloseBreaker, ResetBreaker
    <3> QED BY <1>1, <3>2, <3>3 DEF SchedulerTypes, RowsKeep, AnyGhost
  <2> QED BY <2>1, <2>2 DEF CheckBreaker, CloseBreaker, ResetBreaker
<1>7. ASSUME NEW pc \in {"run", "close", "resetWrite"}, To(r, pc),
             pc = "resetWrite" \/ ex[r].pc \in {"check", "close"}
      PROVE  SchedulerInvariant'
  <2>1. pc \in Phases \ {"recordWrite", "disableWrite", "finish"} /\ pc # "record" /\ pc # "disable"
    BY <1>7 DEF Phases
  <2>2. pc \in {"check", "close", "run"} => ex[r].pc \in {"check", "close", "run"}
    BY <1>7
  <2> QED BY <1>3, <1>4, <1>6, <1>7, <2>1, <2>2, ToStep
<1>8. CASE Done(r)
  BY <1>5, <1>6, <1>8, DoneStep
<1>9. CASE ex' = [ex EXCEPT ![r].pc = "finish", ![r].skipped = TRUE] /\ ex[r].pc = "check"
  <2> DEFINE n == [ex[r] EXCEPT !.pc = "finish", !.skipped = TRUE]
  <2>1. ex' = [ex EXCEPT ![r] = n]
    BY <1>1, <1>9 DEF SchedulerTypes
  <2>2. n \in AnyRun /\ n.pc = "finish" /\ n.skipped = TRUE /\ n.job = ex[r].job
    BY <1>2 DEF AnyRun, Phases
  <2> HIDE DEF n
  <2>3. RunIsWhole(n)
    BY <1>4, <2>2 DEF RunIsWhole
  <2>4. \A j : ~Owes(n, j) /\ ~Runs(n, j)
    BY <2>2 DEF Owes, Runs
  <2>5. GoesOn(r, n)
    BY <1>3, <2>2, <2>3, <2>4 DEF GoesOn
  <2> QED BY <1>5, <1>6, <2>1, <2>5, RunnerStep
<1> QED BY <1>3, <1>7, <1>8, <1>9 DEF CheckBreaker, CloseBreaker, ResetBreaker

\* The end of a run is written, the lease given back.
LEMMA FinishStep ==
  ASSUME SchedulerInvariant, NEW r \in Runners, Finish(r)
  PROVE  SchedulerInvariant'
<1> DEFINE e == ex[r]
           k == ex[r].job
<1>1. SchedulerTypes /\ UNCHANGED <<breaker, batch, op, used, ghost>> /\ e.pc = "finish"
  BY DEF SchedulerInvariant, Finish
<1>2. e \in AnyRun /\ RunIsWhole(e)
  BY <1>1, RunForms
<1>3. k \in Jobs
  BY <1>1, <1>2 DEF RunIsWhole
<1>4. /\ job' \in [Jobs -> AnyJob]
      /\ \A j \in Jobs : Armed(job'[j]) => Armed(job[j])
      /\ e.ok = TRUE /\ e.kind = Once => ~Armed(job'[k])
  <2>1. job[k] \in AnyJob /\ job \in [Jobs -> AnyJob]
    BY <1>1, <1>3 DEF SchedulerTypes
  <2>2. CASE job[k].deleted
    <3>1. job' = job
      BY <2>2 DEF Finish
    <3> QED BY <2>1, <2>2, <3>1 DEF Armed
  <2>3. CASE ~job[k].deleted
    <3> DEFINE n == [job[k] EXCEPT !.next = NextRunAfterCompletion(e.kind), !.lease = None,
                                   !.enabled = @ /\ ~(e.ok /\ e.kind = Once)]
    <3>1. job' = [job EXCEPT ![k] = n]
      BY <2>1, <2>3, <1>3 DEF Finish
    <3>2. NextRunAfterCompletion(e.kind) \in Int /\ None \in Int
      BY SchedulerAssumption DEF NextRunAfterCompletion, None
    <3>3. /\ n \in AnyJob /\ n.kind = job[k].kind /\ n.deleted = job[k].deleted
          /\ n.enabled = (job[k].enabled /\ ~(e.ok /\ e.kind = Once))
      BY <2>1, <3>2 DEF AnyJob
    <3> HIDE DEF n
    <3>4. Armed(n) => Armed(job[k])
      BY <2>1, <3>3 DEF Armed, AnyJob
    <3>5. e.ok = TRUE /\ e.kind = Once => ~Armed(n)
      BY <3>3 DEF Armed
    <3> QED BY <1>3, <2>1, <3>1, <3>3, <3>4, <3>5
  <2> QED BY <2>2, <2>3
<1>5. RowsKeep
  BY <1>1, <1>4 DEF SchedulerTypes, RowsKeep, AnyGhost, Milder
<1>6. \A j \in Jobs : Completed(ex[r], j) => ~Armed(job'[j])
  BY <1>4 DEF Completed
<1>7. CASE Done(r)
  <2>1. Shown(r, Idle)
    BY <1>6 DEF Shown
  <2> QED BY <1>5, <1>7, <2>1, DoneStep
<1>8. CASE e.ok /\ To(r, "reset")
  BY <1>1, <1>5, <1>6, <1>8, ToStep DEF Phases
<1>9. CASE ~e.ok /\ To(r, "disable")
  <2>1. e.skipped = TRUE \/ Owes(e, k)
    BY <1>1, <1>2, <1>9 DEF Owes, AnyRun
  <2> QED BY <1>1, <1>5, <1>6, <1>9, <2>1, ToStep DEF Phases
<1>10. CASE ~e.ok /\ ~e.skipped /\ To(r, "record")
  <2>1. Owes(e, k)
    BY <1>1, <1>2, <1>10 DEF Owes, AnyRun
  <2> QED BY <1>1, <1>5, <1>6, <1>10, <2>1, ToStep DEF Phases
<1> QED BY <1>7, <1>8, <1>9, <1>10 DEF Finish

\* A job that ran once is switched off.
LEMMA DisableSteps ==
  ASSUME SchedulerInvariant, NEW r \in Runners, DisableOnce(r) \/ SkipDisable(r)
  PROVE  SchedulerInvariant'
<1> DEFINE k == ex[r].job
<1>1. SchedulerTypes /\ UNCHANGED <<breaker, batch, op, ghost>> /\ ex[r].pc \in {"disable", "disableWrite"}
  BY DEF SchedulerInvariant, DisableOnce, SkipDisable
<1>2. ex[r] \in AnyRun /\ RunIsWhole(ex[r])
  BY <1>1, RunForms
<1>3. k \in Jobs /\ \A j : ~Completed(ex[r], j)
  BY <1>1, <1>2 DEF RunIsWhole, Completed
<1>4. RowsKeep
  <2>1. CASE UNCHANGED job
    BY <1>1, <2>1, Still
  <2>2. CASE /\ ex[r].pc = "disableWrite"
             /\ job' = [job EXCEPT ![k] = [ex[r].row EXCEPT !.enabled = FALSE, !.lease = job[k].lease]]
    <3> DEFINE n == [ex[r].row EXCEPT !.enabled = FALSE, !.lease = job[k].lease]
    <3>1. job \in [Jobs -> AnyJob] /\ job[k] \in AnyJob /\ ex[r].row \in AnyJob
      BY <1>1, <1>2, <1>3, <2>2 DEF SchedulerTypes, RunIsWhole
    <3>2. n \in AnyJob /\ n.enabled = FALSE
      BY <3>1 DEF AnyJob
    <3>3. job' = [job EXCEPT ![k] = n]
      BY <2>2
    <3> HIDE DEF n
    <3>4. job' \in [Jobs -> AnyJob] /\ \A j \in Jobs : Armed(job'[j]) => Armed(job[j])
      BY <1>3, <3>1, <3>2, <3>3 DEF Armed
    <3> QED BY <1>1, <3>4 DEF SchedulerTypes, RowsKeep, AnyGhost, Milder
  <2> QED BY <2>1, <2>2 DEF DisableOnce, SkipDisable
<1>5. \A n : Shown(r, n)
  BY <1>3 DEF Shown
<1>6. CASE AfterDisable(r)
  <2>1. CASE ex[r].skipped
    BY <1>4, <1>5, <1>6, <2>1, DoneStep DEF AfterDisable
  <2>2. CASE ~ex[r].skipped
    <3>1. To(r, "record")
      BY <1>6, <2>2 DEF AfterDisable
    <3>2. Owes(ex[r], k)
      BY <1>1, <1>2, <2>2 DEF Owes, AnyRun
    <3>3. "record" \in Phases \ {"recordWrite", "disableWrite", "finish"}
      BY DEF Phases
    <3> QED BY <1>1, <1>3, <1>4, <3>1, <3>2, <3>3, ToStep
  <2> QED BY <2>1, <2>2
<1>7. CASE ex[r].pc = "disable" /\ ex' = [ex EXCEPT ![r].pc = "disableWrite", ![r].row = job[k]]
  <2> DEFINE n == [ex[r] EXCEPT !.pc = "disableWrite", !.row = job[k]]
  <2>1. ex' = [ex EXCEPT ![r] = n]
    BY <1>1, <1>7 DEF SchedulerTypes
  <2>2. job[k] \in AnyJob
    BY <1>1, <1>3 DEF SchedulerTypes
  <2>3. n \in AnyRun /\ n.pc = "disableWrite" /\ n.job = k /\ n.row = job[k] /\ n.skipped = ex[r].skipped
    BY <1>2, <2>2 DEF AnyRun, Phases
  <2> HIDE DEF n
  <2>4. RunIsWhole(n)
    BY <1>3, <2>2, <2>3 DEF RunIsWhole
  <2>5. \A j : (Owes(n, j) => Owes(ex[r], j)) /\ ~Runs(n, j)
    BY <1>7, <2>3 DEF Owes, Runs
  <2>6. GoesOn(r, n)
    BY <1>7, <2>3, <2>4, <2>5 DEF GoesOn
  <2> QED BY <1>4, <1>5, <2>1, <2>6, RunnerStep
<1> QED BY <1>6, <1>7 DEF DisableOnce, SkipDisable

\* A call of the storage fails, or the caller of run-now goes away.
LEMMA EndSteps ==
  ASSUME SchedulerInvariant, CancelManual \/ \E r \in Runners : FailRun(r)
  PROVE  SchedulerInvariant'
<1>1. SchedulerTypes
  BY DEF SchedulerInvariant
<1>2. CASE CancelManual
  <2>1. "manual" \in Runners /\ Shown("manual", Idle) /\ Done("manual")
    BY <1>2 DEF Runners, Shown, CancelManual
  <2>2. RowsKeep
    BY <1>2, Still DEF CancelManual
  <2> QED BY <2>1, <2>2, DoneStep
<1>3. ASSUME NEW r \in Runners, FailRun(r) PROVE SchedulerInvariant'
  <2>1. ex[r].pc # "idle" /\ RunIsWhole(ex[r]) /\ Done(r) /\ UNCHANGED <<breaker, batch, op>>
    BY <1>1, <1>3, RunForms DEF FailRun
  <2>2. ex[r].job \in Jobs
    BY <2>1 DEF RunIsWhole
  <2>3. \A j \in Jobs : ghost[j] \in AnyGhost /\ ghost'[j] = [ghost[j] EXCEPT !.allowed = @ + 1]
    BY <1>1, <1>3 DEF FailRun, Excused, SchedulerTypes
  <2>4. /\ ghost' \in [Jobs -> AnyGhost]
        /\ \A j \in Jobs : ghost'[j].allowed = ghost[j].allowed + 1 /\ ghost'[j].failed = ghost[j].failed
    <3>1. ghost' = [j \in Jobs |-> ghost'[j]]
      BY <1>3 DEF FailRun, Excused
    <3> QED BY <2>3, <3>1 DEF AnyGhost
  <2>5. \A j \in Jobs : ghost'[j].allowed >= 1 /\ ghost'[j].allowed >= ghost[j].allowed
    <3> TAKE j \in Jobs
    <3>1. ghost[j].allowed >= 0 /\ ghost[j].allowed \in Int
      BY <2>3 DEF SchedulerInvariant, OnceOf, AnyGhost
    <3> QED BY <2>4, <3>1
  <2>6. job' \in [Jobs -> AnyJob] /\ \A j \in Jobs : Armed(job'[j]) => Armed(job[j])
    <3>1. job \in [Jobs -> AnyJob] /\ job[ex[r].job] \in AnyJob
      BY <1>1, <2>2 DEF SchedulerTypes
    <3>2. CASE job' = job
      BY <3>1, <3>2
    <3>3. CASE job' = [job EXCEPT ![ex[r].job].lease = None]
      BY <2>2, <3>1, <3>3 DEF AnyJob, Armed, None
    <3> QED BY <1>3, <3>2, <3>3 DEF FailRun, ClearLease
  <2>7. RowsKeep
    BY <1>1, <2>1, <2>4, <2>5, <2>6 DEF RowsKeep, SchedulerTypes, Milder
  <2>8. Shown(r, Idle)
    BY <2>5 DEF Shown
  <2> QED BY <1>3, <2>1, <2>7, <2>8, DoneStep
<1> QED BY <1>2, <1>3

\* The larger and the smaller of two numbers.
LEMMA MaxMin ==
  ASSUME NEW x \in Int, NEW y \in Int
  PROVE  /\ x <= y => Max({x, y}) = y
         /\ Min({x, y}) = IF x <= y THEN x ELSE y
  BY DEF Max, Min

\* A step of one run that leaves rows and breakers alone, for one job that
\* the run has to do with: the two counts are shown apart.
LEMMA AttemptParts ==
  ASSUME SchedulerInvariant, NEW r \in Runners, NEW n \in AnyRun, RunIsWhole(n),
         NEW k \in Jobs, k = ex[r].job, ex[r].pc = "run", n.pc \in {"run", "finish"}, n.job = k, n.kind = ex[r].kind,
         ex' = [ex EXCEPT ![r] = n], UNCHANGED <<job, breaker, batch, op>>,
         ghost' \in [Jobs -> AnyGhost],
         \A j \in Jobs \ {k} : ghost'[j] = ghost[j], OnceOf(k)', CountsOf(k)'
  PROVE  SchedulerInvariant'
<1>1. SchedulerTypes /\ BatchIsApart
  BY DEF SchedulerInvariant
<1>2. /\ ex' \in [Runners -> AnyRun] /\ \A q \in Runners : RunIsWhole(ex'[q])
      /\ ex'[r] = n /\ \A q \in Runners \ {r} : ex'[q] = ex[q]
  BY <1>1, RunType
<1>3. SchedulerTypes'
  BY <1>1, <1>2 DEF SchedulerTypes, RequestIsWhole
<1>4. BatchIsApart'
  BY <1>1, <1>2 DEF BatchIsApart, Runners
<1>5. ASSUME NEW j \in Jobs, j # k PROVE OnceOf(j)' /\ CountsOf(j)'
  <2>1. OnceOf(j) /\ CountsOf(j) /\ ghost'[j] = ghost[j] /\ breaker'[j] = breaker[j]
    BY <1>5 DEF SchedulerInvariant
  <2>2. \A q \in Runners : Owes(ex'[q], j) => Owes(ex[q], j)
    BY <1>2, <1>5 DEF Owes
  <2>3. \A q \in Runners : ex'[q].pc = "recordWrite" /\ ex'[q].job = j =>
           ex[q].pc = "recordWrite" /\ ex[q].job = j /\ ex'[q].row = ex[q].row
    BY <1>2
  <2>4. CountsOf(j)'
    BY <1>1, <1>3, <2>1, <2>2, <2>3, CountsKeep DEF Milder
  <2>5. MayComplete(j)' => MayComplete(j)
    <3>1. Runs(ex'["loop"], j) => Runs(ex["loop"], j)
      BY <1>2, <1>5 DEF Runs, Runners
    <3>2. Completed(ex["loop"], j) => Completed(ex'["loop"], j)
      BY <1>2, <1>5 DEF Completed, Runners
    <3> QED BY <3>1, <3>2 DEF MayComplete, Waits
  <2>6. ghost'[j].allowed >= ghost[j].allowed
    BY <1>1, <2>1 DEF SchedulerTypes, AnyGhost
  <2>7. OnceOf(j)'
    BY <1>1, <1>3, <2>1, <2>5, <2>6, OnceKeep
  <2> QED BY <2>4, <2>7
<1> QED BY <1>3, <1>4, <1>5 DEF SchedulerInvariant

\* One attempt of a payload.
LEMMA AttemptStep ==
  ASSUME SchedulerInvariant, NEW r \in Runners, Attempt(r)
  PROVE  SchedulerInvariant'
<1> DEFINE e == ex[r]
<1>1. SchedulerTypes /\ BatchIsApart /\ UNCHANGED <<job, breaker, batch, op>> /\ e.pc = "run"
  BY DEF SchedulerInvariant, Attempt
<1>2. e \in AnyRun /\ RunIsWhole(e) /\ e.job \in Jobs
  BY <1>1, RunForms DEF RunIsWhole
<1>0. PICK k \in Jobs : k = e.job
  BY <1>2
<1>3. OnceOf(k) /\ CountsOf(k) /\ ghost[k] \in AnyGhost /\ ghost \in [Jobs -> AnyGhost]
  BY <1>0, <1>1, <1>2 DEF SchedulerInvariant, SchedulerTypes
<1>4. \A j : ~Completed(e, j) /\ ~Owes(e, j)
  BY <1>0, <1>1 DEF Completed, Owes
<1>5. CASE ex' = [ex EXCEPT ![r].tries = @ + 1] /\ UNCHANGED ghost
  <2> DEFINE n == [e EXCEPT !.tries = @ + 1]
  <2>1. ex' = [ex EXCEPT ![r] = n]
    BY <1>0, <1>1, <1>5 DEF SchedulerTypes
  <2>2. n \in AnyRun /\ n.pc = "run" /\ n.job = k /\ n.kind = e.kind
    BY <1>0, <1>1, <1>2 DEF AnyRun
  <2> HIDE DEF n
  <2>3. GoesOn(r, n)
    BY <1>0, <1>1, <1>2, <2>2 DEF GoesOn, RunIsWhole, Owes, Runs
  <2>4. Shown(r, n)
    BY <1>0, <1>4 DEF Shown
  <2>5. RowsKeep
    BY <1>0, <1>1, <1>5, Still
  <2> QED BY <2>1, <2>3, <2>4, <2>5, RunnerStep
<1>6. CASE /\ ex' = [ex EXCEPT ![r].pc = "finish", ![r].ok = TRUE]
           /\ ghost' = IF r = "loop" /\ e.kind = Once
                         THEN [ghost EXCEPT ![k].allowed = Max({-1, @ - 1})] ELSE ghost
  <2> DEFINE n == [e EXCEPT !.pc = "finish", !.ok = TRUE]
  <2>1. ex' = [ex EXCEPT ![r] = n]
    BY <1>0, <1>1, <1>6 DEF SchedulerTypes
  <2>2. n \in AnyRun /\ n.pc = "finish" /\ n.job = k /\ n.kind = e.kind /\ n.ok = TRUE
    BY <1>0, <1>1, <1>2 DEF AnyRun, Phases
  <2> HIDE DEF n
  <2>3. RunIsWhole(n) /\ \A j : ~Owes(n, j) /\ ~Runs(n, j)
    BY <1>0, <1>2, <2>2 DEF RunIsWhole, Owes, Runs
  <2>4. CASE ~(r = "loop" /\ e.kind = Once)
    <3>1. ghost' = ghost
      BY <1>0, <1>6, <2>4
    <3>2. GoesOn(r, n)
      BY <1>0, <1>1, <2>2, <2>3 DEF GoesOn
    <3>3. Shown(r, n)
      BY <1>0, <1>4 DEF Shown
    <3>4. RowsKeep
      BY <1>0, <1>1, <3>1, Still
    <3> QED BY <2>1, <3>2, <3>3, <3>4, RunnerStep
  <2>5. CASE r = "loop" /\ e.kind = Once
    <3>1. Runs(e, k)
      BY <1>0, <1>1, <2>5 DEF Runs
    <3>2. ghost[k].allowed \in Int /\ ghost[k].allowed >= 1
      BY <1>0, <1>3, <2>5, <3>1 DEF OnceOf, MayComplete, AnyGhost
    <3>3. Max({-1, ghost[k].allowed - 1}) = ghost[k].allowed - 1
      <4>1. -1 \in Int /\ ghost[k].allowed - 1 \in Int /\ -1 <= ghost[k].allowed - 1
        BY <3>2
      <4>2. \A x \in Int, y \in Int : x <= y => Max({x, y}) = y
        BY MaxMin
      <4> QED BY <4>1, <4>2
    <3>4. ghost' = [ghost EXCEPT ![k] = [ghost[k] EXCEPT !.allowed = ghost[k].allowed - 1]]
      BY <1>0, <1>3, <1>6, <2>5, <3>3
    <3>5. /\ ghost' \in [Jobs -> AnyGhost] /\ \A j \in Jobs \ {k} : ghost'[j] = ghost[j]
          /\ ghost'[k].allowed >= 0 /\ ghost'[k].failed = ghost[k].failed
      BY <1>0, <1>2, <1>3, <3>2, <3>4 DEF AnyGhost
    <3>6. ex'["loop"] = n /\ \A q \in Runners \ {"loop"} : ex'[q] = ex[q]
      BY <1>0, <1>1, <2>1, <2>2, <2>3, <2>5, RunType
    <3>7. ~MayComplete(k)'
      <4>1. ~Waits(k)'
        BY <1>0, <1>1, <2>5 DEF Waits, BatchIsApart
      <4>2. ~Runs(ex'["loop"], k) /\ Completed(ex'["loop"], k)
        BY <2>2, <2>3, <2>5, <3>6 DEF Completed
      <4> QED BY <4>1, <4>2 DEF MayComplete
    <3>8. OnceOf(k)'
      BY <3>5, <3>7 DEF OnceOf
    <3>9. SchedulerTypes'
      <4>1. ex' \in [Runners -> AnyRun] /\ \A q \in Runners : RunIsWhole(ex'[q])
        BY <1>0, <1>1, <2>1, <2>2, <2>3, RunType
      <4> QED BY <1>0, <1>1, <3>5, <4>1 DEF SchedulerTypes, RequestIsWhole
    <3>10. CountsOf(k)'
      <4>1. Milder(breaker'[k], breaker[k])
        BY <1>0, <1>1 DEF Milder
      <4>2. \A q \in Runners : Owes(ex'[q], k) => Owes(ex[q], k)
        BY <2>3, <3>6
      <4>3. \A q \in Runners : ex'[q].pc = "recordWrite" /\ ex'[q].job = k =>
               ex[q].pc = "recordWrite" /\ ex[q].job = k /\ ex'[q].row = ex[q].row
        BY <2>2, <3>6
      <4> QED BY <1>0, <1>1, <1>2, <1>3, <3>5, <3>9, <4>1, <4>2, <4>3, CountsKeep
    <3> QED BY <1>0, <1>1, <2>1, <2>2, <2>3, <3>5, <3>8, <3>10, AttemptParts
  <2> QED BY <2>4, <2>5
<1>7. CASE To(r, "finish") /\ ghost' = [ghost EXCEPT ![k].failed = Min({Threshold, @ + 1})]
  <2> DEFINE n == [e EXCEPT !.pc = "finish", !.row = NoRow]
  <2>1. ex' = [ex EXCEPT ![r] = n]
    BY <1>0, <1>1, <1>7, RunForms DEF Phases
  <2>2. n \in AnyRun /\ n.pc = "finish" /\ n.job = k /\ n.kind = e.kind
    BY <1>0, <1>1, <1>2 DEF AnyRun, Phases
  <2> HIDE DEF n
  <2>3. RunIsWhole(n)
    BY <1>0, <1>2, <2>2 DEF RunIsWhole
  <2>4. /\ ex'[r] = n /\ \A q \in Runners \ {r} : ex'[q] = ex[q]
        /\ ex' \in [Runners -> AnyRun] /\ \A q \in Runners : RunIsWhole(ex'[q])
    BY <1>0, <1>1, <2>1, <2>2, <2>3, RunType
  <2>5. /\ ghost[k].failed \in 0..Threshold /\ Threshold \in Nat
        /\ Min({Threshold, ghost[k].failed + 1}) =
             IF Threshold <= ghost[k].failed + 1 THEN Threshold ELSE ghost[k].failed + 1
    <3>1. ghost[k].failed \in 0..Threshold /\ Threshold \in Nat
      BY <1>0, <1>3, SchedulerAssumption DEF AnyGhost
    <3>2. Threshold \in Int /\ ghost[k].failed + 1 \in Int
      BY <3>1
    <3>3. \A x \in Int, y \in Int : Min({x, y}) = IF x <= y THEN x ELSE y
      BY MaxMin
    <3> QED BY <3>1, <3>2, <3>3
  <2>6. /\ ghost' \in [Jobs -> AnyGhost] /\ \A j \in Jobs \ {k} : ghost'[j] = ghost[j]
        /\ ghost'[k].allowed = ghost[k].allowed
        /\ ghost'[k].failed = Threshold \/ ghost'[k].failed = ghost[k].failed + 1
        /\ ghost[k].failed = Threshold => ghost'[k].failed = Threshold
    <3> DEFINE m == Min({Threshold, ghost[k].failed + 1})
    <3>1. ghost' = [ghost EXCEPT ![k] = [ghost[k] EXCEPT !.failed = m]]
      BY <1>0, <1>3, <1>7
    <3>2. /\ m \in 0..Threshold
          /\ m = Threshold \/ m = ghost[k].failed + 1
          /\ ghost[k].failed = Threshold => m = Threshold
      BY <2>5
    <3> HIDE DEF m
    <3> QED BY <1>0, <1>3, <3>1, <3>2 DEF AnyGhost
  <2>7. OnceOf(k)'
    <3>1. MayComplete(k)' => MayComplete(k)
      <4>1. Runs(ex'["loop"], k) => Runs(ex["loop"], k)
        BY <2>2, <2>4 DEF Runs, Runners
      <4>2. Completed(ex["loop"], k) => Completed(ex'["loop"], k)
        BY <1>0, <1>4, <2>4 DEF Runners
      <4> QED BY <1>0, <1>1, <4>1, <4>2 DEF MayComplete, Waits
    <3> QED BY <1>0, <1>3, <2>6, <3>1 DEF OnceOf
  <2>8. CountsOf(k)'
    <3>1. CASE ghost'[k].failed = Threshold
      BY <3>1 DEF CountsOf
    <3>2. CASE ghost'[k].failed # Threshold
      <4>1. ghost[k].failed # Threshold /\ ghost'[k].failed = ghost[k].failed + 1
        BY <2>6, <3>2
      <4>2. Owed(k) \in Nat /\ Owed(k)' \in Nat /\ Owed(k)' <= Owed(k) + 1
        BY <1>0, <1>4, <2>4 DEF Owed, Debt, Runners
      <4>3. ghost[k].failed \in Nat /\ breaker[k].failures \in Nat
        BY <1>0, <1>1, <1>2, <2>5 DEF SchedulerTypes, AnyBreaker
      <4>4. Covered(breaker[k], k)'
        BY <1>0, <1>1, <1>3, <4>1, <4>2, <4>3 DEF CountsOf, Covered
      <4>5. ASSUME NEW q \in Runners, ex'[q].pc = "recordWrite", ex'[q].job = k
            PROVE  Covered(ex[q].row, k)'
        <5>1. q # r /\ ex'[q] = ex[q]
          BY <2>2, <2>4, <4>5
        <5>2. ex[q].row.failures \in Nat
          BY <1>0, <1>1, <4>5, <5>1 DEF SchedulerTypes, RunIsWhole, AnyBreaker
        <5>3. Covered(ex[q].row, k)
          BY <1>0, <1>3, <4>1, <4>5, <5>1 DEF CountsOf
        <5> QED BY <4>1, <4>2, <4>3, <5>1, <5>2, <5>3 DEF Covered
      <4> QED BY <4>4, <4>5 DEF CountsOf
    <3> QED BY <3>1, <3>2
  <2> QED BY <1>0, <1>1, <2>1, <2>2, <2>3, <2>6, <2>7, <2>8, AttemptParts
<1> QED BY <1>0, <1>5, <1>6, <1>7 DEF Attempt

\* A failure is added to the count of the breaker that was read.
LEMMA RecordStep ==
  ASSUME SchedulerInvariant, NEW r \in Runners, RecordFailure(r)
  PROVE  SchedulerInvariant'
<1>1. SchedulerTypes /\ BatchIsApart /\ UNCHANGED <<job, batch, op, ghost>> /\ ex[r].pc \in {"record", "recordWrite"}
  BY DEF SchedulerInvariant, RecordFailure
<1>2. ex[r] \in AnyRun /\ RunIsWhole(ex[r]) /\ ex[r].job \in Jobs
  BY <1>1, RunForms DEF RunIsWhole
<1>3. PICK k \in Jobs : k = ex[r].job
  BY <1>2
<1>4. \A j : ~Completed(ex[r], j)
  BY <1>1 DEF Completed
<1>5. \A n : Shown(r, n)
  BY <1>4 DEF Shown
<1>6. CASE UNCHANGED breaker /\ Done(r)
  <2>1. RowsKeep
    BY <1>1, <1>6, Still
  <2> QED BY <1>5, <1>6, <2>1, DoneStep
<1>7. CASE /\ ex[r].pc = "record" /\ UNCHANGED breaker
           /\ ex' = [ex EXCEPT ![r].pc = "recordWrite", ![r].row = breaker[k]]
  <2> DEFINE n == [ex[r] EXCEPT !.pc = "recordWrite", !.row = breaker[k]]
  <2>1. ex' = [ex EXCEPT ![r] = n]
    BY <1>1, <1>7 DEF SchedulerTypes
  <2>2. breaker[k] \in AnyBreaker
    BY <1>1 DEF SchedulerTypes
  <2>3. n \in AnyRun /\ n.pc = "recordWrite" /\ n.job = k /\ n.row = breaker[k]
    BY <1>2, <1>3, <2>2 DEF AnyRun, Phases
  <2> HIDE DEF n
  <2>4. RunIsWhole(n)
    BY <2>2, <2>3 DEF RunIsWhole
  <2>5. \A j : (Owes(n, j) => Owes(ex[r], j)) /\ ~Runs(n, j)
    BY <1>3, <1>7, <2>3 DEF Owes, Runs
  <2>6. GoesOn(r, n)
    BY <1>3, <1>7, <2>3, <2>4, <2>5 DEF GoesOn
  <2>7. RowsKeep
    BY <1>1, <1>7, Still
  <2> QED BY <1>5, <2>1, <2>6, <2>7, RunnerStep
<1>8. CASE ex[r].pc = "recordWrite" /\ Done(r) /\ breaker' = [breaker EXCEPT ![k] = Failed(ex[r].row)]
  <2> DEFINE b == ex[r].row
             f == Failed(ex[r].row)
  <2>1. b \in AnyBreaker
    BY <1>2, <1>8 DEF RunIsWhole
  <2>2. /\ f \in AnyBreaker
        /\ b.open = FALSE => f.failures = b.failures + 1
        /\ b.open = FALSE /\ b.failures + 1 < Threshold => f.open = FALSE
    BY <2>1, SchedulerAssumption DEF Failed, AnyBreaker
  <2>3. /\ ex' \in [Runners -> AnyRun] /\ \A q \in Runners : RunIsWhole(ex'[q])
        /\ ex'[r] = Idle /\ \A q \in Runners \ {r} : ex'[q] = ex[q]
    BY <1>1, <1>8, RunForms, RunType
  <2>4. breaker' \in [Jobs -> AnyBreaker] /\ breaker'[k] = f /\ \A j \in Jobs \ {k} : breaker'[j] = breaker[j]
    BY <1>1, <1>8, <2>2 DEF SchedulerTypes
  <2> HIDE DEF f
  <2>5. SchedulerTypes'
    BY <1>1, <2>3, <2>4 DEF SchedulerTypes, RequestIsWhole
  <2>6. BatchIsApart'
    BY <1>1, <2>3 DEF BatchIsApart, Runners, Idle
  <2>7. Idle.pc = "idle" /\ \A j : ~Owes(Idle, j) /\ ~Runs(Idle, j)
    BY DEF Idle, Owes, Runs
  <2>8. ASSUME NEW j \in Jobs PROVE OnceOf(j)'
    <3>1. MayComplete(j)' => MayComplete(j)
      <4>1. Runs(ex'["loop"], j) => Runs(ex["loop"], j)
        BY <2>3, <2>7 DEF Runners
      <4>2. Completed(ex["loop"], j) => Completed(ex'["loop"], j)
        BY <1>4, <2>3 DEF Runners
      <4> QED BY <1>1, <4>1, <4>2 DEF MayComplete, Waits
    <3> QED BY <1>1, <3>1 DEF SchedulerInvariant, OnceOf
  <2>9. \A j \in Jobs, q \in Runners : Owes(ex'[q], j) => Owes(ex[q], j)
    BY <2>3, <2>7
  <2>10. \A j \in Jobs, q \in Runners : ex'[q].pc = "recordWrite" /\ ex'[q].job = j =>
            q # r /\ ex[q].pc = "recordWrite" /\ ex[q].job = j /\ ex'[q].row = ex[q].row
    BY <2>3, <2>7
  <2>11. ASSUME NEW j \in Jobs \ {k} PROVE CountsOf(j)'
    <3>1. CountsOf(j) /\ Milder(breaker'[j], breaker[j]) /\ ghost'[j] = ghost[j]
      BY <1>1, <2>4 DEF SchedulerInvariant, Milder
    <3> QED BY <1>1, <2>5, <2>9, <2>10, <3>1, CountsKeep
  <2>12. CountsOf(k)'
    <3>1. CASE ghost[k].failed = Threshold
      BY <1>1, <3>1 DEF CountsOf
    <3>2. CASE ghost[k].failed # Threshold
      <4>1. Owed(k) \in Nat /\ Owed(k)' \in Nat /\ Owed(k)' + 1 <= Owed(k)
        <5>1. Owes(ex[r], k) /\ ~Owes(ex'[r], k)
          BY <1>3, <1>8, <2>3, <2>7 DEF Owes
        <5> QED BY <2>3, <5>1 DEF Owed, Debt, Runners
      <4>2. ghost[k].failed \in Nat /\ ghost[k].failed < Threshold /\ Threshold \in Nat
        BY <1>1, <3>2, SchedulerAssumption DEF SchedulerTypes, AnyGhost
      <4>3. b.open = FALSE /\ b.failures \in Nat /\ b.failures + Owed(k) <= ghost[k].failed
        BY <1>3, <1>8, <2>1, <3>2 DEF SchedulerInvariant, CountsOf, Covered, AnyBreaker
      <4>4. f.open = FALSE /\ f.failures = b.failures + 1
        BY <2>2, <4>1, <4>2, <4>3
      <4>5. Covered(breaker[k], k)'
        BY <1>1, <2>4, <4>1, <4>2, <4>3, <4>4 DEF Covered
      <4>6. ASSUME NEW q \in Runners, ex'[q].pc = "recordWrite", ex'[q].job = k
            PROVE  Covered(ex[q].row, k)'
        <5>1. ex'[q].row = ex[q].row /\ ex[q].row.failures \in Nat /\ Covered(ex[q].row, k)
          BY <1>1, <2>10, <3>2, <4>6 DEF SchedulerInvariant, SchedulerTypes, RunIsWhole, AnyBreaker, CountsOf
        <5> QED BY <1>1, <4>1, <4>2, <5>1 DEF Covered
      <4> QED BY <4>5, <4>6 DEF CountsOf
    <3> QED BY <3>1, <3>2
  <2> QED BY <2>5, <2>6, <2>8, <2>11, <2>12 DEF SchedulerInvariant
<1> QED BY <1>3, <1>6, <1>7, <1>8 DEF RecordFailure

\* Run-now begins a run of its own.
LEMMA ManualStep ==
  ASSUME SchedulerInvariant, StartManual
  PROVE  SchedulerInvariant'
<1>1. SchedulerTypes /\ UNCHANGED <<job, breaker, batch, op, ghost>>
  BY DEF SchedulerInvariant, StartManual
<1>2. PICK j \in Jobs : Begin("manual", j, job[j].kind)
  BY DEF StartManual
<1> DEFINE n == [Idle EXCEPT !.pc = "check", !.job = j, !.kind = job[j].kind]
<1>3. ex' = [ex EXCEPT !["manual"] = n] /\ "manual" \in Runners
  BY <1>2 DEF Begin, Runners
<1>4. job[j].kind \in Kinds
  BY <1>1 DEF SchedulerTypes, AnyJob
<1>5. n \in AnyRun /\ n.pc = "check" /\ n.job = j
  BY <1>4 DEF AnyRun, Idle, Phases
<1> HIDE DEF n
<1>6. GoesOn("manual", n)
  BY <1>5 DEF GoesOn, RunIsWhole, Owes
<1>7. Shown("manual", n)
  BY DEF Shown
<1>8. RowsKeep
  BY <1>1, Still
<1> QED BY <1>3, <1>6, <1>7, <1>8, RunnerStep

\* The loop goes on to the next job of its batch.
LEMMA ScheduledStep ==
  ASSUME SchedulerInvariant, StartScheduled
  PROVE  SchedulerInvariant'
<1>1. SchedulerTypes /\ BatchIsApart /\ UNCHANGED <<job, breaker, op, ghost>>
  BY DEF SchedulerInvariant, StartScheduled
<1>2. batch # <<>> /\ ex["loop"] = Idle /\ batch' = Tail(batch)
  BY DEF StartScheduled
<1> DEFINE S == [job: Jobs, kind: Kinds]
<1>3. /\ batch' \in Seq(S) /\ 1 \in DOMAIN batch /\ Head(batch) = batch[1]
      /\ batch[1] \in S
      /\ \A i \in DOMAIN batch' : i + 1 \in DOMAIN batch /\ i \in Nat \ {0} /\ batch'[i] = batch[i + 1]
  <2>1. batch \in Seq(S)
    BY <1>1 DEF SchedulerTypes
  <2>2. Len(batch) \in Nat \ {0} /\ DOMAIN batch = 1..Len(batch)
    BY <1>2, <2>1
  <2>3. batch' \in Seq(S) /\ Len(batch') = Len(batch) - 1 /\ \A i \in 1..Len(batch) - 1 : batch'[i] = batch[i + 1]
    BY <1>2, <2>1
  <2>4. DOMAIN batch' = 1..Len(batch) - 1
    BY <2>3
  <2>5. Head(batch) = batch[1] /\ 1 \in DOMAIN batch
    BY <1>2, <2>1, <2>2
  <2>6. batch[1] \in S
    <3>1. ASSUME NEW T, NEW q \in Seq(T), NEW i \in DOMAIN q PROVE q[i] \in T
      OBVIOUS
    <3> QED BY <2>1, <2>5, <3>1
  <2> QED BY <2>2, <2>3, <2>4, <2>5, <2>6
<1>4. PICK h \in S : h = batch[1]
  BY <1>3
<1>5. \/ ex' = ex
      \/ ex' = [ex EXCEPT !["loop"] = [Idle EXCEPT !.pc = "check", !.job = h.job, !.kind = h.kind]]
  BY <1>3, <1>4 DEF StartScheduled, Begin
<1>6. PICK n \in AnyRun : /\ ex' = [ex EXCEPT !["loop"] = n] /\ RunIsWhole(n)
                          /\ n = Idle \/ (n.pc = "check" /\ n.job = h.job /\ n.kind = h.kind)
  <2>1. "loop" \in Runners /\ ex \in [Runners -> AnyRun]
    BY <1>1 DEF Runners, SchedulerTypes
  <2>2. CASE ex' = ex
    <3>1. ex' = [ex EXCEPT !["loop"] = Idle] /\ Idle \in AnyRun /\ RunIsWhole(Idle)
      BY <1>1, <1>2, <2>1, <2>2, RunForms
    <3> QED BY <3>1
  <2>3. CASE ex' = [ex EXCEPT !["loop"] = [Idle EXCEPT !.pc = "check", !.job = h.job, !.kind = h.kind]]
    <3> DEFINE m == [Idle EXCEPT !.pc = "check", !.job = h.job, !.kind = h.kind]
    <3>1. m \in AnyRun /\ m.pc = "check" /\ m.job = h.job /\ m.kind = h.kind
      BY <1>4 DEF AnyRun, Idle, Phases
    <3>2. RunIsWhole(m)
      BY <1>4, <3>1 DEF RunIsWhole
    <3> HIDE DEF m
    <3>3. ex' = [ex EXCEPT !["loop"] = m]
      BY <2>3 DEF m
    <3> QED BY <3>1, <3>2, <3>3
  <2> QED BY <1>5, <2>2, <2>3
<1>7. /\ ex' \in [Runners -> AnyRun] /\ \A q \in Runners : RunIsWhole(ex'[q])
      /\ ex'["loop"] = n /\ ex'["manual"] = ex["manual"]
  BY <1>1, <1>6, RunType DEF Runners
<1>8. SchedulerTypes'
  BY <1>1, <1>3, <1>7 DEF SchedulerTypes, RequestIsWhole
<1>9. BatchIsApart'
  <2>1. ASSUME NEW i \in DOMAIN batch', NEW l \in DOMAIN batch', batch'[i].job = batch'[l].job
        PROVE  i = l
    <3>1. i + 1 = l + 1
      BY <1>1, <1>3, <2>1 DEF BatchIsApart
    <3> QED BY <1>3, <3>1
  <2>2. ASSUME NEW i \in DOMAIN batch' PROVE batch'[i].job # h.job
    <3>1. i + 1 # 1
      BY <1>3
    <3> QED BY <1>1, <1>3, <1>4, <3>1 DEF BatchIsApart
  <2>3. n.pc # "idle" => n.job = h.job
    BY <1>6 DEF Idle
  <2> QED BY <1>7, <2>1, <2>2, <2>3 DEF BatchIsApart
<1>10. ASSUME NEW j \in Jobs PROVE OnceOf(j)' /\ CountsOf(j)'
  <2>1. OnceOf(j) /\ CountsOf(j) /\ ghost'[j] = ghost[j] /\ breaker'[j] = breaker[j] /\ job'[j] = job[j]
    BY <1>1 DEF SchedulerInvariant
  <2>2. MayComplete(j)' => MayComplete(j)
    <3>1. Waits(j)' => Waits(j)
      BY <1>3 DEF Waits
    <3>2. Runs(n, j) => Waits(j)
      BY <1>3, <1>4, <1>6 DEF Runs, Waits, Idle
    <3>3. ~Completed(ex["loop"], j)
      BY <1>2 DEF Completed, Idle
    <3> QED BY <1>7, <2>1, <3>1, <3>2, <3>3 DEF MayComplete
  <2>3. OnceOf(j)'
    BY <2>1, <2>2 DEF OnceOf
  <2>4. ~Owes(n, j) /\ n.pc # "recordWrite"
    BY <1>6 DEF Owes, Idle
  <2>5. CountsOf(j)'
    <3>1. \A q \in Runners : Owes(ex'[q], j) => Owes(ex[q], j)
      BY <1>7, <2>4 DEF Runners
    <3>2. \A q \in Runners : ex'[q].pc = "recordWrite" /\ ex'[q].job = j =>
             ex[q].pc = "recordWrite" /\ ex[q].job = j /\ ex'[q].row = ex[q].row
      BY <1>7, <2>4 DEF Runners
    <3> QED BY <1>1, <1>8, <2>1, <3>1, <3>2, CountsKeep DEF Milder
  <2> QED BY <2>3, <2>5
<1> QED BY <1>8, <1>9, <1>10 DEF SchedulerInvariant

\* The loop leases what is due.
LEMMA AcquireStep ==
  ASSUME SchedulerInvariant, AcquireDueJobs
  PROVE  SchedulerInvariant'
<1> DEFINE due == {j \in Jobs : Due(j)}
<1>1. /\ SchedulerTypes /\ BatchIsApart /\ UNCHANGED <<breaker, ex, op, ghost>>
      /\ ex["loop"] = Idle
      /\ job' = [j \in Jobs |-> IF j \in due THEN [job[j] EXCEPT !.lease = LeaseLen] ELSE job[j]]
  BY DEF SchedulerInvariant, AcquireDueJobs
<1>2. PICK s \in Orders(due) : batch' = [i \in DOMAIN s |-> [job |-> s[i], kind |-> job[s[i]].kind]]
  BY DEF AcquireDueJobs
<1>3. Cardinality(due) \in Nat
  <2>1. IsFiniteSet(due)
    BY SchedulerAssumption, FS_Subset
  <2> QED BY <2>1, FS_CardinalityType
<1>4. \A j \in due : j \in Jobs /\ Due(j)
  OBVIOUS
<1> HIDE DEF due
<1>5. s \in [1..Cardinality(due) -> due] /\ \A i, k \in DOMAIN s : s[i] = s[k] => i = k
  BY <1>2 DEF Orders
<1>6. /\ \A j \in Jobs : job'[j] \in AnyJob /\ (Armed(job'[j]) <=> Armed(job[j]))
      /\ job' \in [Jobs -> AnyJob]
  <2>1. ASSUME NEW j \in Jobs PROVE job'[j] \in AnyJob /\ (Armed(job'[j]) <=> Armed(job[j]))
    <3>1. job[j] \in AnyJob
      BY <1>1 DEF SchedulerTypes
    <3>2. CASE job'[j] = job[j]
      BY <3>1, <3>2
    <3>3. CASE job'[j] = [job[j] EXCEPT !.lease = LeaseLen]
      BY <3>1, <3>3, SchedulerAssumption DEF AnyJob, Armed
    <3> QED BY <1>1, <3>2, <3>3
  <2> QED BY <1>1, <2>1
<1>7. \A i \in DOMAIN batch' : /\ i \in DOMAIN s /\ s[i] \in due
                               /\ batch'[i].job = s[i] /\ batch'[i].kind = job[s[i]].kind
  BY <1>2, <1>5
<1>8. batch' \in Seq([job: Jobs, kind: Kinds])
  <2>1. \A i \in 1..Cardinality(due) : [job |-> s[i], kind |-> job[s[i]].kind] \in [job: Jobs, kind: Kinds]
    BY <1>1, <1>4, <1>5 DEF SchedulerTypes, AnyJob
  <2>2. batch' \in [1..Cardinality(due) -> [job: Jobs, kind: Kinds]]
    BY <1>2, <1>5, <2>1
  <2>3. ASSUME NEW T, NEW m \in Nat, NEW f \in [1..m -> T] PROVE f \in Seq(T)
    OBVIOUS
  <2> QED BY <1>3, <2>2, <2>3
<1>9. SchedulerTypes'
  BY <1>1, <1>6, <1>8 DEF SchedulerTypes, RequestIsWhole
<1>10. BatchIsApart'
  BY <1>1, <1>5, <1>7 DEF BatchIsApart, Idle
<1>11. ASSUME NEW j \in Jobs PROVE OnceOf(j)' /\ CountsOf(j)'
  <2>1. OnceOf(j) /\ CountsOf(j) /\ ghost'[j] = ghost[j] /\ breaker'[j] = breaker[j]
    BY <1>1 DEF SchedulerInvariant
  <2>2. ~Completed(ex["loop"], j)
    BY <1>1 DEF Completed, Idle
  <2>3. Waits(j)' => Armed(job[j])
    <3>1. ASSUME NEW i \in DOMAIN batch', batch'[i].job = j, batch'[i].kind = Once PROVE Armed(job[j])
      <4>1. Due(j) /\ job[j].kind = Once /\ job[j] \in AnyJob
        BY <1>1, <1>4, <1>7, <3>1 DEF SchedulerTypes
      <4> QED BY <4>1 DEF Due, Armed, AnyJob
    <3> QED BY <3>1 DEF Waits
  <2>4. MayComplete(j)' => MayComplete(j)
    BY <1>1, <1>6, <2>2, <2>3 DEF MayComplete
  <2>5. OnceOf(j)'
    BY <2>1, <2>4 DEF OnceOf
  <2>6. CountsOf(j)'
    BY <1>1, <1>9, <2>1, CountsKeep DEF Milder
  <2> QED BY <2>5, <2>6
<1> QED BY <1>9, <1>10, <1>11 DEF SchedulerInvariant

\* The gateway dies.
LEMMA CrashStep ==
  ASSUME SchedulerInvariant, Crash
  PROVE  SchedulerInvariant'
<1>1. /\ SchedulerTypes /\ UNCHANGED <<job, breaker>> /\ batch' = <<>> /\ op' = Rest
      /\ ex' = [r \in Runners |-> Idle] /\ ghost' = Excused
  BY DEF SchedulerInvariant, Crash
<1>2. /\ \A r \in Runners : ex'[r] = Idle
      /\ Idle.pc = "idle" /\ \A j : ~Owes(Idle, j)
  BY <1>1 DEF Idle, Owes
<1>3. /\ ghost' \in [Jobs -> AnyGhost]
      /\ \A j \in Jobs : ghost'[j].allowed = ghost[j].allowed + 1 /\ ghost'[j].failed = ghost[j].failed
  <2>1. \A j \in Jobs : ghost[j] \in AnyGhost /\ ghost'[j] = [ghost[j] EXCEPT !.allowed = @ + 1]
    BY <1>1 DEF Excused, SchedulerTypes
  <2>2. ghost' = [j \in Jobs |-> ghost'[j]]
    BY <1>1 DEF Excused
  <2> QED BY <2>1, <2>2 DEF AnyGhost
<1>4. SchedulerTypes'
  <2>1. Idle \in AnyRun /\ RunIsWhole(Idle)
    BY <1>1, RunForms DEF Runners
  <2>2. ex' \in [Runners -> AnyRun] /\ \A r \in Runners : RunIsWhole(ex'[r])
    BY <1>1, <2>1
  <2> QED BY <1>1, <1>3, <2>2 DEF SchedulerTypes, RequestIsWhole
<1>5. BatchIsApart'
  BY <1>1 DEF BatchIsApart
<1>6. ASSUME NEW j \in Jobs PROVE OnceOf(j)' /\ CountsOf(j)'
  <2>1. OnceOf(j) /\ CountsOf(j) /\ ghost[j].allowed \in Int
    BY <1>1 DEF SchedulerInvariant, SchedulerTypes, AnyGhost
  <2>2. OnceOf(j)'
    BY <1>3, <2>1 DEF OnceOf
  <2>3. CountsOf(j)'
    BY <1>1, <1>2, <1>3, <1>4, <2>1, CountsKeep DEF Milder
  <2> QED BY <2>2, <2>3
<1> QED BY <1>4, <1>5, <1>6 DEF SchedulerInvariant

\* What a request makes of the row it read again is a row.
LEMMA PatchType ==
  ASSUME op \in [pc: {"patch", "write"}, job: Jobs, patch: Patches, row: AnyJob],
         NEW row \in AnyJob, NEW next \in UpdatedNextRunAt
  PROVE  Patched(row, next) \in AnyJob
<1>1. /\ op.patch.switch \in {"keep", "on", "off"} /\ op.patch.kind \in Kinds \cup {"keep"}
      /\ op.patch.at \in Int
  BY PatchesAssumption DEF Keep, None
<1>2. op.row.next \in Int /\ op.row.at \in Int /\ op.row.kind \in Kinds
  BY DEF AnyJob
<1>3. \A a \in Int, b \in Int : Or(a, b) \in Int
  BY DEF Or
<1>4. PatchKind \in Kinds
  BY <1>1, <1>2 DEF PatchKind
<1>5. Period \in Int
  BY SchedulerAssumption
<1>6. \A t \in Int : CronAfter(t) \subseteq Int
  BY <1>3, <1>5 DEF CronAfter
<1>7. next \in Int
  <2>1. PICK k \in Kinds : k = PatchKind
    BY <1>4
  <2>2. CASE k = Once
    BY <1>1, <1>2, <1>3, <2>1, <2>2 DEF UpdatedNextRunAt, Once
  <2>3. CASE k = "interval"
    BY <1>1, <1>2, <1>3, <1>5, <2>1, <2>3 DEF UpdatedNextRunAt, Once
  <2>4. CASE k = "cron"
    <3>1. Or(op.patch.at, op.row.next) \in Int
      BY <1>1, <1>2, <1>3
    <3>2. UpdatedNextRunAt = CronAfter(Or(op.patch.at, op.row.next))
      BY <2>1, <2>4 DEF UpdatedNextRunAt, Once
    <3> QED BY <1>6, <3>1, <3>2
  <2> QED BY <2>2, <2>3, <2>4 DEF Kinds
<1>8. None \in Int /\ Or(op.patch.at, row.at) \in Int /\ Or(next, row.next) \in Int
  <2>1. row.at \in Int /\ row.next \in Int
    BY DEF AnyJob
  <2>2. None \in Int
    BY DEF None
  <2> QED BY <1>1, <1>3, <1>7, <2>1, <2>2
<1>9. (op.patch.switch = "on") \in BOOLEAN /\ row.enabled \in BOOLEAN
  BY DEF AnyJob
<1> QED BY <1>4, <1>8, <1>9 DEF Patched, AnyJob

\* The routes.
LEMMA RouteSteps ==
  ASSUME SchedulerInvariant, BeginUpdate \/ LoadUpdate \/ WriteUpdate \/ RemoveJob
  PROVE  SchedulerInvariant'
<1>1. SchedulerTypes /\ UNCHANGED <<breaker, batch, ex>>
  BY DEF SchedulerInvariant, BeginUpdate, LoadUpdate, WriteUpdate, RemoveJob
<1>2. job \in [Jobs -> AnyJob] /\ ghost \in [Jobs -> AnyGhost] /\ RequestIsWhole
  BY <1>1 DEF SchedulerTypes
<1>3. \A j \in Jobs : ghost[j].allowed \in Int /\ ghost[j].allowed >= 0
  BY <1>2 DEF SchedulerInvariant, OnceOf, AnyGhost
<1>4. ASSUME UNCHANGED <<job, ghost>>, RequestIsWhole' PROVE SchedulerInvariant'
  BY <1>1, <1>2, <1>3, <1>4, RequestStep
<1>5. CASE BeginUpdate
  <2>1. PICK j \in Jobs, p \in Patches : op' = [pc |-> "patch", job |-> j, patch |-> p, row |-> job[j]]
    BY <1>5 DEF BeginUpdate
  <2>2. RequestIsWhole'
    BY <1>2, <2>1 DEF RequestIsWhole
  <2> QED BY <1>4, <1>5, <2>2 DEF BeginUpdate
<1>6. op # Rest => op \in [pc: {"patch", "write"}, job: Jobs, patch: Patches, row: AnyJob]
  BY <1>2 DEF RequestIsWhole
<1>7. CASE LoadUpdate
  <2>1. op # Rest
    <3>1. op.pc = "patch"
      BY <1>7 DEF LoadUpdate
    <3> QED BY <3>1 DEF Rest
  <2>2. CASE op' = Rest
    BY <1>4, <1>7, <2>2 DEF LoadUpdate, RequestIsWhole
  <2>3. ASSUME NEW next \in UpdatedNextRunAt, op' = [op EXCEPT !.pc = "write", !.row = Patched(job[op.job], next)]
        PROVE  SchedulerInvariant'
    <3>1. job[op.job] \in AnyJob
      BY <1>2, <1>6, <2>1
    <3>2. Patched(job[op.job], next) \in AnyJob
      BY <1>6, <2>1, <3>1, PatchType
    <3>3. RequestIsWhole'
      BY <1>6, <2>1, <2>3, <3>2 DEF RequestIsWhole
    <3> QED BY <1>4, <1>7, <3>3 DEF LoadUpdate
  <2> QED BY <1>7, <2>2, <2>3 DEF LoadUpdate
<1>8. CASE WriteUpdate
  <2>1. op.pc = "write" /\ op' = Rest /\ RequestIsWhole'
    BY <1>8 DEF WriteUpdate, RequestIsWhole
  <2>2. op \in [pc: {"patch", "write"}, job: Jobs, patch: Patches, row: AnyJob]
    BY <1>6, <2>1 DEF Rest
  <2>3. CASE UNCHANGED <<job, ghost>>
    BY <1>4, <2>1, <2>3
  <2>4. CASE /\ job' = [job EXCEPT ![op.job] = [op.row EXCEPT !.lease = job[op.job].lease]]
             /\ ghost' = [ghost EXCEPT ![op.job].allowed = @ + 1]
    <3>1. PICK k \in Jobs : k = op.job
      BY <2>2
    <3>2. [op.row EXCEPT !.lease = job[k].lease] \in AnyJob
      BY <1>2, <2>2 DEF AnyJob
    <3>3. job' \in [Jobs -> AnyJob] /\ \A j \in Jobs \ {k} : job'[j] = job[j]
      BY <1>2, <2>4, <3>1, <3>2
    <3>4. /\ ghost' \in [Jobs -> AnyGhost] /\ \A j \in Jobs \ {k} : ghost'[j] = ghost[j]
          /\ ghost'[k].allowed = ghost[k].allowed + 1 /\ ghost'[k].failed = ghost[k].failed
      BY <1>2, <2>4, <3>1 DEF AnyGhost
    <3>5. \A j \in Jobs :
            /\ ghost'[j].allowed >= ghost[j].allowed /\ ghost'[j].failed = ghost[j].failed
            /\ (Armed(job'[j]) => Armed(job[j])) \/ ghost'[j].allowed >= 1
      <4> TAKE j \in Jobs
      <4>1. CASE j = k
        BY <1>3, <3>4, <4>1
      <4>2. CASE j # k
        BY <1>3, <3>3, <3>4, <4>2
      <4> QED BY <4>1, <4>2
    <3> QED BY <1>1, <2>1, <3>3, <3>4, <3>5, RequestStep
  <2> QED BY <1>8, <2>3, <2>4 DEF WriteUpdate
<1>9. CASE RemoveJob
  <2>1. PICK k \in Jobs : job' = [job EXCEPT ![k].deleted = TRUE, ![k].enabled = FALSE]
    BY <1>9 DEF RemoveJob
  <2>2. job' \in [Jobs -> AnyJob] /\ \A j \in Jobs : Armed(job'[j]) => Armed(job[j])
    BY <1>2, <2>1 DEF AnyJob, Armed
  <2>3. UNCHANGED <<op, ghost>> /\ RequestIsWhole'
    BY <1>2, <1>9 DEF RemoveJob, RequestIsWhole
  <2> QED BY <1>1, <1>2, <1>3, <2>2, <2>3, RequestStep
<1> QED BY <1>5, <1>7, <1>8, <1>9

\* Time goes on.
LEMMA TickStep ==
  ASSUME SchedulerInvariant, Tick
  PROVE  SchedulerInvariant'
<1>1. SchedulerTypes /\ BatchIsApart /\ UNCHANGED <<batch, ghost>>
  BY DEF SchedulerInvariant, Tick
<1>2. \A t \in Int, f \in Int : Sooner(t, f) \in Int
  BY DEF Sooner
<1>3. ASSUME NEW row \in AnyJob
      PROVE  SoonerRow(row) \in AnyJob /\ (Armed(SoonerRow(row)) <=> Armed(row))
  <2>1. Sooner(row.next, 0) \in Int /\ Sooner(row.at, 0) \in Int /\ Sooner(row.lease, -1) \in Int
    <3>1. row.next \in Int /\ row.at \in Int /\ row.lease \in Int /\ 0 \in Int /\ -1 \in Int
      BY DEF AnyJob
    <3> QED BY <1>2, <3>1
  <2> QED BY <2>1 DEF SoonerRow, AnyJob, Armed
<1>4. job' \in [Jobs -> AnyJob] /\ \A j \in Jobs : Armed(job'[j]) <=> Armed(job[j])
  <2>1. \A j \in Jobs : job[j] \in AnyJob /\ job'[j] = SoonerRow(job[j])
    BY <1>1 DEF Tick, SchedulerTypes
  <2>2. job' = [j \in Jobs |-> job'[j]]
    BY DEF Tick
  <2> QED BY <1>3, <2>1, <2>2
<1>5. breaker' \in [Jobs -> AnyBreaker] /\ \A j \in Jobs : Milder(breaker'[j], breaker[j])
  <2>1. ASSUME NEW j \in Jobs PROVE breaker'[j] \in AnyBreaker /\ Milder(breaker'[j], breaker[j])
    <3>1. breaker[j] \in AnyBreaker /\ breaker'[j] = [breaker[j] EXCEPT !.until = Sooner(breaker[j].until, 0)]
      BY <1>1 DEF Tick, SchedulerTypes
    <3>2. Sooner(breaker[j].until, 0) \in Int
      BY <1>2, <3>1 DEF AnyBreaker
    <3> QED BY <3>1, <3>2 DEF AnyBreaker, Milder
  <2>2. breaker' = [j \in Jobs |-> breaker'[j]]
    BY DEF Tick
  <2> QED BY <2>1, <2>2
<1>6. ASSUME NEW r \in Runners
      PROVE  /\ ex'[r] \in AnyRun /\ RunIsWhole(ex'[r])
             /\ ex'[r].pc = ex[r].pc /\ ex'[r].job = ex[r].job /\ ex'[r].kind = ex[r].kind
             /\ ex'[r].ok = ex[r].ok /\ ex'[r].skipped = ex[r].skipped
             /\ ex[r].pc = "recordWrite" => ex'[r].row = ex[r].row
  <2>1. ex[r] \in AnyRun /\ RunIsWhole(ex[r])
    BY <1>1, RunForms
  <2>2. CASE ex[r].pc # "disableWrite"
    <3>1. ex'[r] = ex[r]
      BY <2>2 DEF Tick
    <3> QED BY <2>1, <3>1
  <2>3. CASE ex[r].pc = "disableWrite"
    <3>1. ex[r].row \in AnyJob /\ ex'[r] = [ex[r] EXCEPT !.row = SoonerRow(ex[r].row)]
      BY <2>1, <2>3 DEF Tick, RunIsWhole
    <3>2. SoonerRow(ex[r].row) \in AnyJob
      BY <1>3, <3>1
    <3>3. ex'[r] \in AnyRun /\ ex'[r].row \in AnyJob /\ ex'[r].pc = ex[r].pc /\ ex'[r].job = ex[r].job
          /\ ex'[r].kind = ex[r].kind /\ ex'[r].ok = ex[r].ok /\ ex'[r].skipped = ex[r].skipped
      BY <2>1, <3>1, <3>2 DEF AnyRun
    <3> QED BY <2>1, <2>3, <3>3 DEF RunIsWhole
  <2> QED BY <2>2, <2>3
<1>7. RequestIsWhole'
  <2>1. CASE op = Rest
    BY <2>1 DEF Tick, RequestIsWhole
  <2>2. CASE op # Rest
    <3>1. op \in [pc: {"patch", "write"}, job: Jobs, patch: Patches, row: AnyJob]
      BY <1>1, <2>2 DEF SchedulerTypes, RequestIsWhole
    <3>2. SoonerRow(op.row) \in AnyJob /\ op' = [op EXCEPT !.row = SoonerRow(op.row)]
      BY <1>3, <2>2, <3>1 DEF Tick
    <3> QED BY <3>1, <3>2 DEF RequestIsWhole
  <2> QED BY <2>1, <2>2
<1>8. SchedulerTypes'
  <2>1. ex' = [r \in Runners |-> ex'[r]]
    BY DEF Tick
  <2>2. ex' \in [Runners -> AnyRun]
    BY <1>6, <2>1
  <2> QED BY <1>1, <1>4, <1>5, <1>6, <1>7, <2>2 DEF SchedulerTypes
<1>9. BatchIsApart'
  BY <1>1, <1>6 DEF BatchIsApart, Runners
<1>10. ASSUME NEW j \in Jobs PROVE OnceOf(j)' /\ CountsOf(j)'
  <2>1. OnceOf(j) /\ CountsOf(j) /\ ghost'[j] = ghost[j]
    BY <1>1 DEF SchedulerInvariant
  <2>2. MayComplete(j)' => MayComplete(j)
    <3>1. Runs(ex'["loop"], j) => Runs(ex["loop"], j)
      BY <1>6 DEF Runs, Runners
    <3>2. Completed(ex["loop"], j) => Completed(ex'["loop"], j)
      BY <1>6 DEF Completed, Runners
    <3> QED BY <1>1, <1>4, <3>1, <3>2 DEF MayComplete, Waits
  <2>3. OnceOf(j)'
    BY <2>1, <2>2 DEF OnceOf
  <2>4. \A r \in Runners : Owes(ex'[r], j) => Owes(ex[r], j)
    BY <1>6 DEF Owes
  <2>5. CountsOf(j)'
    BY <1>1, <1>5, <1>6, <1>8, <2>1, <2>4, CountsKeep
  <2> QED BY <2>3, <2>5
<1> QED BY <1>8, <1>9, <1>10 DEF SchedulerInvariant

\* Every step.
LEMMA SchedulerStep == SchedulerInvariant /\ [Next]_vars => SchedulerInvariant'
<1> SUFFICES ASSUME SchedulerInvariant, [Next]_vars PROVE SchedulerInvariant'
  OBVIOUS
<1>1. CASE UNCHANGED vars
  BY <1>1 DEF vars, SchedulerInvariant, SchedulerTypes, BatchIsApart, RequestIsWhole, OnceOf, CountsOf,
              MayComplete, Waits, Covered, Owed
<1>2. ASSUME NEW r \in Runners, Step(r) \/ FailRun(r) \/ SkipDisable(r) PROVE SchedulerInvariant'
  BY <1>2, BreakerSteps, AttemptStep, FinishStep, DisableSteps, RecordStep, EndSteps DEF Step
<1>3. CASE TurnReady
  BY <1>3 DEF TurnReady, SchedulerInvariant, SchedulerTypes, BatchIsApart, RequestIsWhole, OnceOf, CountsOf,
              MayComplete, Waits, Covered, Owed
<1>4. CASE Next
  BY <1>2, <1>3, <1>4, AcquireStep, ScheduledStep, ManualStep, EndSteps, RouteSteps, CrashStep, TickStep DEF Next
<1> QED BY <1>1, <1>4

-----------------------------------------------------------------------------
(* The theorems. *)

\* The inductive invariant of the scheduler, the run-now route and the breaker.
THEOREM SchedulerCorrect == Spec => []SchedulerInvariant
  BY SchedulerInit, SchedulerStep, PTL DEF Spec

\* The loop completes a job that runs once at most once, beyond the times a
\* fault or a change of the job calls for: execute_job_once beside run-now,
\* update_job and the lease that ran out.
THEOREM OnceCorrect == Spec => []OnceRunsOnce
<1>1. SchedulerInvariant => OnceRunsOnce
  BY DEF SchedulerInvariant, OnceOf, OnceRunsOnce
<1> QED BY <1>1, SchedulerCorrect, PTL

\* No interleaving of the reads and writes of
\* record_circuit_breaker_failure_with_cooldown opens a breaker too early.
THEOREM EarnedCorrect == Spec => []BreakerIsEarned
<1>1. SchedulerInvariant => BreakerIsEarned
  BY DEF SchedulerInvariant, CountsOf, Covered, BreakerIsEarned
<1> QED BY <1>1, SchedulerCorrect, PTL

=============================================================================
