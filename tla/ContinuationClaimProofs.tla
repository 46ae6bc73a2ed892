----------------------- MODULE ContinuationClaimProofs -----------------------
(***************************************************************************)
(* The safety properties of ContinuationClaim for every set of delegations, *)
(* continuations and workers, every quota, lease length and bound, with     *)
(* overlapping gateways and receipt contention allowed or not.              *)
(***************************************************************************)
EXTENDS ContinuationClaim, FiniteSetTheorems, TLAPS

-----------------------------------------------------------------------------
(* Type correctness. *)

\* The empty store has the type of every table.
LEMMA TypeInit == Init => TypeOK
  BY ConstantsAssumption
  DEF Init, TypeOK, NoClaim, NoJob, DownWorker, RunControl, ContinuationStatus, EffectState,
      AttemptStatus, ReservationStatus, EpisodeState, WorkerPc,
      DelegationRow, ContinuationRow, ClaimRow, JobRow, WorkerState

\* A worker's steps change its own record, to another record of its type.
LEMMA WorkerType ==
    ASSUME TypeOK, NEW w \in Workers, NEW s \in WorkerState, wk' = [wk EXCEPT ![w] = s]
    PROVE  wk' \in [Workers -> WorkerState]
  BY DEF TypeOK

\* The steps of the scheduler that write nothing but the worker's own state.
LEMMA TypeWorkerOnly ==
    ASSUME TypeOK, NEW w \in Workers,
           \/ Crash(w) \/ BeginTick(w) \/ EndRecover(w) \/ EndEvaluate(w) \/ AbortTick(w)
           \/ EndAcquire(w) \/ FinishRun(w) \/ LoseDispatch(w) \/ LoseReply(w)
           \/ \E c \in Conts : ClaimLost(w, c)
    PROVE  TypeOK'
<1> DEFINE s == wk[w]
<1>1. s \in WorkerState /\ now \in Nat
  BY DEF TypeOK
<1>2. PICK n \in WorkerState : wk' = [wk EXCEPT ![w] = n]
  <2>1. CASE Crash(w)
    BY <2>1 DEF Crash, DownWorker, WorkerState, WorkerPc
  <2>2. CASE BeginTick(w)
    <3>1. [s EXCEPT !.pc = "recover", !.clk = now] \in WorkerState
      BY <1>1 DEF WorkerState, WorkerPc
    <3> QED BY <3>1, <2>2 DEF BeginTick, TypeOK
  <2>3. CASE EndRecover(w)
    <3>1. [s EXCEPT !.pc = "evaluate"] \in WorkerState
      BY <1>1 DEF WorkerState, WorkerPc
    <3> QED BY <3>1, <2>3 DEF EndRecover, TypeOK
  <2>4. CASE EndEvaluate(w)
    <3>1. [s EXCEPT !.pc = "materialize"] \in WorkerState
      BY <1>1 DEF WorkerState, WorkerPc
    <3> QED BY <3>1, <2>4 DEF EndEvaluate, TypeOK
  <2>5. CASE AbortTick(w) \/ FinishRun(w)
    <3>1. [DownWorker EXCEPT !.pc = "idle"] \in WorkerState
      BY DEF DownWorker, WorkerState, WorkerPc
    <3> QED BY <3>1, <2>5 DEF AbortTick, FinishRun
  <2>6. CASE EndAcquire(w)
    <3>1. [s EXCEPT !.pc = "run", !.clk = now] \in WorkerState
      BY <1>1 DEF WorkerState, WorkerPc
    <3> QED BY <3>1, <2>6 DEF EndAcquire, TypeOK
  <2>7. CASE LoseDispatch(w) \/ LoseReply(w)
    <3>1. [s EXCEPT !.pc = "run", !.cur = None, !.clk = now] \in WorkerState
      BY <1>1 DEF WorkerState, WorkerPc
    <3> QED BY <3>1, <2>7 DEF LoseDispatch, LoseReply, Drop, TypeOK
  <2>8. ASSUME NEW c \in Conts, ClaimLost(w, c)
        PROVE  \E n \in WorkerState : wk' = [wk EXCEPT ![w] = n]
    <3>1. [s EXCEPT !.todo = @ \ {c}, !.clk = now] \in WorkerState
      BY <1>1 DEF WorkerState
    <3> QED BY <3>1, <2>8 DEF ClaimLost, TypeOK
  <2> QED
    BY <2>1, <2>2, <2>3, <2>4, <2>5, <2>6, <2>7, <2>8
<1>3. UNCHANGED <<now, control, ledger>>
  BY DEF Crash, BeginTick, EndRecover, EndEvaluate, AbortTick, EndAcquire, FinishRun,
         LoseDispatch, LoseReply, ClaimLost
<1>4. wk' \in [Workers -> WorkerState]
  BY <1>2, WorkerType
<1> QED
  BY <1>3, <1>4 DEF TypeOK, control, ledger

\* Writing a continuation's status column.
LEMMA StatusType ==
    ASSUME TypeOK, NEW c, NEW st \in ContinuationStatus,
           cont' = [cont EXCEPT ![c].status = st]
    PROVE  cont' \in [Conts -> ContinuationRow]
<1>1. c \in Conts => [cont[c] EXCEPT !.status = st] \in ContinuationRow
  BY DEF TypeOK, ContinuationRow
<1>2. cont' = [cont EXCEPT ![c] = [cont[c] EXCEPT !.status = st]]
  OBVIOUS
<1> QED
  BY <1>1, <1>2 DEF TypeOK

\* Each column of a delegation row may be written with a value of its type.
LEMMA DelegationFields ==
    ASSUME NEW r \in DelegationRow
    PROVE  /\ \A run \in RunControl : [r EXCEPT !.run = run] \in DelegationRow
           /\ [r EXCEPT !.rev = @ + 1] \in DelegationRow
           /\ [r EXCEPT !.epoch = @ + 1] \in DelegationRow
           /\ \A b \in BOOLEAN : [r EXCEPT !.open = b] \in DelegationRow
  BY DEF DelegationRow

\* Each column of a job's lease may be written with a value of its type.
LEMMA JobFields ==
    ASSUME NEW r \in JobRow
    PROVE  /\ \A w \in Workers : [r EXCEPT !.owner = w] \in JobRow
           /\ \A e \in Nat : [r EXCEPT !.exp = e] \in JobRow
  BY DEF JobRow

\* A closed job is a job row.
LEMMA ClosedJobType ==
    ASSUME TypeOK, NEW c, job' = [job EXCEPT ![c] = ClosedJob]
    PROVE  job' \in [Conts -> JobRow]
  BY DEF TypeOK, ClosedJob, JobRow

\* The worker's step after it dropped an identity.
LEMMA DropType ==
    ASSUME TypeOK, NEW w \in Workers, Drop(w)
    PROVE  wk' \in [Workers -> WorkerState]
<1>1. [wk[w] EXCEPT !.pc = "run", !.cur = None, !.clk = now] \in WorkerState
  BY DEF TypeOK, WorkerState, WorkerPc
<1>2. wk' = [wk EXCEPT ![w] = [wk[w] EXCEPT !.pc = "run", !.cur = None, !.clk = now]]
  BY DEF Drop
<1> QED
  BY <1>1, <1>2, WorkerType

\* The scheduler's transactions on one continuation of a tick or a batch.
LEMMA TypeLedgerSteps ==
    ASSUME TypeOK, NEW w \in Workers, NEW c \in Conts,
           \/ ResolveExpire(w, c) \/ EvaluateRecovery(w, c) \/ AcquireDueJob(w, c)
           \/ Claim(w, c) \/ ClaimSupersede(w, c)
    PROVE  TypeOK'
<1> USE ConstantsAssumption DEF control, ledger
<1> DEFINE s == wk[w]
<1>0. s \in WorkerState /\ now \in Nat /\ s.clk + LeaseMs \in Nat
  BY DEF TypeOK, WorkerState
<1>1. CASE ResolveExpire(w, c)
  <2>1. cont' \in [Conts -> ContinuationRow]
    BY <1>1, StatusType DEF ResolveExpire, ContinuationStatus
  <2>2. job' \in [Conts -> JobRow]
    BY <1>1, ClosedJobType DEF ResolveExpire
  <2>3. effect' \in [Conts -> EffectState] /\ resv' \in [Conts -> ReservationStatus]
    BY <1>1 DEF ResolveExpire, TypeOK, EffectState, ReservationStatus
  <2> QED
    BY <1>1, <2>1, <2>2, <2>3 DEF ResolveExpire, TypeOK
<1>2. CASE EvaluateRecovery(w, c)
  <2> DEFINE d == DelegationOf[c]
  <2>1. d \in Delegations /\ deleg[d] \in DelegationRow
    BY DEF TypeOK
  <2>2. PICK open \in BOOLEAN : deleg' = [deleg EXCEPT ![d].rev = @ + 1, ![d].open = open]
    BY <1>2, Zenon DEF EvaluateRecovery
  <2>3. [deleg[d] EXCEPT !.rev = @ + 1, !.open = open] \in DelegationRow
    BY <2>1, DelegationFields
  <2>4. deleg' \in [Delegations -> DelegationRow]
    BY <2>1, <2>2, <2>3 DEF TypeOK
  <2>5. episode' \in [Conts -> EpisodeState]
    <3>1. PICK e \in EpisodeState : episode' = [episode EXCEPT ![c] = e]
      BY <1>2, Zenon DEF EvaluateRecovery, EpisodeState
    <3> QED
      BY <3>1 DEF TypeOK
  <2>6. UNCHANGED <<now, glob, host, cont, claim, job, effect, attempt, resv, wk>>
    BY <1>2, Zenon DEF EvaluateRecovery
  <2> QED
    BY <2>4, <2>5, <2>6 DEF TypeOK
<1>3. CASE AcquireDueJob(w, c)
  <2>1. [job[c] EXCEPT !.owner = w, !.exp = s.clk + LeaseMs] \in JobRow
    BY <1>0, JobFields DEF TypeOK
  <2>2. job' \in [Conts -> JobRow]
    BY <1>3, <2>1 DEF AcquireDueJob, TypeOK
  <2>3. [s EXCEPT !.todo = @ \cup {c}, !.exp = s.clk + LeaseMs] \in WorkerState
    BY <1>0 DEF WorkerState
  <2>4. wk' \in [Workers -> WorkerState]
    BY <1>3, <2>3, WorkerType DEF AcquireDueJob, TypeOK
  <2> QED
    BY <1>3, <2>2, <2>4 DEF AcquireDueJob, TypeOK
<1>4. CASE Claim(w, c)
  <2>1. cont' \in [Conts -> ContinuationRow]
    BY <1>4, StatusType DEF Claim, ContinuationStatus
  <2>2. claim' \in [Conts -> ClaimRow]
    BY <1>4, <1>0 DEF Claim, TypeOK, ClaimRow, WorkerState
  <2>3. effect' \in [Conts -> EffectState] /\ resv' \in [Conts -> ReservationStatus]
    BY <1>4 DEF Claim, TypeOK, EffectState, ReservationStatus
  <2>4. [s EXCEPT !.pc = "claimed", !.cur = c, !.clk = now, !.todo = @ \ {c}] \in WorkerState
    BY <1>0 DEF WorkerState, WorkerPc
  <2>5. wk' \in [Workers -> WorkerState]
    BY <1>4, <2>4, WorkerType DEF Claim, TypeOK
  <2> QED
    BY <1>4, <2>1, <2>2, <2>3, <2>5 DEF Claim, TypeOK
<1>5. CASE ClaimSupersede(w, c)
  <2>1. cont' \in [Conts -> ContinuationRow]
    BY <1>5, StatusType DEF ClaimSupersede, ContinuationStatus
  <2>2. job' \in [Conts -> JobRow]
    BY <1>5, ClosedJobType DEF ClaimSupersede
  <2>3. [s EXCEPT !.todo = @ \ {c}, !.clk = now] \in WorkerState
    BY <1>0 DEF WorkerState
  <2>4. wk' \in [Workers -> WorkerState]
    BY <1>5, <2>3, WorkerType DEF ClaimSupersede, TypeOK
  <2> QED
    BY <1>5, <2>1, <2>2, <2>4 DEF ClaimSupersede, TypeOK
<1> QED
  BY <1>1, <1>2, <1>3, <1>4, <1>5

\* materialize_runnable_continuation_jobs creates rows of the job table.
LEMMA TypeMaterialize ==
    ASSUME TypeOK, NEW w \in Workers, Materialize(w)
    PROVE  TypeOK'
<1>1. job' \in [Conts -> JobRow]
  BY ConstantsAssumption DEF Materialize, TypeOK, UnleasedJob, JobRow
<1>2. [wk[w] EXCEPT !.pc = "acquire"] \in WorkerState
  BY DEF TypeOK, WorkerState, WorkerPc
<1>3. wk' \in [Workers -> WorkerState]
  BY <1>2, WorkerType DEF Materialize, TypeOK
<1> QED
  BY <1>1, <1>3 DEF Materialize, TypeOK, control

\* The transactions of a worker that holds an identity.
LEMMA TypeDispatchSteps ==
    ASSUME TypeOK, NEW w \in Workers,
           \/ PrepareAttempt(w) \/ BeginInvocation(w) \/ Settle(w)
           \/ \E kind \in ExecutionEvidence : ImportReply(w, kind)
    PROVE  TypeOK'
<1> DEFINE s == wk[w]
           c == wk[w].cur
<1>0. s \in WorkerState /\ now \in Nat
  BY DEF TypeOK, WorkerState
<1>1. CASE PrepareAttempt(w)
  <2>1. attempt' \in [Conts -> AttemptStatus]
    BY <1>1 DEF PrepareAttempt, TypeOK, AttemptStatus
  <2>2. [s EXCEPT !.pc = "prepared", !.clk = now] \in WorkerState
    BY <1>0 DEF WorkerState, WorkerPc
  <2>3. wk' \in [Workers -> WorkerState]
    BY <1>1, <2>2, WorkerType DEF PrepareAttempt, TypeOK
  <2> QED
    BY <1>1, <2>1, <2>3 DEF PrepareAttempt, TypeOK, control
<1>2. CASE BeginInvocation(w)
  <2>1. attempt' \in [Conts -> AttemptStatus] /\ effect' \in [Conts -> EffectState]
    BY <1>2 DEF BeginInvocation, TypeOK, AttemptStatus, EffectState
  <2>2. [s EXCEPT !.pc = "sent", !.clk = now] \in WorkerState
    BY <1>0 DEF WorkerState, WorkerPc
  <2>3. wk' \in [Workers -> WorkerState]
    BY <1>2, <2>2, WorkerType DEF BeginInvocation, TypeOK
  <2> QED
    BY <1>2, <2>1, <2>3 DEF BeginInvocation, TypeOK, control
<1>3. CASE Settle(w)
  <2>1. cont' \in [Conts -> ContinuationRow]
    BY <1>3, StatusType DEF Settle, ContinuationStatus
  <2>2. job' \in [Conts -> JobRow]
    BY <1>3, ClosedJobType DEF Settle
  <2>3. effect' \in [Conts -> EffectState] /\ resv' \in [Conts -> ReservationStatus]
    BY <1>3 DEF Settle, TypeOK, EffectState, ReservationStatus
  <2> QED
    BY <1>3, <2>1, <2>2, <2>3, DropType DEF Settle, TypeOK, control
<1>4. ASSUME NEW kind \in ExecutionEvidence, ImportReply(w, kind)
      PROVE  TypeOK'
  <2>1. effect' \in [Conts -> EffectState] /\ attempt' \in [Conts -> AttemptStatus]
    BY <1>4 DEF ImportReply, ExecutionEvidence, TypeOK, EffectState, AttemptStatus
  <2>2. cont' \in [Conts -> ContinuationRow]
    <3>1. CASE kind = "absent"
      BY <1>4, <3>1 DEF ImportReply, TypeOK
    <3>2. CASE kind # "absent"
      BY <1>4, <3>2, StatusType DEF ImportReply, ContinuationStatus
    <3> QED
      BY <3>1, <3>2
  <2>3. resv' \in [Conts -> ReservationStatus] /\ job' \in [Conts -> JobRow]
    BY <1>4, ClosedJobType DEF ImportReply, TypeOK, ReservationStatus
  <2> QED
    BY <1>4, <2>1, <2>2, <2>3, DropType DEF ImportReply, TypeOK, control
<1> QED
  BY <1>1, <1>2, <1>3, <1>4

\* Evidence of a reconciliation, imported without a worker.
LEMMA TypeReconciliation ==
    ASSUME TypeOK, NEW c \in Conts, NEW kind, ImportReconciliation(c, kind)
    PROVE  TypeOK'
<1>1. effect' \in [Conts -> EffectState] /\ attempt' \in [Conts -> AttemptStatus]
  BY DEF ImportReconciliation, TypeOK, EffectState, AttemptStatus
<1>2. cont' \in [Conts -> ContinuationRow]
  BY StatusType DEF ImportReconciliation, ContinuationStatus
<1>3. resv' \in [Conts -> ReservationStatus] /\ job' \in [Conts -> JobRow]
  BY ClosedJobType DEF ImportReconciliation, TypeOK, ReservationStatus
<1> QED
  BY <1>1, <1>2, <1>3 DEF ImportReconciliation, TypeOK, control

\* The clock, process and owner steps.
LEMMA TypeOwnerSteps ==
    ASSUME TypeOK, Tick \/ ProcessStep \/ OwnerStep
    PROVE  TypeOK'
<1> USE ConstantsAssumption DEF control, ledger
<1>1. CASE Tick
  BY <1>1 DEF Tick, TypeOK
<1>2. CASE ReleaseHost
  BY <1>2 DEF ReleaseHost, TypeOK
<1>3. ASSUME NEW w \in Workers, StartGateway(w)
      PROVE  TypeOK'
  <2>1. [DownWorker EXCEPT !.pc = "idle"] \in WorkerState
    BY DEF DownWorker, WorkerState, WorkerPc
  <2>2. wk' \in [Workers -> WorkerState]
    BY <1>3, <2>1, WorkerType DEF StartGateway
  <2>3. host' \in [gen: Nat, live: BOOLEAN]
    BY <1>3 DEF StartGateway, TypeOK
  <2> QED
    BY <1>3, <2>2, <2>3 DEF StartGateway, TypeOK
<1>4. CASE EngageGlobalStop \/ ResumeGlobalStop
  <2>1. glob' \in [engaged: BOOLEAN, epoch: Nat]
    <3>1. CASE EngageGlobalStop
      BY <3>1 DEF EngageGlobalStop, TypeOK
    <3>2. CASE ResumeGlobalStop
      BY <3>2 DEF ResumeGlobalStop, TypeOK
    <3> QED
      BY <1>4, <3>1, <3>2
  <2> QED
    BY <1>4, <2>1 DEF EngageGlobalStop, ResumeGlobalStop, TypeOK
<1>5. ASSUME NEW c \in Conts, Admit(c)
      PROVE  TypeOK'
  <2>1. deleg[DelegationOf[c]] \in DelegationRow
    BY DEF TypeOK
  <2>2. [status |-> "runnable", rev |-> deleg[DelegationOf[c]].rev,
         epoch |-> deleg[DelegationOf[c]].epoch, glob |-> glob.epoch] \in ContinuationRow
    BY <2>1 DEF TypeOK, DelegationRow, ContinuationRow, ContinuationStatus
  <2>3. cont' \in [Conts -> ContinuationRow]
    BY <1>5, <2>2 DEF Admit, TypeOK
  <2>4. effect' \in [Conts -> EffectState]
    BY <1>5 DEF Admit, TypeOK, EffectState
  <2> QED
    BY <1>5, <2>3, <2>4 DEF Admit, TypeOK
<1>6. ASSUME NEW d \in Delegations,
             RequestStop(d) \/ CompleteDrain(d) \/ ResumeDelegation(d) \/ Amend(d)
      PROVE  TypeOK'
  <2>0. deleg[d] \in DelegationRow
    BY DEF TypeOK
  <2>1. PICK row \in DelegationRow : deleg' = [deleg EXCEPT ![d] = row]
    <3>1. CASE RequestStop(d)
      <4>1. [deleg[d] EXCEPT !.run = "stop_requested"] \in DelegationRow
        BY <2>0, DelegationFields DEF RunControl
      <4>2. [deleg[d] EXCEPT !.run = "stop_requested", !.rev = @ + 1] \in DelegationRow
        BY <4>1, DelegationFields
      <4>3. [deleg[d] EXCEPT !.run = "stop_requested", !.rev = @ + 1, !.epoch = @ + 1]
              \in DelegationRow
        BY <4>2, DelegationFields
      <4> QED BY <4>3, <3>1 DEF RequestStop, TypeOK
    <3>2. CASE CompleteDrain(d)
      <4>1. [deleg[d] EXCEPT !.run = "stopped", !.rev = @ + 1] \in DelegationRow
        BY <2>0, DelegationFields DEF RunControl
      <4> QED BY <4>1, <3>2 DEF CompleteDrain, TypeOK
    <3>3. CASE ResumeDelegation(d)
      <4>1. [deleg[d] EXCEPT !.run = "running"] \in DelegationRow
        BY <2>0, DelegationFields DEF RunControl
      <4>2. [deleg[d] EXCEPT !.run = "running", !.rev = @ + 1] \in DelegationRow
        BY <4>1, DelegationFields
      <4>3. [deleg[d] EXCEPT !.run = "running", !.rev = @ + 1, !.epoch = @ + 1]
              \in DelegationRow
        BY <4>2, DelegationFields
      <4> QED BY <4>3, <3>3 DEF ResumeDelegation, TypeOK
    <3>4. CASE Amend(d)
      <4>1. [deleg[d] EXCEPT !.rev = @ + 1] \in DelegationRow
        BY <2>0 DEF DelegationRow
      <4> QED BY <4>1, <3>4 DEF Amend, TypeOK
    <3> QED
      BY <1>6, <3>1, <3>2, <3>3, <3>4
  <2>2. deleg' \in [Delegations -> DelegationRow]
    BY <2>1 DEF TypeOK
  <2>3. cont' \in [Conts -> ContinuationRow]
    <3>1. \A r \in ContinuationRow : [r EXCEPT !.status = "superseded"] \in ContinuationRow
      BY DEF ContinuationRow, ContinuationStatus
    <3> QED
      BY <1>6, <3>1 DEF RequestStop, CompleteDrain, ResumeDelegation, Amend, TypeOK
  <2> QED
    BY <1>6, <2>2, <2>3 DEF RequestStop, CompleteDrain, ResumeDelegation, Amend, TypeOK
<1> QED
  BY <1>1, <1>2, <1>3, <1>4, <1>5, <1>6, TypeWorkerOnly DEF ProcessStep, OwnerStep

\* Every step of the specification keeps the types.
LEMMA TypeNext == TypeOK /\ [Next]_vars => TypeOK'
<1> SUFFICES ASSUME TypeOK, [Next]_vars PROVE TypeOK'
  OBVIOUS
<1>1. CASE UNCHANGED vars
  BY <1>1 DEF vars, TypeOK
<1>2. ASSUME NEW w \in Workers, SchedulerStep(w) \/ RecorderReply(w)
      PROVE  TypeOK'
  BY <1>2, TypeWorkerOnly, TypeLedgerSteps, TypeMaterialize, TypeDispatchSteps
  DEF SchedulerStep, RecorderReply
<1> QED
  BY <1>1, <1>2, TypeOwnerSteps, TypeReconciliation DEF Next

\* Every row of every reachable store has the columns and the values its table
\* admits.
THEOREM TypeCorrect == Spec => []TypeOK
  BY TypeInit, TypeNext, PTL DEF Spec

-----------------------------------------------------------------------------
(* The row invariant. *)

\* A continuation whose rows a step leaves alone keeps their shape.
LEMMA RowsFrame ==
    ASSUME NEW c \in Conts, RowsAgree(c),
           cont'[c].status = cont[c].status, claim'[c] = claim[c], effect'[c] = effect[c],
           attempt'[c] = attempt[c], resv'[c] = resv[c]
    PROVE  RowsAgree(c)'
  BY DEF RowsAgree, NoClaim

\* A worker keeps its identity through the steps that leave it, its claim and
\* its attempt alone.
LEMMA IdentityFrame ==
    ASSUME NEW w \in Workers, IdentityAgrees(w), wk'[w] = wk[w],
           HoldsIdentity(w) => /\ claim'[wk[w].cur] = claim[wk[w].cur]
                               /\ attempt'[wk[w].cur] = attempt[wk[w].cur]
    PROVE  IdentityAgrees(w)'
  BY DEF IdentityAgrees, HoldsIdentity

\* A worker without an identity has nothing to agree with.
LEMMA IdentityNone ==
    ASSUME NEW w \in Workers, wk'[w].pc \notin {"claimed", "prepared", "sent"}
    PROVE  IdentityAgrees(w)'
  BY DEF IdentityAgrees, HoldsIdentity

\* The steps that write neither a claim, an effect, an attempt, a reservation
\* nor a continuation, and leave the acting worker without an identity.
LEMMA RowQuietSteps ==
    ASSUME TypeOK, RowInvariant, NEW w \in Workers,
           \/ Crash(w) \/ StartGateway(w) \/ BeginTick(w) \/ EndRecover(w) \/ EndEvaluate(w)
           \/ AbortTick(w) \/ Materialize(w) \/ EndAcquire(w) \/ FinishRun(w)
           \/ LoseDispatch(w) \/ LoseReply(w)
           \/ \E c \in Conts : AcquireDueJob(w, c) \/ ClaimLost(w, c)
    PROVE  RowInvariant'
<1>1. UNCHANGED <<cont, claim, effect, attempt, resv>>
  BY DEF Crash, StartGateway, BeginTick, EndRecover, EndEvaluate, AbortTick, Materialize,
         EndAcquire, FinishRun, LoseDispatch, LoseReply, AcquireDueJob, ClaimLost, ledger
<1>2. \A v \in Workers \ {w} : wk'[v] = wk[v]
  BY DEF TypeOK, Crash, StartGateway, BeginTick, EndRecover, EndEvaluate, AbortTick, Materialize,
         EndAcquire, FinishRun, LoseDispatch, LoseReply, Drop, AcquireDueJob, ClaimLost
<1>3. wk'[w].pc \notin {"claimed", "prepared", "sent"}
  <2>1. CASE Crash(w) \/ StartGateway(w) \/ AbortTick(w) \/ FinishRun(w)
    BY <2>1 DEF TypeOK, Crash, StartGateway, AbortTick, FinishRun, DownWorker
  <2>2. CASE BeginTick(w) \/ EndRecover(w) \/ EndEvaluate(w) \/ Materialize(w) \/ EndAcquire(w)
    BY <2>2 DEF TypeOK, WorkerState, BeginTick, EndRecover, EndEvaluate, Materialize, EndAcquire
  <2>3. CASE LoseDispatch(w) \/ LoseReply(w)
    BY <2>3 DEF TypeOK, WorkerState, LoseDispatch, LoseReply, Drop
  <2>4. ASSUME NEW c \in Conts, AcquireDueJob(w, c) \/ ClaimLost(w, c)
        PROVE  wk'[w].pc \in {"acquire", "run"}
    BY <2>4 DEF TypeOK, WorkerState, AcquireDueJob, ClaimLost
  <2> QED
    BY <2>1, <2>2, <2>3, <2>4
<1>4. ASSUME NEW c \in Conts PROVE RowsAgree(c)'
  BY <1>1, RowsFrame DEF RowInvariant
<1>5. ASSUME NEW v \in Workers PROVE IdentityAgrees(v)'
  BY <1>1, <1>2, <1>3, IdentityFrame, IdentityNone DEF RowInvariant
<1> QED
  BY <1>4, <1>5 DEF RowInvariant

\* A claim takes a runnable continuation, which nobody has claimed before.
LEMMA RowClaim ==
    ASSUME TypeOK, RowInvariant, NEW w \in Workers, NEW c \in Conts, Claim(w, c)
    PROVE  RowInvariant'
<1>1. cont[c].status = "runnable" /\ RowsAgree(c)
  BY DEF Claim, Claimable, ClaimChecksPass, RowInvariant
<1>2. RowsAgree(c)'
  <2>1. /\ cont'[c].status = "executing" /\ attempt'[c] = "none"
        /\ effect'[c] = IF effect[c] = "planned" THEN "claimed" ELSE effect[c]
        /\ resv'[c] = IF effect[c] = "planned" THEN "reserved" ELSE resv[c]
        /\ effect[c] \in {"none", "planned"}
    BY <1>1 DEF Claim, TypeOK, ContinuationRow, EffectState, RowsAgree
  <2> QED
    BY <2>1, <1>1 DEF RowsAgree
<1>3. ASSUME NEW e \in Conts, e # c PROVE RowsAgree(e)'
  BY <1>3, RowsFrame DEF Claim, TypeOK, RowInvariant
<1>4. claim[c].owner \notin Workers
  BY <1>1, ConstantsAssumption DEF RowsAgree, NoClaim
<1>5. ASSUME NEW v \in Workers, v # w PROVE IdentityAgrees(v)'
  <2>1. IdentityAgrees(v) /\ wk'[v] = wk[v]
    BY <1>5 DEF RowInvariant, Claim, TypeOK
  <2>2. HoldsIdentity(v) => wk[v].cur \in Conts /\ wk[v].cur # c
    BY <2>1, <1>4 DEF IdentityAgrees
  <2> QED
    BY <2>1, <2>2, IdentityFrame DEF Claim, TypeOK
<1>6. IdentityAgrees(w)'
  <2>1. wk'[w].pc = "claimed" /\ wk'[w].cur = c
    BY DEF Claim, TypeOK, WorkerState
  <2>2. claim'[c].owner = w
    BY DEF Claim, TypeOK
  <2>3. attempt'[c] = "none"
    BY <1>1 DEF Claim, RowsAgree, TypeOK, EffectState
  <2> QED
    BY <2>1, <2>2, <2>3 DEF IdentityAgrees
<1> QED
  BY <1>2, <1>3, <1>5, <1>6 DEF RowInvariant

\* A worker that holds an identity is the only one that writes its attempt.
LEMMA RowDispatch ==
    ASSUME TypeOK, RowInvariant, NEW w \in Workers,
           \/ PrepareAttempt(w) \/ BeginInvocation(w) \/ Settle(w)
           \/ \E kind \in ExecutionEvidence : ImportReply(w, kind)
    PROVE  RowInvariant'
<1>1. HoldsIdentity(w)
  BY DEF HoldsIdentity, PrepareAttempt, BeginInvocation, Settle, ImportReply
<1>0. PICK c \in Conts : c = wk[w].cur
  BY <1>1 DEF RowInvariant, IdentityAgrees
<1>2. c = wk[w].cur /\ claim[c].owner = w /\ IdentityAgrees(w) /\ RowsAgree(c)
  BY <1>0, <1>1 DEF RowInvariant, IdentityAgrees
<1>3. /\ claim' = claim
      /\ \A e \in Conts \ {c} : /\ cont'[e] = cont[e] /\ effect'[e] = effect[e]
                                /\ attempt'[e] = attempt[e] /\ resv'[e] = resv[e]
  <2>1. CASE PrepareAttempt(w)
    BY <2>1, <1>0 DEF PrepareAttempt, TypeOK
  <2>2. CASE BeginInvocation(w)
    BY <2>2, <1>0 DEF BeginInvocation, TypeOK
  <2>3. CASE Settle(w)
    BY <2>3, <1>0 DEF Settle, TypeOK
  <2>4. ASSUME NEW kind \in ExecutionEvidence, ImportReply(w, kind)
        PROVE  <1>3!1 /\ <1>3!2
    BY <2>4, <1>0 DEF ImportReply, TypeOK
  <2> QED
    BY <2>1, <2>2, <2>3, <2>4
<1>4. ASSUME NEW e \in Conts, e # c PROVE RowsAgree(e)'
  BY <1>3, <1>4, RowsFrame DEF RowInvariant
<1>5. \A v \in Workers \ {w} : wk'[v] = wk[v]
  BY DEF TypeOK, PrepareAttempt, BeginInvocation, Settle, ImportReply, Drop
<1>6. ASSUME NEW v \in Workers, v # w PROVE IdentityAgrees(v)'
  <2>1. IdentityAgrees(v) /\ wk'[v] = wk[v]
    BY <1>5, <1>6 DEF RowInvariant
  <2>2. HoldsIdentity(v) => wk[v].cur \in Conts /\ wk[v].cur # c
    BY <2>1, <1>2, <1>6 DEF IdentityAgrees
  <2> QED
    BY <2>1, <2>2, <1>3, IdentityFrame
<1>7. RowsAgree(c)' /\ IdentityAgrees(w)'
  <2>1. CASE PrepareAttempt(w)
    <3>1. /\ wk'[w].pc = "prepared" /\ wk'[w].cur = c /\ attempt'[c] = "prepared"
          /\ cont' = cont /\ effect' = effect /\ resv' = resv /\ claim' = claim
      BY <2>1, <1>2 DEF PrepareAttempt, TypeOK, WorkerState
    <3>2. /\ attempt[c] = "none" /\ cont[c].status = "executing"
          /\ c \in EffectConts
      BY <2>1, <1>2 DEF PrepareAttempt, IdentityAgrees, HoldsIdentity, IdentityLive, Installed
    <3>3. effect[c] = "claimed"
      BY <3>2, <1>2 DEF RowsAgree, TypeOK, EffectState
    <3> QED
      BY <3>1, <3>2, <3>3, <1>2 DEF RowsAgree, IdentityAgrees
  <2>2. CASE BeginInvocation(w)
    <3>1. /\ wk'[w].pc = "sent" /\ wk'[w].cur = c /\ attempt'[c] = "invoking"
          /\ effect'[c] = "invoking" /\ cont' = cont /\ resv' = resv /\ claim' = claim
      BY <2>2, <1>2 DEF BeginInvocation, TypeOK, WorkerState
    <3>2. attempt[c] = "prepared" /\ cont[c].status = "executing"
      BY <2>2, <1>2 DEF BeginInvocation, CanBegin, IdentityAgrees, HoldsIdentity, IdentityLive
    <3>3. effect[c] = "claimed"
      BY <3>2, <1>2 DEF RowsAgree, TypeOK, EffectState
    <3> QED
      BY <3>1, <3>2, <3>3, <1>2 DEF RowsAgree, IdentityAgrees
  <2>3. CASE Settle(w)
    <3>1. /\ wk'[w].pc = "run" /\ attempt' = attempt /\ claim' = claim
          /\ cont'[c].status \in {"superseded", "waiting"}
          /\ effect'[c] = IF effect[c] = "claimed" THEN "failed" ELSE effect[c]
          /\ resv'[c] = IF resv[c] = "reserved" THEN "released" ELSE resv[c]
      BY <2>3, <1>2 DEF Settle, Drop, TypeOK, WorkerState, ContinuationRow
    <3>2. attempt[c] = "none" /\ cont[c].status = "executing"
      BY <2>3, <1>2 DEF Settle, CanSettle, IdentityAgrees, HoldsIdentity, IdentityLive
    <3>3. effect[c] \in {"none", "claimed"}
      BY <3>2, <1>2 DEF RowsAgree, TypeOK, EffectState
    <3>4. RowsAgree(c)'
      BY <3>1, <3>2, <3>3, <1>2 DEF RowsAgree
    <3> QED
      BY <3>1, <3>4, IdentityNone
  <2>4. ASSUME NEW kind \in ExecutionEvidence, ImportReply(w, kind)
        PROVE  RowsAgree(c)' /\ IdentityAgrees(w)'
    <3>1. wk'[w].pc = "run" /\ claim' = claim
      BY <2>4 DEF ImportReply, Drop, TypeOK, WorkerState
    <3>2. attempt[c] = "invoking" /\ cont[c].status = "executing" /\ resv[c] = "reserved"
      BY <2>4, <1>0 DEF ImportReply
    <3>3. CASE kind = "present"
      <4>1. /\ attempt'[c] = "succeeded" /\ effect'[c] = "succeeded"
            /\ cont'[c].status = "terminal" /\ resv'[c] = "settled"
        BY <2>4, <3>3, <1>2 DEF ImportReply, TypeOK, ContinuationRow
      <4> QED
        BY <4>1, <3>1, IdentityNone DEF RowsAgree
    <3>4. CASE kind = "absent"
      <4>1. /\ attempt'[c] = "failed" /\ effect'[c] = "failed"
            /\ cont' = cont /\ resv' = resv
        BY <2>4, <3>4, <1>2 DEF ImportReply, TypeOK
      <4> QED
        BY <4>1, <3>1, <3>2, IdentityNone DEF RowsAgree
    <3>5. CASE kind = "unknown"
      <4>1. /\ attempt'[c] = "outcome_unknown" /\ effect'[c] = "outcome_unknown"
            /\ cont'[c].status = "uncertain" /\ resv'[c] = "reconciliation_required"
        BY <2>4, <3>5, <1>2 DEF ImportReply, TypeOK, ContinuationRow
      <4> QED
        BY <4>1, <3>1, IdentityNone DEF RowsAgree
    <3> QED
      BY <3>3, <3>4, <3>5 DEF ExecutionEvidence
  <2> QED
    BY <2>1, <2>2, <2>3, <2>4
<1> QED
  BY <1>4, <1>6, <1>7 DEF RowInvariant

\* The transactions on one continuation that no identity is needed for: they
\* write no claim, and only an attempt whose outcome was unknown.
LEMMA RowOneContinuation ==
    ASSUME TypeOK, RowInvariant, NEW c \in Conts,
           \/ Admit(c)
           \/ \E w \in Workers : ResolveExpire(w, c)
           \/ \E kind \in ExecutionEvidence : ImportReconciliation(c, kind)
    PROVE  RowInvariant'
<1>1. RowsAgree(c)
  BY DEF RowInvariant
<1>2. /\ claim' = claim /\ wk' = wk
      /\ \A e \in Conts \ {c} : /\ cont'[e] = cont[e] /\ effect'[e] = effect[e]
                                /\ attempt'[e] = attempt[e] /\ resv'[e] = resv[e]
  <2>1. CASE Admit(c)
    BY <2>1 DEF Admit, TypeOK
  <2>2. ASSUME NEW w \in Workers, ResolveExpire(w, c) PROVE <1>2!1 /\ <1>2!2
    BY <2>2 DEF ResolveExpire, TypeOK
  <2>3. ASSUME NEW kind \in ExecutionEvidence, ImportReconciliation(c, kind)
        PROVE  <1>2!1 /\ <1>2!2
    BY <2>3 DEF ImportReconciliation, TypeOK
  <2> QED
    BY <2>1, <2>2, <2>3
<1>3. ASSUME NEW e \in Conts, e # c PROVE RowsAgree(e)'
  BY <1>2, <1>3, RowsFrame DEF RowInvariant
<1>4. attempt'[c] # attempt[c] => attempt[c] = "outcome_unknown"
  BY DEF Admit, ResolveExpire, ImportReconciliation
<1>5. ASSUME NEW v \in Workers PROVE IdentityAgrees(v)'
  <2>1. IdentityAgrees(v)
    BY DEF RowInvariant
  <2>2. HoldsIdentity(v) => attempt'[wk[v].cur] = attempt[wk[v].cur]
    BY <2>1, <1>2, <1>4 DEF IdentityAgrees, HoldsIdentity
  <2> QED
    BY <2>1, <2>2, <1>2, IdentityFrame
<1>6. RowsAgree(c)'
  <2>1. CASE Admit(c)
    <3>1. effect[c] = "none" /\ cont[c].status = "none"
      BY <2>1, <1>1 DEF Admit, RowsAgree, TypeOK, EffectState
    <3>2. /\ cont'[c].status = "runnable"
          /\ effect'[c] = IF c \in EffectConts THEN "planned" ELSE "none"
          /\ attempt' = attempt /\ resv' = resv
      BY <2>1 DEF Admit, TypeOK
    <3> QED
      BY <3>1, <3>2, <1>1, <1>2 DEF RowsAgree, NoClaim
  <2>2. ASSUME NEW w \in Workers, ResolveExpire(w, c) PROVE RowsAgree(c)'
    <3>1. effect[c] = "claimed"
      BY <2>2 DEF ResolveExpire, ExpireCandidate
    <3>2. /\ cont'[c].status = "superseded" /\ effect'[c] = "failed"
          /\ attempt' = attempt /\ resv'[c] = "expired"
      BY <2>2 DEF ResolveExpire, TypeOK, ContinuationRow
    <3> QED
      BY <3>1, <3>2, <1>1 DEF RowsAgree
  <2>3. ASSUME NEW kind \in ExecutionEvidence, ImportReconciliation(c, kind)
        PROVE  RowsAgree(c)'
    <3>1. \/ /\ attempt'[c] = "reconciled_present" /\ effect'[c] = "reconciled_present"
             /\ cont'[c].status = "terminal" /\ resv'[c] = "settled"
          \/ /\ attempt'[c] = "reconciled_absent" /\ effect'[c] = "reconciled_absent"
             /\ cont'[c].status = "superseded" /\ resv'[c] = "released"
      BY <2>3 DEF ImportReconciliation, TypeOK, ContinuationRow
    <3> QED
      BY <3>1 DEF RowsAgree
  <2> QED
    BY <2>1, <2>2, <2>3
<1> QED
  BY <1>3, <1>5, <1>6 DEF RowInvariant

\* A claim that meets a stop supersedes the runnable continuation instead.
LEMMA RowClaimSupersede ==
    ASSUME TypeOK, RowInvariant, NEW w \in Workers, NEW c \in Conts, ClaimSupersede(w, c)
    PROVE  RowInvariant'
<1>1. RowsAgree(c) /\ cont[c].status = "runnable"
  BY DEF RowInvariant, ClaimSupersede, ClaimSupersedes, ClaimChecksPass
<1>2. /\ cont'[c].status = "superseded"
      /\ UNCHANGED <<claim, effect, attempt, resv>>
      /\ \A e \in Conts \ {c} : cont'[e] = cont[e]
  BY DEF ClaimSupersede, TypeOK, ContinuationRow
<1>3. RowsAgree(c)'
  BY <1>1, <1>2 DEF RowsAgree, TypeOK, EffectState
<1>4. ASSUME NEW e \in Conts, e # c PROVE RowsAgree(e)'
  BY <1>2, <1>4, RowsFrame DEF RowInvariant
<1>5. wk'[w].pc = "run" /\ \A v \in Workers \ {w} : wk'[v] = wk[v]
  BY DEF ClaimSupersede, TypeOK, WorkerState
<1>6. ASSUME NEW v \in Workers PROVE IdentityAgrees(v)'
  BY <1>2, <1>5, IdentityFrame, IdentityNone DEF RowInvariant
<1> QED
  BY <1>3, <1>4, <1>6 DEF RowInvariant

\* The steps on the clock, the host, the stops and the recovery episodes.
LEMMA RowControlSteps ==
    ASSUME TypeOK, RowInvariant,
           \/ Tick \/ ReleaseHost \/ EngageGlobalStop \/ ResumeGlobalStop
           \/ \E d \in Delegations : RequestStop(d) \/ CompleteDrain(d) \/ ResumeDelegation(d)
           \/ \E w \in Workers, c \in Conts : EvaluateRecovery(w, c)
    PROVE  RowInvariant'
<1>1. UNCHANGED <<cont, claim, effect, attempt, resv, wk>>
  BY Zenon DEF Tick, ReleaseHost, EngageGlobalStop, ResumeGlobalStop, RequestStop, CompleteDrain,
         ResumeDelegation, EvaluateRecovery, ledger
<1>2. ASSUME NEW c \in Conts PROVE RowsAgree(c)'
  BY <1>1, RowsFrame DEF RowInvariant
<1>3. ASSUME NEW v \in Workers PROVE IdentityAgrees(v)'
  BY <1>1, IdentityFrame DEF RowInvariant
<1> QED
  BY <1>2, <1>3 DEF RowInvariant

\* An amendment closes what is open and not executing.
LEMMA RowAmend ==
    ASSUME TypeOK, RowInvariant, NEW d \in Delegations, Amend(d)
    PROVE  RowInvariant'
<1>1. UNCHANGED <<claim, effect, attempt, resv, wk>>
  BY DEF Amend
<1>2. ASSUME NEW c \in Conts PROVE RowsAgree(c)'
  <2>1. RowsAgree(c)
    BY DEF RowInvariant
  <2>2. \/ cont'[c].status = cont[c].status
        \/ /\ cont[c].status \in {"runnable", "waiting", "uncertain"}
           /\ cont'[c].status = "superseded"
    BY DEF Amend, TypeOK, ContinuationRow
  <2>3. CASE cont'[c].status = cont[c].status
    BY <2>1, <2>3, <1>1, RowsFrame
  <2>4. CASE /\ cont[c].status \in {"runnable", "waiting", "uncertain"}
             /\ cont'[c].status = "superseded"
    BY <2>1, <2>4, <1>1 DEF RowsAgree, TypeOK, EffectState
  <2> QED
    BY <2>2, <2>3, <2>4
<1>3. ASSUME NEW v \in Workers PROVE IdentityAgrees(v)'
  BY <1>1, IdentityFrame DEF RowInvariant
<1> QED
  BY <1>2, <1>3 DEF RowInvariant

\* The row invariant is inductive relative to the types.
LEMMA RowNext == TypeOK /\ RowInvariant /\ [Next]_vars => RowInvariant'
<1> SUFFICES ASSUME TypeOK, RowInvariant, [Next]_vars PROVE RowInvariant'
  OBVIOUS
<1>1. CASE UNCHANGED vars
  <2>1. ASSUME NEW c \in Conts PROVE RowsAgree(c)'
    BY <1>1, RowsFrame DEF RowInvariant, vars
  <2>2. ASSUME NEW v \in Workers PROVE IdentityAgrees(v)'
    BY <1>1, IdentityFrame DEF RowInvariant, vars
  <2> QED
    BY <2>1, <2>2 DEF RowInvariant
<1>2. ASSUME NEW w \in Workers, SchedulerStep(w) \/ RecorderReply(w)
      PROVE  RowInvariant'
  BY <1>2, RowQuietSteps, RowClaim, RowDispatch, RowOneContinuation, RowClaimSupersede,
     RowControlSteps
  DEF SchedulerStep, RecorderReply
<1>3. CASE Tick \/ ProcessStep \/ OwnerStep
  BY <1>3, RowQuietSteps, RowOneContinuation, RowControlSteps, RowAmend DEF ProcessStep, OwnerStep
<1> QED
  BY <1>1, <1>2, <1>3, RowOneContinuation DEF Next

\* In every reachable state, for every number of continuations, workers and
\* overlapping gateways, the rows of a continuation have one of the shapes the
\* transactions leave, and each worker's identity fits its claim and attempt.
THEOREM RowsCorrect == Spec => []RowInvariant
<1>1. Init => RowInvariant
  BY DEF Init, RowInvariant, RowsAgree, IdentityAgrees, HoldsIdentity, DownWorker
<1> QED
  BY <1>1, RowNext, TypeCorrect, PTL DEF Spec

-----------------------------------------------------------------------------
(* What the row invariant gives. *)

\* The continuation, effect, attempt and reservation rows of one effect never
\* disagree (claim.rs, effect.rs and recorder.rs write them separately).
THEOREM EffectRowsCorrect == Spec => []EffectRowsAgree
<1>1. TypeOK /\ RowInvariant => EffectRowsAgree
  BY DEF RowInvariant, RowsAgree, EffectRowsAgree, TypeOK, EffectState
<1> QED
  BY <1>1, TypeCorrect, RowsCorrect, PTL

\* What a provider may have consumed is given back only on signed evidence of
\* absence.
THEOREM ReservationCorrect == Spec => []InvokedKeepsReservation
<1>1. TypeOK /\ RowInvariant => InvokedKeepsReservation
  BY DEF RowInvariant, RowsAgree, InvokedKeepsReservation, HoldingReservation, TypeOK, EffectState
<1> QED
  BY <1>1, TypeCorrect, RowsCorrect, PTL

\* One worker per claim, the one the claim row names.
THEOREM HolderCorrect == Spec => []OneHolderPerClaim
<1>1. RowInvariant => OneHolderPerClaim
  BY DEF RowInvariant, IdentityAgrees, OneHolderPerClaim
<1> QED
  BY <1>1, RowsCorrect, PTL

\* A worker that waits for the recorder waits for an invoking attempt.
THEOREM SentCorrect == Spec => []SentIsInvoking
<1>1. TypeOK /\ RowInvariant => SentIsInvoking
  BY DEF RowInvariant, RowsAgree, IdentityAgrees, HoldsIdentity, SentIsInvoking, TypeOK, EffectState
<1> QED
  BY <1>1, TypeCorrect, RowsCorrect, PTL

-----------------------------------------------------------------------------
(* Claims happen once, and only to a continuation that has not drifted. *)

\* How one step may change the status, the attempt and the claim of c.
LegalStep(c) ==
    /\ cont'[c].status = "executing" /\ cont[c].status # "executing" => ~Drift(c)
    /\ attempt'[c] = "invoking" /\ attempt[c] # "invoking" => ~Drift(c)
    /\ claim'[c] # claim[c] => cont[c].status = "runnable"
    /\ cont[c].status \in {"terminal", "superseded"} => cont'[c] = cont[c]
    /\ attempt'[c] = "prepared" => attempt[c] \in {"none", "prepared"}
    /\ attempt[c] \in {"succeeded", "failed", "reconciled_present", "reconciled_absent"}
         => attempt'[c] = attempt[c]

\* A step that writes none of the three is legal.
LEMMA LegalFrame ==
    ASSUME NEW c \in Conts, cont'[c] = cont[c], attempt'[c] = attempt[c], claim'[c] = claim[c]
    PROVE  LegalStep(c)
  BY DEF LegalStep

\* The scheduler's transactions, settled row by row with the row invariant.
LEMMA LegalWorkerSteps ==
    ASSUME TypeOK, RowInvariant, NEW w \in Workers, NEW c \in Conts,
           SchedulerStep(w) \/ RecorderReply(w)
    PROVE  LegalStep(c)
<1>0. RowsAgree(c) /\ IdentityAgrees(w) /\ effect[c] \in EffectState
  BY DEF RowInvariant, TypeOK
<1>1. CASE \/ BeginTick(w) \/ EndRecover(w) \/ EndEvaluate(w) \/ AbortTick(w) \/ Materialize(w)
           \/ EndAcquire(w) \/ FinishRun(w) \/ LoseDispatch(w) \/ LoseReply(w)
           \/ \E e \in Conts : EvaluateRecovery(w, e) \/ AcquireDueJob(w, e) \/ ClaimLost(w, e)
  <2>1. UNCHANGED <<cont, attempt, claim>>
    BY <1>1, Zenon DEF BeginTick, EndRecover, EndEvaluate, AbortTick, Materialize, EndAcquire,
       FinishRun, LoseDispatch, LoseReply, EvaluateRecovery, AcquireDueJob, ClaimLost, ledger
  <2> QED
    BY <2>1, LegalFrame
<1>2. ASSUME NEW e \in Conts, Claim(w, e)
      PROVE  LegalStep(c)
  <2>1. cont[e].status = "runnable" /\ ~Drift(e) /\ attempt' = attempt
    BY <1>2 DEF Claim, Claimable, ClaimChecksPass
  <2>2. e # c => cont'[c] = cont[c] /\ claim'[c] = claim[c]
    BY <1>2 DEF Claim, TypeOK
  <2> QED
    BY <2>1, <2>2, LegalFrame DEF LegalStep
<1>3. ASSUME NEW e \in Conts, ClaimSupersede(w, e) \/ ResolveExpire(w, e)
      PROVE  LegalStep(c)
  <2>1. cont[e].status \in {"runnable", "executing"}
    BY <1>3 DEF RowInvariant, RowsAgree, ClaimSupersede, ClaimSupersedes, ClaimChecksPass,
                ResolveExpire, ExpireCandidate
  <2>2. /\ attempt' = attempt /\ claim' = claim
        /\ e # c => cont'[c] = cont[c]
        /\ cont'[e].status = "superseded"
    BY <1>3 DEF ClaimSupersede, ResolveExpire, TypeOK, ContinuationRow
  <2> QED
    BY <2>1, <2>2, LegalFrame DEF LegalStep
<1>4. CASE PrepareAttempt(w)
  <2>1. /\ cont' = cont /\ claim' = claim
        /\ wk[w].cur # c => attempt'[c] = attempt[c]
        /\ wk[w].cur = c => attempt'[c] = "prepared" /\ attempt[c] = "none"
    BY <1>0, <1>4 DEF PrepareAttempt, TypeOK, IdentityAgrees, HoldsIdentity
  <2> QED
    BY <2>1, LegalFrame DEF LegalStep
<1>5. CASE BeginInvocation(w)
  <2>1. /\ cont' = cont /\ claim' = claim /\ ~Drift(wk[w].cur)
        /\ wk[w].cur # c => attempt'[c] = attempt[c]
        /\ wk[w].cur = c => attempt'[c] = "invoking" /\ attempt[c] = "prepared"
    BY <1>0, <1>5 DEF BeginInvocation, CanBegin, TypeOK, IdentityAgrees, HoldsIdentity
  <2> QED
    BY <2>1, LegalFrame DEF LegalStep
<1>6. CASE Settle(w)
  <2>1. /\ attempt' = attempt /\ claim' = claim
        /\ wk[w].cur # c => cont'[c] = cont[c]
        /\ wk[w].cur = c => /\ cont[c].status = "executing"
                            /\ cont'[c].status \in {"superseded", "waiting"}
    BY <1>6 DEF Settle, CanSettle, IdentityLive, TypeOK, ContinuationRow
  <2> QED
    BY <2>1, LegalFrame DEF LegalStep
<1>7. ASSUME NEW kind \in ExecutionEvidence, ImportReply(w, kind)
      PROVE  LegalStep(c)
  <2>1. /\ claim' = claim
        /\ wk[w].cur # c => cont'[c] = cont[c] /\ attempt'[c] = attempt[c]
    BY <1>7 DEF ImportReply, TypeOK
  <2>2. wk[w].cur = c =>
          /\ cont[c].status = "executing" /\ attempt[c] = "invoking"
          /\ attempt'[c] \in {"succeeded", "failed", "outcome_unknown"}
    BY <1>7 DEF ImportReply, ExecutionEvidence, TypeOK
  <2> QED
    BY <2>1, <2>2, LegalFrame DEF LegalStep
<1> QED
  BY <1>1, <1>2, <1>3, <1>4, <1>5, <1>6, <1>7 DEF SchedulerStep, RecorderReply

\* Every step changes the rows of a continuation legally.
LEMMA LegalNext ==
    ASSUME TypeOK, RowInvariant, [Next]_vars, NEW c \in Conts
    PROVE  LegalStep(c)
<1>1. CASE \/ UNCHANGED vars \/ Tick \/ ProcessStep \/ EngageGlobalStop \/ ResumeGlobalStop
           \/ \E d \in Delegations : RequestStop(d) \/ CompleteDrain(d) \/ ResumeDelegation(d)
  <2>1. UNCHANGED <<cont, attempt, claim>>
    BY <1>1, Zenon DEF vars, Tick, ProcessStep, ReleaseHost, StartGateway, Crash, EngageGlobalStop,
       ResumeGlobalStop, RequestStop, CompleteDrain, ResumeDelegation, ledger
  <2> QED
    BY <2>1, LegalFrame
<1>2. ASSUME NEW e \in Conts, Admit(e)
      PROVE  LegalStep(c)
  <2>1. /\ attempt' = attempt /\ claim' = claim /\ cont[e].status = "none"
        /\ e # c => cont'[c] = cont[c]
        /\ cont'[e].status = "runnable"
    BY <1>2 DEF Admit, TypeOK
  <2> QED
    BY <2>1, LegalFrame DEF LegalStep
<1>3. ASSUME NEW d \in Delegations, Amend(d)
      PROVE  LegalStep(c)
  <2>1. /\ attempt' = attempt /\ claim' = claim
        /\ \/ cont'[c] = cont[c]
           \/ /\ cont[c].status \in {"runnable", "waiting", "uncertain"}
              /\ cont'[c].status = "superseded"
    BY <1>3 DEF Amend, TypeOK, ContinuationRow
  <2> QED
    BY <2>1, LegalFrame DEF LegalStep
<1>4. ASSUME NEW e \in Conts, NEW kind \in ExecutionEvidence, ImportReconciliation(e, kind)
      PROVE  LegalStep(c)
  <2>1. /\ claim' = claim
        /\ e # c => cont'[c] = cont[c] /\ attempt'[c] = attempt[c]
        /\ cont[e].status = "uncertain" /\ attempt[e] = "outcome_unknown"
        /\ cont'[e].status \in {"terminal", "superseded"}
        /\ attempt'[e] \in {"reconciled_present", "reconciled_absent"}
    BY <1>4 DEF ImportReconciliation, TypeOK, ContinuationRow
  <2> QED
    BY <2>1, LegalFrame DEF LegalStep
<1> QED
  BY <1>1, <1>2, <1>3, <1>4, LegalWorkerSteps DEF Next, OwnerStep

\* No continuation is claimed or invoked across a delegation stop or a global
\* stop that came after its admission, resumed or not.
THEOREM FenceCorrect == Spec => StopIsAFence
<1>1. ASSUME TypeOK, RowInvariant, [Next]_vars, NEW c \in Conts
      PROVE  (\/ cont[c].epoch < deleg[DelegationOf[c]].epoch
              \/ cont[c].glob < glob.epoch)
             => /\ cont'[c].status = "executing" => cont[c].status = "executing"
                /\ attempt'[c] = "invoking" => attempt[c] = "invoking"
  <2>1. LegalStep(c)
    BY <1>1, LegalNext
  <2>2. ~Drift(c) => /\ cont[c].epoch = deleg[DelegationOf[c]].epoch
                     /\ cont[c].glob = glob.epoch
    BY DEF Drift
  <2>3. glob.epoch \in Nat /\ deleg[DelegationOf[c]].epoch \in Nat
    BY <1>1, ConstantsAssumption DEF TypeOK, DelegationRow
  <2> QED
    BY <2>1, <2>2, <2>3 DEF LegalStep
<1>2. TypeOK /\ RowInvariant /\ [Next]_vars =>
        [\A c \in Conts :
           (\/ cont[c].epoch < deleg[DelegationOf[c]].epoch
            \/ cont[c].glob < glob.epoch)
           => /\ cont'[c].status = "executing" => cont[c].status = "executing"
              /\ attempt'[c] = "invoking" => attempt[c] = "invoking"]_vars
  BY <1>1
<1> QED
  BY <1>2, TypeCorrect, RowsCorrect, PTL DEF Spec, StopIsAFence

\* A continuation has one claim, and nothing closed or finished is reopened.
THEOREM ClaimedOnceCorrect == Spec => ClaimedOnce
<1>1. ASSUME TypeOK, RowInvariant, [Next]_vars, NEW c \in Conts
      PROVE  /\ claim[c] # NoClaim => claim'[c] = claim[c]
             /\ cont[c].status \in {"terminal", "superseded"} => cont'[c] = cont[c]
             /\ attempt[c] = "invoking" => attempt'[c] # "prepared"
             /\ attempt[c] \in {"succeeded", "failed", "reconciled_present", "reconciled_absent"}
                  => attempt'[c] = attempt[c]
  <2>1. LegalStep(c)
    BY <1>1, LegalNext
  <2>2. cont[c].status = "runnable" => claim[c] = NoClaim
    BY <1>1 DEF RowInvariant, RowsAgree
  <2> QED
    BY <2>1, <2>2 DEF LegalStep
<1>2. TypeOK /\ RowInvariant /\ [Next]_vars =>
        [\A c \in Conts :
           /\ claim[c] # NoClaim => claim'[c] = claim[c]
           /\ cont[c].status \in {"terminal", "superseded"} => cont'[c] = cont[c]
           /\ attempt[c] = "invoking" => attempt'[c] # "prepared"
           /\ attempt[c] \in {"succeeded", "failed", "reconciled_present", "reconciled_absent"}
                => attempt'[c] = attempt[c]]_vars
  BY <1>1
<1> QED
  BY <1>2, TypeCorrect, RowsCorrect, PTL DEF Spec, ClaimedOnce

-----------------------------------------------------------------------------
(* Stops. *)

\* Only the drain makes a delegation `stopped`, and only when none of its
\* continuations executes.
LEMMA WhoStops ==
    ASSUME TypeOK, [Next]_vars, NEW c \in Conts,
           deleg'[DelegationOf[c]].run = "stopped", deleg[DelegationOf[c]].run # "stopped"
    PROVE  cont' = cont /\ cont[c].status # "executing"
<1> DEFINE b == DelegationOf[c]
<1>0. b \in Delegations /\ deleg[b] \in DelegationRow
  BY ConstantsAssumption DEF TypeOK
<1>1. ASSUME deleg' = deleg PROVE FALSE
  BY <1>1
<1>2. ASSUME NEW w \in Workers, NEW e \in Conts, EvaluateRecovery(w, e) PROVE FALSE
  <2>1. PICK open \in BOOLEAN :
          deleg' = [deleg EXCEPT ![DelegationOf[e]].rev = @ + 1, ![DelegationOf[e]].open = open]
    BY <1>2, Zenon DEF EvaluateRecovery
  <2>2. deleg'[b].run = deleg[b].run
    BY <2>1, <1>0 DEF TypeOK, DelegationRow
  <2> QED
    BY <2>2
<1>3. ASSUME NEW d \in Delegations, RequestStop(d) \/ ResumeDelegation(d) \/ Amend(d) PROVE FALSE
  BY <1>0, <1>3 DEF RequestStop, ResumeDelegation, Amend, TypeOK, DelegationRow
<1>4. ASSUME NEW d \in Delegations, CompleteDrain(d)
      PROVE  cont' = cont /\ cont[c].status # "executing"
  <2>1. cont' = cont /\ \A e \in Conts : DelegationOf[e] = d => cont[e].status # "executing"
    BY <1>4 DEF CompleteDrain, ledger
  <2>2. b # d => deleg'[b] = deleg[b]
    BY <1>0, <1>4 DEF CompleteDrain, TypeOK
  <2> QED
    BY <2>1, <2>2
<1>5. CASE \/ UNCHANGED vars \/ Tick \/ ProcessStep \/ EngageGlobalStop \/ ResumeGlobalStop
           \/ \E e \in Conts : Admit(e)
           \/ \E e \in Conts, kind \in ExecutionEvidence : ImportReconciliation(e, kind)
  BY <1>1, <1>5, Zenon DEF vars, Tick, ProcessStep, ReleaseHost, StartGateway, Crash, Admit,
     EngageGlobalStop, ResumeGlobalStop, ImportReconciliation, control
<1>6. ASSUME NEW w \in Workers, SchedulerStep(w) \/ RecorderReply(w) PROVE FALSE
  <2>1. \/ deleg' = deleg
        \/ \E e \in Conts : EvaluateRecovery(w, e)
    BY <1>6, Zenon DEF SchedulerStep, RecorderReply, BeginTick, EndRecover, EndEvaluate, AbortTick,
       Materialize, EndAcquire, FinishRun, PrepareAttempt, BeginInvocation, Settle, LoseDispatch,
       ResolveExpire, AcquireDueJob, Claim, ClaimSupersede, ClaimLost, LoseReply, ImportReply,
       control
  <2> QED
    BY <2>1, <1>1, <1>2
<1> QED
  BY <1>3, <1>4, <1>5, <1>6 DEF Next, OwnerStep

\* A delegation is never shown `stopped` while one of its continuations
\* executes.
THEOREM StopCorrect == Spec => []StoppedIsQuiet
<1>1. Init => StoppedIsQuiet
  BY ConstantsAssumption DEF Init, StoppedIsQuiet
<1>2. ASSUME TypeOK, RowInvariant, StoppedIsQuiet, [Next]_vars
      PROVE  StoppedIsQuiet'
  <2> SUFFICES ASSUME NEW c \in Conts, deleg'[DelegationOf[c]].run = "stopped"
               PROVE  cont'[c].status # "executing"
    BY DEF StoppedIsQuiet
  <2>1. CASE deleg[DelegationOf[c]].run = "stopped"
    <3>1. cont[c].status # "executing" /\ Drift(c)
      BY <1>2, <2>1 DEF StoppedIsQuiet, Drift
    <3> QED
      BY <1>2, <3>1, LegalNext DEF LegalStep
  <2>2. CASE deleg[DelegationOf[c]].run # "stopped"
    BY <1>2, <2>2, WhoStops
  <2> QED
    BY <2>1, <2>2
<1> QED
  BY <1>1, <1>2, TypeCorrect, RowsCorrect, PTL DEF Spec

-----------------------------------------------------------------------------
(* The technical quota. *)

\* A step adds at most one reservation to those that hold quota, and then the
\* delegation's use left room for it.
LEMMA WhoReserves ==
    ASSUME TypeOK, RowInvariant, [Next]_vars
    PROVE  \/ \A c \in Conts : resv'[c] \in HoldingReservation => resv[c] \in HoldingReservation
           \/ \E c \in Conts : /\ QuotaUsed(DelegationOf[c]) + 1 <= QuotaLimit
                               /\ \A e \in Conts \ {c} : resv'[e] = resv[e]
<1> USE DEF HoldingReservation
<1>1. CASE \/ UNCHANGED vars \/ Tick \/ ProcessStep \/ OwnerStep
  <2>1. resv' = resv
    BY <1>1, Zenon DEF vars, Tick, ProcessStep, ReleaseHost, StartGateway, Crash, OwnerStep, Admit,
       EngageGlobalStop, ResumeGlobalStop, RequestStop, CompleteDrain, ResumeDelegation, Amend,
       ledger
  <2> QED
    BY <2>1
<1>2. ASSUME NEW e \in Conts, NEW kind \in ExecutionEvidence, ImportReconciliation(e, kind)
      PROVE  \A c \in Conts : resv'[c] \in HoldingReservation => resv[c] \in HoldingReservation
  BY <1>2 DEF ImportReconciliation, TypeOK
<1>3. ASSUME NEW w \in Workers, NEW e \in Conts, Claim(w, e)
      PROVE  \/ resv' = resv
             \/ /\ QuotaUsed(DelegationOf[e]) + 1 <= QuotaLimit
                /\ \A c \in Conts \ {e} : resv'[c] = resv[c]
  BY <1>3 DEF Claim, Claimable, ResourcesAvailable, TypeOK
<1>4. ASSUME NEW w \in Workers,
             Settle(w) \/ \E kind \in ExecutionEvidence : ImportReply(w, kind)
      PROVE  \A c \in Conts : resv'[c] \in HoldingReservation => resv[c] \in HoldingReservation
  BY <1>4 DEF Settle, ImportReply, TypeOK
<1>5. ASSUME NEW w \in Workers, NEW e \in Conts, ResolveExpire(w, e)
      PROVE  \A c \in Conts : resv'[c] \in HoldingReservation => resv[c] \in HoldingReservation
  BY <1>5 DEF ResolveExpire, TypeOK
<1>6. ASSUME NEW w \in Workers, SchedulerStep(w) \/ RecorderReply(w)
      PROVE  \/ resv' = resv \/ Settle(w) \/ \E kind \in ExecutionEvidence : ImportReply(w, kind)
             \/ \E e \in Conts : Claim(w, e) \/ ResolveExpire(w, e)
  BY <1>6, Zenon DEF SchedulerStep, RecorderReply, BeginTick, EndRecover, EndEvaluate, AbortTick,
     Materialize, EndAcquire, FinishRun, PrepareAttempt, BeginInvocation, LoseDispatch,
     EvaluateRecovery, AcquireDueJob, ClaimSupersede, ClaimLost, LoseReply, ledger
<1> QED
  BY <1>1, <1>2, <1>3, <1>4, <1>5, <1>6 DEF Next

\* The reservations that hold quota fit in every delegation's limit, for any
\* number of continuations and workers.
THEOREM QuotaCorrect == Spec => []QuotaNeverExceeded
<1> DEFINE Held(d) == {c \in Conts : DelegationOf[c] = d /\ resv[c] \in HoldingReservation}
<1>0. ASSUME NEW S, S \subseteq Conts
      PROVE  IsFiniteSet(S) /\ Cardinality(S) \in Nat
  BY <1>0, ConstantsAssumption, FS_Subset, FS_CardinalityType
<1>1. Init => QuotaNeverExceeded
  <2> SUFFICES ASSUME Init, NEW d \in Delegations PROVE QuotaUsed(d) <= QuotaLimit
    BY DEF QuotaNeverExceeded
  <2>1. Held(d) = {}
    BY DEF Init, HoldingReservation
  <2> QED
    BY <2>1, FS_EmptySet, ConstantsAssumption DEF QuotaUsed
<1>2. ASSUME TypeOK, RowInvariant, QuotaNeverExceeded, [Next]_vars
      PROVE  QuotaNeverExceeded'
  <2> SUFFICES ASSUME NEW d \in Delegations PROVE QuotaUsed(d)' <= QuotaLimit
    BY DEF QuotaNeverExceeded
  <2>0. QuotaUsed(d) <= QuotaLimit /\ QuotaUsed(d) \in Nat /\ QuotaLimit \in Nat
    BY <1>0, <1>2, ConstantsAssumption DEF QuotaNeverExceeded, QuotaUsed
  <2>1. CASE Held(d)' \subseteq Held(d)
    <3>1. Cardinality(Held(d)') <= Cardinality(Held(d)) /\ Cardinality(Held(d)') \in Nat
      BY <2>1, <1>0, FS_Subset
    <3> QED
      BY <3>1, <2>0 DEF QuotaUsed
  <2>2. ASSUME NEW c \in Conts, DelegationOf[c] = d, QuotaUsed(d) + 1 <= QuotaLimit,
               \A e \in Conts \ {c} : resv'[e] = resv[e]
        PROVE  QuotaUsed(d)' <= QuotaLimit
    <3>1. Held(d)' \subseteq Held(d) \cup {c}
      BY <2>2
    <3>2. IsFiniteSet(Held(d)) /\ IsFiniteSet(Held(d) \cup {c})
      BY <1>0
    <3>3. Cardinality(Held(d) \cup {c}) <= Cardinality(Held(d)) + 1
      BY <3>2, <1>0, FS_AddElement
    <3>4. Cardinality(Held(d)') <= Cardinality(Held(d) \cup {c})
      BY <3>1, <3>2, FS_Subset
    <3>5. /\ Cardinality(Held(d)') \in Nat /\ Cardinality(Held(d)) \in Nat
          /\ Cardinality(Held(d) \cup {c}) \in Nat
      BY <1>0
    <3> QED
      BY <2>2, <2>0, <3>3, <3>4, <3>5 DEF QuotaUsed
  <2>3. ASSUME NEW c \in Conts, DelegationOf[c] # d,
               \A e \in Conts \ {c} : resv'[e] = resv[e]
        PROVE  Held(d)' \subseteq Held(d)
    BY <2>3
  <2>4. ASSUME \A c \in Conts : resv'[c] \in HoldingReservation => resv[c] \in HoldingReservation
        PROVE  Held(d)' \subseteq Held(d)
    BY <2>4
  <2> QED
    BY <1>2, <2>1, <2>2, <2>3, <2>4, WhoReserves
<1> QED
  BY <1>1, <1>2, TypeCorrect, RowsCorrect, PTL DEF Spec

-----------------------------------------------------------------------------
(* Jobs of closed work. *)

\* A closed job stays closed, and a step that closes a continuation closes its
\* job, unless it is an amendment.
LEMMA WhoClosesJobs ==
    ASSUME TypeOK, RowInvariant, [Next]_vars, NEW c \in Conts
    PROVE  /\ job[c].state = "closed" => job'[c].state = "closed"
           /\ \/ cont'[c].status = cont[c].status
              \/ cont'[c].status \in {"runnable", "executing"}
              \/ job'[c].state = "closed"
              \/ /\ cont[c].status \in {"runnable", "waiting", "uncertain"}
                 /\ cont'[c].status = "superseded"
                 /\ job' = job /\ claim' = claim
<1> DEFINE P == /\ job[c].state = "closed" => job'[c].state = "closed"
                /\ \/ cont'[c].status = cont[c].status
                   \/ cont'[c].status \in {"runnable", "executing"}
                   \/ job'[c].state = "closed"
                   \/ /\ cont[c].status \in {"runnable", "waiting", "uncertain"}
                      /\ cont'[c].status = "superseded"
                      /\ job' = job /\ claim' = claim
<1>1. ASSUME UNCHANGED <<cont, job>> PROVE P
  BY <1>1
<1>2. ASSUME NEW w \in Workers, NEW e \in Conts, AcquireDueJob(w, e) PROVE P
  BY <1>2 DEF AcquireDueJob, JobDue, TypeOK, JobRow
<1>3. ASSUME NEW w \in Workers, Materialize(w) PROVE P
  BY <1>3 DEF Materialize, TypeOK
<1>4. ASSUME NEW w \in Workers, NEW e \in Conts, Claim(w, e) PROVE P
  BY <1>4 DEF Claim, TypeOK, ContinuationRow
<1>5. ASSUME NEW w \in Workers, NEW e \in Conts, ClaimSupersede(w, e) \/ ResolveExpire(w, e)
      PROVE  P
  BY <1>5 DEF ClaimSupersede, ResolveExpire, ClosedJob, TypeOK
<1>6. ASSUME NEW w \in Workers, Settle(w) PROVE P
  BY <1>6 DEF Settle, ClosedJob, TypeOK
<1>7. ASSUME NEW w \in Workers, NEW kind \in ExecutionEvidence, ImportReply(w, kind) PROVE P
  BY <1>7 DEF ImportReply, ClosedJob, TypeOK
<1>8. ASSUME NEW e \in Conts, NEW kind \in ExecutionEvidence, ImportReconciliation(e, kind)
      PROVE  P
  BY <1>8 DEF ImportReconciliation, ClosedJob, TypeOK
<1>9. ASSUME NEW e \in Conts, Admit(e) PROVE P
  BY <1>9 DEF Admit, TypeOK
<1>10. ASSUME NEW d \in Delegations, Amend(d) PROVE P
  BY <1>10 DEF Amend, TypeOK, ContinuationRow
<1>11. ASSUME \/ UNCHANGED vars \/ Tick \/ ProcessStep \/ EngageGlobalStop \/ ResumeGlobalStop
              \/ \E d \in Delegations : RequestStop(d) \/ CompleteDrain(d) \/ ResumeDelegation(d)
       PROVE  P
  <2>1. UNCHANGED <<cont, job>>
    BY <1>11, Zenon DEF vars, Tick, ProcessStep, ReleaseHost, StartGateway, Crash,
       EngageGlobalStop, ResumeGlobalStop, RequestStop, CompleteDrain, ResumeDelegation, ledger
  <2> QED
    BY <2>1, <1>1
<1>12. ASSUME NEW w \in Workers, SchedulerStep(w) \/ RecorderReply(w) PROVE P
  <2>1. \/ UNCHANGED <<cont, job>> \/ Materialize(w) \/ Settle(w)
        \/ \E kind \in ExecutionEvidence : ImportReply(w, kind)
        \/ \E e \in Conts : \/ AcquireDueJob(w, e) \/ Claim(w, e)
                            \/ ClaimSupersede(w, e) \/ ResolveExpire(w, e)
    BY <1>12, Zenon DEF SchedulerStep, RecorderReply, BeginTick, EndRecover, EndEvaluate,
       AbortTick, EndAcquire, FinishRun, PrepareAttempt, BeginInvocation, LoseDispatch,
       EvaluateRecovery, ClaimLost, LoseReply, ledger
  <2> QED
    BY <2>1, <1>1, <1>2, <1>3, <1>4, <1>5, <1>6, <1>7
<1> HIDE DEF P
<1>13. P
  BY <1>8, <1>9, <1>10, <1>11, <1>12 DEF Next, OwnerStep
<1> QED
  BY <1>13 DEF P

\* No closed continuation leaves a job to lease, except the never claimed ones
\* that an amendment superseded.
THEOREM ClosedWorkCorrect == Spec => []ClosedWorkHasNoJob
<1>1. Init => ClosedWorkHasNoJob
  BY DEF Init, ClosedWorkHasNoJob
<1>2. ASSUME TypeOK, RowInvariant, ClosedWorkHasNoJob, [Next]_vars
      PROVE  ClosedWorkHasNoJob'
  <2> SUFFICES ASSUME NEW c \in Conts
               PROVE  /\ cont'[c].status \in {"waiting", "uncertain", "terminal"}
                           => job'[c].state = "closed"
                      /\ cont'[c].status = "superseded" /\ claim'[c] # NoClaim
                           => job'[c].state = "closed"
    BY DEF ClosedWorkHasNoJob, NoClaim
  <2>1. /\ claim'[c] # claim[c] => cont[c].status = "runnable"
        /\ cont[c].status = "runnable" => claim[c] = NoClaim
    BY <1>2, LegalNext DEF LegalStep, RowInvariant, RowsAgree
  <2> QED
    BY <1>2, <2>1, WhoClosesJobs DEF ClosedWorkHasNoJob
<1> QED
  BY <1>1, <1>2, TypeCorrect, RowsCorrect, PTL DEF Spec

-----------------------------------------------------------------------------
(* The lease of a claim.  One gateway at a time and no contention on the    *)
(* receipts: otherwise the job of a claim that is due for expiry can be     *)
(* leased again before the expiry commits.                                  *)

OneGateway ==
    \A v, w \in Workers : wk[v].pc # "down" /\ wk[w].pc # "down" => v = w

\* The phases of a tick that rely on its recovery pass.
AfterRecovery == {"evaluate", "materialize", "acquire"}

\* The recovery pass has expired every claim that acquire_due_jobs, with the
\* same now_ms, would find due.
ScanIsComplete ==
    \A w \in Workers, c \in Conts :
        wk[w].pc \in AfterRecovery /\ effect[c] = "claimed" => claim[c].exp > wk[w].clk

LeaseInvariant ==
    /\ OneGateway
    /\ ScanIsComplete
    /\ \A c \in Conts : effect[c] = "claimed" =>
         /\ claim[c].owner \in Workers
         /\ job[c].owner = claim[c].owner /\ job[c].exp = claim[c].exp

\* A claimed effect was claimed before, with the same claim and a job that is
\* the same or was due, or is claimed now by the worker that leases its job.
LEMMA WhoLeases ==
    ASSUME TypeOK, RowInvariant, [Next]_vars, NEW c \in Conts, effect'[c] = "claimed"
    PROVE  \/ /\ effect[c] = "claimed" /\ claim'[c] = claim[c]
              /\ \/ job'[c] = job[c]
                 \/ \E w \in Workers : wk[w].pc = "acquire" /\ JobDue(c, wk[w].clk)
           \/ \E w \in Workers :
                /\ wk[w].pc = "run" /\ wk'[w].pc = "claimed"
                /\ claim'[c].owner = w /\ job'[c].owner = w /\ claim'[c].exp = job'[c].exp
<1> DEFINE P == \/ /\ effect[c] = "claimed" /\ claim'[c] = claim[c]
                   /\ \/ job'[c] = job[c]
                      \/ \E w \in Workers : wk[w].pc = "acquire" /\ JobDue(c, wk[w].clk)
                \/ \E w \in Workers :
                     /\ wk[w].pc = "run" /\ wk'[w].pc = "claimed"
                     /\ claim'[c].owner = w /\ job'[c].owner = w /\ claim'[c].exp = job'[c].exp
<1>0. /\ RowsAgree(c)
      /\ effect[c] = "claimed" => cont[c].status = "executing" /\ attempt[c] \in {"none", "prepared"}
  BY DEF RowInvariant, RowsAgree
<1>1. ASSUME UNCHANGED <<effect, claim, job>> PROVE P
  BY <1>1
<1>2. ASSUME NEW w \in Workers, NEW e \in Conts, AcquireDueJob(w, e) PROVE P
  BY <1>2 DEF AcquireDueJob, TypeOK
<1>3. ASSUME NEW w \in Workers, Materialize(w) PROVE P
  BY <1>0, <1>3 DEF Materialize, TypeOK
<1>4. ASSUME NEW w \in Workers, NEW e \in Conts, Claim(w, e) PROVE P
  <2>1. CASE e = c
    BY <1>4, <2>1 DEF Claim, Claimable, ClaimChecksPass, JobLeaseMatches, TypeOK, WorkerState,
       ClaimRow, JobRow
  <2>2. CASE e # c
    BY <1>4, <2>2 DEF Claim, TypeOK
  <2> QED BY <2>1, <2>2
<1>5. ASSUME NEW w \in Workers, NEW e \in Conts, ClaimSupersede(w, e) \/ ResolveExpire(w, e)
      PROVE  P
  BY <1>0, <1>5 DEF ClaimSupersede, ClaimSupersedes, ClaimChecksPass, ResolveExpire, TypeOK
<1>6. ASSUME NEW w \in Workers, Settle(w) PROVE P
  BY <1>6 DEF Settle, TypeOK
<1>7. ASSUME NEW w \in Workers, NEW kind \in ExecutionEvidence, ImportReply(w, kind) PROVE P
  BY <1>0, <1>7 DEF ImportReply, ExecutionEvidence, TypeOK
<1>8. ASSUME NEW e \in Conts, NEW kind \in ExecutionEvidence, ImportReconciliation(e, kind)
      PROVE  P
  BY <1>8 DEF ImportReconciliation, TypeOK
<1>9. ASSUME NEW e \in Conts, Admit(e) PROVE P
  BY <1>9 DEF Admit, TypeOK
<1>10. ASSUME NEW w \in Workers, BeginInvocation(w) PROVE P
  BY <1>10 DEF BeginInvocation, TypeOK
<1>11. ASSUME \/ UNCHANGED vars \/ Tick \/ ProcessStep \/ EngageGlobalStop \/ ResumeGlobalStop
              \/ \E d \in Delegations :
                   RequestStop(d) \/ CompleteDrain(d) \/ ResumeDelegation(d) \/ Amend(d)
       PROVE  P
  <2>1. UNCHANGED <<effect, claim, job>>
    BY <1>11, Zenon DEF vars, Tick, ProcessStep, ReleaseHost, StartGateway, Crash,
       EngageGlobalStop, ResumeGlobalStop, RequestStop, CompleteDrain, ResumeDelegation, Amend, ledger
  <2> QED
    BY <2>1, <1>1
<1>12. ASSUME NEW w \in Workers, SchedulerStep(w) \/ RecorderReply(w) PROVE P
  <2>1. \/ UNCHANGED <<effect, claim, job>> \/ Materialize(w) \/ Settle(w) \/ BeginInvocation(w)
        \/ \E kind \in ExecutionEvidence : ImportReply(w, kind)
        \/ \E e \in Conts : \/ AcquireDueJob(w, e) \/ Claim(w, e)
                            \/ ClaimSupersede(w, e) \/ ResolveExpire(w, e)
    BY <1>12, Zenon DEF SchedulerStep, RecorderReply, BeginTick, EndRecover, EndEvaluate,
       AbortTick, EndAcquire, FinishRun, PrepareAttempt, LoseDispatch,
       EvaluateRecovery, ClaimLost, LoseReply, ledger
  <2> QED
    BY <2>1, <1>1, <1>2, <1>3, <1>4, <1>5, <1>6, <1>7, <1>10
<1> HIDE DEF P
<1>13. P
  BY <1>8, <1>9, <1>11, <1>12 DEF Next, OwnerStep
<1> QED
  BY <1>13 DEF P

\* A gateway starts when none runs, and a worker comes to the phases after
\* the recovery pass only through a pass that left no candidate.
LEMMA WhoScans ==
    ASSUME TypeOK, [Next]_vars, Overlap = FALSE, ReceiptContention = FALSE, NEW w \in Workers
    PROVE  /\ wk'[w].pc # "down" /\ wk[w].pc = "down" =>
                (\A v \in Workers : wk[v].pc = "down") /\ (\A v \in Workers \ {w} : wk'[v] = wk[v])
           /\ wk'[w].pc \in AfterRecovery =>
                /\ wk'[w].clk = wk[w].clk
                /\ \/ wk[w].pc \in AfterRecovery
                   \/ /\ wk[w].pc = "recover"
                      /\ \A c \in Conts : ~ExpireCandidate(c, wk[w].clk)
<1> DEFINE P == /\ wk'[w].pc # "down" /\ wk[w].pc = "down" =>
                     (\A v \in Workers : wk[v].pc = "down")
                       /\ (\A v \in Workers \ {w} : wk'[v] = wk[v])
                /\ wk'[w].pc \in AfterRecovery =>
                     /\ wk'[w].clk = wk[w].clk
                     /\ \/ wk[w].pc \in AfterRecovery
                        \/ /\ wk[w].pc = "recover"
                           /\ \A c \in Conts : ~ExpireCandidate(c, wk[w].clk)
<1>0. wk \in [Workers -> WorkerState]
  BY DEF TypeOK
<1>1. ASSUME wk'[w] = wk[w] PROVE P
  BY <1>1
<1>2. ASSUME NEW x \in Workers, wk[x].pc # "down", NEW s, wk' = [wk EXCEPT ![x] = s],
             s.pc \notin AfterRecovery
      PROVE  P
  BY <1>0, <1>2
<1>3. ASSUME NEW x \in Workers, StartGateway(x) PROVE P
  <2>1. wk' = [wk EXCEPT ![x] = [DownWorker EXCEPT !.pc = "idle"]]
        /\ \A v \in Workers : wk[v].pc = "down"
    BY <1>3 DEF StartGateway
  <2>2. [DownWorker EXCEPT !.pc = "idle"].pc \notin AfterRecovery
    BY DEF DownWorker, AfterRecovery
  <2> QED BY <1>0, <2>1, <2>2
<1>4. ASSUME NEW x \in Workers,
             BeginTick(x) \/ AbortTick(x) \/ FinishRun(x) \/ Crash(x) \/ EndAcquire(x)
             \/ PrepareAttempt(x) \/ BeginInvocation(x) \/ Settle(x) \/ LoseDispatch(x) \/ LoseReply(x)
             \/ \E kind \in ExecutionEvidence : ImportReply(x, kind)
      PROVE  P
  <2>1. wk[x].pc # "down"
    BY <1>4 DEF BeginTick, AbortTick, FinishRun, Crash, EndAcquire, PrepareAttempt,
       BeginInvocation, Settle, LoseDispatch, LoseReply, ImportReply
  <2>2. wk'[x].pc \notin AfterRecovery /\ \A v \in Workers \ {x} : wk'[v] = wk[v]
    <3>1. CASE AbortTick(x) \/ FinishRun(x) \/ Crash(x)
      BY <1>0, <3>1 DEF AbortTick, FinishRun, Crash, DownWorker, AfterRecovery
    <3>2. CASE BeginTick(x) \/ EndAcquire(x)
      BY <1>0, <3>2 DEF BeginTick, EndAcquire, AfterRecovery, WorkerState
    <3>3. CASE PrepareAttempt(x) \/ BeginInvocation(x)
      BY <1>0, <3>3 DEF PrepareAttempt, BeginInvocation, AfterRecovery, WorkerState
    <3>4. CASE Drop(x)
      BY <1>0, <3>4 DEF Drop, AfterRecovery, WorkerState
    <3>5. CASE Settle(x) \/ LoseDispatch(x) \/ LoseReply(x)
               \/ \E kind \in ExecutionEvidence : ImportReply(x, kind)
      BY <3>4, <3>5 DEF Settle, LoseDispatch, LoseReply, ImportReply
    <3> QED BY <1>4, <3>1, <3>2, <3>3, <3>5
  <2> QED BY <2>1, <2>2, <1>1
<1>5. ASSUME NEW x \in Workers, NEW c \in Conts,
             Claim(x, c) \/ ClaimSupersede(x, c) \/ ClaimLost(x, c)
      PROVE  P
  <2>1. wk[x].pc = "run" /\ wk'[x].pc \in {"claimed", "run"}
        /\ \A v \in Workers \ {x} : wk'[v] = wk[v]
    BY <1>0, <1>5 DEF Claim, ClaimSupersede, ClaimLost, WorkerState
  <2> QED BY <2>1, <1>1 DEF AfterRecovery
<1>6. ASSUME NEW x \in Workers, EndRecover(x) PROVE P
  BY <1>0, <1>6 DEF EndRecover, AfterRecovery, WorkerState
<1>7. ASSUME NEW x \in Workers, EndEvaluate(x) \/ Materialize(x) PROVE P
  BY <1>0, <1>7 DEF EndEvaluate, Materialize, AfterRecovery, WorkerState
<1>8. ASSUME NEW x \in Workers, NEW c \in Conts, AcquireDueJob(x, c) PROVE P
  BY <1>0, <1>8 DEF AcquireDueJob, AfterRecovery, WorkerState
<1>9. ASSUME UNCHANGED wk PROVE P
  BY <1>9, <1>1
<1>10. ASSUME NEW x \in Workers, SchedulerStep(x) \/ RecorderReply(x) PROVE P
  <2>1. ASSUME NEW c \in Conts, ResolveExpire(x, c) \/ EvaluateRecovery(x, c) PROVE UNCHANGED wk
    BY <2>1 DEF ResolveExpire, EvaluateRecovery
  <2> HIDE DEF P
  <2> QED BY <1>4, <1>5, <1>6, <1>7, <1>8, <1>9, <1>10, <2>1, Zenon DEF SchedulerStep, RecorderReply
<1>11. ASSUME \/ UNCHANGED vars \/ Tick \/ ReleaseHost \/ OwnerStep
              \/ \E c \in Conts, kind \in ExecutionEvidence : ImportReconciliation(c, kind)
       PROVE  UNCHANGED wk
  BY <1>11, Zenon DEF vars, Tick, ReleaseHost, OwnerStep, EngageGlobalStop, ResumeGlobalStop,
     Admit, RequestStop, CompleteDrain, ResumeDelegation, Amend, ImportReconciliation
<1> HIDE DEF P
<1>12. P
  BY <1>3, <1>4, <1>9, <1>10, <1>11, Zenon DEF Next, ProcessStep
<1> QED
  BY <1>12 DEF P

\* With one gateway at a time and no contention on the receipts, a claim that
\* was not dispatched keeps the lease of its job until it is settled or expired.
THEOREM LeaseCorrect ==
    ASSUME Overlap = FALSE, ReceiptContention = FALSE
    PROVE  Spec => []ClaimKeepsItsJobLease
<1>1. Init => LeaseInvariant
  BY DEF Init, LeaseInvariant, OneGateway, ScanIsComplete, DownWorker
<1>2. ASSUME TypeOK, RowInvariant, LeaseInvariant, [Next]_vars
      PROVE  LeaseInvariant'
  <2>1. OneGateway'
    <3>1. SUFFICES ASSUME NEW v \in Workers, NEW w \in Workers, wk'[v].pc # "down",
                          wk'[w].pc # "down"
                   PROVE  v = w
      BY DEF OneGateway
    <3>2. CASE wk[v].pc # "down" /\ wk[w].pc # "down"
      BY <1>2, <3>2 DEF LeaseInvariant, OneGateway
    <3>3. CASE wk[v].pc = "down"
      BY <1>2, <3>1, <3>3, WhoScans
    <3>4. CASE wk[w].pc = "down"
      BY <1>2, <3>1, <3>4, WhoScans
    <3> QED BY <3>2, <3>3, <3>4
  <2>2. ASSUME NEW w \in Workers, NEW c \in Conts, wk'[w].pc \in AfterRecovery,
               effect'[c] = "claimed"
        PROVE  claim'[c].exp > wk'[w].clk
    <3>1. wk'[w].clk = wk[w].clk /\ wk[w].pc \in AfterRecovery \cup {"recover"}
      BY <1>2, <2>2, WhoScans
    <3>2. effect[c] = "claimed" /\ claim'[c] = claim[c]
      <4>1. ASSUME NEW v \in Workers, wk[v].pc = "run", wk'[v].pc = "claimed" PROVE FALSE
        <5>1. v # w
          BY <2>2, <4>1 DEF AfterRecovery
        <5>2. wk[v].pc # "down" /\ wk[w].pc # "down"
          BY <3>1, <4>1 DEF AfterRecovery
        <5> QED BY <1>2, <5>1, <5>2 DEF LeaseInvariant, OneGateway
      <4> QED BY <1>2, <2>2, <4>1, WhoLeases
    <3>3. CASE wk[w].pc \in AfterRecovery
      BY <1>2, <3>1, <3>2, <3>3 DEF LeaseInvariant, ScanIsComplete
    <3>4. CASE wk[w].pc \notin AfterRecovery
      <4>1. ~ExpireCandidate(c, wk[w].clk)
        BY <1>2, <2>2, <3>4, WhoScans
      <4>2. resv[c] = "reserved"
        BY <1>2, <3>2 DEF RowInvariant, RowsAgree
      <4>3. claim[c].exp \in Nat /\ wk[w].clk \in Nat
        BY <1>2 DEF TypeOK, ClaimRow, WorkerState
      <4> QED BY <3>1, <3>2, <4>1, <4>2, <4>3 DEF ExpireCandidate
    <3> QED BY <3>3, <3>4
  <2>3. ASSUME NEW c \in Conts, effect'[c] = "claimed"
        PROVE  /\ claim'[c].owner \in Workers
               /\ job'[c].owner = claim'[c].owner /\ job'[c].exp = claim'[c].exp
    <3>1. ASSUME effect[c] = "claimed", NEW w \in Workers, wk[w].pc = "acquire",
                 JobDue(c, wk[w].clk)
          PROVE  FALSE
      <4>1. job[c].owner \in Workers /\ job[c].exp = claim[c].exp /\ claim[c].exp > wk[w].clk
        BY <1>2, <3>1 DEF LeaseInvariant, ScanIsComplete, AfterRecovery
      <4>2. claim[c].exp \in Nat /\ wk[w].clk \in Nat
        BY <1>2 DEF TypeOK, ClaimRow, WorkerState
      <4> QED BY <3>1, <4>1, <4>2, ConstantsAssumption DEF JobDue
    <3>2. CASE effect[c] = "claimed" /\ claim'[c] = claim[c] /\ job'[c] = job[c]
      BY <1>2, <3>2 DEF LeaseInvariant
    <3> QED BY <1>2, <2>3, <3>1, <3>2, WhoLeases
  <2> QED BY <2>1, <2>2, <2>3 DEF LeaseInvariant, ScanIsComplete
<1>3. LeaseInvariant => ClaimKeepsItsJobLease
  BY DEF LeaseInvariant, ClaimKeepsItsJobLease
<1> QED
  BY <1>1, <1>2, <1>3, TypeCorrect, RowsCorrect, PTL DEF Spec
=============================================================================
