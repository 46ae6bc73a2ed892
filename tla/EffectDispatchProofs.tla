------------------------- MODULE EffectDispatchProofs -------------------------
(***************************************************************************)
(* The safety properties of EffectDispatch for every set of attempts.      *)
(***************************************************************************)
EXTENDS EffectDispatch, TLAPS

-----------------------------------------------------------------------------
(* The inductive invariant.  Per attempt it ties the ledger's rows, the    *)
(* gateway's task, the message in flight and the recorder's status to one  *)
(* another; without the message in flight nothing would say that a reply   *)
(* is the recorder's own status.                                           *)

Statuses == {"none", "Accepted", "InvocationStarted"} \cup Evidence

\* Before the boundary no message is on its way and the recorder knows nothing.
BeforeBoundary(a) ==
    att[a] \in {"none", "prepared"} =>
        /\ wire[a] = "none" /\ status[a] = "none" /\ disp[a] # "sent"
        /\ cont[a] \in {"executing", "superseded"}

\* Past it the rows are those of an execution until the evidence is imported.
PastBoundary(a) ==
    /\ att[a] = "invoking" => cont[a] = "executing"
    /\ cont[a] = "executing" => resv[a] = "reserved"
    /\ att[a] \in {"succeeded", "failed", "outcome_unknown"} =>
         wire[a] = "none" /\ disp[a] = "over"
    /\ att[a] = "failed" => cont[a] = "executing"
    /\ disp[a] = "claimed" => att[a] = "none"
    /\ disp[a] = "prepared" => att[a] = "prepared"

\* A message tells how far the recorder is.
WireAgrees(a) ==
    /\ wire[a] \in {"request", "Rejected"} => status[a] = "none"
    /\ wire[a] = "accepted" => status[a] \in {"Accepted", "InvocationStarted"}
    /\ wire[a] \in Evidence => status[a] = wire[a]
    /\ status[a] \in {"Accepted", "InvocationStarted"} => wire[a] = "accepted"
    /\ status[a] \in {"none", "Accepted"} => begun[a] = 0
    /\ status[a] = "Absent" => begun[a] = 0

\* Reservations of an outcome are not given back.
OutcomeBooked(a) ==
    /\ att[a] = "succeeded" => status[a] = "Present" /\ resv[a] = "settled" /\ cont[a] = "terminal"
    /\ att[a] = "failed" => status[a] = "Absent"
    /\ att[a] = "outcome_unknown" =>
         /\ status[a] = "Unknown" /\ resv[a] = "reconciliation_required"
         /\ cont[a] \in {"uncertain", "superseded"}

DispatchAgrees(a) == BeforeBoundary(a) /\ PastBoundary(a) /\ WireAgrees(a) /\ OutcomeBooked(a)

\* While the ledger has an execution past the boundary, a stop cannot drain.
StoppedIsDrained == run = "stopped" => \A a \in Attempts : cont[a] # "executing"

DispatchInvariant ==
    /\ TypeOK
    /\ status \in [Attempts -> Statuses]
    /\ \A a \in Attempts : DispatchAgrees(a)
    /\ StoppedIsDrained

-----------------------------------------------------------------------------
(* Type correctness. *)

\* A new value of the right kind at one attempt keeps a table's type.
LEMMA TableType ==
    ASSUME NEW S, NEW f \in [Attempts -> S], NEW a \in Attempts, NEW v \in S
    PROVE  [f EXCEPT ![a] = v] \in [Attempts -> S]
  OBVIOUS

\* TypeOK with the recorder's status, which every step of the recorder keeps.
DispatchTypes == TypeOK /\ status \in [Attempts -> Statuses]

\* The empty ledger has its type.
LEMMA TypeInit == Init => DispatchTypes
  BY DEF Init, Recorder!Init, DispatchTypes, TypeOK, Statuses, ContStatus, AttStatus, Evidence

\* Every step of the gateway, the recorder, the owner and the clock keeps the
\* types of the rows, tasks and messages.
LEMMA TypeStep == DispatchTypes /\ [Next]_vars => DispatchTypes'
<1> SUFFICES ASSUME DispatchTypes, [Next]_vars PROVE DispatchTypes'
  OBVIOUS
<1> USE DEF DispatchTypes, TypeOK, Statuses, ContStatus, AttStatus, Evidence, control, rows,
            recorder
<1>1. ASSUME NEW a \in Attempts, GatewayStep(a) PROVE DispatchTypes'
  <2>1. CASE PrepareAttempt(a)
    BY <2>1 DEF PrepareAttempt
  <2>2. CASE BeginInvocation(a)
    BY <2>2 DEF BeginInvocation
  <2>3. CASE EndDispatch(a)
    BY <2>3 DEF EndDispatch
  <2>4. CASE ImportReply(a)
    <3>1. OutcomeOf(wire[a]) \in AttStatus
      BY <2>4 DEF ImportReply, OutcomeOf
    <3> QED BY <2>4, <3>1 DEF ImportReply
  <2> QED BY <1>1, <2>1, <2>2, <2>3, <2>4 DEF GatewayStep
<1>2. ASSUME NEW a \in Attempts, RecorderStep(a) PROVE DispatchTypes'
  <2>1. CASE AdmitExecution(a)
    BY <2>1 DEF AdmitExecution, Recorder!Accept
  <2>2. CASE RejectExecution(a)
    BY <2>2 DEF RejectExecution
  <2>3. CASE Execute(a)
    BY <2>3 DEF Execute, Recorder!Start, Recorder!Begin
  <2>4. CASE FinishExecution(a)
    BY <2>4 DEF FinishExecution, Recorder!Resolve, Recorder!Final
  <2> QED BY <1>2, <2>1, <2>2, <2>3, <2>4 DEF RecorderStep
<1>3. ASSUME NEW a \in Attempts, ResolveExpire(a) \/ Lapse(a) PROVE DispatchTypes'
  <2>1. CASE ResolveExpire(a)
    BY <2>1 DEF ResolveExpire
  <2>2. CASE Lapse(a)
    <3>1. live' \in [Attempts -> BOOLEAN]
      BY <2>2, TableType DEF Lapse
    <3> QED BY <2>2, <3>1 DEF Lapse
  <2> QED BY <1>3, <2>1, <2>2
<1>4. CASE RecorderCrash
  <2>1. \A a \in Attempts : (dead[a] \/ status[a] # "none") \in BOOLEAN
    OBVIOUS
  <2> QED BY <1>4, <2>1 DEF RecorderCrash
<1>5. CASE RequestStop \/ CompleteDrain \/ GlobalStop
  BY <1>5 DEF RequestStop, CompleteDrain, GlobalStop
<1>6. CASE Amend
  BY <1>6 DEF Amend
<1>7. CASE UNCHANGED vars
  BY <1>7 DEF vars
<1> QED
  BY <1>1, <1>2, <1>3, <1>4, <1>5, <1>6, <1>7 DEF Next

-----------------------------------------------------------------------------
(* The rows, the messages and the recorder agree. *)

\* What DispatchAgrees says of an attempt depends on these parts of the state.
LEMMA DispatchFrame ==
    ASSUME NEW b, DispatchAgrees(b),
           att'[b] = att[b], cont'[b] = cont[b], resv'[b] = resv[b], disp'[b] = disp[b],
           wire'[b] = wire[b], status'[b] = status[b], begun'[b] = begun[b]
    PROVE  DispatchAgrees(b)'
  BY DEF DispatchAgrees, BeforeBoundary, PastBoundary, WireAgrees, OutcomeBooked

\* Nothing has happened yet.
LEMMA AgreesInit == Init => \A a \in Attempts : DispatchAgrees(a)
  BY DEF Init, Recorder!Init, DispatchAgrees, BeforeBoundary, PastBoundary, WireAgrees,
         OutcomeBooked, Evidence

\* The gateway's steps keep the agreement: the boundary is crossed before the
\* request exists, and an import books the recorder's own status.
LEMMA AgreesGateway ==
    ASSUME DispatchTypes, \A b \in Attempts : DispatchAgrees(b),
           NEW a \in Attempts, GatewayStep(a) \/ ResolveExpire(a) \/ Lapse(a)
    PROVE  \A b \in Attempts : DispatchAgrees(b)'
<1> USE DEF control, rows, recorder
<1>1. ASSUME NEW b \in Attempts, b # a PROVE DispatchAgrees(b)'
  BY <1>1, DispatchFrame
  DEF DispatchTypes, TypeOK, GatewayStep, PrepareAttempt, BeginInvocation, EndDispatch, ImportReply,
      ResolveExpire, Lapse
<1>2. DispatchAgrees(a)'
  <2> USE DEF DispatchTypes, TypeOK, DispatchAgrees, BeforeBoundary, PastBoundary, WireAgrees,
              OutcomeBooked, Evidence
  <2>1. CASE PrepareAttempt(a)
    BY <2>1 DEF PrepareAttempt
  <2>2. CASE BeginInvocation(a)
    BY <2>2 DEF BeginInvocation
  <2>3. CASE EndDispatch(a)
    BY <2>3 DEF EndDispatch
  <2>4. CASE ImportReply(a)
    BY <2>4 DEF ImportReply, OutcomeOf
  <2>5. CASE ResolveExpire(a) \/ Lapse(a)
    BY <2>5 DEF ResolveExpire, Lapse
  <2> QED BY <2>1, <2>2, <2>3, <2>4, <2>5 DEF GatewayStep
<1> QED BY <1>1, <1>2

\* The recorder's steps keep it: it accepts only what is proven, and begins
\* only what it accepted.
LEMMA AgreesRecorder ==
    ASSUME DispatchTypes, \A b \in Attempts : DispatchAgrees(b),
           NEW a \in Attempts, RecorderStep(a)
    PROVE  \A b \in Attempts : DispatchAgrees(b)'
<1> USE DEF control, rows, recorder
<1>1. ASSUME NEW b \in Attempts, b # a PROVE DispatchAgrees(b)'
  BY <1>1, DispatchFrame
  DEF DispatchTypes, TypeOK, RecorderStep, AdmitExecution, RejectExecution, Execute, FinishExecution,
      Recorder!Accept, Recorder!Start, Recorder!Begin, Recorder!Resolve
<1>2. DispatchAgrees(a)'
  <2> USE DEF DispatchTypes, TypeOK, DispatchAgrees, BeforeBoundary, PastBoundary, WireAgrees,
              OutcomeBooked, Evidence
  <2>1. CASE AdmitExecution(a)
    BY <2>1 DEF AdmitExecution, Proven, Recorder!Accept
  <2>2. CASE RejectExecution(a)
    BY <2>2 DEF RejectExecution
  <2>3. CASE Execute(a)
    BY <2>3 DEF Execute, Recorder!Start, Recorder!Begin
  <2>4. CASE FinishExecution(a)
    BY <2>4 DEF FinishExecution, Recorder!Resolve, Recorder!Final
  <2> QED BY <2>1, <2>2, <2>3, <2>4 DEF RecorderStep
<1> QED BY <1>1, <1>2

\* So do the owner, a crash of the recorder and stuttering.
LEMMA AgreesControl ==
    ASSUME DispatchTypes, \A b \in Attempts : DispatchAgrees(b),
           RecorderCrash \/ RequestStop \/ CompleteDrain \/ GlobalStop \/ Amend \/ UNCHANGED vars
    PROVE  \A b \in Attempts : DispatchAgrees(b)'
<1> USE DEF control, rows, recorder, vars
<1> TAKE b \in Attempts
<1>1. CASE Amend
  BY <1>1 DEF Amend, DispatchTypes, TypeOK, DispatchAgrees, BeforeBoundary, PastBoundary, WireAgrees,
              OutcomeBooked
<1>2. CASE ~Amend
  BY <1>2, DispatchFrame DEF RecorderCrash, RequestStop, CompleteDrain, GlobalStop
<1> QED BY <1>1, <1>2

\* A drained delegation has no executing continuation, and none begins to
\* execute afterwards.
LEMMA DrainedStep == DispatchTypes /\ StoppedIsDrained /\ [Next]_vars => StoppedIsDrained'
<1> SUFFICES ASSUME DispatchTypes, StoppedIsDrained, [Next]_vars PROVE StoppedIsDrained'
  OBVIOUS
<1> USE DEF StoppedIsDrained, DispatchTypes, TypeOK, control, rows
<1>1. ASSUME NEW a \in Attempts, GatewayStep(a) \/ RecorderStep(a) \/ ResolveExpire(a) \/ Lapse(a)
      PROVE  StoppedIsDrained'
  <2>1. run' = run /\ \A b \in Attempts : cont'[b] = "executing" => cont[b] = "executing"
    BY <1>1 DEF GatewayStep, PrepareAttempt, BeginInvocation, EndDispatch, ImportReply, RecorderStep,
                AdmitExecution, RejectExecution, Execute, FinishExecution, ResolveExpire, Lapse
  <2> QED BY <2>1
<1>2. CASE RecorderCrash \/ RequestStop \/ CompleteDrain \/ GlobalStop \/ Amend
  BY <1>2 DEF RecorderCrash, RequestStop, CompleteDrain, GlobalStop, Amend
<1>3. CASE UNCHANGED vars
  BY <1>3 DEF vars
<1> QED BY <1>1, <1>2, <1>3 DEF Next

-----------------------------------------------------------------------------
(* The theorems. *)

\* The inductive invariant holds of ledger, gateway and recorder together.
THEOREM DispatchCorrect == Spec => []DispatchInvariant
<1>1. Init => DispatchInvariant
  BY TypeInit, AgreesInit DEF DispatchInvariant, DispatchTypes, StoppedIsDrained, Init
<1>2. DispatchInvariant /\ [Next]_vars => DispatchInvariant'
  <2> SUFFICES ASSUME DispatchInvariant, [Next]_vars PROVE DispatchInvariant'
    OBVIOUS
  <2>1. DispatchTypes /\ DispatchTypes'
    BY TypeStep DEF DispatchInvariant, DispatchTypes
  <2>2. \A b \in Attempts : DispatchAgrees(b)'
    BY <2>1, AgreesGateway, AgreesRecorder, AgreesControl DEF DispatchInvariant, Next
  <2>3. StoppedIsDrained'
    BY <2>1, DrainedStep DEF DispatchInvariant
  <2> QED BY <2>1, <2>2, <2>3 DEF DispatchInvariant, DispatchTypes
<1> QED BY <1>1, <1>2, PTL DEF Spec

\* Whatever stops, lapses or dies meanwhile, the recorder acts only on an
\* invocation the ledger has committed to, and its resources stay with the claim.
THEOREM BegunCorrect == Spec => []BegunIsInvoked
<1>1. DispatchInvariant => BegunIsInvoked
  BY DEF DispatchInvariant, TypeOK, AttStatus, DispatchAgrees, BeforeBoundary, PastBoundary,
         OutcomeBooked, BegunIsInvoked
<1> QED BY <1>1, DispatchCorrect, PTL

\* The outcome the ledger books is what the recorder journaled, and a failure
\* means that nothing was written.
THEOREM LedgerCorrect == Spec => []LedgerAgreesWithRecorder
<1>1. DispatchInvariant => LedgerAgreesWithRecorder
  BY DEF DispatchInvariant, DispatchAgrees, OutcomeBooked, WireAgrees, LedgerAgreesWithRecorder
<1> QED BY <1>1, DispatchCorrect, PTL

\* No effect begins once the stop of its delegation has drained, although the
\* recorder never looks at the run control.
THEOREM StopFenceCorrect == Spec => NoEffectAfterStop
<1>1. ASSUME DispatchInvariant, [Next]_vars
      PROVE  [\A a \in Attempts : begun'[a] # begun[a] => run # "stopped" /\ cont[a] = "executing"]_vars
  <2> SUFFICES ASSUME NEW a \in Attempts, begun'[a] # begun[a]
               PROVE  run # "stopped" /\ cont[a] = "executing"
    OBVIOUS
  <2>1. status[a] = "InvocationStarted"
    <3>1. PICK b \in Attempts : Execute(b)
      BY <1>1 DEF Next, vars, control, rows, recorder, GatewayStep, PrepareAttempt, BeginInvocation,
             EndDispatch, ImportReply, RecorderStep, AdmitExecution, RejectExecution,
             FinishExecution, ResolveExpire, Lapse, RecorderCrash, RequestStop, CompleteDrain,
             GlobalStop, Amend, Recorder!Accept, Recorder!Resolve
    <3> QED BY <1>1, <3>1 DEF Execute, Recorder!Start, Recorder!Begin, DispatchInvariant, TypeOK
  <2>2. cont[a] = "executing"
    BY <1>1, <2>1 DEF DispatchInvariant, TypeOK, AttStatus, DispatchAgrees, BeforeBoundary, PastBoundary,
                WireAgrees
  <2> QED BY <1>1, <2>2 DEF DispatchInvariant, StoppedIsDrained
<1> QED BY <1>1, DispatchCorrect, PTL DEF Spec, NoEffectAfterStop

=============================================================================
