------------------------- MODULE EffectRecorderProofs -------------------------
(***************************************************************************)
(* The recorder invokes an attempt at most once, for every set of attempts *)
(* and handlers, and every number of requests, crashes, failed appends and *)
(* edits.                                                                  *)
(***************************************************************************)
EXTENDS EffectRecorder, TLAPS

-----------------------------------------------------------------------------
(* The inductive invariant. *)

\* Phases in which a handler executes an attempt, and those past its start.
Executing == {"accept", "start", "invoke", "write", "record"}
Invoking == {"invoke", "write", "record"}

Executes(h, a) == hd[h].pc \in Executing /\ hd[h].att = a

\* Handlers that hold the mutex are the ones in the middle of their appends, and
\* a process that is down has no tasks and no index.
TasksAgree ==
    /\ \A h \in Handlers : hd[h].pc # "idle" => hd[h].att \in Attempts
    /\ \A h \in Handlers : hd[h].pc \in {"accept", "start", "sign"} <=> mutex = h
    /\ ~up => mem = <<>> /\ \A h \in Handlers : hd[h].pc = "idle"

\* What is indexed came from the file.
IndexIsOnDisk == \A i \in 1..Len(mem) : \E j \in 1..Len(disk) : disk[j] = mem[i]

\* A record of the attempt that no opening of the file cuts off: only a torn
\* frame and the one frame behind it are ever cut.
Survives(a) ==
    \E i \in 1..Len(disk) :
        disk[i].att = a /\ (i = Len(disk) => i = 1 \/ disk[i - 1] # Torn)

\* The attempt may have been invoked: by what was written, journaled or is
\* still being executed.
Begun(a) ==
    \/ writes[a] # 0
    \/ \E i \in 1..Len(disk) : disk[i].att = a /\ disk[i].kind # "Accepted"
    \/ \E h \in Handlers : hd[h].pc \in Invoking /\ hd[h].att = a

\* What may have been invoked is never forgotten.
BegunIsJournaled ==
    \A a \in Attempts : Begun(a) => Survives(a) /\ (up => ExecutionRecords(a) # {})

\* How far the journal is in each phase.
PhasesAgree ==
    \A h \in Handlers :
        /\ hd[h].pc = "accept" => ExecutionRecords(hd[h].att) = {}
        /\ hd[h].pc \in {"start", "sign"} => ExecutionRecords(hd[h].att) # {}
        /\ hd[h].pc = "start" => Len(disk) # 0 /\ disk[Len(disk)].att = hd[h].att

OneExecutor ==
    \A a \in Attempts, g, h \in Handlers : Executes(g, a) /\ Executes(h, a) => g = h

ExecutionEvidence(a) ==
    {i \in 1..Len(disk) : disk[i].att = a /\ disk[i].src = "execution" /\ disk[i].kind \in Evidence}

\* Writes, tasks and evidence of an execution.
WritesAgree ==
    /\ \A h \in Handlers :
         /\ hd[h].pc \in {"accept", "start", "invoke"} => writes[hd[h].att] = 0
         /\ hd[h].pc = "record" /\ hd[h].out = "Absent" => writes[hd[h].att] = 0
         /\ hd[h].pc \in Executing => ExecutionEvidence(hd[h].att) = {}
    /\ \A a \in Attempts : \A i \in ExecutionEvidence(a) :
         disk[i].kind = "Absent" => writes[a] = 0
    /\ \A a \in Attempts : writes[a] \in {0, 1}

OnceInvariant ==
    /\ TypeOK /\ TasksAgree /\ IndexIsOnDisk /\ BegunIsJournaled /\ PhasesAgree
    /\ OneExecutor /\ WritesAgree

-----------------------------------------------------------------------------
(* Sequences and records. *)

\* What Append does to a journal.
LEMMA AppendFacts ==
    ASSUME NEW S, NEW s \in Seq(S), NEW x \in S
    PROVE  /\ Append(s, x) \in Seq(S)
           /\ Len(Append(s, x)) = Len(s) + 1
           /\ \A i \in 1..Len(s) : Append(s, x)[i] = s[i]
           /\ Append(s, x)[Len(s) + 1] = x
  OBVIOUS

\* What cutting a tail does to a journal.
LEMMA CutFacts ==
    ASSUME NEW S, NEW s \in Seq(S), NEW n \in 0..Len(s)
    PROVE  /\ SubSeq(s, 1, n) \in Seq(S)
           /\ Len(SubSeq(s, 1, n)) = n
           /\ \A i \in 1..n : SubSeq(s, 1, n)[i] = s[i]
  OBVIOUS

\* A torn frame is no record of any attempt.
LEMMA TornFacts == Torn.att = None /\ Torn.seq = 0 /\ Torn \notin Record
  BY DEF Torn, Record

\* What a handler appends is a whole record of its attempt; an execution that
\* appends evidence is past its start.
LEMMA PendingFacts ==
    ASSUME TypeOK, NEW h \in Handlers, hd[h].att \in Attempts
    PROVE  /\ PendingRecord(h) \in Record
           /\ PendingRecord(h).att = hd[h].att
           /\ PendingRecord(h).seq = Len(mem) + 1
           /\ hd[h].pc = "accept" => PendingRecord(h).kind = "Accepted"
           /\ hd[h].pc = "start" => PendingRecord(h).kind = "InvocationStarted"
           /\ hd[h].pc \notin {"accept", "start"} => PendingRecord(h).kind = hd[h].out
           /\ PendingRecord(h).src = IF hd[h].pc = "sign" THEN "reconciliation" ELSE "execution"
<1>1. Len(mem) \in Nat /\ hd[h].out \in Evidence
  BY DEF TypeOK
<1>2. Len(mem) + 1 \in Nat \ {0}
  BY <1>1
<1> QED BY <1>1, <1>2 DEF PendingRecord, NewRecord, Record, Kind, Evidence

-----------------------------------------------------------------------------
(* Type correctness. *)

HandlerState == [pc: HandlerPc, att: Attempts \cup {None}, out: Evidence]

\* A handler's step gives it another state of its type.
LEMMA HandlerType ==
    ASSUME TypeOK, NEW h \in Handlers, NEW r \in HandlerState, hd' = [hd EXCEPT ![h] = r]
    PROVE  hd' \in [Handlers -> HandlerState]
  BY DEF TypeOK, HandlerState

\* The three ways a handler moves on.
LEMMA MoveFacts ==
    ASSUME TypeOK, NEW h \in Handlers
    PROVE  /\ \A pc \in HandlerPc : Goto(h, pc) =>
                hd' = [hd EXCEPT ![h] = [pc |-> pc, att |-> hd[h].att, out |-> hd[h].out]]
           /\ \A pc \in HandlerPc, out \in Evidence : Decide(h, pc, out) =>
                hd' = [hd EXCEPT ![h] = [pc |-> pc, att |-> hd[h].att, out |-> out]]
           /\ Finish(h) => hd' = [hd EXCEPT ![h] = IdleHandler]
           /\ IdleHandler \in HandlerState
           /\ \A pc \in HandlerPc, a \in Attempts \cup {None}, out \in Evidence :
                [pc |-> pc, att |-> a, out |-> out] \in HandlerState
           /\ hd[h].att \in Attempts \cup {None} /\ hd[h].out \in Evidence /\ hd[h].pc \in HandlerPc
<1>1. hd[h] \in HandlerState
  BY DEF TypeOK, HandlerState
<1>2. hd[h].att \in Attempts \cup {None} /\ hd[h].out \in Evidence /\ hd[h].pc \in HandlerPc
  BY <1>1 DEF HandlerState
<1>3. IdleHandler \in HandlerState
  BY DEF IdleHandler, HandlerState, HandlerPc, Evidence
<1>4. ASSUME NEW pc \in HandlerPc, Goto(h, pc)
      PROVE  hd' = [hd EXCEPT ![h] = [pc |-> pc, att |-> hd[h].att, out |-> hd[h].out]]
  <2>1. [hd[h] EXCEPT !.pc = pc] = [pc |-> pc, att |-> hd[h].att, out |-> hd[h].out]
    BY <1>1 DEF HandlerState
  <2> QED BY <2>1, <1>4 DEF Goto
<1> QED BY <1>2, <1>3, <1>4 DEF Finish, Decide, HandlerState

\* The types, and which tasks hold the mutex.
LEMMA TasksInit == Init => TypeOK /\ TasksAgree
  BY RecorderAssumption
  DEF Init, TypeOK, TasksAgree, IdleHandler, HandlerPc, Evidence, Authority, FileState

\* What a client was told has its type.
LEMMA TellType ==
    ASSUME TypeOK, NEW a \in Attempts, NEW kind, Tell(a, kind)
    PROVE  told' \in [Attempts -> SUBSET {"Present", "Absent"}]
  BY DEF TypeOK, Tell

\* A handler's own steps.
LEMMA TasksHandler ==
    ASSUME TypeOK, TasksAgree, NEW h \in Handlers, HandlerStep(h)
    PROVE  TypeOK' /\ TasksAgree'
<1> USE DEF environment, journal, history
<1>1. hd[h].att \in Attempts /\ up /\ Len(mem) \in Nat /\ h # None
  BY RecorderAssumption
  DEF TasksAgree, TypeOK, HandlerStep, AdmitReplay, AdmitReject, AdmitFresh, AppendAccepted,
      AppendStarted, InvokeInspect, BeginWrite, EndWrite, RecordTerminal, ReconcileReply,
      ReconcileInspect, SignReconciliation
<1>2. PendingRecord(h) \in Record
  BY <1>1, PendingFacts
<1>3. AppendPending(h) => disk' \in Seq(Record \cup {Torn}) /\ mem' \in Seq(Record)
  BY <1>2 DEF AppendPending, TypeOK
<1>4. HandlerPc = {"idle", "admit", "accept", "start", "invoke", "write", "record", "inspect", "sign"}
      /\ Evidence = {"Present", "Absent", "Unknown"}
  BY DEF HandlerPc, Evidence
<1> DEFINE r(pc, out) == [pc |-> pc, att |-> hd[h].att, out |-> out]
<1>5. \A pc \in HandlerPc, out \in Evidence : r(pc, out) \in HandlerState
  BY <1>1 DEF HandlerState
<1>6. ASSUME NEW n \in HandlerState, hd' = [hd EXCEPT ![h] = n], n.pc # "idle" => n.att \in Attempts,
             up' = up, mutex' \in Handlers \cup {None},
             n.pc \in {"accept", "start", "sign"} <=> mutex' = h,
             mutex' = mutex \/ (mutex \in {h, None} /\ mutex' \in {h, None})
      PROVE  TasksAgree' /\ hd' \in [Handlers -> HandlerState]
  <2>1. hd' \in [Handlers -> HandlerState] /\ hd'[h] = n /\ \A g \in Handlers \ {h} : hd'[g] = hd[g]
    BY <1>6, HandlerType DEF TypeOK
  <2>2. \A g \in Handlers \ {h} : mutex' = g <=> mutex = g
    BY <1>6, RecorderAssumption
  <2> QED BY <1>1, <1>6, <2>1, <2>2 DEF TasksAgree
<1>7. CASE AdmitReplay(h) \/ AdmitReject(h) \/ ReconcileReply(h)
  <2>1. hd' = [hd EXCEPT ![h] = IdleHandler] /\ mutex = None
    BY <1>7 DEF AdmitReplay, AdmitReject, ReconcileReply, Finish
  <2>2. TasksAgree' /\ hd' \in [Handlers -> HandlerState]
    BY <1>1, <1>6, <1>7, <2>1, MoveFacts DEF AdmitReplay, AdmitReject, ReconcileReply, IdleHandler
  <2>3. told' \in [Attempts -> SUBSET {"Present", "Absent"}]
    BY <1>1, <1>7, TellType DEF AdmitReplay, AdmitReject, ReconcileReply, TypeOK
  <2> QED BY <1>7, <2>2, <2>3 DEF AdmitReplay, AdmitReject, ReconcileReply, TypeOK, HandlerState
<1>8. CASE AdmitFresh(h) \/ AppendAccepted(h) \/ AppendStarted(h)
  <2>0. hd[h].out \in Evidence
    BY MoveFacts
  <2>1. PICK pc \in {"accept", "start", "invoke"} :
           /\ hd' = [hd EXCEPT ![h] = r(pc, hd[h].out)]
           /\ mutex' = h <=> pc # "invoke"
           /\ mutex' = None <=> pc = "invoke"
    <3>1. CASE AdmitFresh(h)
      BY <1>1, <1>4, <3>1, MoveFacts DEF AdmitFresh
    <3>2. CASE AppendAccepted(h)
      <4>1. mutex' = h
        BY <3>2 DEF AppendAccepted, TasksAgree
      <4> QED BY <1>1, <1>4, <3>2, <4>1, MoveFacts DEF AppendAccepted
    <3>3. CASE AppendStarted(h)
      BY <1>1, <1>4, <3>3, MoveFacts DEF AppendStarted
    <3> QED BY <1>8, <3>1, <3>2, <3>3
  <2>2. r(pc, hd[h].out) \in HandlerState
    BY <1>4, <1>5, <2>0
  <2>3. mutex \in {h, None}
    BY <1>8 DEF AdmitFresh, AppendAccepted, AppendStarted, TasksAgree
  <2>4. up' = up
    BY <1>8 DEF AdmitFresh, AppendAccepted, AppendStarted
  <2>5. TasksAgree' /\ hd' \in [Handlers -> HandlerState]
    BY <1>1, <1>6, <2>1, <2>2, <2>3, <2>4
  <2> QED BY <1>3, <1>8, <2>1, <2>5
          DEF AdmitFresh, AppendAccepted, AppendStarted, TypeOK, HandlerState
<1>9. CASE InvokeInspect(h) \/ BeginWrite(h) \/ EndWrite(h)
  <2>1. mutex # h /\ mutex' = mutex /\ up' = up
    BY <1>1, <1>9 DEF InvokeInspect, BeginWrite, EndWrite, TasksAgree
  <2>2. PICK pc \in {"write", "record"}, out \in Evidence : hd' = [hd EXCEPT ![h] = r(pc, out)]
    BY <1>4, <1>9, MoveFacts DEF InvokeInspect, BeginWrite, EndWrite, Decide
  <2>3. TasksAgree' /\ hd' \in [Handlers -> HandlerState]
    BY <1>1, <1>4, <1>5, <1>6, <2>1, <2>2 DEF TypeOK
  <2>4. file' \in [Attempts -> FileState] /\ writes' \in [Attempts -> Nat]
    <3>1. CASE InvokeInspect(h)
      BY <3>1 DEF InvokeInspect, TypeOK
    <3>2. CASE BeginWrite(h)
      BY <1>1, <3>2 DEF BeginWrite, TypeOK, FileState
    <3>3. CASE EndWrite(h)
      BY <1>1, <3>3 DEF EndWrite, TypeOK, FileState
    <3> QED BY <1>9, <3>1, <3>2, <3>3
  <2> QED BY <1>9, <2>3, <2>4 DEF InvokeInspect, BeginWrite, EndWrite, TypeOK, HandlerState
<1>10. CASE RecordTerminal(h) \/ SignReconciliation(h)
  <2>1. hd' = [hd EXCEPT ![h] = IdleHandler] /\ mutex \in {h, None} /\ mutex' = None
    BY <1>1, <1>10 DEF RecordTerminal, SignReconciliation, Finish, TasksAgree
  <2>2. TasksAgree' /\ hd' \in [Handlers -> HandlerState]
    BY <1>1, <1>6, <1>10, <2>1, MoveFacts DEF RecordTerminal, SignReconciliation, IdleHandler
  <2>3. told' \in [Attempts -> SUBSET {"Present", "Absent"}]
    BY <1>1, <1>10, TellType DEF RecordTerminal, SignReconciliation, TypeOK
  <2> QED BY <1>3, <1>10, <2>2, <2>3 DEF RecordTerminal, SignReconciliation, TypeOK, HandlerState
<1>11. CASE ReconcileInspect(h)
  <2> DEFINE o == IF Latest(hd[h].att).kind = "Accepted" THEN "Absent" ELSE Inspected(file[hd[h].att])
  <2>0. o \in Evidence
    BY <1>1 DEF Inspected, TypeOK, FileState, Evidence
  <2>1. PICK out \in Evidence : hd' = [hd EXCEPT ![h] = r("sign", out)]
    BY <1>11, <2>0 DEF ReconcileInspect, Decide
  <2>2. mutex = None /\ mutex' = h /\ up' = up
    BY <1>11 DEF ReconcileInspect
  <2>3. TasksAgree' /\ hd' \in [Handlers -> HandlerState]
    BY <1>1, <1>4, <1>5, <1>6, <2>1, <2>2
  <2> QED BY <1>11, <2>3 DEF ReconcileInspect, TypeOK, HandlerState
<1> QED BY <1>7, <1>8, <1>9, <1>10, <1>11 DEF HandlerStep

\* The use of a bound is counted.
LEMMA UsedType ==
    ASSUME NEW u \in [requests: Nat, crashes: Nat, failures: Nat, edits: Nat]
    PROVE  /\ [u EXCEPT !.requests = @ + 1] \in [requests: Nat, crashes: Nat, failures: Nat, edits: Nat]
           /\ [u EXCEPT !.crashes = @ + 1] \in [requests: Nat, crashes: Nat, failures: Nat, edits: Nat]
           /\ [u EXCEPT !.failures = @ + 1] \in [requests: Nat, crashes: Nat, failures: Nat, edits: Nat]
           /\ [u EXCEPT !.edits = @ + 1] \in [requests: Nat, crashes: Nat, failures: Nat, edits: Nat]
  OBVIOUS

\* The file grows by a whole or a torn frame.
LEMMA GrowType ==
    ASSUME TypeOK, NEW x \in Record \cup {Torn}
    PROVE  Append(disk, x) \in Seq(Record \cup {Torn})
  BY AppendFacts DEF TypeOK

\* A crash leaves the file alone or adds one frame of an append under way.
LEMMA CrashFacts ==
    ASSUME TypeOK, TasksAgree, Crash
    PROVE  \/ disk' = disk
           \/ \E h \in Handlers, x \in Record \cup {Torn} :
                Appending(h) /\ x \in {Torn, PendingRecord(h)} /\ disk' = Append(disk, x)
<1>1. \A h \in Handlers : Appending(h) => PendingRecord(h) \in Record
  BY PendingFacts DEF Appending, TasksAgree
<1>2. \/ disk' = disk
      \/ \E h \in Handlers : Appending(h) /\ disk' \in {Append(disk, Torn), Append(disk, PendingRecord(h))}
  BY DEF Crash
<1> QED BY <1>1, <1>2

\* Requests, failures, restarts and the environment.
OtherStep ==
    \/ \E h \in Handlers : FailAppend(h)
    \/ \E h \in Handlers, a \in Attempts : ReceiveExecute(h, a) \/ ReceiveReconcile(h, a)
    \/ \E a \in Attempts : QueryOnly(a) \/ Revoke(a) \/ Edit(a)
    \/ Crash \/ Open \/ UNCHANGED vars

\* They keep the types and the tasks.
LEMMA TasksOther ==
    ASSUME TypeOK, TasksAgree, OtherStep
    PROVE  TypeOK' /\ TasksAgree'
<1> USE DEF environment, journal, history
<1>1. ASSUME NEW h \in Handlers, FailAppend(h) PROVE TypeOK' /\ TasksAgree'
  <2>1. hd[h].att \in Attempts /\ h # None
    BY <1>1, RecorderAssumption DEF FailAppend, Appending, TasksAgree
  <2>2. disk' \in Seq(Record \cup {Torn})
    <3>1. PendingRecord(h) \in Record
      BY <2>1, PendingFacts
    <3> QED BY <1>1, <3>1, GrowType DEF FailAppend, TypeOK
  <2>3. hd' \in [Handlers -> HandlerState] /\ hd'[h].pc = "idle" /\ \A g \in Handlers \ {h} : hd'[g] = hd[g]
    BY <1>1, HandlerType, MoveFacts DEF FailAppend, TypeOK, Finish, IdleHandler
  <2>4. mutex' # h /\ mutex' \in Handlers \cup {None} /\ \A g \in Handlers \ {h} : mutex' = g <=> mutex = g
    BY <1>1, <2>1, RecorderAssumption DEF FailAppend, TypeOK
  <2>5. TasksAgree'
    BY <1>1, <2>3, <2>4 DEF FailAppend, TasksAgree
  <2>6. used' \in [requests: Nat, crashes: Nat, failures: Nat, edits: Nat]
    BY <1>1, UsedType DEF FailAppend, TypeOK
  <2> QED BY <1>1, <2>2, <2>3, <2>4, <2>5, <2>6 DEF FailAppend, TypeOK, HandlerState
<1>2. ASSUME NEW h \in Handlers, NEW a \in Attempts, ReceiveExecute(h, a) \/ ReceiveReconcile(h, a)
      PROVE  TypeOK' /\ TasksAgree'
  <2>1. PICK pc \in {"admit", "inspect"} :
           hd' = [hd EXCEPT ![h] = [pc |-> pc, att |-> a, out |-> "Unknown"]]
    BY <1>2 DEF ReceiveExecute, ReceiveReconcile
  <2>2. [pc |-> pc, att |-> a, out |-> "Unknown"] \in HandlerState
    BY DEF HandlerState, HandlerPc, Evidence
  <2>3. hd' \in [Handlers -> HandlerState] /\ hd'[h].pc = pc /\ hd'[h].att = a
        /\ \A g \in Handlers \ {h} : hd'[g] = hd[g]
    BY <2>1, <2>2, HandlerType DEF TypeOK
  <2>4. up /\ up' = up /\ mutex' = mutex /\ mutex # h
    BY <1>2 DEF ReceiveExecute, ReceiveReconcile, TasksAgree
  <2>5. TasksAgree'
    BY <2>3, <2>4 DEF TasksAgree
  <2>6. used' \in [requests: Nat, crashes: Nat, failures: Nat, edits: Nat]
    BY <1>2, UsedType DEF ReceiveExecute, ReceiveReconcile, TypeOK
  <2> QED BY <1>2, <2>3, <2>5, <2>6 DEF ReceiveExecute, ReceiveReconcile, TypeOK, HandlerState
<1>3. ASSUME NEW a \in Attempts, QueryOnly(a) \/ Revoke(a) \/ Edit(a) PROVE TypeOK' /\ TasksAgree'
  <2>1. TasksAgree'
    BY <1>3 DEF QueryOnly, Revoke, Edit, TasksAgree
  <2>2. CASE QueryOnly(a)
    BY <2>1, <2>2, TellType DEF QueryOnly, TypeOK
  <2>3. CASE Revoke(a)
    BY <2>1, <2>3 DEF Revoke, TypeOK, Authority
  <2>4. CASE Edit(a)
    <3>1. used' \in [requests: Nat, crashes: Nat, failures: Nat, edits: Nat]
      BY <2>4, UsedType DEF Edit, TypeOK
    <3>2. file' \in [Attempts -> FileState]
      BY <2>4 DEF Edit, TypeOK
    <3> QED BY <2>1, <2>4, <3>1, <3>2 DEF Edit, TypeOK
  <2> QED BY <1>3, <2>2, <2>3, <2>4
<1>4. CASE Crash
  <2>1. \A h \in Handlers : Appending(h) => PendingRecord(h) \in Record
    BY PendingFacts DEF Appending, TasksAgree
  <2>2. disk' \in Seq(Record \cup {Torn})
    <3>1. disk' = disk \/ \E x \in Record \cup {Torn} : disk' = Append(disk, x)
      BY <1>4, CrashFacts
    <3> QED BY <3>1, GrowType DEF TypeOK
  <2>3. hd' \in [Handlers -> HandlerState] /\ \A h \in Handlers : hd'[h].pc = "idle"
    BY <1>4, MoveFacts DEF Crash, IdleHandler
  <2>4. mutex' = None /\ mem' = <<>> /\ up' = FALSE
    BY <1>4 DEF Crash
  <2>5. TasksAgree'
    BY <2>3, <2>4, RecorderAssumption DEF TasksAgree
  <2>6. used' \in [requests: Nat, crashes: Nat, failures: Nat, edits: Nat]
    BY <1>4, UsedType DEF Crash, TypeOK
  <2>7. mem' \in Seq(Record)
    BY <2>4
  <2> QED BY <1>4, <2>2, <2>3, <2>4, <2>5, <2>6, <2>7 DEF Crash, TypeOK, HandlerState
<1>5. CASE Open
  <2>1. PICK n \in 0..Len(disk) :
           (\A i \in 1..n : i \notin Unreadable) /\ mem' = SubSeq(disk, 1, n) /\ disk' = SubSeq(disk, 1, n)
    BY <1>5 DEF Open
  <2>2. disk \in Seq(Record \cup {Torn})
    BY DEF TypeOK
  <2>3. disk' \in Seq(Record \cup {Torn}) /\ Len(mem') = n /\ \A i \in 1..n : mem'[i] = disk[i]
    BY <2>1, <2>2, CutFacts
  <2>4. \A i \in 1..n : disk[i] \in Record
    <3> SUFFICES ASSUME NEW i \in 1..n PROVE disk[i] \in Record
      OBVIOUS
    <3>1. i \in 1..Len(disk) /\ i # 0 /\ disk[i].seq = i
      BY <2>1, <2>2 DEF Unreadable
    <3> QED BY <3>1, <2>2, TornFacts
  <2>5. mem' \in Seq(Record)
    BY <2>1, <2>2, <2>4
  <2>6. TasksAgree'
    BY <1>5 DEF Open, TasksAgree
  <2> QED BY <1>5, <2>3, <2>5, <2>6 DEF Open, TypeOK
<1>6. CASE UNCHANGED vars
  BY <1>6 DEF vars, TypeOK, TasksAgree
<1> QED BY <1>1, <1>2, <1>3, <1>4, <1>5, <1>6 DEF OtherStep

-----------------------------------------------------------------------------
(* What may have been invoked is never forgotten, and has one executor. *)

\* The parts of the invariant that depend on the journal alone.
LEMMA JournalFrame ==
    ASSUME disk' = disk, mem' = mem
    PROVE  /\ \A a : ExecutionRecords(a)' = ExecutionRecords(a)
           /\ \A a : Survives(a)' = Survives(a)
           /\ \A a : ExecutionEvidence(a)' = ExecutionEvidence(a)
           /\ IndexIsOnDisk => IndexIsOnDisk'
  BY DEF ExecutionRecords, Survives, ExecutionEvidence, IndexIsOnDisk

OnceParts == IndexIsOnDisk /\ BegunIsJournaled /\ PhasesAgree /\ OneExecutor /\ WritesAgree

\* A task that leaves, waits or begins to wait changes nothing the journal
\* has to account for.
LEMMA OnceQuiet ==
    ASSUME TypeOK, TasksAgree, OnceParts, disk' = disk, mem' = mem, up' = up, writes' = writes,
           \A g \in Handlers : hd'[g] = hd[g] \/ hd'[g].pc \in {"idle", "admit", "inspect"}
    PROVE  OnceParts'
<1>1. IndexIsOnDisk'
  BY JournalFrame DEF OnceParts
<1>2. BegunIsJournaled'
  BY JournalFrame DEF OnceParts, BegunIsJournaled, Begun, Invoking
<1>3. PhasesAgree'
  BY JournalFrame DEF OnceParts, PhasesAgree
<1>4. OneExecutor'
  BY DEF OnceParts, OneExecutor, Executes, Executing
<1>5. WritesAgree'
  BY JournalFrame DEF OnceParts, WritesAgree, Executing
<1> QED BY <1>1, <1>2, <1>3, <1>4, <1>5 DEF OnceParts

\* A handler that takes up an attempt nobody executes, or goes on with its own.
LEMMA OnceForward ==
    ASSUME TypeOK, TasksAgree, OnceParts, disk' = disk, mem' = mem, up, up' = up,
           NEW h \in Handlers, \A g \in Handlers \ {h} : hd'[g] = hd[g],
           hd[h].att \in Attempts, hd'[h].att = hd[h].att,
           \/ /\ hd'[h].pc = "accept" /\ writes' = writes /\ mutex = None
              /\ ExecutionRecords(hd[h].att) = {}
           \/ /\ hd[h].pc \in {"invoke", "write"} /\ hd'[h].pc = "record" /\ writes' = writes
              /\ hd'[h].out = "Absent" => hd[h].pc = "invoke"
           \/ /\ hd[h].pc = "invoke" /\ hd'[h].pc = "write"
              /\ writes' = [writes EXCEPT ![hd[h].att] = @ + 1]
           \/ /\ hd'[h].pc = "sign" /\ writes' = writes
              /\ ExecutionRecords(hd[h].att) # {}
    PROVE  OnceParts'
<1> DEFINE a == hd[h].att
<1>0. writes \in [Attempts -> Nat]
  BY DEF TypeOK
<1>1. IndexIsOnDisk'
  BY JournalFrame DEF OnceParts
<1>2. \A b \in Attempts : Begun(b)' => Begun(b)
  <2> SUFFICES ASSUME NEW b \in Attempts, Begun(b)', ~Begun(b) PROVE FALSE
    OBVIOUS
  <2>1. writes'[b] = 0
    BY <1>0 DEF Begun, Invoking
  <2>2. ~ \E i \in 1..Len(disk') : disk'[i].att = b /\ disk'[i].kind # "Accepted"
    BY DEF Begun
  <2>3. \A g \in Handlers : ~(hd'[g].pc \in Invoking /\ hd'[g].att = b)
    BY DEF Begun, Invoking
  <2> QED BY <2>1, <2>2, <2>3 DEF Begun
<1>3. BegunIsJournaled'
  BY <1>2, JournalFrame DEF OnceParts, BegunIsJournaled
<1>4. PhasesAgree'
  BY JournalFrame DEF OnceParts, PhasesAgree
<1>5. CASE hd'[h].pc = "accept"
  <2>1. \A g \in Handlers \ {h} : hd[g].att = a => hd[g].pc \notin Executing
    <3> SUFFICES ASSUME NEW g \in Handlers \ {h}, hd[g].att = a, hd[g].pc \in Executing PROVE FALSE
      OBVIOUS
    <3>1. hd[g].pc \notin {"accept", "start"}
      BY <1>5, RecorderAssumption DEF TasksAgree
    <3>2. Begun(a)
      BY <3>1 DEF Begun, Invoking, Executing
    <3> QED BY <1>5, <3>2 DEF OnceParts, BegunIsJournaled
  <2>2. ~Begun(a)
    BY <1>5 DEF OnceParts, BegunIsJournaled
  <2>3. writes[a] = 0 /\ ExecutionEvidence(a) = {}
    BY <2>2 DEF Begun, ExecutionEvidence, Evidence
  <2>4. OneExecutor'
    BY <2>1 DEF OnceParts, OneExecutor, Executes
  <2>5. WritesAgree'
    BY <1>5, <2>3, JournalFrame DEF OnceParts, WritesAgree
  <2> QED BY <1>1, <1>3, <1>4, <2>4, <2>5 DEF OnceParts
<1>6. CASE hd'[h].pc = "record"
  <2>1. OneExecutor'
    BY <1>6 DEF OnceParts, OneExecutor, Executes, Executing
  <2>2. WritesAgree'
    BY <1>6, JournalFrame DEF OnceParts, WritesAgree, Executing
  <2> QED BY <1>1, <1>3, <1>4, <2>1, <2>2 DEF OnceParts
<1>7. CASE hd'[h].pc = "write"
  <2>1. OneExecutor'
    BY <1>7 DEF OnceParts, OneExecutor, Executes, Executing
  <2>2. writes[a] = 0 /\ ExecutionEvidence(a) = {} /\ writes'[a] = 1
        /\ \A b \in Attempts \ {a} : writes'[b] = writes[b]
    BY <1>0, <1>7 DEF OnceParts, WritesAgree, Executing
  <2>3. \A g \in Handlers \ {h} : hd[g].att = a => hd[g].pc \notin Executing
    BY <1>7 DEF OnceParts, OneExecutor, Executes, Executing
  <2>4. ASSUME NEW g \in Handlers
        PROVE  /\ hd'[g].pc \in {"accept", "start", "invoke"} => writes'[hd'[g].att] = 0
               /\ hd'[g].pc = "record" /\ hd'[g].out = "Absent" => writes'[hd'[g].att] = 0
               /\ hd'[g].pc \in Executing => ExecutionEvidence(hd[g].att)' = {}
    <3>1. CASE g = h
      BY <1>7, <2>2, <3>1, JournalFrame
    <3>2. CASE g # h
      BY <2>2, <2>3, <3>2, JournalFrame DEF OnceParts, WritesAgree, Executing, TasksAgree
    <3> QED BY <3>1, <3>2
  <2>5. WritesAgree'
    BY <2>2, <2>4, JournalFrame DEF OnceParts, WritesAgree
  <2> QED BY <1>1, <1>3, <1>4, <2>1, <2>5 DEF OnceParts
<1>8. CASE hd'[h].pc = "sign"
  <2>1. OneExecutor'
    BY <1>8 DEF OnceParts, OneExecutor, Executes, Executing
  <2>2. WritesAgree'
    BY <1>8, JournalFrame DEF OnceParts, WritesAgree, Executing
  <2> QED BY <1>1, <1>3, <1>4, <2>1, <2>2 DEF OnceParts
<1> QED BY <1>5, <1>6, <1>7, <1>8

\* One more frame at the end of the file.
LEMMA GrowFacts ==
    ASSUME TypeOK, NEW x \in Record \cup {Torn}, disk' = Append(disk, x)
    PROVE  /\ Len(disk) \in Nat /\ Len(disk') = Len(disk) + 1
           /\ \A i \in 1..Len(disk) : disk'[i] = disk[i]
           /\ disk'[Len(disk) + 1] = x
           /\ \A i \in 1..Len(disk') : i \in 1..Len(disk) \/ i = Len(disk) + 1
           /\ \A a : (\E i \in 1..Len(disk) : disk[i].att = a) => Survives(a)'
<1>1. disk \in Seq(Record \cup {Torn}) /\ Len(disk) \in Nat
  BY DEF TypeOK
<1>2. Len(disk') = Len(disk) + 1 /\ disk'[Len(disk) + 1] = x /\ \A i \in 1..Len(disk) : disk'[i] = disk[i]
  BY <1>1, AppendFacts
<1>3. \A i \in 1..Len(disk') : i \in 1..Len(disk) \/ i = Len(disk) + 1
  BY <1>1, <1>2
<1>4. ASSUME NEW a, NEW i \in 1..Len(disk), disk[i].att = a PROVE Survives(a)'
  <2>1. i \in 1..Len(disk') /\ i # Len(disk') /\ disk'[i].att = a
    BY <1>1, <1>2, <1>4
  <2> QED BY <2>1 DEF Survives
<1> QED BY <1>1, <1>2, <1>3, <1>4

\* Every record but the first of an attempt follows one that is on disk and
\* indexed.
LEMMA PendingKnown ==
    ASSUME TypeOK, TasksAgree, OnceParts, NEW h \in Handlers, hd[h].pc \in {"start", "sign", "record"}
    PROVE  /\ ExecutionRecords(hd[h].att) # {}
           /\ \E i \in 1..Len(disk) : disk[i].att = hd[h].att
<1>1. ExecutionRecords(hd[h].att) # {}
  BY DEF OnceParts, PhasesAgree, BegunIsJournaled, Begun, Invoking, TasksAgree
<1>2. PICK i \in 1..Len(mem) : mem[i].att = hd[h].att
  BY <1>1 DEF ExecutionRecords
<1> QED BY <1>1, <1>2 DEF OnceParts, IndexIsOnDisk

\* Nobody else is between its appends while h appends.
LEMMA OneAppends ==
    ASSUME TasksAgree, NEW h \in Handlers, Appending(h), NEW g \in Handlers, g # h
    PROVE  hd[g].pc \notin {"accept", "start", "sign"}
  BY RecorderAssumption DEF TasksAgree, Appending

\* The attempts that may have been invoked after one more frame.
LEMMA BegunGrows ==
    ASSUME TypeOK, TasksAgree, OnceParts, NEW h \in Handlers, hd[h].pc # "idle",
           NEW x \in Record \cup {Torn}, x = Torn \/ x.att = hd[h].att,
           x # Torn /\ x.kind # "Accepted" => hd[h].pc \in {"start", "sign", "record"},
           disk' = Append(disk, x), writes' = writes,
           \A g \in Handlers : hd'[g].pc \in Invoking =>
                /\ hd'[g].att = hd[g].att
                /\ hd[g].pc \in Invoking \/ (g = h /\ hd[g].pc = "start"),
           NEW b \in Attempts, Begun(b)'
    PROVE  Survives(b)' /\ (up => ExecutionRecords(b) # {})
<1>1. CASE Begun(b)
  BY <1>1, GrowFacts DEF OnceParts, BegunIsJournaled, Survives
<1>2. CASE ~Begun(b)
  <2>1. hd[h].att = b /\ hd[h].pc \in {"start", "sign", "record"}
    <3>1. CASE \E i \in 1..Len(disk') : disk'[i].att = b /\ disk'[i].kind # "Accepted"
      <4>1. x.att = b /\ x.kind # "Accepted"
        BY <1>2, <3>1, GrowFacts DEF Begun
      <4>2. x # Torn
        BY <4>1, TornFacts, RecorderAssumption
      <4> QED BY <4>1, <4>2
    <3>2. CASE \E g \in Handlers : hd'[g].pc \in Invoking /\ hd'[g].att = b
      BY <1>2, <3>2 DEF Begun
    <3> QED BY <1>2, <3>1, <3>2 DEF Begun
  <2> QED BY <2>1, PendingKnown, GrowFacts
<1> QED BY <1>1, <1>2

\* Evidence of executions after one more frame.
LEMMA EvidenceGrows ==
    ASSUME TypeOK, NEW x \in Record \cup {Torn}, disk' = Append(disk, x), NEW a \in Attempts
    PROVE  \A i \in ExecutionEvidence(a)' :
              \/ i \in ExecutionEvidence(a) /\ disk'[i] = disk[i]
              \/ x # Torn /\ x.att = a /\ x.src = "execution" /\ x.kind \in Evidence /\ disk'[i] = x
  BY GrowFacts, TornFacts, RecorderAssumption DEF ExecutionEvidence

\* An append that fails, or that a crash interrupts, ends the task that made it.
LEMMA OnceLost ==
    ASSUME TypeOK, TasksAgree, OnceParts, writes' = writes,
           NEW h \in Handlers, Appending(h), hd'[h].pc = "idle",
           NEW x \in Record \cup {Torn}, x \in {Torn, PendingRecord(h)}, disk' = Append(disk, x),
           \A g \in Handlers : hd'[g] = hd[g] \/ hd'[g].pc = "idle",
           (mem' = mem /\ up' = up) \/ (mem' = <<>> /\ up' = FALSE /\ \A g \in Handlers : hd'[g].pc = "idle")
    PROVE  OnceParts'
<1>1. hd[h].pc # "idle" /\ hd[h].att \in Attempts
  BY DEF Appending, TasksAgree
<1>2. x # Torn => /\ x.att = hd[h].att
                  /\ x.kind # "Accepted" => hd[h].pc \in {"start", "sign", "record"}
                  /\ x.src = "execution" /\ x.kind \in Evidence => hd[h].pc = "record" /\ x.kind = hd[h].out
  BY <1>1, PendingFacts DEF Appending, Evidence
<1>3. \A a : up' => ExecutionRecords(a)' = ExecutionRecords(a)
  BY DEF ExecutionRecords
<1>4. IndexIsOnDisk'
  <2>1. CASE mem' = mem
    BY <2>1, GrowFacts DEF OnceParts, IndexIsOnDisk
  <2>2. CASE mem' = <<>>
    BY <2>2 DEF IndexIsOnDisk
  <2> QED BY <2>1, <2>2
<1>5. BegunIsJournaled'
  <2> SUFFICES ASSUME NEW b \in Attempts, Begun(b)'
               PROVE  Survives(b)' /\ (up' => ExecutionRecords(b)' # {})
    BY DEF BegunIsJournaled
  <2>1. Survives(b)' /\ (up => ExecutionRecords(b) # {})
    BY <1>1, <1>2, BegunGrows DEF Invoking
  <2> QED BY <1>3, <2>1
<1>6. PhasesAgree'
  <2> SUFFICES ASSUME NEW g \in Handlers, hd'[g].pc \in {"accept", "start", "sign"} PROVE FALSE
    BY DEF PhasesAgree
  <2> QED BY OneAppends
<1>7. OneExecutor'
  BY DEF OnceParts, OneExecutor, Executes, Executing
<1>8. WritesAgree'
  <2>1. ASSUME NEW g \in Handlers, hd'[g].pc \in Executing PROVE ExecutionEvidence(hd[g].att)' = {}
    <3>1. hd[g].pc \in Executing /\ g # h /\ hd[g].att \in Attempts
      BY <2>1 DEF Executing, TasksAgree
    <3>2. hd[h].pc = "record" => hd[g].att # hd[h].att
      BY <1>1, <3>1 DEF OnceParts, OneExecutor, Executes, Executing
    <3>3. hd'[g].att = hd[g].att
      BY <2>1 DEF Executing
    <3> QED BY <1>2, <3>1, <3>2, <3>3, EvidenceGrows DEF OnceParts, WritesAgree
  <2>2. ASSUME NEW a \in Attempts, NEW i \in ExecutionEvidence(a)', disk'[i].kind = "Absent"
        PROVE  writes[a] = 0
    <3>1. CASE i \in ExecutionEvidence(a) /\ disk'[i] = disk[i]
      BY <2>2, <3>1 DEF OnceParts, WritesAgree
    <3>2. CASE x # Torn /\ x.att = a /\ x.src = "execution" /\ x.kind \in Evidence /\ disk'[i] = x
      <4>1. hd[h].pc = "record" /\ hd[h].out = "Absent" /\ hd[h].att = a
        BY <1>2, <2>2, <3>2
      <4> QED BY <4>1 DEF OnceParts, WritesAgree
    <3>3. \A j \in ExecutionEvidence(a)' :
             \/ j \in ExecutionEvidence(a) /\ disk'[j] = disk[j]
             \/ x # Torn /\ x.att = a /\ x.src = "execution" /\ x.kind \in Evidence /\ disk'[j] = x
      BY EvidenceGrows
    <3> QED BY <2>2, <3>1, <3>2, <3>3
  <2> QED BY <2>1, <2>2 DEF OnceParts, WritesAgree, Executing
<1> QED BY <1>4, <1>5, <1>6, <1>7, <1>8 DEF OnceParts

\* An append that succeeds: the record is on disk and indexed, and its task
\* goes on to its next phase.
LEMMA OnceAppend ==
    ASSUME TypeOK, TasksAgree, OnceParts, writes' = writes, up' = up,
           NEW h \in Handlers, Appending(h), AppendPending(h),
           \A g \in Handlers \ {h} : hd'[g] = hd[g],
           \/ hd[h].pc = "accept" /\ hd'[h].pc = "start" /\ hd'[h].att = hd[h].att
           \/ hd[h].pc = "start" /\ hd'[h].pc = "invoke" /\ hd'[h].att = hd[h].att
           \/ hd[h].pc \in {"sign", "record"} /\ hd'[h].pc = "idle"
    PROVE  OnceParts'
<1> DEFINE x == PendingRecord(h)
<1>1. hd[h].pc # "idle" /\ hd[h].att \in Attempts /\ x \in Record
  BY PendingFacts DEF Appending, TasksAgree
<1>2. /\ x.att = hd[h].att /\ x # Torn
      /\ x.kind # "Accepted" => hd[h].pc \in {"start", "sign", "record"}
      /\ x.src = "execution" /\ x.kind \in Evidence => hd[h].pc = "record" /\ x.kind = hd[h].out
  BY <1>1, PendingFacts, TornFacts DEF Appending, Evidence
<1>3. disk' = Append(disk, x) /\ mem' = Append(mem, x) /\ x \in Record \cup {Torn}
  BY <1>1 DEF AppendPending
<1>4. /\ Len(mem) \in Nat /\ Len(mem') = Len(mem) + 1 /\ mem'[Len(mem) + 1] = x
      /\ \A i \in 1..Len(mem) : mem'[i] = mem[i]
  BY <1>1, <1>3, AppendFacts DEF TypeOK
<1>5. \A a : ExecutionRecords(a) # {} \/ a = x.att => ExecutionRecords(a)' # {}
  BY <1>4 DEF ExecutionRecords
<1>6. IndexIsOnDisk'
  <2> SUFFICES ASSUME NEW i \in 1..Len(mem') PROVE \E j \in 1..Len(disk') : disk'[j] = mem'[i]
    BY DEF IndexIsOnDisk
  <2>1. CASE i \in 1..Len(mem)
    BY <1>3, <1>4, <2>1, GrowFacts DEF OnceParts, IndexIsOnDisk
  <2>2. CASE i = Len(mem) + 1
    BY <1>3, <1>4, <2>2, GrowFacts
  <2> QED BY <1>4, <2>1, <2>2
<1>7. BegunIsJournaled'
  <2> SUFFICES ASSUME NEW b \in Attempts, Begun(b)'
               PROVE  Survives(b)' /\ (up' => ExecutionRecords(b)' # {})
    BY DEF BegunIsJournaled
  <2>1. Survives(b)' /\ (up => ExecutionRecords(b) # {})
    BY <1>1, <1>2, <1>3, BegunGrows DEF Invoking
  <2> QED BY <1>5, <2>1
<1>8. PhasesAgree'
  <2> SUFFICES ASSUME NEW g \in Handlers, hd'[g].pc \in {"accept", "start", "sign"}
               PROVE  /\ hd'[g].pc = "start"
                      /\ hd'[g].att = x.att
    BY <1>3, <1>5, GrowFacts DEF PhasesAgree
  <2> QED BY <1>2, OneAppends
<1>9. OneExecutor'
  BY DEF OnceParts, OneExecutor, Executes, Executing
<1>10. WritesAgree'
  <2>1. ASSUME NEW g \in Handlers, hd'[g].pc \in Executing PROVE ExecutionEvidence(hd[g].att)' = {}
    <3>1. hd[g].pc \in Executing /\ hd[g].att \in Attempts /\ hd'[g].att = hd[g].att
      BY <2>1 DEF Executing, TasksAgree
    <3>2. hd[h].pc = "record" => hd[g].att # hd[h].att
      BY <1>1, <2>1, <3>1 DEF OnceParts, OneExecutor, Executes, Executing
    <3> HIDE DEF x
    <3>3. \A j \in ExecutionEvidence(hd[g].att)' :
             \/ j \in ExecutionEvidence(hd[g].att)
             \/ x.att = hd[g].att /\ x.src = "execution" /\ x.kind \in Evidence
      <4>1. PICK a \in Attempts : a = hd[g].att
        BY <3>1
      <4>2. \A j \in ExecutionEvidence(a)' :
             \/ j \in ExecutionEvidence(a)
             \/ x.att = a /\ x.src = "execution" /\ x.kind \in Evidence
        BY <1>3, EvidenceGrows
      <4> QED BY <3>1, <4>1, <4>2
    <3> QED BY <1>2, <3>1, <3>2, <3>3 DEF OnceParts, WritesAgree
  <2>2. ASSUME NEW a \in Attempts, NEW i \in ExecutionEvidence(a)', disk'[i].kind = "Absent"
        PROVE  writes[a] = 0
    <3>1. CASE i \in ExecutionEvidence(a) /\ disk'[i] = disk[i]
      BY <2>2, <3>1 DEF OnceParts, WritesAgree
    <3>2. CASE x.att = a /\ x.src = "execution" /\ x.kind \in Evidence /\ disk'[i] = x
      <4>1. hd[h].pc = "record" /\ hd[h].out = "Absent" /\ hd[h].att = a
        BY <1>2, <2>2, <3>2
      <4> QED BY <4>1 DEF OnceParts, WritesAgree
    <3>3. \A j \in ExecutionEvidence(a)' :
             \/ j \in ExecutionEvidence(a) /\ disk'[j] = disk[j]
             \/ x # Torn /\ x.att = a /\ x.src = "execution" /\ x.kind \in Evidence /\ disk'[j] = x
      <4> HIDE DEF x
      <4> QED BY <1>3, EvidenceGrows
    <3> QED BY <2>2, <3>1, <3>2, <3>3
  <2> QED BY <2>1, <2>2 DEF OnceParts, WritesAgree, Executing
<1> QED BY <1>6, <1>7, <1>8, <1>9, <1>10 DEF OnceParts

\* Opening the file cuts off a torn frame and at most one frame behind it.
LEMMA OnceOpen ==
    ASSUME TypeOK, TasksAgree, OnceParts, Open
    PROVE  OnceParts'
<1>1. PICK n \in 0..Len(disk) :
         /\ \A i \in 1..n : i \notin Unreadable
         /\ n < Len(disk) => disk[n + 1] = Torn /\ Len(disk) <= n + 2
         /\ mem' = SubSeq(disk, 1, n) /\ disk' = SubSeq(disk, 1, n)
  BY DEF Open
<1>2. Len(disk') = n /\ Len(disk) \in Nat /\ n \in Nat /\ \A i \in 1..n : disk'[i] = disk[i]
  BY <1>1, CutFacts DEF TypeOK
<1>3. \A h \in Handlers : hd'[h] = hd[h] /\ hd[h].pc = "idle"
  BY DEF Open, TasksAgree
<1>4. writes' = writes /\ mem' = disk'
  BY <1>1 DEF Open, history
<1>5. ASSUME NEW a \in Attempts, Survives(a)
      PROVE  Survives(a)' /\ ExecutionRecords(a)' # {}
  <2>1. PICK i \in 1..Len(disk) : disk[i].att = a /\ (i = Len(disk) => i = 1 \/ disk[i - 1] # Torn)
    BY <1>5 DEF Survives
  <2>2. i <= n
    <3> SUFFICES ASSUME i > n PROVE FALSE
      BY <1>2
    <3>1. disk[n + 1] = Torn /\ Len(disk) <= n + 2
      BY <1>1, <1>2
    <3>2. i # n + 1
      BY <2>1, <3>1, TornFacts, RecorderAssumption
    <3>3. i = n + 2 /\ i = Len(disk) /\ i - 1 = n + 1 /\ i # 1
      BY <1>2, <3>1, <3>2
    <3> QED BY <2>1, <3>1, <3>3
  <2>3. i \in 1..n /\ disk'[i].att = a
    BY <1>2, <2>1, <2>2
  <2>4. i # 1 => disk'[i - 1] # Torn
    <3> SUFFICES ASSUME i # 1 PROVE disk'[i - 1] # Torn
      OBVIOUS
    <3>1. i - 1 \in 1..n /\ i - 1 # 0 /\ i - 1 \in 1..Len(disk)
      BY <1>2, <2>3
    <3>2. disk[i - 1].seq = i - 1
      BY <1>1, <3>1 DEF Unreadable
    <3> QED BY <1>2, <3>1, <3>2, TornFacts
  <2> QED BY <1>2, <1>4, <2>3, <2>4 DEF Survives, ExecutionRecords
<1>6. \A a \in Attempts : Begun(a)' => Begun(a)
  BY <1>2, <1>3, <1>4 DEF Begun
<1>7. BegunIsJournaled'
  BY <1>5, <1>6 DEF OnceParts, BegunIsJournaled
<1>8. IndexIsOnDisk'
  BY <1>4 DEF IndexIsOnDisk
<1>9. PhasesAgree' /\ OneExecutor'
  BY <1>3 DEF PhasesAgree, OneExecutor, Executes, Executing
<1>10. WritesAgree'
  BY <1>2, <1>3, <1>4 DEF OnceParts, WritesAgree, Executing, ExecutionEvidence
<1> QED BY <1>7, <1>8, <1>9, <1>10 DEF OnceParts

\* Nothing is journaled, executed or written yet.
LEMMA OnceInit == Init => OnceParts
  BY RecorderAssumption
  DEF Init, OnceParts, IndexIsOnDisk, BegunIsJournaled, Begun, Survives, PhasesAgree, OneExecutor,
      Executes, WritesAgree, ExecutionEvidence, ExecutionRecords, IdleHandler, Executing, Invoking

\* A handler's own steps.
LEMMA OnceHandler ==
    ASSUME TypeOK, TasksAgree, OnceParts, NEW h \in Handlers, HandlerStep(h)
    PROVE  OnceParts'
<1> USE DEF environment, journal, history
<1>1. hd[h].att \in Attempts /\ up /\ hd[h].pc # "idle"
  BY DEF TasksAgree, TypeOK, HandlerStep, AdmitReplay, AdmitReject, AdmitFresh, AppendAccepted,
         AppendStarted, InvokeInspect, BeginWrite, EndWrite, RecordTerminal, ReconcileReply,
         ReconcileInspect, SignReconciliation
<1>2. ASSUME NEW n, hd' = [hd EXCEPT ![h] = n]
      PROVE  hd'[h] = n /\ \A g \in Handlers \ {h} : hd'[g] = hd[g]
  BY <1>2 DEF TypeOK
<1>3. CASE AdmitReplay(h) \/ AdmitReject(h) \/ ReconcileReply(h)
  <2>1. hd'[h].pc = "idle" /\ \A g \in Handlers \ {h} : hd'[g] = hd[g]
    BY <1>2, <1>3 DEF AdmitReplay, AdmitReject, ReconcileReply, Finish, IdleHandler
  <2>2. disk' = disk /\ mem' = mem /\ up' = up /\ writes' = writes
    BY <1>3 DEF AdmitReplay, AdmitReject, ReconcileReply
  <2> QED BY <2>1, <2>2, OnceQuiet
<1>4. CASE AdmitFresh(h)
  <2>0. hd' = [hd EXCEPT ![h] = [pc |-> "accept", att |-> hd[h].att, out |-> hd[h].out]]
    BY <1>4, MoveFacts DEF AdmitFresh, HandlerPc
  <2>1. hd'[h].pc = "accept" /\ hd'[h].att = hd[h].att /\ \A g \in Handlers \ {h} : hd'[g] = hd[g]
    BY <1>2, <2>0
  <2> QED BY <1>1, <1>4, <2>1, OnceForward DEF AdmitFresh
<1>5. CASE AppendAccepted(h)
  <2>0. hd' = [hd EXCEPT ![h] = [pc |-> "start", att |-> hd[h].att, out |-> hd[h].out]]
    BY <1>5, MoveFacts DEF AppendAccepted, HandlerPc
  <2>1. hd'[h].pc = "start" /\ hd'[h].att = hd[h].att /\ \A g \in Handlers \ {h} : hd'[g] = hd[g]
    BY <1>2, <2>0
  <2>2. Appending(h) /\ AppendPending(h) /\ hd[h].pc = "accept" /\ up' = up /\ writes' = writes
    BY <1>5 DEF AppendAccepted, Appending
  <2> QED BY <2>1, <2>2, OnceAppend
<1>6. CASE AppendStarted(h)
  <2>0. hd' = [hd EXCEPT ![h] = [pc |-> "invoke", att |-> hd[h].att, out |-> hd[h].out]]
    BY <1>6, MoveFacts DEF AppendStarted, HandlerPc
  <2>1. hd'[h].pc = "invoke" /\ hd'[h].att = hd[h].att /\ \A g \in Handlers \ {h} : hd'[g] = hd[g]
    BY <1>2, <2>0
  <2>2. Appending(h) /\ AppendPending(h) /\ hd[h].pc = "start" /\ up' = up /\ writes' = writes
    BY <1>6 DEF AppendStarted, Appending
  <2> QED BY <2>1, <2>2, OnceAppend
<1>7. CASE InvokeInspect(h)
  <2>0. PICK out \in Evidence : hd' = [hd EXCEPT ![h] = [pc |-> "record", att |-> hd[h].att, out |-> out]]
    BY <1>7 DEF InvokeInspect, Decide, Evidence
  <2>1. hd'[h].pc = "record" /\ hd'[h].att = hd[h].att /\ \A g \in Handlers \ {h} : hd'[g] = hd[g]
    BY <1>2, <2>0
  <2> QED BY <1>1, <1>7, <2>1, OnceForward DEF InvokeInspect
<1>8. CASE BeginWrite(h)
  <2>0. hd' = [hd EXCEPT ![h] = [pc |-> "write", att |-> hd[h].att, out |-> hd[h].out]]
    BY <1>8, MoveFacts DEF BeginWrite, HandlerPc
  <2>1. hd'[h].pc = "write" /\ hd'[h].att = hd[h].att /\ \A g \in Handlers \ {h} : hd'[g] = hd[g]
    BY <1>2, <2>0
  <2>2. disk' = disk /\ mem' = mem /\ up' = up /\ hd[h].pc = "invoke"
        /\ writes' = [writes EXCEPT ![hd[h].att] = @ + 1]
    BY <1>8 DEF BeginWrite
  <2> QED BY <1>1, <2>1, <2>2, OnceForward
<1>9. CASE EndWrite(h)
  <2>1. /\ hd'[h].pc = "record" /\ hd'[h].att = hd[h].att /\ \A g \in Handlers \ {h} : hd'[g] = hd[g]
        /\ hd'[h].out # "Absent"
    BY <1>2, <1>9 DEF EndWrite, Decide
  <2>2. disk' = disk /\ mem' = mem /\ up' = up /\ hd[h].pc = "write" /\ writes' = writes
    BY <1>9 DEF EndWrite
  <2> QED BY <1>1, <2>1, <2>2, OnceForward
<1>10. CASE RecordTerminal(h)
  <2>1. hd'[h].pc = "idle" /\ \A g \in Handlers \ {h} : hd'[g] = hd[g]
    BY <1>2, <1>10 DEF RecordTerminal, Finish, IdleHandler
  <2>2. up' = up /\ writes' = writes /\ hd[h].pc = "record" /\ mutex = None
    BY <1>10 DEF RecordTerminal
  <2>3. CASE Journaled(hd[h].att, Evidence)
    <3>1. disk' = disk /\ mem' = mem
      BY <1>10, <2>3 DEF RecordTerminal
    <3> QED BY <2>1, <2>2, <3>1, OnceQuiet
  <2>4. CASE ~Journaled(hd[h].att, Evidence)
    <3>1. Appending(h) /\ AppendPending(h)
      BY <1>10, <2>4 DEF RecordTerminal, Appending
    <3> QED BY <2>1, <2>2, <3>1, OnceAppend
  <2> QED BY <2>3, <2>4
<1>11. CASE ReconcileInspect(h)
  <2>0. PICK out : hd' = [hd EXCEPT ![h] = [pc |-> "sign", att |-> hd[h].att, out |-> out]]
    BY <1>11 DEF ReconcileInspect, Decide
  <2>1. hd'[h].pc = "sign" /\ hd'[h].att = hd[h].att /\ \A g \in Handlers \ {h} : hd'[g] = hd[g]
    BY <1>2, <2>0
  <2>2. ExecutionRecords(hd[h].att) # {}
    BY <1>11 DEF ReconcileInspect, Journaled, ExecutionRecords
  <2>3. disk' = disk /\ mem' = mem /\ up' = up /\ writes' = writes
    BY <1>11 DEF ReconcileInspect
  <2> QED BY <1>1, <2>1, <2>2, <2>3, OnceForward
<1>12. CASE SignReconciliation(h)
  <2>1. hd'[h].pc = "idle" /\ \A g \in Handlers \ {h} : hd'[g] = hd[g]
    BY <1>2, <1>12 DEF SignReconciliation, Finish, IdleHandler
  <2>2. Appending(h) /\ AppendPending(h) /\ hd[h].pc = "sign" /\ up' = up /\ writes' = writes
    BY <1>12 DEF SignReconciliation, Appending
  <2> QED BY <2>1, <2>2, OnceAppend
<1> QED BY <1>3, <1>4, <1>5, <1>6, <1>7, <1>8, <1>9, <1>10, <1>11, <1>12 DEF HandlerStep

\* Requests, failures, restarts and the environment.
LEMMA OnceOther ==
    ASSUME TypeOK, TasksAgree, OnceParts, OtherStep
    PROVE  OnceParts'
<1> USE DEF environment, journal, history
<1>1. ASSUME NEW h \in Handlers, FailAppend(h) PROVE OnceParts'
  <2>1. hd'[h].pc = "idle" /\ \A g \in Handlers \ {h} : hd'[g] = hd[g]
    BY <1>1 DEF FailAppend, Finish, IdleHandler, TypeOK
  <2>2. mem' = mem /\ up' = up /\ writes' = writes /\ Appending(h)
    BY <1>1 DEF FailAppend
  <2>3. PendingRecord(h) \in Record
    BY <2>2, PendingFacts DEF Appending, TasksAgree
  <2>4. CASE disk' = disk
    BY <2>1, <2>2, <2>4, OnceQuiet
  <2>5. CASE disk' # disk
    <3>1. PICK x \in Record \cup {Torn} : x \in {Torn, PendingRecord(h)} /\ disk' = Append(disk, x)
      BY <1>1, <2>3, <2>5 DEF FailAppend
    <3> QED BY <2>1, <2>2, <3>1, OnceLost
  <2> QED BY <2>4, <2>5
<1>2. ASSUME NEW h \in Handlers, NEW a \in Attempts, ReceiveExecute(h, a) \/ ReceiveReconcile(h, a)
      PROVE  OnceParts'
  <2>1. \A g \in Handlers : hd'[g] = hd[g] \/ hd'[g].pc \in {"idle", "admit", "inspect"}
    BY <1>2 DEF ReceiveExecute, ReceiveReconcile, TypeOK
  <2>2. disk' = disk /\ mem' = mem /\ up' = up /\ writes' = writes
    BY <1>2 DEF ReceiveExecute, ReceiveReconcile
  <2> QED BY <2>1, <2>2, OnceQuiet
<1>3. ASSUME NEW a \in Attempts, QueryOnly(a) \/ Revoke(a) \/ Edit(a) PROVE OnceParts'
  <2>1. disk' = disk /\ mem' = mem /\ up' = up /\ writes' = writes /\ hd' = hd
    BY <1>3 DEF QueryOnly, Revoke, Edit
  <2> QED BY <2>1, OnceQuiet
<1>4. CASE Crash
  <2>1. (\A g \in Handlers : hd'[g].pc = "idle") /\ mem' = <<>> /\ up' = FALSE /\ writes' = writes
    BY <1>4 DEF Crash, IdleHandler
  <2>2. CASE disk' = disk
    <3>1. /\ \A a : Survives(a)' = Survives(a)
          /\ \A a : ExecutionEvidence(a)' = ExecutionEvidence(a)
      BY <2>2 DEF Survives, ExecutionEvidence
    <3>2. \A a \in Attempts : Begun(a)' => Begun(a)
      BY <2>1, <2>2 DEF Begun, Invoking
    <3>3. BegunIsJournaled' /\ IndexIsOnDisk'
      BY <2>1, <3>1, <3>2 DEF OnceParts, BegunIsJournaled, IndexIsOnDisk
    <3>4. PhasesAgree' /\ OneExecutor'
      BY <2>1 DEF PhasesAgree, OneExecutor, Executes, Executing
    <3>5. WritesAgree'
      BY <2>1, <2>2, <3>1 DEF OnceParts, WritesAgree, Executing
    <3> QED BY <3>3, <3>4, <3>5 DEF OnceParts
  <2>3. CASE disk' # disk
    <3>1. PICK h \in Handlers, x \in Record \cup {Torn} :
             Appending(h) /\ x \in {Torn, PendingRecord(h)} /\ disk' = Append(disk, x)
      BY <1>4, <2>3, CrashFacts
    <3> QED BY <2>1, <3>1, OnceLost
  <2> QED BY <2>2, <2>3
<1>5. CASE Open
  BY <1>5, OnceOpen
<1>6. CASE UNCHANGED vars
  BY <1>6, OnceQuiet DEF vars
<1> QED BY <1>1, <1>2, <1>3, <1>4, <1>5, <1>6 DEF OtherStep

\* The inductive invariant holds in every reachable state, for every number of
\* requests, crashes, failed appends and edits (RecorderService, Journal).
THEOREM OnceCorrect == Spec => []OnceInvariant
<1>1. Init => OnceInvariant
  BY TasksInit, OnceInit DEF OnceInvariant, OnceParts
<1>2. OnceInvariant /\ [Next]_vars => OnceInvariant'
  <2> SUFFICES ASSUME OnceInvariant, [Next]_vars PROVE OnceInvariant'
    OBVIOUS
  <2>1. TypeOK /\ TasksAgree /\ OnceParts
    BY DEF OnceInvariant, OnceParts
  <2>2. ASSUME NEW h \in Handlers, HandlerStep(h) PROVE TypeOK' /\ TasksAgree' /\ OnceParts'
    BY <2>1, <2>2, TasksHandler, OnceHandler
  <2>3. OtherStep => TypeOK' /\ TasksAgree' /\ OnceParts'
    BY <2>1, TasksOther, OnceOther
  <2>4. TypeOK' /\ TasksAgree' /\ OnceParts'
    BY <2>2, <2>3 DEF Next, OtherStep
  <2> QED BY <2>4 DEF OnceInvariant, OnceParts
<1> QED BY <1>1, <1>2, PTL DEF Spec

\* The overwrite of an attempt begins at most once (InvokedAtMostOnce).
THEOREM InvokedOnceCorrect == Spec => []InvokedAtMostOnce
<1>1. OnceInvariant => InvokedAtMostOnce
  BY DEF OnceInvariant, WritesAgree, InvokedAtMostOnce
<1> QED BY <1>1, OnceCorrect, PTL

\* A definite Absent of an execution is indexed only if the overwrite never
\* began (ExecutionAbsentNeverWrote).
THEOREM AbsentCorrect == Spec => []ExecutionAbsentNeverWrote
<1>1. OnceInvariant => ExecutionAbsentNeverWrote
  <2> SUFFICES ASSUME OnceInvariant, NEW i \in 1..Len(mem),
                      mem[i].kind = "Absent", mem[i].src = "execution"
               PROVE  writes[mem[i].att] = 0
    BY DEF ExecutionAbsentNeverWrote
  <2>1. PICK j \in 1..Len(disk) : disk[j] = mem[i]
    BY DEF OnceInvariant, IndexIsOnDisk
  <2>2. mem[i].att \in Attempts
    <3>1. mem[i] \in Record
      BY DEF OnceInvariant, TypeOK
    <3> QED BY <3>1 DEF Record
  <2>3. j \in ExecutionEvidence(mem[i].att)
    BY <2>1 DEF ExecutionEvidence, Evidence
  <2> QED BY <2>1, <2>2, <2>3 DEF OnceInvariant, WritesAgree
<1> QED BY <1>1, OnceCorrect, PTL

-----------------------------------------------------------------------------
(* A journal no append of which failed: its order and what it answers. *)

\* The last record of an attempt in a journal.
LastOf(s, a, i) ==
    /\ i \in 1..Len(s) /\ s[i].att = a
    /\ \A j \in 1..Len(s) : s[j].att = a => j <= i

\* A journal of records in order, of which the last frame may be torn.
Ordered(s) ==
    /\ s \in Seq(Record \cup {Torn})
    /\ \A i \in 1..Len(s) : s[i].seq = i \/ (i = Len(s) /\ s[i] = Torn)
    /\ \A a \in Attempts : (\E i \in 1..Len(s) : s[i].att = a) => \E i \in 1..Len(s) : LastOf(s, a, i)

Whole(s) == \A i \in 1..Len(s) : s[i].seq = i

\* DurableStatus, for any journal.
StatusIn(s, a) ==
    LET readable == {i \in 1..Len(s) : \A j \in 1..i : s[j].seq = j}
        own == {i \in readable : s[i].att = a}
    IN IF own = {} THEN "none" ELSE s[CHOOSE i \in own : \A j \in own : j <= i].kind

\* The file is in order, and while the process runs it is what is indexed.
JournalAgrees == Ordered(disk) /\ (up => disk = mem /\ Whole(disk))

\* The status a task relies on, and what clients were told.
StatusAgrees ==
    /\ \A h \in Handlers :
         LET s == DurableStatus(hd[h].att) IN
         /\ hd[h].pc = "start" => s = "Accepted"
         /\ hd[h].pc = "sign" => s \in {"Accepted", "InvocationStarted", "Unknown"}
         /\ hd[h].pc \in {"inspect", "sign"} => Reconciles
         /\ hd[h].pc \in Invoking => s = "InvocationStarted" \/ (Reconciles /\ s \in Evidence)
    /\ \A a \in Attempts : told[a] # {} => told[a] = {DurableStatus(a)}

\* Together with OnceInvariant, inductive as long as no append has failed.
AnswersInvariant == used.failures = 0 => JournalAgrees /\ StatusAgrees

\* The frames of an ordered journal that can be read are those of attempts.
LEMMA ReadableFacts ==
    ASSUME NEW s, Ordered(s), NEW a \in Attempts, NEW i \in 1..Len(s), s[i].att = a
    PROVE  \A j \in 1..i : s[j].seq = j
<1> SUFFICES ASSUME NEW j \in 1..i, s[j].seq # j PROVE FALSE
  OBVIOUS
<1>1. Len(s) \in Nat /\ i \in 1..Len(s) /\ j \in 1..Len(s) /\ j <= i
  BY DEF Ordered
<1>2. j = Len(s) /\ s[j] = Torn
  BY <1>1 DEF Ordered
<1>3. i = j
  BY <1>1, <1>2
<1> QED BY <1>2, <1>3, TornFacts, RecorderAssumption

\* The status of an attempt is the kind of its last record.
LEMMA StatusLast ==
    ASSUME NEW s, Ordered(s), NEW a \in Attempts, NEW i, LastOf(s, a, i)
    PROVE  StatusIn(s, a) = s[i].kind
<1> DEFINE own == {j \in {k \in 1..Len(s) : \A l \in 1..k : s[l].seq = l} : s[j].att = a}
<1>1. i \in own
  BY ReadableFacts DEF LastOf
<1>2. \A j \in own : j <= i
  BY DEF LastOf
<1>3. \A j \in own : (\A k \in own : k <= j) => j = i
  <2>1. own \subseteq Nat
    BY DEF Ordered
  <2> HIDE DEF own
  <2> QED BY <1>1, <1>2, <2>1
<1>4. (CHOOSE j \in own : \A k \in own : k <= j) = i
  <2> HIDE DEF own
  <2> QED BY <1>1, <1>2, <1>3
<1> QED BY <1>1, <1>4 DEF StatusIn

\* An attempt without a record has no status.
LEMMA StatusNone ==
    ASSUME NEW s, NEW a, \A i \in 1..Len(s) : s[i].att # a
    PROVE  StatusIn(s, a) = "none"
  BY DEF StatusIn

\* The status, now and after a step.
LEMMA StatusDef ==
    /\ \A a : DurableStatus(a) = StatusIn(disk, a)
    /\ \A a : DurableStatus(a)' = StatusIn(disk', a)
  BY DEF DurableStatus, Durable, StatusIn

\* Journals with the same records of an attempt give it the same status.
LEMMA StatusSame ==
    ASSUME NEW s, Ordered(s), NEW t, Ordered(t), NEW a \in Attempts,
           \A i \in 1..Len(s) : s[i].att = a => i \in 1..Len(t) /\ t[i] = s[i],
           \A i \in 1..Len(t) : t[i].att = a => i \in 1..Len(s) /\ t[i] = s[i]
    PROVE  StatusIn(t, a) = StatusIn(s, a)
<1>1. CASE \A i \in 1..Len(s) : s[i].att # a
  BY <1>1, StatusNone
<1>2. CASE \E i \in 1..Len(s) : s[i].att = a
  <2>1. PICK i \in 1..Len(s) : LastOf(s, a, i)
    BY <1>2 DEF Ordered
  <2>2. LastOf(t, a, i)
    BY <2>1 DEF LastOf
  <2> QED BY <2>1, <2>2, StatusLast DEF LastOf
<1> QED BY <1>1, <1>2

\* A whole record at the end of a whole journal.
LEMMA WholeAppend ==
    ASSUME NEW s, Ordered(s), Whole(s), NEW x \in Record, x.seq = Len(s) + 1
    PROVE  /\ Ordered(Append(s, x)) /\ Whole(Append(s, x))
           /\ StatusIn(Append(s, x), x.att) = x.kind
           /\ \A b \in Attempts \ {x.att} : StatusIn(Append(s, x), b) = StatusIn(s, b)
<1> DEFINE t == Append(s, x)
           n == Len(s) + 1
<1>1. /\ t \in Seq(Record \cup {Torn}) /\ Len(t) = n /\ t[n] = x /\ Len(s) \in Nat
      /\ \A i \in 1..Len(s) : t[i] = s[i]
  BY AppendFacts DEF Ordered
<1>2. x.att \in Attempts
  BY DEF Record
<1> HIDE DEF t
<1>3. Whole(t)
  BY <1>1 DEF Whole
<1>4. LastOf(t, x.att, n)
  BY <1>1 DEF LastOf
<1>5. \A b \in Attempts \ {x.att} : \A i \in 1..Len(t) : t[i].att = b => i \in 1..Len(s) /\ t[i] = s[i]
  BY <1>1
<1>6. \A i \in 1..Len(s) : i \in 1..Len(t) /\ t[i] = s[i]
  BY <1>1
<1>7. \A b \in Attempts \ {x.att}, i \in 1..Len(s) : LastOf(s, b, i) => LastOf(t, b, i)
  BY <1>5, <1>6 DEF LastOf
<1>8. \A b \in Attempts : (\E i \in 1..Len(t) : t[i].att = b) => \E i \in 1..Len(t) : LastOf(t, b, i)
  <2> SUFFICES ASSUME NEW b \in Attempts, NEW i \in 1..Len(t), t[i].att = b
               PROVE  \E k \in 1..Len(t) : LastOf(t, b, k)
    OBVIOUS
  <2>1. CASE b = x.att
    BY <1>1, <1>4, <2>1
  <2>2. CASE b # x.att
    <3>1. i \in 1..Len(s) /\ s[i].att = b
      BY <1>5, <2>2
    <3>2. PICK k \in 1..Len(s) : LastOf(s, b, k)
      BY <3>1 DEF Ordered
    <3> QED BY <1>6, <1>7, <2>2, <3>2
  <2> QED BY <2>1, <2>2
<1>9. Ordered(t)
  BY <1>1, <1>3, <1>8 DEF Ordered, Whole
<1>10. StatusIn(t, x.att) = x.kind
  BY <1>1, <1>2, <1>4, <1>9, StatusLast
<1>11. \A b \in Attempts \ {x.att} : StatusIn(t, b) = StatusIn(s, b)
  BY <1>5, <1>6, <1>9, StatusSame
<1> QED BY <1>3, <1>9, <1>10, <1>11 DEF t

\* A torn frame at the end of a whole journal.
LEMMA TornAppend ==
    ASSUME NEW s, Ordered(s), Whole(s)
    PROVE  /\ Ordered(Append(s, Torn))
           /\ \A b \in Attempts : StatusIn(Append(s, Torn), b) = StatusIn(s, b)
<1> DEFINE t == Append(s, Torn)
<1>1. /\ t \in Seq(Record \cup {Torn}) /\ Len(t) = Len(s) + 1 /\ t[Len(s) + 1] = Torn /\ Len(s) \in Nat
      /\ \A i \in 1..Len(s) : t[i] = s[i]
  BY AppendFacts DEF Ordered
<1> HIDE DEF t
<1>2. \A i \in 1..Len(s) : i \in 1..Len(t) /\ t[i] = s[i]
  BY <1>1
<1>3. \A b \in Attempts : \A i \in 1..Len(t) : t[i].att = b => i \in 1..Len(s) /\ t[i] = s[i]
  BY <1>1, TornFacts, RecorderAssumption
<1>4. \A b \in Attempts, i \in 1..Len(s) : LastOf(s, b, i) => LastOf(t, b, i)
  BY <1>2, <1>3 DEF LastOf
<1>5. Ordered(t)
  <2>1. \A i \in 1..Len(t) : t[i].seq = i \/ (i = Len(t) /\ t[i] = Torn)
    BY <1>1 DEF Whole
  <2>2. \A b \in Attempts : (\E i \in 1..Len(t) : t[i].att = b) => \E i \in 1..Len(t) : LastOf(t, b, i)
    <3> SUFFICES ASSUME NEW b \in Attempts, NEW i \in 1..Len(t), t[i].att = b
                 PROVE  \E k \in 1..Len(t) : LastOf(t, b, k)
      OBVIOUS
    <3>1. PICK k \in 1..Len(s) : LastOf(s, b, k)
      BY <1>3 DEF Ordered
    <3> QED BY <1>2, <1>4, <3>1
  <2> QED BY <1>1, <2>1, <2>2 DEF Ordered
<1>6. \A b \in Attempts : StatusIn(t, b) = StatusIn(s, b)
  BY <1>2, <1>3, <1>5, StatusSame
<1> QED BY <1>5, <1>6 DEF t

\* What open keeps of an ordered journal: everything but a torn tail.
LEMMA OrderedCut ==
    ASSUME NEW s, Ordered(s), NEW n \in 0..Len(s), \A i \in 1..n : s[i].seq = i,
           n < Len(s) => s[n + 1] = Torn
    PROVE  /\ Ordered(SubSeq(s, 1, n)) /\ Whole(SubSeq(s, 1, n))
           /\ \A b \in Attempts : StatusIn(SubSeq(s, 1, n), b) = StatusIn(s, b)
<1> DEFINE t == SubSeq(s, 1, n)
<1>1. /\ t \in Seq(Record \cup {Torn}) /\ Len(t) = n /\ Len(s) \in Nat /\ n \in Nat
      /\ \A i \in 1..n : t[i] = s[i]
  BY CutFacts DEF Ordered
<1> HIDE DEF t
<1>2. n < Len(s) => n + 1 = Len(s)
  <2> SUFFICES ASSUME n < Len(s) PROVE n + 1 = Len(s)
    OBVIOUS
  <2>1. n + 1 \in 1..Len(s) /\ n + 1 # 0
    BY <1>1
  <2> QED BY <2>1, TornFacts DEF Ordered
<1>3. \A b \in Attempts : \A i \in 1..Len(s) : s[i].att = b => i \in 1..Len(t) /\ t[i] = s[i]
  BY <1>1, <1>2, TornFacts, RecorderAssumption
<1>4. \A i \in 1..Len(t) : i \in 1..Len(s) /\ t[i] = s[i]
  BY <1>1
<1>5. \A b \in Attempts, i \in 1..Len(s) : LastOf(s, b, i) => LastOf(t, b, i)
  BY <1>3, <1>4 DEF LastOf
<1>6. Whole(t)
  BY <1>1 DEF Whole
<1>7. Ordered(t)
  <2>1. \A b \in Attempts : (\E i \in 1..Len(t) : t[i].att = b) => \E i \in 1..Len(t) : LastOf(t, b, i)
    <3> SUFFICES ASSUME NEW b \in Attempts, NEW i \in 1..Len(t), t[i].att = b
                 PROVE  \E k \in 1..Len(t) : LastOf(t, b, k)
      OBVIOUS
    <3>1. PICK k \in 1..Len(s) : LastOf(s, b, k)
      BY <1>4 DEF Ordered
    <3>2. k \in 1..Len(t)
      BY <1>3, <3>1 DEF LastOf
    <3> QED BY <1>5, <3>1, <3>2
  <2> QED BY <1>1, <1>6, <2>1 DEF Ordered, Whole
<1>8. \A b \in Attempts : StatusIn(t, b) = StatusIn(s, b)
  BY <1>3, <1>4, <1>7, StatusSame
<1> QED BY <1>6, <1>7, <1>8 DEF t

\* While the process runs, its index answers with the durable status.
LEMMA IndexStatus ==
    ASSUME TypeOK, JournalAgrees, up, NEW a \in Attempts
    PROVE  /\ ExecutionRecords(a) = {} <=> DurableStatus(a) = "none"
           /\ ExecutionRecords(a) # {} <=> DurableStatus(a) \in Kind
           /\ Journaled(a, Kind) <=> ExecutionRecords(a) # {}
           /\ Journaled(a, Kind) => Latest(a).kind = DurableStatus(a)
           /\ ~Journaled(a, Evidence) => DurableStatus(a) \notin Evidence
<1>1. disk = mem /\ Ordered(mem) /\ DurableStatus(a) = StatusIn(mem, a)
  BY StatusDef DEF JournalAgrees
<1>2. \A i \in 1..Len(mem) : mem[i].kind \in Kind
  <2>1. \A i \in 1..Len(mem) : mem[i] \in Record
    BY DEF TypeOK
  <2> QED BY <2>1 DEF Record
<1>3. Journaled(a, Kind) <=> ExecutionRecords(a) # {}
  BY <1>2 DEF Journaled, ExecutionRecords
<1>4. "none" \notin Kind
  BY DEF Kind, Evidence
<1>5. CASE ExecutionRecords(a) = {}
  <2>1. StatusIn(mem, a) = "none"
    BY <1>5, StatusNone DEF ExecutionRecords
  <2> QED BY <1>1, <1>3, <1>4, <1>5, <2>1 DEF Kind
<1>6. CASE ExecutionRecords(a) # {}
  <2>1. PICK i \in 1..Len(mem) : LastOf(mem, a, i)
    BY <1>1, <1>6 DEF Ordered, ExecutionRecords
  <2>2. StatusIn(mem, a) = mem[i].kind
    BY <1>1, <2>1, StatusLast
  <2>3. Latest(a) = mem[i]
    <3> DEFINE P(k) == mem[k].att = a /\ \A j \in k + 1..Len(mem) : mem[j].att # a
    <3>1. Len(mem) \in Nat
      BY DEF TypeOK
    <3>2. P(i)
      BY <2>1, <3>1 DEF LastOf
    <3>3. \A k \in 1..Len(mem) : P(k) => k = i
      <4> SUFFICES ASSUME NEW k \in 1..Len(mem), P(k), k # i PROVE FALSE
        OBVIOUS
      <4>1. k <= i
        BY <2>1 DEF LastOf
      <4>2. i \in k + 1..Len(mem)
        BY <3>1, <4>1
      <4> QED BY <2>1, <4>2 DEF LastOf
    <3>4. (CHOOSE k \in 1..Len(mem) : P(k)) = i
      <4> HIDE DEF P
      <4> QED BY <3>2, <3>3
    <3> QED BY <3>4 DEF Latest
  <2>4. mem[i].kind \in Evidence => Journaled(a, Evidence)
    BY <2>1 DEF LastOf, Journaled
  <2> QED BY <1>1, <1>2, <1>3, <1>4, <1>6, <2>2, <2>3, <2>4
<1> QED BY <1>5, <1>6

\* A reply from the index.
LEMMA TellFacts ==
    ASSUME TypeOK, JournalAgrees, up, NEW a \in Attempts, Journaled(a, Kind), Tell(a, Latest(a).kind)
    PROVE  \/ told' = told
           \/ /\ DurableStatus(a) \in {"Present", "Absent"}
              /\ told' = [told EXCEPT ![a] = @ \cup {DurableStatus(a)}]
<1>1. Latest(a).kind = DurableStatus(a)
  BY IndexStatus
<1>2. told' = [told EXCEPT ![a] = told[a] \cup ({DurableStatus(a)} \cap {"Present", "Absent"})]
  BY <1>1 DEF Tell
<1>3. CASE DurableStatus(a) \in {"Present", "Absent"}
  <2>1. {DurableStatus(a)} \cap {"Present", "Absent"} = {DurableStatus(a)}
    BY <1>3
  <2> QED BY <1>2, <1>3, <2>1
<1>4. CASE DurableStatus(a) \notin {"Present", "Absent"}
  <2>1. told[a] \cup ({DurableStatus(a)} \cap {"Present", "Absent"}) = told[a]
    BY <1>4
  <2> QED BY <1>2, <2>1 DEF TypeOK
<1> QED BY <1>3, <1>4

\* Steps that leave every status alone.
LEMMA AnswersQuiet ==
    ASSUME TypeOK, JournalAgrees, StatusAgrees, Ordered(disk'), up' => disk' = mem' /\ Whole(disk'),
           \A b \in Attempts : StatusIn(disk', b) = StatusIn(disk, b),
           \A g \in Handlers : hd'[g].pc # "idle" => hd'[g].att \in Attempts,
           \A g \in Handlers :
              \/ hd'[g] = hd[g]
              \/ hd'[g].pc \in {"idle", "admit", "accept"}
              \/ hd'[g].pc = "inspect" /\ Reconciles
              \/ hd'[g].att = hd[g].att /\ hd[g].pc \in Invoking /\ hd'[g].pc \in Invoking
              \/ /\ hd'[g].att = hd[g].att /\ hd[g].pc = "inspect" /\ hd'[g].pc = "sign"
                 /\ DurableStatus(hd[g].att) \in {"Accepted", "InvocationStarted", "Unknown"},
           \A b \in Attempts : told'[b] = told[b] \/ told'[b] = told[b] \cup {DurableStatus(b)}
    PROVE  JournalAgrees' /\ StatusAgrees'
<1>1. \A b \in Attempts : DurableStatus(b)' = DurableStatus(b)
  BY StatusDef
<1>2. JournalAgrees'
  BY DEF JournalAgrees, Ordered, Whole
<1>3. ASSUME NEW b \in Attempts, told'[b] # {} PROVE told'[b] = {DurableStatus(b)'}
  BY <1>1, <1>3 DEF StatusAgrees
<1>4. ASSUME NEW g \in Handlers
      PROVE  LET s == StatusIn(disk', hd'[g].att) IN
             /\ hd'[g].pc = "start" => s = "Accepted"
             /\ hd'[g].pc = "sign" => s \in {"Accepted", "InvocationStarted", "Unknown"}
             /\ hd'[g].pc \in {"inspect", "sign"} => Reconciles
             /\ hd'[g].pc \in Invoking => s = "InvocationStarted" \/ (Reconciles /\ s \in Evidence)
  <2>1. hd'[g].pc # "idle" => StatusIn(disk', hd'[g].att) = DurableStatus(hd'[g].att)
    BY StatusDef
  <2> QED BY <2>1 DEF StatusAgrees, Invoking
<1>5. StatusAgrees'
  BY <1>3, <1>4, StatusDef DEF StatusAgrees
<1> QED BY <1>2, <1>5

\* The record a task is about to append moves its attempt's status forward.
PendingMoves(h) ==
    LET a == hd[h].att
        s == DurableStatus(hd[h].att)
        k == PendingRecord(h).kind
    IN
    \/ s = "none" /\ k = "Accepted"
    \/ s = "Accepted" /\ k = "InvocationStarted"
    \/ /\ s = "InvocationStarted" \/ (Reconciles /\ s \in {"Accepted", "Unknown"})
       /\ k \in Evidence
       /\ k = "Absent" => writes[a] = 0 \/ Reconciles

\* It does: what the task saw when it took the mutex is still the status.
LEMMA PendingForward ==
    ASSUME TypeOK, TasksAgree, OnceParts, JournalAgrees, StatusAgrees, NEW h \in Handlers, Appending(h)
    PROVE  PendingMoves(h) /\ (hd[h].pc = "sign" => Reconciles)
<1>1. hd[h].pc # "idle" /\ hd[h].att \in Attempts /\ up /\ hd[h].out \in Evidence
  BY MoveFacts DEF Appending, TasksAgree
<1>2. hd[h].pc = "accept" => DurableStatus(hd[h].att) = "none"
  BY <1>1, IndexStatus DEF OnceParts, PhasesAgree
<1>3. hd[h].pc = "record" => DurableStatus(hd[h].att) \notin Evidence
  BY <1>1, IndexStatus DEF Appending
<1>4. hd[h].pc = "record" => DurableStatus(hd[h].att) = "InvocationStarted"
  BY <1>3 DEF StatusAgrees, Invoking
<1>5. CASE hd[h].pc = "accept"
  BY <1>1, <1>2, <1>5, PendingFacts DEF PendingMoves
<1>6. CASE hd[h].pc = "start"
  BY <1>1, <1>6, PendingFacts DEF PendingMoves, StatusAgrees
<1>7. CASE hd[h].pc = "sign"
  BY <1>1, <1>7, PendingFacts DEF PendingMoves, StatusAgrees
<1>8. CASE hd[h].pc = "record"
  BY <1>1, <1>4, <1>8, PendingFacts DEF PendingMoves, OnceParts, WritesAgree
<1> QED BY <1>5, <1>6, <1>7, <1>8 DEF Appending

\* A status that moves forward is a step of ExecuteOnce.
LEMMA ForwardRefines ==
    ASSUME TypeOK, NEW h \in Handlers, NEW a \in Attempts, a = hd[h].att, NEW k, k = PendingRecord(h).kind,
           PendingMoves(h), writes' = writes,
           DurableStatus(a)' = k, \A b \in Attempts \ {a} : DurableStatus(b)' = DurableStatus(b),
           \/ told' = told
           \/ k \in Evidence /\ told' = [told EXCEPT ![a] = @ \cup ({k} \cap {"Present", "Absent"})]
    PROVE  EO!Next
<1> DEFINE st == [b \in Attempts |-> DurableStatus(b)]
<1>1. [b \in Attempts |-> DurableStatus(b)]' = [st EXCEPT ![a] = k]
  <2>1. [b \in Attempts |-> DurableStatus(b)]' = [b \in Attempts |-> DurableStatus(b)']
    OBVIOUS
  <2> QED BY <2>1
<1>2. st[a] = DurableStatus(a)
  OBVIOUS
<1>3. CASE st[a] = "none" /\ k = "Accepted"
  <2>1. told' = told
    BY <1>3 DEF Evidence
  <2>2. EO!Accept(a)
    BY <1>1, <1>3, <2>1 DEF EO!Accept
  <2> QED BY <2>2 DEF EO!Next
<1>4. CASE st[a] = "Accepted" /\ k = "InvocationStarted"
  <2>1. told' = told
    BY <1>4 DEF Evidence
  <2>2. EO!Start(a)
    BY <1>1, <1>4, <2>1 DEF EO!Start
  <2> QED BY <2>2 DEF EO!Next
<1>5. CASE /\ st[a] = "InvocationStarted" \/ (Reconciles /\ st[a] \in {"Accepted", "Unknown"})
           /\ k \in Evidence
           /\ k = "Absent" => writes[a] = 0 \/ Reconciles
  <2>1. k \in EO!Final \cup {"Unknown"}
    BY <1>5 DEF EO!Final, Evidence
  <2>2. told' \in {told, [told EXCEPT ![a] = @ \cup ({k} \cap EO!Final)]}
    BY DEF EO!Final
  <2>3. EO!Resolve(a)
    BY <1>1, <1>5, <2>1, <2>2 DEF EO!Resolve
  <2> QED BY <2>3 DEF EO!Next
<1> QED BY <1>2, <1>3, <1>4, <1>5 DEF PendingMoves

\* Steps that leave every status alone: a stutter, the begin of a write, or a
\* reply.
LEMMA QuietRefines ==
    ASSUME TypeOK, \A b \in Attempts : DurableStatus(b)' = DurableStatus(b),
           \/ writes' = writes /\ told' = told
           \/ \E a \in Attempts :
                /\ writes' = writes /\ DurableStatus(a) \in {"Present", "Absent"}
                /\ told' = [told EXCEPT ![a] = @ \cup {DurableStatus(a)}]
           \/ \E a \in Attempts :
                /\ writes[a] = 0 /\ writes' = [writes EXCEPT ![a] = @ + 1] /\ told' = told
                /\ \/ DurableStatus(a) = "InvocationStarted"
                   \/ Reconciles /\ DurableStatus(a) \in Evidence
    PROVE  [EO!Next]_(EO!vars)
<1> DEFINE st == [b \in Attempts |-> DurableStatus(b)]
<1>1. [b \in Attempts |-> DurableStatus(b)]' = st
  <2>1. [b \in Attempts |-> DurableStatus(b)]' = [b \in Attempts |-> DurableStatus(b)']
    OBVIOUS
  <2> QED BY <2>1
<1>2. CASE writes' = writes /\ told' = told
  BY <1>1, <1>2 DEF EO!vars
<1>3. ASSUME NEW a \in Attempts, writes' = writes, DurableStatus(a) \in {"Present", "Absent"},
             told' = [told EXCEPT ![a] = @ \cup {DurableStatus(a)}]
      PROVE  EO!Reply(a)
  BY <1>1, <1>3 DEF EO!Reply, EO!Final
<1>4. ASSUME NEW a \in Attempts, writes[a] = 0, writes' = [writes EXCEPT ![a] = @ + 1], told' = told,
             DurableStatus(a) = "InvocationStarted" \/ (Reconciles /\ DurableStatus(a) \in Evidence)
      PROVE  EO!Begin(a)
  <2>1. writes' = [writes EXCEPT ![a] = 1]
    BY <1>4 DEF TypeOK
  <2> QED BY <1>1, <1>4, <2>1 DEF EO!Begin, EO!Final, Evidence
<1> QED BY <1>2, <1>3, <1>4 DEF EO!Next

\* An append whose frame reached the file, whether its task goes on or dies.
LEMMA AnswersGrow ==
    ASSUME TypeOK, TasksAgree, OnceParts, JournalAgrees, StatusAgrees,
           NEW h \in Handlers, Appending(h), disk' = Append(disk, PendingRecord(h)), writes' = writes,
           up' => mem' = Append(mem, PendingRecord(h)),
           \A g \in Handlers \ {h} : hd'[g] = hd[g] \/ hd'[g].pc = "idle",
           \/ hd'[h].pc = "idle"
           \/ hd[h].pc = "accept" /\ hd'[h].pc = "start" /\ hd'[h].att = hd[h].att
           \/ hd[h].pc = "start" /\ hd'[h].pc = "invoke" /\ hd'[h].att = hd[h].att,
           \/ told' = told
           \/ /\ hd[h].pc \in {"sign", "record"}
              /\ told' = [told EXCEPT ![hd[h].att] = @ \cup ({hd[h].out} \cap {"Present", "Absent"})]
    PROVE  JournalAgrees' /\ StatusAgrees' /\ EO!Next
<1> DEFINE x == PendingRecord(h)
<1>1. PICK a \in Attempts : a = hd[h].att
  BY DEF Appending, TasksAgree
<1>2. PICK k : k = x.kind
  OBVIOUS
<1>3. /\ x \in Record /\ x.att = a /\ x.seq = Len(mem) + 1 /\ up /\ hd[h].pc # "idle"
      /\ hd[h].out \in Evidence
      /\ hd[h].pc = "accept" => k = "Accepted"
      /\ hd[h].pc = "start" => k = "InvocationStarted"
      /\ hd[h].pc \in {"sign", "record"} => k = hd[h].out
  BY <1>1, <1>2, PendingFacts, MoveFacts DEF Appending, TasksAgree
<1>4. disk = mem /\ Ordered(disk) /\ Whole(disk) /\ x.seq = Len(disk) + 1
  BY <1>3 DEF JournalAgrees
<1>5. /\ Ordered(disk') /\ Whole(disk') /\ StatusIn(disk', a) = k
      /\ \A b \in Attempts \ {a} : StatusIn(disk', b) = StatusIn(disk, b)
  <2> HIDE DEF x
  <2>1. disk' = Append(disk, x)
    BY DEF x
  <2> QED BY <1>2, <1>3, <1>4, <2>1, WholeAppend
<1>6. DurableStatus(a)' = k /\ \A b \in Attempts \ {a} : DurableStatus(b)' = DurableStatus(b)
  BY <1>5, StatusDef
<1>7. PendingMoves(h) /\ (hd[h].pc = "sign" => Reconciles)
  BY PendingForward
<1>8. JournalAgrees'
  BY <1>4, <1>5 DEF JournalAgrees, Ordered, Whole
<1>9. told[a] = {}
  <2>1. DurableStatus(a) \notin {"Present", "Absent"}
    BY <1>1, <1>7 DEF PendingMoves
  <2>2. told[a] \subseteq {"Present", "Absent"}
    BY DEF TypeOK
  <2> QED BY <2>1, <2>2 DEF StatusAgrees
<1>10. /\ told' = told \/ (k \in Evidence /\ told' = [told EXCEPT ![a] = @ \cup ({k} \cap {"Present", "Absent"})])
       /\ \A b \in Attempts \ {a} : told'[b] = told[b]
       /\ told'[a] # {} => told'[a] = {k}
  <2>1. told' = told \/ (k \in Evidence /\ told' = [told EXCEPT ![a] = @ \cup ({k} \cap {"Present", "Absent"})])
    BY <1>1, <1>3
  <2>2. told'[a] # {} => told'[a] = {k}
    BY <1>9, <2>1 DEF TypeOK
  <2> QED BY <2>1, <2>2 DEF TypeOK
<1>11. \A b \in Attempts : told'[b] # {} => told'[b] = {DurableStatus(b)'}
  BY <1>6, <1>10 DEF StatusAgrees
<1>12. ASSUME NEW g \in Handlers, hd'[g].pc # "idle"
       PROVE  LET s == StatusIn(disk', hd'[g].att) IN
              /\ hd'[g].pc = "start" => s = "Accepted"
              /\ hd'[g].pc = "sign" => s \in {"Accepted", "InvocationStarted", "Unknown"}
              /\ hd'[g].pc \in {"inspect", "sign"} => Reconciles
              /\ hd'[g].pc \in Invoking => s = "InvocationStarted" \/ (Reconciles /\ s \in Evidence)
  <2>1. CASE g = h
    BY <1>1, <1>3, <1>5, <1>12, <2>1 DEF Invoking
  <2>2. CASE g # h
    <3>1. hd'[g] = hd[g] /\ hd[g].att \in Attempts /\ hd[g].pc \notin {"start", "sign"}
      BY <1>12, <2>2, OneAppends DEF TasksAgree
    <3>2. CASE hd[g].att # a
      <4>1. StatusIn(disk', hd'[g].att) = DurableStatus(hd[g].att)
        BY <1>5, <3>1, <3>2, StatusDef
      <4> QED BY <3>1, <4>1 DEF StatusAgrees
    <3>3. CASE hd[g].att = a
      <4>1. hd[g].pc \in Invoking => hd[h].pc = "sign"
        BY <1>1, <2>2, <3>3 DEF OnceParts, OneExecutor, Executes, Executing, Invoking, Appending
      <4> QED BY <1>3, <1>5, <1>7, <3>1, <3>3, <4>1 DEF StatusAgrees
    <3> QED BY <3>2, <3>3
  <2> QED BY <2>1, <2>2
<1>13. StatusAgrees'
  BY <1>11, <1>12, StatusDef DEF StatusAgrees, Invoking
<1>14. EO!Next
  BY <1>1, <1>2, <1>6, <1>7, <1>10, ForwardRefines
<1> QED BY <1>8, <1>13, <1>14

\* A handler's own steps answer from the journal and implement ExecuteOnce.
LEMMA AnswersHandler ==
    ASSUME TypeOK, TasksAgree, OnceParts, JournalAgrees, StatusAgrees, NEW h \in Handlers, HandlerStep(h),
           TasksAgree'
    PROVE  JournalAgrees' /\ StatusAgrees' /\ [EO!Next]_(EO!vars)
<1> USE DEF environment, journal, history
<1>1. hd[h].att \in Attempts /\ up /\ hd[h].pc # "idle"
  BY DEF TasksAgree, TypeOK, HandlerStep, AdmitReplay, AdmitReject, AdmitFresh, AppendAccepted,
         AppendStarted, InvokeInspect, BeginWrite, EndWrite, RecordTerminal, ReconcileReply,
         ReconcileInspect, SignReconciliation
<1>2. ASSUME NEW n, hd' = [hd EXCEPT ![h] = n]
      PROVE  hd'[h] = n /\ \A g \in Handlers \ {h} : hd'[g] = hd[g]
  BY <1>2 DEF TypeOK
<1>3. \A g \in Handlers : hd'[g].pc # "idle" => hd'[g].att \in Attempts
  BY DEF TasksAgree
<1>4. ASSUME disk' = disk, mem' = mem, up' = up
      PROVE  /\ Ordered(disk') /\ (up' => disk' = mem' /\ Whole(disk'))
             /\ \A b \in Attempts : StatusIn(disk', b) = StatusIn(disk, b)
             /\ \A b \in Attempts : DurableStatus(b)' = DurableStatus(b)
  BY <1>4, StatusDef DEF JournalAgrees
<1>5. CASE AdmitReplay(h) \/ AdmitReject(h) \/ ReconcileReply(h)
  <2>1. hd'[h].pc = "idle" /\ \A g \in Handlers \ {h} : hd'[g] = hd[g]
    BY <1>2, <1>5 DEF AdmitReplay, AdmitReject, ReconcileReply, Finish, IdleHandler
  <2>2. disk' = disk /\ mem' = mem /\ up' = up /\ writes' = writes
    BY <1>5 DEF AdmitReplay, AdmitReject, ReconcileReply
  <2>3. told' = told \/ (Journaled(hd[h].att, Kind) /\ Tell(hd[h].att, Latest(hd[h].att).kind))
    BY <1>1, <1>5, IndexStatus DEF AdmitReplay, AdmitReject, ReconcileReply
  <2>4. \/ told' = told
        \/ \E a \in Attempts : /\ DurableStatus(a) \in {"Present", "Absent"}
                               /\ told' = [told EXCEPT ![a] = @ \cup {DurableStatus(a)}]
    BY <1>1, <2>3, TellFacts
  <2>5. \A b \in Attempts : told'[b] = told[b] \/ told'[b] = told[b] \cup {DurableStatus(b)}
    BY <2>4 DEF TypeOK
  <2>6. JournalAgrees' /\ StatusAgrees'
    BY <1>3, <1>4, <2>1, <2>2, <2>5, AnswersQuiet
  <2>7. [EO!Next]_(EO!vars)
    BY <1>4, <2>2, <2>4, QuietRefines
  <2> QED BY <2>6, <2>7
<1>6. CASE AdmitFresh(h)
  <2>0. hd' = [hd EXCEPT ![h] = [pc |-> "accept", att |-> hd[h].att, out |-> hd[h].out]]
    BY <1>6, MoveFacts DEF AdmitFresh, HandlerPc
  <2>1. hd'[h].pc = "accept" /\ \A g \in Handlers \ {h} : hd'[g] = hd[g]
    BY <1>2, <2>0
  <2>2. disk' = disk /\ mem' = mem /\ up' = up /\ writes' = writes /\ told' = told
    BY <1>6 DEF AdmitFresh
  <2>3. JournalAgrees' /\ StatusAgrees'
    BY <1>3, <1>4, <2>1, <2>2, AnswersQuiet
  <2> QED BY <1>4, <2>2, <2>3, QuietRefines
<1>7. CASE AppendAccepted(h)
  <2>0. hd' = [hd EXCEPT ![h] = [pc |-> "start", att |-> hd[h].att, out |-> hd[h].out]]
    BY <1>7, MoveFacts DEF AppendAccepted, HandlerPc
  <2>1. hd'[h].pc = "start" /\ hd'[h].att = hd[h].att /\ \A g \in Handlers \ {h} : hd'[g] = hd[g]
    BY <1>2, <2>0
  <2>2. Appending(h) /\ AppendPending(h) /\ hd[h].pc = "accept" /\ writes' = writes /\ told' = told
    BY <1>7 DEF AppendAccepted, Appending
  <2> QED BY <2>1, <2>2, AnswersGrow DEF AppendPending
<1>8. CASE AppendStarted(h)
  <2>0. hd' = [hd EXCEPT ![h] = [pc |-> "invoke", att |-> hd[h].att, out |-> hd[h].out]]
    BY <1>8, MoveFacts DEF AppendStarted, HandlerPc
  <2>1. hd'[h].pc = "invoke" /\ hd'[h].att = hd[h].att /\ \A g \in Handlers \ {h} : hd'[g] = hd[g]
    BY <1>2, <2>0
  <2>2. Appending(h) /\ AppendPending(h) /\ hd[h].pc = "start" /\ writes' = writes /\ told' = told
    BY <1>8 DEF AppendStarted, Appending
  <2> QED BY <2>1, <2>2, AnswersGrow DEF AppendPending
<1>9. CASE InvokeInspect(h) \/ EndWrite(h)
  <2>0. PICK out : hd' = [hd EXCEPT ![h] = [pc |-> "record", att |-> hd[h].att, out |-> out]]
    BY <1>9 DEF InvokeInspect, EndWrite, Decide
  <2>1. hd'[h].pc = "record" /\ hd'[h].att = hd[h].att /\ \A g \in Handlers \ {h} : hd'[g] = hd[g]
    BY <1>2, <2>0
  <2>2. hd[h].pc \in Invoking /\ hd'[h].pc \in Invoking
    BY <1>9, <2>1 DEF InvokeInspect, EndWrite, Invoking
  <2>3. disk' = disk /\ mem' = mem /\ up' = up /\ writes' = writes /\ told' = told
    BY <1>9 DEF InvokeInspect, EndWrite
  <2>4. JournalAgrees' /\ StatusAgrees'
    BY <1>3, <1>4, <2>1, <2>2, <2>3, AnswersQuiet
  <2> QED BY <1>4, <2>3, <2>4, QuietRefines
<1>10. CASE BeginWrite(h)
  <2>0. hd' = [hd EXCEPT ![h] = [pc |-> "write", att |-> hd[h].att, out |-> hd[h].out]]
    BY <1>10, MoveFacts DEF BeginWrite, HandlerPc
  <2>1. /\ hd'[h].pc = "write" /\ hd'[h].att = hd[h].att /\ \A g \in Handlers \ {h} : hd'[g] = hd[g]
        /\ hd[h].pc \in Invoking /\ hd'[h].pc \in Invoking
    BY <1>2, <1>10, <2>0 DEF BeginWrite, Invoking
  <2>2. disk' = disk /\ mem' = mem /\ up' = up /\ told' = told
        /\ writes' = [writes EXCEPT ![hd[h].att] = @ + 1]
    BY <1>10 DEF BeginWrite
  <2>3. JournalAgrees' /\ StatusAgrees'
    BY <1>3, <1>4, <2>1, <2>2, AnswersQuiet
  <2>4. /\ writes[hd[h].att] = 0
        /\ \/ DurableStatus(hd[h].att) = "InvocationStarted"
           \/ Reconciles /\ DurableStatus(hd[h].att) \in Evidence
    BY <1>10 DEF BeginWrite, OnceParts, WritesAgree, StatusAgrees, Invoking
  <2> QED BY <1>1, <1>4, <2>2, <2>3, <2>4, QuietRefines
<1>11. CASE RecordTerminal(h)
  <2>1. hd'[h].pc = "idle" /\ \A g \in Handlers \ {h} : hd'[g] = hd[g]
    BY <1>2, <1>11 DEF RecordTerminal, Finish, IdleHandler
  <2>2. up' = up /\ writes' = writes /\ hd[h].pc = "record" /\ mutex = None
    BY <1>11 DEF RecordTerminal
  <2>3. CASE Journaled(hd[h].att, Evidence)
    <3>1. disk' = disk /\ mem' = mem /\ told' = told
      BY <1>11, <2>3 DEF RecordTerminal
    <3>2. JournalAgrees' /\ StatusAgrees'
      BY <1>3, <1>4, <2>1, <2>2, <3>1, AnswersQuiet
    <3> QED BY <1>4, <2>2, <3>1, <3>2, QuietRefines
  <2>4. CASE ~Journaled(hd[h].att, Evidence)
    <3>1. Appending(h) /\ AppendPending(h) /\ Tell(hd[h].att, hd[h].out)
      BY <1>11, <2>4 DEF RecordTerminal, Appending
    <3> QED BY <2>1, <2>2, <3>1, AnswersGrow DEF AppendPending, Tell
  <2> QED BY <2>3, <2>4
<1>12. CASE ReconcileInspect(h)
  <2>0. PICK out : hd' = [hd EXCEPT ![h] = [pc |-> "sign", att |-> hd[h].att, out |-> out]]
    BY <1>12 DEF ReconcileInspect, Decide
  <2>1. hd'[h].pc = "sign" /\ hd'[h].att = hd[h].att /\ \A g \in Handlers \ {h} : hd'[g] = hd[g]
    BY <1>2, <2>0
  <2>2. disk' = disk /\ mem' = mem /\ up' = up /\ writes' = writes /\ told' = told
    BY <1>12 DEF ReconcileInspect
  <2>3. DurableStatus(hd[h].att) \in Kind \ {"Present", "Absent"}
    BY <1>1, <1>12, IndexStatus DEF ReconcileInspect, Definitive
  <2>4. DurableStatus(hd[h].att) \in {"Accepted", "InvocationStarted", "Unknown"} /\ hd[h].pc = "inspect"
    BY <1>12, <2>3 DEF Kind, Evidence, ReconcileInspect
  <2>5. JournalAgrees' /\ StatusAgrees'
    BY <1>3, <1>4, <2>1, <2>2, <2>4, AnswersQuiet
  <2> QED BY <1>4, <2>2, <2>5, QuietRefines
<1>13. CASE SignReconciliation(h)
  <2>1. hd'[h].pc = "idle" /\ \A g \in Handlers \ {h} : hd'[g] = hd[g]
    BY <1>2, <1>13 DEF SignReconciliation, Finish, IdleHandler
  <2>2. Appending(h) /\ AppendPending(h) /\ hd[h].pc = "sign" /\ writes' = writes
        /\ Tell(hd[h].att, hd[h].out)
    BY <1>13 DEF SignReconciliation, Appending
  <2> QED BY <2>1, <2>2, AnswersGrow DEF AppendPending, Tell
<1> QED BY <1>5, <1>6, <1>7, <1>8, <1>9, <1>10, <1>11, <1>12, <1>13 DEF HandlerStep

\* So do requests, restarts and the environment.
LEMMA AnswersOther ==
    ASSUME TypeOK, TasksAgree, OnceParts, JournalAgrees, StatusAgrees, OtherStep, TasksAgree',
           \A h \in Handlers : ~FailAppend(h)
    PROVE  JournalAgrees' /\ StatusAgrees' /\ [EO!Next]_(EO!vars)
<1> USE DEF environment, journal, history
<1>1. \A g \in Handlers : hd'[g].pc # "idle" => hd'[g].att \in Attempts
  BY DEF TasksAgree
<1>2. ASSUME disk' = disk, mem' = mem, up' = up
      PROVE  /\ Ordered(disk') /\ (up' => disk' = mem' /\ Whole(disk'))
             /\ \A b \in Attempts : StatusIn(disk', b) = StatusIn(disk, b)
             /\ \A b \in Attempts : DurableStatus(b)' = DurableStatus(b)
  BY <1>2, StatusDef DEF JournalAgrees
<1>3. ASSUME NEW h \in Handlers, NEW a \in Attempts, ReceiveExecute(h, a) \/ ReceiveReconcile(h, a)
      PROVE  JournalAgrees' /\ StatusAgrees' /\ [EO!Next]_(EO!vars)
  <2>1. \A g \in Handlers : hd'[g] = hd[g] \/ hd'[g].pc = "admit" \/ (hd'[g].pc = "inspect" /\ Reconciles)
    BY <1>3 DEF ReceiveExecute, ReceiveReconcile, TypeOK
  <2>2. disk' = disk /\ mem' = mem /\ up' = up /\ writes' = writes /\ told' = told
    BY <1>3 DEF ReceiveExecute, ReceiveReconcile
  <2>3. JournalAgrees' /\ StatusAgrees'
    BY <1>1, <1>2, <2>1, <2>2, AnswersQuiet
  <2> QED BY <1>2, <2>2, <2>3, QuietRefines
<1>4. ASSUME NEW a \in Attempts, QueryOnly(a) PROVE JournalAgrees' /\ StatusAgrees' /\ [EO!Next]_(EO!vars)
  <2>1. disk' = disk /\ mem' = mem /\ up' = up /\ writes' = writes /\ hd' = hd
    BY <1>4 DEF QueryOnly
  <2>2. \/ told' = told
        \/ /\ DurableStatus(a) \in {"Present", "Absent"}
           /\ told' = [told EXCEPT ![a] = @ \cup {DurableStatus(a)}]
    BY <1>4, TellFacts DEF QueryOnly
  <2>3. \A b \in Attempts : told'[b] = told[b] \/ told'[b] = told[b] \cup {DurableStatus(b)}
    BY <2>2 DEF TypeOK
  <2>4. JournalAgrees' /\ StatusAgrees'
    BY <1>1, <1>2, <2>1, <2>3, AnswersQuiet
  <2> QED BY <1>2, <2>1, <2>2, <2>4, QuietRefines
<1>5. ASSUME disk' = disk, mem' = mem, up' = up, writes' = writes, told' = told, hd' = hd
      PROVE  JournalAgrees' /\ StatusAgrees' /\ [EO!Next]_(EO!vars)
  <2>1. JournalAgrees' /\ StatusAgrees'
    BY <1>1, <1>2, <1>5, AnswersQuiet
  <2> QED BY <1>2, <1>5, <2>1, QuietRefines
<1>6. ASSUME NEW a \in Attempts, Revoke(a) \/ Edit(a)
      PROVE  JournalAgrees' /\ StatusAgrees' /\ [EO!Next]_(EO!vars)
  BY <1>5, <1>6 DEF Revoke, Edit
<1>7. CASE Crash
  <2>1. /\ \A g \in Handlers : hd'[g].pc = "idle"
        /\ mem' = <<>> /\ up' = FALSE /\ writes' = writes /\ told' = told /\ up
    BY <1>7 DEF Crash, IdleHandler
  <2>2. ASSUME Ordered(disk'), \A b \in Attempts : StatusIn(disk', b) = StatusIn(disk, b)
        PROVE  JournalAgrees' /\ StatusAgrees' /\ [EO!Next]_(EO!vars)
    <3>1. JournalAgrees' /\ StatusAgrees'
      BY <1>1, <2>1, <2>2, AnswersQuiet
    <3>2. \A b \in Attempts : DurableStatus(b)' = DurableStatus(b)
      BY <2>2, StatusDef
    <3> QED BY <2>1, <3>1, <3>2, QuietRefines
  <2>3. CASE disk' = disk
    BY <2>2, <2>3 DEF JournalAgrees
  <2>4. CASE disk' = Append(disk, Torn)
    <3>1. Ordered(disk) /\ Whole(disk)
      BY <2>1 DEF JournalAgrees
    <3> QED BY <2>2, <2>4, <3>1, TornAppend
  <2>5. ASSUME NEW h \in Handlers, Appending(h), disk' = Append(disk, PendingRecord(h))
        PROVE  JournalAgrees' /\ StatusAgrees' /\ [EO!Next]_(EO!vars)
    BY <2>1, <2>5, AnswersGrow
  <2> QED BY <1>7, <2>3, <2>4, <2>5, CrashFacts
<1>8. CASE Open
  <2>1. PICK n \in 0..Len(disk) :
           /\ \A i \in 1..n : i \notin Unreadable
           /\ n < Len(disk) => disk[n + 1] = Torn
           /\ mem' = SubSeq(disk, 1, n) /\ disk' = SubSeq(disk, 1, n)
    BY <1>8 DEF Open
  <2>2. \A i \in 1..n : disk[i].seq = i
    <3>1. Len(disk) \in Nat
      BY DEF TypeOK
    <3> QED BY <2>1, <3>1 DEF Unreadable
  <2>3. Ordered(disk') /\ Whole(disk') /\ \A b \in Attempts : StatusIn(disk', b) = StatusIn(disk, b)
    BY <2>1, <2>2, OrderedCut DEF JournalAgrees
  <2>4. disk' = mem' /\ hd' = hd /\ writes' = writes /\ told' = told
    BY <1>8, <2>1 DEF Open
  <2>5. JournalAgrees' /\ StatusAgrees'
    BY <1>1, <2>3, <2>4, AnswersQuiet
  <2>6. \A b \in Attempts : DurableStatus(b)' = DurableStatus(b)
    BY <2>3, StatusDef
  <2> QED BY <2>4, <2>5, <2>6, QuietRefines
<1>9. CASE UNCHANGED vars
  BY <1>5, <1>9 DEF vars
<1> QED BY <1>3, <1>4, <1>6, <1>7, <1>8, <1>9 DEF OtherStep

\* An empty journal.
LEMMA AnswersInit == Init => AnswersInvariant /\ EO!Init
<1> SUFFICES ASSUME Init PROVE AnswersInvariant /\ EO!Init
  OBVIOUS
<1>1. disk = <<>> /\ mem = <<>>
  BY DEF Init
<1>2. Ordered(disk) /\ Whole(disk)
  BY <1>1 DEF Ordered, Whole
<1>3. \A a : DurableStatus(a) = "none"
  BY <1>1, StatusNone, StatusDef
<1>4. AnswersInvariant
  BY <1>1, <1>2 DEF AnswersInvariant, JournalAgrees, StatusAgrees, Init, IdleHandler, Invoking
<1> QED BY <1>3, <1>4 DEF Init, EO!Init

\* No step but a failed append counts a failure.
LEMMA FailureCount ==
    ASSUME TypeOK, [Next]_vars
    PROVE  /\ used'.failures = 0 => used.failures = 0 /\ \A h \in Handlers : ~FailAppend(h)
           /\ MaxFailures = 0 => used'.failures = used.failures /\ \A h \in Handlers : ~FailAppend(h)
<1> USE DEF TypeOK
<1>1. ASSUME NEW h \in Handlers, FailAppend(h)
      PROVE  used'.failures = used.failures + 1 /\ used.failures < MaxFailures
  BY <1>1 DEF FailAppend
<1>2. (\E h \in Handlers : FailAppend(h)) \/ used'.failures = used.failures
  BY DEF Next, HandlerStep, AdmitReplay, AdmitReject, AdmitFresh, AppendAccepted,
         AppendStarted, InvokeInspect, BeginWrite, EndWrite, RecordTerminal, ReconcileReply,
         ReconcileInspect, SignReconciliation, ReceiveExecute, ReceiveReconcile, QueryOnly, Revoke,
         Edit, Crash, Open, vars
<1> QED BY <1>1, <1>2

\* One step, as long as no append has failed.
LEMMA AnswersStep ==
    ASSUME OnceInvariant, TasksAgree', JournalAgrees, StatusAgrees, [Next]_vars,
           \A h \in Handlers : ~FailAppend(h)
    PROVE  JournalAgrees' /\ StatusAgrees' /\ [EO!Next]_(EO!vars)
<1>1. TypeOK /\ TasksAgree /\ OnceParts
  BY DEF OnceInvariant, OnceParts
<1>2. ASSUME NEW h \in Handlers, HandlerStep(h) PROVE JournalAgrees' /\ StatusAgrees' /\ [EO!Next]_(EO!vars)
  BY <1>1, <1>2, AnswersHandler
<1>3. OtherStep => JournalAgrees' /\ StatusAgrees' /\ [EO!Next]_(EO!vars)
  BY <1>1, AnswersOther
<1> QED BY <1>2, <1>3 DEF Next, OtherStep

\* As long as no append has failed, the journal is in order and every task and
\* client relies on what it answers (Journal::append, Journal::open).
THEOREM AnswersCorrect == Spec => []AnswersInvariant
<1>1. Init => AnswersInvariant
  BY AnswersInit
<1>2. AnswersInvariant /\ OnceInvariant /\ OnceInvariant' /\ [Next]_vars => AnswersInvariant'
  <2> SUFFICES ASSUME AnswersInvariant, OnceInvariant, OnceInvariant', [Next]_vars,
                      used'.failures = 0
               PROVE  JournalAgrees' /\ StatusAgrees'
    BY DEF AnswersInvariant
  <2>1. used.failures = 0 /\ \A h \in Handlers : ~FailAppend(h)
    BY FailureCount DEF OnceInvariant
  <2> QED BY <2>1, AnswersStep DEF AnswersInvariant, OnceInvariant
<1> QED BY <1>1, <1>2, OnceCorrect, PTL DEF Spec

\* Until an append fails, the journal can be opened again whenever the process
\* ends: at most its last frame is torn (JournalReopens).
THEOREM ReopensCorrect == Spec => [](used.failures = 0 => JournalReopens)
<1>1. AnswersInvariant => (used.failures = 0 => JournalReopens)
  BY DEF AnswersInvariant, JournalAgrees, Ordered, JournalReopens, Unreadable
<1> QED BY <1>1, AnswersCorrect, PTL

\* Until an append fails, the definitive evidence a client was told is what the
\* journal answers ever after (EvidenceIsDurable).
THEOREM DurableCorrect == Spec => [](used.failures = 0 => EvidenceIsDurable)
<1>1. OnceInvariant /\ AnswersInvariant => (used.failures = 0 => EvidenceIsDurable)
  <2> SUFFICES ASSUME OnceInvariant, AnswersInvariant, used.failures = 0, up,
                      NEW a \in Attempts, told[a] # {}
               PROVE  Journaled(a, Kind) /\ told[a] = {Latest(a).kind}
    BY DEF EvidenceIsDurable
  <2>1. TypeOK /\ JournalAgrees /\ told[a] = {DurableStatus(a)}
    BY DEF OnceInvariant, AnswersInvariant, StatusAgrees
  <2>2. DurableStatus(a) \in {"Present", "Absent"}
    <3>1. told[a] \subseteq {"Present", "Absent"}
      BY <2>1 DEF TypeOK
    <3> QED BY <2>1, <3>1
  <2>3. DurableStatus(a) # "none"
    BY <2>2
  <2> QED BY <2>1, <2>3, IndexStatus
<1> QED BY <1>1, OnceCorrect, AnswersCorrect, PTL

\* A recorder that ends when an append fails implements ExecuteOnce, however its
\* handlers overlap, requests repeat and files are edited, and wherever the
\* process dies (ImplementsExecuteOnce).
THEOREM RefinementCorrect ==
    ASSUME MaxFailures = 0
    PROVE  Spec => ImplementsExecuteOnce
<1>1. Init => EO!Init /\ used.failures = 0
  BY AnswersInit DEF Init
<1>2. OnceInvariant /\ used.failures = 0 /\ [Next]_vars => (used.failures = 0)'
  BY FailureCount DEF OnceInvariant
<1>3. OnceInvariant /\ OnceInvariant' /\ AnswersInvariant /\ used.failures = 0 /\ [Next]_vars
      => [EO!Next]_(EO!vars)
  <2> SUFFICES ASSUME OnceInvariant, OnceInvariant', AnswersInvariant, used.failures = 0, [Next]_vars
               PROVE  [EO!Next]_(EO!vars)
    OBVIOUS
  <2>1. \A h \in Handlers : ~FailAppend(h)
    BY FailureCount DEF OnceInvariant
  <2> QED BY <2>1, AnswersStep DEF AnswersInvariant, OnceInvariant
<1> QED BY <1>1, <1>2, <1>3, OnceCorrect, AnswersCorrect, PTL DEF Spec, ImplementsExecuteOnce, EO!Spec

=============================================================================
