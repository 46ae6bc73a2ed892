----------------------------- MODULE EffectRecorder -----------------------------
(***************************************************************************)
(* The out-of-process execute-once recorder (carsinos-effect-recorder): a  *)
(* service that runs one task per connection, a journal of signed records  *)
(* behind a mutex, and the exact-overwrite adapter, which replaces the     *)
(* content of one file per attempt.                                        *)
(*                                                                         *)
(* ExecuteOnce journals Accepted and InvocationStarted under the mutex,    *)
(* releases it, overwrites the file and journals the outcome.  Reconcile   *)
(* inspects the file and journals its own evidence, QueryOnly reads.       *)
(* Requests are repeated, the process crashes between and during steps, a  *)
(* write of the journal or of the file fails, and other programs edit the  *)
(* file.                                                                   *)
(*                                                                         *)
(* Abstractions.  An attempt has one command (another command digest for   *)
(* the same attempt is a CommandConflict and changes nothing); signatures, *)
(* digests and the hash chain are the record's position `seq`; a file is   *)
(* what inspect_current tells apart.  Requests that fail authentication    *)
(* or whose reconciliation window is still open change nothing.            *)
(***************************************************************************)
EXTENDS Naturals, Sequences, FiniteSets

CONSTANTS
    Attempts,       \* provider attempts, one command and one file each
    Handlers,       \* connection tasks of the service
    None,           \* nobody holds the journal mutex
    Reconciles,     \* do clients send Reconcile requests?
    MaxRequests,    \* bound on the requests received
    MaxCrashes,     \* bound on process crashes
    MaxFailures,    \* bound on failed journal appends
    MaxEdits        \* bound on edits of the files by other programs

ASSUME RecorderAssumption ==
    /\ None \notin Attempts /\ None \notin Handlers
    /\ Reconciles \in BOOLEAN
    /\ MaxRequests \in Nat /\ MaxCrashes \in Nat
    /\ MaxFailures \in Nat /\ MaxEdits \in Nat

VARIABLES
    authority,  \* what the read-only database proves of each attempt
    file,       \* content of each attempt's target file
    disk,       \* journal.v1: the frames in the file
    mem,        \* Journal.records, the verified and indexed records
    up,         \* is the recorder process running?
    mutex,      \* the handler that holds the journal across steps
    hd,         \* the connection tasks
    writes,     \* history: overwrites begun for each attempt
    told,       \* history: definitive evidence sent to a client
    used        \* how much of each bound is used up

vars == <<authority, file, disk, mem, up, mutex, hd, writes, told, used>>

journal == <<disk, mem>>
environment == <<authority, file>>
history == <<writes, told>>

-----------------------------------------------------------------------------
Evidence == {"Present", "Absent", "Unknown"}
Kind == Evidence \cup {"Accepted", "InvocationStarted"}
FileState == {"original", "replacement", "other"}

\* "live": the attempt is invoking under live fences (verify); "held": only
\* its reservations are still held (verify_reconciliation_reservations);
\* "closed": neither.
Authority == {"live", "held", "closed"}

\* "admit": ExecuteOnce waits for the mutex; "accept", "start": it appends its
\* two records; "invoke", "write": inside the adapter; "record": it waits to
\* journal the outcome.  "inspect", "sign": the two halves of Reconcile.
HandlerPc == {"idle", "admit", "accept", "start", "invoke", "write", "record",
              "inspect", "sign"}

IdleHandler == [pc |-> "idle", att |-> None, out |-> "Unknown"]

Record == [seq: Nat \ {0}, att: Attempts, kind: Kind, src: {"execution", "reconciliation"}]

\* A frame whose write stopped before its last byte.
Torn == [seq |-> 0, att |-> None, kind |-> "Unknown", src |-> "execution"]

\* The service and the journal hold values of their types: whole records of
\* known attempts in memory, possibly torn frames on disk.
TypeOK ==
    /\ authority \in [Attempts -> Authority]
    /\ file \in [Attempts -> FileState]
    /\ disk \in Seq(Record \cup {Torn})
    /\ mem \in Seq(Record)
    /\ up \in BOOLEAN
    /\ mutex \in Handlers \cup {None}
    /\ hd \in [Handlers -> [pc: HandlerPc, att: Attempts \cup {None}, out: Evidence]]
    /\ writes \in [Attempts -> Nat]
    /\ told \in [Attempts -> SUBSET {"Present", "Absent"}]
    /\ used \in [requests: Nat, crashes: Nat, failures: Nat, edits: Nat]

Init ==
    /\ authority = [a \in Attempts |-> "live"]
    /\ file = [a \in Attempts |-> "original"]
    /\ disk = <<>> /\ mem = <<>>
    /\ up = TRUE
    /\ mutex = None
    /\ hd = [h \in Handlers |-> IdleHandler]
    /\ writes = [a \in Attempts |-> 0]
    /\ told = [a \in Attempts |-> {}]
    /\ used = [requests |-> 0, crashes |-> 0, failures |-> 0, edits |-> 0]

-----------------------------------------------------------------------------
(* The journal. *)

\* Mutant: an attempt without an outcome is executed again.
ExecutionRecordsOutcomeOnly(a) ==
    {i \in 1..Len(mem) : mem[i].att = a /\ mem[i].kind \in Evidence}

\* records_for, as execution_state and admit_verified_execution ask it.
ExecutionRecords(a) == {i \in 1..Len(mem) : mem[i].att = a}

Journaled(a, kinds) == \E i \in 1..Len(mem) : mem[i].att = a /\ mem[i].kind \in kinds

\* query: the attempt's latest record.
Latest(a) ==
    mem[CHOOSE i \in 1..Len(mem) :
          mem[i].att = a /\ \A j \in i + 1..Len(mem) : mem[j].att # a]

\* The latest record is evidence that no reconciliation may follow.
Definitive(a) == Journaled(a, Kind) /\ Latest(a).kind \in {"Present", "Absent"}

NewRecord(a, kind, src) == [seq |-> Len(mem) + 1, att |-> a, kind |-> kind, src |-> src]

\* The record handler h appends in its next step.
PendingRecord(h) ==
    LET a == hd[h].att IN
    CASE hd[h].pc = "accept" -> NewRecord(a, "Accepted", "execution")
      [] hd[h].pc = "start"  -> NewRecord(a, "InvocationStarted", "execution")
      [] hd[h].pc = "sign"   -> NewRecord(a, hd[h].out, "reconciliation")
      [] OTHER               -> NewRecord(a, hd[h].out, "execution")

\* h is about to append: it holds the mutex, or it takes it to record an
\* outcome no evidence precedes.
Appending(h) ==
    \/ hd[h].pc \in {"accept", "start", "sign"}
    \/ hd[h].pc = "record" /\ mutex = None /\ ~Journaled(hd[h].att, Evidence)

\* append and index_record, when every write succeeds.
AppendPending(h) ==
    /\ disk' = Append(disk, PendingRecord(h))
    /\ mem' = Append(mem, PendingRecord(h))

\* What scan_and_recover_torn_tail cannot read as the next record.
Unreadable == {i \in 1..Len(disk) : disk[i].seq # i}

-----------------------------------------------------------------------------
(* Handler bookkeeping. *)

Goto(h, pc) == hd' = [hd EXCEPT ![h].pc = pc]
Finish(h) == hd' = [hd EXCEPT ![h] = IdleHandler]
Decide(h, pc, out) == hd' = [hd EXCEPT ![h] = [pc |-> pc, att |-> @.att, out |-> out]]
Tell(a, kind) == told' = [told EXCEPT ![a] = @ \cup ({kind} \cap {"Present", "Absent"})]

-----------------------------------------------------------------------------
(* ExecuteOnce. *)

\* supports_exact_overwrite is asked before the mutex; a file in another state
\* rejects the request.
ReceiveExecute(h, a) ==
    /\ up /\ hd[h].pc = "idle" /\ used.requests < MaxRequests
    /\ file[a] \in {"original", "replacement"}
    /\ hd' = [hd EXCEPT ![h] = [pc |-> "admit", att |-> a, out |-> "Unknown"]]
    /\ used' = [used EXCEPT !.requests = @ + 1]
    /\ UNCHANGED <<environment, journal, up, mutex, history>>

\* execution_state: anything journaled for the attempt is replayed.
AdmitReplay(h) ==
    /\ hd[h].pc = "admit" /\ mutex = None
    /\ ExecutionRecords(hd[h].att) # {}
    /\ Tell(hd[h].att, Latest(hd[h].att).kind)
    /\ Finish(h)
    /\ UNCHANGED <<environment, journal, up, mutex, writes, used>>

\* The verifier does not prove the attempt: the request is rejected.
AdmitReject(h) ==
    /\ hd[h].pc = "admit" /\ mutex = None
    /\ ExecutionRecords(hd[h].att) = {}
    /\ authority[hd[h].att] # "live"
    /\ Finish(h)
    /\ UNCHANGED <<environment, journal, up, mutex, history, used>>

\* The mutex stays with h until InvocationStarted is on disk.
AdmitFresh(h) ==
    /\ hd[h].pc = "admit" /\ mutex = None
    /\ ExecutionRecords(hd[h].att) = {}
    /\ authority[hd[h].att] = "live"
    /\ mutex' = h
    /\ Goto(h, "accept")
    /\ UNCHANGED <<environment, journal, up, history, used>>

AppendAccepted(h) ==
    /\ hd[h].pc = "accept"
    /\ AppendPending(h)
    /\ Goto(h, "start")
    /\ UNCHANGED <<environment, up, mutex, history, used>>

\* mark_invocation_started; the guard is dropped before the provider is called.
AppendStarted(h) ==
    /\ hd[h].pc = "start"
    /\ AppendPending(h)
    /\ mutex' = None
    /\ Goto(h, "invoke")
    /\ UNCHANGED <<environment, up, history, used>>

\* invoke_exact_overwrite up to the hash of the open file: already replaced is
\* Present, anything but the preimage is a definite Absent.
InvokeInspect(h) ==
    /\ hd[h].pc = "invoke"
    /\ file[hd[h].att] # "original"
    /\ Decide(h, "record", IF file[hd[h].att] = "replacement" THEN "Present" ELSE "Absent")
    /\ UNCHANGED <<environment, journal, up, mutex, history, used>>

\* The preimage is there: the file is overwritten in place from its start.
BeginWrite(h) ==
    /\ hd[h].pc = "invoke"
    /\ file[hd[h].att] = "original"
    /\ file' = [file EXCEPT ![hd[h].att] = "other"]
    /\ writes' = [writes EXCEPT ![hd[h].att] = @ + 1]
    /\ Goto(h, "write")
    /\ UNCHANGED <<authority, journal, up, mutex, told, used>>

\* Mutant: a failed overwrite counts as a failed precondition.
EndWriteAbsent(h) ==
    /\ hd[h].pc = "write"
    /\ \/ /\ file' = [file EXCEPT ![hd[h].att] = "replacement"]
          /\ Decide(h, "record", "Present")
       \/ /\ file' = file
          /\ Decide(h, "record", "Absent")
    /\ UNCHANGED <<authority, journal, up, mutex, history, used>>

\* The overwrite succeeds and its hash is verified, or any step of it fails,
\* before or after the last byte: the outcome is ambiguous.
EndWrite(h) ==
    /\ hd[h].pc = "write"
    /\ \/ /\ file' = [file EXCEPT ![hd[h].att] = "replacement"]
          /\ Decide(h, "record", "Present")
       \/ /\ \E content \in {"replacement", file[hd[h].att]} :
               file' = [file EXCEPT ![hd[h].att] = content]
          /\ Decide(h, "record", "Unknown")
    /\ UNCHANGED <<authority, journal, up, mutex, history, used>>

\* Mutant: the caller is told its own outcome although other evidence won.
RecordTerminalTells(h) ==
    /\ hd[h].pc = "record" /\ mutex = None
    /\ IF Journaled(hd[h].att, Evidence) THEN UNCHANGED journal ELSE AppendPending(h)
    /\ Tell(hd[h].att, hd[h].out)
    /\ Finish(h)
    /\ UNCHANGED <<environment, up, mutex, writes, used>>

\* record_terminal: evidence that is already there wins (AlreadyTerminal) and
\* the caller is told an error.
RecordTerminal(h) ==
    /\ hd[h].pc = "record" /\ mutex = None
    /\ IF Journaled(hd[h].att, Evidence)
       THEN UNCHANGED <<journal, told>>
       ELSE AppendPending(h) /\ Tell(hd[h].att, hd[h].out)
    /\ Finish(h)
    /\ UNCHANGED <<environment, up, mutex, writes, used>>

-----------------------------------------------------------------------------
(* Reconcile and QueryOnly. *)

ReceiveReconcile(h, a) ==
    /\ Reconciles /\ up /\ hd[h].pc = "idle" /\ used.requests < MaxRequests
    /\ hd' = [hd EXCEPT ![h] = [pc |-> "inspect", att |-> a, out |-> "Unknown"]]
    /\ used' = [used EXCEPT !.requests = @ + 1]
    /\ UNCHANGED <<environment, journal, up, mutex, history>>

\* Nothing is journaled (NotFound), the evidence is definitive or belongs to
\* the same window (replayed), or the reservations are not held (rejected).
ReconcileReply(h) ==
    LET a == hd[h].att
        sameWindow == Latest(a).src = "reconciliation"
    IN
    /\ hd[h].pc = "inspect" /\ mutex = None
    /\ \/ ~Journaled(a, Kind) /\ UNCHANGED told
       \/ Journaled(a, Kind) /\ (Definitive(a) \/ sameWindow) /\ Tell(a, Latest(a).kind)
       \/ Journaled(a, Kind) /\ ~Definitive(a) /\ authority[a] = "closed" /\ UNCHANGED told
    /\ Finish(h)
    /\ UNCHANGED <<environment, journal, up, mutex, writes, used>>

\* What reconcile_exact_overwrite reads from a file.
Inspected(state) ==
    CASE state = "replacement" -> "Present"
      [] state = "original"    -> "Absent"
      [] state = "other"       -> "Unknown"

\* The mutex is held from here to the append.  An attempt that was only
\* accepted is Absent without a look at the file.
ReconcileInspect(h) ==
    LET a == hd[h].att IN
    /\ hd[h].pc = "inspect" /\ mutex = None
    /\ Journaled(a, Kind) /\ ~Definitive(a)
    /\ authority[a] # "closed"
    /\ mutex' = h
    /\ Decide(h, "sign", IF Latest(a).kind = "Accepted" THEN "Absent" ELSE Inspected(file[a]))
    /\ UNCHANGED <<environment, journal, up, history, used>>

\* record_reconciliation
SignReconciliation(h) ==
    /\ hd[h].pc = "sign"
    /\ AppendPending(h)
    /\ Tell(hd[h].att, hd[h].out)
    /\ mutex' = None
    /\ Finish(h)
    /\ UNCHANGED <<environment, up, writes, used>>

QueryOnly(a) ==
    /\ up /\ mutex = None
    /\ Journaled(a, Kind)
    /\ Tell(a, Latest(a).kind)
    /\ UNCHANGED <<environment, journal, up, mutex, hd, writes, used>>

-----------------------------------------------------------------------------
(* Failures. *)

\* Mutant: the failed append keeps the journal locked.
FailAppendLocked(h) ==
    /\ Appending(h) /\ used.failures < MaxFailures
    /\ disk' \in {disk, Append(disk, Torn), Append(disk, PendingRecord(h))}
    /\ Finish(h)
    /\ used' = [used EXCEPT !.failures = @ + 1]
    /\ UNCHANGED <<environment, mem, up, mutex, history>>

\* append returns an I/O error: no byte, some bytes or the whole frame reached
\* the file, the record is not indexed, and the service goes on.
FailAppend(h) ==
    /\ Appending(h) /\ used.failures < MaxFailures
    /\ disk' \in {disk, Append(disk, Torn), Append(disk, PendingRecord(h))}
    /\ mutex' = IF mutex = h THEN None ELSE mutex
    /\ Finish(h)
    /\ used' = [used EXCEPT !.failures = @ + 1]
    /\ UNCHANGED <<environment, mem, up, history>>

\* The process ends, possibly inside an append.
Crash ==
    /\ up /\ used.crashes < MaxCrashes
    /\ disk' \in {disk} \cup UNION {{Append(disk, Torn), Append(disk, PendingRecord(h))} :
                                      h \in {g \in Handlers : Appending(g)}}
    /\ mem' = <<>> /\ up' = FALSE /\ mutex' = None
    /\ hd' = [h \in Handlers |-> IdleHandler]
    /\ used' = [used EXCEPT !.crashes = @ + 1]
    /\ UNCHANGED <<environment, history>>

\* Mutant: the torn tail is skipped but stays in the file.
OpenKeepsTail ==
    /\ ~up
    /\ \E n \in 0..Len(disk) :
         /\ \A i \in 1..n : i \notin Unreadable
         /\ n < Len(disk) => disk[n + 1] = Torn /\ Len(disk) <= n + 2
         /\ mem' = SubSeq(disk, 1, n) /\ disk' = disk
    /\ up' = TRUE
    /\ UNCHANGED <<environment, mutex, hd, history, used>>

\* Mutant: the last whole record is cut off with the tail.
OpenCutsRecord ==
    /\ ~up
    /\ \E n \in 0..Len(disk) :
         /\ \A i \in 1..n : i \notin Unreadable
         /\ n < Len(disk) => disk[n + 1] = Torn /\ Len(disk) <= n + 2
         /\ mem' = SubSeq(disk, 1, n - 1) /\ disk' = SubSeq(disk, 1, n - 1)
    /\ up' = TRUE
    /\ UNCHANGED <<environment, mutex, hd, history, used>>

\* open: the whole file is read and verified.  A torn frame ends it when no
\* more bytes follow than the frame announces: nothing, or one shorter record.
\* Everything else that cannot be read is Corrupt and the service stays down.
Open ==
    /\ ~up
    /\ \E n \in 0..Len(disk) :
         /\ \A i \in 1..n : i \notin Unreadable
         /\ n < Len(disk) => disk[n + 1] = Torn /\ Len(disk) <= n + 2
         /\ mem' = SubSeq(disk, 1, n) /\ disk' = SubSeq(disk, 1, n)
    /\ up' = TRUE
    /\ UNCHANGED <<environment, mutex, hd, history, used>>

\* The gateway's database: the fences lapse, then the reservations are closed.
Revoke(a) ==
    /\ authority[a] # "closed"
    /\ authority' = [authority EXCEPT ![a] = IF @ = "live" THEN "held" ELSE "closed"]
    /\ UNCHANGED <<file, journal, up, mutex, hd, history, used>>

\* Another program changes the target file.
Edit(a) ==
    /\ used.edits < MaxEdits
    /\ \E content \in FileState \ {file[a]} : file' = [file EXCEPT ![a] = content]
    /\ used' = [used EXCEPT !.edits = @ + 1]
    /\ UNCHANGED <<authority, journal, up, mutex, hd, history>>

-----------------------------------------------------------------------------
HandlerStep(h) ==
    \/ AdmitReplay(h) \/ AdmitReject(h) \/ AdmitFresh(h)
    \/ AppendAccepted(h) \/ AppendStarted(h)
    \/ InvokeInspect(h) \/ BeginWrite(h) \/ EndWrite(h) \/ RecordTerminal(h)
    \/ ReconcileReply(h) \/ ReconcileInspect(h) \/ SignReconciliation(h)

Next ==
    \/ \E h \in Handlers : HandlerStep(h) \/ FailAppend(h)
    \/ \E h \in Handlers, a \in Attempts : ReceiveExecute(h, a) \/ ReceiveReconcile(h, a)
    \/ \E a \in Attempts : QueryOnly(a) \/ Revoke(a) \/ Edit(a)
    \/ Crash \/ Open

Spec == Init /\ [][Next]_vars

\* A connection task runs until it has replied: the runtime polls it and the
\* mutex is handed to whoever waits.
FairSpec == Spec /\ \A h \in Handlers : WF_vars(HandlerStep(h))

-----------------------------------------------------------------------------
(* Properties. *)

\* The recorder begins the overwrite of an attempt at most once, however often
\* the command is repeated, the process restarts or an append fails, and
\* whatever other programs do to the file (execution_state, Accepted and
\* InvocationStarted on disk before the invocation).
InvokedAtMostOnce == \A a \in Attempts : writes[a] <= 1

\* Definitive evidence a client has seen is what the journal answers from then
\* on: it was on disk before the reply, survives crashes and torn tails, and no
\* later client is told the opposite.
EvidenceIsDurable ==
    up => \A a \in Attempts :
            told[a] # {} => Journaled(a, Kind) /\ told[a] = {Latest(a).kind}

\* An execution that reports Absent (definite_absent) never began to write.
ExecutionAbsentNeverWrote ==
    \A i \in 1..Len(mem) :
        mem[i].kind = "Absent" /\ mem[i].src = "execution" => writes[mem[i].att] = 0

\* The journal the recorder wrote can be opened again: at most its last frame
\* is torn (torn_tail_is_truncated_but_interior_corruption_fails).
JournalReopens == \A i \in Unreadable : disk[i] = Torn /\ i = Len(disk)

\* Every request is answered or dies with the process: no handler waits for
\* the mutex forever, failed appends included.
RequestIsAnswered == \A h \in Handlers : hd[h].pc # "idle" ~> hd[h].pc = "idle"

\* The status of an attempt that would survive a crash now: its last record in
\* the part of the file that can be read.
Durable == {i \in 1..Len(disk) : \A j \in 1..i : disk[j].seq = j}
DurableStatus(a) ==
    LET own == {i \in Durable : disk[i].att = a} IN
    IF own = {} THEN "none"
    ELSE disk[CHOOSE i \in own : \A j \in own : j <= i].kind

\* The recorder implements ExecuteOnce: however handlers overlap and wherever
\* the process dies, its journal file behaves as one status per attempt that
\* moves forward, the write begins once and after a durable start, and clients
\* are told only what is durable.
EO == INSTANCE ExecuteOnce WITH status <- [a \in Attempts |-> DurableStatus(a)],
                                begun <- writes, answered <- told
ImplementsExecuteOnce == EO!Spec

=============================================================================
