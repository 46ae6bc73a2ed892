------------------------------ MODULE ReceiptAnchor ------------------------------
(***************************************************************************)
(* The receipt journal and its external anchor (receipt.rs,                *)
(* receipt_integrity.rs).  Every ledger mutation appends one receipt.  The *)
(* receipt and an anchor row commit in one SQLite transaction; documents   *)
(* outside the database (a prepared file, a finalized version and the      *)
(* current file) let a restart prove which receipts exist.                 *)
(*                                                                         *)
(* Tasks append inside the running gateway, serialised by the append lock. *)
(* Starters are processes that start: each recovers the anchor before it   *)
(* asks for the runtime-host ownership, and takes no append lock.  A       *)
(* document is written by an atomic replace, a transaction holds SQLite's  *)
(* writer lock, and a process can die between any two steps.               *)
(*                                                                         *)
(* Abstractions.  A receipt is the event that caused it; digests and tags  *)
(* identify what they cover; the chain of a delegation is a subsequence of *)
(* the global chain, so one head stands for both; there is one key, which  *)
(* may be lost (the gateway never asks for a rotation).                    *)
(***************************************************************************)
EXTENDS Naturals, Sequences, FiniteSets

CONSTANTS
    Events,             \* outbox events that cause a receipt
    Tasks,              \* appending tasks of the running gateway
    Starters,           \* gateway processes that start
    None,               \* no holder, no document
    MaxCrashes,         \* bound on process deaths
    MaxFailures,        \* bound on failed file or database writes
    MaxKeyLoss,         \* may the key be lost (0 or 1)?
    MaxRequests,        \* bound on append requests
    MaxOverlaps         \* bound on starts beside a running or starting gateway

ASSUME AnchorAssumption ==
    /\ Tasks \cap Starters = {} /\ None \notin Tasks \cup Starters \cup Events
    /\ MaxCrashes \in Nat /\ MaxFailures \in Nat
    /\ MaxKeyLoss \in 0..1 /\ MaxRequests \in Nat /\ MaxOverlaps \in Nat

Actors == Tasks \cup Starters

VARIABLES
    journal,    \* execass_receipts: the events with a receipt, in order
    rows,       \* execass_receipt_anchor_state by generation
    prepared,   \* *.prepared.json files
    finalized,  \* *.finalized.json files
    current,    \* current.json
    marker,     \* quarantine.json
    keyOk,      \* does the key backend still hold the key?
    lock,       \* the append lock (mutex and lock file)
    writer,     \* the open immediate transaction
    up,         \* is a gateway running (does it own the runtime host)?
    ac,         \* what each task or starting process is doing
    done,       \* history: events whose append was reported as done
    used        \* how much of each bound is used up

vars == <<journal, rows, prepared, finalized, current, marker, keyOk, lock, writer, up, ac,
          done, used>>

database == <<journal, rows>>
documents == <<prepared, finalized, current>>
locks == <<lock, writer>>

-----------------------------------------------------------------------------
Doc(gen, e) == <<gen, e>>
RowDoc(gen) == Doc(gen, rows[gen].event)
RowStatus == {"prepared", "finalized", "quarantined"}
Row == [event: Events, status: RowStatus, confirmed: BOOLEAN, count: Nat \ {0}]

\* "lock" .. "confirm": an append; "final", "publish", "seal", "clean": the
\* finalization; "status" .. "mark": recover_integrity; "own": the starter asks
\* for the runtime host.
Pc == {"idle", "lock", "begin", "prepare", "commit", "record", "confirm",
       "final", "publish", "seal", "clean",
       "status", "judge", "resolve", "discard", "restore", "orphans", "mark", "own"}

IdleActor == [pc |-> "idle", event |-> None, split |-> FALSE, head |-> 0,
              recovering |-> FALSE, view |-> 0, seen |-> "none", old |-> None]

\* The rows, documents and actors hold values of their types.
TypeOK ==
    /\ journal \in Seq(Events)
    /\ rows \in Seq(Row)
    /\ prepared \subseteq Nat \X Events /\ finalized \subseteq Nat \X Events
    /\ current \in (Nat \X Events) \cup {None}
    /\ marker \in BOOLEAN /\ keyOk \in BOOLEAN /\ up \in BOOLEAN
    /\ lock \in Actors \cup {None} /\ writer \in Actors \cup {None}
    /\ ac \in [Actors -> [pc: Pc, event: Events \cup {None}, split: BOOLEAN, head: Nat,
                          recovering: BOOLEAN, view: Nat,
                          seen: RowStatus \cup {"none"}, old: (Nat \X Events) \cup {None}]]
    /\ done \subseteq Events
    /\ used \in [crashes: Nat, failures: Nat, keys: Nat, requests: Nat, overlaps: Nat]

Init ==
    /\ journal = <<>> /\ rows = <<>>
    /\ prepared = {} /\ finalized = {} /\ current = None
    /\ marker = FALSE /\ keyOk = TRUE
    /\ lock = None /\ writer = None
    /\ up = FALSE
    /\ ac = [a \in Actors |-> IdleActor]
    /\ done = {}
    /\ used = [crashes |-> 0, failures |-> 0, keys |-> 0, requests |-> 0,
               overlaps |-> 0]

-----------------------------------------------------------------------------
(* The state of the anchor, as status() tells it. *)

Last == Len(rows)

\* verify_anchor_history and verify_receipt_history.
HistoryVerifies ==
    /\ \A g \in 1..Last : rows[g].status = "finalized" /\ RowDoc(g) \in finalized
    /\ Last > 0 /\ current = RowDoc(Last)
    /\ Len(journal) = rows[Last].count

Uninitialized == rows = <<>> /\ journal = <<>> /\ current = None

\* require_receipt_integrity_available
Available == ~marker /\ (Uninitialized \/ (keyOk /\ HistoryVerifies))

-----------------------------------------------------------------------------
(* Bookkeeping. *)

Goto(a, pc) == ac' = [ac EXCEPT ![a].pc = pc]
Release(h, a) == IF h = a THEN None ELSE h

\* The append ends: its locks are released with its guards.
Leave(a) ==
    /\ ac' = [ac EXCEPT ![a] = IdleActor]
    /\ lock' = Release(lock, a)
    /\ writer' = Release(writer, a)

\* The transaction is rolled back and the error path recovers under the lock.
RollBack(a) ==
    /\ ac' = [ac EXCEPT ![a].pc = "status", ![a].recovering = TRUE]
    /\ writer' = Release(writer, a)
    /\ UNCHANGED lock

\* recover_integrity returns: an append reports its error, a starter goes on.
Recovered(a) ==
    IF a \in Starters
    THEN ac' = [ac EXCEPT ![a] = [IdleActor EXCEPT !.pc = "own"]] /\ UNCHANGED locks
    ELSE Leave(a)

\* A database step of the recovery returns an error: a starter gives up.
RecoveryError(a) == Leave(a)

-----------------------------------------------------------------------------
(* Appending a receipt. *)

\* A caller reads the head and builds its command; it may repeat an event
\* whose append it has not seen done.
Request(a, e) ==
    /\ up /\ a \in Tasks /\ ac[a].pc = "idle" /\ e \notin done
    /\ used.requests < MaxRequests
    /\ \E split \in BOOLEAN :
         ac' = [ac EXCEPT ![a] = [IdleActor EXCEPT !.pc = "lock", !.event = e, !.split = split,
                                                   !.head = Len(journal)]]
    /\ used' = [used EXCEPT !.requests = @ + 1]
    /\ UNCHANGED <<database, documents, marker, keyOk, locks, up, done>>

\* APPEND_LOCK, the lock file, and the availability check under both.
Enter(a) ==
    /\ ac[a].pc = "lock" /\ lock = None
    /\ IF Available
       THEN lock' = a /\ Goto(a, "begin") /\ UNCHANGED writer
       ELSE Leave(a)
    /\ UNCHANGED <<database, documents, marker, keyOk, up, done, used>>

\* Mutant: an event that already has a receipt is appended again.
BeginWithoutReplay(a) ==
    /\ ac[a].pc = "begin" /\ writer = None
    /\ writer' = a /\ Goto(a, "prepare") /\ UNCHANGED <<lock, done>>
    /\ UNCHANGED <<database, documents, marker, keyOk, up, used>>

\* The transaction begins: an event with a receipt is replayed, a head that
\* moved since the command was built is Stale.
Begin(a) ==
    LET replay == \E i \in 1..Len(journal) : journal[i] = ac[a].event IN
    /\ ac[a].pc = "begin" /\ writer = None
    /\ \/ /\ replay
          /\ done' = done \cup {ac[a].event}
          /\ Leave(a)
       \/ /\ ~replay /\ ac[a].head # Len(journal)
          /\ Leave(a) /\ UNCHANGED done
       \/ /\ ~replay /\ ac[a].head = Len(journal)
          /\ writer' = a /\ Goto(a, "prepare") /\ UNCHANGED <<lock, done>>
    /\ UNCHANGED <<database, documents, marker, keyOk, up, used>>

\* Mutant: the finalized version is written along with the prepared document.
PreparePublishes(a) ==
    /\ ac[a].pc = "prepare" /\ Available /\ keyOk
    /\ prepared' = prepared \cup {Doc(Last + 1, ac[a].event)}
    /\ finalized' = finalized \cup {Doc(Last + 1, ac[a].event)}
    /\ Goto(a, IF ac[a].split THEN "record" ELSE "commit")
    /\ UNCHANGED <<database, current, marker, keyOk, locks, up, done, used>>

\* prepare_anchor_in_transaction: the prepared document is written while the
\* row that names it is not committed.
Prepare(a) ==
    /\ ac[a].pc = "prepare"
    /\ IF Available /\ keyOk
       THEN /\ prepared' = prepared \cup {Doc(Last + 1, ac[a].event)}
            /\ Goto(a, IF ac[a].split THEN "record" ELSE "commit")
            /\ UNCHANGED locks
       ELSE (IF ac[a].split THEN Leave(a) ELSE RollBack(a)) /\ UNCHANGED prepared
    /\ UNCHANGED <<database, finalized, current, marker, keyOk, up, done, used>>

NewRow(a, confirmed) ==
    [event |-> ac[a].event, status |-> "prepared", confirmed |-> confirmed,
     count |-> ac[a].head + 1]

\* mutate_with_atomic_receipt: mutation, receipt, heads and the confirmed
\* anchor row commit together.
Commit(a) ==
    /\ ac[a].pc = "commit"
    /\ journal' = Append(journal, ac[a].event)
    /\ rows' = Append(rows, NewRow(a, TRUE))
    /\ writer' = None /\ Goto(a, "final")
    /\ UNCHANGED <<documents, marker, keyOk, lock, up, done, used>>

\* append_receipt: prepare_anchor commits the row in a transaction of its own ...
Record(a) ==
    /\ ac[a].pc = "record"
    /\ rows' = Append(rows, NewRow(a, FALSE))
    /\ writer' = None /\ Goto(a, "confirm")
    /\ UNCHANGED <<journal, documents, marker, keyOk, lock, up, done, used>>

\* Mutant: the receipt commits without the confirmation of its row.
ConfirmForgotten(a) ==
    /\ ac[a].pc = "confirm" /\ writer = None
    /\ journal' = Append(journal, ac[a].event)
    /\ Goto(a, "final")
    /\ UNCHANGED <<rows, documents, marker, keyOk, locks, up, done, used>>

\* ... and the receipt and its confirmation follow in the next one.
Confirm(a) ==
    LET own == Last > 0 /\ rows[Last] = NewRow(a, FALSE) IN
    /\ ac[a].pc = "confirm" /\ writer = None
    /\ IF own /\ ac[a].head = Len(journal) /\ keyOk
       THEN /\ journal' = Append(journal, ac[a].event)
            /\ rows' = [rows EXCEPT ![Last].confirmed = TRUE]
            /\ Goto(a, "final") /\ UNCHANGED locks
       ELSE RollBack(a) /\ UNCHANGED database
    /\ UNCHANGED <<documents, marker, keyOk, up, done, used>>

-----------------------------------------------------------------------------
(* finalize_anchor, for the append or for a recovery. *)

\* The row a names by its transaction id.
Gens(a) == {g \in 1..Last : rows[g].event = ac[a].event}
Gen(a) == CHOOSE g \in Gens(a) : TRUE

\* finalize_anchor returns an error: the previous current file is restored.  An
\* append reports it, a recovery quarantines.
FailFinalize(a) ==
    /\ current' = IF ac[a].pc \in {"publish", "seal"} THEN ac[a].old ELSE current
    /\ IF ac[a].recovering
       THEN /\ Goto(a, "mark") /\ writer' = Release(writer, a) /\ UNCHANGED lock
       ELSE Leave(a)

\* Mutant: a finalization interrupted after its current file was written is refused.
CanFinalizeOnce(g) ==
    /\ RowDoc(g) \in prepared /\ keyOk
    /\ \/ current = None /\ g = 1
       \/ g > 1 /\ current = RowDoc(g - 1) /\ RowDoc(g - 1) \in finalized

\* read_exact_document, the key, and validate_current_before_finalize.
CanFinalize(g) ==
    /\ RowDoc(g) \in prepared /\ keyOk
    /\ \/ current = None /\ g = 1
       \/ current = RowDoc(g)
       \/ g > 1 /\ current = RowDoc(g - 1) /\ RowDoc(g - 1) \in finalized

\* verify_finalized_row
FinalizedVerifies(g) == current = RowDoc(g) /\ RowDoc(g) \in finalized /\ keyOk

\* finalize_anchor returns Ok to the append or to the recovery that called it.
FinalizeReturns(a) ==
    IF ac[a].recovering
    THEN Recovered(a) /\ UNCHANGED done
    ELSE Leave(a) /\ done' = done \cup {ac[a].event}

Finalizable(g) == rows[g].status = "prepared" /\ rows[g].confirmed /\ CanFinalize(g)

\* The fenced transaction begins; the finalized version is written.
Finalize(a) ==
    LET g == Gen(a) IN
    /\ ac[a].pc = "final" /\ writer = None
    /\ \/ /\ Gens(a) # {} /\ Finalizable(g)
          /\ finalized' = finalized \cup {RowDoc(g)}
          /\ ac' = [ac EXCEPT ![a].pc = "publish", ![a].old = current]
          /\ writer' = a
          /\ UNCHANGED <<current, lock, done>>
       \/ /\ Gens(a) # {} /\ rows[g].status = "finalized"     \* somebody else finished it
          /\ FinalizedVerifies(g)
          /\ FinalizeReturns(a)
          /\ UNCHANGED <<current, finalized>>
       \/ /\ Gens(a) = {} \/ (~Finalizable(g) /\ ~(rows[g].status = "finalized" /\ FinalizedVerifies(g)))
          /\ FailFinalize(a)
          /\ UNCHANGED <<finalized, done>>
    /\ UNCHANGED <<database, prepared, marker, keyOk, up, used>>

Publish(a) ==
    /\ ac[a].pc = "publish"
    /\ current' = RowDoc(Gen(a))
    /\ Goto(a, "seal")
    /\ UNCHANGED <<database, prepared, finalized, marker, keyOk, locks, up, done, used>>

Seal(a) ==
    /\ ac[a].pc = "seal"
    /\ rows' = [rows EXCEPT ![Gen(a)].status = "finalized"]
    /\ writer' = None /\ Goto(a, "clean")
    /\ UNCHANGED <<journal, documents, marker, keyOk, lock, up, done, used>>

\* The finalized row is verified, the prepared file is removed.
Clean(a) ==
    LET g == Gen(a) IN
    /\ ac[a].pc = "clean"
    /\ IF Gens(a) # {} /\ FinalizedVerifies(g)
       THEN prepared' = prepared \ {RowDoc(g)} /\ FinalizeReturns(a) /\ UNCHANGED current
       ELSE FailFinalize(a) /\ UNCHANGED <<prepared, done>>
    /\ UNCHANGED <<database, finalized, marker, keyOk, up, used>>

-----------------------------------------------------------------------------
(* recover_integrity. *)

\* status() reads the quarantine marker and the latest row ...
ReadStatus(a) ==
    /\ ac[a].pc = "status"
    /\ IF marker \/ (Last > 0 /\ rows[Last].status = "quarantined")
       THEN Recovered(a)
       ELSE /\ ac' = [ac EXCEPT ![a].pc = "judge", ![a].view = Last,
                                ![a].seen = IF Last = 0 THEN "none" ELSE rows[Last].status,
                                ![a].event = IF Last = 0 THEN @ ELSE rows[Last].event]
            /\ UNCHANGED locks
    /\ UNCHANGED <<database, documents, marker, keyOk, up, done, used>>

\* ... and then, on connections of its own, verifies what that row claims.
Judge(a) ==
    /\ ac[a].pc = "judge"
    /\ Goto(a, CASE ac[a].seen = "none"     -> IF Uninitialized THEN "orphans" ELSE "mark"
                 [] ac[a].seen = "prepared" -> IF keyOk THEN "resolve" ELSE "mark"
                 [] OTHER -> IF keyOk /\ HistoryVerifies /\ ac[a].view = Last
                             THEN "orphans" ELSE "mark")
    /\ UNCHANGED <<database, documents, marker, keyOk, locks, up, done, used>>

\* A prepared commit, read again by its transaction: finalized when its receipt
\* committed, discarded if not.  A row that disappeared is an error.
Resolve(a) ==
    /\ ac[a].pc = "resolve"
    /\ IF Gens(a) = {}
       THEN RecoveryError(a)
       ELSE /\ ac' = [ac EXCEPT ![a].pc = IF rows[Gen(a)].confirmed THEN "final" ELSE "discard",
                                ![a].recovering = TRUE]
            /\ UNCHANGED locks
    /\ UNCHANGED <<database, documents, marker, keyOk, up, done, used>>

\* discard_unconfirmed_prepared: the row is deleted under the writer lock ...
Discard(a) ==
    LET view == ac[a].view IN
    /\ ac[a].pc = "discard" /\ writer = None
    /\ IF view = Last /\ rows[view].status = "prepared" /\ ~rows[view].confirmed
       THEN /\ rows' = SubSeq(rows, 1, view - 1)
            /\ Goto(a, "restore") /\ UNCHANGED locks
       ELSE RecoveryError(a) /\ UNCHANGED rows
    /\ UNCHANGED <<journal, documents, marker, keyOk, up, done, used>>

\* ... then its document is removed and the current file is written again.
Restore(a) ==
    /\ ac[a].pc = "restore"
    /\ prepared' = prepared \ {Doc(ac[a].view, ac[a].event)}
    /\ current' = IF Last = 0 THEN None
                  ELSE IF rows[Last].status = "finalized" THEN RowDoc(Last) ELSE current
    /\ Recovered(a)
    /\ UNCHANGED <<database, finalized, marker, keyOk, up, done, used>>

\* remove_orphan_prepared_files keeps only the file a prepared row names.
RemoveOrphans(a) ==
    /\ ac[a].pc = "orphans"
    /\ prepared' = IF Last > 0 /\ rows[Last].status = "prepared"
                   THEN prepared \cap {RowDoc(Last)} ELSE {}
    /\ Recovered(a)
    /\ UNCHANGED <<database, finalized, current, marker, keyOk, up, done, used>>

\* quarantine: the marker file, then the latest row.
Quarantine(a) ==
    /\ ac[a].pc = "mark" /\ writer = None
    /\ marker' = TRUE
    /\ rows' = IF Last = 0 THEN rows ELSE [rows EXCEPT ![Last].status = "quarantined"]
    /\ Recovered(a)
    /\ UNCHANGED <<journal, documents, keyOk, up, done, used>>

-----------------------------------------------------------------------------
(* Processes. *)

\* Nothing keeps a process from starting beside another one; such starts are counted.
Overlap ==
    \/ ~up /\ (\A s \in Starters : ac[s].pc = "idle") /\ UNCHANGED used
    \/ /\ up \/ \E s \in Starters : ac[s].pc # "idle"
       /\ used.overlaps < MaxOverlaps
       /\ used' = [used EXCEPT !.overlaps = @ + 1]

\* Mutant: a process starts without recovering the anchor.
StartUnrecovered(a) ==
    /\ a \in Starters /\ ac[a].pc = "idle"
    /\ Overlap
    /\ ac' = [ac EXCEPT ![a] = [IdleActor EXCEPT !.pc = "own"]]
    /\ UNCHANGED <<database, documents, marker, keyOk, locks, up, done>>

\* open_execass_confirmation_runtime recovers first ...
Start(a) ==
    /\ a \in Starters /\ ac[a].pc = "idle"
    /\ Overlap
    /\ ac' = [ac EXCEPT ![a] = [IdleActor EXCEPT !.pc = "status", !.recovering = TRUE]]
    /\ UNCHANGED <<database, documents, marker, keyOk, locks, up, done>>

\* ... and asks for the runtime host afterwards.  current_append_key returns a
\* provisioned key before it looks at the anchor, and otherwise the key of the
\* latest row if that is finalized; the activation then refuses a journal that
\* is not available, whichever key it was, and runs under the append lock,
\* which nobody holds while no gateway is up.
Own(a) ==
    /\ ac[a].pc = "own"
    /\ up' = (up \/ (keyOk /\ Available))
    /\ ac' = [ac EXCEPT ![a] = IdleActor]
    /\ UNCHANGED <<database, documents, marker, keyOk, locks, done, used>>

\* The gateway dies: its transaction is rolled back, its locks are released.
CrashGateway ==
    /\ up /\ used.crashes < MaxCrashes
    /\ up' = FALSE
    /\ ac' = [a \in Actors |-> IF a \in Tasks THEN IdleActor ELSE ac[a]]
    /\ lock' = IF lock \in Tasks THEN None ELSE lock
    /\ writer' = IF writer \in Tasks THEN None ELSE writer
    /\ used' = [used EXCEPT !.crashes = @ + 1]
    /\ UNCHANGED <<database, documents, marker, keyOk, done>>

CrashStarter(a) ==
    /\ a \in Starters /\ ac[a].pc # "idle" /\ used.crashes < MaxCrashes
    /\ Leave(a)
    /\ used' = [used EXCEPT !.crashes = @ + 1]
    /\ UNCHANGED <<database, documents, marker, keyOk, up, done>>

\* A write of a document or of the database fails.  prepare_anchor, which
\* append_receipt calls, hands its error up without a recovery: a prepared
\* document whose row did not commit stays behind.
FailWrite(a) ==
    /\ used.failures < MaxFailures
    /\ used' = [used EXCEPT !.failures = @ + 1]
    /\ \/ /\ ac[a].pc \in {"prepare", "record"}
          /\ IF ac[a].split THEN Leave(a) ELSE RollBack(a)
          /\ prepared' = IF ac[a].pc = "prepare"
                         THEN prepared \ {Doc(Last + 1, ac[a].event)} ELSE prepared
          /\ UNCHANGED current
       \/ /\ ac[a].pc \in {"commit", "confirm"}
          /\ RollBack(a)
          /\ UNCHANGED <<prepared, current>>
       \/ /\ ac[a].pc \in {"publish", "seal"}
          /\ FailFinalize(a)
          /\ UNCHANGED prepared
    /\ UNCHANGED <<database, finalized, marker, keyOk, up, done>>

LoseKey ==
    /\ keyOk /\ used.keys < MaxKeyLoss
    /\ keyOk' = FALSE
    /\ used' = [used EXCEPT !.keys = @ + 1]
    /\ UNCHANGED <<database, documents, marker, locks, up, ac, done>>

-----------------------------------------------------------------------------
Step(a) ==
    \/ Enter(a) \/ Begin(a) \/ Prepare(a) \/ Commit(a) \/ Record(a) \/ Confirm(a)
    \/ Finalize(a) \/ Publish(a) \/ Seal(a) \/ Clean(a)
    \/ ReadStatus(a) \/ Judge(a) \/ Resolve(a) \/ Discard(a) \/ Restore(a)
    \/ RemoveOrphans(a) \/ Quarantine(a) \/ Own(a)

Next ==
    \/ \E a \in Actors : Step(a) \/ Start(a) \/ CrashStarter(a) \/ FailWrite(a)
    \/ \E a \in Tasks, e \in Events : Request(a, e)
    \/ CrashGateway \/ LoseKey

Spec == Init /\ [][Next]_vars

\* Tasks and starting processes run on; a supervisor starts a gateway when none
\* is running.
FairSpec ==
    /\ Spec
    /\ \A a \in Actors : WF_vars(Step(a))
    /\ WF_vars(\E a \in Starters : ~up /\ Start(a))

-----------------------------------------------------------------------------
(* Properties. *)

\* A document outside the database never names a receipt that did not commit
\* (confirm_prepared_anchor_in_transaction: "prevents an external anchor from
\* being finalized for receipt state that never committed").
PublishedIsCommitted ==
    \A d \in finalized \cup ({current} \ {None}) :
        /\ d[1] \in 1..Last
        /\ rows[d[1]].event = d[2] /\ rows[d[1]].confirmed
        /\ rows[d[1]].count <= Len(journal)

\* However often a caller repeats an append after an error, a Stale or a crash
\* between the commit and the finalization, an event has one receipt, and what
\* was reported done has one.
OneReceiptPerEvent ==
    /\ \A i, j \in 1..Len(journal) : journal[i] = journal[j] => i = j
    /\ \A e \in done : \E i \in 1..Len(journal) : journal[i] = e

\* Every receipt has exactly its own anchor row, in order; only one row is
\* ahead of the journal or unfinished.
AnchorsFollowJournal ==
    LET confirmed == {g \in 1..Last : rows[g].confirmed} IN
    /\ confirmed = 1..Len(journal)
    /\ \A g \in confirmed : rows[g].event = journal[g] /\ rows[g].count = g
    /\ \A g \in 1..Last : rows[g].status = "prepared" => g = Last

\* Something other than a crash went wrong: a lost key, a write that failed, or
\* a recovery beside a running gateway (it takes no append lock, so it can see an
\* append halfway and quarantine an intact journal).
Disturbed == ~keyOk \/ used.failures > 0 \/ used.overlaps > 0

\* A crash between any two steps, however often, never puts an intact history
\* into quarantine (every_finalize_boundary_recovers_without_false_quarantine).
NoFalseQuarantine == marker => Disturbed

\* An append interrupted by a crash does not block the journal for good: it is
\* finalized or discarded by the recovery of the next start.
InterruptedAppendIsResolved ==
    (Last > 0 /\ rows[Last].status = "prepared")
        ~> (Last = 0 \/ rows[Last].status = "finalized" \/ Disturbed)

=============================================================================
