-------------------------- MODULE ReceiptAnchorProofs --------------------------
(***************************************************************************)
(* The receipt journal and its anchor, for every set of events, tasks and  *)
(* starting processes and any number of requests, crashes, failed writes   *)
(* and overlapping starts.                                                 *)
(***************************************************************************)
EXTENDS ReceiptAnchor, SequenceTheorems, TLAPS

-----------------------------------------------------------------------------
(* The inductive invariant of the database and of what is published. *)

\* A document names a receipt.
InJournal(d) == d[1] \in 1..Len(journal) /\ journal[d[1]] = d[2]

Receipted(e) == \E i \in 1..Len(journal) : journal[i] = e

\* One row per receipt, in order, and at most one that has none yet; no two
\* rows are of one event; what is finalized has its receipt.
RowsFollow ==
    /\ Len(journal) <= Last /\ Last <= Len(journal) + 1
    /\ \A g \in 1..Last :
         /\ rows[g].confirmed <=> g <= Len(journal)
         /\ g <= Len(journal) => rows[g].event = journal[g] /\ rows[g].count = g
         /\ rows[g].status = "prepared" => g = Last
         /\ rows[g].status = "finalized" => g <= Len(journal)
    /\ \A g, h \in 1..Last : rows[g].event = rows[h].event => g = h

DocsFollow ==
    /\ \A d \in finalized : InJournal(d)
    /\ current # None => InJournal(current)
    /\ \A e \in done : Receipted(e)

Writing == {"prepare", "commit", "record", "publish", "seal"}

\* What an actor relies on between its steps: the writer lock keeps the
\* database as it found it, an event that had no receipt up to the head it
\* read has none there later, and the file it would put back names a receipt.
Relies(a) ==
    LET c == ac[a] IN
    /\ c.pc \in Writing => writer = a
    /\ c.pc \in {"lock", "begin", "prepare", "commit", "record", "confirm"} => c.event \in Events
    /\ c.pc \in {"prepare", "commit", "record", "confirm"} =>
         c.head <= Len(journal) /\ \A i \in 1..c.head : journal[i] # c.event
    /\ c.pc \in {"prepare", "commit", "record"} => c.head = Len(journal)
    /\ c.pc \in {"commit", "record"} =>
         Last = Len(journal) /\ \A g \in 1..Last : rows[g].status = "finalized"
    /\ c.pc \in {"publish", "seal"} => Gens(a) # {} /\ Gen(a) <= Len(journal)
    /\ c.old # None => InJournal(c.old)

AnchorInvariant == TypeOK /\ RowsFollow /\ DocsFollow /\ \A a \in Actors : Relies(a)

-----------------------------------------------------------------------------
(* What holds as long as nothing but crashes went wrong. *)

Quiet == keyOk = TRUE /\ used.failures = 0 /\ used.overlaps = 0

Active(a) == ac[a].pc \notin {"idle", "lock"}

\* Tasks run in a gateway that is up, one of them past the append lock.
TasksAreLocked ==
    \A t \in Tasks : /\ up = FALSE => ac[t].pc = "idle"
                     /\ Active(t) => lock = t

\* A process starts alone.
StartsAlone ==
    /\ up = TRUE => \A s \in Starters : ac[s].pc = "idle"
    /\ \A s, z \in Starters : ac[s].pc # "idle" /\ ac[z].pc # "idle" => s = z

Before(g) == IF g = 1 THEN None ELSE RowDoc(g - 1)

\* The documents are those of the rows, or lag behind an append by as much as
\* its steps explain.
DocsExplain ==
    /\ marker = FALSE
    /\ \A g \in 1..Last : /\ rows[g].status # "quarantined"
                          /\ rows[g].status = "finalized" => RowDoc(g) \in finalized
    /\ Last = 0 => current = None
    /\ Last > 0 =>
         IF rows[Last].status = "finalized" THEN current = RowDoc(Last)
         ELSE /\ RowDoc(Last) \in prepared
              /\ \/ current = Before(Last)
                 \/ current = RowDoc(Last) /\ Last = Len(journal)

\* Where the only active actor stands.
OfLastRow(a) == Last > 0 /\ ac[a].event = rows[Last].event

Stands(a) ==
    LET c == ac[a] IN
    /\ c.pc # "mark"
    /\ c.pc \in {"commit", "record"} => Doc(Last + 1, c.event) \in prepared
    /\ c.pc = "judge" => /\ c.view = Last
                         /\ Last = 0 => c.seen = "none"
                         /\ Last > 0 => c.seen = rows[Last].status /\ OfLastRow(a)
    /\ c.pc = "resolve" => OfLastRow(a) /\ rows[Last].status = "prepared"
    /\ c.pc \in {"final", "publish", "seal"} =>
         OfLastRow(a) /\ rows[Last].status = "prepared" /\ Last = Len(journal)
    /\ c.pc \in {"publish", "seal"} => RowDoc(Last) \in finalized
    /\ c.pc = "seal" => current = RowDoc(Last)
    /\ c.pc = "clean" => OfLastRow(a) /\ rows[Last].status = "finalized"
    /\ c.pc = "restore" /\ Last > 0 => rows[Last].status = "finalized"

QuietInvariant ==
    /\ TasksAreLocked
    /\ Quiet => StartsAlone /\ DocsExplain /\ \A a \in Actors : Stands(a)

-----------------------------------------------------------------------------
(* Lemmas. *)

AnActor == [pc: Pc, event: Events \cup {None}, split: BOOLEAN, head: Nat, recovering: BOOLEAN,
            view: Nat, seen: RowStatus \cup {"none"}, old: (Nat \X Events) \cup {None}]

\* Nothing is taken away from the journal.
JournalGrows ==
    /\ Len(journal) <= Len(journal')
    /\ \A i \in 1..Len(journal) : journal'[i] = journal[i]

\* The tables as sequences.
LEMMA TableFacts ==
    ASSUME TypeOK
    PROVE  /\ Len(journal) \in Nat /\ Last \in Nat /\ DOMAIN rows = 1..Last
           /\ \A g \in 1..Last : rows[g] \in Row
           /\ \A i \in 1..Len(journal) : journal[i] \in Events
  BY DEF TypeOK, Last

\* A receipt stays.
LEMMA ReceiptStays ==
    ASSUME TypeOK, TypeOK', JournalGrows
    PROVE  /\ \A d : InJournal(d) => InJournal(d)'
           /\ \A e : Receipted(e) => Receipted(e)'
<1>1. Len(journal) \in Nat /\ Len(journal') \in Nat
  <2>1. journal \in Seq(Events) /\ journal' \in Seq(Events)
    BY DEF TypeOK
  <2> QED BY <2>1
<1>2. \A i \in 1..Len(journal) : i \in 1..Len(journal')
  BY <1>1 DEF JournalGrows
<1> QED BY <1>2 DEF JournalGrows, InJournal, Receipted

\* An actor that does nothing may rely on what it relied on.
LEMMA RelianceKeeps ==
    ASSUME TypeOK, TypeOK', NEW b \in Actors, Relies(b), ac'[b] = ac[b], JournalGrows,
           writer = b => writer' = b /\ UNCHANGED database
    PROVE  Relies(b)'
<1>1. /\ ac[b].head \in Nat /\ ac[b].old \in (Nat \X Events) \cup {None}
      /\ Len(journal) \in Nat /\ Len(journal') \in Nat
  <2>1. journal \in Seq(Events) /\ journal' \in Seq(Events)
    BY DEF TypeOK
  <2>2. ac[b] \in AnActor
    BY DEF TypeOK, AnActor
  <2> QED BY <2>1, <2>2 DEF AnActor
<1>2. ac[b].pc \in {"prepare", "commit", "record", "confirm"} =>
        ac[b].head <= Len(journal') /\ \A i \in 1..ac[b].head : journal'[i] # ac[b].event
  BY <1>1 DEF Relies, JournalGrows
<1>3. ac[b].old # None => InJournal(ac[b].old)'
  <2>1. \A d : InJournal(d) => InJournal(d)'
    BY ReceiptStays
  <2> QED BY <2>1 DEF Relies, InJournal
<1>4. CASE ac[b].pc \in Writing
  <2>1. writer = b /\ writer' = b /\ journal' = journal /\ rows' = rows
    BY <1>4 DEF Relies, database
  <2>2. Gens(b)' = Gens(b) /\ Gen(b)' = Gen(b) /\ Last' = Last
    BY <2>1 DEF Gens, Gen, Last
  <2> QED BY <1>2, <1>3, <2>1, <2>2 DEF Relies
<1>5. CASE ac[b].pc \notin Writing
  BY <1>2, <1>3, <1>5 DEF Relies, Writing
<1> QED BY <1>4, <1>5

\* A step of one actor that leaves the database alone.
LEMMA StillDatabase ==
    ASSUME AnchorInvariant, TypeOK', UNCHANGED database, NEW a \in Actors,
           \A b \in Actors \ {a} : ac'[b] = ac[b] /\ (writer = b => writer' = b),
           DocsFollow', Relies(a)'
    PROVE  AnchorInvariant'
<1>1. TypeOK /\ RowsFollow
  BY DEF AnchorInvariant
<1>2. RowsFollow'
  BY <1>1 DEF RowsFollow, Last, database
<1>3. JournalGrows
  BY <1>1 DEF JournalGrows, database, TypeOK
<1>4. ASSUME NEW b \in Actors PROVE Relies(b)'
  <2>1. CASE b = a
    BY <2>1
  <2>2. CASE b # a
    BY <1>1, <1>3, <2>2, RelianceKeeps DEF AnchorInvariant
  <2> QED BY <2>1, <2>2
<1> QED BY <1>2, <1>4 DEF AnchorInvariant

\* The documents as they are.
LEMMA StillDocs ==
    ASSUME DocsFollow, UNCHANGED database, \A d \in finalized' : d \in finalized \/ InJournal(d),
           current' # None => current' = current \/ InJournal(current'),
           \A e \in done' : e \in done \/ Receipted(e)
    PROVE  DocsFollow'
  BY DEF DocsFollow, database, InJournal, Receipted

\* An actor at rest relies on nothing.
LEMMA AtRest ==
    ASSUME NEW a \in Actors, ac'[a].pc \notin {"lock", "begin", "prepare", "commit", "record", "confirm", "publish", "seal"},
           ac'[a].old # None => InJournal(ac[a].old)'
    PROVE  Relies(a)'
  BY DEF Relies, Writing, InJournal

\* A step of one actor: what it does not touch.
Moves(a) ==
    /\ ac' \in [Actors -> AnActor]
    /\ \A b \in Actors \ {a} : ac'[b] = ac[b] /\ (writer = b => writer' = b)
    /\ lock' \in Actors \cup {None} /\ writer' \in Actors \cup {None}

OthersTyped ==
    /\ prepared' \subseteq Nat \X Events /\ finalized' \subseteq Nat \X Events
    /\ current' \in (Nat \X Events) \cup {None}
    /\ marker' \in BOOLEAN /\ keyOk' \in BOOLEAN /\ up' \in BOOLEAN
    /\ done' \subseteq Events
    /\ used' \in [crashes: Nat, failures: Nat, keys: Nat, requests: Nat, overlaps: Nat]

\* Types hold when they hold of what the actor moved, of the tables and of the rest.
LEMMA TypeSplit ==
    ASSUME NEW a, Moves(a), OthersTyped, journal' \in Seq(Events), rows' \in Seq(Row)
    PROVE  TypeOK'
  BY DEF Moves, OthersTyped, TypeOK, AnActor

\* An actor's record.
LEMMA ActorTyped ==
    ASSUME TypeOK, NEW a \in Actors
    PROVE  ac[a] \in AnActor
  BY DEF TypeOK, AnActor

\* The ways an actor moves.
LEMMA MoveForms ==
    ASSUME TypeOK, NEW a \in Actors
    PROVE  /\ ac[a] \in AnActor /\ IdleActor \in AnActor
           /\ Leave(a) => Moves(a) /\ ac'[a] = IdleActor
           /\ RollBack(a) =>
                Moves(a) /\ ac'[a] = [ac[a] EXCEPT !.pc = "status", !.recovering = TRUE]
           /\ Recovered(a) =>
                Moves(a) /\ ac'[a] \in {IdleActor, [IdleActor EXCEPT !.pc = "own"]}
           /\ \A n \in AnActor : ac' = [ac EXCEPT ![a] = n] /\ UNCHANGED locks => Moves(a) /\ ac'[a] = n
<1>1. ac \in [Actors -> AnActor] /\ lock \in Actors \cup {None} /\ writer \in Actors \cup {None}
  BY DEF TypeOK, AnActor
<1>2. IdleActor \in AnActor
  BY DEF IdleActor, AnActor, Pc
<1>3. Leave(a) => Moves(a) /\ ac'[a] = IdleActor
  BY <1>1, <1>2 DEF Leave, Release, Moves
<1>4. [ac[a] EXCEPT !.pc = "status", !.recovering = TRUE] \in AnActor
  <2>1. ac[a] \in AnActor /\ "status" \in Pc
    BY <1>1 DEF Pc
  <2> QED BY <2>1 DEF AnActor
<1>5. RollBack(a) => Moves(a) /\ ac'[a] = [ac[a] EXCEPT !.pc = "status", !.recovering = TRUE]
  <2>1. RollBack(a) => ac' = [ac EXCEPT ![a] = [ac[a] EXCEPT !.pc = "status", !.recovering = TRUE]]
    BY <1>1 DEF RollBack
  <2> QED BY <1>1, <1>4, <2>1 DEF RollBack, Release, Moves
<1>6. [IdleActor EXCEPT !.pc = "own"] \in AnActor
  BY DEF IdleActor, AnActor, Pc
<1>7. \A n \in AnActor : ac' = [ac EXCEPT ![a] = n] /\ UNCHANGED locks => Moves(a) /\ ac'[a] = n
  BY <1>1 DEF Moves, locks
<1>8. Recovered(a) => Moves(a) /\ ac'[a] \in {IdleActor, [IdleActor EXCEPT !.pc = "own"]}
  <2>1. CASE a \in Starters
    BY <1>6, <1>7, <2>1 DEF Recovered
  <2>2. CASE a \notin Starters
    BY <1>3, <2>2 DEF Recovered
  <2> QED BY <2>1, <2>2
<1> QED BY <1>1, <1>2, <1>3, <1>5, <1>7, <1>8

Resting == Pc \ {"lock", "begin", "prepare", "commit", "record", "confirm", "publish", "seal"}

\* A step after which the actor relies on nothing in the database.
LEMMA RestStep ==
    ASSUME AnchorInvariant, NEW a \in Actors, Moves(a), OthersTyped, UNCHANGED database,
           ac'[a].pc \in Resting, ac'[a].old \in {None, ac[a].old},
           \A d \in finalized' : d \in finalized \/ InJournal(d),
           current' # None => current' = current \/ InJournal(current'),
           \A e \in done' : e \in done \/ Receipted(e)
    PROVE  AnchorInvariant'
<1>1. TypeOK /\ DocsFollow /\ Relies(a)
  BY DEF AnchorInvariant
<1>2. TypeOK'
  BY <1>1, TypeSplit DEF TypeOK, database
<1>3. DocsFollow'
  BY <1>1, StillDocs
<1>4. ac'[a].old # None => InJournal(ac[a].old)'
  BY <1>1 DEF Relies, InJournal, database
<1>5. Relies(a)'
  BY <1>4, AtRest DEF Resting
<1> QED BY <1>2, <1>3, <1>5, StillDatabase DEF Moves

\* A step of the holder of the writer lock, or of nobody's.
LEMMA WriteStep ==
    ASSUME AnchorInvariant, NEW a \in Actors, Moves(a), OthersTyped,
           journal' \in Seq(Events), rows' \in Seq(Row),
           writer \in {a, None}, JournalGrows, RowsFollow',
           UNCHANGED <<documents, done>>, Relies(a)'
    PROVE  AnchorInvariant'
<1>1. TypeOK /\ DocsFollow
  BY DEF AnchorInvariant
<1>2. TypeOK'
  BY TypeSplit
<1>3. DocsFollow'
  <2>1. /\ \A d : InJournal(d) => InJournal(d)'
        /\ \A e : Receipted(e) => Receipted(e)'
    BY <1>1, <1>2, ReceiptStays
  <2> QED BY <1>1, <2>1 DEF DocsFollow, documents, InJournal
<1>4. ASSUME NEW b \in Actors PROVE Relies(b)'
  <2>1. CASE b = a
    BY <2>1
  <2>2. CASE b # a
    <3>1. writer # b
      BY <2>2, AnchorAssumption DEF Actors
    <3> QED BY <1>1, <1>2, <2>2, <3>1, RelianceKeeps DEF AnchorInvariant, Moves
  <2> QED BY <2>1, <2>2
<1> QED BY <1>2, <1>3, <1>4 DEF AnchorInvariant

\* The actor changes its place, and takes or releases the writer lock.
LEMMA PlaceForms ==
    ASSUME TypeOK, NEW a \in Actors, NEW p \in Pc
    PROVE  /\ [ac[a] EXCEPT !.pc = p] \in AnActor
           /\ Goto(a, p) => ac' = [ac EXCEPT ![a] = [ac[a] EXCEPT !.pc = p]]
           /\ \A n \in AnActor :
                /\ ac' = [ac EXCEPT ![a] = n]
                /\ lock' \in {lock, a, None} /\ writer' \in {writer, a, None}
                /\ writer \in {a, None} \/ writer' = writer
                => Moves(a) /\ ac'[a] = n
<1>1. ac \in [Actors -> AnActor] /\ lock \in Actors \cup {None} /\ writer \in Actors \cup {None}
  BY DEF TypeOK, AnActor
<1>2. ac[a] \in AnActor
  BY <1>1
<1>3. [ac[a] EXCEPT !.pc = p] \in AnActor
  BY <1>2 DEF AnActor
<1>4. Goto(a, p) => ac' = [ac EXCEPT ![a] = [ac[a] EXCEPT !.pc = p]]
  BY DEF Goto
<1>5. None \notin Actors
  BY AnchorAssumption DEF Actors
<1>6. ASSUME NEW n \in AnActor, ac' = [ac EXCEPT ![a] = n],
             lock' \in {lock, a, None}, writer' \in {writer, a, None},
             writer \in {a, None} \/ writer' = writer
      PROVE  Moves(a) /\ ac'[a] = n
  BY <1>1, <1>5, <1>6 DEF Moves
<1> QED BY <1>3, <1>4, <1>6

\* A step that leaves the database alone, of an actor that relies on what it found.
LEMMA StillStep ==
    ASSUME AnchorInvariant, NEW a \in Actors, Moves(a), OthersTyped, UNCHANGED database,
           \A d \in finalized' : d \in finalized \/ InJournal(d),
           current' # None => current' = current \/ InJournal(current'),
           \A e \in done' : e \in done \/ Receipted(e), Relies(a)'
    PROVE  AnchorInvariant'
<1>1. TypeOK /\ DocsFollow
  BY DEF AnchorInvariant
<1>2. TypeOK'
  BY <1>1, TypeSplit DEF TypeOK, database
<1>3. DocsFollow'
  BY <1>1, StillDocs
<1> QED BY <1>2, <1>3, StillDatabase DEF Moves

\* The file an actor would put back goes on naming a receipt.
LEMMA OldStays ==
    ASSUME AnchorInvariant, NEW a \in Actors, UNCHANGED database, ac'[a].old \in {None, ac[a].old}
    PROVE  (ac[a].old # None => InJournal(ac[a].old))'
  BY DEF AnchorInvariant, Relies, InJournal, database

Counters == [crashes: Nat, failures: Nat, keys: Nat, requests: Nat, overlaps: Nat]

\* A bound that is used up a little further.
LEMMA UsedForms ==
    ASSUME TypeOK
    PROVE  /\ used \in Counters
           /\ [used EXCEPT !.crashes = @ + 1] \in Counters
           /\ [used EXCEPT !.failures = @ + 1] \in Counters
           /\ [used EXCEPT !.keys = @ + 1] \in Counters
           /\ [used EXCEPT !.requests = @ + 1] \in Counters
           /\ [used EXCEPT !.overlaps = @ + 1] \in Counters
<1>1. used \in Counters
  BY DEF TypeOK, Counters
<1> QED BY <1>1 DEF Counters

\* There is nothing at first.
LEMMA AnchorInit == Init => AnchorInvariant
<1> SUFFICES ASSUME Init PROVE AnchorInvariant
  OBVIOUS
<1>1. IdleActor \in AnActor
  BY DEF IdleActor, AnActor, Pc
<1>2. TypeOK
  <2>1. ac \in [Actors -> AnActor]
    BY <1>1 DEF Init
  <2>2. journal \in Seq(Events) /\ rows \in Seq(Row)
    BY DEF Init
  <2>3. used \in [crashes: Nat, failures: Nat, keys: Nat, requests: Nat, overlaps: Nat]
    BY DEF Init
  <2> QED BY <2>1, <2>2, <2>3 DEF Init, TypeOK, AnActor
<1>3. RowsFollow
  BY DEF Init, RowsFollow, Last
<1>4. DocsFollow
  BY DEF Init, DocsFollow
<1>5. ASSUME NEW a \in Actors PROVE Relies(a)
  BY DEF Init, Relies, IdleActor, Writing
<1> QED BY <1>2, <1>3, <1>4, <1>5 DEF AnchorInvariant

-----------------------------------------------------------------------------
(* The steps of an append. *)

\* A caller asks for an append.
LEMMA RequestStep ==
    ASSUME AnchorInvariant, NEW a \in Tasks, NEW e \in Events, Request(a, e)
    PROVE  AnchorInvariant'
<1>1. TypeOK /\ a \in Actors /\ Len(journal) \in Nat
  BY TableFacts DEF AnchorInvariant, Actors
<1>2. PICK split \in BOOLEAN :
        ac' = [ac EXCEPT ![a] = [IdleActor EXCEPT !.pc = "lock", !.event = e, !.split = split,
                                                  !.head = Len(journal)]]
  BY DEF Request
<1> DEFINE n == [IdleActor EXCEPT !.pc = "lock", !.event = e, !.split = split, !.head = Len(journal)]
<1>3. n \in AnActor /\ n.pc = "lock" /\ n.event = e /\ n.old = None
  BY <1>1 DEF IdleActor, AnActor, Pc
<1>4. Moves(a) /\ ac'[a] = n
  BY <1>1, <1>2, <1>3, MoveForms DEF Request
<1>5. OthersTyped
  <2>1. used' \in Counters
    BY <1>1, UsedForms DEF Request
  <2> QED BY <1>1, <2>1 DEF Request, TypeOK, OthersTyped, documents, Counters
<1>6. Relies(a)'
  BY <1>3, <1>4 DEF Relies, Writing
<1> QED BY <1>1, <1>4, <1>5, <1>6, StillStep DEF Request, documents

\* The append takes its locks.
LEMMA EnterStep ==
    ASSUME AnchorInvariant, NEW a \in Actors, Enter(a)
    PROVE  AnchorInvariant'
<1>1. TypeOK /\ Relies(a)
  BY DEF AnchorInvariant
<1>2. OthersTyped
  BY <1>1 DEF Enter, TypeOK, OthersTyped, documents
<1>3. CASE Available
  <2>1. "begin" \in Pc
    BY DEF Pc
  <2>2. Moves(a) /\ ac'[a] = [ac[a] EXCEPT !.pc = "begin"]
    BY <1>1, <1>3, <2>1, PlaceForms DEF Enter
  <2>3. ac[a] \in AnActor /\ ac[a].event \in Events
    BY <1>1, MoveForms DEF Enter, Relies
  <2>4. ac'[a].pc = "begin" /\ ac'[a].event = ac[a].event /\ ac'[a].old = ac[a].old
    BY <2>2, <2>3 DEF AnActor
  <2>5. (ac[a].old # None => InJournal(ac[a].old))'
    BY <2>4, OldStays DEF Enter
  <2>6. Relies(a)'
    BY <2>3, <2>4, <2>5 DEF Relies, Writing
  <2> QED BY <1>2, <2>2, <2>6, StillStep DEF Enter, documents
<1>4. CASE ~Available
  <2>1. Moves(a) /\ ac'[a] = IdleActor
    BY <1>1, <1>4, MoveForms DEF Enter
  <2> QED BY <1>2, <2>1, RestStep DEF Enter, IdleActor, Resting, Pc, documents
<1> QED BY <1>3, <1>4

\* The transaction of an append begins.
LEMMA BeginStep ==
    ASSUME AnchorInvariant, NEW a \in Actors, Begin(a)
    PROVE  AnchorInvariant'
<1>1. TypeOK /\ Relies(a) /\ ac[a] \in AnActor /\ ac[a].event \in Events
  <2>1. TypeOK /\ Relies(a)
    BY DEF AnchorInvariant
  <2> QED BY <2>1, MoveForms DEF Begin, Relies
<1>2. OthersTyped
  BY <1>1 DEF Begin, TypeOK, OthersTyped, documents
<1>3. CASE Leave(a) /\ \A e \in done' : e \in done \/ Receipted(e)
  <2>1. Moves(a) /\ ac'[a] = IdleActor
    BY <1>1, <1>3, MoveForms
  <2> QED BY <1>2, <1>3, <2>1, RestStep DEF Begin, IdleActor, Resting, Pc, documents
<1>4. CASE /\ ~(\E i \in 1..Len(journal) : journal[i] = ac[a].event)
           /\ ac[a].head = Len(journal)
           /\ writer' = a /\ Goto(a, "prepare") /\ UNCHANGED <<lock, done>>
  <2>1. "prepare" \in Pc
    BY DEF Pc
  <2>2. Moves(a) /\ ac'[a] = [ac[a] EXCEPT !.pc = "prepare"]
    BY <1>1, <1>4, <2>1, PlaceForms DEF Begin
  <2>3. /\ ac'[a].pc = "prepare" /\ ac'[a].event = ac[a].event /\ ac'[a].old = ac[a].old
        /\ ac'[a].head = ac[a].head
    BY <1>1, <2>2 DEF AnActor
  <2>4. (ac[a].old # None => InJournal(ac[a].old))'
    BY <2>3, OldStays DEF Begin
  <2>5. Len(journal) \in Nat /\ journal' = journal
    BY <1>1, TableFacts DEF Begin, database
  <2>6. Relies(a)'
    BY <1>1, <1>4, <2>3, <2>4, <2>5 DEF Relies, Writing
  <2> QED BY <1>2, <1>4, <2>2, <2>6, StillStep DEF Begin, documents
<1> QED BY <1>3, <1>4 DEF Begin, Receipted

\* What verifies is finalized and has its receipts.
LEMMA AvailableFacts ==
    ASSUME TypeOK, RowsFollow, Available
    PROVE  Last = Len(journal) /\ \A g \in 1..Last : rows[g].status = "finalized"
<1>1. Len(journal) \in Nat /\ Last \in Nat
  BY TableFacts
<1>2. CASE Uninitialized
  BY <1>2 DEF Uninitialized, Last
<1>3. CASE HistoryVerifies
  BY <1>1, <1>3 DEF HistoryVerifies, RowsFollow
<1> QED BY <1>2, <1>3 DEF Available

\* The prepared document is written.
LEMMA PrepareStep ==
    ASSUME AnchorInvariant, NEW a \in Actors, Prepare(a)
    PROVE  AnchorInvariant'
<1>1. TypeOK /\ RowsFollow /\ Relies(a)
  BY DEF AnchorInvariant
<1>2. /\ ac[a] \in AnActor /\ ac[a].event \in Events /\ writer = a
      /\ ac[a].head = Len(journal) /\ \A i \in 1..ac[a].head : journal[i] # ac[a].event
      /\ Len(journal) \in Nat /\ Last \in Nat
  BY <1>1, MoveForms, TableFacts DEF Prepare, Relies, Writing
<1>3. OthersTyped
  <2>1. Doc(Last + 1, ac[a].event) \in Nat \X Events
    BY <1>2 DEF Doc
  <2>2. prepared' \subseteq Nat \X Events
    BY <1>1, <2>1 DEF Prepare, TypeOK
  <2> QED BY <1>1, <2>2 DEF Prepare, TypeOK, OthersTyped
<1>4. CASE Available /\ keyOk
  <2> DEFINE p == IF ac[a].split THEN "record" ELSE "commit"
  <2>1. p \in Pc /\ p \in {"commit", "record"}
    BY DEF Pc
  <2>2. Goto(a, p) /\ UNCHANGED locks
    BY <1>4 DEF Prepare
  <2> HIDE DEF p
  <2>3. Moves(a) /\ ac'[a] = [ac[a] EXCEPT !.pc = p]
    BY <1>1, <2>1, <2>2, PlaceForms DEF locks
  <2>4. /\ ac'[a].pc = p /\ ac'[a].event = ac[a].event /\ ac'[a].old = ac[a].old
        /\ ac'[a].head = ac[a].head
    BY <1>2, <2>3 DEF AnActor
  <2>5. (ac[a].old # None => InJournal(ac[a].old))'
    BY <2>4, OldStays DEF Prepare
  <2>6. Last' = Len(journal)' /\ \A g \in 1..Last' : rows'[g].status = "finalized"
    BY <1>1, <1>4, AvailableFacts DEF Prepare, database, Last
  <2>7. writer' = a /\ journal' = journal
    BY <1>2, <2>2 DEF Prepare, locks, database
  <2>8. Relies(a)'
    BY <1>2, <2>1, <2>4, <2>5, <2>6, <2>7 DEF Relies, Writing
  <2> QED BY <1>3, <2>3, <2>8, StillStep DEF Prepare
<1>5. CASE ~(Available /\ keyOk)
  <2>1. Leave(a) \/ RollBack(a)
    BY <1>5 DEF Prepare
  <2>2. Moves(a) /\ ac'[a] \in {IdleActor, [ac[a] EXCEPT !.pc = "status", !.recovering = TRUE]}
    BY <1>1, <2>1, MoveForms
  <2>3. ac'[a].pc \in Resting /\ ac'[a].old \in {None, ac[a].old}
    <3>1. CASE ac'[a] = IdleActor
      BY <3>1 DEF IdleActor, Resting, Pc
    <3>2. CASE ac'[a] = [ac[a] EXCEPT !.pc = "status", !.recovering = TRUE]
      BY <1>2, <3>2 DEF Resting, Pc, AnActor
    <3> QED BY <2>2, <3>1, <3>2
  <2> QED BY <1>3, <2>2, <2>3, RestStep DEF Prepare
<1> QED BY <1>4, <1>5

\* A table with one more row.
LEMMA RowAppended ==
    ASSUME rows \in Seq(Row), NEW r \in Row, rows' = Append(rows, r)
    PROVE  /\ Len(rows') = Len(rows) + 1 /\ rows' \in Seq(Row)
           /\ \A i \in 1..Len(rows) : rows'[i] = rows[i]
           /\ rows'[Len(rows) + 1] = r
<1> HIDE DEF Row
<1> QED BY AppendProperties

\* A journal with one more receipt.
LEMMA ReceiptAppended ==
    ASSUME journal \in Seq(Events), NEW e \in Events, journal' = Append(journal, e)
    PROVE  /\ Len(journal') = Len(journal) + 1 /\ journal' \in Seq(Events)
           /\ \A i \in 1..Len(journal) : journal'[i] = journal[i]
           /\ journal'[Len(journal) + 1] = e
  BY AppendProperties

\* The receipt and its confirmed row commit together.
LEMMA CommitStep ==
    ASSUME AnchorInvariant, NEW a \in Actors, Commit(a)
    PROVE  AnchorInvariant'
<1>1. TypeOK /\ RowsFollow /\ Relies(a)
  BY DEF AnchorInvariant
<1>2. /\ ac[a] \in AnActor /\ ac[a].event \in Events /\ writer = a
      /\ ac[a].head = Len(journal) /\ \A i \in 1..Len(journal) : journal[i] # ac[a].event
      /\ Last = Len(journal) /\ \A g \in 1..Last : rows[g].status = "finalized"
      /\ Len(journal) \in Nat
  <2>1. ac[a] \in AnActor /\ Len(journal) \in Nat
    BY <1>1, ActorTyped, TableFacts
  <2> QED BY <1>1, <2>1 DEF Commit, Relies, Writing
<1>3. NewRow(a, TRUE) \in Row
  BY <1>2 DEF NewRow, Row, RowStatus
<1>4. /\ journal' \in Seq(Events) /\ rows' \in Seq(Row)
      /\ Len(journal') = Len(journal) + 1 /\ Last' = Last + 1
      /\ \A i \in 1..Len(journal) : journal'[i] = journal[i] /\ rows'[i] = rows[i]
      /\ journal'[Len(journal) + 1] = ac[a].event
      /\ rows'[Len(journal) + 1] = NewRow(a, TRUE)
  <2>1. journal \in Seq(Events) /\ rows \in Seq(Row) /\ Len(rows) = Len(journal)
    BY <1>1, <1>2 DEF TypeOK, Last
  <2>2. /\ Len(journal') = Len(journal) + 1 /\ journal' \in Seq(Events)
        /\ \A i \in 1..Len(journal) : journal'[i] = journal[i]
        /\ journal'[Len(journal) + 1] = ac[a].event
    BY <1>2, <2>1, AppendProperties DEF Commit
  <2>3. /\ Len(rows') = Len(rows) + 1 /\ rows' \in Seq(Row)
        /\ \A i \in 1..Len(rows) : rows'[i] = rows[i]
        /\ rows'[Len(rows) + 1] = NewRow(a, TRUE)
    BY <1>3, <2>1, RowAppended DEF Commit
  <2> QED BY <2>1, <2>2, <2>3 DEF Last
<1>5. JournalGrows
  BY <1>2, <1>4 DEF JournalGrows
<1>6. RowsFollow'
  <2> DEFINE m == Len(journal) + 1
  <2>1. m \in Nat \ {0} /\ Len(journal') = m /\ Last' = m
    BY <1>2, <1>4
  <2>2. /\ rows'[m].event = journal'[m] /\ rows'[m].count = m
        /\ rows'[m].confirmed /\ rows'[m].status = "prepared"
    BY <1>2, <1>4 DEF NewRow
  <2>3. ASSUME NEW g \in 1..m, g # m
        PROVE  /\ g \in 1..Len(journal) /\ rows'[g] = rows[g] /\ journal'[g] = journal[g]
               /\ rows[g].confirmed /\ rows[g].event = journal[g] /\ rows[g].count = g
               /\ rows[g].status = "finalized" /\ rows'[g].event # ac[a].event
    <3>1. g \in 1..Len(journal) /\ g \in 1..Last
      BY <1>2, <2>3
    <3> QED BY <1>1, <1>2, <1>4, <3>1 DEF RowsFollow
  <2>4. \A g \in 1..m :
          /\ rows'[g].confirmed <=> g <= m
          /\ g <= m => rows'[g].event = journal'[g] /\ rows'[g].count = g
          /\ rows'[g].status = "prepared" => g = m
          /\ rows'[g].status = "finalized" => g <= m
    BY <2>1, <2>2, <2>3
  <2>5. \A g, h \in 1..m : rows'[g].event = rows'[h].event => g = h
    <3>1. \A g, h \in 1..Last : rows[g].event = rows[h].event => g = h
      BY <1>1 DEF RowsFollow
    <3>2. rows'[m].event = ac[a].event
      BY <1>4 DEF NewRow
    <3>3. \A g \in 1..m : g # m => g \in 1..Last /\ rows'[g] = rows[g] /\ rows'[g].event # ac[a].event
      BY <1>2, <2>3
    <3> HIDE DEF m
    <3> QED BY <3>1, <3>2, <3>3
  <2> HIDE DEF m
  <2> QED BY <2>1, <2>4, <2>5 DEF RowsFollow
<1>7. "final" \in Pc
  BY DEF Pc
<1>8. Moves(a) /\ ac'[a] = [ac[a] EXCEPT !.pc = "final"]
  BY <1>1, <1>2, <1>7, PlaceForms DEF Commit
<1>9. OthersTyped
  BY <1>1 DEF Commit, TypeOK, OthersTyped, documents
<1>10. Relies(a)'
  <2>1. ac'[a].pc = "final" /\ ac'[a].old = ac[a].old
    BY <1>2, <1>8 DEF AnActor
  <2>2. TypeOK'
    BY <1>4, <1>8, <1>9, TypeSplit
  <2>3. \A d : InJournal(d) => InJournal(d)'
    BY <1>1, <1>5, <2>2, ReceiptStays
  <2>4. ac'[a].old # None => InJournal(ac[a].old)'
    BY <1>1, <2>1, <2>3 DEF Relies, InJournal
  <2> QED BY <2>1, <2>4, AtRest
<1> QED BY <1>2, <1>4, <1>5, <1>6, <1>8, <1>9, <1>10, WriteStep DEF Commit

\* The row of a split append commits ahead of its receipt.
LEMMA RecordStep ==
    ASSUME AnchorInvariant, NEW a \in Actors, Record(a)
    PROVE  AnchorInvariant'
<1>1. TypeOK /\ RowsFollow /\ Relies(a)
  BY DEF AnchorInvariant
<1>2. /\ ac[a] \in AnActor /\ ac[a].event \in Events /\ writer = a
      /\ ac[a].head = Len(journal) /\ \A i \in 1..Len(journal) : journal[i] # ac[a].event
      /\ Last = Len(journal) /\ \A g \in 1..Last : rows[g].status = "finalized"
      /\ Len(journal) \in Nat
  <2>1. ac[a] \in AnActor /\ Len(journal) \in Nat
    BY <1>1, ActorTyped, TableFacts
  <2> QED BY <1>1, <2>1 DEF Record, Relies, Writing
<1>3. NewRow(a, FALSE) \in Row
  BY <1>2 DEF NewRow, Row, RowStatus
<1>4. /\ journal' = journal /\ journal' \in Seq(Events) /\ rows' \in Seq(Row)
      /\ Last' = Len(journal) + 1
      /\ \A i \in 1..Len(journal) : rows'[i] = rows[i]
      /\ rows'[Len(journal) + 1] = NewRow(a, FALSE)
  <2>1. journal \in Seq(Events) /\ rows \in Seq(Row) /\ Len(rows) = Len(journal)
    BY <1>1, <1>2 DEF TypeOK, Last
  <2>2. /\ Len(rows') = Len(rows) + 1 /\ rows' \in Seq(Row)
        /\ \A i \in 1..Len(rows) : rows'[i] = rows[i]
        /\ rows'[Len(rows) + 1] = NewRow(a, FALSE)
    BY <1>3, <2>1, RowAppended DEF Record
  <2> QED BY <2>1, <2>2 DEF Last, Record
<1>5. JournalGrows
  BY <1>2, <1>4 DEF JournalGrows
<1>6. RowsFollow'
  <2> DEFINE m == Len(journal) + 1
  <2>1. m \in Nat \ {0} /\ Len(journal') = m - 1 /\ Last' = m
    BY <1>2, <1>4
  <2>2. ~rows'[m].confirmed /\ rows'[m].status = "prepared" /\ rows'[m].event = ac[a].event
    BY <1>2, <1>4 DEF NewRow
  <2>3. ASSUME NEW g \in 1..m, g # m
        PROVE  /\ g \in 1..Last /\ g <= m - 1 /\ rows'[g] = rows[g] /\ journal'[g] = journal[g]
               /\ rows[g].confirmed /\ rows[g].event = journal[g] /\ rows[g].count = g
               /\ rows[g].status = "finalized" /\ rows'[g].event # ac[a].event
    <3>1. g \in 1..Len(journal) /\ g \in 1..Last
      BY <1>2, <2>3
    <3> QED BY <1>1, <1>2, <1>4, <3>1 DEF RowsFollow
  <2>4. \A g \in 1..m :
          /\ rows'[g].confirmed <=> g <= m - 1
          /\ g <= m - 1 => rows'[g].event = journal'[g] /\ rows'[g].count = g
          /\ rows'[g].status = "prepared" => g = m
          /\ rows'[g].status = "finalized" => g <= m - 1
    BY <2>1, <2>2, <2>3
  <2>5. \A g, h \in 1..m : rows'[g].event = rows'[h].event => g = h
    <3>1. \A g, h \in 1..Last : rows[g].event = rows[h].event => g = h
      BY <1>1 DEF RowsFollow
    <3>3. \A g \in 1..m : g # m => g \in 1..Last /\ rows'[g] = rows[g] /\ rows'[g].event # ac[a].event
      BY <2>3
    <3> HIDE DEF m
    <3> QED BY <2>2, <3>1, <3>3
  <2> HIDE DEF m
  <2> QED BY <2>1, <2>4, <2>5 DEF RowsFollow
<1>7. "confirm" \in Pc
  BY DEF Pc
<1>8. Moves(a) /\ ac'[a] = [ac[a] EXCEPT !.pc = "confirm"]
  BY <1>1, <1>2, <1>7, PlaceForms DEF Record
<1>9. OthersTyped
  BY <1>1 DEF Record, TypeOK, OthersTyped, documents
<1>10. Relies(a)'
  <2>1. /\ ac'[a].pc = "confirm" /\ ac'[a].old = ac[a].old
        /\ ac'[a].event = ac[a].event /\ ac'[a].head = ac[a].head
    BY <1>2, <1>8 DEF AnActor
  <2>2. ac'[a].old # None => InJournal(ac[a].old)'
    BY <1>1, <1>4, <2>1 DEF Relies, InJournal
  <2> QED BY <1>2, <1>4, <2>1, <2>2 DEF Relies, Writing
<1> QED BY <1>2, <1>4, <1>5, <1>6, <1>8, <1>9, <1>10, WriteStep DEF Record

\* The receipt of a split append commits and confirms the row, or the append
\* is rolled back.
LEMMA ConfirmStep ==
    ASSUME AnchorInvariant, NEW a \in Actors, Confirm(a)
    PROVE  AnchorInvariant'
<1>1. TypeOK /\ RowsFollow /\ Relies(a)
  BY DEF AnchorInvariant
<1>2. /\ ac[a] \in AnActor /\ ac[a].event \in Events /\ writer = None
      /\ \A i \in 1..ac[a].head : journal[i] # ac[a].event
      /\ Len(journal) \in Nat /\ Last \in Nat
  <2>1. ac[a] \in AnActor /\ Len(journal) \in Nat /\ Last \in Nat
    BY <1>1, ActorTyped, TableFacts
  <2> QED BY <1>1, <2>1 DEF Confirm, Relies
<1>3. OthersTyped
  BY <1>1 DEF Confirm, TypeOK, OthersTyped, documents
<1> DEFINE own == Last > 0 /\ rows[Last] = NewRow(a, FALSE)
<1>4. CASE own /\ ac[a].head = Len(journal) /\ keyOk
  <2> DEFINE m == Len(journal) + 1
  <2>1. Last = m /\ rows[m] = NewRow(a, FALSE)
    <3>1. ~rows[Last].confirmed
      BY <1>4 DEF NewRow
    <3>2. Last \in 1..Last
      BY <1>2, <1>4
    <3>3. ~(Last <= Len(journal))
      BY <1>1, <3>1, <3>2 DEF RowsFollow
    <3>4. Last <= Len(journal) + 1
      BY <1>1 DEF RowsFollow
    <3>5. Last = m
      BY <1>2, <3>3, <3>4
    <3> HIDE DEF m
    <3> QED BY <1>4, <3>5
  <2>2. rows \in Seq(Row) /\ journal \in Seq(Events) /\ Len(rows) = m /\ m \in 1..Len(rows)
    BY <1>1, <1>2, <2>1 DEF TypeOK, Last
  <2>3. /\ Len(journal') = m /\ journal' \in Seq(Events)
        /\ \A i \in 1..Len(journal) : journal'[i] = journal[i]
        /\ journal'[m] = ac[a].event
    BY <1>2, <1>4, <2>2, AppendProperties DEF Confirm
  <2>4. rows' = [rows EXCEPT ![m] = [rows[m] EXCEPT !.confirmed = TRUE]]
    BY <1>4, <2>1 DEF Confirm
  <2>5. rows[m] \in Row /\ [rows[m] EXCEPT !.confirmed = TRUE] \in Row
    <3>1. rows[m] \in Row
      BY <2>2
    <3> QED BY <3>1 DEF Row
  <2>6. /\ rows' \in Seq(Row) /\ Len(rows') = m
        /\ \A g \in 1..m : g # m => rows'[g] = rows[g]
        /\ rows'[m] = [rows[m] EXCEPT !.confirmed = TRUE]
    BY <2>2, <2>4, <2>5
  <2>7. /\ rows'[m].event = ac[a].event /\ rows'[m].count = m
        /\ rows'[m].confirmed /\ rows'[m].status = "prepared"
        /\ rows[m].event = ac[a].event
    BY <1>4, <2>1, <2>6 DEF NewRow
  <2>8. JournalGrows
    BY <1>2, <2>3 DEF JournalGrows
  <2>9. RowsFollow'
    <3>1. Last' = m /\ Len(journal') = m /\ m \in Nat \ {0}
      BY <1>2, <2>3, <2>6 DEF Last
    <3>2. ASSUME NEW g \in 1..m, g # m
          PROVE  /\ rows'[g] = rows[g] /\ journal'[g] = journal[g]
                 /\ rows[g].confirmed /\ rows[g].event = journal[g] /\ rows[g].count = g
                 /\ rows[g].status # "prepared"
      <4>1. g \in 1..Len(journal) /\ g \in 1..Last
        BY <1>2, <2>1, <3>2
      <4> QED BY <1>1, <1>2, <2>1, <2>3, <2>6, <3>2, <4>1 DEF RowsFollow
    <3>3. \A g \in 1..m :
            /\ rows'[g].confirmed <=> g <= m
            /\ g <= m => rows'[g].event = journal'[g] /\ rows'[g].count = g
            /\ rows'[g].status = "prepared" => g = m
            /\ rows'[g].status = "finalized" => g <= m
      BY <2>3, <2>7, <3>1, <3>2
    <3>4. \A g, h \in 1..m : rows'[g].event = rows'[h].event => g = h
      <4>1. \A g, h \in 1..m : rows[g].event = rows[h].event => g = h
        BY <1>1, <2>1 DEF RowsFollow
      <4>2. \A g \in 1..m : rows'[g].event = rows[g].event
        BY <2>7, <3>2
      <4> HIDE DEF m
      <4> QED BY <4>1, <4>2
    <3> HIDE DEF m
    <3> QED BY <3>1, <3>3, <3>4 DEF RowsFollow
  <2>10. "final" \in Pc
    BY DEF Pc
  <2>11. Moves(a) /\ ac'[a] = [ac[a] EXCEPT !.pc = "final"]
    BY <1>1, <1>4, <2>10, PlaceForms DEF Confirm, locks
  <2>12. Relies(a)'
    <3>1. ac'[a].pc = "final" /\ ac'[a].old = ac[a].old
      BY <1>2, <2>11 DEF AnActor
    <3>2. TypeOK'
      BY <1>3, <2>3, <2>6, <2>11, TypeSplit
    <3>3. \A d : InJournal(d) => InJournal(d)'
      BY <1>1, <2>8, <3>2, ReceiptStays
    <3>4. ac'[a].old # None => InJournal(ac[a].old)'
      BY <1>1, <3>1, <3>3 DEF Relies, InJournal
    <3> QED BY <3>1, <3>4, AtRest
  <2> QED BY <1>2, <1>3, <2>3, <2>6, <2>8, <2>9, <2>11, <2>12, WriteStep DEF Confirm
<1>5. CASE ~(own /\ ac[a].head = Len(journal) /\ keyOk)
  <2>1. RollBack(a) /\ UNCHANGED database
    BY <1>5 DEF Confirm
  <2>2. Moves(a) /\ ac'[a] = [ac[a] EXCEPT !.pc = "status", !.recovering = TRUE]
    BY <1>1, <2>1, MoveForms
  <2>3. ac'[a].pc \in Resting /\ ac'[a].old = ac[a].old
    BY <1>2, <2>2 DEF Resting, Pc, AnActor
  <2> QED BY <1>3, <2>1, <2>2, <2>3, RestStep DEF Confirm, documents
<1> QED BY <1>4, <1>5

-----------------------------------------------------------------------------
(* The steps of a finalization. *)

\* The row an actor names.
LEMMA GenFacts ==
    ASSUME TypeOK, RowsFollow, NEW a \in Actors, Gens(a) # {}
    PROVE  /\ Gen(a) \in 1..Last /\ rows[Gen(a)].event = ac[a].event
           /\ RowDoc(Gen(a)) \in Nat \X Events
           /\ Gen(a) <= Len(journal) => InJournal(RowDoc(Gen(a))) /\ Receipted(ac[a].event)
<1>1. Gen(a) \in Gens(a)
  BY DEF Gen
<1>2. Gen(a) \in 1..Last /\ rows[Gen(a)].event = ac[a].event
  BY <1>1 DEF Gens
<1>3. PICK g \in 1..Last : g = Gen(a)
  BY <1>2
<1>4. rows[g] \in Row /\ Last \in Nat /\ Len(journal) \in Nat
  BY TableFacts
<1>5. RowDoc(g) \in Nat \X Events
  <2>1. rows[g].event \in Events
    BY <1>4 DEF Row
  <2> QED BY <1>4, <2>1 DEF RowDoc, Doc
<1>6. ASSUME g <= Len(journal) PROVE InJournal(RowDoc(g)) /\ Receipted(rows[g].event)
  <2>1. rows[g].event = journal[g] /\ g \in 1..Len(journal)
    BY <1>4, <1>6 DEF RowsFollow
  <2> QED BY <2>1 DEF InJournal, Receipted, RowDoc, Doc
<1> QED BY <1>2, <1>3, <1>5, <1>6

\* A finalization that ends.
LEMMA EndOfFinalize ==
    ASSUME AnchorInvariant, NEW a \in Actors
    PROVE  /\ FinalizeReturns(a) /\ Receipted(ac[a].event) =>
                /\ Moves(a) /\ ac'[a].pc \in Resting /\ ac'[a].old = None
                /\ done' \subseteq Events
                /\ \A e \in done' : e \in done \/ Receipted(e)
           /\ FailFinalize(a) =>
                /\ Moves(a) /\ ac'[a].pc \in Resting /\ ac'[a].old \in {None, ac[a].old}
                /\ current' \in (Nat \X Events) \cup {None}
                /\ current' # None => current' = current \/ InJournal(current')
<1>1. TypeOK /\ Relies(a) /\ DocsFollow
  BY DEF AnchorInvariant
<1>2. /\ ac[a] \in AnActor /\ done \subseteq Events
      /\ current \in (Nat \X Events) \cup {None} /\ writer \in Actors \cup {None}
  <2>1. ac[a] \in AnActor
    BY <1>1, ActorTyped
  <2> QED BY <1>1, <2>1 DEF TypeOK
<1>3. \A n \in {IdleActor, [IdleActor EXCEPT !.pc = "own"]} : n.pc \in Resting /\ n.old = None
  BY DEF IdleActor, Resting, Pc
<1>4. ASSUME FinalizeReturns(a), Receipted(ac[a].event)
      PROVE  /\ Moves(a) /\ ac'[a].pc \in Resting /\ ac'[a].old = None
             /\ done' \subseteq Events
             /\ \A e \in done' : e \in done \/ Receipted(e)
  <2>1. Moves(a) /\ ac'[a] \in {IdleActor, [IdleActor EXCEPT !.pc = "own"]}
    BY <1>1, <1>4, MoveForms DEF FinalizeReturns
  <2>2. ac[a].event \in Events
    BY <1>1, <1>4, TableFacts DEF Receipted
  <2>3. done' \subseteq done \cup {ac[a].event}
    BY <1>4 DEF FinalizeReturns
  <2> QED BY <1>2, <1>3, <1>4, <2>1, <2>2, <2>3
<1>5. ASSUME FailFinalize(a)
      PROVE  /\ Moves(a) /\ ac'[a].pc \in Resting /\ ac'[a].old \in {None, ac[a].old}
             /\ current' \in (Nat \X Events) \cup {None}
             /\ current' # None => current' = current \/ InJournal(current')
  <2>1. current' \in {current, ac[a].old}
    BY <1>5 DEF FailFinalize
  <2>2. ac[a].old \in (Nat \X Events) \cup {None}
    BY <1>2 DEF AnActor
  <2>3. current' # None => current' = current \/ InJournal(current')
    BY <1>1, <2>1 DEF Relies
  <2>4. Moves(a) /\ ac'[a].pc \in Resting /\ ac'[a].old \in {None, ac[a].old}
    <3>1. CASE ac[a].recovering
      <4>1. "mark" \in Pc /\ "mark" \in Resting
        BY DEF Pc, Resting
      <4>2. Goto(a, "mark") /\ lock' = lock /\ writer' = Release(writer, a)
        BY <1>5, <3>1 DEF FailFinalize
      <4>3. writer' \in {writer, a, None} /\ (writer \in {a, None} \/ writer' = writer)
        BY <4>2 DEF Release
      <4>4. Moves(a) /\ ac'[a] = [ac[a] EXCEPT !.pc = "mark"]
        BY <1>1, <4>1, <4>2, <4>3, PlaceForms
      <4> QED BY <1>2, <4>1, <4>4 DEF AnActor
    <3>2. CASE ~ac[a].recovering
      BY <1>1, <1>3, <1>5, <3>2, MoveForms DEF FailFinalize
    <3> QED BY <3>1, <3>2
  <2> QED BY <1>2, <2>1, <2>2, <2>3, <2>4
<1> QED BY <1>4, <1>5

\* The fenced transaction of a finalization begins.
LEMMA FinalizeStep ==
    ASSUME AnchorInvariant, NEW a \in Actors, Finalize(a)
    PROVE  AnchorInvariant'
<1>1. TypeOK /\ RowsFollow /\ Relies(a) /\ DocsFollow
  BY DEF AnchorInvariant
<1>2. ac[a] \in AnActor /\ writer = None
  BY <1>1, ActorTyped DEF Finalize
<1>3. UNCHANGED database /\ UNCHANGED <<prepared, marker, keyOk, up, used>>
  BY DEF Finalize
<1>4. CASE /\ Gens(a) # {} /\ Finalizable(Gen(a))
           /\ finalized' = finalized \cup {RowDoc(Gen(a))}
           /\ ac' = [ac EXCEPT ![a].pc = "publish", ![a].old = current]
           /\ writer' = a
           /\ UNCHANGED <<current, lock, done>>
  <2> DEFINE n == [ac[a] EXCEPT !.pc = "publish", !.old = current]
  <2>1. /\ Gen(a) \in 1..Last /\ RowDoc(Gen(a)) \in Nat \X Events
        /\ Gen(a) <= Len(journal) => InJournal(RowDoc(Gen(a)))
    BY <1>1, <1>4, GenFacts
  <2>2. Gen(a) <= Len(journal)
    BY <1>1, <1>4, <2>1 DEF Finalizable, RowsFollow
  <2>3. n \in AnActor /\ n.pc = "publish" /\ n.old = current /\ n.event = ac[a].event
    <3>1. "publish" \in Pc /\ current \in (Nat \X Events) \cup {None}
      BY <1>1 DEF Pc, TypeOK
    <3> QED BY <1>2, <3>1 DEF AnActor
  <2>4. ac' = [ac EXCEPT ![a] = n]
    BY <1>4
  <2> HIDE DEF n
  <2>5. Moves(a) /\ ac'[a] = n
    BY <1>1, <1>2, <1>4, <2>3, <2>4, PlaceForms DEF Pc
  <2>6. OthersTyped
    <3>1. finalized' \subseteq Nat \X Events
      BY <1>1, <1>4, <2>1 DEF TypeOK
    <3> QED BY <1>1, <1>3, <1>4, <3>1 DEF TypeOK, OthersTyped
  <2>7. Relies(a)'
    <3>1. Gens(a)' = Gens(a) /\ Gen(a)' = Gen(a) /\ Len(journal)' = Len(journal)
      BY <1>3, <2>3, <2>5 DEF Gens, Gen, Last, database
    <3>2. (ac[a].old # None => InJournal(ac[a].old))'
      BY <1>1, <1>3, <2>3, <2>5 DEF DocsFollow, InJournal, database
    <3> QED BY <1>4, <2>2, <2>3, <2>5, <3>1, <3>2 DEF Relies, Writing
  <2>8. InJournal(RowDoc(Gen(a)))
    BY <2>1, <2>2
  <2> QED BY <1>3, <1>4, <2>5, <2>6, <2>7, <2>8, StillStep
<1>5. CASE /\ Gens(a) # {} /\ rows[Gen(a)].status = "finalized" /\ FinalizeReturns(a)
           /\ UNCHANGED <<current, finalized>>
  <2>1. Gen(a) \in 1..Last /\ (Gen(a) <= Len(journal) => Receipted(ac[a].event))
    BY <1>1, <1>5, GenFacts
  <2>2. Receipted(ac[a].event)
    BY <1>1, <1>5, <2>1 DEF RowsFollow
  <2>3. /\ Moves(a) /\ ac'[a].pc \in Resting /\ ac'[a].old = None
        /\ done' \subseteq Events
        /\ \A e \in done' : e \in done \/ Receipted(e)
    BY <1>5, <2>2, EndOfFinalize
  <2>4. OthersTyped
    BY <1>1, <1>3, <1>5, <2>3 DEF TypeOK, OthersTyped
  <2> QED BY <1>3, <1>5, <2>3, <2>4, RestStep
<1>6. CASE FailFinalize(a) /\ UNCHANGED <<finalized, done>>
  <2>1. /\ Moves(a) /\ ac'[a].pc \in Resting /\ ac'[a].old \in {None, ac[a].old}
        /\ current' \in (Nat \X Events) \cup {None}
        /\ current' # None => current' = current \/ InJournal(current')
    BY <1>6, EndOfFinalize
  <2>2. OthersTyped
    BY <1>1, <1>3, <1>6, <2>1 DEF TypeOK, OthersTyped
  <2> QED BY <1>3, <1>6, <2>1, <2>2, RestStep
<1> QED BY <1>4, <1>5, <1>6 DEF Finalize

\* The current file is written.
LEMMA PublishStep ==
    ASSUME AnchorInvariant, NEW a \in Actors, Publish(a)
    PROVE  AnchorInvariant'
<1>1. TypeOK /\ RowsFollow /\ Relies(a)
  BY DEF AnchorInvariant
<1>2. ac[a] \in AnActor /\ writer = a /\ Gens(a) # {} /\ Gen(a) <= Len(journal)
  <2>1. ac[a] \in AnActor
    BY <1>1, ActorTyped
  <2> QED BY <1>1, <2>1 DEF Publish, Relies, Writing
<1>3. RowDoc(Gen(a)) \in Nat \X Events /\ InJournal(RowDoc(Gen(a)))
  BY <1>1, <1>2, GenFacts
<1>4. OthersTyped
  BY <1>1, <1>3 DEF Publish, TypeOK, OthersTyped
<1>5. "seal" \in Pc
  BY DEF Pc
<1>6. Moves(a) /\ ac'[a] = [ac[a] EXCEPT !.pc = "seal"]
  BY <1>1, <1>5, PlaceForms DEF Publish, locks
<1>7. ac'[a].pc = "seal" /\ ac'[a].old = ac[a].old /\ ac'[a].event = ac[a].event
  BY <1>2, <1>6 DEF AnActor
<1>8. Relies(a)'
  <2>1. Gens(a)' = Gens(a) /\ Gen(a)' = Gen(a) /\ Len(journal)' = Len(journal) /\ writer' = writer
    BY <1>7 DEF Publish, Gens, Gen, Last, database, locks
  <2>2. (ac[a].old # None => InJournal(ac[a].old))'
    BY <1>7, OldStays DEF Publish
  <2> QED BY <1>2, <1>7, <2>1, <2>2 DEF Relies, Writing
<1> QED BY <1>3, <1>4, <1>6, <1>8, StillStep DEF Publish

\* A row with a new status.
LEMMA StatusRow ==
    ASSUME TypeOK, RowsFollow, NEW g \in 1..Last, NEW st \in {"finalized", "quarantined"},
           st = "finalized" => g <= Len(journal),
           journal' = journal, rows' = [rows EXCEPT ![g].status = st]
    PROVE  /\ rows' \in Seq(Row) /\ journal' \in Seq(Events) /\ JournalGrows /\ RowsFollow'
<1>1. rows \in Seq(Row) /\ journal \in Seq(Events) /\ g \in 1..Len(rows)
  BY DEF TypeOK, Last
<1>2. [rows[g] EXCEPT !.status = st] \in Row /\ rows[g] \in Row
  <2>1. rows[g] \in Row /\ st \in RowStatus
    BY <1>1 DEF RowStatus
  <2> QED BY <2>1 DEF Row
<1>3. rows' = [rows EXCEPT ![g] = [rows[g] EXCEPT !.status = st]]
  OBVIOUS
<1>4. /\ rows' \in Seq(Row) /\ Len(rows') = Len(rows)
      /\ \A h \in 1..Len(rows) : h # g => rows'[h] = rows[h]
      /\ rows'[g] = [rows[g] EXCEPT !.status = st]
  BY <1>1, <1>2, <1>3
<1>5. /\ rows'[g].event = rows[g].event /\ rows'[g].count = rows[g].count
      /\ rows'[g].confirmed = rows[g].confirmed /\ rows'[g].status = st
  BY <1>2, <1>4 DEF Row
<1>6. JournalGrows
  BY <1>1 DEF JournalGrows
<1>7. RowsFollow'
  <2>1. Last' = Last /\ Last = Len(rows)
    BY <1>4 DEF Last
  <2>2. \A h \in 1..Last : /\ rows'[h].event = rows[h].event /\ rows'[h].count = rows[h].count
                           /\ rows'[h].confirmed = rows[h].confirmed
                           /\ rows'[h].status = rows[h].status \/ (h = g /\ rows'[h].status = st)
    BY <1>4, <1>5, <2>1
  <2> QED BY <2>1, <2>2 DEF RowsFollow
<1> QED BY <1>1, <1>4, <1>6, <1>7

\* The row is finalized.
LEMMA SealStep ==
    ASSUME AnchorInvariant, NEW a \in Actors, Seal(a)
    PROVE  AnchorInvariant'
<1>1. TypeOK /\ RowsFollow /\ Relies(a)
  BY DEF AnchorInvariant
<1>2. ac[a] \in AnActor /\ writer = a /\ Gens(a) # {} /\ Gen(a) <= Len(journal)
  <2>1. ac[a] \in AnActor
    BY <1>1, ActorTyped
  <2> QED BY <1>1, <2>1 DEF Seal, Relies, Writing
<1>3. Gen(a) \in 1..Last
  BY <1>1, <1>2, GenFacts
<1>4. rows' \in Seq(Row) /\ journal' \in Seq(Events) /\ JournalGrows /\ RowsFollow'
  BY <1>1, <1>2, <1>3, StatusRow DEF Seal
<1>5. OthersTyped
  BY <1>1 DEF Seal, TypeOK, OthersTyped, documents
<1>6. "clean" \in Pc
  BY DEF Pc
<1>7. Moves(a) /\ ac'[a] = [ac[a] EXCEPT !.pc = "clean"]
  BY <1>1, <1>2, <1>6, PlaceForms DEF Seal
<1>8. Relies(a)'
  <2>1. ac'[a].pc = "clean" /\ ac'[a].old = ac[a].old
    BY <1>2, <1>7 DEF AnActor
  <2>2. ac'[a].old # None => InJournal(ac[a].old)'
    BY <1>1, <2>1 DEF Relies, InJournal, Seal
  <2> QED BY <2>1, <2>2, AtRest
<1> QED BY <1>2, <1>4, <1>5, <1>7, <1>8, WriteStep DEF Seal

\* The finalized row is verified and its prepared file removed.
LEMMA CleanStep ==
    ASSUME AnchorInvariant, NEW a \in Actors, Clean(a)
    PROVE  AnchorInvariant'
<1>1. TypeOK /\ RowsFollow /\ DocsFollow
  BY DEF AnchorInvariant
<1>2. UNCHANGED database /\ UNCHANGED <<finalized, marker, keyOk, up, used>>
  BY DEF Clean
<1>3. CASE Gens(a) # {} /\ FinalizedVerifies(Gen(a))
  <2>1. prepared' = prepared \ {RowDoc(Gen(a))} /\ FinalizeReturns(a) /\ UNCHANGED current
    BY <1>3 DEF Clean
  <2>2. RowDoc(Gen(a)) \in finalized /\ rows[Gen(a)].event = ac[a].event
    BY <1>1, <1>3, GenFacts DEF FinalizedVerifies
  <2>3. Receipted(ac[a].event)
    BY <1>1, <2>2 DEF DocsFollow, InJournal, Receipted, RowDoc, Doc
  <2>4. /\ Moves(a) /\ ac'[a].pc \in Resting /\ ac'[a].old = None
        /\ done' \subseteq Events
        /\ \A e \in done' : e \in done \/ Receipted(e)
    BY <2>1, <2>3, EndOfFinalize
  <2>5. OthersTyped
    BY <1>1, <1>2, <2>1, <2>4 DEF TypeOK, OthersTyped
  <2> QED BY <1>2, <2>1, <2>4, <2>5, RestStep
<1>4. CASE ~(Gens(a) # {} /\ FinalizedVerifies(Gen(a)))
  <2>1. FailFinalize(a) /\ UNCHANGED <<prepared, done>>
    BY <1>4 DEF Clean
  <2>2. /\ Moves(a) /\ ac'[a].pc \in Resting /\ ac'[a].old \in {None, ac[a].old}
        /\ current' \in (Nat \X Events) \cup {None}
        /\ current' # None => current' = current \/ InJournal(current')
    BY <2>1, EndOfFinalize
  <2>3. OthersTyped
    BY <1>1, <1>2, <2>1, <2>2 DEF TypeOK, OthersTyped
  <2> QED BY <1>2, <2>1, <2>2, <2>3, RestStep
<1> QED BY <1>3, <1>4

-----------------------------------------------------------------------------
(* The steps of a recovery. *)

\* An actor that leaves or has recovered rests.
LEMMA RecoveredRests ==
    ASSUME TypeOK, NEW a \in Actors, Leave(a) \/ Recovered(a)
    PROVE  Moves(a) /\ ac'[a].pc \in Resting /\ ac'[a].old = None
<1>1. Moves(a) /\ ac'[a] \in {IdleActor, [IdleActor EXCEPT !.pc = "own"]}
  BY MoveForms
<1>2. \A n \in {IdleActor, [IdleActor EXCEPT !.pc = "own"]} : n.pc \in Resting /\ n.old = None
  BY DEF IdleActor, Resting, Pc
<1> QED BY <1>1, <1>2

\* The status is read.
LEMMA ReadStatusStep ==
    ASSUME AnchorInvariant, NEW a \in Actors, ReadStatus(a)
    PROVE  AnchorInvariant'
<1>1. TypeOK
  BY DEF AnchorInvariant
<1>2. OthersTyped
  BY <1>1 DEF ReadStatus, TypeOK, OthersTyped, documents
<1>3. Moves(a) /\ ac'[a].pc \in Resting /\ ac'[a].old \in {None, ac[a].old}
  <2>1. CASE Recovered(a)
    BY <1>1, <2>1, RecoveredRests
  <2>2. CASE ~(marker \/ (Last > 0 /\ rows[Last].status = "quarantined"))
    <3> DEFINE st == IF Last = 0 THEN "none" ELSE rows[Last].status
               ev == IF Last = 0 THEN ac[a].event ELSE rows[Last].event
               n == [ac[a] EXCEPT !.pc = "judge", !.view = Last, !.seen = st, !.event = ev]
    <3>1. ac[a] \in AnActor /\ Last \in Nat
      BY <1>1, ActorTyped, TableFacts
    <3>2. Last # 0 => rows[Last] \in Row
      BY <1>1, <3>1, TableFacts
    <3>3. "judge" \in Pc /\ "judge" \in Resting
      BY DEF Pc, Resting
    <3>4. st \in RowStatus \cup {"none"} /\ ev \in Events \cup {None}
      BY <3>1, <3>2 DEF Row, AnActor
    <3>5. ac' = [ac EXCEPT ![a] = n] /\ UNCHANGED locks
      BY <2>2 DEF ReadStatus
    <3> HIDE DEF st, ev
    <3>6. n \in AnActor /\ n.pc = "judge" /\ n.old = ac[a].old
      BY <3>1, <3>3, <3>4 DEF AnActor
    <3> HIDE DEF n
    <3> QED BY <1>1, <3>3, <3>5, <3>6, MoveForms
  <2> QED BY <2>1, <2>2 DEF ReadStatus
<1> QED BY <1>2, <1>3, RestStep DEF ReadStatus, documents

\* What the status claims is verified.
LEMMA JudgeStep ==
    ASSUME AnchorInvariant, NEW a \in Actors, Judge(a)
    PROVE  AnchorInvariant'
<1>1. TypeOK /\ ac[a] \in AnActor
  BY ActorTyped DEF AnchorInvariant
<1>2. OthersTyped
  BY <1>1 DEF Judge, TypeOK, OthersTyped, documents
<1>3. PICK p \in {"orphans", "mark", "resolve"} : Goto(a, p)
  BY DEF Judge
<1>4. p \in Pc /\ p \in Resting
  BY DEF Pc, Resting
<1>5. Moves(a) /\ ac'[a] = [ac[a] EXCEPT !.pc = p]
  BY <1>1, <1>3, <1>4, PlaceForms DEF Judge, locks
<1>6. ac'[a].pc \in Resting /\ ac'[a].old = ac[a].old
  BY <1>1, <1>4, <1>5 DEF AnActor
<1> QED BY <1>2, <1>5, <1>6, RestStep DEF Judge, documents

\* A prepared commit is to be finalized or discarded.
LEMMA ResolveStep ==
    ASSUME AnchorInvariant, NEW a \in Actors, Resolve(a)
    PROVE  AnchorInvariant'
<1>1. TypeOK /\ ac[a] \in AnActor
  BY ActorTyped DEF AnchorInvariant
<1>2. OthersTyped
  BY <1>1 DEF Resolve, TypeOK, OthersTyped, documents
<1>3. Moves(a) /\ ac'[a].pc \in Resting /\ ac'[a].old \in {None, ac[a].old}
  <2>1. CASE Leave(a)
    BY <1>1, <2>1, RecoveredRests
  <2>2. CASE Gens(a) # {}
    <3> DEFINE p == IF rows[Gen(a)].confirmed THEN "final" ELSE "discard"
               n == [ac[a] EXCEPT !.pc = p, !.recovering = TRUE]
    <3>1. ac' = [ac EXCEPT ![a] = n] /\ UNCHANGED locks
      BY <2>2 DEF Resolve
    <3>2. p \in Pc /\ p \in Resting
      BY DEF Pc, Resting
    <3> HIDE DEF p
    <3>3. n \in AnActor /\ n.pc = p /\ n.old = ac[a].old
      BY <1>1, <3>2 DEF AnActor
    <3> HIDE DEF n
    <3> QED BY <1>1, <3>1, <3>2, <3>3, MoveForms
  <2> QED BY <2>1, <2>2 DEF Resolve, RecoveryError
<1> QED BY <1>2, <1>3, RestStep DEF Resolve, documents

\* An unconfirmed row is deleted.
LEMMA DiscardStep ==
    ASSUME AnchorInvariant, NEW a \in Actors, Discard(a)
    PROVE  AnchorInvariant'
<1>1. TypeOK /\ RowsFollow /\ Relies(a)
  BY DEF AnchorInvariant
<1>2. ac[a] \in AnActor /\ Last \in Nat /\ Len(journal) \in Nat /\ writer = None
  BY <1>1, ActorTyped, TableFacts DEF Discard
<1>3. OthersTyped
  BY <1>1 DEF Discard, TypeOK, OthersTyped, documents
<1>4. CASE /\ ac[a].view = Last /\ ~rows[Last].confirmed
           /\ rows' = SubSeq(rows, 1, Last - 1)
           /\ Goto(a, "restore") /\ UNCHANGED locks
  <2>1. rows \in Seq(Row) /\ Last = Len(rows) /\ journal \in Seq(Events) /\ journal' = journal
    BY <1>1 DEF TypeOK, Last, Discard
  <2>2. JournalGrows
    BY <1>2, <2>1 DEF JournalGrows
  <2>3. rows' \in Seq(Row) /\ RowsFollow'
    <3>1. CASE Last = 0
      <4>1. rows = <<>> /\ rows' = <<>>
        <5>1. rows = <<>> /\ SubSeq(rows, 1, 0 - 1) = <<>>
          <6>1. rows = <<>>
            BY <2>1, <3>1, EmptySeq
          <6>2. 0 - 1 \in Int /\ 0 - 1 < 1
            OBVIOUS
          <6> QED BY <6>1, <6>2, SubSeqEmpty
        <5> QED BY <1>4, <3>1, <5>1
      <4> QED BY <1>1, <2>1, <4>1 DEF RowsFollow, Last
    <3>2. CASE Last # 0
      <4>1. rows' \in Seq(Row) /\ Last' = Last - 1 /\ \A g \in 1..Last - 1 : rows'[g] = rows[g]
        <5>1. PICK k \in Nat : k = Last - 1 /\ k <= Len(rows)
          BY <1>2, <2>1, <3>2
        <5>2. rows' = SubSeq(rows, 1, k)
          BY <1>4, <5>1
        <5>3. rows' \in Seq(Row) /\ Len(rows') = k /\ \A g \in 1..k : rows'[g] = rows[g]
          BY <2>1, <5>1, <5>2, SubSeqProperties
        <5> QED BY <5>1, <5>3 DEF Last
      <4>2. ~(Last <= Len(journal))
        <5>1. Last \in 1..Last
          BY <1>2, <3>2
        <5> QED BY <1>1, <1>4, <5>1 DEF RowsFollow
      <4>3. Len(journal) = Last - 1
        BY <1>1, <1>2, <4>2 DEF RowsFollow
      <4>4. \A g \in 1..Last - 1 :
              /\ rows'[g].confirmed <=> g <= Len(journal)
              /\ g <= Len(journal) => rows'[g].event = journal[g] /\ rows'[g].count = g
              /\ rows'[g].status = "prepared" => g = Last - 1
              /\ rows'[g].status = "finalized" => g <= Len(journal)
        BY <1>1, <1>2, <4>1 DEF RowsFollow
      <4>5. \A g, h \in 1..Last - 1 : rows'[g].event = rows'[h].event => g = h
        BY <1>1, <1>2, <4>1 DEF RowsFollow
      <4>6. PICK k \in Nat : k = Last - 1
        BY <1>2, <3>2
      <4>7. Last' = k /\ Len(journal') = k /\ Len(journal) = k
        BY <2>1, <4>1, <4>3, <4>6
      <4> QED BY <2>1, <4>1, <4>4, <4>5, <4>6, <4>7 DEF RowsFollow
    <3> QED BY <3>1, <3>2
  <2>4. "restore" \in Pc
    BY DEF Pc
  <2>5. Moves(a) /\ ac'[a] = [ac[a] EXCEPT !.pc = "restore"]
    BY <1>1, <1>4, <2>4, PlaceForms DEF locks
  <2>6. Relies(a)'
    <3>1. ac'[a].pc = "restore" /\ ac'[a].old = ac[a].old
      BY <1>2, <2>5 DEF AnActor
    <3>2. ac'[a].old # None => InJournal(ac[a].old)'
      BY <1>1, <2>1, <3>1 DEF Relies, InJournal
    <3> QED BY <3>1, <3>2, AtRest
  <2> QED BY <1>2, <1>3, <2>1, <2>2, <2>3, <2>5, <2>6, WriteStep DEF Discard
<1>5. CASE Leave(a) /\ UNCHANGED rows
  <2>1. Moves(a) /\ ac'[a].pc \in Resting /\ ac'[a].old = None
    BY <1>1, <1>5, RecoveredRests
  <2> QED BY <1>3, <1>5, <2>1, RestStep DEF Discard, documents, database
<1> QED BY <1>4, <1>5 DEF Discard, RecoveryError

\* Its document is removed and the current file is written again.
LEMMA RestoreStep ==
    ASSUME AnchorInvariant, NEW a \in Actors, Restore(a)
    PROVE  AnchorInvariant'
<1>1. TypeOK /\ RowsFollow
  BY DEF AnchorInvariant
<1>2. Moves(a) /\ ac'[a].pc \in Resting /\ ac'[a].old = None
  BY <1>1, RecoveredRests DEF Restore
<1>3. Last \in Nat /\ Len(journal) \in Nat
  BY <1>1, TableFacts
<1>4. ASSUME Last # 0, rows[Last].status = "finalized"
      PROVE  RowDoc(Last) \in Nat \X Events /\ InJournal(RowDoc(Last))
  <2>1. Last \in 1..Last
    BY <1>3, <1>4
  <2>2. rows[Last] \in Row
    BY <1>1, <2>1, TableFacts
  <2>3. Last <= Len(journal) /\ rows[Last].event = journal[Last] /\ rows[Last].event \in Events
    BY <1>1, <1>4, <2>1, <2>2 DEF RowsFollow, Row
  <2> QED BY <1>3, <2>1, <2>3 DEF InJournal, RowDoc, Doc
<1>5. current' \in (Nat \X Events) \cup {None} /\ (current' # None => current' = current \/ InJournal(current'))
  BY <1>1, <1>4 DEF Restore, TypeOK
<1>6. OthersTyped
  BY <1>1, <1>5 DEF Restore, TypeOK, OthersTyped
<1> QED BY <1>2, <1>5, <1>6, RestStep DEF Restore

\* Prepared files that no row names are removed.
LEMMA RemoveOrphansStep ==
    ASSUME AnchorInvariant, NEW a \in Actors, RemoveOrphans(a)
    PROVE  AnchorInvariant'
<1>1. TypeOK
  BY DEF AnchorInvariant
<1>2. Moves(a) /\ ac'[a].pc \in Resting /\ ac'[a].old = None
  BY <1>1, RecoveredRests DEF RemoveOrphans
<1>3. OthersTyped
  BY <1>1 DEF RemoveOrphans, TypeOK, OthersTyped
<1> QED BY <1>2, <1>3, RestStep DEF RemoveOrphans

\* The latest row is quarantined.
LEMMA QuarantineStep ==
    ASSUME AnchorInvariant, NEW a \in Actors, Quarantine(a)
    PROVE  AnchorInvariant'
<1>1. TypeOK /\ RowsFollow
  BY DEF AnchorInvariant
<1>2. Moves(a) /\ ac'[a].pc \in Resting /\ ac'[a].old = None
  BY <1>1, RecoveredRests DEF Quarantine
<1>3. OthersTyped
  BY <1>1 DEF Quarantine, TypeOK, OthersTyped, documents
<1>4. CASE Last = 0
  BY <1>2, <1>3, <1>4, RestStep DEF Quarantine, documents, database
<1>5. CASE Last # 0
  <2>1. Last \in 1..Last
    BY <1>1, <1>5, TableFacts
  <2>2. rows' \in Seq(Row) /\ journal' \in Seq(Events) /\ JournalGrows /\ RowsFollow'
    BY <1>1, <1>5, <2>1, StatusRow DEF Quarantine
  <2>3. Relies(a)'
    BY <1>2, AtRest DEF Resting
  <2> QED BY <1>2, <1>3, <2>2, <2>3, WriteStep DEF Quarantine
<1> QED BY <1>4, <1>5

-----------------------------------------------------------------------------
(* Processes. *)

\* A process starts, asks for the runtime host, or dies.
LEMMA ProcessStep ==
    ASSUME AnchorInvariant, NEW a \in Actors, Start(a) \/ Own(a) \/ CrashStarter(a)
    PROVE  AnchorInvariant'
<1>1. TypeOK
  BY DEF AnchorInvariant
<1>2. used' \in Counters
  <2>1. Overlap => used' \in Counters
    BY <1>1, UsedForms DEF Overlap
  <2>2. CrashStarter(a) => used' \in Counters
    BY <1>1, UsedForms DEF CrashStarter
  <2>3. Own(a) => used' \in Counters
    BY <1>1, UsedForms DEF Own
  <2> QED BY <2>1, <2>2, <2>3 DEF Start
<1>3. OthersTyped
  BY <1>1, <1>2 DEF Start, Own, CrashStarter, TypeOK, OthersTyped, documents, Counters
<1>4. Moves(a) /\ ac'[a].pc \in Resting /\ ac'[a].old = None
  <2>1. CASE Start(a)
    <3> DEFINE n == [IdleActor EXCEPT !.pc = "status", !.recovering = TRUE]
    <3>1. n \in AnActor /\ n.pc \in Resting /\ n.old = None
      BY DEF IdleActor, AnActor, Resting, Pc
    <3>2. ac' = [ac EXCEPT ![a] = n] /\ UNCHANGED locks
      BY <2>1 DEF Start
    <3> HIDE DEF n
    <3> QED BY <1>1, <3>1, <3>2, MoveForms
  <2>2. CASE Own(a)
    <3>1. IdleActor \in AnActor /\ IdleActor.pc \in Resting /\ IdleActor.old = None
      BY DEF IdleActor, AnActor, Resting, Pc
    <3>2. ac' = [ac EXCEPT ![a] = IdleActor] /\ UNCHANGED locks
      BY <2>2 DEF Own
    <3> QED BY <1>1, <3>1, <3>2, MoveForms
  <2>3. CASE CrashStarter(a)
    BY <1>1, <2>3, RecoveredRests DEF CrashStarter
  <2> QED BY <2>1, <2>2, <2>3
<1> QED BY <1>3, <1>4, RestStep DEF Start, Own, CrashStarter, documents

\* A write fails.
LEMMA FailWriteStep ==
    ASSUME AnchorInvariant, NEW a \in Actors, FailWrite(a)
    PROVE  AnchorInvariant'
<1>1. TypeOK
  BY DEF AnchorInvariant
<1>2. used' \in Counters
  BY <1>1, UsedForms DEF FailWrite
<1>3. CASE RollBack(a) /\ UNCHANGED current
  <2>1. OthersTyped
    BY <1>1, <1>2, <1>3 DEF FailWrite, TypeOK, OthersTyped, Counters
  <2>2. Moves(a) /\ ac'[a] = [ac[a] EXCEPT !.pc = "status", !.recovering = TRUE]
    BY <1>1, <1>3, MoveForms
  <2>3. ac[a] \in AnActor
    BY <1>1, ActorTyped
  <2>4. ac'[a].pc \in Resting /\ ac'[a].old = ac[a].old
    BY <2>2, <2>3 DEF Resting, Pc, AnActor
  <2> QED BY <1>3, <2>1, <2>2, <2>4, RestStep DEF FailWrite
<1>4. CASE Leave(a) /\ UNCHANGED current
  <2>1. OthersTyped
    BY <1>1, <1>2, <1>4 DEF FailWrite, TypeOK, OthersTyped, Counters
  <2>2. Moves(a) /\ ac'[a].pc \in Resting /\ ac'[a].old = None
    BY <1>1, <1>4, RecoveredRests
  <2> QED BY <1>4, <2>1, <2>2, RestStep DEF FailWrite
<1>5. CASE FailFinalize(a) /\ UNCHANGED prepared
  <2>1. /\ Moves(a) /\ ac'[a].pc \in Resting /\ ac'[a].old \in {None, ac[a].old}
        /\ current' \in (Nat \X Events) \cup {None}
        /\ current' # None => current' = current \/ InJournal(current')
    BY <1>5, EndOfFinalize
  <2>2. OthersTyped
    BY <1>1, <1>2, <1>5, <2>1 DEF FailWrite, TypeOK, OthersTyped, Counters
  <2> QED BY <2>1, <2>2, RestStep DEF FailWrite
<1> QED BY <1>3, <1>4, <1>5 DEF FailWrite

\* The gateway dies, or the key is lost.
LEMMA LossStep ==
    ASSUME AnchorInvariant, CrashGateway \/ LoseKey
    PROVE  AnchorInvariant'
<1>1. TypeOK /\ RowsFollow /\ DocsFollow /\ \A a \in Actors : Relies(a)
  BY DEF AnchorInvariant
<1>2. UNCHANGED database /\ UNCHANGED documents /\ UNCHANGED <<marker, done>>
  BY DEF CrashGateway, LoseKey
<1>3. used' \in Counters
  BY <1>1, UsedForms DEF CrashGateway, LoseKey
<1>4. ac' \in [Actors -> AnActor] /\ \A b \in Actors : ac'[b] = IdleActor \/ (ac'[b] = ac[b] /\ (writer = b => writer' = b))
  <2>1. ac \in [Actors -> AnActor] /\ IdleActor \in AnActor
    BY <1>1 DEF TypeOK, AnActor, IdleActor, Pc
  <2>2. CASE CrashGateway
    BY <2>1, <2>2, AnchorAssumption DEF CrashGateway, Actors
  <2>3. CASE LoseKey
    BY <2>1, <2>3 DEF LoseKey, locks
  <2> QED BY <2>2, <2>3
<1>5. TypeOK'
  BY <1>1, <1>2, <1>3, <1>4 DEF CrashGateway, LoseKey, TypeOK, documents, database, locks, Counters, AnActor
<1>6. RowsFollow' /\ DocsFollow' /\ JournalGrows
  BY <1>1, <1>2 DEF RowsFollow, DocsFollow, InJournal, Receipted, Last, database, documents, JournalGrows, TypeOK
<1>7. ASSUME NEW b \in Actors PROVE Relies(b)'
  <2>1. CASE ac'[b] = IdleActor
    BY <2>1, AtRest DEF IdleActor
  <2>2. CASE ac'[b] = ac[b] /\ (writer = b => writer' = b)
    BY <1>1, <1>2, <1>5, <1>6, <2>2, RelianceKeeps
  <2> QED BY <1>4, <2>1, <2>2
<1> QED BY <1>5, <1>6, <1>7 DEF AnchorInvariant

\* Nothing happens.
LEMMA StutterStep ==
    ASSUME AnchorInvariant, UNCHANGED vars
    PROVE  AnchorInvariant'
<1>1. TypeOK /\ RowsFollow /\ DocsFollow /\ \A a \in Actors : Relies(a)
  BY DEF AnchorInvariant
<1>2. UNCHANGED database /\ UNCHANGED documents /\ UNCHANGED <<ac, writer, done>>
  BY DEF vars, database, documents
<1>3. TypeOK'
  BY <1>1 DEF vars, TypeOK
<1>4. RowsFollow' /\ DocsFollow' /\ JournalGrows
  BY <1>1, <1>2 DEF RowsFollow, DocsFollow, InJournal, Receipted, Last, database, documents, JournalGrows, TypeOK
<1>5. ASSUME NEW b \in Actors PROVE Relies(b)'
  BY <1>1, <1>2, <1>3, <1>4, RelianceKeeps
<1> QED BY <1>3, <1>4, <1>5 DEF AnchorInvariant

\* Every step keeps the invariant.
LEMMA AnchorStep ==
    ASSUME AnchorInvariant, [Next]_vars
    PROVE  AnchorInvariant'
<1>1. ASSUME NEW a \in Actors, Step(a) PROVE AnchorInvariant'
  BY <1>1, EnterStep, BeginStep, PrepareStep, CommitStep, RecordStep, ConfirmStep, FinalizeStep,
     PublishStep, SealStep, CleanStep, ReadStatusStep, JudgeStep, ResolveStep, DiscardStep, RestoreStep,
     RemoveOrphansStep, QuarantineStep, ProcessStep DEF Step
<1>2. ASSUME NEW a \in Actors, Start(a) \/ CrashStarter(a) \/ FailWrite(a) PROVE AnchorInvariant'
  BY <1>2, ProcessStep, FailWriteStep
<1>3. ASSUME NEW a \in Tasks, NEW e \in Events, Request(a, e) PROVE AnchorInvariant'
  BY <1>3, RequestStep
<1> QED BY <1>1, <1>2, <1>3, LossStep, StutterStep DEF Next

-----------------------------------------------------------------------------
(* The database and what is published. *)

\* Whatever the interleaving of appends and recoveries, and wherever processes
\* die and writes fail: rows, receipts and documents keep to each other.
THEOREM AnchorCorrect == Spec => []AnchorInvariant
  BY AnchorInit, AnchorStep, PTL DEF Spec

\* A document outside the database names a receipt that committed, also while
\* two processes finalize or recover at once (finalize_anchor under the writer
\* lock, FailFinalize putting the older current file back).
THEOREM PublishedCorrect == Spec => []PublishedIsCommitted
<1>1. AnchorInvariant => PublishedIsCommitted
  <2> SUFFICES ASSUME AnchorInvariant, NEW d \in finalized \cup ({current} \ {None})
               PROVE  /\ d[1] \in 1..Last /\ rows[d[1]].event = d[2] /\ rows[d[1]].confirmed
                      /\ rows[d[1]].count <= Len(journal)
    BY DEF PublishedIsCommitted
  <2>1. TypeOK /\ RowsFollow /\ InJournal(d)
    BY DEF AnchorInvariant, DocsFollow
  <2>2. Last \in Nat /\ Len(journal) \in Nat
    BY <2>1, TableFacts
  <2> QED BY <2>1, <2>2 DEF InJournal, RowsFollow
<1> QED BY <1>1, AnchorCorrect, PTL

\* An event has one receipt, however often its append is repeated after an
\* error or a crash, and what was reported done has one.
THEOREM OneReceiptCorrect == Spec => []OneReceiptPerEvent
<1>1. AnchorInvariant => OneReceiptPerEvent
  <2> SUFFICES ASSUME AnchorInvariant PROVE OneReceiptPerEvent
    OBVIOUS
  <2>1. TypeOK /\ RowsFollow /\ DocsFollow
    BY DEF AnchorInvariant
  <2>2. Last \in Nat /\ Len(journal) \in Nat
    BY <2>1, TableFacts
  <2>3. \A i \in 1..Len(journal) : i \in 1..Last /\ rows[i].event = journal[i]
    BY <2>1, <2>2 DEF RowsFollow
  <2>4. \A i, j \in 1..Len(journal) : journal[i] = journal[j] => i = j
    BY <2>1, <2>3 DEF RowsFollow
  <2> QED BY <2>1, <2>4 DEF OneReceiptPerEvent, DocsFollow, Receipted
<1> QED BY <1>1, AnchorCorrect, PTL

\* The confirmed rows are those of the receipts, in order, and only the last
\* row is unfinished.
THEOREM FollowCorrect == Spec => []AnchorsFollowJournal
<1>1. AnchorInvariant => AnchorsFollowJournal
  <2> SUFFICES ASSUME AnchorInvariant PROVE AnchorsFollowJournal
    OBVIOUS
  <2>1. TypeOK /\ RowsFollow
    BY DEF AnchorInvariant
  <2>2. Last \in Nat /\ Len(journal) \in Nat
    BY <2>1, TableFacts
  <2>3. {g \in 1..Last : rows[g].confirmed} = 1..Len(journal)
    BY <2>1, <2>2 DEF RowsFollow
  <2> QED BY <2>1, <2>2, <2>3 DEF AnchorsFollowJournal, RowsFollow
<1> QED BY <1>1, AnchorCorrect, PTL

-----------------------------------------------------------------------------
(* Who is active. *)

Others(a) == \A b \in Actors \ {a} : ac'[b] = ac[b]
Stay(a) == Others(a) /\ lock' = lock
Gone(a) == Others(a) /\ lock' = Release(lock, a) /\ ac'[a].pc = "idle"

\* An actor goes on under the lock it holds, or gives it up and is idle.
LEMMA Ways ==
    ASSUME TypeOK, NEW a \in Actors
    PROVE  /\ \A p : Goto(a, p) /\ lock' = lock => Stay(a)
           /\ \A n : ac' = [ac EXCEPT ![a] = n] /\ lock' = lock => Stay(a)
           /\ Leave(a) => Gone(a)
           /\ RollBack(a) => Stay(a)
           /\ Recovered(a) => Gone(a) \/ (a \in Starters /\ Stay(a))
           /\ FinalizeReturns(a) => Gone(a) \/ Stay(a)
           /\ FailFinalize(a) => Gone(a) \/ Stay(a)
           /\ FinalizeReturns(a) => a \in Starters \/ Gone(a)
<1>1. ac \in [Actors -> AnActor]
  BY DEF TypeOK, AnActor
<1>2. \A p : Goto(a, p) /\ lock' = lock => Stay(a)
  BY <1>1 DEF Goto, Stay, Others
<1>3. \A n : ac' = [ac EXCEPT ![a] = n] /\ lock' = lock => Stay(a)
  BY <1>1 DEF Stay, Others
<1>4. Leave(a) => Gone(a)
  BY <1>1 DEF Leave, Gone, Others, IdleActor
<1>5. RollBack(a) => Stay(a)
  BY <1>1 DEF RollBack, Stay, Others
<1>6. Recovered(a) => Gone(a) \/ (a \in Starters /\ Stay(a))
  BY <1>3, <1>4 DEF Recovered, locks
<1>7. FinalizeReturns(a) => Gone(a) \/ Stay(a)
  BY <1>4, <1>6 DEF FinalizeReturns
<1>8. FailFinalize(a) => Gone(a) \/ Stay(a)
  BY <1>2, <1>4 DEF FailFinalize
<1>9. FinalizeReturns(a) => a \in Starters \/ Gone(a)
  BY <1>4, <1>6 DEF FinalizeReturns
<1> QED BY <1>2, <1>3, <1>4, <1>5, <1>6, <1>7, <1>8, <1>9

\* A step of an actor that is not idle.
LEMMA StepFrame ==
    ASSUME TypeOK, NEW a \in Actors, Step(a) \/ FailWrite(a)
    PROVE  /\ ac[a].pc # "idle"
           /\ up = TRUE => up' = TRUE
           /\ \/ Gone(a)
              \/ Stay(a) /\ ac[a].pc # "lock"
              \/ Others(a) /\ lock = None /\ lock' = a
<1>1. ac \in [Actors -> AnActor]
  BY DEF TypeOK, AnActor
<1>2. CASE Enter(a)
  <2>1. CASE Available
    BY <1>1, <1>2, <2>1 DEF Enter, Goto, Others
  <2>2. CASE ~Available
    BY <1>2, <2>2, Ways DEF Enter
  <2> QED BY <1>2, <2>1, <2>2 DEF Enter
<1>3. CASE Begin(a)
  BY <1>3, Ways DEF Begin
<1>4. CASE Prepare(a)
  BY <1>4, Ways DEF Prepare, locks
<1>5. CASE Commit(a) \/ Record(a) \/ Confirm(a)
  BY <1>5, Ways DEF Commit, Record, Confirm, locks
<1>6. CASE Finalize(a)
  <2>1. ac' = [ac EXCEPT ![a].pc = "publish", ![a].old = current] => Others(a)
    BY <1>1 DEF Others
  <2>2. FinalizeReturns(a) => Gone(a) \/ Stay(a)
    BY Ways
  <2>3. FailFinalize(a) => Gone(a) \/ Stay(a)
    BY Ways
  <2> QED BY <1>6, <2>1, <2>2, <2>3 DEF Finalize, Stay
<1>7. CASE Publish(a) \/ Seal(a)
  BY <1>7, Ways DEF Publish, Seal, locks
<1>8. CASE Clean(a)
  BY <1>8, Ways DEF Clean
<1>9. CASE ReadStatus(a)
  <2>1. Recovered(a) => Gone(a) \/ Stay(a)
    BY Ways
  <2>2. CASE UNCHANGED locks /\ Others(a)
    BY <1>9, <2>2 DEF ReadStatus, locks, Stay
  <2>3. Recovered(a) \/ (UNCHANGED locks /\ Others(a))
    BY <1>1, <1>9 DEF ReadStatus, Others
  <2> QED BY <1>9, <2>1, <2>2, <2>3 DEF ReadStatus
<1>10. CASE Judge(a)
  BY <1>10, Ways DEF Judge, locks
<1>11. CASE Resolve(a)
  <2>1. Leave(a) => Gone(a)
    BY Ways
  <2>2. Leave(a) \/ (UNCHANGED locks /\ Others(a))
    BY <1>1, <1>11 DEF Resolve, RecoveryError, Others
  <2> QED BY <1>11, <2>1, <2>2 DEF Resolve, locks, Stay
<1>12. CASE Discard(a)
  BY <1>12, Ways DEF Discard, RecoveryError, locks
<1>13. CASE Restore(a) \/ RemoveOrphans(a) \/ Quarantine(a)
  BY <1>13, Ways DEF Restore, RemoveOrphans, Quarantine
<1>14. CASE Own(a)
  BY <1>14, Ways DEF Own, locks
<1>15. CASE FailWrite(a)
  BY <1>15, Ways DEF FailWrite
<1> QED BY <1>2, <1>3, <1>4, <1>5, <1>6, <1>7, <1>8, <1>9, <1>10, <1>11, <1>12, <1>13, <1>14, <1>15 DEF Step

\* The append lock keeps the tasks apart, and they end with their gateway.
LEMMA TasksStep ==
    ASSUME TypeOK, TasksAreLocked, [Next]_vars
    PROVE  TasksAreLocked'
<1> DEFINE Locked(t) == /\ up = FALSE => ac[t].pc = "idle"
                        /\ Active(t) => lock = t
<1> SUFFICES ASSUME NEW t \in Tasks PROVE Locked(t)'
  BY DEF TasksAreLocked
<1>1. Locked(t) /\ t \in Actors /\ up \in BOOLEAN /\ ac \in [Actors -> AnActor] /\ t # None /\ t \notin Starters
  BY AnchorAssumption DEF TasksAreLocked, TypeOK, Actors, AnActor
<1>2. ASSUME NEW a \in Actors, Step(a) \/ FailWrite(a) PROVE Locked(t)'
  <2>1. /\ ac[a].pc # "idle"
        /\ up = TRUE => up' = TRUE
        /\ \/ Gone(a)
           \/ Stay(a) /\ ac[a].pc # "lock"
           \/ Others(a) /\ lock = None /\ lock' = a
    BY <1>2, StepFrame DEF TypeOK
  <2>2. CASE a = t
    BY <1>1, <2>1, <2>2 DEF Gone, Stay, Active
  <2>3. CASE a # t
    BY <1>1, <2>1, <2>3 DEF Gone, Stay, Others, Active, Release
  <2> QED BY <2>2, <2>3
<1>3. ASSUME NEW a \in Actors, Start(a) PROVE Locked(t)'
  <2>1. up' = up /\ lock' = lock /\ ac'[t] = ac[t]
    BY <1>1, <1>3 DEF Start, locks
  <2> QED BY <1>1, <2>1 DEF Active
<1>4. ASSUME NEW a \in Actors, CrashStarter(a) PROVE Locked(t)'
  <2>1. up' = up /\ lock' = Release(lock, a) /\ ac'[t] = ac[t] /\ a # t
    BY <1>1, <1>4 DEF CrashStarter, Leave
  <2> QED BY <1>1, <2>1 DEF Active, Release
<1>5. ASSUME NEW a \in Tasks, NEW e \in Events, Request(a, e) PROVE Locked(t)'
  <2>1. up' = up /\ up = TRUE /\ lock' = lock
    BY <1>1, <1>5 DEF Request, locks
  <2>2. CASE a = t
    <3>1. ac'[t].pc = "lock"
      BY <1>1, <1>5, <2>2 DEF Request, IdleActor
    <3> QED BY <2>1, <3>1 DEF Active
  <2>3. CASE a # t
    <3>1. ac'[t] = ac[t]
      BY <1>1, <1>5, <2>3 DEF Request
    <3> QED BY <1>1, <2>1, <3>1 DEF Active
  <2> QED BY <2>2, <2>3
<1>6. CASE CrashGateway
  BY <1>1, <1>6 DEF CrashGateway, IdleActor, Active
<1>7. CASE LoseKey \/ UNCHANGED vars
  <2>1. up' = up /\ lock' = lock /\ ac' = ac
    BY <1>7 DEF LoseKey, vars, locks
  <2> QED BY <1>1, <2>1 DEF Active
<1> QED BY <1>2, <1>3, <1>4, <1>5, <1>6, <1>7 DEF Next

\* As long as nothing but crashes went wrong there is one active actor.
LEMMA Alone ==
    ASSUME TypeOK, TasksAreLocked, StartsAlone, NEW a \in Actors, NEW b \in Actors,
           Active(a), Active(b)
    PROVE  a = b
<1>1. up \in BOOLEAN /\ Actors = Tasks \cup Starters
  BY DEF TypeOK, Actors
<1>2. ac[a].pc # "idle" /\ ac[b].pc # "idle"
  BY DEF Active
<1> QED BY <1>1, <1>2 DEF TasksAreLocked, StartsAlone

-----------------------------------------------------------------------------
(* What the only active actor does to the documents. *)

AtEase == {"idle", "lock", "begin", "prepare", "confirm", "status", "orphans", "own", "discard"}

\* Nothing is claimed of an actor in these places.
LEMMA EaseStands ==
    ASSUME NEW a \in Actors, ac'[a].pc \in AtEase
    PROVE  Stands(a)'
  BY DEF Stands, AtEase

\* The documents as they were.
LEMMA SameDocs ==
    ASSUME DocsExplain, UNCHANGED <<database, marker, finalized, current>>, prepared \subseteq prepared'
    PROVE  DocsExplain'
<1>1. rows' = rows /\ journal' = journal /\ Last' = Last /\ marker' = marker
      /\ finalized' = finalized /\ current' = current
  BY DEF database, Last
<1> QED BY <1>1 DEF DocsExplain, RowDoc, Doc, Before

\* The actor's event names the last row.
LEMMA LastGen ==
    ASSUME TypeOK, RowsFollow, NEW a \in Actors, OfLastRow(a)
    PROVE  Last \in 1..Last /\ Gens(a) = {Last} /\ Gen(a) = Last
<1>1. Last \in 1..Last
  BY TableFacts DEF OfLastRow
<1>2. Gens(a) = {Last}
  BY <1>1 DEF Gens, OfLastRow, RowsFollow
<1> QED BY <1>1, <1>2 DEF Gen

\* All rows but the last are finalized and published.
LEMMA OlderRows ==
    ASSUME TypeOK, RowsFollow, DocsExplain, NEW g \in 1..Last,
           g # Last \/ rows[g].status # "prepared"
    PROVE  rows[g].status = "finalized" /\ RowDoc(g) \in finalized
<1>1. rows[g].status \in RowStatus
  <2>1. rows[g] \in Row
    BY TableFacts
  <2> QED BY <2>1 DEF Row
<1>2. rows[g].status # "prepared"
  BY DEF RowsFollow
<1> QED BY <1>1, <1>2 DEF RowStatus, DocsExplain

\* An actor at ease leaves the documents alone.
LEMMA EaseStep ==
    ASSUME TypeOK, DocsExplain, NEW a \in Actors,
           UNCHANGED <<database, marker, finalized, current>>, prepared \subseteq prepared',
           Leave(a) \/ RollBack(a) \/ Recovered(a)
    PROVE  DocsExplain' /\ Stands(a)'
<1>1. ac[a] \in AnActor
  BY ActorTyped
<1>2. ac'[a].pc \in {"idle", "own", "status"}
  <2>1. CASE Leave(a) \/ Recovered(a)
    <3>1. ac'[a] \in {IdleActor, [IdleActor EXCEPT !.pc = "own"]}
      BY <2>1, MoveForms
    <3> QED BY <3>1 DEF IdleActor
  <2>2. CASE RollBack(a)
    <3>1. ac'[a] = [ac[a] EXCEPT !.pc = "status", !.recovering = TRUE]
      BY <2>2, MoveForms
    <3> QED BY <1>1, <3>1 DEF AnActor
  <2> QED BY <2>1, <2>2
<1>3. Stands(a)'
  BY <1>2, EaseStands DEF AtEase
<1> QED BY <1>3, SameDocs

\* An actor goes to another place.
LEMMA PlaceIs ==
    ASSUME TypeOK, NEW a \in Actors, NEW p \in Pc, Goto(a, p)
    PROVE  ac'[a].pc = p /\ ac'[a].event = ac[a].event
<1>1. ac[a] \in AnActor /\ ac \in [Actors -> AnActor]
  BY DEF TypeOK, AnActor
<1>2. ac'[a] = [ac[a] EXCEPT !.pc = p]
  BY <1>1 DEF Goto
<1> QED BY <1>1, <1>2 DEF AnActor

\* An append on its way to its commit.
LEMMA QuietAppend ==
    ASSUME TypeOK, DocsExplain, NEW a \in Actors, Stands(a), Enter(a) \/ Begin(a) \/ Prepare(a)
    PROVE  DocsExplain' /\ Stands(a)'
<1>1. CASE Leave(a) \/ RollBack(a)
  BY <1>1, EaseStep DEF Enter, Begin, Prepare, documents
<1>2. CASE \E p \in {"begin", "prepare"} : Goto(a, p)
  <2>1. PICK p \in {"begin", "prepare"} : Goto(a, p)
    BY <1>2
  <2>2. p \in Pc
    BY DEF Pc
  <2>3. ac'[a].pc \in AtEase
    BY <2>1, <2>2, PlaceIs DEF AtEase
  <2>4. Stands(a)'
    BY <2>3, EaseStands
  <2>5. UNCHANGED <<database, marker, finalized, current>> /\ prepared \subseteq prepared'
    BY DEF Enter, Begin, Prepare, documents
  <2> QED BY <2>4, <2>5, SameDocs
<1>3. CASE Prepare(a) /\ Available /\ keyOk
  <2> DEFINE p == IF ac[a].split THEN "record" ELSE "commit"
  <2>1. p \in Pc /\ p \in {"commit", "record"} /\ Goto(a, p)
    BY <1>3 DEF Pc, Prepare
  <2> HIDE DEF p
  <2>2. ac'[a].pc = p /\ ac'[a].event = ac[a].event
    BY <2>1, PlaceIs
  <2>3. UNCHANGED <<database, marker, finalized, current>> /\ prepared \subseteq prepared'
    BY <1>3 DEF Prepare
  <2>4. Doc(Last + 1, ac[a].event) \in prepared' /\ Last' = Last
    BY <1>3, <2>3 DEF Prepare, database, Last
  <2>5. Stands(a)'
    BY <2>1, <2>2, <2>4 DEF Stands, Doc
  <2> QED BY <2>3, <2>5, SameDocs
<1> QED BY <1>1, <1>2, <1>3 DEF Enter, Begin, Prepare

\* The row of an append appears after those that are published.
LEMMA QuietNewRow ==
    ASSUME TypeOK, RowsFollow, DocsExplain, NEW a \in Actors, Relies(a), Stands(a), Commit(a) \/ Record(a)
    PROVE  DocsExplain' /\ Stands(a)'
<1>1. /\ ac[a].pc \in {"commit", "record"} /\ ac[a].event \in Events
      /\ ac[a].head = Len(journal) /\ Last = Len(journal)
      /\ \A g \in 1..Last : rows[g].status = "finalized"
      /\ Doc(Last + 1, ac[a].event) \in prepared
  BY DEF Commit, Record, Relies, Stands
<1>2. Len(journal) \in Nat /\ rows \in Seq(Row) /\ journal \in Seq(Events) /\ Last = Len(rows)
  BY TableFacts DEF TypeOK, Last
<1>3. UNCHANGED documents /\ marker' = marker
  BY DEF Commit, Record
<1>4. PICK r \in Row : rows' = Append(rows, r) /\ r.event = ac[a].event /\ r.status = "prepared"
  <2>1. \A c \in BOOLEAN : NewRow(a, c) \in Row
    BY <1>1, <1>2 DEF NewRow, Row, RowStatus
  <2>2. \A c \in BOOLEAN : NewRow(a, c).event = ac[a].event /\ NewRow(a, c).status = "prepared"
    BY DEF NewRow
  <2>3. \E c \in BOOLEAN : rows' = Append(rows, NewRow(a, c))
    BY DEF Commit, Record
  <2> QED BY <2>1, <2>2, <2>3
<1>5. PICK l \in Nat, m \in Nat \ {0} : l = Last /\ m = l + 1
  BY <1>1, <1>2
<1>6. /\ Last' = m /\ rows'[m] = r
      /\ \A g \in 1..l : rows'[g] = rows[g]
  BY <1>2, <1>4, <1>5, RowAppended DEF Last
<1>7. RowDoc(m)' = Doc(m, ac[a].event) /\ \A g \in 1..l : RowDoc(g)' = RowDoc(g)
  BY <1>4, <1>6 DEF RowDoc, Doc
<1>8. DocsExplain'
  <2>1. rows'[m].status = "prepared" /\ RowDoc(m)' \in prepared'
    BY <1>1, <1>3, <1>4, <1>5, <1>6, <1>7 DEF documents
  <2>2. \A g \in 1..m : /\ rows'[g].status # "quarantined"
                        /\ rows'[g].status = "finalized" => RowDoc(g)' \in finalized'
    <3>1. \A g \in 1..m : g # m => g \in 1..l
      BY <1>5
    <3> QED BY <1>1, <1>3, <1>5, <1>6, <1>7, <2>1, <3>1 DEF documents, DocsExplain
  <2>3. current' = Before(m)'
    <3>1. CASE l = 0
      BY <1>3, <1>5, <3>1 DEF DocsExplain, Before, documents
    <3>2. CASE l # 0
      <4>1. l \in 1..l /\ m - 1 = l /\ m # 1
        BY <1>5, <3>2
      <4>2. current = RowDoc(l)
        BY <1>1, <1>5, <4>1 DEF DocsExplain
      <4> QED BY <1>3, <1>7, <4>1, <4>2 DEF Before, documents
    <3> QED BY <3>1, <3>2
  <2>4. marker' = FALSE
    BY <1>3 DEF DocsExplain
  <2> QED BY <1>6, <2>1, <2>2, <2>3, <2>4 DEF DocsExplain, Before, RowDoc
<1>9. Stands(a)'
  <2>1. CASE Record(a)
    <3>1. "confirm" \in Pc
      BY DEF Pc
    <3> QED BY <2>1, <3>1, PlaceIs, EaseStands DEF Record, AtEase
  <2>2. CASE Commit(a)
    <3>1. "final" \in Pc
      BY DEF Pc
    <3>2. ac'[a].pc = "final" /\ ac'[a].event = ac[a].event
      BY <2>2, <3>1, PlaceIs DEF Commit
    <3>3. Len(journal') = m
      <4>1. journal' = Append(journal, ac[a].event)
        BY <2>2 DEF Commit
      <4>2. Len(journal') = Len(journal) + 1
        BY <1>1, <1>2, <4>1, ReceiptAppended
      <4> QED BY <1>1, <1>5, <4>2
    <3>4. OfLastRow(a)' /\ rows'[Last'].status = "prepared" /\ Last' = Len(journal')
      BY <1>4, <1>6, <3>2, <3>3 DEF OfLastRow
    <3> QED BY <3>2, <3>4 DEF Stands
  <2> QED BY <2>1, <2>2
<1> QED BY <1>8, <1>9

\* The receipt of a split append confirms the row that waits for it.
LEMMA QuietConfirm ==
    ASSUME TypeOK, RowsFollow, DocsExplain, NEW a \in Actors, Relies(a), Confirm(a)
    PROVE  DocsExplain' /\ Stands(a)'
<1>1. CASE RollBack(a) /\ UNCHANGED database
  BY <1>1, EaseStep DEF Confirm, documents
<1>2. CASE /\ Last > 0 /\ rows[Last] = NewRow(a, FALSE) /\ ac[a].head = Len(journal)
           /\ journal' = Append(journal, ac[a].event)
           /\ rows' = [rows EXCEPT ![Last].confirmed = TRUE]
           /\ Goto(a, "final")
  <2>1. /\ Len(journal) \in Nat /\ Last \in Nat /\ rows \in Seq(Row) /\ journal \in Seq(Events)
        /\ ac[a].event \in Events
    BY TableFacts DEF TypeOK, Confirm, Relies
  <2>2. PICK m \in Nat \ {0} : m = Last /\ m \in 1..Len(rows) /\ Len(rows) = m
    BY <1>2, <2>1 DEF Last
  <2>3. rows[m].event = ac[a].event /\ rows[m].status = "prepared" /\ ~rows[m].confirmed
    BY <1>2, <2>2 DEF NewRow
  <2>4. Len(journal) = m - 1 /\ Len(journal') = m
    <3>1. ~(m <= Len(journal)) /\ m <= Len(journal) + 1
      BY <2>2, <2>3 DEF RowsFollow, Last
    <3>2. Len(journal') = Len(journal) + 1
      BY <1>2, <2>1, ReceiptAppended
    <3> QED BY <2>1, <2>2, <3>1, <3>2
  <2>5. rows[m] \in Row
    BY <2>1, <2>2
  <2>6. rows' = [rows EXCEPT ![m] = [rows[m] EXCEPT !.confirmed = TRUE]]
    BY <1>2, <2>2
  <2>7. Last' = m /\ \A g \in 1..m : rows'[g].event = rows[g].event /\ rows'[g].status = rows[g].status
    <3>1. /\ Len(rows') = Len(rows) /\ rows'[m] = [rows[m] EXCEPT !.confirmed = TRUE]
          /\ \A g \in 1..Len(rows) : g # m => rows'[g] = rows[g]
      BY <2>1, <2>2, <2>6
    <3>2. rows'[m].event = rows[m].event /\ rows'[m].status = rows[m].status
      BY <2>5, <3>1 DEF Row
    <3> QED BY <2>2, <3>1, <3>2 DEF Last
  <2>8. \A g \in 1..m : RowDoc(g)' = RowDoc(g)
    BY <2>7 DEF RowDoc, Doc
  <2>9. Before(m)' = Before(m)
    <3>1. m # 1 => m - 1 \in 1..m
      BY <2>2
    <3> QED BY <2>8, <3>1 DEF Before
  <2>10. /\ marker = FALSE /\ RowDoc(m) \in prepared /\ current = Before(m)
         /\ \A g \in 1..m : /\ rows[g].status # "quarantined"
                            /\ rows[g].status = "finalized" => RowDoc(g) \in finalized
    <3>1. m # Len(journal)
      BY <2>2, <2>4
    <3> QED BY <2>2, <2>3, <3>1 DEF DocsExplain
  <2>11. UNCHANGED documents /\ marker' = marker
    BY DEF Confirm
  <2>12. DocsExplain'
    <3>1. m \in 1..m /\ m # 0
      BY <2>2
    <3> QED BY <2>3, <2>7, <2>8, <2>9, <2>10, <2>11, <3>1 DEF DocsExplain, Before, RowDoc, documents
  <2>13. Stands(a)'
    <3>1. "final" \in Pc
      BY DEF Pc
    <3>2. ac'[a].pc = "final" /\ ac'[a].event = ac[a].event
      BY <1>2, <3>1, PlaceIs
    <3>3. m \in 1..m /\ m > 0
      BY <2>2
    <3>4. OfLastRow(a)' /\ rows'[Last'].status = "prepared" /\ Last' = Len(journal')
      BY <2>3, <2>4, <2>7, <3>2, <3>3 DEF OfLastRow
    <3> QED BY <3>2, <3>4 DEF Stands
  <2> QED BY <2>12, <2>13
<1> QED BY <1>1, <1>2 DEF Confirm

\* A finalization is never refused, and ends with the row published and sealed.
LEMMA QuietFinalize ==
    ASSUME TypeOK, RowsFollow, DocsExplain, keyOk, NEW a \in Actors, Stands(a), Finalize(a)
    PROVE  DocsExplain' /\ Stands(a)'
<1>1. /\ OfLastRow(a) /\ rows[Last].status = "prepared" /\ Last = Len(journal)
  BY DEF Stands, Finalize
<1>2. Last \in 1..Last /\ Gens(a) = {Last} /\ Gen(a) = Last /\ Last \in Nat
  BY <1>1, LastGen, TableFacts
<1>3. Finalizable(Last)
  <2>1. rows[Last].confirmed
    BY <1>1, <1>2 DEF RowsFollow
  <2>2. RowDoc(Last) \in prepared /\ (current = Before(Last) \/ current = RowDoc(Last))
    BY <1>1, <1>2 DEF DocsExplain
  <2>3. Last # 1 => RowDoc(Last - 1) \in finalized /\ Last > 1
    <3>1. Last # 1 => Last - 1 \in 1..Last /\ Last - 1 # Last /\ Last > 1
      BY <1>2
    <3> QED BY <3>1, OlderRows
  <2> QED BY <1>1, <2>1, <2>2, <2>3 DEF Finalizable, CanFinalize, Before
<1>4. /\ finalized' = finalized \cup {RowDoc(Last)}
      /\ ac' = [ac EXCEPT ![a].pc = "publish", ![a].old = current]
      /\ UNCHANGED current /\ UNCHANGED database /\ UNCHANGED <<prepared, marker>>
  BY <1>1, <1>2, <1>3 DEF Finalize
<1>5. Last' = Last /\ journal' = journal /\ rows' = rows
  BY <1>4 DEF Last, database
<1>6. DocsExplain'
  BY <1>4, <1>5 DEF DocsExplain, RowDoc, Doc, Before
<1>7. ac'[a].pc = "publish" /\ ac'[a].event = ac[a].event
  <2>1. ac[a] \in AnActor /\ ac \in [Actors -> AnActor]
    BY DEF TypeOK, AnActor
  <2> QED BY <1>4, <2>1 DEF AnActor
<1>8. Stands(a)'
  BY <1>1, <1>4, <1>5, <1>7 DEF Stands, OfLastRow, RowDoc, Doc
<1> QED BY <1>6, <1>8

\* The current file follows.
LEMMA QuietPublish ==
    ASSUME TypeOK, RowsFollow, DocsExplain, NEW a \in Actors, Stands(a), Publish(a)
    PROVE  DocsExplain' /\ Stands(a)'
<1>1. OfLastRow(a) /\ rows[Last].status = "prepared" /\ Last = Len(journal) /\ RowDoc(Last) \in finalized
  BY DEF Stands, Publish
<1>2. Last \in 1..Last /\ Gen(a) = Last /\ Last \in Nat
  BY <1>1, LastGen, TableFacts
<1>3. Last' = Last /\ journal' = journal /\ rows' = rows /\ current' = RowDoc(Last)
      /\ UNCHANGED <<prepared, finalized, marker>>
  BY <1>2 DEF Last, database, Publish
<1>4. DocsExplain'
  BY <1>1, <1>2, <1>3 DEF DocsExplain, RowDoc, Doc, Before
<1>5. ac'[a].pc = "seal" /\ ac'[a].event = ac[a].event
  <2>1. "seal" \in Pc
    BY DEF Pc
  <2> QED BY <2>1, PlaceIs DEF Publish
<1>6. Stands(a)'
  BY <1>1, <1>3, <1>5 DEF Stands, OfLastRow, RowDoc, Doc
<1> QED BY <1>4, <1>6

\* The row is sealed.
LEMMA QuietSeal ==
    ASSUME TypeOK, RowsFollow, DocsExplain, NEW a \in Actors, Stands(a), Seal(a)
    PROVE  DocsExplain' /\ Stands(a)'
<1>1. OfLastRow(a) /\ RowDoc(Last) \in finalized /\ current = RowDoc(Last)
  BY DEF Stands, Seal
<1>2. Last \in 1..Last /\ Gen(a) = Last /\ Last \in Nat /\ rows \in Seq(Row)
  BY <1>1, LastGen, TableFacts DEF TypeOK
<1>3. PICK m \in Nat \ {0} : m = Last /\ m \in 1..Len(rows) /\ Len(rows) = m
  BY <1>2 DEF Last
<1>4. rows' = [rows EXCEPT ![m] = [rows[m] EXCEPT !.status = "finalized"]]
  BY <1>2, <1>3 DEF Seal
<1>5. /\ Last' = m /\ rows'[m].status = "finalized"
      /\ \A g \in 1..m : rows'[g].event = rows[g].event
      /\ \A g \in 1..m : g # m => rows'[g].status = rows[g].status
  <2>1. rows[m] \in Row
    BY <1>2, <1>3
  <2>2. /\ Len(rows') = Len(rows) /\ rows'[m] = [rows[m] EXCEPT !.status = "finalized"]
        /\ \A g \in 1..Len(rows) : g # m => rows'[g] = rows[g]
    BY <1>2, <1>3, <1>4
  <2>3. rows'[m].event = rows[m].event /\ rows'[m].status = "finalized"
    BY <2>1, <2>2 DEF Row
  <2> QED BY <1>3, <2>2, <2>3 DEF Last
<1>6. \A g \in 1..m : RowDoc(g)' = RowDoc(g)
  BY <1>5 DEF RowDoc, Doc
<1>7. UNCHANGED documents /\ marker' = marker
  BY DEF Seal
<1>8. m \in 1..m /\ m > 0
  BY <1>3
<1>9. DocsExplain'
  <2>1. marker = FALSE
        /\ \A g \in 1..m : /\ rows[g].status # "quarantined"
                           /\ rows[g].status = "finalized" => RowDoc(g) \in finalized
    BY <1>3 DEF DocsExplain
  <2>2. RowDoc(m)' \in finalized' /\ current' = RowDoc(m)'
    BY <1>1, <1>3, <1>6, <1>7, <1>8 DEF documents
  <2> QED BY <1>5, <1>6, <1>7, <1>8, <2>1, <2>2 DEF DocsExplain, RowDoc, documents
<1>10. Stands(a)'
  <2>1. "clean" \in Pc
    BY DEF Pc
  <2>2. ac'[a].pc = "clean" /\ ac'[a].event = ac[a].event
    BY <2>1, PlaceIs DEF Seal
  <2>3. OfLastRow(a)' /\ rows'[Last'].status = "finalized"
    BY <1>1, <1>3, <1>5, <1>8, <2>2 DEF OfLastRow
  <2> QED BY <2>2, <2>3 DEF Stands
<1> QED BY <1>9, <1>10

\* A prepared document that no unfinished row needs may go.
LEMMA PreparedDocs ==
    ASSUME DocsExplain, UNCHANGED <<database, marker, finalized, current>>,
           Last > 0 /\ rows[Last].status # "finalized" /\ RowDoc(Last) \in prepared => RowDoc(Last) \in prepared'
    PROVE  DocsExplain'
<1>1. rows' = rows /\ journal' = journal /\ Last' = Last /\ marker' = marker
      /\ finalized' = finalized /\ current' = current
  BY DEF database, Last
<1> QED BY <1>1 DEF DocsExplain, RowDoc, Doc, Before

\* An actor that has recovered is at ease.
LEMMA RecoveredStands ==
    ASSUME TypeOK, NEW a \in Actors, Leave(a) \/ Recovered(a)
    PROVE  Stands(a)'
<1>1. ac'[a] \in {IdleActor, [IdleActor EXCEPT !.pc = "own"]}
  BY MoveForms
<1>2. ac'[a].pc \in AtEase
  BY <1>1 DEF IdleActor, AtEase
<1> QED BY <1>2, EaseStands

\* The verification after the seal succeeds.
LEMMA QuietClean ==
    ASSUME TypeOK, RowsFollow, DocsExplain, keyOk, NEW a \in Actors, Stands(a), Clean(a)
    PROVE  DocsExplain' /\ Stands(a)'
<1>1. OfLastRow(a) /\ rows[Last].status = "finalized"
  BY DEF Stands, Clean
<1>2. Last \in 1..Last /\ Gens(a) = {Last} /\ Gen(a) = Last /\ Last > 0
  BY <1>1, LastGen DEF OfLastRow
<1>3. FinalizedVerifies(Last)
  BY <1>1, <1>2 DEF FinalizedVerifies, DocsExplain
<1>4. FinalizeReturns(a) /\ UNCHANGED current
  BY <1>2, <1>3 DEF Clean
<1>5. DocsExplain'
  BY <1>1, <1>4, PreparedDocs DEF Clean
<1>6. Stands(a)'
  BY <1>4, RecoveredStands DEF FinalizeReturns
<1> QED BY <1>5, <1>6

\* The status names the last row.
LEMMA QuietReadStatus ==
    ASSUME TypeOK, DocsExplain, NEW a \in Actors, ReadStatus(a)
    PROVE  DocsExplain' /\ Stands(a)'
<1>1. Last \in Nat /\ (Last > 0 => Last \in 1..Last)
  BY TableFacts
<1>2. ~(marker \/ (Last > 0 /\ rows[Last].status = "quarantined"))
  BY <1>1 DEF DocsExplain
<1>3. ac' = [ac EXCEPT ![a].pc = "judge", ![a].view = Last,
                       ![a].seen = IF Last = 0 THEN "none" ELSE rows[Last].status,
                       ![a].event = IF Last = 0 THEN @ ELSE rows[Last].event]
      /\ UNCHANGED <<database, documents, marker>>
  BY <1>2 DEF ReadStatus
<1>4. ac[a] \in AnActor /\ ac \in [Actors -> AnActor]
  BY DEF TypeOK, AnActor
<1>5. /\ ac'[a].pc = "judge" /\ ac'[a].view = Last
      /\ ac'[a].seen = (IF Last = 0 THEN "none" ELSE rows[Last].status)
      /\ Last # 0 => ac'[a].event = rows[Last].event
  BY <1>3, <1>4 DEF AnActor
<1>6. Last' = Last /\ rows' = rows
  BY <1>3 DEF Last, database
<1>7. Stands(a)'
  BY <1>1, <1>5, <1>6 DEF Stands, OfLastRow
<1>8. DocsExplain'
  BY <1>3, SameDocs DEF documents
<1> QED BY <1>7, <1>8

\* An intact history verifies.
LEMMA QuietJudge ==
    ASSUME TypeOK, RowsFollow, DocsExplain, keyOk, NEW a \in Actors, Stands(a), Judge(a)
    PROVE  DocsExplain' /\ Stands(a)'
<1>1. Last \in Nat /\ (Last > 0 => Last \in 1..Last) /\ Len(journal) \in Nat
  BY TableFacts
<1>2. /\ ac[a].view = Last /\ (Last = 0 => ac[a].seen = "none")
      /\ Last > 0 => ac[a].seen = rows[Last].status /\ OfLastRow(a)
  BY DEF Stands, Judge
<1>3. UNCHANGED <<database, documents, marker>>
  BY DEF Judge
<1>4. DocsExplain'
  BY <1>3, SameDocs DEF documents
<1>5. CASE Last = 0
  <2>1. Uninitialized
    <3>1. Len(journal) = 0
      BY <1>1, <1>5 DEF RowsFollow
    <3>2. journal = <<>> /\ rows = <<>>
      BY <1>5, <3>1, EmptySeq DEF TypeOK, Last
    <3> QED BY <1>5, <3>2 DEF Uninitialized, DocsExplain
  <2>2. Goto(a, "orphans") /\ "orphans" \in Pc
    BY <1>2, <1>5, <2>1 DEF Judge, Pc
  <2> QED BY <1>4, <2>2, PlaceIs, EaseStands DEF AtEase
<1>6. CASE Last > 0 /\ rows[Last].status = "prepared"
  <2>1. Goto(a, "resolve") /\ "resolve" \in Pc
    BY <1>2, <1>6 DEF Judge, Pc
  <2>2. ac'[a].pc = "resolve" /\ ac'[a].event = ac[a].event
    BY <2>1, PlaceIs
  <2>3. Last' = Last /\ rows' = rows
    BY <1>3 DEF Last, database
  <2>4. Stands(a)'
    BY <1>2, <1>6, <2>2, <2>3 DEF Stands, OfLastRow
  <2> QED BY <1>4, <2>4
<1>7. CASE Last > 0 /\ rows[Last].status # "prepared"
  <2>1. \A g \in 1..Last : rows[g].status = "finalized" /\ RowDoc(g) \in finalized
    BY <1>7, OlderRows
  <2>2. rows[Last].status = "finalized" /\ current = RowDoc(Last)
    BY <1>1, <1>7, <2>1 DEF DocsExplain
  <2>3. Len(journal) = rows[Last].count
    BY <1>1, <1>7, <2>2 DEF RowsFollow
  <2>4. HistoryVerifies
    BY <1>7, <2>1, <2>2, <2>3 DEF HistoryVerifies
  <2>5. ac[a].seen = "finalized"
    BY <1>2, <1>7, <2>2
  <2>6. Goto(a, "orphans") /\ "orphans" \in Pc
    BY <1>2, <2>4, <2>5 DEF Judge, Pc
  <2> QED BY <1>4, <2>6, PlaceIs, EaseStands DEF AtEase
<1> QED BY <1>1, <1>5, <1>6, <1>7

\* The prepared row is finalized or discarded by whether it has its receipt.
LEMMA QuietResolve ==
    ASSUME TypeOK, RowsFollow, DocsExplain, NEW a \in Actors, Stands(a), Resolve(a)
    PROVE  DocsExplain' /\ Stands(a)'
<1>1. OfLastRow(a) /\ rows[Last].status = "prepared"
  BY DEF Stands, Resolve
<1>2. Last \in 1..Last /\ Gens(a) = {Last} /\ Gen(a) = Last /\ Last \in Nat /\ Len(journal) \in Nat
  BY <1>1, LastGen, TableFacts
<1>3. UNCHANGED <<database, documents, marker>>
  BY DEF Resolve
<1>4. DocsExplain'
  BY <1>3, SameDocs DEF documents
<1>5. ac[a] \in AnActor /\ ac \in [Actors -> AnActor]
  BY DEF TypeOK, AnActor
<1>6. /\ ac'[a].pc = (IF rows[Last].confirmed THEN "final" ELSE "discard")
      /\ ac'[a].event = ac[a].event
  BY <1>2, <1>5 DEF Resolve, AnActor
<1>7. Last' = Last /\ rows' = rows /\ journal' = journal
  BY <1>3 DEF Last, database
<1>8. CASE rows[Last].confirmed
  <2>1. Last = Len(journal)
    BY <1>2, <1>8 DEF RowsFollow
  <2>2. Stands(a)'
    BY <1>1, <1>6, <1>7, <1>8, <2>1 DEF Stands, OfLastRow
  <2> QED BY <1>4, <2>2
<1>9. CASE ~rows[Last].confirmed
  BY <1>4, <1>6, <1>9, EaseStands DEF AtEase
<1> QED BY <1>8, <1>9

\* A discarded row leaves the documents of the one before it.
LEMMA QuietDiscard ==
    ASSUME TypeOK, RowsFollow, DocsExplain, NEW a \in Actors, Discard(a)
    PROVE  DocsExplain' /\ Stands(a)'
<1>1. CASE Leave(a) /\ UNCHANGED rows
  BY <1>1, EaseStep DEF Discard, documents, database
<1>2. CASE /\ rows[Last].status = "prepared" /\ ~rows[Last].confirmed
           /\ rows' = SubSeq(rows, 1, Last - 1) /\ Goto(a, "restore")
  <2>1. Last \in Nat /\ Len(journal) \in Nat /\ rows \in Seq(Row) /\ Last = Len(rows)
    BY TableFacts DEF TypeOK, Last
  <2>2. UNCHANGED <<journal, documents, marker>>
    BY DEF Discard
  <2>3. ac'[a].pc = "restore"
    <3>1. "restore" \in Pc
      BY DEF Pc
    <3> QED BY <1>2, <3>1, PlaceIs
  <2>4. CASE Last = 0
    <3>1. rows = <<>>
      BY <2>1, <2>4, EmptySeq
    <3>2. 0 - 1 \in Int /\ 0 - 1 < 1
      OBVIOUS
    <3>3. rows' = <<>>
      BY <1>2, <2>4, <3>2, SubSeqEmpty
    <3>4. rows' = rows /\ Last' = 0
      BY <2>4, <3>1, <3>3 DEF Last
    <3>5. DocsExplain'
      BY <2>2, <3>4, SameDocs DEF documents, database
    <3>6. Stands(a)'
      BY <2>3, <3>4 DEF Stands
    <3> QED BY <3>5, <3>6
  <2>5. CASE Last # 0
    <3>1. PICK k \in Nat, m \in Nat \ {0} : m = Last /\ k = m - 1 /\ m \in 1..Last
      BY <2>1, <2>5
    <3>2. rows' = SubSeq(rows, 1, k) /\ k <= Len(rows) /\ \A g \in 1..k : g \in 1..Last /\ g # Last
      BY <1>2, <2>1, <3>1
    <3>3. Last' = k /\ \A g \in 1..k : rows'[g] = rows[g]
      BY <2>1, <3>2, SubSeqProperties DEF Last
    <3>4. \A g \in 1..k : rows'[g].status = "finalized" /\ RowDoc(g)' \in finalized' /\ RowDoc(g)' = RowDoc(g)
      <4>1. \A g \in 1..k : rows[g].status = "finalized" /\ RowDoc(g) \in finalized
        BY <3>2, OlderRows
      <4> QED BY <2>2, <3>3, <4>1 DEF RowDoc, Doc, documents
    <3>5. current = Before(m)
      <4>1. ~(Last <= Len(journal))
        BY <1>2, <3>1 DEF RowsFollow
      <4>2. Last # Len(journal)
        BY <2>1, <4>1
      <4> QED BY <1>2, <2>1, <3>1, <4>2 DEF DocsExplain
    <3>6. current' = (IF k = 0 THEN None ELSE RowDoc(k)')
      <4>1. k = 0 <=> m = 1
        BY <3>1
      <4>2. k # 0 => k \in 1..k
        OBVIOUS
      <4> QED BY <2>2, <3>1, <3>4, <3>5, <4>1, <4>2 DEF Before, documents
    <3>7. marker' = FALSE
      BY <2>2 DEF DocsExplain
    <3>8. k # 0 => k \in 1..k
      OBVIOUS
    <3>9. DocsExplain'
      BY <3>3, <3>4, <3>6, <3>7, <3>8 DEF DocsExplain, RowDoc
    <3>10. Stands(a)'
      BY <2>3, <3>3, <3>4, <3>8 DEF Stands
    <3> QED BY <3>9, <3>10
  <2> QED BY <2>4, <2>5
<1> QED BY <1>1, <1>2 DEF Discard, RecoveryError

\* What the recovery writes at its end is what the rows say.
LEMMA QuietRestore ==
    ASSUME TypeOK, DocsExplain, NEW a \in Actors, Stands(a), Restore(a) \/ RemoveOrphans(a)
    PROVE  DocsExplain' /\ Stands(a)'
<1>1. Last \in Nat /\ (Last > 0 => Last \in 1..Last)
  BY TableFacts
<1>2. Stands(a)'
  BY RecoveredStands DEF Restore, RemoveOrphans
<1>3. CASE Restore(a)
  <2>1. Last > 0 => rows[Last].status = "finalized"
    BY <1>3 DEF Stands, Restore
  <2>2. current' = current
    BY <1>1, <1>3, <2>1 DEF Restore, DocsExplain
  <2>3. DocsExplain'
    BY <1>3, <2>1, <2>2, PreparedDocs DEF Restore
  <2> QED BY <1>2, <2>3
<1>4. CASE RemoveOrphans(a)
  <2>1. Last > 0 /\ rows[Last].status # "finalized" => rows[Last].status = "prepared"
    <3>1. Last > 0 => rows[Last] \in Row
      BY <1>1, TableFacts
    <3> QED BY <1>1, <3>1 DEF Row, RowStatus, DocsExplain
  <2>2. DocsExplain'
    BY <1>4, <2>1, PreparedDocs DEF RemoveOrphans
  <2> QED BY <1>2, <2>2
<1> QED BY <1>3, <1>4

-----------------------------------------------------------------------------
(* Crashes alone never quarantine. *)

\* An actor that does nothing stands where it stood.
LEMMA SameStands ==
    ASSUME NEW b \in Actors, Stands(b), ac'[b] = ac[b], UNCHANGED <<database, documents>>
    PROVE  Stands(b)'
<1>1. /\ rows' = rows /\ journal' = journal /\ Last' = Last
      /\ prepared' = prepared /\ finalized' = finalized /\ current' = current
  BY DEF database, documents, Last
<1> QED BY <1>1 DEF Stands, OfLastRow, RowDoc, Doc

\* A step of the only active actor, or of one that enters.
LEMMA QuietShown ==
    ASSUME AnchorInvariant, DocsExplain, keyOk, NEW a \in Actors, Stands(a), Step(a)
    PROVE  DocsExplain' /\ Stands(a)'
<1>1. TypeOK /\ RowsFollow /\ Relies(a)
  BY DEF AnchorInvariant
<1>2. CASE Own(a)
  <2>1. ac'[a].pc \in AtEase
    BY <1>1, <1>2 DEF Own, IdleActor, AtEase, TypeOK
  <2>2. DocsExplain'
    BY <1>2, SameDocs DEF Own, documents
  <2> QED BY <2>1, <2>2, EaseStands
<1>3. ~Quarantine(a)
  BY DEF Stands, Quarantine
<1>4. CASE Enter(a) \/ Begin(a) \/ Prepare(a)
  BY <1>1, <1>4, QuietAppend
<1>5. CASE Commit(a) \/ Record(a)
  BY <1>1, <1>5, QuietNewRow
<1>6. CASE Confirm(a)
  BY <1>1, <1>6, QuietConfirm
<1>7. CASE Finalize(a)
  BY <1>1, <1>7, QuietFinalize
<1>8. CASE Publish(a)
  BY <1>1, <1>8, QuietPublish
<1>9. CASE Seal(a)
  BY <1>1, <1>9, QuietSeal
<1>10. CASE Clean(a)
  BY <1>1, <1>10, QuietClean
<1>11. CASE ReadStatus(a)
  BY <1>1, <1>11, QuietReadStatus
<1>12. CASE Judge(a)
  BY <1>1, <1>12, QuietJudge
<1>13. CASE Resolve(a)
  BY <1>1, <1>13, QuietResolve
<1>14. CASE Discard(a)
  BY <1>1, <1>14, QuietDiscard
<1>15. CASE Restore(a) \/ RemoveOrphans(a)
  BY <1>1, <1>15, QuietRestore
<1> QED BY <1>2, <1>3, <1>4, <1>5, <1>6, <1>7, <1>8, <1>9, <1>10, <1>11, <1>12, <1>13, <1>14, <1>15 DEF Step

\* A step of an actor keeps what is known of all of them.
LEMMA QuietActor ==
    ASSUME AnchorInvariant, TasksAreLocked, StartsAlone, DocsExplain, \A b \in Actors : Stands(b), keyOk,
           NEW a \in Actors, Step(a)
    PROVE  StartsAlone' /\ DocsExplain' /\ \A b \in Actors : Stands(b)'
<1>1. TypeOK
  BY DEF AnchorInvariant
<1>2. ac[a].pc # "idle" /\ Others(a)
  BY <1>1, StepFrame DEF Gone, Stay
<1>3. DocsExplain' /\ Stands(a)'
  BY QuietShown
<1>4. ASSUME NEW b \in Actors, b # a PROVE Stands(b)'
  <2>1. ac'[b] = ac[b]
    BY <1>2, <1>4 DEF Others
  <2>2. CASE Active(a)
    <3>1. ~Active(b)
      BY <1>1, <1>4, <2>2, Alone
    <3>2. ac'[b].pc \in AtEase
      BY <2>1, <3>1 DEF Active, AtEase
    <3> QED BY <3>2, EaseStands
  <2>3. CASE ~Active(a)
    <3>1. ac[a].pc = "lock"
      BY <1>2, <2>3 DEF Active
    <3>2. Enter(a)
      BY <3>1 DEF Step, Begin, Prepare, Commit, Record, Confirm, Finalize, Publish, Seal, Clean,
                  ReadStatus, Judge, Resolve, Discard, Restore, RemoveOrphans, Quarantine, Own
    <3>3. UNCHANGED <<database, documents>>
      BY <3>2 DEF Enter
    <3> QED BY <2>1, <3>3, SameStands
  <2> QED BY <2>2, <2>3
<1>5. StartsAlone'
  <2>1. up \in BOOLEAN /\ Actors = Tasks \cup Starters
    BY <1>1 DEF TypeOK, Actors
  <2>2. \A b \in Starters : b # a => ac'[b] = ac[b]
    BY <1>2, <2>1 DEF Others
  <2>3. CASE a \in Starters
    <3>1. up = FALSE /\ \A b \in Starters : b # a => ac[b].pc = "idle"
      BY <1>2, <2>1, <2>3 DEF StartsAlone
    <3>2. \A b \in Starters : b # a => ac'[b].pc = "idle"
      BY <2>2, <3>1
    <3>3. up' = TRUE => ac'[a].pc = "idle"
      <4>1. CASE Own(a)
        BY <1>1, <4>1 DEF Own, IdleActor, TypeOK
      <4>2. CASE ~Own(a)
        BY <3>1, <4>2 DEF Step, Enter, Begin, Prepare, Commit, Record, Confirm, Finalize, Publish, Seal, Clean,
                  ReadStatus, Judge, Resolve, Discard, Restore, RemoveOrphans, Quarantine
      <4> QED BY <4>1, <4>2
    <3> QED BY <3>2, <3>3 DEF StartsAlone
  <2>4. CASE a \notin Starters
    <3>1. up = TRUE
      BY <1>2, <2>1, <2>4 DEF TasksAreLocked
    <3>2. \A b \in Starters : ac'[b] = ac[b] /\ b # a
      BY <2>2, <2>4
    <3> QED BY <3>1, <3>2 DEF StartsAlone
  <2> QED BY <2>3, <2>4
<1> QED BY <1>3, <1>4, <1>5

\* The invariant of undisturbed operation.
LEMMA QuietStep ==
    ASSUME AnchorInvariant, QuietInvariant, [Next]_vars
    PROVE  QuietInvariant'
<1>1. TypeOK /\ TasksAreLocked
  BY DEF AnchorInvariant, QuietInvariant
<1>2. TasksAreLocked'
  BY <1>1, TasksStep
<1> SUFFICES ASSUME Quiet' PROVE StartsAlone' /\ DocsExplain' /\ \A b \in Actors : Stands(b)'
  BY <1>2 DEF QuietInvariant
<1>3. /\ up \in BOOLEAN /\ keyOk \in BOOLEAN /\ used \in Counters /\ Actors = Tasks \cup Starters
      /\ ac \in [Actors -> AnActor]
  BY <1>1, UsedForms DEF TypeOK, Actors, AnActor
<1>4. ~LoseKey /\ \A a \in Actors : ~FailWrite(a)
  <2>1. ~LoseKey
    BY DEF Quiet, LoseKey
  <2>2. ASSUME NEW a \in Actors, FailWrite(a) PROVE FALSE
    <3>1. used'.failures = used.failures + 1 /\ used.failures \in Nat
      BY <1>3, <2>2 DEF FailWrite, Counters
    <3> QED BY <3>1 DEF Quiet
  <2> QED BY <2>1, <2>2
<1>5. Quiet /\ keyOk
  <2>1. keyOk' = keyOk
    BY <1>4 DEF Next, Step, Start, CrashStarter, Request, CrashGateway, vars, Enter, Begin, Prepare, Commit, Record,
                Confirm, Finalize, Publish, Seal, Clean, ReadStatus, Judge, Resolve, Discard, Restore,
                RemoveOrphans, Quarantine, Own
  <2>2. used'.failures = used.failures /\ (used'.overlaps = used.overlaps \/ used'.overlaps = used.overlaps + 1)
    <3>1. CASE used' = used
      BY <3>1
    <3>2. CASE \/ used' = [used EXCEPT !.crashes = @ + 1] \/ used' = [used EXCEPT !.requests = @ + 1]
               \/ used' = [used EXCEPT !.overlaps = @ + 1]
      BY <1>3, <3>2 DEF Counters
    <3>3. \/ used' = used \/ used' = [used EXCEPT !.crashes = @ + 1]
          \/ used' = [used EXCEPT !.requests = @ + 1] \/ used' = [used EXCEPT !.overlaps = @ + 1]
      BY <1>4 DEF Next, Step, Start, Overlap, CrashStarter, Request, CrashGateway, vars, Enter, Begin, Prepare, Commit, Record,
                Confirm, Finalize, Publish, Seal, Clean, ReadStatus, Judge, Resolve, Discard, Restore,
                RemoveOrphans, Quarantine, Own
    <3> QED BY <3>1, <3>2, <3>3
  <2>3. used.overlaps \in Nat
    BY <1>3 DEF Counters
  <2> QED BY <2>1, <2>2, <2>3 DEF Quiet
<1>6. StartsAlone /\ DocsExplain /\ \A b \in Actors : Stands(b)
  BY <1>5 DEF QuietInvariant
<1>7. ASSUME NEW a \in Actors, Step(a)
      PROVE  StartsAlone' /\ DocsExplain' /\ \A b \in Actors : Stands(b)'
  BY <1>1, <1>5, <1>6, <1>7, QuietActor
<1>8. ASSUME NEW a \in Actors, ac'[a].pc \in AtEase, Others(a), UNCHANGED <<database, documents, marker>>, StartsAlone'
      PROVE  StartsAlone' /\ DocsExplain' /\ \A b \in Actors : Stands(b)'
  <2>1. DocsExplain'
    BY <1>6, <1>8, SameDocs DEF documents
  <2>2. ASSUME NEW b \in Actors PROVE Stands(b)'
    <3>1. CASE b = a
      BY <1>8, <3>1, EaseStands
    <3>2. CASE b # a
      BY <1>6, <1>8, <3>2, SameStands DEF Others
    <3> QED BY <3>1, <3>2
  <2> QED BY <1>8, <2>1, <2>2
<1>9. ASSUME NEW a \in Actors, Start(a)
      PROVE  StartsAlone' /\ DocsExplain' /\ \A b \in Actors : Stands(b)'
  <2>1. ~up /\ \A s \in Starters : ac[s].pc = "idle"
    <3>1. used' # [used EXCEPT !.overlaps = @ + 1]
      <4>1. SUFFICES ASSUME used' = [used EXCEPT !.overlaps = @ + 1] PROVE FALSE
        OBVIOUS
      <4>2. used'.overlaps = used.overlaps + 1 /\ used.overlaps \in Nat
        BY <1>3, <4>1 DEF Counters
      <4> QED BY <4>2 DEF Quiet
    <3> QED BY <1>9, <3>1 DEF Start, Overlap
  <2>2. ac'[a].pc = "status" /\ Others(a) /\ up' = up
    BY <1>3, <1>9 DEF Start, Others, IdleActor
  <2>3. StartsAlone'
    BY <1>3, <2>1, <2>2 DEF StartsAlone, Others
  <2> QED BY <1>8, <1>9, <2>2, <2>3 DEF AtEase, Start
<1>10. ASSUME NEW a \in Actors, CrashStarter(a)
       PROVE  StartsAlone' /\ DocsExplain' /\ \A b \in Actors : Stands(b)'
  <2>1. ac'[a].pc = "idle" /\ Others(a) /\ up' = up
    BY <1>3, <1>10 DEF CrashStarter, Leave, Others, IdleActor
  <2>2. StartsAlone'
    BY <1>3, <1>6, <2>1 DEF StartsAlone, Others
  <2> QED BY <1>8, <1>10, <2>1, <2>2 DEF AtEase, CrashStarter
<1>11. ASSUME NEW a \in Tasks, NEW e \in Events, Request(a, e)
       PROVE  StartsAlone' /\ DocsExplain' /\ \A b \in Actors : Stands(b)'
  <2>1. a \in Actors /\ a \notin Starters
    BY AnchorAssumption DEF Actors
  <2>2. ac'[a].pc = "lock" /\ Others(a) /\ up' = up
    BY <1>3, <1>11, <2>1 DEF Request, Others, IdleActor
  <2>3. StartsAlone'
    BY <1>3, <1>6, <2>1, <2>2 DEF StartsAlone, Others
  <2> QED BY <1>8, <1>11, <2>1, <2>2, <2>3 DEF AtEase, Request
<1>12. CASE CrashGateway
  <2>1. UNCHANGED <<database, documents, marker>> /\ up' = FALSE
    BY <1>12 DEF CrashGateway
  <2>2. \A b \in Actors : (b \in Tasks /\ ac'[b].pc = "idle") \/ (b \notin Tasks /\ ac'[b] = ac[b])
    BY <1>12 DEF CrashGateway, IdleActor
  <2>3. DocsExplain'
    BY <1>6, <2>1, SameDocs DEF documents
  <2>4. ASSUME NEW b \in Actors PROVE Stands(b)'
    <3>1. CASE ac'[b].pc = "idle"
      BY <3>1, EaseStands DEF AtEase
    <3>2. CASE ac'[b] = ac[b]
      BY <1>6, <2>1, <3>2, SameStands
    <3> QED BY <2>2, <3>1, <3>2
  <2>5. StartsAlone'
    <3>1. \A s \in Starters : ac'[s] = ac[s]
      BY <1>3, <2>2, AnchorAssumption
    <3> QED BY <1>6, <2>1, <3>1 DEF StartsAlone
  <2> QED BY <2>3, <2>4, <2>5
<1>13. CASE UNCHANGED vars
  <2>1. UNCHANGED <<database, documents, marker>> /\ up' = up /\ ac' = ac
    BY <1>13 DEF vars, database, documents
  <2>2. DocsExplain'
    BY <1>6, <2>1, SameDocs DEF documents
  <2>3. \A b \in Actors : Stands(b)'
    BY <1>6, <2>1, SameStands
  <2>4. StartsAlone'
    BY <1>6, <2>1 DEF StartsAlone
  <2> QED BY <2>2, <2>3, <2>4
<1> QED BY <1>4, <1>7, <1>9, <1>10, <1>11, <1>12, <1>13 DEF Next

\* Crashes between any two steps, however often, never put an intact history
\* into quarantine (recover_integrity after an interrupted prepare, commit or
\* finalize).
THEOREM QuarantineCorrect == Spec => []NoFalseQuarantine
<1>1. Init => QuietInvariant
  <2> SUFFICES ASSUME Init PROVE QuietInvariant
    OBVIOUS
  <2>1. \A a \in Actors : ac[a] = IdleActor
    BY DEF Init
  <2>2. TasksAreLocked /\ StartsAlone
    BY <2>1 DEF TasksAreLocked, StartsAlone, IdleActor, Active, Actors
  <2>3. DocsExplain
    BY DEF Init, DocsExplain, Last
  <2>4. \A a \in Actors : Stands(a)
    BY <2>1 DEF Stands, IdleActor
  <2> QED BY <2>2, <2>3, <2>4 DEF QuietInvariant
<1>2. AnchorInvariant /\ QuietInvariant => NoFalseQuarantine
  <2> SUFFICES ASSUME AnchorInvariant, QuietInvariant, ~Disturbed PROVE ~marker
    BY DEF NoFalseQuarantine
  <2>1. used \in Counters /\ keyOk \in BOOLEAN
    BY UsedForms DEF AnchorInvariant, TypeOK
  <2>2. Quiet
    BY <2>1 DEF Disturbed, Quiet, Counters
  <2> QED BY <2>2 DEF QuietInvariant, DocsExplain
<1> QED BY <1>1, <1>2, AnchorCorrect, QuietStep, PTL DEF Spec

=============================================================================
