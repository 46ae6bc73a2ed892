------------------------------- MODULE MCRoutines -------------------------------
(* TLC instances of Routines: local days of two units, a zone with a gap at   *)
(* the scheduled time and one with an overlap there, all catch-up policies.    *)
EXTENDS Routines, TLC

Gap == [at |-> 3, before |-> 1, after |-> 2]
Repeat == [at |-> 4, before |-> 2, after |-> 1]

Setting(zone, hour, overlap, catchUp, cap) ==
    [zone |-> zone, hour |-> hour, overlap |-> overlap, catchUp |-> catchUp, cap |-> cap]

\* The scheduler loops are interchangeable.
Symmetry == Permutations(Workers)

\* Instants 1, 3 (moved by the gap) and 4, or 1 and 3 or 4 (repeated).
Choices ==
    {Setting(Gap, 0, "earlier", "replay", 2), Setting(Repeat, 1, "later", "replay", 1),
     Setting(Repeat, 1, "earlier", "latest_only", 1), Setting(Gap, 1, "earlier", "skip", 1)}
=============================================================================
