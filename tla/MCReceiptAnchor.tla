----------------------------- MODULE MCReceiptAnchor -----------------------------
(* TLC instances of ReceiptAnchor: tasks, starters and events are interchangeable. *)
EXTENDS ReceiptAnchor, TLC

Symmetry == Permutations(Tasks) \cup Permutations(Starters) \cup Permutations(Events)
=============================================================================
