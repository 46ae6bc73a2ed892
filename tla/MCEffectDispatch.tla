---------------------------- MODULE MCEffectDispatch ----------------------------
(* TLC instances of EffectDispatch: attempts are interchangeable. *)
EXTENDS EffectDispatch, TLC

Symmetry == Permutations(Attempts)
=============================================================================
