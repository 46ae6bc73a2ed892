---------------------------- MODULE MCEffectRecorder ----------------------------
(* TLC instances of EffectRecorder: handlers and attempts are interchangeable. *)
EXTENDS EffectRecorder, TLC

Symmetry == Permutations(Handlers) \cup Permutations(Attempts)
=============================================================================
