--------------------------- MODULE MCSessionRuns ---------------------------
(* A small instance of SessionRuns: a conversation and a worker, and        *)
(* messages that ask for a gated tool or, twice, for the worker.             *)
EXTENDS SessionRuns, TLC

CONSTANTS s1, s2

MCInputs == {<<"mail">>, <<"assign", "assign">>}
MCWorker == [w \in {"assign"} |-> s2]
TaskSymmetry == Permutations(Tasks)
=============================================================================
