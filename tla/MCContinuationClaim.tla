------------------------- MODULE MCContinuationClaim -------------------------
(* Small instances of ContinuationClaim for TLC. *)
EXTENDS ContinuationClaim, TLC

CONSTANTS d1, d2, c1, c2, w1, w2

OneContinuation == c1 :> d1

\* Two continuations of one delegation: they compete for its quota.
SharedDelegation == c1 :> d1 @@ c2 :> d1
=============================================================================
