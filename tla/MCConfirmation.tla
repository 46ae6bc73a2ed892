----------------------------- MODULE MCConfirmation -----------------------------
(* TLC instances of Confirmation: delegations, actions, variants and remote owners are interchangeable. *)
EXTENDS Confirmation, TLC

Symmetry == Permutations(Delegations) \cup Permutations(Actions) \cup Permutations(Variants)
              \cup Permutations(Owners)
=============================================================================
