---------------------------- MODULE MCLifecycle -----------------------------
(* Lifecycle with clients that are interchangeable. *)
EXTENDS Lifecycle, TLC

Symmetry == Permutations(Writer) \union Permutations(TxClient)

=============================================================================
