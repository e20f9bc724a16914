----------------------------- MODULE MCLifecycle -----------------------------
(* Small instances of Lifecycle.                                            *)
EXTENDS Lifecycle, TLC

Symmetry == Permutations(Pages) \union Permutations(Threads)
=============================================================================
