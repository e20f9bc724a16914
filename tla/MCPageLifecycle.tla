--------------------------- MODULE MCPageLifecycle ---------------------------
(* Small instances of PageLifecycle.                                        *)
EXTENDS PageLifecycle, TLC

CONSTANTS t1, t2, m1, m2

OneMm  == (t1 :> m1)
TwoMms == (t1 :> m1) @@ (t2 :> m2)
Shared == (t1 :> m1) @@ (t2 :> m1)

PoolSymmetry == Permutations(Pages) \union Permutations(Handles)
Symmetry == PoolSymmetry \union Permutations(Compressors)
=============================================================================
