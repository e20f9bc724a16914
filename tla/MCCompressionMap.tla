-------------------------- MODULE MCCompressionMap --------------------------
(* Small instances of CompressionMap: two or three threads, two pages.      *)
EXTENDS CompressionMap, TLC

Symmetry == Permutations(Threads) \union Permutations(Objs)
=============================================================================
