------------------------------ MODULE MCScanner ------------------------------
(* Two processes; the first has two VMAs, the second one page, which does   *)
(* not compress.  SkipSize keeps the pages' hashes apart.                   *)
EXTENDS Scanner

MCPid  == <<10, 11>>
MCVmas == <<{<<1, 2>>, <<2, 3>>}, {<<3, 4>>}>>
MCIncompressible == {<<2, 3>>}
=============================================================================
