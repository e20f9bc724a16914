------------------------------ MODULE MCCodecs ------------------------------
(* A page is a cache line of two words, or two blocks of four bytes, and a  *)
(* byte has two bits; all pages over three of its values.                   *)
EXTENDS Codecs

MCPages == [1..PageBytes -> {0, 1, 2}]
=============================================================================
