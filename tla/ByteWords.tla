------------------------------ MODULE ByteWords ------------------------------
(* A page is a sequence of bytes; the codecs that work on words cast it to  *)
(* an array of little-endian words.                                         *)
EXTENDS Numerals

CONSTANTS
  Byte,       \* number of values of a byte, 256
  WordBytes   \* bytes of a word, 4 or 8

Modulus == Power(Byte, WordBytes)

WordAt(g, i) == Number(Byte, [k \in 1..WordBytes |-> g[i + k]])

Words(g) == [i \in 1..(Len(g) \div WordBytes) |-> WordAt(g, (i - 1) * WordBytes)]

Bytes(ws) ==
  [i \in 1..(Len(ws) * WordBytes) |->
     Digit(ws[((i - 1) \div WordBytes) + 1], Byte, ((i - 1) % WordBytes) + 1)]
=============================================================================
