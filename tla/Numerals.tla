------------------------------ MODULE Numerals ------------------------------
(* Numbers and their digits, the least first: the bytes of a word, and the  *)
(* fields of a few bits that the codecs pack into bytes.                    *)
EXTENDS Integers, Sequences

Power(base, n) ==
  LET p[k \in 0..n] == IF k = 0 THEN 1 ELSE base * p[k - 1]
  IN  p[n]

Number(base, x) ==
  LET n[k \in 0..Len(x)] == IF k = 0 THEN 0 ELSE base * n[k - 1] + x[Len(x) - k + 1]
  IN  n[Len(x)]

\* In base 1 every digit counts the same.
Total(x) == Number(1, x)

Digit(n, base, i) == (n \div Power(base, i - 1)) % base
=============================================================================
