--------------------------------- MODULE Bdi ---------------------------------
(***************************************************************************)
(* The base-delta-immediate codec, src/lib/compressors/bdi.c.  A page is   *)
(* cut in lines of words; a line is all zeros, all one word, a first word  *)
(* with a one-byte difference for every word, or is kept as it is.         *)
(***************************************************************************)
EXTENDS ByteWords, FiniteSetsExt

CONSTANTS
  LineWords,  \* 8
  Header      \* bytes of the line count, 4

LineBytes == WordBytes * LineWords

Lines(g) == LET ws == Words(g) IN
  [l \in 1..(Len(g) \div LineBytes) |-> SubSeq(ws, (l - 1) * LineWords + 1, l * LineWords)]

Distance(v, w) == IF v >= w THEN v - w ELSE w - v
MaxDelta(ws) == Max({Distance(ws[i], ws[1]) : i \in 1..Len(ws)})

Type(ws) ==
  IF \A i \in 1..Len(ws) : ws[i] = 0 THEN "zeros"
  ELSE IF \A i \in 1..Len(ws) : ws[i] = ws[1] THEN "base"
  ELSE IF MaxDelta(ws) < Byte /\ 1 + WordBytes + LineWords < LineBytes THEN "delta"
  ELSE "raw"

\* What a line becomes: a difference keeps its low byte.
Encode(ws) ==
  [type |-> Type(ws), words |-> CASE Type(ws) = "zeros" -> <<>>
                                  [] Type(ws) = "base"  -> <<ws[1]>>
                                  [] Type(ws) = "delta" -> <<ws[1]>> \o [i \in 1..Len(ws) |-> ((ws[i] - ws[1]) % Byte)]
                                  [] OTHER -> ws]

LineSize(ws) ==
  CASE Type(ws) = "zeros" -> 1
    [] Type(ws) = "base"  -> 1 + WordBytes
    [] Type(ws) = "delta" -> 1 + WordBytes + LineWords
    [] OTHER -> 1 + LineBytes

\* Mutant: the difference is not extended from its sign.
UnsignedDelta(d) == d

\* The difference is read back as a signed byte.
SignedDelta(d) == IF d >= Byte \div 2 THEN d - Byte ELSE d

Decode(line) ==
  [i \in 1..LineWords |->
     CASE line.type = "zeros" -> 0
       [] line.type = "base"  -> line.words[1]
       [] line.type = "delta" -> ((line.words[1] + SignedDelta(line.words[i + 1])) % Modulus)
       [] OTHER -> line.words[i]]

\* minimem_bdi_compress: the size, 0 when the page does not get smaller or
\* does not fit, and the lines.
Compress(g, cap) ==
  LET lines == Lines(g)
      size  == Header + Total([l \in 1..Len(lines) |-> LineSize(lines[l])])
  IN  [size |-> IF Len(g) % LineBytes # 0 \/ size > cap \/ size >= Len(g) THEN 0 ELSE size,
       form |-> [l \in 1..Len(lines) |-> Encode(lines[l])]]

Decompress(form) ==
  Bytes([i \in 1..(Len(form) * LineWords) |->
           Decode(form[((i - 1) \div LineWords) + 1])[((i - 1) % LineWords) + 1]])

CanCompress(g) == Len(g) % LineBytes = 0 /\ \E l \in 1..Len(Lines(g)) : Type(Lines(g)[l]) # "raw"
Bound(len) == IF len % LineBytes # 0 THEN len + Byte
              ELSE Header + (len \div LineBytes) * (1 + WordBytes + LineWords)

\* The differences of a page that a signed byte holds.
Fits(g) == \A l \in 1..Len(Lines(g)) : LET ws == Lines(g)[l] IN
  Type(ws) = "delta" =>
    \A i \in 1..Len(ws) : ws[i] - ws[1] \in (-(Byte \div 2))..(Byte \div 2 - 1)
=============================================================================
