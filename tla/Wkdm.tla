-------------------------------- MODULE Wkdm --------------------------------
(***************************************************************************)
(* The dictionary codecs src/lib/compressors/wkdm.c (words of 4 bytes) and *)
(* wkdm64.c (of 8).  A word is zero, equal to the dictionary entry of its  *)
(* hash, short (its upper half is zero) or a miss; what is needed to tell  *)
(* it goes to an area of its kind, and both sides keep the dictionary.     *)
(***************************************************************************)
EXTENDS ByteWords

CONSTANTS
  HashDiv,    \* 2^4, or 2^3: the bits of a word below its hash
  DictSize,   \* 16, or 32
  Header      \* bytes of the three counts, 12

Half == Power(Byte, WordBytes \div 2)

Hash(v) == (v \div HashDiv) % DictSize
NoDict  == [h \in 0..(DictSize - 1) |-> 0]

Tag(v, dict) ==
  IF v = 0 THEN "zero"
  ELSE IF dict[Hash(v)] = v THEN "exact"
  ELSE IF v < Half THEN "partial" ELSE "miss"

Learn(dict, v) == [dict EXCEPT ![Hash(v)] = v]

\* Mutant: the compressor does not enter short words in its dictionary.
LearnMiss(t, dict, v) == IF t = "miss" THEN Learn(dict, v) ELSE dict

\* The dictionary after the compressor wrote v under the tag t.
Learned(t, dict, v) == IF t \in {"partial", "miss"} THEN Learn(dict, v) ELSE dict

\* The compressor after i words.
Encode(ws) ==
  LET s[i \in 0..Len(ws)] ==
        IF i = 0 THEN [dict |-> NoDict, tags |-> <<>>, exact |-> <<>>, partial |-> <<>>, miss |-> <<>>]
        ELSE LET b == s[i - 1]  v == ws[i]  t == Tag(v, b.dict) IN
             [dict    |-> Learned(t, b.dict, v),
              tags    |-> Append(b.tags, t),
              exact   |-> IF t = "exact" THEN Append(b.exact, Hash(v)) ELSE b.exact,
              partial |-> IF t = "partial" THEN Append(b.partial, v % Half) ELSE b.partial,
              miss    |-> IF t = "miss" THEN Append(b.miss, v) ELSE b.miss]
  IN  s[Len(ws)]

\* wkdm_compress_impl
Compress(g, cap) ==
  LET e == Encode(Words(g))
      size == Header + (2 * Len(e.tags) + 7) \div 8 + Len(e.exact)
              + Len(e.partial) * (WordBytes \div 2) + Len(e.miss) * WordBytes
  IN  [size |-> IF Len(g) % WordBytes # 0 \/ size >= Len(g) \/ size > cap THEN 0 ELSE size,
       form |-> [tags |-> e.tags, exact |-> e.exact, partial |-> e.partial, miss |-> e.miss]]

\* wkdm_decompress_impl, after i words: the areas are read in order.
Decode(form) ==
  LET d[i \in 0..Len(form.tags)] ==
        IF i = 0 THEN [dict |-> NoDict, words |-> <<>>, exact |-> 0, partial |-> 0, miss |-> 0]
        ELSE LET b == d[i - 1]  t == form.tags[i]
                 v == CASE t = "zero"    -> 0
                        [] t = "exact"   -> b.dict[form.exact[b.exact + 1]]
                        [] t = "partial" -> form.partial[b.partial + 1]
                        [] t = "miss"    -> form.miss[b.miss + 1]
             IN  [dict    |-> IF t \in {"partial", "miss"} THEN Learn(b.dict, v) ELSE b.dict,
                  words   |-> Append(b.words, v),
                  exact   |-> b.exact + (IF t = "exact" THEN 1 ELSE 0),
                  partial |-> b.partial + (IF t = "partial" THEN 1 ELSE 0),
                  miss    |-> b.miss + (IF t = "miss" THEN 1 ELSE 0)]
  IN  d[Len(form.tags)].words

Decompress(form) == Bytes(Decode(form))

CanCompress(g) == Len(g) % WordBytes = 0
Bound(len) == len + 256
=============================================================================
