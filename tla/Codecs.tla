------------------------------- MODULE Codecs -------------------------------
(***************************************************************************)
(* Compressing one page and reading it back, the way the kernel does it    *)
(* (src/kernel/minimem_compress.c: the page is classified and given to one *)
(* codec) and the way the library does it (src/lib/registry.c, advisor.c:  *)
(* any codec, or the one that makes the page smallest).  The codecs        *)
(* themselves are Bdi, Wkdm and BlockClass; LZ4 is vendored code and only  *)
(* said to be lossless.  Sizes are parameters, so that a page is small.    *)
(***************************************************************************)
EXTENDS Numerals, FiniteSetsExt

CONSTANTS
  Byte,       \* number of values of a byte
  PageSet,    \* the pages to compress, sequences of bytes
  PageBytes,  \* MINIMEM_PAGE_SIZE
  Word,       \* bytes of a 64-bit word
  LineWords,  \* words of a cache line
  BlockBytes, SparseMax, RangeBits,     \* see BlockClass
  Hash32, Dict32, Hash64, Dict64,       \* see Wkdm
  BdiHeader, WkdmHeader, BlockHeader,   \* bytes of the codecs' headers
  SameBytes,  \* what the library's same_page writes, 5
  Near,       \* bytes this close together are structured data, 32
  Few,        \* a page with this many odd bytes is advised as all one byte, 4
  BufferBytes \* MINIMEM_COMPRESS_BUF_SIZE

ASSUME SizesAssumption ==
  /\ Byte \in Nat /\ \E n \in 1..Byte : Byte = Power(2, n)
  /\ {Word, LineWords, PageBytes, BlockBytes} \subseteq Nat \ {0}
  /\ Word % 2 = 0 /\ BlockBytes % 2 = 0
  /\ PageBytes % (Word * LineWords) = 0 /\ PageBytes % BlockBytes = 0
  /\ {Hash32, Dict32, Hash64, Dict64, SameBytes} \subseteq Nat \ {0}
  /\ {SparseMax, RangeBits, BdiHeader, WkdmHeader, BlockHeader} \subseteq Nat
  /\ SameBytes < PageBytes
  /\ PageSet \subseteq [1..PageBytes -> 0..(Byte - 1)]

B   == INSTANCE Bdi WITH WordBytes <- Word, Header <- BdiHeader
W(bytes, hash, dict) == INSTANCE Wkdm WITH WordBytes <- bytes, HashDiv <- hash, DictSize <- dict,
                                           Header <- WkdmHeader
C   == INSTANCE BlockClass WITH Header <- BlockHeader

VARIABLES
  pc,    \* "new", "stored", "incompressible", "restored" or "advised"
  page,  \* the page
  algo,  \* the codec chosen
  size,  \* the bytes it wrote, 0 for none
  form,  \* what it wrote
  out    \* what was read back

vars == <<pc, page, algo, size, form, out>>

Registered == {"same_page", "bdi", "wkdm", "wkdm64", "block_class", "ai_fp16", "ai_int8", "delta"}
Algos == Registered \union {"lz4"}

-----------------------------------------------------------------------------
Values(g) == {g[i] : i \in 1..Len(g)}
Count(g, v) == Cardinality({i \in 1..Len(g) : g[i] = v})
Same(g) == Cardinality(Values(g)) = 1
UpperZero(g) ==
  LET ws == W(Word, Hash64, Dict64)!Words(g)
  IN  Cardinality({i \in 1..Len(ws) : ws[i] < W(Word, Hash64, Dict64)!Half})

\* km_classify_page
Classify(g) ==
  IF Same(g) THEN "same_page"
  ELSE IF (Count(g, 0) * 256) \div Len(g) >= 128
       THEN IF Max(Values(g)) - Min(Values(g)) <= Near THEN "bdi" ELSE "wkdm"
  ELSE IF UpperZero(g) > (Len(g) \div Word) \div 2 THEN "wkdm64"
  ELSE "lz4"

\* The codecs, called with room for cap bytes.  The kernel's own same_page
\* writes one byte, the library's the length too; delta declines every page.
Compress(a, g, cap) ==
  CASE a = "same_page"   -> [size |-> IF Same(g) /\ cap >= SameBytes THEN SameBytes ELSE 0, form |-> <<g[1], Len(g)>>]
    [] a = "bdi"         -> B!Compress(g, cap)
    [] a = "wkdm"        -> W(Word \div 2, Hash32, Dict32)!Compress(g, cap)
    [] a = "wkdm64"      -> W(Word, Hash64, Dict64)!Compress(g, cap)
    [] a = "block_class" -> C!Compress(g, cap)
    [] a = "ai_fp16"     -> C!CompressSplit(g, cap)
    [] a = "ai_int8"     -> C!CompressInt8(g, cap)
    [] a = "delta"       -> [size |-> 0, form |-> <<>>]

Decompress(a, f) ==
  CASE a = "same_page"   -> [i \in 1..f[2] |-> f[1]]
    [] a = "bdi"         -> B!Decompress(f)
    [] a = "wkdm"        -> W(Word \div 2, Hash32, Dict32)!Decompress(f)
    [] a = "wkdm64"      -> W(Word, Hash64, Dict64)!Decompress(f)
    [] a = "block_class" -> C!Decompress(f)
    [] a = "ai_fp16"     -> C!DecompressSplit(f)
    [] a = "ai_int8"     -> C!DecompressInt8(f)
    [] a = "lz4"         -> f

\* The wrapper of LZ4 returns nothing unless the page got smaller.
Lz4(g) == {[size |-> s, form |-> g] : s \in {0, Len(g) - 1}}

CanCompress(a, g) ==
  CASE a = "same_page"              -> Same(g)
    [] a = "bdi"                    -> B!CanCompress(g)
    [] a = "wkdm"                   -> W(Word \div 2, Hash32, Dict32)!CanCompress(g)
    [] a = "wkdm64"                 -> W(Word, Hash64, Dict64)!CanCompress(g)
    [] a \in {"block_class", "ai_fp16", "ai_int8"} -> C!CanCompress(g)
    [] a = "delta"                  -> FALSE

Bound(a, len) ==
  CASE a = "same_page" -> SameBytes
    [] a = "bdi"       -> B!Bound(len)
    [] a = "wkdm"      -> W(Word \div 2, Hash32, Dict32)!Bound(len)
    [] a = "wkdm64"    -> W(Word, Hash64, Dict64)!Bound(len) + 256
    [] a = "delta"     -> 2 * len
    [] OTHER           -> C!Bound(len)

-----------------------------------------------------------------------------
Init ==
  /\ pc = "new" /\ page \in PageSet
  /\ algo = "none" /\ size = 0 /\ form = <<>> /\ out = <<>>

Keep(a, r) ==
  /\ algo' = a /\ size' = r.size
  /\ form' = (IF r.size = 0 THEN <<>> ELSE r.form)
  /\ pc' = (IF r.size = 0 THEN "incompressible" ELSE "stored")

\* minimem_compress_page: one codec gets its chance.
CompressPage ==
  /\ pc = "new"
  /\ IF Classify(page) = "same_page"
     THEN Keep("same_page", [size |-> 1, form |-> <<page[1], PageBytes>>])
     ELSE IF Classify(page) = "lz4"
     THEN \E r \in Lz4(page) : Keep("lz4", r)
     ELSE Keep(Classify(page), Compress(Classify(page), page, BufferBytes))
  /\ UNCHANGED <<page, out>>

\* A user of the registry calls a codec with room for its bound.
CompressBuffer(a) ==
  /\ pc = "new" /\ CanCompress(a, page)
  /\ Keep(a, Compress(a, page, Bound(a, PageBytes)))
  /\ UNCHANGED <<page, out>>

\* minimem_decompress_page, or the codec's decompress
DecompressPage ==
  /\ pc = "stored"
  /\ out' = Decompress(algo, form)
  /\ pc' = "restored"
  /\ UNCHANGED <<page, algo, size, form>>

\* minimem_analyze_page and minimem_advise_algorithm
AdviseAlgorithm(g) ==
  LET zeros == (Count(g, 0) * 256) \div Len(g)
      most  == Max({Count(g, v) : v \in Values(g)})
  IN  IF zeros >= 250 \/ most >= Len(g) - Few THEN "same_page"
      ELSE IF UpperZero(g) > (Len(g) \div Word) \div 2 THEN "wkdm64"
      ELSE IF zeros >= 128 THEN "wkdm"
      ELSE IF Max(Values(g)) - Min(Values(g)) <= Near THEN "bdi"
      ELSE "lz4"

\* What minimem_advise_best gets from a codec.
Tried(a, g) == IF CanCompress(a, g) THEN Compress(a, g, Bound(a, Len(g))).size ELSE 0
Works(g, as) == {a \in as : Tried(a, g) \in 1..(Len(g) - 1)}

\* The answers to a caller that names the codecs as: of equal ones the first
\* it names.
AdviseBest(g, as) ==
  IF Works(g, as) # {}
  THEN {a \in Works(g, as) : \A b \in Works(g, as) : Tried(a, g) <= Tried(b, g)}
  ELSE {AdviseAlgorithm(g)}

Advise ==
  /\ pc = "new"
  /\ algo' \in AdviseBest(page, Registered)
  /\ pc' = "advised"
  /\ UNCHANGED <<page, size, form, out>>

Next ==
  \/ CompressPage \/ DecompressPage \/ Advise
  \/ \E a \in Registered : CompressBuffer(a)

Spec == Init /\ [][Next]_vars

-----------------------------------------------------------------------------
(* Properties *)

\* A page that is kept in compressed form is smaller than it was, and read
\* back it has its length.
TypeOK ==
  /\ pc \in {"new", "stored", "incompressible", "restored", "advised"}
  /\ page \in PageSet /\ algo \in Algos \union {"none"}
  /\ size \in 0..(PageBytes - 1)
  /\ pc \in {"stored", "restored"} <=> size > 0
  /\ pc = "restored" => out \in [1..PageBytes -> 0..(Byte - 1)]

\* docs/goal.md:50, "Every byte must decompress to exactly the original
\* value", of the codec that the kernel chooses for the page.
KernelLossless == pc = "restored" /\ algo = Classify(page) => out = page

\* All codecs but bdi: block types and areas are read in the order in which
\* they were written, the two dictionaries of wkdm stay the same, and the
\* differences fit the bits they are packed in.
OthersLossless == pc = "restored" /\ algo # "bdi" => out = page

\* bdi is lossless for exactly the pages whose differences a signed byte
\* holds; it takes any below 256, of either sign.
BdiExact == pc = "restored" /\ algo = "bdi" => (out = page <=> B!Fits(page))
=============================================================================
