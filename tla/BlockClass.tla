----------------------------- MODULE BlockClass -----------------------------
(***************************************************************************)
(* The block classifying codecs: src/lib/compressors/block_class.c, and    *)
(* ai_weights.c, which puts the same coding of blocks behind a split of    *)
(* 16-bit values in their bytes or the XOR with the block before.          *)
(***************************************************************************)
EXTENDS Numerals, FiniteSetsExt

CONSTANTS
  Byte,        \* number of values of a byte
  BlockBytes,  \* MINIMEM_BLOCK_SIZE and MINIMEM_AI_BLOCK_SIZE, 64
  SparseMax,   \* MINIMEM_BLOCK_SPARSE_THRESHOLD, 16
  RangeBits,   \* MINIMEM_BLOCK_RANGE_MAX_BITS, 6
  Header       \* bytes before the types, 4

Values(b) == {b[i] : i \in 1..Len(b)}
NonZero(b) == {i \in 1..Len(b) : b[i] # 0}
Spread(b) == Max(Values(b)) - Min(Values(b))

\* bits_for_range, bits_needed
Bits(r) == CHOOSE n \in 0..r : r < Power(2, n) /\ \A m \in 0..(n - 1) : r >= Power(2, m)

Types == <<"zero", "sparse", "uniform", "range", "dense">>

Classify(b) ==
  IF NonZero(b) = {} THEN "zero"
  ELSE IF Cardinality(Values(b)) = 1 THEN "uniform"
  ELSE IF Cardinality(NonZero(b)) <= SparseMax /\ Cardinality(NonZero(b)) < Len(b) THEN "sparse"
  ELSE IF Bits(Spread(b)) <= RangeBits THEN "range"
  ELSE "dense"

\* The nonzero bytes in order.
Kept(b) == LET k[i \in 0..Len(b)] ==
                 IF i = 0 THEN <<>> ELSE IF b[i] = 0 THEN k[i - 1] ELSE Append(k[i - 1], b[i])
           IN  k[Len(b)]

\* The differences to the least byte, Bits(Spread(b)) bits each.
Packed(b) == Number(Power(2, Bits(Spread(b))), [i \in 1..Len(b) |-> b[i] - Min(Values(b))])

Encode(b) ==
  CASE Classify(b) = "zero"    -> <<>>
    [] Classify(b) = "uniform" -> <<b[1]>>
    [] Classify(b) = "sparse"  -> <<NonZero(b), Kept(b)>>
    [] Classify(b) = "range"   -> <<Min(Values(b)), Spread(b), Packed(b)>>
    [] OTHER -> b

BlockSize(b) ==
  CASE Classify(b) = "zero"    -> 0
    [] Classify(b) = "uniform" -> 1
    [] Classify(b) = "sparse"  -> (Len(b) + 7) \div 8 + Cardinality(NonZero(b))
    [] Classify(b) = "range"   -> 2 + (Len(b) * Bits(Spread(b)) + 7) \div 8
    [] OTHER -> Len(b)

\* A block of len bytes read back from its type and code.
Decode(t, c, len) ==
  [i \in 1..len |->
     CASE t = "zero"    -> 0
       [] t = "uniform" -> c[1]
       [] t = "sparse"  -> IF i \in c[1] THEN c[2][Cardinality({j \in c[1] : j <= i})] ELSE 0
       [] t = "range"   -> (c[1] + Digit(c[3], Power(2, Bits(c[2])), i)) % Byte
       [] OTHER -> c[i]]

\* pack_types, unpack_type: three bits for each type.
TypeIndex(t) == CHOOSE k \in 1..Len(Types) : Types[k] = t
Pack(ts)     == Number(8, [i \in 1..Len(ts) |-> TypeIndex(ts[i]) - 1])
Unpack(n, i) == Types[Digit(n, 8, i) + 1]
TypeBytes(n) == (3 * n + 7) \div 8

Blocks(g) == [k \in 1..(Len(g) \div BlockBytes) |-> SubSeq(g, (k - 1) * BlockBytes + 1, k * BlockBytes)]

\* Blocks, whatever they are made of, become their types and their codes.
Form(bs) == [n |-> Len(bs), types |-> Pack([k \in 1..Len(bs) |-> Classify(bs[k])]),
             codes |-> [k \in 1..Len(bs) |-> Encode(bs[k])]]
Codes(bs) == Total([k \in 1..Len(bs) |-> BlockSize(bs[k])])
Restored(f, len) == [k \in 1..f.n |-> Decode(Unpack(f.types, k), f.codes[k], len)]

\* Mutant: a page that does not get smaller is kept compressed.
SizeAny(g, cap, size) == IF Len(g) % BlockBytes # 0 \/ size > cap THEN 0 ELSE size

\* The size a compressor returns, 0 when it gives up.
Size(g, cap, size) == IF Len(g) % BlockBytes # 0 \/ size >= Len(g) \/ size > cap THEN 0 ELSE size
Join(bs) == [i \in 1..(Len(bs) * BlockBytes) |-> bs[((i - 1) \div BlockBytes) + 1][((i - 1) % BlockBytes) + 1]]

\* minimem_block_class_compress and minimem_block_class_decompress
Compress(g, cap) ==
  LET bs == Blocks(g) IN
  [size |-> Size(g, cap, Header + TypeBytes(Len(bs)) + Codes(bs)), form |-> Form(bs)]

Decompress(f) == Join(Restored(f, BlockBytes))

\* compress_split16 and decompress_split16: the low bytes and the high bytes
\* of the block's 16-bit values; each header is as long as both need.
Low(b)  == [i \in 1..(Len(b) \div 2) |-> b[2 * i - 1]]
High(b) == [i \in 1..(Len(b) \div 2) |-> b[2 * i]]

CompressSplit(g, cap) ==
  LET lo == [k \in 1..Len(Blocks(g)) |-> Low(Blocks(g)[k])]
      hi == [k \in 1..Len(Blocks(g)) |-> High(Blocks(g)[k])]
  IN  [size |-> Size(g, cap, Header + 2 * TypeBytes(2 * Len(lo)) + Codes(lo) + Codes(hi)),
       form |-> [lo |-> Form(lo), hi |-> Form(hi)]]

DecompressSplit(f) ==
  LET lo == Restored(f.lo, BlockBytes \div 2)
      hi == Restored(f.hi, BlockBytes \div 2)
  IN  Join([k \in 1..f.lo.n |-> [i \in 1..BlockBytes |-> IF i % 2 = 1 THEN lo[k][(i + 1) \div 2] ELSE hi[k][i \div 2]]])

\* compress_int8 and decompress_int8: every block but the first is XORed with
\* the one before it.
Xor(x, y) ==
  Number(2, [k \in 1..Bits(Byte - 1) |-> IF Digit(x, 2, k) = Digit(y, 2, k) THEN 0 ELSE 1])
XorBlocks(b, c) == [i \in 1..Len(b) |-> Xor(b[i], c[i])]

CompressInt8(g, cap) ==
  LET bs == Blocks(g)
      ds == [k \in 1..Len(bs) |-> IF k = 1 THEN bs[1] ELSE XorBlocks(bs[k], bs[k - 1])]
  IN  [size |-> Size(g, cap, Header + TypeBytes(Len(ds)) + Codes(ds)), form |-> Form(ds)]

DecompressInt8(f) ==
  LET ds == Restored(f, BlockBytes)
      bs[k \in 1..f.n] == IF k = 1 THEN ds[1] ELSE XorBlocks(ds[k], bs[k - 1])
  IN  Join([k \in 1..f.n |-> bs[k]])

CanCompress(g) == Len(g) % BlockBytes = 0
Bound(len) == len + 256
=============================================================================
