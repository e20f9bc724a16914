---------------------------- MODULE CodecsProofs ----------------------------
(***************************************************************************)
(* Theorems about Codecs, for every size of a byte, a word, a block, a     *)
(* cache line, a page and the dictionaries: each codec but bdi reads back  *)
(* the page it compressed, and bdi exactly the pages whose differences a   *)
(* signed byte holds.                                                      *)
(*                                                                         *)
(* The codecs are loops over a page, in the models recursive functions.    *)
(* Smallest stands for induction: a claim about all numbers that fails has *)
(* a first number for which it fails.  With it, Iteration shows that a     *)
(* recursive function has a value at every step, and Agree that it has     *)
(* only one.  On these rest, in this order, powers and digits; words and   *)
(* their bytes; a line of bdi and a page of bdi; wkdm, whose decompressor  *)
(* is shown to follow its compressor word by word with the same            *)
(* dictionary; a block, the blocks of a page and the XOR of blocks; and    *)
(* at last the invariant CodecInv of the specification.                    *)
(***************************************************************************)
EXTENDS Codecs, SequenceTheorems, FiniteSetTheorems, WellFoundedInduction, TLAPS

-----------------------------------------------------------------------------
(* Induction and recursion *)

\* A nonempty set of numbers has a smallest one: the induction of these proofs.
LEMMA Smallest ==
  ASSUME NEW S, S \subseteq Nat, S # {}
  PROVE  \E n \in S : \A m \in S : n <= m
<1>1. PICK n \in S : \A m \in S : ~ (<<m, n>> \in OpToRel(<, Nat))
  BY WFMin, NatLessThanWellFounded
<1>2. \A m \in S : ~ (m < n)
  BY <1>1 DEF OpToRel
<1> QED BY <1>2

\* A set of numbers that has 0 and with each number the next has them all.
LEMMA Induction ==
  ASSUME NEW S, 0 \in S, \A n \in Nat : n \in S => n + 1 \in S
  PROVE  \A n \in Nat : n \in S
<1> DEFINE Out == {n \in Nat : n \notin S}
<1> SUFFICES ASSUME Out # {} PROVE FALSE
  OBVIOUS
<1>1. PICK n \in Out : \A m \in Out : n <= m
  BY Smallest
<1>2. n # 0 /\ n - 1 \in Nat
  OBVIOUS
<1>3. n - 1 \in S
  BY <1>1, <1>2
<1> QED BY <1>2, <1>3

\* Up to a bound.
LEMMA BoundedInduction ==
  ASSUME NEW N \in Nat, NEW S, 0 \in S, \A n \in 0..(N - 1) : n \in S => n + 1 \in S
  PROVE  \A n \in 0..N : n \in S
<1> DEFINE T == {n \in Nat : n <= N => n \in S}
<1>1. 0 \in T
  OBVIOUS
<1>2. ASSUME NEW n \in Nat, n \in T PROVE n + 1 \in T
  <2>1. CASE n + 1 <= N
    <3>1. n \in 0..(N - 1) /\ n \in S
      BY <1>2, <2>1
    <3> QED BY <3>1
  <2>2. CASE ~ (n + 1 <= N)
    BY <2>2
  <2> QED BY <2>1, <2>2
<1>3. \A n \in Nat : n \in T
  <2> HIDE DEF T
  <2> QED BY <1>1, <1>2, Induction
<1> QED BY <1>3

\* What a recursive function over 0..N computes exists: it is the iteration of
\* steps F[k].
Iterates(f, N, a, F) == f[0] = a /\ \A k \in 1..N : f[k] = F[k][f[k - 1]]

\* Iterating a function of one argument N times gives a function on 0..N: a
\* recursive definition has a value.
LEMMA Iteration ==
  ASSUME NEW N \in Nat, NEW S, NEW a \in S, NEW F \in [1..N -> [S -> S]]
  PROVE  \E f \in [0..N -> S] : Iterates(f, N, a, F)
<1> DEFINE T == {n \in 0..N : \E f \in [0..n -> S] : Iterates(f, n, a, F)}
<1>1. 0 \in T
  <2> DEFINE f == [k \in 0..0 |-> a]
  <2>1. f \in [0..0 -> S] /\ Iterates(f, 0, a, F)
    BY DEF Iterates
  <2> QED BY <2>1
<1>2. ASSUME NEW n \in 0..(N - 1), n \in T PROVE n + 1 \in T
  <2>1. PICK f \in [0..n -> S] : Iterates(f, n, a, F)
    BY <1>2
  <2> DEFINE g == [k \in 0..(n + 1) |-> IF k = n + 1 THEN F[n + 1][f[n]] ELSE f[k]]
  <2>2. F[n + 1] \in [S -> S] /\ f[n] \in S
    OBVIOUS
  <2>3. g \in [0..(n + 1) -> S]
    BY <2>2
  <2>4. g[0] = a
    BY <2>1 DEF Iterates
  <2>5. ASSUME NEW k \in 1..(n + 1) PROVE g[k] = F[k][g[k - 1]]
    BY <2>1 DEF Iterates
  <2> HIDE DEF g
  <2>6. Iterates(g, n + 1, a, F)
    BY <2>4, <2>5 DEF Iterates
  <2>7. n + 1 \in 0..N
    OBVIOUS
  <2> QED BY <2>3, <2>6, <2>7
<1>3. \A n \in 0..N : n \in T
  <2> HIDE DEF T
  <2> QED BY <1>1, <1>2, BoundedInduction
<1> QED BY <1>3

\* Two functions that start alike and go on alike are alike.
Alike(f, g, N) == f[0] = g[0] /\ \A k \in 1..N : f[k - 1] = g[k - 1] => f[k] = g[k]

\* It has only one: two that start alike and go on alike end alike.
LEMMA Agree ==
  ASSUME NEW N \in Nat, NEW f, NEW g, Alike(f, g, N)
  PROVE  f[N] = g[N]
<1> DEFINE T == {k \in 0..N : f[k] = g[k]}
<1>1. 0 \in T
  BY DEF Alike
<1>2. ASSUME NEW n \in 0..(N - 1), n \in T PROVE n + 1 \in T
  <2>1. n + 1 \in 1..N /\ n + 1 - 1 = n
    OBVIOUS
  <2> QED BY <1>2, <2>1 DEF Alike
<1>3. \A n \in 0..N : n \in T
  <2> HIDE DEF T
  <2> QED BY <1>1, <1>2, BoundedInduction
<1> QED BY <1>3

\* Division with remainder.
LEMMA DivMod ==
  ASSUME NEW a \in Nat, NEW b \in Nat \ {0}
  PROVE  /\ a = (a \div b) * b + (a % b)
         /\ a \div b \in Nat /\ a % b \in 0..(b - 1)
<1>1. a = (a \div b) * b + (a % b)
  BY SMT
<1>2. a \div b \in Nat
  BY SMT
<1>3. a % b \in 0..(b - 1)
  BY SMT
<1> QED BY <1>1, <1>2, <1>3

\* A quotient and a remainder in range are what \div and % return.
LEMMA DivModUnique ==
  ASSUME NEW a \in Nat, NEW b \in Nat \ {0}, NEW q \in Nat, NEW r \in 0..(b - 1), a = q * b + r
  PROVE  a \div b = q /\ a % b = r
BY SMT

\* Dividing twice is dividing by the product.
LEMMA DivDiv ==
  ASSUME NEW a \in Nat, NEW b \in Nat \ {0}, NEW c \in Nat \ {0}
  PROVE  (a \div b) \div c = a \div (b * c)
BY SMT

\* A product of numbers is a number and grows with them.  (Nonlinear
\* arithmetic, which the provers leave to such lemmas.)
LEMMA Products ==
  ASSUME NEW a \in Nat, NEW b \in Nat
  PROVE  /\ a * b \in Nat /\ a * b = b * a
         /\ a # 0 /\ b # 0 => a * b # 0
         /\ \A c \in Nat : a <= c => a * b <= c * b
         /\ \A c \in Nat : a < c => a * b + b <= c * b
<1>1. a * b \in Nat /\ a * b = b * a
  BY SMT
<1>2. a # 0 /\ b # 0 => a * b # 0
  BY SMT
<1>3. ASSUME NEW c \in Nat, a <= c PROVE a * b <= c * b
  <2>1. PICK d \in Nat : c = a + d
    <3>1. c - a \in Nat /\ c = a + (c - a)
      BY <1>3
    <3> QED BY <3>1
  <2>2. (a + d) * b = a * b + d * b /\ d * b \in Nat
    BY SMT
  <2> QED BY <1>1, <2>1, <2>2
<1>4. ASSUME NEW c \in Nat, a < c PROVE a * b + b <= c * b
  <2>1. PICK d \in Nat : c = a + d + 1
    <3>1. c - a - 1 \in Nat /\ c = a + (c - a - 1) + 1
      BY <1>4
    <3> QED BY <3>1
  <2>2. (a + d + 1) * b = a * b + d * b + b /\ d * b \in Nat
    BY SMT
  <2> QED BY <1>1, <2>1, <2>2
<1> QED BY <1>1, <1>2, <1>3, <1>4

-----------------------------------------------------------------------------
(* Powers *)

\* Power is what its recursion says.
LEMMA PowerRecursion ==
  ASSUME NEW base \in Nat, NEW n \in Nat
  PROVE  \E p \in [0..n -> Nat] : /\ p[0] = 1 /\ \A k \in 1..n : p[k] = base * p[k - 1]
                                  /\ Power(base, n) = p[n]
<1> DEFINE F == [k \in 1..n |-> [m \in Nat |-> base * m]]
           Rec(p) == p = [k \in 0..n |-> IF k = 0 THEN 1 ELSE base * p[k - 1]]
           c == CHOOSE p : Rec(p)
<1>1. F \in [1..n -> [Nat -> Nat]]
  BY Products
<1>2. PICK f \in [0..n -> Nat] : Iterates(f, n, 1, F)
  <2> HIDE DEF F
  <2> QED BY <1>1, Iteration
<1>3. \A k \in 1..n : f[k] = base * f[k - 1]
  <2> SUFFICES ASSUME NEW k \in 1..n PROVE f[k] = base * f[k - 1]
    OBVIOUS
  <2>1. f[k - 1] \in Nat
    OBVIOUS
  <2>2. f[k] = F[k][f[k - 1]] /\ F[k] = [m \in Nat |-> base * m]
    BY <1>2 DEF Iterates
  <2> HIDE DEF F
  <2> QED BY <2>1, <2>2
<1>4. Rec(f)
  BY <1>2, <1>3 DEF Iterates
<1>5. Rec(c)
  <2> HIDE DEF Rec
  <2> QED BY <1>4
<1>6. Power(base, n) = c[n]
  BY DEF Power
<1> HIDE DEF c
<1>7. c[0] = 1 /\ \A k \in 1..n : c[k] = base * c[k - 1]
  BY <1>5
<1>8. c[n] = f[n]
  <2>1. Alike(c, f, n)
    BY <1>2, <1>3, <1>7 DEF Alike, Iterates
  <2> QED BY <2>1, Agree
<1>9. f[0] = 1
  BY <1>2 DEF Iterates
<1> QED BY <1>3, <1>6, <1>8, <1>9

\* The powers of a base, one after the other.
LEMMA PowerFacts ==
  ASSUME NEW base \in Nat \ {0}
  PROVE  /\ Power(base, 0) = 1
         /\ \A n \in Nat : /\ Power(base, n) \in Nat \ {0}
                           /\ Power(base, n + 1) = base * Power(base, n)
<1>1. Power(base, 0) = 1
  BY PowerRecursion
<1>2. ASSUME NEW n \in Nat PROVE Power(base, n) \in Nat /\ Power(base, n + 1) = base * Power(base, n)
  <2>1. PICK p \in [0..n -> Nat] : /\ p[0] = 1 /\ \A k \in 1..n : p[k] = base * p[k - 1]
                                   /\ Power(base, n) = p[n]
    BY PowerRecursion
  <2>2. n + 1 \in Nat
    OBVIOUS
  <2>3. PICK q \in [0..(n + 1) -> Nat] : /\ q[0] = 1 /\ \A k \in 1..(n + 1) : q[k] = base * q[k - 1]
                                         /\ Power(base, n + 1) = q[n + 1]
    BY <2>2, PowerRecursion
  <2>4. Alike(p, q, n)
    BY <2>1, <2>3 DEF Alike
  <2>5. p[n] = q[n]
    BY <2>4, Agree
  <2>6. q[n + 1] = base * q[n]
    <3>1. n + 1 \in 1..(n + 1) /\ n + 1 - 1 = n
      OBVIOUS
    <3> QED BY <2>3, <3>1
  <2> QED BY <2>1, <2>3, <2>5, <2>6
<1>3. \A n \in Nat : Power(base, n) # 0
  <2> DEFINE T == {n \in Nat : Power(base, n) # 0}
  <2>1. 0 \in T
    BY <1>1
  <2>2. ASSUME NEW n \in Nat, n \in T PROVE n + 1 \in T
    BY <1>2, <2>2, Products
  <2>3. \A n \in Nat : n \in T
    <3> HIDE DEF T
    <3> QED BY <2>1, <2>2, Induction
  <2> QED BY <2>3
<1> QED BY <1>1, <1>2, <1>3

-----------------------------------------------------------------------------
(* Numbers and digits *)

\* A sequence written as a function.
LEMMA FcnSeq ==
  ASSUME NEW n \in Nat, NEW S, NEW s \in [1..n -> S]
  PROVE  s \in Seq(S) /\ Len(s) = n
<1>1. s \in Seq(S)
  OBVIOUS
<1>2. Len(s) \in Nat /\ DOMAIN s = 1..Len(s)
  BY <1>1
<1> QED BY <1>1, <1>2

\* The digits but the first, and Horner's rule.
Rest(x, n) == [i \in 1..n |-> x[i + 1]]
Horner(p, base, x, n) ==
  /\ p[0] = 0 /\ \A k \in 1..n : p[k] = base * p[k - 1] + x[n - k + 1]
  /\ Number(base, x) = p[n]

\* Number is what Horner's rule says.
LEMMA NumberRecursion ==
  ASSUME NEW base \in Nat, NEW n \in Nat, NEW x \in [1..n -> Nat]
  PROVE  \E p \in [0..n -> Nat] : Horner(p, base, x, n)
<1> DEFINE F == [k \in 1..n |-> [m \in Nat |-> base * m + x[n - k + 1]]]
           Rec(p) == p = [k \in 0..n |-> IF k = 0 THEN 0 ELSE base * p[k - 1] + x[n - k + 1]]
           c == CHOOSE p : Rec(p)
<1>1. F \in [1..n -> [Nat -> Nat]]
  <2>1. ASSUME NEW k \in 1..n, NEW m \in Nat PROVE base * m + x[n - k + 1] \in Nat
    <3>1. x[n - k + 1] \in Nat /\ base * m \in Nat
      BY Products
    <3> QED BY <3>1
  <2> QED BY <2>1
<1>2. PICK f \in [0..n -> Nat] : Iterates(f, n, 0, F)
  <2> HIDE DEF F
  <2> QED BY <1>1, Iteration
<1>3. \A k \in 1..n : f[k] = base * f[k - 1] + x[n - k + 1]
  <2> SUFFICES ASSUME NEW k \in 1..n PROVE f[k] = base * f[k - 1] + x[n - k + 1]
    OBVIOUS
  <2>1. f[k - 1] \in Nat
    OBVIOUS
  <2>2. f[k] = F[k][f[k - 1]] /\ F[k] = [m \in Nat |-> base * m + x[n - k + 1]]
    BY <1>2 DEF Iterates
  <2> HIDE DEF F
  <2> QED BY <2>1, <2>2
<1>4. Rec(f)
  BY <1>2, <1>3 DEF Iterates
<1>5. Rec(c)
  <2> HIDE DEF Rec
  <2> QED BY <1>4
<1>6. Number(base, x) = c[n]
  <2>1. Len(x) = n
    BY FcnSeq
  <2> QED BY <2>1 DEF Number
<1> HIDE DEF c
<1>7. c[0] = 0 /\ \A k \in 1..n : c[k] = base * c[k - 1] + x[n - k + 1]
  BY <1>5
<1>8. c[n] = f[n]
  <2>1. Alike(c, f, n)
    BY <1>2, <1>3, <1>7 DEF Alike, Iterates
  <2> QED BY <2>1, Agree
<1>9. f[0] = 0
  BY <1>2 DEF Iterates
<1> QED BY <1>3, <1>6, <1>8, <1>9 DEF Horner

\* The number of n + 1 digits from the number of all but the first.
LEMMA NumberFacts ==
  ASSUME NEW base \in Nat, NEW n \in Nat, NEW x \in [1..(n + 1) -> Nat]
  PROVE  /\ Number(base, Rest(x, n)) \in Nat
         /\ Number(base, x) = base * Number(base, Rest(x, n)) + x[1]
<1> DEFINE y == Rest(x, n)
<1>1. y \in [1..n -> Nat]
  BY DEF Rest
<1>5. \A k \in 1..n : y[n - k + 1] = x[n + 1 - k + 1]
  BY DEF Rest
<1> HIDE DEF y
<1>2. PICK p \in [0..n -> Nat] : Horner(p, base, y, n)
  BY <1>1, NumberRecursion
<1>3. n + 1 \in Nat
  OBVIOUS
<1>4. PICK q \in [0..(n + 1) -> Nat] : Horner(q, base, x, n + 1)
  BY <1>3, NumberRecursion
<1>6. Alike(p, q, n)
  BY <1>2, <1>4, <1>5 DEF Alike, Horner
<1>7. p[n] = q[n]
  BY <1>6, Agree
<1>8. q[n + 1] = base * q[n] + x[1]
  <2>1. n + 1 \in 1..(n + 1) /\ n + 1 - 1 = n /\ n + 1 - (n + 1) + 1 = 1
    OBVIOUS
  <2> QED BY <1>4, <2>1 DEF Horner
<1> QED BY <1>2, <1>4, <1>7, <1>8 DEF y, Horner

\* No digits make 0.
LEMMA NumberEmpty ==
  ASSUME NEW base \in Nat, NEW x \in [1..0 -> Nat]
  PROVE  Number(base, x) = 0
<1>1. PICK p \in [0..0 -> Nat] : Horner(p, base, x, 0)
  BY NumberRecursion
<1> QED BY <1>1 DEF Horner

\* Two functions with the same values are the same.
LEMMA SameFcn ==
  ASSUME NEW D, NEW S, NEW f \in [D -> S], NEW g \in [D -> S], \A i \in D : f[i] = g[i]
  PROVE  f = g
OBVIOUS

\* Digits make a number.
LEMMA NumberType ==
  ASSUME NEW base \in Nat, NEW n \in Nat, NEW x \in [1..n -> Nat]
  PROVE  Number(base, x) \in Nat
<1>1. PICK p \in [0..n -> Nat] : Horner(p, base, x, n)
  BY NumberRecursion
<1> QED BY <1>1 DEF Horner

\* Numbers have a total.
LEMMA TotalType ==
  ASSUME NEW n \in Nat, NEW x \in [1..n -> Nat]
  PROVE  Total(x) \in Nat
BY NumberType DEF Total

\* A digit is less than the base.
LEMMA DigitType ==
  ASSUME NEW base \in Nat \ {0}, NEW n \in Nat, NEW i \in Nat \ {0}
  PROVE  Digit(n, base, i) \in 0..(base - 1)
<1>1. i - 1 \in Nat
  OBVIOUS
<1>2. Power(base, i - 1) \in Nat \ {0}
  BY <1>1, PowerFacts
<1>3. n \div Power(base, i - 1) \in Nat
  BY <1>2, DivMod
<1> QED BY <1>3, DivMod DEF Digit

\* The digits of a number that was put together from them.
LEMMA DigitsOfNumber ==
  ASSUME NEW base \in Nat \ {0}, NEW n \in Nat, NEW x \in [1..n -> 0..(base - 1)]
  PROVE  /\ Number(base, x) \in 0..(Power(base, n) - 1)
         /\ \A i \in 1..n : Digit(Number(base, x), base, i) = x[i]
<1> DEFINE Good(m, y) == /\ Number(base, y) \in 0..(Power(base, m) - 1)
                         /\ \A i \in 1..m : Digit(Number(base, y), base, i) = y[i]
           T == {m \in Nat : \A y \in [1..m -> 0..(base - 1)] : Good(m, y)}
<1>1. 0 \in T
  <2> SUFFICES ASSUME NEW y \in [1..0 -> 0..(base - 1)] PROVE Good(0, y)
    OBVIOUS
  <2>1. y \in [1..0 -> Nat]
    OBVIOUS
  <2>2. Number(base, y) = 0
    BY <2>1, NumberEmpty
  <2> QED BY <2>2, PowerFacts
<1>2. ASSUME NEW m \in Nat, m \in T PROVE m + 1 \in T
  <2> SUFFICES ASSUME NEW y \in [1..(m + 1) -> 0..(base - 1)] PROVE Good(m + 1, y)
    OBVIOUS
  <2> DEFINE z == Rest(y, m)
             v == Number(base, z)
             w == Number(base, y)
  <2>1. z \in [1..m -> 0..(base - 1)] /\ y[1] \in 0..(base - 1)
    BY DEF Rest
  <2>2. Good(m, z)
    BY <1>2, <2>1
  <2>3. w = base * v + y[1] /\ v \in Nat
    <3>1. y \in [1..(m + 1) -> Nat]
      OBVIOUS
    <3> QED BY <3>1, NumberFacts
  <2>4. Power(base, m) \in Nat \ {0} /\ Power(base, m + 1) = base * Power(base, m)
    BY PowerFacts
  <2>5. w \in Nat /\ w \div base = v /\ w % base = y[1]
    <3> HIDE DEF v, w
    <3>1. w = v * base + y[1] /\ v * base \in Nat
      BY <2>3, Products
    <3>2. PICK r \in 0..(base - 1) : r = y[1]
      BY <2>1
    <3>3. w = v * base + r /\ v \in Nat
      BY <2>3, <3>1, <3>2
    <3>4. w \in Nat
      BY <3>1, <3>2
    <3>5. w \div base = v /\ w % base = r
      BY <3>3, <3>4, DivModUnique
    <3> QED BY <3>2, <3>4, <3>5
  <2>6. w < Power(base, m + 1)
    <3>0. v < Power(base, m)
      BY <2>2, <2>4
    <3> HIDE DEF v, w
    <3>1. v * base + base <= Power(base, m) * base
      BY <2>3, <2>4, <3>0, Products
    <3>2. w < v * base + base /\ Power(base, m + 1) = Power(base, m) * base
      BY <2>1, <2>3, <2>4, Products
    <3>3. v * base \in Nat /\ Power(base, m) * base \in Nat
      BY <2>3, <2>4, Products
    <3>4. w \in Nat
      BY <2>5
    <3> QED BY <3>1, <3>2, <3>3, <3>4
  <2>7. Digit(w, base, 1) = y[1]
    <3>1. w \div 1 = w
      BY <2>5, DivModUnique
    <3> QED BY <2>5, <3>1, PowerFacts DEF Digit
  <2>8. ASSUME NEW i \in 2..(m + 1) PROVE Digit(w, base, i) = y[i]
    <3>1. i - 1 \in 1..m /\ i - 2 \in Nat /\ (i - 2) + 1 = i - 1 /\ i - 1 - 1 = i - 2
      OBVIOUS
    <3>2. Power(base, i - 2) \in Nat \ {0} /\ Power(base, i - 1) = base * Power(base, i - 2)
      BY <3>1, PowerFacts
    <3>3. w \div Power(base, i - 1) = v \div Power(base, i - 2)
      <4> HIDE DEF v, w
      <4>1. w \in Nat /\ w \div base = v
        BY <2>5
      <4>2. (w \div base) \div Power(base, i - 2) = w \div (base * Power(base, i - 2))
        BY <3>2, <4>1, DivDiv
      <4> QED BY <3>2, <4>1, <4>2
    <3>4. Digit(v, base, i - 1) = z[i - 1]
      BY <2>2, <3>1
    <3>5. z[i - 1] = y[i]
      BY <3>1 DEF Rest
    <3> HIDE DEF v, w, z
    <3> QED BY <3>1, <3>3, <3>4, <3>5 DEF Digit
  <2>9. Power(base, m + 1) \in Nat
    BY PowerFacts
  <2> HIDE DEF w
  <2>10. w \in 0..(Power(base, m + 1) - 1) /\ \A i \in 1..(m + 1) : Digit(w, base, i) = y[i]
    <3>1. w \in 0..(Power(base, m + 1) - 1)
      <4>1. w \in Nat
        BY <2>5
      <4> QED BY <2>6, <2>9, <4>1
    <3>2. \A i \in 1..(m + 1) : i = 1 \/ i \in 2..(m + 1)
      OBVIOUS
    <3> QED BY <2>7, <2>8, <3>1, <3>2
  <2> QED BY <2>10 DEF w
<1>3. \A m \in Nat : m \in T
  <2> HIDE DEF T
  <2> QED BY <1>1, <1>2, Induction
<1> QED BY <1>3

\* The number that is put together from the digits of one.
LEMMA NumberOfDigits ==
  ASSUME NEW base \in Nat \ {0}, NEW n \in Nat, NEW v \in 0..(Power(base, n) - 1)
  PROVE  /\ [i \in 1..n |-> Digit(v, base, i)] \in [1..n -> 0..(base - 1)]
         /\ Number(base, [i \in 1..n |-> Digit(v, base, i)]) = v
<1> DEFINE D(m, u) == [i \in 1..m |-> Digit(u, base, i)]
           T == {m \in Nat : \A u \in 0..(Power(base, m) - 1) : Number(base, D(m, u)) = u}
<1>0. ASSUME NEW m \in Nat, NEW u \in Nat
      PROVE  D(m, u) \in [1..m -> 0..(base - 1)]
  <2>1. ASSUME NEW i \in 1..m PROVE Digit(u, base, i) \in 0..(base - 1)
    <3>1. i - 1 \in Nat
      OBVIOUS
    <3>2. Power(base, i - 1) \in Nat \ {0}
      BY <3>1, PowerFacts
    <3>3. u \div Power(base, i - 1) \in Nat
      BY <3>2, DivMod
    <3> QED BY <3>3, DivMod DEF Digit
  <2> QED BY <2>1
<1>1. 0 \in T
  <2> SUFFICES ASSUME NEW u \in 0..(Power(base, 0) - 1) PROVE Number(base, D(0, u)) = u
    OBVIOUS
  <2>1. u = 0
    BY PowerFacts
  <2>2. D(0, u) \in [1..0 -> Nat]
    OBVIOUS
  <2> HIDE DEF D
  <2> QED BY <2>1, <2>2, NumberEmpty
<1>2. ASSUME NEW m \in Nat, m \in T PROVE m + 1 \in T
  <2> SUFFICES ASSUME NEW u \in 0..(Power(base, m + 1) - 1)
               PROVE  Number(base, D(m + 1, u)) = u
    OBVIOUS
  <2> DEFINE w == u \div base
  <2>1. Power(base, m) \in Nat \ {0} /\ Power(base, m + 1) = base * Power(base, m) /\ u \in Nat
    <3>1. m + 1 \in Nat
      OBVIOUS
    <3>2. Power(base, m) \in Nat \ {0} /\ Power(base, m + 1) = base * Power(base, m) /\ Power(base, m + 1) \in Nat
      BY <3>1, PowerFacts
    <3> QED BY <3>2
  <2>2. w \in Nat /\ u = w * base + (u % base) /\ u % base \in 0..(base - 1)
    BY <2>1, DivMod
  <2>3. w < Power(base, m)
    <3>1. w * base \in Nat /\ Power(base, m) * base \in Nat /\ base * Power(base, m) = Power(base, m) * base
      BY <2>1, <2>2, Products
    <3>2. w * base < Power(base, m) * base
      BY <2>1, <2>2, <3>1
    <3>3. ~ (Power(base, m) <= w)
      BY <2>1, <2>2, <3>1, <3>2, Products
    <3> QED BY <2>1, <2>2, <3>3
  <2>4. Number(base, D(m, w)) = w
    BY <1>2, <2>1, <2>2, <2>3
  <2>5. D(m + 1, u) \in [1..(m + 1) -> 0..(base - 1)] /\ D(m + 1, u) \in [1..(m + 1) -> Nat]
    <3>1. D(m + 1, u) \in [1..(m + 1) -> 0..(base - 1)]
      BY <1>0, <2>1
    <3> HIDE DEF D
    <3> QED BY <3>1
  <2>6. Rest(D(m + 1, u), m) = D(m, w)
    <3>1. ASSUME NEW i \in 1..m PROVE Digit(u, base, i + 1) = Digit(w, base, i)
      <4>1. i - 1 \in Nat /\ (i - 1) + 1 = i /\ i + 1 - 1 = i
        OBVIOUS
      <4>2. Power(base, i - 1) \in Nat \ {0} /\ Power(base, i) = base * Power(base, i - 1)
        BY <4>1, PowerFacts
      <4>3. u \div Power(base, i) = w \div Power(base, i - 1)
        BY <2>1, <4>2, DivDiv
      <4> HIDE DEF w
      <4> QED BY <4>1, <4>3 DEF Digit
    <3> HIDE DEF w
    <3> QED BY <3>1 DEF Rest
  <2>7. D(m + 1, u)[1] = u % base
    <3>1. u \div 1 = u
      BY <2>1, DivModUnique
    <3>2. Digit(u, base, 1) = u % base
      BY <3>1, PowerFacts DEF Digit
    <3> QED BY <3>2
  <2> HIDE DEF D, w
  <2>8. Number(base, D(m + 1, u)) = base * w + (u % base)
    <3>1. Number(base, D(m + 1, u)) = base * Number(base, Rest(D(m + 1, u), m)) + D(m + 1, u)[1]
      BY <2>5, NumberFacts
    <3> QED BY <2>4, <2>6, <2>7, <3>1
  <2> QED BY <2>2, <2>8, Products
<1>3. \A m \in Nat : m \in T
  <2> HIDE DEF T
  <2> QED BY <1>1, <1>2, Induction
<1>4. Power(base, n) \in Nat
  BY PowerFacts
<1>5. v \in Nat
  BY <1>4
<1> QED BY <1>0, <1>3, <1>5

\* Where the i-th of n pieces of b begins, and which piece holds a place.
LEMMA PlaceOf ==
  ASSUME NEW b \in Nat \ {0}, NEW n \in Nat, NEW q \in 1..n, NEW r \in 1..b
  PROVE  LET i == (q - 1) * b + r
         IN  /\ i \in 1..(n * b)
             /\ ((i - 1) \div b) + 1 = q
             /\ ((i - 1) % b) + 1 = r
<1> DEFINE p == (q - 1) * b
           i == p + r
<1>1. p \in Nat /\ n * b \in Nat
  BY Products
<1>2. p + b <= n * b
  <2>1. q - 1 \in Nat /\ q - 1 < n
    OBVIOUS
  <2> QED BY <2>1, Products
<1>3. i \in 1..(n * b)
  <2> HIDE DEF p
  <2> QED BY <1>1, <1>2
<1>4. (i - 1) \div b = q - 1 /\ (i - 1) % b = r - 1
  <2>1. PICK s \in 0..(b - 1) : s = r - 1
    OBVIOUS
  <2>2. q - 1 \in Nat /\ i - 1 \in Nat /\ i - 1 = (q - 1) * b + s
    <3> HIDE DEF p
    <3>1. i - 1 \in Nat /\ i - 1 = p + s
      BY <1>1, <2>1
    <3> QED BY <3>1 DEF p
  <2> HIDE DEF i
  <2>3. (i - 1) \div b = q - 1 /\ (i - 1) % b = s
    BY <2>2, DivModUnique
  <2> QED BY <2>1, <2>3
<1> HIDE DEF p
<1>5. ((i - 1) \div b) + 1 = q /\ ((i - 1) % b) + 1 = r
  BY <1>4
<1> QED BY <1>3, <1>5 DEF p

\* The other way: the piece that holds the i-th place, and the place in it.
LEMMA PieceOf ==
  ASSUME NEW b \in Nat \ {0}, NEW n \in Nat, NEW i \in 1..(n * b)
  PROVE  LET q == ((i - 1) \div b) + 1
             r == ((i - 1) % b) + 1
         IN  q \in 1..n /\ r \in 1..b /\ i = (q - 1) * b + r
<1> DEFINE d == (i - 1) \div b
           m == (i - 1) % b
<1>1. n * b \in Nat /\ i - 1 \in Nat
  BY Products
<1>2. i - 1 = d * b + m /\ d \in Nat /\ m \in 0..(b - 1)
  BY <1>1, DivMod
<1> HIDE DEF d, m
<1>3. d * b \in Nat /\ d * b < n * b
  <2>1. d * b \in Nat
    BY <1>2, Products
  <2> QED BY <1>1, <1>2, <2>1
<1>4. ~ (n <= d)
  BY <1>1, <1>2, <1>3, Products
<1>5. d + 1 \in 1..n /\ m + 1 \in 1..b /\ d + 1 - 1 = d
  BY <1>2, <1>4
<1>6. i = d * b + (m + 1)
  BY <1>1, <1>2, <1>3
<1> QED BY <1>5, <1>6 DEF d, m

\* n pieces of b are n * b long.
LEMMA PieceCount ==
  ASSUME NEW b \in Nat \ {0}, NEW n \in Nat
  PROVE  n * b \in Nat /\ (n * b) \div b = n /\ (n * b) % b = 0
<1>1. n * b \in Nat /\ n * b = n * b + 0
  BY Products
<1> QED BY <1>1, DivModUnique

-----------------------------------------------------------------------------
(* Words and their bytes *)

\* The words of wb bytes in a page, and back.
BW(wb) == INSTANCE ByteWords WITH WordBytes <- wb

\* There are some bytes.
LEMMA ByteFacts == Byte \in Nat \ {0}
BY SizesAssumption

\* The numerals of ByteWords are those of Numerals.
LEMMA BWNumerals ==
  ASSUME NEW wb
  PROVE  /\ \A b, n : BW(wb)!Power(b, n) = Power(b, n)
         /\ \A b, x : BW(wb)!Number(b, x) = Number(b, x)
         /\ \A n, b, i : BW(wb)!Digit(n, b, i) = Digit(n, b, i)
<1>1. \A b, n : BW(wb)!Power(b, n) = Power(b, n)
  BY DEF BW!Power, Power
<1>2. \A b, x : BW(wb)!Number(b, x) = Number(b, x)
  BY DEF BW!Number, Number
<1>3. \A n, b, i : BW(wb)!Digit(n, b, i) = Digit(n, b, i)
  BY <1>1 DEF BW!Digit, Digit
<1> QED BY <1>1, <1>2, <1>3

\* n bytes, and n words of wb bytes.
ByteSeq(n)     == [1..n -> 0..(Byte - 1)]
WordSeq(wb, n) == [1..n -> 0..(Power(Byte, wb) - 1)]

\* The words of n * wb bytes are n words, each the number that its bytes
\* spell, the least first (a little-endian memcpy in bdi.c and wkdm.c).
LEMMA WordsType ==
  ASSUME NEW wb \in Nat \ {0}, NEW n \in Nat, NEW g \in ByteSeq(n * wb)
  PROVE  /\ BW(wb)!Words(g) \in WordSeq(wb, n)
         /\ \A i \in 1..n : BW(wb)!Words(g)[i] = Number(Byte, [k \in 1..wb |-> g[(i - 1) * wb + k]])
<1>1. n * wb \in Nat /\ (n * wb) \div wb = n
  BY PieceCount
<1>2. Len(g) = n * wb
  BY <1>1, FcnSeq DEF ByteSeq
<1>3. ASSUME NEW i \in 1..n
      PROVE  [k \in 1..wb |-> g[(i - 1) * wb + k]] \in [1..wb -> 0..(Byte - 1)]
  <2>1. \A k \in 1..wb : (i - 1) * wb + k \in 1..(n * wb)
    BY PlaceOf
  <2> QED BY <2>1 DEF ByteSeq
<1>4. \A i \in 1..n : Number(Byte, [k \in 1..wb |-> g[(i - 1) * wb + k]]) \in 0..(Power(Byte, wb) - 1)
  BY <1>3, ByteFacts, DigitsOfNumber
<1>5. BW(wb)!Words(g) = [i \in 1..n |-> Number(Byte, [k \in 1..wb |-> g[(i - 1) * wb + k]])]
  BY <1>1, <1>2, BWNumerals DEF BW!Words, BW!WordAt
<1> QED BY <1>4, <1>5 DEF WordSeq

\* The bytes of n words are n * wb bytes, each a digit of its word.
LEMMA BytesType ==
  ASSUME NEW wb \in Nat \ {0}, NEW n \in Nat, NEW ws \in [1..n -> Nat]
  PROVE  /\ BW(wb)!Bytes(ws) \in ByteSeq(n * wb)
         /\ \A i \in 1..(n * wb) :
              BW(wb)!Bytes(ws)[i] = Digit(ws[((i - 1) \div wb) + 1], Byte, ((i - 1) % wb) + 1)
<1>1. Len(ws) = n
  BY FcnSeq
<1>2. BW(wb)!Bytes(ws) = [i \in 1..(n * wb) |-> Digit(ws[((i - 1) \div wb) + 1], Byte, ((i - 1) % wb) + 1)]
  BY <1>1, BWNumerals DEF BW!Bytes
<1>3. ASSUME NEW i \in 1..(n * wb)
      PROVE  Digit(ws[((i - 1) \div wb) + 1], Byte, ((i - 1) % wb) + 1) \in 0..(Byte - 1)
  <2>1. ((i - 1) \div wb) + 1 \in 1..n /\ ((i - 1) % wb) + 1 \in 1..wb
    BY PieceOf
  <2>2. ws[((i - 1) \div wb) + 1] \in Nat /\ ((i - 1) % wb) + 1 \in Nat \ {0}
    BY <2>1
  <2> QED BY <2>2, ByteFacts, DigitType
<1> QED BY <1>2, <1>3 DEF ByteSeq

\* Bytes read as words and written back are the same bytes.
LEMMA BytesOfWords ==
  ASSUME NEW wb \in Nat \ {0}, NEW n \in Nat, NEW g \in ByteSeq(n * wb)
  PROVE  BW(wb)!Bytes(BW(wb)!Words(g)) = g
<1> DEFINE ws == BW(wb)!Words(g)
           h  == BW(wb)!Bytes(ws)
<1>1. ws \in [1..n -> Nat] /\ \A i \in 1..n : ws[i] = Number(Byte, [k \in 1..wb |-> g[(i - 1) * wb + k]])
  <2>1. ws \in WordSeq(wb, n)
    BY WordsType
  <2>2. 0..(Power(Byte, wb) - 1) \subseteq Nat
    BY ByteFacts, PowerFacts
  <2> QED BY <2>1, <2>2, WordsType DEF WordSeq
<1> HIDE DEF ws
<1>2. h \in ByteSeq(n * wb)
  BY <1>1, BytesType
<1>3. ASSUME NEW i \in 1..(n * wb) PROVE h[i] = g[i]
  <2> DEFINE q == ((i - 1) \div wb) + 1
             r == ((i - 1) % wb) + 1
             x == [k \in 1..wb |-> g[(q - 1) * wb + k]]
  <2>1. q \in 1..n /\ r \in 1..wb /\ i = (q - 1) * wb + r
    BY PieceOf
  <2>2. h[i] = Digit(ws[q], Byte, r)
    BY <1>1, BytesType
  <2> HIDE DEF q, r
  <2>3. x \in [1..wb -> 0..(Byte - 1)]
    <3>1. \A k \in 1..wb : (q - 1) * wb + k \in 1..(n * wb)
      BY <2>1, PlaceOf
    <3> QED BY <3>1 DEF ByteSeq
  <2>4. ws[q] = Number(Byte, x) /\ x[r] = g[i]
    BY <1>1, <2>1
  <2> HIDE DEF x
  <2>5. Digit(Number(Byte, x), Byte, r) = x[r]
    BY <2>1, <2>3, ByteFacts, DigitsOfNumber
  <2> QED BY <2>2, <2>4, <2>5
<1> HIDE DEF h
<1>4. h = g
  BY <1>2, <1>3 DEF ByteSeq
<1> QED BY <1>4 DEF h, ws

\* Words with the same bytes are the same words.
LEMMA BytesInjective ==
  ASSUME NEW wb \in Nat \ {0}, NEW n \in Nat, NEW ws \in WordSeq(wb, n), NEW vs \in WordSeq(wb, n),
         BW(wb)!Bytes(ws) = BW(wb)!Bytes(vs)
  PROVE  ws = vs
<1>1. ws \in [1..n -> Nat] /\ vs \in [1..n -> Nat]
  <2>1. 0..(Power(Byte, wb) - 1) \subseteq Nat
    BY ByteFacts, PowerFacts
  <2> QED BY <2>1 DEF WordSeq
<1>2. ASSUME NEW q \in 1..n PROVE ws[q] = vs[q]
  <2>1. ASSUME NEW r \in 1..wb PROVE Digit(ws[q], Byte, r) = Digit(vs[q], Byte, r)
    <3> DEFINE i == (q - 1) * wb + r
    <3>1. i \in 1..(n * wb) /\ ((i - 1) \div wb) + 1 = q /\ ((i - 1) % wb) + 1 = r
      BY PlaceOf
    <3> HIDE DEF i
    <3>2. BW(wb)!Bytes(ws)[i] = Digit(ws[q], Byte, r)
      BY <1>1, <3>1, BytesType
    <3>3. BW(wb)!Bytes(vs)[i] = Digit(vs[q], Byte, r)
      BY <1>1, <3>1, BytesType
    <3> QED BY <3>2, <3>3
  <2>2. [r \in 1..wb |-> Digit(ws[q], Byte, r)] = [r \in 1..wb |-> Digit(vs[q], Byte, r)]
    BY <2>1
  <2>3. ws[q] \in 0..(Power(Byte, wb) - 1) /\ vs[q] \in 0..(Power(Byte, wb) - 1)
    BY DEF WordSeq
  <2>4. Number(Byte, [r \in 1..wb |-> Digit(ws[q], Byte, r)]) = ws[q]
    BY <2>3, ByteFacts, NumberOfDigits
  <2>5. Number(Byte, [r \in 1..wb |-> Digit(vs[q], Byte, r)]) = vs[q]
    BY <2>3, ByteFacts, NumberOfDigits
  <2> QED BY <2>2, <2>4, <2>5
<1> QED BY <1>2 DEF WordSeq

\* A piece of a sequence.
LEMMA PieceSeq ==
  ASSUME NEW b \in Nat \ {0}, NEW n \in Nat, NEW S, NEW s \in [1..(n * b) -> S], NEW q \in 1..n
  PROVE  /\ SubSeq(s, (q - 1) * b + 1, q * b) = [j \in 1..b |-> s[(q - 1) * b + j]]
         /\ [j \in 1..b |-> s[(q - 1) * b + j]] \in [1..b -> S]
<1> DEFINE p == (q - 1) * b
           z == SubSeq(s, p + 1, p + b)
<1>1. p \in Nat
  BY Products
<1>2. q * b = p + b
  <2>1. q = (q - 1) + 1 /\ q - 1 \in Nat
    OBVIOUS
  <2>2. \A a \in Nat : (a + 1) * b = a * b + b
    BY SMT
  <2> QED BY <2>1, <2>2
<1>3. \A j \in 1..b : p + j \in 1..(n * b)
  BY PlaceOf
<1> HIDE DEF p
<1>4. \A i \in (p + 1)..(p + b) : s[i] \in S
  <2> SUFFICES ASSUME NEW i \in (p + 1)..(p + b) PROVE s[i] \in S
    OBVIOUS
  <2>1. i - p \in 1..b /\ i = p + (i - p)
    BY <1>1
  <2> QED BY <1>3, <2>1
<1>5. /\ z \in Seq(S) /\ Len(z) = b
      /\ \A j \in 1..b : z[j] = s[p + j]
  <2>1. p + 1 \in Int /\ p + b \in Int /\ p + 1 <= p + b /\ (p + b) - (p + 1) + 1 = b
    BY <1>1
  <2>2. /\ z \in Seq(S)
        /\ Len(z) = (p + b) - (p + 1) + 1
        /\ \A j \in 1..((p + b) - (p + 1) + 1) : z[j] = s[(p + 1) + j - 1]
    BY <1>4, <2>1, SubSeqProperties
  <2>3. \A j \in 1..b : (p + 1) + j - 1 = p + j
    BY <1>1
  <2> HIDE DEF z
  <2> QED BY <2>1, <2>2, <2>3
<1> HIDE DEF z
<1>6. z = [j \in 1..b |-> s[p + j]]
  BY <1>5
<1>7. [j \in 1..b |-> s[p + j]] \in [1..b -> S]
  BY <1>3
<1> QED BY <1>2, <1>6, <1>7 DEF p, z

\* A bounded nonempty set of numbers has a largest one.
LEMMA Largest ==
  ASSUME NEW S, S \subseteq Nat, S # {}, NEW N \in Nat, \A x \in S : x <= N
  PROVE  \E m \in S : \A x \in S : x <= m
<1> DEFINE T == {N - x : x \in S}
<1>1. T \subseteq Nat /\ T # {}
  <2>1. \A x \in S : N - x \in Nat
    OBVIOUS
  <2>2. T # {}
    <3>1. PICK x \in S : TRUE
      OBVIOUS
    <3>2. N - x \in T
      BY <3>1
    <3> QED BY <3>2
  <2> QED BY <2>1, <2>2
<1>2. PICK t \in T : \A u \in T : t <= u
  <2> HIDE DEF T
  <2> QED BY <1>1, Smallest
<1>3. PICK m \in S : t = N - m
  OBVIOUS
<1>4. ASSUME NEW x \in S PROVE x <= m
  <2>1. t <= N - x
    BY <1>2
  <2> QED BY <1>3, <2>1
<1> QED BY <1>4

\* Max and Min return the largest and the smallest.
LEMMA MaxMin ==
  ASSUME NEW S, S \subseteq Nat, S # {}, NEW N \in Nat, \A x \in S : x <= N
  PROVE  /\ Max(S) \in S /\ \A x \in S : x <= Max(S)
         /\ Min(S) \in S /\ \A x \in S : Min(S) <= x
<1>1. \E m \in S : \A x \in S : m >= x
  <2>1. PICK m \in S : \A x \in S : x <= m
    BY Largest
  <2> QED BY <2>1
<1>2. \E m \in S : \A x \in S : m <= x
  BY Smallest
<1>3. Max(S) \in S /\ \A x \in S : Max(S) >= x
  BY <1>1 DEF Max
<1>4. Min(S) \in S /\ \A x \in S : Min(S) <= x
  BY <1>2 DEF Min
<1> QED BY <1>3, <1>4

-----------------------------------------------------------------------------
(* bdi: one line *)

\* What SizesAssumption says of the sizes, in the form the proofs use.
LEMMA SizeFacts ==
  /\ Word \in Nat \ {0} /\ LineWords \in Nat \ {0} /\ PageBytes \in Nat \ {0}
  /\ BlockBytes \in Nat \ {0} /\ SameBytes \in Nat \ {0} /\ SameBytes < PageBytes
  /\ \E h \in Nat \ {0} : Word = h * 2
  /\ \E h \in Nat \ {0} : BlockBytes = h * 2
  /\ BdiHeader \in Nat /\ WkdmHeader \in Nat /\ BlockHeader \in Nat
<1>1. ASSUME NEW a \in Nat \ {0}, a % 2 = 0 PROVE \E h \in Nat \ {0} : a = h * 2
  <2>1. a = (a \div 2) * 2 + (a % 2) /\ a \div 2 \in Nat
    BY DivMod
  <2>2. a \div 2 # 0
    BY <1>1, <2>1
  <2> QED BY <1>1, <2>1, <2>2
<1> QED BY <1>1, SizesAssumption

\* A byte has an even number of values, and a word more than a byte.
LEMMA ByteHalf ==
  /\ \E h \in Nat \ {0} : Byte = h + h /\ Byte \div 2 = h
  /\ Power(Byte, Word) \in Nat /\ Byte < Power(Byte, Word)
<1>1. PICK n \in 1..Byte : Byte = Power(2, n)
  BY SizesAssumption
<1>2. n - 1 \in Nat /\ n - 1 + 1 = n
  BY ByteFacts
<1>3. Power(2, n - 1) \in Nat \ {0} /\ Byte = 2 * Power(2, n - 1)
  <2>1. Power(2, (n - 1) + 1) = 2 * Power(2, n - 1) /\ Power(2, n - 1) \in Nat \ {0}
    BY <1>2, PowerFacts
  <2> QED BY <1>1, <1>2, <2>1
<1>4. PICK h \in Nat \ {0} : Byte = 2 * h
  BY <1>3
<1>5. Byte = h + h /\ Byte \div 2 = h
  BY <1>4
<1>6. Power(Byte, 1) = Byte /\ Power(Byte, 2) = Byte * Byte /\ Byte < Byte * Byte
  <2>1. Power(Byte, 0 + 1) = Byte * Power(Byte, 0) /\ Power(Byte, 0) = 1
    BY ByteFacts, PowerFacts
  <2>2. Power(Byte, 1 + 1) = Byte * Power(Byte, 1)
    BY ByteFacts, PowerFacts
  <2>3. 1 * Byte + Byte <= Byte * Byte
    <3>1. 1 < Byte
      BY <1>5
    <3> QED BY <3>1, ByteFacts, Products
  <2> QED BY <2>1, <2>2, <2>3, ByteFacts
<1>7. \A m \in Nat : Power(Byte, m + 2) \in Nat /\ Byte < Power(Byte, m + 2)
  <2> DEFINE T == {m \in Nat : Power(Byte, m + 2) \in Nat /\ Byte < Power(Byte, m + 2)}
  <2>1. 0 \in T
    <3>1. Byte * Byte \in Nat
      BY ByteFacts, Products
    <3> QED BY <1>6, <3>1
  <2>2. ASSUME NEW m \in Nat, m \in T PROVE m + 1 \in T
    <3> DEFINE P == Power(Byte, m + 2)
    <3>1. Power(Byte, m + 1 + 2) = Byte * P
      <4>1. m + 2 \in Nat /\ m + 1 + 2 = (m + 2) + 1
        OBVIOUS
      <4> QED BY <4>1, ByteFacts, PowerFacts
    <3>2. P \in Nat /\ Byte < P
      BY <2>2
    <3> HIDE DEF P
    <3>3. Byte * P \in Nat /\ 1 * P <= Byte * P
      BY <3>2, ByteFacts, Products
    <3>4. Power(Byte, m + 1 + 2) \in Nat /\ Byte < Power(Byte, m + 1 + 2)
      BY <3>1, <3>2, <3>3, ByteFacts
    <3> QED BY <3>4
  <2>3. \A m \in Nat : m \in T
    <3> HIDE DEF T
    <3> QED BY <2>1, <2>2, Induction
  <2> QED BY <2>3
<1>8. Word - 2 \in Nat /\ (Word - 2) + 2 = Word
  BY SizeFacts
<1> QED BY <1>5, <1>7, <1>8

\* The numerals and the words of Bdi are those of Numerals and ByteWords.
LEMMA BNumerals ==
  /\ \A b, n : B!Power(b, n) = Power(b, n)
  /\ \A b, x : B!Number(b, x) = Number(b, x)
  /\ \A n, b, i : B!Digit(n, b, i) = Digit(n, b, i)
  /\ \A x : B!Total(x) = Total(x)
  /\ \A g : B!Words(g) = BW(Word)!Words(g)
  /\ \A ws : B!Bytes(ws) = BW(Word)!Bytes(ws)
<1>1. \A b, n : B!Power(b, n) = Power(b, n)
  BY DEF B!Power, Power
<1>2. \A b, x : B!Number(b, x) = Number(b, x)
  BY DEF B!Number, Number
<1>3. \A n, b, i : B!Digit(n, b, i) = Digit(n, b, i)
  BY <1>1 DEF B!Digit, Digit
<1>4. \A x : B!Total(x) = Total(x)
  BY <1>2 DEF B!Total, Total
<1>5. \A g : B!Words(g) = BW(Word)!Words(g)
  BY <1>2, BWNumerals DEF B!Words, B!WordAt, BW!Words, BW!WordAt
<1>6. \A ws : B!Bytes(ws) = BW(Word)!Bytes(ws)
  BY <1>3, BWNumerals DEF B!Bytes, BW!Bytes
<1> QED BY <1>1, <1>2, <1>3, <1>4, <1>5, <1>6

\* A difference below Byte comes back from its low byte as itself, or off by
\* Byte when a signed byte does not hold it.
LEMMA SignedDeltas ==
  ASSUME NEW d \in Int, -Byte < d, d < Byte
  PROVE  LET s == B!SignedDelta(d % Byte)
         IN  /\ s \in {d, d - Byte, d + Byte}
             /\ s = d <=> d \in (-(Byte \div 2))..(Byte \div 2 - 1)
<1>1. PICK h \in Nat \ {0} : Byte = h + h /\ Byte \div 2 = h
  BY ByteHalf
<1>2. d % Byte = IF d >= 0 THEN d ELSE d + Byte
  <2>1. CASE d >= 0
    <3>1. d \in Nat /\ d \in 0..(Byte - 1) /\ d = 0 * Byte + d
      BY <2>1, <1>1
    <3>2. d % Byte = d
      BY <3>1, ByteFacts, DivModUnique
    <3> QED BY <2>1, <3>2
  <2>2. CASE d < 0
    <3>1. \A b \in Nat \ {0} : \A e \in Int : -b < e /\ e < 0 => e % b = e + b
      BY SMT
    <3>2. d % Byte = d + Byte
      BY <2>2, <3>1, ByteFacts
    <3> QED BY <2>2, <3>2
  <2> QED BY <2>1, <2>2
<1>3. PICK s \in Int : s = B!SignedDelta(d % Byte)
  BY <1>1, <1>2 DEF B!SignedDelta
<1>4. s = IF (IF d >= 0 THEN d ELSE d + Byte) >= h
          THEN (IF d >= 0 THEN d ELSE d + Byte) - Byte ELSE (IF d >= 0 THEN d ELSE d + Byte)
  BY <1>1, <1>2, <1>3 DEF B!SignedDelta
<1>5. s \in {d, d - Byte, d + Byte}
  BY <1>1, <1>4
<1>6. s = d <=> d \in (-h)..(h - 1)
  BY <1>1, <1>4
<1> QED BY <1>1, <1>3, <1>5, <1>6

\* Adding Byte to a word, or taking it away, changes the word.
LEMMA Wrapping ==
  ASSUME NEW M \in Nat, Byte < M, NEW v \in 0..(M - 1), NEW e \in {0, Byte, -Byte}
  PROVE  (v + e) % M \in 0..(M - 1) /\ ((v + e) % M = v <=> e = 0)
<1>1. \A r \in 0..(M - 1) : r % M = r /\ (r + M) % M = r /\ (r - M) % M = r
  <2> SUFFICES ASSUME NEW r \in 0..(M - 1) PROVE r % M = r /\ (r + M) % M = r /\ (r - M) % M = r
    OBVIOUS
  <2>1. \A m \in Nat \ {0} : \A x \in 0..(m - 1) : x % m = x /\ (x + m) % m = x /\ (x - m) % m = x
    BY SMT
  <2> QED BY <2>1, ByteFacts
<1>2. \/ v + e \in 0..(M - 1)
      \/ v + e - M \in 0..(M - 1) /\ v + e - M # v /\ e # 0
      \/ v + e + M \in 0..(M - 1) /\ v + e + M # v /\ e # 0
  BY ByteFacts
<1>3. CASE v + e \in 0..(M - 1)
  BY <1>1, <1>3, ByteFacts
<1>4. CASE v + e - M \in 0..(M - 1) /\ v + e - M # v /\ e # 0
  <2>1. (v + e - M) + M = v + e
    BY ByteFacts
  <2>2. (v + e) % M = v + e - M
    BY <1>1, <1>4, <2>1
  <2> QED BY <1>4, <2>2
<1>5. CASE v + e + M \in 0..(M - 1) /\ v + e + M # v /\ e # 0
  <2>1. (v + e + M) - M = v + e
    BY ByteFacts
  <2>2. (v + e) % M = v + e + M
    BY <1>1, <1>5, <2>1
  <2> QED BY <1>5, <2>2
<1> QED BY <1>2, <1>3, <1>4, <1>5

\* A line packed as differences has only differences below 256 in size, of
\* either sign (bdi.c, the test of the line's range).
LEMMA DeltaRange ==
  ASSUME NEW ws \in WordSeq(Word, LineWords), B!Type(ws) = "delta"
  PROVE  \A i \in 1..LineWords : ws[i] - ws[1] \in Int /\ -Byte < ws[i] - ws[1] /\ ws[i] - ws[1] < Byte
<1> DEFINE M == Power(Byte, Word)
           S == {B!Distance(ws[i], ws[1]) : i \in 1..Len(ws)}
<1>1. Len(ws) = LineWords
  BY SizeFacts, FcnSeq DEF WordSeq
<1>2. M \in Nat
  BY ByteHalf
<1>3. \A i \in 1..LineWords : ws[i] \in 0..(M - 1)
  BY DEF WordSeq
<1> HIDE DEF M
<1>4. 1 \in 1..LineWords
  BY SizeFacts
<1>5. ASSUME NEW i \in 1..LineWords PROVE B!Distance(ws[i], ws[1]) \in 0..M
  BY <1>2, <1>3, <1>4 DEF B!Distance
<1>6. S \subseteq Nat /\ S # {} /\ \A x \in S : x <= M
  BY <1>1, <1>4, <1>5
<1>7. \A x \in S : x <= B!Max(S)
  <2>1. B!Max(S) = Max(S)
    BY DEF B!Max, Max
  <2> HIDE DEF S
  <2> QED BY <1>2, <1>6, <2>1, MaxMin
<1>8. B!Max(S) < Byte
  BY DEF B!Type, B!MaxDelta
<1>9. ASSUME NEW i \in 1..LineWords
      PROVE  ws[i] - ws[1] \in Int /\ -Byte < ws[i] - ws[1] /\ ws[i] - ws[1] < Byte
  <2>1. B!Distance(ws[i], ws[1]) \in S
    BY <1>1
  <2>2. B!Max(S) \in Nat
    <3>1. B!Max(S) = Max(S)
      BY DEF B!Max, Max
    <3> HIDE DEF S
    <3> QED BY <1>2, <1>6, <3>1, MaxMin
  <2> HIDE DEF S
  <2>3. B!Distance(ws[i], ws[1]) < Byte
    <3>1. B!Distance(ws[i], ws[1]) \in Nat
      BY <1>5
    <3> QED BY <1>7, <1>8, <2>1, <2>2, <3>1, ByteFacts
  <2> QED BY <1>3, <1>4, <1>2, <2>3, ByteFacts DEF B!Distance
<1> QED BY <1>9

\* A line comes back as words, and as itself when its differences fit.
Signed(ws) == \A i \in 1..LineWords : ws[i] - ws[1] \in (-(Byte \div 2))..(Byte \div 2 - 1)

\* A line that bdi.c wrote is read back as words, and as the words it was
\* exactly when it was not packed as differences or a signed byte holds them.
LEMMA BdiLine ==
  ASSUME NEW ws \in WordSeq(Word, LineWords)
  PROVE  /\ B!Decode(B!Encode(ws)) \in WordSeq(Word, LineWords)
         /\ B!Decode(B!Encode(ws)) = ws <=> (B!Type(ws) = "delta" => Signed(ws))
<1> DEFINE M == Power(Byte, Word)
           c == B!Encode(ws)
           o == B!Decode(c)
<1>1. Len(ws) = LineWords
  BY SizeFacts, FcnSeq DEF WordSeq
<1>2. M \in Nat /\ Byte < M /\ M = B!Modulus
  BY ByteHalf, BNumerals DEF B!Modulus
<1>3. (\A i \in 1..LineWords : ws[i] \in 0..(M - 1)) /\ 1 \in 1..LineWords
  BY SizeFacts DEF WordSeq
<1>4. B!Type(ws) \in {"zeros", "base", "delta", "raw"}
  BY DEF B!Type
<1>5. CASE B!Type(ws) = "zeros"
  <2>1. \A i \in 1..LineWords : ws[i] = 0
    BY <1>1, <1>5 DEF B!Type
  <2>2. o = [i \in 1..LineWords |-> 0]
    BY <1>5 DEF B!Encode, B!Decode
  <2>3. o = ws
    BY <2>1, <2>2 DEF WordSeq
  <2> QED BY <1>5, <2>3
<1>6. CASE B!Type(ws) = "base"
  <2>1. \A i \in 1..LineWords : ws[i] = ws[1]
    BY <1>1, <1>6 DEF B!Type
  <2>2. o = [i \in 1..LineWords |-> ws[1]]
    BY <1>6 DEF B!Encode, B!Decode
  <2>3. o = ws
    BY <2>1, <2>2 DEF WordSeq
  <2> QED BY <1>6, <2>3
<1>7. CASE B!Type(ws) = "raw"
  <2>1. o = [i \in 1..LineWords |-> ws[i]]
    BY <1>7 DEF B!Encode, B!Decode
  <2>2. o = ws
    BY <2>1 DEF WordSeq
  <2> QED BY <1>7, <2>2
<1>8. CASE B!Type(ws) = "delta"
  <2> DEFINE ds == [i \in 1..LineWords |-> (ws[i] - ws[1]) % Byte]
             w  == c.words
  <2>1. c.type = "delta" /\ w = <<ws[1]>> \o ds
    BY <1>1, <1>8 DEF B!Encode
  <2>2. w[1] = ws[1] /\ \A i \in 1..LineWords : w[i + 1] = (ws[i] - ws[1]) % Byte
    <3>1. ds \in Seq(Int) /\ Len(ds) = LineWords
      <4>1. \A i \in 1..LineWords : (ws[i] - ws[1]) % Byte \in Int
        BY <1>2, <1>3, ByteFacts
      <4>2. ds \in [1..LineWords -> Int]
        BY <4>1
      <4> HIDE DEF ds
      <4> QED BY <4>2, SizeFacts, FcnSeq
    <3>2. <<ws[1]>> \in Seq(Int) /\ Len(<<ws[1]>>) = 1
      BY <1>2, <1>3
    <3>3. \A i \in 1..LineWords : ds[i] = (ws[i] - ws[1]) % Byte
      OBVIOUS
    <3> HIDE DEF ds
    <3>4. (<<ws[1]>> \o ds)[1] = ws[1]
      BY <3>1, <3>2
    <3>5. \A i \in 1..LineWords : (<<ws[1]>> \o ds)[i + 1] = ds[i]
      BY <3>1, <3>2, SizeFacts
    <3> QED BY <2>1, <3>3, <3>4, <3>5
  <2> HIDE DEF c, w
  <2>3. o = [i \in 1..LineWords |-> (ws[1] + B!SignedDelta((ws[i] - ws[1]) % Byte)) % M]
    BY <1>2, <2>1, <2>2 DEF B!Decode, w
  <2>4. ASSUME NEW i \in 1..LineWords
        PROVE  /\ o[i] \in 0..(M - 1)
               /\ o[i] = ws[i] <=> ws[i] - ws[1] \in (-(Byte \div 2))..(Byte \div 2 - 1)
    <3> DEFINE d == ws[i] - ws[1]
               s == B!SignedDelta(d % Byte)
    <3>1. d \in Int /\ -Byte < d /\ d < Byte
      BY <1>8, DeltaRange
    <3>2. ws[1] + d = ws[i] /\ ws[1] \in Int
      BY <1>2, <1>3
    <3> HIDE DEF d
    <3>3. s \in {d, d - Byte, d + Byte} /\ (s = d <=> d \in (-(Byte \div 2))..(Byte \div 2 - 1))
      BY <3>1, SignedDeltas
    <3>4. o[i] = (ws[1] + s) % M
      BY <2>3 DEF d
    <3> HIDE DEF s, o
    <3>5. s - d \in {0, Byte, -Byte} /\ ws[1] + s = ws[i] + (s - d) /\ (s = d <=> s - d = 0)
      BY <3>1, <3>2, <3>3, ByteFacts
    <3>6. (ws[i] + (s - d)) % M \in 0..(M - 1) /\ ((ws[i] + (s - d)) % M = ws[i] <=> s - d = 0)
      BY <1>2, <1>3, <3>5, Wrapping
    <3> QED BY <3>3, <3>4, <3>5, <3>6 DEF d
  <2>5. o \in WordSeq(Word, LineWords)
    BY <2>3, <2>4 DEF WordSeq
  <2>6. o = ws <=> \A i \in 1..LineWords : o[i] = ws[i]
    <3> HIDE DEF o, M
    <3>1. ASSUME \A i \in 1..LineWords : o[i] = ws[i] PROVE o = ws
      <4>1. o \in [1..LineWords -> 0..(Power(Byte, Word) - 1)]
        BY <2>5 DEF WordSeq
      <4>2. ws \in [1..LineWords -> 0..(Power(Byte, Word) - 1)]
        BY DEF WordSeq
      <4> QED BY <3>1, <4>1, <4>2, SizeFacts, SameFcn
    <3> QED BY <3>1
  <2> QED BY <1>8, <2>4, <2>5, <2>6 DEF Signed, c
<1> QED BY <1>4, <1>5, <1>6, <1>7, <1>8

-----------------------------------------------------------------------------
(* bdi: a page *)

\* What divides without remainder is a product.
LEMMA Parts ==
  ASSUME NEW a \in Nat, NEW b \in Nat \ {0}, a % b = 0
  PROVE  \E n \in Nat : a = n * b
<1>1. a = (a \div b) * b + (a % b) /\ a \div b \in Nat
  BY DivMod
<1>2. (a \div b) * b \in Nat
  BY <1>1, Products
<1>3. a = (a \div b) * b
  BY <1>1, <1>2
<1> QED BY <1>1, <1>3

\* A page is a number of cache lines, and so of words.
LEMMA PageLines ==
  \E m \in Nat : /\ PageBytes = m * (Word * LineWords) /\ PageBytes \div B!LineBytes = m
                 /\ PageBytes = (m * LineWords) * Word /\ m * LineWords \in Nat
<1>1. Word * LineWords \in Nat \ {0}
  BY SizeFacts, Products
<1>2. PICK m \in Nat : PageBytes = m * (Word * LineWords)
  BY <1>1, SizesAssumption, SizeFacts, Parts
<1>3. PageBytes \div (Word * LineWords) = m
  BY <1>1, <1>2, PieceCount
<1>4. m * (Word * LineWords) = (m * LineWords) * Word
  <2>1. \A x, y, z \in Nat : x * (y * z) = (x * z) * y
    BY SMT
  <2> QED BY <2>1, SizeFacts
<1>5. m * LineWords \in Nat
  BY SizeFacts, Products
<1> QED BY <1>2, <1>3, <1>4, <1>5 DEF B!LineBytes

\* The lines of a page hold its words in order.
LEMMA BdiLines ==
  ASSUME NEW g \in ByteSeq(PageBytes), NEW m \in Nat,
         PageBytes \div B!LineBytes = m, PageBytes = (m * LineWords) * Word, m * LineWords \in Nat
  PROVE  /\ BW(Word)!Words(g) \in WordSeq(Word, m * LineWords)
         /\ B!Lines(g) \in [1..m -> WordSeq(Word, LineWords)] /\ Len(B!Lines(g)) = m
         /\ \A l \in 1..m : \A j \in 1..LineWords :
              B!Lines(g)[l][j] = BW(Word)!Words(g)[(l - 1) * LineWords + j]
<1> DEFINE ws == BW(Word)!Words(g)
           n == m * LineWords
<1>1. ws \in WordSeq(Word, n)
  <2>1. g \in ByteSeq(n * Word) /\ n \in Nat
    OBVIOUS
  <2> HIDE DEF n
  <2> QED BY <2>1, SizeFacts, WordsType
<1>2. Len(g) = PageBytes
  BY SizeFacts, FcnSeq DEF ByteSeq
<1>3. B!Lines(g) = [l \in 1..m |-> SubSeq(ws, (l - 1) * LineWords + 1, l * LineWords)]
  BY <1>2, BNumerals DEF B!Lines
<1> HIDE DEF ws
<1>4. ASSUME NEW l \in 1..m
      PROVE  /\ SubSeq(ws, (l - 1) * LineWords + 1, l * LineWords) = [j \in 1..LineWords |-> ws[(l - 1) * LineWords + j]]
             /\ [j \in 1..LineWords |-> ws[(l - 1) * LineWords + j]] \in WordSeq(Word, LineWords)
  <2>1. ws \in [1..(m * LineWords) -> 0..(Power(Byte, Word) - 1)]
    BY <1>1 DEF WordSeq
  <2> DEFINE V == 0..(Power(Byte, Word) - 1)
  <2>2. [1..LineWords -> V] = WordSeq(Word, LineWords)
    BY DEF WordSeq
  <2> HIDE DEF V
  <2>3. SubSeq(ws, (l - 1) * LineWords + 1, l * LineWords) = [j \in 1..LineWords |-> ws[(l - 1) * LineWords + j]]
    BY <2>1, SizeFacts, PieceSeq DEF V
  <2>4. [j \in 1..LineWords |-> ws[(l - 1) * LineWords + j]] \in [1..LineWords -> V]
    <3>1. ws \in [1..(m * LineWords) -> V]
      BY <2>1 DEF V
    <3> QED BY <3>1, SizeFacts, PieceSeq
  <2> QED BY <2>2, <2>3, <2>4
<1>8. ASSUME NEW l \in 1..m
      PROVE  B!Lines(g)[l] = [j \in 1..LineWords |-> ws[(l - 1) * LineWords + j]]
  <2>1. B!Lines(g)[l] = SubSeq(ws, (l - 1) * LineWords + 1, l * LineWords)
    BY <1>3
  <2> QED BY <1>4, <2>1
<1>5. B!Lines(g) \in [1..m -> WordSeq(Word, LineWords)]
  <2>1. \A l \in 1..m : B!Lines(g)[l] \in WordSeq(Word, LineWords)
    BY <1>4, <1>8
  <2>2. DOMAIN B!Lines(g) = 1..m /\ B!Lines(g) = [l \in DOMAIN B!Lines(g) |-> B!Lines(g)[l]]
    BY <1>3
  <2> QED BY <2>1, <2>2
<1>6. Len(B!Lines(g)) = m
  BY <1>5, FcnSeq
<1>7. \A l \in 1..m : \A j \in 1..LineWords : B!Lines(g)[l][j] = ws[(l - 1) * LineWords + j]
  <2> SUFFICES ASSUME NEW l \in 1..m, NEW j \in 1..LineWords
               PROVE  B!Lines(g)[l][j] = ws[(l - 1) * LineWords + j]
    OBVIOUS
  <2>1. B!Lines(g)[l] = [i \in 1..LineWords |-> ws[(l - 1) * LineWords + i]]
    BY <1>8
  <2> QED BY <2>1
<1> QED BY <1>1, <1>5, <1>6, <1>7 DEF ws

\* The sizes that a line and a page take.
LEMMA BdiSizes ==
  ASSUME NEW g \in ByteSeq(PageBytes), NEW cap
  PROVE  B!Compress(g, cap).size \in 0..(PageBytes - 1)
<1>1. PICK m \in Nat : /\ PageBytes \div B!LineBytes = m
                       /\ PageBytes = (m * LineWords) * Word /\ m * LineWords \in Nat
  BY PageLines
<1> DEFINE lines == B!Lines(g)
           sizes == [l \in 1..m |-> B!LineSize(lines[l])]
           total == BdiHeader + Total(sizes)
<1>2. lines \in [1..m -> WordSeq(Word, LineWords)] /\ Len(lines) = m
  BY <1>1, BdiLines
<1>3. Word * LineWords \in Nat
  BY SizeFacts, Products
<1>4. sizes \in [1..m -> Nat]
  BY <1>3, SizeFacts DEF B!LineSize, B!LineBytes
<1>5. total \in Nat
  <2> HIDE DEF sizes
  <2> QED BY <1>4, SizeFacts, TotalType
<1>6. Len(g) = PageBytes
  BY SizeFacts, FcnSeq DEF ByteSeq
<1>7. B!Compress(g, cap).size = (IF PageBytes % B!LineBytes # 0 \/ total > cap \/ total >= PageBytes THEN 0 ELSE total)
  BY <1>2, <1>6, BNumerals DEF B!Compress
<1> HIDE DEF total
<1> QED BY <1>5, <1>7, SizeFacts

\* A compressed page comes back as a page, and as itself exactly when the
\* differences of its lines fit.
LEMMA BdiRoundTrip ==
  ASSUME NEW g \in ByteSeq(PageBytes), NEW cap
  PROVE  LET o == B!Decompress(B!Compress(g, cap).form)
         IN  o \in ByteSeq(PageBytes) /\ (o = g <=> B!Fits(g))
<1>1. PICK m \in Nat : /\ PageBytes \div B!LineBytes = m
                       /\ PageBytes = (m * LineWords) * Word /\ m * LineWords \in Nat
  BY PageLines
<1> DEFINE ws    == BW(Word)!Words(g)
           lines == B!Lines(g)
           n     == m * LineWords
           cs    == [l \in 1..m |-> B!Encode(lines[l])]
           back(l) == B!Decode(cs[l])
           vs    == [i \in 1..n |-> back(((i - 1) \div LineWords) + 1)[((i - 1) % LineWords) + 1]]
<1>2. /\ ws \in WordSeq(Word, n)
      /\ lines \in [1..m -> WordSeq(Word, LineWords)] /\ Len(lines) = m
      /\ \A l \in 1..m : \A j \in 1..LineWords : lines[l][j] = ws[(l - 1) * LineWords + j]
  BY <1>1, BdiLines
<1>3. B!Compress(g, cap).form = cs
  BY <1>2 DEF B!Compress
<1>4. Len(cs) = m
  <2>1. cs \in [1..m -> {cs[l] : l \in 1..m}]
    OBVIOUS
  <2> HIDE DEF cs
  <2> QED BY <2>1, FcnSeq
<1>5. B!Decompress(cs) = BW(Word)!Bytes(vs)
  <2> HIDE DEF cs
  <2> QED BY <1>4, BNumerals DEF B!Decompress
<1> HIDE DEF lines, ws
<1>6. ASSUME NEW l \in 1..m
      PROVE  /\ back(l) \in WordSeq(Word, LineWords)
             /\ back(l) = lines[l] <=> (B!Type(lines[l]) = "delta" => Signed(lines[l]))
  <2>1. lines[l] \in WordSeq(Word, LineWords) /\ cs[l] = B!Encode(lines[l])
    BY <1>2
  <2> HIDE DEF cs
  <2> QED BY <2>1, BdiLine
<1> HIDE DEF cs, back
<1>7. vs \in WordSeq(Word, n)
  <2> SUFFICES ASSUME NEW i \in 1..n PROVE vs[i] \in 0..(Power(Byte, Word) - 1)
    BY DEF WordSeq
  <2>1. ((i - 1) \div LineWords) + 1 \in 1..m /\ ((i - 1) % LineWords) + 1 \in 1..LineWords
    BY SizeFacts, PieceOf
  <2> QED BY <1>6, <2>1 DEF WordSeq
<1>8. \A l \in 1..m : \A j \in 1..LineWords : vs[(l - 1) * LineWords + j] = back(l)[j]
  <2> SUFFICES ASSUME NEW l \in 1..m, NEW j \in 1..LineWords
               PROVE  vs[(l - 1) * LineWords + j] = back(l)[j]
    OBVIOUS
  <2> DEFINE i == (l - 1) * LineWords + j
  <2>1. i \in 1..(m * LineWords) /\ ((i - 1) \div LineWords) + 1 = l /\ ((i - 1) % LineWords) + 1 = j
    BY SizeFacts, PlaceOf
  <2> HIDE DEF i
  <2>2. vs[i] = back(((i - 1) \div LineWords) + 1)[((i - 1) % LineWords) + 1]
    BY <2>1
  <2>3. vs[i] = back(l)[j]
    BY <2>1, <2>2
  <2> QED BY <2>3 DEF i
<1> HIDE DEF vs
<1>9. vs = ws <=> \A l \in 1..m : back(l) = lines[l]
  <2>1. ASSUME vs = ws, NEW l \in 1..m PROVE back(l) = lines[l]
    <3>1. \A j \in 1..LineWords : back(l)[j] = lines[l][j]
      BY <1>2, <1>8, <2>1
    <3>2. back(l) \in WordSeq(Word, LineWords) /\ lines[l] \in WordSeq(Word, LineWords)
      BY <1>2, <1>6
    <3> QED BY <3>1, <3>2, SizeFacts, SameFcn DEF WordSeq
  <2>2. ASSUME \A l \in 1..m : back(l) = lines[l] PROVE vs = ws
    <3>1. ASSUME NEW i \in 1..n PROVE vs[i] = ws[i]
      <4> DEFINE l == ((i - 1) \div LineWords) + 1
                 j == ((i - 1) % LineWords) + 1
      <4>1. l \in 1..m /\ j \in 1..LineWords /\ i = (l - 1) * LineWords + j
        BY SizeFacts, PieceOf
      <4> HIDE DEF l, j
      <4>2. vs[i] = back(l)[j]
        BY <1>8, <4>1
      <4>3. ws[i] = lines[l][j]
        BY <1>2, <4>1
      <4> QED BY <2>2, <4>1, <4>2, <4>3
    <3> QED BY <1>1, <1>2, <1>7, <3>1, SameFcn DEF WordSeq
  <2> QED BY <2>1, <2>2
<1>10. B!Fits(g) <=> \A l \in 1..m : B!Type(lines[l]) = "delta" => Signed(lines[l])
  <2>1. \A l \in 1..m : Len(lines[l]) = LineWords
    BY <1>2, SizeFacts, FcnSeq DEF WordSeq
  <2> QED BY <1>2, <2>1 DEF B!Fits, Signed, lines
<1>11. BW(Word)!Bytes(vs) \in ByteSeq(PageBytes)
  <2>1. vs \in [1..n -> Nat] /\ n \in Nat
    <3>1. 0..(Power(Byte, Word) - 1) \subseteq Nat
      BY ByteHalf
    <3> QED BY <1>1, <1>7, <3>1 DEF WordSeq
  <2> QED BY <1>1, <2>1, SizeFacts, BytesType
<1>12. BW(Word)!Bytes(vs) = g <=> vs = ws
  <2>1. BW(Word)!Bytes(ws) = g
    <3>1. g \in ByteSeq(n * Word) /\ n \in Nat
      BY <1>1
    <3> HIDE DEF n
    <3> QED BY <3>1, SizeFacts, BytesOfWords DEF ws
  <2>2. n \in Nat
    BY <1>1
  <2> HIDE DEF n
  <2> QED BY <1>2, <1>7, <2>1, <2>2, SizeFacts, BytesInjective
<1> QED BY <1>3, <1>5, <1>6, <1>9, <1>10, <1>11, <1>12

-----------------------------------------------------------------------------
(* Sequences that grow *)

\* a is the beginning of b.
Prefix(a, b) == Len(a) <= Len(b) /\ \A j \in 1..Len(a) : b[j] = a[j]

\* Each of a[1], ..., a[n] is the one before or has one element of V more.
Grows(a, n, V) == \A k \in 1..n : a[k] = a[k - 1] \/ \E e \in V : a[k] = Append(a[k - 1], e)

\* A sequence that only grows keeps what it had.
LEMMA Growing ==
  ASSUME NEW n \in Nat, NEW V, NEW a \in [0..n -> Seq(V)], Grows(a, n, V)
  PROVE  \A i \in 0..n : Prefix(a[i], a[n])
<1> DEFINE T == {j \in 0..n : \A i \in 0..j : Prefix(a[i], a[j])}
<1>1. 0 \in T
  <2>1. Prefix(a[0], a[0])
    <3>1. a[0] \in Seq(V)
      OBVIOUS
    <3>2. Len(a[0]) \in Nat
      BY <3>1
    <3> QED BY <3>2 DEF Prefix
  <2>2. \A i \in 0..0 : i = 0
    OBVIOUS
  <2> QED BY <2>1, <2>2
<1>2. ASSUME NEW j \in 0..(n - 1), j \in T PROVE j + 1 \in T
  <2>1. a[j] \in Seq(V) /\ a[j + 1] \in Seq(V) /\ j + 1 \in 0..n
    OBVIOUS
  <2>2. Prefix(a[j], a[j + 1]) /\ Prefix(a[j + 1], a[j + 1])
    <3>1. a[j + 1] = a[j] \/ \E e \in V : a[j + 1] = Append(a[j], e)
      <4>1. j + 1 \in 1..n /\ j + 1 - 1 = j
        OBVIOUS
      <4> QED BY <4>1 DEF Grows
    <3>2. CASE a[j + 1] = a[j]
      BY <2>1, <3>2 DEF Prefix
    <3>3. CASE \E e \in V : a[j + 1] = Append(a[j], e)
      <4>1. PICK e \in V : a[j + 1] = Append(a[j], e)
        BY <3>3
      <4>2. Len(a[j + 1]) = Len(a[j]) + 1 /\ \A i \in 1..Len(a[j]) : a[j + 1][i] = a[j][i]
        BY <2>1, <4>1
      <4>3. Len(a[j]) \in Nat /\ Len(a[j + 1]) \in Nat
        BY <2>1
      <4> QED BY <4>2, <4>3 DEF Prefix
    <3> QED BY <3>1, <3>2, <3>3
  <2>3. ASSUME NEW i \in 0..j PROVE Prefix(a[i], a[j + 1])
    <3>1. Prefix(a[i], a[j])
      BY <1>2
    <3>2. i \in 0..n
      OBVIOUS
    <3>3. Len(a[i]) \in Nat /\ Len(a[j]) \in Nat /\ Len(a[j + 1]) \in Nat
      BY <2>1, <3>2
    <3> QED BY <2>2, <3>1, <3>3 DEF Prefix
  <2>4. \A i \in 0..(j + 1) : i = j + 1 \/ i \in 0..j
    OBVIOUS
  <2>5. \A i \in 0..(j + 1) : Prefix(a[i], a[j + 1])
    BY <2>2, <2>3, <2>4
  <2> QED BY <2>1, <2>5
<1>3. \A j \in 0..n : j \in T
  <2> HIDE DEF T
  <2> QED BY <1>1, <1>2, BoundedInduction
<1> QED BY <1>3

-----------------------------------------------------------------------------
(* wkdm and wkdm64 *)

\* The numerals and the words of Wkdm are those of Numerals and ByteWords.
LEMMA WNumerals ==
  ASSUME NEW wb, NEW hd, NEW ds
  PROVE  /\ \A b, n : W(wb, hd, ds)!Power(b, n) = Power(b, n)
         /\ \A g : W(wb, hd, ds)!Words(g) = BW(wb)!Words(g)
         /\ \A ws : W(wb, hd, ds)!Bytes(ws) = BW(wb)!Bytes(ws)
<1>1. \A b, n : W(wb, hd, ds)!Power(b, n) = Power(b, n)
  BY DEF W!Power, Power
<1>2. \A b, x : W(wb, hd, ds)!Number(b, x) = Number(b, x)
  BY DEF W!Number, Number
<1>3. \A n, b, i : W(wb, hd, ds)!Digit(n, b, i) = Digit(n, b, i)
  BY <1>1 DEF W!Digit, Digit
<1>4. \A g : W(wb, hd, ds)!Words(g) = BW(wb)!Words(g)
  BY <1>2, BWNumerals DEF W!Words, W!WordAt, BW!Words, BW!WordAt
<1>5. \A ws : W(wb, hd, ds)!Bytes(ws) = BW(wb)!Bytes(ws)
  BY <1>3, BWNumerals DEF W!Bytes, BW!Bytes
<1> QED BY <1>1, <1>4, <1>5

\* The states of the compressor of wkdm.c, and the first of them.
Tags == {"zero", "exact", "partial", "miss"}
EncoderStates(ds) == [dict : [0..(ds - 1) -> Nat], tags : Seq(Tags), exact : Seq(0..(ds - 1)),
                      partial : Seq(Nat), miss : Seq(Nat)]

\* One word of the compressor.
EncoderStep(wb, hd, ds, b, v) ==
  LET t == W(wb, hd, ds)!Tag(v, b.dict) IN
  [dict    |-> W(wb, hd, ds)!Learned(t, b.dict, v),
   tags    |-> Append(b.tags, t),
   exact   |-> IF t = "exact" THEN Append(b.exact, W(wb, hd, ds)!Hash(v)) ELSE b.exact,
   partial |-> IF t = "partial" THEN Append(b.partial, v % W(wb, hd, ds)!Half) ELSE b.partial,
   miss    |-> IF t = "miss" THEN Append(b.miss, v) ELSE b.miss]

EncoderStart(ds) == [dict |-> [h \in 0..(ds - 1) |-> 0], tags |-> <<>>, exact |-> <<>>, partial |-> <<>>, miss |-> <<>>]

\* Each word leaves the compressor of wkdm.c in a proper state; the place in
\* the dictionary is one of its places.
LEMMA EncoderTypes ==
  ASSUME NEW wb \in Nat \ {0}, NEW hd \in Nat \ {0}, NEW ds \in Nat \ {0},
         NEW b \in EncoderStates(ds), NEW v \in Nat
  PROVE  /\ EncoderStep(wb, hd, ds, b, v) \in EncoderStates(ds)
         /\ EncoderStart(ds) \in EncoderStates(ds)
         /\ W(wb, hd, ds)!Hash(v) \in 0..(ds - 1)
         /\ W(wb, hd, ds)!Tag(v, b.dict) \in Tags
         /\ W(wb, hd, ds)!Half \in Nat \ {0}
<1> DEFINE t == W(wb, hd, ds)!Tag(v, b.dict)
           h == W(wb, hd, ds)!Hash(v)
           half == W(wb, hd, ds)!Half
<1>1. t \in Tags
  BY DEF W!Tag, Tags
<1>2. h \in 0..(ds - 1)
  <2>1. v \div hd \in Nat
    BY DivMod
  <2> QED BY <2>1, DivMod DEF W!Hash
<1>3. half \in Nat \ {0}
  <2>1. wb \div 2 \in Nat
    BY DivMod
  <2>2. Power(Byte, wb \div 2) \in Nat \ {0}
    BY <2>1, ByteFacts, PowerFacts
  <2> QED BY <2>2, WNumerals DEF W!Half
<1>4. v % half \in Nat
  <2> HIDE DEF half
  <2> QED BY <1>3, DivMod
<1>5. /\ b.dict \in [0..(ds - 1) -> Nat] /\ b.tags \in Seq(Tags) /\ b.exact \in Seq(0..(ds - 1))
      /\ b.partial \in Seq(Nat) /\ b.miss \in Seq(Nat)
  BY DEF EncoderStates
<1>6. W(wb, hd, ds)!Learned(t, b.dict, v) \in [0..(ds - 1) -> Nat]
  <2> HIDE DEF t
  <2> QED BY <1>2, <1>5 DEF W!Learned, W!Learn
<1>7. EncoderStart(ds) \in EncoderStates(ds)
  BY DEF EncoderStart, EncoderStates
<1> HIDE DEF t, h, half
<1>8. Append(b.tags, t) \in Seq(Tags) /\ Append(b.exact, h) \in Seq(0..(ds - 1))
      /\ Append(b.partial, v % half) \in Seq(Nat) /\ Append(b.miss, v) \in Seq(Nat)
  BY <1>1, <1>2, <1>4, <1>5
<1>9. EncoderStep(wb, hd, ds, b, v) \in EncoderStates(ds)
  BY <1>5, <1>6, <1>8 DEF EncoderStep, EncoderStates, t, h, half
<1> QED BY <1>1, <1>2, <1>3, <1>7, <1>9 DEF t, h, half

\* The compressor is the iteration of its step.
Encoder(s, wb, hd, ds, ws, n) ==
  /\ s[0] = EncoderStart(ds) /\ \A k \in 1..n : s[k] = EncoderStep(wb, hd, ds, s[k - 1], ws[k])
  /\ W(wb, hd, ds)!Encode(ws) = s[n]

\* The states that the compressor of wkdm.c goes through.
LEMMA EncoderRecursion ==
  ASSUME NEW wb \in Nat \ {0}, NEW hd \in Nat \ {0}, NEW ds \in Nat \ {0},
         NEW n \in Nat, NEW ws \in [1..n -> Nat]
  PROVE  \E s \in [0..n -> EncoderStates(ds)] : Encoder(s, wb, hd, ds, ws, n)
<1> DEFINE S == EncoderStates(ds)
           F == [k \in 1..n |-> [b \in S |-> EncoderStep(wb, hd, ds, b, ws[k])]]
           a == EncoderStart(ds)
           Rec(p) == p = [k \in 0..n |-> IF k = 0 THEN a ELSE EncoderStep(wb, hd, ds, p[k - 1], ws[k])]
           c == CHOOSE p : Rec(p)
<1>1. a \in S
  <2>1. a \in S
    BY DEF EncoderStart, EncoderStates
  <2> QED BY <2>1
<1>2. F \in [1..n -> [S -> S]]
  <2>1. ASSUME NEW k \in 1..n, NEW b \in S PROVE EncoderStep(wb, hd, ds, b, ws[k]) \in S
    BY EncoderTypes
  <2> HIDE DEF S
  <2> QED BY <2>1
<1>3. PICK f \in [0..n -> S] : Iterates(f, n, a, F)
  <2> HIDE DEF F, S, a
  <2> QED BY <1>1, <1>2, Iteration
<1>4. \A k \in 1..n : f[k] = EncoderStep(wb, hd, ds, f[k - 1], ws[k])
  <2> SUFFICES ASSUME NEW k \in 1..n PROVE f[k] = EncoderStep(wb, hd, ds, f[k - 1], ws[k])
    OBVIOUS
  <2>1. f[k - 1] \in S
    OBVIOUS
  <2>2. f[k] = F[k][f[k - 1]]
    BY <1>3 DEF Iterates
  <2>3. F[k] = [b \in S |-> EncoderStep(wb, hd, ds, b, ws[k])]
    OBVIOUS
  <2> HIDE DEF F, S
  <2> QED BY <2>1, <2>2, <2>3
<1>5. f[0] = a
  BY <1>3 DEF Iterates
<1>6. Rec(f)
  <2> HIDE DEF F, S, a
  <2> QED BY <1>4, <1>5
<1>7. Rec(c)
  <2> HIDE DEF Rec
  <2> QED BY <1>6
<1>8. W(wb, hd, ds)!Encode(ws) = c[n]
  <2>1. Len(ws) = n
    BY FcnSeq
  <2> QED BY <2>1 DEF W!Encode, W!NoDict, EncoderStart, EncoderStep
<1> HIDE DEF c, a, S, F
<1>9. c[0] = a /\ \A k \in 1..n : c[k] = EncoderStep(wb, hd, ds, c[k - 1], ws[k])
  BY <1>7
<1>10. c[n] = f[n]
  <2>1. Alike(c, f, n)
    BY <1>4, <1>5, <1>9 DEF Alike
  <2> QED BY <2>1, Agree
<1> QED BY <1>4, <1>5, <1>8, <1>10 DEF Encoder, a, S

\* One word of the decompressor, which reads fm.
DecoderStep(wb, hd, ds, fm, b, t) ==
  LET v == CASE t = "zero"    -> 0
             [] t = "exact"   -> b.dict[fm.exact[b.exact + 1]]
             [] t = "partial" -> fm.partial[b.partial + 1]
             [] t = "miss"    -> fm.miss[b.miss + 1]
  IN  [dict    |-> IF t \in {"partial", "miss"} THEN W(wb, hd, ds)!Learn(b.dict, v) ELSE b.dict,
       words   |-> Append(b.words, v),
       exact   |-> b.exact + (IF t = "exact" THEN 1 ELSE 0),
       partial |-> b.partial + (IF t = "partial" THEN 1 ELSE 0),
       miss    |-> b.miss + (IF t = "miss" THEN 1 ELSE 0)]

\* The decompressor before the first word.
DecoderStart(ds) == [dict |-> [h \in 0..(ds - 1) |-> 0], words |-> <<>>, exact |-> 0, partial |-> 0, miss |-> 0]

\* Where the decompressor is when the compressor was at b after the words ws.
Follows(b, ws) == [dict |-> b.dict, words |-> ws, exact |-> Len(b.exact), partial |-> Len(b.partial), miss |-> Len(b.miss)]

\* The areas of e begin with those of b.
Extends(b, e) ==
  Prefix(b.tags, e.tags) /\ Prefix(b.exact, e.exact) /\ Prefix(b.partial, e.partial) /\ Prefix(b.miss, e.miss)

\* The first element beyond a prefix's old end.
LEMMA PrefixLast ==
  ASSUME NEW c, NEW e, NEW m \in Nat, Prefix(c, e), Len(c) = m + 1
  PROVE  e[m + 1] = c[m + 1]
<1>1. m + 1 \in 1..Len(c)
  OBVIOUS
<1> QED BY <1>1 DEF Prefix

\* A word comes back, and both dictionaries stay the same.
LEMMA DecoderFollows ==
  ASSUME NEW wb \in Nat \ {0}, NEW hd \in Nat \ {0}, NEW ds \in Nat \ {0},
         NEW b \in EncoderStates(ds), NEW v \in Nat, NEW e \in EncoderStates(ds), NEW us \in Seq(Nat),
         Extends(EncoderStep(wb, hd, ds, b, v), e)
  PROVE  /\ e.tags[Len(b.tags) + 1] = W(wb, hd, ds)!Tag(v, b.dict)
         /\ DecoderStep(wb, hd, ds, e, Follows(b, us), W(wb, hd, ds)!Tag(v, b.dict))
              = Follows(EncoderStep(wb, hd, ds, b, v), Append(us, v))
<1> DEFINE t == W(wb, hd, ds)!Tag(v, b.dict)
           h == W(wb, hd, ds)!Hash(v)
           half == W(wb, hd, ds)!Half
           c == EncoderStep(wb, hd, ds, b, v)
           d == Follows(b, us)
           u == CASE t = "zero"    -> 0
                  [] t = "exact"   -> d.dict[e.exact[d.exact + 1]]
                  [] t = "partial" -> e.partial[d.partial + 1]
                  [] t = "miss"    -> e.miss[d.miss + 1]
<1>1. /\ c \in EncoderStates(ds) /\ h \in 0..(ds - 1) /\ t \in Tags /\ half \in Nat \ {0}
  BY EncoderTypes
<1>2. /\ t = "zero" => v = 0
      /\ t = "exact" => b.dict[h] = v
      /\ t = "partial" => v < half
  BY DEF W!Tag
<1>3. /\ c.tags = Append(b.tags, t)
      /\ c.exact = IF t = "exact" THEN Append(b.exact, h) ELSE b.exact
      /\ c.partial = IF t = "partial" THEN Append(b.partial, v % half) ELSE b.partial
      /\ c.miss = IF t = "miss" THEN Append(b.miss, v) ELSE b.miss
      /\ c.dict = IF t \in {"partial", "miss"} THEN W(wb, hd, ds)!Learn(b.dict, v) ELSE b.dict
  BY DEF EncoderStep, W!Learned
<1>4. /\ b.tags \in Seq(Tags) /\ b.exact \in Seq(0..(ds - 1)) /\ b.partial \in Seq(Nat) /\ b.miss \in Seq(Nat)
  BY DEF EncoderStates
<1>15. Prefix(c.tags, e.tags) /\ Prefix(c.exact, e.exact) /\ Prefix(c.partial, e.partial) /\ Prefix(c.miss, e.miss)
  BY DEF Extends
<1> HIDE DEF t, h, half, c
<1>5. e.tags[Len(b.tags) + 1] = t
  <2>1. Len(c.tags) = Len(b.tags) + 1 /\ c.tags[Len(b.tags) + 1] = t /\ Len(b.tags) \in Nat
    BY <1>1, <1>3, <1>4
  <2> QED BY <1>15, <2>1, PrefixLast
<1>6. t = "exact" => e.exact[Len(b.exact) + 1] = h
  <2> SUFFICES ASSUME t = "exact" PROVE e.exact[Len(b.exact) + 1] = h
    OBVIOUS
  <2>1. Len(c.exact) = Len(b.exact) + 1 /\ c.exact[Len(b.exact) + 1] = h /\ Len(b.exact) \in Nat
    BY <1>1, <1>3, <1>4
  <2> QED BY <1>15, <2>1, PrefixLast
<1>7. t = "partial" => e.partial[Len(b.partial) + 1] = v % half /\ v % half = v
  <2> SUFFICES ASSUME t = "partial" PROVE e.partial[Len(b.partial) + 1] = v % half /\ v % half = v
    OBVIOUS
  <2>1. v % half = v
    <3>1. v = 0 * half + v /\ v \in 0..(half - 1)
      BY <1>1, <1>2
    <3> QED BY <1>1, <3>1, DivModUnique
  <2>2. Len(c.partial) = Len(b.partial) + 1 /\ c.partial[Len(b.partial) + 1] = v % half /\ Len(b.partial) \in Nat
    BY <1>1, <1>3, <1>4, <2>1
  <2>3. e.partial[Len(b.partial) + 1] = v % half
    BY <1>15, <2>2, PrefixLast
  <2> QED BY <2>1, <2>3
<1>8. t = "miss" => e.miss[Len(b.miss) + 1] = v
  <2> SUFFICES ASSUME t = "miss" PROVE e.miss[Len(b.miss) + 1] = v
    OBVIOUS
  <2>1. Len(c.miss) = Len(b.miss) + 1 /\ c.miss[Len(b.miss) + 1] = v /\ Len(b.miss) \in Nat
    BY <1>1, <1>3, <1>4
  <2> QED BY <1>15, <2>1, PrefixLast
<1>9. d.dict = b.dict /\ d.words = us /\ d.exact = Len(b.exact) /\ d.partial = Len(b.partial) /\ d.miss = Len(b.miss)
  BY DEF Follows
<1>10. u = v
  BY <1>1, <1>2, <1>6, <1>7, <1>8, <1>9 DEF Tags
<1>11. /\ Len(c.exact) = Len(b.exact) + (IF t = "exact" THEN 1 ELSE 0)
       /\ Len(c.partial) = Len(b.partial) + (IF t = "partial" THEN 1 ELSE 0)
       /\ Len(c.miss) = Len(b.miss) + (IF t = "miss" THEN 1 ELSE 0)
  <2>1. Len(c.exact) = Len(b.exact) + (IF t = "exact" THEN 1 ELSE 0)
    <3>1. CASE t = "exact"
      <4>1. c.exact = Append(b.exact, h)
        BY <1>3, <3>1
      <4>2. Len(c.exact) = Len(b.exact) + 1
        BY <1>1, <1>4, <4>1
      <4> QED BY <3>1, <4>2
    <3>2. CASE t # "exact"
      <4>1. Len(b.exact) \in Nat
        BY <1>4
      <4> QED BY <1>3, <3>2, <4>1
    <3> QED BY <3>1, <3>2
  <2>2. Len(c.partial) = Len(b.partial) + (IF t = "partial" THEN 1 ELSE 0)
    <3>1. v % half \in Nat
      BY <1>1, DivMod
    <3>2. CASE t = "partial"
      <4>1. c.partial = Append(b.partial, v % half)
        BY <1>3, <3>2
      <4>2. Len(c.partial) = Len(b.partial) + 1
        BY <1>4, <3>1, <4>1
      <4> QED BY <3>2, <4>2
    <3>3. CASE t # "partial"
      <4>1. Len(b.partial) \in Nat
        BY <1>4
      <4> QED BY <1>3, <3>3, <4>1
    <3> QED BY <3>2, <3>3
  <2>3. Len(c.miss) = Len(b.miss) + (IF t = "miss" THEN 1 ELSE 0)
    <3>1. CASE t = "miss"
      <4>1. c.miss = Append(b.miss, v)
        BY <1>3, <3>1
      <4>2. Len(c.miss) = Len(b.miss) + 1
        BY <1>4, <4>1
      <4> QED BY <3>1, <4>2
    <3>2. CASE t # "miss"
      <4>1. Len(b.miss) \in Nat
        BY <1>4
      <4> QED BY <1>3, <3>2, <4>1
    <3> QED BY <3>1, <3>2
  <2> QED BY <2>1, <2>2, <2>3
<1>12. DecoderStep(wb, hd, ds, e, d, t)
         = [dict    |-> IF t \in {"partial", "miss"} THEN W(wb, hd, ds)!Learn(d.dict, u) ELSE d.dict,
            words   |-> Append(d.words, u),
            exact   |-> d.exact + (IF t = "exact" THEN 1 ELSE 0),
            partial |-> d.partial + (IF t = "partial" THEN 1 ELSE 0),
            miss    |-> d.miss + (IF t = "miss" THEN 1 ELSE 0)]
  BY DEF DecoderStep
<1>13. Follows(c, Append(us, v))
         = [dict |-> c.dict, words |-> Append(us, v), exact |-> Len(c.exact),
            partial |-> Len(c.partial), miss |-> Len(c.miss)]
  BY DEF Follows
<1> HIDE DEF u, d
<1>14. DecoderStep(wb, hd, ds, e, d, t) = Follows(c, Append(us, v))
  BY <1>3, <1>9, <1>10, <1>11, <1>12, <1>13
<1> QED BY <1>5, <1>14 DEF c, d, t

\* What the compressor writes: its areas, without the dictionary.
FormOf(e) == [tags |-> e.tags, exact |-> e.exact, partial |-> e.partial, miss |-> e.miss]

\* What the compressor wrote is read back as the words it was given.
LEMMA WkdmWords ==
  ASSUME NEW wb \in Nat \ {0}, NEW hd \in Nat \ {0}, NEW ds \in Nat \ {0},
         NEW n \in Nat, NEW ws \in [1..n -> Nat], NEW fm,
         fm = FormOf(W(wb, hd, ds)!Encode(ws))
  PROVE  /\ W(wb, hd, ds)!Encode(ws) \in EncoderStates(ds)
         /\ W(wb, hd, ds)!Decode(fm) = ws
<1>1. PICK s \in [0..n -> EncoderStates(ds)] : Encoder(s, wb, hd, ds, ws, n)
  BY EncoderRecursion
<1> DEFINE e == s[n]
           ts == [k \in 0..n |-> s[k].tags]
           xs == [k \in 0..n |-> s[k].exact]
           ps == [k \in 0..n |-> s[k].partial]
           ms == [k \in 0..n |-> s[k].miss]
           fs == [k \in 0..n |-> Follows(s[k], SubSeq(ws, 1, k))]
<1>2. /\ s[0] = EncoderStart(ds)
      /\ \A k \in 1..n : s[k] = EncoderStep(wb, hd, ds, s[k - 1], ws[k])
      /\ W(wb, hd, ds)!Encode(ws) = e /\ e \in EncoderStates(ds)
  BY <1>1 DEF Encoder
<1>3. \A k \in 1..n : s[k - 1] \in EncoderStates(ds) /\ ws[k] \in Nat
  OBVIOUS
<1>4. /\ ts \in [0..n -> Seq(Tags)] /\ xs \in [0..n -> Seq(0..(ds - 1))]
      /\ ps \in [0..n -> Seq(Nat)] /\ ms \in [0..n -> Seq(Nat)]
  BY DEF EncoderStates
<1>5. ASSUME NEW k \in 1..n
      PROVE  LET v == ws[k]
                 b == s[k - 1]
                 t == W(wb, hd, ds)!Tag(v, b.dict)
             IN  /\ t \in Tags
                 /\ s[k].tags = Append(b.tags, t)
                 /\ s[k].exact = b.exact \/ \E x \in 0..(ds - 1) : s[k].exact = Append(b.exact, x)
                 /\ s[k].partial = b.partial \/ \E x \in Nat : s[k].partial = Append(b.partial, x)
                 /\ s[k].miss = b.miss \/ \E x \in Nat : s[k].miss = Append(b.miss, x)
  <2> DEFINE v == ws[k]
             b == s[k - 1]
             t == W(wb, hd, ds)!Tag(v, b.dict)
             h == W(wb, hd, ds)!Hash(v)
             half == W(wb, hd, ds)!Half
  <2>1. b \in EncoderStates(ds) /\ v \in Nat /\ s[k] = EncoderStep(wb, hd, ds, b, v)
    BY <1>2, <1>3
  <2> HIDE DEF b, v
  <2>2. h \in 0..(ds - 1) /\ t \in Tags /\ half \in Nat \ {0}
    BY <2>1, EncoderTypes
  <2>3. v % half \in Nat
    <3> HIDE DEF half
    <3> QED BY <2>1, <2>2, DivMod
  <2>4. /\ s[k].tags = Append(b.tags, t)
        /\ s[k].exact = IF t = "exact" THEN Append(b.exact, h) ELSE b.exact
        /\ s[k].partial = IF t = "partial" THEN Append(b.partial, v % half) ELSE b.partial
        /\ s[k].miss = IF t = "miss" THEN Append(b.miss, v) ELSE b.miss
    BY <2>1 DEF EncoderStep
  <2> HIDE DEF t, h, half
  <2>5. /\ t \in Tags
        /\ s[k].tags = Append(b.tags, t)
        /\ s[k].exact = b.exact \/ \E x \in 0..(ds - 1) : s[k].exact = Append(b.exact, x)
        /\ s[k].partial = b.partial \/ \E x \in Nat : s[k].partial = Append(b.partial, x)
        /\ s[k].miss = b.miss \/ \E x \in Nat : s[k].miss = Append(b.miss, x)
    BY <2>1, <2>2, <2>3, <2>4
  <2> QED BY <2>5 DEF t, b, v
<1>6. Grows(ts, n, Tags) /\ Grows(xs, n, 0..(ds - 1)) /\ Grows(ps, n, Nat) /\ Grows(ms, n, Nat)
  <2>1. ASSUME NEW k \in 1..n
        PROVE  /\ ts[k] = s[k].tags /\ ts[k - 1] = s[k - 1].tags
               /\ xs[k] = s[k].exact /\ xs[k - 1] = s[k - 1].exact
               /\ ps[k] = s[k].partial /\ ps[k - 1] = s[k - 1].partial
               /\ ms[k] = s[k].miss /\ ms[k - 1] = s[k - 1].miss
    OBVIOUS
  <2> HIDE DEF ts, xs, ps, ms
  <2>2. Grows(ts, n, Tags)
    BY <1>5, <2>1 DEF Grows
  <2>3. Grows(xs, n, 0..(ds - 1))
    BY <1>5, <2>1 DEF Grows
  <2>4. Grows(ps, n, Nat) /\ Grows(ms, n, Nat)
    BY <1>5, <2>1 DEF Grows
  <2> QED BY <2>2, <2>3, <2>4
<1>7. ASSUME NEW k \in 0..n PROVE Extends(s[k], e)
  <2>0. /\ ts[k] = s[k].tags /\ ts[n] = e.tags /\ xs[k] = s[k].exact /\ xs[n] = e.exact
        /\ ps[k] = s[k].partial /\ ps[n] = e.partial /\ ms[k] = s[k].miss /\ ms[n] = e.miss
    OBVIOUS
  <2> HIDE DEF ts, xs, ps, ms
  <2>1. Prefix(ts[k], ts[n])
    BY <1>4, <1>6, Growing
  <2>2. Prefix(xs[k], xs[n])
    BY <1>4, <1>6, Growing
  <2>3. Prefix(ps[k], ps[n]) /\ Prefix(ms[k], ms[n])
    BY <1>4, <1>6, Growing
  <2> QED BY <2>0, <2>1, <2>2, <2>3 DEF Extends
<1>8. \A k \in 0..n : Len(s[k].tags) = k
  <2> DEFINE T == {k \in 0..n : Len(s[k].tags) = k}
  <2>1. 0 \in T
    BY <1>2 DEF EncoderStart
  <2>2. ASSUME NEW k \in 0..(n - 1), k \in T PROVE k + 1 \in T
    <3>1. k + 1 \in 1..n /\ k + 1 - 1 = k
      OBVIOUS
    <3>2. \E t \in Tags : s[k + 1].tags = Append(s[k].tags, t)
      <4> DEFINE t == W(wb, hd, ds)!Tag(ws[k + 1], s[k].dict)
      <4>1. t \in Tags /\ s[k + 1].tags = Append(s[k].tags, t)
        BY <1>5, <3>1
      <4> HIDE DEF t
      <4> QED BY <4>1
    <3>3. s[k].tags \in Seq(Tags)
      <4>1. s[k] \in EncoderStates(ds)
        OBVIOUS
      <4> QED BY <4>1 DEF EncoderStates
    <3> QED BY <2>2, <3>2, <3>3
  <2>3. \A k \in 0..n : k \in T
    <3> HIDE DEF T
    <3> QED BY <2>1, <2>2, BoundedInduction
  <2> QED BY <2>3
<1>9. /\ SubSeq(ws, 1, 0) = <<>> /\ SubSeq(ws, 1, n) = ws
      /\ \A k \in 1..n : /\ SubSeq(ws, 1, k - 1) \in Seq(Nat)
                         /\ SubSeq(ws, 1, k) = Append(SubSeq(ws, 1, k - 1), ws[k])
  <2>1. ws \in Seq(Nat) /\ Len(ws) = n
    BY FcnSeq
  <2>2. SubSeq(ws, 1, 0) = <<>> /\ SubSeq(ws, 1, n) = ws
    BY <2>1
  <2>3. ASSUME NEW k \in 1..n
        PROVE  /\ SubSeq(ws, 1, k - 1) \in Seq(Nat)
               /\ SubSeq(ws, 1, k) = Append(SubSeq(ws, 1, k - 1), ws[k])
    BY <2>1
  <2> QED BY <2>2, <2>3
<1>10. fm.tags = e.tags /\ fm.exact = e.exact /\ fm.partial = e.partial /\ fm.miss = e.miss
  BY <1>2 DEF FormOf
<1>11. ASSUME NEW k \in 1..n
       PROVE  fs[k] = DecoderStep(wb, hd, ds, fm, fs[k - 1], fm.tags[k])
  <2> DEFINE b == s[k - 1]
             us == SubSeq(ws, 1, k - 1)
  <2>1. b \in EncoderStates(ds) /\ ws[k] \in Nat /\ us \in Seq(Nat) /\ s[k] = EncoderStep(wb, hd, ds, b, ws[k])
    BY <1>2, <1>3, <1>9
  <2>2. Extends(s[k], e) /\ e \in EncoderStates(ds) /\ Len(b.tags) + 1 = k
    <3>1. k \in 0..n /\ k - 1 \in 0..n /\ k - 1 + 1 = k
      OBVIOUS
    <3> HIDE DEF e
    <3> QED BY <1>2, <1>7, <1>8, <3>1
  <2>3. fs[k] = Follows(s[k], Append(us, ws[k])) /\ fs[k - 1] = Follows(b, us)
    <3>1. k \in 0..n /\ k - 1 \in 0..n
      OBVIOUS
    <3>2. fs[k] = Follows(s[k], SubSeq(ws, 1, k)) /\ fs[k - 1] = Follows(s[k - 1], SubSeq(ws, 1, k - 1))
      BY <3>1
    <3> HIDE DEF fs
    <3> QED BY <1>9, <3>2
  <2> HIDE DEF b, us, e, fs
  <2>4. /\ e.tags[Len(b.tags) + 1] = W(wb, hd, ds)!Tag(ws[k], b.dict)
        /\ DecoderStep(wb, hd, ds, e, Follows(b, us), W(wb, hd, ds)!Tag(ws[k], b.dict))
             = Follows(s[k], Append(us, ws[k]))
    BY <2>1, <2>2, DecoderFollows
  <2>5. fs[k] = DecoderStep(wb, hd, ds, e, fs[k - 1], e.tags[k])
    BY <2>2, <2>3, <2>4
  <2> QED BY <1>10, <2>5 DEF DecoderStep
<1>12. fs[0] = DecoderStart(ds)
  BY <1>2, <1>9 DEF Follows, EncoderStart, DecoderStart
<1> DEFINE Rec(p) == p = [k \in 0..n |-> IF k = 0 THEN DecoderStart(ds)
                                         ELSE DecoderStep(wb, hd, ds, fm, p[k - 1], fm.tags[k])]
           c == CHOOSE p : Rec(p)
<1>13. Rec(fs)
  <2>1. \A k \in 0..n : fs[k] = IF k = 0 THEN DecoderStart(ds) ELSE DecoderStep(wb, hd, ds, fm, fs[k - 1], fm.tags[k])
    <3> HIDE DEF fs
    <3> QED BY <1>11, <1>12
  <2>2. fs = [k \in 0..n |-> fs[k]]
    OBVIOUS
  <2> HIDE DEF fs
  <2> QED BY <2>1, <2>2
<1>14. Rec(c)
  <2> HIDE DEF Rec
  <2> QED BY <1>13
<1>15. W(wb, hd, ds)!Decode(fm) = c[n].words
  <2>1. Len(fm.tags) = n
    BY <1>8, <1>10
  <2> HIDE DEF e
  <2> QED BY <2>1 DEF W!Decode, W!NoDict, DecoderStart, DecoderStep
<1> HIDE DEF c, fs, e
<1>16. c[0] = DecoderStart(ds) /\ \A k \in 1..n : c[k] = DecoderStep(wb, hd, ds, fm, c[k - 1], fm.tags[k])
  <2>1. c = [k \in 0..n |-> IF k = 0 THEN DecoderStart(ds)
                            ELSE DecoderStep(wb, hd, ds, fm, c[k - 1], fm.tags[k])]
    BY <1>14
  <2>2. c[0] = DecoderStart(ds)
    BY <2>1
  <2>3. ASSUME NEW k \in 1..n
        PROVE  c[k] = DecoderStep(wb, hd, ds, fm, c[k - 1], fm.tags[k])
    <3>1. k \in 0..n /\ k # 0
      OBVIOUS
    <3> QED BY <2>1, <3>1
  <2> QED BY <2>2, <2>3
<1>17. c[n] = fs[n]
  <2>1. Alike(c, fs, n)
    BY <1>11, <1>12, <1>16 DEF Alike
  <2> QED BY <2>1, Agree
<1>18. fs[n].words = ws
  BY <1>9 DEF fs, Follows
<1> QED BY <1>2, <1>15, <1>17, <1>18

\* A page of n words.
LEMMA WkdmRoundTrip ==
  ASSUME NEW wb \in Nat \ {0}, NEW hd \in Nat \ {0}, NEW ds \in Nat \ {0},
         PageBytes % wb = 0, NEW g \in ByteSeq(PageBytes), NEW cap
  PROVE  LET r == W(wb, hd, ds)!Compress(g, cap)
         IN  r.size \in 0..(PageBytes - 1) /\ W(wb, hd, ds)!Decompress(r.form) = g
<1> DEFINE ws == BW(wb)!Words(g)
           r  == W(wb, hd, ds)!Compress(g, cap)
           e  == W(wb, hd, ds)!Encode(ws)
           fm == FormOf(e)
           sz == WkdmHeader + (2 * Len(e.tags) + 7) \div 8 + Len(e.exact)
                   + Len(e.partial) * (wb \div 2) + Len(e.miss) * wb
<1>0. PICK n \in Nat : PageBytes = n * wb
  BY SizeFacts, Parts
<1>1. g \in ByteSeq(n * wb)
  BY <1>0
<1>2. ws \in [1..n -> Nat]
  <2>1. ws \in WordSeq(wb, n)
    BY <1>1, WordsType
  <2>2. 0..(Power(Byte, wb) - 1) \subseteq Nat
    BY ByteFacts, PowerFacts
  <2> QED BY <2>1, <2>2 DEF WordSeq
<1>3. Len(g) = PageBytes
  BY SizeFacts, FcnSeq DEF ByteSeq
<1>4. /\ r.form = fm
      /\ r.size = (IF Len(g) % wb # 0 \/ sz >= Len(g) \/ sz > cap THEN 0 ELSE sz)
  BY WNumerals DEF W!Compress, FormOf
<1>5. BW(wb)!Bytes(ws) = g
  BY <1>1, BytesOfWords
<1> HIDE DEF ws
<1>6. e \in EncoderStates(ds) /\ W(wb, hd, ds)!Decode(fm) = ws
  BY <1>2, WkdmWords
<1> HIDE DEF e
<1>7. W(wb, hd, ds)!Decompress(fm) = g
  BY <1>5, <1>6, WNumerals DEF W!Decompress
<1>8. sz \in Nat
  <2>1. Len(e.tags) \in Nat /\ Len(e.exact) \in Nat /\ Len(e.partial) \in Nat /\ Len(e.miss) \in Nat
    BY <1>6 DEF EncoderStates
  <2>2. wb \div 2 \in Nat /\ (2 * Len(e.tags) + 7) \div 8 \in Nat
    <3>1. 2 * Len(e.tags) + 7 \in Nat
      BY <2>1
    <3>2. 8 \in Nat \ {0} /\ 2 \in Nat \ {0}
      OBVIOUS
    <3>3. (2 * Len(e.tags) + 7) \div 8 \in Nat
      BY <3>1, <3>2, DivMod
    <3>4. wb \div 2 \in Nat
      BY <3>2, DivMod
    <3> QED BY <3>3, <3>4
  <2>3. Len(e.partial) * (wb \div 2) \in Nat /\ Len(e.miss) * wb \in Nat
    BY <2>1, <2>2, Products
  <2>4. WkdmHeader \in Nat
    BY SizeFacts
  <2>5. \A a, b, c, x, y \in Nat : a + b + c + x + y \in Nat
    OBVIOUS
  <2> HIDE DEF e
  <2> QED BY <2>1, <2>2, <2>3, <2>4, <2>5
<1> HIDE DEF sz, fm
<1>9. r.size \in 0..(PageBytes - 1)
  <2>1. r.size \in {0, sz} /\ ~ (r.size = sz /\ sz >= PageBytes /\ sz # 0)
    BY <1>3, <1>4
  <2> QED BY <1>8, <2>1, SizeFacts
<1> QED BY <1>4, <1>7, <1>9

\* The two of them on a page.
LEMMA WkdmPages ==
  ASSUME NEW g \in ByteSeq(PageBytes), NEW cap
  PROVE  /\ W(Word \div 2, Hash32, Dict32)!Compress(g, cap).size \in 0..(PageBytes - 1)
         /\ W(Word \div 2, Hash32, Dict32)!Decompress(W(Word \div 2, Hash32, Dict32)!Compress(g, cap).form) = g
         /\ W(Word, Hash64, Dict64)!Compress(g, cap).size \in 0..(PageBytes - 1)
         /\ W(Word, Hash64, Dict64)!Decompress(W(Word, Hash64, Dict64)!Compress(g, cap).form) = g
<1>1. PICK m \in Nat : PageBytes = (m * LineWords) * Word /\ m * LineWords \in Nat
  BY PageLines
<1>2. PICK n \in Nat : n * Word = PageBytes
  BY <1>1
<1>3. PICK h \in Nat \ {0} : Word = h * 2
  BY SizeFacts
<1>4. Word \div 2 = h
  BY <1>3, PieceCount
<1>5. PageBytes % h = 0 /\ PageBytes % Word = 0
  <2>1. \A x, y \in Nat : x * (y * 2) = (x * 2) * y
    BY SMT
  <2>2. PageBytes = (n * 2) * h /\ n * 2 \in Nat
    BY <1>2, <1>3, <2>1
  <2>3. PageBytes % h = 0
    <3> DEFINE k == n * 2
    <3>1. k \in Nat /\ PageBytes = k * h
      BY <2>2
    <3> HIDE DEF k
    <3> QED BY <3>1, PieceCount
  <2>4. PageBytes % Word = 0
    BY <1>2, SizeFacts, PieceCount
  <2> QED BY <2>3, <2>4
<1>6. Hash32 \in Nat \ {0} /\ Dict32 \in Nat \ {0} /\ Hash64 \in Nat \ {0} /\ Dict64 \in Nat \ {0}
  BY SizesAssumption
<1>7. /\ W(h, Hash32, Dict32)!Compress(g, cap).size \in 0..(PageBytes - 1)
      /\ W(h, Hash32, Dict32)!Decompress(W(h, Hash32, Dict32)!Compress(g, cap).form) = g
  BY <1>5, <1>6, WkdmRoundTrip
<1>8. /\ W(Word, Hash64, Dict64)!Compress(g, cap).size \in 0..(PageBytes - 1)
      /\ W(Word, Hash64, Dict64)!Decompress(W(Word, Hash64, Dict64)!Compress(g, cap).form) = g
  BY <1>5, <1>6, SizeFacts, WkdmRoundTrip
<1> QED BY <1>4, <1>7, <1>8

-----------------------------------------------------------------------------
(* Powers grow *)

\* A higher power is no smaller.
LEMMA PowersGrow ==
  ASSUME NEW base \in Nat \ {0}, NEW n \in Nat, NEW m \in 0..n
  PROVE  Power(base, m) <= Power(base, n)
<1> DEFINE T == {j \in Nat : Power(base, m) <= Power(base, m + j)}
<1>1. 0 \in T
  BY PowerFacts
<1>2. ASSUME NEW j \in Nat, j \in T PROVE j + 1 \in T
  <2> DEFINE P == Power(base, m + j)
  <2>1. m + j \in Nat /\ m + (j + 1) = (m + j) + 1 /\ m \in Nat
    OBVIOUS
  <2>2. P \in Nat \ {0} /\ Power(base, m + (j + 1)) = base * P /\ Power(base, m) \in Nat
    BY <2>1, PowerFacts
  <2>3. Power(base, m) <= P
    BY <1>2
  <2> HIDE DEF P
  <2>4. 1 * P <= base * P /\ base * P \in Nat
    BY <2>2, Products
  <2>5. Power(base, m) <= Power(base, m + (j + 1))
    BY <2>2, <2>3, <2>4
  <2> QED BY <2>5
<1>3. \A j \in Nat : j \in T
  <2> HIDE DEF T
  <2> QED BY <1>1, <1>2, Induction
<1>4. n - m \in Nat /\ m + (n - m) = n
  OBVIOUS
<1>5. n - m \in T
  BY <1>3, <1>4
<1> QED BY <1>4, <1>5

\* The powers of two are positive.
LEMMA PowerOfTwo == \A n \in Nat : Power(2, n) \in Nat \ {0}
<1>1. 2 \in Nat \ {0}
  OBVIOUS
<1> QED BY <1>1, PowerFacts

\* Two to the power of n is above n.
LEMMA PowerAbove ==
  ASSUME NEW n \in Nat
  PROVE  n < Power(2, n)
<1> DEFINE T == {j \in Nat : j < Power(2, j)}
<1>1. 0 \in T
  BY PowerFacts
<1>2. ASSUME NEW j \in Nat, j \in T PROVE j + 1 \in T
  <2>1. Power(2, j) \in Nat /\ Power(2, j + 1) = 2 * Power(2, j)
    BY PowerFacts
  <2> QED BY <1>2, <2>1
<1>3. \A j \in Nat : j \in T
  <2> HIDE DEF T
  <2> QED BY <1>1, <1>2, Induction
<1> QED BY <1>3

\* The numerals of BlockClass are those of Numerals.
LEMMA CNumerals ==
  /\ \A b, n : C!Power(b, n) = Power(b, n)
  /\ \A b, x : C!Number(b, x) = Number(b, x)
  /\ \A n, b, i : C!Digit(n, b, i) = Digit(n, b, i)
  /\ \A x : C!Total(x) = Total(x)
  /\ \A S : C!Max(S) = Max(S) /\ C!Min(S) = Min(S)
  /\ \A S : C!Cardinality(S) = Cardinality(S)
<1>1. \A b, n : C!Power(b, n) = Power(b, n)
  BY DEF C!Power, Power
<1>2. \A b, x : C!Number(b, x) = Number(b, x)
  BY DEF C!Number, Number
<1>3. \A n, b, i : C!Digit(n, b, i) = Digit(n, b, i)
  BY <1>1 DEF C!Digit, Digit
<1>4. \A x : C!Total(x) = Total(x)
  BY <1>2 DEF C!Total, Total
<1>5. \A S : C!Max(S) = Max(S) /\ C!Min(S) = Min(S)
  BY DEF C!Max, Max, C!Min, Min
<1>6. \A S : C!Cardinality(S) = Cardinality(S)
  BY DEF C!Cardinality, Cardinality
<1> QED BY <1>1, <1>2, <1>3, <1>4, <1>5, <1>6

\* Bits(r) is the least number of bits that holds r (bits_for_range and
\* bits_needed).
LEMMA BitsFacts ==
  ASSUME NEW r \in Nat
  PROVE  /\ C!Bits(r) \in 0..r /\ r < Power(2, C!Bits(r))
         /\ \A m \in 0..(C!Bits(r) - 1) : Power(2, m) <= r
<1> DEFINE S == {n \in Nat : r < Power(2, n)}
           Good(n) == r < C!Power(2, n) /\ \A m \in 0..(n - 1) : r >= C!Power(2, m)
<1>1. r \in S
  BY PowerAbove
<1>2. PICK n \in S : \A m \in S : n <= m
  <2> HIDE DEF S
  <2>1. S \subseteq Nat
    BY DEF S
  <2> QED BY <1>1, <2>1, Smallest
<1>3. n \in 0..r
  BY <1>1, <1>2
<1>4. \A m \in 0..(n - 1) : r >= Power(2, m)
  <2> SUFFICES ASSUME NEW m \in 0..(n - 1) PROVE r >= Power(2, m)
    OBVIOUS
  <2>1. m \in Nat /\ ~ (n <= m)
    BY <1>3
  <2>2. m \notin S
    BY <1>2, <2>1
  <2>3. Power(2, m) \in Nat
    BY <2>1, PowerOfTwo
  <2> QED BY <2>1, <2>2, <2>3
<1>5. Good(n)
  BY <1>2, <1>4, CNumerals
<1>6. C!Bits(r) \in 0..r /\ Good(C!Bits(r))
  <2>1. \E k \in 0..r : Good(k)
    <3> HIDE DEF Good
    <3> QED BY <1>3, <1>5
  <2>2. C!Bits(r) = CHOOSE k \in 0..r : Good(k)
    BY DEF C!Bits
  <2> HIDE DEF Good
  <2> QED BY <2>1, <2>2
<1>7. \A m \in 0..(C!Bits(r) - 1) : Power(2, m) <= r
  <2> SUFFICES ASSUME NEW m \in 0..(C!Bits(r) - 1) PROVE Power(2, m) <= r
    OBVIOUS
  <2>1. r >= Power(2, m)
    BY <1>6, CNumerals
  <2>2. m \in Nat
    BY <1>6
  <2>3. Power(2, m) \in Nat
    BY <2>2, PowerFacts
  <2> QED BY <2>1, <2>3
<1> QED BY <1>6, <1>7, CNumerals

-----------------------------------------------------------------------------
(* Block codes: one block *)

\* The bytes of a block: their set, the least of them, and the differences to
\* it, none of which is more than the spread.
LEMMA BlockFacts ==
  ASSUME NEW len \in Nat \ {0}, NEW b \in ByteSeq(len)
  PROVE  /\ Len(b) = len
         /\ C!NonZero(b) = {i \in 1..len : b[i] # 0}
         /\ C!Values(b) = {b[i] : i \in 1..len}
         /\ IsFiniteSet(C!NonZero(b)) /\ Cardinality(C!NonZero(b)) \in Nat
         /\ IsFiniteSet(C!Values(b)) /\ C!Values(b) \subseteq 0..(Byte - 1)
         /\ C!Min(C!Values(b)) \in 0..(Byte - 1)
         /\ C!Spread(b) \in 0..(Byte - 1)
         /\ \A i \in 1..len : /\ b[i] \in 0..(Byte - 1)
                              /\ b[i] - C!Min(C!Values(b)) \in 0..C!Spread(b)
<1> DEFINE V == C!Values(b)
           N == C!NonZero(b)
<1>1. Len(b) = len
  BY FcnSeq DEF ByteSeq
<1>2. N = {i \in 1..len : b[i] # 0} /\ V = {b[i] : i \in 1..len}
  BY <1>1 DEF C!NonZero, C!Values
<1>3. IsFiniteSet(N) /\ Cardinality(N) \in Nat
  <2>1. N \in SUBSET (1..len)
    BY <1>2
  <2>2. IsFiniteSet(1..len)
    BY FS_Interval
  <2> HIDE DEF N
  <2>3. IsFiniteSet(N)
    BY <2>1, <2>2, FS_Subset
  <2> QED BY <2>3, FS_CardinalityType
<1>4. \A i \in 1..len : b[i] \in 0..(Byte - 1)
  BY DEF ByteSeq
<1>5. V \subseteq 0..(Byte - 1) /\ V # {} /\ b[1] \in V
  BY <1>2, <1>4
<1>6. IsFiniteSet(V)
  <2>1. IsFiniteSet(0..(Byte - 1))
    BY ByteFacts, FS_Interval
  <2>2. V \in SUBSET (0..(Byte - 1))
    BY <1>5
  <2> HIDE DEF V
  <2> QED BY <2>1, <2>2, FS_Subset
<1>7. /\ C!Max(V) \in V /\ \A x \in V : x <= C!Max(V)
      /\ C!Min(V) \in V /\ \A x \in V : C!Min(V) <= x
  <2>1. V \subseteq Nat /\ \A x \in V : x <= Byte
    BY <1>5, ByteFacts
  <2> HIDE DEF V
  <2> QED BY <1>5, <2>1, ByteFacts, CNumerals, MaxMin
<1>8. C!Spread(b) = C!Max(V) - C!Min(V)
  BY DEF C!Spread
<1>9. \A i \in 1..len : b[i] \in V
  BY <1>2
<1> HIDE DEF V, N
<1>10. C!Min(V) \in 0..(Byte - 1) /\ C!Spread(b) \in 0..(Byte - 1)
  <2>1. C!Min(V) \in 0..(Byte - 1) /\ C!Max(V) \in 0..(Byte - 1)
    BY <1>5, <1>7
  <2>2. C!Min(V) <= C!Max(V)
    BY <1>7
  <2> QED BY <1>8, <2>1, <2>2, ByteFacts
<1>11. ASSUME NEW i \in 1..len PROVE b[i] - C!Min(V) \in 0..C!Spread(b)
  <2>1. b[i] \in Nat /\ C!Min(V) \in Nat /\ C!Max(V) \in Nat
    <3>1. b[i] \in 0..(Byte - 1) /\ C!Min(V) \in 0..(Byte - 1) /\ C!Max(V) \in 0..(Byte - 1)
      BY <1>4, <1>5, <1>7
    <3> QED BY <3>1, ByteFacts
  <2>2. C!Min(V) <= b[i] /\ b[i] <= C!Max(V)
    BY <1>7, <1>9
  <2> QED BY <1>8, <2>1, <2>2
<1> QED BY <1>1, <1>2, <1>3, <1>4, <1>5, <1>6, <1>10, <1>11 DEF V, N

\* One byte of Kept.
KeepByte(s, v) == IF v = 0 THEN s ELSE Append(s, v)

\* The kept bytes of a block stand in the order of their places.
LEMMA KeptFacts ==
  ASSUME NEW len \in Nat \ {0}, NEW b \in ByteSeq(len)
  PROVE  \A i \in 1..len : b[i] # 0 =>
           C!Kept(b)[Cardinality({j \in C!NonZero(b) : j <= i})] = b[i]
<1> DEFINE Byt == 0..(Byte - 1)
           S == Seq(Byt)
           F == [k \in 1..len |-> [s \in S |-> KeepByte(s, b[k])]]
           Rec(p) == p = [k \in 0..len |-> IF k = 0 THEN <<>> ELSE KeepByte(p[k - 1], b[k])]
           c == CHOOSE p : Rec(p)
           N(k) == {j \in C!NonZero(b) : j <= k}
<1>1. b \in [1..len -> Byt] /\ \A k \in 1..len : b[k] \in Byt
  BY DEF ByteSeq
<1>2. F \in [1..len -> [S -> S]]
  <2>1. ASSUME NEW k \in 1..len, NEW s \in S PROVE KeepByte(s, b[k]) \in S
    <3>1. b[k] \in Byt
      BY <1>1
    <3> HIDE DEF Byt
    <3> QED BY <3>1 DEF KeepByte
  <2> HIDE DEF S
  <2> QED BY <2>1
<1>3. PICK f \in [0..len -> S] : Iterates(f, len, <<>>, F)
  <2>1. <<>> \in S
    OBVIOUS
  <2> HIDE DEF F, S
  <2> QED BY <1>2, <2>1, Iteration
<1>4. f[0] = <<>> /\ \A k \in 1..len : f[k] = KeepByte(f[k - 1], b[k])
  <2>1. f[0] = <<>>
    BY <1>3 DEF Iterates
  <2> SUFFICES ASSUME NEW k \in 1..len PROVE f[k] = KeepByte(f[k - 1], b[k])
    BY <2>1
  <2>2. f[k - 1] \in S
    OBVIOUS
  <2>3. f[k] = F[k][f[k - 1]]
    BY <1>3 DEF Iterates
  <2>4. F[k] = [s \in S |-> KeepByte(s, b[k])]
    OBVIOUS
  <2> HIDE DEF F, S
  <2> QED BY <2>2, <2>3, <2>4
<1>5. Rec(f)
  <2> HIDE DEF F, S
  <2> QED BY <1>4
<1>6. Rec(c)
  <2> HIDE DEF Rec
  <2> QED BY <1>5
<1>7. C!Kept(b) = c[len]
  <2>1. Len(b) = len
    BY BlockFacts
  <2> QED BY <2>1 DEF C!Kept, KeepByte
<1> HIDE DEF c, F
<1>8. c[0] = <<>> /\ \A k \in 1..len : c[k] = KeepByte(c[k - 1], b[k])
  BY <1>6
<1>9. c[len] = f[len]
  <2>1. Alike(c, f, len)
    <3> HIDE DEF S
    <3> QED BY <1>4, <1>8 DEF Alike
  <2> QED BY <2>1, Agree
<1>10. \A k \in 0..len : Prefix(f[k], f[len])
  <2>1. Grows(f, len, Byt)
    BY <1>1, <1>4 DEF Grows, KeepByte
  <2> HIDE DEF Byt
  <2> QED BY <2>1, Growing
<1>11. C!NonZero(b) = {i \in 1..len : b[i] # 0}
  BY BlockFacts
<1>12. \A k \in 0..len : IsFiniteSet(N(k)) /\ Len(f[k]) = Cardinality(N(k))
  <2> DEFINE T == {k \in 0..len : IsFiniteSet(N(k)) /\ Len(f[k]) = Cardinality(N(k))}
  <2>1. 0 \in T
    <3>1. N(0) = {}
      BY <1>11
    <3>2. Len(f[0]) = 0
      BY <1>4
    <3> HIDE DEF N
    <3>3. IsFiniteSet(N(0)) /\ Cardinality(N(0)) = 0
      BY <3>1, FS_EmptySet
    <3> QED BY <3>2, <3>3
  <2>2. ASSUME NEW k \in 0..(len - 1), k \in T PROVE k + 1 \in T
    <3>1. k + 1 \in 1..len /\ k + 1 - 1 = k /\ k + 1 \in 0..len
      OBVIOUS
    <3>2. f[k + 1] = KeepByte(f[k], b[k + 1])
      BY <1>4, <3>1
    <3>3. IsFiniteSet(N(k)) /\ Len(f[k]) = Cardinality(N(k))
      BY <2>2
    <3>4. CASE b[k + 1] = 0
      <4>1. N(k + 1) = N(k)
        BY <1>11, <3>4
      <4>2. f[k + 1] = f[k]
        BY <3>2, <3>4 DEF KeepByte
      <4> QED BY <3>1, <3>3, <4>1, <4>2
    <3>5. CASE b[k + 1] # 0
      <4>1. N(k + 1) = N(k) \cup {k + 1} /\ k + 1 \notin N(k)
        <5>1. \A j \in 1..len : j <= k + 1 <=> j <= k \/ j = k + 1
          OBVIOUS
        <5>2. k + 1 \in C!NonZero(b) /\ ~ (k + 1 <= k)
          BY <1>11, <3>1, <3>5
        <5>3. \A j : j \in C!NonZero(b) => j \in 1..len
          BY <1>11
        <5>4. \A j : j \in N(k + 1) <=> j \in N(k) \/ j = k + 1
          BY <5>1, <5>2, <5>3
        <5>5. k + 1 \notin N(k)
          BY <5>2
        <5> HIDE DEF N
        <5> QED BY <5>4, <5>5
      <4>2. f[k] \in Seq(Byt) /\ b[k + 1] \in Byt /\ f[k + 1] = Append(f[k], b[k + 1])
        BY <1>1, <3>1, <3>2, <3>5 DEF KeepByte
      <4>3. Len(f[k + 1]) = Len(f[k]) + 1
        <5> HIDE DEF Byt
        <5> QED BY <4>2
      <4> HIDE DEF N
      <4>4. IsFiniteSet(N(k + 1)) /\ Cardinality(N(k + 1)) = Cardinality(N(k)) + 1
        BY <3>3, <4>1, FS_AddElement
      <4> QED BY <3>1, <3>3, <4>3, <4>4
    <3> QED BY <3>4, <3>5
  <2>3. \A k \in 0..len : k \in T
    <3> HIDE DEF T
    <3> QED BY <2>1, <2>2, BoundedInduction
  <2> QED BY <2>3
<1>13. ASSUME NEW i \in 1..len, b[i] # 0
       PROVE  f[len][Cardinality(N(i))] = b[i]
  <2>1. i \in 0..len /\ i - 1 \in 0..len
    OBVIOUS
  <2>2. f[i - 1] \in Seq(Byt) /\ b[i] \in Byt /\ f[i] = Append(f[i - 1], b[i])
    BY <1>1, <1>4, <1>13, <2>1 DEF KeepByte
  <2> HIDE DEF N
  <2>3. /\ Len(f[i]) = Len(f[i - 1]) + 1 /\ f[i][Len(f[i - 1]) + 1] = b[i]
        /\ Len(f[i - 1]) \in Nat
    <3> HIDE DEF Byt
    <3> QED BY <2>2
  <2>4. Prefix(f[i], f[len]) /\ Len(f[i]) = Cardinality(N(i))
    BY <1>10, <1>12, <2>1
  <2>5. f[len][Len(f[i - 1]) + 1] = b[i]
    BY <2>3, <2>4, PrefixLast
  <2> QED BY <2>3, <2>4, <2>5
<1> QED BY <1>7, <1>9, <1>13

\* The field of a byte in a packed block.
LEMMA PackedFacts ==
  ASSUME NEW len \in Nat \ {0}, NEW b \in ByteSeq(len)
  PROVE  \A i \in 1..len :
           C!Digit(C!Packed(b), C!Power(2, C!Bits(C!Spread(b))), i) = b[i] - C!Min(C!Values(b))
<1> DEFINE base == Power(2, C!Bits(C!Spread(b)))
           low  == C!Min(C!Values(b))
           x    == [i \in 1..len |-> b[i] - low]
<1>1. C!Spread(b) \in Nat /\ Len(b) = len
  BY BlockFacts, ByteFacts
<1>2. C!Bits(C!Spread(b)) \in Nat /\ C!Spread(b) < base
  BY <1>1, BitsFacts
<1>3. base \in Nat \ {0}
  BY <1>2, PowerOfTwo
<1>4. \A i \in 1..len : b[i] - low \in 0..C!Spread(b)
  BY BlockFacts
<1>5. C!Packed(b) = Number(base, x)
  BY <1>1, CNumerals DEF C!Packed
<1> HIDE DEF base, low
<1>6. x \in [1..len -> 0..(base - 1)]
  BY <1>1, <1>2, <1>3, <1>4
<1>7. \A i \in 1..len : x[i] = b[i] - low
  OBVIOUS
<1> HIDE DEF x
<1>8. \A i \in 1..len : Digit(Number(base, x), base, i) = x[i]
  BY <1>3, <1>6, DigitsOfNumber
<1> QED BY <1>5, <1>7, <1>8, CNumerals DEF base, low

\* The types of blocks.
TypeNames == {"zero", "sparse", "uniform", "range", "dense"}

\* A block comes back from its type and its code.
LEMMA BlockBack ==
  ASSUME NEW len \in Nat \ {0}, NEW b \in ByteSeq(len)
  PROVE  /\ C!Classify(b) \in TypeNames
         /\ C!BlockSize(b) \in Nat
         /\ C!Decode(C!Classify(b), C!Encode(b), len) = b
<1> DEFINE t == C!Classify(b)
           e == C!Encode(b)
           o == C!Decode(t, e, len)
<1>1. t \in TypeNames
  BY DEF C!Classify, TypeNames
<1>2. b \in [1..len -> 0..(Byte - 1)] /\ Len(b) = len
  BY BlockFacts DEF ByteSeq
<1>3. C!BlockSize(b) \in Nat
  <2>1. \A k \in Nat : (k + 7) \div 8 \in Nat
    BY SMT
  <2>2. Cardinality(C!NonZero(b)) \in Nat
    BY BlockFacts
  <2>3. C!Bits(C!Spread(b)) \in Nat
    BY BlockFacts, BitsFacts, ByteFacts
  <2>4. len * C!Bits(C!Spread(b)) \in Nat
    BY <2>3, Products
  <2>5. (len + 7) \div 8 \in Nat /\ (len * C!Bits(C!Spread(b)) + 7) \div 8 \in Nat
    BY <2>1, <2>4
  <2> QED BY <1>2, <2>2, <2>5, CNumerals DEF C!BlockSize
<1>4. CASE t = "zero"
  <2>1. C!NonZero(b) = {}
    BY <1>4 DEF C!Classify
  <2>2. \A i \in 1..len : b[i] = 0
    BY <2>1, BlockFacts
  <2>3. o = [i \in 1..len |-> 0]
    BY <1>4 DEF C!Decode
  <2> QED BY <1>1, <1>2, <1>3, <2>2, <2>3
<1>5. CASE t = "uniform"
  <2>1. Cardinality(C!Values(b)) = 1
    BY <1>5, CNumerals DEF C!Classify
  <2>2. PICK x : C!Values(b) = {x}
    BY <2>1, BlockFacts, FS_Singleton
  <2>3. \A i \in 1..len : b[i] = x
    <3>1. C!Values(b) = {b[i] : i \in 1..len}
      BY BlockFacts
    <3>2. \A i \in 1..len : b[i] \in C!Values(b)
      BY <3>1
    <3> QED BY <2>2, <3>2
  <2>4. e = <<b[1]>>
    BY <1>5 DEF C!Encode
  <2>5. o = [i \in 1..len |-> b[1]]
    BY <1>5, <2>4 DEF C!Decode
  <2>6. \A i \in 1..len : b[i] = b[1]
    BY <2>3
  <2> QED BY <1>1, <1>2, <1>3, <2>5, <2>6
<1>6. CASE t = "sparse"
  <2>1. e = <<C!NonZero(b), C!Kept(b)>>
    BY <1>6 DEF C!Encode
  <2>2. e[1] = C!NonZero(b) /\ e[2] = C!Kept(b)
    BY <2>1
  <2> HIDE DEF e
  <2>3. o = [i \in 1..len |-> IF i \in C!NonZero(b)
                              THEN C!Kept(b)[Cardinality({j \in C!NonZero(b) : j <= i})] ELSE 0]
    BY <1>6, <2>2, CNumerals DEF C!Decode
  <2>4. \A i \in 1..len : i \in C!NonZero(b) <=> b[i] # 0
    BY BlockFacts
  <2>5. \A i \in 1..len : o[i] = b[i]
    BY <2>3, <2>4, KeptFacts
  <2>6. o = b
    <3>1. o = [i \in 1..len |-> o[i]]
      BY <2>3
    <3> HIDE DEF o
    <3> QED BY <1>2, <2>5, <3>1
  <2> QED BY <1>1, <1>3, <2>6 DEF e
<1>7. CASE t = "range"
  <2> DEFINE low == C!Min(C!Values(b))
  <2>1. e = <<low, C!Spread(b), C!Packed(b)>>
    BY <1>7 DEF C!Encode
  <2>2. e[1] = low /\ e[2] = C!Spread(b) /\ e[3] = C!Packed(b)
    BY <2>1
  <2> HIDE DEF e
  <2>3. o = [i \in 1..len |-> (low + C!Digit(C!Packed(b), C!Power(2, C!Bits(C!Spread(b))), i)) % Byte]
    BY <1>7, <2>2 DEF C!Decode
  <2>4. ASSUME NEW i \in 1..len PROVE o[i] = b[i]
    <3>1. o[i] = (low + (b[i] - low)) % Byte
      BY <2>3, PackedFacts
    <3>2. low \in 0..(Byte - 1) /\ b[i] \in 0..(Byte - 1)
      BY BlockFacts
    <3> HIDE DEF low, o
    <3>3. low + (b[i] - low) = b[i]
      BY <3>2, ByteFacts
    <3>4. b[i] \in Nat /\ b[i] = 0 * Byte + b[i]
      BY <3>2, ByteFacts
    <3>5. b[i] % Byte = b[i]
      BY <3>2, <3>4, ByteFacts, DivModUnique
    <3> QED BY <3>1, <3>3, <3>5
  <2>5. o = b
    <3>1. o = [i \in 1..len |-> o[i]]
      BY <2>3
    <3> HIDE DEF o
    <3> QED BY <1>2, <2>4, <3>1
  <2> QED BY <1>1, <1>3, <2>5 DEF e
<1>8. CASE t = "dense"
  <2>1. e = b
    BY <1>8 DEF C!Encode
  <2> HIDE DEF e
  <2>2. o = [i \in 1..len |-> b[i]]
    BY <1>8, <2>1 DEF C!Decode
  <2> QED BY <1>1, <1>2, <1>3, <2>2 DEF e
<1> QED BY <1>1, <1>4, <1>5, <1>6, <1>7, <1>8 DEF TypeNames

-----------------------------------------------------------------------------
(* Block codes: the blocks of a page *)

\* n blocks of len bytes.
BlockSeq(n, len) == [1..n -> ByteSeq(len)]

\* Types are told apart by their numbers.
LEMMA TypeNumbers ==
  ASSUME NEW t \in TypeNames
  PROVE  C!TypeIndex(t) \in 1..5 /\ C!Types[C!TypeIndex(t)] = t
<1>1. Len(C!Types) = 5
  BY DEF C!Types
<1>2. \E k \in 1..5 : C!Types[k] = t
  <2>1. /\ C!Types[1] = "zero" /\ C!Types[2] = "sparse" /\ C!Types[3] = "uniform"
        /\ C!Types[4] = "range" /\ C!Types[5] = "dense"
    BY DEF C!Types
  <2>2. 1 \in 1..5 /\ 2 \in 1..5 /\ 3 \in 1..5 /\ 4 \in 1..5 /\ 5 \in 1..5
    OBVIOUS
  <2> QED BY <2>1, <2>2 DEF TypeNames
<1>3. C!TypeIndex(t) = CHOOSE k \in 1..5 : C!Types[k] = t
  BY <1>1 DEF C!TypeIndex
<1> QED BY <1>2, <1>3

\* A packed type is unpacked as it was (pack_types and unpack_type of
\* block_class.c).
LEMMA TypesBack ==
  ASSUME NEW n \in Nat, NEW ts \in [1..n -> TypeNames]
  PROVE  \A k \in 1..n : C!Unpack(C!Pack(ts), k) = ts[k]
<1> DEFINE x == [i \in 1..n |-> C!TypeIndex(ts[i]) - 1]
<1>1. Len(ts) = n
  BY FcnSeq
<1>2. ASSUME NEW i \in 1..n PROVE C!TypeIndex(ts[i]) \in 1..5 /\ C!Types[C!TypeIndex(ts[i])] = ts[i]
  BY TypeNumbers
<1>3. C!Pack(ts) = Number(8, x)
  BY <1>1, CNumerals DEF C!Pack
<1>4. x \in [1..n -> 0..(8 - 1)]
  BY <1>2
<1>5. \A i \in 1..n : x[i] = C!TypeIndex(ts[i]) - 1
  OBVIOUS
<1> HIDE DEF x
<1>6. \A i \in 1..n : Digit(Number(8, x), 8, i) = x[i]
  <2>1. 8 \in Nat \ {0}
    OBVIOUS
  <2> QED BY <1>4, <2>1, DigitsOfNumber
<1>7. ASSUME NEW k \in 1..n PROVE C!Unpack(C!Pack(ts), k) = ts[k]
  <2>1. C!Unpack(C!Pack(ts), k) = C!Types[x[k] + 1]
    BY <1>3, <1>6, CNumerals DEF C!Unpack
  <2>2. x[k] + 1 = C!TypeIndex(ts[k])
    BY <1>2, <1>5
  <2> QED BY <1>2, <2>1, <2>2
<1> QED BY <1>7

\* Blocks that block_class.c wrote are read back as they were.
LEMMA BlocksBack ==
  ASSUME NEW len \in Nat \ {0}, NEW n \in Nat, NEW bs \in BlockSeq(n, len)
  PROVE  /\ C!Form(bs).n = n
         /\ C!Restored(C!Form(bs), len) = bs
         /\ C!Codes(bs) \in Nat
<1> DEFINE ts == [k \in 1..n |-> C!Classify(bs[k])]
           cs == [k \in 1..n |-> C!Encode(bs[k])]
           ss == [k \in 1..n |-> C!BlockSize(bs[k])]
<1>1. Len(bs) = n
  BY FcnSeq DEF BlockSeq
<1>2. ASSUME NEW k \in 1..n
      PROVE  /\ C!Classify(bs[k]) \in TypeNames /\ C!BlockSize(bs[k]) \in Nat
             /\ C!Decode(C!Classify(bs[k]), C!Encode(bs[k]), len) = bs[k]
  <2>1. bs[k] \in ByteSeq(len)
    BY DEF BlockSeq
  <2> QED BY <2>1, BlockBack
<1>3. ts \in [1..n -> TypeNames] /\ ss \in [1..n -> Nat]
  BY <1>2
<1>4. C!Form(bs) = [n |-> n, types |-> C!Pack(ts), codes |-> cs]
  BY <1>1 DEF C!Form
<1>5. C!Codes(bs) = Total(ss)
  BY <1>1, CNumerals DEF C!Codes
<1>6. \A k \in 1..n : ts[k] = C!Classify(bs[k]) /\ cs[k] = C!Encode(bs[k])
  OBVIOUS
<1> HIDE DEF ts, ss, cs
<1>7. C!Codes(bs) \in Nat
  BY <1>3, <1>5, TotalType
<1>8. C!Restored(C!Form(bs), len) = [k \in 1..n |-> C!Decode(C!Unpack(C!Pack(ts), k), cs[k], len)]
  BY <1>4 DEF C!Restored
<1>9. \A k \in 1..n : C!Decode(C!Unpack(C!Pack(ts), k), cs[k], len) = bs[k]
  BY <1>2, <1>3, <1>6, TypesBack
<1>10. C!Restored(C!Form(bs), len) = bs
  BY <1>8, <1>9 DEF BlockSeq
<1> QED BY <1>4, <1>7, <1>10

\* The blocks of a page make up the page.
LEMMA JoinBlocks ==
  ASSUME NEW g \in ByteSeq(PageBytes)
  PROVE  \E n \in Nat : /\ Len(C!Blocks(g)) = n /\ C!Blocks(g) \in BlockSeq(n, BlockBytes)
                        /\ n # 0 /\ PageBytes % BlockBytes = 0
                        /\ C!Join(C!Blocks(g)) = g
<1> DEFINE bs == C!Blocks(g)
           V == 0..(Byte - 1)
<1>1. PICK n \in Nat : PageBytes = n * BlockBytes
  BY SizesAssumption, SizeFacts, Parts
<1>2. PageBytes \div BlockBytes = n /\ PageBytes % BlockBytes = 0
  BY <1>1, SizeFacts, PieceCount
<1>3. n # 0
  BY <1>1, SizeFacts
<1>4. Len(g) = PageBytes /\ g \in [1..(n * BlockBytes) -> V]
  BY <1>1, SizeFacts, FcnSeq DEF ByteSeq
<1>5. bs = [k \in 1..n |-> SubSeq(g, (k - 1) * BlockBytes + 1, k * BlockBytes)]
  BY <1>2, <1>4 DEF C!Blocks
<1>6. [1..BlockBytes -> V] = ByteSeq(BlockBytes)
  BY DEF ByteSeq
<1> HIDE DEF V
<1>7. ASSUME NEW k \in 1..n
      PROVE  /\ bs[k] = [j \in 1..BlockBytes |-> g[(k - 1) * BlockBytes + j]]
             /\ bs[k] \in ByteSeq(BlockBytes)
  <2>1. bs[k] = SubSeq(g, (k - 1) * BlockBytes + 1, k * BlockBytes)
    BY <1>5
  <2>4. g \in [1..(n * BlockBytes) -> V]
    BY <1>4
  <2>5. BlockBytes \in Nat \ {0}
    BY SizeFacts
  <2>2. SubSeq(g, (k - 1) * BlockBytes + 1, k * BlockBytes) = [j \in 1..BlockBytes |-> g[(k - 1) * BlockBytes + j]]
    BY <2>4, <2>5, PieceSeq
  <2>3. [j \in 1..BlockBytes |-> g[(k - 1) * BlockBytes + j]] \in [1..BlockBytes -> V]
    BY <2>4, <2>5, PieceSeq
  <2> HIDE DEF bs
  <2> QED BY <1>6, <2>1, <2>2, <2>3
<1>8. bs \in BlockSeq(n, BlockBytes)
  <2>1. bs = [k \in 1..n |-> bs[k]]
    BY <1>5
  <2> HIDE DEF bs
  <2> QED BY <1>7, <2>1 DEF BlockSeq
<1>9. Len(bs) = n
  <2> HIDE DEF bs
  <2> QED BY <1>8, FcnSeq DEF BlockSeq
<1> HIDE DEF bs
<1>10. C!Join(bs) = [i \in 1..(n * BlockBytes) |->
                       bs[((i - 1) \div BlockBytes) + 1][((i - 1) % BlockBytes) + 1]]
  BY <1>9 DEF C!Join
<1>11. ASSUME NEW i \in 1..(n * BlockBytes)
       PROVE  bs[((i - 1) \div BlockBytes) + 1][((i - 1) % BlockBytes) + 1] = g[i]
  <2> DEFINE q == ((i - 1) \div BlockBytes) + 1
             r == ((i - 1) % BlockBytes) + 1
  <2>1. q \in 1..n /\ r \in 1..BlockBytes /\ i = (q - 1) * BlockBytes + r
    BY SizeFacts, PieceOf
  <2> HIDE DEF q, r
  <2>2. bs[q] = [j \in 1..BlockBytes |-> g[(q - 1) * BlockBytes + j]]
    BY <1>7, <2>1
  <2>3. bs[q][r] = g[i]
    BY <2>1, <2>2
  <2> QED BY <2>3 DEF q, r
<1>12. C!Join(bs) = g
  <2>1. C!Join(bs) = [i \in 1..(n * BlockBytes) |-> g[i]]
    BY <1>10, <1>11
  <2> QED BY <1>4, <2>1
<1> QED BY <1>2, <1>3, <1>8, <1>9, <1>12 DEF bs

\* What a compressor keeps is smaller than the page.
LEMMA SizeType ==
  ASSUME NEW g \in ByteSeq(PageBytes), NEW cap, NEW sz \in Nat
  PROVE  C!Size(g, cap, sz) \in 0..(PageBytes - 1)
<1>1. Len(g) = PageBytes
  BY SizeFacts, FcnSeq DEF ByteSeq
<1>2. C!Size(g, cap, sz) \in {0, sz} /\ ~ (C!Size(g, cap, sz) = sz /\ sz >= PageBytes /\ sz # 0)
  BY <1>1 DEF C!Size
<1> QED BY <1>2, SizeFacts

\* The packed types take a number of bytes.
LEMMA TypeBytesType ==
  ASSUME NEW n \in Nat
  PROVE  C!TypeBytes(n) \in Nat
<1>1. 3 * n + 7 \in Nat /\ 8 \in Nat \ {0}
  OBVIOUS
<1> QED BY <1>1, DivMod DEF C!TypeBytes

\* block_class on a page.
LEMMA BlockClassRoundTrip ==
  ASSUME NEW g \in ByteSeq(PageBytes), NEW cap
  PROVE  LET r == C!Compress(g, cap)
         IN  r.size \in 0..(PageBytes - 1) /\ C!Decompress(r.form) = g
<1> DEFINE bs == C!Blocks(g)
           sz == BlockHeader + C!TypeBytes(Len(bs)) + C!Codes(bs)
<1>1. PICK n \in Nat : /\ Len(bs) = n /\ bs \in BlockSeq(n, BlockBytes)
                       /\ C!Join(bs) = g
  BY JoinBlocks
<1>2. C!Compress(g, cap).size = C!Size(g, cap, sz) /\ C!Compress(g, cap).form = C!Form(bs)
  BY DEF C!Compress
<1> HIDE DEF bs
<1>3. C!Restored(C!Form(bs), BlockBytes) = bs /\ C!Codes(bs) \in Nat
  BY <1>1, SizeFacts, BlocksBack
<1>4. sz \in Nat
  <2>1. C!TypeBytes(n) \in Nat
    BY TypeBytesType
  <2> QED BY <1>1, <1>3, <2>1, SizeFacts
<1> HIDE DEF sz
<1>5. C!Size(g, cap, sz) \in 0..(PageBytes - 1)
  BY <1>4, SizeType
<1>6. C!Decompress(C!Form(bs)) = g
  BY <1>1, <1>3 DEF C!Decompress
<1> QED BY <1>2, <1>5, <1>6

\* The split in low and high bytes.
LEMMA SplitRoundTrip ==
  ASSUME NEW g \in ByteSeq(PageBytes), NEW cap
  PROVE  LET r == C!CompressSplit(g, cap)
         IN  r.size \in 0..(PageBytes - 1) /\ C!DecompressSplit(r.form) = g
<1> DEFINE bs == C!Blocks(g)
           lo == [k \in 1..Len(bs) |-> C!Low(bs[k])]
           hi == [k \in 1..Len(bs) |-> C!High(bs[k])]
           sz == BlockHeader + 2 * C!TypeBytes(2 * Len(lo)) + C!Codes(lo) + C!Codes(hi)
           fm == [lo |-> C!Form(lo), hi |-> C!Form(hi)]
<1>1. PICK n \in Nat : /\ Len(bs) = n /\ bs \in BlockSeq(n, BlockBytes)
                       /\ C!Join(bs) = g
  BY JoinBlocks
<1>2. PICK h \in Nat \ {0} : BlockBytes = h * 2 /\ BlockBytes \div 2 = h
  <2>1. PICK h \in Nat \ {0} : BlockBytes = h * 2
    BY SizeFacts
  <2>2. (h * 2) \div 2 = h
    BY <2>1, PieceCount
  <2> QED BY <2>1, <2>2
<1>3. C!CompressSplit(g, cap).size = C!Size(g, cap, sz) /\ C!CompressSplit(g, cap).form = fm
  BY DEF C!CompressSplit
<1> HIDE DEF bs
<1>4. ASSUME NEW k \in 1..n
      PROVE  /\ C!Low(bs[k]) = [i \in 1..h |-> bs[k][2 * i - 1]] /\ C!Low(bs[k]) \in ByteSeq(h)
             /\ C!High(bs[k]) = [i \in 1..h |-> bs[k][2 * i]] /\ C!High(bs[k]) \in ByteSeq(h)
  <2>1. bs[k] \in ByteSeq(BlockBytes)
    BY <1>1 DEF BlockSeq
  <2>2. Len(bs[k]) = BlockBytes
    BY <2>1, SizeFacts, BlockFacts
  <2>3. \A i \in 1..h : 2 * i - 1 \in 1..BlockBytes /\ 2 * i \in 1..BlockBytes
    BY <1>2
  <2>4. \A i \in 1..h : bs[k][2 * i - 1] \in 0..(Byte - 1) /\ bs[k][2 * i] \in 0..(Byte - 1)
    BY <2>1, <2>3 DEF ByteSeq
  <2>5. C!Low(bs[k]) = [i \in 1..h |-> bs[k][2 * i - 1]] /\ C!High(bs[k]) = [i \in 1..h |-> bs[k][2 * i]]
    BY <1>2, <2>2 DEF C!Low, C!High
  <2> QED BY <2>4, <2>5 DEF ByteSeq
<1>5. lo \in BlockSeq(n, h) /\ hi \in BlockSeq(n, h)
  BY <1>1, <1>4 DEF BlockSeq
<1>6. Len(lo) = n
  <2> HIDE DEF lo
  <2> QED BY <1>5, FcnSeq DEF BlockSeq
<1>7. \A k \in 1..n : lo[k] = C!Low(bs[k]) /\ hi[k] = C!High(bs[k])
  BY <1>1
<1> HIDE DEF lo, hi
<1>8. /\ C!Form(lo).n = n /\ C!Restored(C!Form(lo), h) = lo /\ C!Codes(lo) \in Nat
      /\ C!Form(hi).n = n /\ C!Restored(C!Form(hi), h) = hi /\ C!Codes(hi) \in Nat
  BY <1>2, <1>5, BlocksBack
<1>9. sz \in Nat
  <2>1. C!TypeBytes(2 * n) \in Nat
    <3>1. 2 * n \in Nat
      OBVIOUS
    <3> QED BY <3>1, TypeBytesType
  <2> QED BY <1>6, <1>8, <2>1, SizeFacts
<1>10. fm.lo = C!Form(lo) /\ fm.hi = C!Form(hi)
  OBVIOUS
<1> HIDE DEF sz, fm
<1>11. C!Size(g, cap, sz) \in 0..(PageBytes - 1)
  BY <1>9, SizeType
<1> DEFINE merged == [k \in 1..n |-> [i \in 1..BlockBytes |->
                       IF i % 2 = 1 THEN lo[k][(i + 1) \div 2] ELSE hi[k][i \div 2]]]
<1>12. C!DecompressSplit(fm) = C!Join(merged)
  BY <1>2, <1>8, <1>10 DEF C!DecompressSplit
<1>13. ASSUME NEW k \in 1..n, NEW i \in 1..BlockBytes
       PROVE  (IF i % 2 = 1 THEN lo[k][(i + 1) \div 2] ELSE hi[k][i \div 2]) = bs[k][i]
  <2>1. lo[k] = [j \in 1..h |-> bs[k][2 * j - 1]] /\ hi[k] = [j \in 1..h |-> bs[k][2 * j]]
    BY <1>4, <1>7
  <2>2. CASE i % 2 = 1
    <3>1. (i + 1) \div 2 \in 1..h /\ 2 * ((i + 1) \div 2) - 1 = i
      BY <1>2, <2>2
    <3> QED BY <2>1, <2>2, <3>1
  <2>3. CASE i % 2 # 1
    <3>1. i \div 2 \in 1..h /\ 2 * (i \div 2) = i
      BY <1>2, <2>3
    <3> QED BY <2>1, <2>3, <3>1
  <2> QED BY <2>2, <2>3
<1>14. merged = bs
  <2>1. ASSUME NEW k \in 1..n PROVE merged[k] = bs[k]
    <3>1. bs[k] \in [1..BlockBytes -> 0..(Byte - 1)]
      BY <1>1 DEF BlockSeq, ByteSeq
    <3>2. merged[k] = [i \in 1..BlockBytes |-> IF i % 2 = 1 THEN lo[k][(i + 1) \div 2] ELSE hi[k][i \div 2]]
      OBVIOUS
    <3>3. bs[k] = [i \in 1..BlockBytes |-> bs[k][i]]
      BY <3>1
    <3>4. [i \in 1..BlockBytes |-> IF i % 2 = 1 THEN lo[k][(i + 1) \div 2] ELSE hi[k][i \div 2]]
            = [i \in 1..BlockBytes |-> bs[k][i]]
      BY <1>13
    <3> HIDE DEF merged
    <3> QED BY <3>2, <3>3, <3>4
  <2>2. merged = [k \in 1..n |-> merged[k]]
    OBVIOUS
  <2> HIDE DEF merged
  <2> QED BY <1>1, <2>1, <2>2 DEF BlockSeq
<1> QED BY <1>1, <1>3, <1>11, <1>12, <1>14

\* XOR works on as many bits as a byte has.
LEMMA ByteBits ==
  /\ C!Bits(Byte - 1) \in Nat /\ Power(2, C!Bits(Byte - 1)) = Byte
<1> DEFINE m == C!Bits(Byte - 1)
<1>1. PICK n \in 1..Byte : Byte = Power(2, n)
  BY SizesAssumption
<1>2. Byte - 1 \in Nat
  BY ByteFacts
<1>3. m \in 0..(Byte - 1) /\ Byte - 1 < Power(2, m) /\ \A k \in 0..(m - 1) : Power(2, k) <= Byte - 1
  BY <1>2, BitsFacts
<1> HIDE DEF m
<1>4. m \in Nat /\ n \in Nat /\ Power(2, m) \in Nat
  BY <1>3, ByteFacts, PowerOfTwo
<1>5. ~ (n \in 0..(m - 1))
  BY <1>1, <1>3, ByteFacts
<1>6. m \in 0..n
  BY <1>4, <1>5
<1>7. Power(2, m) <= Power(2, n)
  <2>1. 2 \in Nat \ {0}
    OBVIOUS
  <2> QED BY <1>4, <1>6, <2>1, PowersGrow
<1>8. Power(2, m) = Byte
  BY <1>1, <1>3, <1>4, <1>7, ByteFacts
<1> QED BY <1>4, <1>8 DEF m

\* The XOR of two bytes is a byte, and undone by the same XOR.
LEMMA XorFacts ==
  ASSUME NEW x \in 0..(Byte - 1), NEW y \in 0..(Byte - 1)
  PROVE  C!Xor(x, y) \in 0..(Byte - 1) /\ C!Xor(C!Xor(x, y), y) = x
<1> DEFINE n == C!Bits(Byte - 1)
           D(u, v) == [k \in 1..n |-> IF Digit(u, 2, k) = Digit(v, 2, k) THEN 0 ELSE 1]
           z == C!Xor(x, y)
<1>1. n \in Nat /\ Power(2, n) = Byte /\ 2 \in Nat \ {0}
  BY ByteBits
<1>2. \A u, v : C!Xor(u, v) = Number(2, D(u, v))
  BY CNumerals DEF C!Xor
<1> HIDE DEF n
<1>3. D(x, y) \in [1..n -> 0..(2 - 1)]
  OBVIOUS
<1>4. z = Number(2, D(x, y))
  BY <1>2
<1>5. z \in 0..(Byte - 1) /\ \A k \in 1..n : Digit(z, 2, k) = D(x, y)[k]
  <2> HIDE DEF D, z
  <2> QED BY <1>1, <1>3, <1>4, DigitsOfNumber
<1>6. \A k \in 1..n : Digit(x, 2, k) \in {0, 1} /\ Digit(y, 2, k) \in {0, 1}
  <2> SUFFICES ASSUME NEW k \in 1..n PROVE Digit(x, 2, k) \in {0, 1} /\ Digit(y, 2, k) \in {0, 1}
    OBVIOUS
  <2>1. x \in Nat /\ y \in Nat /\ k \in Nat \ {0}
    BY ByteFacts
  <2>2. Digit(x, 2, k) \in 0..(2 - 1) /\ Digit(y, 2, k) \in 0..(2 - 1)
    BY <1>1, <2>1, DigitType
  <2> QED BY <2>2
<1>7. \A k \in 1..n : Digit(z, 2, k) = IF Digit(x, 2, k) = Digit(y, 2, k) THEN 0 ELSE 1
  BY <1>5
<1> HIDE DEF z
<1>8. D(z, y) = [k \in 1..n |-> Digit(x, 2, k)]
  <2>1. \A k \in 1..n : (IF Digit(z, 2, k) = Digit(y, 2, k) THEN 0 ELSE 1) = Digit(x, 2, k)
    BY <1>6, <1>7
  <2> QED BY <2>1
<1>9. Number(2, [k \in 1..n |-> Digit(x, 2, k)]) = x
  BY <1>1, NumberOfDigits
<1>10. C!Xor(z, y) = x
  <2>1. C!Xor(z, y) = Number(2, D(z, y))
    BY <1>2
  <2> HIDE DEF D
  <2> QED BY <1>8, <1>9, <2>1
<1> QED BY <1>5, <1>10 DEF z

\* XORing a block twice with another gives it back (compress_int8 and
\* decompress_int8 of ai_weights.c).
LEMMA XorBlocksFacts ==
  ASSUME NEW len \in Nat \ {0}, NEW b \in ByteSeq(len), NEW c \in ByteSeq(len)
  PROVE  C!XorBlocks(b, c) \in ByteSeq(len) /\ C!XorBlocks(C!XorBlocks(b, c), c) = b
<1> DEFINE d == C!XorBlocks(b, c)
<1>1. Len(b) = len
  BY BlockFacts
<1>2. \A i \in 1..len : b[i] \in 0..(Byte - 1) /\ c[i] \in 0..(Byte - 1)
  BY DEF ByteSeq
<1>3. d = [i \in 1..len |-> C!Xor(b[i], c[i])]
  BY <1>1 DEF C!XorBlocks
<1>4. \A i \in 1..len : C!Xor(b[i], c[i]) \in 0..(Byte - 1) /\ C!Xor(C!Xor(b[i], c[i]), c[i]) = b[i]
  BY <1>2, XorFacts
<1> HIDE DEF d
<1>5. d \in ByteSeq(len)
  BY <1>3, <1>4 DEF ByteSeq
<1>6. Len(d) = len
  BY <1>5, BlockFacts
<1>7. C!XorBlocks(d, c) = [i \in 1..len |-> C!Xor(d[i], c[i])]
  BY <1>6 DEF C!XorBlocks
<1>8. \A i \in 1..len : C!Xor(d[i], c[i]) = b[i]
  BY <1>3, <1>4
<1>9. C!XorBlocks(d, c) = b
  BY <1>7, <1>8 DEF ByteSeq
<1> QED BY <1>5, <1>9 DEF d

\* The XOR with the block before.
LEMMA Int8RoundTrip ==
  ASSUME NEW g \in ByteSeq(PageBytes), NEW cap
  PROVE  LET r == C!CompressInt8(g, cap)
         IN  r.size \in 0..(PageBytes - 1) /\ C!DecompressInt8(r.form) = g
<1> DEFINE bs == C!Blocks(g)
           ds == [k \in 1..Len(bs) |-> IF k = 1 THEN bs[1] ELSE C!XorBlocks(bs[k], bs[k - 1])]
           sz == BlockHeader + C!TypeBytes(Len(ds)) + C!Codes(ds)
           f == C!Form(ds)
<1>1. PICK n \in Nat : /\ Len(bs) = n /\ bs \in BlockSeq(n, BlockBytes) /\ n # 0
                       /\ C!Join(bs) = g
  BY JoinBlocks
<1>2. C!CompressInt8(g, cap).size = C!Size(g, cap, sz) /\ C!CompressInt8(g, cap).form = f
  BY DEF C!CompressInt8
<1> HIDE DEF bs
<1>3. \A k \in 1..n : bs[k] \in ByteSeq(BlockBytes)
  BY <1>1 DEF BlockSeq
<1>4. ASSUME NEW k \in 1..n
      PROVE  /\ ds[k] = IF k = 1 THEN bs[1] ELSE C!XorBlocks(bs[k], bs[k - 1])
             /\ ds[k] \in ByteSeq(BlockBytes)
             /\ k # 1 => C!XorBlocks(ds[k], bs[k - 1]) = bs[k]
  <2>1. ds[k] = IF k = 1 THEN bs[1] ELSE C!XorBlocks(bs[k], bs[k - 1])
    BY <1>1
  <2> HIDE DEF ds
  <2>2. CASE k = 1
    BY <1>3, <2>1, <2>2
  <2>3. CASE k # 1
    <3>1. k - 1 \in 1..n
      BY <2>3
    <3>2. bs[k] \in ByteSeq(BlockBytes) /\ bs[k - 1] \in ByteSeq(BlockBytes)
      BY <1>3, <3>1
    <3> QED BY <2>1, <2>3, <3>2, SizeFacts, XorBlocksFacts
  <2> QED BY <2>2, <2>3
<1>5. ds \in BlockSeq(n, BlockBytes)
  <2>1. ds = [k \in 1..n |-> ds[k]]
    BY <1>1
  <2> HIDE DEF ds
  <2> QED BY <1>4, <2>1 DEF BlockSeq
<1> HIDE DEF ds
<1>6. f.n = n /\ C!Restored(f, BlockBytes) = ds /\ C!Codes(ds) \in Nat
  BY <1>5, SizeFacts, BlocksBack
<1>7. sz \in Nat
  <2>1. Len(ds) = n
    BY <1>5, FcnSeq DEF BlockSeq
  <2>2. C!TypeBytes(n) \in Nat
    BY TypeBytesType
  <2> QED BY <1>6, <2>1, <2>2, SizeFacts
<1> HIDE DEF sz, f
<1>8. C!Size(g, cap, sz) \in 0..(PageBytes - 1)
  BY <1>7, SizeType
<1> DEFINE Rec(p) == p = [k \in 1..n |-> IF k = 1 THEN ds[1] ELSE C!XorBlocks(ds[k], p[k - 1])]
           c == CHOOSE p : Rec(p)
<1>9. Rec(bs)
  <2>1. \A k \in 1..n : bs[k] = IF k = 1 THEN ds[1] ELSE C!XorBlocks(ds[k], bs[k - 1])
    BY <1>4
  <2>2. bs = [k \in 1..n |-> bs[k]]
    BY <1>1 DEF BlockSeq
  <2> QED BY <2>1, <2>2
<1>10. Rec(c)
  <2> HIDE DEF Rec
  <2> QED BY <1>9
<1>11. C!DecompressInt8(f) = C!Join([k \in 1..n |-> c[k]])
  BY <1>6 DEF C!DecompressInt8
<1> HIDE DEF c
<1>12. \A k \in 1..n : c[k] = IF k = 1 THEN ds[1] ELSE C!XorBlocks(ds[k], c[k - 1])
  BY <1>10
<1>13. \A k \in 1..n : c[k] = bs[k]
  <2> DEFINE T == {k \in 0..n : k = 0 \/ c[k] = bs[k]}
  <2>1. 0 \in T
    OBVIOUS
  <2>2. ASSUME NEW k \in 0..(n - 1), k \in T PROVE k + 1 \in T
    <3>1. k + 1 \in 1..n /\ k + 1 - 1 = k /\ (k = 0 => k + 1 = 1) /\ (k # 0 => k + 1 # 1)
      OBVIOUS
    <3>2. CASE k = 0
      BY <1>4, <1>12, <3>1, <3>2
    <3>3. CASE k # 0
      <4>1. c[k] = bs[k]
        BY <2>2, <3>3
      <4>2. c[k + 1] = C!XorBlocks(ds[k + 1], c[k])
        BY <1>12, <3>1, <3>3
      <4>3. C!XorBlocks(ds[k + 1], bs[k]) = bs[k + 1]
        BY <1>4, <3>1, <3>3
      <4> QED BY <3>1, <4>1, <4>2, <4>3
    <3> QED BY <3>2, <3>3
  <2>3. \A k \in 0..n : k \in T
    <3> HIDE DEF T
    <3> QED BY <2>1, <2>2, BoundedInduction
  <2> QED BY <2>3
<1>14. [k \in 1..n |-> c[k]] = bs
  BY <1>1, <1>13 DEF BlockSeq
<1> QED BY <1>1, <1>2, <1>8, <1>11, <1>14

-----------------------------------------------------------------------------
(* The codecs behind one interface *)

\* What the codec a wrote for the page g is read back as a page: as g, but for
\* bdi exactly when the differences fit.
Reads(a, f, g) ==
  /\ Decompress(a, f) \in ByteSeq(PageBytes)
  /\ a # "bdi" => Decompress(a, f) = g
  /\ a = "bdi" => (Decompress(a, f) = g <=> B!Fits(g))

\* A page of one byte value is read back from the value and the length.
LEMMA SamePage ==
  ASSUME NEW g \in ByteSeq(PageBytes), Same(g)
  PROVE  Reads("same_page", <<g[1], PageBytes>>, g)
<1>1. Len(g) = PageBytes
  BY SizeFacts, FcnSeq DEF ByteSeq
<1>2. Values(g) = C!Values(g)
  BY DEF Values, C!Values
<1>3. PICK x : Values(g) = {x}
  BY <1>2, SizeFacts, BlockFacts, FS_Singleton DEF Same
<1>4. \A i \in 1..PageBytes : g[i] = g[1]
  <2>1. \A i \in 1..PageBytes : g[i] \in Values(g)
    BY <1>1 DEF Values
  <2>2. 1 \in 1..PageBytes
    BY SizeFacts
  <2> QED BY <1>3, <2>1, <2>2
<1>5. Decompress("same_page", <<g[1], PageBytes>>) = [i \in 1..PageBytes |-> g[1]]
  BY DEF Decompress
<1>6. Decompress("same_page", <<g[1], PageBytes>>) = g
  BY <1>4, <1>5 DEF ByteSeq
<1> QED BY <1>6 DEF Reads

\* What each codec of registry.c writes for a page is smaller than the page
\* and reads back.
LEMMA CodecReads ==
  ASSUME NEW a \in Registered, NEW g \in ByteSeq(PageBytes), NEW cap, a = "same_page" => Same(g)
  PROVE  /\ Compress(a, g, cap).size \in 0..(PageBytes - 1)
         /\ Compress(a, g, cap).size # 0 => Reads(a, Compress(a, g, cap).form, g)
<1> DEFINE r == Compress(a, g, cap)
<1>1. CASE a = "same_page"
  <2>1. r.form = <<g[1], PageBytes>> /\ r.size \in {0, SameBytes}
    <3>1. Len(g) = PageBytes
      BY SizeFacts, FcnSeq DEF ByteSeq
    <3> QED BY <1>1, <3>1 DEF Compress
  <2> HIDE DEF r
  <2>2. r.size \in 0..(PageBytes - 1)
    BY <2>1, SizeFacts
  <2> QED BY <1>1, <2>1, <2>2, SamePage DEF r
<1>2. CASE a = "bdi"
  <2>1. r = B!Compress(g, cap) /\ \A f : Decompress(a, f) = B!Decompress(f)
    BY <1>2 DEF Compress, Decompress
  <2>2. r.size \in 0..(PageBytes - 1)
    BY <2>1, BdiSizes
  <2>3. B!Decompress(r.form) \in ByteSeq(PageBytes) /\ (B!Decompress(r.form) = g <=> B!Fits(g))
    BY <2>1, BdiRoundTrip
  <2> QED BY <1>2, <2>1, <2>2, <2>3 DEF Reads
<1>3. CASE a = "wkdm"
  <2>1. r = W(Word \div 2, Hash32, Dict32)!Compress(g, cap)
        /\ \A f : Decompress(a, f) = W(Word \div 2, Hash32, Dict32)!Decompress(f)
    BY <1>3 DEF Compress, Decompress
  <2>2. r.size \in 0..(PageBytes - 1) /\ Decompress(a, r.form) = g
    BY <2>1, WkdmPages
  <2> QED BY <1>3, <2>2 DEF Reads
<1>4. CASE a = "wkdm64"
  <2>1. r = W(Word, Hash64, Dict64)!Compress(g, cap)
        /\ \A f : Decompress(a, f) = W(Word, Hash64, Dict64)!Decompress(f)
    BY <1>4 DEF Compress, Decompress
  <2>2. r.size \in 0..(PageBytes - 1) /\ Decompress(a, r.form) = g
    BY <2>1, WkdmPages
  <2> QED BY <1>4, <2>2 DEF Reads
<1>5. CASE a = "block_class"
  <2>1. r = C!Compress(g, cap) /\ \A f : Decompress(a, f) = C!Decompress(f)
    BY <1>5 DEF Compress, Decompress
  <2>2. r.size \in 0..(PageBytes - 1) /\ Decompress(a, r.form) = g
    BY <2>1, BlockClassRoundTrip
  <2> QED BY <1>5, <2>2 DEF Reads
<1>6. CASE a = "ai_fp16"
  <2>1. r = C!CompressSplit(g, cap) /\ \A f : Decompress(a, f) = C!DecompressSplit(f)
    BY <1>6 DEF Compress, Decompress
  <2>2. r.size \in 0..(PageBytes - 1) /\ Decompress(a, r.form) = g
    BY <2>1, SplitRoundTrip
  <2> QED BY <1>6, <2>2 DEF Reads
<1>7. CASE a = "ai_int8"
  <2>1. r = C!CompressInt8(g, cap) /\ \A f : Decompress(a, f) = C!DecompressInt8(f)
    BY <1>7 DEF Compress, Decompress
  <2>2. r.size \in 0..(PageBytes - 1) /\ Decompress(a, r.form) = g
    BY <2>1, Int8RoundTrip
  <2> QED BY <1>7, <2>2 DEF Reads
<1>8. CASE a = "delta"
  <2>1. r.size = 0
    BY <1>8 DEF Compress
  <2> QED BY <2>1, SizeFacts
<1> QED BY <1>1, <1>2, <1>3, <1>4, <1>5, <1>6, <1>7, <1>8 DEF Registered

-----------------------------------------------------------------------------
(* Compressing a page and reading it back *)

\* What is stored reads back, and what was read back is what that gives.
CodecInv ==
  /\ TypeOK
  /\ pc = "new" => size = 0
  /\ pc \in {"stored", "restored"} => Reads(algo, form, page)
  /\ pc = "restored" => out = Decompress(algo, form)

\* The pages are sequences of PageBytes bytes.
LEMMA PageType ==
  ASSUME NEW g \in PageSet
  PROVE  g \in ByteSeq(PageBytes)
BY SizesAssumption DEF ByteSeq

\* What a codec returned is kept as it is.
LEMMA KeepStep ==
  ASSUME CodecInv, pc = "new", NEW a \in Algos, NEW r, Keep(a, r), UNCHANGED <<page, out>>,
         r.size \in 0..(PageBytes - 1), r.size # 0 => Reads(a, r.form, page)
  PROVE  CodecInv'
<1>1. page' = page /\ algo' = a /\ size' = r.size /\ out' = out /\ page \in PageSet
  BY DEF Keep, CodecInv, TypeOK
<1>2. CASE r.size = 0
  <2>1. pc' = "incompressible"
    BY <1>2 DEF Keep
  <2> QED BY <1>1, <1>2, <2>1, SizeFacts DEF CodecInv, TypeOK
<1>3. CASE r.size # 0
  <2>1. pc' = "stored" /\ form' = r.form /\ size' > 0
    BY <1>1, <1>3, SizeFacts DEF Keep
  <2>2. Reads(algo', form', page')
    BY <1>1, <1>3, <2>1
  <2>3. TypeOK'
    BY <1>1, <2>1 DEF TypeOK
  <2>4. Reads(algo, form, page)'
    BY <2>2 DEF Reads, Decompress
  <2> QED BY <2>1, <2>3, <2>4 DEF CodecInv
<1> QED BY <1>2, <1>3

\* Every step keeps CodecInv.
LEMMA CodecStep ==
  ASSUME CodecInv, [Next]_vars
  PROVE  CodecInv'
<1> USE DEF CodecInv
<1>0. page \in ByteSeq(PageBytes) /\ Len(page) = PageBytes
  <2>1. page \in ByteSeq(PageBytes)
    BY PageType DEF TypeOK
  <2> QED BY <2>1, SizeFacts, FcnSeq DEF ByteSeq
<1>1. CASE CompressPage
  <2>1. pc = "new" /\ UNCHANGED <<page, out>>
    BY <1>1 DEF CompressPage
  <2>2. CASE Classify(page) = "same_page"
    <3> DEFINE r == [size |-> 1, form |-> <<page[1], PageBytes>>]
    <3>1. Keep("same_page", r)
      BY <1>1, <2>2 DEF CompressPage
    <3>2. Same(page)
      BY <2>2 DEF Classify
    <3>3. r.size \in 0..(PageBytes - 1) /\ Reads("same_page", r.form, page)
      BY <1>0, <3>2, SizeFacts, SamePage
    <3>4. "same_page" \in Algos
      BY DEF Algos, Registered
    <3> HIDE DEF r, CodecInv
    <3> QED BY <2>1, <3>1, <3>3, <3>4, KeepStep
  <2>3. CASE Classify(page) = "lz4"
    <3>1. PICK r \in Lz4(page) : Keep("lz4", r)
      BY <1>1, <2>3 DEF CompressPage
    <3>2. r.size \in 0..(PageBytes - 1) /\ r.form = page
      BY <1>0, <3>1, SizeFacts DEF Lz4
    <3>3. Reads("lz4", r.form, page)
      BY <1>0, <3>2 DEF Reads, Decompress
    <3>4. "lz4" \in Algos
      BY DEF Algos
    <3> HIDE DEF CodecInv
    <3> QED BY <2>1, <3>1, <3>2, <3>3, <3>4, KeepStep
  <2>4. CASE Classify(page) \notin {"same_page", "lz4"}
    <3> DEFINE a == Classify(page)
               r == Compress(a, page, BufferBytes)
    <3>1. Keep(a, r)
      BY <1>1, <2>4 DEF CompressPage
    <3>2. a \in Registered /\ a # "same_page"
      BY <2>4 DEF Classify, Registered
    <3> HIDE DEF a, CodecInv
    <3>3. r.size \in 0..(PageBytes - 1) /\ (r.size # 0 => Reads(a, r.form, page))
      BY <1>0, <3>2, CodecReads
    <3>4. a \in Algos
      BY <3>2 DEF Algos
    <3> HIDE DEF r
    <3> QED BY <2>1, <3>1, <3>3, <3>4, KeepStep
  <2> QED BY <2>2, <2>3, <2>4
<1>2. ASSUME NEW a \in Registered, CompressBuffer(a) PROVE CodecInv'
  <2> DEFINE r == Compress(a, page, Bound(a, PageBytes))
  <2>1. pc = "new" /\ CanCompress(a, page) /\ Keep(a, r) /\ UNCHANGED <<page, out>>
    BY <1>2 DEF CompressBuffer
  <2>2. a = "same_page" => Same(page)
    BY <2>1 DEF CanCompress
  <2> HIDE DEF CodecInv
  <2>3. r.size \in 0..(PageBytes - 1) /\ (r.size # 0 => Reads(a, r.form, page))
    BY <1>0, <2>2, CodecReads
  <2>4. a \in Algos
    BY DEF Algos
  <2> HIDE DEF r
  <2> QED BY <2>1, <2>3, <2>4, KeepStep
<1>3. CASE DecompressPage
  <2>1. pc = "stored" /\ pc' = "restored" /\ out' = Decompress(algo, form) /\ UNCHANGED <<page, algo, size, form>>
    BY <1>3 DEF DecompressPage
  <2>2. out' \in ByteSeq(PageBytes)
    BY <2>1 DEF Reads
  <2>3. TypeOK'
    BY <2>1, <2>2 DEF TypeOK, ByteSeq
  <2>4. Reads(algo, form, page)' /\ (out = Decompress(algo, form))'
    BY <2>1 DEF Reads, Decompress
  <2> QED BY <2>1, <2>3, <2>4
<1>4. CASE Advise
  <2>1. pc = "new" /\ pc' = "advised" /\ algo' \in AdviseBest(page, Registered) /\ UNCHANGED <<page, size, form, out>>
    BY <1>4 DEF Advise
  <2>2. algo' \in Algos
    <3>1. Works(page, Registered) \subseteq Registered
      BY DEF Works
    <3>2. AdviseAlgorithm(page) \in Algos
      BY DEF AdviseAlgorithm, Algos, Registered
    <3> QED BY <2>1, <3>1, <3>2 DEF AdviseBest, Algos
  <2> QED BY <2>1, <2>2 DEF TypeOK
<1>5. CASE UNCHANGED vars
  <2>1. TypeOK'
    BY <1>5 DEF TypeOK, vars
  <2>2. pc' = pc /\ page' = page /\ algo' = algo /\ size' = size /\ form' = form /\ out' = out
    BY <1>5 DEF vars
  <2>3. Decompress(algo, form)' = Decompress(algo, form)
    BY <2>2 DEF Decompress
  <2>4. Reads(algo, form, page)' = Reads(algo, form, page)
    BY <2>2, <2>3 DEF Reads
  <2> QED BY <2>1, <2>2, <2>3, <2>4
<1> QED BY <1>1, <1>2, <1>3, <1>4, <1>5 DEF Next

\* CodecInv holds in every state.
LEMMA CodecsInvariant == Spec => []CodecInv
<1>1. Init => CodecInv
  BY SizeFacts DEF Init, CodecInv, TypeOK
<1>2. CodecInv /\ [Next]_vars => CodecInv'
  BY CodecStep
<1> QED BY <1>1, <1>2, PTL DEF Spec

\* Whatever the sizes of pages, words, blocks and dictionaries: what the kernel
\* (minimem_compress.c) or a user of the registry keeps in compressed form is
\* smaller than the page, and what is read back has the page's length.
THEOREM TypeCorrect == Spec => []TypeOK
<1>1. CodecInv => TypeOK
  BY DEF CodecInv
<1> QED BY <1>1, CodecsInvariant, PTL

\* same_page, wkdm, wkdm64, block_class, ai_fp16 and ai_int8 read back the page
\* they compressed, byte for byte, for every page (wkdm.c, wkdm64.c,
\* block_class.c, ai_weights.c; of the vendored LZ4 it is assumed).
THEOREM OthersAreLossless == Spec => []OthersLossless
<1>1. CodecInv => OthersLossless
  BY DEF CodecInv, OthersLossless, Reads
<1> QED BY <1>1, CodecsInvariant, PTL

\* A page that bdi.c packed is read back as it was exactly when each difference
\* that it packed in a byte is one a signed byte holds.
THEOREM BdiIsExact == Spec => []BdiExact
<1>1. CodecInv => BdiExact
  BY DEF CodecInv, BdiExact, Reads
<1> QED BY <1>1, CodecsInvariant, PTL
=============================================================================
