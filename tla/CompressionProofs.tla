-------------------------- MODULE CompressionProofs --------------------------
(***************************************************************************)
(* What is compressed comes back: for every width of the arithmetic        *)
(* coder's registers, every table total, word and block size of the rANS   *)
(* coder, every set of distributions a predictor may answer and every      *)
(* length of a stream.                                                     *)
(*                                                                         *)
(* Arithmetic coder: an encoder in the middle of a stream says something   *)
(* of the whole finished stream (Fits): the bits it has settled are in it, *)
(* those it holds back are the inverse of the next one, and the code of a  *)
(* decoder that has read as far lies in its interval.  Every round and     *)
(* every symbol carries that from the later encoder back to the earlier    *)
(* one, and the decoder's registers are a function of the encoder's        *)
(* (DecoderAt).  rANS: a decoding step undoes the encoding step            *)
(* (StepsInvert), so the coder inside a block is the encoder's with the    *)
(* symbols left to decode.  Tables: every symbol has a share of its own,   *)
(* whatever the masses round to, and the search finds it again.            *)
(***************************************************************************)
EXTENDS Compression, SequenceTheorems, FiniteSetTheorems, NaturalsInduction,
        WellFoundedInduction, TLAPS

-----------------------------------------------------------------------------
(* Recursive functions over a range of numbers *)

\* A nonempty set of naturals has a least element.
LEMMA LeastNatural ==
  ASSUME NEW T \in SUBSET Nat, T # {}
  PROVE  \E m \in T : \A n \in T : m <= n
<1>1. PICK m \in T : \A n \in T : ~ (<<n, m>> \in OpToRel(<, Nat))
  <2>. HIDE DEF OpToRel
  <2>. QED  BY NatLessThanWellFounded, WFMin
<1>2. ASSUME NEW n \in T  PROVE m <= n
  <2>1. ~ (n < m)  BY <1>1 DEF OpToRel
  <2>. QED  BY <2>1
<1>. QED  BY <1>2

\* f starts with b and goes on with g.
Iterated(f, b, g, n) == f[0] = b /\ \A i \in 1 .. n : f[i] = g[<<i, f[i - 1]>>]

LEMMA IterateMore ==
  ASSUME NEW V, NEW b, NEW g, NEW n \in Nat, NEW f \in [0 .. n -> V], Iterated(f, b, g, n),
         \A v \in V : g[<<n + 1, v>>] \in V
  PROVE  \E h \in [0 .. n + 1 -> V] : Iterated(h, b, g, n + 1)
<1>. DEFINE last == g[<<n + 1, f[n]>>]
            h == [i \in 0 .. n + 1 |-> IF i <= n THEN f[i] ELSE last]
<1>1. last \in V
  BY SMT
<1>2. h \in [0 .. n + 1 -> V]
  <2>1. \A i \in 0 .. n + 1 : (IF i <= n THEN f[i] ELSE last) \in V
    <3>. HIDE DEF last
    <3>. QED  BY <1>1
  <2>. HIDE DEF last
  <2>. QED  BY <2>1
<1>3. (\A i \in 0 .. n : h[i] = f[i]) /\ h[n + 1] = last
  <2>. HIDE DEF last
  <2>. QED  OBVIOUS
<1>. HIDE DEF h
<1>4. ASSUME NEW i \in 1 .. n + 1  PROVE h[i] = g[<<i, h[i - 1]>>]
  <2>1. CASE i <= n
    <3>1. i \in 1 .. n /\ i \in 0 .. n /\ i - 1 \in 0 .. n
      BY <2>1
    <3>2. f[i] = g[<<i, f[i - 1]>>]
      BY <3>1 DEF Iterated
    <3>. QED  BY <1>3, <3>1, <3>2
  <2>2. CASE i = n + 1
    <3>1. i - 1 = n /\ n \in 0 .. n
      BY <2>2
    <3>. QED  BY <1>3, <2>2, <3>1
  <2>. QED  BY <2>1, <2>2
<1>5. h[0] = b
  BY <1>3 DEF Iterated
<1>6. Iterated(h, b, g, n + 1)
  BY <1>4, <1>5 DEF Iterated
<1>. QED  BY <1>2, <1>6

\* A recursive function whose steps stay in a set exists.
LEMMA Iterate ==
  ASSUME NEW V, NEW b \in V, NEW g, NEW n \in Nat,
         \A i \in 1 .. n : \A v \in V : g[<<i, v>>] \in V
  PROVE  \E f \in [0 .. n -> V] : Iterated(f, b, g, n)
<1>. DEFINE Good(m) == \E f \in [0 .. m -> V] : Iterated(f, b, g, m)
            T == {m \in 0 .. n : ~ Good(m)}
<1>1. SUFFICES ASSUME n \in T PROVE FALSE
  OBVIOUS
<1>2. PICK m \in T : \A k \in T : m <= k
  <2>1. T \in SUBSET Nat /\ T # {}
    BY <1>1
  <2>. HIDE DEF T
  <2>. QED  BY <2>1, LeastNatural
<1>3. CASE m = 0
  <2>. DEFINE f == [i \in 0 .. 0 |-> b]
  <2>1. f \in [0 .. 0 -> V] /\ f[0] = b
    OBVIOUS
  <2>2. Iterated(f, b, g, 0)
    BY <2>1 DEF Iterated
  <2>. HIDE DEF f
  <2>3. Good(0)
    BY <2>1, <2>2
  <2>. QED  BY <2>3, <1>3
<1>4. CASE m # 0
  <2>1. m - 1 \in 0 .. n /\ m - 1 \in Nat /\ ~(m <= m - 1) /\ (m - 1) + 1 = m /\ m \in 1 .. n
    BY <1>4
  <2>2. m - 1 \notin T
    BY <1>2, <2>1
  <2>3. Good(m - 1)
    <3>. HIDE DEF Good
    <3>. QED  BY <2>1, <2>2
  <2>4. PICK f \in [0 .. m - 1 -> V] : Iterated(f, b, g, m - 1)
    BY <2>3
  <2>5. \A v \in V : g[<<(m - 1) + 1, v>>] \in V
    BY <2>1
  <2>6. \E h \in [0 .. (m - 1) + 1 -> V] : Iterated(h, b, g, (m - 1) + 1)
    BY <2>1, <2>4, <2>5, IterateMore
  <2>7. Good(m)
    BY <2>1, <2>6
  <2>. HIDE DEF Good
  <2>. QED  BY <2>7
<1>. QED  BY <1>3, <1>4

-----------------------------------------------------------------------------
(* Arithmetic *)

LEMMA ProductGrows ==
  ASSUME NEW a \in Nat, NEW b \in Nat, NEW c \in Nat, a <= b
  PROVE  c * a <= c * b
<1>1. PICK d \in Nat : b = a + d  OBVIOUS
<1>2. c * b = c * a + c * d  BY <1>1, SMT
<1>3. c * d \in Nat /\ c * a \in Nat  BY SMT
<1>. QED  BY <1>2, <1>3

LEMMA Division ==
  ASSUME NEW n \in Nat \ {0}, NEW x \in Nat
  PROVE  /\ x \div n \in Nat /\ x % n \in 0 .. n - 1
         /\ x = n * (x \div n) + (x % n)
OBVIOUS

LEMMA DivisionIs ==
  ASSUME NEW n \in Nat \ {0}, NEW k \in Nat, NEW s \in 0 .. n - 1,
         NEW x \in Nat, x = n * k + s
  PROVE  x \div n = k /\ x % n = s
<1>1. PICK q \in Nat, r \in 0 .. n - 1 : q = x \div n /\ r = x % n /\ x = n * q + r
  BY Division
<1>2. n * k \in Nat /\ n * q \in Nat  BY SMT
<1>3. q = k
  <2>1. CASE q + 1 <= k
    <3>1. n * (q + 1) <= n * k  BY <2>1, ProductGrows
    <3>2. n * (q + 1) = n * q + n  BY SMT
    <3>. QED  BY <3>1, <3>2, <1>1, <1>2
  <2>2. CASE k + 1 <= q
    <3>1. n * (k + 1) <= n * q  BY <2>2, ProductGrows
    <3>2. n * (k + 1) = n * k + n  BY SMT
    <3>. QED  BY <3>1, <3>2, <1>1, <1>2
  <2>. QED  BY <2>1, <2>2
<1>. QED  BY <1>1, <1>2, <1>3

\* A quotient stays under a bound that its dividend stays under.
LEMMA QuotientBelow ==
  ASSUME NEW n \in Nat \ {0}, NEW m \in Nat, NEW x \in Nat, x < n * m
  PROVE  x \div n < m
<1>1. PICK q \in Nat, r \in 0 .. n - 1 : q = x \div n /\ x = n * q + r  BY Division
<1>2. CASE m <= q
  <2>1. n * m <= n * q /\ n * q \in Nat /\ n * m \in Nat
    BY <1>2, ProductGrows, SMT
  <2>. QED  BY <2>1, <1>1
<1>. QED  BY <1>1, <1>2

\* And above one that its dividend reaches.
LEMMA QuotientAbove ==
  ASSUME NEW n \in Nat \ {0}, NEW m \in Nat, NEW x \in Nat, n * m <= x
  PROVE  m <= x \div n
<1>1. PICK q \in Nat, r \in 0 .. n - 1 : q = x \div n /\ x = n * q + r  BY Division
<1>2. CASE q + 1 <= m
  <2>1. n * (q + 1) <= n * m  BY <1>2, ProductGrows
  <2>2. n * (q + 1) = n * q + n /\ n * q \in Nat  BY SMT
  <2>. QED  BY <2>1, <2>2, <1>1
<1>. QED  BY <1>1, <1>2

\* Powers of two, as the numbers of subsets.
LEMMA PowerPositive ==
  ASSUME NEW n \in Nat
  PROVE  2 ^ n \in Nat \ {0}
<1>. DEFINE S == 1 .. n
<1>1. IsFiniteSet(S) /\ Cardinality(S) = n
  BY FS_Interval
<1>. HIDE DEF S
<1>2. IsFiniteSet(SUBSET S) /\ Cardinality(SUBSET S) = 2 ^ n
  BY <1>1, FS_SUBSET
<1>3. Cardinality(SUBSET S) \in Nat /\ (Cardinality(SUBSET S) = 0 <=> SUBSET S = {})
  BY <1>2, FS_CardinalityType, FS_EmptySet
<1>. QED  BY <1>2, <1>3

LEMMA PowerZero == 2 ^ 0 = 1
<1>1. IsFiniteSet({}) /\ Cardinality({}) = 0
  BY FS_EmptySet
<1>2. Cardinality(SUBSET {}) = 2 ^ 0
  BY <1>1, FS_SUBSET
<1>3. Cardinality({{}}) = 1
  BY FS_Singleton
<1>4. SUBSET {} = {{}}
  OBVIOUS
<1>. QED  BY <1>2, <1>3, <1>4

LEMMA PowerNext ==
  ASSUME NEW n \in Nat
  PROVE  2 ^ (n + 1) = 2 * 2 ^ n
<1>. DEFINE S == 1 .. n
            x == n + 1
            A == SUBSET S
            B == {T \cup {x} : T \in A}
            C == SUBSET (1 .. n + 1)
<1>1. IsFiniteSet(S) /\ Cardinality(S) = n /\ IsFiniteSet(1 .. n + 1) /\ Cardinality(1 .. n + 1) = n + 1
  BY FS_Interval
<1>2. IsFiniteSet(A) /\ Cardinality(A) = 2 ^ n /\ IsFiniteSet(C) /\ Cardinality(C) = 2 ^ (n + 1)
  BY <1>1, FS_SUBSET
<1>3. x \notin S /\ 1 .. n + 1 = S \cup {x}
  OBVIOUS
<1>. HIDE DEF S, x
<1>4. C = A \cup B /\ A \cap B = {}
  <2>1. ASSUME NEW T \in C  PROVE T \in A \cup B
    <3>1. CASE x \in T
      <4>1. T \ {x} \in A /\ T = (T \ {x}) \cup {x}
        BY <1>3, <3>1
      <4>. QED  BY <4>1
    <3>2. CASE x \notin T
      BY <1>3, <3>2
    <3>. QED  BY <3>1, <3>2
  <2>. QED  BY <2>1, <1>3
<1>5. IsFiniteSet(B) /\ Cardinality(B) = 2 ^ n
  <2>. DEFINE f == [T \in A |-> T \cup {x}]
  <2>1. f \in Bijection(A, B)
    <3>1. \A T, U \in A : f[T] = f[U] => T = U
      BY <1>3
    <3>2. f \in [A -> B] /\ \A U \in B : \E T \in A : f[T] = U
      OBVIOUS
    <3>. HIDE DEF f, A, B
    <3>. QED  BY <3>1, <3>2 DEF Bijection, Injection, Surjection, IsInjective
  <2>. HIDE DEF f, B, A
  <2>. QED  BY <1>2, <2>1, FS_Bijection DEF ExistsBijection
<1>. HIDE DEF A, B, C
<1>6. Cardinality(C) = Cardinality(A) + Cardinality(B) - Cardinality(A \cap B)
  BY <1>2, <1>4, <1>5, FS_Union
<1>7. Cardinality(A \cap B) = 0
  BY <1>4, FS_EmptySet
<1>8. 2 ^ n \in Nat /\ 2 ^ (n + 1) \in Nat
  BY PowerPositive
<1>. QED  BY <1>2, <1>5, <1>6, <1>7, <1>8

\* Induction, for a set of numbers.
LEMMA NatSet ==
  ASSUME NEW T, 0 \in T, \A n \in Nat : n \in T => n + 1 \in T
  PROVE  \A n \in Nat : n \in T
<1>. DEFINE D == {n \in Nat : n \notin T}
<1>1. SUFFICES ASSUME D # {} PROVE FALSE
  OBVIOUS
<1>2. PICK m \in D : \A k \in D : m <= k
  <2>1. D \in SUBSET Nat
    OBVIOUS
  <2>. HIDE DEF D
  <2>. QED  BY <1>1, <2>1, LeastNatural
<1>3. m - 1 \in Nat /\ (m - 1) + 1 = m /\ ~(m <= m - 1)
  BY <1>2
<1>4. m - 1 \in T
  BY <1>2, <1>3
<1>. QED  BY <1>2, <1>3, <1>4

\* What starts alike and goes on alike is alike.
Follows(h, V, b, g, n) ==
  h[0] = b /\ \A i \in 1 .. n : h[i - 1] \in V => h[i] = g[<<i, h[i - 1]>>]
Alike(h, f, n) == \A i \in 0 .. n : h[i] = f[i]

LEMMA IterateSame ==
  ASSUME NEW V, NEW b, NEW g, NEW n \in Nat, NEW f \in [0 .. n -> V], Iterated(f, b, g, n),
         NEW h, Follows(h, V, b, g, n)
  PROVE  Alike(h, f, n)
<1>. DEFINE T == {i \in Nat : i <= n => h[i] = f[i]}
<1>1. 0 \in T
  BY DEF Iterated, Follows
<1>2. ASSUME NEW i \in Nat, i \in T  PROVE i + 1 \in T
  <2>1. SUFFICES ASSUME i + 1 <= n PROVE h[i + 1] = f[i + 1]
    OBVIOUS
  <2>2. i \in 0 .. n /\ i + 1 \in 1 .. n /\ (i + 1) - 1 = i
    BY <2>1
  <2>3. h[i] = f[i] /\ f[i] \in V
    BY <1>2, <2>2
  <2>4. f[i + 1] = g[<<i + 1, f[i]>>]
    BY <2>2 DEF Iterated
  <2>5. h[i + 1] = g[<<i + 1, h[i]>>]
    BY <2>2, <2>3 DEF Follows
  <2>. QED  BY <2>3, <2>4, <2>5
<1>. HIDE DEF T
<1>3. \A i \in Nat : i \in T
  BY <1>1, <1>2, NatSet
<1>. QED  BY <1>3 DEF T, Alike

-----------------------------------------------------------------------------
(* The register *)

LEMMA Register ==
  /\ PRECISION \in Nat /\ PRECISION > 2 /\ Quarter \in Nat /\ Quarter >= 2
  /\ Half = 2 * Quarter /\ Mask = 4 * Quarter - 1 /\ CDF_TOTAL = Quarter
  /\ Quarter = 2 ^ (PRECISION - 2) /\ Half = 2 ^ (PRECISION - 1) /\ Mask + 1 = 2 ^ PRECISION
  /\ BYTE_BITS \in Nat \ {0}
<1>1. PICK n \in Nat : n = PRECISION - 3
  BY PrecisionAssumption
<1>2. PRECISION = n + 3 /\ PRECISION - 2 = n + 1 /\ PRECISION - 1 = (n + 1) + 1
      /\ PRECISION = ((n + 1) + 1) + 1 /\ PRECISION \in Nat /\ PRECISION > 2
  BY <1>1, PrecisionAssumption
<1>3. PICK a \in Nat \ {0} : a = 2 ^ n
  BY PowerPositive
<1>4. 2 ^ (n + 1) = 2 * a
  BY <1>3, PowerNext
<1>5. 2 ^ ((n + 1) + 1) = 4 * a
  <2>1. 2 ^ ((n + 1) + 1) = 2 * 2 ^ (n + 1)
    BY PowerNext
  <2>. QED  BY <1>4, <2>1
<1>6. 2 ^ (((n + 1) + 1) + 1) = 8 * a
  <2>1. 2 ^ (((n + 1) + 1) + 1) = 2 * 2 ^ ((n + 1) + 1)
    BY PowerNext
  <2>. QED  BY <1>5, <2>1
<1>7. Quarter = 2 * a /\ Half = 4 * a /\ Mask = 8 * a - 1
  BY <1>2, <1>4, <1>5, <1>6 DEF Quarter, Half, Mask
<1>8. Quarter = 2 ^ (PRECISION - 2) /\ Half = 2 ^ (PRECISION - 1) /\ Mask = 2 ^ PRECISION - 1
  BY DEF Quarter, Half, Mask
<1>9. Mask + 1 = 2 ^ PRECISION
  BY <1>2, <1>6, <1>7
<1>. QED  BY <1>2, <1>7, <1>8, <1>9, ByteAssumption DEF CDF_TOTAL

-----------------------------------------------------------------------------
(* Windows of the input *)

LEMMA BitsIn ==
  ASSUME NEW input \in Seq(Bit), NEW i \in Nat \ {0}
  PROVE  InputBit(input, i) \in Bit
BY DEF InputBit, Bit

WindowStep(input, p) == [x \in Nat \X Nat |-> 2 * x[2] + InputBit(input, p + x[1])]

LEMMA WindowIs ==
  ASSUME NEW input \in Seq(Bit), NEW p \in Nat, NEW n \in Nat
  PROVE  \E f \in [0 .. n -> Nat] :
           Iterated(f, 0, WindowStep(input, p), n) /\ Window(input, p, n) = f[n]
<1>. DEFINE g == WindowStep(input, p)
            Body(h) == [i \in 0 .. n |-> IF i = 0 THEN 0 ELSE 2 * h[i - 1] + InputBit(input, p + i)]
            w == CHOOSE h : h = Body(h)
<1>1. ASSUME NEW i \in 1 .. n, NEW v \in Nat
      PROVE  g[<<i, v>>] = 2 * v + InputBit(input, p + i) /\ g[<<i, v>>] \in Nat
  <2>1. <<i, v>> \in Nat \X Nat
    OBVIOUS
  <2>2. InputBit(input, p + i) \in Bit
    BY BitsIn
  <2>. QED  BY <2>1, <2>2 DEF WindowStep, Bit
<1>. HIDE DEF g
<1>2. PICK f \in [0 .. n -> Nat] : Iterated(f, 0, g, n)
  BY <1>1, Iterate
<1>3. f = Body(f)
  <2>1. ASSUME NEW i \in 0 .. n
        PROVE  f[i] = IF i = 0 THEN 0 ELSE 2 * f[i - 1] + InputBit(input, p + i)
    <3>1. CASE i = 0  BY <1>2, <3>1 DEF Iterated
    <3>2. CASE i # 0
      <4>1. i \in 1 .. n /\ i - 1 \in 0 .. n  BY <3>2
      <4>. QED  BY <1>1, <1>2, <3>2, <4>1 DEF Iterated
    <3>. QED  BY <3>1, <3>2
  <2>. QED  BY <1>2, <2>1
<1>4. w = Body(w)
  <2>. HIDE DEF Body
  <2>. QED  BY <1>3
<1>5. Window(input, p, n) = w[n]
  BY DEF Window
<1>. HIDE DEF w
<1>6. w[0] = 0 /\ \A i \in 1 .. n : w[i] = 2 * w[i - 1] + InputBit(input, p + i)
  <2>1. \A i \in 0 .. n : w[i] = IF i = 0 THEN 0 ELSE 2 * w[i - 1] + InputBit(input, p + i)
    <3>. DEFINE b == Body(w)
    <3>1. \A i \in 0 .. n : b[i] = IF i = 0 THEN 0 ELSE 2 * w[i - 1] + InputBit(input, p + i)
      OBVIOUS
    <3>2. w = b
      BY <1>4
    <3>. HIDE DEF b
    <3>. QED  BY <3>1, <3>2
  <2>. HIDE DEF Body
  <2>. QED  BY <2>1
<1>7. \A i \in 0 .. n : w[i] = f[i]
  <2>0. PICK V : V = Nat
    OBVIOUS
  <2>1. \A i \in 1 .. n : w[i - 1] \in V => w[i] = g[<<i, w[i - 1]>>]
    BY <1>1, <1>6, <2>0
  <2>2. f \in [0 .. n -> V] /\ Iterated(f, 0, g, n)
    BY <1>2, <2>0
  <2>3. Follows(w, V, 0, g, n)
    BY <1>6, <2>1 DEF Follows
  <2>4. Alike(w, f, n)
    BY <2>2, <2>3, IterateSame
  <2>. HIDE DEF Body
  <2>. QED  BY <2>4 DEF Alike
<1>. QED  BY <1>2, <1>5, <1>7 DEF g

LEMMA WindowNext ==
  ASSUME NEW input \in Seq(Bit), NEW p \in Nat, NEW n \in Nat
  PROVE  /\ Window(input, p, 0) = 0 /\ Window(input, p, n) \in Nat
         /\ Window(input, p, n + 1) = 2 * Window(input, p, n) + InputBit(input, p + n + 1)
<1>. DEFINE g == WindowStep(input, p)
<1>1. PICK f \in [0 .. n -> Nat] : Iterated(f, 0, g, n) /\ Window(input, p, n) = f[n]
  BY WindowIs
<1>2. PICK h \in [0 .. n + 1 -> Nat] : Iterated(h, 0, g, n + 1) /\ Window(input, p, n + 1) = h[n + 1]
  <2>1. PICK m \in Nat : m = n + 1
    OBVIOUS
  <2>2. \E h \in [0 .. m -> Nat] : Iterated(h, 0, g, m) /\ Window(input, p, m) = h[m]
    BY WindowIs
  <2>. QED  BY <2>1, <2>2
<1>3. PICK z \in [0 .. 0 -> Nat] : Iterated(z, 0, g, 0) /\ Window(input, p, 0) = z[0]
  BY WindowIs
<1>4. h[n] = f[n]
  <2>1. h[0] = 0 /\ \A i \in 1 .. n : h[i] = g[<<i, h[i - 1]>>]
    BY <1>2 DEF Iterated
  <2>0. PICK V : V = Nat
    OBVIOUS
  <2>3. f \in [0 .. n -> V] /\ Iterated(f, 0, g, n)
    BY <1>1, <2>0
  <2>. HIDE DEF g
  <2>4. Follows(h, V, 0, g, n)
    BY <2>1 DEF Follows
  <2>2. Alike(h, f, n)
    BY <2>3, <2>4, IterateSame
  <2>. QED  BY <2>2 DEF Alike
<1>5. h[n + 1] = g[<<n + 1, h[n]>>]
  <2>1. n + 1 \in 1 .. n + 1 /\ (n + 1) - 1 = n
    OBVIOUS
  <2>. HIDE DEF g
  <2>. QED  BY <1>2, <2>1 DEF Iterated
<1>6. f[n] \in Nat
  BY <1>1
<1>7. g[<<n + 1, f[n]>>] = 2 * f[n] + InputBit(input, p + (n + 1))
  <2>1. <<n + 1, f[n]>> \in Nat \X Nat
    BY <1>6
  <2>. QED  BY <2>1 DEF WindowStep
<1>8. p + (n + 1) = p + n + 1
  OBVIOUS
<1>9. z[0] = 0
  BY <1>3 DEF Iterated
<1>. HIDE DEF g
<1>. QED  BY <1>1, <1>2, <1>3, <1>4, <1>5, <1>6, <1>7, <1>8, <1>9

\* The part of a window of n + 1 bits that its first bit makes.
Top(input, p, n) == IF InputBit(input, p + 1) = 1 THEN 2 ^ n ELSE 0

LEMMA WindowSplits ==
  ASSUME NEW input \in Seq(Bit), NEW p \in Nat
  PROVE  \A n \in Nat : Window(input, p, n + 1) = Top(input, p, n) + Window(input, p + 1, n)
<1>. DEFINE T == {n \in Nat : Window(input, p, n + 1) = Top(input, p, n) + Window(input, p + 1, n)}
<1>1. 0 \in T
  <2>1. Window(input, p, 0) = 0 /\ Window(input, p + 1, 0) = 0
    <3>1. 0 \in Nat /\ p + 1 \in Nat
      OBVIOUS
    <3>. QED  BY <3>1, WindowNext
  <2>2. Window(input, p, 0 + 1) = 2 * Window(input, p, 0) + InputBit(input, p + 0 + 1)
    <3>1. 0 \in Nat
      OBVIOUS
    <3>. QED  BY <3>1, WindowNext
  <2>3. InputBit(input, p + 1) \in {0, 1} /\ p + 0 + 1 = p + 1
    <3>1. p + 1 \in Nat \ {0}
      OBVIOUS
    <3>. QED  BY <3>1, BitsIn DEF Bit
  <2>4. Top(input, p, 0) = InputBit(input, p + 1)
    BY <2>3, PowerZero DEF Top
  <2>. QED  BY <2>1, <2>2, <2>3, <2>4
<1>2. ASSUME NEW n \in Nat, n \in T  PROVE n + 1 \in T
  <2>1. Window(input, p, (n + 1) + 1) = 2 * Window(input, p, n + 1) + InputBit(input, p + (n + 1) + 1)
    <3>1. n + 1 \in Nat
      OBVIOUS
    <3>. QED  BY <3>1, WindowNext
  <2>2. /\ Window(input, p + 1, n + 1) = 2 * Window(input, p + 1, n) + InputBit(input, (p + 1) + n + 1)
        /\ Window(input, p + 1, n) \in Nat
    <3>1. p + 1 \in Nat
      OBVIOUS
    <3>. QED  BY <3>1, WindowNext
  <2>3. (p + 1) + n + 1 = p + (n + 1) + 1
    OBVIOUS
  <2>4. Top(input, p, n + 1) = 2 * Top(input, p, n) /\ Top(input, p, n) \in Nat
    BY PowerNext, PowerPositive DEF Top
  <2>5. InputBit(input, p + (n + 1) + 1) \in Int
    <3>1. p + (n + 1) + 1 \in Nat \ {0}
      OBVIOUS
    <3>. QED  BY <3>1, BitsIn DEF Bit
  <2>6. Window(input, p, n + 1) = Top(input, p, n) + Window(input, p + 1, n)
    BY <1>2
  <2>. QED  BY <2>1, <2>2, <2>3, <2>4, <2>5, <2>6
<1>. HIDE DEF T
<1>3. \A n \in Nat : n \in T
  BY <1>1, <1>2, NatSet
<1>. QED  BY <1>3 DEF T

LEMMA WindowBelow ==
  ASSUME NEW input \in Seq(Bit), NEW p \in Nat
  PROVE  \A n \in Nat : Window(input, p, n) < 2 ^ n
<1>. DEFINE T == {n \in Nat : Window(input, p, n) < 2 ^ n}
<1>1. 0 \in T
  BY WindowNext, PowerZero
<1>2. ASSUME NEW n \in Nat, n \in T  PROVE n + 1 \in T
  <2>1. /\ Window(input, p, n + 1) = 2 * Window(input, p, n) + InputBit(input, p + n + 1)
        /\ Window(input, p, n) \in Nat
    BY WindowNext
  <2>2. InputBit(input, p + n + 1) \in {0, 1}
    <3>1. p + n + 1 \in Nat \ {0}
      OBVIOUS
    <3>. QED  BY <3>1, BitsIn DEF Bit
  <2>3. 2 ^ (n + 1) = 2 * 2 ^ n /\ 2 ^ n \in Nat
    BY PowerNext, PowerPositive
  <2>4. Window(input, p, n) < 2 ^ n
    BY <1>2
  <2>. QED  BY <2>1, <2>2, <2>3, <2>4
<1>. HIDE DEF T
<1>3. \A n \in Nat : n \in T
  BY <1>1, <1>2, NatSet
<1>. QED  BY <1>3 DEF T

-----------------------------------------------------------------------------
(* One round of the arithmetic coder *)

Encoders ==
  {e \in [low : 0 .. Mask, high : 0 .. Mask, carryRun : Nat, bits : Seq(Bit)] : e.low <= e.high}

\* What a round makes of the registers.
Doubled(e, o) == [low |-> 2 * (e.low - o), high |-> 2 * (e.high - o) + 1]

LEMMA EncoderIs ==
  ASSUME NEW e \in Encoders
  PROVE  /\ e = [low |-> e.low, high |-> e.high, carryRun |-> e.carryRun, bits |-> e.bits]
         /\ e.low \in Nat /\ e.high \in Nat /\ e.low <= e.high /\ e.high < 4 * Quarter
         /\ e.carryRun \in Nat /\ e.bits \in Seq(Bit)
BY Register DEF Encoders

\* The part of the register is as far from its origin as half the register goes.
LEMMA PartIs ==
  ASSUME NEW r, r.low \in Nat, r.high \in Nat, r.low <= r.high, r.high < 4 * Quarter
  PROVE  /\ PartOf(r) \in {"lower", "upper", "middle", "open"}
         /\ PartOf(r) = "lower" => r.high < Half /\ Origin("lower") = 0
         /\ PartOf(r) = "upper" => r.low >= Half /\ Origin("upper") = Half
         /\ PartOf(r) = "middle" =>
              r.low >= Quarter /\ r.high < 3 * Quarter /\ r.low < Half /\ r.high >= Half
              /\ Origin("middle") = Quarter
         /\ PartOf(r) = "open" =>
              r.low < Half /\ Half <= r.high /\ (r.low < Quarter \/ 3 * Quarter <= r.high)
         /\ PartOf(r) # "open" =>
              /\ Origin(PartOf(r)) \in Nat /\ Origin(PartOf(r)) <= r.low
              /\ r.high - Origin(PartOf(r)) < Half
<1>1. Origin("lower") = 0 /\ Origin("upper") = Half /\ Origin("middle") = Quarter
  BY DEF Origin
<1>2. Half = 2 * Quarter /\ Quarter \in Nat /\ Quarter >= 2
  BY Register
<1>3. CASE r.high < Half
  <2>1. PartOf(r) = "lower"
    BY <1>3 DEF PartOf
  <2>. QED  BY <1>1, <1>2, <1>3, <2>1
<1>4. CASE ~(r.high < Half) /\ r.low >= Half
  <2>1. PartOf(r) = "upper"
    BY <1>4 DEF PartOf
  <2>. QED  BY <1>1, <1>2, <1>4, <2>1
<1>5. CASE ~(r.high < Half) /\ ~(r.low >= Half) /\ r.low >= Quarter /\ r.high < 3 * Quarter
  <2>1. PartOf(r) = "middle"
    BY <1>5 DEF PartOf
  <2>. QED  BY <1>1, <1>2, <1>5, <2>1
<1>6. CASE ~(r.high < Half) /\ ~(r.low >= Half) /\ ~(r.low >= Quarter /\ r.high < 3 * Quarter)
  <2>1. PartOf(r) = "open"
    BY <1>6 DEF PartOf
  <2>. QED  BY <1>1, <1>2, <1>6, <2>1
<1>. QED  BY <1>3, <1>4, <1>5, <1>6

LEMMA ShiftIs ==
  ASSUME NEW r, r.low \in Nat, r.high \in Nat, r.low <= r.high, r.high < 4 * Quarter,
         NEW part, part = PartOf(r), part # "open",
         NEW s, s.low = r.low, s.high = r.high
  PROVE  /\ Shift(s, part) = [s EXCEPT !.low = 2 * (r.low - Origin(part)),
                                       !.high = 2 * (r.high - Origin(part)) + 1]
         /\ 2 * (r.low - Origin(part)) \in Nat /\ 2 * (r.high - Origin(part)) + 1 \in Nat
         /\ 2 * (r.low - Origin(part)) <= 2 * (r.high - Origin(part)) + 1
         /\ 2 * (r.high - Origin(part)) + 1 <= Mask
<1>. DEFINE o == Origin(part)
<1>1. o \in Nat /\ o <= r.low /\ r.high - o < Half
  BY PartIs
<1>. HIDE DEF o
<1>2. Mask = 4 * Quarter - 1 /\ Half = 2 * Quarter /\ Quarter \in Nat /\ Quarter >= 2
  BY Register
<1>3. PICK a \in Nat, b \in Nat : a = 2 * (r.low - o) /\ b = 2 * (r.high - o)
  BY <1>1
<1>4. a <= b /\ b + 1 <= Mask /\ a < Mask + 1 /\ b < Mask + 1
  <2>1. PICK x \in Nat, y \in Nat, z \in Nat : x = r.low /\ y = r.high /\ z = o
    BY <1>1
  <2>2. z <= x /\ x <= y /\ y - z < 2 * Quarter /\ a = 2 * (x - z) /\ b = 2 * (y - z)
    BY <1>1, <1>2, <1>3, <2>1
  <2>. QED  BY <1>2, <2>2
<1>5. PICK m \in Nat \ {0} : m = Mask + 1
  BY <1>2
<1>6. a % m = a /\ b % m = b
  BY <1>4, <1>5
<1>7. Shift(s, part) = [s EXCEPT !.low = a, !.high = b + 1]
  BY <1>3, <1>5, <1>6 DEF Shift, o
<1>. QED  BY <1>3, <1>4, <1>7 DEF o

\* The bits a round emits.
Emitted(e, part) ==
  IF part = "middle" THEN e.bits
  ELSE e.bits \o << IF part = "upper" THEN 1 ELSE 0 >>
              \o [i \in 1 .. e.carryRun |-> 1 - (IF part = "upper" THEN 1 ELSE 0)]

LEMMA RoundIs ==
  ASSUME NEW e \in Encoders, NEW part, part = PartOf(e), part # "open"
  PROVE  /\ EncodeRound(e) = [low |-> 2 * (e.low - Origin(part)),
                              high |-> 2 * (e.high - Origin(part)) + 1,
                              carryRun |-> IF part = "middle" THEN e.carryRun + 1 ELSE 0,
                              bits |-> Emitted(e, part)]
         /\ EncodeRound(e) \in Encoders
<1>. DEFINE s == Emit(e, part)
            run == IF part = "middle" THEN e.carryRun + 1 ELSE 0
            low == 2 * (e.low - Origin(part))
            high == 2 * (e.high - Origin(part)) + 1
            b == IF part = "upper" THEN 1 ELSE 0
            inv == [i \in 1 .. e.carryRun |-> 1 - b]
<1>1. /\ e = [low |-> e.low, high |-> e.high, carryRun |-> e.carryRun, bits |-> e.bits]
      /\ e.low \in Nat /\ e.high \in Nat /\ e.low <= e.high /\ e.high < 4 * Quarter
      /\ e.carryRun \in Nat /\ e.bits \in Seq(Bit)
  BY EncoderIs
<1>2. part \in {"lower", "upper", "middle"}
  BY <1>1, PartIs
<1>3. s = [low |-> e.low, high |-> e.high, carryRun |-> run, bits |-> Emitted(e, part)]
  <2>1. CASE part = "lower"
    <3>1. s = PutBit(e, 0)
      BY <2>1 DEF Emit
    <3>. QED  BY <1>1, <2>1, <3>1 DEF PutBit, Emitted
  <2>2. CASE part = "upper"
    <3>1. s = PutBit(e, 1)
      BY <2>2 DEF Emit
    <3>. QED  BY <1>1, <2>2, <3>1 DEF PutBit, Emitted
  <2>3. CASE part = "middle"
    <3>1. s = [e EXCEPT !.carryRun = @ + 1]
      BY <2>3 DEF Emit
    <3>. QED  BY <1>1, <2>3, <3>1 DEF Emitted
  <2>. QED  BY <1>2, <2>1, <2>2, <2>3
<1>4. /\ Shift(s, part) = [s EXCEPT !.low = low, !.high = high]
      /\ low \in Nat /\ high \in Nat /\ low <= high /\ high <= Mask
  <2>1. s.low = e.low /\ s.high = e.high
    BY <1>3
  <2>. HIDE DEF s
  <2>. QED  BY <1>1, <2>1, ShiftIs
<1>5. EncodeRound(e) = Shift(s, part)
  BY DEF EncodeRound
<1>6. Emitted(e, part) \in Seq(Bit)
  <2>1. <<b>> \in Seq(Bit) /\ inv \in Seq(Bit)
    <3>1. b \in Bit /\ 1 - b \in Bit
      BY DEF Bit
    <3>2. inv \in [1 .. e.carryRun -> Bit]
      BY <3>1
    <3>. HIDE DEF b, inv
    <3>. QED  BY <1>1, <3>1, <3>2, SeqDef
  <2>. HIDE DEF b, inv
  <2>2. e.bits \o <<b>> \o inv \in Seq(Bit)
    BY <1>1, <2>1, ConcatProperties
  <2>. QED  BY <1>1, <2>2 DEF Emitted, b, inv
<1>7. EncodeRound(e) = [low |-> low, high |-> high, carryRun |-> run, bits |-> Emitted(e, part)]
  <2>. HIDE DEF s, low, high, run
  <2>. QED  BY <1>3, <1>4, <1>5
<1>8. EncodeRound(e) \in Encoders
  <2>1. run \in Nat /\ low \in 0 .. Mask /\ high \in 0 .. Mask
    <3>1. run \in Nat
      BY <1>1
    <3>2. Mask \in Nat
      BY Register
    <3>. HIDE DEF low, high, run
    <3>. QED  BY <1>4, <3>1, <3>2
  <2>. HIDE DEF low, high, run
  <2>. QED  BY <1>4, <1>6, <1>7, <2>1 DEF Encoders
<1>. QED  BY <1>7, <1>8

\* Encoders whose interval settles no bit.
OpenEncoders == {e \in Encoders : PartOf(e) = "open"}

RoundStep == [x \in Nat \X Encoders |-> EncodeRound(x[2])]

\* The rounds after a symbol, one by one.
Rounds(f, e) == f \in [0 .. PRECISION -> Encoders] /\ Iterated(f, e, RoundStep, PRECISION)

LEMMA RoundStays ==
  ASSUME NEW e \in Encoders
  PROVE  /\ EncodeRound(e) \in Encoders
         /\ PartOf(e) = "open" => EncodeRound(e) = e
         /\ PartOf(e) # "open" =>
              EncodeRound(e).high - EncodeRound(e).low + 1 = 2 * (e.high - e.low + 1)
<1>1. CASE PartOf(e) = "open"
  <2>1. EncodeRound(e) = e
    BY <1>1 DEF EncodeRound
  <2>. QED  BY <1>1, <2>1
<1>2. CASE PartOf(e) # "open"
  <2>1. PICK part : part = PartOf(e) /\ part # "open"
    BY <1>2
  <2>2. /\ EncodeRound(e).low = 2 * (e.low - Origin(part))
        /\ EncodeRound(e).high = 2 * (e.high - Origin(part)) + 1
        /\ EncodeRound(e) \in Encoders
    BY <2>1, RoundIs
  <2>3. e.low \in Nat /\ e.high \in Nat /\ Origin(part) \in Nat
    BY <2>1, EncoderIs, PartIs
  <2>. QED  BY <1>2, <2>2, <2>3
<1>. QED  BY <1>1, <1>2

LEMMA RoundsNext ==
  ASSUME NEW e \in Encoders, NEW f, Rounds(f, e)
  PROVE  /\ f[0] = e
         /\ \A k \in 0 .. PRECISION : f[k] \in Encoders
         /\ \A k \in 1 .. PRECISION : f[k] = EncodeRound(f[k - 1])
<1>1. ASSUME NEW k \in 1 .. PRECISION  PROVE f[k] = EncodeRound(f[k - 1])
  <2>1. k - 1 \in 0 .. PRECISION /\ k \in Nat
    BY Register
  <2>2. f[k - 1] \in Encoders
    BY <2>1 DEF Rounds
  <2>3. RoundStep[<<k, f[k - 1]>>] = EncodeRound(f[k - 1])
    <3>1. <<k, f[k - 1]>> \in Nat \X Encoders
      BY <2>1, <2>2
    <3>. QED  BY <3>1 DEF RoundStep
  <2>4. f[k] = RoundStep[<<k, f[k - 1]>>]
    BY DEF Rounds, Iterated
  <2>. QED  BY <2>3, <2>4
<1>2. f[0] = e
  BY DEF Rounds, Iterated
<1>3. \A k \in 0 .. PRECISION : f[k] \in Encoders
  BY DEF Rounds
<1>. QED  BY <1>1, <1>2, <1>3

\* Every interval has its rounds, and they are what the encoder computes.
LEMMA RoundsExist ==
  ASSUME NEW e, NEW lo, NEW hi, Narrow(e, lo, hi) \in Encoders
  PROVE  \E f : Rounds(f, Narrow(e, lo, hi)) /\ EncodeCounts(e, lo, hi) = f[PRECISION]
<1>. DEFINE n == Narrow(e, lo, hi)
            Body(h) == [k \in 0 .. PRECISION |-> IF k = 0 THEN n ELSE EncodeRound(h[k - 1])]
            w == CHOOSE h : h = Body(h)
<1>0. PRECISION \in Nat
  BY Register
<1>1. n \in Encoders
  OBVIOUS
<1>2. EncodeCounts(e, lo, hi) = w[PRECISION]
  BY DEF EncodeCounts
<1>. HIDE DEF n
<1>3. ASSUME NEW i \in 1 .. PRECISION, NEW v \in Encoders
      PROVE  RoundStep[<<i, v>>] = EncodeRound(v) /\ RoundStep[<<i, v>>] \in Encoders
  <2>1. <<i, v>> \in Nat \X Encoders
    OBVIOUS
  <2>. QED  BY <2>1, RoundStays DEF RoundStep
<1>4. PICK f \in [0 .. PRECISION -> Encoders] : Iterated(f, n, RoundStep, PRECISION)
  <2>1. PICK V, b, g, m : V = Encoders /\ b = n /\ g = RoundStep /\ m = PRECISION /\ m \in Nat
    BY <1>0
  <2>2. m \in Nat /\ b \in V /\ \A i \in 1 .. m : \A v \in V : g[<<i, v>>] \in V
    BY <1>1, <1>3, <2>1
  <2>3. \E f \in [0 .. m -> V] : Iterated(f, b, g, m)
    BY <2>2, Iterate
  <2>. QED  BY <2>1, <2>3
<1>5. Rounds(f, n)
  BY <1>4 DEF Rounds
<1>6. f[0] = n /\ \A k \in 1 .. PRECISION : f[k] = EncodeRound(f[k - 1])
  BY <1>1, <1>5, RoundsNext
<1>7. f = Body(f)
  <2>1. \A k \in 0 .. PRECISION : f[k] = IF k = 0 THEN n ELSE EncodeRound(f[k - 1])
    <3>1. \A k \in 0 .. PRECISION : k = 0 \/ k \in 1 .. PRECISION
      BY <1>0
    <3>. QED  BY <1>6, <3>1
  <2>. QED  BY <1>4, <2>1
<1>8. w = Body(w)
  <2>. HIDE DEF Body
  <2>. QED  BY <1>7
<1>. HIDE DEF w
<1>9. \A k \in 0 .. PRECISION : w[k] = IF k = 0 THEN n ELSE EncodeRound(w[k - 1])
  <2>. DEFINE b == Body(w)
  <2>1. \A k \in 0 .. PRECISION : b[k] = IF k = 0 THEN n ELSE EncodeRound(w[k - 1])
    OBVIOUS
  <2>2. w = b
    BY <1>8
  <2>. HIDE DEF b
  <2>. QED  BY <2>1, <2>2
<1>. HIDE DEF Body
<1>10. w[PRECISION] = f[PRECISION]
  <2>1. PICK V, b, g, m : V = Encoders /\ b = n /\ g = RoundStep /\ m = PRECISION /\ m \in Nat
    BY <1>0
  <2>2. m \in Nat /\ f \in [0 .. m -> V] /\ Iterated(f, b, g, m)
    BY <1>4, <2>1
  <2>3. w[0] = b /\ \A i \in 1 .. m : w[i - 1] \in V => w[i] = g[<<i, w[i - 1]>>]
    <3>1. w[0] = n
      BY <1>0, <1>9
    <3>2. \A i \in 1 .. PRECISION : w[i] = EncodeRound(w[i - 1])
      BY <1>0, <1>9
    <3>. QED  BY <1>3, <2>1, <3>1, <3>2
  <2>4. Follows(w, V, b, g, m)
    BY <2>3 DEF Follows
  <2>5. Alike(w, f, m)
    BY <2>2, <2>4, IterateSame
  <2>6. PRECISION \in 0 .. m
    BY <1>0, <2>1
  <2>. QED  BY <2>5, <2>6 DEF Alike
<1>. QED  BY <1>2, <1>5, <1>10 DEF n

\* While an interval is not open its width doubles with every round ...
Grown(e, k) == PartOf(e) = "open" \/ 2 ^ k <= e.high - e.low + 1

LEMMA RoundGrows ==
  ASSUME NEW e \in Encoders, NEW k \in Nat, Grown(e, k)
  PROVE  Grown(EncodeRound(e), k + 1)
<1>1. CASE PartOf(e) = "open"
  BY <1>1, RoundStays DEF Grown
<1>2. CASE PartOf(e) # "open"
  <2>1. 2 ^ (k + 1) = 2 * 2 ^ k /\ 2 ^ k \in Nat
    BY PowerNext, PowerPositive
  <2>2. 2 ^ k <= e.high - e.low + 1 /\ e.high \in Nat /\ e.low \in Nat
    BY <1>2, EncoderIs DEF Grown
  <2>3. EncodeRound(e).high - EncodeRound(e).low + 1 = 2 * (e.high - e.low + 1)
    BY <1>2, RoundStays
  <2>. QED  BY <2>1, <2>2, <2>3 DEF Grown
<1>. QED  BY <1>1, <1>2

\* ... and the whole register is open: PRECISION rounds are enough.
LEMMA RoundsEnd ==
  ASSUME NEW e \in Encoders, NEW f, Rounds(f, e)
  PROVE  f[PRECISION] \in OpenEncoders
<1>1. /\ f[0] = e
      /\ \A k \in 0 .. PRECISION : f[k] \in Encoders
      /\ \A k \in 1 .. PRECISION : f[k] = EncodeRound(f[k - 1])
  BY RoundsNext
<1>2. PRECISION \in Nat
  BY Register
<1>. DEFINE T == {k \in Nat : k <= PRECISION => Grown(f[k], k)}
<1>3. 0 \in T
  <2>1. e.low \in Nat /\ e.high \in Nat /\ e.low <= e.high
    BY EncoderIs
  <2>. QED  BY <1>1, <2>1, PowerZero DEF Grown
<1>4. ASSUME NEW k \in Nat, k \in T  PROVE k + 1 \in T
  <2>1. SUFFICES ASSUME k + 1 <= PRECISION PROVE Grown(f[k + 1], k + 1)
    OBVIOUS
  <2>2. k \in 0 .. PRECISION /\ k + 1 \in 1 .. PRECISION /\ (k + 1) - 1 = k /\ k <= PRECISION
    BY <1>2, <2>1
  <2>3. Grown(f[k], k) /\ f[k] \in Encoders /\ f[k + 1] = EncodeRound(f[k])
    BY <1>1, <1>4, <2>2
  <2>. QED  BY <2>3, RoundGrows
<1>. HIDE DEF T
<1>5. PRECISION \in T
  BY <1>2, <1>3, <1>4, NatSet
<1>6. PICK z \in Encoders : z = f[PRECISION]
  BY <1>1, <1>2
<1>7. Grown(z, PRECISION)
  BY <1>2, <1>5, <1>6 DEF T
<1>8. z.low \in Nat /\ z.high \in Nat /\ z.low <= z.high /\ z.high < 4 * Quarter
  BY EncoderIs
<1>9. CASE PartOf(z) # "open"
  <2>1. 4 * Quarter <= z.high - z.low + 1
    BY <1>7, <1>9, Register DEF Grown
  <2>2. z.low = 0 /\ z.high = 4 * Quarter - 1
    BY <1>8, <2>1, Register
  <2>3. ~(z.high < Half) /\ ~(z.low >= Half) /\ ~(z.low >= Quarter)
    BY <2>2, Register
  <2>4. PartOf(z) = "open"
    BY <2>3 DEF PartOf
  <2>. QED  BY <1>9, <2>4
<1>. QED  BY <1>6, <1>9 DEF OpenEncoders

\* A share of a table: lo .. hi - 1, not empty.
IsShare(lo, hi, total) == lo \in Nat /\ hi \in Nat /\ lo < hi /\ hi <= total

\* An open interval is wider than a table, so a share of it is not empty.
LEMMA NarrowIs ==
  ASSUME NEW e \in OpenEncoders, NEW lo, NEW hi, IsShare(lo, hi, CDF_TOTAL),
         NEW range, range = e.high - e.low + 1
  PROVE  /\ range \in Nat \ {0}
         /\ (range * lo) \div CDF_TOTAL \in Nat /\ (range * hi) \div CDF_TOTAL \in Nat
         /\ (range * lo) \div CDF_TOTAL < (range * hi) \div CDF_TOTAL
         /\ (range * hi) \div CDF_TOTAL <= range
         /\ Narrow(e, lo, hi) = [low |-> e.low + (range * lo) \div CDF_TOTAL,
                                 high |-> e.low + (range * hi) \div CDF_TOTAL - 1,
                                 carryRun |-> e.carryRun, bits |-> e.bits]
         /\ Narrow(e, lo, hi) \in Encoders
<1>1. /\ e = [low |-> e.low, high |-> e.high, carryRun |-> e.carryRun, bits |-> e.bits]
      /\ e.low \in Nat /\ e.high \in Nat /\ e.low <= e.high /\ e.high < 4 * Quarter
      /\ e.carryRun \in Nat /\ e.bits \in Seq(Bit)
  BY EncoderIs DEF OpenEncoders
<1>2. e.low < Half /\ Half <= e.high /\ (e.low < Quarter \/ 3 * Quarter <= e.high)
  BY <1>1, PartIs DEF OpenEncoders
<1>3. PICK T \in Nat \ {0} : T = CDF_TOTAL /\ T = Quarter /\ Half = 2 * T
  BY Register
<1>4. range \in Nat \ {0} /\ T <= range
  BY <1>1, <1>2, <1>3
<1>5. lo \in Nat /\ hi \in Nat /\ lo < hi /\ hi <= T
  BY <1>3 DEF IsShare
<1>6. PICK a \in Nat, b \in Nat : a = range * lo /\ b = range * hi
  BY <1>4, <1>5, SMT
<1>7. a + T <= b
  <2>1. range * (lo + 1) <= range * hi
    BY <1>4, <1>5, ProductGrows
  <2>2. range * (lo + 1) = range * lo + range
    BY <1>4, <1>5, SMT
  <2>. QED  BY <1>4, <1>6, <2>1, <2>2
<1>8. b <= range * T
  <2>. QED  BY <1>4, <1>5, <1>6, ProductGrows
<1>9. PICK p \in Nat, q \in Nat : p = a \div T /\ q = b \div T
  BY Division
<1>10. p < q
  <2>1. PICK r \in 0 .. T - 1 : a = T * p + r
    <3>1. a % T \in 0 .. T - 1 /\ a = T * (a \div T) + (a % T)
      BY Division
    <3>. QED  BY <1>9, <3>1
  <2>2. T * (p + 1) <= b
    <3>1. PICK w \in Nat : w = T * p
      BY SMT
    <3>2. T * (p + 1) = w + T
      BY <3>1, SMT
    <3>3. a = w + r
      BY <2>1, <3>1
    <3>. QED  BY <1>7, <3>2, <3>3
  <2>3. p + 1 <= b \div T
    BY <2>2, QuotientAbove
  <2>. QED  BY <1>9, <2>3
<1>11. q <= range
  <2>1. b < T * (range + 1)
    <3>1. T * (range + 1) = range * T + T /\ range * T \in Nat
      BY <1>4, SMT
    <3>. QED  BY <1>8, <3>1
  <2>2. b \div T < range + 1
    BY <1>4, <2>1, QuotientBelow
  <2>. QED  BY <1>4, <1>9, <2>2
<1>12. Narrow(e, lo, hi) = [low |-> e.low + p, high |-> e.low + q - 1,
                            carryRun |-> e.carryRun, bits |-> e.bits]
  <2>1. Narrow(e, lo, hi) = [e EXCEPT !.low = e.low + p, !.high = e.low + q - 1]
    BY <1>3, <1>6, <1>9 DEF Narrow
  <2>. QED  BY <1>1, <2>1
<1>13. Narrow(e, lo, hi) \in Encoders
  <2>1. e.low + p \in 0 .. Mask /\ e.low + q - 1 \in 0 .. Mask /\ e.low + p <= e.low + q - 1
    <3>1. PICK u \in Nat, v \in Nat, m \in Nat : u = e.low /\ v = e.high /\ m = Mask /\ v <= m
      <4>1. Mask = 4 * Quarter - 1 /\ Quarter \in Nat /\ Quarter >= 2
        BY Register
      <4>. QED  BY <1>1, <4>1
    <3>2. q <= v - u + 1 /\ u <= v
      BY <1>1, <1>11, <3>1
    <3>. QED  BY <1>10, <3>1, <3>2
  <2>. QED  BY <1>1, <1>12, <2>1 DEF Encoders
<1>. QED  BY <1>3, <1>4, <1>6, <1>9, <1>10, <1>11, <1>12, <1>13

\* The loop of encode_counts ends: the interval is never empty, every round doubles it, and
\* once PRECISION rounds are done no bit is left to settle.
THEOREM CountsOpen ==
  ASSUME NEW e \in OpenEncoders, NEW lo, NEW hi, IsShare(lo, hi, CDF_TOTAL)
  PROVE  EncodeCounts(e, lo, hi) \in OpenEncoders
<1>1. Narrow(e, lo, hi) \in Encoders
  BY NarrowIs
<1>2. PICK f : Rounds(f, Narrow(e, lo, hi)) /\ EncodeCounts(e, lo, hi) = f[PRECISION]
  BY <1>1, RoundsExist
<1>. QED  BY <1>1, <1>2, RoundsEnd

LEMMA NewEncoderOpen == NewEncoder \in OpenEncoders
<1>1. Mask = 4 * Quarter - 1 /\ Half = 2 * Quarter /\ Quarter \in Nat /\ Quarter >= 2
  BY Register
<1>2. NewEncoder \in Encoders
  <2>1. 0 \in 0 .. Mask /\ Mask \in 0 .. Mask /\ 0 <= Mask /\ 0 \in Nat
    BY <1>1
  <2>2. <<>> \in Seq(Bit)
    OBVIOUS
  <2>. QED  BY <2>1, <2>2 DEF NewEncoder, Encoders
<1>3. PartOf(NewEncoder) = "open"
  BY <1>1 DEF PartOf, NewEncoder
<1>. QED  BY <1>2, <1>3 DEF OpenEncoders

-----------------------------------------------------------------------------
(* What an encoder in the middle of a stream says of the whole stream *)

\* A settled bit and the bits that waited for it.
Settled(bits, b, n) == bits \o <<b>> \o [i \in 1 .. n |-> 1 - b]

LEMMA SettledIs ==
  ASSUME NEW bits \in Seq(Bit), NEW b \in Bit, NEW n \in Nat
  PROVE  /\ Settled(bits, b, n) \in Seq(Bit) /\ Len(Settled(bits, b, n)) = Len(bits) + 1 + n
         /\ \A i \in 1 .. Len(bits) : Settled(bits, b, n)[i] = bits[i]
         /\ Settled(bits, b, n)[Len(bits) + 1] = b
         /\ \A i \in 1 .. n : Settled(bits, b, n)[Len(bits) + 1 + i] = 1 - b
<1>. DEFINE run == [i \in 1 .. n |-> 1 - b]
            one == bits \o <<b>>
<1>1. run \in Seq(Bit) /\ Len(run) = n /\ \A i \in 1 .. n : run[i] = 1 - b
  <2>1. 1 - b \in Bit
    BY DEF Bit
  <2>2. run \in [1 .. n -> Bit] /\ \A i \in 1 .. n : run[i] = 1 - b
    BY <2>1
  <2>. HIDE DEF run
  <2>3. run \in Seq(Bit)
    BY <2>2, SeqDef
  <2>4. DOMAIN run = 1 .. n
    BY <2>2
  <2>. QED  BY <2>2, <2>3, <2>4, LenProperties
<1>2. /\ one \in Seq(Bit) /\ Len(one) = Len(bits) + 1
      /\ \A i \in 1 .. Len(bits) : one[i] = bits[i]
      /\ one[Len(bits) + 1] = b
  <2>1. <<b>> \in Seq(Bit) /\ Len(<<b>>) = 1 /\ <<b>>[1] = b
    OBVIOUS
  <2>. QED  BY <2>1, ConcatProperties
<1>3. Settled(bits, b, n) = one \o run
  BY DEF Settled
<1>. HIDE DEF one, run
<1>4. Len(bits) \in Nat
  BY LenProperties
<1>5. /\ one \o run \in Seq(Bit) /\ Len(one \o run) = Len(one) + Len(run)
      /\ \A i \in 1 .. Len(one) + Len(run) :
           (one \o run)[i] = IF i <= Len(one) THEN one[i] ELSE run[i - Len(one)]
  BY <1>1, <1>2, ConcatProperties
<1>6. ASSUME NEW i \in 1 .. n  PROVE (one \o run)[Len(bits) + 1 + i] = 1 - b
  <2>1. Len(bits) + 1 + i \in 1 .. Len(one) + Len(run) /\ ~(Len(bits) + 1 + i <= Len(one))
        /\ (Len(bits) + 1 + i) - Len(one) = i
    BY <1>1, <1>2, <1>4
  <2>. QED  BY <1>1, <1>5, <2>1
<1>7. ASSUME NEW i \in 1 .. Len(bits) + 1  PROVE (one \o run)[i] = one[i]
  <2>1. i \in 1 .. Len(one) + Len(run) /\ i <= Len(one)
    BY <1>1, <1>2, <1>4
  <2>. QED  BY <1>5, <2>1
<1>8. /\ \A i \in 1 .. Len(bits) : (one \o run)[i] = bits[i]
      /\ (one \o run)[Len(bits) + 1] = b
  <2>1. \A i \in 1 .. Len(bits) : i \in 1 .. Len(bits) + 1
    BY <1>4
  <2>2. Len(bits) + 1 \in 1 .. Len(bits) + 1
    BY <1>4
  <2>. QED  BY <1>2, <1>7, <2>1, <2>2
<1>. QED  BY <1>1, <1>2, <1>3, <1>4, <1>5, <1>6, <1>8

\* The bits of a stream that an encoder has settled, and those it holds back: whatever
\* the next bit is, they are its inverse.
Agrees(e, input) ==
  /\ \A i \in 1 .. Len(e.bits) : InputBit(input, i) = e.bits[i]
  /\ \A i \in 1 .. e.carryRun :
       InputBit(input, Len(e.bits) + 1 + i) = 1 - InputBit(input, Len(e.bits) + 1)

\* The code of a decoder that has read as far: the bit in doubt and the PRECISION - 1
\* bits after those held back.
Code(e, input) ==
  Top(input, Len(e.bits), PRECISION - 1)
    + Window(input, Len(e.bits) + 1 + e.carryRun, PRECISION - 1)

Fits(e, input) == Agrees(e, input) /\ e.low <= Code(e, input) /\ Code(e, input) <= e.high

DecoderAt(e, input) ==
  [low |-> e.low, high |-> e.high, pos |-> PRECISION + Len(e.bits) + e.carryRun,
   code |-> Code(e, input)]

NextBit(e, input) == InputBit(input, PRECISION + Len(e.bits) + e.carryRun + 1)

\* The positions and windows the code is made of.
LEMMA CodeParts ==
  ASSUME NEW e \in Encoders, NEW input \in Seq(Bit),
         NEW p, p = Len(e.bits) + 1 + e.carryRun
  PROVE  /\ p \in Nat \ {0} /\ Len(e.bits) \in Nat /\ e.carryRun \in Nat
         /\ Window(input, p, PRECISION - 1) \in Nat /\ Window(input, p, PRECISION - 1) < Half
         /\ NextBit(e, input) \in Bit /\ InputBit(input, Len(e.bits) + 1) \in Bit
         /\ Window(input, p, PRECISION) = 2 * Window(input, p, PRECISION - 1) + NextBit(e, input)
         /\ Window(input, p, PRECISION) = Top(input, p, PRECISION - 1) + Window(input, p + 1, PRECISION - 1)
         /\ Window(input, p + 1, PRECISION - 1) \in Nat
         /\ Top(input, p, PRECISION - 1) = (IF InputBit(input, p + 1) = 1 THEN Half ELSE 0)
         /\ Code(e, input) = (IF InputBit(input, Len(e.bits) + 1) = 1 THEN Half ELSE 0)
                               + Window(input, p, PRECISION - 1)
         /\ Code(e, input) \in Nat
<1>1. Len(e.bits) \in Nat /\ e.carryRun \in Nat
  BY EncoderIs, LenProperties
<1>2. p \in Nat \ {0} /\ p + 1 \in Nat
  BY <1>1
<1>3. PICK n \in Nat : n = PRECISION - 1
  BY Register
<1>4. PRECISION = n + 1 /\ Half = 2 ^ n /\ Half \in Nat
  BY <1>3, Register
<1>5. PRECISION + Len(e.bits) + e.carryRun + 1 = p + n + 1 /\ p + n + 1 \in Nat \ {0}
  <2>1. PICK l \in Nat, c \in Nat : l = Len(e.bits) /\ c = e.carryRun
    BY <1>1
  <2>2. p = l + 1 + c /\ PRECISION = n + 1
    BY <1>4, <2>1
  <2>3. PRECISION + l + c + 1 = p + n + 1 /\ p + n + 1 \in Nat \ {0}
    BY <2>2
  <2>. QED  BY <2>1, <2>3
<1>6. NextBit(e, input) = InputBit(input, p + n + 1) /\ NextBit(e, input) \in Bit
  BY <1>5, BitsIn DEF NextBit
<1>7. /\ Window(input, p, n) \in Nat /\ Window(input, p + 1, n) \in Nat
      /\ Window(input, p, n + 1) = 2 * Window(input, p, n) + InputBit(input, p + n + 1)
  BY <1>2, WindowNext
<1>8. Window(input, p, n) < 2 ^ n
  BY <1>2, WindowBelow
<1>9. Window(input, p, n + 1) = Top(input, p, n) + Window(input, p + 1, n)
  BY <1>2, WindowSplits
<1>10. InputBit(input, Len(e.bits) + 1) \in Bit
  <2>1. Len(e.bits) + 1 \in Nat \ {0}
    BY <1>1
  <2>. QED  BY <2>1, BitsIn
<1>11. /\ Top(input, p, n) = (IF InputBit(input, p + 1) = 1 THEN Half ELSE 0)
       /\ Top(input, Len(e.bits), n) = (IF InputBit(input, Len(e.bits) + 1) = 1 THEN Half ELSE 0)
  BY <1>4 DEF Top
<1>12. Code(e, input) = (IF InputBit(input, Len(e.bits) + 1) = 1 THEN Half ELSE 0) + Window(input, p, n)
  BY <1>3, <1>11 DEF Code
<1>13. Code(e, input) \in Nat
  BY <1>4, <1>7, <1>12
<1>. QED  BY <1>1, <1>2, <1>3, <1>4, <1>6, <1>7, <1>8, <1>9, <1>10, <1>11, <1>12, <1>13

\* A round whose bits agree with the stream shifts the code by a bit.
LEMMA RoundShifts ==
  ASSUME NEW e \in Encoders, NEW input \in Seq(Bit), NEW part, part = PartOf(e), part # "open",
         Agrees(EncodeRound(e), input)
  PROVE  /\ Agrees(e, input)
         /\ Code(EncodeRound(e), input) = 2 * (Code(e, input) - Origin(part)) + NextBit(e, input)
         /\ Len(EncodeRound(e).bits) + EncodeRound(e).carryRun = Len(e.bits) + e.carryRun + 1
<1>. DEFINE P == PRECISION - 1
<1>a. PICK L \in Nat, c \in Nat : L = Len(e.bits) /\ c = e.carryRun
  BY EncoderIs, LenProperties
<1>0. PICK e2 \in Encoders : e2 = EncodeRound(e)
  BY RoundIs
<1>1. e.low \in Nat /\ e.high \in Nat /\ e.low <= e.high /\ e.high < 4 * Quarter /\ e.bits \in Seq(Bit)
  BY EncoderIs
<1>2. PICK p : p = L + 1 + c
  OBVIOUS
<1>3. /\ p \in Nat \ {0} /\ L \in Nat /\ c \in Nat
      /\ Window(input, p, P) \in Nat
      /\ NextBit(e, input) \in Bit /\ InputBit(input, L + 1) \in Bit
      /\ Window(input, p, PRECISION) = 2 * Window(input, p, P) + NextBit(e, input)
      /\ Window(input, p, PRECISION) = Top(input, p, P) + Window(input, p + 1, P)
      /\ Window(input, p + 1, P) \in Nat
      /\ Top(input, p, P) = (IF InputBit(input, p + 1) = 1 THEN Half ELSE 0)
      /\ Code(e, input) = (IF InputBit(input, L + 1) = 1 THEN Half ELSE 0) + Window(input, p, P)
  <2>1. p = Len(e.bits) + 1 + e.carryRun
    BY <1>a, <1>2
  <2>. HIDE DEF P
  <2>2. /\ p \in Nat \ {0}
        /\ NextBit(e, input) \in Bit /\ InputBit(input, L + 1) \in Bit
        /\ Code(e, input) = (IF InputBit(input, L + 1) = 1 THEN Half ELSE 0) + Window(input, p, P)
    BY <1>a, <2>1, CodeParts DEF P
  <2>3. /\ Window(input, p, PRECISION - 1) \in Nat
        /\ Window(input, p, PRECISION) = 2 * Window(input, p, PRECISION - 1) + NextBit(e, input)
    BY <2>1, CodeParts
  <2>5. Top(input, p, PRECISION - 1) = (IF InputBit(input, p + 1) = 1 THEN Half ELSE 0)
    <3>1. Half = 2 ^ (PRECISION - 1)
      BY Register
    <3>. QED  BY <3>1, Zenon DEF Top
  <2>4. /\ Window(input, p, PRECISION) = Top(input, p, PRECISION - 1) + Window(input, p + 1, PRECISION - 1)
        /\ Window(input, p + 1, PRECISION - 1) \in Nat
    BY <2>1, CodeParts
  <2>. QED  BY <2>2, <2>3, <2>4, <2>5 DEF P
<1>4. Half = 2 * Quarter /\ Quarter \in Nat
  BY Register
<1>5. Origin("lower") = 0 /\ Origin("upper") = Half /\ Origin("middle") = Quarter
  BY DEF Origin
<1>6. part \in {"lower", "upper", "middle"}
  BY <1>1, PartIs
<1>7. CASE part # "middle"
  <2>1. PICK b \in Bit : b = (IF part = "upper" THEN 1 ELSE 0)
    BY DEF Bit
  <2>2. e2.bits = Settled(e.bits, b, c) /\ e2.carryRun = 0
    <3>1. Emitted(e, part) = Settled(e.bits, b, c)
      BY <1>a, <1>7, <2>1 DEF Emitted, Settled
    <3>. QED  BY <1>0, <1>7, <3>1, RoundIs
  <2>3. /\ Len(e2.bits) = p
        /\ \A i \in 1 .. L : e2.bits[i] = e.bits[i]
        /\ e2.bits[L + 1] = b
        /\ \A i \in 1 .. c : e2.bits[L + 1 + i] = 1 - b
    <3>1. PICK s : s = Settled(e.bits, b, c)
      OBVIOUS
    <3>2. /\ Len(s) = L + 1 + c
          /\ \A i \in 1 .. L : s[i] = e.bits[i]
          /\ s[L + 1] = b
          /\ \A i \in 1 .. c : s[L + 1 + i] = 1 - b
      <4>1. e.bits \in Seq(Bit) /\ b \in Bit /\ c \in Nat
        BY <1>1
      <4>2. /\ Len(s) = Len(e.bits) + 1 + c
            /\ \A i \in 1 .. Len(e.bits) : s[i] = e.bits[i]
            /\ s[Len(e.bits) + 1] = b
            /\ \A i \in 1 .. c : s[Len(e.bits) + 1 + i] = 1 - b
        <5>1. PICK B \in Seq(Bit) : B = e.bits
          BY <4>1
        <5>2. Len(s) = Len(B) + 1 + c /\ s[Len(B) + 1] = b
          BY <3>1, <5>1, SettledIs
        <5>3. \A i \in 1 .. Len(B) : s[i] = B[i]
          BY <3>1, <5>1, SettledIs
        <5>4. \A i \in 1 .. c : s[Len(B) + 1 + i] = 1 - b
          BY <3>1, <5>1, SettledIs
        <5>. QED  BY <5>1, <5>2, <5>3, <5>4
      <4>. QED  BY <1>a, <4>2
    <3>. QED  BY <1>2, <2>2, <3>1, <3>2
  <2>4. \A i \in 1 .. p : InputBit(input, i) = e2.bits[i]
    BY <1>0, <2>3 DEF Agrees
  <2>5. InputBit(input, L + 1) = b
    <3>1. L + 1 \in 1 .. p
      BY <1>2, <1>3
    <3>. QED  BY <2>3, <2>4, <3>1
  <2>6. Agrees(e, input)
    <3>1. \A i \in 1 .. L : i \in 1 .. p
      BY <1>2, <1>3
    <3>2. \A i \in 1 .. c : L + 1 + i \in 1 .. p
      BY <1>2, <1>3
    <3>. QED  BY <1>a, <2>3, <2>4, <2>5, <3>1, <3>2 DEF Agrees
  <2>7. Code(e2, input) = Window(input, p, PRECISION)
    <3>1. Len(e2.bits) + 1 + e2.carryRun = p + 1
      BY <1>3, <2>2, <2>3
    <3>. QED  BY <1>3, <2>3, <3>1 DEF Code
  <2>8. Code(e, input) - Origin(part) = Window(input, p, P)
    <3>1. CASE part = "lower"
      <4>1. Code(e, input) = 0 + Window(input, p, P)
        BY <1>3, <2>1, <2>5, <3>1
      <4>. QED  BY <1>3, <1>5, <3>1, <4>1
    <3>2. CASE part = "upper"
      <4>1. Code(e, input) = Half + Window(input, p, P)
        BY <1>3, <2>1, <2>5, <3>2
      <4>. QED  BY <1>3, <1>4, <1>5, <3>2, <4>1
    <3>. QED  BY <1>6, <1>7, <3>1, <3>2
  <2>9. Len(e2.bits) + e2.carryRun = L + c + 1
    BY <1>2, <2>2, <2>3
  <2>. QED  BY <1>0, <1>a, <1>3, <2>6, <2>7, <2>8, <2>9
<1>8. CASE part = "middle"
  <2>1. e2.bits = e.bits /\ e2.carryRun = c + 1
    <3>1. e2.bits = Emitted(e, part) /\ e2.carryRun = e.carryRun + 1
      <4>1. EncodeRound(e) = [low |-> 2 * (e.low - Origin(part)),
                              high |-> 2 * (e.high - Origin(part)) + 1,
                              carryRun |-> IF part = "middle" THEN e.carryRun + 1 ELSE 0,
                              bits |-> Emitted(e, part)]
        BY RoundIs
      <4>. QED  BY <1>0, <1>8, <4>1
    <3>. QED  BY <1>a, <1>8, <3>1 DEF Emitted
  <2>2. /\ \A i \in 1 .. L : InputBit(input, i) = e.bits[i]
        /\ \A i \in 1 .. c + 1 : InputBit(input, L + 1 + i) = 1 - InputBit(input, L + 1)
    BY <1>0, <1>a, <2>1 DEF Agrees
  <2>3. Agrees(e, input)
    <3>1. \A i \in 1 .. c : i \in 1 .. c + 1
      BY <1>3
    <3>. QED  BY <1>a, <2>2, <3>1 DEF Agrees
  <2>4. InputBit(input, p + 1) = 1 - InputBit(input, L + 1)
    <3>1. c + 1 \in 1 .. c + 1 /\ L + 1 + (c + 1) = p + 1
      BY <1>2
    <3>. QED  BY <2>2, <3>1
  <2>5. Code(e2, input) = (IF InputBit(input, L + 1) = 1 THEN Half ELSE 0) + Window(input, p + 1, P)
    <3>1. Len(e2.bits) + 1 + e2.carryRun = p + 1
      BY <1>a, <1>2, <2>1
    <3>2. PICK q : q = p + 1
      OBVIOUS
    <3>3. Code(e2, input) = (IF InputBit(input, Len(e2.bits) + 1) = 1 THEN Half ELSE 0)
                            + Window(input, q, P)
      BY <3>1, <3>2, CodeParts
    <3>. QED  BY <1>a, <2>1, <3>2, <3>3
  <2>6. Code(e2, input) = 2 * (Code(e, input) - Quarter) + NextBit(e, input)
    <3>1. PICK w \in Nat, v \in Nat, n \in {0, 1}, z \in {0, 1} :
             /\ w = Window(input, p, P) /\ v = Window(input, p + 1, P)
             /\ n = NextBit(e, input) /\ z = InputBit(input, L + 1)
      BY <1>3 DEF Bit
    <3>2. PICK t : t = Top(input, p, P)
      OBVIOUS
    <3>3. 2 * w + n = t + v
      BY <1>3, <3>1, <3>2
    <3>4. t = (IF z = 1 THEN 0 ELSE Half)
      BY <1>3, <2>4, <3>1, <3>2
    <3>5. Code(e, input) = (IF z = 1 THEN Half ELSE 0) + w
      BY <1>3, <3>1
    <3>6. Code(e2, input) = (IF z = 1 THEN Half ELSE 0) + v
      BY <2>5, <3>1
    <3>7. CASE z = 1
      <4>1. t = 0 /\ Code(e, input) = Half + w /\ Code(e2, input) = Half + v
        BY <3>4, <3>5, <3>6, <3>7
      <4>2. Code(e2, input) = 2 * (Code(e, input) - Quarter) + n
        BY <1>4, <3>3, <4>1
      <4>. QED  BY <3>1, <4>2
    <3>8. CASE z = 0
      <4>1. t = Half /\ Code(e, input) = 0 + w /\ Code(e2, input) = 0 + v
        BY <3>4, <3>5, <3>6, <3>8
      <4>2. Code(e2, input) = 2 * (Code(e, input) - Quarter) + n
        BY <1>4, <3>3, <4>1
      <4>. QED  BY <3>1, <4>2
    <3>. QED  BY <3>7, <3>8
  <2>7. Len(e2.bits) + e2.carryRun = L + c + 1
    BY <1>a, <2>1
  <2>. QED  BY <1>0, <1>a, <1>5, <1>8, <2>3, <2>6, <2>7
<1>. QED  BY <1>7, <1>8

\* What fits after a round fits before it, and the decoder makes the same round.
LEMMA RoundFits ==
  ASSUME NEW e \in Encoders, NEW input \in Seq(Bit), Fits(EncodeRound(e), input)
  PROVE  /\ Fits(e, input)
         /\ DecodeRound(DecoderAt(e, input), input) = DecoderAt(EncodeRound(e), input)
<1>. DEFINE d == DecoderAt(e, input)
<1>0. d.low = e.low /\ d.high = e.high /\ PartOf(d) = PartOf(e)
  BY DEF DecoderAt, PartOf
<1>1. CASE PartOf(e) = "open"
  <2>1. EncodeRound(e) = e
    BY <1>1, RoundStays
  <2>2. DecodeRound(d, input) = d
    BY <1>0, <1>1 DEF DecodeRound
  <2>. QED  BY <2>1, <2>2
<1>2. CASE PartOf(e) # "open"
  <2>1. PICK part : part = PartOf(e) /\ part # "open"
    BY <1>2
  <2>2. PICK e2 \in Encoders : e2 = EncodeRound(e)
    BY RoundStays
  <2>3. /\ Agrees(e, input)
        /\ Code(e2, input) = 2 * (Code(e, input) - Origin(part)) + NextBit(e, input)
        /\ Len(e2.bits) + e2.carryRun = Len(e.bits) + e.carryRun + 1
    BY <2>1, <2>2, RoundShifts DEF Fits
  <2>4. e2.low = 2 * (e.low - Origin(part)) /\ e2.high = 2 * (e.high - Origin(part)) + 1
    BY <2>1, <2>2, RoundIs
  <2>5. /\ Len(e.bits) \in Nat /\ e.carryRun \in Nat /\ NextBit(e, input) \in {0, 1}
        /\ Code(e, input) \in Nat
    BY CodeParts DEF Bit
  <2>6. /\ e.low \in Nat /\ e.high \in Nat /\ e.low <= e.high /\ e.high < 4 * Quarter
    BY EncoderIs
  <2>7. Origin(part) \in Nat /\ Origin(part) <= e.low /\ e.high - Origin(part) < Half
    BY <2>1, <2>6, PartIs
  <2>8. e2.low <= Code(e2, input) /\ Code(e2, input) <= e2.high
    BY <2>2 DEF Fits
  <2>9. e.low <= Code(e, input) /\ Code(e, input) <= e.high
    <3>1. PICK l \in Nat, h \in Nat, o \in Nat, x \in Nat, n \in {0, 1} :
             l = e.low /\ h = e.high /\ o = Origin(part) /\ x = Code(e, input) /\ n = NextBit(e, input)
      BY <2>5, <2>6, <2>7
    <3>2. 2 * (l - o) <= 2 * (x - o) + n /\ 2 * (x - o) + n <= 2 * (h - o) + 1
      BY <2>3, <2>4, <2>8, <3>1
    <3>3. l <= x /\ x <= h
      BY <3>2
    <3>. QED  BY <3>1, <3>3
  <2>10. (2 * (Code(e, input) - Origin(part))) % (Mask + 1) = 2 * (Code(e, input) - Origin(part))
    <3>1. PICK x \in Nat, m \in Nat \ {0} : x = 2 * (Code(e, input) - Origin(part)) /\ m = Mask + 1 /\ x < m
      <4>1. Mask + 1 = 4 * Quarter /\ Half = 2 * Quarter /\ Quarter \in Nat /\ Quarter >= 2
        BY Register
      <4>. QED  BY <2>5, <2>6, <2>7, <2>9, <4>1
    <3>. QED  BY <3>1
  <2>11. DecodeRound(d, input) = DecoderAt(e2, input)
    <3>1. d = [low |-> e.low, high |-> e.high, pos |-> PRECISION + Len(e.bits) + e.carryRun,
               code |-> Code(e, input)]
      BY DEF DecoderAt
    <3>2. Shift(d, part) = [d EXCEPT !.low = e2.low, !.high = e2.high]
      <4>. HIDE DEF d
      <4>1. Shift(d, part) = [d EXCEPT !.low = 2 * (e.low - Origin(part)),
                                       !.high = 2 * (e.high - Origin(part)) + 1]
        BY <1>0, <2>1, <2>6, ShiftIs
      <4>. QED  BY <2>4, <4>1
    <3>3. InputBit(input, d.pos + 1) = NextBit(e, input)
      BY <3>1 DEF NextBit
    <3>4. d.pos + 1 = PRECISION + Len(e2.bits) + e2.carryRun
      <4>1. PICK e2l \in Nat, e2c \in Nat : e2l = Len(e2.bits) /\ e2c = e2.carryRun
        BY EncoderIs, LenProperties
      <4>2. PICK l \in Nat, c \in Nat, p \in Nat : l = Len(e.bits) /\ c = e.carryRun /\ p = PRECISION
        BY <2>5, Register
      <4>3. e2l + e2c = l + c + 1
        BY <2>3, <4>1, <4>2
      <4>4. d.pos = p + l + c
        BY <3>1, <4>2
      <4>5. p + l + c + 1 = p + e2l + e2c
        BY <4>3
      <4>. QED  BY <4>1, <4>2, <4>4, <4>5
    <3>5. DecodeRound(d, input) =
            [Shift(d, part) EXCEPT !.pos = d.pos + 1,
               !.code = ((2 * (d.code - Origin(part))) % (Mask + 1)) + InputBit(input, d.pos + 1)]
      <4>. HIDE DEF d
      <4>. QED  BY <1>0, <2>1 DEF DecodeRound
    <3>6. ((2 * (d.code - Origin(part))) % (Mask + 1)) + InputBit(input, d.pos + 1) = Code(e2, input)
      BY <2>3, <2>10, <3>1, <3>3
    <3>7. d.code = Code(e, input)
      BY <3>1
    <3>8. DecodeRound(d, input) = [low |-> e2.low, high |-> e2.high,
                                   pos |-> PRECISION + Len(e2.bits) + e2.carryRun, code |-> Code(e2, input)]
      <4>1. PICK x, y : x = d.pos + 1 /\ y = Code(e2, input)
        OBVIOUS
      <4>2. DecodeRound(d, input) = [[d EXCEPT !.low = e2.low, !.high = e2.high] EXCEPT !.pos = x, !.code = y]
        <5>. HIDE DEF d
        <5>. QED  BY <3>2, <3>5, <3>6, <4>1
      <4>3. [[d EXCEPT !.low = e2.low, !.high = e2.high] EXCEPT !.pos = x, !.code = y]
              = [low |-> e2.low, high |-> e2.high, pos |-> x, code |-> y]
        <5>1. PICK a, b, z, w : a = e.low /\ b = e.high /\ z = PRECISION + Len(e.bits) + e.carryRun
                               /\ w = Code(e, input)
          OBVIOUS
        <5>2. d = [low |-> a, high |-> b, pos |-> z, code |-> w]
          BY <3>1, <5>1
        <5>3. PICK u, v : u = e2.low /\ v = e2.high
          OBVIOUS
        <5>4. PICK k : k = [[low |-> a, high |-> b, pos |-> z, code |-> w] EXCEPT !.low = u, !.high = v]
          OBVIOUS
        <5>5. k = [low |-> k.low, high |-> k.high, pos |-> k.pos, code |-> k.code]
              /\ k.low = u /\ k.high = v /\ k.pos = z /\ k.code = w
          BY <5>4
        <5>6. k = [low |-> u, high |-> v, pos |-> z, code |-> w]
          BY <5>5, Zenon
        <5>7. PICK m : m = [[low |-> u, high |-> v, pos |-> z, code |-> w] EXCEPT !.pos = x, !.code = y]
          OBVIOUS
        <5>8. m = [low |-> m.low, high |-> m.high, pos |-> m.pos, code |-> m.code]
              /\ m.low = u /\ m.high = v /\ m.pos = x /\ m.code = y
          BY <5>7
        <5>9. m = [low |-> u, high |-> v, pos |-> x, code |-> y]
          BY <5>8, Zenon
        <5>. HIDE DEF d
        <5>. QED  BY <5>2, <5>3, <5>4, <5>6, <5>7, <5>9, Zenon
      <4>. QED  BY <3>4, <4>1, <4>2, <4>3
    <3>. QED  BY <3>8 DEF DecoderAt
  <2>. QED  BY <2>2, <2>3, <2>9, <2>11 DEF Fits
<1>. QED  BY <1>1, <1>2

-----------------------------------------------------------------------------
(* A symbol of the arithmetic coder *)

\* If the stream fits the last round it fits them all.
LEMMA RoundsFit ==
  ASSUME NEW e \in Encoders, NEW f, Rounds(f, e), NEW input \in Seq(Bit),
         Fits(f[PRECISION], input)
  PROVE  \A k \in 0 .. PRECISION : Fits(f[k], input)
<1>1. /\ \A k \in 0 .. PRECISION : f[k] \in Encoders
      /\ \A k \in 1 .. PRECISION : f[k] = EncodeRound(f[k - 1])
  BY RoundsNext
<1>2. PRECISION \in Nat
  BY Register
<1>. DEFINE T == {j \in Nat : j <= PRECISION => Fits(f[PRECISION - j], input)}
<1>3. 0 \in T
  <2>1. PRECISION - 0 = PRECISION
    BY <1>2
  <2>. QED  BY <2>1
<1>4. ASSUME NEW j \in Nat, j \in T  PROVE j + 1 \in T
  <2>1. SUFFICES ASSUME j + 1 <= PRECISION PROVE Fits(f[PRECISION - (j + 1)], input)
    OBVIOUS
  <2>2. PICK k \in 0 .. PRECISION : k = PRECISION - (j + 1)
    BY <1>2, <2>1
  <2>3. k + 1 = PRECISION - j /\ k + 1 \in 1 .. PRECISION /\ (k + 1) - 1 = k /\ j <= PRECISION
    BY <1>2, <2>1, <2>2
  <2>4. Fits(f[k + 1], input)
    BY <1>4, <2>3
  <2>5. f[k] \in Encoders /\ f[k + 1] = EncodeRound(f[k])
    BY <1>1, <2>3
  <2>6. Fits(f[k], input)
    BY <2>4, <2>5, RoundFits
  <2>. QED  BY <2>2, <2>6
<1>. HIDE DEF T
<1>5. \A j \in Nat : j \in T
  BY <1>3, <1>4, NatSet
<1>6. ASSUME NEW k \in 0 .. PRECISION  PROVE Fits(f[k], input)
  <2>1. PICK j \in Nat : j = PRECISION - k /\ j <= PRECISION /\ PRECISION - j = k
    <3>1. PRECISION - k \in Nat /\ PRECISION - k <= PRECISION /\ PRECISION - (PRECISION - k) = k
      BY <1>2
    <3>. QED  BY <3>1
  <2>2. j \in T
    BY <1>5
  <2>. QED  BY <2>1, <2>2 DEF T
<1>. QED  BY <1>6

\* The decoder makes the encoder's rounds.
LEMMA AdvanceIs ==
  ASSUME NEW e \in OpenEncoders, NEW lo, NEW hi, IsShare(lo, hi, CDF_TOTAL),
         NEW input \in Seq(Bit), Fits(EncodeCounts(e, lo, hi), input)
  PROVE  /\ AdvanceCounts(DecoderAt(e, input), lo, hi, input)
              = DecoderAt(EncodeCounts(e, lo, hi), input)
         /\ Fits(Narrow(e, lo, hi), input)
<1>. DEFINE d == DecoderAt(e, input)
            s == Narrow(d, lo, hi)
            Body(h) == [k \in 0 .. PRECISION |-> IF k = 0 THEN s ELSE DecodeRound(h[k - 1], input)]
            w == CHOOSE h : h = Body(h)
<1>0. PRECISION \in Nat
  BY Register
<1>1. PICK n \in Encoders : n = Narrow(e, lo, hi)
  BY NarrowIs
<1>2. PICK f : Rounds(f, n) /\ EncodeCounts(e, lo, hi) = f[PRECISION]
  BY <1>1, RoundsExist
<1>3. /\ f[0] = n
      /\ \A k \in 0 .. PRECISION : f[k] \in Encoders
      /\ \A k \in 1 .. PRECISION : f[k] = EncodeRound(f[k - 1])
  BY <1>2, RoundsNext
<1>4. \A k \in 0 .. PRECISION : Fits(f[k], input)
  BY <1>2, RoundsFit
<1>5. s = DecoderAt(n, input)
  <2>1. PICK range : range = e.high - e.low + 1
    OBVIOUS
  <2>2. n = [low |-> e.low + (range * lo) \div CDF_TOTAL,
             high |-> e.low + (range * hi) \div CDF_TOTAL - 1,
             carryRun |-> e.carryRun, bits |-> e.bits]
    BY <1>1, <2>1, NarrowIs
  <2>3. PICK z, c : z = PRECISION + Len(e.bits) + e.carryRun /\ c = Code(e, input)
    OBVIOUS
  <2>4. d = [low |-> e.low, high |-> e.high, pos |-> z, code |-> c]
    BY <2>3 DEF DecoderAt
  <2>5. d.low = e.low /\ d.high = e.high
    BY <2>4
  <2>6. s = [d EXCEPT !.low = n.low, !.high = n.high]
    <3>1. s = [d EXCEPT !.low = e.low + (range * lo) \div CDF_TOTAL,
                        !.high = e.low + (range * hi) \div CDF_TOTAL - 1]
      <4>. HIDE DEF d
      <4>. QED  BY <2>1, <2>5 DEF Narrow
    <3>2. n.low = e.low + (range * lo) \div CDF_TOTAL /\ n.high = e.low + (range * hi) \div CDF_TOTAL - 1
      BY <2>2
    <3>. HIDE DEF s, d
    <3>. QED  BY <3>1, <3>2
  <2>7. PICK u, v : u = n.low /\ v = n.high
    OBVIOUS
  <2>8. s = [low |-> s.low, high |-> s.high, pos |-> s.pos, code |-> s.code]
        /\ s.low = u /\ s.high = v /\ s.pos = z /\ s.code = c
    <3>1. PICK g : g = d
      OBVIOUS
    <3>2. PICK t : t = s
      OBVIOUS
    <3>3. t = [g EXCEPT !.low = u, !.high = v] /\ g = [low |-> e.low, high |-> e.high, pos |-> z, code |-> c]
      BY <2>4, <2>6, <2>7, <3>1, <3>2
    <3>4. t = [low |-> t.low, high |-> t.high, pos |-> t.pos, code |-> t.code]
          /\ t.low = u /\ t.high = v /\ t.pos = z /\ t.code = c
      BY <3>3
    <3>. HIDE DEF s
    <3>. QED  BY <3>2, <3>4
  <2>9. DecoderAt(n, input) = [low |-> u, high |-> v, pos |-> z, code |-> c]
    <3>1. n.bits = e.bits /\ n.carryRun = e.carryRun
      BY <2>2
    <3>2. Code(n, input) = Code(e, input)
      BY <3>1 DEF Code
    <3>. QED  BY <2>3, <2>7, <3>1, <3>2 DEF DecoderAt
  <2>. HIDE DEF s
  <2>. QED  BY <2>8, <2>9, Zenon
<1>. DEFINE F == [k \in 0 .. PRECISION |-> DecoderAt(f[k], input)]
<1>6. AdvanceCounts(d, lo, hi, input) = w[PRECISION]
  BY DEF AdvanceCounts
<1>. HIDE DEF s, d
<1>7. \A k \in 1 .. PRECISION : F[k] = DecodeRound(F[k - 1], input)
  <2>1. SUFFICES ASSUME NEW k \in 1 .. PRECISION PROVE F[k] = DecodeRound(F[k - 1], input)
    OBVIOUS
  <2>2. k \in 0 .. PRECISION /\ k - 1 \in 0 .. PRECISION
    BY <1>0
  <2>3. F[k] = DecoderAt(f[k], input) /\ F[k - 1] = DecoderAt(f[k - 1], input)
    BY <2>2
  <2>4. f[k - 1] \in Encoders /\ f[k] = EncodeRound(f[k - 1]) /\ Fits(f[k], input)
    BY <1>3, <1>4, <2>2
  <2>5. PICK q \in Encoders : q = f[k - 1]
    BY <2>4
  <2>6. DecodeRound(DecoderAt(q, input), input) = DecoderAt(EncodeRound(q), input)
    BY <2>4, <2>5, RoundFits
  <2>. QED  BY <2>3, <2>4, <2>5, <2>6
<1>8. F[0] = s
  BY <1>0, <1>3, <1>5
<1>9. F = Body(F)
  <2>1. \A k \in 0 .. PRECISION : F[k] = IF k = 0 THEN s ELSE DecodeRound(F[k - 1], input)
    <3>1. \A k \in 0 .. PRECISION : k = 0 \/ k \in 1 .. PRECISION
      BY <1>0
    <3>. HIDE DEF F
    <3>. QED  BY <1>7, <1>8, <3>1
  <2>2. F = [k \in 0 .. PRECISION |-> F[k]]
    OBVIOUS
  <2>. HIDE DEF F
  <2>. QED  BY <2>1, <2>2
<1>10. F[PRECISION] = DecoderAt(EncodeCounts(e, lo, hi), input)
  BY <1>0, <1>2
<1>. HIDE DEF F
<1>11. w = Body(w)
  <2>. HIDE DEF Body
  <2>. QED  BY <1>9
<1>. HIDE DEF w
<1>12. \A k \in 0 .. PRECISION : w[k] = IF k = 0 THEN s ELSE DecodeRound(w[k - 1], input)
  <2>. DEFINE b == Body(w)
  <2>1. \A k \in 0 .. PRECISION : b[k] = IF k = 0 THEN s ELSE DecodeRound(w[k - 1], input)
    OBVIOUS
  <2>2. w = b
    BY <1>11
  <2>. HIDE DEF b
  <2>. QED  BY <2>1, <2>2
<1>. HIDE DEF Body
<1>. DEFINE T == {k \in Nat : k <= PRECISION => w[k] = F[k]}
<1>13. 0 \in T
  BY <1>0, <1>8, <1>12
<1>14. ASSUME NEW k \in Nat, k \in T  PROVE k + 1 \in T
  <2>1. SUFFICES ASSUME k + 1 <= PRECISION PROVE w[k + 1] = F[k + 1]
    OBVIOUS
  <2>2. k + 1 \in 0 .. PRECISION /\ k + 1 \in 1 .. PRECISION /\ (k + 1) - 1 = k /\ k <= PRECISION /\ k + 1 # 0
    BY <1>0, <2>1
  <2>3. w[k + 1] = DecodeRound(w[k], input)
    BY <1>12, <2>2
  <2>4. F[k + 1] = DecodeRound(F[k], input)
    BY <1>7, <2>2
  <2>. QED  BY <1>14, <2>2, <2>3, <2>4
<1>. HIDE DEF T
<1>15. PRECISION \in T
  BY <1>0, <1>13, <1>14, NatSet
<1>16. w[PRECISION] = F[PRECISION]
  BY <1>0, <1>15 DEF T
<1>17. Fits(n, input)
  BY <1>0, <1>3, <1>4
<1>. QED  BY <1>1, <1>6, <1>10, <1>16, <1>17 DEF d

\* What fits the share of a symbol gives that symbol's share back.
LEMMA CountsFit ==
  ASSUME NEW e \in OpenEncoders, NEW lo, NEW hi, IsShare(lo, hi, CDF_TOTAL),
         NEW input \in Seq(Bit), Fits(EncodeCounts(e, lo, hi), input)
  PROVE  /\ Fits(e, input)
         /\ CodeValue(DecoderAt(e, input)) \in Nat
         /\ lo <= CodeValue(DecoderAt(e, input)) /\ CodeValue(DecoderAt(e, input)) < hi
<1>1. PICK range : range = e.high - e.low + 1
  OBVIOUS
<1>2. /\ range \in Nat \ {0}
      /\ (range * lo) \div CDF_TOTAL \in Nat /\ (range * hi) \div CDF_TOTAL \in Nat
      /\ (range * lo) \div CDF_TOTAL < (range * hi) \div CDF_TOTAL
      /\ (range * hi) \div CDF_TOTAL <= range
      /\ Narrow(e, lo, hi) = [low |-> e.low + (range * lo) \div CDF_TOTAL,
                              high |-> e.low + (range * hi) \div CDF_TOTAL - 1,
                              carryRun |-> e.carryRun, bits |-> e.bits]
  BY <1>1, NarrowIs
<1>3. PICK n : n = Narrow(e, lo, hi)
  OBVIOUS
<1>4. Fits(n, input)
  BY <1>3, AdvanceIs
<1>5. PICK T \in Nat \ {0} : T = CDF_TOTAL
  BY Register
<1>6. PICK p \in Nat, q \in Nat : p = (range * lo) \div T /\ q = (range * hi) \div T /\ q <= range
  BY <1>2, <1>5
<1>7. n.low = e.low + p /\ n.high = e.low + q - 1 /\ n.bits = e.bits /\ n.carryRun = e.carryRun
  BY <1>2, <1>3, <1>5, <1>6
<1>8. Code(n, input) = Code(e, input) /\ (Agrees(n, input) <=> Agrees(e, input))
  BY <1>7 DEF Code, Agrees
<1>9. PICK l \in Nat, h \in Nat, c \in Nat : l = e.low /\ h = e.high /\ c = Code(e, input)
  BY EncoderIs, CodeParts DEF OpenEncoders
<1>10. l + p <= c /\ c <= l + q - 1 /\ range = h - l + 1
  BY <1>1, <1>4, <1>7, <1>8, <1>9 DEF Fits
<1>11. Fits(e, input)
  <2>1. l <= c /\ c <= h
    BY <1>6, <1>10
  <2>. QED  BY <1>4, <1>8, <1>9, <2>1 DEF Fits
<1>12. PICK x \in Nat : x = c - l
  BY <1>10
<1>13. p <= x /\ x + 1 <= q
  BY <1>10, <1>12
<1>14. lo \in Nat /\ hi \in Nat
  BY DEF IsShare
<1>15. PICK A \in Nat, B \in Nat : A = range * lo /\ B = range * hi
  BY <1>2, <1>14, SMT
<1>16. PICK N \in Nat : N = (x + 1) * T - 1
  <2>1. PICK y \in Nat \ {0} : y = (x + 1) * T
    <3>1. (x + 1) * T = x * T + T /\ x * T \in Nat
      BY SMT
    <3>. QED  BY <3>1
  <2>. QED  BY <2>1
<1>17. A <= N
  <2>1. A = T * p + (A % T) /\ A % T \in 0 .. T - 1
    <3>1. A \div T = p
      BY <1>6, <1>15
    <3>. QED  BY <3>1, Division
  <2>2. T * (p + 1) <= T * (x + 1)
    BY <1>13, ProductGrows
  <2>3. T * (p + 1) = T * p + T /\ (x + 1) * T = T * (x + 1)
    BY SMT
  <2>4. PICK u \in Nat, v \in Nat, r \in 0 .. T - 1 : u = T * p /\ v = T * (x + 1) /\ r = A % T
    <3>1. T * p \in Nat /\ T * (x + 1) \in Nat
      BY SMT
    <3>. QED  BY <2>1, <3>1
  <2>5. A = u + r /\ u + T <= v /\ N = v - 1
    BY <1>16, <2>1, <2>2, <2>3, <2>4
  <2>. QED  BY <2>5
<1>18. N < B
  <2>1. B = T * q + (B % T) /\ B % T \in 0 .. T - 1
    <3>1. B \div T = q
      BY <1>6, <1>15
    <3>. QED  BY <3>1, Division
  <2>2. T * (x + 1) <= T * q
    BY <1>13, ProductGrows
  <2>3. (x + 1) * T = T * (x + 1)
    BY SMT
  <2>4. PICK u \in Nat, v \in Nat, r \in 0 .. T - 1 : u = T * q /\ v = T * (x + 1) /\ r = B % T
    <3>1. T * q \in Nat /\ T * (x + 1) \in Nat
      BY SMT
    <3>. QED  BY <2>1, <3>1
  <2>5. B = u + r /\ v <= u /\ N = v - 1
    BY <1>16, <2>1, <2>2, <2>3, <2>4
  <2>. QED  BY <2>5
<1>19. CodeValue(DecoderAt(e, input)) = N \div range
  <2>1. PICK d : d = DecoderAt(e, input)
    OBVIOUS
  <2>2. d.code = c /\ d.low = l /\ d.high = h
    BY <1>9, <2>1 DEF DecoderAt
  <2>3. CodeValue(d) = ((c - l + 1) * T - 1) \div (h - l + 1)
    BY <1>5, <2>2 DEF CodeValue
  <2>. QED  BY <1>10, <1>12, <1>16, <2>1, <2>3
<1>20. N \div range \in Nat
  BY <1>2, Division
<1>21. lo <= N \div range
  BY <1>2, <1>14, <1>15, <1>17, QuotientAbove
<1>22. N \div range < hi
  BY <1>2, <1>14, <1>15, <1>18, QuotientBelow
<1>. QED  BY <1>11, <1>19, <1>20, <1>21, <1>22

\* A finished stream fits the encoder it was finished with.
LEMMA FinishFits ==
  ASSUME NEW e \in OpenEncoders
  PROVE  FinishEncoder(e) \in Seq(Bit) /\ Fits(e, FinishEncoder(e))
<1>1. /\ e.low \in Nat /\ e.high \in Nat /\ e.low <= e.high /\ e.high < 4 * Quarter
      /\ e.carryRun \in Nat /\ e.bits \in Seq(Bit)
      /\ e = [low |-> e.low, high |-> e.high, carryRun |-> e.carryRun, bits |-> e.bits]
  BY EncoderIs DEF OpenEncoders
<1>2. e.low < Half /\ Half <= e.high /\ (e.low < Quarter \/ 3 * Quarter <= e.high)
  BY <1>1, PartIs DEF OpenEncoders
<1>3. PICK b \in Bit : b = (IF e.low < Quarter THEN 0 ELSE 1)
  BY DEF Bit
<1>4. PICK L \in Nat, c \in Nat, B \in Seq(Bit) : L = Len(e.bits) /\ c = e.carryRun /\ B = e.bits
  BY <1>1, LenProperties
<1>a. PICK m \in Nat : m = c + 1
  OBVIOUS
<1>5. PICK last : last = Settled(B, b, m)
  OBVIOUS
<1>6. /\ last \in Seq(Bit) /\ Len(last) = L + 1 + (c + 1)
      /\ last[L + 1] = b
  <2>1. Len(last) = Len(B) + 1 + m /\ last[Len(B) + 1] = b /\ last \in Seq(Bit)
    BY <1>5, SettledIs
  <2>. QED  BY <1>4, <1>a, <2>1
<1>7. \A i \in 1 .. L : last[i] = B[i]
  <2>1. \A i \in 1 .. Len(B) : last[i] = B[i]
    <3>1. \A i \in 1 .. Len(B) : Settled(B, b, m)[i] = B[i]
      BY SettledIs
    <3>. QED  BY <1>5, <3>1
  <2>. QED  BY <1>4, <2>1
<1>8. \A i \in 1 .. c + 1 : last[L + 1 + i] = 1 - b
  <2>1. \A i \in 1 .. m : last[Len(B) + 1 + i] = 1 - b
    <3>1. \A i \in 1 .. m : Settled(B, b, m)[Len(B) + 1 + i] = 1 - b
      BY SettledIs
    <3>. QED  BY <1>5, <3>1
  <2>. QED  BY <1>4, <1>a, <2>1
<1>9. PICK pad : pad = [i \in 1 .. ((-Len(last)) % BYTE_BITS) |-> 0]
  OBVIOUS
<1>10. pad \in Seq(Bit)
  <2>1. PICK k \in Nat : k = (-Len(last)) % BYTE_BITS
    <3>1. PICK x \in Int, n \in Nat \ {0} : x = -Len(last) /\ n = BYTE_BITS
      BY <1>6, ByteAssumption
    <3>2. x % n \in Nat
      OBVIOUS
    <3>. QED  BY <3>1, <3>2
  <2>2. pad \in [1 .. k -> Bit]
    BY <1>9, <2>1 DEF Bit
  <2>. QED  BY <2>2, SeqDef
<1>11. PICK input : input = last \o pad
  OBVIOUS
<1>12. FinishEncoder(e) = input
  <2>1. PutBit([e EXCEPT !.carryRun = @ + 1], b).bits = last
    <3>1. PICK k : k = [e EXCEPT !.carryRun = @ + 1]
      OBVIOUS
    <3>2. k.bits = B /\ k.carryRun = c + 1
      BY <1>1, <1>4, <3>1
    <3>3. PutBit(k, b).bits = k.bits \o <<b>> \o [i \in 1 .. k.carryRun |-> 1 - b]
      <4>1. k = [low |-> k.low, high |-> k.high, carryRun |-> k.carryRun, bits |-> k.bits]
        BY <1>1, <3>1
      <4>. QED  BY <4>1 DEF PutBit
    <3>. QED  BY <1>a, <1>5, <3>1, <3>2, <3>3 DEF Settled
  <2>. QED  BY <1>3, <1>9, <1>11, <2>1 DEF FinishEncoder
<1>13. /\ input \in Seq(Bit) /\ Len(input) = Len(last) + Len(pad)
       /\ \A i \in 1 .. Len(last) + Len(pad) :
            input[i] = IF i <= Len(last) THEN last[i] ELSE pad[i - Len(last)]
  BY <1>6, <1>10, <1>11, ConcatProperties
<1>14. Len(pad) \in Nat
  BY <1>10, LenProperties
<1>15. \A i \in 1 .. L + 1 + (c + 1) : InputBit(input, i) = last[i]
  <2>1. SUFFICES ASSUME NEW i \in 1 .. L + 1 + (c + 1) PROVE InputBit(input, i) = last[i]
    OBVIOUS
  <2>2. i <= Len(last) /\ i \in 1 .. Len(last) + Len(pad) /\ i <= Len(input)
    BY <1>6, <1>13, <1>14
  <2>. QED  BY <1>13, <2>2 DEF InputBit
<1>16. InputBit(input, L + 1) = b
  <2>1. L + 1 \in 1 .. L + 1 + (c + 1)
    OBVIOUS
  <2>. QED  BY <1>6, <1>15, <2>1
<1>17. \A i \in 1 .. c + 1 : InputBit(input, L + 1 + i) = 1 - b
  <2>1. \A i \in 1 .. c + 1 : L + 1 + i \in 1 .. L + 1 + (c + 1)
    OBVIOUS
  <2>. QED  BY <1>8, <1>15, <2>1
<1>18. Agrees(e, input)
  <2>1. \A i \in 1 .. L : InputBit(input, i) = e.bits[i]
    <3>1. \A i \in 1 .. L : i \in 1 .. L + 1 + (c + 1)
      OBVIOUS
    <3>. QED  BY <1>4, <1>7, <1>15, <3>1
  <2>2. \A i \in 1 .. c : InputBit(input, L + 1 + i) = 1 - InputBit(input, L + 1)
    <3>1. \A i \in 1 .. c : i \in 1 .. c + 1
      OBVIOUS
    <3>. QED  BY <1>16, <1>17, <3>1
  <2>. QED  BY <1>4, <2>1, <2>2 DEF Agrees
<1>19. PICK p \in Nat : p = L + 1 + c
  OBVIOUS
<1>20. PICK n \in Nat : PRECISION = n + 2 /\ PRECISION - 1 = n + 1 /\ PRECISION - 2 = n
  <2>1. PICK n \in Nat : n = PRECISION - 2
    BY PrecisionAssumption
  <2>2. PRECISION = n + 2 /\ PRECISION - 1 = n + 1
    BY <2>1, PrecisionAssumption
  <2>. QED  BY <2>1, <2>2
<1>21. Window(input, p, n + 1) = Top(input, p, n) + Window(input, p + 1, n)
  BY <1>13, WindowSplits
<1>22. Window(input, p + 1, n) \in Nat /\ Window(input, p + 1, n) < 2 ^ n
  <2>1. p + 1 \in Nat
    OBVIOUS
  <2>. QED  BY <1>13, <2>1, WindowNext, WindowBelow
<1>23. 2 ^ n = Quarter /\ Quarter \in Nat /\ Half = 2 * Quarter
  BY <1>20, Register
<1>24. InputBit(input, p + 1) = 1 - b
  <2>1. c + 1 \in 1 .. c + 1 /\ L + 1 + (c + 1) = p + 1
    BY <1>19
  <2>. QED  BY <1>17, <2>1
<1>25. Code(e, input) = (IF b = 1 THEN Half ELSE 0) + Window(input, p, n + 1)
  <2>1. e \in Encoders /\ p = Len(e.bits) + 1 + e.carryRun
    BY <1>4, <1>19 DEF OpenEncoders
  <2>2. Code(e, input) = (IF InputBit(input, Len(e.bits) + 1) = 1 THEN Half ELSE 0)
                           + Window(input, p, PRECISION - 1)
    BY <1>13, <2>1, CodeParts
  <2>. QED  BY <1>4, <1>16, <1>20, <2>2
<1>26. PICK w \in Nat : w = Window(input, p + 1, n) /\ w < Quarter
  BY <1>22, <1>23
<1>27. CASE e.low < Quarter
  <2>1. b = 0
    BY <1>3, <1>27
  <2>2. Top(input, p, n) = Quarter
    BY <1>23, <1>24, <2>1 DEF Top
  <2>3. Code(e, input) = 0 + (Quarter + w)
    BY <1>21, <1>25, <1>26, <2>1, <2>2
  <2>4. e.low <= Code(e, input) /\ Code(e, input) <= e.high
    <3>1. PICK l \in Nat, h \in Nat, q \in Nat : l = e.low /\ h = e.high /\ q = Quarter
      BY <1>1, <1>23
    <3>2. l < q /\ 2 * q <= h /\ w < q
      BY <1>2, <1>23, <1>26, <1>27, <3>1
    <3>3. l <= 0 + (q + w) /\ 0 + (q + w) <= h
      BY <3>2
    <3>. QED  BY <2>3, <3>1, <3>3
  <2>. QED  BY <1>12, <1>13, <1>18, <2>4 DEF Fits
<1>28. CASE ~(e.low < Quarter)
  <2>1. b = 1 /\ 3 * Quarter <= e.high
    BY <1>2, <1>3, <1>28
  <2>2. Top(input, p, n) = 0
    BY <1>24, <2>1 DEF Top
  <2>3. Code(e, input) = Half + (0 + w)
    BY <1>21, <1>25, <1>26, <2>1, <2>2
  <2>4. e.low <= Code(e, input) /\ Code(e, input) <= e.high
    <3>1. PICK l \in Nat, h \in Nat, q \in Nat : l = e.low /\ h = e.high /\ q = Quarter
      BY <1>1, <1>23
    <3>2. l < 2 * q /\ 3 * q <= h /\ w < q
      BY <1>2, <1>23, <1>26, <2>1, <3>1
    <3>3. l <= 2 * q + (0 + w) /\ 2 * q + (0 + w) <= h
      BY <3>2
    <3>. QED  BY <1>23, <2>3, <3>1, <3>3
  <2>. QED  BY <1>12, <1>13, <1>18, <2>4 DEF Fits
<1>. QED  BY <1>27, <1>28

LEMMA NewDecoderIs ==
  ASSUME NEW input \in Seq(Bit)
  PROVE  NewDecoder(input) = DecoderAt(NewEncoder, input)
<1>1. PICK n \in Nat : n = PRECISION - 1 /\ PRECISION = n + 1 /\ PRECISION \in Nat
  <2>1. PRECISION - 1 \in Nat /\ (PRECISION - 1) + 1 = PRECISION /\ PRECISION \in Nat
    BY PrecisionAssumption
  <2>. QED  BY <2>1
<1>2. NewEncoder.bits = <<>> /\ NewEncoder.carryRun = 0 /\ NewEncoder.low = 0 /\ NewEncoder.high = Mask
  BY DEF NewEncoder
<1>3. Window(input, 0, n + 1) = Top(input, 0, n) + Window(input, 0 + 1, n)
  <2>1. 0 \in Nat
    OBVIOUS
  <2>. QED  BY <2>1, WindowSplits
<1>4. Len(NewEncoder.bits) = 0
  BY <1>2
<1>5. Code(NewEncoder, input) = Top(input, 0, n) + Window(input, 0 + 1 + 0, n)
  BY <1>1, <1>2, <1>4 DEF Code
<1>6. Code(NewEncoder, input) = Window(input, 0, PRECISION)
  <2>1. 0 + 1 + 0 = 0 + 1
    OBVIOUS
  <2>. QED  BY <1>1, <1>3, <1>5, <2>1
<1>7. PRECISION + Len(NewEncoder.bits) + NewEncoder.carryRun = PRECISION
  BY <1>1, <1>2, <1>4
<1>. QED  BY <1>2, <1>6, <1>7 DEF NewDecoder, DecoderAt

-----------------------------------------------------------------------------
(* Tables *)

LEMMA MaxIs ==
  ASSUME NEW S \in SUBSET Int, S # {}, NEW n \in Int, \A x \in S : x <= n
  PROVE  Max(S) \in S /\ \A x \in S : x <= Max(S)
<1>. DEFINE D == {n - x : x \in S}
<1>1. D \in SUBSET Nat /\ D # {}
  OBVIOUS
<1>. HIDE DEF D
<1>2. PICK m \in D : \A k \in D : m <= k
  BY <1>1, LeastNatural
<1>3. PICK x \in S : m = n - x
  BY <1>2 DEF D
<1>4. ASSUME NEW y \in S  PROVE x >= y
  <2>1. n - y \in D
    BY DEF D
  <2>2. PICK a \in Int, b \in Int : a = x /\ b = y
    OBVIOUS
  <2>3. n - a <= n - b
    BY <1>2, <1>3, <2>1, <2>2
  <2>4. a >= b
    BY <2>3
  <2>. QED  BY <2>2, <2>4
<1>5. Max(S) \in S /\ \A y \in S : Max(S) >= y
  BY <1>4 DEF Max
<1>6. ASSUME NEW y \in S  PROVE y <= Max(S)
  <2>1. PICK a \in Int, b \in Int : a = y /\ b = Max(S)
    BY <1>5
  <2>. QED  BY <1>5, <2>1
<1>. QED  BY <1>5, <1>6

MassStep(pdf) == [x \in Nat \X Nat |-> x[2] + pdf[x[1]]]

LEMMA MassIs ==
  ASSUME NEW pdf \in Seq(Nat), NEW n \in 0 .. Len(pdf)
  PROVE  Mass(pdf, n) \in Nat /\ Mass(pdf, 0) = 0
<1>0. n \in Nat /\ \A i \in 1 .. n : pdf[i] \in Nat
  <2>1. Len(pdf) \in Nat
    BY LenProperties
  <2>. QED  BY <2>1, ElementOfSeq
<1>1. Mass(pdf, 0) = 0
  <2>. DEFINE Body(h) == [i \in 0 .. 0 |-> IF i = 0 THEN 0 ELSE h[i - 1] + pdf[i]]
              w == CHOOSE h : h = Body(h)
  <2>1. Mass(pdf, 0) = w[0]
    BY DEF Mass
  <2>2. [i \in 0 .. 0 |-> 0] = Body([i \in 0 .. 0 |-> 0])
    OBVIOUS
  <2>3. w = Body(w)
    <3>. HIDE DEF Body
    <3>. QED  BY <2>2
  <2>. HIDE DEF w
  <2>4. PICK b : b = Body(w)
    OBVIOUS
  <2>5. b[0] = 0
    BY <2>4
  <2>6. w = b
    BY <2>3, <2>4
  <2>. QED  BY <2>1, <2>5, <2>6
<1>. DEFINE g == MassStep(pdf)
            Body(h) == [i \in 0 .. n |-> IF i = 0 THEN 0 ELSE h[i - 1] + pdf[i]]
            w == CHOOSE h : h = Body(h)
<1>2. ASSUME NEW i \in 1 .. n, NEW v \in Nat
      PROVE  g[<<i, v>>] = v + pdf[i] /\ g[<<i, v>>] \in Nat
  <2>1. <<i, v>> \in Nat \X Nat
    BY <1>0
  <2>. QED  BY <1>0, <2>1 DEF MassStep
<1>. HIDE DEF g
<1>3. PICK f \in [0 .. n -> Nat] : Iterated(f, 0, g, n)
  BY <1>0, <1>2, Iterate
<1>4. \A i \in 0 .. n : f[i] = IF i = 0 THEN 0 ELSE f[i - 1] + pdf[i]
  <2>1. SUFFICES ASSUME NEW i \in 0 .. n PROVE f[i] = IF i = 0 THEN 0 ELSE f[i - 1] + pdf[i]
    OBVIOUS
  <2>2. CASE i = 0
    BY <1>3, <2>2 DEF Iterated
  <2>3. CASE i # 0
    <3>1. i \in 1 .. n /\ i - 1 \in 0 .. n
      BY <1>0, <2>3
    <3>2. f[i - 1] \in Nat /\ f[i] = g[<<i, f[i - 1]>>]
      BY <1>3, <3>1 DEF Iterated
    <3>. QED  BY <1>2, <2>3, <3>1, <3>2
  <2>. QED  BY <2>2, <2>3
<1>5. f = Body(f)
  BY <1>3, <1>4
<1>6. w = Body(w)
  <2>. HIDE DEF Body
  <2>. QED  BY <1>5
<1>7. Mass(pdf, n) = w[n]
  BY DEF Mass
<1>. HIDE DEF w
<1>8. \A i \in 0 .. n : w[i] = IF i = 0 THEN 0 ELSE w[i - 1] + pdf[i]
  <2>1. PICK b : b = Body(w)
    OBVIOUS
  <2>2. \A i \in 0 .. n : b[i] = IF i = 0 THEN 0 ELSE w[i - 1] + pdf[i]
    BY <2>1
  <2>. HIDE DEF Body
  <2>3. w = b
    BY <1>6, <2>1
  <2>. QED  BY <2>2, <2>3
<1>. HIDE DEF Body
<1>. DEFINE T == {k \in Nat : k <= n => w[k] = f[k]}
<1>9. 0 \in T
  BY <1>0, <1>4, <1>8
<1>10. ASSUME NEW k \in Nat, k \in T  PROVE k + 1 \in T
  <2>1. SUFFICES ASSUME k + 1 <= n PROVE w[k + 1] = f[k + 1]
    OBVIOUS
  <2>2. k + 1 \in 0 .. n /\ (k + 1) - 1 = k /\ k <= n /\ k + 1 # 0
    BY <1>0, <2>1
  <2>. QED  BY <1>4, <1>8, <1>10, <2>2
<1>. HIDE DEF T
<1>11. n \in T
  BY <1>0, <1>9, <1>10, NatSet
<1>12. w[n] = f[n] /\ f[n] \in Nat
  BY <1>0, <1>3, <1>11 DEF T
<1>. QED  BY <1>1, <1>7, <1>12

\* A table of n symbols: it rises from 0 to the total.
IsTable(cdf, n, total) ==
  /\ cdf \in Seq(Nat) /\ Len(cdf) = n + 1
  /\ cdf[1] = 0 /\ cdf[n + 1] = total
  /\ \A k \in 1 .. n : cdf[k] < cdf[k + 1]

LEMMA EdgeIs ==
  ASSUME NEW pdf \in Seq(Nat), NEW total \in Nat, NEW i \in 0 .. Len(pdf)
  PROVE  Edge(pdf, total, i) \in Nat /\ Edge(pdf, total, 0) = 0
<1>1. Mass(pdf, i) \in Nat /\ Mass(pdf, 0) = 0
  BY MassIs
<1>2. Mass(pdf, i) * total \in Nat
  BY <1>1, SMT
<1>3. Unit \in Nat \ {0}
  BY DistributionsAssumption
<1>4. (Mass(pdf, i) * total) \div Unit \in Nat
  BY <1>2, <1>3, Division
<1>5. (0 * total) \div Unit = 0
  <2>1. 0 * total = 0
    BY SMT
  <2>2. PICK u \in Nat \ {0} : u = Unit
    BY <1>3
  <2>3. 0 \div u = 0
    OBVIOUS
  <2>. QED  BY <2>1, <2>2, <2>3
<1>. QED  BY <1>1, <1>4, <1>5 DEF Edge

LEMMA ExtraIs ==
  ASSUME NEW pdf \in Seq(Nat), NEW total \in Nat, Len(pdf) <= total, NEW i \in 0 .. Len(pdf)
  PROVE  /\ Extra(pdf, total, i) \in 0 .. total - Len(pdf)
         /\ \A j \in 0 .. i : Extra(pdf, total, j) <= Extra(pdf, total, i)
<1>. DEFINE top == total - Len(pdf)
            Raw(j) == IF Edge(pdf, total, j) - j > top THEN top ELSE Edge(pdf, total, j) - j
            S(k) == {0} \cup {Raw(j) : j \in 1 .. k}
<1>1. Len(pdf) \in Nat /\ top \in Nat
  BY LenProperties
<1>2. \A j \in 1 .. Len(pdf) : Raw(j) \in Int /\ Raw(j) <= top
  <2>1. SUFFICES ASSUME NEW j \in 1 .. Len(pdf) PROVE Raw(j) \in Int /\ Raw(j) <= top
    OBVIOUS
  <2>2. j \in 0 .. Len(pdf)
    BY <1>1
  <2>3. Edge(pdf, total, j) \in Nat
    BY <2>2, EdgeIs
  <2>. HIDE DEF top
  <2>. QED  BY <1>1, <2>2, <2>3
<1>3. \A k \in 0 .. Len(pdf) : Extra(pdf, total, k) = Max(S(k))
  BY DEF Extra
<1>. HIDE DEF Raw
<1>4. ASSUME NEW k \in 0 .. Len(pdf)
      PROVE  /\ S(k) \in SUBSET Int /\ S(k) # {} /\ 0 \in S(k)
             /\ \A x \in S(k) : x <= top
  <2>1. \A j \in 1 .. k : j \in 1 .. Len(pdf)
    BY <1>1
  <2>. HIDE DEF top
  <2>. QED  BY <1>1, <1>2, <2>1
<1>5. ASSUME NEW k \in 0 .. Len(pdf)
      PROVE  /\ Extra(pdf, total, k) \in S(k) /\ \A x \in S(k) : x <= Extra(pdf, total, k)
             /\ Extra(pdf, total, k) \in 0 .. top
  <2>0. S(k) \in SUBSET Int /\ top \in Int
    BY <1>1, <1>4
  <2>1. PICK A \in SUBSET Int, t \in Int : A = S(k) /\ t = top
    <3>. HIDE DEF S, top
    <3>. QED  BY <2>0
  <2>2. A # {} /\ 0 \in A /\ \A x \in A : x <= t
    BY <1>4, <2>1
  <2>. HIDE DEF S, top
  <2>3. Max(A) \in A /\ \A x \in A : x <= Max(A)
    BY <2>2, MaxIs
  <2>4. Max(A) \in 0 .. t
    <3>1. PICK m \in Int : m = Max(A)
      BY <2>3
    <3>. QED  BY <2>2, <2>3, <3>1
  <2>. QED  BY <1>3, <2>1, <2>3, <2>4
<1>6. ASSUME NEW j \in 0 .. i  PROVE Extra(pdf, total, j) <= Extra(pdf, total, i)
  <2>1. j \in 0 .. Len(pdf)
    BY <1>1
  <2>2. S(j) \subseteq S(i)
    <3>1. \A m \in 1 .. j : m \in 1 .. i
      OBVIOUS
    <3>. QED  BY <3>1
  <2>. HIDE DEF S
  <2>. QED  BY <1>5, <2>1, <2>2
<1>. QED  BY <1>5, <1>6

LEMMA QuantiseIs ==
  ASSUME NEW pdf \in Seq(Nat), pdf # <<>>, NEW total \in Nat, Len(pdf) <= total
  PROVE  IsTable(Quantise(pdf, total), Len(pdf), total)
<1>0. PICK n \in Nat \ {0} : n = Len(pdf)
  BY EmptySeq, LenProperties
<1>. DEFINE cdf == Quantise(pdf, total)
            Mid(k) == IF Distinct(pdf, total) THEN Edge(pdf, total, k - 1)
                      ELSE Extra(pdf, total, k - 1) + k - 1
<1>1. \A k \in 1 .. n + 1 : cdf[k] = IF k = 1 THEN 0 ELSE IF k = n + 1 THEN total ELSE Mid(k)
  <2>1. SUFFICES ASSUME NEW k \in 1 .. n + 1
                 PROVE  cdf[k] = IF k = 1 THEN 0 ELSE IF k = n + 1 THEN total ELSE Mid(k)
    OBVIOUS
  <2>2. cdf[k] = CASE k = 1 -> 0
                   [] k = n + 1 -> total
                   [] OTHER -> Mid(k)
    BY <1>0 DEF Quantise
  <2>. HIDE DEF cdf, Mid
  <2>3. CASE k = 1
    <3>1. k # n + 1
      BY <2>3
    <3>. QED  BY <2>2, <2>3, <3>1
  <2>4. CASE k # 1 /\ k = n + 1
    BY <2>2, <2>4
  <2>5. CASE k # 1 /\ k # n + 1
    BY <2>2, <2>5
  <2>. QED  BY <2>3, <2>4, <2>5
<1>2. DOMAIN cdf = 1 .. n + 1 /\ cdf = [k \in 1 .. n + 1 |-> cdf[k]]
  BY <1>0 DEF Quantise
<1>. HIDE DEF cdf
<1>a. ASSUME \A k \in 1 .. n : cdf[k] \in Nat, cdf[n + 1] = total
      PROVE  cdf \in Seq(Nat) /\ Len(cdf) = n + 1
  <2>1. \A k \in 1 .. n + 1 : cdf[k] \in Nat
    <3>1. \A k \in 1 .. n + 1 : k \in 1 .. n \/ k = n + 1
      OBVIOUS
    <3>. QED  BY <1>a, <3>1
  <2>2. cdf \in [1 .. n + 1 -> Nat] /\ n + 1 \in Nat
    BY <1>2, <2>1
  <2>3. cdf \in Seq(Nat)
    BY <2>2, SeqDef
  <2>. QED  BY <1>2, <2>2, <2>3, LenProperties
<1>3. CASE Distinct(pdf, total)
  <2>1. \A k \in 0 .. n : Edge(pdf, total, k) \in Nat
    BY <1>0, EdgeIs
  <2>2. Edge(pdf, total, 0) = 0
    <3>1. 0 \in 0 .. Len(pdf)
      BY <1>0
    <3>. QED  BY <3>1, EdgeIs
  <2>3. \A k \in 1 .. n : Edge(pdf, total, k - 1) < Edge(pdf, total, k) /\ Edge(pdf, total, k) <= total
    BY <1>0, <1>3 DEF Distinct
  <2>4. \A k \in 1 .. n : cdf[k] = Edge(pdf, total, k - 1)
    <3>1. SUFFICES ASSUME NEW k \in 1 .. n PROVE cdf[k] = Edge(pdf, total, k - 1)
      OBVIOUS
    <3>2. k \in 1 .. n + 1 /\ k # n + 1
      OBVIOUS
    <3>3. CASE k = 1
      <4>1. cdf[k] = 0 /\ k - 1 = 0
        BY <1>1, <3>2, <3>3
      <4>. QED  BY <2>2, <4>1
    <3>4. CASE k # 1
      BY <1>1, <1>3, <3>2, <3>4
    <3>. QED  BY <3>3, <3>4
  <2>5. cdf[n + 1] = total /\ cdf[1] = 0
    <3>1. n + 1 \in 1 .. n + 1 /\ 1 \in 1 .. n + 1 /\ n + 1 # 1
      OBVIOUS
    <3>. HIDE DEF Mid
    <3>. QED  BY <1>1, <3>1
  <2>6. \A k \in 1 .. n : cdf[k] \in Nat /\ cdf[k] < cdf[k + 1]
    <3>1. SUFFICES ASSUME NEW k \in 1 .. n PROVE cdf[k] \in Nat /\ cdf[k] < cdf[k + 1]
      OBVIOUS
    <3>2. k - 1 \in 0 .. n /\ k \in 0 .. n
      OBVIOUS
    <3>3. PICK a \in Nat, b \in Nat : a = Edge(pdf, total, k - 1) /\ b = Edge(pdf, total, k)
                                      /\ a < b /\ b <= total
      BY <2>1, <2>3, <3>2
    <3>4. CASE k = n
      <4>1. a < total
        BY <3>3
      <4>. QED  BY <2>4, <2>5, <3>3, <3>4, <4>1
    <3>5. CASE k # n
      <4>1. k + 1 \in 1 .. n /\ (k + 1) - 1 = k
        BY <3>5
      <4>2. cdf[k + 1] = Edge(pdf, total, k)
        BY <2>4, <4>1
      <4>. QED  BY <2>4, <3>3, <4>2
    <3>. QED  BY <3>4, <3>5
  <2>7. cdf \in Seq(Nat) /\ Len(cdf) = n + 1
    <3>1. \A k \in 1 .. n : cdf[k] \in Nat
      BY <2>6
    <3>2. cdf[n + 1] = total
      BY <2>5
    <3>. QED  BY <1>a, <3>1, <3>2
  <2>. QED  BY <1>0, <2>5, <2>6, <2>7 DEF IsTable, cdf
<1>4. CASE ~ Distinct(pdf, total)
  <2>1. \A k \in 0 .. n : /\ Extra(pdf, total, k) \in 0 .. total - n
                          /\ \A j \in 0 .. k : Extra(pdf, total, j) <= Extra(pdf, total, k)
    BY <1>0, ExtraIs
  <2>2. \A k \in 2 .. n : cdf[k] = Extra(pdf, total, k - 1) + k - 1
    <3>1. SUFFICES ASSUME NEW k \in 2 .. n PROVE cdf[k] = Extra(pdf, total, k - 1) + k - 1
      OBVIOUS
    <3>2. k \in 1 .. n + 1 /\ k # n + 1 /\ k # 1
      OBVIOUS
    <3>. QED  BY <1>1, <1>4, <3>2
  <2>3. cdf[n + 1] = total /\ cdf[1] = 0
    <3>1. n + 1 \in 1 .. n + 1 /\ 1 \in 1 .. n + 1 /\ n + 1 # 1
      OBVIOUS
    <3>. HIDE DEF Mid
    <3>. QED  BY <1>1, <3>1
  <2>4. \A k \in 1 .. n : cdf[k] \in Nat /\ cdf[k] < cdf[k + 1]
    <3>1. SUFFICES ASSUME NEW k \in 1 .. n PROVE cdf[k] \in Nat /\ cdf[k] < cdf[k + 1]
      OBVIOUS
    <3>2. k - 1 \in 0 .. n /\ k \in 0 .. n /\ k - 1 \in 0 .. k
      OBVIOUS
    <3>3. PICK a \in 0 .. total - n, b \in 0 .. total - n :
             a = Extra(pdf, total, k - 1) /\ b = Extra(pdf, total, k) /\ a <= b
      BY <2>1, <3>2
    <3>0. n <= total
      BY <1>0
    <3>4. cdf[k] = (IF k = 1 THEN 0 ELSE a + k - 1)
      BY <2>2, <2>3, <3>3
    <3>5. cdf[k + 1] = (IF k = n THEN total ELSE b + k)
      <4>1. CASE k = n
        BY <2>3, <4>1
      <4>2. CASE k # n
        <5>1. k + 1 \in 2 .. n /\ (k + 1) - 1 = k
          BY <4>2
        <5>2. cdf[k + 1] = Extra(pdf, total, (k + 1) - 1) + (k + 1) - 1
          BY <2>2, <5>1
        <5>3. cdf[k + 1] = b + (k + 1) - 1
          BY <3>3, <5>1, <5>2
        <5>. QED  BY <4>2, <5>3
      <4>. QED  BY <4>1, <4>2
    <3>6. PICK u \in Nat, v \in Nat : u = cdf[k] /\ v = cdf[k + 1] /\ u < v
      BY <3>0, <3>3, <3>4, <3>5
    <3>. QED  BY <3>6
  <2>5. cdf \in Seq(Nat) /\ Len(cdf) = n + 1
    <3>1. \A k \in 1 .. n : cdf[k] \in Nat
      BY <2>4
    <3>2. cdf[n + 1] = total
      BY <2>3
    <3>. QED  BY <1>a, <3>1, <3>2
  <2>. QED  BY <1>0, <2>3, <2>4, <2>5 DEF IsTable, cdf
<1>. QED  BY <1>3, <1>4 DEF cdf

\* The search finds the symbol whose share holds a value.
LEMMA TableRises ==
  ASSUME NEW cdf, NEW n \in Nat, NEW total, IsTable(cdf, n, total), NEW s \in 1 .. n + 1
  PROVE  \A t \in s .. n + 1 : cdf[s] <= cdf[t]
<1>1. \A k \in 1 .. n + 1 : cdf[k] \in Nat
  BY ElementOfSeq DEF IsTable
<1>. DEFINE T == {k \in Nat : s + k <= n + 1 => cdf[s] <= cdf[s + k]}
<1>2. 0 \in T
  BY <1>1
<1>3. ASSUME NEW k \in Nat, k \in T  PROVE k + 1 \in T
  <2>1. SUFFICES ASSUME s + (k + 1) <= n + 1 PROVE cdf[s] <= cdf[s + (k + 1)]
    OBVIOUS
  <2>2. s + k \in 1 .. n /\ s + k \in 1 .. n + 1 /\ (s + k) + 1 = s + (k + 1) /\ s + (k + 1) \in 1 .. n + 1
    BY <2>1
  <2>3. cdf[s + k] < cdf[(s + k) + 1]
    BY <2>2 DEF IsTable
  <2>4. cdf[s] <= cdf[s + k]
    BY <1>3, <2>2
  <2>. QED  BY <1>1, <2>2, <2>3, <2>4
<1>. HIDE DEF T
<1>4. \A k \in Nat : k \in T
  BY <1>2, <1>3, NatSet
<1>5. ASSUME NEW t \in s .. n + 1  PROVE cdf[s] <= cdf[t]
  <2>1. PICK k \in Nat : k = t - s
    OBVIOUS
  <2>2. s + k = t /\ s + k <= n + 1 /\ k \in T
    BY <1>4, <2>1
  <2>. QED  BY <2>2 DEF T
<1>. QED  BY <1>5

LEMMA SymbolAtIs ==
  ASSUME NEW cdf, NEW n \in Nat, NEW total \in Nat, IsTable(cdf, n, total), NEW s \in 1 .. n,
         NEW value \in Nat, cdf[s] <= value, value < cdf[s + 1]
  PROVE  SymbolAt(cdf, value) = s
<1>. DEFINE A == {t \in 1 .. n : t = 1 \/ cdf[t] <= value}
<1>1. SymbolAt(cdf, value) = Max(A)
  <2>1. Len(cdf) - 1 = n
    <3>1. Len(cdf) = n + 1
      BY DEF IsTable
    <3>. QED  BY <3>1
  <2>. QED  BY <2>1 DEF SymbolAt
<1>2. s \in A
  OBVIOUS
<1>3. ASSUME NEW t \in A  PROVE t <= s
  <2>1. CASE t > s
    <3>1. t # 1 /\ t \in 1 .. n /\ cdf[t] <= value
      BY <2>1
    <3>2. s + 1 \in 1 .. n + 1 /\ t \in s + 1 .. n + 1
      BY <2>1
    <3>3. PICK q : q = s + 1
      OBVIOUS
    <3>4. cdf[q] <= cdf[t]
      BY <3>2, <3>3, TableRises
    <3>5. cdf[q] \in Nat /\ cdf[t] \in Nat
      <4>1. q \in 1 .. Len(cdf) /\ t \in 1 .. Len(cdf)
        BY <3>2, <3>3 DEF IsTable
      <4>. QED  BY <4>1, ElementOfSeq DEF IsTable
    <3>6. value < cdf[q]
      BY <3>3
    <3>. QED  BY <3>1, <3>4, <3>5, <3>6
  <2>. QED  BY <2>1
<1>4. A \in SUBSET Int /\ A # {}
  BY <1>2
<1>. HIDE DEF A
<1>5. Max(A) \in A /\ \A x \in A : x <= Max(A)
  BY <1>3, <1>4, MaxIs
<1>6. PICK m \in Int : m = Max(A)
  BY <1>4, <1>5
<1>7. m <= s /\ s <= m
  BY <1>2, <1>3, <1>5, <1>6
<1>. QED  BY <1>1, <1>6, <1>7

\* The split of a bit leaves both values a share.
LEMMA BinarySplitIs ==
  ASSUME NEW pdf \in Seq(Nat), Len(pdf) = 2
  PROVE  IsTable(<<0, BinarySplit(pdf), CDF_TOTAL>>, 2, CDF_TOTAL)
<1>1. PICK T \in Nat : T = CDF_TOTAL /\ T >= 2
  BY Register
<1>2. pdf[2] \in Nat
  <2>1. 2 \in 1 .. Len(pdf)
    OBVIOUS
  <2>. QED  BY <2>1, ElementOfSeq
<1>3. PICK x \in Int : x = (Unit - Clamped(pdf[2])) * CDF_TOTAL
  <2>1. Clamped(pdf[2]) \in Int
    BY <1>2, DistributionsAssumption DEF Clamped
  <2>2. PICK p \in Int : p = Unit - Clamped(pdf[2])
    BY <2>1, DistributionsAssumption
  <2>. QED  BY <1>1, <2>2
<1>4. PICK y \in Int : y = x \div Unit
  BY DistributionsAssumption
<1>5. BinarySplit(pdf) = CASE y < 1 -> 1
                           [] y >= T -> T - 1
                           [] OTHER -> y
  BY <1>1, <1>3, <1>4 DEF BinarySplit
<1>6. BinarySplit(pdf) \in 1 .. T - 1
  <2>1. CASE y < 1
    <3>1. ~(y >= T)
      BY <1>1, <2>1
    <3>. QED  BY <1>1, <1>5, <2>1, <3>1
  <2>2. CASE ~(y < 1) /\ y >= T
    BY <1>1, <1>5, <2>2
  <2>3. CASE ~(y < 1) /\ ~(y >= T)
    BY <1>1, <1>5, <2>3
  <2>. QED  BY <2>1, <2>2, <2>3
<1>7. PICK b \in 1 .. T - 1 : b = BinarySplit(pdf)
  BY <1>6
<1>8. PICK c : c = <<0, b, T>>
  OBVIOUS
<1>9. c \in Seq(Nat) /\ Len(c) = 3 /\ c[1] = 0 /\ c[2] = b /\ c[3] = T
  <2>1. 0 \in Nat /\ b \in Nat /\ T \in Nat
    OBVIOUS
  <2>. QED  BY <1>8, <2>1
<1>10. \A k \in 1 .. 2 : c[k] < c[k + 1]
  <2>1. 0 < b /\ b < T
    OBVIOUS
  <2>2. c[1] < c[1 + 1] /\ c[2] < c[2 + 1]
    BY <1>9, <2>1
  <2>3. \A k \in 1 .. 2 : k = 1 \/ k = 2
    OBVIOUS
  <2>. QED  BY <2>2, <2>3
<1>11. IsTable(c, 2, T)
  BY <1>9, <1>10 DEF IsTable
<1>. QED  BY <1>1, <1>7, <1>8, <1>11

LEMMA CodersDiffer == Ac # AcBits /\ Ac # Rans /\ AcBits # Rans
<1>1. Cardinality({Ac, AcBits, Rans}) = 3
  BY CodersAssumption
<1>2. ASSUME NEW a, NEW b  PROVE Cardinality({a, b}) # 3
  <2>1. IsFiniteSet({a}) /\ Cardinality({a}) = 1
    BY FS_Singleton
  <2>2. Cardinality({a} \cup {b}) = IF b \in {a} THEN Cardinality({a}) ELSE Cardinality({a}) + 1
    BY <2>1, FS_AddElement
  <2>3. {a} \cup {b} = {a, b}
    OBVIOUS
  <2>. QED  BY <2>1, <2>2, <2>3
<1>3. CASE Ac = AcBits
  <2>1. {Ac, AcBits, Rans} = {Ac, Rans}
    BY <1>3
  <2>. QED  BY <1>1, <1>2, <2>1, Zenon
<1>4. CASE Ac = Rans
  <2>1. {Ac, AcBits, Rans} = {Ac, AcBits}
    BY <1>4
  <2>. QED  BY <1>1, <1>2, <2>1, Zenon
<1>5. CASE AcBits = Rans
  <2>1. {Ac, AcBits, Rans} = {Ac, Rans}
    BY <1>5
  <2>. QED  BY <1>1, <1>2, <2>1, Zenon
<1>. QED  BY <1>3, <1>4, <1>5

\* What the tables of a coder add up to.
Total == IF coder = Rans THEN ANS_TOTAL ELSE CDF_TOTAL

LEMMA TableIs ==
  ASSUME coder \in Coders, NEW pdf \in Answers
  PROVE  IsTable(Table(pdf), Len(pdf), Total) /\ Len(pdf) \in Nat
<1>1. /\ pdf \in Distributions /\ pdf \in Seq(Nat) /\ pdf # <<>>
      /\ Len(pdf) <= CDF_TOTAL /\ Len(pdf) <= ANS_TOTAL
  BY DistributionsAssumption DEF Answers
<1>2. CDF_TOTAL \in Nat /\ ANS_TOTAL \in Nat
  BY Register, RansAssumption
<1>3. coder = Ac \/ coder = AcBits \/ coder = Rans
  BY CodersAssumption
<1>4. CASE coder = Ac
  <2>1. Table(pdf) = Quantise(pdf, CDF_TOTAL) /\ Total = CDF_TOTAL
    BY <1>4, CodersDiffer DEF Table, Total
  <2>. QED  BY <1>1, <1>2, <2>1, QuantiseIs, LenProperties
<1>5. CASE coder = AcBits
  <2>1. Table(pdf) = <<0, BinarySplit(pdf), CDF_TOTAL>> /\ Total = CDF_TOTAL
    BY <1>5, CodersDiffer DEF Table, Total
  <2>2. Len(pdf) = 2
    BY <1>5 DEF Answers
  <2>. QED  BY <1>1, <2>1, <2>2, BinarySplitIs
<1>6. CASE coder = Rans
  <2>1. Table(pdf) = Quantise(pdf, ANS_TOTAL) /\ Total = ANS_TOTAL
    BY <1>6, CodersDiffer DEF Table, Total
  <2>. QED  BY <1>1, <1>2, <2>1, QuantiseIs, LenProperties
<1>. QED  BY <1>3, <1>4, <1>5, <1>6

-----------------------------------------------------------------------------
(* One step of the rANS coder *)

\* A coder with its register in range, and a symbol with a share of the table.
RansCoders == [state : ANS_LOW .. ANS_HIGH - 1, words : Seq(0 .. Word - 1)]
Shares == {c \in [lo : Nat, hi : Nat] : c.lo < c.hi /\ c.hi <= ANS_TOTAL}

LEMMA Parameters ==
  /\ ANS_TOTAL \in Nat \ {0} /\ Word \in Nat \ {0} /\ ANS_TOTAL <= Word
  /\ ANS_LOW = ANS_TOTAL /\ ANS_HIGH = ANS_TOTAL * Word /\ ANS_HIGH \in Nat
  /\ \A c \in Shares : Freq(c) \in 1 .. ANS_TOTAL
<1>1. ANS_TOTAL \in Nat \ {0} /\ Word \in Nat \ {0} /\ ANS_TOTAL <= Word
  BY RansAssumption
<1>2. ANS_TOTAL * Word \in Nat  BY <1>1, SMT
<1>3. \A c \in Shares : Freq(c) \in 1 .. ANS_TOTAL  BY <1>1 DEF Shares, Freq
<1>. QED  BY <1>1, <1>2, <1>3 DEF ANS_LOW, ANS_HIGH

\* Shedding leaves a number that the symbol fits on top of, and loses nothing:
\* a decoder that gets it back takes a word exactly if one was shed.
LEMMA ShedFits ==
  ASSUME NEW rc \in RansCoders, NEW f \in 1 .. ANS_TOTAL
  PROVE  LET s == Shed(rc, f)
         IN  /\ s = [state |-> s.state, words |-> s.words]
             /\ s.words \in Seq(0 .. Word - 1)
             /\ s.state \in Nat /\ f <= s.state /\ s.state < f * Word
             /\ Refill(s) = rc
<1>. DEFINE x == rc.state
            s == Shed(rc, f)
            q == x \div Word
            r == x % Word
<1>1. /\ x \in Nat /\ ANS_TOTAL <= x /\ x < ANS_TOTAL * Word
      /\ rc.words \in Seq(0 .. Word - 1)
      /\ rc = [state |-> x, words |-> rc.words]
  BY Parameters DEF RansCoders
<1>2. f \in Nat \ {0} /\ f <= ANS_TOTAL /\ f * Word \in Nat
  BY Parameters, SMT
<1>3. CASE x < f * Word
  <2>1. s = rc  BY <1>1, <1>2, <1>3 DEF Shed
  <2>2. Refill(rc) = rc  BY <1>1, Parameters DEF Refill
  <2>. QED  BY <2>1, <2>2, <1>1, <1>2, <1>3, Parameters
<1>4. CASE x >= f * Word
  <2>1. s = [state |-> q, words |-> << r >> \o rc.words]  BY <1>4 DEF Shed
  <2>2. q \in Nat /\ r \in 0 .. Word - 1 /\ x = Word * q + r
    BY <1>1, Parameters, Division
  <2>3. f <= q
    <3>1. Word * f <= x  BY <1>2, <1>4, Parameters, SMT
    <3>. QED  BY <3>1, <1>1, <1>2, Parameters, QuotientAbove
  <2>4. q < ANS_TOTAL
    <3>1. x < Word * ANS_TOTAL  BY <1>1, Parameters, SMT
    <3>. QED  BY <3>1, <1>1, Parameters, QuotientBelow
  <2>5. q < f * Word
    <3>1. Word * 1 <= Word * f  BY <1>2, Parameters, ProductGrows
    <3>2. Word * 1 = Word /\ Word * f = f * Word  BY <1>2, Parameters, SMT
    <3>. HIDE DEF q
    <3>. QED  BY <3>1, <3>2, <2>2, <2>4, <1>2, Parameters
  <2>. HIDE DEF q, r
  <2>6. /\ << r >> \o rc.words \in Seq(0 .. Word - 1)
        /\ << r >> \o rc.words # << >>
        /\ Head(<< r >> \o rc.words) = r
        /\ Tail(<< r >> \o rc.words) = rc.words
    BY <1>1, <2>2
  <2>7. q * Word + r = x  BY <2>2, Parameters, SMT
  <2>8. Refill(s) = [state |-> q * Word + r, words |-> rc.words]
    <3>1. q < ANS_LOW  BY <2>4, Parameters
    <3>. HIDE DEF s
    <3>2. s.state = q /\ s.words = << r >> \o rc.words  BY <2>1
    <3>. QED  BY <3>1, <3>2, <2>6 DEF Refill
  <2>. QED  BY <1>1, <2>1, <2>2, <2>3, <2>5, <2>6, <2>7, <2>8
<1>. QED  BY <1>1, <1>2, <1>3, <1>4

Folded(y, c) == (y \div Freq(c)) * ANS_TOTAL + (y % Freq(c)) + c.lo

\* What a step makes of the register: it stays in range, and the slot names the
\* symbol that was encoded.
LEMMA Encoded ==
  ASSUME NEW y \in Nat, NEW c \in Shares, Freq(c) <= y, y < Freq(c) * Word
  PROVE  /\ Folded(y, c) \in ANS_LOW .. ANS_HIGH - 1
         /\ Folded(y, c) \div ANS_TOTAL = y \div Freq(c)
         /\ Folded(y, c) % ANS_TOTAL = (y % Freq(c)) + c.lo
<1>. DEFINE f == Freq(c)
            z == Folded(y, c)
<1>1. f \in Nat \ {0} /\ c.lo \in Nat /\ c.lo + f <= ANS_TOTAL /\ Word \in Nat
  BY Parameters DEF Shares, Freq
<1>. HIDE DEF f, z
<1>2. PICK q \in Nat, r \in 0 .. f - 1 : q = y \div f /\ r = y % f /\ y = f * q + r
  BY <1>1, Division
<1>3. q >= 1
  <2>1. f * 1 <= y  BY <1>1, SMT DEF f
  <2>. QED  BY <2>1, <1>1, <1>2, QuotientAbove
<1>4. q + 1 <= Word
  <2>1. q < Word  BY <1>1, <1>2, QuotientBelow DEF f
  <2>. QED  BY <2>1, <1>1
<1>5. r + c.lo \in 0 .. ANS_TOTAL - 1  BY <1>1, <1>2, Parameters
<1>6. /\ ANS_TOTAL * 1 <= ANS_TOTAL * q
      /\ ANS_TOTAL * (q + 1) <= ANS_TOTAL * Word
  BY <1>1, <1>3, <1>4, Parameters, ProductGrows
<1>7. /\ ANS_TOTAL * 1 = ANS_TOTAL /\ ANS_TOTAL * (q + 1) = ANS_TOTAL * q + ANS_TOTAL
      /\ q * ANS_TOTAL = ANS_TOTAL * q /\ ANS_TOTAL * q \in Nat
  BY Parameters, SMT
<1>8. z = ANS_TOTAL * q + (r + c.lo) /\ z \in Nat
  <2>1. z = (y \div f) * ANS_TOTAL + (y % f) + c.lo  BY DEF f, z, Folded
  <2>2. z = q * ANS_TOTAL + r + c.lo  BY <2>1, <1>2
  <2>. QED  BY <2>2, <1>1, <1>7
<1>9. z \div ANS_TOTAL = q /\ z % ANS_TOTAL = r + c.lo
  <2>1. PICK d \in 0 .. ANS_TOTAL - 1 : d = r + c.lo  BY <1>5
  <2>2. z = ANS_TOTAL * q + d /\ z \in Nat  BY <1>8, <2>1
  <2>3. ANS_TOTAL \in Nat \ {0}  BY Parameters
  <2>4. z \div ANS_TOTAL = q /\ z % ANS_TOTAL = d  BY <2>2, <2>3, DivisionIs
  <2>. QED  BY <2>1, <2>4
<1>10. z \in ANS_LOW .. ANS_HIGH - 1
  BY <1>5, <1>6, <1>7, <1>8, Parameters
<1>. QED  BY <1>2, <1>9, <1>10 DEF f, z

(* Whatever the register holds and whatever share a symbol has, encoding it*)
(* keeps the register in range and leaves a slot inside that share, and    *)
(* decoding that share restores number and words: the decoder takes a word *)
(* back exactly when the encoder shed one (RansEncoder::encode,            *)
(* RansDecoder::decode).                                                   *)
THEOREM StepsInvert ==
  ASSUME NEW rc \in RansCoders, NEW cdf \in Shares
  PROVE  /\ RansEncode(rc, cdf) \in RansCoders
         /\ Slot(RansEncode(rc, cdf)) \in cdf.lo .. cdf.hi - 1
         /\ RansDecode(RansEncode(rc, cdf), cdf) = rc
<1>. DEFINE f == Freq(cdf)
            s == Shed(rc, f)
            y == s.state
            z == Folded(y, cdf)
            e == RansEncode(rc, cdf)
<1>1. f \in 1 .. ANS_TOTAL /\ cdf.lo \in Nat /\ cdf.hi = cdf.lo + f
  BY Parameters DEF Shares, Freq
<1>2. /\ s = [state |-> y, words |-> s.words] /\ s.words \in Seq(0 .. Word - 1)
      /\ y \in Nat /\ f <= y /\ y < f * Word /\ Refill(s) = rc
  BY <1>1, ShedFits
<1>. HIDE DEF s, y
<1>3. e = [state |-> z, words |-> s.words]
  <2>1. e = [s EXCEPT !.state = (@ \div f) * ANS_TOTAL + (@ % f) + cdf.lo]
    BY DEF RansEncode, s
  <2>. QED  BY <2>1, <1>2 DEF y, Folded
<1>4. /\ z \in ANS_LOW .. ANS_HIGH - 1
      /\ z \div ANS_TOTAL = y \div f /\ z % ANS_TOTAL = (y % f) + cdf.lo
  BY <1>2, Encoded
<1>5. y \div f \in Nat /\ y % f \in 0 .. f - 1 /\ y = f * (y \div f) + (y % f)
  <2>. HIDE DEF f
  <2>1. f \in Nat \ {0}  BY <1>1, Parameters
  <2>. QED  BY <2>1, <1>2, Division
<1>. HIDE DEF z, f
<1>6. e \in RansCoders  BY <1>2, <1>3, <1>4 DEF RansCoders
<1>7. Slot(e) = (y % f) + cdf.lo  BY <1>3, <1>4 DEF Slot
<1>8. Slot(e) \in cdf.lo .. cdf.hi - 1
  <2>1. PICK r \in 0 .. f - 1 : r = y % f  BY <1>5
  <2>. QED  BY <2>1, <1>1, <1>7
<1>9. RansDecode(e, cdf) = rc
  <2>1. f * (e.state \div ANS_TOTAL) + Slot(e) - cdf.lo = y
    <3>1. f * (e.state \div ANS_TOTAL) = f * (y \div f)  BY <1>3, <1>4
    <3>2. PICK r \in 0 .. f - 1 : r = y % f  BY <1>5
    <3>3. PICK q \in Nat : q = y \div f  BY <1>5
    <3>4. f * q \in Nat  BY <1>1, <3>3, Parameters, SMT
    <3>5. y = f * q + r  BY <1>5, <3>2, <3>3
    <3>. HIDE DEF e
    <3>6. f * (e.state \div ANS_TOTAL) = f * q /\ Slot(e) = r + cdf.lo
      BY <3>1, <3>2, <3>3, <1>7
    <3>. QED  BY <3>2, <3>4, <3>5, <3>6, <1>1
  <2>2. [e EXCEPT !.state = f * (@ \div ANS_TOTAL) + Slot(e) - cdf.lo]
          = [state |-> y, words |-> s.words]
    BY <2>1, <1>3
  <2>. QED  BY <2>2, <1>2 DEF RansDecode, f
<1>. QED  BY <1>6, <1>8, <1>9

-----------------------------------------------------------------------------
(* A block *)

LEMMA NewRansCoderIn == NewRansCoder \in RansCoders
<1>1. ANS_TOTAL * 2 <= ANS_TOTAL * Word
  <2>1. 2 <= Word
    BY RansAssumption
  <2>. QED  BY <2>1, Parameters, ProductGrows
<1>2. ANS_TOTAL * 2 = ANS_TOTAL + ANS_TOTAL
  BY Parameters
<1>3. ANS_LOW \in ANS_LOW .. ANS_HIGH - 1
  BY <1>1, <1>2, Parameters
<1>. QED  BY <1>3 DEF NewRansCoder, RansCoders

FoldStep(symbols) == [x \in Nat \X RansCoders |-> RansEncode(x[2], symbols[Len(symbols) - x[1] + 1])]

\* The coder after the last n symbols of a block, step by step.
LEMMA EncodeLastIs ==
  ASSUME NEW symbols \in Seq(Shares), NEW n \in 0 .. Len(symbols)
  PROVE  \E f \in [0 .. n -> RansCoders] :
           Iterated(f, NewRansCoder, FoldStep(symbols), n) /\ EncodeLast(symbols, n) = f[n]
<1>. DEFINE g == FoldStep(symbols)
            b == NewRansCoder
            Body(h) == [i \in 0 .. n |-> IF i = 0 THEN b
                                          ELSE RansEncode(h[i - 1], symbols[Len(symbols) - i + 1])]
            w == CHOOSE h : h = Body(h)
<1>0. n \in Nat /\ Len(symbols) \in Nat /\ n <= Len(symbols)
  BY LenProperties
<1>1. ASSUME NEW i \in 1 .. n, NEW v \in RansCoders
      PROVE  g[<<i, v>>] = RansEncode(v, symbols[Len(symbols) - i + 1]) /\ g[<<i, v>>] \in RansCoders
  <2>1. <<i, v>> \in Nat \X RansCoders
    BY <1>0
  <2>2. Len(symbols) - i + 1 \in 1 .. Len(symbols)
    BY <1>0
  <2>3. symbols[Len(symbols) - i + 1] \in Shares
    BY <2>2, ElementOfSeq
  <2>4. RansEncode(v, symbols[Len(symbols) - i + 1]) \in RansCoders
    BY <2>3, StepsInvert
  <2>. QED  BY <2>1, <2>4 DEF FoldStep
<1>2. EncodeLast(symbols, n) = w[n]
  BY DEF EncodeLast
<1>. HIDE DEF g
<1>3. b \in RansCoders
  BY NewRansCoderIn
<1>. HIDE DEF b
<1>4. PICK f \in [0 .. n -> RansCoders] : Iterated(f, b, g, n)
  <2>1. PICK V : V = RansCoders
    OBVIOUS
  <2>2. b \in V /\ \A i \in 1 .. n : \A v \in V : g[<<i, v>>] \in V
    BY <1>1, <1>3, <2>1
  <2>3. \E f \in [0 .. n -> V] : Iterated(f, b, g, n)
    BY <1>0, <2>2, Iterate
  <2>. QED  BY <2>1, <2>3
<1>5. \A i \in 0 .. n : f[i] = IF i = 0 THEN b ELSE RansEncode(f[i - 1], symbols[Len(symbols) - i + 1])
  <2>1. SUFFICES ASSUME NEW i \in 0 .. n
                 PROVE  f[i] = IF i = 0 THEN b ELSE RansEncode(f[i - 1], symbols[Len(symbols) - i + 1])
    OBVIOUS
  <2>2. CASE i = 0
    BY <1>4, <2>2 DEF Iterated
  <2>3. CASE i # 0
    <3>1. i \in 1 .. n /\ i - 1 \in 0 .. n
      BY <1>0, <2>3
    <3>2. f[i - 1] \in RansCoders /\ f[i] = g[<<i, f[i - 1]>>]
      BY <1>4, <3>1 DEF Iterated
    <3>. QED  BY <1>1, <2>3, <3>1, <3>2
  <2>. QED  BY <2>2, <2>3
<1>6. f = Body(f)
  BY <1>4, <1>5
<1>7. w = Body(w)
  <2>. HIDE DEF Body
  <2>. QED  BY <1>6
<1>. HIDE DEF w
<1>8. \A i \in 0 .. n : w[i] = IF i = 0 THEN b ELSE RansEncode(w[i - 1], symbols[Len(symbols) - i + 1])
  <2>1. PICK z : z = Body(w)
    OBVIOUS
  <2>2. \A i \in 0 .. n : z[i] = IF i = 0 THEN b ELSE RansEncode(w[i - 1], symbols[Len(symbols) - i + 1])
    BY <2>1
  <2>. HIDE DEF Body
  <2>3. w = z
    BY <1>7, <2>1
  <2>. QED  BY <2>2, <2>3
<1>. HIDE DEF Body
<1>. DEFINE T == {k \in Nat : k <= n => w[k] = f[k]}
<1>9. 0 \in T
  BY <1>0, <1>5, <1>8
<1>10. ASSUME NEW k \in Nat, k \in T  PROVE k + 1 \in T
  <2>1. SUFFICES ASSUME k + 1 <= n PROVE w[k + 1] = f[k + 1]
    OBVIOUS
  <2>2. k + 1 \in 0 .. n /\ (k + 1) - 1 = k /\ k <= n /\ k + 1 # 0
    BY <1>0, <2>1
  <2>. QED  BY <1>5, <1>8, <1>10, <2>2
<1>. HIDE DEF T
<1>11. n \in T
  BY <1>0, <1>9, <1>10, NatSet
<1>12. w[n] = f[n]
  BY <1>0, <1>11 DEF T
<1>. QED  BY <1>2, <1>4, <1>12 DEF b, g

\* A block is folded from its last symbol on.
LEMMA EncodeLastNext ==
  ASSUME NEW symbols \in Seq(Shares), NEW n \in 0 .. Len(symbols)
  PROVE  /\ EncodeLast(symbols, 0) = NewRansCoder
         /\ EncodeLast(symbols, n) \in RansCoders
         /\ n < Len(symbols) =>
              EncodeLast(symbols, n + 1) = RansEncode(EncodeLast(symbols, n), symbols[Len(symbols) - n])
<1>0. n \in Nat /\ Len(symbols) \in Nat /\ n <= Len(symbols)
  BY LenProperties
<1>1. PICK f \in [0 .. n -> RansCoders] :
         Iterated(f, NewRansCoder, FoldStep(symbols), n) /\ EncodeLast(symbols, n) = f[n]
  BY EncodeLastIs
<1>2. EncodeLast(symbols, n) \in RansCoders
  BY <1>0, <1>1
<1>3. EncodeLast(symbols, 0) = NewRansCoder
  <2>1. PICK z \in Nat : z = 0 /\ z \in 0 .. Len(symbols)
    BY <1>0
  <2>2. PICK h \in [0 .. z -> RansCoders] :
           Iterated(h, NewRansCoder, FoldStep(symbols), z) /\ EncodeLast(symbols, z) = h[z]
    BY <2>1, EncodeLastIs
  <2>. QED  BY <2>1, <2>2 DEF Iterated
<1>4. ASSUME n < Len(symbols)
      PROVE  EncodeLast(symbols, n + 1) = RansEncode(EncodeLast(symbols, n), symbols[Len(symbols) - n])
  <2>1. PICK m \in Nat : m = n + 1 /\ m \in 0 .. Len(symbols)
    BY <1>0, <1>4
  <2>2. PICK h \in [0 .. m -> RansCoders] :
           Iterated(h, NewRansCoder, FoldStep(symbols), m) /\ EncodeLast(symbols, m) = h[m]
    BY <2>1, EncodeLastIs
  <2>3. h[n] = f[n]
    <3>1. PICK V, b, g : V = RansCoders /\ b = NewRansCoder /\ g = FoldStep(symbols)
      OBVIOUS
    <3>2. f \in [0 .. n -> V] /\ Iterated(f, b, g, n)
      BY <1>1, <3>1
    <3>3. h[0] = b /\ \A i \in 1 .. m : h[i] = g[<<i, h[i - 1]>>]
      BY <2>2, <3>1 DEF Iterated
    <3>4. \A i \in 1 .. n : i \in 1 .. m
      BY <2>1, <1>0
    <3>5. Follows(h, V, b, g, n)
      BY <3>3, <3>4 DEF Follows
    <3>6. Alike(h, f, n)
      BY <1>0, <3>2, <3>5, IterateSame
    <3>. QED  BY <1>0, <3>6 DEF Alike
  <2>4. h[m] = FoldStep(symbols)[<<m, h[m - 1]>>] /\ m - 1 = n
    <3>1. m \in 1 .. m /\ m - 1 = n
      BY <1>0, <2>1
    <3>. QED  BY <2>2, <3>1 DEF Iterated
  <2>5. f[n] \in RansCoders
    BY <1>0, <1>1
  <2>6. FoldStep(symbols)[<<m, f[n]>>] = RansEncode(f[n], symbols[Len(symbols) - m + 1])
    <3>1. <<m, f[n]>> \in Nat \X RansCoders
      BY <2>5
    <3>. QED  BY <3>1 DEF FoldStep
  <2>7. Len(symbols) - m + 1 = Len(symbols) - n
    BY <1>0, <2>1
  <2>. QED  BY <1>1, <2>1, <2>2, <2>3, <2>4, <2>6, <2>7
<1>. QED  BY <1>2, <1>3, <1>4

-----------------------------------------------------------------------------
(* The inductive invariant *)

\* The share of the table a symbol was encoded with.
ShareOf(entry) == Share(Table(entry.pdf), entry.symbol)

\* What an encoder is between two symbols.
Encodings == IF coder = Rans THEN [symbols : Seq(Shares), blocks : Seq(RansCoders)]
             ELSE OpenEncoders

Entries == {m \in [pdf : Answers, symbol : Nat, before : Encodings] :
              m.symbol \in 1 .. Len(m.pdf)}

Typed ==
  /\ coder \in Coders /\ stage \in {"encoding", "decoding", "decoded"}
  /\ message \in Seq(Entries) /\ encoder \in Encodings
  /\ output \in Seq(Nat) /\ Len(output) <= Len(message)
  /\ stage = "encoding" => output = <<>>

\* What is decoded is what was encoded.
Decoded == \A i \in 1 .. Len(output) : output[i] = message[i].symbol

\* The arithmetic coder after every symbol, and before the first.
Chained ==
  /\ EncoderAfter(0) = NewEncoder
  /\ \A n \in 1 .. Len(message) :
       EncoderAfter(n) = EncodeCounts(message[n].before, ShareOf(message[n]).lo, ShareOf(message[n]).hi)

\* The finished stream agrees with the encoder after every symbol.
Agreed == payload \in Seq(Bit) /\ \A n \in 0 .. Len(message) : Fits(EncoderAfter(n), payload)

ArithmeticInv ==
  /\ Chained
  /\ stage # "encoding" => Agreed
  /\ stage = "decoding" => decoder = DecoderAt(EncoderAfter(Len(output)), payload)

\* The shares of n symbols of the message.
Chunk(from, n) == [i \in 1 .. n |-> ShareOf(message[from + i])]

\* The symbols of block k, of which the message may not have as many.
Start(k) == (k - 1) * BLOCK_SIZE
Size(k) == IF Len(message) - Start(k) < BLOCK_SIZE THEN Len(message) - Start(k) ELSE BLOCK_SIZE

\* The blocks that are full, and what is buffered of the next.
Buffered ==
  LET full == Len(encoder.blocks)
  IN  /\ Start(full + 1) <= Len(message) /\ Len(message) < Start(full + 1) + BLOCK_SIZE
      /\ encoder.symbols = Chunk(Start(full + 1), Len(message) - Start(full + 1))
      /\ \A k \in 1 .. full : encoder.blocks[k] = EncodeBlock(Chunk(Start(k), BLOCK_SIZE))

\* The blocks of the finished stream.
Blocked ==
  /\ payload \in Seq(RansCoders)
  /\ \A k \in 1 .. Len(payload) :
       Start(k) < Len(message) /\ payload[k] = EncodeBlock(Chunk(Start(k), Size(k)))
  /\ Len(message) <= Start(Len(payload) + 1)

\* The decoder is in block opened, left symbols before its end.
Within ==
  \/ decoder = NewBlockedDecoder /\ output = <<>>
  \/ /\ decoder = [opened |-> decoder.opened, left |-> decoder.left, coder |-> decoder.coder]
     /\ decoder.opened \in 1 .. Len(payload) /\ decoder.left \in 0 .. Size(decoder.opened)
     /\ decoder.coder = EncodeLast(Chunk(Start(decoder.opened), Size(decoder.opened)), decoder.left)
     /\ Len(output) = Start(decoder.opened) + Size(decoder.opened) - decoder.left

BlockedInv ==
  /\ stage = "encoding" => Buffered
  /\ stage = "decoding" => Blocked /\ Within

IInv ==
  /\ Typed /\ Decoded
  /\ coder # Rans => ArithmeticInv
  /\ coder = Rans => BlockedInv

-----------------------------------------------------------------------------
(* The entries of a message *)

LEMMA Same ==
  ASSUME coder' = coder
  PROVE  /\ \A pdf : Table(pdf)' = Table(pdf)
         /\ \A m : ShareOf(m)' = ShareOf(m)
         /\ Answers' = Answers /\ Encodings' = Encodings /\ Entries' = Entries
<1>1. \A pdf : Table(pdf)' = Table(pdf)
  BY DEF Table
<1>2. \A m : ShareOf(m)' = ShareOf(m)
  BY DEF ShareOf, Table
<1>3. Answers' = Answers /\ Encodings' = Encodings
  BY DEF Answers, Encodings
<1>4. Entries' = Entries
  BY <1>3 DEF Entries
<1>. QED  BY <1>1, <1>2, <1>3, <1>4

LEMMA EntryIs ==
  ASSUME coder \in Coders, NEW m \in Entries
  PROVE  /\ m.pdf \in Answers /\ m.before \in Encodings /\ m.symbol \in 1 .. Len(m.pdf)
         /\ m.symbol \in Nat
         /\ IsTable(Table(m.pdf), Len(m.pdf), Total) /\ Len(m.pdf) \in Nat
         /\ IsShare(ShareOf(m).lo, ShareOf(m).hi, Total) /\ Total \in Nat
         /\ ShareOf(m).lo = Table(m.pdf)[m.symbol] /\ ShareOf(m).hi = Table(m.pdf)[m.symbol + 1]
<1>1. /\ m.pdf \in Answers /\ m.before \in Encodings /\ m.symbol \in 1 .. Len(m.pdf)
      /\ m.symbol \in Nat
  BY DEF Entries
<1>2. IsTable(Table(m.pdf), Len(m.pdf), Total) /\ Len(m.pdf) \in Nat
  BY <1>1, TableIs
<1>3. Total \in Nat
  BY Register, RansAssumption DEF Total
<1>4. ShareOf(m).lo = Table(m.pdf)[m.symbol] /\ ShareOf(m).hi = Table(m.pdf)[m.symbol + 1]
  BY DEF ShareOf, Share
<1>a. PICK n \in Nat : n = Len(m.pdf)
  BY <1>2
<1>b. PICK s \in 1 .. n : s = m.symbol
  BY <1>1, <1>a
<1>c. PICK c : c = Table(m.pdf)
  OBVIOUS
<1>5. c = Table(m.pdf) /\ n = Len(m.pdf) /\ s = m.symbol
  BY <1>a, <1>b, <1>c
<1>6. IsTable(c, n, Total)
  BY <1>2, <1>5
<1>7. \A k \in 1 .. n + 1 : c[k] \in Nat
  BY <1>6, ElementOfSeq DEF IsTable
<1>8. s \in 1 .. n + 1 /\ s + 1 \in 1 .. n + 1 /\ n + 1 \in 1 .. n + 1
  OBVIOUS
<1>9. c[s] < c[s + 1] /\ c[n + 1] = Total
  BY <1>6 DEF IsTable
<1>10. c[s + 1] <= c[n + 1]
  <2>1. PICK q \in 1 .. n + 1 : q = s + 1
    BY <1>8
  <2>2. n + 1 \in q .. n + 1
    OBVIOUS
  <2>3. c[q] <= c[n + 1]
    BY <1>6, <2>2, TableRises
  <2>. QED  BY <2>1, <2>3
<1>11. IsShare(c[s], c[s + 1], Total)
  BY <1>7, <1>8, <1>9, <1>10 DEF IsShare
<1>. QED  BY <1>1, <1>2, <1>3, <1>4, <1>5, <1>11

\* A value in the share of a symbol names that symbol.
LEMMA SymbolFound ==
  ASSUME coder \in Coders, NEW m \in Entries, NEW value \in Nat,
         ShareOf(m).lo <= value, value < ShareOf(m).hi
  PROVE  SymbolAt(Table(m.pdf), value) = m.symbol
<1>a. PICK n \in Nat, t \in Nat : n = Len(m.pdf) /\ t = Total
  BY EntryIs
<1>b. PICK s \in 1 .. n : s = m.symbol
  BY <1>a, EntryIs
<1>c. PICK c : c = Table(m.pdf)
  OBVIOUS
<1>1. c = Table(m.pdf) /\ n = Len(m.pdf) /\ t = Total /\ s = m.symbol
  BY <1>a, <1>b, <1>c
<1>2. IsTable(c, n, t) /\ c[s] <= value /\ value < c[s + 1]
  BY <1>1, EntryIs
<1>3. SymbolAt(c, value) = s
  BY <1>2, SymbolAtIs
<1>. QED  BY <1>1, <1>3

LEMMA Grows ==
  ASSUME message \in Seq(Entries), NEW m \in Entries, message' = Append(message, m)
  PROVE  /\ Len(message') = Len(message) + 1 /\ Len(message) \in Nat
         /\ \A i \in 1 .. Len(message) : message'[i] = message[i]
         /\ message'[Len(message) + 1] = m
         /\ message' \in Seq(Entries)
BY AppendProperties, LenProperties

-----------------------------------------------------------------------------
(* The arithmetic coder *)

\* Encoders between symbols are open.
LEMMA AfterOpen ==
  ASSUME Typed, coder # Rans, NEW n \in 0 .. Len(message)
  PROVE  /\ EncoderAfter(n) \in OpenEncoders
         /\ n < Len(message) => EncoderAfter(n) = message[n + 1].before
<1>1. Encodings = OpenEncoders
  BY DEF Encodings
<1>2. Len(message) \in Nat /\ coder \in Coders
  BY LenProperties DEF Typed
<1>3. CASE n = Len(message)
  <2>1. EncoderAfter(n) = encoder
    BY <1>3 DEF EncoderAfter
  <2>. QED  BY <1>1, <1>2, <1>3, <2>1 DEF Typed
<1>4. CASE n # Len(message)
  <2>1. EncoderAfter(n) = message[n + 1].before
    BY <1>4 DEF EncoderAfter
  <2>2. n + 1 \in 1 .. Len(message)
    BY <1>2, <1>4
  <2>3. message[n + 1] \in Entries
    BY <2>2, ElementOfSeq DEF Typed
  <2>4. message[n + 1].before \in Encodings
    BY <1>2, <2>3, EntryIs
  <2>. QED  BY <1>1, <2>1, <2>4
<1>. QED  BY <1>3, <1>4

\* One symbol of the chain.
LEMMA ChainStep ==
  ASSUME Typed, coder # Rans, Chained, NEW n \in Nat, n < Len(message)
  PROVE  /\ message[n + 1] \in Entries
         /\ IsShare(ShareOf(message[n + 1]).lo, ShareOf(message[n + 1]).hi, CDF_TOTAL)
         /\ EncoderAfter(n) \in OpenEncoders
         /\ EncoderAfter(n + 1) = EncodeCounts(EncoderAfter(n), ShareOf(message[n + 1]).lo,
                                               ShareOf(message[n + 1]).hi)
<1>1. Len(message) \in Nat /\ coder \in Coders
  BY LenProperties DEF Typed
<1>2. n + 1 \in 1 .. Len(message) /\ n \in 0 .. Len(message)
  BY <1>1
<1>3. message[n + 1] \in Entries
  BY <1>2, ElementOfSeq DEF Typed
<1>4. IsShare(ShareOf(message[n + 1]).lo, ShareOf(message[n + 1]).hi, CDF_TOTAL)
  <2>1. Total = CDF_TOTAL
    BY DEF Total
  <2>. QED  BY <1>1, <1>3, <2>1, EntryIs
<1>5. EncoderAfter(n) \in OpenEncoders /\ EncoderAfter(n) = message[n + 1].before
  BY <1>2, AfterOpen
<1>6. EncoderAfter(n + 1) = EncodeCounts(message[n + 1].before, ShareOf(message[n + 1]).lo,
                                         ShareOf(message[n + 1]).hi)
  BY <1>2 DEF Chained
<1>. QED  BY <1>3, <1>4, <1>5, <1>6

\* A stream that fits the last encoder of the chain fits them all.
LEMMA AllFit ==
  ASSUME Typed, coder # Rans, Chained, NEW input \in Seq(Bit), Fits(encoder, input)
  PROVE  \A n \in 0 .. Len(message) : Fits(EncoderAfter(n), input)
<1>1. PICK N \in Nat : N = Len(message)
  BY LenProperties DEF Typed
<1>. DEFINE T == {j \in Nat : j <= N => Fits(EncoderAfter(N - j), input)}
<1>2. 0 \in T
  <2>1. N - 0 = N
    OBVIOUS
  <2>2. EncoderAfter(N) = encoder
    BY <1>1 DEF EncoderAfter
  <2>. QED  BY <2>1, <2>2
<1>3. ASSUME NEW j \in Nat, j \in T  PROVE j + 1 \in T
  <2>1. SUFFICES ASSUME j + 1 <= N PROVE Fits(EncoderAfter(N - (j + 1)), input)
    OBVIOUS
  <2>2. PICK n \in Nat : n = N - (j + 1)
    BY <2>1
  <2>3. n + 1 = N - j /\ n < N /\ j <= N
    BY <2>1, <2>2
  <2>4. Fits(EncoderAfter(n + 1), input)
    BY <1>3, <2>3
  <2>5. PICK e, s : e = EncoderAfter(n) /\ s = ShareOf(message[n + 1])
    OBVIOUS
  <2>6. IsShare(s.lo, s.hi, CDF_TOTAL) /\ e \in OpenEncoders
        /\ EncoderAfter(n + 1) = EncodeCounts(e, s.lo, s.hi)
    BY <1>1, <2>3, <2>5, ChainStep
  <2>7. PICK lo, hi : lo = s.lo /\ hi = s.hi
    OBVIOUS
  <2>8. Fits(e, input)
    BY <2>4, <2>6, <2>7, CountsFit
  <2>. QED  BY <2>2, <2>5, <2>8
<1>. HIDE DEF T
<1>4. \A j \in Nat : j \in T
  BY <1>2, <1>3, NatSet
<1>5. ASSUME NEW n \in 0 .. N  PROVE Fits(EncoderAfter(n), input)
  <2>1. N - n \in Nat /\ N - n <= N /\ N - (N - n) = n
    OBVIOUS
  <2>2. N - n \in T
    BY <1>4, <2>1
  <2>. QED  BY <2>1, <2>2 DEF T
<1>. QED  BY <1>1, <1>5

LEMMA EncodeNew ==
  ASSUME Typed, EncodeSymbol
  PROVE  /\ stage = "encoding" /\ UNCHANGED <<coder, stage, payload, decoder, output>>
         /\ \E m \in Entries :
              /\ m.before = encoder /\ message' = Append(message, m)
              /\ encoder' = IF coder = Rans THEN BlockedEncode(encoder, ShareOf(m))
                            ELSE EncodeCounts(encoder, ShareOf(m).lo, ShareOf(m).hi)
<1>1. stage = "encoding" /\ UNCHANGED <<coder, stage, payload, decoder, output>>
  BY DEF EncodeSymbol
<1>2. PICK pdf \in Answers : \E s \in 1 .. Len(pdf) :
        LET share == Share(Table(pdf), s)
        IN  /\ message' = Append(message, [pdf |-> pdf, symbol |-> s, before |-> encoder])
            /\ encoder' = IF coder = Rans THEN BlockedEncode(encoder, share)
                          ELSE EncodeCounts(encoder, share.lo, share.hi)
  BY DEF EncodeSymbol
<1>3. PICK s \in 1 .. Len(pdf) :
        /\ message' = Append(message, [pdf |-> pdf, symbol |-> s, before |-> encoder])
        /\ encoder' = IF coder = Rans THEN BlockedEncode(encoder, Share(Table(pdf), s))
                      ELSE EncodeCounts(encoder, Share(Table(pdf), s).lo, Share(Table(pdf), s).hi)
  BY <1>2
<1>4. PICK m : m = [pdf |-> pdf, symbol |-> s, before |-> encoder]
  OBVIOUS
<1>5. m.pdf = pdf /\ m.symbol = s /\ m.before = encoder
  BY <1>4
<1>6. m \in Entries
  <2>1. s \in Nat /\ encoder \in Encodings
    BY DEF Typed
  <2>. QED  BY <1>4, <1>5, <2>1 DEF Entries
<1>7. ShareOf(m) = Share(Table(pdf), s)
  BY <1>5 DEF ShareOf
<1>. QED  BY <1>1, <1>3, <1>4, <1>5, <1>6, <1>7

LEMMA EncodeTyped ==
  ASSUME Typed, Decoded, EncodeSymbol, encoder' \in Encodings
  PROVE  Typed' /\ Decoded'
<1>1. PICK m \in Entries : message' = Append(message, m)
  BY EncodeNew
<1>2. stage = "encoding" /\ UNCHANGED <<coder, stage, payload, decoder, output>>
  BY EncodeNew
<1>3. message \in Seq(Entries) /\ output \in Seq(Nat) /\ output = <<>> /\ coder \in Coders
  BY <1>2 DEF Typed
<1>4. Len(message') = Len(message) + 1 /\ Len(message) \in Nat /\ message' \in Seq(Entries)
  BY <1>1, <1>3, Grows
<1>5. Encodings' = Encodings /\ Entries' = Entries
  BY <1>2, Same
<1>6. Len(output) = 0
  BY <1>3
<1>7. Typed'
  <2>1. output' = <<>> /\ Len(output') = 0 /\ output' \in Seq(Nat)
    BY <1>2, <1>3, <1>6
  <2>2. Len(output') <= Len(message')
    BY <1>4, <2>1
  <2>3. coder' \in Coders /\ stage' = "encoding" /\ encoder' \in Encodings' /\ message' \in Seq(Entries')
    BY <1>2, <1>3, <1>4, <1>5
  <2>. QED  BY <2>1, <2>2, <2>3 DEF Typed
<1>8. Decoded'
  <2>1. Len(output') = 0
    BY <1>2, <1>6
  <2>. QED  BY <2>1 DEF Decoded
<1>. QED  BY <1>7, <1>8

LEMMA EncodeArithmetic ==
  ASSUME Typed, coder # Rans, ArithmeticInv, EncodeSymbol
  PROVE  encoder' \in Encodings /\ ArithmeticInv'
<1>1. PICK m \in Entries :
        /\ m.before = encoder /\ message' = Append(message, m)
        /\ encoder' = EncodeCounts(encoder, ShareOf(m).lo, ShareOf(m).hi)
  BY EncodeNew
<1>2. stage = "encoding" /\ stage' = "encoding" /\ coder' = coder
  BY EncodeNew
<1>3. PICK N \in Nat : N = Len(message)
  BY LenProperties DEF Typed
<1>4. /\ Len(message') = N + 1 /\ message'[N + 1] = m
      /\ \A i \in 1 .. N : message'[i] = message[i]
  BY <1>1, <1>3, Grows DEF Typed
<1>5. encoder \in OpenEncoders /\ Encodings = OpenEncoders
  BY DEF Typed, Encodings
<1>6. encoder' \in Encodings
  <2>1. coder \in Coders /\ Total = CDF_TOTAL
    BY DEF Typed, Total
  <2>2. IsShare(ShareOf(m).lo, ShareOf(m).hi, CDF_TOTAL)
    BY <2>1, EntryIs
  <2>3. PICK lo, hi : lo = ShareOf(m).lo /\ hi = ShareOf(m).hi
    OBVIOUS
  <2>. QED  BY <1>1, <1>5, <2>2, <2>3, CountsOpen
<1>7. \A n \in 0 .. N : EncoderAfter(n)' = EncoderAfter(n)
  <2>1. SUFFICES ASSUME NEW n \in 0 .. N PROVE EncoderAfter(n)' = EncoderAfter(n)
    OBVIOUS
  <2>2. EncoderAfter(n)' = message'[n + 1].before
    <3>1. n # N + 1
      OBVIOUS
    <3>. QED  BY <1>4, <3>1 DEF EncoderAfter
  <2>3. CASE n = N
    <3>1. EncoderAfter(n) = encoder
      BY <1>3, <2>3 DEF EncoderAfter
    <3>. QED  BY <1>1, <1>4, <2>2, <2>3, <3>1
  <2>4. CASE n # N
    <3>1. n + 1 \in 1 .. N
      BY <2>4
    <3>2. EncoderAfter(n) = message[n + 1].before
      BY <1>3, <2>4 DEF EncoderAfter
    <3>. QED  BY <1>4, <2>2, <3>1, <3>2
  <2>. QED  BY <2>3, <2>4
<1>8. EncoderAfter(N + 1)' = encoder'
  BY <1>4 DEF EncoderAfter
<1>10. Chained'
  <2>1. EncoderAfter(0)' = NewEncoder
    <3>1. EncoderAfter(0)' = EncoderAfter(0)
      BY <1>7
    <3>. QED  BY <3>1 DEF ArithmeticInv, Chained
  <2>2. ASSUME NEW n \in 1 .. N + 1
        PROVE  EncoderAfter(n)' = EncodeCounts(message'[n].before, ShareOf(message'[n]).lo, ShareOf(message'[n]).hi)
    <3>1. CASE n = N + 1
      BY <1>1, <1>4, <1>8, <3>1
    <3>2. CASE n # N + 1
      <4>1. n \in 1 .. N /\ n \in 0 .. N
        BY <3>2
      <4>2. EncoderAfter(n) = EncodeCounts(message[n].before, ShareOf(message[n]).lo, ShareOf(message[n]).hi)
        BY <1>3, <4>1 DEF ArithmeticInv, Chained
      <4>3. message'[n] = message[n]
        BY <1>4, <4>1
      <4>. QED  BY <1>7, <4>1, <4>2, <4>3
    <3>. QED  BY <3>1, <3>2
  <2>3. ASSUME NEW n \in 1 .. N + 1  PROVE (ShareOf(message[n]))' = ShareOf(message'[n])
    BY <1>2 DEF ShareOf, Table
  <2>4. \A n \in 1 .. N + 1 :
          EncoderAfter(n)' = EncodeCounts(message'[n].before, (ShareOf(message[n]))'.lo, (ShareOf(message[n]))'.hi)
    BY <2>2, <2>3
  <2>. QED  BY <1>4, <2>1, <2>4 DEF Chained
<1>. QED  BY <1>2, <1>6, <1>10 DEF ArithmeticInv

\* Registers and message stay when the stream is decoded.
LEMMA AfterSame ==
  ASSUME coder' = coder, message' = message, encoder' = encoder
  PROVE  /\ \A n : EncoderAfter(n)' = EncoderAfter(n)
         /\ Chained => Chained'
<1>1. \A n : EncoderAfter(n)' = EncoderAfter(n)
  BY DEF EncoderAfter
<1>2. ASSUME Chained PROVE Chained'
  <2>1. EncoderAfter(0)' = NewEncoder
    BY <1>1, <1>2 DEF Chained
  <2>2. ASSUME NEW n \in 1 .. Len(message)
        PROVE  EncoderAfter(n)' = EncodeCounts(message'[n].before, (ShareOf(message[n]))'.lo, (ShareOf(message[n]))'.hi)
    <3>1. (ShareOf(message[n]))' = ShareOf(message[n])
      BY DEF ShareOf, Table
    <3>2. EncoderAfter(n) = EncodeCounts(message[n].before, ShareOf(message[n]).lo, ShareOf(message[n]).hi)
      BY <1>2 DEF Chained
    <3>. QED  BY <1>1, <3>1, <3>2
  <2>. QED  BY <2>1, <2>2 DEF Chained
<1>. QED  BY <1>1, <1>2

LEMMA FinishArithmetic ==
  ASSUME Typed, coder # Rans, ArithmeticInv, Finish
  PROVE  stage' = "decoding" /\ ArithmeticInv'
<1>1. /\ stage = "encoding" /\ payload' = FinishEncoder(encoder) /\ decoder' = NewDecoder(payload')
      /\ stage' = "decoding" /\ UNCHANGED <<coder, message, encoder, output>>
  BY DEF Finish
<1>2. PICK input : input = payload'
  OBVIOUS
<1>3. encoder \in OpenEncoders
  BY DEF Typed, Encodings
<1>4. input \in Seq(Bit) /\ Fits(encoder, input)
  BY <1>1, <1>2, <1>3, FinishFits
<1>5. Chained /\ EncoderAfter(0) = NewEncoder
  BY DEF ArithmeticInv, Chained
<1>6. \A n \in 0 .. Len(message) : Fits(EncoderAfter(n), input)
  BY <1>4, <1>5, AllFit
<1>7. (\A n : EncoderAfter(n)' = EncoderAfter(n)) /\ Chained'
  BY <1>1, <1>5, AfterSame
<1>8. Agreed'
  <2>1. \A n \in 0 .. Len(message') : Fits(EncoderAfter(n)', payload')
    BY <1>1, <1>2, <1>6, <1>7
  <2>2. payload' \in Seq(Bit)
    BY <1>2, <1>4
  <2>. QED  BY <2>1, <2>2 DEF Agreed
<1>9. decoder' = DecoderAt(EncoderAfter(Len(output))', payload')
  <2>1. output = <<>> /\ Len(output) = 0
    BY <1>1 DEF Typed
  <2>2. decoder' = DecoderAt(NewEncoder, input)
    BY <1>1, <1>2, <1>4, NewDecoderIs
  <2>3. EncoderAfter(Len(output))' = NewEncoder
    <3>1. EncoderAfter(0)' = NewEncoder
      BY <1>5, <1>7
    <3>2. Len(output') = 0
      BY <1>1, <2>1
    <3>. QED  BY <3>1, <3>2 DEF EncoderAfter
  <2>. QED  BY <1>2, <2>2, <2>3
<1>10. (decoder = DecoderAt(EncoderAfter(Len(output)), payload))'
  BY <1>9
<1>. QED  BY <1>1, <1>7, <1>8, <1>10 DEF ArithmeticInv

\* One symbol of the decoder.
LEMMA DecodeStep ==
  ASSUME Typed, coder # Rans, Chained, Agreed, NEW n \in Nat, n < Len(message),
         NEW e, e = EncoderAfter(n), NEW m, m = message[n + 1]
  PROVE  /\ m \in Entries
         /\ SymbolAt(Table(m.pdf), CodeValue(DecoderAt(e, payload))) = m.symbol
         /\ AdvanceCounts(DecoderAt(e, payload), ShareOf(m).lo, ShareOf(m).hi, payload)
              = DecoderAt(EncoderAfter(n + 1), payload)
<1>1. PICK s : s = ShareOf(m)
  OBVIOUS
<1>2. PICK lo, hi : lo = s.lo /\ hi = s.hi
  OBVIOUS
<1>3. /\ m \in Entries /\ IsShare(lo, hi, CDF_TOTAL) /\ e \in OpenEncoders
      /\ EncoderAfter(n + 1) = EncodeCounts(e, lo, hi)
  <2>1. /\ message[n + 1] \in Entries
        /\ IsShare(ShareOf(message[n + 1]).lo, ShareOf(message[n + 1]).hi, CDF_TOTAL)
        /\ EncoderAfter(n) \in OpenEncoders
        /\ EncoderAfter(n + 1) = EncodeCounts(EncoderAfter(n), ShareOf(message[n + 1]).lo,
                                              ShareOf(message[n + 1]).hi)
    BY ChainStep
  <2>. QED  BY <1>1, <1>2, <2>1
<1>4. PICK input \in Seq(Bit) : input = payload
  BY DEF Agreed
<1>5. Fits(EncodeCounts(e, lo, hi), input)
  <2>1. n + 1 \in 0 .. Len(message)
    BY LenProperties DEF Typed
  <2>2. Fits(EncoderAfter(n + 1), payload)
    BY <2>1 DEF Agreed
  <2>. QED  BY <1>3, <1>4, <2>2
<1>6. AdvanceCounts(DecoderAt(e, input), lo, hi, input) = DecoderAt(EncodeCounts(e, lo, hi), input)
  BY <1>3, <1>5, AdvanceIs
<1>7. PICK v : v = CodeValue(DecoderAt(e, input))
  OBVIOUS
<1>8. v \in Nat /\ lo <= v /\ v < hi
  BY <1>3, <1>5, <1>7, CountsFit
<1>9. coder \in Coders /\ ShareOf(m).lo <= v /\ v < ShareOf(m).hi
  BY <1>1, <1>2, <1>8 DEF Typed
<1>10. SymbolAt(Table(m.pdf), v) = m.symbol
  BY <1>3, <1>8, <1>9, SymbolFound
<1>. QED  BY <1>1, <1>2, <1>3, <1>4, <1>6, <1>7, <1>10

\* What a decoded symbol does to the output.
LEMMA OutputGrows ==
  ASSUME Typed, Decoded, stage = "decoding", Len(output) < Len(message), coder' = coder,
         stage' = stage, message' = message, encoder' = encoder,
         NEW s, s = message[Len(output) + 1].symbol, output' = Append(output, s)
  PROVE  Typed' /\ Decoded' /\ Len(output') = Len(output) + 1
<1>1. PICK n \in Nat, N \in Nat : n = Len(output) /\ N = Len(message) /\ n < N
  BY LenProperties DEF Typed
<1>2. message[n + 1] \in Entries
  <2>1. n + 1 \in 1 .. Len(message)
    BY <1>1
  <2>. QED  BY <2>1, ElementOfSeq DEF Typed
<1>3. s \in Nat
  BY <1>1, <1>2, EntryIs DEF Typed
<1>4. /\ output' \in Seq(Nat) /\ Len(output') = n + 1 /\ output'[n + 1] = s
      /\ \A i \in 1 .. n : output'[i] = output[i]
  BY <1>1, <1>3, AppendProperties DEF Typed
<1>5. Encodings' = Encodings /\ Entries' = Entries
  BY Same
<1>6. Typed'
  <2>1. Len(output') <= Len(message')
    BY <1>1, <1>4
  <2>2. coder' \in Coders /\ stage' = "decoding" /\ encoder' \in Encodings' /\ message' \in Seq(Entries')
    BY <1>5 DEF Typed
  <2>. QED  BY <1>4, <2>1, <2>2 DEF Typed
<1>7. Decoded'
  <2>1. ASSUME NEW i \in 1 .. n + 1  PROVE output'[i] = message'[i].symbol
    <3>1. CASE i = n + 1
      BY <1>1, <1>4, <3>1
    <3>2. CASE i # n + 1
      <4>1. i \in 1 .. n
        BY <3>2
      <4>. QED  BY <1>1, <1>4, <4>1 DEF Decoded
    <3>. QED  BY <3>1, <3>2
  <2>. QED  BY <1>4, <2>1 DEF Decoded
<1>. QED  BY <1>1, <1>4, <1>6, <1>7

LEMMA DecodeArithmetic ==
  ASSUME Typed, Decoded, ArithmeticInv, DecodeAc
  PROVE  Typed' /\ Decoded' /\ ArithmeticInv' /\ coder # Rans
<1>1. /\ stage = "decoding" /\ coder # Rans /\ Len(output) < Len(message)
      /\ UNCHANGED <<coder, stage, message, encoder, payload>>
  BY DEF DecodeAc
<1>2. PICK n \in Nat : n = Len(output) /\ n < Len(message)
  BY <1>1, LenProperties DEF Typed
<1>3. PICK m, e : m = message[n + 1] /\ e = EncoderAfter(n)
  OBVIOUS
<1>4. Chained /\ Agreed /\ decoder = DecoderAt(e, payload)
  BY <1>1, <1>2, <1>3 DEF ArithmeticInv
<1>5. /\ m \in Entries
      /\ SymbolAt(Table(m.pdf), CodeValue(decoder)) = m.symbol
      /\ AdvanceCounts(decoder, ShareOf(m).lo, ShareOf(m).hi, payload)
           = DecoderAt(EncoderAfter(n + 1), payload)
  BY <1>1, <1>2, <1>3, <1>4, DecodeStep
<1>6. NextTable = Table(m.pdf)
  BY <1>2, <1>3 DEF NextTable
<1>7. output' = Append(output, m.symbol) /\ decoder' = DecoderAt(EncoderAfter(n + 1), payload)
  <2>1. PICK s : s = SymbolAt(NextTable, CodeValue(decoder))
    OBVIOUS
  <2>2. output' = Append(output, s)
        /\ decoder' = AdvanceCounts(decoder, Share(NextTable, s).lo, Share(NextTable, s).hi, payload)
    BY <2>1 DEF DecodeAc
  <2>3. s = m.symbol
    BY <1>5, <1>6, <2>1
  <2>4. Share(NextTable, s) = ShareOf(m)
    BY <1>6, <2>3 DEF ShareOf
  <2>. QED  BY <1>5, <2>2, <2>3, <2>4
<1>8. Typed' /\ Decoded' /\ Len(output') = n + 1
  BY <1>1, <1>2, <1>3, <1>7, OutputGrows
<1>9. (\A k : EncoderAfter(k)' = EncoderAfter(k)) /\ Chained'
  BY <1>1, <1>4, AfterSame
<1>10. Agreed'
  <2>1. \A k \in 0 .. Len(message) : Fits(EncoderAfter(k)', payload')
    BY <1>1, <1>4, <1>9 DEF Agreed
  <2>. QED  BY <1>1, <1>4, <2>1 DEF Agreed
<1>11. (decoder = DecoderAt(EncoderAfter(Len(output)), payload))'
  <2>1. EncoderAfter(Len(output))' = EncoderAfter(n + 1)
    BY <1>1, <1>8 DEF EncoderAfter
  <2>2. decoder' = DecoderAt(EncoderAfter(Len(output))', payload')
    BY <1>1, <1>7, <2>1
  <2>. QED  BY <2>2
<1>. QED  BY <1>1, <1>8, <1>9, <1>10, <1>11 DEF ArithmeticInv

\* The checksum is right.
LEMMA VerifyPasses ==
  ASSUME Typed, Decoded, Verify
  PROVE  stage' = "decoded" /\ Typed' /\ Decoded'
<1>1. /\ stage = "decoding" /\ Len(output) = Len(message)
      /\ UNCHANGED <<coder, message, encoder, payload, decoder, output>>
  BY DEF Verify
<1>2. output = [i \in DOMAIN message |-> message[i].symbol]
  <2>1. PICK n \in Nat : n = Len(output) /\ n = Len(message)
    BY <1>1, LenProperties DEF Typed
  <2>2. DOMAIN message = 1 .. n /\ DOMAIN output = 1 .. n /\ output \in [1 .. n -> Nat]
    BY <2>1, LenProperties DEF Typed
  <2>3. \A i \in 1 .. n : output[i] = message[i].symbol
    BY <2>1 DEF Decoded
  <2>. QED  BY <2>2, <2>3
<1>3. stage' = "decoded"
  BY <1>2 DEF Verify
<1>4. Encodings' = Encodings /\ Entries' = Entries
  BY <1>1, Same
<1>. QED  BY <1>1, <1>3, <1>4 DEF Typed, Decoded

-----------------------------------------------------------------------------
(* The blocks of the rANS coder *)

LEMMA BlockSize == BLOCK_SIZE \in Nat /\ BLOCK_SIZE >= 1
BY RansAssumption

LEMMA StartIs ==
  ASSUME NEW k \in Nat
  PROVE  /\ k >= 1 => Start(k) \in Nat
         /\ Start(k + 1) \in Nat /\ Start(1) = 0
         /\ k >= 1 => Start(k + 1) = Start(k) + BLOCK_SIZE
<1>1. k * BLOCK_SIZE \in Nat /\ 0 * BLOCK_SIZE = 0
  BY BlockSize, SMT
<1>2. (k + 1) - 1 = k /\ 1 - 1 = 0
  OBVIOUS
<1>3. Start(k + 1) \in Nat /\ Start(1) = 0
  BY <1>1, <1>2 DEF Start
<1>4. ASSUME k >= 1  PROVE Start(k) \in Nat /\ Start(k + 1) = Start(k) + BLOCK_SIZE
  <2>1. PICK j \in Nat : j = k - 1 /\ k = j + 1
    <3>1. k - 1 \in Nat /\ k = (k - 1) + 1
      BY <1>4
    <3>. QED  BY <3>1
  <2>2. j * BLOCK_SIZE \in Nat /\ (j + 1) * BLOCK_SIZE = j * BLOCK_SIZE + BLOCK_SIZE
    BY BlockSize, SMT
  <2>3. Start(k) = j * BLOCK_SIZE /\ Start(k + 1) = (j + 1) * BLOCK_SIZE
    BY <1>2, <2>1 DEF Start
  <2>. QED  BY <2>2, <2>3
<1>. QED  BY <1>3, <1>4

LEMMA StartGrows ==
  ASSUME NEW j \in Nat, NEW k \in Nat, 1 <= j, j < k
  PROVE  Start(j) + BLOCK_SIZE <= Start(k) /\ Start(j) \in Nat /\ Start(k) \in Nat
<1>1. PICK a \in Nat, b \in Nat : a = j - 1 /\ b = k - 1 /\ a + 1 <= b
  <2>1. j - 1 \in Nat /\ k - 1 \in Nat /\ (j - 1) + 1 <= k - 1
    OBVIOUS
  <2>. QED  BY <2>1
<1>2. BLOCK_SIZE * (a + 1) <= BLOCK_SIZE * b
  BY <1>1, BlockSize, ProductGrows
<1>3. BLOCK_SIZE * (a + 1) = a * BLOCK_SIZE + BLOCK_SIZE /\ BLOCK_SIZE * b = b * BLOCK_SIZE
  BY BlockSize, SMT
<1>4. Start(j) = a * BLOCK_SIZE /\ Start(k) = b * BLOCK_SIZE
  BY <1>1 DEF Start
<1>5. Start(j) \in Nat /\ Start(k) \in Nat
  BY StartIs
<1>. QED  BY <1>2, <1>3, <1>4, <1>5

LEMMA ShareIs ==
  ASSUME coder \in Coders, coder = Rans, NEW m \in Entries
  PROVE  ShareOf(m) \in Shares
<1>1. IsShare(ShareOf(m).lo, ShareOf(m).hi, ANS_TOTAL)
  <2>1. Total = ANS_TOTAL
    BY DEF Total
  <2>. QED  BY <2>1, EntryIs
<1>2. PICK lo, hi : lo = ShareOf(m).lo /\ hi = ShareOf(m).hi
  OBVIOUS
<1>3. ShareOf(m) = [lo |-> lo, hi |-> hi]
  BY <1>2 DEF ShareOf, Share
<1>. QED  BY <1>1, <1>2, <1>3 DEF IsShare, Shares

LEMMA ChunkIs ==
  ASSUME Typed, coder = Rans, NEW from \in Nat, NEW n \in Nat, from + n <= Len(message)
  PROVE  /\ Chunk(from, n) \in Seq(Shares) /\ Len(Chunk(from, n)) = n
         /\ \A i \in 1 .. n : /\ Chunk(from, n)[i] = ShareOf(message[from + i])
                              /\ message[from + i] \in Entries
<1>1. ASSUME NEW i \in 1 .. n  PROVE message[from + i] \in Entries /\ ShareOf(message[from + i]) \in Shares
  <2>1. from + i \in 1 .. Len(message)
    BY LenProperties DEF Typed
  <2>2. message[from + i] \in Entries
    BY <2>1, ElementOfSeq DEF Typed
  <2>. QED  BY <2>2, ShareIs DEF Typed
<1>2. Chunk(from, n) \in [1 .. n -> Shares] /\ \A i \in 1 .. n : Chunk(from, n)[i] = ShareOf(message[from + i])
  BY <1>1 DEF Chunk
<1>3. Chunk(from, n) \in Seq(Shares)
  BY <1>2, SeqDef
<1>4. Len(Chunk(from, n)) = n
  BY <1>2, <1>3, LenProperties
<1>. QED  BY <1>1, <1>2, <1>3, <1>4

\* A chunk stays the same when the message grows behind it.
LEMMA ChunkSame ==
  ASSUME coder' = coder, NEW from \in Nat, NEW n \in Nat,
         \A i \in 1 .. from + n : message'[i] = message[i]
  PROVE  Chunk(from, n)' = Chunk(from, n)
<1>1. ASSUME NEW i \in 1 .. n  PROVE (ShareOf(message[from + i]))' = ShareOf(message[from + i])
  <2>1. message'[from + i] = message[from + i]
    OBVIOUS
  <2>2. (ShareOf(message[from + i]))' = ShareOf(message'[from + i])
    BY DEF ShareOf, Table
  <2>. QED  BY <2>1, <2>2
<1>2. Chunk(from, n)' = [i \in 1 .. n |-> (ShareOf(message[from + i]))']
  BY DEF Chunk
<1>. QED  BY <1>1, <1>2 DEF Chunk

LEMMA BlockIn ==
  ASSUME NEW c \in Seq(Shares)
  PROVE  EncodeBlock(c) \in RansCoders
<1>1. Len(c) \in 0 .. Len(c)
  BY LenProperties
<1>2. PICK n \in 0 .. Len(c) : n = Len(c)
  BY <1>1
<1>3. EncodeLast(c, n) \in RansCoders
  BY EncodeLastNext
<1>. QED  BY <1>2, <1>3 DEF EncodeBlock

\* The parts of a buffered encoder.
LEMMA BufferIs ==
  ASSUME Typed, coder = Rans, Buffered
  PROVE  \E b \in Nat, N \in Nat, n \in Nat :
           /\ b = Len(encoder.blocks) /\ N = Len(message) /\ N = Start(b + 1) + n /\ n < BLOCK_SIZE
           /\ Start(b + 1) \in Nat
           /\ encoder = [symbols |-> encoder.symbols, blocks |-> encoder.blocks]
           /\ encoder.symbols = Chunk(Start(b + 1), n) /\ encoder.symbols \in Seq(Shares)
           /\ Len(encoder.symbols) = n
           /\ encoder.blocks \in Seq(RansCoders)
           /\ \A k \in 1 .. b : encoder.blocks[k] = EncodeBlock(Chunk(Start(k), BLOCK_SIZE))
<1>1. encoder \in [symbols : Seq(Shares), blocks : Seq(RansCoders)]
  BY DEF Typed, Encodings
<1>2. PICK b \in Nat, N \in Nat : b = Len(encoder.blocks) /\ N = Len(message)
  BY <1>1, LenProperties DEF Typed
<1>3. Start(b + 1) \in Nat /\ BLOCK_SIZE \in Nat
  BY StartIs, BlockSize
<1>4. /\ Start(b + 1) <= N /\ N < Start(b + 1) + BLOCK_SIZE
      /\ encoder.symbols = Chunk(Start(b + 1), N - Start(b + 1))
      /\ \A k \in 1 .. b : encoder.blocks[k] = EncodeBlock(Chunk(Start(k), BLOCK_SIZE))
  BY <1>2 DEF Buffered
<1>5. PICK n \in Nat : n = N - Start(b + 1)
  BY <1>3, <1>4
<1>6. N = Start(b + 1) + n /\ n < BLOCK_SIZE
  BY <1>3, <1>4, <1>5
<1>7. Len(encoder.symbols) = n
  <2>1. PICK from \in Nat : from = Start(b + 1)
    BY <1>3
  <2>2. Len(Chunk(from, n)) = n
    BY <1>2, <1>6, <2>1, ChunkIs
  <2>. QED  BY <1>4, <1>5, <2>1, <2>2
<1>. QED  BY <1>1, <1>2, <1>3, <1>4, <1>5, <1>6, <1>7

LEMMA EncodeBlocked ==
  ASSUME Typed, coder = Rans, BlockedInv, EncodeSymbol
  PROVE  encoder' \in Encodings /\ BlockedInv'
<1>1. PICK m \in Entries :
        message' = Append(message, m) /\ encoder' = BlockedEncode(encoder, ShareOf(m))
  BY EncodeNew
<1>2. stage = "encoding" /\ stage' = "encoding" /\ coder' = coder
  BY EncodeNew
<1>3. PICK b \in Nat, N \in Nat, n \in Nat :
           /\ b = Len(encoder.blocks) /\ N = Len(message) /\ N = Start(b + 1) + n /\ n < BLOCK_SIZE
           /\ Start(b + 1) \in Nat
           /\ encoder = [symbols |-> encoder.symbols, blocks |-> encoder.blocks]
           /\ encoder.symbols = Chunk(Start(b + 1), n) /\ encoder.symbols \in Seq(Shares)
           /\ Len(encoder.symbols) = n
           /\ encoder.blocks \in Seq(RansCoders)
           /\ \A k \in 1 .. b : encoder.blocks[k] = EncodeBlock(Chunk(Start(k), BLOCK_SIZE))
  BY <1>2, BufferIs DEF BlockedInv
<1>4. PICK from \in Nat, B \in Nat : from = Start(b + 1) /\ B = BLOCK_SIZE /\ B >= 1
  BY <1>3, BlockSize
<1>5. /\ Len(message') = N + 1 /\ message'[N + 1] = m
      /\ \A i \in 1 .. N : message'[i] = message[i]
  BY <1>1, <1>3, Grows DEF Typed
<1>6. ShareOf(m) \in Shares
  BY ShareIs DEF Typed
<1>7. PICK c : c = Append(encoder.symbols, ShareOf(m))
  OBVIOUS
<1>8. /\ c \in Seq(Shares) /\ Len(c) = n + 1 /\ c[n + 1] = ShareOf(m)
      /\ \A i \in 1 .. n : c[i] = encoder.symbols[i]
  BY <1>3, <1>6, <1>7, AppendProperties
<1>9. Chunk(from, n + 1)' = c
  <2>1. Chunk(from, n + 1)' = [i \in 1 .. n + 1 |-> (ShareOf(message[from + i]))']
    BY DEF Chunk
  <2>2. ASSUME NEW i \in 1 .. n + 1  PROVE (ShareOf(message[from + i]))' = c[i]
    <3>1. (ShareOf(message[from + i]))' = ShareOf(message'[from + i])
      BY <1>2 DEF ShareOf, Table
    <3>2. CASE i = n + 1
      <4>1. from + i = N + 1
        BY <1>3, <1>4, <3>2
      <4>. QED  BY <1>5, <1>8, <3>1, <3>2, <4>1
    <3>3. CASE i # n + 1
      <4>1. i \in 1 .. n /\ from + i \in 1 .. N /\ from + n <= N
        BY <1>3, <1>4, <3>3
      <4>2. Chunk(from, n)[i] = ShareOf(message[from + i])
        BY <1>3, <4>1, ChunkIs
      <4>. QED  BY <1>3, <1>4, <1>5, <1>8, <3>1, <4>1, <4>2
    <3>. QED  BY <3>2, <3>3
  <2>3. DOMAIN c = 1 .. n + 1 /\ c = [i \in DOMAIN c |-> c[i]]
    BY <1>8, LenProperties
  <2>. QED  BY <2>1, <2>2, <2>3
<1>10. ASSUME NEW k \in 1 .. b
       PROVE  Chunk(Start(k), BLOCK_SIZE)' = Chunk(Start(k), BLOCK_SIZE)
  <2>1. Start(k) + BLOCK_SIZE <= Start(b + 1) /\ Start(k) \in Nat
    <3>1. PICK q \in Nat : q = b + 1
      OBVIOUS
    <3>2. k \in Nat /\ 1 <= k /\ k < q
      BY <3>1
    <3>. QED  BY <3>1, <3>2, StartGrows
  <2>2. PICK f \in Nat : f = Start(k)
    BY <2>1
  <2>3. f + B <= N
    BY <1>3, <1>4, <2>1, <2>2
  <2>4. \A i \in 1 .. f + B : message'[i] = message[i]
    BY <1>5, <2>3
  <2>5. Chunk(f, B)' = Chunk(f, B)
    BY <1>2, <2>4, ChunkSame
  <2>6. (Chunk(Start(k), BLOCK_SIZE))' = Chunk(f, B)' /\ Chunk(Start(k), BLOCK_SIZE) = Chunk(f, B)
    BY <1>4, <2>2 DEF Chunk
  <2>. QED  BY <2>5, <2>6
<1>11. PICK more : more = [symbols |-> c, blocks |-> encoder.blocks]
  OBVIOUS
<1>12. encoder' = IF Len(c) >= BLOCK_SIZE THEN FlushBlock(more) ELSE more
  <2>1. [encoder EXCEPT !.symbols = Append(@, ShareOf(m))] = more
    <3>1. PICK buffer, full : buffer = encoder.symbols /\ full = encoder.blocks
      OBVIOUS
    <3>2. encoder = [symbols |-> buffer, blocks |-> full]
      BY <1>3, <3>1
    <3>3. [encoder EXCEPT !.symbols = c] = [symbols |-> c, blocks |-> full]
      BY <3>2
    <3>4. [encoder EXCEPT !.symbols = Append(@, ShareOf(m))] = [encoder EXCEPT !.symbols = c]
      BY <1>7
    <3>. QED  BY <1>11, <3>1, <3>3, <3>4
  <2>2. more.symbols = c
    BY <1>11
  <2>. QED  BY <1>1, <2>1, <2>2 DEF BlockedEncode
<1>13. CASE n + 1 < B
  <2>1. encoder' = more
    <3>1. ~(Len(c) >= BLOCK_SIZE)
      BY <1>4, <1>8, <1>13
    <3>. QED  BY <1>12, <3>1
  <2>2. encoder'.symbols = c /\ encoder'.blocks = encoder.blocks
    BY <1>11, <2>1
  <2>3. encoder' \in Encodings
    BY <1>3, <1>8, <1>11, <2>1 DEF Encodings
  <2>4. Buffered'
    <3>1. Len(encoder'.blocks) = b
      BY <1>3, <2>2
    <3>2. Start(b + 1) <= Len(message') /\ Len(message') < Start(b + 1) + BLOCK_SIZE
          /\ Len(message') - Start(b + 1) = n + 1
      BY <1>3, <1>4, <1>5, <1>13
    <3>3. encoder'.symbols = Chunk(Start(b + 1), Len(message) - Start(b + 1))'
      <4>1. Chunk(Start(b + 1), Len(message) - Start(b + 1))' = Chunk(from, n + 1)'
        BY <1>4, <3>2 DEF Chunk
      <4>. QED  BY <1>9, <2>2, <4>1
    <3>4. \A k \in 1 .. b : encoder'.blocks[k] = EncodeBlock(Chunk(Start(k), BLOCK_SIZE)')
      BY <1>3, <1>10, <2>2
    <3>5. (Start(Len(encoder.blocks) + 1))' = Start(b + 1)
      BY <3>1 DEF Start
    <3>6. encoder'.symbols = Chunk(Start(Len(encoder.blocks) + 1), Len(message) - Start(Len(encoder.blocks) + 1))'
      BY <3>1, <3>3 DEF Chunk, Start
    <3>. QED  BY <3>1, <3>2, <3>4, <3>5, <3>6 DEF Buffered
  <2>. QED  BY <1>2, <2>3, <2>4 DEF BlockedInv
<1>14. CASE n + 1 = B
  <2>1. c # <<>>
    BY <1>8, EmptySeq
  <2>2. encoder' = [symbols |-> <<>>, blocks |-> Append(encoder.blocks, EncodeBlock(c))]
    <3>1. Len(c) >= BLOCK_SIZE
      BY <1>4, <1>8, <1>14
    <3>2. more.symbols = c /\ more.blocks = encoder.blocks
      BY <1>11
    <3>3. FlushBlock(more) = [symbols |-> <<>>, blocks |-> Append(more.blocks, EncodeBlock(more.symbols))]
      BY <2>1, <3>2 DEF FlushBlock
    <3>. QED  BY <1>12, <3>1, <3>2, <3>3
  <2>3. PICK w : w = Append(encoder.blocks, EncodeBlock(c))
    OBVIOUS
  <2>4. /\ w \in Seq(RansCoders) /\ Len(w) = b + 1 /\ w[b + 1] = EncodeBlock(c)
        /\ \A k \in 1 .. b : w[k] = encoder.blocks[k]
    BY <1>3, <1>8, <2>3, BlockIn, AppendProperties
  <2>5. encoder'.symbols = <<>> /\ encoder'.blocks = w
    BY <2>2, <2>3
  <2>6. encoder' \in Encodings
    <3>1. <<>> \in Seq(Shares)
      OBVIOUS
    <3>. QED  BY <2>2, <2>3, <2>4, <3>1 DEF Encodings
  <2>7. Buffered'
    <3>1. Start((b + 1) + 1) = Start(b + 1) + BLOCK_SIZE
      <4>1. PICK q \in Nat : q = b + 1 /\ q >= 1
        OBVIOUS
      <4>2. Start(q + 1) = Start(q) + BLOCK_SIZE
        BY <4>1, StartIs
      <4>. QED  BY <4>1, <4>2
    <3>2. Start((b + 1) + 1) = N + 1
      BY <1>3, <1>4, <1>14, <3>1
    <3>3. Len(encoder'.blocks) = b + 1
      BY <2>4, <2>5
    <3>4. (Start(Len(encoder.blocks) + 1))' = N + 1
      BY <3>2, <3>3 DEF Start
    <3>5. encoder'.symbols = Chunk(Start(Len(encoder.blocks) + 1), Len(message) - Start(Len(encoder.blocks) + 1))'
      <4>1. PICK z : z = Chunk(Start(Len(encoder.blocks) + 1), Len(message) - Start(Len(encoder.blocks) + 1))'
        OBVIOUS
      <4>2. Len(message') - (Start(Len(encoder.blocks) + 1))' = 0
        BY <1>5, <3>4
      <4>3. z = [i \in 1 .. 0 |-> (ShareOf(message[Start(Len(encoder.blocks) + 1) + i]))']
        BY <4>1, <4>2 DEF Chunk
      <4>4. z = <<>>
        BY <4>3
      <4>. QED  BY <2>5, <4>1, <4>4
    <3>6. \A k \in 1 .. b + 1 : encoder'.blocks[k] = EncodeBlock(Chunk(Start(k), BLOCK_SIZE)')
      <4>1. ASSUME NEW k \in 1 .. b + 1
            PROVE  encoder'.blocks[k] = EncodeBlock(Chunk(Start(k), BLOCK_SIZE)')
        <5>1. CASE k = b + 1
          <6>1. Chunk(Start(k), BLOCK_SIZE)' = Chunk(from, n + 1)'
            BY <1>4, <1>14, <5>1 DEF Chunk
          <6>. QED  BY <1>9, <2>4, <2>5, <5>1, <6>1
        <5>2. CASE k # b + 1
          <6>1. k \in 1 .. b
            BY <5>2
          <6>. QED  BY <1>3, <1>10, <2>4, <2>5, <6>1
        <5>. QED  BY <5>1, <5>2
      <4>. QED  BY <4>1
    <3>7. N + 1 <= Len(message') /\ Len(message') < (N + 1) + BLOCK_SIZE
      BY <1>4, <1>5
    <3>. QED  BY <3>3, <3>4, <3>5, <3>6, <3>7 DEF Buffered
  <2>. QED  BY <1>2, <2>6, <2>7 DEF BlockedInv
<1>. QED  BY <1>3, <1>4, <1>13, <1>14

-----------------------------------------------------------------------------
(* Finishing and decoding the blocks *)

LEMMA BlocksSame ==
  ASSUME coder' = coder, message' = message
  PROVE  /\ \A k : Size(k)' = Size(k)
         /\ \A k : (Chunk(Start(k), Size(k)))' = Chunk(Start(k), Size(k))
<1>1. \A m : (ShareOf(m))' = ShareOf(m)
  BY Same
<1>2. \A k : Size(k)' = Size(k)
  BY DEF Size, Start
<1>3. ASSUME NEW k  PROVE (Chunk(Start(k), Size(k)))' = Chunk(Start(k), Size(k))
  <2>1. (Chunk(Start(k), Size(k)))' = [i \in 1 .. Size(k)' |-> (ShareOf(message[Start(k) + i]))']
    BY DEF Chunk, Start
  <2>2. ASSUME NEW i  PROVE (ShareOf(message[Start(k) + i]))' = ShareOf(message[Start(k) + i])
    BY DEF ShareOf, Table
  <2>. QED  BY <1>2, <2>1, <2>2 DEF Chunk
<1>. QED  BY <1>2, <1>3

\* The blocks that the message has all the symbols of.
LEMMA FullBlock ==
  ASSUME NEW b \in Nat, NEW k \in 1 .. b, Len(message) \in Nat, Start(b + 1) <= Len(message)
  PROVE  Size(k) = BLOCK_SIZE /\ Start(k) < Len(message)
<1>1. PICK q \in Nat : q = b + 1
  OBVIOUS
<1>2. PICK f \in Nat, B \in Nat, N \in Nat :
        f = Start(k) /\ B = BLOCK_SIZE /\ N = Len(message) /\ B >= 1 /\ f + B <= N
  <2>1. k \in Nat /\ 1 <= k /\ k < q
    BY <1>1
  <2>2. Start(k) + BLOCK_SIZE <= Start(q) /\ Start(k) \in Nat /\ Start(q) \in Nat
    BY <2>1, StartGrows
  <2>3. Start(q) <= Len(message)
    BY <1>1
  <2>4. PICK f \in Nat, B \in Nat, N \in Nat, t \in Nat :
          f = Start(k) /\ B = BLOCK_SIZE /\ N = Len(message) /\ t = Start(q)
    BY <2>2, BlockSize
  <2>5. B >= 1 /\ f + B <= N
    BY <2>2, <2>3, <2>4, BlockSize
  <2>. QED  BY <2>4, <2>5
<1>3. ~(N - f < B) /\ f < N
  BY <1>2
<1>. QED  BY <1>2, <1>3 DEF Size

LEMMA ExpectedIs ==
  ASSUME NEW b \in Nat, NEW n \in Nat, n < BLOCK_SIZE, NEW N \in Nat, N = Start(b + 1) + n
  PROVE  BlocksExpected(N) = IF n = 0 THEN b ELSE b + 1
<1>1. PICK B \in Nat : B = BLOCK_SIZE /\ B >= 1
  BY BlockSize
<1>2. Start(b + 1) = B * b /\ B * b \in Nat
  <2>1. Start(b + 1) = b * B
    <3>1. (b + 1) - 1 = b
      OBVIOUS
    <3>. QED  BY <1>1, <3>1 DEF Start
  <2>2. b * B = B * b /\ B * b \in Nat
    BY SMT
  <2>. QED  BY <2>1, <2>2
<1>3. PICK x \in Nat : x = N + B - 1
  <2>1. N + B - 1 \in Nat
    BY <1>1
  <2>. QED  BY <2>1
<1>4. BlocksExpected(N) = x \div B
  BY <1>1, <1>3 DEF BlocksExpected
<1>5. CASE n = 0
  <2>1. B - 1 \in 0 .. B - 1 /\ B \in Nat \ {0}
    BY <1>1
  <2>2. x = B * b + (B - 1)
    BY <1>1, <1>2, <1>3, <1>5
  <2>3. x \div B = b
    BY <2>1, <2>2, DivisionIs
  <2>. QED  BY <1>4, <1>5, <2>3
<1>6. CASE n # 0
  <2>1. n - 1 \in 0 .. B - 1 /\ B \in Nat \ {0} /\ b + 1 \in Nat
    BY <1>1, <1>6
  <2>2. B * (b + 1) = B * b + B
    BY SMT
  <2>3. x = B * (b + 1) + (n - 1)
    <3>1. PICK p \in Nat : p = B * b
      BY <1>2
    <3>2. N = p + n /\ B * (b + 1) = p + B
      BY <1>2, <2>2, <3>1
    <3>. QED  BY <1>1, <1>3, <1>6, <3>1, <3>2
  <2>4. x \div B = b + 1
    <3>1. PICK c \in Nat, s \in 0 .. B - 1 : c = b + 1 /\ s = n - 1
      BY <2>1
    <3>2. x = B * c + s
      BY <2>3, <3>1
    <3>3. x \div B = c
      BY <2>1, <3>2, DivisionIs
    <3>. QED  BY <3>1, <3>3
  <2>. QED  BY <1>4, <1>6, <2>4
<1>. QED  BY <1>5, <1>6

LEMMA FinishBlocked ==
  ASSUME Typed, coder = Rans, BlockedInv, Finish
  PROVE  stage' = "decoding" /\ BlockedInv'
<1>1. /\ stage = "encoding" /\ payload' = FlushBlock(encoder).blocks
      /\ decoder' = NewBlockedDecoder
      /\ stage' = IF Len(payload') # BlocksExpected(Len(message)) THEN "failed" ELSE "decoding"
      /\ UNCHANGED <<coder, message, encoder, output>>
  BY DEF Finish
<1>2. PICK b \in Nat, N \in Nat, n \in Nat :
           /\ b = Len(encoder.blocks) /\ N = Len(message) /\ N = Start(b + 1) + n /\ n < BLOCK_SIZE
           /\ Start(b + 1) \in Nat
           /\ encoder.symbols = Chunk(Start(b + 1), n) /\ encoder.symbols \in Seq(Shares)
           /\ Len(encoder.symbols) = n
           /\ encoder.blocks \in Seq(RansCoders)
           /\ \A k \in 1 .. b : encoder.blocks[k] = EncodeBlock(Chunk(Start(k), BLOCK_SIZE))
  BY <1>1, BufferIs DEF BlockedInv
<1>3. Start(b + 1) <= N
  BY <1>2
<1>4. ASSUME NEW k \in 1 .. b
      PROVE  Start(k) < N /\ encoder.blocks[k] = EncodeBlock(Chunk(Start(k), Size(k)))
  <2>1. Size(k) = BLOCK_SIZE /\ Start(k) < N
    BY <1>2, <1>3, FullBlock
  <2>. QED  BY <1>2, <2>1
<1>5. \A k : (Chunk(Start(k), Size(k)))' = Chunk(Start(k), Size(k))
  BY <1>1, BlocksSame
<1>6. BlocksExpected(N) = IF n = 0 THEN b ELSE b + 1
  BY <1>2, ExpectedIs
<1>7. SUFFICES ASSUME NEW c \in Nat, Len(payload') = c, c = IF n = 0 THEN b ELSE b + 1,
                      payload' \in Seq(RansCoders),
                      \A k \in 1 .. c : /\ Start(k) < N
                                        /\ payload'[k] = EncodeBlock(Chunk(Start(k), Size(k))),
                      N <= Start(c + 1)
               PROVE  stage' = "decoding" /\ BlockedInv'
  <2>1. CASE n = 0
    <3>1. encoder.symbols = <<>>
      BY <1>2, <2>1, EmptySeq
    <3>2. payload' = encoder.blocks
      BY <1>1, <3>1 DEF FlushBlock
    <3>3. N <= Start(b + 1)
      BY <1>2, <2>1
    <3>. QED  BY <1>2, <1>4, <1>7, <2>1, <3>2, <3>3
  <2>2. CASE n # 0
    <3>1. encoder.symbols # <<>>
      BY <1>2, <2>2, EmptySeq
    <3>2. PICK e : e = EncodeBlock(encoder.symbols)
      OBVIOUS
    <3>3. payload' = Append(encoder.blocks, e)
      BY <1>1, <3>1, <3>2 DEF FlushBlock
    <3>4. e \in RansCoders
      BY <1>2, <3>2, BlockIn
    <3>5. /\ payload' \in Seq(RansCoders) /\ Len(payload') = b + 1 /\ payload'[b + 1] = e
          /\ \A k \in 1 .. b : payload'[k] = encoder.blocks[k]
      BY <1>2, <3>3, <3>4, AppendProperties
    <3>6. PICK q \in Nat : q = b + 1 /\ q >= 1
      OBVIOUS
    <3>7. Size(q) = n /\ Start(q) < N
      <4>1. PICK from \in Nat, B \in Nat : from = Start(q) /\ B = BLOCK_SIZE
        BY <1>2, <3>6, BlockSize
      <4>2. N = from + n /\ n < B
        BY <1>2, <3>6, <4>1
      <4>3. N - from < B /\ N - from = n /\ from < N
        BY <2>2, <4>2
      <4>. QED  BY <1>2, <4>1, <4>3 DEF Size
    <3>8. e = EncodeBlock(Chunk(Start(q), Size(q)))
      BY <1>2, <3>2, <3>6, <3>7
    <3>9. N <= Start(q + 1)
      <4>1. Start(q + 1) = Start(q) + BLOCK_SIZE
        BY <3>6, StartIs
      <4>2. PICK from \in Nat, B \in Nat : from = Start(q) /\ B = BLOCK_SIZE
        BY <1>2, <3>6, BlockSize
      <4>3. N = from + n /\ n < B /\ Start(q + 1) = from + B
        BY <1>2, <3>6, <4>1, <4>2
      <4>. QED  BY <4>3
    <3>10. ASSUME NEW k \in 1 .. q
           PROVE  Start(k) < N /\ payload'[k] = EncodeBlock(Chunk(Start(k), Size(k)))
      <4>1. CASE k = q
        BY <3>5, <3>6, <3>7, <3>8, <4>1
      <4>2. CASE k # q
        <5>1. k \in 1 .. b
          BY <3>6, <4>2
        <5>. QED  BY <1>4, <3>5, <5>1
      <4>. QED  BY <4>1, <4>2
    <3>11. Len(payload') = q /\ q = IF n = 0 THEN b ELSE b + 1
      BY <2>2, <3>5, <3>6
    <3>. QED  BY <1>7, <3>5, <3>9, <3>10, <3>11
  <2>. QED  BY <2>1, <2>2
<1>8. stage' = "decoding"
  BY <1>1, <1>2, <1>6, <1>7
<1>9. Blocked'
  <2>1. ASSUME NEW k \in 1 .. Len(payload')
        PROVE  Start(k) < Len(message') /\ payload'[k] = EncodeBlock((Chunk(Start(k), Size(k)))')
    <3>1. k \in 1 .. c
      BY <1>7
    <3>2. Start(k) < N /\ payload'[k] = EncodeBlock(Chunk(Start(k), Size(k)))
      BY <1>7, <3>1
    <3>. QED  BY <1>1, <1>2, <1>5, <3>2
  <2>2. (Start(Len(payload) + 1))' = Start(c + 1)
    BY <1>7 DEF Start
  <2>3. Len(message') <= (Start(Len(payload) + 1))'
    BY <1>1, <1>2, <1>7, <2>2
  <2>4. \A k : Start(k)' = Start(k)
    BY DEF Start
  <2>5. \A k \in 1 .. Len(payload') : Start(k)' < Len(message') /\ payload'[k] = EncodeBlock((Chunk(Start(k), Size(k)))')
    BY <2>1, <2>4
  <2>. QED  BY <1>7, <2>3, <2>5 DEF Blocked
<1>10. Within'
  <2>1. output' = <<>> /\ decoder' = NewBlockedDecoder
    BY <1>1 DEF Typed
  <2>. QED  BY <2>1 DEF Within
<1>. QED  BY <1>8, <1>9, <1>10 DEF BlockedInv

\* What a block is made of.
LEMMA BlockIs ==
  ASSUME Typed, coder = Rans, Blocked, NEW k \in Nat, 1 <= k, k <= Len(payload)
  PROVE  /\ Start(k) \in Nat /\ Size(k) \in Nat /\ Size(k) >= 1
         /\ Start(k) + Size(k) <= Len(message) /\ Len(message) \in Nat
         /\ Start(k) + Size(k) = Len(message) \/ Start(k) + Size(k) = Start(k + 1)
         /\ Chunk(Start(k), Size(k)) \in Seq(Shares)
         /\ Len(Chunk(Start(k), Size(k))) = Size(k)
         /\ \A i \in 1 .. Size(k) : /\ Chunk(Start(k), Size(k))[i] = ShareOf(message[Start(k) + i])
                                    /\ message[Start(k) + i] \in Entries
<1>1. k \in 1 .. Len(payload)
  BY LenProperties DEF Blocked
<1>2. Start(k) < Len(message) /\ Start(k) \in Nat /\ Start(k + 1) = Start(k) + BLOCK_SIZE
  BY <1>1, StartIs DEF Blocked
<1>3. PICK f \in Nat, N \in Nat, B \in Nat :
        f = Start(k) /\ N = Len(message) /\ B = BLOCK_SIZE /\ B >= 1 /\ f < N
  BY <1>2, BlockSize, LenProperties DEF Typed
<1>4. PICK s \in Nat : s = (IF N - f < B THEN N - f ELSE B) /\ s >= 1
  <2>1. (IF N - f < B THEN N - f ELSE B) \in Nat /\ (IF N - f < B THEN N - f ELSE B) >= 1
    BY <1>3
  <2>. QED  BY <2>1
<1>5. s = Size(k)
  BY <1>3, <1>4 DEF Size
<1>6. f + s <= N /\ (f + s = N \/ f + s = f + B)
  BY <1>3, <1>4
<1>7. /\ Chunk(f, s) \in Seq(Shares) /\ Len(Chunk(f, s)) = s
      /\ \A i \in 1 .. s : /\ Chunk(f, s)[i] = ShareOf(message[f + i])
                           /\ message[f + i] \in Entries
  BY <1>3, <1>6, ChunkIs
<1>. QED  BY <1>2, <1>3, <1>4, <1>5, <1>6, <1>7

\* The decoder is in block k, l symbols before its end, with n symbols decoded.
Inside(d, k, l, n) ==
  /\ d = [opened |-> k, left |-> l, coder |-> d.coder]
  /\ k \in 1 .. Len(payload) /\ l \in 0 .. Size(k)
  /\ d.coder = EncodeLast(Chunk(Start(k), Size(k)), l)
  /\ n = Start(k) + Size(k) - l

\* A decoder that still has symbols to decode finds a block to read from.
LEMMA OpenedIs ==
  ASSUME Typed, coder = Rans, Blocked, Within, Len(output) < Len(message)
  PROVE  \E k \in Nat, l \in Nat :
           l >= 1 /\ Inside(Opened(decoder, payload, Len(message)), k, l, Len(output))
<1>1. PICK n \in Nat, N \in Nat, p \in Nat :
        n = Len(output) /\ N = Len(message) /\ p = Len(payload) /\ n < N
  BY LenProperties DEF Typed, Blocked
<1>2. PICK B \in Nat : B = BLOCK_SIZE /\ B >= 1
  BY BlockSize
<1>3. ASSUME NEW o \in Nat, decoder.opened = o, decoder.left = 0, n = Start(o + 1), o < p
      PROVE  \E k \in Nat, l \in Nat : l >= 1 /\ Inside(Opened(decoder, payload, N), k, l, n)
  <2>1. PICK k \in Nat : k = o + 1 /\ 1 <= k /\ k <= p
    <3>1. o + 1 \in Nat /\ 1 <= o + 1 /\ o + 1 <= p
      BY <1>3
    <3>. QED  BY <3>1
  <2>2. PICK f \in Nat, s \in Nat : f = Start(k) /\ s = Size(k) /\ s >= 1
    BY <1>1, <2>1, BlockIs
  <2>3. /\ Chunk(f, s) \in Seq(Shares) /\ Len(Chunk(f, s)) = s /\ f + s <= N
        /\ payload[k] = EncodeBlock(Chunk(f, s))
    <3>1. k \in 1 .. Len(payload)
      BY <1>1, <2>1
    <3>. QED  BY <1>1, <2>1, <2>2, <3>1, BlockIs DEF Blocked
  <2>4. PICK d : d = Opened(decoder, payload, N)
    OBVIOUS
  <2>5. d = [opened |-> k, coder |-> payload[k], left |-> s]
    <3>1. d = OpenBlock(decoder, payload, N)
      BY <1>1, <1>3, <2>4 DEF Opened
    <3>2. o * BLOCK_SIZE = f
      <4>1. k - 1 = o
        BY <1>3, <2>1
      <4>. QED  BY <2>2, <4>1 DEF Start
    <3>3. s = IF N - f < BLOCK_SIZE THEN N - f ELSE BLOCK_SIZE
      BY <1>1, <2>2 DEF Size
    <3>. QED  BY <1>3, <2>1, <3>1, <3>2, <3>3 DEF OpenBlock
  <2>6. /\ d = [opened |-> k, left |-> s, coder |-> d.coder]
        /\ d.coder = EncodeLast(Chunk(f, s), s)
    <3>1. d.coder = payload[k]
      BY <2>5
    <3>2. payload[k] = EncodeLast(Chunk(f, s), s)
      BY <2>3 DEF EncodeBlock
    <3>. QED  BY <2>5, <3>1, <3>2
  <2>7. k \in 1 .. Len(payload) /\ s \in 0 .. Size(k) /\ n = f + s - s
    BY <1>1, <1>3, <2>1, <2>2
  <2>8. Inside(d, k, s, n)
    BY <2>2, <2>6, <2>7 DEF Inside
  <2>. QED  BY <2>2, <2>4, <2>8
<1>4. CASE decoder = NewBlockedDecoder /\ output = <<>>
  <2>1. decoder.opened = 0 /\ decoder.left = 0 /\ n = 0
    BY <1>1, <1>4 DEF NewBlockedDecoder
  <2>2. Start(1) = 0
    BY StartIs
  <2>3. 0 < p
    <3>1. CASE p = 0
      <4>1. Start(p + 1) = 0
        BY <2>2, <3>1
      <4>2. N <= Start(p + 1)
        BY <1>1 DEF Blocked
      <4>. QED  BY <1>1, <4>1, <4>2
    <3>. QED  BY <3>1
  <2>. QED  BY <1>1, <1>3, <2>1, <2>2, <2>3
<1>5. CASE ~(decoder = NewBlockedDecoder /\ output = <<>>)
  <2>1. Inside(decoder, decoder.opened, decoder.left, n)
    BY <1>1, <1>5 DEF Within, Inside
  <2>2. PICK o \in Nat, l \in Nat : o = decoder.opened /\ l = decoder.left /\ 1 <= o /\ o <= p
    <3>1. decoder.opened \in 1 .. p /\ decoder.left \in 0 .. Size(decoder.opened)
      BY <1>1, <2>1 DEF Inside
    <3>2. decoder.opened \in Nat /\ 1 <= decoder.opened /\ decoder.opened <= p
      BY <3>1
    <3>3. Size(decoder.opened) \in Nat
      BY <1>1, <3>2, BlockIs
    <3>. QED  BY <3>1, <3>2, <3>3
  <2>3. Inside(decoder, o, l, n)
    BY <2>1, <2>2
  <2>4. CASE l # 0
    <3>1. Opened(decoder, payload, N) = decoder
      BY <2>2, <2>4 DEF Opened
    <3>. QED  BY <1>1, <2>2, <2>3, <2>4, <3>1
  <2>5. CASE l = 0
    <3>1. PICK f \in Nat, s \in Nat : f = Start(o) /\ s = Size(o)
      BY <1>1, <2>2, BlockIs
    <3>2. n = f + s
      BY <2>3, <2>5, <3>1 DEF Inside
    <3>3. f + s = Start(o + 1)
      BY <1>1, <2>2, <3>1, <3>2, BlockIs
    <3>4. o < p
      <4>1. CASE o = p
        <5>1. N <= Start(p + 1)
          BY <1>1 DEF Blocked
        <5>. QED  BY <1>1, <3>2, <3>3, <4>1, <5>1
      <4>. QED  BY <2>2, <4>1
    <3>. QED  BY <1>1, <1>3, <2>2, <2>5, <3>2, <3>3, <3>4
  <2>. QED  BY <2>4, <2>5
<1>. QED  BY <1>4, <1>5

LEMMA BlockedSame ==
  ASSUME coder' = coder, message' = message, payload' = payload, Blocked
  PROVE  Blocked'
<1>1. \A k : (Chunk(Start(k), Size(k)))' = Chunk(Start(k), Size(k))
  BY BlocksSame
<1>2. \A k : Start(k)' = Start(k)
  BY DEF Start
<1>3. (Start(Len(payload) + 1))' = Start(Len(payload) + 1)
  BY DEF Start
<1>4. \A k \in 1 .. Len(payload') :
        Start(k)' < Len(message') /\ payload'[k] = EncodeBlock((Chunk(Start(k), Size(k)))')
  BY <1>1, <1>2 DEF Blocked
<1>. QED  BY <1>3, <1>4 DEF Blocked

\* The coder inside a block is the encoder's with the next symbol outermost.
LEMMA InsideStep ==
  ASSUME Typed, coder = Rans, Blocked, NEW d, NEW k \in Nat, NEW l \in Nat, NEW n \in Nat,
         l >= 1, n < Len(message), Inside(d, k, l, n), NEW m, m = message[n + 1]
  PROVE  /\ m \in Entries
         /\ d.left = l
         /\ SymbolAt(Table(m.pdf), Slot(d.coder)) = m.symbol
         /\ Inside(BlockedDecode(d, ShareOf(m)), k, l - 1, n + 1)
<1>1. 1 <= k /\ k <= Len(payload) /\ l <= Size(k)
  BY LenProperties, BlockIs DEF Inside, Blocked
<1>2. PICK f \in Nat, s \in Nat : f = Start(k) /\ s = Size(k)
  BY <1>1, BlockIs
<1>3. /\ d = [opened |-> k, left |-> l, coder |-> d.coder] /\ l <= s
      /\ d.coder = EncodeLast(Chunk(f, s), l) /\ n = f + s - l
  BY <1>1, <1>2 DEF Inside
<1>4. PICK j \in Nat, i \in Nat : l = j + 1 /\ i = s - j /\ 1 <= i /\ i <= s /\ f + i = n + 1
  <2>1. l - 1 \in Nat /\ s - (l - 1) \in Nat /\ 1 <= s - (l - 1) /\ s - (l - 1) <= s
        /\ f + (s - (l - 1)) = n + 1 /\ l = (l - 1) + 1
    <3>1. l <= s /\ n = f + s - l
      BY <1>3
    <3>. QED  BY <3>1
  <2>. QED  BY <2>1
<1>5. PICK c : c = Chunk(f, s)
  OBVIOUS
<1>6. /\ c \in Seq(Shares) /\ Len(c) = s
      /\ \A q \in 1 .. s : c[q] = ShareOf(message[f + q]) /\ message[f + q] \in Entries
  BY <1>1, <1>2, <1>5, BlockIs
<1>7. i \in 1 .. s
  BY <1>4
<1>8. m \in Entries /\ c[i] = ShareOf(m)
  BY <1>4, <1>6, <1>7
<1>9. PICK share : share = ShareOf(m)
  OBVIOUS
<1>10. share \in Shares
  BY <1>8, <1>9, ShareIs DEF Typed
<1>11. PICK r \in RansCoders : r = EncodeLast(c, j) /\ d.coder = RansEncode(r, share)
  <2>1. j \in 0 .. Len(c) /\ j < Len(c) /\ Len(c) - j = i
    <3>1. j + 1 <= s
      BY <1>3, <1>4
    <3>2. j \in 0 .. s /\ j < s /\ s - j = i
      BY <1>4, <3>1
    <3>. QED  BY <1>6, <3>2
  <2>2. EncodeLast(c, j) \in RansCoders /\ EncodeLast(c, j + 1) = RansEncode(EncodeLast(c, j), c[i])
    BY <1>6, <2>1, EncodeLastNext
  <2>. QED  BY <1>3, <1>4, <1>5, <1>8, <1>9, <2>2
<1>12. Slot(d.coder) \in share.lo .. share.hi - 1 /\ RansDecode(d.coder, share) = r
  BY <1>10, <1>11, StepsInvert
<1>13. SymbolAt(Table(m.pdf), Slot(d.coder)) = m.symbol
  <2>1. PICK lo \in Nat, hi \in Nat : lo = share.lo /\ hi = share.hi
    BY <1>10 DEF Shares
  <2>2. PICK v \in Nat : v = Slot(d.coder) /\ lo <= v /\ v < hi
    BY <1>12, <2>1
  <2>. QED  BY <1>8, <1>9, <2>1, <2>2, SymbolFound DEF Typed
<1>14. Inside(BlockedDecode(d, ShareOf(m)), k, l - 1, n + 1)
  <2>1. PICK e : e = BlockedDecode(d, share)
    OBVIOUS
  <2>2. e = [opened |-> k, left |-> j, coder |-> r]
    <3>1. PICK x : x = d.coder /\ RansDecode(x, share) = r
      BY <1>12
    <3>2. d = [opened |-> k, left |-> l, coder |-> x]
      BY <1>3, <3>1
    <3>3. l - 1 = j
      BY <1>4
    <3>4. BlockedDecode(d, share) = [d EXCEPT !.coder = RansDecode(x, share), !.left = l - 1]
      BY <3>2 DEF BlockedDecode
    <3>5. e = [d EXCEPT !.coder = r, !.left = j]
      BY <2>1, <3>1, <3>3, <3>4
    <3>. QED  BY <3>2, <3>5
  <2>3. e = [opened |-> k, left |-> j, coder |-> e.coder] /\ e.coder = r
    BY <2>2
  <2>4. k \in 1 .. Len(payload) /\ j \in 0 .. Size(k)
    BY <1>1, <1>2, <1>3, <1>4 DEF Inside
  <2>5. n + 1 = f + s - j
    BY <1>4
  <2>6. e.coder = EncodeLast(Chunk(Start(k), Size(k)), j)
    BY <1>2, <1>5, <1>11, <2>3
  <2>7. Inside(e, k, j, n + 1)
    BY <1>2, <2>3, <2>4, <2>5, <2>6 DEF Inside
  <2>8. l - 1 = j
    BY <1>4
  <2>. QED  BY <1>9, <2>1, <2>7, <2>8
<1>. QED  BY <1>3, <1>8, <1>13, <1>14

LEMMA DecodeBlocked ==
  ASSUME Typed, Decoded, BlockedInv, DecodeRans
  PROVE  Typed' /\ Decoded' /\ BlockedInv' /\ coder = Rans
<1>1. /\ stage = "decoding" /\ coder = Rans /\ Len(output) < Len(message)
      /\ UNCHANGED <<coder, message, encoder, payload>> /\ Blocked /\ Within
  BY DEF DecodeRans, BlockedInv
<1>2. PICK n \in Nat : n = Len(output) /\ n < Len(message)
  BY <1>1, LenProperties DEF Typed
<1>3. PICK d, m : d = Opened(decoder, payload, Len(message)) /\ m = message[n + 1]
  OBVIOUS
<1>4. PICK k \in Nat, l \in Nat : l >= 1 /\ Inside(d, k, l, n)
  BY <1>1, <1>2, <1>3, OpenedIs
<1>5. /\ d.left = l /\ SymbolAt(Table(m.pdf), Slot(d.coder)) = m.symbol
      /\ Inside(BlockedDecode(d, ShareOf(m)), k, l - 1, n + 1)
  BY <1>1, <1>2, <1>3, <1>4, InsideStep
<1>6. NextTable = Table(m.pdf)
  BY <1>2, <1>3 DEF NextTable
<1>7. output' = Append(output, m.symbol) /\ decoder' = BlockedDecode(d, ShareOf(m)) /\ stage' = stage
  <2>1. PICK s : s = SymbolAt(NextTable, Slot(d.coder))
    OBVIOUS
  <2>2. d.left # 0
    BY <1>4, <1>5
  <2>3. output' = Append(output, s) /\ decoder' = BlockedDecode(d, Share(NextTable, s)) /\ stage' = stage
    BY <1>3, <2>1, <2>2 DEF DecodeRans
  <2>4. s = m.symbol
    BY <1>5, <1>6, <2>1
  <2>5. Share(NextTable, s) = ShareOf(m)
    BY <1>6, <2>4 DEF ShareOf
  <2>. QED  BY <2>3, <2>4, <2>5
<1>8. Typed' /\ Decoded' /\ Len(output') = n + 1
  BY <1>1, <1>2, <1>3, <1>7, OutputGrows
<1>9. Blocked'
  BY <1>1, BlockedSame
<1>10. Within'
  <2>1. PICK e, j : e = decoder' /\ j = l - 1
    OBVIOUS
  <2>2. /\ e = [opened |-> k, left |-> j, coder |-> e.coder]
        /\ k \in 1 .. Len(payload) /\ j \in 0 .. Size(k)
        /\ e.coder = EncodeLast(Chunk(Start(k), Size(k)), j)
        /\ n + 1 = Start(k) + Size(k) - j
    BY <1>5, <1>7, <2>1 DEF Inside
  <2>3. e.opened = k /\ e.left = j
    BY <2>2
  <2>4. Size(k)' = Size(k) /\ (Chunk(Start(k), Size(k)))' = Chunk(Start(k), Size(k)) /\ Start(k)' = Start(k)
    BY <1>1, BlocksSame DEF Start
  <2>5. /\ Size(decoder.opened)' = Size(k) /\ Start(decoder.opened)' = Start(k)
        /\ (Chunk(Start(decoder.opened), Size(decoder.opened)))' = Chunk(Start(k), Size(k))
    <3>1. decoder'.opened = k
      BY <2>1, <2>3
    <3>. QED  BY <2>4, <3>1 DEF Size, Start, Chunk
  <2>6. /\ decoder' = [opened |-> decoder'.opened, left |-> decoder'.left, coder |-> decoder'.coder]
        /\ decoder'.opened \in 1 .. Len(payload') /\ decoder'.left \in 0 .. Size(decoder.opened)'
        /\ decoder'.coder = EncodeLast((Chunk(Start(decoder.opened), Size(decoder.opened)))', decoder'.left)
        /\ Len(output') = Start(decoder.opened)' + Size(decoder.opened)' - decoder'.left
    BY <1>1, <1>8, <2>1, <2>2, <2>3, <2>5
  <2>. QED  BY <2>6 DEF Within
<1>. QED  BY <1>1, <1>7, <1>8, <1>9, <1>10 DEF BlockedInv

-----------------------------------------------------------------------------
(* The compressed stream *)

LEMMA InitIInv ==
  ASSUME Init
  PROVE  IInv
<1>1. /\ coder \in Coders /\ stage = "encoding" /\ message = <<>> /\ payload = <<>> /\ output = <<>>
      /\ encoder = IF coder = Rans THEN [symbols |-> <<>>, blocks |-> <<>>] ELSE NewEncoder
  BY DEF Init
<1>2. encoder \in Encodings
  <2>1. CASE coder = Rans
    <3>1. <<>> \in Seq(Shares) /\ <<>> \in Seq(RansCoders)
      OBVIOUS
    <3>. QED  BY <1>1, <2>1, <3>1 DEF Encodings
  <2>2. CASE coder # Rans
    BY <1>1, <2>2, NewEncoderOpen DEF Encodings
  <2>. QED  BY <2>1, <2>2
<1>3. Len(message) = 0 /\ Len(output) = 0 /\ message \in Seq(Entries) /\ output \in Seq(Nat)
  BY <1>1
<1>4. Typed /\ Decoded
  BY <1>1, <1>2, <1>3 DEF Typed, Decoded
<1>5. ASSUME coder # Rans  PROVE ArithmeticInv
  <2>1. EncoderAfter(0) = NewEncoder
    BY <1>1, <1>3, <1>5 DEF EncoderAfter
  <2>2. Chained
    BY <1>3, <2>1 DEF Chained
  <2>. QED  BY <1>1, <2>2 DEF ArithmeticInv
<1>6. ASSUME coder = Rans  PROVE BlockedInv
  <2>1. encoder.symbols = <<>> /\ Len(encoder.blocks) = 0
    BY <1>1, <1>6
  <2>2. Start(0 + 1) = 0 /\ 0 + 1 = 1 /\ Start(1) = 0
    BY StartIs
  <2>3. Chunk(0, 0) = <<>>
    BY DEF Chunk
  <2>4. 0 < BLOCK_SIZE /\ 0 + BLOCK_SIZE = BLOCK_SIZE /\ 0 - 0 = 0
    BY BlockSize
  <2>5. /\ Start(Len(encoder.blocks) + 1) = 0 /\ Len(message) - Start(Len(encoder.blocks) + 1) = 0
    BY <1>3, <2>1, <2>2
  <2>6. Buffered
    BY <1>3, <2>1, <2>3, <2>4, <2>5 DEF Buffered
  <2>. QED  BY <1>1, <2>6 DEF BlockedInv
<1>. QED  BY <1>4, <1>5, <1>6 DEF IInv

LEMMA FinishTyped ==
  ASSUME Typed, Decoded, Finish, stage' = "decoding"
  PROVE  Typed' /\ Decoded'
<1>1. UNCHANGED <<coder, message, encoder, output>>
  BY DEF Finish
<1>2. Encodings' = Encodings /\ Entries' = Entries
  BY <1>1, Same
<1>3. coder' \in Coders /\ message' \in Seq(Entries') /\ encoder' \in Encodings'
      /\ output' \in Seq(Nat) /\ Len(output') <= Len(message')
  BY <1>1, <1>2 DEF Typed
<1>. QED  BY <1>1, <1>3 DEF Typed, Decoded

\* The stream does not change once it is decoded.
LEMMA VerifyKeeps ==
  ASSUME IInv, Verify
  PROVE  IInv'
<1>1. /\ stage = "decoding" /\ UNCHANGED <<coder, message, encoder, payload, decoder, output>>
      /\ stage' = "decoded" /\ Typed' /\ Decoded'
  BY VerifyPasses DEF IInv, Verify
<1>2. ASSUME coder # Rans  PROVE ArithmeticInv'
  <2>1. Chained /\ Agreed
    BY <1>1, <1>2 DEF IInv, ArithmeticInv
  <2>2. (\A n : EncoderAfter(n)' = EncoderAfter(n)) /\ Chained'
    BY <1>1, <2>1, AfterSame
  <2>3. \A n \in 0 .. Len(message) : Fits(EncoderAfter(n)', payload')
    BY <1>1, <2>1, <2>2 DEF Agreed
  <2>4. Agreed'
    BY <1>1, <2>1, <2>3 DEF Agreed
  <2>. QED  BY <1>1, <2>2, <2>4 DEF ArithmeticInv
<1>3. BlockedInv'
  BY <1>1 DEF BlockedInv
<1>. QED  BY <1>1, <1>2, <1>3 DEF IInv

LEMMA StandsStill ==
  ASSUME IInv, UNCHANGED vars
  PROVE  IInv'
<1>1. UNCHANGED <<coder, stage, message, encoder, payload, decoder, output>>
  BY DEF vars
<1>2. Encodings' = Encodings /\ Entries' = Entries
  BY <1>1, Same
<1>3. Typed' /\ Decoded'
  <2>1. Typed /\ Decoded
    BY DEF IInv
  <2>2. message' \in Seq(Entries') /\ encoder' \in Encodings'
    BY <1>1, <1>2, <2>1 DEF Typed
  <2>. QED  BY <1>1, <2>1, <2>2 DEF Typed, Decoded
<1>4. ASSUME coder # Rans  PROVE ArithmeticInv'
  <2>1. Chained /\ (stage # "encoding" => Agreed)
        /\ (stage = "decoding" => decoder = DecoderAt(EncoderAfter(Len(output)), payload))
    BY <1>4 DEF IInv, ArithmeticInv
  <2>2. (\A n : EncoderAfter(n)' = EncoderAfter(n)) /\ Chained'
    BY <1>1, <2>1, AfterSame
  <2>3. stage' # "encoding" => Agreed'
    <3>1. ASSUME stage # "encoding"  PROVE Agreed'
      <4>1. \A n \in 0 .. Len(message) : Fits(EncoderAfter(n)', payload')
        BY <1>1, <2>1, <2>2, <3>1 DEF Agreed
      <4>. QED  BY <1>1, <2>1, <3>1, <4>1 DEF Agreed
    <3>. QED  BY <1>1, <3>1
  <2>4. EncoderAfter(Len(output))' = EncoderAfter(Len(output))
    BY <1>1 DEF EncoderAfter
  <2>5. (stage = "decoding" => decoder = DecoderAt(EncoderAfter(Len(output)), payload))'
    <3>1. stage = "decoding" => decoder' = DecoderAt(EncoderAfter(Len(output))', payload')
      BY <1>1, <2>1, <2>4
    <3>. QED  BY <1>1, <3>1
  <2>. QED  BY <2>2, <2>3, <2>5 DEF ArithmeticInv
<1>5. ASSUME coder = Rans  PROVE BlockedInv'
  <2>1. \A k, n : (Chunk(Start(k), n))' = Chunk(Start(k), n)
    <3>1. ASSUME NEW k, NEW n  PROVE (Chunk(Start(k), n))' = Chunk(Start(k), n)
      <4>1. ASSUME NEW i  PROVE (ShareOf(message[Start(k) + i]))' = ShareOf(message[Start(k) + i])
        BY <1>1 DEF ShareOf, Table
      <4>. QED  BY <4>1 DEF Chunk, Start
    <3>. QED  BY <3>1
  <2>2. (stage = "encoding" => Buffered) /\ (stage = "decoding" => Blocked /\ Within)
    BY <1>5 DEF IInv, BlockedInv
  <2>3. stage = "encoding" => Buffered'
    <3>1. /\ (Start(Len(encoder.blocks) + 1))' = Start(Len(encoder.blocks) + 1)
          /\ \A k : Start(k)' = Start(k)
      BY <1>1 DEF Start
    <3>2. (Chunk(Start(Len(encoder.blocks) + 1), Len(message) - Start(Len(encoder.blocks) + 1)))'
            = Chunk(Start(Len(encoder.blocks) + 1), Len(message) - Start(Len(encoder.blocks) + 1))
      <4>1. PICK k, n : k = Len(encoder.blocks) + 1 /\ n = Len(message) - Start(Len(encoder.blocks) + 1)
        OBVIOUS
      <4>2. (Chunk(Start(Len(encoder.blocks) + 1), Len(message) - Start(Len(encoder.blocks) + 1)))'
              = (Chunk(Start(k), n))'
        BY <1>1, <4>1 DEF Chunk, Start
      <4>. QED  BY <2>1, <4>1, <4>2
    <3>3. \A k : EncodeBlock((Chunk(Start(k), BLOCK_SIZE))') = EncodeBlock(Chunk(Start(k), BLOCK_SIZE))
      BY <2>1
    <3>4. ASSUME Buffered  PROVE Buffered'
      <4>1. \A k \in 1 .. Len(encoder'.blocks) :
              encoder'.blocks[k] = EncodeBlock((Chunk(Start(k), BLOCK_SIZE))')
        BY <1>1, <3>3, <3>4 DEF Buffered
      <4>2. /\ (Start(Len(encoder.blocks) + 1))' <= Len(message')
            /\ Len(message') < (Start(Len(encoder.blocks) + 1))' + BLOCK_SIZE
            /\ encoder'.symbols = (Chunk(Start(Len(encoder.blocks) + 1), Len(message) - Start(Len(encoder.blocks) + 1)))'
        BY <1>1, <3>1, <3>2, <3>4 DEF Buffered
      <4>. QED  BY <4>1, <4>2 DEF Buffered
    <3>. QED  BY <2>2, <3>4
  <2>4. stage = "decoding" => Blocked'
    BY <1>1, <2>2, BlockedSame
  <2>5. stage = "decoding" => Within'
    <3>1. /\ Size(decoder.opened)' = Size(decoder.opened) /\ Start(decoder.opened)' = Start(decoder.opened)
      BY <1>1 DEF Size, Start
    <3>2. (Chunk(Start(decoder.opened), Size(decoder.opened)))' = Chunk(Start(decoder.opened), Size(decoder.opened))
      <4>1. PICK k, n : k = decoder.opened /\ n = Size(decoder.opened)
        OBVIOUS
      <4>2. (Chunk(Start(decoder.opened), Size(decoder.opened)))' = (Chunk(Start(k), n))'
        BY <1>1, <3>1, <4>1 DEF Chunk, Start
      <4>. QED  BY <2>1, <4>1, <4>2
    <3>. QED  BY <1>1, <2>2, <3>1, <3>2 DEF Within
  <2>. QED  BY <1>1, <2>3, <2>4, <2>5 DEF BlockedInv
<1>. QED  BY <1>1, <1>3, <1>4, <1>5 DEF IInv

\* The invariant that carries the proof: the encoder after every symbol is in the stream,
\* and the decoder is the encoder's mirror image.
THEOREM Inductive == Spec => []IInv
<1>1. Init => IInv
  BY InitIInv
<1>2. IInv /\ [Next]_vars => IInv'
  <2>. SUFFICES ASSUME IInv, [Next]_vars PROVE IInv'
    OBVIOUS
  <2>0. Typed /\ Decoded /\ (coder # Rans => ArithmeticInv) /\ (coder = Rans => BlockedInv)
    BY DEF IInv
  <2>1. CASE EncodeSymbol
    <3>1. coder' = coder
      BY <2>1 DEF EncodeSymbol
    <3>2. encoder' \in Encodings /\ (coder # Rans => ArithmeticInv') /\ (coder = Rans => BlockedInv')
      BY <2>0, <2>1, EncodeArithmetic, EncodeBlocked
    <3>3. Typed' /\ Decoded'
      BY <2>0, <2>1, <3>2, EncodeTyped
    <3>. QED  BY <3>1, <3>2, <3>3 DEF IInv
  <2>2. CASE Finish
    <3>1. coder' = coder
      BY <2>2 DEF Finish
    <3>2. stage' = "decoding" /\ (coder # Rans => ArithmeticInv') /\ (coder = Rans => BlockedInv')
      BY <2>0, <2>2, FinishArithmetic, FinishBlocked
    <3>3. Typed' /\ Decoded'
      BY <2>0, <2>2, <3>2, FinishTyped
    <3>. QED  BY <3>1, <3>2, <3>3 DEF IInv
  <2>3. CASE DecodeAc
    <3>1. coder' = coder /\ coder # Rans
      BY <2>3 DEF DecodeAc
    <3>. QED  BY <2>0, <2>3, <3>1, DecodeArithmetic DEF IInv
  <2>4. CASE DecodeRans
    <3>1. coder' = coder /\ coder = Rans
      BY <2>4 DEF DecodeRans
    <3>. QED  BY <2>0, <2>4, <3>1, DecodeBlocked DEF IInv
  <2>5. CASE Verify
    BY <2>5, VerifyKeeps
  <2>6. CASE UNCHANGED vars
    BY <2>6, StandsStill
  <2>. QED  BY <2>1, <2>2, <2>3, <2>4, <2>5, <2>6 DEF Next
<1>. QED  BY <1>1, <1>2, PTL DEF Spec

\* Decompression gives back what was compressed, symbol by symbol, for every distribution
\* the predictor may answer, every length of a stream, every width of the registers and
\* every size of a block, and neither the number of blocks nor the checksum is found wrong
\* (encode_payload_*, decode_payload_*, decompress_rate_bytes).
THEOREM RoundTripsAlways == Spec => []RoundTrips
<1>1. IInv => RoundTrips
  <2>. SUFFICES ASSUME IInv PROVE RoundTrips
    OBVIOUS
  <2>1. Typed /\ Decoded
    BY DEF IInv
  <2>2. DOMAIN output = 1 .. Len(output)
    BY <2>1, LenProperties DEF Typed
  <2>3. stage # "failed"
    BY <2>1 DEF Typed
  <2>. QED  BY <2>1, <2>2, <2>3 DEF RoundTrips, Decoded
<1>. QED  BY <1>1, Inductive, PTL

\* While a stream is decoded its decoder is in step with the encoder that made it: the
\* interval of ac.rs is the encoder's and holds the code, so that code - low never wraps
\* around; the number of rans.rs stays within its register, and a block ends as it began.
THEOREM StaysInStep == Spec => []InStep
<1>1. IInv => InStep
  <2>. SUFFICES ASSUME IInv, stage = "decoding" PROVE InStep
    BY DEF InStep
  <2>1. Typed /\ (coder # Rans => ArithmeticInv) /\ (coder = Rans => BlockedInv)
    BY DEF IInv
  <2>2. CASE coder # Rans
    <3>1. PICK n \in Nat : n = Len(output) /\ n \in 0 .. Len(message)
      <4>1. Len(output) \in Nat /\ Len(output) \in 0 .. Len(message)
        BY <2>1, LenProperties DEF Typed
      <4>. QED  BY <4>1
    <3>2. PICK e : e = EncoderAfter(n)
      OBVIOUS
    <3>3. /\ e \in OpenEncoders /\ Fits(e, payload) /\ payload \in Seq(Bit)
          /\ decoder = DecoderAt(e, payload)
      BY <2>1, <2>2, <3>1, <3>2, AfterOpen DEF ArithmeticInv, Agreed
    <3>4. decoder.low = e.low /\ decoder.high = e.high /\ decoder.code = Code(e, payload)
      BY <3>3 DEF DecoderAt
    <3>5. PICK low \in Nat, high \in Nat, code \in Nat :
            low = e.low /\ high = e.high /\ code = Code(e, payload)
      <4>1. e \in Encoders
        BY <3>3 DEF OpenEncoders
      <4>. QED  BY <3>3, <4>1, EncoderIs, CodeParts
    <3>6. low <= code /\ code <= high
      BY <3>3, <3>5 DEF Fits
    <3>7. code \in low .. high
      BY <3>6
    <3>. QED  BY <2>2, <3>1, <3>2, <3>4, <3>5, <3>7 DEF InStep
  <2>3. CASE coder = Rans
    <3>1. Blocked /\ Within
      BY <2>1, <2>3 DEF BlockedInv
    <3>2. decoder.coder \in RansCoders /\ (decoder.left = 0 => decoder.coder = NewRansCoder)
      <4>1. CASE decoder = NewBlockedDecoder
        BY <4>1, NewRansCoderIn DEF NewBlockedDecoder
      <4>2. CASE decoder # NewBlockedDecoder
        <5>1. PICK k, l : k = decoder.opened /\ l = decoder.left
          OBVIOUS
        <5>2. k \in 1 .. Len(payload) /\ l \in 0 .. Size(k)
              /\ decoder.coder = EncodeLast(Chunk(Start(k), Size(k)), l)
          BY <3>1, <4>2, <5>1 DEF Within
        <5>3. k \in Nat /\ 1 <= k /\ k <= Len(payload)
          BY <3>1, <5>2, LenProperties DEF Blocked
        <5>4. PICK c : c = Chunk(Start(k), Size(k))
          OBVIOUS
        <5>5. c \in Seq(Shares) /\ Len(c) = Size(k)
          BY <2>1, <2>3, <3>1, <5>3, <5>4, BlockIs
        <5>6. l \in 0 .. Len(c)
          BY <5>2, <5>5
        <5>7. EncodeLast(c, 0) = NewRansCoder /\ EncodeLast(c, l) \in RansCoders
          BY <5>5, <5>6, EncodeLastNext
        <5>. QED  BY <5>1, <5>2, <5>4, <5>7
      <4>. QED  BY <4>1, <4>2
    <3>3. decoder.coder.state \in ANS_LOW .. ANS_HIGH - 1
      BY <3>2 DEF RansCoders
    <3>. QED  BY <2>3, <3>2, <3>3 DEF InStep
  <2>. QED  BY <2>2, <2>3
<1>. QED  BY <1>1, Inductive, PTL
=============================================================================
