--------------------------- MODULE WarmStartProofs ---------------------------
(***************************************************************************)
(* What the warm-start agent conditions its predictors on, for every       *)
(* period, horizon, alphabet, teacher and number of rounds.                *)
(*                                                                         *)
(* The argument: the labels known are those of the steps whose return is   *)
(* complete (TrueLabels); each phase is trained up to its last such step   *)
(* (Progress); so a decision pushes exactly the rest of the history, and,  *)
(* the phase period being no shorter than the horizon, with no label open. *)
(* What the predictors have been trained on needs what a return is: the    *)
(* rolling window over a teacher's trace gives the differences of its      *)
(* partial sums, and so do the returns (LabelsAreReturns); the order of the*)
(* traces is total, so that a teacher can be listed in it (CanonicalIs);   *)
(* and a decision trains nothing (Taught).                                 *)
(***************************************************************************)
EXTENDS WarmStart, SequenceTheorems, FiniteSetTheorems, NaturalsInduction,
        WellFoundedInduction, TLAPS

-----------------------------------------------------------------------------
(* Streams *)

\* The label and the token of step i, as the reference has them.
TrueLabel(h, i) == IF i + Horizon - 1 <= Len(h) THEN {ReturnFrom(h, i)} ELSE {}
Token(h, p, i) == StepToken(h[i], IF PhaseOf(i) = p THEN TrueLabel(h, i) ELSE {})

TrueLabels(h) == [i \in 1 .. Len(h) |-> TrueLabel(h, i)]
TokenSet(h, p) == {Token(h, p, i) : i \in Nat}

LEMMA Parameters ==
  /\ Period \in Nat \ {0} /\ Horizon \in Nat \ {0} /\ Horizon <= Period
  /\ NumActions \in Nat \ {0}
  /\ \A i \in Nat : PhaseOf(i) \in Phases
BY WarmStartAssumption DEF PhaseOf, Phases

LEMMA ExactIsSeq ==
  ASSUME NEW h, NEW p, NEW n \in Nat
  PROVE  /\ Exact(h, p, n) \in Seq(TokenSet(h, p)) /\ Len(Exact(h, p, n)) = n
         /\ \A i \in 1 .. n : Exact(h, p, n)[i] = Token(h, p, i)
<1>1. Exact(h, p, n) = [i \in 1 .. n |-> Token(h, p, i)]
  BY DEF Exact, Token, TrueLabel
<1>2. Exact(h, p, n) \in [1 .. n -> TokenSet(h, p)]  BY <1>1 DEF TokenSet
<1>. QED  BY <1>1, <1>2, LenProperties, SeqDef

\* The tokens of steps n+1..m.
Run(h, p, n, m) == [k \in 1 .. m - n |-> Token(h, p, n + k)]

LEMMA ExactExtends ==
  ASSUME NEW h, NEW p, NEW n \in Nat, NEW m \in Nat, n <= m
  PROVE  /\ Exact(h, p, n) \o Run(h, p, n, m) = Exact(h, p, m)
         /\ Len(Run(h, p, n, m)) = m - n
<1>. DEFINE S == TokenSet(h, p)
            u == Run(h, p, n, m)
            a == Exact(h, p, n)
            e == Exact(h, p, m)
<1>0. PICK d \in Nat : d = m - n /\ n + d = m  OBVIOUS
<1>1. a \in Seq(S) /\ Len(a) = n /\ \A i \in 1 .. n : a[i] = Token(h, p, i)
  BY ExactIsSeq
<1>2. e \in Seq(S) /\ Len(e) = m /\ \A i \in 1 .. m : e[i] = Token(h, p, i)
  BY ExactIsSeq
<1>3. u \in Seq(S) /\ Len(u) = d /\ \A k \in 1 .. d : u[k] = Token(h, p, n + k)
  <2>1. u = [k \in 1 .. d |-> Token(h, p, n + k)]  BY <1>0 DEF Run
  <2>2. u \in [1 .. d -> S]  BY <2>1 DEF TokenSet
  <2>. HIDE DEF u, S
  <2>3. u \in Seq(S) /\ Len(u) = d  BY <1>0, <2>2, SeqDef, LenProperties
  <2>. QED  BY <2>1, <2>3
<1>. HIDE DEF S, u, a, e
<1>4. /\ a \o u \in Seq(S) /\ Len(a \o u) = n + d
      /\ \A i \in 1 .. n + d : (a \o u)[i] = IF i <= n THEN a[i] ELSE u[i - n]
  BY <1>0, <1>1, <1>3, ConcatProperties
<1>5. ASSUME NEW i \in 1 .. m  PROVE (a \o u)[i] = e[i]
  <2>0. i \in 1 .. n + d  BY <1>0
  <2>1. CASE i <= n  BY <2>0, <2>1, <1>1, <1>2, <1>4
  <2>2. CASE i > n
    <3>1. i - n \in 1 .. d /\ n + (i - n) = i  BY <2>0, <2>2, <1>0
    <3>. QED  BY <2>0, <2>2, <3>1, <1>2, <1>3, <1>4
  <2>3. i <= n \/ i > n  OBVIOUS
  <2>. QED  BY <2>1, <2>2, <2>3
<1>. QED  BY <1>0, <1>2, <1>3, <1>4, <1>5, SeqEqual DEF a, u, e

\* Popping the tokens past n.
LEMMA ExactPopped ==
  ASSUME NEW h, NEW p, NEW n \in Nat, NEW m \in Nat, n <= m
  PROVE  Popped(Exact(h, p, m), m - n) = Exact(h, p, n)
<1>. DEFINE S == TokenSet(h, p)
            a == Exact(h, p, n)
            e == Exact(h, p, m)
            r == SubSeq(e, 1, n)
<1>1. a \in Seq(S) /\ Len(a) = n /\ \A i \in 1 .. n : a[i] = Token(h, p, i)
  BY ExactIsSeq
<1>2. e \in Seq(S) /\ Len(e) = m /\ \A i \in 1 .. m : e[i] = Token(h, p, i)
  BY ExactIsSeq
<1>. HIDE DEF S, a, e
<1>3. r \in Seq(S) /\ Len(r) = n /\ \A i \in 1 .. n : r[i] = e[i]
  <2>1. \A i \in 1 .. n : e[i] \in S  BY <1>2, ElementOfSeq
  <2>. QED  BY <2>1, SubSeqProperties
<1>4. Popped(e, m - n) = r
  <2>1. Len(e) - (m - n) = n  BY <1>2
  <2>. QED  BY <2>1 DEF Popped
<1>. HIDE DEF r
<1>5. r = a  BY <1>1, <1>2, <1>3, SeqEqual
<1>. QED  BY <1>4, <1>5 DEF a, e

\* Popping one token that was pushed.
LEMMA PushedPopped ==
  ASSUME NEW h, NEW p, NEW n \in Nat, NEW x
  PROVE  Popped(Append(Exact(h, p, n), x), 1) = Exact(h, p, n)
<1>. DEFINE S == TokenSet(h, p) \cup {x}
            a == Exact(h, p, n)
            r == Append(a, x)
            s == SubSeq(r, 1, n)
<1>1. a \in Seq(S) /\ Len(a) = n
  <2>1. TokenSet(h, p) \subseteq S  OBVIOUS
  <2>. HIDE DEF S
  <2>. QED  BY <2>1, ExactIsSeq, SeqMonotonic
<1>2. x \in S  OBVIOUS
<1>. HIDE DEF S, a
<1>3. r \in Seq(S) /\ Len(r) = n + 1 /\ \A i \in 1 .. n : r[i] = a[i]
  BY <1>1, <1>2, AppendProperties
<1>. HIDE DEF r
<1>4. s \in Seq(S) /\ Len(s) = n /\ \A i \in 1 .. n : s[i] = r[i]
  <2>1. \A i \in 1 .. n : r[i] \in S  BY <1>3, ElementOfSeq
  <2>. QED  BY <2>1, SubSeqProperties
<1>5. Popped(r, 1) = s
  <2>1. Len(r) - 1 = n  BY <1>3
  <2>. QED  BY <2>1 DEF Popped
<1>. HIDE DEF s
<1>6. s = a  BY <1>1, <1>3, <1>4, SeqEqual
<1>. QED  BY <1>5, <1>6 DEF r, a

\* What is pushed and what is trained are the tokens of the reference.
LEMMA TokensAreRun ==
  ASSUME NEW h, Len(h) \in Nat, NEW p, NEW n \in Nat, NEW m \in Nat, n <= m, m <= Len(h)
  PROVE  Tokens(h, TrueLabels(h), p, n + 1, m) = Run(h, p, n, m)
<1>1. Tokens(h, TrueLabels(h), p, n + 1, m) =
        [k \in 1 .. m - n |-> StepToken(h[n + k], LabelIn(TrueLabels(h), p, n + k))]
  BY DEF Tokens
<1>2. ASSUME NEW k \in 1 .. m - n
      PROVE  LabelIn(TrueLabels(h), p, n + k) =
               IF PhaseOf(n + k) = p THEN TrueLabel(h, n + k) ELSE {}
  BY DEF LabelIn, TrueLabels
<1>. QED  BY <1>1, <1>2 DEF Run, Token

-----------------------------------------------------------------------------
(* A further step *)

\* A return does not change once it is complete.
LEMMA ReturnKept ==
  ASSUME NEW S, NEW h \in Seq(S), NEW x \in S, NEW i \in Nat \ {0}, i + Horizon - 1 <= Len(h)
  PROVE  ReturnFrom(Append(h, x), i) = ReturnFrom(h, i)
<1>. DEFINE g == Append(h, x)
            m == i + Horizon - 1
            u == SubSeq(h, i, m)
            v == SubSeq(g, i, m)
<1>1. g \in Seq(S) /\ Len(g) = Len(h) + 1 /\ Len(h) \in Nat
      /\ \A j \in 1 .. Len(h) : g[j] = h[j]
  BY LenProperties, AppendProperties
<1>2. m \in Nat /\ m <= Len(h)  BY Parameters
<1>. HIDE DEF g, m
<1>3. \A j \in i .. m : h[j] \in S /\ g[j] = h[j]
  <2>1. \A j \in i .. m : j \in 1 .. Len(h)  BY <1>1, <1>2
  <2>. QED  BY <2>1, <1>1, ElementOfSeq
<1>4. u \in Seq(S) /\ Len(u) = (IF i <= m THEN m - i + 1 ELSE 0)
      /\ \A j \in 1 .. m - i + 1 : u[j] = h[i + j - 1]
  BY <1>2, <1>3, SubSeqProperties
<1>5. v \in Seq(S) /\ Len(v) = (IF i <= m THEN m - i + 1 ELSE 0)
      /\ \A j \in 1 .. m - i + 1 : v[j] = g[i + j - 1]
  BY <1>2, <1>3, SubSeqProperties
<1>6. \A j \in 1 .. Len(u) : u[j] = v[j]
  <2>1. \A j \in 1 .. Len(u) : j \in 1 .. m - i + 1 /\ i + j - 1 \in i .. m
    BY <1>2, <1>4
  <2>. QED  BY <2>1, <1>3, <1>4, <1>5
<1>. HIDE DEF u, v
<1>7. u = v  BY <1>4, <1>5, <1>6, SeqEqual
<1>. QED  BY <1>7 DEF u, v, g, m, ReturnFrom

LEMMA ExactKept ==
  ASSUME NEW S, NEW h \in Seq(S), NEW x \in S, NEW p, NEW n \in Nat,
         n = 0 \/ n <= LabelStart(Len(h))
  PROVE  Exact(Append(h, x), p, n) = Exact(h, p, n)
<1>. DEFINE g == Append(h, x)
<1>1. g \in Seq(S) /\ Len(g) = Len(h) + 1 /\ Len(h) \in Nat
      /\ \A j \in 1 .. Len(h) : g[j] = h[j]
  BY LenProperties, AppendProperties
<1>2. ASSUME NEW i \in 1 .. n  PROVE Token(g, p, i) = Token(h, p, i)
  <2>1. i \in Nat \ {0} /\ i + Horizon - 1 <= Len(h) /\ i \in 1 .. Len(h)
    BY <1>1, Parameters DEF LabelStart
  <2>2. TrueLabel(g, i) = TrueLabel(h, i)
    <3>1. ReturnFrom(g, i) = ReturnFrom(h, i)  BY <2>1, ReturnKept
    <3>2. i + Horizon - 1 <= Len(g)  BY <2>1, <1>1, Parameters
    <3>. QED  BY <3>1, <3>2, <2>1 DEF TrueLabel
  <2>. QED  BY <2>1, <2>2, <1>1 DEF Token
<1>3. /\ Exact(g, p, n) = [i \in 1 .. n |-> Token(g, p, i)]
      /\ Exact(h, p, n) = [i \in 1 .. n |-> Token(h, p, i)]
  BY DEF Exact, Token, TrueLabel
<1>. HIDE DEF g
<1>. QED  BY <1>2, <1>3 DEF g

\* What a transition makes of the labels.
Known(h, labelled, x) ==
  LET start == LabelStart(Len(h) + 1)
      unknown == Append(labelled, {})
  IN  IF start < 1 THEN unknown
      ELSE [unknown EXCEPT ![start] = {ReturnFrom(Append(h, x), start)}]

LEMMA KnownAreTrue ==
  ASSUME NEW S, NEW h \in Seq(S), NEW x \in S
  PROVE  Known(h, TrueLabels(h), x) = TrueLabels(Append(h, x))
<1>. DEFINE g == Append(h, x)
            n == Len(h)
            start == n + 2 - Horizon
            L == {TrueLabel(h, i) : i \in Nat} \cup {{}}
            old == TrueLabels(h)
            unknown == Append(old, {})
<1>1. g \in Seq(S) /\ Len(g) = n + 1 /\ n \in Nat
  BY LenProperties, AppendProperties
<1>2. old \in Seq(L) /\ Len(old) = n /\ \A i \in 1 .. n : old[i] = TrueLabel(h, i)
  <2>1. old \in [1 .. n -> L] /\ \A i \in 1 .. n : old[i] = TrueLabel(h, i)
    BY DEF TrueLabels
  <2>. HIDE DEF old, L
  <2>. QED  BY <2>1, <1>1, SeqDef, LenProperties
<1>3. {} \in L  OBVIOUS
<1>. HIDE DEF L, old
<1>4. /\ unknown \in Seq(L) /\ Len(unknown) = n + 1
      /\ (\A i \in 1 .. n : unknown[i] = TrueLabel(h, i)) /\ unknown[n + 1] = {}
  BY <1>1, <1>2, <1>3, AppendProperties
<1>5. unknown = [i \in 1 .. n + 1 |-> unknown[i]]
  <2>. HIDE DEF unknown
  <2>. QED  BY <1>4, LenProperties
<1>. HIDE DEF unknown, g
<1>6. \A i \in 1 .. n : i # start => TrueLabel(g, i) = TrueLabel(h, i)
  <2>1. ASSUME NEW i \in 1 .. n, i # start  PROVE TrueLabel(g, i) = TrueLabel(h, i)
    <3>1. CASE i + Horizon - 1 <= n
      <4>1. ReturnFrom(g, i) = ReturnFrom(h, i)  BY <3>1, <1>1, ReturnKept DEF g
      <4>. QED  BY <3>1, <4>1, <1>1, Parameters DEF TrueLabel
    <3>2. CASE ~ (i + Horizon - 1 <= n)
      <4>1. ~ (i + Horizon - 1 <= n + 1)  BY <2>1, <3>2, <1>1, Parameters
      <4>. QED  BY <3>2, <4>1, <1>1 DEF TrueLabel
    <3>. QED  BY <3>1, <3>2
  <2>. QED  BY <2>1
<1>7. LabelStart(n + 1) = start /\ start \in Int /\ start <= n + 1
  BY <1>1, Parameters DEF LabelStart
<1>8. CASE start < 1
  <2>1. \A i \in 1 .. n : TrueLabel(g, i) = TrueLabel(h, i)
    BY <1>6, <1>8, <1>7, <1>1
  <2>2. TrueLabel(g, n + 1) = {}  BY <1>1, <1>8, Parameters DEF TrueLabel
  <2>3. \A i \in 1 .. n + 1 : unknown[i] = TrueLabel(g, i)
    <3>1. \A i \in 1 .. n + 1 : i \in 1 .. n \/ i = n + 1  BY <1>1
    <3>. QED  BY <2>1, <2>2, <3>1, <1>4
  <2>4. unknown = TrueLabels(g)  BY <2>3, <1>1, <1>5 DEF TrueLabels
  <2>. QED  BY <2>4, <1>7, <1>8 DEF Known, g, unknown, old
<1>9. CASE start >= 1
  <2>. DEFINE known == [unknown EXCEPT ![start] = {ReturnFrom(g, start)}]
  <2>1. TrueLabel(g, start) = {ReturnFrom(g, start)}
    BY <1>1, <1>7, Parameters DEF TrueLabel
  <2>2. start # n + 1 => TrueLabel(g, n + 1) = {}
    BY <1>1, <1>7, Parameters DEF TrueLabel
  <2>3. known = [i \in 1 .. n + 1 |-> IF i = start THEN {ReturnFrom(g, start)} ELSE unknown[i]]
    BY <1>5
  <2>4. ASSUME NEW i \in 1 .. n + 1
        PROVE  (IF i = start THEN {ReturnFrom(g, start)} ELSE unknown[i]) = TrueLabel(g, i)
    <3>1. CASE i = start  BY <3>1, <2>1
    <3>2. CASE i # start /\ i \in 1 .. n  BY <3>2, <1>4, <1>6
    <3>3. CASE i # start /\ i = n + 1  BY <3>3, <1>4, <2>2
    <3>. QED  BY <3>1, <3>2, <3>3, <1>1
  <2>5. known = TrueLabels(g)  BY <2>3, <2>4, <1>1 DEF TrueLabels
  <2>. QED  BY <2>5, <1>7, <1>9 DEF Known, g, unknown, old
<1>. QED  BY <1>7, <1>8, <1>9

-----------------------------------------------------------------------------
(* Recursive functions over a range of numbers *)

\* A nonempty set of naturals has a least element.
LEMMA LeastNatural ==
  ASSUME NEW T \in SUBSET Nat, T # {}
  PROVE  \E m \in T : \A n \in T : m <= n
<1>1. PICK m \in T : \A n \in T : ~ (<<n, m>> \in OpToRel(<, Nat))
  <2>. HIDE DEF OpToRel
  <2>. QED  BY NatLessThanWellFounded, WFMin
<1>2. ASSUME NEW n \in T  PROVE m <= n
  <2>1. ~ (n < m)  BY <1>1 DEF OpToRel
  <2>. QED  BY <2>1
<1>. QED  BY <1>2

\* f starts with b and goes on with g.
Iterated(f, b, g, n) == f[0] = b /\ \A i \in 1 .. n : f[i] = g[<<i, f[i - 1]>>]

LEMMA IterateMore ==
  ASSUME NEW V, NEW b, NEW g, NEW n \in Nat, NEW f \in [0 .. n -> V], Iterated(f, b, g, n),
         \A v \in V : g[<<n + 1, v>>] \in V
  PROVE  \E h \in [0 .. n + 1 -> V] : Iterated(h, b, g, n + 1)
<1>. DEFINE final == g[<<n + 1, f[n]>>]
            h == [i \in 0 .. n + 1 |-> IF i <= n THEN f[i] ELSE final]
<1>1. final \in V
  BY SMT
<1>2. h \in [0 .. n + 1 -> V]
  <2>1. \A i \in 0 .. n + 1 : (IF i <= n THEN f[i] ELSE final) \in V
    <3>. HIDE DEF final
    <3>. QED  BY <1>1
  <2>. HIDE DEF final
  <2>. QED  BY <2>1
<1>3. (\A i \in 0 .. n : h[i] = f[i]) /\ h[n + 1] = final
  <2>. HIDE DEF final
  <2>. QED  OBVIOUS
<1>. HIDE DEF h
<1>4. ASSUME NEW i \in 1 .. n + 1  PROVE h[i] = g[<<i, h[i - 1]>>]
  <2>1. CASE i <= n
    <3>1. i \in 1 .. n /\ i \in 0 .. n /\ i - 1 \in 0 .. n
      BY <2>1
    <3>2. f[i] = g[<<i, f[i - 1]>>]
      BY <3>1 DEF Iterated
    <3>. QED  BY <1>3, <3>1, <3>2
  <2>2. CASE i = n + 1
    <3>1. i - 1 = n /\ n \in 0 .. n
      BY <2>2
    <3>. QED  BY <1>3, <2>2, <3>1
  <2>. QED  BY <2>1, <2>2
<1>5. h[0] = b
  BY <1>3 DEF Iterated
<1>6. Iterated(h, b, g, n + 1)
  BY <1>4, <1>5 DEF Iterated
<1>. QED  BY <1>2, <1>6

\* A recursive function whose steps stay in a set exists.
LEMMA Iterate ==
  ASSUME NEW V, NEW b \in V, NEW g, NEW n \in Nat,
         \A i \in 1 .. n : \A v \in V : g[<<i, v>>] \in V
  PROVE  \E f \in [0 .. n -> V] : Iterated(f, b, g, n)
<1>. DEFINE Good(m) == \E f \in [0 .. m -> V] : Iterated(f, b, g, m)
            T == {m \in 0 .. n : ~ Good(m)}
<1>1. SUFFICES ASSUME n \in T PROVE FALSE
  OBVIOUS
<1>2. PICK m \in T : \A k \in T : m <= k
  <2>1. T \in SUBSET Nat /\ T # {}
    BY <1>1
  <2>. HIDE DEF T
  <2>. QED  BY <2>1, LeastNatural
<1>3. CASE m = 0
  <2>. DEFINE f == [i \in 0 .. 0 |-> b]
  <2>1. f \in [0 .. 0 -> V] /\ f[0] = b
    OBVIOUS
  <2>2. Iterated(f, b, g, 0)
    BY <2>1 DEF Iterated
  <2>. HIDE DEF f
  <2>3. Good(0)
    BY <2>1, <2>2
  <2>. QED  BY <2>3, <1>3
<1>4. CASE m # 0
  <2>1. m - 1 \in 0 .. n /\ m - 1 \in Nat /\ ~(m <= m - 1) /\ (m - 1) + 1 = m /\ m \in 1 .. n
    BY <1>4
  <2>2. m - 1 \notin T
    BY <1>2, <2>1
  <2>3. Good(m - 1)
    <3>. HIDE DEF Good
    <3>. QED  BY <2>1, <2>2
  <2>4. PICK f \in [0 .. m - 1 -> V] : Iterated(f, b, g, m - 1)
    BY <2>3
  <2>5. \A v \in V : g[<<(m - 1) + 1, v>>] \in V
    BY <2>1
  <2>6. \E h \in [0 .. (m - 1) + 1 -> V] : Iterated(h, b, g, (m - 1) + 1)
    BY <2>1, <2>4, <2>5, IterateMore
  <2>7. Good(m)
    BY <2>1, <2>6
  <2>. HIDE DEF Good
  <2>. QED  BY <2>7
<1>. QED  BY <1>3, <1>4

\* Induction, for a set of numbers.
LEMMA NatSet ==
  ASSUME NEW T, 0 \in T, \A n \in Nat : n \in T => n + 1 \in T
  PROVE  \A n \in Nat : n \in T
<1>. DEFINE D == {n \in Nat : n \notin T}
<1>1. SUFFICES ASSUME D # {} PROVE FALSE
  OBVIOUS
<1>2. PICK m \in D : \A k \in D : m <= k
  <2>1. D \in SUBSET Nat
    OBVIOUS
  <2>. HIDE DEF D
  <2>. QED  BY <1>1, <2>1, LeastNatural
<1>3. m - 1 \in Nat /\ (m - 1) + 1 = m /\ ~(m <= m - 1)
  BY <1>2
<1>4. m - 1 \in T
  BY <1>2, <1>3
<1>. QED  BY <1>2, <1>3, <1>4

-----------------------------------------------------------------------------
(* Returns *)

\* P[i] is what the first i steps of a trace earn.
Adds(P, trace, n) == P[0] = 0 /\ \A i \in 1 .. n : P[i] = P[i - 1] + trace[i].reward

LEMMA SumsExist ==
  ASSUME NEW trace \in Seq(Transitions)
  PROVE  \E P \in [0 .. Len(trace) -> Int] : Adds(P, trace, Len(trace))
<1>1. PICK n \in Nat : n = Len(trace)
  BY LenProperties
<1>2. \A i \in 1 .. n : trace[i].reward \in Int
  <2>1. \A i \in 1 .. n : trace[i] \in Transitions
    BY <1>1, ElementOfSeq
  <2>. QED  BY <2>1 DEF Transitions
<1>3. PICK g : g = [x \in (1 .. n) \X Int |-> x[2] + trace[x[1]].reward]
  OBVIOUS
<1>4. ASSUME NEW i \in 1 .. n, NEW v \in Int
      PROVE  g[<<i, v>>] = v + trace[i].reward /\ g[<<i, v>>] \in Int
  <2>1. <<i, v>> \in (1 .. n) \X Int
    OBVIOUS
  <2>2. g[<<i, v>>] = v + trace[i].reward
    BY <1>3, <2>1
  <2>3. v + trace[i].reward \in Int
    BY <1>2
  <2>. QED  BY <2>2, <2>3
<1>5. PICK b \in Int : b = 0
  OBVIOUS
<1>6. PICK P \in [0 .. n -> Int] : Iterated(P, b, g, n)
  BY <1>4, Iterate
<1>7. \A i \in 1 .. n : P[i] = P[i - 1] + trace[i].reward
  <2>1. SUFFICES ASSUME NEW i \in 1 .. n PROVE P[i] = P[i - 1] + trace[i].reward
    OBVIOUS
  <2>2. P[i] = g[<<i, P[i - 1]>>]
    BY <1>6 DEF Iterated
  <2>3. P[i - 1] \in Int
    <3>1. i - 1 \in 0 .. n
      OBVIOUS
    <3>. QED  BY <3>1
  <2>. QED  BY <1>4, <2>2, <2>3
<1>8. P[0] = 0
  BY <1>5, <1>6 DEF Iterated
<1>. QED  BY <1>1, <1>7, <1>8 DEF Adds

\* A return is the difference of two of them.
LEMMA ReturnOfIs ==
  ASSUME NEW trace \in Seq(Transitions), NEW P \in [0 .. Len(trace) -> Int],
         Adds(P, trace, Len(trace)), NEW m \in Nat, NEW n \in Nat, m + n <= Len(trace)
  PROVE  ReturnOf(SubSeq(trace, m + 1, m + n)) = P[m + n] - P[m]
<1>1. PICK N \in Nat : N = Len(trace) /\ m + n <= N
  BY LenProperties
<1>2. PICK u : u = SubSeq(trace, m + 1, m + n)
  OBVIOUS
<1>3. Len(u) = n /\ \A i \in 1 .. n : u[i] = trace[m + i]
  <2>1. \A i \in m + 1 .. m + n : trace[i] \in Transitions
    <3>1. \A i \in m + 1 .. m + n : i \in 1 .. N
      BY <1>1
    <3>. QED  BY <1>1, <3>1, ElementOfSeq
  <2>2. m + 1 \in Int /\ m + n \in Int
    OBVIOUS
  <2>3. /\ Len(u) = (IF m + 1 <= m + n THEN (m + n) - (m + 1) + 1 ELSE 0)
        /\ \A i \in 1 .. (m + n) - (m + 1) + 1 : u[i] = trace[(m + 1) + i - 1]
    BY <1>2, <2>1, <2>2, SubSeqProperties
  <2>4. (m + n) - (m + 1) + 1 = n /\ (\A i \in 1 .. n : (m + 1) + i - 1 = m + i)
        /\ (IF m + 1 <= m + n THEN n ELSE 0) = n
    OBVIOUS
  <2>. QED  BY <2>3, <2>4
<1>4. \A i \in 0 .. n : P[m + i] \in Int
  <2>1. \A i \in 0 .. n : m + i \in 0 .. N
    BY <1>1
  <2>. QED  BY <1>1, <2>1
<1>5. \A i \in 1 .. n : P[m + i] = P[m + i - 1] + u[i].reward
  <2>1. \A i \in 1 .. n : m + i \in 1 .. N
    BY <1>1
  <2>. QED  BY <1>1, <1>3, <2>1 DEF Adds
<1>. DEFINE Body(h) == [i \in 0 .. n |-> IF i = 0 THEN 0 ELSE h[i - 1] + u[i].reward]
            w == CHOOSE h : h = Body(h)
            f == [i \in 0 .. n |-> P[m + i] - P[m]]
<1>6. ReturnOf(u) = w[n]
  BY <1>3 DEF ReturnOf
<1>7. f = Body(f)
  <2>1. ASSUME NEW i \in 0 .. n  PROVE f[i] = IF i = 0 THEN 0 ELSE f[i - 1] + u[i].reward
    <3>1. CASE i = 0
      <4>1. m + 0 = m /\ 0 \in 0 .. n /\ P[m + 0] \in Int
        BY <1>4
      <4>. QED  BY <3>1, <4>1
    <3>2. CASE i # 0
      <4>1. i \in 1 .. n /\ i - 1 \in 0 .. n /\ m + (i - 1) = m + i - 1
        BY <3>2
      <4>2. PICK a \in Int, b \in Int, c \in Int : a = P[m + i] /\ b = P[m + (i - 1)] /\ c = P[m]
        <5>1. 0 \in 0 .. n /\ m + 0 = m
          OBVIOUS
        <5>. QED  BY <1>4, <4>1, <5>1
      <4>3. PICK r \in Int : r = u[i].reward
        <5>1. u[i] \in Transitions
          <6>1. m + i \in 1 .. N
            BY <1>1, <4>1
          <6>. QED  BY <1>1, <1>3, <4>1, <6>1, ElementOfSeq
        <5>. QED  BY <5>1 DEF Transitions
      <4>4. a = b + r
        BY <1>5, <4>1, <4>2, <4>3
      <4>5. f[i] = a - c /\ f[i - 1] = b - c
        BY <4>1, <4>2
      <4>6. a - c = (b - c) + r
        BY <4>4
      <4>. QED  BY <3>2, <4>3, <4>5, <4>6
    <3>. QED  BY <3>1, <3>2
  <2>2. f = [i \in 0 .. n |-> f[i]]
    OBVIOUS
  <2>. HIDE DEF f
  <2>. QED  BY <2>1, <2>2
<1>8. w = Body(w)
  <2>. HIDE DEF Body, f
  <2>. QED  BY <1>7
<1>. HIDE DEF w
<1>9. \A i \in 0 .. n : w[i] = IF i = 0 THEN 0 ELSE w[i - 1] + u[i].reward
  <2>1. PICK z : z = Body(w)
    OBVIOUS
  <2>2. \A i \in 0 .. n : z[i] = IF i = 0 THEN 0 ELSE w[i - 1] + u[i].reward
    BY <2>1
  <2>. HIDE DEF Body
  <2>3. w = z
    BY <1>8, <2>1
  <2>. QED  BY <2>2, <2>3
<1>10. \A i \in 0 .. n : f[i] = IF i = 0 THEN 0 ELSE f[i - 1] + u[i].reward
  <2>1. PICK z : z = Body(f)
    OBVIOUS
  <2>2. \A i \in 0 .. n : z[i] = IF i = 0 THEN 0 ELSE f[i - 1] + u[i].reward
    <3>. HIDE DEF f
    <3>. QED  BY <2>1
  <2>. HIDE DEF Body, f
  <2>3. f = z
    BY <1>7, <2>1
  <2>. QED  BY <2>2, <2>3
<1>11. f[n] = P[m + n] - P[m]
  OBVIOUS
<1>. HIDE DEF Body, f
<1>. DEFINE T == {k \in Nat : k <= n => w[k] = f[k]}
<1>12. 0 \in T
  BY <1>9, <1>10
<1>13. ASSUME NEW k \in Nat, k \in T  PROVE k + 1 \in T
  <2>1. SUFFICES ASSUME k + 1 <= n PROVE w[k + 1] = f[k + 1]
    OBVIOUS
  <2>2. k + 1 \in 0 .. n /\ (k + 1) - 1 = k /\ k <= n /\ k + 1 # 0
    BY <2>1
  <2>. QED  BY <1>9, <1>10, <1>13, <2>2
<1>. HIDE DEF T
<1>14. n \in T
  BY <1>12, <1>13, NatSet
<1>15. w[n] = f[n]
  BY <1>14 DEF T
<1>. QED  BY <1>2, <1>6, <1>11, <1>15

\* The reward at a position of a trace, and of a sum of two terms.
LEMMA RewardIs ==
  ASSUME NEW trace \in Seq(Transitions), NEW i \in 1 .. Len(trace)
  PROVE  trace[i].reward \in Int
<1>1. trace[i] \in Transitions
  BY ElementOfSeq
<1>. QED  BY <1>1 DEF Transitions

\* The rolling window of exact_return_labels_for_trace.
Window(trace) ==
  LET window[i \in 0 .. Len(trace)] ==
        IF i = 0 THEN 0
        ELSE window[i - 1] + trace[i].reward
               - (IF i > Horizon THEN trace[i - Horizon].reward ELSE 0)
  IN  window

LEMMA WindowIs ==
  ASSUME NEW trace \in Seq(Transitions), NEW P \in [0 .. Len(trace) -> Int],
         Adds(P, trace, Len(trace)), NEW n \in 0 .. Len(trace)
  PROVE  Window(trace)[n] = P[n] - P[IF n > Horizon THEN n - Horizon ELSE 0]
<1>1. PICK N \in Nat : N = Len(trace)
  BY LenProperties
<1>2. Horizon \in Nat \ {0}
  BY Parameters
<1>. DEFINE From(i) == IF i > Horizon THEN i - Horizon ELSE 0
            Gone(i) == IF i > Horizon THEN trace[i - Horizon].reward ELSE 0
            Body(h) == [i \in 0 .. N |->
                          IF i = 0 THEN 0 ELSE h[i - 1] + trace[i].reward - Gone(i)]
            w == CHOOSE h : h = Body(h)
            f == [i \in 0 .. N |-> P[i] - P[From(i)]]
<1>3. Window(trace) = w
  BY <1>1 DEF Window
<1>4. ASSUME NEW i \in 0 .. N
      PROVE  P[i] \in Int /\ From(i) \in 0 .. N /\ P[From(i)] \in Int
  <2>1. From(i) \in 0 .. N
    BY <1>2
  <2>. QED  BY <1>1, <2>1
<1>5. ASSUME NEW i \in 1 .. N
      PROVE  /\ i - 1 \in 0 .. N /\ trace[i].reward \in Int /\ Gone(i) \in Int
             /\ P[i] = P[i - 1] + trace[i].reward
             /\ P[From(i)] = P[From(i - 1)] + Gone(i)
  <2>1. i - 1 \in 0 .. N /\ trace[i].reward \in Int /\ P[i] = P[i - 1] + trace[i].reward
    BY <1>1, RewardIs DEF Adds
  <2>2. CASE i > Horizon
    <3>1. PICK j \in 1 .. N : j = i - Horizon
      BY <1>2, <2>2
    <3>2. From(i) = j /\ Gone(i) = trace[j].reward /\ From(i - 1) = j - 1
      BY <1>2, <2>2, <3>1
    <3>3. P[j] = P[j - 1] + trace[j].reward /\ trace[j].reward \in Int
      BY <1>1, RewardIs DEF Adds
    <3>. QED  BY <2>1, <3>2, <3>3
  <2>3. CASE ~ (i > Horizon)
    <3>1. From(i) = 0 /\ Gone(i) = 0 /\ From(i - 1) = 0
      BY <1>2, <2>3
    <3>2. P[0] \in Int
      BY <1>1
    <3>3. PICK a \in Int : a = P[0]
      BY <3>2
    <3>4. a = a + 0 /\ 0 \in Int
      OBVIOUS
    <3>. QED  BY <2>1, <3>1, <3>3, <3>4
  <2>. QED  BY <2>2, <2>3
<1>6. f = Body(f)
  <2>1. ASSUME NEW i \in 0 .. N
        PROVE  f[i] = IF i = 0 THEN 0 ELSE f[i - 1] + trace[i].reward - Gone(i)
    <3>1. CASE i = 0
      <4>1. From(0) = 0
        BY <1>2
      <4>. QED  BY <3>1, <4>1, <1>4
    <3>2. CASE i # 0
      <4>1. i \in 1 .. N /\ i - 1 \in 0 .. N
        BY <3>2
      <4>2. PICK a \in Int, b \in Int, c \in Int, d \in Int :
              a = P[i] /\ b = P[i - 1] /\ c = P[From(i)] /\ d = P[From(i - 1)]
        <5>. HIDE DEF From
        <5>. QED  BY <1>4, <4>1
      <4>3. PICK r \in Int, q \in Int : r = trace[i].reward /\ q = Gone(i)
        <5>. HIDE DEF Gone
        <5>. QED  BY <1>5, <4>1
      <4>4. a = b + r /\ c = d + q
        <5>. HIDE DEF From, Gone
        <5>. QED  BY <1>5, <4>1, <4>2, <4>3
      <4>5. f[i] = a - c /\ f[i - 1] = b - d
        <5>. HIDE DEF From, Gone
        <5>. QED  BY <4>1, <4>2
      <4>6. a - c = (b - d) + r - q
        BY <4>4
      <4>. HIDE DEF f, Gone, From
      <4>. QED  BY <3>2, <4>3, <4>5, <4>6
    <3>. QED  BY <3>1, <3>2
  <2>2. f = [i \in 0 .. N |-> f[i]]
    OBVIOUS
  <2>. HIDE DEF f, Gone, From
  <2>. QED  BY <2>1, <2>2
<1>7. w = Body(w)
  <2>. HIDE DEF Body, f
  <2>. QED  BY <1>6
<1>. HIDE DEF w
<1>8. \A i \in 0 .. N : w[i] = IF i = 0 THEN 0 ELSE w[i - 1] + trace[i].reward - Gone(i)
  <2>. HIDE DEF Gone
  <2>1. PICK z : z = Body(w)
    OBVIOUS
  <2>2. \A i \in 0 .. N : z[i] = IF i = 0 THEN 0 ELSE w[i - 1] + trace[i].reward - Gone(i)
    BY <2>1
  <2>. HIDE DEF Body
  <2>3. w = z
    BY <1>7, <2>1
  <2>. QED  BY <2>2, <2>3
<1>9. \A i \in 0 .. N : f[i] = IF i = 0 THEN 0 ELSE f[i - 1] + trace[i].reward - Gone(i)
  <2>. HIDE DEF Gone, From
  <2>1. PICK z : z = Body(f)
    OBVIOUS
  <2>2. \A i \in 0 .. N : z[i] = IF i = 0 THEN 0 ELSE f[i - 1] + trace[i].reward - Gone(i)
    <3>. HIDE DEF f
    <3>. QED  BY <2>1
  <2>. HIDE DEF Body, f
  <2>3. f = z
    BY <1>6, <2>1
  <2>. QED  BY <2>2, <2>3
<1>10. f[n] = P[n] - P[From(n)]
  <2>. HIDE DEF From
  <2>. QED  BY <1>1
<1>. HIDE DEF Body, f, Gone
<1>. DEFINE T == {k \in Nat : k <= N => w[k] = f[k]}
<1>11. 0 \in T
  BY <1>8, <1>9
<1>12. ASSUME NEW k \in Nat, k \in T  PROVE k + 1 \in T
  <2>1. SUFFICES ASSUME k + 1 <= N PROVE w[k + 1] = f[k + 1]
    OBVIOUS
  <2>2. k + 1 \in 0 .. N /\ (k + 1) - 1 = k /\ k <= N /\ k + 1 # 0
    BY <2>1
  <2>. QED  BY <1>8, <1>9, <1>12, <2>2
<1>. HIDE DEF T
<1>13. n \in Nat /\ n <= N
  BY <1>1
<1>14. n \in T
  BY <1>11, <1>12, <1>13, NatSet
<1>15. w[n] = f[n]
  BY <1>13, <1>14 DEF T
<1>. QED  BY <1>3, <1>10, <1>15

(* The labels a trace gets over the rolling window are the returns of its  *)
(* steps, each one where it is complete (exact_return_labels_for_trace).   *)
THEOREM LabelsAreReturns ==
  ASSUME NEW trace \in Seq(Transitions)
  PROVE  TraceLabels(trace) = TrueLabels(trace)
<1>1. PICK N \in Nat : N = Len(trace)
  BY LenProperties
<1>2. DOMAIN trace = 1 .. N
  BY <1>1, LenProperties
<1>3. PICK P \in [0 .. Len(trace) -> Int] : Adds(P, trace, Len(trace))
  BY SumsExist
<1>4. Horizon \in Nat \ {0}
  BY Parameters
<1>5. TraceLabels(trace) =
        [i \in 1 .. N |-> IF i + Horizon - 1 <= N
                          THEN {Window(trace)[i + Horizon - 1]} ELSE {}]
  BY <1>1, <1>2 DEF TraceLabels, Window
<1>6. ASSUME NEW i \in 1 .. N, i + Horizon - 1 <= N
      PROVE  Window(trace)[i + Horizon - 1] = ReturnFrom(trace, i)
  <2>1. PICK n \in 0 .. N, m \in Nat, H \in Nat :
          n = i + Horizon - 1 /\ m = i - 1 /\ H = Horizon /\ m + H = n /\ m + 1 = i
    BY <1>4, <1>6
  <2>2. Window(trace)[n] = P[n] - P[IF n > Horizon THEN n - Horizon ELSE 0]
    BY <1>1, <1>3, WindowIs
  <2>3. (IF n > Horizon THEN n - Horizon ELSE 0) = m
    BY <2>1
  <2>4. ReturnOf(SubSeq(trace, m + 1, m + H)) = P[m + H] - P[m]
    <3>1. m + H <= Len(trace)
      BY <1>1, <2>1
    <3>. QED  BY <1>3, <3>1, ReturnOfIs
  <2>5. ReturnFrom(trace, i) = ReturnOf(SubSeq(trace, m + 1, m + H))
    BY <2>1 DEF ReturnFrom
  <2>. QED  BY <2>1, <2>2, <2>3, <2>4, <2>5
<1>7. TrueLabels(trace) =
        [i \in 1 .. N |-> IF i + Horizon - 1 <= N THEN {ReturnFrom(trace, i)} ELSE {}]
  BY <1>1 DEF TrueLabels, TrueLabel
<1>. QED  BY <1>5, <1>6, <1>7

\* What a trace adds to the training of a phase.
LEMMA TraceStreamIs ==
  ASSUME NEW trace \in Seq(Transitions), NEW p
  PROVE  TraceStream(trace, p) = Exact(trace, p, Len(trace))
<1>1. PICK N \in Nat : N = Len(trace) /\ DOMAIN trace = 1 .. N
  BY LenProperties
<1>2. TraceStream(trace, p) =
        [i \in 1 .. N |-> StepToken(trace[i], IF PhaseOf(i) = p THEN TrueLabels(trace)[i]
                                              ELSE {})]
  BY <1>1, LabelsAreReturns DEF TraceStream
<1>3. \A i \in 1 .. N : TrueLabels(trace)[i] = TrueLabel(trace, i)
  BY <1>1 DEF TrueLabels
<1>4. Exact(trace, p, Len(trace)) = [i \in 1 .. N |-> Token(trace, p, i)]
  BY <1>1 DEF Exact, Token, TrueLabel
<1>. QED  BY <1>2, <1>3, <1>4 DEF Token

-----------------------------------------------------------------------------
(* The canonical order *)

\* A relation that orders a set strictly.
Orders(R, U) ==
  /\ \A x, y \in U : x # y => <<x, y>> \in R \/ <<y, x>> \in R
  /\ \A x, y, z \in U : <<x, y>> \in R /\ <<y, z>> \in R => <<x, z>> \in R

Greatest(R, S) == \E g \in S : \A x \in S \ {g} : <<x, g>> \in R

\* Every nonempty finite set has a greatest element.
LEMMA GreatestExists ==
  ASSUME NEW U, NEW R, Orders(R, U), NEW S \in SUBSET U, IsFiniteSet(S), S # {}
  PROVE  Greatest(R, S)
<1>. DEFINE Good(V) == V # {} => Greatest(R, V)
            T == {n \in Nat : \A V \in SUBSET U :
                     IsFiniteSet(V) /\ Cardinality(V) = n => Good(V)}
<1>1. 0 \in T
  <2>1. \A V \in SUBSET U : IsFiniteSet(V) /\ Cardinality(V) = 0 => V = {}
    BY FS_EmptySet
  <2>. QED  BY <2>1
<1>2. ASSUME NEW n \in Nat, n \in T  PROVE n + 1 \in T
  <2>1. SUFFICES ASSUME NEW V \in SUBSET U, IsFiniteSet(V), Cardinality(V) = n + 1, V # {}
                 PROVE  Greatest(R, V)
    OBVIOUS
  <2>2. PICK x \in V : TRUE
    BY <2>1
  <2>3. PICK W \in SUBSET U : W = V \ {x}
    OBVIOUS
  <2>4. IsFiniteSet(W) /\ Cardinality(W) = n
    <3>1. IsFiniteSet(V \ {x}) /\ Cardinality(V \ {x}) = (n + 1) - 1
      BY <2>1, <2>2, FS_RemoveElement
    <3>2. (n + 1) - 1 = n
      OBVIOUS
    <3>. QED  BY <2>3, <3>1, <3>2
  <2>5. Good(W)
    <3>. HIDE DEF Good
    <3>. QED  BY <1>2, <2>4
  <2>6. CASE W = {}
    <3>1. V \ {x} = {}
      BY <2>3, <2>6
    <3>. QED  BY <2>2, <3>1 DEF Greatest
  <2>7. CASE W # {}
    <3>1. PICK g \in W : \A y \in W \ {g} : <<y, g>> \in R
      BY <2>5, <2>7 DEF Greatest
    <3>2. g \in U /\ x \in U /\ g # x /\ g \in V
      BY <2>2, <2>3, <3>1
    <3>3. CASE <<x, g>> \in R
      <4>1. \A y \in V \ {g} : <<y, g>> \in R
        BY <2>3, <3>1, <3>3
      <4>. QED  BY <3>2, <4>1 DEF Greatest
    <3>4. CASE <<g, x>> \in R
      <4>1. ASSUME NEW y \in V \ {x}  PROVE <<y, x>> \in R
        <5>1. CASE y = g  BY <5>1, <3>4
        <5>2. CASE y # g
          <6>1. <<y, g>> \in R /\ y \in U
            BY <2>3, <3>1, <4>1, <5>2
          <6>. QED  BY <6>1, <3>2, <3>4 DEF Orders
        <5>. QED  BY <5>1, <5>2
      <4>. QED  BY <2>2, <4>1 DEF Greatest
    <3>. QED  BY <3>2, <3>3, <3>4 DEF Orders
  <2>. QED  BY <2>6, <2>7
<1>3. PICK n \in Nat : n = Cardinality(S)
  BY FS_CardinalityType
<1>. HIDE DEF T
<1>4. n \in T
  BY <1>1, <1>2, NatSet
<1>5. Good(S)
  <2>. HIDE DEF Good
  <2>. QED  BY <1>3, <1>4 DEF T
<1>. QED  BY <1>5

\* Every finite set can be listed in order.
Listed(R, V) ==
  \E order \in [1 .. Cardinality(V) -> V] :
    \A i, j \in 1 .. Cardinality(V) : i < j => <<order[i], order[j]>> \in R

LEMMA ListedExists ==
  ASSUME NEW U, NEW R, Orders(R, U), NEW S \in SUBSET U, IsFiniteSet(S)
  PROVE  Listed(R, S)
<1>. DEFINE T == {n \in Nat : \A V \in SUBSET U :
                     IsFiniteSet(V) /\ Cardinality(V) = n => Listed(R, V)}
<1>1. 0 \in T
  <2>1. ASSUME NEW V \in SUBSET U, Cardinality(V) = 0  PROVE Listed(R, V)
    <3>1. 1 .. 0 = {}
      OBVIOUS
    <3>2. PICK f : f = [i \in 1 .. 0 |-> V]
      OBVIOUS
    <3>3. f \in [1 .. 0 -> V]
      BY <3>1, <3>2
    <3>4. \A i, j \in 1 .. 0 : i < j => <<f[i], f[j]>> \in R
      BY <3>1
    <3>. QED  BY <2>1, <3>3, <3>4 DEF Listed
  <2>. QED  BY <2>1
<1>2. ASSUME NEW n \in Nat, n \in T  PROVE n + 1 \in T
  <2>1. SUFFICES ASSUME NEW V \in SUBSET U, IsFiniteSet(V), Cardinality(V) = n + 1
                 PROVE  Listed(R, V)
    OBVIOUS
  <2>2. V # {}
    BY <2>1, FS_EmptySet
  <2>3. PICK x \in V : \A y \in V \ {x} : <<y, x>> \in R
    BY <2>1, <2>2, GreatestExists DEF Greatest
  <2>4. PICK W \in SUBSET U : W = V \ {x}
    OBVIOUS
  <2>5. IsFiniteSet(W) /\ Cardinality(W) = n
    <3>1. IsFiniteSet(V \ {x}) /\ Cardinality(V \ {x}) = (n + 1) - 1
      <4>1. x \in V
        OBVIOUS
      <4>. HIDE DEF T
      <4>2. IsFiniteSet(V)
        BY <2>1
      <4>3. IsFiniteSet(V \ {x}) /\ Cardinality(V \ {x}) = Cardinality(V) - 1
        BY <4>1, <4>2, FS_RemoveElement
      <4>. QED  BY <4>3, <2>1
    <3>2. (n + 1) - 1 = n
      OBVIOUS
    <3>. QED  BY <2>4, <3>1, <3>2
  <2>6. PICK f \in [1 .. n -> W] : \A i, j \in 1 .. n : i < j => <<f[i], f[j]>> \in R
    BY <1>2, <2>5 DEF Listed
  <2>7. PICK h : h = [i \in 1 .. n + 1 |-> IF i = n + 1 THEN x ELSE f[i]]
    OBVIOUS
  <2>8. \A i \in 1 .. n + 1 : i = n + 1 \/ (i \in 1 .. n /\ i # n + 1)
    OBVIOUS
  <2>9. (\A i \in 1 .. n : h[i] = f[i] /\ f[i] \in W) /\ h[n + 1] = x
    <3>1. \A i \in 1 .. n : i \in 1 .. n + 1 /\ i # n + 1
      OBVIOUS
    <3>2. n + 1 \in 1 .. n + 1
      OBVIOUS
    <3>. QED  BY <2>6, <2>7, <3>1, <3>2
  <2>10. h \in [1 .. n + 1 -> V]
    <3>1. \A i \in 1 .. n + 1 : h[i] \in V
      BY <2>3, <2>4, <2>8, <2>9
    <3>. QED  BY <2>7, <3>1
  <2>11. ASSUME NEW i \in 1 .. n + 1, NEW j \in 1 .. n + 1, i < j
         PROVE  <<h[i], h[j]>> \in R
    <3>1. i \in 1 .. n
      BY <2>11
    <3>2. CASE j = n + 1
      BY <2>3, <2>4, <2>9, <3>1, <3>2
    <3>3. CASE j \in 1 .. n
      BY <2>6, <2>9, <2>11, <3>1, <3>3
    <3>. QED  BY <2>8, <3>2, <3>3
  <2>. QED  BY <2>1, <2>10, <2>11 DEF Listed
<1>3. PICK n \in Nat : n = Cardinality(S)
  BY FS_CardinalityType
<1>. HIDE DEF T
<1>4. n \in T
  BY <1>1, <1>2, NatSet
<1>. QED  BY <1>3, <1>4 DEF T

\* Two traces agree up to n, and then s has ended, or goes on with less.
Splits(s, t, n) ==
  /\ n <= Len(s) /\ n < Len(t)
  /\ \A i \in 1 .. n : s[i] = t[i]
  /\ n < Len(s) => Before(s[n + 1], t[n + 1])

Less == {x \in Seq(Transitions) \X Seq(Transitions) :
           \E n \in Nat : Splits(x[1], x[2], n)}

LEMMA BeforeOrders ==
  /\ \A x, y \in Transitions : x # y => Before(x, y) \/ Before(y, x)
  /\ \A x, y, z \in Transitions : Before(x, y) /\ Before(y, z) => Before(x, z)
<1>1. \A x \in Transitions : /\ x.action \in Int /\ x.reward \in Int
                             /\ x = [action |-> x.action, reward |-> x.reward]
  BY DEF Transitions
<1>2. ASSUME NEW x \in Transitions, NEW y \in Transitions, x # y
      PROVE  Before(x, y) \/ Before(y, x)
  <2>1. x.action # y.action \/ x.reward # y.reward
    BY <1>1, <1>2
  <2>. QED  BY <1>1, <2>1 DEF Before
<1>3. ASSUME NEW x \in Transitions, NEW y \in Transitions, NEW z \in Transitions,
             Before(x, y), Before(y, z)
      PROVE  Before(x, z)
  BY <1>1, <1>3 DEF Before
<1>. QED  BY <1>2, <1>3

LEMMA LessTotal ==
  ASSUME NEW s \in Seq(Transitions), NEW t \in Seq(Transitions), s # t
  PROVE  \E n \in Nat : Splits(s, t, n) \/ Splits(t, s, n)
<1>1. PICK a \in Nat, b \in Nat : a = Len(s) /\ b = Len(t)
  BY LenProperties
<1>. DEFINE D == {i \in Nat : 1 <= i /\ i <= a /\ i <= b /\ s[i] # t[i]}
<1>2. CASE D = {}
  <2>1. \A i \in Nat : 1 <= i /\ i <= a /\ i <= b => s[i] = t[i]
    BY <1>2
  <2>2. a # b
    <3>1. SUFFICES ASSUME a = b PROVE FALSE
      OBVIOUS
    <3>2. \A i \in 1 .. Len(s) : s[i] = t[i]
      BY <1>1, <2>1, <3>1
    <3>. QED  BY <1>1, <3>1, <3>2, SeqEqual
  <2>3. CASE a < b
    <3>1. Splits(s, t, a)
      BY <1>1, <2>1, <2>3 DEF Splits
    <3>. QED  BY <3>1
  <2>4. CASE b < a
    <3>1. Splits(t, s, b)
      BY <1>1, <2>1, <2>4 DEF Splits
    <3>. QED  BY <3>1
  <2>. QED  BY <2>2, <2>3, <2>4
<1>3. CASE D # {}
  <2>1. PICK d \in D : \A i \in D : d <= i
    <3>1. D \in SUBSET Nat
      OBVIOUS
    <3>. HIDE DEF D
    <3>. QED  BY <1>3, <3>1, LeastNatural
  <2>2. PICK n \in Nat : n + 1 = d /\ n < a /\ n < b
    <3>1. d - 1 \in Nat /\ (d - 1) + 1 = d /\ d - 1 < a /\ d - 1 < b
      BY <2>1
    <3>. QED  BY <3>1
  <2>3. ASSUME NEW i \in 1 .. n  PROVE s[i] = t[i]
    <3>1. i \in Nat /\ 1 <= i /\ i <= a /\ i <= b /\ ~ (d <= i)
      BY <2>2
    <3>2. i \notin D
      <4>. HIDE DEF D
      <4>. QED  BY <2>1, <3>1
    <3>. QED  BY <3>1, <3>2
  <2>4. s[n + 1] # t[n + 1] /\ s[n + 1] \in Transitions /\ t[n + 1] \in Transitions
    <3>1. n + 1 \in 1 .. a /\ n + 1 \in 1 .. b
      BY <2>2
    <3>. QED  BY <1>1, <2>1, <2>2, <3>1, ElementOfSeq
  <2>5. Before(s[n + 1], t[n + 1]) \/ Before(t[n + 1], s[n + 1])
    BY <2>4, BeforeOrders
  <2>6. Splits(s, t, n) \/ Splits(t, s, n)
    BY <1>1, <2>2, <2>3, <2>5 DEF Splits
  <2>. QED  BY <2>6
<1>. QED  BY <1>2, <1>3

LEMMA LessTransitive ==
  ASSUME NEW s \in Seq(Transitions), NEW t \in Seq(Transitions), NEW u \in Seq(Transitions),
         NEW m \in Nat, NEW n \in Nat, Splits(s, t, m), Splits(t, u, n)
  PROVE  Splits(s, u, IF m < n THEN m ELSE n)
<1>1. PICK a \in Nat, b \in Nat, c \in Nat : a = Len(s) /\ b = Len(t) /\ c = Len(u)
  BY LenProperties
<1>2. /\ m <= a /\ m < b /\ n <= b /\ n < c
      /\ \A i \in 1 .. m : s[i] = t[i]
      /\ \A i \in 1 .. n : t[i] = u[i]
      /\ m < a => Before(s[m + 1], t[m + 1])
      /\ n < b => Before(t[n + 1], u[n + 1])
  BY <1>1 DEF Splits
<1>3. CASE m < n
  <2>1. \A i \in 1 .. m : i \in 1 .. n
    BY <1>3
  <2>2. m + 1 \in 1 .. n /\ m < c
    BY <1>2, <1>3
  <2>3. \A i \in 1 .. m : s[i] = u[i]
    BY <1>2, <2>1
  <2>4. t[m + 1] = u[m + 1]
    BY <1>2, <2>2
  <2>5. Splits(s, u, m)
    BY <1>1, <1>2, <2>2, <2>3, <2>4 DEF Splits
  <2>. QED  BY <1>3, <2>5
<1>4. CASE n < m
  <2>1. \A i \in 1 .. n : i \in 1 .. m
    BY <1>4
  <2>2. n + 1 \in 1 .. m /\ n < b /\ n < a
    BY <1>2, <1>4
  <2>3. \A i \in 1 .. n : s[i] = u[i]
    BY <1>2, <2>1
  <2>4. s[n + 1] = t[n + 1]
    BY <1>2, <2>2
  <2>5. Splits(s, u, n)
    BY <1>1, <1>2, <2>2, <2>3, <2>4 DEF Splits
  <2>. QED  BY <1>4, <2>5
<1>5. CASE n = m
  <2>1. \A i \in 1 .. n : s[i] = u[i]
    BY <1>2, <1>5
  <2>2. ASSUME n < a  PROVE Before(s[n + 1], u[n + 1])
    <3>1. n + 1 \in 1 .. a /\ n + 1 \in 1 .. b /\ n + 1 \in 1 .. c
      BY <1>2, <1>5, <2>2
    <3>2. s[n + 1] \in Transitions /\ t[n + 1] \in Transitions /\ u[n + 1] \in Transitions
      BY <1>1, <3>1, ElementOfSeq
    <3>3. Before(s[n + 1], t[n + 1]) /\ Before(t[n + 1], u[n + 1])
      BY <1>2, <1>5, <2>2
    <3>. QED  BY <3>2, <3>3, BeforeOrders
  <2>3. Splits(s, u, n)
    BY <1>1, <1>2, <1>5, <2>1, <2>2 DEF Splits
  <2>. QED  BY <1>5, <2>3
<1>. QED  BY <1>3, <1>4, <1>5

LEMMA LessOrders == Orders(Less, Seq(Transitions))
<1>1. ASSUME NEW x \in Seq(Transitions), NEW y \in Seq(Transitions), x # y
      PROVE  <<x, y>> \in Less \/ <<y, x>> \in Less
  BY <1>1, LessTotal DEF Less
<1>2. ASSUME NEW x \in Seq(Transitions), NEW y \in Seq(Transitions), NEW z \in Seq(Transitions),
             <<x, y>> \in Less, <<y, z>> \in Less
      PROVE  <<x, z>> \in Less
  <2>1. PICK m \in Nat : Splits(x, y, m)
    BY <1>2 DEF Less
  <2>2. PICK n \in Nat : Splits(y, z, n)
    BY <1>2 DEF Less
  <2>3. PICK k \in Nat : k = IF m < n THEN m ELSE n
    OBVIOUS
  <2>4. Splits(x, z, k)
    BY <2>1, <2>2, <2>3, LessTransitive
  <2>. QED  BY <2>4 DEF Less
<1>. QED  BY <1>1, <1>2 DEF Orders

\* The order is the one the traces are sorted in.
LEMMA LessPrecedes ==
  ASSUME NEW s \in Seq(Transitions), NEW t \in Seq(Transitions), <<s, t>> \in Less
  PROVE  Precedes(s, t)
<1>1. PICK n \in Nat : Splits(s, t, n)
  BY DEF Less
<1>2. PICK a \in Nat, b \in Nat : a = Len(s) /\ b = Len(t)
  BY LenProperties
<1>3. n <= a /\ n < b /\ n <= b
  BY <1>1, <1>2 DEF Splits
<1>4. SubSeq(s, 1, n) = SubSeq(t, 1, n)
  <2>. DEFINE u == SubSeq(s, 1, n)
              v == SubSeq(t, 1, n)
  <2>1. \A i \in 1 .. n : s[i] \in Transitions /\ t[i] \in Transitions /\ s[i] = t[i]
    <3>1. \A i \in 1 .. n : i \in 1 .. a /\ i \in 1 .. b
      BY <1>3
    <3>. QED  BY <1>1, <1>2, <3>1, ElementOfSeq DEF Splits
  <2>2. u \in Seq(Transitions) /\ Len(u) = n /\ \A i \in 1 .. n : u[i] = s[i]
    BY <2>1, SubSeqProperties
  <2>3. v \in Seq(Transitions) /\ Len(v) = n /\ \A i \in 1 .. n : v[i] = t[i]
    BY <2>1, SubSeqProperties
  <2>. HIDE DEF u, v
  <2>4. u = v
    BY <2>1, <2>2, <2>3, SeqEqual
  <2>. QED  BY <2>4 DEF u, v
<1>5. CASE n = a
  <2>1. Len(s) <= Len(t) /\ Len(s) # Len(t)
    BY <1>2, <1>3, <1>5
  <2>2. SubSeq(s, 1, Len(s)) = SubSeq(t, 1, Len(s))
    BY <1>2, <1>4, <1>5
  <2>3. s # t
    BY <2>1
  <2>. QED  BY <2>1, <2>2, <2>3 DEF Precedes, IsStrictPrefix, IsPrefix
<1>6. CASE n # a
  <2>1. n < Len(s) /\ n + 1 \in 1 .. a /\ n + 1 \in 1 .. b /\ (n + 1) - 1 = n
    BY <1>2, <1>3, <1>6
  <2>2. n + 1 \in DOMAIN s \cap DOMAIN t
    BY <1>2, <2>1, LenProperties
  <2>3. Before(s[n + 1], t[n + 1])
    BY <1>1, <2>1 DEF Splits
  <2>4. SubSeq(s, 1, (n + 1) - 1) = SubSeq(t, 1, (n + 1) - 1)
    BY <1>4, <2>1
  <2>. QED  BY <2>2, <2>3, <2>4 DEF Precedes
<1>. QED  BY <1>5, <1>6

LEMMA PrecedesStrict ==
  ASSUME NEW s \in Seq(Transitions)
  PROVE  ~ Precedes(s, s)
<1>1. ~ IsStrictPrefix(s, s)
  BY DEF IsStrictPrefix
<1>2. ASSUME NEW i \in DOMAIN s  PROVE ~ Before(s[i], s[i])
  <2>1. s[i] \in Transitions
    BY LenProperties, ElementOfSeq
  <2>2. s[i].action \in Int /\ s[i].reward \in Int
    BY <2>1 DEF Transitions
  <2>. QED  BY <2>2 DEF Before
<1>. QED  BY <1>1, <1>2 DEF Precedes

(* Every finite set of traces can be sorted, in one way: each trace is     *)
(* listed once, and before those it precedes (the sort of a teacher's      *)
(* traces by compare_warmstart_teacher_traces).                            *)
THEOREM CanonicalIs ==
  ASSUME NEW traces \in SUBSET Seq(Transitions), IsFiniteSet(traces)
  PROVE  /\ Cardinality(traces) \in Nat
         /\ Canonical(traces) \in Bijection(1 .. Cardinality(traces), traces)
         /\ \A i, j \in 1 .. Cardinality(traces) :
              i < j => Precedes(Canonical(traces)[i], Canonical(traces)[j])
<1>1. PICK n \in Nat : n = Cardinality(traces)
  BY FS_CardinalityType
<1>2. PICK f \in [1 .. n -> traces] : \A i, j \in 1 .. n : i < j => <<f[i], f[j]>> \in Less
  BY <1>1, LessOrders, ListedExists DEF Listed
<1>3. \A i, j \in DOMAIN f : i < j => Precedes(f[i], f[j])
  <2>1. \A i \in 1 .. n : f[i] \in Seq(Transitions)
    OBVIOUS
  <2>. QED  BY <1>2, <2>1, LessPrecedes
<1>4. Canonical(traces) =
        CHOOSE order \in [1 .. n -> traces] :
          \A i, j \in DOMAIN order : i < j => Precedes(order[i], order[j])
  BY <1>1 DEF Canonical
<1>5. PICK order \in [1 .. n -> traces] :
         /\ order = Canonical(traces)
         /\ \A i, j \in 1 .. n : i < j => Precedes(order[i], order[j])
  <2>. DEFINE order == Canonical(traces)
  <2>1. /\ order \in [1 .. n -> traces]
        /\ \A i, j \in DOMAIN order : i < j => Precedes(order[i], order[j])
    BY <1>3, <1>4
  <2>2. DOMAIN order = 1 .. n
    BY <2>1
  <2>. HIDE DEF order
  <2>. QED  BY <2>1, <2>2 DEF order
<1>6. order \in Injection(1 .. n, traces)
  <2>1. ASSUME NEW i \in 1 .. n, NEW j \in 1 .. n, i # j  PROVE order[i] # order[j]
    <3>1. order[i] \in Seq(Transitions) /\ order[j] \in Seq(Transitions)
      OBVIOUS
    <3>2. Precedes(order[i], order[j]) \/ Precedes(order[j], order[i])
      <4>1. i < j \/ j < i
        BY <2>1
      <4>. QED  BY <1>5, <4>1
    <3>. QED  BY <3>1, <3>2, PrecedesStrict
  <2>. QED  BY <2>1 DEF Injection, IsInjective
<1>7. order \in Surjection(1 .. n, traces)
  <2>1. Cardinality(1 .. n) = Cardinality(traces)
    BY <1>1, FS_CountingElements, FS_Interval
  <2>. QED  BY <1>6, <2>1, FS_Injection
<1>. QED  BY <1>1, <1>5, <1>6, <1>7 DEF Bijection

\* The same, for the proofs that only list the traces.
LEMMA CanonicalLists ==
  ASSUME NEW traces \in SUBSET Seq(Transitions), IsFiniteSet(traces)
  PROVE  \E n \in Nat : n = Cardinality(traces) /\ Canonical(traces) \in [1 .. n -> traces]
BY CanonicalIs DEF Bijection, Injection

-----------------------------------------------------------------------------
(* The teacher's stream *)

\* What n sequences make one after the other.
Joined(F, q, n) == F[0] = << >> /\ \A k \in 1 .. n : F[k] = F[k - 1] \o q[k]

LEMMA JoinedExists ==
  ASSUME NEW V, NEW n \in Nat, NEW q \in [1 .. n -> Seq(V)]
  PROVE  \E F \in [0 .. n -> Seq(V)] : Joined(F, q, n)
<1>1. PICK g : g = [x \in (1 .. n) \X Seq(V) |-> x[2] \o q[x[1]]]
  OBVIOUS
<1>2. ASSUME NEW i \in 1 .. n, NEW v \in Seq(V)
      PROVE  g[<<i, v>>] = v \o q[i] /\ g[<<i, v>>] \in Seq(V)
  <2>1. <<i, v>> \in (1 .. n) \X Seq(V)
    OBVIOUS
  <2>2. g[<<i, v>>] = v \o q[i]
    BY <1>1, <2>1
  <2>3. q[i] \in Seq(V)
    OBVIOUS
  <2>4. v \o q[i] \in Seq(V)
    BY <2>3, ConcatProperties
  <2>. QED  BY <2>2, <2>4
<1>3. PICK b \in Seq(V) : b = << >>
  BY EmptySeq
<1>4. PICK F \in [0 .. n -> Seq(V)] : Iterated(F, b, g, n)
  BY <1>2, Iterate
<1>5. ASSUME NEW k \in 1 .. n  PROVE F[k] = F[k - 1] \o q[k]
  <2>1. F[k] = g[<<k, F[k - 1]>>]
    BY <1>4 DEF Iterated
  <2>2. F[k - 1] \in Seq(V)
    <3>1. k - 1 \in 0 .. n
      OBVIOUS
    <3>. QED  BY <3>1
  <2>. QED  BY <1>2, <2>1, <2>2
<1>6. F[0] = << >>
  BY <1>3, <1>4 DEF Iterated
<1>. QED  BY <1>5, <1>6 DEF Joined

LEMMA FlattenIs ==
  ASSUME NEW V, NEW n \in Nat, NEW q \in [1 .. n -> Seq(V)],
         NEW F \in [0 .. n -> Seq(V)], Joined(F, q, n)
  PROVE  FlattenSeq(q) = F[n]
<1>1. q \in Seq(Seq(V)) /\ Len(q) = n
  BY SeqDef, LenProperties
<1>2. CASE n = 0
  <2>1. q = << >>
    BY <1>1, <1>2, EmptySeq
  <2>. QED  BY <1>1, <1>2, <2>1 DEF FlattenSeq, Joined
<1>3. CASE n # 0
  <2>. DEFINE Body(h) == [i \in 1 .. n |-> IF i = 1 THEN q[i] ELSE h[i - 1] \o q[i]]
              w == CHOOSE h : h = Body(h)
              f == [i \in 1 .. n |-> F[i]]
  <2>1. FlattenSeq(q) = w[n]
    BY <1>1, <1>3 DEF FlattenSeq
  <2>2. f = Body(f)
    <3>1. ASSUME NEW i \in 1 .. n  PROVE f[i] = IF i = 1 THEN q[i] ELSE f[i - 1] \o q[i]
      <4>1. F[i] = F[i - 1] \o q[i] /\ q[i] \in Seq(V)
        BY DEF Joined
      <4>2. CASE i = 1
        <5>1. i - 1 = 0 /\ F[0] = << >>
          BY <4>2 DEF Joined
        <5>2. << >> \o q[i] = q[i]
          BY <4>1, ConcatEmptySeq
        <5>. QED  BY <4>1, <4>2, <5>1, <5>2
      <4>3. CASE i # 1
        <5>1. i - 1 \in 1 .. n
          BY <4>3
        <5>. QED  BY <4>1, <4>3, <5>1
      <4>. QED  BY <4>2, <4>3
    <3>2. f = [i \in 1 .. n |-> f[i]]
      OBVIOUS
    <3>. HIDE DEF f
    <3>. QED  BY <3>1, <3>2
  <2>3. w = Body(w)
    <3>. HIDE DEF Body, f
    <3>. QED  BY <2>2
  <2>. HIDE DEF w
  <2>4. \A i \in 1 .. n : w[i] = IF i = 1 THEN q[i] ELSE w[i - 1] \o q[i]
    <3>1. PICK z : z = Body(w)
      OBVIOUS
    <3>2. \A i \in 1 .. n : z[i] = IF i = 1 THEN q[i] ELSE w[i - 1] \o q[i]
      BY <3>1
    <3>. HIDE DEF Body
    <3>3. w = z
      BY <2>3, <3>1
    <3>. QED  BY <3>2, <3>3
  <2>5. \A i \in 1 .. n : f[i] = IF i = 1 THEN q[i] ELSE f[i - 1] \o q[i]
    <3>1. PICK z : z = Body(f)
      OBVIOUS
    <3>2. \A i \in 1 .. n : z[i] = IF i = 1 THEN q[i] ELSE f[i - 1] \o q[i]
      <4>. HIDE DEF f
      <4>. QED  BY <3>1
    <3>. HIDE DEF Body, f
    <3>3. f = z
      BY <2>2, <3>1
    <3>. QED  BY <3>2, <3>3
  <2>6. f[n] = F[n]
    BY <1>3
  <2>. HIDE DEF Body, f
  <2>. DEFINE T == {k \in Nat : k <= n /\ k # 0 => w[k] = f[k]}
  <2>7. 0 \in T
    OBVIOUS
  <2>8. ASSUME NEW k \in Nat, k \in T  PROVE k + 1 \in T
    <3>1. SUFFICES ASSUME k + 1 <= n PROVE w[k + 1] = f[k + 1]
      OBVIOUS
    <3>2. k + 1 \in 1 .. n /\ (k + 1) - 1 = k /\ k <= n
      BY <3>1
    <3>3. CASE k = 0
      <4>1. k + 1 = 1
        BY <3>3
      <4>. QED  BY <2>4, <2>5, <3>2, <4>1
    <3>4. CASE k # 0
      <4>1. k + 1 # 1 /\ w[k] = f[k]
        BY <2>8, <3>2, <3>4
      <4>. QED  BY <2>4, <2>5, <3>2, <4>1
    <3>. QED  BY <3>3, <3>4
  <2>. HIDE DEF T
  <2>9. n \in T
    BY <2>7, <2>8, NatSet
  <2>10. w[n] = f[n]
    BY <1>3, <2>9 DEF T
  <2>. QED  BY <2>1, <2>6, <2>10
<1>. QED  BY <1>2, <1>3

\* What a trace of the teacher adds, its reset included.
Lesson(trace, p) == Append(Exact(trace, p, Len(trace)), Reset)

\* The tokens of different traces make streams that can be joined.
Stream(s) == \E V : s \in Seq(V)

LEMMA StreamsJoin ==
  ASSUME NEW s, NEW t, NEW u, Stream(s), Stream(t), Stream(u)
  PROVE  (s \o t) \o u = s \o (t \o u)
<1>1. PICK A : s \in Seq(A)  BY DEF Stream
<1>2. PICK B : t \in Seq(B)  BY DEF Stream
<1>3. PICK C : u \in Seq(C)  BY DEF Stream
<1>4. PICK V : A \subseteq V /\ B \subseteq V /\ C \subseteq V
  <2>1. A \subseteq A \cup B \cup C /\ B \subseteq A \cup B \cup C /\ C \subseteq A \cup B \cup C
    OBVIOUS
  <2>. QED  BY <2>1
<1>5. s \in Seq(V) /\ t \in Seq(V) /\ u \in Seq(V)
  BY <1>1, <1>2, <1>3, <1>4, SeqMonotonic
<1>. QED  BY <1>5, ConcatAssociative

\* Learning one more trace, and resetting.
LEMMA AnotherLesson ==
  ASSUME NEW s, NEW trace \in Seq(Transitions), NEW p, Stream(s)
  PROVE  s \o TraceStream(trace, p) \o << Reset >> = s \o Lesson(trace, p)
<1>1. PICK e : e = Exact(trace, p, Len(trace)) /\ TraceStream(trace, p) = e
  BY TraceStreamIs
<1>2. PICK V : e \in Seq(V) /\ Reset \in V
  <2>1. PICK V : e \in Seq(V)
    BY <1>1, ExactIsSeq, LenProperties
  <2>2. V \subseteq V \cup {Reset} /\ Reset \in V \cup {Reset}
    OBVIOUS
  <2>. QED  BY <2>1, <2>2, SeqMonotonic
<1>3. PICK r : r = << Reset >>
  OBVIOUS
<1>4. r \in Seq(V)
  BY <1>2, <1>3
<1>5. Lesson(trace, p) = e \o r
  BY <1>1, <1>2, <1>3, AppendIsConcat DEF Lesson
<1>6. Stream(e) /\ Stream(r)
  BY <1>2, <1>4 DEF Stream
<1>7. (s \o e) \o r = s \o (e \o r)
  BY <1>6, StreamsJoin
<1>. QED  BY <1>1, <1>3, <1>5, <1>7

\* The stream is all the lessons, one after the other.
LEMMA TeacherStreamJoins ==
  ASSUME NEW traces \in SUBSET Seq(Transitions), IsFiniteSet(traces), NEW p
  PROVE  LET order == Canonical(traces)
         IN  /\ TeacherStream(traces, p) =
                  FlattenSeq([k \in 1 .. Len(order) |-> Lesson(order[k], p)])
             /\ Stream(TeacherStream(traces, p))
<1>1. PICK n \in Nat : n = Cardinality(traces) /\ Canonical(traces) \in [1 .. n -> traces]
  BY CanonicalLists
<1>2. PICK order \in [1 .. n -> traces] : order = Canonical(traces)
  BY <1>1
<1>3. Len(order) = n
  BY SeqDef, LenProperties
<1>. DEFINE U == UNION {TokenSet(trace, p) : trace \in traces}
            V == U \cup {Reset}
            q == [k \in 1 .. n |-> Lesson(order[k], p)]
<1>4. ASSUME NEW k \in 1 .. n  PROVE Lesson(order[k], p) \in Seq(V)
  <2>1. order[k] \in traces /\ order[k] \in Seq(Transitions) /\ Len(order[k]) \in Nat
    BY LenProperties
  <2>2. TokenSet(order[k], p) \subseteq V
    BY <2>1
  <2>. HIDE DEF U
  <2>3. Reset \in V
    OBVIOUS
  <2>. HIDE DEF V
  <2>4. Exact(order[k], p, Len(order[k])) \in Seq(V)
    BY <2>1, <2>2, ExactIsSeq, SeqMonotonic
  <2>. QED  BY <2>3, <2>4, AppendProperties DEF Lesson
<1>. HIDE DEF U, V
<1>5. q \in [1 .. n -> Seq(V)]
  BY <1>4
<1>6. PICK F \in [0 .. n -> Seq(V)] : Joined(F, q, n)
  <2>. HIDE DEF q
  <2>. QED  BY <1>5, JoinedExists
<1>7. FlattenSeq(q) = F[n]
  <2>. HIDE DEF q
  <2>. QED  BY <1>5, <1>6, FlattenIs
<1>8. \A k \in 1 .. n : F[k] = F[k - 1] \o TraceStream(order[k], p) \o <<Reset>>
  <2>1. SUFFICES ASSUME NEW k \in 1 .. n
                 PROVE  F[k] = F[k - 1] \o TraceStream(order[k], p) \o <<Reset>>
    OBVIOUS
  <2>2. k - 1 \in 0 .. n
    OBVIOUS
  <2>3. F[k - 1] \in Seq(V)
    BY <2>2
  <2>4. F[k] = F[k - 1] \o Lesson(order[k], p)
    BY <1>6 DEF Joined
  <2>5. Stream(F[k - 1]) /\ order[k] \in Seq(Transitions)
    BY <2>3 DEF Stream
  <2>6. F[k - 1] \o TraceStream(order[k], p) \o <<Reset>> = F[k - 1] \o Lesson(order[k], p)
    BY <2>5, AnotherLesson
  <2>. QED  BY <2>4, <2>6
<1>. DEFINE Body(h) ==
              [k \in 0 .. n |-> IF k = 0 THEN << >>
                                ELSE h[k - 1] \o TraceStream(order[k], p) \o <<Reset>>]
            w == CHOOSE h : h = Body(h)
<1>9. TeacherStream(traces, p) = w[n]
  BY <1>2, <1>3 DEF TeacherStream
<1>10. F = Body(F)
  <2>1. ASSUME NEW k \in 0 .. n
        PROVE  F[k] = IF k = 0 THEN << >>
                      ELSE F[k - 1] \o TraceStream(order[k], p) \o <<Reset>>
    <3>1. k = 0 \/ (k # 0 /\ k \in 1 .. n)
      OBVIOUS
    <3>. QED  BY <1>6, <1>8, <3>1 DEF Joined
  <2>2. F = [k \in 0 .. n |-> F[k]]
    OBVIOUS
  <2>. QED  BY <2>1, <2>2
<1>11. w = Body(w)
  <2>. HIDE DEF Body
  <2>. QED  BY <1>10
<1>. HIDE DEF w
<1>12. \A k \in 0 .. n : w[k] = IF k = 0 THEN << >>
                                ELSE w[k - 1] \o TraceStream(order[k], p) \o <<Reset>>
  <2>1. PICK z : z = Body(w)
    OBVIOUS
  <2>2. \A k \in 0 .. n : z[k] = IF k = 0 THEN << >>
                                 ELSE w[k - 1] \o TraceStream(order[k], p) \o <<Reset>>
    BY <2>1
  <2>. HIDE DEF Body
  <2>3. w = z
    BY <1>11, <2>1
  <2>. QED  BY <2>2, <2>3
<1>. HIDE DEF Body, q
<1>. DEFINE T == {k \in Nat : k <= n => w[k] = F[k]}
<1>13. 0 \in T
  BY <1>6, <1>12 DEF Joined
<1>14. ASSUME NEW k \in Nat, k \in T  PROVE k + 1 \in T
  <2>1. SUFFICES ASSUME k + 1 <= n PROVE w[k + 1] = F[k + 1]
    OBVIOUS
  <2>2. k + 1 \in 0 .. n /\ k + 1 \in 1 .. n /\ (k + 1) - 1 = k /\ k <= n /\ k + 1 # 0
    BY <2>1
  <2>3. w[k] = F[k]
    BY <1>14, <2>2
  <2>4. F[k + 1] = F[k] \o TraceStream(order[k + 1], p) \o <<Reset>>
    BY <1>8, <2>2
  <2>. QED  BY <1>12, <2>2, <2>3, <2>4
<1>. HIDE DEF T
<1>15. n \in T
  BY <1>13, <1>14, NatSet
<1>16. w[n] = F[n]
  BY <1>15 DEF T
<1>17. TeacherStream(traces, p) = FlattenSeq(q)
  BY <1>7, <1>9, <1>16
<1>18. Stream(TeacherStream(traces, p))
  <2>1. F[n] \in Seq(V)
    OBVIOUS
  <2>. QED  BY <1>9, <1>16, <2>1 DEF Stream
<1>. QED  BY <1>2, <1>3, <1>17, <1>18 DEF q

(* A new agent is trained on each trace of its teacher once, in the        *)
(* canonical order, with the exact returns (warm_start_from_teacher).      *)
THEOREM TeacherStreamIs ==
  ASSUME NEW traces \in SUBSET Seq(Transitions), IsFiniteSet(traces), NEW p
  PROVE  LET order == Canonical(traces)
         IN  TeacherStream(traces, p) = FlattenSeq([k \in 1 .. Len(order) |-> Lesson(order[k], p)])
BY TeacherStreamJoins

-----------------------------------------------------------------------------
(* The invariant *)

\* n is the last step of phase p, among the first t, whose return is complete.
LastDue(p, n, t) ==
  /\ n = 0 \/ (n \in 1 .. LabelStart(t) /\ PhaseOf(n) = p)
  /\ \A j \in 1 .. LabelStart(t) : PhaseOf(j) = p => j <= n

Progress == last \in [Phases -> Nat] /\ \A p \in Phases : LastDue(p, last[p], Len(live))

\* How far the predictor of a phase is conditioned.
Reached(p) == IF deciding /\ p = AskedPhase THEN Len(live) ELSE last[p]

Asks(n) ==
  [a \in 1 .. n |-> Append(Exact(live, AskedPhase, Len(live)), ArmToken(a - 1))]

Decision ==
  /\ deciding \in BOOLEAN
  /\ deciding => /\ pushed = Len(live) - last[AskedPhase]
                 /\ \E n \in 0 .. NumActions : asked = Asks(n)
  /\ ~ deciding => asked = << >>

IInv ==
  /\ live \in Seq(Transitions) /\ ~ failed
  /\ labels = TrueLabels(live)
  /\ Progress
  /\ context = [p \in Phases |-> Exact(live, p, Reached(p))]
  /\ Decision

LEMMA LastDueIs ==
  ASSUME NEW p \in Phases, NEW n \in Nat, LastDue(p, n, Len(live)), Len(live) \in Nat
  PROVE  Due(p) = n
<1>. DEFINE T == {0} \cup {i \in 1 .. LabelStart(Len(live)) : PhaseOf(i) = p}
<1>0. LabelStart(Len(live)) \in Int  BY Parameters DEF LabelStart
<1>1. n \in T /\ T \subseteq Nat  BY <1>0 DEF LastDue
<1>2. \A y \in T : n >= y  BY <1>0 DEF LastDue
<1>3. \A m \in T : (\A y \in T : m >= y) => m = n  BY <1>1, <1>2
<1>. HIDE DEF T
<1>4. Max(T) = n  BY <1>1, <1>2, <1>3 DEF Max
<1>. QED  BY <1>4 DEF Due, T

\* Training never runs ahead of the history.
LEMMA ProgressBound ==
  ASSUME IInv, NEW p \in Phases
  PROVE  /\ last[p] \in Nat /\ Len(live) \in Nat /\ last[p] <= Len(live)
         /\ last[p] = 0 \/ last[p] <= LabelStart(Len(live))
<1>1. Len(live) \in Nat  BY LenProperties DEF IInv
<1>. QED  BY <1>1, Parameters DEF IInv, Progress, LastDue, LabelStart
-----------------------------------------------------------------------------
(* The steps *)

\* An agent that has observed nothing.
LEMMA Fresh ==
  /\ << >> \in Seq(Transitions) /\ Len(<< >>) = 0 /\ TrueLabels(<< >>) = << >>
  /\ \A p \in Phases : LastDue(p, 0, 0) /\ Exact(<< >>, p, 0) = << >>
<1>1. << >> \in Seq(Transitions) /\ Len(<< >>) = 0  OBVIOUS
<1>2. TrueLabels(<< >>) = << >>  BY <1>1 DEF TrueLabels
<1>3. ASSUME NEW p \in Phases  PROVE LastDue(p, 0, 0) /\ Exact(<< >>, p, 0) = << >>
  <2>1. LastDue(p, 0, 0)  BY Parameters DEF LastDue, LabelStart
  <2>2. Exact(<< >>, p, 0) = << >>  BY DEF Exact
  <2>. QED  BY <2>1, <2>2
<1>. QED  BY <1>1, <1>2, <1>3

LEMMA IInvInit == Init => IInv
<1>. SUFFICES ASSUME Init  PROVE IInv  OBVIOUS
<1>1. /\ live = << >> /\ labels = << >> /\ asked = << >> /\ failed = FALSE
      /\ deciding = FALSE
      /\ last = [p \in Phases |-> 0] /\ context = [p \in Phases |-> << >>]
  BY DEF Init
<1>2. live \in Seq(Transitions) /\ ~ failed /\ labels = TrueLabels(live)
  BY <1>1, Fresh
<1>3. Progress
  <2>1. last \in [Phases -> Nat]  BY <1>1
  <2>2. \A p \in Phases : last[p] = 0 /\ Len(live) = 0  BY <1>1, Fresh
  <2>. QED  BY <2>1, <2>2, Fresh DEF Progress
<1>4. context = [p \in Phases |-> Exact(live, p, Reached(p))]
  <2>1. \A p \in Phases : Reached(p) = 0  BY <1>1 DEF Reached
  <2>2. \A p \in Phases : Exact(live, p, Reached(p)) = << >>  BY <1>1, <2>1, Fresh
  <2>. QED  BY <1>1, <2>2
<1>5. Decision  BY <1>1 DEF Decision
<1>. QED  BY <1>2, <1>3, <1>4, <1>5 DEF IInv

\* No label is missing when a phase is advanced to a step whose return is complete.
LEMMA Advanced ==
  ASSUME IInv, NEW x \in Transitions,
         NEW t \in Nat \ {0}, t = LabelStart(Len(live) + 1),
         AdvancePhase(PhaseOf(t), t, Append(live, x), TrueLabels(Append(live, x)))
  PROVE  /\ last' = [last EXCEPT ![PhaseOf(t)] = t] /\ failed' = FALSE
         /\ context' = [context EXCEPT ![PhaseOf(t)] =
                          @ \o Run(Append(live, x), PhaseOf(t), last[PhaseOf(t)], t)]
         /\ trained' = [trained EXCEPT ![PhaseOf(t)] =
                          @ \o Run(Append(live, x), PhaseOf(t), last[PhaseOf(t)], t)]
<1>. DEFINE h == Append(live, x)
            known == TrueLabels(h)
            p == PhaseOf(t)
            n == last[p]
            missing == Unlabelled(known, p, n + 1, t)
<1>1. h \in Seq(Transitions) /\ Len(h) = Len(live) + 1 /\ Len(live) \in Nat
  BY LenProperties, AppendProperties DEF IInv
<1>2. p \in Phases /\ n \in Nat /\ n < t
  <2>1. p \in Phases  BY Parameters
  <2>2. n \in Nat /\ (n = 0 \/ n <= LabelStart(Len(live)))  BY <2>1, ProgressBound
  <2>3. LabelStart(Len(live)) = t - 1  BY <1>1, Parameters DEF LabelStart
  <2>. HIDE DEF n, p
  <2>. QED  BY <2>1, <2>2, <2>3
<1>3. t + Horizon - 1 = Len(h)  BY <1>1, Parameters DEF LabelStart
<1>4. t \in Nat /\ t <= Len(h) /\ Len(h) \in Nat  BY <1>1, <1>3, Parameters
<1>5. missing = {}
  <2>1. \A i \in n + 1 .. t : i \in 1 .. Len(h) /\ i + Horizon - 1 <= Len(h)
    <3>. HIDE DEF h, n
    <3>. QED  BY <1>2, <1>3, <1>4, Parameters
  <2>2. \A i \in n + 1 .. t : known[i] # {}
    <3>. HIDE DEF n
    <3>. QED  BY <2>1 DEF TrueLabels, TrueLabel
  <2>. HIDE DEF known, n, p
  <2>. QED  BY <2>2 DEF Unlabelled
<1>6. ~ (t <= n)  BY <1>2
<1>7. Tokens(h, known, p, n + 1, t) = Run(h, p, n, t)
  <2>. HIDE DEF h, n, p
  <2>. QED  BY <1>2, <1>4, TokensAreRun
<1>8. /\ context' = [context EXCEPT ![p] = @ \o Tokens(h, known, p, n + 1, t)]
      /\ trained' = [trained EXCEPT ![p] = @ \o Tokens(h, known, p, n + 1, t)]
      /\ failed' = FALSE /\ last' = [last EXCEPT ![p] = t]
  <2>1. AdvancePhase(p, t, h, known)  OBVIOUS
  <2>. HIDE DEF h, known, p
  <2>. QED  BY <2>1, <1>5, <1>6 DEF AdvancePhase
<1>. HIDE DEF h, known, p, n
<1>9. QED  BY <1>7, <1>8 DEF h, p, n

\* What an observation does: the step is recorded, and if a return is now
\* complete the phase of its first step is trained up to it.
LEMMA Observed ==
  ASSUME IInv, NEW x \in Transitions, ObserveTransition(x)
  PROVE  LET h == Append(live, x)
             t == LabelStart(Len(live) + 1)
             q == PhaseOf(t)
         IN  /\ labels' = TrueLabels(h)
             /\ t < 1 => UNCHANGED << last, trained, context, failed >>
             /\ t >= 1 => /\ last' = [last EXCEPT ![q] = t] /\ failed' = FALSE
                         /\ context' = [context EXCEPT ![q] = @ \o Run(h, q, last[q], t)]
                         /\ trained' = [trained EXCEPT ![q] = @ \o Run(h, q, last[q], t)]
<1>. DEFINE h == Append(live, x)
            t == LabelStart(Len(live) + 1)
            q == PhaseOf(t)
<1>1. /\ h \in Seq(Transitions) /\ Len(h) = Len(live) + 1 /\ Len(live) \in Nat
      /\ live \in Seq(Transitions)
  BY LenProperties, AppendProperties DEF IInv
<1>2. t \in Int /\ LabelStart(Len(live)) = t - 1 /\ LabelStart(Len(h)) = t
  BY <1>1, Parameters DEF LabelStart
<1>3. labels' = Known(live, labels, x)
  BY <1>1 DEF ObserveTransition, Known
<1>4. labels' = TrueLabels(h)
  BY <1>1, <1>3, KnownAreTrue DEF IInv
<1>. HIDE DEF h, t
<1>5. t < 1 => UNCHANGED << last, trained, context, failed >>
  BY <1>2 DEF ObserveTransition, h
<1>6. ASSUME t >= 1
      PROVE  /\ last' = [last EXCEPT ![q] = t] /\ failed' = FALSE
             /\ context' = [context EXCEPT ![q] = @ \o Run(h, q, last[q], t)]
             /\ trained' = [trained EXCEPT ![q] = @ \o Run(h, q, last[q], t)]
  <2>1. t \in Nat \ {0}  BY <1>2, <1>6
  <2>2. AdvancePhase(q, t, h, TrueLabels(h))
    <3>1. /\ labels' = IF t < 1 THEN Append(labels, {})
                       ELSE [Append(labels, {}) EXCEPT ![t] = {ReturnFrom(h, t)}]
          /\ IF t < 1 THEN UNCHANGED << last, trained, context, failed >>
             ELSE AdvancePhase(PhaseOf(t), t, h, labels')
      <4>1. LabelStart(Len(Append(live, x))) = t  BY <1>2 DEF h
      <4>2. /\ labels' = IF LabelStart(Len(Append(live, x))) < 1 THEN Append(labels, {})
                         ELSE [Append(labels, {}) EXCEPT ![LabelStart(Len(Append(live, x)))] =
                                 {ReturnFrom(Append(live, x), LabelStart(Len(Append(live, x))))}]
            /\ IF LabelStart(Len(Append(live, x))) < 1
               THEN UNCHANGED << last, trained, context, failed >>
               ELSE AdvancePhase(PhaseOf(LabelStart(Len(Append(live, x)))),
                                 LabelStart(Len(Append(live, x))), Append(live, x), labels')
        BY ZenonT(20) DEF ObserveTransition
      <4>. QED  BY <4>1, <4>2 DEF h
    <3>2. ~ (t < 1)  BY <1>2, <1>6
    <3>3. AdvancePhase(PhaseOf(t), t, h, labels')  BY <3>1, <3>2, Zenon
    <3>. QED  BY <3>3, <1>4, Zenon
  <2>3. /\ last' = [last EXCEPT ![q] = t] /\ failed' = FALSE
        /\ context' = [context EXCEPT ![q] = @ \o Run(h, q, last[q], t)]
        /\ trained' = [trained EXCEPT ![q] = @ \o Run(h, q, last[q], t)]
    BY <2>1, <2>2, Advanced DEF h, t
  <2>. QED  BY <2>3
<1>. QED  BY <1>4, <1>5, <1>6 DEF h, t

LEMMA ObserveTransitionKeeps ==
  ASSUME IInv, NEW x \in Transitions, ObserveTransition(x)
  PROVE  IInv'
<1>. DEFINE h == Append(live, x)
            t == LabelStart(Len(live) + 1)
<1>1. /\ h \in Seq(Transitions) /\ Len(h) = Len(live) + 1 /\ Len(live) \in Nat
      /\ live \in Seq(Transitions)
  BY LenProperties, AppendProperties DEF IInv
<1>2. t \in Int /\ LabelStart(Len(live)) = t - 1 /\ LabelStart(Len(h)) = t
  BY <1>1, Parameters DEF LabelStart
<1>3. /\ live' = h /\ ~ failed /\ ~ deciding /\ deciding' = deciding /\ asked' = asked
  BY <1>1 DEF ObserveTransition
<1>4. labels' = TrueLabels(h)
  BY Observed
<1>5. Decision'  BY <1>3 DEF Decision, IInv
<1>6. \A p \in Phases : context[p] = Exact(live, p, last[p])
  BY <1>3 DEF IInv, Reached
<1>7. \A p \in Phases : Exact(h, p, last[p]) = Exact(live, p, last[p])
  BY <1>1, ProgressBound, ExactKept
<1>8. last \in [Phases -> Nat] /\ DOMAIN context = Phases  BY DEF IInv, Progress
<1>9. SUFFICES /\ last' \in [Phases -> Nat] /\ failed' = FALSE
               /\ \A p \in Phases : LastDue(p, last'[p], Len(h))
               /\ context' = [p \in Phases |-> Exact(h, p, last'[p])]
  <2>1. Progress'  BY <1>3, <1>9 DEF Progress
  <2>2. \A p \in Phases : Reached(p)' = last'[p]  BY <1>3 DEF Reached
  <2>3. context' = [p \in Phases |-> Exact(live', p, Reached(p)')]
    BY <1>3, <1>9, <2>2
  <2>. QED  BY <1>1, <1>3, <1>4, <1>5, <1>9, <2>1, <2>3 DEF IInv
<1>. HIDE DEF h, t
<1>10. CASE t < 1
  <2>1. UNCHANGED << last, context, failed >>
    BY <1>10, Observed DEF t
  <2>2. \A p \in Phases : LastDue(p, last[p], Len(h))
    BY <1>2, <1>10 DEF LastDue, IInv, Progress
  <2>3. context = [p \in Phases |-> context[p]]  BY DEF IInv
  <2>4. \A p \in Phases : context[p] = Exact(h, p, last[p])  BY <1>6, <1>7
  <2>5. context = [p \in Phases |-> Exact(h, p, last[p])]  BY <2>3, <2>4
  <2>. QED  BY <1>3, <1>8, <2>1, <2>2, <2>5
<1>11. CASE t >= 1
  <2>. DEFINE q == PhaseOf(t)
  <2>1. t \in Nat \ {0}  BY <1>2, <1>11
  <2>3. /\ last' = [last EXCEPT ![q] = t] /\ failed' = FALSE
        /\ context' = [context EXCEPT ![q] = @ \o Run(h, q, last[q], t)]
    BY <1>11, Observed DEF h, t
  <2>4. q \in Phases  BY <2>1, Parameters
  <2>5. last[q] \in Nat /\ last[q] <= t  BY <2>4, <1>2, <1>11, ProgressBound
  <2>6. Exact(h, q, last[q]) \o Run(h, q, last[q], t) = Exact(h, q, t)
    BY <2>1, <2>5, ExactExtends
  <2>7. ASSUME NEW p \in Phases  PROVE LastDue(p, last'[p], Len(h))
    <3>1. LastDue(p, last[p], Len(live))  BY DEF IInv, Progress
    <3>2. CASE p = q
      <4>1. last'[p] = t  BY <2>3, <3>2, <1>8
      <4>. QED  BY <4>1, <3>2, <1>2, <2>1 DEF LastDue
    <3>3. CASE p # q
      <4>1. last'[p] = last[p]  BY <2>3, <3>3, <1>8
      <4>2. \A j \in 1 .. t : PhaseOf(j) = p => j \in 1 .. t - 1
        BY <3>3, <1>2
      <4>. QED  BY <4>1, <4>2, <3>1, <1>2, <2>1 DEF LastDue
    <3>. QED  BY <3>2, <3>3
  <2>8. ASSUME NEW p \in Phases  PROVE context'[p] = Exact(h, p, last'[p])
    <3>1. CASE p = q
      <4>1. context'[p] = context[q] \o Run(h, q, last[q], t) /\ last'[p] = t
        BY <2>3, <3>1, <1>8
      <4>. QED  BY <4>1, <3>1, <2>6, <1>6, <1>7
    <3>2. CASE p # q
      <4>1. context'[p] = context[p] /\ last'[p] = last[p]  BY <2>3, <3>2, <1>8
      <4>. QED  BY <4>1, <1>6, <1>7
    <3>. QED  BY <3>1, <3>2
  <2>9. context' = [p \in Phases |-> Exact(h, p, last'[p])]
    <3>1. context' = [p \in Phases |-> context'[p]]  BY <2>3, <1>8
    <3>. QED  BY <3>1, <2>8
  <2>10. last' \in [Phases -> Nat]  BY <2>1, <2>3, <1>8
  <2>. QED  BY <2>3, <2>7, <2>9, <2>10
<1>12. t < 1 \/ t >= 1  BY <1>2
<1>. QED  BY <1>10, <1>11, <1>12
\* What the predictors are conditioned on when only the decision changes.
LEMMA DecisionStep ==
  ASSUME IInv, UNCHANGED << live, labels, last, failed >>, Decision',
         NEW f, context' = [context EXCEPT ![AskedPhase] = f],
         f = Exact(live, AskedPhase, IF deciding' THEN Len(live) ELSE last[AskedPhase])
  PROVE  IInv'
<1>1. AskedPhase' = AskedPhase /\ AskedPhase \in Phases
  <2>1. Len(live) + 1 \in Nat  BY LenProperties DEF IInv
  <2>. QED  BY <2>1, Parameters DEF AskedPhase
<1>2. Progress'  BY DEF IInv, Progress
<1>3. ASSUME NEW p \in Phases  PROVE context'[p] = Exact(live, p, Reached(p)')
  <2>1. DOMAIN context = Phases /\ context[p] = Exact(live, p, Reached(p))  BY DEF IInv
  <2>2. CASE p = AskedPhase
    <3>1. context'[p] = f  BY <2>1, <2>2
    <3>2. Reached(p)' = IF deciding' THEN Len(live) ELSE last[p]
      BY <2>2, <1>1 DEF Reached
    <3>. QED  BY <3>1, <3>2, <2>2
  <2>3. CASE p # AskedPhase
    <3>1. context'[p] = context[p]  BY <2>1, <2>3
    <3>2. Reached(p)' = Reached(p)  BY <2>3, <1>1 DEF Reached
    <3>. QED  BY <3>1, <3>2, <2>1
  <2>. QED  BY <2>2, <2>3
<1>4. context' = [p \in Phases |-> Exact(live', p, Reached(p)')]
  <2>1. DOMAIN context = Phases  BY DEF IInv
  <2>2. context' = [p \in Phases |-> context'[p]]  BY <2>1
  <2>. QED  BY <2>2, <1>3
<1>. QED  BY <1>2, <1>4 DEF IInv

\* The predictor a decision asks, and how far it is trained.
LEMMA Asked ==
  ASSUME IInv
  PROVE  /\ AskedPhase \in Phases
         /\ last[AskedPhase] \in Nat /\ Len(live) \in Nat /\ last[AskedPhase] <= Len(live)
         /\ context[AskedPhase] =
              Exact(live, AskedPhase, IF deciding THEN Len(live) ELSE last[AskedPhase])
<1>1. AskedPhase \in Phases
  <2>1. Len(live) + 1 \in Nat  BY LenProperties DEF IInv
  <2>. QED  BY <2>1, Parameters DEF AskedPhase
<1>. QED  BY <1>1, ProgressBound DEF IInv, Reached

LEMMA BeginDecisionKeeps ==
  ASSUME IInv, BeginDecision
  PROVE  IInv'
<1>. DEFINE p == AskedPhase
            n == last[p]
<1>1. /\ p \in Phases /\ n \in Nat /\ Len(live) \in Nat /\ n <= Len(live)
      /\ context[p] = Exact(live, p, n)
  BY Asked DEF BeginDecision
<1>2. /\ ~ deciding /\ deciding' = TRUE /\ pushed' = Len(FastForward(p))
      /\ context' = [context EXCEPT ![p] = @ \o FastForward(p)]
      /\ UNCHANGED << live, labels, last, asked, failed >>
  BY DEF BeginDecision
<1>3. DOMAIN context = Phases /\ labels = TrueLabels(live) /\ asked = << >>
  BY <1>2 DEF IInv, Decision
<1>. HIDE DEF p
<1>4. FastForward(p) = Run(live, p, n, Len(live))
  <2>1. Tokens(live, TrueLabels(live), p, n + 1, Len(live)) = Run(live, p, n, Len(live))
    BY <1>1, TokensAreRun
  <2>. QED  BY <2>1, <1>3 DEF FastForward
<1>5. /\ context[p] \o FastForward(p) = Exact(live, p, Len(live))
      /\ pushed' = Len(live) - n
  <2>1. /\ Exact(live, p, n) \o Run(live, p, n, Len(live)) = Exact(live, p, Len(live))
        /\ Len(Run(live, p, n, Len(live))) = Len(live) - n
    <3>. HIDE DEF n
    <3>. QED  BY <1>1, ExactExtends
  <2>. QED  BY <2>1, <1>1, <1>2, <1>4
<1>6. Decision'
  <2>1. Asks(0) = << >>  BY DEF Asks
  <2>2. Asks(0)' = Asks(0)  BY <1>2 DEF Asks, AskedPhase
  <2>3. AskedPhase' = p  BY <1>2 DEF AskedPhase, p
  <2>4. asked' = Asks(0)'  BY <2>1, <2>2, <1>2, <1>3
  <2>5. 0 \in 0 .. NumActions  BY Parameters
  <2>6. \E k \in 0 .. NumActions : asked' = Asks(k)'  BY <2>4, <2>5
  <2>7. pushed' = Len(live') - last'[AskedPhase']  BY <1>2, <1>5, <2>3
  <2>. QED  BY <1>2, <2>6, <2>7 DEF Decision
<1>7. context' = [context EXCEPT ![p] = Exact(live, p, Len(live))]
  BY <1>1, <1>2, <1>3, <1>5
<1>. QED  BY <1>2, <1>6, <1>7, DecisionStep DEF p

LEMMA EvaluateActionKeeps ==
  ASSUME IInv, EvaluateAction
  PROVE  IInv'
<1>. DEFINE p == AskedPhase
            e == Exact(live, p, Len(live))
            armed == Append(e, ArmToken(Len(asked)))
<1>1. p \in Phases /\ Len(live) \in Nat /\ context[p] = e
  BY Asked DEF EvaluateAction
<1>2. /\ deciding /\ Len(asked) < NumActions
      /\ asked' = Append(asked, armed)
      /\ context' = [context EXCEPT ![p] = Popped(armed, 1)]
      /\ UNCHANGED << live, labels, last, deciding, pushed, failed >>
  BY <1>1 DEF EvaluateAction
<1>3. Popped(armed, 1) = e  BY <1>1, PushedPopped
<1>4. PICK n \in 0 .. NumActions : asked = Asks(n)  BY <1>2 DEF IInv, Decision
<1>5. asked' = Asks(n + 1) /\ n + 1 \in 0 .. NumActions
  <2>. DEFINE A(a) == Append(e, ArmToken(a - 1))
              S == {A(a) : a \in Nat}
  <2>1. \A k \in Nat : Asks(k) = [a \in 1 .. k |-> A(a)]  BY DEF Asks
  <2>2. \A a \in Nat : A(a) \in S  OBVIOUS
  <2>. HIDE DEF A, S
  <2>3. \A k \in Nat : Asks(k) \in Seq(S) /\ Len(Asks(k)) = k
    <3>1. ASSUME NEW k \in Nat  PROVE Asks(k) \in [1 .. k -> S]  BY <2>1, <2>2
    <3>2. ASSUME NEW k \in Nat  PROVE Asks(k) \in Seq(S)  BY <3>1, SeqDef
    <3>. QED  BY <3>1, <3>2, LenProperties
  <2>4. n \in Nat /\ n + 1 \in Nat /\ Len(asked) = n  BY <1>4, <2>3, Parameters
  <2>5. armed = A(n + 1)
    <3>1. (n + 1) - 1 = n  BY <2>4
    <3>. QED  BY <3>1, <2>4 DEF A
  <2>. HIDE DEF armed
  <2>6. A(n + 1) \in S  BY <2>2, <2>4
  <2>7. /\ asked' \in Seq(S) /\ Len(asked') = n + 1
        /\ (\A a \in 1 .. n : asked'[a] = A(a)) /\ asked'[n + 1] = A(n + 1)
    <3>1. asked \in Seq(S) /\ \A a \in 1 .. n : asked[a] = A(a)
      BY <1>4, <2>1, <2>3, <2>4
    <3>. QED  BY <3>1, <2>4, <2>5, <2>6, <1>2, AppendProperties
  <2>8. Asks(n + 1) \in Seq(S) /\ Len(Asks(n + 1)) = n + 1
        /\ \A a \in 1 .. n + 1 : Asks(n + 1)[a] = A(a)
    BY <2>1, <2>3, <2>4
  <2>9. \A a \in 1 .. n + 1 : asked'[a] = Asks(n + 1)[a]
    <3>1. \A a \in 1 .. n + 1 : a \in 1 .. n \/ a = n + 1  BY <2>4
    <3>. QED  BY <3>1, <2>7, <2>8
  <2>10. asked' = Asks(n + 1)
    <3>. DEFINE k == n + 1
    <3>. HIDE DEF k
    <3>. QED  BY <2>7, <2>8, <2>9, SeqEqual DEF k
  <2>11. n + 1 \in 0 .. NumActions  BY <1>2, <2>4, Parameters
  <2>. QED  BY <2>10, <2>11
<1>. HIDE DEF e, armed
<1>6. Decision'
  <2>1. Asks(n + 1)' = Asks(n + 1) /\ AskedPhase' = AskedPhase
    BY <1>2 DEF Asks, AskedPhase
  <2>2. \E k \in 0 .. NumActions : asked' = Asks(k)'  BY <1>5, <2>1
  <2>3. pushed' = Len(live') - last'[AskedPhase']
    BY <1>2, <2>1 DEF IInv, Decision
  <2>. QED  BY <1>2, <2>2, <2>3 DEF Decision
<1>7. context' = [context EXCEPT ![p] = e]  BY <1>2, <1>3
<1>. QED  BY <1>2, <1>6, <1>7, DecisionStep DEF p, e

LEMMA EndDecisionKeeps ==
  ASSUME IInv, EndDecision
  PROVE  IInv'
<1>. DEFINE p == AskedPhase
            n == last[p]
            e == Exact(live, p, Len(live))
<1>1. /\ p \in Phases /\ n \in Nat /\ Len(live) \in Nat /\ n <= Len(live)
      /\ context[p] = e
  BY Asked DEF EndDecision
<1>2. /\ deciding /\ deciding' = FALSE /\ asked' = << >>
      /\ context' = [context EXCEPT ![p] = Popped(@, pushed)]
      /\ UNCHANGED << live, labels, last, failed >>
  BY DEF EndDecision
<1>3. pushed = Len(live) - n /\ DOMAIN context = Phases
  BY <1>2 DEF IInv, Decision
<1>4. Popped(context[p], pushed) = Exact(live, p, n)
  BY <1>1, <1>3, ExactPopped
<1>5. Decision'  BY <1>2 DEF Decision
<1>. HIDE DEF e
<1>6. context' = [context EXCEPT ![p] = Exact(live, p, n)]
  BY <1>1, <1>2, <1>3, <1>4
<1>. QED  BY <1>2, <1>5, <1>6, DecisionStep

LEMMA NextRoundKeeps ==
  ASSUME IInv, NextRound
  PROVE  IInv'
<1>1. CASE HasLiveTrace /\ live \notin teacher
  <2>1. /\ live' = << >> /\ labels' = << >> /\ last' = [p \in Phases |-> 0]
        /\ context' = [p \in Phases |-> << >>]
        /\ UNCHANGED << deciding, pushed, asked, failed >> /\ ~ deciding
    BY <1>1 DEF NextRound, WarmStartFromTeacher
  <2>2. Decision'  BY <2>1 DEF Decision, IInv
  <2>3. Progress'
    <3>1. last' \in [Phases -> Nat]  BY <2>1
    <3>2. \A p \in Phases : last'[p] = 0 /\ Len(live') = 0  BY <2>1, Fresh
    <3>. QED  BY <3>1, <3>2, Fresh DEF Progress
  <2>4. context' = [p \in Phases |-> Exact(live', p, Reached(p)')]
    <3>1. \A p \in Phases : Reached(p)' = 0  BY <2>1 DEF Reached
    <3>2. \A p \in Phases : Exact(live', p, Reached(p)') = << >>
      BY <2>1, <3>1, Fresh
    <3>. QED  BY <2>1, <3>2
  <2>. QED  BY <2>1, <2>2, <2>3, <2>4, Fresh DEF IInv
<1>2. CASE ~ (HasLiveTrace /\ live \notin teacher)
  <2>1. UNCHANGED << live, labels, last, context, deciding, pushed, asked, failed >>
    BY <1>2 DEF NextRound
  <2>. QED  BY <2>1 DEF IInv, Progress, Decision, Asks, AskedPhase, Reached
<1>. QED  BY <1>1, <1>2
-----------------------------------------------------------------------------
(* What the predictors are trained on *)

LEMMA ExactIsStream ==
  ASSUME NEW h, NEW p, NEW n \in Nat, NEW m \in Nat, n <= m
  PROVE  Stream(Exact(h, p, n)) /\ Stream(Run(h, p, n, m))
<1>1. Stream(Exact(h, p, n))
  BY ExactIsSeq DEF Stream
<1>2. PICK d \in Nat : d = m - n
  OBVIOUS
<1>3. Run(h, p, n, m) = [k \in 1 .. d |-> Token(h, p, n + k)]
  BY <1>2 DEF Run
<1>4. Run(h, p, n, m) \in [1 .. d -> TokenSet(h, p)]
  BY <1>2, <1>3 DEF TokenSet
<1>5. Run(h, p, n, m) \in Seq(TokenSet(h, p))
  BY <1>2, <1>4, SeqDef
<1>. QED  BY <1>1, <1>5 DEF Stream

(* A predictor has been trained on the teacher's stream and on the live    *)
(* steps of its phase; what a decision pushes is never trained.            *)
Taught ==
  /\ teacher \in SUBSET Seq(Transitions) /\ IsFiniteSet(teacher)
  /\ trained = [p \in Phases |-> TeacherStream(teacher, p) \o Exact(live, p, last[p])]

\* A newly built agent.
LEMMA TaughtFresh ==
  ASSUME NEW traces \in SUBSET Seq(Transitions), IsFiniteSet(traces), NEW p \in Phases
  PROVE  TeacherStream(traces, p) = TeacherStream(traces, p) \o Exact(<< >>, p, 0)
<1>1. PICK V : TeacherStream(traces, p) \in Seq(V)
  BY TeacherStreamJoins DEF Stream
<1>. QED  BY <1>1, Fresh, ConcatEmptySeq

LEMMA TaughtInit == Init => Taught
<1>. SUFFICES ASSUME Init  PROVE Taught
  OBVIOUS
<1>1. teacher \in SUBSET Seq(Transitions) /\ IsFiniteSet(teacher)
  BY WarmStartAssumption DEF Init
<1>2. ASSUME NEW p \in Phases
      PROVE  TeacherStream(teacher, p) = TeacherStream(teacher, p) \o Exact(live, p, last[p])
  <2>1. live = << >> /\ last[p] = 0
    BY DEF Init
  <2>. QED  BY <1>1, <2>1, TaughtFresh
<1>3. trained = [p \in Phases |-> TeacherStream(teacher, p)]
  BY DEF Init
<1>. QED  BY <1>1, <1>2, <1>3 DEF Taught

LEMMA ObserveTransitionTaught ==
  ASSUME IInv, Taught, NEW x \in Transitions, ObserveTransition(x)
  PROVE  Taught'
<1>. DEFINE h == Append(live, x)
            t == LabelStart(Len(live) + 1)
            q == PhaseOf(t)
<1>1. /\ h \in Seq(Transitions) /\ Len(h) = Len(live) + 1 /\ Len(live) \in Nat
      /\ live \in Seq(Transitions)
  BY LenProperties, AppendProperties DEF IInv
<1>2. t \in Int /\ LabelStart(Len(live)) = t - 1
  BY <1>1, Parameters DEF LabelStart
<1>3. live' = h /\ teacher' = teacher
  BY <1>1 DEF ObserveTransition
<1>4. \A p \in Phases : Exact(h, p, last[p]) = Exact(live, p, last[p])
  BY <1>1, ProgressBound, ExactKept
<1>5. /\ DOMAIN trained = Phases /\ last \in [Phases -> Nat]
      /\ \A p \in Phases : trained[p] = TeacherStream(teacher, p) \o Exact(live, p, last[p])
  BY DEF Taught, IInv, Progress
<1>6. SUFFICES /\ DOMAIN trained' = Phases
               /\ \A p \in Phases :
                    trained'[p] = TeacherStream(teacher, p) \o Exact(h, p, last'[p])
      /\ trained' = [p \in Phases |-> trained'[p]]
  BY <1>3 DEF Taught
<1>. HIDE DEF h, t
<1>7. CASE t < 1
  <2>1. trained' = trained /\ last' = last
    BY <1>7, Observed DEF t
  <2>2. trained = [p \in Phases |-> trained[p]]
    BY DEF Taught
  <2>. QED  BY <1>4, <1>5, <2>1, <2>2
<1>8. CASE t >= 1
  <2>1. t \in Nat \ {0}
    BY <1>2, <1>8
  <2>2. q \in Phases
    BY <2>1, Parameters
  <2>3. last[q] \in Nat /\ last[q] <= t
    BY <1>2, <1>8, <2>2, ProgressBound
  <2>4. /\ last' = [last EXCEPT ![q] = t]
        /\ trained' = [trained EXCEPT ![q] = @ \o Run(h, q, last[q], t)]
    BY <1>8, Observed DEF h, t
  <2>5. (TeacherStream(teacher, q) \o Exact(h, q, last[q])) \o Run(h, q, last[q], t)
          = TeacherStream(teacher, q) \o Exact(h, q, t)
    <3>. HIDE DEF q
    <3>1. PICK n \in Nat, m \in Nat : n = last[q] /\ m = t /\ n <= m
      BY <2>1, <2>3
    <3>2. Exact(h, q, n) \o Run(h, q, n, m) = Exact(h, q, m)
      BY <3>1, ExactExtends
    <3>3. PICK a, b, c : a = TeacherStream(teacher, q) /\ b = Exact(h, q, n) /\ c = Run(h, q, n, m)
      OBVIOUS
    <3>4. Stream(a) /\ Stream(b) /\ Stream(c)
      BY <3>1, <3>3, ExactIsStream, TeacherStreamJoins DEF Taught
    <3>5. (a \o b) \o c = a \o (b \o c)
      BY <3>4, StreamsJoin
    <3>. QED  BY <3>1, <3>2, <3>3, <3>5
  <2>. HIDE DEF q
  <2>6. ASSUME NEW p \in Phases
        PROVE  trained'[p] = TeacherStream(teacher, p) \o Exact(h, p, last'[p])
    <3>1. CASE p = q
      <4>1. trained'[p] = trained[p] \o Run(h, q, last[q], t) /\ last'[p] = t
        BY <1>5, <2>4, <3>1
      <4>2. trained[p] = TeacherStream(teacher, q) \o Exact(h, q, last[q])
        BY <1>4, <1>5, <3>1
      <4>. QED  BY <2>5, <3>1, <4>1, <4>2
    <3>2. CASE p # q
      <4>1. trained'[p] = trained[p] /\ last'[p] = last[p]
        BY <1>5, <2>4, <3>2
      <4>. QED  BY <1>4, <1>5, <4>1
    <3>. QED  BY <3>1, <3>2
  <2>7. DOMAIN trained' = Phases /\ trained' = [p \in Phases |-> trained'[p]]
    BY <1>5, <2>4
  <2>. QED  BY <2>6, <2>7
<1>. QED  BY <1>2, <1>7, <1>8

LEMMA NextRoundTaught ==
  ASSUME IInv, Taught, NextRound
  PROVE  Taught'
<1>1. CASE HasLiveTrace /\ live \notin teacher
  <2>1. /\ teacher' = teacher \cup {live} /\ live' = << >>
        /\ last' = [p \in Phases |-> 0]
        /\ trained' = [p \in Phases |-> TeacherStream(teacher', p)]
    BY <1>1 DEF NextRound, WarmStartFromTeacher
  <2>2. teacher' \in SUBSET Seq(Transitions)
    BY <2>1 DEF Taught, IInv
  <2>3. IsFiniteSet(teacher')
    BY <2>1, FS_AddElement DEF Taught
  <2>4. ASSUME NEW p \in Phases
        PROVE  TeacherStream(teacher', p) = TeacherStream(teacher', p) \o Exact(live', p, last'[p])
    <3>1. last'[p] = 0
      BY <2>1
    <3>2. TeacherStream(teacher', p) = TeacherStream(teacher', p) \o Exact(<< >>, p, 0)
      <4>1. PICK traces \in SUBSET Seq(Transitions) : traces = teacher'
        BY <2>2
      <4>2. TeacherStream(traces, p) = TeacherStream(traces, p) \o Exact(<< >>, p, 0)
        BY <2>3, <4>1, TaughtFresh
      <4>. QED  BY <4>1, <4>2
    <3>. QED  BY <2>1, <3>1, <3>2
  <2>. QED  BY <2>1, <2>2, <2>3, <2>4 DEF Taught
<1>2. CASE ~ (HasLiveTrace /\ live \notin teacher)
  BY <1>2 DEF NextRound, Taught
<1>. QED  BY <1>1, <1>2

-----------------------------------------------------------------------------
(* The theorems *)

(* The invariant holds initially and is preserved by every step of an      *)
(* agent, decisions and new rounds included.                               *)
THEOREM Inductive == Spec => []IInv
<1>1. Init => IInv  BY IInvInit
<1>2. IInv /\ [Next]_vars => IInv'
  <2>. SUFFICES ASSUME IInv, [Next]_vars  PROVE IInv'  OBVIOUS
  <2>1. ASSUME NEW x \in Transitions, ObserveTransition(x)  PROVE IInv'
    BY <2>1, ObserveTransitionKeeps
  <2>2. CASE BeginDecision  BY <2>2, BeginDecisionKeeps
  <2>3. CASE EvaluateAction  BY <2>3, EvaluateActionKeeps
  <2>4. CASE EndDecision  BY <2>4, EndDecisionKeeps
  <2>5. CASE NextRound  BY <2>5, NextRoundKeeps
  <2>6. CASE UNCHANGED vars
    BY <2>6 DEF vars, IInv, Progress, Decision, Asks, AskedPhase, Reached
  <2>. QED  BY <2>1, <2>2, <2>3, <2>4, <2>5, <2>6 DEF Next
<1>. QED  BY <1>1, <1>2, PTL DEF Spec

(* No return label is ever missing when a phase is trained, and between    *)
(* decisions every predictor is conditioned on exactly the live steps up to*)
(* the latest of its phase whose return is complete (ContextExact, the live*)
(* part of StreamsExact): what estimate_q_values pushes, it pops.          *)
THEOREM ContextsAreExact == Spec => []ContextExact
<1>1. IInv => ContextExact
  <2>. SUFFICES ASSUME IInv  PROVE ContextExact  OBVIOUS
  <2>1. ASSUME NEW p \in Phases
        PROVE  context[p] =
                 Exact(live, p, IF deciding /\ p = AskedPhase THEN Len(live) ELSE Due(p))
    <3>1. LastDue(p, last[p], Len(live)) /\ last[p] \in Nat /\ Len(live) \in Nat
      BY ProgressBound DEF IInv, Progress
    <3>2. Due(p) = last[p]  BY <3>1, LastDueIs
    <3>. QED  BY <3>2 DEF IInv, Reached
  <2>. QED  BY <2>1 DEF ContextExact, IInv
<1>. QED  BY <1>1, Inductive, PTL

(* Every predictor has been trained on each trace of the teacher once, in  *)
(* the canonical order whatever the order they were collected in, with the *)
(* exact returns, and after them on the live steps it is conditioned on    *)
(* (StreamsExact): a decision trains nothing, and an agent built anew for a*)
(* round has learned nothing twice.                                        *)
THEOREM StreamsAreExact == Spec => []StreamsExact
<1>1. Init => Taught  BY TaughtInit
<1>2. IInv /\ Taught /\ [Next]_vars => Taught'
  <2>. SUFFICES ASSUME IInv, Taught, [Next]_vars  PROVE Taught'
    OBVIOUS
  <2>1. ASSUME NEW x \in Transitions, ObserveTransition(x)  PROVE Taught'
    BY <2>1, ObserveTransitionTaught
  <2>2. CASE BeginDecision  BY <2>2 DEF BeginDecision, Taught
  <2>3. CASE EvaluateAction  BY <2>3 DEF EvaluateAction, Taught
  <2>4. CASE EndDecision  BY <2>4 DEF EndDecision, Taught
  <2>5. CASE NextRound  BY <2>5, NextRoundTaught
  <2>6. CASE UNCHANGED vars  BY <2>6 DEF vars, Taught
  <2>. QED  BY <2>1, <2>2, <2>3, <2>4, <2>5, <2>6 DEF Next
<1>3. IInv /\ Taught /\ ContextExact => StreamsExact
  <2>. SUFFICES ASSUME IInv, Taught, ContextExact  PROVE StreamsExact
    OBVIOUS
  <2>1. PICK order : order = Canonical(teacher)
    OBVIOUS
  <2>2. ASSUME NEW p \in Phases
        PROVE  trained[p] =
                 FlattenSeq([k \in 1 .. Len(order) |->
                               Append(Exact(order[k], p, Len(order[k])), Reset)])
                 \o Exact(live, p, Due(p))
    <3>1. LastDue(p, last[p], Len(live)) /\ last[p] \in Nat /\ Len(live) \in Nat
      BY ProgressBound DEF IInv, Progress
    <3>2. Due(p) = last[p]
      BY <3>1, LastDueIs
    <3>3. TeacherStream(teacher, p) = FlattenSeq([k \in 1 .. Len(order) |-> Lesson(order[k], p)])
      BY <2>1, TeacherStreamIs DEF Taught
    <3>4. [k \in 1 .. Len(order) |-> Lesson(order[k], p)]
            = [k \in 1 .. Len(order) |-> Append(Exact(order[k], p, Len(order[k])), Reset)]
      BY DEF Lesson
    <3>5. trained[p] = TeacherStream(teacher, p) \o Exact(live, p, last[p])
      BY DEF Taught
    <3>. QED  BY <3>2, <3>3, <3>4, <3>5
  <2>. QED  BY <2>1, <2>2 DEF StreamsExact
<1>. QED  BY <1>1, <1>2, <1>3, Inductive, ContextsAreExact, PTL DEF Spec

\* Two different steps of one phase are at least a period apart.
LEMMA SamePhase ==
  ASSUME NEW N \in Nat \ {0}, NEW i \in Nat, NEW j \in Nat, i < j, i % N = j % N
  PROVE  i + N <= j
<1>1. /\ i = N * (i \div N) + (i % N) /\ j = N * (j \div N) + (j % N)
      /\ i \div N \in Int /\ j \div N \in Int
  OBVIOUS
<1>2. PICK a \in Int, b \in Int : a = i \div N /\ b = j \div N  BY <1>1
<1>3. j - i = N * b - N * a  BY <1>1, <1>2
<1>4. N * b - N * a = N * (b - a)  BY SMT
<1>5. b - a >= 1
  <2>1. SUFFICES ASSUME b - a <= 0  PROVE FALSE  BY <1>2
  <2>2. N * (b - a) <= 0  BY <2>1, SMT
  <2>. QED  BY <2>2, <1>3, <1>4
<1>6. N * (b - a) >= N  BY <1>5, SMT
<1>. QED  BY <1>3, <1>4, <1>6

(* A decision evaluates the actions in their order, each one after the     *)
(* whole live history, and finds the return of every step of its phase: it *)
(* never meets the missing label that push_step_tokens_history would leave *)
(* out.  Here the assumption that the period is no shorter than the horizon*)
(* is used.                                                                *)
THEOREM QueriesAreExact == Spec => []QueryExact
<1>1. IInv => QueryExact
  <2>. SUFFICES ASSUME IInv, deciding  PROVE QueryExact  BY DEF QueryExact
  <2>1. PICK n \in 0 .. NumActions : asked = Asks(n)  BY DEF IInv, Decision
  <2>2. Len(asked) = n
    <3>1. n \in Nat  BY Parameters
    <3>. DEFINE A(a) == Append(Exact(live, AskedPhase, Len(live)), ArmToken(a - 1))
    <3>2. asked = [a \in 1 .. n |-> A(a)]  BY <2>1 DEF Asks
    <3>. DEFINE S == {A(a) : a \in Nat}
    <3>3. asked \in [1 .. n -> S]
      <4>1. \A a \in 1 .. n : A(a) \in S  BY <3>1
      <4>. HIDE DEF A, S
      <4>. QED  BY <3>2, <4>1
    <3>. HIDE DEF A, S
    <3>. QED  BY <3>1, <3>3, SeqDef, LenProperties
  <2>3. asked = [a \in 1 .. Len(asked) |->
                   Append(Exact(live, AskedPhase, Len(live)), ArmToken(a - 1))]
    BY <2>1, <2>2 DEF Asks
  <2>4. ASSUME NEW i \in DOMAIN live, PhaseOf(i) = AskedPhase
        PROVE  labels[i] = {ReturnFrom(live, i)}
    <3>1. i \in 1 .. Len(live) /\ Len(live) \in Nat
      BY LenProperties DEF IInv
    <3>2. i + Period <= Len(live) + 1
      <4>. DEFINE j == Len(live) + 1
      <4>1. /\ Period \in Nat \ {0} /\ i \in Nat /\ j \in Nat /\ i < j
            /\ i % Period = j % Period
        <5>1. Period \in Nat \ {0}  BY Parameters
        <5>2. i \in Nat /\ j \in Nat /\ i < j  BY <3>1
        <5>3. i % Period = j % Period  BY <2>4 DEF AskedPhase, PhaseOf
        <5>. QED  BY <5>1, <5>2, <5>3
      <4>. HIDE DEF j
      <4>2. i + Period <= j  BY <4>1, SamePhase
      <4>. QED  BY <4>2 DEF j
    <3>3. i + Horizon - 1 <= Len(live)  BY <3>1, <3>2, Parameters
    <3>. QED  BY <3>1, <3>3 DEF IInv, TrueLabels, TrueLabel
  <2>. QED  BY <2>3, <2>4 DEF QueryExact
<1>. QED  BY <1>1, Inductive, PTL

\* A history is a prefix of what it becomes.
LEMMA LongerHistory ==
  ASSUME NEW S, NEW h \in Seq(S), NEW x \in S
  PROVE  IsPrefix(h, Append(h, x))
<1>. DEFINE g == Append(h, x)
            n == Len(h)
            u == SubSeq(h, 1, n)
            v == SubSeq(g, 1, n)
<1>1. /\ g \in Seq(S) /\ Len(g) = n + 1 /\ n \in Nat
      /\ \A i \in 1 .. n : g[i] = h[i] /\ h[i] \in S
  BY LenProperties, AppendProperties, ElementOfSeq
<1>. HIDE DEF g, n
<1>2. u \in Seq(S) /\ Len(u) = n /\ \A i \in 1 .. n : u[i] = h[i]
  BY <1>1, SubSeqProperties
<1>3. v \in Seq(S) /\ Len(v) = n /\ \A i \in 1 .. n : v[i] = g[i]
  <2>1. \A i \in 1 .. n : g[i] \in S  BY <1>1
  <2>. QED  BY <1>1, <2>1, SubSeqProperties
<1>. HIDE DEF u, v
<1>4. u = v  BY <1>1, <1>2, <1>3, SeqEqual
<1>. QED  BY <1>1, <1>4 DEF IsPrefix, u, v, g, n

(* What an agent has observed is given up only when its teacher has it, and*)
(* a teacher loses nothing, whatever the refreshes in a tuning run.        *)
THEOREM ExperienceIsKept == Spec => ExperienceKept
<1>. DEFINE Kept == /\ teacher \subseteq teacher'
                    /\ IsPrefix(live, live') \/ (live' = << >> /\ live \in teacher')
<1>1. IInv /\ [Next]_vars => [Kept]_vars
  <2>. SUFFICES ASSUME IInv, Next  PROVE Kept  OBVIOUS
  <2>1. IsPrefix(live, live)
    <3>1. live \in Seq(Transitions) /\ Len(live) \in Nat  BY LenProperties DEF IInv
    <3>2. SubSeq(live, 1, Len(live)) = live  BY <3>1, SubSeqFull
    <3>. QED  BY <3>1, <3>2 DEF IsPrefix
  <2>2. ASSUME NEW x \in Transitions, ObserveTransition(x)  PROVE Kept
    <3>1. live' = Append(live, x) /\ teacher' = teacher
      BY <2>2 DEF ObserveTransition
    <3>2. IsPrefix(live, Append(live, x))  BY LongerHistory DEF IInv
    <3>. QED  BY <3>1, <3>2
  <2>3. CASE BeginDecision  BY <2>1, <2>3 DEF BeginDecision
  <2>4. CASE EvaluateAction  BY <2>1, <2>4 DEF EvaluateAction
  <2>5. CASE EndDecision  BY <2>1, <2>5 DEF EndDecision
  <2>6. CASE NextRound
    BY <2>1, <2>6 DEF NextRound, WarmStartFromTeacher
  <2>. QED  BY <2>2, <2>3, <2>4, <2>5, <2>6 DEF Next
<1>2. Spec => [][Kept]_vars  BY <1>1, Inductive, PTL DEF Spec
<1>. QED  BY <1>2 DEF ExperienceKept
=============================================================================
