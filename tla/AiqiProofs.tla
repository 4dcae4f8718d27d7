----------------------------- MODULE AiqiProofs -----------------------------
(***************************************************************************)
(* Proofs about Aiqi for every period, horizon, alphabet and retention     *)
(* floor.  The inductive invariant has four parts: the retained history is *)
(* a faithful window of the trace (Hist), the progress of every phase      *)
(* stays within the labelled steps and ahead of the pruned ones (Progress),*)
(* predictors that are not borrowed hold exactly their augmented stream,   *)
(* and a borrowed one holds the complete augmented history (Cond).         *)
(***************************************************************************)
EXTENDS Aiqi, TLAPS, SequenceTheorems, WellFoundedInduction

-----------------------------------------------------------------------------
(* Arithmetic *)

\* A nonempty set of naturals has a least element.
LEMMA LeastNatural ==
  ASSUME NEW T \in SUBSET Nat, T # {}
  PROVE  \E m \in T : \A n \in T : m <= n
<1>1. PICK m \in T : \A n \in T : ~ (<<n, m>> \in OpToRel(<, Nat))
  <2>. HIDE DEF OpToRel
  <2>. QED  BY NatLessThanWellFounded, WFMin
<1>2. ASSUME NEW n \in T  PROVE m <= n
  <2>1. ~ (n < m)  BY <1>1 DEF OpToRel
  <2>. QED  BY <2>1
<1>. QED  BY <1>2

\* Two different steps of one phase are at least a period apart.
LEMMA SamePhase ==
  ASSUME NEW N \in Nat \ {0}, NEW i \in Nat, NEW j \in Nat, i < j, i % N = j % N
  PROVE  i + N <= j
<1>1. i = N * (i \div N) + (i % N) /\ j = N * (j \div N) + (j % N)
      /\ i \div N \in Int /\ j \div N \in Int
  OBVIOUS
<1>2. PICK a \in Int, b \in Int : a = i \div N /\ b = j \div N
  BY <1>1
<1>3. j - i = N * b - N * a  BY <1>1, <1>2
<1>4. N * b - N * a = N * (b - a)  BY SMT
<1>5. b - a >= 1
  <2>1. SUFFICES ASSUME b - a <= 0 PROVE FALSE  BY <1>2
  <2>2. N * (b - a) <= 0  BY <2>1, SMT
  <2>. QED  BY <2>2, <1>3, <1>4
<1>6. N * (b - a) >= N  BY <1>5, SMT
<1>. QED  BY <1>3, <1>4, <1>6

LEMMA PhaseInPhases ==
  ASSUME NEW i \in Nat
  PROVE  PhaseOf(i) \in Phases
BY ConfigAssumption DEF PhaseOf, Phases

\* The least element is what MinCommitted returns.
LEMMA MinCommittedBound ==
  ASSUME NEW l \in [Phases -> Nat]
  PROVE  /\ MinCommitted(l) \in Nat
         /\ \A p \in Phases : MinCommitted(l) <= l[p]
<1>. DEFINE T == {l[p] : p \in Phases}
<1>1. T \in SUBSET Nat /\ T # {}
  <2>1. 0 \in Phases  BY ConfigAssumption DEF Phases
  <2>. QED  BY <2>1
<1>2. PICK m \in T : \A n \in T : m <= n
  <2>. HIDE DEF T
  <2>. QED  BY <1>1, LeastNatural
<1>3. \A p \in Phases : m <= l[p]  BY <1>2
<1>. QED  BY <1>1, <1>2, <1>3 DEF MinCommitted

\* It is the progress of one of the phases.
LEMMA MinCommittedIsOne ==
  ASSUME NEW l \in [Phases -> Nat]
  PROVE  \E p \in Phases : MinCommitted(l) = l[p]
<1>. DEFINE T == {l[p] : p \in Phases}
<1>1. T \in SUBSET Nat /\ T # {}
  <2>1. 0 \in Phases  BY ConfigAssumption DEF Phases
  <2>. QED  BY <2>1
<1>2. PICK m \in T : \A n \in T : m <= n
  <2>. HIDE DEF T
  <2>. QED  BY <1>1, LeastNatural
<1>3. \A p \in Phases : m <= l[p]  BY <1>2
<1>4. MinCommitted(l) \in T  BY <1>2, <1>3 DEF MinCommitted
<1>. QED  BY <1>4

-----------------------------------------------------------------------------
(* Streams *)

\* Everything a conditioning history may contain.
TokenSet(h, p) == {IdealToken(h, p, i) : i \in Nat} \cup {ArmToken(a) : a \in Nat}

LEMMA AugmentedIsSeq ==
  ASSUME NEW h, NEW p, NEW n \in Nat
  PROVE  /\ Augmented(h, p, n) \in Seq(TokenSet(h, p))
         /\ Len(Augmented(h, p, n)) = n
         /\ \A i \in 1 .. n : Augmented(h, p, n)[i] = IdealToken(h, p, i)
<1>1. Augmented(h, p, n) \in [1 .. n -> TokenSet(h, p)]
  BY DEF Augmented, TokenSet
<1>. QED  BY <1>1, LenProperties, SeqDef DEF Augmented

\* The ideal token groups of steps n+1..c.
IdealRun(h, p, n, c) == [k \in 1 .. c - n |-> IdealToken(h, p, n + k)]

Joined(u, w) == u \o w

\* Extending a stream by the token groups of the following steps.
LEMMA ExtendAugmented ==
  ASSUME NEW h, NEW p, NEW n \in Nat, NEW c \in Nat, n <= c
  PROVE  /\ Joined(Augmented(h, p, n), IdealRun(h, p, n, c)) = Augmented(h, p, c)
         /\ Len(IdealRun(h, p, n, c)) = c - n
<1>. DEFINE S == TokenSet(h, p)
            m == c - n
            u == IdealRun(h, p, n, c)
            a == Augmented(h, p, n)
            e == Augmented(h, p, c)
<1>1. a \in Seq(S) /\ Len(a) = n /\ \A i \in 1 .. n : a[i] = IdealToken(h, p, i)
  BY AugmentedIsSeq
<1>2. e \in Seq(S) /\ Len(e) = c /\ \A i \in 1 .. c : e[i] = IdealToken(h, p, i)
  BY AugmentedIsSeq
<1>3. u \in Seq(S) /\ Len(u) = m /\ \A k \in 1 .. m : u[k] = IdealToken(h, p, n + k)
  <2>1. u = [k \in 1 .. m |-> IdealToken(h, p, n + k)]  BY DEF IdealRun
  <2>2. \A k \in 1 .. m : u[k] = IdealToken(h, p, n + k)  BY <2>1
  <2>3. u \in [1 .. m -> S]  BY <2>1 DEF TokenSet
  <2>0. m \in Nat  OBVIOUS
  <2>. HIDE DEF u, S, m
  <2>4. u \in Seq(S)  BY <2>0, <2>3, SeqDef
  <2>5. Len(u) = m  BY <2>0, <2>3, <2>4, LenProperties
  <2>. QED  BY <2>2, <2>4, <2>5
<1>0. PICK d \in Nat : d = c - n /\ n + d = c  OBVIOUS
<1>. HIDE DEF S, u, a, e
<1>4. /\ a \o u \in Seq(S) /\ Len(a \o u) = n + d
      /\ \A i \in 1 .. n + d : (a \o u)[i] = IF i <= n THEN a[i] ELSE u[i - n]
  <2>1. u \in Seq(S) /\ Len(u) = d  BY <1>0, <1>3
  <2>. QED  BY <1>1, <2>1, ConcatProperties
<1>5. ASSUME NEW i \in 1 .. c  PROVE (a \o u)[i] = e[i]
  <2>0. i \in 1 .. n + d  BY <1>0
  <2>1. CASE i <= n  BY <2>0, <2>1, <1>1, <1>2, <1>4
  <2>2. CASE i > n
    <3>1. i - n \in 1 .. m /\ n + (i - n) = i  BY <2>2
    <3>. QED  BY <2>0, <2>2, <3>1, <1>2, <1>3, <1>4
  <2>3. i <= n \/ i > n  OBVIOUS
  <2>. QED  BY <2>1, <2>2, <2>3
<1>. QED  BY <1>0, <1>2, <1>3, <1>4, <1>5, SeqEqual DEF a, u, e, Joined

\* Popping what was appended, one token group or the tail of a stream.
LEMMA PopAppended ==
  ASSUME NEW S, NEW s \in Seq(S), NEW e \in S
  PROVE  Popped(Append(s, e), 1) = s
<1>. DEFINE r == Append(s, e)
<1>1. r \in Seq(S) /\ Len(r) = Len(s) + 1 /\ Len(s) \in Nat
      /\ \A i \in 1 .. Len(s) : r[i] = s[i]
  BY LenProperties
<1>. HIDE DEF r
<1>2. /\ SubSeq(r, 1, Len(s)) \in Seq(S) /\ Len(SubSeq(r, 1, Len(s))) = Len(s)
      /\ \A i \in 1 .. Len(s) : SubSeq(r, 1, Len(s))[i] = r[i]
  <2>1. \A i \in 1 .. Len(s) : r[i] \in S  BY <1>1, ElementOfSeq
  <2>. QED  BY <1>1, <2>1, SubSeqProperties
<1>3. SubSeq(r, 1, Len(s)) = s  BY <1>1, <1>2, SeqEqual
<1>. QED  BY <1>1, <1>3 DEF Popped, r

LEMMA PopAugmented ==
  ASSUME NEW h, NEW p, NEW n \in Nat, NEW m \in Nat, m <= n
  PROVE  Popped(Augmented(h, p, n), m) = Augmented(h, p, n - m)
<1>. DEFINE S == TokenSet(h, p)
            a == Augmented(h, p, n)
            c == Augmented(h, p, n - m)
<1>1. a \in Seq(S) /\ Len(a) = n /\ \A i \in 1 .. n : a[i] = IdealToken(h, p, i)
  BY AugmentedIsSeq
<1>2. c \in Seq(S) /\ Len(c) = n - m /\ \A i \in 1 .. n - m : c[i] = IdealToken(h, p, i)
  BY AugmentedIsSeq
<1>. HIDE DEF S, a, c
<1>3. /\ SubSeq(a, 1, n - m) \in Seq(S) /\ Len(SubSeq(a, 1, n - m)) = n - m
      /\ \A i \in 1 .. n - m : SubSeq(a, 1, n - m)[i] = a[i]
  <2>1. \A i \in 1 .. n - m : a[i] \in S  BY <1>1, ElementOfSeq
  <2>. QED  BY <1>1, <2>1, SubSeqProperties
<1>4. SubSeq(a, 1, n - m) = c  BY <1>1, <1>2, <1>3, SeqEqual
<1>. QED  BY <1>1, <1>4 DEF Popped, a, c

\* A stream whose labels are all complete does not change when the trace grows.
LEMMA AugmentedStable ==
  ASSUME NEW h \in Seq(Transitions), NEW x \in Transitions, NEW p, NEW n \in 0 .. Len(h),
         \A i \in 1 .. n : PhaseOf(i) = p => i <= LabelledUpto(Len(h))
  PROVE  Augmented(Append(h, x), p, n) = Augmented(h, p, n)
<1>1. Len(h) \in Nat /\ \A i \in 1 .. Len(h) : Append(h, x)[i] = h[i]
  BY LenProperties
<1>2. ASSUME NEW i \in 1 .. n, PhaseOf(i) = p
      PROVE  RewardWindow(Append(h, x), i) = RewardWindow(h, i)
  <2>1. i + Horizon - 1 <= Len(h)
    BY <1>1, <1>2, ConfigAssumption DEF LabelledUpto
  <2>2. ASSUME NEW k \in 0 .. Horizon - 1  PROVE Append(h, x)[i + k] = h[i + k]
    BY <1>1, <2>1, ConfigAssumption
  <2>. QED  BY <2>2 DEF RewardWindow
<1>3. ASSUME NEW i \in 1 .. n
      PROVE  IdealToken(Append(h, x), p, i) = IdealToken(h, p, i)
  <2>1. Append(h, x)[i] = h[i]  BY <1>1
  <2>. QED  BY <1>2, <2>1 DEF IdealToken
<1>. QED  BY <1>3 DEF Augmented

-----------------------------------------------------------------------------
(* The inductive invariant *)

\* The part of a function on the interval lo..hi.
Window(f, lo, hi) == [i \in lo .. hi |-> f[i]]

\* The true return bins of steps lo..hi.
TrueBins(h, lo, hi) == [i \in lo .. hi |-> ReturnBin(RewardWindow(h, i))]

\* The retained history is a window of the trace, wide enough for the next
\* return.
Hist ==
  /\ total \in Nat /\ base \in 1 .. total + 1
  /\ trace \in Seq(Transitions) /\ Len(trace) = total
  /\ steps = Window(trace, base, total)
  /\ bins = TrueBins(trace, base, LabelledUpto(total))
  /\ total < Horizon => base = 1
  /\ total >= Horizon => base + Horizon <= total + 2

\* Every phase has consumed its newest labelled step and needs nothing that
\* was pruned.
Progress ==
  /\ last \in [Phases -> Nat]
  /\ \A p \in Phases : base <= last[p] + 1 /\ last[p] <= LabelledUpto(total)
  /\ \A p \in Phases : \A i \in 1 .. LabelledUpto(total) : PhaseOf(i) = p => i <= last[p]

\* What a running query has built.
Working ==
  IF pc = "query" THEN Append(Augmented(trace, QueryPhase, total), ArmToken(arm))
  ELSE Augmented(trace, QueryPhase, total)

Cond ==
  /\ cond = [p \in Phases |->
               IF pc # "idle" /\ ~generic /\ p = QueryPhase THEN Working
               ELSE Augmented(trace, p, last[p])]
  /\ pc # "idle" /\ generic => scratch = Working
  /\ pc # "idle" /\ ~generic => pushed = total - last[QueryPhase]

Control ==
  /\ generic \in BOOLEAN
  /\ pc \in {"idle", "ready", "query"}
  /\ arm \in 0 .. NumActions /\ pushed \in Nat
  /\ pc = "query" => arm < NumActions
  /\ result \in {"ok", "rejected"}

IInv == Hist /\ Progress /\ Cond /\ Control

-----------------------------------------------------------------------------
(* Lemmas about the operators of the agent *)

\* The token groups of steps n+1..c, and whether their labels are all known.
RunOf(s, b, p, n, c) == Tokens(s, b, p, n + 1, c)
Known(b, p, n, c) == Unlabelled(b, p, n + 1, c) = {}

\* Every label of phase p that a stream of steps n+1..c needs is at most z.
Due(p, n, c, z) == \A j \in n + 1 .. c : PhaseOf(j) = p => j <= z

\* Continuing a learned stream from the retained history, the window from step a
\* on, when every label that is due is known (z is the newest labelled step).
LEMMA Continue ==
  ASSUME NEW h, NEW p, NEW n \in Nat, NEW c \in Nat, n <= c,
         NEW a \in Nat, a <= n + 1, NEW t \in Nat, c <= t, NEW z \in Nat,
         Due(p, n, c, z)
  PROVE  /\ Known(TrueBins(h, a, z), p, n, c)
         /\ Len(RunOf(Window(h, a, t), TrueBins(h, a, z), p, n, c)) = c - n
         /\ Joined(Augmented(h, p, n), RunOf(Window(h, a, t), TrueBins(h, a, z), p, n, c))
              = Augmented(h, p, c)
<1>. DEFINE s == Window(h, a, t)
            b == TrueBins(h, a, z)
<1>1. Known(b, p, n, c)  BY DEF Known, Unlabelled, TrueBins, Due
<1>2. ASSUME NEW i \in n + 1 .. c  PROVE Token(s, b, p, i) = IdealToken(h, p, i)
  <2>1. s[i] = h[i]  BY DEF Window
  <2>2. i \in DOMAIN b => b[i] = ReturnBin(RewardWindow(h, i))  BY DEF TrueBins
  <2>3. PhaseOf(i) = p => i \in DOMAIN b  BY DEF TrueBins, Due
  <2>. HIDE DEF s, b
  <2>. QED  BY <2>1, <2>2, <2>3 DEF Token, IdealToken
<1>. HIDE DEF s, b
<1>3. SaturatingSub(c + 1, n + 1) = c - n  BY DEF SaturatingSub, Larger
<1>4. ASSUME NEW k \in 1 .. c - n
      PROVE  Token(s, b, p, n + 1 + k - 1) = IdealToken(h, p, n + k)
  <2>1. n + 1 + k - 1 = n + k /\ n + k \in n + 1 .. c  OBVIOUS
  <2>. QED  BY <2>1, <1>2
<1>5. RunOf(s, b, p, n, c) = IdealRun(h, p, n, c)
  BY <1>3, <1>4 DEF RunOf, Tokens, IdealRun
<1>. QED  BY <1>1, <1>5, ExtendAugmented DEF s, b

\* Every same-phase step a query fast-forwards over is already labelled: this
\* is where Horizon <= Period is needed.
LEMMA QueryLabelled ==
  ASSUME total \in Nat, NEW i \in 1 .. total, PhaseOf(i) = QueryPhase
  PROVE  i <= LabelledUpto(total)
<1>1. /\ Period \in Nat \ {0} /\ i \in Nat /\ total + 1 \in Nat /\ i < total + 1
      /\ i % Period = (total + 1) % Period
  BY ConfigAssumption DEF PhaseOf, QueryPhase
<1>2. i + Period <= total + 1
  BY <1>1, SamePhase
<1>. QED  BY <1>2, ConfigAssumption DEF LabelledUpto

\* Pruning passes neither a phase's progress nor the next return window, and
\* keeps the floor.
LEMMA PrunedBaseBound ==
  ASSUME base \in Nat \ {0}, NEW l \in [Phases -> Nat], NEW t \in Nat, base <= t + 1,
         \A p \in Phases : base <= l[p] + 1,
         t < Horizon => base = 1,
         t >= Horizon => base + Horizon <= t + 2
  PROVE  /\ PrunedBase(l, t) \in base .. t + 1
         /\ \A p \in Phases : PrunedBase(l, t) <= l[p] + 1
         /\ t < Horizon => PrunedBase(l, t) = 1
         /\ t >= Horizon => PrunedBase(l, t) + Horizon <= t + 2
<1>. DEFINE d == SafeDropUpto(l, t)
            m == MinCommitted(l)
<1>1. m \in Nat /\ \A p \in Phases : m <= l[p]  BY MinCommittedBound
<1>. HIDE DEF m
<1>2. d \in Nat /\ d <= m /\ (t < Horizon => d = 0) /\ (t >= Horizon => d + Horizon <= t + 1)
  BY <1>1, ConfigAssumption, PruneAssumption
     DEF SafeDropUpto, Smaller, SaturatingSub, Larger, m
<1>. HIDE DEF d
<1>3. PrunedBase(l, t) = IF Pruning /\ d >= base /\ d - base + 1 <= t + 1 - base
                           THEN d + 1 ELSE base
  BY DEF PrunedBase, d
<1>4. CASE Pruning /\ d >= base /\ d - base + 1 <= t + 1 - base
  <2>1. PrunedBase(l, t) = d + 1  BY <1>3, <1>4
  <2>2. \A p \in Phases : d <= l[p]  BY <1>1, <1>2
  <2>. QED  BY <1>2, <1>4, <2>1, <2>2, ConfigAssumption
<1>5. CASE ~(Pruning /\ d >= base /\ d - base + 1 <= t + 1 - base)
  <2>1. PrunedBase(l, t) = base  BY <1>3, <1>5
  <2>. QED  BY <2>1
<1>. QED  BY <1>4, <1>5

\* Pruning from the front of a function on an interval.
LEMMA FromInterval ==
  ASSUME NEW a \in Int, NEW b \in Int, NEW lo \in Int, lo >= a,
         NEW f, DOMAIN f = a .. b
  PROVE  From(lo, f) = Window(f, lo, b)
<1>1. {j \in DOMAIN f : j >= lo} = lo .. b  OBVIOUS
<1>. QED  BY <1>1 DEF From, Window

\* Recording a transition keeps the retained history a window of the trace.
LEMMA RecordedHistory ==
  ASSUME Hist, NEW x \in Transitions, NEW h, h = Append(trace, x),
         NEW t \in Nat, t = total + 1
  PROVE  /\ h \in Seq(Transitions) /\ Len(h) = t
         /\ Recorded(x) = Window(h, base, t)
<1>1. /\ trace \in Seq(Transitions) /\ Len(trace) = total /\ total \in Nat
      /\ base \in 1 .. t /\ steps = [i \in base .. total |-> trace[i]]
  BY DEF Hist, Window
<1>2. /\ h \in Seq(Transitions) /\ Len(h) = t /\ h[t] = x
      /\ \A i \in 1 .. total : h[i] = trace[i]
  BY <1>1, AppendProperties
<1>3. ASSUME NEW i \in base .. t
      PROVE  (IF i = t THEN x ELSE steps[i]) = h[i]
  <2>1. CASE i = t  BY <2>1, <1>2
  <2>2. CASE i # t
    <3>1. i \in base .. total /\ i \in 1 .. total  BY <2>2, <1>1
    <3>. QED  BY <2>2, <3>1, <1>1, <1>2
  <2>. QED  BY <2>1, <2>2
<1>. QED  BY <1>2, <1>3 DEF Recorded, Window

\* The return that a transition completes is the next one, and its window is
\* still retained.
LEMMA NextReturn ==
  ASSUME Hist, NEW t \in Nat, t = total + 1, t >= Horizon,
         NEW i \in Int, i = t + 1 - Horizon
  PROVE  /\ i \in Nat \ {0} /\ base <= i /\ i <= t
         /\ LabelledUpto(t) = i /\ LabelledUpto(total) = i - 1
         /\ DOMAIN bins = base .. i - 1
<1>1. total \in Nat /\ base \in Nat /\ (total < Horizon => base = 1)
      /\ (total >= Horizon => base + Horizon <= total + 2)
  BY DEF Hist
<1>2. i \in Nat \ {0} /\ base <= i /\ i <= t
  BY <1>1, ConfigAssumption
<1>3. LabelledUpto(t) = i /\ LabelledUpto(total) = i - 1
  BY <1>1, ConfigAssumption DEF LabelledUpto
<1>. QED  BY <1>2, <1>3 DEF Hist, TrueBins

\* The bin computed for the completed return is the true one, and earlier bins
\* stay true when the trace grows.
LEMMA LearnedBins ==
  ASSUME Hist, NEW x \in Transitions, NEW h, h = Append(trace, x),
         NEW t \in Nat, t = total + 1, t >= Horizon,
         NEW i \in Nat, i = t + 1 - Horizon,
         NEW s, s = Window(h, base, t)
  PROVE  Labelled(s, i) = TrueBins(h, base, i)
<1>1. /\ i # 0 /\ base <= i /\ base \in Nat \ {0} /\ DOMAIN bins = base .. i - 1
      /\ LabelledUpto(total) = i - 1
  <2>1. base \in Nat \ {0}  BY DEF Hist
  <2>. QED  BY <2>1, NextReturn
<1>2. RewardWindow(s, i) = RewardWindow(h, i)
  <2>1. ASSUME NEW k \in 0 .. Horizon - 1  PROVE s[i + k] = h[i + k]
    <3>1. i + k \in base .. t  BY <1>1, ConfigAssumption
    <3>. QED  BY <3>1 DEF Window
  <2>. QED  BY <2>1 DEF RewardWindow
<1>3. ASSUME NEW j \in base .. i - 1
      PROVE  bins[j] = ReturnBin(RewardWindow(h, j))
  <2>1. bins[j] = ReturnBin(RewardWindow(trace, j))  BY <1>1, <1>3 DEF Hist, TrueBins
  <2>2. \A n \in 1 .. total : h[n] = trace[n]
    BY AppendProperties DEF Hist
  <2>3. ASSUME NEW k \in 0 .. Horizon - 1  PROVE h[j + k] = trace[j + k]
    <3>1. j + k \in 1 .. total  BY <1>1, ConfigAssumption DEF Hist
    <3>. QED  BY <2>2, <3>1
  <2>. QED  BY <2>1, <2>3 DEF RewardWindow
<1>4. DOMAIN bins \cup {i} = base .. i  BY <1>1
<1>5. ASSUME NEW j \in base .. i
      PROVE  (IF j = i THEN ReturnBin(RewardWindow(s, i)) ELSE bins[j])
               = ReturnBin(RewardWindow(h, j))
  <2>1. CASE j = i  BY <2>1, <1>2
  <2>2. CASE j # i
    <3>1. j \in base .. i - 1  BY <1>1, <2>2
    <3>. QED  BY <2>2, <3>1, <1>3
  <2>. QED  BY <2>1, <2>2
<1>. QED  BY <1>4, <1>5 DEF Labelled, TrueBins

\* Pruning re-establishes the history and progress parts of the invariant.
LEMMA PruneStep ==
  ASSUME Hist, Progress, NEW h \in Seq(Transitions), NEW t \in Nat, t = total + 1, Len(h) = t,
         NEW s, s = Window(h, base, t),
         NEW b, b = TrueBins(h, base, LabelledUpto(t)),
         NEW l \in [Phases -> Nat], \A p \in Phases : base <= l[p] + 1,
         total' = t, trace' = h, MaybePruneHistory(s, b, l, t)
  PROVE  /\ Hist'
         /\ \A p \in Phases : base' <= l[p] + 1
<1>1. base \in Nat \ {0} /\ base <= t /\ total \in Nat /\ (total < Horizon => base = 1)
      /\ (total >= Horizon => base + Horizon <= total + 2)
  BY DEF Hist
<1>2. t < Horizon => base = 1  BY <1>1, ConfigAssumption
<1>3. t >= Horizon => base + Horizon <= t + 2  BY <1>1, ConfigAssumption
<1>4. PICK lo \in Nat : lo = PrunedBase(l, t)
  <2>1. base <= t + 1 /\ base \in Nat  BY <1>1
  <2>2. PrunedBase(l, t) \in base .. t + 1  BY <1>1, <1>2, <1>3, <2>1, PrunedBaseBound
  <2>. QED  BY <2>1, <2>2
<1>5. /\ lo \in base .. t + 1 /\ \A p \in Phases : lo <= l[p] + 1
      /\ t < Horizon => lo = 1
      /\ t >= Horizon => lo + Horizon <= t + 2
  BY <1>1, <1>2, <1>3, <1>4, PrunedBaseBound
<1>6. LabelledUpto(t) \in Nat  BY ConfigAssumption DEF LabelledUpto
<1>7. base' = lo /\ steps' = From(lo, s) /\ bins' = From(lo, b)
  BY <1>4 DEF MaybePruneHistory
<1>8. steps' = Window(h, lo, t)
  <2>0. DOMAIN s = base .. t  BY DEF Window
  <2>1. From(lo, s) = Window(s, lo, t)  BY <1>1, <1>5, <2>0, FromInterval
  <2>2. \A i \in lo .. t : s[i] = h[i]  BY <1>1, <1>5 DEF Window
  <2>. QED  BY <1>7, <2>1, <2>2 DEF Window
<1>9. bins' = TrueBins(h, lo, LabelledUpto(t))
  <2>1. PICK z \in Nat : z = LabelledUpto(t)  BY <1>6
  <2>0. DOMAIN b = base .. z  BY <2>1 DEF TrueBins
  <2>2. From(lo, b) = Window(b, lo, z)  BY <1>1, <1>5, <2>0, FromInterval
  <2>3. \A i \in lo .. z : b[i] = ReturnBin(RewardWindow(h, i))  BY <1>1, <1>5, <2>1 DEF TrueBins
  <2>. QED  BY <1>7, <2>1, <2>2, <2>3 DEF Window, TrueBins
<1>10. Hist'
  <2>1. lo \in 1 .. t + 1  BY <1>1, <1>5
  <2>. QED  BY <2>1, <1>5, <1>7, <1>8, <1>9 DEF Hist
<1>. QED  BY <1>5, <1>7, <1>10

-----------------------------------------------------------------------------
(* Each action preserves the invariant *)

LEMMA InitIInv == Init => IInv
<1>. SUFFICES ASSUME Init PROVE IInv  OBVIOUS
<1>1. LabelledUpto(0) = 0  BY ConfigAssumption DEF LabelledUpto
<1>2. \A p \in Phases : Augmented(<< >>, p, 0) = << >>
  BY DEF Augmented
<1>3. Hist
  BY <1>1, ConfigAssumption DEF Init, Hist, Window, TrueBins
<1>4. Progress
  BY <1>1 DEF Init, Progress
<1>5. Cond /\ Control
  BY <1>2, ConfigAssumption DEF Init, Cond, Control
<1>. QED  BY <1>3, <1>4, <1>5 DEF IInv

\* A stream that has been learned is not affected by the next transition.
LEMMA LearnedStable ==
  ASSUME Hist, Progress, NEW x \in Transitions, NEW p \in Phases
  PROVE  Augmented(Append(trace, x), p, last[p]) = Augmented(trace, p, last[p])
<1>1. trace \in Seq(Transitions) /\ Len(trace) = total /\ total \in Nat  BY DEF Hist
<1>2. last[p] \in Nat /\ last[p] <= LabelledUpto(total)  BY DEF Progress
<1>3. LabelledUpto(total) \in Nat /\ LabelledUpto(total) <= total
  BY <1>1, ConfigAssumption DEF LabelledUpto
<1>4. PICK n \in Nat : n = last[p]  BY <1>2
<1>5. n \in 0 .. Len(trace)  BY <1>1, <1>2, <1>3, <1>4
<1>6. \A i \in 1 .. n : PhaseOf(i) = p => i <= LabelledUpto(Len(trace))
  BY <1>1, <1>2, <1>3, <1>4
<1>. QED  BY <1>1, <1>4, <1>5, <1>6, AugmentedStable

LEMMA ObserveShortStep == IInv /\ (\E x \in Transitions : ObserveShort(x)) => IInv'
<1>. SUFFICES ASSUME IInv, NEW x \in Transitions, ObserveShort(x) PROVE IInv'
  OBVIOUS
<1>1. Hist /\ Progress /\ Cond /\ Control  BY DEF IInv
<1>2a. PICK t \in Nat : t = total + 1  BY <1>1 DEF Hist
<1>2b. PICK h : h = Append(trace, x)  OBVIOUS
<1>2c. PICK s : s = Recorded(x)  OBVIOUS
<1>2. t = total + 1 /\ h = Append(trace, x) /\ s = Recorded(x)  BY <1>2a, <1>2b, <1>2c
<1>3. /\ pc = "idle" /\ t < Horizon /\ total' = t /\ trace' = h /\ result' = "ok"
      /\ MaybePruneHistory(s, bins, last, t)
      /\ UNCHANGED <<last, cond, pc, arm, pushed, scratch, generic>>
  BY <1>2 DEF ObserveShort, planVars
<1>4. h \in Seq(Transitions) /\ Len(h) = t /\ s = Window(h, base, t)
  BY <1>1, <1>2, RecordedHistory
<1>5. LabelledUpto(t) = 0 /\ LabelledUpto(total) = 0 /\ base = 1
  BY <1>1, <1>2, <1>3, ConfigAssumption DEF LabelledUpto, Hist
<1>6. bins = TrueBins(h, base, LabelledUpto(t))
  BY <1>1, <1>5 DEF Hist, TrueBins
<1>7. last \in [Phases -> Nat] /\ \A p \in Phases : base <= last[p] + 1
  BY <1>1 DEF Progress
<1>8. Hist' /\ \A p \in Phases : base' <= last[p] + 1
  BY <1>1, <1>2, <1>3, <1>4, <1>6, <1>7, PruneStep
<1>9. Progress'
  BY <1>1, <1>3, <1>5, <1>8 DEF Progress
<1>10. Cond'
  <2>1. \A p \in Phases : Augmented(h, p, last[p]) = Augmented(trace, p, last[p])
    BY <1>1, <1>2, LearnedStable
  <2>2. cond = [p \in Phases |-> Augmented(trace, p, last[p])]
    BY <1>1, <1>3 DEF Cond
  <2>. QED  BY <2>1, <2>2, <1>3 DEF Cond
<1>11. Control'  BY <1>1, <1>3 DEF Control
<1>. QED  BY <1>8, <1>9, <1>10, <1>11 DEF IInv

\* Training the phase of the completed return brings its predictor from its
\* old stream to the stream through that return, without an error.
LEMMA AdvanceExact ==
  ASSUME Hist, Progress, Cond, pc = "idle",
         NEW h, \A p \in Phases : Augmented(h, p, last[p]) = Augmented(trace, p, last[p]),
         NEW t \in Nat, NEW i \in Nat, base <= i, i <= t, LabelledUpto(total) < i,
         AdvancePhase(Window(h, base, t), TrueBins(h, base, i), PhaseOf(i), i)
  PROVE  /\ PhaseOf(i) \in Phases
         /\ result' = "ok"
         /\ last' = [last EXCEPT ![PhaseOf(i)] = i]
         /\ cond' = [cond EXCEPT ![PhaseOf(i)] = Augmented(h, PhaseOf(i), i)]
<1>. DEFINE s == Window(h, base, t)
            b == TrueBins(h, base, i)
<1>2. PICK q \in Phases : q = PhaseOf(i)  BY PhaseInPhases
<1>3. PICK n \in Nat : n = last[q]  BY DEF Progress
<1>4. LabelledUpto(total) \in Nat  BY ConfigAssumption DEF LabelledUpto, Hist
<1>5. n < i /\ base <= n + 1 /\ base \in Nat
  BY <1>2, <1>3, <1>4 DEF Progress, Hist
<1>7. ResumeAt(last[q]) = n + 1
  BY <1>3, <1>5 DEF ResumeAt, Larger
<1>8. Known(b, q, n, i) /\ Joined(Augmented(h, q, n), RunOf(s, b, q, n, i)) = Augmented(h, q, i)
  <2>1. n <= i /\ base <= n + 1 /\ Due(q, n, i, i)  BY <1>5 DEF Due
  <2>. QED  BY <1>5, <2>1, Continue
<1>. HIDE DEF s, b
<1>10. cond[q] = Augmented(h, q, n)
  <2>1. cond[q] = Augmented(trace, q, last[q])  BY DEF Cond
  <2>. QED  BY <2>1, <1>3
<1>11. cond[q] \o RunOf(s, b, q, n, i) = Augmented(h, q, i)
  BY <1>8, <1>10 DEF Joined
<1>12. ~(i <= last[q])  BY <1>3, <1>5
<1>13. /\ cond' = [cond EXCEPT ![q] = @ \o RunOf(s, b, q, n, i)]
       /\ last' = [last EXCEPT ![q] = i]
       /\ result' = "ok"
  BY <1>2, <1>7, <1>8, <1>12 DEF AdvancePhase, Known, RunOf, s, b
<1>. QED  BY <1>2, <1>11, <1>13

\* What one learning transition does: no error, one phase trained through the
\* completed return, the other phases untouched, and then the pruning.
LEMMA LearnEffect ==
  ASSUME IInv, NEW x \in Transitions, ObserveAndLearn(x)
  PROVE  \E t \in Nat, i \in Nat \ {0}, h \in Seq(Transitions) :
           /\ t = total + 1 /\ h = Append(trace, x)
           /\ pc = "idle" /\ i <= t /\ base <= i
           /\ LabelledUpto(t) = i /\ LabelledUpto(total) = i - 1
           /\ Len(h) = t
           /\ total' = t /\ trace' = h /\ result' = "ok"
           /\ PhaseOf(i) \in Phases
           /\ last' = [last EXCEPT ![PhaseOf(i)] = i]
           /\ cond' = [cond EXCEPT ![PhaseOf(i)] = Augmented(h, PhaseOf(i), i)]
           /\ MaybePruneHistory(Window(h, base, t), TrueBins(h, base, i), last', t)
           /\ UNCHANGED <<pc, arm, pushed, scratch, generic>>
<1>1. Hist /\ Progress /\ Cond /\ Control  BY DEF IInv
<1>2a. PICK t \in Nat : t = total + 1  BY <1>1 DEF Hist
<1>2b. PICK h : h = Append(trace, x)  OBVIOUS
<1>2. t = total + 1 /\ h = Append(trace, x)  BY <1>2a, <1>2b
<1>3. pc = "idle" /\ t >= Horizon  BY <1>2 DEF ObserveAndLearn
<1>4. PICK i \in Nat : i = t + 1 - Horizon  BY <1>2, <1>3, ConfigAssumption
<1>5. PICK s : s = Recorded(x)  OBVIOUS
<1>7. PICK b : b = Labelled(s, i)  OBVIOUS
<1>8. h \in Seq(Transitions) /\ Len(h) = t /\ s = Window(h, base, t)
  BY <1>1, <1>2, <1>5, RecordedHistory
<1>9. b = TrueBins(h, base, i)
  BY <1>1, <1>2, <1>3, <1>4, <1>7, <1>8, LearnedBins
<1>10. /\ i \in Nat \ {0} /\ base <= i /\ i <= t
       /\ LabelledUpto(t) = i /\ LabelledUpto(total) = i - 1
  BY <1>1, <1>2, <1>3, <1>4, NextReturn
<1>11. ~(i < base)  BY <1>1, <1>10 DEF Hist
<1>12. /\ total' = t /\ trace' = h
       /\ AdvancePhase(s, b, PhaseOf(i), i)
       /\ IF result' = "ok" THEN MaybePruneHistory(s, b, last', t)
          ELSE base' = base /\ steps' = s /\ bins' = b
       /\ UNCHANGED <<pc, arm, pushed, scratch, generic>>
  BY <1>2, <1>4, <1>5, <1>7, <1>11 DEF ObserveAndLearn
<1>13. /\ PhaseOf(i) \in Phases
       /\ result' = "ok"
       /\ last' = [last EXCEPT ![PhaseOf(i)] = i]
       /\ cond' = [cond EXCEPT ![PhaseOf(i)] = Augmented(h, PhaseOf(i), i)]
  <2>1. \A p \in Phases : Augmented(h, p, last[p]) = Augmented(trace, p, last[p])
    BY <1>1, <1>2, LearnedStable
  <2>2. LabelledUpto(total) < i  BY <1>10
  <2>3. AdvancePhase(Window(h, base, t), TrueBins(h, base, i), PhaseOf(i), i)
    BY <1>8, <1>9, <1>12
  <2>4. t \in Nat /\ i \in Nat /\ base <= i /\ i <= t  BY <1>2a, <1>10
  <2>. QED  BY <1>1, <1>3, <2>1, <2>2, <2>3, <2>4, AdvanceExact
<1>14. MaybePruneHistory(Window(h, base, t), TrueBins(h, base, i), last', t)
  BY <1>8, <1>9, <1>12, <1>13
<1>. QED  BY <1>2, <1>3, <1>8, <1>10, <1>12, <1>13, <1>14

LEMMA ObserveAndLearnStep == IInv /\ (\E x \in Transitions : ObserveAndLearn(x)) => IInv'
<1>. SUFFICES ASSUME IInv, NEW x \in Transitions, ObserveAndLearn(x) PROVE IInv'
  OBVIOUS
<1>1. Hist /\ Progress /\ Cond /\ Control  BY DEF IInv
<1>3. PICK t \in Nat, i \in Nat \ {0}, h \in Seq(Transitions) :
        /\ t = total + 1 /\ h = Append(trace, x)
        /\ pc = "idle" /\ i <= t /\ base <= i
        /\ LabelledUpto(t) = i /\ LabelledUpto(total) = i - 1
        /\ Len(h) = t
        /\ total' = t /\ trace' = h /\ result' = "ok"
        /\ PhaseOf(i) \in Phases
        /\ last' = [last EXCEPT ![PhaseOf(i)] = i]
        /\ cond' = [cond EXCEPT ![PhaseOf(i)] = Augmented(h, PhaseOf(i), i)]
        /\ MaybePruneHistory(Window(h, base, t), TrueBins(h, base, i), last', t)
        /\ UNCHANGED <<pc, arm, pushed, scratch, generic>>
  BY LearnEffect
<1>2. t = total + 1 /\ h = Append(trace, x) /\ t \in Nat /\ i \in Nat /\ base \in Nat /\ base <= i
  BY <1>1, <1>3 DEF Hist
<1>14. PICK q, l :
         /\ q \in Phases /\ q = PhaseOf(i) /\ l = [last EXCEPT ![q] = i]
  BY <1>3
<1>15. last' = l  BY <1>3, <1>14
<1>16. /\ l \in [Phases -> Nat] /\ l[q] = i
       /\ \A p \in Phases : p # q => l[p] = last[p]
       /\ \A p \in Phases : last[p] <= l[p]
       /\ \A p \in Phases : base <= last[p] + 1 /\ last[p] <= i - 1 /\ last[p] \in Nat
  BY <1>1, <1>3, <1>14 DEF Progress
<1>17. \A p \in Phases : base <= l[p] + 1 /\ l[p] <= i
  <2>1. ASSUME NEW p \in Phases  PROVE base <= l[p] + 1 /\ l[p] <= i
    <3>1. CASE p = q  BY <3>1, <1>2, <1>16
    <3>2. CASE p # q  BY <3>2, <1>2, <1>16
    <3>. QED  BY <3>1, <3>2
  <2>. QED  BY <2>1
<1>18. Hist' /\ \A p \in Phases : base' <= l[p] + 1
  <2>1. MaybePruneHistory(Window(h, base, t), TrueBins(h, base, LabelledUpto(t)), l, t)
    BY <1>3, <1>15
  <2>. QED  BY <1>1, <1>2, <1>3, <1>16, <1>17, <2>1, PruneStep
<1>19. Progress'
  <2>1. \A p \in Phases : \A j \in 1 .. i : PhaseOf(j) = p => j <= l[p]
    <3>1. ASSUME NEW p \in Phases, NEW j \in 1 .. i, PhaseOf(j) = p  PROVE j <= l[p]
      <4>1. CASE j = i  BY <4>1, <3>1, <1>14, <1>16
      <4>2. CASE j # i
        <5>1. j \in 1 .. i - 1  BY <4>2, <1>3
        <5>2. j <= last[p]  BY <5>1, <3>1, <1>1, <1>3 DEF Progress
        <5>. QED  BY <5>2, <1>16
      <4>. QED  BY <4>1, <4>2
    <3>. QED  BY <3>1
  <2>2. LabelledUpto(total)' = i  BY <1>3
  <2>. QED  BY <2>1, <2>2, <1>15, <1>16, <1>17, <1>18 DEF Progress
<1>20. Cond'
  <2>1. \A p \in Phases : Augmented(h, p, last[p]) = Augmented(trace, p, last[p])
    BY <1>1, <1>2, LearnedStable
  <2>2. cond = [p \in Phases |-> Augmented(trace, p, last[p])]
    BY <1>1, <1>3 DEF Cond
  <2>3. cond' = [cond EXCEPT ![q] = Augmented(h, q, i)]  BY <1>3, <1>14
  <2>4. cond' = [p \in Phases |-> Augmented(h, p, l[p])]
    <3>1. DOMAIN cond = Phases  BY <2>2
    <3>2. ASSUME NEW p \in Phases  PROVE cond'[p] = Augmented(h, p, l[p])
      <4>1. CASE p = q  BY <4>1, <2>3, <3>1, <1>16
      <4>2. CASE p # q
        <5>1. cond'[p] = cond[p] /\ l[p] = last[p]  BY <4>2, <2>3, <3>1, <1>16
        <5>. QED  BY <5>1, <2>1, <2>2
      <4>. QED  BY <4>1, <4>2
    <3>. QED  BY <2>3, <3>1, <3>2
  <2>5. pc' = "idle"  BY <1>3
  <2>. QED  BY <2>4, <2>5, <1>3, <1>15 DEF Cond
<1>21. Control'  BY <1>1, <1>3 DEF Control
<1>. QED  BY <1>18, <1>19, <1>20, <1>21 DEF IInv

\* What a query finds if it fast-forwards now.
LEMMA FastForwardTokens ==
  ASSUME Hist, Progress, NEW q, q = QueryPhase
  PROVE  /\ q \in Phases
         /\ last[q] \in 0 .. total
         /\ Unlabelled(bins, q, ResumeAt(last[q]), total) = {}
         /\ Len(Tokens(steps, bins, q, ResumeAt(last[q]), total)) = total - last[q]
         /\ Augmented(trace, q, last[q]) \o Tokens(steps, bins, q, ResumeAt(last[q]), total)
              = Augmented(trace, q, total)
<1>1. total \in Nat /\ total + 1 \in Nat /\ LabelledUpto(total) \in Nat /\ LabelledUpto(total) <= total
  BY ConfigAssumption DEF Hist, LabelledUpto
<1>2. q \in Phases  BY <1>1, PhaseInPhases DEF QueryPhase
<1>3. PICK n \in Nat : n = last[q]
  BY <1>2 DEF Progress
<1>4. n <= LabelledUpto(total) /\ base <= n + 1
  BY <1>2, <1>3 DEF Progress
<1>6. ResumeAt(last[q]) = n + 1
  BY <1>3, <1>4 DEF ResumeAt, Larger, Hist
<1>7. PICK z \in Nat : z = LabelledUpto(total)  BY <1>1
<1>8. /\ base \in Nat /\ base <= n + 1 /\ n <= total
      /\ steps = Window(trace, base, total) /\ bins = TrueBins(trace, base, z)
  BY <1>1, <1>4, <1>7 DEF Hist
<1>9. Due(q, n, total, z)
  <2>1. \A j \in n + 1 .. total : j \in 1 .. total  BY <1>1
  <2>. QED  BY <1>1, <1>7, <2>1, QueryLabelled DEF Due
<1>10. /\ Known(bins, q, n, total)
       /\ Len(RunOf(steps, bins, q, n, total)) = total - n
       /\ Joined(Augmented(trace, q, n), RunOf(steps, bins, q, n, total))
            = Augmented(trace, q, total)
  <2>1. total \in Nat /\ n \in Nat /\ base \in Nat /\ z \in Nat /\ n <= total /\ base <= n + 1
    BY <1>1, <1>3, <1>7, <1>8
  <2>2. /\ Known(TrueBins(trace, base, z), q, n, total)
        /\ Len(RunOf(Window(trace, base, total), TrueBins(trace, base, z), q, n, total)) = total - n
        /\ Joined(Augmented(trace, q, n),
                  RunOf(Window(trace, base, total), TrueBins(trace, base, z), q, n, total))
             = Augmented(trace, q, total)
    BY <2>1, <1>9, Continue
  <2>. QED  BY <1>8, <2>2
<1>. QED  BY <1>1, <1>2, <1>3, <1>6, <1>8, <1>10 DEF Joined, Known, RunOf

LEMMA FastForwardStep == IInv /\ FastForward => IInv'
<1>. SUFFICES ASSUME IInv, FastForward PROVE IInv'  OBVIOUS
<1>. DEFINE q == QueryPhase
            ff == Tokens(steps, bins, q, ResumeAt(last[q]), total)
<1>1. /\ q \in Phases /\ last[q] \in 0 .. total
      /\ Unlabelled(bins, q, ResumeAt(last[q]), total) = {}
      /\ Len(ff) = total - last[q]
      /\ Augmented(trace, q, last[q]) \o ff = Augmented(trace, q, total)
  BY FastForwardTokens DEF IInv
<1>3. pc = "idle" /\ cond[q] = Augmented(trace, q, last[q])
  BY <1>1 DEF FastForward, IInv, Cond
<1>4. /\ pc' = "ready" /\ arm' = 0 /\ UNCHANGED result
      /\ IF generic THEN scratch' = cond[q] \o ff /\ UNCHANGED <<cond, pushed>>
         ELSE /\ cond' = [cond EXCEPT ![q] = @ \o ff]
              /\ pushed' = Len(ff) /\ UNCHANGED scratch
      /\ UNCHANGED <<generic, total, base, steps, bins, last, trace>>
  BY <1>1 DEF FastForward
<1>5. Hist' /\ Progress'
  BY <1>4 DEF IInv, Hist, Progress
<1>6. QueryPhase' = q /\ Working' = Augmented(trace, q, total)
  BY <1>4 DEF QueryPhase, Working
<1>. HIDE DEF ff, q
<1>7. Cond'
  <2>1. CASE generic
    <3>1. scratch' = Augmented(trace, q, total)  BY <2>1, <1>1, <1>3, <1>4
    <3>2. cond' = cond /\ cond = [p \in Phases |-> Augmented(trace, p, last[p])]
      BY <2>1, <1>3, <1>4 DEF IInv, Cond
    <3>. QED  BY <2>1, <3>1, <3>2, <1>4, <1>6 DEF Cond
  <2>2. CASE ~generic
    <3>1. cond' = [cond EXCEPT ![q] = Augmented(trace, q, total)]
      BY <2>2, <1>1, <1>3, <1>4
    <3>2. cond = [p \in Phases |-> Augmented(trace, p, last[p])]
      BY <1>3 DEF IInv, Cond
    <3>3. pushed' = total - last[q]  BY <2>2, <1>1, <1>4
    <3>. QED  BY <2>2, <3>1, <3>2, <3>3, <1>4, <1>6 DEF Cond
  <2>. QED  BY <2>1, <2>2
<1>8. Control'
  <2>1. pushed' \in Nat
    <3>1. total - last[q] \in Nat  BY <1>1 DEF IInv, Hist
    <3>. QED  BY <3>1, <1>1, <1>4 DEF IInv, Control
  <2>. QED  BY <2>1, <1>4, ConfigAssumption DEF IInv, Control
<1>. QED  BY <1>5, <1>7, <1>8 DEF IInv

LEMMA RejectStep == IInv /\ Reject => IInv'
<1>. SUFFICES ASSUME IInv, Reject PROVE IInv'  OBVIOUS
<1>1. UNCHANGED <<generic, total, base, steps, bins, last, cond, pc, arm, pushed, scratch, trace>>
      /\ result' = "rejected"
  BY DEF Reject, planVars
<1>2. Hist' /\ Progress'  BY <1>1 DEF IInv, Hist, Progress
<1>3. QueryPhase' = QueryPhase /\ Working' = Working
  BY <1>1 DEF QueryPhase, Working
<1>4. Cond'  BY <1>1, <1>3 DEF IInv, Cond
<1>5. Control'  BY <1>1 DEF IInv, Control
<1>. QED  BY <1>2, <1>4, <1>5 DEF IInv

\* A running query reads and extends what it has built.
LEMMA QueriedIsWorking ==
  ASSUME IInv, pc # "idle"
  PROVE  QueryPhase \in Phases /\ Queried = Working
<1>1. QueryPhase \in Phases
  <2>1. total + 1 \in Nat  BY DEF IInv, Hist
  <2>. QED  BY <2>1, PhaseInPhases DEF QueryPhase
<1>2. CASE generic  BY <1>1, <1>2 DEF IInv, Cond, Queried
<1>3. CASE ~generic  BY <1>1, <1>3 DEF IInv, Cond, Queried
<1>. QED  BY <1>1, <1>2, <1>3

\* Between two steps of a query only the borrowed predictor or clone changes.
LEMMA QueryStep ==
  ASSUME IInv, pc # "idle", pc' \in {"ready", "query"},
         UNCHANGED <<generic, total, base, steps, bins, last, pushed, result, trace>>,
         arm' \in 0 .. NumActions, pc' = "query" => arm' < NumActions,
         Requery(Working')
  PROVE  IInv'
<1>1. QueryPhase \in Phases /\ QueryPhase' = QueryPhase
  BY QueriedIsWorking DEF QueryPhase
<1>2. Hist' /\ Progress'  BY DEF IInv, Hist, Progress
<1>3. Cond'
  <2>1. CASE generic  BY <2>1, <1>1 DEF IInv, Cond, Requery
  <2>2. CASE ~generic
    <3>1. cond' = [cond EXCEPT ![QueryPhase] = Working']  BY <2>2 DEF Requery
    <3>2. cond = [p \in Phases |-> IF p = QueryPhase THEN Working
                                    ELSE Augmented(trace, p, last[p])]
      BY <2>2 DEF IInv, Cond
    <3>3. cond' = [p \in Phases |-> IF p = QueryPhase THEN Working'
                                     ELSE Augmented(trace, p, last[p])]
      BY <3>1, <3>2
    <3>. QED  BY <2>2, <3>3, <1>1 DEF IInv, Cond
  <2>. QED  BY <2>1, <2>2
<1>4. Control'  BY DEF IInv, Control
<1>. QED  BY <1>2, <1>3, <1>4 DEF IInv

LEMMA PushArmStep == IInv /\ PushArm => IInv'
<1>. SUFFICES ASSUME IInv, PushArm PROVE IInv'  OBVIOUS
<1>1. /\ pc = "ready" /\ arm < NumActions /\ pc' = "query"
      /\ Requery(Append(Queried, ArmToken(arm)))
      /\ UNCHANGED <<generic, total, base, steps, bins, last, arm, pushed, result, trace>>
  BY DEF PushArm
<1>2. Working' = Append(Queried, ArmToken(arm))
  <2>1. Queried = Augmented(trace, QueryPhase, total)
    BY <1>1, QueriedIsWorking DEF Working
  <2>2. QueryPhase' = QueryPhase  BY <1>1 DEF QueryPhase
  <2>. QED  BY <1>1, <2>1, <2>2 DEF Working
<1>3. arm \in 0 .. NumActions  BY DEF IInv, Control
<1>. QED  BY <1>1, <1>2, <1>3, QueryStep

LEMMA PopArmStep == IInv /\ PopArm => IInv'
<1>. SUFFICES ASSUME IInv, PopArm PROVE IInv'  OBVIOUS
<1>1. /\ pc = "query" /\ pc' = "ready" /\ arm' = arm + 1
      /\ Requery(Popped(Queried, 1))
      /\ UNCHANGED <<generic, total, base, steps, bins, last, pushed, result, trace>>
  BY DEF PopArm
<1>2. Working' = Popped(Queried, 1)
  <2>1. Queried = Append(Augmented(trace, QueryPhase, total), ArmToken(arm))
    BY <1>1, QueriedIsWorking DEF Working
  <2>2. QueryPhase' = QueryPhase  BY <1>1 DEF QueryPhase
  <2>3. /\ Augmented(trace, QueryPhase, total) \in Seq(TokenSet(trace, QueryPhase))
        /\ ArmToken(arm) \in TokenSet(trace, QueryPhase)
    <3>1. total \in Nat /\ arm \in Nat  BY ConfigAssumption DEF IInv, Hist, Control
    <3>2. ArmToken(arm) \in TokenSet(trace, QueryPhase)  BY <3>1 DEF TokenSet
    <3>. QED  BY <3>1, <3>2, AugmentedIsSeq
  <2>4. Popped(Queried, 1) = Augmented(trace, QueryPhase, total)
    BY <2>1, <2>3, PopAppended
  <2>. QED  BY <1>1, <2>2, <2>4 DEF Working
<1>3. arm' \in 0 .. NumActions
  BY <1>1, ConfigAssumption DEF IInv, Control
<1>. QED  BY <1>1, <1>2, <1>3, QueryStep

LEMMA FinishQueryStep == IInv /\ FinishQuery => IInv'
<1>. SUFFICES ASSUME IInv, FinishQuery PROVE IInv'  OBVIOUS
<1>1. /\ pc = "ready" /\ pc' = "idle" /\ arm' = 0 /\ pushed' = 0
      /\ Requery(IF generic THEN << >> ELSE Popped(Queried, pushed))
      /\ UNCHANGED <<generic, total, base, steps, bins, last, result, trace>>
  BY DEF FinishQuery
<1>2. PICK q \in Phases : q = QueryPhase  BY <1>1, QueriedIsWorking
<1>3. Hist' /\ Progress'  BY <1>1 DEF IInv, Hist, Progress
<1>4. Cond'
  <2>1. cond' = [p \in Phases |-> Augmented(trace, p, last[p])]
    <3>1. CASE generic  BY <3>1, <1>1 DEF IInv, Cond, Requery
    <3>2. CASE ~generic
      <4>1. Queried = Augmented(trace, q, total)
        BY <1>1, <1>2, QueriedIsWorking DEF Working
      <4>2. PICK n \in Nat, k \in Nat : n = total /\ k = pushed /\ k <= n /\ last[q] = n - k
        <5>1. total \in Nat /\ last[q] \in Nat /\ last[q] <= LabelledUpto(total)
          BY <1>2 DEF IInv, Hist, Progress
        <5>2. LabelledUpto(total) <= total  BY <5>1, ConfigAssumption DEF LabelledUpto
        <5>3. pushed = total - last[q]  BY <3>2, <1>1, <1>2 DEF IInv, Cond
        <5>. QED  BY <5>1, <5>2, <5>3, ConfigAssumption DEF LabelledUpto
      <4>3. Popped(Queried, pushed) = Augmented(trace, q, last[q])
        BY <4>1, <4>2, PopAugmented
      <4>4. cond' = [cond EXCEPT ![q] = Augmented(trace, q, last[q])]
        BY <3>2, <1>1, <1>2, <4>3 DEF Requery
      <4>5. cond = [p \in Phases |-> IF p = q THEN Working ELSE Augmented(trace, p, last[p])]
        BY <3>2, <1>1, <1>2 DEF IInv, Cond
      <4>. QED  BY <4>4, <4>5
    <3>. QED  BY <3>1, <3>2
  <2>. QED  BY <2>1, <1>1 DEF Cond
<1>5. Control'  BY <1>1, ConfigAssumption DEF IInv, Control
<1>. QED  BY <1>3, <1>4, <1>5 DEF IInv

LEMMA StutterStep == IInv /\ UNCHANGED vars => IInv'
<1>. SUFFICES ASSUME IInv, UNCHANGED vars PROVE IInv'  OBVIOUS
<1>1. UNCHANGED <<generic, total, base, steps, bins, last, cond, pc, arm, pushed, scratch, result, trace>>
  BY DEF vars
<1>2. Hist' /\ Progress' /\ Control'
  BY <1>1 DEF IInv, Hist, Progress, Control
<1>3. QueryPhase' = QueryPhase /\ Working' = Working
  BY <1>1 DEF QueryPhase, Working
<1>4. Cond'  BY <1>1, <1>3 DEF IInv, Cond
<1>. QED  BY <1>2, <1>4 DEF IInv

-----------------------------------------------------------------------------
(* Theorems *)

\* The inductive invariant holds in every reachable state of the agent.
THEOREM Inductive == Spec => []IInv
<1>1. Init => IInv  BY InitIInv
<1>2. IInv /\ [Next]_vars => IInv'
  <2>. SUFFICES ASSUME IInv, [Next]_vars PROVE IInv'  OBVIOUS
  <2>1. CASE \E x \in Transitions : ObserveShort(x)  BY <2>1, ObserveShortStep
  <2>2. CASE \E x \in Transitions : ObserveAndLearn(x)  BY <2>2, ObserveAndLearnStep
  <2>3. CASE Reject  BY <2>3, RejectStep
  <2>4. CASE FastForward  BY <2>4, FastForwardStep
  <2>5. CASE PushArm  BY <2>5, PushArmStep
  <2>6. CASE PopArm  BY <2>6, PopArmStep
  <2>7. CASE FinishQuery  BY <2>7, FinishQueryStep
  <2>8. CASE UNCHANGED vars  BY <2>8, StutterStep
  <2>. QED  BY <2>1, <2>2, <2>3, <2>4, <2>5, <2>6, <2>7, <2>8 DEF Next
<1>. QED  BY <1>1, <1>2, PTL DEF Spec

\* The retained history, the bins and the rest of the state keep their types,
\* whatever is pruned.
THEOREM TypeCorrect == Spec => []TypeOK
<1>1. IInv => TypeOK
  <2>. SUFFICES ASSUME IInv PROVE TypeOK  OBVIOUS
  <2>1. total \in Nat /\ base \in 1 .. total + 1 /\ trace \in Seq(Transitions) /\ Len(trace) = total
    BY DEF IInv, Hist
  <2>2. steps \in [base .. total -> Transitions]
    <3>1. ASSUME NEW i \in base .. total  PROVE trace[i] \in Transitions
      <4>1. i \in 1 .. Len(trace)  BY <2>1
      <4>. QED  BY <4>1, <2>1, ElementOfSeq
    <3>. QED  BY <3>1 DEF IInv, Hist, Window
  <2>3. DOMAIN bins \subseteq base .. total
    <3>1. LabelledUpto(total) <= total /\ LabelledUpto(total) \in Nat
      BY <2>1, ConfigAssumption DEF LabelledUpto
    <3>2. DOMAIN bins = base .. LabelledUpto(total)  BY DEF IInv, Hist, TrueBins
    <3>. QED  BY <2>1, <3>1, <3>2
  <2>4. last \in [Phases -> Nat] /\ DOMAIN cond = Phases
    BY DEF IInv, Progress, Cond
  <2>. QED  BY <2>1, <2>2, <2>3, <2>4 DEF IInv, Control, TypeOK
<1>. QED  BY <1>1, Inductive, PTL

\* Between calls every phase predictor is conditioned on exactly its augmented
\* stream: pruning and borrowing leave no trace.
THEOREM StreamsAreExact == Spec => []StreamsExact
<1>1. IInv => StreamsExact
  BY DEF IInv, Progress, Cond, StreamsExact
<1>. QED  BY <1>1, Inductive, PTL

\* A candidate action is evaluated on the complete augmented history, because
\* a return horizon of at most one period labels every same-phase step in time.
THEOREM QueriesAreExact == Spec => []QueryExact
<1>1. IInv => QueryExact
  <2>. SUFFICES ASSUME IInv, pc = "query" PROVE Queried = Append(Augmented(trace, PhaseOf(total + 1), total), ArmToken(arm))
    BY DEF QueryExact
  <2>. QED  BY QueriedIsWorking DEF Working, QueryPhase
<1>. QED  BY <1>1, Inductive, PTL

\* No sequence of valid calls meets a missing bin or a pruned step.
THEOREM AgentNeverFails == Spec => []NeverFails
<1>1. IInv => NeverFails
  BY DEF IInv, Control, NeverFails
<1>. QED  BY <1>1, Inductive, PTL

\* Pruning keeps steps and bins aligned with their global indices.
THEOREM HistoryIsExact == Spec => []HistoryExact
<1>1. IInv => HistoryExact
  BY DEF IInv, Hist, Window, TrueBins, HistoryExact
<1>. QED  BY <1>1, Inductive, PTL

-----------------------------------------------------------------------------
(* Retention *)

LEMMA RemainderIs ==
  ASSUME NEW N \in Nat \ {0}, NEW k \in Int, NEW s \in 0 .. N - 1, NEW i \in Nat, i = N * k + s
  PROVE  i % N = s
<1>1. i = N * (i \div N) + (i % N) /\ i \div N \in Int /\ i % N \in 0 .. N - 1
  OBVIOUS
<1>2. PICK q \in Int, r \in 0 .. N - 1 : q = i \div N /\ r = i % N  BY <1>1
<1>3. N * q - N * k = s - r  BY <1>1, <1>2
<1>4. N * q - N * k = N * (q - k)  BY SMT
<1>5. q - k = 0
  <2>1. q - k < 1
    <3>1. SUFFICES ASSUME q - k >= 1  PROVE FALSE  OBVIOUS
    <3>2. N * (q - k) >= N  BY <3>1, SMT
    <3>. QED  BY <3>2, <1>3, <1>4
  <2>2. k - q < 1
    <3>1. SUFFICES ASSUME k - q >= 1  PROVE FALSE  OBVIOUS
    <3>2. N * (k - q) >= N /\ N * (k - q) = - (N * (q - k))  BY <3>1, SMT
    <3>. QED  BY <3>2, <1>3, <1>4
  <2>. QED  BY <2>1, <2>2
<1>6. N * (q - k) = 0  BY <1>5, SMT
<1>. QED  BY <1>2, <1>3, <1>4, <1>6

\* Every phase has a step among the last Period labelled ones.
LEMMA PhaseAmong ==
  ASSUME NEW p \in Phases, NEW z \in Nat, z >= Period
  PROVE  \E i \in 1 .. z : PhaseOf(i) = p /\ i + Period > z
<1>0. p \in 0 .. Period - 1 /\ Period \in Nat \ {0}  BY ConfigAssumption DEF Phases
<1>1. PICK d \in Nat : d = z - p  BY <1>0
<1>2. PICK k \in Int, r \in 0 .. Period - 1 : d = Period * k + r
  <2>1. /\ d = Period * (d \div Period) + (d % Period)
        /\ d \div Period \in Int /\ d % Period \in 0 .. Period - 1
    BY <1>0
  <2>. QED  BY <2>1
<1>3. PICK i \in Int : i = z - r  BY <1>0
<1>4. i = Period * k + p  BY <1>0, <1>1, <1>2, <1>3
<1>5. i \in 1 .. z /\ i + Period > z  BY <1>0, <1>3
<1>6. PhaseOf(i) = p  BY <1>0, <1>4, <1>5, RemainderIs DEF PhaseOf
<1>. QED  BY <1>5, <1>6

\* What pruning leaves: no phase lags by a period, so nothing but the floor keeps
\* more than a phase round and a return window.
LEMMA PrunedRetention ==
  ASSUME base \in Nat \ {0}, NEW l \in [Phases -> Nat], NEW t \in Nat, base <= t + 1,
         t + 1 - base >= Smaller(t, KeepSteps),
         \A p \in Phases : \A i \in 1 .. LabelledUpto(t) : PhaseOf(i) = p => i <= l[p]
  PROVE  LET b == PrunedBase(l, t)
         IN  /\ t + 1 - b >= Smaller(t, KeepSteps)
             /\ Pruning => t + 1 - b <= Larger(KeepSteps, Period + Horizon - 2)
<1>. DEFINE z == LabelledUpto(t)
            m == MinCommitted(l)
            d == SafeDropUpto(l, t)
            b == PrunedBase(l, t)
<1>0. /\ Period \in Nat \ {0} /\ Horizon \in Nat \ {0} /\ Horizon <= Period
      /\ KeepSteps \in Nat /\ Pruning \in BOOLEAN
  BY ConfigAssumption, PruneAssumption
<1>1. z \in Nat /\ (t < Horizon => z = 0) /\ (t >= Horizon => z = t + 1 - Horizon)
  BY <1>0 DEF LabelledUpto
<1>2. m \in Nat /\ m + Period > z
  <2>1. m \in Nat  BY MinCommittedBound
  <2>2. CASE z < Period  BY <2>1, <2>2, <1>0, <1>1
  <2>3. CASE z >= Period
    <3>1. PICK p \in Phases : m = l[p]  BY MinCommittedIsOne
    <3>2. PICK i \in 1 .. z : PhaseOf(i) = p /\ i + Period > z
      BY <1>1, <2>3, PhaseAmong
    <3>3. i <= l[p]  BY <3>2
    <3>. HIDE DEF m, z
    <3>. QED  BY <3>1, <3>2, <3>3, <2>1, <1>0, <1>1
  <2>. QED  BY <2>2, <2>3, <1>0, <1>1
<1>. HIDE DEF m
<1>3. /\ d = Smaller(Smaller(m, z), SaturatingSub(t, KeepSteps))
  BY <1>0, <1>1 DEF SafeDropUpto, SaturatingSub, Larger, Smaller, m
<1>. HIDE DEF z, d
<1>4. d \in Nat /\ d <= t /\ (d = 0 \/ d + KeepSteps <= t)
  BY <1>0, <1>1, <1>2, <1>3 DEF SaturatingSub, Larger, Smaller
<1>5. t - d <= Larger(KeepSteps, Period + Horizon - 2)
  BY <1>0, <1>1, <1>2, <1>3 DEF SaturatingSub, Larger, Smaller
<1>6. b = IF Pruning /\ d >= base /\ d - base + 1 <= t + 1 - base THEN d + 1 ELSE base
  BY DEF PrunedBase, d
<1>. HIDE DEF b
<1>7. b = IF Pruning /\ d >= base THEN d + 1 ELSE base  BY <1>4, <1>6
<1>8. t + 1 - b >= Smaller(t, KeepSteps)
  BY <1>0, <1>4, <1>7 DEF Smaller
<1>9. Pruning => t + 1 - b <= Larger(KeepSteps, Period + Horizon - 2)
  BY <1>0, <1>4, <1>5, <1>7 DEF Larger
<1>. QED  BY <1>8, <1>9 DEF b

LEMMA ObserveRetains ==
  ASSUME IInv, IInv', RetentionBounded,
         NEW x \in Transitions, ObserveShort(x) \/ ObserveAndLearn(x)
  PROVE  RetentionBounded'
<1>. DEFINE t == total + 1
<1>1. total' = t /\ base' = PrunedBase(last', t)
  <2>1. CASE ObserveShort(x)  BY <2>1 DEF ObserveShort, MaybePruneHistory
  <2>2. CASE ObserveAndLearn(x)
    <3>1. result' \notin {"panic", "MissingReturnBin"}  BY DEF IInv, Control
    <3>2. total' = t  BY <2>2 DEF ObserveAndLearn
    <3>3. CASE t + 1 - Horizon < base
      <4>1. result' = "panic"  BY <2>2, <3>3 DEF ObserveAndLearn
      <4>. QED  BY <3>1, <4>1
    <3>4. CASE ~ (t + 1 - Horizon < base)
      <4>1. result' \in {"ok", "MissingReturnBin"}
        BY <2>2, <3>4 DEF ObserveAndLearn, AdvancePhase
      <4>2. result' = "ok"  BY <3>1, <4>1
      <4>3. base' = PrunedBase(last', t)
        BY <2>2, <3>4, <4>2 DEF ObserveAndLearn, MaybePruneHistory
      <4>. QED  BY <3>2, <4>3
    <3>. QED  BY <3>3, <3>4
  <2>. QED  BY <2>1, <2>2
<1>2. base \in Nat \ {0} /\ base <= total + 1 /\ total \in Nat  BY DEF IInv, Hist
<1>3. t + 1 - base >= Smaller(t, KeepSteps)
  BY <1>2, PruneAssumption DEF RetentionBounded, Smaller
<1>4. /\ last' \in [Phases -> Nat]
      /\ \A p \in Phases : \A i \in 1 .. LabelledUpto(t) : PhaseOf(i) = p => i <= last'[p]
  BY <1>1 DEF IInv, Progress
<1>. HIDE DEF t
<1>5. t \in Nat /\ base <= t + 1  BY <1>2 DEF t
<1>. QED  BY <1>1, <1>2, <1>3, <1>4, <1>5, PrunedRetention DEF RetentionBounded

\* However long the agent lives, pruning keeps the recent steps asked for and
\* never more than those or one phase round and one return window.
THEOREM RetentionIsBounded == Spec => []RetentionBounded
<1>1. Init => RetentionBounded
  BY ConfigAssumption, PruneAssumption DEF Init, RetentionBounded, Smaller, Larger
<1>2. IInv /\ IInv' /\ RetentionBounded /\ [Next]_vars => RetentionBounded'
  <2>. SUFFICES ASSUME IInv, IInv', RetentionBounded, [Next]_vars  PROVE RetentionBounded'
    OBVIOUS
  <2>1. ASSUME NEW x \in Transitions, ObserveShort(x) \/ ObserveAndLearn(x)
        PROVE  RetentionBounded'
    BY <2>1, ObserveRetains
  <2>2. CASE UNCHANGED <<total, base>>  BY <2>2 DEF RetentionBounded
  <2>3. Reject \/ FastForward \/ PushArm \/ PopArm \/ FinishQuery \/ UNCHANGED vars
          => UNCHANGED <<total, base>>
    BY DEF Reject, FastForward, PushArm, PopArm, FinishQuery, vars
  <2>. QED  BY <2>1, <2>2, <2>3 DEF Next
<1>. QED  BY <1>1, <1>2, Inductive, PTL DEF Spec

-----------------------------------------------------------------------------
(* Refinement *)

\* The refinement mapping.
Mapped == [p \in Phases |-> Committed(p)]

\* What every predictor has been trained on, queries aside, is its augmented
\* stream through its newest learned step.
Trained == [p \in Phases |-> Augmented(trace, p, last[p])]

LEMMA CommittedIsTrained == IInv => Mapped = Trained
<1>. SUFFICES ASSUME IInv, NEW p \in Phases PROVE Committed(p) = Augmented(trace, p, last[p])
  BY DEF Trained, Mapped
<1>1. CASE pc = "idle" \/ generic \/ p # QueryPhase
  BY <1>1 DEF Committed, IInv, Cond
<1>2. CASE ~(pc = "idle" \/ generic \/ p # QueryPhase)
  <2>1. total \in Nat /\ arm \in Nat /\ last[p] \in Nat /\ last[p] <= total /\ pushed = total - last[p]
    <3>1. total \in Nat /\ last[p] \in Nat /\ last[p] <= LabelledUpto(total)
      BY DEF IInv, Hist, Progress
    <3>2. LabelledUpto(total) <= total  BY <3>1, ConfigAssumption DEF LabelledUpto
    <3>3. arm \in Nat  BY ConfigAssumption DEF IInv, Control
    <3>4. pushed = total - last[p]  BY <1>2 DEF IInv, Cond
    <3>. QED  BY <3>1, <3>2, <3>3, <3>4, ConfigAssumption DEF LabelledUpto
  <2>2. cond[p] = Working  BY <1>2 DEF IInv, Cond
  <2>3. (IF pc = "query" THEN Popped(cond[p], 1) ELSE cond[p]) = Augmented(trace, p, total)
    <3>1. CASE pc = "query"
      <4>1. cond[p] = Append(Augmented(trace, p, total), ArmToken(arm))
        BY <3>1, <1>2, <2>2 DEF Working
      <4>2. ArmToken(arm) \in TokenSet(trace, p)  BY <2>1 DEF TokenSet
      <4>3. Augmented(trace, p, total) \in Seq(TokenSet(trace, p))  BY <2>1, AugmentedIsSeq
      <4>. QED  BY <3>1, <4>1, <4>2, <4>3, PopAppended
    <3>2. CASE pc # "query"  BY <3>2, <1>2, <2>2 DEF Working
    <3>. QED  BY <3>1, <3>2
  <2>4. PICK n \in Nat, k \in Nat : n = total /\ k = pushed /\ k <= n /\ n - k = last[p]
    BY <2>1
  <2>5. Popped(Augmented(trace, p, n), k) = Augmented(trace, p, n - k)
    BY <2>4, PopAugmented
  <2>. QED  BY <1>2, <2>3, <2>4, <2>5 DEF Committed
<1>. QED  BY <1>1, <1>2

LEMMA CommittedPrimed == IInv' => Mapped' = Trained'
<1>1. IInv => Mapped = Trained  BY CommittedIsTrained
<1>2. (IInv => Mapped = Trained)'  BY <1>1, PTL
<1>. QED  BY <1>2

\* The definitions of the abstract specification are those of the agent.
LEMMA SameData ==
  /\ Ideal!Phases = Phases /\ Ideal!Transitions = Transitions
  /\ \A n : Ideal!PhaseOf(n) = PhaseOf(n) /\ Ideal!LabelledUpto(n) = LabelledUpto(n)
  /\ \A h, p, n : Ideal!Augmented(h, p, n) = Augmented(h, p, n)
<1>1. \A r : Ideal!ReturnBin(r) = ReturnBin(r)
  BY DEF Ideal!ReturnBin, ReturnBin
<1>2. \A h, p, i : Ideal!IdealToken(h, p, i) = IdealToken(h, p, i)
  BY <1>1 DEF Ideal!IdealToken, IdealToken, Ideal!StepToken, StepToken, Ideal!PhaseOf, PhaseOf,
              Ideal!RewardWindow, RewardWindow
<1>3. \A h, p, n : Ideal!Augmented(h, p, n) = Augmented(h, p, n)
  BY <1>2 DEF Ideal!Augmented, Augmented
<1>4. Ideal!Phases = Phases /\ Ideal!Transitions = Transitions
  BY DEF Ideal!Phases, Phases, Ideal!Transitions, Transitions, Ideal!Actions, Actions,
         Ideal!Rewards, Rewards
<1>5. \A n : Ideal!PhaseOf(n) = PhaseOf(n) /\ Ideal!LabelledUpto(n) = LabelledUpto(n)
  BY DEF Ideal!PhaseOf, PhaseOf, Ideal!LabelledUpto, LabelledUpto
<1>. QED  BY <1>3, <1>4, <1>5

LEMMA LearningRefines ==
  ASSUME IInv, IInv', NEW x \in Transitions, ObserveShort(x) \/ ObserveAndLearn(x)
  PROVE  Ideal!Observe(x)
<1>1. Hist /\ Progress /\ total \in Nat /\ trace \in Seq(Transitions) /\ Len(trace) = total
  BY DEF IInv, Hist
<1>2. PICK h : h = Append(trace, x)  OBVIOUS
<1>3. PICK t \in Nat : t = total + 1  BY <1>1
<1>4. \A p \in Phases : Augmented(h, p, last[p]) = Augmented(trace, p, last[p])
  BY <1>1, <1>2, LearnedStable
<1>5. PICK i : i = LabelledUpto(t)  OBVIOUS
<1>6. /\ trace' = h /\ Len(h) = t
      /\ Trained' = IF i = 0 THEN Trained
                    ELSE [Trained EXCEPT ![PhaseOf(i)] = Augmented(h, PhaseOf(i), i)]
  <2>1. CASE ObserveShort(x)
    <3>1. i = 0 /\ last' = last /\ trace' = h
      BY <2>1, <1>2, <1>3, <1>5, ConfigAssumption DEF ObserveShort, LabelledUpto
    <3>2. Len(h) = t  BY <1>1, <1>2, <1>3, AppendProperties
    <3>. QED  BY <3>1, <3>2, <1>4 DEF Trained
  <2>2. CASE ObserveAndLearn(x)
    <3>0. PICK k \in Nat, j \in Nat \ {0}, g \in Seq(Transitions) :
            /\ k = total + 1 /\ g = Append(trace, x)
            /\ LabelledUpto(k) = j /\ trace' = g /\ Len(g) = k
            /\ PhaseOf(j) \in Phases /\ last' = [last EXCEPT ![PhaseOf(j)] = j]
      BY <2>2, LearnEffect
    <3>1. /\ i \in Nat \ {0} /\ PhaseOf(i) \in Phases
          /\ trace' = h /\ Len(h) = t
          /\ last' = [last EXCEPT ![PhaseOf(i)] = i]
      BY <3>0, <1>2, <1>3, <1>5
    <3>2. last \in [Phases -> Nat]  BY <1>1 DEF Progress
    <3>3. Trained' = [p \in Phases |-> Augmented(h, p, last'[p])]
      BY <3>1 DEF Trained
    <3>4. ASSUME NEW p \in Phases
          PROVE  Augmented(h, p, last'[p]) =
                   IF p = PhaseOf(i) THEN Augmented(h, PhaseOf(i), i)
                   ELSE Augmented(trace, p, last[p])
      BY <3>1, <3>2, <1>4
    <3>. QED  BY <3>1, <3>3, <3>4 DEF Trained
  <2>. QED  BY <2>1, <2>2
<1>7. Mapped = Trained /\ Mapped' = Trained'
  BY CommittedIsTrained, CommittedPrimed
<1>8. Mapped' = IF LabelledUpto(Len(trace')) = 0 THEN Mapped
                ELSE [Mapped EXCEPT ![PhaseOf(LabelledUpto(Len(trace')))] =
                        Augmented(trace', PhaseOf(LabelledUpto(Len(trace'))), LabelledUpto(Len(trace')))]
  BY <1>5, <1>6, <1>7
<1>. QED  BY <1>2, <1>6, <1>8, SameData DEF Ideal!Observe, Mapped

LEMMA OthersStutter ==
  ASSUME IInv, IInv', UNCHANGED <<trace, last>>
  PROVE  UNCHANGED Ideal!vars
<1>1. Trained' = Trained  BY DEF Trained
<1>2. Mapped = Trained /\ Mapped' = Trained'
  BY CommittedIsTrained, CommittedPrimed
<1>. QED  BY <1>1, <1>2 DEF Ideal!vars, Mapped

\* The agent that prunes its history and lends its predictors to queries
\* implements the agent that remembers everything and retrains from scratch.
THEOREM Refinement == Spec => RefinesIdeal
<1>1. Init => Ideal!Init
  <2>. SUFFICES ASSUME Init PROVE Ideal!Init  OBVIOUS
  <2>1. IInv  BY InitIInv
  <2>2. \A p \in Phases : Augmented(<< >>, p, 0) = << >>  BY DEF Augmented
  <2>3. Trained = [p \in Phases |-> << >>]  BY <2>2 DEF Init, Trained
  <2>. QED  BY <2>1, <2>3, CommittedIsTrained, SameData DEF Init, Ideal!Init, Mapped
<1>2. IInv /\ IInv' /\ [Next]_vars => [Ideal!Next]_(Ideal!vars)
  <2>. SUFFICES ASSUME IInv, IInv', [Next]_vars PROVE Ideal!Next \/ UNCHANGED Ideal!vars
    OBVIOUS
  <2>1. ASSUME NEW x \in Transitions, ObserveShort(x) \/ ObserveAndLearn(x)  PROVE Ideal!Next
    BY <2>1, LearningRefines, SameData DEF Ideal!Next
  <2>2. CASE Reject \/ FastForward \/ PushArm \/ PopArm \/ FinishQuery \/ UNCHANGED vars
    <3>1. UNCHANGED <<trace, last>>
      BY <2>2 DEF Reject, FastForward, PushArm, PopArm, FinishQuery, vars
    <3>. QED  BY <3>1, OthersStutter
  <2>. QED  BY <2>1, <2>2 DEF Next
<1>. QED  BY <1>1, <1>2, Inductive, PTL DEF Spec, Ideal!Spec, RefinesIdeal

=============================================================================
