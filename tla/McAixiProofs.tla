----------------------------- MODULE McAixiProofs -----------------------------
(***************************************************************************)
(* A search leaves the predictor as it found it: between two percept bits, *)
(* what was pushed since the search began is exactly the symbols of the    *)
(* simulated steps; at the horizon these are Horizon steps of equal width, *)
(* so that the kinds of bits popped one by one match, and a scope reaches  *)
(* back as far.  What stands before the search is the history, hence what  *)
(* a sample behind a re-rooted tree was drawn from grows into the history  *)
(* that the next search plans for.                                         *)
(*                                                                         *)
(* The tree counts what was drawn through it: every node above a sample's  *)
(* horizon and every edge taken by it stay in the tree (Shape, Descent),   *)
(* so that a node is new only where no sample passed, and re-rooting keeps *)
(* precisely the samples that went the way of the step taken.              *)
(***************************************************************************)
EXTENDS McAixi, SequenceTheorems, FiniteSetTheorems, WellFoundedInduction, TLAPS

\* The width of a step, its bits, and the values of the control variables.
W == ActionBits + PerceptBits
Bits == [op : {"adaptive", "frozen"}, bit : BOOLEAN]
Steps == Actions \X Percepts
Sims == [path : Seq(Steps), act : Actions, bits : Seq(BOOLEAN), rolled : Seq(Steps)]

\* The bits of a step.
Step(s) == ActionSyms(s[1]) \o PerceptSyms(s[2])

\* What the environment showed and was told, and the bits of it.
Moments == Percepts \X Actions
Moment(s) == PerceptSyms(s[1]) \o ActionSyms(s[2])

Blocks == {b \in Seq(Bits) : Len(b) = W}

-----------------------------------------------------------------------------
(* Arithmetic *)

LEMMA WPos == W \in Nat \ {0}
  BY AgentAssumption DEF W

LEMMA ModOfSum ==
  ASSUME NEW w \in Nat \ {0}, NEW q \in Nat, NEW r \in 0 .. w - 1
  PROVE  (q * w + r) % w = r
  BY SMTT(20)

LEMMA DivOfSum ==
  ASSUME NEW w \in Nat \ {0}, NEW q \in Nat, NEW r \in 0 .. w - 1
  PROVE  (q * w + r) \div w = q
  BY SMTT(20)

LEMMA DivMod ==
  ASSUME NEW w \in Nat \ {0}, NEW a \in Nat
  PROVE  a % w \in 0 .. w - 1 /\ a = (a \div w) * w + (a % w) /\ a \div w \in Nat
  BY SMTT(20)

\* Below n * w there are n quotients.
LEMMA DivBound ==
  ASSUME NEW w \in Nat \ {0}, NEW n \in Nat, NEW a \in Nat, a < n * w
  PROVE  a \div w < n
<1>. DEFINE q == a \div w
            r == a % w
<1>1. q \in Nat /\ r \in 0 .. w - 1 /\ a = q * w + r
  BY DivMod
<1>. HIDE DEF q, r
<1>2. SUFFICES ASSUME q >= n PROVE FALSE
  BY <1>1 DEF q
<1>3. PICK d \in Nat : q = n + d
  BY <1>1, <1>2
<1>4. q * w = n * w + d * w /\ d * w >= 0
  BY <1>3, SMTT(20)
<1>. QED  BY <1>1, <1>4

\* Remainders count down from the end.
LEMMA ModFromEnd ==
  ASSUME NEW w \in Nat \ {0}, NEW n \in Nat, NEW i \in 1 .. n * w
  PROVE  (n * w - i) % w = w - 1 - ((i - 1) % w)
<1>. DEFINE q == (i - 1) \div w
            r == (i - 1) % w
<1>0. n * w \in Nat /\ i - 1 \in Nat /\ i - 1 < n * w
  BY SMTT(20)
<1>1. q \in Nat /\ r \in 0 .. w - 1 /\ i - 1 = q * w + r /\ q < n
  BY <1>0, DivMod, DivBound
<1>. HIDE DEF q, r
<1>2. PICK d \in Nat : n = q + 1 + d
  <2>1. n = q + 1 + (n - q - 1) /\ n - q - 1 \in Nat
    BY <1>1
  <2>. QED  BY <2>1
<1>3. n * w = q * w + w + d * w
  BY <1>1, <1>2, SMTT(20)
<1>4. n * w - i = d * w + (w - 1 - r)
  BY <1>1, <1>3, SMTT(20)
<1>5. w - 1 - r \in 0 .. w - 1
  BY <1>1
<1>. QED  BY <1>4, <1>5, ModOfSum DEF r

-----------------------------------------------------------------------------
(* Symbols *)

LEMMA SymbolBits ==
  ASSUME NEW mode \in {"adaptive", "frozen"}, NEW b \in Seq(BOOLEAN)
  PROVE  /\ Contract!Symbol(mode, b) \in Seq(Bits)
         /\ Len(Contract!Symbol(mode, b)) = Len(b)
         /\ \A i \in 1 .. Len(b) : Contract!Symbol(mode, b)[i] = [op |-> mode, bit |-> b[i]]
<1>1. Contract!Symbol(mode, b) = [i \in 1 .. Len(b) |-> [op |-> mode, bit |-> b[i]]]
  BY DEF Contract!Symbol, Contract!Fed
<1>2. Len(b) \in Nat /\ \A i \in 1 .. Len(b) : b[i] \in BOOLEAN
  OBVIOUS
<1>3. \A i \in 1 .. Len(b) : [op |-> mode, bit |-> b[i]] \in Bits
  BY <1>2 DEF Bits
<1>. QED  BY <1>1, <1>2, <1>3

LEMMA ActionBitsOK ==
  ASSUME NEW a
  PROVE  /\ ActionSyms(a) \in Seq(Bits) /\ Len(ActionSyms(a)) = ActionBits
         /\ \A i \in 1 .. ActionBits : ActionSyms(a)[i].op = "frozen"
<1>. DEFINE b == [i \in 1 .. ActionBits |-> (a \div 2 ^ (i - 1)) % 2 = 1]
<1>1. b \in Seq(BOOLEAN) /\ Len(b) = ActionBits
  <2>1. \A i \in 1 .. ActionBits : ((a \div 2 ^ (i - 1)) % 2 = 1) \in BOOLEAN
    OBVIOUS
  <2>. QED  BY <2>1, AgentAssumption
<1>2. ActionSyms(a) = Contract!Symbol("frozen", b)
  BY DEF ActionSyms
<1>. HIDE DEF b
<1>3. /\ ActionSyms(a) \in Seq(Bits) /\ Len(ActionSyms(a)) = Len(b)
      /\ \A i \in 1 .. Len(b) : ActionSyms(a)[i] = [op |-> "frozen", bit |-> b[i]]
  <2>1. "frozen" \in {"adaptive", "frozen"}
    OBVIOUS
  <2>. QED  BY <1>1, <1>2, <2>1, SymbolBits
<1>. QED  BY <1>1, <1>3

LEMMA PerceptBitsOK ==
  ASSUME NEW x \in Seq(BOOLEAN)
  PROVE  /\ PerceptSyms(x) \in Seq(Bits) /\ Len(PerceptSyms(x)) = Len(x)
         /\ \A i \in 1 .. Len(x) : PerceptSyms(x)[i] = [op |-> "adaptive", bit |-> x[i]]
  BY SymbolBits DEF PerceptSyms

LEMMA PerceptIsSeq ==
  /\ \A x \in Percepts : x \in Seq(BOOLEAN) /\ Len(x) = PerceptBits
  /\ \A x \in Seq(BOOLEAN) : Len(x) = PerceptBits => x \in Percepts
  BY AgentAssumption DEF Percepts

\* One more bit of a percept.
LEMMA PerceptAppend ==
  ASSUME NEW x \in Seq(BOOLEAN), NEW b \in BOOLEAN
  PROVE  PerceptSyms(Append(x, b)) = Append(PerceptSyms(x), Contract!Fed("adaptive", b))
<1>. DEFINE p == PerceptSyms(Append(x, b))
            q == Append(PerceptSyms(x), Contract!Fed("adaptive", b))
<1>1. Append(x, b) \in Seq(BOOLEAN) /\ Len(Append(x, b)) = Len(x) + 1
  OBVIOUS
<1>2. p \in Seq(Bits) /\ Len(p) = Len(x) + 1
      /\ \A i \in 1 .. Len(x) + 1 : p[i] = [op |-> "adaptive", bit |-> Append(x, b)[i]]
  BY <1>1, PerceptBitsOK
<1>3. Contract!Fed("adaptive", b) = [op |-> "adaptive", bit |-> b] /\ Contract!Fed("adaptive", b) \in Bits
  BY DEF Contract!Fed, Bits
<1>4. PerceptSyms(x) \in Seq(Bits) /\ Len(PerceptSyms(x)) = Len(x)
      /\ \A i \in 1 .. Len(x) : PerceptSyms(x)[i] = [op |-> "adaptive", bit |-> x[i]]
  BY PerceptBitsOK
<1>5. q \in Seq(Bits) /\ Len(q) = Len(x) + 1
      /\ q[Len(x) + 1] = [op |-> "adaptive", bit |-> b]
      /\ \A i \in 1 .. Len(x) : q[i] = PerceptSyms(x)[i]
  BY <1>3, <1>4
<1>. HIDE DEF p, q
<1>6. ASSUME NEW i \in 1 .. Len(p) PROVE p[i] = q[i]
  <2>1. CASE i \in 1 .. Len(x)
    <3>1. Append(x, b)[i] = x[i]
      BY <2>1
    <3>. QED  BY <2>1, <3>1, <1>2, <1>4, <1>5
  <2>2. CASE i = Len(x) + 1
    <3>1. Append(x, b)[i] = b
      BY <2>2
    <3>2. i \in 1 .. Len(x) + 1
      BY <1>2
    <3>3. p[i] = [op |-> "adaptive", bit |-> Append(x, b)[i]]
      BY <3>2, <1>2, Zenon
    <3>4. q[i] = [op |-> "adaptive", bit |-> b]
      BY <2>2, <1>5, Zenon
    <3>. QED  BY <3>1, <3>3, <3>4, Zenon
  <2>. QED  BY <2>1, <2>2, <1>2
<1>7. p = q
  BY <1>2, <1>5, <1>6, SeqEqual
<1>. QED  BY <1>7 DEF p, q

LEMMA StepOK ==
  ASSUME NEW s \in Steps
  PROVE  /\ Step(s) \in Seq(Bits) /\ Len(Step(s)) = W
         /\ \A i \in 1 .. W : Step(s)[i].op = IF i <= ActionBits THEN "frozen" ELSE "adaptive"
<1>1. s[2] \in Seq(BOOLEAN) /\ Len(s[2]) = PerceptBits
  BY PerceptIsSeq DEF Steps
<1>. DEFINE a == ActionSyms(s[1])
            p == PerceptSyms(s[2])
<1>2. a \in Seq(Bits) /\ Len(a) = ActionBits /\ \A i \in 1 .. ActionBits : a[i].op = "frozen"
  BY ActionBitsOK
<1>3. p \in Seq(Bits) /\ Len(p) = PerceptBits /\ \A i \in 1 .. PerceptBits : p[i].op = "adaptive"
  <2>1. p \in Seq(Bits) /\ Len(p) = PerceptBits
        /\ \A i \in 1 .. PerceptBits : p[i] = [op |-> "adaptive", bit |-> s[2][i]]
    BY <1>1, PerceptBitsOK
  <2>. HIDE DEF p
  <2>. QED  BY <2>1
<1>4. Step(s) = a \o p
  BY DEF Step
<1>. HIDE DEF a, p
<1>5. /\ a \o p \in Seq(Bits) /\ Len(a \o p) = ActionBits + PerceptBits
      /\ \A i \in 1 .. ActionBits + PerceptBits :
           (a \o p)[i] = IF i <= ActionBits THEN a[i] ELSE p[i - ActionBits]
  BY <1>2, <1>3, ConcatProperties
<1>. QED  BY <1>2, <1>3, <1>4, <1>5, AgentAssumption DEF W

\* The bits of blocks of width W: bit i belongs to block (i - 1) \div W + 1.
LEMMA JoinedOK ==
  ASSUME NEW s \in Seq(Blocks)
  PROVE  /\ Len(s) * W \in Nat
         /\ Joined(s) \in Seq(Bits) /\ Len(Joined(s)) = Len(s) * W
         /\ \A i \in 1 .. Len(s) * W :
              /\ (i - 1) \div W + 1 \in 1 .. Len(s)
              /\ ((i - 1) % W) + 1 \in 1 .. W
              /\ Joined(s)[i] = s[(i - 1) \div W + 1][((i - 1) % W) + 1]
<1>1. Len(s) \in Nat /\ Len(s) * W \in Nat
  <2>1. Len(s) \in Nat
    OBVIOUS
  <2>. QED  BY <2>1, WPos, SMTT(20)
<1>2. ASSUME NEW i \in 1 .. Len(s) * W
      PROVE  /\ (i - 1) \div W + 1 \in 1 .. Len(s)
             /\ ((i - 1) % W) + 1 \in 1 .. W
  <2>1. i - 1 \in Nat /\ i - 1 < Len(s) * W
    BY <1>1
  <2>2. (i - 1) \div W \in Nat /\ (i - 1) \div W < Len(s) /\ (i - 1) % W \in 0 .. W - 1
    BY <1>1, <2>1, WPos, DivMod, DivBound
  <2>. QED  BY <1>1, <2>2, WPos
<1>3. Joined(s) = [i \in 1 .. Len(s) * W |-> s[(i - 1) \div W + 1][((i - 1) % W) + 1]]
  BY DEF Joined, W
<1>4. ASSUME NEW i \in 1 .. Len(s) * W
      PROVE  s[(i - 1) \div W + 1][((i - 1) % W) + 1] \in Bits
  <2>. DEFINE k == (i - 1) \div W + 1
              j == ((i - 1) % W) + 1
  <2>1. k \in 1 .. Len(s) /\ j \in 1 .. W
    BY <1>2
  <2>. HIDE DEF k, j
  <2>2. s[k] \in Seq(Bits) /\ Len(s[k]) = W
    BY <2>1 DEF Blocks
  <2>3. s[k][j] \in Bits
    BY <2>1, <2>2
  <2>. QED  BY <2>3 DEF k, j
<1>5. Joined(s) \in Seq(Bits) /\ Len(Joined(s)) = Len(s) * W
  <2>. DEFINE n == Len(s) * W
              e(i) == s[(i - 1) \div W + 1][((i - 1) % W) + 1]
  <2>1. \A i \in 1 .. n : e(i) \in Bits
    BY <1>4
  <2>2. n \in Nat /\ Joined(s) = [i \in 1 .. n |-> e(i)]
    BY <1>1, <1>3
  <2>. HIDE DEF n, e
  <2>3. [i \in 1 .. n |-> e(i)] \in Seq(Bits) /\ Len([i \in 1 .. n |-> e(i)]) = n
    BY <2>1, <2>2
  <2>. QED  BY <2>2, <2>3 DEF n
<1>. QED  BY <1>1, <1>2, <1>3, <1>5

\* One more block.
LEMMA JoinedAppend ==
  ASSUME NEW s \in Seq(Blocks), NEW t \in Blocks
  PROVE  Joined(Append(s, t)) = Joined(s) \o t
<1>. DEFINE u == Append(s, t)
            n == Len(s) * W
<1>1. u \in Seq(Blocks) /\ Len(u) = Len(s) + 1 /\ Len(s) \in Nat
      /\ u[Len(s) + 1] = t /\ \A k \in 1 .. Len(s) : u[k] = s[k]
  OBVIOUS
<1>. HIDE DEF u
<1>2. Len(u) * W = n + W /\ n \in Nat
  BY <1>1, WPos, SMTT(20)
<1>3. Joined(s) \in Seq(Bits) /\ Len(Joined(s)) = n /\ t \in Seq(Bits) /\ Len(t) = W
  BY JoinedOK DEF Blocks
<1>4. /\ Joined(s) \o t \in Seq(Bits) /\ Len(Joined(s) \o t) = n + W
      /\ \A i \in 1 .. n + W : (Joined(s) \o t)[i] = IF i <= n THEN Joined(s)[i] ELSE t[i - n]
  <2>. HIDE DEF n
  <2>. QED  BY <1>3, ConcatProperties
<1>5. Joined(u) \in Seq(Bits) /\ Len(Joined(u)) = n + W
  BY <1>1, <1>2, JoinedOK
<1>6. ASSUME NEW i \in 1 .. n + W
      PROVE  Joined(u)[i] = (Joined(s) \o t)[i]
  <2>0. Joined(u)[i] = u[(i - 1) \div W + 1][((i - 1) % W) + 1]
    BY <1>1, <1>2, JoinedOK
  <2>1. CASE i <= n
    <3>1. i \in 1 .. n
      BY <2>1, <1>2, WPos
    <3>2. (i - 1) \div W + 1 \in 1 .. Len(s)
          /\ Joined(s)[i] = s[(i - 1) \div W + 1][((i - 1) % W) + 1]
      BY <3>1, JoinedOK
    <3>3. u[(i - 1) \div W + 1] = s[(i - 1) \div W + 1]
      BY <3>2, <1>1
    <3>. QED  BY <2>0, <2>1, <3>2, <3>3, <1>4
  <2>2. CASE i > n
    <3>1. i - 1 - n \in 0 .. W - 1 /\ i - 1 = n + (i - 1 - n)
      BY <2>2, <1>2, WPos
    <3>2. (i - 1) \div W = Len(s) /\ (i - 1) % W = i - 1 - n
      BY <3>1, <1>1, WPos, ModOfSum, DivOfSum
    <3>3. Joined(u)[i] = t[(i - 1 - n) + 1]
      BY <2>0, <3>2, <1>1
    <3>4. (i - 1 - n) + 1 = i - n
      BY <3>1, <1>2
    <3>. QED  BY <2>2, <3>3, <3>4, <1>4, <1>2, WPos
  <2>3. i <= n \/ i > n
    BY <1>2, WPos
  <2>. QED  BY <2>1, <2>2, <2>3, Zenon
<1>7. Joined(u) = Joined(s) \o t
  <2>1. ASSUME NEW i \in 1 .. Len(Joined(u)) PROVE Joined(u)[i] = (Joined(s) \o t)[i]
    BY <1>5, <1>6
  <2>. QED  BY <1>4, <1>5, <2>1, SeqEqual
<1>. QED  BY <1>7 DEF u

\* The blocks of steps, and of a history.
LEMMA StepBlocks ==
  ASSUME NEW s \in Seq(Steps)
  PROVE  LET b == [k \in DOMAIN s |-> Step(s[k])]
         IN  /\ b \in Seq(Blocks) /\ Len(b) = Len(s) /\ \A k \in 1 .. Len(s) : b[k] = Step(s[k])
             /\ StepSyms(s) = Joined(b)
<1>. DEFINE b == [k \in DOMAIN s |-> Step(s[k])]
            n == Len(s)
<1>1. n \in Nat /\ DOMAIN s = 1 .. n /\ \A k \in 1 .. n : s[k] \in Steps
  OBVIOUS
<1>. HIDE DEF n
<1>2. \A k \in 1 .. n : Step(s[k]) \in Blocks
  BY <1>1, StepOK DEF Blocks
<1>3. b \in [1 .. n -> Blocks] /\ \A k \in 1 .. n : b[k] = Step(s[k])
  BY <1>1, <1>2
<1>4. b \in Seq(Blocks) /\ Len(b) = n
  BY <1>1, <1>3
<1>5. StepSyms(s) = Joined(b)
  BY DEF StepSyms, Step
<1>. QED  BY <1>3, <1>4, <1>5 DEF n

LEMMA StepSymsOK ==
  ASSUME NEW s \in Seq(Steps)
  PROVE  /\ Len(s) * W \in Nat
         /\ StepSyms(s) \in Seq(Bits) /\ Len(StepSyms(s)) = Len(s) * W
         /\ \A i \in 1 .. Len(s) * W :
              /\ (i - 1) \div W + 1 \in 1 .. Len(s)
              /\ ((i - 1) % W) + 1 \in 1 .. W
              /\ StepSyms(s)[i] = Step(s[(i - 1) \div W + 1])[((i - 1) % W) + 1]
<1>. DEFINE b == [k \in DOMAIN s |-> Step(s[k])]
<1>1. /\ b \in Seq(Blocks) /\ Len(b) = Len(s) /\ StepSyms(s) = Joined(b)
      /\ \A k \in 1 .. Len(s) : b[k] = Step(s[k])
  BY StepBlocks
<1>. HIDE DEF b
<1>. QED  BY <1>1, JoinedOK

\* One more step.
LEMMA StepSymsAppend ==
  ASSUME NEW s \in Seq(Steps), NEW t \in Steps
  PROVE  StepSyms(Append(s, t)) = StepSyms(s) \o Step(t)
<1>. DEFINE u == Append(s, t)
            b == [k \in DOMAIN s |-> Step(s[k])]
            c == [k \in DOMAIN u |-> Step(u[k])]
            n == Len(s)
<1>1. u \in Seq(Steps) /\ Len(u) = n + 1 /\ n \in Nat
      /\ u[n + 1] = t /\ \A k \in 1 .. n : u[k] = s[k]
  OBVIOUS
<1>2. b \in Seq(Blocks) /\ Len(b) = n /\ StepSyms(s) = Joined(b) /\ \A k \in 1 .. n : b[k] = Step(s[k])
  BY StepBlocks
<1>. HIDE DEF u, n
<1>3. c \in Seq(Blocks) /\ Len(c) = n + 1 /\ StepSyms(u) = Joined(c)
      /\ \A k \in 1 .. n + 1 : c[k] = Step(u[k])
  BY <1>1, StepBlocks
<1>. HIDE DEF b, c
<1>4. Step(t) \in Blocks
  BY StepOK DEF Blocks
<1>5. /\ Append(b, Step(t)) \in Seq(Blocks) /\ Len(Append(b, Step(t))) = n + 1
      /\ Append(b, Step(t))[n + 1] = Step(t) /\ \A k \in 1 .. n : Append(b, Step(t))[k] = b[k]
  BY <1>2, <1>4, AppendProperties
<1>6. \A k \in 1 .. n + 1 : k = n + 1 \/ k \in 1 .. n
  BY <1>1
<1>7. \A k \in 1 .. n + 1 : c[k] = Append(b, Step(t))[k]
  BY <1>1, <1>2, <1>3, <1>5, <1>6
<1>8. c = Append(b, Step(t))
  BY <1>3, <1>5, <1>7, SeqEqual
<1>. QED  BY <1>2, <1>3, <1>4, <1>8, JoinedAppend DEF u

LEMMA MomentOK == \A s \in Moments : Moment(s) \in Blocks
<1>. SUFFICES ASSUME NEW s \in Moments PROVE Moment(s) \in Blocks
  OBVIOUS
<1>1. s[1] \in Seq(BOOLEAN) /\ Len(s[1]) = PerceptBits
  BY PerceptIsSeq DEF Moments
<1>. DEFINE a == ActionSyms(s[2])
            p == PerceptSyms(s[1])
<1>2. a \in Seq(Bits) /\ Len(a) = ActionBits
  BY ActionBitsOK
<1>3. p \in Seq(Bits) /\ Len(p) = PerceptBits
  BY <1>1, PerceptBitsOK
<1>. HIDE DEF a, p
<1>4. p \o a \in Seq(Bits) /\ Len(p \o a) = PerceptBits + ActionBits
  BY <1>2, <1>3, ConcatProperties
<1>5. PerceptBits + ActionBits = W
  BY AgentAssumption DEF W
<1>. QED  BY <1>4, <1>5 DEF Moment, Blocks, a, p

\* One more percept and action.
LEMMA LearnedAppend ==
  ASSUME NEW s \in Seq(Moments), NEW t \in Moments
  PROVE  /\ Learned(s) \in Seq(Bits)
         /\ Learned(Append(s, t)) = Learned(s) \o Moment(t)
<1>. DEFINE u == Append(s, t)
            b == [k \in DOMAIN s |-> Moment(s[k])]
            c == [k \in DOMAIN u |-> Moment(u[k])]
            n == Len(s)
<1>1. u \in Seq(Moments) /\ Len(u) = n + 1 /\ n \in Nat
      /\ u[n + 1] = t /\ \A k \in 1 .. n : u[k] = s[k]
  OBVIOUS
<1>2. Learned(s) = Joined(b) /\ Learned(u) = Joined(c)
  BY DEF Learned, Moment
<1>. HIDE DEF u, n
<1>3. b \in Seq(Blocks) /\ Len(b) = n /\ \A k \in 1 .. n : b[k] = Moment(s[k])
  <2>1. DOMAIN s = 1 .. n /\ \A k \in 1 .. n : s[k] \in Moments
    BY <1>1 DEF n
  <2>2. b \in [1 .. n -> Blocks] /\ \A k \in 1 .. n : b[k] = Moment(s[k])
    BY <2>1, MomentOK
  <2>. QED  BY <1>1, <2>2
<1>4. c \in Seq(Blocks) /\ Len(c) = n + 1 /\ \A k \in 1 .. n + 1 : c[k] = Moment(u[k])
  <2>1. DOMAIN u = 1 .. n + 1 /\ \A k \in 1 .. n + 1 : u[k] \in Moments
    BY <1>1
  <2>2. c \in [1 .. n + 1 -> Blocks] /\ \A k \in 1 .. n + 1 : c[k] = Moment(u[k])
    BY <2>1, MomentOK
  <2>. QED  BY <1>1, <2>2
<1>. HIDE DEF b, c
<1>5. Moment(t) \in Blocks
  BY MomentOK
<1>6. /\ Append(b, Moment(t)) \in Seq(Blocks) /\ Len(Append(b, Moment(t))) = n + 1
      /\ Append(b, Moment(t))[n + 1] = Moment(t) /\ \A k \in 1 .. n : Append(b, Moment(t))[k] = b[k]
  BY <1>3, <1>5, AppendProperties
<1>7. \A k \in 1 .. n + 1 : k = n + 1 \/ k \in 1 .. n
  BY <1>1
<1>8. \A k \in 1 .. n + 1 : c[k] = Append(b, Moment(t))[k]
  BY <1>1, <1>3, <1>4, <1>6, <1>7
<1>9. c = Append(b, Moment(t))
  BY <1>4, <1>6, <1>8, SeqEqual
<1>. QED  BY <1>2, <1>3, <1>5, <1>9, JoinedOK, JoinedAppend DEF u

\* The kinds that are popped, newest first, are those that were pushed.
LEMMA KindsMatch ==
  ASSUME NEW s \in Seq(Steps), NEW i \in 1 .. Len(s) * W
  PROVE  /\ Kinds(Len(s))[i] = StepSyms(s)[Len(s) * W + 1 - i].op
         /\ Kinds(Len(s))[i] \in {"adaptive", "frozen"}
<1>. DEFINE n == Len(s)
            j == n * W + 1 - i
            r == (i - 1) % W
<1>0. n \in Nat /\ n * W \in Nat
  BY StepSymsOK
<1>1. j \in 1 .. n * W /\ j - 1 = n * W - i
  BY <1>0
<1>2. r \in 0 .. W - 1
  BY <1>0, WPos, DivMod
<1>3. (j - 1) % W = W - 1 - r
  BY <1>0, <1>1, WPos, ModFromEnd
<1>4. StepSyms(s)[j] = Step(s[(j - 1) \div W + 1])[((j - 1) % W) + 1] /\ (j - 1) \div W + 1 \in 1 .. n
  BY <1>1, StepSymsOK
<1>5. Kinds(n)[i] = IF r < PerceptBits THEN "adaptive" ELSE "frozen"
  <2>1. PerceptBits + ActionBits = W
    BY AgentAssumption DEF W
  <2>. QED  BY <2>1 DEF Kinds
<1>. DEFINE k == (j - 1) \div W + 1
<1>6. s[k] \in Steps
  BY <1>4
<1>. HIDE DEF n, j, r, k
<1>7. ((j - 1) % W) + 1 = W - r /\ W - r \in 1 .. W
  BY <1>2, <1>3, WPos
<1>8. StepSyms(s)[j].op = IF W - r <= ActionBits THEN "frozen" ELSE "adaptive"
  <2>1. StepSyms(s)[j] = Step(s[k])[W - r]
    BY <1>4, <1>7 DEF k
  <2>. QED  BY <2>1, <1>6, <1>7, StepOK
<1>9. W - r <= ActionBits <=> ~(r < PerceptBits)
  BY <1>2, AgentAssumption DEF W
<1>. QED  BY <1>5, <1>8, <1>9 DEF n, j

-----------------------------------------------------------------------------
(* Sequences *)

\* Moving the head of one sequence to the end of another.
LEMMA MoveHead ==
  ASSUME NEW S, NEW s \in Seq(S), NEW t \in Seq(S), t # << >>
  PROVE  Append(s, Head(t)) \o Tail(t) = s \o t
<1>1. Head(t) \in S /\ Tail(t) \in Seq(S) /\ <<Head(t)>> \in Seq(S)
  BY HeadTailProperties
<1>2. t = <<Head(t)>> \o Tail(t)
  <2>1. Len(t) \in Nat \ {0} /\ Tail(t) = SubSeq(t, 2, Len(t)) /\ Head(t) = t[1]
    BY TailIsSubSeq
  <2>2. SubSeq(t, 1, Len(t)) = <<t[1]>> \o SubSeq(t, 2, Len(t))
    BY <2>1, SubSeqRecursiveFirst
  <2>. QED  BY <2>1, <2>2, SubSeqFull
<1>3. Append(s, Head(t)) = s \o <<Head(t)>>
  BY <1>1, AppendIsConcat
<1>4. (s \o <<Head(t)>>) \o Tail(t) = s \o (<<Head(t)>> \o Tail(t))
  BY <1>1, ConcatAssociative
<1>. QED  BY <1>2, <1>3, <1>4

LEMMA NoSteps == StepSyms(<< >>) = << >>
<1>1. << >> \in Seq(Steps) /\ Len(<< >>) = 0
  OBVIOUS
<1>2. Len(<< >>) * W = 0
  BY <1>1, WPos
<1>3. StepSyms(<< >>) \in Seq(Bits) /\ Len(StepSyms(<< >>)) = 0
  BY <1>1, <1>2, StepSymsOK
<1>. QED  BY <1>3, EmptySeq

LEMMA NoPercept == PerceptSyms(<< >>) = << >>
<1>1. << >> \in Seq(BOOLEAN) /\ Len(<< >>) = 0
  OBVIOUS
<1>2. PerceptSyms(<< >>) \in Seq(Bits) /\ Len(PerceptSyms(<< >>)) = 0
  BY <1>1, PerceptBitsOK
<1>. QED  BY <1>2, EmptySeq

LEMMA Regroup == \A s, t, u \in Seq(Bits) : (s \o t) \o u = s \o (t \o u)
  BY ConcatAssociative

-----------------------------------------------------------------------------
(* The invariant *)

InSample == {"decide", "chance", "roll", "rollchance"}

\* The predictor's and the sample's variables have their types.
Types ==
  /\ scoped \in BOOLEAN /\ scopes \in Seq(Nat)
  /\ stream \in Seq(Bits) /\ context \in Seq(Bits) /\ todo \in Seq(Bits)
  /\ takeback \in Seq({"adaptive", "frozen"})
  /\ percept \in Percepts /\ choice \in Actions /\ sim \in Sims
  /\ pc \in InSample \cup {"idle", "plan", "search", "backup", "act", "env"}

\* Which calls are in progress where, and which scope is open.
Calls ==
  /\ takeback # << >> => pc = "backup"
  /\ todo # << >> => pc \in {"plan", "env", "chance", "rollchance"}
  /\ scopes = IF scoped /\ pc \in InSample THEN <<Len(context)>> ELSE << >>

\* Between two steps of a sample.
AtStep ==
  pc \in {"decide", "roll"} =>
    /\ Len(Simulated) <= Horizon /\ sim.bits = << >>
    /\ stream = context \o StepSyms(Simulated)

\* Within a step.
InStep ==
  pc \in {"chance", "rollchance"} =>
    /\ Len(Simulated) < Horizon /\ Len(sim.bits) < PerceptBits
    /\ stream \o todo = context \o StepSyms(Simulated) \o ActionSyms(sim.act) \o PerceptSyms(sim.bits)

\* The bits still to be popped are all that stands after the context, and their
\* kinds are known.
InRevert ==
  pc = "backup" =>
    /\ Len(stream) = Len(context) + Len(takeback)
    /\ \A i \in 1 .. Len(context) : stream[i] = context[i]
    /\ \A i \in 1 .. Len(takeback) : takeback[i] = stream[Len(stream) + 1 - i].op

Settled ==
  /\ pc = "search" => stream = context
  /\ pc \in {"decide", "chance"} => sim.rolled = << >>

IInv == Types /\ Calls /\ AtStep /\ InStep /\ InRevert /\ Settled

-----------------------------------------------------------------------------
(* The initial state and the steps *)

LEMMA InitInv == Init => IInv
<1>. SUFFICES ASSUME Init PROVE IInv
  OBVIOUS
<1>1. Types
  <2>1. NoSim \in Sims
    BY AgentAssumption DEF NoSim, Sims, Actions
  <2>2. 0 \in Actions
    BY AgentAssumption DEF Actions
  <2>. QED  BY <2>1, <2>2 DEF Init, Types, InSample
<1>. QED  BY <1>1 DEF Init, IInv, Calls, AtStep, InStep, InRevert, Settled, InSample

LEMMA SimTypes ==
  ASSUME Types
  PROVE  /\ sim.path \in Seq(Steps) /\ sim.rolled \in Seq(Steps) /\ sim.act \in Actions
         /\ sim.bits \in Seq(BOOLEAN) /\ Simulated \in Seq(Steps)
         /\ Len(Simulated) \in Nat
         /\ StepSyms(Simulated) \in Seq(Bits)
         /\ ActionSyms(sim.act) \in Seq(Bits) /\ PerceptSyms(sim.bits) \in Seq(Bits)
<1>1. sim.path \in Seq(Steps) /\ sim.rolled \in Seq(Steps) /\ sim.act \in Actions /\ sim.bits \in Seq(BOOLEAN)
  BY DEF Types, Sims
<1>2. Simulated \in Seq(Steps)
  BY <1>1, ConcatProperties DEF Simulated
<1>. QED  BY <1>1, <1>2, StepSymsOK, ActionBitsOK, PerceptBitsOK

\* One bit pushed.
LEMMA PushStep == IInv /\ Push => IInv'
<1>. SUFFICES ASSUME IInv, Push PROVE IInv'
  OBVIOUS
<1>. USE DEF IInv
<1>1. /\ Head(todo) \in Bits /\ todo # << >> /\ stream' = Append(stream, Head(todo)) /\ todo' = Tail(todo)
      /\ Tail(todo) \in Seq(Bits)
      /\ pc \in {"plan", "env", "chance", "rollchance"}
  BY HeadTailProperties DEF Push, Types, Calls
<1>2. Types'
  BY <1>1 DEF Push, Types, modelVars, treeVars, cycleVars
<1>3. Calls'
  BY <1>1 DEF Push, Calls, cycleVars
<1>4. InStep'
  <2>1. stream' \o todo' = stream \o todo
    BY <1>1, MoveHead DEF Types
  <2>. QED  BY <2>1 DEF Push, InStep, Simulated, cycleVars
<1>5. AtStep' /\ InRevert' /\ Settled'
  BY <1>1 DEF Push, AtStep, InRevert, Settled
<1>. QED  BY <1>2, <1>3, <1>4, <1>5

\* One bit popped: it is there, and of the kind that is expected.
LEMMA PopStep == IInv /\ Pop => IInv'
<1>. SUFFICES ASSUME IInv, Pop PROVE IInv'
  OBVIOUS
<1>. USE DEF IInv
<1>. DEFINE n == Len(stream)
<1>0. takeback # << >> /\ pc = "backup" /\ Len(takeback) \in Nat \ {0} /\ Head(takeback) = takeback[1]
  BY EmptySeq DEF Pop, Calls, Types
<1>1. n \in Nat \ {0} /\ Head(takeback) = stream[n].op /\ stream # << >> /\ Len(context) \in Nat
      /\ n = Len(context) + Len(takeback)
  <2>1. n \in Nat /\ Len(context) \in Nat /\ n = Len(context) + Len(takeback)
    BY <1>0 DEF InRevert, Types
  <2>2. takeback[1] = stream[n + 1 - 1].op
    BY <1>0 DEF InRevert
  <2>3. n + 1 - 1 = n
    BY <2>1
  <2>4. stream # << >>
    BY <1>0, <2>1, EmptySeq DEF Types
  <2>. QED  BY <1>0, <2>1, <2>2, <2>3, <2>4
<1>2. stream' = SubSeq(stream, 1, n - 1) /\ takeback' = Tail(takeback) /\ pc' = pc
  BY <1>1 DEF Pop
<1>3. /\ stream' \in Seq(Bits) /\ Len(stream') = n - 1
      /\ \A i \in 1 .. n - 1 : stream'[i] = stream[i]
  BY <1>1, <1>2 DEF Types
<1>4. /\ takeback' \in Seq({"adaptive", "frozen"}) /\ Len(takeback') = Len(takeback) - 1
      /\ \A i \in 1 .. Len(takeback) - 1 : takeback'[i] = takeback[i + 1]
  BY <1>0, <1>2, HeadTailProperties DEF Types
<1>5. Types'
  BY <1>2, <1>3, <1>4 DEF Pop, Types, cycleVars
<1>6. Calls'
  BY <1>0, <1>2 DEF Pop, Calls, cycleVars
<1>7. InRevert'
  <2>1. context' = context
    BY DEF Pop, cycleVars
  <2>2. Len(stream') = Len(context) + Len(takeback')
    BY <1>0, <1>1, <1>3, <1>4
  <2>3. \A i \in 1 .. Len(context) : stream'[i] = context[i]
    BY <1>0, <1>1, <1>3 DEF InRevert
  <2>4. ASSUME NEW i \in 1 .. Len(takeback') PROVE takeback'[i] = stream'[Len(stream') + 1 - i].op
    <3>1. i + 1 \in 1 .. Len(takeback) /\ takeback'[i] = takeback[i + 1]
      BY <1>0, <1>4
    <3>2. takeback[i + 1] = stream[n + 1 - (i + 1)].op
      BY <3>1, <1>0 DEF InRevert
    <3>3. n + 1 - (i + 1) = Len(stream') + 1 - i /\ n + 1 - (i + 1) \in 1 .. n - 1
      BY <1>0, <1>1, <1>3, <3>1
    <3>. QED  BY <3>1, <3>2, <3>3, <1>3
  <2>. QED  BY <2>1, <2>2, <2>3, <2>4 DEF InRevert
<1>8. AtStep' /\ InStep' /\ Settled'
  BY <1>0, <1>2 DEF AtStep, InStep, Settled
<1>. QED  BY <1>5, <1>6, <1>7, <1>8

\* The steps of a cycle outside a sample.
LEMMA CycleStep ==
  ASSUME IInv,
         \/ LearnPercept \/ BeginSearch \/ Act \/ Fail
         \/ \E a \in Actions : Explore(a) \/ EndSearch(a)
         \/ \E x \in Percepts : Perform(x) \/ NewEpisode(x)
  PROVE  IInv'
<1>. USE DEF IInv
<1>1. ASSUME LearnPercept PROVE IInv'
  <2>1. PerceptSyms(percept) \in Seq(Bits)
    BY PerceptIsSeq, PerceptBitsOK DEF Types
  <2>. QED  BY <1>1, <2>1 DEF LearnPercept, Types, Calls, AtStep, InStep, InRevert, Settled, InSample
<1>2. ASSUME BeginSearch PROVE IInv'
  BY <1>2 DEF BeginSearch, Ready, modelVars, Types, Calls, AtStep, InStep, InRevert, Settled, InSample
<1>3. ASSUME Act PROVE IInv'
  BY <1>3, ActionBitsOK DEF Act, cycleVars, Types, Calls, AtStep, InStep, InRevert, Settled, InSample
<1>4. ASSUME Fail PROVE IInv'
  BY <1>4 DEF Fail, modelVars, Types, Calls, AtStep, InStep, InRevert, Settled, InSample
<1>5. ASSUME NEW a \in Actions, Explore(a) PROVE IInv'
  BY <1>5 DEF Explore, Ready, modelVars, Types, Calls, AtStep, InStep, InRevert, Settled, InSample
<1>6. ASSUME NEW a \in Actions, EndSearch(a) PROVE IInv'
  BY <1>6 DEF EndSearch, modelVars, cycleVars, Types, Calls, AtStep, InStep, InRevert, Settled, InSample
<1>7. ASSUME NEW x \in Percepts, Perform(x) PROVE IInv'
  BY <1>7 DEF Perform, Ready, modelVars, Types, Calls, AtStep, InStep, InRevert, Settled, InSample
<1>8. ASSUME NEW x \in Percepts, NewEpisode(x) PROVE IInv'
  BY <1>8 DEF NewEpisode, modelVars, Types, Calls, AtStep, InStep, InRevert, Settled, InSample
<1>. QED  BY <1>1, <1>2, <1>3, <1>4, <1>5, <1>6, <1>7, <1>8, Zenon

\* The steps of a sample.
LEMMA BeginSampleStep == IInv /\ BeginSample => IInv'
<1>. SUFFICES ASSUME IInv, BeginSample PROVE IInv'
  OBVIOUS
<1>. USE DEF IInv
<1>1. /\ pc = "search" /\ pc' = "decide" /\ sim' = NoSim /\ stream = context
      /\ todo = << >> /\ takeback = << >> /\ scopes = << >>
      /\ UNCHANGED <<scoped, stream, todo, takeback, context, percept, choice>>
      /\ scopes' = IF scoped THEN Append(scopes, Len(stream)) ELSE scopes
  BY DEF BeginSample, Settled, Calls, InSample, cycleVars
<1>2. NoSim \in Sims /\ NoSim.path = << >> /\ NoSim.rolled = << >> /\ NoSim.bits = << >>
  BY AgentAssumption DEF NoSim, Sims, Actions
<1>3. Types'
  BY <1>1, <1>2 DEF Types, InSample
<1>4. Calls'
  BY <1>1 DEF Calls, InSample
<1>5. AtStep'
  <2>1. Simulated' = << >>
    BY <1>1, <1>2 DEF Simulated
  <2>2. Len(<< >>) <= Horizon
    BY AgentAssumption
  <2>3. stream = context \o << >>
    BY <1>1, ConcatEmptySeq DEF Types
  <2>. QED  BY <1>1, <1>2, <2>1, <2>2, <2>3, NoSteps DEF AtStep
<1>. QED  BY <1>1, <1>2, <1>3, <1>4, <1>5 DEF InStep, InRevert, Settled

\* An imagined action, selected or random.
LEMMA ImagineStep ==
  ASSUME IInv, NEW a \in Actions, NEW p, p \in {"chance", "rollchance"},
         pc \in {"decide", "roll"}, pc = "roll" => p = "rollchance", ~Deep,
         sim' = [sim EXCEPT !.act = a], todo' = ActionSyms(a), pc' = p,
         UNCHANGED <<scoped, stream, scopes, takeback, context, percept, choice>>
  PROVE  IInv'
<1>. USE DEF IInv
<1>1. /\ sim' \in Sims /\ sim'.path = sim.path /\ sim'.rolled = sim.rolled
      /\ sim'.bits = sim.bits /\ sim'.act = a
  BY DEF Types, Sims
<1>2. todo = << >> /\ takeback = << >>
  BY DEF Calls
<1>3. Types'
  BY <1>1, ActionBitsOK DEF Types, InSample
<1>4. Calls'
  BY <1>2 DEF Calls, InSample
<1>5. InStep'
  <2>1. Simulated' = Simulated /\ sim.bits = << >> /\ stream = context \o StepSyms(Simulated)
        /\ Len(Simulated) <= Horizon /\ Len(Simulated) # Horizon
    BY <1>1 DEF Simulated, AtStep, Deep
  <2>2. Len(Simulated) < Horizon
    BY <2>1, SimTypes, AgentAssumption
  <2>3. Len(sim'.bits) < PerceptBits
    BY <1>1, <2>1, AgentAssumption
  <2>4. stream' \o todo' = context \o StepSyms(Simulated) \o ActionSyms(a) \o PerceptSyms(<< >>)
    <3>1. context \o StepSyms(Simulated) \o ActionSyms(a) \in Seq(Bits)
      BY SimTypes, ActionBitsOK, ConcatProperties DEF Types
    <3>. QED  BY <2>1, <3>1, NoPercept, ConcatEmptySeq
  <2>. QED  BY <1>1, <2>1, <2>2, <2>3, <2>4 DEF InStep
<1>6. AtStep' /\ InRevert'
  BY DEF AtStep, InRevert
<1>7. Settled'
  BY <1>1 DEF Settled
<1>. QED  BY <1>3, <1>4, <1>5, <1>6, <1>7

\* An imagined percept, bit by bit.
LEMMA PerceptBitStep ==
  ASSUME IInv, NEW b \in BOOLEAN, PerceptBit(b)
  PROVE  IInv'
<1>. USE DEF IInv
<1>. DEFINE more == Append(sim.bits, b)
            step == <<sim.act, more>>
            fed == Contract!Fed("adaptive", b)
            before == context \o StepSyms(Simulated) \o ActionSyms(sim.act)
<1>0. /\ pc \in {"chance", "rollchance"} /\ todo = << >> /\ takeback = << >>
      /\ stream' = Append(stream, fed)
      /\ UNCHANGED <<scoped, scopes, todo, takeback, context, percept, choice>>
  BY DEF PerceptBit, Ready, cycleVars
<1>1. fed \in Bits
  BY DEF Contract!Fed, Bits
<1>2. /\ more \in Seq(BOOLEAN) /\ Len(more) = Len(sim.bits) + 1 /\ Len(sim.bits) \in Nat
      /\ Len(more) <= PerceptBits
  <2>1. sim.bits \in Seq(BOOLEAN) /\ Len(sim.bits) < PerceptBits
    BY <1>0, SimTypes DEF InStep
  <2>. QED  BY <2>1, AgentAssumption
<1>3. before \in Seq(Bits)
  BY SimTypes, ConcatProperties DEF Types
<1>4. stream' = before \o PerceptSyms(more) /\ stream' \in Seq(Bits)
  <2>1. stream = before \o PerceptSyms(sim.bits)
    <3>1. stream \o << >> = before \o PerceptSyms(sim.bits)
      BY <1>0 DEF InStep
    <3>. QED  BY <3>1, ConcatEmptySeq DEF Types
  <2>2. PerceptSyms(more) = Append(PerceptSyms(sim.bits), fed)
    BY SimTypes, PerceptAppend
  <2>. HIDE DEF before, fed, more
  <2>3. stream' = before \o PerceptSyms(more)
    <3>1. PerceptSyms(sim.bits) \in Seq(Bits)
      BY SimTypes
    <3>2. Append(before \o PerceptSyms(sim.bits), fed) = before \o Append(PerceptSyms(sim.bits), fed)
      BY <1>1, <1>3, <3>1
    <3>. QED  BY <1>0, <2>1, <2>2, <3>2
  <2>4. stream' \in Seq(Bits)
    BY <1>0, <1>1 DEF Types
  <2>. QED  BY <2>3, <2>4
<1>5. Calls' /\ InRevert'
  <2>1. pc' \in InSample /\ pc \in InSample
    BY <1>0 DEF PerceptBit, InSample
  <2>. QED  BY <1>0, <2>1 DEF Calls, InRevert, InSample
<1>6. CASE Len(more) < PerceptBits
  <2>1. sim' = [sim EXCEPT !.bits = more] /\ pc' = pc
    BY <1>6 DEF PerceptBit
  <2>2. /\ sim' \in Sims /\ sim'.path = sim.path /\ sim'.rolled = sim.rolled
        /\ sim'.bits = more /\ sim'.act = sim.act
    BY <1>2, <2>1 DEF Types, Sims
  <2>3. Types'
    BY <1>0, <1>4, <2>1, <2>2 DEF Types
  <2>4. InStep'
    <3>1. Simulated' = Simulated /\ Len(Simulated) < Horizon
      BY <1>0, <2>2 DEF Simulated, InStep
    <3>2. stream' \o << >> = before \o PerceptSyms(more)
      <4>. HIDE DEF before, more
      <4>. QED  BY <1>4, ConcatEmptySeq
    <3>. QED  BY <1>0, <1>6, <2>2, <3>1, <3>2 DEF InStep
  <2>5. AtStep' /\ Settled'
    BY <1>0, <2>1, <2>2 DEF AtStep, Settled
  <2>. QED  BY <1>5, <2>3, <2>4, <2>5
<1>7. CASE ~(Len(more) < PerceptBits)
  <2>1. more \in Percepts /\ step \in Steps
    <3>1. Len(more) = PerceptBits
      BY <1>2, <1>7, AgentAssumption
    <3>2. more \in Percepts
      BY <1>2, <3>1, PerceptIsSeq
    <3>. QED  BY <3>2, SimTypes DEF Steps
  <2>2. /\ pc' \in {"decide", "roll"} /\ sim' \in Sims /\ sim'.bits = << >>
        /\ pc' = "decide" => sim'.rolled = << >>
        /\ Simulated' = Append(Simulated, step)
    <3>1. CASE pc = "chance"
      <4>1. sim' = [sim EXCEPT !.bits = << >>, !.path = Append(sim.path, step)] /\ pc' = "decide"
        BY <1>7, <3>1 DEF PerceptBit
      <4>2. sim.rolled = << >>
        BY <3>1 DEF Settled
      <4>. HIDE DEF step
      <4>a. Append(sim.path, step) \in Seq(Steps)
        BY <2>1, SimTypes
      <4>. DEFINE longer == Append(sim.path, step)
      <4>b. sim' = [sim EXCEPT !.bits = << >>, !.path = longer] /\ longer \in Seq(Steps) /\ << >> \in Seq(BOOLEAN)
        BY <4>1, <4>a
      <4>. HIDE DEF longer
      <4>c. /\ sim' \in Sims /\ sim'.bits = << >> /\ sim'.rolled = sim.rolled /\ sim'.path = longer
        BY <4>b DEF Types, Sims
      <4>3. /\ sim' \in Sims /\ sim'.bits = << >> /\ sim'.rolled = << >>
            /\ sim'.path = Append(sim.path, step)
        BY <4>2, <4>c DEF longer
      <4>4. Simulated = sim.path /\ Simulated' = Append(sim.path, step)
        BY <2>1, <4>2, <4>3, SimTypes, ConcatEmptySeq DEF Simulated
      <4>. QED  BY <4>1, <4>3, <4>4
    <3>2. CASE pc = "rollchance"
      <4>1. sim' = [sim EXCEPT !.bits = << >>, !.rolled = Append(sim.rolled, step)] /\ pc' = "roll"
        BY <1>7, <3>2 DEF PerceptBit
      <4>. HIDE DEF step
      <4>. DEFINE longer == Append(sim.rolled, step)
      <4>a. sim' = [sim EXCEPT !.bits = << >>, !.rolled = longer] /\ longer \in Seq(Steps) /\ << >> \in Seq(BOOLEAN)
        BY <4>1, <2>1, SimTypes
      <4>. HIDE DEF longer
      <4>b. /\ sim' \in Sims /\ sim'.bits = << >> /\ sim'.path = sim.path /\ sim'.rolled = longer
        BY <4>a DEF Types, Sims
      <4>2. /\ sim' \in Sims /\ sim'.bits = << >> /\ sim'.path = sim.path
            /\ sim'.rolled = Append(sim.rolled, step)
        BY <4>b DEF longer
      <4>3. Simulated' = Append(Simulated, step)
        <5>1. Append(sim.path \o sim.rolled, step) = sim.path \o Append(sim.rolled, step)
          <6>. DEFINE p == sim.path
                      r == sim.rolled
          <6>1. p \in Seq(Steps) /\ r \in Seq(Steps) /\ step \in Steps
            BY <2>1, SimTypes
          <6>. HIDE DEF p, r
          <6>2. Append(p \o r, step) = p \o Append(r, step)
            BY <6>1
          <6>. QED  BY <6>2 DEF p, r
        <5>. QED  BY <4>2, <5>1 DEF Simulated
      <4>. QED  BY <4>1, <4>2, <4>3
    <3>. QED  BY <1>0, <3>1, <3>2
  <2>3. Types'
    BY <1>0, <1>4, <2>2 DEF Types, InSample
  <2>4. AtStep'
    <3>1. Len(Append(Simulated, step)) <= Horizon
      <4>1. Len(Simulated) < Horizon
        BY <1>0 DEF InStep
      <4>. HIDE DEF step
      <4>. QED  BY <2>1, <4>1, SimTypes, AgentAssumption
    <3>2. stream' = context \o StepSyms(Append(Simulated, step))
      <4>1. Step(step) = ActionSyms(sim.act) \o PerceptSyms(more)
        BY DEF Step
      <4>2. StepSyms(Append(Simulated, step)) = StepSyms(Simulated) \o Step(step)
        BY <2>1, SimTypes, StepSymsAppend
      <4>3. PerceptSyms(more) \in Seq(Bits)
        BY <1>2, PerceptBitsOK
      <4>. DEFINE s == StepSyms(Simulated)
                  t == ActionSyms(sim.act)
                  u == PerceptSyms(more)
      <4>4. s \in Seq(Bits) /\ t \in Seq(Bits) /\ u \in Seq(Bits) /\ context \in Seq(Bits)
        BY <4>3, SimTypes DEF Types
      <4>5. stream' = ((context \o s) \o t) \o u
        BY <1>4
      <4>6. StepSyms(Append(Simulated, step)) = s \o (t \o u)
        BY <4>1, <4>2
      <4>. HIDE DEF s, t, u
      <4>7. context \o s \in Seq(Bits) /\ t \o u \in Seq(Bits)
        BY <4>4, ConcatProperties
      <4>8. ((context \o s) \o t) \o u = (context \o s) \o (t \o u)
        <5>. DEFINE c == context \o s
        <5>1. c \in Seq(Bits)
          BY <4>7
        <5>. HIDE DEF c
        <5>2. (c \o t) \o u = c \o (t \o u)
          BY <4>4, <5>1, Regroup, Zenon
        <5>. QED  BY <5>2 DEF c
      <4>9. (context \o s) \o (t \o u) = context \o (s \o (t \o u))
        BY <4>4, <4>7, Regroup, Zenon
      <4>. QED  BY <4>5, <4>6, <4>8, <4>9
    <3>. QED  BY <1>0, <2>2, <3>1, <3>2 DEF AtStep
  <2>5. InStep' /\ Settled'
    BY <2>2 DEF InStep, Settled
  <2>. QED  BY <1>5, <2>3, <2>4, <2>5
<1>. QED  BY <1>6, <1>7

\* At the horizon: what is to be popped is what was pushed.
LEMMA EndSampleStep == IInv /\ EndSample => IInv'
<1>. SUFFICES ASSUME IInv, EndSample PROVE IInv'
  OBVIOUS
<1>. USE DEF IInv
<1>. DEFINE t == StepSyms(Simulated)
<1>0. /\ pc \in {"decide", "roll"} /\ pc' = "backup" /\ Len(Simulated) = Horizon
      /\ Revert(Horizon) /\ todo = << >> /\ takeback = << >>
      /\ UNCHANGED <<scoped, context, percept, choice, sim>>
  BY DEF EndSample, Deep, Calls, cycleVars
<1>1. stream = context \o t /\ Simulated \in Seq(Steps) /\ context \in Seq(Bits) /\ stream \in Seq(Bits)
  BY <1>0, SimTypes DEF AtStep, Types
<1>2. t \in Seq(Bits) /\ Len(t) = Horizon * W /\ Horizon * W \in Nat /\ Len(context) \in Nat
  BY <1>0, <1>1, StepSymsOK
<1>. HIDE DEF t
<1>3. /\ Len(stream) = Len(context) + Len(t)
      /\ \A i \in 1 .. Len(context) + Len(t) :
           stream[i] = IF i <= Len(context) THEN context[i] ELSE t[i - Len(context)]
  BY <1>1, <1>2, ConcatProperties
<1>4. \A i \in 1 .. Len(context) : stream[i] = context[i]
  BY <1>2, <1>3
<1>5. CASE scopes # << >>
  <2>1. scopes = <<Len(context)>>
    BY <1>5 DEF Calls
  <2>2. /\ stream' = SubSeq(stream, 1, Len(context)) /\ scopes' = << >>
        /\ todo' = todo /\ takeback' = takeback
    BY <1>0, <1>5, <2>1 DEF Revert
  <2>3. SubSeq(stream, 1, Len(context)) = context
    <3>1. /\ SubSeq(stream, 1, Len(context)) \in Seq(Bits) /\ Len(SubSeq(stream, 1, Len(context))) = Len(context)
          /\ \A i \in 1 .. Len(context) : SubSeq(stream, 1, Len(context))[i] = stream[i]
      BY <1>1, <1>2, <1>3
    <3>. QED  BY <1>1, <1>4, <3>1, SeqEqual
  <2>4. Types'
    BY <1>0, <1>1, <2>2, <2>3 DEF Types
  <2>5. Calls'
    BY <1>0, <2>2 DEF Calls, InSample
  <2>6. InRevert'
    BY <1>0, <1>2, <2>2, <2>3 DEF InRevert
  <2>. QED  BY <1>0, <2>4, <2>5, <2>6 DEF AtStep, InStep, Settled
<1>6. CASE scopes = << >>
  <2>1. takeback' = Kinds(Horizon) /\ stream' = stream /\ scopes' = scopes /\ todo' = todo
    BY <1>0, <1>6 DEF Revert
  <2>2. ASSUME NEW i \in 1 .. Horizon * W
        PROVE  /\ Kinds(Horizon)[i] = t[Horizon * W + 1 - i].op
               /\ Kinds(Horizon)[i] \in {"adaptive", "frozen"}
    BY <1>0, <1>1, KindsMatch DEF t
  <2>3. Kinds(Horizon) \in Seq({"adaptive", "frozen"}) /\ Len(Kinds(Horizon)) = Horizon * W
    <3>. DEFINE n == Horizon * W
                e(i) == IF (i - 1) % W < PerceptBits THEN "adaptive" ELSE "frozen"
    <3>1. PerceptBits + ActionBits = W
      BY AgentAssumption DEF W
    <3>2. Kinds(Horizon) = [i \in 1 .. n |-> e(i)] /\ n \in Nat
      BY <1>2, <3>1 DEF Kinds
    <3>3. \A i \in 1 .. n : e(i) \in {"adaptive", "frozen"}
      OBVIOUS
    <3>. HIDE DEF n, e
    <3>4. Kinds(Horizon) \in Seq({"adaptive", "frozen"}) /\ Len(Kinds(Horizon)) = n
      BY <3>2, <3>3
    <3>. QED  BY <3>4 DEF n
  <2>4. Types'
    BY <1>0, <2>1, <2>3 DEF Types
  <2>5. Calls'
    BY <1>0, <1>6, <2>1 DEF Calls, InSample
  <2>6. InRevert'
    <3>1. ASSUME NEW i \in 1 .. Len(takeback')
          PROVE  takeback'[i] = stream'[Len(stream') + 1 - i].op
      <4>. DEFINE n == Horizon * W
                  c == Len(context)
      <4>1. i \in 1 .. n /\ n \in Nat /\ c \in Nat /\ Len(t) = n /\ Len(stream) = c + n
        BY <1>2, <1>3, <2>1, <2>3
      <4>2. takeback'[i] = t[n + 1 - i].op
        BY <2>1, <2>2, <4>1
      <4>. HIDE DEF n
      <4>3. /\ c + n + 1 - i \in 1 .. c + n /\ ~(c + n + 1 - i <= c)
            /\ (c + n + 1 - i) - c = n + 1 - i
        <5>. HIDE DEF c
        <5>. QED  BY <4>1
      <4>4. stream[c + n + 1 - i] = t[n + 1 - i]
        BY <1>3, <4>1, <4>3
      <4>. QED  BY <2>1, <4>1, <4>2, <4>4
    <3>. QED  BY <1>0, <1>2, <1>3, <1>4, <2>1, <2>3, <3>1 DEF InRevert
  <2>. QED  BY <1>0, <2>4, <2>5, <2>6 DEF AtStep, InStep, Settled
<1>. QED  BY <1>5, <1>6

\* Nothing is left of a sample that was taken back.
LEMMA Reverted == IInv /\ pc = "backup" /\ Ready => stream = context
<1>. SUFFICES ASSUME IInv, pc = "backup", Ready PROVE stream = context
  OBVIOUS
<1>1. stream \in Seq(Bits) /\ context \in Seq(Bits) /\ Len(takeback) = 0
  BY DEF IInv, Types, Ready
<1>2. Len(stream) = Len(context) /\ \A i \in 1 .. Len(stream) : stream[i] = context[i]
  BY <1>1 DEF IInv, InRevert
<1>. QED  BY <1>1, <1>2, SeqEqual

LEMMA BackupStep == IInv /\ Backup => IInv'
<1>. SUFFICES ASSUME IInv, Backup PROVE IInv'
  OBVIOUS
<1>. USE DEF IInv
<1>0. /\ pc = "backup" /\ pc' = "search" /\ Ready /\ sim' = NoSim
      /\ UNCHANGED <<scoped, stream, scopes, todo, takeback, context, percept, choice>>
  BY DEF Backup, modelVars, cycleVars
<1>1. stream = context
  BY <1>0, Reverted
<1>2. NoSim \in Sims
  BY AgentAssumption DEF NoSim, Sims, Actions
<1>. QED  BY <1>0, <1>1, <1>2 DEF Types, Calls, AtStep, InStep, InRevert, Settled, InSample, Ready

LEMMA NextInv == IInv /\ [Next]_vars => IInv'
<1>. SUFFICES ASSUME IInv, [Next]_vars PROVE IInv'
  OBVIOUS
<1>1. ASSUME Push PROVE IInv'
  BY <1>1, PushStep
<1>2. ASSUME Pop PROVE IInv'
  BY <1>2, PopStep
<1>3. ASSUME \/ LearnPercept \/ BeginSearch \/ Act \/ Fail
             \/ \E a \in Actions : Explore(a) \/ EndSearch(a)
             \/ \E x \in Percepts : Perform(x) \/ NewEpisode(x)
      PROVE  IInv'
  BY <1>3, CycleStep
<1>4. ASSUME BeginSample PROVE IInv'
  BY <1>4, BeginSampleStep
<1>5. ASSUME NEW a \in Actions, SelectAction(a) PROVE IInv'
  BY <1>5, ImagineStep DEF SelectAction, cycleVars
<1>6. ASSUME NEW a \in Actions, RollAction(a) PROVE IInv'
  BY <1>6, ImagineStep DEF RollAction, treeVars, cycleVars
<1>7. ASSUME NEW b \in BOOLEAN, PerceptBit(b) PROVE IInv'
  BY <1>7, PerceptBitStep
<1>8. ASSUME EndSample PROVE IInv'
  BY <1>8, EndSampleStep
<1>9. ASSUME Backup PROVE IInv'
  BY <1>9, BackupStep
<1>10. ASSUME UNCHANGED vars PROVE IInv'
  <2>1. UNCHANGED <<scoped, stream, scopes, todo, takeback, pc, percept, choice, context, sim>>
    BY <1>10 DEF vars, modelVars, cycleVars
  <2>. QED  BY <2>1 DEF IInv, Types, Calls, AtStep, InStep, InRevert, Settled, Simulated
<1>. QED  BY <1>1, <1>2, <1>3, <1>4, <1>5, <1>6, <1>7, <1>8, <1>9, <1>10 DEF Next

\* The strengthened invariant holds in every reachable state.
THEOREM Inductive == Spec => []IInv
  BY InitInv, NextInv, PTL DEF Spec

\* During a search the predictor is conditioned on the real history and the sample
\* in progress, and on the real history alone once a sample was taken back: for every
\* width of actions and percepts, every horizon and every number of samples.
THEOREM SimulationIsExact == Spec => []SimulationExact
<1>1. IInv => SimulationExact
  <2>. SUFFICES ASSUME IInv PROVE SimulationExact
    OBVIOUS
  <2>1. pc # "dead"
    BY DEF IInv, Types, InSample
  <2>2. pc \in {"decide", "roll"} => stream = context \o StepSyms(Simulated)
    BY DEF IInv, AtStep
  <2>3. pc \in {"chance", "rollchance"} =>
          stream \o todo = context \o StepSyms(Simulated) \o ActionSyms(sim.act) \o PerceptSyms(sim.bits)
    BY DEF IInv, InStep
  <2>4. pc \in {"search", "backup"} /\ Ready => stream = context /\ scopes = << >>
    BY Reverted DEF IInv, Settled, Calls, InSample
  <2>. QED  BY <2>1, <2>2, <2>3, <2>4 DEF SimulationExact
<1>. QED  BY <1>1, Inductive, PTL

-----------------------------------------------------------------------------
(* The history *)

Seen == Learned(past) \o PerceptSyms(percept)

\* What the cycle has pushed, or is about to, since the last percept was learned.
Remembers ==
  /\ past \in Seq(Moments)
  /\ ~failed =>
       /\ pc = "idle" => stream = Learned(past)
       /\ pc = "plan" => stream \o todo = Seen
       /\ Searching => context = Seen
       /\ pc = "act" => stream = Seen
       /\ pc = "env" => stream \o todo = Seen \o ActionSyms(choice)

LEMMA NoHistory == Learned(<< >>) = << >>
<1>1. << >> \in Seq(Blocks) /\ Len(<< >>) = 0 /\ Len(<< >>) * W = 0
  BY WPos
<1>2. Joined(<< >>) \in Seq(Bits) /\ Len(Joined(<< >>)) = 0
  BY <1>1, JoinedOK
<1>3. Learned(<< >>) = Joined(<< >>)
  <2>1. [k \in DOMAIN << >> |-> PerceptSyms(<< >>[k][1]) \o ActionSyms(<< >>[k][2])] = << >>
    OBVIOUS
  <2>. QED  BY <2>1 DEF Learned
<1>. QED  BY <1>2, <1>3, EmptySeq

LEMMA RemembersInit == Init => Remembers
  BY NoHistory DEF Init, Remembers, Searching

LEMMA SeenType ==
  ASSUME IInv, Remembers
  PROVE  /\ stream \in Seq(Bits) /\ todo \in Seq(Bits) /\ context \in Seq(Bits)
         /\ Learned(past) \in Seq(Bits) /\ PerceptSyms(percept) \in Seq(Bits) /\ Seen \in Seq(Bits)
         /\ <<percept, choice>> \in Moments
<1>1. /\ stream \in Seq(Bits) /\ todo \in Seq(Bits) /\ context \in Seq(Bits)
      /\ percept \in Percepts /\ choice \in Actions /\ past \in Seq(Moments)
  BY DEF IInv, Types, Remembers
<1>2. PerceptSyms(percept) \in Seq(Bits) /\ <<percept, choice>> \in Moments
  BY <1>1, PerceptIsSeq, PerceptBitsOK DEF Moments
<1>3. Learned(past) \in Seq(Bits)
  BY <1>1, <1>2, LearnedAppend
<1>. QED  BY <1>1, <1>2, <1>3, ConcatProperties DEF Seen

\* Nothing is left to push.
LEMMA AllPushed == ASSUME IInv, todo = << >> PROVE stream \o todo = stream
  BY ConcatEmptySeq DEF IInv, Types

LEMMA RemembersNext == IInv /\ Remembers /\ [Next]_vars => Remembers'
<1>. SUFFICES ASSUME IInv, Remembers, [Next]_vars PROVE Remembers'
  OBVIOUS
<1>0. /\ stream \in Seq(Bits) /\ todo \in Seq(Bits) /\ context \in Seq(Bits)
      /\ Learned(past) \in Seq(Bits) /\ PerceptSyms(percept) \in Seq(Bits) /\ Seen \in Seq(Bits)
      /\ <<percept, choice>> \in Moments /\ past \in Seq(Moments)
  BY SeenType DEF Remembers
<1>1. CASE Push
  <2>1. /\ todo # << >> /\ stream' = Append(stream, Head(todo)) /\ todo' = Tail(todo)
        /\ UNCHANGED <<pc, past, percept, choice, context, failed>>
        /\ pc \in {"plan", "env", "chance", "rollchance"}
    BY <1>1 DEF Push, cycleVars, IInv, Calls
  <2>2. stream' \o todo' = stream \o todo
    BY <1>0, <2>1, MoveHead
  <2>. QED  BY <2>1, <2>2 DEF Remembers, Seen, Searching
<1>2. CASE LearnPercept
  <2>1. /\ pc = "idle" /\ pc' = "plan" /\ todo' = PerceptSyms(percept)
        /\ UNCHANGED <<stream, past, percept, failed>>
    BY <1>2 DEF LearnPercept
  <2>. QED  BY <2>1 DEF Remembers, Seen, Searching
<1>3. CASE BeginSearch \/ \E a \in Actions : Explore(a)
  <2>1. /\ pc = "plan" /\ todo = << >> /\ UNCHANGED <<stream, past, percept, failed>>
        /\ pc' \in {"act", "search"} /\ (pc' = "search" => context' = stream)
    BY <1>3 DEF BeginSearch, Explore, Ready, modelVars
  <2>2. ~failed => stream = Seen
    BY <2>1, AllPushed DEF Remembers
  <2>. QED  BY <2>1, <2>2 DEF Remembers, Seen, Searching
<1>4. CASE \E a \in Actions : EndSearch(a)
  <2>1. /\ pc = "search" /\ pc' = "act" /\ stream = context
        /\ UNCHANGED <<stream, past, percept, failed>>
    BY <1>4 DEF EndSearch, modelVars, cycleVars, IInv, Settled
  <2>. QED  BY <2>1 DEF Remembers, Seen, Searching
<1>5. CASE Act
  <2>1. /\ pc = "act" /\ pc' = "env" /\ todo' = ActionSyms(choice)
        /\ UNCHANGED <<stream, past, percept, choice, failed>>
    BY <1>5 DEF Act, cycleVars
  <2>. QED  BY <2>1 DEF Remembers, Seen, Searching
<1>6. CASE Fail
  BY <1>6 DEF Fail, Remembers
<1>7. CASE \E x \in Percepts : Perform(x)
  <2>1. /\ pc = "env" /\ pc' = "idle" /\ todo = << >> /\ past' = Append(past, <<percept, choice>>)
        /\ UNCHANGED <<stream, failed>>
    BY <1>7 DEF Perform, Ready, modelVars
  <2>. DEFINE m == <<percept, choice>>
  <2>2. Learned(Append(past, m)) = Learned(past) \o Moment(m) /\ Append(past, m) \in Seq(Moments)
    <3>. HIDE DEF m
    <3>1. m \in Moments
      BY <1>0 DEF m
    <3>. QED  BY <1>0, <3>1, LearnedAppend
  <2>3. Moment(m) = PerceptSyms(percept) \o ActionSyms(choice)
    BY DEF Moment
  <2>4. Learned(past) \o Moment(m) = Seen \o ActionSyms(choice)
    <3>. DEFINE l == Learned(past)
                p == PerceptSyms(percept)
                c == ActionSyms(choice)
    <3>1. l \in Seq(Bits) /\ p \in Seq(Bits) /\ c \in Seq(Bits)
      BY <1>0, ActionBitsOK
    <3>. HIDE DEF l, p, c
    <3>2. (l \o p) \o c = l \o (p \o c)
      BY <3>1, Regroup
    <3>. QED  BY <2>3, <3>2 DEF Seen, l, p, c
  <2>5. ~failed => stream = Seen \o ActionSyms(choice)
    BY <2>1, AllPushed DEF Remembers
  <2>. QED  BY <2>1, <2>2, <2>4, <2>5 DEF Remembers, Searching
<1>8. CASE \E x \in Percepts : NewEpisode(x)
  <2>1. pc = "idle" /\ UNCHANGED <<pc, stream, past, failed>>
    BY <1>8 DEF NewEpisode, modelVars
  <2>. QED  BY <2>1 DEF Remembers, Searching
<1>9. CASE \/ Pop \/ BeginSample \/ EndSample \/ Backup \/ UNCHANGED vars
           \/ \E a \in Actions : SelectAction(a) \/ RollAction(a)
           \/ \E b \in BOOLEAN : PerceptBit(b)
  <2>1. CASE UNCHANGED vars
    BY <2>1 DEF vars, modelVars, cycleVars, Remembers, Seen, Searching
  <2>2. CASE ~UNCHANGED vars
    <3>1. UNCHANGED <<past, percept, context, failed>>
      BY <1>9, <2>2 DEF Pop, BeginSample, EndSample, Backup, SelectAction, RollAction, PerceptBit, cycleVars
    <3>2. Searching
      BY <1>9, <2>2 DEF Pop, BeginSample, EndSample, Backup, SelectAction, RollAction, PerceptBit,
                        Searching, IInv, Calls
    <3>3. pc' \in {"search", "decide", "chance", "roll", "rollchance", "backup", "dead"}
      BY <1>9, <2>2, <3>2 DEF Pop, BeginSample, EndSample, Backup, SelectAction, RollAction, PerceptBit,
                              Searching
    <3>. QED  BY <3>1, <3>2, <3>3 DEF Remembers, Seen, Searching
  <2>. QED  BY <2>1, <2>2
<1>. QED  BY <1>1, <1>2, <1>3, <1>4, <1>5, <1>6, <1>7, <1>8, <1>9 DEF Next

\* StreamIsPast: unless a cycle has failed, the predictor has learned what the
\* environment showed and was told, each thing once and in order.
THEOREM StreamIsThePast == Spec => []StreamIsPast
<1>1. Spec => []Remembers
  BY Inductive, RemembersInit, RemembersNext, PTL DEF Spec
<1>2. IInv /\ Remembers => StreamIsPast
  BY DEF IInv, Settled, Remembers, Seen, Searching, StreamIsPast
<1>. QED  BY <1>1, <1>2, Inductive, PTL

-----------------------------------------------------------------------------
(* The reuse of the tree *)

\* The samples have their types, but for what they were worth.
Logged ==
  /\ \E S : log \in Seq(S)
  /\ \A i \in 1 .. Len(log) :
       log[i].path \in Seq(Steps) /\ log[i].depth \in Nat /\ log[i].about \in Seq(Bits)

Kept == Logged /\ prevAct \in Actions

\* What was pushed since a sample was drawn is its own history's next action and
\* percept.
Current ==
  ~explored /\ ~failed => \A i \in 1 .. Len(log) : log[i].depth > 0 =>
    /\ pc = "idle" => stream = log[i].about \o ActionSyms(prevAct)
    /\ pc = "plan" => stream \o todo = log[i].about \o ActionSyms(prevAct) \o PerceptSyms(percept)
    /\ Searching => log[i].about = context
    /\ pc = "act" => log[i].about = stream
    /\ pc = "env" => stream \o todo = log[i].about \o ActionSyms(choice)

LEMMA LogDomain == Logged => Len(log) \in Nat /\ DOMAIN log = 1 .. Len(log)
BY DEF Logged

\* A prefix of a sequence of steps.
LEMMA PrefixFacts ==
  ASSUME NEW s \in Seq(Steps), NEW t \in Seq(Steps)
  PROVE  IsPrefix(s, t) <=> Len(s) <= Len(t) /\ \A i \in 1 .. Len(s) : s[i] = t[i]
<1>. DEFINE n == Len(s)
<1>1. n \in Nat /\ Len(t) \in Nat
  OBVIOUS
<1>2. SubSeq(s, 1, n) = s
  BY SubSeqFull
<1>3. CASE n <= Len(t)
  <2>1. SubSeq(t, 1, n) \in Seq(Steps) /\ Len(SubSeq(t, 1, n)) = n
        /\ \A i \in 1 .. n : SubSeq(t, 1, n)[i] = t[i]
    BY <1>1, <1>3
  <2>2. s = SubSeq(t, 1, n) <=> \A i \in 1 .. n : s[i] = t[i]
    BY <2>1, SeqEqual
  <2>. QED  BY <1>2, <1>3, <2>2 DEF IsPrefix
<1>4. CASE ~(n <= Len(t))
  BY <1>4 DEF IsPrefix
<1>. QED  BY <1>3, <1>4

\* The samples after the tree was re-rooted.
LEMMA RerootLog ==
  ASSUME Logged, NEW a \in Actions, NEW x \in Percepts, Reroot(a, x)
  PROVE  /\ Logged' /\ Len(log') = Len(log)
         /\ \A i \in 1 .. Len(log) :
              \/ /\ IsPrefix(<< <<a, x>> >>, log[i].path) /\ log[i].depth > 1
                 /\ log'[i].path = Tail(log[i].path) /\ log'[i].tail = log[i].tail
                 /\ log'[i].depth = log[i].depth - 1
                 /\ log'[i].about = (log[i].about \o ActionSyms(a)) \o PerceptSyms(x)
              \/ /\ ~(IsPrefix(<< <<a, x>> >>, log[i].path) /\ log[i].depth > 1)
                 /\ log'[i].path = << >> /\ log'[i].depth = 0
<1>. DEFINE r == << <<a, x>> >>
            n == Len(log)
            New(e) == [path |-> Tail(e.path), tail |-> e.tail, depth |-> e.depth - 1,
                       about |-> e.about \o ActionSyms(a) \o PerceptSyms(x)]
            Stays(e) == IsPrefix(r, e.path) /\ e.depth > 1
<1>1. n \in Nat /\ DOMAIN log = 1 .. n
  BY LogDomain
<1>2. log' = [i \in 1 .. n |-> IF Stays(log[i]) THEN New(log[i]) ELSE Forgotten]
  BY <1>1 DEF Reroot
<1>3. r \in Seq(Steps) /\ Len(r) = 1
  BY DEF Steps
<1>4. \A e : /\ New(e).path = Tail(e.path) /\ New(e).depth = e.depth - 1
             /\ New(e).tail = e.tail
             /\ New(e).about = (e.about \o ActionSyms(a)) \o PerceptSyms(x)
  OBVIOUS
<1>5. Forgotten.path = << >> /\ Forgotten.depth = 0 /\ Forgotten.about = << >>
  BY DEF Forgotten
<1>. HIDE DEF New, n
<1>6. Len(log') = n /\ DOMAIN log' = 1 .. n /\ \E S : log' \in Seq(S)
  <2>. DEFINE S == {log'[i] : i \in 1 .. n}
  <2>1. DOMAIN log' = 1 .. n /\ log' = [i \in 1 .. n |-> log'[i]]
    BY <1>2
  <2>2. log' \in [1 .. n -> S]
    <3>1. \A i \in 1 .. n : log'[i] \in S
      OBVIOUS
    <3>. HIDE DEF S
    <3>. QED  BY <2>1, <3>1
  <2>. HIDE DEF S
  <2>3. log' \in Seq(S) /\ Len(log') = n
    BY <1>1, <2>2
  <2>. QED  BY <2>1, <2>3
<1>9. ASSUME NEW i \in 1 .. n
      PROVE  \/ Stays(log[i]) /\ log'[i] = New(log[i])
             \/ ~Stays(log[i]) /\ log'[i] = Forgotten
  <2>. HIDE DEF Stays
  <2>. QED  BY <1>2
<1>7. ASSUME NEW i \in 1 .. n
      PROVE  log'[i].path \in Seq(Steps) /\ log'[i].depth \in Nat /\ log'[i].about \in Seq(Bits)
  <2>. DEFINE e == log[i]
  <2>1. e.path \in Seq(Steps) /\ e.depth \in Nat /\ e.about \in Seq(Bits)
    BY DEF Logged, n
  <2>2. log'[i] = IF Stays(e) THEN New(e) ELSE Forgotten
    BY <1>2
  <2>. HIDE DEF e
  <2>3. CASE Stays(e)
    <3>1. Len(e.path) >= 1
      BY <1>3, <2>1, <2>3, PrefixFacts
    <3>2. Tail(e.path) \in Seq(Steps)
      <4>1. e.path # << >>
        BY <3>1, EmptySeq
      <4>. QED  BY <2>1, <4>1, HeadTailProperties
    <3>3. e.depth - 1 \in Nat
      BY <2>1, <2>3
    <3>4. (e.about \o ActionSyms(a)) \o PerceptSyms(x) \in Seq(Bits)
      BY <2>1, ActionBitsOK, PerceptIsSeq, PerceptBitsOK, ConcatProperties
    <3>. QED  BY <1>4, <2>2, <2>3, <3>2, <3>3, <3>4
  <2>4. CASE ~Stays(e)
    <3>1. << >> \in Seq(Steps) /\ << >> \in Seq(Bits)
      OBVIOUS
    <3>2. log'[i] = Forgotten
      BY <1>9, <2>4 DEF e
    <3>3. Forgotten.path \in Seq(Steps) /\ Forgotten.depth \in Nat /\ Forgotten.about \in Seq(Bits)
      BY <1>5, <3>1
    <3>. QED  BY <3>2, <3>3, Zenon
  <2>. QED  BY <2>3, <2>4
<1>8. Logged'
  BY <1>6, <1>7 DEF Logged
<1>. QED  BY <1>4, <1>5, <1>6, <1>8, <1>9 DEF n

LEMMA NoLog == log' = << >> => Logged' /\ Len(log') = 0
<1>1. << >> \in Seq({}) /\ Len(<< >>) = 0 /\ 1 .. Len(<< >>) = {}
  BY EmptySeq
<1>. QED  BY <1>1 DEF Logged

\* A sample more.
LEMMA BackupLog ==
  ASSUME IInv, Logged, Backup
  PROVE  /\ Logged' /\ Len(log') = Len(log) + 1
         /\ \A i \in 1 .. Len(log) : log'[i] = log[i]
         /\ log'[Len(log) + 1].path = sim.path /\ log'[Len(log) + 1].depth = Horizon
         /\ log'[Len(log) + 1].about = context
<1>. DEFINE tail == FoldSeq(LAMBDA s, r : Reward(s[2]) + r, 0, sim.rolled)
            e == [path |-> sim.path, tail |-> tail, depth |-> Horizon, about |-> context]
            n == Len(log)
<1>1. log' = Append(log, e)
  BY DEF Backup
<1>2. e.path \in Seq(Steps) /\ e.depth \in Nat /\ e.about \in Seq(Bits)
  BY SimTypes, AgentAssumption DEF IInv, Types
<1>3. e.path = sim.path /\ e.depth = Horizon /\ e.about = context
  OBVIOUS
<1>. HIDE DEF e
<1>4. PICK S : log \in Seq(S)
  BY DEF Logged
<1>5. /\ Append(log, e) \in Seq(S \cup {e}) /\ Len(Append(log, e)) = n + 1 /\ n \in Nat
      /\ Append(log, e)[n + 1] = e /\ \A i \in 1 .. n : Append(log, e)[i] = log[i]
  <2>1. log \in Seq(S \cup {e})
    BY <1>4
  <2>. QED  BY <2>1, AppendProperties
<1>6. \A i \in 1 .. n + 1 : i = n + 1 \/ i \in 1 .. n
  BY <1>5
<1>7. Logged'
  BY <1>1, <1>2, <1>5, <1>6 DEF Logged
<1>. QED  BY <1>1, <1>3, <1>5, <1>7 DEF n

LEMMA KeptNext == IInv /\ Kept /\ [Next]_vars => Kept'
<1>. SUFFICES ASSUME IInv, Kept, [Next]_vars PROVE Kept'
  OBVIOUS
<1>0. prevAct' \in Actions
  <2>1. 0 \in Actions /\ choice \in Actions
    BY AgentAssumption DEF Actions, IInv, Types
  <2>2. CASE \E x \in Percepts : Perform(x) \/ NewEpisode(x)
    BY <2>1, <2>2 DEF Perform, NewEpisode
  <2>3. CASE prevAct' = prevAct
    BY <2>3 DEF Kept
  <2>. QED  BY <2>2, <2>3
            DEF Next, Push, Pop, LearnPercept, Explore, SelectAction, RollAction, EndSearch, BeginSample,
                BeginSearch, Backup, PerceptBit, EndSample, Act, Fail, cycleVars, vars
<1>. SUFFICES Logged'
  BY <1>0 DEF Kept
<1>. USE DEF Kept
<1>1. CASE log' = log
  BY <1>1 DEF Logged
<1>2. CASE Backup
  BY <1>2, BackupLog
<1>3. CASE BeginSearch
  <2>1. percept \in Percepts
    BY DEF IInv, Types
  <2>2. CASE Sampled(prevAct, percept)
    BY <1>3, <2>1, <2>2, RerootLog DEF BeginSearch, Prune
  <2>3. CASE ~Sampled(prevAct, percept)
    BY <1>3, <2>3, NoLog DEF BeginSearch, Prune, NewTree
  <2>. QED  BY <2>2, <2>3
<1>4. CASE \E x \in Percepts : NewEpisode(x)
  BY <1>4, NoLog DEF NewEpisode, NewTree
<1>. QED  BY <1>1, <1>2, <1>3, <1>4
          DEF Next, Push, Pop, LearnPercept, Explore, SelectAction, RollAction, EndSearch, BeginSample,
              PerceptBit, EndSample, Act, Fail, Perform, treeVars, vars

LEMMA KeptAlways == Spec => []Kept
<1>1. Init => Kept
  <2>. SUFFICES ASSUME Init PROVE Kept
    OBVIOUS
  <2>1. << >> \in Seq({}) /\ 1 .. Len(<< >>) = {}
    BY EmptySeq
  <2>2. 0 \in Actions
    BY AgentAssumption DEF Actions
  <2>. QED  BY <2>1, <2>2 DEF Init, Logged, Kept
<1>. QED  BY <1>1, KeptNext, Inductive, PTL DEF Spec

LEMMA CurrentNext == IInv /\ Kept /\ Current /\ [Next]_vars => Current'
<1>. SUFFICES ASSUME IInv, Kept, Current, [Next]_vars PROVE Current'
  OBVIOUS
<1>0. /\ stream \in Seq(Bits) /\ todo \in Seq(Bits) /\ context \in Seq(Bits) /\ percept \in Percepts
      /\ Len(log) \in Nat
  BY LogDomain DEF IInv, Types, Kept
<1>. USE DEF Kept
<1>1. CASE Push
  <2>1. /\ todo # << >> /\ stream' = Append(stream, Head(todo)) /\ todo' = Tail(todo)
        /\ UNCHANGED <<pc, log, percept, prevAct, choice, context, failed, explored>>
        /\ pc \in {"plan", "env", "chance", "rollchance"}
    BY <1>1 DEF Push, treeVars, cycleVars, IInv, Calls
  <2>2. stream' \o todo' = stream \o todo
    BY <1>0, <2>1, MoveHead
  <2>. QED  BY <2>1, <2>2 DEF Current, Searching
<1>2. CASE LearnPercept
  <2>1. /\ pc = "idle" /\ pc' = "plan" /\ todo' = PerceptSyms(percept)
        /\ UNCHANGED <<stream, log, percept, prevAct, failed, explored>>
    BY <1>2 DEF LearnPercept, treeVars
  <2>. QED  BY <2>1 DEF Current, Searching
<1>3. CASE BeginSearch
  <2>1. /\ pc = "plan" /\ todo = << >> /\ pc' = "search" /\ context' = stream
        /\ UNCHANGED <<failed, explored>> /\ Prune(prevAct, percept)
    BY <1>3 DEF BeginSearch, Ready
  <2>2. ASSUME ~explored, ~failed, NEW i \in 1 .. Len(log'), log'[i].depth > 0
        PROVE  log'[i].about = stream
    <3>1. Reroot(prevAct, percept)
      <4>1. Len(log') # 0
        OBVIOUS
      <4>. QED  BY <2>1, <4>1, NoLog DEF Prune, NewTree
    <3>2. i \in 1 .. Len(log)
      <4>1. Len(log') = Len(log)
        BY <1>0, <3>1, RerootLog
      <4>. QED  BY <4>1
    <3>3. /\ log[i].depth > 1
          /\ log'[i].about = (log[i].about \o ActionSyms(prevAct)) \o PerceptSyms(percept)
      <4>1. \/ /\ log[i].depth > 1
               /\ log'[i].about = (log[i].about \o ActionSyms(prevAct)) \o PerceptSyms(percept)
            \/ log'[i].depth = 0
        <5>. HIDE DEF IsPrefix
        <5>. QED  BY <1>0, <3>1, <3>2, RerootLog
      <4>. QED  BY <2>2, <4>1
    <3>4. log[i].depth > 0
      BY <3>2, <3>3 DEF Logged
    <3>5. stream \o todo = (log[i].about \o ActionSyms(prevAct)) \o PerceptSyms(percept)
      BY <2>1, <2>2, <3>2, <3>4 DEF Current
    <3>. QED  BY <2>1, <3>3, <3>5, AllPushed
  <2>. QED  BY <2>1, <2>2 DEF Current, Searching
<1>4. CASE \E a \in Actions : Explore(a)
  BY <1>4 DEF Explore, Current
<1>5. CASE \E a \in Actions : EndSearch(a)
  <2>1. /\ pc = "search" /\ pc' = "act" /\ stream = context
        /\ UNCHANGED <<stream, log, failed, explored>>
    BY <1>5 DEF EndSearch, modelVars, treeVars, cycleVars, IInv, Settled
  <2>. QED  BY <2>1 DEF Current, Searching
<1>6. CASE Act
  <2>1. /\ pc = "act" /\ pc' = "env" /\ todo' = ActionSyms(choice)
        /\ UNCHANGED <<stream, log, choice, failed, explored>>
    BY <1>6 DEF Act, treeVars, cycleVars
  <2>. QED  BY <2>1 DEF Current, Searching
<1>7. CASE Fail
  BY <1>7 DEF Fail, Current
<1>8. CASE \E x \in Percepts : Perform(x)
  <2>1. /\ pc = "env" /\ pc' = "idle" /\ todo = << >> /\ prevAct' = choice
        /\ UNCHANGED <<stream, log, failed, explored>>
    BY <1>8 DEF Perform, Ready, modelVars, treeVars
  <2>. QED  BY <2>1, AllPushed DEF Current, Searching
<1>9. CASE \E x \in Percepts : NewEpisode(x)
  <2>1. log' = << >>
    BY <1>9 DEF NewEpisode, NewTree
  <2>2. 1 .. Len(log') = {}
    BY <2>1, NoLog
  <2>. QED  BY <2>2 DEF Current
<1>10. CASE Backup
  <2>1. /\ pc = "backup" /\ pc' = "search" /\ UNCHANGED <<context, failed, explored>>
    BY <1>10 DEF Backup, cycleVars
  <2>2. ASSUME ~explored, ~failed, NEW i \in 1 .. Len(log'), log'[i].depth > 0
        PROVE  log'[i].about = context
    <3>1. /\ Len(log') = Len(log) + 1 /\ \A k \in 1 .. Len(log) : log'[k] = log[k]
          /\ log'[Len(log) + 1].about = context
      BY <1>10, BackupLog
    <3>2. i = Len(log) + 1 \/ i \in 1 .. Len(log)
      BY <1>0, <3>1
    <3>3. Searching
      BY <2>1 DEF Searching
    <3>. QED  BY <2>2, <3>1, <3>2, <3>3 DEF Current
  <2>. QED  BY <2>1, <2>2 DEF Current, Searching
<1>11. CASE \/ Pop \/ BeginSample \/ EndSample \/ UNCHANGED vars
            \/ \E a \in Actions : SelectAction(a) \/ RollAction(a)
            \/ \E b \in BOOLEAN : PerceptBit(b)
  <2>1. CASE UNCHANGED vars
    BY <2>1 DEF vars, modelVars, treeVars, cycleVars, Current, Searching
  <2>2. CASE ~UNCHANGED vars
    <3>1. UNCHANGED <<log, context, failed, explored>>
      BY <1>11, <2>2 DEF Pop, BeginSample, EndSample, SelectAction, RollAction, PerceptBit, treeVars, cycleVars
    <3>2. Searching
      BY <1>11, <2>2 DEF Pop, BeginSample, EndSample, SelectAction, RollAction, PerceptBit,
                         Searching, IInv, Calls
    <3>3. pc' \in {"search", "decide", "chance", "roll", "rollchance", "backup", "dead"}
      BY <1>11, <2>2, <3>2 DEF Pop, BeginSample, EndSample, SelectAction, RollAction, PerceptBit, Searching
    <3>. QED  BY <3>1, <3>2, <3>3 DEF Current, Searching
  <2>. QED  BY <2>1, <2>2
<1>. QED  BY <1>1, <1>2, <1>3, <1>4, <1>5, <1>6, <1>7, <1>8, <1>9, <1>10, <1>11 DEF Next

\* ReuseExact: without exploratory actions and failed cycles, every sample behind
\* the tree was drawn from the very history that the search plans for.
THEOREM ReuseIsExact == Spec => []ReuseExact
<1>1. Init => Current
  <2>1. 1 .. Len(<< >>) = {}
    BY EmptySeq
  <2>. QED  BY <2>1 DEF Init, Current
<1>2. Spec => []Current
  BY <1>1, CurrentNext, KeptAlways, Inductive, PTL DEF Spec
<1>3. Kept /\ Current => ReuseExact
  BY LogDomain DEF Kept, Current, ReuseExact, TreeIsCurrent
<1>. QED  BY <1>2, <1>3, KeptAlways, PTL

-----------------------------------------------------------------------------
(* Sums over a set of samples *)

\* A nonempty set of naturals has a least element.
LEMMA LeastNatural ==
  ASSUME NEW T \in SUBSET Nat, T # {}
  PROVE  \E m \in T : \A n \in T : m <= n
<1>1. PICK m \in T : \A n \in T : ~ (<<n, m>> \in OpToRel(<, Nat))
  <2>. HIDE DEF OpToRel
  <2>. QED  BY NatLessThanWellFounded, WFMin
<1>2. ASSUME NEW n \in T  PROVE m <= n
  <2>1. ~ (n < m)
    BY <1>1 DEF OpToRel
  <2>. QED  BY <2>1
<1>. QED  BY <1>2

\* f holds the sums of the first values, up to n of them.
Sums(f, S, value, n) ==
  f = [i \in 0 .. n |->
         IF i = 0 THEN 0 ELSE IF i \in S THEN f[i - 1] + value[i] ELSE f[i - 1]]

LEMMA SumsStep ==
  ASSUME NEW f, NEW S, NEW v, NEW n \in Nat, Sums(f, S, v, n)
  PROVE  /\ f[0] = 0
         /\ \A i \in 1 .. n : f[i] = IF i \in S THEN f[i - 1] + v[i] ELSE f[i - 1]
<1>1. \A i \in 0 .. n : f[i] = IF i = 0 THEN 0 ELSE IF i \in S THEN f[i - 1] + v[i] ELSE f[i - 1]
  <2>. DEFINE g == [i \in 0 .. n |->
                      IF i = 0 THEN 0 ELSE IF i \in S THEN f[i - 1] + v[i] ELSE f[i - 1]]
  <2>1. f = g
    BY DEF Sums
  <2>2. \A i \in 0 .. n : g[i] = IF i = 0 THEN 0 ELSE IF i \in S THEN f[i - 1] + v[i] ELSE f[i - 1]
    OBVIOUS
  <2>. HIDE DEF g
  <2>. QED  BY <2>1, <2>2
<1>2. 0 \in 0 .. n /\ \A i \in 1 .. n : i \in 0 .. n /\ i # 0
  OBVIOUS
<1>. QED  BY <1>1, <1>2

LEMMA SumsExtend ==
  ASSUME NEW f, NEW S, NEW v, NEW n \in Nat, Sums(f, S, v, n)
  PROVE  \E g : Sums(g, S, v, n + 1)
<1>. DEFINE last == IF n + 1 \in S THEN f[n] + v[n + 1] ELSE f[n]
            g == [i \in 0 .. n + 1 |-> IF i <= n THEN f[i] ELSE last]
            h == [i \in 0 .. n + 1 |->
                    IF i = 0 THEN 0 ELSE IF i \in S THEN g[i - 1] + v[i] ELSE g[i - 1]]
<1>0. /\ f[0] = 0
      /\ \A i \in 1 .. n : f[i] = IF i \in S THEN f[i - 1] + v[i] ELSE f[i - 1]
  BY SumsStep
<1>1. ASSUME NEW i \in 0 .. n + 1 PROVE g[i] = h[i]
  <2>1. g[i] = IF i <= n THEN f[i] ELSE last
    OBVIOUS
  <2>2. h[i] = IF i = 0 THEN 0 ELSE IF i \in S THEN g[i - 1] + v[i] ELSE g[i - 1]
    OBVIOUS
  <2>3. i # 0 => i - 1 \in 0 .. n + 1 /\ i - 1 <= n
    OBVIOUS
  <2>4. i # 0 => g[i - 1] = f[i - 1]
    BY <2>3
  <2>5. CASE i = 0
    <3>1. g[i] = f[0]
      BY <2>1, <2>5
    <3>2. h[i] = 0
      BY <2>2, <2>5
    <3>. QED  BY <3>1, <3>2, <1>0
  <2>. HIDE DEF g, h
  <2>6. CASE i # 0 /\ i <= n
    BY <1>0, <2>1, <2>2, <2>4, <2>6
  <2>7. CASE i = n + 1
    <3>1. i - 1 = n /\ ~(i <= n) /\ i # 0
      BY <2>7
    <3>2. g[i] = last
      BY <2>1, <3>1
    <3>3. h[i] = IF n + 1 \in S THEN f[n] + v[n + 1] ELSE f[n]
      <4>1. g[i - 1] = f[n]
        BY <2>4, <3>1
      <4>2. h[i] = IF i \in S THEN f[n] + v[i] ELSE f[n]
        BY <2>2, <3>1, <4>1
      <4>. QED  BY <2>7, <4>2
    <3>. QED  BY <3>2, <3>3
  <2>8. i = 0 \/ (i # 0 /\ i <= n) \/ i = n + 1
    OBVIOUS
  <2>. QED  BY <2>5, <2>6, <2>7, <2>8
<1>2. g = h
  <2>1. DOMAIN g = 0 .. n + 1 /\ DOMAIN h = 0 .. n + 1
    OBVIOUS
  <2>2. g = [i \in 0 .. n + 1 |-> g[i]] /\ h = [i \in 0 .. n + 1 |-> h[i]]
    OBVIOUS
  <2>. HIDE DEF g, h
  <2>. QED  BY <1>1, <2>2
<1>. QED
  <2>1. Sums(g, S, v, n + 1)
    <3>1. h = [i \in 0 .. n + 1 |->
                 IF i = 0 THEN 0 ELSE IF i \in S THEN g[i - 1] + v[i] ELSE g[i - 1]]
      OBVIOUS
    <3>. HIDE DEF g, h
    <3>. QED  BY <1>2, <3>1 DEF Sums
  <2>. HIDE DEF g
  <2>. QED  BY <2>1

LEMMA SumsExist ==
  ASSUME NEW S, NEW v, NEW n \in Nat
  PROVE  \E f : Sums(f, S, v, n)
<1>. DEFINE T == {m \in Nat : ~ \E f : Sums(f, S, v, m)}
<1>1. SUFFICES ASSUME n \in T PROVE FALSE
  OBVIOUS
<1>2. PICK m \in T : \A k \in T : m <= k
  <2>1. T \in SUBSET Nat /\ T # {}
    BY <1>1
  <2>. HIDE DEF T
  <2>. QED  BY <2>1, LeastNatural
<1>3. CASE m = 0
  <2>. DEFINE f == [i \in 0 .. 0 |-> 0]
              g == [i \in 0 .. 0 |->
                     IF i = 0 THEN 0 ELSE IF i \in S THEN f[i - 1] + v[i] ELSE f[i - 1]]
  <2>1. f = g
    OBVIOUS
  <2>2. Sums(f, S, v, 0)
    BY <2>1 DEF Sums
  <2>. HIDE DEF f
  <2>. QED  BY <2>2, <1>3
<1>4. CASE m # 0
  <2>1. m - 1 \in Nat /\ ~(m <= m - 1) /\ (m - 1) + 1 = m
    BY <1>4
  <2>2. m - 1 \notin T
    BY <1>2, <2>1
  <2>3. PICK f : Sums(f, S, v, m - 1)
    BY <2>1, <2>2
  <2>4. \E g : Sums(g, S, v, (m - 1) + 1)
    BY <2>1, <2>3, SumsExtend
  <2>. QED  BY <2>1, <2>4
<1>. QED  BY <1>3, <1>4

\* Sums of the same values are the same.
LEMMA SumsAgree ==
  ASSUME NEW f, NEW g, NEW S, NEW T, NEW v, NEW w, NEW n \in Nat, NEW m \in Nat, n <= m,
         Sums(f, S, v, n), Sums(g, T, w, m),
         \A i \in 1 .. n : (i \in S <=> i \in T) /\ (i \in S => v[i] = w[i])
  PROVE  f[n] = g[n]
<1>. DEFINE D == {k \in 0 .. n : f[k] # g[k]}
<1>0. /\ f[0] = 0 /\ \A i \in 1 .. n : f[i] = IF i \in S THEN f[i - 1] + v[i] ELSE f[i - 1]
      /\ g[0] = 0 /\ \A i \in 1 .. m : g[i] = IF i \in T THEN g[i - 1] + w[i] ELSE g[i - 1]
  BY SumsStep
<1>1. SUFFICES ASSUME D # {} PROVE FALSE
  OBVIOUS
<1>2. PICK k \in D : \A j \in D : k <= j
  <2>1. D \in SUBSET Nat
    OBVIOUS
  <2>. HIDE DEF D
  <2>. QED  BY <1>1, <2>1, LeastNatural
<1>3. k \in 1 .. n /\ k \in 1 .. m /\ k - 1 \in 0 .. n /\ ~(k <= k - 1)
  BY <1>0, <1>2
<1>4. f[k - 1] = g[k - 1]
  BY <1>2, <1>3
<1>5. f[k] = g[k]
  <2>. HIDE DEF D
  <2>. QED  BY <1>0, <1>3, <1>4
<1>. QED  BY <1>2, <1>5

LEMMA SumOverIs ==
  ASSUME NEW S, NEW v, Len(v) \in Nat
  PROVE  \E f : Sums(f, S, v, Len(v)) /\ SumOver(S, v) = f[Len(v)]
<1>. DEFINE f == CHOOSE f : Sums(f, S, v, Len(v))
<1>1. Sums(f, S, v, Len(v))
  BY SumsExist
<1>2. SumOver(S, v) = f[Len(v)]
  BY DEF SumOver, Sums
<1>. HIDE DEF f
<1>. QED  BY <1>1, <1>2

LEMMA SumOverSame ==
  ASSUME NEW S, NEW T, NEW v, NEW w, Len(v) \in Nat, Len(w) = Len(v),
         \A i \in 1 .. Len(v) : (i \in S <=> i \in T) /\ (i \in S => v[i] = w[i])
  PROVE  SumOver(S, v) = SumOver(T, w)
<1>1. PICK f : Sums(f, S, v, Len(v)) /\ SumOver(S, v) = f[Len(v)]
  BY SumOverIs
<1>2. PICK g : Sums(g, T, w, Len(w)) /\ SumOver(T, w) = g[Len(w)]
  BY SumOverIs
<1>3. PICK n \in Nat : n = Len(v)
  OBVIOUS
<1>4. f[n] = g[n]
  <2>1. /\ Sums(f, S, v, n) /\ Sums(g, T, w, n)
        /\ \A i \in 1 .. n : (i \in S <=> i \in T) /\ (i \in S => v[i] = w[i])
    BY <1>1, <1>2, <1>3
  <2>. QED  BY <2>1, SumsAgree
<1>. QED  BY <1>1, <1>2, <1>3, <1>4

LEMMA SumOverMore ==
  ASSUME NEW S, NEW T, NEW v, NEW w, NEW n \in Nat, Len(v) = n, Len(w) = n + 1,
         \A i \in 1 .. n : (i \in S <=> i \in T) /\ (i \in S => v[i] = w[i])
  PROVE  SumOver(T, w) = IF n + 1 \in T THEN SumOver(S, v) + w[n + 1] ELSE SumOver(S, v)
<1>1. PICK f : Sums(f, S, v, n) /\ SumOver(S, v) = f[n]
  BY SumOverIs
<1>2. PICK g : Sums(g, T, w, n + 1) /\ SumOver(T, w) = g[n + 1]
  BY SumOverIs
<1>3. f[n] = g[n]
  BY <1>1, <1>2, SumsAgree
<1>4. g[n + 1] = IF n + 1 \in T THEN g[n] + w[n + 1] ELSE g[n]
  <2>1. n + 1 \in Nat /\ n + 1 \in 1 .. n + 1 /\ (n + 1) - 1 = n
    OBVIOUS
  <2>2. \A i \in 1 .. n + 1 : g[i] = IF i \in T THEN g[i - 1] + w[i] ELSE g[i - 1]
    BY <1>2, <2>1, SumsStep
  <2>3. PICK m : m = n + 1
    OBVIOUS
  <2>. QED  BY <2>1, <2>2
<1>. QED  BY <1>1, <1>2, <1>3, <1>4

-----------------------------------------------------------------------------
(* What the samples are worth to a node *)

LEMMA SumOverNone ==
  ASSUME NEW v, Len(v) \in Nat
  PROVE  SumOver({}, v) = 0
<1>1. PICK f : Sums(f, {}, v, Len(v)) /\ SumOver({}, v) = f[Len(v)]
  BY SumOverIs
<1>. DEFINE D == {k \in 0 .. Len(v) : f[k] # 0}
<1>2. f[0] = 0 /\ \A i \in 1 .. Len(v) : f[i] = f[i - 1]
  BY <1>1, SumsStep
<1>3. SUFFICES ASSUME D # {} PROVE FALSE
  BY <1>1
<1>4. PICK k \in D : \A j \in D : k <= j
  <2>1. D \in SUBSET Nat
    OBVIOUS
  <2>. HIDE DEF D
  <2>. QED  BY <1>3, <2>1, LeastNatural
<1>5. k \in 1 .. Len(v) /\ k - 1 \in 0 .. Len(v) /\ ~(k <= k - 1) /\ f[k] # 0
  BY <1>2, <1>4
<1>6. f[k - 1] # 0
  BY <1>2, <1>5
<1>. QED  BY <1>4, <1>5, <1>6

\* A record of samples, and what the samples in S return from depth d on.
IsLog(L) ==
  /\ \E S : L \in Seq(S)
  /\ \A i \in 1 .. Len(L) : L[i].path \in Seq(Steps) /\ L[i].depth \in Nat

Values(L, d) == [i \in DOMAIN L |-> Return(L[i].path, L[i].tail, d)]
Stats(L, S, d) == [visits |-> Cardinality(S), sum |-> SumOver(S, Values(L, d))]

\* The samples through a decision node and through an action there.
OverIn(L, p) == {i \in DOMAIN L : IsPrefix(p, L[i].path) /\ Len(p) < L[i].depth}
ThroughIn(L, k) ==
  {i \in OverIn(L, k[1]) : Len(L[i].path) > Len(k[1]) /\ L[i].path[Len(k[1]) + 1][1] = k[2]}

LEMMA StatsHere ==
  /\ \A p : StatsOf(Over(p), Len(p)) = Stats(log, OverIn(log, p), Len(p))
  /\ \A k : StatsOf(Through(k), Len(k[1])) = Stats(log, ThroughIn(log, k), Len(k[1]))
<1>1. \A p : Over(p) = OverIn(log, p)
  BY DEF Over, OverIn
<1>2. \A k : Through(k) = ThroughIn(log, k)
  BY <1>1 DEF Through, ThroughIn
<1>3. \A d : Returns(d) = Values(log, d)
  BY DEF Returns, Values
<1>. QED  BY <1>1, <1>2, <1>3 DEF StatsOf, Stats

LEMMA LogFacts ==
  ASSUME NEW L, IsLog(L)
  PROVE  /\ Len(L) \in Nat /\ DOMAIN L = 1 .. Len(L)
         /\ \A p : OverIn(L, p) \subseteq 1 .. Len(L)
         /\ \A k : ThroughIn(L, k) \subseteq 1 .. Len(L)
<1>1. Len(L) \in Nat /\ DOMAIN L = 1 .. Len(L)
  BY DEF IsLog
<1>. QED  BY <1>1 DEF OverIn, ThroughIn

LEMMA ValuesOK ==
  ASSUME NEW L, IsLog(L), NEW d
  PROVE  /\ Len(Values(L, d)) = Len(L)
         /\ \A i \in 1 .. Len(L) : Values(L, d)[i] = Return(L[i].path, L[i].tail, d)
<1>. DEFINE n == Len(L)
            value(i) == Return(L[i].path, L[i].tail, d)
            v == [i \in 1 .. n |-> value(i)]
            S == {value(i) : i \in 1 .. n}
<1>1. n \in Nat /\ Values(L, d) = v
  BY LogFacts DEF Values
<1>2. \A i \in 1 .. n : value(i) \in S
  OBVIOUS
<1>. HIDE DEF value, S, n
<1>3. v \in [1 .. n -> S]
  BY <1>2
<1>4. Len(v) = n
  BY <1>1, <1>3
<1>5. \A i \in 1 .. n : v[i] = value(i)
  OBVIOUS
<1>. QED  BY <1>1, <1>4, <1>5 DEF n, value

LEMMA StatsOfNone ==
  ASSUME NEW L, IsLog(L), NEW d
  PROVE  Stats(L, {}, d) = NoStats
<1>1. SumOver({}, Values(L, d)) = 0
  BY LogFacts, ValuesOK, SumOverNone
<1>. QED  BY <1>1, FS_EmptySet DEF Stats, NoStats

\* Other samples that return the same.
LEMMA StatsSame ==
  ASSUME NEW L, IsLog(L), NEW M, IsLog(M), Len(M) = Len(L), NEW S, NEW d, NEW e,
         \A i \in S : i \in 1 .. Len(L) =>
           Return(M[i].path, M[i].tail, d) = Return(L[i].path, L[i].tail, e)
  PROVE  Stats(M, S, d) = Stats(L, S, e)
<1>1. SumOver(S, Values(L, e)) = SumOver(S, Values(M, d))
  <2>1. /\ Len(Values(L, e)) = Len(L) /\ Len(Values(M, d)) = Len(L) /\ Len(L) \in Nat
        /\ \A i \in 1 .. Len(L) : /\ Values(L, e)[i] = Return(L[i].path, L[i].tail, e)
                                  /\ Values(M, d)[i] = Return(M[i].path, M[i].tail, d)
    BY LogFacts, ValuesOK
  <2>2. \A i \in 1 .. Len(Values(L, e)) : (i \in S <=> i \in S) /\ (i \in S => Values(L, e)[i] = Values(M, d)[i])
    BY <2>1
  <2>. QED  BY <2>1, <2>2, SumOverSame
<1>. QED  BY <1>1 DEF Stats

\* One sample more.
LEMMA StatsMore ==
  ASSUME NEW L, IsLog(L), NEW M, IsLog(M), NEW n \in Nat, Len(L) = n, Len(M) = n + 1,
         \A i \in 1 .. n : M[i] = L[i],
         NEW S, NEW T, S \subseteq 1 .. n, T \subseteq 1 .. n + 1, \A i \in 1 .. n : i \in S <=> i \in T,
         NEW d
  PROVE  Stats(M, T, d) =
           IF n + 1 \in T THEN Credited(Stats(L, S, d), Return(M[n + 1].path, M[n + 1].tail, d))
           ELSE Stats(L, S, d)
<1>1. SumOver(T, Values(M, d)) =
        IF n + 1 \in T THEN SumOver(S, Values(L, d)) + Return(M[n + 1].path, M[n + 1].tail, d)
        ELSE SumOver(S, Values(L, d))
  <2>1. /\ Len(Values(L, d)) = n /\ Len(Values(M, d)) = n + 1
        /\ \A i \in 1 .. n : Values(L, d)[i] = Return(L[i].path, L[i].tail, d)
        /\ \A i \in 1 .. n + 1 : Values(M, d)[i] = Return(M[i].path, M[i].tail, d)
    BY ValuesOK
  <2>2. \A i \in 1 .. n : i \in 1 .. n + 1 /\ M[i] = L[i]
    OBVIOUS
  <2>3. \A i \in 1 .. n : (i \in S <=> i \in T) /\ (i \in S => Values(L, d)[i] = Values(M, d)[i])
    BY <2>1, <2>2
  <2>4. n + 1 \in 1 .. n + 1
    OBVIOUS
  <2>5. SumOver(T, Values(M, d)) = IF n + 1 \in T THEN SumOver(S, Values(L, d)) + Values(M, d)[n + 1]
                                   ELSE SumOver(S, Values(L, d))
    BY <2>1, <2>3, SumOverMore
  <2>. QED  BY <2>1, <2>4, <2>5
<1>2. Cardinality(T) = IF n + 1 \in T THEN Cardinality(S) + 1 ELSE Cardinality(S)
  <2>0. n + 1 \notin 1 .. n /\ \A i \in 1 .. n + 1 : i \in 1 .. n \/ i = n + 1
    OBVIOUS
  <2>1. IsFiniteSet(S) /\ n + 1 \notin S
    <3>1. IsFiniteSet(1 .. n)
      BY FS_Interval
    <3>2. S \in SUBSET (1 .. n)
      OBVIOUS
    <3>3. IsFiniteSet(S)
      BY <3>1, <3>2, FS_Subset
    <3>. QED  BY <2>0, <3>2, <3>3
  <2>2. CASE n + 1 \in T
    <3>1. T = S \cup {n + 1}
      BY <2>0, <2>2, Zenon
    <3>. QED  BY <2>1, <2>2, <3>1, FS_AddElement
  <2>3. CASE n + 1 \notin T
    <3>1. T = S
      BY <2>0, <2>3, Zenon
    <3>. QED  BY <2>3, <3>1
  <2>. QED  BY <2>2, <2>3
<1>. QED  BY <1>1, <1>2 DEF Stats, Credited

-----------------------------------------------------------------------------
(* Paths *)

Pre(path, d) == SubSeq(path, 1, d)
Edge(path, d) == <<Pre(path, d - 1), path[d][1]>>

\* The nodes above depth n on a path, and the edges down to it, are in the tree of
\* the nodes N and the edges E.
Along(path, n, N, E) ==
  /\ \A d \in 0 .. Len(path) : d < n => Pre(path, d) \in N
  /\ \A d \in 1 .. Len(path) : d <= n => Edge(path, d) \in E

LEMMA PreOK ==
  ASSUME NEW path \in Seq(Steps), NEW d \in 0 .. Len(path)
  PROVE  /\ Pre(path, d) \in Seq(Steps) /\ Len(Pre(path, d)) = d
         /\ \A i \in 1 .. d : Pre(path, d)[i] = path[i]
  BY DEF Pre

LEMMA PrefixIsPre ==
  ASSUME NEW p \in Seq(Steps), NEW path \in Seq(Steps)
  PROVE  IsPrefix(p, path) <=> Len(p) <= Len(path) /\ p = Pre(path, Len(p))
<1>1. SubSeq(p, 1, Len(p)) = p
  BY SubSeqFull
<1>. QED  BY <1>1 DEF IsPrefix, Pre

LEMMA NothingOver ==
  ASSUME NEW L, IsLog(L), NEW N, NEW E, \A i \in 1 .. Len(L) : Along(L[i].path, L[i].depth, N, E),
         NEW p \in Seq(Steps), p \notin N
  PROVE  OverIn(L, p) = {}
<1>1. SUFFICES ASSUME NEW i \in 1 .. Len(L), IsPrefix(p, L[i].path), Len(p) < L[i].depth PROVE FALSE
  BY LogFacts DEF OverIn
<1>2. L[i].path \in Seq(Steps) /\ Len(p) \in Nat
  BY DEF IsLog
<1>3. Len(p) <= Len(L[i].path) /\ p = Pre(L[i].path, Len(p))
  BY <1>1, <1>2, PrefixIsPre
<1>4. Len(p) \in 0 .. Len(L[i].path)
  BY <1>2, <1>3
<1>. QED  BY <1>1, <1>3, <1>4 DEF Along

LEMMA NothingThrough ==
  ASSUME NEW L, IsLog(L), NEW N, NEW E, \A i \in 1 .. Len(L) : Along(L[i].path, L[i].depth, N, E),
         NEW p \in Seq(Steps), NEW a, <<p, a>> \notin E
  PROVE  ThroughIn(L, <<p, a>>) = {}
<1>1. SUFFICES ASSUME NEW i \in 1 .. Len(L), IsPrefix(p, L[i].path), Len(p) < L[i].depth,
                      Len(L[i].path) > Len(p), L[i].path[Len(p) + 1][1] = a
               PROVE  FALSE
  BY LogFacts DEF OverIn, ThroughIn
<1>. DEFINE path == L[i].path
            d == Len(p) + 1
<1>2. path \in Seq(Steps) /\ Len(p) \in Nat /\ L[i].depth \in Nat
  BY DEF IsLog
<1>3. p = Pre(path, Len(p))
  BY <1>1, <1>2, PrefixIsPre
<1>4. d \in 1 .. Len(path) /\ d <= L[i].depth /\ d - 1 = Len(p)
  BY <1>1, <1>2
<1>5. Edge(path, d) = <<p, a>>
  <2>1. Edge(path, d) = <<Pre(path, d - 1), path[d][1]>>
    BY DEF Edge
  <2>2. Pre(path, d - 1) = p
    BY <1>3, <1>4
  <2>. QED  BY <1>1, <2>1, <2>2
<1>. HIDE DEF d
<1>. QED  BY <1>1, <1>4, <1>5 DEF Along

LEMMA FirstStep ==
  ASSUME NEW s \in Steps, NEW path \in Seq(Steps)
  PROVE  IsPrefix(<<s>>, path) <=> 1 <= Len(path) /\ path[1] = s
<1>1. <<s>> \in Seq(Steps) /\ Len(<<s>>) = 1 /\ <<s>>[1] = s
  OBVIOUS
<1>2. IsPrefix(<<s>>, path) <=> Len(<<s>>) <= Len(path) /\ \A i \in 1 .. Len(<<s>>) : <<s>>[i] = path[i]
  BY <1>1, PrefixFacts
<1>3. \A i \in 1 .. 1 : i = 1
  OBVIOUS
<1>. QED  BY <1>1, <1>2, <1>3

\* A path below a first step.
LEMMA BelowFirst ==
  ASSUME NEW s \in Steps, NEW path \in Seq(Steps), IsPrefix(<<s>>, path)
  PROVE  /\ Tail(path) \in Seq(Steps) /\ Len(Tail(path)) = Len(path) - 1 /\ Len(path) >= 1
         /\ path[1] = s /\ path = <<s>> \o Tail(path)
         /\ \A i \in 1 .. Len(path) - 1 : Tail(path)[i] = path[i + 1]
<1>1. <<s>> \in Seq(Steps) /\ Len(<<s>>) = 1 /\ <<s>>[1] = s
  OBVIOUS
<1>2. Len(path) >= 1 /\ path[1] = s
  <2>1. 1 <= Len(path) /\ path[1] = s
    BY FirstStep
  <2>. QED  BY <2>1
<1>3. path # << >>
  BY <1>2, EmptySeq
<1>4. /\ Tail(path) \in Seq(Steps) /\ Len(Tail(path)) = Len(path) - 1
      /\ \A i \in 1 .. Len(path) - 1 : Tail(path)[i] = path[i + 1]
  BY <1>3, HeadTailProperties
<1>5. path = <<s>> \o Tail(path)
  <2>. DEFINE q == <<s>> \o Tail(path)
  <2>1. /\ q \in Seq(Steps) /\ Len(q) = 1 + Len(Tail(path))
        /\ \A i \in 1 .. 1 + Len(Tail(path)) : q[i] = IF i <= 1 THEN <<s>>[i] ELSE Tail(path)[i - 1]
    BY <1>1, <1>4, ConcatProperties
  <2>. HIDE DEF q
  <2>2. Len(q) = Len(path)
    BY <1>2, <1>4, <2>1
  <2>3. ASSUME NEW i \in 1 .. Len(path) PROVE q[i] = path[i]
    <3>1. CASE i = 1
      BY <1>1, <1>2, <2>1, <2>2, <3>1
    <3>2. CASE i > 1
      <4>1. i - 1 \in 1 .. Len(path) - 1 /\ (i - 1) + 1 = i
        BY <3>2
      <4>2. q[i] = Tail(path)[i - 1]
        BY <2>1, <2>2, <3>2
      <4>. QED  BY <1>4, <4>1, <4>2
    <3>. QED  BY <3>1, <3>2
  <2>. QED  BY <2>1, <2>2, <2>3, SeqEqual DEF q
<1>. QED  BY <1>2, <1>4, <1>5

LEMMA AboveOK ==
  ASSUME NEW s \in Steps, NEW p \in Seq(Steps)
  PROVE  /\ <<s>> \o p \in Seq(Steps) /\ Len(<<s>> \o p) = Len(p) + 1 /\ (<<s>> \o p)[1] = s
         /\ \A i \in 1 .. Len(p) : (<<s>> \o p)[i + 1] = p[i]
         /\ IsPrefix(<<s>>, <<s>> \o p) /\ Tail(<<s>> \o p) = p
<1>. DEFINE q == <<s>> \o p
<1>1. <<s>> \in Seq(Steps) /\ Len(<<s>>) = 1 /\ <<s>>[1] = s /\ Len(p) \in Nat
  OBVIOUS
<1>2. /\ q \in Seq(Steps) /\ Len(q) = 1 + Len(p)
      /\ \A i \in 1 .. 1 + Len(p) : q[i] = IF i <= 1 THEN <<s>>[i] ELSE p[i - 1]
  BY <1>1, ConcatProperties
<1>. HIDE DEF q
<1>3. q[1] = s
  BY <1>1, <1>2
<1>4. \A i \in 1 .. Len(p) : i + 1 \in 1 .. 1 + Len(p) /\ ~(i + 1 <= 1) /\ (i + 1) - 1 = i
  BY <1>1
<1>5. \A i \in 1 .. Len(p) : q[i + 1] = p[i]
  BY <1>2, <1>4
<1>6. IsPrefix(<<s>>, q)
  <2>1. 1 <= Len(q)
    BY <1>1, <1>2
  <2>. QED  BY <1>2, <1>3, <2>1, FirstStep
<1>7. Tail(q) = p
  <2>1. /\ Tail(q) \in Seq(Steps) /\ Len(Tail(q)) = Len(q) - 1
        /\ \A i \in 1 .. Len(q) - 1 : Tail(q)[i] = q[i + 1]
    BY <1>2, <1>6, BelowFirst
  <2>2. Len(Tail(q)) = Len(p) /\ Len(q) - 1 = Len(p)
    BY <1>1, <1>2, <2>1
  <2>3. \A i \in 1 .. Len(p) : Tail(q)[i] = p[i]
    BY <1>5, <2>1, <2>2
  <2>. QED  BY <2>1, <2>2, <2>3, SeqEqual
<1>. QED  BY <1>1, <1>2, <1>3, <1>5, <1>6, <1>7 DEF q

LEMMA PrefixBelow ==
  ASSUME NEW s \in Steps, NEW p \in Seq(Steps), NEW path \in Seq(Steps)
  PROVE  IsPrefix(<<s>> \o p, path) <=> IsPrefix(<<s>>, path) /\ IsPrefix(p, Tail(path))
<1>. DEFINE q == <<s>> \o p
<1>1. /\ q \in Seq(Steps) /\ Len(q) = Len(p) + 1 /\ q[1] = s /\ Len(p) \in Nat /\ Len(path) \in Nat
      /\ \A i \in 1 .. Len(p) : q[i + 1] = p[i]
      /\ <<s>> \in Seq(Steps) /\ Len(<<s>>) = 1 /\ <<s>>[1] = s
  BY AboveOK
<1>. HIDE DEF q
<1>2. IsPrefix(q, path) <=> Len(q) <= Len(path) /\ \A i \in 1 .. Len(q) : q[i] = path[i]
  BY <1>1, PrefixFacts
<1>3. IsPrefix(<<s>>, path) <=> 1 <= Len(path) /\ path[1] = s
  BY FirstStep
<1>4. CASE IsPrefix(<<s>>, path)
  <2>1. /\ Tail(path) \in Seq(Steps) /\ Len(Tail(path)) = Len(path) - 1 /\ path[1] = s
        /\ \A i \in 1 .. Len(path) - 1 : Tail(path)[i] = path[i + 1]
    BY <1>4, BelowFirst
  <2>2. IsPrefix(p, Tail(path)) <=> Len(p) <= Len(Tail(path)) /\ \A i \in 1 .. Len(p) : p[i] = Tail(path)[i]
    BY <2>1, PrefixFacts
  <2>3. ASSUME IsPrefix(q, path) PROVE IsPrefix(p, Tail(path))
    <3>1. Len(p) <= Len(path) - 1
      BY <1>1, <1>2, <2>3
    <3>2. \A i \in 1 .. Len(p) : i + 1 \in 1 .. Len(q) /\ i \in 1 .. Len(path) - 1
      BY <1>1, <3>1
    <3>. QED  BY <1>1, <1>2, <2>1, <2>2, <2>3, <3>1, <3>2
  <2>4. ASSUME IsPrefix(p, Tail(path)) PROVE IsPrefix(q, path)
    <3>1. Len(p) <= Len(path) - 1 /\ Len(q) <= Len(path)
      BY <1>1, <2>1, <2>2, <2>4
    <3>2. ASSUME NEW i \in 1 .. Len(q) PROVE q[i] = path[i]
      <4>1. CASE i = 1
        BY <1>1, <2>1, <4>1
      <4>2. CASE i # 1
        <5>1. i - 1 \in 1 .. Len(p) /\ i - 1 \in 1 .. Len(path) - 1 /\ (i - 1) + 1 = i
          BY <1>1, <3>1, <4>2
        <5>2. q[i] = p[i - 1] /\ Tail(path)[i - 1] = path[i]
          BY <1>1, <2>1, <5>1
        <5>. QED  BY <2>2, <2>4, <5>1, <5>2
      <4>. QED  BY <4>1, <4>2
    <3>. QED  BY <1>2, <3>1, <3>2
  <2>. QED  BY <1>4, <2>3, <2>4 DEF q
<1>5. CASE ~IsPrefix(<<s>>, path)
  <2>1. SUFFICES ASSUME IsPrefix(q, path) PROVE FALSE
    BY <1>5 DEF q
  <2>2. 1 \in 1 .. Len(q)
    BY <1>1
  <2>. QED  BY <1>1, <1>2, <1>3, <1>5, <2>1, <2>2
<1>. QED  BY <1>4, <1>5

\* The return below the first step is the return from one step further down.
LEMMA ReturnBelow ==
  ASSUME NEW s \in Steps, NEW path \in Seq(Steps), IsPrefix(<<s>>, path), NEW tail, NEW d \in Nat
  PROVE  Return(Tail(path), tail, d) = Return(path, tail, d + 1)
<1>1. /\ Tail(path) \in Seq(Steps) /\ Len(Tail(path)) = Len(path) - 1 /\ Len(path) \in Nat
      /\ \A i \in 1 .. Len(path) - 1 : Tail(path)[i] = path[i + 1]
  BY BelowFirst
<1>2. SubSeq(Tail(path), d + 1, Len(Tail(path))) = SubSeq(path, (d + 1) + 1, Len(path))
  <2>. DEFINE a == SubSeq(Tail(path), d + 1, Len(Tail(path)))
              b == SubSeq(path, (d + 1) + 1, Len(path))
  <2>1. CASE d + 1 > Len(path) - 1
    <3>1. a = << >>
      BY <1>1, <2>1, SubSeqEmpty
    <3>2. b = << >>
      BY <1>1, <2>1, SubSeqEmpty
    <3>. QED  BY <3>1, <3>2
  <2>2. CASE d + 1 <= Len(path) - 1
    <3>1. /\ a \in Seq(Steps) /\ Len(a) = Len(path) - 1 - d
          /\ \A i \in 1 .. Len(path) - 1 - d : a[i] = Tail(path)[d + i]
      BY <1>1, <2>2
    <3>2. /\ b \in Seq(Steps) /\ Len(b) = Len(path) - 1 - d
          /\ \A i \in 1 .. Len(path) - 1 - d : b[i] = path[d + 1 + i]
      BY <1>1, <2>2
    <3>3. \A i \in 1 .. Len(path) - 1 - d : d + i \in 1 .. Len(path) - 1 /\ (d + i) + 1 = d + 1 + i
      BY <1>1
    <3>4. \A i \in 1 .. Len(path) - 1 - d : a[i] = b[i]
      BY <1>1, <3>1, <3>2, <3>3
    <3>. HIDE DEF a, b
    <3>. QED  BY <3>1, <3>2, <3>4, SeqEqual
  <2>. QED  BY <1>1, <2>1, <2>2
<1>. QED  BY <1>2 DEF Return

-----------------------------------------------------------------------------
(* The tree *)

Sampling == InSample \cup {"backup"}

\* The edges that the sample in progress has taken.
OnSim(k) ==
  \/ \E d \in 1 .. Len(sim.path) : k = Edge(sim.path, d)
  \/ pc = "chance" /\ k = <<sim.path, sim.act>>

\* What a sample went through is still in the tree.
Shape ==
  /\ << >> \in DOMAIN node /\ DOMAIN node \subseteq Seq(Steps)
  /\ DOMAIN chance \subseteq Seq(Steps) \X Actions
  /\ \A i \in 1 .. Len(log) : Along(log[i].path, log[i].depth, DOMAIN node, DOMAIN chance)

\* So is what the sample in progress went through.
Descent ==
  /\ pc \in Sampling => Along(sim.path, Len(sim.path) + 1, DOMAIN node, DOMAIN chance)
  /\ pc = "chance" => <<sim.path, sim.act>> \in DOMAIN chance
  /\ pc = "backup" => Len(sim.path) <= Horizon

\* An edge without visits was added by the sample in progress.
Visited == \A k \in DOMAIN chance : chance[k].visits > 0 \/ (pc \in Sampling /\ OnSim(k))

Counted ==
  /\ \A p \in DOMAIN node : node[p] = Stats(log, OverIn(log, p), Len(p))
  /\ \A k \in DOMAIN chance : chance[k] = Stats(log, ThroughIn(log, k), Len(k[1]))

Tree == Shape /\ Descent /\ Visited /\ Counted

LEMMA LoggedIsLog == Logged => IsLog(log)
  BY DEF Logged, IsLog

LEMMA NoLogIsLog == IsLog(<< >>) /\ Len(<< >>) = 0 /\ 1 .. Len(<< >>) = {}
<1>1. << >> \in Seq({}) /\ Len(<< >>) = 0 /\ 1 .. Len(<< >>) = {}
  BY EmptySeq
<1>. QED  BY <1>1 DEF IsLog

\* Just a root.
LEMMA RootAlone ==
  ASSUME NEW N, NEW E, N = [p \in {<< >>} |-> NoStats], E = << >>
  PROVE  /\ DOMAIN N = {<< >>} /\ DOMAIN E = {}
         /\ \A p \in DOMAIN N : N[p] = Stats(<< >>, OverIn(<< >>, p), Len(p))
<1>1. DOMAIN N = {<< >>} /\ DOMAIN E = {} /\ N[<< >>] = NoStats
  OBVIOUS
<1>2. OverIn(<< >>, << >>) = {}
  BY NoLogIsLog, LogFacts
<1>3. Stats(<< >>, {}, Len(<< >>)) = NoStats
  BY NoLogIsLog, StatsOfNone
<1>. QED  BY <1>1, <1>2, <1>3

LEMMA NewTreeOK == NewTree => Shape' /\ Counted' /\ DOMAIN chance' = {}
<1>. SUFFICES ASSUME NewTree PROVE Shape' /\ Counted' /\ DOMAIN chance' = {}
  OBVIOUS
<1>1. /\ DOMAIN node' = {<< >>} /\ DOMAIN chance' = {} /\ log' = << >>
      /\ \A p \in DOMAIN node' : node'[p] = Stats(log', OverIn(log', p), Len(p))
  BY RootAlone DEF NewTree
<1>2. << >> \in Seq(Steps) /\ 1 .. Len(log') = {}
  BY <1>1, NoLogIsLog
<1>. QED  BY <1>1, <1>2 DEF Shape, Counted

\* A prefix of a path below a first step.
LEMMA PreBelow ==
  ASSUME NEW s \in Steps, NEW path \in Seq(Steps), IsPrefix(<<s>>, path), NEW d \in 0 .. Len(path) - 1
  PROVE  Pre(path, d + 1) \in Seq(Steps) /\ IsPrefix(<<s>>, Pre(path, d + 1))
         /\ Tail(Pre(path, d + 1)) = Pre(Tail(path), d)
<1>1. /\ Tail(path) \in Seq(Steps) /\ Len(Tail(path)) = Len(path) - 1 /\ path[1] = s
      /\ \A i \in 1 .. Len(path) - 1 : Tail(path)[i] = path[i + 1]
  BY BelowFirst
<1>. DEFINE a == Pre(path, d + 1)
            b == Pre(Tail(path), d)
<1>2. /\ a \in Seq(Steps) /\ Len(a) = d + 1 /\ \A i \in 1 .. d + 1 : a[i] = path[i]
      /\ b \in Seq(Steps) /\ Len(b) = d /\ \A i \in 1 .. d : b[i] = Tail(path)[i]
  <2>1. d + 1 \in 0 .. Len(path) /\ d \in 0 .. Len(Tail(path))
    BY <1>1
  <2>. QED  BY <1>1, <2>1, PreOK
<1>. HIDE DEF a, b
<1>3. IsPrefix(<<s>>, a)
  <2>1. 1 <= Len(a) /\ a[1] = s
    BY <1>1, <1>2
  <2>. QED  BY <1>2, <2>1, FirstStep
<1>4. Tail(a) = b
  <2>1. /\ Tail(a) \in Seq(Steps) /\ Len(Tail(a)) = d
        /\ \A i \in 1 .. d : Tail(a)[i] = a[i + 1]
    BY <1>2, <1>3, BelowFirst
  <2>2. \A i \in 1 .. d : i + 1 \in 1 .. d + 1 /\ i \in 1 .. Len(path) - 1
    OBVIOUS
  <2>3. \A i \in 1 .. d : Tail(a)[i] = b[i]
    BY <1>1, <1>2, <2>1, <2>2
  <2>. QED  BY <1>2, <2>1, <2>3, SeqEqual
<1>. QED  BY <1>2, <1>3, <1>4 DEF a, b

\* Below the first step the samples are the same.
LEMMA OverBelow ==
  ASSUME Logged, NEW a \in Actions, NEW x \in Percepts, Reroot(a, x), NEW p \in Seq(Steps)
  PROVE  /\ OverIn(log', p) = OverIn(log, << <<a, x>> >> \o p)
         /\ \A i \in OverIn(log', p) :
              /\ IsPrefix(<< <<a, x>> >>, log[i].path) /\ log[i].path \in Seq(Steps)
              /\ log'[i].path = Tail(log[i].path) /\ log'[i].tail = log[i].tail
<1>. DEFINE s == <<a, x>>
            n == Len(log)
            q == <<s>> \o p
<1>1. s \in Steps
  BY DEF Steps
<1>2. q \in Seq(Steps) /\ Len(q) = Len(p) + 1 /\ Len(p) \in Nat
  BY <1>1, AboveOK
<1>3. /\ IsLog(log) /\ IsLog(log') /\ Len(log') = n
      /\ n \in Nat /\ DOMAIN log = 1 .. n /\ DOMAIN log' = 1 .. n
  <2>1. IsLog(log) /\ Logged' /\ Len(log') = n
    BY RerootLog, LoggedIsLog
  <2>2. IsLog(log')
    BY <2>1 DEF Logged, IsLog
  <2>. QED  BY <2>1, <2>2, LogFacts
<1>4. \A i \in 1 .. n : log[i].path \in Seq(Steps) /\ log[i].depth \in Nat
  BY DEF Logged
<1>5. \A i \in 1 .. n :
        \/ /\ IsPrefix(<<s>>, log[i].path) /\ log[i].depth > 1
           /\ log'[i].path = Tail(log[i].path) /\ log'[i].tail = log[i].tail
           /\ log'[i].depth = log[i].depth - 1
        \/ /\ ~(IsPrefix(<<s>>, log[i].path) /\ log[i].depth > 1)
           /\ log'[i].path = << >> /\ log'[i].depth = 0
  <2>. HIDE DEF IsPrefix
  <2>. QED  BY RerootLog, Zenon DEF n, s
<1>. HIDE DEF s, n, q
<1>6. ASSUME NEW i \in 1 .. n
      PROVE  /\ (IsPrefix(p, log'[i].path) /\ Len(p) < log'[i].depth) <=> (IsPrefix(q, log[i].path) /\ Len(q) < log[i].depth)
             /\ Len(p) < log'[i].depth =>
                  /\ IsPrefix(<<s>>, log[i].path)
                  /\ log'[i].path = Tail(log[i].path) /\ log'[i].tail = log[i].tail
  <2>1. IsPrefix(q, log[i].path) <=> IsPrefix(<<s>>, log[i].path) /\ IsPrefix(p, Tail(log[i].path))
    BY <1>1, <1>4, PrefixBelow DEF q
  <2>2. log[i].depth \in Nat
    BY <1>4
  <2>. HIDE DEF IsPrefix
  <2>3. CASE /\ IsPrefix(<<s>>, log[i].path) /\ log[i].depth > 1
             /\ log'[i].path = Tail(log[i].path) /\ log'[i].tail = log[i].tail
             /\ log'[i].depth = log[i].depth - 1
    BY <1>2, <2>1, <2>2, <2>3
  <2>4. CASE /\ ~(IsPrefix(<<s>>, log[i].path) /\ log[i].depth > 1)
             /\ log'[i].path = << >> /\ log'[i].depth = 0
    BY <1>2, <2>1, <2>2, <2>4
  <2>. QED  BY <1>5, <2>3, <2>4
<1>7. OverIn(log', p) = OverIn(log, q)
  <2>. HIDE DEF IsPrefix
  <2>. QED  BY <1>3, <1>6 DEF OverIn
<1>8. ASSUME NEW i \in OverIn(log', p)
      PROVE  /\ IsPrefix(<<s>>, log[i].path) /\ log[i].path \in Seq(Steps)
             /\ log'[i].path = Tail(log[i].path) /\ log'[i].tail = log[i].tail
  <2>1. i \in 1 .. n /\ Len(p) < log'[i].depth
    BY <1>3 DEF OverIn
  <2>. HIDE DEF IsPrefix
  <2>. QED  BY <1>4, <1>6, <2>1
<1>. QED  BY <1>7, <1>8 DEF q, s

LEMMA ThroughBelow ==
  ASSUME Logged, NEW a \in Actions, NEW x \in Percepts, Reroot(a, x), NEW p \in Seq(Steps), NEW b
  PROVE  ThroughIn(log', <<p, b>>) = ThroughIn(log, << << <<a, x>> >> \o p, b>>)
<1>. DEFINE s == <<a, x>>
            q == <<s>> \o p
<1>1. s \in Steps /\ q \in Seq(Steps) /\ Len(q) = Len(p) + 1 /\ Len(p) \in Nat
  <2>1. s \in Steps
    BY DEF Steps
  <2>. QED  BY <2>1, AboveOK
<1>2. /\ OverIn(log', p) = OverIn(log, q)
      /\ \A i \in OverIn(log', p) :
           /\ IsPrefix(<<s>>, log[i].path) /\ log[i].path \in Seq(Steps)
           /\ log'[i].path = Tail(log[i].path) /\ log'[i].tail = log[i].tail
  BY OverBelow
<1>. HIDE DEF s, q
<1>3. ASSUME NEW i \in OverIn(log', p)
      PROVE  (Len(log'[i].path) > Len(p) /\ log'[i].path[Len(p) + 1][1] = b)
               <=> (Len(log[i].path) > Len(q) /\ log[i].path[Len(q) + 1][1] = b)
  <2>. DEFINE path == log[i].path
  <2>1. IsPrefix(<<s>>, path) /\ path \in Seq(Steps) /\ log'[i].path = Tail(path)
    BY <1>2
  <2>. HIDE DEF path
  <2>2. /\ Len(Tail(path)) = Len(path) - 1 /\ Len(path) \in Nat
        /\ \A j \in 1 .. Len(path) - 1 : Tail(path)[j] = path[j + 1]
    BY <1>1, <2>1, BelowFirst
  <2>3. Len(Tail(path)) > Len(p) <=> Len(path) > Len(q)
    BY <1>1, <2>2
  <2>4. CASE Len(path) > Len(q)
    <3>1. Len(p) + 1 \in 1 .. Len(path) - 1
      BY <1>1, <2>2, <2>4
    <3>2. Tail(path)[Len(p) + 1] = path[Len(q) + 1]
      BY <1>1, <2>2, <3>1
    <3>. QED  BY <2>1, <2>3, <3>2 DEF path
  <2>5. CASE ~(Len(path) > Len(q))
    BY <2>1, <2>3, <2>5 DEF path
  <2>. QED  BY <2>4, <2>5
<1>4. ThroughIn(log', <<p, b>>) = ThroughIn(log, <<q, b>>)
  <2>1. <<p, b>>[1] = p /\ <<p, b>>[2] = b /\ <<q, b>>[1] = q /\ <<q, b>>[2] = b
    OBVIOUS
  <2>. QED  BY <1>2, <1>3, <2>1, Zenon DEF ThroughIn
<1>. QED  BY <1>4 DEF q, s

\* They return what they returned from the step further down.
LEMMA StatsBelow ==
  ASSUME Logged, NEW a \in Actions, NEW x \in Percepts, Reroot(a, x), NEW p \in Seq(Steps),
         NEW S, S \subseteq OverIn(log', p)
  PROVE  Stats(log', S, Len(p)) = Stats(log, S, Len(<< <<a, x>> >> \o p))
<1>. DEFINE s == <<a, x>>
            q == <<s>> \o p
<1>1. s \in Steps /\ q \in Seq(Steps) /\ Len(q) = Len(p) + 1 /\ Len(p) \in Nat
  <2>1. s \in Steps
    BY DEF Steps
  <2>. QED  BY <2>1, AboveOK
<1>2. IsLog(log) /\ IsLog(log') /\ Len(log') = Len(log)
  <2>1. IsLog(log) /\ Logged' /\ Len(log') = Len(log)
    BY RerootLog, LoggedIsLog
  <2>. QED  BY <2>1 DEF Logged, IsLog
<1>3. \A i \in OverIn(log', p) :
           /\ IsPrefix(<<s>>, log[i].path) /\ log[i].path \in Seq(Steps)
           /\ log'[i].path = Tail(log[i].path) /\ log'[i].tail = log[i].tail
  BY OverBelow
<1>. HIDE DEF s, q
<1>4. ASSUME NEW i \in S
      PROVE  Return(log'[i].path, log'[i].tail, Len(p)) = Return(log[i].path, log[i].tail, Len(q))
  <2>1. /\ IsPrefix(<<s>>, log[i].path) /\ log[i].path \in Seq(Steps)
        /\ log'[i].path = Tail(log[i].path) /\ log'[i].tail = log[i].tail
    BY <1>3
  <2>2. Return(Tail(log[i].path), log[i].tail, Len(p)) = Return(log[i].path, log[i].tail, Len(p) + 1)
    BY <1>1, <2>1, ReturnBelow
  <2>. QED  BY <1>1, <2>1, <2>2
<1>5. Stats(log', S, Len(p)) = Stats(log, S, Len(q))
  BY <1>2, <1>4, StatsSame
<1>. QED  BY <1>5 DEF q, s

LEMMA RerootTree ==
  ASSUME Logged, Shape, Counted, NEW a \in Actions, NEW x \in Percepts, Sampled(a, x), Reroot(a, x),
         \A k \in DOMAIN chance : chance[k].visits > 0
  PROVE  Shape' /\ Counted' /\ \A k \in DOMAIN chance' : chance'[k].visits > 0
<1>. DEFINE s == <<a, x>>
            r == <<s>>
            N == {Tail(q) : q \in {m \in DOMAIN node : IsPrefix(r, m)}}
            E == {<<Tail(j[1]), j[2]>> : j \in {m \in DOMAIN chance : IsPrefix(r, m[1])}}
<1>0. s \in Steps /\ r \in Seq(Steps) /\ r \in DOMAIN node
  BY DEF Steps, Sampled
<1>1. /\ node' = [p \in N |-> node[r \o p]]
      /\ chance' = [k \in E |-> chance[<<r \o k[1], k[2]>>]]
  BY DEF Reroot
<1>2. DOMAIN node' = N /\ DOMAIN chance' = E
  <2>. HIDE DEF N, E, r
  <2>. QED  BY <1>1
<1>3. ASSUME NEW p \in N
      PROVE  p \in Seq(Steps) /\ r \o p \in DOMAIN node /\ node'[p] = node[r \o p]
  <2>1. PICK q \in DOMAIN node : IsPrefix(r, q) /\ p = Tail(q)
    OBVIOUS
  <2>2. q \in Seq(Steps)
    BY <2>1 DEF Shape
  <2>3. Tail(q) \in Seq(Steps) /\ q = r \o Tail(q)
    BY <1>0, <2>1, <2>2, BelowFirst
  <2>4. node'[p] = node[r \o p]
    <3>. HIDE DEF N, r
    <3>. QED  BY <1>1
  <2>. QED  BY <2>1, <2>3, <2>4
<1>4. ASSUME NEW k \in E
      PROVE  /\ k \in Seq(Steps) \X Actions /\ <<r \o k[1], k[2]>> \in DOMAIN chance
             /\ chance'[k] = chance[<<r \o k[1], k[2]>>]
  <2>1. PICK j \in DOMAIN chance : IsPrefix(r, j[1]) /\ k = <<Tail(j[1]), j[2]>>
    OBVIOUS
  <2>2. j \in Seq(Steps) \X Actions /\ j = <<j[1], j[2]>> /\ j[1] \in Seq(Steps) /\ j[2] \in Actions
    BY <2>1 DEF Shape
  <2>3. Tail(j[1]) \in Seq(Steps) /\ j[1] = r \o Tail(j[1])
    BY <1>0, <2>1, <2>2, BelowFirst
  <2>4. k[1] = Tail(j[1]) /\ k[2] = j[2]
    BY <2>1
  <2>5. <<r \o k[1], k[2]>> = j
    BY <2>2, <2>3, <2>4
  <2>6. chance'[k] = chance[<<r \o k[1], k[2]>>]
    <3>. HIDE DEF E, r
    <3>. QED  BY <1>1
  <2>7. k \in Seq(Steps) \X Actions
    BY <2>1, <2>2, <2>3
  <2>. QED  BY <2>1, <2>5, <2>6, <2>7
<1>5. \A q \in DOMAIN node : IsPrefix(r, q) => Tail(q) \in N
  OBVIOUS
<1>6. \A j \in DOMAIN chance : IsPrefix(r, j[1]) => <<Tail(j[1]), j[2]>> \in E
  OBVIOUS
<1>. HIDE DEF N, E
<1>7. << >> \in N
  <2>1. << >> \in Seq(Steps)
    OBVIOUS
  <2>2. IsPrefix(r, r \o << >>) /\ Tail(r \o << >>) = << >>
    BY <1>0, <2>1, AboveOK
  <2>3. r \o << >> = r
    BY <1>0, ConcatEmptySeq
  <2>. QED  BY <1>0, <1>5, <2>2, <2>3
<1>8. ASSUME NEW i \in 1 .. Len(log')
      PROVE  Along(log'[i].path, log'[i].depth, N, E)
  <2>0. i \in 1 .. Len(log) /\ Len(log') = Len(log)
    BY RerootLog
  <2>. DEFINE path == log[i].path
              t == Tail(path)
  <2>1. path \in Seq(Steps) /\ log[i].depth \in Nat
    BY <2>0 DEF Logged
  <2>2. Along(path, log[i].depth, DOMAIN node, DOMAIN chance)
    BY <2>0 DEF Shape
  <2>3. \/ /\ IsPrefix(r, path) /\ log[i].depth > 1
           /\ log'[i].path = t /\ log'[i].depth = log[i].depth - 1
        \/ log'[i].path = << >> /\ log'[i].depth = 0
    <3>. HIDE DEF IsPrefix
    <3>1. \A j \in 1 .. Len(log) :
            \/ /\ IsPrefix(<< <<a, x>> >>, log[j].path) /\ log[j].depth > 1
               /\ log'[j].path = Tail(log[j].path)
               /\ log'[j].depth = log[j].depth - 1
            \/ log'[j].path = << >> /\ log'[j].depth = 0
      BY RerootLog, Zenon
    <3>. QED  BY <2>0, <3>1, Zenon
  <2>. HIDE DEF path
  <2>4. ASSUME IsPrefix(r, path), log[i].depth > 1, log'[i].path = t, log'[i].depth = log[i].depth - 1
        PROVE  Along(t, log[i].depth - 1, N, E)
    <3>1. Len(t) = Len(path) - 1 /\ Len(path) \in Nat /\ t \in Seq(Steps)
          /\ \A d \in 1 .. Len(path) - 1 : t[d] = path[d + 1]
      BY <1>0, <2>1, <2>4, BelowFirst
    <3>2. ASSUME NEW d \in 0 .. Len(t), d < log[i].depth - 1
          PROVE  Pre(t, d) \in N
      <4>1. d \in 0 .. Len(path) - 1 /\ d + 1 \in 0 .. Len(path) /\ d + 1 < log[i].depth
        BY <2>1, <3>1, <3>2
      <4>2. Pre(path, d + 1) \in DOMAIN node
        BY <2>2, <4>1 DEF Along
      <4>3. IsPrefix(r, Pre(path, d + 1)) /\ Tail(Pre(path, d + 1)) = Pre(t, d)
        BY <1>0, <2>1, <2>4, <4>1, PreBelow
      <4>. QED  BY <1>5, <4>2, <4>3
    <3>3. ASSUME NEW d \in 1 .. Len(t), d <= log[i].depth - 1
          PROVE  Edge(t, d) \in E
      <4>1. /\ d - 1 \in 0 .. Len(path) - 1 /\ (d - 1) + 1 = d /\ (d + 1) - 1 = d
            /\ d + 1 \in 1 .. Len(path) /\ d + 1 <= log[i].depth
            /\ d \in 1 .. Len(path) - 1
        BY <2>1, <3>1, <3>3
      <4>2. Edge(path, d + 1) \in DOMAIN chance
        BY <2>2, <4>1 DEF Along
      <4>3. Edge(path, d + 1) = <<Pre(path, d), path[d + 1][1]>>
        BY <4>1 DEF Edge
      <4>4. IsPrefix(r, Pre(path, (d - 1) + 1)) /\ Tail(Pre(path, (d - 1) + 1)) = Pre(t, d - 1)
        BY <1>0, <2>1, <2>4, <4>1, PreBelow
      <4>5. IsPrefix(r, Pre(path, d)) /\ Tail(Pre(path, d)) = Pre(t, d - 1)
        BY <4>1, <4>4
      <4>6. <<Tail(Pre(path, d)), path[d + 1][1]>> \in E
        <5>. DEFINE j == <<Pre(path, d), path[d + 1][1]>>
        <5>1. j[1] = Pre(path, d) /\ j[2] = path[d + 1][1] /\ j \in DOMAIN chance
          BY <4>2, <4>3
        <5>. HIDE DEF j
        <5>. QED  BY <1>6, <4>5, <5>1
      <4>7. Edge(t, d) = <<Pre(t, d - 1), t[d][1]>>
        BY DEF Edge
      <4>. QED  BY <3>1, <4>1, <4>5, <4>6, <4>7
    <3>. QED  BY <3>2, <3>3 DEF Along
  <2>5. ASSUME log'[i].path = << >>, log'[i].depth = 0
        PROVE  Along(<< >>, 0, N, E)
    <3>1. 1 .. Len(<< >>) = {} /\ \A d \in 0 .. Len(<< >>) : ~(d < 0)
      BY NoLogIsLog
    <3>. QED  BY <3>1 DEF Along
  <2>. HIDE DEF t
  <2>. QED  BY <2>3, <2>4, <2>5
<1>9. Shape'
  <2>1. DOMAIN node' \subseteq Seq(Steps) /\ DOMAIN chance' \subseteq Seq(Steps) \X Actions
    BY <1>2, <1>3, <1>4
  <2>. QED  BY <1>2, <1>7, <1>8, <2>1 DEF Shape
<1>10. ASSUME NEW p \in N PROVE node'[p] = Stats(log', OverIn(log', p), Len(p))
  <2>1. p \in Seq(Steps) /\ node'[p] = Stats(log, OverIn(log, r \o p), Len(r \o p))
    BY <1>3 DEF Counted
  <2>2. OverIn(log', p) = OverIn(log, r \o p)
    BY <2>1, OverBelow
  <2>3. Stats(log', OverIn(log', p), Len(p)) = Stats(log, OverIn(log', p), Len(r \o p))
    BY <2>1, StatsBelow
  <2>. QED  BY <2>1, <2>2, <2>3
<1>11. ASSUME NEW k \in E PROVE chance'[k] = Stats(log', ThroughIn(log', k), Len(k[1]))
  <2>0. k \in Seq(Steps) \X Actions
    BY <1>4
  <2>1. PICK p \in Seq(Steps), b \in Actions : k = <<p, b>>
    <3>1. k[1] \in Seq(Steps) /\ k[2] \in Actions /\ k = <<k[1], k[2]>>
      BY <2>0
    <3>. QED  BY <3>1, Zenon
  <2>. DEFINE j == <<r \o p, b>>
  <2>2. /\ j \in DOMAIN chance /\ chance'[k] = chance[j] /\ j[1] = r \o p
        /\ k[1] = p /\ k[2] = b
    <3>1. k[1] = p /\ k[2] = b
      BY <2>1
    <3>. QED  BY <1>4, <3>1
  <2>3. chance[j] = Stats(log, ThroughIn(log, j), Len(r \o p))
    BY <2>2 DEF Counted
  <2>4. ThroughIn(log', k) = ThroughIn(log, j)
    BY <2>1, ThroughBelow
  <2>5. ThroughIn(log', k) \subseteq OverIn(log', p)
    BY <2>1 DEF ThroughIn
  <2>6. Stats(log', ThroughIn(log', k), Len(p)) = Stats(log, ThroughIn(log', k), Len(r \o p))
    BY <2>5, StatsBelow
  <2>. QED  BY <2>2, <2>3, <2>4, <2>6
<1>12. Counted'
  BY <1>2, <1>10, <1>11 DEF Counted
<1>13. \A k \in DOMAIN chance' : chance'[k].visits > 0
  BY <1>2, <1>4
<1>. QED  BY <1>9, <1>12, <1>13

LEMMA AlongMore ==
  ASSUME NEW path, NEW n, NEW N, NEW E, NEW M, NEW F, N \subseteq M, E \subseteq F, Along(path, n, N, E)
  PROVE  Along(path, n, M, F)
  BY DEF Along

\* A path one step longer.
LEMMA AlongAppend ==
  ASSUME NEW path \in Seq(Steps), NEW s \in Steps, NEW N, NEW E, NEW M,
         Along(path, Len(path) + 1, N, E), <<path, s[1]>> \in E, N \subseteq M, Append(path, s) \in M
  PROVE  /\ Append(path, s) \in Seq(Steps) /\ Len(Append(path, s)) = Len(path) + 1
         /\ Along(Append(path, s), Len(path) + 2, M, E)
         /\ \A d \in 1 .. Len(path) : Edge(Append(path, s), d) = Edge(path, d)
         /\ Edge(Append(path, s), Len(path) + 1) = <<path, s[1]>>
<1>. DEFINE n == Len(path)
            q == Append(path, s)
<1>1. /\ n \in Nat /\ q \in Seq(Steps) /\ Len(q) = n + 1 /\ q[n + 1] = s
      /\ \A i \in 1 .. n : q[i] = path[i]
  BY AppendProperties
<1>. HIDE DEF q, n
<1>2. ASSUME NEW d \in 0 .. n PROVE Pre(q, d) = Pre(path, d)
  <2>1. d \in 0 .. Len(path) /\ d \in 0 .. Len(q)
    BY <1>1 DEF n
  <2>2. /\ Pre(path, d) \in Seq(Steps) /\ Len(Pre(path, d)) = d
        /\ \A i \in 1 .. d : Pre(path, d)[i] = path[i]
    BY <2>1, PreOK
  <2>3. /\ Pre(q, d) \in Seq(Steps) /\ Len(Pre(q, d)) = d
        /\ \A i \in 1 .. d : Pre(q, d)[i] = q[i]
    BY <1>1, <2>1, PreOK
  <2>4. ASSUME NEW i \in 1 .. d PROVE Pre(q, d)[i] = Pre(path, d)[i]
    <3>1. i \in 1 .. n
      BY <1>1
    <3>2. Pre(q, d)[i] = q[i] /\ Pre(path, d)[i] = path[i]
      BY <2>2, <2>3
    <3>. QED  BY <1>1, <3>1, <3>2
  <2>. QED  BY <2>2, <2>3, <2>4, SeqEqual
<1>3. Pre(q, n + 1) = q /\ Pre(path, n) = path
  BY <1>1, SubSeqFull DEF Pre, n
<1>4. ASSUME NEW d \in 1 .. n PROVE Edge(q, d) = Edge(path, d)
  <2>1. d - 1 \in 0 .. n /\ q[d] = path[d]
    BY <1>1
  <2>. QED  BY <1>2, <2>1 DEF Edge
<1>5. Edge(q, n + 1) = <<path, s[1]>>
  <2>1. (n + 1) - 1 = n /\ n \in 0 .. n
    BY <1>1
  <2>. QED  BY <1>1, <1>2, <1>3, <2>1 DEF Edge
<1>6. Along(q, n + 2, M, E)
  <2>0. n \in 0 .. n /\ \A d \in 0 .. n + 1 : d \in 0 .. n \/ d = n + 1
    BY <1>1
  <2>1. ASSUME NEW d \in 0 .. n PROVE Pre(path, d) \in N
    <3>1. d \in 0 .. Len(path) /\ d < Len(path) + 1
      BY <1>1 DEF n
    <3>. QED  BY <3>1 DEF Along
  <2>2. ASSUME NEW d \in 1 .. n PROVE Edge(path, d) \in E
    <3>1. d \in 1 .. Len(path) /\ d <= Len(path) + 1
      BY <1>1 DEF n
    <3>. QED  BY <3>1 DEF Along
  <2>3. ASSUME NEW d \in 0 .. n + 1 PROVE Pre(q, d) \in M
    BY <1>2, <1>3, <2>0, <2>1 DEF q
  <2>4. ASSUME NEW d \in 1 .. n + 1 PROVE Edge(q, d) \in E
    <3>1. d \in 1 .. n \/ d = n + 1
      BY <1>1
    <3>. QED  BY <1>4, <1>5, <2>2, <3>1
  <2>. QED  BY <1>1, <2>3, <2>4 DEF Along
<1>. QED  BY <1>1, <1>4, <1>5, <1>6 DEF q, n

\* An edge of a path.
LEMMA EdgeOnPath ==
  ASSUME NEW path \in Seq(Steps), NEW k \in Seq(Steps) \X Actions
  PROVE  (\E d \in 1 .. Len(path) : k = Edge(path, d))
           <=> IsPrefix(k[1], path) /\ Len(path) > Len(k[1]) /\ path[Len(k[1]) + 1][1] = k[2]
<1>1. k[1] \in Seq(Steps) /\ k = <<k[1], k[2]>> /\ Len(k[1]) \in Nat /\ Len(path) \in Nat
  OBVIOUS
<1>2. IsPrefix(k[1], path) <=> Len(k[1]) <= Len(path) /\ k[1] = Pre(path, Len(k[1]))
  BY <1>1, PrefixIsPre
<1>3. ASSUME NEW d \in 1 .. Len(path), k = Edge(path, d)
      PROVE  IsPrefix(k[1], path) /\ Len(path) > Len(k[1]) /\ path[Len(k[1]) + 1][1] = k[2]
  <2>1. k[1] = Pre(path, d - 1) /\ k[2] = path[d][1]
    BY <1>3 DEF Edge
  <2>2. d - 1 \in 0 .. Len(path)
    BY <1>1
  <2>3. Len(k[1]) = d - 1
    BY <2>1, <2>2, PreOK
  <2>4. Len(k[1]) + 1 = d /\ Len(path) > Len(k[1]) /\ Len(k[1]) <= Len(path)
    BY <1>1, <2>3
  <2>5. IsPrefix(k[1], path)
    BY <1>2, <2>1, <2>3, <2>4
  <2>. QED  BY <2>1, <2>4, <2>5
<1>4. ASSUME IsPrefix(k[1], path), Len(path) > Len(k[1]), path[Len(k[1]) + 1][1] = k[2]
      PROVE  \E d \in 1 .. Len(path) : k = Edge(path, d)
  <2>. DEFINE d == Len(k[1]) + 1
  <2>1. d \in 1 .. Len(path) /\ d - 1 = Len(k[1])
    BY <1>1, <1>4
  <2>2. Edge(path, d) = <<Pre(path, d - 1), path[d][1]>>
    BY DEF Edge
  <2>3. Edge(path, d) = k
    BY <1>1, <1>2, <1>4, <2>1, <2>2
  <2>. HIDE DEF d
  <2>. QED  BY <2>1, <2>3
<1>. QED  BY <1>3, <1>4

LEMMA VisitsOK ==
  ASSUME NEW L, IsLog(L), NEW S, S \subseteq 1 .. Len(L), NEW d
  PROVE  Stats(L, S, d).visits \in Nat
<1>1. IsFiniteSet(1 .. Len(L))
  BY LogFacts, FS_Interval
<1>2. IsFiniteSet(S)
  <2>1. S \in SUBSET (1 .. Len(L))
    OBVIOUS
  <2>. QED  BY <1>1, <2>1, FS_Subset
<1>3. Cardinality(S) \in Nat
  BY <1>2, FS_CardinalityType
<1>. QED  BY <1>3 DEF Stats

-----------------------------------------------------------------------------
(* The steps *)

\* An action tried for the first time.
LEMMA SelectTree ==
  ASSUME IInv, Logged, Tree, NEW a \in Actions, SelectAction(a)
  PROVE  Tree'
<1>. DEFINE k0 == <<sim.path, a>>
<1>1. /\ pc = "decide" /\ pc' = "chance" /\ UNCHANGED <<node, log>>
      /\ sim' = [sim EXCEPT !.act = a]
      /\ chance' = [k \in DOMAIN chance \cup {k0} |-> IF k \in DOMAIN chance THEN chance[k] ELSE NoStats]
  BY DEF SelectAction
<1>2. sim.path \in Seq(Steps) /\ sim'.path = sim.path /\ sim'.act = a
  BY <1>1, SimTypes DEF IInv, Types, Sims
<1>3. k0 \in Seq(Steps) \X Actions
  BY <1>2
<1>. HIDE DEF k0
<1>4. /\ DOMAIN chance' = DOMAIN chance \cup {k0}
      /\ \A k \in DOMAIN chance : chance'[k] = chance[k]
      /\ k0 \notin DOMAIN chance => chance'[k0] = NoStats
  BY <1>1
<1>5. Shape'
  <2>1. ASSUME NEW i \in 1 .. Len(log)
        PROVE  Along(log[i].path, log[i].depth, DOMAIN node, DOMAIN chance')
    <3>1. DOMAIN chance \subseteq DOMAIN chance'
      BY <1>4
    <3>2. Along(log[i].path, log[i].depth, DOMAIN node, DOMAIN chance)
      BY DEF Tree, Shape
    <3>. QED  BY <3>1, <3>2, AlongMore
  <2>2. DOMAIN chance' \subseteq Seq(Steps) \X Actions
    BY <1>3, <1>4 DEF Tree, Shape
  <2>. QED  BY <1>1, <2>1, <2>2 DEF Tree, Shape
<1>6. Descent'
  <2>1. Along(sim.path, Len(sim.path) + 1, DOMAIN node, DOMAIN chance)
    BY <1>1 DEF Tree, Descent, Sampling, InSample
  <2>2. Along(sim.path, Len(sim.path) + 1, DOMAIN node, DOMAIN chance')
    <3>1. DOMAIN chance \subseteq DOMAIN chance'
      BY <1>4
    <3>. QED  BY <2>1, <3>1, AlongMore
  <2>3. <<sim'.path, sim'.act>> \in DOMAIN chance'
    BY <1>2, <1>4 DEF k0
  <2>. QED  BY <1>1, <1>2, <2>2, <2>3 DEF Descent
<1>7. Visited'
  <2>1. ASSUME NEW k \in DOMAIN chance, ~(chance[k].visits > 0) PROVE OnSim(k)'
    BY <1>1, <1>2, <2>1 DEF Tree, Visited, OnSim
  <2>2. ASSUME NEW k, k = k0 PROVE OnSim(k)'
    BY <1>1, <1>2, <2>2 DEF OnSim, k0
  <2>3. pc' \in Sampling
    BY <1>1 DEF Sampling, InSample
  <2>4. ASSUME NEW k \in DOMAIN chance' PROVE chance'[k].visits > 0 \/ OnSim(k)'
    BY <1>4, <2>1, <2>2
  <2>. QED  BY <2>3, <2>4 DEF Visited
<1>8. Counted'
  <2>1. \A p \in DOMAIN node' : node'[p] = Stats(log', OverIn(log', p), Len(p))
    BY <1>1 DEF Tree, Counted
  <2>2. ASSUME NEW k \in DOMAIN chance
        PROVE  chance'[k] = Stats(log', ThroughIn(log', k), Len(k[1]))
    BY <1>1, <1>4 DEF Tree, Counted
  <2>3. ASSUME k0 \notin DOMAIN chance
        PROVE  chance'[k0] = Stats(log', ThroughIn(log', k0), Len(k0[1]))
    <3>1. \A i \in 1 .. Len(log) : Along(log[i].path, log[i].depth, DOMAIN node, DOMAIN chance)
      BY DEF Tree, Shape
    <3>2. IsLog(log)
      BY LoggedIsLog
    <3>3. ThroughIn(log, k0) = {}
      BY <1>2, <2>3, <3>1, <3>2, NothingThrough DEF k0
    <3>4. Stats(log, {}, Len(k0[1])) = NoStats
      BY <3>2, StatsOfNone
    <3>. QED  BY <1>1, <1>4, <2>3, <3>3, <3>4
  <2>. QED  BY <1>4, <2>1, <2>2, <2>3 DEF Counted
<1>. QED  BY <1>5, <1>6, <1>7, <1>8 DEF Tree

\* A percept in the tree: the sample goes down to a node, perhaps a new one.
LEMMA DescendTree ==
  ASSUME Logged, Tree, pc = "chance", pc' = "decide", NEW s \in Steps, s[1] = sim.act,
         sim.path \in Seq(Steps), sim'.path = Append(sim.path, s), UNCHANGED <<chance, log>>,
         node' = [p \in DOMAIN node \cup {Append(sim.path, s)} |-> IF p \in DOMAIN node THEN node[p] ELSE NoStats]
  PROVE  Tree'
<1>. DEFINE c == Append(sim.path, s)
<1>1. /\ DOMAIN node' = DOMAIN node \cup {c}
      /\ \A p \in DOMAIN node : node'[p] = node[p]
      /\ c \notin DOMAIN node => node'[c] = NoStats
  <2>. HIDE DEF c
  <2>1. node' = [p \in DOMAIN node \cup {c} |-> IF p \in DOMAIN node THEN node[p] ELSE NoStats]
    BY DEF c
  <2>. QED  BY <2>1
<1>2. Along(sim.path, Len(sim.path) + 1, DOMAIN node, DOMAIN chance) /\ <<sim.path, s[1]>> \in DOMAIN chance
  BY DEF Tree, Descent, Sampling, InSample
<1>3. DOMAIN node \subseteq DOMAIN node' /\ c \in DOMAIN node'
  BY <1>1
<1>4. /\ c \in Seq(Steps) /\ Len(c) = Len(sim.path) + 1
      /\ Along(c, Len(sim.path) + 2, DOMAIN node', DOMAIN chance)
      /\ \A d \in 1 .. Len(sim.path) : Edge(c, d) = Edge(sim.path, d)
      /\ Edge(c, Len(sim.path) + 1) = <<sim.path, s[1]>>
  <2>1. PICK path \in Seq(Steps) : path = sim.path
    OBVIOUS
  <2>2. PICK E : E = DOMAIN chance
    OBVIOUS
  <2>3. PICK N : N = DOMAIN node
    OBVIOUS
  <2>4. PICK M : M = DOMAIN node'
    OBVIOUS
  <2>5. /\ Along(path, Len(path) + 1, N, E) /\ <<path, s[1]>> \in E
        /\ N \subseteq M /\ Append(path, s) \in M
    BY <1>2, <1>3, <2>1, <2>2, <2>3, <2>4
  <2>6. /\ Append(path, s) \in Seq(Steps) /\ Len(Append(path, s)) = Len(path) + 1
        /\ Along(Append(path, s), Len(path) + 2, M, E)
        /\ \A d \in 1 .. Len(path) : Edge(Append(path, s), d) = Edge(path, d)
        /\ Edge(Append(path, s), Len(path) + 1) = <<path, s[1]>>
    BY <2>5, AlongAppend
  <2>. QED  BY <2>1, <2>2, <2>4, <2>6
<1>len. Len(sim.path) \in Nat
  OBVIOUS
<1>. HIDE DEF c
<1>5. sim'.path = c
  BY DEF c
<1>6. Shape'
  <2>1. ASSUME NEW i \in 1 .. Len(log)
        PROVE  Along(log[i].path, log[i].depth, DOMAIN node', DOMAIN chance)
    <3>1. Along(log[i].path, log[i].depth, DOMAIN node, DOMAIN chance)
      BY DEF Tree, Shape
    <3>. QED  BY <1>3, <3>1, AlongMore
  <2>. QED  BY <1>1, <1>4, <2>1 DEF Tree, Shape
<1>7. Descent'
  <2>1. Along(c, Len(c) + 1, DOMAIN node', DOMAIN chance')
    <3>1. Len(c) + 1 = Len(sim.path) + 2
      BY <1>4, <1>len
    <3>. QED  BY <1>4, <3>1
  <2>. QED  BY <1>5, <2>1 DEF Descent
<1>8. Visited'
  <2>1. ASSUME NEW k, OnSim(k) PROVE OnSim(k)'
    <3>1. CASE \E d \in 1 .. Len(sim.path) : k = Edge(sim.path, d)
      <4>1. PICK d \in 1 .. Len(sim.path) : k = Edge(sim.path, d)
        BY <3>1
      <4>2. d \in 1 .. Len(c) /\ k = Edge(c, d)
        BY <1>4, <1>len, <4>1
      <4>. QED  BY <1>5, <4>2 DEF OnSim
    <3>2. CASE k = <<sim.path, sim.act>>
      <4>1. Len(sim.path) + 1 \in 1 .. Len(c) /\ k = Edge(c, Len(sim.path) + 1)
        BY <1>4, <1>len, <3>2
      <4>. QED  BY <1>5, <4>1 DEF OnSim
    <3>. QED  BY <2>1, <3>1, <3>2 DEF OnSim
  <2>. QED  BY <2>1 DEF Tree, Visited, Sampling, InSample
<1>9. Counted'
  <2>1. \A k \in DOMAIN chance' : chance'[k] = Stats(log', ThroughIn(log', k), Len(k[1]))
    BY DEF Tree, Counted
  <2>2. ASSUME NEW p \in DOMAIN node
        PROVE  node'[p] = Stats(log', OverIn(log', p), Len(p))
    BY <1>1 DEF Tree, Counted
  <2>3. ASSUME c \notin DOMAIN node
        PROVE  node'[c] = Stats(log', OverIn(log', c), Len(c))
    <3>1. \A i \in 1 .. Len(log) : Along(log[i].path, log[i].depth, DOMAIN node, DOMAIN chance)
      BY DEF Tree, Shape
    <3>2. IsLog(log)
      BY LoggedIsLog
    <3>3. OverIn(log, c) = {}
      BY <1>4, <2>3, <3>1, <3>2, NothingOver
    <3>4. Stats(log, {}, Len(c)) = NoStats
      BY <3>2, StatsOfNone
    <3>. QED  BY <1>1, <2>3, <3>3, <3>4
  <2>. QED  BY <1>1, <2>1, <2>2, <2>3 DEF Counted
<1>. QED  BY <1>6, <1>7, <1>8, <1>9 DEF Tree

\* Nothing but the sample moves on, on its way.
LEMMA SameTree ==
  ASSUME Tree, UNCHANGED <<node, chance, log>>,
         \/ pc \notin Sampling /\ pc' \notin Sampling
         \/ /\ pc \in Sampling /\ pc' \in Sampling /\ sim'.path = sim.path
            /\ pc = "chance" => pc' = "chance" /\ sim'.act = sim.act
            /\ pc' = "chance" => pc = "chance"
            /\ pc' = "backup" => Len(sim.path) <= Horizon
  PROVE  Tree'
<1>1. Shape' /\ Counted'
  BY DEF Tree, Shape, Counted
<1>2. CASE pc \notin Sampling /\ pc' \notin Sampling
  <2>1. pc' # "chance" /\ pc' # "backup"
    BY <1>2 DEF Sampling, InSample
  <2>2. Descent' /\ Visited'
    BY <1>2, <2>1 DEF Tree, Descent, Visited
  <2>. QED  BY <1>1, <2>2 DEF Tree
<1>3. CASE /\ pc \in Sampling /\ pc' \in Sampling /\ sim'.path = sim.path
           /\ pc = "chance" => pc' = "chance" /\ sim'.act = sim.act
           /\ pc' = "chance" => pc = "chance"
           /\ pc' = "backup" => Len(sim.path) <= Horizon
  <2>1. Descent'
    BY <1>3 DEF Tree, Descent
  <2>2. \A k : OnSim(k) => OnSim(k)'
    BY <1>3 DEF OnSim
  <2>3. Visited'
    BY <1>3, <2>2 DEF Tree, Visited
  <2>. QED  BY <1>1, <2>1, <2>3 DEF Tree
<1>. QED  BY <1>2, <1>3

\* What a sample leaves in the tree on its way back.
LEMMA BackupFacts ==
  ASSUME IInv, Logged, Backup
  PROVE  \E tail :
           /\ node' = [p \in DOMAIN node |->
                         IF AboveHorizon(p) THEN Credited(node[p], Return(sim.path, tail, Len(p))) ELSE node[p]]
           /\ chance' = [k \in DOMAIN chance |->
                           IF \E d \in 1 .. Len(sim.path) : k = Edge(sim.path, d)
                           THEN Credited(chance[k], Return(sim.path, tail, Len(k[1]))) ELSE chance[k]]
           /\ Logged' /\ Len(log') = Len(log) + 1
           /\ \A i \in 1 .. Len(log) : log'[i] = log[i]
           /\ log'[Len(log) + 1].path = sim.path /\ log'[Len(log) + 1].tail = tail
           /\ log'[Len(log) + 1].depth = Horizon
<1>. DEFINE tail == FoldSeq(LAMBDA s, r : Reward(s[2]) + r, 0, sim.rolled)
            e == [path |-> sim.path, tail |-> tail, depth |-> Horizon, about |-> context]
<1>1. log' = Append(log, e)
  BY DEF Backup
<1>2. node' = [p \in DOMAIN node |->
                 IF AboveHorizon(p) THEN Credited(node[p], Return(sim.path, tail, Len(p))) ELSE node[p]]
  BY DEF Backup
<1>3. chance' = [k \in DOMAIN chance |->
                   IF \E d \in 1 .. Len(sim.path) : k = Edge(sim.path, d)
                   THEN Credited(chance[k], Return(sim.path, tail, Len(k[1]))) ELSE chance[k]]
  BY DEF Backup, Edge, Pre
<1>4. e.tail = tail
  OBVIOUS
<1>5. /\ Logged' /\ Len(log') = Len(log) + 1
      /\ \A i \in 1 .. Len(log) : log'[i] = log[i]
      /\ log'[Len(log) + 1].path = sim.path /\ log'[Len(log) + 1].depth = Horizon
  BY BackupLog
<1>. HIDE DEF tail, e
<1>6. log'[Len(log) + 1] = e
  <2>1. PICK S : log \in Seq(S)
    BY DEF Logged
  <2>2. log \in Seq(S \cup {e})
    BY <2>1
  <2>. QED  BY <1>1, <2>2, AppendProperties
<1>7. log'[Len(log) + 1].tail = tail
  BY <1>4, <1>6
<1>. QED  BY <1>2, <1>3, <1>5, <1>7

LEMMA BackupTree ==
  ASSUME IInv, Logged, Tree, Backup
  PROVE  Tree'
<1>. DEFINE path == sim.path
            n == Len(log)
            Taken(k) == \E d \in 1 .. Len(path) : k = Edge(path, d)
<1>1. PICK tail :
        /\ node' = [p \in DOMAIN node |->
                      IF AboveHorizon(p) THEN Credited(node[p], Return(path, tail, Len(p))) ELSE node[p]]
        /\ chance' = [k \in DOMAIN chance |->
                        IF Taken(k) THEN Credited(chance[k], Return(path, tail, Len(k[1]))) ELSE chance[k]]
        /\ Logged' /\ Len(log') = n + 1
        /\ \A i \in 1 .. n : log'[i] = log[i]
        /\ log'[n + 1].path = path /\ log'[n + 1].tail = tail
        /\ log'[n + 1].depth = Horizon
  BY BackupFacts
<1>2. /\ pc = "backup" /\ pc' = "search" /\ path \in Seq(Steps) /\ Horizon \in Nat
      /\ Len(path) \in Nat /\ Len(path) <= Horizon
  <2>1. pc = "backup" /\ pc' = "search"
    BY DEF Backup
  <2>2. path \in Seq(Steps) /\ Horizon \in Nat
    BY SimTypes, AgentAssumption DEF IInv
  <2>3. Len(path) \in Nat
    BY <2>2, LenProperties
  <2>4. Len(path) <= Horizon
    BY <2>1 DEF Tree, Descent
  <2>. QED  BY <2>1, <2>2, <2>3, <2>4
<1>3. /\ IsLog(log) /\ IsLog(log') /\ n \in Nat
      /\ DOMAIN log = 1 .. n /\ DOMAIN log' = 1 .. n + 1
      /\ \A p : OverIn(log, p) \subseteq 1 .. n /\ OverIn(log', p) \subseteq 1 .. n + 1
      /\ \A k : ThroughIn(log, k) \subseteq 1 .. n /\ ThroughIn(log', k) \subseteq 1 .. n + 1
  <2>1. IsLog(log) /\ IsLog(log')
    BY <1>1, LoggedIsLog DEF Logged, IsLog
  <2>2. n \in Nat
    BY <2>1 DEF IsLog
  <2>. QED  BY <1>1, <2>1, <2>2, LogFacts
<1>4. Shape /\ Visited /\ Counted /\ Along(path, Len(path) + 1, DOMAIN node, DOMAIN chance)
  BY <1>2 DEF Tree, Descent, Sampling, InSample
<1>5. /\ DOMAIN node' = DOMAIN node /\ DOMAIN chance' = DOMAIN chance
      /\ \A p \in DOMAIN node :
           node'[p] = IF AboveHorizon(p) THEN Credited(node[p], Return(path, tail, Len(p))) ELSE node[p]
      /\ \A k \in DOMAIN chance :
           chance'[k] = IF Taken(k) THEN Credited(chance[k], Return(path, tail, Len(k[1]))) ELSE chance[k]
  <2>. HIDE DEF Taken
  <2>. QED  BY <1>1
<1>. HIDE DEF path, n, Taken
<1>6. Shape'
  <2>1. ASSUME NEW i \in 1 .. n + 1
        PROVE  Along(log'[i].path, log'[i].depth, DOMAIN node', DOMAIN chance')
    <3>1. CASE i = n + 1
      <4>1. ASSUME NEW d \in 0 .. Len(path) PROVE Pre(path, d) \in DOMAIN node
        <5>1. d < Len(path) + 1
          BY <1>2
        <5>. QED  BY <1>4, <5>1 DEF Along
      <4>2. ASSUME NEW d \in 1 .. Len(path) PROVE Edge(path, d) \in DOMAIN chance
        <5>1. d <= Len(path) + 1
          BY <1>2
        <5>. QED  BY <1>4, <5>1 DEF Along
      <4>3. Along(path, Horizon, DOMAIN node, DOMAIN chance)
        BY <4>1, <4>2 DEF Along
      <4>. QED  BY <1>1, <1>5, <3>1, <4>3
    <3>2. CASE i \in 1 .. n
      BY <1>1, <1>4, <1>5, <3>2 DEF Shape, n
    <3>. QED  BY <1>3, <3>1, <3>2
  <2>. QED  BY <1>1, <1>4, <1>5, <2>1 DEF Shape
<1>7. ASSUME NEW p \in DOMAIN node
      PROVE  node'[p] = Stats(log', OverIn(log', p), Len(p))
  <2>1. node[p] = Stats(log, OverIn(log, p), Len(p))
    BY <1>4 DEF Counted
  <2>2. \A i \in 1 .. n : i \in OverIn(log, p) <=> i \in OverIn(log', p)
    <3>1. \A i \in 1 .. n : i \in 1 .. n + 1
      BY <1>3
    <3>. QED  BY <1>1, <1>3, <3>1 DEF OverIn
  <2>3. n + 1 \in OverIn(log', p) <=> AboveHorizon(p)
    <3>1. n + 1 \in DOMAIN log'
      BY <1>3
    <3>. QED  BY <1>1, <3>1 DEF OverIn, AboveHorizon, path
  <2>4. Stats(log', OverIn(log', p), Len(p)) =
          IF n + 1 \in OverIn(log', p)
          THEN Credited(Stats(log, OverIn(log, p), Len(p)), Return(log'[n + 1].path, log'[n + 1].tail, Len(p)))
          ELSE Stats(log, OverIn(log, p), Len(p))
    <3>1. Len(log) = n /\ Len(log') = n + 1
      BY <1>1 DEF n
    <3>2. OverIn(log, p) \subseteq 1 .. n /\ OverIn(log', p) \subseteq 1 .. n + 1
      BY <1>3
    <3>. QED  BY <1>1, <1>3, <2>2, <3>1, <3>2, StatsMore
  <2>. QED  BY <1>1, <1>5, <2>1, <2>3, <2>4
<1>8. ASSUME NEW k \in DOMAIN chance
      PROVE  chance'[k] = Stats(log', ThroughIn(log', k), Len(k[1]))
  <2>1. chance[k] = Stats(log, ThroughIn(log, k), Len(k[1]))
    BY <1>4 DEF Counted
  <2>2. \A i \in 1 .. n : i \in ThroughIn(log, k) <=> i \in ThroughIn(log', k)
    <3>1. \A i \in 1 .. n : i \in 1 .. n + 1
      BY <1>3
    <3>. QED  BY <1>1, <1>3, <3>1 DEF OverIn, ThroughIn
  <2>3. n + 1 \in ThroughIn(log', k) <=> Taken(k)
    <3>1. n + 1 \in DOMAIN log'
      BY <1>3
    <3>2. k \in Seq(Steps) \X Actions /\ k[1] \in Seq(Steps)
      <4>1. k \in Seq(Steps) \X Actions
        BY <1>4 DEF Shape
      <4>. QED  BY <4>1
    <3>3. Taken(k) <=> IsPrefix(k[1], path) /\ Len(path) > Len(k[1]) /\ path[Len(k[1]) + 1][1] = k[2]
      BY <1>2, <3>2, EdgeOnPath DEF Taken
    <3>4. n + 1 \in ThroughIn(log', k) <=>
            /\ IsPrefix(k[1], path) /\ Len(k[1]) < Horizon
            /\ Len(path) > Len(k[1]) /\ path[Len(k[1]) + 1][1] = k[2]
      BY <1>1, <3>1 DEF OverIn, ThroughIn
    <3>5. Len(path) > Len(k[1]) => Len(k[1]) < Horizon
      BY <1>2, <3>2
    <3>. QED  BY <3>3, <3>4, <3>5
  <2>4. Stats(log', ThroughIn(log', k), Len(k[1])) =
          IF n + 1 \in ThroughIn(log', k)
          THEN Credited(Stats(log, ThroughIn(log, k), Len(k[1])), Return(log'[n + 1].path, log'[n + 1].tail, Len(k[1])))
          ELSE Stats(log, ThroughIn(log, k), Len(k[1]))
    <3>1. Len(log) = n /\ Len(log') = n + 1
      BY <1>1 DEF n
    <3>2. ThroughIn(log, k) \subseteq 1 .. n /\ ThroughIn(log', k) \subseteq 1 .. n + 1
      BY <1>3
    <3>. QED  BY <1>1, <1>3, <2>2, <3>1, <3>2, StatsMore
  <2>. QED  BY <1>1, <1>5, <2>1, <2>3, <2>4
<1>9. Counted'
  BY <1>5, <1>7, <1>8 DEF Counted
<1>10. ASSUME NEW k \in DOMAIN chance PROVE chance'[k].visits > 0
  <2>1. chance[k].visits \in Nat
    <3>1. chance[k] = Stats(log, ThroughIn(log, k), Len(k[1]))
      BY <1>4 DEF Counted
    <3>2. ThroughIn(log, k) \subseteq 1 .. Len(log)
      BY <1>3 DEF n
    <3>. QED  BY <1>3, <3>1, <3>2, VisitsOK
  <2>2. CASE Taken(k)
    <3>1. chance'[k].visits = chance[k].visits + 1
      BY <1>5, <2>2 DEF Credited
    <3>. QED  BY <2>1, <3>1
  <2>3. CASE ~Taken(k)
    <3>1. ~OnSim(k)
      BY <1>2, <2>3 DEF OnSim, Taken, path
    <3>. QED  BY <1>4, <1>5, <2>3, <3>1 DEF Visited
  <2>. QED  BY <2>2, <2>3
<1>11. Descent' /\ Visited'
  BY <1>2, <1>5, <1>10 DEF Descent, Visited, Sampling, InSample
<1>. QED  BY <1>6, <1>9, <1>11 DEF Tree

LEMMA TreeNext == IInv /\ IInv' /\ Kept /\ Tree /\ [Next]_vars => Tree'
<1>. SUFFICES ASSUME IInv, IInv', Kept, Tree, [Next]_vars PROVE Tree'
  OBVIOUS
<1>0. Logged /\ prevAct \in Actions /\ percept \in Percepts
  BY DEF Kept, IInv, Types
<1>1. CASE UNCHANGED vars
  <2>1. UNCHANGED <<node, chance, log, sim, pc>>
    BY <1>1 DEF vars, treeVars
  <2>2. pc = "backup" => Len(sim.path) <= Horizon
    BY DEF Tree, Descent
  <2>. QED  BY <2>1, <2>2, SameTree
<1>2. CASE Push \/ Pop
  <2>1. UNCHANGED <<node, chance, log, sim>> /\ (pc' = pc \/ pc' = "dead")
    BY <1>2 DEF Push, Pop, treeVars
  <2>2. pc' = pc
    BY <2>1 DEF IInv, Types, InSample
  <2>3. pc = "backup" => Len(sim.path) <= Horizon
    BY DEF Tree, Descent
  <2>. QED  BY <2>1, <2>2, <2>3, SameTree
<1>3. CASE \/ LearnPercept \/ Act \/ Fail \/ \E a \in Actions : Explore(a) \/ EndSearch(a)
           \/ \E x \in Percepts : Perform(x)
  <2>1. UNCHANGED <<node, chance, log>> /\ pc \notin Sampling /\ pc' \notin Sampling
    BY <1>3 DEF LearnPercept, Act, Fail, Explore, EndSearch, Perform, treeVars, Sampling, InSample
  <2>. QED  BY <2>1, SameTree
<1>4. CASE BeginSearch
  <2>1. /\ pc = "plan" /\ pc' = "search" /\ Prune(prevAct, percept)
    BY <1>4 DEF BeginSearch
  <2>2. \A k \in DOMAIN chance : chance[k].visits > 0
    BY <2>1 DEF Tree, Visited, Sampling, InSample
  <2>3. Shape' /\ Counted' /\ \A k \in DOMAIN chance' : chance'[k].visits > 0
    <3>1. CASE Sampled(prevAct, percept)
      <4>1. Reroot(prevAct, percept)
        BY <2>1, <3>1 DEF Prune
      <4>. QED  BY <1>0, <2>2, <3>1, <4>1, RerootTree DEF Tree
    <3>2. CASE ~Sampled(prevAct, percept)
      BY <2>1, <3>2, NewTreeOK DEF Prune
    <3>. QED  BY <3>1, <3>2
  <2>4. Descent' /\ Visited'
    BY <2>1, <2>3 DEF Descent, Visited, Sampling, InSample
  <2>. QED  BY <2>3, <2>4 DEF Tree
<1>5. CASE \E x \in Percepts : NewEpisode(x)
  <2>1. pc = "idle" /\ pc' = "idle" /\ NewTree
    BY <1>5 DEF NewEpisode
  <2>2. Shape' /\ Counted' /\ DOMAIN chance' = {}
    BY <2>1, NewTreeOK
  <2>3. Descent' /\ Visited'
    BY <2>1, <2>2 DEF Descent, Visited, Sampling, InSample
  <2>. QED  BY <2>2, <2>3 DEF Tree
<1>6. CASE BeginSample
  <2>1. pc = "search" /\ pc' = "decide" /\ UNCHANGED <<node, chance, log>> /\ sim'.path = << >>
    BY <1>6 DEF BeginSample, treeVars, NoSim
  <2>2. Shape' /\ Counted'
    BY <2>1 DEF Tree, Shape, Counted
  <2>3. Visited'
    BY <2>1 DEF Tree, Visited, Sampling, InSample
  <2>4. Along(<< >>, 1, DOMAIN node, DOMAIN chance)
    <3>1. Len(<< >>) = 0 /\ 0 .. 0 = {0} /\ 1 .. 0 = {}
      BY NoLogIsLog
    <3>2. Pre(<< >>, 0) = << >>
      BY SubSeqEmpty DEF Pre
    <3>3. Pre(<< >>, 0) \in DOMAIN node
      BY <3>2 DEF Tree, Shape
    <3>. QED  BY <3>1, <3>3 DEF Along
  <2>5. Len(<< >>) + 1 = 1
    BY NoLogIsLog
  <2>6. Descent'
    BY <2>1, <2>4, <2>5 DEF Descent
  <2>. QED  BY <2>2, <2>3, <2>6 DEF Tree
<1>7. CASE \E a \in Actions : SelectAction(a)
  BY <1>0, <1>7, SelectTree
<1>8. CASE \E a \in Actions : RollAction(a)
  <2>1. /\ UNCHANGED <<node, chance, log>> /\ pc \in {"decide", "roll"} /\ pc' = "rollchance"
        /\ \E a : sim' = [sim EXCEPT !.act = a]
    BY <1>8 DEF RollAction, treeVars
  <2>2. sim'.path = sim.path
    BY <2>1 DEF IInv, Types, Sims
  <2>. QED  BY <2>1, <2>2, SameTree DEF Sampling, InSample
<1>9. CASE \E b \in BOOLEAN : PerceptBit(b)
  <2>1. PICK b \in BOOLEAN : PerceptBit(b)
    BY <1>9
  <2>. DEFINE bits == Append(sim.bits, b)
              step == <<sim.act, bits>>
              child == Append(sim.path, step)
  <2>2. /\ pc \in {"chance", "rollchance"} /\ UNCHANGED <<chance, log>>
        /\ sim.path \in Seq(Steps) /\ sim.act \in Actions /\ sim.bits \in Seq(BOOLEAN)
        /\ sim \in Sims /\ Len(sim.bits) < PerceptBits
    BY <2>1, SimTypes DEF PerceptBit, IInv, Types, InStep
  <2>3. bits \in Seq(BOOLEAN) /\ Len(bits) = Len(sim.bits) + 1 /\ Len(sim.bits) \in Nat
    BY <2>2, AppendProperties, LenProperties
  <2>4. CASE Len(bits) < PerceptBits
    <3>1. UNCHANGED <<node, pc>> /\ sim' = [sim EXCEPT !.bits = bits]
      BY <2>1, <2>4 DEF PerceptBit
    <3>. HIDE DEF bits
    <3>2. sim'.path = sim.path /\ sim'.act = sim.act
      BY <2>2, <3>1 DEF Sims
    <3>. QED  BY <2>2, <3>1, <3>2, SameTree DEF Sampling, InSample
  <2>5. CASE ~(Len(bits) < PerceptBits) /\ pc = "rollchance"
    <3>1. /\ UNCHANGED node /\ pc' = "roll"
          /\ sim' = [sim EXCEPT !.bits = << >>, !.rolled = Append(@, step)]
      BY <2>1, <2>5 DEF PerceptBit
    <3>. HIDE DEF step
    <3>2. sim'.path = sim.path
      BY <2>2, <3>1 DEF Sims
    <3>. QED  BY <2>2, <2>5, <3>1, <3>2, SameTree DEF Sampling, InSample
  <2>6. CASE ~(Len(bits) < PerceptBits) /\ pc = "chance"
    <3>1. /\ sim' = [sim EXCEPT !.bits = << >>, !.path = child] /\ pc' = "decide"
          /\ node' = [p \in DOMAIN node \cup {child} |-> IF p \in DOMAIN node THEN node[p] ELSE NoStats]
      BY <2>1, <2>6 DEF PerceptBit
    <3>2. step \in Steps /\ step[1] = sim.act
      <4>1. Len(bits) = PerceptBits
        BY <2>2, <2>3, <2>6, AgentAssumption
      <4>2. bits \in Percepts
        BY <2>3, <4>1, PerceptIsSeq
      <4>. QED  BY <2>2, <4>2 DEF Steps
    <3>. HIDE DEF step
    <3>3. sim'.path = child
      <4>. HIDE DEF child
      <4>. QED  BY <2>2, <3>1 DEF Sims
    <3>. QED  BY <1>0, <2>2, <2>6, <3>1, <3>2, <3>3, DescendTree
  <2>. QED  BY <2>2, <2>4, <2>5, <2>6
<1>10. CASE EndSample
  <2>1. /\ UNCHANGED <<node, chance, log, sim>> /\ pc \in {"decide", "roll"} /\ pc' = "backup"
        /\ Len(Simulated) = Horizon
    BY <1>10 DEF EndSample, treeVars, Deep
  <2>2. Len(sim.path) <= Horizon
    <3>1. sim.path \in Seq(Steps) /\ sim.rolled \in Seq(Steps)
      BY SimTypes DEF IInv
    <3>2. Len(Simulated) = Len(sim.path) + Len(sim.rolled)
      BY <3>1, ConcatProperties DEF Simulated
    <3>3. Len(sim.path) \in Nat /\ Len(sim.rolled) \in Nat
      BY <3>1, LenProperties
    <3>4. Len(sim.path) + Len(sim.rolled) = Horizon
      BY <2>1, <3>2, Zenon
    <3>5. \A m \in Nat, n \in Nat : m <= m + n
      OBVIOUS
    <3>6. Len(sim.path) <= Len(sim.path) + Len(sim.rolled)
      BY <3>3, <3>5, Zenon
    <3>. QED  BY <3>4, <3>6, Zenon
  <2>. QED  BY <2>1, <2>2, SameTree DEF Sampling, InSample
<1>11. CASE Backup
  BY <1>0, <1>11, BackupTree
<1>. QED  BY <1>1, <1>2, <1>3, <1>4, <1>5, <1>6, <1>7, <1>8, <1>9, <1>10, <1>11 DEF Next

\* TreeMatchesLog: the visits and sums of a node are those of the samples drawn
\* through it, whatever the re-rooting, and no tried action lacks a sample when
\* the actions are compared.
THEOREM TreeIsExact == Spec => []TreeMatchesLog
<1>1. Init => Tree
  <2>. SUFFICES ASSUME Init PROVE Tree
    OBVIOUS
  <2>1. /\ DOMAIN node = {<< >>} /\ DOMAIN chance = {} /\ log = << >>
        /\ \A p \in DOMAIN node : node[p] = Stats(log, OverIn(log, p), Len(p))
    BY RootAlone DEF Init
  <2>2. << >> \in Seq(Steps) /\ 1 .. Len(log) = {}
    BY <2>1, NoLogIsLog
  <2>3. pc = "idle"
    BY DEF Init
  <2>. QED  BY <2>1, <2>2, <2>3 DEF Tree, Shape, Descent, Visited, Counted, Sampling, InSample
<1>2. Spec => []Tree
  BY <1>1, TreeNext, KeptAlways, Inductive, PTL DEF Spec
<1>3. Tree => TreeMatchesLog
  BY StatsHere DEF Tree, Counted, Visited, Sampling, InSample, TreeMatchesLog
<1>. QED  BY <1>2, <1>3, PTL

-----------------------------------------------------------------------------
(* The contract *)

\* The open scope is not longer than the stream, and with scopes no bit is popped.
Grown ==
  /\ pc \in InSample => Len(context) <= Len(stream)
  /\ takeback # << >> => ~scoped

LEMMA GrownInit == Init => Grown
  BY DEF Init, Grown, InSample

LEMMA GrownNext == IInv /\ IInv' /\ Grown /\ [Next]_vars => Grown'
<1>. SUFFICES ASSUME IInv, IInv', Grown, [Next]_vars PROVE Grown'
  OBVIOUS
<1>0. stream \in Seq(Bits) /\ Len(stream) \in Nat /\ context \in Seq(Bits) /\ Len(context) \in Nat
  BY DEF IInv, Types
<1>1. ASSUME NEW o \in Bits, stream' = Append(stream, o), UNCHANGED <<scoped, context, takeback>>,
             pc' \in InSample => pc \in InSample
      PROVE  Grown'
  BY <1>0, <1>1 DEF Grown
<1>2. CASE Push
  <2>1. Head(todo) \in Bits
    BY <1>2, HeadTailProperties DEF Push, IInv, Types
  <2>. QED  BY <1>1, <1>2, <2>1 DEF Push, cycleVars
<1>3. CASE \E b \in BOOLEAN : PerceptBit(b)
  <2>1. PICK b \in BOOLEAN : PerceptBit(b)
    BY <1>3
  <2>2. Contract!Fed("adaptive", b) \in Bits
    BY DEF Contract!Fed, Bits
  <2>. QED  BY <1>1, <2>1, <2>2 DEF PerceptBit, cycleVars, InSample
<1>4. CASE Pop
  <2>1. pc = "backup" /\ scoped' = scoped /\ takeback # << >>
    BY <1>4 DEF Pop, IInv, Calls
  <2>2. pc' \notin InSample
    BY <1>4, <2>1 DEF Pop, InSample
  <2>. QED  BY <2>1, <2>2 DEF Grown
<1>5. CASE BeginSample
  <2>1. stream' = context' /\ takeback' = << >>
    BY <1>5 DEF BeginSample, IInv, Settled, Calls, cycleVars
  <2>. QED  BY <1>0, <1>5, <2>1 DEF Grown, BeginSample, cycleVars
<1>6. CASE EndSample
  <2>1. pc' \notin InSample /\ scoped' = scoped /\ takeback = << >> /\ pc \in InSample
    BY <1>6 DEF EndSample, InSample, IInv, Calls
  <2>2. CASE scopes # << >>
    BY <1>6, <2>1, <2>2 DEF EndSample, Revert, Grown
  <2>3. CASE scopes = << >>
    <3>1. ~scoped
      BY <2>1, <2>3 DEF IInv, Calls
    <3>. QED  BY <2>1, <3>1 DEF Grown
  <2>. QED  BY <2>2, <2>3
<1>7. ASSUME UNCHANGED <<scoped, stream, context, takeback>>, pc' \in InSample => pc \in InSample
      PROVE  Grown'
  BY <1>7 DEF Grown
<1>8. CASE \/ LearnPercept \/ BeginSearch \/ Act \/ Fail \/ Backup
           \/ \E a \in Actions : Explore(a) \/ EndSearch(a)
           \/ \E x \in Percepts : Perform(x) \/ NewEpisode(x)
  <2>1. takeback' = takeback /\ scoped' = scoped /\ pc' \notin InSample
    BY <1>8 DEF LearnPercept, BeginSearch, Act, Fail, Backup, Explore, EndSearch, Perform, NewEpisode,
                modelVars, InSample
  <2>. QED  BY <2>1 DEF Grown
<1>9. CASE \E a \in Actions : SelectAction(a) \/ RollAction(a)
  BY <1>7, <1>9 DEF SelectAction, RollAction, cycleVars, InSample
<1>10. CASE UNCHANGED vars
  BY <1>7, <1>10 DEF vars, modelVars, cycleVars
<1>. QED  BY <1>2, <1>3, <1>4, <1>5, <1>6, <1>8, <1>9, <1>10 DEF Next

\* The rollback points as the contract sees them.
Points ==
  IF scoped
  THEN [i \in DOMAIN scopes |-> [kind |-> "scope", stream |-> SubSeq(stream, 1, scopes[i])]]
  ELSE [i \in DOMAIN stream |-> [kind |-> stream[i].op, stream |-> SubSeq(stream, 1, i - 1)]]

\* Appending, as a function.
LEMMA AppendAsFunction ==
  ASSUME NEW n \in Nat, NEW s, s = [i \in 1 .. n |-> s[i]], NEW e
  PROVE  Append(s, e) = [i \in 1 .. n + 1 |-> IF i <= n THEN s[i] ELSE e]
<1>. DEFINE S == {s[i] : i \in 1 .. n} \cup {e}
<1>1. s \in [1 .. n -> S]
  <2>. SUFFICES [i \in 1 .. n |-> s[i]] \in [1 .. n -> S]
    OBVIOUS
  <2>. QED  OBVIOUS
<1>. HIDE DEF S
<1>2. s \in Seq(S) /\ Len(s) = n
  BY <1>1, SeqDef
<1>3. e \in S
  BY DEF S
<1>. QED  BY <1>1, <1>2, <1>3

\* A prefix, as a function.
LEMMA PrefixAsFunction ==
  ASSUME NEW n \in Nat, NEW s, s = [i \in 1 .. n |-> s[i]], NEW m \in 0 .. n
  PROVE  SubSeq(s, 1, m) = [i \in 1 .. m |-> s[i]]
<1>. DEFINE S == {s[i] : i \in 1 .. n}
<1>1. s \in [1 .. n -> S]
  <2>. SUFFICES [i \in 1 .. n |-> s[i]] \in [1 .. n -> S]
    OBVIOUS
  <2>. QED  OBVIOUS
<1>. HIDE DEF S
<1>2. s \in Seq(S) /\ Len(s) = n
  BY <1>1, SeqDef
<1>3. \A i \in 1 .. m : 1 + i - 1 = i
  OBVIOUS
<1>. QED  BY <1>2, <1>3

\* A bit more: no rollback point with scopes, one without.
LEMMA FeedKeepsContract ==
  ASSUME IInv, Grown, NEW o \in Bits, stream' = Append(stream, o), UNCHANGED <<scoped, scopes>>
  PROVE  Contract!Next
<1>1. /\ stream \in Seq(Bits) /\ Len(stream) \in Nat /\ scopes \in Seq(Nat)
      /\ o = [op |-> o.op, bit |-> o.bit] /\ o.op \in {"adaptive", "frozen"} /\ o.bit \in BOOLEAN
  BY DEF IInv, Types, Bits
<1>2. /\ stream' \in Seq(Bits) /\ Len(stream') = Len(stream) + 1
      /\ stream'[Len(stream) + 1] = o
      /\ \A i \in 1 .. Len(stream) : stream'[i] = stream[i]
      /\ \A n \in 0 .. Len(stream) : SubSeq(stream', 1, n) = SubSeq(stream, 1, n)
  BY <1>1
<1>3. CASE scoped
  <2>1. \A i \in DOMAIN scopes : scopes[i] \in 0 .. Len(stream)
    <3>1. CASE pc \in InSample
      <4>1. scopes = <<Len(context)>> /\ Len(context) <= Len(stream) /\ Len(context) \in Nat
        BY <1>3, <3>1 DEF IInv, Calls, Grown, Types
      <4>. QED  BY <1>1, <4>1
    <3>2. CASE pc \notin InSample
      <4>1. scopes = << >>
        BY <3>2 DEF IInv, Calls
      <4>. QED  BY <4>1
    <3>. QED  BY <3>1, <3>2
  <2>2. Points' = Points
    BY <1>2, <1>3, <2>1 DEF Points
  <2>3. Contract!Feed(o.op, o.bit)
    <3>1. Contract!Fed(o.op, o.bit) = o
      BY <1>1 DEF Contract!Fed
    <3>. QED  BY <2>2, <3>1 DEF Contract!Feed, Points
  <2>. QED  BY <1>1, <2>3 DEF Contract!Next, Contract!Modes
<1>4. CASE ~scoped
  <2>1. Points = [i \in 1 .. Len(stream) |-> [kind |-> stream[i].op, stream |-> SubSeq(stream, 1, i - 1)]]
    <3>1. DOMAIN stream = 1 .. Len(stream)
      BY <1>1
    <3>. QED  BY <1>4, <3>1, Zenon DEF Points
  <2>2. Points' = [i \in 1 .. Len(stream) + 1 |->
                     [kind |-> stream'[i].op, stream |-> SubSeq(stream', 1, i - 1)]]
    <3>1. DOMAIN stream' = 1 .. Len(stream) + 1 /\ ~scoped'
      BY <1>2, <1>4
    <3>. QED  BY <3>1, Zenon DEF Points
  <2>3. Points' = Append(Points, [kind |-> o.op, stream |-> stream])
    <3>. DEFINE new == [kind |-> o.op, stream |-> stream]
    <3>2. Append(Points, new) =
            [i \in 1 .. Len(stream) + 1 |-> IF i <= Len(stream) THEN Points[i] ELSE new]
      <4>1. DOMAIN Points = 1 .. Len(stream) /\ Points = [i \in 1 .. Len(stream) |-> Points[i]]
        BY <2>1, Zenon
      <4>. HIDE DEF new
      <4>. QED  BY <1>1, <4>1, AppendAsFunction
    <3>3. ASSUME NEW i \in 1 .. Len(stream) + 1
          PROVE  [kind |-> stream'[i].op, stream |-> SubSeq(stream', 1, i - 1)] =
                   IF i <= Len(stream) THEN Points[i] ELSE new
      <4>1. SubSeq(stream', 1, i - 1) = SubSeq(stream, 1, i - 1)
        <5>1. i - 1 \in 0 .. Len(stream)
          BY <1>1
        <5>. QED  BY <1>2, <5>1
      <4>2. CASE i <= Len(stream)
        <5>1. i \in 1 .. Len(stream)
          BY <1>1, <4>2
        <5>2. stream'[i] = stream[i]
          BY <1>2, <5>1
        <5>3. Points[i] = [kind |-> stream[i].op, stream |-> SubSeq(stream, 1, i - 1)]
          BY <2>1, <5>1, Zenon
        <5>. QED  BY <4>1, <4>2, <5>2, <5>3, Zenon
      <4>3. CASE ~(i <= Len(stream))
        <5>1. i = Len(stream) + 1
          BY <1>1, <4>3
        <5>2. SubSeq(stream, 1, i - 1) = stream /\ stream'[i] = o
          BY <1>1, <1>2, <5>1, SubSeqFull
        <5>. QED  BY <4>1, <4>3, <5>2, Zenon
      <4>. QED  BY <4>2, <4>3
    <3>. HIDE DEF new
    <3>4. Points' = [i \in 1 .. Len(stream) + 1 |-> IF i <= Len(stream) THEN Points[i] ELSE new]
      BY <2>2, <3>3, Zenon
    <3>. QED  BY <3>2, <3>4, Zenon DEF new
  <2>4. ~Contract!InScope
    <3>1. \A i \in DOMAIN Points : Points[i].kind # "scope"
      <4>1. ASSUME NEW i \in 1 .. Len(stream) PROVE stream[i].op # "scope"
        <5>1. stream[i] \in Bits
          BY <1>1
        <5>. QED  BY <5>1 DEF Bits
      <4>. QED  BY <2>1, <4>1
    <3>. QED  BY <3>1 DEF Contract!InScope, Points
  <2>5. Contract!Speculate(o.op, o.bit)
    <3>1. Contract!Fed(o.op, o.bit) = o
      BY <1>1 DEF Contract!Fed
    <3>. QED  BY <2>3, <2>4, <3>1 DEF Contract!Speculate, Contract!Push, Points
  <2>. QED  BY <1>1, <2>5 DEF Contract!Next, Contract!Modes
<1>. QED  BY <1>3, <1>4

\* Initially there is no rollback point.
LEMMA ContractInit == Init => Contract!Init
<1>. SUFFICES ASSUME Init PROVE Contract!Init
  OBVIOUS
<1>1. stream = << >> /\ scopes = << >>
  BY DEF Init
<1>2. Points = << >>
  BY <1>1 DEF Points
<1>. QED  BY <1>1, <1>2 DEF Contract!Init, Points

\* The newest of the bits taken back, or the bits of the scope.
LEMMA UndoKeepsContract ==
  ASSUME IInv, UNCHANGED scoped,
         \/ /\ ~scoped /\ stream # << >>
            /\ stream' = SubSeq(stream, 1, Len(stream) - 1)
         \/ /\ scoped /\ scopes # << >>
            /\ stream' = SubSeq(stream, 1, scopes[Len(scopes)])
            /\ scopes' = SubSeq(scopes, 1, Len(scopes) - 1)
  PROVE  Contract!Undo
<1>1. stream \in Seq(Bits) /\ Len(stream) \in Nat /\ scopes \in Seq(Nat) /\ Len(scopes) \in Nat
      /\ DOMAIN stream = 1 .. Len(stream) /\ DOMAIN scopes = 1 .. Len(scopes)
  BY DEF IInv, Types
<1>2. SUFFICES Points # << >> /\ stream' = Points[Len(Points)].stream
               /\ Points' = SubSeq(Points, 1, Len(Points) - 1)
  BY DEF Contract!Undo, Points
<1>3. CASE ~scoped
  <2>. DEFINE n == Len(stream)
  <2>1. stream # << >> /\ stream' = SubSeq(stream, 1, n - 1) /\ n \in Nat \ {0}
    BY <1>1, <1>3, EmptySeq
  <2>2. /\ Len(stream') = n - 1 /\ DOMAIN stream' = 1 .. n - 1
        /\ \A i \in 1 .. n - 1 : stream'[i] = stream[i]
    BY <1>1, <2>1
  <2>3. Points = [i \in 1 .. n |-> [kind |-> stream[i].op, stream |-> SubSeq(stream, 1, i - 1)]]
    BY <1>1, <1>3, Zenon DEF Points
  <2>4. Points' = [i \in 1 .. n - 1 |-> [kind |-> stream'[i].op, stream |-> SubSeq(stream', 1, i - 1)]]
    BY <1>3, <2>2, Zenon DEF Points
  <2>5. \A i \in 1 .. n - 1 : SubSeq(stream', 1, i - 1) = SubSeq(stream, 1, i - 1)
    BY <1>1, <2>1
  <2>6. Points' = [i \in 1 .. n - 1 |-> Points[i]]
    <3>1. ASSUME NEW i \in 1 .. n - 1
          PROVE  [kind |-> stream'[i].op, stream |-> SubSeq(stream', 1, i - 1)] = Points[i]
      <4>1. i \in 1 .. n
        BY <2>1
      <4>. QED  BY <2>2, <2>3, <2>5, <4>1, Zenon
    <3>. QED  BY <2>4, <3>1, Zenon
  <2>7. Len(Points) = n /\ DOMAIN Points = 1 .. n
    BY <2>1, <2>3
  <2>8. Points[n].stream = SubSeq(stream, 1, n - 1)
    BY <2>1, <2>3
  <2>9. SubSeq(Points, 1, n - 1) = [i \in 1 .. n - 1 |-> Points[i]]
    BY <2>1, <2>7, PrefixAsFunction
  <2>10. Points # << >>
    BY <2>1, <2>7
  <2>. QED  BY <2>1, <2>6, <2>7, <2>8, <2>9, <2>10
<1>4. CASE scoped
  <2>1. scopes = <<Len(context)>> /\ Len(scopes) = 1 /\ DOMAIN scopes = 1 .. 1
    BY <1>1, <1>4 DEF IInv, Calls
  <2>2. stream' = SubSeq(stream, 1, scopes[1]) /\ scopes' = << >>
    BY <1>1, <1>4, <2>1
  <2>3. Points = [i \in 1 .. 1 |-> [kind |-> "scope", stream |-> SubSeq(stream, 1, scopes[i])]]
    BY <1>4, <2>1, Zenon DEF Points
  <2>4. Points' = << >>
    BY <1>4, <2>2 DEF Points
  <2>5. Len(Points) = 1 /\ Points # << >> /\ Points[1].stream = SubSeq(stream, 1, scopes[1])
    BY <2>3
  <2>6. SubSeq(Points, 1, Len(Points) - 1) = << >>
    BY <2>5
  <2>. QED  BY <2>2, <2>4, <2>5, <2>6
<1>. QED  BY <1>3, <1>4

\* A scope opened at the end of the stream.
LEMMA ScopeKeepsContract ==
  ASSUME IInv, scoped, UNCHANGED <<scoped, stream>>, scopes = << >>, scopes' = Append(scopes, Len(stream))
  PROVE  Contract!BeginScope
<1>1. stream \in Seq(Bits) /\ Len(stream) \in Nat
  BY DEF IInv, Types
<1>2. Points = << >>
  BY DEF Points
<1>3. Points' = <<[kind |-> "scope", stream |-> stream]>>
  <2>1. scopes' = <<Len(stream)>> /\ DOMAIN scopes' = {1} /\ scopes'[1] = Len(stream) /\ scoped'
    OBVIOUS
  <2>2. Points' = [i \in {1} |-> [kind |-> "scope", stream |-> SubSeq(stream, 1, scopes'[i])]]
    BY <2>1, Zenon DEF Points
  <2>3. SubSeq(stream, 1, Len(stream)) = stream
    BY <1>1, SubSeqFull
  <2>4. Points' = [i \in {1} |-> [kind |-> "scope", stream |-> stream]]
    BY <2>1, <2>2, <2>3, Zenon
  <2>5. \A e : [i \in {1} |-> e] = <<e>>
    OBVIOUS
  <2>. QED  BY <2>4, <2>5, Zenon
<1>4. Points' = Append(Points, [kind |-> "scope", stream |-> stream])
  BY <1>2, <1>3
<1>. QED  BY <1>4 DEF Contract!BeginScope, Contract!Push, Points

LEMMA ContractStep == IInv /\ IInv' /\ Grown /\ [Next]_vars => [Contract!Next]_(Contract!vars)
<1>. SUFFICES ASSUME IInv, IInv', Grown, [Next]_vars PROVE [Contract!Next]_(Contract!vars)
  OBVIOUS
<1>1. ASSUME UNCHANGED <<scoped, stream, scopes>> PROVE [Contract!Next]_(Contract!vars)
  BY <1>1 DEF Contract!vars
<1>2. CASE Push
  <2>1. Head(todo) \in Bits /\ stream' = Append(stream, Head(todo)) /\ UNCHANGED <<scoped, scopes>>
    BY <1>2, HeadTailProperties DEF Push, IInv, Types
  <2>. QED  BY <2>1, FeedKeepsContract
<1>3. CASE \E b \in BOOLEAN : PerceptBit(b)
  <2>1. PICK b \in BOOLEAN : PerceptBit(b)
    BY <1>3
  <2>2. Contract!Fed("adaptive", b) \in Bits
    BY DEF Contract!Fed, Bits
  <2>3. stream' = Append(stream, Contract!Fed("adaptive", b)) /\ UNCHANGED <<scoped, scopes>>
    BY <2>1 DEF PerceptBit
  <2>. QED  BY <2>2, <2>3, FeedKeepsContract
<1>4. CASE Pop
  <2>1. UNCHANGED <<scoped, scopes>> /\ ~scoped
    BY <1>4 DEF Pop, Grown
  <2>2. CASE UNCHANGED stream
    BY <1>1, <2>1, <2>2
  <2>3. CASE stream # << >> /\ stream' = SubSeq(stream, 1, Len(stream) - 1)
    BY <2>1, <2>3, UndoKeepsContract DEF Contract!Next
  <2>. QED  BY <1>4, <2>2, <2>3 DEF Pop
<1>5. CASE BeginSample
  <2>1. scopes = << >> /\ UNCHANGED <<scoped, stream>>
    BY <1>5 DEF BeginSample, IInv, Calls, InSample
  <2>2. CASE scoped
    <3>1. scopes' = Append(scopes, Len(stream))
      BY <1>5, <2>2 DEF BeginSample
    <3>. QED  BY <2>1, <2>2, <3>1, ScopeKeepsContract DEF Contract!Next
  <2>3. CASE ~scoped
    BY <1>1, <1>5, <2>1, <2>3 DEF BeginSample
  <2>. QED  BY <2>2, <2>3
<1>6. CASE EndSample
  <2>1. UNCHANGED scoped /\ pc \in InSample
    BY <1>6 DEF EndSample, InSample
  <2>2. CASE scopes # << >>
    <3>1. scoped
      BY <2>2 DEF IInv, Calls
    <3>2. /\ stream' = SubSeq(stream, 1, scopes[Len(scopes)])
          /\ scopes' = SubSeq(scopes, 1, Len(scopes) - 1)
      BY <1>6, <2>2 DEF EndSample, Revert
    <3>. QED  BY <2>1, <2>2, <3>1, <3>2, UndoKeepsContract DEF Contract!Next
  <2>3. CASE scopes = << >>
    BY <1>1, <1>6, <2>3 DEF EndSample, Revert
  <2>. QED  BY <2>2, <2>3
<1>7. CASE \/ LearnPercept \/ BeginSearch \/ Act \/ Fail \/ Backup
           \/ \E a \in Actions : Explore(a) \/ SelectAction(a) \/ RollAction(a) \/ EndSearch(a)
           \/ \E x \in Percepts : Perform(x) \/ NewEpisode(x)
  BY <1>1, <1>7 DEF LearnPercept, BeginSearch, Act, Fail, Backup, Explore, SelectAction, RollAction,
                    EndSearch, Perform, NewEpisode, modelVars
<1>8. CASE UNCHANGED vars
  BY <1>1, <1>8 DEF vars, modelVars
<1>. QED  BY <1>2, <1>3, <1>4, <1>5, <1>6, <1>7, <1>8 DEF Next

\* What the agent takes back is always the newest rollback point of the predictor:
\* model_revert and the pushes before it keep to the stack that Predictor promises,
\* with scopes and without.
THEOREM ContractIsKept == Spec => KeepsContract
<1>1. Spec => []Grown
  BY Inductive, GrownInit, GrownNext, PTL DEF Spec
<1>. QED  BY <1>1, Inductive, ContractInit, ContractStep, PTL DEF Spec, KeepsContract, Contract!Spec

===============================================================================
