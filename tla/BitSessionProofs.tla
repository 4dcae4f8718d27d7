--------------------------- MODULE BitSessionProofs ---------------------------
(***************************************************************************)
(* The bit session keeps its promise for every width of a symbol, every    *)
(* length of the stream and every nesting of checkpoints.                  *)
(*                                                                         *)
(* A journal length leads to a stream when popping the journal down to it  *)
(* leaves that stream.  Fed operations keep what a length leads to as long *)
(* as they are journaled, and going back keeps it for every length below   *)
(* the one gone back to.  The session goes back to a checkpoint in two     *)
(* stages, to its mark and from there to the start of its symbol, so the   *)
(* invariant follows the lower of the two lengths, the anchor.             *)
(***************************************************************************)
EXTENDS BitSession, SequenceTheorems, TLAPS

Ops == [op : Modes, bit : BOOLEAN] \cup {ResetMark}
Marks == [len : Nat, progress : Int]
Cores == [tree : Seq(Ops), journal : Seq(Nat), depth : Nat, progress : Int]
Prefixes == [kind : {"none", "mass", "native"}, mode : Modes \cup {"unset"},
             start : Seq(Marks), bits : Seq(BOOLEAN)]
Partials == [mode : Modes \cup {"unset"}, bits : Seq(BOOLEAN)]
Saves == [mark : Marks, prefix : Prefixes, seen : [committed : Seq(Ops), partial : Partials]]

\* Predictor c: its journal never takes back more than was fed, and a shorter
\* journal never takes back more than a longer one.
Rising(j) == \A a \in 1 .. Len(j) : \A b \in 1 .. a : j[b] <= j[a]
Sound(c) == c \in Cores /\ Rising(c.journal) /\ Logged(c) <= Len(c.tree)

\* The stream left when the journal of c is popped down to length n.
Back(c, n) == SubSeq(c.tree, 1, Len(c.tree) - (Logged(c) - Upto(c.journal, n)))
Leads(c, n, t) == n \in Nat /\ n <= Len(c.journal) /\ Back(c, n) = t

\* What the prefix p of a symbol can be, in a session or in a checkpoint.
Shape(p) ==
  /\ p \in Prefixes
  /\ Len(p.start) <= 1 /\ Len(p.bits) < Width
  /\ p.kind # "native" => p.start = << >>
  /\ p.kind = "none" => p.bits = << >>
  /\ p.bits # << >> => p.mode \in Modes
  /\ p.kind = "native" /\ p.bits # << >> /\ p.mode = "frozen" => p.start # << >>

\* A symbol stepped through by the predictor can be taken back.
Startable(p) == p.kind = "native" /\ p.bits # << >> => p.start # << >>

\* The bits that the predictor has learned ahead of the whole symbols.
InFlight(p) == IF p.kind = "native" THEN p.bits ELSE << >>
ProgressIn(p) == IF p.kind = "native" THEN Len(p.bits) ELSE None
PartialOf(p) == IF p.bits = << >> THEN NoBits ELSE [mode |-> p.mode, bits |-> p.bits]

\* Predictor c and prefix p hold the whole symbols t.
Holds(c, p, t) ==
  /\ t \in Seq(Ops)
  /\ c.tree = t \o Symbol("adaptive", InFlight(p))
  /\ c.progress = ProgressIn(p)
  /\ p.start # << >> => Leads(c, p.start[1].len, t)

\* Every checkpoint in s and the start checkpoint keep the journal on.
Counted(d, p, s) ==
  /\ Len(s) + Len(p.start) <= d
  /\ s = << >> => d = Len(p.start)

\* The lowest journal length that restoring e goes back to.
Anchor(e) == IF e.prefix.start # << >> THEN e.prefix.start[1].len ELSE e.mark.len

SavedWell(e) ==
  /\ e \in Saves /\ Shape(e.prefix) /\ Startable(e.prefix)
  /\ e.mark.progress = ProgressIn(e.prefix)

\* Every checkpoint of s still leads to what it has seen, and going back to one
\* keeps those before it.
Anchored(c, p, s) ==
  /\ \A i \in 1 .. Len(s) :
       /\ Leads(c, Anchor(s[i]), s[i].seen.committed)
       /\ Anchor(s[i]) <= s[i].mark.len
       /\ s[i].seen.partial = PartialOf(s[i].prefix)
       /\ p.start # << >> => Anchor(s[i]) <= p.start[1].len
  /\ \A i \in 1 .. Len(s) : \A k \in 1 .. i : Anchor(s[k]) <= Anchor(s[i])

\* Predictor c, prefix p and checkpoints s fit together around the whole symbols t.
Fit(c, p, s, t) ==
  /\ Sound(c) /\ Holds(c, p, t) /\ Counted(c.depth, p, s)
  /\ Nested => Anchored(c, p, s)

SaveList(s) == s \in Seq(Saves) /\ \A i \in 1 .. Len(s) : SavedWell(s[i])

Good(c, p, s, t) == Fit(c, p, s, t) /\ Shape(p) /\ SaveList(s)

IInv ==
  /\ native \in BOOLEAN /\ scoped \in BOOLEAN
  /\ ~scoped => Startable(prefix)
  /\ Good(core, prefix, saved, Observed(core, prefix).committed)

-----------------------------------------------------------------------------
(* The predictor *)

LEMMA SymbolShape ==
  ASSUME NEW mode \in Modes, NEW bits \in Seq(BOOLEAN)
  PROVE  /\ Symbol(mode, bits) \in Seq(Ops) /\ Len(Symbol(mode, bits)) = Len(bits)
         /\ \A i \in 1 .. Len(bits) : Symbol(mode, bits)[i] = Fed(mode, bits[i])
<1>. PICK n \in Nat : n = Len(bits)
  OBVIOUS
<1>1. \A i \in 1 .. n : Fed(mode, bits[i]) \in Ops
  BY DEF Fed, Ops
<1>2. Symbol(mode, bits) \in [1 .. n -> Ops]
  BY <1>1 DEF Symbol
<1>3. Symbol(mode, bits) \in Seq(Ops) /\ Len(Symbol(mode, bits)) = n
  BY <1>2
<1>. QED  BY <1>2, <1>3 DEF Symbol

\* One more bit of a symbol.
LEMMA SymbolAppend ==
  ASSUME NEW mode \in Modes, NEW bits \in Seq(BOOLEAN), NEW bit \in BOOLEAN
  PROVE  Symbol(mode, Append(bits, bit)) = Symbol(mode, bits) \o Symbol(mode, <<bit>>)
<1>. DEFINE more == Append(bits, bit)
            A == Symbol(mode, more)
            S == Symbol(mode, bits)
            U == Symbol(mode, <<bit>>)
            n == Len(bits)
<1>1. more \in Seq(BOOLEAN) /\ Len(more) = n + 1 /\ more[n + 1] = bit /\ n \in Nat
      /\ \A i \in 1 .. n : more[i] = bits[i]
  OBVIOUS
<1>2. <<bit>> \in Seq(BOOLEAN) /\ Len(<<bit>>) = 1 /\ <<bit>>[1] = bit
  OBVIOUS
<1>. HIDE DEF more
<1>3. A \in Seq(Ops) /\ Len(A) = n + 1 /\ \A i \in 1 .. n + 1 : A[i] = Fed(mode, more[i])
  <2>. HIDE DEF n
  <2>. QED  BY <1>1, SymbolShape
<1>4. S \in Seq(Ops) /\ Len(S) = n /\ \A i \in 1 .. n : S[i] = Fed(mode, bits[i])
  BY SymbolShape
<1>5. U \in Seq(Ops) /\ Len(U) = 1 /\ U[1] = Fed(mode, bit)
  <2>. DEFINE one == <<bit>>
  <2>1. one \in Seq(BOOLEAN) /\ Len(one) = 1 /\ one[1] = bit /\ U = Symbol(mode, one)
    BY <1>2
  <2>. HIDE DEF one
  <2>2. /\ Symbol(mode, one) \in Seq(Ops) /\ Len(Symbol(mode, one)) = Len(one)
        /\ \A i \in 1 .. Len(one) : Symbol(mode, one)[i] = Fed(mode, one[i])
    BY <2>1, SymbolShape
  <2>3. 1 \in 1 .. Len(one)
    BY <2>1
  <2>. QED  BY <2>1, <2>2, <2>3
<1>. DEFINE x == Fed(mode, bit)
<1>. HIDE DEF A, S, U, n
<1>6. x \in Ops
  BY DEF Fed, Ops
<1>. HIDE DEF x
<1>7. U = <<x>>
  <2>1. <<x>> \in Seq(Ops) /\ Len(<<x>>) = 1 /\ <<x>>[1] = x
    BY <1>6
  <2>2. \A i \in 1 .. 1 : i = 1
    OBVIOUS
  <2>. QED  BY <1>5, <2>1, <2>2, SeqEqual DEF x
<1>8. /\ Append(S, x) \in Seq(Ops) /\ Len(Append(S, x)) = n + 1
      /\ Append(S, x)[n + 1] = x /\ \A i \in 1 .. n : Append(S, x)[i] = S[i]
  BY <1>4, <1>6, AppendProperties
<1>9. \A i \in 1 .. n + 1 : i = n + 1 \/ i \in 1 .. n
  BY <1>1
<1>10. \A i \in 1 .. n + 1 : A[i] = Append(S, x)[i]
  BY <1>1, <1>3, <1>4, <1>8, <1>9 DEF x
<1>11. A = Append(S, x)
  BY <1>3, <1>8, <1>10, SeqEqual
<1>12. A = S \o U
  BY <1>4, <1>6, <1>7, <1>11, AppendIsConcat
<1>. QED  BY <1>12 DEF A, S, U, more

LEMMA EmptySymbol == Symbol("adaptive", << >>) = << >>
BY DEF Symbol

\* The first n operations of a stream with others appended.
LEMMA Front ==
  ASSUME NEW S, NEW t \in Seq(S), NEW u \in Seq(S), NEW n \in Nat, n <= Len(t)
  PROVE  SubSeq(t \o u, 1, n) = SubSeq(t, 1, n)
<1>1. t \o u \in Seq(S) /\ Len(t \o u) = Len(t) + Len(u) /\ Len(t) \in Nat /\ Len(u) \in Nat
      /\ \A i \in 1 .. Len(t) : (t \o u)[i] = t[i]
  OBVIOUS
<1>. DEFINE w == t \o u
<1>. HIDE DEF w
<1>2. Len(SubSeq(w, 1, n)) = n /\ SubSeq(w, 1, n) \in Seq(S) /\ \A i \in 1 .. n : SubSeq(w, 1, n)[i] = w[i]
  BY <1>1 DEF w
<1>3. Len(SubSeq(t, 1, n)) = n /\ SubSeq(t, 1, n) \in Seq(S) /\ \A i \in 1 .. n : SubSeq(t, 1, n)[i] = t[i]
  BY <1>1
<1>4. \A i \in 1 .. n : SubSeq(w, 1, n)[i] = SubSeq(t, 1, n)[i]
  BY <1>1, <1>2, <1>3 DEF w
<1>5. SubSeq(w, 1, n) = SubSeq(t, 1, n)
  BY <1>2, <1>3, <1>4, SeqEqual
<1>. QED  BY <1>5 DEF w

LEMMA SoundFacts ==
  ASSUME NEW c, Sound(c)
  PROVE  /\ c.tree \in Seq(Ops) /\ c.journal \in Seq(Nat) /\ c.depth \in Nat /\ c.progress \in Int
         /\ Len(c.tree) \in Nat /\ Len(c.journal) \in Nat
         /\ Logged(c) \in Nat /\ Logged(c) <= Len(c.tree)
         /\ \A n \in 0 .. Len(c.journal) :
              /\ Upto(c.journal, n) \in Nat /\ Upto(c.journal, n) <= Logged(c)
              /\ Len(c.tree) - (Logged(c) - Upto(c.journal, n)) \in 0 .. Len(c.tree)
<1>1. /\ c.tree \in Seq(Ops) /\ c.journal \in Seq(Nat) /\ c.depth \in Nat /\ c.progress \in Int
      /\ Rising(c.journal) /\ Logged(c) <= Len(c.tree)
  BY DEF Sound, Cores
<1>2. Len(c.tree) \in Nat /\ Len(c.journal) \in Nat
  BY <1>1
<1>3. ASSUME NEW n \in 0 .. Len(c.journal)
      PROVE  Upto(c.journal, n) \in Nat
  <2>1. n = 0 \/ n \in 1 .. Len(c.journal)
    BY <1>2
  <2>. QED  BY <2>1, <1>1 DEF Upto
<1>4. Logged(c) \in Nat
  <2>1. Len(c.journal) \in 0 .. Len(c.journal)
    BY <1>2
  <2>. QED  BY <2>1, <1>3 DEF Logged
<1>5. ASSUME NEW n \in 0 .. Len(c.journal)
      PROVE  Upto(c.journal, n) <= Logged(c)
  <2>1. CASE n = 0
    BY <2>1, <1>4 DEF Upto
  <2>2. CASE n # 0
    <3>1. Len(c.journal) \in 1 .. Len(c.journal) /\ n \in 1 .. Len(c.journal) /\ Len(c.journal) # 0
      BY <2>2, <1>2
    <3>2. c.journal[n] <= c.journal[Len(c.journal)]
      BY <3>1, <1>1 DEF Rising
    <3>. QED  BY <2>2, <3>1, <3>2 DEF Upto, Logged
  <2>. QED  BY <2>1, <2>2
<1>6. ASSUME NEW n \in 0 .. Len(c.journal)
      PROVE  Len(c.tree) - (Logged(c) - Upto(c.journal, n)) \in 0 .. Len(c.tree)
  BY <1>1, <1>2, <1>3, <1>4, <1>5
<1>. QED  BY <1>1, <1>2, <1>3, <1>4, <1>5, <1>6

\* Predictors that differ in depth and progress only.
LEMMA SameStream ==
  ASSUME NEW c, NEW d \in Cores, d.tree = c.tree, d.journal = c.journal
  PROVE  /\ Sound(c) => Sound(d)
         /\ \A n, t : Leads(c, n, t) => Leads(d, n, t)
BY DEF Sound, Leads, Back, Logged

\* The full stream is what the full journal leads to.
LEMMA LeadsNow ==
  ASSUME NEW c, Sound(c)
  PROVE  Leads(c, Len(c.journal), c.tree)
<1>1. /\ Len(c.journal) \in Nat /\ Len(c.tree) \in Nat /\ c.tree \in Seq(Ops)
      /\ Logged(c) \in Nat
  BY SoundFacts
<1>2. Back(c, Len(c.journal)) = SubSeq(c.tree, 1, Len(c.tree))
  BY <1>1 DEF Back, Logged
<1>3. SubSeq(c.tree, 1, Len(c.tree)) = c.tree
  BY <1>1
<1>. QED  BY <1>1, <1>2, <1>3 DEF Leads

\* Journaled operations keep what every length leads to.
LEMMA Grown ==
  ASSUME NEW c, Sound(c), NEW d \in Cores, NEW ops \in Seq(Ops), NEW more \in Seq(Nat),
         d.tree = c.tree \o ops, d.journal = c.journal \o more,
         Logged(d) = Logged(c) + Len(ops),
         NEW n, NEW t, Leads(c, n, t)
  PROVE  Leads(d, n, t)
<1>1. /\ c.tree \in Seq(Ops) /\ c.journal \in Seq(Nat)
      /\ Len(c.tree) \in Nat /\ Len(c.journal) \in Nat /\ Logged(c) \in Nat
  BY SoundFacts
<1>2. n \in Nat /\ n <= Len(c.journal) /\ Back(c, n) = t
  BY DEF Leads
<1>3. Upto(d.journal, n) = Upto(c.journal, n) /\ n <= Len(d.journal)
  <2>1. Len(c.journal \o more) = Len(c.journal) + Len(more) /\ Len(more) \in Nat
        /\ \A i \in 1 .. Len(c.journal) : (c.journal \o more)[i] = c.journal[i]
    BY <1>1
  <2>2. n = 0 \/ n \in 1 .. Len(c.journal)
    BY <1>1, <1>2
  <2>. QED  BY <1>1, <1>2, <2>1, <2>2 DEF Upto
<1>. DEFINE k == Len(c.tree) - (Logged(c) - Upto(c.journal, n))
<1>4. k \in 0 .. Len(c.tree) /\ Upto(c.journal, n) \in Nat
  <2>1. n \in 0 .. Len(c.journal)
    BY <1>1, <1>2
  <2>. QED  BY <2>1, SoundFacts
<1>5. Len(d.tree) - (Logged(d) - Upto(d.journal, n)) = k
  <2>1. Len(d.tree) = Len(c.tree) + Len(ops) /\ Len(ops) \in Nat
    BY <1>1
  <2>. QED  BY <2>1, <1>1, <1>3, <1>4
<1>6. SubSeq(c.tree \o ops, 1, k) = SubSeq(c.tree, 1, k)
  <2>1. k \in Nat /\ k <= Len(c.tree)
    BY <1>1, <1>4
  <2>. HIDE DEF k
  <2>. QED  BY <2>1, <1>1, Front
<1>7. Back(d, n) = t
  <2>1. Back(c, n) = SubSeq(c.tree, 1, k)
    BY DEF Back
  <2>. HIDE DEF k
  <2>2. Back(d, n) = SubSeq(d.tree, 1, k)
    BY <1>5 DEF Back
  <2>. QED  BY <1>2, <1>6, <2>1, <2>2
<1>. QED  BY <1>2, <1>3, <1>7 DEF Leads

\* The fields of a predictor after its small operations.
LEMMA CoreParts ==
  ASSUME NEW c \in Cores
  PROVE  /\ \A p \in Int : /\ Progress(c, p) \in Cores /\ Progress(c, p).progress = p
                           /\ Progress(c, p).tree = c.tree /\ Progress(c, p).journal = c.journal
                           /\ Progress(c, p).depth = c.depth
         /\ Checkpointed(c) \in Cores /\ Checkpointed(c).progress = c.progress
         /\ Checkpointed(c).tree = c.tree /\ Checkpointed(c).journal = c.journal
         /\ Checkpointed(c).depth = c.depth + 1
         /\ Discarded(c) \in Cores /\ Discarded(c).progress = c.progress
         /\ Discarded(c).tree = c.tree /\ Discarded(c).journal = c.journal
         /\ Discarded(c).depth = IF c.depth = 0 THEN 0 ELSE c.depth - 1
         /\ MarkOf(c) \in Marks /\ MarkOf(c).len = Len(c.journal) /\ MarkOf(c).progress = c.progress
<1>1. ASSUME NEW p \in Int
      PROVE  /\ Progress(c, p) \in Cores /\ Progress(c, p).progress = p
             /\ Progress(c, p).tree = c.tree /\ Progress(c, p).journal = c.journal
             /\ Progress(c, p).depth = c.depth
  BY DEF Cores, Progress
<1>2. /\ Checkpointed(c) \in Cores /\ Checkpointed(c).progress = c.progress
      /\ Checkpointed(c).tree = c.tree /\ Checkpointed(c).journal = c.journal
      /\ Checkpointed(c).depth = c.depth + 1
  <2>1. c.depth + 1 \in Nat
    BY DEF Cores
  <2>. QED  BY <2>1 DEF Cores, Checkpointed
<1>3. /\ Discarded(c) \in Cores /\ Discarded(c).progress = c.progress
      /\ Discarded(c).tree = c.tree /\ Discarded(c).journal = c.journal
      /\ Discarded(c).depth = IF c.depth = 0 THEN 0 ELSE c.depth - 1
  <2>1. c.depth \in Nat
    BY DEF Cores
  <2>2. SaturatingDec(c.depth) \in Nat /\ SaturatingDec(c.depth) = IF c.depth = 0 THEN 0 ELSE c.depth - 1
    BY <2>1 DEF SaturatingDec
  <2>. QED  BY <2>2 DEF Cores, Discarded
<1>4. MarkOf(c) \in Marks /\ MarkOf(c).len = Len(c.journal) /\ MarkOf(c).progress = c.progress
  <2>1. Len(c.journal) \in Nat /\ c.progress \in Int
    BY DEF Cores
  <2>. QED  BY <2>1 DEF MarkOf, Marks
<1>. QED  BY <1>1, <1>2, <1>3, <1>4

\* Feeding a symbol: one journal entry for all its operations.
LEMMA AppliedFacts ==
  ASSUME NEW c, Sound(c), NEW ops \in Seq(Ops)
  PROVE  LET d == Applied(c, ops)
         IN  /\ Sound(d) /\ d.tree = c.tree \o ops /\ d.depth = c.depth /\ d.progress = c.progress
             /\ c.depth > 0 => \A n, t : Leads(c, n, t) => Leads(d, n, t)
<1>. DEFINE d == Applied(c, ops)
            total == Logged(c) + Len(ops)
            j == c.journal
            k == Append(j, total)
<1>1. /\ c.tree \in Seq(Ops) /\ j \in Seq(Nat) /\ c.depth \in Nat /\ c.progress \in Int
      /\ Len(c.tree) \in Nat /\ Len(j) \in Nat /\ Logged(c) \in Nat /\ Logged(c) <= Len(c.tree)
      /\ \A n \in 0 .. Len(j) : Upto(j, n) \in Nat /\ Upto(j, n) <= Logged(c)
  BY SoundFacts
<1>2. Rising(j) /\ c \in Cores
  BY DEF Sound
<1>3. total \in Nat /\ Logged(c) <= total
  BY <1>1
<1>4. /\ d.tree = c.tree \o ops /\ d.depth = c.depth /\ d.progress = c.progress
      /\ d.journal = IF c.depth > 0 THEN k ELSE j
  BY <1>2 DEF Applied, Cores
<1>5. c.tree \o ops \in Seq(Ops) /\ Len(c.tree \o ops) = Len(c.tree) + Len(ops) /\ Len(ops) \in Nat
  BY <1>1
<1>6. /\ k \in Seq(Nat) /\ Len(k) = Len(j) + 1 /\ k[Len(j) + 1] = total
      /\ \A i \in 1 .. Len(j) : k[i] = j[i]
  BY <1>1, <1>3
<1>7. d \in Cores
  <2>. DEFINE f == IF c.depth > 0 THEN k ELSE j
              w == c.tree \o ops
  <2>1. d = [c EXCEPT !.tree = w, !.journal = f]
    BY <1>2 DEF Applied, Cores
  <2>2. w \in Seq(Ops)
    BY <1>5
  <2>. HIDE DEF k, d
  <2>3. f \in Seq(Nat)
    BY <1>1, <1>6
  <2>. HIDE DEF f, w
  <2>. QED  BY <1>2, <2>1, <2>2, <2>3 DEF Cores
<1>8. Upto(k, Len(k)) = total
  BY <1>1, <1>6 DEF Upto
<1>9. Rising(k)
  <2>. SUFFICES ASSUME NEW a \in 1 .. Len(j) + 1, NEW b \in 1 .. a PROVE k[b] <= k[a]
    BY <1>6 DEF Rising
  <2>1. CASE a \in 1 .. Len(j)
    <3>1. b \in 1 .. Len(j)
      BY <2>1, <1>1
    <3>. QED  BY <2>1, <3>1, <1>2, <1>6 DEF Rising
  <2>2. CASE a = Len(j) + 1 /\ b = Len(j) + 1
    BY <2>2, <1>3, <1>6
  <2>3. CASE a = Len(j) + 1 /\ b \in 1 .. Len(j)
    <3>1. b \in 0 .. Len(j) /\ b # 0
      BY <2>3, <1>1
    <3>2. j[b] \in Nat /\ j[b] <= Logged(c)
      <4>1. Upto(j, b) = j[b]
        BY <3>1 DEF Upto
      <4>2. Upto(j, b) \in Nat /\ Upto(j, b) <= Logged(c)
        <5>. HIDE DEF j
        <5>. QED  BY <3>1, <1>1
      <4>. QED  BY <4>1, <4>2
    <3>3. k[b] = j[b] /\ k[a] = total
      BY <2>3, <1>6
    <3>4. j[b] <= total
      <4>. HIDE DEF j, total
      <4>. QED  BY <3>2, <1>1, <1>3
    <3>. QED  BY <3>3, <3>4
  <2>4. a \in 1 .. Len(j) \/ (a = Len(j) + 1 /\ (b = Len(j) + 1 \/ b \in 1 .. Len(j)))
    BY <1>1
  <2>. QED  BY <2>1, <2>2, <2>3, <2>4
<1>. HIDE DEF k, d
<1>10. Sound(d)
  <2>1. CASE c.depth > 0
    <3>1. d.journal = k
      BY <2>1, <1>4
    <3>2. Logged(d) = total
      BY <3>1, <1>8 DEF Logged
    <3>3. total <= Len(d.tree)
      BY <1>1, <1>4, <1>5
    <3>. HIDE DEF total
    <3>. QED  BY <3>1, <3>2, <3>3, <1>7, <1>9 DEF Sound
  <2>2. CASE ~(c.depth > 0)
    <3>1. d.journal = j
      BY <2>2, <1>4
    <3>2. Logged(d) = Logged(c)
      BY <3>1 DEF Logged
    <3>3. Logged(c) <= Len(d.tree)
      BY <1>1, <1>4, <1>5
    <3>. QED  BY <3>1, <3>2, <3>3, <1>2, <1>7 DEF Sound
  <2>. QED  BY <2>1, <2>2
<1>11. ASSUME c.depth > 0, NEW n, NEW t, Leads(c, n, t)
       PROVE  Leads(d, n, t)
  <2>1. d.journal = j \o <<total>> /\ <<total>> \in Seq(Nat)
    <3>1. k = j \o <<total>>
      <4>. HIDE DEF total
      <4>. QED  BY <1>1, <1>3 DEF k
    <3>. QED  BY <3>1, <1>3, <1>4, <1>11
  <2>2. Logged(d) = Logged(c) + Len(ops)
    <3>1. d.journal = k
      BY <1>4, <1>11
    <3>. QED  BY <3>1, <1>8 DEF Logged
  <2>. HIDE DEF total
  <2>. QED  BY <2>1, <2>2, <1>4, <1>7, <1>11, Grown
<1>. QED  BY <1>4, <1>10, <1>11 DEF d

\* Feeding bits to a symbol in progress: one journal entry for each.
LEMMA ObserveFacts ==
  ASSUME NEW c, Sound(c), NEW bits \in Seq(BOOLEAN)
  PROVE  LET d == ObserveNativeBits(c, bits)
         IN  /\ Sound(d) /\ d.tree = c.tree \o Symbol("adaptive", bits)
             /\ d.depth = c.depth /\ d.progress = c.progress + Len(bits)
             /\ c.depth > 0 => \A n, t : Leads(c, n, t) => Leads(d, n, t)
<1>. DEFINE d == ObserveNativeBits(c, bits)
            ops == Symbol("adaptive", bits)
            j == c.journal
            l == Logged(c)
            m == Len(bits)
            more == [i \in 1 .. m |-> l + i]
            k == j \o more
<1>1. /\ c.tree \in Seq(Ops) /\ j \in Seq(Nat) /\ c.depth \in Nat /\ c.progress \in Int
      /\ Len(c.tree) \in Nat /\ Len(j) \in Nat /\ l \in Nat /\ l <= Len(c.tree)
      /\ \A n \in 0 .. Len(j) : Upto(j, n) \in Nat /\ Upto(j, n) <= l
  BY SoundFacts
<1>2. Rising(j) /\ c \in Cores
  BY DEF Sound
<1>3. ops \in Seq(Ops) /\ Len(ops) = m /\ m \in Nat
  BY SymbolShape DEF Modes
<1>. HIDE DEF ops, l, m
<1>4. more \in Seq(Nat) /\ Len(more) = m /\ \A i \in 1 .. m : more[i] = l + i
  <2>1. \A i \in 1 .. m : l + i \in Nat
    BY <1>1, <1>3
  <2>2. more \in [1 .. m -> Nat]
    BY <2>1
  <2>3. more \in Seq(Nat) /\ Len(more) = m
    BY <2>2, <1>3
  <2>. QED  BY <2>3
<1>5. /\ d.tree = c.tree \o ops /\ d.depth = c.depth /\ d.progress = c.progress + m
      /\ d.journal = IF c.depth > 0 THEN k ELSE j
  BY <1>2 DEF ObserveNativeBits, Cores, ops, l, m
<1>6. c.tree \o ops \in Seq(Ops) /\ Len(c.tree \o ops) = Len(c.tree) + m
  BY <1>1, <1>3, ConcatProperties
<1>. HIDE DEF more
<1>7. /\ k \in Seq(Nat) /\ Len(k) = Len(j) + m
      /\ \A i \in 1 .. Len(j) + m : k[i] = IF i <= Len(j) THEN j[i] ELSE more[i - Len(j)]
  BY <1>1, <1>4, ConcatProperties
<1>8. d \in Cores
  <2>. DEFINE f == IF c.depth > 0 THEN k ELSE j
              w == c.tree \o ops
              p == c.progress + m
  <2>1. d = [c EXCEPT !.tree = w, !.journal = f, !.progress = p]
    BY <1>2 DEF ObserveNativeBits, Cores, ops, l, m, more
  <2>2. w \in Seq(Ops) /\ p \in Int
    BY <1>1, <1>3, <1>6
  <2>. HIDE DEF k, d
  <2>3. f \in Seq(Nat)
    BY <1>1, <1>7
  <2>. HIDE DEF f, w, p
  <2>. QED  BY <1>2, <2>1, <2>2, <2>3 DEF Cores
<1>. HIDE DEF k, d
<1>9. \A a \in 1 .. Len(j) + m :
        \/ a \in 1 .. Len(j) /\ k[a] = j[a] /\ k[a] \in Nat /\ k[a] <= l
        \/ a \in Len(j) + 1 .. Len(j) + m /\ k[a] = l + (a - Len(j)) /\ l <= k[a]
  <2>. SUFFICES ASSUME NEW a \in 1 .. Len(j) + m
                PROVE  \/ a \in 1 .. Len(j) /\ k[a] = j[a] /\ k[a] \in Nat /\ k[a] <= l
                       \/ a \in Len(j) + 1 .. Len(j) + m /\ k[a] = l + (a - Len(j)) /\ l <= k[a]
    OBVIOUS
  <2>1. CASE a \in 1 .. Len(j)
    <3>1. a \in 0 .. Len(j) /\ a # 0 /\ a <= Len(j)
      BY <2>1, <1>1
    <3>2. Upto(j, a) = j[a] /\ k[a] = j[a]
      BY <3>1, <1>7 DEF Upto
    <3>3. Upto(j, a) \in Nat /\ Upto(j, a) <= l
      BY <3>1, <1>1
    <3>. QED  BY <2>1, <3>2, <3>3
  <2>2. CASE a \in Len(j) + 1 .. Len(j) + m
    <3>1. ~(a <= Len(j)) /\ a - Len(j) \in 1 .. m
      BY <2>2, <1>1, <1>3
    <3>2. k[a] = l + (a - Len(j))
      BY <3>1, <1>4, <1>7
    <3>3. l <= l + (a - Len(j))
      <4>. HIDE DEF j
      <4>1. a - Len(j) \in Nat
        BY <3>1
      <4>. QED  BY <4>1, <1>1
    <3>4. l <= k[a]
      BY <3>2, <3>3
    <3>. QED  BY <2>2, <3>2, <3>4
  <2>3. a \in 1 .. Len(j) \/ a \in Len(j) + 1 .. Len(j) + m
    BY <1>1, <1>3
  <2>. QED  BY <2>1, <2>2, <2>3
<1>10. Rising(k)
  <2>. SUFFICES ASSUME NEW a \in 1 .. Len(j) + m, NEW b \in 1 .. a PROVE k[b] <= k[a]
    BY <1>7 DEF Rising
  <2>1. b \in 1 .. Len(j) + m
    BY <1>1, <1>3
  <2>2. CASE a \in 1 .. Len(j)
    <3>1. b \in 1 .. Len(j)
      BY <2>2, <1>1
    <3>2. a <= Len(j) /\ b <= Len(j)
      BY <3>1, <2>2, <1>1
    <3>3. k[a] = j[a] /\ k[b] = j[b]
      BY <3>2, <2>1, <1>7
    <3>. QED  BY <2>2, <3>3, <1>2 DEF Rising
  <2>3. CASE ~(a \in 1 .. Len(j))
    <3>1. k[a] = l + (a - Len(j)) /\ l <= k[a]
      BY <2>3, <1>9
    <3>2. CASE b \in 1 .. Len(j)
      <4>1. ~(b \in Len(j) + 1 .. Len(j) + m)
        BY <3>2, <1>1
      <4>2. k[b] \in Nat /\ k[b] <= l
        BY <4>1, <2>1, <1>9
      <4>3. a - Len(j) \in Nat
        BY <2>3, <1>1, <1>3
      <4>. HIDE DEF j
      <4>. QED  BY <3>1, <4>2, <4>3, <1>1
    <3>3. CASE ~(b \in 1 .. Len(j))
      <4>1. k[b] = l + (b - Len(j))
        BY <3>3, <2>1, <1>9
      <4>. QED  BY <3>1, <4>1, <1>1
    <3>. QED  BY <3>2, <3>3
  <2>. QED  BY <2>2, <2>3
<1>11. Upto(k, Len(k)) = l + m
  <2>1. CASE m = 0
    <3>1. Len(k) = Len(j)
      BY <2>1, <1>1, <1>7
    <3>2. Upto(k, Len(j)) = Upto(j, Len(j))
      <4>1. Len(j) = 0 \/ (Len(j) \in 1 .. Len(j) /\ Len(j) <= Len(j) /\ Len(j) \in 1 .. Len(j) + m)
        BY <1>1, <1>3
      <4>. QED  BY <4>1, <1>7 DEF Upto
    <3>3. l + m = Upto(j, Len(j))
      BY <2>1, <1>1 DEF l, Logged
    <3>. QED  BY <3>1, <3>2, <3>3
  <2>2. CASE m # 0
    <3>1. Len(j) + m \in 1 .. Len(j) + m /\ ~(Len(j) + m \in 1 .. Len(j)) /\ Len(j) + m # 0
          /\ l + ((Len(j) + m) - Len(j)) = l + m
      BY <2>2, <1>1, <1>3
    <3>2. k[Len(j) + m] = l + m
      BY <3>1, <1>9
    <3>. QED  BY <3>1, <3>2, <1>7 DEF Upto
  <2>. QED  BY <2>1, <2>2
<1>12. Sound(d)
  <2>1. CASE c.depth > 0
    <3>1. d.journal = k
      BY <2>1, <1>5
    <3>2. Logged(d) = l + m
      BY <3>1, <1>11 DEF Logged
    <3>3. l + m <= Len(d.tree)
      BY <1>1, <1>3, <1>5, <1>6
    <3>. QED  BY <3>1, <3>2, <3>3, <1>8, <1>10 DEF Sound
  <2>2. CASE ~(c.depth > 0)
    <3>1. d.journal = j
      BY <2>2, <1>5
    <3>2. Logged(d) = l
      BY <3>1 DEF Logged, l
    <3>3. l <= Len(d.tree)
      BY <1>1, <1>3, <1>5, <1>6
    <3>. QED  BY <3>1, <3>2, <3>3, <1>2, <1>8 DEF Sound
  <2>. QED  BY <2>1, <2>2
<1>13. ASSUME c.depth > 0, NEW n, NEW t, Leads(c, n, t)
       PROVE  Leads(d, n, t)
  <2>1. d.journal = j \o more
    BY <1>5, <1>13 DEF k
  <2>2. Logged(d) = Logged(c) + Len(ops)
    <3>1. d.journal = k
      BY <1>5, <1>13
    <3>. QED  BY <3>1, <1>3, <1>11 DEF Logged, l
  <2>. QED  BY <2>1, <2>2, <1>3, <1>4, <1>5, <1>8, <1>13, Grown
<1>. QED  BY <1>5, <1>12, <1>13 DEF d, ops, m

LEMMA SubSeqFront ==
  ASSUME NEW S, NEW q \in Seq(S), NEW n \in 0 .. Len(q)
  PROVE  /\ SubSeq(q, 1, n) \in Seq(S) /\ Len(SubSeq(q, 1, n)) = n
         /\ \A i \in 1 .. n : SubSeq(q, 1, n)[i] = q[i]
         /\ \A k \in 0 .. n : SubSeq(SubSeq(q, 1, n), 1, k) = SubSeq(q, 1, k)
<1>1. n \in Nat /\ n <= Len(q) /\ Len(q) \in Nat
  OBVIOUS
<1>2. /\ SubSeq(q, 1, n) \in Seq(S) /\ Len(SubSeq(q, 1, n)) = n
      /\ \A i \in 1 .. n : SubSeq(q, 1, n)[i] = q[i]
  BY <1>1
<1>3. ASSUME NEW k \in 0 .. n
      PROVE  SubSeq(SubSeq(q, 1, n), 1, k) = SubSeq(q, 1, k)
  BY <1>1
<1>. QED  BY <1>2, <1>3

\* Going back to a mark, and what it keeps of the lengths below it.
LEMMA RolledBackFacts ==
  ASSUME NEW c, Sound(c), NEW m \in Marks
  PROVE  LET d == RolledBack(c, m)
         IN  /\ Sound(d) /\ d.depth = c.depth /\ d.progress = m.progress
             /\ \A n, t : Leads(c, n, t) /\ n <= m.len => Leads(d, n, t)
             /\ \A t : Leads(c, m.len, t) => d.tree = t
<1>. DEFINE d == RolledBack(c, m)
            j == c.journal
            n == Smaller(Len(j), m.len)
            k == Len(c.tree) - (Logged(c) - Upto(j, n))
<1>1. /\ c.tree \in Seq(Ops) /\ j \in Seq(Nat) /\ c.depth \in Nat /\ c.progress \in Int
      /\ Len(c.tree) \in Nat /\ Len(j) \in Nat /\ Logged(c) \in Nat /\ Logged(c) <= Len(c.tree)
      /\ \A i \in 0 .. Len(j) :
           /\ Upto(j, i) \in Nat /\ Upto(j, i) <= Logged(c)
           /\ Len(c.tree) - (Logged(c) - Upto(j, i)) \in 0 .. Len(c.tree)
  BY SoundFacts
<1>2. Rising(j) /\ c \in Cores /\ m.len \in Nat /\ m.progress \in Int
  BY DEF Sound, Marks
<1>3. n \in 0 .. Len(j) /\ \A e \in Nat : e <= Len(j) /\ e <= m.len => e <= n
  BY <1>1, <1>2 DEF Smaller
<1>4. m.len <= Len(j) => n = m.len
  BY <1>1, <1>2 DEF Smaller
<1>5. d = [c EXCEPT !.tree = SubSeq(@, 1, Len(@) - (Logged(c) - Upto(j, n))),
                    !.journal = SubSeq(@, 1, n), !.progress = m.progress]
  BY DEF RolledBack
<1>. HIDE DEF d, n
<1>6. k \in 0 .. Len(c.tree) /\ Upto(j, n) \in Nat
  BY <1>1, <1>3
<1>7. /\ d.tree = SubSeq(c.tree, 1, k) /\ d.journal = SubSeq(j, 1, n)
      /\ d.depth = c.depth /\ d.progress = m.progress
  BY <1>2, <1>5 DEF Cores
<1>8. /\ SubSeq(c.tree, 1, k) \in Seq(Ops) /\ Len(SubSeq(c.tree, 1, k)) = k
      /\ \A i \in 0 .. k : SubSeq(SubSeq(c.tree, 1, k), 1, i) = SubSeq(c.tree, 1, i)
  <2>. HIDE DEF k
  <2>. QED  BY <1>1, <1>6, SubSeqFront
<1>9. /\ SubSeq(j, 1, n) \in Seq(Nat) /\ Len(SubSeq(j, 1, n)) = n
      /\ \A i \in 1 .. n : SubSeq(j, 1, n)[i] = j[i]
  <2>. HIDE DEF j
  <2>. QED  BY <1>1, <1>3, SubSeqFront
<1>10. \A i \in 0 .. n : Upto(d.journal, i) = Upto(j, i)
  <2>. SUFFICES ASSUME NEW i \in 0 .. n PROVE Upto(d.journal, i) = Upto(j, i)
    OBVIOUS
  <2>1. i = 0 \/ i \in 1 .. n
    BY <1>3
  <2>. QED  BY <2>1, <1>7, <1>9 DEF Upto
<1>11. Logged(d) = Upto(j, n)
  <2>1. n \in 0 .. n
    BY <1>1, <1>3
  <2>. QED  BY <2>1, <1>7, <1>9, <1>10 DEF Logged
<1>12. d \in Cores
  <2>. DEFINE w == SubSeq(c.tree, 1, k)
              f == SubSeq(j, 1, n)
              p == m.progress
  <2>1. d = [c EXCEPT !.tree = w, !.journal = f, !.progress = p]
    BY <1>2, <1>5 DEF Cores
  <2>2. w \in Seq(Ops) /\ f \in Seq(Nat) /\ p \in Int
    BY <1>2, <1>8, <1>9
  <2>. HIDE DEF w, f, p
  <2>. QED  BY <1>2, <2>1, <2>2 DEF Cores
<1>13. Rising(d.journal)
  <2>. SUFFICES ASSUME NEW a \in 1 .. n, NEW b \in 1 .. a
                PROVE  SubSeq(j, 1, n)[b] <= SubSeq(j, 1, n)[a]
    BY <1>7, <1>9 DEF Rising
  <2>1. b \in 1 .. n /\ a \in 1 .. Len(j)
    BY <1>1, <1>3
  <2>2. j[b] <= j[a]
    BY <2>1, <1>2 DEF Rising
  <2>. QED  BY <2>1, <2>2, <1>9
<1>14. Logged(d) <= Len(d.tree)
  <2>1. Upto(j, n) <= k
    BY <1>1, <1>6
  <2>. HIDE DEF k
  <2>. QED  BY <2>1, <1>7, <1>8, <1>11
<1>15. Sound(d)
  BY <1>12, <1>13, <1>14 DEF Sound
<1>16. ASSUME NEW e, NEW t, Leads(c, e, t), e <= m.len
       PROVE  Leads(d, e, t)
  <2>1. e \in Nat /\ e <= Len(j) /\ Back(c, e) = t
    BY <1>16 DEF Leads
  <2>2. e \in 0 .. n /\ e \in 0 .. Len(j)
    BY <2>1, <1>1, <1>3, <1>16
  <2>. DEFINE h == Len(c.tree) - (Logged(c) - Upto(j, e))
  <2>3. Upto(j, e) \in Nat /\ h \in 0 .. Len(c.tree)
    BY <2>2, <1>1
  <2>4. Upto(j, e) <= Upto(j, n)
    <3>1. CASE e = 0
      BY <3>1, <1>6 DEF Upto
    <3>2. CASE e # 0
      <4>1. n \in 1 .. Len(j) /\ e \in 1 .. n /\ n # 0
        BY <3>2, <2>2, <1>1, <1>3
      <4>2. j[e] <= j[n]
        BY <4>1, <1>2 DEF Rising
      <4>. QED  BY <3>2, <4>1, <4>2 DEF Upto
    <3>. QED  BY <3>1, <3>2
  <2>5. h \in 0 .. k
    <3>1. Len(c.tree) \in Nat /\ Logged(c) \in Nat /\ Upto(j, n) \in Nat /\ Upto(j, e) \in Nat
      BY <1>1, <1>6, <2>3
    <3>. QED  BY <3>1, <2>3, <2>4
  <2>6. Len(d.tree) - (Logged(d) - Upto(d.journal, e)) = h
    <3>1. Len(d.tree) = k /\ Logged(d) = Upto(j, n) /\ Upto(d.journal, e) = Upto(j, e)
      BY <1>7, <1>8, <1>10, <1>11, <2>2
    <3>2. Len(c.tree) \in Nat /\ Logged(c) \in Nat /\ Upto(j, n) \in Nat /\ Upto(j, e) \in Nat
      BY <1>1, <1>6, <2>3
    <3>. QED  BY <3>1, <3>2
  <2>7. Back(c, e) = SubSeq(c.tree, 1, h)
    BY DEF Back
  <2>. HIDE DEF h, k
  <2>8. Back(d, e) = SubSeq(d.tree, 1, h)
    BY <2>6 DEF Back
  <2>9. Back(d, e) = t
    BY <2>1, <2>5, <2>7, <2>8, <1>7, <1>8
  <2>10. e <= Len(d.journal)
    BY <2>2, <1>3, <1>7, <1>9
  <2>. QED  BY <2>1, <2>9, <2>10 DEF Leads
<1>17. ASSUME NEW t, Leads(c, m.len, t)
       PROVE  d.tree = t
  <2>1. m.len <= Len(j) /\ Back(c, m.len) = t
    BY <1>17 DEF Leads
  <2>2. n = m.len
    BY <2>1, <1>4
  <2>3. Back(c, n) = SubSeq(c.tree, 1, k)
    BY DEF Back
  <2>. QED  BY <2>1, <2>2, <2>3, <1>7
<1>. QED  BY <1>7, <1>15, <1>16, <1>17 DEF d

\* Going back to the start of the symbol in progress and giving up its start
\* checkpoint.
LEMMA BackToStartFacts ==
  ASSUME NEW c, Sound(c), NEW m \in Marks
  PROVE  LET d == BackToStart(c, m)
         IN  /\ Sound(d) /\ d.progress = None
             /\ d.depth = IF c.depth = 0 THEN 0 ELSE c.depth - 1
             /\ \A n, t : Leads(c, n, t) /\ n <= m.len => Leads(d, n, t)
             /\ \A t : Leads(c, m.len, t) => d.tree = t
<1>. DEFINE r == RolledBack(c, m)
            d == BackToStart(c, m)
<1>1. /\ Sound(r) /\ r.depth = c.depth
      /\ \A n, t : Leads(c, n, t) /\ n <= m.len => Leads(r, n, t)
      /\ \A t : Leads(c, m.len, t) => r.tree = t
  BY RolledBackFacts
<1>. HIDE DEF r
<1>2. r \in Cores
  BY <1>1 DEF Sound
<1>3. None \in Int
  BY DEF None
<1>4. /\ Discarded(r) \in Cores /\ Discarded(r).tree = r.tree /\ Discarded(r).journal = r.journal
      /\ Discarded(r).depth = IF r.depth = 0 THEN 0 ELSE r.depth - 1
  BY <1>2, CoreParts
<1>5. /\ d \in Cores /\ d.tree = r.tree /\ d.journal = r.journal /\ d.progress = None
      /\ d.depth = IF r.depth = 0 THEN 0 ELSE r.depth - 1
  BY <1>3, <1>4, CoreParts DEF BackToStart, r
<1>. HIDE DEF d
<1>6. Sound(d) /\ \A n, t : Leads(r, n, t) => Leads(d, n, t)
  BY <1>1, <1>5, SameStream
<1>. QED  BY <1>1, <1>5, <1>6 DEF d

-----------------------------------------------------------------------------
(* Predictor, symbol in progress and checkpoints *)

LEMMA InFlightBits ==
  ASSUME NEW p \in Prefixes
  PROVE  /\ InFlight(p) \in Seq(BOOLEAN) /\ Symbol("adaptive", InFlight(p)) \in Seq(Ops)
         /\ Len(Symbol("adaptive", InFlight(p))) = Len(InFlight(p))
         /\ Len(InFlight(p)) = IF p.kind = "native" THEN Len(p.bits) ELSE 0
<1>1. p.bits \in Seq(BOOLEAN)
  BY DEF Prefixes
<1>2. << >> \in Seq(BOOLEAN) /\ Len(<< >>) = 0
  BY EmptySeq
<1>3. InFlight(p) \in Seq(BOOLEAN)
  BY <1>1, <1>2, Zenon DEF InFlight
<1>4. Len(InFlight(p)) = IF p.kind = "native" THEN Len(p.bits) ELSE 0
  <2>1. CASE p.kind = "native"
    BY <2>1, Zenon DEF InFlight
  <2>2. CASE p.kind # "native"
    <3>1. InFlight(p) = << >>
      BY <2>2, Zenon DEF InFlight
    <3>. QED  BY <2>2, <3>1, <1>2
  <2>. QED  BY <2>1, <2>2
<1>. QED  BY <1>3, <1>4, SymbolShape DEF Modes

LEMMA ObservedIs ==
  ASSUME NEW c, NEW p, p \in Prefixes, NEW t, Holds(c, p, t)
  PROVE  Observed(c, p).committed = t /\ Observed(c, p).partial = PartialOf(p)
<1>. DEFINE f == InFlight(p)
            y == Symbol("adaptive", f)
            n == Len(c.tree) - (IF p.kind = "native" THEN Len(p.bits) ELSE 0)
<1>1. t \in Seq(Ops) /\ c.tree = t \o y
  BY DEF Holds
<1>2. y \in Seq(Ops) /\ Len(y) = Len(f) /\ f \in Seq(BOOLEAN)
  BY InFlightBits
<1>3. Len(f) = IF p.kind = "native" THEN Len(p.bits) ELSE 0
  BY InFlightBits
<1>. HIDE DEF f, y
<1>5. Len(c.tree) = Len(t) + Len(f) /\ Len(t) \in Nat /\ Len(f) \in Nat
  <2>1. Len(t) \in Nat /\ Len(f) \in Nat
    BY <1>1, <1>2, LenProperties
  <2>2. Len(c.tree) = Len(t) + Len(y)
    BY <1>1, <1>2, ConcatProperties
  <2>. QED  BY <2>1, <2>2, <1>2
<1>6. n = Len(t)
  BY <1>3, <1>5
<1>. HIDE DEF n
<1>7. SubSeq(c.tree, 1, n) = t
  <2>1. SubSeq(t \o y, 1, Len(t)) = SubSeq(t, 1, Len(t))
    BY <1>1, <1>2, <1>5, Front
  <2>. QED  BY <2>1, <1>1, <1>6, SubSeqFull
<1>. QED  BY <1>7 DEF Observed, PartialOf, n

\* The start checkpoint of a prefix is a mark.
LEMMA StartMark ==
  ASSUME NEW p \in Prefixes, p.start # << >>
  PROVE  p.start[1] \in Marks /\ p.start[1].len \in Nat /\ Len(p.start) \in Nat \ {0}
<1>1. p.start \in Seq(Marks)
  BY DEF Prefixes
<1>2. Len(p.start) \in Nat \ {0}
  BY <1>1, EmptySeq
<1>3. 1 \in 1 .. Len(p.start)
  BY <1>2
<1>4. p.start[1] \in Marks
  BY <1>1, <1>3, ElementOfSeq
<1>. QED  BY <1>2, <1>4 DEF Marks

\* The journal is on whenever something has to be led to.
LEMMA Journaled ==
  ASSUME NEW d \in Nat, NEW p \in Prefixes, NEW s \in Seq(Saves), Counted(d, p, s),
         s # << >> \/ p.start # << >>
  PROVE  d > 0
<1>1. Len(s) \in Nat /\ (s # << >> => Len(s) # 0)
  BY EmptySeq
<1>2. Len(p.start) \in Nat /\ (p.start # << >> => Len(p.start) # 0)
  <2>1. p.start \in Seq(Marks)
    BY DEF Prefixes
  <2>. QED  BY <2>1, EmptySeq
<1>. QED  BY <1>1, <1>2 DEF Counted

LEMMA NoneAnchored ==
  ASSUME NEW c, NEW p
  PROVE  Anchored(c, p, << >>)
<1>1. 1 .. Len(<< >>) = {}
  OBVIOUS
<1>. QED  BY <1>1 DEF Anchored

\* Feeding operations, to a symbol in progress or as a whole symbol.
LEMMA FitGrown ==
  ASSUME NEW c, NEW p \in Prefixes, NEW s \in Seq(Saves), NEW t, Fit(c, p, s, t),
         NEW d, NEW q \in Prefixes, NEW u \in Seq(Ops),
         Sound(d), d.depth = c.depth, q.start = p.start,
         c.depth > 0 => \A n, v : Leads(c, n, v) => Leads(d, n, v),
         u = t \/ p.start = << >>,
         d.tree = u \o Symbol("adaptive", InFlight(q)), d.progress = ProgressIn(q)
  PROVE  Fit(d, q, s, u)
<1>1. c.depth \in Nat /\ Counted(c.depth, p, s)
  BY DEF Fit, Sound, Cores
<1>2. Holds(d, q, u)
  <2>1. ASSUME q.start # << >>  PROVE Leads(d, q.start[1].len, u)
    <3>1. p.start # << >> /\ u = t
      BY <2>1
    <3>2. Leads(c, p.start[1].len, t)
      BY <3>1 DEF Fit, Holds
    <3>3. c.depth > 0
      BY <1>1, <3>1, Journaled
    <3>. QED  BY <3>1, <3>2, <3>3
  <2>. QED  BY <2>1 DEF Holds
<1>3. Counted(d.depth, q, s)
  BY <1>1 DEF Counted
<1>4. ASSUME Nested  PROVE Anchored(d, q, s)
  <2>1. CASE s = << >>
    BY <2>1, NoneAnchored
  <2>2. CASE s # << >>
    <3>1. c.depth > 0
      BY <1>1, <2>2, Journaled
    <3>2. Anchored(c, p, s)
      BY <1>4 DEF Fit
    <3>. QED  BY <3>1, <3>2 DEF Anchored
  <2>. QED  BY <2>1, <2>2
<1>. QED  BY <1>2, <1>3, <1>4 DEF Fit

\* The bits learned ahead become whole, and the start checkpoint goes.
LEMMA FitDropped ==
  ASSUME NEW c, NEW p \in Prefixes, NEW s \in Seq(Saves), NEW t, Fit(c, p, s, t),
         NEW d \in Cores, NEW q \in Prefixes,
         d.tree = c.tree, d.journal = c.journal, d.depth = c.depth - Len(p.start),
         q.start = << >>, InFlight(q) = << >>, d.progress = ProgressIn(q)
  PROVE  Fit(d, q, s, t \o Symbol("adaptive", InFlight(p)))
<1>1. /\ c.depth \in Nat /\ Counted(c.depth, p, s) /\ Sound(c) /\ t \in Seq(Ops)
      /\ c.tree = t \o Symbol("adaptive", InFlight(p)) /\ c.tree \in Seq(Ops)
  BY DEF Fit, Sound, Cores, Holds
<1>2. Sound(d) /\ \A n, v : Leads(c, n, v) => Leads(d, n, v)
  BY <1>1, SameStream
<1>3. Holds(d, q, c.tree)
  <2>1. d.tree = c.tree \o Symbol("adaptive", InFlight(q))
    BY <1>1, EmptySymbol, ConcatEmptySeq
  <2>. QED  BY <1>1, <2>1 DEF Holds
<1>4. Counted(d.depth, q, s)
  <2>1. Len(s) \in Nat /\ Len(p.start) \in Nat /\ Len(q.start) = 0
    BY DEF Prefixes
  <2>. QED  BY <2>1, <1>1 DEF Counted
<1>5. ASSUME Nested  PROVE Anchored(d, q, s)
  <2>1. Anchored(c, p, s)
    BY <1>5 DEF Fit
  <2>. QED  BY <2>1, <1>2 DEF Anchored
<1>. QED  BY <1>1, <1>2, <1>3, <1>4, <1>5 DEF Fit

\* Going back to the start of the symbol in progress.
LEMMA FitBack ==
  ASSUME NEW c, NEW p \in Prefixes, NEW s \in Seq(Saves), NEW t, Fit(c, p, s, t),
         p.start # << >>, Len(p.start) <= 1,
         NEW q \in Prefixes, q.start = << >>, q.kind # "native"
  PROVE  /\ Fit(BackToStart(c, p.start[1]), q, s, t)
         /\ BackToStart(c, p.start[1]).tree = t
<1>. DEFINE m == p.start[1]
            d == BackToStart(c, m)
<1>1. /\ c.depth \in Nat /\ Counted(c.depth, p, s) /\ Sound(c) /\ t \in Seq(Ops)
      /\ Leads(c, m.len, t)
  BY DEF Fit, Sound, Cores, Holds
<1>2. m \in Marks /\ Len(p.start) \in Nat \ {0}
  BY StartMark
<1>3. /\ Sound(d) /\ d.progress = None
      /\ d.depth = IF c.depth = 0 THEN 0 ELSE c.depth - 1
      /\ \A n, v : Leads(c, n, v) /\ n <= m.len => Leads(d, n, v)
      /\ d.tree = t
  BY <1>1, <1>2, BackToStartFacts
<1>. HIDE DEF d
<1>4. Holds(d, q, t)
  <2>1. t = t \o Symbol("adaptive", InFlight(q))
    BY <1>1, EmptySymbol, ConcatEmptySeq DEF InFlight
  <2>. QED  BY <1>1, <1>3, <2>1 DEF Holds, ProgressIn
<1>5. Counted(d.depth, q, s)
  <2>1. Len(s) \in Nat /\ Len(p.start) = 1 /\ Len(q.start) = 0
    <3>1. Len(p.start) = 1
      <4>. DEFINE l == Len(p.start)
      <4>1. l \in Nat \ {0} /\ l <= 1
        BY <1>2
      <4>. HIDE DEF l
      <4>2. l = 1
        BY <4>1
      <4>. QED  BY <4>2 DEF l
    <3>2. Len(q.start) = 0
      BY EmptySeq
    <3>. QED  BY <3>1, <3>2
  <2>2. c.depth > 0
    BY <1>1, Journaled
  <2>. QED  BY <2>1, <2>2, <1>1, <1>3 DEF Counted
<1>6. ASSUME Nested  PROVE Anchored(d, q, s)
  <2>1. Anchored(c, p, s)
    BY <1>6 DEF Fit
  <2>. QED  BY <2>1, <1>3 DEF Anchored
<1>. QED  BY <1>3, <1>4, <1>5, <1>6 DEF Fit, d

\* Capturing the start checkpoint of a symbol before its first bit.
LEMMA FitStarted ==
  ASSUME NEW c, NEW p \in Prefixes, NEW s \in Seq(Saves), NEW t, Fit(c, p, s, t),
         p.start = << >>, InFlight(p) = << >>,
         NEW d \in Cores, NEW q \in Prefixes,
         d.tree = c.tree, d.journal = c.journal, d.depth = c.depth + 1,
         q.start = <<MarkOf(c)>>, InFlight(q) = << >>, d.progress = ProgressIn(q)
  PROVE  Fit(d, q, s, t)
<1>1. /\ c.depth \in Nat /\ Counted(c.depth, p, s) /\ Sound(c) /\ t \in Seq(Ops)
      /\ c.tree = t \o Symbol("adaptive", InFlight(p)) /\ c \in Cores
  BY DEF Fit, Sound, Cores, Holds
<1>2. c.tree = t
  BY <1>1, EmptySymbol, ConcatEmptySeq
<1>3. Sound(d) /\ \A n, v : Leads(c, n, v) => Leads(d, n, v)
  BY <1>1, SameStream
<1>4. MarkOf(c).len = Len(c.journal)
  BY <1>1, CoreParts
<1>5. Leads(d, q.start[1].len, t) /\ q.start[1].len = Len(c.journal)
  BY <1>1, <1>2, <1>3, <1>4, LeadsNow
<1>6. Holds(d, q, t)
  BY <1>1, <1>2, <1>5, EmptySymbol DEF Holds
<1>7. Counted(d.depth, q, s)
  <2>1. Len(s) \in Nat /\ Len(p.start) = 0 /\ Len(q.start) = 1
    OBVIOUS
  <2>. QED  BY <2>1, <1>1 DEF Counted
<1>8. ASSUME Nested  PROVE Anchored(d, q, s)
  <2>1. Anchored(c, p, s)
    BY <1>8 DEF Fit
  <2>2. \A i \in 1 .. Len(s) : Anchor(s[i]) <= Len(c.journal)
    BY <2>1 DEF Anchored, Leads
  <2>. QED  BY <2>1, <2>2, <1>3, <1>5 DEF Anchored
<1>. QED  BY <1>3, <1>6, <1>7, <1>8 DEF Fit

-----------------------------------------------------------------------------
(* Feeding a bit *)

LEMMA NoPrefixFacts ==
  /\ NoPrefix \in Prefixes /\ NoPrefix.kind = "none" /\ NoPrefix.start = << >>
  /\ NoPrefix.bits = << >> /\ InFlight(NoPrefix) = << >> /\ ProgressIn(NoPrefix) = None
  /\ Shape(NoPrefix) /\ Startable(NoPrefix) /\ PartialOf(NoPrefix) = NoBits
<1>1. << >> \in Seq(Marks) /\ << >> \in Seq(BOOLEAN) /\ Len(<< >>) = 0
  BY EmptySeq
<1>2. /\ NoPrefix \in Prefixes /\ NoPrefix.kind = "none" /\ NoPrefix.start = << >>
      /\ NoPrefix.bits = << >>
  BY <1>1 DEF NoPrefix, Prefixes
<1>3. Len(NoPrefix.start) <= 1 /\ Len(NoPrefix.bits) < Width
  BY <1>1, <1>2, StreamAssumption
<1>. QED  BY <1>2, <1>3 DEF InFlight, ProgressIn, Shape, Startable, PartialOf

\* A fresh prefix, with its start checkpoint if it has one.
LEMMA OpenedFacts ==
  ASSUME NEW q \in Prefixes, q.bits = << >>, Len(q.start) <= 1,
         q.kind = "native" \/ q.start = << >>
  PROVE  /\ InFlight(q) = << >> /\ Shape(q) /\ Startable(q) /\ PartialOf(q) = NoBits
         /\ q.kind = "native" => ProgressIn(q) = 0
         /\ q.kind # "native" => ProgressIn(q) = None
<1>1. Len(<< >>) = 0 /\ Width > 0
  BY EmptySeq, StreamAssumption
<1>2. InFlight(q) = << >> /\ Startable(q) /\ PartialOf(q) = NoBits
  BY DEF InFlight, Startable, PartialOf
<1>3. Shape(q)
  <2>1. Len(q.bits) < Width
    BY <1>1
  <2>. QED  BY <2>1 DEF Shape
<1>4. Len(q.bits) = 0
  BY <1>1
<1>. QED  BY <1>2, <1>3, <1>4 DEF ProgressIn

\* A prefix without learned bits holds exactly the predictor's stream.
LEMMA HoldsAll ==
  ASSUME NEW c, NEW p, NEW t, Holds(c, p, t), InFlight(p) = << >>
  PROVE  c.tree = t /\ t \o Symbol("adaptive", InFlight(p)) = t
BY EmptySymbol, ConcatEmptySeq DEF Holds

LEMMA EnsuredFits ==
  ASSUME NEW t, Good(core, prefix, saved, t), NEW mode \in Modes
  PROVE  LET e == Ensured(mode)
         IN  /\ Fit(e.core, e.prefix, saved, t) /\ Shape(e.prefix)
             /\ e.prefix.kind # "none" /\ e.prefix.bits = prefix.bits
             /\ prefix.kind # "none" => e.core = core /\ e.prefix = prefix
             /\ prefix.kind = "none" => PartialOf(e.prefix) = NoBits /\ Startable(e.prefix)
<1>. DEFINE e == Ensured(mode)
<1>1. /\ Fit(core, prefix, saved, t) /\ Shape(prefix) /\ prefix \in Prefixes
      /\ saved \in Seq(Saves) /\ core \in Cores /\ Holds(core, prefix, t)
  BY DEF Good, Shape, SaveList, Fit, Sound
<1>2. CASE prefix.kind # "none"
  BY <1>1, <1>2 DEF Ensured
<1>3. CASE prefix.kind = "none"
  <2>1. prefix.start = << >> /\ prefix.bits = << >> /\ InFlight(prefix) = << >>
    BY <1>1, <1>3 DEF Shape, InFlight
  <2>2. t \o Symbol("adaptive", InFlight(prefix)) = t /\ core.progress = None
    BY <1>1, <1>3, <2>1, HoldsAll DEF Holds, ProgressIn
  <2>3. core.depth - Len(prefix.start) = core.depth /\ core.depth \in Nat
    <3>1. Len(prefix.start) = 0
      BY <2>1, EmptySeq
    <3>. QED  BY <3>1, <1>1 DEF Cores
  <2>4. << >> \in Seq(Marks) /\ Len(<< >>) = 0 /\ 0 \in Int
    BY EmptySeq
  <2>5. CASE ~native
    <3>. DEFINE q == [NoPrefix EXCEPT !.kind = "mass"]
    <3>1. e.core = core /\ e.prefix = q
      BY <1>3, <2>5 DEF Ensured
    <3>2. /\ q \in Prefixes /\ q.kind = "mass" /\ q.start = << >> /\ q.bits = << >>
      BY NoPrefixFacts DEF Prefixes
    <3>. HIDE DEF e, q
    <3>4. /\ InFlight(q) = << >> /\ Shape(q) /\ Startable(q) /\ PartialOf(q) = NoBits
          /\ ProgressIn(q) = None
      BY <2>4, <3>2, OpenedFacts
    <3>3. Fit(core, q, saved, t \o Symbol("adaptive", InFlight(prefix)))
      BY <1>1, <2>2, <2>3, <3>2, <3>4, FitDropped
    <3>. QED  BY <1>3, <2>1, <2>2, <3>1, <3>2, <3>3, <3>4 DEF e
  <2>6. CASE native /\ mode # "frozen"
    <3>. DEFINE q == [NoPrefix EXCEPT !.kind = "native"]
                d == Progress(core, 0)
    <3>1. e.core = d /\ e.prefix = q
      BY <1>3, <2>6 DEF Ensured
    <3>2. /\ q \in Prefixes /\ q.kind = "native" /\ q.start = << >> /\ q.bits = << >>
      BY NoPrefixFacts DEF Prefixes
    <3>3. /\ d \in Cores /\ d.tree = core.tree /\ d.journal = core.journal
          /\ d.depth = core.depth /\ d.progress = 0
      BY <1>1, <2>4, CoreParts
    <3>. HIDE DEF e, q, d
    <3>5. /\ InFlight(q) = << >> /\ Shape(q) /\ Startable(q) /\ PartialOf(q) = NoBits
          /\ ProgressIn(q) = 0
      BY <2>4, <3>2, OpenedFacts
    <3>4. Fit(d, q, saved, t \o Symbol("adaptive", InFlight(prefix)))
      BY <1>1, <2>3, <3>2, <3>3, <3>5, FitDropped
    <3>. QED  BY <1>3, <2>1, <2>2, <3>1, <3>2, <3>4, <3>5 DEF e
  <2>7. CASE native /\ mode = "frozen"
    <3>. DEFINE k == <<MarkOf(core)>>
                q == [NoPrefix EXCEPT !.kind = "native", !.start = k]
                d == Progress(Checkpointed(core), 0)
    <3>1. e.core = d /\ e.prefix = q
      BY <1>3, <2>7 DEF Ensured
    <3>2. MarkOf(core) \in Marks
      BY <1>1, CoreParts
    <3>3. k \in Seq(Marks) /\ Len(k) <= 1
      BY <3>2
    <3>. HIDE DEF k
    <3>4. /\ q \in Prefixes /\ q.kind = "native" /\ q.start = k /\ q.bits = << >>
      BY <3>3, NoPrefixFacts DEF Prefixes
    <3>5. /\ Checkpointed(core) \in Cores /\ Checkpointed(core).tree = core.tree
          /\ Checkpointed(core).journal = core.journal
          /\ Checkpointed(core).depth = core.depth + 1
      BY <1>1, CoreParts
    <3>6. /\ d \in Cores /\ d.tree = core.tree /\ d.journal = core.journal
          /\ d.depth = core.depth + 1 /\ d.progress = 0
      BY <3>5, <2>4, CoreParts
    <3>. HIDE DEF e, q, d
    <3>8. /\ InFlight(q) = << >> /\ Shape(q) /\ Startable(q) /\ PartialOf(q) = NoBits
          /\ ProgressIn(q) = 0
      BY <3>3, <3>4, OpenedFacts
    <3>7. Fit(d, q, saved, t)
      BY <1>1, <2>1, <3>4, <3>6, <3>8, FitStarted DEF k
    <3>. QED  BY <1>3, <2>1, <3>1, <3>4, <3>7, <3>8 DEF e
  <2>. QED  BY <2>5, <2>6, <2>7
<1>. QED  BY <1>2, <1>3

\* The start checkpoint captured before the first bit.
LEMMA StartedFits ==
  ASSUME NEW s \in Seq(Saves), NEW t, NEW e, Fit(e.core, e.prefix, s, t), Shape(e.prefix),
         e.prefix.kind = "native", NEW mode \in Modes
  PROVE  LET x == Started(e, mode)
         IN  /\ Fit(x.core, x.prefix, s, t) /\ Shape(x.prefix)
             /\ x.prefix.kind = "native" /\ x.prefix.bits = e.prefix.bits
             /\ e.prefix.bits = << >> /\ (mode = "frozen" \/ ~scoped) => x.prefix.start # << >>
             /\ e.prefix.bits # << >> => x = e
<1>. DEFINE c == e.core
            p == e.prefix
            x == Started(e, mode)
            new == p.start = << >> /\ p.bits = << >> /\ (mode = "frozen" \/ ~scoped)
<1>1. CASE ~new
  <2>1. x = e
    BY <1>1 DEF Started
  <2>. QED  BY <1>1, <2>1
<1>2. CASE new
  <2>. DEFINE k == <<MarkOf(c)>>
              q == [p EXCEPT !.start = k]
              d == Checkpointed(c)
  <2>1. x.core = d /\ x.prefix = q
    BY <1>2 DEF Started
  <2>2. p \in Prefixes /\ c \in Cores /\ Holds(c, p, t) /\ p.start = << >> /\ p.bits = << >>
    BY <1>2 DEF Shape, Fit, Sound
  <2>3. MarkOf(c) \in Marks
    BY <2>2, CoreParts
  <2>4. k \in Seq(Marks) /\ Len(k) <= 1 /\ k # << >>
    BY <2>3
  <2>. HIDE DEF k
  <2>5. q \in Prefixes /\ q.kind = "native" /\ q.start = k /\ q.bits = << >>
    BY <2>2, <2>4 DEF Prefixes
  <2>. HIDE DEF q
  <2>6. InFlight(q) = << >> /\ Shape(q) /\ ProgressIn(q) = 0
    BY <2>4, <2>5, OpenedFacts
  <2>7. InFlight(p) = << >> /\ ProgressIn(p) = 0
    BY <2>2, EmptySeq DEF InFlight, ProgressIn
  <2>8. /\ d \in Cores /\ d.tree = c.tree /\ d.journal = c.journal
        /\ d.depth = c.depth + 1 /\ d.progress = c.progress
    BY <2>2, CoreParts
  <2>. HIDE DEF d
  <2>9. d.progress = ProgressIn(q)
    BY <2>2, <2>6, <2>7, <2>8 DEF Holds
  <2>. HIDE DEF c, p
  <2>10. Fit(d, q, s, t)
    BY <2>2, <2>5, <2>6, <2>7, <2>8, <2>9, FitStarted DEF k, c, p
  <2>. QED  BY <2>1, <2>2, <2>4, <2>5, <2>6, <2>10 DEF p
<1>. QED  BY <1>1, <1>2

LEMMA MoreBits ==
  ASSUME NEW p \in Prefixes, NEW mode \in Modes, NEW bit \in BOOLEAN
  PROVE  LET q == [p EXCEPT !.mode = mode, !.bits = Append(@, bit)]
         IN  /\ q \in Prefixes /\ q.kind = p.kind /\ q.start = p.start /\ q.mode = mode
             /\ q.bits = Append(p.bits, bit) /\ q.bits # << >>
             /\ PartialOf(q) = [mode |-> mode, bits |-> Append(p.bits, bit)]
<1>. DEFINE b == Append(p.bits, bit)
            q == [p EXCEPT !.mode = mode, !.bits = Append(@, bit)]
<1>1. p.bits \in Seq(BOOLEAN)
  BY DEF Prefixes
<1>2. b \in Seq(BOOLEAN) /\ b # << >>
  BY <1>1, AppendProperties
<1>3. q = [p EXCEPT !.mode = mode, !.bits = b]
  BY DEF Prefixes
<1>. HIDE DEF b
<1>4. q \in Prefixes /\ q.kind = p.kind /\ q.start = p.start /\ q.mode = mode /\ q.bits = b
  BY <1>2, <1>3 DEF Prefixes
<1>. HIDE DEF q
<1>5. PartialOf(q) = [mode |-> mode, bits |-> b]
  BY <1>2, <1>4 DEF PartialOf
<1>. QED  BY <1>2, <1>4, <1>5 DEF q, b

\* A bit learned by the predictor belongs to the symbol in progress.
LEMMA BitFed ==
  ASSUME NEW c, NEW p \in Prefixes, NEW s \in Seq(Saves), NEW t, Fit(c, p, s, t),
         p.kind = "native", NEW bit \in BOOLEAN,
         NEW q \in Prefixes, q.kind = "native", q.start = p.start, q.bits = Append(p.bits, bit)
  PROVE  Fit(ObserveNativeBits(c, <<bit>>), q, s, t)
<1>. DEFINE one == <<bit>>
            d == ObserveNativeBits(c, one)
            y == Symbol("adaptive", p.bits)
            z == Symbol("adaptive", one)
<1>1. /\ Sound(c) /\ c.tree = t \o y /\ t \in Seq(Ops) /\ c.progress = Len(p.bits)
  BY DEF Fit, Holds, InFlight, ProgressIn
<1>2. one \in Seq(BOOLEAN) /\ Len(one) = 1 /\ p.bits \in Seq(BOOLEAN)
  BY DEF Prefixes
<1>3. Symbol("adaptive", Append(p.bits, bit)) = y \o z
  BY <1>2, SymbolAppend DEF Modes
<1>. HIDE DEF one
<1>4. /\ Sound(d) /\ d.tree = c.tree \o z
      /\ d.depth = c.depth /\ d.progress = c.progress + 1
      /\ c.depth > 0 => \A n, v : Leads(c, n, v) => Leads(d, n, v)
  BY <1>1, <1>2, ObserveFacts
<1>5. y \in Seq(Ops) /\ z \in Seq(Ops)
  BY <1>2, SymbolShape DEF Modes
<1>. HIDE DEF d, y, z
<1>6. d.tree = t \o (y \o z)
  <2>1. (t \o y) \o z = t \o (y \o z)
    BY <1>1, <1>5, ConcatAssociative
  <2>. QED  BY <2>1, <1>1, <1>4
<1>7. d.tree = t \o Symbol("adaptive", InFlight(q))
  BY <1>3, <1>6 DEF InFlight
<1>8. d.progress = ProgressIn(q)
  <2>1. Len(Append(p.bits, bit)) = Len(p.bits) + 1
    BY <1>2, AppendProperties
  <2>. QED  BY <2>1, <1>1, <1>4 DEF ProgressIn
<1>9. Fit(d, q, s, t)
  BY <1>1, <1>4, <1>7, <1>8, FitGrown
<1>. QED  BY <1>9 DEF d, one

\* The last bit of a symbol that the predictor stepped through.
LEMMA NativeCompleted ==
  ASSUME NEW c, NEW p \in Prefixes, NEW s \in Seq(Saves), NEW t, Fit(c, p, s, t),
         p.kind = "native", Len(p.start) <= 1,
         NEW mode \in Modes, mode = "frozen" => p.start # << >>
  PROVE  Fit(CompletedNative(c, p, mode), NoPrefix, s, t \o Symbol(mode, p.bits))
<1>1. t \in Seq(Ops) /\ c \in Cores /\ Counted(c.depth, p, s)
  BY DEF Fit, Holds, Sound
<1>2. p.bits \in Seq(BOOLEAN) /\ Symbol(mode, p.bits) \in Seq(Ops)
  BY SymbolShape DEF Prefixes
<1>3. t \o Symbol(mode, p.bits) \in Seq(Ops)
  BY <1>1, <1>2, ConcatProperties
<1>4. CASE mode = "frozen"
  <2>. DEFINE b == BackToStart(c, p.start[1])
              y == Symbol("frozen", p.bits)
              d == Applied(b, y)
  <2>1. Fit(b, NoPrefix, s, t) /\ b.tree = t
    BY <1>4, FitBack, NoPrefixFacts
  <2>2. CompletedNative(c, p, mode) = d
    BY <1>4 DEF CompletedNative, UpdateFrozen
  <2>3. Sound(b) /\ b.progress = None
    BY <2>1, NoPrefixFacts DEF Fit, Holds
  <2>. HIDE DEF b
  <2>4. y \in Seq(Ops) /\ t \o y \in Seq(Ops)
    BY <1>2, <1>3, <1>4
  <2>. HIDE DEF y
  <2>5. /\ Sound(d) /\ d.tree = t \o y /\ d.depth = b.depth /\ d.progress = None
        /\ b.depth > 0 => \A n, v : Leads(b, n, v) => Leads(d, n, v)
    BY <2>1, <2>3, <2>4, AppliedFacts
  <2>. HIDE DEF d
  <2>6. d.tree = (t \o y) \o Symbol("adaptive", InFlight(NoPrefix))
    BY <2>4, <2>5, NoPrefixFacts, EmptySymbol, ConcatEmptySeq
  <2>7. Fit(d, NoPrefix, s, t \o y)
    BY <2>1, <2>4, <2>5, <2>6, NoPrefixFacts, FitGrown
  <2>. QED  BY <2>2, <2>7, <1>4 DEF y
<1>5. CASE mode = "adaptive"
  <2>. DEFINE r == Progress(c, None)
              d == CompletedNative(c, p, mode)
  <2>1. d = IF p.start # << >> THEN Discarded(r) ELSE r
    BY <1>5 DEF CompletedNative
  <2>2. /\ r \in Cores /\ r.tree = c.tree /\ r.journal = c.journal /\ r.depth = c.depth
        /\ r.progress = None
    BY <1>1, CoreParts DEF None
  <2>. HIDE DEF r, d
  <2>3. d \in Cores /\ d.tree = c.tree /\ d.journal = c.journal /\ d.progress = None
    BY <2>1, <2>2, CoreParts
  <2>4. d.depth = c.depth - Len(p.start)
    <3>1. CASE p.start = << >>
      <4>1. Len(p.start) = 0 /\ c.depth \in Nat
        BY <3>1, <1>1, EmptySeq DEF Cores
      <4>. QED  BY <4>1, <3>1, <2>1, <2>2
    <3>2. CASE p.start # << >>
      <4>1. Len(p.start) = 1
        <5>. DEFINE l == Len(p.start)
        <5>1. l \in Nat \ {0} /\ l <= 1
          BY <3>2, StartMark
        <5>. HIDE DEF l
        <5>2. l = 1
          BY <5>1
        <5>. QED  BY <5>2 DEF l
      <4>2. c.depth \in Nat /\ c.depth > 0
        <5>1. c.depth \in Nat
          BY <1>1 DEF Cores
        <5>. QED  BY <5>1, <1>1, <3>2, Journaled
      <4>3. Discarded(r).depth = c.depth - 1
        BY <4>2, <2>2, CoreParts
      <4>. QED  BY <4>1, <4>3, <3>2, <2>1
    <3>. QED  BY <3>1, <3>2
  <2>5. Fit(d, NoPrefix, s, t \o Symbol("adaptive", InFlight(p)))
    BY <2>3, <2>4, NoPrefixFacts, FitDropped
  <2>. QED  BY <2>5, <1>5 DEF d, InFlight
<1>. QED  BY <1>4, <1>5 DEF Modes

\* A symbol fed to the predictor as a whole.
LEMMA SymbolFed ==
  ASSUME NEW c, NEW p \in Prefixes, NEW s \in Seq(Saves), NEW t, Fit(c, p, s, t),
         p.kind # "native", p.start = << >>,
         NEW mode \in Modes, NEW bits \in Seq(BOOLEAN)
  PROVE  Fit(Applied(c, Symbol(mode, bits)), NoPrefix, s, t \o Symbol(mode, bits))
<1>. DEFINE y == Symbol(mode, bits)
            d == Applied(c, y)
<1>1. y \in Seq(Ops)
  BY SymbolShape
<1>2. /\ Sound(c) /\ Holds(c, p, t) /\ t \in Seq(Ops) /\ c.progress = None
      /\ InFlight(p) = << >>
  BY DEF Fit, Holds, ProgressIn, InFlight
<1>3. c.tree = t
  BY <1>2, HoldsAll
<1>. HIDE DEF y
<1>4. t \o y \in Seq(Ops)
  BY <1>1, <1>2, ConcatProperties
<1>5. /\ Sound(d) /\ d.tree = t \o y /\ d.depth = c.depth /\ d.progress = None
      /\ c.depth > 0 => \A n, v : Leads(c, n, v) => Leads(d, n, v)
  BY <1>1, <1>2, <1>3, AppliedFacts
<1>. HIDE DEF d
<1>6. d.tree = (t \o y) \o Symbol("adaptive", InFlight(NoPrefix))
  BY <1>4, <1>5, NoPrefixFacts, EmptySymbol, ConcatEmptySeq
<1>7. Fit(d, NoPrefix, s, t \o y)
  BY <1>4, <1>5, <1>6, NoPrefixFacts, FitGrown
<1>. QED  BY <1>7 DEF d, y

\* Feeding a bit is refused, completes a symbol, or adds to one.
LEMMA FeedEffect ==
  ASSUME NEW t, Good(core, prefix, saved, t), ~scoped => Startable(prefix),
         NEW mode \in Modes, NEW bit \in BOOLEAN, Feeding(mode, bit)
  PROVE  LET bits == Append(prefix.bits, bit)
         IN  \/ core' = core /\ prefix' = prefix
             \/ /\ prefix.bits = << >> \/ prefix.mode = mode
                /\ \/ /\ Len(bits) = Width
                      /\ Good(core', prefix', saved, t \o Symbol(mode, bits))
                      /\ PartialOf(prefix') = NoBits /\ Startable(prefix')
                   \/ /\ Len(bits) # Width
                      /\ Good(core', prefix', saved, t)
                      /\ PartialOf(prefix') = [mode |-> mode, bits |-> bits]
                      /\ ~scoped => Startable(prefix')
<1>. DEFINE bits == Append(prefix.bits, bit)
            e == Ensured(mode)
            x == IF e.prefix.kind = "native" THEN Started(e, mode) ELSE e
            c == IF e.prefix.kind = "native" THEN ObserveNativeBits(x.core, <<bit>>) ELSE x.core
            p == [x.prefix EXCEPT !.mode = mode, !.bits = Append(@, bit)]
            full == Len(p.bits) = Width
<1>1. /\ Fit(e.core, e.prefix, saved, t) /\ Shape(e.prefix)
      /\ e.prefix.kind # "none" /\ e.prefix.bits = prefix.bits
      /\ prefix.kind # "none" => e.core = core /\ e.prefix = prefix
      /\ prefix.kind = "none" => PartialOf(e.prefix) = NoBits /\ Startable(e.prefix)
  BY EnsuredFits
<1>2. /\ e.prefix.bits # << >> /\ e.prefix.mode # mode => core' = e.core /\ prefix' = e.prefix
      /\ ~(e.prefix.bits # << >> /\ e.prefix.mode # mode) =>
           /\ prefix' = IF full THEN NoPrefix ELSE p
           /\ core' = IF ~full THEN c
                      ELSE IF p.kind = "native" THEN CompletedNative(c, p, mode)
                      ELSE IF mode = "adaptive" THEN Update(c, p.bits) ELSE UpdateFrozen(c, p.bits)
  BY DEF Feeding
<1>3. saved \in Seq(Saves) /\ SaveList(saved) /\ Shape(prefix)
  BY DEF Good, SaveList
<1>4. prefix.bits # << >> => prefix.kind # "none"
  BY <1>3 DEF Shape
<1>5. CASE e.prefix.bits # << >> /\ e.prefix.mode # mode
  BY <1>1, <1>2, <1>4, <1>5
<1>6. CASE ~(e.prefix.bits # << >> /\ e.prefix.mode # mode)
  <2>1. prefix.bits = << >> \/ prefix.mode = mode
    BY <1>1, <1>4, <1>6
  <2>2. /\ Fit(x.core, x.prefix, saved, t) /\ Shape(x.prefix) /\ x.prefix.kind = e.prefix.kind
        /\ x.prefix.bits = prefix.bits
        /\ e.prefix.kind = "native" /\ prefix.bits = << >> /\ (mode = "frozen" \/ ~scoped)
             => x.prefix.start # << >>
        /\ prefix.bits # << >> => x.prefix = prefix
    <3>1. CASE e.prefix.kind = "native"
      <4>. DEFINE y == Started(e, mode)
      <4>1. /\ Fit(y.core, y.prefix, saved, t) /\ Shape(y.prefix)
            /\ y.prefix.kind = "native" /\ y.prefix.bits = e.prefix.bits
            /\ e.prefix.bits = << >> /\ (mode = "frozen" \/ ~scoped) => y.prefix.start # << >>
            /\ e.prefix.bits # << >> => y = e
        BY <3>1, <1>1, <1>3, StartedFits
      <4>2. x = y
        BY <3>1
      <4>. HIDE DEF y, x, e
      <4>. QED  BY <4>1, <4>2, <3>1, <1>1, <1>4
    <3>2. CASE e.prefix.kind # "native"
      <4>1. x = e
        BY <3>2
      <4>. HIDE DEF x, e
      <4>. QED  BY <4>1, <3>2, <1>1, <1>4
    <3>. QED  BY <3>1, <3>2
  <2>. HIDE DEF x
  <2>3. x.prefix \in Prefixes /\ Len(x.prefix.start) <= 1 /\ Len(x.prefix.bits) < Width
    BY <2>2 DEF Shape
  <2>4. /\ p \in Prefixes /\ p.kind = e.prefix.kind /\ p.start = x.prefix.start /\ p.mode = mode
        /\ p.bits = bits /\ p.bits # << >> /\ PartialOf(p) = [mode |-> mode, bits |-> bits]
    <3>1. /\ p \in Prefixes /\ p.kind = x.prefix.kind /\ p.start = x.prefix.start /\ p.mode = mode
          /\ p.bits = Append(x.prefix.bits, bit) /\ p.bits # << >>
          /\ PartialOf(p) = [mode |-> mode, bits |-> Append(x.prefix.bits, bit)]
      BY <2>3, MoreBits
    <3>. HIDE DEF p, e
    <3>. QED  BY <3>1, <2>2
  <2>5. bits \in Seq(BOOLEAN) /\ Len(bits) = Len(prefix.bits) + 1 /\ Len(prefix.bits) \in Nat
    <3>1. prefix.bits \in Seq(BOOLEAN)
      BY <1>3 DEF Shape, Prefixes
    <3>. QED  BY <3>1, AppendProperties, LenProperties
  <2>6. p.kind = "native" /\ mode = "frozen" => p.start # << >>
    <3>1. CASE prefix.bits = << >>
      BY <3>1, <2>2, <2>4
    <3>2. CASE prefix.bits # << >>
      BY <3>2, <2>1, <2>2, <2>4, <1>3 DEF Shape
    <3>. QED  BY <3>1, <3>2
  <2>7. ~scoped => Startable(p)
    <3>1. CASE prefix.bits = << >>
      BY <3>1, <2>2, <2>4 DEF Startable
    <3>2. CASE prefix.bits # << >>
      BY <3>2, <2>2, <2>4 DEF Startable
    <3>. QED  BY <3>1, <3>2
  <2>8. full <=> Len(bits) = Width
    BY <2>4
  <2>9. /\ prefix' = IF full THEN NoPrefix ELSE p
        /\ core' = IF ~full THEN c
                   ELSE IF p.kind = "native" THEN CompletedNative(c, p, mode)
                   ELSE Applied(c, Symbol(mode, bits))
    <3>1. mode = "adaptive" => Update(c, p.bits) = Applied(c, Symbol(mode, bits))
      BY <2>4 DEF Update
    <3>2. mode # "adaptive" => UpdateFrozen(c, p.bits) = Applied(c, Symbol(mode, bits))
      <4>1. mode # "adaptive" => mode = "frozen"
        BY DEF Modes
      <4>. QED  BY <4>1, <2>4 DEF UpdateFrozen
    <3>. HIDE DEF full, p, c, e
    <3>. QED  BY <3>1, <3>2, <1>2, <1>6
  <2>. HIDE DEF p, full, bits
  <2>10. p.kind = "native" => Fit(c, p, saved, t)
    <3>1. ASSUME p.kind = "native"  PROVE Fit(c, p, saved, t)
      <4>1. c = ObserveNativeBits(x.core, <<bit>>)
        BY <3>1, <2>4
      <4>2. p.bits = Append(x.prefix.bits, bit)
        BY <2>2, <2>4 DEF bits
      <4>. HIDE DEF c, e
      <4>. QED  BY <3>1, <4>1, <4>2, <1>3, <2>2, <2>3, <2>4, BitFed
    <3>. QED  BY <3>1
  <2>11. p.kind # "native" => c = x.core /\ x.prefix.kind # "native" /\ x.prefix.start = << >>
    BY <2>2, <2>4 DEF Shape
  <2>. HIDE DEF c, e
  <2>12. CASE full
    <3>1. prefix' = NoPrefix
      BY <2>9, <2>12
    <3>2. Fit(core', NoPrefix, saved, t \o Symbol(mode, bits))
      <4>1. CASE p.kind = "native"
        <5>1. core' = CompletedNative(c, p, mode)
          BY <4>1, <2>9, <2>12
        <5>2. Len(p.start) <= 1
          BY <2>3, <2>4
        <5>. QED  BY <4>1, <5>1, <5>2, <1>3, <2>4, <2>6, <2>10, NativeCompleted
      <4>2. CASE p.kind # "native"
        <5>1. core' = Applied(x.core, Symbol(mode, bits))
          BY <4>2, <2>9, <2>11, <2>12
        <5>. QED  BY <4>2, <5>1, <1>3, <2>2, <2>3, <2>5, <2>11, SymbolFed
      <4>. QED  BY <4>1, <4>2
    <3>3. Good(core', prefix', saved, t \o Symbol(mode, bits))
      BY <3>1, <3>2, <1>3, NoPrefixFacts DEF Good
    <3>. QED  BY <3>1, <3>3, <2>1, <2>8, <2>12, NoPrefixFacts DEF bits
  <2>13. CASE ~full
    <3>1. prefix' = p /\ core' = c
      BY <2>9, <2>13
    <3>2. Fit(c, p, saved, t)
      <4>1. CASE p.kind = "native"
        BY <4>1, <2>10
      <4>2. CASE p.kind # "native"
        <5>1. Sound(c) /\ Holds(c, x.prefix, t) /\ c.depth \in Nat
          BY <4>2, <2>2, <2>11 DEF Fit, Sound, Cores
        <5>2. c.tree = t \o Symbol("adaptive", InFlight(p)) /\ c.progress = ProgressIn(p) /\ t \in Seq(Ops)
          BY <4>2, <5>1, <2>11 DEF Holds, InFlight, ProgressIn
        <5>3. Fit(x.core, x.prefix, saved, t) /\ x.core = c
          BY <4>2, <2>2, <2>11
        <5>. QED  BY <5>1, <5>2, <5>3, <1>3, <2>3, <2>4, FitGrown
      <4>. QED  BY <4>1, <4>2
    <3>3. Shape(p)
      <4>1. Len(p.bits) < Width
        <5>1. Len(prefix.bits) < Width /\ Len(bits) # Width /\ Width \in Nat
          BY <1>3, <2>8, <2>13, StreamAssumption DEF Shape
        <5>2. Len(bits) < Width
          BY <5>1, <2>5
        <5>. QED  BY <5>2, <2>4
      <4>2. p.kind # "native" => p.start = << >>
        BY <2>4, <2>11
      <4>3. p.kind # "none"
        BY <1>1, <2>4
      <4>. QED  BY <4>1, <4>2, <4>3, <2>3, <2>4, <2>6 DEF Shape
    <3>4. Good(core', prefix', saved, t)
      BY <3>1, <3>2, <3>3, <1>3 DEF Good
    <3>. QED  BY <3>1, <3>4, <2>1, <2>4, <2>7, <2>8, <2>13 DEF bits
  <2>. QED  BY <2>12, <2>13
<1>. QED  BY <1>5, <1>6

-----------------------------------------------------------------------------
(* Checkpoints, lifecycle *)

LEMMA PredictEffect ==
  ASSUME NEW t, Good(core, prefix, saved, t), PredictBit
  PROVE  /\ Good(core', prefix', saved, t) /\ Startable(prefix')
         /\ PartialOf(prefix') = NoBits /\ PartialOf(prefix) = NoBits
<1>. DEFINE e == Ensured("adaptive")
<1>1. core' = e.core /\ prefix' = e.prefix /\ prefix.kind = "none"
  BY DEF PredictBit
<1>2. "adaptive" \in Modes
  BY DEF Modes
<1>3. /\ Fit(e.core, e.prefix, saved, t) /\ Shape(e.prefix)
      /\ PartialOf(e.prefix) = NoBits /\ Startable(e.prefix)
  BY <1>1, <1>2, EnsuredFits
<1>. HIDE DEF e
<1>4. PartialOf(prefix) = NoBits
  BY <1>1 DEF Good, Shape, PartialOf
<1>. QED  BY <1>1, <1>3, <1>4 DEF Good

\* Dropping the symbol in progress leaves the whole symbols.
LEMMA AbandonFits ==
  ASSUME NEW t, Good(core, prefix, saved, t), Startable(prefix) \/ prefix.bits = << >>
  PROVE  Fit(Progress(Abandoned, None), NoPrefix, saved, t)
<1>. DEFINE a == Abandoned
            d == Progress(a, None)
<1>1. /\ Fit(core, prefix, saved, t) /\ Shape(prefix) /\ prefix \in Prefixes
      /\ saved \in Seq(Saves) /\ core \in Cores /\ Holds(core, prefix, t) /\ t \in Seq(Ops)
  BY DEF Good, Shape, SaveList, Fit, Sound, Holds
<1>2. None \in Int
  BY DEF None
<1>3. CASE prefix.start # << >>
  <2>1. Len(prefix.start) <= 1 /\ prefix.kind = "native"
    BY <1>1, <1>3 DEF Shape
  <2>2. a = BackToStart(core, prefix.start[1])
    BY <1>3, <2>1 DEF Abandoned, HasStart
  <2>3. Fit(a, NoPrefix, saved, t)
    BY <1>1, <1>3, <2>1, <2>2, NoPrefixFacts, FitBack
  <2>. HIDE DEF a
  <2>4. a \in Cores /\ Holds(a, NoPrefix, t)
    BY <2>3 DEF Fit, Sound
  <2>5. /\ d \in Cores /\ d.tree = a.tree /\ d.journal = a.journal
        /\ d.depth = a.depth /\ d.progress = None
    BY <1>2, <2>4, CoreParts
  <2>6. d.depth = a.depth - Len(NoPrefix.start)
    <3>1. Len(NoPrefix.start) = 0 /\ a.depth \in Nat
      BY <2>4, NoPrefixFacts, EmptySeq DEF Cores
    <3>. QED  BY <3>1, <2>5
  <2>7. t \o Symbol("adaptive", InFlight(NoPrefix)) = t
    BY <2>4, NoPrefixFacts, HoldsAll
  <2>. HIDE DEF d
  <2>8. Fit(d, NoPrefix, saved, t \o Symbol("adaptive", InFlight(NoPrefix)))
    BY <1>1, <2>3, <2>5, <2>6, NoPrefixFacts, FitDropped
  <2>. QED  BY <2>7, <2>8 DEF d, a
<1>4. CASE prefix.start = << >>
  <2>1. InFlight(prefix) = << >>
    BY <1>4 DEF Startable, InFlight
  <2>2. a = IF InNative THEN Progress(core, None) ELSE core
    BY <1>4 DEF Abandoned, HasStart
  <2>. HIDE DEF a
  <2>3. a \in Cores /\ a.tree = core.tree /\ a.journal = core.journal /\ a.depth = core.depth
    BY <1>1, <1>2, <2>2, CoreParts
  <2>4. /\ d \in Cores /\ d.tree = core.tree /\ d.journal = core.journal
        /\ d.depth = core.depth /\ d.progress = None
    BY <1>2, <2>3, CoreParts
  <2>5. d.depth = core.depth - Len(prefix.start)
    <3>1. Len(prefix.start) = 0 /\ core.depth \in Nat
      BY <1>1, <1>4, EmptySeq DEF Cores
    <3>. QED  BY <3>1, <2>4
  <2>6. t \o Symbol("adaptive", InFlight(prefix)) = t
    BY <1>1, <2>1, HoldsAll
  <2>. HIDE DEF d
  <2>7. Fit(d, NoPrefix, saved, t \o Symbol("adaptive", InFlight(prefix)))
    BY <1>1, <2>4, <2>5, NoPrefixFacts, FitDropped
  <2>. QED  BY <2>6, <2>7 DEF d, a
<1>. QED  BY <1>3, <1>4

LEMMA FinishEffect ==
  ASSUME NEW t, Good(core, prefix, saved, t), ~scoped => Startable(prefix), Finish
  PROVE  /\ Good(core', prefix', saved, t)
         /\ ~scoped => Startable(prefix')
         /\ PartialOf(prefix') = PartialOf(prefix)
<1>1. CASE prefix.bits # << >>
  BY <1>1 DEF Finish
<1>2. CASE prefix.bits = << >>
  <2>1. core' = Progress(Abandoned, None) /\ prefix' = NoPrefix
    BY <1>2 DEF Finish
  <2>2. Fit(core', NoPrefix, saved, t)
    BY <1>2, <2>1, AbandonFits
  <2>3. PartialOf(prefix) = NoBits
    BY <1>2 DEF PartialOf
  <2>. QED  BY <2>1, <2>2, <2>3, NoPrefixFacts DEF Good
<1>. QED  BY <1>1, <1>2

\* The mark of a new conditioning history, written while nothing is journaled.
LEMMA FitMarked ==
  ASSUME NEW c, NEW t, Fit(c, NoPrefix, << >>, t),
         NEW d, d = [c EXCEPT !.tree = Append(@, ResetMark)]
  PROVE  Fit(d, NoPrefix, << >>, Append(t, ResetMark))
<1>. DEFINE w == Append(c.tree, ResetMark)
<1>1. /\ c \in Cores /\ Rising(c.journal) /\ Logged(c) <= Len(c.tree) /\ c.tree = t
      /\ t \in Seq(Ops) /\ c.progress = None /\ Counted(c.depth, NoPrefix, << >>)
  <2>1. Sound(c) /\ Holds(c, NoPrefix, t) /\ Counted(c.depth, NoPrefix, << >>)
    BY DEF Fit
  <2>. QED  BY <2>1, NoPrefixFacts, HoldsAll DEF Sound, Holds
<1>2. ResetMark \in Ops
  BY DEF Ops
<1>3. w \in Seq(Ops) /\ Len(w) = Len(c.tree) + 1
  BY <1>1, <1>2, AppendProperties
<1>4. d = [c EXCEPT !.tree = w]
  BY <1>1 DEF Cores
<1>. HIDE DEF w
<1>5. /\ d \in Cores /\ d.tree = w /\ d.journal = c.journal /\ d.depth = c.depth
      /\ d.progress = c.progress
  BY <1>1, <1>3, <1>4 DEF Cores
<1>6. Sound(d)
  <2>1. Logged(d) = Logged(c)
    BY <1>5 DEF Logged
  <2>2. Logged(c) <= Len(d.tree)
    <3>1. Logged(c) \in Nat /\ Len(c.tree) \in Nat
      BY SoundFacts DEF Fit
    <3>. QED  BY <3>1, <1>1, <1>3, <1>5
  <2>. QED  BY <2>1, <2>2, <1>1, <1>5 DEF Sound
<1>7. Holds(d, NoPrefix, w)
  BY <1>1, <1>3, <1>5, NoPrefixFacts, EmptySymbol, ConcatEmptySeq DEF Holds
<1>. QED  BY <1>1, <1>5, <1>6, <1>7, NoneAnchored DEF Fit, w

LEMMA ResetEffect ==
  ASSUME NEW t, Good(core, prefix, saved, t), Startable(prefix), ResetFrozen
  PROVE  /\ Good(core', prefix', saved, IF saved = << >> THEN Append(t, ResetMark) ELSE t)
         /\ prefix' = NoPrefix
<1>. DEFINE c == Progress(Abandoned, None)
<1>1. /\ prefix' = NoPrefix
      /\ core' = IF c.depth > 0 THEN c ELSE [c EXCEPT !.tree = Append(@, ResetMark)]
  BY DEF ResetFrozen
<1>2. Fit(c, NoPrefix, saved, t)
  BY AbandonFits
<1>. HIDE DEF c
<1>3. c.depth > 0 <=> saved # << >>
  <2>1. Counted(c.depth, NoPrefix, saved) /\ c.depth \in Nat /\ saved \in Seq(Saves)
    BY <1>2 DEF Fit, Sound, Cores, Good, SaveList
  <2>2. CASE saved # << >>
    BY <2>1, <2>2, Journaled, NoPrefixFacts
  <2>3. CASE saved = << >>
    <3>1. c.depth = Len(NoPrefix.start) /\ Len(NoPrefix.start) = 0
      BY <2>1, <2>3, NoPrefixFacts, EmptySeq DEF Counted
    <3>. QED  BY <3>1, <2>3
  <2>. QED  BY <2>2, <2>3
<1>4. Fit(core', NoPrefix, saved, IF saved = << >> THEN Append(t, ResetMark) ELSE t)
  <2>1. CASE saved # << >>
    BY <2>1, <1>1, <1>2, <1>3
  <2>2. CASE saved = << >>
    <3>1. core' = [c EXCEPT !.tree = Append(@, ResetMark)]
      BY <2>2, <1>1, <1>3
    <3>2. Fit(core', NoPrefix, << >>, Append(t, ResetMark))
      BY <2>2, <3>1, <1>2, FitMarked
    <3>. QED  BY <2>2, <3>2
  <2>. QED  BY <2>1, <2>2
<1>. QED  BY <1>1, <1>4, NoPrefixFacts DEF Good

\* A predictor without checkpoints and without a symbol in progress.
LEMMA FitCleared ==
  ASSUME NEW c, Sound(c), NEW q \in Prefixes, q.start = << >>, q.kind # "native"
  PROVE  Fit(CheckpointsCleared(c), q, << >>, c.tree)
<1>. DEFINE d == CheckpointsCleared(c)
<1>1. c \in Cores /\ c.tree \in Seq(Ops) /\ Len(c.tree) \in Nat
  BY SoundFacts DEF Sound
<1>2. << >> \in Seq(Nat) /\ Len(<< >>) = 0 /\ None \in Int
  BY EmptySeq DEF None
<1>3. d \in Cores /\ d.tree = c.tree /\ d.journal = << >> /\ d.depth = 0 /\ d.progress = None
  BY <1>1, <1>2 DEF CheckpointsCleared, Cores
<1>. HIDE DEF d
<1>4. Sound(d)
  <2>1. Rising(d.journal)
    <3>1. 1 .. Len(d.journal) = {}
      BY <1>2, <1>3
    <3>. QED  BY <3>1 DEF Rising
  <2>2. Logged(d) = 0
    BY <1>2, <1>3 DEF Logged, Upto
  <2>. QED  BY <2>1, <2>2, <1>1, <1>3 DEF Sound
<1>5. Holds(d, q, c.tree)
  BY <1>1, <1>3, EmptySymbol, ConcatEmptySeq DEF Holds, InFlight, ProgressIn
<1>6. Counted(d.depth, q, << >>)
  BY <1>2, <1>3 DEF Counted
<1>. QED  BY <1>4, <1>5, <1>6, NoneAnchored DEF Fit, d

LEMMA ClearEffect ==
  ASSUME NEW t, Good(core, prefix, saved, t), Startable(prefix), ClearCheckpoints
  PROVE  /\ Good(core', prefix', << >>, t) /\ Startable(prefix')
         /\ PartialOf(prefix') = PartialOf(prefix) /\ saved' = << >>
<1>1. /\ Fit(core, prefix, saved, t) /\ Shape(prefix) /\ prefix \in Prefixes
      /\ saved \in Seq(Saves) /\ core \in Cores /\ Sound(core) /\ Holds(core, prefix, t)
  BY DEF Good, Shape, SaveList, Fit, Sound
<1>2. SaveList(<< >>)
  <2>1. << >> \in Seq(Saves) /\ 1 .. Len(<< >>) = {}
    BY EmptySeq
  <2>. QED  BY <2>1 DEF SaveList
<1>3. saved' = << >>
  BY DEF ClearCheckpoints
<1>4. CASE prefix.start # << >>
  <2>. DEFINE b == BackToStart(core, prefix.start[1])
              q == IF prefix.bits = << >> THEN NoPrefix
                   ELSE [prefix EXCEPT !.kind = "mass", !.start = << >>]
  <2>1. Len(prefix.start) <= 1 /\ prefix.kind = "native"
    BY <1>1, <1>4 DEF Shape
  <2>2. core' = CheckpointsCleared(b) /\ prefix' = q
    BY <1>4, <2>1 DEF ClearCheckpoints, HasStart
  <2>3. Fit(b, NoPrefix, saved, t) /\ b.tree = t
    BY <1>1, <1>4, <2>1, NoPrefixFacts, FitBack
  <2>4. /\ q \in Prefixes /\ q.start = << >> /\ q.kind # "native" /\ Shape(q)
        /\ Startable(q) /\ PartialOf(q) = PartialOf(prefix)
    <3>1. CASE prefix.bits = << >>
      BY <3>1, NoPrefixFacts DEF PartialOf
    <3>2. CASE prefix.bits # << >>
      <4>1. << >> \in Seq(Marks) /\ Len(<< >>) = 0
        BY EmptySeq
      <4>2. q = [prefix EXCEPT !.kind = "mass", !.start = << >>]
        BY <3>2
      <4>. HIDE DEF q
      <4>3. /\ q \in Prefixes /\ q.kind = "mass" /\ q.start = << >> /\ q.bits = prefix.bits
            /\ q.mode = prefix.mode
        BY <4>1, <4>2, <1>1 DEF Prefixes
      <4>4. Shape(q)
        <5>1. Len(q.start) <= 1 /\ Len(q.bits) < Width
          BY <4>1, <4>3, <1>1 DEF Shape
        <5>. QED  BY <5>1, <4>3, <1>1 DEF Shape
      <4>. QED  BY <4>3, <4>4 DEF Startable, PartialOf
    <3>. QED  BY <3>1, <3>2
  <2>. HIDE DEF b, q
  <2>5. Fit(core', q, << >>, t)
    BY <2>2, <2>3, <2>4, FitCleared DEF Fit
  <2>. QED  BY <2>2, <2>4, <2>5, <1>2, <1>3 DEF Good
<1>5. CASE prefix.start = << >>
  <2>. DEFINE q == IF InNative THEN NoPrefix ELSE prefix
  <2>1. InFlight(prefix) = << >> /\ ~(InNative /\ prefix.bits # << >>)
    BY <1>5 DEF Startable, InFlight, InNative
  <2>2. core' = CheckpointsCleared(core) /\ prefix' = q
    BY <1>5, <2>1 DEF ClearCheckpoints, HasStart
  <2>3. core.tree = t
    BY <1>1, <2>1, HoldsAll
  <2>4. /\ q \in Prefixes /\ q.start = << >> /\ q.kind # "native" /\ Shape(q)
        /\ Startable(q) /\ PartialOf(q) = PartialOf(prefix)
    <3>1. CASE InNative
      BY <3>1, <2>1, NoPrefixFacts DEF PartialOf
    <3>2. CASE ~InNative
      BY <3>2, <1>1, <1>5 DEF InNative
    <3>. QED  BY <3>1, <3>2
  <2>. HIDE DEF q
  <2>5. Fit(core', q, << >>, t)
    BY <1>1, <2>2, <2>3, <2>4, FitCleared
  <2>. QED  BY <2>2, <2>4, <2>5, <1>2, <1>3 DEF Good
<1>. QED  BY <1>4, <1>5

LEMMA PartialType ==
  ASSUME NEW p \in Prefixes, p.bits # << >> => p.mode \in Modes
  PROVE  PartialOf(p) \in Partials
<1>1. << >> \in Seq(BOOLEAN) /\ p.bits \in Seq(BOOLEAN)
  BY EmptySeq DEF Prefixes
<1>2. NoBits \in Partials
  BY <1>1 DEF NoBits, Partials
<1>3. p.bits # << >> => [mode |-> p.mode, bits |-> p.bits] \in Partials
  BY <1>1 DEF Partials
<1>. QED  BY <1>2, <1>3 DEF PartialOf

\* A new checkpoint leads to what it has seen, and is not below the others.
LEMMA TakeEffect ==
  ASSUME NEW t, Good(core, prefix, saved, t), Startable(prefix), TakeCheckpoint
  PROVE  /\ Good(core', prefix', saved', t) /\ prefix' = prefix
         /\ \E e : saved' = Append(saved, e) /\ e.seen = [committed |-> t, partial |-> PartialOf(prefix)]
<1>. DEFINE e == [mark |-> MarkOf(core), prefix |-> prefix, seen |-> Observed(core, prefix)]
            d == Checkpointed(core)
            S == Append(saved, e)
            n == Len(saved)
<1>1. /\ Fit(core, prefix, saved, t) /\ Shape(prefix) /\ prefix \in Prefixes /\ SaveList(saved)
      /\ saved \in Seq(Saves) /\ core \in Cores /\ Sound(core) /\ Holds(core, prefix, t)
      /\ t \in Seq(Ops) /\ core.progress = ProgressIn(prefix)
  BY DEF Good, Shape, SaveList, Fit, Sound, Holds
<1>2. saved' = S /\ core' = d /\ prefix' = prefix
  BY DEF TakeCheckpoint
<1>3. /\ Observed(core, prefix).committed = t /\ Observed(core, prefix).partial = PartialOf(prefix)
      /\ Observed(core, prefix) = [committed |-> t, partial |-> PartialOf(prefix)]
  <2>1. /\ Observed(core, prefix).committed = t /\ Observed(core, prefix).partial = PartialOf(prefix)
    BY <1>1, ObservedIs
  <2>. QED  BY <2>1 DEF Observed, PartialOf
<1>4. MarkOf(core) \in Marks /\ MarkOf(core).len = Len(core.journal) /\ MarkOf(core).progress = core.progress
  BY <1>1, CoreParts
<1>5. PartialOf(prefix) \in Partials
  BY <1>1, PartialType DEF Shape
<1>6. /\ e.mark = MarkOf(core) /\ e.prefix = prefix /\ e.seen = [committed |-> t, partial |-> PartialOf(prefix)]
      /\ e.seen.committed = t /\ e.seen.partial = PartialOf(prefix)
  BY <1>3
<1>7. e \in Saves
  BY <1>1, <1>3, <1>4, <1>5 DEF Saves
<1>8. SavedWell(e)
  BY <1>1, <1>4, <1>6, <1>7 DEF SavedWell
<1>. HIDE DEF e
<1>9. /\ S \in Seq(Saves) /\ Len(S) = n + 1 /\ S[n + 1] = e /\ S # << >> /\ n \in Nat
      /\ \A i \in 1 .. n : S[i] = saved[i]
  BY <1>1, <1>7, AppendProperties, LenProperties
<1>. HIDE DEF S, n
<1>10. \A i \in 1 .. n + 1 : i = n + 1 \/ i \in 1 .. n
  BY <1>9
<1>11. SaveList(S)
  BY <1>1, <1>8, <1>9, <1>10 DEF SaveList, n
<1>12. /\ d \in Cores /\ d.tree = core.tree /\ d.journal = core.journal
       /\ d.depth = core.depth + 1 /\ d.progress = core.progress
  BY <1>1, CoreParts
<1>. HIDE DEF d
<1>13. Sound(d) /\ \A l, v : Leads(core, l, v) => Leads(d, l, v)
  BY <1>1, <1>12, SameStream
<1>14. Holds(d, prefix, t)
  BY <1>1, <1>12, <1>13 DEF Holds
<1>15. Counted(d.depth, prefix, S)
  <2>1. Counted(core.depth, prefix, saved) /\ core.depth \in Nat
    BY <1>1 DEF Fit, Cores
  <2>2. Len(prefix.start) \in Nat
    BY <1>1, LenProperties DEF Prefixes
  <2>3. n + Len(prefix.start) <= core.depth
    BY <2>1 DEF Counted, n
  <2>4. Len(S) = n + 1 /\ n \in Nat /\ S # << >> /\ d.depth = core.depth + 1 /\ core.depth \in Nat
    BY <2>1, <1>9, <1>12
  <2>. DEFINE l == Len(prefix.start)
  <2>5. l \in Nat /\ n + l <= core.depth
    BY <2>2, <2>3
  <2>. HIDE DEF l
  <2>6. (n + 1) + l <= core.depth + 1
    BY <2>4, <2>5
  <2>. QED  BY <2>4, <2>6 DEF Counted, l
<1>16. Anchor(e) <= e.mark.len /\ Leads(d, Anchor(e), t)
       /\ (prefix.start # << >> => Anchor(e) <= prefix.start[1].len)
       /\ Anchor(e) \in Nat
  <2>1. CASE prefix.start # << >>
    <3>1. Anchor(e) = prefix.start[1].len /\ Leads(core, prefix.start[1].len, t)
      BY <2>1, <1>1, <1>6 DEF Anchor, Holds
    <3>2. prefix.start[1].len \in Nat /\ prefix.start[1].len <= Len(core.journal)
      BY <3>1 DEF Leads
    <3>. QED  BY <3>1, <3>2, <1>4, <1>6, <1>13
  <2>2. CASE prefix.start = << >>
    <3>1. core.tree = t
      <4>1. InFlight(prefix) = << >>
        BY <2>2 DEF Startable, InFlight
      <4>. QED  BY <4>1, <1>1, HoldsAll
    <3>2. Anchor(e) = Len(core.journal) /\ Leads(core, Len(core.journal), t)
      BY <2>2, <3>1, <1>1, <1>4, <1>6, LeadsNow DEF Anchor
    <3>3. Len(core.journal) \in Nat
      BY <1>1, SoundFacts
    <3>. QED  BY <2>2, <3>2, <3>3, <1>4, <1>6, <1>13
  <2>. QED  BY <2>1, <2>2
<1>17. ASSUME Nested  PROVE Anchored(d, prefix, S)
  <2>1. Anchored(core, prefix, saved)
    BY <1>1, <1>17 DEF Fit
  <2>2. \A i \in 1 .. n : Anchor(saved[i]) \in Nat /\ Anchor(saved[i]) <= Anchor(e)
    <3>. SUFFICES ASSUME NEW i \in 1 .. n PROVE Anchor(saved[i]) \in Nat /\ Anchor(saved[i]) <= Anchor(e)
      OBVIOUS
    <3>1. Leads(core, Anchor(saved[i]), saved[i].seen.committed)
          /\ (prefix.start # << >> => Anchor(saved[i]) <= prefix.start[1].len)
      BY <2>1 DEF Anchored, n
    <3>2. Anchor(saved[i]) \in Nat /\ Anchor(saved[i]) <= Len(core.journal)
      BY <3>1 DEF Leads
    <3>3. prefix.start # << >> => Anchor(e) = prefix.start[1].len
      BY <1>6 DEF Anchor
    <3>4. prefix.start = << >> => Anchor(e) = Len(core.journal)
      BY <1>4, <1>6 DEF Anchor
    <3>. QED  BY <3>1, <3>2, <3>3, <3>4
  <2>3. ASSUME NEW i \in 1 .. n + 1
        PROVE  /\ Leads(d, Anchor(S[i]), S[i].seen.committed)
               /\ Anchor(S[i]) <= S[i].mark.len
               /\ S[i].seen.partial = PartialOf(S[i].prefix)
               /\ prefix.start # << >> => Anchor(S[i]) <= prefix.start[1].len
    <3>1. CASE i \in 1 .. n
      BY <3>1, <2>1, <1>9, <1>13 DEF Anchored, n
    <3>2. CASE i = n + 1
      BY <3>2, <1>6, <1>9, <1>16
    <3>. QED  BY <3>1, <3>2, <1>10
  <2>4. ASSUME NEW i \in 1 .. n + 1, NEW k \in 1 .. i
        PROVE  Anchor(S[k]) <= Anchor(S[i])
    <3>1. CASE i \in 1 .. n
      <4>1. k \in 1 .. n
        BY <3>1, <1>9
      <4>. QED  BY <3>1, <4>1, <2>1, <1>9 DEF Anchored, n
    <3>2. CASE i = n + 1 /\ k \in 1 .. n
      BY <3>2, <2>2, <1>9
    <3>3. CASE i = n + 1 /\ k = n + 1
      BY <3>3, <1>9, <1>16
    <3>4. k = n + 1 \/ k \in 1 .. n
      BY <1>9
    <3>. QED  BY <3>1, <3>2, <3>3, <3>4, <1>10
  <2>. QED  BY <2>3, <2>4, <1>9 DEF Anchored
<1>18. Fit(d, prefix, S, t)
  BY <1>13, <1>14, <1>15, <1>17 DEF Fit
<1>. QED  BY <1>1, <1>2, <1>6, <1>11, <1>18 DEF Good, S

\* Checkpoint e restored on predictor c, the start checkpoint of the symbol in
\* progress given up.
RestoredOn(c, e) ==
  IF e.prefix.start # << >> THEN Replayed(RolledBack(c, e.mark), e.prefix)
  ELSE [core |-> RolledBack(c, e.mark), prefix |-> e.prefix]

\* Restoring e holds some stream; it is the one that the anchor of e leads to,
\* and the lengths below the anchor lead where they led.
Revives(c, e, r, t) ==
  /\ Sound(r.core) /\ Holds(r.core, r.prefix, t)
  /\ r.core.depth = c.depth + Len(e.prefix.start)
  /\ Shape(r.prefix) /\ Startable(r.prefix) /\ PartialOf(r.prefix) = PartialOf(e.prefix)
  /\ Len(r.prefix.start) = Len(e.prefix.start)
  /\ Anchor(e) <= e.mark.len =>
       /\ \A v : Leads(c, Anchor(e), v) => t = v
       /\ \A n, v : Leads(c, n, v) /\ n <= Anchor(e) =>
            /\ Leads(r.core, n, v)
            /\ r.prefix.start # << >> => n <= r.prefix.start[1].len

LEMMA RevivesUnstarted ==
  ASSUME NEW c, Sound(c), NEW e, SavedWell(e), e.prefix.start = << >>
  PROVE  Revives(c, e, RestoredOn(c, e), RolledBack(c, e.mark).tree)
<1>. DEFINE b == RolledBack(c, e.mark)
            r == RestoredOn(c, e)
<1>1. /\ e.mark \in Marks /\ Shape(e.prefix) /\ e.prefix \in Prefixes /\ Startable(e.prefix)
      /\ e.mark.progress = ProgressIn(e.prefix)
  BY DEF SavedWell, Saves, Shape
<1>2. /\ Sound(b) /\ b.depth = c.depth /\ b.progress = e.mark.progress
      /\ \A n, t : Leads(c, n, t) /\ n <= e.mark.len => Leads(b, n, t)
      /\ \A t : Leads(c, e.mark.len, t) => b.tree = t
  BY <1>1, RolledBackFacts
<1>3. r.core = b /\ r.prefix = e.prefix
  BY DEF RestoredOn
<1>4. b.tree \in Seq(Ops) /\ b.depth \in Nat
  BY <1>2, SoundFacts
<1>. HIDE DEF b, r
<1>5. InFlight(e.prefix) = << >>
  BY <1>1 DEF Startable, InFlight
<1>6. Holds(b, e.prefix, b.tree)
  BY <1>1, <1>2, <1>4, <1>5, EmptySymbol, ConcatEmptySeq DEF Holds
<1>7. Len(e.prefix.start) = 0 /\ c.depth \in Nat
  BY <1>2, <1>4, EmptySeq
<1>8. Anchor(e) = e.mark.len
  BY DEF Anchor
<1>9. r.core.depth = c.depth + Len(e.prefix.start)
  BY <1>2, <1>3, <1>7
<1>. QED  BY <1>1, <1>2, <1>3, <1>6, <1>8, <1>9 DEF Revives, b, r

LEMMA RevivesStarted ==
  ASSUME NEW c, Sound(c), NEW e, SavedWell(e), e.prefix.start # << >>
  PROVE  \E t : Revives(c, e, RestoredOn(c, e), t)
<1>. DEFINE p == e.prefix
            a == p.start[1]
            b == RolledBack(c, e.mark)
            held == Checkpointed(b)
            back == RolledBack(held, a)
            begun == Progress(back, None)
            fresh == MarkOf(begun)
            kept == Checkpointed(begun)
            open == Progress(kept, 0)
            fed == ObserveNativeBits(open, p.bits)
            d == Discarded(fed)
            q == [p EXCEPT !.start = <<fresh>>]
            r == RestoredOn(c, e)
<1>1. /\ e.mark \in Marks /\ Shape(p) /\ p \in Prefixes /\ Len(p.start) <= 1
      /\ p.kind = "native" /\ p.bits \in Seq(BOOLEAN)
  BY DEF SavedWell, Saves, Shape, Prefixes
<1>2. a \in Marks /\ Len(p.start) \in Nat \ {0}
  BY <1>1, StartMark
<1>3. Len(p.start) = 1
  <2>. DEFINE l == Len(p.start)
  <2>1. l \in Nat \ {0} /\ l <= 1
    BY <1>1, <1>2
  <2>. HIDE DEF l
  <2>2. l = 1
    BY <2>1
  <2>. QED  BY <2>2 DEF l
<1>4. r.core = d /\ r.prefix = q
  BY DEF RestoredOn, Replayed
<1>. HIDE DEF r
<1>5. /\ Sound(b) /\ b.depth = c.depth
      /\ \A n, t : Leads(c, n, t) /\ n <= e.mark.len => Leads(b, n, t)
  BY <1>1, RolledBackFacts
<1>. HIDE DEF b
<1>6. b \in Cores /\ c.depth \in Nat
  BY <1>5 DEF Sound, Cores
<1>7. held \in Cores /\ held.tree = b.tree /\ held.journal = b.journal /\ held.depth = b.depth + 1
  BY <1>6, CoreParts
<1>. HIDE DEF held
<1>8. Sound(held) /\ \A n, t : Leads(b, n, t) => Leads(held, n, t)
  BY <1>5, <1>7, SameStream
<1>9. /\ Sound(back) /\ back.depth = held.depth
      /\ \A n, t : Leads(held, n, t) /\ n <= a.len => Leads(back, n, t)
      /\ \A t : Leads(held, a.len, t) => back.tree = t
  BY <1>2, <1>8, RolledBackFacts
<1>. HIDE DEF back, a
<1>10. /\ begun \in Cores /\ begun.tree = back.tree /\ begun.journal = back.journal
       /\ begun.depth = back.depth
  <2>1. back \in Cores /\ None \in Int
    BY <1>9 DEF Sound, None
  <2>. QED  BY <2>1, CoreParts
<1>. HIDE DEF begun
<1>11. Sound(begun) /\ \A n, t : Leads(back, n, t) => Leads(begun, n, t)
  BY <1>9, <1>10, SameStream
<1>12. fresh \in Marks /\ fresh.len = Len(begun.journal)
  BY <1>10, CoreParts
<1>13. /\ kept \in Cores /\ kept.tree = begun.tree /\ kept.journal = begun.journal
       /\ kept.depth = begun.depth + 1
  BY <1>10, CoreParts
<1>. HIDE DEF kept
<1>14. /\ open \in Cores /\ open.tree = begun.tree /\ open.journal = begun.journal
       /\ open.depth = begun.depth + 1 /\ open.progress = 0
  <2>1. 0 \in Int
    OBVIOUS
  <2>. QED  BY <2>1, <1>13, CoreParts
<1>. HIDE DEF open
<1>15. Sound(open) /\ \A n, t : Leads(begun, n, t) => Leads(open, n, t)
  BY <1>11, <1>14, SameStream
<1>16. /\ Sound(fed) /\ fed.tree = open.tree \o Symbol("adaptive", p.bits)
       /\ fed.depth = open.depth /\ fed.progress = open.progress + Len(p.bits)
       /\ open.depth > 0 => \A n, t : Leads(open, n, t) => Leads(fed, n, t)
  BY <1>1, <1>15, ObserveFacts
<1>17. begun.depth = c.depth + 1 /\ open.depth = c.depth + 2
  BY <1>5, <1>6, <1>7, <1>9, <1>10, <1>14
<1>. HIDE DEF fed
<1>18. /\ d \in Cores /\ d.tree = fed.tree /\ d.journal = fed.journal /\ d.progress = fed.progress
       /\ d.depth = IF fed.depth = 0 THEN 0 ELSE fed.depth - 1
  BY <1>16, CoreParts DEF Sound
<1>. HIDE DEF d
<1>19. Sound(d) /\ \A n, t : Leads(fed, n, t) => Leads(d, n, t)
  BY <1>16, <1>18, SameStream
<1>20. d.depth = c.depth + Len(p.start)
  BY <1>3, <1>6, <1>16, <1>17, <1>18
<1>21. \A n, t : Leads(begun, n, t) => Leads(d, n, t)
  <2>1. open.depth > 0
    BY <1>6, <1>17
  <2>. QED  BY <2>1, <1>15, <1>16, <1>19
<1>22. /\ q \in Prefixes /\ q.kind = "native" /\ q.bits = p.bits /\ q.mode = p.mode
       /\ q.start = <<fresh>> /\ q.start # << >> /\ Len(q.start) = 1 /\ q.start[1] = fresh
  <2>. HIDE DEF fresh, p
  <2>. DEFINE k == <<fresh>>
  <2>1. k \in Seq(Marks) /\ Len(k) = 1 /\ k # << >> /\ k[1] = fresh
    BY <1>12
  <2>. HIDE DEF k
  <2>2. q = [p EXCEPT !.start = k]
    BY DEF k
  <2>3. /\ q \in Prefixes /\ q.kind = "native" /\ q.bits = p.bits /\ q.mode = p.mode
        /\ q.start = k
    BY <2>1, <2>2, <1>1 DEF Prefixes
  <2>. QED  BY <2>1, <2>3 DEF k
<1>. HIDE DEF q, fresh
<1>23. Shape(q) /\ Startable(q) /\ PartialOf(q) = PartialOf(p)
  <2>1. Shape(q)
    <3>1. Len(q.start) <= 1 /\ Len(q.bits) < Width /\ (q.bits # << >> => q.mode \in Modes)
      BY <1>1, <1>22 DEF Shape
    <3>. QED  BY <3>1, <1>22 DEF Shape
  <2>. QED  BY <2>1, <1>22 DEF Startable, PartialOf
<1>24. Holds(d, q, begun.tree)
  <2>1. begun.tree \in Seq(Ops)
    BY <1>10 DEF Cores
  <2>2. Leads(d, q.start[1].len, begun.tree)
    BY <1>11, <1>12, <1>21, <1>22, LeadsNow
  <2>3. d.tree = begun.tree \o Symbol("adaptive", InFlight(q))
    BY <1>14, <1>16, <1>18, <1>22 DEF InFlight
  <2>4. d.progress = ProgressIn(q)
    <3>1. Len(p.bits) \in Nat
      BY <1>1, LenProperties
    <3>2. d.progress = Len(p.bits)
      BY <3>1, <1>14, <1>16, <1>18
    <3>. QED  BY <3>2, <1>22 DEF ProgressIn
  <2>. QED  BY <2>1, <2>2, <2>3, <2>4 DEF Holds
<1>25. Anchor(e) = a.len
  BY DEF Anchor, a
<1>26. ASSUME Anchor(e) <= e.mark.len
       PROVE  /\ \A v : Leads(c, Anchor(e), v) => begun.tree = v
              /\ \A n, v : Leads(c, n, v) /\ n <= Anchor(e) =>
                   /\ Leads(d, n, v)
                   /\ q.start # << >> => n <= q.start[1].len
  <2>1. \A n, v : Leads(c, n, v) /\ n <= Anchor(e) => Leads(held, n, v)
    <3>. SUFFICES ASSUME NEW n, NEW v, Leads(c, n, v), n <= Anchor(e) PROVE Leads(held, n, v)
      OBVIOUS
    <3>1. n <= e.mark.len
      <4>1. n \in Nat /\ Anchor(e) \in Nat /\ e.mark.len \in Nat
        BY <1>1, <1>2, <1>25 DEF Leads, Marks, a
      <4>. QED  BY <4>1, <1>26
    <3>. QED  BY <3>1, <1>5, <1>8
  <2>2. a.len <= a.len
    <3>1. a.len \in Nat
      BY <1>2 DEF Marks, a
    <3>. QED  BY <3>1
  <2>3. \A v : Leads(c, Anchor(e), v) => begun.tree = v
    BY <2>1, <2>2, <1>9, <1>10, <1>25
  <2>4. \A n, v : Leads(c, n, v) /\ n <= Anchor(e) => Leads(begun, n, v)
    BY <2>1, <1>9, <1>11, <1>25
  <2>5. \A n, v : Leads(begun, n, v) => n <= q.start[1].len
    BY <1>12, <1>22 DEF Leads
  <2>. QED  BY <2>3, <2>4, <2>5, <1>21
<1>27. Len(q.start) = Len(p.start)
  BY <1>3, <1>22
<1>28. Revives(c, e, r, begun.tree)
  BY <1>4, <1>19, <1>20, <1>23, <1>24, <1>26, <1>27 DEF Revives
<1>. QED  BY <1>28 DEF r

LEMMA RevivesSome ==
  ASSUME NEW c, Sound(c), NEW e, SavedWell(e)
  PROVE  \E t : Revives(c, e, RestoredOn(c, e), t)
<1>1. CASE e.prefix.start = << >>
  BY <1>1, RevivesUnstarted
<1>2. CASE e.prefix.start # << >>
  BY <1>2, RevivesStarted
<1>. QED  BY <1>1, <1>2

\* Giving up the start checkpoint of the symbol in progress.
LEMMA ReleasedFacts ==
  ASSUME NEW t, Good(core, prefix, saved, t), saved # << >>
  PROVE  /\ Sound(Released(core)) /\ Released(core).depth = core.depth - Len(prefix.start)
         /\ \A n, v : Leads(core, n, v) => Leads(Released(core), n, v)
<1>. DEFINE d == Released(core)
<1>1. /\ Sound(core) /\ core \in Cores /\ Shape(prefix) /\ prefix \in Prefixes
      /\ Counted(core.depth, prefix, saved) /\ saved \in Seq(Saves) /\ core.depth \in Nat
  BY DEF Good, Fit, Shape, SaveList, Sound, Cores
<1>2. d = IF prefix.start # << >> THEN Discarded(core) ELSE core
  BY <1>1 DEF Released, HasStart, Shape
<1>. HIDE DEF d
<1>3. d \in Cores /\ d.tree = core.tree /\ d.journal = core.journal
  BY <1>1, <1>2, CoreParts
<1>4. d.depth = core.depth - Len(prefix.start)
  <2>1. CASE prefix.start = << >>
    <3>1. Len(prefix.start) = 0
      BY <2>1, EmptySeq
    <3>. QED  BY <2>1, <3>1, <1>1, <1>2
  <2>2. CASE prefix.start # << >>
    <3>. DEFINE l == Len(prefix.start)
    <3>1. l \in Nat \ {0} /\ l <= 1
      BY <2>2, <1>1, StartMark DEF Shape
    <3>. HIDE DEF l
    <3>2. l = 1
      BY <3>1
    <3>3. core.depth > 0
      BY <1>1, <2>2, Journaled
    <3>4. d.depth = core.depth - 1
      BY <2>2, <3>3, <1>1, <1>2, CoreParts
    <3>. QED  BY <3>2, <3>4 DEF l
  <2>. QED  BY <2>1, <2>2
<1>. QED  BY <1>1, <1>3, <1>4, SameStream DEF d

LEMMA RestoreEffect ==
  ASSUME NEW t, Good(core, prefix, saved, t), NEW i \in 1 .. Len(saved),
         NEW S, S = IF Nested THEN SubSeq(saved, 1, i) ELSE saved
  PROVE  \E u : /\ Good(Restored(i).core, Restored(i).prefix, S, u)
                /\ Startable(Restored(i).prefix)
                /\ Nested => /\ u = saved[i].seen.committed
                             /\ PartialOf(Restored(i).prefix) = saved[i].seen.partial
<1>. DEFINE e == saved[i]
            c == Released(core)
            r == Restored(i)
            n == Len(saved)
<1>1. /\ Sound(core) /\ Shape(prefix) /\ prefix \in Prefixes /\ SaveList(saved)
      /\ Counted(core.depth, prefix, saved) /\ saved \in Seq(Saves) /\ core.depth \in Nat
      /\ Fit(core, prefix, saved, t)
  BY DEF Good, Fit, Shape, SaveList, Sound, Cores
<1>2. n \in Nat /\ i \in Nat /\ 1 <= i /\ i <= n
  BY <1>1
<1>3. saved # << >>
  <2>1. Len(<< >>) = 0
    BY EmptySeq
  <2>. QED  BY <2>1, <1>2
<1>4. SavedWell(e)
  BY <1>1 DEF SaveList
<1>5. /\ Sound(c) /\ c.depth = core.depth - Len(prefix.start)
      /\ \A l, v : Leads(core, l, v) => Leads(c, l, v)
  BY <1>3, ReleasedFacts
<1>6. r = RestoredOn(c, e)
  BY <1>4 DEF Restored, RestoredOn, HasStart, SavedWell, Shape
<1>. HIDE DEF c, r, e
<1>7. PICK u : Revives(c, e, r, u)
  BY <1>4, <1>5, <1>6, RevivesSome
<1>8. /\ Sound(r.core) /\ Holds(r.core, r.prefix, u)
      /\ r.core.depth = c.depth + Len(e.prefix.start)
      /\ Shape(r.prefix) /\ Startable(r.prefix) /\ PartialOf(r.prefix) = PartialOf(e.prefix)
      /\ Len(r.prefix.start) = Len(e.prefix.start)
  BY <1>7 DEF Revives
<1>9. /\ S \in Seq(Saves) /\ Len(S) \in Nat /\ 1 <= Len(S) /\ Len(S) <= n
      /\ \A k \in 1 .. Len(S) : S[k] = saved[k] /\ k \in 1 .. n
      /\ Nested => Len(S) = i
  <2>1. CASE Nested
    <3>1. S = SubSeq(saved, 1, i) /\ i \in 0 .. Len(saved)
      BY <2>1, <1>2
    <3>2. /\ S \in Seq(Saves) /\ Len(S) = i /\ \A k \in 1 .. i : S[k] = saved[k]
      BY <3>1, <1>1, SubSeqFront
    <3>. QED  BY <3>2, <1>2
  <2>2. CASE ~Nested
    BY <2>2, <1>1, <1>2
  <2>. QED  BY <2>1, <2>2
<1>10. SaveList(S)
  BY <1>1, <1>9 DEF SaveList, n
<1>11. Counted(r.core.depth, r.prefix, S)
  <2>. DEFINE a == Len(prefix.start)
              b == Len(e.prefix.start)
              l == Len(S)
  <2>1. a \in Nat /\ b \in Nat
    <3>1. prefix.start \in Seq(Marks) /\ e.prefix.start \in Seq(Marks)
      BY <1>1, <1>4 DEF SavedWell, Shape, Prefixes
    <3>. QED  BY <3>1, LenProperties
  <2>2. n + a <= core.depth /\ r.core.depth = (core.depth - a) + b /\ Len(r.prefix.start) = b
    BY <1>1, <1>5, <1>8 DEF Counted
  <2>3. l \in Nat /\ 1 <= l /\ l <= n /\ n \in Nat /\ core.depth \in Nat
    BY <1>1, <1>2, <1>9
  <2>. HIDE DEF a, b, l, n
  <2>4. l + b <= (core.depth - a) + b
    BY <2>1, <2>2, <2>3
  <2>5. S # << >>
    BY <2>3, EmptySeq DEF l
  <2>. QED  BY <2>2, <2>4, <2>5 DEF Counted, l
<1>12. ASSUME Nested
       PROVE  Anchored(r.core, r.prefix, S) /\ u = e.seen.committed
              /\ PartialOf(e.prefix) = e.seen.partial
  <2>1. Anchored(core, prefix, saved)
    BY <1>1, <1>12 DEF Fit
  <2>2. \A k \in 1 .. n : /\ Leads(core, Anchor(saved[k]), saved[k].seen.committed)
                          /\ Anchor(saved[k]) <= saved[k].mark.len
                          /\ saved[k].seen.partial = PartialOf(saved[k].prefix)
    BY <2>1 DEF Anchored, n
  <2>3. \A k \in 1 .. n : \A j \in 1 .. k : Anchor(saved[j]) <= Anchor(saved[k])
    BY <2>1 DEF Anchored, n
  <2>4. Leads(c, Anchor(e), e.seen.committed) /\ Anchor(e) <= e.mark.len
        /\ PartialOf(e.prefix) = e.seen.partial
    BY <2>2, <1>5 DEF e, n
  <2>5. \A k, v : Leads(c, k, v) /\ k <= Anchor(e) =>
          /\ Leads(r.core, k, v)
          /\ r.prefix.start # << >> => k <= r.prefix.start[1].len
    BY <2>4, <1>7 DEF Revives
  <2>6. u = e.seen.committed
    BY <2>4, <1>7 DEF Revives
  <2>7. Len(S) = i /\ \A k \in 1 .. i : S[k] = saved[k] /\ k \in 1 .. n
    BY <1>9, <1>12
  <2>8. ASSUME NEW k \in 1 .. i
        PROVE  /\ Leads(r.core, Anchor(S[k]), S[k].seen.committed)
               /\ Anchor(S[k]) <= S[k].mark.len
               /\ S[k].seen.partial = PartialOf(S[k].prefix)
               /\ r.prefix.start # << >> => Anchor(S[k]) <= r.prefix.start[1].len
    <3>1. S[k] = saved[k] /\ k \in 1 .. n
      BY <2>7
    <3>2. Anchor(saved[k]) <= Anchor(e)
      BY <2>3, <1>2 DEF e
    <3>3. Leads(c, Anchor(saved[k]), saved[k].seen.committed)
      BY <3>1, <2>2, <1>5
    <3>. QED  BY <3>1, <3>2, <3>3, <2>2, <2>5
  <2>9. \A k \in 1 .. i : \A j \in 1 .. k : Anchor(S[j]) <= Anchor(S[k])
    <3>. SUFFICES ASSUME NEW k \in 1 .. i, NEW j \in 1 .. k PROVE Anchor(S[j]) <= Anchor(S[k])
      OBVIOUS
    <3>1. j \in 1 .. i
      BY <1>2
    <3>. QED  BY <3>1, <2>3, <2>7
  <2>10. Anchored(r.core, r.prefix, S)
    BY <2>7, <2>8, <2>9 DEF Anchored
  <2>. QED  BY <2>4, <2>6, <2>10
<1>13. Fit(r.core, r.prefix, S, u)
  BY <1>8, <1>11, <1>12 DEF Fit
<1>14. Good(r.core, r.prefix, S, u)
  BY <1>8, <1>10, <1>13 DEF Good
<1>. QED  BY <1>8, <1>12, <1>14 DEF r, e

-----------------------------------------------------------------------------
(* The inductive invariant *)

LEMMA GoodIs ==
  ASSUME NEW c, NEW p, NEW s, NEW t, Good(c, p, s, t)
  PROVE  /\ Observed(c, p).committed = t /\ Observed(c, p).partial = PartialOf(p)
         /\ Observed(c, p) = [committed |-> t, partial |-> PartialOf(p)]
         /\ t \in Seq(Ops)
<1>1. p \in Prefixes /\ Holds(c, p, t)
  BY DEF Good, Shape, Fit
<1>2. Observed(c, p).committed = t /\ Observed(c, p).partial = PartialOf(p)
  BY <1>1, ObservedIs
<1>. QED  BY <1>1, <1>2 DEF Observed, PartialOf, Holds

\* The next state fits around u.
LEMMA Settled ==
  ASSUME NEW u, Good(core', prefix', saved', u), native' \in BOOLEAN, scoped' \in BOOLEAN,
         ~scoped' => Startable(prefix')
  PROVE  /\ IInv' /\ Observed(core, prefix).committed' = u
         /\ Observed(core, prefix).partial' = PartialOf(prefix')
<1>1. Observed(core', prefix').committed = u /\ Observed(core', prefix').partial = PartialOf(prefix')
  BY GoodIs
<1>2. Good(core', prefix', saved', Observed(core', prefix').committed)
  BY <1>1
<1>. QED  BY <1>1, <1>2 DEF IInv

LEMMA IInvFacts ==
  ASSUME IInv
  PROVE  /\ Good(core, prefix, saved, Observed(core, prefix).committed)
         /\ native \in BOOLEAN /\ scoped \in BOOLEAN
         /\ ~scoped => Startable(prefix)
         /\ saved \in Seq(Saves) /\ DOMAIN saved = 1 .. Len(saved)
         /\ Observed(core, prefix).partial = PartialOf(prefix)
<1>1. Good(core, prefix, saved, Observed(core, prefix).committed) /\ saved \in Seq(Saves)
  BY DEF IInv, Good, SaveList
<1>2. DOMAIN saved = 1 .. Len(saved)
  BY <1>1
<1>3. Observed(core, prefix).partial = PartialOf(prefix)
  BY <1>1, GoodIs
<1>. QED  BY <1>1, <1>2, <1>3 DEF IInv

LEMMA InitGood == Init => IInv
<1>. SUFFICES ASSUME Init PROVE IInv
  OBVIOUS
<1>1. core = NewCore /\ prefix = NoPrefix /\ saved = << >> /\ native \in BOOLEAN /\ scoped = FALSE
  BY DEF Init
<1>2. << >> \in Seq(Ops) /\ << >> \in Seq(Nat) /\ << >> \in Seq(Saves) /\ Len(<< >>) = 0
  BY EmptySeq
<1>3. /\ NewCore \in Cores /\ NewCore.tree = << >> /\ NewCore.journal = << >>
      /\ NewCore.depth = 0 /\ NewCore.progress = None
  BY <1>2 DEF NewCore, Cores, None
<1>4. 1 .. Len(<< >>) = {}
  BY <1>2
<1>5. Sound(NewCore)
  BY <1>2, <1>3, <1>4 DEF Sound, Rising, Logged, Upto
<1>6. Holds(NewCore, NoPrefix, << >>)
  <2>1. << >> = << >> \o Symbol("adaptive", << >>)
    BY <1>2, EmptySymbol, ConcatEmptySeq
  <2>. QED  BY <1>2, <1>3, <2>1, NoPrefixFacts DEF Holds
<1>7. Counted(NewCore.depth, NoPrefix, << >>)
  BY <1>2, <1>3, NoPrefixFacts DEF Counted
<1>8. Good(NewCore, NoPrefix, << >>, << >>)
  BY <1>2, <1>4, <1>5, <1>6, <1>7, NoPrefixFacts, NoneAnchored DEF Good, Fit, SaveList
<1>9. Observed(NewCore, NoPrefix).committed = << >>
  BY <1>8, GoodIs
<1>. QED  BY <1>1, <1>8, <1>9, NoPrefixFacts DEF IInv

\* Each action, through the streams it leaves.
LEMMA FeedStep ==
  ASSUME IInv, NEW mode \in Modes, NEW bit \in BOOLEAN, FeedBit(mode, bit)
  PROVE  IInv'
<1>. DEFINE t == Observed(core, prefix).committed
            bits == Append(prefix.bits, bit)
<1>1. Good(core, prefix, saved, t) /\ (~scoped => Startable(prefix))
  BY IInvFacts
<1>2. Feeding(mode, bit) /\ native' = native /\ scoped' = scoped /\ saved' = saved
  BY DEF FeedBit
<1>3. native' \in BOOLEAN /\ scoped' \in BOOLEAN
  BY <1>2 DEF IInv
<1>. HIDE DEF t
<1>4. CASE core' = core /\ prefix' = prefix
  BY <1>1, <1>2, <1>3, <1>4, Settled
<1>5. CASE Good(core', prefix', saved, t \o Symbol(mode, bits)) /\ Startable(prefix')
  BY <1>2, <1>3, <1>5, Settled
<1>6. CASE Good(core', prefix', saved, t) /\ (~scoped => Startable(prefix'))
  BY <1>2, <1>3, <1>6, Settled
<1>. QED  BY <1>1, <1>2, <1>4, <1>5, <1>6, FeedEffect

LEMMA PredictStep == ASSUME IInv, PredictBit PROVE IInv'
<1>1. Good(core, prefix, saved, Observed(core, prefix).committed)
  BY IInvFacts
<1>2. native' = native /\ scoped' = scoped /\ saved' = saved
  BY DEF PredictBit
<1>. QED  BY <1>1, <1>2, PredictEffect, Settled DEF IInv

LEMMA TakeStep == ASSUME IInv, TakeCheckpoint PROVE IInv'
<1>1. Good(core, prefix, saved, Observed(core, prefix).committed) /\ Startable(prefix)
  BY IInvFacts DEF TakeCheckpoint
<1>2. native' = native /\ scoped' = scoped
  BY DEF TakeCheckpoint
<1>. QED  BY <1>1, <1>2, TakeEffect, Settled DEF IInv

LEMMA RestoreStep ==
  ASSUME IInv, NEW i \in DOMAIN saved, RestoreCheckpoint(i)
  PROVE  /\ IInv'
         /\ Nested => Observed(core, prefix)' = saved[i].seen
<1>. DEFINE S == IF Nested THEN SubSeq(saved, 1, i) ELSE saved
<1>1. /\ Good(core, prefix, saved, Observed(core, prefix).committed)
      /\ i \in 1 .. Len(saved) /\ saved \in Seq(Saves)
  BY IInvFacts
<1>2. /\ core' = Restored(i).core /\ prefix' = Restored(i).prefix /\ saved' = S
      /\ native' = native /\ scoped' = scoped
  BY DEF RestoreCheckpoint
<1>. HIDE DEF S
<1>3. PICK u : /\ Good(Restored(i).core, Restored(i).prefix, S, u)
               /\ Startable(Restored(i).prefix)
               /\ Nested => /\ u = saved[i].seen.committed
                            /\ PartialOf(Restored(i).prefix) = saved[i].seen.partial
  BY <1>1, RestoreEffect DEF S
<1>4. Good(core', prefix', saved', u) /\ Startable(prefix')
  BY <1>2, <1>3
<1>5. IInv'
  BY <1>2, <1>4, Settled DEF IInv
<1>6. Observed(core', prefix') = [committed |-> u, partial |-> PartialOf(prefix')]
  BY <1>4, GoodIs
<1>7. saved[i].seen = [committed |-> saved[i].seen.committed, partial |-> saved[i].seen.partial]
  <2>1. saved[i] \in Saves
    BY <1>1
  <2>. QED  BY <2>1 DEF Saves
<1>. QED  BY <1>2, <1>3, <1>5, <1>6, <1>7

LEMMA ClearStep == ASSUME IInv, ClearCheckpoints PROVE IInv'
<1>1. Good(core, prefix, saved, Observed(core, prefix).committed) /\ Startable(prefix)
  BY IInvFacts DEF ClearCheckpoints
<1>2. native' = native /\ scoped' = scoped
  BY DEF ClearCheckpoints
<1>. QED  BY <1>1, <1>2, ClearEffect, Settled DEF IInv

LEMMA ResetStep == ASSUME IInv, ResetFrozen PROVE IInv'
<1>1. Good(core, prefix, saved, Observed(core, prefix).committed) /\ Startable(prefix)
  BY IInvFacts DEF ResetFrozen
<1>2. native' = native /\ scoped' = scoped /\ saved' = saved
  BY DEF ResetFrozen
<1>. QED  BY <1>1, <1>2, ResetEffect, NoPrefixFacts, Settled DEF IInv

LEMMA FinishStep == ASSUME IInv, Finish PROVE IInv'
<1>1. Good(core, prefix, saved, Observed(core, prefix).committed) /\ (~scoped => Startable(prefix))
  BY IInvFacts
<1>2. native' = native /\ scoped' = scoped /\ saved' = saved
  BY DEF Finish
<1>. QED  BY <1>1, <1>2, FinishEffect, Settled DEF IInv

LEMMA Steps == IInv /\ [Next]_vars => IInv'
<1>. SUFFICES ASSUME IInv, [Next]_vars PROVE IInv'
  OBVIOUS
<1>1. ASSUME NEW mode \in Modes, NEW bit \in BOOLEAN, FeedBit(mode, bit) PROVE IInv'
  BY <1>1, FeedStep
<1>2. ASSUME NEW i \in DOMAIN saved, RestoreCheckpoint(i) PROVE IInv'
  BY <1>2, RestoreStep
<1>3. CASE BeginDiscardableScope
  BY <1>3 DEF BeginDiscardableScope, IInv
<1>4. CASE UNCHANGED vars
  BY <1>4 DEF vars, IInv
<1>. QED  BY <1>1, <1>2, <1>3, <1>4, PredictStep, TakeStep, ClearStep, ResetStep, FinishStep DEF Next

\* The predictor, the symbol in progress and the checkpoints always fit together.
THEOREM Inductive == Spec => []IInv
BY InitGood, Steps, PTL DEF Spec

\* PrefixAgrees: the predictor is where the symbol in progress is.
THEOREM PrefixIsAgreed == Spec => []PrefixAgrees
<1>1. IInv => PrefixAgrees
  <2>. SUFFICES ASSUME IInv PROVE PrefixAgrees
    OBVIOUS
  <2>. DEFINE t == Observed(core, prefix).committed
  <2>1. Holds(core, prefix, t)
    BY IInvFacts DEF Good, Fit
  <2>. HIDE DEF t
  <2>2. core.tree = t \o Symbol("adaptive", InFlight(prefix)) /\ core.progress = ProgressIn(prefix)
    BY <2>1 DEF Holds
  <2>. QED  BY <2>2 DEF PrefixAgrees, InNative, InFlight, ProgressIn, t
<1>. QED  BY <1>1, Inductive, PTL

\* StartRecoverable: the start of the symbol in progress can be gone back to.
THEOREM StartIsRecoverable == Spec => []StartRecoverable
<1>1. IInv => StartRecoverable
  <2>. SUFFICES ASSUME IInv, HasStart(prefix)
                PROVE  RolledBack(core, prefix.start[1]).tree = Observed(core, prefix).committed
    BY DEF StartRecoverable
  <2>. DEFINE t == Observed(core, prefix).committed
              m == prefix.start[1]
  <2>1. Sound(core) /\ Holds(core, prefix, t) /\ prefix \in Prefixes
    BY IInvFacts DEF Good, Fit, Shape
  <2>2. prefix.start # << >>
    BY DEF HasStart
  <2>3. m \in Marks
    BY <2>1, <2>2 DEF Prefixes
  <2>. HIDE DEF t
  <2>4. Leads(core, m.len, t)
    BY <2>1, <2>2 DEF Holds
  <2>. HIDE DEF m
  <2>. QED  BY <2>1, <2>3, <2>4, RolledBackFacts DEF m, t
<1>. QED  BY <1>1, Inductive, PTL

\* DepthAccounted: the journal is on exactly while something may be rolled back.
THEOREM DepthIsAccounted == Spec => []DepthAccounted
<1>1. IInv => DepthAccounted
  <2>. SUFFICES ASSUME IInv PROVE DepthAccounted
    OBVIOUS
  <2>1. /\ Counted(core.depth, prefix, saved) /\ core.depth \in Nat
        /\ prefix \in Prefixes /\ saved \in Seq(Saves)
        /\ prefix.kind # "native" => prefix.start = << >>
    BY IInvFacts DEF Good, Fit, Shape, Sound, Cores
  <2>2. saved = << >> => core.depth = Len(prefix.start)
    BY <2>1 DEF Counted
  <2>3. saved # << >> \/ HasStart(prefix) => core.depth > 0
    BY <2>1, Journaled DEF HasStart
  <2>4. ASSUME core.depth > 0, saved = << >> PROVE HasStart(prefix)
    <3>1. prefix.start # << >>
      BY <2>2, <2>4, EmptySeq
    <3>. QED  BY <2>1, <3>1 DEF HasStart
  <2>. QED  BY <2>2, <2>3, <2>4 DEF DepthAccounted
<1>. QED  BY <1>1, Inductive, PTL

\* RestoreExact: if restoring a checkpoint abandons the later ones, every
\* checkpoint restores the stream it was captured from.
THEOREM RestoreIsExact == ASSUME Nested PROVE Spec => []RestoreExact
<1>1. IInv => RestoreExact
  <2>. SUFFICES ASSUME IInv, NEW i \in DOMAIN saved
                PROVE  Observed(Restored(i).core, Restored(i).prefix) = saved[i].seen
    BY DEF RestoreExact
  <2>1. /\ Good(core, prefix, saved, Observed(core, prefix).committed)
        /\ i \in 1 .. Len(saved) /\ saved \in Seq(Saves)
    BY IInvFacts
  <2>2. PICK u : /\ Good(Restored(i).core, Restored(i).prefix, SubSeq(saved, 1, i), u)
                 /\ u = saved[i].seen.committed
                 /\ PartialOf(Restored(i).prefix) = saved[i].seen.partial
    BY <2>1, RestoreEffect
  <2>3. Observed(Restored(i).core, Restored(i).prefix)
          = [committed |-> saved[i].seen.committed, partial |-> saved[i].seen.partial]
    BY <2>2, GoodIs
  <2>4. saved[i].seen = [committed |-> saved[i].seen.committed, partial |-> saved[i].seen.partial]
    <3>1. saved[i] \in Saves
      BY <2>1
    <3>. QED  BY <3>1 DEF Saves
  <2>. QED  BY <2>3, <2>4
<1>. QED  BY <1>1, Inductive, PTL

-----------------------------------------------------------------------------
(* The refinement of the revocable stream *)

Snaps(s) == [i \in DOMAIN s |-> s[i].seen]

LEMMA SameData ==
  /\ Promise!Modes = Modes /\ Promise!ResetMark = ResetMark /\ Promise!NoBits = NoBits
  /\ \A mode, bits : Promise!Symbol(mode, bits) = Symbol(mode, bits)
BY DEF Promise!Modes, Modes, Promise!ResetMark, ResetMark, Promise!NoBits, NoBits,
       Promise!Symbol, Symbol, Promise!Fed, Fed

LEMMA SnapsFacts ==
  ASSUME NEW s \in Seq(Saves)
  PROVE  /\ Len(Snaps(s)) = Len(s) /\ DOMAIN Snaps(s) = 1 .. Len(s)
         /\ \E T : Snaps(s) \in Seq(T)
         /\ \A i \in 1 .. Len(s) : Snaps(s)[i] = s[i].seen
         /\ Snaps(s) = << >> <=> s = << >>
<1>. DEFINE n == Len(s)
            T == [committed : Seq(Ops), partial : Partials]
<1>1. n \in Nat /\ DOMAIN s = 1 .. n /\ \A i \in 1 .. n : s[i] \in Saves
  BY ElementOfSeq
<1>. HIDE DEF n
<1>2. \A i \in 1 .. n : s[i].seen \in T
  BY <1>1 DEF Saves
<1>. HIDE DEF T
<1>3. Snaps(s) \in [1 .. n -> T] /\ \A i \in 1 .. n : Snaps(s)[i] = s[i].seen
  BY <1>1, <1>2 DEF Snaps
<1>4. Snaps(s) \in Seq(T) /\ Len(Snaps(s)) = n
  BY <1>1, <1>3
<1>5. (Snaps(s) = << >> <=> Len(Snaps(s)) = 0) /\ (s = << >> <=> n = 0)
  BY <1>4, EmptySeq DEF n
<1>. QED  BY <1>3, <1>4, <1>5 DEF n

LEMMA SnapsAppend ==
  ASSUME NEW s \in Seq(Saves), NEW e, Append(s, e) \in Seq(Saves)
  PROVE  Snaps(Append(s, e)) = Append(Snaps(s), e.seen)
<1>. DEFINE a == Append(s, e)
            n == Len(s)
<1>1. PICK T : Snaps(s) \in Seq(T)
  BY SnapsFacts
<1>2. /\ Len(a) = n + 1 /\ n \in Nat /\ a[n + 1] = e
      /\ \A i \in 1 .. n : a[i] = s[i]
  OBVIOUS
<1>. DEFINE b == Append(Snaps(s), e.seen)
            U == T \cup {e.seen}
<1>3. Snaps(s) \in Seq(U) /\ e.seen \in U /\ Len(Snaps(s)) = n
  <2>1. Len(Snaps(s)) = n
    BY SnapsFacts
  <2>2. Snaps(s) \in Seq(U)
    BY <1>1
  <2>. QED  BY <2>1, <2>2
<1>4. /\ b \in Seq(U) /\ Len(b) = n + 1 /\ b[n + 1] = e.seen
      /\ \A i \in 1 .. n : b[i] = s[i].seen
  <2>. HIDE DEF U
  <2>1. \A i \in 1 .. n : Snaps(s)[i] = s[i].seen
    BY SnapsFacts
  <2>. QED  BY <1>3, <2>1, AppendProperties
<1>. HIDE DEF a, b, n
<1>5. /\ Len(Snaps(a)) = n + 1 /\ \A i \in 1 .. n + 1 : Snaps(a)[i] = a[i].seen
      /\ \E V : Snaps(a) \in Seq(V)
  BY <1>2, SnapsFacts DEF a
<1>6. \A i \in 1 .. n + 1 : i = n + 1 \/ i \in 1 .. n
  BY <1>2
<1>7. \A i \in 1 .. n + 1 : Snaps(a)[i] = b[i]
  BY <1>2, <1>4, <1>5, <1>6
<1>8. PICK V : Snaps(a) \in Seq(V)
  BY <1>5
<1>9. Snaps(a) = b
  BY <1>4, <1>5, <1>7, <1>8, SeqEqual
<1>. QED  BY <1>9 DEF a, b

LEMMA SnapsFront ==
  ASSUME NEW s \in Seq(Saves), NEW i \in 1 .. Len(s)
  PROVE  Snaps(SubSeq(s, 1, i)) = SubSeq(Snaps(s), 1, i)
<1>. DEFINE a == SubSeq(s, 1, i)
            b == SubSeq(Snaps(s), 1, i)
<1>0. Len(s) \in Nat /\ i \in 0 .. Len(s)
  OBVIOUS
<1>1. a \in Seq(Saves) /\ Len(a) = i /\ \A k \in 1 .. i : a[k] = s[k]
  BY <1>0, SubSeqFront
<1>2. PICK T : Snaps(s) \in Seq(T)
  BY SnapsFacts
<1>3. Len(Snaps(s)) = Len(s) /\ \A k \in 1 .. Len(s) : Snaps(s)[k] = s[k].seen
  BY SnapsFacts
<1>4. b \in Seq(T) /\ Len(b) = i /\ \A k \in 1 .. i : b[k] = Snaps(s)[k]
  BY <1>0, <1>2, <1>3, SubSeqFront
<1>. HIDE DEF a, b
<1>5. Len(Snaps(a)) = i /\ \A k \in 1 .. i : Snaps(a)[k] = a[k].seen
  BY <1>1, SnapsFacts
<1>6. PICK V : Snaps(a) \in Seq(V)
  BY <1>1, SnapsFacts
<1>7. \A k \in 1 .. i : Snaps(a)[k] = b[k]
  BY <1>0, <1>1, <1>3, <1>4, <1>5
<1>8. Snaps(a) = b
  BY <1>4, <1>5, <1>6, <1>7, SeqEqual
<1>. QED  BY <1>8 DEF a, b

LEMMA FeedRefines ==
  ASSUME IInv, NEW mode \in Modes, NEW bit \in BOOLEAN, FeedBit(mode, bit)
  PROVE  Promise!Feed(mode, bit) \/ UNCHANGED Promise!vars
<1>. DEFINE t == Observed(core, prefix).committed
            bits == Append(prefix.bits, bit)
<1>1. /\ Good(core, prefix, saved, t) /\ (~scoped => Startable(prefix))
      /\ Observed(core, prefix).partial = PartialOf(prefix)
  BY IInvFacts
<1>2. Feeding(mode, bit) /\ saved' = saved
  BY DEF FeedBit
<1>3. PartialOf(prefix).bits = prefix.bits /\ (prefix.bits # << >> => PartialOf(prefix).mode = prefix.mode)
  BY DEF PartialOf, NoBits
<1>. HIDE DEF t
<1>4. CASE core' = core /\ prefix' = prefix
  BY <1>2, <1>4 DEF Promise!vars
<1>5. CASE /\ prefix.bits = << >> \/ prefix.mode = mode
           /\ Len(bits) = Width
           /\ Good(core', prefix', saved, t \o Symbol(mode, bits))
           /\ PartialOf(prefix') = NoBits
  <2>1. /\ Observed(core', prefix').committed = t \o Symbol(mode, bits)
        /\ Observed(core', prefix').partial = NoBits
    BY <1>5, GoodIs
  <2>. QED  BY <1>1, <1>2, <1>3, <1>5, <2>1, SameData DEF Promise!Feed, t
<1>6. CASE /\ prefix.bits = << >> \/ prefix.mode = mode
           /\ Len(bits) # Width
           /\ Good(core', prefix', saved, t)
           /\ PartialOf(prefix') = [mode |-> mode, bits |-> bits]
  <2>1. /\ Observed(core', prefix').committed = t
        /\ Observed(core', prefix').partial = [mode |-> mode, bits |-> bits]
    BY <1>6, GoodIs
  <2>. QED  BY <1>1, <1>2, <1>3, <1>6, <2>1 DEF Promise!Feed, t
<1>. QED  BY <1>1, <1>2, <1>4, <1>5, <1>6, FeedEffect

\* What neither feeds nor takes back leaves the stream alone.
LEMMA QuietRefines ==
  ASSUME IInv, PredictBit \/ Finish \/ BeginDiscardableScope \/ UNCHANGED vars
  PROVE  UNCHANGED Promise!vars
<1>. DEFINE t == Observed(core, prefix).committed
<1>1. /\ Good(core, prefix, saved, t) /\ (~scoped => Startable(prefix))
      /\ Observed(core, prefix).partial = PartialOf(prefix)
  BY IInvFacts
<1>. HIDE DEF t
<1>2. CASE PredictBit \/ Finish
  <2>1. Good(core', prefix', saved, t) /\ PartialOf(prefix') = PartialOf(prefix)
    BY <1>1, <1>2, PredictEffect, FinishEffect
  <2>2. Observed(core', prefix').committed = t /\ Observed(core', prefix').partial = PartialOf(prefix)
    BY <2>1, GoodIs
  <2>3. saved' = saved
    BY <1>2 DEF PredictBit, Finish
  <2>. QED  BY <1>1, <2>2, <2>3 DEF Promise!vars, t
<1>3. CASE BeginDiscardableScope \/ UNCHANGED vars
  BY <1>3 DEF BeginDiscardableScope, vars, Promise!vars
<1>. QED  BY <1>2, <1>3

LEMMA TakeRefines ==
  ASSUME IInv, IInv', TakeCheckpoint
  PROVE  Promise!Save
<1>. DEFINE t == Observed(core, prefix).committed
<1>1. /\ Good(core, prefix, saved, t) /\ Startable(prefix) /\ saved \in Seq(Saves)
      /\ Observed(core, prefix).partial = PartialOf(prefix)
  BY IInvFacts DEF TakeCheckpoint
<1>2. saved' \in Seq(Saves)
  BY DEF IInv, Good, SaveList
<1>. HIDE DEF t
<1>3. /\ Good(core', prefix', saved', t) /\ prefix' = prefix
      /\ \E e : saved' = Append(saved, e) /\ e.seen = [committed |-> t, partial |-> PartialOf(prefix)]
  BY <1>1, TakeEffect
<1>4. PICK e : saved' = Append(saved, e) /\ e.seen = [committed |-> t, partial |-> PartialOf(prefix)]
  BY <1>3
<1>5. Observed(core', prefix').committed = t /\ Observed(core', prefix').partial = PartialOf(prefix)
  BY <1>3, GoodIs
<1>6. Snaps(saved') = Append(Snaps(saved), e.seen)
  BY <1>1, <1>2, <1>4, SnapsAppend
<1>. QED  BY <1>1, <1>4, <1>5, <1>6 DEF Promise!Save, Snaps, t

LEMMA RestoreRefines ==
  ASSUME Nested, IInv, NEW i \in DOMAIN saved, RestoreCheckpoint(i)
  PROVE  i \in DOMAIN Snaps(saved) /\ Promise!Restore(i)
<1>1. saved \in Seq(Saves) /\ i \in 1 .. Len(saved)
  BY IInvFacts
<1>2. Observed(core', prefix') = saved[i].seen
  BY RestoreStep
<1>3. saved' = SubSeq(saved, 1, i)
  BY DEF RestoreCheckpoint
<1>4. Snaps(saved') = SubSeq(Snaps(saved), 1, i)
  BY <1>1, <1>3, SnapsFront
<1>5. i \in DOMAIN Snaps(saved) /\ Snaps(saved)[i] = saved[i].seen
  BY <1>1, SnapsFacts
<1>. QED  BY <1>2, <1>4, <1>5 DEF Promise!Restore, Snaps

LEMMA ClearRefines ==
  ASSUME IInv, ClearCheckpoints
  PROVE  Promise!Clear
<1>. DEFINE t == Observed(core, prefix).committed
<1>1. /\ Good(core, prefix, saved, t) /\ Startable(prefix)
      /\ Observed(core, prefix).partial = PartialOf(prefix)
  BY IInvFacts DEF ClearCheckpoints
<1>. HIDE DEF t
<1>2. /\ Good(core', prefix', << >>, t) /\ PartialOf(prefix') = PartialOf(prefix)
      /\ saved' = << >>
  BY <1>1, ClearEffect
<1>3. Observed(core', prefix').committed = t /\ Observed(core', prefix').partial = PartialOf(prefix)
  BY <1>2, GoodIs
<1>4. Snaps(saved') = << >>
  <2>1. << >> \in Seq(Saves)
    OBVIOUS
  <2>. QED  BY <1>2, <2>1, SnapsFacts
<1>. QED  BY <1>1, <1>3, <1>4 DEF Promise!Clear, Snaps, t

LEMMA ResetRefines ==
  ASSUME IInv, ResetFrozen
  PROVE  Promise!Reset
<1>. DEFINE t == Observed(core, prefix).committed
<1>1. Good(core, prefix, saved, t) /\ Startable(prefix) /\ saved \in Seq(Saves)
  BY IInvFacts DEF ResetFrozen
<1>. DEFINE u == IF saved = << >> THEN Append(t, ResetMark) ELSE t
<1>. HIDE DEF t
<1>2. Good(core', prefix', saved, u) /\ prefix' = NoPrefix /\ saved' = saved
  BY <1>1, ResetEffect DEF ResetFrozen
<1>. HIDE DEF u
<1>3. Observed(core', prefix').committed = u /\ Observed(core', prefix').partial = NoBits
  BY <1>2, GoodIs, NoPrefixFacts
<1>4. Snaps(saved) = << >> <=> saved = << >>
  BY <1>1, SnapsFacts
<1>. QED  BY <1>2, <1>3, <1>4, SameData DEF Promise!Reset, Snaps, u, t

\* If restoring a checkpoint abandons the later ones, the session implements
\* the revocable stream.
THEOREM Refinement == ASSUME Nested PROVE Spec => RefinesStream
<1>1. Init => Promise!Init
  <2>. SUFFICES ASSUME Init PROVE Promise!Init
    OBVIOUS
  <2>1. IInv /\ saved = << >> /\ prefix = NoPrefix /\ core = NewCore
    BY InitGood DEF Init
  <2>2. Observed(core, prefix).partial = NoBits
    BY <2>1, IInvFacts, NoPrefixFacts
  <2>3. Observed(core, prefix).committed = << >>
    <3>1. << >> \in Seq(Ops) /\ Len(<< >>) = 0
      BY EmptySeq
    <3>2. SubSeq(NewCore.tree, 1, Len(NewCore.tree)) = << >>
      BY <3>1 DEF NewCore
    <3>. QED  BY <2>1, <3>1, <3>2, NoPrefixFacts DEF Observed, NewCore
  <2>4. Snaps(saved) = << >>
    <3>1. << >> \in Seq(Saves)
      OBVIOUS
    <3>. QED  BY <2>1, <3>1, SnapsFacts
  <2>. QED  BY <2>2, <2>3, <2>4, SameData DEF Promise!Init, Snaps
<1>2. IInv /\ IInv' /\ [Next]_vars => [Promise!Next]_(Promise!vars)
  <2>. SUFFICES ASSUME IInv, IInv', [Next]_vars PROVE Promise!Next \/ UNCHANGED Promise!vars
    OBVIOUS
  <2>1. ASSUME NEW mode \in Modes, NEW bit \in BOOLEAN, FeedBit(mode, bit)
        PROVE  Promise!Next \/ UNCHANGED Promise!vars
    BY <2>1, FeedRefines, SameData DEF Promise!Next
  <2>2. ASSUME NEW i \in DOMAIN saved, RestoreCheckpoint(i) PROVE Promise!Next
    <3>1. i \in DOMAIN Snaps(saved) /\ Promise!Restore(i)
      BY <2>2, RestoreRefines
    <3>. QED  BY <3>1 DEF Promise!Next, Snaps
  <2>3. CASE TakeCheckpoint
    BY <2>3, TakeRefines DEF Promise!Next
  <2>4. CASE ClearCheckpoints
    BY <2>4, ClearRefines DEF Promise!Next
  <2>5. CASE ResetFrozen
    BY <2>5, ResetRefines DEF Promise!Next
  <2>6. CASE PredictBit \/ Finish \/ BeginDiscardableScope \/ UNCHANGED vars
    BY <2>6, QuietRefines
  <2>. QED  BY <2>1, <2>2, <2>3, <2>4, <2>5, <2>6 DEF Next
<1>. QED  BY <1>1, <1>2, Inductive, PTL DEF Spec, Promise!Spec, RefinesStream

=============================================================================
