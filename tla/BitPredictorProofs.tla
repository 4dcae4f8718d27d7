-------------------------- MODULE BitPredictorProofs --------------------------
(***************************************************************************)
(* The rollback bookkeeping of BitPredictor is exact for every length of   *)
(* the stream and every nesting of checkpoints.                            *)
(*                                                                         *)
(* Undo log and bits grow and shrink together while anything is            *)
(* outstanding, so a checkpoint, which is a length of the log, names a     *)
(* prefix of the bits.  Popping the log down to one checkpoint keeps every *)
(* other checkpoint recoverable because the newest has the largest length: *)
(* that order is what the invariant adds to the checked properties.        *)
(***************************************************************************)
EXTENDS BitPredictor, SequenceTheorems, TLAPS

\* The bits left when log u over bits t is popped down to length n.
Cut(t, u, n) == SubSeq(t, 1, Len(t) - (Len(u) - n))

\* Checkpoint e is recoverable.
Leads(t, u, e) == e.len \in Nat /\ e.len <= Len(u) /\ Cut(t, u, e.len) = e.seen

\* Every checkpoint of J is recoverable.
AllLead(t, u, J) == \A i \in 1 .. Len(J) : Leads(t, u, J[i])

\* The log pairs off with the newest bits.
Paired(t, u) ==
  /\ Len(u) <= Len(t)
  /\ \A k \in 1 .. Len(u) : u[k] = t[Len(t) - Len(u) + k].op

\* The checkpoint lengths of J grow, none beyond m.
Below(J, m) == \A i \in 1 .. Len(J) : J[i].len <= m
Rising(J) == \A i \in 1 .. Len(J) : \A j \in 1 .. i : J[j].len <= J[i].len

JournalEntry == [kind : Modes, len : Nat, seen : Seq(Ops)]
ScopeEntry == [len : Nat, seen : Seq(Ops), journalLen : Nat]

\* A checkpoint survives an operation that is logged.
LEMMA LeadsAppend ==
  ASSUME NEW t \in Seq(Ops), NEW u \in Seq(Modes), Len(u) <= Len(t),
         NEW x \in Ops, NEW m \in Modes, NEW e, Leads(t, u, e)
  PROVE  Leads(Append(t, x), Append(u, m), e)
<1>1. Len(Append(t, x)) = Len(t) + 1 /\ Len(Append(u, m)) = Len(u) + 1
  OBVIOUS
<1>2. e.len \in Nat /\ e.len <= Len(u) /\ SubSeq(t, 1, Len(t) - (Len(u) - e.len)) = e.seen
  BY DEF Leads, Cut
<1>. DEFINE n == Len(t) - (Len(u) - e.len)
<1>3. n \in Nat /\ n <= Len(t) /\ Len(Append(t, x)) - (Len(Append(u, m)) - e.len) = n
  BY <1>1, <1>2
<1>4. SubSeq(Append(t, x), 1, n) = SubSeq(t, 1, n)
  <2>. HIDE DEF n
  <2>. QED  BY <1>3
<1>5. Cut(Append(t, x), Append(u, m), e.len) = e.seen
  <2>1. Cut(Append(t, x), Append(u, m), e.len) = SubSeq(Append(t, x), 1, n)
    <3>. HIDE DEF n
    <3>. QED  BY <1>3 DEF Cut
  <2>. QED  BY <2>1, <1>2, <1>4
<1>6. e.len <= Len(Append(u, m))
  BY <1>1, <1>2
<1>. QED  BY <1>2, <1>5, <1>6 DEF Leads

\* A checkpoint survives going back to a later one.
LEMMA LeadsCut ==
  ASSUME NEW t \in Seq(Ops), NEW u \in Seq(Modes), Len(u) <= Len(t),
         NEW n \in Nat, n <= Len(u), NEW e, Leads(t, u, e), e.len <= n
  PROVE  Leads(Cut(t, u, n), SubSeq(u, 1, n), e)
<1>. DEFINE k == Len(t) - (Len(u) - n)
            h == Len(t) - (Len(u) - e.len)
<1>1. e.len \in Nat /\ e.len <= Len(u) /\ SubSeq(t, 1, h) = e.seen
  BY DEF Leads, Cut
<1>2. k \in Nat /\ k <= Len(t) /\ h \in Nat /\ h <= k
  BY <1>1
<1>3. SubSeq(t, 1, k) \in Seq(Ops) /\ Len(SubSeq(t, 1, k)) = k
  <2>. HIDE DEF k, h
  <2>. QED  BY <1>2
<1>4. SubSeq(u, 1, n) \in Seq(Modes) /\ Len(SubSeq(u, 1, n)) = n
  OBVIOUS
<1>5. SubSeq(SubSeq(t, 1, k), 1, h) = SubSeq(t, 1, h)
  <2>. HIDE DEF k, h
  <2>. QED  BY <1>2
<1>6. k - (n - e.len) = h
  BY <1>1
<1>. QED  BY <1>1, <1>3, <1>4, <1>5, <1>6 DEF Leads, Cut

\* The pairing survives an operation that is logged with its mode.
LEMMA PairedAppend ==
  ASSUME NEW t \in Seq(Ops), NEW u \in Seq(Modes), Paired(t, u),
         NEW x \in Ops, NEW m \in Modes, x.op = m
  PROVE  Paired(Append(t, x), Append(u, m))
<1>1. Len(Append(t, x)) = Len(t) + 1 /\ Len(Append(u, m)) = Len(u) + 1
  OBVIOUS
<1>2. Len(u) <= Len(t) /\ \A k \in 1 .. Len(u) : u[k] = t[Len(t) - Len(u) + k].op
  BY DEF Paired
<1>3. ASSUME NEW k \in 1 .. Len(u) + 1
      PROVE  Append(u, m)[k] = Append(t, x)[Len(t) - Len(u) + k].op
  <2>1. CASE k = Len(u) + 1
    BY <2>1, <1>2
  <2>2. CASE k \in 1 .. Len(u)
    <3>1. Len(t) - Len(u) + k \in 1 .. Len(t)
      BY <1>2, <2>2
    <3>2. Append(t, x)[Len(t) - Len(u) + k] = t[Len(t) - Len(u) + k]
      BY <3>1
    <3>3. Append(u, m)[k] = u[k]
      BY <2>2
    <3>. QED  BY <1>2, <2>2, <3>2, <3>3
  <2>3. k = Len(u) + 1 \/ k \in 1 .. Len(u)
    <3>1. Len(u) \in Nat
      OBVIOUS
    <3>. QED  BY <3>1
  <2>. QED  BY <2>1, <2>2, <2>3
<1>4. Len(t) \in Nat /\ Len(u) \in Nat
  OBVIOUS
<1>. DEFINE v == Append(u, m)
            w == Append(t, x)
<1>5. Len(v) = Len(u) + 1 /\ Len(v) <= Len(w) /\ Len(w) - Len(v) = Len(t) - Len(u)
  BY <1>1, <1>2, <1>4
<1>6. ASSUME NEW k \in 1 .. Len(u) + 1
      PROVE  v[k] = w[Len(t) - Len(u) + k].op
  BY <1>3
<1>. HIDE DEF v, w
<1>7. Paired(w, v)
  BY <1>5, <1>6 DEF Paired
<1>. QED  BY <1>7 DEF v, w

\* The pairing survives popping both down to a checkpoint.
LEMMA PairedCut ==
  ASSUME NEW t \in Seq(Ops), NEW u \in Seq(Modes), Paired(t, u),
         NEW n \in Nat, n <= Len(u)
  PROVE  Paired(Cut(t, u, n), SubSeq(u, 1, n))
<1>. DEFINE k == Len(t) - (Len(u) - n)
<1>1. Len(u) <= Len(t) /\ \A i \in 1 .. Len(u) : u[i] = t[Len(t) - Len(u) + i].op
  BY DEF Paired
<1>2. k \in Nat /\ k <= Len(t) /\ n <= k
  BY <1>1
<1>3. Len(SubSeq(t, 1, k)) = k /\ \A i \in 1 .. k : SubSeq(t, 1, k)[i] = t[i]
  <2>. HIDE DEF k
  <2>. QED  BY <1>2
<1>4. Len(SubSeq(u, 1, n)) = n /\ \A i \in 1 .. n : SubSeq(u, 1, n)[i] = u[i]
  OBVIOUS
<1>5. ASSUME NEW i \in 1 .. n
      PROVE  SubSeq(u, 1, n)[i] = SubSeq(t, 1, k)[k - n + i].op
  <2>1. k - n + i = Len(t) - Len(u) + i /\ k - n + i \in 1 .. k
    BY <1>1, <1>2
  <2>2. SubSeq(t, 1, k)[k - n + i] = t[Len(t) - Len(u) + i]
    <3>. HIDE DEF k
    <3>. QED  BY <1>3, <2>1
  <2>. QED  BY <1>1, <1>4, <2>2
<1>. QED  BY <1>2, <1>3, <1>4, <1>5 DEF Paired, Cut

-----------------------------------------------------------------------------
(* Lists of checkpoints: the journal, and the scopes *)

\* Logging an operation keeps every checkpoint recoverable.
LEMMA ListLogged ==
  ASSUME NEW t \in Seq(Ops), NEW u \in Seq(Modes), Len(u) <= Len(t),
         NEW x \in Ops, NEW m \in Modes, NEW J, AllLead(t, u, J)
  PROVE  AllLead(Append(t, x), Append(u, m), J)
BY LeadsAppend DEF AllLead

\* Going back to a checkpoint keeps those below it recoverable.
LEMMA ListCut ==
  ASSUME NEW t \in Seq(Ops), NEW u \in Seq(Modes), Len(u) <= Len(t),
         NEW n \in Nat, n <= Len(u), NEW J, AllLead(t, u, J), Below(J, n)
  PROVE  AllLead(Cut(t, u, n), SubSeq(u, 1, n), J)
BY LeadsCut DEF AllLead, Below

\* A new checkpoint is recoverable and the highest.
LEMMA ListPush ==
  ASSUME NEW t \in Seq(Ops), NEW u \in Seq(Modes), Len(u) <= Len(t),
         NEW S, NEW J \in Seq(S), AllLead(t, u, J), Rising(J),
         NEW e \in S, e.len = Len(u), e.seen = t
  PROVE  AllLead(t, u, Append(J, e)) /\ Rising(Append(J, e)) /\ Below(Append(J, e), Len(u))
<1>. DEFINE K == Append(J, e)
<1>1. Len(K) = Len(J) + 1 /\ K[Len(J) + 1] = e /\ \A i \in 1 .. Len(J) : K[i] = J[i]
  OBVIOUS
<1>2. Len(J) \in Nat /\ Len(t) \in Nat /\ Len(u) \in Nat
  OBVIOUS
<1>3. Leads(t, u, e)
  <2>1. Cut(t, u, Len(u)) = SubSeq(t, 1, Len(t))
    BY <1>2 DEF Cut
  <2>2. SubSeq(t, 1, Len(t)) = t
    OBVIOUS
  <2>. QED  BY <1>2, <2>1, <2>2 DEF Leads
<1>. HIDE DEF K
<1>4. \A i \in 1 .. Len(J) + 1 : i = Len(J) + 1 \/ i \in 1 .. Len(J)
  BY <1>2
<1>5. AllLead(t, u, K)
  BY <1>1, <1>3, <1>4 DEF AllLead
<1>6. \A i \in 1 .. Len(K) : K[i].len \in Nat /\ K[i].len <= Len(u)
  BY <1>5 DEF AllLead, Leads
<1>7. Rising(K)
  <2>. SUFFICES ASSUME NEW i \in 1 .. Len(J) + 1, NEW j \in 1 .. i PROVE K[j].len <= K[i].len
    BY <1>1 DEF Rising
  <2>1. CASE i = Len(J) + 1
    BY <2>1, <1>1, <1>2, <1>6
  <2>2. CASE i \in 1 .. Len(J)
    <3>1. j \in 1 .. Len(J)  BY <2>2, <1>2
    <3>. QED  BY <2>2, <3>1, <1>1 DEF Rising
  <2>. QED  BY <2>1, <2>2, <1>4
<1>8. Below(K, Len(u))
  BY <1>6 DEF Below
<1>. QED  BY <1>5, <1>7, <1>8 DEF K

\* Without its newest checkpoint a list keeps its properties, and what is left
\* is not above it.
LEMMA ListPop ==
  ASSUME NEW t, NEW u, NEW S, NEW J \in Seq(S), J # << >>, AllLead(t, u, J), Rising(J)
  PROVE  LET K == SubSeq(J, 1, Len(J) - 1)
         IN  /\ AllLead(t, u, K) /\ Rising(K) /\ Below(K, J[Len(J)].len)
             /\ K \in Seq(S) /\ Len(K) = Len(J) - 1
             /\ Leads(t, u, J[Len(J)]) /\ J[Len(J)] \in S
<1>. DEFINE K == SubSeq(J, 1, Len(J) - 1)
<1>1. Len(J) \in Nat \ {0}
  BY EmptySeq
<1>2. PICK n \in Nat : n = Len(J) - 1
  BY <1>1
<1>3. K \in Seq(S) /\ Len(K) = n /\ \A i \in 1 .. n : K[i] = J[i]
  BY <1>1, <1>2
<1>4. Len(J) = n + 1 /\ J[n + 1] \in S
  BY <1>1, <1>2
<1>5. Leads(t, u, J[n + 1])
  BY <1>2, <1>4 DEF AllLead
<1>. HIDE DEF K
<1>6. \A i \in 1 .. n : i \in 1 .. Len(J) /\ i \in 1 .. n + 1 /\ \A j \in 1 .. i : j \in 1 .. n
  BY <1>2, <1>4
<1>7. AllLead(t, u, K)
  BY <1>3, <1>6 DEF AllLead
<1>8. Rising(K)
  BY <1>3, <1>6 DEF Rising
<1>9. Below(K, J[n + 1].len)
  <2>1. \A j \in 1 .. n + 1 : J[j].len <= J[n + 1].len
    BY <1>2, <1>4 DEF Rising
  <2>. QED  BY <1>3, <1>6, <2>1 DEF Below
<1>. QED  BY <1>2, <1>3, <1>4, <1>5, <1>7, <1>8, <1>9 DEF K

-----------------------------------------------------------------------------
(* The inductive invariant *)

\* Bits t, undo log u, depth d, journal J and scopes S fit together: every
\* checkpoint is recoverable, the newest is the highest, the journal stands
\* still in a scope, and nothing is logged at depth 0.
Good(t, u, d, J, S) ==
  /\ t \in Seq(Ops) /\ u \in Seq(Modes) /\ d \in Nat
  /\ J \in Seq(JournalEntry) /\ S \in Seq(ScopeEntry)
  /\ Paired(t, u)
  /\ AllLead(t, u, J) /\ Rising(J)
  /\ AllLead(t, u, S) /\ Rising(S)
  /\ \A i \in 1 .. Len(S) : S[i].journalLen = Len(J) /\ Below(J, S[i].len)
  /\ d = 0 => u = << >> /\ J = << >> /\ S = << >>

IInv == Good(tree, undo, depth, journal, scopes) /\ discardable \in BOOLEAN

LEMMA CutType ==
  ASSUME NEW t \in Seq(Ops), NEW u \in Seq(Modes), Len(u) <= Len(t),
         NEW n \in Nat, n <= Len(u)
  PROVE  Cut(t, u, n) \in Seq(Ops)
<1>. DEFINE k == Len(t) - (Len(u) - n)
<1>1. k \in Nat /\ k <= Len(t)
  OBVIOUS
<1>. HIDE DEF k
<1>2. SubSeq(t, 1, k) \in Seq(Ops)
  BY <1>1
<1>. USE DEF k
<1>. QED  BY <1>1, <1>2 DEF Cut

LEMMA EmptyList ==
  ASSUME NEW t, NEW u
  PROVE  AllLead(t, u, << >>) /\ Rising(<< >>) /\ \A m : Below(<< >>, m)
<1>1. Len(<< >>) = 0 /\ 1 .. 0 = {}
  OBVIOUS
<1>. QED  BY <1>1 DEF AllLead, Rising, Below

\* Feeding a bit.
LEMMA GoodApply ==
  ASSUME NEW t, NEW u, NEW d, NEW J, NEW S, Good(t, u, d, J, S),
         NEW x \in Ops, NEW m \in Modes, x.op = m
  PROVE  Good(Append(t, x), IF d > 0 THEN Append(u, m) ELSE u, d, J, S)
<1>1. CASE d > 0
  <2>1. Paired(Append(t, x), Append(u, m))
    BY PairedAppend DEF Good
  <2>2. AllLead(Append(t, x), Append(u, m), J) /\ AllLead(Append(t, x), Append(u, m), S)
    BY ListLogged DEF Good, Paired
  <2>3. Append(t, x) \in Seq(Ops) /\ Append(u, m) \in Seq(Modes)
    BY DEF Good
  <2>. QED  BY <1>1, <2>1, <2>2, <2>3 DEF Good
<1>2. CASE d = 0
  <2>1. u = << >> /\ J = << >> /\ S = << >> /\ t \in Seq(Ops)
    BY <1>2 DEF Good
  <2>2. Append(t, x) \in Seq(Ops)
    BY <2>1
  <2>3. Paired(Append(t, x), << >>)
    BY <2>2, LenProperties, EmptySeq DEF Paired
  <2>. QED  BY <1>2, <2>1, <2>2, <2>3, EmptyList DEF Good
<1>3. d = 0 \/ d > 0
  BY DEF Good
<1>. QED  BY <1>1, <1>2, <1>3

\* Capturing a symbol checkpoint.
LEMMA GoodCapture ==
  ASSUME NEW t, NEW u, NEW d, NEW J, Good(t, u, d, J, << >>),
         NEW e \in JournalEntry, e.len = Len(u), e.seen = t
  PROVE  Good(t, u, d + 1, Append(J, e), << >>)
<1>1. Len(u) <= Len(t) /\ t \in Seq(Ops) /\ u \in Seq(Modes) /\ d \in Nat
  BY DEF Good, Paired
<1>2. AllLead(t, u, Append(J, e)) /\ Rising(Append(J, e))
  BY <1>1, ListPush DEF Good
<1>3. Append(J, e) \in Seq(JournalEntry) /\ d + 1 # 0 /\ d + 1 \in Nat
  BY <1>1 DEF Good
<1>. QED  BY <1>2, <1>3, EmptySeq DEF Good

\* Beginning a scope.
LEMMA GoodScope ==
  ASSUME NEW t, NEW u, NEW d, NEW J, NEW S, Good(t, u, d, J, S),
         NEW e \in ScopeEntry, e.len = Len(u), e.seen = t, e.journalLen = Len(J)
  PROVE  Good(t, u, d + 1, J, Append(S, e))
<1>1. Len(u) <= Len(t) /\ t \in Seq(Ops) /\ u \in Seq(Modes) /\ d \in Nat /\ S \in Seq(ScopeEntry)
  BY DEF Good, Paired
<1>2. AllLead(t, u, Append(S, e)) /\ Rising(Append(S, e))
  BY <1>1, ListPush DEF Good
<1>3. Append(S, e) \in Seq(ScopeEntry) /\ d + 1 # 0 /\ d + 1 \in Nat
  BY <1>1
<1>4. Below(J, e.len)
  BY DEF Good, AllLead, Leads, Below
<1>5. ASSUME NEW i \in 1 .. Len(Append(S, e))
      PROVE  Append(S, e)[i].journalLen = Len(J) /\ Below(J, Append(S, e)[i].len)
  <2>1. Append(S, e)[i] = e \/ (i \in 1 .. Len(S) /\ Append(S, e)[i] = S[i])
    BY <1>1
  <2>. QED  BY <2>1, <1>4 DEF Good
<1>. QED  BY <1>2, <1>3, <1>5 DEF Good

\* Going back to the newest checkpoint, of the journal or of the scopes, with
\* the log kept if and only if others remain.
LEMMA GoodRestore ==
  ASSUME NEW t, NEW u, NEW d, NEW J, NEW S, Good(t, u, d, J, S), d # 0,
         NEW K \in Seq(JournalEntry), NEW R \in Seq(ScopeEntry), NEW n,
         n \in Nat, n <= Len(u),
         AllLead(t, u, K), Rising(K), Below(K, n),
         AllLead(t, u, R), Rising(R), Below(R, n),
         \A i \in 1 .. Len(R) : R[i].journalLen = Len(K) /\ Below(K, R[i].len),
         NEW out \in BOOLEAN, out <=> (K # << >> \/ R # << >>)
  PROVE  Good(Cut(t, u, n), IF out THEN SubSeq(u, 1, n) ELSE << >>, IF out THEN d ELSE 0, K, R)
<1>1. Len(u) <= Len(t) /\ t \in Seq(Ops) /\ u \in Seq(Modes) /\ d \in Nat /\ Paired(t, u)
  BY DEF Good, Paired
<1>2. Cut(t, u, n) \in Seq(Ops)
  BY <1>1, CutType
<1>3. CASE out
  <2>1. AllLead(Cut(t, u, n), SubSeq(u, 1, n), K) /\ AllLead(Cut(t, u, n), SubSeq(u, 1, n), R)
    BY <1>1, ListCut
  <2>2. Paired(Cut(t, u, n), SubSeq(u, 1, n))
    BY <1>1, PairedCut
  <2>3. SubSeq(u, 1, n) \in Seq(Modes)
    BY <1>1
  <2>. QED  BY <1>1, <1>2, <1>3, <2>1, <2>2, <2>3 DEF Good
<1>4. CASE ~out
  <2>1. K = << >> /\ R = << >>
    BY <1>4
  <2>2. Paired(Cut(t, u, n), << >>)
    BY <1>2, LenProperties, EmptySeq DEF Paired
  <2>. QED  BY <1>2, <1>4, <2>1, <2>2, EmptyList, EmptySeq DEF Good
<1>. QED  BY <1>3, <1>4

\* A new conditioning history: the checkpoints are forgotten, the log is not.
LEMMA GoodReset ==
  ASSUME NEW t, NEW u, NEW d, NEW J, NEW S, Good(t, u, d, J, S)
  PROVE  Good(IF d > 0 THEN t ELSE Append(t, ResetMark), u, d, << >>, << >>)
<1>1. t \in Seq(Ops) /\ u \in Seq(Modes) /\ d \in Nat /\ Paired(t, u) /\ Len(<< >>) = 0
  BY DEF Good
<1>2. Append(t, ResetMark) \in Seq(Ops)
  BY <1>1 DEF Ops
<1>3. CASE d > 0
  <2>1. d # 0
    BY <1>1, <1>3
  <2>2. Good(t, u, d, << >>, << >>)
    BY <1>1, <2>1, EmptyList, EmptySeq DEF Good
  <2>. QED  BY <1>3, <2>2
<1>4. CASE d = 0
  <2>1. u = << >>
    BY <1>4 DEF Good
  <2>2. Paired(Append(t, ResetMark), << >>)
    BY <1>2, LenProperties, EmptySeq DEF Paired
  <2>. QED  BY <1>1, <1>2, <1>4, <2>1, <2>2, EmptyList, EmptySeq DEF Good
<1>. QED  BY <1>1, <1>3, <1>4

-----------------------------------------------------------------------------
(* The steps *)

LEMMA UpdateStep ==
  ASSUME IInv, NEW mode \in Modes, NEW bit \in BOOLEAN, Update(mode, bit)
  PROVE  IInv'
<1>1. Fed(mode, bit) \in Ops /\ Fed(mode, bit).op = mode
  BY DEF Fed, Ops
<1>2. CASE ~Captures
  <2>1. /\ tree' = Append(tree, Fed(mode, bit)) /\ depth' = depth
        /\ undo' = IF depth > 0 THEN Append(undo, mode) ELSE undo
        /\ UNCHANGED <<journal, scopes, discardable>>
    BY <1>2 DEF Update, Apply
  <2>. QED  BY <1>1, <2>1, GoodApply DEF IInv
<1>3. CASE Captures
  <2>. DEFINE e == [kind |-> mode, len |-> Len(undo), seen |-> tree]
  <2>1. scopes = << >> /\ tree \in Seq(Ops) /\ undo \in Seq(Modes)
    BY <1>3 DEF Captures, IInv, Good
  <2>2. e \in JournalEntry /\ e.len = Len(undo) /\ e.seen = tree
    BY <2>1 DEF JournalEntry
  <2>3. /\ tree' = Append(tree, Fed(mode, bit)) /\ depth' = depth + 1
        /\ undo' = IF depth + 1 > 0 THEN Append(undo, mode) ELSE undo
        /\ journal' = Append(journal, e)
        /\ UNCHANGED <<scopes, discardable>>
    BY <1>3 DEF Update, Apply
  <2>. HIDE DEF e
  <2>4. Good(tree, undo, depth + 1, Append(journal, e), << >>)
    BY <2>1, <2>2, GoodCapture DEF IInv
  <2>5. Good(tree', undo', depth', journal', << >>)
    BY <2>3, <2>4, <1>1, GoodApply
  <2>. QED  BY <2>1, <2>3, <2>5 DEF IInv
<1>. QED  BY <1>2, <1>3

LEMMA CommitStep ==
  ASSUME IInv, NEW mode \in Modes, NEW bit \in BOOLEAN, Commit(mode, bit)
  PROVE  IInv'
<1>1. Fed(mode, bit) \in Ops /\ Fed(mode, bit).op = mode
  BY DEF Fed, Ops
<1>2. /\ tree' = Append(tree, Fed(mode, bit)) /\ depth' = depth
      /\ undo' = IF depth > 0 THEN Append(undo, mode) ELSE undo
      /\ UNCHANGED <<journal, scopes, discardable>>
  BY DEF Commit, Apply
<1>. QED  BY <1>1, <1>2, GoodApply DEF IInv

LEMMA RevertStep ==
  ASSUME IInv, NEW mode \in Modes, Revert(mode)
  PROVE  IInv'
<1>. DEFINE n == journal[Len(journal)].len
            K == SubSeq(journal, 1, Len(journal) - 1)
            out == K # << >>
<1>1. /\ journal # << >> /\ scopes = << >> /\ journal' = K
      /\ tree' = Cut(tree, undo, n)
      /\ undo' = IF out THEN SubSeq(undo, 1, n) ELSE << >>
      /\ depth' = IF out THEN depth ELSE 0
      /\ UNCHANGED <<scopes, discardable>>
  BY DEF Revert, Restore, TreeAt, Cut
<1>2. /\ journal \in Seq(JournalEntry) /\ AllLead(tree, undo, journal) /\ Rising(journal)
      /\ depth # 0 /\ Good(tree, undo, depth, journal, << >>)
  BY <1>1 DEF IInv, Good
<1>3. /\ AllLead(tree, undo, K) /\ Rising(K) /\ Below(K, n) /\ K \in Seq(JournalEntry)
      /\ n \in Nat /\ n <= Len(undo)
  BY <1>1, <1>2, ListPop DEF Leads
<1>. HIDE DEF n, K
<1>4. out \in BOOLEAN /\ (out <=> (K # << >> \/ << >> # << >>))
  OBVIOUS
<1>. HIDE DEF out
<1>5. /\ AllLead(tree, undo, << >>) /\ Rising(<< >>) /\ Below(<< >>, n)
      /\ << >> \in Seq(ScopeEntry) /\ 1 .. Len(<< >>) = {}
  BY EmptyList, EmptySeq
<1>6. Good(tree', undo', depth', K, << >>)
  BY <1>1, <1>2, <1>3, <1>4, <1>5, GoodRestore
<1>. QED  BY <1>1, <1>6 DEF IInv

LEMMA BeginScopeStep ==
  ASSUME IInv, BeginRollbackScope
  PROVE  IInv'
<1>. DEFINE e == [len |-> Len(undo), seen |-> tree, journalLen |-> Len(journal)]
<1>1. tree \in Seq(Ops) /\ undo \in Seq(Modes) /\ journal \in Seq(JournalEntry)
  BY DEF IInv, Good
<1>2. e \in ScopeEntry /\ e.len = Len(undo) /\ e.seen = tree /\ e.journalLen = Len(journal)
  BY <1>1 DEF ScopeEntry
<1>3. scopes' = Append(scopes, e) /\ depth' = depth + 1
      /\ UNCHANGED <<tree, undo, journal, discardable>>
  BY DEF BeginRollbackScope
<1>. HIDE DEF e
<1>4. Good(tree, undo, depth + 1, journal, Append(scopes, e))
  BY <1>2, GoodScope DEF IInv
<1>. QED  BY <1>3, <1>4 DEF IInv

\* The journal stood still in the scope, so truncating it changes nothing.
LEMMA ScopeEffect ==
  ASSUME IInv, RollbackScope
  PROVE  LET n == scopes[Len(scopes)].len
             R == SubSeq(scopes, 1, Len(scopes) - 1)
             out == R # << >> \/ journal # << >>
         IN  /\ scopes # << >> /\ scopes' = R /\ journal' = journal
             /\ tree' = Cut(tree, undo, n)
             /\ undo' = IF out THEN SubSeq(undo, 1, n) ELSE << >>
             /\ depth' = IF out THEN depth ELSE 0
             /\ UNCHANGED discardable
<1>. DEFINE n == scopes[Len(scopes)].len
            R == SubSeq(scopes, 1, Len(scopes) - 1)
<1>1. /\ scopes # << >> /\ scopes' = R
      /\ journal' = SubSeq(journal, 1, scopes[Len(scopes)].journalLen)
      /\ tree' = Cut(tree, undo, n)
      /\ undo' = IF R # << >> \/ journal' # << >> THEN SubSeq(undo, 1, n) ELSE << >>
      /\ depth' = IF R # << >> \/ journal' # << >> THEN depth ELSE 0
      /\ UNCHANGED discardable
  BY DEF RollbackScope, Restore, TreeAt, Cut
<1>2. Len(scopes) \in 1 .. Len(scopes)
  <2>1. scopes \in Seq(ScopeEntry)  BY DEF IInv, Good
  <2>. QED  BY <1>1, <2>1, EmptySeq
<1>3. scopes[Len(scopes)].journalLen = Len(journal) /\ journal \in Seq(JournalEntry)
  BY <1>2 DEF IInv, Good
<1>4. SubSeq(journal, 1, Len(journal)) = journal
  BY <1>3
<1>. QED  BY <1>1, <1>3, <1>4

LEMMA RollbackStep ==
  ASSUME IInv, RollbackScope
  PROVE  IInv'
<1>. DEFINE n == scopes[Len(scopes)].len
            R == SubSeq(scopes, 1, Len(scopes) - 1)
            out == R # << >> \/ journal # << >>
<1>1. /\ scopes # << >> /\ scopes' = R /\ journal' = journal
      /\ tree' = Cut(tree, undo, n)
      /\ undo' = IF out THEN SubSeq(undo, 1, n) ELSE << >>
      /\ depth' = IF out THEN depth ELSE 0
      /\ UNCHANGED discardable
  BY ScopeEffect
<1>2. /\ scopes \in Seq(ScopeEntry) /\ AllLead(tree, undo, scopes) /\ Rising(scopes)
      /\ depth # 0 /\ Good(tree, undo, depth, journal, scopes)
  BY <1>1 DEF IInv, Good
<1>3. /\ AllLead(tree, undo, R) /\ Rising(R) /\ Below(R, n)
      /\ R \in Seq(ScopeEntry) /\ Len(R) = Len(scopes) - 1
      /\ n \in Nat /\ n <= Len(undo)
  BY <1>1, <1>2, ListPop DEF Leads
<1>4. Len(scopes) \in 1 .. Len(scopes) /\ Len(scopes) - 1 \in Nat
  BY <1>1, <1>2, EmptySeq
<1>5. \A i \in 1 .. Len(scopes) - 1 : R[i] = scopes[i] /\ i \in 1 .. Len(scopes)
  <2>1. PICK k \in Nat : k = Len(scopes) - 1
    BY <1>4
  <2>. QED  BY <1>2, <1>4, <2>1
<1>6. Below(journal, n)
  BY <1>4 DEF IInv, Good
<1>. HIDE DEF n, R
<1>7. \A i \in 1 .. Len(R) : R[i].journalLen = Len(journal) /\ Below(journal, R[i].len)
  BY <1>3, <1>5 DEF IInv, Good
<1>8. out \in BOOLEAN /\ (out <=> (journal # << >> \/ R # << >>))
  OBVIOUS
<1>. HIDE DEF out
<1>9. AllLead(tree, undo, journal) /\ Rising(journal) /\ journal \in Seq(JournalEntry)
  BY DEF IInv, Good
<1>10. Good(tree', undo', depth', journal, R)
  BY <1>1, <1>2, <1>3, <1>6, <1>7, <1>8, <1>9, GoodRestore
<1>. QED  BY <1>1, <1>10 DEF IInv

LEMMA ResetStep ==
  ASSUME IInv, ResetConditioningHistory
  PROVE  IInv'
<1>1. Good(IF depth > 0 THEN tree ELSE Append(tree, ResetMark), undo, depth, << >>, << >>)
  BY GoodReset DEF IInv
<1>. QED  BY <1>1 DEF ResetConditioningHistory, IInv

\* The bookkeeping always fits the bits, the undo log and the depth.
THEOREM Inductive == Spec => []IInv
<1>1. Init => IInv
  <2>. SUFFICES ASSUME Init PROVE IInv  OBVIOUS
  <2>1. Paired(<< >>, << >>)  BY EmptySeq DEF Paired
  <2>2. 1 .. Len(<< >>) = {}  OBVIOUS
  <2>3. Good(<< >>, << >>, 0, << >>, << >>)
    BY <2>1, <2>2, EmptyList, EmptySeq DEF Good
  <2>. QED  BY <2>3 DEF Init, IInv
<1>2. IInv /\ [Next]_vars => IInv'
  <2>. SUFFICES ASSUME IInv, [Next]_vars PROVE IInv'  OBVIOUS
  <2>1. ASSUME NEW mode \in Modes, NEW bit \in BOOLEAN, Update(mode, bit)  PROVE IInv'
    BY <2>1, UpdateStep
  <2>2. ASSUME NEW mode \in Modes, NEW bit \in BOOLEAN, Commit(mode, bit)  PROVE IInv'
    BY <2>2, CommitStep
  <2>3. ASSUME NEW mode \in Modes, Revert(mode)  PROVE IInv'
    BY <2>3, RevertStep
  <2>4. CASE BeginRollbackScope
    BY <2>4, BeginScopeStep
  <2>5. CASE RollbackScope
    BY <2>5, RollbackStep
  <2>6. CASE BeginDiscardableScope
    BY <2>6 DEF BeginDiscardableScope, IInv
  <2>7. CASE ResetConditioningHistory
    BY <2>7, ResetStep
  <2>8. CASE UNCHANGED vars
    BY <2>8 DEF vars, IInv
  <2>. QED  BY <2>1, <2>2, <2>3, <2>4, <2>5, <2>6, <2>7, <2>8 DEF Next
<1>. QED  BY <1>1, <1>2, PTL DEF Spec

\* Nobody but a rollback point, or a reset that gave points up, keeps the
\* backend journaling.
Accounted ==
  /\ refused \in BOOLEAN
  /\ depth > 0 <=> journal # << >> \/ scopes # << >> \/ refused

\* Going back clears the backend's checkpoints exactly if it was the last point.
LEMMA RestoreAccounts ==
  ASSUME Accounted, depth > 0, NEW len, Restore(len, journal' # << >> \/ scopes' # << >>)
  PROVE  Accounted'
<1>1. CASE journal' # << >> \/ scopes' # << >>
  BY <1>1 DEF Restore, Accounted
<1>2. CASE journal' = << >> /\ scopes' = << >>
  <2>1. depth' = 0 /\ refused' = FALSE
    BY Zenon, <1>2 DEF Restore
  <2>2. ~(depth' > 0)
    BY <2>1
  <2>. QED  BY Zenon, <1>2, <2>1, <2>2 DEF Accounted
<1>. QED  BY <1>1, <1>2

LEMMA AccountedStep == IInv /\ Accounted /\ [Next]_vars => Accounted'
<1>. SUFFICES ASSUME IInv, Accounted, [Next]_vars PROVE Accounted'
  OBVIOUS
<1>0. depth \in Nat /\ journal \in Seq(JournalEntry) /\ scopes \in Seq(ScopeEntry)
  BY DEF IInv, Good
<1>1. ASSUME UNCHANGED <<depth, journal, scopes, refused>>  PROVE Accounted'
  BY <1>1 DEF Accounted
<1>2. ASSUME NEW mode \in Modes, NEW bit \in BOOLEAN, Update(mode, bit)  PROVE Accounted'
  <2>1. CASE ~Captures
    BY <1>1, <1>2, <2>1 DEF Update, Apply
  <2>2. CASE Captures
    <3>1. depth' = depth + 1 /\ refused' = refused
      BY <1>2, <2>2 DEF Update, Apply
    <3>2. journal' # << >>
      <4>. DEFINE e == [kind |-> mode, len |-> Len(undo), seen |-> tree]
      <4>1. journal' = Append(journal, e)
        BY <1>2, <2>2 DEF Update
      <4>. HIDE DEF e
      <4>. QED  BY <1>0, <4>1
    <3>. QED  BY <1>0, <3>1, <3>2 DEF Accounted
  <2>. QED  BY <2>1, <2>2
<1>3. ASSUME NEW mode \in Modes, NEW bit \in BOOLEAN, Commit(mode, bit)  PROVE Accounted'
  BY <1>1, <1>3 DEF Commit, Apply
<1>4. ASSUME NEW mode \in Modes, Revert(mode)  PROVE Accounted'
  <2>1. depth > 0 /\ scopes' = << >>
    BY <1>4 DEF Revert, Accounted
  <2>2. Restore(journal[Len(journal)].len, journal' # << >> \/ scopes' # << >>)
    BY <1>4, <2>1 DEF Revert, Restore
  <2>. QED  BY <2>1, <2>2, RestoreAccounts
<1>5. CASE BeginRollbackScope
  <2>1. depth' = depth + 1 /\ refused' = refused
    BY <1>5 DEF BeginRollbackScope
  <2>2. scopes' # << >>
    <3>. DEFINE e == [len |-> Len(undo), seen |-> tree, journalLen |-> Len(journal)]
    <3>1. scopes' = Append(scopes, e)
      BY <1>5 DEF BeginRollbackScope
    <3>. HIDE DEF e
    <3>. QED  BY <1>0, <3>1
  <2>. QED  BY <1>0, <2>1, <2>2 DEF Accounted
<1>6. CASE RollbackScope
  <2>1. depth > 0
    BY <1>6 DEF RollbackScope, Accounted
  <2>2. Restore(scopes[Len(scopes)].len, journal' # << >> \/ scopes' # << >>)
    BY <1>6 DEF RollbackScope, Restore
  <2>. QED  BY <2>1, <2>2, RestoreAccounts
<1>7. CASE BeginDiscardableScope \/ UNCHANGED vars
  BY <1>1, <1>7 DEF BeginDiscardableScope, vars
<1>8. CASE ResetConditioningHistory
  <2>1. journal' = << >> /\ scopes' = << >> /\ depth' = depth /\ refused' = (depth > 0)
    BY <1>8 DEF ResetConditioningHistory
  <2>2. CASE depth > 0
    <3>1. refused' = TRUE  BY Zenon, <2>1, <2>2
    <3>. QED  BY <2>1, <2>2, <3>1 DEF Accounted
  <2>3. CASE ~(depth > 0)
    <3>1. ~(depth' > 0)  BY <2>1, <2>3
    <3>2. (depth > 0) = FALSE  BY <2>3
    <3>3. refused' = FALSE  BY Zenon, <2>1, <3>2
    <3>. QED  BY Zenon, <2>1, <3>1, <3>3 DEF Accounted
  <2>. QED  BY <2>2, <2>3
<1>. QED  BY <1>2, <1>3, <1>4, <1>5, <1>6, <1>7, <1>8 DEF Next

LEMMA AlwaysAccounted == Spec => []Accounted
<1>1. Init => Accounted
  <2>. SUFFICES ASSUME Init PROVE Accounted  OBVIOUS
  <2>1. depth = 0 /\ journal = << >> /\ scopes = << >> /\ refused = FALSE
    BY DEF Init
  <2>2. ~(depth > 0)
    BY <2>1
  <2>. QED  BY Zenon, <2>1, <2>2 DEF Accounted
<1>. QED  BY <1>1, AccountedStep, Inductive, PTL DEF Spec

\* Every variable keeps its type.
THEOREM TypeCorrect == Spec => []TypeOK
<1>1. IInv /\ Accounted => TypeOK
  BY DEF IInv, Good, Accounted, TypeOK, JournalEntry, ScopeEntry
<1>. QED  BY <1>1, Inductive, AlwaysAccounted, PTL

\* Rolling back to any outstanding checkpoint gives the bits of its own time,
\* and the backend journals exactly as long as there is one, or a reset was
\* refused.
THEOREM RollbackIsExact == Spec => []RollbackExact
<1>1. IInv /\ Accounted => RollbackExact
  <2>. SUFFICES ASSUME IInv, Accounted PROVE RollbackExact  OBVIOUS
  <2>1. /\ DOMAIN journal = 1 .. Len(journal) /\ DOMAIN scopes = 1 .. Len(scopes)
        /\ journal \in Seq(JournalEntry) /\ scopes \in Seq(ScopeEntry)
    BY DEF IInv, Good
  <2>2. ASSUME NEW e \in Outstanding  PROVE Leads(tree, undo, e)
    BY <2>1 DEF Outstanding, IInv, Good, AllLead
  <2>3. \A e \in Outstanding : e.len <= Len(undo) /\ TreeAt(e.len) = e.seen
    BY <2>2 DEF Leads, Cut, TreeAt
  <2>4. Outstanding # {} <=> journal # << >> \/ scopes # << >>
    <3>1. /\ journal # << >> => Len(journal) \in DOMAIN journal
          /\ scopes # << >> => Len(scopes) \in DOMAIN scopes
      BY <2>1, EmptySeq
    <3>2. /\ journal # << >> => journal[Len(journal)] \in Outstanding
          /\ scopes # << >> => scopes[Len(scopes)] \in Outstanding
      BY <3>1 DEF Outstanding
    <3>3. journal = << >> /\ scopes = << >> => Outstanding = {}
      BY <2>1 DEF Outstanding
    <3>. QED  BY <3>2, <3>3
  <2>. QED  BY <2>3, <2>4 DEF RollbackExact, Accounted
<1>. QED  BY <1>1, Inductive, AlwaysAccounted, PTL

\* A bit is taken back in the mode it was fed in.
THEOREM UndoIsPaired == Spec => []UndoMatches
<1>1. IInv => UndoMatches
  BY DEF IInv, Good, Paired, UndoMatches
<1>. QED  BY <1>1, Inductive, PTL

-----------------------------------------------------------------------------
(* Refinement *)

JournalPoint(e) == [kind |-> e.kind, stream |-> e.seen]
ScopePoint(e) == [kind |-> "scope", stream |-> e.seen]
PointAt(J, S, i) == IF i <= Len(J) THEN JournalPoint(J[i]) ELSE ScopePoint(S[i - Len(J)])
PointSet == [kind : Modes \cup {"scope"}, stream : Seq(Ops)]

LEMMA PointsShape ==
  ASSUME NEW J \in Seq(JournalEntry), NEW S \in Seq(ScopeEntry)
  PROVE  /\ PointsOf(J, S) \in Seq(PointSet)
         /\ Len(PointsOf(J, S)) = Len(J) + Len(S)
         /\ \A i \in 1 .. Len(J) + Len(S) : PointsOf(J, S)[i] = PointAt(J, S, i)
<1>1. PointsOf(J, S) = [i \in 1 .. Len(J) + Len(S) |-> PointAt(J, S, i)]
  BY DEF PointsOf, PointAt, JournalPoint, ScopePoint
<1>2. Len(J) \in Nat /\ Len(S) \in Nat
  OBVIOUS
<1>3. ASSUME NEW i \in 1 .. Len(J) + Len(S)
      PROVE  PointAt(J, S, i) \in PointSet
  <2>1. CASE i <= Len(J)
    <3>1. J[i] \in JournalEntry  BY <2>1, <1>2
    <3>. QED  BY <2>1, <3>1 DEF PointAt, JournalPoint, JournalEntry, PointSet
  <2>2. CASE ~(i <= Len(J))
    <3>1. i - Len(J) \in 1 .. Len(S)  BY <2>2, <1>2
    <3>2. S[i - Len(J)] \in ScopeEntry  BY <3>1
    <3>. QED  BY <2>2, <3>2 DEF PointAt, ScopePoint, ScopeEntry, PointSet
  <2>. QED  BY <2>1, <2>2
<1>4. PICK n \in Nat : n = Len(J) + Len(S)
  BY <1>2
<1>5. PointsOf(J, S) \in [1 .. n -> PointSet]
  BY <1>1, <1>3, <1>4
<1>6. PointsOf(J, S) \in Seq(PointSet) /\ Len(PointsOf(J, S)) = n
  BY <1>4, <1>5
<1>. QED  BY <1>1, <1>4, <1>6

LEMMA JournalOnlyShape ==
  ASSUME NEW J \in Seq(JournalEntry)
  PROVE  /\ PointsOf(J, << >>) \in Seq(PointSet)
         /\ Len(PointsOf(J, << >>)) = Len(J)
         /\ \A i \in 1 .. Len(J) : PointsOf(J, << >>)[i] = PointAt(J, << >>, i)
<1>1. << >> \in Seq(ScopeEntry)
  OBVIOUS
<1>2. Len(J) + Len(<< >>) = Len(J)
  OBVIOUS
<1>. DEFINE P == PointsOf(J, << >>)
            n == Len(J) + Len(<< >>)
<1>3. P \in Seq(PointSet) /\ Len(P) = n /\ \A i \in 1 .. n : P[i] = PointAt(J, << >>, i)
  BY <1>1, PointsShape
<1>4. n = Len(J)
  BY <1>2
<1>. HIDE DEF n
<1>. QED  BY <1>3, <1>4

\* A new journal entry is a new point; it is only written outside of scopes.
LEMMA PointsCapture ==
  ASSUME NEW J \in Seq(JournalEntry), NEW e \in JournalEntry
  PROVE  PointsOf(Append(J, e), << >>) = Append(PointsOf(J, << >>), JournalPoint(e))
<1>. DEFINE K == Append(J, e)
            P == PointsOf(J, << >>)
            Q == PointsOf(K, << >>)
<1>1. /\ K \in Seq(JournalEntry) /\ Len(K) = Len(J) + 1 /\ K[Len(J) + 1] = e
      /\ \A i \in 1 .. Len(J) : K[i] = J[i]
  OBVIOUS
<1>2. << >> \in Seq(ScopeEntry) /\ Len(<< >>) = 0 /\ Len(J) \in Nat
  OBVIOUS
<1>. HIDE DEF K
<1>3. P \in Seq(PointSet) /\ Len(P) = Len(J) /\ \A i \in 1 .. Len(J) : P[i] = PointAt(J, << >>, i)
  BY JournalOnlyShape
<1>4. Q \in Seq(PointSet) /\ Len(Q) = Len(J) + 1
      /\ \A i \in 1 .. Len(J) + 1 : Q[i] = PointAt(K, << >>, i)
  <2>1. Q \in Seq(PointSet) /\ Len(Q) = Len(K) /\ \A i \in 1 .. Len(K) : Q[i] = PointAt(K, << >>, i)
    BY <1>1, JournalOnlyShape
  <2>. QED  BY <1>1, <2>1
<1>5. JournalPoint(e) \in PointSet
  BY DEF JournalPoint, JournalEntry, PointSet
<1>. HIDE DEF P, Q
<1>6. ASSUME NEW i \in 1 .. Len(J) + 1
      PROVE  Q[i] = Append(P, JournalPoint(e))[i]
  <2>1. CASE i = Len(J) + 1
    BY <2>1, <1>1, <1>3, <1>4, <1>5 DEF PointAt
  <2>2. CASE i # Len(J) + 1
    <3>1. i \in 1 .. Len(J)  BY <2>2, <1>2
    <3>2. Append(P, JournalPoint(e))[i] = P[i]  BY <3>1, <1>3, <1>5
    <3>3. PointAt(K, << >>, i) = PointAt(J, << >>, i)
      BY <3>1, <1>1, <1>2 DEF PointAt
    <3>. QED  BY <3>1, <3>2, <3>3, <1>3, <1>4
  <2>. QED  BY <2>1, <2>2
<1>7. Append(P, JournalPoint(e)) \in Seq(PointSet) /\ Len(Append(P, JournalPoint(e))) = Len(J) + 1
  BY <1>3, <1>5
<1>8. Q = Append(P, JournalPoint(e))
  BY <1>4, <1>6, <1>7, SeqEqual
<1>. QED  BY <1>8 DEF K, P, Q

\* A new scope is a new point.
LEMMA PointsScope ==
  ASSUME NEW J \in Seq(JournalEntry), NEW S \in Seq(ScopeEntry), NEW e \in ScopeEntry
  PROVE  PointsOf(J, Append(S, e)) = Append(PointsOf(J, S), ScopePoint(e))
<1>. DEFINE R == Append(S, e)
            P == PointsOf(J, S)
            Q == PointsOf(J, R)
            n == Len(J) + Len(S)
<1>1. /\ R \in Seq(ScopeEntry) /\ Len(R) = Len(S) + 1 /\ R[Len(S) + 1] = e
      /\ \A i \in 1 .. Len(S) : R[i] = S[i]
  OBVIOUS
<1>2. Len(J) \in Nat /\ Len(S) \in Nat
  OBVIOUS
<1>3. n \in Nat /\ Len(J) + Len(R) = n + 1 /\ n - Len(J) = Len(S)
  BY <1>1, <1>2
<1>. HIDE DEF R
<1>4. P \in Seq(PointSet) /\ Len(P) = n /\ \A i \in 1 .. n : P[i] = PointAt(J, S, i)
  BY PointsShape
<1>5. Q \in Seq(PointSet) /\ Len(Q) = n + 1 /\ \A i \in 1 .. n + 1 : Q[i] = PointAt(J, R, i)
  <2>1. /\ Q \in Seq(PointSet) /\ Len(Q) = Len(J) + Len(R)
        /\ \A i \in 1 .. Len(J) + Len(R) : Q[i] = PointAt(J, R, i)
    BY <1>1, PointsShape
  <2>. HIDE DEF Q, n
  <2>. QED  BY <1>3, <2>1
<1>6. ScopePoint(e) \in PointSet
  BY DEF ScopePoint, ScopeEntry, PointSet
<1>. HIDE DEF P, Q
<1>7. ASSUME NEW i \in 1 .. n + 1
      PROVE  Q[i] = Append(P, ScopePoint(e))[i]
  <2>1. CASE i = n + 1
    <3>1. PointAt(J, R, i) = ScopePoint(e)
      <4>1. ~(i <= Len(J)) /\ i - Len(J) = Len(S) + 1
        BY <2>1, <1>2
      <4>. QED  BY <4>1, <1>1 DEF PointAt
    <3>2. Append(P, ScopePoint(e))[i] = ScopePoint(e)
      <4>. HIDE DEF n
      <4>. QED  BY <2>1, <1>3, <1>4, <1>6
    <3>. QED  BY <3>1, <3>2, <1>5
  <2>2. CASE i # n + 1
    <3>1. i \in 1 .. n  BY <2>2, <1>3
    <3>2. Append(P, ScopePoint(e))[i] = P[i]
      <4>. HIDE DEF n
      <4>. QED  BY <3>1, <1>4, <1>6
    <3>3. PointAt(J, R, i) = PointAt(J, S, i)
      <4>1. i <= Len(J) \/ i - Len(J) \in 1 .. Len(S)
        BY <3>1, <1>2
      <4>. QED  BY <4>1, <1>1 DEF PointAt
    <3>. QED  BY <3>1, <3>2, <3>3, <1>4, <1>5
  <2>. QED  BY <2>1, <2>2
<1>. HIDE DEF n
<1>8. Append(P, ScopePoint(e)) \in Seq(PointSet) /\ Len(Append(P, ScopePoint(e))) = n + 1
  BY <1>4, <1>6
<1>9. Q = Append(P, ScopePoint(e))
  BY <1>5, <1>7, <1>8, SeqEqual
<1>. QED  BY <1>9 DEF R, P, Q

\* Without the point pushed last.
LEMMA PopPushed ==
  ASSUME NEW S, NEW Q \in Seq(S), NEW x \in S
  PROVE  LET P == Append(Q, x)
         IN  P # << >> /\ P[Len(P)] = x /\ SubSeq(P, 1, Len(P) - 1) = Q
<1>1. /\ Append(Q, x) # << >> /\ Len(Append(Q, x)) = Len(Q) + 1
      /\ Append(Q, x)[Len(Q) + 1] = x
  OBVIOUS
<1>2. Len(Append(Q, x)) - 1 = Len(Q)
  BY <1>1
<1>3. SubSeq(Append(Q, x), 1, Len(Q)) = Q
  OBVIOUS
<1>. QED  BY <1>1, <1>2, <1>3

\* A nonempty list is its front and its last element.
LEMMA FrontAndLast ==
  ASSUME NEW S, NEW J \in Seq(S), J # << >>
  PROVE  LET K == SubSeq(J, 1, Len(J) - 1)
         IN  K \in Seq(S) /\ J[Len(J)] \in S /\ J = Append(K, J[Len(J)])
<1>. DEFINE K == SubSeq(J, 1, Len(J) - 1)
<1>1. Len(J) \in Nat \ {0}
  BY EmptySeq
<1>2. PICK n \in Nat : n = Len(J) - 1
  BY <1>1
<1>3. Len(J) = n + 1 /\ J[n + 1] \in S
  BY <1>1, <1>2
<1>4. K \in Seq(S) /\ Len(K) = n /\ \A i \in 1 .. n : K[i] = J[i]
  BY <1>1, <1>2
<1>. HIDE DEF K
<1>5. /\ Append(K, J[n + 1]) \in Seq(S) /\ Len(Append(K, J[n + 1])) = n + 1
      /\ Append(K, J[n + 1])[n + 1] = J[n + 1]
      /\ \A i \in 1 .. n : Append(K, J[n + 1])[i] = J[i]
  BY <1>3, <1>4
<1>6. \A i \in 1 .. n + 1 : i = n + 1 \/ i \in 1 .. n
  BY <1>2
<1>7. \A i \in 1 .. n + 1 : J[i] = Append(K, J[n + 1])[i]
  BY <1>5, <1>6
<1>8. J = Append(K, J[n + 1])
  BY <1>3, <1>5, <1>7, SeqEqual
<1>. QED  BY <1>3, <1>4, <1>8 DEF K

LEMMA SameSymbols ==
  /\ Stack!Modes = Modes /\ Stack!ResetMark = ResetMark
  /\ \A mode, bit : Stack!Fed(mode, bit) = Fed(mode, bit)
BY DEF Stack!Modes, Modes, Stack!ResetMark, ResetMark, Stack!Fed, Fed

LEMMA PointsEmpty ==
  ASSUME IInv
  PROVE  Points = << >> <=> journal = << >> /\ scopes = << >>
<1>1. journal \in Seq(JournalEntry) /\ scopes \in Seq(ScopeEntry)
  BY DEF IInv, Good
<1>2. Points \in Seq(PointSet) /\ Len(Points) = Len(journal) + Len(scopes)
  BY <1>1, PointsShape DEF Points
<1>3. Len(journal) \in Nat /\ Len(scopes) \in Nat
  BY <1>1
<1>4. Points = << >> <=> Len(Points) = 0
  BY <1>2, EmptySeq
<1>5. (journal = << >> <=> Len(journal) = 0) /\ (scopes = << >> <=> Len(scopes) = 0)
  BY <1>1, EmptySeq
<1>. QED  BY <1>2, <1>3, <1>4, <1>5

LEMMA PointsEmptyPrimed == IInv' => (Points' = << >> <=> journal' = << >> /\ scopes' = << >>)
<1>1. IInv => (Points = << >> <=> journal = << >> /\ scopes = << >>)  BY PointsEmpty
<1>2. (IInv => (Points = << >> <=> journal = << >> /\ scopes = << >>))'  BY <1>1, PTL
<1>. QED  BY <1>2

\* A bit fed where symbols are captured is speculated on.
LEMMA CaptureRefines ==
  ASSUME IInv, IInv', NEW mode \in Modes, NEW bit \in BOOLEAN, Update(mode, bit), Captures
  PROVE  Stack!Speculate(mode, bit)
<1>. DEFINE e == [kind |-> mode, len |-> Len(undo), seen |-> tree]
<1>1. scopes = << >> /\ journal \in Seq(JournalEntry) /\ e \in JournalEntry
  BY DEF Captures, IInv, Good, JournalEntry
<1>2. JournalPoint(e) = [kind |-> mode, stream |-> tree]
  BY DEF JournalPoint
<1>3. /\ journal' = Append(journal, e) /\ scopes' = << >>
      /\ tree' = Append(tree, Fed(mode, bit))
  BY <1>1 DEF Update, Apply
<1>. HIDE DEF e
<1>4. Points' = Append(Points, JournalPoint(e))
  BY <1>1, <1>3, PointsCapture DEF Points
<1>5. ~Stack!InScope
  <2>1. Points \in Seq(PointSet) /\ Len(Points) = Len(journal)
        /\ \A i \in 1 .. Len(journal) : Points[i] = PointAt(journal, << >>, i)
    BY <1>1, JournalOnlyShape DEF Points
  <2>2. DOMAIN Points = 1 .. Len(journal)
    BY <2>1
  <2>3. ASSUME NEW i \in 1 .. Len(journal)  PROVE Points[i].kind \in Modes
    <3>1. journal[i] \in JournalEntry /\ i <= Len(journal)
      BY <1>1
    <3>2. Points[i] = JournalPoint(journal[i])
      BY <2>1, <3>1 DEF PointAt
    <3>. QED  BY <3>1, <3>2 DEF JournalPoint, JournalEntry
  <2>. QED  BY <2>2, <2>3 DEF Stack!InScope, Modes
<1>. QED  BY <1>2, <1>3, <1>4, <1>5, SameSymbols DEF Stack!Speculate, Stack!Push

\* Committed bits, and speculative ones in a scope, are no points.
LEMMA FeedRefines ==
  ASSUME NEW mode \in Modes, NEW bit \in BOOLEAN,
         Commit(mode, bit) \/ (Update(mode, bit) /\ ~Captures)
  PROVE  Stack!Feed(mode, bit)
<1>1. tree' = Append(tree, Fed(mode, bit)) /\ UNCHANGED <<depth, journal, scopes>>
  BY DEF Commit, Update, Apply
<1>2. Points' = Points
  BY <1>1 DEF Points
<1>. QED  BY <1>1, <1>2, SameSymbols DEF Stack!Feed

\* Reverting a bit is undoing the newest point, there being no scope.
LEMMA RevertRefines ==
  ASSUME IInv, IInv', NEW mode \in Modes, Revert(mode)
  PROVE  Stack!Undo
<1>. DEFINE e == journal[Len(journal)]
            K == SubSeq(journal, 1, Len(journal) - 1)
<1>1. /\ journal # << >> /\ scopes = << >> /\ journal' = K /\ scopes' = << >>
      /\ tree' = Cut(tree, undo, e.len) /\ (K = << >> => depth' = 0)
      /\ journal \in Seq(JournalEntry) /\ AllLead(tree, undo, journal) /\ Rising(journal)
  BY DEF Revert, Restore, TreeAt, Cut, IInv, Good
<1>2. K \in Seq(JournalEntry) /\ e \in JournalEntry /\ journal = Append(K, e)
  BY <1>1, FrontAndLast
<1>3. Leads(tree, undo, e)
  BY <1>1, ListPop
<1>. HIDE DEF e, K
<1>4. Points = Append(Points', JournalPoint(e)) /\ Points' \in Seq(PointSet) /\ JournalPoint(e) \in PointSet
  BY <1>1, <1>2, PointsCapture, JournalOnlyShape DEF Points, JournalPoint, JournalEntry, PointSet
<1>5. /\ Points # << >> /\ Points[Len(Points)] = JournalPoint(e)
      /\ SubSeq(Points, 1, Len(Points) - 1) = Points'
  BY <1>4, PopPushed
<1>6. tree' = JournalPoint(e).stream
  BY <1>1, <1>3 DEF Leads, JournalPoint
<1>. QED  BY <1>5, <1>6 DEF Stack!Undo

LEMMA ScopeRefines ==
  ASSUME IInv, IInv', BeginRollbackScope
  PROVE  Stack!BeginScope
<1>. DEFINE e == [len |-> Len(undo), seen |-> tree, journalLen |-> Len(journal)]
<1>1. journal \in Seq(JournalEntry) /\ scopes \in Seq(ScopeEntry) /\ e \in ScopeEntry
  <2>1. /\ journal \in Seq(JournalEntry) /\ scopes \in Seq(ScopeEntry)
        /\ tree \in Seq(Ops) /\ undo \in Seq(Modes)
    BY DEF IInv, Good
  <2>. QED  BY <2>1 DEF ScopeEntry
<1>2. ScopePoint(e) = [kind |-> "scope", stream |-> tree]
  BY DEF ScopePoint
<1>3. journal' = journal /\ scopes' = Append(scopes, e) /\ tree' = tree
  BY DEF BeginRollbackScope
<1>. HIDE DEF e
<1>4. Points' = Append(Points, ScopePoint(e))
  BY <1>1, <1>3, PointsScope DEF Points
<1>. QED  BY <1>2, <1>3, <1>4 DEF Stack!BeginScope, Stack!Push

\* Leaving a scope is undoing the newest point, the journal having stood still.
LEMMA RollbackRefines ==
  ASSUME IInv, IInv', RollbackScope
  PROVE  Stack!Undo
<1>. DEFINE e == scopes[Len(scopes)]
            R == SubSeq(scopes, 1, Len(scopes) - 1)
<1>1. /\ scopes # << >> /\ scopes' = R /\ journal' = journal
      /\ tree' = Cut(tree, undo, e.len) /\ (R = << >> /\ journal = << >> => depth' = 0)
  BY ScopeEffect
<1>2. /\ scopes \in Seq(ScopeEntry) /\ AllLead(tree, undo, scopes) /\ Rising(scopes)
      /\ journal \in Seq(JournalEntry)
  BY DEF IInv, Good
<1>3. R \in Seq(ScopeEntry) /\ e \in ScopeEntry /\ scopes = Append(R, e)
  BY <1>1, <1>2, FrontAndLast
<1>4. Leads(tree, undo, e)
  BY <1>1, <1>2, ListPop
<1>. HIDE DEF e, R
<1>5. Points = Append(Points', ScopePoint(e)) /\ Points' \in Seq(PointSet) /\ ScopePoint(e) \in PointSet
  BY <1>1, <1>2, <1>3, PointsScope, PointsShape DEF Points, ScopePoint, ScopeEntry, PointSet
<1>6. /\ Points # << >> /\ Points[Len(Points)] = ScopePoint(e)
      /\ SubSeq(Points, 1, Len(Points) - 1) = Points'
  BY <1>5, PopPushed
<1>7. tree' = ScopePoint(e).stream
  BY <1>1, <1>4 DEF Leads, ScopePoint
<1>. QED  BY <1>6, <1>7 DEF Stack!Undo

\* A reset is one of the promise, or the refused one.
LEMMA ResetRefines ==
  ASSUME IInv, IInv', ResetConditioningHistory
  PROVE  Stack!Reset \/ RefusedReset
<1>1. /\ journal' = << >> /\ scopes' = << >> /\ UNCHANGED <<undo, depth>>
      /\ refused' = (depth > 0)
      /\ tree' = IF refused' THEN tree ELSE Append(tree, ResetMark)
  BY DEF ResetConditioningHistory
<1>2. Points' = << >>
  BY <1>1, PointsEmptyPrimed
<1>3. CASE depth > 0
  BY <1>1, <1>2, <1>3 DEF RefusedReset
<1>4. CASE ~(depth > 0)
  BY <1>1, <1>2, <1>4, SameSymbols DEF Stack!Reset
<1>. QED  BY <1>3, <1>4

\* The bookkeeping over one undo log implements the stack of snapshots, but for
\* the resets it refuses.
THEOREM Refinement == Spec => RefinesSnapshots
<1>1. Init => Stack!Init
  <2>. SUFFICES ASSUME Init PROVE Stack!Init  OBVIOUS
  <2>1. Points \in Seq(PointSet) /\ Len(Points) = 0
    BY JournalOnlyShape, EmptySeq DEF Init, Points
  <2>2. Points = << >>
    BY <2>1, EmptySeq
  <2>. QED  BY <2>2 DEF Init, Stack!Init
<1>2. IInv /\ IInv' /\ [Next]_vars => [Stack!Next \/ RefusedReset]_<<tree, Points>>
  <2>. SUFFICES ASSUME IInv, IInv', [Next]_vars
                PROVE  (Stack!Next \/ RefusedReset) \/ UNCHANGED <<tree, Points>>
    OBVIOUS
  <2>1. ASSUME NEW mode \in Modes, NEW bit \in BOOLEAN, Update(mode, bit) \/ Commit(mode, bit)
        PROVE  Stack!Next
    BY <2>1, CaptureRefines, FeedRefines, SameSymbols DEF Stack!Next
  <2>2. ASSUME NEW mode \in Modes, Revert(mode)  PROVE Stack!Next
    BY <2>2, RevertRefines DEF Stack!Next
  <2>3. CASE BeginRollbackScope
    BY <2>3, ScopeRefines DEF Stack!Next
  <2>4. CASE RollbackScope
    BY <2>4, RollbackRefines DEF Stack!Next
  <2>5. CASE BeginDiscardableScope \/ UNCHANGED vars
    BY <2>5 DEF BeginDiscardableScope, vars, Points
  <2>6. CASE ResetConditioningHistory
    BY <2>6, ResetRefines DEF Stack!Next
  <2>. QED  BY <2>1, <2>2, <2>3, <2>4, <2>5, <2>6 DEF Next
<1>. QED  BY <1>1, <1>2, Inductive, PTL DEF Spec, RefinesSnapshots

=============================================================================
