-------------------------- MODULE ParallelUctProofs --------------------------
(***************************************************************************)
(* The bookkeeping of the parallel planner, for every number of workers,   *)
(* horizon, budget, threshold and order in which rollouts finish.          *)
(*                                                                         *)
(* The argument: every prefix of a walk is in the tree, with its edges     *)
(* (Walks); the incomplete count of an edge is the number of walks in      *)
(* flight through it (OccupancyExact); so an edge that is in the tree has  *)
(* been completed or is in flight (Used), which is why a search that ends  *)
(* has a completed root edge and why no retired edge is taken again.       *)
(*                                                                         *)
(* The statistics: every completed rollout of the log is still a walk in   *)
(* the tree, whole or cut by re-rooting (LogOk); visits, counts and sums   *)
(* are those of the log (VisitsMatch, EdgesMatch); and while a batch is    *)
(* being completed, the group of an edge and a child holds the rollouts of *)
(* this epoch that went there (GroupsMatch), so that the mean which        *)
(* replaces the old one is the group's.  What is needed of the recursive   *)
(* sums (SumIs ... SumShift) is shown by least counterexample.             *)
(***************************************************************************)
EXTENDS ParallelUct, SequenceTheorems, FiniteSetTheorems, NaturalsInduction,
        WellFoundedInduction, TLAPS

-----------------------------------------------------------------------------
(* Walks *)

Prefix(p, d) == SubSeq(p, 1, d)

LEMMA PrefixIsSeq ==
  ASSUME NEW S, NEW p \in Seq(S), NEW d \in 0 .. Len(p)
  PROVE  /\ Prefix(p, d) \in Seq(S) /\ Len(Prefix(p, d)) = d
         /\ \A i \in 1 .. d : Prefix(p, d)[i] = p[i]
<1>1. Len(p) \in Nat /\ d \in Int  BY LenProperties
<1>2. \A i \in 1 .. d : p[i] \in S  BY <1>1, ElementOfSeq
<1>. QED  BY <1>1, <1>2, SubSeqProperties DEF Prefix

LEMMA PrefixFull ==
  ASSUME NEW S, NEW p \in Seq(S)
  PROVE  Prefix(p, Len(p)) = p
BY SubSeqFull DEF Prefix

\* A longer walk has the prefixes of a shorter one.
LEMMA PrefixOfAppend ==
  ASSUME NEW S, NEW p \in Seq(S), NEW s \in S, NEW d \in 0 .. Len(p)
  PROVE  Prefix(Append(p, s), d) = Prefix(p, d)
<1>. DEFINE q == Append(p, s)
<1>1. q \in Seq(S) /\ Len(q) = Len(p) + 1 /\ Len(p) \in Nat
      /\ \A i \in 1 .. Len(p) : q[i] = p[i]
  BY LenProperties, AppendProperties
<1>. HIDE DEF q
<1>2. d \in 0 .. Len(q)  BY <1>1
<1>3. /\ Prefix(q, d) \in Seq(S) /\ Len(Prefix(q, d)) = d
      /\ \A i \in 1 .. d : Prefix(q, d)[i] = q[i]
  BY <1>1, <1>2, PrefixIsSeq
<1>4. /\ Prefix(p, d) \in Seq(S) /\ Len(Prefix(p, d)) = d
      /\ \A i \in 1 .. d : Prefix(p, d)[i] = p[i]
  BY PrefixIsSeq
<1>. QED  BY <1>1, <1>3, <1>4, SeqEqual DEF q

LEMMA ThroughIs ==
  ASSUME NEW k, NEW p
  PROVE  Through(k, p) <=> \E d \in 0 .. Len(p) - 1 : k = <<Prefix(p, d), p[d + 1][1]>>
BY DEF Through, EdgesOf, Prefix

LEMMA ThroughNothing ==
  ASSUME NEW k
  PROVE  ~ Through(k, << >>)
BY ThroughIs

\* A step further is through one edge more.
LEMMA ThroughAppend ==
  ASSUME NEW k, NEW S, NEW p \in Seq(S), NEW s \in S
  PROVE  /\ Through(k, Append(p, s)) <=> Through(k, p) \/ k = <<p, s[1]>>
         /\ ~ Through(<<p, s[1]>>, p)
<1>. DEFINE q == Append(p, s)
<1>1. q \in Seq(S) /\ Len(q) = Len(p) + 1 /\ Len(p) \in Nat
      /\ (\A i \in 1 .. Len(p) : q[i] = p[i]) /\ q[Len(p) + 1] = s
  BY LenProperties, AppendProperties
<1>2. \A d \in 0 .. Len(p) : Prefix(q, d) = Prefix(p, d)
  BY PrefixOfAppend
<1>3. Prefix(p, Len(p)) = p  BY PrefixFull
<1>. HIDE DEF q
<1>4. ASSUME Through(k, q)  PROVE Through(k, p) \/ k = <<p, s[1]>>
  <2>1. PICK d \in 0 .. Len(q) - 1 : k = <<Prefix(q, d), q[d + 1][1]>>
    BY <1>4, ThroughIs
  <2>2. CASE d = Len(p)  BY <2>1, <2>2, <1>1, <1>2, <1>3
  <2>3. CASE d # Len(p)
    <3>1. d \in 0 .. Len(p) - 1 /\ d + 1 \in 1 .. Len(p)  BY <2>3, <1>1
    <3>2. k = <<Prefix(p, d), p[d + 1][1]>>  BY <2>1, <3>1, <1>1, <1>2
    <3>. QED  BY <3>1, <3>2, ThroughIs
  <2>. QED  BY <2>2, <2>3
<1>5. ASSUME Through(k, p)  PROVE Through(k, q)
  <2>1. PICK d \in 0 .. Len(p) - 1 : k = <<Prefix(p, d), p[d + 1][1]>>
    BY <1>5, ThroughIs
  <2>2. d \in 0 .. Len(q) - 1 /\ k = <<Prefix(q, d), q[d + 1][1]>>
    BY <2>1, <1>1, <1>2
  <2>. QED  BY <2>2, ThroughIs
<1>6. ASSUME k = <<p, s[1]>>  PROVE Through(k, q)
  <2>1. Len(p) \in 0 .. Len(q) - 1 /\ k = <<Prefix(q, Len(p)), q[Len(p) + 1][1]>>
    BY <1>1, <1>2, <1>3, <1>6
  <2>. QED  BY <2>1, ThroughIs
<1>7. ~ Through(<<p, s[1]>>, p)
  <2>1. SUFFICES ASSUME NEW d \in 0 .. Len(p) - 1, p = Prefix(p, d)  PROVE FALSE
    BY ThroughIs
  <2>2. Len(Prefix(p, d)) = d  BY <1>1, PrefixIsSeq
  <2>. QED  BY <2>1, <2>2, <1>1
<1>. QED  BY <1>4, <1>5, <1>6, <1>7 DEF q

-----------------------------------------------------------------------------
(* Counting the tasks of a batch *)

Tasks == [path : Seq(Steps), tail : {Running, 0} \cup Rewards]

InFlight(k, q) == {i \in DOMAIN q : Through(k, q[i].path)}
Count(k, q) == Cardinality(InFlight(k, q))

LEMMA InFlightFinite ==
  ASSUME NEW k, NEW S, NEW q \in Seq(S)
  PROVE  IsFiniteSet(InFlight(k, q)) /\ Count(k, q) \in Nat
<1>1. Len(q) \in Nat /\ DOMAIN q = 1 .. Len(q)  BY LenProperties
<1>2. IsFiniteSet(1 .. Len(q))  BY <1>1, FS_Interval
<1>3. InFlight(k, q) \in SUBSET (1 .. Len(q))  BY <1>1 DEF InFlight
<1>. QED  BY <1>2, <1>3, FS_Subset, FS_CardinalityType DEF Count

LEMMA CountNothing ==
  ASSUME NEW k
  PROVE  Count(k, << >>) = 0
BY FS_EmptySet DEF Count, InFlight

LEMMA CountAppend ==
  ASSUME NEW k, NEW S, NEW q \in Seq(S), NEW c \in S
  PROVE  Count(k, Append(q, c)) = Count(k, q) + (IF Through(k, c.path) THEN 1 ELSE 0)
<1>. DEFINE r == Append(q, c)
            n == Len(q) + 1
<1>1. /\ r \in Seq(S) /\ Len(q) \in Nat /\ DOMAIN q = 1 .. Len(q) /\ DOMAIN r = 1 .. n
      /\ (\A i \in 1 .. Len(q) : r[i] = q[i]) /\ r[n] = c
  BY LenProperties, AppendProperties
<1>. HIDE DEF r
<1>2. IsFiniteSet(InFlight(k, q)) /\ Count(k, q) \in Nat  BY InFlightFinite
<1>3. n \notin InFlight(k, q)  BY <1>1 DEF InFlight
<1>4. CASE Through(k, c.path)
  <2>1. InFlight(k, r) = InFlight(k, q) \cup {n}  BY <1>1, <1>4 DEF InFlight
  <2>. QED  BY <2>1, <1>2, <1>3, <1>4, FS_AddElement DEF Count, r
<1>5. CASE ~ Through(k, c.path)
  <2>1. InFlight(k, r) = InFlight(k, q)  BY <1>1, <1>5 DEF InFlight
  <2>. QED  BY <2>1, <1>2, <1>5 DEF Count, r
<1>. QED  BY <1>4, <1>5

LEMMA CountTail ==
  ASSUME NEW k, NEW S, NEW q \in Seq(S), q # << >>
  PROVE  Count(k, q) = Count(k, Tail(q)) + (IF Through(k, Head(q).path) THEN 1 ELSE 0)
<1>. DEFINE t == Tail(q)
            B == InFlight(k, q) \ {1}
<1>1. /\ t \in Seq(S) /\ Len(q) \in Nat \ {0} /\ Len(t) = Len(q) - 1
      /\ DOMAIN q = 1 .. Len(q) /\ DOMAIN t = 1 .. Len(t)
      /\ (\A i \in 1 .. Len(t) : t[i] = q[i + 1]) /\ Head(q) = q[1]
  BY LenProperties, EmptySeq, HeadTailProperties
<1>. HIDE DEF t
<1>2. IsFiniteSet(InFlight(k, q)) /\ Count(k, q) \in Nat  BY InFlightFinite
<1>3. IsFiniteSet(InFlight(k, t)) /\ Count(k, t) \in Nat  BY <1>1, InFlightFinite
<1>4. Cardinality(B) = Cardinality(InFlight(k, t))
  <2>. DEFINE f == [i \in InFlight(k, t) |-> i + 1]
  <2>1. f \in [InFlight(k, t) -> B]  BY <1>1 DEF InFlight
  <2>2. \A i, j \in DOMAIN f : f[i] = f[j] => i = j  BY <1>1 DEF InFlight
  <2>3. \A j \in B : \E i \in InFlight(k, t) : f[i] = j
    <3>1. ASSUME NEW j \in B  PROVE j - 1 \in InFlight(k, t) /\ f[j - 1] = j
      BY <1>1 DEF InFlight
    <3>. QED  BY <3>1
  <2>. HIDE DEF f
  <2>4. f \in Bijection(InFlight(k, t), B)
    BY <2>1, <2>2, <2>3 DEF Bijection, Injection, Surjection, IsInjective
  <2>5. ExistsBijection(InFlight(k, t), B)  BY <2>4 DEF ExistsBijection
  <2>. QED  BY <2>5, <1>3, FS_Bijection
<1>5. 1 \in InFlight(k, q) <=> Through(k, Head(q).path)  BY <1>1 DEF InFlight
<1>6. Cardinality(B) = IF 1 \in InFlight(k, q) THEN Count(k, q) - 1 ELSE Count(k, q)
  BY <1>2, FS_RemoveElement DEF Count
<1>. HIDE DEF B
<1>. QED  BY <1>2, <1>3, <1>4, <1>5, <1>6 DEF Count, t
-----------------------------------------------------------------------------
(* The invariant *)

Fields == {"n", "o", "sum", "obar"}
EdgeOk(e) == DOMAIN e = Fields /\ e.n \in Nat /\ e.o \in Nat

Typed ==
  /\ planner \in [bu : BOOLEAN, actions : Nat \ {0}, samples : Nat]
  /\ << >> \in DOMAIN node /\ DOMAIN node \subseteq Seq(Steps)
  /\ node \in [DOMAIN node -> [id : Nat, visits : Nat]]
  /\ edge = [k \in DOMAIN edge |-> edge[k]]
  /\ \A k \in DOMAIN edge : k \in (DOMAIN node) \X Actions /\ EdgeOk(edge[k])
  /\ nextId \in Nat /\ samples \in Nat /\ dispatched \in Nat
  /\ cursor \in Seq(Steps) /\ pending \in Seq(Tasks)

\* The nodes and edges of a walk are in the tree of nodes N and edges E.
Walk(p, N, E) ==
  /\ \A d \in 0 .. Len(p) : Prefix(p, d) \in N
  /\ \A k : Through(k, p) => k \in E

Walks ==
  /\ Walk(cursor, DOMAIN node, DOMAIN edge)
  /\ \A i \in DOMAIN pending : Walk(pending[i].path, DOMAIN node, DOMAIN edge)

Ids == (\A p \in DOMAIN node : node[p].id < nextId) /\ IdsUnique

\* A group belongs to an edge that has been completed.
Grouping ==
  \A g \in DOMAIN groups :
    \E k \in DOMAIN edge : edge[k].n > 0 /\ g[1] = node[k[1]].id /\ g[2] = k[2]

\* An edge in the tree has been completed or is in flight.
Used == \A k \in DOMAIN edge : edge[k].n > 0 \/ edge[k].o > 0

\* What each phase of a search leaves to do.
Budget ==
  \/ /\ pc = "idle" /\ pending = << >> /\ cursor = << >> /\ groups = << >>
     /\ dispatched = samples
  \/ /\ pc = "bootstrap" /\ pending = << >> /\ cursor = << >> /\ groups = << >>
     /\ dispatched = 0 /\ 0 < samples
  \/ /\ pc = "dispatch" /\ groups = << >>
     /\ dispatched < samples /\ Len(pending) < BatchSize
  \/ /\ pc \in {"rollout", "complete"} /\ cursor = << >> /\ pending # << >>
     /\ dispatched + Len(pending) <= samples
     /\ pc = "rollout" => groups = << >>

RootDone == \E a \in Actions : <<<< >>, a>> \in DOMAIN edge /\ edge[<<<< >>, a>>].n > 0

\* A search completes a root edge, or is on its way to.
Served ==
  samples > 0 =>
    \/ RootDone
    \/ \E i \in DOMAIN pending : pending[i].path # << >>
    \/ cursor # << >>
    \/ pc = "bootstrap"
    \/ pc = "dispatch" /\ node[<< >>].visits > 0

IInv == Typed /\ Walks /\ OccupancyExact /\ Ids /\ Grouping /\ Used /\ Budget /\ Served

LEMMA OccupancyIs ==
  OccupancyExact <=> \A k \in DOMAIN edge :
    edge[k].o = Count(k, pending) + (IF Through(k, cursor) THEN 1 ELSE 0)
BY DEF OccupancyExact, Count, InFlight

LEMMA SmallerPositive ==
  ASSUME NEW a \in Int, NEW b \in Int, a > 0, b > 0
  PROVE  Smaller(a, b) \in Int /\ Smaller(a, b) > 0
BY DEF Smaller

LEMMA BatchBound ==
  ASSUME Typed, dispatched < samples
  PROVE  /\ BatchSize \in Nat \ {0}
         /\ dispatched + BatchSize <= samples
<1>1. Workers \in Nat \ {0}  BY PlannerAssumption
<1>. QED  BY <1>1 DEF Typed, BatchSize, Smaller

\* On its way back a rollout changes neither the average of an edge nor who is
\* in flight besides itself.
LEMMA CompletedEdge ==
  ASSUME NEW e, EdgeOk(e), NEW key, NEW r, NEW f,
         f = CompleteWu(e, r) \/ f = CompleteBu(e, key, r)
  PROVE  /\ EdgeOk(f) /\ f.obar = e.obar /\ f.o = Decremented(e.o) /\ f.n >= e.n
         /\ f = CompleteWu(e, r) \/ key \notin DOMAIN groups => f.n > 0
<1>1. CASE f = CompleteWu(e, r)
  BY <1>1 DEF CompleteWu, EdgeOk, Decremented, Fields
<1>2. CASE f = CompleteBu(e, key, r)
  <2>1. CASE key \notin DOMAIN groups
    BY <1>2, <2>1 DEF CompleteBu, EdgeOk, Decremented, Fields
  <2>2. CASE key \in DOMAIN groups
    <3>. DEFINE old == groups[key]
                new == [total |-> old.total + r, count |-> old.count + 1]
                m == e.sum + Mean(new) - Mean(old)
    <3>1. f = [e EXCEPT !.o = Decremented(e.o), !.sum = m]
      BY <1>2, <2>2 DEF CompleteBu
    <3>. HIDE DEF m
    <3>2. EdgeOk(f) /\ f.obar = e.obar /\ f.o = Decremented(e.o) /\ f.n = e.n
      BY <3>1 DEF EdgeOk, Decremented, Fields
    <3>3. f = CompleteWu(e, r) => f.n > 0
      BY DEF CompleteWu, EdgeOk, Fields
    <3>. QED  BY <3>2, <3>3, <2>2 DEF EdgeOk
  <2>. QED  BY <2>1, <2>2
<1>. QED  BY <1>1, <1>2

-----------------------------------------------------------------------------
(* Taking an edge *)

LEMMA PlannerKept ==
  ASSUME UNCHANGED planner
  PROVE  /\ Actions' = Actions /\ Steps' = Steps /\ Bu' = Bu /\ Tasks' = Tasks
         /\ \A e : Selectable(e)' = Selectable(e)
BY DEF Actions, Steps, Bu, Tasks, Selectable

\* What Take does to the nodes.
LEMMA TakeNodes ==
  ASSUME Typed, Ids, NEW p \in DOMAIN node, NEW a \in Actions, NEW x \in Rewards,
         Take(p, a, x), UNCHANGED planner
  PROVE  /\ DOMAIN node' = DOMAIN node \cup {Append(p, <<a, x>>)}
         /\ node' \in [DOMAIN node' -> [id : Nat, visits : Nat]]
         /\ << >> \in DOMAIN node' /\ DOMAIN node' \subseteq Seq(Steps)
         /\ \A q \in DOMAIN node : node'[q] = node[q]
         /\ nextId' \in Nat /\ Ids'
<1>. DEFINE c == Append(p, <<a, x>>)
<1>1. c \in Seq(Steps)  BY AppendProperties DEF Typed, Steps
<1>. HIDE DEF c
<1>2. CASE c \in DOMAIN node
  <2>1. UNCHANGED <<node, nextId>>  BY <1>2 DEF Take, c
  <2>2. Ids'  BY <2>1 DEF Ids, IdsUnique
  <2>3. node' = node /\ nextId' = nextId  BY <2>1
  <2>. QED  BY <1>2, <2>2, <2>3 DEF Typed, c
<1>3. CASE c \notin DOMAIN node
  <2>1. node' = [i \in DOMAIN node \cup {c} |-> IF i = c THEN Fresh(nextId) ELSE node[i]]
        /\ nextId' = nextId + 1
    BY <1>3 DEF Take, c
  <2>2. DOMAIN node' = DOMAIN node \cup {c} /\ node'[c] = Fresh(nextId)
        /\ \A q \in DOMAIN node : node'[q] = node[q]
    BY <1>3, <2>1
  <2>3. Fresh(nextId) \in [id : Nat, visits : Nat] /\ Fresh(nextId).id = nextId
    BY DEF Fresh, Typed
  <2>4. node' \in [DOMAIN node' -> [id : Nat, visits : Nat]]
    BY <2>1, <2>2, <2>3 DEF Typed
  <2>5. \A q \in DOMAIN node : node[q].id \in Nat /\ node[q].id < nextId
    BY DEF Typed, Ids
  <2>6. node'[c].id = nextId /\ \A q \in DOMAIN node' : q = c \/ q \in DOMAIN node
    BY <2>2, <2>3
  <2>7. nextId \in Nat /\ nextId' = nextId + 1  BY <2>1 DEF Typed
  <2>8. \A q \in DOMAIN node' : node'[q].id < nextId'
    BY <2>2, <2>5, <2>6, <2>7
  <2>9. \A q, r \in DOMAIN node' : node'[q].id = node'[r].id => q = r
    BY <2>2, <2>5, <2>6, <2>7 DEF Ids, IdsUnique
  <2>10. Ids'  BY <2>8, <2>9 DEF Ids, IdsUnique
  <2>11. << >> \in DOMAIN node' /\ DOMAIN node' \subseteq Seq(Steps)
    BY <1>1, <2>2 DEF Typed
  <2>12. DOMAIN node' = DOMAIN node \cup {Append(p, <<a, x>>)}  BY <2>2 DEF c
  <2>13. nextId' \in Nat  BY <2>7
  <2>. QED  BY <2>2, <2>4, <2>10, <2>11, <2>12, <2>13
<1>. QED  BY <1>2, <1>3

LEMMA IncompleteIs ==
  ASSUME NEW e, EdgeOk(e)
  PROVE  EdgeOk(Incomplete(e)) /\ Incomplete(e).n = e.n /\ Incomplete(e).o = e.o + 1
BY DEF EdgeOk, Incomplete, Fields

\* What it does to the edges: one more rollout is in flight through this one.
LEMMA TakeEdges ==
  ASSUME Typed, NEW p \in DOMAIN node, NEW a \in Actions, NEW x \in Rewards,
         Take(p, a, x), UNCHANGED planner
  PROVE  /\ DOMAIN edge' = DOMAIN edge \cup {<<p, a>>}
         /\ edge' = [k \in DOMAIN edge' |-> edge'[k]]
         /\ \A k \in DOMAIN edge' : EdgeOk(edge'[k])
         /\ \A k \in DOMAIN edge : edge'[k].n = edge[k].n
         /\ \A k \in DOMAIN edge \ {<<p, a>>} : edge'[k] = edge[k]
         /\ edge'[<<p, a>>].o =
              (IF <<p, a>> \in DOMAIN edge THEN edge[<<p, a>>].o ELSE 0) + 1
<1>. DEFINE k0 == <<p, a>>
            e == IF k0 \in DOMAIN edge THEN edge[k0] ELSE NewEdge
<1>1. edge' = [i \in DOMAIN edge \cup {k0} |-> IF i = k0 THEN Incomplete(e) ELSE edge[i]]
  BY DEF Take
<1>2. EdgeOk(NewEdge) /\ NewEdge.o = 0  BY DEF EdgeOk, NewEdge, Fields
<1>3. EdgeOk(e)  BY <1>2 DEF Typed
<1>. HIDE DEF e
<1>4. EdgeOk(Incomplete(e)) /\ Incomplete(e).n = e.n /\ Incomplete(e).o = e.o + 1
  BY <1>3, IncompleteIs
<1>5. DOMAIN edge' = DOMAIN edge \cup {k0} /\ edge'[k0] = Incomplete(e)
      /\ \A k \in DOMAIN edge \ {k0} : edge'[k] = edge[k]
  BY <1>1
<1>6. \A k \in DOMAIN edge' : EdgeOk(edge'[k])  BY <1>4, <1>5 DEF Typed
<1>7. \A k \in DOMAIN edge : edge'[k].n = edge[k].n  BY <1>4, <1>5 DEF e
<1>8. edge'[k0].o = (IF k0 \in DOMAIN edge THEN edge[k0].o ELSE 0) + 1
  BY <1>2, <1>4, <1>5 DEF e
<1>9. edge' = [k \in DOMAIN edge' |-> edge'[k]]  BY <1>1
<1>. QED  BY <1>5, <1>6, <1>7, <1>8, <1>9

LEMMA WalkNothing ==
  ASSUME NEW N, NEW E, << >> \in N
  PROVE  Walk(<< >>, N, E)
<1>1. \A d \in 0 .. Len(<< >>) : Prefix(<< >>, d) = << >>
  BY SubSeqEmpty DEF Prefix
<1>. QED  BY <1>1, ThroughNothing DEF Walk

\* A walk stays in the tree while the tree grows.
LEMMA WalkKept ==
  ASSUME NEW p, NEW N, NEW E, NEW M, NEW F, Walk(p, N, E), N \subseteq M, E \subseteq F
  PROVE  Walk(p, M, F)
BY DEF Walk

LEMMA WalkFurther ==
  ASSUME NEW S, NEW p \in Seq(S), NEW s \in S, NEW N, NEW E, Walk(p, N, E)
  PROVE  Walk(Append(p, s), N \cup {Append(p, s)}, E \cup {<<p, s[1]>>})
<1>. DEFINE q == Append(p, s)
<1>1. q \in Seq(S) /\ Len(q) = Len(p) + 1 /\ Len(p) \in Nat
  BY LenProperties, AppendProperties
<1>2. \A d \in 0 .. Len(p) : Prefix(q, d) = Prefix(p, d)  BY PrefixOfAppend
<1>3. Prefix(q, Len(q)) = q  BY <1>1, PrefixFull
<1>4. \A k : Through(k, q) => Through(k, p) \/ k = <<p, s[1]>>  BY ThroughAppend
<1>. HIDE DEF q
<1>5. \A d \in 0 .. Len(q) : d \in 0 .. Len(p) \/ d = Len(q)  BY <1>1
<1>6. \A d \in 0 .. Len(q) : Prefix(q, d) \in N \cup {q}
  BY <1>2, <1>3, <1>5 DEF Walk
<1>7. \A k : Through(k, q) => k \in E \cup {<<p, s[1]>>}  BY <1>4 DEF Walk
<1>8. Walk(q, N \cup {q}, E \cup {<<p, s[1]>>})  BY <1>6, <1>7 DEF Walk
<1>. QED  BY <1>8 DEF q

\* The groups of the epoch stay with their edges.
LEMMA NoGroups ==
  ASSUME groups' = << >>
  PROVE  Grouping'
BY DEF Grouping

\* Nothing is in flight through an edge that is not in the tree.
LEMMA CountNone ==
  ASSUME Walks, NEW k, k \notin DOMAIN edge
  PROVE  Count(k, pending) = 0 /\ ~ Through(k, cursor)
<1>1. InFlight(k, pending) = {}  BY DEF Walks, Walk, InFlight
<1>. QED  BY <1>1, FS_EmptySet DEF Count, Walks, Walk

-----------------------------------------------------------------------------
(* The initial state and the walk *)

LEMMA IInvInit == Init => IInv
<1>. SUFFICES ASSUME Init  PROVE IInv
  OBVIOUS
<1>. USE DEF Init
<1>1. Typed  BY PlannerAssumption, EmptySeq DEF Typed, Fresh
<1>2. Walks
  <2>1. Walk(<< >>, {<< >>}, {})  BY WalkNothing
  <2>2. DOMAIN edge = {} /\ DOMAIN node = {<< >>} /\ DOMAIN pending = {}  OBVIOUS
  <2>. QED  BY <2>1, <2>2 DEF Walks
<1>3. OccupancyExact  BY DEF OccupancyExact
<1>4. Ids  BY DEF Ids, IdsUnique, Fresh
<1>5. Grouping /\ Used /\ Budget /\ Served  BY DEF Grouping, Used, Budget, Served
<1>. QED  BY <1>1, <1>2, <1>3, <1>4, <1>5 DEF IInv

LEMMA ProductGrows ==
  ASSUME NEW A, NEW B, NEW C, A \subseteq B
  PROVE  A \X C \subseteq B \X C
OBVIOUS

\* Going one step further from a node of the tree.
LEMMA TakeTyped ==
  ASSUME IInv, NEW p \in DOMAIN node, NEW a \in Actions, NEW x \in Rewards,
         Take(p, a, x), UNCHANGED <<planner, samples, dispatched>>,
         cursor' \in Seq(Steps), pending' \in Seq(Tasks)
  PROVE  Typed'
<1>. USE DEF IInv
<1>1. Steps' = Steps /\ Actions' = Actions /\ Tasks' = Tasks  BY PlannerKept
<1>2. /\ DOMAIN node \subseteq DOMAIN node'
      /\ node' \in [DOMAIN node' -> [id : Nat, visits : Nat]]
      /\ << >> \in DOMAIN node' /\ DOMAIN node' \subseteq Seq(Steps) /\ nextId' \in Nat
  BY TakeNodes
<1>3. /\ DOMAIN edge' = DOMAIN edge \cup {<<p, a>>}
      /\ edge' = [k \in DOMAIN edge' |-> edge'[k]]
      /\ \A k \in DOMAIN edge' : EdgeOk(edge'[k])
  BY TakeEdges
<1>4. \A k \in DOMAIN edge' : k \in (DOMAIN node') \X Actions
  <2>1. \A k \in DOMAIN edge : k \in (DOMAIN node) \X Actions  BY DEF Typed
  <2>2. DOMAIN node \subseteq DOMAIN node'  BY <1>2
  <2>3. (DOMAIN node) \X Actions \subseteq (DOMAIN node') \X Actions
    BY <2>2, ProductGrows
  <2>4. <<p, a>> \in (DOMAIN node) \X Actions  OBVIOUS
  <2>5. DOMAIN edge' = DOMAIN edge \cup {<<p, a>>}  BY <1>3
  <2>. QED  BY ONLY <2>1, <2>3, <2>4, <2>5, Zenon
<1>5. planner' \in [bu : BOOLEAN, actions : Nat \ {0}, samples : Nat]
      /\ samples' \in Nat /\ dispatched' \in Nat
  BY DEF Typed
<1>. QED  BY <1>1, <1>2, <1>3, <1>4, <1>5 DEF Typed

LEMMA IInvDescend ==
  ASSUME IInv, NEW a \in Actions, NEW x \in Rewards, Descend(a, x), UNCHANGED planner
  PROVE  IInv'
<1>. DEFINE s == <<a, x>>
            k0 == <<cursor, a>>
<1>. USE DEF IInv
<1>1. /\ pc = "dispatch" /\ Take(cursor, a, x) /\ cursor' = Append(cursor, s)
      /\ UNCHANGED <<pc, samples, dispatched, pending, groups, searches, epoch, log>>
  BY DEF Descend
<1>2. cursor \in Seq(Steps) /\ s \in Steps /\ pending \in Seq(Tasks)
  BY DEF Typed, Steps
<1>3. cursor \in DOMAIN node
  <2>1. Len(cursor) \in 0 .. Len(cursor)  BY <1>2, LenProperties
  <2>2. Prefix(cursor, Len(cursor)) = cursor  BY <1>2, PrefixFull
  <2>. QED  BY <2>1, <2>2 DEF Walks, Walk
<1>4. /\ DOMAIN node' = DOMAIN node \cup {Append(cursor, s)}
      /\ Ids'
  BY <1>1, <1>3, TakeNodes
<1>5. /\ DOMAIN edge' = DOMAIN edge \cup {k0}
      /\ \A k \in DOMAIN edge : edge'[k].n = edge[k].n
      /\ \A k \in DOMAIN edge \ {k0} : edge'[k] = edge[k]
      /\ edge'[k0].o = (IF k0 \in DOMAIN edge THEN edge[k0].o ELSE 0) + 1
  BY <1>1, <1>3, TakeEdges
<1>6. /\ \A k : Through(k, cursor') <=> Through(k, cursor) \/ k = k0
      /\ ~ Through(k0, cursor)
  BY <1>1, <1>2, ThroughAppend
<1>7. Typed'
  <2>1. cursor' \in Seq(Steps) /\ pending' \in Seq(Tasks)
    BY <1>1, <1>2, AppendProperties
  <2>. QED  BY <1>1, <1>3, <2>1, TakeTyped
<1>8. Walks'
  <2>1. Walk(cursor', DOMAIN node', DOMAIN edge')
    <3>1. Walk(Append(cursor, s), DOMAIN node \cup {Append(cursor, s)},
               DOMAIN edge \cup {<<cursor, s[1]>>})
      BY <1>2, WalkFurther DEF Walks
    <3>. QED  BY <3>1, <1>1, <1>4, <1>5
  <2>2. \A i \in DOMAIN pending : Walk(pending[i].path, DOMAIN node', DOMAIN edge')
    BY <1>4, <1>5, WalkKept DEF Walks
  <2>. QED  BY <1>1, <2>1, <2>2 DEF Walks
<1>9. OccupancyExact'
  <2>1. ASSUME NEW k \in DOMAIN edge'
        PROVE  edge'[k].o = Count(k, pending) + (IF Through(k, cursor') THEN 1 ELSE 0)
    <3>0. Count(k, pending) \in Nat  BY <1>2, InFlightFinite
    <3>1. CASE k \in DOMAIN edge /\ k # k0
      BY <3>0, <3>1, <1>5, <1>6, OccupancyIs
    <3>2. CASE k \in DOMAIN edge /\ k = k0
      BY <3>0, <3>2, <1>5, <1>6, OccupancyIs
    <3>3. CASE k \notin DOMAIN edge
      BY <3>0, <3>3, <1>5, <1>6, CountNone
    <3>. QED  BY <3>1, <3>2, <3>3
  <2>. QED  BY <1>1, <2>1 DEF OccupancyExact, Count, InFlight
<1>10. Grouping'
  BY <1>1, NoGroups DEF Budget
<1>11. Used'
  <2>1. \A k \in DOMAIN edge : edge[k].o \in Nat  BY DEF Typed, EdgeOk
  <2>2. edge'[k0].o > 0  BY <1>5, <2>1
  <2>. QED  BY <1>5, <2>2 DEF Used
<1>12. Budget'  BY <1>1 DEF Budget, BatchSize
<1>13. Served'
  <2>1. Len(cursor') = Len(cursor) + 1 /\ Len(cursor) \in Nat
    BY <1>1, <1>2, LenProperties, AppendProperties
  <2>2. cursor' # << >>  BY <2>1
  <2>. QED  BY <2>2 DEF Served
<1>. QED  BY <1>4, <1>7, <1>8, <1>9, <1>10, <1>11, <1>12, <1>13

LEMMA IInvBootstrap ==
  ASSUME IInv, NEW a \in Actions, NEW x \in Rewards, Bootstrap(a, x), UNCHANGED planner
  PROVE  IInv'
<1>. DEFINE s == <<a, x>>
            k0 == <<<< >>, a>>
            c == [path |-> <<s>>, tail |-> Running]
<1>. USE DEF IInv
<1>1. /\ pc = "bootstrap" /\ Take(<< >>, a, x) /\ pending' = <<c>> /\ pc' = "rollout"
      /\ UNCHANGED <<samples, dispatched, cursor, groups, searches, epoch, log>>
  BY DEF Bootstrap
<1>2. cursor = << >> /\ pending = << >> /\ groups = << >> /\ dispatched = 0 /\ 0 < samples
  BY <1>1 DEF Budget
<1>3. s \in Steps /\ << >> \in Seq(Steps) /\ << >> \in DOMAIN node
      /\ Append(<< >>, s) = <<s>> /\ <<s>> \in Seq(Steps) /\ <<s>> # << >>
  BY DEF Typed, Steps
<1>4. /\ DOMAIN node' = DOMAIN node \cup {<<s>>}
      /\ Ids'
  BY <1>1, <1>3, TakeNodes
<1>5. /\ DOMAIN edge' = DOMAIN edge \cup {k0}
      /\ \A k \in DOMAIN edge : edge'[k].n = edge[k].n
      /\ \A k \in DOMAIN edge \ {k0} : edge'[k] = edge[k]
      /\ edge'[k0].o = (IF k0 \in DOMAIN edge THEN edge[k0].o ELSE 0) + 1
  BY <1>1, <1>3, TakeEdges
<1>6. ASSUME NEW k  PROVE (Through(k, <<s>>) <=> k = k0) /\ ~ Through(k, << >>)
  <2>1. Through(k, Append(<< >>, s)) <=> Through(k, << >>) \/ k = <<<< >>, s[1]>>
    BY <1>3, ThroughAppend
  <2>2. s[1] = a  OBVIOUS
  <2>. QED  BY <2>1, <2>2, <1>3, ThroughNothing
<1>7. Typed'
  <2>1. c \in Tasks  BY <1>3 DEF Tasks
  <2>2. pending' \in Seq(Tasks) /\ cursor' \in Seq(Steps)
    BY <1>1, <1>2, <1>3, <2>1
  <2>. QED  BY <1>1, <1>3, <2>2, TakeTyped
<1>8. Walks'
  <2>1. Walk(<< >>, DOMAIN node, DOMAIN edge)  BY <1>2 DEF Walks
  <2>2. Walk(<< >>, DOMAIN node', DOMAIN edge')  BY <2>1, <1>4, <1>5, WalkKept
  <2>3. Walk(<<s>>, DOMAIN node', DOMAIN edge')
    <3>1. Walk(Append(<< >>, s), DOMAIN node \cup {Append(<< >>, s)},
               DOMAIN edge \cup {<<<< >>, s[1]>>})
      BY <1>3, <2>1, WalkFurther
    <3>. QED  BY <3>1, <1>3, <1>4, <1>5
  <2>. QED  BY <1>1, <1>2, <2>2, <2>3 DEF Walks
<1>9. OccupancyExact'
  <2>1. ASSUME NEW k \in DOMAIN edge'
        PROVE  edge'[k].o = Count(k, <<c>>) + (IF Through(k, << >>) THEN 1 ELSE 0)
    <3>1. Count(k, <<c>>) = IF k = k0 THEN 1 ELSE 0
      <4>1. Append(<< >>, c) = <<c>> /\ << >> \in Seq({c}) /\ c.path = <<s>>
        OBVIOUS
      <4>2. Count(k, Append(<< >>, c)) =
              Count(k, << >>) + (IF Through(k, c.path) THEN 1 ELSE 0)
        <5>1. c \in {c}  OBVIOUS
        <5>. HIDE DEF c
        <5>. QED  BY <5>1, <4>1, CountAppend
      <4>. QED  BY <4>1, <4>2, <1>6, CountNothing
    <3>2. \A j \in DOMAIN edge : edge[j].o = 0
      BY <1>2, <1>6, OccupancyIs, CountNothing
    <3>. QED  BY <3>1, <3>2, <1>5, <1>6
  <2>. QED  BY <1>1, <1>2, <2>1 DEF OccupancyExact, Count, InFlight
<1>10. Grouping'  BY <1>1, <1>2, NoGroups
<1>11. Used'
  <2>1. \A k \in DOMAIN edge : edge[k].o \in Nat  BY DEF Typed, EdgeOk
  <2>2. edge'[k0].o > 0  BY <1>5, <2>1
  <2>. QED  BY <1>5, <2>2 DEF Used
<1>12. Budget'
  <2>1. Len(<<c>>) = 1 /\ <<c>> # << >>  OBVIOUS
  <2>2. samples \in Nat  BY DEF Typed
  <2>. QED  BY <1>1, <1>2, <2>1, <2>2 DEF Budget
<1>13. Served'
  <2>1. 1 \in DOMAIN pending' /\ pending'[1].path = <<s>>  BY <1>1
  <2>. QED  BY <2>1, <1>3 DEF Served
<1>. QED  BY <1>4, <1>7, <1>8, <1>9, <1>10, <1>11, <1>12, <1>13

\* A root that a walk cannot leave has been served, or a walk has left it before.
LEMMA StuckRoot ==
  ASSUME Typed, OccupancyExact, Used, cursor = << >>, Allowed(<< >>) = {}
  PROVE  RootDone \/ \E i \in DOMAIN pending : pending[i].path # << >>
<1>. DEFINE k == <<<< >>, 0>>
<1>1. 0 \in Actions  BY DEF Typed, Actions
<1>2. k \in DOMAIN edge  BY <1>1 DEF Allowed, Unvisited
<1>3. SUFFICES ASSUME ~ RootDone  PROVE \E i \in DOMAIN pending : pending[i].path # << >>
  OBVIOUS
<1>4. edge[k].o > 0
  <2>1. ~ (edge[k].n > 0)  BY <1>1, <1>2, <1>3 DEF RootDone
  <2>. QED  BY <2>1, <1>2 DEF Used
<1>5. Count(k, pending) > 0
  <2>1. Count(k, pending) \in Nat  BY InFlightFinite DEF Typed
  <2>2. ~ Through(k, cursor)  BY ThroughNothing
  <2>. HIDE DEF k
  <2>. QED  BY <2>1, <2>2, <1>2, <1>4, OccupancyIs
<1>6. InFlight(k, pending) # {}  BY <1>5, FS_EmptySet DEF Count
<1>. QED  BY <1>6, ThroughNothing DEF InFlight

LEMMA IInvEndDispatch ==
  ASSUME IInv, EndDispatch, UNCHANGED planner
  PROVE  IInv'
<1>. DEFINE c == [path |-> cursor, tail |-> Running]
<1>. USE DEF IInv
<1>1. /\ pc = "dispatch" /\ pending' = Append(pending, c) /\ cursor' = << >>
      /\ pc' = IF Len(pending') = BatchSize THEN "rollout" ELSE pc
      /\ UNCHANGED <<node, edge, nextId, samples, dispatched, groups, searches, epoch, log>>
      /\ Len(cursor) = Horizon \/ node[cursor].visits = 0 \/ Allowed(cursor) = {}
  BY DEF EndDispatch
<1>2. /\ cursor \in Seq(Steps) /\ pending \in Seq(Tasks) /\ c \in Tasks
      /\ samples \in Nat /\ dispatched \in Nat
  BY DEF Typed, Tasks
<1>3. /\ pending' \in Seq(Tasks) /\ Len(pending) \in Nat /\ Len(pending') = Len(pending) + 1
      /\ (\A i \in 1 .. Len(pending) : pending'[i] = pending[i])
      /\ pending'[Len(pending) + 1] = c
      /\ DOMAIN pending = 1 .. Len(pending) /\ DOMAIN pending' = 1 .. Len(pending) + 1
  BY <1>1, <1>2, LenProperties, AppendProperties
<1>4. groups = << >> /\ dispatched < samples /\ Len(pending) < BatchSize
      /\ BatchSize \in Nat /\ dispatched + BatchSize <= samples
  BY <1>1, BatchBound DEF Budget
<1>5. Typed'
  <2>1. << >> \in Seq(Steps)  OBVIOUS
  <2>2. Steps' = Steps /\ Actions' = Actions /\ Tasks' = Tasks  BY PlannerKept
  <2>. QED  BY <1>1, <1>3, <2>1, <2>2 DEF Typed
<1>6. Walks'
  <2>1. Walk(<< >>, DOMAIN node, DOMAIN edge)  BY WalkNothing DEF Typed
  <2>2. \A i \in DOMAIN pending' : Walk(pending'[i].path, DOMAIN node, DOMAIN edge)
    <3>1. ASSUME NEW i \in DOMAIN pending'
          PROVE  Walk(pending'[i].path, DOMAIN node, DOMAIN edge)
      <4>1. (i \in DOMAIN pending /\ pending'[i] = pending[i]) \/ pending'[i] = c
        BY <1>3
      <4>. QED  BY <4>1 DEF Walks
    <3>. QED  BY <3>1
  <2>. QED  BY <1>1, <2>1, <2>2 DEF Walks
<1>7. OccupancyExact'
  <2>1. ASSUME NEW k \in DOMAIN edge
        PROVE  edge[k].o = Count(k, pending') + (IF Through(k, << >>) THEN 1 ELSE 0)
    <3>1. Count(k, Append(pending, c)) =
            Count(k, pending) + (IF Through(k, c.path) THEN 1 ELSE 0)
      BY <1>2, CountAppend
    <3>2. Count(k, pending) \in Nat  BY <1>2, InFlightFinite
    <3>. QED  BY <3>1, <3>2, <1>1, ThroughNothing, OccupancyIs
  <2>. QED  BY <1>1, <2>1 DEF OccupancyExact, Count, InFlight
<1>8. Ids' /\ Grouping' /\ Used'
  BY <1>1 DEF Ids, IdsUnique, Grouping, Used
<1>9. Budget'
  <2>1. CASE Len(pending') = BatchSize
    <3>1. pc' = "rollout" /\ pending' # << >>  BY <1>1, <1>3, <2>1
    <3>2. dispatched + Len(pending') <= samples  BY <2>1, <1>4
    <3>. QED  BY <3>1, <3>2, <1>1, <1>4 DEF Budget
  <2>2. CASE Len(pending') # BatchSize
    <3>1. pc' = "dispatch" /\ Len(pending') < BatchSize  BY <1>1, <1>3, <1>4, <2>2
    <3>2. BatchSize' = BatchSize  BY <1>1 DEF BatchSize
    <3>. QED  BY <3>1, <3>2, <1>1, <1>4 DEF Budget
  <2>. QED  BY <2>1, <2>2
<1>10. Served'
  <2>0. Actions' = Actions  BY PlannerKept
  <2>1. RootDone => RootDone'  BY <2>0, <1>1 DEF RootDone
  <2>2. ASSUME NEW i \in DOMAIN pending, pending[i].path # << >>
        PROVE  i \in DOMAIN pending' /\ pending'[i].path # << >>
    BY <2>2, <1>3
  <2>3. CASE cursor # << >>
    <3>1. Len(pending) + 1 \in DOMAIN pending' /\ pending'[Len(pending) + 1].path # << >>
      BY <1>3, <2>3
    <3>. QED  BY <3>1 DEF Served
  <2>4. CASE cursor = << >>
    <3>1. samples > 0  BY <1>4, <1>2
    <3>2. CASE RootDone \/ \E i \in DOMAIN pending : pending[i].path # << >>
      BY <3>2, <2>1, <2>2 DEF Served
    <3>3. CASE node[<< >>].visits > 0
      <4>1. Len(cursor) # Horizon /\ node[cursor].visits # 0
        BY <2>4, <3>3, PlannerAssumption
      <4>2. Allowed(<< >>) = {}  BY <4>1, <1>1, <2>4
      <4>. QED  BY <3>2, <4>2, <2>4, StuckRoot
    <3>. QED  BY <3>1, <3>2, <3>3, <2>4, <1>1 DEF Served
  <2>. QED  BY <2>3, <2>4
<1>. QED  BY <1>5, <1>6, <1>7, <1>8, <1>9, <1>10

-----------------------------------------------------------------------------
(* The rollouts and their completion *)

LEMMA IInvRollout ==
  ASSUME IInv, NEW i \in DOMAIN pending, NEW r \in {0} \cup Rewards,
         Rollout(i, r), UNCHANGED planner
  PROVE  IInv'
<1>. DEFINE c == [pending[i] EXCEPT !.tail = r]
<1>. USE DEF IInv
<1>1. /\ pc = "rollout" /\ pending' = [pending EXCEPT ![i].tail = r]
      /\ pc' \in {"rollout", "complete"}
      /\ UNCHANGED <<node, edge, nextId, samples, dispatched, cursor, groups, searches,
                     epoch, log>>
  BY DEF Rollout
<1>2. pending \in Seq(Tasks) /\ Len(pending) \in Nat /\ DOMAIN pending = 1 .. Len(pending)
      /\ pending[i] \in Tasks
  BY LenProperties, ElementOfSeq DEF Typed
<1>3. c \in Tasks /\ c.path = pending[i].path  BY <1>2 DEF Tasks
<1>4. pending' = [pending EXCEPT ![i] = c]  BY <1>1
<1>. HIDE DEF c
<1>5. /\ pending' \in Seq(Tasks) /\ Len(pending') = Len(pending)
      /\ \A j \in 1 .. Len(pending) : pending'[j] = IF j = i THEN c ELSE pending[j]
  BY <1>2, <1>3, <1>4, ExceptSeq
<1>6. DOMAIN pending' = DOMAIN pending
      /\ \A j \in DOMAIN pending : pending'[j].path = pending[j].path
  BY <1>2, <1>3, <1>4, <1>5
<1>7. Typed'
  <2>1. Steps' = Steps /\ Actions' = Actions /\ Tasks' = Tasks  BY PlannerKept
  <2>. QED  BY <1>1, <1>5, <2>1 DEF Typed
<1>8. Walks'  BY <1>1, <1>6 DEF Walks
<1>9. OccupancyExact'
  <2>1. \A k : {j \in DOMAIN pending' : Through(k, pending'[j].path)}
                 = {j \in DOMAIN pending : Through(k, pending[j].path)}
    BY <1>6
  <2>. QED  BY <1>1, <2>1 DEF OccupancyExact
<1>10. Ids' /\ Grouping' /\ Used'
  BY <1>1 DEF Ids, IdsUnique, Grouping, Used
<1>11. Budget'
  <2>1. /\ groups = << >> /\ cursor = << >> /\ pending # << >>
        /\ dispatched + Len(pending) <= samples
    BY <1>1 DEF Budget
  <2>2. pending' # << >>  BY <1>6
  <2>. QED  BY <1>1, <1>5, <2>1, <2>2 DEF Budget
<1>12. Served'
  <2>1. Actions' = Actions  BY PlannerKept
  <2>. QED  BY <1>1, <1>6, <2>1 DEF Served, RootDone
<1>. QED  BY <1>7, <1>8, <1>9, <1>10, <1>11, <1>12

LEMMA SamePair ==
  ASSUME NEW A, NEW B, NEW j \in A \X B, NEW k \in A \X B, j[1] = k[1], j[2] = k[2]
  PROVE  j = k
OBVIOUS

\* The edges of a completed path, and the others.
LEMMA CompleteEdges ==
  ASSUME Typed, Walks, Ids, Grouping, Complete, pending # << >>
  PROVE  /\ DOMAIN edge' = DOMAIN edge /\ edge' = [k \in DOMAIN edge |-> edge'[k]]
         /\ \A k \in DOMAIN edge :
              /\ EdgeOk(edge'[k]) /\ edge'[k].obar = edge[k].obar /\ edge'[k].n >= edge[k].n
              /\ Through(k, Head(pending).path) =>
                   edge'[k].n > 0 /\ edge'[k].o = Decremented(edge[k].o)
              /\ ~ Through(k, Head(pending).path) => edge'[k] = edge[k]
<1>. DEFINE c == Head(pending)
<1>1. edge' = [k \in DOMAIN edge |->
                 IF k \in EdgesOf(c.path) THEN CompleteEdge(k, c) ELSE edge[k]]
  BY DEF Complete
<1>. HIDE DEF c
<1>2. ASSUME NEW k \in DOMAIN edge
      PROVE  /\ EdgeOk(edge'[k]) /\ edge'[k].obar = edge[k].obar /\ edge'[k].n >= edge[k].n
             /\ Through(k, c.path) =>
                  edge'[k].n > 0 /\ edge'[k].o = Decremented(edge[k].o)
             /\ ~ Through(k, c.path) => edge'[k] = edge[k]
  <2>1. EdgeOk(edge[k]) /\ edge[k].n \in Nat /\ k \in (DOMAIN node) \X Actions
    BY DEF Typed, EdgeOk
  <2>2. CASE ~ Through(k, c.path)
    BY <1>1, <2>1, <2>2 DEF Through
  <2>3. CASE Through(k, c.path)
    <3>. DEFINE r == Return(c, Len(k[1]))
                key == GroupOf(k, c.path)
    <3>0. PICK f : f = edge'[k]  OBVIOUS
    <3>1. f = CompleteEdge(k, c)  BY <1>1, <2>3, <3>0 DEF Through
    <3>2. f = IF Bu THEN CompleteBu(edge[k], key, r) ELSE CompleteWu(edge[k], r)
      BY <3>1 DEF CompleteEdge
    <3>. HIDE DEF r, key
    <3>3. /\ EdgeOk(f) /\ f.obar = edge[k].obar
          /\ f.o = Decremented(edge[k].o) /\ f.n >= edge[k].n
          /\ f = CompleteWu(edge[k], r) \/ key \notin DOMAIN groups => f.n > 0
      <4>1. f = CompleteWu(edge[k], r) \/ f = CompleteBu(edge[k], key, r)  BY <3>2
      <4>2. EdgeOk(edge[k])  BY <2>1
      <4>3. EdgeOk(f) /\ f.obar = edge[k].obar  BY <4>1, <4>2, CompletedEdge
      <4>4. f.o = Decremented(edge[k].o)  BY <4>1, <4>2, CompletedEdge
      <4>5. f.n >= edge[k].n  BY <4>1, <4>2, CompletedEdge
      <4>6. (f = CompleteWu(edge[k], r) \/ key \notin DOMAIN groups) => f.n > 0
        BY <4>1, <4>2, CompletedEdge
      <4>. QED  BY <4>3, <4>4, <4>5, <4>6
    <3>4. key \in DOMAIN groups => f.n > 0
      <4>1. SUFFICES ASSUME key \in DOMAIN groups  PROVE f.n > 0
        OBVIOUS
      <4>2. PICK j \in DOMAIN edge :
              edge[j].n > 0 /\ key[1] = node[j[1]].id /\ key[2] = j[2]
        BY <4>1 DEF Grouping
      <4>3. key[1] = node[k[1]].id /\ key[2] = k[2]  BY DEF key, GroupOf
      <4>4. j \in (DOMAIN node) \X Actions  BY DEF Typed
      <4>5. j[1] = k[1]  BY <2>1, <4>2, <4>3, <4>4 DEF Ids, IdsUnique
      <4>6. j[2] = k[2]  BY <4>2, <4>3
      <4>7. j = k  BY <2>1, <4>4, <4>5, <4>6, SamePair
      <4>8. edge[k].n > 0 /\ f.n \in Nat  BY <3>3, <4>2, <4>7 DEF EdgeOk
      <4>. QED  BY <4>8, <3>3, <2>1
    <3>. QED  BY <2>3, <3>0, <3>3, <3>4
  <2>. QED  BY <2>2, <2>3
<1>. QED  BY <1>1, <1>2 DEF c

\* Completing a path counts it at its nodes and changes nothing else of them.
LEMMA CompleteNodes ==
  ASSUME Typed, Complete
  PROVE  /\ DOMAIN node' = DOMAIN node
         /\ node' \in [DOMAIN node -> [id : Nat, visits : Nat]]
         /\ \A p \in DOMAIN node : node'[p].id = node[p].id
<1>1. node' = [p \in DOMAIN node |->
                 IF p \in Visited(Head(pending).path)
                 THEN [node[p] EXCEPT !.visits = @ + 1] ELSE node[p]]
  BY DEF Complete
<1>2. \A p \in DOMAIN node : node[p] \in [id : Nat, visits : Nat]  BY DEF Typed
<1>. QED  BY <1>1, <1>2

LEMMA CompleteGroups ==
  ASSUME Typed, Walks, Ids, Grouping, Complete, pending # << >>
  PROVE  Grouping'
<1>. DEFINE c == Head(pending)
<1>1. groups' = << >> \/ groups' = Grouped(c)  BY DEF Complete
<1>2. /\ DOMAIN edge' = DOMAIN edge
      /\ \A k \in DOMAIN edge :
           /\ edge[k].n \in Nat /\ edge'[k].n \in Nat /\ edge'[k].n >= edge[k].n
           /\ Through(k, c.path) => edge'[k].n > 0
  BY CompleteEdges DEF Typed, EdgeOk
<1>3. \A k \in DOMAIN edge : node'[k[1]].id = node[k[1]].id
  BY CompleteNodes DEF Typed
<1>4. c \in Tasks /\ c = pending[1] /\ 1 \in DOMAIN pending
  BY HeadTailProperties, LenProperties, EmptySeq DEF Typed
<1>5. \A k : Through(k, c.path) => k \in DOMAIN edge
  BY <1>4 DEF Walks, Walk
<1>. HIDE DEF c
<1>6. CASE groups' = << >>
  BY <1>6, NoGroups
<1>7. CASE groups' = Grouped(c)
  <2>1. DOMAIN groups' = DOMAIN groups \cup {GroupOf(k, c.path) : k \in EdgesOf(c.path)}
    BY <1>7 DEF Grouped
  <2>2. ASSUME NEW g \in DOMAIN groups'
        PROVE  \E k \in DOMAIN edge' :
                 edge'[k].n > 0 /\ g[1] = node'[k[1]].id /\ g[2] = k[2]
    <3>1. CASE g \in DOMAIN groups
      <4>1. PICK k \in DOMAIN edge :
              edge[k].n > 0 /\ g[1] = node[k[1]].id /\ g[2] = k[2]
        BY <3>1 DEF Grouping
      <4>2. edge'[k].n > 0  BY <4>1, <1>2
      <4>. QED  BY <4>1, <4>2, <1>2, <1>3
    <3>2. CASE g \notin DOMAIN groups
      <4>1. PICK k \in EdgesOf(c.path) : g = GroupOf(k, c.path)
        BY <3>2, <2>1
      <4>2. Through(k, c.path) /\ k \in DOMAIN edge  BY <1>5 DEF Through
      <4>3. g[1] = node[k[1]].id /\ g[2] = k[2]  BY <4>1 DEF GroupOf
      <4>. QED  BY <4>2, <4>3, <1>2, <1>3
    <3>. QED  BY <3>1, <3>2
  <2>. QED  BY <2>2 DEF Grouping
<1>. QED  BY <1>1, <1>6, <1>7 DEF c

LEMMA IInvComplete ==
  ASSUME IInv, Complete, UNCHANGED planner
  PROVE  IInv'
<1>. DEFINE c == Head(pending)
            last == Len(pending) = 1
<1>. USE DEF IInv
<1>1. /\ pc = "complete" /\ pending' = Tail(pending) /\ dispatched' = dispatched + 1
      /\ (~ Bu \/ last => groups' = << >>)
      /\ pc' = IF ~ last THEN pc ELSE IF dispatched' < samples THEN "dispatch" ELSE "idle"
      /\ UNCHANGED <<nextId, samples, cursor, searches>>
  BY DEF Complete
<1>2. /\ cursor = << >> /\ pending # << >> /\ dispatched + Len(pending) <= samples
      /\ pending \in Seq(Tasks) /\ samples \in Nat /\ dispatched \in Nat
  BY <1>1 DEF Budget, Typed
<1>3. /\ pending' \in Seq(Tasks) /\ Len(pending) \in Nat \ {0}
      /\ Len(pending') = Len(pending) - 1
      /\ DOMAIN pending = 1 .. Len(pending) /\ DOMAIN pending' = 1 .. Len(pending')
      /\ (\A i \in DOMAIN pending' : pending'[i] = pending[i + 1])
      /\ c = pending[1] /\ c \in Tasks
  BY <1>1, <1>2, LenProperties, EmptySeq, HeadTailProperties
<1>4. /\ DOMAIN edge' = DOMAIN edge /\ edge' = [k \in DOMAIN edge |-> edge'[k]]
      /\ \A k \in DOMAIN edge :
           /\ EdgeOk(edge'[k]) /\ edge'[k].n >= edge[k].n
           /\ Through(k, c.path) => edge'[k].n > 0 /\ edge'[k].o = Decremented(edge[k].o)
           /\ ~ Through(k, c.path) => edge'[k] = edge[k]
  BY <1>2, CompleteEdges
<1>5. /\ DOMAIN node' = DOMAIN node
      /\ node' \in [DOMAIN node -> [id : Nat, visits : Nat]]
      /\ \A p \in DOMAIN node : node'[p].id = node[p].id
  BY CompleteNodes
<1>. HIDE DEF c
<1>6. Typed'
  <2>1. Steps' = Steps /\ Actions' = Actions /\ Tasks' = Tasks  BY PlannerKept
  <2>2. \A k \in DOMAIN edge' : k \in (DOMAIN node') \X Actions /\ EdgeOk(edge'[k])
    BY <1>4, <1>5 DEF Typed
  <2>3. edge' = [k \in DOMAIN edge' |-> edge'[k]]  BY <1>4
  <2>4. /\ planner' = planner /\ nextId' = nextId /\ samples' = samples
        /\ cursor' = cursor /\ dispatched' \in Nat
    BY <1>1, <1>2
  <2>. QED  BY <1>3, <1>5, <2>1, <2>2, <2>3, <2>4 DEF Typed
<1>7. Walks'
  <2>1. \A i \in DOMAIN pending' :
          i + 1 \in DOMAIN pending /\ pending'[i] = pending[i + 1]
    BY <1>3
  <2>. QED  BY <1>1, <1>4, <1>5, <2>1 DEF Walks
<1>8. OccupancyExact'
  <2>1. ASSUME NEW k \in DOMAIN edge
        PROVE  edge'[k].o = Count(k, pending') + (IF Through(k, cursor) THEN 1 ELSE 0)
    <3>1. Count(k, pending) = Count(k, pending') + (IF Through(k, c.path) THEN 1 ELSE 0)
      BY <1>1, <1>2, CountTail DEF c
    <3>2. Count(k, pending') \in Nat  BY <1>3, InFlightFinite
    <3>3. edge[k].o = Count(k, pending)  BY <1>2, <3>1, <3>2, ThroughNothing, OccupancyIs
    <3>4. CASE Through(k, c.path)
      <4>1. edge'[k].o = Decremented(edge[k].o)  BY <1>4, <3>4
      <4>. QED  BY <4>1, <3>1, <3>2, <3>3, <3>4, <1>2, ThroughNothing DEF Decremented
    <3>5. CASE ~ Through(k, c.path)
      BY <3>1, <3>2, <3>3, <3>5, <1>2, <1>4, ThroughNothing
    <3>. QED  BY <3>4, <3>5
  <2>. QED  BY <1>1, <1>4, <2>1 DEF OccupancyExact, Count, InFlight
<1>9. Ids'
  BY <1>1, <1>5 DEF Ids, IdsUnique
<1>10. Grouping'
  BY <1>2, CompleteGroups
<1>11. Used'
  BY <1>4 DEF Used
<1>12. Budget'
  <2>1. CASE ~ last
    <3>1. pending' # << >>  BY <1>3, <2>1
    <3>2. pc' = "complete" /\ cursor' = << >>  BY <1>1, <1>2, <2>1
    <3>3. dispatched' + Len(pending') <= samples'  BY <1>1, <1>2, <1>3
    <3>. QED  BY <3>1, <3>2, <3>3 DEF Budget
  <2>2. CASE last
    <3>1. pending' = << >> /\ Len(pending') = 0  BY <1>3, <2>2, EmptySeq
    <3>2. groups' = << >> /\ dispatched' <= samples /\ samples' = samples /\ cursor' = << >>
      BY <1>1, <1>2, <2>2
    <3>3. CASE dispatched' < samples
      <4>1. pc' = "dispatch"  BY <1>1, <2>2, <3>3
      <4>2. Len(pending') < BatchSize'
        <5>1. BatchSize' = Smaller(Smaller(Workers, samples), samples - dispatched')
          BY <3>2 DEF BatchSize
        <5>2. dispatched' \in Nat /\ Workers \in Nat \ {0}
          BY <1>1, <1>2, PlannerAssumption
        <5>3. Smaller(Smaller(Workers, samples), samples - dispatched') > 0
          <6>1. PICK d \in Nat : d = dispatched'  BY <5>2
          <6>2. samples \in Nat /\ d < samples  BY <6>1, <1>2, <3>3
          <6>3. samples > 0 /\ samples - d > 0 /\ samples - d \in Int /\ samples \in Int
            BY <6>2
          <6>4. Smaller(Workers, samples) \in Int /\ Smaller(Workers, samples) > 0
            BY <6>3, <5>2, SmallerPositive
          <6>. QED  BY <6>1, <6>3, <6>4, SmallerPositive
        <5>. QED  BY <5>1, <5>3, <3>1
      <4>. QED  BY <4>1, <4>2, <3>2, <3>3 DEF Budget
    <3>4. CASE ~ (dispatched' < samples)
      <4>1. pc' = "idle" /\ dispatched' = samples  BY <1>1, <1>2, <2>2, <3>2, <3>4
      <4>. QED  BY <4>1, <3>1, <3>2 DEF Budget
    <3>. QED  BY <3>3, <3>4
  <2>. QED  BY <2>1, <2>2
<1>13. Served'
  <2>0. Actions' = Actions  BY PlannerKept
  <2>1. SUFFICES ASSUME samples > 0
        PROVE  RootDone' \/ \E i \in DOMAIN pending' : pending'[i].path # << >>
    BY <1>1 DEF Served
  <2>2. CASE RootDone
    <3>1. PICK a \in Actions : <<<< >>, a>> \in DOMAIN edge /\ edge[<<<< >>, a>>].n > 0
      BY <2>2 DEF RootDone
    <3>2. PICK k \in DOMAIN edge : k = <<<< >>, a>>  BY <3>1
    <3>3. edge'[k].n >= edge[k].n /\ edge[k].n > 0 /\ edge[k].n \in Nat
          /\ edge'[k].n \in Nat
      BY <3>1, <3>2, <1>4 DEF Typed, EdgeOk
    <3>4. edge'[<<<< >>, a>>].n > 0  BY <3>2, <3>3
    <3>. QED  BY <2>0, <3>1, <3>4, <1>4 DEF RootDone
  <2>3. CASE c.path # << >>
    <3>. DEFINE k == <<<< >>, c.path[1][1]>>
    <3>1. c.path \in Seq(Steps) /\ Len(c.path) \in Nat \ {0}
      BY <1>3, <2>3, EmptySeq DEF Tasks
    <3>2. Prefix(c.path, 0) = << >>  BY SubSeqEmpty DEF Prefix
    <3>3. Through(k, c.path)
      <4>1. 0 \in 0 .. Len(c.path) - 1 /\ k = <<Prefix(c.path, 0), c.path[0 + 1][1]>>
        BY <3>1, <3>2
      <4>. QED  BY <4>1, ThroughIs
    <3>4. k \in DOMAIN edge  BY <1>3, <3>3 DEF Walks, Walk
    <3>5. k \in (DOMAIN node) \X Actions  BY <3>4 DEF Typed
    <3>6. c.path[1][1] \in Actions  BY <3>5
    <3>7. edge'[k].n > 0  BY <3>3, <3>4, <1>4
    <3>. QED  BY <2>0, <3>4, <3>6, <3>7, <1>4 DEF RootDone
  <2>4. CASE ~ RootDone /\ c.path = << >>
    <3>1. PICK i \in DOMAIN pending : pending[i].path # << >>
      BY <1>1, <1>2, <2>1, <2>4 DEF Served
    <3>2. i # 1  BY <3>1, <2>4, <1>3
    <3>3. i - 1 \in DOMAIN pending' /\ pending'[i - 1].path # << >>
      BY <3>1, <3>2, <1>3
    <3>. QED  BY <3>3
  <2>. QED  BY <2>2, <2>3, <2>4
<1>. QED  BY <1>6, <1>7, <1>8, <1>9, <1>10, <1>11, <1>12, <1>13

-----------------------------------------------------------------------------
(* Re-rooting *)

\* Cutting the first step off a walk and putting it back.
LEMMA Rerooted ==
  ASSUME NEW S, NEW s \in S, NEW q \in Seq(S), IsPrefix(<<s>>, q)
  PROVE  Tail(q) \in Seq(S) /\ <<s>> \o Tail(q) = q
<1>1. Len(q) \in Nat \ {0} /\ q # << >> /\ q[1] = s
  <2>1. Len(<<s>>) = 1 /\ Len(q) \in Nat  BY LenProperties
  <2>2. Len(q) >= 1 /\ Prefix(<<s>>, 1) = Prefix(q, 1)
    BY <2>1 DEF IsPrefix, Prefix
  <2>3. <<s>> \in Seq(S) /\ 1 \in 0 .. Len(<<s>>) /\ 1 \in 0 .. Len(q)
    BY <2>1, <2>2
  <2>4. Prefix(<<s>>, 1)[1] = <<s>>[1] /\ Prefix(q, 1)[1] = q[1]
    <3>1. \A i \in 1 .. 1 : Prefix(<<s>>, 1)[i] = <<s>>[i]  BY <2>3, PrefixIsSeq
    <3>2. \A i \in 1 .. 1 : Prefix(q, 1)[i] = q[i]  BY <2>3, PrefixIsSeq
    <3>. QED  BY <3>1, <3>2
  <2>5. q # << >>  BY <2>1, <2>2
  <2>. QED  BY <2>1, <2>2, <2>4, <2>5
<1>2. /\ Tail(q) \in Seq(S) /\ Len(Tail(q)) = Len(q) - 1
      /\ \A i \in 1 .. Len(Tail(q)) : Tail(q)[i] = q[i + 1]
  BY <1>1, HeadTailProperties
<1>3. /\ <<s>> \o Tail(q) \in Seq(S) /\ Len(<<s>> \o Tail(q)) = Len(q)
      /\ \A i \in 1 .. Len(q) : (<<s>> \o Tail(q))[i] = IF i <= 1 THEN s ELSE Tail(q)[i - 1]
  <2>1. <<s>> \in Seq(S) /\ Len(<<s>>) = 1 /\ <<s>>[1] = s  OBVIOUS
  <2>. QED  BY <2>1, <1>1, <1>2, ConcatProperties
<1>4. \A i \in 1 .. Len(q) : (<<s>> \o Tail(q))[i] = q[i]
  BY <1>1, <1>2, <1>3
<1>. QED  BY <1>2, <1>3, <1>4, SeqEqual

\* The tree after re-rooting: a fresh root, or a subtree with nodes, edges and
\* ids as they were.
LEMMA PruneTree ==
  ASSUME Typed, Ids, NEW s \in Steps, Prune(s)
  PROVE  /\ << >> \in DOMAIN node' /\ DOMAIN node' \subseteq Seq(Steps)
         /\ node' \in [DOMAIN node' -> [id : Nat, visits : Nat]]
         /\ nextId' \in Nat /\ Ids'
         /\ edge' = [k \in DOMAIN edge' |-> edge'[k]]
         /\ \A k \in DOMAIN edge' :
              /\ k \in (DOMAIN node') \X Actions
              /\ \E j \in DOMAIN edge : edge'[k] = edge[j]
<1>. DEFINE r == <<s>>
<1>1. CASE r \notin DOMAIN node
  <2>1. node' = [p \in {<< >>} |-> Fresh(nextId)] /\ edge' = << >> /\ nextId' = nextId + 1
    BY <1>1 DEF Prune, FreshRoot
  <2>2. Fresh(nextId) \in [id : Nat, visits : Nat] /\ Fresh(nextId).id = nextId
        /\ nextId \in Nat
    BY DEF Fresh, Typed
  <2>3. DOMAIN node' = {<< >>} /\ node'[<< >>] = Fresh(nextId) /\ DOMAIN edge' = {}
    BY <2>1
  <2>4. Ids'  BY <2>1, <2>2, <2>3 DEF Ids, IdsUnique
  <2>5. << >> \in Seq(Steps) /\ edge' = [k \in DOMAIN edge' |-> edge'[k]]  BY <2>1
  <2>6. node' \in [DOMAIN node' -> [id : Nat, visits : Nat]]  BY <2>1, <2>2, <2>3
  <2>. QED  BY <2>1, <2>2, <2>3, <2>4, <2>5, <2>6
<1>2. CASE r \in DOMAIN node
  <2>. DEFINE M == {m \in DOMAIN node : IsPrefix(r, m)}
              F == {m \in DOMAIN edge : IsPrefix(r, m[1])}
  <2>1. /\ node' = [p \in {Tail(q) : q \in M} |-> node[r \o p]]
        /\ edge' = [k \in {<<Tail(j[1]), j[2]>> : j \in F} |-> edge[<<r \o k[1], k[2]>>]]
        /\ nextId' = nextId
    BY <1>2 DEF Prune
  <2>2. \A q \in M : q \in DOMAIN node /\ Tail(q) \in Seq(Steps) /\ r \o Tail(q) = q
    BY Rerooted DEF Typed
  <2>3. r \in M /\ Tail(r) = << >>
    <3>1. IsPrefix(r, r)  BY DEF IsPrefix
    <3>. QED  BY <3>1, <1>2
  <2>4. DOMAIN node' = {Tail(q) : q \in M}  BY <2>1
  <2>5. \A q \in M : Tail(q) \in DOMAIN node' /\ node'[Tail(q)] = node[q]
    BY <2>1, <2>2, <2>4
  <2>6. \A p \in DOMAIN node' : \E q \in M : p = Tail(q)  BY <2>4
  <2>7. << >> \in DOMAIN node' /\ DOMAIN node' \subseteq Seq(Steps)
    BY <2>2, <2>3, <2>5, <2>6
  <2>8. node' \in [DOMAIN node' -> [id : Nat, visits : Nat]]
    <3>1. ASSUME NEW p \in DOMAIN node'  PROVE node'[p] \in [id : Nat, visits : Nat]
      <4>1. PICK q \in M : p = Tail(q)  BY <2>6
      <4>2. node'[p] = node[q] /\ q \in DOMAIN node  BY <4>1, <2>2, <2>5
      <4>. QED  BY <4>2 DEF Typed
    <3>2. node' = [p \in DOMAIN node' |-> node'[p]]  BY <2>1
    <3>. QED  BY <3>1, <3>2
  <2>9. Ids'
    <3>1. ASSUME NEW p \in DOMAIN node'  PROVE node'[p].id < nextId'
      <4>1. PICK q \in M : p = Tail(q)  BY <2>6
      <4>2. node'[p] = node[q] /\ q \in DOMAIN node  BY <4>1, <2>2, <2>5
      <4>. QED  BY <4>2, <2>1 DEF Ids
    <3>2. ASSUME NEW p \in DOMAIN node', NEW t \in DOMAIN node', node'[p].id = node'[t].id
          PROVE  p = t
      <4>1. PICK q \in M : p = Tail(q)  BY <2>6
      <4>2. PICK u \in M : t = Tail(u)  BY <2>6
      <4>3. node'[p] = node[q] /\ q \in DOMAIN node /\ node'[t] = node[u] /\ u \in DOMAIN node
        BY <4>1, <4>2, <2>2, <2>5
      <4>4. q = u  BY <4>3, <3>2 DEF Ids, IdsUnique
      <4>. QED  BY <4>1, <4>2, <4>4
    <3>. QED  BY <3>1, <3>2 DEF Ids, IdsUnique
  <2>10. edge' = [k \in DOMAIN edge' |-> edge'[k]]  BY <2>1
  <2>11. ASSUME NEW k \in DOMAIN edge'
         PROVE  /\ k \in (DOMAIN node') \X Actions
                /\ \E j \in DOMAIN edge : edge'[k] = edge[j]
    <3>1. PICK j \in F : k = <<Tail(j[1]), j[2]>>  BY <2>1
    <3>2. j \in DOMAIN edge /\ j \in (DOMAIN node) \X Actions /\ IsPrefix(r, j[1])
      BY DEF Typed
    <3>3. j[1] \in M /\ j[2] \in Actions /\ j = <<j[1], j[2]>>  BY <3>2
    <3>4. Tail(j[1]) \in DOMAIN node' /\ r \o Tail(j[1]) = j[1]
      BY <3>3, <2>2, <2>5
    <3>5. edge'[k] = edge[<<r \o k[1], k[2]>>]  BY <2>1
    <3>6. <<r \o k[1], k[2]>> = j  BY <3>1, <3>3, <3>4
    <3>. QED  BY <3>1, <3>2, <3>3, <3>4, <3>5, <3>6
  <2>. QED  BY <2>1, <2>7, <2>8, <2>9, <2>10, <2>11 DEF Typed
<1>. QED  BY <1>1, <1>2

LEMMA IInvSearch ==
  ASSUME IInv, NEW k \in 0 .. MaxSamples, NEW s \in Steps, Search(k, s), UNCHANGED planner
  PROVE  IInv'
<1>. USE DEF IInv
<1>1. /\ pc = "idle" /\ samples' = k /\ dispatched' = 0 /\ Prune(s)
      /\ pc' = IF k = 0 THEN "idle"
               ELSE IF node'[<< >>].visits = 0 THEN "bootstrap" ELSE "dispatch"
      /\ UNCHANGED <<cursor, pending, groups, epoch>>
  BY DEF Search
<1>2. pending = << >> /\ cursor = << >> /\ groups = << >>  BY <1>1 DEF Budget
<1>3. k \in Nat  BY DEF Typed, MaxSamples
<1>4. /\ << >> \in DOMAIN node' /\ DOMAIN node' \subseteq Seq(Steps)
      /\ node' \in [DOMAIN node' -> [id : Nat, visits : Nat]]
      /\ nextId' \in Nat /\ Ids'
      /\ edge' = [j \in DOMAIN edge' |-> edge'[j]]
      /\ \A i \in DOMAIN edge' :
           /\ i \in (DOMAIN node') \X Actions
           /\ \E j \in DOMAIN edge : edge'[i] = edge[j]
  BY <1>1, PruneTree
<1>5. Typed'
  <2>1. Steps' = Steps /\ Actions' = Actions /\ Tasks' = Tasks  BY PlannerKept
  <2>2. \A i \in DOMAIN edge' : EdgeOk(edge'[i])  BY <1>4 DEF Typed
  <2>3. planner' = planner /\ samples' \in Nat /\ dispatched' \in Nat
        /\ cursor' = cursor /\ pending' = pending
    BY <1>1, <1>3
  <2>. QED  BY <1>4, <2>1, <2>2, <2>3 DEF Typed
<1>6. Walks'
  <2>1. Walk(<< >>, DOMAIN node', DOMAIN edge')  BY <1>4, WalkNothing
  <2>. QED  BY <1>1, <1>2, <2>1 DEF Walks
<1>7. OccupancyExact'
  <2>1. \A j \in DOMAIN edge : edge[j].o = 0
    BY <1>2, CountNothing, ThroughNothing, OccupancyIs
  <2>2. ASSUME NEW i \in DOMAIN edge'
        PROVE  edge'[i].o = Count(i, << >>) + (IF Through(i, << >>) THEN 1 ELSE 0)
    <3>1. PICK j \in DOMAIN edge : edge'[i] = edge[j]  BY <1>4
    <3>2. edge'[i].o = 0  BY <3>1, <2>1
    <3>3. Count(i, << >>) = 0  BY CountNothing
    <3>. QED  BY <3>2, <3>3, ThroughNothing
  <2>3. pending' = << >> /\ cursor' = << >>  BY <1>1, <1>2
  <2>. QED  BY <2>2, <2>3 DEF OccupancyExact, Count, InFlight
<1>8. Grouping'  BY <1>1, <1>2, NoGroups
<1>9. Used'  BY <1>4 DEF Used
<1>10. Budget'
  <2>1. CASE k = 0
    BY <2>1, <1>1, <1>2 DEF Budget
  <2>2. CASE k # 0 /\ pc' = "bootstrap"
    BY <2>2, <1>1, <1>2, <1>3 DEF Budget
  <2>3. CASE k # 0 /\ pc' = "dispatch"
    <3>1. BatchSize' = Smaller(Smaller(Workers, k), k - 0)  BY <1>1 DEF BatchSize
    <3>2. Smaller(Smaller(Workers, k), k - 0) > 0
      BY <2>3, <1>3, SmallerPositive, PlannerAssumption
    <3>3. Len(pending') < BatchSize'  BY <3>1, <3>2, <1>1, <1>2
    <3>. QED  BY <2>3, <3>3, <1>1, <1>2, <1>3 DEF Budget
  <2>. QED  BY <2>1, <2>2, <2>3, <1>1
<1>11. Served'
  <2>1. node'[<< >>].visits \in Nat  BY <1>4
  <2>2. pc' = "dispatch" => node'[<< >>].visits > 0  BY <2>1, <1>1
  <2>. QED  BY <2>2, <1>1, <1>3 DEF Served
<1>. QED  BY <1>4, <1>5, <1>6, <1>7, <1>8, <1>9, <1>10, <1>11

-----------------------------------------------------------------------------
(* The theorems *)

LEMMA IInvNext ==
  ASSUME IInv, [Next]_vars
  PROVE  IInv'
<1>1. CASE UNCHANGED vars
  <2>1. Typed'
    <3>1. Steps' = Steps /\ Actions' = Actions /\ Tasks' = Tasks  BY <1>1, PlannerKept DEF vars
    <3>. QED  BY <1>1, <3>1 DEF IInv, Typed, vars
  <2>2. Walks' /\ OccupancyExact' /\ Ids' /\ Grouping' /\ Used'
    BY <1>1 DEF IInv, vars, Walks, OccupancyExact, Ids, IdsUnique, Grouping, Used
  <2>3. Budget' /\ Served'
    <3>1. Actions' = Actions  BY <1>1, PlannerKept DEF vars
    <3>. QED  BY <1>1, <3>1 DEF IInv, vars, Budget, BatchSize, Served, RootDone
  <2>. QED  BY <2>1, <2>2, <2>3 DEF IInv
<1>2. ASSUME NEW a \in Actions, NEW x \in Rewards,
             Bootstrap(a, x) \/ Descend(a, x), UNCHANGED planner
      PROVE  IInv'
  BY <1>2, IInvBootstrap, IInvDescend
<1>3. ASSUME EndDispatch, UNCHANGED planner  PROVE IInv'
  BY <1>3, IInvEndDispatch
<1>4. ASSUME NEW i \in DOMAIN pending, NEW r \in {0} \cup Rewards, Rollout(i, r),
             UNCHANGED planner
      PROVE  IInv'
  BY <1>4, IInvRollout
<1>5. ASSUME Complete, UNCHANGED planner  PROVE IInv'
  BY <1>5, IInvComplete
<1>6. ASSUME NEW k \in 0 .. MaxSamples, NEW s \in Steps, Search(k, s), UNCHANGED planner
      PROVE  IInv'
  BY <1>6, IInvSearch
<1>. QED  BY <1>1, <1>2, <1>3, <1>4, <1>5, <1>6 DEF Next, Step

\* The strengthening holds in every reachable state.
THEOREM Inductive == Spec => []IInv
<1>. QED  BY IInvInit, IInvNext, PTL DEF Spec

\* The incomplete count of every edge is the number of rollouts in flight
\* through it: after a search nothing is left of them (parallel_uct.rs,
\* on_incomplete_update and on_complete_update).
THEOREM OccupancyIsExact == Spec => []OccupancyExact
<1>1. IInv => OccupancyExact  BY DEF IInv
<1>. QED  BY <1>1, Inductive, PTL

\* No two nodes share an id, whatever was pruned (allocate_node_id).
THEOREM IdsAreUnique == Spec => []IdsUnique
<1>1. IInv => IdsUnique  BY DEF IInv, Ids
<1>. QED  BY <1>1, Inductive, PTL

\* A search completes exactly its budget of rollouts, and leaves a completed
\* edge at the root, whatever the batches and whichever edges are retired.
THEOREM BudgetIsSpent == Spec => []BudgetSpent
<1>1. IInv => BudgetSpent
  <2>1. SUFFICES ASSUME IInv, pc = "idle"  PROVE dispatched = samples /\ (samples > 0 => RootDone)
    BY DEF BudgetSpent, RootDone
  <2>2. pending = << >> /\ cursor = << >> /\ dispatched = samples
    BY <2>1 DEF IInv, Budget
  <2>. QED  BY <2>1, <2>2 DEF IInv, Served
<1>. QED  BY <1>1, Inductive, PTL

\* Taking an edge is only for edges that are not retired.
LEMMA TakeSparesRetired ==
  ASSUME Typed, NEW p \in DOMAIN node, NEW a \in Actions, NEW x \in Rewards,
         Take(p, a, x), UNCHANGED planner, ~ Retired(<<p, a>>), NEW k, Retired(k)
  PROVE  Retired(k)' /\ edge'[k].o <= edge[k].o
<1>1. k \in DOMAIN edge /\ k # <<p, a>>  BY DEF Retired
<1>2. k \in DOMAIN edge' /\ edge'[k] = edge[k]  BY <1>1, TakeEdges
<1>3. Selectable(edge[k])' <=> Selectable(edge'[k])  BY DEF Selectable, Bu
<1>. QED  BY <1>1, <1>2, <1>3 DEF Retired, Typed, EdgeOk, Selectable, Bu

LEMMA RetiredStays ==
  ASSUME IInv, [Next]_vars, pc # "idle", NEW k \in DOMAIN edge, Retired(k)
  PROVE  Retired(k)' /\ edge'[k].o <= edge[k].o
<1>. USE DEF IInv
<1>0. edge[k].o \in Nat  BY DEF Typed, EdgeOk
<1>1. ASSUME UNCHANGED <<planner, edge>>  PROVE Retired(k)' /\ edge'[k].o <= edge[k].o
  BY <1>0, <1>1 DEF Retired, Selectable, Bu
<1>2. ASSUME NEW a \in Actions, NEW x \in Rewards, Bootstrap(a, x), UNCHANGED planner
      PROVE  Retired(k)' /\ edge'[k].o <= edge[k].o
  <2>1. Take(<< >>, a, x) /\ a \in BootstrapChoices  BY <1>2 DEF Bootstrap
  <2>2. <<<< >>, a>> \notin DOMAIN edge
    <3>. DEFINE j == <<<< >>, a>>
    <3>1. SUFFICES ASSUME j \in DOMAIN edge  PROVE FALSE  OBVIOUS
    <3>2. edge[j].n = 0 /\ edge[j].n + edge[j].o = 0
      BY <2>1, <3>1 DEF BootstrapChoices, EffectiveVisits
    <3>3. edge[j].n > 0 \/ edge[j].o > 0  BY <3>1 DEF Used
    <3>4. edge[j].n \in Nat /\ edge[j].o \in Nat  BY <3>1 DEF Typed, EdgeOk
    <3>. HIDE DEF j
    <3>. QED  BY <3>2, <3>3, <3>4
  <2>3. ~ Retired(<<<< >>, a>>) /\ << >> \in DOMAIN node  BY <2>2 DEF Retired, Typed
  <2>. QED  BY <1>2, <2>1, <2>3, TakeSparesRetired
<1>3. ASSUME NEW a \in Actions, NEW x \in Rewards, Descend(a, x), UNCHANGED planner
      PROVE  Retired(k)' /\ edge'[k].o <= edge[k].o
  <2>1. Take(cursor, a, x) /\ a \in Allowed(cursor)  BY <1>3 DEF Descend
  <2>2. ~ Retired(<<cursor, a>>)  BY <2>1 DEF Retired, Allowed, Unvisited
  <2>3. cursor \in DOMAIN node
    <3>1. Len(cursor) \in 0 .. Len(cursor)  BY LenProperties DEF Typed
    <3>2. Prefix(cursor, Len(cursor)) = cursor  BY PrefixFull DEF Typed
    <3>. QED  BY <3>1, <3>2 DEF Walks, Walk
  <2>. QED  BY <1>3, <2>1, <2>2, <2>3, TakeSparesRetired
<1>4. ASSUME Complete, UNCHANGED planner
      PROVE  Retired(k)' /\ edge'[k].o <= edge[k].o
  <2>1. pending # << >>  BY <1>4 DEF Complete, Budget
  <2>2. /\ k \in DOMAIN edge' /\ EdgeOk(edge'[k]) /\ edge'[k].obar = edge[k].obar
        /\ edge'[k].o = Decremented(edge[k].o) \/ edge'[k] = edge[k]
    BY <1>4, <2>1, CompleteEdges
  <2>3. edge'[k].o <= edge[k].o  BY <1>0, <2>2 DEF Decremented
  <2>4. Retired(k)'  BY <1>4, <2>2 DEF Retired, Selectable, Bu
  <2>. QED  BY <2>3, <2>4
<1>5. ASSUME EndDispatch \/ \E i \in DOMAIN pending, r \in {0} \cup Rewards : Rollout(i, r)
      PROVE  UNCHANGED edge
  BY <1>5 DEF EndDispatch, Rollout
<1>6. ASSUME NEW j \in 0 .. MaxSamples, NEW s \in Steps, Search(j, s)  PROVE FALSE
  BY <1>6 DEF Search
<1>. QED  BY <1>1, <1>2, <1>3, <1>4, <1>5, <1>6 DEF Next, Step, vars

\* A retired edge stays retired during a search, and no rollout takes it again.
THEOREM RetiredIsForGood == Spec => RetiredForGood
<1>1. IInv /\ [Next]_vars =>
        [pc # "idle" => \A k \in DOMAIN edge :
           Retired(k) => Retired(k)' /\ edge'[k].o <= edge[k].o]_vars
  BY RetiredStays
<1>. QED  BY <1>1, Inductive, PTL DEF RetiredForGood, Spec

-----------------------------------------------------------------------------
(* Sums of values at positions *)

\* A nonempty set of naturals has a least element.
LEMMA LeastNatural ==
  ASSUME NEW T \in SUBSET Nat, T # {}
  PROVE  \E m \in T : \A n \in T : m <= n
<1>1. PICK m \in T : \A n \in T : ~ (<<n, m>> \in OpToRel(<, Nat))
  <2>. HIDE DEF OpToRel
  <2>. QED  BY NatLessThanWellFounded, WFMin
<1>2. ASSUME NEW n \in T  PROVE m <= n
  <2>1. ~ (n < m)
    BY <1>1 DEF OpToRel
  <2>. QED  BY <2>1
<1>. QED  BY <1>2

\* f holds the sums of the first values, up to n of them.
Sums(f, S, value, n) ==
  f = [i \in 0 .. n |->
         IF i = 0 THEN 0 ELSE IF i \in S THEN f[i - 1] + value[i] ELSE f[i - 1]]

LEMMA SumsStep ==
  ASSUME NEW f, NEW S, NEW v, NEW n \in Nat, Sums(f, S, v, n)
  PROVE  /\ f[0] = 0
         /\ \A i \in 1 .. n : f[i] = IF i \in S THEN f[i - 1] + v[i] ELSE f[i - 1]
<1>1. \A i \in 0 .. n : f[i] = IF i = 0 THEN 0 ELSE IF i \in S THEN f[i - 1] + v[i] ELSE f[i - 1]
  <2>. DEFINE g == [i \in 0 .. n |->
                      IF i = 0 THEN 0 ELSE IF i \in S THEN f[i - 1] + v[i] ELSE f[i - 1]]
  <2>1. f = g
    BY DEF Sums
  <2>2. \A i \in 0 .. n : g[i] = IF i = 0 THEN 0 ELSE IF i \in S THEN f[i - 1] + v[i] ELSE f[i - 1]
    OBVIOUS
  <2>. HIDE DEF g
  <2>. QED  BY <2>1, <2>2
<1>2. 0 \in 0 .. n /\ \A i \in 1 .. n : i \in 0 .. n /\ i # 0
  OBVIOUS
<1>. QED  BY <1>1, <1>2

LEMMA SumsExtend ==
  ASSUME NEW f, NEW S, NEW v, NEW n \in Nat, Sums(f, S, v, n)
  PROVE  \E g : Sums(g, S, v, n + 1)
<1>. DEFINE last == IF n + 1 \in S THEN f[n] + v[n + 1] ELSE f[n]
            g == [i \in 0 .. n + 1 |-> IF i <= n THEN f[i] ELSE last]
            h == [i \in 0 .. n + 1 |->
                    IF i = 0 THEN 0 ELSE IF i \in S THEN g[i - 1] + v[i] ELSE g[i - 1]]
<1>0. /\ f[0] = 0
      /\ \A i \in 1 .. n : f[i] = IF i \in S THEN f[i - 1] + v[i] ELSE f[i - 1]
  BY SumsStep
<1>1. ASSUME NEW i \in 0 .. n + 1 PROVE g[i] = h[i]
  <2>1. g[i] = IF i <= n THEN f[i] ELSE last
    OBVIOUS
  <2>2. h[i] = IF i = 0 THEN 0 ELSE IF i \in S THEN g[i - 1] + v[i] ELSE g[i - 1]
    OBVIOUS
  <2>3. i # 0 => i - 1 \in 0 .. n + 1 /\ i - 1 <= n
    OBVIOUS
  <2>4. i # 0 => g[i - 1] = f[i - 1]
    BY <2>3
  <2>5. CASE i = 0
    <3>1. g[i] = f[0]
      BY <2>1, <2>5
    <3>2. h[i] = 0
      BY <2>2, <2>5
    <3>. QED  BY <3>1, <3>2, <1>0
  <2>. HIDE DEF g, h
  <2>6. CASE i # 0 /\ i <= n
    BY <1>0, <2>1, <2>2, <2>4, <2>6
  <2>7. CASE i = n + 1
    <3>1. i - 1 = n /\ ~(i <= n) /\ i # 0
      BY <2>7
    <3>2. g[i] = last
      BY <2>1, <3>1
    <3>3. h[i] = IF n + 1 \in S THEN f[n] + v[n + 1] ELSE f[n]
      <4>1. g[i - 1] = f[n]
        BY <2>4, <3>1
      <4>2. h[i] = IF i \in S THEN f[n] + v[i] ELSE f[n]
        BY <2>2, <3>1, <4>1
      <4>. QED  BY <2>7, <4>2
    <3>. QED  BY <3>2, <3>3
  <2>8. i = 0 \/ (i # 0 /\ i <= n) \/ i = n + 1
    OBVIOUS
  <2>. QED  BY <2>5, <2>6, <2>7, <2>8
<1>2. g = h
  <2>1. DOMAIN g = 0 .. n + 1 /\ DOMAIN h = 0 .. n + 1
    OBVIOUS
  <2>2. g = [i \in 0 .. n + 1 |-> g[i]] /\ h = [i \in 0 .. n + 1 |-> h[i]]
    OBVIOUS
  <2>. HIDE DEF g, h
  <2>. QED  BY <1>1, <2>2
<1>. QED
  <2>1. Sums(g, S, v, n + 1)
    <3>1. h = [i \in 0 .. n + 1 |->
                 IF i = 0 THEN 0 ELSE IF i \in S THEN g[i - 1] + v[i] ELSE g[i - 1]]
      OBVIOUS
    <3>. HIDE DEF g, h
    <3>. QED  BY <1>2, <3>1 DEF Sums
  <2>. HIDE DEF g
  <2>. QED  BY <2>1

LEMMA SumsExist ==
  ASSUME NEW S, NEW v, NEW n \in Nat
  PROVE  \E f : Sums(f, S, v, n)
<1>. DEFINE T == {m \in Nat : ~ \E f : Sums(f, S, v, m)}
<1>1. SUFFICES ASSUME n \in T PROVE FALSE
  OBVIOUS
<1>2. PICK m \in T : \A k \in T : m <= k
  <2>1. T \in SUBSET Nat /\ T # {}
    BY <1>1
  <2>. HIDE DEF T
  <2>. QED  BY <2>1, LeastNatural
<1>3. CASE m = 0
  <2>. DEFINE f == [i \in 0 .. 0 |-> 0]
              g == [i \in 0 .. 0 |->
                     IF i = 0 THEN 0 ELSE IF i \in S THEN f[i - 1] + v[i] ELSE f[i - 1]]
  <2>1. f = g
    OBVIOUS
  <2>2. Sums(f, S, v, 0)
    BY <2>1 DEF Sums
  <2>. HIDE DEF f
  <2>. QED  BY <2>2, <1>3
<1>4. CASE m # 0
  <2>1. m - 1 \in Nat /\ ~(m <= m - 1) /\ (m - 1) + 1 = m
    BY <1>4
  <2>2. m - 1 \notin T
    BY <1>2, <2>1
  <2>3. PICK f : Sums(f, S, v, m - 1)
    BY <2>1, <2>2
  <2>4. \E g : Sums(g, S, v, (m - 1) + 1)
    BY <2>1, <2>3, SumsExtend
  <2>. QED  BY <2>1, <2>4
<1>. QED  BY <1>3, <1>4

\* Sums of the same values are the same.
LEMMA SumsAgree ==
  ASSUME NEW f, NEW g, NEW S, NEW T, NEW v, NEW w, NEW n \in Nat, NEW m \in Nat, n <= m,
         Sums(f, S, v, n), Sums(g, T, w, m),
         \A i \in 1 .. n : (i \in S <=> i \in T) /\ (i \in S => v[i] = w[i])
  PROVE  f[n] = g[n]
<1>. DEFINE D == {k \in 0 .. n : f[k] # g[k]}
<1>0. /\ f[0] = 0 /\ \A i \in 1 .. n : f[i] = IF i \in S THEN f[i - 1] + v[i] ELSE f[i - 1]
      /\ g[0] = 0 /\ \A i \in 1 .. m : g[i] = IF i \in T THEN g[i - 1] + w[i] ELSE g[i - 1]
  BY SumsStep
<1>1. SUFFICES ASSUME D # {} PROVE FALSE
  OBVIOUS
<1>2. PICK k \in D : \A j \in D : k <= j
  <2>1. D \in SUBSET Nat
    OBVIOUS
  <2>. HIDE DEF D
  <2>. QED  BY <1>1, <2>1, LeastNatural
<1>3. k \in 1 .. n /\ k \in 1 .. m /\ k - 1 \in 0 .. n /\ ~(k <= k - 1)
  BY <1>0, <1>2
<1>4. f[k - 1] = g[k - 1]
  BY <1>2, <1>3
<1>5. f[k] = g[k]
  <2>. HIDE DEF D
  <2>. QED  BY <1>0, <1>3, <1>4
<1>. QED  BY <1>2, <1>5

LEMMA SumIs ==
  ASSUME NEW S, NEW v, NEW n \in Nat
  PROVE  \E f : Sums(f, S, v, n) /\ SumUpto(n, S, v) = f[n]
<1>. DEFINE f == CHOOSE f : Sums(f, S, v, n)
<1>1. Sums(f, S, v, n)
  BY SumsExist
<1>2. SumUpto(n, S, v) = f[n]
  BY DEF SumUpto, Sums
<1>. HIDE DEF f
<1>. QED  BY <1>1, <1>2

LEMMA SumSame ==
  ASSUME NEW n \in Nat, NEW S, NEW T, NEW v, NEW w,
         \A i \in 1 .. n : (i \in S <=> i \in T) /\ (i \in S => v[i] = w[i])
  PROVE  SumUpto(n, S, v) = SumUpto(n, T, w)
<1>1. PICK f : Sums(f, S, v, n) /\ SumUpto(n, S, v) = f[n]
  BY SumIs
<1>2. PICK g : Sums(g, T, w, n) /\ SumUpto(n, T, w) = g[n]
  BY SumIs
<1>3. f[n] = g[n]
  BY <1>1, <1>2, SumsAgree
<1>. QED  BY <1>1, <1>2, <1>3

\* One position more.
LEMMA SumMore ==
  ASSUME NEW n \in Nat, NEW m \in Nat, m = n + 1, NEW S, NEW T, NEW v, NEW w,
         \A i \in 1 .. n : (i \in S <=> i \in T) /\ (i \in S => v[i] = w[i])
  PROVE  SumUpto(m, T, w) =
           IF m \in T THEN SumUpto(n, S, v) + w[m] ELSE SumUpto(n, S, v)
<1>1. PICK f : Sums(f, S, v, n) /\ SumUpto(n, S, v) = f[n]
  BY SumIs
<1>2. PICK g : Sums(g, T, w, m) /\ SumUpto(m, T, w) = g[m]
  BY SumIs
<1>3. f[n] = g[n]
  BY n <= m, <1>1, <1>2, SumsAgree
<1>4. g[m] = IF m \in T THEN g[n] + w[m] ELSE g[n]
  <2>1. m \in 1 .. m /\ m - 1 = n
    OBVIOUS
  <2>2. \A i \in 1 .. m : g[i] = IF i \in T THEN g[i - 1] + w[i] ELSE g[i - 1]
    BY <1>2, <2>1, SumsStep
  <2>. QED  BY <2>1, <2>2
<1>. QED  BY <1>1, <1>2, <1>3, <1>4

LEMMA SumInt ==
  ASSUME NEW n \in Nat, NEW S, NEW v, \A i \in 1 .. n : i \in S => v[i] \in Int
  PROVE  SumUpto(n, S, v) \in Int
<1>1. PICK f : Sums(f, S, v, n) /\ SumUpto(n, S, v) = f[n]
  BY SumIs
<1>2. f[0] = 0 /\ \A i \in 1 .. n : f[i] = IF i \in S THEN f[i - 1] + v[i] ELSE f[i - 1]
  BY <1>1, SumsStep
<1>. DEFINE D == {k \in 0 .. n : f[k] \notin Int}
<1>3. SUFFICES ASSUME D # {} PROVE FALSE
  BY <1>1
<1>4. PICK k \in D : \A j \in D : k <= j
  <2>1. D \in SUBSET Nat
    OBVIOUS
  <2>. HIDE DEF D
  <2>. QED  BY <1>3, <2>1, LeastNatural
<1>5. k \in 1 .. n /\ k - 1 \in 0 .. n /\ ~(k <= k - 1) /\ f[k] \notin Int
  BY <1>2, <1>4
<1>6. f[k - 1] \in Int
  BY <1>4, <1>5
<1>. QED
  <2>. HIDE DEF D
  <2>. QED  BY <1>2, <1>5, <1>6

LEMMA SumNone ==
  ASSUME NEW n \in Nat, NEW S, NEW v, \A i \in 1 .. n : i \notin S
  PROVE  SumUpto(n, S, v) = 0
<1>1. PICK f : Sums(f, S, v, n) /\ SumUpto(n, S, v) = f[n]
  BY SumIs
<1>2. f[0] = 0 /\ \A i \in 1 .. n : f[i] = f[i - 1]
  BY <1>1, SumsStep
<1>. DEFINE D == {k \in 0 .. n : f[k] # 0}
<1>3. SUFFICES ASSUME D # {} PROVE FALSE
  BY <1>1
<1>4. PICK k \in D : \A j \in D : k <= j
  <2>1. D \in SUBSET Nat
    OBVIOUS
  <2>. HIDE DEF D
  <2>. QED  BY <1>3, <2>1, LeastNatural
<1>5. k \in 1 .. n /\ k - 1 \in 0 .. n /\ ~(k <= k - 1) /\ f[k] # 0
  BY <1>2, <1>4
<1>6. f[k - 1] # 0
  BY <1>2, <1>5
<1>. QED  BY <1>4, <1>5, <1>6

\* One value changed.
LEMMA SumChange ==
  ASSUME NEW n \in Nat, NEW S, NEW v, NEW w, NEW m \in 1 .. n, m \in S,
         \A i \in 1 .. n : i \in S => v[i] \in Int /\ w[i] \in Int,
         \A i \in 1 .. n : i \in S /\ i # m => v[i] = w[i]
  PROVE  SumUpto(n, S, w) = SumUpto(n, S, v) + (w[m] - v[m])
<1>1. PICK f : Sums(f, S, v, n) /\ SumUpto(n, S, v) = f[n]
  BY SumIs
<1>2. PICK g : Sums(g, S, w, n) /\ SumUpto(n, S, w) = g[n]
  BY SumIs
<1>3. /\ f[0] = 0 /\ \A i \in 1 .. n : f[i] = IF i \in S THEN f[i - 1] + v[i] ELSE f[i - 1]
      /\ g[0] = 0 /\ \A i \in 1 .. n : g[i] = IF i \in S THEN g[i - 1] + w[i] ELSE g[i - 1]
  BY <1>1, <1>2, SumsStep
<1>. DEFINE more(i) == IF m <= i THEN w[m] - v[m] ELSE 0
            Good(i) == f[i] \in Int /\ g[i] = f[i] + more(i)
            D == {k \in 0 .. n : ~ Good(k)}
<1>4. n \in 0 .. n /\ m <= n /\ v[m] \in Int /\ w[m] \in Int
  OBVIOUS
<1>5. SUFFICES ASSUME D # {} PROVE FALSE
  BY <1>1, <1>2, <1>4
<1>6. PICK k \in D : \A j \in D : k <= j
  <2>1. D \in SUBSET Nat
    OBVIOUS
  <2>. HIDE DEF D
  <2>. QED  BY <1>5, <2>1, LeastNatural
<1>7. k \in 0 .. n /\ ~ Good(k)
  BY <1>6
<1>8. k # 0
  <2>1. Good(0)
    BY <1>3, <1>4
  <2>. HIDE DEF Good
  <2>. QED  BY <1>7, <2>1
<1>9. k \in 1 .. n /\ k - 1 \in 0 .. n /\ ~(k <= k - 1)
  BY <1>7, <1>8
<1>10. Good(k - 1)
  <2>1. k - 1 \notin D
    BY <1>6, <1>9
  <2>. HIDE DEF Good
  <2>. QED  BY <1>9, <2>1
<1>. HIDE DEF D
<1>11. Good(k)
  <2>1. f[k - 1] \in Int /\ g[k - 1] = f[k - 1] + more(k - 1)
    BY <1>10
  <2>2. /\ f[k] = IF k \in S THEN f[k - 1] + v[k] ELSE f[k - 1]
        /\ g[k] = IF k \in S THEN g[k - 1] + w[k] ELSE g[k - 1]
    BY <1>3, <1>9
  <2>3. CASE k \notin S
    <3>1. k # m
      BY <2>3
    <3>2. more(k) = more(k - 1)
      BY <1>9, <3>1
    <3>. HIDE DEF more
    <3>. QED  BY <2>1, <2>2, <2>3, <3>2
  <2>4. CASE k \in S /\ k # m
    <3>1. more(k) = more(k - 1) /\ more(k) \in Int
      BY <1>4, <1>9, <2>4
    <3>2. v[k] = w[k] /\ v[k] \in Int
      BY <1>9, <2>4
    <3>. HIDE DEF more
    <3>. QED  BY <2>1, <2>2, <2>4, <3>1, <3>2
  <2>5. CASE k = m
    <3>1. more(k) = w[m] - v[m] /\ more(k - 1) = 0
      BY <1>9, <2>5
    <3>. HIDE DEF more
    <3>. QED  BY <2>1, <2>2, <2>5, <3>1, <1>4
  <2>. QED  BY <2>3, <2>4, <2>5
<1>. HIDE DEF Good
<1>. QED  BY <1>7, <1>11

\* All positions shifted by one.
LEMMA SumShift ==
  ASSUME NEW n \in Nat, NEW m \in Nat, m = n + 1, NEW S, NEW T, NEW v, NEW w, 1 \notin T,
         \A i \in 1 .. n : (i \in S <=> i + 1 \in T) /\ (i \in S => v[i] = w[i + 1])
  PROVE  SumUpto(m, T, w) = SumUpto(n, S, v)
<1>1. PICK f : Sums(f, S, v, n) /\ SumUpto(n, S, v) = f[n]
  BY SumIs
<1>2. PICK g : Sums(g, T, w, m) /\ SumUpto(m, T, w) = g[m]
  BY SumIs
<1>3. /\ f[0] = 0 /\ \A i \in 1 .. n : f[i] = IF i \in S THEN f[i - 1] + v[i] ELSE f[i - 1]
      /\ g[0] = 0 /\ \A i \in 1 .. m : g[i] = IF i \in T THEN g[i - 1] + w[i] ELSE g[i - 1]
  BY <1>1, <1>2, SumsStep
<1>. DEFINE D == {k \in 0 .. n : g[k + 1] # f[k]}
<1>4. SUFFICES ASSUME D # {} PROVE FALSE
  BY <1>1, <1>2
<1>5. PICK k \in D : \A j \in D : k <= j
  <2>1. D \in SUBSET Nat
    OBVIOUS
  <2>. HIDE DEF D
  <2>. QED  BY <1>4, <2>1, LeastNatural
<1>6. k # 0
  <2>1. g[1] = g[0]
    BY <1>3
  <2>. QED  BY <1>3, <1>5, <2>1
<1>7. k \in 1 .. n /\ k - 1 \in 0 .. n /\ ~(k <= k - 1) /\ (k - 1) + 1 = k
      /\ k + 1 \in 1 .. n + 1 /\ (k + 1) - 1 = k
  BY <1>5, <1>6
<1>8. g[k] = f[k - 1]
  <2>1. k - 1 \notin D
    BY <1>5, <1>7
  <2>. QED  BY <1>7, <2>1
<1>9. g[k + 1] = IF k + 1 \in T THEN g[k] + w[k + 1] ELSE g[k]
  BY <1>3, <1>7
<1>10. f[k] = IF k \in S THEN f[k - 1] + v[k] ELSE f[k - 1]
  BY <1>3, <1>7
<1>11. g[k + 1] = f[k]
  BY <1>7, <1>8, <1>9, <1>10
<1>. QED  BY <1>5, <1>11

-----------------------------------------------------------------------------
(* The returns of completed rollouts *)

Entries == [path : Seq(Steps), tail : Int, epoch : Int]

LEMMA RewardsInt == Rewards \subseteq Int
BY PlannerAssumption

LEMMA ReturnInt ==
  ASSUME NEW e, e.path \in Seq(Steps), e.tail \in Int, NEW d
  PROVE  Return(e, d) \in Int
<1>. DEFINE n == Len(e.path)
            v == [i \in DOMAIN e.path |-> e.path[i][2]]
            S == d + 1 .. n
<1>1. n \in Nat /\ DOMAIN e.path = 1 .. n
  OBVIOUS
<1>2. ASSUME NEW i \in 1 .. n  PROVE v[i] \in Int
  <2>1. e.path[i] \in Steps /\ v[i] = e.path[i][2]
    BY <1>1
  <2>. QED  BY <2>1, RewardsInt DEF Steps
<1>. HIDE DEF v, n, S
<1>3. SumUpto(n, S, v) \in Int
  BY <1>1, <1>2, SumInt
<1>. QED  BY <1>3 DEF Return, n, v, S

\* A task and its log entry return the same.
LEMMA ReturnSame ==
  ASSUME NEW e, NEW f, f.path = e.path, f.tail = e.tail, NEW d
  PROVE  Return(f, d) = Return(e, d)
BY DEF Return

LEMMA SumBelow ==
  ASSUME NEW n \in Nat, NEW d \in Nat, NEW v, NEW w, \A i \in 1 .. n : v[i] = w[i + 1]
  PROVE  SumUpto(n + 1, (d + 1) + 1 .. n + 1, w) = SumUpto(n, d + 1 .. n, v)
<1>1. PICK m, S, T : m \in Nat /\ m = n + 1 /\ S = d + 1 .. n /\ T = (d + 1) + 1 .. m
  OBVIOUS
<1>2. 1 \notin T
  BY <1>1
<1>3. \A i \in 1 .. n : (i \in S <=> i + 1 \in T) /\ (i \in S => v[i] = w[i + 1])
  BY <1>1
<1>4. m \in Nat /\ m = n + 1
  BY <1>1
<1>5. SumUpto(m, T, w) = SumUpto(n, S, v)
  BY <1>2, <1>3, <1>4, SumShift
<1>. QED  BY <1>1, <1>5

\* So does an entry seen from one step further down.
LEMMA ReturnBelow ==
  ASSUME NEW e, e.path \in Seq(Steps), e.path # << >>,
         NEW f, f.path = Tail(e.path), f.tail = e.tail, NEW d \in Nat
  PROVE  Return(f, d) = Return(e, d + 1)
<1>. DEFINE p == e.path
            q == Tail(e.path)
            n == Len(q)
            v == [i \in DOMAIN q |-> q[i][2]]
            w == [i \in DOMAIN p |-> p[i][2]]
            S == d + 1 .. n
            T == (d + 1) + 1 .. n + 1
<1>1. /\ n \in Nat /\ Len(p) = n + 1 /\ DOMAIN p = 1 .. n + 1 /\ DOMAIN q = 1 .. n
      /\ \A i \in 1 .. n : q[i] = p[i + 1]
  <2>1. q \in Seq(Steps) /\ Len(q) = Len(p) - 1 /\ \A i \in 1 .. Len(q) : q[i] = p[i + 1]
    BY HeadTailProperties
  <2>. QED  BY <2>1
<1>2. \A i \in 1 .. n : v[i] = q[i][2] /\ w[i + 1] = p[i + 1][2]
  BY <1>1
<1>3. 1 \notin T /\ \A i \in 1 .. n : (i \in S <=> i + 1 \in T)
  OBVIOUS
<1>4. \A i \in 1 .. n : v[i] = w[i + 1]
  BY <1>1, <1>2
<1>5. Return(f, d) = e.tail + SumUpto(n, S, v)
  BY DEF Return
<1>6. Return(e, d + 1) = e.tail + SumUpto(n + 1, T, w)
  BY <1>1 DEF Return
<1>. HIDE DEF p, q, n, v, w, S, T
<1>7. SumUpto(n + 1, T, w) = SumUpto(n, S, v)
  BY <1>1, <1>4, SumBelow DEF S, T
<1>. QED  BY <1>5, <1>6, <1>7

-----------------------------------------------------------------------------
(* What the rollouts of a log are worth to an edge *)

SamplesFor(L, k) == {i \in DOMAIN L : Through(k, L[i].path)}
ReturnsFor(L, k) == [i \in DOMAIN L |-> Return(L[i], Len(k[1]))]
ChildOf(L, k, i) == L[i].path[Len(k[1]) + 1]
GroupFor(L, k, i) ==
  {j \in SamplesFor(L, k) : L[j].epoch = L[i].epoch /\ ChildOf(L, k, j) = ChildOf(L, k, i)}
FirstsFor(L, k) == {i \in SamplesFor(L, k) : \A j \in GroupFor(L, k, i) : i <= j}
TotalFor(L, k, S) == SumUpto(Len(L), S, ReturnsFor(L, k))
MeansFor(L, k) ==
  [i \in DOMAIN L |->
     IF i \in SamplesFor(L, k)
     THEN TotalFor(L, k, GroupFor(L, k, i)) \div Cardinality(GroupFor(L, k, i)) ELSE 0]

\* Edge e has the statistics of the rollouts in L through k, grouped or not.
WorthWu(e, L, k) ==
  /\ e.n = Cardinality(SamplesFor(L, k))
  /\ e.sum = TotalFor(L, k, SamplesFor(L, k))
WorthBu(e, L, k) ==
  /\ e.n = Cardinality(FirstsFor(L, k))
  /\ e.sum = SumUpto(Len(L), FirstsFor(L, k), MeansFor(L, k))
Worth(e, L, k, bu) == IF bu THEN WorthBu(e, L, k) ELSE WorthWu(e, L, k)

\* The rollouts of a log that a node is visited by.
VisitorsFor(L, p) == {i \in DOMAIN L : L[i].epoch >= 0 /\ IsPrefix(p, L[i].path)}

LEMMA TreeMatchesIs ==
  TreeMatchesLog <=>
    /\ \A p \in DOMAIN node : node[p].visits = Cardinality(VisitorsFor(log, p))
    /\ \A k \in DOMAIN edge : Worth(edge[k], log, k, Bu)
<1>1. ASSUME NEW k  PROVE /\ Samples(k) = SamplesFor(log, k) /\ Returns(k) = ReturnsFor(log, k)
                          /\ \A i : GroupWith(k, i) = GroupFor(log, k, i)
  BY DEF Samples, SamplesFor, Returns, ReturnsFor, GroupWith, GroupFor, ChildBy, ChildOf
<1>2. ASSUME NEW k  PROVE Firsts(k) = FirstsFor(log, k) /\ Means(k) = MeansFor(log, k)
  BY <1>1 DEF Firsts, FirstsFor, Means, MeansFor, MeanOf, TotalFor
<1>3. ASSUME NEW k
      PROVE  Worth(edge[k], log, k, Bu) <=>
        /\ edge[k].n = Cardinality(IF Bu THEN Firsts(k) ELSE Samples(k))
        /\ edge[k].sum = SumUpto(Len(log), IF Bu THEN Firsts(k) ELSE Samples(k),
                                 IF Bu THEN Means(k) ELSE Returns(k))
  <2>1. CASE Bu
    BY <1>1, <1>2, <2>1 DEF Worth, WorthBu, WorthWu
  <2>2. CASE ~Bu
    BY <1>1, <1>2, <2>2 DEF Worth, WorthBu, WorthWu, TotalFor
  <2>. QED  BY <2>1, <2>2
<1>. QED  BY <1>3 DEF TreeMatchesLog, VisitorsFor

IsLog(L) == L \in Seq(Entries)

LEMMA LogFacts ==
  ASSUME NEW L, IsLog(L), NEW k
  PROVE  /\ Len(L) \in Nat /\ DOMAIN L = 1 .. Len(L)
         /\ \A i \in 1 .. Len(L) : /\ L[i] \in Entries /\ L[i].path \in Seq(Steps)
                                   /\ L[i].tail \in Int /\ L[i].epoch \in Int
         /\ SamplesFor(L, k) \subseteq 1 .. Len(L)
         /\ FirstsFor(L, k) \subseteq SamplesFor(L, k)
         /\ \A i : GroupFor(L, k, i) \subseteq SamplesFor(L, k)
         /\ \A i \in 1 .. Len(L) : ReturnsFor(L, k)[i] = Return(L[i], Len(k[1]))
         /\ \A i \in 1 .. Len(L) : Return(L[i], Len(k[1])) \in Int
<1>1. Len(L) \in Nat /\ DOMAIN L = 1 .. Len(L) /\ \A i \in 1 .. Len(L) : L[i] \in Entries
  BY DEF IsLog
<1>2. \A i \in 1 .. Len(L) : L[i].path \in Seq(Steps) /\ L[i].tail \in Int /\ L[i].epoch \in Int
  BY <1>1 DEF Entries
<1>3. SamplesFor(L, k) \subseteq 1 .. Len(L)
  BY <1>1 DEF SamplesFor
<1>4. FirstsFor(L, k) \subseteq SamplesFor(L, k) /\ \A i : GroupFor(L, k, i) \subseteq SamplesFor(L, k)
  BY DEF FirstsFor, GroupFor
<1>5. \A i \in 1 .. Len(L) : ReturnsFor(L, k)[i] = Return(L[i], Len(k[1]))
  BY <1>1 DEF ReturnsFor
<1>6. \A i \in 1 .. Len(L) : Return(L[i], Len(k[1])) \in Int
  BY <1>2, ReturnInt
<1>. QED  BY <1>1, <1>2, <1>3, <1>4, <1>5, <1>6

\* Sets of positions are finite.
LEMMA PositionsFinite ==
  ASSUME NEW n \in Nat, NEW S, S \subseteq 1 .. n
  PROVE  /\ IsFiniteSet(S) /\ Cardinality(S) \in Nat
         /\ S # {} => Cardinality(S) \in Nat \ {0}
         /\ Cardinality(S \cup {n + 1}) = Cardinality(S) + 1
<1>1. IsFiniteSet(S) /\ Cardinality(S) \in Nat
  <2>1. IsFiniteSet(1 .. n) /\ S \in SUBSET (1 .. n)
    BY FS_Interval
  <2>2. IsFiniteSet(S)
    BY <2>1, FS_Subset
  <2>. QED  BY <2>2, FS_CardinalityType
<1>2. S # {} => Cardinality(S) # 0
  BY <1>1, FS_EmptySet
<1>3. n + 1 \notin S
  OBVIOUS
<1>. QED  BY <1>1, <1>2, <1>3, FS_AddElement

\* Sums and means are integers.
LEMMA TotalInt ==
  ASSUME NEW L, IsLog(L), NEW k, NEW S, S \subseteq 1 .. Len(L)
  PROVE  TotalFor(L, k, S) \in Int
<1>1. \A i \in 1 .. Len(L) : i \in S => ReturnsFor(L, k)[i] \in Int
  <2>. SUFFICES ASSUME NEW i \in 1 .. Len(L)  PROVE ReturnsFor(L, k)[i] \in Int
    OBVIOUS
  <2>1. ReturnsFor(L, k)[i] = Return(L[i], Len(k[1]))
    BY LogFacts
  <2>2. Return(L[i], Len(k[1])) \in Int
    BY LogFacts
  <2>. QED  BY <2>1, <2>2
<1>. QED  BY <1>1, LogFacts, SumInt DEF TotalFor

LEMMA MeanInt ==
  ASSUME NEW L, IsLog(L), NEW k, NEW i \in SamplesFor(L, k)
  PROVE  /\ i \in GroupFor(L, k, i) /\ GroupFor(L, k, i) \subseteq 1 .. Len(L)
         /\ Cardinality(GroupFor(L, k, i)) \in Nat \ {0}
         /\ TotalFor(L, k, GroupFor(L, k, i)) \in Int
         /\ MeansFor(L, k)[i] =
              TotalFor(L, k, GroupFor(L, k, i)) \div Cardinality(GroupFor(L, k, i))
         /\ MeansFor(L, k)[i] \in Int
<1>. DEFINE G == GroupFor(L, k, i)
<1>1. i \in G /\ G \subseteq 1 .. Len(L) /\ i \in DOMAIN L
  BY LogFacts DEF GroupFor
<1>2. MeansFor(L, k)[i] = TotalFor(L, k, G) \div Cardinality(G)
  BY <1>1 DEF MeansFor
<1>. HIDE DEF G
<1>3. Cardinality(G) \in Nat \ {0}
  <2>1. G # {} /\ Len(L) \in Nat
    BY <1>1, LogFacts
  <2>. QED  BY <1>1, <2>1, PositionsFinite
<1>4. TotalFor(L, k, G) \in Int
  BY <1>1, TotalInt
<1>5. TotalFor(L, k, G) \div Cardinality(G) \in Int
  <2>1. PICK t \in Int, c \in Nat \ {0} : t = TotalFor(L, k, G) /\ c = Cardinality(G)
    BY <1>3, <1>4
  <2>2. t \div c \in Int
    OBVIOUS
  <2>. QED  BY <2>1, <2>2
<1>. QED  BY <1>1, <1>2, <1>3, <1>4, <1>5 DEF G

\* An edge that no rollout went through has the worth of a new one.
LEMMA WorthNone ==
  ASSUME NEW L, IsLog(L), NEW k, SamplesFor(L, k) = {}, NEW bu \in BOOLEAN,
         NEW e, e.n = 0, e.sum = 0
  PROVE  Worth(e, L, k, bu)
<1>1. FirstsFor(L, k) = {}
  BY LogFacts
<1>2. /\ SumUpto(Len(L), {}, MeansFor(L, k)) = 0
      /\ SumUpto(Len(L), {}, ReturnsFor(L, k)) = 0
  BY LogFacts, SumNone
<1>. QED  BY <1>1, <1>2, FS_EmptySet DEF Worth, WorthBu, WorthWu, TotalFor

\* The worth is that of the samples alone, wherever the edge stands.
LEMMA WorthSame ==
  ASSUME NEW L, IsLog(L), NEW M, IsLog(M), Len(M) = Len(L), NEW j, NEW k,
         SamplesFor(M, k) = SamplesFor(L, j),
         \A i \in SamplesFor(L, j) :
           /\ M[i].epoch = L[i].epoch /\ ChildOf(M, k, i) = ChildOf(L, j, i)
           /\ Return(M[i], Len(k[1])) = Return(L[i], Len(j[1])),
         NEW e, NEW bu, Worth(e, L, j, bu)
  PROVE  Worth(e, M, k, bu)
<1>. DEFINE n == Len(L)
            S == SamplesFor(L, j)
<1>1. n \in Nat /\ S \subseteq 1 .. n /\ SamplesFor(M, k) = S
  BY LogFacts
<1>2. \A i \in S : GroupFor(M, k, i) = GroupFor(L, j, i) /\ GroupFor(L, j, i) \subseteq S
  BY DEF GroupFor
<1>3. FirstsFor(M, k) = FirstsFor(L, j)
  BY <1>1, <1>2 DEF FirstsFor
<1>4. \A i \in S : ReturnsFor(M, k)[i] = ReturnsFor(L, j)[i]
  <2>. SUFFICES ASSUME NEW i \in S  PROVE ReturnsFor(M, k)[i] = ReturnsFor(L, j)[i]
    OBVIOUS
  <2>1. i \in 1 .. Len(L) /\ i \in 1 .. Len(M)
    BY <1>1
  <2>2. ReturnsFor(M, k)[i] = Return(M[i], Len(k[1]))
    BY <2>1, LogFacts
  <2>3. ReturnsFor(L, j)[i] = Return(L[i], Len(j[1]))
    BY <2>1, LogFacts
  <2>. QED  BY <2>2, <2>3
<1>5. ASSUME NEW T, T \subseteq S  PROVE TotalFor(M, k, T) = TotalFor(L, j, T)
  <2>1. \A i \in 1 .. n : (i \in T <=> i \in T) /\ (i \in T => ReturnsFor(M, k)[i] = ReturnsFor(L, j)[i])
    BY <1>4, <1>5
  <2>. QED  BY <1>1, <2>1, SumSame DEF TotalFor
<1>6. \A i \in S : MeansFor(M, k)[i] = MeansFor(L, j)[i]
  <2>. SUFFICES ASSUME NEW i \in S  PROVE MeansFor(M, k)[i] = MeansFor(L, j)[i]
    OBVIOUS
  <2>1. MeansFor(L, j)[i] = TotalFor(L, j, GroupFor(L, j, i)) \div Cardinality(GroupFor(L, j, i))
    BY MeanInt
  <2>2. MeansFor(M, k)[i] = TotalFor(M, k, GroupFor(M, k, i)) \div Cardinality(GroupFor(M, k, i))
    BY <1>1, MeanInt
  <2>3. TotalFor(M, k, GroupFor(L, j, i)) = TotalFor(L, j, GroupFor(L, j, i))
    BY <1>2, <1>5
  <2>. QED  BY <1>2, <2>1, <2>2, <2>3
<1>7. SumUpto(n, FirstsFor(M, k), MeansFor(M, k)) = SumUpto(n, FirstsFor(L, j), MeansFor(L, j))
  <2>1. FirstsFor(L, j) \subseteq S
    BY LogFacts
  <2>2. \A i \in 1 .. n : /\ i \in FirstsFor(M, k) <=> i \in FirstsFor(L, j)
                          /\ i \in FirstsFor(M, k) => MeansFor(M, k)[i] = MeansFor(L, j)[i]
    BY <1>3, <1>6, <2>1
  <2>. HIDE DEF n
  <2>. QED  BY <1>1, <2>2, SumSame
<1>8. TotalFor(M, k, S) = TotalFor(L, j, S)
  BY <1>5
<1>. QED
  <2>1. CASE bu
    BY <1>3, <1>7, <2>1 DEF Worth, WorthBu
  <2>2. CASE ~bu
    BY <1>1, <1>8, <2>2 DEF Worth, WorthWu
  <2>. QED  BY <2>1, <2>2

-----------------------------------------------------------------------------
(* One rollout more *)

LEMMA SumKept ==
  ASSUME NEW n \in Nat, NEW m \in Nat, m = n + 1, NEW S, NEW v, NEW w, m \notin S,
         \A i \in 1 .. n : (i \in S <=> i \in S) /\ (i \in S => v[i] = w[i])
  PROVE  SumUpto(m, S, w) = SumUpto(n, S, v)
BY SumMore

SumGrows(n, m, S, T, v, w) == SumUpto(m, T, w) = SumUpto(n, S, v) + w[m]

LEMMA SumAdded ==
  ASSUME NEW n \in Nat, NEW m \in Nat, m = n + 1, NEW S, NEW T, NEW v, NEW w, m \in T,
         \A i \in 1 .. n : (i \in S <=> i \in T) /\ (i \in S => v[i] = w[i])
  PROVE  SumGrows(n, m, S, T, v, w)
BY SumMore DEF SumGrows

\* Log M is log L with one entry more.
More(L, M) ==
  /\ IsLog(L) /\ IsLog(M) /\ Len(M) = Len(L) + 1
  /\ \A i \in 1 .. Len(L) : M[i] = L[i]

LEMMA MoreFacts ==
  ASSUME NEW L, NEW M, More(L, M), NEW k
  PROVE  /\ Len(L) \in Nat /\ Len(M) \in Nat /\ Len(M) = Len(L) + 1 /\ IsLog(L) /\ IsLog(M)
         /\ Len(M) \notin 1 .. Len(L) /\ \A i \in 1 .. Len(M) : i \in 1 .. Len(L) \/ i = Len(M)
         /\ SamplesFor(M, k) \cap (1 .. Len(L)) = SamplesFor(L, k)
         /\ Len(M) \in SamplesFor(M, k) <=> Through(k, M[Len(M)].path)
         /\ \A i \in 1 .. Len(L) : ReturnsFor(M, k)[i] = ReturnsFor(L, k)[i]
         /\ ReturnsFor(M, k)[Len(M)] = Return(M[Len(M)], Len(k[1]))
         /\ \A i \in 1 .. Len(L) : M[i].epoch = L[i].epoch /\ ChildOf(M, k, i) = ChildOf(L, k, i)
<1>1. /\ Len(L) \in Nat /\ Len(M) \in Nat /\ Len(M) = Len(L) + 1 /\ IsLog(L) /\ IsLog(M)
      /\ DOMAIN L = 1 .. Len(L) /\ DOMAIN M = 1 .. Len(M)
      /\ \A i \in 1 .. Len(L) : i \in 1 .. Len(M) /\ M[i] = L[i]
  BY LogFacts DEF More
<1>2. /\ Len(M) \notin 1 .. Len(L) /\ Len(M) \in 1 .. Len(M)
      /\ \A i \in 1 .. Len(M) : i \in 1 .. Len(L) \/ i = Len(M)
  BY <1>1
<1>3. SamplesFor(M, k) \cap (1 .. Len(L)) = SamplesFor(L, k)
  <2>1. \A i \in 1 .. Len(L) : i \in SamplesFor(M, k) <=> i \in SamplesFor(L, k)
    BY <1>1, Zenon DEF SamplesFor
  <2>2. SamplesFor(L, k) \subseteq 1 .. Len(L)
    BY <1>1, LogFacts
  <2>. QED  BY <2>1, <2>2
<1>4. Len(M) \in SamplesFor(M, k) <=> Through(k, M[Len(M)].path)
  BY <1>1, <1>2, Zenon DEF SamplesFor
<1>5. \A i \in 1 .. Len(L) : ReturnsFor(M, k)[i] = ReturnsFor(L, k)[i]
  BY <1>1 DEF ReturnsFor
<1>6. ReturnsFor(M, k)[Len(M)] = Return(M[Len(M)], Len(k[1]))
  BY <1>1, <1>2 DEF ReturnsFor
<1>7. \A i \in 1 .. Len(L) : M[i].epoch = L[i].epoch /\ ChildOf(M, k, i) = ChildOf(L, k, i)
  BY <1>1 DEF ChildOf
<1>. QED  BY <1>1, <1>2, <1>3, <1>4, <1>5, <1>6, <1>7

LEMMA MoreSame ==
  ASSUME NEW L, NEW M, More(L, M), NEW k, NEW i \in 1 .. Len(L)
  PROVE  M[i].epoch = L[i].epoch /\ ChildOf(M, k, i) = ChildOf(L, k, i)
BY DEF More, ChildOf

LEMMA MoreIndex ==
  ASSUME NEW L, NEW M, More(L, M)
  PROVE  /\ Len(L) \in Nat /\ Len(M) \in Nat /\ Len(M) = Len(L) + 1 /\ IsLog(L) /\ IsLog(M)
         /\ Len(M) \notin 1 .. Len(L) /\ \A i \in 1 .. Len(M) : i \in 1 .. Len(L) \/ i = Len(M)
BY MoreFacts

\* The totals of the earlier rollouts stay, and the last one adds its return.
TotalKept(L, M, k, S) == TotalFor(M, k, S) = TotalFor(L, k, S)
TotalGrown(L, M, k, S) ==
  TotalFor(M, k, S \cup {Len(M)}) = TotalFor(L, k, S) + Return(M[Len(M)], Len(k[1]))

LEMMA TotalMore ==
  ASSUME NEW L, NEW M, More(L, M), NEW k, NEW S, S \in SUBSET SamplesFor(L, k)
  PROVE  TotalKept(L, M, k, S) /\ TotalGrown(L, M, k, S)
<1>. DEFINE v == ReturnsFor(L, k)
            w == ReturnsFor(M, k)
            T == S \cup {Len(M)}
<1>1. PICK n \in Nat, m \in Nat : n = Len(L) /\ m = Len(M) /\ m = n + 1 /\ m \notin S /\ S \subseteq 1 .. n
  BY MoreFacts, LogFacts
<1>2. \A i \in 1 .. n : v[i] = w[i]
  BY <1>1, MoreFacts
<1>3. w[m] = Return(M[Len(M)], Len(k[1]))
  BY <1>1, MoreFacts
<1>4. m \in T /\ \A i \in 1 .. n : i \in S <=> i \in T
  BY <1>1
<1>5. TotalFor(L, k, S) = SumUpto(n, S, v) /\ TotalFor(M, k, S) = SumUpto(m, S, w)
      /\ TotalFor(M, k, T) = SumUpto(m, T, w)
  BY <1>1 DEF TotalFor
<1>. HIDE DEF v, w, T
<1>6. m = n + 1 /\ m \notin S
  BY <1>1
<1>7. SumUpto(m, S, w) = SumUpto(n, S, v)
  <2>1. \A i \in 1 .. n : (i \in S <=> i \in S) /\ (i \in S => v[i] = w[i])
    BY <1>2
  <2>. QED  BY <1>6, <2>1, SumMore
<1>8. SumUpto(m, T, w) = SumUpto(n, S, v) + w[m]
  <2>1. \A i \in 1 .. n : (i \in S <=> i \in T) /\ (i \in S => v[i] = w[i])
    BY <1>2, <1>4
  <2>. QED  BY <1>4, <1>6, <2>1, SumMore
<1>. QED  BY <1>3, <1>5, <1>7, <1>8 DEF T, TotalKept, TotalGrown

\* It is worth nothing to an edge it did not take.
LEMMA WorthBeside ==
  ASSUME NEW L, NEW M, More(L, M), NEW k, ~ Through(k, M[Len(M)].path),
         NEW e, NEW bu, Worth(e, L, k, bu)
  PROVE  Worth(e, M, k, bu)
<1>. DEFINE S == SamplesFor(L, k)
<1>1. SamplesFor(M, k) = S /\ S \subseteq 1 .. Len(L) /\ FirstsFor(L, k) \subseteq S
      /\ IsLog(L) /\ IsLog(M) /\ \A i : GroupFor(L, k, i) \subseteq S
  <2>1. /\ IsLog(L) /\ IsLog(M) /\ SamplesFor(M, k) \cap (1 .. Len(L)) = S
        /\ Len(M) \notin SamplesFor(M, k)
        /\ \A i \in 1 .. Len(M) : i \in 1 .. Len(L) \/ i = Len(M)
    BY MoreFacts
  <2>2. SamplesFor(M, k) \subseteq 1 .. Len(M) /\ S \subseteq 1 .. Len(L)
        /\ FirstsFor(L, k) \subseteq S /\ \A i : GroupFor(L, k, i) \subseteq S
    BY <2>1, LogFacts
  <2>3. SamplesFor(M, k) = S
    BY <2>1, <2>2
  <2>. QED  BY <2>1, <2>2, <2>3
<1>. HIDE DEF S
<1>2. \A i \in S : GroupFor(M, k, i) = GroupFor(L, k, i)
  <2>. SUFFICES ASSUME NEW i \in S  PROVE GroupFor(M, k, i) = GroupFor(L, k, i)
    OBVIOUS
  <2>1. \A j \in S : M[j].epoch = L[j].epoch /\ ChildOf(M, k, j) = ChildOf(L, k, j)
    BY <1>1, MoreFacts
  <2>. QED  BY <1>1, <2>1 DEF GroupFor, S
<1>3. FirstsFor(M, k) = FirstsFor(L, k)
  BY <1>1, <1>2 DEF FirstsFor, S
<1>4. ASSUME NEW T, T \subseteq S  PROVE TotalFor(M, k, T) = TotalFor(L, k, T)
  <2>1. T \in SUBSET SamplesFor(L, k)
    BY <1>4 DEF S
  <2>2. TotalKept(L, M, k, T)
    BY <2>1, TotalMore
  <2>. QED  BY <2>2 DEF TotalKept
<1>5. \A i \in S : MeansFor(M, k)[i] = MeansFor(L, k)[i]
  <2>. SUFFICES ASSUME NEW i \in S  PROVE MeansFor(M, k)[i] = MeansFor(L, k)[i]
    OBVIOUS
  <2>1. MeansFor(L, k)[i] = TotalFor(L, k, GroupFor(L, k, i)) \div Cardinality(GroupFor(L, k, i))
    BY <1>1, MeanInt DEF S
  <2>2. MeansFor(M, k)[i] = TotalFor(M, k, GroupFor(M, k, i)) \div Cardinality(GroupFor(M, k, i))
    BY <1>1, MeanInt
  <2>3. TotalFor(M, k, GroupFor(L, k, i)) = TotalFor(L, k, GroupFor(L, k, i))
    BY <1>1, <1>4
  <2>. QED  BY <1>2, <2>1, <2>2, <2>3
<1>6. SumUpto(Len(M), FirstsFor(M, k), MeansFor(M, k)) = SumUpto(Len(L), FirstsFor(L, k), MeansFor(L, k))
  <2>1. PICK n, m, F, v, w :
          /\ n \in Nat /\ m \in Nat /\ n = Len(L) /\ m = Len(M) /\ m = n + 1 /\ Len(M) \notin 1 .. Len(L)
          /\ F = FirstsFor(L, k) /\ v = MeansFor(L, k) /\ w = MeansFor(M, k)
    BY MoreFacts
  <2>2. n \in Nat /\ m \in Nat /\ m = n + 1 /\ m \notin F
    BY <1>1, <2>1
  <2>3. \A i \in 1 .. n : (i \in F <=> i \in F) /\ (i \in F => v[i] = w[i])
    BY <1>1, <1>5, <2>1
  <2>4. SumUpto(m, F, w) = SumUpto(n, F, v)
    BY <2>2, <2>3, SumKept
  <2>. QED  BY <1>3, <2>1, <2>4
<1>7. TotalFor(M, k, S) = TotalFor(L, k, S)
  BY <1>4
<1>. QED
  <2>1. CASE bu
    BY <1>3, <1>6, <2>1 DEF Worth, WorthBu
  <2>2. CASE ~bu
    BY <1>1, <1>7, <2>2 DEF Worth, WorthWu, S
  <2>. QED  BY <2>1, <2>2

\* Without groups it counts at every edge it took.
LEMMA WorthCounted ==
  ASSUME NEW L, NEW M, More(L, M), NEW k, Through(k, M[Len(M)].path),
         NEW e, WorthWu(e, L, k), NEW f,
         f.n = e.n + 1, f.sum = e.sum + Return(M[Len(M)], Len(k[1]))
  PROVE  WorthWu(f, M, k)
<1>1. SamplesFor(M, k) = SamplesFor(L, k) \cup {Len(M)} /\ SamplesFor(L, k) \subseteq 1 .. Len(L)
  <2>1. /\ IsLog(L) /\ IsLog(M) /\ SamplesFor(M, k) \cap (1 .. Len(L)) = SamplesFor(L, k)
        /\ \A i \in 1 .. Len(M) : i \in 1 .. Len(L) \/ i = Len(M)
    <3>1. SamplesFor(M, k) \cap (1 .. Len(L)) = SamplesFor(L, k)
      BY MoreFacts
    <3>. QED  BY <3>1, MoreIndex
  <2>3. Len(M) \in SamplesFor(M, k)
    BY MoreFacts
  <2>2. SamplesFor(M, k) \subseteq 1 .. Len(M) /\ SamplesFor(L, k) \subseteq 1 .. Len(L)
    BY <2>1, LogFacts
  <2>. QED  BY <2>1, <2>2, <2>3
<1>2. Cardinality(SamplesFor(M, k)) = Cardinality(SamplesFor(L, k)) + 1
  <2>1. PICK n, S : n = Len(L) /\ S = SamplesFor(L, k)
    OBVIOUS
  <2>2. n \in Nat /\ S \subseteq 1 .. n /\ SamplesFor(M, k) = S \cup {n + 1}
    BY <1>1, <2>1, MoreFacts
  <2>3. Cardinality(S \cup {n + 1}) = Cardinality(S) + 1
    BY <2>2, PositionsFinite
  <2>. QED  BY <2>1, <2>2, <2>3
<1>3. TotalFor(M, k, SamplesFor(M, k)) =
        TotalFor(L, k, SamplesFor(L, k)) + Return(M[Len(M)], Len(k[1]))
  <2>1. TotalGrown(L, M, k, SamplesFor(L, k))
    BY TotalMore
  <2>. QED  BY <1>1, <2>1 DEF TotalGrown
<1>. QED  BY <1>2, <1>3 DEF WorthWu

-----------------------------------------------------------------------------
(* One rollout more through an edge, in groups *)

\* The earlier rollouts that the last one is grouped with.
Joined(L, M, k) ==
  {j \in SamplesFor(L, k) :
     L[j].epoch = M[Len(M)].epoch /\ ChildOf(L, k, j) = ChildOf(M, k, Len(M))}

LEMMA SamplesMore ==
  ASSUME NEW L, NEW M, More(L, M), NEW k, Through(k, M[Len(M)].path)
  PROVE  /\ SamplesFor(M, k) = SamplesFor(L, k) \cup {Len(M)}
         /\ SamplesFor(L, k) \subseteq 1 .. Len(L)
         /\ Joined(L, M, k) \subseteq SamplesFor(L, k)
         /\ Len(M) \notin SamplesFor(L, k)
<1>1. /\ IsLog(L) /\ IsLog(M) /\ SamplesFor(M, k) \cap (1 .. Len(L)) = SamplesFor(L, k)
      /\ \A i \in 1 .. Len(M) : i \in 1 .. Len(L) \/ i = Len(M)
  <2>1. SamplesFor(M, k) \cap (1 .. Len(L)) = SamplesFor(L, k)
    BY MoreFacts
  <2>. QED  BY <2>1, MoreIndex
<1>2. Len(M) \in SamplesFor(M, k)
  BY MoreFacts
<1>3. SamplesFor(M, k) \subseteq 1 .. Len(M) /\ SamplesFor(L, k) \subseteq 1 .. Len(L)
  BY <1>1, LogFacts
<1>4. Len(M) \notin 1 .. Len(L)
  BY MoreIndex
<1>5. SamplesFor(M, k) = SamplesFor(L, k) \cup {Len(M)}
  BY <1>1, <1>2, <1>3
<1>6. Len(M) \notin SamplesFor(L, k)
  BY <1>3, <1>4
<1>7. Joined(L, M, k) \subseteq SamplesFor(L, k)
  BY DEF Joined
<1>. QED  BY <1>3, <1>5, <1>6, <1>7

LEMMA GroupsMore ==
  ASSUME NEW L, NEW M, More(L, M), NEW k, Through(k, M[Len(M)].path)
  PROVE  /\ GroupFor(M, k, Len(M)) = Joined(L, M, k) \cup {Len(M)}
         /\ \A i \in SamplesFor(L, k) : i \notin Joined(L, M, k) =>
              GroupFor(M, k, i) = GroupFor(L, k, i)
         /\ \A i \in Joined(L, M, k) :
              /\ GroupFor(L, k, i) = Joined(L, M, k)
              /\ GroupFor(M, k, i) = Joined(L, M, k) \cup {Len(M)}
<1>. DEFINE S == SamplesFor(L, k)
            m == Len(M)
            G == Joined(L, M, k)
<1>1. SamplesFor(M, k) = S \cup {m} /\ m \notin S /\ S \subseteq 1 .. Len(L) /\ G \subseteq S
  BY SamplesMore
<1>2. \A j \in S : M[j].epoch = L[j].epoch /\ ChildOf(M, k, j) = ChildOf(L, k, j)
  <2>1. \A j \in 1 .. Len(L) : M[j].epoch = L[j].epoch /\ ChildOf(M, k, j) = ChildOf(L, k, j)
    BY MoreSame
  <2>. QED  BY <1>1, <2>1
<1>3. \A j : j \in G <=> j \in S /\ L[j].epoch = M[m].epoch /\ ChildOf(L, k, j) = ChildOf(M, k, m)
  BY DEF Joined
<1>4. \A i, j : j \in GroupFor(M, k, i) <=>
        j \in S \cup {m} /\ M[j].epoch = M[i].epoch /\ ChildOf(M, k, j) = ChildOf(M, k, i)
  BY <1>1 DEF GroupFor
<1>5. \A i, j : j \in GroupFor(L, k, i) <=>
        j \in S /\ L[j].epoch = L[i].epoch /\ ChildOf(L, k, j) = ChildOf(L, k, i)
  BY DEF GroupFor
<1>. HIDE DEF S, m, G
<1>6. GroupFor(M, k, m) = G \cup {m}
  <2>1. \A j : j \in GroupFor(M, k, m) <=> j \in G \cup {m}
    BY <1>1, <1>2, <1>3, <1>4
  <2>. QED  BY <2>1
<1>7. ASSUME NEW i \in S, i \notin G  PROVE GroupFor(M, k, i) = GroupFor(L, k, i)
  <2>1. \A j : j \in GroupFor(M, k, i) <=> j \in GroupFor(L, k, i)
    BY <1>2, <1>3, <1>4, <1>5, <1>7
  <2>. QED  BY <2>1
<1>8. ASSUME NEW i \in G  PROVE GroupFor(L, k, i) = G /\ GroupFor(M, k, i) = G \cup {m}
  <2>1. \A j : j \in GroupFor(L, k, i) <=> j \in G
    BY <1>1, <1>3, <1>5
  <2>2. \A j : j \in GroupFor(M, k, i) <=> j \in G \cup {m}
    <3>1. M[i].epoch = M[m].epoch /\ ChildOf(M, k, i) = ChildOf(M, k, m) /\ i \in S
      BY <1>1, <1>2, <1>3
    <3>2. \A j : j \in GroupFor(M, k, i) <=> j \in GroupFor(M, k, m)
      BY <1>4, <3>1
    <3>. QED  BY <1>6, <3>2
  <2>. QED  BY <2>1, <2>2
<1>. QED  BY <1>6, <1>7, <1>8 DEF S, m, G

LEMMA FirstsMore ==
  ASSUME NEW L, NEW M, More(L, M), NEW k, Through(k, M[Len(M)].path)
  PROVE  FirstsFor(M, k) =
           IF Joined(L, M, k) = {} THEN FirstsFor(L, k) \cup {Len(M)} ELSE FirstsFor(L, k)
<1>. DEFINE S == SamplesFor(L, k)
            G == Joined(L, M, k)
<1>1. PICK n \in Nat, m \in Nat : n = Len(L) /\ m = Len(M) /\ m = n + 1
  BY MoreIndex
<1>2. SamplesFor(M, k) = S \cup {m} /\ m \notin S /\ S \subseteq 1 .. n /\ G \subseteq S
  <2>1. /\ SamplesFor(M, k) = S \cup {Len(M)} /\ S \subseteq 1 .. Len(L)
        /\ G \subseteq S /\ Len(M) \notin S
    BY SamplesMore
  <2>. QED  BY <1>1, <2>1
<1>3. /\ GroupFor(M, k, m) = G \cup {m}
      /\ \A i \in S : i \notin G => GroupFor(M, k, i) = GroupFor(L, k, i)
      /\ \A i \in G : GroupFor(L, k, i) = G /\ GroupFor(M, k, i) = G \cup {m}
  <2>1. GroupFor(M, k, Len(M)) = G \cup {Len(M)}
    BY GroupsMore
  <2>2. \A i \in S : i \notin G => GroupFor(M, k, i) = GroupFor(L, k, i)
    BY GroupsMore
  <2>3. \A i \in G : GroupFor(L, k, i) = G /\ GroupFor(M, k, i) = G \cup {Len(M)}
    BY GroupsMore
  <2>. QED  BY <1>1, <2>1, <2>2, <2>3
<1>4. \A i : i \in FirstsFor(M, k) <=> i \in S \cup {m} /\ \A j \in GroupFor(M, k, i) : i <= j
  BY <1>2 DEF FirstsFor
<1>5. \A i : i \in FirstsFor(L, k) <=> i \in S /\ \A j \in GroupFor(L, k, i) : i <= j
  BY DEF FirstsFor
<1>. HIDE DEF S, G
<1>6. ASSUME NEW i \in S  PROVE i \in FirstsFor(M, k) <=> i \in FirstsFor(L, k)
  <2>1. CASE i \notin G
    BY <1>3, <1>4, <1>5, <2>1
  <2>2. CASE i \in G
    <3>1. i <= m
      BY <1>1, <1>2
    <3>2. (\A j \in G \cup {m} : i <= j) <=> \A j \in G : i <= j
      BY <3>1
    <3>. QED  BY <1>3, <1>4, <1>5, <2>2, <3>2
  <2>. QED  BY <2>1, <2>2
<1>7. m \in FirstsFor(M, k) <=> G = {}
  <2>1. \A j \in G : ~ (m <= j)
    BY <1>1, <1>2
  <2>2. m <= m
    BY <1>1
  <2>. QED  BY <1>3, <1>4, <2>1, <2>2
<1>8. m \notin FirstsFor(L, k)
  BY <1>2, <1>5
<1>9. \A i : i \in FirstsFor(M, k) \/ i \in FirstsFor(L, k) => i \in S \cup {m}
  BY <1>4, <1>5
<1>10. FirstsFor(M, k) = IF G = {} THEN FirstsFor(L, k) \cup {m} ELSE FirstsFor(L, k)
  <2>1. CASE G = {}
    <3>1. \A i : i \in FirstsFor(M, k) <=> i \in FirstsFor(L, k) \/ i = m
      BY <1>6, <1>7, <1>9, <2>1
    <3>. QED  BY <2>1, <3>1
  <2>2. CASE G # {}
    <3>1. \A i : i \in FirstsFor(M, k) <=> i \in FirstsFor(L, k)
      BY <1>6, <1>7, <1>8, <1>9, <2>2
    <3>. QED  BY <2>2, <3>1
  <2>. QED  BY <2>1, <2>2
<1>. QED  BY <1>1, <1>10 DEF G

\* The means of the groups that the last rollout does not join are as before.
LEMMA MeansMore ==
  ASSUME NEW L, NEW M, More(L, M), NEW k, Through(k, M[Len(M)].path),
         NEW i \in SamplesFor(L, k), i \notin Joined(L, M, k)
  PROVE  MeansFor(M, k)[i] = MeansFor(L, k)[i]
<1>. DEFINE G == GroupFor(L, k, i)
<1>1. IsLog(L) /\ IsLog(M)
  BY MoreIndex
<1>2. i \in SamplesFor(M, k)
  BY SamplesMore
<1>3. GroupFor(M, k, i) = G
  BY GroupsMore
<1>4. MeansFor(L, k)[i] = TotalFor(L, k, G) \div Cardinality(G)
  BY <1>1, MeanInt
<1>5. MeansFor(M, k)[i] = TotalFor(M, k, G) \div Cardinality(G)
  BY <1>1, <1>2, <1>3, MeanInt
<1>6. TotalFor(M, k, G) = TotalFor(L, k, G)
  <2>1. G \in SUBSET SamplesFor(L, k)
    BY <1>1, LogFacts
  <2>. HIDE DEF G
  <2>2. TotalKept(L, M, k, G)
    BY <2>1, TotalMore
  <2>. QED  BY <2>2 DEF TotalKept
<1>. QED  BY <1>4, <1>5, <1>6

\* The mean of the group it joins.
LEMMA MeanJoined ==
  ASSUME NEW L, NEW M, More(L, M), NEW k, Through(k, M[Len(M)].path),
         NEW i \in Joined(L, M, k) \cup {Len(M)}
  PROVE  MeansFor(M, k)[i] =
           (TotalFor(L, k, Joined(L, M, k)) + Return(M[Len(M)], Len(k[1])))
             \div (Cardinality(Joined(L, M, k)) + 1)
<1>. DEFINE G == Joined(L, M, k)
            m == Len(M)
<1>1. IsLog(L) /\ IsLog(M)
  BY MoreIndex
<1>2. i \in SamplesFor(M, k) /\ G \in SUBSET SamplesFor(L, k)
  BY SamplesMore
<1>3. GroupFor(M, k, i) = G \cup {m}
  BY GroupsMore
<1>4. MeansFor(M, k)[i] = TotalFor(M, k, G \cup {m}) \div Cardinality(G \cup {m})
  BY <1>1, <1>2, <1>3, MeanInt
<1>5. TotalFor(M, k, G \cup {m}) = TotalFor(L, k, G) + Return(M[m], Len(k[1]))
  <2>. HIDE DEF G
  <2>1. TotalGrown(L, M, k, G)
    BY <1>2, TotalMore
  <2>. QED  BY <2>1 DEF TotalGrown
<1>6. Cardinality(G \cup {m}) = Cardinality(G) + 1
  <2>1. PICK n : n = Len(L)
    OBVIOUS
  <2>2. n \in Nat /\ m = n + 1
    BY <2>1, MoreIndex
  <2>3. G \subseteq 1 .. n
    BY <1>2, <2>1, SamplesMore
  <2>. HIDE DEF G, m
  <2>4. Cardinality(G \cup {n + 1}) = Cardinality(G) + 1
    BY <2>2, <2>3, PositionsFinite
  <2>. QED  BY <2>2, <2>4
<1>. QED  BY <1>4, <1>5, <1>6

\* The first of its group counts with its own return.
LEMMA WorthFirst ==
  ASSUME NEW L, NEW M, More(L, M), NEW k, Through(k, M[Len(M)].path), Joined(L, M, k) = {},
         NEW e, WorthBu(e, L, k), NEW f,
         f.n = e.n + 1, f.sum = e.sum + Return(M[Len(M)], Len(k[1]))
  PROVE  WorthBu(f, M, k)
<1>. DEFINE F == FirstsFor(L, k)
            v == MeansFor(L, k)
            w == MeansFor(M, k)
            r == Return(M[Len(M)], Len(k[1]))
            T == F \cup {Len(M)}
<1>1. FirstsFor(M, k) = F \cup {Len(M)}
  BY FirstsMore
<1>2. IsLog(L) /\ IsLog(M) /\ Len(L) \in Nat /\ Len(M) \in Nat /\ Len(M) = Len(L) + 1
  BY MoreIndex
<1>3. F \subseteq SamplesFor(L, k) /\ SamplesFor(L, k) \subseteq 1 .. Len(L)
      /\ Len(M) \notin SamplesFor(L, k)
  BY <1>2, LogFacts, SamplesMore
<1>4. \A i \in F : v[i] = w[i]
  BY <1>3, MeansMore
<1>5. r \in Int
  <2>1. Len(M) \in 1 .. Len(M)
    BY <1>2
  <2>. QED  BY <1>2, <2>1, LogFacts
<1>6. w[Len(M)] = r
  <2>1. w[Len(M)] = (TotalFor(L, k, {}) + r) \div (Cardinality({}) + 1)
    BY MeanJoined
  <2>2. TotalFor(L, k, {}) = 0
    BY <1>2, SumNone DEF TotalFor
  <2>3. Cardinality({}) = 0
    BY FS_EmptySet
  <2>. HIDE DEF w, r
  <2>4. (0 + r) \div (0 + 1) = r
    BY <1>5
  <2>. QED  BY <2>1, <2>2, <2>3, <2>4
<1>. HIDE DEF F, v, w, r
<1>7. Cardinality(T) = Cardinality(F) + 1
  <2>1. PICK n : n = Len(L)
    OBVIOUS
  <2>2. n \in Nat /\ F \subseteq 1 .. n /\ T = F \cup {n + 1}
    BY <1>2, <1>3, <2>1
  <2>3. Cardinality(F \cup {n + 1}) = Cardinality(F) + 1
    BY <2>2, PositionsFinite
  <2>. QED  BY <2>2, <2>3
<1>8. SumUpto(Len(M), T, w) = SumUpto(Len(L), F, v) + r
  <2>1. PICK n \in Nat, m \in Nat : n = Len(L) /\ m = Len(M) /\ m = n + 1
    BY <1>2
  <2>2. m \in T /\ \A i \in 1 .. n : i \in F <=> i \in T
    BY <2>1
  <2>3. \A i \in 1 .. n : (i \in F <=> i \in T) /\ (i \in F => v[i] = w[i])
    BY <1>4, <2>2
  <2>. HIDE DEF T
  <2>4. m = n + 1 /\ m \in T
    BY <2>1, <2>2
  <2>5. SumUpto(m, T, w) = SumUpto(n, F, v) + w[m]
    <3>1. SumGrows(n, m, F, T, v, w)
      BY <2>3, <2>4, SumAdded
    <3>. QED  BY <3>1 DEF SumGrows
  <2>. QED  BY <1>6, <2>1, <2>5
<1>9. e.n = Cardinality(F) /\ e.sum = SumUpto(Len(L), F, v)
  BY DEF WorthBu, F, v
<1>10. FirstsFor(M, k) = T /\ MeansFor(M, k) = w
  BY <1>1 DEF F, w
<1>11. f.n = Cardinality(T) /\ f.sum = SumUpto(Len(M), T, w)
  BY <1>7, <1>8, <1>9 DEF r
<1>. QED  BY <1>10, <1>11 DEF WorthBu

\* A later one moves the mean of its group.
LEMMA WorthNext ==
  ASSUME NEW L, NEW M, More(L, M), NEW k, Through(k, M[Len(M)].path), Joined(L, M, k) # {},
         NEW e, WorthBu(e, L, k), NEW f, f.n = e.n, NEW t, NEW c,
         t = TotalFor(L, k, Joined(L, M, k)), c = Cardinality(Joined(L, M, k)),
         f.sum = e.sum + ((t + Return(M[Len(M)], Len(k[1]))) \div (c + 1)) - (t \div c)
  PROVE  WorthBu(f, M, k)
<1>. DEFINE G == Joined(L, M, k)
            F == FirstsFor(L, k)
            v == MeansFor(L, k)
            w == MeansFor(M, k)
            r == Return(M[Len(M)], Len(k[1]))
            old == t \div c
            new == (t + r) \div (c + 1)
<1>1. FirstsFor(M, k) = F
  BY FirstsMore
<1>2. IsLog(L) /\ IsLog(M) /\ Len(L) \in Nat /\ Len(M) \in Nat /\ Len(M) = Len(L) + 1
  BY MoreIndex
<1>3. F \subseteq SamplesFor(L, k) /\ SamplesFor(L, k) \subseteq 1 .. Len(L)
      /\ Len(M) \notin SamplesFor(L, k) /\ G \subseteq SamplesFor(L, k)
      /\ SamplesFor(M, k) = SamplesFor(L, k) \cup {Len(M)}
  BY <1>2, LogFacts, SamplesMore
<1>4. \A i \in SamplesFor(L, k) : i \notin G => v[i] = w[i]
  BY MeansMore
<1>5. \A i \in G : GroupFor(L, k, i) = G
  BY GroupsMore
<1>6. \A i \in G : w[i] = new
  BY MeanJoined
<1>7. \A i \in G : v[i] = old
  BY <1>2, <1>3, <1>5, MeanInt
<1>8. \A i \in F : v[i] \in Int /\ w[i] \in Int
  <2>1. \A i \in F : v[i] \in Int
    BY <1>2, <1>3, MeanInt
  <2>2. \A i \in F : i \in SamplesFor(M, k)
    BY <1>3
  <2>3. \A i \in F : w[i] \in Int
    BY <1>2, <2>2, MeanInt
  <2>. QED  BY <2>1, <2>3
<1>9. PICK l \in G : \A j \in G : l <= j
  <2>1. G \subseteq Nat /\ G # {}
    BY <1>2, <1>3
  <2>. HIDE DEF G
  <2>. QED  BY <2>1, LeastNatural
<1>10. l \in F
  BY <1>3, <1>5, <1>9 DEF FirstsFor
<1>11. \A i \in F : i \in G => i = l
  <2>. SUFFICES ASSUME NEW i \in F, i \in G  PROVE i = l
    OBVIOUS
  <2>1. \A j \in G : i <= j
    BY <1>5 DEF FirstsFor
  <2>2. i \in 1 .. Len(L) /\ l \in 1 .. Len(L)
    BY <1>3
  <2>3. i <= l /\ l <= i
    BY <1>9, <2>1
  <2>. HIDE DEF G, F
  <2>. QED  BY <1>2, <2>2, <2>3
<1>. HIDE DEF F, v, w, G, old, new
<1>12. SumUpto(Len(M), F, w) = SumUpto(Len(L), F, v) + (new - old)
  <2>1. PICK n \in Nat, m \in Nat : n = Len(L) /\ m = Len(M) /\ m = n + 1
    BY <1>2
  <2>2. l \in 1 .. n /\ F \subseteq 1 .. n /\ m \notin F
    BY <1>3, <1>10, <2>1
  <2>3. SumUpto(n, F, w) = SumUpto(n, F, v) + (w[l] - v[l])
    <3>1. \A i \in 1 .. n : i \in F => v[i] \in Int /\ w[i] \in Int
      BY <1>8
    <3>2. \A i \in 1 .. n : i \in F /\ i # l => v[i] = w[i]
      BY <1>3, <1>4, <1>11
    <3>3. n \in Nat /\ l \in 1 .. n /\ l \in F
      BY <1>10, <2>2
    <3>. QED  BY <3>1, <3>2, <3>3, SumChange
  <2>4. SumUpto(m, F, w) = SumUpto(n, F, w)
    <3>1. m = n + 1
      BY <2>1
    <3>2. \A i \in 1 .. n : (i \in F <=> i \in F) /\ (i \in F => w[i] = w[i])
      OBVIOUS
    <3>. QED  BY <2>2, <3>1, <3>2, SumKept
  <2>. QED  BY <1>6, <1>7, <2>1, <2>3, <2>4
<1>13. e.n = Cardinality(F) /\ e.sum = SumUpto(Len(L), F, v)
  BY DEF WorthBu, F, v
<1>14. f.n = Cardinality(F) /\ f.sum = SumUpto(Len(M), F, w)
  <2>1. f.sum = e.sum + new - old
    BY DEF new, old, r
  <2>2. new \in Int /\ old \in Int /\ e.sum \in Int
    <3>1. \A i \in G : i \in F => old = v[i] /\ new = w[i]
      BY <1>6, <1>7
    <3>2. SumUpto(Len(L), F, v) \in Int
      BY <1>2, <1>8, SumInt
    <3>. QED  BY <1>8, <1>9, <1>10, <1>13, <3>1, <3>2
  <2>. QED  BY <1>12, <1>13, <2>1, <2>2
<1>15. FirstsFor(M, k) = F /\ MeansFor(M, k) = w
  BY <1>1 DEF w
<1>. QED  BY <1>14, <1>15 DEF WorthBu

-----------------------------------------------------------------------------
(* Prefixes by their elements *)

LEMMA IsPrefixWhen ==
  ASSUME NEW S, NEW p \in Seq(S), NEW q \in Seq(S)
  PROVE  IsPrefix(p, q) <=> Len(p) <= Len(q) /\ \A i \in 1 .. Len(p) : p[i] = q[i]
<1>1. Len(p) \in Nat /\ Len(q) \in Nat /\ Prefix(p, Len(p)) = p
  BY PrefixFull
<1>2. IsPrefix(p, q) <=> Len(p) <= Len(q) /\ p = Prefix(q, Len(p))
  BY <1>1 DEF IsPrefix, Prefix
<1>3. ASSUME Len(p) <= Len(q)
      PROVE  p = Prefix(q, Len(p)) <=> \A i \in 1 .. Len(p) : p[i] = q[i]
  <2>1. Len(p) \in 0 .. Len(q)
    BY <1>1, <1>3
  <2>2. /\ Prefix(q, Len(p)) \in Seq(S) /\ Len(Prefix(q, Len(p))) = Len(p)
        /\ \A i \in 1 .. Len(p) : Prefix(q, Len(p))[i] = q[i]
    BY <2>1, PrefixIsSeq
  <2>3. (\A i \in 1 .. Len(p) : p[i] = q[i]) => p = Prefix(q, Len(p))
    <3>1. SUFFICES ASSUME \A i \in 1 .. Len(p) : p[i] = q[i]  PROVE p = Prefix(q, Len(p))
      OBVIOUS
    <3>2. PICK t \in Seq(S) : t = Prefix(q, Len(p))
      BY <2>2
    <3>3. Len(t) = Len(p) /\ \A i \in 1 .. Len(p) : p[i] = t[i]
      BY <2>2, <3>1, <3>2
    <3>4. p = t
      BY <3>3, SeqEqual
    <3>. QED  BY <3>2, <3>4
  <2>. QED  BY <2>2, <2>3
<1>. QED  BY <1>2, <1>3

LEMMA ThroughWhen ==
  ASSUME NEW S, NEW p \in Seq(S), NEW q \in Seq(S), NEW a
  PROVE  Through(<<p, a>>, q) <=>
           Len(p) < Len(q) /\ IsPrefix(p, q) /\ q[Len(p) + 1][1] = a
<1>1. Len(p) \in Nat /\ Len(q) \in Nat /\ Prefix(p, Len(p)) = p
  BY PrefixFull
<1>2. \A d \in 0 .. Len(q) : Len(Prefix(q, d)) = d
  BY PrefixIsSeq
<1>3. IsPrefix(p, q) <=> Len(p) <= Len(q) /\ p = Prefix(q, Len(p))
  BY <1>1 DEF IsPrefix, Prefix
<1>4. ASSUME Through(<<p, a>>, q)
      PROVE  Len(p) < Len(q) /\ IsPrefix(p, q) /\ q[Len(p) + 1][1] = a
  <2>1. PICK d \in 0 .. Len(q) - 1 : <<p, a>> = <<Prefix(q, d), q[d + 1][1]>>
    BY <1>4, ThroughIs
  <2>2. p = Prefix(q, d) /\ a = q[d + 1][1]
    BY <2>1
  <2>3. d = Len(p)
    BY <1>1, <1>2, <2>2
  <2>. QED  BY <1>1, <1>3, <2>2, <2>3
<1>5. ASSUME Len(p) < Len(q), IsPrefix(p, q), q[Len(p) + 1][1] = a
      PROVE  Through(<<p, a>>, q)
  <2>1. Len(p) \in 0 .. Len(q) - 1 /\ <<p, a>> = <<Prefix(q, Len(p)), q[Len(p) + 1][1]>>
    BY <1>1, <1>3, <1>5
  <2>. QED  BY <2>1, ThroughIs
<1>. QED  BY <1>4, <1>5

\* A prefix of a walk is one of its nodes.
LEMMA WalkHasPrefix ==
  ASSUME NEW S, NEW p \in Seq(S), NEW q \in Seq(S), NEW N, NEW E, Walk(q, N, E), IsPrefix(p, q)
  PROVE  p \in N
<1>1. Len(p) \in 0 .. Len(q) /\ Prefix(p, Len(p)) = p
  <2>1. Len(p) \in Nat /\ Len(q) \in Nat
    OBVIOUS
  <2>. QED  BY <2>1, PrefixFull DEF IsPrefix
<1>2. p = Prefix(q, Len(p))
  BY <1>1 DEF IsPrefix, Prefix
<1>. QED  BY <1>1, <1>2 DEF Walk

-----------------------------------------------------------------------------
(* Paths seen from one step down *)

LEMMA PrefixBelow ==
  ASSUME NEW S, NEW s \in S, NEW p \in Seq(S), NEW q \in Seq(S), IsPrefix(<<s>>, q)
  PROVE  /\ IsPrefix(p, Tail(q)) <=> IsPrefix(<<s>> \o p, q)
         /\ Len(<<s>> \o p) = Len(p) + 1 /\ <<s>> \o p \in Seq(S)
         /\ Len(Tail(q)) = Len(q) - 1 /\ Tail(q) \in Seq(S) /\ q # << >>
         /\ \A i \in 1 .. Len(Tail(q)) : Tail(q)[i] = q[i + 1]
<1>. DEFINE r == <<s>> \o p
            t == Tail(q)
<1>1. <<s>> \in Seq(S) /\ Len(<<s>>) = 1 /\ <<s>>[1] = s /\ Len(p) \in Nat /\ Len(q) \in Nat
  OBVIOUS
<1>2. Len(q) >= 1 /\ q[1] = s
  <2>1. PICK u \in Seq(S) : u = <<s>>
    BY <1>1
  <2>2. IsPrefix(u, q) /\ Len(u) = 1 /\ u[1] = s
    BY <1>1, <2>1
  <2>3. Len(u) <= Len(q) /\ \A i \in 1 .. Len(u) : u[i] = q[i]
    BY <2>2, IsPrefixWhen
  <2>. QED  BY <1>1, <2>2, <2>3
<1>3. r \in Seq(S) /\ Len(r) = Len(p) + 1
      /\ \A i \in 1 .. Len(r) : r[i] = IF i <= 1 THEN s ELSE p[i - 1]
  BY <1>1, ConcatProperties
<1>4. q # << >>
  BY <1>1, <1>2
<1>5. t \in Seq(S) /\ Len(t) = Len(q) - 1 /\ \A i \in 1 .. Len(t) : t[i] = q[i + 1]
  BY <1>4, HeadTailProperties
<1>. HIDE DEF r, t
<1>6. IsPrefix(p, t) <=> Len(p) <= Len(t) /\ \A i \in 1 .. Len(p) : p[i] = t[i]
  BY <1>5, IsPrefixWhen
<1>7. IsPrefix(r, q) <=> Len(r) <= Len(q) /\ \A i \in 1 .. Len(r) : r[i] = q[i]
  BY <1>3, IsPrefixWhen
<1>8. ASSUME Len(p) <= Len(t)
      PROVE  (\A i \in 1 .. Len(p) : p[i] = t[i]) <=> \A i \in 1 .. Len(r) : r[i] = q[i]
  <2>1. ASSUME \A i \in 1 .. Len(p) : p[i] = t[i], NEW i \in 1 .. Len(r)  PROVE r[i] = q[i]
    <3>1. CASE i = 1
      BY <1>2, <1>3, <3>1
    <3>2. CASE i # 1
      <4>1. i - 1 \in 1 .. Len(p) /\ i - 1 \in 1 .. Len(t) /\ (i - 1) + 1 = i
        BY <1>1, <1>3, <1>5, <1>8, <3>2
      <4>2. r[i] = p[i - 1]
        BY <1>1, <1>3, <3>2
      <4>. QED  BY <1>5, <2>1, <4>1, <4>2
    <3>. QED  BY <3>1, <3>2
  <2>2. ASSUME \A i \in 1 .. Len(r) : r[i] = q[i], NEW i \in 1 .. Len(p)  PROVE p[i] = t[i]
    <3>1. i + 1 \in 1 .. Len(r) /\ (i + 1) - 1 = i /\ ~ (i + 1 <= 1) /\ i \in 1 .. Len(t)
      BY <1>1, <1>3, <1>5, <1>8
    <3>. QED  BY <1>3, <1>5, <2>2, <3>1
  <2>. QED  BY <2>1, <2>2
<1>9. IsPrefix(p, t) <=> IsPrefix(r, q)
  BY <1>1, <1>3, <1>5, <1>6, <1>7, <1>8
<1>. QED  BY <1>3, <1>4, <1>5, <1>9 DEF r, t

\* What goes on below r is below r.
LEMMA PrefixAbove ==
  ASSUME NEW S, NEW s \in S, NEW p \in Seq(S), NEW q \in Seq(S), IsPrefix(<<s>> \o p, q)
  PROVE  IsPrefix(<<s>>, q)
<1>. DEFINE r == <<s>> \o p
<1>1. <<s>> \in Seq(S) /\ Len(<<s>>) = 1 /\ <<s>>[1] = s /\ Len(p) \in Nat /\ Len(q) \in Nat
  OBVIOUS
<1>2. r \in Seq(S) /\ Len(r) = Len(p) + 1
      /\ \A i \in 1 .. Len(r) : r[i] = IF i <= 1 THEN s ELSE p[i - 1]
  BY <1>1, ConcatProperties
<1>. HIDE DEF r
<1>3. Len(r) <= Len(q) /\ \A i \in 1 .. Len(r) : r[i] = q[i]
  <2>1. IsPrefix(r, q)
    BY DEF r
  <2>2. r \in Seq(S) /\ q \in Seq(S)
    BY <1>2
  <2>. QED  BY <2>1, <2>2, IsPrefixWhen
<1>4. 1 \in 1 .. Len(r)
  BY <1>1, <1>2
<1>5. q[1] = s
  BY <1>2, <1>3, <1>4
<1>6. Len(<<s>>) <= Len(q) /\ \A i \in 1 .. Len(<<s>>) : <<s>>[i] = q[i]
  BY <1>1, <1>2, <1>3, <1>5
<1>. QED  BY <1>1, <1>6, IsPrefixWhen

LEMMA ThroughBelow ==
  ASSUME NEW S, NEW s \in S, NEW p \in Seq(S), NEW q \in Seq(S), NEW a, IsPrefix(<<s>>, q)
  PROVE  Through(<<p, a>>, Tail(q)) <=> Through(<<<<s>> \o p, a>>, q)
<1>1. PICK r \in Seq(S), t \in Seq(S) : r = <<s>> \o p /\ t = Tail(q)
  BY PrefixBelow
<1>2. /\ IsPrefix(p, t) <=> IsPrefix(r, q)
      /\ Len(r) = Len(p) + 1 /\ Len(t) = Len(q) - 1 /\ Len(p) \in Nat /\ Len(q) \in Nat
      /\ \A i \in 1 .. Len(t) : t[i] = q[i + 1]
  BY <1>1, PrefixBelow
<1>3. Through(<<p, a>>, t) <=> Len(p) < Len(t) /\ IsPrefix(p, t) /\ t[Len(p) + 1][1] = a
  BY ThroughWhen
<1>4. Through(<<r, a>>, q) <=> Len(r) < Len(q) /\ IsPrefix(r, q) /\ q[Len(r) + 1][1] = a
  BY ThroughWhen
<1>5. Len(p) < Len(t) => t[Len(p) + 1] = q[Len(r) + 1]
  BY <1>2
<1>. QED  BY <1>1, <1>2, <1>3, <1>4, <1>5

-----------------------------------------------------------------------------
(* The invariant of the completed rollouts *)

\* The completed rollouts through k to its child by step x, in epoch t.
Current(L, k, x, t) == {j \in SamplesFor(L, k) : L[j].epoch = t /\ ChildOf(L, k, j) = x}
KeyFor(N, k, x) == <<N[k[1]].id, k[2], N[Append(k[1], x)].id>>

\* A completed rollout is a walk in the tree, of an earlier epoch unless the
\* current one is being completed.
LogOk ==
  /\ IsLog(log) /\ epoch \in Nat
  /\ \A i \in DOMAIN log :
       /\ Walk(log[i].path, DOMAIN node, DOMAIN edge)
       /\ log[i].epoch <= epoch
       /\ pc # "complete" => log[i].epoch # epoch

VisitsMatch == \A p \in DOMAIN node : node[p].visits = Cardinality(VisitorsFor(log, p))
EdgesMatch == \A k \in DOMAIN edge : Worth(edge[k], log, k, Bu)

\* The groups hold the rollouts of the current epoch.
GroupIs(g, L, k, S) ==
  /\ g \in DOMAIN groups <=> S # {}
  /\ S # {} => groups[g].total = TotalFor(L, k, S) /\ groups[g].count = Cardinality(S)
GroupsMatch ==
  Bu => \A k \in DOMAIN edge, x \in Steps :
          Append(k[1], x) \in DOMAIN node =>
            GroupIs(KeyFor(node, k, x), log, k, Current(log, k, x, epoch))

TInv == LogOk /\ VisitsMatch /\ EdgesMatch /\ GroupsMatch

LEMMA BuKept ==
  ASSUME UNCHANGED planner
  PROVE  Bu' = Bu
BY DEF Bu

LEMMA IsLogNext ==
  ASSUME UNCHANGED planner, IsLog(log')
  PROVE  IsLog(log)'
BY DEF IsLog, Entries, Steps, Actions

LEMMA NoGroupsMatch ==
  ASSUME groups' = << >>, \A i \in DOMAIN log' : log'[i].epoch # epoch'
  PROVE  GroupsMatch'
<1>1. ASSUME NEW k, NEW x  PROVE Current(log', k, x, epoch') = {}
  BY DEF Current, SamplesFor
<1>2. DOMAIN groups' = {}
  OBVIOUS
<1>3. ASSUME NEW k, NEW x
      PROVE  GroupIs(KeyFor(node, k, x), log, k, Current(log, k, x, epoch))'
  BY <1>1, <1>2 DEF GroupIs
<1>. QED  BY <1>3 DEF GroupsMatch

LEMMA WorthAs ==
  ASSUME NEW e, NEW f, f.n = e.n, f.sum = e.sum, NEW L, NEW k, NEW bu, Worth(e, L, k, bu)
  PROVE  Worth(f, L, k, bu)
BY DEF Worth, WorthBu, WorthWu

LEMMA TInvInit == Init => TInv
<1>. SUFFICES ASSUME Init  PROVE TInv
  OBVIOUS
<1>1. /\ node = [p \in {<< >>} |-> Fresh(0)] /\ edge = << >> /\ groups = << >>
      /\ epoch = 0 /\ log = << >>
  BY DEF Init
<1>2. LogOk
  BY <1>1, EmptySeq DEF LogOk, IsLog
<1>3. VisitsMatch
  <2>1. VisitorsFor(log, << >>) = {}
    BY <1>1 DEF VisitorsFor
  <2>2. Cardinality({}) = 0
    BY FS_EmptySet
  <2>. QED  BY <1>1, <2>1, <2>2 DEF VisitsMatch, Fresh
<1>4. EdgesMatch
  BY <1>1 DEF EdgesMatch
<1>5. GroupsMatch
  BY <1>1 DEF GroupsMatch
<1>. QED  BY <1>2, <1>3, <1>4, <1>5 DEF TInv

-----------------------------------------------------------------------------
(* Steps that complete nothing *)

LEMMA TInvStill ==
  ASSUME TInv, UNCHANGED <<planner, node, edge, groups, epoch, log>>,
         pc' # "complete" => pc # "complete"
  PROVE  TInv'
<1>1. Bu' = Bu
  BY BuKept
<1>2. LogOk'
  BY DEF TInv, LogOk, IsLog, Entries, Steps, Actions
<1>3. VisitsMatch' /\ EdgesMatch'
  BY <1>1 DEF TInv, VisitsMatch, EdgesMatch
<1>4. GroupsMatch'
  BY <1>1 DEF TInv, GroupsMatch, GroupIs, Steps, Actions
<1>. QED  BY <1>2, <1>3, <1>4 DEF TInv

LEMMA TakeWorth ==
  ASSUME Typed, NEW p \in DOMAIN node, NEW a \in Actions, NEW x \in Rewards,
         Take(p, a, x), UNCHANGED planner
  PROVE  /\ \A k \in DOMAIN edge : edge'[k].n = edge[k].n /\ edge'[k].sum = edge[k].sum
         /\ \A k \in DOMAIN edge' \ DOMAIN edge : edge'[k].n = 0 /\ edge'[k].sum = 0
<1>. DEFINE k0 == <<p, a>>
            e == IF k0 \in DOMAIN edge THEN edge[k0] ELSE NewEdge
<1>1. edge' = [i \in DOMAIN edge \cup {k0} |-> IF i = k0 THEN Incomplete(e) ELSE edge[i]]
  BY DEF Take
<1>2. EdgeOk(NewEdge) /\ NewEdge.n = 0 /\ NewEdge.sum = 0
  BY DEF EdgeOk, NewEdge, Fields
<1>3. EdgeOk(e)
  BY <1>2 DEF Typed
<1>. HIDE DEF e
<1>4. Incomplete(e).n = e.n /\ Incomplete(e).sum = e.sum
  BY <1>3 DEF Incomplete, EdgeOk, Fields
<1>5. edge'[k0] = Incomplete(e) /\ \A k \in DOMAIN edge \ {k0} : edge'[k] = edge[k]
  BY <1>1
<1>6. \A k \in DOMAIN edge' \ DOMAIN edge : k = k0
  BY <1>1
<1>. QED  BY <1>2, <1>4, <1>5, <1>6 DEF e

\* A new node or edge is part of no completed rollout.
LEMMA TInvTake ==
  ASSUME Typed, Ids, TInv, NEW p \in DOMAIN node, NEW a \in Actions, NEW x \in Rewards,
         Take(p, a, x), UNCHANGED <<planner, groups, epoch, log>>,
         groups = << >>, pc # "complete", pc' # "complete"
  PROVE  TInv'
<1>. DEFINE c == Append(p, <<a, x>>)
<1>1. /\ DOMAIN node' = DOMAIN node \cup {c} /\ DOMAIN node' \subseteq Seq(Steps)
      /\ \A q \in DOMAIN node : node'[q] = node[q]
  BY TakeNodes
<1>2. DOMAIN edge' = DOMAIN edge \cup {<<p, a>>}
  BY TakeEdges
<1>3. LogOk'
  <2>1. IsLog(log)'
    BY IsLogNext DEF TInv, LogOk
  <2>2. ASSUME NEW i \in DOMAIN log
        PROVE  Walk(log[i].path, DOMAIN node', DOMAIN edge')
    <3>1. Walk(log[i].path, DOMAIN node, DOMAIN edge)
      BY DEF TInv, LogOk
    <3>2. DOMAIN node \subseteq DOMAIN node' /\ DOMAIN edge \subseteq DOMAIN edge'
      BY <1>1, <1>2
    <3>. QED  BY <3>1, <3>2, WalkKept
  <2>3. /\ epoch' \in Nat /\ log' = log
        /\ \A i \in DOMAIN log : log[i].epoch <= epoch' /\ log[i].epoch # epoch'
    BY DEF TInv, LogOk
  <2>4. \A i \in DOMAIN log' : Walk(log'[i].path, DOMAIN node', DOMAIN edge')
    BY <2>2, <2>3
  <2>5. \A i \in DOMAIN log' : log'[i].epoch <= epoch' /\ log'[i].epoch # epoch'
    BY <2>3
  <2>. QED  BY <2>1, <2>3, <2>4, <2>5 DEF LogOk
<1>4. IsLog(log) /\ \A i \in DOMAIN log : Walk(log[i].path, DOMAIN node, DOMAIN edge)
  BY DEF TInv, LogOk
<1>5. VisitsMatch'
  <2>1. ASSUME NEW q \in DOMAIN node', q \notin DOMAIN node
        PROVE  node'[q].visits = 0 /\ VisitorsFor(log, q) = {}
    <3>1. q = c /\ q \in Seq(Steps)
      BY <1>1, <2>1
    <3>2. node'[q].visits = 0
      <4>1. c \notin DOMAIN node
        BY <2>1, <3>1
      <4>2. node' = [i \in DOMAIN node \cup {c} |-> IF i = c THEN Fresh(nextId) ELSE node[i]]
        BY <4>1 DEF Take
      <4>. HIDE DEF c
      <4>. QED  BY <3>1, <4>2 DEF Fresh
    <3>3. ASSUME NEW i \in DOMAIN log, IsPrefix(q, log[i].path)  PROVE FALSE
      <4>1. log[i].path \in Seq(Steps)
        BY <1>4, LogFacts
      <4>2. q \in DOMAIN node
        BY <1>4, <3>1, <3>3, <4>1, WalkHasPrefix
      <4>. QED  BY <2>1, <4>2
    <3>. QED  BY <3>2, <3>3 DEF VisitorsFor
  <2>2. ASSUME NEW q \in DOMAIN node'  PROVE node'[q].visits = Cardinality(VisitorsFor(log, q))
    <3>1. CASE q \in DOMAIN node
      BY <1>1, <3>1 DEF TInv, VisitsMatch
    <3>2. CASE q \notin DOMAIN node
      BY <2>1, <3>2, FS_EmptySet
    <3>. QED  BY <3>1, <3>2
  <2>. QED  BY <2>2 DEF VisitsMatch
<1>6. EdgesMatch'
  <2>1. ASSUME NEW k \in DOMAIN edge'  PROVE Worth(edge'[k], log, k, Bu)
    <3>1. CASE k \in DOMAIN edge
      <4>1. edge'[k].n = edge[k].n /\ edge'[k].sum = edge[k].sum
        BY <3>1, TakeWorth
      <4>2. Worth(edge[k], log, k, Bu)
        BY <3>1 DEF TInv, EdgesMatch
      <4>. QED  BY <4>1, <4>2, WorthAs
    <3>2. CASE k \notin DOMAIN edge
      <4>1. edge'[k].n = 0 /\ edge'[k].sum = 0
        BY <3>2, TakeWorth
      <4>2. SamplesFor(log, k) = {}
        BY <1>4, <3>2 DEF SamplesFor, Walk
      <4>3. Bu \in BOOLEAN
        BY DEF Typed, Bu
      <4>. QED  BY <1>4, <4>1, <4>2, <4>3, WorthNone
    <3>. QED  BY <3>1, <3>2
  <2>. QED  BY <2>1, BuKept DEF EdgesMatch
<1>7. GroupsMatch'
  <2>1. groups' = << >> /\ \A i \in DOMAIN log' : log'[i].epoch # epoch'
    BY DEF TInv, LogOk
  <2>. QED  BY <2>1, NoGroupsMatch
<1>. QED  BY <1>3, <1>5, <1>6, <1>7 DEF TInv

-----------------------------------------------------------------------------
(* The completed rollouts below step s *)

\* Log M is log L seen from one step down.
Cut(L, M, s) ==
  /\ IsLog(L) /\ IsLog(M) /\ Len(M) = Len(L)
  /\ \A i \in 1 .. Len(L) :
       IF IsPrefix(<<s>>, L[i].path)
       THEN M[i].path = Tail(L[i].path) /\ M[i].tail = L[i].tail /\ M[i].epoch = L[i].epoch
       ELSE M[i].path = << >> /\ M[i].epoch = -1

LEMMA CutIs ==
  ASSUME NEW L, IsLog(L), NEW s \in Steps, NEW M,
         M = [i \in DOMAIN L |->
                IF IsPrefix(<<s>>, L[i].path) THEN [L[i] EXCEPT !.path = Tail(@)] ELSE Forgotten]
  PROVE  Cut(L, M, s)
<1>1. Len(L) \in Nat /\ DOMAIN L = 1 .. Len(L)
      /\ \A i \in 1 .. Len(L) : L[i] \in Entries /\ L[i].path \in Seq(Steps)
  BY LogFacts
<1>2. Forgotten \in Entries /\ Forgotten.path = << >> /\ Forgotten.epoch = -1
  BY EmptySeq DEF Forgotten, Entries
<1>3. ASSUME NEW i \in 1 .. Len(L), IsPrefix(<<s>>, L[i].path)
      PROVE  /\ M[i] \in Entries /\ M[i].path = Tail(L[i].path)
             /\ M[i].tail = L[i].tail /\ M[i].epoch = L[i].epoch
  <2>1. M[i] = [L[i] EXCEPT !.path = Tail(L[i].path)]
    BY <1>1, <1>3
  <2>2. Tail(L[i].path) \in Seq(Steps)
    BY <1>1, <1>3, Rerooted
  <2>3. L[i] \in Entries
    BY <1>1
  <2>. QED  BY <2>1, <2>2, <2>3 DEF Entries
<1>4. ASSUME NEW i \in 1 .. Len(L), ~ IsPrefix(<<s>>, L[i].path)
      PROVE  M[i] \in Entries /\ M[i].path = << >> /\ M[i].epoch = -1
  <2>1. M[i] = Forgotten
    BY <1>1, <1>4
  <2>. QED  BY <1>2, <2>1
<1>5. M \in [1 .. Len(L) -> Entries]
  <2>1. M = [i \in 1 .. Len(L) |-> M[i]]
    BY <1>1
  <2>. QED  BY <1>3, <1>4, <2>1
<1>6. IsLog(M) /\ Len(M) = Len(L)
  <2>1. PICK n \in Nat : n = Len(L)
    BY <1>1
  <2>2. M \in [1 .. n -> Entries]
    BY <1>5, <2>1
  <2>3. M \in Seq(Entries)
    BY <2>2, SeqDef
  <2>4. DOMAIN M = 1 .. n /\ DOMAIN M = 1 .. Len(M) /\ Len(M) \in Nat
    BY <2>2, <2>3, LenProperties
  <2>. QED  BY <2>1, <2>3, <2>4 DEF IsLog
<1>. QED  BY <1>3, <1>4, <1>6 DEF Cut

LEMMA CutPaths ==
  ASSUME NEW L, NEW M, NEW s \in Steps, Cut(L, M, s), NEW i \in 1 .. Len(L)
  PROVE  /\ L[i].path \in Seq(Steps)
         /\ IsPrefix(<<s>>, L[i].path) =>
              M[i].path = Tail(L[i].path) /\ M[i].tail = L[i].tail /\ M[i].epoch = L[i].epoch
         /\ ~ IsPrefix(<<s>>, L[i].path) => M[i].path = << >> /\ M[i].epoch = -1
BY LogFacts DEF Cut

LEMMA CutVisitors ==
  ASSUME NEW L, NEW M, NEW s \in Steps, Cut(L, M, s), NEW p \in Seq(Steps)
  PROVE  VisitorsFor(M, p) = VisitorsFor(L, <<s>> \o p)
<1>. DEFINE r == <<s>> \o p
<1>1. DOMAIN L = 1 .. Len(L) /\ DOMAIN M = 1 .. Len(L)
  BY LogFacts DEF Cut
<1>2. ASSUME NEW i \in 1 .. Len(L)
      PROVE  M[i].epoch >= 0 /\ IsPrefix(p, M[i].path) <=> L[i].epoch >= 0 /\ IsPrefix(r, L[i].path)
  <2>1. L[i].path \in Seq(Steps)
    BY CutPaths
  <2>2. CASE IsPrefix(<<s>>, L[i].path)
    <3>1. IsPrefix(p, Tail(L[i].path)) <=> IsPrefix(r, L[i].path)
      BY <2>1, <2>2, PrefixBelow
    <3>2. M[i].path = Tail(L[i].path) /\ M[i].epoch = L[i].epoch
      BY <2>2, CutPaths
    <3>. QED  BY <3>1, <3>2
  <2>3. CASE ~ IsPrefix(<<s>>, L[i].path)
    <3>1. ~ IsPrefix(r, L[i].path)
      BY <2>1, <2>3, PrefixAbove
    <3>2. M[i].epoch = -1
      BY <2>3, CutPaths
    <3>. QED  BY <3>1, <3>2
  <2>. QED  BY <2>2, <2>3
<1>. HIDE DEF r
<1>. QED  BY <1>1, <1>2 DEF VisitorsFor, r

LEMMA CutSamples ==
  ASSUME NEW L, NEW M, NEW s \in Steps, Cut(L, M, s), NEW p \in Seq(Steps), NEW a,
         NEW i \in 1 .. Len(L)
  PROVE  /\ Through(<<p, a>>, M[i].path) <=> Through(<<<<s>> \o p, a>>, L[i].path)
         /\ Through(<<<<s>> \o p, a>>, L[i].path) =>
              /\ M[i].epoch = L[i].epoch
              /\ ChildOf(M, <<p, a>>, i) = ChildOf(L, <<<<s>> \o p, a>>, i)
              /\ Return(M[i], Len(p)) = Return(L[i], Len(<<s>> \o p))
<1>. DEFINE r == <<s>> \o p
            q == L[i].path
<1>1. q \in Seq(Steps)
  BY CutPaths
<1>2. CASE IsPrefix(<<s>>, q)
  <2>1. M[i].path = Tail(q) /\ M[i].tail = L[i].tail /\ M[i].epoch = L[i].epoch
    BY <1>2, CutPaths
  <2>2. Through(<<p, a>>, Tail(q)) <=> Through(<<r, a>>, q)
    BY <1>1, <1>2, ThroughBelow
  <2>3. /\ Len(r) = Len(p) + 1 /\ r \in Seq(Steps) /\ Len(Tail(q)) = Len(q) - 1 /\ q # << >>
        /\ \A j \in 1 .. Len(Tail(q)) : Tail(q)[j] = q[j + 1]
    BY <1>1, <1>2, PrefixBelow
  <2>4. ASSUME Through(<<r, a>>, q)
        PROVE  ChildOf(M, <<p, a>>, i) = ChildOf(L, <<r, a>>, i)
    <3>1. Len(p) + 1 \in 1 .. Len(Tail(q)) /\ (Len(p) + 1) + 1 = Len(r) + 1
      <4>1. Len(r) < Len(q)
        BY <1>1, <2>3, <2>4, ThroughWhen
      <4>2. Len(p) \in Nat /\ Len(q) \in Nat
        BY <1>1
      <4>. QED  BY <2>3, <4>1, <4>2
    <3>2. Tail(q)[Len(p) + 1] = q[Len(r) + 1]
      BY <2>3, <3>1
    <3>. QED  BY <2>1, <3>2 DEF ChildOf
  <2>5. Return(M[i], Len(p)) = Return(L[i], Len(r))
    <3>1. PICK d \in Nat : d = Len(p)
      OBVIOUS
    <3>2. Return(M[i], d) = Return(L[i], d + 1)
      BY <1>1, <2>1, <2>3, ReturnBelow
    <3>. QED  BY <2>3, <3>1, <3>2
  <2>. QED  BY <2>1, <2>2, <2>4, <2>5
<1>3. CASE ~ IsPrefix(<<s>>, q)
  <2>1. r \in Seq(Steps)
    <3>1. <<s>> \in Seq(Steps)
      OBVIOUS
    <3>. QED  BY <3>1, ConcatProperties
  <2>2. ~ IsPrefix(r, q)
    BY <1>1, <1>3, PrefixAbove
  <2>3. ~ Through(<<r, a>>, q)
    BY <1>1, <2>1, <2>2, ThroughWhen
  <2>4. M[i].path = << >>
    BY <1>3, CutPaths
  <2>. QED  BY <2>3, <2>4, ThroughNothing
<1>. QED  BY <1>2, <1>3

LEMMA CutWorth ==
  ASSUME NEW L, NEW M, NEW s \in Steps, Cut(L, M, s), NEW p \in Seq(Steps), NEW a,
         NEW e, NEW bu, Worth(e, L, <<<<s>> \o p, a>>, bu)
  PROVE  Worth(e, M, <<p, a>>, bu)
<1>. DEFINE r == <<s>> \o p
            k == <<p, a>>
            j == <<r, a>>
<1>2. IsLog(L) /\ IsLog(M) /\ Len(M) = Len(L) /\ DOMAIN L = 1 .. Len(L) /\ DOMAIN M = 1 .. Len(L)
  BY LogFacts DEF Cut
<1>3. ASSUME NEW i \in 1 .. Len(L)
      PROVE  /\ Through(k, M[i].path) <=> Through(j, L[i].path)
             /\ Through(j, L[i].path) =>
                  /\ M[i].epoch = L[i].epoch /\ ChildOf(M, k, i) = ChildOf(L, j, i)
                  /\ Return(M[i], Len(k[1])) = Return(L[i], Len(j[1]))
  <2>1. /\ Through(<<p, a>>, M[i].path) <=> Through(<<r, a>>, L[i].path)
        /\ Through(<<r, a>>, L[i].path) =>
              /\ M[i].epoch = L[i].epoch
              /\ ChildOf(M, <<p, a>>, i) = ChildOf(L, <<r, a>>, i)
              /\ Return(M[i], Len(p)) = Return(L[i], Len(r))
    BY CutSamples
  <2>2. k[1] = p /\ j[1] = r
    OBVIOUS
  <2>. HIDE DEF r
  <2>. QED  BY <2>1, <2>2
<1>. HIDE DEF k, j
<1>4. SamplesFor(M, k) = SamplesFor(L, j)
  BY <1>2, <1>3 DEF SamplesFor
<1>5. \A i \in SamplesFor(L, j) :
        /\ M[i].epoch = L[i].epoch /\ ChildOf(M, k, i) = ChildOf(L, j, i)
        /\ Return(M[i], Len(k[1])) = Return(L[i], Len(j[1]))
  BY <1>2, <1>3 DEF SamplesFor
<1>6. Worth(e, L, j, bu)
  BY DEF j
<1>7. Worth(e, M, k, bu)
  BY <1>2, <1>4, <1>5, <1>6, WorthSame
<1>. QED  BY <1>7 DEF k

-----------------------------------------------------------------------------
(* Re-rooting keeps the statistics *)

LEMMA TailAgain ==
  ASSUME NEW S, NEW s \in S, NEW p \in Seq(S)
  PROVE  /\ <<s>> \o p \in Seq(S) /\ IsPrefix(<<s>>, <<s>> \o p)
         /\ Tail(<<s>> \o p) = p
<1>1. <<s>> \in Seq(S) /\ Len(<<s>>) = 1
  OBVIOUS
<1>2. PICK q : q = <<s>> \o p
  OBVIOUS
<1>3. q \in Seq(S)
  BY <1>1, <1>2, ConcatProperties
<1>4. IsPrefix(q, q)
  BY DEF IsPrefix
<1>5. IsPrefix(<<s>>, q)
  BY <1>2, <1>3, <1>4, PrefixAbove
<1>6. Tail(q) = p
  <2>1. PICK t \in Seq(S) : t = Tail(q)
    BY <1>3, <1>5, Rerooted
  <2>2. <<s>> \o t = <<s>> \o p
    BY <1>2, <1>3, <1>5, <2>1, Rerooted
  <2>3. /\ Len(<<s>> \o p) = 1 + Len(p) /\ Len(<<s>> \o t) = 1 + Len(t)
        /\ \A i \in 1 .. 1 + Len(p) : (<<s>> \o p)[i] = IF i <= 1 THEN <<s>>[i] ELSE p[i - 1]
        /\ \A i \in 1 .. 1 + Len(t) : (<<s>> \o t)[i] = IF i <= 1 THEN <<s>>[i] ELSE t[i - 1]
    BY <1>1, ConcatProperties
  <2>4. Len(t) \in Nat /\ Len(p) \in Nat /\ Len(t) = Len(p)
    BY <2>2, <2>3
  <2>5. ASSUME NEW i \in 1 .. Len(t)  PROVE t[i] = p[i]
    <3>1. i + 1 \in 1 .. 1 + Len(p) /\ i + 1 \in 1 .. 1 + Len(t) /\ ~ (i + 1 <= 1) /\ (i + 1) - 1 = i
      BY <2>4
    <3>2. (<<s>> \o p)[i + 1] = p[i] /\ (<<s>> \o t)[i + 1] = t[i]
      BY <2>3, <3>1
    <3>. QED  BY <2>2, <3>2
  <2>6. t = p
    BY <2>4, <2>5, SeqEqual
  <2>. QED  BY <2>1, <2>6
<1>. QED  BY <1>2, <1>3, <1>5, <1>6

\* The subtree below s is the tree, seen from one step up.
LEMMA PruneKeeps ==
  ASSUME Typed, NEW s \in Steps, Prune(s), <<s>> \in DOMAIN node
  PROVE  /\ \A p \in DOMAIN node' :
              p \in Seq(Steps) /\ <<s>> \o p \in DOMAIN node /\ node'[p] = node[<<s>> \o p]
         /\ \A p \in Seq(Steps) : <<s>> \o p \in DOMAIN node => p \in DOMAIN node'
         /\ \A k \in DOMAIN edge' :
              /\ k[1] \in Seq(Steps) /\ k = <<k[1], k[2]>>
              /\ <<<<s>> \o k[1], k[2]>> \in DOMAIN edge
              /\ edge'[k] = edge[<<<<s>> \o k[1], k[2]>>]
         /\ \A p \in Seq(Steps) : \A a :
              <<<<s>> \o p, a>> \in DOMAIN edge => <<p, a>> \in DOMAIN edge'
         /\ log' = [i \in DOMAIN log |->
                      IF IsPrefix(<<s>>, log[i].path) THEN [log[i] EXCEPT !.path = Tail(@)]
                      ELSE Forgotten]
<1>. DEFINE r == <<s>>
            M == {m \in DOMAIN node : IsPrefix(r, m)}
            F == {m \in DOMAIN edge : IsPrefix(r, m[1])}
<1>1. /\ node' = [p \in {Tail(q) : q \in M} |-> node[r \o p]]
      /\ edge' = [k \in {<<Tail(j[1]), j[2]>> : j \in F} |-> edge[<<r \o k[1], k[2]>>]]
      /\ log' = [i \in DOMAIN log |->
                   IF IsPrefix(r, log[i].path) THEN [log[i] EXCEPT !.path = Tail(@)]
                   ELSE Forgotten]
  BY DEF Prune
<1>2. \A q \in DOMAIN node : IsPrefix(r, q) => Tail(q) \in Seq(Steps) /\ r \o Tail(q) = q
  BY Rerooted DEF Typed
<1>3. \A p \in Seq(Steps) : IsPrefix(r, r \o p) /\ Tail(r \o p) = p
  BY TailAgain
<1>4. ASSUME NEW p \in DOMAIN node'
      PROVE  p \in Seq(Steps) /\ r \o p \in DOMAIN node /\ node'[p] = node[r \o p]
  <2>1. PICK q \in M : p = Tail(q)
    BY <1>1
  <2>2. node'[p] = node[r \o p]
    BY <1>1
  <2>. QED  BY <1>2, <2>1, <2>2
<1>5. ASSUME NEW p \in Seq(Steps), r \o p \in DOMAIN node  PROVE p \in DOMAIN node'
  <2>1. r \o p \in M /\ p = Tail(r \o p)
    BY <1>3, <1>5
  <2>2. DOMAIN node' = {Tail(q) : q \in M}
    BY <1>1
  <2>. QED  BY <2>1, <2>2
<1>6. ASSUME NEW k \in DOMAIN edge'
      PROVE  /\ k[1] \in Seq(Steps) /\ k = <<k[1], k[2]>>
             /\ <<r \o k[1], k[2]>> \in DOMAIN edge /\ edge'[k] = edge[<<r \o k[1], k[2]>>]
  <2>1. PICK j \in F : k = <<Tail(j[1]), j[2]>>
    BY <1>1
  <2>2. edge'[k] = edge[<<r \o k[1], k[2]>>]
    BY <1>1
  <2>3. j[1] \in DOMAIN node /\ j = <<j[1], j[2]>> /\ IsPrefix(r, j[1]) /\ j \in DOMAIN edge
    BY DEF Typed
  <2>4. k[1] = Tail(j[1]) /\ k[2] = j[2] /\ k = <<k[1], k[2]>>
    BY <2>1
  <2>5. k[1] \in Seq(Steps) /\ r \o k[1] = j[1]
    BY <1>2, <2>3, <2>4
  <2>. QED  BY <2>2, <2>3, <2>4, <2>5
<1>7. ASSUME NEW p \in Seq(Steps), NEW a, <<r \o p, a>> \in DOMAIN edge
      PROVE  <<p, a>> \in DOMAIN edge'
  <2>. DEFINE u == r \o p
              j == <<u, a>>
  <2>1. j[1] = u /\ j[2] = a
    OBVIOUS
  <2>2. j \in F /\ <<p, a>> = <<Tail(j[1]), j[2]>>
    BY <1>3, <1>7, <2>1
  <2>3. DOMAIN edge' = {<<Tail(i[1]), i[2]>> : i \in F}
    BY <1>1
  <2>. QED  BY <2>2, <2>3
<1>. QED  BY <1>1, <1>4, <1>5, <1>6, <1>7

\* A walk below s is a walk in the subtree.
LEMMA WalkBelow ==
  ASSUME NEW S, NEW s \in S, NEW q \in Seq(S), IsPrefix(<<s>>, q), NEW N, NEW E, Walk(q, N, E),
         NEW M, \A p \in Seq(S) : <<s>> \o p \in N => p \in M,
         NEW F, \A p \in Seq(S) : \A a : <<<<s>> \o p, a>> \in E => <<p, a>> \in F
  PROVE  Walk(Tail(q), M, F)
<1>1. PICK t \in Seq(S) : t = Tail(q)
  BY Rerooted
<1>2. \A d \in 0 .. Len(t) : Prefix(t, d) \in Seq(S) /\ IsPrefix(Prefix(t, d), t)
  <2>. SUFFICES ASSUME NEW d \in 0 .. Len(t)
       PROVE  Prefix(t, d) \in Seq(S) /\ IsPrefix(Prefix(t, d), t)
    OBVIOUS
  <2>1. PICK p \in Seq(S) : p = Prefix(t, d) /\ Len(p) = d /\ \A i \in 1 .. d : p[i] = t[i]
    BY PrefixIsSeq
  <2>2. Len(p) <= Len(t) /\ \A i \in 1 .. Len(p) : p[i] = t[i]
    BY <2>1
  <2>3. IsPrefix(p, t)
    BY <2>2, IsPrefixWhen
  <2>. QED  BY <2>1, <2>3
<1>3. ASSUME NEW d \in 0 .. Len(t)  PROVE Prefix(t, d) \in M
  <2>1. PICK p \in Seq(S) : p = Prefix(t, d) /\ IsPrefix(p, t)
    BY <1>2
  <2>2. IsPrefix(<<s>> \o p, q) /\ <<s>> \o p \in Seq(S)
    BY <1>1, <2>1, PrefixBelow
  <2>3. <<s>> \o p \in N
    BY <2>2, WalkHasPrefix
  <2>. QED  BY <2>1, <2>3
<1>4. ASSUME NEW k, Through(k, t)  PROVE k \in F
  <2>1. PICK d \in 0 .. Len(t) - 1 : k = <<Prefix(t, d), t[d + 1][1]>>
    BY <1>4, ThroughIs
  <2>2. d \in 0 .. Len(t)
    OBVIOUS
  <2>3. PICK p, a : p \in Seq(S) /\ k = <<p, a>>
    BY <1>2, <2>1, <2>2
  <2>4. Through(<<p, a>>, Tail(q))
    BY <1>1, <1>4, <2>3
  <2>5. Through(<<<<s>> \o p, a>>, q)
    BY <2>3, <2>4, ThroughBelow
  <2>6. <<<<s>> \o p, a>> \in E
    BY <2>5 DEF Walk
  <2>. QED  BY <2>3, <2>6
<1>. QED  BY <1>1, <1>3, <1>4 DEF Walk

LEMMA TInvPrune ==
  ASSUME Typed, Ids, TInv, NEW s \in Steps, Prune(s), UNCHANGED <<planner, groups, epoch>>,
         groups = << >>, pc # "complete", pc' # "complete"
  PROVE  TInv'
<1>1. /\ IsLog(log) /\ epoch \in Nat /\ DOMAIN log = 1 .. Len(log)
      /\ \A i \in DOMAIN log : /\ Walk(log[i].path, DOMAIN node, DOMAIN edge)
                               /\ log[i].epoch <= epoch /\ log[i].epoch # epoch
  BY LogFacts DEF TInv, LogOk
<1>2. << >> \in DOMAIN node'
  BY PruneTree
<1>3. CASE <<s>> \notin DOMAIN node
  <2>1. node' = [p \in {<< >>} |-> Fresh(nextId)] /\ edge' = << >> /\ log' = << >>
    BY <1>3 DEF Prune, FreshRoot
  <2>2. LogOk'
    <3>1. IsLog(log')
      BY <2>1, EmptySeq DEF IsLog
    <3>2. DOMAIN log' = {} /\ epoch' \in Nat
      BY <1>1, <2>1
    <3>3. IsLog(log)'
      BY <3>1, IsLogNext
    <3>. QED  BY <3>2, <3>3 DEF LogOk
  <2>3. VisitsMatch'
    <3>1. VisitorsFor(log', << >>) = {}
      BY <2>1 DEF VisitorsFor
    <3>2. Cardinality({}) = 0
      BY FS_EmptySet
    <3>. QED  BY <2>1, <3>1, <3>2 DEF VisitsMatch, Fresh
  <2>4. EdgesMatch'
    BY <2>1 DEF EdgesMatch
  <2>5. GroupsMatch'
    BY <2>1, NoGroupsMatch
  <2>. QED  BY <2>2, <2>3, <2>4, <2>5 DEF TInv
<1>4. CASE <<s>> \in DOMAIN node
  <2>1. /\ \A p \in DOMAIN node' :
              p \in Seq(Steps) /\ <<s>> \o p \in DOMAIN node /\ node'[p] = node[<<s>> \o p]
        /\ \A p \in Seq(Steps) : <<s>> \o p \in DOMAIN node => p \in DOMAIN node'
    BY <1>4, PruneKeeps
  <2>2. /\ \A k \in DOMAIN edge' :
              /\ k[1] \in Seq(Steps) /\ k = <<k[1], k[2]>>
              /\ <<<<s>> \o k[1], k[2]>> \in DOMAIN edge
              /\ edge'[k] = edge[<<<<s>> \o k[1], k[2]>>]
        /\ \A p \in Seq(Steps) : \A a :
              <<<<s>> \o p, a>> \in DOMAIN edge => <<p, a>> \in DOMAIN edge'
    BY <1>4, PruneKeeps
  <2>3. Cut(log, log', s)
    <3>1. log' = [i \in DOMAIN log |->
                    IF IsPrefix(<<s>>, log[i].path) THEN [log[i] EXCEPT !.path = Tail(@)]
                    ELSE Forgotten]
      BY <1>4, PruneKeeps
    <3>. QED  BY <1>1, <3>1, CutIs
  <2>4. IsLog(log)' /\ DOMAIN log' = DOMAIN log
    <3>1. IsLog(log') /\ Len(log') = Len(log)
      BY <2>3 DEF Cut
    <3>2. DOMAIN log' = 1 .. Len(log')
      BY <3>1, LogFacts
    <3>. QED  BY <1>1, <3>1, <3>2, IsLogNext
  <2>5. ASSUME NEW i \in DOMAIN log'
        PROVE  Walk(log'[i].path, DOMAIN node', DOMAIN edge') /\ log'[i].epoch < epoch
    <3>1. i \in DOMAIN log /\ i \in 1 .. Len(log)
      BY <1>1, <2>4
    <3>2. log[i].path \in Seq(Steps)
      BY <2>3, <3>1, CutPaths
    <3>3. Walk(log[i].path, DOMAIN node, DOMAIN edge) /\ log[i].epoch < epoch
      <4>1. log[i].epoch \in Int
        BY <1>1, <3>1, LogFacts
      <4>. QED  BY <1>1, <3>1, <4>1
    <3>4. CASE IsPrefix(<<s>>, log[i].path)
      <4>1. log'[i].path = Tail(log[i].path) /\ log'[i].epoch = log[i].epoch
        BY <2>3, <3>1, <3>4, CutPaths
      <4>2. Walk(Tail(log[i].path), DOMAIN node', DOMAIN edge')
        BY <2>1, <2>2, <3>2, <3>3, <3>4, WalkBelow
      <4>. QED  BY <3>3, <4>1, <4>2
    <3>5. CASE ~ IsPrefix(<<s>>, log[i].path)
      <4>1. log'[i].path = << >> /\ log'[i].epoch = -1
        BY <2>3, <3>1, <3>5, CutPaths
      <4>2. Walk(<< >>, DOMAIN node', DOMAIN edge')
        BY <1>2, WalkNothing
      <4>. QED  BY <1>1, <4>1, <4>2
    <3>. QED  BY <3>4, <3>5
  <2>6. \A i \in DOMAIN log' : log'[i].epoch <= epoch /\ log'[i].epoch # epoch
    <3>. SUFFICES ASSUME NEW i \in DOMAIN log'
         PROVE  log'[i].epoch <= epoch /\ log'[i].epoch # epoch
      OBVIOUS
    <3>1. i \in 1 .. Len(log') /\ IsLog(log')
      <4>1. IsLog(log') /\ Len(log') = Len(log)
        BY <2>3 DEF Cut
      <4>. QED  BY <1>1, <2>4, <4>1
    <3>2. log'[i].epoch \in Int
      BY <3>1, LogFacts
    <3>. QED  BY <1>1, <2>5, <3>2
  <2>7. LogOk'
    <3>1. epoch' \in Nat /\ epoch' = epoch
      BY <1>1
    <3>2. \A i \in DOMAIN log' : Walk(log'[i].path, DOMAIN node', DOMAIN edge')
      BY <2>5
    <3>. QED  BY <2>4, <2>6, <3>1, <3>2 DEF LogOk
  <2>8. VisitsMatch'
    <3>1. ASSUME NEW p \in DOMAIN node'  PROVE node'[p].visits = Cardinality(VisitorsFor(log', p))
      <4>1. p \in Seq(Steps) /\ <<s>> \o p \in DOMAIN node /\ node'[p] = node[<<s>> \o p]
        BY <2>1
      <4>2. VisitorsFor(log', p) = VisitorsFor(log, <<s>> \o p)
        BY <2>3, <4>1, CutVisitors
      <4>3. node[<<s>> \o p].visits = Cardinality(VisitorsFor(log, <<s>> \o p))
        BY <4>1 DEF TInv, VisitsMatch
      <4>. QED  BY <4>1, <4>2, <4>3
    <3>. QED  BY <3>1 DEF VisitsMatch
  <2>9. EdgesMatch'
    <3>1. ASSUME NEW k \in DOMAIN edge'  PROVE Worth(edge'[k], log', k, Bu)
      <4>. DEFINE p == k[1]
                  a == k[2]
      <4>1. /\ p \in Seq(Steps) /\ k = <<p, a>> /\ <<<<s>> \o p, a>> \in DOMAIN edge
            /\ edge'[k] = edge[<<<<s>> \o p, a>>]
        BY <2>2
      <4>. HIDE DEF p, a
      <4>2. Worth(edge'[k], log, <<<<s>> \o p, a>>, Bu)
        BY <4>1 DEF TInv, EdgesMatch
      <4>3. Worth(edge'[k], log', <<p, a>>, Bu)
        <5>1. PICK L, M, e, bu : L = log /\ M = log' /\ e = edge'[k] /\ bu = Bu
          OBVIOUS
        <5>2. Cut(L, M, s) /\ Worth(e, L, <<<<s>> \o p, a>>, bu) /\ p \in Seq(Steps)
          BY <2>3, <4>1, <4>2, <5>1
        <5>3. Worth(e, M, <<p, a>>, bu)
          BY <5>2, CutWorth
        <5>. QED  BY <5>1, <5>3
      <4>. QED  BY <4>1, <4>3
    <3>. QED  BY <3>1, BuKept DEF EdgesMatch
  <2>10. GroupsMatch'
    BY <2>6, NoGroupsMatch
  <2>. QED  BY <2>7, <2>8, <2>9, <2>10 DEF TInv
<1>. QED  BY <1>3, <1>4

-----------------------------------------------------------------------------
(* Completing a rollout *)

\* Task c is completed: it is the last entry of the log.
Completed(c, L, M, t) ==
  /\ More(L, M) /\ c.path \in Seq(Steps)
  /\ M[Len(M)].path = c.path /\ M[Len(M)].tail = c.tail /\ M[Len(M)].epoch = t

LEMMA CompleteLog ==
  ASSUME IInv, TInv, Complete
  PROVE  /\ Completed(Head(pending), log, log', epoch)
         /\ Walk(Head(pending).path, DOMAIN node, DOMAIN edge)
<1>. DEFINE c == Head(pending)
            e == [path |-> c.path, tail |-> c.tail, epoch |-> epoch]
<1>1. log' = Append(log, e) /\ pc = "complete"
  BY DEF Complete
<1>2. pending # << >> /\ pending \in Seq(Tasks)
  BY <1>1 DEF IInv, Budget, Typed
<1>3. c = pending[1] /\ 1 \in DOMAIN pending /\ c \in Tasks
  BY <1>2, LenProperties, EmptySeq, HeadTailProperties
<1>4. c.path \in Seq(Steps) /\ c.tail \in Int
  <2>1. c.tail \in {Running, 0} \cup Rewards
    BY <1>3 DEF Tasks
  <2>2. c.path \in Seq(Steps)
    BY <1>3 DEF Tasks
  <2>. HIDE DEF c
  <2>3. c.tail \in Int
    <3>1. Running \in Int /\ 0 \in Int
      BY DEF Running
    <3>2. \A r \in Rewards : r \in Int
      BY RewardsInt
    <3>3. c.tail = Running \/ c.tail = 0 \/ c.tail \in Rewards
      BY <2>1
    <3>. QED  BY <3>1, <3>2, <3>3
  <2>. QED  BY <2>2, <2>3
<1>5. Walk(c.path, DOMAIN node, DOMAIN edge)
  BY <1>3 DEF IInv, Walks
<1>6. log \in Seq(Entries) /\ epoch \in Nat
  BY DEF TInv, LogOk, IsLog
<1>7. e \in Entries
  BY <1>4, <1>6 DEF Entries
<1>8. e.path = c.path /\ e.tail = c.tail /\ e.epoch = epoch
  OBVIOUS
<1>. HIDE DEF c, e
<1>9. /\ log' \in Seq(Entries) /\ Len(log') = Len(log) + 1 /\ Len(log) \in Nat
      /\ (\A i \in 1 .. Len(log) : log'[i] = log[i]) /\ log'[Len(log')] = e
  <2>1. /\ Append(log, e) \in Seq(Entries) /\ Len(Append(log, e)) = Len(log) + 1
        /\ \A i \in 1 .. Len(log) : Append(log, e)[i] = log[i]
        /\ Append(log, e)[Len(log) + 1] = e /\ Len(log) \in Nat
    BY <1>6, <1>7, AppendProperties, LenProperties
  <2>. QED  BY <1>1, <2>1
<1>10. Completed(c, log, log', epoch)
  BY <1>4, <1>6, <1>8, <1>9 DEF Completed, More, IsLog
<1>. QED  BY <1>5, <1>10 DEF c

LEMMA LogOkComplete ==
  ASSUME IInv, TInv, Complete, UNCHANGED planner
  PROVE  LogOk'
<1>. DEFINE c == Head(pending)
            last == Len(pending) = 1
<1>1. Completed(c, log, log', epoch) /\ Walk(c.path, DOMAIN node, DOMAIN edge)
  BY CompleteLog
<1>2. More(log, log') /\ log'[Len(log')].path = c.path /\ log'[Len(log')].epoch = epoch
  BY <1>1 DEF Completed
<1>3. /\ epoch' = IF last THEN epoch + 1 ELSE epoch
      /\ ~ last => pc' = "complete"
  BY DEF Complete
<1>4. DOMAIN node' = DOMAIN node /\ DOMAIN edge' = DOMAIN edge
  BY DEF Complete
<1>5. /\ epoch \in Nat /\ IsLog(log)
      /\ \A i \in DOMAIN log :
           Walk(log[i].path, DOMAIN node, DOMAIN edge) /\ log[i].epoch <= epoch
  BY DEF TInv, LogOk
<1>6. /\ IsLog(log') /\ \A i \in 1 .. Len(log') : i \in 1 .. Len(log) \/ i = Len(log')
      /\ \A i \in 1 .. Len(log) : log'[i] = log[i]
  BY <1>2, MoreIndex DEF More
<1>7. DOMAIN log = 1 .. Len(log) /\ DOMAIN log' = 1 .. Len(log')
  BY <1>5, <1>6, LogFacts
<1>. HIDE DEF c, last
<1>8. ASSUME NEW i \in DOMAIN log'
      PROVE  Walk(log'[i].path, DOMAIN node, DOMAIN edge) /\ log'[i].epoch <= epoch
  <2>1. CASE i \in 1 .. Len(log)
    BY <1>5, <1>6, <1>7, <2>1
  <2>2. CASE i = Len(log')
    BY <1>1, <1>2, <1>5, <2>2
  <2>. QED  BY <1>6, <1>7, <2>1, <2>2
<1>9. ASSUME NEW i \in DOMAIN log'
      PROVE  log'[i].epoch <= epoch' /\ (pc' # "complete" => log'[i].epoch # epoch')
  <2>1. log'[i].epoch \in Int /\ log'[i].epoch <= epoch
    BY <1>6, <1>7, <1>8, LogFacts
  <2>. QED  BY <1>3, <1>5, <2>1
<1>10. IsLog(log)' /\ epoch' \in Nat
  BY <1>3, <1>5, <1>6, IsLogNext
<1>11. \A i \in DOMAIN log' : Walk(log'[i].path, DOMAIN node', DOMAIN edge')
  BY <1>4, <1>8
<1>. QED  BY <1>9, <1>10, <1>11 DEF LogOk

LEMMA VisitorsMore ==
  ASSUME NEW c, NEW L, NEW M, NEW t \in Nat, Completed(c, L, M, t), NEW p
  PROVE  Cardinality(VisitorsFor(M, p)) =
           IF IsPrefix(p, c.path) THEN Cardinality(VisitorsFor(L, p)) + 1
           ELSE Cardinality(VisitorsFor(L, p))
<1>. DEFINE V == VisitorsFor(L, p)
<1>1. More(L, M) /\ M[Len(M)].path = c.path /\ M[Len(M)].epoch = t
  BY DEF Completed
<1>2. IsLog(L) /\ IsLog(M)
  BY <1>1, MoreIndex
<1>3. PICK n \in Nat : n = Len(L) /\ n + 1 = Len(M)
  BY <1>1, MoreIndex
<1>4. DOMAIN L = 1 .. n /\ DOMAIN M = 1 .. n + 1 /\ \A i \in 1 .. n : M[i] = L[i]
  BY <1>1, <1>2, <1>3, LogFacts DEF More
<1>5. V \subseteq 1 .. n
  BY <1>4 DEF VisitorsFor
<1>6. VisitorsFor(M, p) = IF IsPrefix(p, c.path) THEN V \cup {n + 1} ELSE V
  <2>1. M[n + 1].epoch >= 0 /\ M[n + 1].path = c.path
    BY <1>1, <1>3
  <2>2. \A i : i \in 1 .. n + 1 <=> i \in 1 .. n \/ i = n + 1
    OBVIOUS
  <2>3. \A i : i \in VisitorsFor(M, p) <=> i \in V \/ (i = n + 1 /\ IsPrefix(p, c.path))
    BY <1>4, <2>1, <2>2 DEF VisitorsFor
  <2>. HIDE DEF V
  <2>4. CASE IsPrefix(p, c.path)
    BY <2>3, <2>4
  <2>5. CASE ~ IsPrefix(p, c.path)
    BY <2>3, <2>5
  <2>. QED  BY <2>4, <2>5
<1>. HIDE DEF V
<1>7. Cardinality(V \cup {n + 1}) = Cardinality(V) + 1
  BY <1>5, PositionsFinite
<1>. QED  BY <1>6, <1>7 DEF V

LEMMA VisitsMatchComplete ==
  ASSUME IInv, TInv, Complete
  PROVE  VisitsMatch'
<1>. DEFINE c == Head(pending)
<1>1. Completed(c, log, log', epoch) /\ epoch \in Nat
  BY CompleteLog DEF TInv, LogOk
<1>2. node' = [p \in DOMAIN node |->
                 IF p \in Visited(c.path) THEN [node[p] EXCEPT !.visits = @ + 1] ELSE node[p]]
  BY DEF Complete
<1>. HIDE DEF c
<1>3. ASSUME NEW p \in DOMAIN node
      PROVE  node'[p].visits = Cardinality(VisitorsFor(log', p))
  <2>1. node[p].visits = Cardinality(VisitorsFor(log, p))
    BY DEF TInv, VisitsMatch
  <2>2. node[p] \in [id : Nat, visits : Nat]
    BY DEF IInv, Typed
  <2>3. p \in Visited(c.path) <=> IsPrefix(p, c.path)
    BY DEF Visited
  <2>4. node'[p].visits = IF IsPrefix(p, c.path) THEN node[p].visits + 1 ELSE node[p].visits
    BY <1>2, <2>2, <2>3
  <2>5. Cardinality(VisitorsFor(log', p)) =
          IF IsPrefix(p, c.path) THEN Cardinality(VisitorsFor(log, p)) + 1
          ELSE Cardinality(VisitorsFor(log, p))
    <3>1. PICK L, M, t : L = log /\ M = log' /\ t = epoch
      OBVIOUS
    <3>2. t \in Nat /\ Completed(c, L, M, t)
      BY <1>1, <3>1
    <3>. QED  BY <3>1, <3>2, VisitorsMore
  <2>. QED  BY <2>1, <2>4, <2>5
<1>4. DOMAIN node' = DOMAIN node
  BY <1>2
<1>. QED  BY <1>3, <1>4 DEF VisitsMatch

\* The child that a path reaches through k, and the key of that group.
LEMMA KeyIs ==
  ASSUME NEW p \in Seq(Steps), NEW a, NEW q \in Seq(Steps), Through(<<p, a>>, q),
         NEW N, NEW E, Walk(q, N, E), NEW x, x = q[Len(p) + 1]
  PROVE  /\ x \in Steps /\ Append(p, x) = SubSeq(q, 1, Len(p) + 1) /\ Append(p, x) \in N
         /\ p \in N
<1>1. Len(p) \in Nat /\ Len(q) \in Nat /\ Len(p) < Len(q) /\ IsPrefix(p, q)
  BY ThroughWhen
<1>2. PICK m \in Nat : m = Len(p) + 1 /\ m \in 1 .. Len(q) /\ m \in 0 .. Len(q)
  BY <1>1
<1>3. x = q[m] /\ x \in Steps
  BY <1>2
<1>4. /\ Prefix(q, m) \in Seq(Steps) /\ Len(Prefix(q, m)) = m
      /\ \A i \in 1 .. m : Prefix(q, m)[i] = q[i]
  BY <1>2, PrefixIsSeq
<1>5. /\ Append(p, x) \in Seq(Steps) /\ Len(Append(p, x)) = m
      /\ (\A i \in 1 .. Len(p) : Append(p, x)[i] = p[i]) /\ Append(p, x)[m] = x
  BY <1>2, <1>3, AppendProperties
<1>6. \A i \in 1 .. Len(p) : p[i] = q[i]
  BY <1>1, IsPrefixWhen
<1>7. Append(p, x) = Prefix(q, m)
  <2>1. PICK s \in Seq(Steps), t \in Seq(Steps) : s = Append(p, x) /\ t = Prefix(q, m)
    BY <1>4, <1>5
  <2>2. Len(s) = Len(t)
    BY <1>4, <1>5, <2>1
  <2>3. ASSUME NEW i \in 1 .. Len(s)  PROVE s[i] = t[i]
    <3>1. i \in 1 .. m /\ (i \in 1 .. Len(p) \/ i = m)
      BY <1>1, <1>2, <1>5, <2>1
    <3>. QED  BY <1>3, <1>4, <1>5, <1>6, <2>1, <3>1
  <2>4. s = t
    BY <2>2, <2>3, SeqEqual
  <2>. QED  BY <2>1, <2>4
<1>8. Prefix(q, m) \in N
  BY <1>2 DEF Walk
<1>9. p \in N
  BY <1>1, WalkHasPrefix
<1>. QED  BY <1>2, <1>3, <1>7, <1>8, <1>9 DEF Prefix

LEMMA CompletedSum ==
  ASSUME NEW e, EdgeOk(e), NEW key, NEW r
  PROVE  /\ CompleteWu(e, r).n = e.n + 1 /\ CompleteWu(e, r).sum = e.sum + r
         /\ key \notin DOMAIN groups =>
              CompleteBu(e, key, r).n = e.n + 1 /\ CompleteBu(e, key, r).sum = e.sum + r
         /\ key \in DOMAIN groups =>
              /\ CompleteBu(e, key, r).n = e.n
              /\ CompleteBu(e, key, r).sum =
                   e.sum + ((groups[key].total + r) \div (groups[key].count + 1))
                         - (groups[key].total \div groups[key].count)
<1>1. CompleteWu(e, r).n = e.n + 1 /\ CompleteWu(e, r).sum = e.sum + r
  BY DEF CompleteWu, EdgeOk, Decremented, Fields
<1>2. ASSUME key \notin DOMAIN groups
      PROVE  CompleteBu(e, key, r).n = e.n + 1 /\ CompleteBu(e, key, r).sum = e.sum + r
  BY <1>2 DEF CompleteBu, EdgeOk, Decremented, Fields
<1>3. ASSUME key \in DOMAIN groups
      PROVE  /\ CompleteBu(e, key, r).n = e.n
             /\ CompleteBu(e, key, r).sum =
                  e.sum + ((groups[key].total + r) \div (groups[key].count + 1))
                        - (groups[key].total \div groups[key].count)
  <2>. DEFINE old == groups[key]
              new == [total |-> old.total + r, count |-> old.count + 1]
              m == e.sum + Mean(new) - Mean(old)
  <2>1. CompleteBu(e, key, r) = [e EXCEPT !.o = Decremented(e.o), !.sum = m]
    BY <1>3 DEF CompleteBu
  <2>2. Mean(new) = (old.total + r) \div (old.count + 1) /\ Mean(old) = old.total \div old.count
    BY DEF Mean
  <2>3. m = e.sum + ((old.total + r) \div (old.count + 1)) - (old.total \div old.count)
    BY <2>2
  <2>. HIDE DEF m
  <2>4. CompleteBu(e, key, r).n = e.n /\ CompleteBu(e, key, r).sum = m
    BY <2>1 DEF EdgeOk, Fields
  <2>. QED  BY <2>3, <2>4
<1>. QED  BY <1>1, <1>2, <1>3

\* The statistics after a rollout is completed.
LEMMA WorthComplete ==
  ASSUME NEW c, NEW L, NEW M, NEW t, Completed(c, L, M, t), NEW k, NEW e, EdgeOk(e), NEW r,
         r = Return(c, Len(k[1])), Through(k, c.path)
  PROVE  /\ WorthWu(e, L, k) => WorthWu(CompleteWu(e, r), M, k)
         /\ \A key : WorthBu(e, L, k) /\ GroupIs(key, L, k, Joined(L, M, k)) =>
              WorthBu(CompleteBu(e, key, r), M, k)
<1>1. More(L, M) /\ Through(k, M[Len(M)].path)
  BY DEF Completed
<1>2. Return(M[Len(M)], Len(k[1])) = r
  BY ReturnSame DEF Completed
<1>3. ASSUME WorthWu(e, L, k)  PROVE WorthWu(CompleteWu(e, r), M, k)
  <2>1. PICK f : f = CompleteWu(e, r)
    OBVIOUS
  <2>2. f.n = e.n + 1 /\ f.sum = e.sum + Return(M[Len(M)], Len(k[1]))
    BY <1>2, <2>1, CompletedSum
  <2>3. WorthWu(f, M, k)
    BY <1>1, <1>3, <2>2, WorthCounted
  <2>. QED  BY <2>1, <2>3
<1>4. ASSUME NEW key, WorthBu(e, L, k), GroupIs(key, L, k, Joined(L, M, k))
      PROVE  WorthBu(CompleteBu(e, key, r), M, k)
  <2>1. PICK f : f = CompleteBu(e, key, r)
    OBVIOUS
  <2>2. CASE Joined(L, M, k) = {}
    <3>1. key \notin DOMAIN groups
      BY <1>4, <2>2 DEF GroupIs
    <3>2. f.n = e.n + 1 /\ f.sum = e.sum + Return(M[Len(M)], Len(k[1]))
      BY <1>2, <2>1, <3>1, CompletedSum
    <3>3. WorthBu(f, M, k)
      BY <1>1, <1>4, <2>2, <3>2, WorthFirst
    <3>. QED  BY <2>1, <3>3
  <2>3. CASE Joined(L, M, k) # {}
    <3>1. /\ key \in DOMAIN groups
          /\ groups[key].total = TotalFor(L, k, Joined(L, M, k))
          /\ groups[key].count = Cardinality(Joined(L, M, k))
      BY <1>4, <2>3 DEF GroupIs
    <3>2. PICK s, d : s = groups[key].total /\ d = groups[key].count
      OBVIOUS
    <3>3. f.n = e.n /\ f.sum = e.sum + ((s + r) \div (d + 1)) - (s \div d)
      BY <2>1, <3>1, <3>2, CompletedSum
    <3>4. s = TotalFor(L, k, Joined(L, M, k)) /\ d = Cardinality(Joined(L, M, k))
      BY <3>1, <3>2
    <3>5. f.sum = e.sum + ((s + Return(M[Len(M)], Len(k[1]))) \div (d + 1)) - (s \div d)
      BY <1>2, <3>3
    <3>6. WorthBu(f, M, k)
      BY <1>1, <1>4, <2>3, <3>3, <3>4, <3>5, WorthNext
    <3>. QED  BY <2>1, <3>6
  <2>. QED  BY <2>2, <2>3
<1>. QED  BY <1>3, <1>4

LEMMA JoinedIs ==
  ASSUME NEW c, NEW L, NEW M, NEW t, Completed(c, L, M, t), NEW k
  PROVE  Joined(L, M, k) = Current(L, k, c.path[Len(k[1]) + 1], t)
BY DEF Joined, Current, Completed, ChildOf

\* An edge of the tree, and the group of the completed rollout there.
LEMMA CompleteThrough ==
  ASSUME IInv, TInv, Complete, NEW k \in DOMAIN edge, Through(k, Head(pending).path), NEW x,
         x = Head(pending).path[Len(k[1]) + 1]
  PROVE  /\ k[1] \in Seq(Steps) /\ x \in Steps /\ Append(k[1], x) \in DOMAIN node
         /\ GroupOf(k, Head(pending).path) = KeyFor(node, k, x)
<1>. DEFINE c == Head(pending)
<1>1. c.path \in Seq(Steps) /\ Walk(c.path, DOMAIN node, DOMAIN edge)
  BY CompleteLog DEF Completed
<1>2. k[1] \in DOMAIN node /\ k[1] \in Seq(Steps) /\ k = <<k[1], k[2]>>
  BY DEF IInv, Typed
<1>. HIDE DEF c
<1>3. PICK p, a : p \in Seq(Steps) /\ p = k[1] /\ a = k[2] /\ k = <<p, a>>
  BY <1>2
<1>4. Through(<<p, a>>, c.path) /\ x = c.path[Len(p) + 1]
  BY <1>3 DEF c
<1>5. x \in Steps /\ Append(p, x) = SubSeq(c.path, 1, Len(p) + 1) /\ Append(p, x) \in DOMAIN node
  BY <1>1, <1>3, <1>4, KeyIs
<1>6. GroupOf(k, c.path) = KeyFor(node, k, x)
  BY <1>3, <1>5 DEF GroupOf, KeyFor
<1>. QED  BY <1>2, <1>3, <1>5, <1>6 DEF c

LEMMA EdgesMatchComplete ==
  ASSUME IInv, TInv, Complete, UNCHANGED planner
  PROVE  EdgesMatch'
<1>. DEFINE c == Head(pending)
<1>1. Completed(c, log, log', epoch)
  BY CompleteLog
<1>2. edge' = [k \in DOMAIN edge |->
                 IF k \in EdgesOf(c.path) THEN CompleteEdge(k, c) ELSE edge[k]]
  BY DEF Complete
<1>3. ASSUME NEW k \in DOMAIN edge  PROVE Worth(edge'[k], log', k, Bu)
  <2>1. Worth(edge[k], log, k, Bu) /\ EdgeOk(edge[k])
    BY DEF TInv, EdgesMatch, IInv, Typed
  <2>2. CASE ~ Through(k, c.path)
    <3>1. edge'[k] = edge[k]
      BY <1>2, <2>2 DEF Through
    <3>2. PICK L, M, e, bu : L = log /\ M = log' /\ e = edge[k] /\ bu = Bu
      OBVIOUS
    <3>3. More(L, M) /\ ~ Through(k, M[Len(M)].path) /\ Worth(e, L, k, bu)
      BY <1>1, <2>1, <2>2, <3>2 DEF Completed
    <3>4. Worth(e, M, k, bu)
      BY <3>3, WorthBeside
    <3>. QED  BY <3>1, <3>2, <3>4
  <2>3. CASE Through(k, c.path)
    <3>. DEFINE r == Return(c, Len(k[1]))
                key == GroupOf(k, c.path)
                x == c.path[Len(k[1]) + 1]
    <3>1. edge'[k] = IF Bu THEN CompleteBu(edge[k], key, r) ELSE CompleteWu(edge[k], r)
      BY <1>2, <2>3 DEF Through, CompleteEdge
    <3>2. /\ x \in Steps /\ Append(k[1], x) \in DOMAIN node /\ key = KeyFor(node, k, x)
      BY <2>3, CompleteThrough
    <3>3. Joined(log, log', k) = Current(log, k, x, epoch)
      BY <1>1, JoinedIs
    <3>4. Bu => GroupIs(key, log, k, Current(log, k, x, epoch))
      BY <3>2 DEF TInv, GroupsMatch
    <3>5. r = Return(c, Len(k[1]))
      OBVIOUS
    <3>. HIDE DEF c, r, key, x
    <3>6. /\ WorthWu(edge[k], log, k) => WorthWu(CompleteWu(edge[k], r), log', k)
          /\ WorthBu(edge[k], log, k) /\ GroupIs(key, log, k, Joined(log, log', k)) =>
               WorthBu(CompleteBu(edge[k], key, r), log', k)
      <4>1. PICK L, M, t, e : L = log /\ M = log' /\ t = epoch /\ e = edge[k]
        OBVIOUS
      <4>2. Completed(c, L, M, t) /\ EdgeOk(e)
        BY <1>1, <2>1, <4>1
      <4>3. /\ WorthWu(e, L, k) => WorthWu(CompleteWu(e, r), M, k)
            /\ WorthBu(e, L, k) /\ GroupIs(key, L, k, Joined(L, M, k)) =>
                 WorthBu(CompleteBu(e, key, r), M, k)
        BY <2>3, <3>5, <4>2, WorthComplete
      <4>. QED  BY <4>1, <4>3
    <3>7. CASE Bu
      <4>1. WorthBu(edge[k], log, k)
        BY <2>1, <3>7 DEF Worth
      <4>2. WorthBu(CompleteBu(edge[k], key, r), log', k)
        BY <3>3, <3>4, <3>6, <3>7, <4>1
      <4>. QED  BY <3>1, <3>7, <4>2 DEF Worth
    <3>8. CASE ~ Bu
      <4>1. WorthWu(edge[k], log, k)
        BY <2>1, <3>8 DEF Worth
      <4>2. WorthWu(CompleteWu(edge[k], r), log', k)
        BY <3>6, <4>1
      <4>. QED  BY <3>1, <3>8, <4>2 DEF Worth
    <3>. QED  BY <3>7, <3>8
  <2>. QED  BY <2>2, <2>3
<1>4. DOMAIN edge' = DOMAIN edge
  BY <1>2
<1>. QED  BY <1>3, <1>4, BuKept DEF EdgesMatch

\* What a completed rollout adds to the groups.
LEMMA GroupedIs ==
  ASSUME NEW c
  PROVE  /\ DOMAIN Grouped(c) = DOMAIN groups \cup {GroupOf(k, c.path) : k \in EdgesOf(c.path)}
         /\ \A g \in DOMAIN groups :
              (\A k \in EdgesOf(c.path) : GroupOf(k, c.path) # g) => Grouped(c)[g] = groups[g]
         /\ \A k \in EdgesOf(c.path) : \E j \in EdgesOf(c.path) :
              /\ GroupOf(j, c.path) = GroupOf(k, c.path)
              /\ Grouped(c)[GroupOf(k, c.path)].total =
                   (IF GroupOf(k, c.path) \in DOMAIN groups
                    THEN groups[GroupOf(k, c.path)].total ELSE 0) + Return(c, Len(j[1]))
              /\ Grouped(c)[GroupOf(k, c.path)].count =
                   (IF GroupOf(k, c.path) \in DOMAIN groups
                    THEN groups[GroupOf(k, c.path)].count ELSE 0) + 1
<1>. DEFINE KeyOf(k) == GroupOf(k, c.path)
            keys == {KeyOf(k) : k \in EdgesOf(c.path)}
            By(g) == CHOOSE k \in EdgesOf(c.path) : KeyOf(k) = g
            Ret(g) == Return(c, Len(By(g)[1]))
            Old(g) == IF g \in DOMAIN groups THEN groups[g] ELSE [total |-> 0, count |-> 0]
<1>1. Grouped(c) =
        [g \in DOMAIN groups \cup keys |->
           IF g \in keys THEN [total |-> Old(g).total + Ret(g), count |-> Old(g).count + 1]
           ELSE groups[g]]
  BY DEF Grouped
<1>2. ASSUME NEW k \in EdgesOf(c.path)
      PROVE  By(KeyOf(k)) \in EdgesOf(c.path) /\ KeyOf(By(KeyOf(k))) = KeyOf(k)
  BY Zenon
<1>. HIDE DEF By
<1>3. ASSUME NEW k \in EdgesOf(c.path)
      PROVE  \E j \in EdgesOf(c.path) :
               /\ KeyOf(j) = KeyOf(k)
               /\ Grouped(c)[KeyOf(k)].total =
                    (IF KeyOf(k) \in DOMAIN groups THEN groups[KeyOf(k)].total ELSE 0)
                      + Return(c, Len(j[1]))
               /\ Grouped(c)[KeyOf(k)].count =
                    (IF KeyOf(k) \in DOMAIN groups THEN groups[KeyOf(k)].count ELSE 0) + 1
  <2>1. PICK g : g = KeyOf(k) /\ g \in keys
    OBVIOUS
  <2>2. By(g) \in EdgesOf(c.path) /\ KeyOf(By(g)) = g
    BY <1>2, <2>1
  <2>3. Grouped(c)[g] = [total |-> Old(g).total + Ret(g), count |-> Old(g).count + 1]
    <3>. HIDE DEF keys, Old, Ret
    <3>. QED  BY <1>1, <2>1
  <2>4. /\ Old(g).total = IF g \in DOMAIN groups THEN groups[g].total ELSE 0
        /\ Old(g).count = IF g \in DOMAIN groups THEN groups[g].count ELSE 0
    OBVIOUS
  <2>5. Grouped(c)[g].total = Old(g).total + Ret(g) /\ Grouped(c)[g].count = Old(g).count + 1
    <3>. HIDE DEF Old, Ret
    <3>. QED  BY <2>3
  <2>. QED  BY <2>1, <2>2, <2>4, <2>5
<1>. QED  BY <1>1, <1>3

\* Where the completed rollout is of the group.
LEMMA CurrentMore ==
  ASSUME NEW c, NEW L, NEW M, NEW t, Completed(c, L, M, t), NEW k, NEW x
  PROVE  /\ Current(L, k, x, t) \in SUBSET SamplesFor(L, k)
         /\ Current(M, k, x, t) =
              IF Through(k, c.path) /\ c.path[Len(k[1]) + 1] = x
              THEN Current(L, k, x, t) \cup {Len(M)} ELSE Current(L, k, x, t)
<1>. DEFINE C == Current(L, k, x, t)
            here == Through(k, c.path) /\ c.path[Len(k[1]) + 1] = x
<1>1. More(L, M) /\ M[Len(M)].path = c.path /\ M[Len(M)].epoch = t
  BY DEF Completed
<1>2. PICK n, m : n = Len(L) /\ m = Len(M) /\ m \notin 1 .. n
                  /\ \A i \in 1 .. m : i \in 1 .. n \/ i = m
  BY <1>1, MoreIndex
<1>3. IsLog(L) /\ IsLog(M)
  BY <1>1, MoreIndex
<1>4. DOMAIN L = 1 .. n /\ DOMAIN M = 1 .. m /\ 1 .. n \subseteq 1 .. m /\ m \in 1 .. m
  <2>1. n \in Nat /\ m \in Nat /\ m = n + 1
    BY <1>1, <1>2, MoreIndex
  <2>2. DOMAIN L = 1 .. Len(L) /\ DOMAIN M = 1 .. Len(M)
    BY <1>3, LogFacts
  <2>3. 1 .. n \subseteq 1 .. m /\ m \in 1 .. m
    BY <2>1
  <2>. QED  BY <1>2, <2>2, <2>3
<1>5. \A i \in 1 .. n : M[i] = L[i]
  BY <1>1, <1>2 DEF More
<1>6. \A i : i \in C <=> i \in 1 .. n /\ Through(k, L[i].path) /\ L[i].epoch = t
                         /\ L[i].path[Len(k[1]) + 1] = x
  BY <1>4 DEF Current, SamplesFor, ChildOf
<1>7. \A i : i \in Current(M, k, x, t) <=>
        i \in 1 .. m /\ Through(k, M[i].path) /\ M[i].epoch = t /\ M[i].path[Len(k[1]) + 1] = x
  BY <1>4 DEF Current, SamplesFor, ChildOf
<1>8. C \in SUBSET SamplesFor(L, k)
  BY DEF Current
<1>9. M[m].path = c.path /\ M[m].epoch = t
  BY <1>1, <1>2
<1>. HIDE DEF C
<1>10. \A i : i \in Current(M, k, x, t) <=> i \in C \/ (i = m /\ here)
  BY <1>2, <1>4, <1>5, <1>6, <1>7, <1>9
<1>. HIDE DEF here
<1>11. Current(M, k, x, t) = IF here THEN C \cup {m} ELSE C
  <2>1. CASE here
    BY <1>10, <2>1
  <2>2. CASE ~ here
    BY <1>10, <2>2
  <2>. QED  BY <2>1, <2>2
<1>. QED  BY <1>2, <1>8, <1>11 DEF C, here

\* The key of a group names its edge and its child.
LEMMA KeyUnique ==
  ASSUME Ids, NEW k, NEW j, k[1] \in DOMAIN node, j[1] \in DOMAIN node,
         NEW x, NEW y, Append(k[1], x) \in DOMAIN node, Append(j[1], y) \in DOMAIN node,
         k[1] \in Seq(Steps), j[1] \in Seq(Steps), x \in Steps, y \in Steps,
         KeyFor(node, k, x) = KeyFor(node, j, y)
  PROVE  k[1] = j[1] /\ k[2] = j[2] /\ x = y
<1>1. /\ node[k[1]].id = node[j[1]].id /\ k[2] = j[2]
      /\ node[Append(k[1], x)].id = node[Append(j[1], y)].id
  BY DEF KeyFor
<1>2. k[1] = j[1] /\ Append(k[1], x) = Append(j[1], y)
  BY <1>1 DEF Ids, IdsUnique
<1>3. Append(k[1], x) = Append(k[1], y)
  BY <1>2
<1>4. Append(k[1], x)[Len(k[1]) + 1] = x /\ Append(k[1], y)[Len(k[1]) + 1] = y
  BY AppendProperties
<1>. QED  BY <1>1, <1>2, <1>3, <1>4

LEMMA GroupsMatchComplete ==
  ASSUME IInv, TInv, Complete, UNCHANGED planner
  PROVE  GroupsMatch'
<1>. DEFINE c == Head(pending)
            last == Len(pending) = 1
<1>1. /\ groups' = IF ~ Bu \/ last THEN << >> ELSE Grouped(c)
      /\ epoch' = IF last THEN epoch + 1 ELSE epoch
      /\ DOMAIN edge' = DOMAIN edge
  BY DEF Complete
<1>2. /\ Completed(c, log, log', epoch) /\ Walk(c.path, DOMAIN node, DOMAIN edge)
      /\ c.path \in Seq(Steps) /\ epoch \in Nat
  BY CompleteLog DEF Completed, TInv, LogOk
<1>3. DOMAIN node' = DOMAIN node /\ \A p \in DOMAIN node : node'[p].id = node[p].id
  BY CompleteNodes DEF IInv
<1>. HIDE DEF c, last
<1>4. CASE ~ Bu
  BY <1>4, BuKept DEF GroupsMatch
<1>5. CASE Bu /\ last
  <2>1. groups' = << >> /\ epoch' = epoch + 1
    BY <1>1, <1>5
  <2>2. LogOk'
    BY LogOkComplete
  <2>3. \A i \in DOMAIN log' : log'[i].epoch # epoch'
    <3>1. PICK M : M = log'
      OBVIOUS
    <3>2. IsLog(M) /\ More(log, M) /\ M[Len(M)].epoch = epoch
      BY <1>2, <3>1, MoreIndex DEF Completed
    <3>3. ASSUME NEW i \in DOMAIN M  PROVE M[i].epoch <= epoch /\ M[i].epoch \in Int
      <4>1. DOMAIN M = 1 .. Len(M)
        BY <3>2, LogFacts
      <4>2. M[i].epoch \in Int
        BY <3>2, <4>1, LogFacts
      <4>3. i \in 1 .. Len(log) \/ i = Len(M)
        BY <3>2, <4>1, MoreIndex
      <4>4. CASE i \in 1 .. Len(log)
        <5>1. M[i] = log[i] /\ i \in DOMAIN log
          <6>1. IsLog(log)
            BY DEF TInv, LogOk
          <6>. QED  BY <3>2, <4>4, <6>1, LogFacts DEF More
        <5>. QED  BY <4>2, <5>1 DEF TInv, LogOk
      <4>5. CASE i = Len(M)
        BY <1>2, <3>2, <4>2, <4>5
      <4>. QED  BY <4>3, <4>4, <4>5
    <3>. QED  BY <1>2, <2>1, <3>1, <3>3
  <2>. QED  BY <2>1, <2>3, NoGroupsMatch
<1>6. CASE Bu /\ ~ last
  <2>0. groups' = Grouped(c) /\ epoch' = epoch
    BY <1>1, <1>6
  <2>1. ASSUME NEW k \in DOMAIN edge, NEW x \in Steps, Append(k[1], x) \in DOMAIN node, NEW g,
               g = KeyFor(node, k, x)
        PROVE  /\ g \in DOMAIN Grouped(c) <=> Current(log', k, x, epoch) # {}
               /\ Current(log', k, x, epoch) # {} =>
                    /\ Grouped(c)[g].total = TotalFor(log', k, Current(log', k, x, epoch))
                    /\ Grouped(c)[g].count = Cardinality(Current(log', k, x, epoch))
    <3>1. PICK L, M, t : L = log /\ M = log' /\ t = epoch
      OBVIOUS
    <3>2. PICK C : C = Current(L, k, x, t)
      OBVIOUS
    <3>3. Completed(c, L, M, t) /\ More(L, M)
      BY <1>2, <3>1 DEF Completed
    <3>4. /\ g \in DOMAIN groups <=> C # {}
          /\ C # {} => groups[g].total = TotalFor(L, k, C) /\ groups[g].count = Cardinality(C)
      BY <1>6, <2>1, <3>1, <3>2 DEF TInv, GroupsMatch, GroupIs
    <3>5. /\ C \in SUBSET SamplesFor(L, k)
          /\ Current(M, k, x, t) =
               IF Through(k, c.path) /\ c.path[Len(k[1]) + 1] = x THEN C \cup {Len(M)} ELSE C
      BY <3>2, <3>3, CurrentMore
    <3>6. k[1] \in DOMAIN node /\ k[1] \in Seq(Steps) /\ k = <<k[1], k[2]>>
      BY DEF IInv, Typed
    <3>7. ASSUME NEW j \in EdgesOf(c.path), GroupOf(j, c.path) = g
          PROVE  j[1] = k[1] /\ j = k /\ c.path[Len(k[1]) + 1] = x /\ Through(k, c.path)
      <4>. DEFINE y == c.path[Len(j[1]) + 1]
      <4>1. Through(j, c.path) /\ j \in DOMAIN edge
        BY <1>2 DEF Through, Walk
      <4>2. /\ j[1] \in Seq(Steps) /\ y \in Steps /\ Append(j[1], y) \in DOMAIN node
            /\ GroupOf(j, c.path) = KeyFor(node, j, y)
        BY <4>1, CompleteThrough DEF c
      <4>3. j[1] \in DOMAIN node /\ j = <<j[1], j[2]>>
        BY <4>1 DEF IInv, Typed
      <4>4. KeyFor(node, k, x) = KeyFor(node, j, y) /\ Ids
        BY <2>1, <3>7, <4>2 DEF IInv
      <4>. HIDE DEF y
      <4>5. k[1] = j[1] /\ k[2] = j[2] /\ x = y
        BY <2>1, <3>6, <4>2, <4>3, <4>4, KeyUnique
      <4>6. j = k
        BY <3>6, <4>3, <4>5
      <4>. QED  BY <4>1, <4>5, <4>6 DEF y
    <3>8. CASE Through(k, c.path) /\ c.path[Len(k[1]) + 1] = x
      <4>1. Current(M, k, x, t) = C \cup {Len(M)}
        BY <3>5, <3>8
      <4>2. GroupOf(k, c.path) = g /\ k \in EdgesOf(c.path)
        BY <2>1, <3>8, CompleteThrough DEF c, Through
      <4>3. g \in DOMAIN Grouped(c)
        BY <4>2, GroupedIs
      <4>4. PICK j \in EdgesOf(c.path) :
              /\ GroupOf(j, c.path) = g
              /\ Grouped(c)[g].total =
                   (IF g \in DOMAIN groups THEN groups[g].total ELSE 0) + Return(c, Len(j[1]))
              /\ Grouped(c)[g].count = (IF g \in DOMAIN groups THEN groups[g].count ELSE 0) + 1
        BY <4>2, GroupedIs
      <4>5. j[1] = k[1]
        BY <3>7, <4>4
      <4>6. /\ (IF g \in DOMAIN groups THEN groups[g].total ELSE 0) = TotalFor(L, k, C)
            /\ (IF g \in DOMAIN groups THEN groups[g].count ELSE 0) = Cardinality(C)
        <5>1. CASE C = {}
          <6>1. IsLog(L)
            BY <3>3, MoreIndex
          <6>2. TotalFor(L, k, {}) = 0
            BY <6>1, LogFacts, SumNone DEF TotalFor
          <6>3. Cardinality({}) = 0
            BY FS_EmptySet
          <6>. QED  BY <3>4, <5>1, <6>2, <6>3
        <5>2. CASE C # {}
          BY <3>4, <5>2
        <5>. QED  BY <5>1, <5>2
      <4>7. TotalFor(M, k, C \cup {Len(M)}) = TotalFor(L, k, C) + Return(c, Len(k[1]))
        <5>1. TotalGrown(L, M, k, C)
          BY <3>3, <3>5, TotalMore
        <5>2. Return(M[Len(M)], Len(k[1])) = Return(c, Len(k[1]))
          BY <3>3, ReturnSame DEF Completed
        <5>. QED  BY <5>1, <5>2 DEF TotalGrown
      <4>8. Cardinality(C \cup {Len(M)}) = Cardinality(C) + 1
        <5>1. PICK n : n = Len(L)
          OBVIOUS
        <5>2. n \in Nat /\ Len(M) = n + 1
          BY <3>3, <5>1, MoreIndex
        <5>3. C \subseteq 1 .. n
          <6>1. IsLog(L)
            BY <3>3, MoreIndex
          <6>2. SamplesFor(L, k) \subseteq 1 .. n
            BY <5>1, <6>1, LogFacts
          <6>. QED  BY <3>5, <6>2
        <5>4. Cardinality(C \cup {n + 1}) = Cardinality(C) + 1
          BY <5>2, <5>3, PositionsFinite
        <5>. QED  BY <5>2, <5>4
      <4>9. Grouped(c)[g].total = TotalFor(M, k, C \cup {Len(M)})
        BY <4>4, <4>5, <4>6, <4>7
      <4>10. Grouped(c)[g].count = Cardinality(C \cup {Len(M)})
        BY <4>4, <4>6, <4>8
      <4>. QED  BY <3>1, <4>1, <4>3, <4>9, <4>10
    <3>9. CASE ~ (Through(k, c.path) /\ c.path[Len(k[1]) + 1] = x)
      <4>1. Current(M, k, x, t) = C
        BY <3>5, <3>9
      <4>2. \A j \in EdgesOf(c.path) : GroupOf(j, c.path) # g
        BY <3>7, <3>9
      <4>3. g \in DOMAIN Grouped(c) <=> g \in DOMAIN groups
        <5>1. DOMAIN Grouped(c) =
                DOMAIN groups \cup {GroupOf(j, c.path) : j \in EdgesOf(c.path)}
          BY GroupedIs
        <5>. QED  BY <4>2, <5>1
      <4>4. g \in DOMAIN groups => Grouped(c)[g] = groups[g]
        BY <4>2, GroupedIs
      <4>5. TotalFor(M, k, C) = TotalFor(L, k, C)
        <5>1. TotalKept(L, M, k, C)
          BY <3>3, <3>5, TotalMore
        <5>. QED  BY <5>1 DEF TotalKept
      <4>. QED  BY <3>1, <3>4, <4>1, <4>3, <4>4, <4>5
    <3>. QED  BY <3>8, <3>9
  <2>2. ASSUME NEW k \in DOMAIN edge, NEW x \in Steps, Append(k[1], x) \in DOMAIN node
        PROVE  GroupIs(KeyFor(node, k, x), log, k, Current(log, k, x, epoch))'
    <3>1. KeyFor(node', k, x) = KeyFor(node, k, x)
      <4>1. k[1] \in DOMAIN node
        BY DEF IInv, Typed
      <4>. QED  BY <1>3, <2>2, <4>1 DEF KeyFor
    <3>2. PICK g : g = KeyFor(node, k, x)
      OBVIOUS
    <3>3. /\ g \in DOMAIN groups' <=> Current(log', k, x, epoch) # {}
          /\ Current(log', k, x, epoch) # {} =>
               /\ groups'[g].total = TotalFor(log', k, Current(log', k, x, epoch))
               /\ groups'[g].count = Cardinality(Current(log', k, x, epoch))
      BY <2>0, <2>1, <2>2, <3>2
    <3>. QED  BY <2>0, <3>1, <3>2, <3>3 DEF GroupIs
  <2>3. Steps' = Steps
    BY PlannerKept
  <2>. QED  BY <1>1, <1>3, <2>2, <2>3 DEF GroupsMatch
<1>. QED  BY <1>4, <1>5, <1>6

LEMMA TInvComplete ==
  ASSUME IInv, TInv, Complete, UNCHANGED planner
  PROVE  TInv'
BY LogOkComplete, VisitsMatchComplete, EdgesMatchComplete, GroupsMatchComplete DEF TInv

-----------------------------------------------------------------------------
(* The retained tree *)

\* Every step keeps the statistics what the log says.
LEMMA TInvNext ==
  ASSUME IInv, TInv, [Next]_vars
  PROVE  TInv'
<1>. USE DEF IInv
<1>1. CASE UNCHANGED vars
  BY <1>1, TInvStill DEF vars
<1>2. ASSUME NEW a \in Actions, NEW x \in Rewards, Bootstrap(a, x), UNCHANGED planner
      PROVE  TInv'
  <2>1. << >> \in DOMAIN node /\ Take(<< >>, a, x) /\ groups = << >>
    BY <1>2 DEF Bootstrap, Typed, Budget
  <2>2. pc # "complete" /\ pc' # "complete" /\ UNCHANGED <<groups, epoch, log>>
    BY <1>2 DEF Bootstrap
  <2>. QED  BY <1>2, <2>1, <2>2, TInvTake
<1>3. ASSUME NEW a \in Actions, NEW x \in Rewards, Descend(a, x), UNCHANGED planner
      PROVE  TInv'
  <2>1. Take(cursor, a, x) /\ groups = << >>
    BY <1>3 DEF Descend, Budget
  <2>2. cursor \in DOMAIN node
    <3>1. Len(cursor) \in 0 .. Len(cursor)
      BY LenProperties DEF Typed
    <3>2. Prefix(cursor, Len(cursor)) = cursor
      BY PrefixFull DEF Typed
    <3>. QED  BY <3>1, <3>2 DEF Walks, Walk
  <2>3. pc # "complete" /\ pc' # "complete" /\ UNCHANGED <<groups, epoch, log>>
    BY <1>3 DEF Descend
  <2>. QED  BY <1>3, <2>1, <2>2, <2>3, TInvTake
<1>4. ASSUME EndDispatch, UNCHANGED planner  PROVE TInv'
  BY <1>4, TInvStill DEF EndDispatch
<1>5. ASSUME NEW i \in DOMAIN pending, NEW r \in {0} \cup Rewards, Rollout(i, r),
             UNCHANGED planner
      PROVE  TInv'
  BY <1>5, TInvStill DEF Rollout
<1>6. ASSUME Complete, UNCHANGED planner  PROVE TInv'
  BY <1>6, TInvComplete
<1>7. ASSUME NEW k \in 0 .. MaxSamples, NEW s \in Steps, Search(k, s), UNCHANGED planner
      PROVE  TInv'
  <2>1. Prune(s) /\ UNCHANGED <<groups, epoch>> /\ pc = "idle" /\ pc' # "complete"
    BY <1>7 DEF Search
  <2>2. groups = << >>
    BY <2>1 DEF Budget
  <2>. QED  BY <1>7, <2>1, <2>2, TInvPrune
<1>. QED  BY <1>1, <1>2, <1>3, <1>4, <1>5, <1>6, <1>7 DEF Next, Step

Both == IInv /\ TInv

LEMMA BothNext ==
  ASSUME Both, [Next]_vars
  PROVE  Both'
BY IInvNext, TInvNext DEF Both

\* The invariant of the statistics is inductive together with IInv.
THEOREM StatisticsInductive == Spec => []Both
<1>1. Init => Both
  BY IInvInit, TInvInit DEF Both
<1>. QED  BY <1>1, BothNext, PTL DEF Spec

\* Whatever the batches, the order in which rollouts finish and the re-rooting,
\* the visits, counts and mean returns of the retained tree are those of the
\* completed rollouts: WU counts each one, BU each group of an epoch once, with
\* the mean of its returns (complete_update_node, update_bu_epoch, prune_tree).
THEOREM TreeIsTheLog == Spec => []TreeMatchesLog
<1>1. Both => TreeMatchesLog
  BY TreeMatchesIs DEF Both, TInv, VisitsMatch, EdgesMatch
<1>. QED  BY <1>1, StatisticsInductive, PTL

=============================================================================
