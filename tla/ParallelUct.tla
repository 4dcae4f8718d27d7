---------------------------- MODULE ParallelUct ----------------------------
(***************************************************************************)
(* The parallel UCT planner.  A search re-roots the retained tree on the   *)
(* last action and percept, then dispatches its rollouts in batches: the   *)
(* main thread walks one path after another down the tree, marking every   *)
(* edge it takes as incomplete; the batch's rollouts then run on a thread  *)
(* pool in any order; and the main thread applies the completed paths in   *)
(* task order.  One batch is one epoch of the grouped BU backpropagation.  *)
(*                                                                         *)
(* A tree node is the sequence of <<action, percept>> pairs from the root, *)
(* an edge a node and an action.  A percept is its reward.  UCB scores are *)
(* not modelled: any edge that may be selected is.  Returns are not        *)
(* discounted (gamma = 1), and an edge keeps sum = n * q instead of its    *)
(* mean return q; rewards are multiples of every group size, so that means *)
(* of groups are integers.  -1 stands for the return of a rollout that has *)
(* not finished, so it is no reward.                                       *)
(***************************************************************************)
EXTENDS Integers, Sequences, SequencesExt, FiniteSets

CONSTANTS
  Planners,       \* configurations: [bu, actions, samples], see below
  Rewards,        \* the percepts
  Horizon,        \* planning horizon
  Workers,        \* configured worker threads
  MNum, MDen,     \* bu_uct_m_max = MNum / MDen
  MaxSearches     \* bound of the model on the number of searches

ASSUME PlannerAssumption ==
  /\ Planners \subseteq [bu : BOOLEAN, actions : Nat \ {0}, samples : Nat]
  /\ Horizon \in Nat \ {0} /\ Workers \in Nat \ {0} /\ MNum \in Nat \ {0} /\ MDen \in Nat /\ MNum < MDen
  /\ Rewards \subseteq Int \ {-1}
  /\ \A x \in Rewards, c \in 1 .. Workers : x % c = 0

VARIABLES
  planner,    \* the configuration in use
  node,       \* node[path] = [id, visits]
  edge,       \* edge[<<path, action>>] = [n, o, sum, obar]
  nextId,     \* next_node_id
  pc,         \* idle, bootstrap, dispatch, rollout or complete
  samples,    \* budget of the current or last search
  dispatched, \* completed rollouts of this search
  cursor,     \* the path walked so far by the current dispatch
  pending,    \* dispatched rollouts of this batch, in task order
  groups,     \* the BU groups of this epoch: key -> [total, count]
  searches,   \* number of searches started
  epoch,      \* history variable: the number of completed batches
  log         \* history variable: the completed rollouts below the root

vars == <<planner, node, edge, nextId, pc, samples, dispatched, cursor, pending,
          groups, searches, epoch, log>>

Bu == planner.bu                  \* BU-UCT with a threshold, or WU-UCT
Actions == 0 .. planner.actions - 1
MaxSamples == planner.samples     \* bound of the model on the budget of a search
Steps == Actions \X Rewards
Running == -1     \* the tail reward of a rollout that has not finished

Smaller(a, b) == IF a <= b THEN a ELSE b

Fresh(id) == [id |-> id, visits |-> 0]
NewEdge == [n |-> 0, o |-> 0, sum |-> 0, obar |-> <<0, 1>>]

Init ==
  /\ planner \in Planners
  /\ node = [p \in {<< >>} |-> Fresh(0)]
  /\ edge = << >>
  /\ nextId = 1
  /\ pc = "idle"
  /\ samples = 0 /\ dispatched = 0
  /\ cursor = << >> /\ pending = << >> /\ groups = << >>
  /\ searches = 0 /\ epoch = 0 /\ log = << >>

-----------------------------------------------------------------------------
(* Selecting an edge *)

\* n + o
EffectiveVisits(e) == e.n + e.o

\* BU: the accumulated incomplete occupancy is below m_max * workers.
Selectable(e) == Bu => e.obar[1] * MDen < MNum * Workers * e.obar[2]

Unvisited(p) == {a \in Actions : <<p, a>> \notin DOMAIN edge}

\* The actions a dispatch may take from p: none if all edges are forbidden.
Allowed(p) ==
  IF Unvisited(p) # {} THEN Unvisited(p)
  ELSE {a \in Actions : EffectiveVisits(edge[<<p, a>>]) > 0 /\ Selectable(edge[<<p, a>>])}

\* A root edge that was never dispatched nor completed.
BootstrapChoices ==
  {a \in Actions : <<<< >>, a>> \in DOMAIN edge =>
                     /\ edge[<<<< >>, a>>].n = 0
                     /\ EffectiveVisits(edge[<<<< >>, a>>]) = 0}

\* on_incomplete_update; the average obar is a fraction.
Incomplete(e) ==
  LET on == EffectiveVisits(e) + 1
  IN  [e EXCEPT !.o = @ + 1,
                !.obar = IF Bu THEN <<(on - 1) * @[1] + (e.o + 1) * @[2], on * @[2]>> ELSE @]

\* Take action a from p and see percept x: the edge and the child are created
\* when they are new.
Take(p, a, x) ==
  LET k == <<p, a>>
      c == Append(p, <<a, x>>)
      e == IF k \in DOMAIN edge THEN edge[k] ELSE NewEdge
  IN  /\ edge' = [i \in DOMAIN edge \cup {k} |-> IF i = k THEN Incomplete(e) ELSE edge[i]]
      /\ IF c \in DOMAIN node THEN UNCHANGED <<node, nextId>>
         ELSE /\ node' = [i \in DOMAIN node \cup {c} |-> IF i = c THEN Fresh(nextId) ELSE node[i]]
              /\ nextId' = nextId + 1

-----------------------------------------------------------------------------
(* A search *)

\* A bug: the rest of the budget is not considered.
FullBatch == Smaller(Workers, samples)

BatchSize == Smaller(Smaller(Workers, samples), samples - dispatched)

\* A bug: a fresh root does not consume its id.
FreshRootKeepingId ==
  /\ node' = [p \in {<< >>} |-> Fresh(nextId)]
  /\ edge' = << >> /\ log' = << >>
  /\ UNCHANGED nextId

FreshRoot ==
  /\ node' = [p \in {<< >>} |-> Fresh(nextId)]
  /\ edge' = << >> /\ log' = << >>
  /\ nextId' = nextId + 1

\* A completed rollout that re-rooting left behind.
Forgotten == [path |-> << >>, tail |-> 0, epoch |-> -1]

\* prune_tree: keep the subtree below step s, or start from a fresh root.
Prune(s) ==
  LET r == <<s>>
      Below(p) == IsPrefix(r, p)
  IN  IF r \in DOMAIN node
      THEN /\ node' = [p \in {Tail(q) : q \in {m \in DOMAIN node : Below(m)}} |-> node[r \o p]]
           /\ edge' = [k \in {<<Tail(j[1]), j[2]>> : j \in {m \in DOMAIN edge : Below(m[1])}} |->
                         edge[<<r \o k[1], k[2]>>]]
           /\ log' = [i \in DOMAIN log |->
                        IF Below(log[i].path) THEN [log[i] EXCEPT !.path = Tail(@)] ELSE Forgotten]
           /\ UNCHANGED nextId
      ELSE FreshRoot

\* Start a search with a budget of k rollouts after the step s: a fresh root
\* is bootstrapped, a search without a budget only prunes.
Search(k, s) ==
  /\ pc = "idle" /\ searches < MaxSearches
  /\ searches' = searches + 1
  /\ samples' = k /\ dispatched' = 0
  /\ Prune(s)
  /\ pc' = IF k = 0 THEN "idle"
           ELSE IF node'[<< >>].visits = 0 THEN "bootstrap" ELSE "dispatch"
  /\ UNCHANGED <<cursor, pending, groups, epoch>>

\* The first rollout of a fresh root is a batch of its own, one step deep.
Bootstrap(a, x) ==
  /\ pc = "bootstrap"
  /\ a \in BootstrapChoices
  /\ Take(<< >>, a, x)
  /\ pending' = << [path |-> << <<a, x>> >>, tail |-> Running] >>
  /\ pc' = "rollout"
  /\ UNCHANGED <<samples, dispatched, cursor, groups, searches, epoch, log>>

\* dispatch_rollout_into, one level.
Descend(a, x) ==
  /\ pc = "dispatch"
  /\ Len(cursor) < Horizon /\ node[cursor].visits > 0
  /\ a \in Allowed(cursor)
  /\ Take(cursor, a, x)
  /\ cursor' = Append(cursor, <<a, x>>)
  /\ UNCHANGED <<pc, samples, dispatched, pending, groups, searches, epoch, log>>

\* The walk ends at the horizon, at a node that no rollout has completed yet,
\* or where every edge is forbidden.
EndDispatch ==
  /\ pc = "dispatch"
  /\ \/ Len(cursor) = Horizon
     \/ node[cursor].visits = 0
     \/ Allowed(cursor) = {}
  /\ pending' = Append(pending, [path |-> cursor, tail |-> Running])
  /\ cursor' = << >>
  /\ pc' = IF Len(pending') = BatchSize THEN "rollout" ELSE pc
  /\ UNCHANGED <<node, edge, nextId, samples, dispatched, groups, searches, epoch, log>>

\* Rewards a random rollout of h steps may collect.
TailRewards(h) == IF h = 0 THEN {0} ELSE Rewards

\* A bug: the last worker looks at the batch before its own result is in.
RolloutUnnoticed(i, r) ==
  /\ pc = "rollout"
  /\ pending[i].tail = Running
  /\ r \in TailRewards(Horizon - Len(pending[i].path))
  /\ pending' = [pending EXCEPT ![i].tail = r]
  /\ pc' = IF \E j \in DOMAIN pending : pending[j].tail = Running THEN pc ELSE "complete"
  /\ UNCHANGED <<node, edge, nextId, samples, dispatched, cursor, groups, searches, epoch, log>>

\* A worker finishes the rollout of task i.
Rollout(i, r) ==
  /\ pc = "rollout"
  /\ pending[i].tail = Running
  /\ r \in TailRewards(Horizon - Len(pending[i].path))
  /\ pending' = [pending EXCEPT ![i].tail = r]
  /\ pc' = IF \E j \in DOMAIN pending : pending'[j].tail = Running THEN pc ELSE "complete"
  /\ UNCHANGED <<node, edge, nextId, samples, dispatched, cursor, groups, searches, epoch, log>>

-----------------------------------------------------------------------------
(* Completing a batch *)

\* The sum of the values at the positions up to n that are in S.
SumUpto(n, S, value) ==
  LET upto[i \in 0 .. n] ==
        IF i = 0 THEN 0 ELSE IF i \in S THEN upto[i - 1] + value[i] ELSE upto[i - 1]
  IN  upto[n]

\* The return of a completed rollout from depth d on.
Return(c, d) ==
  c.tail + SumUpto(Len(c.path), d + 1 .. Len(c.path), [i \in DOMAIN c.path |-> c.path[i][2]])

\* The edges of a path, and how deep each one leaves its node.
EdgesOf(path) == {<<SubSeq(path, 1, d), path[d + 1][1]>> : d \in 0 .. Len(path) - 1}

\* A bug: rollouts to different children share a group.
GroupOfEdge(k, path) == <<node[k[1]].id, k[2]>>

\* The BU group of edge k for the child that path reaches through it.
GroupOf(k, path) == <<node[k[1]].id, k[2], node[SubSeq(path, 1, Len(k[1]) + 1)].id>>

Mean(g) == g.total \div g.count

\* edge.o.saturating_sub(1)
Decremented(o) == IF o = 0 THEN 0 ELSE o - 1

\* A bug: a rollout that joins a group stays incomplete.
CompleteBuLeaky(e, key, r) ==
  IF key \notin DOMAIN groups
  THEN [e EXCEPT !.o = Decremented(@), !.n = @ + 1, !.sum = @ + r]
  ELSE LET old == groups[key]
           new == [total |-> old.total + r, count |-> old.count + 1]
       IN  [e EXCEPT !.sum = @ + Mean(new) - Mean(old)]

\* A bug: completing a rollout recomputes the average from the live count.
CompleteBuForgiving(e, key, r) ==
  LET done == [e EXCEPT !.o = Decremented(@), !.obar = <<Decremented(e.o), 1>>]
  IN  IF key \notin DOMAIN groups
      THEN [done EXCEPT !.n = @ + 1, !.sum = @ + r]
      ELSE LET old == groups[key]
               new == [total |-> old.total + r, count |-> old.count + 1]
           IN  [done EXCEPT !.sum = @ + Mean(new) - Mean(old)]

\* BU: a group of rollouts through one edge to one child counts once per epoch,
\* with the mean of its returns.
CompleteBu(e, key, r) ==
  IF key \notin DOMAIN groups
  THEN [e EXCEPT !.o = Decremented(@), !.n = @ + 1, !.sum = @ + r]
  ELSE LET old == groups[key]
           new == [total |-> old.total + r, count |-> old.count + 1]
       IN  [e EXCEPT !.o = Decremented(@), !.sum = @ + Mean(new) - Mean(old)]

\* WU: every rollout counts.
CompleteWu(e, r) == [e EXCEPT !.o = Decremented(@), !.n = @ + 1, !.sum = @ + r]

CompleteEdge(k, c) ==
  LET r == Return(c, Len(k[1]))
  IN  IF Bu THEN CompleteBu(edge[k], GroupOf(k, c.path), r) ELSE CompleteWu(edge[k], r)

\* The groups of the epoch after c.
Grouped(c) ==
  LET KeyOf(k) == GroupOf(k, c.path)
      keys == {KeyOf(k) : k \in EdgesOf(c.path)}
      Ret(g) == Return(c, Len((CHOOSE k \in EdgesOf(c.path) : KeyOf(k) = g)[1]))
      Old(g) == IF g \in DOMAIN groups THEN groups[g] ELSE [total |-> 0, count |-> 0]
  IN  [g \in DOMAIN groups \cup keys |->
         IF g \in keys THEN [total |-> Old(g).total + Ret(g), count |-> Old(g).count + 1]
         ELSE groups[g]]

\* The nodes a completed path visits, its leaf included.
Visited(path) == {p \in DOMAIN node : IsPrefix(p, path)}

\* complete_update_node for the next task of the batch; the last one closes the
\* epoch, and the search when its budget is spent.
Complete ==
  LET c == Head(pending)
      last == Len(pending) = 1
  IN  /\ pc = "complete"
      /\ node' = [p \in DOMAIN node |->
                    IF p \in Visited(c.path) THEN [node[p] EXCEPT !.visits = @ + 1] ELSE node[p]]
      /\ edge' = [k \in DOMAIN edge |->
                    IF k \in EdgesOf(c.path) THEN CompleteEdge(k, c) ELSE edge[k]]
      /\ log' = Append(log, [path |-> c.path, tail |-> c.tail, epoch |-> epoch])
      /\ pending' = Tail(pending)
      /\ dispatched' = dispatched + 1
      /\ groups' = IF ~Bu \/ last THEN << >> ELSE Grouped(c)
      /\ epoch' = IF last THEN epoch + 1 ELSE epoch
      /\ pc' = IF ~last THEN pc ELSE IF dispatched' < samples THEN "dispatch" ELSE "idle"
      /\ UNCHANGED <<nextId, samples, cursor, searches>>

-----------------------------------------------------------------------------
Step ==
  /\ \/ \E a \in Actions, x \in Rewards : Bootstrap(a, x) \/ Descend(a, x)
     \/ EndDispatch
     \/ \E i \in DOMAIN pending, r \in {0} \cup Rewards : Rollout(i, r)
     \/ Complete
  /\ UNCHANGED planner

Next ==
  \/ Step
  \/ /\ \E k \in 0 .. MaxSamples, s \in Steps : Search(k, s)
     /\ UNCHANGED planner

\* A search runs on the caller's thread until it returns, and the pool runs
\* every rollout it is given.
Spec == Init /\ [][Next]_vars /\ WF_vars(Step)

-----------------------------------------------------------------------------
(* Properties *)

Through(k, path) == k \in EdgesOf(path)

\* The incomplete count of an edge is the number of rollouts in flight through
\* it, the walk in progress included: nothing leaks into the next search and
\* the saturating subtraction never saturates.
OccupancyExact ==
  \A k \in DOMAIN edge :
    edge[k].o = Cardinality({i \in DOMAIN pending : Through(k, pending[i].path)})
                + (IF Through(k, cursor) THEN 1 ELSE 0)

\* The completed rollouts through edge k, their returns from there on, and those
\* that rollout i is grouped with: of the same epoch, to the same child.
Samples(k) == {i \in DOMAIN log : Through(k, log[i].path)}
Returns(k) == [i \in DOMAIN log |-> Return(log[i], Len(k[1]))]
ChildBy(k, i) == log[i].path[Len(k[1]) + 1]
GroupWith(k, i) ==
  {j \in Samples(k) : log[j].epoch = log[i].epoch /\ ChildBy(k, j) = ChildBy(k, i)}

\* The first rollout of each group, and the mean return of each rollout's group.
Firsts(k) == {i \in Samples(k) : \A j \in GroupWith(k, i) : i <= j}
MeanOf(k, S) == SumUpto(Len(log), S, Returns(k)) \div Cardinality(S)
Means(k) ==
  [i \in DOMAIN log |-> IF i \in Samples(k) THEN MeanOf(k, GroupWith(k, i)) ELSE 0]

\* The retained tree is a function of the completed rollouts alone, whatever the
\* batches and the re-rooting: visits count them, WU values average them, and
\* BU values average the means of their groups.
TreeMatchesLog ==
  /\ \A p \in DOMAIN node :
       node[p].visits = Cardinality({i \in DOMAIN log : log[i].epoch >= 0 /\ IsPrefix(p, log[i].path)})
  /\ \A k \in DOMAIN edge :
       LET counted == IF Bu THEN Firsts(k) ELSE Samples(k)
           values == IF Bu THEN Means(k) ELSE Returns(k)
       IN  edge[k].n = Cardinality(counted) /\ edge[k].sum = SumUpto(Len(log), counted, values)

\* Node ids are unique, so the groups of different edges cannot be confused.
IdsUnique ==
  \A p, q \in DOMAIN node : node[p].id = node[q].id => p = q

\* A search with a budget leaves a completed root edge to choose from, and has
\* completed exactly its budget of rollouts.
BudgetSpent ==
  pc = "idle" =>
    /\ dispatched = samples
    /\ samples > 0 => \E a \in Actions : <<<< >>, a>> \in DOMAIN edge /\ edge[<<<< >>, a>>].n > 0

\* BU: an edge over the threshold is retired, it is never taken again as long
\* as its node is in the tree.
Retired(k) == k \in DOMAIN edge /\ ~Selectable(edge[k])

RetiredForGood ==
  [][pc # "idle" => \A k \in DOMAIN edge : Retired(k) => Retired(k)' /\ edge'[k].o <= edge[k].o]_vars

\* Every search returns.
SearchReturns == (pc # "idle") ~> (pc = "idle")

=============================================================================
