------------------------------- MODULE McAixi -------------------------------
(***************************************************************************)
(* The MC-AIXI agent: cycles of learning a percept, planning an action by  *)
(* rho-UCT search and acting, over one predictor.  A search simulates in   *)
(* the predictor itself: it pushes the bits of imagined actions and        *)
(* percepts, and at the end of every sample takes them back, with a        *)
(* rollback scope where the predictor has them and bit by bit where not.   *)
(* The tree of a search is re-rooted and reused by the next one.           *)
(*                                                                         *)
(* A percept is its bits, the reward is the last one, and the tree branches*)
(* on all of them (ObservationKeyMode::FullStream).  UCB scores are not    *)
(* modelled: once every action has been tried, any may be selected.        *)
(* Returns are not discounted (gamma = 1), and a node keeps the sum of its *)
(* returns instead of their mean.                                          *)
(***************************************************************************)
EXTENDS Integers, Sequences, SequencesExt, FiniteSets, FiniteSetsExt

CONSTANTS
  NumActions,    \* the size of the action alphabet
  ActionBits,    \* bits of an action in the predictor's stream
  PerceptBits,   \* bits of a percept, observations and reward
  Horizon,       \* agent_horizon
  Samples,       \* num_simulations
  MaxCycles      \* bound of the model on the number of cycles

ASSUME AgentAssumption ==
  /\ NumActions \in Nat \ {0} /\ ActionBits \in Nat /\ NumActions <= 2 ^ ActionBits
  /\ PerceptBits \in Nat \ {0} /\ Horizon \in Nat \ {0} /\ Samples \in Nat
  /\ MaxCycles \in Nat

VARIABLES
  scoped,     \* the predictor supports rollback scopes
  stream,     \* the bits the predictor was fed and that were not taken back
  scopes,     \* its open rollback scopes: the length of the stream at each
  todo,       \* bits that the current call still has to push
  takeback,   \* kinds of the bits that the current call still has to pop
  pc,         \* where the cycle stands
  percept,    \* the current percept of the environment
  prevAct,    \* prev_action
  choice,     \* the action selected in this cycle
  left,       \* samples the search still has to draw
  sim,        \* the sample: [path, act, bits, rolled, tail]
  node,       \* decision nodes: path -> [visits, sum]
  chance,     \* chance nodes: <<path, action>> -> [visits, sum]
  cycles,     \* cycles begun
  past,       \* history variable: what the environment showed and was told
  context,    \* history variable: the stream when the search began
  log,        \* history variable: the samples since the tree was new
  explored,   \* history variable: this episode had an exploratory action
  failed      \* history variable: a cycle has failed half way

modelVars == <<scoped, stream, scopes, todo, takeback>>
treeVars == <<node, chance, log>>
cycleVars == <<percept, prevAct, cycles, past, context, explored, failed>>
vars == <<modelVars, treeVars, cycleVars, pc, choice, left, sim>>

Contract == INSTANCE SnapshotStack WITH
  Width <- 1, MaxOps <- 0, MaxDepth <- 0,
  points <- IF scoped
            THEN [i \in DOMAIN scopes |->
                    [kind |-> "scope", stream |-> SubSeq(stream, 1, scopes[i])]]
            ELSE [i \in DOMAIN stream |->
                    [kind |-> stream[i].op, stream |-> SubSeq(stream, 1, i - 1)]]

Actions == 0 .. NumActions - 1
Percepts == [1 .. PerceptBits -> BOOLEAN]
Reward(x) == IF x[PerceptBits] THEN 1 ELSE 0

\* An action or a percept as symbols of the predictor's stream.
ActionSyms(a) == Contract!Symbol("frozen", [i \in 1 .. ActionBits |-> (a \div 2 ^ (i - 1)) % 2 = 1])
PerceptSyms(x) == Contract!Symbol("adaptive", x)

NoStats == [visits |-> 0, sum |-> 0]
NoSim == [path |-> << >>, act |-> 0, bits |-> << >>, rolled |-> << >>]

Init ==
  /\ scoped \in BOOLEAN
  /\ stream = << >> /\ scopes = << >> /\ todo = << >> /\ takeback = << >>
  /\ pc = "idle" /\ percept \in Percepts /\ prevAct = 0 /\ choice = 0
  /\ left = 0 /\ sim = NoSim
  /\ node = [p \in {<< >>} |-> NoStats] /\ chance = << >>
  /\ cycles = 0 /\ past = << >> /\ context = << >> /\ log = << >>
  /\ explored = FALSE /\ failed = FALSE

\* The call in progress is done with the predictor.
Ready == todo = << >> /\ takeback = << >>

-----------------------------------------------------------------------------
(* The predictor *)

\* update, update_history, commit_update, commit_update_history: one bit.
Push ==
  /\ todo # << >>
  /\ stream' = Append(stream, Head(todo))
  /\ todo' = Tail(todo)
  /\ UNCHANGED <<scoped, scopes, takeback, treeVars, cycleVars, pc, choice, left, sim>>

\* revert, pop_history: one bit, which must be of the expected kind.
Pop ==
  /\ takeback # << >>
  /\ IF stream # << >> /\ stream[Len(stream)].op = Head(takeback)
       THEN stream' = SubSeq(stream, 1, Len(stream) - 1) /\ takeback' = Tail(takeback) /\ UNCHANGED pc
       ELSE pc' = "dead" /\ takeback' = << >> /\ UNCHANGED stream
  /\ UNCHANGED <<scoped, scopes, todo, treeVars, cycleVars, choice, left, sim>>

\* Mutant: actions and percepts are taken back in the order they were pushed.
KindsSwapped(n) == [i \in 1 .. n * (PerceptBits + ActionBits) |->
     IF (i - 1) % (PerceptBits + ActionBits) < ActionBits THEN "frozen" ELSE "adaptive"]

\* The kinds of the bits of n steps, newest first.
Kinds(n) ==
  [i \in 1 .. n * (PerceptBits + ActionBits) |->
     IF (i - 1) % (PerceptBits + ActionBits) < PerceptBits THEN "adaptive" ELSE "frozen"]

\* Mutant: bits are taken back although there is a scope.
RevertBitwise(n) == takeback' = Kinds(n) /\ UNCHANGED <<stream, scopes, todo>>

\* model_revert(n)
Revert(n) ==
  IF scopes # << >>
  THEN /\ stream' = SubSeq(stream, 1, scopes[Len(scopes)])
       /\ scopes' = SubSeq(scopes, 1, Len(scopes) - 1)
       /\ UNCHANGED <<todo, takeback>>
  ELSE takeback' = Kinds(n) /\ UNCHANGED <<stream, scopes, todo>>

-----------------------------------------------------------------------------
(* A cycle, up to the search *)

LearnPercept ==
  /\ pc = "idle" /\ cycles < MaxCycles
  /\ cycles' = cycles + 1
  /\ todo' = PerceptSyms(percept)
  /\ pc' = "plan"
  /\ UNCHANGED <<scoped, stream, scopes, takeback, treeVars, percept, prevAct, past, context, explored,
                 failed, choice, left, sim>>

\* An exploratory action is not planned: the tree is left as it is.
Explore(a) ==
  /\ pc = "plan" /\ Ready
  /\ choice' = a /\ explored' = TRUE
  /\ pc' = "act"
  /\ UNCHANGED <<modelVars, treeVars, percept, prevAct, cycles, past, context, failed, left, sim>>

\* A tree of just a root.
NewTree == node' = [p \in {<< >>} |-> NoStats] /\ chance' = << >> /\ log' = << >>

\* A sample that no node of the tree comes from any more.
Forgotten == [path |-> << >>, tail |-> 0, depth |-> 0, about |-> << >>]

\* The subtree below an action and a percept becomes the tree.
Reroot(a, x) ==
  LET r == << <<a, x>> >>
      Below(p) == IsPrefix(r, p)
  IN  /\ node' = [p \in {Tail(q) : q \in {m \in DOMAIN node : Below(m)}} |-> node[r \o p]]
      /\ chance' = [k \in {<<Tail(j[1]), j[2]>> : j \in {m \in DOMAIN chance : Below(m[1])}} |->
                      chance[<<r \o k[1], k[2]>>]]
      /\ log' = [i \in DOMAIN log |->
                   IF Below(log[i].path) /\ log[i].depth > 1
                   THEN [path |-> Tail(log[i].path), tail |-> log[i].tail, depth |-> log[i].depth - 1,
                         about |-> log[i].about \o ActionSyms(a) \o PerceptSyms(x)]
                   ELSE Forgotten]

Sampled(a, x) == << <<a, x>> >> \in DOMAIN node

\* Mutant: the tree is kept as it is where there is no subtree to keep.
PruneLazily(a, x) == IF Sampled(a, x) THEN Reroot(a, x) ELSE UNCHANGED <<node, chance, log>>

\* prune_tree
Prune(a, x) == IF Sampled(a, x) THEN Reroot(a, x) ELSE NewTree

BeginSearch ==
  /\ pc = "plan" /\ Ready
  /\ Prune(prevAct, percept)
  /\ left' = Samples /\ context' = stream
  /\ pc' = "search"
  /\ UNCHANGED <<modelVars, percept, prevAct, cycles, past, explored, failed, choice, sim>>

-----------------------------------------------------------------------------
(* A sample *)

\* The steps simulated so far, in the tree and below it.
Simulated == sim.path \o sim.rolled
Deep == Len(Simulated) = Horizon

\* begin_simulation
BeginSample ==
  /\ pc = "search" /\ left > 0
  /\ sim' = NoSim
  /\ scopes' = IF scoped THEN Append(scopes, Len(stream)) ELSE scopes
  /\ pc' = "decide"
  /\ UNCHANGED <<scoped, stream, todo, takeback, treeVars, cycleVars, choice, left>>

Tried(p) == {a \in Actions : <<p, a>> \in DOMAIN chance}
Selectable(p) == IF Tried(p) = Actions THEN Actions ELSE Actions \ Tried(p)

\* At a visited node above the horizon: an action that was not tried, or the
\* one that scores best.
SelectAction(a) ==
  /\ pc = "decide" /\ ~Deep /\ node[sim.path].visits > 0
  /\ a \in Selectable(sim.path)
  /\ chance' = [k \in DOMAIN chance \cup {<<sim.path, a>>} |->
                  IF k \in DOMAIN chance THEN chance[k] ELSE NoStats]
  /\ sim' = [sim EXCEPT !.act = a]
  /\ todo' = ActionSyms(a)
  /\ pc' = "chance"
  /\ UNCHANGED <<scoped, stream, scopes, takeback, node, log, cycleVars, choice, left>>

\* A node without visits is rolled out from: random actions to the horizon.
RollAction(a) ==
  /\ \/ pc = "decide" /\ node[sim.path].visits = 0
     \/ pc = "roll"
  /\ ~Deep
  /\ sim' = [sim EXCEPT !.act = a]
  /\ todo' = ActionSyms(a)
  /\ pc' = "rollchance"
  /\ UNCHANGED <<scoped, stream, scopes, takeback, treeVars, cycleVars, choice, left>>

\* gen_percept_and_update: one bit drawn from the predictor and learned; the
\* last one of a percept leads on to the next decision.
PerceptBit(b) ==
  LET bits == Append(sim.bits, b)
      step == <<sim.act, bits>>
      child == Append(sim.path, step)
  IN  /\ pc \in {"chance", "rollchance"} /\ Ready
      /\ stream' = Append(stream, Contract!Fed("adaptive", b))
      /\ IF Len(bits) < PerceptBits
           THEN sim' = [sim EXCEPT !.bits = bits] /\ UNCHANGED <<node, pc>>
         ELSE IF pc = "chance"
           THEN /\ sim' = [sim EXCEPT !.bits = << >>, !.path = child]
                /\ node' = [p \in DOMAIN node \cup {child} |->
                              IF p \in DOMAIN node THEN node[p] ELSE NoStats]
                /\ pc' = "decide"
         ELSE /\ sim' = [sim EXCEPT !.bits = << >>, !.rolled = Append(@, step)]
              /\ pc' = "roll"
              /\ UNCHANGED node
      /\ UNCHANGED <<scoped, scopes, todo, takeback, chance, log, cycleVars, choice, left>>

\* At the horizon everything that was simulated is taken back.
EndSample ==
  /\ pc \in {"decide", "roll"} /\ Deep
  /\ Revert(Horizon)
  /\ pc' = "backup"
  /\ UNCHANGED <<scoped, treeVars, cycleVars, choice, left, sim>>

\* The sample's return from depth d on.
Return(path, tail, d) == FoldSeq(LAMBDA s, r : Reward(s[2]) + r, tail, SubSeq(path, d + 1, Len(path)))

\* Mutant: the node at the horizon counts as well.
OnPath(p) == IsPrefix(p, sim.path)

\* The decision nodes that a sample counts at: those above the horizon.
AboveHorizon(p) == IsPrefix(p, sim.path) /\ Len(p) < Horizon

Credited(n, r) == [visits |-> n.visits + 1, sum |-> n.sum + r]

\* sample, on its way back: every node of the path above the horizon counts.
Backup ==
  LET tail == FoldSeq(LAMBDA s, r : Reward(s[2]) + r, 0, sim.rolled)
      Taken(k) == \E d \in 1 .. Len(sim.path) :
                    k = <<SubSeq(sim.path, 1, d - 1), sim.path[d][1]>>
  IN  /\ pc = "backup" /\ Ready
      /\ node' = [p \in DOMAIN node |->
                    IF AboveHorizon(p) THEN Credited(node[p], Return(sim.path, tail, Len(p))) ELSE node[p]]
      /\ chance' = [k \in DOMAIN chance |->
                      IF Taken(k) THEN Credited(chance[k], Return(sim.path, tail, Len(k[1]))) ELSE chance[k]]
      /\ log' = Append(log, [path |-> sim.path, tail |-> tail, depth |-> Horizon, about |-> context])
      /\ left' = left - 1
      /\ sim' = NoSim
      /\ pc' = "search"
      /\ UNCHANGED <<modelVars, cycleVars, choice>>

-----------------------------------------------------------------------------
(* The rest of a cycle *)

\* The actions of the highest mean, or any if none was tried.
BestActions ==
  LET Value(a) == chance[<< << >>, a>>]
      tried == Tried(<< >>)
  IN  IF tried = {} THEN Actions
      ELSE {a \in tried : \A b \in tried : Value(b).sum * Value(a).visits <= Value(a).sum * Value(b).visits}

EndSearch(a) ==
  /\ pc = "search" /\ left = 0
  /\ a \in BestActions
  /\ choice' = a
  /\ pc' = "act"
  /\ UNCHANGED <<modelVars, treeVars, cycleVars, left, sim>>

\* Mutant: the predictor is told the previous action.
ActStale ==
  /\ pc = "act"
  /\ todo' = ActionSyms(prevAct)
  /\ pc' = "env"
  /\ UNCHANGED <<scoped, stream, scopes, takeback, treeVars, cycleVars, choice, left, sim>>

\* The action is reported and learned.
Act ==
  /\ pc = "act"
  /\ todo' = ActionSyms(choice)
  /\ pc' = "env"
  /\ UNCHANGED <<scoped, stream, scopes, takeback, treeVars, cycleVars, choice, left, sim>>

\* Reporting the action fails: the cycle is given up half way, and the session may
\* run it again.  (An environment that answers with observations of a wrong length
\* ends the model.)
Fail ==
  /\ pc = "act"
  /\ failed' = TRUE
  /\ pc' = "idle"
  /\ UNCHANGED <<modelVars, treeVars, percept, prevAct, cycles, past, context, explored, choice,
                 left, sim>>

\* The environment performs the action, and the cycle is over; whether end_cycle
\* then reports an error makes no difference here.
Perform(x) ==
  /\ pc = "env" /\ Ready
  /\ past' = Append(past, <<percept, choice>>)
  /\ percept' = x /\ prevAct' = choice
  /\ pc' = "idle"
  /\ UNCHANGED <<modelVars, treeVars, cycles, context, explored, failed, choice, left, sim>>

\* reset_for_episode, with a new environment: the predictor is kept.
NewEpisode(x) ==
  /\ pc = "idle"
  /\ percept' = x /\ prevAct' = 0
  /\ NewTree
  /\ explored' = FALSE
  /\ UNCHANGED <<modelVars, cycles, past, context, failed, pc, choice, left, sim>>

Next ==
  \/ Push
  \/ Pop
  \/ LearnPercept
  \/ \E a \in Actions : Explore(a) \/ SelectAction(a) \/ RollAction(a) \/ EndSearch(a)
  \/ BeginSearch
  \/ BeginSample
  \/ \E b \in BOOLEAN : PerceptBit(b)
  \/ EndSample
  \/ Backup
  \/ Act
  \/ Fail
  \/ \E x \in Percepts : Perform(x) \/ NewEpisode(x)

Spec == Init /\ [][Next]_vars

-----------------------------------------------------------------------------
(* Properties *)

\* Blocks of the bits of an action and a percept, one after the other.
Joined(blocks) ==
  LET width == ActionBits + PerceptBits
  IN  [i \in 1 .. Len(blocks) * width |-> blocks[(i - 1) \div width + 1][((i - 1) % width) + 1]]

\* The symbols of a sequence of simulated steps, and of a history.
StepSyms(steps) == Joined([k \in DOMAIN steps |-> ActionSyms(steps[k][1]) \o PerceptSyms(steps[k][2])])
Learned(h) == Joined([k \in DOMAIN h |-> PerceptSyms(h[k][1]) \o ActionSyms(h[k][2])])

\* What the predictor is conditioned on during a search is the real history
\* followed by exactly the sample in progress, and nothing more once a sample has
\* been taken back: no symbol of another sample stays behind or goes missing, and
\* none is taken back as what it is not.
SimulationExact ==
  /\ pc # "dead"
  /\ pc \in {"decide", "roll"} => stream = context \o StepSyms(Simulated)
  /\ pc \in {"chance", "rollchance"} =>
       stream \o todo = context \o StepSyms(Simulated) \o ActionSyms(sim.act) \o PerceptSyms(sim.bits)
  /\ pc \in {"search", "backup"} /\ Ready => stream = context /\ scopes = << >>

\* The predictor has learned what the environment showed and was told, each thing
\* once and in order, whatever was simulated in between.
StreamIsPast ==
  ~failed =>
    /\ pc = "idle" => stream = Learned(past)
    /\ pc \in {"search", "act"} => stream = Learned(past) \o PerceptSyms(percept)

Searching == pc \in {"search", "decide", "chance", "roll", "rollchance", "backup"}

\* Every sample behind the tree that a search extends and decides by was drawn
\* from the very history that the search plans for.
TreeIsCurrent == Searching => \A i \in DOMAIN log : log[i].depth > 0 => log[i].about = context

\* Without exploratory actions and failed cycles, reusing the tree is exact.
ReuseExact == ~explored /\ ~failed => TreeIsCurrent

\* Planned and exploratory cycles may alternate: the tree is exact still.
ReuseExactWhenExploring == ~failed => TreeIsCurrent

\* The sum of the values at the indices in S.
SumOver(S, value) ==
  LET upto[i \in 0 .. Len(value)] ==
        IF i = 0 THEN 0 ELSE IF i \in S THEN upto[i - 1] + value[i] ELSE upto[i - 1]
  IN  upto[Len(value)]

\* The samples that went through a decision node above their horizon, those that
\* then took an action, and their returns from there on.
Over(p) == {i \in DOMAIN log : IsPrefix(p, log[i].path) /\ Len(p) < log[i].depth}
Through(k) ==
  {i \in Over(k[1]) : Len(log[i].path) > Len(k[1]) /\ log[i].path[Len(k[1]) + 1][1] = k[2]}
Returns(d) == [i \in DOMAIN log |-> Return(log[i].path, log[i].tail, d)]
StatsOf(S, d) == [visits |-> Cardinality(S), sum |-> SumOver(S, Returns(d))]

\* Visits and sums are those of the samples drawn below the root, whatever the
\* re-rooting; no tried action lacks a sample when actions are compared.
TreeMatchesLog ==
  pc # "idle" =>
    /\ \A p \in DOMAIN node : node[p] = StatsOf(Over(p), Len(p))
    /\ \A k \in DOMAIN chance : chance[k] = StatsOf(Through(k), Len(k[1]))
    /\ pc = "search" => \A k \in DOMAIN chance : chance[k].visits > 0

\* The agent keeps to the predictor's contract: what it takes back is always
\* its newest rollback point.
KeepsContract == Contract!Spec

=============================================================================
