# A TLA+ verification of infotheory

`infotheory` is a Rust library for information-theoretic modelling: a family of
sequential predictors ("rate backends", with context tree weighting as the
principal one), entropy coders and metrics over them, general reinforcement
learning agents that plan with such a predictor (MC-AIXI, AIQI, a warm-start
variant), and a tuner that searches for good model specifications. Paths below
are relative to `src/crates/infotheory/src/` unless they say otherwise.

Most of the library is numeric and sequential. What is hard to get right, and
hard to test, is how its parts *speculate* and how they *keep in step*: a
planner pushes hypothetical symbols into a live predictor and takes them back, a
session captures and restores checkpoints in the middle of a symbol, an agent
learns labels that become known late from a history that is pruned meanwhile, a
parallel tree search credits rollouts that have not finished, a grammar
rewrites itself while it is read, a decoder has to repeat every move of an
encoder from the bits alone, and a tuner prices candidates in processes that
may hang or crash. This project models that part. Probabilities, scores and
statistics are abstracted: a predictor is the sequence of operations that made
it, or, at a coder, a source of arbitrary distributions.

## 1. The system

| Part (source) | State | Operations | Talks to |
|---|---|---|---|
| **AIQI agent** (`aixi/aiqi.rs`) | retained history with a moving base, return bins, one predictor and one "last labelled step" per phase | observe a transition, label and learn, prune, query, act, reset | a predictor per phase; the return law |
| **Return law evaluation** (`aixi/return_law.rs`) | none | expected label from a speculating predictor | a predictor |
| **Parallel UCT planner** (`aixi/mcts/parallel_uct.rs`, `aixi/mcts.rs`) | a tree of nodes and edges with completed and in-flight counts, the batch, its BU groups | search, re-root, bootstrap, dispatch, roll out, complete | the agent (cloned per rollout), a thread pool |
| **Sequential rho-UCT** (`aixi/mcts/rho_uct.rs`) | the same tree, without in-flight counts | search, sample, revert | the agent (in place) |
| **MC-AIXI agent** (`aixi/agent.rs`) | model, cycle counters, last percept | update model, revert, clone for rollouts | predictor, planners |
| **Predictor of the planners** (`aixi/model.rs`) | journal of per-symbol rollback points, stack of scopes, over a backend | update, update history, revert, begin/rollback/commit scope, reset | a rate backend's checkpoints |
| **Bit session** (`api/context.rs`) | a predictor and the symbol in progress | observe/condition bits, checkpoint, restore, discard, clear, reset, finish, simulation scopes | a rate backend's checkpoints |
| **Rate backend dispatch** (`mixture.rs`, `backends/`) | model, undo journal, checkpoint depth, symbol progress | update, update frozen, native bits, checkpoint, restore, discard, clear, reset | CTW, FAC-CTW, context counters, ROSA, mixtures, neural models |
| **Warm-start agent** (`aixi/warmstart.rs`) | live steps, labels, one predictor and one "last labelled step" per phase, trained on teacher traces | train on a teacher, observe a transition, decide, hand over the live trace | predictors, the tuner |
| **Planner run session** (`aixi/planner_agent.rs`, `aixi/planner_runtime.rs`) | agent, environment, step and episode counters, telemetry | step a cycle, run, reset | agents, environments |
| **Environments** (`aixi/environment.rs`, `aixi/gameengine.rs`, `aixi/vm_nyx.rs`) | a game or a virtual machine | perform an action, give a percept, reset | the run session |
| **Tuner search** (`tuner.rs`, `tuner/annealer.rs`, `tuner/planner_bridge.rs`) | current and best candidate, cache, budget, counters, rounds | propose, price, accept, reset, change rounds, write | workers, a warm-start agent |
| **Evaluator workers** (`tuner/eval.rs`) | a child process, its response file, two deadlines | spawn, poll, kill, read, clean up | the tuner |
| **Entropy coders, framing** (`coders/`, `compression/`) | coder registers, a stream | quantise, encode, decode, verify | predictors |
| **Sequitur grammar** (`backends/sequitur.rs`) | linked rules, digram table, follower counts, undo journal | update, condition, checkpoint, restore, clear, reset | the rate backend |
| **Specifications, metrics, bindings** | none that lives across calls | parse, lower, estimate, format | everything |

`PROJECT.json` lists the parts at a finer grain with their status.

How they interact: a run session steps an environment and an agent in turn; the
agent owns its predictors and drives them through a planner; the planner's
predictor and the bit session are two separate clients of a backend's journal
of undo entries. Everything is `&mut self` and therefore sequential, with two
exceptions: the parallel planner's rollouts, which run on a rayon pool between
two sequential phases, and the tuner's evaluation processes.

What makes each part correct, and why it is hard:

- *AIQI*: a phase's predictor has learned exactly the augmented history of that
  phase, `H-1` steps late, although most of what it was learned from has been
  pruned; a query conditions on the unlabelled remainder and leaves no trace of
  it. Several clocks run at once: steps seen, bins known, label of each phase,
  base of the history.
- *Parallel UCT*: in-flight counts return to zero however rollouts finish; the
  statistics are those of the completed rollouts, also after re-rooting; the
  budget is spent exactly although the last batch is short; a search returns.
- *Predictor, session, backend*: rolling back to a point recovers exactly what
  was there when it was taken, with points of two kinds that nest and a journal
  that must be kept as long as anyone may need it, and no longer.
- *Search over the predictor*: whatever path a rollout takes, what is reverted
  is what was pushed.
- *Warm start*: as AIQI, after training on a teacher; what was lived in one round of a
  tuning run is not lost to the next.
- *Run session*: percepts are recorded once, and a failing cycle leaves agent
  and environment in step.
- *Tuner*: at most one worker runs and none outlives its call; the best candidate
  is the least of what was evaluated, at every early end; a cached result is one of
  the same time limit; the proposal kernel is reversible; the run ends
  whatever a worker does.
- *Coders*: decoding inverts encoding whatever the predictor answers, through
  every carry, renormalisation, block boundary and vanished share.
- *Sequitur*: the grammar expands to what was learned, no repetition goes
  unnoticed, no rule is useless, and a restore undoes all of it.

The list `hazards` of `PROJECT.json` has these in detail, at their lines.

## 2. Modules

```
ReturnStream --- Aiqi ------------- AiqiProofs
                  \ refines AugmentedReturns

ParallelUct -+- MCParallelUct
             +- ParallelUctProofs

SymbolStream -+- BitSession ------- BitSessionProofs
              |   \ refines RevocableStream
              +- BitPredictor ----- BitPredictorProofs
              |   \ refines SnapshotStack
              +- McAixi ----------- McAixiProofs    keeps to SnapshotStack

Evaluator -+- Tuner -+- MCTuner
Proposals -+         +- TunerProofs

WarmStart -+- MCWarmStart
           +- WarmStartProofs

ArithmeticCoder -+- Compression -+- MCCompression
RansCoder -------+               +- CompressionProofs

SequiturGrammar - Sequitur
```

### ReturnStream, AugmentedReturns, Aiqi: the AIQI agent

`ReturnStream` holds the pure part: phases, the phase of a step, the return bin
of a window of rewards, the augmented token stream. A transition is an action
and a reward (an observation adds nothing to the bookkeeping). The
discounted return is computed exactly with rational arithmetic where the code
uses `f64`, so a bin is a function of the rewards, and rounding at a bin's
boundary is not modelled.

`Aiqi` follows `AiqiAgent`. The history is a function on the global step
numbers `base .. total`, the bins a partial function on them, `last[p]` is
`last_augmented_step`, `cond[p]` is the sequence of tokens the phase's
predictor was fed and has not popped. Actions:

| Action | Code |
|---|---|
| `ObserveShort`, `ObserveAndLearn` | `observe_transition`: append; once there are `H` steps, compute the bin of the step `H-1` back, push the missing steps and labels into its phase's predictor; prune (not after an error) |
| `Reject` | its early returns on a transition that fails validation |
| `FastForward`, `PushArm`, `PopArm`, `FinishQuery` | planning: choose the next step's phase, push the steps it lacks, ask about each action, pop everything; or the same on a clone |

The variable `generic`, set at the start, says which of the two planners the agent has: one
that queries its live predictors and takes everything back, or one that queries clones.

The errors `MissingReturnBin` and the panics on an index out of range are
outcomes of these actions (`result`, and `pc = "dead"`), not guards, so that
their absence is something to show.

A query is spread over several steps, so that what the predictor is conditioned
on when it answers is a state that an invariant can speak of; no other call can
come in between (`&mut self`), and `pc` enforces that. Random exploration
chooses whether to use the answer and changes nothing here, so it is left out. The
speculation inside the expected-label computation is balanced and belongs to
the return law; it is left out.

`AugmentedReturns` is the promise: phase `p` has learned, in order, the
idealised augmented stream up to its last label, computed from the whole
history that was ever seen. It has no pruning, no bins and no queries.
`Aiqi!RefinesIdeal` maps onto it with the history variable `trace`.

### ParallelUct: the parallel planner

A node is the path from the root, `node` and `edge` are functions on paths and
on path/action pairs. `pc` follows `search_with_stats`: idle, bootstrap (a root
without statistics gets one sequential rollout), dispatch (walk down and mark one
path after another), rollout (any task of the batch finishes, in any order),
complete (apply in task order; the last one drops the BU groups).
`Search` re-roots the retained tree on the last action and percept (the nodes
below keep their identities), or starts from a fresh root. `Descend` is one
level of a dispatch, `EndDispatch` its end, `Rollout` a worker's result,
`Complete` the complete update of the next task.

UCB scores are abstracted to a free choice among the edges the code would
consider, so the result covers every numeric outcome. Returns are not discounted,
edges keep the sum `n * q` in the place of the mean, and rewards are multiples
of every possible group size so that a group's mean is an integer: the arithmetic is exact where
the code rounds. (The proofs use the rewards as integers only.) The code sorts the results of a
batch by task before it applies them, which makes its rounded sums reproducible; here they
are kept in task order and sums are exact, so no property depends on that sort.

The history variable `log` holds the completed rollouts in the order in which they were applied,
each with its walk and its epoch. Re-rooting cuts the first step off the walks that took it and
leaves an empty, forgotten entry in the place of every other one, so positions stay as they are.
`TreeMatchesLog` computes the statistics from this log: a WU edge counts every rollout through it;
a BU edge counts the first rollout of each group (same epoch, same child) and adds
the group's mean, wherever in the batch the group's rollouts stand.

### SymbolStream: what a predictor is

The sequence of the bits it was fed, each either learned (adaptive) or only
conditioned on (frozen), and the marks of lifecycle resets. Two predictors built by
the same sequence are equal. CTW's node
statistics are not modelled; that popping an operation restores the tree up
to rounding is the code's own documented claim and is assumed.

### RevocableStream, BitSession: the session over a backend

`core` is the backend: the operations that made it, its undo journal, its
checkpoint depth, and how far the symbol in progress has gone. A journal entry
is the number of operations that it and those before it take back: it stands
for what the code stores to undo one call. `prefix` is the session's symbol in progress, of one of two kinds: a mass prefix beside the
predictor, or a native prefix inside it with a start checkpoint. `saved` are
the client's checkpoints since the last clear. The actions are observing or
conditioning on a bit (`FeedBit`: opening a prefix, its start checkpoint, the
bit, the completion of the symbol, or the rejection of a mode change), a
prediction (`PredictBit`, which may open a prefix), `TakeCheckpoint`,
`RestoreCheckpoint`, `ClearCheckpoints`, `ResetFrozen` (accepted or refused,
also `begin_bit_stream`), `Finish` and the simulation scope of a worker's clone.

`RevocableStream` is the promise: a stream of symbols and a set of remembered
streams; restoring gives back one of them. It knows nothing of journals,
prefixes or depth.

The constant `Nested` says whether clients keep to last-in-first-out use of
checkpoints. The library's own clients do; its documentation does not require it, see
section 6.

### SnapshotStack, BitPredictor: the planners' predictor

`tree`, `undo`, `depth` are the backend; `journal` and `scopes` are the
bookkeeping of `RateBackendBitPredictor`. Every method that changes state is an
action. `seen` is a history field in each rollback point: the bits at its time.
Assertions of the code (`expect`, `assert!`) are guards: a client that pops what
it pushed never meets them. `refused` is a history variable as well: a reset returned an
error, and the backend's checkpoints were not cleared since.

`SnapshotStack` is the promise: a value and a stack of snapshots of it. A reset succeeds
there. The code's reset of a CTW backend gives up the rollback points first and is then
refused if there were any; that step is none of the promise and `RefinesSnapshots` leaves it
out by name, `RefusedReset` (section 6). What comes after a refusal is held to the promise again, and
`RollbackExact` says how long its effect lasts: the backend may journal for nobody only
until new rollback points have come and gone.

### McAixi: the agent that plans with rho-UCT

Three components that share one predictor: the cycle of the MC-AIXI adapter
(`run_cycle`), the agent (`agent.rs`) and the planner (`rho_uct.rs`). They are
one module because what matters lies between them: a search simulates in
the very predictor that the cycle teaches. `stream` is what the predictor was
fed, `scopes` its rollback scopes, `todo` and `takeback` the bits that the call in
progress still has to push or pop, so that every bit is a step. `scoped`
says whether the predictor has scopes (the rate backends) or is reverted bit by
bit (CTW, FAC-CTW). The tree is `node` and `chance`, functions on paths as in
`ParallelUct`.

| Action | Code |
|---|---|
| `LearnPercept`, `Explore`, `Act`, `Perform` | the lines of `run_cycle` in their order |
| `Fail` | `observe_action` returns an error; the session may run the cycle again |
| `NewEpisode` | `reset_for_episode`: the planner's state goes, the predictor stays |
| `BeginSearch`, `EndSearch` | `search`: prune, and choose the best root action |
| `BeginSample`, `SelectAction`, `RollAction`, `PerceptBit`, `EndSample`, `Backup` | `sample`, unrolled: down the tree, the rollout below it, the revert at the leaf, the updates on the way back |
| `Push`, `Pop` | one bit of the call in progress |

`log` remembers the samples behind the tree and the history each was drawn from; a
sample that re-rooting leaves behind becomes `Forgotten` and keeps its place.
`McAixi!Contract` is `SnapshotStack`: the agent's steps, seen from the predictor, are
steps the predictor allows. Together with `BitPredictor`, which implements the
same `SnapshotStack`, this covers both sides of the `Predictor` trait.

### Evaluator, Proposals, Tuner: a tuning run

`Evaluator` is one call of the executor and one worker process, interleaved with a
clock. `step` is where the call stands, `worker` the process, `answer` its
response file. The executor's steps are the two halves of its polling loop
(`PollExit`, `CheckLimit`), the failure of the poll (`PollError`), and reading the response
(`ReadAnswer`); the worker may start, answer, exit, crash, or do nothing for ever. Both have a
deadline of their own, so a worker may be killed with its answer written, or
report a timeout itself.

`Proposals` is the annealer's kernel on one integer leaf, with the kinds of JSON
numbers, the bounds of a configured range, and the parser that reads an
over-large number as the default.

`Tuner` is `run_tune` over these two: warmups, baseline, then one of three
controllers. `Draw`/`Ask` propose, `Price` looks into the cache or calls a
worker, `Evaluated` caches, `Admit` accepts or refuses and moves the best
candidate; `EndRound` and `Price` change the planner's rounds. Time is in ticks
that pass at any point (`Tick`). Real-valued temperatures are abstracted: the
annealer may draw with any radius, and accept whatever has a probability between 0
and 1. The planner's choices are free.

### WarmStart: the warm-start agent

A predictor is the pair of the stream it was trained on and the tokens it is
conditioned on. `ObserveTransition` records a step, completes a return and trains
the phase of that return up to its step. A decision is `BeginDecision`, which pushes the
steps its phase lacks, one `EvaluateAction` for each action, pushed and popped again, and
`EndDecision`, which pops the rest; `deciding` keeps other calls out, as `&mut self`
does. `NextRound` is the start of a
round in the tuner's planner controller, where the live trace joins the teacher and
the agent is built anew. A teacher is a finite set of traces, each transition of which
`validate_warmstart_teacher_transition_against_contract` has accepted (`WarmStartAssumption`),
and is sorted as `canonicalize_warmstart_teacher_traces` does.

### ArithmeticCoder, RansCoder, Compression

`ArithmeticCoder` is the bit-plus-follow coder with registers of `PRECISION`
bits, `RansCoder` the range-ANS coder with words of `Word` values and its blocked
form. `Compression` codes a stream over tables quantised from distributions and
decodes it from the payload alone. The loop of the arithmetic coder that settles bits is a recursive
function of `PRECISION` rounds (`CountsOpen` proves that it is over by then), a block
is a fold over its symbols, and every symbol of the message records, as history only, the
encoder it met. The distributions are the adversary: some
make a symbol's share round to nothing, some sum to more than one, as
sums of floats do. The predictor on both sides answers the same as long as the
symbols are the same, which is what the code assumes of it.

### SequiturGrammar, Sequitur

`SequiturGrammar` is the rewriting machinery, function by function, on a record
that holds the linked nodes, the rules and the digram table; as in the code, every
write that a restore has to undo goes through one journaling function. Its functions
call each other recursively (`check`, `match_nodes`, `substitute`), so they are
RECURSIVE operators. `Sequitur` has one action per operation of the backend.
`message` remembers what was fed and not taken back. `saved` are
the client's checkpoints, each with a copy of the model of its time, which
only `RestoreExact` looks at.

Definitions whose comment begins "Mutant" or "A bug" are not the code: each is
a slip one could make in the definition that follows, kept beside it so that
every property is known to be able to fail.

## 3. Runs

| Run | Instance | States | Properties |
|---|---|---|---|
| `aiqi` | both planners, period 3, horizon 2, 2 actions, rewards 0..1, 4 bins, gamma 1/2, pruning to 1 step, 7 transitions | 524 280 | `TypeOK` `StreamsExact` `QueryExact` `NeverFails` `RetentionBounded` `HistoryExact` `RefinesIdeal` |
| `parallel_uct` | a WU planner (2 actions, budgets to 3) and a BU planner (1 action, threshold 1/2, budgets to 5), 2 percepts, horizon 2, 3 workers, 2 searches | 387 566 | `OccupancyExact` `TreeMatchesLog` `IdsUnique` `BudgetSpent` `RetiredForGood` `SearchReturns` |
| `bit_session` | symbols of 2 bits, 4 operations in the predictor, 3 checkpoints, nested use | 1 070 004 | `PrefixAgrees` `StartRecoverable` `DepthAccounted` `RefinesStream` |
| `bit_predictor` | symbols of 1 bit, 4 bits, 4 rollback points | 540 142 | `TypeOK` `RollbackExact` `UndoMatches` `RefinesSnapshots` |
| `mcaixi` | percepts of 1 bit, 2 actions, horizon 2, 3 samples, 2 cycles | 750 316 | `SimulationExact` `StreamIsPast` `ReuseExact` `TreeMatchesLog` `KeepsContract` |
| `tuner` | a ranged leaf of 3 valid values, 3 controllers, budget 3, limit 2, 3 results, 2 rounds, radius 2 | 644 640 | `BestIsLeast` `CacheMeasured` `WorkerConfined` `NeverAborts` `TuneEnds` |
| `compression` | registers of 4 bits, tables of 4 (arithmetic) and 8 (rANS), words of 16, blocks of 3, 5 distributions, 4 symbols | 323 157 | `RoundTrips` `InStep` |
| `warmstart` | period 2 = horizon, 2 actions, rewards 0..1, 2 teacher traces, 4 live steps, 2 rounds | 458 304 | `StreamsExact` `QueryExact` `ExperienceKept` |
| `sequitur` | 2 symbols, streams of 8, 1 conditioned symbol, 2 checkpoints, raw tail of 2, contexts of 3 | 117 988 | `Lossless` `DigramsExact` `RulesUseful` `RestoreExact` |
| `bit_session_anyorder` | checkpoints in any order | violation | `RestoreExact` |
| `mcaixi_explore` | 3 cycles, 2 samples | violation | `ReuseExactWhenExploring` |
| `tuner_unranged` | a leaf without a range | violation | `NeverAborts` |

What the properties say, in short (each has a comment in its module):

- `StreamsExact`: each phase has learned the ideal stream up to its last label.
  `QueryExact`: a query asks in exactly the context of its step, and afterwards
  nothing has changed. `NeverFails`: no bin that is read is missing, no index is
  out of range. `HistoryExact`, `RetentionBounded`: what pruning keeps is the
  right suffix, and it does not grow.
- `OccupancyExact`: an edge's in-flight count is the number of dispatched and
  unfinished rollouts through it. `TreeMatchesLog`: counts and sums are those
  of the completed rollouts below the current root. `BudgetSpent`: a search ends with
  exactly its budget and leaves a completed edge to choose. `RetiredForGood`: an edge past the BU
  threshold stays past it and is taken no more during searches. `IdsUnique`:
  re-rooting keeps node identities, the keys of the BU groups, distinct.
  `SearchReturns` is a liveness property.
- `PrefixAgrees`: the session's symbol in progress and the predictor's agree.
  `StartRecoverable`: while a start checkpoint is held, it leads back to the whole
  symbols. `DepthAccounted`: the predictor journals exactly while somebody holds a
  checkpoint, and forgets none of the session's own. `RollbackExact`, `UndoMatches`: each rollback point leads back to the
  bits of its time, the backend journals exactly as long as there is one (or a refused reset gave
  some up), and the undo log pairs with the newest bits.
- `SimulationExact`: during a search the predictor is conditioned on the real
  history and the sample in progress, and between samples on the real history alone.
  `StreamIsPast`: between searches it has learned each percept and action once and
  in order. `KeepsContract`: what the agent takes back is always the newest
  rollback point. `ReuseExact`: without exploratory actions and failed cycles, all
  samples behind a reused tree were drawn from the history of the search.
  `McAixi!TreeMatchesLog`: as for the parallel planner, and no action is compared
  before it has a sample.
- `BestIsLeast`: the best candidate is deployable and the least of all that were
  ever found deployable, through refusals, stagnation resets and fatal failures.
  `CacheMeasured`: a cached result was measured under the limit of its key, and a
  worker was paid for it. `WorkerConfined`: a worker is alive only while its call
  polls it, or was left behind by an error that ends the run. `NeverAborts`: the
  reversibility check never fails. `TuneEnds`: liveness.
- `RoundTrips`: what is decoded is what was encoded, and no check of the format
  fails. `InStep`: the arithmetic decoder's interval is the encoder's at the same symbol
  and holds the code; the rANS number stays in its register and is back at its start when a block is used up.
- `WarmStart!StreamsExact`: as for AIQI, with the teacher's traces before the live
  steps, each trace once, in their order; its part `ContextExact` is about the live steps alone. `WarmStart!QueryExact`:
  a decision asks about each action after the whole live history and nothing else, and no
  label of its phase is open then. `ExperienceKept`: an agent's history is only given up
  when the teacher has it, and the teacher loses nothing.
- `Lossless`, `DigramsExact`, `RulesUseful`: the grammar expands to the learned
  symbols; the table has exactly the digrams of the grammar, none of which repeats;
  every rule has at least two symbols and two uses, and its count says so.
  `Sequitur!RestoreExact`: every outstanding checkpoint leads back to the whole model
  of its time.
- `RefinesIdeal`, `RefinesStream`, `RefinesSnapshots`: the refinements, the last one without
  the refused resets.

**Bounds and why they are enough.** *AIQI*: with period 3 and horizon 2 there is
a phase whose label is pending, one whose label is the newest and one that lags
by the period; 7 transitions are two full periods after pruning started, so
every phase has been labelled from a pruned history twice.
*ParallelUct*: 3 workers and budgets that are not a multiple of 3 give full,
short and single batches; horizon 2 gives paths that share an edge and diverge
below it; two searches give re-rooting with retained statistics; with `bu_uct_m_max` 1/2 the threshold is 3/2 rollouts in flight, which one
batch of three crosses. *BitSession*: a symbol is 2 bits where the code
has 8: the code distinguishes an empty, a partial and a complete symbol, and
with two bits each of them occurs. Three
checkpoints nest one inside another inside a symbol. *BitPredictor*: four points
allow a scope over symbols over a scope over a symbol. *McAixi*: three samples try both actions below a reused root and then follow
one of them to the horizon; two cycles reuse the tree once, and the predictor is taught between
two searches. Actions and percepts are one bit each; what their widths could
disturb, the order in which bits are taken back, is proved for all of them.
*Tuner*: the range reaches below zero, one of its values is refused, so moves go over
a gap and kinds change sign; the limit exceeds half the budget, so limits shrink;
the baseline and two more results are enough for a stagnation reset. *Compression*: with 4-bit registers and
shares down to one, pending bits and every way to shift a register occur within two symbols, and a stream may
end with pending bits and in either half; one distribution asks for
a bit below the least mass; four symbols over blocks of
three give no block, a short one, a full one, and a full and a short one; a word leaves and
returns to the rANS register within a block. *WarmStart*: the live history can repeat either teacher trace or
extend it, and two rounds refresh the agent once. *Sequitur*: the first rule appears at 4
symbols, a rule is reused and one unfolded at 6, and at 8 a replacement triggers another one
inside it; runs of equal symbols of every length up to 8 occur; the two tails overlap with
conditioned symbols and with contexts longer than them. `MaxSteps`, `MaxSearches`, `MaxOps`,
`MaxDepth`, `MaxCycles`, `MaxAttempts`, `MaxLength`, `MaxFrozen`, `MaxJournal` and
`MaxSaved` are bounds of the models, not of the code.

**Deadlock** is checked except in `parallel_uct`, `tuner`, `tuner_unranged`,
`compression` and `warmstart`, where the system really stops: after
`MaxSearches` searches, at the end of a run, after a stream is verified, and at the last
step of the last round. The other models go on at their bounds with operations that need
no room.

**Fairness.** `ParallelUct` states weak fairness of `Step`, the internal steps of a
search: a search runs on the caller's thread to its end and the rayon pool runs every task it
was given. Nothing forces the client to begin another search. `Tuner` states weak fairness
of `Tune`, the tuner's one thread, and of `Tick`, the clock; none of the worker, which may
hang for ever, nor of any particular answer. `TuneEnds` holds because the executor polls and
the budget runs out. `MaxAttempts` stops proposing in the model; the clock then ends the run as
it would end it in the code.

## 4. Proofs

`AiqiProofs`, `BitSessionProofs`, `BitPredictorProofs`, `McAixiProofs`, `TunerProofs`,
`ParallelUctProofs`, `WarmStartProofs` and `CompressionProofs` are checked with TLAPS for all
values of the constants that meet the named assumptions.

**AIQI**: `TypeCorrect`, `StreamsAreExact`, `QueriesAreExact`,
`AgentNeverFails`, `HistoryIsExact`, `RetentionIsBounded` and `Refinement`, from `ConfigAssumption`
(what `AiqiConfig::validate` accepts, notably horizon at most period) and
`PruneAssumption`. None of the invariants is inductive alone. `IInv` has four
parts: `Hist` (the retained steps and bins are those of the trace), `Progress`
(how far each phase's last label, the base and the pending window lie apart: what
pruning may never drop), `Cond` (each predictor holds the ideal stream up to
its last label) and `Control` (where a query stands and what it pushed). The
key lemma is `QueryLabelled`: every step a query fast-forwards over has its bin
already, and it needs `Horizon <= Period`; without it the agent would read a
missing return. `RetentionIsBounded` is inductive on top of `IInv`: by `PhaseAmong` the last
`Period` labelled steps have one of each phase, so the slowest phase lags by less.

**Bit session**: `PrefixIsAgreed`, `StartIsRecoverable`, `DepthIsAccounted`, `RestoreIsExact`
and `Refinement`, for every width of a symbol, length of the stream and number of checkpoints.
The central notion is `Leads(c, n, t)`: popping the journal of predictor `c` down to length `n`
leaves the stream `t`. What is fed keeps where a length leads, provided it is journaled
(`Grown`); going back to a length keeps it for every length below. A restore goes back in two
stages, first to the mark of the checkpoint, then, if the checkpoint was taken within a native
symbol, to the start of that symbol, so the invariant follows the lower of the two, the anchor:
every anchor leads to what its checkpoint has seen, and none lies above a later one (`Anchored`).
`IInv` says that, that the session's own prefix has one of the shapes that a session can hold, that the predictor is
the whole symbols and the bits in flight (`Holds`), and that the depth counts every holder
(`Counted`). The first three theorems hold for any order of restores. The last two assume
`Nested`: without it a restore may cut the journal below the anchor of a checkpoint that is still
held, and `bit_session_anyorder` shows the wrong restore that follows.

**Predictor**: `TypeCorrect`, `RollbackIsExact`, `UndoIsPaired` and
`Refinement`, for every symbol width and every bound. `IInv` adds to the
checked invariants that rollback points are ordered as they were taken
(`Rising`), that every one of them leads back (`AllLead`), that the journal below a
scope is as it was when the scope began, and that at depth zero nothing is
logged and nobody holds a point. `Accounted` is the converse: without a point, only a
refused reset keeps the depth above zero. In `Refinement` a reset is a reset of
`SnapshotStack` at depth zero and a `RefusedReset` above it; every other step is a step of the stack.

**MC-AIXI**: `SimulationIsExact`, `ContractIsKept`, `StreamIsThePast`, `ReuseIsExact` and
`TreeIsExact`, from `AgentAssumption` alone: for every width of actions and percepts, every horizon and number of samples,
with rollback scopes and without. `SimulationExact` says nothing of the
stream while bits are popped one by one, so it is not inductive. `IInv` has six
parts: `Types`; `Calls` (where bits are left to push or pop, and that the only
scope is that of the sample); `AtStep` and `InStep` (the stream is the context,
the simulated steps and the part of the step in progress); `InRevert` (what is left
to pop is all that stands after the context, and the kinds expected are
those of the bits, newest first); `Settled` (between samples the stream is the
context). Two lemmas carry it: `StepSymsAppend`, that a finished step appends its bits to
those of the steps before, and `KindsMatch`, that the sequence of kinds computed
by `model_revert` from the horizon alone is that of the simulated bits reversed. Both
are arithmetic on positions modulo the width of a step. The contract needs one
invariant more, `Grown`: the scope is not longer than the stream, and with scopes
no bit is popped.

The other three are about more than one search. `StreamIsThePast` needs `Remembers`: what is
learned together with what is still to be pushed is the past, and what a search set
aside as its context is that. `ReuseIsExact` adds `Current`: each sample behind the
tree was drawn from the history in which the tree's root stands, seen from every place of the cycle; only
the pruning by the last action and percept moves both. `TreeIsExact` rests on `Tree`,
which has four parts: every node and edge of a sample is in the tree (`Shape`), and of the
sample in progress so far (`Descent`), hence a node that is made anew has no sample behind it; an
edge without visits is one that the sample in progress has just made (`Visited`); and visits and
sums are those of the samples drawn through (`Counted`). The sums are defined by
a recursive function on finite sets (`SumOver`); the few facts needed of it (`SumOverMore`,
`SumOverSame`, `SumOverNone`) are proved by least counterexample. That re-rooting subtracts exactly the samples
that went another way is `RerootTree`.

**Tuner**: `KernelSymmetric`, `WorkerIsConfined`, `RangedNeverAborts`, `BestIsTheLeast` and
`CacheIsMeasured`, from `KernelAssumption` and `TunerAssumption`, for every leaf, range,
radius, budget, limit and set of refused candidates. `KernelSymmetric` is arithmetic: with a range,
both directions have the one raw action that is the difference of the two numbers
(`OneRawAction`), whatever kinds they are. `WorkerIsConfined` needs `CallInv`: a live worker
implies a call in progress, and after one was abandoned the call is on its way to
end the run. `RangedNeverAborts` needs that the current candidate and the proposal
stay candidates (`StaysInv`) and that a proposal carries equal counts (`SymmetricInv`).
`BestIsTheLeast` needs `StageInv`: which phase excludes what from the comparison, so
that a result that is cached but not yet admitted is not held against the best; its key
step is that `key_less` is a total order on objectives and bytes (`KeyOrder`).
`CacheIsMeasured` needs `AnswerInv` (what a call returns, or a worker leaves, was measured under
the call's own limit, and between calls there is no response) and, from `StageInv`, that a
candidate under evaluation is not cached: so filing it overwrites nothing.

**Parallel UCT**: `OccupancyIsExact`, `TreeIsTheLog`, `IdsAreUnique`, `BudgetIsSpent` and
`RetiredIsForGood`, from `PlannerAssumption`, for every number of workers, horizon, alphabet and budget, and both
modes. `IInv` has eight parts: `Typed`; `Walks` (every prefix of a walk in flight, and each of its edges, is in the tree);
`OccupancyExact` itself; `Ids` (identities are unique and below the next one);
`Grouping` (a BU group belongs to a completed edge, for which identities have to be unique);
`Used` (an edge in the tree is completed or in flight); `Budget` (what each phase of a
search has left to do); and `Served` (from the first dispatch on, a root edge is completed or on its
way). `Used` and `Served` carry the last two theorems: a search ends with nothing in flight, hence
with a completed edge, and a bootstrap, which takes untried edges, never takes a retired one.

`TreeIsTheLog` needs a second invariant, `TInv`, inductive together with `IInv`
(`StatisticsInductive`; TLC confirmed it on the instance of the run first). `LogOk`: the walk of every
log entry is in the tree, and no entry is of the epoch in progress unless a batch is being
completed. `VisitsMatch` and `EdgesMatch` are the property itself. `GroupsMatch` ties the
planner's groups to the log: the group of an edge and a child exists exactly if a rollout of this epoch went
there, and holds the total and the number of those rollouts. When a rollout is
completed, an edge's sum changes by the rollout's return (WU), by the mean of a new group, or by the
difference of a group's new mean and its old one, which in the log is the value at the position of the
group's *first* rollout: the sum changes in one place that may lie far back
(`SumChange`). Identities being unique makes keys of groups as good as paths. Re-rooting
takes rollouts out of the log and shortens all others by one step, which keeps
what they are worth below the new root (`ReturnBelow`).

**Warm start**: `StreamsAreExact`, `ContextsAreExact`, `QueriesAreExact` and `ExperienceIsKept`, from
`WarmStartAssumption`, for every period, horizon, alphabet, teacher and number of rounds.
`IInv` says that the labels known are those of the steps whose return is complete
(`TrueLabels`), that each phase is trained up to its last such step (`Progress`), what each predictor is
conditioned on (`Reached`), and which actions a decision has asked about (`Decision`). The
lemma `Advanced` shows that training never meets a missing label. That a decision meets none
either rests on `Horizon <= Period`, since two steps of a phase are a period apart
(`SamePhase`). Of a return, these need only `ReturnKept`: once complete, it does not change.

`StreamsAreExact` needs more. The labels of a teacher's trace come from a rolling window, and those of
the live steps from a sum over a window of their own; both are differences of the trace's partial
sums (`WindowIs`, `ReturnOfIs`), which makes them equal (`LabelsAreReturns`). The order of the traces is a strict
one (`LessTotal`, `LessTransitive` on the first place where two traces part, `PrecedesStrict`), so that
a finite teacher has a listing in that order and lists each trace once (`CanonicalIs`), and the stream
of a new agent is the concatenation of the lessons in it (`TeacherStreamIs`). `Taught`, inductive on top of
`IInv`, says that this and the live steps up to the phase's last label are all a predictor has been trained on, which
`ContextExact` alone does not say: a decision pushes and pops, but trains nothing.

**Compression**: `RoundTripsAlways` and `StaysInStep`, from `PrecisionAssumption`, `ByteAssumption`, `RansAssumption`,
`CodersAssumption` and `DistributionsAssumption` (a table has a unit for each symbol, which the code
asserts): for every width of the registers, table total, word and block size, every set of
distributions and every length of a stream. `IInv` says in both coders what a stream has to do with
the encoder's past, which its final registers do not show.

For the arithmetic coder no step of the decoder inverts one of the encoder, since bits lag behind the
interval: at any moment some are settled, some held back, and the rest does not exist yet. What can be said
of an encoder in the middle is a relation to the whole finished stream, `Fits`: the settled bits
are in it, those held back are the inverse of the next one, and the code, which is
that next bit and the `PRECISION - 1` after those held back, lies in the interval. `FinishFits` shows that the last
encoder fits what `finish` writes, padding and the ones read past the end included; `RoundFits` and `CountsFit`
carry it from the encoder after a round, or a symbol, to the one before, hence to all of them
(`AllFit`). The decoder after `n` symbols is then a function of the encoder after `n` symbols and the stream
(`DecoderAt`): the code names the symbol (`DecodeStep`), and the same rounds lead both on. Besides,
`CountsOpen`: narrowing to a share of the table leaves no interval empty, since an open interval
is longer than the table's total, every round doubles the interval within the register, and so `PRECISION` rounds
settle all there is to settle.

For rANS, `StepsInvert`: a step of the encoder keeps the register in
its range and names its symbol by the slot, and the decoder's step undoes it. `ShedFits` is the core: after
shedding, the number is at least the symbol's frequency and below what it can carry, so that the
decoder takes a word back exactly if the encoder shed one. A block is the fold of its part of the message
(`Buffered`, `Blocked`), so the coder inside a block is the fold of the symbols that are left (`Within`), and a
block that is used up is back at the start. That the number of blocks is the one the decoder expects
is `ExpectedIs`; that it has opened another block whenever symbols are left is `OpenedIs`.

Both rest on the tables: whatever the masses of a distribution are, its table rises strictly from 0 to
the total (`QuantiseIs`, for the rounded sums and for the repaired ones, and `BinarySplitIs`), so
a value in a symbol's share names that symbol (`SymbolAtIs`). The recursive functions (rounds, windows of bits,
blocks) are shown to have the values of their equations by `Iterate`, and what is
true of all of them by least counterexample (`LeastNatural`, `NatSet`).

AIQI, the bit session and the predictor show their refinement by mapping each action to one of the abstract
specification or to a stutter.

## 5. Only model-checked, and why

- `Sequitur`: the grammar is defined by mutually recursive operators, which the
  prover cannot enter.
- `SearchReturns` and `TuneEnds`: liveness and `ENABLED` are beyond the prover.
- What AIQI's discounted return is for every window: the provers cannot instantiate the theorems on
  induction over sequences, so the proofs take the return bin as an uninterpreted
  function of the window, which is all the bookkeeping relies on. (Recursion over a range of
  numbers, as in the coders and in warm start's returns, is within reach by way of sets of numbers.)

## 6. Findings

The first is a disagreement between documentation and code, not a failure of the
library's own clients, which use checkpoints last in, first out. The second and the third
change what the library's own planners and tuner do.

1. `bit_session_anyorder`. Checkpoints of a journaled predictor are lengths of
   its undo journal, and restoring only pops (`mixture.rs:976`). After an older
   checkpoint was restored, restoring a newer one leaves the predictor at the
   older state and installs the newer prefix beside it. The documentation
   promises restoration to "a previously captured checkpoint"
   (`api/context.rs:513-517`) and names no order.
2. `mcaixi_explore`. An exploratory action of the learn phase is chosen without
   calling the planner (`planner_agent.rs:393`), so the tree stays rooted at the
   history before that cycle. The next search prunes it by the last action and percept
   only, and takes over the statistics of samples that were drawn from a
   history one step short, although the pruning key exists to avoid merging
   distinct successor states (`mcts.rs:19-25`). The parallel planner prunes in the
   same way (`parallel_uct.rs:383`).

3. `tuner_unranged`. A leaf without a range takes its kind from the number it holds
   (`annealer.rs:54`, `:399-407`). From -1 a signed step leads to 0; at 0 the leaf is unsigned
   and has no step back. The elementary profile finds 1 forward and 0 reverse actions and
   fails the whole tune, where the specification says that every step has its inverse
   (`docs/infotheory-tuner-v1.tex:1863`) and the walkthrough reports the failure at this very
   boundary as repaired. The repair covers ranged leaves, for which `RangedNeverAborts` proves it.

A fourth disagreement has no run of its own. The documentation of `reset_conditioning_history`
says "Return `Err` only when the backend has no meaningful way to isolate conditioning state
from learned parameters" (`aixi/model.rs:139-144`). A CTW can: `CtwPredictor` does so
whenever it is asked (`model.rs:203-206`), and so does the backend while its
checkpoint depth is zero (`mixture.rs:3623`). But above zero the backend refuses
(`mixture.rs:3616-3621`), and `RateBackendBitPredictor` has dropped its journal and
scopes by then (`model.rs:930-936`): after one `update`, a reset returns an error, the
bit can no longer be reverted, and further resets fail until new rollback points have come and gone.
`SnapshotStack` has no such step; a model checker that is given `RefinesSnapshots` without
`RefusedReset` finds it in two steps, `Update` and `ResetConditioningHistory`. In the library only
the warm-start agent resets (`warmstart.rs:1878`), between traces that it has committed, when there is
no rollback point; `RollbackExact` says that such a reset is never refused.

A cycle whose telemetry fails and that is run again teaches the percept twice
and prunes the tree twice; `ReuseExact` and `StreamIsPast` exclude it, as the code
does not say what should hold then. The last percept of an episode
is reported but never learned, since a new episode begins with another one.

Other oddities that no run shows: the undo journal of a session over CTW is
documented as used while checkpoints are active (`mixture.rs:706`), but the last
discard keeps it (`mixture.rs:2041`), so the entries of each native symbol stay;
return windows of AIQI span episodes, since `reset_for_episode` only reseeds it; a duplicate trace record replaces the
first one before it is reported (`warmstart.rs:724`); the worker's error pipe is read by
nobody until it exits, so a talkative worker times out (`TuneEnds` shows that this is
all that happens); a polling error leaves the worker running (`WorkerConfined` shows that
the run ends then and no other is spawned).

## 7. Plan

Done: AIQI with its abstract specification and proofs; parallel UCT; session, predictor
and backend journal with two abstract specifications; MC-AIXI with rho-UCT; the tuner
with its workers and kernel; warm start over rounds; the coders and their framing; the Sequitur
grammar. What is left, in this order:

1. `PlannerRun`: cycles, episodes and errors in the middle of a cycle, over any
   agent; the AIQI and warm-start adapters differ from MC-AIXI's in their calls only.
2. The context counters and the ROSA automaton as further predictors under the stream of
   operations, with their own undo journals.

## 8. Not modelled

- Within modelled parts: the probabilities and scores of every predictor and
  planner (free choices or exact sums instead); exploration's random draws (they only
  advance a generator, except in `McAixi`); AIQI's and warm start's expected-label
  computation; the SIMD lanes of rANS and its softmax tables; real-valued leaves of the tuner;
  reward certificates and reports; the evaluator used where processes cannot be
  isolated; validation of datasets and contracts; binary-token and byte sessions of the API;
  Sequitur's canonical export. The component list of `PROJECT.json` names them one by one.
- Not at all: the numeric models (neural backends, mixtures' weights, metrics),
  specification parsing and lowering, the small game environments, the Nyx virtual machine
  (vendored drivers and shared memory that are not in this tree), the command line and the
  Python bindings, benchmarks and vendored code. They are pure functions over
  data, floating-point kernels or I/O, and what could be wrong in them is not a matter of
  states and steps. They are most of the library's lines.
