-------------------------------- MODULE Aiqi --------------------------------
(***************************************************************************)
(* The discounted AIQI agent: incremental training of the phase predictors *)
(* on augmented return streams, pruning of the retained history, and the   *)
(* planning query that borrows a predictor, fast-forwards it over the      *)
(* steps it has not been trained on, asks about each action and undoes it. *)
(*                                                                         *)
(* A predictor is its conditioning history: the sequence of token groups   *)
(* pushed and not popped.  The agent is used through &mut self, so a call  *)
(* never interleaves with another; a planning query is spread over several *)
(* steps so that what the predictor is conditioned on when it answers can  *)
(* be stated.                                                              *)
(***************************************************************************)
EXTENDS ReturnStream

CONSTANTS
  KeepSteps,   \* history_prune_keep_steps, when it is Some
  Pruning,     \* whether history_prune_keep_steps is Some
  MaxSteps     \* bound of the model on the number of observed transitions

ASSUME PruneAssumption ==
  KeepSteps \in Nat /\ Pruning \in BOOLEAN /\ MaxSteps \in Nat

VARIABLES
  generic,  \* use_generic_planner: query clones instead of push and pop
  total,    \* total_steps_observed
  base,     \* history_base_step: global index of the first retained step
  steps,    \* the retained transitions, a function on base..total
  bins,     \* the retained return bins that are Some, by global step
  last,     \* last_augmented_step of each phase
  cond,     \* conditioning history of each phase predictor
  pc,       \* idle, or where a planning query stands
  arm,      \* the action being evaluated, or the next one
  pushed,   \* pushed_fast_forward: token groups to pop at the end
  scratch,  \* the cloned predictor of a generic query
  result,   \* what the last call returned
  trace     \* history variable: every transition ever observed

vars == <<generic, total, base, steps, bins, last, cond, pc, arm, pushed, scratch,
          result, trace>>
planVars == <<pc, arm, pushed, scratch, generic>>

Larger(a, b) == IF a >= b THEN a ELSE b
Smaller(a, b) == IF a <= b THEN a ELSE b
SaturatingSub(a, b) == Larger(a - b, 0)

Init ==
  /\ generic \in BOOLEAN
  /\ total = 0 /\ base = 1
  /\ steps = << >> /\ bins = << >>
  /\ last = [p \in Phases |-> 0]
  /\ cond = [p \in Phases |-> << >>]
  /\ pc = "idle" /\ arm = 0 /\ pushed = 0 /\ scratch = << >>
  /\ result = "ok"
  /\ trace = << >>

-----------------------------------------------------------------------------
\* The token group of step i for phase p, from the retained history s and
\* the bins b known so far.
Token(s, b, p, i) ==
  StepToken(s[i], IF PhaseOf(i) = p /\ i \in DOMAIN b THEN {b[i]} ELSE {})

\* The token groups of steps lo..hi.
Tokens(s, b, p, lo, hi) == [k \in 1 .. SaturatingSub(hi + 1, lo) |-> Token(s, b, p, lo + k - 1)]

\* Steps of phase p in lo..hi whose return bin is not known.
Unlabelled(b, p, lo, hi) == {i \in lo .. hi : PhaseOf(i) = p /\ i \notin DOMAIN b}

\* First step a predictor with the given progress still has to see.
ResumeAt(progress) == Larger(progress + 1, base)

\* Mutant: the most advanced phase decides what may be dropped.
MaxCommitted(l) ==
  CHOOSE m \in {l[p] : p \in Phases} : \A p \in Phases : m >= l[p]

\* Smallest last_augmented_step, over the phases.
MinCommitted(l) ==
  CHOOSE m \in {l[p] : p \in Phases} : \A p \in Phases : m <= l[p]

\* Largest step that neither a phase, nor a future return, nor the
\* retention floor needs.
SafeDropUpto(l, t) ==
  Smaller(Smaller(MinCommitted(l), SaturatingSub(SaturatingSub(t + 2, Horizon), 1)),
          SaturatingSub(t, KeepSteps))

\* Mutant: never drops a single step.
PrunedBaseLazy(l, t) ==
  LET drop == SafeDropUpto(l, t)
  IN  IF Pruning /\ drop > base /\ drop - base + 1 <= t + 1 - base
        THEN drop + 1 ELSE base

\* New first retained step after maybe_prune_history.
PrunedBase(l, t) ==
  LET drop == SafeDropUpto(l, t)
  IN  IF Pruning /\ drop >= base /\ drop - base + 1 <= t + 1 - base
        THEN drop + 1 ELSE base

\* Mutant: drains one entry too few, so every retained entry shifts by one.
FromShifted(lo, f) ==
  [i \in {j \in DOMAIN f : j >= lo} |-> IF i - 1 \in DOMAIN f THEN f[i - 1] ELSE f[i]]

\* Drop everything before step lo from a function on steps.
From(lo, f) == [i \in {j \in DOMAIN f : j >= lo} |-> f[i]]

\* Mutant: drains the steps but not the return bins.
MaybePruneStepsOnly(s, b, l, t) ==
  LET lo == PrunedBase(l, t)
  IN  /\ base' = lo
      /\ steps' = From(lo, s)
      /\ bins' = b

\* Both sides of maybe_prune_history, applied to the history s, b of t steps.
MaybePruneHistory(s, b, l, t) ==
  LET lo == PrunedBase(l, t)
  IN  /\ base' = lo
      /\ steps' = From(lo, s)
      /\ bins' = From(lo, b)

-----------------------------------------------------------------------------
\* Train phase p on the steps after its progress, through step i.  If a bin
\* turns out to be missing, the steps before it and its action stay pushed.
AdvancePhase(s, b, p, i) ==
  LET lo == ResumeAt(last[p])
      missing == Unlabelled(b, p, lo, i)
      first == CHOOSE m \in missing : \A n \in missing : m <= n
  IN  IF i <= last[p] THEN UNCHANGED <<cond, last>> /\ result' = "ok"
      ELSE IF missing # {}
      THEN /\ cond' = [cond EXCEPT ![p] =
                         Append(@ \o Tokens(s, b, p, lo, first - 1), ArmToken(s[first].action))]
           /\ result' = "MissingReturnBin"
           /\ UNCHANGED last
      ELSE /\ cond' = [cond EXCEPT ![p] = @ \o Tokens(s, b, p, lo, i)]
           /\ last' = [last EXCEPT ![p] = i]
           /\ result' = "ok"

\* The retained history with the new transition x appended.
Recorded(x) ==
  [i \in base .. total + 1 |-> IF i = total + 1 THEN x ELSE steps[i]]

\* Mutant: stores the bin one step late.
LabelledLate(s, i) ==
  [j \in DOMAIN bins \cup {i + 1} |->
     IF j = i + 1 THEN ReturnBin(RewardWindow(s, i)) ELSE bins[j]]

\* The retained bins with the return of step i, whose window is in s, added.
Labelled(s, i) ==
  [j \in DOMAIN bins \cup {i} |->
     IF j = i THEN ReturnBin(RewardWindow(s, i)) ELSE bins[j]]

\* Record a transition that completes no return: fewer than Horizon so far.
ObserveShort(x) ==
  /\ pc = "idle" /\ total < MaxSteps
  /\ total + 1 < Horizon
  /\ total' = total + 1
  /\ trace' = Append(trace, x)
  /\ result' = "ok"
  /\ MaybePruneHistory(Recorded(x), bins, last, total + 1)
  /\ UNCHANGED <<last, cond, planVars>>

\* Record a transition and learn the return that it completes.  Asking for a
\* step behind the retained history panics; a missing bin is an error that
\* leaves the history unpruned.
ObserveAndLearn(x) ==
  LET t == total + 1
      i == t + 1 - Horizon
      s == Recorded(x)
      b == Labelled(s, i)
  IN  /\ pc = "idle" /\ total < MaxSteps
      /\ t >= Horizon
      /\ total' = t
      /\ trace' = Append(trace, x)
      /\ IF i < base
           THEN /\ result' = "panic" /\ pc' = "dead"
                /\ UNCHANGED <<base, steps, bins, last, cond>>
           ELSE /\ AdvancePhase(s, b, PhaseOf(i), i)
                /\ IF result' = "ok" THEN MaybePruneHistory(s, b, last', t)
                   ELSE base' = base /\ steps' = s /\ bins' = b
                /\ UNCHANGED pc
      /\ UNCHANGED <<generic, arm, pushed, scratch>>

\* A transition that fails validation leaves the agent as it was.
Reject ==
  /\ pc = "idle"
  /\ result' = "rejected"
  /\ UNCHANGED <<total, base, steps, bins, last, cond, planVars, trace>>

-----------------------------------------------------------------------------
\* Mutant: the phase of the newest step instead of the next one.
QueryPhaseStale == PhaseOf(total)

\* The phase whose predictor answers for the next step.
QueryPhase == PhaseOf(total + 1)

\* The conditioning history a query reads and extends.
Queried == IF generic THEN scratch ELSE cond[QueryPhase]

\* Push the steps the predictor has not been trained on.  A query on a clone
\* panics when a bin is missing, one on the predictor itself skips the label.
FastForward ==
  LET lo == ResumeAt(last[QueryPhase])
      ff == Tokens(steps, bins, QueryPhase, lo, total)
  IN  /\ pc = "idle"
      /\ IF generic /\ Unlabelled(bins, QueryPhase, lo, total) # {}
           THEN pc' = "dead" /\ result' = "panic" /\ UNCHANGED <<cond, arm, pushed, scratch>>
           ELSE /\ pc' = "ready" /\ arm' = 0 /\ UNCHANGED result
                /\ IF generic
                     THEN scratch' = cond[QueryPhase] \o ff /\ UNCHANGED <<cond, pushed>>
                     ELSE /\ cond' = [cond EXCEPT ![QueryPhase] = @ \o ff]
                          /\ pushed' = Len(ff)
                          /\ UNCHANGED scratch
      /\ UNCHANGED <<generic, total, base, steps, bins, last, trace>>

\* Drop the last n token groups.
Popped(s, n) == SubSeq(s, 1, Len(s) - n)

Requery(s) ==
  IF generic THEN scratch' = s /\ UNCHANGED cond
  ELSE cond' = [cond EXCEPT ![QueryPhase] = s] /\ UNCHANGED scratch

\* Push the candidate action; the expected label is then read off.
PushArm ==
  /\ pc = "ready" /\ arm < NumActions
  /\ pc' = "query"
  /\ Requery(Append(Queried, ArmToken(arm)))
  /\ UNCHANGED <<generic, total, base, steps, bins, last, arm, pushed, result, trace>>

\* Pop the candidate action, or drop its clone, and go on to the next one.
PopArm ==
  /\ pc = "query"
  /\ pc' = "ready" /\ arm' = arm + 1
  /\ Requery(Popped(Queried, 1))
  /\ UNCHANGED <<generic, total, base, steps, bins, last, pushed, result, trace>>

\* Mutant: leaves the fast-forwarded steps on the predictor.
FinishQueryLeaky ==
  /\ pc = "ready" /\ arm = NumActions
  /\ pc' = "idle" /\ arm' = 0 /\ pushed' = 0
  /\ Requery(IF generic THEN << >> ELSE Queried)
  /\ UNCHANGED <<generic, total, base, steps, bins, last, result, trace>>

\* Pop the fast-forwarded steps, or drop the clone.
FinishQuery ==
  /\ pc = "ready" /\ arm = NumActions
  /\ pc' = "idle" /\ arm' = 0 /\ pushed' = 0
  /\ Requery(IF generic THEN << >> ELSE Popped(Queried, pushed))
  /\ UNCHANGED <<generic, total, base, steps, bins, last, result, trace>>

-----------------------------------------------------------------------------
Next ==
  \/ \E x \in Transitions : ObserveShort(x) \/ ObserveAndLearn(x)
  \/ Reject
  \/ FastForward
  \/ PushArm
  \/ PopArm
  \/ FinishQuery

Spec == Init /\ [][Next]_vars

-----------------------------------------------------------------------------
(* Properties *)

\* The retained history is the window base..total of one-to-one aligned steps
\* and bins, and every other variable has its type.
TypeOK ==
  /\ generic \in BOOLEAN
  /\ total \in Nat /\ base \in 1 .. total + 1
  /\ steps \in [base .. total -> Transitions]
  /\ DOMAIN bins \subseteq base .. total
  /\ last \in [Phases -> Nat]
  /\ DOMAIN cond = Phases
  /\ pc \in {"idle", "ready", "query"}
  /\ arm \in 0 .. NumActions /\ pushed \in Nat
  /\ result \in {"ok", "rejected"}
  /\ trace \in Seq(Transitions) /\ Len(trace) = total

\* Between calls every phase predictor is conditioned on exactly the augmented
\* stream of its phase through the newest labelled step of that phase, as if
\* nothing had ever been pruned and no query had ever borrowed it.
StreamsExact ==
  pc = "idle" =>
    \A p \in Phases :
      /\ cond[p] = Augmented(trace, p, last[p])
      /\ last[p] <= LabelledUpto(total)
      /\ \A i \in 1 .. LabelledUpto(total) : PhaseOf(i) = p => i <= last[p]

\* Whenever a candidate action is evaluated, its predictor is conditioned on
\* the complete augmented history of the phase, every same-phase return label
\* included, followed by that action and nothing else.
QueryExact ==
  pc = "query" =>
    Queried = Append(Augmented(trace, PhaseOf(total + 1), total), ArmToken(arm))

\* No valid sequence of calls meets a missing bin or a pruned step: the errors
\* MissingReturnBin and HistoryIndexOutOfRange and the panics are unreachable.
NeverFails == result \notin {"MissingReturnBin", "panic"} /\ pc # "dead"

\* Pruning keeps the requested recent steps and bounds the memory: never more
\* than the floor or what one phase round and one return window need.
RetentionBounded ==
  /\ total + 1 - base >= Smaller(total, KeepSteps)
  /\ Pruning => total + 1 - base <= Larger(KeepSteps, Period + Horizon - 2)

\* Retained steps are the observed ones and retained bins the true returns:
\* dropping from the front of the two vectors keeps both aligned with base.
HistoryExact ==
  /\ \A i \in base .. total : steps[i] = trace[i]
  /\ DOMAIN bins = base .. LabelledUpto(total)
  /\ \A i \in DOMAIN bins : bins[i] = ReturnBin(RewardWindow(trace, i))

\* What phase p's predictor has been trained on: a running query's pushes do
\* not count.
Committed(p) ==
  IF pc = "idle" \/ generic \/ p # QueryPhase THEN cond[p]
  ELSE Popped(IF pc = "query" THEN Popped(cond[p], 1) ELSE cond[p], pushed)

Ideal == INSTANCE AugmentedReturns WITH learned <- [p \in Phases |-> Committed(p)]

\* The pruned, incremental agent with its borrowed predictors implements the
\* agent that remembers everything and retrains from scratch.
RefinesIdeal == Ideal!Spec

=============================================================================
