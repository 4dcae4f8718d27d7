------------------------------ MODULE WarmStart ------------------------------
(***************************************************************************)
(* The warm-start exact-J_H agent of                                       *)
(* src/crates/infotheory/src/aixi/warmstart.rs, with the refresh of its    *)
(* teacher between the rounds of a tuning run                              *)
(* (src/crates/infotheory/src/tuner/planner_bridge.rs).                    *)
(*                                                                         *)
(* Like an AIQI agent it has one predictor per phase, and a step is        *)
(* labelled, in the stream of its phase, with the return of the Horizon    *)
(* steps from it on; the return is exact here.  Before its first live step *)
(* it is trained on the labelled traces of a teacher.  A predictor is the  *)
(* stream it has been trained on and the tokens it is conditioned on; the  *)
(* two differ while a decision is evaluated, and after a trace has ended.  *)
(* The agent is used through &mut self: nothing happens during a decision. *)
(***************************************************************************)
EXTENDS Integers, Sequences, SequencesExt, FiniteSets, FiniteSetsExt

CONSTANTS
  Period,      \* label_phase_period
  Horizon,     \* return_horizon
  NumActions,  \* agent_actions
  MaxReward,   \* rewards lie in 0..MaxReward (min_reward = 0)
  Teachers,    \* the teacher datasets an agent may be given: sets of traces
  MaxSteps,    \* live steps of an agent: bounds the model only
  Rounds       \* self_improvement_rounds

Transitions == [action: 0..(NumActions - 1), reward: 0..MaxReward]

(* What from_compiled establishes, and the dataset validation for teachers.*)
ASSUME WarmStartAssumption ==
  /\ Horizon \in Nat \ {0} /\ Period \in Nat /\ Horizon <= Period
  /\ NumActions \in Nat \ {0} /\ MaxReward \in Nat
  /\ \A traces \in Teachers :
       /\ traces # {} /\ IsFiniteSet(traces)
       /\ \A trace \in traces : trace \in Seq(Transitions) /\ Len(trace) >= Horizon

VARIABLES
  teacher,   \* the traces collected so far
  round,     \* the round of the tuning run
  live,      \* steps: the transitions this agent has observed
  labels,    \* return_labels_by_step: a set with at most one return
  last,      \* last_augmented_step of each phase
  trained,   \* what each phase's predictor has been trained on
  context,   \* what each phase's predictor is conditioned on
  deciding,  \* a decision is being evaluated
  pushed,    \* pushed_history: the tokens it has pushed
  asked,     \* the contexts it has evaluated so far, by action
  failed     \* a return label was missing

vars == <<teacher, round, live, labels, last, trained, context, deciding, pushed,
          asked, failed>>

Phases == 0..(Period - 1)
PhaseOf(i) == i % Period

(* The tokens of a step, of an action under evaluation, and the mark of a  *)
(* reset of the conditioning history.                                      *)
StepToken(x, label) == [action |-> x.action, label |-> label, reward |-> x.reward]
ArmToken(a) == [action |-> a]
Reset == [reset |-> TRUE]

\* Mutant: the window never drops its oldest reward.
TraceLabelsGrowing(trace) ==
  LET window[i \in 0..Len(trace)] ==
        IF i = 0 THEN 0 ELSE window[i - 1] + trace[i].reward
  IN  [i \in DOMAIN trace |->
         IF i + Horizon - 1 <= Len(trace) THEN {window[i + Horizon - 1]} ELSE {}]

(* The return label of each step of a trace, over a rolling window.        *)
TraceLabels(trace) ==
  LET window[i \in 0..Len(trace)] ==
        IF i = 0 THEN 0
        ELSE window[i - 1] + trace[i].reward
               - (IF i > Horizon THEN trace[i - Horizon].reward ELSE 0)
  IN  [i \in DOMAIN trace |->
         IF i + Horizon - 1 <= Len(trace) THEN {window[i + Horizon - 1]} ELSE {}]

-----------------------------------------------------------------------------
(* The teacher                                                             *)

Before(x, y) ==
  \/ x.action < y.action
  \/ x.action = y.action /\ x.reward < y.reward

(* compare_warmstart_teacher_traces                                        *)
Precedes(s, t) ==
  \/ IsStrictPrefix(s, t)
  \/ \E i \in DOMAIN s \cap DOMAIN t :
       /\ SubSeq(s, 1, i - 1) = SubSeq(t, 1, i - 1)
       /\ Before(s[i], t[i])

Canonical(traces) ==
  CHOOSE order \in [1..Cardinality(traces) -> traces] :
    \A i, j \in DOMAIN order : i < j => Precedes(order[i], order[j])

(* What one trace adds to the training of phase p.                         *)
TraceStream(trace, p) ==
  [i \in DOMAIN trace |->
     StepToken(trace[i], IF PhaseOf(i) = p THEN TraceLabels(trace)[i] ELSE {})]

(* A new agent, trained on every trace; each one ends with a reset.        *)
TeacherStream(traces, p) ==
  LET order == Canonical(traces)
      stream[k \in 0..Len(order)] ==
        IF k = 0 THEN <<>>
        ELSE stream[k - 1] \o TraceStream(order[k], p) \o <<Reset>>
  IN  stream[Len(order)]

WarmStartFromTeacher(traces) ==
  /\ live' = <<>> /\ labels' = <<>>
  /\ last' = [p \in Phases |-> 0]
  /\ trained' = [p \in Phases |-> TeacherStream(traces, p)]
  /\ context' = [p \in Phases |-> <<>>]
  /\ UNCHANGED <<deciding, pushed, asked>>

-----------------------------------------------------------------------------
(* Live interaction                                                        *)

LabelStart(t) == t + 1 - Horizon

ReturnOf(window) ==
  LET sum[i \in 0..Len(window)] ==
        IF i = 0 THEN 0 ELSE sum[i - 1] + window[i].reward
  IN  sum[Len(window)]
ReturnFrom(h, i) == ReturnOf(SubSeq(h, i, i + Horizon - 1))

LabelIn(known, p, i) == IF PhaseOf(i) = p THEN known[i] ELSE {}

(* The steps first..target of the history h, with the labels known, as the *)
(* predictor of phase p sees them.                                         *)
Tokens(h, known, p, first, target) ==
  [k \in 1..(target - first + 1) |->
     StepToken(h[first + k - 1], LabelIn(known, p, first + k - 1))]

(* The first step of a range that should have a label and has none, if any:*)
(* training stops there, what it has pushed stays.                         *)
Unlabelled(known, p, first, target) ==
  {i \in first..target : PhaseOf(i) = p /\ known[i] = {}}

AdvancePhase(p, target, h, known) ==
  LET missing == Unlabelled(known, p, last[p] + 1, target)
      reached == IF missing = {} THEN target ELSE Min(missing) - 1
      new == Tokens(h, known, p, last[p] + 1, reached)
  IN  IF target <= last[p] THEN UNCHANGED <<last, trained, context, failed>>
      ELSE /\ trained' = [trained EXCEPT ![p] = @ \o new]
           /\ context' = [context EXCEPT ![p] = @ \o new]
           /\ failed' = (missing # {})
           /\ last' = IF missing = {} THEN [last EXCEPT ![p] = target] ELSE last

(* observe_transition: the step is recorded; if it completes a return, the *)
(* first step of that return is labelled and its phase is trained up to it.*)
ObserveTransition(x) ==
  LET h == Append(live, x)
      start == LabelStart(Len(h))
      unknown == Append(labels, {})
      known == IF start < 1 THEN unknown
               ELSE [unknown EXCEPT ![start] = {ReturnFrom(h, start)}]
  IN  /\ ~failed /\ ~deciding /\ Len(live) < MaxSteps
      /\ live' = h /\ labels' = known
      /\ IF start < 1 THEN UNCHANGED <<last, trained, context, failed>>
         ELSE AdvancePhase(PhaseOf(start), start, h, known)
      /\ UNCHANGED <<teacher, round, deciding, pushed, asked>>

\* Mutant: the last live step is left out.
FastForwardShort(p) == Tokens(live, labels, p, last[p] + 1, Len(live) - 1)

(* The tokens a decision pushes before it evaluates the actions: the steps *)
(* its phase has not been trained on yet.                                  *)
FastForward(p) == Tokens(live, labels, p, last[p] + 1, Len(live))

Popped(tokens, n) == SubSeq(tokens, 1, Len(tokens) - n)

(* A decision is about the next step, and asks the predictor of its phase. *)
AskedPhase == PhaseOf(Len(live) + 1)

(* estimate_q_values: the history is pushed,                               *)
BeginDecision ==
  LET p == AskedPhase
  IN  /\ ~failed /\ ~deciding
      /\ deciding' = TRUE
      /\ pushed' = Len(FastForward(p))
      /\ context' = [context EXCEPT ![p] = @ \o FastForward(p)]
      /\ UNCHANGED <<teacher, round, live, labels, last, trained, asked, failed>>

(* each action is pushed, evaluated and popped,                            *)
EvaluateAction ==
  LET p == AskedPhase
      armed == Append(context[p], ArmToken(Len(asked)))
  IN  /\ deciding /\ Len(asked) < NumActions
      /\ asked' = Append(asked, armed)
      /\ context' = [context EXCEPT ![p] = Popped(armed, 1)]
      /\ UNCHANGED <<teacher, round, live, labels, last, trained, deciding, pushed, failed>>

(* and what was pushed is popped again.                                    *)
EndDecision ==
  /\ deciding /\ Len(asked) = NumActions
  /\ deciding' = FALSE /\ pushed' = 0 /\ asked' = <<>>
  /\ context' = [context EXCEPT ![AskedPhase] = Popped(@, pushed)]
  /\ UNCHANGED <<teacher, round, live, labels, last, trained, failed>>

(* The trace the agent hands over: none before a return can be complete.   *)
HasLiveTrace == Len(live) >= Horizon

\* Mutant: the agent is built anew whether or not its trace was merged.
NextRoundFresh ==
  /\ ~failed /\ ~deciding /\ round + 1 < Rounds
  /\ round' = round + 1
  /\ teacher' = IF HasLiveTrace THEN teacher \cup {live} ELSE teacher
  /\ WarmStartFromTeacher(teacher')
  /\ UNCHANGED failed

(* The start of a later round.  The live trace is merged into the teacher; *)
(* if it was not there yet, the agent is built anew from the teacher.      *)
NextRound ==
  /\ ~failed /\ ~deciding /\ round + 1 < Rounds
  /\ round' = round + 1
  /\ IF HasLiveTrace /\ live \notin teacher
     THEN teacher' = teacher \cup {live} /\ WarmStartFromTeacher(teacher')
     ELSE UNCHANGED <<teacher, live, labels, last, trained, context, deciding, pushed, asked>>
  /\ UNCHANGED failed

Init ==
  /\ teacher \in Teachers
  /\ round = 0 /\ failed = FALSE /\ deciding = FALSE /\ pushed = 0
  /\ live = <<>> /\ labels = <<>> /\ asked = <<>>
  /\ last = [p \in Phases |-> 0]
  /\ trained = [p \in Phases |-> TeacherStream(teacher, p)]
  /\ context = [p \in Phases |-> <<>>]

Next ==
  \/ \E x \in Transitions : ObserveTransition(x)
  \/ BeginDecision \/ EvaluateAction \/ EndDecision
  \/ NextRound

Spec == Init /\ [][Next]_vars

-----------------------------------------------------------------------------
(* The reference: what a predictor of phase p should have been given of a  *)
(* history h up to step n, each return read off the history.               *)
Exact(h, p, n) ==
  [i \in 1..n |->
     StepToken(h[i], IF PhaseOf(i) = p /\ i + Horizon - 1 <= Len(h)
                     THEN {ReturnFrom(h, i)} ELSE {})]

(* The latest step of phase p whose return is complete.                    *)
Due(p) == Max({0} \cup {i \in 1..LabelStart(Len(live)) : PhaseOf(i) = p})

(* Between decisions every predictor is conditioned on the live steps up   *)
(* to the latest step of its phase whose return is complete, with their    *)
(* exact returns, and no label is ever missing (advance_phase_model_to_step*)
(* and what estimate_q_values leaves behind).                              *)
ContextExact ==
  /\ ~failed
  /\ \A p \in Phases :
       context[p] = Exact(live, p, IF deciding /\ p = AskedPhase THEN Len(live) ELSE Due(p))

(* Every predictor has been trained on each trace of the teacher once, in  *)
(* the canonical order whatever the order they were collected in, with the *)
(* exact returns, and after them on the live steps it is conditioned on    *)
(* (warm_start_from_teacher, maybe_learn_new_return).                      *)
StreamsExact ==
  /\ ContextExact
  /\ LET order == Canonical(teacher)
     IN  \A p \in Phases :
           trained[p] =
             FlattenSeq([k \in 1..Len(order) |->
                           Append(Exact(order[k], p, Len(order[k])), Reset)])
             \o Exact(live, p, Due(p))

(* A decision evaluates the actions in their order, each one after the     *)
(* whole live history and no other action, with the return of every step   *)
(* of its phase in place: none is still open then, as the phase period is  *)
(* no shorter than the horizon.  push_step_tokens_history would leave a    *)
(* missing label out without an error.                                     *)
QueryExact ==
  deciding =>
    /\ asked = [a \in 1..Len(asked) |->
                 Append(Exact(live, AskedPhase, Len(live)), ArmToken(a - 1))]
    /\ \A i \in DOMAIN live : PhaseOf(i) = AskedPhase => labels[i] = {ReturnFrom(live, i)}

(* An agent's history is given up only when the teacher has it, and a      *)
(* teacher never loses a trace: what was learned in a round is never lost  *)
(* to the next one (the refresh in the rounds of a tuning run).            *)
ExperienceKept ==
  [][ /\ teacher \subseteq teacher'
      /\ IsPrefix(live, live') \/ (live' = <<>> /\ live \in teacher') ]_vars
=============================================================================
