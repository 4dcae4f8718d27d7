---------------------------- MODULE ReturnStream ----------------------------
(***************************************************************************)
(* The data of the AIQI agent: transitions, phases, discretized discounted *)
(* returns and the tokens of an augmented history stream.                  *)
(*                                                                         *)
(* Phase n owns one predictor.  Its stream holds every step of the history *)
(* in order, action then percept, and between the two the return bin of    *)
(* the step if the step belongs to phase n.  A percept is its reward here: *)
(* observations are carried along but never looked at by the agent.        *)
(***************************************************************************)
EXTENDS Integers, Sequences

CONSTANTS
  Period,      \* augmentation_period: the number of phases
  Horizon,     \* return_horizon
  NumActions,  \* agent_actions
  MaxReward,   \* rewards lie in 0..MaxReward (min_reward = reward_offset = 0)
  Bins,        \* return_bins
  GammaNum, GammaDen \* discount_gamma = GammaNum / GammaDen

\* What validate_runtime_invariants establishes before an agent exists.
ASSUME ConfigAssumption ==
  /\ Period \in Nat /\ Horizon \in Nat \ {0} /\ Horizon <= Period
  /\ NumActions \in Nat \ {0}
  /\ MaxReward \in Nat /\ Bins \in Nat \ {0}
  /\ GammaNum \in Nat \ {0} /\ GammaDen \in Nat /\ GammaNum < GammaDen

Actions == 0 .. NumActions - 1
Rewards == 0 .. MaxReward
Transitions == [action : Actions, reward : Rewards]

Phases == 0 .. Period - 1
PhaseOf(step) == step % Period

(***************************************************************************)
(* floor(Bins * (1 - gamma) * SUM gamma^k r[k] / MaxReward), clamped to    *)
(* the last bin, for a window r of Horizon rewards.  The sum is kept as a  *)
(* numerator over GammaDen^Horizon, so the arithmetic is exact; the code   *)
(* computes the same quantity in f64.                                      *)
(***************************************************************************)
ReturnBin(r) ==
  LET scale[k \in 0 .. Horizon] == IF k = 0 THEN 1 ELSE GammaDen * scale[k - 1]
      \* numerator, over GammaDen^(Horizon-1-k), of the return from k on
      tail[k \in 0 .. Horizon] ==
        IF k = Horizon THEN 0
        ELSE scale[Horizon - 1 - k] * r[k] + GammaNum * tail[k + 1]
      bin == (Bins * (GammaDen - GammaNum) * tail[0])
               \div (scale[Horizon] * MaxReward)
  IN  IF MaxReward = 0 THEN 0 ELSE IF bin < Bins THEN bin ELSE Bins - 1

\* The token group of one step: the label is a set with at most one bin.
StepToken(x, label) ==
  [action |-> x.action, label |-> label, reward |-> x.reward]

\* The token group of a candidate action that is only being evaluated.
ArmToken(a) == [action |-> a]

-----------------------------------------------------------------------------
(***************************************************************************)
(* The reference: what the streams should be, read off a complete history  *)
(* h (a sequence of transitions, step i at index i).                       *)
(***************************************************************************)
RewardWindow(h, i) == [k \in 0 .. Horizon - 1 |-> h[i + k].reward]

\* Steps 1..LabelledUpto(t) have a complete return window after t steps.
LabelledUpto(t) == IF t < Horizon THEN 0 ELSE t + 1 - Horizon

IdealToken(h, p, i) ==
  StepToken(h[i], IF PhaseOf(i) = p THEN {ReturnBin(RewardWindow(h, i))} ELSE {})

\* The augmented stream of phase p through step n.
Augmented(h, p, n) == [i \in 1 .. n |-> IdealToken(h, p, i)]

=============================================================================
