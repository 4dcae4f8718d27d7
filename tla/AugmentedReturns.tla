-------------------------- MODULE AugmentedReturns --------------------------
(***************************************************************************)
(* What an AIQI agent promises: one learner per phase over the complete    *)
(* history.  Each new transition completes at most one return; the learner *)
(* of that step's phase is then trained on the whole augmented stream up   *)
(* to that step, every token exactly once and in order.  Nothing is ever   *)
(* forgotten and choosing an action changes nothing.                       *)
(***************************************************************************)
EXTENDS ReturnStream

VARIABLES
  trace,    \* every transition observed so far
  learned   \* learned[p]: the stream the learner of phase p is trained on

vars == <<trace, learned>>

Init ==
  /\ trace = << >>
  /\ learned = [p \in Phases |-> << >>]

Observe(x) ==
  LET h == Append(trace, x)
      i == LabelledUpto(Len(h))
  IN  /\ trace' = h
      /\ learned' = IF i = 0 THEN learned
                    ELSE [learned EXCEPT ![PhaseOf(i)] = Augmented(h, PhaseOf(i), i)]

Next == \E x \in Transitions : Observe(x)

Spec == Init /\ [][Next]_vars

=============================================================================
