------------------------------- MODULE MCTuner -------------------------------
(* Values for the constants of Tuner that a .cfg cannot write down. *)
EXTENDS Tuner

MinusTwo == -2
Odd == {-1}
BothKinds == {-2, 1}
Default == {-1}

=============================================================================
