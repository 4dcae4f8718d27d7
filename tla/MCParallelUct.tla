--------------------------- MODULE MCParallelUct ---------------------------
(***************************************************************************)
(* The instance of ParallelUct that TLC checks: a WU-UCT planner with a    *)
(* choice of actions, and a BU-UCT planner with more samples, whose three  *)
(* workers can fill a group and retire an edge in one batch.               *)
(***************************************************************************)
EXTENDS ParallelUct

WuPlanner == [bu |-> FALSE, actions |-> 2, samples |-> 3]
BuPlanner == [bu |-> TRUE, actions |-> 1, samples |-> 5]

BothPlanners == {WuPlanner, BuPlanner}

=============================================================================
