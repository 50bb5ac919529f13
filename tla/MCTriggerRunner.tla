--------------------------- MODULE MCTriggerRunner ---------------------------
(***************************************************************************)
(* TriggerRunner for TLC: e1 and e2 are one group, e3 is on its own.       *)
(***************************************************************************)
EXTENDS TriggerRunner, TLC

CONSTANTS e1, e2, e3

MCGrouped == {e1, e2} \cap Events
MCGroupOf == [e \in MCGrouped |-> "g"]

RunnerSymmetry == Permutations(Runners)
=============================================================================
