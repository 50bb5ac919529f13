---------------------------- MODULE MCTriggerHooks ----------------------------
(***************************************************************************)
(* TriggerHooks for TLC: s1 and s2 are hourly runs, s3 is a daily one; d3  *)
(* is a daily definition, the others are hourly and share one column, as   *)
(* d1 and d2 do not when they are due for different dates.                 *)
(***************************************************************************)
EXTENDS TriggerHooks
CONSTANTS s1, s2, s3, d1, d2, d3, hourly, daily, due_date, xact_start
MCGranularity == [d \in Definitions |-> IF d = d3 THEN daily ELSE hourly]
MCLabels == [s \in Scripts |-> IF s = s3 THEN daily ELSE hourly]
MCOneField == [d \in Definitions |-> IF d = d3 THEN xact_start ELSE due_date]
MCFields == [d \in Definitions |-> IF d = d1 THEN due_date ELSE xact_start]
=============================================================================
