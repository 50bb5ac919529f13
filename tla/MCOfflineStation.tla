-------------------------- MODULE MCOfflineStation --------------------------
(***************************************************************************)
(* OfflineStation for TLC: a loan, a checkin and a registration keyed at   *)
(* workstation w1; w2 is where its transaction file may be carried to.     *)
(***************************************************************************)
EXTENDS OfflineStation
CONSTANTS w1, w2, r1, r2, r3
MCStationOf == [r \in Rows |-> w1]
MCFormOf == [r \in Rows |-> CASE r = r1 -> "checkout" [] r = r2 -> "checkin"
                              [] OTHER -> "register"]
MCItemOf == [r \in Rows |-> IF r = r1 THEN 1 ELSE IF r = r2 THEN 2 ELSE 3]
=============================================================================
