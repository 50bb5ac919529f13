---------------------------- MODULE MCOfflineCirc ----------------------------
(***************************************************************************)
(* OfflineCirc for TLC: item i1 is lent at one workstation and taken back  *)
(* at the other, which may also register the borrower.                     *)
(***************************************************************************)
EXTENDS OfflineCirc, TLC

CONSTANTS w1, w2, r1, r2, r3, i1, c1, c2

MCStationOf == [r \in Rows |-> IF r = r1 THEN w1 ELSE w2]
MCFormOf == [r \in Rows |-> CASE r = r1 -> "checkout" [] r = r2 -> "checkin"
                              [] OTHER -> "register"]
MCItemOf == [r \in Rows |-> i1]
MCTimeOf == [r \in Rows |-> IF r = r1 THEN 1 ELSE 2]

RunSymmetry == Permutations(Runs)
=============================================================================
