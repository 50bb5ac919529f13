--------------------------- MODULE MCSelfPayment ---------------------------
(***************************************************************************)
(* SelfPayment for TLC: two charges, one unit and two.                     *)
(***************************************************************************)
EXTENDS SelfPayment, TLC

CONSTANTS k1, k2

MCOpening == [x \in Xacts |-> x]
KioskSymmetry == Permutations(Clients)
=============================================================================
