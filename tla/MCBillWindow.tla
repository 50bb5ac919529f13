--------------------------- MODULE MCBillWindow ---------------------------
(***************************************************************************)
(* BillWindow for TLC: transaction 1 is a loan that is still out, 2 is     *)
(* another charge.                                                         *)
(***************************************************************************)
EXTENDS BillWindow

CONSTANTS w1, Owed1, Owed2

MCOpening == [x \in Xacts |-> IF x = 1 THEN Owed1 ELSE Owed2]
MCCircs == Xacts \cap {1}

=============================================================================
