----------------------------- MODULE MCOpacHolds -----------------------------
(***************************************************************************)
(* OpacHolds for TLC: one copy, the page of u1, who has one hold or both.  *)
(***************************************************************************)
EXTENDS OpacHolds, TLC

CONSTANTS c1, h1, h2, u1, u2, l1, l2
MCHome == [c \in Copies |-> l1]
MCOwner == [h \in Holds |-> IF h = h1 THEN u1 ELSE u2]
MCOwnBoth == [h \in Holds |-> u1]
=============================================================================
