--------------------------- MODULE MCSelfCheckout ---------------------------
(***************************************************************************)
(* SelfCheckout for TLC: one copy of library l1, the station in l1, the    *)
(* hold of one patron.                                                     *)
(***************************************************************************)
EXTENDS SelfCheckout, TLC

CONSTANTS c1, h1, u1, u2, l1, l2
MCHome == [c \in Copies |-> l1]
MCOwner == [h \in Holds |-> u2]
=============================================================================
