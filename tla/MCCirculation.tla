---------------------------- MODULE MCCirculation ----------------------------
(***************************************************************************)
(* Small instances of Circulation: up to two copies that belong to two     *)
(* libraries and two patrons with a hold each (no hold of u2 where a run   *)
(* has only h1).                                                           *)
(***************************************************************************)
EXTENDS Circulation, TLC

CONSTANTS c1, c2, h1, h2, u1, u2, l1, l2
MCHome == [c \in Copies |-> IF c = c1 THEN l1 ELSE l2]
MCOwner == [h \in Holds |-> IF h = h1 THEN u1 ELSE u2]
\* The two patrons together with their holds, or the two libraries together
\* with their copies, in the other order or as they are.
Swaps(f) == {f, [x \in DOMAIN f |-> x]}
PatronSymmetry == Swaps((h1 :> h2) @@ (h2 :> h1) @@ (u1 :> u2) @@ (u2 :> u1))
LibrarySymmetry == Swaps((c1 :> c2) @@ (c2 :> c1) @@ (l1 :> l2) @@ (l2 :> l1))
=============================================================================
