---------------------------- MODULE OfflineFiles ----------------------------
(***************************************************************************)
(* What the workstations and the server of offline circulation share: the  *)
(* transactions and the files that hold them.                              *)
(*                                                                         *)
(* A transaction is a row.  A file is a bag of rows, [Rows -> Nat], since  *)
(* a form can write one row twice; a file exists when it is not empty      *)
(* (util.file creates it with the first row).  The order inside a file is  *)
(* not kept: the server sorts the rows by their time.                      *)
(***************************************************************************)
EXTENDS Integers, FiniteSets

CONSTANTS
    Stations,     \* workstations
    Rows,         \* transactions that may be keyed
    StationOf,    \* the workstation a row is keyed at
    FormOf,       \* the form it is keyed in
    ItemOf        \* the barcode scanned (the patron's card, for "register")

Forms == {"checkout", "renew", "in_house_use", "checkin", "register"}
ListForms == Forms \ {"register"}

ASSUME RowAssumption == /\ StationOf \in [Rows -> Stations]
                        /\ FormOf \in [Rows -> Forms]

File == [Rows -> Nat]
Empty == [r \in Rows |-> 0]
Bag(S) == [r \in Rows |-> IF r \in S THEN 1 ELSE 0]
Plus(f, g) == [r \in Rows |-> f[r] + g[r]]
Exists(f) == f # Empty
=============================================================================
