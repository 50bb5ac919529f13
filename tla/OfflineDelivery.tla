--------------------------- MODULE OfflineDelivery ---------------------------
(***************************************************************************)
(* What offline circulation promises about a transaction: it is keyed,     *)
(* saved, uploaded and run, in this order, never back, and run once.  A    *)
(* transaction may stop anywhere on the way.                               *)
(***************************************************************************)
EXTENDS Naturals

CONSTANT Rows

VARIABLES keyed, saved, uploaded,   \* sets of rows
          runs                      \* [Rows -> Nat], how often each was run

dvars == <<keyed, saved, uploaded, runs>>

Init == keyed = {} /\ saved = {} /\ uploaded = {} /\ runs = [r \in Rows |-> 0]

Key(r) == r \notin keyed /\ keyed' = keyed \union {r} /\ UNCHANGED <<uploaded, runs>>

\* A form or a file goes at once, whatever number of rows it holds.
Save(S) == /\ S \subseteq keyed' \ saved /\ saved' = saved \union S
           /\ UNCHANGED <<uploaded, runs>>
Upload(S) == /\ S \subseteq saved \ uploaded /\ uploaded' = uploaded \union S
             /\ UNCHANGED <<keyed, saved, runs>>
RunOne(r) == /\ r \in uploaded /\ runs[r] = 0
             /\ runs' = [runs EXCEPT ![r] = 1]
             /\ UNCHANGED <<keyed, saved, uploaded>>

Next == \/ \E r \in Rows : Key(r) /\ (saved' = saved \/ Save({r}))
        \/ keyed' = keyed /\ \E S \in SUBSET Rows : Save(S)
        \/ \E S \in SUBSET Rows : Upload(S)
        \/ \E r \in Rows : RunOne(r)

Spec == Init /\ [][Next]_dvars
=============================================================================
