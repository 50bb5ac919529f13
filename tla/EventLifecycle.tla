--------------------------- MODULE EventLifecycle ---------------------------
(***************************************************************************)
(* What Action/Trigger promises about one row of action_trigger.event,     *)
(* whoever runs the event processor and however many runs overlap: an      *)
(* event is created once, a run takes it once, its reactor (the e-mail,    *)
(* the fee, the status change) runs at most once and only while the event  *)
(* is taken, and an event that was closed or abandoned is never taken up   *)
(* again.  TriggerRunner is the code that is to keep the promise.          *)
(***************************************************************************)
EXTENDS Naturals

CONSTANT Events

VARIABLES status,      \* [Events -> Statuses]
          reactions    \* [Events -> Nat], how often the reactor was run

lifeVars == <<status, reactions>>

Statuses == {"absent", "waiting", "taken", "closed", "abandoned"}

LifeInit ==
    /\ status = [e \in Events |-> "absent"]
    /\ reactions = [e \in Events |-> 0]

Create(e) ==
    /\ status[e] = "absent"
    /\ status' = [status EXCEPT ![e] = "waiting"]
    /\ UNCHANGED reactions

\* A run takes the event off the queue.
Take(e) ==
    /\ status[e] = "waiting"
    /\ status' = [status EXCEPT ![e] = "taken"]
    /\ UNCHANGED reactions

\* The reactor runs once for all the events of S, which it gets together.
React(S) ==
    /\ S # {}
    /\ \A e \in S : status[e] = "taken" /\ reactions[e] = 0
    /\ reactions' = [e \in Events |->
                        IF e \in S THEN 1 ELSE reactions[e]]
    \* A reactor that fails closes its events in the same step.
    /\ \/ UNCHANGED status
       \/ status' = [e \in Events |-> IF e \in S THEN "closed" ELSE status[e]]

\* The run is through with the events of S, or died and left them.
Leave(S) ==
    /\ S # {}
    /\ \A e \in S : status[e] = "taken"
    /\ \E outcome \in [S -> {"closed", "abandoned"}] :
          status' = [e \in Events |->
                        IF e \in S THEN outcome[e] ELSE status[e]]
    /\ UNCHANGED reactions

LifeNext ==
    \/ \E e \in Events : Create(e) \/ Take(e)
    \/ \E S \in SUBSET Events : React(S) \/ Leave(S)

LifeSpec == LifeInit /\ [][LifeNext]_lifeVars
=============================================================================
