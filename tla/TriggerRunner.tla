---------------------------- MODULE TriggerRunner ----------------------------
(***************************************************************************)
(* Action/Trigger event processing: action_trigger_runner.pl with its lock *)
(* file, and the open-ils.trigger calls it makes (find_pending, gather,    *)
(* fire), which move rows of action_trigger.event through their states.    *)
(*                                                                         *)
(* Every update_state is a database transaction of its own, so each one is *)
(* a step; what the process remembers of an event between its steps        *)
(* (valid, reacted, environment complete) is `phase' and `seen'.           *)
(*                                                                         *)
(* Abstracted: run_time and granularity (an event is "created" when it     *)
(* becomes due for the runs modelled here), the content of events, what    *)
(* the validators and reactors decide (any outcome).                       *)
(***************************************************************************)
EXTENDS Naturals, FiniteSets

CONSTANTS Events,       \* ids of action_trigger.event rows
          Runners,      \* invocations of action_trigger_runner.pl --run-pending
          NoRunner,
          Grouped,      \* the events whose definition has a group_field
          GroupOf,      \* their value of the group_field
          MaxFailures   \* bound: crashes and failed updates in a behaviour

ASSUME TriggerAssumption ==
    /\ NoRunner \notin Runners
    /\ Grouped \subseteq Events
    /\ DOMAIN GroupOf = Grouped
    /\ MaxFailures \in Nat

VARIABLES state,      \* [Events -> States]: event.state, or "absent"
          lockfile,   \* the invocation whose pid the lock file holds
          rpc,        \* [Runners -> where the invocation is]
          batch,      \* [Runners -> SUBSET Events]: listed, not yet gathered
          phase,      \* [Runners -> [Events -> Phases]]: the Event object
          seen,       \* [Runners -> [Events -> States]]: the state init read
          reactions,  \* [Events -> Nat]: times the reactor was run
          failures    \* failures so far

vars == <<state, lockfile, rpc, batch, phase, seen, reactions, failures>>

States == {"absent", "pending", "invalid", "found", "collecting", "collected",
           "validating", "valid", "reacting", "reacted", "cleaning",
           "complete", "error"}

\* "bare" is an object whose environment could not be built while gathering:
\* it is fired all the same, and builds its environment again.
Phases == {"none", "inited", "found", "collecting", "gathered", "bare",
           "validating", "valid", "reacting", "reacted", "cleaning", "done"}

\* The flags init derives from the state it reads, before it sets "found".
KnownValid(s)   == s \in {"valid", "reacting", "reacted", "cleaning", "complete"}
KnownInvalid(s) == s \in {"invalid", "error"}
KnownReacted(s) == s \in {"reacted", "cleaning", "complete"}

TypeOK ==
    /\ state \in [Events -> States]
    /\ lockfile \in Runners \cup {NoRunner}
    /\ rpc \in [Runners -> {"idle", "starting", "locked", "gathering", "firing"}]
    /\ batch \in [Runners -> SUBSET Events]
    /\ phase \in [Runners -> [Events -> Phases]]
    /\ seen \in [Runners -> [Events -> States]]
    /\ reactions \in [Events -> Nat]
    /\ failures \in 0..MaxFailures

Init ==
    /\ state = [e \in Events |-> "absent"]
    /\ lockfile = NoRunner
    /\ rpc = [r \in Runners |-> "idle"]
    /\ batch = [r \in Runners |-> {}]
    /\ phase = [r \in Runners |-> [e \in Events |-> "none"]]
    /\ seen = [r \in Runners |-> [e \in Events |-> "absent"]]
    /\ reactions = [e \in Events |-> 0]
    /\ failures = 0

-----------------------------------------------------------------------------
(* The rows of the events of S get state s; S of runner r go to phase p.   *)

SetState(S, s) == state' = [e \in Events |-> IF e \in S THEN s ELSE state[e]]

SetPhase(r, S, p) ==
    phase' = [phase EXCEPT ![r] =
                 [e \in Events |-> IF e \in S THEN p ELSE phase[r][e]]]

\* The events that are fired together with e while in one of the phases P:
\* those of its group, or e alone.
Unit(r, e, P) ==
    {f \in Events :
        /\ phase[r][f] \in P
        /\ \/ f = e
           \/ {e, f} \subseteq Grouped /\ GroupOf[e] = GroupOf[f]}

\* An event is created (by any service, at any time).
CreateEvent(e) ==
    /\ state[e] = "absent"
    /\ SetState({e}, "pending")
    /\ UNCHANGED <<lockfile, rpc, batch, phase, seen, reactions, failures>>

-----------------------------------------------------------------------------
(* The script: the lock file protects from listing to gathering.           *)

\* No lock file: go on (with one, the script dies and cron starts the next).
\* Nobody else is between this check and SetLock; see SlipIn.
CheckLock(r) ==
    /\ rpc[r] = "idle"
    /\ lockfile = NoRunner
    /\ \A q \in Runners : rpc[q] # "starting"
    /\ rpc' = [rpc EXCEPT ![r] = "starting"]
    /\ UNCHANGED <<state, lockfile, batch, phase, seen, reactions, failures>>

SetLock(r) ==
    /\ rpc[r] = "starting"
    /\ lockfile' = r
    /\ rpc' = [rpc EXCEPT ![r] = "locked"]
    /\ UNCHANGED <<state, batch, phase, seen, reactions, failures>>

\* Mutant of ListPending: a filter that also picks up what an earlier run left.
ListUnfinished(r) ==
    /\ rpc[r] = "locked"
    /\ batch' = [batch EXCEPT ![r] =
                    {e \in Events : state[e] \in {"pending", "found", "collected"}}]
    /\ rpc' = [rpc EXCEPT ![r] = "gathering"]
    /\ UNCHANGED <<state, lockfile, phase, seen, reactions, failures>>

\* find_pending: list, without marking anything.
ListPending(r) ==
    /\ rpc[r] = "locked"
    /\ batch' = [batch EXCEPT ![r] = {e \in Events : state[e] = "pending"}]
    /\ rpc' = [rpc EXCEPT ![r] = "gathering"]
    /\ UNCHANGED <<state, lockfile, phase, seen, reactions, failures>>

\* Event->new reads the row: its state, whatever it is by now.
ReadEvent(r, e) ==
    /\ rpc[r] = "gathering"
    /\ e \in batch[r]
    /\ batch' = [batch EXCEPT ![r] = @ \ {e}]
    /\ seen' = [seen EXCEPT ![r][e] = state[e]]
    /\ SetPhase(r, {e}, "inited")
    /\ UNCHANGED <<state, lockfile, rpc, reactions, failures>>

\* ... and claims it.
MarkFound(r, e) ==
    /\ phase[r][e] = "inited"
    /\ SetState({e}, "found")
    /\ SetPhase(r, {e}, "found")
    /\ UNCHANGED <<lockfile, rpc, batch, seen, reactions, failures>>

\* Mutant of TargetMissing: the object is dropped, its row keeps "found".
ForgetTargetless(r, e) ==
    /\ phase[r][e] = "found"
    /\ SetPhase(r, {e}, "done")
    /\ UNCHANGED <<state, lockfile, rpc, batch, seen, reactions, failures>>

\* The target is gone: "invalid", and gather_events skips the event.
TargetMissing(r, e) ==
    /\ phase[r][e] = "found"
    /\ SetState({e}, "invalid")
    /\ SetPhase(r, {e}, "done")
    /\ UNCHANGED <<lockfile, rpc, batch, seen, reactions, failures>>

\* build_environment, while gathering or, for a lone event whose environment
\* is still incomplete, as the first part of validate.
BuildEnvironment(r, e) ==
    /\ \/ phase[r][e] = "found"
       \/ phase[r][e] = "bare" /\ rpc[r] = "firing" /\ e \notin Grouped
          /\ ~KnownValid(seen[r][e]) /\ ~KnownInvalid(seen[r][e])
    /\ SetState({e}, "collecting")
    /\ SetPhase(r, {e}, "collecting")
    /\ UNCHANGED <<lockfile, rpc, batch, seen, reactions, failures>>

EnvironmentBuilt(r, e) ==
    /\ phase[r][e] = "collecting"
    /\ \/ SetState({e}, "collected") /\ SetPhase(r, {e}, "gathered")
       \/ /\ SetState({e}, "error")
          /\ SetPhase(r, {e}, IF rpc[r] = "gathering" THEN "bare" ELSE "done")
    /\ UNCHANGED <<lockfile, rpc, batch, seen, reactions, failures>>

\* grouped_events, once all is gathered, finds nothing to read an event's
\* group_field from.
Ungroupable(r, e) ==
    /\ rpc[r] = "gathering"
    /\ batch[r] = {}
    /\ \A f \in Events : phase[r][f] \in {"none", "gathered", "bare", "done"}
    /\ e \in Grouped /\ phase[r][e] \in {"gathered", "bare"}
    /\ SetState({e}, "invalid")
    /\ SetPhase(r, {e}, "done")
    /\ UNCHANGED <<lockfile, rpc, batch, seen, reactions, failures>>

\* Everything listed is gathered and grouped: the first response goes out.
EndGather(r) ==
    /\ rpc[r] = "gathering"
    /\ batch[r] = {}
    /\ \A e \in Events : phase[r][e] \in {"none", "gathered", "bare", "done"}
    /\ rpc' = [rpc EXCEPT ![r] = "firing"]
    /\ UNCHANGED <<state, lockfile, batch, phase, seen, reactions, failures>>

\* Mutant of ReleaseLock: on any response, not the one that ends gathering.
ReleaseLockEarly(r) ==
    /\ rpc[r] \in {"locked", "gathering", "firing"}
    /\ lockfile = r
    /\ lockfile' = NoRunner
    /\ UNCHANGED <<state, rpc, batch, phase, seen, reactions, failures>>

\* The script gets the first response and removes the lock file if it is its own.
ReleaseLock(r) ==
    /\ rpc[r] = "firing"
    /\ lockfile = r
    /\ lockfile' = NoRunner
    /\ UNCHANGED <<state, rpc, batch, phase, seen, reactions, failures>>

\* Mutant of Finish: the script relies on the first response to unlock.
FinishLocked(r) ==
    /\ rpc[r] = "firing"
    /\ \A e \in Events : phase[r][e] \in {"none", "done"}
    /\ rpc' = [rpc EXCEPT ![r] = "idle"]
    /\ SetPhase(r, Events, "none")
    /\ seen' = [seen EXCEPT ![r] = [e \in Events |-> "absent"]]
    /\ UNCHANGED <<state, lockfile, batch, reactions, failures>>

\* run_all_events returns and the script ends.
Finish(r) ==
    /\ rpc[r] = "firing"
    /\ \A e \in Events : phase[r][e] \in {"none", "done"}
    /\ rpc' = [rpc EXCEPT ![r] = "idle"]
    /\ SetPhase(r, Events, "none")
    /\ seen' = [seen EXCEPT ![r] = [e \in Events |-> "absent"]]
    /\ lockfile' = IF lockfile = r THEN NoRunner ELSE lockfile
    /\ UNCHANGED <<state, batch, reactions, failures>>

-----------------------------------------------------------------------------
(* fire_single_event and fire_event_group.                                 *)

StartValidating(r, e) ==
    LET U == Unit(r, e, {"gathered", "bare"}) IN
    /\ rpc[r] = "firing"
    /\ e \in U
    /\ e \in Grouped \/ /\ phase[r][e] = "gathered"
                        /\ ~KnownValid(seen[r][e])
                        /\ ~KnownInvalid(seen[r][e])
    /\ SetState(U, "validating")
    /\ SetPhase(r, U, "validating")
    /\ UNCHANGED <<lockfile, rpc, batch, seen, reactions, failures>>

\* Mutant of Validated: a group with an invalid member is dropped as a whole.
ValidatedAllOrNone(r, e) ==
    LET U == Unit(r, e, {"validating"}) IN
    /\ e \in U
    /\ \E verdict \in [U -> {"valid", "invalid", "error"}] :
          /\ state' = [f \in Events |->
                          IF f \in U THEN verdict[f] ELSE state[f]]
          /\ SetPhase(r, U, IF \A f \in U : verdict[f] = "valid"
                            THEN "valid" ELSE "done")
    /\ UNCHANGED <<lockfile, rpc, batch, seen, reactions, failures>>

\* One transaction for all members of a group.  A member whose flag was set
\* by init is not validated and keeps "validating".
Validated(r, e) ==
    LET U == Unit(r, e, {"validating"})
        Known == {f \in U : KnownValid(seen[r][f]) \/ KnownInvalid(seen[r][f])}
    IN
    /\ e \in U
    /\ \E verdict \in [U \ Known -> {"valid", "invalid", "error"}] :
          /\ state' = [f \in Events |->
                          IF f \in U \ Known THEN verdict[f] ELSE state[f]]
          /\ phase' = [phase EXCEPT ![r] = [f \in Events |->
                IF f \notin U THEN phase[r][f]
                ELSE IF f \in Known
                     THEN IF KnownValid(seen[r][f]) THEN "valid" ELSE "done"
                     ELSE IF verdict[f] = "valid" THEN "valid" ELSE "done"]]
    /\ UNCHANGED <<lockfile, rpc, batch, seen, reactions, failures>>

\* Mutant of StartReacting: a unit that has reacted is taken for a valid one.
StartReactingAgain(r, e) ==
    LET U == Unit(r, e, {"valid", "reacted"}) IN
    /\ e \in U
    /\ SetState(U, "reacting")
    /\ SetPhase(r, U, "reacting")
    /\ UNCHANGED <<lockfile, rpc, batch, seen, reactions, failures>>

StartReacting(r, e) ==
    LET U == Unit(r, e, {"valid"}) IN
    /\ e \in U
    /\ e \in Grouped \/ ~KnownReacted(seen[r][e])
    /\ SetState(U, "reacting")
    /\ SetPhase(r, U, "reacting")
    /\ UNCHANGED <<lockfile, rpc, batch, seen, reactions, failures>>

\* The reactor runs; it returns a value (true or false) or dies.
Reacted(r, e) ==
    LET U == Unit(r, e, {"reacting"}) IN
    /\ e \in U
    /\ reactions' = [f \in Events |->
                        IF f \in U THEN reactions[f] + 1 ELSE reactions[f]]
    /\ \/ SetState(U, "reacted") /\ SetPhase(r, U, "reacted")
       \/ SetState(U, "error") /\ SetPhase(r, U, "done")
    /\ UNCHANGED <<lockfile, rpc, batch, seen, failures>>

StartCleanup(r, e) ==
    LET U == Unit(r, e, {"reacted"}) IN
    /\ e \in U
    /\ SetState(U, "cleaning")
    /\ SetPhase(r, U, "cleaning")
    /\ UNCHANGED <<lockfile, rpc, batch, seen, reactions, failures>>

\* Mutant of CleanedUp: a state the table's CHECK does not know.
CleanedUpUnknown(r, e) ==
    LET U == Unit(r, e, {"cleaning"}) IN
    /\ e \in U
    /\ SetState(U, "cleaned")
    /\ SetPhase(r, U, "done")
    /\ UNCHANGED <<lockfile, rpc, batch, seen, reactions, failures>>

CleanedUp(r, e) ==
    LET U == Unit(r, e, {"cleaning"}) IN
    /\ e \in U
    /\ SetState(U, "complete") \/ SetState(U, "error")
    /\ SetPhase(r, U, "done")
    /\ UNCHANGED <<lockfile, rpc, batch, seen, reactions, failures>>

-----------------------------------------------------------------------------
(* Failures.                                                               *)

Working == Phases \ {"none", "done"}

\* An update_state fails: it dies, the caller logs it and goes on without the
\* event (while gathering) or the unit (while firing).
UpdateFails(r, e) ==
    LET U == IF rpc[r] = "gathering" THEN {e}
             ELSE Unit(r, e, {phase[r][e]}) IN
    /\ failures < MaxFailures
    /\ phase[r][e] \in Working
    /\ rpc[r] = "gathering" => phase[r][e] \notin {"gathered", "bare"}
    /\ SetPhase(r, U, "done")
    /\ failures' = failures + 1
    /\ UNCHANGED <<state, lockfile, rpc, batch, seen, reactions>>

\* The invocation dies.  Rows stay as they are, and so does the lock file.
Crash(r) ==
    /\ failures < MaxFailures
    /\ rpc[r] # "idle"
    /\ rpc' = [rpc EXCEPT ![r] = "idle"]
    /\ batch' = [batch EXCEPT ![r] = {}]
    /\ SetPhase(r, Events, "none")
    /\ seen' = [seen EXCEPT ![r] = [e \in Events |-> "absent"]]
    /\ failures' = failures + 1
    /\ UNCHANGED <<state, lockfile, reactions>>

-----------------------------------------------------------------------------

Script(r) ==
    \/ CheckLock(r) \/ SetLock(r) \/ ListPending(r)
    \/ EndGather(r) \/ ReleaseLock(r) \/ Finish(r)

Process(r, e) ==
    \/ ReadEvent(r, e) \/ MarkFound(r, e) \/ TargetMissing(r, e)
    \/ BuildEnvironment(r, e) \/ EnvironmentBuilt(r, e) \/ Ungroupable(r, e)
    \/ StartValidating(r, e) \/ Validated(r, e)
    \/ StartReacting(r, e) \/ Reacted(r, e)
    \/ StartCleanup(r, e) \/ CleanedUp(r, e)

Next ==
    \/ \E e \in Events : CreateEvent(e)
    \/ \E r \in Runners : Script(r) \/ Crash(r)
    \/ \E r \in Runners, e \in Events : Process(r, e) \/ UpdateFails(r, e)

Spec == Init /\ [][Next]_vars

\* Cron keeps starting the script, and a process that runs keeps running.
Fairness ==
    /\ \A r \in Runners : WF_vars(Script(r))
    /\ \A r \in Runners, e \in Events : WF_vars(Process(r, e))

FairSpec == Spec /\ Fairness

-----------------------------------------------------------------------------
(* The "tiny race condition" of the script: a second invocation checks for *)
(* the lock file before the first has written it.  Only then can an event  *)
(* that is listed as pending have moved on when its object reads the row.  *)

SlipIn(r) ==
    /\ rpc[r] = "idle"
    /\ lockfile = NoRunner
    /\ \E q \in Runners : rpc[q] = "starting"
    /\ rpc' = [rpc EXCEPT ![r] = "starting"]
    /\ UNCHANGED <<state, lockfile, batch, phase, seen, reactions, failures>>

\* validate returns at once for a lone event whose flag init already set.
SkipValidation(r, e) ==
    /\ rpc[r] = "firing"
    /\ e \notin Grouped
    /\ phase[r][e] \in {"gathered", "bare"}
    /\ \/ KnownValid(seen[r][e]) /\ SetPhase(r, {e}, "valid")
       \/ KnownInvalid(seen[r][e]) /\ SetPhase(r, {e}, "done")
    /\ UNCHANGED <<state, lockfile, rpc, batch, seen, reactions, failures>>

\* react and cleanup return at once for what a lone event already knows.
SkipReaction(r, e) ==
    /\ e \notin Grouped
    /\ phase[r][e] = "valid"
    /\ KnownReacted(seen[r][e])
    /\ SetPhase(r, {e}, IF seen[r][e] = "complete" THEN "done" ELSE "reacted")
    /\ UNCHANGED <<state, lockfile, rpc, batch, seen, reactions, failures>>

RacyNext ==
    \/ Next
    \/ \E r \in Runners : SlipIn(r)
    \/ \E r \in Runners, e \in Events : SkipValidation(r, e) \/ SkipReaction(r, e)

\* Without the assumption of CheckLock; SingleClaim does not hold of it.
RacySpec == Init /\ [][RacyNext]_vars

-----------------------------------------------------------------------------
(* Properties.                                                             *)

\* No event is reacted to twice, however many invocations overlap: run_pending
\* gives up its lock file as soon as the first response is there, while its
\* events are still being fired.
ReactedOnce == \A e \in Events : reactions[e] <= 1

\* Between listing and the last "found" an event belongs to one invocation.
SingleClaim ==
    \A e \in Events : \A q, r \in Runners :
        /\ e \in batch[q] \/ phase[q][e] \in Working
        /\ e \in batch[r] \/ phase[r][e] \in Working
        => q = r

\* As long as nothing fails, a row that left "pending" and is neither complete,
\* invalid nor in error is in the hands of an invocation that will move it on:
\* no early return of fire or gather drops an event half way.
NothingStranded ==
    failures = 0 =>
        \A e \in Events :
            \/ state[e] \in {"absent", "pending", "complete", "invalid", "error"}
            \/ \E r \in Runners : phase[r][e] \in Working

\* Unless a process died or an update failed, a lock is given up again, and
\* every event that becomes pending is eventually complete, invalid or in error.
LockGivenUp == lockfile # NoRunner ~> lockfile = NoRunner \/ failures > 0

EveryEventEnds ==
    \A e \in Events :
        state[e] = "pending" ~> state[e] \in {"complete", "invalid", "error"} \/ failures > 0

\* TriggerRunner implements EventLifecycle: a row is taken from its first
\* "found" to the last step of the invocation that holds it.
Status ==
    [e \in Events |->
        IF state[e] = "absent" THEN "absent"
        ELSE IF state[e] = "pending" THEN "waiting"
        ELSE IF \E r \in Runners : phase[r][e] \in Working THEN "taken"
        ELSE IF state[e] \in {"complete", "invalid", "error"} THEN "closed"
        ELSE "abandoned"]

Life == INSTANCE EventLifecycle WITH status <- Status, reactions <- reactions

ImplementsLifecycle == Life!LifeSpec
=============================================================================
