----------------------------- MODULE TriggerHooks -----------------------------
(***************************************************************************)
(* Action/Trigger event creation: action_trigger_runner.pl --process-hooks *)
(* and the batch autocreate call it makes, which lists the objects that    *)
(* have no event for a definition yet and creates one for each, all in one *)
(* transaction of the open-ils.trigger service.                            *)
(*                                                                         *)
(* The script and the service's transaction are two processes: the lock    *)
(* file is the script's, the rows are the transaction's.                   *)
(*                                                                         *)
(* Abstracted: a run is for one hook (hooks are worked through one after   *)
(* another, each in a request of its own, and share no definition); an     *)
(* object is due for a definition when it matches the definition's         *)
(* condition on the delay_field, and then stays due.                       *)
(***************************************************************************)
EXTENDS Naturals, FiniteSets

CONSTANTS Scripts,      \* invocations of action_trigger_runner.pl
          NoScript,
          Definitions,  \* active rows of action_trigger.event_definition
          Targets,      \* objects of the hook's class
          NoLabel,
          Label,        \* [Scripts -> labels]: --granularity, or NoLabel
          Granularity,  \* [Definitions -> labels]: granularity, or NoLabel
          DelayField,   \* [Definitions -> columns]: delay_field
          MaxTimeouts,  \* bound: times recv gives up in a behaviour
          MaxFailures   \* bound: processes that die in a behaviour

Labels == {Label[s] : s \in Scripts}

ASSUME HooksAssumption ==
    /\ NoScript \notin Scripts
    /\ DOMAIN Label = Scripts
    /\ DOMAIN Granularity = Definitions
    /\ DOMAIN DelayField = Definitions
    /\ MaxTimeouts \in Nat
    /\ MaxFailures \in Nat

VARIABLES due,       \* SUBSET (Definitions \X Targets): the definition's
                     \*   condition on its delay_field holds for the object
          events,    \* [Definitions -> [Targets -> Nat]]: committed events
          lockfile,  \* [Labels -> whose pid the label's lock file holds]
          script,    \* [Scripts -> where the script is]
          job,       \* [Scripts -> whether its request's transaction is open]
          todo,      \* [Scripts -> SUBSET Definitions]: not yet looked at
          filter,    \* [Scripts -> SUBSET Definitions]: those whose condition
                     \*   is in the filter object
          made,      \* [Scripts -> SUBSET (Definitions \X Targets)]: created,
                     \*   not committed
          timeouts,  \* times recv gave up so far
          failures

vars == <<due, events, lockfile, script, job, todo, filter, made,
          timeouts, failures>>

TypeOK ==
    /\ due \subseteq Definitions \X Targets
    /\ events \in [Definitions -> [Targets -> Nat]]
    /\ lockfile \in [Labels -> Scripts \cup {NoScript}]
    /\ script \in [Scripts -> {"idle", "starting", "locked", "waiting"}]
    /\ job \in [Scripts -> {"none", "open"}]
    /\ todo \in [Scripts -> SUBSET Definitions]
    /\ filter \in [Scripts -> SUBSET Definitions]
    /\ made \in [Scripts -> SUBSET (Definitions \X Targets)]
    /\ timeouts \in 0..MaxTimeouts
    /\ failures \in 0..MaxFailures

Init ==
    /\ due = {}
    /\ events = [d \in Definitions |-> [t \in Targets |-> 0]]
    /\ lockfile = [l \in Labels |-> NoScript]
    /\ script = [s \in Scripts |-> "idle"]
    /\ job = [s \in Scripts |-> "none"]
    /\ todo = [s \in Scripts |-> {}]
    /\ filter = [s \in Scripts |-> {}]
    /\ made = [s \in Scripts |-> {}]
    /\ timeouts = 0
    /\ failures = 0

-----------------------------------------------------------------------------
(* The script.                                                             *)

\* An object comes to be due for a definition (a loan becomes overdue).
BecomeDue(d, t) ==
    /\ <<d, t>> \notin due
    /\ due' = due \cup {<<d, t>>}
    /\ UNCHANGED <<events, lockfile, script, job, todo, filter, made, timeouts, failures>>

\* The script sleeps until its label's lock file is gone (or gives up).  Two
\* that look at the same moment are kept out: TriggerRunner has that race.
CheckLock(s) ==
    /\ script[s] = "idle" /\ job[s] = "none"
    /\ lockfile[Label[s]] = NoScript
    /\ \A q \in Scripts : Label[q] = Label[s] => script[q] # "starting"
    /\ script' = [script EXCEPT ![s] = "starting"]
    /\ UNCHANGED <<due, events, lockfile, job, todo, filter, made, timeouts, failures>>

SetLock(s) ==
    /\ script[s] = "starting"
    /\ lockfile' = [lockfile EXCEPT ![Label[s]] = s]
    /\ script' = [script EXCEPT ![s] = "locked"]
    /\ UNCHANGED <<due, events, job, todo, filter, made, timeouts, failures>>

\* A run without a label takes every definition, one with a label its own.
DefinitionsFor(s) ==
    {d \in Definitions : Label[s] \in {NoLabel, Granularity[d]}}

Request(s) ==
    /\ script[s] = "locked"
    /\ script' = [script EXCEPT ![s] = "waiting"]
    /\ job' = [job EXCEPT ![s] = "open"]
    /\ todo' = [todo EXCEPT ![s] = DefinitionsFor(s)]
    /\ UNCHANGED <<due, events, lockfile, filter, made, timeouts, failures>>

\* The script's end: it removes the lock file, if it is its own.
Unlock(s) ==
    /\ script' = [script EXCEPT ![s] = "idle"]
    /\ lockfile' = [lockfile EXCEPT ![Label[s]] =
                       IF @ = s THEN NoScript ELSE @]

\* Mutants of Finish: unlocking with the first response, as run_pending does,
\* and leaving the lock file.
FinishAtResponse(s) ==
    /\ script[s] = "waiting"
    /\ job[s] = "none" \/ made[s] # {}
    /\ Unlock(s)
    /\ UNCHANGED <<due, events, job, todo, filter, made, timeouts, failures>>

FinishLocked(s) ==
    /\ script[s] = "waiting" /\ job[s] = "none"
    /\ script' = [script EXCEPT ![s] = "idle"]
    /\ UNCHANGED <<due, events, lockfile, job, todo, filter, made, timeouts, failures>>

\* recv returns nothing more: the request is complete.
Finish(s) ==
    /\ script[s] = "waiting" /\ job[s] = "none"
    /\ Unlock(s)
    /\ UNCHANGED <<due, events, job, todo, filter, made, timeouts, failures>>

\* recv times out: the script ends all the same, the service does not notice.
TimeOut(s) ==
    /\ timeouts < MaxTimeouts
    /\ script[s] = "waiting" /\ job[s] = "open"
    /\ Unlock(s)
    /\ timeouts' = timeouts + 1
    /\ UNCHANGED <<due, events, job, todo, filter, made, failures>>

-----------------------------------------------------------------------------
(* The service: create_batch_events.                                       *)

\* The conditions d is searched with: its own in place of one on the same
\* column, and those of the definitions before it that are still in the object.
FilterFor(s, d) ==
    {c \in filter[s] : DelayField[c] # DelayField[d]} \cup {d}

Unnoticed(d) == {t \in Targets : events[d][t] = 0}

Found(s, d) ==
    {t \in Unnoticed(d) : \A c \in FilterFor(s, d) : <<c, t>> \in due}

\* Mutant of Collect: events without their definition (the column may be null).
CollectUndefined(s, d) ==
    /\ job[s] = "open" /\ d \in todo[s]
    /\ made' = [made EXCEPT ![s] = @ \cup Found(s, d)]
    /\ filter' = [filter EXCEPT ![s] = FilterFor(s, d)]
    /\ todo' = [todo EXCEPT ![s] = @ \ {d}]
    /\ UNCHANGED <<due, events, lockfile, script, job, timeouts, failures>>

\* One definition, in whatever order the database lists them: the objects
\* found that have no committed event for it get one.
Collect(s, d) ==
    /\ job[s] = "open" /\ d \in todo[s]
    /\ made' = [made EXCEPT ![s] = @ \cup ({d} \X Found(s, d))]
    /\ filter' = [filter EXCEPT ![s] = FilterFor(s, d)]
    /\ todo' = [todo EXCEPT ![s] = @ \ {d}]
    /\ UNCHANGED <<due, events, lockfile, script, job, timeouts, failures>>

Close(s) ==
    /\ job' = [job EXCEPT ![s] = "none"]
    /\ todo' = [todo EXCEPT ![s] = {}]
    /\ filter' = [filter EXCEPT ![s] = {}]
    /\ made' = [made EXCEPT ![s] = {}]

Commit(s) ==
    /\ job[s] = "open" /\ todo[s] = {}
    /\ events' = [d \in Definitions |-> [t \in Targets |->
                     IF <<d, t>> \in made[s] THEN events[d][t] + 1
                     ELSE events[d][t]]]
    /\ Close(s)
    /\ UNCHANGED <<due, lockfile, script, timeouts, failures>>

-----------------------------------------------------------------------------
(* Failures.                                                               *)

\* The service's process dies, its transaction is rolled back.
JobDies(s) ==
    /\ failures < MaxFailures
    /\ job[s] = "open"
    /\ Close(s)
    /\ failures' = failures + 1
    /\ UNCHANGED <<due, events, lockfile, script, timeouts>>

\* The script dies: its lock file stays, the service goes on.
ScriptDies(s) ==
    /\ failures < MaxFailures
    /\ script[s] # "idle"
    /\ script' = [script EXCEPT ![s] = "idle"]
    /\ failures' = failures + 1
    /\ UNCHANGED <<due, events, lockfile, job, todo, filter, made, timeouts>>

-----------------------------------------------------------------------------

Script(s) ==
    CheckLock(s) \/ SetLock(s) \/ Request(s) \/ Finish(s)

Service(s) ==
    (\E d \in Definitions : Collect(s, d)) \/ Commit(s)

Next ==
    \/ \E d \in Definitions, t \in Targets : BecomeDue(d, t)
    \/ \E s \in Scripts :
          Script(s) \/ Service(s) \/ TimeOut(s) \/ JobDies(s) \/ ScriptDies(s)

Spec == Init /\ [][Next]_vars

\* Cron keeps starting the script, and a process that runs keeps running.
FairSpec == Spec /\ \A s \in Scripts : WF_vars(Script(s)) /\ WF_vars(Service(s))

-----------------------------------------------------------------------------
(* Properties.                                                             *)

\* Every definition is worked on under one lock file only.
Separate ==
    \A q, s \in Scripts :
        DefinitionsFor(q) \cap DefinitionsFor(s) # {} => Label[q] = Label[s]

Once == \A d \in Definitions, t \in Targets : events[d][t] <= 1

\* As long as no script gives up waiting, no object gets two events of one
\* definition (two overdue notices for one loan), although the list of those
\* without an event is read long before the events made from it can be seen.
\* The lock file alone sees to that.
NoticedOnce == timeouts = 0 => Once

\* Every object that is due for a definition some run works on gets its event,
\* unless a process dies, whatever other definitions the hook has.
EveryTargetNoticed ==
    \A d \in UNION {DefinitionsFor(s) : s \in Scripts}, t \in Targets :
        <<d, t>> \in due ~> events[d][t] > 0 \/ failures > 0
=============================================================================
