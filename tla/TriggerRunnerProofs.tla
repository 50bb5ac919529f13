------------------------ MODULE TriggerRunnerProofs ------------------------
(***************************************************************************)
(* Proofs about TriggerRunner: for any events, runners, grouping and       *)
(* number of failures, the lock file makes the invocations take disjoint   *)
(* sets of events and no event is reacted to twice, provided no two        *)
(* invocations check the lock file at the same moment (CheckLock).         *)
(***************************************************************************)
EXTENDS TriggerRunner, TLAPS

\* The phases of an event its holder has not reacted to yet.
Before == {"inited", "found", "collecting", "gathered", "bare",
           "validating", "valid", "reacting"}

Holds(r, e) == e \in batch[r] \/ phase[r][e] \in Working

\* From the check of the lock file to the end of gathering there is one
\* invocation at most.
LockInv ==
    /\ \A r \in Runners :
          /\ rpc[r] = "starting" => lockfile = NoRunner
          /\ rpc[r] \in {"locked", "gathering"} => lockfile = r
    /\ \A q, r \in Runners : rpc[q] = "starting" /\ rpc[r] = "starting" => q = r

\* An invocation holds events only while it gathers and fires, and what it
\* has listed but not marked is still pending.
HoldInv ==
    \A r \in Runners : \A e \in Events :
        /\ e \in batch[r] => rpc[r] = "gathering" /\ state[e] = "pending"
        /\ phase[r][e] # "none" => rpc[r] \in {"gathering", "firing"}
        /\ e \in batch[r] => phase[r][e] = "none"
        /\ phase[r][e] = "inited" => rpc[r] = "gathering" /\ state[e] = "pending"
        /\ phase[r][e] \in Working \ {"inited"} =>
              state[e] \notin {"absent", "pending"}

ClaimInv ==
    \A e \in Events : \A q, r \in Runners : Holds(q, e) /\ Holds(r, e) => q = r

ReactInv ==
    /\ \A e \in Events : reactions[e] \in {0, 1}
    /\ \A e \in Events : state[e] \in {"absent", "pending"} => reactions[e] = 0
    /\ \A r \in Runners : \A e \in Events :
          phase[r][e] \in Before => reactions[e] = 0

IInv == TypeOK /\ LockInv /\ HoldInv /\ ClaimInv /\ ReactInv

\* A step of r on events S that it holds: nothing else changes, no event goes
\* back to a phase before its reaction, and the reactor runs on units that
\* are in "reacting" only.
LocalStep(r, S) ==
    /\ \A e \in S : phase[r][e] \in Working
    /\ UNCHANGED <<lockfile, rpc, batch>>
    /\ \A e \in Events \ S :
          state'[e] = state[e] /\ reactions'[e] = reactions[e]
    /\ \A q \in Runners : \A e \in Events :
          q # r \/ e \notin S => phase'[q][e] = phase[q][e]
    /\ \A e \in S :
          /\ phase'[r][e] \notin {"none", "inited"}
          /\ phase'[r][e] \in Before => phase[r][e] \in Before
          /\ \/ phase'[r][e] = "done" /\ state'[e] = state[e]
             \/ state'[e] \notin {"absent", "pending"}
          /\ \/ reactions'[e] = reactions[e]
             \/ /\ reactions'[e] = reactions[e] + 1
                /\ phase[r][e] = "reacting"
                /\ phase'[r][e] \in {"reacted", "done"}
                /\ state'[e] \notin {"absent", "pending"}

\* The invariant holds initially.
LEMMA InitInv == ASSUME TriggerAssumption PROVE Init => IInv
  BY DEF TriggerAssumption, Init, IInv, TypeOK, States, Phases, LockInv, HoldInv,
         ClaimInv, ReactInv, Holds, Working, Before

\* Whatever r does to events it holds keeps the invariant.
LEMMA LocalInv ==
  ASSUME TriggerAssumption, IInv, TypeOK', NEW r \in Runners,
         NEW S \in SUBSET Events, LocalStep(r, S)
  PROVE  IInv'
  <1>1. LockInv'
    BY DEF IInv, LockInv, LocalStep
  <1>2. \A e \in S : ~ (e \in batch[r])
    BY DEF IInv, HoldInv, LocalStep, Working, Phases
  <1>3. \A q \in Runners : \A e \in S : q # r => ~ Holds(q, e)
    BY DEF IInv, ClaimInv, Holds, LocalStep
  <1>4. \A e \in S : rpc[r] \in {"gathering", "firing"}
    BY DEF IInv, HoldInv, LocalStep, Working
  <1>5. HoldInv'
    <2> SUFFICES ASSUME NEW q \in Runners, NEW e \in Events
                 PROVE  /\ e \in batch'[q] => rpc'[q] = "gathering" /\ state'[e] = "pending"
                        /\ phase'[q][e] # "none" => rpc'[q] \in {"gathering", "firing"}
                        /\ e \in batch'[q] => phase'[q][e] = "none"
                        /\ phase'[q][e] = "inited" => rpc'[q] = "gathering" /\ state'[e] = "pending"
                        /\ phase'[q][e] \in Working \ {"inited"} =>
                              state'[e] \notin {"absent", "pending"}
      BY DEF HoldInv
    <2>1. CASE e \notin S
      BY <2>1 DEF IInv, HoldInv, LocalStep
    <2>2. CASE e \in S /\ q # r
      <3>1. ~ Holds(q, e)
        BY <1>3, <2>2
      <3>2. e \notin batch[q] /\ phase[q][e] \in {"none", "done"}
        BY <3>1 DEF Holds, Working, IInv, TypeOK
      <3> QED
        BY <3>2, <2>2 DEF IInv, HoldInv, LocalStep, Working
    <2>3. CASE e \in S /\ q = r
      BY <1>2, <1>4, <2>3 DEF LocalStep, Working
    <2> QED
      BY <2>1, <2>2, <2>3
  <1>6. \A q \in Runners : \A e \in Events : Holds(q, e)' => Holds(q, e)
    BY DEF LocalStep, Holds
  <1>7. ClaimInv'
    BY <1>6 DEF IInv, ClaimInv
  <1>8. ReactInv'
    <2>1. \A e \in S : phase[r][e] = "reacting" => reactions[e] = 0
      BY DEF IInv, ReactInv, Before
    <2>2. \A e \in Events : reactions'[e] \in {0, 1}
      BY <2>1 DEF IInv, ReactInv, LocalStep
    <2>3. \A e \in Events : state'[e] \in {"absent", "pending"} => reactions'[e] = 0
      BY DEF IInv, ReactInv, LocalStep, Before
    <2>4. ASSUME NEW q \in Runners, NEW e \in Events, phase'[q][e] \in Before
          PROVE  reactions'[e] = 0
      <3>1. CASE e \notin S
        BY <2>4, <3>1 DEF IInv, ReactInv, LocalStep
      <3>2. CASE e \in S /\ q # r
        BY <1>3, <2>4, <3>2 DEF LocalStep, Holds, Working, Before, Phases
      <3>3. CASE e \in S /\ q = r
        BY <2>4, <3>3 DEF IInv, ReactInv, LocalStep, Before
      <3> QED
        BY <3>1, <3>2, <3>3
    <2> QED
      BY <2>2, <2>3, <2>4 DEF ReactInv
  <1> QED
    BY <1>1, <1>5, <1>7, <1>8 DEF IInv

-----------------------------------------------------------------------------
(* What SetState and SetPhase do.                                          *)

\* SetPhase changes the phases of S for invocation r, and nothing else.
LEMMA SetPhaseFacts ==
  ASSUME TypeOK, NEW r \in Runners, NEW S \in SUBSET Events, NEW p \in Phases,
         SetPhase(r, S, p)
  PROVE  /\ phase' \in [Runners -> [Events -> Phases]]
         /\ \A q \in Runners : \A e \in Events :
               q # r \/ e \notin S => phase'[q][e] = phase[q][e]
         /\ \A e \in S : phase'[r][e] = p
  BY DEF TypeOK, SetPhase

\* SetState changes the rows of S, and no others.
LEMMA SetStateFacts ==
  ASSUME TypeOK, NEW S \in SUBSET Events, NEW s \in States, SetState(S, s)
  PROVE  /\ state' \in [Events -> States]
         /\ \A e \in Events \ S : state'[e] = state[e]
         /\ \A e \in S : state'[e] = s
  BY DEF TypeOK, SetState

\* The events fired together are all in the phase asked for.
LEMMA UnitFacts ==
  ASSUME NEW r, NEW e, NEW P
  PROVE  /\ Unit(r, e, P) \in SUBSET Events
         /\ \A f \in Unit(r, e, P) : phase[r][f] \in P
  BY DEF Unit

-----------------------------------------------------------------------------
(* Type correctness, action by action.                                     *)

\* The steps of the script keep the types.
LEMMA ScriptType ==
  ASSUME TriggerAssumption, TypeOK, NEW r \in Runners, Script(r)
  PROVE  TypeOK'
  <1>1. CASE CheckLock(r) BY <1>1 DEF TypeOK, CheckLock
  <1>2. CASE SetLock(r) BY <1>2 DEF TypeOK, SetLock
  <1>3. CASE ListPending(r) BY <1>3 DEF TypeOK, ListPending
  <1>4. CASE EndGather(r) BY <1>4 DEF TypeOK, EndGather
  <1>5. CASE ReleaseLock(r) BY <1>5 DEF TypeOK, ReleaseLock
  <1>6. CASE Finish(r)
    <2>1. phase' \in [Runners -> [Events -> Phases]]
      BY <1>6, SetPhaseFacts, "none" \in Phases DEF Finish, Phases
    <2>2. seen' \in [Runners -> [Events -> States]]
      BY <1>6 DEF TypeOK, Finish, States
    <2> QED BY <1>6, <2>1, <2>2 DEF TypeOK, Finish
  <1> QED BY <1>1, <1>2, <1>3, <1>4, <1>5, <1>6 DEF Script

\* The actions that set the state and the phase of one set of events.
LEMMA MoveType ==
  ASSUME TypeOK, NEW r \in Runners, NEW S \in SUBSET Events,
         NEW s \in States, NEW p \in Phases,
         SetState(S, s) \/ UNCHANGED state, SetPhase(r, S, p),
         UNCHANGED <<lockfile, rpc, batch, seen, failures>>,
         reactions' \in [Events -> Nat]
  PROVE  TypeOK'
  <1>1. state' \in [Events -> States]
    BY SetStateFacts DEF TypeOK
  <1> QED
    BY <1>1, SetPhaseFacts DEF TypeOK

\* Every member of a group gets its own verdict; the types are kept.
LEMMA ValidatedType ==
  ASSUME TypeOK, NEW r \in Runners, NEW e \in Events, Validated(r, e)
  PROVE  TypeOK'
  <1> DEFINE U == Unit(r, e, {"validating"})
             Known == {f \in U : KnownValid(seen[r][f]) \/ KnownInvalid(seen[r][f])}
  <1>1. PICK verdict \in [U \ Known -> {"valid", "invalid", "error"}] :
          /\ state' = [f \in Events |->
                          IF f \in U \ Known THEN verdict[f] ELSE state[f]]
          /\ phase' = [phase EXCEPT ![r] = [f \in Events |->
                IF f \notin U THEN phase[r][f]
                ELSE IF f \in Known
                     THEN IF KnownValid(seen[r][f]) THEN "valid" ELSE "done"
                     ELSE IF verdict[f] = "valid" THEN "valid" ELSE "done"]]
    BY DEF Validated
  <1> HIDE DEF U, Known
  <1>2. state' \in [Events -> States]
    BY <1>1 DEF TypeOK, States
  <1>3. "valid" \in Phases /\ "done" \in Phases
    BY DEF Phases
  <1>4. phase' \in [Runners -> [Events -> Phases]]
    BY <1>1, <1>3 DEF TypeOK
  <1> QED
    BY <1>2, <1>4 DEF TypeOK, Validated

\* Steps of the service on an event keep the types.
LEMMA ProcessType ==
  ASSUME TriggerAssumption, TypeOK, NEW r \in Runners, NEW e \in Events,
         Process(r, e)
  PROVE  TypeOK'
  <1> DEFINE U(P) == Unit(r, e, P)
  <1>p. /\ \A p \in {"inited", "found", "collecting", "gathered", "bare",
                     "validating", "valid", "reacting", "reacted", "cleaning",
                     "done"} : p \in Phases
        /\ \A s \in {"found", "invalid", "collecting", "collected", "error",
                     "validating", "reacting", "reacted", "cleaning",
                     "complete"} : s \in States
    BY DEF Phases, States
  <1>u. \A P : U(P) \in SUBSET Events
    BY UnitFacts
  <1>n. reactions \in [Events -> Nat]
    BY DEF TypeOK
  <1> HIDE DEF U
  <1>1. CASE ReadEvent(r, e)
    <2>1. phase' \in [Runners -> [Events -> Phases]]
      BY <1>1, <1>p, SetPhaseFacts, {e} \in SUBSET Events DEF ReadEvent
    <2> QED BY <1>1, <2>1 DEF TypeOK, ReadEvent
  <1>2. CASE MarkFound(r, e)
    BY <1>2, <1>p, <1>n, MoveType, {e} \in SUBSET Events DEF MarkFound
  <1>3. CASE TargetMissing(r, e)
    BY <1>3, <1>p, <1>n, MoveType, {e} \in SUBSET Events DEF TargetMissing
  <1>4. CASE BuildEnvironment(r, e)
    BY <1>4, <1>p, <1>n, MoveType, {e} \in SUBSET Events DEF BuildEnvironment
  <1>5. CASE EnvironmentBuilt(r, e)
    BY <1>5, <1>p, <1>n, MoveType, {e} \in SUBSET Events DEF EnvironmentBuilt
  <1>6. CASE StartValidating(r, e)
    BY <1>6, <1>p, <1>n, <1>u, MoveType DEF StartValidating, U
  <1>7. CASE Validated(r, e)
    BY <1>7, ValidatedType
  <1>8. CASE StartReacting(r, e)
    BY <1>8, <1>p, <1>n, <1>u, MoveType DEF StartReacting, U
  <1>9. CASE Reacted(r, e)
    <2>1. reactions' \in [Events -> Nat]
      BY <1>9, <1>n DEF Reacted
    <2> QED
      BY <1>9, <1>p, <2>1, <1>u, MoveType DEF Reacted, U
  <1>10. CASE StartCleanup(r, e)
    BY <1>10, <1>p, <1>n, <1>u, MoveType DEF StartCleanup, U
  <1>11. CASE CleanedUp(r, e)
    BY <1>11, <1>p, <1>n, <1>u, MoveType DEF CleanedUp, U
  <1>12. CASE Ungroupable(r, e)
    BY <1>12, <1>p, <1>n, MoveType, {e} \in SUBSET Events DEF Ungroupable
  <1> QED
    BY <1>1, <1>2, <1>3, <1>4, <1>5, <1>6, <1>7, <1>8, <1>9, <1>10, <1>11, <1>12
       DEF Process

\* Failures keep the types and stay within their bound.
LEMMA FailureType ==
  ASSUME TriggerAssumption, TypeOK, NEW r \in Runners,
         Crash(r) \/ \E e \in Events : UpdateFails(r, e)
  PROVE  TypeOK'
  <1>1. "none" \in Phases /\ "done" \in Phases /\ "absent" \in States
    BY DEF Phases, States
  <1>2. failures < MaxFailures => failures + 1 \in 0..MaxFailures
    BY DEF TypeOK, TriggerAssumption
  <1>3. CASE Crash(r)
    <2>1. phase' \in [Runners -> [Events -> Phases]]
      BY <1>1, <1>3, SetPhaseFacts DEF Crash
    <2> QED BY <1>1, <1>2, <1>3, <2>1 DEF TypeOK, Crash
  <1>4. ASSUME NEW e \in Events, UpdateFails(r, e) PROVE TypeOK'
    <2>1. PICK S \in SUBSET Events : SetPhase(r, S, "done")
      BY <1>4, UnitFacts DEF UpdateFails
    <2>2. phase' \in [Runners -> [Events -> Phases]]
      BY <1>1, <2>1, SetPhaseFacts
    <2> QED BY <1>2, <1>4, <2>2 DEF TypeOK, UpdateFails
  <1> QED BY <1>3, <1>4

\* Every step keeps the types.
LEMMA NextType == ASSUME TriggerAssumption, TypeOK, [Next]_vars PROVE TypeOK'
  <1>1. ASSUME NEW e \in Events, CreateEvent(e) PROVE TypeOK'
    BY <1>1, SetStateFacts, {e} \in SUBSET Events, "pending" \in States
       DEF TypeOK, CreateEvent, States
  <1>2. CASE UNCHANGED vars
    BY <1>2 DEF TypeOK, vars
  <1> QED
    BY <1>1, <1>2, ScriptType, ProcessType, FailureType DEF Next

\* Every row of action_trigger.event stays within the states the table's
\* CHECK allows, and the failures within their bound.
THEOREM TypeCorrect == ASSUME TriggerAssumption PROVE Spec => []TypeOK
  <1>1. Init => TypeOK
    BY InitInv DEF IInv
  <1>2. TypeOK /\ [Next]_vars => TypeOK'
    BY NextType
  <1> QED
    BY <1>1, <1>2, PTL DEF Spec

-----------------------------------------------------------------------------
(* The inductive invariant.                                                *)

\* The steps of the script: they move the lock and the list, and only Finish
\* touches event objects, which are all done by then.
LEMMA ScriptInv ==
  ASSUME TriggerAssumption, IInv, NEW r \in Runners, Script(r)
  PROVE  IInv'
  <1>t. TypeOK'
    BY ScriptType DEF IInv
  <1> USE DEF IInv, TypeOK
  <1>1. CASE CheckLock(r)
    BY <1>1, <1>t DEF CheckLock, LockInv, HoldInv, ClaimInv, ReactInv, Holds
  <1>2. CASE SetLock(r)
    BY <1>2, <1>t DEF SetLock, LockInv, HoldInv, ClaimInv, ReactInv, Holds
  <1>3. CASE ListPending(r)
    <2>1. LockInv' BY <1>3 DEF ListPending, LockInv
    <2>2. \A q \in Runners : q # r => rpc[q] # "gathering"
      BY <1>3 DEF ListPending, LockInv
    <2>3. \A e \in Events : phase[r][e] = "none"
      BY <1>3 DEF ListPending, HoldInv
    <2>4. \A q \in Runners : \A e \in batch'[r] : q # r => ~ Holds(q, e)
      BY <1>3, <2>2 DEF ListPending, HoldInv, Holds, Working, Phases
    <2>5. HoldInv'
      BY <1>3, <2>3 DEF ListPending, HoldInv
    <2>6. ClaimInv'
      BY <1>3, <2>3, <2>4 DEF ListPending, ClaimInv, Holds, Working
    <2>7. ReactInv'
      BY <1>3 DEF ListPending, ReactInv
    <2> QED BY <1>t, <2>1, <2>5, <2>6, <2>7
  <1>4. CASE EndGather(r)
    <2>0. /\ \A q \in Runners : rpc'[q] = IF q = r THEN "firing" ELSE rpc[q]
          /\ UNCHANGED <<state, lockfile, batch, phase>>
          /\ \A e \in Events : e \notin batch[r] /\ phase[r][e] # "inited"
      BY <1>4 DEF EndGather
    <2>1. LockInv' BY <2>0 DEF LockInv
    <2>2. HoldInv' BY <2>0 DEF HoldInv
    <2>3. ClaimInv' /\ ReactInv'
      BY <1>4 DEF EndGather, ClaimInv, ReactInv, Holds
    <2> QED BY <1>t, <2>1, <2>2, <2>3
  <1>5. CASE ReleaseLock(r)
    BY <1>5, <1>t DEF ReleaseLock, LockInv, HoldInv, ClaimInv, ReactInv, Holds
  <1>6. CASE Finish(r)
    <2>1. LockInv' BY <1>6 DEF Finish, LockInv
    <2>2. \A e \in Events : e \notin batch[r]
      BY <1>6 DEF Finish, HoldInv
    <2>3. HoldInv'
      BY <1>6, <2>2 DEF Finish, SetPhase, HoldInv, Working
    <2>4. ClaimInv'
      BY <1>6 DEF Finish, SetPhase, ClaimInv, Holds, Working
    <2>5. ReactInv'
      BY <1>6 DEF Finish, SetPhase, ReactInv, Before
    <2> QED BY <1>t, <2>1, <2>3, <2>4, <2>5
  <1> QED BY <1>1, <1>2, <1>3, <1>4, <1>5, <1>6 DEF Script

\* Reading a listed event moves it from the list to the objects of r.
LEMMA ReadInv ==
  ASSUME TriggerAssumption, IInv, NEW r \in Runners, NEW e \in Events,
         ReadEvent(r, e)
  PROVE  IInv'
  <1>1. TypeOK'
    BY ProcessType DEF IInv, Process
  <1>2. LockInv'
    BY DEF IInv, ReadEvent, LockInv
  <1>3. HoldInv'
    BY DEF IInv, TypeOK, ReadEvent, SetPhase, HoldInv, Working
  <1>4. \A q \in Runners : \A f \in Events : Holds(q, f)' => Holds(q, f)
    BY DEF IInv, TypeOK, ReadEvent, SetPhase, Holds
  <1>5. ClaimInv'
    BY <1>4 DEF IInv, ClaimInv
  <1>6. reactions[e] = 0
    BY DEF IInv, ReadEvent, HoldInv, ReactInv
  <1>7. ReactInv'
    BY <1>6 DEF IInv, TypeOK, ReadEvent, SetPhase, ReactInv
  <1> QED
    BY <1>1, <1>2, <1>3, <1>5, <1>7 DEF IInv

\* Moving the unit S on to phase p, its rows to state s.
LEMMA MoveInv ==
  ASSUME TriggerAssumption, IInv, TypeOK', NEW r \in Runners,
         NEW S \in SUBSET Events, NEW p \in Phases \ {"none", "inited"},
         NEW s \in States \ {"absent", "pending"},
         \A e \in S : phase[r][e] \in Working,
         p \in Before => \A e \in S : phase[r][e] \in Before,
         \/ SetState(S, s)
         \/ UNCHANGED state /\ \A e \in S : phase[r][e] # "inited",
         SetPhase(r, S, p),
         UNCHANGED <<lockfile, rpc, batch>>,
         \/ UNCHANGED reactions
         \/ /\ SetState(S, s)
            /\ \A e \in S : phase[r][e] = "reacting"
            /\ p \in {"reacted", "done"}
            /\ reactions' = [e \in Events |->
                                IF e \in S THEN reactions[e] + 1 ELSE reactions[e]]
  PROVE  IInv'
  <1>1. /\ \A q \in Runners : \A e \in Events :
              q # r \/ e \notin S => phase'[q][e] = phase[q][e]
        /\ \A e \in S : phase'[r][e] = p
    <2>1. phase' = [phase EXCEPT ![r] =
                       [e \in Events |-> IF e \in S THEN p ELSE phase[r][e]]]
      BY DEF SetPhase
    <2>2. phase \in [Runners -> [Events -> Phases]]
      BY DEF IInv, TypeOK
    <2> QED BY ONLY <2>1, <2>2, r \in Runners, S \in SUBSET Events
  <1>2. \A e \in Events \ S : state'[e] = state[e]
    BY SetStateFacts DEF IInv
  <1>3. \A e \in S : state'[e] \notin {"absent", "pending"}
    <2>1. CASE SetState(S, s)
      BY <2>1, SetStateFacts DEF IInv
    <2>2. CASE UNCHANGED state /\ \A e \in S : phase[r][e] # "inited"
      BY <2>2 DEF IInv, HoldInv
    <2> QED BY <2>1, <2>2
  <1>4. LocalStep(r, S)
    BY <1>1, <1>2, <1>3 DEF LocalStep
  <1> QED
    BY <1>4, LocalInv

\* A validated unit: what is valid goes on, the rest is done.
LEMMA ValidatedInv ==
  ASSUME TriggerAssumption, IInv, TypeOK', NEW r \in Runners, NEW e \in Events,
         Validated(r, e)
  PROVE  IInv'
  <1> DEFINE U == Unit(r, e, {"validating"})
  <1>1. U \in SUBSET Events /\ \A f \in U : phase[r][f] = "validating"
    BY UnitFacts
  <1>2. \A f \in U : state[f] \notin {"absent", "pending"}
    BY <1>1 DEF IInv, HoldInv, Working, Phases
  <1>3. /\ \A f \in Events \ U : state'[f] = state[f]
        /\ \A f \in U : state'[f] = state[f] \/ state'[f] \in {"valid", "invalid", "error"}
    BY <1>1 DEF Validated
  <1>4. /\ \A q \in Runners : \A f \in Events :
              q # r \/ f \notin U => phase'[q][f] = phase[q][f]
        /\ \A f \in U : phase'[r][f] \in {"valid", "done"}
    BY <1>1 DEF Validated, IInv, TypeOK
  <1>5. UNCHANGED <<lockfile, rpc, batch, reactions>>
    BY DEF Validated
  <1> HIDE DEF U
  <1>6. LocalStep(r, U)
    BY <1>1, <1>2, <1>3, <1>4, <1>5 DEF LocalStep, Before, Working, Phases
  <1> QED
    BY <1>1, <1>6, LocalInv

\* Every step on events moves the unit it works on.
LEMMA ProcessInv ==
  ASSUME TriggerAssumption, IInv, NEW r \in Runners, NEW e \in Events,
         Process(r, e)
  PROVE  IInv'
  <1>t. TypeOK'
    BY ProcessType DEF IInv
  <1> DEFINE U(P) == Unit(r, e, P)
             EE == {e}
  <1>p. /\ \A p \in {"found", "collecting", "gathered", "bare",
                     "validating", "valid", "reacting", "reacted", "cleaning",
                     "done"} : p \in Phases \ {"none", "inited"}
        /\ \A s \in {"found", "invalid", "collecting", "collected", "error",
                     "validating", "reacting", "reacted", "cleaning",
                     "complete"} : s \in States \ {"absent", "pending"}
    BY DEF Phases, States
  <1>w. \A p \in Before \cup {"reacted", "cleaning"} : p \in Working
    BY DEF Before, Working, Phases
  <1>u. \A P : U(P) \in SUBSET Events /\ \A f \in U(P) : phase[r][f] \in P
    BY UnitFacts
  <1>e. EE \in SUBSET Events /\ \A f \in EE : f = e
    OBVIOUS
  <1> HIDE DEF U, EE
  <1> USE <1>t, <1>p, <1>w DEF Before
  <1>1. CASE ReadEvent(r, e)
    BY <1>1, ReadInv
  <1>2. CASE MarkFound(r, e)
    BY <1>2, <1>e, MoveInv DEF MarkFound, EE
  <1>3. CASE TargetMissing(r, e)
    BY <1>3, <1>e, MoveInv DEF TargetMissing, EE
  <1>4. CASE BuildEnvironment(r, e)
    BY <1>4, <1>e, MoveInv DEF BuildEnvironment, EE
  <1>5. CASE EnvironmentBuilt(r, e)
    BY <1>5, <1>e, MoveInv DEF EnvironmentBuilt, EE
  <1>6. CASE StartValidating(r, e)
    BY <1>6, <1>u, MoveInv DEF StartValidating, U
  <1>7. CASE Validated(r, e)
    BY <1>7, ValidatedInv
  <1>8. CASE StartReacting(r, e)
    BY <1>8, <1>u, MoveInv DEF StartReacting, U
  <1>9. CASE Reacted(r, e)
    BY <1>9, <1>u, MoveInv DEF Reacted, U
  <1>10. CASE StartCleanup(r, e)
    BY <1>10, <1>u, MoveInv DEF StartCleanup, U
  <1>11. CASE CleanedUp(r, e)
    BY <1>11, <1>u, MoveInv DEF CleanedUp, U
  <1>12. CASE Ungroupable(r, e)
    BY <1>12, <1>e, MoveInv DEF Ungroupable, EE
  <1> QED
    BY <1>1, <1>2, <1>3, <1>4, <1>5, <1>6, <1>7, <1>8, <1>9, <1>10, <1>11, <1>12
       DEF Process

\* A failed update and a crash let go of events, and change no row.
LEMMA FailureInv ==
  ASSUME TriggerAssumption, IInv, NEW r \in Runners,
         Crash(r) \/ \E e \in Events : UpdateFails(r, e)
  PROVE  IInv'
  <1>t. TypeOK'
    BY FailureType DEF IInv
  <1>1. CASE Crash(r)
    <2>1. LockInv'
      BY <1>1 DEF Crash, IInv, TypeOK, LockInv
    <2>2. /\ \A q \in Runners : \A e \in Events :
                phase'[q][e] = IF q = r THEN "none" ELSE phase[q][e]
          /\ \A q \in Runners : batch'[q] = IF q = r THEN {} ELSE batch[q]
          /\ \A q \in Runners : q # r => rpc'[q] = rpc[q]
          /\ UNCHANGED <<state, reactions>>
      BY <1>1 DEF Crash, SetPhase, IInv, TypeOK
    <2>3. HoldInv'
      BY <2>2 DEF IInv, HoldInv, Working
    <2>4. ClaimInv'
      BY <2>2 DEF IInv, ClaimInv, Holds, Working
    <2>5. ReactInv'
      BY <2>2 DEF IInv, ReactInv, Before
    <2> QED BY <1>t, <2>1, <2>3, <2>4, <2>5 DEF IInv
  <1>2. ASSUME NEW e \in Events, UpdateFails(r, e) PROVE IInv'
    <2>1. PICK S \in SUBSET Events :
             /\ \A f \in S : phase[r][f] \in Working
             /\ SetPhase(r, S, "done")
      BY <1>2, UnitFacts DEF UpdateFails
    <2>2. "done" \in Phases
      BY DEF Phases
    <2>3. /\ \A q \in Runners : \A f \in Events :
                q # r \/ f \notin S => phase'[q][f] = phase[q][f]
          /\ \A f \in S : phase'[r][f] = "done"
      BY <2>1, <2>2, SetPhaseFacts DEF IInv
    <2>4. LocalStep(r, S)
      BY <1>2, <2>1, <2>3 DEF UpdateFails, LocalStep, Before
    <2> QED BY <1>t, <2>4, LocalInv
  <1> QED BY <1>1, <1>2

\* Every step keeps the invariant.
LEMMA NextInv ==
  ASSUME TriggerAssumption, IInv, [Next]_vars
  PROVE  IInv'
  <1>t. TypeOK'
    BY NextType DEF IInv
  <1>1. ASSUME NEW e \in Events, CreateEvent(e) PROVE IInv'
    BY <1>1, <1>t DEF CreateEvent, SetState, IInv, TypeOK, LockInv, HoldInv,
                      ClaimInv, ReactInv, Holds, Working
  <1>2. CASE UNCHANGED vars
    BY <1>2 DEF vars, IInv, TypeOK, LockInv, HoldInv, ClaimInv, ReactInv, Holds
  <1> QED
    BY <1>t, <1>1, <1>2, ScriptInv, ProcessInv, FailureInv DEF Next

\* The inductive invariant always holds.
LEMMA Invariance ==
  ASSUME TriggerAssumption PROVE Spec => []IInv
  <1>1. Init => IInv
    BY InitInv
  <1>2. IInv /\ [Next]_vars => IInv'
    BY NextInv
  <1> QED
    BY <1>1, <1>2, PTL DEF Spec

\* Whatever overlaps, fails or crashes, no reactor runs twice for an event.
THEOREM ReactsOnce ==
  ASSUME TriggerAssumption PROVE Spec => []ReactedOnce
  <1>1. IInv => ReactedOnce
    BY DEF IInv, ReactInv, ReactedOnce
  <1> QED
    BY <1>1, Invariance, PTL

\* Two invocations never work on one event.
THEOREM ClaimsAreDisjoint ==
  ASSUME TriggerAssumption PROVE Spec => []SingleClaim
  <1>1. IInv => SingleClaim
    BY DEF IInv, ClaimInv, Holds, SingleClaim
  <1> QED
    BY <1>1, Invariance, PTL

-----------------------------------------------------------------------------
(* Nothing is stranded, and the promise of EventLifecycle is kept.  Both   *)
(* rest on one description of what a process does to the events it holds.  *)

Ended == {"complete", "invalid", "error"}

\* What init read of an event was "pending": no early return is taken.
SeenInv ==
    \A r \in Runners : \A e \in Events : seen[r][e] \in {"absent", "pending"}

\* The runner moves the claimed events of S on: what it is through with has
\* ended, and the reactor, when it runs, runs for all of S.
Advance(r, S) ==
    /\ \A e \in S : phase[r][e] \in Working \ {"inited"}
    /\ \A e \in Events \ S : state'[e] = state[e]
    /\ \A e \in S : state'[e] \notin {"absent", "pending"}
    /\ \A q \in Runners : \A e \in Events :
          q # r \/ e \notin S => phase'[q][e] = phase[q][e]
    /\ \A e \in S : \/ phase'[r][e] \in Working
                    \/ phase'[r][e] = "done" /\ state'[e] \in Ended
    /\ \/ UNCHANGED reactions
       \/ /\ S # {}
          /\ \A e \in S : phase[r][e] = "reacting"
          /\ reactions' = [e \in Events |->
                              IF e \in S THEN reactions[e] + 1 ELSE reactions[e]]
          /\ \/ \A e \in S : phase'[r][e] \in Working
             \/ \A e \in S : phase'[r][e] = "done"

\* The runner lets go of events of its own without touching a row.
LetGo(r) ==
    /\ UNCHANGED <<state, reactions>>
    /\ \A q \in Runners : \A e \in Events :
          \/ phase'[q][e] = phase[q][e]
          \/ q = r /\ phase'[q][e] \in {"none", "done"}

\* Only reading a listed event notes a state, and a listed event is pending.
LEMMA SeenKept ==
  ASSUME TriggerAssumption, IInv, SeenInv, [Next]_vars
  PROVE  SeenInv'
  <1>1. ASSUME NEW r \in Runners, NEW e \in Events, ReadEvent(r, e)
        PROVE  SeenInv'
    <2>1. state[e] = "pending"
      BY <1>1 DEF ReadEvent, IInv, HoldInv
    <2>2. seen' = [seen EXCEPT ![r][e] = "pending"]
      BY <1>1, <2>1 DEF ReadEvent
    <2> QED BY <2>2 DEF SeenInv, IInv, TypeOK
  <1>2. ASSUME NEW r \in Runners, Finish(r) \/ Crash(r) PROVE SeenInv'
    <2>1. seen' = [seen EXCEPT ![r] = [e \in Events |-> "absent"]]
      BY <1>2 DEF Finish, Crash
    <2> QED BY <2>1 DEF SeenInv, IInv, TypeOK
  <1>3. CASE UNCHANGED seen
    BY <1>3 DEF SeenInv
  <1>4. ASSUME NEW r \in Runners, Script(r) PROVE Finish(r) \/ UNCHANGED seen
    BY <1>4 DEF Script, CheckLock, SetLock, ListPending, EndGather, ReleaseLock
  <1>5. ASSUME NEW r \in Runners, NEW e \in Events, Process(r, e)
        PROVE  ReadEvent(r, e) \/ UNCHANGED seen
    BY <1>5 DEF Process, MarkFound, TargetMissing, BuildEnvironment,
                EnvironmentBuilt, Ungroupable, StartValidating, Validated,
                StartReacting, Reacted, StartCleanup, CleanedUp
  <1>6. (\E e \in Events : CreateEvent(e)) \/ UNCHANGED vars => UNCHANGED seen
    BY DEF CreateEvent, vars
  <1>7. \A r \in Runners : \A e \in Events : UpdateFails(r, e) => UNCHANGED seen
    BY DEF UpdateFails
  <1> QED
    BY <1>1, <1>2, <1>3, <1>4, <1>5, <1>6, <1>7 DEF Next

\* An action that sets the rows and the objects of S advances S.
LEMMA MoveAdvances ==
  ASSUME IInv, NEW r \in Runners, NEW S \in SUBSET Events,
         NEW s \in States \ {"absent", "pending"}, NEW p \in Phases,
         \A e \in S : phase[r][e] \in Working \ {"inited"},
         SetState(S, s), SetPhase(r, S, p),
         p \in Working \/ (p = "done" /\ s \in Ended),
         \/ UNCHANGED reactions
         \/ /\ S # {}
            /\ \A e \in S : phase[r][e] = "reacting"
            /\ reactions' = [e \in Events |->
                                IF e \in S THEN reactions[e] + 1 ELSE reactions[e]]
  PROVE  Advance(r, S)
  <1>1. /\ \A q \in Runners : \A e \in Events :
              q # r \/ e \notin S => phase'[q][e] = phase[q][e]
        /\ \A e \in S : phase'[r][e] = p
    <2>1. phase' = [phase EXCEPT ![r] =
                       [e \in Events |-> IF e \in S THEN p ELSE phase[r][e]]]
      BY DEF SetPhase
    <2>2. phase \in [Runners -> [Events -> Phases]]
      BY DEF IInv, TypeOK
    <2> QED BY ONLY <2>1, <2>2, r \in Runners, S \in SUBSET Events
  <1>2. /\ \A e \in Events \ S : state'[e] = state[e]
        /\ \A e \in S : state'[e] = s
    BY SetStateFacts DEF IInv
  <1> QED
    BY <1>1, <1>2 DEF Advance

\* A validated unit advances: nobody's flag was set before.
LEMMA ValidatedAdvances ==
  ASSUME IInv, SeenInv, NEW r \in Runners, NEW e \in Events, Validated(r, e)
  PROVE  Advance(r, Unit(r, e, {"validating"}))
  <1> DEFINE U == Unit(r, e, {"validating"})
             Known == {f \in U : KnownValid(seen[r][f]) \/ KnownInvalid(seen[r][f])}
  <1>1. U \in SUBSET Events /\ \A f \in U : phase[r][f] = "validating"
    BY UnitFacts
  <1>2. Known = {}
    BY <1>1 DEF SeenInv, KnownValid, KnownInvalid
  <1>3. PICK verdict \in [U \ Known -> {"valid", "invalid", "error"}] :
          /\ state' = [f \in Events |->
                          IF f \in U \ Known THEN verdict[f] ELSE state[f]]
          /\ phase' = [phase EXCEPT ![r] = [f \in Events |->
                IF f \notin U THEN phase[r][f]
                ELSE IF f \in Known
                     THEN IF KnownValid(seen[r][f]) THEN "valid" ELSE "done"
                     ELSE IF verdict[f] = "valid" THEN "valid" ELSE "done"]]
    BY DEF Validated
  <1>4. UNCHANGED reactions
    BY DEF Validated
  <1> HIDE DEF U, Known
  <1>5. \A f \in U : verdict[f] \in {"valid", "invalid", "error"}
    BY <1>2
  <1>6. /\ \A f \in Events \ U : state'[f] = state[f]
        /\ \A f \in U : state'[f] = verdict[f]
    BY <1>1, <1>2, <1>3
  <1>7. /\ \A q \in Runners : \A f \in Events :
              q # r \/ f \notin U => phase'[q][f] = phase[q][f]
        /\ \A f \in U : phase'[r][f] = IF verdict[f] = "valid" THEN "valid" ELSE "done"
    BY <1>1, <1>2, <1>3 DEF IInv, TypeOK
  <1>8. Advance(r, U)
    BY <1>1, <1>4, <1>5, <1>6, <1>7 DEF Advance, Working, Phases, Ended
  <1> QED
    BY <1>8 DEF U

\* Every step of the service but the first two advances the unit it works on.
LEMMA ProcessAdvances ==
  ASSUME TriggerAssumption, IInv, SeenInv, NEW r \in Runners, NEW e \in Events,
         Process(r, e), ~ ReadEvent(r, e), ~ MarkFound(r, e)
  PROVE  \E S \in SUBSET Events : Advance(r, S)
  <1> DEFINE Moves(S, s, p) == /\ S \in SUBSET Events
                               /\ \A f \in S : phase[r][f] \in Working \ {"inited"}
                               /\ SetState(S, s) /\ SetPhase(r, S, p)
             EE == {e}
             U(P) == Unit(r, e, P)
             On == {"collecting", "gathered", "bare", "validating", "valid",
                    "reacting", "reacted", "cleaning"}
             Rows == {"invalid", "collecting", "collected", "error",
                      "validating", "reacting", "reacted", "cleaning", "complete"}
  <1>p. /\ On \subseteq Phases \cap Working /\ "done" \in Phases
        /\ Rows \subseteq States \ {"absent", "pending"}
        /\ {"invalid", "error", "complete"} \subseteq Ended
    BY DEF Phases, States, Working, Ended
  <1>m. ASSUME NEW S, NEW s \in Rows, NEW p \in On \cup {"done"},
               p = "done" => s \in Ended, Moves(S, s, p), UNCHANGED reactions
        PROVE  \E T \in SUBSET Events : Advance(r, T)
    <2> HIDE DEF On, Rows
    <2>1. /\ p \in Phases /\ s \in States \ {"absent", "pending"}
          /\ p \in Working \/ (p = "done" /\ s \in Ended)
      BY <1>m, <1>p
    <2>2. Advance(r, S)
      BY ONLY <1>m, <2>1, IInv, r \in Runners, MoveAdvances
    <2> QED BY <1>m, <2>2
  <1>u. ASSUME NEW P, \A p \in P : p \in Working \ {"inited"}
        PROVE  U(P) \in SUBSET Events /\ \A f \in U(P) : phase[r][f] \in Working \ {"inited"}
    BY <1>u, UnitFacts
  <1> HIDE DEF Moves, U
  <1>1. CASE TargetMissing(r, e)
    <2>1. Moves(EE, "invalid", "done") /\ UNCHANGED reactions
      BY <1>1 DEF TargetMissing, Working, Phases, Moves, U
    <2> QED BY <1>m, <1>p, <2>1
  <1>2. CASE BuildEnvironment(r, e)
    <2>1. Moves(EE, "collecting", "collecting") /\ UNCHANGED reactions
      BY <1>2 DEF BuildEnvironment, Working, Phases, Moves, U
    <2> QED BY <1>m, <1>p, <2>1
  <1>3. CASE EnvironmentBuilt(r, e)
    <2>1. /\ \/ Moves(EE, "collected", "gathered")
             \/ Moves(EE, "error", "bare") \/ Moves(EE, "error", "done")
          /\ UNCHANGED reactions
      BY <1>3 DEF EnvironmentBuilt, Working, Phases, Moves, U
    <2> QED BY <1>m, <1>p, <2>1
  <1>4. CASE Ungroupable(r, e)
    <2>1. Moves(EE, "invalid", "done") /\ UNCHANGED reactions
      BY <1>4 DEF Ungroupable, Working, Phases, Moves, U
    <2> QED BY <1>m, <1>p, <2>1
  <1>5. CASE StartValidating(r, e)
    <2>1. Moves(U({"gathered", "bare"}), "validating", "validating")
      BY <1>5, <1>u DEF StartValidating, Working, Phases, Moves, U
    <2> QED BY <1>5, <1>m, <1>p, <2>1 DEF StartValidating
  <1>6. CASE Validated(r, e)
    BY <1>6, UnitFacts, ValidatedAdvances
  <1>7. CASE StartReacting(r, e)
    <2>1. Moves(U({"valid"}), "reacting", "reacting")
      BY <1>7, <1>u DEF StartReacting, Working, Phases, Moves, U
    <2> QED BY <1>7, <1>m, <1>p, <2>1 DEF StartReacting
  <1>8. CASE Reacted(r, e)
    <2> DEFINE R == U({"reacting"})
    <2>1. R # {} /\ \A f \in R : phase[r][f] = "reacting"
      BY <1>8, UnitFacts DEF Reacted, U
    <2>2. /\ Moves(R, "reacted", "reacted") \/ Moves(R, "error", "done")
          /\ reactions' = [f \in Events |->
                              IF f \in R THEN reactions[f] + 1 ELSE reactions[f]]
      BY <1>8, <1>u DEF Reacted, Working, Phases, Moves, U
    <2> HIDE DEF R
    <2>3. Advance(r, R)
      <3>0. /\ "reacted" \in Phases /\ "reacted" \in Working /\ "done" \in Phases
            /\ {"reacted", "error"} \subseteq States \ {"absent", "pending"}
            /\ "error" \in Ended
        BY DEF Phases, Working, States, Ended
      <3>1. CASE Moves(R, "reacted", "reacted")
        BY ONLY <3>0, <2>1, <2>2, <3>1, IInv, r \in Runners, MoveAdvances DEF Moves
      <3>2. CASE Moves(R, "error", "done")
        BY ONLY <3>0, <2>1, <2>2, <3>2, IInv, r \in Runners, MoveAdvances DEF Moves
      <3> QED BY <2>2, <3>1, <3>2
    <2> QED BY <2>2, <2>3 DEF Moves
  <1>9. CASE StartCleanup(r, e)
    <2>1. Moves(U({"reacted"}), "cleaning", "cleaning")
      BY <1>9, <1>u DEF StartCleanup, Working, Phases, Moves, U
    <2> QED BY <1>9, <1>m, <1>p, <2>1 DEF StartCleanup
  <1>10. CASE CleanedUp(r, e)
    <2>1. \E s \in {"complete", "error"} : Moves(U({"cleaning"}), s, "done")
      BY <1>10, <1>u DEF CleanedUp, Working, Phases, Moves, U
    <2> QED BY <1>10, <1>m, <1>p, <2>1 DEF CleanedUp
  <1> QED
    BY <1>1, <1>2, <1>3, <1>4, <1>5, <1>6, <1>7, <1>8, <1>9, <1>10 DEF Process

\* A crash and a failed update let go of events.
LEMMA FailureLetsGo ==
  ASSUME TriggerAssumption, IInv, NEW r \in Runners,
         Crash(r) \/ \E e \in Events : UpdateFails(r, e)
  PROVE  LetGo(r) /\ failures' = failures + 1
  <1>1. CASE Crash(r)
    BY <1>1 DEF Crash, SetPhase, IInv, TypeOK, LetGo
  <1>2. ASSUME NEW e \in Events, UpdateFails(r, e)
        PROVE  LetGo(r) /\ failures' = failures + 1
    <2>1. PICK S \in SUBSET Events : SetPhase(r, S, "done")
      BY <1>2, UnitFacts DEF UpdateFails
    <2>2. \A q \in Runners : \A f \in Events :
             \/ phase'[q][f] = phase[q][f]
             \/ q = r /\ phase'[q][f] = "done"
      BY <2>1, SetPhaseFacts, "done" \in Phases DEF IInv, Phases
    <2> QED BY <1>2, <2>2 DEF UpdateFails, LetGo
  <1> QED BY <1>1, <1>2

\* The script lets go of what is done, if anything.
LEMMA ScriptLetsGo ==
  ASSUME TriggerAssumption, IInv, NEW r \in Runners, Script(r)
  PROVE  /\ LetGo(r)
         /\ \A q \in Runners : \A e \in Events :
               phase'[q][e] # phase[q][e] => phase[q][e] = "done"
         /\ UNCHANGED failures
  <1>1. CASE Finish(r)
    BY <1>1 DEF Finish, SetPhase, IInv, TypeOK, LetGo
  <1>2. CASE ~ Finish(r)
    BY <1>2 DEF Script, CheckLock, SetLock, ListPending, EndGather, ReleaseLock, LetGo
  <1> QED BY <1>1, <1>2

\* As long as nothing fails, no row is left half way: the step relation, case
\* by case.
LEMMA StrandedStep ==
  ASSUME TriggerAssumption, IInv, SeenInv, NothingStranded, [Next]_vars
  PROVE  NothingStranded'
  <1> SUFFICES ASSUME failures' = 0, NEW e \in Events,
                      state'[e] \notin {"absent", "pending"} \cup Ended
               PROVE  \E r \in Runners : phase'[r][e] \in Working
    BY DEF NothingStranded, Ended
  <1>0. failures = 0 =>
           \/ state[e] \in {"absent", "pending"} \cup Ended
           \/ \E r \in Runners : phase[r][e] \in Working
    BY DEF NothingStranded, Ended
  <1>1. ASSUME NEW f \in Events, CreateEvent(f)
        PROVE  \E r \in Runners : phase'[r][e] \in Working
    BY <1>0, <1>1 DEF CreateEvent, SetState, IInv, TypeOK
  <1>2. CASE UNCHANGED vars
    BY <1>0, <1>2 DEF vars
  <1>3. ASSUME NEW r \in Runners, Script(r)
        PROVE  \E q \in Runners : phase'[q][e] \in Working
    <2>1. PICK q \in Runners : phase[q][e] \in Working
      BY <1>0, <1>3, ScriptLetsGo DEF LetGo
    <2>2. phase'[q][e] = phase[q][e]
      BY <1>3, <2>1, ScriptLetsGo DEF Working
    <2> QED BY <2>1, <2>2
  <1>4. ASSUME NEW r \in Runners, Crash(r) \/ \E f \in Events : UpdateFails(r, f)
        PROVE  FALSE
    BY <1>4, FailureLetsGo DEF IInv, TypeOK
  <1>5. ASSUME NEW r \in Runners, NEW f \in Events, Process(r, f)
        PROVE  \E q \in Runners : phase'[q][e] \in Working
    <2>0. failures = 0
      BY <1>5 DEF Process, ReadEvent, MarkFound, TargetMissing, BuildEnvironment,
                  EnvironmentBuilt, Ungroupable, StartValidating, Validated,
                  StartReacting, Reacted, StartCleanup, CleanedUp
    <2>1. CASE ReadEvent(r, f)
      <3>1. /\ state' = state
            /\ \A q \in Runners : \A g \in Events :
                  q # r \/ g # f => phase'[q][g] = phase[q][g]
            /\ state[f] = "pending"
        BY <2>1 DEF ReadEvent, SetPhase, IInv, TypeOK, HoldInv
      <3> QED BY <1>0, <2>0, <3>1
    <2>2. CASE MarkFound(r, f)
      <3>1. /\ \A g \in Events : g # f => state'[g] = state[g]
            /\ \A q \in Runners : \A g \in Events :
                  q # r \/ g # f => phase'[q][g] = phase[q][g]
            /\ phase'[r][f] = "found"
        BY <2>2 DEF MarkFound, SetState, SetPhase, IInv, TypeOK
      <3>2. "found" \in Working
        BY DEF Working, Phases
      <3> QED BY <1>0, <2>0, <3>1, <3>2
    <2>3. CASE ~ ReadEvent(r, f) /\ ~ MarkFound(r, f)
      <3>1. PICK S \in SUBSET Events : Advance(r, S)
        BY <1>5, <2>3, ProcessAdvances
      <3>2. CASE e \in S
        BY <3>1, <3>2 DEF Advance
      <3>3. CASE e \notin S
        BY <1>0, <2>0, <3>1, <3>3 DEF Advance
      <3> QED BY <3>2, <3>3
    <2> QED BY <2>1, <2>2, <2>3
  <1> QED
    BY <1>1, <1>2, <1>3, <1>4, <1>5 DEF Next

\* As long as nothing fails, every event that left "pending" is complete,
\* invalid, in error, or in the hands of a runner.
THEOREM NoneStranded ==
  ASSUME TriggerAssumption PROVE Spec => []NothingStranded
  <1>1. Init => SeenInv /\ NothingStranded
    BY DEF Init, SeenInv, NothingStranded
  <1>2. IInv /\ SeenInv /\ NothingStranded /\ [Next]_vars
           => SeenInv' /\ NothingStranded'
    BY SeenKept, StrandedStep
  <1> QED
    BY <1>1, <1>2, Invariance, PTL DEF Spec

-----------------------------------------------------------------------------
(* The refinement: each step maps to a step of EventLifecycle or stutters. *)

\* Whether an invocation holds e, which is what Status depends on.
Held(e) == \E r \in Runners : phase[r][e] \in Working

\* The status of an event, row and holders given.
LEMMA StatusFacts ==
  ASSUME NEW e \in Events
  PROVE  /\ state[e] = "absent" => Status[e] = "absent"
         /\ state[e] = "pending" => Status[e] = "waiting"
         /\ state[e] \notin {"absent", "pending"} /\ Held(e) => Status[e] = "taken"
         /\ state[e] \notin {"absent", "pending"} /\ ~ Held(e)
               => Status[e] = IF state[e] \in Ended THEN "closed" ELSE "abandoned"
  BY DEF Status, Held, Ended

\* The same after a step.
LEMMA StatusFactsNext ==
  ASSUME NEW e \in Events
  PROVE  /\ state'[e] = "absent" => Status'[e] = "absent"
         /\ state'[e] = "pending" => Status'[e] = "waiting"
         /\ state'[e] \notin {"absent", "pending"} /\ Held(e)' => Status'[e] = "taken"
         /\ state'[e] \notin {"absent", "pending"} /\ ~ Held(e)'
               => Status'[e] = IF state'[e] \in Ended THEN "closed" ELSE "abandoned"
  BY DEF Status, Held, Ended

\* An event whose row and holders a step leaves alone keeps its status.
LEMMA StatusKept ==
  ASSUME NEW e \in Events, state'[e] = state[e],
         state[e] \in {"absent", "pending"} \/ (Held(e)' <=> Held(e))
  PROVE  Status'[e] = Status[e]
  BY StatusFacts, StatusFactsNext

\* Status is a function on the events, before and after a step.
LEMMA StatusFunction ==
  /\ Status = [e \in Events |-> Status[e]]
  /\ Status' = [e \in Events |-> Status'[e]]
  BY DEF Status

\* A step that only ends the hold on the events of S is a Leave, or stutters.
LEMMA LeaveStep ==
  ASSUME NEW S \in SUBSET Events, UNCHANGED reactions,
         \A e \in S : Status[e] = "taken" /\ Status'[e] \in {"closed", "abandoned"},
         \A e \in Events \ S : Status'[e] = Status[e]
  PROVE  [Life!LifeNext]_(Life!lifeVars)
  <1>1. CASE S = {}
    <2>1. \A e \in Events : Status'[e] = Status[e]
      BY <1>1
    <2>2. Status' = Status
      BY <2>1, StatusFunction
    <2> QED BY <2>2 DEF Life!lifeVars
  <1>2. CASE S # {}
    <2> DEFINE outcome == [e \in S |-> Status'[e]]
    <2>1. outcome \in [S -> {"closed", "abandoned"}]
      OBVIOUS
    <2>2. \A e \in Events :
             Status'[e] = IF e \in S THEN outcome[e] ELSE Status[e]
      OBVIOUS
    <2> HIDE DEF outcome
    <2>3. Status' = [e \in Events |-> IF e \in S THEN outcome[e] ELSE Status[e]]
      BY ONLY <2>2, StatusFunction
    <2>4. Life!Leave(S)
      BY <1>2, <2>1, <2>3 DEF Life!Leave
    <2> QED BY <2>4 DEF Life!LifeNext
  <1> QED BY <1>1, <1>2

\* Letting go of events is a Leave of those whose rows were claimed.
LEMMA LetGoStep ==
  ASSUME TriggerAssumption, IInv, NEW r \in Runners, LetGo(r)
  PROVE  [Life!LifeNext]_(Life!lifeVars)
  <1> DEFINE S == {e \in Events : /\ phase[r][e] \in Working \ {"inited"}
                                  /\ phase'[r][e] \notin Working}
  <1>1. \A e \in S : Status[e] = "taken" /\ Status'[e] \in {"closed", "abandoned"}
    <2> SUFFICES ASSUME NEW e \in S
                 PROVE  Status[e] = "taken" /\ Status'[e] \in {"closed", "abandoned"}
      OBVIOUS
    <2>1. state[e] \notin {"absent", "pending"} /\ state' = state
      BY DEF IInv, HoldInv, LetGo
    <2>2. Held(e)
      BY DEF Held
    <2>3. ~ Held(e)'
      BY DEF LetGo, IInv, ClaimInv, Holds, Held
    <2> QED BY <2>1, <2>2, <2>3, StatusFacts, StatusFactsNext
  <1>2. \A e \in Events \ S : Status'[e] = Status[e]
    <2> SUFFICES ASSUME NEW e \in Events \ S PROVE Status'[e] = Status[e]
      OBVIOUS
    <2>1. CASE phase[r][e] = "inited"
      BY <2>1, StatusKept DEF LetGo, IInv, HoldInv
    <2>2. CASE phase[r][e] # "inited"
      <3>1. Held(e)' <=> Held(e)
        BY <2>2 DEF LetGo, Held, Working
      <3> QED BY <3>1, StatusKept DEF LetGo
    <2> QED BY <2>1, <2>2
  <1>3. S \in SUBSET Events /\ UNCHANGED reactions
    BY DEF LetGo
  <1> QED
    BY <1>1, <1>2, <1>3, LeaveStep

\* Advancing events is a React of them, a Leave of those that are through, or
\* a stutter.
LEMMA AdvanceStep ==
  ASSUME TriggerAssumption, IInv, NEW r \in Runners, NEW S \in SUBSET Events,
         Advance(r, S)
  PROVE  [Life!LifeNext]_(Life!lifeVars)
  <1> DEFINE D == {e \in S : phase'[r][e] = "done"}
  <1>1. \A e \in Events \ S : Status'[e] = Status[e]
    <2> SUFFICES ASSUME NEW e \in Events \ S PROVE Status'[e] = Status[e]
      OBVIOUS
    <2>1. Held(e)' <=> Held(e)
      BY DEF Advance, Held
    <2> QED BY <2>1, StatusKept DEF Advance
  <1>2. \A e \in S : Status[e] = "taken"
    <2> SUFFICES ASSUME NEW e \in S PROVE Status[e] = "taken"
      OBVIOUS
    <2>1. Held(e) /\ state[e] \notin {"absent", "pending"}
      BY DEF Advance, Held, IInv, HoldInv
    <2> QED BY <2>1, StatusFacts
  <1>3. \A e \in S \ D : Status'[e] = "taken"
    <2> SUFFICES ASSUME NEW e \in S \ D PROVE Status'[e] = "taken"
      OBVIOUS
    <2>1. Held(e)' /\ state'[e] \notin {"absent", "pending"}
      BY DEF Advance, Held
    <2> QED BY <2>1, StatusFactsNext
  <1>4. \A e \in D : Status'[e] = "closed"
    <2> SUFFICES ASSUME NEW e \in D PROVE Status'[e] = "closed"
      OBVIOUS
    <2>1. state'[e] \in Ended
      BY DEF Advance, Working
    <2>2. \A q \in Runners : q # r => phase[q][e] \notin Working
      BY DEF Advance, IInv, ClaimInv, Holds
    <2>3. ~ Held(e)'
      BY <2>2 DEF Advance, Held, Working
    <2> QED BY <2>1, <2>3, StatusFactsNext DEF Ended
  <1>5. CASE UNCHANGED reactions
    <2>1. \A e \in Events \ D : Status'[e] = Status[e]
      BY <1>1, <1>2, <1>3
    <2> HIDE DEF D
    <2>2. \A e \in D : Status[e] = "taken" /\ Status'[e] \in {"closed", "abandoned"}
      BY <1>2, <1>4 DEF D
    <2>3. D \in SUBSET Events
      BY DEF D
    <2> QED BY <1>5, <2>1, <2>2, <2>3, LeaveStep
  <1>6. CASE ~ UNCHANGED reactions
    <2>1. /\ S # {}
          /\ \A e \in S : phase[r][e] = "reacting"
          /\ reactions' = [e \in Events |->
                              IF e \in S THEN reactions[e] + 1 ELSE reactions[e]]
          /\ \/ \A e \in S : phase'[r][e] \in Working
             \/ \A e \in S : phase'[r][e] = "done"
      BY <1>6 DEF Advance
    <2>2. \A e \in S : reactions[e] = 0
      BY <2>1 DEF IInv, ReactInv, Before
    <2>3. reactions' = [e \in Events |-> IF e \in S THEN 1 ELSE reactions[e]]
      BY <2>1, <2>2
    <2>4. D = {} \/ D = S
      BY <2>1 DEF Working
    <2>5. UNCHANGED Status
          \/ Status' = [e \in Events |-> IF e \in S THEN "closed" ELSE Status[e]]
      <3>1. CASE D = {}
        <4>1. \A e \in Events : Status'[e] = Status[e]
          BY <1>1, <1>2, <1>3, <3>1
        <4> QED BY ONLY <4>1, StatusFunction
      <3>2. CASE D = S
        <4>1. \A e \in Events :
                 Status'[e] = IF e \in S THEN "closed" ELSE Status[e]
          BY <1>1, <1>4, <3>2
        <4> QED BY ONLY <4>1, StatusFunction
      <3> QED BY <2>4, <3>1, <3>2
    <2>6. Life!React(S)
      BY <1>2, <2>1, <2>2, <2>3, <2>5 DEF Life!React
    <2> QED BY <2>6 DEF Life!LifeNext
  <1> QED BY <1>5, <1>6

\* Creating an event is Create.
LEMMA CreateStep ==
  ASSUME TriggerAssumption, IInv, NEW e \in Events, CreateEvent(e)
  PROVE  Life!Create(e)
  <1>1. /\ \A f \in Events \ {e} : state'[f] = state[f]
        /\ state[e] = "absent" /\ state'[e] = "pending"
        /\ UNCHANGED <<phase, reactions>>
    BY DEF CreateEvent, SetState
  <1>2. \A f \in Events \ {e} : Status'[f] = Status[f]
    <2> SUFFICES ASSUME NEW f \in Events \ {e} PROVE Status'[f] = Status[f]
      OBVIOUS
    <2>1. Held(f)' <=> Held(f)
      BY <1>1 DEF Held
    <2> QED BY <1>1, <2>1, StatusKept
  <1>3. Status[e] = "absent" /\ Status'[e] = "waiting"
    BY <1>1, StatusFacts, StatusFactsNext
  <1>4. Status' = [Status EXCEPT ![e] = "waiting"]
    BY <1>2, <1>3, StatusFunction
  <1> QED
    BY <1>1, <1>3, <1>4 DEF Life!Create

\* Marking an event "found" is Take.
LEMMA TakeStep ==
  ASSUME TriggerAssumption, IInv, NEW r \in Runners, NEW e \in Events,
         MarkFound(r, e)
  PROVE  Life!Take(e)
  <1>1. /\ \A f \in Events \ {e} :
              state'[f] = state[f] /\ \A q \in Runners : phase'[q][f] = phase[q][f]
        /\ state[e] = "pending" /\ state'[e] = "found"
        /\ phase'[r][e] = "found"
        /\ UNCHANGED reactions
    BY DEF MarkFound, SetState, SetPhase, IInv, TypeOK, HoldInv
  <1>2. \A f \in Events \ {e} : Status'[f] = Status[f]
    <2> SUFFICES ASSUME NEW f \in Events \ {e} PROVE Status'[f] = Status[f]
      OBVIOUS
    <2>1. Held(f)' <=> Held(f)
      BY <1>1 DEF Held
    <2> QED BY <1>1, <2>1, StatusKept
  <1>3. Held(e)'
    BY <1>1 DEF Held, Working, Phases
  <1>4. Status[e] = "waiting" /\ Status'[e] = "taken"
    BY <1>1, <1>3, StatusFacts, StatusFactsNext
  <1>5. Status' = [Status EXCEPT ![e] = "taken"]
    BY <1>2, <1>4, StatusFunction
  <1> QED
    BY <1>1, <1>4, <1>5 DEF Life!Take

\* Every step of the runners maps to a step of EventLifecycle, or to none.
LEMMA LifecycleStep ==
  ASSUME TriggerAssumption, IInv, SeenInv, [Next]_vars
  PROVE  [Life!LifeNext]_(Life!lifeVars)
  <1>1. ASSUME NEW e \in Events, CreateEvent(e)
        PROVE  [Life!LifeNext]_(Life!lifeVars)
    BY <1>1, CreateStep DEF Life!LifeNext
  <1>2. CASE UNCHANGED vars
    BY <1>2 DEF vars, Life!lifeVars, Status
  <1>3. ASSUME NEW r \in Runners, Script(r) \/ Crash(r) \/ \E e \in Events : UpdateFails(r, e)
        PROVE  [Life!LifeNext]_(Life!lifeVars)
    BY <1>3, ScriptLetsGo, FailureLetsGo, LetGoStep
  <1>4. ASSUME NEW r \in Runners, NEW e \in Events, Process(r, e)
        PROVE  [Life!LifeNext]_(Life!lifeVars)
    <2>1. CASE ReadEvent(r, e)
      <3>1. /\ UNCHANGED <<state, reactions>>
            /\ \A q \in Runners : \A f \in Events :
                  q # r \/ f # e => phase'[q][f] = phase[q][f]
            /\ state[e] = "pending"
        BY <2>1 DEF ReadEvent, SetPhase, IInv, TypeOK, HoldInv
      <3>2. ASSUME NEW f \in Events PROVE Status'[f] = Status[f]
        <4>1. CASE f = e
          BY <3>1, <4>1, StatusKept
        <4>2. CASE f # e
          <5>1. Held(f)' <=> Held(f)
            BY <3>1, <4>2 DEF Held
          <5> QED BY <3>1, <5>1, StatusKept
        <4> QED BY <4>1, <4>2
      <3>3. Status' = Status
        BY <3>2, StatusFunction
      <3> QED BY <3>1, <3>3 DEF Life!lifeVars
    <2>2. CASE MarkFound(r, e)
      BY <2>2, TakeStep DEF Life!LifeNext
    <2>3. CASE ~ ReadEvent(r, e) /\ ~ MarkFound(r, e)
      BY <1>4, <2>3, ProcessAdvances, AdvanceStep
    <2> QED BY <2>1, <2>2, <2>3
  <1> QED
    BY <1>1, <1>2, <1>3, <1>4 DEF Next

\* TriggerRunner implements EventLifecycle: a run takes an event once, reacts
\* to it at most once and only while it holds it, and what was closed or
\* abandoned is never taken up again.
THEOREM LifecycleKept ==
  ASSUME TriggerAssumption PROVE Spec => ImplementsLifecycle
  <1>1. Init => Life!LifeInit
    BY DEF Init, Life!LifeInit, Status
  <1>2. Init => SeenInv
    BY DEF Init, SeenInv
  <1>3. IInv /\ SeenInv /\ [Next]_vars => SeenInv'
    BY SeenKept
  <1>4. IInv /\ SeenInv /\ [Next]_vars => [Life!LifeNext]_(Life!lifeVars)
    BY LifecycleStep
  <1> QED
    BY <1>1, <1>2, <1>3, <1>4, Invariance, PTL
       DEF Spec, ImplementsLifecycle, Life!LifeSpec
=============================================================================
