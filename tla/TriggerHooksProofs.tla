-------------------------- MODULE TriggerHooksProofs --------------------------
(***************************************************************************)
(* Batch event creation never makes two events of one definition for one   *)
(* object, for any number of scripts, labels, definitions and objects, if  *)
(* every definition is worked on under one lock file, until a script gives *)
(* up waiting.                                                             *)
(***************************************************************************)
EXTENDS TriggerHooks, TLAPS

\* A script that has set its lock, and a transaction it asked for, have the
\* label's lock file to themselves.
LockInv ==
    \A s \in Scripts :
        /\ script[s] \in {"locked", "waiting"} \/ job[s] = "open"
              => lockfile[Label[s]] = s
        /\ script[s] = "starting" =>
              /\ lockfile[Label[s]] = NoScript
              /\ \A q \in Scripts :
                    Label[q] = Label[s] /\ script[q] = "starting" => q = s

\* What a transaction holds: only its own definitions, and nothing before the
\* request and after the end.
JobInv ==
    \A s \in Scripts :
        /\ todo[s] \subseteq DefinitionsFor(s)
        /\ made[s] \subseteq DefinitionsFor(s) \X Targets
        /\ job[s] = "none" => made[s] = {}
        /\ script[s] \in {"starting", "locked"} => job[s] = "none"

\* What a transaction has created has still no committed event.
FreshInv ==
    \A s \in Scripts, d \in Definitions, t \in Targets :
        <<d, t>> \in made[s] => events[d][t] = 0

\* Until a script gives up waiting, all of that holds.
Untimed == TypeOK /\ LockInv /\ JobInv /\ FreshInv /\ Once

IInv == TypeOK /\ JobInv /\ (timeouts = 0 => Untimed)

\* Two open transactions for one definition are one and the same.
LEMMA OneJob ==
    ASSUME Separate, LockInv, TypeOK,
           NEW q \in Scripts, NEW s \in Scripts,
           job[q] = "open", job[s] = "open",
           NEW d, d \in DefinitionsFor(q), d \in DefinitionsFor(s)
    PROVE  q = s
<1>1. Label[q] = Label[s]
  BY DEF Separate
<1>2. lockfile[Label[q]] = q /\ lockfile[Label[s]] = s
  BY DEF LockInv
<1>3. QED
  BY <1>1, <1>2

LEMMA InitIInv == Init => IInv
<1>1. ASSUME Init PROVE TypeOK
  BY <1>1, HooksAssumption DEF Init, TypeOK
<1>2. ASSUME Init PROVE LockInv
  BY <1>2 DEF Init, LockInv
<1>3. ASSUME Init PROVE JobInv
  BY <1>3 DEF Init, JobInv
<1>4. ASSUME Init PROVE FreshInv
  BY <1>4 DEF Init, FreshInv
<1>5. ASSUME Init PROVE Once
  BY <1>5 DEF Init, Once
<1>6. QED
  BY <1>1, <1>2, <1>3, <1>4, <1>5 DEF IInv, Untimed

-----------------------------------------------------------------------------
(* Types, step by step.                                                    *)

LEMMA LabelOf == \A s \in Scripts : Label[s] \in Labels
BY DEF Labels

LEMMA TypeStep == TypeOK /\ [Next]_vars => TypeOK'
<1> SUFFICES ASSUME TypeOK, [Next]_vars PROVE TypeOK'
  OBVIOUS
<1> USE LabelOf
<1>1. ASSUME NEW d \in Definitions, NEW t \in Targets, BecomeDue(d, t) PROVE TypeOK'
  BY <1>1 DEF TypeOK, BecomeDue
<1>2. ASSUME NEW s \in Scripts, CheckLock(s) PROVE TypeOK'
  BY <1>2 DEF TypeOK, CheckLock
<1>3. ASSUME NEW s \in Scripts, SetLock(s) PROVE TypeOK'
  BY <1>3 DEF TypeOK, SetLock
<1>4. ASSUME NEW s \in Scripts, Request(s) PROVE TypeOK'
  BY <1>4 DEF TypeOK, Request, DefinitionsFor
<1>5. ASSUME NEW s \in Scripts, Finish(s) PROVE TypeOK'
  BY <1>5 DEF TypeOK, Finish, Unlock
<1>6. ASSUME NEW s \in Scripts, TimeOut(s) PROVE TypeOK'
  BY <1>6, HooksAssumption DEF TypeOK, TimeOut, Unlock
<1>7. ASSUME NEW s \in Scripts, NEW d \in Definitions, Collect(s, d) PROVE TypeOK'
  BY <1>7 DEF TypeOK, Collect, Found, FilterFor, Unnoticed
<1>8. ASSUME NEW s \in Scripts, Commit(s) PROVE TypeOK'
  BY <1>8 DEF TypeOK, Commit, Close
<1>9. ASSUME NEW s \in Scripts, JobDies(s) PROVE TypeOK'
  BY <1>9, HooksAssumption DEF TypeOK, JobDies, Close
<1>10. ASSUME NEW s \in Scripts, ScriptDies(s) PROVE TypeOK'
  BY <1>10, HooksAssumption DEF TypeOK, ScriptDies
<1>11. ASSUME UNCHANGED vars PROVE TypeOK'
  BY <1>11 DEF TypeOK, vars
<1>12. QED
  BY <1>1, <1>2, <1>3, <1>4, <1>5, <1>6, <1>7, <1>8, <1>9, <1>10, <1>11
  DEF Next, Script, Service

-----------------------------------------------------------------------------
(* The lock file.                                                          *)

LEMMA LockStep ==
    TypeOK /\ LockInv /\ JobInv /\ [Next]_vars /\ timeouts' = 0 => LockInv'
<1> SUFFICES ASSUME TypeOK, LockInv, JobInv, [Next]_vars, timeouts' = 0
             PROVE  LockInv'
  OBVIOUS
<1> USE LabelOf, HooksAssumption
<1>1. ASSUME NEW d \in Definitions, NEW t \in Targets, BecomeDue(d, t) PROVE LockInv'
  BY <1>1 DEF LockInv, BecomeDue
<1>2. ASSUME NEW s \in Scripts, CheckLock(s) PROVE LockInv'
  BY <1>2 DEF TypeOK, LockInv, CheckLock
<1>3. ASSUME NEW s \in Scripts, SetLock(s) PROVE LockInv'
  BY <1>3 DEF TypeOK, LockInv, SetLock
<1>4. ASSUME NEW s \in Scripts, Request(s) PROVE LockInv'
  BY <1>4 DEF TypeOK, LockInv, Request
<1>5. ASSUME NEW s \in Scripts, Finish(s) PROVE LockInv'
  BY <1>5 DEF TypeOK, LockInv, Finish, Unlock
<1>6. ASSUME NEW s \in Scripts, TimeOut(s) PROVE LockInv'
  BY <1>6 DEF TypeOK, TimeOut
<1>7. ASSUME NEW s \in Scripts, NEW d \in Definitions, Collect(s, d) PROVE LockInv'
  BY <1>7 DEF LockInv, Collect
<1>8. ASSUME NEW s \in Scripts, Commit(s) PROVE LockInv'
  BY <1>8 DEF TypeOK, LockInv, Commit, Close
<1>9. ASSUME NEW s \in Scripts, JobDies(s) PROVE LockInv'
  BY <1>9 DEF TypeOK, LockInv, JobDies, Close
<1>10. ASSUME NEW s \in Scripts, ScriptDies(s) PROVE LockInv'
  BY <1>10 DEF TypeOK, LockInv, ScriptDies
<1>11. ASSUME UNCHANGED vars PROVE LockInv'
  BY <1>11 DEF LockInv, vars
<1>12. QED
  BY <1>1, <1>2, <1>3, <1>4, <1>5, <1>6, <1>7, <1>8, <1>9, <1>10, <1>11
  DEF Next, Script, Service

-----------------------------------------------------------------------------
(* The transactions.                                                       *)

LEMMA JobStep == TypeOK /\ JobInv /\ [Next]_vars => JobInv'
<1> SUFFICES ASSUME TypeOK, JobInv, [Next]_vars PROVE JobInv'
  OBVIOUS
<1>1. ASSUME NEW d \in Definitions, NEW t \in Targets, BecomeDue(d, t) PROVE JobInv'
  BY <1>1 DEF JobInv, BecomeDue
<1>2. ASSUME NEW s \in Scripts, CheckLock(s) PROVE JobInv'
  BY <1>2 DEF TypeOK, JobInv, CheckLock
<1>3. ASSUME NEW s \in Scripts, SetLock(s) PROVE JobInv'
  BY <1>3 DEF TypeOK, JobInv, SetLock
<1>4. ASSUME NEW s \in Scripts, Request(s) PROVE JobInv'
  BY <1>4 DEF TypeOK, JobInv, Request
<1>5. ASSUME NEW s \in Scripts, Finish(s) PROVE JobInv'
  BY <1>5 DEF TypeOK, JobInv, Finish, Unlock
<1>6. ASSUME NEW s \in Scripts, TimeOut(s) PROVE JobInv'
  BY <1>6 DEF TypeOK, JobInv, TimeOut, Unlock
<1>7. ASSUME NEW s \in Scripts, NEW d \in Definitions, Collect(s, d) PROVE JobInv'
  <2>1. {d} \X Found(s, d) \subseteq DefinitionsFor(s) \X Targets
    BY <1>7 DEF TypeOK, JobInv, Collect, Found, Unnoticed
  <2>2. QED
    BY <1>7, <2>1 DEF TypeOK, JobInv, Collect
<1>8. ASSUME NEW s \in Scripts, Commit(s) PROVE JobInv'
  BY <1>8 DEF TypeOK, JobInv, Commit, Close
<1>9. ASSUME NEW s \in Scripts, JobDies(s) PROVE JobInv'
  BY <1>9 DEF TypeOK, JobInv, JobDies, Close
<1>10. ASSUME NEW s \in Scripts, ScriptDies(s) PROVE JobInv'
  BY <1>10 DEF TypeOK, JobInv, ScriptDies
<1>11. ASSUME UNCHANGED vars PROVE JobInv'
  BY <1>11 DEF JobInv, vars
<1>12. QED
  BY <1>1, <1>2, <1>3, <1>4, <1>5, <1>6, <1>7, <1>8, <1>9, <1>10, <1>11
  DEF Next, Script, Service

-----------------------------------------------------------------------------
(* The events.                                                             *)

LEMMA EventStep ==
    Separate /\ Untimed /\ [Next]_vars => FreshInv' /\ Once'
<1> SUFFICES ASSUME Separate, Untimed, [Next]_vars
             PROVE  FreshInv' /\ Once'
  OBVIOUS
<1>1. CASE UNCHANGED <<events, made>>
  BY <1>1 DEF Untimed, FreshInv, Once
<1>2. ASSUME NEW s \in Scripts, NEW d \in Definitions, Collect(s, d)
      PROVE  FreshInv' /\ Once'
  <2>1. UNCHANGED events
    BY <1>2 DEF Collect
  <2>2. ASSUME NEW q \in Scripts, NEW c \in Definitions, NEW t \in Targets,
               <<c, t>> \in made'[q]
        PROVE  events[c][t] = 0
    <3>1. CASE <<c, t>> \in made[q]
      BY <3>1 DEF Untimed, FreshInv
    <3>2. CASE <<c, t>> \notin made[q]
      BY <3>2, <2>2, <1>2 DEF Collect, Found, Unnoticed, Untimed, TypeOK
    <3>3. QED
      BY <3>1, <3>2
  <2>3. QED
    BY <2>1, <2>2 DEF FreshInv, Once, Untimed
<1>3. ASSUME NEW s \in Scripts, Commit(s)
      PROVE  FreshInv' /\ Once'
  <2>1. \A c \in Definitions, t \in Targets :
           events'[c][t] = IF <<c, t>> \in made[s] THEN events[c][t] + 1
                           ELSE events[c][t]
    BY <1>3 DEF Commit
  <2>2. Once'
    <3> SUFFICES ASSUME NEW c \in Definitions, NEW t \in Targets
                 PROVE  events'[c][t] <= 1
      BY DEF Once
    <3>1. CASE <<c, t>> \in made[s]
      <4>1. events[c][t] = 0
        BY <3>1 DEF Untimed, FreshInv
      <4>2. QED
        BY <3>1, <4>1, <2>1
    <3>2. CASE <<c, t>> \notin made[s]
      BY <3>2, <2>1 DEF Untimed, Once
    <3>3. QED
      BY <3>1, <3>2
  <2>3. ASSUME NEW q \in Scripts, NEW c \in Definitions, NEW t \in Targets,
               <<c, t>> \in made'[q]
        PROVE  events'[c][t] = 0
    <3>1. q # s /\ <<c, t>> \in made[q]
      BY <2>3, <1>3 DEF Commit, Close, Untimed, TypeOK
    <3>2. <<c, t>> \notin made[s]
      <4> SUFFICES ASSUME <<c, t>> \in made[s] PROVE FALSE
        OBVIOUS
      <4>1. job[q] = "open"
        BY <3>1 DEF Untimed, JobInv, TypeOK
      <4>2. job[s] = "open"
        BY <1>3 DEF Commit
      <4>3. c \in DefinitionsFor(q) /\ c \in DefinitionsFor(s)
        BY <3>1 DEF Untimed, JobInv
      <4>4. QED
        BY <3>1, <4>1, <4>2, <4>3, OneJob DEF Untimed
    <3>3. QED
      BY <3>1, <3>2, <2>1 DEF Untimed, FreshInv
  <2>4. QED
    BY <2>2, <2>3 DEF FreshInv
<1>4. ASSUME NEW s \in Scripts, JobDies(s)
      PROVE  FreshInv' /\ Once'
  BY <1>4 DEF JobDies, Close, Untimed, TypeOK, FreshInv, Once
<1>5. QED
  BY <1>1, <1>2, <1>3, <1>4
  DEF Next, Script, Service, BecomeDue, CheckLock, SetLock, Request, Finish,
      TimeOut, ScriptDies, vars

\* No step takes a time-out back.
LEMMA TimeoutsKept == TypeOK /\ [Next]_vars /\ timeouts' = 0 => timeouts = 0
<1> SUFFICES ASSUME TypeOK, [Next]_vars, timeouts' = 0 PROVE timeouts = 0
  OBVIOUS
<1>1. ASSUME NEW s \in Scripts, TimeOut(s) PROVE timeouts = 0
  BY <1>1 DEF TypeOK, TimeOut
<1>2. CASE UNCHANGED timeouts
  BY <1>2
<1>3. QED
  BY <1>1, <1>2
  DEF Next, Script, Service, BecomeDue, CheckLock, SetLock, Request, Finish,
      Collect, Commit, JobDies, ScriptDies, vars

LEMMA StepIInv == Separate /\ IInv /\ [Next]_vars => IInv'
<1> SUFFICES ASSUME Separate, IInv, [Next]_vars PROVE IInv'
  OBVIOUS
<1>1. TypeOK' /\ JobInv'
  BY TypeStep, JobStep DEF IInv
<1>2. ASSUME timeouts' = 0 PROVE Untimed'
  <2>1. Untimed
    BY <1>2, TimeoutsKept DEF IInv
  <2>2. QED
    BY <1>1, <1>2, <2>1, LockStep, EventStep DEF Untimed
<1>3. QED
  BY <1>1, <1>2 DEF IInv

-----------------------------------------------------------------------------
(* The theorems.                                                           *)

\* The model's variables keep their types.
THEOREM TypeCorrect == Spec => []TypeOK
<1>1. Init => TypeOK
  BY InitIInv DEF IInv
<1>2. QED
  BY <1>1, TypeStep, PTL DEF Spec

\* No object gets two events of one definition, whatever overlaps or dies, if
\* every definition has one lock file, as long as no script gives up waiting.
THEOREM NeverNoticedTwice ==
    ASSUME Separate
    PROVE  Spec => []NoticedOnce
<1>1. IInv /\ [Next]_vars => IInv'
  BY StepIInv
<1>2. IInv => NoticedOnce
  BY DEF IInv, Untimed, NoticedOnce
<1>3. QED
  BY InitIInv, <1>1, <1>2, PTL DEF Spec
=============================================================================
