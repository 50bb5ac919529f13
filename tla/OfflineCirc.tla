---------------------------- MODULE OfflineCirc ----------------------------
(***************************************************************************)
(* Offline circulation from the form to the live system: workstations      *)
(* (OfflineStation) and the server (OfflineServer) joined by the page      *)
(* offline_manage_xacts.js, which lists the sessions, uploads the          *)
(* workstation's file to one of them and has sessions executed.            *)
(*                                                                         *)
(* The page acts on the list it last retrieved, which may be old.  An      *)
(* upload is a form posted in an iframe: the request, the work of the CGI  *)
(* program and the answer are steps of their own, and the client may be    *)
(* gone when the answer comes.                                             *)
(***************************************************************************)
EXTENDS OfflineStation, OfflineServer

CONSTANT NoRequest

VARIABLES
    view,         \* [Stations -> [up, ex]]: sessions whose buttons are enabled
    wire          \* [Stations -> request]: an upload on its way to the server

vars == <<stationvars, servervars, view, wire>>

Request == [ses : Sessions, body : File]

Init ==
    /\ StationInit /\ ServerInit
    /\ view = [w \in Stations |-> [up |-> {}, ex |-> {}]]
    /\ wire = [w \in Stations |-> NoRequest]

\* on_select, of the sessions just retrieved: no upload to a session that
\* holds a file of this workstation.
ViewOf(w) ==
    LET open == made' \ (ended' \union in_process')
    IN  [up |-> {s \in open : w \notin scripts'[s]}, ex |-> open]

Retrieve(w) == view' = [view EXCEPT ![w] = ViewOf(w)]

Refresh(w) ==
    /\ UNCHANGED <<stationvars, servervars, wire>>
    /\ Retrieve(w)

Create(w, s) ==
    /\ CreateSession(s)
    /\ UNCHANGED <<stationvars, wire>>
    /\ Retrieve(w)

\* Bound: one upload of a workstation at a time on the server's side.
Upload(w, s) ==
    /\ s \in view[w].up
    /\ wire[w] = NoRequest /\ load[w].st = "none"
    /\ wire' = [wire EXCEPT ![w] = [ses |-> s, body |-> pending[w]]]
    /\ Rename(w)
    /\ UNCHANGED <<servervars, view>>

Arrive(w) ==
    /\ wire[w] # NoRequest
    /\ LoadStart(w, wire[w].ses, wire[w].body)
    /\ wire' = [wire EXCEPT ![w] = NoRequest]
    /\ UNCHANGED <<stationvars, view>>

RequestLost(w) ==
    /\ wire[w] # NoRequest /\ Fault
    /\ wire' = [wire EXCEPT ![w] = NoRequest]
    /\ UNCHANGED <<stationvars, sesvars, diskvars, load, run, outvars, view>>

\* Mutant of Answer: every answer is taken for a success.
AnswerUnread(w) ==
    /\ load[w].st \in {"ok", "err"}
    /\ load' = [load EXCEPT ![w] = NoLoad]
    /\ UNCHANGED <<sesvars, diskvars, run, outvars, faults, wire>>
    /\ IF cli[w] = "waiting"
       THEN Archive(w) /\ Retrieve(w)
       ELSE UNCHANGED <<stationvars, view>>

\* handle_event, if the page that asked is still there.
Answer(w) ==
    /\ load[w].st \in {"ok", "err"}
    /\ load' = [load EXCEPT ![w] = NoLoad]
    /\ UNCHANGED <<sesvars, diskvars, run, outvars, faults, wire>>
    /\ IF cli[w] = "waiting"
       THEN /\ IF load[w].st = "ok" THEN Archive(w) ELSE Revert(w)
            /\ Retrieve(w)
       ELSE UNCHANGED <<stationvars, view>>

\* execute_ses goes through the selected sessions; only the first of them was
\* looked at when the button was enabled, the program tests each again.
ExecuteSession(w, c, s) ==
    /\ view[w].ex # {} /\ Execute(c, s)
    /\ UNCHANGED <<stationvars, wire>>
    /\ Retrieve(w)

StationActs(w) == /\ FormStep(w) \/ GiveUp(w)
                  /\ UNCHANGED <<servervars, view, wire>>

ServerActs == /\ \/ \E w \in Stations : LoadStep(w)
                 \/ \E c \in Runs : RunStep(c)
                 \/ FaultStep
              /\ UNCHANGED <<stationvars, view, wire>>

Next ==
    \/ \E w \in Stations :
          \/ StationActs(w) \/ Refresh(w) \/ Arrive(w) \/ RequestLost(w) \/ Answer(w)
          \/ \E s \in Sessions :
                Create(w, s) \/ Upload(w, s) \/ \E c \in Runs : ExecuteSession(w, c, s)
    \/ ServerActs

Spec == Init /\ [][Next]_vars

-----------------------------------------------------------------------------
TypeOK ==
    /\ StationTypeOK /\ ServerTypeOK
    /\ view \in [Stations -> [up : SUBSET Sessions, ex : SUBSET Sessions]]
    /\ wire \in [Stations -> Request \union {NoRequest}]

OnServer(r) ==
    \E w \in Stations :
        \/ \E s \in Sessions : log[s][w][r] + archive[s][w][r] > 0
        \/ Busy(w) /\ load[w].body[r] > 0

\* A transaction that will go out with the next upload has not reached the
\* server before: a file is reverted only when the server kept nothing of it.
\* (handle_event, revert_file; ol_load)
PendingNotSent ==
    \A w \in Stations : \A r \in Rows :
        pending[w][r] > 0 => ~OnServer(r) /\ (wire[w] # NoRequest => wire[w].body[r] = 0)

Uploaded == {r \in Rows : \E s \in Sessions : InLog(s, r)}

\* A file renamed .complete is one that the server holds, with its entry in
\* offline.script, so that it will be executed.
CompleteIsUploaded ==
    \A w \in Stations : \A r \in Rows : complete[w][r] > 0 => r \in Uploaded

Delivery == INSTANCE OfflineDelivery WITH
    keyed <- scanned, saved <- written, uploaded <- Uploaded, runs <- results

\* The whole way of a transaction is the abstract one.
ImplementsDelivery == Delivery!Spec
=============================================================================
