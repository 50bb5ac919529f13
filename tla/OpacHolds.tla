------------------------------ MODULE OpacHolds ------------------------------
(***************************************************************************)
(* A patron's "my holds" page in the JavaScript catalogue (myopac.js and   *)
(* the editor of holds.js) beside the desks and jobs of Circulation.       *)
(*                                                                         *)
(* The page keeps the hold objects it was given (holdCache) and sends them *)
(* back whole; the server writes the object it gets over the row.  The     *)
(* staff client and the template catalogue send single values instead,     *)
(* which Circulation's Freeze, Thaw and ChangePickup model.                *)
(*                                                                         *)
(* Abstracted: notification, expiry and thaw dates; the list is fetched in *)
(* one step; a request is answered by a result or an event, never by a     *)
(* server error, which would leave the page "processing".                  *)
(***************************************************************************)
EXTENDS Circulation

CONSTANTS Holder,  \* whose page it is
          NoRow,
          Actions  \* what the patron may do on the page

\* "date": another thaw date.
AllActions == {"cancel", "freeze", "thaw", "date", "edit"}

ASSUME OpacAssumption ==
    /\ Holder \in Users
    /\ NoRow \notin HoldRows
    /\ Actions \subseteq AllActions

VARIABLES page,     \* what is shown
          cache,    \* [Holds -> HoldRows \cup {NoRow}]: holdCache
          answer,   \* [Holds -> {"none"} or what HoldStatus said]: holdStatusCache
          calls,    \* requests of a batch that the server has not served
          awaited,  \* holds of the batch whose answer is still missing
          editor,   \* the hold in the editor and which controls are enabled
          calm      \* history: nobody else has acted since the list was fetched

pagevars == <<page, cache, answer, calls, awaited, editor, calm>>
viewvars == <<vars, pagevars>>

\* status > 2
Beyond == {"cancelled", "suspended", "wrong_shelf", "in_transit", "on_shelf"}

NoEditor == [hold |-> NoHold, box |-> FALSE, org |-> FALSE]

PageInit ==
    /\ Init
    /\ page = "none"
    /\ cache = [h \in Holds |-> NoRow]
    /\ answer = [h \in Holds |-> "none"]
    /\ calls = {}
    /\ awaited = {}
    /\ editor = NoEditor
    /\ calm = TRUE

-----------------------------------------------------------------------------
(* The server: update_hold with a hold object.                             *)

\* "hold is captured", judged by the object that was sent.
Refused(h, row) ==
    /\ row.frozen /\ ~hold[h].frozen
    /\ HoldStatus(row) \in Beyond \ {"suspended"}

\* The row goes in as it is; a transit on its way follows a new pickup library.
UpdateHold(h, row) ==
    LET moving == {t \in HoldTransits(h) : transit[t].open} IN
    /\ ~Refused(h, row)
    /\ IF row.pickup # hold[h].pickup /\ HoldStatus(row) = "in_transit"
       THEN \E t \in moving : transit' = [transit EXCEPT ![t].dest = row.pickup]
       ELSE UNCHANGED transit
    /\ hold' = [hold EXCEPT ![h] =
                   [row EXCEPT !.copy = IF row.frozen THEN NoCopy ELSE @]]
    /\ todo' = IF hold[h].frozen /\ ~row.frozen THEN todo \cup Retarget({h}) ELSE todo
    /\ UNCHANGED <<status, loan, potential, listed, crashes>>

\* It is done, or refused (for want of a permission too).
Serve(c) ==
    /\ Serving
    /\ \/ c.op = "update" /\ UpdateHold(c.hold, c.row)
       \/ c.op = "cancel" /\ CancelHold(c.hold)
       \/ UNCHANGED vars

-----------------------------------------------------------------------------
(* The list.                                                               *)

\* What a fresh list is made of: the patron's holds that are still live.
FetchHolds ==
    /\ cache' = [h \in Holds |-> IF Live(h) /\ Owner[h] = Holder THEN hold[h] ELSE NoRow]
    /\ answer' = [h \in Holds |-> "none"]
    /\ calm' = TRUE

Listed == {h \in Holds : cache[h] # NoRow}

ShowHolds ==
    /\ page = "none"
    /\ page' = "list"
    /\ FetchHolds
    /\ UNCHANGED <<vars, calls, awaited, editor>>

Leave ==
    /\ page = "list"
    /\ page' = "none"
    /\ cache' = [h \in Holds |-> NoRow]
    /\ answer' = [h \in Holds |-> "none"]
    /\ calm' = TRUE
    /\ UNCHANGED <<vars, calls, awaited, editor>>

\* The status of each hold is fetched on its own.
ShowStatus(h) ==
    /\ page = "list" /\ h \in Listed /\ answer[h] = "none"
    /\ answer' = [answer EXCEPT ![h] = HoldStatus(hold[h])]
    /\ UNCHANGED <<vars, page, cache, calls, awaited, editor, calm>>

\* The selected holds that need processing.
Chosen(action, S) ==
    CASE action = "cancel" -> S
      [] action \in {"thaw", "date"} -> {h \in S : cache[h].frozen}
      [] action = "freeze" -> {h \in S : ~cache[h].frozen /\ answer[h] \notin Beyond}

\* The objects in the cache are changed, and then sent.
Altered(action, h) ==
    CASE action = "cancel" -> cache[h]
      [] action = "thaw"   -> [cache[h] EXCEPT !.frozen = FALSE]
      [] action \in {"freeze", "date"} -> [cache[h] EXCEPT !.frozen = TRUE]

Send(action, S) ==
    /\ cache' = [h \in Holds |-> IF h \in S THEN Altered(action, h) ELSE cache[h]]
    /\ calls' = {[op |-> IF action = "cancel" THEN "cancel" ELSE "update",
                  hold |-> h, row |-> Altered(action, h)] : h \in S}

\* Mutant of DoHoldAction: the selected rows are counted, not the chosen.
DoHoldActionAll(action, S) ==
    /\ page = "list" /\ action \in Actions
    /\ action = "freeze" => \A h \in S : answer[h] # "none"
    /\ Chosen(action, S) # {}
    /\ page' = "processing"
    /\ Send(action, Chosen(action, S))
    /\ awaited' = S
    /\ UNCHANGED <<vars, answer, editor, calm>>

\* One request for each hold, all at once.
DoHoldAction(action, S) ==
    /\ page = "list" /\ action \in Actions
    /\ action = "freeze" => \A h \in S : answer[h] # "none"
    /\ Chosen(action, S) # {}
    /\ page' = "processing"
    /\ Send(action, Chosen(action, S))
    /\ awaited' = Chosen(action, S)
    /\ UNCHANGED <<vars, answer, editor, calm>>

\* They are served and answered in any order ...
BatchCall(c) ==
    /\ c \in calls
    /\ Serve(c)
    /\ calls' = calls \ {c}
    /\ awaited' = awaited \ {c.hold}
    /\ UNCHANGED <<page, cache, answer, editor, calm>>

\* Mutant of BatchDone: the list is shown as it was altered.
BatchDoneAltered ==
    /\ page = "processing" /\ awaited = {}
    /\ page' = "list"
    /\ calm' = TRUE
    /\ UNCHANGED <<vars, cache, answer, calls, awaited, editor>>

\* ... and after the last answer the list is fetched again.
BatchDone ==
    /\ page = "processing" /\ awaited = {}
    /\ page' = "list"
    /\ FetchHolds
    /\ UNCHANGED <<vars, calls, awaited, editor>>

-----------------------------------------------------------------------------
(* The editor.                                                             *)

\* The pickup library can be chosen before the capture and, with permission,
\* on the shelf; the box that suspends it before the capture.
EditHold(h) ==
    LET st == HoldStatus(hold[h])
        fixed == cache[h].captured \/ st \in Beyond
    IN
    /\ page = "list" /\ h \in Listed
    /\ "edit" \in Actions
    /\ page' = "editor"
    /\ editor' = [hold |-> h, box |-> ~fixed, org |-> ~(fixed /\ st = "in_transit")]
    /\ UNCHANGED <<vars, cache, answer, calls, awaited, calm>>

\* A box that is disabled is not checked, and what is not checked is sent as
\* not suspended.
Submit(l, frozen) ==
    LET h   == editor.hold
        row == [cache[h] EXCEPT !.pickup = l, !.frozen = frozen]
    IN
    /\ page = "editor"
    /\ l = cache[h].pickup \/ editor.org
    /\ editor.box \/ ~frozen
    /\ Serve([op |-> "update", hold |-> h, row |-> row])
    /\ page' = "none"
    /\ cache' = [g \in Holds |-> NoRow]
    /\ answer' = [g \in Holds |-> "none"]
    /\ editor' = NoEditor /\ calm' = TRUE
    /\ UNCHANGED <<calls, awaited>>

-----------------------------------------------------------------------------

Page ==
    \/ ShowHolds \/ Leave \/ BatchDone
    \/ \E h \in Holds : ShowStatus(h) \/ EditHold(h)
    \/ \E action \in {"cancel", "freeze", "thaw", "date"}, S \in SUBSET Listed :
          DoHoldAction(action, S)
    \/ \E c \in calls : BatchCall(c)
    \/ \E l \in Libs, frozen \in BOOLEAN : Submit(l, frozen)

\* The desks, the jobs and the follow-ups, which the page does not see.
Unseen ==
    /\ calm' = (page \notin {"list", "editor"})
    /\ UNCHANGED <<page, cache, answer, calls, awaited, editor>>

Follow == Unseen /\ \E f \in todo : FollowUp(f)

Elsewhere ==
    \/ Unseen /\ \E c \in Copies : Desk(c)
    \/ Unseen /\ \E h \in Holds : HoldRequest(h)
    \/ Follow

PageNext == Page \/ Elsewhere

PageSpec == PageInit /\ [][PageNext]_viewvars

\* The server serves what it is asked, however many others ask as well, and
\* answers arrive.
LivePageSpec ==
    /\ PageSpec
    /\ SF_viewvars(\E c \in calls : BatchCall(c))
    /\ WF_viewvars(BatchDone)
    /\ WF_viewvars(Follow)

-----------------------------------------------------------------------------
(* Properties.                                                             *)

OnItsWay(h) ==
    /\ Live(h) /\ hold[h].captured /\ hold[h].copy # NoCopy
    /\ status[hold[h].copy] \in {"in_transit", "holds_shelf"}

\* update_hold_impl: no hold is suspended whose copy is on its way or waiting.
SuspendsNoCaptured ==
    [][\A h \in Holds : OnItsWay(h) /\ ~hold[h].frozen => ~hold'[h].frozen]_viewvars

\* A batch comes to its end, whatever became of its holds in the meantime.
BatchEnds == page = "processing" ~> page # "processing"

\* Until somebody else acts, the page tells its patron the truth: what the batch
\* changed in the cache and the server refused is not shown.
ShowsTruth ==
    page = "list" /\ calm =>
        \A h \in Listed : cache[h] = hold[h]
=============================================================================
