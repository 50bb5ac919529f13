----------------------------- MODULE Circulation -----------------------------
(***************************************************************************)
(* Copies, loans, holds and transits: the requests open-ils.circ serves    *)
(* (checkin, checkout, renewal, marking a copy, placing, changing,         *)
(* cancelling and resetting holds, aborting transits) and the hold         *)
(* targeter of open-ils.storage.                                           *)
(*                                                                         *)
(* A request is one database transaction, hence one step.  What a handler  *)
(* does after its commit (resetting the holds of a marked copy, calling    *)
(* the targeter) is a transaction of its own: it waits in `todo' and other *)
(* requests may be served before it, or the process may die and lose it.   *)
(*                                                                         *)
(* Abstracted: permissions, override events and org settings (whatever     *)
(* they may decide is allowed), dates and money, the order the database    *)
(* returns rows in (any row of a result may be the first), titles (every   *)
(* hold is for a title that all copies belong to).                         *)
(***************************************************************************)
EXTENDS Naturals, FiniteSets

CONSTANTS Copies, Holds, Users, Libs,
          NoCopy, NoHold, NoLib, NoLoan, NoTransit,
          Home,         \* [Copies -> Libs]: copy.circ_lib
          Owner,        \* [Holds -> Users]: hold.usr
          MaxTransits,  \* bound: transit rows at a time
          MaxCrashes,   \* bound: follow-ups lost in a behaviour
          Requests,     \* the kinds of request that are served
          Overlapping   \* may requests be served between a commit and its follow-up?

\* The requests and jobs a run may leave out.  Seven of them are kept apart
\* because of what they lead to: marking a copy that has an open transit,
\* uncancelling a hold that has one, updating a suspended hold that was
\* captured, resetting (also after an abort) a hold whose earlier deliveries
\* left rows behind, a closed one whose copy waits for another hold by now or
\* a fulfilled one that the targeter is still to come to, and the setting that
\* lets a checkout fulfil a hold that targets another copy.
AllRequests == {"renew", "claims", "lost", "mark", "mark_moving", "shelve",
                "cancel", "uncancel", "uncancel_moving", "freeze", "pickup",
                "amend_captured", "reset", "reset_delivered", "reset_reused",
                "reset_listed", "abort", "fill_related", "retarget"}

\* "missing" stands for the statuses that mark_item sets and that no
\* circulation step treats specially.
Statuses == {"available", "checked_out", "lost", "missing", "in_transit",
             "reshelving", "holds_shelf"}

\* stop: circulation.stop_fines, as far as requests look at it.
OpenLoans == [usr : Users, stop : {"none", "claims", "lost"}]
Loans == OpenLoans \cup {NoLoan}

\* back: transit.copy_status, the status the copy gets on arrival; open is
\* "dest_recv_time is null"; hold is NoHold for a plain transit.
TransitRows == [copy : Copies, dest : Libs, back : Statuses,
                hold : Holds \cup {NoHold}, open : BOOLEAN]

ASSUME CirculationAssumption ==
    /\ NoCopy \notin Copies /\ NoHold \notin Holds /\ NoLib \notin Libs
    /\ Home \in [Copies -> Libs]
    /\ Owner \in [Holds -> Users]
    /\ NoLoan \notin OpenLoans
    /\ NoTransit \notin TransitRows
    /\ MaxTransits \in Nat /\ MaxCrashes \in Nat
    /\ Requests \subseteq AllRequests
    /\ Overlapping \in BOOLEAN

VARIABLES status,     \* [Copies -> Statuses]: copy.status
          loan,       \* [Copies -> Loans]: the circulation without checkin_time
          hold,       \* [Holds -> HoldRows]: action.hold_request
          potential,  \* [Holds -> SUBSET Copies]: action.hold_copy_map
          listed,     \* holds that runs of the targeter have still to come to
          transit,    \* [TransitIds -> transit rows]
          todo,       \* follow-ups of committed requests
          crashes     \* follow-ups lost so far

vars == <<status, loan, hold, potential, listed, transit, todo, crashes>>

\* captured is "capture_time is set", shelf the current_shelf_lib (set and
\* cleared together with shelf_time).
HoldRows == {r \in [placed : BOOLEAN, frozen : BOOLEAN, cancelled : BOOLEAN,
                    captured : BOOLEAN, fulfilled : BOOLEAN,
                    copy : Copies \cup {NoCopy}, pickup : Libs \cup {NoLib},
                    shelf : Libs \cup {NoLib}] : r.placed => r.pickup \in Libs}

TransitIds == 1..MaxTransits

\* A reset carries the hold row its caller read: mark_item reads it before its
\* commit, abort_transit ("refetch") after it.
FollowUps == [op : {"target", "refetch"}, hold : Holds]
             \cup [op : {"reset"}, hold : Holds, row : HoldRows]

TypeOK ==
    /\ status \in [Copies -> Statuses]
    /\ loan \in [Copies -> Loans]
    /\ hold \in [Holds -> HoldRows]
    /\ potential \in [Holds -> SUBSET Copies]
    /\ listed \in SUBSET Holds
    /\ transit \in [TransitIds -> TransitRows \cup {NoTransit}]
    /\ todo \in SUBSET FollowUps
    /\ crashes \in 0..MaxCrashes

Init ==
    /\ status = [c \in Copies |-> "available"]
    /\ loan = [c \in Copies |-> NoLoan]
    /\ hold = [h \in Holds |->
                  [placed |-> FALSE, frozen |-> FALSE, cancelled |-> FALSE,
                   captured |-> FALSE, fulfilled |-> FALSE,
                   copy |-> NoCopy, pickup |-> NoLib, shelf |-> NoLib]]
    /\ potential = [h \in Holds |-> {}]
    /\ listed = {}
    /\ transit = [t \in TransitIds |-> NoTransit]
    /\ todo = {}
    /\ crashes = 0

-----------------------------------------------------------------------------
(* Queries.                                                                *)

Live(h) == hold[h].placed /\ ~hold[h].cancelled /\ ~hold[h].fulfilled
LiveFor(c) == {h \in Holds : Live(h) /\ hold[h].copy = c}
Waiting(c) == {h \in LiveFor(c) : hold[h].captured}
OpenTransits(c) == {t \in TransitIds : transit[t] # NoTransit
                                       /\ transit[t].copy = c /\ transit[t].open}
\* Transits of a hold, received ones included.
HoldTransits(h) == {t \in TransitIds : transit[t] # NoTransit /\ transit[t].hold = h}
FreeTransit(t) == transit[t] = NoTransit /\ \A u \in 1..(t-1) : transit[u] # NoTransit

\* A handler starts when no follow-up is under way, or at any time.
Serving == Overlapping \/ todo = {}

Retarget(S) == [op : {"target"}, hold : S]
Reset(h) == [op |-> "reset", hold |-> h, row |-> hold[h]]

-----------------------------------------------------------------------------
(* do_checkin.                                                             *)

\* checkin_check_holds_shelf: s is the status the copy goes on with, r the
\* captured hold that is to be picked up elsewhere.  (Where a captured hold
\* is for here there is nothing to do.)
ShelfCheck(c, l, s, r) ==
    \/ status[c] # "holds_shelf" /\ s = status[c] /\ r = NoHold
    \/ status[c] = "holds_shelf" /\ Waiting(c) = {} /\ s = "reshelving" /\ r = NoHold
    \/ /\ status[c] = "holds_shelf" /\ s = "holds_shelf"
       /\ r \in Waiting(c) /\ hold[r].pickup # l

\* checkin_handle_circ: a lost copy that is away from home may keep its status.
ReturnStatus(c, l, s) ==
    IF Home[c] # l /\ s = "lost" THEN {"lost", "reshelving"}
    ELSE IF Home[c] # l /\ s = "missing" THEN {"missing"}
    ELSE {"reshelving"}

\* reshelve_copy
Reshelved(s) ==
    IF s \in {"holds_shelf", "in_transit", "reshelving"} THEN s ELSE "reshelving"

\* Mutant: without the capture_time filter.
PreTargetedCaptured(c, H) ==
    {h \in Holds : H[h].placed /\ ~H[h].cancelled /\ H[h].copy = c}

\* find_nearest_permitted_hold: what nearest_hold finds, and what the copy is
\* the target of.
PreTargeted(c, H) ==
    {h \in Holds : H[h].placed /\ ~H[h].cancelled /\ ~H[h].captured /\ H[h].copy = c}

Capturable(c, H) ==
    {h \in Holds : /\ H[h].placed /\ ~H[h].cancelled /\ ~H[h].captured
                   /\ ~H[h].frozen /\ c \in potential[h]}
    \cup PreTargeted(c, H)

\* The holds that lose copy c when it is captured for h.
OtherTargets(c, h, H) == PreTargeted(c, H) \ {h}

NewTransit(t, row, T) == FreeTransit(t) /\ transit' = [T EXCEPT ![t] = row]

\* attempt_checkin_hold_capture
CaptureHold(c, l, h, H, T) ==
    LET here   == H[h].pickup = l
        others == OtherTargets(c, h, H)
    IN
    /\ hold' = [g \in Holds |->
                  IF g = h THEN [H[h] EXCEPT !.copy = c, !.captured = TRUE,
                                             !.fulfilled = FALSE, !.cancelled = FALSE,
                                             !.shelf = IF here THEN l ELSE @]
                  ELSE IF g \in others THEN [H[g] EXCEPT !.copy = NoCopy]
                  ELSE H[g]]
    /\ status' = [status EXCEPT ![c] = IF here THEN "holds_shelf" ELSE "in_transit"]
    /\ IF here THEN transit' = T
       ELSE \E t \in TransitIds :
               NewTransit(t, [copy |-> c, dest |-> H[h].pickup, back |-> "holds_shelf",
                              hold |-> h, open |-> TRUE], T)
    /\ todo' = todo \cup Retarget(others)

\* checkin_build_copy_transit: home, or to the pickup library of hold r.
SendAway(c, l, s, r, H, T) ==
    LET dest == IF r = NoHold THEN Home[c] ELSE H[r].pickup IN
    /\ dest # l
    /\ \E t \in TransitIds :
          NewTransit(t, [copy |-> c, dest |-> dest, back |-> s,
                         hold |-> r, open |-> TRUE], T)
    /\ hold' = [h \in Holds |-> IF h = r THEN [H[h] EXCEPT !.shelf = NoLib] ELSE H[h]]
    /\ status' = [status EXCEPT ![c] = "in_transit"]
    /\ UNCHANGED todo

\* A copy that is at home, or a no-op checkin.
StayHere(c, s, H, T) ==
    /\ status' = [status EXCEPT ![c] = Reshelved(s)]
    /\ hold' = H
    /\ transit' = T
    /\ UNCHANGED todo

\* The last part of do_checkin, for hold table H and transit table T.
Settle(c, l, s, r, H, T) ==
    \/ r = NoHold /\ \E h \in Capturable(c, H) : CaptureHold(c, l, h, H, T)
    \/ SendAway(c, l, s, r, H, T)
    \/ StayHere(c, s, H, T)

CheckinLoan(c, l) ==
    /\ Serving
    /\ loan[c] # NoLoan
    /\ loan' = [loan EXCEPT ![c] = NoLoan]
    /\ \E s \in Statuses, r \in Holds \cup {NoHold} :
          /\ ShelfCheck(c, l, s, r)
          /\ \/ \E back \in ReturnStatus(c, l, s) : Settle(c, l, back, r, hold, transit)
             \* claims never checked out
             \/ /\ status' = [status EXCEPT ![c] = "missing"]
                /\ UNCHANGED <<hold, transit, todo>>
    /\ UNCHANGED <<potential, listed, crashes>>

\* A hold transit that arrives puts its hold on the shelf, unless the hold was
\* cancelled or fulfilled on the way.
ArriveForHold(c, l, t, r, T) ==
    LET h == transit[t].hold
        H == [hold EXCEPT ![h].shelf = l]
    IN
    IF hold[h].cancelled \/ hold[h].fulfilled
    THEN Settle(c, l, "reshelving", r, H, T)
    ELSE /\ status' = [status EXCEPT ![c] = transit[t].back]
         /\ hold' = H
         /\ transit' = T
         /\ UNCHANGED todo

\* process_received_transit (at any other library: ROUTE_ITEM, no change).
CheckinTransit(c, l) ==
    /\ Serving
    /\ loan[c] = NoLoan
    /\ \E t \in OpenTransits(c), s \in Statuses, r \in Holds \cup {NoHold} :
          /\ transit[t].dest = l
          /\ ShelfCheck(c, l, s, r)
          /\ IF transit[t].hold = NoHold
             \* nothing reads the row of a received plain transit
             THEN Settle(c, l, transit[t].back, r, hold,
                         [transit EXCEPT ![t] = NoTransit])
             ELSE ArriveForHold(c, l, t, r, [transit EXCEPT ![t].open = FALSE])
    /\ UNCHANGED <<loan, potential, listed, crashes>>

\* Nothing to return and nothing to receive; a copy in transit without a
\* transit is repaired.
CheckinOther(c, l) ==
    /\ Serving
    /\ loan[c] = NoLoan /\ OpenTransits(c) = {}
    /\ \E s \in Statuses, r \in Holds \cup {NoHold} :
          /\ ShelfCheck(c, l, s, r)
          /\ Settle(c, l, IF s = "in_transit" THEN "reshelving" ELSE s, r, hold, transit)
    /\ UNCHANGED <<loan, potential, listed, crashes>>

-----------------------------------------------------------------------------
(* do_checkout and do_renew.                                               *)

\* Mutant: of any patron.
RelatedOfAnybody(u, c) ==
    {g \in Holds : Live(g) /\ hold[g].copy \in {NoCopy, c}}

\* find_related_user_hold: not one whose copy waits on the holds shelf.
Related(u, c) ==
    {g \in Holds : /\ Live(g) /\ Owner[g] = u
                   /\ hold[g].copy \in {NoCopy, c} \/ status[hold[g].copy] # "holds_shelf"}

Fulfil(f, c, H) ==
    /\ hold' = [H EXCEPT ![f].copy = c, ![f].captured = TRUE, ![f].fulfilled = TRUE]
    /\ potential' = [potential EXCEPT ![f] = {}]

\* The hold of another patron loses the copy ...
Displaced(h) == [hold EXCEPT ![h].copy = NoCopy, ![h].captured = FALSE,
                             ![h].shelf = NoLib]

\* ... and a hold of this patron is fulfilled: handle_checkout_holds.
CheckoutHolds(c, u) ==
    LET FulfilRelated(H) ==
            \/ hold' = H /\ UNCHANGED potential
            \/ "fill_related" \in Requests /\ \E f \in Related(u, c) : Fulfil(f, c, H)
    IN
    \/ LiveFor(c) = {} /\ FulfilRelated(hold)
    \/ \E h \in LiveFor(c) :
          \/ Owner[h] = u /\ Fulfil(h, c, hold)
          \/ Owner[h] # u /\ FulfilRelated(Displaced(h))

\* Mutant: without the check for a copy in transit.
CheckoutInTransit(c, u) ==
    /\ Serving
    /\ loan[c] # NoLoan => loan[c].stop = "claims"
    /\ loan' = [loan EXCEPT ![c] = [usr |-> u, stop |-> "none"]]
    /\ status' = [status EXCEPT ![c] = "checked_out"]
    /\ CheckoutHolds(c, u)
    /\ UNCHANGED <<listed, transit, todo, crashes>>

Checkout(c, u) ==
    /\ Serving
    /\ status[c] # "in_transit"
    \* an override closes a claims-returned loan
    /\ loan[c] # NoLoan => loan[c].stop = "claims"
    /\ loan' = [loan EXCEPT ![c] = [usr |-> u, stop |-> "none"]]
    /\ status' = [status EXCEPT ![c] = "checked_out"]
    /\ CheckoutHolds(c, u)
    /\ UNCHANGED <<listed, transit, todo, crashes>>

\* The checkin and the checkout of a renewal are one transaction.
Renew(c) ==
    /\ "renew" \in Requests /\ Serving
    /\ loan[c] # NoLoan /\ loan[c].stop = "none"
    /\ status' = [status EXCEPT ![c] = "checked_out"]
    /\ CheckoutHolds(c, loan[c].usr)
    /\ UNCHANGED <<loan, listed, transit, todo, crashes>>

SetClaimsReturned(c) ==
    /\ "claims" \in Requests /\ Serving
    /\ loan[c] # NoLoan
    /\ loan' = [loan EXCEPT ![c].stop = "claims"]
    \* circ.claim_return.copy_status
    /\ UNCHANGED status \/ status' = [status EXCEPT ![c] = "missing"]
    /\ UNCHANGED <<hold, potential, listed, transit, todo, crashes>>

SetLost(c) ==
    /\ "lost" \in Requests /\ Serving
    /\ loan[c] # NoLoan /\ status[c] # "lost"
    /\ loan' = [loan EXCEPT ![c].stop = "lost"]
    /\ status' = [status EXCEPT ![c] = "lost"]
    /\ UNCHANGED <<hold, potential, listed, transit, todo, crashes>>

\* mark_item: the holds on the copy are read before the commit and reset after.
MarkItem(c) ==
    /\ Serving
    /\ (IF OpenTransits(c) = {} THEN "mark" ELSE "mark_moving") \in Requests
    /\ status' = [status EXCEPT ![c] = "missing"]
    /\ todo' = todo \cup {Reset(h) : h \in LiveFor(c)}
    /\ UNCHANGED <<loan, hold, potential, listed, transit, crashes>>

\* complete_reshelving
ReshelvingDone(c) ==
    /\ "shelve" \in Requests /\ Serving
    /\ status[c] = "reshelving"
    /\ status' = [status EXCEPT ![c] = "available"]
    /\ UNCHANGED <<loan, hold, potential, listed, transit, todo, crashes>>

-----------------------------------------------------------------------------
(* Holds.                                                                  *)

\* Mutant: without a pickup library.
PlaceHoldNowhere(h, l) ==
    /\ Serving
    /\ ~hold[h].placed
    /\ hold' = [hold EXCEPT ![h].placed = TRUE]
    /\ todo' = todo \cup Retarget({h})
    /\ UNCHANGED <<status, loan, potential, listed, transit, crashes>>

PlaceHold(h, l) ==
    /\ Serving
    /\ ~hold[h].placed
    /\ hold' = [hold EXCEPT ![h].placed = TRUE, ![h].pickup = l]
    /\ todo' = todo \cup Retarget({h})
    /\ UNCHANGED <<status, loan, potential, listed, transit, crashes>>

\* A captured hold leaves its copy on the shelf, and its transit alive.
CancelHold(h) ==
    /\ "cancel" \in Requests /\ Serving
    /\ hold[h].placed /\ ~hold[h].cancelled
    /\ hold' = [hold EXCEPT ![h].cancelled = TRUE]
    /\ potential' = [potential EXCEPT ![h] = {}]
    /\ IF /\ hold[h].captured /\ hold[h].copy # NoCopy
          /\ status[hold[h].copy] = "in_transit" /\ HoldTransits(h) # {}
       THEN \E t \in HoldTransits(h) :
               transit' = [transit EXCEPT ![t].back = "reshelving"]
       ELSE UNCHANGED transit
    /\ UNCHANGED <<status, loan, listed, todo, crashes>>

\* Mutant: the shelf is forgotten.
UncancelHoldOnShelf(h) ==
    /\ "uncancel" \in Requests /\ Serving
    /\ hold[h].placed /\ hold[h].cancelled /\ ~hold[h].fulfilled
    /\ hold' = [hold EXCEPT ![h].cancelled = FALSE, ![h].captured = FALSE,
                            ![h].copy = NoCopy]
    /\ todo' = todo \cup Retarget({h})
    /\ UNCHANGED <<status, loan, potential, listed, transit, crashes>>

UncancelHold(h) ==
    /\ Serving
    /\ (IF \A t \in HoldTransits(h) : ~transit[t].open THEN "uncancel" ELSE "uncancel_moving") \in Requests
    /\ hold[h].placed /\ hold[h].cancelled /\ ~hold[h].fulfilled
    /\ hold' = [hold EXCEPT ![h].cancelled = FALSE, ![h].captured = FALSE,
                            ![h].copy = NoCopy, ![h].shelf = NoLib]
    /\ todo' = todo \cup Retarget({h})
    /\ UNCHANGED <<status, loan, potential, listed, transit, crashes>>

\* _hold_status of row r, which already has the new values: the answers that
\* update_hold_impl tells apart.
HoldStatus(r) ==
    IF r.cancelled THEN "cancelled"
    ELSE IF r.frozen /\ ~r.captured THEN "suspended"
    ELSE IF r.shelf # NoLib /\ r.shelf # r.pickup THEN "wrong_shelf"
    ELSE IF r.copy = NoCopy \/ ~r.captured THEN "waiting"
    ELSE IF status[r.copy] = "in_transit" THEN "in_transit"
    ELSE IF status[r.copy] = "holds_shelf" THEN "on_shelf"
    ELSE "error"

\* update_hold: suspend ...
Freeze(h) ==
    /\ "freeze" \in Requests /\ Serving
    /\ hold[h].placed /\ ~hold[h].frozen
    /\ HoldStatus([hold[h] EXCEPT !.frozen = TRUE]) \in {"suspended", "waiting", "error"}
    /\ hold' = [hold EXCEPT ![h].frozen = TRUE, ![h].copy = NoCopy]
    /\ UNCHANGED <<status, loan, potential, listed, transit, todo, crashes>>

\* ... activate ...
Thaw(h) ==
    /\ "freeze" \in Requests /\ Serving
    /\ hold[h].placed /\ hold[h].frozen
    /\ hold' = [hold EXCEPT ![h].frozen = FALSE]
    /\ todo' = todo \cup Retarget({h})
    /\ UNCHANGED <<status, loan, potential, listed, transit, crashes>>

\* An update of a suspended hold takes its copy away.
UpdatesSuspended(h) ==
    hold[h].frozen /\ hold[h].captured => "amend_captured" \in Requests

\* ... change anything else of a suspended hold ...
Amend(h) ==
    /\ "freeze" \in Requests /\ Serving
    /\ UpdatesSuspended(h)
    /\ hold[h].placed /\ hold[h].frozen
    /\ hold' = [hold EXCEPT ![h].copy = NoCopy]
    /\ UNCHANGED <<status, loan, potential, listed, transit, todo, crashes>>

\* Mutant: the transit keeps its destination.
ChangePickupOnly(h, l) ==
    /\ "pickup" \in Requests /\ Serving
    /\ hold[h].placed /\ hold[h].pickup # l
    /\ hold' = [hold EXCEPT ![h].pickup = l]
    /\ todo' = IF hold[h].captured THEN todo ELSE todo \cup Retarget({h})
    /\ UNCHANGED <<status, loan, potential, listed, transit, crashes>>

\* ... and change the pickup library.
ChangePickup(h, l) ==
    LET moving == {t \in HoldTransits(h) : transit[t].open} IN
    /\ "pickup" \in Requests /\ Serving
    /\ UpdatesSuspended(h)
    /\ hold[h].placed /\ hold[h].pickup # l
    /\ IF HoldStatus([hold[h] EXCEPT !.pickup = l]) = "in_transit"
       THEN \E t \in moving : transit' = [transit EXCEPT ![t].dest = l]
       ELSE UNCHANGED transit
    /\ hold' = [hold EXCEPT ![h].pickup = l,
                            ![h].copy = IF hold[h].frozen THEN NoCopy ELSE @]
    /\ todo' = IF hold[h].captured THEN todo ELSE todo \cup Retarget({h})
    /\ UNCHANGED <<status, loan, potential, listed, crashes>>

\* Mutant: a copy that was captured goes back to the shelves wherever it is.
DoResetBlindly(h, row) ==
    LET c == row.copy
        held == row.captured /\ c # NoCopy
    IN
    /\ IF held /\ status[c] = "in_transit" /\ HoldTransits(h) # {}
       THEN \E t \in HoldTransits(h) : transit' = [transit EXCEPT ![t] = NoTransit]
       ELSE UNCHANGED transit
    /\ status' = IF held THEN [status EXCEPT ![c] = "reshelving"] ELSE status
    /\ hold' = [hold EXCEPT ![h] =
                   [row EXCEPT !.captured = FALSE, !.copy = NoCopy, !.shelf = NoLib]]

\* _reset_hold: row is what the caller read of hold h, and is written back.
DoReset(h, row) ==
    LET c == row.copy
        held == row.captured /\ c # NoCopy
    IN
    /\ IF held /\ status[c] = "in_transit" /\ HoldTransits(h) # {}
       THEN \E t \in HoldTransits(h) : transit' = [transit EXCEPT ![t] = NoTransit]
       ELSE UNCHANGED transit
    /\ IF held /\ \/ status[c] = "holds_shelf"
                  \/ status[c] = "in_transit" /\ HoldTransits(h) # {}
       THEN status' = [status EXCEPT ![c] = "reshelving"]
       ELSE UNCHANGED status
    /\ hold' = [hold EXCEPT ![h] =
                   [row EXCEPT !.captured = FALSE, !.copy = NoCopy, !.shelf = NoLib]]

\* The first of the transit rows T of hold h that _reset_hold finds may be that
\* of an earlier delivery.
Delivered(h, T) ==
    /\ hold[h].copy \in {c \in Copies : status[c] = "in_transit"}
    /\ \E t \in T : t \notin OpenTransits(hold[h].copy)

\* The copy that hold h was captured for waits for another hold (h was
\* cancelled or fulfilled since).
Reused(h) == hold[h].captured /\ Waiting(hold[h].copy) \ {h} # {}

\* Fulfilled, and the targeter is still to come to it.
LateListed(h) == hold[h].fulfilled /\ h \in listed

ResetHold(h) ==
    /\ Reused(h) => "reset_reused" \in Requests
    /\ LateListed(h) => "reset_listed" \in Requests
    /\ (IF Delivered(h, HoldTransits(h)) THEN "reset_delivered" ELSE "reset") \in Requests
    /\ Serving
    /\ hold[h].placed
    /\ DoReset(h, hold[h])
    /\ todo' = todo \cup Retarget({h})
    /\ UNCHANGED <<loan, potential, listed, crashes>>

\* Mutant: the copy stays "in transit".
AbortTransitOnly(t) ==
    LET row == transit[t] IN
    /\ "abort" \in Requests /\ Serving
    /\ row # NoTransit
    /\ row.open
    /\ transit' = [transit EXCEPT ![t] = NoTransit]
    /\ todo' = IF row.hold = NoHold THEN todo
               ELSE todo \cup {[op |-> "refetch", hold |-> row.hold]}
    /\ UNCHANGED <<status, loan, hold, potential, listed, crashes>>

\* abort_transit; the hold of a hold transit is reset after the commit (and may
\* have got another copy, which is in transit itself, meanwhile).
AbortTransit(t) ==
    LET row == transit[t]
        h == row.hold
    IN
    /\ "abort" \in Requests /\ Serving
    /\ row # NoTransit
    /\ h # NoHold /\ hold[h].copy # row.copy =>
          /\ Delivered(h, HoldTransits(h) \ {t}) => "reset_delivered" \in Requests
          /\ Reused(h) => "reset_reused" \in Requests
    /\ h # NoHold /\ LateListed(h) => "reset_listed" \in Requests
    /\ row.open
    /\ transit' = [transit EXCEPT ![t] = NoTransit]
    /\ status' = [status EXCEPT ![row.copy] =
                     IF h = NoHold THEN row.back ELSE "reshelving"]
    /\ todo' = IF h = NoHold THEN todo
               ELSE todo \cup {[op |-> "refetch", hold |-> h]}
    /\ UNCHANGED <<loan, hold, potential, listed, crashes>>

-----------------------------------------------------------------------------
(* new_hold_copy_targeter: it lists holds and then works through its list. *)

\* Mutant: the targets of other holds are not looked at.
NeverTaken(c, h) == FALSE

Taken(c, h) == \E g \in Holds \ {h} : Live(g) /\ hold[g].copy = c
OnOrNearShelf(c) == status[c] \in {"available", "reshelving"}

Listable(h) == Live(h) /\ ~hold[h].frozen

\* All that is asked of the hold when it is fetched again.
Targetable(h) == ~hold[h].captured /\ ~hold[h].cancelled

TargetHold(h) ==
    LET all  == {c \in Copies : status[c] \notin {"lost", "missing"}}
        old  == hold[h].copy
        good == {c \in all \ {old} : ~Taken(c, h)}
        best == {c \in good : OnOrNearShelf(c)}
                \cup {c \in all \cap {old} : OnOrNearShelf(c) \/ ~Taken(c, h)}
    IN
    \/ /\ potential' = [potential EXCEPT ![h] = all]
       /\ \E c \in best \cup {NoCopy} : hold' = [hold EXCEPT ![h].copy = c]
    \* expired, or all target loops used up
    \/ /\ potential' = [potential EXCEPT ![h] = {}]
       /\ \E c \in {old, NoCopy} :
             hold' = [hold EXCEPT ![h].copy = c, ![h].cancelled = TRUE]

\* The periodic run lists the holds that wait ...
ListHold(h) ==
    /\ "retarget" \in Requests /\ Serving
    /\ h \notin listed
    /\ Listable(h) /\ ~hold[h].captured
    /\ listed' = listed \cup {h}
    /\ UNCHANGED <<status, loan, hold, potential, transit, todo, crashes>>

\* ... and comes to each of them in a transaction of its own.
Targeter(h) ==
    /\ Serving
    /\ h \in listed
    /\ listed' = listed \ {h}
    /\ IF Targetable(h) THEN TargetHold(h) ELSE UNCHANGED <<hold, potential>>
    /\ UNCHANGED <<status, loan, transit, todo, crashes>>

\* A follow-up of a committed request.  A call of the targeter for one hold
\* comes to it at once: what could happen after it is listed is what may happen
\* to a hold of the periodic run.
FollowUp(f) ==
    /\ f \in todo
    /\ \/ /\ f.op = "target"
          /\ IF Listable(f.hold) /\ Targetable(f.hold)
             THEN TargetHold(f.hold) ELSE UNCHANGED <<hold, potential>>
          /\ todo' = todo \ {f}
          /\ UNCHANGED <<status, transit>>
       \/ /\ f.op = "refetch"
          /\ todo' = (todo \ {f}) \cup {Reset(f.hold)}
          /\ UNCHANGED <<status, hold, potential, transit>>
       \/ /\ f.op = "reset"
          /\ DoReset(f.hold, f.row)
          /\ todo' = (todo \ {f}) \cup Retarget({f.hold})
          /\ UNCHANGED potential
    /\ UNCHANGED <<loan, listed, crashes>>

\* The process dies first.
Crash(f) ==
    /\ crashes < MaxCrashes
    /\ f \in todo
    /\ todo' = todo \ {f}
    /\ crashes' = crashes + 1
    /\ UNCHANGED <<status, loan, hold, potential, listed, transit>>

-----------------------------------------------------------------------------

Desk(c) ==
    \/ \E l \in Libs : CheckinLoan(c, l) \/ CheckinTransit(c, l) \/ CheckinOther(c, l)
    \/ \E u \in Users : Checkout(c, u)
    \/ Renew(c) \/ SetClaimsReturned(c) \/ SetLost(c) \/ MarkItem(c)
    \/ ReshelvingDone(c)

HoldRequest(h) ==
    \/ \E l \in Libs : PlaceHold(h, l) \/ ChangePickup(h, l)
    \/ CancelHold(h) \/ UncancelHold(h) \/ Freeze(h) \/ Thaw(h) \/ Amend(h)
    \/ ResetHold(h) \/ ListHold(h) \/ Targeter(h)

Next ==
    \/ \E c \in Copies : Desk(c)
    \/ \E h \in Holds : HoldRequest(h)
    \/ \E t \in TransitIds : AbortTransit(t)
    \/ \E f \in todo : FollowUp(f) \/ Crash(f)

Spec == Init /\ [][Next]_vars

-----------------------------------------------------------------------------
(* Properties.                                                             *)

\* do_checkout, mark_item and the checkins keep copy.status in step with the
\* loan: a copy somebody has is checked out, lost or missing, never one that
\* the catalogue offers or the targeter asks for.
LoanedStatus ==
    \A c \in Copies : loan[c] # NoLoan => status[c] \in {"checked_out", "lost", "missing"}

\* The targeter and attempt_checkin_hold_capture never give one copy to two
\* holds that are both waiting.
OneHoldPerCopy ==
    \A c \in Copies, g, h \in Holds : g \in LiveFor(c) /\ h \in LiveFor(c) => g = h

\* do_checkin, abort_transit and _reset_hold keep the transit rows and the
\* status of a copy in step: one open transit while it is in transit, else none.
InTransitOnce ==
    \A c \in Copies :
        Cardinality(OpenTransits(c)) = IF status[c] = "in_transit" THEN 1 ELSE 0

\* A captured hold that waits for its patron has a copy, and the copy is on a
\* holds shelf or on its way to the library where the hold is picked up.
\* (Between a commit and the reset of the hold that follows it need not.)
CapturedIsReady ==
    \A h \in Holds :
        Live(h) /\ hold[h].captured /\ (\A f \in todo : f.hold # h)
        => LET c == hold[h].copy IN
           /\ c # NoCopy
           /\ \/ status[c] = "holds_shelf" /\ hold[h].shelf # NoLib
              \/ \E t \in OpenTransits(c) : transit[t].hold = h
                                            /\ transit[t].dest = hold[h].pickup

\* put_hold_on_shelf gives a hold its shelf (and starts its shelf expiry and
\* the patron's notice) for a copy that is captured for it, and every request
\* that takes the copy away takes the shelf away.
ShelfBelongsToCapture ==
    \A h \in Holds : Live(h) /\ hold[h].shelf # NoLib => hold[h].captured

\* do_copy_checks: a copy on loan is in nobody's van.
NoLoanInTransit == \A c \in Copies : loan[c] # NoLoan => OpenTransits(c) = {}

\* No request takes the fulfillment of a hold back (capture clears
\* fulfillment_time, and a reset writes a whole row).
FulfilledIsFinal == [][\A h \in Holds : hold[h].fulfilled => hold'[h].fulfilled]_vars

\* A hold is fulfilled only by lending its patron the copy it then names.
FilledForOwner ==
    [][\A h \in Holds : ~hold[h].fulfilled /\ hold'[h].fulfilled =>
          /\ hold'[h].copy # NoCopy
          /\ loan'[hold'[h].copy] # NoLoan
          /\ loan'[hold'[h].copy].usr = Owner[h]]_vars

=============================================================================
