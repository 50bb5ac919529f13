---------------------------- MODULE SelfCheckout ----------------------------
(***************************************************************************)
(* A patron scans copies at a self-check station (selfcheck.js) while the  *)
(* desks of Circulation work on the same copies.                           *)
(*                                                                         *)
(* One scan is a chain of requests: checkout.full, then what              *)
(* handleXactResult makes of the answer, which may be the same request     *)
(* with .override, a renewal, or the abort of a transit, a checkin and the *)
(* checkout again.  Requests are synchronous: nothing else happens at the  *)
(* station during a scan, but a desk may act between two of its requests.  *)
(***************************************************************************)
EXTENDS Circulation

CONSTANTS
    Here,       \* the library of the station
    Patron,     \* who is logged in
    Overrides,  \* circ.selfcheck.auto_override_checkout_events
    Blocks,     \* circ.selfcheck.block_checkout_on_copy_status
    Permitted,  \* the station's account has every permission
    Beside,     \* desks act during a scan
    MaxActs     \* bound: requests of desks while a scan runs

ASSUME SelfCheckoutAssumption ==
    /\ Here \in Libs /\ Patron \in Users
    /\ Overrides \subseteq STRING /\ Blocks \subseteq Statuses
    /\ Permitted \in BOOLEAN /\ Beside \in BOOLEAN /\ MaxActs \in Nat

VARIABLES
    call,  \* the request the scan makes next, or Idle
    said,  \* what the last scan came to
    debt,  \* PATRON_EXCEEDS_FINES
    acts   \* requests of desks during this scan

kioskvars == <<call, said, debt, acts>>
allvars == <<vars, kioskvars>>

Idle == [api |-> "none"]

Request(api, c, override) == [api |-> api, copy |-> c, override |-> override]

KioskInit == Init /\ call = Idle /\ said = "nothing" /\ debt = FALSE /\ acts = 0

-----------------------------------------------------------------------------
(* What the server answers *)

\* do_permit, once the copy may be lent at all: check_captured_holds and
\* item_user_circ_test.
Standing(c) ==
    {e \in {"ITEM_ON_HOLDS_SHELF", "COPY_NOT_AVAILABLE", "PATRON_EXCEEDS_FINES"} :
        CASE e = "ITEM_ON_HOLDS_SHELF" ->
                status[c] = "holds_shelf" /\ \A h \in Waiting(c) : Owner[h] # Patron
          [] e = "COPY_NOT_AVAILABLE" ->
                status[c] \notin {"available", "reshelving", "holds_shelf"}
          [] e = "PATRON_EXCEEDS_FINES" -> debt}

\* Mutant of PermitEvents: a copy on the shelf of another hides what else stands.
PermitEventsShelf(c, override) ==
    CASE status[c] = "in_transit" -> {"COPY_IN_TRANSIT"}
      [] loan[c] # NoLoan /\ ~(override /\ loan[c].stop = "claims") ->
            {IF loan[c].stop = "claims" THEN "CIRC_CLAIMS_RETURNED"
             ELSE "OPEN_CIRCULATION_EXISTS"}
      [] OTHER -> IF "ITEM_ON_HOLDS_SHELF" \in Standing(c) THEN {"ITEM_ON_HOLDS_SHELF"}
                  ELSE Standing(c)

\* A transit and a loan end do_copy_checks at once; with .override a loan that
\* is claimed to be returned is closed instead.
PermitEvents(c, override) ==
    CASE status[c] = "in_transit" -> {"COPY_IN_TRANSIT"}
      [] loan[c] # NoLoan /\ ~(override /\ loan[c].stop = "claims") ->
            {IF loan[c].stop = "claims" THEN "CIRC_CLAIMS_RETURNED"
             ELSE "OPEN_CIRCULATION_EXISTS"}
      [] OTHER -> Standing(c)

Lends(c, override) ==
    LET E == PermitEvents(c, override) IN
    E = {} \/ (override /\ E \intersect {"COPY_IN_TRANSIT", "CIRC_CLAIMS_RETURNED",
                                         "OPEN_CIRCULATION_EXISTS"} = {})

-----------------------------------------------------------------------------
(* The station *)

Ends(outcome) == call' = Idle /\ said' = outcome
Goes(api, c, override) == call' = Request(api, c, override) /\ UNCHANGED said

Scan(c) ==
    /\ call = Idle
    /\ call' = Request("checkout", c, FALSE)
    /\ acts' = 0
    /\ UNCHANGED <<vars, said, debt>>

\* The events are all listed, and the copy's status is none that blocks.
Overridden(E, c) ==
    /\ E \subseteq Overrides
    /\ ~("COPY_NOT_AVAILABLE" \in E /\ status[c] \in Blocks)

\* Mutant of Handle: the request is made again as it was.
HandleAgain(E, c) ==
    IF "OPEN_CIRCULATION_EXISTS" \in E
    THEN IF loan[c].usr = Patron
         \* the auto-renew interval may not have passed
         THEN Goes("renew", c, FALSE) \/ Ends("alert")
         ELSE IF status[c] = "lost" /\ "COPY_STATUS_LOST" \in Overrides
         THEN Goes("abort", c, FALSE)
         ELSE Ends("alert")
    ELSE IF ~Overridden(E, c) THEN Ends("alert")
    ELSE IF "COPY_IN_TRANSIT" \in E THEN Goes("abort", c, FALSE)
    ELSE Goes(call.api, c, call.override)

\* handleXactResult, for events E.
Handle(E, c) ==
    IF "OPEN_CIRCULATION_EXISTS" \in E
    THEN IF loan[c].usr = Patron
         \* the auto-renew interval may not have passed
         THEN Goes("renew", c, FALSE) \/ Ends("alert")
         ELSE IF status[c] = "lost" /\ "COPY_STATUS_LOST" \in Overrides
         THEN Goes("abort", c, FALSE)
         ELSE Ends("alert")
    ELSE IF ~Overridden(E, c) THEN Ends("alert")
    ELSE IF "COPY_IN_TRANSIT" \in E THEN Goes("abort", c, FALSE)
    ELSE Goes(call.api, c, TRUE)

\* An override, an abort or a checkin the account is not allowed.
NotAllowed == ~Permitted /\ Ends("alert") /\ UNCHANGED vars

\* open-ils.circ.checkout.full
CheckoutCall(c) ==
    /\ call.api = "checkout" /\ call.copy = c
    /\ \/ Lends(c, call.override) /\ Checkout(c, Patron) /\ Ends("lent")
       \/ /\ ~Lends(c, call.override)
          /\ Handle(PermitEvents(c, call.override), c)
          /\ UNCHANGED vars
       \/ call.override /\ NotAllowed
    /\ UNCHANGED <<debt, acts>>

\* open-ils.circ.renew; max stands for MAX_RENEWALS_REACHED.
RenewCall(c) ==
    /\ call.api = "renew" /\ call.copy = c
    /\ \E max \in BOOLEAN :
          LET mine == loan[c] = [usr |-> Patron, stop |-> "none"]
              E == {e \in {"MAX_RENEWALS_REACHED", "COPY_NOT_AVAILABLE",
                           "PATRON_EXCEEDS_FINES"} :
                       CASE e = "MAX_RENEWALS_REACHED" -> max
                         [] e = "COPY_NOT_AVAILABLE" -> status[c] # "checked_out"
                         [] e = "PATRON_EXCEEDS_FINES" -> debt}
          IN
          \/ mine /\ (E = {} \/ call.override) /\ Renew(c) /\ Ends("renewed")
          \/ mine /\ E # {} /\ ~call.override /\ Handle(E, c) /\ UNCHANGED vars
          \/ ~mine /\ Ends("alert") /\ UNCHANGED vars
          \/ call.override /\ NotAllowed
    /\ UNCHANGED <<debt, acts>>

\* checkin(): the transit first ...
AbortCall(c) ==
    /\ call.api = "abort" /\ call.copy = c
    /\ \/ (\E t \in OpenTransits(c) : AbortTransit(t)) /\ Goes("checkin", c, FALSE)
       \* the search for the transit fails
       \/ OpenTransits(c) = {} /\ Ends("alert") /\ UNCHANGED vars
       \/ NotAllowed
    /\ UNCHANGED <<debt, acts>>

\* A checkin that neither captures the copy nor sends it away.
Noop(c) ==
    /\ status'[c] # "in_transit"
    /\ status'[c] = "missing" => status[c] = "missing"
    /\ \A h \in Holds : hold'[h].captured = hold[h].captured

\* ... then checkin.override, as a no-op, and the checkout again.
CheckinCall(c) ==
    /\ call.api = "checkin" /\ call.copy = c
    /\ \/ /\ \/ CheckinLoan(c, Here) \/ CheckinTransit(c, Here) \/ CheckinOther(c, Here)
          /\ Noop(c)
          /\ Goes("checkout", c, FALSE)
       \* NO_CHANGE: on the shelf for a hold to be picked up here
       \/ /\ status[c] = "holds_shelf" /\ \E h \in Waiting(c) : hold[h].pickup = Here
          /\ Goes("checkout", c, FALSE) /\ UNCHANGED vars
       \* ROUTE_ITEM
       \/ /\ loan[c] = NoLoan /\ \E t \in OpenTransits(c) : transit[t].dest # Here
          /\ Ends("alert") /\ UNCHANGED vars
       \/ NotAllowed
    /\ UNCHANGED <<debt, acts>>

Kiosk == \E c \in Copies : CheckoutCall(c) \/ RenewCall(c) \/ AbortCall(c) \/ CheckinCall(c)

-----------------------------------------------------------------------------
(* Everybody else *)

Undisturbed == call = Idle \/ (Beside /\ acts < MaxActs)
Counted == acts' = IF call = Idle THEN acts ELSE acts + 1

Others ==
    /\ Undisturbed /\ Counted
    /\ \/ \E c \in Copies : Desk(c)
       \/ \E h \in Holds : HoldRequest(h)
       \/ \E t \in TransitIds : AbortTransit(t)
    /\ UNCHANGED <<call, said, debt>>

\* The patron's account is billed, or paid.
Fines ==
    /\ Undisturbed /\ Counted
    /\ debt' = ~debt
    /\ UNCHANGED <<vars, call, said>>

Completions == (\E f \in todo : FollowUp(f)) /\ UNCHANGED kioskvars
Crashes == (\E f \in todo : Crash(f)) /\ UNCHANGED kioskvars

KioskNext == (\E c \in Copies : Scan(c)) \/ Kiosk \/ Others \/ Fines
             \/ Completions \/ Crashes

KioskSpec == KioskInit /\ [][KioskNext]_allvars

\* The server answers every request and does what it still has to do.
LiveSpec == KioskSpec /\ WF_allvars(Kiosk) /\ WF_allvars(Completions)

-----------------------------------------------------------------------------
(* Correctness *)

\* Unless a desk came in between, the station lends a copy only over events that
\* its library lists, and never a copy in a status that blocks, whatever the
\* chain of requests was (handleXactResult, "see if the events we received are
\* all in the list of events to override").
LendsAsConfigured ==
    [][\A c \in Copies :
          /\ call.api = "checkout" /\ call.copy = c
          /\ call' = Idle /\ said' = "lent" /\ acts = 0
          => Overridden(PermitEvents(c, FALSE) \union Standing(c), c)]_allvars

\* Every scan comes to an end: overriding, renewing and checking in do not go
\* round in circles, however the desks came in between.
ScanEnds == call # Idle ~> call = Idle
=============================================================================
