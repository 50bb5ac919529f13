----------------------------- MODULE PatronProofs -----------------------------
(***************************************************************************)
(* Proofs about what a patron uses without staff:                          *)
(*                                                                         *)
(* - the page of OpacHolds tells the truth until somebody else acts, for   *)
(*   any holds, copies and desks beside it and any requests;               *)
(* - the station of SelfCheckout lends only over events that its library   *)
(*   lists, if `claims returned' is none of them and no request is served  *)
(*   while a reset waits (`Steady', as for Circulation itself).            *)
(***************************************************************************)
EXTENDS OpacHolds, SelfCheckout, CirculationProofs

(* The page. *)

\* Requests are under way only during a batch, one for each of the holds that
\* are awaited.
PageInv ==
    /\ page # "processing" => calls = {}
    /\ \A c \in calls : c.hold \in awaited
    /\ \A c, d \in calls : c.hold = d.hold => c = d
    /\ ShowsTruth

\* A batch is sent with one request for each hold that it awaits.
LEMMA SendOnce ==
  ASSUME PageInv, NEW action, NEW S \in SUBSET Listed, DoHoldAction(action, S)
  PROVE  PageInv'
  <1>1. page' = "processing" /\ awaited' = Chosen(action, S)
    BY DEF DoHoldAction
  <1> DEFINE request(h) == [op |-> IF action = "cancel" THEN "cancel" ELSE "update",
                            hold |-> h, row |-> Altered(action, h)]
  <1>2. calls' = {request(h) : h \in Chosen(action, S)}
    BY DEF DoHoldAction, Send
  <1>3. \A h : request(h).hold = h
    OBVIOUS
  <1> HIDE DEF request
  <1>4. /\ \A c \in calls' : c.hold \in awaited'
        /\ \A c, d \in calls' : c.hold = d.hold => c = d
    BY <1>1, <1>2, <1>3
  <1> QED BY <1>1, <1>4 DEF PageInv, ShowsTruth

\* A served request takes its hold off the awaited ones, and only it.
LEMMA ServeOnce ==
  ASSUME PageInv, NEW c \in calls, BatchCall(c)
  PROVE  PageInv'
  <1>1. page' = page /\ page = "processing"
    BY DEF BatchCall, PageInv
  <1>2. calls' = calls \ {c} /\ awaited' = awaited \ {c.hold}
    BY DEF BatchCall
  <1> QED BY <1>1, <1>2 DEF PageInv, ShowsTruth

\* A fetched list is the table.
LEMMA FetchedIsTrue ==
  ASSUME FetchHolds, UNCHANGED vars
  PROVE  ShowsTruth'
  BY DEF FetchHolds, ShowsTruth, Listed, vars

\* The batch is over when no answer is awaited, hence none is under way.
LEMMA PageStep ==
  ASSUME PageInv, [PageNext]_viewvars
  PROVE  PageInv'
  <1>1. CASE ShowHolds \/ BatchDone
    <2>1. page # "processing" \/ awaited = {}
      BY <1>1 DEF ShowHolds, BatchDone
    <2>2. calls = {}
      BY <2>1 DEF PageInv
    <2>3. calls' = {} /\ ShowsTruth'
      BY <1>1, <2>2, FetchedIsTrue DEF ShowHolds, BatchDone
    <2> QED BY <2>3 DEF PageInv
  <1>2. CASE Leave
    BY <1>2 DEF Leave, PageInv, ShowsTruth
  <1>3. ASSUME NEW h \in Holds, ShowStatus(h) PROVE PageInv'
    BY <1>3 DEF ShowStatus, PageInv, ShowsTruth, Listed, vars
  <1>4. ASSUME NEW h \in Holds, EditHold(h) PROVE PageInv'
    BY <1>4 DEF EditHold, PageInv, ShowsTruth
  <1>5. ASSUME NEW l \in Libs, NEW frozen \in BOOLEAN, Submit(l, frozen) PROVE PageInv'
    BY <1>5 DEF Submit, PageInv, ShowsTruth
  <1>6. CASE Page
    BY <1>1, <1>2, <1>3, <1>4, <1>5, <1>6, SendOnce, ServeOnce DEF Page
  <1>7. CASE Unseen
    BY <1>7 DEF Unseen, PageInv, ShowsTruth
  <1>8. CASE UNCHANGED viewvars
    BY <1>8 DEF viewvars, vars, pagevars, PageInv, ShowsTruth, Listed
  <1> QED BY <1>6, <1>7, <1>8 DEF PageNext, Elsewhere, Follow

\* showHolds and the callbacks of the batch (myopac.js): the list is drawn anew
\* only when every answer of a batch is in, so that it shows no change which the
\* server refused, and no row as it was before a later answer.
THEOREM PageTellsTruth == PageSpec => []ShowsTruth
  <1>1. PageInit => PageInv
    BY DEF PageInit, PageInv, ShowsTruth
  <1>2. PageInv => ShowsTruth
    BY DEF PageInv
  <1> QED BY <1>1, <1>2, PageStep, PTL DEF PageSpec

-----------------------------------------------------------------------------
(* The page beside the copies. *)

\* What the page may send back: a row that a hold had while it was live.
SentRows == {r \in HoldRows : r.placed /\ ~r.fulfilled}

PageRows ==
    /\ cache \in [Holds -> SentRows \cup {NoRow}]
    /\ \A c \in calls : /\ c.op \in {"update", "cancel"} /\ c.hold \in Holds
                        /\ c.row \in SentRows
    /\ page = "editor" => editor.hold \in Listed

BesideInv == IInv /\ CopyInv /\ PageRows

\* update_hold writes the row it is sent, however old it is, and moves at most
\* the destination of the hold's transit.
LEMMA UpdateStep ==
  ASSUME CirculationAssumption, Tidy, IInv, CopyInv, NEW h \in Holds,
         NEW row \in SentRows, Serving, UpdateHold(h, row)
  PROVE  IInv' /\ CopyInv'
  <1>1. TypeOK /\ TransitInv /\ LoanedStatus /\ hold \in HoldTables
    BY DEF IInv, CopyInv, TypeOK, HoldTables
  <1>2. TargetsOnly
    BY ServedSteady DEF Tidy
  <1>3. /\ UNCHANGED <<status, loan, potential, listed, crashes>>
        /\ todo' \subseteq todo \cup Retarget({h})
    BY DEF UpdateHold
  <1>4. todo' \in SUBSET FollowUps /\ \A f \in todo' \ todo : f.op = "target"
    BY <1>1, <1>3, RetargetFacts DEF TypeOK
  <1>5. /\ hold' \in HoldTables
        /\ ~hold'[h].fulfilled
        /\ \A g \in Holds \ {h} : hold'[g] = hold[g]
    <2> DEFINE new == [row EXCEPT !.copy = IF row.frozen THEN NoCopy ELSE @]
    <2>1. new \in HoldRows /\ ~new.fulfilled
      BY DEF SentRows, HoldRows
    <2>2. hold' = [hold EXCEPT ![h] = new]
      BY DEF UpdateHold
    <2> HIDE DEF new
    <2> QED BY <1>1, <2>1, <2>2, TableUpdate DEF HoldTables
  <1>6. ASSUME NEW t \in HoldTransits(h), transit' = [transit EXCEPT ![t].dest = row.pickup]
        PROVE  transit' \in TransitTables /\ TransitInv' /\ LoanedStatus'
    <2> DEFINE new == [transit[t] EXCEPT !.dest = row.pickup]
    <2>1. t \in TransitIds /\ transit[t] # NoTransit /\ transit[t] \in TransitRows
      BY <1>1 DEF HoldTransits, TypeOK
    <2>2. row.pickup \in Libs
      BY DEF SentRows, HoldRows
    <2>3. /\ new \in TransitRows /\ new.copy = transit[t].copy
          /\ new.open = transit[t].open /\ new.back # "in_transit"
      BY <1>1, <2>1, <2>2 DEF TransitRows, TransitInv
    <2>4. transit' = [transit EXCEPT ![t] = new]
      BY <1>6
    <2> HIDE DEF new
    <2>5. transit' \in TransitTables
      BY <1>1, <2>1, <2>3, <2>4, TableUpdate DEF TypeOK, TransitTables
    <2> QED BY <1>1, <1>3, <2>1, <2>3, <2>4, <2>5, RowChange
  <1>7. ASSUME UNCHANGED transit
        PROVE  transit' \in TransitTables /\ TransitInv' /\ LoanedStatus'
    <2>1. \A d \in Copies : /\ status'[d] = "in_transit" <=> status[d] = "in_transit"
                            /\ loan'[d] # NoLoan => status'[d] \in OnLoan
      BY <1>1, <1>3 DEF LoanedStatus, OnLoan
    <2> QED BY <1>1, <1>7, <2>1, TransitsAlone DEF TypeOK, TransitTables
  <1>8. transit' \in TransitTables /\ TransitInv' /\ LoanedStatus'
    BY ONLY <1>6, <1>7, UpdateHold(h, row) DEF UpdateHold
  <1>9. TypeOK'
    BY <1>1, <1>3, <1>4, <1>5, <1>8 DEF TypeOK, HoldTables, TransitTables
  <1>10. Sealed(hold)'
    BY <1>3, <1>5 DEF IInv, Sealed
  <1>11. ResetsAgree' /\ Orderly'
    BY <1>2, <1>4 DEF ResetsAgree, Orderly, TargetsOnly
  <1> QED BY <1>2, <1>4, <1>8, <1>9, <1>10, <1>11, OnlyTargets DEF IInv, CopyInv

\* A request of the page that is served, or refused, keeps the copies in step.
LEMMA ServeStep ==
  ASSUME CirculationAssumption, Tidy, IInv, CopyInv, NEW c,
         c.op \in {"update", "cancel"}, c.hold \in Holds, c.row \in SentRows, Serve(c)
  PROVE  IInv' /\ CopyInv'
  <1>1. CASE UpdateHold(c.hold, c.row)
    BY <1>1, UpdateStep DEF Serve
  <1>2. CASE CancelHold(c.hold)
    BY <1>2, CancelStep, CancelKeeps DEF Kept
  <1>3. CASE UNCHANGED vars
    BY <1>3, NextStep, NextCopies DEF Kept, Tidy
  <1> QED BY <1>1, <1>2, <1>3 DEF Serve

\* A fetched list holds live rows.
LEMMA FetchedRows ==
  ASSUME IInv, FetchHolds
  PROVE  cache' \in [Holds -> SentRows \cup {NoRow}]
  <1>1. \A h \in Holds : Live(h) => hold[h] \in SentRows
    BY DEF IInv, TypeOK, Live, SentRows
  <1> QED BY <1>1 DEF FetchHolds

\* What is altered is still a row that was live.
LEMMA AlteredRows ==
  ASSUME PageRows, NEW action \in {"cancel", "freeze", "thaw", "date"}, NEW h \in Listed
  PROVE  Altered(action, h) \in SentRows
  <1>1. cache[h] \in SentRows
    BY DEF PageRows, Listed
  <1>2. [cache[h] EXCEPT !.frozen = FALSE] \in SentRows
    BY <1>1 DEF SentRows, HoldRows
  <1>3. [cache[h] EXCEPT !.frozen = TRUE] \in SentRows
    BY <1>1 DEF SentRows, HoldRows
  <1>4. CASE action = "cancel"
    BY <1>1, <1>4 DEF Altered
  <1>5. CASE action = "thaw"
    BY <1>2, <1>5 DEF Altered
  <1>6. CASE action \in {"freeze", "date"}
    BY <1>3, <1>6 DEF Altered
  <1> QED BY <1>4, <1>5, <1>6

\* The rows of a batch.
LEMMA SentRowsStep ==
  ASSUME PageRows, NEW action \in {"cancel", "freeze", "thaw", "date"}, NEW S \in SUBSET Listed,
         DoHoldAction(action, S)
  PROVE  PageRows'
  <1>1. Chosen(action, S) \subseteq S /\ S \subseteq Holds
    BY DEF Chosen, Listed
  <1> DEFINE row(h) == Altered(action, h)
             request(h) == [op |-> IF action = "cancel" THEN "cancel" ELSE "update",
                            hold |-> h, row |-> row(h)]
  <1>2. \A h \in S : row(h) \in SentRows
    BY AlteredRows
  <1>3. /\ cache' = [h \in Holds |-> IF h \in Chosen(action, S) THEN row(h) ELSE cache[h]]
        /\ calls' = {request(h) : h \in Chosen(action, S)}
        /\ page' = "processing"
    BY DEF DoHoldAction, Send
  <1> HIDE DEF row
  <1>4. cache' \in [Holds -> SentRows \cup {NoRow}]
    BY <1>1, <1>2, <1>3 DEF PageRows
  <1>5. \A h \in S : /\ request(h).op \in {"update", "cancel"} /\ request(h).hold = h
                     /\ request(h).row = row(h)
    OBVIOUS
  <1> HIDE DEF request
  <1>6. \A c \in calls' : /\ c.op \in {"update", "cancel"} /\ c.hold \in Holds
                          /\ c.row \in SentRows
    BY <1>1, <1>2, <1>3, <1>5
  <1> QED BY <1>3, <1>4, <1>6 DEF PageRows

\* The editor sends the row of its hold with another pickup library.
LEMMA SubmitStep ==
  ASSUME CirculationAssumption, Tidy, BesideInv, NEW l \in Libs, NEW frozen \in BOOLEAN,
         Submit(l, frozen)
  PROVE  BesideInv'
  <1> DEFINE row == [cache[editor.hold] EXCEPT !.pickup = l, !.frozen = frozen]
             request == [op |-> "update", hold |-> editor.hold, row |-> row]
  <1>1. editor.hold \in Holds /\ cache[editor.hold] \in SentRows
    BY DEF Submit, BesideInv, PageRows, Listed
  <1>2. row \in SentRows
    BY <1>1 DEF SentRows, HoldRows
  <1>3. Serve(request)
    BY DEF Submit
  <1>4. request.op = "update" /\ request.hold = editor.hold /\ request.row = row
    OBVIOUS
  <1> HIDE DEF row, request
  <1>5. IInv' /\ CopyInv'
    BY <1>1, <1>2, <1>3, <1>4, ServeStep DEF BesideInv
  <1>6. PageRows'
    BY DEF Submit, BesideInv, PageRows
  <1> QED BY <1>5, <1>6 DEF BesideInv

\* Every step of the page and of those beside it.
LEMMA BesideStep ==
  ASSUME CirculationAssumption, Tidy, BesideInv, [PageNext]_viewvars
  PROVE  BesideInv'
  <1>1. ASSUME UNCHANGED vars PROVE IInv' /\ CopyInv'
    BY <1>1, NextStep, NextCopies DEF BesideInv, Kept, Tidy
  <1>2. CASE ShowHolds \/ BatchDone
    <2>1. UNCHANGED vars /\ FetchHolds /\ page' = "list" /\ UNCHANGED calls
      BY <1>2 DEF ShowHolds, BatchDone
    <2> QED BY <1>1, <2>1, FetchedRows DEF BesideInv, PageRows
  <1>3. CASE Leave
    BY <1>1, <1>3 DEF Leave, BesideInv, PageRows
  <1>4. ASSUME NEW h \in Holds, ShowStatus(h) \/ EditHold(h) PROVE BesideInv'
    <2>1. UNCHANGED vars /\ UNCHANGED <<cache, calls>>
      BY <1>4 DEF ShowStatus, EditHold
    <2>2. page' = "editor" => editor'.hold \in Listed
      BY <1>4 DEF ShowStatus, EditHold
    <2>3. Listed' = Listed
      BY <2>1 DEF Listed
    <2> QED BY <1>1, <2>1, <2>2, <2>3 DEF BesideInv, PageRows
  <1>5. ASSUME NEW action \in {"cancel", "freeze", "thaw", "date"}, NEW S \in SUBSET Listed,
               DoHoldAction(action, S)
        PROVE  BesideInv'
    BY <1>1, <1>5, SentRowsStep DEF BesideInv, DoHoldAction
  <1>6. ASSUME NEW c \in calls, BatchCall(c) PROVE BesideInv'
    <2>1. IInv' /\ CopyInv'
      BY <1>6, ServeStep DEF BatchCall, BesideInv, PageRows
    <2>2. UNCHANGED <<page, cache, editor>> /\ calls' \subseteq calls
      BY <1>6 DEF BatchCall
    <2> QED BY <2>1, <2>2 DEF BesideInv, PageRows, Listed
  <1>7. CASE Page
    BY <1>2, <1>3, <1>4, <1>5, <1>6, <1>7, SubmitStep DEF Page
  <1>8. CASE Elsewhere
    <2>1. Next
      BY <1>8 DEF Elsewhere, Follow, Next
    <2>2. IInv' /\ CopyInv'
      BY <2>1, NextStep, NextCopies DEF BesideInv, Kept, Tidy
    <2>3. UNCHANGED <<page, cache, calls, editor>>
      BY <1>8 DEF Elsewhere, Follow, Unseen
    <2> QED BY <2>2, <2>3 DEF BesideInv, PageRows, Listed
  <1>9. CASE UNCHANGED viewvars
    <2>1. UNCHANGED vars /\ UNCHANGED <<page, cache, calls, editor>>
      BY <1>9 DEF viewvars, pagevars
    <2> QED BY <1>1, <2>1 DEF BesideInv, PageRows, Listed
  <1> QED BY <1>7, <1>8, <1>9 DEF PageNext

\* update_hold with a whole row (holds.js, myopac.js) is no step of Circulation:
\* it may write back what a hold was before somebody else's request.  It spoils
\* what is known of holds, but it leaves copies, their loans and their transits
\* in step, and every column with a value of its type.
THEOREM StaleRowsSpareCopies ==
  ASSUME CirculationAssumption, OpacAssumption, Tidy
  PROVE  PageSpec => [](TypeOK /\ LoanedStatus /\ NoLoanInTransit /\ InTransitOnce)
  <1>1. PageInit => BesideInv
    <2> SUFFICES ASSUME PageInit PROVE BesideInv
      OBVIOUS
    <2>1. IInv /\ CopyInv
      BY InitInv, InitCopies DEF PageInit
    <2> QED BY <2>1 DEF PageInit, BesideInv, PageRows
  <1>2. BesideInv /\ [PageNext]_viewvars => BesideInv'
    BY BesideStep
  <1>3. BesideInv => TypeOK /\ LoanedStatus /\ NoLoanInTransit /\ InTransitOnce
    BY OneOpen, LoanedNotMoving DEF BesideInv, IInv, CopyInv, NoLoanInTransit
  <1> QED BY <1>1, <1>2, <1>3, PTL DEF PageSpec

-----------------------------------------------------------------------------
(* The station. *)

StationCalls == [api : {"checkout", "renew", "abort", "checkin"}, copy : Copies,
                 override : BOOLEAN]

\* A waiting reset carries the copy that its hold still waits with: what is
\* written back is no older than the capture.
RowsCurrent ==
    \A f \in todo :
        f.op = "reset" /\ Live(f.hold) /\ hold[f.hold].captured
        => f.row.captured /\ f.row.copy = hold[f.hold].copy

\* An override that no desk came in between is made for events that stand as
\* they stood when they were judged, or for fewer.
JudgedAgain ==
    call.api = "checkout" /\ call.override /\ acts = 0
    => LET c == call.copy IN
       /\ status[c] # "in_transit"
       /\ loan[c] = NoLoan
       /\ Overridden(Standing(c), c)

KioskInv ==
    /\ IInv
    /\ call = Idle \/ call \in StationCalls
    /\ acts \in Nat
    /\ RowsCurrent
    /\ JudgedAgain

(* What resets carry. *)

\* The end of a checkin asks only for holds to be targeted.
LEMMA SettleAsks ==
  ASSUME NEW c, NEW l, NEW s, NEW r, NEW H, NEW T, Settle(c, l, s, r, H, T)
  PROVE  \A f \in todo' \ todo : f.op = "target"
  <1>1. ASSUME NEW h \in Capturable(c, H), CaptureHold(c, l, h, H, T)
        PROVE  todo' = todo \cup Retarget(OtherTargets(c, h, H))
    BY <1>1 DEF CaptureHold
  <1>2. ASSUME SendAway(c, l, s, r, H, T) \/ StayHere(c, s, H, T)
        PROVE  todo' = todo
    BY <1>2 DEF SendAway, StayHere
  <1>3. \A S : \A f \in Retarget(S) : f.op = "target"
    BY DEF Retarget
  <1> QED BY <1>1, <1>2, <1>3 DEF Settle

\* So does every request of a desk, except for marking a copy, which carries
\* the rows of its holds as they stay.
LEMMA DeskAsks ==
  ASSUME NEW c \in Copies, Desk(c)
  PROVE  \/ \A f \in todo' \ todo : f.op = "target"
         \/ /\ UNCHANGED hold
            /\ \A f \in todo' \ todo : f.row = hold[f.hold]
  <1>1. ASSUME NEW l \in Libs, CheckinLoan(c, l) \/ CheckinTransit(c, l) \/ CheckinOther(c, l)
        PROVE  \A f \in todo' \ todo : f.op = "target"
    BY <1>1, SettleAsks DEF CheckinLoan, CheckinTransit, CheckinOther, ArriveForHold
  <1>2. CASE MarkItem(c)
    BY <1>2 DEF MarkItem, Reset
  <1>3. CASE \/ \E u \in Users : Checkout(c, u)
             \/ Renew(c) \/ SetClaimsReturned(c) \/ SetLost(c) \/ ReshelvingDone(c)
    BY <1>3 DEF Checkout, Renew, SetClaimsReturned, SetLost, ReshelvingDone
  <1> QED BY <1>1, <1>2, <1>3 DEF Desk

\* The requests on a hold ask for it to be targeted.
LEMMA HoldRequestAsks ==
  ASSUME NEW h \in Holds, HoldRequest(h)
  PROVE  \A f \in todo' \ todo : f.op = "target"
  <1>1. ASSUME NEW l \in Libs, PlaceHold(h, l) \/ ChangePickup(h, l)
        PROVE  todo' \subseteq todo \cup Retarget({h})
    BY <1>1 DEF PlaceHold, ChangePickup
  <1>2. ASSUME CancelHold(h) \/ UncancelHold(h) \/ Freeze(h) \/ Thaw(h) \/ Amend(h)
        PROVE  todo' \subseteq todo \cup Retarget({h})
    BY <1>2 DEF CancelHold, UncancelHold, Freeze, Thaw, Amend
  <1>3. ASSUME ResetHold(h) \/ ListHold(h) \/ Targeter(h)
        PROVE  todo' \subseteq todo \cup Retarget({h})
    BY <1>3 DEF ResetHold, ListHold, Targeter
  <1>4. \A f \in Retarget({h}) : f.op = "target"
    BY DEF Retarget
  <1> QED BY <1>1, <1>2, <1>3, <1>4 DEF HoldRequest

\* A request is served with no reset waiting, or else none is ever left.
LEMMA RequestKeepsRows ==
  ASSUME Steady, IInv, IInv', Serving,
         \/ \A f \in todo' \ todo : f.op # "reset"
         \/ /\ UNCHANGED hold
            /\ \A f \in todo' \ todo : f.row = hold[f.hold]
  PROVE  RowsCurrent'
  <1>1. \A f \in todo : f.op = "target"
    BY ServedSteady DEF TargetsOnly
  <1>2. CASE \A f \in todo' \ todo : f.op # "reset"
    BY <1>1, <1>2 DEF RowsCurrent
  <1>3. CASE /\ UNCHANGED hold
             /\ \A f \in todo' \ todo : f.row = hold[f.hold]
    BY <1>1, <1>3 DEF RowsCurrent
  <1> QED BY <1>2, <1>3

\* Every request is served only where Serving says so.
LEMMA DeskServes ==
  ASSUME NEW c \in Copies, Desk(c)
  PROVE  Serving
  BY DEF Desk, CheckinLoan, CheckinTransit, CheckinOther, Checkout, Renew,
         SetClaimsReturned, SetLost, MarkItem, ReshelvingDone

LEMMA HoldRequestServes ==
  ASSUME NEW h \in Holds, HoldRequest(h)
  PROVE  Serving
  BY DEF HoldRequest, PlaceHold, ChangePickup, CancelHold, UncancelHold, Freeze, Thaw,
         Amend, ResetHold, ListHold, Targeter

-----------------------------------------------------------------------------
(* What follow-ups change under the station's feet. *)

\* What item_user_circ_test finds, event by event.
LEMMA StandingFacts ==
  ASSUME NEW c
  PROVE  /\ Standing(c) \subseteq {"ITEM_ON_HOLDS_SHELF", "COPY_NOT_AVAILABLE",
                                   "PATRON_EXCEEDS_FINES"}
         /\ "ITEM_ON_HOLDS_SHELF" \in Standing(c)
              <=> status[c] = "holds_shelf" /\ \A h \in Waiting(c) : Owner[h] # Patron
         /\ "COPY_NOT_AVAILABLE" \in Standing(c)
              <=> status[c] \notin {"available", "reshelving", "holds_shelf"}
         /\ "PATRON_EXCEEDS_FINES" \in Standing(c) <=> debt
  BY DEF Standing

\* No event comes to stand while the copy waits for whom it waited for, or
\* leaves the holds shelf.
LEMMA FewerStand ==
  ASSUME NEW c, UNCHANGED debt,
         \/ status'[c] = "reshelving"
         \/ /\ status'[c] = status[c]
            /\ status[c] = "holds_shelf" => Waiting(c)' = Waiting(c),
         Overridden(Standing(c), c)
  PROVE  Overridden(Standing(c), c)'
  <1>1. /\ Standing(c)' \subseteq {"ITEM_ON_HOLDS_SHELF", "COPY_NOT_AVAILABLE",
                                   "PATRON_EXCEEDS_FINES"}
        /\ "ITEM_ON_HOLDS_SHELF" \in Standing(c)'
             <=> status'[c] = "holds_shelf" /\ \A h \in Waiting(c)' : Owner[h] # Patron
        /\ "COPY_NOT_AVAILABLE" \in Standing(c)'
             <=> status'[c] \notin {"available", "reshelving", "holds_shelf"}
        /\ "PATRON_EXCEEDS_FINES" \in Standing(c)' <=> debt'
    BY DEF Standing
  <1>2. Standing(c)' \subseteq Standing(c)
    BY <1>1, StandingFacts
  <1>3. "COPY_NOT_AVAILABLE" \in Standing(c)' => status'[c] = status[c]
    BY <1>1
  <1> QED BY <1>2, <1>3 DEF Overridden

\* A reset changes one hold, which is captured no longer.
LEMMA ResetRow ==
  ASSUME TypeOK, NEW h \in Holds, NEW row \in HoldRows, DoReset(h, row)
  PROVE  ~hold'[h].captured /\ \A g \in Holds \ {h} : hold'[g] = hold[g]
  <1> DEFINE new == [row EXCEPT !.captured = FALSE, !.copy = NoCopy, !.shelf = NoLib]
  <1>1. new \in HoldRows /\ ~new.captured
    BY DEF HoldRows
  <1>2. hold' = [hold EXCEPT ![h] = new]
    BY DEF DoReset
  <1> HIDE DEF new
  <1> QED BY <1>1, <1>2, TableUpdate DEF TypeOK

\* If it carries the current copy it takes that copy off the shelf.
LEMMA ResetTakesCopy ==
  ASSUME CirculationAssumption, TypeOK, NEW c \in Copies, NEW h \in Holds,
         NEW row \in HoldRows, DoReset(h, row),
         h \in Waiting(c) => row.captured /\ row.copy = c
  PROVE  \/ status'[c] = "reshelving"
         \/ /\ status'[c] = status[c]
            /\ status[c] = "holds_shelf" => Waiting(c)' = Waiting(c)
  <1>1. \/ status' = status
        \/ status' = [status EXCEPT ![row.copy] = "reshelving"]
    BY DEF DoReset
  <1>2. status'[c] \in {status[c], "reshelving"}
    BY <1>1 DEF TypeOK
  <1>3. CASE h \in Waiting(c)
    <2>1. row.captured /\ row.copy = c /\ c # NoCopy
      BY <1>3 DEF CirculationAssumption
    <2>2. status[c] = "holds_shelf" => status' = [status EXCEPT ![c] = "reshelving"]
      BY <2>1 DEF DoReset
    <2> QED BY <1>2, <2>2 DEF TypeOK
  <1>4. CASE h \notin Waiting(c)
    <2>1. Waiting(c)' = Waiting(c)
      BY <1>4, ResetRow DEF Waiting, LiveFor, Live
    <2> QED BY <1>2, <2>1
  <1> QED BY <1>3, <1>4

\* What the targeter changes is not captured, before and after.
LEMMA TargetLeavesCaptured ==
  ASSUME TypeOK, NEW h \in Holds, Targetable(h), TargetHold(h)
  PROVE  \A g \in Holds : hold'[g] = hold[g] \/ (~hold[g].captured /\ ~hold'[g].captured)
  BY DEF TargetHold, Targetable, TypeOK, HoldRows

\* A follow-up takes a copy off the holds shelf with the hold that it takes it
\* from, and leaves current rows to be written back.
LEMMA FollowUpStands ==
  ASSUME CirculationAssumption, IInv, RowsCurrent, NEW f \in todo, FollowUp(f)
  PROVE  /\ UNCHANGED loan
         /\ RowsCurrent'
         /\ \A c \in Copies :
               \/ status'[c] = "reshelving"
               \/ /\ status'[c] = status[c]
                  /\ status[c] = "holds_shelf" => Waiting(c)' = Waiting(c)
  <1>1. UNCHANGED loan /\ TypeOK
    BY DEF FollowUp, IInv
  <1>2. /\ f.hold \in Holds
        /\ f.op = "reset" => f.row \in HoldRows
        /\ \A e \in todo : e.hold \in Holds
    BY DEF IInv, TypeOK, FollowUps
  <1>3. CASE f.op = "target"
    <2>1. /\ todo' \subseteq todo /\ UNCHANGED status
          /\ \/ Targetable(f.hold) /\ TargetHold(f.hold)
             \/ UNCHANGED hold
      BY <1>3 DEF FollowUp
    <2>2. \A g \in Holds : hold'[g] = hold[g] \/ (~hold[g].captured /\ ~hold'[g].captured)
      BY <1>1, <1>2, <2>1, TargetLeavesCaptured
    <2>3. ASSUME NEW c \in Copies PROVE Waiting(c)' = Waiting(c)
      BY <2>2 DEF Waiting, LiveFor, Live
    <2>4. RowsCurrent'
      BY <1>2, <2>1, <2>2 DEF RowsCurrent, Live
    <2> QED BY <1>1, <2>1, <2>3, <2>4
  <1>4. CASE f.op = "refetch"
    <2>1. /\ todo' = (todo \ {f}) \cup {Reset(f.hold)}
          /\ UNCHANGED <<status, hold>>
      BY <1>4 DEF FollowUp
    <2>2. Reset(f.hold).row = hold[f.hold] /\ Reset(f.hold).hold = f.hold
      BY DEF Reset
    <2>3. RowsCurrent'
      BY <2>1, <2>2 DEF RowsCurrent, Live
    <2> QED BY <1>1, <2>1, <2>3 DEF Waiting, LiveFor, Live
  <1>5. CASE f.op = "reset"
    <2>1. /\ DoReset(f.hold, f.row) /\ f.row \in HoldRows
          /\ todo' \subseteq todo \cup Retarget({f.hold})
      BY <1>2, <1>5 DEF FollowUp
    <2>2. ASSUME NEW c \in Copies, f.hold \in Waiting(c)
          PROVE  f.row.captured /\ f.row.copy = c
      BY <1>5, <2>2 DEF RowsCurrent, Waiting, LiveFor
    <2>3. ~hold'[f.hold].captured /\ \A g \in Holds \ {f.hold} : hold'[g] = hold[g]
      BY <1>1, <1>2, <2>1, ResetRow
    <2>4. ASSUME NEW c \in Copies
          PROVE  \/ status'[c] = "reshelving"
                 \/ /\ status'[c] = status[c]
                    /\ status[c] = "holds_shelf" => Waiting(c)' = Waiting(c)
      BY <1>1, <1>2, <2>1, <2>2, ResetTakesCopy
    <2>5. \A e \in todo' : e.op = "reset" => e \in todo
      BY <2>1 DEF Retarget
    <2>6. RowsCurrent'
      BY <1>2, <2>3, <2>5 DEF RowsCurrent, Live
    <2> QED BY <1>1, <2>4, <2>6
  <1> QED BY <1>2, <1>3, <1>4, <1>5 DEF IInv, TypeOK, FollowUps

-----------------------------------------------------------------------------
(* The steps of the station and of those around it. *)

\* Whatever is not a follow-up is a request that somebody serves, or nothing.
Asked ==
    \/ UNCHANGED vars
    \/ \E c \in Copies : Desk(c)
    \/ \E h \in Holds : HoldRequest(h)
    \/ \E t \in TransitIds : AbortTransit(t)

LEMMA AskedIsNext == ASSUME Asked PROVE [Next]_vars
  <1>1. CASE UNCHANGED vars
    BY <1>1
  <1>2. CASE \/ \E c \in Copies : Desk(c)
             \/ \E h \in Holds : HoldRequest(h)
             \/ \E t \in TransitIds : AbortTransit(t)
    BY <1>2 DEF Next
  <1> QED BY <1>1, <1>2 DEF Asked

\* Requests keep the invariant of Circulation, and what resets carry current.
LEMMA AskedKeeps ==
  ASSUME CirculationAssumption, Steady, IInv, RowsCurrent, Asked
  PROVE  IInv' /\ RowsCurrent'
  <1>1. IInv'
    BY AskedIsNext, NextStep DEF Kept
  <1>2. CASE UNCHANGED vars
    <2>1. UNCHANGED <<hold, todo>>
      BY <1>2 DEF vars
    <2> QED BY <1>1, <2>1 DEF RowsCurrent, Live
  <1>3. ASSUME NEW c \in Copies, Desk(c) PROVE RowsCurrent'
    BY <1>1, <1>3, DeskServes, DeskAsks, RequestKeepsRows
  <1>4. ASSUME NEW h \in Holds, HoldRequest(h) PROVE RowsCurrent'
    BY <1>1, <1>4, HoldRequestServes, HoldRequestAsks, RequestKeepsRows
  <1>5. ASSUME NEW t \in TransitIds, AbortTransit(t) PROVE RowsCurrent'
    <2>1. Serving /\ \A f \in todo' \ todo : f.op # "reset"
      BY <1>5 DEF AbortTransit
    <2> QED BY <1>1, <2>1, RequestKeepsRows
  <1> QED BY <1>1, <1>2, <1>3, <1>4, <1>5 DEF Asked

\* The requests of a scan are requests that a desk makes as well.
LEMMA KioskAsks ==
  ASSUME SelfCheckoutAssumption, NEW c \in Copies,
         CheckoutCall(c) \/ RenewCall(c) \/ AbortCall(c) \/ CheckinCall(c)
  PROVE  Asked
  <1>1. CASE CheckoutCall(c)
    <2>1. Checkout(c, Patron) \/ UNCHANGED vars
      BY <1>1 DEF CheckoutCall, NotAllowed
    <2> QED BY <2>1 DEF Asked, Desk, SelfCheckoutAssumption
  <1>2. CASE RenewCall(c)
    <2>1. Renew(c) \/ UNCHANGED vars
      BY <1>2 DEF RenewCall, NotAllowed
    <2> QED BY <2>1 DEF Asked, Desk
  <1>3. CASE AbortCall(c)
    <2>1. (\E t \in OpenTransits(c) : AbortTransit(t)) \/ UNCHANGED vars
      BY <1>3 DEF AbortCall, NotAllowed
    <2> QED BY <2>1 DEF Asked, OpenTransits
  <1>4. CASE CheckinCall(c)
    <2>1. \/ CheckinLoan(c, Here) \/ CheckinTransit(c, Here) \/ CheckinOther(c, Here)
          \/ UNCHANGED vars
      BY <1>4 DEF CheckinCall, NotAllowed
    <2> QED BY <2>1 DEF Asked, Desk, SelfCheckoutAssumption
  <1> QED BY <1>1, <1>2, <1>3, <1>4

\* handleXactResult repeats a request with .override only when neither a loan
\* nor a transit is in the way and every event is listed.
LEMMA HandleFacts ==
  ASSUME NEW E, NEW c, Handle(E, c)
  PROVE  \/ call' = Idle /\ said' = "alert"
         \/ \E api \in {"renew", "abort"} : call' = Request(api, c, FALSE)
         \/ /\ call' = Request(call.api, c, TRUE)
            /\ Overridden(E, c)
            /\ "OPEN_CIRCULATION_EXISTS" \notin E /\ "COPY_IN_TRANSIT" \notin E
  BY DEF Handle, Ends, Goes

\* A checkout that goes ahead at once meets no event at all.
LEMMA PlainLending ==
  ASSUME NEW c, Lends(c, FALSE)
  PROVE  PermitEvents(c, FALSE) \cup Standing(c) = {}
  <1>1. PermitEvents(c, FALSE) = {}
    BY Zenon DEF Lends
  <1> QED BY <1>1 DEF PermitEvents

\* A request that is made again with .override was judged by what stands in
\* the way of the copy now, unless `claims returned' is overridden.
LEMMA JudgedByStanding ==
  ASSUME "CIRC_CLAIMS_RETURNED" \notin Overrides, NEW c,
         Overridden(PermitEvents(c, FALSE), c),
         "OPEN_CIRCULATION_EXISTS" \notin PermitEvents(c, FALSE),
         "COPY_IN_TRANSIT" \notin PermitEvents(c, FALSE)
  PROVE  /\ status[c] # "in_transit" /\ loan[c] = NoLoan
         /\ PermitEvents(c, FALSE) = Standing(c)
  BY DEF PermitEvents, Overridden

\* What an override may not touch stops it.
LEMMA StoppedAgain ==
  ASSUME NEW c, ~Lends(c, TRUE), status[c] # "in_transit", loan[c] = NoLoan
  PROVE  FALSE
  <1>1. PermitEvents(c, TRUE) = Standing(c)
    BY DEF PermitEvents
  <1> QED BY <1>1, StandingFacts DEF Lends

-----------------------------------------------------------------------------
(* Lending as configured. *)

\* What a step of the station may not do: LendsAsConfigured, as an action.
LentAsConfigured ==
    \A c \in Copies :
        /\ call.api = "checkout" /\ call.copy = c
        /\ call' = Idle /\ said' = "lent" /\ acts = 0
        => Overridden(PermitEvents(c, FALSE) \union Standing(c), c)

\* A checkout either lends, and then over events that were judged, or goes on.
LEMMA CheckoutJudged ==
  ASSUME SelfCheckoutAssumption, "CIRC_CLAIMS_RETURNED" \notin Overrides,
         KioskInv, NEW c \in Copies, CheckoutCall(c)
  PROVE  /\ LentAsConfigured
         /\ JudgedAgain'
         /\ call' = Idle \/ call' \in StationCalls
  <1>1. call \in StationCalls /\ call.api = "checkout" /\ call.copy = c
        /\ call.override \in BOOLEAN
    BY DEF CheckoutCall, KioskInv, Idle, StationCalls
  <1>2. UNCHANGED <<debt, acts>>
    BY DEF CheckoutCall
  <1>3. CASE /\ Lends(c, call.override) /\ call' = Idle /\ said' = "lent"
    <2>1. JudgedAgain'
      BY <1>3 DEF JudgedAgain, Idle
    <2>2. CASE call.override = FALSE
      <3>1. PermitEvents(c, FALSE) \cup Standing(c) = {}
        BY <1>3, <2>2, PlainLending
      <3> QED BY <1>1, <1>3, <2>1, <3>1 DEF LentAsConfigured, Overridden
    <2>3. CASE call.override = TRUE /\ acts = 0
      <3>1. status[c] # "in_transit" /\ loan[c] = NoLoan /\ Overridden(Standing(c), c)
        BY <1>1, <2>3 DEF KioskInv, JudgedAgain
      <3>2. PermitEvents(c, FALSE) \cup Standing(c) = Standing(c)
        BY <3>1 DEF PermitEvents
      <3> QED BY <1>1, <1>3, <2>1, <3>1, <3>2 DEF LentAsConfigured
    <2> QED BY <1>1, <1>3, <2>1, <2>2, <2>3 DEF LentAsConfigured
  <1>4. CASE call' = Idle /\ said' = "alert"
    BY <1>4 DEF LentAsConfigured, JudgedAgain, Idle
  <1>5. CASE /\ ~Lends(c, call.override)
             /\ Handle(PermitEvents(c, call.override), c)
             /\ UNCHANGED vars
    <2> DEFINE E == PermitEvents(c, call.override)
    <2>1. ASSUME NEW api \in {"renew", "abort"}, call' = Request(api, c, FALSE)
          PROVE  /\ LentAsConfigured
                 /\ JudgedAgain'
                 /\ call' \in StationCalls
      <3>1. call' \in StationCalls
        BY <2>1 DEF Request, StationCalls
      <3>2. call'.api = api /\ call' # Idle
        BY <2>1 DEF Request, Idle
      <3> QED BY <3>1, <3>2 DEF LentAsConfigured, JudgedAgain
    <2>2. ASSUME call' = Request("checkout", c, TRUE), Overridden(E, c),
                 "OPEN_CIRCULATION_EXISTS" \notin E, "COPY_IN_TRANSIT" \notin E
          PROVE  /\ LentAsConfigured
                 /\ JudgedAgain'
                 /\ call' \in StationCalls
      <3>1. call' \in StationCalls /\ call'.copy = c /\ call' # Idle
        BY <2>2 DEF Request, Idle, StationCalls
      <3>2. CASE call.override = TRUE /\ acts = 0
        BY <1>1, <1>5, <3>2, StoppedAgain DEF KioskInv, JudgedAgain
      <3>3. CASE call.override = FALSE
        <4>1. /\ status[c] # "in_transit" /\ loan[c] = NoLoan
              /\ Overridden(Standing(c), c)
          BY <2>2, <3>3, JudgedByStanding
        <4>2. UNCHANGED <<status, loan, hold>>
          BY <1>5 DEF vars
        <4>3. Overridden(Standing(c), c)'
          BY <1>2, <4>1, <4>2, FewerStand DEF Waiting, LiveFor, Live
        <4> QED BY <3>1, <4>1, <4>2, <4>3 DEF LentAsConfigured, JudgedAgain
      <3>4. CASE acts # 0
        BY <1>2, <3>1, <3>4 DEF LentAsConfigured, JudgedAgain
      <3> QED BY <1>1, <3>2, <3>3, <3>4
    <2> QED BY <1>1, <1>4, <1>5, <2>1, <2>2, HandleFacts
  <1> QED BY <1>3, <1>4, <1>5 DEF CheckoutCall, Ends, NotAllowed

\* The other requests of a scan leave no checkout with .override.
LEMMA OtherCallsUnjudged ==
  ASSUME KioskInv, NEW c \in Copies, RenewCall(c) \/ AbortCall(c) \/ CheckinCall(c)
  PROVE  /\ LentAsConfigured
         /\ JudgedAgain'
         /\ call' = Idle \/ call' \in StationCalls
  <1>1. call.api \in {"renew", "abort", "checkin"}
    BY DEF RenewCall, AbortCall, CheckinCall
  <1>2. \/ call' = Idle
        \/ \E api \in {"renew", "abort", "checkin"}, override \in BOOLEAN :
              call' = Request(api, c, override)
        \/ call' = Request("checkout", c, FALSE)
    <2>1. CASE RenewCall(c)
      <3>1. call.api = "renew"
        BY <2>1 DEF RenewCall
      <3>2. ASSUME NEW E, Handle(E, c)
            PROVE  \/ call' = Idle
                   \/ \E api \in {"renew", "abort", "checkin"}, override \in BOOLEAN :
                         call' = Request(api, c, override)
        BY <3>1, <3>2, HandleFacts
      <3>3. call' = Idle \/ \E E : Handle(E, c)
        BY <2>1 DEF RenewCall, Ends, NotAllowed
      <3> QED BY <3>2, <3>3
    <2>2. CASE AbortCall(c)
      <3>1. Goes("checkin", c, FALSE) \/ Ends("alert")
        BY <2>2 DEF AbortCall, NotAllowed
      <3> QED BY <3>1 DEF Goes, Ends
    <2>3. CASE CheckinCall(c)
      <3>1. Goes("checkout", c, FALSE) \/ Ends("alert")
        BY <2>3 DEF CheckinCall, NotAllowed
      <3> QED BY <3>1 DEF Goes, Ends
    <2> QED BY <2>1, <2>2, <2>3
  <1>3. LentAsConfigured
    BY <1>1 DEF LentAsConfigured
  <1>4. CASE call' = Idle
    BY <1>3, <1>4 DEF JudgedAgain, Idle
  <1>5. ASSUME NEW api \in {"renew", "abort", "checkin"}, NEW override \in BOOLEAN,
               call' = Request(api, c, override)
        PROVE  JudgedAgain' /\ call' \in StationCalls
    <2>1. call' \in StationCalls /\ call'.api = api
      BY <1>5 DEF Request, StationCalls
    <2> QED BY <2>1 DEF JudgedAgain
  <1>6. CASE call' = Request("checkout", c, FALSE)
    <2>1. call' \in StationCalls /\ call'.override = FALSE
      BY <1>6 DEF Request, StationCalls
    <2> QED BY <1>3, <2>1 DEF JudgedAgain
  <1> QED BY <1>2, <1>3, <1>4, <1>5, <1>6

\* Somebody else's request during a scan is counted; a follow-up lets no event
\* come to stand.
LEMMA BesideKeeps ==
  ASSUME CirculationAssumption, KioskInv, UNCHANGED <<call, said>>,
         Others \/ Fines \/ Completions \/ Crashes
  PROVE  LentAsConfigured /\ JudgedAgain' /\ acts' \in Nat
  <1>1. LentAsConfigured
    BY DEF KioskInv, LentAsConfigured, Idle, StationCalls
  <1>2. CASE Others \/ Fines
    <2>1. acts' = IF call = Idle THEN acts ELSE acts + 1
      BY <1>2 DEF Others, Fines, Counted
    <2>2. CASE call = Idle
      BY <2>1, <2>2, <1>1 DEF KioskInv, JudgedAgain, Idle
    <2>3. CASE call # Idle
      <3>1. acts' \in Nat /\ acts' # 0
        BY <2>1, <2>3 DEF KioskInv
      <3> QED BY <1>1, <3>1 DEF JudgedAgain
    <2> QED BY <2>2, <2>3
  <1>3. CASE Completions
    <2>1. PICK f \in todo : FollowUp(f)
      BY <1>3 DEF Completions
    <2>2. UNCHANGED <<debt, acts>>
      BY <1>3 DEF Completions, kioskvars
    <2>3. /\ UNCHANGED loan
          /\ \A c \in Copies :
                \/ status'[c] = "reshelving"
                \/ /\ status'[c] = status[c]
                   /\ status[c] = "holds_shelf" => Waiting(c)' = Waiting(c)
      BY <2>1, FollowUpStands DEF KioskInv
    <2>4. ASSUME call.api = "checkout", call.override, acts = 0
          PROVE  /\ status'[call.copy] # "in_transit"
                 /\ loan'[call.copy] = NoLoan
                 /\ Overridden(Standing(call.copy), call.copy)'
      <3> DEFINE c == call.copy
      <3>1. c \in Copies
        BY <2>4 DEF KioskInv, Idle, StationCalls
      <3>2. /\ status[c] # "in_transit" /\ loan[c] = NoLoan
            /\ Overridden(Standing(c), c)
        BY <2>4 DEF KioskInv, JudgedAgain
      <3> QED BY <2>2, <2>3, <3>1, <3>2, FewerStand
    <2> QED BY <1>1, <2>2, <2>4 DEF JudgedAgain, KioskInv
  <1>4. CASE Crashes
    <2>1. UNCHANGED <<call, acts, debt, status, loan, hold>>
      BY <1>4 DEF Crashes, Crash, kioskvars
    <2>2. Overridden(Standing(call.copy), call.copy)' <=> Overridden(Standing(call.copy), call.copy)
      BY <2>1 DEF Overridden, Standing, Waiting, LiveFor, Live
    <2> QED BY <1>1, <2>1, <2>2 DEF KioskInv, JudgedAgain
  <1> QED BY <1>2, <1>3, <1>4

\* A scan begins with a plain request.
LEMMA ScanKeeps ==
  ASSUME KioskInv, NEW c \in Copies, Scan(c)
  PROVE  LentAsConfigured /\ JudgedAgain' /\ acts' \in Nat /\ call' \in StationCalls
  <1>1. call = Idle /\ call' = Request("checkout", c, FALSE) /\ acts' = 0
    BY DEF Scan
  <1>2. call' \in StationCalls /\ call'.override = FALSE /\ call.api # "checkout"
    BY <1>1 DEF Request, StationCalls, Idle
  <1> QED BY <1>1, <1>2 DEF LentAsConfigured, JudgedAgain

\* Every step keeps the invariant and lends as configured.
LEMMA KioskStep ==
  ASSUME CirculationAssumption, SelfCheckoutAssumption, Steady,
         "CIRC_CLAIMS_RETURNED" \notin Overrides, KioskInv, [KioskNext]_allvars
  PROVE  KioskInv' /\ (LentAsConfigured \/ UNCHANGED allvars)
  <1>1. ASSUME NEW c \in Copies, Scan(c) PROVE KioskInv' /\ LentAsConfigured
    <2>1. Asked
      BY <1>1 DEF Scan, Asked
    <2> QED BY <1>1, <2>1, ScanKeeps, AskedKeeps DEF KioskInv
  <1>2. ASSUME NEW c \in Copies,
               CheckoutCall(c) \/ RenewCall(c) \/ AbortCall(c) \/ CheckinCall(c)
        PROVE  KioskInv' /\ LentAsConfigured
    <2>1. IInv' /\ RowsCurrent'
      BY <1>2, KioskAsks, AskedKeeps DEF KioskInv
    <2>2. UNCHANGED acts
      BY <1>2 DEF CheckoutCall, RenewCall, AbortCall, CheckinCall
    <2> QED BY <1>2, <2>1, <2>2, CheckoutJudged, OtherCallsUnjudged DEF KioskInv
  <1>3. CASE Others \/ Fines
    <2>1. UNCHANGED <<call, said>>
      BY <1>3 DEF Others, Fines
    <2>2. Asked
      BY <1>3 DEF Others, Fines, Asked
    <2> QED BY <1>3, <2>1, <2>2, BesideKeeps, AskedKeeps DEF KioskInv
  <1>4. CASE Completions
    <2>1. UNCHANGED <<call, said>>
      BY <1>4 DEF Completions, kioskvars
    <2>2. PICK f \in todo : FollowUp(f)
      BY <1>4 DEF Completions
    <2>3. IInv' /\ RowsCurrent'
      BY <2>2, FollowUpStep, FollowUpStands DEF KioskInv, Kept
    <2> QED BY <1>4, <2>1, <2>3, BesideKeeps DEF KioskInv
  <1>5. CASE UNCHANGED allvars
    <2>1. UNCHANGED vars /\ UNCHANGED kioskvars
      BY <1>5 DEF allvars
    <2>2. IInv' /\ RowsCurrent'
      BY <2>1, AskedKeeps DEF KioskInv, Asked
    <2>3. UNCHANGED <<call, acts, debt, status, loan, hold>>
      BY <2>1 DEF vars, kioskvars
    <2>4. Overridden(Standing(call.copy), call.copy)' <=> Overridden(Standing(call.copy), call.copy)
      BY <2>3 DEF Overridden, Standing, Waiting, LiveFor, Live
    <2>5. JudgedAgain'
      BY <2>3, <2>4 DEF KioskInv, JudgedAgain
    <2> QED BY <1>5, <2>2, <2>3, <2>5 DEF KioskInv
  <1>6. CASE Crashes
    <2>1. UNCHANGED <<call, said>>
      BY <1>6 DEF Crashes, kioskvars
    <2>2. PICK f \in todo : Crash(f)
      BY <1>6 DEF Crashes
    <2>3. UNCHANGED hold /\ todo' \subseteq todo
      BY <2>2 DEF Crash
    <2>4. IInv' /\ RowsCurrent'
      BY <2>2, <2>3, CrashStep DEF KioskInv, Kept, RowsCurrent, Live
    <2> QED BY <1>6, <2>1, <2>4, BesideKeeps DEF KioskInv
  <1> QED BY <1>1, <1>2, <1>3, <1>4, <1>5, <1>6 DEF KioskNext, Kiosk

\* handleXactResult (selfcheck.js): unless a desk came in between, the station
\* lends only over events that its library lists and never a copy in a status
\* that blocks, whatever chain of overrides, aborted transits and checkins led
\* there, whatever the server still had to do at the time.
THEOREM LendsOnlyAsConfigured ==
  ASSUME CirculationAssumption, SelfCheckoutAssumption, Steady,
         "CIRC_CLAIMS_RETURNED" \notin Overrides
  PROVE  KioskSpec => LendsAsConfigured
  <1>1. KioskInit => KioskInv
    <2> SUFFICES ASSUME KioskInit PROVE KioskInv
      OBVIOUS
    <2>1. IInv
      BY InitInv DEF KioskInit
    <2>2. todo = {} /\ call = Idle /\ acts = 0
      BY DEF KioskInit, Init
    <2> QED BY <2>1, <2>2 DEF KioskInv, RowsCurrent, JudgedAgain, Idle
  <1>2. KioskInv /\ [KioskNext]_allvars => KioskInv' /\ [LentAsConfigured]_allvars
    BY KioskStep
  <1>3. [][LentAsConfigured]_allvars => LendsAsConfigured
    BY PTL DEF LendsAsConfigured, LentAsConfigured
  <1> QED BY <1>1, <1>2, <1>3, PTL DEF KioskSpec

-----------------------------------------------------------------------------
(* The station as one desk more. *)

\* selfcheck.js reaches the copies only through the requests of the desks: what
\* the station and everybody beside it do is a behaviour of Circulation, with
\* any overrides and any permissions.
THEOREM StationIsDesk ==
  ASSUME SelfCheckoutAssumption PROVE KioskSpec => Spec
  <1>1. KioskInit => Init
    BY DEF KioskInit
  <1>2. [KioskNext]_allvars => [Next]_vars
    <2>1. ASSUME NEW c \in Copies, Scan(c) PROVE [Next]_vars
      BY <2>1 DEF Scan
    <2>2. CASE Kiosk
      BY <2>2, KioskAsks, AskedIsNext DEF Kiosk
    <2>3. CASE Others \/ Fines
      <3>1. Asked
        BY <2>3 DEF Others, Fines, Asked
      <3> QED BY <3>1, AskedIsNext
    <2>4. CASE Completions \/ Crashes
      BY <2>4 DEF Completions, Crashes, Next
    <2>5. CASE UNCHANGED allvars
      BY <2>5 DEF allvars
    <2> QED BY <2>1, <2>2, <2>3, <2>4, <2>5 DEF KioskNext
  <1> QED BY <1>1, <1>2, PTL DEF KioskSpec, Spec

\* Hence the overrides, aborted transits and no-op checkins of a scan leave no
\* copy on loan that is in transit, no second open transit of a copy, no copy
\* with two waiting holds and no captured hold without its copy.
THEOREM StationKeepsCirculation ==
  ASSUME CirculationAssumption, SelfCheckoutAssumption, Neat
  PROVE  KioskSpec => [](/\ LoanedStatus /\ NoLoanInTransit /\ InTransitOnce
                         /\ OneHoldPerCopy /\ CapturedIsReady /\ ShelfBelongsToCapture)
  <1>1. Tidy
    BY DEF Neat
  <1> QED BY <1>1, StationIsDesk, LoanKeepsStatus, LoanIsNotMoving, OneTransit,
             OneHold, CapturedAndReady, ShelfIsOfCapture, PTL
=============================================================================
