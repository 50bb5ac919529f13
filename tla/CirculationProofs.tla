-------------------------- MODULE CirculationProofs --------------------------
(***************************************************************************)
(* Proofs about Circulation, for any copies, holds, patrons and libraries  *)
(* and any set of requests that a part's assumption allows:                *)
(*                                                                         *)
(* - type correctness; a fulfilled hold stays fulfilled, and only lending  *)
(*   its patron the copy fulfils it (`Steady': no request is served while  *)
(*   a reset waits);                                                       *)
(* - status, loan and transit rows of a copy stay in step (`Tidy': also, a *)
(*   copy with an open transit is not marked, and no reset finds the row   *)
(*   of an earlier delivery);                                              *)
(* - no two waiting holds get the same copy, and the copy of a captured    *)
(*   hold is on a shelf or on its way (`Neat').                            *)
(***************************************************************************)
EXTENDS Circulation, FiniteSetTheorems, TLAPS

\* The requests that leave a reset to be done after their commit, and: either
\* none of them is served, or no request is served between a commit and its
\* follow-ups; and no reset releases a fulfilled hold that the targeter has still
\* to come to, which would make it a hold again that a copy can be captured for.
Resetting == {"mark", "mark_moving", "abort"}
Steady == /\ Overlapping => Requests \cap Resetting = {}
          /\ "reset_listed" \notin Requests

HoldTables == [Holds -> HoldRows]
TransitTables == [TransitIds -> TransitRows \cup {NoTransit}]

\* What was fulfilled cannot be captured again: nothing can capture a copy for
\* it, it is no copy's target unless it is captured already, and captured the
\* targeter passes it over, if it was listed before.
Sealed(H) ==
    \A h \in Holds : H[h].fulfilled =>
        /\ potential[h] = {}
        /\ H[h].captured \/ H[h].copy = NoCopy
        /\ h \in listed => H[h].captured

\* The rows that waiting resets will write agree with the table, and they release
\* no hold the targeter could take up again.
ResetsAgree ==
    \A f \in todo : /\ f.op = "reset" => f.row.fulfilled = hold[f.hold].fulfilled
                    /\ f.op # "target" => ~LateListed(f.hold)

\* Without such requests, holds to be targeted are all that waits.
TargetsOnly == \A f \in todo : f.op = "target"
Orderly == Requests \cap Resetting = {} => TargetsOnly

IInv == TypeOK /\ Sealed(hold) /\ ResetsAgree /\ Orderly

\* New follow-ups F that keep this so.
Fitting(F) ==
    \A f \in F : /\ f.op = "reset" => f.row.fulfilled = hold[f.hold].fulfilled
                 /\ f.op # "target" => Requests \cap Resetting # {} /\ ~LateListed(f.hold)

\* The targeter lists no fulfilled hold.
Unlisted == \A g \in listed' \ listed : ~hold[g].fulfilled

\* What the end of a checkin does, given hold table H: the new values have
\* their types, what waits is to be targeted, no hold is fulfilled or loses
\* its fulfillment.
Settled(H) ==
    /\ status' \in [Copies -> Statuses]
    /\ hold' \in HoldTables
    /\ transit' \in TransitTables
    /\ todo' \in SUBSET FollowUps
    /\ \A f \in todo' \ todo : f.op = "target"
    /\ \A g \in Holds : hold'[g].fulfilled = H[g].fulfilled
    /\ Sealed(hold')

\* One row of a table is replaced.
LEMMA TableUpdate ==
  ASSUME NEW S, NEW V, NEW H \in [S -> V], NEW h \in S, NEW row \in V,
         NEW G, G = [H EXCEPT ![h] = row]
  PROVE  /\ G \in [S -> V]
         /\ G[h] = row
         /\ \A g \in S \ {h} : G[g] = H[g]
  OBVIOUS

\* A new transit row is one of the table's rows.
LEMMA TransitUpdate ==
  ASSUME NEW T \in TransitTables, NEW t \in TransitIds, NEW c \in Copies,
         NEW dest \in Libs, NEW back \in Statuses, NEW h \in Holds \cup {NoHold},
         NewTransit(t, [copy |-> c, dest |-> dest, back |-> back,
                        hold |-> h, open |-> TRUE], T)
  PROVE  transit' \in TransitTables
  BY DEF NewTransit, TransitTables, TransitRows

\* Fulfilling hold f changes no other hold and leaves f sealed.
LEMMA FulfilFacts ==
  ASSUME TypeOK, NEW f \in Holds, NEW c \in Copies, NEW H \in HoldTables,
         Fulfil(f, c, H)
  PROVE  /\ hold' \in HoldTables
         /\ \A g \in Holds \ {f} : hold'[g] = H[g] /\ potential'[g] = potential[g]
         /\ hold'[f].fulfilled /\ hold'[f].captured /\ hold'[f].copy = c
         /\ hold'[f].cancelled = H[f].cancelled /\ hold'[f].placed = H[f].placed
         /\ potential' \in [Holds -> SUBSET Copies]
         /\ potential'[f] = {}
  <1> DEFINE row == [H[f] EXCEPT !.copy = c, !.captured = TRUE, !.fulfilled = TRUE]
  <1>1. H[f] \in HoldRows
    BY DEF HoldTables
  <1>2. /\ row \in HoldRows
        /\ row.fulfilled /\ row.captured /\ row.copy = c
        /\ row.cancelled = H[f].cancelled /\ row.placed = H[f].placed
    BY <1>1 DEF HoldRows
  <1>3. hold' = [H EXCEPT ![f] = row]
    BY DEF Fulfil
  <1> HIDE DEF row
  <1>4. /\ hold' \in HoldTables /\ hold'[f] = row
        /\ \A g \in Holds \ {f} : hold'[g] = H[g]
    BY <1>2, <1>3, TableUpdate DEF HoldTables
  <1> QED BY <1>2, <1>4 DEF TypeOK, Fulfil

\* A displaced hold keeps its fulfillment.
LEMMA DisplacedFacts ==
  ASSUME TypeOK, NEW h \in Holds
  PROVE  /\ Displaced(h) \in HoldTables
         /\ Displaced(h)[h].copy = NoCopy /\ ~Displaced(h)[h].captured
         /\ Displaced(h)[h].shelf = NoLib
         /\ \A g \in Holds : /\ Displaced(h)[g].fulfilled = hold[g].fulfilled
                            /\ Displaced(h)[g].placed = hold[g].placed
         /\ \A g \in Holds \ {h} : Displaced(h)[g] = hold[g]
  <1> DEFINE row == [hold[h] EXCEPT !.copy = NoCopy, !.captured = FALSE, !.shelf = NoLib]
  <1>1. hold[h] \in HoldRows /\ hold \in HoldTables
    BY DEF TypeOK, HoldTables
  <1>2. /\ row \in HoldRows /\ row.copy = NoCopy /\ ~row.captured /\ row.shelf = NoLib
        /\ row.fulfilled = hold[h].fulfilled /\ row.placed = hold[h].placed
    BY <1>1 DEF HoldRows
  <1>3. Displaced(h) = [hold EXCEPT ![h] = row]
    BY DEF Displaced
  <1> HIDE DEF row
  <1>4. /\ Displaced(h) \in HoldTables /\ Displaced(h)[h] = row
        /\ \A g \in Holds \ {h} : Displaced(h)[g] = hold[g]
    BY <1>1, <1>2, <1>3, TableUpdate DEF HoldTables
  <1> QED BY <1>2, <1>4

\* What a capture writes into a hold's row is a row.
LEMMA CapturedRow ==
  ASSUME NEW r \in HoldRows, NEW c \in Copies, NEW s \in Libs \cup {NoLib}
  PROVE  LET new == [r EXCEPT !.copy = c, !.captured = TRUE, !.fulfilled = FALSE,
                              !.cancelled = FALSE, !.shelf = s]
         IN  new \in HoldRows /\ new.fulfilled = FALSE
  BY DEF HoldRows

\* A capture fulfils nothing and undoes no fulfillment: the hold it captures
\* was not fulfilled, because fulfilled holds are sealed.
LEMMA CaptureFacts ==
  ASSUME CirculationAssumption, TypeOK, NEW c \in Copies, NEW l \in Libs,
         NEW H \in HoldTables, NEW T \in TransitTables, Sealed(H),
         NEW h \in Capturable(c, H), CaptureHold(c, l, h, H, T)
  PROVE  Settled(H)
  <1> DEFINE here == H[h].pickup = l
             others == OtherTargets(c, h, H)
             row(g) == IF g = h THEN [H[h] EXCEPT !.copy = c, !.captured = TRUE,
                                             !.fulfilled = FALSE, !.cancelled = FALSE,
                                             !.shelf = IF here THEN l ELSE @]
                       ELSE IF g \in others THEN [H[g] EXCEPT !.copy = NoCopy]
                       ELSE H[g]
  <1>1. h \in Holds /\ ~H[h].fulfilled /\ H[h].placed /\ others \in SUBSET Holds
    BY DEF Capturable, PreTargeted, OtherTargets, Sealed, CirculationAssumption
  <1>2. \A g \in Holds : H[g] \in HoldRows
    BY DEF HoldTables
  <1>3. \A g \in Holds : /\ row(g) \in HoldRows
                         /\ row(g).fulfilled = H[g].fulfilled
                         /\ g = h \/ row(g).captured = H[g].captured
                         /\ g = h \/ row(g).copy \in {H[g].copy, NoCopy}
    <2> SUFFICES ASSUME NEW g \in Holds
                 PROVE  /\ row(g) \in HoldRows
                        /\ row(g).fulfilled = H[g].fulfilled
                        /\ g = h \/ row(g).captured = H[g].captured
                        /\ g = h \/ row(g).copy \in {H[g].copy, NoCopy}
      OBVIOUS
    <2>1. CASE g = h
      <3> DEFINE s == IF here THEN l ELSE H[h].shelf
                 new == [H[h] EXCEPT !.copy = c, !.captured = TRUE, !.fulfilled = FALSE,
                                     !.cancelled = FALSE, !.shelf = s]
      <3>1. s \in Libs \cup {NoLib}
        BY <1>1, <1>2 DEF HoldRows
      <3>2. row(g) = new
        BY <2>1
      <3> HIDE DEF s, row
      <3>3. new \in HoldRows /\ new.fulfilled = FALSE
        BY <1>1, <1>2, <3>1, CapturedRow
      <3>4. H[h].fulfilled = FALSE
        BY <1>1, <1>2 DEF HoldRows
      <3> QED BY <2>1, <3>2, <3>3, <3>4
    <2>2. CASE g # h /\ g \in others
      <3> DEFINE new == [H[g] EXCEPT !.copy = NoCopy]
      <3>1. row(g) = new
        BY <2>2
      <3>2. /\ new \in HoldRows /\ new.copy = NoCopy
            /\ new.fulfilled = H[g].fulfilled /\ new.captured = H[g].captured
        BY <1>2 DEF HoldRows
      <3> QED BY <3>1, <3>2
    <2>3. CASE g # h /\ g \notin others
      BY <1>2, <2>3
    <2> QED BY <2>1, <2>2, <2>3
  <1>4. hold' = [g \in Holds |-> row(g)]
    BY DEF CaptureHold
  <1> HIDE DEF row
  <1>5. hold' \in HoldTables /\ \A g \in Holds : hold'[g].fulfilled = H[g].fulfilled
    BY <1>3, <1>4 DEF HoldTables
  <1>6. Sealed(hold')
    BY <1>1, <1>3, <1>4 DEF Sealed
  <1>7. status' \in [Copies -> Statuses]
    BY DEF CaptureHold, TypeOK, Statuses
  <1>8. todo' \in SUBSET FollowUps /\ \A f \in todo' \ todo : f.op = "target"
    BY <1>1 DEF CaptureHold, TypeOK, FollowUps, Retarget
  <1>9. transit' \in TransitTables
    <2>1. CASE here
      BY <2>1 DEF CaptureHold
    <2>2. CASE ~here
      <3>1. H[h].pickup \in Libs
        BY <1>1, <1>2 DEF HoldRows
      <3> QED BY <1>1, <2>2, <3>1, TransitUpdate DEF CaptureHold, Statuses
    <2> QED BY <2>1, <2>2
  <1> QED BY <1>5, <1>6, <1>7, <1>8, <1>9 DEF Settled

\* Whatever way a checkin ends, it leaves what Settled says.
LEMMA SettleFacts ==
  ASSUME CirculationAssumption, TypeOK, NEW c \in Copies, NEW l \in Libs,
         NEW s \in Statuses, NEW r \in Holds \cup {NoHold},
         NEW H \in HoldTables, NEW T \in TransitTables, Sealed(H),
         r # NoHold => H[r].placed, Settle(c, l, s, r, H, T)
  PROVE  Settled(H)
  <1>1. ASSUME NEW h \in Capturable(c, H), CaptureHold(c, l, h, H, T)
        PROVE  Settled(H)
    BY <1>1, CaptureFacts
  <1>2. CASE SendAway(c, l, s, r, H, T)
    <2> DEFINE dest == IF r = NoHold THEN Home[c] ELSE H[r].pickup
    <2>1. \A g \in Holds : H[g] \in HoldRows
      BY DEF HoldTables
    <2>2. dest \in Libs
      BY <2>1 DEF HoldRows, CirculationAssumption
    <2>3. transit' \in TransitTables
      BY <1>2, <2>2, TransitUpdate DEF SendAway
    <2>4. \A g \in Holds :
             /\ hold'[g] \in HoldRows
             /\ hold'[g].fulfilled = H[g].fulfilled
             /\ hold'[g].captured = H[g].captured
             /\ hold'[g].copy = H[g].copy
      BY <1>2, <2>1 DEF SendAway, HoldRows
    <2>5. hold' \in HoldTables
      BY <1>2, <2>4 DEF SendAway, HoldTables
    <2>6. status' \in [Copies -> Statuses] /\ UNCHANGED todo
      BY <1>2 DEF SendAway, TypeOK, Statuses
    <2>7. Sealed(hold')
      BY <2>4 DEF Sealed
    <2> QED BY <2>3, <2>4, <2>5, <2>6, <2>7 DEF TypeOK, Settled
  <1>3. CASE StayHere(c, s, H, T)
    <2>1. /\ status' \in [Copies -> Statuses]
          /\ UNCHANGED todo /\ hold' = H /\ transit' = T
      BY <1>3 DEF StayHere, TypeOK, Reshelved, Statuses
    <2> QED BY <2>1 DEF TypeOK, Settled
  <1> QED BY <1>1, <1>2, <1>3 DEF Settle

-----------------------------------------------------------------------------
(* What a step must keep.                                                  *)

StaysFulfilled == \A h \in Holds : hold[h].fulfilled => hold'[h].fulfilled

LentToOwner ==
    \A h \in Holds : ~hold[h].fulfilled /\ hold'[h].fulfilled =>
        /\ hold'[h].copy # NoCopy
        /\ loan'[hold'[h].copy] # NoLoan
        /\ loan'[hold'[h].copy].usr = Owner[h]

Kept == IInv' /\ StaysFulfilled /\ LentToOwner

\* The steps that fulfil no hold and take no fulfillment back.
LEMMA QuietStep ==
  ASSUME IInv, TypeOK', \A g \in Holds : hold'[g].fulfilled = hold[g].fulfilled,
         Sealed(hold)', Unlisted,
         Fitting(todo' \ todo)
  PROVE  Kept
  <1>1. \A f \in todo' : f.hold \in Holds
    BY DEF TypeOK, FollowUps
  <1>2. ResetsAgree'
    BY <1>1 DEF IInv, ResetsAgree, Fitting, Unlisted, LateListed
  <1>3. Orderly'
    BY DEF IInv, Orderly, TargetsOnly, Fitting
  <1> QED BY <1>2, <1>3 DEF Kept, IInv, StaysFulfilled, LentToOwner

\* ... among them those that leave holds alone.
LEMMA HoldsAlone ==
  ASSUME IInv, TypeOK', UNCHANGED <<hold, potential>>, Unlisted,
         Fitting(todo' \ todo)
  PROVE  Kept
  BY QuietStep DEF IInv, Sealed, Unlisted

\* ... and those that replace the row of one hold.
LEMMA RowStep ==
  ASSUME IInv, TypeOK', NEW h \in Holds,
         \A g \in Holds \ {h} : hold'[g] = hold[g] /\ potential'[g] = potential[g],
         hold'[h].fulfilled = hold[h].fulfilled, UNCHANGED listed,
         LateListed(h) => hold'[h].captured,
         potential'[h] \in {potential[h], {}} \/ ~hold[h].fulfilled,
         \/ hold'[h].copy = NoCopy
         \/ hold'[h].copy = hold[h].copy /\ hold'[h].captured = hold[h].captured,
         Fitting(todo' \ todo)
  PROVE  Kept
  <1>1. \A g \in Holds : hold'[g].fulfilled = hold[g].fulfilled
    OBVIOUS
  <1>2. Sealed(hold)'
    BY DEF IInv, Sealed, LateListed
  <1> QED BY <1>1, <1>2, QuietStep DEF Unlisted

\* Retargeting adds follow-ups of their type, none of them a reset.
LEMMA RetargetFacts ==
  ASSUME NEW S \in SUBSET Holds
  PROVE  Retarget(S) \in SUBSET FollowUps /\ \A f \in Retarget(S) : f.op = "target"
  BY DEF Retarget, FollowUps

-----------------------------------------------------------------------------
(* Checkin.                                                                *)

\* A step that ends as a checkin does keeps the invariant.
LEMMA SettledStep ==
  ASSUME IInv, NEW H \in HoldTables, Settled(H),
         \A g \in Holds : H[g].fulfilled = hold[g].fulfilled,
         loan' \in [Copies -> Loans], UNCHANGED <<potential, listed, crashes>>
  PROVE  Kept
  <1>1. TypeOK'
    BY DEF IInv, TypeOK, Settled, HoldTables, TransitTables
  <1>2. Sealed(hold)'
    BY DEF Settled, Sealed
  <1>3. Fitting(todo' \ todo)
    BY DEF Settled, Fitting
  <1>4. \A g \in Holds : hold'[g].fulfilled = hold[g].fulfilled
    BY DEF Settled
  <1> QED BY <1>1, <1>2, <1>3, <1>4, QuietStep DEF Unlisted

\* The hold that ShelfCheck routes is a placed one.
LEMMA ShelfCheckFacts ==
  ASSUME NEW c, NEW l, NEW s, NEW r \in Holds \cup {NoHold}, ShelfCheck(c, l, s, r)
  PROVE  r # NoHold => hold[r].placed
  BY DEF ShelfCheck, Waiting, LiveFor, Live

\* The return of a loan.
LEMMA CheckinLoanStep ==
  ASSUME CirculationAssumption, IInv, NEW c \in Copies, NEW l \in Libs, CheckinLoan(c, l)
  PROVE  Kept
  <1>1. /\ loan' \in [Copies -> Loans] /\ UNCHANGED <<potential, listed, crashes>>
        /\ hold \in HoldTables /\ transit \in TransitTables
    BY DEF CheckinLoan, IInv, TypeOK, Loans, HoldTables, TransitTables
  <1>2. PICK s \in Statuses, r \in Holds \cup {NoHold} :
          /\ ShelfCheck(c, l, s, r)
          /\ \/ \E back \in ReturnStatus(c, l, s) : Settle(c, l, back, r, hold, transit)
             \/ /\ status' = [status EXCEPT ![c] = "missing"]
                /\ UNCHANGED <<hold, transit, todo>>
    BY DEF CheckinLoan
  <1>3. ASSUME NEW back \in ReturnStatus(c, l, s), Settle(c, l, back, r, hold, transit)
        PROVE  Kept
    <2>1. back \in Statuses
      BY DEF ReturnStatus, Statuses
    <2>2. Settled(hold)
      BY <1>1, <1>2, <1>3, <2>1, ShelfCheckFacts, SettleFacts DEF IInv
    <2> QED BY <1>1, <2>2, SettledStep
  <1>4. CASE status' = [status EXCEPT ![c] = "missing"] /\ UNCHANGED <<hold, transit, todo>>
    <2>1. TypeOK'
      BY <1>1, <1>4 DEF IInv, TypeOK, Statuses
    <2> QED BY <1>1, <1>4, <2>1, HoldsAlone DEF Fitting, Unlisted
  <1> QED BY <1>2, <1>3, <1>4

\* The arrival of a copy: putting the hold on the shelf keeps it sealed.
LEMMA CheckinTransitStep ==
  ASSUME CirculationAssumption, IInv, NEW c \in Copies, NEW l \in Libs, CheckinTransit(c, l)
  PROVE  Kept
  <1>1. /\ loan' \in [Copies -> Loans] /\ UNCHANGED <<potential, listed, crashes>>
        /\ hold \in HoldTables /\ transit \in TransitTables
    BY DEF CheckinTransit, IInv, TypeOK, HoldTables, TransitTables
  <1>2. PICK t \in OpenTransits(c), s \in Statuses, r \in Holds \cup {NoHold} :
          /\ ShelfCheck(c, l, s, r)
          /\ IF transit[t].hold = NoHold
             THEN Settle(c, l, transit[t].back, r, hold, [transit EXCEPT ![t] = NoTransit])
             ELSE ArriveForHold(c, l, t, r, [transit EXCEPT ![t].open = FALSE])
    BY DEF CheckinTransit
  <1>3. /\ t \in TransitIds /\ transit[t] \in TransitRows
        /\ transit[t].back \in Statuses /\ transit[t].hold \in Holds \cup {NoHold}
    BY <1>1 DEF OpenTransits, TransitTables, TransitRows
  <1>4. CASE transit[t].hold = NoHold
    <2>1. [transit EXCEPT ![t] = NoTransit] \in TransitTables
      BY <1>1, <1>3 DEF TransitTables
    <2>2. Settled(hold)
      BY <1>1, <1>2, <1>3, <1>4, <2>1, ShelfCheckFacts, SettleFacts DEF IInv
    <2> QED BY <1>1, <2>2, SettledStep
  <1>5. CASE transit[t].hold # NoHold
    <2> DEFINE h == transit[t].hold
               H == [hold EXCEPT ![h].shelf = l]
               T == [transit EXCEPT ![t].open = FALSE]
    <2>1. h \in Holds /\ hold[h] \in HoldRows
      BY <1>1, <1>3, <1>5 DEF HoldTables
    <2>2. T \in TransitTables
      <3> DEFINE row == [transit[t] EXCEPT !.open = FALSE]
      <3>1. row \in TransitRows
        BY <1>3 DEF TransitRows
      <3>2. T = [transit EXCEPT ![t] = row]
        OBVIOUS
      <3> HIDE DEF row, T
      <3> QED BY <1>1, <1>3, <3>1, <3>2, TableUpdate DEF TransitTables
    <2>3. /\ H \in HoldTables
          /\ \A g \in Holds : /\ H[g].fulfilled = hold[g].fulfilled
                              /\ H[g].captured = hold[g].captured
                              /\ H[g].copy = hold[g].copy
                              /\ H[g].placed = hold[g].placed
      <3> DEFINE row == [hold[h] EXCEPT !.shelf = l]
      <3>1. /\ row \in HoldRows
            /\ row.fulfilled = hold[h].fulfilled /\ row.captured = hold[h].captured
            /\ row.copy = hold[h].copy /\ row.placed = hold[h].placed
        BY <2>1 DEF HoldRows
      <3>2. H = [hold EXCEPT ![h] = row]
        OBVIOUS
      <3> HIDE DEF row, H, h
      <3>3. H \in HoldTables /\ H[h] = row /\ \A g \in Holds \ {h} : H[g] = hold[g]
        BY <1>1, <2>1, <3>1, <3>2, TableUpdate DEF HoldTables
      <3> QED BY <3>1, <3>3
    <2>4. Sealed(H)
      BY <2>3 DEF IInv, Sealed
    <2>5. \/ Settle(c, l, "reshelving", r, H, T)
          \/ /\ status' = [status EXCEPT ![c] = transit[t].back]
             /\ hold' = H /\ transit' = T /\ UNCHANGED todo
      BY <1>2, <1>5 DEF ArriveForHold
    <2> HIDE DEF H, T
    <2>6. Settled(H)
      <3>1. CASE Settle(c, l, "reshelving", r, H, T)
        <4>1. r # NoHold => H[r].placed
          BY <1>2, <2>3, ShelfCheckFacts
        <4> QED BY <1>1, <2>2, <2>3, <2>4, <3>1, <4>1, SettleFacts DEF IInv, Statuses
      <3>2. CASE /\ status' = [status EXCEPT ![c] = transit[t].back]
                 /\ hold' = H /\ transit' = T /\ UNCHANGED todo
        BY <1>3, <2>2, <2>3, <2>4, <3>2 DEF Settled, IInv, TypeOK
      <3> QED BY <2>5, <3>1, <3>2
    <2> QED BY <1>1, <2>3, <2>6, SettledStep
  <1> QED BY <1>4, <1>5

\* A checkin with nothing to return or receive.
LEMMA CheckinOtherStep ==
  ASSUME CirculationAssumption, IInv, NEW c \in Copies, NEW l \in Libs, CheckinOther(c, l)
  PROVE  Kept
  <1>1. /\ loan' \in [Copies -> Loans] /\ UNCHANGED <<potential, listed, crashes>>
        /\ hold \in HoldTables /\ transit \in TransitTables
    BY DEF CheckinOther, IInv, TypeOK, HoldTables, TransitTables
  <1>2. PICK s \in Statuses, r \in Holds \cup {NoHold} :
          /\ ShelfCheck(c, l, s, r)
          /\ Settle(c, l, IF s = "in_transit" THEN "reshelving" ELSE s, r, hold, transit)
    BY DEF CheckinOther
  <1>3. Settled(hold)
    BY <1>1, <1>2, ShelfCheckFacts, SettleFacts DEF IInv, Statuses
  <1> QED BY <1>1, <1>3, SettledStep

-----------------------------------------------------------------------------
(* Checkout and renewal, served while no reset waits.                      *)

\* When a request is served, at most holds to be targeted wait.
LEMMA ServedSteady ==
  ASSUME Steady, IInv, Serving
  PROVE  TargetsOnly
  BY DEF Steady, Serving, IInv, Orderly, TargetsOnly

\* What handle_checkout_holds does for patron u.
HandledFor(c, u) ==
    /\ hold' \in HoldTables
    /\ potential' \in [Holds -> SUBSET Copies]
    /\ Sealed(hold)'
    /\ StaysFulfilled
    /\ \A g \in Holds : ~hold[g].fulfilled /\ hold'[g].fulfilled =>
                          Owner[g] = u /\ hold'[g].copy = c

\* A hold of the borrower is fulfilled with the copy that is lent.
LEMMA FulfilStep ==
  ASSUME IInv, NEW f \in Holds, NEW c \in Copies, NEW u, NEW H \in HoldTables,
         Sealed(H), \A g \in Holds : H[g].fulfilled = hold[g].fulfilled,
         Owner[f] = u, Fulfil(f, c, H), UNCHANGED listed
  PROVE  HandledFor(c, u)
  <1>1. /\ hold' \in HoldTables
        /\ \A g \in Holds \ {f} : hold'[g] = H[g] /\ potential'[g] = potential[g]
        /\ hold'[f].fulfilled /\ hold'[f].captured /\ hold'[f].copy = c
        /\ potential' \in [Holds -> SUBSET Copies]
        /\ potential'[f] = {}
    BY FulfilFacts DEF IInv
  <1>2. Sealed(hold)'
    BY <1>1 DEF Sealed
  <1>3. StaysFulfilled
    BY <1>1 DEF StaysFulfilled
  <1> QED BY <1>1, <1>2, <1>3 DEF HandledFor

\* ... a related one, or none at all.
LEMMA RelatedStep ==
  ASSUME IInv, NEW c \in Copies, NEW u, NEW H \in HoldTables,
         Sealed(H), \A g \in Holds : H[g].fulfilled = hold[g].fulfilled,
         \/ hold' = H /\ UNCHANGED potential
         \/ \E f \in Related(u, c) : Fulfil(f, c, H),
         UNCHANGED listed
  PROVE  HandledFor(c, u)
  <1>1. CASE hold' = H /\ UNCHANGED potential
    BY <1>1 DEF HandledFor, Sealed, StaysFulfilled, IInv, TypeOK
  <1>2. ASSUME NEW f \in Related(u, c), Fulfil(f, c, H) PROVE HandledFor(c, u)
    <2>1. f \in Holds /\ Owner[f] = u
      BY DEF Related
    <2> QED BY <1>2, <2>1, FulfilStep
  <1> QED BY <1>1, <1>2

\* handle_checkout_holds for borrower u: the invariant and both properties.
LEMMA CheckoutHoldsFacts ==
  ASSUME IInv, NEW c \in Copies, NEW u, CheckoutHolds(c, u), UNCHANGED listed
  PROVE  HandledFor(c, u)
  <1>1. hold \in HoldTables /\ Sealed(hold)
    BY DEF IInv, TypeOK, HoldTables
  <1>2. CASE \/ hold' = hold /\ UNCHANGED potential
             \/ \E f \in Related(u, c) : Fulfil(f, c, hold)
    BY <1>1, <1>2, RelatedStep
  <1>3. ASSUME NEW h \in LiveFor(c), Owner[h] = u, Fulfil(h, c, hold)
        PROVE  HandledFor(c, u)
    BY <1>1, <1>3, FulfilStep DEF LiveFor
  <1>4. ASSUME NEW h \in LiveFor(c),
               \/ hold' = Displaced(h) /\ UNCHANGED potential
               \/ \E f \in Related(u, c) : Fulfil(f, c, Displaced(h))
        PROVE  HandledFor(c, u)
    <2>1. h \in Holds /\ ~hold[h].fulfilled
      BY DEF LiveFor, Live
    <2>2. /\ Displaced(h) \in HoldTables
          /\ Displaced(h)[h].copy = NoCopy
          /\ \A g \in Holds : Displaced(h)[g].fulfilled = hold[g].fulfilled
          /\ \A g \in Holds \ {h} : Displaced(h)[g] = hold[g]
      BY <2>1, DisplacedFacts DEF IInv
    <2>3. Sealed(Displaced(h))
      BY <1>1, <2>1, <2>2 DEF Sealed
    <2> QED BY <1>4, <2>2, <2>3, RelatedStep
  <1> QED BY <1>2, <1>3, <1>4 DEF CheckoutHolds

\* The common part of checkout and renewal.
LEMMA LendingStep ==
  ASSUME CirculationAssumption, IInv, NEW c \in Copies, NEW u, HandledFor(c, u),
         TargetsOnly, UNCHANGED <<transit, todo, listed, crashes>>,
         loan' \in [Copies -> Loans], loan'[c] # NoLoan, loan'[c].usr = u,
         status' \in [Copies -> Statuses]
  PROVE  Kept
  <1>1. TypeOK'
    BY DEF IInv, TypeOK, HandledFor, HoldTables
  <1>2. ResetsAgree' /\ Orderly'
    BY DEF IInv, ResetsAgree, Orderly, TargetsOnly
  <1>3. StaysFulfilled /\ Sealed(hold)'
    BY DEF HandledFor
  <1>4. LentToOwner
    BY DEF HandledFor, LentToOwner, CirculationAssumption
  <1> QED BY <1>1, <1>2, <1>3, <1>4 DEF Kept, IInv

\* A checkout.
LEMMA CheckoutStep ==
  ASSUME CirculationAssumption, Steady, IInv, NEW c \in Copies,
         NEW u \in Users, Checkout(c, u)
  PROVE  Kept
  <1>1. HandledFor(c, u)
    BY CheckoutHoldsFacts DEF Checkout
  <1>2. TargetsOnly /\ UNCHANGED <<transit, todo, listed, crashes>>
    BY ServedSteady DEF Checkout
  <1>3. /\ loan' \in [Copies -> Loans] /\ loan'[c] # NoLoan /\ loan'[c].usr = u
        /\ status' \in [Copies -> Statuses]
    <2> DEFINE new == [usr |-> u, stop |-> "none"]
    <2>1. new \in OpenLoans /\ new # NoLoan /\ new.usr = u
      BY DEF OpenLoans, CirculationAssumption
    <2> HIDE DEF new
    <2>2. loan' = [loan EXCEPT ![c] = new]
      BY DEF Checkout, new
    <2> QED BY <2>1, <2>2 DEF Checkout, IInv, TypeOK, Loans, Statuses
  <1> QED BY <1>1, <1>2, <1>3, LendingStep

\* A renewal.
LEMMA RenewStep ==
  ASSUME CirculationAssumption, Steady, IInv, NEW c \in Copies, Renew(c)
  PROVE  Kept
  <1>1. HandledFor(c, loan[c].usr)
    BY CheckoutHoldsFacts DEF Renew
  <1>2. TargetsOnly /\ UNCHANGED <<loan, transit, todo, listed, crashes>> /\ loan[c] # NoLoan
    BY ServedSteady DEF Renew
  <1>3. loan' \in [Copies -> Loans] /\ status' \in [Copies -> Statuses]
    BY DEF Renew, IInv, TypeOK, Statuses
  <1> QED BY <1>1, <1>2, <1>3, LendingStep

-----------------------------------------------------------------------------
(* The requests on one copy that leave holds alone.                        *)

\* Claims returned and lost change the loan and the status only.
LEMMA ClaimsStep ==
  ASSUME CirculationAssumption, IInv, NEW c \in Copies, SetClaimsReturned(c) \/ SetLost(c)
  PROVE  Kept
  <1> DEFINE claims == [loan[c] EXCEPT !.stop = "claims"]
             lost == [loan[c] EXCEPT !.stop = "lost"]
  <1>1. loan[c] \in OpenLoans
    BY DEF SetClaimsReturned, SetLost, IInv, TypeOK, Loans
  <1>2. claims \in OpenLoans /\ lost \in OpenLoans
    BY <1>1 DEF OpenLoans
  <1>3. loan' = [loan EXCEPT ![c] = claims] \/ loan' = [loan EXCEPT ![c] = lost]
    BY DEF SetClaimsReturned, SetLost
  <1> HIDE DEF claims, lost
  <1>4. loan' \in [Copies -> Loans]
    BY <1>2, <1>3 DEF IInv, TypeOK, Loans
  <1>5. /\ status' \in [Copies -> Statuses]
        /\ UNCHANGED <<hold, potential, transit, todo, listed, crashes>>
    BY DEF SetClaimsReturned, SetLost, IInv, TypeOK, Statuses
  <1>6. TypeOK'
    BY <1>4, <1>5 DEF IInv, TypeOK
  <1> QED BY <1>5, <1>6, HoldsAlone DEF Fitting, Unlisted

\* The end of reshelving changes the status only.
LEMMA ReshelvingStep ==
  ASSUME IInv, NEW c \in Copies, ReshelvingDone(c)
  PROVE  Kept
  <1>1. TypeOK'
    BY DEF ReshelvingDone, IInv, TypeOK, Statuses
  <1> QED BY <1>1, HoldsAlone DEF ReshelvingDone, Fitting, Unlisted

\* A reset made from the table agrees with the table.
LEMMA ResetFacts ==
  ASSUME IInv, NEW h \in Holds
  PROVE  /\ Reset(h) \in FollowUps
         /\ Reset(h).row.fulfilled = hold[h].fulfilled /\ Reset(h).hold = h
  BY DEF Reset, FollowUps, IInv, TypeOK

\* Marking a copy adds resets, with the rows as they are.
LEMMA MarkStep ==
  ASSUME IInv, NEW c \in Copies, MarkItem(c)
  PROVE  Kept
  <1>1. LiveFor(c) \in SUBSET Holds
    BY DEF LiveFor
  <1>2. /\ todo' \in SUBSET FollowUps
        /\ \A f \in todo' \ todo : /\ f.row.fulfilled = hold[f.hold].fulfilled
                                  /\ ~hold[f.hold].fulfilled
    BY <1>1, ResetFacts DEF MarkItem, IInv, TypeOK, LiveFor, Live
  <1>3. TypeOK'
    BY <1>2 DEF MarkItem, IInv, TypeOK, Statuses
  <1>4. Fitting(todo' \ todo)
    BY <1>2 DEF Fitting, MarkItem, Resetting, LateListed
  <1> QED BY <1>3, <1>4, HoldsAlone DEF MarkItem, Unlisted

\* Aborting a transit leaves the holds alone.
LEMMA AbortStep ==
  ASSUME CirculationAssumption, Steady, IInv, NEW t \in TransitIds, AbortTransit(t)
  PROVE  Kept
  <1>1. transit[t] \in TransitRows
    BY DEF AbortTransit, IInv, TypeOK
  <1>2. /\ transit[t].copy \in Copies /\ transit[t].back \in Statuses
        /\ transit[t].hold \in Holds \cup {NoHold}
    BY <1>1 DEF TransitRows
  <1>3. status' \in [Copies -> Statuses] /\ transit' \in TransitTables
    BY <1>2 DEF AbortTransit, IInv, TypeOK, Statuses, TransitTables
  <1>4. /\ todo' \in SUBSET FollowUps
        /\ \A f \in todo' \ todo : f.op # "reset" /\ ~LateListed(f.hold)
    BY <1>2 DEF AbortTransit, IInv, TypeOK, FollowUps, Steady
  <1>5. UNCHANGED <<loan, hold, potential, listed, crashes>>
    BY DEF AbortTransit
  <1>6. TypeOK'
    BY <1>3, <1>4, <1>5 DEF IInv, TypeOK, TransitTables
  <1>7. Fitting(todo' \ todo)
    BY <1>4 DEF AbortTransit, Resetting, Fitting
  <1> QED BY <1>5, <1>6, <1>7, HoldsAlone DEF Unlisted

-----------------------------------------------------------------------------
(* The requests on one hold.                                               *)

\* Replacing the row of hold h by one with the same fulfillment.
LEMMA RequestStep ==
  ASSUME IInv, NEW h \in Holds, NEW row \in HoldRows,
         hold' = [hold EXCEPT ![h] = row],
         row.fulfilled = hold[h].fulfilled,
         \/ row.copy = NoCopy
         \/ row.copy = hold[h].copy /\ row.captured = hold[h].captured,
         \/ UNCHANGED potential
         \/ potential' = [potential EXCEPT ![h] = {}],
         LateListed(h) => row.captured = hold[h].captured,
         status' \in [Copies -> Statuses], transit' \in TransitTables,
         UNCHANGED <<loan, listed, crashes>>,
         todo' \subseteq todo \cup Retarget({h})
  PROVE  Kept
  <1>1. hold \in HoldTables /\ potential \in [Holds -> SUBSET Copies]
    BY DEF IInv, TypeOK, HoldTables
  <1>2. /\ hold' \in HoldTables /\ hold'[h] = row
        /\ \A g \in Holds \ {h} : hold'[g] = hold[g]
    BY <1>1, TableUpdate DEF HoldTables
  <1>3. /\ potential' \in [Holds -> SUBSET Copies]
        /\ potential'[h] \in {potential[h], {}}
        /\ \A g \in Holds \ {h} : potential'[g] = potential[g]
    BY <1>1
  <1>4. todo' \in SUBSET FollowUps /\ Fitting(todo' \ todo)
    BY RetargetFacts DEF IInv, TypeOK, Fitting
  <1>5. TypeOK'
    BY <1>2, <1>3, <1>4 DEF IInv, TypeOK, HoldTables, TransitTables
  <1>6. LateListed(h) => hold[h].captured
    BY DEF IInv, Sealed, LateListed
  <1> QED BY <1>2, <1>3, <1>4, <1>5, <1>6, RowStep

\* Placing a hold.
LEMMA PlaceStep ==
  ASSUME IInv, NEW h \in Holds, NEW l \in Libs, PlaceHold(h, l)
  PROVE  Kept
  <1> DEFINE row == [hold[h] EXCEPT !.placed = TRUE, !.pickup = l]
  <1>1. hold[h] \in HoldRows
    BY DEF IInv, TypeOK
  <1>2. /\ row \in HoldRows /\ row.fulfilled = hold[h].fulfilled
        /\ row.copy = hold[h].copy /\ row.captured = hold[h].captured
    BY <1>1 DEF HoldRows
  <1>3. hold' = [hold EXCEPT ![h] = row]
    BY DEF PlaceHold
  <1> HIDE DEF row
  <1> QED BY <1>2, <1>3, RequestStep DEF PlaceHold, IInv, TypeOK, TransitTables

\* Cancelling a hold.
LEMMA CancelStep ==
  ASSUME IInv, NEW h \in Holds, CancelHold(h)
  PROVE  Kept
  <1> DEFINE row == [hold[h] EXCEPT !.cancelled = TRUE]
  <1>1. hold[h] \in HoldRows
    BY DEF IInv, TypeOK
  <1>2. /\ row \in HoldRows /\ row.fulfilled = hold[h].fulfilled
        /\ row.copy = hold[h].copy /\ row.captured = hold[h].captured
    BY <1>1 DEF HoldRows
  <1>3. hold' = [hold EXCEPT ![h] = row]
    BY DEF CancelHold
  <1>4. transit' \in TransitTables
    <2>1. ASSUME NEW t \in HoldTransits(h), transit' = [transit EXCEPT ![t].back = "reshelving"]
          PROVE  transit' \in TransitTables
      <3> DEFINE new == [transit[t] EXCEPT !.back = "reshelving"]
      <3>1. t \in TransitIds /\ transit[t] \in TransitRows
        BY DEF HoldTransits, IInv, TypeOK
      <3>2. new \in TransitRows
        BY <3>1 DEF TransitRows, Statuses
      <3>3. transit' = [transit EXCEPT ![t] = new]
        BY <2>1
      <3> HIDE DEF new
      <3> QED BY <3>1, <3>2, <3>3 DEF IInv, TypeOK, TransitTables
    <2> QED BY <2>1 DEF CancelHold, IInv, TypeOK, TransitTables
  <1> HIDE DEF row
  <1> QED BY <1>2, <1>3, <1>4, RequestStep DEF CancelHold, IInv, TypeOK

\* Uncancelling a hold that was not fulfilled.
LEMMA UncancelStep ==
  ASSUME IInv, NEW h \in Holds, UncancelHold(h)
  PROVE  Kept
  <1> DEFINE row == [hold[h] EXCEPT !.cancelled = FALSE, !.captured = FALSE,
                                    !.copy = NoCopy, !.shelf = NoLib]
  <1>1. hold[h] \in HoldRows
    BY DEF IInv, TypeOK
  <1>2. row \in HoldRows /\ row.fulfilled = hold[h].fulfilled /\ row.copy = NoCopy
    BY <1>1 DEF HoldRows
  <1>3. hold' = [hold EXCEPT ![h] = row]
    BY DEF UncancelHold
  <1> HIDE DEF row
  <1> QED BY <1>2, <1>3, RequestStep DEF UncancelHold, IInv, TypeOK, TransitTables, LateListed

\* Suspending a hold.
LEMMA FreezeStep ==
  ASSUME IInv, NEW h \in Holds, Freeze(h)
  PROVE  Kept
  <1> DEFINE row == [hold[h] EXCEPT !.frozen = TRUE, !.copy = NoCopy]
  <1>1. hold[h] \in HoldRows
    BY DEF IInv, TypeOK
  <1>2. /\ row \in HoldRows /\ row.fulfilled = hold[h].fulfilled /\ row.copy = NoCopy
        /\ row.captured = hold[h].captured
    BY <1>1 DEF HoldRows
  <1>3. hold' = [hold EXCEPT ![h] = row]
    BY DEF Freeze
  <1> HIDE DEF row
  <1> QED BY <1>2, <1>3, RequestStep DEF Freeze, IInv, TypeOK, TransitTables

\* Changing a suspended hold otherwise.
LEMMA AmendStep ==
  ASSUME IInv, NEW h \in Holds, Amend(h)
  PROVE  Kept
  <1> DEFINE row == [hold[h] EXCEPT !.copy = NoCopy]
  <1>1. hold[h] \in HoldRows
    BY DEF IInv, TypeOK
  <1>2. /\ row \in HoldRows /\ row.fulfilled = hold[h].fulfilled /\ row.copy = NoCopy
        /\ row.captured = hold[h].captured
    BY <1>1 DEF HoldRows
  <1>3. hold' = [hold EXCEPT ![h] = row]
    BY DEF Amend
  <1> HIDE DEF row
  <1> QED BY <1>2, <1>3, RequestStep DEF Amend, IInv, TypeOK, TransitTables

\* Activating a hold.
LEMMA ThawStep ==
  ASSUME IInv, NEW h \in Holds, Thaw(h)
  PROVE  Kept
  <1> DEFINE row == [hold[h] EXCEPT !.frozen = FALSE]
  <1>1. hold[h] \in HoldRows
    BY DEF IInv, TypeOK
  <1>2. /\ row \in HoldRows /\ row.fulfilled = hold[h].fulfilled
        /\ row.copy = hold[h].copy /\ row.captured = hold[h].captured
    BY <1>1 DEF HoldRows
  <1>3. hold' = [hold EXCEPT ![h] = row]
    BY DEF Thaw
  <1> HIDE DEF row
  <1> QED BY <1>2, <1>3, RequestStep DEF Thaw, IInv, TypeOK, TransitTables

\* Changing the pickup library, with the transit or without.
LEMMA PickupStep ==
  ASSUME IInv, NEW h \in Holds, NEW l \in Libs, ChangePickup(h, l)
  PROVE  Kept
  <1> DEFINE c == IF hold[h].frozen THEN NoCopy ELSE hold[h].copy
             row == [hold[h] EXCEPT !.pickup = l, !.copy = c]
  <1>1. hold[h] \in HoldRows
    BY DEF IInv, TypeOK
  <1>2. c \in Copies \cup {NoCopy} /\ c \in {hold[h].copy, NoCopy}
    BY <1>1 DEF HoldRows
  <1>3. hold' = [hold EXCEPT ![h] = row]
    BY DEF ChangePickup
  <1> HIDE DEF c
  <1>4. /\ row \in HoldRows /\ row.fulfilled = hold[h].fulfilled
        /\ row.copy = c /\ row.captured = hold[h].captured
    BY <1>1, <1>2 DEF HoldRows
  <1> HIDE DEF row
  <1>5. transit' \in TransitTables
    <2>1. ASSUME NEW t \in HoldTransits(h), transit' = [transit EXCEPT ![t].dest = l]
          PROVE  transit' \in TransitTables
      <3> DEFINE new == [transit[t] EXCEPT !.dest = l]
      <3>1. t \in TransitIds /\ transit[t] \in TransitRows
        BY DEF HoldTransits, IInv, TypeOK
      <3>2. new \in TransitRows
        BY <3>1 DEF TransitRows
      <3>3. transit' = [transit EXCEPT ![t] = new]
        BY <2>1
      <3> HIDE DEF new
      <3> QED BY <3>1, <3>2, <3>3 DEF IInv, TypeOK, TransitTables
    <2> QED BY <2>1 DEF ChangePickup, IInv, TypeOK, TransitTables
  <1>6. /\ todo' \subseteq todo \cup Retarget({h})
        /\ UNCHANGED <<status, loan, potential, listed, crashes>>
    BY DEF ChangePickup
  <1>7. status' \in [Copies -> Statuses]
    BY <1>6 DEF IInv, TypeOK
  <1> QED BY <1>2, <1>3, <1>4, <1>5, <1>6, <1>7, RequestStep

\* A reset that writes a row with the fulfillment the hold has.
LEMMA ResetStep ==
  ASSUME CirculationAssumption, IInv, NEW h \in Holds, NEW row \in HoldRows,
         row.fulfilled = hold[h].fulfilled, DoReset(h, row), ~LateListed(h),
         UNCHANGED <<loan, potential, listed, crashes>>,
         todo' \subseteq todo \cup Retarget({h})
  PROVE  Kept
  <1> DEFINE new == [row EXCEPT !.captured = FALSE, !.copy = NoCopy, !.shelf = NoLib]
  <1>1. new \in HoldRows /\ new.fulfilled = row.fulfilled /\ new.copy = NoCopy
    BY DEF HoldRows
  <1>2. hold' = [hold EXCEPT ![h] = new]
    BY DEF DoReset
  <1> HIDE DEF new
  <1>3. transit' \in TransitTables
    BY DEF DoReset, HoldTransits, IInv, TypeOK, TransitTables
  <1>4. row.copy \in Copies \cup {NoCopy}
    BY DEF HoldRows
  <1>5. status' \in [Copies -> Statuses]
    BY <1>4 DEF DoReset, IInv, TypeOK, Statuses
  <1> QED BY <1>1, <1>2, <1>3, <1>5, RequestStep

\* A requested reset, which writes the row as it is.
LEMMA ResetHoldStep ==
  ASSUME CirculationAssumption, Steady, IInv, NEW h \in Holds, ResetHold(h)
  PROVE  Kept
  <1>1. hold[h] \in HoldRows
    BY DEF IInv, TypeOK
  <1> QED BY <1>1, ResetStep DEF ResetHold, Steady

-----------------------------------------------------------------------------
(* The targeter, and the follow-ups.                                       *)

\* What the targeter does to a hold that is not fulfilled.
LEMMA TargetStep ==
  ASSUME CirculationAssumption, IInv, NEW h \in Holds, TargetHold(h), ~hold[h].fulfilled,
         UNCHANGED <<status, loan, transit, crashes>>, todo' \subseteq todo,
         listed' \subseteq listed
  PROVE  Kept
  <1>1. hold[h] \in HoldRows /\ hold \in HoldTables
    BY DEF IInv, TypeOK, HoldTables
  <1>2. PICK all \in SUBSET Copies, c \in Copies \cup {NoCopy} :
           \/ /\ potential' = [potential EXCEPT ![h] = all]
              /\ hold' = [hold EXCEPT ![h].copy = c]
           \/ /\ potential' = [potential EXCEPT ![h] = {}]
              /\ hold' = [hold EXCEPT ![h].copy = c, ![h].cancelled = TRUE]
    BY <1>1 DEF TargetHold, HoldRows
  <1> DEFINE target == [hold[h] EXCEPT !.copy = c]
             expire == [hold[h] EXCEPT !.copy = c, !.cancelled = TRUE]
  <1>3. /\ target \in HoldRows /\ target.fulfilled = hold[h].fulfilled
        /\ expire \in HoldRows /\ expire.fulfilled = hold[h].fulfilled
    BY <1>1 DEF HoldRows
  <1>4. hold' = [hold EXCEPT ![h] = target] \/ hold' = [hold EXCEPT ![h] = expire]
    BY <1>2
  <1> HIDE DEF target, expire
  <1>5. /\ hold' \in HoldTables
        /\ hold'[h].fulfilled = hold[h].fulfilled
        /\ \A g \in Holds \ {h} : hold'[g] = hold[g]
    BY <1>1, <1>3, <1>4, TableUpdate DEF HoldTables
  <1>6. /\ potential' \in [Holds -> SUBSET Copies]
        /\ \A g \in Holds \ {h} : potential'[g] = potential[g]
    BY <1>2 DEF IInv, TypeOK
  <1>7. TypeOK'
    BY <1>5, <1>6 DEF IInv, TypeOK, HoldTables
  <1>8. Sealed(hold)'
    BY <1>5, <1>6 DEF IInv, Sealed
  <1>9. \A g \in Holds : hold'[g].fulfilled = hold[g].fulfilled
    BY <1>5
  <1> QED BY <1>7, <1>8, <1>9, QuietStep DEF Fitting, Unlisted

\* Listing a hold, which is not fulfilled.
LEMMA ListStep ==
  ASSUME IInv, NEW h \in Holds, ListHold(h)
  PROVE  Kept
  <1>1. TypeOK'
    BY DEF ListHold, IInv, TypeOK
  <1>2. Sealed(hold)' /\ Unlisted
    BY DEF ListHold, Listable, Live, IInv, Sealed, Unlisted
  <1> QED BY <1>1, <1>2, HoldsAlone DEF ListHold, Fitting

\* The periodic run comes to a hold: a fulfilled one is captured and passed over.
LEMMA TargeterStep ==
  ASSUME CirculationAssumption, IInv, NEW h \in Holds, Targeter(h)
  PROVE  Kept
  <1>1. CASE Targetable(h)
    <2>1. ~hold[h].fulfilled
      BY <1>1 DEF Targeter, Targetable, IInv, Sealed
    <2> QED BY <1>1, <2>1, TargetStep DEF Targeter
  <1>2. CASE ~Targetable(h)
    <2>1. UNCHANGED <<status, loan, hold, potential, transit, todo, crashes>>
          /\ listed' = listed \ {h}
      BY <1>2 DEF Targeter
    <2>2. TypeOK'
      BY <2>1 DEF IInv, TypeOK
    <2> QED BY <2>1, <2>2, HoldsAlone DEF Fitting, Unlisted
  <1> QED BY <1>1, <1>2

\* A follow-up: here the rows that waiting resets carry are written.
LEMMA FollowUpStep ==
  ASSUME CirculationAssumption, IInv, NEW f \in todo, FollowUp(f)
  PROVE  Kept
  <1>1. /\ f \in FollowUps /\ f.hold \in Holds
        /\ f.op = "reset" => f.row \in HoldRows /\ f.row.fulfilled = hold[f.hold].fulfilled
        /\ f.op # "target" => ~LateListed(f.hold)
    BY DEF IInv, TypeOK, FollowUps, ResetsAgree
  <1>2. CASE f.op = "target"
    <2>1. /\ UNCHANGED <<status, loan, transit, listed, crashes>>
          /\ todo' \subseteq todo
      BY <1>2 DEF FollowUp
    <2>2. CASE Listable(f.hold) /\ Targetable(f.hold)
      <3>1. TargetHold(f.hold) /\ ~hold[f.hold].fulfilled
        BY <1>2, <2>2 DEF FollowUp, Listable, Live
      <3> QED BY <1>1, <2>1, <3>1, TargetStep
    <2>3. CASE ~(Listable(f.hold) /\ Targetable(f.hold))
      <3>1. UNCHANGED <<hold, potential>>
        BY <1>2, <2>3 DEF FollowUp
      <3>2. TypeOK'
        BY <2>1, <3>1 DEF IInv, TypeOK
      <3> QED BY <2>1, <3>1, <3>2, HoldsAlone DEF Fitting, Unlisted
    <2> QED BY <2>2, <2>3
  <1>3. CASE f.op = "refetch"
    <2>1. /\ UNCHANGED <<status, loan, hold, potential, transit, listed, crashes>>
          /\ todo' = (todo \ {f}) \cup {Reset(f.hold)}
      BY <1>3 DEF FollowUp
    <2>2. /\ todo' \in SUBSET FollowUps
          /\ \A g \in todo' \ todo : /\ g.row.fulfilled = hold[g.hold].fulfilled
                                    /\ ~LateListed(g.hold)
      BY <1>1, <1>3, <2>1, ResetFacts DEF IInv, TypeOK
    <2>3. TypeOK'
      BY <2>1, <2>2 DEF IInv, TypeOK
    <2>4. Requests \cap Resetting # {}
      BY <1>3 DEF IInv, Orderly, TargetsOnly
    <2> QED BY <2>1, <2>2, <2>3, <2>4, HoldsAlone DEF Fitting, Unlisted
  <1>4. CASE f.op = "reset"
    <2>1. /\ DoReset(f.hold, f.row) /\ UNCHANGED <<loan, potential, listed, crashes>>
          /\ todo' \subseteq todo \cup Retarget({f.hold})
      BY <1>4 DEF FollowUp
    <2> QED BY <1>1, <1>4, <2>1, ResetStep
  <1> QED BY <1>1, <1>2, <1>3, <1>4 DEF FollowUps

\* Losing a follow-up.
LEMMA CrashStep ==
  ASSUME CirculationAssumption, IInv, NEW f \in todo, Crash(f)
  PROVE  Kept
  <1>1. crashes' \in 0..MaxCrashes
    BY DEF Crash, IInv, TypeOK, CirculationAssumption
  <1>2. TypeOK'
    BY <1>1 DEF Crash, IInv, TypeOK
  <1> QED BY <1>2, HoldsAlone DEF Crash, Fitting, Unlisted

-----------------------------------------------------------------------------
(* The theorems.                                                           *)

\* The invariant holds initially.
LEMMA InitInv == ASSUME CirculationAssumption PROVE Init => IInv
  <1> SUFFICES ASSUME Init PROVE IInv
    OBVIOUS
  <1>1. hold \in [Holds -> HoldRows]
    BY DEF Init, HoldRows
  <1>2. status \in [Copies -> Statuses] /\ loan \in [Copies -> Loans]
    BY DEF Init, Statuses, Loans
  <1>3. /\ potential \in [Holds -> SUBSET Copies]
        /\ transit \in [TransitIds -> TransitRows \cup {NoTransit}]
        /\ todo \in SUBSET FollowUps /\ listed \in SUBSET Holds
    BY DEF Init
  <1>4. crashes \in 0..MaxCrashes
    BY DEF Init, CirculationAssumption
  <1>5. TypeOK
    BY <1>1, <1>2, <1>3, <1>4 DEF TypeOK
  <1> QED BY <1>5 DEF Init, IInv, Sealed, ResetsAgree, Orderly, TargetsOnly

\* Every step keeps the invariant and both action properties.
LEMMA NextStep ==
  ASSUME CirculationAssumption, Steady, IInv, [Next]_vars PROVE Kept
  <1>1. ASSUME NEW c \in Copies, Desk(c) PROVE Kept
    BY <1>1, CheckinLoanStep, CheckinTransitStep, CheckinOtherStep, CheckoutStep,
       RenewStep, ClaimsStep, MarkStep, ReshelvingStep DEF Desk
  <1>2. ASSUME NEW h \in Holds, HoldRequest(h) PROVE Kept
    BY <1>2, PlaceStep, PickupStep, CancelStep, UncancelStep, FreezeStep, ThawStep,
       AmendStep, ResetHoldStep, ListStep, TargeterStep DEF HoldRequest
  <1>3. CASE UNCHANGED vars
    <2>1. TypeOK'
      BY <1>3 DEF vars, IInv, TypeOK
    <2> QED BY <1>3, <2>1, HoldsAlone DEF vars, Fitting, Unlisted
  <1> QED BY <1>1, <1>2, <1>3, AbortStep, FollowUpStep, CrashStep DEF Next

\* The inductive invariant always holds.
LEMMA Invariance ==
  ASSUME CirculationAssumption, Steady PROVE Spec => []IInv
  <1>1. Init => IInv
    BY InitInv
  <1>2. IInv /\ [Next]_vars => IInv'
    BY NextStep DEF Kept
  <1> QED BY <1>1, <1>2, PTL DEF Spec

\* Every row the requests write has the columns and values of its table.
THEOREM TypeCorrect ==
  ASSUME CirculationAssumption, Steady PROVE Spec => []TypeOK
  <1>1. IInv => TypeOK
    BY DEF IInv
  <1> QED BY <1>1, Invariance, PTL

\* Once a patron has got the copy of a hold, the hold stays fulfilled: neither
\* the capture of a copy nor a reset that writes a row read earlier undoes it.
THEOREM FulfillmentIsFinal ==
  ASSUME CirculationAssumption, Steady PROVE Spec => FulfilledIsFinal
  <1>1. IInv /\ [Next]_vars => [StaysFulfilled]_vars
    BY NextStep DEF Kept
  <1>2. [][StaysFulfilled]_vars => FulfilledIsFinal
    BY PTL DEF FulfilledIsFinal, StaysFulfilled
  <1> QED BY <1>1, <1>2, Invariance, PTL DEF Spec

\* A hold is fulfilled only by lending the copy it names to its own patron.
THEOREM FilledByLending ==
  ASSUME CirculationAssumption, Steady PROVE Spec => FilledForOwner
  <1>1. IInv /\ [Next]_vars => [LentToOwner]_vars
    BY NextStep DEF Kept
  <1>2. [][LentToOwner]_vars => FilledForOwner
    BY PTL DEF FilledForOwner, LentToOwner
  <1> QED BY <1>1, <1>2, Invariance, PTL DEF Spec

-----------------------------------------------------------------------------
(* Copies, their loans and their transits.                                 *)

\* The requests that are known to break the invariants are left out.
Tidy == /\ Steady
        /\ "mark_moving" \notin Requests
        /\ "reset_delivered" \notin Requests

\* The open transits of copy c in transit table T.
OpenIn(T, c) == {t \in TransitIds : T[t] # NoTransit /\ T[t].copy = c /\ T[t].open}

\* A copy is in transit while it has an open transit, and it has one at most;
\* no transit leaves a copy in transit when it arrives.
TransitInv ==
    /\ \A c \in Copies : status[c] = "in_transit" <=> OpenTransits(c) # {}
    /\ \A c \in Copies : \A t, u \in OpenTransits(c) : t = u
    /\ \A t \in TransitIds : transit[t] # NoTransit => transit[t].back # "in_transit"

\* A reset of hold h that writes row: if it finds the copy in transit, then all
\* the transits it may find are open transits of that copy.
SafeReset(h, row) ==
    row.captured /\ row.copy # NoCopy /\ status[row.copy] = "in_transit"
        => HoldTransits(h) \subseteq OpenTransits(row.copy)

ResetsSafe ==
    \A f \in todo :
        /\ f.op = "reset" => SafeReset(f.hold, f.row)
        /\ f.op = "refetch" => SafeReset(f.hold, hold[f.hold])

CopyInv == TransitInv /\ LoanedStatus /\ ResetsSafe

OnLoan == {"checked_out", "lost", "missing"}

-----------------------------------------------------------------------------
(* What a step does to the copy it is about.                               *)

\* T is the transit table without the open transits of copy c.
Cleared(T, c) ==
    /\ OpenIn(T, c) = {}
    /\ \A d \in Copies \ {c} : OpenIn(T, d) = OpenTransits(d)
    /\ \A t \in TransitIds : /\ T[t] # NoTransit => T[t].back # "in_transit"
                             /\ transit[t] = NoTransit => T[t] = NoTransit

\* Copy c has no open transit any more, or a new one.
Handled(c, T) ==
    \/ /\ transit' = T /\ status'[c] # "in_transit"
       /\ loan'[c] # NoLoan => status'[c] \in OnLoan
    \/ /\ status'[c] = "in_transit" /\ loan'[c] = NoLoan
       /\ \E t \in TransitIds, row \in TransitRows :
             /\ T[t] = NoTransit /\ transit' = [T EXCEPT ![t] = row]
             /\ row.copy = c /\ row.open /\ row.back # "in_transit"

\* Other copies keep their status and their loan.
OthersAlone(c) ==
    \A d \in Copies \ {c} : status'[d] = status[d] /\ loan'[d] = loan[d]

\* No transit row is mistaken for the absence of one.
LEMMA RowsAreRows ==
  ASSUME CirculationAssumption, NEW row \in TransitRows
  PROVE  row # NoTransit
  BY DEF CirculationAssumption

\* A step that handles copy c and leaves the others alone keeps everything in
\* step.
LEMMA HandledStep ==
  ASSUME CirculationAssumption, TypeOK, TransitInv, LoanedStatus,
         NEW c \in Copies, NEW T \in TransitTables, Cleared(T, c),
         Handled(c, T), OthersAlone(c)
  PROVE  TransitInv' /\ LoanedStatus'
  <1>1. LoanedStatus'
    BY DEF LoanedStatus, Handled, OthersAlone, OnLoan
  <1>2. CASE transit' = T /\ status'[c] # "in_transit"
    <2>1. \A d \in Copies : OpenTransits(d)' = OpenIn(T, d)
      BY <1>2 DEF OpenTransits, OpenIn
    <2> QED BY <1>1, <1>2, <2>1 DEF TransitInv, Cleared, OthersAlone
  <1>3. ASSUME NEW t \in TransitIds, NEW row \in TransitRows,
               T[t] = NoTransit, transit' = [T EXCEPT ![t] = row],
               row.copy = c, row.open, row.back # "in_transit",
               status'[c] = "in_transit"
        PROVE  TransitInv'
    <2>1. row # NoTransit
      BY RowsAreRows
    <2>2. transit'[t] = row /\ \A u \in TransitIds \ {t} : transit'[u] = T[u]
      BY <1>3 DEF TransitTables
    <2>3. \A d \in Copies \ {c} : OpenTransits(d)' = OpenIn(T, d)
      BY <1>3, <2>2 DEF OpenTransits, OpenIn
    <2>4. OpenTransits(c)' = {t}
      BY <1>3, <2>1, <2>2 DEF OpenTransits, OpenIn, Cleared
    <2>5. \A u \in TransitIds : transit'[u] # NoTransit => transit'[u].back # "in_transit"
      BY <1>3, <2>2 DEF Cleared
    <2>6. \A d \in Copies \ {c} : status'[d] = "in_transit" <=> OpenTransits(d)' # {}
      BY <2>3 DEF TransitInv, Cleared, OthersAlone
    <2>7. \A d \in Copies \ {c} : \A u, v \in OpenTransits(d)' : u = v
      BY <2>3 DEF TransitInv, Cleared
    <2> QED BY <1>3, <2>4, <2>5, <2>6, <2>7 DEF TransitInv
  <1> QED BY <1>1, <1>2, <1>3 DEF Handled

\* Steps that leave the transits alone.
LEMMA TransitsAlone ==
  ASSUME TransitInv, LoanedStatus, UNCHANGED transit,
         \A d \in Copies : /\ status'[d] = "in_transit" <=> status[d] = "in_transit"
                           /\ loan'[d] # NoLoan => status'[d] \in OnLoan
  PROVE  TransitInv' /\ LoanedStatus'
  <1>1. \A d \in Copies : OpenTransits(d)' = OpenTransits(d)
    BY DEF OpenTransits
  <1> QED BY <1>1 DEF TransitInv, LoanedStatus, OnLoan

\* A step that is served while only targets wait, and leaves only targets.
LEMMA OnlyTargets ==
  ASSUME TargetsOnly, \A f \in todo' \ todo : f.op = "target"
  PROVE  ResetsSafe'
  BY DEF TargetsOnly, ResetsSafe

\* A copy that is not in transit: the transit table is clear of it.
LEMMA NotMoving ==
  ASSUME TransitInv, NEW c \in Copies, OpenTransits(c) = {}
  PROVE  Cleared(transit, c)
  BY DEF Cleared, TransitInv, OpenIn, OpenTransits

\* A copy on loan is not in transit.
LEMMA LoanedNotMoving ==
  ASSUME TransitInv, LoanedStatus, NEW c \in Copies, loan[c] # NoLoan
  PROVE  OpenTransits(c) = {} /\ status[c] \in OnLoan
  BY DEF TransitInv, LoanedStatus, OnLoan

\* Once its one open transit is received or deleted, the table is clear of it.
LEMMA TransitCleared ==
  ASSUME CirculationAssumption, TypeOK, TransitInv, NEW c \in Copies,
         NEW t \in OpenTransits(c), NEW T \in TransitTables,
         \A u \in TransitIds \ {t} : T[u] = transit[u],
         T[t] # NoTransit => ~T[t].open /\ T[t].back # "in_transit"
  PROVE  Cleared(T, c)
  <1>1. t \in TransitIds /\ transit[t] # NoTransit /\ transit[t].copy = c
    BY DEF OpenTransits
  <1>2. \A u \in TransitIds : u \in OpenTransits(c) => u = t
    BY DEF TransitInv
  <1>3. OpenIn(T, c) = {}
    BY <1>1, <1>2 DEF OpenIn, OpenTransits
  <1>4. \A d \in Copies \ {c} : OpenIn(T, d) = OpenTransits(d)
    BY <1>1 DEF OpenIn, OpenTransits
  <1>5. \A u \in TransitIds : /\ T[u] # NoTransit => T[u].back # "in_transit"
                              /\ transit[u] = NoTransit => T[u] = NoTransit
    BY <1>1 DEF TransitInv
  <1> QED BY <1>3, <1>4, <1>5 DEF Cleared

-----------------------------------------------------------------------------
(* Checkin.                                                                *)

\* A row that NewTransit writes.
LEMMA NewRow ==
  ASSUME CirculationAssumption, NEW T \in TransitTables, NEW c \in Copies,
         Cleared(T, c), NEW dest \in Libs, NEW back \in Statuses \ {"in_transit"},
         NEW h \in Holds \cup {NoHold},
         \E t \in TransitIds :
            NewTransit(t, [copy |-> c, dest |-> dest, back |-> back,
                           hold |-> h, open |-> TRUE], T)
  PROVE  \E t \in TransitIds, row \in TransitRows :
             /\ T[t] = NoTransit /\ transit' = [T EXCEPT ![t] = row]
             /\ row.copy = c /\ row.open /\ row.back # "in_transit"
  <1> DEFINE row == [copy |-> c, dest |-> dest, back |-> back,
                     hold |-> h, open |-> TRUE]
  <1>1. row \in TransitRows /\ row.copy = c /\ row.open /\ row.back # "in_transit"
    BY DEF TransitRows
  <1>2. PICK t \in TransitIds : NewTransit(t, row, T)
    OBVIOUS
  <1> HIDE DEF row
  <1>3. T[t] = NoTransit /\ transit' = [T EXCEPT ![t] = row]
    BY <1>2 DEF NewTransit, FreeTransit, Cleared
  <1> QED BY <1>1, <1>3

\* However a checkin ends, its copy is handled; and what it leaves to do is
\* to target holds.
LEMMA SettleHandles ==
  ASSUME CirculationAssumption, TypeOK, NEW c \in Copies, NEW l \in Libs,
         NEW s \in Statuses \ {"in_transit"}, NEW r \in Holds \cup {NoHold},
         NEW H \in HoldTables, NEW T \in TransitTables, Cleared(T, c),
         r # NoHold => H[r].placed, Settle(c, l, s, r, H, T),
         loan'[c] = NoLoan, \A d \in Copies \ {c} : loan'[d] = loan[d]
  PROVE  /\ Handled(c, T) /\ OthersAlone(c)
         /\ \A f \in todo' \ todo : f.op = "target"
  <1>0. \A g \in Holds : H[g] \in HoldRows
    BY DEF HoldTables
  <1>1. ASSUME NEW h \in Capturable(c, H), CaptureHold(c, l, h, H, T)
        PROVE  /\ Handled(c, T) /\ OthersAlone(c)
               /\ \A f \in todo' \ todo : f.op = "target"
    <2>1. h \in Holds /\ H[h].placed
      BY DEF Capturable, PreTargeted
    <2>2. H[h].pickup \in Libs
      BY <1>0, <2>1 DEF HoldRows
    <2>3. \A f \in todo' \ todo : f.op = "target"
      BY <1>1 DEF CaptureHold, Retarget
    <2>4. OthersAlone(c)
      BY <1>1 DEF CaptureHold, OthersAlone, TypeOK
    <2>5. CASE H[h].pickup = l
      BY <1>1, <2>3, <2>4, <2>5 DEF CaptureHold, Handled, TypeOK
    <2>6. CASE H[h].pickup # l
      <3>1. /\ status'[c] = "in_transit"
            /\ \E t \in TransitIds :
                  NewTransit(t, [copy |-> c, dest |-> H[h].pickup, back |-> "holds_shelf",
                                 hold |-> h, open |-> TRUE], T)
        BY <1>1, <2>6 DEF CaptureHold, TypeOK
      <3>2. "holds_shelf" \in Statuses \ {"in_transit"}
        BY DEF Statuses
      <3> QED BY <2>1, <2>2, <2>3, <2>4, <3>1, <3>2, NewRow DEF Handled
    <2> QED BY <2>5, <2>6
  <1>2. CASE SendAway(c, l, s, r, H, T)
    <2> DEFINE dest == IF r = NoHold THEN Home[c] ELSE H[r].pickup
    <2>1. dest \in Libs
      BY <1>0 DEF HoldRows, CirculationAssumption
    <2>2. /\ status' = [status EXCEPT ![c] = "in_transit"] /\ UNCHANGED todo
          /\ \E t \in TransitIds :
                NewTransit(t, [copy |-> c, dest |-> dest, back |-> s,
                               hold |-> r, open |-> TRUE], T)
      BY <1>2 DEF SendAway
    <2> HIDE DEF dest
    <2>3. status'[c] = "in_transit" /\ OthersAlone(c)
      BY <2>2 DEF OthersAlone, TypeOK
    <2> QED BY <2>1, <2>2, <2>3, NewRow DEF Handled
  <1>3. CASE StayHere(c, s, H, T)
    BY <1>3 DEF StayHere, Reshelved, Handled, OthersAlone, TypeOK, Statuses
  <1> QED BY <1>1, <1>2, <1>3 DEF Settle

\* What a step on the copies must keep, and what it may leave to do.
CopiesKept ==
    TransitInv' /\ LoanedStatus' /\ \A f \in todo' \ todo : f.op = "target"

\* Returning a loan: the copy has no open transit.
LEMMA LoanCheckin ==
  ASSUME CirculationAssumption, TypeOK, TransitInv, LoanedStatus,
         NEW c \in Copies, NEW l \in Libs, CheckinLoan(c, l)
  PROVE  CopiesKept
  <1>1. /\ loan' = [loan EXCEPT ![c] = NoLoan] /\ loan[c] # NoLoan
        /\ hold \in HoldTables /\ transit \in TransitTables
    BY DEF CheckinLoan, TypeOK, HoldTables, TransitTables
  <1>2. loan'[c] = NoLoan /\ \A d \in Copies \ {c} : loan'[d] = loan[d]
    BY <1>1 DEF TypeOK
  <1>3. Cleared(transit, c)
    BY <1>1, LoanedNotMoving, NotMoving
  <1>4. PICK s \in Statuses, r \in Holds \cup {NoHold} :
          /\ ShelfCheck(c, l, s, r)
          /\ \/ \E back \in ReturnStatus(c, l, s) : Settle(c, l, back, r, hold, transit)
             \/ /\ status' = [status EXCEPT ![c] = "missing"]
                /\ UNCHANGED <<hold, transit, todo>>
    BY DEF CheckinLoan
  <1>5. ASSUME NEW back \in ReturnStatus(c, l, s), Settle(c, l, back, r, hold, transit)
        PROVE  CopiesKept
    <2>1. back \in Statuses \ {"in_transit"}
      BY DEF ReturnStatus, Statuses
    <2>2. /\ Handled(c, transit) /\ OthersAlone(c)
          /\ \A f \in todo' \ todo : f.op = "target"
      BY <1>1, <1>2, <1>3, <1>4, <1>5, <2>1, ShelfCheckFacts, SettleHandles
    <2> QED BY <1>1, <1>3, <2>2, HandledStep DEF CopiesKept
  <1>6. CASE status' = [status EXCEPT ![c] = "missing"] /\ UNCHANGED <<hold, transit, todo>>
    <2>1. Handled(c, transit) /\ OthersAlone(c)
      BY <1>2, <1>6 DEF Handled, OthersAlone, TypeOK
    <2> QED BY <1>1, <1>3, <1>6, <2>1, HandledStep DEF CopiesKept
  <1> QED BY <1>4, <1>5, <1>6

\* Receiving a transit: the one open transit of the copy is closed or deleted.
LEMMA TransitCheckin ==
  ASSUME CirculationAssumption, TypeOK, TransitInv, LoanedStatus,
         NEW c \in Copies, NEW l \in Libs, CheckinTransit(c, l)
  PROVE  CopiesKept
  <1>1. /\ loan[c] = NoLoan /\ UNCHANGED loan
        /\ hold \in HoldTables /\ transit \in TransitTables
    BY DEF CheckinTransit, TypeOK, HoldTables, TransitTables
  <1>2. PICK t \in OpenTransits(c), s \in Statuses, r \in Holds \cup {NoHold} :
          /\ ShelfCheck(c, l, s, r)
          /\ IF transit[t].hold = NoHold
             THEN Settle(c, l, transit[t].back, r, hold, [transit EXCEPT ![t] = NoTransit])
             ELSE ArriveForHold(c, l, t, r, [transit EXCEPT ![t].open = FALSE])
    BY DEF CheckinTransit
  <1>3. /\ t \in TransitIds /\ transit[t] \in TransitRows
        /\ transit[t].back \in Statuses \ {"in_transit"}
        /\ transit[t].hold \in Holds \cup {NoHold}
    BY <1>1 DEF OpenTransits, TransitTables, TransitRows, TransitInv
  <1>4. r # NoHold => hold[r].placed
    BY <1>2, ShelfCheckFacts
  <1>5. CASE transit[t].hold = NoHold
    <2> DEFINE T == [transit EXCEPT ![t] = NoTransit]
    <2>1. T \in TransitTables /\ T[t] = NoTransit /\ \A u \in TransitIds \ {t} : T[u] = transit[u]
      BY <1>1, <1>3 DEF TransitTables
    <2>2. Settle(c, l, transit[t].back, r, hold, T)
      BY <1>2, <1>5
    <2> HIDE DEF T
    <2>3. Cleared(T, c)
      BY <2>1, TransitCleared
    <2>4. /\ Handled(c, T) /\ OthersAlone(c)
          /\ \A f \in todo' \ todo : f.op = "target"
      BY <1>1, <1>3, <1>4, <2>1, <2>2, <2>3, SettleHandles
    <2> QED BY <2>1, <2>3, <2>4, HandledStep DEF CopiesKept
  <1>6. CASE transit[t].hold # NoHold
    <2> DEFINE h == transit[t].hold
               H == [hold EXCEPT ![h].shelf = l]
               row == [transit[t] EXCEPT !.open = FALSE]
               T == [transit EXCEPT ![t] = row]
    <2>0. row \in TransitRows /\ row.open = FALSE /\ row.back = transit[t].back
      BY <1>3 DEF TransitRows
    <2>1. \/ Settle(c, l, "reshelving", r, H, T)
          \/ /\ status' = [status EXCEPT ![c] = transit[t].back]
             /\ transit' = T /\ UNCHANGED todo
      BY <1>2, <1>6 DEF ArriveForHold
    <2>2. H \in HoldTables /\ \A g \in Holds : H[g].placed = hold[g].placed
      <3> DEFINE new == [hold[h] EXCEPT !.shelf = l]
      <3>1. h \in Holds /\ hold[h] \in HoldRows
        BY <1>1, <1>3, <1>6 DEF HoldTables
      <3>2. new \in HoldRows /\ new.placed = hold[h].placed
        BY <3>1 DEF HoldRows
      <3>3. H = [hold EXCEPT ![h] = new]
        OBVIOUS
      <3> HIDE DEF new, H, h
      <3>4. H \in HoldTables /\ H[h] = new /\ \A g \in Holds \ {h} : H[g] = hold[g]
        BY <1>1, <3>1, <3>2, <3>3, TableUpdate DEF HoldTables
      <3> QED BY <3>2, <3>4
    <2> HIDE DEF row
    <2>3. T \in TransitTables /\ T[t] = row /\ \A u \in TransitIds \ {t} : T[u] = transit[u]
      BY <1>1, <1>3, <2>0 DEF TransitTables
    <2> HIDE DEF T, H
    <2>4. Cleared(T, c)
      BY <1>3, <2>0, <2>3, TransitCleared
    <2>5. CASE Settle(c, l, "reshelving", r, H, T)
      <3>1. "reshelving" \in Statuses \ {"in_transit"} /\ (r # NoHold => H[r].placed)
        BY <1>4, <2>2 DEF Statuses
      <3>2. /\ Handled(c, T) /\ OthersAlone(c)
            /\ \A f \in todo' \ todo : f.op = "target"
        BY <1>1, <2>2, <2>3, <2>4, <2>5, <3>1, SettleHandles
      <3> QED BY <2>3, <2>4, <3>2, HandledStep DEF CopiesKept
    <2>6. CASE /\ status' = [status EXCEPT ![c] = transit[t].back]
               /\ transit' = T /\ UNCHANGED todo
      <3>1. Handled(c, T) /\ OthersAlone(c)
        BY <1>1, <1>3, <2>6 DEF Handled, OthersAlone, TypeOK
      <3> QED BY <2>3, <2>4, <2>6, <3>1, HandledStep DEF CopiesKept
    <2> QED BY <2>1, <2>5, <2>6
  <1> QED BY <1>5, <1>6

\* A checkin with nothing to return or receive.
LEMMA OtherCheckin ==
  ASSUME CirculationAssumption, TypeOK, TransitInv, LoanedStatus,
         NEW c \in Copies, NEW l \in Libs, CheckinOther(c, l)
  PROVE  CopiesKept
  <1>1. /\ loan[c] = NoLoan /\ UNCHANGED loan /\ OpenTransits(c) = {}
        /\ hold \in HoldTables /\ transit \in TransitTables
    BY DEF CheckinOther, TypeOK, HoldTables, TransitTables
  <1>2. PICK s \in Statuses, r \in Holds \cup {NoHold} :
          /\ ShelfCheck(c, l, s, r)
          /\ Settle(c, l, IF s = "in_transit" THEN "reshelving" ELSE s, r, hold, transit)
    BY DEF CheckinOther
  <1>3. (IF s = "in_transit" THEN "reshelving" ELSE s) \in Statuses \ {"in_transit"}
    BY DEF Statuses
  <1>4. Cleared(transit, c)
    BY <1>1, NotMoving
  <1>5. /\ Handled(c, transit) /\ OthersAlone(c)
        /\ \A f \in todo' \ todo : f.op = "target"
    BY <1>1, <1>2, <1>3, <1>4, ShelfCheckFacts, SettleHandles
  <1> QED BY <1>1, <1>4, <1>5, HandledStep DEF CopiesKept

\* The three checkins.
LEMMA CheckinKeeps ==
  ASSUME CirculationAssumption, Tidy, IInv, CopyInv, NEW c \in Copies, NEW l \in Libs,
         CheckinLoan(c, l) \/ CheckinTransit(c, l) \/ CheckinOther(c, l)
  PROVE  CopyInv'
  <1>1. CopiesKept
    BY LoanCheckin, TransitCheckin, OtherCheckin DEF IInv, CopyInv
  <1>2. TargetsOnly
    BY ServedSteady DEF Tidy, CheckinLoan, CheckinTransit, CheckinOther
  <1> QED BY <1>1, <1>2, OnlyTargets DEF CopiesKept, CopyInv

-----------------------------------------------------------------------------
(* The other requests on a copy.                                           *)

\* Lending, renewing, claiming, losing and shelving a copy: it has no open
\* transit before, and is not in transit afterwards.
LEMMA CopyRequestKeeps ==
  ASSUME CirculationAssumption, Tidy, IInv, CopyInv, NEW c \in Copies,
         \/ \E u \in Users : Checkout(c, u)
         \/ Renew(c) \/ SetClaimsReturned(c) \/ SetLost(c) \/ ReshelvingDone(c)
  PROVE  CopyInv'
  <1>1. TypeOK /\ TransitInv /\ LoanedStatus
    BY DEF IInv, CopyInv
  <1>2. TargetsOnly
    BY ServedSteady DEF Tidy, Checkout, Renew, SetClaimsReturned, SetLost, ReshelvingDone
  <1>3. UNCHANGED <<transit, todo>>
    BY DEF Checkout, Renew, SetClaimsReturned, SetLost, ReshelvingDone
  <1>4. /\ status[c] # "in_transit" /\ status'[c] # "in_transit"
        /\ loan'[c] # NoLoan => status'[c] \in OnLoan
    BY <1>1 DEF Checkout, Renew, SetClaimsReturned, SetLost, ReshelvingDone, TypeOK,
                LoanedStatus, OnLoan
  <1>5. OthersAlone(c)
    BY <1>1 DEF Checkout, Renew, SetClaimsReturned, SetLost, ReshelvingDone, TypeOK,
                OthersAlone
  <1>6. TransitInv' /\ LoanedStatus'
    BY <1>1, <1>3, <1>4, <1>5, TransitsAlone DEF OthersAlone, LoanedStatus, OnLoan
  <1> QED BY <1>2, <1>3, <1>6, OnlyTargets DEF CopyInv

\* Marking a copy that has no open transit: its status is the mark, so the
\* resets that are left to be done find nothing in transit.
LEMMA MarkKeeps ==
  ASSUME CirculationAssumption, Tidy, IInv, CopyInv, NEW c \in Copies, MarkItem(c)
  PROVE  CopyInv'
  <1>1. TypeOK /\ TransitInv /\ LoanedStatus
    BY DEF IInv, CopyInv
  <1>2. TargetsOnly
    BY ServedSteady DEF Tidy, MarkItem
  <1>3. status[c] # "in_transit"
    BY <1>1 DEF MarkItem, Tidy, TransitInv
  <1>4. UNCHANGED <<loan, transit>> /\ status' = [status EXCEPT ![c] = "missing"]
    BY DEF MarkItem
  <1>5. TransitInv' /\ LoanedStatus'
    BY <1>1, <1>3, <1>4, TransitsAlone DEF TypeOK, LoanedStatus, OnLoan
  <1>6. ASSUME NEW f \in todo'
        PROVE  /\ f.op = "reset" => SafeReset(f.hold, f.row)'
               /\ f.op = "refetch" => SafeReset(f.hold, hold[f.hold])'
    <2>1. CASE f \in todo
      BY <1>2, <2>1 DEF TargetsOnly
    <2>2. CASE f \notin todo
      <3>1. PICK h \in LiveFor(c) : f = Reset(h)
        BY <2>2 DEF MarkItem
      <3>2. f.op = "reset" /\ f.row.copy = c
        BY <3>1 DEF Reset, LiveFor
      <3>3. status'[c] # "in_transit"
        BY <1>1, <1>4 DEF TypeOK
      <3> QED BY <3>2, <3>3 DEF SafeReset
    <2> QED BY <2>1, <2>2
  <1>7. ResetsSafe'
    BY <1>6 DEF ResetsSafe
  <1> QED BY <1>5, <1>7 DEF CopyInv

-----------------------------------------------------------------------------
(* The requests on a hold.                                                 *)

\* Changing the destination or the arrival status of a transit row changes no
\* copy's open transits.
LEMMA RowChange ==
  ASSUME CirculationAssumption, TypeOK, TransitInv, LoanedStatus,
         NEW t \in TransitIds, transit[t] # NoTransit, NEW row \in TransitRows,
         row.copy = transit[t].copy, row.open = transit[t].open,
         row.back # "in_transit", transit' = [transit EXCEPT ![t] = row],
         UNCHANGED <<status, loan>>
  PROVE  TransitInv' /\ LoanedStatus'
  <1>1. transit'[t] = row /\ \A u \in TransitIds \ {t} : transit'[u] = transit[u]
    BY DEF TypeOK
  <1>2. \A d \in Copies : OpenTransits(d)' = OpenTransits(d)
    BY <1>1, RowsAreRows DEF OpenTransits
  <1> QED BY <1>1, <1>2 DEF TransitInv, LoanedStatus

\* Placing, uncancelling, suspending, activating, listing and targeting a hold.
LEMMA HoldRequestKeeps ==
  ASSUME Tidy, IInv, CopyInv, NEW h \in Holds,
         \/ \E l \in Libs : PlaceHold(h, l)
         \/ UncancelHold(h) \/ Freeze(h) \/ Thaw(h) \/ Amend(h) \/ ListHold(h) \/ Targeter(h)
  PROVE  CopyInv'
  <1>1. TargetsOnly
    BY ServedSteady DEF Tidy, PlaceHold, UncancelHold, Freeze, Thaw, Amend, ListHold, Targeter
  <1>2. UNCHANGED <<status, loan, transit>> /\ \A f \in todo' \ todo : f.op = "target"
    BY RetargetFacts DEF PlaceHold, UncancelHold, Freeze, Thaw, Amend, ListHold, Targeter
  <1>3. TransitInv' /\ LoanedStatus'
    BY <1>2, TransitsAlone DEF CopyInv, LoanedStatus, OnLoan
  <1> QED BY <1>1, <1>2, <1>3, OnlyTargets DEF CopyInv

\* Cancelling a hold: a transit it has goes on, with another arrival status.
LEMMA CancelKeeps ==
  ASSUME CirculationAssumption, Tidy, IInv, CopyInv, NEW h \in Holds, CancelHold(h)
  PROVE  CopyInv'
  <1>1. TypeOK /\ TransitInv /\ LoanedStatus
    BY DEF IInv, CopyInv
  <1>2. TargetsOnly /\ UNCHANGED <<status, loan, todo>>
    BY ServedSteady DEF Tidy, CancelHold
  <1>3. ASSUME NEW t \in HoldTransits(h), transit' = [transit EXCEPT ![t].back = "reshelving"]
        PROVE  TransitInv' /\ LoanedStatus'
    <2> DEFINE row == [transit[t] EXCEPT !.back = "reshelving"]
    <2>1. t \in TransitIds /\ transit[t] # NoTransit /\ transit[t] \in TransitRows
      BY <1>1 DEF HoldTransits, TypeOK
    <2>2. /\ row \in TransitRows /\ row.copy = transit[t].copy
          /\ row.open = transit[t].open /\ row.back # "in_transit"
      BY <2>1 DEF TransitRows, Statuses
    <2>3. transit' = [transit EXCEPT ![t] = row]
      BY <1>3
    <2> HIDE DEF row
    <2> QED BY <1>1, <1>2, <2>1, <2>2, <2>3, RowChange
  <1>4. ASSUME UNCHANGED transit PROVE TransitInv' /\ LoanedStatus'
    <2>1. \A d \in Copies : /\ status'[d] = "in_transit" <=> status[d] = "in_transit"
                            /\ loan'[d] # NoLoan => status'[d] \in OnLoan
      BY <1>1, <1>2 DEF LoanedStatus, OnLoan
    <2> QED BY <1>1, <1>4, <2>1, TransitsAlone
  <1>5. TransitInv' /\ LoanedStatus'
    BY ONLY <1>3, <1>4, CancelHold(h) DEF CancelHold
  <1> QED BY <1>2, <1>5, OnlyTargets DEF CopyInv

\* Changing the pickup library: an open transit goes there.
LEMMA PickupKeeps ==
  ASSUME CirculationAssumption, Tidy, IInv, CopyInv, NEW h \in Holds, NEW l \in Libs,
         ChangePickup(h, l)
  PROVE  CopyInv'
  <1>1. TypeOK /\ TransitInv /\ LoanedStatus
    BY DEF IInv, CopyInv
  <1>2. TargetsOnly /\ UNCHANGED <<status, loan>> /\ \A f \in todo' \ todo : f.op = "target"
    BY ServedSteady, RetargetFacts DEF Tidy, ChangePickup
  <1>3. ASSUME NEW t \in HoldTransits(h), transit' = [transit EXCEPT ![t].dest = l]
        PROVE  TransitInv' /\ LoanedStatus'
    <2> DEFINE row == [transit[t] EXCEPT !.dest = l]
    <2>1. t \in TransitIds /\ transit[t] # NoTransit /\ transit[t] \in TransitRows
      BY <1>1 DEF HoldTransits, TypeOK
    <2>2. /\ row \in TransitRows /\ row.copy = transit[t].copy
          /\ row.open = transit[t].open /\ row.back # "in_transit"
      BY <1>1, <2>1 DEF TransitRows, TransitInv
    <2>3. transit' = [transit EXCEPT ![t] = row]
      BY <1>3
    <2> HIDE DEF row
    <2> QED BY <1>1, <1>2, <2>1, <2>2, <2>3, RowChange
  <1>4. ASSUME UNCHANGED transit PROVE TransitInv' /\ LoanedStatus'
    <2>1. \A d \in Copies : /\ status'[d] = "in_transit" <=> status[d] = "in_transit"
                            /\ loan'[d] # NoLoan => status'[d] \in OnLoan
      BY <1>1, <1>2 DEF LoanedStatus, OnLoan
    <2> QED BY <1>1, <1>4, <2>1, TransitsAlone
  <1>5. TransitInv' /\ LoanedStatus'
    BY ONLY <1>3, <1>4, ChangePickup(h, l) DEF ChangePickup
  <1> QED BY <1>2, <1>5, OnlyTargets DEF CopyInv

-----------------------------------------------------------------------------
(* Resets, aborts and follow-ups.                                          *)

\* Transit rows are kept or deleted; no copy gets in transit.
Deleting ==
    /\ \A d \in Copies : status'[d] = "in_transit" => status[d] = "in_transit"
    /\ \A t \in TransitIds : transit'[t] \in {transit[t], NoTransit}

\* A safe reset stays safe while rows are only deleted.
LEMMA StaysSafe ==
  ASSUME Deleting, NEW h, NEW row \in HoldRows, SafeReset(h, row)
  PROVE  SafeReset(h, row)'
  <1> SUFFICES ASSUME row.captured, row.copy # NoCopy, status'[row.copy] = "in_transit",
                      NEW t \in HoldTransits(h)'
               PROVE  t \in OpenTransits(row.copy)'
    BY DEF SafeReset
  <1>1. row.copy \in Copies
    BY DEF HoldRows
  <1>2. t \in TransitIds /\ transit'[t] # NoTransit /\ transit'[t] = transit[t]
    BY DEF HoldTransits, Deleting
  <1>3. t \in HoldTransits(h)
    BY <1>2 DEF HoldTransits
  <1>4. t \in OpenTransits(row.copy)
    BY <1>1, <1>3 DEF SafeReset, Deleting
  <1> QED BY <1>2, <1>4 DEF OpenTransits

\* ... and so do all that wait, while the holds that change are not captured.
LEMMA ResetsStaySafe ==
  ASSUME ResetsSafe, Deleting,
         \A g \in todo : /\ g.hold \in Holds /\ hold[g.hold] \in HoldRows
                         /\ g.op = "reset" => g.row \in HoldRows,
         \A h \in Holds : hold'[h] = hold[h] \/ ~hold'[h].captured,
         \A g \in todo' \ todo : g.op = "target"
  PROVE  ResetsSafe'
  <1> SUFFICES ASSUME NEW g \in todo'
               PROVE  /\ g.op = "reset" => SafeReset(g.hold, g.row)'
                      /\ g.op = "refetch" => SafeReset(g.hold, hold[g.hold])'
    BY DEF ResetsSafe
  <1>1. CASE g.op = "reset"
    BY <1>1, StaysSafe DEF ResetsSafe
  <1>2. CASE g.op = "refetch"
    <2>1. \/ g \in todo /\ SafeReset(g.hold, hold[g.hold])'
          \/ ~hold'[g.hold].captured
      BY <1>2, StaysSafe DEF ResetsSafe
    <2> QED BY <1>2, <2>1 DEF SafeReset
  <1> QED BY <1>1, <1>2

\* The targeter changes holds that are not captured.
LEMMA TargetUncaptured ==
  ASSUME TypeOK, NEW h \in Holds, Targetable(h), TargetHold(h)
  PROVE  \A g \in Holds : hold'[g] = hold[g] \/ ~hold'[g].captured
  BY DEF TargetHold, Targetable, TypeOK, HoldRows

\* A safe reset deletes the open transit of the copy it takes out of transit.
LEMMA SafeResetKeeps ==
  ASSUME CirculationAssumption, TypeOK, TransitInv, LoanedStatus,
         NEW h \in Holds, NEW row \in HoldRows,
         SafeReset(h, row), DoReset(h, row), UNCHANGED loan
  PROVE  /\ TransitInv' /\ LoanedStatus' /\ Deleting
         /\ ~hold'[h].captured /\ \A g \in Holds \ {h} : hold'[g] = hold[g]
  <1> DEFINE c == row.copy
             held == row.captured /\ c # NoCopy
  <1>1. ~hold'[h].captured /\ \A g \in Holds \ {h} : hold'[g] = hold[g]
    BY DEF DoReset, TypeOK, HoldRows
  <1>2. c \in Copies \cup {NoCopy}
    BY DEF HoldRows
  <1>3. CASE held /\ status[c] = "in_transit" /\ HoldTransits(h) # {}
    <2>1. PICK t \in HoldTransits(h) : transit' = [transit EXCEPT ![t] = NoTransit]
      BY <1>3 DEF DoReset
    <2>2. c \in Copies /\ status' = [status EXCEPT ![c] = "reshelving"]
      BY <1>2, <1>3 DEF DoReset
    <2>3. t \in OpenTransits(c) /\ t \in TransitIds
      BY <1>3 DEF SafeReset, OpenTransits
    <2>4. /\ transit' \in TransitTables /\ transit'[t] = NoTransit
          /\ \A u \in TransitIds \ {t} : transit'[u] = transit[u]
      BY <2>1, <2>3 DEF TypeOK, TransitTables
    <2>5. Cleared(transit', c)
      BY ONLY CirculationAssumption, TypeOK, TransitInv, <2>2, <2>3, <2>4, TransitCleared
    <2>6. loan[c] = NoLoan
      BY <1>3, <2>2 DEF LoanedStatus
    <2>7. Handled(c, transit') /\ OthersAlone(c)
      BY <2>2, <2>6 DEF Handled, OthersAlone, TypeOK
    <2>8. TransitInv' /\ LoanedStatus'
      BY <2>2, <2>4, <2>5, <2>7, HandledStep
    <2>9. Deleting
      BY <2>2, <2>4 DEF Deleting, TypeOK
    <2> QED BY <1>1, <2>8, <2>9
  <1>4. CASE ~(held /\ status[c] = "in_transit" /\ HoldTransits(h) # {})
    <2>1. /\ UNCHANGED transit
          /\ \/ UNCHANGED status
             \/ /\ c \in Copies /\ status[c] = "holds_shelf"
                /\ status' = [status EXCEPT ![c] = "reshelving"]
      BY <1>2, <1>4 DEF DoReset
    <2>2. \A d \in Copies : /\ status'[d] = "in_transit" <=> status[d] = "in_transit"
                            /\ loan'[d] # NoLoan => status'[d] \in OnLoan
      BY <2>1 DEF TypeOK, LoanedStatus, OnLoan
    <2>3. TransitInv' /\ LoanedStatus'
      BY <2>1, <2>2, TransitsAlone
    <2>4. Deleting
      BY <2>1, <2>2 DEF Deleting
    <2> QED BY <1>1, <2>3, <2>4
  <1> QED BY <1>3, <1>4

\* A requested reset: `Tidy' leaves out those that may find another row.
LEMMA ResetKeeps ==
  ASSUME CirculationAssumption, Tidy, IInv, CopyInv, NEW h \in Holds, ResetHold(h)
  PROVE  CopyInv'
  <1>1. TypeOK /\ TransitInv /\ LoanedStatus /\ hold[h] \in HoldRows
    BY DEF IInv, CopyInv, TypeOK
  <1>2. /\ TargetsOnly /\ UNCHANGED loan /\ DoReset(h, hold[h])
        /\ \A f \in todo' \ todo : f.op = "target"
    BY ServedSteady, RetargetFacts DEF Tidy, ResetHold
  <1>3. hold[h].copy \in Copies \cup {NoCopy}
    BY <1>1 DEF HoldRows
  <1>4. SafeReset(h, hold[h])
    BY <1>3 DEF ResetHold, Tidy, Delivered, SafeReset
  <1>5. TransitInv' /\ LoanedStatus'
    BY <1>1, <1>2, <1>4, SafeResetKeeps
  <1> QED BY <1>2, <1>5, OnlyTargets DEF CopyInv

\* An abort: the copy gets out of transit.  Its hold is reset later, and that
\* finds no transit of another copy unless this is open.
LEMMA AbortKeeps ==
  ASSUME CirculationAssumption, Tidy, IInv, CopyInv, NEW t \in TransitIds, AbortTransit(t)
  PROVE  CopyInv'
  <1> DEFINE row == transit[t]
             c == row.copy
             h == row.hold
  <1>1. TypeOK /\ TransitInv /\ LoanedStatus /\ TargetsOnly /\ UNCHANGED <<loan, hold>>
    BY ServedSteady DEF IInv, CopyInv, Tidy, AbortTransit
  <1>2. row \in TransitRows /\ row # NoTransit /\ row.open
    BY <1>1 DEF AbortTransit, TypeOK
  <1>3. c \in Copies /\ row.back \in Statuses /\ h \in Holds \cup {NoHold}
    BY <1>2 DEF TransitRows
  <1>4. t \in OpenTransits(c) /\ row.back # "in_transit" /\ status[c] = "in_transit"
    BY <1>1, <1>2, <1>3 DEF OpenTransits, TransitInv
  <1>5. /\ transit' = [transit EXCEPT ![t] = NoTransit]
        /\ status' = [status EXCEPT ![c] = IF h = NoHold THEN row.back ELSE "reshelving"]
        /\ \A f \in todo' \ todo : h # NoHold /\ f.op = "refetch" /\ f.hold = h
    BY DEF AbortTransit
  <1>6. h # NoHold /\ hold[h].copy # c => ~Delivered(h, HoldTransits(h) \ {t})
    BY DEF AbortTransit, Tidy
  <1> HIDE DEF row, c, h
  <1>7. /\ transit' \in TransitTables /\ transit'[t] = NoTransit
        /\ \A u \in TransitIds \ {t} : transit'[u] = transit[u]
    BY <1>1, <1>5 DEF TypeOK, TransitTables
  <1>8. status'[c] # "in_transit" /\ OthersAlone(c)
    BY <1>1, <1>3, <1>4, <1>5 DEF OthersAlone, TypeOK
  <1>9. TransitInv' /\ LoanedStatus'
    <2>1. Cleared(transit', c)
      BY ONLY CirculationAssumption, <1>1, <1>3, <1>4, <1>7, TransitCleared
    <2>2. loan[c] = NoLoan
      BY <1>1, <1>3, <1>4 DEF LoanedStatus
    <2>3. Handled(c, transit')
      BY <1>1, <1>8, <2>2 DEF Handled
    <2> QED BY <1>1, <1>3, <1>7, <1>8, <2>1, <2>3, HandledStep
  <1>10. ASSUME NEW g \in Holds, g = h PROVE SafeReset(g, hold[g])'
    <2> SUFFICES ASSUME hold[g].captured, hold[g].copy # NoCopy,
                        status'[hold[g].copy] = "in_transit", NEW u \in HoldTransits(g)'
                 PROVE  u \in OpenTransits(hold[g].copy)'
      BY <1>1 DEF SafeReset
    <2>1. hold[g].copy \in Copies \ {c}
      BY <1>1, <1>3, <1>8 DEF TypeOK, HoldRows
    <2>2. status[hold[g].copy] = "in_transit"
      BY <1>8, <2>1 DEF OthersAlone
    <2>3. u \in HoldTransits(g) \ {t} /\ transit'[u] = transit[u]
      BY <1>7 DEF HoldTransits
    <2>4. g # NoHold
      BY DEF CirculationAssumption
    <2>5. u \in OpenTransits(hold[g].copy)
      BY <1>6, <1>10, <2>1, <2>2, <2>3, <2>4 DEF Delivered
    <2> QED BY <1>1, <2>3, <2>5 DEF OpenTransits
  <1>11. ResetsSafe'
    <2>1. ASSUME NEW f \in todo'
          PROVE  /\ f.op = "reset" => SafeReset(f.hold, f.row)'
                 /\ f.op = "refetch" => SafeReset(f.hold, hold[f.hold])'
      <3>1. CASE f.op = "target"
        BY <3>1
      <3>2. CASE f.op # "target"
        <4>1. f \notin todo
          BY <1>1, <3>2 DEF TargetsOnly
        <4>2. f.op = "refetch" /\ f.hold \in Holds /\ f.hold = h
          BY <1>3, <1>5, <4>1
        <4> QED BY <1>10, <4>2
      <3> QED BY <3>1, <3>2
    <2> QED BY <2>1 DEF ResetsSafe
  <1> QED BY <1>9, <1>11 DEF CopyInv

\* A follow-up: a reset that was safe when it was left to be done is still so.
LEMMA FollowUpKeeps ==
  ASSUME CirculationAssumption, IInv, CopyInv, NEW f \in todo, FollowUp(f)
  PROVE  CopyInv'
  <1>1. TypeOK /\ TransitInv /\ LoanedStatus /\ ResetsSafe /\ UNCHANGED loan
    BY DEF IInv, CopyInv, FollowUp
  <1>2. \A g \in todo : /\ g.hold \in Holds /\ hold[g.hold] \in HoldRows
                        /\ g.op = "reset" => g.row \in HoldRows
    BY <1>1 DEF TypeOK, FollowUps
  <1>3. CASE f.op = "target"
    <2>1. /\ UNCHANGED <<status, transit>> /\ todo' \subseteq todo
          /\ \/ Targetable(f.hold) /\ TargetHold(f.hold)
             \/ UNCHANGED hold
      BY <1>3 DEF FollowUp
    <2>2. TransitInv' /\ LoanedStatus' /\ Deleting
      BY <1>1, <2>1, TransitsAlone DEF LoanedStatus, OnLoan, Deleting
    <2>3. \A h \in Holds : hold'[h] = hold[h] \/ ~hold'[h].captured
      BY <1>1, <1>2, <2>1, TargetUncaptured
    <2> QED BY <1>1, <1>2, <2>1, <2>2, <2>3, ResetsStaySafe DEF CopyInv
  <1>4. CASE f.op = "refetch"
    <2>1. /\ UNCHANGED <<status, hold, transit>>
          /\ \A g \in todo' \ todo : g = Reset(f.hold)
      BY <1>4 DEF FollowUp
    <2>2. TransitInv' /\ LoanedStatus' /\ Deleting
      BY <1>1, <2>1, TransitsAlone DEF LoanedStatus, OnLoan, Deleting
    <2>3. SafeReset(f.hold, hold[f.hold])'
      BY <1>1, <1>2, <1>4, <2>1, <2>2, StaysSafe DEF ResetsSafe
    <2>4. ASSUME NEW g \in todo'
          PROVE  /\ g.op = "reset" => SafeReset(g.hold, g.row)'
                 /\ g.op = "refetch" => SafeReset(g.hold, hold[g.hold])'
      <3>1. CASE g \in todo
        BY <1>1, <1>2, <2>1, <2>2, <3>1, StaysSafe DEF ResetsSafe
      <3>2. CASE g \notin todo
        BY <2>1, <2>3, <3>2 DEF Reset
      <3> QED BY <3>1, <3>2
    <2> QED BY <2>2, <2>4 DEF CopyInv, ResetsSafe
  <1>5. CASE f.op = "reset"
    <2>1. DoReset(f.hold, f.row) /\ \A g \in todo' \ todo : g.op = "target"
      BY <1>5, RetargetFacts, <1>2 DEF FollowUp
    <2>2. SafeReset(f.hold, f.row)
      BY <1>1, <1>5 DEF ResetsSafe
    <2>3. /\ TransitInv' /\ LoanedStatus' /\ Deleting
          /\ \A h \in Holds : hold'[h] = hold[h] \/ ~hold'[h].captured
      BY <1>1, <1>2, <1>5, <2>1, <2>2, SafeResetKeeps
    <2> QED BY <1>1, <1>2, <2>1, <2>3, ResetsStaySafe DEF CopyInv
  <1> QED BY <1>1, <1>3, <1>4, <1>5 DEF TypeOK, FollowUps

-----------------------------------------------------------------------------
(* The theorems.                                                           *)

\* Initially nothing is lent, moved or left to be done.
LEMMA InitCopies == ASSUME CirculationAssumption PROVE Init => CopyInv
  BY DEF Init, CopyInv, TransitInv, LoanedStatus, ResetsSafe, OpenTransits

\* Every step keeps the copies in step.
LEMMA NextCopies ==
  ASSUME CirculationAssumption, Tidy, IInv, CopyInv, [Next]_vars PROVE CopyInv'
  <1>1. ASSUME NEW c \in Copies, Desk(c) PROVE CopyInv'
    BY <1>1, CheckinKeeps, CopyRequestKeeps, MarkKeeps DEF Desk
  <1>2. ASSUME NEW h \in Holds, HoldRequest(h) PROVE CopyInv'
    BY <1>2, HoldRequestKeeps, CancelKeeps, PickupKeeps, ResetKeeps DEF HoldRequest
  <1>3. ASSUME NEW f \in todo, Crash(f) PROVE CopyInv'
    <2>1. UNCHANGED <<status, loan, hold, transit>> /\ todo' \subseteq todo
      BY <1>3 DEF Crash
    <2>2. UNCHANGED <<TransitInv, LoanedStatus>>
      BY <2>1 DEF TransitInv, LoanedStatus, OpenTransits
    <2>3. ResetsSafe'
      BY <2>1 DEF CopyInv, ResetsSafe, SafeReset, HoldTransits, OpenTransits
    <2> QED BY <2>2, <2>3 DEF CopyInv
  <1>4. CASE UNCHANGED vars
    BY <1>4 DEF vars, CopyInv, TransitInv, LoanedStatus, OpenTransits, ResetsSafe, SafeReset,
                HoldTransits
  <1> QED BY <1>1, <1>2, <1>3, <1>4, AbortKeeps, FollowUpKeeps DEF Next

\* The inductive invariant always holds.
LEMMA CopyInvariance ==
  ASSUME CirculationAssumption, Tidy PROVE Spec => [](IInv /\ CopyInv)
  <1>1. Init => IInv /\ CopyInv
    BY InitInv, InitCopies
  <1>2. IInv /\ CopyInv /\ [Next]_vars => (IInv /\ CopyInv)'
    BY NextStep, NextCopies DEF Tidy, Kept
  <1> QED BY <1>1, <1>2, PTL DEF Spec

\* A copy somebody has is checked out, lost or missing: no sequence of
\* checkins, renewals, marks, captures, resets and aborts leaves a loaned copy
\* available, on a shelf or in transit.
THEOREM LoanKeepsStatus ==
  ASSUME CirculationAssumption, Tidy PROVE Spec => []LoanedStatus
  <1>1. CopyInv => LoanedStatus
    BY DEF CopyInv
  <1> QED BY <1>1, CopyInvariance, PTL

\* A copy on loan has no open transit.
THEOREM LoanIsNotMoving ==
  ASSUME CirculationAssumption, Tidy PROVE Spec => []NoLoanInTransit
  <1>1. CopyInv => NoLoanInTransit
    BY LoanedNotMoving DEF CopyInv, NoLoanInTransit
  <1> QED BY <1>1, CopyInvariance, PTL

\* One open transit is all that a copy in transit has.
LEMMA OneOpen == ASSUME CopyInv PROVE InTransitOnce
  <1> SUFFICES ASSUME NEW c \in Copies
               PROVE  Cardinality(OpenTransits(c)) = IF status[c] = "in_transit" THEN 1 ELSE 0
    BY DEF InTransitOnce
  <1>1. CASE OpenTransits(c) = {}
    BY <1>1, FS_EmptySet DEF CopyInv, TransitInv
  <1>2. CASE OpenTransits(c) # {}
    <2>1. PICK t : OpenTransits(c) = {t}
      BY <1>2 DEF CopyInv, TransitInv
    <2>2. status[c] = "in_transit"
      BY <1>2 DEF CopyInv, TransitInv
    <2> QED BY <2>1, <2>2, FS_Singleton
  <1> QED BY <1>1, <1>2

\* A copy has exactly one open transit while it is in transit, and none while
\* it is not: the transit rows and copy.status are never out of step.
THEOREM OneTransit ==
  ASSUME CirculationAssumption, Tidy PROVE Spec => []InTransitOnce
  BY OneOpen, CopyInvariance, PTL

-----------------------------------------------------------------------------
(* Holds and their copies.                                                 *)

\* Also left out: uncancelling a hold whose copy moves, updating a suspended hold
\* that was captured, resetting a closed hold whose copy waits for another, and
\* losing a reset.
Neat == /\ Tidy
        /\ "uncancel_moving" \notin Requests
        /\ "amend_captured" \notin Requests
        /\ "reset_reused" \notin Requests
        /\ MaxCrashes = 0 \/ Requests \cap Resetting = {}

LiveRow(r) == r.placed /\ ~r.cancelled /\ ~r.fulfilled

\* A hold nobody placed has nothing, and one that has a shelf is captured.
RowFine(r) ==
    /\ ~r.placed => ~r.captured /\ ~r.fulfilled /\ r.copy = NoCopy /\ r.shelf = NoLib
    /\ LiveRow(r) /\ r.shelf # NoLib => r.captured

RowsFine(H) == \A h \in Holds : RowFine(H[h])

\* OneHoldPerCopy, of hold table H.
Unique(H) ==
    \A g, h \in Holds :
        LiveRow(H[g]) /\ LiveRow(H[h]) /\ H[g].copy = H[h].copy /\ H[g].copy \in Copies
        => g = h

\* The hold of an open transit row is captured for the copy that moves, as long
\* as it is not fulfilled (with that copy or another).
Named(row, H) ==
    row # NoTransit /\ row.open /\ row.hold # NoHold /\ ~H[row.hold].fulfilled
    => H[row.hold].captured /\ H[row.hold].copy = row.copy

Carried(H, T) == \A t \in TransitIds : Named(T[t], H)

\* A live hold with a captured copy, and a reset that waits for a hold.
Captive(h) == Live(h) /\ hold[h].captured
Closing(h) == \E f \in todo : f.op \in {"reset", "refetch"} /\ f.hold = h

\* Transit t brings hold h its copy.
Fits(h, t) == /\ transit[t].hold = h
              /\ transit[t].dest = hold[h].pickup
              /\ transit[t].back = "holds_shelf"

ReadyFor(h) ==
    LET c == hold[h].copy IN
    /\ c \in Copies /\ loan[c] = NoLoan
    /\ \/ status[c] = "holds_shelf" /\ hold[h].shelf # NoLib
       \/ hold[h].shelf = NoLib /\ \E t \in OpenTransits(c) : Fits(h, t)

Ready == \A h \in Holds : Captive(h) /\ ~Closing(h) => ReadyFor(h)

\* What waiting resets rely on: no transit carries the hold, and the copy they
\* take off the shelf waits for no other.
NoneOpen(h) == \A t \in HoldTransits(h) : ~transit[t].open

SafeClose(h, row) ==
    /\ row.placed
    /\ hold[h].fulfilled \/ NoneOpen(h)
    /\ row.captured /\ row.copy \in Copies => Waiting(row.copy) \subseteq {h}

ClosesSafe ==
    \A f \in todo : /\ f.op = "reset" => SafeClose(f.hold, f.row)
                    /\ f.op = "refetch" => SafeClose(f.hold, hold[f.hold])

\* What the targeter lists was placed.
ListedPlaced == \A h \in listed : hold[h].placed

HoldInv == /\ RowsFine(hold) /\ Unique(hold) /\ Carried(hold, transit)
           /\ Ready /\ ClosesSafe

-----------------------------------------------------------------------------
(* Holds a step does not touch.                                            *)

\* The copy of hold h, and the transit that brings it, stay as they are.
Unmoved(h) ==
    LET c == hold[h].copy IN
    /\ hold'[h].copy = c /\ hold'[h].shelf = hold[h].shelf
    /\ hold'[h].pickup = hold[h].pickup
    /\ status'[c] = status[c] /\ loan'[c] = loan[c]
    /\ \A t \in OpenTransits(c) : transit[t].hold = h => transit'[t] = transit[t]

\* Such a hold stays ready.
LEMMA StaysReady ==
  ASSUME NEW h \in Holds, ReadyFor(h), Unmoved(h)
  PROVE  ReadyFor(h)'
  <1> DEFINE c == hold[h].copy
  <1>1. /\ c \in Copies /\ loan'[c] = NoLoan
        /\ hold'[h].copy = c /\ hold'[h].shelf = hold[h].shelf
    BY DEF ReadyFor, Unmoved
  <1>2. CASE status[c] = "holds_shelf" /\ hold[h].shelf # NoLib
    BY <1>1, <1>2 DEF ReadyFor, Unmoved
  <1>3. ASSUME hold[h].shelf = NoLib, NEW t \in OpenTransits(c), Fits(h, t)
        PROVE  ReadyFor(h)'
    <2>1. transit'[t] = transit[t] /\ hold'[h].pickup = hold[h].pickup
      BY <1>3 DEF Fits, Unmoved
    <2>2. t \in OpenTransits(c)' /\ Fits(h, t)'
      BY <1>1, <1>3, <2>1 DEF OpenTransits, Fits
    <2> QED BY <1>1, <1>3, <2>2 DEF ReadyFor
  <1> QED BY <1>2, <1>3 DEF ReadyFor

\* Where only targets wait, no hold is about to be reset.
LEMMA NoClosing ==
  ASSUME TargetsOnly, NEW h \in Holds
  PROVE  ~Closing(h)
  BY DEF TargetsOnly, Closing

\* A step that leaves nothing but targets to be done.
LEMMA TargetsLeft ==
  ASSUME TargetsOnly, \A f \in todo' \ todo : f.op = "target"
  PROVE  ClosesSafe' /\ \A h \in Holds : ~Closing(h)'
  BY DEF TargetsOnly, ClosesSafe, Closing

\* The holds that wait for a copy are the captured ones that name it, and where
\* a copy has one, no other hold names it.
LEMMA WaitingFacts ==
  ASSUME Unique(hold), NEW c \in Copies, NEW h \in Waiting(c)
  PROVE  /\ h \in Holds /\ Captive(h) /\ hold[h].copy = c
         /\ \A g \in Holds : Live(g) /\ hold[g].copy = c => g = h
  BY DEF Unique, Waiting, LiveFor, Captive, Live, LiveRow

\* A copy that waits for a hold is on no loan, and moves for that hold only.
LEMMA WaitingIsReady ==
  ASSUME TransitInv, HoldInv, TargetsOnly, NEW c \in Copies, NEW h \in Waiting(c)
  PROVE  /\ loan[c] = NoLoan
         /\ \/ status[c] = "holds_shelf" /\ hold[h].shelf # NoLib /\ OpenTransits(c) = {}
            \/ /\ hold[h].shelf = NoLib /\ status[c] = "in_transit"
               /\ \A t \in OpenTransits(c) : Fits(h, t)
  <1>1. h \in Holds /\ Captive(h) /\ hold[h].copy = c
    BY WaitingFacts DEF HoldInv
  <1>2. ReadyFor(h)
    BY <1>1, NoClosing DEF HoldInv, Ready
  <1>3. CASE status[c] = "holds_shelf" /\ hold[h].shelf # NoLib
    BY <1>1, <1>2, <1>3 DEF ReadyFor, TransitInv
  <1>4. ASSUME hold[h].shelf = NoLib, NEW t \in OpenTransits(c), Fits(h, t)
        PROVE  /\ hold[h].shelf = NoLib /\ status[c] = "in_transit"
               /\ \A u \in OpenTransits(c) : Fits(h, u)
    BY <1>4 DEF TransitInv
  <1> QED BY <1>1, <1>2, <1>3, <1>4 DEF ReadyFor

-----------------------------------------------------------------------------
(* Checkin.                                                                *)

\* T: the open transits of copy c are received or deleted, or nothing is.
Received(T, c) ==
    /\ T \in TransitTables
    /\ \A t \in TransitIds : T[t] # NoTransit /\ T[t].open => T[t] = transit[t]
    /\ \A d \in Copies \ {c} : \A t \in OpenTransits(d) : T[t] = transit[t]

\* H: the shelf is written of holds that are closed.
Landed(H) ==
    /\ H \in HoldTables /\ RowsFine(H) /\ Sealed(H)
    /\ \A g \in Holds :
          \/ H[g] = hold[g]
          \/ /\ ~LiveRow(H[g]) /\ ~LiveRow(hold[g])
             /\ H[g].captured = hold[g].captured /\ H[g].copy = hold[g].copy
             /\ H[g].fulfilled = hold[g].fulfilled

\* What a checkin leaves of holds and transits.
Shelved ==
    /\ RowsFine(hold)' /\ Unique(hold)' /\ Carried(hold, transit)'
    /\ \A h \in Holds : Captive(h)' => ReadyFor(h)'

\* Neither disturbs what transits carry.
LEMMA CarriedOn ==
  ASSUME Carried(hold, transit), NEW c \in Copies, NEW H, Landed(H),
         NEW T, Received(T, c), CirculationAssumption
  PROVE  Carried(H, T)
  <1> SUFFICES ASSUME NEW t \in TransitIds, T[t] # NoTransit, T[t].open,
                      T[t].hold # NoHold, ~H[T[t].hold].fulfilled
               PROVE  H[T[t].hold].captured /\ H[T[t].hold].copy = T[t].copy
    BY DEF Carried, Named
  <1>1. T[t] = transit[t] /\ T[t] \in TransitRows
    BY DEF Received, TransitTables
  <1>2. T[t].hold \in Holds
    BY <1>1 DEF TransitRows
  <1> QED BY <1>1, <1>2 DEF Carried, Named, Landed

\* A new transit row for copy c, and everything else as in T.
Sent(t, T, c, dest, back, h) ==
    /\ T[t] = NoTransit
    /\ transit'[t] # NoTransit /\ transit'[t].copy = c /\ transit'[t].dest = dest
    /\ transit'[t].back = back /\ transit'[t].hold = h /\ transit'[t].open
    /\ \A u \in TransitIds \ {t} : transit'[u] = T[u]

LEMMA SentRow ==
  ASSUME CirculationAssumption, NEW T \in TransitTables, NEW c \in Copies,
         NEW t \in TransitIds, Cleared(T, c),
         NEW dest \in Libs, NEW back \in Statuses, NEW h \in Holds \cup {NoHold},
         NewTransit(t, [copy |-> c, dest |-> dest, back |-> back,
                        hold |-> h, open |-> TRUE], T)
  PROVE  Sent(t, T, c, dest, back, h)
  <1> DEFINE row == [copy |-> c, dest |-> dest, back |-> back,
                     hold |-> h, open |-> TRUE]
  <1>1. /\ row \in TransitRows /\ row.copy = c /\ row.dest = dest
        /\ row.back = back /\ row.hold = h /\ row.open
    BY DEF TransitRows
  <1>2. row # NoTransit
    BY <1>1, RowsAreRows
  <1> HIDE DEF row
  <1>3. T[t] = NoTransit /\ transit' = [T EXCEPT ![t] = row]
    BY DEF NewTransit, FreeTransit, Cleared, row
  <1> QED BY <1>1, <1>2, <1>3 DEF Sent, TransitTables

\* Holds of other copies are not moved by a checkin of copy c.
LEMMA OthersReady ==
  ASSUME TransitInv, HoldInv, TargetsOnly,
         NEW c \in Copies, OthersAlone(c), NEW T, Received(T, c),
         \/ transit' = T
         \/ \E t \in TransitIds : /\ T[t] = NoTransit
                                  /\ \A u \in TransitIds \ {t} : transit'[u] = T[u],
         NEW h \in Holds, Captive(h), hold[h].copy # c, hold'[h] = hold[h]
  PROVE  ReadyFor(h)'
  <1>1. ReadyFor(h) /\ hold[h].copy \in Copies \ {c}
    BY NoClosing DEF HoldInv, Ready, ReadyFor
  <1>2. \A t \in OpenTransits(hold[h].copy) : T[t] = transit[t] /\ T[t] # NoTransit
    BY <1>1 DEF Received, OpenTransits
  <1>3. \A t \in OpenTransits(hold[h].copy) : transit'[t] = transit[t]
    BY <1>2 DEF OpenTransits
  <1>4. Unmoved(h)
    BY <1>1, <1>3 DEF Unmoved, OthersAlone
  <1> QED BY <1>1, <1>4, StaysReady

\* The rows a capture of copy c for hold h writes: others that named c do not
\* any more.
LEMMA CaptureRows ==
  ASSUME CirculationAssumption, NEW c \in Copies, NEW l \in Libs, NEW H, Landed(H),
         NEW T, NEW h \in Capturable(c, H), CaptureHold(c, l, h, H, T)
  PROVE  /\ h \in Holds /\ LiveRow(H[h]) /\ ~H[h].captured
         /\ LiveRow(hold'[h]) /\ hold'[h].captured /\ hold'[h].copy = c
         /\ RowFine(hold'[h]) /\ hold'[h].pickup = H[h].pickup
         /\ hold'[h].shelf = (IF H[h].pickup = l THEN l ELSE NoLib)
         /\ \A g \in Holds \ {h} :
               \/ hold'[g] = H[g] /\ (LiveRow(H[g]) /\ H[g].copy = c => H[g].captured)
               \/ /\ ~H[g].captured /\ ~H[g].fulfilled /\ ~hold'[g].captured
                  /\ ~hold'[g].fulfilled /\ hold'[g].copy = NoCopy /\ RowFine(hold'[g])
  <1> DEFINE here == H[h].pickup = l
             others == OtherTargets(c, h, H)
             s == IF here THEN l ELSE H[h].shelf
             row == [H[h] EXCEPT !.copy = c, !.captured = TRUE, !.fulfilled = FALSE,
                                 !.cancelled = FALSE, !.shelf = s]
             without(g) == [H[g] EXCEPT !.copy = NoCopy]
  <1>1. \A g \in Holds : H[g] \in HoldRows /\ RowFine(H[g])
    BY DEF Landed, HoldTables, RowsFine
  <1>2. /\ h \in Holds /\ H[h].placed /\ ~H[h].cancelled /\ ~H[h].captured
        /\ ~H[h].fulfilled
    BY DEF Capturable, PreTargeted, Landed, Sealed, CirculationAssumption
  <1>3. LiveRow(H[h]) /\ H[h].shelf = NoLib
    BY <1>1, <1>2 DEF LiveRow, RowFine, CirculationAssumption
  <1>4. hold'[h] = row
    BY <1>2 DEF CaptureHold
  <1>5. /\ row.placed /\ ~row.cancelled /\ ~row.fulfilled /\ row.captured /\ row.copy = c
        /\ row.pickup = H[h].pickup
        /\ row.shelf = (IF here THEN l ELSE NoLib)
    BY <1>1, <1>2, <1>3 DEF HoldRows
  <1>6. ASSUME NEW g \in Holds \ {h}
        PROVE  \/ hold'[g] = H[g] /\ (LiveRow(H[g]) /\ H[g].copy = c => H[g].captured)
               \/ /\ ~H[g].captured /\ ~H[g].fulfilled /\ ~hold'[g].captured
                  /\ ~hold'[g].fulfilled /\ hold'[g].copy = NoCopy /\ RowFine(hold'[g])
    <2>1. CASE g \in others
      <3>1. hold'[g] = without(g)
        BY <2>1 DEF CaptureHold
      <3>2. ~H[g].captured /\ ~H[g].fulfilled /\ H[g].placed
        BY <2>1 DEF OtherTargets, PreTargeted, Landed, Sealed, CirculationAssumption
      <3>3. /\ ~without(g).captured /\ ~without(g).fulfilled /\ without(g).copy = NoCopy
            /\ without(g).placed /\ without(g).shelf = H[g].shelf
            /\ without(g).cancelled = H[g].cancelled
        BY <1>1, <3>2 DEF HoldRows
      <3>4. RowFine(without(g))
        BY <1>1, <3>2, <3>3 DEF RowFine, LiveRow
      <3> QED BY <3>1, <3>2, <3>3, <3>4
    <2>2. CASE g \notin others
      <3>1. hold'[g] = H[g]
        BY <2>2 DEF CaptureHold
      <3>2. LiveRow(H[g]) /\ H[g].copy = c => H[g].captured
        BY <2>2 DEF OtherTargets, PreTargeted, LiveRow
      <3> QED BY <3>1, <3>2
    <2> QED BY <2>1, <2>2
  <1> HIDE DEF row
  <1>7. RowFine(hold'[h]) /\ LiveRow(hold'[h])
    BY <1>4, <1>5 DEF RowFine, LiveRow
  <1> QED BY <1>2, <1>3, <1>4, <1>5, <1>6, <1>7

\* The capture of a copy that waits for no hold.
LEMMA CaptureShelves ==
  ASSUME CirculationAssumption, TypeOK, TransitInv, HoldInv, TargetsOnly,
         NEW c \in Copies, NEW l \in Libs, NEW H, Landed(H),
         NEW T, Received(T, c), Cleared(T, c), Waiting(c) = {},
         OthersAlone(c), loan'[c] = NoLoan,
         NEW h \in Capturable(c, H), CaptureHold(c, l, h, H, T)
  PROVE  Shelved
  <1> DEFINE here == H[h].pickup = l
  <1>1. /\ h \in Holds /\ LiveRow(H[h]) /\ ~H[h].captured
        /\ LiveRow(hold'[h]) /\ hold'[h].captured /\ hold'[h].copy = c
        /\ RowFine(hold'[h]) /\ hold'[h].pickup = H[h].pickup
        /\ hold'[h].shelf = (IF here THEN l ELSE NoLib)
    BY CaptureRows
  <1>2. \A g \in Holds \ {h} :
           \/ hold'[g] = H[g] /\ (LiveRow(H[g]) /\ H[g].copy = c => H[g].captured)
           \/ /\ ~H[g].captured /\ ~H[g].fulfilled /\ ~hold'[g].captured
              /\ ~hold'[g].fulfilled /\ hold'[g].copy = NoCopy /\ RowFine(hold'[g])
    BY CaptureRows
  <1>3. /\ H \in HoldTables /\ RowsFine(H)
        /\ \A g \in Holds : LiveRow(H[g]) => H[g] = hold[g] /\ LiveRow(hold[g])
    BY DEF Landed
  <1>4. \A g \in Holds : LiveRow(H[g]) /\ H[g].captured => H[g].copy # c
    BY <1>3 DEF Waiting, LiveFor, Live, LiveRow
  <1>5. RowsFine(hold)'
    BY <1>1, <1>2, <1>3 DEF RowsFine
  <1>6. \A g \in Holds \ {h} :
           LiveRow(hold'[g]) /\ hold'[g].copy \in Copies
              => hold'[g] = hold[g] /\ LiveRow(hold[g]) /\ hold'[g].copy # c
    BY <1>2, <1>3, <1>4 DEF CirculationAssumption
  <1>7. Unique(hold)'
    BY <1>1, <1>6 DEF HoldInv, Unique
  <1>8. Carried(H, T)
    BY CarriedOn DEF HoldInv
  <1>9. /\ status'[c] = (IF here THEN "holds_shelf" ELSE "in_transit")
        /\ IF here THEN transit' = T
           ELSE \E t \in TransitIds : Sent(t, T, c, H[h].pickup, "holds_shelf", h)
    <2>1. H[h].pickup \in Libs /\ "holds_shelf" \in Statuses
      BY <1>1, <1>3 DEF HoldTables, HoldRows, LiveRow, Statuses
    <2>2. T \in TransitTables
      BY DEF Received
    <2> QED BY <1>1, <2>1, <2>2, SentRow DEF CaptureHold, TypeOK
  <1>10. \A t \in TransitIds : Named(T[t], hold')
    <2> SUFFICES ASSUME NEW t \in TransitIds, T[t] # NoTransit, T[t].open,
                        T[t].hold # NoHold, ~hold'[T[t].hold].fulfilled
                 PROVE  hold'[T[t].hold].captured /\ hold'[T[t].hold].copy = T[t].copy
      BY DEF Named
    <2>1. T[t].hold \in Holds
      BY DEF Received, TransitTables, TransitRows
    <2>2. ~H[T[t].hold].fulfilled => H[T[t].hold].captured /\ H[T[t].hold].copy = T[t].copy
      BY <1>8 DEF Carried, Named
    <2> QED BY <1>1, <1>2, <2>1, <2>2 DEF LiveRow
  <1>11. Carried(hold, transit)'
    <2>1. CASE here
      BY <1>9, <1>10, <2>1 DEF Carried
    <2>2. CASE ~here
      <3>1. PICK t \in TransitIds : Sent(t, T, c, H[h].pickup, "holds_shelf", h)
        BY <1>9, <2>2
      <3>2. Named(transit'[t], hold')
        BY <1>1, <3>1 DEF Sent, Named
      <3> QED BY <1>10, <3>1, <3>2 DEF Sent, Carried
    <2> QED BY <2>1, <2>2
  <1>12. ReadyFor(h)'
    <2>1. CASE here
      BY <1>1, <1>9, <2>1 DEF ReadyFor, CirculationAssumption
    <2>2. CASE ~here
      <3>1. PICK t \in TransitIds : Sent(t, T, c, H[h].pickup, "holds_shelf", h)
        BY <1>9, <2>2
      <3>2. t \in OpenTransits(c)' /\ Fits(h, t)'
        BY <1>1, <3>1 DEF Sent, OpenTransits, Fits
      <3> QED BY <1>1, <2>2, <3>2 DEF ReadyFor
    <2> QED BY <2>1, <2>2
  <1>13. ASSUME NEW g \in Holds \ {h}, Captive(g)'
         PROVE  ReadyFor(g)'
    <2>1. LiveRow(hold'[g]) /\ hold'[g].captured
      BY <1>13 DEF Captive, Live, LiveRow
    <2>2. hold'[g] = hold[g] /\ hold[g].copy # c
      BY <1>2, <1>3, <1>4, <2>1
    <2>3. Captive(g)
      BY <2>1, <2>2 DEF Captive, Live, LiveRow
    <2>4. \/ transit' = T
          \/ \E t \in TransitIds : /\ T[t] = NoTransit
                                   /\ \A u \in TransitIds \ {t} : transit'[u] = T[u]
      BY <1>9 DEF Sent
    <2> QED BY <2>2, <2>3, <2>4, OthersReady
  <1> QED BY <1>5, <1>7, <1>11, <1>12, <1>13 DEF Shelved

\* A checkin that sends the copy away, or leaves it: r is the hold it waits for.
LEMMA MoveShelves ==
  ASSUME CirculationAssumption, TypeOK, TransitInv, HoldInv, TargetsOnly,
         NEW c \in Copies, NEW l \in Libs, NEW s \in Statuses \ {"in_transit"},
         NEW r \in Holds \cup {NoHold}, NEW H, Landed(H),
         NEW T, Received(T, c), Cleared(T, c), OthersAlone(c), loan'[c] = NoLoan,
         \/ r = NoHold /\ Waiting(c) = {}
         \/ r \in Waiting(c) /\ s = "holds_shelf" /\ status[c] = "holds_shelf",
         SendAway(c, l, s, r, H, T) \/ StayHere(c, s, H, T)
  PROVE  Shelved
  <1>1. /\ H \in HoldTables /\ RowsFine(H) /\ T \in TransitTables
        /\ \A g \in Holds : LiveRow(H[g]) => H[g] = hold[g] /\ LiveRow(hold[g])
    BY DEF Landed, Received
  <1>2. Unique(H)
    BY <1>1 DEF HoldInv, Unique
  <1>3. Carried(H, T)
    BY CarriedOn DEF HoldInv
  <1>4. \A g \in Holds : LiveRow(H[g]) /\ H[g].captured /\ H[g].copy = c => g = r /\ r # NoHold
    <2>1. CASE r = NoHold /\ Waiting(c) = {}
      BY <1>1, <2>1 DEF Waiting, LiveFor, Live, LiveRow
    <2>2. CASE r \in Waiting(c)
      <3>1. \A g \in Holds : Live(g) /\ hold[g].copy = c => g = r
        BY <2>2, WaitingFacts DEF HoldInv
      <3>2. r # NoHold
        BY <2>2 DEF Waiting, LiveFor, CirculationAssumption
      <3> QED BY <1>1, <3>1, <3>2 DEF Live, LiveRow
    <2> QED BY <2>1, <2>2
  <1>5. ASSUME r # NoHold
        PROVE  /\ r \in Holds /\ H[r] = hold[r] /\ LiveRow(H[r]) /\ H[r].captured
               /\ H[r].copy = c /\ s = "holds_shelf" /\ H[r].shelf # NoLib
    <2>1. r \in Waiting(c) /\ s = "holds_shelf" /\ status[c] = "holds_shelf"
      BY <1>5
    <2>2. r \in Holds /\ Captive(r) /\ hold[r].copy = c
      BY <2>1, WaitingFacts DEF HoldInv
    <2>3. hold[r].shelf # NoLib
      BY <2>1, WaitingIsReady
    <2>4. ~(~LiveRow(H[r]) /\ ~LiveRow(hold[r]))
      BY <2>2 DEF Captive, Live, LiveRow
    <2> QED BY <2>1, <2>2, <2>3, <2>4 DEF Landed, Captive, Live, LiveRow
  <1>6. ASSUME NEW g \in Holds, Captive(g)', hold'[g] = H[g], g # r,
               \/ transit' = T
               \/ \E t \in TransitIds : /\ T[t] = NoTransit
                                        /\ \A u \in TransitIds \ {t} : transit'[u] = T[u]
        PROVE  ReadyFor(g)'
    <2>1. LiveRow(H[g]) /\ H[g].captured
      BY <1>6 DEF Captive, Live, LiveRow
    <2>2. hold'[g] = hold[g] /\ hold[g].copy # c /\ Captive(g)
      BY <1>1, <1>4, <1>6, <2>1 DEF Captive, Live, LiveRow
    <2> QED BY <1>6, <2>2, OthersReady
  <1>7. CASE SendAway(c, l, s, r, H, T)
    <2> DEFINE dest == IF r = NoHold THEN Home[c] ELSE H[r].pickup
    <2>1. dest \in Libs
      <3>1. r # NoHold => H[r] \in HoldRows /\ H[r].placed
        BY <1>1, <1>5 DEF HoldTables, LiveRow
      <3> QED BY <3>1 DEF HoldRows, CirculationAssumption
    <2>2. PICK t \in TransitIds : Sent(t, T, c, dest, s, r)
      BY <1>1, <1>7, <2>1, SentRow DEF SendAway
    <2> HIDE DEF dest
    <2>3. \A g \in Holds \ {r} : hold'[g] = H[g]
      BY <1>7 DEF SendAway
    <2>4. r # NoHold => /\ hold'[r].shelf = NoLib /\ hold'[r].copy = H[r].copy
                        /\ hold'[r].captured = H[r].captured
                        /\ hold'[r].fulfilled = H[r].fulfilled
                        /\ hold'[r].placed = H[r].placed
                        /\ hold'[r].cancelled = H[r].cancelled
                        /\ hold'[r].pickup = H[r].pickup
      <3> SUFFICES ASSUME r # NoHold
                   PROVE  [H[r] EXCEPT !.shelf = NoLib] = hold'[r] /\ H[r] \in HoldRows
        BY DEF HoldRows
      <3> QED BY <1>1, <1>5, <1>7 DEF SendAway, HoldTables
    <2>5. RowsFine(hold)'
      <3>1. r # NoHold => RowFine(hold'[r])
        BY <1>1, <1>5, <2>4 DEF RowsFine, RowFine, LiveRow
      <3> QED BY <1>1, <2>3, <3>1 DEF RowsFine
    <2>6. \A g \in Holds : /\ LiveRow(hold'[g]) <=> LiveRow(H[g])
                           /\ hold'[g].copy = H[g].copy
                           /\ hold'[g].captured = H[g].captured
                           /\ hold'[g].fulfilled = H[g].fulfilled
      BY <1>5, <2>3, <2>4 DEF LiveRow
    <2>7. Unique(hold)'
      BY <1>2, <2>6 DEF Unique
    <2>8. Carried(hold, transit)'
      <3>1. \A u \in TransitIds : T[u] # NoTransit => T[u].hold \in Holds \cup {NoHold}
        BY <1>1 DEF TransitTables, TransitRows
      <3>2. \A u \in TransitIds : Named(T[u], hold')
        BY <1>3, <2>6, <3>1 DEF Carried, Named
      <3>3. Named(transit'[t], hold')
        BY <1>5, <2>2, <2>6 DEF Sent, Named
      <3> QED BY <2>2, <3>2, <3>3 DEF Sent, Carried
    <2>9. ASSUME NEW g \in Holds, Captive(g)', g = r
          PROVE  ReadyFor(g)'
      <3>1. /\ hold'[g].copy = c /\ hold'[g].shelf = NoLib /\ hold'[g].pickup = H[r].pickup
            /\ r # NoHold /\ s = "holds_shelf"
        BY <1>5, <2>4, <2>9 DEF CirculationAssumption
      <3>2. t \in OpenTransits(c)' /\ Fits(g, t)'
        BY <2>2, <2>9, <3>1 DEF Sent, OpenTransits, Fits, dest
      <3> QED BY <3>1, <3>2 DEF ReadyFor
    <2>10. \E u \in TransitIds : /\ T[u] = NoTransit
                                 /\ \A v \in TransitIds \ {u} : transit'[v] = T[v]
      BY <2>2 DEF Sent
    <2> QED BY <1>6, <2>3, <2>5, <2>7, <2>8, <2>9, <2>10 DEF Shelved
  <1>8. CASE StayHere(c, s, H, T)
    <2>1. hold' = H /\ transit' = T /\ status'[c] = Reshelved(s)
      BY <1>8 DEF StayHere, TypeOK
    <2>2. ASSUME NEW g \in Holds, Captive(g)', g = r
          PROVE  ReadyFor(g)'
      <3>1. r # NoHold /\ status'[c] = "holds_shelf"
        BY <1>5, <2>1, <2>2 DEF Reshelved, CirculationAssumption
      <3> QED BY <1>5, <2>1, <2>2, <3>1 DEF ReadyFor
    <2> QED BY <1>1, <1>2, <1>3, <1>6, <2>1, <2>2 DEF Shelved
  <1> QED BY <1>7, <1>8

\* However a checkin ends.
LEMMA SettleShelves ==
  ASSUME CirculationAssumption, TypeOK, TransitInv, HoldInv, TargetsOnly,
         NEW c \in Copies, NEW l \in Libs, NEW s \in Statuses \ {"in_transit"},
         NEW r \in Holds \cup {NoHold}, NEW H, Landed(H),
         NEW T, Received(T, c), Cleared(T, c), Settle(c, l, s, r, H, T),
         loan'[c] = NoLoan, \A d \in Copies \ {c} : loan'[d] = loan[d],
         \/ r = NoHold /\ Waiting(c) = {}
         \/ r \in Waiting(c) /\ s = "holds_shelf" /\ status[c] = "holds_shelf"
  PROVE  Shelved
  <1>1. H \in HoldTables /\ T \in TransitTables
    BY DEF Landed, Received
  <1>2. r # NoHold => H[r].placed
    <2> SUFFICES ASSUME r \in Waiting(c) PROVE H[r].placed
      OBVIOUS
    <2> QED BY DEF Waiting, LiveFor, Live, Landed, LiveRow
  <1>3. OthersAlone(c)
    BY <1>1, <1>2, SettleHandles
  <1> QED BY <1>3, CaptureShelves, MoveShelves DEF Settle, Waiting, LiveFor, CirculationAssumption

\* Where the checkin of a copy is not about a hold, no hold waits for the copy;
\* where it is, the copy is on the shelf for this hold.
LEMMA ShelfCheckWaits ==
  ASSUME CirculationAssumption, TransitInv, HoldInv, TargetsOnly, NEW c \in Copies,
         NEW l, NEW s, NEW r \in Holds \cup {NoHold}, ShelfCheck(c, l, s, r),
         Waiting(c) # {} => status[c] = "holds_shelf"
  PROVE  \/ r = NoHold /\ Waiting(c) = {}
         \/ r \in Waiting(c) /\ s = "holds_shelf" /\ status[c] = "holds_shelf"
  BY DEF ShelfCheck

\* What every checkin leaves to be done.
LEMMA ShelvedKeeps ==
  ASSUME TargetsOnly, Shelved, \A f \in todo' \ todo : f.op = "target"
  PROVE  HoldInv'
  BY TargetsLeft DEF Shelved, HoldInv, Ready

\* The tables as they are, for a copy without open transits.
LEMMA AsTheyAre ==
  ASSUME IInv, TransitInv, HoldInv, NEW c \in Copies, OpenTransits(c) = {}
  PROVE  Landed(hold) /\ Received(transit, c) /\ Cleared(transit, c)
  BY NotMoving DEF IInv, TypeOK, HoldInv, Landed, Received, HoldTables, TransitTables,
                   OpenTransits

\* The return of a loan: nobody waits for a copy that is lent.
LEMMA LoanCheckinShelves ==
  ASSUME CirculationAssumption, IInv, TransitInv, LoanedStatus, HoldInv, TargetsOnly,
         NEW c \in Copies, NEW l \in Libs, CheckinLoan(c, l)
  PROVE  Shelved
  <1>1. /\ TypeOK /\ loan' = [loan EXCEPT ![c] = NoLoan] /\ loan[c] # NoLoan
    BY DEF CheckinLoan, IInv
  <1>2. loan'[c] = NoLoan /\ \A d \in Copies \ {c} : loan'[d] = loan[d]
    BY <1>1 DEF TypeOK
  <1>3. /\ OpenTransits(c) = {} /\ status[c] \in OnLoan /\ Waiting(c) = {}
        /\ Landed(hold) /\ Received(transit, c) /\ Cleared(transit, c)
    BY <1>1, LoanedNotMoving, WaitingIsReady, AsTheyAre
  <1>4. PICK s \in Statuses, r \in Holds \cup {NoHold} :
          /\ ShelfCheck(c, l, s, r)
          /\ \/ \E back \in ReturnStatus(c, l, s) : Settle(c, l, back, r, hold, transit)
             \/ /\ status' = [status EXCEPT ![c] = "missing"]
                /\ UNCHANGED <<hold, transit, todo>>
    BY DEF CheckinLoan
  <1>5. r = NoHold
    BY <1>3, <1>4, ShelfCheckWaits
  <1>6. ASSUME NEW back \in ReturnStatus(c, l, s), Settle(c, l, back, r, hold, transit)
        PROVE  Shelved
    <2>1. back \in Statuses \ {"in_transit"}
      BY DEF ReturnStatus, Statuses
    <2> QED BY <1>1, <1>2, <1>3, <1>5, <1>6, <2>1, SettleShelves
  <1>7. CASE status' = [status EXCEPT ![c] = "missing"] /\ UNCHANGED <<hold, transit, todo>>
    <2>1. OthersAlone(c)
      BY <1>1, <1>2, <1>7 DEF OthersAlone, TypeOK
    <2>2. ASSUME NEW h \in Holds, Captive(h)' PROVE ReadyFor(h)'
      <3>1. Captive(h) /\ hold'[h] = hold[h] /\ transit' = transit
        BY <1>7, <2>2 DEF Captive, Live
      <3>2. hold[h].copy # c
        BY <1>3, <3>1 DEF Captive, Waiting, LiveFor
      <3> QED BY <1>3, <2>1, <3>1, <3>2, OthersReady
    <2> QED BY <1>7, <2>2 DEF Shelved, HoldInv
  <1> QED BY <1>4, <1>6, <1>7

\* The arrival of a copy for hold h: it goes on the shelf, or goes on if the
\* hold is closed.
LEMMA ArrivalShelves ==
  ASSUME CirculationAssumption, IInv, TransitInv, HoldInv, TargetsOnly,
         NEW c \in Copies, NEW l \in Libs, NEW t \in OpenTransits(c),
         NEW h \in Holds, transit[t].hold = h, transit[t].dest = l,
         NEW T, Received(T, c), Cleared(T, c), status[c] = "in_transit",
         ArriveForHold(c, l, t, NoHold, T), UNCHANGED loan, loan[c] = NoLoan
  PROVE  Shelved
  <1> DEFINE row == [hold[h] EXCEPT !.shelf = l]
             H == [hold EXCEPT ![h] = row]
  <1>1. /\ TypeOK /\ hold \in HoldTables /\ hold[h] \in HoldRows /\ Sealed(hold)
        /\ RowsFine(hold) /\ Unique(hold) /\ Carried(hold, transit)
    BY DEF IInv, TypeOK, HoldTables, HoldInv
  <1>2. /\ row \in HoldRows /\ row.shelf = l /\ row.placed = hold[h].placed
        /\ row.cancelled = hold[h].cancelled /\ row.fulfilled = hold[h].fulfilled
        /\ row.captured = hold[h].captured /\ row.copy = hold[h].copy
        /\ row.pickup = hold[h].pickup
    BY <1>1 DEF HoldRows
  <1>3. IF hold[h].cancelled \/ hold[h].fulfilled
        THEN Settle(c, l, "reshelving", NoHold, H, T)
        ELSE /\ status' = [status EXCEPT ![c] = transit[t].back]
             /\ hold' = H /\ transit' = T /\ UNCHANGED todo
    BY DEF ArriveForHold
  <1>4. /\ t \in TransitIds /\ transit[t] # NoTransit
        /\ ~hold[h].fulfilled => hold[h].captured /\ hold[h].copy = c
    BY <1>1 DEF OpenTransits, Carried, Named, CirculationAssumption
  <1>5. hold[h].placed
    BY <1>1, <1>4 DEF RowsFine, RowFine
  <1> HIDE DEF row
  <1>6. H \in HoldTables /\ H[h] = row /\ \A g \in Holds \ {h} : H[g] = hold[g]
    BY <1>1, <1>2, TableUpdate DEF HoldTables
  <1> HIDE DEF H
  <1>7. Waiting(c) \subseteq {h}
    <2> SUFFICES ASSUME NEW g \in Waiting(c) PROVE g = h
      OBVIOUS
    <2>1. Fits(g, t)
      BY WaitingIsReady
    <2> QED BY <2>1 DEF Fits
  <1>8. CASE hold[h].cancelled \/ hold[h].fulfilled
    <2>1. Waiting(c) = {}
      BY <1>7, <1>8 DEF Waiting, LiveFor, Live
    <2>2. Landed(H)
      <3>1. RowFine(row) /\ ~LiveRow(row) /\ ~LiveRow(hold[h])
        BY <1>1, <1>2, <1>5, <1>8 DEF RowsFine, RowFine, LiveRow
      <3>2. RowsFine(H)
        BY <1>1, <1>6, <3>1 DEF RowsFine
      <3>3. Sealed(H)
        BY <1>1, <1>2, <1>6 DEF Sealed
      <3> QED BY <1>2, <1>6, <3>1, <3>2, <3>3 DEF Landed
    <2>3. "reshelving" \in Statuses \ {"in_transit"}
      BY DEF Statuses
    <2>4. Settle(c, l, "reshelving", NoHold, H, T)
      BY <1>3, <1>8
    <2> QED BY <1>1, <2>1, <2>2, <2>3, <2>4, SettleShelves
  <1>9. CASE ~hold[h].cancelled /\ ~hold[h].fulfilled
    <2>1. /\ status'[c] = transit[t].back /\ OthersAlone(c)
          /\ hold' = H /\ transit' = T
      BY <1>1, <1>3, <1>9 DEF OthersAlone, TypeOK
    <2>2. h \in Waiting(c)
      BY <1>4, <1>5, <1>9 DEF Waiting, LiveFor, Live
    <2>3. Fits(h, t)
      BY <2>2, WaitingIsReady
    <2>4. RowFine(row)
      BY <1>1, <1>2, <1>4, <1>5, <1>9 DEF RowsFine, RowFine, LiveRow
    <2>5. RowsFine(hold)' /\ Unique(hold)'
      BY <1>1, <1>2, <1>6, <2>1, <2>4 DEF RowsFine, Unique, LiveRow
    <2>6. Carried(hold, transit)'
      <3>1. ASSUME NEW u \in TransitIds PROVE Named(T[u], H)
        <4>1. T[u] # NoTransit => T[u].hold \in Holds \cup {NoHold}
          BY DEF Received, TransitTables, TransitRows
        <4>2. T[u] # NoTransit /\ T[u].open => Named(T[u], hold)
          BY <1>1 DEF Received, Carried
        <4> QED BY <1>2, <1>6, <4>1, <4>2 DEF Named
      <3> QED BY <2>1, <3>1 DEF Carried
    <2>7. ReadyFor(h)'
      BY <1>2, <1>4, <1>6, <1>9, <2>1, <2>3 DEF ReadyFor, Fits, CirculationAssumption
    <2>8. ASSUME NEW g \in Holds \ {h}, Captive(g)' PROVE ReadyFor(g)'
      <3>1. hold'[g] = hold[g] /\ Captive(g)
        BY <1>6, <2>1, <2>8 DEF Captive, Live
      <3>2. hold[g].copy # c
        BY <1>7, <3>1 DEF Captive, Waiting, LiveFor
      <3> QED BY <2>1, <3>1, <3>2, OthersReady
    <2> QED BY <2>5, <2>6, <2>7, <2>8 DEF Shelved
  <1> QED BY <1>8, <1>9

\* Receiving a transit.
LEMMA TransitCheckinShelves ==
  ASSUME CirculationAssumption, IInv, TransitInv, HoldInv, TargetsOnly,
         NEW c \in Copies, NEW l \in Libs, CheckinTransit(c, l)
  PROVE  Shelved
  <1>1. /\ TypeOK /\ loan[c] = NoLoan /\ UNCHANGED loan /\ transit \in TransitTables
    BY DEF CheckinTransit, IInv, TypeOK, TransitTables
  <1>2. PICK t \in OpenTransits(c), s \in Statuses, r \in Holds \cup {NoHold} :
          /\ transit[t].dest = l
          /\ ShelfCheck(c, l, s, r)
          /\ IF transit[t].hold = NoHold
             THEN Settle(c, l, transit[t].back, r, hold, [transit EXCEPT ![t] = NoTransit])
             ELSE ArriveForHold(c, l, t, r, [transit EXCEPT ![t].open = FALSE])
    BY DEF CheckinTransit
  <1>3. /\ t \in TransitIds /\ transit[t] \in TransitRows /\ transit[t].copy = c
        /\ transit[t].back \in Statuses \ {"in_transit"}
        /\ transit[t].hold \in Holds \cup {NoHold}
    BY <1>1 DEF OpenTransits, TransitTables, TransitRows, TransitInv
  <1>4. status[c] = "in_transit" /\ r = NoHold
    BY <1>2 DEF TransitInv, ShelfCheck
  <1>5. ASSUME NEW T, T \in TransitTables, \A u \in TransitIds \ {t} : T[u] = transit[u],
               T[t] # NoTransit => ~T[t].open /\ T[t].back # "in_transit"
        PROVE  Received(T, c) /\ Cleared(T, c)
    <2>1. Cleared(T, c)
      BY <1>1, <1>5, TransitCleared
    <2>2. \A d \in Copies \ {c} : t \notin OpenTransits(d)
      BY <1>3 DEF OpenTransits
    <2>3. \A d \in Copies \ {c} : \A u \in OpenTransits(d) : u \in TransitIds \ {t}
      BY <2>2 DEF OpenTransits
    <2> QED BY <1>5, <2>1, <2>3 DEF Received
  <1>6. CASE transit[t].hold = NoHold
    <2> DEFINE T == [transit EXCEPT ![t] = NoTransit]
    <2>1. T \in TransitTables /\ T[t] = NoTransit /\ \A u \in TransitIds \ {t} : T[u] = transit[u]
      BY <1>1, <1>3 DEF TransitTables
    <2>2. Settle(c, l, transit[t].back, NoHold, hold, T)
      BY <1>2, <1>4, <1>6
    <2> HIDE DEF T
    <2>3. Received(T, c) /\ Cleared(T, c)
      BY <1>5, <2>1
    <2>4. Landed(hold)
      BY DEF IInv, TypeOK, HoldInv, Landed, HoldTables
    <2>5. Waiting(c) = {}
      <3> SUFFICES ASSUME NEW g \in Waiting(c) PROVE FALSE
        OBVIOUS
      <3>1. Fits(g, t) /\ g \in Holds
        BY <1>4, WaitingIsReady DEF Waiting, LiveFor
      <3> QED BY <1>6, <3>1 DEF Fits, CirculationAssumption
    <2> QED BY <1>1, <1>3, <2>2, <2>3, <2>4, <2>5, SettleShelves
  <1>7. CASE transit[t].hold # NoHold
    <2> DEFINE row == [transit[t] EXCEPT !.open = FALSE]
               T == [transit EXCEPT ![t] = row]
    <2>1. row \in TransitRows /\ ~row.open /\ row.back # "in_transit"
      BY <1>3 DEF TransitRows
    <2>2. ArriveForHold(c, l, t, NoHold, T)
      BY <1>2, <1>4, <1>7
    <2> HIDE DEF row
    <2>3. T \in TransitTables /\ T[t] = row /\ \A u \in TransitIds \ {t} : T[u] = transit[u]
      BY <1>1, <1>3, <2>1 DEF TransitTables
    <2> HIDE DEF T
    <2>4. Received(T, c) /\ Cleared(T, c)
      BY <1>5, <2>1, <2>3
    <2>5. PICK h \in Holds : transit[t].hold = h
      BY <1>3, <1>7
    <2> QED BY <1>1, <1>2, <1>4, <2>2, <2>4, <2>5, ArrivalShelves
  <1> QED BY <1>6, <1>7

\* A checkin with nothing to return or receive.
LEMMA OtherCheckinShelves ==
  ASSUME CirculationAssumption, IInv, TransitInv, HoldInv, TargetsOnly,
         NEW c \in Copies, NEW l \in Libs, CheckinOther(c, l)
  PROVE  Shelved
  <1>1. TypeOK /\ loan[c] = NoLoan /\ UNCHANGED loan /\ OpenTransits(c) = {}
    BY DEF CheckinOther, IInv
  <1>2. PICK s \in Statuses, r \in Holds \cup {NoHold} :
          /\ ShelfCheck(c, l, s, r)
          /\ Settle(c, l, IF s = "in_transit" THEN "reshelving" ELSE s, r, hold, transit)
    BY DEF CheckinOther
  <1> DEFINE back == IF s = "in_transit" THEN "reshelving" ELSE s
  <1>3. back \in Statuses \ {"in_transit"} /\ (s # "in_transit" => back = s)
    BY DEF Statuses
  <1>4. Settle(c, l, back, r, hold, transit)
    BY <1>2
  <1> HIDE DEF back
  <1>5. Landed(hold) /\ Received(transit, c) /\ Cleared(transit, c)
    BY <1>1, AsTheyAre
  <1>6. Waiting(c) # {} => status[c] = "holds_shelf"
    <2> SUFFICES ASSUME NEW g \in Waiting(c) PROVE status[c] = "holds_shelf"
      OBVIOUS
    <2> QED BY <1>1, WaitingIsReady DEF TransitInv
  <1>7. \/ r = NoHold /\ Waiting(c) = {}
        \/ r \in Waiting(c) /\ back = "holds_shelf" /\ status[c] = "holds_shelf"
    BY <1>2, <1>3, <1>6, ShelfCheckWaits
  <1> QED BY <1>1, <1>3, <1>4, <1>5, <1>7, SettleShelves

\* The three checkins.
LEMMA CheckinHolds ==
  ASSUME CirculationAssumption, Neat, IInv, CopyInv, HoldInv,
         NEW c \in Copies, NEW l \in Libs,
         CheckinLoan(c, l) \/ CheckinTransit(c, l) \/ CheckinOther(c, l)
  PROVE  HoldInv'
  <1>1. TargetsOnly
    BY ServedSteady DEF Neat, Tidy, CheckinLoan, CheckinTransit, CheckinOther
  <1>2. Shelved
    BY <1>1, LoanCheckinShelves, TransitCheckinShelves, OtherCheckinShelves DEF CopyInv
  <1>3. CopiesKept
    BY LoanCheckin, TransitCheckin, OtherCheckin DEF IInv, CopyInv
  <1> QED BY <1>1, <1>2, <1>3, ShelvedKeeps DEF CopiesKept

-----------------------------------------------------------------------------
(* Lending and the other requests on a copy.                               *)

\* What lending copy c does to hold g: the hold is fulfilled, or loses the copy
\* that it waits for, or is another copy's.
Lent(c, g) ==
    \/ hold'[g] = hold[g] /\ ~(Live(g) /\ hold[g].copy = c)
    \/ hold'[g].fulfilled /\ RowFine(hold'[g])
    \/ /\ Live(g) /\ hold[g].copy = c /\ RowFine(hold'[g])
       /\ ~hold'[g].captured /\ hold'[g].copy = NoCopy

\* A placed hold that is fulfilled.
LEMMA FulfilRow ==
  ASSUME TypeOK, NEW f \in Holds, NEW c \in Copies, NEW H \in HoldTables,
         H[f].placed, Fulfil(f, c, H)
  PROVE  /\ hold'[f].fulfilled /\ RowFine(hold'[f])
         /\ \A g \in Holds \ {f} : hold'[g] = H[g]
  <1>1. /\ hold'[f].fulfilled /\ hold'[f].placed
        /\ \A g \in Holds \ {f} : hold'[g] = H[g]
    BY FulfilFacts
  <1> QED BY <1>1 DEF RowFine, LiveRow

\* handle_checkout_holds: there is at most one hold to fulfil or displace.
LEMMA LentRows ==
  ASSUME TypeOK, RowsFine(hold), Unique(hold), NEW c \in Copies, NEW u,
         CheckoutHolds(c, u)
  PROVE  \A g \in Holds : Lent(c, g)
  <1>1. hold \in HoldTables
    BY DEF TypeOK, HoldTables
  <1>2. CASE LiveFor(c) = {}
    <2>1. CASE hold' = hold
      BY <1>2, <2>1 DEF Lent, LiveFor
    <2>2. ASSUME NEW f \in Related(u, c), Fulfil(f, c, hold)
          PROVE  \A g \in Holds : Lent(c, g)
      <3>1. f \in Holds /\ hold[f].placed
        BY DEF Related, Live
      <3>2. /\ hold'[f].fulfilled /\ RowFine(hold'[f])
            /\ \A g \in Holds \ {f} : hold'[g] = hold[g]
        BY <1>1, <2>2, <3>1, FulfilRow
      <3> QED BY <1>2, <3>2 DEF Lent, LiveFor
    <2> QED BY <1>2, <2>1, <2>2 DEF CheckoutHolds
  <1>3. ASSUME NEW h \in LiveFor(c)
        PROVE  \A g \in Holds \ {h} : ~(Live(g) /\ hold[g].copy = c)
    BY DEF LiveFor, Unique, Live, LiveRow
  <1>4. ASSUME NEW h \in LiveFor(c), Fulfil(h, c, hold)
        PROVE  \A g \in Holds : Lent(c, g)
    <2>1. h \in Holds /\ hold[h].placed
      BY DEF LiveFor, Live
    <2>2. /\ hold'[h].fulfilled /\ RowFine(hold'[h])
          /\ \A g \in Holds \ {h} : hold'[g] = hold[g]
      BY <1>1, <1>4, <2>1, FulfilRow
    <2> QED BY <1>3, <2>2 DEF Lent
  <1>5. ASSUME NEW h \in LiveFor(c),
               \/ hold' = Displaced(h)
               \/ \E f \in Related(u, c) : Fulfil(f, c, Displaced(h))
        PROVE  \A g \in Holds : Lent(c, g)
    <2> DEFINE H == Displaced(h)
    <2>1. h \in Holds /\ Live(h) /\ hold[h].copy = c /\ hold[h].placed
      BY DEF LiveFor, Live
    <2>2. /\ H \in HoldTables /\ H[h].copy = NoCopy /\ ~H[h].captured /\ H[h].shelf = NoLib
          /\ H[h].placed /\ \A g \in Holds \ {h} : H[g] = hold[g]
      BY <2>1, DisplacedFacts
    <2>3. hold' = H \/ \E f \in Related(u, c) : Fulfil(f, c, H)
      BY <1>5
    <2> HIDE DEF H
    <2>4. RowFine(H[h])
      BY <2>2 DEF RowFine, LiveRow
    <2>5. CASE hold' = H
      BY <1>3, <2>1, <2>2, <2>4, <2>5 DEF Lent
    <2>6. ASSUME NEW f \in Related(u, c), Fulfil(f, c, H)
          PROVE  \A g \in Holds : Lent(c, g)
      <3>1. f \in Holds /\ H[f].placed
        BY <2>2 DEF Related, Live
      <3>2. /\ hold'[f].fulfilled /\ RowFine(hold'[f])
            /\ \A g \in Holds \ {f} : hold'[g] = H[g]
        BY <2>2, <2>6, <3>1, FulfilRow
      <3> QED BY <1>3, <2>1, <2>2, <2>4, <3>2 DEF Lent
    <2> QED BY <2>3, <2>5, <2>6
  <1> QED BY <1>2, <1>4, <1>5 DEF CheckoutHolds

\* Lending and renewing.
LEMMA LendingHolds ==
  ASSUME CirculationAssumption, Neat, IInv, CopyInv, HoldInv, NEW c \in Copies,
         Renew(c) \/ \E u \in Users : Checkout(c, u)
  PROVE  HoldInv'
  <1>1. /\ TypeOK /\ TransitInv /\ LoanedStatus
        /\ RowsFine(hold) /\ Unique(hold) /\ Carried(hold, transit) /\ Ready
    BY DEF IInv, CopyInv, HoldInv
  <1>2. TargetsOnly /\ UNCHANGED <<transit, todo>>
    BY ServedSteady DEF Neat, Tidy, Renew, Checkout
  <1>3. \A g \in Holds : Lent(c, g)
    BY <1>1, LentRows DEF Renew, Checkout
  <1>4. OpenTransits(c) = {} /\ OthersAlone(c)
    BY <1>1 DEF Renew, Checkout, TransitInv, LoanedStatus, OthersAlone, TypeOK
  <1>5. RowsFine(hold)'
    BY <1>1, <1>3 DEF RowsFine, Lent
  <1>6. \A g \in Holds : LiveRow(hold'[g]) /\ hold'[g].copy \in Copies
                            => hold'[g] = hold[g] /\ hold[g].copy # c
    BY <1>3 DEF Lent, LiveRow, Live, CirculationAssumption
  <1>7. Unique(hold)'
    BY <1>1, <1>6 DEF Unique
  <1>8. Carried(hold, transit)'
    <2> SUFFICES ASSUME NEW t \in TransitIds, transit[t] # NoTransit, transit[t].open,
                        transit[t].hold # NoHold, ~hold'[transit[t].hold].fulfilled
                 PROVE  /\ hold'[transit[t].hold].captured
                        /\ hold'[transit[t].hold].copy = transit[t].copy
      BY <1>2 DEF Carried, Named
    <2>1. transit[t].hold \in Holds /\ transit[t].copy # c
      BY <1>1, <1>4 DEF TypeOK, TransitRows, OpenTransits
    <2>2. hold[transit[t].hold].fulfilled \/ hold[transit[t].hold].copy = transit[t].copy
      BY <1>1 DEF Carried, Named
    <2>3. hold'[transit[t].hold] = hold[transit[t].hold]
      BY <1>3, <2>1, <2>2 DEF Lent, Live
    <2> QED BY <1>1, <2>3 DEF Carried, Named
  <1>9. ASSUME NEW h \in Holds, Captive(h)' PROVE ReadyFor(h)'
    <2>1. hold'[h] = hold[h] /\ Captive(h) /\ hold[h].copy # c
      BY <1>3, <1>9 DEF Lent, Captive, Live
    <2>2. ReadyFor(h)
      BY <1>1, <1>2, <2>1, NoClosing DEF Ready
    <2>3. Unmoved(h)
      BY <1>2, <1>4, <2>1, <2>2 DEF Unmoved, OthersAlone, ReadyFor
    <2> QED BY <2>2, <2>3, StaysReady
  <1> QED BY <1>2, <1>5, <1>7, <1>8, <1>9, TargetsLeft DEF HoldInv, Ready

\* Requests that change no hold and no transit: ready holds of other copies stay
\* ready.
LEMMA CopyStep ==
  ASSUME HoldInv, TargetsOnly, NEW c \in Copies, OthersAlone(c),
         UNCHANGED <<hold, transit>>
  PROVE  /\ RowsFine(hold)' /\ Unique(hold)' /\ Carried(hold, transit)'
         /\ \A h \in Holds \ Waiting(c) : Captive(h)' => ReadyFor(h)'
  <1>1. ASSUME NEW h \in Holds \ Waiting(c), Captive(h)' PROVE ReadyFor(h)'
    <2>1. Captive(h) /\ hold' = hold /\ transit' = transit
      BY <1>1 DEF Captive, Live
    <2>2. hold[h].copy # c
      BY <2>1 DEF Captive, Waiting, LiveFor
    <2>3. ReadyFor(h)
      BY <2>1, NoClosing DEF HoldInv, Ready
    <2>4. Unmoved(h)
      BY <2>1, <2>2, <2>3 DEF Unmoved, OthersAlone, ReadyFor
    <2> QED BY <2>3, <2>4, StaysReady
  <1> QED BY <1>1 DEF HoldInv

\* Claiming, losing and shelving a copy: no hold waits for it.
LEMMA CopyRequestHolds ==
  ASSUME CirculationAssumption, Neat, IInv, CopyInv, HoldInv, NEW c \in Copies,
         SetClaimsReturned(c) \/ SetLost(c) \/ ReshelvingDone(c)
  PROVE  HoldInv'
  <1>1. TypeOK /\ TransitInv
    BY DEF IInv, CopyInv
  <1>2. TargetsOnly /\ UNCHANGED <<hold, transit, todo>>
    BY ServedSteady DEF Neat, Tidy, SetClaimsReturned, SetLost, ReshelvingDone
  <1>3. OthersAlone(c)
    BY <1>1 DEF SetClaimsReturned, SetLost, ReshelvingDone, TypeOK, OthersAlone
  <1>4. Waiting(c) = {}
    BY <1>1, <1>2, WaitingIsReady DEF SetClaimsReturned, SetLost, ReshelvingDone
  <1> QED BY <1>2, <1>3, <1>4, CopyStep, TargetsLeft DEF HoldInv, Ready

\* Marking a copy: the hold that waits for it is to be reset.
LEMMA MarkHolds ==
  ASSUME CirculationAssumption, Neat, IInv, CopyInv, HoldInv, NEW c \in Copies,
         MarkItem(c)
  PROVE  HoldInv'
  <1>1. /\ TypeOK /\ TransitInv
        /\ RowsFine(hold) /\ Unique(hold) /\ Carried(hold, transit)
    BY DEF IInv, CopyInv, HoldInv
  <1>2. TargetsOnly /\ UNCHANGED <<hold, transit>>
    BY ServedSteady DEF Neat, Tidy, MarkItem
  <1>3. OthersAlone(c) /\ OpenTransits(c) = {}
    BY <1>1 DEF MarkItem, TypeOK, OthersAlone, Neat, Tidy
  <1>4. \A f \in todo' \ todo : \E h \in LiveFor(c) : f = Reset(h)
    BY DEF MarkItem
  <1>5. ASSUME NEW h \in Waiting(c) PROVE Closing(h)'
    <2>1. Reset(h) \in todo' /\ Reset(h).op = "reset" /\ Reset(h).hold = h
      BY DEF MarkItem, Waiting, Reset
    <2> QED BY <2>1 DEF Closing
  <1>6. ASSUME NEW h \in LiveFor(c) PROVE SafeClose(h, hold[h])'
    <2>1. h \in Holds /\ hold[h].placed /\ hold[h].copy = c /\ Live(h)
      BY DEF LiveFor, Live
    <2>2. hold[h].fulfilled \/ NoneOpen(h)
      <3> SUFFICES ASSUME NEW t \in HoldTransits(h), transit[t].open, ~hold[h].fulfilled
                   PROVE  FALSE
        BY DEF NoneOpen
      <3>1. /\ t \in TransitIds /\ transit[t] # NoTransit /\ transit[t].hold = h
            /\ h # NoHold
        BY <2>1 DEF HoldTransits, CirculationAssumption
      <3>2. hold[h].copy = transit[t].copy
        BY <1>1, <3>1 DEF Carried, Named
      <3> QED BY <1>3, <2>1, <3>1, <3>2 DEF OpenTransits
    <2>3. Waiting(c) \subseteq {h}
      BY <1>1, <2>1 DEF Waiting, LiveFor, Unique, Live, LiveRow
    <2>4. SafeClose(h, hold[h])
      BY <2>1, <2>2, <2>3 DEF SafeClose
    <2> QED BY <1>2, <2>4 DEF SafeClose, NoneOpen, HoldTransits, Waiting, LiveFor, Live
  <1>7. ClosesSafe'
    <2>1. ASSUME NEW f \in todo'
          PROVE  /\ f.op = "reset" => SafeClose(f.hold, f.row)'
                 /\ f.op = "refetch" => SafeClose(f.hold, hold[f.hold])'
      <3>1. CASE f \in todo
        BY <1>2, <3>1 DEF TargetsOnly
      <3>2. CASE f \notin todo
        <4>1. PICK h \in LiveFor(c) : f = Reset(h)
          BY <1>4, <3>2
        <4>2. f.op = "reset" /\ f.hold = h /\ f.row = hold[h] /\ hold[h] = hold'[h]
          BY <1>2, <4>1 DEF Reset
        <4>3. SafeClose(h, hold[h])'
          BY <1>6
        <4> QED BY <4>2, <4>3 DEF SafeClose
      <3> QED BY <3>1, <3>2
    <2> QED BY <2>1 DEF ClosesSafe
  <1>8. /\ RowsFine(hold)' /\ Unique(hold)' /\ Carried(hold, transit)'
        /\ \A h \in Holds \ Waiting(c) : Captive(h)' => ReadyFor(h)'
    BY <1>2, <1>3, CopyStep
  <1> QED BY <1>5, <1>7, <1>8 DEF HoldInv, Ready

-----------------------------------------------------------------------------
(* The requests on a hold.                                                 *)

\* A step that changes hold h only, of which nothing is captured or carried
\* afterwards unless it is fulfilled; no row becomes an open transit.
LEMMA HoldStep ==
  ASSUME CirculationAssumption, TypeOK, HoldInv, NEW h \in Holds,
         \A g \in Holds \ {h} : hold'[g] = hold[g],
         RowFine(hold'[h]), ~Captive(h)', hold'[h].fulfilled \/ NoneOpen(h)',
         \A t \in TransitIds : /\ transit'[t] # NoTransit /\ transit'[t].open
                                   => transit'[t] = transit[t]
         ,
         \A g \in Holds \ {h} : Captive(g) /\ ~Closing(g)' => ~Closing(g) /\ Unmoved(g)
  PROVE  RowsFine(hold)' /\ Carried(hold, transit)' /\ Ready'
  <1>1. RowsFine(hold)'
    BY DEF HoldInv, RowsFine
  <1>2. Carried(hold, transit)'
    <2> SUFFICES ASSUME NEW t \in TransitIds, transit'[t] # NoTransit, transit'[t].open,
                        transit'[t].hold # NoHold, ~hold'[transit'[t].hold].fulfilled
                 PROVE  /\ hold'[transit'[t].hold].captured
                        /\ hold'[transit'[t].hold].copy = transit'[t].copy
      BY DEF Carried, Named
    <2>1. transit'[t] = transit[t] /\ transit[t].hold \in Holds
      BY DEF TypeOK, TransitRows
    <2>2. transit[t].hold # h
      BY <2>1 DEF NoneOpen, HoldTransits
    <2> QED BY <2>1, <2>2 DEF HoldInv, Carried, Named
  <1>3. ASSUME NEW g \in Holds, Captive(g)', ~Closing(g)' PROVE ReadyFor(g)'
    <2>1. g # h /\ Captive(g)
      BY <1>3 DEF Captive, Live
    <2> QED BY <1>3, <2>1, StaysReady DEF HoldInv, Ready
  <1> QED BY <1>1, <1>2, <1>3 DEF Ready

\* A hold that is not captured is carried by no transit.
LEMMA NotCarried ==
  ASSUME CirculationAssumption, TypeOK, Carried(hold, transit), NEW h \in Holds,
         ~hold[h].fulfilled, ~hold[h].captured
  PROVE  NoneOpen(h)
  <1> SUFFICES ASSUME NEW t \in HoldTransits(h), transit[t].open PROVE FALSE
    BY DEF NoneOpen
  <1>1. t \in TransitIds /\ transit[t] # NoTransit /\ transit[t].hold = h /\ h # NoHold
    BY DEF HoldTransits, CirculationAssumption
  <1> QED BY <1>1 DEF Carried, Named

\* Only the row of a hold changes, and the hold is not captive afterwards.
LEMMA RowOnly ==
  ASSUME CirculationAssumption, TypeOK, HoldInv, NEW h \in Holds, NEW row \in HoldRows,
         hold' = [hold EXCEPT ![h] = row], UNCHANGED <<status, loan, transit>>,
         RowFine(row), ~(LiveRow(row) /\ row.captured), row.fulfilled \/ NoneOpen(h),
         LiveRow(row) /\ row.copy \in Copies =>
             \/ Live(h) /\ hold[h].copy = row.copy
             \/ ~Taken(row.copy, h),
         \A g \in Holds : Closing(g) => Closing(g)'
  PROVE  RowsFine(hold)' /\ Unique(hold)' /\ Carried(hold, transit)' /\ Ready'
  <1>1. hold'[h] = row /\ \A g \in Holds \ {h} : hold'[g] = hold[g]
    BY TableUpdate DEF TypeOK, HoldTables
  <1>2. Unique(hold)'
    <2>1. ASSUME NEW g \in Holds \ {h}, LiveRow(row), LiveRow(hold[g]),
                 row.copy = hold[g].copy, row.copy \in Copies
          PROVE  FALSE
      <3>1. Taken(row.copy, h)
        BY <2>1 DEF Taken, Live, LiveRow
      <3>2. Live(h) /\ hold[h].copy = row.copy
        BY <2>1, <3>1
      <3> QED BY <2>1, <3>2 DEF HoldInv, Unique, Live, LiveRow
    <2> QED BY <1>1, <2>1 DEF HoldInv, Unique
  <1>3. ~Captive(h)' /\ RowFine(hold'[h])
    BY <1>1 DEF Captive, Live, LiveRow
  <1>4. hold'[h].fulfilled \/ NoneOpen(h)'
    BY <1>1 DEF NoneOpen, HoldTransits
  <1>5. \A g \in Holds \ {h} : Captive(g) /\ ~Closing(g)' => ~Closing(g) /\ Unmoved(g)
    BY <1>1 DEF Unmoved
  <1>6. \A t \in TransitIds : transit'[t] = transit[t]
    OBVIOUS
  <1>7. RowsFine(hold)' /\ Carried(hold, transit)' /\ Ready'
    BY <1>1, <1>3, <1>4, <1>5, <1>6, HoldStep
  <1> QED BY <1>2, <1>7

\* What the targeter does to a hold that waits keeps the holds in order, whatever
\* else waits to be done.
LEMMA TargetRows ==
  ASSUME CirculationAssumption, TypeOK, HoldInv, NEW h \in Holds,
         Live(h), Targetable(h), TargetHold(h), UNCHANGED <<status, loan, transit>>,
         \A g \in Holds : Closing(g) => Closing(g)'
  PROVE  RowsFine(hold)' /\ Unique(hold)' /\ Carried(hold, transit)' /\ Ready'
  <1>1. hold[h] \in HoldRows /\ RowFine(hold[h])
    BY DEF TypeOK, HoldInv, RowsFine
  <1>2. /\ hold[h].placed /\ ~hold[h].cancelled /\ ~hold[h].fulfilled
        /\ ~hold[h].captured /\ hold[h].shelf = NoLib
    BY <1>1 DEF Targetable, Live, RowFine, LiveRow
  <1>3. NoneOpen(h)
    BY <1>2, NotCarried DEF HoldInv
  <1>4. PICK c \in Copies \cup {NoCopy} :
           \/ /\ hold' = [hold EXCEPT ![h].copy = c]
              /\ c = NoCopy \/ c = hold[h].copy \/ ~Taken(c, h)
           \/ hold' = [hold EXCEPT ![h].copy = c, ![h].cancelled = TRUE]
    <2>1. CASE \E c \in {hold[h].copy, NoCopy} :
                   hold' = [hold EXCEPT ![h].copy = c, ![h].cancelled = TRUE]
      BY <1>1, <2>1 DEF HoldRows
    <2>2. CASE \E c \in Copies \cup {NoCopy} :
                  /\ c = NoCopy \/ c = hold[h].copy \/ ~Taken(c, h)
                  /\ hold' = [hold EXCEPT ![h].copy = c]
      BY <2>2
    <2> QED BY <2>1, <2>2 DEF TargetHold
  <1> DEFINE target == [hold[h] EXCEPT !.copy = c]
             expire == [hold[h] EXCEPT !.copy = c, !.cancelled = TRUE]
  <1>5. /\ target \in HoldRows /\ target.placed /\ ~target.fulfilled
        /\ ~target.captured /\ target.shelf = NoLib /\ target.copy = c
        /\ ~target.cancelled
        /\ expire \in HoldRows /\ expire.placed /\ ~expire.fulfilled
        /\ ~expire.captured /\ expire.shelf = NoLib /\ expire.cancelled
    BY <1>1, <1>2 DEF HoldRows
  <1>6. \/ hold' = [hold EXCEPT ![h] = target] /\ (c = NoCopy \/ c = hold[h].copy \/ ~Taken(c, h))
        \/ hold' = [hold EXCEPT ![h] = expire]
    BY <1>4
  <1> HIDE DEF target, expire
  <1>7. PICK row \in {target, expire} :
           /\ hold' = [hold EXCEPT ![h] = row]
           /\ row = target => c = NoCopy \/ c = hold[h].copy \/ ~Taken(c, h)
    BY <1>5, <1>6
  <1>8. /\ row \in HoldRows /\ RowFine(row) /\ ~(LiveRow(row) /\ row.captured)
        /\ LiveRow(row) => row = target
    BY <1>5, <1>7 DEF RowFine, LiveRow
  <1>9. LiveRow(row) /\ row.copy \in Copies =>
           \/ Live(h) /\ hold[h].copy = row.copy
           \/ ~Taken(row.copy, h)
    BY <1>5, <1>7, <1>8 DEF CirculationAssumption
  <1> QED BY <1>3, <1>7, <1>8, <1>9, RowOnly

\* A request that changes the row of one hold.
LEMMA RowRequest ==
  ASSUME CirculationAssumption, Neat, TypeOK, TargetsOnly, HoldInv,
         NEW h \in Holds, NEW row \in HoldRows,
         hold' = [hold EXCEPT ![h] = row], UNCHANGED <<status, loan, transit>>,
         todo' \subseteq todo \cup Retarget({h}),
         RowFine(row), ~(LiveRow(row) /\ row.captured), row.fulfilled \/ NoneOpen(h),
         row.copy = NoCopy \/ (row.copy = hold[h].copy /\ (LiveRow(row) => Live(h)))
  PROVE  HoldInv'
  <1>1. ClosesSafe' /\ \A g \in Holds : ~Closing(g)' /\ ~Closing(g)
    BY TargetsLeft, NoClosing, RetargetFacts
  <1> QED BY <1>1, RowOnly DEF HoldInv, CirculationAssumption

\* Placing a hold.
LEMMA PlaceHolds ==
  ASSUME CirculationAssumption, Neat, IInv, HoldInv, NEW h \in Holds, NEW l \in Libs,
         PlaceHold(h, l)
  PROVE  HoldInv'
  <1> DEFINE row == [hold[h] EXCEPT !.placed = TRUE, !.pickup = l]
  <1>1. hold[h] \in HoldRows /\ RowFine(hold[h]) /\ ~hold[h].placed /\ TypeOK
    BY DEF IInv, TypeOK, HoldInv, RowsFine, PlaceHold
  <1>2. ~hold[h].captured /\ ~hold[h].fulfilled /\ hold[h].copy = NoCopy /\ hold[h].shelf = NoLib
    BY <1>1 DEF RowFine
  <1>3. /\ row \in HoldRows /\ row.placed /\ ~row.captured /\ ~row.fulfilled
        /\ row.copy = NoCopy /\ row.shelf = NoLib
    BY <1>1, <1>2 DEF HoldRows
  <1>4. hold' = [hold EXCEPT ![h] = row]
    BY DEF PlaceHold
  <1> HIDE DEF row
  <1>5. RowFine(row) /\ NoneOpen(h)
    BY <1>1, <1>2, <1>3, NotCarried DEF RowFine, HoldInv
  <1>6. TargetsOnly /\ UNCHANGED <<status, loan, transit>> /\ todo' \subseteq todo \cup Retarget({h})
    BY ServedSteady DEF Neat, Tidy, PlaceHold
  <1> QED BY <1>1, <1>3, <1>4, <1>5, <1>6, RowRequest

\* Uncancelling a hold that no transit carries.
LEMMA UncancelHolds ==
  ASSUME CirculationAssumption, Neat, IInv, HoldInv, NEW h \in Holds, UncancelHold(h)
  PROVE  HoldInv'
  <1> DEFINE row == [hold[h] EXCEPT !.cancelled = FALSE, !.captured = FALSE,
                                    !.copy = NoCopy, !.shelf = NoLib]
  <1>1. hold[h] \in HoldRows /\ hold[h].placed /\ ~hold[h].fulfilled /\ TypeOK
    BY DEF IInv, TypeOK, UncancelHold
  <1>2. /\ row \in HoldRows /\ row.placed /\ ~row.captured /\ ~row.fulfilled
        /\ row.copy = NoCopy /\ row.shelf = NoLib
    BY <1>1 DEF HoldRows
  <1>3. hold' = [hold EXCEPT ![h] = row]
    BY DEF UncancelHold
  <1> HIDE DEF row
  <1>4. RowFine(row) /\ NoneOpen(h)
    BY <1>2 DEF RowFine, NoneOpen, UncancelHold, Neat
  <1>5. TargetsOnly /\ UNCHANGED <<status, loan, transit>> /\ todo' \subseteq todo \cup Retarget({h})
    BY ServedSteady DEF Neat, Tidy, UncancelHold
  <1> QED BY <1>1, <1>2, <1>3, <1>4, <1>5, RowRequest

\* _hold_status of a hold that waits for its patron: such a hold cannot be
\* suspended.
LEMMA CaptiveStatus ==
  ASSUME CirculationAssumption, TypeOK, TransitInv, NEW h \in Holds, ReadyFor(h),
         NEW row, row.copy = hold[h].copy, row.captured, ~row.cancelled
  PROVE  HoldStatus(row) \in {"wrong_shelf", "in_transit", "on_shelf"}
  <1>1. row.copy \in Copies /\ status[row.copy] \in {"in_transit", "holds_shelf"}
    BY DEF ReadyFor, TransitInv
  <1> QED BY <1>1 DEF HoldStatus, CirculationAssumption

\* Suspending a hold.
LEMMA FreezeHolds ==
  ASSUME CirculationAssumption, Neat, IInv, CopyInv, HoldInv, NEW h \in Holds, Freeze(h)
  PROVE  HoldInv'
  <1> DEFINE row == [hold[h] EXCEPT !.frozen = TRUE, !.copy = NoCopy]
             asked == [hold[h] EXCEPT !.frozen = TRUE]
  <1>1. /\ hold[h] \in HoldRows /\ RowFine(hold[h]) /\ hold[h].placed /\ TypeOK
        /\ TransitInv /\ TargetsOnly
    BY ServedSteady DEF IInv, TypeOK, CopyInv, HoldInv, RowsFine, Freeze, Neat, Tidy
  <1>2. /\ asked.copy = hold[h].copy /\ asked.captured = hold[h].captured
        /\ asked.cancelled = hold[h].cancelled
        /\ row \in HoldRows /\ row.placed /\ row.captured = hold[h].captured
        /\ row.fulfilled = hold[h].fulfilled /\ row.copy = NoCopy
        /\ row.shelf = hold[h].shelf /\ row.cancelled = hold[h].cancelled
    BY <1>1 DEF HoldRows
  <1>3. hold' = [hold EXCEPT ![h] = row] /\ HoldStatus(asked) \in {"suspended", "waiting", "error"}
    BY DEF Freeze
  <1> HIDE DEF row, asked
  <1>4. ~hold[h].cancelled
    BY <1>2, <1>3 DEF HoldStatus
  <1>5. ~hold[h].captured \/ hold[h].fulfilled
    <2> SUFFICES ASSUME hold[h].captured, ~hold[h].fulfilled PROVE FALSE
      OBVIOUS
    <2>1. ReadyFor(h)
      BY <1>1, <1>4, NoClosing DEF HoldInv, Ready, Captive, Live
    <2>2. HoldStatus(asked) \in {"wrong_shelf", "in_transit", "on_shelf"}
      BY <1>1, <1>2, <1>4, <2>1, CaptiveStatus
    <2> QED BY <1>3, <2>2
  <1>6. /\ RowFine(row) /\ ~(LiveRow(row) /\ row.captured)
        /\ row.fulfilled \/ NoneOpen(h)
    BY <1>1, <1>2, <1>5, NotCarried DEF RowFine, LiveRow, HoldInv
  <1>7. UNCHANGED <<status, loan, transit>> /\ todo' \subseteq todo \cup Retarget({h})
    BY DEF Freeze
  <1> QED BY <1>1, <1>2, <1>3, <1>6, <1>7, RowRequest

\* A request that changes the row of one hold and one of its transits, which
\* goes on with its copy and its hold.
LEMMA RerouteStep ==
  ASSUME CirculationAssumption, TypeOK, TargetsOnly, HoldInv,
         NEW h \in Holds, NEW row \in HoldRows,
         hold' = [hold EXCEPT ![h] = row], UNCHANGED <<status, loan>>,
         todo' \subseteq todo \cup Retarget({h}),
         RowFine(row), LiveRow(row) => Live(h) /\ row.copy = hold[h].copy,
         row.fulfilled = hold[h].fulfilled,
         ~row.fulfilled => row.captured = hold[h].captured /\ row.copy = hold[h].copy,
         \/ UNCHANGED transit
         \/ \E u \in HoldTransits(h), new \in TransitRows :
               /\ transit' = [transit EXCEPT ![u] = new]
               /\ new.copy = transit[u].copy /\ new.hold = h /\ new.open = transit[u].open,
         Captive(h)' => ReadyFor(h)'
  PROVE  HoldInv'
  <1>1. hold'[h] = row /\ \A g \in Holds \ {h} : hold'[g] = hold[g]
    BY TableUpdate DEF TypeOK, HoldTables
  <1>2. \A t \in TransitIds :
           \/ transit'[t] = transit[t]
           \/ /\ transit[t] # NoTransit /\ transit[t].hold = h /\ transit'[t].hold = h
              /\ transit'[t].copy = transit[t].copy /\ transit'[t].open = transit[t].open
    BY DEF HoldTransits, TypeOK
  <1>3. ClosesSafe' /\ \A g \in Holds : ~Closing(g)
    BY TargetsLeft, NoClosing, RetargetFacts
  <1>4. RowsFine(hold)' /\ Unique(hold)'
    BY <1>1 DEF HoldInv, RowsFine, Unique, Live, LiveRow
  <1>5. Carried(hold, transit)'
    <2> SUFFICES ASSUME NEW t \in TransitIds, transit'[t] # NoTransit, transit'[t].open,
                        transit'[t].hold # NoHold, ~hold'[transit'[t].hold].fulfilled
                 PROVE  /\ hold'[transit'[t].hold].captured
                        /\ hold'[transit'[t].hold].copy = transit'[t].copy
      BY DEF Carried, Named
    <2>1. /\ transit[t] # NoTransit /\ transit[t].open /\ transit[t].copy = transit'[t].copy
          /\ transit[t].hold = transit'[t].hold
      BY <1>2
    <2>2. transit[t].hold \in Holds
      BY <2>1 DEF TypeOK, TransitRows
    <2> QED BY <1>1, <2>1, <2>2 DEF HoldInv, Carried, Named
  <1>6. ASSUME NEW g \in Holds \ {h}, Captive(g)' PROVE ReadyFor(g)'
    <2>1. Captive(g) /\ ReadyFor(g)
      BY <1>1, <1>3, <1>6 DEF Captive, Live, HoldInv, Ready
    <2>2. Unmoved(g)
      BY <1>1, <1>2 DEF Unmoved, OpenTransits
    <2> QED BY <2>1, <2>2, StaysReady
  <1> QED BY <1>3, <1>4, <1>5, <1>6 DEF HoldInv, Ready

\* Activating a hold, which may have been captured while it was suspended.
LEMMA ThawHolds ==
  ASSUME CirculationAssumption, Neat, IInv, CopyInv, HoldInv, NEW h \in Holds, Thaw(h)
  PROVE  HoldInv'
  <1> DEFINE row == [hold[h] EXCEPT !.frozen = FALSE]
  <1>1. /\ hold[h] \in HoldRows /\ RowFine(hold[h]) /\ TypeOK /\ TargetsOnly
    BY ServedSteady DEF IInv, TypeOK, HoldInv, RowsFine, Thaw, Neat, Tidy
  <1>2. /\ row \in HoldRows /\ row.placed = hold[h].placed /\ row.captured = hold[h].captured
        /\ row.fulfilled = hold[h].fulfilled /\ row.copy = hold[h].copy
        /\ row.shelf = hold[h].shelf /\ row.cancelled = hold[h].cancelled
        /\ row.pickup = hold[h].pickup
    BY <1>1 DEF HoldRows
  <1>3. hold' = [hold EXCEPT ![h] = row]
    BY DEF Thaw
  <1> HIDE DEF row
  <1>4. RowFine(row) /\ (LiveRow(row) => Live(h)) /\ hold'[h] = row
    BY <1>1, <1>2, <1>3 DEF RowFine, LiveRow, Live, TypeOK
  <1>5. UNCHANGED <<status, loan, transit>> /\ todo' \subseteq todo \cup Retarget({h})
    BY DEF Thaw
  <1>6. ASSUME Captive(h)' PROVE ReadyFor(h)'
    <2>1. Captive(h)
      BY <1>2, <1>4, <1>6 DEF Captive, Live
    <2>2. ReadyFor(h)
      BY <1>1, <2>1, NoClosing DEF HoldInv, Ready
    <2>3. Unmoved(h)
      BY <1>2, <1>4, <1>5 DEF Unmoved
    <2> QED BY <2>2, <2>3, StaysReady
  <1> QED BY <1>1, <1>2, <1>3, <1>4, <1>5, <1>6, RerouteStep

\* Another change of a suspended hold: it loses its copy, so it must not be a
\* captured one.
LEMMA AmendHolds ==
  ASSUME CirculationAssumption, Neat, IInv, HoldInv, NEW h \in Holds, Amend(h)
  PROVE  HoldInv'
  <1> DEFINE row == [hold[h] EXCEPT !.copy = NoCopy]
  <1>1. /\ hold[h] \in HoldRows /\ RowFine(hold[h]) /\ hold[h].placed /\ ~hold[h].captured
        /\ TypeOK /\ TargetsOnly
    BY ServedSteady DEF IInv, TypeOK, HoldInv, RowsFine, Amend, UpdatesSuspended, Neat, Tidy
  <1>2. /\ row \in HoldRows /\ row.placed /\ ~row.captured /\ row.copy = NoCopy
        /\ row.fulfilled = hold[h].fulfilled /\ row.shelf = hold[h].shelf
        /\ row.cancelled = hold[h].cancelled
    BY <1>1 DEF HoldRows
  <1>3. hold' = [hold EXCEPT ![h] = row]
    BY DEF Amend
  <1> HIDE DEF row
  <1>4. /\ RowFine(row) /\ ~(LiveRow(row) /\ row.captured)
        /\ row.fulfilled \/ NoneOpen(h)
    BY <1>1, <1>2, NotCarried DEF RowFine, LiveRow, HoldInv
  <1>5. UNCHANGED <<status, loan, transit>> /\ todo' \subseteq todo \cup Retarget({h})
    BY DEF Amend
  <1> QED BY <1>1, <1>2, <1>3, <1>4, <1>5, RowRequest

\* Cancelling a hold: its copy stays where it is or goes on.
LEMMA CancelHolds ==
  ASSUME CirculationAssumption, Neat, IInv, HoldInv, NEW h \in Holds, CancelHold(h)
  PROVE  HoldInv'
  <1> DEFINE row == [hold[h] EXCEPT !.cancelled = TRUE]
  <1>1. /\ hold[h] \in HoldRows /\ RowFine(hold[h]) /\ hold[h].placed
        /\ TypeOK /\ TargetsOnly
    BY ServedSteady DEF IInv, TypeOK, HoldInv, RowsFine, CancelHold, Neat, Tidy
  <1>2. /\ row \in HoldRows /\ row.placed = hold[h].placed /\ row.captured = hold[h].captured
        /\ row.fulfilled = hold[h].fulfilled /\ row.copy = hold[h].copy
        /\ row.shelf = hold[h].shelf /\ row.cancelled
    BY <1>1 DEF HoldRows
  <1>3. hold' = [hold EXCEPT ![h] = row] /\ UNCHANGED <<status, loan, todo>>
    BY DEF CancelHold
  <1> HIDE DEF row
  <1>4. RowFine(row) /\ ~LiveRow(row)
    BY <1>1, <1>2 DEF RowFine, LiveRow
  <1>5. ~Captive(h)'
    BY <1>1, <1>3, <1>4 DEF Captive, Live, LiveRow, TypeOK
  <1>6. ASSUME NEW u \in HoldTransits(h), transit' = [transit EXCEPT ![u].back = "reshelving"]
        PROVE  \E new \in TransitRows :
                  /\ transit' = [transit EXCEPT ![u] = new]
                  /\ new.copy = transit[u].copy /\ new.hold = h /\ new.open = transit[u].open
    <2> DEFINE new == [transit[u] EXCEPT !.back = "reshelving"]
    <2>1. transit[u] \in TransitRows /\ transit[u].hold = h
      BY <1>1 DEF HoldTransits, TypeOK
    <2>2. /\ new \in TransitRows /\ new.copy = transit[u].copy /\ new.hold = h
          /\ new.open = transit[u].open
      BY <2>1 DEF TransitRows, Statuses
    <2>3. transit' = [transit EXCEPT ![u] = new]
      BY <1>6
    <2> HIDE DEF new
    <2> QED BY <2>2, <2>3
  <1>7. \/ UNCHANGED transit
        \/ \E u \in HoldTransits(h) : transit' = [transit EXCEPT ![u].back = "reshelving"]
    BY DEF CancelHold
  <1>8. \/ UNCHANGED transit
        \/ \E u \in HoldTransits(h), new \in TransitRows :
              /\ transit' = [transit EXCEPT ![u] = new]
              /\ new.copy = transit[u].copy /\ new.hold = h /\ new.open = transit[u].open
    BY ONLY <1>6, <1>7
  <1> QED BY <1>1, <1>2, <1>3, <1>4, <1>5, <1>8, RerouteStep

\* Changing the pickup library of a suspended hold, which is not captured: no
\* transit carries it.
LEMMA SuspendedPickup ==
  ASSUME CirculationAssumption, Neat, IInv, HoldInv, NEW h \in Holds,
         NEW l \in Libs, ChangePickup(h, l), hold[h].frozen
  PROVE  HoldInv'
  <1> DEFINE row == [hold[h] EXCEPT !.pickup = l, !.copy = NoCopy]
             asked == [hold[h] EXCEPT !.pickup = l]
  <1>1. /\ hold[h] \in HoldRows /\ RowFine(hold[h]) /\ hold[h].placed /\ ~hold[h].captured
        /\ TypeOK /\ TargetsOnly
    BY ServedSteady DEF IInv, TypeOK, HoldInv, RowsFine, ChangePickup, UpdatesSuspended,
                        Neat, Tidy
  <1>2. /\ row \in HoldRows /\ row.placed /\ ~row.captured /\ row.copy = NoCopy
        /\ row.fulfilled = hold[h].fulfilled /\ row.shelf = hold[h].shelf
        /\ row.cancelled = hold[h].cancelled /\ ~asked.captured
    BY <1>1 DEF HoldRows
  <1>3. hold' = [hold EXCEPT ![h] = row]
    BY DEF ChangePickup
  <1>4. /\ IF HoldStatus(asked) = "in_transit"
           THEN \E u \in HoldTransits(h) : /\ transit[u].open
                                           /\ transit' = [transit EXCEPT ![u].dest = l]
           ELSE UNCHANGED transit
        /\ UNCHANGED <<status, loan>> /\ todo' \subseteq todo \cup Retarget({h})
    BY DEF ChangePickup
  <1> HIDE DEF row, asked
  <1>5. HoldStatus(asked) # "in_transit"
    BY <1>2 DEF HoldStatus
  <1>6. /\ RowFine(row) /\ ~(LiveRow(row) /\ row.captured)
        /\ row.fulfilled \/ NoneOpen(h)
    BY <1>1, <1>2, NotCarried DEF RowFine, LiveRow, HoldInv
  <1> QED BY <1>1, <1>2, <1>3, <1>4, <1>5, <1>6, RowRequest

\* Changing the pickup library: the copy of a captured hold stays on its shelf,
\* or its one transit is sent to the new library.
LEMMA PickupHolds ==
  ASSUME CirculationAssumption, Neat, IInv, CopyInv, HoldInv, NEW h \in Holds,
         NEW l \in Libs, ChangePickup(h, l), ~hold[h].frozen
  PROVE  HoldInv'
  <1> DEFINE row == [hold[h] EXCEPT !.pickup = l]
             asked == [hold[h] EXCEPT !.pickup = l]
  <1>1. /\ hold[h] \in HoldRows /\ RowFine(hold[h]) /\ hold[h].placed
        /\ TypeOK /\ TransitInv /\ TargetsOnly
    BY ServedSteady DEF IInv, TypeOK, CopyInv, HoldInv, RowsFine, ChangePickup, Neat, Tidy
  <1>2. [hold[h] EXCEPT !.pickup = l, !.copy = hold[h].copy] = row
    BY <1>1 DEF HoldRows
  <1>3. hold' = [hold EXCEPT ![h] = row]
    BY <1>2 DEF ChangePickup
  <1>4. /\ row \in HoldRows /\ row.placed = hold[h].placed /\ row.captured = hold[h].captured
        /\ row.fulfilled = hold[h].fulfilled /\ row.copy = hold[h].copy /\ row.pickup = l
        /\ row.shelf = hold[h].shelf /\ row.cancelled = hold[h].cancelled
        /\ asked.copy = hold[h].copy /\ asked.captured = hold[h].captured
        /\ asked.cancelled = hold[h].cancelled /\ asked.frozen = hold[h].frozen
        /\ asked.shelf = hold[h].shelf
    BY <1>1 DEF HoldRows
  <1>5. /\ IF HoldStatus(asked) = "in_transit"
           THEN \E u \in HoldTransits(h) : /\ transit[u].open
                                           /\ transit' = [transit EXCEPT ![u].dest = l]
           ELSE UNCHANGED transit
        /\ UNCHANGED <<status, loan>> /\ todo' \subseteq todo \cup Retarget({h})
    BY DEF ChangePickup
  <1> HIDE DEF row, asked
  <1>6. /\ RowFine(row) /\ (LiveRow(row) => Live(h) /\ row.copy = hold[h].copy)
        /\ hold'[h] = row
    BY <1>1, <1>3, <1>4 DEF RowFine, LiveRow, Live, TypeOK
  <1>7. ASSUME NEW u \in HoldTransits(h), transit' = [transit EXCEPT ![u].dest = l]
        PROVE  \E new \in TransitRows :
                  /\ transit' = [transit EXCEPT ![u] = new]
                  /\ new.copy = transit[u].copy /\ new.hold = h /\ new.open = transit[u].open
    <2> DEFINE new == [transit[u] EXCEPT !.dest = l]
    <2>1. transit[u] \in TransitRows /\ transit[u].hold = h
      BY <1>1 DEF HoldTransits, TypeOK
    <2>2. /\ new \in TransitRows /\ new.copy = transit[u].copy /\ new.hold = h
          /\ new.open = transit[u].open
      BY <2>1 DEF TransitRows
    <2>3. transit' = [transit EXCEPT ![u] = new]
      BY <1>7
    <2> HIDE DEF new
    <2> QED BY <2>2, <2>3
  <1>8. \/ UNCHANGED transit
        \/ \E u \in HoldTransits(h), new \in TransitRows :
              /\ transit' = [transit EXCEPT ![u] = new]
              /\ new.copy = transit[u].copy /\ new.hold = h /\ new.open = transit[u].open
    BY ONLY <1>5, <1>7
  <1>9. ASSUME Captive(h)' PROVE ReadyFor(h)'
    <2>1. /\ Captive(h) /\ hold[h].captured /\ ~hold[h].cancelled /\ ~hold[h].fulfilled
          /\ row.copy = hold[h].copy
      BY <1>1, <1>4, <1>6, <1>9 DEF Captive, Live, LiveRow, RowFine
    <2>2. ReadyFor(h)
      BY <1>1, <2>1, NoClosing DEF HoldInv, Ready
    <2>3. CASE status[hold[h].copy] = "holds_shelf" /\ hold[h].shelf # NoLib
      BY <1>4, <1>5, <1>6, <2>1, <2>2, <2>3 DEF ReadyFor
    <2>4. ASSUME hold[h].shelf = NoLib, NEW t \in OpenTransits(hold[h].copy), Fits(h, t)
          PROVE  ReadyFor(h)'
      <3>1. hold[h].copy \in Copies /\ status[hold[h].copy] = "in_transit" /\ hold[h].copy # NoCopy
        BY <1>1, <2>2, <2>4 DEF ReadyFor, TransitInv, CirculationAssumption
      <3>2. HoldStatus(asked) = "in_transit"
        BY <1>4, <2>1, <2>4, <3>1 DEF HoldStatus
      <3>3. PICK u \in HoldTransits(h) : /\ transit[u].open
                                         /\ transit' = [transit EXCEPT ![u].dest = l]
        BY <1>5, <3>2
      <3>4. /\ u \in TransitIds /\ transit[u] # NoTransit /\ transit[u].hold = h
            /\ h # NoHold
        BY DEF HoldTransits, CirculationAssumption
      <3>5. u \in OpenTransits(hold[h].copy)
        BY <2>1, <3>3, <3>4 DEF HoldInv, Carried, Named, OpenTransits
      <3>6. u = t
        BY <1>1, <2>4, <3>1, <3>5 DEF TransitInv
      <3> DEFINE new == [transit[t] EXCEPT !.dest = l]
      <3>7. transit[t] \in TransitRows
        BY <1>1, <3>4, <3>6 DEF TypeOK
      <3>8. /\ new \in TransitRows /\ new.copy = transit[t].copy /\ new.hold = transit[t].hold
            /\ new.back = transit[t].back /\ new.open = transit[t].open /\ new.dest = l
        BY <3>7 DEF TransitRows
      <3>9. transit'[t] = new
        BY <1>1, <3>3, <3>4, <3>6 DEF TypeOK
      <3> HIDE DEF new
      <3>10. new # NoTransit
        BY <3>8, RowsAreRows
      <3>11. hold'[h].copy = hold[h].copy /\ hold'[h].pickup = l /\ hold'[h].shelf = NoLib
        BY <1>4, <1>6, <2>1, <2>4
      <3>12. /\ t \in TransitIds /\ transit'[t] # NoTransit /\ transit'[t].open
             /\ transit'[t].copy = hold'[h].copy
        BY <2>4, <3>8, <3>9, <3>10, <3>11 DEF OpenTransits
      <3>13. Fits(h, t)'
        BY <2>4, <3>8, <3>9, <3>11 DEF Fits
      <3>14. hold'[h].copy \in Copies /\ loan'[hold'[h].copy] = NoLoan
        BY <1>5, <2>2, <3>11 DEF ReadyFor
      <3> QED BY <3>11, <3>12, <3>13, <3>14 DEF ReadyFor, OpenTransits
    <2> QED BY <2>2, <2>3, <2>4 DEF ReadyFor
  <1> QED BY <1>1, <1>3, <1>4, <1>5, <1>6, <1>8, <1>9, RerouteStep

-----------------------------------------------------------------------------
(* Resets, aborts and follow-ups.                                          *)

\* What a reset relies on stays so while transits are only deleted and no hold
\* is captured, or fulfilled.
Closed ==
    /\ \A t \in TransitIds : transit'[t] \in {transit[t], NoTransit}
    /\ \A g \in Holds : /\ hold'[g].fulfilled = hold[g].fulfilled
                        /\ hold[g].placed => hold'[g].placed
                        /\ hold'[g] = hold[g] \/ ~hold'[g].captured

LEMMA CloseStays ==
  ASSUME Closed, NEW h \in Holds, NEW row, SafeClose(h, row)
  PROVE  SafeClose(h, row)'
  <1>1. NoneOpen(h) => NoneOpen(h)'
    BY DEF Closed, NoneOpen, HoldTransits
  <1>2. \A g \in Holds : Captive(g)' => hold'[g] = hold[g] /\ Captive(g)
    BY DEF Closed, Captive, Live
  <1>3. Waiting(row.copy)' \subseteq Waiting(row.copy)
    BY <1>2 DEF Waiting, LiveFor, Captive
  <1>4. hold'[h].fulfilled = hold[h].fulfilled
    BY DEF Closed
  <1> QED BY <1>1, <1>3, <1>4 DEF SafeClose

LEMMA ClosesStay ==
  ASSUME Closed, ClosesSafe, \A f \in todo : f.hold \in Holds,
         \A f \in todo' \ todo : f.op = "target"
  PROVE  ClosesSafe'
  <1> SUFFICES ASSUME NEW f \in todo, f.hold \in Holds
               PROVE  /\ f.op = "reset" => SafeClose(f.hold, f.row)'
                      /\ f.op = "refetch" => SafeClose(f.hold, hold[f.hold])'
    BY DEF ClosesSafe
  <1>1. CASE f.op = "reset"
    BY <1>1, CloseStays DEF ClosesSafe
  <1>2. CASE f.op = "refetch"
    <2>1. SafeClose(f.hold, hold[f.hold])
      BY <1>2 DEF ClosesSafe
    <2>2. CASE hold'[f.hold] = hold[f.hold]
      BY <1>2, <2>1, <2>2, CloseStays
    <2>3. CASE ~hold'[f.hold].captured
      <3>1. hold'[f.hold].placed
        BY <2>1 DEF SafeClose, Closed
      <3>2. (hold[f.hold].fulfilled \/ NoneOpen(f.hold))'
        BY <2>1, CloseStays DEF SafeClose
      <3> QED BY <1>2, <2>3, <3>1, <3>2 DEF SafeClose
    <2> QED BY <1>2, <2>2, <2>3 DEF Closed
  <1> QED BY <1>1, <1>2

\* Writing the row of a reset: the copy it takes off the shelf, or out of
\* transit, waits for no other hold.
LEMMA ResetRows ==
  ASSUME CirculationAssumption, TypeOK, HoldInv, NEW h \in Holds, NEW row \in HoldRows,
         row.fulfilled = hold[h].fulfilled, row.placed,
         row.captured /\ row.copy \in Copies => Waiting(row.copy) \subseteq {h},
         DoReset(h, row), UNCHANGED loan,
         hold[h].fulfilled \/ NoneOpen(h)',
         \A g \in Holds \ {h} : Closing(g) => Closing(g)'
  PROVE  RowsFine(hold)' /\ Unique(hold)' /\ Carried(hold, transit)' /\ Ready'
  <1> DEFINE c == row.copy
             new == [row EXCEPT !.captured = FALSE, !.copy = NoCopy, !.shelf = NoLib]
  <1>1. /\ new \in HoldRows /\ new.placed /\ ~new.captured /\ new.copy = NoCopy
        /\ new.shelf = NoLib /\ new.fulfilled = hold[h].fulfilled
    BY DEF HoldRows
  <1>2. hold' = [hold EXCEPT ![h] = new]
    BY DEF DoReset
  <1> HIDE DEF new
  <1>3. hold'[h] = new /\ \A g \in Holds \ {h} : hold'[g] = hold[g]
    BY <1>2 DEF TypeOK
  <1>4. /\ \/ UNCHANGED transit
           \/ \E t \in HoldTransits(h) : transit' = [transit EXCEPT ![t] = NoTransit]
        /\ \/ UNCHANGED status
           \/ row.captured /\ c # NoCopy /\ status' = [status EXCEPT ![c] = "reshelving"]
    BY DEF DoReset
  <1>5. \A t \in TransitIds : \/ transit'[t] = transit[t]
                              \/ t \in HoldTransits(h) /\ transit'[t] = NoTransit
    BY <1>4 DEF TypeOK, HoldTransits
  <1>6. ASSUME NEW g \in Holds \ {h}, Captive(g), ~Closing(g)'
        PROVE  ~Closing(g) /\ Unmoved(g)
    <2>1. ~Closing(g) /\ ReadyFor(g)
      BY <1>6 DEF HoldInv, Ready
    <2>2. hold[g].copy \in Copies /\ g \in Waiting(hold[g].copy)
      BY <1>6, <2>1 DEF ReadyFor, Waiting, LiveFor, Captive
    <2>3. status'[hold[g].copy] = status[hold[g].copy]
      BY <1>4, <2>2 DEF TypeOK
    <2>4. \A t \in OpenTransits(hold[g].copy) : transit[t].hold = g => transit'[t] = transit[t]
      BY <1>5 DEF OpenTransits, HoldTransits
    <2> QED BY <1>3, <2>1, <2>3, <2>4 DEF Unmoved
  <1>7. RowFine(hold'[h]) /\ ~Captive(h)' /\ (hold'[h].fulfilled \/ NoneOpen(h)')
    BY <1>1, <1>3 DEF RowFine, LiveRow, Captive
  <1>8. RowsFine(hold)' /\ Carried(hold, transit)' /\ Ready'
    BY <1>3, <1>5, <1>6, <1>7, HoldStep
  <1>9. Unique(hold)'
    BY <1>1, <1>3 DEF HoldInv, Unique, LiveRow, CirculationAssumption
  <1> QED BY <1>8, <1>9

\* A hold that is not fulfilled is carried by transits of its copy only.
LEMMA CarriedCopy ==
  ASSUME CirculationAssumption, TypeOK, HoldInv, NEW h \in Holds, ~hold[h].fulfilled,
         NEW t \in HoldTransits(h), transit[t].open
  PROVE  /\ hold[h].captured /\ hold[h].copy = transit[t].copy
         /\ hold[h].copy \in Copies /\ t \in OpenTransits(hold[h].copy)
  <1>1. t \in TransitIds /\ transit[t] # NoTransit /\ transit[t].hold = h /\ h # NoHold
    BY DEF HoldTransits, CirculationAssumption
  <1>2. hold[h].captured /\ hold[h].copy = transit[t].copy
    BY <1>1 DEF HoldInv, Carried, Named
  <1>3. transit[t].copy \in Copies
    BY <1>1 DEF TypeOK, TransitRows
  <1> QED BY <1>1, <1>2, <1>3 DEF OpenTransits

\* A requested reset.
LEMMA ResetHolds ==
  ASSUME CirculationAssumption, Neat, IInv, CopyInv, HoldInv, NEW h \in Holds, ResetHold(h)
  PROVE  HoldInv'
  <1>1. /\ TypeOK /\ TransitInv /\ hold[h] \in HoldRows /\ TargetsOnly
    BY ServedSteady DEF IInv, TypeOK, CopyInv, ResetHold, Neat, Tidy
  <1>2. /\ hold[h].placed /\ UNCHANGED loan /\ DoReset(h, hold[h])
        /\ \A f \in todo' \ todo : f.op = "target"
        /\ hold[h].captured => Waiting(hold[h].copy) \subseteq {h}
    BY RetargetFacts DEF ResetHold, Neat, Reused
  <1>3. ASSUME ~hold[h].fulfilled, NEW u \in HoldTransits(h)', transit'[u].open
        PROVE  FALSE
    <2> DEFINE c == hold[h].copy
    <2>1. \/ UNCHANGED transit
          \/ \E t \in HoldTransits(h) : transit' = [transit EXCEPT ![t] = NoTransit]
      BY <1>2 DEF DoReset
    <2>2. u \in HoldTransits(h) /\ transit'[u] = transit[u]
      BY <1>1, <2>1 DEF HoldTransits, TypeOK
    <2>3. hold[h].captured /\ c \in Copies /\ u \in OpenTransits(c)
      BY <1>1, <1>3, <2>2, CarriedCopy
    <2>4. status[c] = "in_transit" /\ c # NoCopy
      BY <1>1, <2>3 DEF TransitInv, CirculationAssumption
    <2>5. PICK t \in HoldTransits(h) : transit' = [transit EXCEPT ![t] = NoTransit]
      BY <1>2, <2>2, <2>3, <2>4 DEF DoReset
    <2>6. t \in OpenTransits(c)
      BY <2>3, <2>4 DEF ResetHold, Neat, Tidy, Delivered
    <2>7. t = u
      BY <1>1, <2>3, <2>6 DEF TransitInv
    <2>8. transit'[u] = NoTransit /\ transit[u] # NoTransit
      BY <1>1, <2>5, <2>7 DEF TypeOK, HoldTransits
    <2> QED BY <2>2, <2>8
  <1>4. hold[h].fulfilled \/ NoneOpen(h)'
    BY <1>3 DEF NoneOpen
  <1>5. ClosesSafe' /\ \A g \in Holds : ~Closing(g)
    BY <1>1, <1>2, TargetsLeft, NoClosing
  <1>6. RowsFine(hold)' /\ Unique(hold)' /\ Carried(hold, transit)' /\ Ready'
    BY <1>1, <1>2, <1>4, <1>5, ResetRows
  <1> QED BY <1>5, <1>6 DEF HoldInv

\* An abort: the hold whose copy was under way is to be reset, and nothing else
\* is carried or waits for this copy.
LEMMA AbortHolds ==
  ASSUME CirculationAssumption, Neat, IInv, CopyInv, HoldInv, NEW t \in TransitIds,
         AbortTransit(t)
  PROVE  HoldInv'
  <1> DEFINE row == transit[t]
             c == row.copy
             h == row.hold
  <1>1. /\ TypeOK /\ TransitInv /\ TargetsOnly /\ UNCHANGED <<loan, hold>>
        /\ RowsFine(hold)
    BY ServedSteady DEF IInv, CopyInv, Neat, Tidy, AbortTransit, HoldInv
  <1>2. /\ row \in TransitRows /\ row # NoTransit /\ row.open
        /\ c \in Copies /\ h \in Holds \cup {NoHold}
    BY <1>1 DEF AbortTransit, TypeOK, TransitRows
  <1>3. t \in OpenTransits(c) /\ \A u \in OpenTransits(c) : u = t
    BY <1>1, <1>2 DEF OpenTransits, TransitInv
  <1>4. status[c] = "in_transit"
    BY <1>1, <1>2, <1>3 DEF TransitInv
  <1>5. /\ transit' = [transit EXCEPT ![t] = NoTransit]
        /\ status' = [status EXCEPT ![c] = IF h = NoHold THEN row.back ELSE "reshelving"]
        /\ todo' = IF h = NoHold THEN todo
                   ELSE todo \cup {[op |-> "refetch", hold |-> h]}
    BY DEF AbortTransit
  <1>6. h # NoHold /\ hold[h].copy # c => ~Reused(h)
    BY DEF AbortTransit, Neat
  <1> HIDE DEF row, c, h
  <1>7. /\ transit'[t] = NoTransit
        /\ \A u \in TransitIds \ {t} : transit'[u] = transit[u]
        /\ \A d \in Copies \ {c} : status'[d] = status[d]
    BY <1>1, <1>2, <1>5 DEF TypeOK
  <1>8. ASSUME NEW g \in Holds PROVE (h = g => Closing(g)') /\ ~Closing(g)
    <2>1. ASSUME h = g PROVE Closing(g)'
      <3> DEFINE new == [op |-> "refetch", hold |-> g]
      <3>1. new \in todo'
        BY <1>5, <2>1 DEF CirculationAssumption
      <3>2. new.op \in {"reset", "refetch"} /\ new.hold = g
        OBVIOUS
      <3> QED BY <3>1, <3>2 DEF Closing
    <2> QED BY <1>1, <2>1, NoClosing
  <1>9. ASSUME NEW g \in Holds, Captive(g), hold[g].copy = c PROVE g = h
    <2>1. ReadyFor(g)
      BY <1>8, <1>9 DEF HoldInv, Ready
    <2> QED BY <1>3, <1>4, <1>9, <2>1 DEF ReadyFor, Fits, h, row
  <1>10. Ready'
    <2> SUFFICES ASSUME NEW g \in Holds, Captive(g)', g # h PROVE ReadyFor(g)'
      BY <1>8 DEF Ready
    <2>1. Captive(g) /\ ReadyFor(g) /\ hold[g].copy \in Copies \ {c}
      BY <1>1, <1>8, <1>9 DEF Captive, Live, HoldInv, Ready, ReadyFor
    <2>2. \A u \in OpenTransits(hold[g].copy) : transit'[u] = transit[u]
      BY <1>3, <1>7, <2>1 DEF OpenTransits
    <2>3. Unmoved(g)
      BY <1>1, <1>7, <2>1, <2>2 DEF Unmoved
    <2> QED BY <2>1, <2>3, StaysReady
  <1>11. RowsFine(hold)' /\ Unique(hold)' /\ Carried(hold, transit)'
    BY <1>1, <1>7 DEF HoldInv, RowsFine, Unique, Carried, Named
  <1>12. ASSUME NEW g \in Holds, g = h PROVE SafeClose(g, hold[g])'
    <2>1. t \in HoldTransits(g) /\ transit[t].open /\ RowFine(hold[g]) /\ g # NoHold
      BY <1>1, <1>2, <1>12 DEF HoldTransits, RowsFine, CirculationAssumption, h, row
    <2>2. ASSUME ~hold[g].fulfilled
          PROVE  hold[g].captured /\ hold[g].copy = c /\ NoneOpen(g)'
      <3>1. hold[g].captured /\ hold[g].copy = c
        BY <1>1, <2>1, <2>2, CarriedCopy DEF c, row
      <3>2. \A u \in HoldTransits(g) : transit[u].open => u = t
        BY <1>1, <1>3, <2>2, <3>1, CarriedCopy
      <3> QED BY <1>7, <3>1, <3>2 DEF NoneOpen, HoldTransits
    <2>3. hold'[g].placed
      BY <1>1, <2>1, <2>2 DEF RowFine
    <2>4. hold[g].captured => Waiting(hold[g].copy) \subseteq {g}
      BY <1>6, <1>9, <1>12, <2>1 DEF Reused, Waiting, LiveFor, Captive
    <2>5. \A d : Waiting(d)' = Waiting(d)
      BY <1>1 DEF Waiting, LiveFor, Live
    <2> QED BY <1>1, <2>2, <2>3, <2>4, <2>5 DEF SafeClose
  <1>13. ClosesSafe'
    <2>1. ASSUME NEW f \in todo'
          PROVE  /\ f.op = "reset" => SafeClose(f.hold, f.row)'
                 /\ f.op = "refetch" => SafeClose(f.hold, hold[f.hold])'
      <3>1. CASE f \in todo
        BY <1>1, <3>1 DEF TargetsOnly
      <3>2. CASE f \notin todo
        <4>1. f.op = "refetch" /\ f.hold = h /\ f.hold \in Holds
          BY <1>2, <1>5, <3>2
        <4> QED BY <1>12, <4>1
      <3> QED BY <3>1, <3>2
    <2> QED BY <2>1 DEF ClosesSafe
  <1> QED BY <1>10, <1>11, <1>13 DEF HoldInv

\* A step that changes nothing but what waits to be done.
LEMMA NothingMoves ==
  ASSUME HoldInv, UNCHANGED <<status, loan, hold, transit>>,
         \A g \in Holds : Closing(g) => Closing(g)'
  PROVE  RowsFine(hold)' /\ Unique(hold)' /\ Carried(hold, transit)' /\ Ready'
  <1>1. \A g \in Holds : Unmoved(g)
    BY DEF Unmoved
  <1>2. ASSUME NEW g \in Holds, Captive(g)', ~Closing(g)' PROVE ReadyFor(g)'
    BY <1>1, <1>2, StaysReady DEF Captive, Live, HoldInv, Ready
  <1>3. Ready'
    BY <1>2 DEF Ready
  <1> QED BY <1>3 DEF HoldInv, RowsFine, Unique, Carried, Named

\* The targeter places and fulfils no hold.
LEMMA TargetKeepsRow ==
  ASSUME TypeOK, NEW h \in Holds, TargetHold(h)
  PROVE  \A g \in Holds : /\ hold'[g].fulfilled = hold[g].fulfilled
                          /\ hold'[g].placed = hold[g].placed
  <1>1. hold \in HoldTables /\ hold[h] \in HoldRows
    BY DEF TypeOK, HoldTables
  <1>2. \/ \E c : hold' = [hold EXCEPT ![h].copy = c]
        \/ \E c : hold' = [hold EXCEPT ![h].copy = c, ![h].cancelled = TRUE]
    BY DEF TargetHold
  <1>3. ASSUME NEW c, hold' = [hold EXCEPT ![h].copy = c]
        PROVE  \A g \in Holds : /\ hold'[g].fulfilled = hold[g].fulfilled
                                /\ hold'[g].placed = hold[g].placed
    BY <1>1, <1>3 DEF HoldTables, HoldRows
  <1>4. ASSUME NEW c, hold' = [hold EXCEPT ![h].copy = c, ![h].cancelled = TRUE]
        PROVE  \A g \in Holds : /\ hold'[g].fulfilled = hold[g].fulfilled
                                /\ hold'[g].placed = hold[g].placed
    BY <1>1, <1>4 DEF HoldTables, HoldRows
  <1> QED BY <1>2, <1>3, <1>4

\* The periodic run of the targeter lists a hold.
LEMMA ListHolds ==
  ASSUME CirculationAssumption, Neat, IInv, HoldInv, NEW h \in Holds, ListHold(h)
  PROVE  HoldInv'
  <1>1. TargetsOnly /\ UNCHANGED <<status, loan, hold, transit, todo>>
    BY ServedSteady DEF Neat, Tidy, ListHold
  <1>2. ClosesSafe' /\ \A g \in Holds : ~Closing(g)
    BY <1>1, TargetsLeft, NoClosing
  <1> QED BY <1>1, <1>2, NothingMoves DEF HoldInv

\* It comes to it: if it can be targeted it is still a live one.
LEMMA TargeterHolds ==
  ASSUME CirculationAssumption, Neat, IInv, HoldInv, ListedPlaced,
         NEW h \in Holds, Targeter(h)
  PROVE  HoldInv'
  <1>1. TargetsOnly /\ UNCHANGED <<status, loan, transit, todo>> /\ TypeOK
    BY ServedSteady DEF Neat, Tidy, Targeter, IInv
  <1>2. ClosesSafe' /\ \A g \in Holds : ~Closing(g)
    BY <1>1, TargetsLeft, NoClosing
  <1>3. CASE Targetable(h)
    <2>1. TargetHold(h) /\ Live(h)
      BY <1>3 DEF Targeter, Targetable, ListedPlaced, Live, IInv, Sealed
    <2> QED BY <1>1, <1>2, <1>3, <2>1, TargetRows DEF HoldInv
  <1>4. CASE ~Targetable(h)
    <2>1. UNCHANGED hold
      BY <1>4 DEF Targeter
    <2> QED BY <1>1, <1>2, <2>1, NothingMoves DEF HoldInv
  <1> QED BY <1>3, <1>4

\* A follow-up: a reset is safe to be done when its turn comes.
LEMMA FollowUpHolds ==
  ASSUME CirculationAssumption, IInv, CopyInv, HoldInv, NEW f \in todo, FollowUp(f)
  PROVE  HoldInv'
  <1>1. /\ TypeOK /\ TransitInv /\ ClosesSafe /\ UNCHANGED loan
        /\ f.hold \in Holds /\ \A g \in todo : g.hold \in Holds
    BY DEF IInv, TypeOK, FollowUps, CopyInv, HoldInv, FollowUp
  <1>2. CASE f.op = "target"
    <2>1. UNCHANGED <<status, transit>> /\ todo' = todo \ {f}
      BY <1>2 DEF FollowUp
    <2>2. \A g \in Holds : Closing(g) => Closing(g)'
      <3> SUFFICES ASSUME NEW g \in Holds, Closing(g) PROVE Closing(g)'
        OBVIOUS
      <3>1. PICK e \in todo : e.op \in {"reset", "refetch"} /\ e.hold = g
        BY DEF Closing
      <3>2. e \in todo'
        BY <1>2, <2>1, <3>1
      <3> QED BY <3>1, <3>2 DEF Closing
    <2>3. CASE Listable(f.hold) /\ Targetable(f.hold)
      <3>1. TargetHold(f.hold) /\ Live(f.hold)
        BY <1>2, <2>3 DEF FollowUp, Listable
      <3>2. \A g \in Holds : /\ hold'[g].fulfilled = hold[g].fulfilled
                             /\ hold'[g].placed = hold[g].placed
        BY <1>1, <3>1, TargetKeepsRow
      <3>3. Closed
        BY <1>1, <2>1, <2>3, <3>1, <3>2, TargetUncaptured DEF Closed
      <3>4. ClosesSafe'
        BY <1>1, <2>1, <3>3, ClosesStay
      <3> QED BY <1>1, <2>1, <2>2, <2>3, <3>1, <3>4, TargetRows DEF HoldInv
    <2>4. CASE ~(Listable(f.hold) /\ Targetable(f.hold))
      <3>1. UNCHANGED hold
        BY <1>2, <2>4 DEF FollowUp
      <3>2. Closed
        BY <2>1, <3>1 DEF Closed
      <3>3. ClosesSafe'
        BY <1>1, <2>1, <3>2, ClosesStay
      <3> QED BY <1>1, <2>1, <2>2, <3>1, <3>3, NothingMoves DEF HoldInv
    <2> QED BY <2>3, <2>4
  <1>3. CASE f.op = "refetch"
    <2>1. /\ UNCHANGED <<status, hold, transit>>
          /\ todo' = (todo \ {f}) \cup {Reset(f.hold)}
      BY <1>3 DEF FollowUp
    <2>2. \A g \in Holds : Closing(g) => Closing(g)'
      <3> SUFFICES ASSUME NEW g \in Holds, Closing(g) PROVE Closing(g)'
        OBVIOUS
      <3>1. PICK e \in todo : e.op \in {"reset", "refetch"} /\ e.hold = g
        BY DEF Closing
      <3>2. CASE e = f
        <4> DEFINE new == Reset(f.hold)
        <4>1. new \in todo' /\ new.op \in {"reset", "refetch"} /\ new.hold = g
          BY <2>1, <3>1, <3>2 DEF Reset
        <4> QED BY ONLY <4>1 DEF Closing
      <3>3. CASE e # f
        <4>1. e \in todo'
          BY <2>1, <3>3
        <4> QED BY <3>1, <4>1 DEF Closing
      <3> QED BY <3>2, <3>3
    <2>3. Closed
      BY <2>1 DEF Closed
    <2>4. SafeClose(f.hold, hold[f.hold])'
      BY <1>1, <1>3, <2>1, <2>3, CloseStays DEF ClosesSafe
    <2>5. ASSUME NEW g \in todo'
          PROVE  /\ g.op = "reset" => SafeClose(g.hold, g.row)'
                 /\ g.op = "refetch" => SafeClose(g.hold, hold[g.hold])'
      <3>1. CASE g \in todo
        BY <1>1, <2>1, <2>3, <3>1, CloseStays DEF ClosesSafe
      <3>2. CASE g \notin todo
        BY <2>1, <2>4, <3>2 DEF Reset
      <3> QED BY <3>1, <3>2
    <2>6. ClosesSafe'
      BY <2>5 DEF ClosesSafe
    <2> QED BY <1>1, <2>1, <2>2, <2>6, NothingMoves DEF HoldInv
  <1>4. CASE f.op = "reset"
    <2>1. /\ f.row \in HoldRows /\ f.row.fulfilled = hold[f.hold].fulfilled
          /\ SafeClose(f.hold, f.row)
      BY <1>1, <1>4 DEF TypeOK, FollowUps, IInv, ResetsAgree, ClosesSafe
    <2>2. /\ DoReset(f.hold, f.row) /\ todo' = (todo \ {f}) \cup Retarget({f.hold})
      BY <1>4 DEF FollowUp
    <2>3. \A g \in Holds \ {f.hold} : Closing(g) => Closing(g)'
      BY <2>2 DEF Closing
    <2>4. /\ hold'[f.hold].fulfilled = hold[f.hold].fulfilled
          /\ hold'[f.hold].placed /\ ~hold'[f.hold].captured
          /\ \A g \in Holds \ {f.hold} : hold'[g] = hold[g]
      BY <1>1, <2>1, <2>2 DEF DoReset, TypeOK, HoldRows, SafeClose
    <2>5. \A t \in TransitIds : transit'[t] \in {transit[t], NoTransit}
      BY <1>1, <2>2 DEF DoReset, TypeOK
    <2>6. Closed
      BY <2>4, <2>5 DEF Closed
    <2>7. \A g \in todo' \ todo : g.op = "target"
      BY <1>1, <2>2, RetargetFacts
    <2>8. ClosesSafe' /\ SafeClose(f.hold, f.row)'
      BY <1>1, <2>1, <2>6, <2>7, ClosesStay, CloseStays
    <2>9. RowsFine(hold)' /\ Unique(hold)' /\ Carried(hold, transit)' /\ Ready'
      BY <1>1, <2>1, <2>2, <2>3, <2>4, <2>8, ResetRows DEF SafeClose
    <2> QED BY <2>8, <2>9 DEF HoldInv
  <1> QED BY <1>1, <1>2, <1>3, <1>4 DEF TypeOK, FollowUps

-----------------------------------------------------------------------------
(* Nothing takes a hold out of the tables, not even one the targeter listed. *)

StaysPlaced == \A g \in Holds : hold[g].placed => hold'[g].placed

\* However a checkin ends.
LEMMA SettlePlaced ==
  ASSUME NEW c, NEW l, NEW s, NEW r, NEW H \in HoldTables, NEW T, Settle(c, l, s, r, H, T),
         \A g \in Holds : H[g].placed = hold[g].placed
  PROVE  StaysPlaced
  <1>1. \A g \in Holds : H[g] \in HoldRows
    BY DEF HoldTables
  <1>2. ASSUME NEW h \in Capturable(c, H), CaptureHold(c, l, h, H, T)
        PROVE  StaysPlaced
    <2> SUFFICES ASSUME NEW g \in Holds PROVE hold'[g].placed = H[g].placed
      BY DEF StaysPlaced
    <2>1. CASE g = h
      <3>1. \E x : hold'[g] = [H[g] EXCEPT !.copy = c, !.captured = TRUE, !.fulfilled = FALSE,
                                          !.cancelled = FALSE, !.shelf = x]
        BY <1>2, <2>1 DEF CaptureHold
      <3> QED BY <1>1, <3>1 DEF HoldRows
    <2>2. CASE g # h
      <3>1. hold'[g] = H[g] \/ hold'[g] = [H[g] EXCEPT !.copy = NoCopy]
        BY <1>2, <2>2 DEF CaptureHold
      <3> QED BY <1>1, <3>1 DEF HoldRows
    <2> QED BY <2>1, <2>2
  <1>3. CASE SendAway(c, l, s, r, H, T)
    <2>1. \A g \in Holds : hold'[g] = H[g] \/ hold'[g] = [H[g] EXCEPT !.shelf = NoLib]
      BY <1>3 DEF SendAway
    <2> QED BY <1>1, <2>1 DEF HoldRows, StaysPlaced
  <1>4. CASE StayHere(c, s, H, T)
    BY <1>4 DEF StayHere, StaysPlaced
  <1> QED BY <1>2, <1>3, <1>4 DEF Settle

\* The three checkins.
LEMMA CheckinPlaced ==
  ASSUME CirculationAssumption, TypeOK, NEW c \in Copies, NEW l \in Libs,
         CheckinLoan(c, l) \/ CheckinTransit(c, l) \/ CheckinOther(c, l)
  PROVE  StaysPlaced
  <1>1. hold \in HoldTables
    BY DEF TypeOK, HoldTables
  <1>2. UNCHANGED hold => StaysPlaced
    BY DEF StaysPlaced
  <1>3. CASE CheckinLoan(c, l)
    BY <1>1, <1>2, <1>3, SettlePlaced DEF CheckinLoan
  <1>4. CASE CheckinOther(c, l)
    BY <1>1, <1>4, SettlePlaced DEF CheckinOther
  <1>5. CASE CheckinTransit(c, l)
    <2>1. PICK t \in OpenTransits(c), r \in Holds \cup {NoHold} :
             \/ Settle(c, l, transit[t].back, r, hold, [transit EXCEPT ![t] = NoTransit])
             \/ /\ transit[t].hold # NoHold
                /\ ArriveForHold(c, l, t, r, [transit EXCEPT ![t].open = FALSE])
      BY <1>5 DEF CheckinTransit
    <2>2. ASSUME NEW T, transit[t].hold # NoHold, ArriveForHold(c, l, t, r, T)
          PROVE  StaysPlaced
      <3> DEFINE h == transit[t].hold
                 row == [hold[h] EXCEPT !.shelf = l]
                 H == [hold EXCEPT ![h] = row]
      <3>1. h \in Holds /\ hold[h] \in HoldRows
        BY <2>2 DEF TypeOK, OpenTransits, TransitRows
      <3>2. row \in HoldRows /\ row.placed = hold[h].placed
        BY <3>1 DEF HoldRows
      <3>3. hold' = H \/ Settle(c, l, "reshelving", r, H, T)
        BY <2>2 DEF ArriveForHold
      <3> HIDE DEF h, row
      <3>4. H \in HoldTables /\ \A g \in Holds : H[g].placed = hold[g].placed
        BY <1>1, <3>1, <3>2 DEF HoldTables
      <3> HIDE DEF H
      <3>5. hold' = H => StaysPlaced
        BY <3>4 DEF StaysPlaced
      <3> QED BY <3>3, <3>4, <3>5, SettlePlaced
    <2> QED BY <1>1, <2>1, <2>2, SettlePlaced
  <1> QED BY <1>3, <1>4, <1>5

\* Lending.
LEMMA LendingPlaced ==
  ASSUME TypeOK, NEW c \in Copies, NEW u, CheckoutHolds(c, u)
  PROVE  StaysPlaced
  <1>1. hold \in HoldTables
    BY DEF TypeOK, HoldTables
  <1>2. PICK H \in HoldTables :
           /\ \A g \in Holds : H[g].placed = hold[g].placed
           /\ hold' = H \/ \E f \in Holds : Fulfil(f, c, H)
    BY <1>1, DisplacedFacts DEF CheckoutHolds, Related, LiveFor
  <1>3. ASSUME NEW f \in Holds, Fulfil(f, c, H) PROVE StaysPlaced
    <2>1. \A g \in Holds : hold'[g].placed = H[g].placed
      BY <1>3, FulfilFacts
    <2> QED BY <1>2, <2>1 DEF StaysPlaced
  <1> QED BY <1>2, <1>3 DEF StaysPlaced

\* The requests on a hold, and the periodic run.
LEMMA HoldRequestPlaced ==
  ASSUME TypeOK, NEW h \in Holds, HoldRequest(h)
  PROVE  StaysPlaced
  <1>1. hold[h] \in HoldRows /\ \A g \in Holds : hold[g] \in HoldRows
    BY DEF TypeOK
  <1>2. ASSUME NEW row, hold' = [hold EXCEPT ![h] = row], hold[h].placed => row.placed
        PROVE  StaysPlaced
    BY <1>2 DEF StaysPlaced, TypeOK
  <1>3. ASSUME NEW l \in Libs, PlaceHold(h, l) PROVE StaysPlaced
    BY <1>1, <1>2, <1>3 DEF PlaceHold, HoldRows
  <1>4. ASSUME NEW l \in Libs, ChangePickup(h, l) PROVE StaysPlaced
    <2>1. \E x : hold' = [hold EXCEPT ![h] = [hold[h] EXCEPT !.pickup = l, !.copy = x]]
      BY <1>4 DEF ChangePickup
    <2> QED BY <1>1, <1>2, <2>1 DEF HoldRows
  <1>5. CASE CancelHold(h)
    BY <1>1, <1>2, <1>5 DEF CancelHold, HoldRows
  <1>6. CASE UncancelHold(h)
    BY <1>1, <1>2, <1>6 DEF UncancelHold, HoldRows
  <1>7. CASE Freeze(h)
    BY <1>1, <1>2, <1>7 DEF Freeze, HoldRows
  <1>8. CASE Thaw(h)
    BY <1>1, <1>2, <1>8 DEF Thaw, HoldRows
  <1>9. CASE Amend(h)
    BY <1>1, <1>2, <1>9 DEF Amend, HoldRows
  <1>10. CASE ResetHold(h)
    BY <1>1, <1>2, <1>10 DEF ResetHold, DoReset, HoldRows
  <1>11. CASE ListHold(h)
    BY <1>11 DEF ListHold, StaysPlaced
  <1>12. CASE Targeter(h)
    <2>1. CASE UNCHANGED hold
      BY <2>1 DEF StaysPlaced
    <2>2. CASE TargetHold(h)
      BY <2>2, TargetKeepsRow DEF StaysPlaced
    <2> QED BY <1>12, <2>1, <2>2 DEF Targeter
  <1> QED BY <1>3, <1>4, <1>5, <1>6, <1>7, <1>8, <1>9, <1>10, <1>11, <1>12 DEF HoldRequest

\* The follow-ups: a reset writes the row of a placed hold.
LEMMA FollowUpPlaced ==
  ASSUME TypeOK, HoldInv, NEW f \in todo, FollowUp(f)
  PROVE  StaysPlaced
  <1>1. f \in FollowUps /\ f.hold \in Holds
    BY DEF TypeOK, FollowUps
  <1>2. UNCHANGED hold => StaysPlaced
    BY DEF StaysPlaced
  <1>3. CASE f.op = "target"
    <2>1. UNCHANGED hold \/ TargetHold(f.hold)
      BY <1>3 DEF FollowUp
    <2>2. TargetHold(f.hold) => StaysPlaced
      BY <1>1, TargetKeepsRow DEF StaysPlaced
    <2> QED BY <1>2, <2>1, <2>2
  <1>4. CASE f.op = "refetch"
    BY <1>2, <1>4 DEF FollowUp
  <1>5. CASE f.op = "reset"
    <2>1. f.row \in HoldRows /\ f.row.placed
      BY <1>1, <1>5 DEF FollowUps, HoldInv, ClosesSafe, SafeClose
    <2> DEFINE row == [f.row EXCEPT !.captured = FALSE, !.copy = NoCopy, !.shelf = NoLib]
    <2>2. hold' = [hold EXCEPT ![f.hold] = row]
      BY <1>5 DEF FollowUp, DoReset
    <2>3. row.placed
      BY <2>1 DEF HoldRows
    <2> HIDE DEF row
    <2> QED BY <2>2, <2>3 DEF StaysPlaced, TypeOK
  <1> QED BY <1>1, <1>3, <1>4, <1>5 DEF FollowUps

\* What the targeter lists, and what it still has on its list, stays placed.
LEMMA NextListed ==
  ASSUME CirculationAssumption, IInv, HoldInv, ListedPlaced, [Next]_vars, TypeOK'
  PROVE  ListedPlaced'
  <1>1. TypeOK
    BY DEF IInv
  <1>2. UNCHANGED hold => StaysPlaced
    BY DEF StaysPlaced
  <1>3. ASSUME NEW c \in Copies, Desk(c) PROVE StaysPlaced /\ listed' = listed
    <2>1. CASE \E l \in Libs : CheckinLoan(c, l) \/ CheckinTransit(c, l) \/ CheckinOther(c, l)
      BY <1>1, <2>1, CheckinPlaced DEF CheckinLoan, CheckinTransit, CheckinOther
    <2>2. CASE Renew(c) \/ \E u \in Users : Checkout(c, u)
      BY <1>1, <2>2, LendingPlaced DEF Renew, Checkout
    <2>3. CASE SetClaimsReturned(c) \/ SetLost(c) \/ MarkItem(c) \/ ReshelvingDone(c)
      BY <1>2, <2>3 DEF SetClaimsReturned, SetLost, MarkItem, ReshelvingDone
    <2> QED BY <1>3, <2>1, <2>2, <2>3 DEF Desk
  <1>4. ASSUME NEW h \in Holds, HoldRequest(h)
        PROVE  StaysPlaced /\ \A g \in listed' \ listed : hold[g].placed
    <2>1. StaysPlaced
      BY <1>1, <1>4, HoldRequestPlaced
    <2>2. \/ listed' \subseteq listed
          \/ listed' = listed \cup {h} /\ hold[h].placed
      BY <1>4 DEF HoldRequest, PlaceHold, ChangePickup, CancelHold, UncancelHold, Freeze, Thaw,
                  Amend, ResetHold, ListHold, Listable, Live, Targeter
    <2> QED BY <2>1, <2>2
  <1>5. ASSUME NEW t \in TransitIds, AbortTransit(t) PROVE StaysPlaced /\ listed' = listed
    BY <1>2, <1>5 DEF AbortTransit
  <1>6. ASSUME NEW f \in todo, FollowUp(f) \/ Crash(f) PROVE StaysPlaced /\ listed' = listed
    BY <1>1, <1>2, <1>6, FollowUpPlaced DEF FollowUp, Crash
  <1>7. CASE UNCHANGED vars
    BY <1>2, <1>7 DEF vars, ListedPlaced
  <1>8. StaysPlaced /\ \A g \in listed' \ listed : hold[g].placed
    BY <1>2, <1>3, <1>4, <1>5, <1>6, <1>7 DEF Next, vars
  <1>9. listed' \subseteq Holds
    BY DEF TypeOK
  <1> QED BY <1>1, <1>8, <1>9 DEF ListedPlaced, StaysPlaced

-----------------------------------------------------------------------------
(* The theorems.                                                           *)

\* Initially nobody has a hold.
LEMMA InitHolds == ASSUME CirculationAssumption PROVE Init => HoldInv
  BY DEF Init, HoldInv, RowsFine, RowFine, LiveRow, Unique, Carried, Named, Ready,
         Captive, Live, ClosesSafe

\* Every step keeps the holds in order.
LEMMA NextHolds ==
  ASSUME CirculationAssumption, Neat, IInv, CopyInv, HoldInv, ListedPlaced, [Next]_vars
  PROVE  HoldInv'
  <1>1. ASSUME NEW c \in Copies, Desk(c) PROVE HoldInv'
    BY <1>1, CheckinHolds, LendingHolds, CopyRequestHolds, MarkHolds DEF Desk
  <1>2. ASSUME NEW h \in Holds, HoldRequest(h) PROVE HoldInv'
    BY <1>2, PlaceHolds, SuspendedPickup, PickupHolds, CancelHolds, UncancelHolds,
       FreezeHolds, ThawHolds, AmendHolds, ResetHolds, ListHolds, TargeterHolds
       DEF HoldRequest
  <1>3. ASSUME NEW f \in todo, Crash(f) PROVE HoldInv'
    <2>1. UNCHANGED <<status, loan, hold, transit>> /\ todo' \subseteq todo /\ MaxCrashes # 0
      BY <1>3 DEF Crash, IInv, TypeOK, CirculationAssumption
    <2>2. TargetsOnly
      BY <2>1 DEF Neat, IInv, Orderly
    <2>3. ClosesSafe' /\ \A g \in Holds : ~Closing(g)
      BY <2>1, <2>2, TargetsLeft, NoClosing
    <2> QED BY <2>1, <2>3, NothingMoves DEF HoldInv
  <1>4. ASSUME UNCHANGED vars PROVE HoldInv'
    <2>1. UNCHANGED <<status, loan, hold, transit, todo>>
      BY <1>4 DEF vars
    <2>2. \A g \in Holds : Closing(g) => Closing(g)'
      BY <2>1 DEF Closing
    <2>3. ClosesSafe'
      BY <2>1 DEF HoldInv, ClosesSafe, SafeClose, NoneOpen, HoldTransits, Waiting,
                  LiveFor, Live
    <2> QED BY <2>1, <2>2, <2>3, NothingMoves DEF HoldInv
  <1> QED BY <1>1, <1>2, <1>3, <1>4, AbortHolds, FollowUpHolds DEF Next

\* The invariants together are inductive.
LEMMA HoldInvariance ==
  ASSUME CirculationAssumption, Neat
  PROVE  Spec => [](IInv /\ CopyInv /\ HoldInv /\ ListedPlaced)
  <1>1. Init => IInv /\ CopyInv /\ HoldInv /\ ListedPlaced
    BY InitInv, InitCopies, InitHolds DEF Init, ListedPlaced
  <1>2. IInv /\ CopyInv /\ HoldInv /\ ListedPlaced /\ [Next]_vars
        => (IInv /\ CopyInv /\ HoldInv /\ ListedPlaced)'
    BY NextStep, NextCopies, NextHolds, NextListed DEF Neat, Tidy, Kept, IInv
  <1> QED BY <1>1, <1>2, PTL DEF Spec

\* The targeter, the capture at checkin, marks, resets and aborts never leave
\* two live holds with the same copy.
THEOREM OneHold ==
  ASSUME CirculationAssumption, Neat PROVE Spec => []OneHoldPerCopy
  <1>1. HoldInv => OneHoldPerCopy
    BY DEF HoldInv, Unique, OneHoldPerCopy, LiveFor, Live, LiveRow
  <1> QED BY <1>1, HoldInvariance, PTL

\* The copy of a captured hold is on a holds shelf or on its way to the
\* library where the hold is picked up, unless the hold is about to be reset; also
\* when it was suspended on the targeter's list and captured all the same, as long
\* as it is not updated before it is activated (update_hold_impl).
THEOREM CapturedAndReady ==
  ASSUME CirculationAssumption, Neat PROVE Spec => []CapturedIsReady
  <1>1. ASSUME CirculationAssumption, HoldInv, NEW h \in Holds, Live(h), hold[h].captured,
               \A f \in todo : f.hold # h
        PROVE  /\ hold[h].copy # NoCopy
               /\ \/ status[hold[h].copy] = "holds_shelf" /\ hold[h].shelf # NoLib
                  \/ \E t \in OpenTransits(hold[h].copy) :
                        transit[t].hold = h /\ transit[t].dest = hold[h].pickup
    <2>1. ReadyFor(h)
      BY <1>1 DEF HoldInv, Ready, Captive, Closing
    <2> QED BY <1>1, <2>1 DEF ReadyFor, Fits, CirculationAssumption
  <1>2. HoldInv => CapturedIsReady
    BY <1>1 DEF CapturedIsReady
  <1> QED BY <1>2, HoldInvariance, PTL

\* A live hold has a shelf only while a copy is captured for it.
THEOREM ShelfIsOfCapture ==
  ASSUME CirculationAssumption, Neat PROVE Spec => []ShelfBelongsToCapture
  <1>1. HoldInv => ShelfBelongsToCapture
    BY DEF HoldInv, RowsFine, RowFine, ShelfBelongsToCapture, Live, LiveRow
  <1> QED BY <1>1, HoldInvariance, PTL
=============================================================================
