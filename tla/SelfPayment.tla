---------------------------- MODULE SelfPayment ----------------------------
(***************************************************************************)
(* Paying fines by credit card at a self-check station (selfcheck.js and   *)
(* payment.js), on the account of one patron (Money) who may be logged in  *)
(* at several places.                                                      *)
(*                                                                         *)
(* Requests to pay are synchronous; the list of fines and the receipt are  *)
(* not, and a modal progress dialog covers the page until they arrive.     *)
(* Each drawing of the payment page connects one more function to the      *)
(* submit button, with the transactions selected then; none is ever        *)
(* disconnected before the patron logs out and the page is loaded again.   *)
(***************************************************************************)
EXTENDS Money, Sequences

CONSTANTS
    MaxDrawn,      \* bound: drawings of the payment page in one session
    MaxLogins,     \* bound: sessions
    ReceiptFails   \* the server may fail to make a receipt

ASSUME SelfPaymentAssumption ==
    MaxDrawn \in Nat /\ MaxLogins \in Nat /\ ReceiptFails \in BOOLEAN

VARIABLES
    page,      \* [Clients -> tabName, or "login"]
    known,     \* [Clients -> Nat]: last_xact_id of the patron object
    fines,     \* [Clients -> partial function Xacts -> Int]: rows of finesTbody
    selected,  \* [Clients -> SUBSET Xacts]: selectors that are checked
    loading,   \* [Clients -> fines, or NoList]: the list on its way
    connects,  \* [Clients -> Seq of fines]: what the submit button is connected to
    firing,    \* [Clients -> Nat]: the connected function that runs, 0 for none
    receipts,  \* [Clients -> Nat]: receipts on their way
    logins

CONSTANT NoList

kioskvars == <<page, known, fines, selected, loading, connects, firing, receipts, logins>>
vars == <<moneyvars, kioskvars>>

Init ==
    /\ MoneyInit
    /\ page = [k \in Clients |-> "login"]
    /\ known = [k \in Clients |-> 0]
    /\ fines = [k \in Clients |-> <<>>] /\ selected = [k \in Clients |-> {}]
    /\ loading = [k \in Clients |-> NoList]
    /\ connects = [k \in Clients |-> <<>>] /\ firing = [k \in Clients |-> 0]
    /\ receipts = [k \in Clients |-> 0]
    /\ logins = 0

\* The page takes clicks: nothing runs and no progress dialog covers it.
Usable(k) ==
    page[k] # "login" /\ firing[k] = 0 /\ receipts[k] = 0 /\ loading[k] = NoList

Chosen(k) == [x \in selected[k] |-> fines[k][x]]

\* fetchPatron and drawCircPage.
Login(k) ==
    /\ page[k] = "login" /\ logins < MaxLogins
    /\ logins' = logins + 1
    /\ page' = [page EXCEPT ![k] = "checkout"]
    /\ known' = [known EXCEPT ![k] = last_xact_id]
    /\ UNCHANGED <<moneyvars, fines, selected, loading, connects, firing, receipts>>

\* logoutPatron: the page is loaded again and forgets everything.
Logout(k) ==
    /\ Usable(k)
    /\ page' = [page EXCEPT ![k] = "login"]
    /\ known' = [known EXCEPT ![k] = 0]
    /\ fines' = [fines EXCEPT ![k] = <<>>] /\ selected' = [selected EXCEPT ![k] = {}]
    /\ connects' = [connects EXCEPT ![k] = <<>>]
    /\ UNCHANGED <<moneyvars, loading, firing, receipts, logins>>

\* drawFinesPage: the table is emptied and the list asked for.
DrawFines(k) ==
    /\ page' = [page EXCEPT ![k] = "fines"]
    /\ fines' = [fines EXCEPT ![k] = <<>>] /\ selected' = [selected EXCEPT ![k] = {}]
    /\ loading' = [loading EXCEPT ![k] = [x \in Owing |-> Balance(x)]]

ViewFines(k) ==
    /\ Usable(k) /\ DrawFines(k)
    /\ UNCHANGED <<moneyvars, known, connects, firing, receipts, logins>>

\* The list arrives; every row is selected.
FinesIn(k) ==
    /\ loading[k] # NoList
    /\ fines' = [fines EXCEPT ![k] = loading[k]]
    /\ selected' = [selected EXCEPT ![k] = DOMAIN loading[k]]
    /\ loading' = [loading EXCEPT ![k] = NoList]
    /\ UNCHANGED <<moneyvars, page, known, connects, firing, receipts, logins>>

Select(k) ==
    /\ Usable(k) /\ page[k] = "fines"
    /\ \E x \in DOMAIN fines[k] :
          selected' = [selected EXCEPT ![k] = IF x \in @ THEN @ \ {x} ELSE @ \union {x}]
    /\ UNCHANGED <<moneyvars, page, known, fines, loading, connects, firing, receipts, logins>>

Connected(k) == Append(connects[k], Chosen(k))

\* The pay-fines link: drawPayFinesPage.
PayPage(k) ==
    /\ Usable(k) /\ page[k] = "fines" /\ selected[k] # {}
    /\ Len(connects[k]) < MaxDrawn
    /\ page' = [page EXCEPT ![k] = "payment"]
    /\ connects' = [connects EXCEPT ![k] = Connected(k)]
    /\ UNCHANGED <<moneyvars, known, fines, selected, loading, firing, receipts, logins>>

\* oils-selfck-nav-home
Home(k) ==
    /\ Usable(k) /\ page[k] # "checkout"
    /\ page' = [page EXCEPT ![k] = "checkout"]
    /\ UNCHANGED <<moneyvars, known, fines, selected, loading, connects, firing, receipts,
                   logins>>

\* A click on submit runs the connected functions one after the other.
Submit(k) ==
    /\ Usable(k) /\ page[k] = "payment"
    /\ last_xact_id + Cardinality(Clients) * MaxDrawn <= MaxVersion
    /\ firing' = [firing EXCEPT ![k] = 1]
    /\ UNCHANGED <<moneyvars, page, known, fines, selected, loading, connects, receipts, logins>>

\* Mutant of Send: the patron is read again before the payment.
SendFresh(k) ==
    LET xacts == connects[k][firing[k]]
        amount == [x \in Xacts |-> IF x \in DOMAIN xacts THEN xacts[x] ELSE 0]
        lines == [x \in Xacts |-> IF x \in DOMAIN xacts THEN 1 ELSE 0]
    IN
    /\ firing[k] > 0 /\ req[k] = Idle
    /\ req' = [req EXCEPT ![k] = Request("card", amount, lines, 0, last_xact_id)]
    /\ UNCHANGED <<accounts, taken, unrecorded, unreported, recorded, faults, kioskvars>>

\* sendCCPayment
Send(k) ==
    LET xacts == connects[k][firing[k]]
        amount == [x \in Xacts |-> IF x \in DOMAIN xacts THEN xacts[x] ELSE 0]
        lines == [x \in Xacts |-> IF x \in DOMAIN xacts THEN 1 ELSE 0]
    IN
    /\ firing[k] > 0 /\ req[k] = Idle
    /\ req' = [req EXCEPT ![k] = Request("card", amount, lines, 0, known[k])]
    /\ UNCHANGED <<accounts, taken, unrecorded, unreported, recorded, faults, kioskvars>>

\* onPaymentSubmit: the new last_xact_id is taken over and a receipt asked for; an
\* event or a lost answer leaves the page as it is.
Answered(k) ==
    /\ req[k].at = "done"
    /\ req' = [req EXCEPT ![k] = Idle]
    /\ firing' = [firing EXCEPT ![k] = IF @ < Len(connects[k]) THEN @ + 1 ELSE 0]
    /\ \/ /\ req[k].result = "SUCCESS"
          /\ known' = [known EXCEPT ![k] = req[k].xid]
          /\ receipts' = [receipts EXCEPT ![k] = @ + 1]
          /\ UNCHANGED faults
       \/ /\ req[k].result # "SUCCESS"
          /\ UNCHANGED <<known, receipts, faults>>
       \/ /\ faults < MaxFaults /\ faults' = faults + 1
          /\ UNCHANGED <<known, receipts>>
    /\ UNCHANGED <<accounts, taken, unrecorded, unreported, recorded, page, fines, selected, loading,
                   connects, logins>>

\* The receipt arrives, or the server could not make it.  (Receipts wait for a
\* list on its way: the rows of two lists at once are left out.)
ReceiptIn(k) ==
    /\ receipts[k] > 0 /\ firing[k] = 0 /\ loading[k] = NoList
    /\ receipts' = [receipts EXCEPT ![k] = @ - 1]
    /\ \/ DrawFines(k)
       \/ ReceiptFails /\ UNCHANGED <<page, fines, selected, loading>>
    /\ UNCHANGED <<moneyvars, known, connects, firing, logins>>

\* A bill at a desk.
Elsewhere == \E x \in Xacts : Bill(x, 1) /\ UNCHANGED <<recorded, kioskvars>>

Kiosk(k) ==
    \/ Login(k) \/ Logout(k) \/ ViewFines(k) \/ FinesIn(k) \/ Select(k) \/ PayPage(k)
    \/ Home(k) \/ Submit(k) \/ Send(k) \/ Answered(k) \/ ReceiptIn(k)

Next ==
    \/ \E k \in Clients : Kiosk(k)
    \/ \E k \in Clients : Pay(k) /\ UNCHANGED kioskvars
    \/ Elsewhere

Spec == Init /\ [][Next]_vars

-----------------------------------------------------------------------------
(* Correctness *)

\* No payment at a station exceeds what is owed, however old its list is, and
\* though a payment at another place came between (PaysWhatIsDue).
PaysWhatIsOwed == [][PaysWhatIsDue]_vars
=============================================================================
