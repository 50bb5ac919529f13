------------------------------- MODULE Money -------------------------------
(***************************************************************************)
(* What one patron owes and pays, as Money.pm keeps it: the billings of    *)
(* every transaction, the payments made on it, the patron's credit, and    *)
(* last_xact_id, the mark every update of the patron's row renews.         *)
(*                                                                         *)
(* A payment works in two database transactions.  The first (Check)        *)
(* compares the client's last_xact_id with the patron's, reads the         *)
(* balances and the patron, and is rolled back; a credit card is charged   *)
(* between the two; the second (Record) writes what the balances read by   *)
(* the first one call for.  Nothing is held between the two.               *)
(*                                                                         *)
(* Amounts are whole units.  Penalties, notes, permissions and back-dating *)
(* (which voids fines) are left out.                                       *)
(*                                                                         *)
(* Payment types: "cash" stands for all that is handed over at the desk,   *)
(* "card" for a card this server has charged, "approved" for one that was  *)
(* charged elsewhere before the request (its approval code is recorded),   *)
(* "credit" for the patron's own.                                          *)
(***************************************************************************)
EXTENDS Integers, FiniteSets, Functions

CONSTANTS
    Clients,     \* who sends payments: the bill windows
    Xacts,       \* the patron's billable transactions, numbers in list order
    Circs,       \* those that are circulations, still out at the start
    Opening,     \* [Xacts -> 0..MaxBilled]: what is billed at the start
    Overlap,     \* other calls may reach the server while one payment is made
    MaxBilled,   \* bound: what may be billed on one transaction
    MaxVersion,  \* bound: how often last_xact_id is renewed
    MaxFaults    \* bound: failures to record, lost requests and answers

ASSUME MoneyAssumption ==
    /\ Xacts \subseteq Nat /\ Circs \subseteq Xacts
    /\ IsFiniteSet(Clients) /\ IsFiniteSet(Xacts)
    /\ Opening \in [Xacts -> 0..MaxBilled]
    /\ Overlap \in BOOLEAN
    /\ MaxBilled \in Nat /\ MaxVersion \in Nat /\ MaxFaults \in Nat

VARIABLES
    billed,        \* [Xacts -> Int]: the billings that are not voided
    paid,          \* [Xacts -> Int]: all payments
    desk,          \* [Xacts -> Int]: those made at the desk, not from credit
    finished,      \* transactions with xact_finish
    stopped,       \* circulations with stop_fines
    out,           \* circulations without checkin_time
    overdue,       \* those the fine generator has listed and not come to
    credit,        \* credit_forward_balance
    last_xact_id,
    req,           \* [Clients -> request of this client, or Idle]
    taken,         \* history: cash received and cards charged, less what went back
    unrecorded,    \* history: charged, and reported as SUCCESS_WO_RECORD
    unreported,    \* history: received, not recorded, and not so reported
    late,          \* history: fined after their fines had stopped
    recorded,      \* history: [Clients -> how often the form's payment was recorded]
    faults

moneyvars == <<billed, paid, desk, finished, stopped, out, overdue, credit, last_xact_id,
               req, taken, unrecorded, unreported, late, recorded, faults>>
\* Loans, and what the fine generator does with them.
loans == <<stopped, out, overdue, late>>
accounts == <<billed, paid, desk, finished, loans, credit, last_xact_id>>

Balance(x) == billed[x] - paid[x]
Balances == [x \in Xacts |-> Balance(x)]
Owing == {x \in Xacts : Balance(x) # 0}
CircOpen(x) == x \in Circs \ stopped

NoPay == [x \in Xacts |-> 0]
Idle == [at |-> "idle"]

\* pay is the amount on each line, times how many lines the transaction has.
Request(type, pay, times, change, xid) ==
    [at |-> "asked", type |-> type, pay |-> pay, times |-> times, change |-> change,
     xid |-> xid, bal |-> NoPay, credit |-> 0, result |-> "none"]

\* What is paid on each transaction, and in all.
Paying(r) == [x \in Xacts |-> r.pay[x] * r.times[x]]
Total(r) == SumFunction(Paying(r))
Lines(r) == {x \in Xacts : r.times[x] > 0}

MoneyInit ==
    /\ billed = Opening
    /\ paid = NoPay /\ desk = NoPay
    /\ finished = {x \in Xacts \ Circs : Opening[x] = 0}
    /\ stopped = {} /\ out = Circs /\ overdue = {} /\ late = {}
    /\ credit = 0 /\ last_xact_id = 0
    /\ req = [c \in Clients |-> Idle]
    /\ taken = 0
    /\ unrecorded = 0 /\ unreported = 0
    /\ recorded = [c \in Clients |-> 0]
    /\ faults = 0

\* No payment is between its two transactions.
Quiet == Overlap \/ \A c \in Clients : req[c].at \notin {"checked", "charged"}

Done(c, result) ==
    req' = [req EXCEPT ![c].at = "done", ![c].result = result]

\* What changes hands at the desk for a request, or from a card.
Received(r) ==
    CASE r.type \in {"cash", "approved"} -> Total(r) + r.change
      [] r.type = "credit" -> r.change
      [] r.type = "card" -> Total(r)

\* What was received before the request was made.  (Each request paid with an
\* approved card stands for a charge of its own.)
Beforehand(r) == IF r.type = "approved" /\ Received(r) > 0 THEN Received(r) ELSE 0

\* Request c comes to nothing.  Staff keep or give back what lies on the desk.
Fails(c, result) ==
    /\ Done(c, result)
    /\ taken' = taken + Beforehand(req[c])

-----------------------------------------------------------------------------
(* make_payments *)

\* A refund may neither leave money owing nor exceed what was paid at the desk.
Refundable(r) ==
    \A x \in Lines(r) : r.pay[x] < 0 =>
        /\ r.type \notin {"card", "approved"}
        /\ Balance(x) - r.pay[x] <= 0
        /\ -r.pay[x] <= desk[x]

Version(r) == r.xid = last_xact_id

Check(c) ==
    LET r == req[c] IN
    /\ r.at = "asked" /\ Quiet
    /\ \/ /\ ~(Version(r) /\ Refundable(r))
          /\ Fails(c, IF Version(r) THEN "REFUSED" ELSE "INVALID_USER_XACT_ID")
          /\ unreported' = unreported + Beforehand(r)
       \/ /\ Version(r) /\ Refundable(r)
          /\ req' = [req EXCEPT ![c].at = "checked", ![c].bal = Balances, ![c].credit = credit]
          /\ UNCHANGED <<taken, unreported>>
    /\ UNCHANGED <<accounts, unrecorded, recorded, faults>>

\* The processor takes the money, or declines: "amount" => $total_paid.
Charge(c) ==
    /\ req[c].at = "checked" /\ req[c].type = "card"
    /\ \/ /\ req' = [req EXCEPT ![c].at = "charged"]
          /\ taken' = taken + Total(req[c])
       \/ Done(c, "DECLINED") /\ UNCHANGED taken
    /\ UNCHANGED <<accounts, unrecorded, unreported, recorded, faults>>

\* The second transaction may be opened.
Prepared(r) == r.at = "charged" \/ (r.at = "checked" /\ r.type # "card")

\* Each line is set against the balance the first transaction read.
Overpaid(r) ==
    SumFunction([x \in Xacts |->
        IF r.pay[x] >= r.bal[x] THEN (r.pay[x] - r.bal[x]) * r.times[x] ELSE 0])

\* Mutant of CreditOf: a payment from credit does not use it up.
CreditOfFree(r) == r.change + Overpaid(r)

\* What the payment does to the patron's credit.
CreditOf(r) == r.change + Overpaid(r) - IF r.type = "credit" THEN Total(r) ELSE 0

\* Mutant of Closes: a circulation that is still out is closed too.
ClosesLoans(r) == {x \in Lines(r) : r.bal[x] - r.pay[x] <= 0}

\* "update the transaction if it's done"
Closes(r) == {x \in Lines(r) : r.bal[x] - r.pay[x] <= 0 /\ ~CircOpen(x)}

\* Mutant of Renews: the patron is written only when the credit has changed.
RenewsWithCredit(r) == IF CreditOf(r) # 0 THEN last_xact_id + 1 ELSE last_xact_id

\* update_actor_user, "to create a new last_xact_id"
Renews(r) == last_xact_id + 1

Record(c) ==
    LET r == req[c] IN
    /\ Prepared(r)
    /\ r.credit + CreditOf(r) >= 0
    /\ paid' = [x \in Xacts |-> paid[x] + Paying(r)[x]]
    /\ desk' = [x \in Xacts |-> desk[x] + IF r.type = "credit" THEN 0 ELSE Paying(r)[x]]
    /\ finished' = finished \union Closes(r)
    /\ credit' = r.credit + CreditOf(r)
    /\ last_xact_id' = Renews(r)
    /\ taken' = taken + IF r.type = "card" THEN 0 ELSE Received(r)
    /\ recorded' = [recorded EXCEPT ![c] = @ + 1]
    /\ req' = [req EXCEPT ![c].at = "done", ![c].result = "SUCCESS", ![c].xid = Renews(r)]
    /\ UNCHANGED <<billed, loans, unrecorded, unreported, faults>>

Fault == faults < MaxFaults /\ faults' = faults + 1

\* _recording_failure: NEGATIVE_PATRON_BALANCE, or the database refuses.
RecordingFails(c) ==
    LET r == req[c] IN
    /\ Prepared(r)
    /\ \/ r.credit + CreditOf(r) < 0 /\ UNCHANGED faults
       \/ Fault
    /\ unrecorded' = unrecorded + IF r.type = "card" THEN Total(r) ELSE 0
    /\ unreported' = unreported + Beforehand(r)
    /\ Fails(c, IF r.type = "card" THEN "SUCCESS_WO_RECORD" ELSE "FAILED")
    /\ UNCHANGED <<accounts, recorded>>

\* The patron cannot be updated at the end: a plain event, whatever was charged.
UpdateFails(c) ==
    LET r == req[c] IN
    /\ Prepared(r) /\ Fault
    /\ unreported' = unreported + IF r.type = "card" THEN Total(r) ELSE Beforehand(r)
    /\ Fails(c, "FAILED")
    /\ UNCHANGED <<accounts, unrecorded, recorded>>

\* A last_xact_id that never was the patron's.
NeverCurrent == -1

\* The commit fails, which nobody looks at.
CommitFails(c) ==
    LET r == req[c] IN
    /\ Prepared(r) /\ Fault
    /\ r.credit + CreditOf(r) >= 0
    /\ taken' = taken + IF r.type = "card" THEN 0 ELSE Received(r)
    /\ unreported' = unreported + Received(r)
    /\ req' = [req EXCEPT ![c].at = "done", ![c].result = "SUCCESS", ![c].xid = NeverCurrent]
    /\ UNCHANGED <<accounts, unrecorded, recorded>>

Pay(c) == Check(c) \/ Charge(c) \/ Record(c) \/ RecordingFails(c) \/ UpdateFails(c) \/ CommitFails(c)

-----------------------------------------------------------------------------
(* Billings *)

\* _check_open_xact, when b is billed on x.
CheckOpen(x, b) ==
    finished' = IF b # paid[x] THEN finished \ {x}
                ELSE IF CircOpen(x) THEN finished ELSE finished \union {x}

NoPayment ==
    UNCHANGED <<paid, desk, credit, last_xact_id, req, taken, unrecorded, unreported, faults>>

\* billing_items_create
Bill(x, amount) ==
    /\ Quiet
    /\ billed[x] + amount <= MaxBilled
    /\ billed' = [billed EXCEPT ![x] = @ + amount]
    /\ CheckOpen(x, billed[x] + amount)
    /\ NoPayment /\ UNCHANGED loans

\* void_bill, of all the billings of x.
Void(x) ==
    /\ Quiet
    /\ billed[x] > 0
    /\ billed' = [billed EXCEPT ![x] = 0]
    /\ CheckOpen(x, 0)
    /\ NoPayment /\ UNCHANGED loans

\* generate_fines: overdue_circs lists loans whose fines go on ...
ListOverdue(x) ==
    /\ CircOpen(x) /\ x \notin overdue
    /\ overdue' = overdue \union {x}
    /\ NoPayment /\ UNCHANGED <<billed, finished, stopped, out, late>>

\* ... and each is fined as it was listed, up to its maximum (MAXFINES).  Nothing
\* opens or closes the transaction.
Fine(x, amount, maxed) ==
    /\ Quiet
    /\ x \in overdue
    /\ billed[x] + amount <= MaxBilled
    /\ overdue' = overdue \ {x}
    /\ billed' = [billed EXCEPT ![x] = @ + amount]
    /\ stopped' = IF maxed THEN stopped \union {x} ELSE stopped
    /\ late' = IF amount > 0 /\ ~CircOpen(x) THEN late \union {x} ELSE late
    /\ NoPayment /\ UNCHANGED <<finished, out>>

\* set_circ_claims_returned: the loan stays out.
StopFines(x) ==
    /\ Quiet
    /\ x \in out
    /\ stopped' = stopped \union {x}
    /\ NoPayment /\ UNCHANGED <<billed, finished, out, overdue, late>>

\* checkin_handle_circ: "see if there are any fines owed on this circ.  if not,
\* close it"
Return(x) ==
    /\ Quiet /\ x \in out
    /\ out' = out \ {x}
    /\ stopped' = stopped \union {x}
    /\ finished' = IF Balance(x) = 0 THEN finished \union {x} ELSE finished
    /\ NoPayment /\ UNCHANGED <<billed, overdue, late>>

\* What befalls a loan at another desk, or as its fines are reckoned.
Befalls(x) ==
    \/ ListOverdue(x) \/ StopFines(x) \/ Return(x)
    \/ \E amount \in {0, 1}, maxed \in BOOLEAN : Fine(x, amount, maxed)

-----------------------------------------------------------------------------
(* Correctness, of every client of make_payments *)

\* What a card was charged for and the second transaction has not written yet.
Charging == [c \in Clients |-> IF req[c].at = "charged" THEN Total(req[c]) ELSE 0]

\* What was received, at the desk or from a card, is to the unit on the patron's
\* transactions or in the patron's credit (make_payments, "Any overpay on this
\* transaction goes directly into patron credit"), or it was reported as charged
\* and not recorded, or it is lost without a report: the patron could not be
\* updated at the end, the commit failed, or the card was approved elsewhere.
\* Nothing else makes or loses money.
MoneyBalances ==
    taken = SumFunction(paid) + credit + unrecorded + unreported + SumFunction(Charging)

\* No payment brings what was paid on a transaction above what is billed on it,
\* and no refund below it, however old the list was that staff acted on
\* (distribute_payment, and the comparison of last_xact_id in make_payments).
PaysWhatIsDue ==
    \A x \in Xacts :
        /\ paid'[x] > paid[x] => paid'[x] <= billed[x]
        /\ paid'[x] < paid[x] => paid'[x] >= billed[x]

\* Whichever of payment, bill, void, fine, claim and checkin came last: a closed
\* transaction is settled and gets no more fines, and a settled one is closed
\* unless it is a loan that is still out, which a payment closes if its fines have
\* stopped and nothing else does (make_payments, _check_open_xact,
\* checkin_handle_circ, generate_fines).  Loans fined late are excepted.
ClosedIffSettled ==
    \A x \in Xacts \ late :
        /\ x \in finished => Balance(x) = 0 /\ ~CircOpen(x)
        /\ Balance(x) = 0 /\ x \notin out => x \in finished

=============================================================================
