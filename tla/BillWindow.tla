----------------------------- MODULE BillWindow -----------------------------
(***************************************************************************)
(* The staff client's bill windows (bill2.js) on the account of one        *)
(* patron (Money).  A window shows one row per transaction that had a      *)
(* balance when it last read the list; each row asks for its details when  *)
(* a timer appends it, and the balance comes with the answer.  The         *)
(* patron's last_xact_id, which guards a payment, is read beside the list, *)
(* asynchronously, and is read again on its own when bills are printed or  *)
(* an amount is to be paid from credit.                                    *)
(*                                                                         *)
(* bill_map and check_map are never cleared: a row that comes back shows   *)
(* what was last known of it until its new details arrive.                 *)
(***************************************************************************)
EXTENDS Money, Sequences

CONSTANTS
    Types,       \* payment types in use
    Amounts,     \* what staff type in the payment box
    Rereads,     \* staff print or turn to credit over a list from before a payment
    Voids,       \* bound: transactions whose bills staff void
    CardChange,  \* staff turn the change of a card payment into credit
    Patient,     \* staff wait until the list is complete
    InOrder,     \* the server reads for one window in the order it asked
    MaxLost,     \* bound: unreported money before one more card approved elsewhere
    MaxRows      \* bound: rows on the screen or queued for one transaction

ASSUME BillAssumption ==
    /\ Types \subseteq {"cash", "credit", "card", "approved"}
    /\ Amounts \subseteq Nat
    /\ {Rereads, CardChange, Patient, InOrder} \subseteq BOOLEAN
    /\ Voids \subseteq Xacts
    /\ MaxRows \in Nat /\ MaxLost \in Nat

VARIABLES
    patron,      \* [Clients -> [xid, credit]]: g.patron
    asked,       \* [Clients -> set of patron records on their way]
    funcs,       \* [Clients -> [Xacts -> Nat]]: rows queued for the timer
    rows,        \* [Clients -> [Xacts -> Nat]]: rows in bill_list
    answers,     \* [Clients -> set of [x, bal]]: details on their way
    bill_map,    \* [Clients -> partial function Xacts -> Int]: balances known
    check_map,   \* [Clients -> SUBSET Xacts]: transactions that are checked
    pending,     \* [Clients -> [Xacts -> Int]]: payment_pending of their rows
    form         \* [Clients -> [type, amount]]: payment_type and payment

windowvars == <<patron, asked, funcs, rows, answers, bill_map, check_map, pending, form>>
vars == <<moneyvars, windowvars>>
screen == <<funcs, rows, answers, bill_map, check_map, pending>>

Patron == [xid |-> last_xact_id, credit |-> credit]
NotRead == [xid |-> -1, credit |-> 0]

Init ==
    /\ MoneyInit
    /\ patron = [w \in Clients |-> NotRead]
    /\ asked = [w \in Clients |-> {Patron}]
    /\ funcs = [w \in Clients |-> [x \in Xacts |-> IF x \in Owing THEN 1 ELSE 0]]
    /\ rows = [w \in Clients |-> NoPay]
    /\ answers = [w \in Clients |-> {}]
    /\ bill_map = [w \in Clients |-> <<>>]
    /\ check_map = [w \in Clients |-> {}]
    /\ pending = [w \in Clients |-> NoPay]
    /\ form = [w \in Clients |-> [type |-> "cash", amount |-> 0]]

Free(w) == req[w] = Idle

Complete(w) == funcs[w] = NoPay /\ answers[w] = {} /\ asked[w] = {}

\* simple_request blocks the window; a patient user also waits for the list.
Ready(w) == Free(w) /\ (Patient => Complete(w))

Shown(w) == {x \in Xacts : rows[w][x] > 0}

-----------------------------------------------------------------------------
(* Reading the patron and the list *)

\* refresh: what is queued already stays queued.  distribute_payment then finds
\* an empty list.
Refresh(w) ==
    /\ asked' = [asked EXCEPT ![w] = @ \union {Patron'}]
    /\ recorded' = [recorded EXCEPT ![w] = 0]
    /\ rows' = [rows EXCEPT ![w] = NoPay]
    /\ funcs' = [funcs EXCEPT ![w] = [x \in Xacts |-> @[x] + IF x \in Owing' THEN 1 ELSE 0]]
    /\ pending' = [pending EXCEPT ![w] = NoPay]
    /\ UNCHANGED <<answers, bill_map, check_map>>

\* refresh_patron is answered.
PatronIn(w) ==
    /\ \E p \in asked[w] :
          /\ patron' = [patron EXCEPT ![w] = IF InOrder THEN p ELSE Patron]
          /\ asked' = [asked EXCEPT ![w] = @ \ {p}]
    /\ UNCHANGED <<moneyvars, screen, form>>

\* Mutant of AppendRow: the row counts as checked before its details are there.
AppendChecked(w, x) ==
    /\ funcs[w][x] > 0 /\ rows[w][x] < MaxRows
    /\ funcs' = [funcs EXCEPT ![w][x] = @ - 1]
    /\ rows' = [rows EXCEPT ![w][x] = @ + 1]
    /\ pending' = [pending EXCEPT ![w][x] = 0]
    /\ answers' = [answers EXCEPT ![w] = @ \union {[x |-> x, bal |-> Balance(x)]}]
    /\ check_map' = [check_map EXCEPT ![w] = @ \union {x}]
    /\ UNCHANGED <<moneyvars, patron, asked, bill_map, form>>

\* The timer runs a queued function: gen_list_append_func, then retrieve_row
\* asks for the details.
AppendRow(w, x) ==
    /\ funcs[w][x] > 0 /\ rows[w][x] < MaxRows
    /\ funcs' = [funcs EXCEPT ![w][x] = @ - 1]
    /\ rows' = [rows EXCEPT ![w][x] = @ + 1]
    /\ pending' = [pending EXCEPT ![w][x] = 0]
    /\ answers' = [answers EXCEPT ![w] = @ \union {[x |-> x, bal |-> Balance(x)]}]
    /\ UNCHANGED <<moneyvars, patron, asked, bill_map, check_map, form>>

\* The details of a row arrive; refunds are not checked.
DetailsIn(w) ==
    /\ \E a \in answers[w] :
          /\ answers' = [answers EXCEPT ![w] = @ \ {a}]
          /\ bill_map' = [bill_map EXCEPT ![w] =
                [x \in DOMAIN @ \union {a.x} |-> IF x = a.x THEN a.bal ELSE @[x]]]
          /\ check_map' = [check_map EXCEPT ![w] =
                IF a.bal < 0 THEN @ \ {a.x} ELSE @ \union {a.x}]
    /\ UNCHANGED <<moneyvars, patron, asked, funcs, rows, pending, form>>

-----------------------------------------------------------------------------
(* Filling in the form *)

\* The rows in list order.  Those of one transaction share their figures: the last
\* one's stay.
RowSeq(w) ==
    LET Before(x) == SumFunction([y \in Xacts |-> IF y < x THEN rows[w][y] ELSE 0])
    IN  [i \in 1..SumFunction(rows[w]) |->
            CHOOSE x \in Shown(w) : Before(x) < i /\ i <= Before(x) + rows[w][x]]

\* Mutant of Share: everything left goes to the first checked row.
ShareAll(bal, left) == left

Share(bal, left) == IF bal > left THEN left ELSE bal

\* What is left of the amount after each row, if row x takes Part(x, left).
Lefts(seq, amount, Part(_, _)) ==
    LET left[i \in 0..Len(seq)] ==
            IF i = 0 THEN amount ELSE left[i - 1] - Part(seq[i], left[i - 1])
    IN  left

Distribution(w, amount, checked, known) ==
    LET seq == RowSeq(w)
        Part(x, left) == IF x \in checked THEN Share(known[x], left) ELSE 0
        left == Lefts(seq, amount, Part)
        last(x) == CHOOSE i \in 1..Len(seq) :
                       seq[i] = x /\ \A j \in 1..Len(seq) : seq[j] = x => j <= i
    IN  [x \in Xacts |-> IF x \in Shown(w) THEN Part(x, left[last(x) - 1]) ELSE 0]

\* A form that is filled in anew is a payment of its own.
Redistribute(w, amount, checked) ==
    /\ pending' = [pending EXCEPT ![w] = Distribution(w, amount, checked, bill_map[w])]
    /\ recorded' = [recorded EXCEPT ![w] = 0]

\* The server's variables but recorded.
served == <<accounts, req, taken, unrecorded, unreported, faults>>

Smaller(a, b) == IF a < b THEN a ELSE b

\* Printing and paying from credit read the patron again and leave the list.
MayReread(w) == Rereads \/ patron[w].xid = last_xact_id

\* The amount is typed.  To pay from credit the patron is read again, at once.
Tender(w, type, amount) ==
    LET credited == type = "credit"
        most == IF credited THEN Smaller(amount, credit) ELSE amount
    IN
    /\ Ready(w) /\ (credited => MayReread(w))
    /\ patron' = IF credited THEN [patron EXCEPT ![w] = Patron] ELSE patron
    /\ form' = [form EXCEPT ![w] = [type |-> type, amount |-> most]]
    /\ Redistribute(w, most, check_map[w])
    /\ UNCHANGED <<served, asked, funcs, rows, answers, bill_map, check_map>>

Recheck(w, checked) ==
    /\ Ready(w)
    /\ check_map' = [check_map EXCEPT ![w] = checked]
    /\ Redistribute(w, form[w].amount, checked)
    /\ UNCHANGED <<served, patron, asked, funcs, rows, answers, bill_map, form>>

Known(w) == DOMAIN bill_map[w]

\* A click on the checkbox of a row whose details are there.
Click(w) == \E x \in Shown(w) \cap Known(w) :
    Recheck(w, IF x \in check_map[w] THEN check_map[w] \ {x} ELSE check_map[w] \union {x})

CheckAll(w) == Recheck(w, Known(w))
UncheckAll(w) == Recheck(w, {})
CheckAllRefunds(w) == Recheck(w, check_map[w] \union {x \in Known(w) : bill_map[w][x] < 0})

\* The checkbox in the header changes the checks and does not distribute again.
ToggleAll(w) ==
    /\ Ready(w) /\ Shown(w) \subseteq Known(w)
    /\ \E on \in BOOLEAN :
          check_map' = [check_map EXCEPT ![w] =
                           IF on THEN @ \union Shown(w) ELSE @ \ Shown(w)]
    /\ recorded' = [recorded EXCEPT ![w] = 0]
    /\ UNCHANGED <<served, patron, asked, funcs, rows, answers, bill_map, pending, form>>

\* print_bills
PrintBills(w) ==
    /\ Ready(w) /\ MayReread(w)
    /\ patron' = [patron EXCEPT ![w] = Patron]
    /\ UNCHANGED <<moneyvars, asked, screen, form>>

-----------------------------------------------------------------------------
(* Paying *)

\* tally_pending: one line for every row that is checked.
Lined(w) == [x \in Xacts |->
    IF x \in check_map[w] /\ pending[w][x] # 0 THEN rows[w][x] ELSE 0]

\* apply_payment and pay, up to the request.
Apply(w) ==
    LET lines == Lined(w)
        paying == [x \in Xacts |-> pending[w][x] * lines[x]]
        change == form[w].amount - SumFunction(paying)
    IN
    /\ Ready(w) /\ patron[w] # NotRead
    /\ last_xact_id + Cardinality({c \in Clients : ~Free(c)}) < MaxVersion
    /\ \E convert \in BOOLEAN :
          LET type == form[w].type
              kept == CASE type = "credit" /\ convert -> 0
                        [] type = "credit" /\ ~convert -> -change
                        [] type # "credit" /\ convert -> change
                        [] OTHER -> 0
          IN
          /\ type \in {"card", "approved"} /\ convert => CardChange
          /\ type = "approved" => unreported <= MaxLost
          /\ lines # NoPay \/ kept # 0
          /\ req' = [req EXCEPT ![w] =
                        Request(type, pending[w], lines, kept, patron[w].xid)]
    /\ UNCHANGED <<accounts, taken, unrecorded, unreported, recorded, faults, windowvars>>

\* The request or its answer is lost; the window says "Bill payment likely failed"
\* and stays as it is.
Lose(w) ==
    LET charged == IF req[w].at = "asked" THEN Beforehand(req[w]) ELSE 0 IN
    /\ req[w].at \in {"asked", "done"} /\ Fault
    /\ req' = [req EXCEPT ![w] = Idle]
    /\ taken' = taken + charged
    /\ unreported' = unreported + charged
    /\ UNCHANGED <<accounts, unrecorded, recorded, windowvars>>

\* The answer: a payment made empties the box; it and a stale patron refresh the
\* window; any other event leaves it as it is.
Answer(w) ==
    LET result == req[w].result IN
    /\ req[w].at = "done"
    /\ req' = [req EXCEPT ![w] = Idle]
    /\ form' = [form EXCEPT ![w].amount = IF result = "SUCCESS" THEN 0 ELSE @]
    /\ UNCHANGED <<accounts, taken, unrecorded, unreported, faults, patron>>
    /\ IF result \in {"SUCCESS", "INVALID_USER_XACT_ID"}
       THEN Refresh(w)
       ELSE UNCHANGED <<asked, screen, recorded>>

-----------------------------------------------------------------------------
(* Bills *)

\* handle_void_all, of one selected row.
VoidAll(w) ==
    /\ Ready(w)
    /\ \E x \in Shown(w) \cap Voids : Void(x)
    /\ Refresh(w)
    /\ UNCHANGED <<patron, form>>

\* handle_add, of one selected row.
Add(w) ==
    /\ Ready(w)
    /\ \E x \in Shown(w) : Bill(x, 1)
    /\ Refresh(w)
    /\ UNCHANGED <<patron, form>>

\* The bill wizard, for a new transaction: its row is queued and nothing is read again.
BillPatron(w) ==
    /\ Ready(w)
    /\ \E x \in Xacts \ Circs :
          /\ billed[x] = 0 /\ paid[x] = 0
          /\ \A v \in Clients : funcs[v][x] + rows[v][x] = 0
          /\ Bill(x, 1)
          /\ funcs' = [funcs EXCEPT ![w][x] = @ + 1]
    /\ UNCHANGED <<recorded, patron, asked, rows, answers, bill_map, check_map, pending, form>>

\* The fine generator, and claims and checkins at another desk.
Elsewhere(x) == Befalls(x) /\ UNCHANGED recorded

-----------------------------------------------------------------------------
Window(w) ==
    \/ PatronIn(w) \/ DetailsIn(w) \/ \E x \in Xacts : AppendRow(w, x)
    \/ \E type \in Types, amount \in Amounts : Tender(w, type, amount)
    \/ Click(w) \/ CheckAll(w) \/ UncheckAll(w) \/ CheckAllRefunds(w) \/ ToggleAll(w)
    \/ PrintBills(w) \/ Apply(w) \/ Lose(w) \/ Answer(w)
    \/ VoidAll(w) \/ Add(w) \/ BillPatron(w)

Next ==
    \/ \E w \in Clients : Window(w)
    \/ \E c \in Clients : Pay(c) /\ UNCHANGED windowvars
    \/ \E x \in Xacts : Elsewhere(x) /\ UNCHANGED windowvars

Spec == Init /\ [][Next]_vars

-----------------------------------------------------------------------------
(* Correctness *)

\* Every variable keeps its type; nobody has a negative credit.
TypeOK ==
    /\ billed \in [Xacts -> 0..MaxBilled]
    /\ paid \in [Xacts -> Int] /\ desk \in [Xacts -> Int]
    /\ finished \subseteq Xacts
    /\ stopped \subseteq Circs /\ out \subseteq Circs /\ overdue \subseteq Circs
    /\ credit \in Nat /\ last_xact_id \in 0..MaxVersion
    /\ recorded \in [Clients -> Nat] /\ faults \in 0..MaxFaults
    /\ \A w \in Clients :
          /\ funcs[w] \in [Xacts -> Nat] /\ rows[w] \in [Xacts -> 0..MaxRows]
          /\ check_map[w] \subseteq Known(w)
          /\ pending[w] \in [Xacts -> Int] /\ form[w].amount \in Nat

\* No step of the windows or the server pays or refunds too much (PaysWhatIsDue).
PaysWhatIsOwed == [][PaysWhatIsDue]_vars

\* A form that is sent again as it was, after a lost answer or an error, is
\* recorded once (last_xact_id in make_payments and pay).
RecordedOnce == \A w \in Clients : recorded[w] <= 1
=============================================================================
