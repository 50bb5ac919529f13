-------------------------- MODULE SelfPaymentProofs --------------------------
(***************************************************************************)
(* Proofs about SelfPayment: what a station charges was owed, for any      *)
(* number of stations, charges, bills and failures, and any number of      *)
(* sessions, as long as the payment page is drawn once in a session.       *)
(***************************************************************************)
EXTENDS SelfPayment, MoneyProofs

\* Payments come one at a time at the server, the patron turns to the payment page
\* once in a session, and the server makes every receipt.
Single == ~Overlap /\ MaxDrawn <= 1 /\ ~ReceiptFails

Maps == UNION {[S -> Int] : S \in SUBSET Xacts}
Connections == {<<>>} \union {<<L>> : L \in Maps}

KioskTypes ==
    /\ page \in [Clients -> {"login", "checkout", "fines", "payment"}]
    /\ known \in [Clients -> Int]
    /\ fines \in [Clients -> Maps]
    /\ selected \in [Clients -> SUBSET Xacts]
    /\ loading \in [Clients -> Maps \union {NoList}]
    /\ connects \in [Clients -> Connections]
    /\ firing \in [Clients -> {0, 1}]
    /\ receipts \in [Clients -> {0, 1}]

\* All of a list is owed.
Owed(L) == \A x \in DOMAIN L : L[x] # 0 /\ L[x] <= Balance(x)

Held(k) ==
    /\ Owed(fines[k])
    /\ loading[k] # NoList => Owed(loading[k])
    /\ page[k] = "payment" => Owed(connects[k][1])

\* What a station holds is owed as long as it knows the present mark.  After a
\* payment it takes over the new one before it has a new list, but can do nothing
\* until that has come, and does not come back to the payment page.
Stage(k) ==
    /\ selected[k] \subseteq DOMAIN fines[k]
    /\ known[k] <= last_xact_id
    /\ req[k] # Idle => firing[k] = 1 /\ req[k].xid <= last_xact_id
    /\ firing[k] = 1 => page[k] = "payment" /\ receipts[k] = 0 /\ loading[k] = NoList
    /\ loading[k] # NoList => receipts[k] = 0
    /\ receipts[k] = 1 => connects[k] # <<>>
    /\ page[k] = "payment" => connects[k] # <<>>
    /\ page[k] = "login" => fines[k] = <<>> /\ connects[k] = <<>> /\ loading[k] = NoList
    /\ known[k] = last_xact_id /\ receipts[k] = 0 => Held(k)

NoneOverpaid == \A x \in Xacts : Balance(x) >= 0

IInv == MoneyTypes /\ PayInv /\ NoneOverpaid /\ KioskTypes /\ \A k \in Clients : Stage(k)

-----------------------------------------------------------------------------
(* Stations a step does not touch *)

\* Balances fall only when a payment renews the mark.
Later ==
    /\ last_xact_id' \in Int /\ last_xact_id' >= last_xact_id
    /\ last_xact_id' = last_xact_id => \A x \in Xacts : Balance(x)' >= Balance(x)

Untouched(k) ==
    /\ page'[k] = page[k] /\ known'[k] = known[k] /\ fines'[k] = fines[k]
    /\ selected'[k] = selected[k] /\ loading'[k] = loading[k] /\ connects'[k] = connects[k]
    /\ firing'[k] = firing[k] /\ receipts'[k] = receipts[k]

LEMMA OwedLater ==
    ASSUME MoneyTypes, MoneyTypes', NEW L \in Maps, Owed(L), Later, last_xact_id' = last_xact_id
    PROVE  Owed(L)'
<1>1. DOMAIN L \subseteq Xacts /\ \A x \in DOMAIN L : L[x] \in Int
  BY DEF Maps
<1>2. \A x \in Xacts : Balance(x) \in Int /\ Balance(x)' \in Int /\ Balance(x)' >= Balance(x)
  BY DEF MoneyTypes, Balance, Later
<1>3. ASSUME NEW x \in DOMAIN L PROVE L[x] # 0 /\ L[x] <= Balance(x)'
  <2>1. L[x] # 0 /\ L[x] <= Balance(x)
    BY DEF Owed
  <2>2. QED
    BY <1>1, <1>2, <2>1
<1>4. QED
  BY <1>3 DEF Owed

LEMMA KnownMaps ==
    ASSUME KioskTypes, NEW k \in Clients
    PROVE  /\ fines[k] \in Maps /\ (loading[k] # NoList => loading[k] \in Maps)
           /\ connects[k] # <<>> => connects[k][1] \in Maps /\ Len(connects[k]) = 1
           /\ connects[k] = <<>> => Len(connects[k]) = 0
<1>1. connects[k] \in Connections
  BY DEF KioskTypes
<1>2. connects[k] # <<>> => \E L \in Maps : connects[k] = <<L>>
  BY <1>1 DEF Connections
<1>3. ASSUME connects[k] # <<>>
      PROVE  connects[k][1] \in Maps /\ Len(connects[k]) = 1
  <2>1. PICK L \in Maps : connects[k] = <<L>>
    BY <1>2, <1>3
  <2>2. <<L>>[1] = L /\ Len(<<L>>) = 1
    OBVIOUS
  <2>3. QED
    BY <2>1, <2>2
<1>4. connects[k] = <<>> => Len(connects[k]) = 0
  OBVIOUS
<1>5. QED
  BY <1>3, <1>4 DEF KioskTypes

LEMMA HeldLater ==
    ASSUME MoneyTypes, MoneyTypes', KioskTypes, NEW k \in Clients, Stage(k), Held(k),
           Untouched(k), Later, last_xact_id' = last_xact_id
    PROVE  Held(k)'
<1>1. \A L \in Maps : Owed(L) => Owed(L)'
  BY OwedLater
<1>2. /\ fines[k] \in Maps /\ (loading[k] # NoList => loading[k] \in Maps)
      /\ page[k] = "payment" => connects[k][1] \in Maps
  BY KnownMaps DEF Stage
<1>3. PICK F, G, C : F = fines[k] /\ G = loading[k] /\ C = connects[k][1]
  OBVIOUS
<1>4. /\ F \in Maps /\ (G # NoList => G \in Maps) /\ (page[k] = "payment" => C \in Maps)
      /\ Owed(F) /\ (G # NoList => Owed(G)) /\ (page[k] = "payment" => Owed(C))
  BY <1>2, <1>3 DEF Held
<1>5. F = fines'[k] /\ G = loading'[k] /\ C = connects'[k][1] /\ page'[k] = page[k]
  BY <1>3 DEF Untouched
<1>6. Owed(F)' /\ (G # NoList => Owed(G)') /\ (page[k] = "payment" => Owed(C)')
  BY <1>1, <1>4
<1>7. QED
  BY <1>5, <1>6 DEF Held, Owed

\* The station is not touched, but the server may have worked on its request.
LEMMA UntouchedKeeps ==
    ASSUME MoneyTypes, MoneyTypes', KioskTypes, NEW k \in Clients, Stage(k), Untouched(k),
           Later,
           req'[k] # Idle => req[k] # Idle /\ req'[k].xid <= last_xact_id'
    PROVE  Stage(k)'
<1>1. known[k] \in Int /\ last_xact_id \in Int
  BY DEF KioskTypes, MoneyTypes
<1>2. ASSUME known[k] = last_xact_id', receipts[k] = 0 PROVE Held(k)'
  <2>1. last_xact_id' = last_xact_id
    BY <1>1, <1>2 DEF Stage, Later
  <2>2. QED
    BY <1>1, <1>2, <2>1, HeldLater DEF Stage
<1>3. QED
  BY <1>1, <1>2 DEF Stage, Untouched, Later

-----------------------------------------------------------------------------
(* The server *)

LEMMA PayIsLater ==
    ASSUME IInv, NEW c \in Clients, Pay(c)
    PROVE  /\ Later /\ NoneOverpaid'
           /\ \A d \in Clients \ {c} : req'[d] = req[d]
           /\ req[c] # Idle /\ req'[c].xid <= last_xact_id'
<1>1. MoneyTypes /\ PayInv /\ last_xact_id \in Int
  BY DEF IInv, MoneyTypes
<1>2. req[c] # Idle => req[c] \in Requests /\ req[c].xid <= last_xact_id
  BY <1>1 DEF IInv, Stage, MoneyTypes
<1>3. ASSUME UNCHANGED accounts PROVE Later /\ NoneOverpaid' /\ last_xact_id' = last_xact_id
  <2>1. last_xact_id' = last_xact_id
        /\ \A x \in Xacts : Balance(x)' = Balance(x) /\ Balance(x) \in Int
    BY <1>1, <1>3, BalancesInt DEF accounts, Balance
  <2>2. QED
    BY <1>1, <2>1 DEF Later, NoneOverpaid, IInv
<1>4. ASSUME NEW result \in Results, Done(c, result), req[c] # Idle
      PROVE  /\ \A d \in Clients \ {c} : req'[d] = req[d]
             /\ req'[c].xid = req[c].xid
  <2>1. req' = [req EXCEPT ![c] = [[req[c] EXCEPT !.at = "done"] EXCEPT !.result = result]]
    BY <1>1, <1>4 DEF Done, MoneyTypes
  <2>2. req[c] \in Requests
    BY <1>2, <1>4
  <2>3. DEFINE s == [[req[c] EXCEPT !.at = "done"] EXCEPT !.result = result]
  <2>4. s.xid = req[c].xid
    BY <2>2 DEF Requests
  <2>5. req'[c] = s /\ \A d \in Clients \ {c} : req'[d] = req[d]
    BY <1>1, <2>1 DEF MoneyTypes
  <2>6. HIDE DEF s
  <2>7. QED
    BY <2>4, <2>5
<1>5. CASE Check(c)
  <2>1. /\ req[c].at = "asked" /\ UNCHANGED accounts
        /\ \/ \E result \in Results : Done(c, result)
           \/ /\ req' = [req EXCEPT ![c] = Checked(req[c])]
              /\ Checked(req[c]) \in Requests
    BY <1>1, <1>5, CheckCases
  <2>2. req[c] # Idle
    BY <2>1 DEF Idle
  <2>3. CASE \E result \in Results : Done(c, result)
    BY <1>2, <1>3, <1>4, <2>1, <2>2, <2>3
  <2>4. CASE req' = [req EXCEPT ![c] = Checked(req[c])]
    <3>1. LET s == Checked(req[c])
          IN  s.xid = req[c].xid
      BY <1>2, <2>2 DEF Checked, Requests
    <3>2. req'[c] = Checked(req[c]) /\ \A d \in Clients \ {c} : req'[d] = req[d]
      BY <1>1, <2>4 DEF MoneyTypes
    <3>3. QED
      BY <1>2, <1>3, <2>1, <2>2, <3>1, <3>2
  <2>5. QED
    BY <2>1, <2>3, <2>4
<1>6. CASE Charge(c)
  <2>1. /\ req[c].at = "checked" /\ UNCHANGED accounts
        /\ \/ req' = [req EXCEPT ![c] = [req[c] EXCEPT !.at = "charged"]]
           \/ Done(c, "DECLINED")
    BY <1>1, <1>6, ChargeCases
  <2>2. req[c] # Idle /\ "DECLINED" \in Results
    BY <2>1 DEF Idle, Results
  <2>3. CASE Done(c, "DECLINED")
    BY <1>2, <1>3, <1>4, <2>1, <2>2, <2>3
  <2>4. CASE req' = [req EXCEPT ![c] = [req[c] EXCEPT !.at = "charged"]]
    <3>1. LET s == [req[c] EXCEPT !.at = "charged"]
          IN  s.xid = req[c].xid
      BY <1>2, <2>2 DEF Requests
    <3>2. req'[c] = [req[c] EXCEPT !.at = "charged"]
          /\ \A d \in Clients \ {c} : req'[d] = req[d]
      BY <1>1, <2>4 DEF MoneyTypes
    <3>3. QED
      BY <1>2, <1>3, <2>1, <2>2, <3>1, <3>2
  <2>5. QED
    BY <2>1, <2>3, <2>4
<1>7. CASE Failing(c)
  <2>1. Prepared(req[c]) /\ UNCHANGED accounts /\ \A d \in Clients \ {c} : req'[d] = req[d]
    BY <1>1, <1>7, FailCases
  <2>2. req[c] # Idle
    BY <2>1 DEF Prepared, Idle
  <2>3. CASE RecordingFails(c) \/ UpdateFails(c)
    <3>1. PICK result \in Results : Done(c, result)
      BY <2>3 DEF RecordingFails, UpdateFails, Fails, Results
    <3>2. QED
      BY <1>2, <1>3, <1>4, <2>1, <2>2, <3>1
  <2>4. CASE CommitFails(c)
    <3>1. PICK r : /\ req' = [req EXCEPT ![c] = r] /\ r.xid = NeverCurrent
      <4>1. [[[req[c] EXCEPT !.at = "done"] EXCEPT !.result = "SUCCESS"]
                EXCEPT !.xid = NeverCurrent].xid = NeverCurrent
        BY <1>2, <2>2 DEF Requests
      <4>2. req' = [req EXCEPT ![c] = [[[req[c] EXCEPT !.at = "done"] EXCEPT
                                          !.result = "SUCCESS"] EXCEPT !.xid = NeverCurrent]]
        BY <1>1, <2>4 DEF CommitFails, MoneyTypes
      <4>3. QED
        BY <4>1, <4>2
    <3>2. req'[c].xid = NeverCurrent
      BY <1>1, <3>1 DEF MoneyTypes
    <3>3. NeverCurrent <= last_xact_id
      BY <1>1 DEF NeverCurrent, MoneyTypes
    <3>4. QED
      BY <1>3, <2>1, <2>2, <3>2, <3>3
  <2>5. QED
    BY <1>7, <2>3, <2>4 DEF Failing
<1>8. CASE Record(c)
  <2>1. /\ Prepared(req[c]) /\ req[c] \in Requests
        /\ req' = [req EXCEPT ![c] = Recorded(req[c])]
    BY <1>1, <1>8, RecordCases
  <2>2. last_xact_id' = last_xact_id + 1
    BY <1>8 DEF Record, Renews
  <2>3. LET s == Recorded(req[c])
        IN  s.xid = last_xact_id + 1
    BY <2>1 DEF Recorded, Requests, Renews
  <2>4. req'[c] = Recorded(req[c]) /\ \A d \in Clients \ {c} : req'[d] = req[d]
    BY <1>1, <2>1 DEF MoneyTypes
  <2>5. Later
    BY <1>1, <2>2 DEF Later
  <2>6. ASSUME NEW x \in Xacts PROVE Balance(x)' >= 0
    <3>1. /\ Balance(x)' = Balance(x) - Paying(req[c])[x]
          /\ Paying(req[c])[x] \in Int /\ Balance(x) \in Int /\ Agreed(req[c])
      BY <1>1, <1>8, RecordBalance
    <3>2. Paying(req[c])[x] = IF x \in Lines(req[c]) THEN req[c].pay[x] ELSE 0
      BY <1>1, <2>1, <3>1, AgreedPaying
    <3>3. x \in Lines(req[c]) => req[c].pay[x] <= Balance(x)
      BY <3>1 DEF Agreed
    <3>4. Balance(x) >= 0
      BY DEF IInv, NoneOverpaid
    <3>5. QED
      BY <3>1, <3>2, <3>3, <3>4
  <2>7. req[c] # Idle
    BY <2>1 DEF Prepared, Idle
  <2>8. last_xact_id + 1 <= last_xact_id'
    BY <1>1, <2>2
  <2>9. QED
    BY <2>3, <2>4, <2>5, <2>6, <2>7, <2>8 DEF NoneOverpaid
<1>9. QED
  BY <1>5, <1>6, <1>7, <1>8 DEF Pay, Failing

LEMMA ServerStep ==
    ASSUME Single, IInv, NEW c \in Clients, Pay(c), UNCHANGED kioskvars
    PROVE  IInv' /\ PaysWhatIsDue
<1>1. MoneyTypes /\ PayInv /\ KioskTypes /\ ~Overlap
  BY DEF IInv, Single
<1>2. MoneyTypes'
  BY <1>1, PayTypesKept
<1>3. PaysWhatIsDue
  BY <1>1, PayIsDue
<1>4. \A d \in Clients : req[d].at = "asked" => req[d].xid <= last_xact_id
  BY DEF IInv, Stage, Idle
<1>5. PayInv'
  BY <1>1, <1>4, CheckPayInv, ChargePayInv, FailPayInv, RecordPayInv DEF Pay, Failing
<1>6. /\ Later /\ NoneOverpaid'
      /\ \A d \in Clients \ {c} : req'[d] = req[d]
      /\ req[c] # Idle /\ req'[c].xid <= last_xact_id'
  BY PayIsLater
<1>7. KioskTypes'
  BY <1>1 DEF KioskTypes, kioskvars
<1>8. ASSUME NEW d \in Clients PROVE Stage(d)'
  <2>1. Untouched(d) /\ Stage(d)
    BY DEF Untouched, kioskvars, IInv
  <2>2. req'[d] # Idle => req[d] # Idle /\ req'[d].xid <= last_xact_id'
    <3>1. CASE d = c
      BY <1>6, <3>1
    <3>2. CASE d # c
      <4>1. req'[d] = req[d] /\ (req[d] # Idle => req[d].xid <= last_xact_id /\ req[d].xid \in Int)
        BY <1>1, <1>6, <2>1, <3>2 DEF Stage, MoneyTypes, Requests
      <4>2. last_xact_id \in Int /\ last_xact_id' >= last_xact_id /\ last_xact_id' \in Int
        BY <1>1, <1>6 DEF MoneyTypes, Later
      <4>3. QED
        BY <4>1, <4>2
    <3>3. QED
      BY <3>1, <3>2
  <2>3. QED
    BY <1>1, <1>2, <1>6, <2>1, <2>2, UntouchedKeeps
<1>9. QED
  BY <1>2, <1>3, <1>5, <1>6, <1>7, <1>8 DEF IInv

-----------------------------------------------------------------------------
(* The stations *)

LEMMA AccountsLater ==
    ASSUME IInv, UNCHANGED accounts
    PROVE  /\ Later /\ NoneOverpaid' /\ last_xact_id' = last_xact_id
           /\ \A x \in Xacts : Balance(x)' = Balance(x) /\ Balance(x) \in Int
<1>1. last_xact_id' = last_xact_id /\ last_xact_id \in Int
      /\ \A x \in Xacts : Balance(x)' = Balance(x) /\ Balance(x) \in Int
  BY BalancesInt DEF accounts, Balance, IInv, MoneyTypes
<1>2. QED
  BY <1>1 DEF Later, NoneOverpaid, IInv

LEMMA OthersKeep ==
    ASSUME IInv, MoneyTypes', Later, NEW k \in Clients, req'[k] = req[k], Untouched(k)
    PROVE  Stage(k)'
<1>1. req[k] # Idle => req[k].xid <= last_xact_id'
  <2>1. req[k] # Idle => req[k].xid <= last_xact_id /\ req[k].xid \in Int
    BY DEF IInv, Stage, MoneyTypes, Requests
  <2>2. last_xact_id \in Int /\ last_xact_id' >= last_xact_id /\ last_xact_id' \in Int
    BY DEF IInv, MoneyTypes, Later
  <2>3. QED
    BY <2>1, <2>2
<1>2. QED
  BY <1>1, UntouchedKeeps DEF IInv

\* What a step at one station must show.
LEMMA OneStation ==
    ASSUME IInv, NEW k \in Clients, MoneyTypes', PayInv', Later, NoneOverpaid', KioskTypes',
           \A j \in Clients \ {k} : Untouched(j) /\ req'[j] = req[j],
           Stage(k)'
    PROVE  IInv'
<1>1. ASSUME NEW j \in Clients PROVE Stage(j)'
  <2>1. CASE j = k
    BY <2>1
  <2>2. CASE j # k
    BY <2>2, OthersKeep
  <2>3. QED
    BY <2>1, <2>2
<1>2. QED
  BY <1>1 DEF IInv

LEMMA ScreenStep ==
    ASSUME IInv, NEW k \in Clients, UNCHANGED moneyvars, KioskTypes',
           \A j \in Clients \ {k} : Untouched(j), Stage(k)'
    PROVE  IInv' /\ PaysWhatIsDue
<1>1. MoneyTypes /\ PayInv /\ UNCHANGED <<accounts, req>>
  BY DEF IInv, moneyvars, accounts, loans
<1>2. MoneyTypes'
  BY <1>1 DEF MoneyTypes, moneyvars
<1>3. PayInv' /\ PaysWhatIsDue
  BY <1>1, StillPayInv
<1>4. Later /\ NoneOverpaid'
  BY <1>1, AccountsLater
<1>5. \A j \in Clients \ {k} : Untouched(j) /\ req'[j] = req[j]
  BY <1>1
<1>6. QED
  BY <1>2, <1>3, <1>4, <1>5, OneStation

LEMMA NoListIsMap ==
    /\ <<>> \in Maps /\ DOMAIN <<>> = {}
    /\ <<>> \in Connections
<1>1. <<>> \in [{} -> Int]
  OBVIOUS
<1>2. QED
  BY <1>1 DEF Maps, Connections

LEMMA LoginStep ==
    ASSUME IInv, NEW k \in Clients, Login(k)
    PROVE  IInv' /\ PaysWhatIsDue
<1>1. /\ page[k] = "login" /\ page' = [page EXCEPT ![k] = "checkout"]
      /\ known' = [known EXCEPT ![k] = last_xact_id]
      /\ UNCHANGED <<moneyvars, fines, selected, loading, connects, firing, receipts>>
  BY DEF Login
<1>2. MoneyTypes /\ KioskTypes /\ Stage(k)
  BY DEF IInv
<1>3. page'[k] = "checkout" /\ known'[k] = last_xact_id /\ last_xact_id \in Int
  BY <1>1, <1>2 DEF KioskTypes, MoneyTypes
<1>4. KioskTypes'
  BY <1>1, <1>2, <1>3 DEF KioskTypes
<1>5. fines[k] = <<>> /\ loading[k] = NoList
  BY <1>1, <1>2 DEF Stage
<1>6. Held(k)'
  BY <1>1, <1>3, <1>5, NoListIsMap DEF Held, Owed
<1>7. UNCHANGED <<last_xact_id, req>>
  BY <1>1 DEF moneyvars
<1>8. Stage(k)'
  BY <1>1, <1>2, <1>3, <1>6, <1>7 DEF Stage
<1>9. \A j \in Clients \ {k} : Untouched(j)
  BY <1>1, <1>2 DEF Untouched, KioskTypes
<1>10. QED
  BY <1>1, <1>4, <1>8, <1>9, ScreenStep

\* Nothing is sent while the page takes clicks.
LEMMA UsableIdle ==
    ASSUME IInv, NEW k \in Clients, Usable(k)
    PROVE  /\ req[k] = Idle /\ firing[k] = 0 /\ receipts[k] = 0 /\ loading[k] = NoList
           /\ page[k] # "login"
  BY DEF IInv, Stage, Usable

LEMMA LogoutStep ==
    ASSUME IInv, NEW k \in Clients, Logout(k)
    PROVE  IInv' /\ PaysWhatIsDue
<1>1. /\ page' = [page EXCEPT ![k] = "login"]
      /\ known' = [known EXCEPT ![k] = 0]
      /\ fines' = [fines EXCEPT ![k] = <<>>] /\ selected' = [selected EXCEPT ![k] = {}]
      /\ connects' = [connects EXCEPT ![k] = <<>>]
      /\ UNCHANGED <<moneyvars, loading, firing, receipts>>
  BY DEF Logout
<1>2. MoneyTypes /\ KioskTypes /\ last_xact_id \in Nat
  BY DEF IInv, MoneyTypes
<1>3. req[k] = Idle /\ firing[k] = 0 /\ receipts[k] = 0 /\ loading[k] = NoList
  BY UsableIdle DEF Logout
<1>4. /\ page'[k] = "login" /\ known'[k] = 0 /\ fines'[k] = <<>> /\ selected'[k] = {}
      /\ connects'[k] = <<>>
  BY <1>1, <1>2 DEF KioskTypes
<1>5. KioskTypes'
  BY <1>1, <1>2, <1>4, NoListIsMap DEF KioskTypes
<1>6. UNCHANGED <<last_xact_id, req>>
  BY <1>1 DEF moneyvars
<1>7. Stage(k)'
  BY <1>1, <1>2, <1>3, <1>4, <1>6, NoListIsMap DEF Stage, Held, Owed
<1>8. \A j \in Clients \ {k} : Untouched(j)
  BY <1>1, <1>2 DEF Untouched, KioskTypes
<1>9. QED
  BY <1>1, <1>5, <1>7, <1>8, ScreenStep

\* The list that is asked for is what is owed.
LEMMA DrawFinesCases ==
    ASSUME IInv, NEW k \in Clients, DrawFines(k), UNCHANGED accounts
    PROVE  /\ page'[k] = "fines" /\ fines'[k] = <<>> /\ selected'[k] = {}
           /\ Owed(loading[k])'
           /\ page' \in [Clients -> {"login", "checkout", "fines", "payment"}]
           /\ fines' \in [Clients -> Maps] /\ selected' \in [Clients -> SUBSET Xacts]
           /\ loading' \in [Clients -> Maps \union {NoList}]
           /\ \A j \in Clients \ {k} :
                 /\ page'[j] = page[j] /\ fines'[j] = fines[j] /\ selected'[j] = selected[j]
                 /\ loading'[j] = loading[j]
<1>1. MoneyTypes /\ KioskTypes
  BY DEF IInv
<1>2. PICK L : L = [x \in Owing |-> Balance(x)]
  OBVIOUS
<1>3. /\ page' = [page EXCEPT ![k] = "fines"]
      /\ fines' = [fines EXCEPT ![k] = <<>>] /\ selected' = [selected EXCEPT ![k] = {}]
      /\ loading' = [loading EXCEPT ![k] = L]
  BY <1>2 DEF DrawFines
<1>4. /\ \A x \in Xacts : Balance(x)' = Balance(x) /\ Balance(x) \in Int /\ Balance(x) >= 0
      /\ Owing \subseteq Xacts
  BY AccountsLater DEF Owing, IInv, NoneOverpaid
<1>5. L \in Maps
  <2>1. L \in [Owing -> Int] /\ Owing \in SUBSET Xacts
    BY <1>2, <1>4
  <2>2. QED
    BY <2>1 DEF Maps
<1>6. \A x \in DOMAIN L : L[x] = Balance(x) /\ x \in Xacts /\ Balance(x) # 0
  BY <1>2, <1>4 DEF Owing
<1>7. Owed(L)'
  BY <1>4, <1>6 DEF Owed
<1>8. loading'[k] = L
  BY <1>1, <1>3 DEF KioskTypes
<1>9. Owed(loading[k])'
  BY <1>7, <1>8 DEF Owed
<1>10. QED
  BY <1>1, <1>3, <1>5, <1>9, NoListIsMap DEF KioskTypes

LEMMA ViewFinesStep ==
    ASSUME IInv, NEW k \in Clients, ViewFines(k)
    PROVE  IInv' /\ PaysWhatIsDue
<1>1. /\ DrawFines(k)
      /\ UNCHANGED <<moneyvars, known, connects, firing, receipts>>
  BY DEF ViewFines
<1>2. UNCHANGED <<accounts, last_xact_id, req>>
  BY <1>1 DEF moneyvars, accounts, loans
<1>3. KioskTypes /\ Stage(k)
  BY DEF IInv
<1>4. req[k] = Idle /\ firing[k] = 0 /\ receipts[k] = 0
  BY UsableIdle DEF ViewFines
<1>5. /\ page'[k] = "fines" /\ fines'[k] = <<>> /\ selected'[k] = {}
      /\ Owed(loading[k])'
  BY <1>1, <1>2, DrawFinesCases
<1>6. Held(k)'
  BY <1>5, NoListIsMap DEF Held, Owed
<1>7. Stage(k)'
  BY <1>1, <1>2, <1>3, <1>4, <1>5, <1>6 DEF Stage
<1>8. KioskTypes'
  BY <1>1, <1>2, <1>3, DrawFinesCases DEF KioskTypes
<1>9. \A j \in Clients \ {k} : Untouched(j)
  BY <1>1, <1>2, DrawFinesCases DEF Untouched
<1>10. QED
  BY <1>1, <1>7, <1>8, <1>9, ScreenStep

\* A list that is owed stays so while nothing happens at the server.
LEMMA StillOwed ==
    ASSUME IInv, UNCHANGED accounts
    PROVE  \A L \in Maps : Owed(L) => Owed(L)'
<1>1. \A x \in Xacts : Balance(x)' = Balance(x)
  BY AccountsLater
<1>2. \A L \in Maps : DOMAIN L \subseteq Xacts
  BY DEF Maps
<1>3. QED
  BY <1>1, <1>2 DEF Owed

LEMMA FinesInStep ==
    ASSUME IInv, NEW k \in Clients, FinesIn(k)
    PROVE  IInv' /\ PaysWhatIsDue
<1>1. PICK L : L = loading[k]
  OBVIOUS
<1>2. /\ L # NoList
      /\ fines' = [fines EXCEPT ![k] = L]
      /\ selected' = [selected EXCEPT ![k] = DOMAIN L]
      /\ loading' = [loading EXCEPT ![k] = NoList]
      /\ UNCHANGED <<moneyvars, page, known, connects, firing, receipts>>
  BY <1>1 DEF FinesIn
<1>3. UNCHANGED <<accounts, last_xact_id, req>>
  BY <1>2 DEF moneyvars, accounts, loans
<1>4. KioskTypes /\ Stage(k)
  BY DEF IInv
<1>5. L \in Maps /\ DOMAIN L \subseteq Xacts
  <2>1. L \in Maps
    BY <1>1, <1>2, <1>4 DEF KioskTypes
  <2>2. QED
    BY <2>1 DEF Maps
<1>6. firing[k] = 0 /\ receipts[k] = 0 /\ page[k] # "login" /\ req[k] = Idle
  BY <1>1, <1>2, <1>4 DEF Stage, KioskTypes
<1>7. fines'[k] = L /\ selected'[k] = DOMAIN L /\ loading'[k] = NoList
  BY <1>2, <1>4 DEF KioskTypes
<1>8. KioskTypes'
  BY <1>2, <1>4, <1>5 DEF KioskTypes
<1>9. ASSUME known[k] = last_xact_id PROVE Held(k)'
  <2>1. PICK C : C = connects[k][1]
    OBVIOUS
  <2>2. Owed(L) /\ (page[k] = "payment" => Owed(C))
    BY <1>1, <1>2, <1>4, <1>6, <1>9, <2>1 DEF Stage, Held
  <2>3. page[k] = "payment" => C \in Maps
    BY <1>4, <2>1, KnownMaps DEF Stage
  <2>4. Owed(L)' /\ (page[k] = "payment" => Owed(C)')
    BY <1>3, <1>5, <2>2, <2>3, StillOwed
  <2>5. C = connects'[k][1] /\ page'[k] = page[k]
    BY <1>2, <2>1
  <2>6. QED
    BY <1>7, <2>4, <2>5 DEF Held, Owed
<1>10. Stage(k)'
  BY <1>2, <1>3, <1>4, <1>6, <1>7, <1>9 DEF Stage
<1>11. \A j \in Clients \ {k} : Untouched(j)
  BY <1>2, <1>4 DEF Untouched, KioskTypes
<1>12. QED
  BY <1>2, <1>8, <1>10, <1>11, ScreenStep

LEMMA SelectStep ==
    ASSUME IInv, NEW k \in Clients, Select(k)
    PROVE  IInv' /\ PaysWhatIsDue
<1>1. PICK x \in DOMAIN fines[k] :
          selected' = [selected EXCEPT ![k] = IF x \in @ THEN @ \ {x} ELSE @ \union {x}]
  BY DEF Select
<1>2. UNCHANGED <<moneyvars, page, known, fines, loading, connects, firing, receipts>>
  BY DEF Select
<1>3. UNCHANGED <<accounts, last_xact_id, req>>
  BY <1>2 DEF moneyvars, accounts, loans
<1>4. KioskTypes /\ Stage(k)
  BY DEF IInv
<1>5. DOMAIN fines[k] \subseteq Xacts
  BY <1>4, KnownMaps DEF Maps
<1>6. selected'[k] \subseteq DOMAIN fines[k]
  BY <1>1, <1>4 DEF KioskTypes, Stage
<1>7. KioskTypes'
  BY <1>1, <1>2, <1>4, <1>5 DEF KioskTypes
<1>8. Later
  BY <1>3, AccountsLater
<1>9. Stage(k)'
  <2>1. Held(k) => Held(k)'
    <3>1. PICK F, G, C : F = fines[k] /\ G = loading[k] /\ C = connects[k][1]
      OBVIOUS
    <3>2. /\ F \in Maps /\ (G # NoList => G \in Maps) /\ (page[k] = "payment" => C \in Maps)
      BY <1>4, <3>1, KnownMaps DEF Stage
    <3>3. Held(k) => /\ Owed(F)' /\ (G # NoList => Owed(G)')
                     /\ (page[k] = "payment" => Owed(C)')
      BY <1>3, <3>1, <3>2, StillOwed DEF Held
    <3>4. F = fines'[k] /\ G = loading'[k] /\ C = connects'[k][1] /\ page'[k] = page[k]
      BY <1>2, <3>1
    <3>5. QED
      BY <3>3, <3>4 DEF Held, Owed
  <2>2. Stage(k)'
    BY <1>2, <1>3, <1>4, <1>6, <2>1 DEF Stage
  <2>3. QED
    BY <2>2
<1>10. \A j \in Clients \ {k} : Untouched(j)
  BY <1>1, <1>2, <1>4 DEF Untouched, KioskTypes
<1>11. QED
  BY <1>2, <1>7, <1>9, <1>10, ScreenStep

\* What is chosen of a list that is owed is owed.
LEMMA ChosenIs ==
    ASSUME IInv, NEW k \in Clients
    PROVE  /\ Chosen(k) \in Maps
           /\ Owed(fines[k]) => Owed(Chosen(k))
<1>1. KioskTypes /\ Stage(k)
  BY DEF IInv
<1>2. fines[k] \in Maps /\ selected[k] \subseteq DOMAIN fines[k] /\ selected[k] \subseteq Xacts
  BY <1>1 DEF KioskTypes, Stage
<1>3. Chosen(k) \in [selected[k] -> Int]
  BY <1>2 DEF Chosen, Maps
<1>4. Chosen(k) \in Maps
  BY <1>2, <1>3 DEF Maps
<1>5. Owed(fines[k]) => Owed(Chosen(k))
  BY <1>1, <1>2 DEF Chosen, Owed
<1>6. QED
  BY <1>4, <1>5

\* The page is drawn for the first time in this session.
LEMMA PayPageStep ==
    ASSUME Single, IInv, NEW k \in Clients, PayPage(k)
    PROVE  IInv' /\ PaysWhatIsDue
<1>1. PICK C : C = Chosen(k)
  OBVIOUS
<1>2. /\ page' = [page EXCEPT ![k] = "payment"]
      /\ connects' = [connects EXCEPT ![k] = Append(connects[k], C)]
      /\ Len(connects[k]) < MaxDrawn /\ Usable(k)
      /\ UNCHANGED <<moneyvars, known, fines, selected, loading, firing, receipts>>
  BY <1>1 DEF PayPage, Connected
<1>3. UNCHANGED <<accounts, last_xact_id, req>>
  BY <1>2 DEF moneyvars, accounts, loans
<1>4. KioskTypes /\ Stage(k)
  BY DEF IInv
<1>5. connects[k] = <<>>
  BY <1>2, <1>4, KnownMaps, SelfPaymentAssumption DEF Single
<1>6. /\ C \in Maps
      /\ Owed(fines[k]) => Owed(C)
  BY <1>1, ChosenIs
<1>7. Append(<<>>, C) = <<C>> /\ <<C>>[1] = C /\ <<C>> # <<>> /\ <<C>> \in Connections
  BY <1>6 DEF Connections
<1>8. page'[k] = "payment" /\ connects'[k] = <<C>>
  BY <1>2, <1>4, <1>5, <1>7 DEF KioskTypes
<1>9. KioskTypes'
  BY <1>2, <1>4, <1>5, <1>6, <1>7 DEF KioskTypes
<1>10. /\ req[k] = Idle /\ firing[k] = 0 /\ receipts[k] = 0 /\ loading[k] = NoList
  BY <1>2, UsableIdle
<1>11. known[k] = last_xact_id => Held(k)'
  <2>1. PICK F : F = fines[k]
    OBVIOUS
  <2>2. known[k] = last_xact_id => Owed(F) /\ Owed(C)
    BY <1>4, <1>6, <1>10, <2>1 DEF Stage, Held
  <2>3. F \in Maps
    BY <1>4, <2>1 DEF KioskTypes
  <2>4. known[k] = last_xact_id => Owed(F)' /\ Owed(C)'
    BY <1>3, <1>6, <2>2, <2>3, StillOwed
  <2>5. F = fines'[k] /\ C = connects'[k][1] /\ loading'[k] = NoList
    BY <1>2, <1>7, <1>8, <1>10, <2>1
  <2>6. QED
    BY <2>4, <2>5 DEF Held, Owed
<1>12. Stage(k)'
  BY <1>2, <1>3, <1>4, <1>7, <1>8, <1>10, <1>11 DEF Stage
<1>13. \A j \in Clients \ {k} : Untouched(j)
  BY <1>2, <1>4 DEF Untouched, KioskTypes
<1>14. QED
  BY <1>2, <1>9, <1>12, <1>13, ScreenStep

LEMMA HomeStep ==
    ASSUME IInv, NEW k \in Clients, Home(k)
    PROVE  IInv' /\ PaysWhatIsDue
<1>1. /\ page' = [page EXCEPT ![k] = "checkout"] /\ Usable(k)
      /\ UNCHANGED <<moneyvars, known, fines, selected, loading, connects, firing, receipts>>
  BY DEF Home
<1>2. UNCHANGED <<accounts, last_xact_id, req>>
  BY <1>1 DEF moneyvars, accounts, loans
<1>3. KioskTypes /\ Stage(k)
  BY DEF IInv
<1>4. page'[k] = "checkout"
  BY <1>1, <1>3 DEF KioskTypes
<1>5. KioskTypes'
  BY <1>1, <1>3 DEF KioskTypes
<1>6. /\ req[k] = Idle /\ firing[k] = 0 /\ receipts[k] = 0 /\ loading[k] = NoList
  BY <1>1, UsableIdle
<1>7. known[k] = last_xact_id => Held(k)'
  <2>1. PICK F : F = fines[k]
    OBVIOUS
  <2>2. F \in Maps /\ (known[k] = last_xact_id => Owed(F))
    BY <1>3, <1>6, <2>1 DEF KioskTypes, Stage, Held
  <2>3. known[k] = last_xact_id => Owed(F)'
    BY <1>2, <2>2, StillOwed
  <2>4. F = fines'[k] /\ loading'[k] = NoList
    BY <1>1, <1>6, <2>1
  <2>5. QED
    BY <1>4, <2>3, <2>4 DEF Held, Owed
<1>8. Stage(k)'
  BY <1>1, <1>2, <1>3, <1>4, <1>6, <1>7 DEF Stage
<1>9. \A j \in Clients \ {k} : Untouched(j)
  BY <1>1, <1>3 DEF Untouched, KioskTypes
<1>10. QED
  BY <1>1, <1>5, <1>8, <1>9, ScreenStep

LEMMA SubmitStep ==
    ASSUME IInv, NEW k \in Clients, Submit(k)
    PROVE  IInv' /\ PaysWhatIsDue
<1>1. /\ Usable(k) /\ page[k] = "payment"
      /\ firing' = [firing EXCEPT ![k] = 1]
      /\ UNCHANGED <<moneyvars, page, known, fines, selected, loading, connects, receipts>>
  BY DEF Submit
<1>2. UNCHANGED <<accounts, last_xact_id, req>>
  BY <1>1 DEF moneyvars, accounts, loans
<1>3. KioskTypes /\ Stage(k)
  BY DEF IInv
<1>4. firing'[k] = 1
  BY <1>1, <1>3 DEF KioskTypes
<1>5. KioskTypes'
  BY <1>1, <1>3 DEF KioskTypes
<1>6. /\ req[k] = Idle /\ firing[k] = 0 /\ receipts[k] = 0 /\ loading[k] = NoList
  BY <1>1, UsableIdle
<1>7. known[k] = last_xact_id => Held(k)'
  <2>1. PICK F, C : F = fines[k] /\ C = connects[k][1]
    OBVIOUS
  <2>2. /\ F \in Maps /\ C \in Maps
        /\ known[k] = last_xact_id => Owed(F) /\ Owed(C)
    BY <1>1, <1>3, <1>6, <2>1, KnownMaps DEF Stage, Held
  <2>3. known[k] = last_xact_id => Owed(F)' /\ Owed(C)'
    BY <1>2, <2>2, StillOwed
  <2>4. F = fines'[k] /\ C = connects'[k][1] /\ loading'[k] = NoList
    BY <1>1, <1>6, <2>1
  <2>5. QED
    BY <2>3, <2>4 DEF Held, Owed
<1>8. Stage(k)'
  BY <1>1, <1>2, <1>3, <1>4, <1>6, <1>7 DEF Stage
<1>9. \A j \in Clients \ {k} : Untouched(j)
  BY <1>1, <1>3 DEF Untouched, KioskTypes
<1>10. QED
  BY <1>1, <1>5, <1>8, <1>9, ScreenStep

\* What is connected is sent, with the mark the station knows.
LEMMA SendStep ==
    ASSUME IInv, NEW k \in Clients, Send(k)
    PROVE  IInv' /\ PaysWhatIsDue
<1>1. MoneyTypes /\ PayInv /\ KioskTypes /\ Stage(k)
  BY DEF IInv
<1>2. req[k] = Idle /\ firing[k] = 1 /\ UNCHANGED <<accounts, taken, unrecorded, unreported, recorded, faults>>
      /\ UNCHANGED kioskvars
  BY <1>1 DEF Send, KioskTypes
<1>3. PICK L : L = connects[k][1]
  OBVIOUS
<1>4. page[k] = "payment" /\ connects[k] # <<>> /\ receipts[k] = 0 /\ loading[k] = NoList
      /\ L \in Maps
  BY <1>1, <1>2, <1>3, KnownMaps DEF Stage
<1>5. DOMAIN L \in SUBSET Xacts /\ L \in [DOMAIN L -> Int]
  BY <1>4 DEF Maps
<1>6. DEFINE amount == [x \in Xacts |-> IF x \in DOMAIN L THEN L[x] ELSE 0]
             lines == [x \in Xacts |-> IF x \in DOMAIN L THEN 1 ELSE 0]
             r == Request("card", amount, lines, 0, known[k])
<1>7. req' = [req EXCEPT ![k] = r]
  BY <1>2, <1>3 DEF Send
<1>8. amount \in [Xacts -> Int] /\ lines \in [Xacts -> Nat] /\ known[k] \in Int
      /\ "card" \in PayTypes
  BY <1>1, <1>5 DEF KioskTypes, PayTypes
<1>9. /\ r.at = "asked" /\ r.xid = known[k] /\ r.pay = amount /\ r.times = lines
  BY DEF Request
<1>10. r \in Requests
  <2> HIDE DEF amount, lines
  <2>1. QED
    BY <1>8, RequestTyped
<1>11. \A x \in Lines(r) : x \in DOMAIN L /\ r.times[x] = 1 /\ r.pay[x] = L[x]
  BY <1>9 DEF Lines
<1>12. Fair(r)
  <2>1. known[k] = last_xact_id => Owed(L)
    BY <1>1, <1>3, <1>4 DEF Stage, Held
  <2>2. QED
    BY <1>9, <1>11, <2>1 DEF Fair, Owed
<1> HIDE DEF r
<1>13. PayInv' /\ PaysWhatIsDue
  BY <1>1, <1>2, <1>7, <1>9, <1>10, <1>12, SendPayInv
<1>14. req'[k] = r /\ \A j \in Clients \ {k} : req'[j] = req[j]
  BY <1>1, <1>7 DEF MoneyTypes
<1>15. MoneyTypes'
  BY <1>1, <1>2, <1>7, <1>10, ClientTypes DEF MoneyTypes
<1>16. Later /\ NoneOverpaid' /\ last_xact_id' = last_xact_id
  BY <1>2, AccountsLater
<1>17. KioskTypes' /\ \A j \in Clients : Untouched(j)
  BY <1>1, <1>2 DEF KioskTypes, kioskvars, Untouched
<1>18. Held(k) => Held(k)'
  BY <1>1, <1>15, <1>16, <1>17, HeldLater
<1>19. Stage(k)'
  BY <1>1, <1>2, <1>9, <1>14, <1>16, <1>17, <1>18 DEF Stage, Untouched
<1>20. QED
  BY <1>13, <1>14, <1>15, <1>16, <1>17, <1>19, OneStation

\* The one connected function has run.
LEMMA AnsweredStep ==
    ASSUME Single, IInv, NEW k \in Clients, Answered(k)
    PROVE  IInv' /\ PaysWhatIsDue
<1>1. MoneyTypes /\ PayInv /\ KioskTypes /\ Stage(k)
  BY DEF IInv
<1>2. PICK R : R = req[k]
  OBVIOUS
<1>3. /\ R.at = "done" /\ req' = [req EXCEPT ![k] = Idle]
      /\ firing' = [firing EXCEPT ![k] = IF @ < Len(connects[k]) THEN @ + 1 ELSE 0]
      /\ \/ /\ known' = [known EXCEPT ![k] = R.xid]
            /\ receipts' = [receipts EXCEPT ![k] = @ + 1]
            /\ UNCHANGED faults
         \/ /\ UNCHANGED <<known, receipts>>
            /\ faults' = faults \/ (faults < MaxFaults /\ faults' = faults + 1)
      /\ UNCHANGED <<accounts, taken, unrecorded, unreported, recorded, page, fines, selected, loading,
                     connects>>
  BY <1>2 DEF Answered
<1>4. R # Idle /\ R \in Requests /\ R.xid \in Int
  <2>1. R # Idle
    BY <1>3 DEF Idle
  <2>2. R \in Requests
    BY <1>1, <1>2, <2>1 DEF MoneyTypes
  <2>3. QED
    BY <2>1, <2>2 DEF Requests
<1>5. /\ firing[k] = 1 /\ page[k] = "payment" /\ receipts[k] = 0 /\ loading[k] = NoList
      /\ connects[k] # <<>> /\ R.xid <= last_xact_id
  BY <1>1, <1>2, <1>4 DEF Stage, KioskTypes
<1>6. Len(connects[k]) = 1
  BY <1>1, <1>5, KnownMaps
<1>7. firing'[k] = 0 /\ firing' \in [Clients -> {0, 1}]
      /\ \A j \in Clients \ {k} : firing'[j] = firing[j]
  BY <1>1, <1>3, <1>5, <1>6 DEF KioskTypes
<1>8. /\ known' \in [Clients -> Int] /\ receipts' \in [Clients -> {0, 1}]
      /\ \A j \in Clients \ {k} : known'[j] = known[j] /\ receipts'[j] = receipts[j]
      /\ \/ known'[k] = R.xid /\ receipts'[k] = 1
         \/ known'[k] = known[k] /\ receipts'[k] = 0
  <2>1. known \in [Clients -> Int] /\ receipts \in [Clients -> {0, 1}]
    BY <1>1 DEF KioskTypes
  <2>2. CASE UNCHANGED <<known, receipts>>
    BY <1>5, <2>1, <2>2
  <2>3. CASE /\ known' = [known EXCEPT ![k] = R.xid]
             /\ receipts' = [receipts EXCEPT ![k] = @ + 1]
    <3>1. receipts' = [receipts EXCEPT ![k] = 1]
      <4>1. receipts[k] + 1 = 1
        BY <1>5
      <4>2. receipts' = [receipts EXCEPT ![k] = receipts[k] + 1]
        BY <2>3
      <4>3. QED
        BY <4>1, <4>2, Zenon
    <3>2. known' \in [Clients -> Int] /\ known'[k] = R.xid
          /\ \A j \in Clients \ {k} : known'[j] = known[j]
      BY <1>4, <2>1, <2>3
    <3>3. receipts' \in [Clients -> {0, 1}] /\ receipts'[k] = 1
          /\ \A j \in Clients \ {k} : receipts'[j] = receipts[j]
      BY <2>1, <3>1
    <3>4. QED
      BY <3>2, <3>3
  <2>4. QED
    BY <1>3, <2>2, <2>3
<1>9. /\ PayInv' /\ PaysWhatIsDue
  BY <1>1, <1>3, OverPayInv
<1>10. MoneyTypes'
  <2>1. faults' \in 0..MaxFaults /\ recorded' \in [Clients -> Nat]
    BY <1>1, <1>3, MoneyAssumption DEF MoneyTypes
  <2>2. taken' \in Int /\ unreported' \in Int /\ unrecorded' = unrecorded
    BY <1>1, <1>3 DEF MoneyTypes
  <2>3. QED
    BY <1>1, <1>3, <2>1, <2>2, ClientTypes
<1>11. Later /\ NoneOverpaid' /\ last_xact_id' = last_xact_id
  BY <1>3, AccountsLater
<1>12. req'[k] = Idle /\ \A j \in Clients \ {k} : req'[j] = req[j]
  BY <1>1, <1>3 DEF MoneyTypes
<1>13. KioskTypes'
  BY <1>1, <1>3, <1>7, <1>8 DEF KioskTypes
<1>14. Held(k) => Held(k)'
  <2>1. PICK F, C : F = fines[k] /\ C = connects[k][1]
    OBVIOUS
  <2>2. F \in Maps /\ C \in Maps /\ (Held(k) => Owed(F) /\ Owed(C))
    BY <1>1, <1>5, <2>1, KnownMaps DEF Held
  <2>3. Held(k) => Owed(F)' /\ Owed(C)'
    BY <1>3, <2>2, StillOwed
  <2>4. F = fines'[k] /\ C = connects'[k][1] /\ loading'[k] = NoList
    BY <1>3, <1>5, <2>1
  <2>5. QED
    BY <2>3, <2>4 DEF Held, Owed
<1>15. Stage(k)'
  BY <1>1, <1>3, <1>4, <1>5, <1>7, <1>8, <1>11, <1>12, <1>14 DEF Stage
<1>16. \A j \in Clients \ {k} : Untouched(j)
  BY <1>3, <1>7, <1>8 DEF Untouched
<1>17. QED
  BY <1>9, <1>10, <1>11, <1>12, <1>13, <1>15, <1>16, OneStation

\* A new list is asked for with the receipt.
LEMMA ReceiptInStep ==
    ASSUME Single, IInv, NEW k \in Clients, ReceiptIn(k)
    PROVE  IInv' /\ PaysWhatIsDue
<1>1. /\ receipts[k] > 0 /\ firing[k] = 0 /\ loading[k] = NoList
      /\ receipts' = [receipts EXCEPT ![k] = @ - 1] /\ DrawFines(k)
      /\ UNCHANGED <<moneyvars, known, connects, firing>>
  BY DEF ReceiptIn, Single
<1>2. UNCHANGED <<accounts, last_xact_id, req>>
  BY <1>1 DEF moneyvars, accounts, loans
<1>3. KioskTypes /\ Stage(k)
  BY DEF IInv
<1>4. receipts[k] = 1 /\ receipts'[k] = 0 /\ receipts' \in [Clients -> {0, 1}]
      /\ \A j \in Clients \ {k} : receipts'[j] = receipts[j]
  BY <1>1, <1>3 DEF KioskTypes
<1>5. req[k] = Idle
  BY <1>1, <1>3 DEF Stage
<1>6. /\ page'[k] = "fines" /\ fines'[k] = <<>> /\ selected'[k] = {}
      /\ Owed(loading[k])'
  BY <1>1, <1>2, DrawFinesCases
<1>7. Held(k)'
  BY <1>6, NoListIsMap DEF Held, Owed
<1>8. Stage(k)'
  BY <1>1, <1>2, <1>3, <1>4, <1>5, <1>6, <1>7 DEF Stage
<1>9. KioskTypes'
  BY <1>1, <1>2, <1>3, <1>4, DrawFinesCases DEF KioskTypes
<1>10. \A j \in Clients \ {k} : Untouched(j)
  BY <1>1, <1>2, <1>4, DrawFinesCases DEF Untouched
<1>11. QED
  BY <1>1, <1>8, <1>9, <1>10, ScreenStep

LEMMA ElsewhereStep ==
    ASSUME Single, IInv, Elsewhere
    PROVE  IInv' /\ PaysWhatIsDue
<1>1. PICK x \in Xacts : Bill(x, 1) /\ UNCHANGED <<recorded, kioskvars>>
  BY DEF Elsewhere
<1>2. MoneyTypes /\ PayInv /\ KioskTypes /\ ~Overlap
  BY DEF IInv, Single
<1>3. MoneyTypes'
  BY <1>1, <1>2, BillTypes DEF MoneyTypes
<1>4. PayInv' /\ PaysWhatIsDue
  BY <1>1, <1>2, BillPayInv
<1>5. /\ \A y \in Xacts : /\ Balance(y)' >= Balance(y)
                          /\ Balance(y) \in Int /\ Balance(y)' \in Int
      /\ last_xact_id' = last_xact_id /\ last_xact_id \in Int /\ UNCHANGED req
  BY <1>1, <1>2 DEF Bill, NoPayment, Balance, MoneyTypes
<1>6. Later
  BY <1>5 DEF Later
<1>7. NoneOverpaid'
  BY <1>5 DEF NoneOverpaid, IInv
<1>8. KioskTypes' /\ \A k \in Clients : Untouched(k)
  BY <1>1, <1>2 DEF KioskTypes, kioskvars, Untouched
<1>9. \A k \in Clients : Stage(k)'
  BY <1>3, <1>5, <1>6, <1>8, OthersKeep
<1>10. QED
  BY <1>3, <1>4, <1>7, <1>8, <1>9 DEF IInv

-----------------------------------------------------------------------------
(* The specification *)

LEMMA StutterStep ==
    ASSUME IInv, UNCHANGED vars
    PROVE  IInv' /\ PaysWhatIsDue
<1>1. MoneyTypes /\ PayInv /\ KioskTypes /\ UNCHANGED <<moneyvars, kioskvars, accounts, req>>
  BY DEF IInv, vars, moneyvars, accounts, loans
<1>2. MoneyTypes'
  BY <1>1 DEF MoneyTypes, moneyvars
<1>3. PayInv' /\ PaysWhatIsDue
  BY <1>1, StillPayInv
<1>4. Later /\ NoneOverpaid'
  BY <1>1, AccountsLater
<1>5. KioskTypes' /\ \A k \in Clients : Untouched(k) /\ req'[k] = req[k]
  BY <1>1 DEF KioskTypes, kioskvars, Untouched
<1>6. \A k \in Clients : Stage(k)'
  BY <1>2, <1>4, <1>5, OthersKeep
<1>7. QED
  BY <1>2, <1>3, <1>4, <1>5, <1>6 DEF IInv

LEMMA SingleStep ==
    ASSUME Single, IInv, [Next]_vars
    PROVE  IInv' /\ PaysWhatIsDue
<1>1. ASSUME NEW k \in Clients, Kiosk(k) PROVE IInv' /\ PaysWhatIsDue
  BY <1>1, LoginStep, LogoutStep, ViewFinesStep, FinesInStep, SelectStep, PayPageStep,
     HomeStep, SubmitStep, SendStep, AnsweredStep, ReceiptInStep DEF Kiosk
<1>2. QED
  BY <1>1, ServerStep, ElsewhereStep, StutterStep DEF Next

LEMMA InitSingle == Init => IInv
<1> SUFFICES ASSUME Init PROVE IInv
  OBVIOUS
<1>1. MoneyTypes /\ PayInv /\ last_xact_id = 0
  BY InitTypes, InitPayInv DEF Init, MoneyInit
<1>2. NoneOverpaid
  BY MoneyAssumption DEF Init, MoneyInit, NoneOverpaid, Balance, NoPay
<1>3. KioskTypes
  BY NoListIsMap DEF Init, KioskTypes
<1>4. ASSUME NEW k \in Clients PROVE Stage(k)
  <2>1. /\ page[k] = "login" /\ known[k] = 0 /\ fines[k] = <<>> /\ selected[k] = {}
        /\ loading[k] = NoList /\ connects[k] = <<>> /\ firing[k] = 0 /\ receipts[k] = 0
        /\ req[k] = Idle
    BY DEF Init, MoneyInit
  <2>2. Held(k)
    BY <2>1, NoListIsMap DEF Held, Owed
  <2>3. Stage(k)
    BY <1>1, <2>1, <2>2, NoListIsMap DEF Stage
  <2>4. QED
    BY <2>3
<1>5. QED
  BY <1>1, <1>2, <1>3, <1>4 DEF IInv

LEMMA SingleInvariant ==
    ASSUME Single
    PROVE  Spec => []IInv
<1>1. Init => IInv
  BY InitSingle
<1>2. IInv /\ [Next]_vars => IInv'
  BY SingleStep
<1>3. QED
  BY <1>1, <1>2, PTL DEF Spec

\* No payment at a station exceeds what is owed, however old its list is and
\* whoever pays at the same time: a mark that is not the patron's is refused, and
\* with the patron's mark the list is true (make_payments, onPaymentSubmit).
THEOREM StationPaysWhatIsOwed ==
    ASSUME Single
    PROVE  Spec => PaysWhatIsOwed
<1>1. DEFINE Due == PaysWhatIsDue
<1>2. IInv /\ [Next]_vars => [Due]_vars
  BY SingleStep
<1>3. PaysWhatIsOwed <=> [][Due]_vars
  BY DEF PaysWhatIsOwed
<1>4. HIDE DEF Due
<1>5. Spec => [][Due]_vars
  BY <1>2, SingleInvariant, PTL DEF Spec
<1>6. QED
  BY <1>3, <1>5
=============================================================================
