-------------------------- MODULE BillWindowProofs --------------------------
(***************************************************************************)
(* Proofs about BillWindow, for any number of windows, transactions, rows, *)
(* bills and failures.                                                     *)
(*                                                                         *)
(* The first part is about the arithmetic of a form: what is distributed   *)
(* over the rows is made of whole amounts, none above what was last known  *)
(* (Distributed).  The second is the type invariant.  The third shows that *)
(* a form is recorded once, under Guarded; the fourth that what is paid    *)
(* was owed, under Careful, and that the money adds up, under Balanced.    *)
(* Each of these says what staff and the network must not do; README       *)
(* lists what TLC finds when they do.                                      *)
(***************************************************************************)
EXTENDS BillWindow, MoneyProofs

-----------------------------------------------------------------------------
(* The rows in list order *)

\* How many rows of a table come before those of x, as in RowSeq.
Ahead(R, x) == SumFunction([y \in Xacts |-> IF y < x THEN R[y] ELSE 0])

\* The rows of x take the places after Ahead(R, x), and no others do.
LEMMA RowsApart ==
    ASSUME NEW R \in [Xacts -> Nat], NEW x \in Xacts
    PROVE  /\ Ahead(R, x) \in Nat
           /\ Ahead(R, x) + R[x] <= SumFunction(R) /\ SumFunction(R) \in Nat
           /\ \A z \in Xacts : x < z => Ahead(R, x) + R[x] <= Ahead(R, z)
<1>1. DEFINE below(z) == [y \in Xacts |-> IF y < z THEN R[y] ELSE 0]
             own == [y \in Xacts |-> IF y = x THEN R[x] ELSE 0]
             upto == [y \in Xacts |-> below(x)[y] + own[y]]
<1>2. /\ \A z \in Xacts : below(z) \in [Xacts -> Nat] /\ below(z) \in [Xacts -> Int]
      /\ own \in [Xacts -> Int] /\ upto \in [Xacts -> Int] /\ R \in [Xacts -> Int]
  OBVIOUS
<1>3. \A y \in Xacts : upto[y] <= R[y]
  BY MoneyAssumption
<1>4. \A z \in Xacts : x < z => \A y \in Xacts : upto[y] <= below(z)[y]
  BY MoneyAssumption
<1>5. SumFunction(own) = R[x]
  <2>1. R[x] \in Int /\ IsFiniteSet(Xacts)
    BY MoneyAssumption
  <2>2. \A v \in Int : SumFunction([y \in Xacts |-> IF y = x THEN v ELSE 0]) = v
    BY <2>1, SumOne
  <2>3. QED
    BY <2>1, <2>2
<1>6. \A z \in Xacts : Ahead(R, z) = SumFunction(below(z))
  BY DEF Ahead
<1>7. SumFunction(upto) = SumFunction(below(x)) + SumFunction(own)
  <2>1. below(x) \in [Xacts -> Int] /\ own \in [Xacts -> Int]
    BY <1>2
  <2>2. HIDE DEF below, own
  <2>3. QED
    BY <2>1, SumAdd, MoneyAssumption
<1>8. HIDE DEF below, own, upto
<1>9. /\ SumFunction(below(x)) \in Nat /\ SumFunction(R) \in Nat
      /\ SumFunction(upto) <= SumFunction(R)
  BY <1>2, <1>3, SumNat, SumMono, MoneyAssumption
<1>10. \A z \in Xacts : x < z => SumFunction(upto) <= SumFunction(below(z))
  BY <1>2, <1>4, SumMono, MoneyAssumption
<1>11. QED
  BY <1>5, <1>6, <1>7, <1>9, <1>10

\* A row of every transaction shown is in the list.
LEMMA RowIsListed ==
    ASSUME NEW w \in Clients, rows[w] \in [Xacts -> Nat], NEW x \in Shown(w)
    PROVE  \E i \in 1..Len(RowSeq(w)) : RowSeq(w)[i] = x
<1>1. DEFINE R == rows[w]
             n == SumFunction(R)
             At(i, z) == Ahead(R, z) < i /\ i <= Ahead(R, z) + R[z]
             seq == [i \in 1..n |-> CHOOSE z \in Shown(w) : At(i, z)]
<1>2. RowSeq(w) = seq
  BY DEF RowSeq, Ahead
<1>3. x \in Xacts /\ R[x] > 0 /\ R \in [Xacts -> Nat]
  BY DEF Shown
<1>4. \A z \in Shown(w) : z \in Xacts /\ z \in Nat
  BY MoneyAssumption DEF Shown
<1>5. DEFINE k == Ahead(R, x) + 1
<1>6. n \in Nat /\ k \in 1..n /\ At(k, x)
  BY <1>3, RowsApart
<1>7. ASSUME NEW z \in Shown(w), At(k, z) PROVE z = x
  <2>1. Ahead(R, x) \in Nat /\ Ahead(R, z) \in Nat /\ R[z] \in Nat /\ R[x] \in Nat
    BY <1>3, <1>4, RowsApart
  <2>2. ~(z < x)
    BY <1>3, <1>4, <1>7, <2>1, RowsApart
  <2>3. ~(x < z)
    <3>1. x < z => Ahead(R, x) + R[x] <= Ahead(R, z)
      BY <1>3, <1>4, RowsApart
    <3>2. QED
      BY <1>3, <1>7, <2>1, <3>1
  <2>4. x \in Nat /\ z \in Nat
    BY <1>4
  <2>5. QED
    BY <2>2, <2>3, <2>4
<1>8. seq[k] = x
  BY <1>6, <1>7
<1>9. seq \in Seq({seq[i] : i \in 1..n}) /\ Len(seq) = n
  <2>1. QED
    BY <1>6
<1>10. QED
  BY <1>2, <1>6, <1>8, <1>9

\* One of the places of a row is the last.
LEMMA LastPlace ==
    ASSUME NEW n \in Nat, NEW S \in SUBSET (1..n), S # {}
    PROVE  \E i \in S : \A j \in S : j <= i
<1>1. DEFINE T == {m \in Nat : S \cap (1..m) # {} =>
                      \E i \in S \cap (1..m) : \A j \in S \cap (1..m) : j <= i}
<1>2. 0 \in T
  OBVIOUS
<1>3. ASSUME NEW m \in Nat, m \in T PROVE m + 1 \in T
  <2>1. CASE m + 1 \in S
    <3>1. \A j \in S \cap (1..(m + 1)) : j <= m + 1
      OBVIOUS
    <3>2. m + 1 \in S \cap (1..(m + 1))
      BY <2>1
    <3>3. QED
      BY <3>1, <3>2
  <2>2. CASE m + 1 \notin S
    <3>1. S \cap (1..(m + 1)) = S \cap (1..m)
      BY <2>2
    <3>2. QED
      BY <1>3, <3>1
  <2>3. QED
    BY <2>1, <2>2
<1>4. Nat \subseteq T
  <2> HIDE DEF T
  <2>1. QED
    BY <1>2, <1>3, CountUp
<1>5. n \in T /\ S \cap (1..n) = S
  BY <1>4
<1>6. QED
  BY <1>5

\* What is left after each row, as in Distribution: the recursion has a solution,
\* found for ever longer lists.
Rest(seq, amount, checked, known) ==
    LET Part(x, left) == IF x \in checked THEN Share(known[x], left) ELSE 0
    IN  Lefts(seq, amount, Part)

LEMMA RestInt ==
    ASSUME NEW seq, Len(seq) \in Nat, NEW amount \in Int,
           NEW checked, NEW known, \A x \in checked : known[x] \in Int
    PROVE  \A i \in 0..Len(seq) : Rest(seq, amount, checked, known)[i] \in Int
<1>1. DEFINE n == Len(seq)
             Part(x, left) == IF x \in checked THEN Share(known[x], left) ELSE 0
             After(i, g) == IF i = 0 THEN amount ELSE g[i - 1] - Part(seq[i], g[i - 1])
             Solves(m, g) == \A i \in 0..n : i <= m => g[i] = After(i, g)
             T == {m \in Nat : \E g : Solves(m, g)}
<1>2. 0 \in T
  <2>1. DEFINE g == [i \in 0..n |-> amount]
  <2>2. Solves(0, g)
    OBVIOUS
  <2>3. QED
    BY <2>2
<1>3. ASSUME NEW m \in Nat, m \in T PROVE m + 1 \in T
  <2>1. PICK g : Solves(m, g)
    BY <1>3
  <2>2. DEFINE h == [i \in 0..n |-> After(i, g)]
  <2>3. ASSUME NEW i \in 0..n, i <= m + 1 PROVE h[i] = After(i, h)
    <3>1. CASE i = 0
      BY <3>1
    <3>2. CASE i # 0
      <4>1. i - 1 \in 0..n /\ i - 1 <= m
        BY <2>3, <3>2
      <4>2. h[i - 1] = g[i - 1]
        BY <2>1, <4>1
      <4>3. QED
        BY <3>2, <4>2
    <3>3. QED
      BY <3>1, <3>2
  <2>4. Solves(m + 1, h)
    BY <2>3
  <2>5. HIDE DEF h, Solves
  <2>6. QED
    BY <2>4
<1>4. Nat \subseteq T
  <2> HIDE DEF T
  <2>1. QED
    BY <1>2, <1>3, CountUp
<1>5. PICK g : Solves(n, g)
  BY <1>4
<1>6. DEFINE h == [i \in 0..n |-> g[i]]
<1>7. h = [i \in 0..n |-> After(i, h)]
  <2>1. ASSUME NEW i \in 0..n PROVE h[i] = After(i, h)
    <3>1. g[i] = After(i, g)
      BY <1>5
    <3>2. i # 0 => h[i - 1] = g[i - 1]
      OBVIOUS
    <3>3. QED
      BY <3>1, <3>2
  <2>2. QED
    BY <2>1
<1>8. DEFINE L == Lefts(seq, amount, Part)
<1>9. L = [i \in 0..n |-> After(i, L)]
  BY <1>7 DEF Lefts
<1>10. DEFINE U == {m \in Nat : m \in 0..n => L[m] \in Int}
<1>11. 0 \in U
  <2> HIDE DEF L
  <2>1. QED
    BY <1>9
<1>12. ASSUME NEW m \in Nat, m \in U PROVE m + 1 \in U
  <2> HIDE DEF L
  <2>1. ASSUME m + 1 \in 0..n PROVE L[m + 1] \in Int
    <3>1. m \in 0..n /\ L[m] \in Int
      BY <1>12, <2>1
    <3>2. L[m + 1] = L[m] - Part(seq[m + 1], L[m])
      BY <1>9, <2>1
    <3>3. Part(seq[m + 1], L[m]) \in Int
      BY <3>1 DEF Share
    <3>4. QED
      BY <3>1, <3>2, <3>3
  <2>2. QED
    BY <2>1
<1>13. Nat \subseteq U
  <2> HIDE DEF U
  <2>1. QED
    BY <1>11, <1>12, CountUp
<1>14. \A i \in 0..n : L[i] \in Int
  <2> HIDE DEF L
  <2>1. QED
    BY <1>13
<1>15. Rest(seq, amount, checked, known) = L
  BY DEF Rest
<1>16. QED
  BY <1>14, <1>15

\* What is entered beside a row is a whole amount, and no more than was last known
\* to be owed on a checked row.
LEMMA Distributed ==
    ASSUME NEW w \in Clients, rows[w] \in [Xacts -> Nat], NEW amount \in Int,
           NEW checked, NEW known, \A x \in checked : known[x] \in Int
    PROVE  /\ Distribution(w, amount, checked, known) \in [Xacts -> Int]
           /\ \A x \in Xacts : Distribution(w, amount, checked, known)[x] # 0 =>
                 /\ x \in checked
                 /\ Distribution(w, amount, checked, known)[x] <= known[x]
<1>1. DEFINE seq == RowSeq(w)
             Part(x, left) == IF x \in checked THEN Share(known[x], left) ELSE 0
             left == Lefts(seq, amount, Part)
             last(x) == CHOOSE i \in 1..Len(seq) :
                            seq[i] = x /\ \A j \in 1..Len(seq) : seq[j] = x => j <= i
             D == [x \in Xacts |-> IF x \in Shown(w) THEN Part(x, left[last(x) - 1]) ELSE 0]
<1>2. Distribution(w, amount, checked, known) = D
  BY DEF Distribution
<1>3. Len(seq) \in Nat
  <2>1. SumFunction(rows[w]) \in Nat
    BY SumNat, MoneyAssumption
  <2>2. QED
    BY <2>1 DEF RowSeq
<1>4. \A i \in 0..Len(seq) : left[i] \in Int
  <2>1. left = Rest(seq, amount, checked, known)
    BY DEF Rest
  <2> HIDE DEF seq, left
  <2>2. QED
    BY <1>3, <2>1, RestInt
<1>5. ASSUME NEW x \in Shown(w) PROVE last(x) \in 1..Len(seq)
  <2>1. DEFINE S == {i \in 1..Len(seq) : seq[i] = x}
  <2>2. S # {}
    BY <1>5, RowIsListed
  <2> HIDE DEF seq
  <2>3. \E i \in S : \A j \in S : j <= i
    BY <1>3, <2>2, LastPlace
  <2>4. QED
    BY <2>3
<1>6. ASSUME NEW x \in Shown(w)
      PROVE  /\ Part(x, left[last(x) - 1]) \in Int
             /\ Part(x, left[last(x) - 1]) # 0 =>
                   x \in checked /\ Part(x, left[last(x) - 1]) <= known[x]
  <2>1. last(x) - 1 \in 0..Len(seq)
    BY <1>3, <1>5
  <2>2. left[last(x) - 1] \in Int
    BY <1>4, <2>1
  <2> HIDE DEF left, last
  <2>3. QED
    BY <2>2 DEF Share
<1>7. \A x \in Shown(w) : x \in Xacts
  BY DEF Shown
<1>8. D \in [Xacts -> Int] /\ \A x \in Xacts : D[x] # 0 => x \in checked /\ D[x] <= known[x]
  <2> HIDE DEF Part, left, last
  <2>1. QED
    BY <1>6
<1>9. QED
  BY <1>2, <1>8

-----------------------------------------------------------------------------
(* Types *)

Patrons == [xid : Int, credit : Int]
Details == [x : Xacts, bal : Int]
Forms == [type : PayTypes, amount : Nat]
Maps == UNION {[S -> Int] : S \in SUBSET Xacts}

WindowTypes ==
    /\ patron \in [Clients -> Patrons]
    /\ asked \in [Clients -> SUBSET Patrons]
    /\ funcs \in [Clients -> [Xacts -> Nat]]
    /\ rows \in [Clients -> [Xacts -> 0..MaxRows]]
    /\ answers \in [Clients -> SUBSET Details]
    /\ bill_map \in [Clients -> Maps]
    /\ check_map \in [Clients -> SUBSET Xacts]
    /\ \A w \in Clients : check_map[w] \subseteq Known(w)
    /\ pending \in [Clients -> [Xacts -> Int]]
    /\ form \in [Clients -> Forms]

\* Payments that may still be recorded, each with a new mark.
Coming == {c \in Clients : req[c].at \in {"asked", "checked", "charged"}}
VersionBound == last_xact_id + Cardinality(Coming) <= MaxVersion

TypeInv == MoneyTypes /\ WindowTypes /\ VersionBound

LEMMA TypeInvTypes ==
    ASSUME TypeInv
    PROVE  TypeOK
<1>1. Cardinality(Coming) \in Nat /\ last_xact_id \in Nat /\ MaxVersion \in Nat
  <2>1. Coming \subseteq Clients
    BY DEF Coming
  <2>2. QED
    BY <2>1, FS_Subset, FS_CardinalityType, MoneyAssumption DEF TypeInv, MoneyTypes
<1>2. last_xact_id \in 0..MaxVersion
  BY <1>1 DEF TypeInv, VersionBound
<1>3. ASSUME NEW w \in Clients
      PROVE  /\ funcs[w] \in [Xacts -> Nat] /\ rows[w] \in [Xacts -> 0..MaxRows]
             /\ check_map[w] \subseteq Known(w)
             /\ pending[w] \in [Xacts -> Int] /\ form[w].amount \in Nat
  <2>1. form[w] \in Forms
    BY DEF TypeInv, WindowTypes
  <2>2. QED
    BY <2>1 DEF TypeInv, WindowTypes, Forms
<1>4. QED
  BY <1>2, <1>3 DEF TypeInv, MoneyTypes, TypeOK

LEMMA PatronTyped ==
    ASSUME MoneyTypes
    PROVE  Patron \in Patrons
<1>1. credit \in Int /\ last_xact_id \in Int
  BY DEF MoneyTypes
<1>2. QED
  BY <1>1 DEF Patron, Patrons

LEMMA OwingRows ==
    ASSUME NEW f \in [Xacts -> Nat], NEW S
    PROVE  [x \in Xacts |-> f[x] + IF x \in S THEN 1 ELSE 0] \in [Xacts -> Nat]
  OBVIOUS

\* No window is touched.
LEMMA WindowsStill ==
    ASSUME WindowTypes, UNCHANGED windowvars
    PROVE  WindowTypes'
  BY DEF WindowTypes, windowvars, Known

LEMMA RefreshTypes ==
    ASSUME WindowTypes, MoneyTypes', NEW w \in Clients, Refresh(w), patron' = patron,
           form' \in [Clients -> Forms]
    PROVE  WindowTypes'
<1>1. asked' \in [Clients -> SUBSET Patrons]
  <2>1. Patron' \in Patrons
    <3>1. credit' \in Int /\ last_xact_id' \in Int
      BY DEF MoneyTypes
    <3>2. QED
      BY <3>1 DEF Patron, Patrons
  <2>2. QED
    BY <2>1 DEF WindowTypes, Refresh
<1>2. NoPay \in [Xacts -> Int] /\ NoPay \in [Xacts -> 0..MaxRows]
  BY BillAssumption DEF NoPay
<1>3. /\ rows' \in [Clients -> [Xacts -> 0..MaxRows]]
      /\ pending' \in [Clients -> [Xacts -> Int]]
  BY <1>2 DEF Refresh, WindowTypes
<1>4. funcs' \in [Clients -> [Xacts -> Nat]]
  <2>1. PICK f \in [Xacts -> Nat] : funcs' = [funcs EXCEPT ![w] = f]
    <3>1. funcs[w] \in [Xacts -> Nat]
      BY DEF WindowTypes
    <3>2. [x \in Xacts |-> funcs[w][x] + IF x \in Owing' THEN 1 ELSE 0] \in [Xacts -> Nat]
      BY <3>1, OwingRows
    <3>3. funcs' = [funcs EXCEPT ![w] =
                       [x \in Xacts |-> funcs[w][x] + IF x \in Owing' THEN 1 ELSE 0]]
      BY DEF Refresh, WindowTypes
    <3>4. QED
      BY <3>2, <3>3
  <2>2. QED
    BY <2>1 DEF WindowTypes
<1>5. \A v \in Clients : check_map'[v] \subseteq Known(v)'
  BY DEF Refresh, WindowTypes, Known
<1>6. UNCHANGED <<answers, bill_map, check_map>>
  BY DEF Refresh
<1>7. QED
  BY <1>1, <1>3, <1>4, <1>5, <1>6 DEF WindowTypes

LEMMA PatronInTypes ==
    ASSUME MoneyTypes, WindowTypes, NEW w \in Clients, PatronIn(w)
    PROVE  WindowTypes'
<1>1. PICK p \in asked[w] :
          /\ patron' = [patron EXCEPT ![w] = IF InOrder THEN p ELSE Patron]
          /\ asked' = [asked EXCEPT ![w] = @ \ {p}]
  BY DEF PatronIn
<1>2. p \in Patrons /\ Patron \in Patrons
  BY PatronTyped DEF WindowTypes
<1>3. /\ patron' \in [Clients -> Patrons] /\ asked' \in [Clients -> SUBSET Patrons]
  BY <1>1, <1>2 DEF WindowTypes
<1>4. UNCHANGED <<screen, form>>
  BY DEF PatronIn
<1>5. QED
  BY <1>3, <1>4 DEF WindowTypes, screen, Known

LEMMA AppendRowTypes ==
    ASSUME MoneyTypes, WindowTypes, NEW w \in Clients, NEW x \in Xacts, AppendRow(w, x)
    PROVE  WindowTypes'
<1>1. /\ funcs' = [funcs EXCEPT ![w][x] = @ - 1]
      /\ rows' = [rows EXCEPT ![w][x] = @ + 1]
      /\ pending' = [pending EXCEPT ![w][x] = 0]
      /\ answers' = [answers EXCEPT ![w] = @ \union {[x |-> x, bal |-> Balance(x)]}]
      /\ UNCHANGED <<patron, asked, bill_map, check_map, form>>
      /\ funcs[w][x] > 0 /\ rows[w][x] < MaxRows
  BY DEF AppendRow
<1>2. funcs' \in [Clients -> [Xacts -> Nat]] /\ rows' \in [Clients -> [Xacts -> 0..MaxRows]]
  BY <1>1, BillAssumption DEF WindowTypes
<1>3. pending' \in [Clients -> [Xacts -> Int]]
  BY <1>1 DEF WindowTypes
<1>4. answers' \in [Clients -> SUBSET Details]
  <2>1. [x |-> x, bal |-> Balance(x)] \in Details
    BY BalancesInt DEF Details
  <2>2. QED
    BY <1>1, <2>1 DEF WindowTypes
<1>5. QED
  BY <1>1, <1>2, <1>3, <1>4 DEF WindowTypes, Known

\* What the details of a row change.
LEMMA DetailsCases ==
    ASSUME WindowTypes, NEW w \in Clients, DetailsIn(w)
    PROVE  \E a \in answers[w] :
              /\ a.x \in Xacts /\ a.bal \in Int
              /\ answers' = [answers EXCEPT ![w] = @ \ {a}]
              /\ bill_map'[w] = [x \in Known(w) \union {a.x} |->
                                    IF x = a.x THEN a.bal ELSE bill_map[w][x]]
              /\ bill_map'[w] \in Maps
              /\ check_map'[w] \subseteq check_map[w] \union {a.x}
              /\ bill_map' = [v \in Clients |-> bill_map'[v]]
              /\ check_map' = [v \in Clients |-> check_map'[v]]
              /\ \A v \in Clients \ {w} :
                    bill_map'[v] = bill_map[v] /\ check_map'[v] = check_map[v]
<1>1. PICK a \in answers[w] :
          /\ answers' = [answers EXCEPT ![w] = @ \ {a}]
          /\ bill_map' = [bill_map EXCEPT ![w] =
                [x \in DOMAIN @ \union {a.x} |-> IF x = a.x THEN a.bal ELSE @[x]]]
          /\ check_map' = [check_map EXCEPT ![w] =
                IF a.bal < 0 THEN @ \ {a.x} ELSE @ \union {a.x}]
  BY DEF DetailsIn
<1>2. a \in Details /\ a.x \in Xacts /\ a.bal \in Int
  BY DEF WindowTypes, Details
<1>3. PICK S \in SUBSET Xacts : bill_map[w] \in [S -> Int]
  BY DEF WindowTypes, Maps
<1>4. Known(w) = S
  BY <1>3 DEF Known
<1>5. bill_map'[w] = [x \in Known(w) \union {a.x} |->
                         IF x = a.x THEN a.bal ELSE bill_map[w][x]]
  BY <1>1 DEF WindowTypes, Known
<1>6. bill_map'[w] \in [S \union {a.x} -> Int]
  BY <1>2, <1>3, <1>4, <1>5
<1>7. S \union {a.x} \in SUBSET Xacts
  BY <1>2
<1>8. bill_map'[w] \in Maps
  BY <1>6, <1>7 DEF Maps
<1>9. check_map'[w] \subseteq check_map[w] \union {a.x}
  BY <1>1 DEF WindowTypes
<1>10. /\ bill_map' = [v \in Clients |-> bill_map'[v]]
       /\ check_map' = [v \in Clients |-> check_map'[v]]
       /\ \A v \in Clients \ {w} :
             bill_map'[v] = bill_map[v] /\ check_map'[v] = check_map[v]
  BY <1>1 DEF WindowTypes
<1>11. QED
  BY <1>1, <1>2, <1>5, <1>8, <1>9, <1>10

LEMMA DetailsTypes ==
    ASSUME WindowTypes, NEW w \in Clients, DetailsIn(w)
    PROVE  WindowTypes'
<1>1. PICK a \in answers[w] :
              /\ a.x \in Xacts /\ a.bal \in Int
              /\ answers' = [answers EXCEPT ![w] = @ \ {a}]
              /\ bill_map'[w] = [x \in Known(w) \union {a.x} |->
                                    IF x = a.x THEN a.bal ELSE bill_map[w][x]]
              /\ bill_map'[w] \in Maps
              /\ check_map'[w] \subseteq check_map[w] \union {a.x}
              /\ bill_map' = [v \in Clients |-> bill_map'[v]]
              /\ check_map' = [v \in Clients |-> check_map'[v]]
              /\ \A v \in Clients \ {w} :
                    bill_map'[v] = bill_map[v] /\ check_map'[v] = check_map[v]
  BY DetailsCases
<1>2. answers' \in [Clients -> SUBSET Details]
  BY <1>1 DEF WindowTypes
<1>3. \A v \in Clients : bill_map'[v] \in Maps
  BY <1>1 DEF WindowTypes
<1>4. \A v \in Clients : check_map'[v] \subseteq Xacts /\ check_map'[v] \subseteq Known(v)'
  <2>1. Known(w)' = Known(w) \union {a.x}
    BY <1>1 DEF Known
  <2>2. check_map[w] \subseteq Known(w) /\ check_map[w] \subseteq Xacts
    BY DEF WindowTypes
  <2>3. ASSUME NEW v \in Clients \ {w}
        PROVE  check_map'[v] \subseteq Xacts /\ check_map'[v] \subseteq Known(v)'
    BY <1>1 DEF WindowTypes, Known
  <2>4. QED
    BY <1>1, <2>1, <2>2, <2>3
<1>5. /\ bill_map' \in [Clients -> Maps] /\ check_map' \in [Clients -> SUBSET Xacts]
  BY <1>1, <1>3, <1>4
<1>6. UNCHANGED <<patron, asked, funcs, rows, pending, form>>
  BY DEF DetailsIn
<1>7. QED
  BY <1>2, <1>4, <1>5, <1>6 DEF WindowTypes

\* A form filled in anew: whole amounts, none above what was last known.
LEMMA RedistributeCases ==
    ASSUME WindowTypes, NEW w \in Clients, NEW amount \in Int, NEW checked \in SUBSET Known(w),
           Redistribute(w, amount, checked)
    PROVE  /\ pending' \in [Clients -> [Xacts -> Int]]
           /\ \A x \in Xacts : pending'[w][x] # 0 =>
                 x \in Known(w) /\ pending'[w][x] <= bill_map[w][x]
           /\ \A v \in Clients \ {w} : pending'[v] = pending[v]
<1>1. DEFINE D == Distribution(w, amount, checked, bill_map[w])
<1>2. rows[w] \in [Xacts -> Nat]
  BY BillAssumption DEF WindowTypes
<1>3. \A x \in Known(w) : bill_map[w][x] \in Int
  BY DEF WindowTypes, Maps, Known
<1>4. D \in [Xacts -> Int] /\ \A x \in Xacts : D[x] # 0 => x \in checked /\ D[x] <= bill_map[w][x]
  BY <1>2, <1>3, Distributed
<1>5. pending' = [pending EXCEPT ![w] = D]
  BY DEF Redistribute
<1>6. HIDE DEF D
<1>7. QED
  BY <1>4, <1>5 DEF WindowTypes

\* Another payment is typed in: what becomes of the form and the patron.
LEMMA TenderTypes ==
    ASSUME MoneyTypes, WindowTypes, NEW w \in Clients, NEW type \in Types,
           NEW amount \in Amounts, Tender(w, type, amount)
    PROVE  WindowTypes'
<1>1. DEFINE most == IF type = "credit" THEN Smaller(amount, credit) ELSE amount
<1>2. /\ patron' = IF type = "credit" THEN [patron EXCEPT ![w] = Patron] ELSE patron
      /\ form' = [form EXCEPT ![w] = [type |-> type, amount |-> most]]
      /\ Redistribute(w, most, check_map[w])
      /\ UNCHANGED <<asked, funcs, rows, answers, bill_map, check_map>>
  BY DEF Tender
<1>3. most \in Nat /\ type \in PayTypes
  BY BillAssumption DEF MoneyTypes, Smaller, PayTypes
<1>4. form' \in [Clients -> Forms]
  <2>1. [type |-> type, amount |-> most] \in Forms
    BY <1>3 DEF Forms
  <2>2. QED
    BY <1>2, <2>1 DEF WindowTypes
<1>5. patron' \in [Clients -> Patrons]
  BY <1>2, PatronTyped DEF WindowTypes
<1>6. pending' \in [Clients -> [Xacts -> Int]]
  <2> HIDE DEF most
  <2>1. check_map[w] \in SUBSET Known(w) /\ most \in Int
    BY <1>3 DEF WindowTypes
  <2>2. QED
    BY <1>2, <2>1, RedistributeCases
<1>7. QED
  BY <1>2, <1>4, <1>5, <1>6 DEF WindowTypes, Known

LEMMA RecheckTypes ==
    ASSUME WindowTypes, NEW w \in Clients, NEW checked \in SUBSET Known(w), Recheck(w, checked)
    PROVE  WindowTypes'
<1>1. /\ check_map' = [check_map EXCEPT ![w] = checked]
      /\ Redistribute(w, form[w].amount, checked)
      /\ UNCHANGED <<patron, asked, funcs, rows, answers, bill_map, form>>
  BY DEF Recheck
<1>2. form[w].amount \in Int
  <2>1. form[w] \in Forms
    BY DEF WindowTypes
  <2>2. QED
    BY <2>1 DEF Forms
<1>3. pending' \in [Clients -> [Xacts -> Int]]
  BY <1>1, <1>2, RedistributeCases
<1>4. Known(w) \subseteq Xacts
  BY DEF WindowTypes, Known, Maps
<1>5. QED
  BY <1>1, <1>3, <1>4 DEF WindowTypes, Known

\* Every click that distributes anew checks rows that are known.
LEMMA RecheckCases ==
    ASSUME WindowTypes, NEW w \in Clients,
           Click(w) \/ CheckAll(w) \/ UncheckAll(w) \/ CheckAllRefunds(w)
    PROVE  \E checked \in SUBSET Known(w) : Recheck(w, checked)
<1>1. check_map[w] \subseteq Known(w)
  BY DEF WindowTypes
<1>2. CASE Click(w)
  <2>1. PICK x \in Shown(w) \cap Known(w) :
            Recheck(w, IF x \in check_map[w] THEN check_map[w] \ {x} ELSE check_map[w] \union {x})
    BY <1>2 DEF Click
  <2>2. (IF x \in check_map[w] THEN check_map[w] \ {x} ELSE check_map[w] \union {x})
            \in SUBSET Known(w)
    BY <1>1
  <2>3. QED
    BY <2>1, <2>2
<1>3. CASE CheckAll(w)
  BY <1>3 DEF CheckAll
<1>4. CASE UncheckAll(w)
  BY <1>4 DEF UncheckAll
<1>5. CASE CheckAllRefunds(w)
  <2>1. check_map[w] \union {x \in Known(w) : bill_map[w][x] < 0} \in SUBSET Known(w)
    BY <1>1
  <2>2. QED
    BY <1>5, <2>1 DEF CheckAllRefunds
<1>6. QED
  BY <1>2, <1>3, <1>4, <1>5

LEMMA ToggleTypes ==
    ASSUME WindowTypes, NEW w \in Clients, ToggleAll(w)
    PROVE  WindowTypes'
<1>1. Shown(w) \subseteq Known(w) /\ Shown(w) \subseteq Xacts
  BY DEF ToggleAll, Shown
<1>2. PICK on \in BOOLEAN :
          check_map' = [check_map EXCEPT ![w] = IF on THEN @ \union Shown(w) ELSE @ \ Shown(w)]
  BY DEF ToggleAll
<1>3. /\ check_map' \in [Clients -> SUBSET Xacts]
      /\ \A v \in Clients : check_map'[v] \subseteq Known(v)
  BY <1>1, <1>2 DEF WindowTypes
<1>4. UNCHANGED <<patron, asked, funcs, rows, answers, bill_map, pending, form>>
  BY DEF ToggleAll
<1>5. QED
  BY <1>3, <1>4 DEF WindowTypes, Known

LEMMA PrintTypes ==
    ASSUME MoneyTypes, WindowTypes, NEW w \in Clients, PrintBills(w)
    PROVE  WindowTypes'
<1>1. patron' \in [Clients -> Patrons]
  BY PatronTyped DEF PrintBills, WindowTypes
<1>2. QED
  BY <1>1 DEF PrintBills, WindowTypes, screen, Known

\* The request that a window sends.
LEMMA ApplyCases ==
    ASSUME MoneyTypes, WindowTypes, NEW w \in Clients, Apply(w)
    PROVE  \E r \in Requests :
              /\ req' = [req EXCEPT ![w] = r]
              /\ r.at = "asked" /\ r.xid = patron[w].xid
              /\ r.pay = pending[w] /\ r.times = Lined(w)
              /\ ~CardChange => Exact(r)
<1>1. DEFINE paying == [x \in Xacts |-> pending[w][x] * Lined(w)[x]]
             change == form[w].amount - SumFunction(paying)
             kept(convert) ==
                 CASE form[w].type = "credit" /\ convert -> 0
                   [] form[w].type = "credit" /\ ~convert -> -change
                   [] form[w].type # "credit" /\ convert -> change
                   [] OTHER -> 0
             r(convert) ==
                 Request(form[w].type, pending[w], Lined(w), kept(convert), patron[w].xid)
<1>2. PICK convert \in BOOLEAN :
          /\ form[w].type \in {"card", "approved"} /\ convert => CardChange
          /\ req' = [req EXCEPT ![w] = r(convert)]
  BY DEF Apply
<1>3. /\ pending[w] \in [Xacts -> Int] /\ Lined(w) \in [Xacts -> Nat]
      /\ form[w].type \in PayTypes /\ form[w].amount \in Int /\ patron[w].xid \in Int
  <2>1. form[w] \in Forms /\ patron[w] \in Patrons /\ rows[w] \in [Xacts -> Nat]
    BY BillAssumption DEF WindowTypes
  <2>2. Lined(w) \in [Xacts -> Nat]
    BY <2>1 DEF Lined
  <2>3. QED
    BY <2>1, <2>2 DEF WindowTypes, Forms, Patrons
<1>4. paying \in [Xacts -> Int]
  BY <1>3
<1>5. change \in Int
  <2>1. SumFunction(paying) \in Int
    <3> HIDE DEF paying
    <3>1. QED
      BY <1>4, SumInt, MoneyAssumption
  <2>2. QED
    BY <1>3, <2>1
<1>6. kept(convert) \in Int
  <2> HIDE DEF change
  <2>1. QED
    BY <1>5
<1>7. r(convert) \in Requests
  <2> HIDE DEF kept
  <2>1. QED
    BY <1>3, <1>6, RequestTyped
<1>8. /\ r(convert).at = "asked" /\ r(convert).xid = patron[w].xid
      /\ r(convert).pay = pending[w] /\ r(convert).times = Lined(w)
      /\ r(convert).type = form[w].type /\ r(convert).change = kept(convert)
  <2> HIDE DEF kept
  <2>1. QED
    BY DEF Request
<1>9. ~CardChange => Exact(r(convert))
  <2>1. form[w].type = "card" /\ ~CardChange => kept(convert) = 0
    BY <1>2
  <2> HIDE DEF kept, r
  <2>2. QED
    BY <1>8, <2>1 DEF Exact
<1>10. QED
  <2> HIDE DEF r
  <2>1. QED
    BY <1>2, <1>7, <1>8, <1>9

\* The type invariant, step by step.
LEMMA FewerComing ==
    ASSUME MoneyTypes, VersionBound, last_xact_id' = last_xact_id, Coming' \subseteq Coming
    PROVE  VersionBound'
<1>1. IsFiniteSet(Coming)
  <2>1. Coming \subseteq Clients
    BY DEF Coming
  <2>2. QED
    BY <2>1, FS_Subset, MoneyAssumption
<1>2. Cardinality(Coming') <= Cardinality(Coming)
  BY <1>1, FS_Subset
<1>3. Cardinality(Coming) \in Nat /\ Cardinality(Coming') \in Nat
  BY <1>1, FS_Subset, FS_CardinalityType
<1>4. QED
  BY <1>2, <1>3, MoneyAssumption DEF VersionBound, MoneyTypes

\* A step that concerns no request.
LEMMA ScreenTypes ==
    ASSUME TypeInv, UNCHANGED served, recorded' \in [Clients -> Nat], WindowTypes'
    PROVE  TypeInv'
<1>1. UNCHANGED <<last_xact_id, req>>
  BY DEF served, accounts
<1>2. Coming' = Coming
  BY <1>1 DEF Coming
<1>3. VersionBound'
  BY <1>1, <1>2 DEF TypeInv, VersionBound
<1>4. MoneyTypes'
  BY DEF TypeInv, MoneyTypes, served, accounts, loans
<1>5. QED
  BY <1>3, <1>4 DEF TypeInv

LEMMA ResetNat ==
    ASSUME TypeInv, NEW w \in Clients
    PROVE  /\ recorded \in [Clients -> Nat]
           /\ [recorded EXCEPT ![w] = 0] \in [Clients -> Nat]
  BY DEF TypeInv, MoneyTypes

LEMMA AllStill ==
    ASSUME UNCHANGED moneyvars
    PROVE  UNCHANGED <<served, recorded>>
  BY DEF moneyvars, served, accounts, loans

\* What a card was charged elsewhere for is lost with a request.
LEMMA LostInt ==
    ASSUME MoneyTypes, NEW w \in Clients, Lose(w)
    PROVE  \E k \in Int : taken' = taken + k /\ unreported' = unreported + k
<1>1. PICK k : /\ k = IF req[w].at = "asked" THEN Beforehand(req[w]) ELSE 0
               /\ taken' = taken + k /\ unreported' = unreported + k
  BY DEF Lose
<1>2. k \in Int
  BY <1>1, IsRequest, ReceivedInt
<1>3. QED
  BY <1>1, <1>2

\* A request that is over.
LEMMA OverTypes ==
    ASSUME TypeInv, NEW w \in Clients, req' = [req EXCEPT ![w] = Idle],
           UNCHANGED <<accounts, unrecorded>>, taken' \in Int, unreported' \in Int,
           recorded' \in [Clients -> Nat],
           faults' \in 0..MaxFaults, MoneyTypes' => WindowTypes'
    PROVE  TypeInv'
<1>1. MoneyTypes'
  BY ClientTypes DEF TypeInv
<1>2. Coming' \subseteq Coming /\ last_xact_id' = last_xact_id
  BY DEF Coming, Idle, accounts, TypeInv, MoneyTypes
<1>3. QED
  BY <1>1, <1>2, FewerComing DEF TypeInv

LEMMA ApplyTypeInv ==
    ASSUME TypeInv, NEW w \in Clients, Apply(w)
    PROVE  TypeInv'
<1>1. PICK r \in Requests : req' = [req EXCEPT ![w] = r] /\ r.at = "asked"
  BY ApplyCases DEF TypeInv
<1>2. UNCHANGED <<accounts, taken, unrecorded, unreported, recorded, faults, windowvars>>
  BY DEF Apply
<1>3. MoneyTypes'
  BY <1>1, <1>2, ClientTypes DEF TypeInv, MoneyTypes
<1>4. WindowTypes'
  BY <1>2, WindowsStill DEF TypeInv
<1>5. VersionBound'
  <2>1. DEFINE B == {c \in Clients : ~Free(c)}
  <2>2. last_xact_id + Cardinality(B) < MaxVersion /\ Free(w)
    BY DEF Apply, Ready
  <2>3. IsFiniteSet(B) /\ w \notin B
    BY <2>2, FS_Subset, MoneyAssumption
  <2>4. Cardinality(B \union {w}) = Cardinality(B) + 1 /\ IsFiniteSet(B \union {w})
    BY <2>3, FS_AddElement
  <2>5. Coming' \subseteq B \union {w}
    <3>1. \A c \in Clients \ {w} : req'[c] = req[c]
      BY <1>1 DEF TypeInv, MoneyTypes
    <3>2. QED
      BY <3>1 DEF Coming, Free, Idle
  <2>6. Cardinality(Coming') <= Cardinality(B) + 1 /\ Cardinality(Coming') \in Nat
        /\ Cardinality(B) \in Nat
    <3> HIDE DEF B
    <3>1. QED
      BY <2>3, <2>4, <2>5, FS_Subset, FS_CardinalityType
  <2>7. last_xact_id' = last_xact_id /\ last_xact_id \in Nat
    BY <1>2 DEF accounts, TypeInv, MoneyTypes
  <2>8. QED
    BY <2>2, <2>6, <2>7, MoneyAssumption DEF VersionBound
<1>6. QED
  BY <1>3, <1>4, <1>5 DEF TypeInv

\* The server takes on no new request, and renews the mark once for each.
LEMMA PayBound ==
    ASSUME TypeInv, NEW c \in Clients, Pay(c)
    PROVE  VersionBound'
<1>1. CASE \E result \in Results :
              Done(c, result) /\ req[c].at # "idle" /\ last_xact_id' = last_xact_id
  <2>1. /\ req'[c].at = "done" /\ \A d \in Clients \ {c} : req'[d] = req[d]
    BY <1>1, DoneTyped DEF TypeInv
  <2>2. Coming' \subseteq Coming
    BY <2>1 DEF Coming
  <2>3. QED
    BY <1>1, <2>2, FewerComing DEF TypeInv
<1>2. CASE \E r \in Requests :
              req' = [req EXCEPT ![c] = r] /\ c \in Coming /\ last_xact_id' = last_xact_id
  <2>1. Coming' \subseteq Coming
    BY <1>2, StageTyped DEF Coming, TypeInv
  <2>2. QED
    BY <1>2, <2>1, FewerComing DEF TypeInv
<1>3. CASE Check(c)
  <2>1. MoneyTypes
    BY DEF TypeInv
  <2>2. /\ req[c].at = "asked" /\ last_xact_id' = last_xact_id
        /\ \/ \E result \in Results : Done(c, result)
           \/ /\ req' = [req EXCEPT ![c] = Checked(req[c])]
              /\ Checked(req[c]) \in Requests
    BY <1>3, <2>1, CheckCases DEF accounts
  <2>3. QED
    BY <1>1, <1>2, <2>2 DEF Coming
<1>4. CASE Charge(c)
  <2>1. MoneyTypes
    BY DEF TypeInv
  <2>2. /\ req[c].at = "checked" /\ last_xact_id' = last_xact_id
        /\ \/ Done(c, "DECLINED")
           \/ /\ req' = [req EXCEPT ![c] = [req[c] EXCEPT !.at = "charged"]]
              /\ [req[c] EXCEPT !.at = "charged"] \in Requests
    BY <1>4, <2>1, ChargeCases DEF accounts
  <2>3. "DECLINED" \in Results
    BY DEF Results
  <2>4. QED
    BY <1>1, <1>2, <2>2, <2>3 DEF Coming
<1>5. CASE Failing(c)
  <2>1. MoneyTypes
    BY DEF TypeInv
  <2>2. /\ last_xact_id' = last_xact_id
        /\ req'[c].at = "done" /\ \A d \in Clients \ {c} : req'[d] = req[d]
    BY <1>5, <2>1, FailCases DEF accounts
  <2>3. Coming' \subseteq Coming
    BY <2>2 DEF Coming
  <2>4. QED
    BY <2>1, <2>2, <2>3, FewerComing DEF TypeInv
<1>6. CASE Record(c)
  <2>1. MoneyTypes
    BY DEF TypeInv
  <2>2. /\ Prepared(req[c])
        /\ req' = [req EXCEPT ![c] = Recorded(req[c])] /\ Recorded(req[c]) \in Requests
        /\ last_xact_id' = last_xact_id + 1
    BY <1>6, <2>1, RecordCases DEF Record, Renews
  <2>3. req'[c].at = "done" /\ \A d \in Clients \ {c} : req'[d] = req[d]
    <3>1. req'[c] = Recorded(req[c]) /\ \A d \in Clients \ {c} : req'[d] = req[d]
      BY <2>1, <2>2, StageTyped
    <3>2. req[c] \in Requests
      BY <1>6, <2>1, RecordCases
    <3>3. QED
      BY <3>1, <3>2 DEF Recorded, Requests
  <2>4. Coming' = Coming \ {c} /\ c \in Coming
    BY <2>2, <2>3 DEF Coming, Prepared
  <2>5. IsFiniteSet(Coming)
    <3>1. Coming \subseteq Clients
      BY DEF Coming
    <3>2. QED
      BY <3>1, FS_Subset, MoneyAssumption
  <2>6. Cardinality(Coming') = Cardinality(Coming) - 1 /\ Cardinality(Coming) \in Nat
    BY <2>4, <2>5, FS_RemoveElement, FS_CardinalityType
  <2>7. last_xact_id \in Nat /\ last_xact_id + Cardinality(Coming) <= MaxVersion
    BY <2>1 DEF TypeInv, VersionBound, MoneyTypes
  <2>8. QED
    BY <2>2, <2>6, <2>7, MoneyAssumption DEF VersionBound
<1>7. QED
  BY <1>3, <1>4, <1>5, <1>6 DEF Pay, Failing

\* Bills change no request.
LEMMA NoPaymentTypes ==
    ASSUME TypeInv, NoPayment, MoneyTypes', WindowTypes'
    PROVE  TypeInv'
<1>1. Coming' \subseteq Coming /\ last_xact_id' = last_xact_id
  BY DEF NoPayment, Coming
<1>2. QED
  BY <1>1, FewerComing DEF TypeInv

LEMMA WindowTypeInv ==
    ASSUME TypeInv, NEW w \in Clients, Window(w)
    PROVE  TypeInv'
<1>1. MoneyTypes /\ WindowTypes
  BY DEF TypeInv
<1>2. /\ recorded \in [Clients -> Nat]
      /\ [recorded EXCEPT ![w] = 0] \in [Clients -> Nat]
  BY ResetNat
<1>3. CASE PatronIn(w) \/ DetailsIn(w) \/ \E x \in Xacts : AppendRow(w, x)
  <2>1. WindowTypes'
    BY <1>1, <1>3, PatronInTypes, DetailsTypes, AppendRowTypes
  <2>2. UNCHANGED moneyvars
    BY <1>3 DEF PatronIn, DetailsIn, AppendRow
  <2>3. QED
    BY <1>2, <2>1, <2>2, AllStill, ScreenTypes
<1>4. CASE \E type \in Types, amount \in Amounts : Tender(w, type, amount)
  <2>1. WindowTypes'
    BY <1>1, <1>4, TenderTypes
  <2>2. UNCHANGED served /\ recorded' = [recorded EXCEPT ![w] = 0]
    BY <1>4 DEF Tender, Redistribute
  <2>3. QED
    BY <1>2, <2>1, <2>2, ScreenTypes
<1>5. CASE Click(w) \/ CheckAll(w) \/ UncheckAll(w) \/ CheckAllRefunds(w)
  <2>1. PICK checked \in SUBSET Known(w) : Recheck(w, checked)
    BY <1>1, <1>5, RecheckCases
  <2>2. WindowTypes'
    BY <1>1, <2>1, RecheckTypes
  <2>3. UNCHANGED served /\ recorded' = [recorded EXCEPT ![w] = 0]
    BY <2>1 DEF Recheck, Redistribute
  <2>4. QED
    BY <1>2, <2>2, <2>3, ScreenTypes
<1>6. CASE ToggleAll(w)
  <2>1. UNCHANGED served /\ recorded' = [recorded EXCEPT ![w] = 0]
    BY <1>6 DEF ToggleAll
  <2>2. QED
    BY <1>1, <1>2, <1>6, <2>1, ToggleTypes, ScreenTypes
<1>7. CASE PrintBills(w)
  <2>1. UNCHANGED <<served, recorded>>
    BY <1>7, AllStill DEF PrintBills
  <2>2. QED
    BY <1>1, <1>2, <1>7, <2>1, PrintTypes, ScreenTypes
<1>8. CASE Apply(w)
  BY <1>8, ApplyTypeInv
<1>9. CASE Lose(w)
  <2>1. /\ req' = [req EXCEPT ![w] = Idle] /\ faults' = faults + 1 /\ faults < MaxFaults
        /\ UNCHANGED <<accounts, unrecorded, recorded, windowvars>>
    BY <1>9 DEF Lose, Fault
  <2>2. faults' \in 0..MaxFaults
    BY <1>1, <2>1, MoneyAssumption DEF MoneyTypes
  <2>3. WindowTypes'
    BY <1>1, <2>1, WindowsStill
  <2>4. taken' \in Int /\ unreported' \in Int
    BY <1>1, <1>9, LostInt DEF MoneyTypes
  <2>5. QED
    BY <1>2, <2>1, <2>2, <2>3, <2>4, OverTypes
<1>10. CASE Answer(w)
  <2>1. /\ req' = [req EXCEPT ![w] = Idle]
        /\ form' = [form EXCEPT ![w].amount =
                       IF req[w].result = "SUCCESS" THEN 0 ELSE @]
        /\ UNCHANGED <<accounts, taken, unrecorded, unreported, faults, patron>>
        /\ Refresh(w) \/ UNCHANGED <<asked, screen, recorded>>
    BY <1>10 DEF Answer
  <2>2. form' \in [Clients -> Forms]
    <3>1. form[w] \in Forms
      BY <1>1 DEF WindowTypes
    <3>2. [form[w] EXCEPT !.amount = IF req[w].result = "SUCCESS" THEN 0 ELSE @] \in Forms
      BY <3>1 DEF Forms
    <3>3. form' = [form EXCEPT ![w] =
                      [form[w] EXCEPT !.amount = IF req[w].result = "SUCCESS" THEN 0 ELSE @]]
      BY <1>1, <2>1 DEF WindowTypes
    <3>4. QED
      BY <1>1, <3>2, <3>3 DEF WindowTypes
  <2>3. recorded' \in [Clients -> Nat]
    BY <1>2, <2>1 DEF Refresh
  <2>4. MoneyTypes' => WindowTypes'
    <3>1. CASE Refresh(w)
      BY <1>1, <2>1, <2>2, <3>1, RefreshTypes
    <3>2. CASE UNCHANGED <<asked, screen, recorded>>
      BY <1>1, <2>1, <2>2, <3>2 DEF WindowTypes, screen, Known
    <3>3. QED
      BY <2>1, <3>1, <3>2
  <2>5. faults' \in 0..MaxFaults /\ taken' \in Int /\ unreported' \in Int
    BY <1>1, <2>1 DEF MoneyTypes
  <2>6. QED
    BY <2>1, <2>3, <2>4, <2>5, OverTypes
<1>11. CASE VoidAll(w) \/ Add(w)
  <2>1. /\ \E x \in Xacts : Void(x) \/ Bill(x, 1)
        /\ Refresh(w) /\ UNCHANGED <<patron, form>>
    BY <1>11 DEF VoidAll, Add, Shown
  <2>2. recorded' \in [Clients -> Nat]
    BY <1>2, <2>1 DEF Refresh
  <2>3. MoneyTypes'
    BY <1>1, <2>1, <2>2, VoidTypes, BillTypes
  <2>4. form' \in [Clients -> Forms]
    BY <1>1, <2>1 DEF WindowTypes
  <2>5. WindowTypes'
    BY <1>1, <2>1, <2>3, <2>4, RefreshTypes
  <2>6. NoPayment
    BY <2>1 DEF Void, Bill
  <2>7. QED
    BY <2>3, <2>5, <2>6, NoPaymentTypes
<1>12. CASE BillPatron(w)
  <2>1. PICK x \in Xacts : Bill(x, 1) /\ funcs' = [funcs EXCEPT ![w][x] = @ + 1]
    BY <1>12 DEF BillPatron
  <2>2. UNCHANGED <<recorded, patron, asked, rows, answers, bill_map, check_map, pending, form>>
    BY <1>12 DEF BillPatron
  <2>3. MoneyTypes'
    BY <1>1, <1>2, <2>1, <2>2, BillTypes
  <2>4. WindowTypes'
    BY <1>1, <2>1, <2>2 DEF WindowTypes, Known
  <2>5. NoPayment
    BY <2>1 DEF Bill
  <2>6. QED
    BY <2>3, <2>4, <2>5, NoPaymentTypes
<1>13. QED
  BY <1>3, <1>4, <1>5, <1>6, <1>7, <1>8, <1>9, <1>10, <1>11, <1>12 DEF Window

LEMMA ElsewhereTypeInv ==
    ASSUME TypeInv, NEW x \in Xacts, Elsewhere(x), UNCHANGED windowvars
    PROVE  TypeInv'
<1>1. Befalls(x) /\ UNCHANGED recorded
  BY DEF Elsewhere
<1>2. MoneyTypes'
  BY <1>1, LoanTypes DEF TypeInv, MoneyTypes
<1>3. WindowTypes'
  BY WindowsStill DEF TypeInv
<1>4. NoPayment
  BY <1>1 DEF Befalls, ListOverdue, StopFines, Return, Fine
<1>5. QED
  BY <1>2, <1>3, <1>4, NoPaymentTypes

LEMMA NextTypeInv ==
    ASSUME TypeInv, [Next]_vars
    PROVE  TypeInv'
<1>1. CASE \E w \in Clients : Window(w)
  BY <1>1, WindowTypeInv
<1>2. CASE \E c \in Clients : Pay(c) /\ UNCHANGED windowvars
  BY <1>2, PayTypesKept, PayBound, WindowsStill DEF TypeInv
<1>3. CASE \E x \in Xacts : Elsewhere(x) /\ UNCHANGED windowvars
  BY <1>3, ElsewhereTypeInv
<1>4. CASE UNCHANGED vars
  <2>1. UNCHANGED moneyvars /\ UNCHANGED windowvars
    BY <1>4 DEF vars
  <2>2. WindowTypes' /\ recorded' \in [Clients -> Nat]
    BY <2>1, WindowsStill DEF TypeInv, MoneyTypes, moneyvars
  <2>3. QED
    BY <2>1, <2>2, AllStill, ScreenTypes
<1>5. QED
  BY <1>1, <1>2, <1>3, <1>4 DEF Next

LEMMA InitTypeInv == Init => TypeInv
<1> SUFFICES ASSUME Init PROVE TypeInv
  OBVIOUS
<1>1. MoneyTypes
  BY InitTypes DEF Init
<1>2. NoPay \in [Xacts -> Int] /\ NoPay \in [Xacts -> 0..MaxRows]
  BY BillAssumption DEF NoPay
<1>3. NotRead \in Patrons /\ Patron \in Patrons
  BY <1>1, PatronTyped DEF NotRead, Patrons
<1>4. patron \in [Clients -> Patrons] /\ asked \in [Clients -> SUBSET Patrons]
  BY <1>3 DEF Init
<1>5. bill_map \in [Clients -> Maps] /\ \A w \in Clients : check_map[w] \subseteq Known(w)
  <2>1. <<>> \in [{} -> Int]
    OBVIOUS
  <2>2. <<>> \in Maps
    BY <2>1 DEF Maps
  <2>3. QED
    BY <2>2 DEF Init, Known
<1>6. form \in [Clients -> Forms]
  <2>1. [type |-> "cash", amount |-> 0] \in Forms
    BY DEF Forms, PayTypes
  <2>2. QED
    BY <2>1 DEF Init
<1>7. WindowTypes
  BY <1>2, <1>4, <1>5, <1>6 DEF Init, WindowTypes
<1>8. VersionBound
  <2>1. Coming = {} /\ last_xact_id = 0
    BY DEF Coming, Init, MoneyInit, Idle
  <2>2. Cardinality(Coming) = 0
    BY <2>1, FS_EmptySet
  <2>3. QED
    BY <2>1, <2>2, MoneyAssumption DEF VersionBound
<1>9. QED
  BY <1>1, <1>7, <1>8 DEF TypeInv

LEMMA TypesInvariant == Spec => []TypeInv
<1>1. Init => TypeInv
  BY InitTypeInv
<1>2. TypeInv /\ [Next]_vars => TypeInv'
  BY NextTypeInv
<1>3. QED
  BY <1>1, <1>2, PTL DEF Spec

\* Every figure on the screen and at the server stays a whole amount, whatever
\* the rows on the screen are, nobody has a negative credit, and no row is
\* checked whose balance has never arrived (distribute_payment, make_payments).
THEOREM BillTypesKept == Spec => []TypeOK
<1>1. TypeInv => TypeOK
  BY TypeInvTypes
<1>2. QED
  BY <1>1, TypesInvariant, PTL

-----------------------------------------------------------------------------
(* Recorded once *)

\* Staff do not read the patron again over a list from before a payment, and what
\* was asked for beside the list is not answered with a later state: either it
\* has arrived before a form is sent, or the server reads in the order it is asked.
Guarded == ~Rereads /\ (Patient \/ InOrder)

\* A mark the client may send: one that the patron has, or had.
Past(xid) == xid \in Int /\ xid <= last_xact_id
Stale(xid) == xid < last_xact_id

Posted(r) ==
    /\ {"at", "xid"} \subseteq DOMAIN r
    /\ r.at \in {"asked", "checked", "charged", "done"}

Tables ==
    /\ last_xact_id \in Nat
    /\ DOMAIN req = Clients /\ DOMAIN patron = Clients /\ DOMAIN asked = Clients
    /\ recorded \in [Clients -> {0, 1}]

\* All marks a window holds or has sent are past ones.
Marks(w) ==
    /\ Past(patron[w].xid)
    /\ \A p \in asked[w] : Past(p.xid)
    /\ req[w] = Idle \/ Posted(req[w])
    /\ req[w].at = "asked" => Past(req[w].xid)
    /\ Patient /\ req[w] # Idle => asked[w] = {}

\* Once its form is recorded, all of them are older than the patron's mark, so
\* that no request with one of them passes the comparison.
Spent(w) ==
    /\ Stale(patron[w].xid)
    /\ asked[w] = {} \/ (InOrder /\ \A p \in asked[w] : Stale(p.xid))
    /\ req[w].at = "asked" => Stale(req[w].xid)
    /\ ~Working(w)

WindowInv(w) == Marks(w) /\ (recorded[w] = 1 => Spent(w))

MarkInv == Tables /\ \A w \in Clients : WindowInv(w)

\* Nothing of this happens at the window of w.
Untouched(w) ==
    patron'[w] = patron[w] /\ asked'[w] = asked[w] /\ req'[w] = req[w]

\* The form counts as a new one, or as what it was.
Recount(w) == recorded'[w] \in {recorded[w], 0}

\* Renewing the patron's mark does not harm a window that has no part in it.
LEMMA UntouchedKeeps ==
    ASSUME Tables, Tables', last_xact_id' >= last_xact_id,
           NEW w \in Clients, WindowInv(w), Untouched(w), Recount(w)
    PROVE  WindowInv(w)'
<1>1. Marks(w)'
  BY DEF Tables, WindowInv, Marks, Past, Posted, Untouched
<1>2. ASSUME recorded'[w] = 1 PROVE Spent(w)'
  <2>1. recorded[w] = 1
    BY <1>2 DEF Recount
  <2>2. Spent(w)
    BY <2>1 DEF WindowInv
  <2>3. Past(patron[w].xid) /\ (\A p \in asked[w] : Past(p.xid))
        /\ (req[w].at = "asked" => Past(req[w].xid))
    BY DEF WindowInv, Marks
  <2>4. last_xact_id \in Int /\ last_xact_id' \in Int
    BY DEF Tables
  <2>5. QED
    BY <2>2, <2>3, <2>4 DEF Spent, Stale, Past, Untouched, Working
<1>3. QED
  BY <1>1, <1>2 DEF WindowInv

\* What a step at one window must show.
LEMMA OneWindow ==
    ASSUME MarkInv, NEW w \in Clients, Tables', last_xact_id' >= last_xact_id,
           \A v \in Clients \ {w} : Untouched(v) /\ Recount(v),
           WindowInv(w)'
    PROVE  MarkInv'
<1>1. ASSUME NEW v \in Clients PROVE WindowInv(v)'
  <2>1. CASE v = w
    BY <2>1
  <2>2. CASE v # w
    BY <2>2, UntouchedKeeps DEF MarkInv
  <2>3. QED
    BY <2>1, <2>2
<1>2. QED
  BY <1>1 DEF MarkInv

\* Steps that concern neither the patron nor a request.
LEMMA ScreenStep ==
    ASSUME MarkInv, UNCHANGED <<last_xact_id, req, patron, asked>>,
           recorded' \in [Clients -> {0, 1}], \A w \in Clients : Recount(w)
    PROVE  MarkInv'
<1>1. Tables'
  BY DEF MarkInv, Tables
<1>2. last_xact_id' >= last_xact_id
  BY DEF MarkInv, Tables
<1>3. ASSUME NEW w \in Clients PROVE WindowInv(w)'
  <2>1. Untouched(w)
    BY DEF Untouched
  <2>2. QED
    BY <1>1, <1>2, <2>1, UntouchedKeeps DEF MarkInv
<1>4. QED
  BY <1>1, <1>3 DEF MarkInv

LEMMA CountReset ==
    ASSUME Tables, NEW w \in Clients, recorded' = [recorded EXCEPT ![w] = 0]
    PROVE  /\ recorded' \in [Clients -> {0, 1}] /\ recorded'[w] = 0
           /\ \A v \in Clients : Recount(v)
  BY DEF Tables, Recount

LEMMA CountKept ==
    ASSUME Tables, recorded' = recorded
    PROVE  /\ recorded' \in [Clients -> {0, 1}]
           /\ \A v \in Clients : Recount(v)
  BY DEF Tables, Recount

\* A window that reads the patron at once has the present mark already, and so
\* has not just recorded its form.
LEMMA RereadStep ==
    ASSUME Guarded, MarkInv, NEW w \in Clients, MayReread(w),
           patron' = [patron EXCEPT ![w] = Patron],
           UNCHANGED <<last_xact_id, req, asked>>,
           recorded' \in [Clients -> {0, 1}], \A v \in Clients : Recount(v)
    PROVE  MarkInv'
<1>1. patron[w].xid = last_xact_id
  BY DEF Guarded, MayReread
<1>2. recorded[w] = 0
  <2>1. ~Spent(w)
    BY <1>1 DEF Spent, Stale, MarkInv, Tables
  <2>2. QED
    BY <2>1 DEF MarkInv, WindowInv, Tables
<1>3. recorded'[w] = 0
  BY <1>2 DEF Recount
<1>4. Tables'
  BY DEF MarkInv, Tables
<1>5. patron'[w].xid = last_xact_id
  BY DEF MarkInv, Tables, Patron
<1>6. WindowInv(w)'
  <2>1. Marks(w)
    BY DEF MarkInv, WindowInv
  <2>2. Marks(w)'
    BY <1>5, <2>1 DEF Marks, Past, Posted, MarkInv, Tables
  <2>3. QED
    BY <1>3, <2>2 DEF WindowInv
<1>7. \A v \in Clients \ {w} : Untouched(v) /\ Recount(v)
  BY DEF MarkInv, Tables, Untouched
<1>8. QED
  BY <1>4, <1>6, <1>7, OneWindow DEF MarkInv, Tables

\* After a refresh the form is a new one.
LEMMA RefreshStep ==
    ASSUME MarkInv, NEW w \in Clients, Refresh(w), req'[w] = Idle,
           DOMAIN req' = Clients, \A v \in Clients \ {w} : req'[v] = req[v],
           UNCHANGED <<last_xact_id, patron>>
    PROVE  MarkInv'
<1>1. /\ recorded' = [recorded EXCEPT ![w] = 0]
      /\ asked' = [asked EXCEPT ![w] = @ \union {Patron'}]
  BY DEF Refresh
<1>2. Tables
  BY DEF MarkInv
<1>3. /\ recorded' \in [Clients -> {0, 1}] /\ recorded'[w] = 0
      /\ \A v \in Clients : Recount(v)
  BY <1>1, <1>2, CountReset
<1>4. Tables'
  BY <1>1, <1>2, <1>3 DEF Tables
<1>5. Patron'.xid = last_xact_id
  BY DEF Patron
<1>6. WindowInv(w)'
  <2>1. Marks(w)
    BY DEF MarkInv, WindowInv
  <2>2. asked'[w] = asked[w] \union {Patron'}
    BY <1>1, <1>2 DEF Tables
  <2>3. \A p \in asked'[w] : p.xid \in Int /\ p.xid <= last_xact_id
    BY <1>2, <1>5, <2>1, <2>2 DEF Marks, Past, Tables
  <2>4. req'[w].at # "asked"
    BY DEF Idle
  <2>5. Marks(w)'
    BY <2>1, <2>3, <2>4 DEF Marks, Past, Idle
  <2>6. QED
    BY <1>3, <2>5 DEF WindowInv
<1>7. \A v \in Clients \ {w} : Untouched(v) /\ Recount(v)
  BY <1>1, <1>2, <1>3 DEF Tables, Untouched
<1>8. QED
  BY <1>2, <1>4, <1>6, <1>7, OneWindow DEF Tables

LEMMA PatronStep ==
    ASSUME Guarded, MarkInv, NEW w \in Clients, PatronIn(w)
    PROVE  MarkInv'
<1>1. PICK p \in asked[w] :
          /\ patron' = [patron EXCEPT ![w] = IF InOrder THEN p ELSE Patron]
          /\ asked' = [asked EXCEPT ![w] = @ \ {p}]
  BY DEF PatronIn
<1>2. UNCHANGED <<last_xact_id, req, recorded>>
  BY DEF PatronIn, moneyvars
<1>3. Tables
  BY DEF MarkInv
<1>4. Tables'
  BY <1>1, <1>2, <1>3 DEF Tables
<1>5. Marks(w) /\ (recorded[w] = 1 => Spent(w))
  BY DEF MarkInv, WindowInv
<1>6. /\ patron'[w] = IF InOrder THEN p ELSE Patron
      /\ asked'[w] = asked[w] \ {p}
  BY <1>1, <1>3 DEF Tables
<1>7. p.xid \in Int /\ p.xid <= last_xact_id
  BY <1>5 DEF Marks, Past
<1>8. Patron.xid = last_xact_id /\ last_xact_id \in Int
  BY <1>3 DEF Patron, Tables
<1>9. Marks(w)'
  BY <1>2, <1>5, <1>6, <1>7, <1>8 DEF Marks, Past, Posted
<1>10. ASSUME recorded'[w] = 1 PROVE Spent(w)'
  <2>1. Spent(w)
    BY <1>2, <1>5, <1>10
  <2>2. InOrder /\ Stale(p.xid)
    BY <2>1 DEF Spent
  <2>3. QED
    BY <1>2, <1>6, <2>1, <2>2 DEF Spent, Stale, Working
<1>11. WindowInv(w)'
  BY <1>9, <1>10 DEF WindowInv
<1>12. \A v \in Clients \ {w} : Untouched(v) /\ Recount(v)
  BY <1>1, <1>2, <1>3 DEF Tables, Untouched, Recount
<1>13. last_xact_id' >= last_xact_id
  BY <1>2, <1>8
<1>14. QED
  BY <1>4, <1>11, <1>12, <1>13, OneWindow

-----------------------------------------------------------------------------
(* The window's own steps *)

LEMMA DetailsStep ==
    ASSUME MarkInv, NEW w \in Clients, DetailsIn(w)
    PROVE  MarkInv'
<1>1. UNCHANGED <<last_xact_id, req, patron, asked, recorded>>
  BY DEF DetailsIn, moneyvars
<1>2. QED
  BY <1>1, CountKept, ScreenStep DEF MarkInv

LEMMA AppendStep ==
    ASSUME MarkInv, NEW w \in Clients, NEW x \in Xacts, AppendRow(w, x)
    PROVE  MarkInv'
<1>1. UNCHANGED <<last_xact_id, req, patron, asked, recorded>>
  BY DEF AppendRow, moneyvars
<1>2. QED
  BY <1>1, CountKept, ScreenStep DEF MarkInv

LEMMA TenderStep ==
    ASSUME Guarded, MarkInv, NEW w \in Clients, NEW type, NEW amount, Tender(w, type, amount)
    PROVE  MarkInv'
<1>1. /\ recorded' = [recorded EXCEPT ![w] = 0]
      /\ UNCHANGED <<last_xact_id, req, asked>>
  BY DEF Tender, Redistribute, served, accounts
<1>2. /\ recorded' \in [Clients -> {0, 1}]
      /\ \A v \in Clients : Recount(v)
  BY <1>1, CountReset DEF MarkInv
<1>3. CASE type = "credit"
  <2>1. MayReread(w) /\ patron' = [patron EXCEPT ![w] = Patron]
    BY <1>3 DEF Tender
  <2>2. QED
    BY <1>1, <1>2, <2>1, RereadStep
<1>4. CASE type # "credit"
  <2>1. UNCHANGED patron
    BY <1>4 DEF Tender
  <2>2. QED
    BY <1>1, <1>2, <2>1, ScreenStep
<1>5. QED
  BY <1>3, <1>4

LEMMA RecheckStep ==
    ASSUME MarkInv, NEW w \in Clients, NEW checked, Recheck(w, checked)
    PROVE  MarkInv'
<1>1. /\ recorded' = [recorded EXCEPT ![w] = 0]
      /\ UNCHANGED <<last_xact_id, req, patron, asked>>
  BY DEF Recheck, Redistribute, served, accounts
<1>2. QED
  BY <1>1, CountReset, ScreenStep DEF MarkInv

LEMMA ToggleStep ==
    ASSUME MarkInv, NEW w \in Clients, ToggleAll(w)
    PROVE  MarkInv'
<1>1. /\ recorded' = [recorded EXCEPT ![w] = 0]
      /\ UNCHANGED <<last_xact_id, req, patron, asked>>
  BY DEF ToggleAll, served, accounts
<1>2. QED
  BY <1>1, CountReset, ScreenStep DEF MarkInv

LEMMA PrintStep ==
    ASSUME Guarded, MarkInv, NEW w \in Clients, PrintBills(w)
    PROVE  MarkInv'
<1>1. /\ MayReread(w) /\ patron' = [patron EXCEPT ![w] = Patron]
      /\ UNCHANGED <<last_xact_id, req, asked, recorded>>
  BY DEF PrintBills, moneyvars
<1>2. QED
  BY <1>1, CountKept, RereadStep DEF MarkInv

\* The request carries the mark of the window's patron, and a patient user has
\* waited for what was asked.
LEMMA ApplyStep ==
    ASSUME MarkInv, NEW w \in Clients, Apply(w)
    PROVE  MarkInv'
<1>1. /\ req[w] = Idle /\ (Patient => asked[w] = {})
      /\ UNCHANGED <<last_xact_id, patron, asked, recorded>>
  BY DEF Apply, Ready, Free, Complete, accounts, windowvars
<1>2. PICK r : /\ req' = [req EXCEPT ![w] = r]
               /\ Posted(r) /\ r.at = "asked" /\ r.xid = patron[w].xid
  <2>1. PICK type, kept :
            req' = [req EXCEPT ![w] =
                       Request(type, pending[w], Lined(w), kept, patron[w].xid)]
    BY DEF Apply
  <2>2. DEFINE r == Request(type, pending[w], Lined(w), kept, patron[w].xid)
  <2>3. Posted(r) /\ r.at = "asked" /\ r.xid = patron[w].xid
    BY DEF Request, Posted
  <2>4. req' = [req EXCEPT ![w] = r]
    BY <2>1
  <2>5. HIDE DEF r
  <2>6. QED
    BY <2>3, <2>4
<1>3. Tables
  BY DEF MarkInv
<1>4. Tables'
  BY <1>1, <1>2, <1>3 DEF Tables
<1>5. req'[w] = r
  BY <1>2, <1>3 DEF Tables
<1>6. WindowInv(w)
  BY DEF MarkInv
<1>7. WindowInv(w)'
  BY <1>1, <1>2, <1>5, <1>6 DEF WindowInv, Marks, Spent, Past, Stale, Working, Posted
<1>8. \A v \in Clients \ {w} : Untouched(v) /\ Recount(v)
  BY <1>1, <1>2, <1>3 DEF Tables, Untouched, Recount
<1>9. last_xact_id' >= last_xact_id
  BY <1>1, <1>3 DEF Tables
<1>10. QED
  BY <1>4, <1>7, <1>8, <1>9, OneWindow

\* A request that is over, and nothing else.
LEMMA OverStep ==
    ASSUME MarkInv, NEW w \in Clients, req' = [req EXCEPT ![w] = Idle],
           UNCHANGED <<last_xact_id, patron, asked, recorded>>
    PROVE  MarkInv'
<1>1. Tables
  BY DEF MarkInv
<1>2. req'[w] = Idle /\ Tables'
  BY <1>1 DEF Tables
<1>3. WindowInv(w)
  BY DEF MarkInv
<1>4. WindowInv(w)'
  BY <1>2, <1>3 DEF WindowInv, Marks, Spent, Past, Stale, Working, Idle
<1>5. \A v \in Clients \ {w} : Untouched(v) /\ Recount(v)
  BY <1>1 DEF Tables, Untouched, Recount
<1>6. last_xact_id' >= last_xact_id
  BY <1>1 DEF Tables
<1>7. QED
  BY <1>2, <1>4, <1>5, <1>6, OneWindow

LEMMA LoseStep ==
    ASSUME MarkInv, NEW w \in Clients, Lose(w)
    PROVE  MarkInv'
<1>1. /\ req' = [req EXCEPT ![w] = Idle]
      /\ UNCHANGED <<last_xact_id, patron, asked, recorded>>
  BY DEF Lose, accounts, windowvars
<1>2. QED
  BY <1>1, OverStep

LEMMA AnswerStep ==
    ASSUME MarkInv, NEW w \in Clients, Answer(w)
    PROVE  MarkInv'
<1>1. /\ req' = [req EXCEPT ![w] = Idle]
      /\ UNCHANGED <<last_xact_id, patron>>
  BY DEF Answer, accounts
<1>2. CASE Refresh(w)
  <2>1. /\ req'[w] = Idle /\ DOMAIN req' = Clients
        /\ \A v \in Clients \ {w} : req'[v] = req[v]
    BY <1>1 DEF MarkInv, Tables
  <2>2. QED
    BY <1>1, <1>2, <2>1, RefreshStep
<1>3. CASE UNCHANGED <<asked, screen, recorded>>
  BY <1>1, <1>3, OverStep
<1>4. QED
  BY <1>2, <1>3 DEF Answer

\* The staff bill or void at a window that has no request under way.
LEMMA BillingStep ==
    ASSUME MarkInv, NEW w \in Clients, Ready(w), NoPayment, UNCHANGED patron, Refresh(w)
    PROVE  MarkInv'
<1>1. req'[w] = Idle /\ req' = req /\ last_xact_id' = last_xact_id
  BY DEF Ready, Free, NoPayment
<1>2. DOMAIN req' = Clients
  BY <1>1 DEF MarkInv, Tables
<1>3. QED
  BY <1>1, <1>2, RefreshStep

LEMMA VoidStep ==
    ASSUME MarkInv, NEW w \in Clients, VoidAll(w)
    PROVE  MarkInv'
  BY BillingStep DEF VoidAll, Void

LEMMA AddStep ==
    ASSUME MarkInv, NEW w \in Clients, Add(w)
    PROVE  MarkInv'
  BY BillingStep DEF Add, Bill

LEMMA WizardStep ==
    ASSUME MarkInv, NEW w \in Clients, BillPatron(w)
    PROVE  MarkInv'
<1>1. UNCHANGED <<last_xact_id, req, patron, asked, recorded>>
  BY DEF BillPatron, Bill, NoPayment
<1>2. QED
  BY <1>1, CountKept, ScreenStep DEF MarkInv

LEMMA ElsewhereStep ==
    ASSUME MarkInv, NEW x \in Xacts, Elsewhere(x), UNCHANGED windowvars
    PROVE  MarkInv'
<1>1. UNCHANGED <<last_xact_id, req, patron, asked, recorded>>
  BY DEF Elsewhere, Befalls, ListOverdue, StopFines, Return, Fine, NoPayment, windowvars
<1>2. QED
  BY <1>1, CountKept, ScreenStep DEF MarkInv

LEMMA WindowStep ==
    ASSUME Guarded, MarkInv, NEW w \in Clients, Window(w)
    PROVE  MarkInv'
<1>1. CASE \E type \in Types, amount \in Amounts : Tender(w, type, amount)
  BY <1>1, TenderStep
<1>2. CASE Click(w)
  BY <1>2, RecheckStep DEF Click
<1>3. CASE CheckAll(w) \/ UncheckAll(w) \/ CheckAllRefunds(w)
  BY <1>3, RecheckStep DEF CheckAll, UncheckAll, CheckAllRefunds
<1>4. CASE PatronIn(w) \/ DetailsIn(w) \/ \E x \in Xacts : AppendRow(w, x)
  BY <1>4, PatronStep, DetailsStep, AppendStep
<1>5. CASE ToggleAll(w) \/ PrintBills(w) \/ Apply(w)
  BY <1>5, ToggleStep, PrintStep, ApplyStep
<1>6. CASE Lose(w) \/ Answer(w)
  BY <1>6, LoseStep, AnswerStep
<1>7. CASE VoidAll(w) \/ Add(w) \/ BillPatron(w)
  BY <1>7, VoidStep, AddStep, WizardStep
<1>8. QED
  BY <1>1, <1>2, <1>3, <1>4, <1>5, <1>6, <1>7 DEF Window

-----------------------------------------------------------------------------
(* The server's steps *)

\* A step on the request of w that makes no mark and sends none.
LEMMA ServedStep ==
    ASSUME MarkInv, NEW w \in Clients, NEW r,
           req' = [req EXCEPT ![w] = r], req[w] # Idle,
           Posted(r), r.at # "asked",
           recorded[w] = 1 => r.at = "done",
           UNCHANGED <<last_xact_id, recorded, patron, asked>>
    PROVE  MarkInv'
<1>1. Tables
  BY DEF MarkInv
<1>2. req'[w] = r /\ Tables'
  BY <1>1 DEF Tables
<1>3. WindowInv(w)
  BY DEF MarkInv
<1>4. WindowInv(w)'
  BY <1>2, <1>3 DEF WindowInv, Marks, Spent, Past, Stale, Working, Posted
<1>5. \A v \in Clients \ {w} : Untouched(v) /\ Recount(v)
  BY <1>1 DEF Tables, Untouched, Recount
<1>6. last_xact_id' >= last_xact_id
  BY <1>1 DEF Tables
<1>7. QED
  BY <1>2, <1>4, <1>5, <1>6, OneWindow

LEMMA Busy ==
    ASSUME MarkInv, NEW w \in Clients, req[w].at # "idle"
    PROVE  req[w] # Idle /\ Posted(req[w])
  BY DEF MarkInv, WindowInv, Marks, Idle

\* Done takes the request to its end.
LEMMA DoneStep ==
    ASSUME MarkInv, NEW w \in Clients, NEW result, Done(w, result), req[w].at # "idle",
           UNCHANGED <<last_xact_id, recorded, patron, asked>>
    PROVE  MarkInv'
<1>1. req[w] # Idle /\ Posted(req[w])
  BY Busy
<1>2. DEFINE r == [[req[w] EXCEPT !.at = "done"] EXCEPT !.result = result]
<1>3. Posted(r) /\ r.at = "done"
  BY <1>1 DEF Posted
<1>4. req' = [req EXCEPT ![w] = r]
  BY DEF Done, MarkInv, Tables
<1>5. HIDE DEF r
<1>6. QED
  BY <1>1, <1>3, <1>4, ServedStep

\* A form that has been recorded does not pass the comparison of marks.
LEMMA CheckStep ==
    ASSUME MarkInv, NEW w \in Clients, Check(w), UNCHANGED windowvars
    PROVE  MarkInv'
<1>1. /\ UNCHANGED <<last_xact_id, recorded, patron, asked>>
      /\ req[w].at = "asked"
  BY DEF Check, accounts, windowvars
<1>2. CASE \E result : Fails(w, result)
  BY <1>1, <1>2, DoneStep DEF Fails
<1>3. CASE /\ Version(req[w])
           /\ req' = [req EXCEPT ![w].at = "checked", ![w].bal = Balances,
                                 ![w].credit = credit]
  <2>1. req[w] # Idle /\ Posted(req[w])
    BY <1>1, Busy
  <2>2. DEFINE r == [[[req[w] EXCEPT !.at = "checked"] EXCEPT !.bal = Balances]
                        EXCEPT !.credit = credit]
  <2>3. Posted(r) /\ r.at = "checked"
    BY <2>1 DEF Posted
  <2>4. req' = [req EXCEPT ![w] = r]
    BY <1>3 DEF MarkInv, Tables
  <2>5. HIDE DEF r
  <2>6. recorded[w] # 1
    BY <1>1, <1>3 DEF MarkInv, WindowInv, Spent, Stale, Version, Tables
  <2>7. QED
    BY <1>1, <2>1, <2>3, <2>4, <2>6, ServedStep
<1>4. QED
  BY <1>2, <1>3 DEF Check

LEMMA ChargeStep ==
    ASSUME MarkInv, NEW w \in Clients, Charge(w), UNCHANGED windowvars
    PROVE  MarkInv'
<1>1. /\ UNCHANGED <<last_xact_id, recorded, patron, asked>>
      /\ req[w].at = "checked"
  BY DEF Charge, accounts, windowvars
<1>2. CASE Done(w, "DECLINED")
  BY <1>1, <1>2, DoneStep
<1>3. CASE req' = [req EXCEPT ![w].at = "charged"]
  <2>1. req[w] # Idle /\ Posted(req[w])
    BY <1>1, Busy
  <2>2. DEFINE r == [req[w] EXCEPT !.at = "charged"]
  <2>3. Posted(r) /\ r.at = "charged"
    BY <2>1 DEF Posted
  <2>4. req' = [req EXCEPT ![w] = r]
    BY <1>3 DEF MarkInv, Tables
  <2>5. HIDE DEF r
  <2>6. recorded[w] # 1
    BY <1>1 DEF MarkInv, WindowInv, Spent, Working
  <2>7. QED
    BY <1>1, <2>1, <2>3, <2>4, <2>6, ServedStep
<1>4. QED
  BY <1>2, <1>3 DEF Charge

\* The mark is renewed, and leaves every other one behind.
LEMMA RecordStep ==
    ASSUME Guarded, MarkInv, NEW w \in Clients, Record(w), UNCHANGED windowvars
    PROVE  MarkInv'
<1>1. /\ Working(w)
      /\ last_xact_id' = last_xact_id + 1
      /\ recorded' = [recorded EXCEPT ![w] = @ + 1]
      /\ UNCHANGED <<patron, asked>>
  BY DEF Record, Prepared, Renews, Working, windowvars
<1>2. req[w] # Idle /\ Posted(req[w])
  BY <1>1, Busy DEF Working
<1>3. PICK r : req' = [req EXCEPT ![w] = r] /\ Posted(r) /\ r.at = "done"
  <2>1. DEFINE r == [[[req[w] EXCEPT !.at = "done"] EXCEPT !.result = "SUCCESS"]
                        EXCEPT !.xid = Renews(req[w])]
  <2>2. Posted(r) /\ r.at = "done"
    BY <1>2 DEF Posted
  <2>3. req' = [req EXCEPT ![w] = r]
    BY DEF Record, MarkInv, Tables
  <2>4. HIDE DEF r
  <2>5. QED
    BY <2>2, <2>3
<1>4. Tables
  BY DEF MarkInv
<1>5. WindowInv(w)
  BY DEF MarkInv
<1>6. recorded[w] = 0
  BY <1>1, <1>4, <1>5 DEF WindowInv, Spent, Tables
<1>7. req'[w] = r /\ recorded'[w] = 1
  BY <1>1, <1>3, <1>4, <1>6 DEF Tables
<1>8. Tables'
  BY <1>1, <1>3, <1>4, <1>6 DEF Tables
<1>9. Marks(w)'
  BY <1>1, <1>2, <1>3, <1>4, <1>5, <1>7 DEF WindowInv, Marks, Past, Tables
<1>10. Spent(w)'
  <2>1. \A p \in asked[w] : p.xid < last_xact_id'
    BY <1>1, <1>4, <1>5 DEF WindowInv, Marks, Past, Tables
  <2>2. patron[w].xid < last_xact_id'
    BY <1>1, <1>4, <1>5 DEF WindowInv, Marks, Past, Tables
  <2>3. asked[w] = {} \/ InOrder
    BY <1>2, <1>5 DEF WindowInv, Marks, Guarded
  <2>4. QED
    BY <1>1, <1>3, <1>7, <2>1, <2>2, <2>3 DEF Spent, Stale, Working
<1>11. \A v \in Clients \ {w} : Untouched(v) /\ Recount(v)
  BY <1>1, <1>3, <1>4 DEF Tables, Untouched, Recount
<1>12. last_xact_id' >= last_xact_id
  BY <1>1, <1>4 DEF Tables
<1>13. QED
  BY <1>8, <1>9, <1>10, <1>11, <1>12, OneWindow DEF WindowInv

LEMMA FailureStep ==
    ASSUME MarkInv, NEW w \in Clients, Failing(w), UNCHANGED windowvars
    PROVE  MarkInv'
<1>1. UNCHANGED <<last_xact_id, recorded, patron, asked>> /\ req[w].at # "idle"
  BY DEF Failing, RecordingFails, UpdateFails, CommitFails, Prepared, accounts, windowvars
<1>2. CASE RecordingFails(w) \/ UpdateFails(w)
  <2>1. \E result : Done(w, result)
    BY <1>2 DEF RecordingFails, UpdateFails, Fails
  <2>2. QED
    BY <1>1, <2>1, DoneStep
<1>3. CASE CommitFails(w)
  <2>1. req[w] # Idle /\ Posted(req[w])
    BY <1>1, Busy
  <2>2. DEFINE r == [[[req[w] EXCEPT !.at = "done"] EXCEPT !.result = "SUCCESS"]
                        EXCEPT !.xid = NeverCurrent]
  <2>3. Posted(r) /\ r.at = "done"
    BY <2>1 DEF Posted
  <2>4. req' = [req EXCEPT ![w] = r]
    BY <1>3 DEF CommitFails, MarkInv, Tables
  <2>5. HIDE DEF r
  <2>6. QED
    BY <1>1, <2>1, <2>3, <2>4, ServedStep
<1>4. QED
  BY <1>2, <1>3 DEF Failing

-----------------------------------------------------------------------------

LEMMA InitMarks == Init => MarkInv
<1>1. ASSUME Init PROVE Tables
  BY <1>1 DEF Init, MoneyInit, Tables
<1>2. ASSUME Init, NEW w \in Clients PROVE WindowInv(w)
  <2>1. recorded[w] = 0 /\ req[w] = Idle /\ last_xact_id = 0
        /\ patron[w] = NotRead /\ asked[w] = {Patron}
    BY <1>2 DEF Init, MoneyInit
  <2>2. QED
    BY <2>1 DEF WindowInv, Marks, Past, Idle, NotRead, Patron
<1>3. QED
  BY <1>1, <1>2 DEF MarkInv

LEMMA NextMarks ==
    ASSUME Guarded, MarkInv, [Next]_vars
    PROVE  MarkInv'
<1>1. CASE \E w \in Clients : Window(w)
  BY <1>1, WindowStep
<1>2. CASE \E c \in Clients : Pay(c) /\ UNCHANGED windowvars
  BY <1>2, CheckStep, ChargeStep, RecordStep, FailureStep DEF Pay, Failing
<1>3. CASE \E x \in Xacts : Elsewhere(x) /\ UNCHANGED windowvars
  BY <1>3, ElsewhereStep
<1>4. CASE UNCHANGED vars
  <2>1. UNCHANGED <<last_xact_id, req, patron, asked, recorded>>
    BY <1>4 DEF vars, moneyvars, windowvars
  <2>2. QED
    BY <2>1, CountKept, ScreenStep DEF MarkInv
<1>5. QED
  BY <1>1, <1>2, <1>3, <1>4 DEF Next

LEMMA MarksInvariant ==
    ASSUME Guarded
    PROVE  Spec => []MarkInv
<1>1. Init => MarkInv
  BY InitMarks
<1>2. MarkInv /\ [Next]_vars => MarkInv'
  BY NextMarks
<1>3. QED
  BY <1>1, <1>2, PTL DEF Spec

\* However often a form is sent again, after a lost answer, a failure or an event,
\* and whatever the other windows pay at the same time, its payment is recorded
\* at most once (last_xact_id in make_payments and pay).
THEOREM RecordedAtMostOnce ==
    ASSUME Guarded
    PROVE  Spec => []RecordedOnce
<1>1. MarkInv => RecordedOnce
  BY DEF MarkInv, Tables, RecordedOnce
<1>2. QED
  BY <1>1, MarksInvariant, PTL

-----------------------------------------------------------------------------
(* What is paid was owed *)

Alone == \A v, w \in Clients : v = w

\* Payments come one at a time at the server; staff wait for the list and do not
\* read the patron again over an old one; and either there is one window, or what
\* is asked for at each is read in order and no bills are voided.
Careful == ~Overlap /\ Patient /\ ~Rereads /\ (Alone \/ (InOrder /\ Voids = {}))

\* The window holds the present mark, or it is on its way.
Current(w) ==
    patron[w].xid = last_xact_id \/ \E p \in asked[w] : p.xid = last_xact_id

\* The balances of window w, while it is current, are at most the present ones,
\* and what is entered beside a row is covered by them.
ListInv(w) ==
    /\ req[w] # Idle => Complete(w)
    /\ \A x \in Xacts : funcs[w][x] + rows[w][x] <= 1
    /\ Current(w) => \A a \in answers[w] : a.bal <= Balance(a.x)
    /\ \A x \in Shown(w) :
          \/ \E a \in answers[w] : a.x = x
          \/ x \in Known(w) /\ (Current(w) => bill_map[w][x] <= Balance(x))
    /\ Current(w) => \A x \in Shown(w) : pending[w][x] # 0 => pending[w][x] <= Balance(x)
    /\ Alone => \A p \in asked[w] : p.xid = last_xact_id

Lists == \A w \in Clients : ListInv(w)

\* No balance falls and no payment is recorded.
Rising ==
    /\ last_xact_id' = last_xact_id
    /\ \A x \in Xacts : Balance(x)' >= Balance(x)

\* The list of w is as it was, but that rows may be queued while it sends nothing.
SameList(w) ==
    /\ rows'[w] = rows[w] /\ answers'[w] = answers[w] /\ bill_map'[w] = bill_map[w]
    /\ \/ funcs'[w] = funcs[w]
       \/ req'[w] = Idle /\ \A x \in Xacts : funcs'[w][x] + rows'[w][x] <= 1
    /\ asked'[w] \subseteq asked[w]
    /\ Current(w)' => Current(w)

\* What is entered is as it was, or it is within what was known of a complete list.
Entered(w) ==
    \/ pending'[w] = pending[w]
    \/ /\ Complete(w)
       /\ \A x \in Xacts : pending'[w][x] # 0 =>
             x \in Known(w) /\ pending'[w][x] <= bill_map[w][x]

LEMMA KeepsList ==
    ASSUME TypeInv, TypeInv', NEW w \in Clients, ListInv(w), Rising, SameList(w), Entered(w),
           req'[w] # Idle => Complete(w)
    PROVE  ListInv(w)'
<1>1. \A x \in Xacts : /\ Balance(x) \in Int /\ Balance(x)' \in Int
                       /\ Balance(x)' >= Balance(x) /\ pending'[w][x] \in Int
  <2>1. \A x \in Xacts : Balance(x) \in Int
    BY BalancesInt DEF TypeInv
  <2>2. \A x \in Xacts : Balance(x)' \in Int
    BY DEF TypeInv, MoneyTypes, Balance
  <2>3. \A x \in Xacts : pending'[w][x] \in Int
    BY DEF TypeInv, WindowTypes
  <2>4. QED
    BY <2>1, <2>2, <2>3 DEF Rising
<1>2. \A a \in answers[w] : a.x \in Xacts /\ a.bal \in Int
  BY DEF TypeInv, WindowTypes, Details
<1>3. \A x \in Known(w) : bill_map[w][x] \in Int
  BY DEF TypeInv, WindowTypes, Maps, Known
<1>4. Shown(w)' = Shown(w) /\ Shown(w) \subseteq Xacts /\ Known(w)' = Known(w)
  BY DEF SameList, Shown, Known
<1>5. req'[w] # Idle => Complete(w)'
  BY DEF SameList, Complete, ListInv
<1>6. \A x \in Xacts : funcs'[w][x] + rows'[w][x] <= 1
  BY DEF SameList, ListInv
<1>7. Current(w)' => \A a \in answers'[w] : a.bal <= Balance(a.x)'
  <2>1. ASSUME Current(w)', NEW a \in answers[w] PROVE a.bal <= Balance(a.x)'
    <3>1. a.bal <= Balance(a.x)
      BY <2>1 DEF SameList, ListInv
    <3>2. a.x \in Xacts /\ a.bal \in Int
      BY <1>2
    <3>3. QED
      BY <1>1, <3>1, <3>2
  <2>2. PICK X : X = answers[w]
    OBVIOUS
  <2>3. answers'[w] = X
    BY <2>2 DEF SameList
  <2>4. QED
    BY <2>1, <2>2, <2>3
<1>8. ASSUME NEW x \in Shown(w)
      PROVE  \/ \E a \in answers'[w] : a.x = x
             \/ x \in Known(w)' /\ (Current(w)' => bill_map'[w][x] <= Balance(x)')
  <2>1. CASE \E a \in answers[w] : a.x = x
    BY <2>1 DEF SameList
  <2>2. CASE x \in Known(w) /\ (Current(w) => bill_map[w][x] <= Balance(x))
    <3>1. ASSUME Current(w)' PROVE bill_map[w][x] <= Balance(x)'
      <4>1. bill_map[w][x] <= Balance(x)
        BY <2>2, <3>1 DEF SameList
      <4>2. QED
        BY <1>1, <1>3, <1>4, <2>2, <4>1
    <3>2. QED
      BY <1>4, <2>2, <3>1 DEF SameList
  <2>3. QED
    BY <2>1, <2>2 DEF ListInv
<1>9. ASSUME Current(w)', NEW x \in Shown(w), pending'[w][x] # 0
      PROVE  pending'[w][x] <= Balance(x)'
  <2>1. Current(w) /\ x \in Xacts
    BY <1>4, <1>9 DEF SameList
  <2>2. pending'[w][x] <= Balance(x)
    <3>1. CASE pending'[w] = pending[w]
      BY <1>9, <2>1, <3>1 DEF ListInv
    <3>2. CASE /\ Complete(w)
               /\ x \in Known(w) /\ pending'[w][x] <= bill_map[w][x]
      <4>1. bill_map[w][x] <= Balance(x)
        BY <2>1, <3>2 DEF ListInv, Complete
      <4>2. QED
        BY <1>1, <1>3, <2>1, <3>2, <4>1
    <3>3. QED
      BY <1>9, <2>1, <3>1, <3>2 DEF Entered
  <2>3. QED
    BY <1>1, <2>1, <2>2
<1>10. Alone => \A p \in asked'[w] : p.xid = last_xact_id'
  BY DEF SameList, ListInv, Rising
<1>11. QED
  BY <1>4, <1>5, <1>6, <1>7, <1>8, <1>9, <1>10 DEF ListInv

\* A window none of whose variables a step writes.
Aside(w) ==
    /\ patron'[w] = patron[w] /\ asked'[w] = asked[w] /\ funcs'[w] = funcs[w]
    /\ rows'[w] = rows[w] /\ answers'[w] = answers[w] /\ bill_map'[w] = bill_map[w]
    /\ pending'[w] = pending[w]

LEMMA AsideList ==
    ASSUME TypeInv, TypeInv', NEW w \in Clients, ListInv(w), Rising, Aside(w),
           req'[w] # Idle => req[w] # Idle \/ Complete(w)
    PROVE  ListInv(w)'
<1>1. Current(w)' => Current(w)
  BY DEF Aside, Rising, Current
<1>2. SameList(w) /\ Entered(w)
  BY <1>1 DEF Aside, SameList, Entered
<1>3. req'[w] # Idle => Complete(w)
  BY DEF ListInv
<1>4. QED
  BY <1>2, <1>3, KeepsList

\* A window that was complete reads the list anew, whatever has become of the balances.
LEMMA RefreshedList ==
    ASSUME TypeInv, TypeInv', NEW w \in Clients, Complete(w), Refresh(w), req'[w] = Idle
    PROVE  ListInv(w)'
<1>1. rows'[w] = NoPay /\ answers'[w] = {} /\ asked'[w] = {Patron'}
  BY DEF Refresh, Complete, TypeInv, WindowTypes
<1>2. funcs'[w] = [x \in Xacts |-> funcs[w][x] + IF x \in Owing' THEN 1 ELSE 0]
  BY DEF Refresh, TypeInv, WindowTypes
<1>3. \A x \in Xacts : funcs'[w][x] + rows'[w][x] <= 1
  BY <1>1, <1>2 DEF Complete, NoPay
<1>4. Shown(w)' = {}
  BY <1>1 DEF Shown, NoPay
<1>5. Patron'.xid = last_xact_id'
  BY DEF Patron
<1>6. QED
  BY <1>1, <1>3, <1>4, <1>5 DEF ListInv

CarefulInv == TypeInv /\ MarkInv /\ PayInv /\ Lists

LEMMA StillRising ==
    ASSUME TypeInv, UNCHANGED accounts
    PROVE  Rising
<1>1. \A x \in Xacts : Balance(x)' = Balance(x) /\ Balance(x) \in Int
  BY BalancesInt DEF TypeInv, accounts, Balance
<1>2. QED
  BY <1>1 DEF Rising, accounts

LEMMA BillRising ==
    ASSUME TypeInv, NEW x \in Xacts, Bill(x, 1) \/ Befalls(x)
    PROVE  Rising
<1>1. MoneyTypes
  BY DEF TypeInv
<1>2. PICK amount \in {0, 1} : billed' = [billed EXCEPT ![x] = @ + amount]
  <2>1. CASE Bill(x, 1)
    BY <2>1 DEF Bill
  <2>2. CASE ListOverdue(x) \/ StopFines(x) \/ Return(x)
    <3>1. billed' = billed
      BY <2>2 DEF ListOverdue, StopFines, Return
    <3>2. billed' = [billed EXCEPT ![x] = @ + 0]
      BY <1>1, <3>1 DEF MoneyTypes
    <3>3. QED
      BY <3>2
  <2>3. CASE \E amount \in {0, 1}, maxed \in BOOLEAN : Fine(x, amount, maxed)
    BY <2>3 DEF Fine
  <2>4. QED
    BY <2>1, <2>2, <2>3 DEF Befalls
<1>3. \A y \in Xacts : billed'[y] >= billed[y] /\ billed[y] \in Int /\ billed'[y] \in Int
                        /\ paid[y] \in Int
  BY <1>1, <1>2 DEF MoneyTypes
<1>4. UNCHANGED <<paid, last_xact_id>>
  BY DEF Bill, Befalls, ListOverdue, StopFines, Return, Fine, NoPayment
<1>5. QED
  BY <1>3, <1>4 DEF Rising, Balance

\* The other windows.
LEMMA OneList ==
    ASSUME TypeInv, TypeInv', Lists, Rising, NEW w \in Clients,
           \A v \in Clients \ {w} : Aside(v) /\ req'[v] = req[v],
           ListInv(w)'
    PROVE  Lists'
<1>1. ASSUME NEW v \in Clients PROVE ListInv(v)'
  <2>1. CASE v = w
    BY <2>1
  <2>2. CASE v # w
    BY <2>2, AsideList DEF Lists
  <2>3. QED
    BY <2>1, <2>2
<1>2. QED
  BY <1>1 DEF Lists

\* No window is touched, and none sends a request.
LEMMA NoList ==
    ASSUME TypeInv, TypeInv', Lists, Rising, UNCHANGED windowvars,
           \A v \in Clients : req'[v] # Idle => req[v] # Idle
    PROVE  Lists'
<1>1. ASSUME NEW v \in Clients PROVE ListInv(v)'
  <2>1. Aside(v)
    BY DEF Aside, windowvars
  <2>2. QED
    BY <2>1, AsideList DEF Lists
<1>2. QED
  BY <1>1 DEF Lists

\* Clicks and readings of the patron, at a window that asks for nothing.
LEMMA PatronInList ==
    ASSUME Careful, TypeInv, TypeInv', Lists, NEW w \in Clients, PatronIn(w)
    PROVE  Lists'
<1>1. PICK p \in asked[w] :
          /\ patron' = [patron EXCEPT ![w] = IF InOrder THEN p ELSE Patron]
          /\ asked' = [asked EXCEPT ![w] = @ \ {p}]
  BY DEF PatronIn
<1>2. UNCHANGED <<accounts, req, screen>>
  BY DEF PatronIn, moneyvars, accounts, loans
<1>3. Rising /\ last_xact_id' = last_xact_id
  BY <1>2, StillRising DEF accounts
<1>4. ListInv(w)
  BY DEF Lists
<1>5. req'[w] = Idle
  BY <1>1, <1>2, <1>4 DEF ListInv, Complete
<1>6. /\ patron'[w] = IF InOrder THEN p ELSE Patron
      /\ asked'[w] = asked[w] \ {p}
      /\ \A v \in Clients \ {w} : patron'[v] = patron[v] /\ asked'[v] = asked[v]
  BY <1>1 DEF TypeInv, WindowTypes
<1>7. Current(w)' => Current(w)
  <2>1. CASE InOrder
    BY <1>3, <1>6, <2>1 DEF Current
  <2>2. CASE ~InOrder
    <3>1. p.xid = last_xact_id
      BY <1>4, <2>2 DEF Careful, ListInv
    <3>2. QED
      BY <3>1 DEF Current
  <2>3. QED
    BY <2>1, <2>2
<1>8. SameList(w) /\ Entered(w)
  BY <1>2, <1>6, <1>7 DEF SameList, Entered, screen
<1>9. ListInv(w)'
  BY <1>3, <1>4, <1>5, <1>8, KeepsList
<1>10. \A v \in Clients \ {w} : Aside(v) /\ req'[v] = req[v]
  BY <1>2, <1>6 DEF Aside, screen
<1>11. QED
  BY <1>3, <1>9, <1>10, OneList

\* A window that reads the patron at once holds the present mark already.
LEMMA ClickList ==
    ASSUME Careful, TypeInv, TypeInv', Lists, NEW w \in Clients, Ready(w),
           \/ UNCHANGED patron
           \/ MayReread(w) /\ patron' = [patron EXCEPT ![w] = Patron],
           Entered(w), \A v \in Clients \ {w} : pending'[v] = pending[v],
           UNCHANGED <<accounts, req, asked, funcs, rows, answers, bill_map>>
    PROVE  Lists'
<1>1. Rising /\ last_xact_id' = last_xact_id
  BY StillRising DEF accounts
<1>2. Current(w)' => Current(w)
  BY <1>1 DEF Careful, MayReread, Current, Patron, TypeInv, WindowTypes
<1>3. SameList(w)
  BY <1>2 DEF SameList
<1>4. req'[w] = Idle
  BY DEF Ready, Free
<1>5. ListInv(w)'
  BY <1>1, <1>3, <1>4, KeepsList DEF Lists
<1>6. \A v \in Clients \ {w} : Aside(v) /\ req'[v] = req[v]
  BY DEF Aside, TypeInv, WindowTypes
<1>7. QED
  BY <1>1, <1>5, <1>6, OneList

LEMMA AppendList ==
    ASSUME TypeInv, TypeInv', Lists, NEW w \in Clients, NEW x \in Xacts, AppendRow(w, x)
    PROVE  Lists'
<1>1. /\ funcs' = [funcs EXCEPT ![w][x] = @ - 1]
      /\ rows' = [rows EXCEPT ![w][x] = @ + 1]
      /\ pending' = [pending EXCEPT ![w][x] = 0]
      /\ answers' = [answers EXCEPT ![w] = @ \union {[x |-> x, bal |-> Balance(x)]}]
      /\ UNCHANGED <<patron, asked, bill_map>>
      /\ funcs[w][x] > 0
  BY DEF AppendRow
<1>2. UNCHANGED <<accounts, req>>
  BY DEF AppendRow, moneyvars, accounts, loans
<1>3. Rising /\ last_xact_id' = last_xact_id
  BY <1>2, StillRising DEF accounts
<1>4. \A y \in Xacts : Balance(y)' = Balance(y) /\ Balance(y) \in Int
  BY <1>2, BalancesInt DEF accounts, Balance, TypeInv
<1>5. ListInv(w)
  BY DEF Lists
<1>6. req'[w] = Idle
  BY <1>1, <1>2, <1>5 DEF ListInv, Complete, NoPay
<1>7. /\ funcs[w] \in [Xacts -> Nat] /\ rows[w] \in [Xacts -> Nat]
      /\ pending[w] \in [Xacts -> Int]
  BY BillAssumption DEF TypeInv, WindowTypes
<1>8. /\ funcs'[w][x] = funcs[w][x] - 1 /\ rows'[w][x] = rows[w][x] + 1
      /\ pending'[w][x] = 0
      /\ \A y \in Xacts \ {x} : /\ funcs'[w][y] = funcs[w][y] /\ rows'[w][y] = rows[w][y]
                                /\ pending'[w][y] = pending[w][y]
  BY <1>1 DEF TypeInv, WindowTypes
<1>9. answers'[w] = answers[w] \union {[x |-> x, bal |-> Balance(x)]}
  BY <1>1 DEF TypeInv, WindowTypes
<1>10. Current(w)' = Current(w) /\ Known(w)' = Known(w)
  BY <1>1, <1>3 DEF Current, Known
<1>11. \A y \in Xacts : funcs'[w][y] + rows'[w][y] <= 1
  <2>1. \A y \in Xacts : funcs[w][y] + rows[w][y] <= 1
    BY <1>5 DEF ListInv
  <2>2. QED
    BY <1>7, <1>8, <2>1
<1>12. \A y \in Shown(w)' : y = x \/ (y # x /\ y \in Shown(w))
  BY <1>8 DEF Shown
<1>13. Current(w)' => \A a \in answers'[w] : a.bal <= Balance(a.x)'
  <2>1. ASSUME Current(w), NEW a \in answers'[w] PROVE a.bal <= Balance(a.x)'
    <3>1. CASE a = [x |-> x, bal |-> Balance(x)]
      BY <1>4, <3>1
    <3>2. CASE a \in answers[w]
      <4>1. a.bal <= Balance(a.x) /\ a.x \in Xacts
        BY <1>5, <2>1, <3>2 DEF ListInv, TypeInv, WindowTypes, Details
      <4>2. QED
        BY <1>4, <4>1
    <3>3. QED
      BY <1>9, <3>1, <3>2
  <2>2. QED
    BY <1>10, <2>1
<1>14. ASSUME NEW y \in Shown(w)'
       PROVE  \/ \E a \in answers'[w] : a.x = y
              \/ y \in Known(w)' /\ (Current(w)' => bill_map'[w][y] <= Balance(y)')
  <2>1. CASE y = x
    <3>1. DEFINE a == [x |-> x, bal |-> Balance(x)]
    <3>2. a \in answers'[w] /\ a.x = x
      BY <1>9
    <3>3. HIDE DEF a
    <3>4. QED
      BY <2>1, <3>2
  <2>2. CASE y \in Shown(w)
    <3>1. \/ \E a \in answers[w] : a.x = y
          \/ y \in Known(w) /\ (Current(w) => bill_map[w][y] <= Balance(y))
      BY <1>5, <2>2 DEF ListInv
    <3>2. y \in Xacts
      BY <2>2 DEF Shown
    <3>3. QED
      BY <1>1, <1>4, <1>9, <1>10, <3>1, <3>2
  <2>3. QED
    BY <1>12, <2>1, <2>2
<1>15. ASSUME Current(w)', NEW y \in Shown(w)', pending'[w][y] # 0
       PROVE  pending'[w][y] <= Balance(y)'
  <2>1. y # x /\ y \in Shown(w)
    BY <1>8, <1>12, <1>15
  <2>2. y \in Xacts
    BY <2>1 DEF Shown
  <2>3. pending'[w][y] = pending[w][y]
    BY <1>8, <2>1, <2>2
  <2>4. pending[w][y] <= Balance(y)
    BY <1>5, <1>10, <1>15, <2>1, <2>3 DEF ListInv
  <2>5. QED
    BY <1>4, <2>2, <2>3, <2>4
<1>16. Alone => \A p \in asked'[w] : p.xid = last_xact_id'
  BY <1>1, <1>3, <1>5 DEF ListInv
<1>17. ListInv(w)'
  BY <1>6, <1>11, <1>13, <1>14, <1>15, <1>16 DEF ListInv
<1>18. \A v \in Clients \ {w} : Aside(v) /\ req'[v] = req[v]
  BY <1>1, <1>2 DEF Aside, TypeInv, WindowTypes
<1>19. QED
  BY <1>3, <1>17, <1>18, OneList

LEMMA DetailsList ==
    ASSUME TypeInv, TypeInv', Lists, NEW w \in Clients, DetailsIn(w)
    PROVE  Lists'
<1>1. PICK a \in answers[w] :
              /\ a.x \in Xacts /\ a.bal \in Int
              /\ answers' = [answers EXCEPT ![w] = @ \ {a}]
              /\ bill_map'[w] = [x \in Known(w) \union {a.x} |->
                                    IF x = a.x THEN a.bal ELSE bill_map[w][x]]
              /\ \A v \in Clients \ {w} : bill_map'[v] = bill_map[v]
  BY DetailsCases DEF TypeInv
<1>2. UNCHANGED <<accounts, req, patron, asked, funcs, rows, pending>>
  BY DEF DetailsIn, moneyvars, accounts, loans
<1>3. Rising /\ last_xact_id' = last_xact_id
  BY <1>2, StillRising DEF accounts
<1>4. \A y \in Xacts : Balance(y)' = Balance(y)
  BY <1>2 DEF accounts, Balance
<1>5. ListInv(w)
  BY DEF Lists
<1>6. req'[w] = Idle
  BY <1>1, <1>2, <1>5 DEF ListInv, Complete
<1>7. answers'[w] = answers[w] \ {a}
  BY <1>1 DEF TypeInv, WindowTypes
<1>8. /\ Current(w)' = Current(w) /\ Shown(w)' = Shown(w) /\ Shown(w) \subseteq Xacts
      /\ Known(w)' = Known(w) \union {a.x}
  BY <1>1, <1>2, <1>3 DEF Current, Shown, Known
<1>9. Current(w)' => \A b \in answers'[w] : b.bal <= Balance(b.x)'
  <2>1. \A b \in answers[w] : b.x \in Xacts
    BY DEF TypeInv, WindowTypes, Details
  <2>2. QED
    BY <1>4, <1>5, <1>7, <1>8, <2>1 DEF ListInv
<1>10. ASSUME NEW y \in Shown(w)
       PROVE  \/ \E b \in answers'[w] : b.x = y
              \/ y \in Known(w)' /\ (Current(w)' => bill_map'[w][y] <= Balance(y)')
  <2>1. CASE y = a.x
    <3>1. bill_map'[w][y] = a.bal /\ y \in Known(w)'
      BY <1>1, <1>8, <2>1
    <3>2. Current(w) => a.bal <= Balance(a.x)
      BY <1>5 DEF ListInv
    <3>3. QED
      BY <1>1, <1>4, <1>8, <2>1, <3>1, <3>2
  <2>2. CASE y # a.x
    <3>1. \/ \E b \in answers[w] : b.x = y
          \/ y \in Known(w) /\ (Current(w) => bill_map[w][y] <= Balance(y))
      BY <1>5 DEF ListInv
    <3>2. y \in Known(w) => bill_map'[w][y] = bill_map[w][y]
      BY <1>1, <2>2
    <3>3. QED
      BY <1>4, <1>7, <1>8, <2>2, <3>1, <3>2
  <2>3. QED
    BY <2>1, <2>2
<1>11. Current(w)' => \A y \in Shown(w) : pending'[w][y] # 0 => pending'[w][y] <= Balance(y)'
  BY <1>2, <1>4, <1>5, <1>8 DEF ListInv
<1>12. \A y \in Xacts : funcs'[w][y] + rows'[w][y] <= 1
  BY <1>2, <1>5 DEF ListInv
<1>13. Alone => \A p \in asked'[w] : p.xid = last_xact_id'
  BY <1>2, <1>3, <1>5 DEF ListInv
<1>14. ListInv(w)'
  BY <1>6, <1>8, <1>9, <1>10, <1>11, <1>12, <1>13 DEF ListInv
<1>15. \A v \in Clients \ {w} : Aside(v) /\ req'[v] = req[v]
  BY <1>1, <1>2 DEF Aside, TypeInv, WindowTypes
<1>16. QED
  BY <1>3, <1>14, <1>15, OneList

\* A window that was complete and refreshes, after an answer or a bill.
LEMMA RefreshList ==
    ASSUME TypeInv, TypeInv', Lists, Rising, NEW w \in Clients, Complete(w), Refresh(w),
           req'[w] = Idle, \A v \in Clients \ {w} : req'[v] = req[v], UNCHANGED patron
    PROVE  Lists'
<1>1. ListInv(w)'
  BY RefreshedList
<1>2. \A v \in Clients \ {w} : Aside(v)
  BY DEF Refresh, Aside, TypeInv, WindowTypes
<1>3. QED
  BY <1>1, <1>2, OneList

\* Voiding lowers a balance, at the only window.
LEMMA VoidList ==
    ASSUME Careful, TypeInv, TypeInv', NEW w \in Clients, VoidAll(w)
    PROVE  Lists'
<1>1. Refresh(w) /\ Complete(w) /\ req'[w] = Idle /\ Voids # {}
  BY DEF VoidAll, Void, NoPayment, Ready, Free, Careful
<1>2. \A v \in Clients : v = w
  BY <1>1 DEF Careful, Alone
<1>3. ListInv(w)'
  BY <1>1, RefreshedList
<1>4. ASSUME NEW v \in Clients PROVE ListInv(v)'
  <2>1. v = w
    BY <1>2
  <2>2. QED
    BY <1>3, <2>1
<1>5. QED
  BY <1>4 DEF Lists

LEMMA AddList ==
    ASSUME Careful, TypeInv, TypeInv', Lists, NEW w \in Clients, Add(w)
    PROVE  Lists'
<1>1. PICK x \in Xacts : Bill(x, 1)
  BY DEF Add, Shown
<1>2. Refresh(w) /\ Complete(w) /\ req'[w] = Idle /\ UNCHANGED <<patron, req>>
  BY <1>1 DEF Add, Bill, NoPayment, Ready, Free, Careful
<1>3. Rising
  BY <1>1, BillRising
<1>4. QED
  BY <1>2, <1>3, RefreshList

LEMMA WizardList ==
    ASSUME TypeInv, TypeInv', Lists, NEW w \in Clients, BillPatron(w)
    PROVE  Lists'
<1>1. PICK x \in Xacts : /\ \A v \in Clients : funcs[v][x] + rows[v][x] = 0
                         /\ Bill(x, 1)
                         /\ funcs' = [funcs EXCEPT ![w][x] = @ + 1]
  BY DEF BillPatron
<1>2. /\ UNCHANGED <<patron, asked, rows, answers, bill_map, pending, req>>
      /\ req[w] = Idle
  BY <1>1 DEF BillPatron, Bill, NoPayment, Ready, Free
<1>3. Rising
  BY <1>1, BillRising
<1>4. last_xact_id' = last_xact_id
  BY <1>3 DEF Rising
<1>5. \A y \in Xacts : funcs'[w][y] + rows'[w][y] <= 1
  <2>1. \A y \in Xacts : funcs[w][y] \in Nat /\ rows[w][y] \in Nat
                          /\ funcs[w][y] + rows[w][y] <= 1
    BY BillAssumption DEF TypeInv, WindowTypes, Lists, ListInv
  <2>2. \A y \in Xacts : funcs'[w][y] = IF y = x THEN funcs[w][y] + 1 ELSE funcs[w][y]
    BY <1>1 DEF TypeInv, WindowTypes
  <2>3. QED
    BY <1>1, <1>2, <2>1, <2>2
<1>6. SameList(w) /\ Entered(w)
  BY <1>2, <1>4, <1>5 DEF SameList, Entered, Current
<1>7. ListInv(w)'
  BY <1>2, <1>3, <1>6, KeepsList DEF Lists
<1>8. \A v \in Clients \ {w} : Aside(v) /\ req'[v] = req[v]
  BY <1>1, <1>2 DEF Aside, TypeInv, WindowTypes
<1>9. QED
  BY <1>3, <1>7, <1>8, OneList

\* The mark is renewed: no window is current.
LEMMA RecordList ==
    ASSUME TypeInv, TypeInv', MarkInv, Lists, NEW c \in Clients, Record(c), UNCHANGED windowvars
    PROVE  Lists'
<1>1. /\ last_xact_id' = last_xact_id + 1 /\ last_xact_id \in Nat
      /\ req[c] # Idle /\ \A d \in Clients \ {c} : req'[d] = req[d]
  <2>1. MoneyTypes
    BY DEF TypeInv
  <2>2. /\ Prepared(req[c]) /\ Recorded(req[c]) \in Requests
        /\ req' = [req EXCEPT ![c] = Recorded(req[c])]
    BY <2>1, RecordCases
  <2>3. \A d \in Clients \ {c} : req'[d] = req[d]
    BY <2>1, <2>2, StageTyped
  <2>4. last_xact_id' = last_xact_id + 1 /\ last_xact_id \in Nat
    BY <2>1 DEF Record, Renews, MoneyTypes
  <2>5. req[c] # Idle
    BY <2>2 DEF Prepared, Idle
  <2>6. QED
    BY <2>3, <2>4, <2>5
<1>2. ASSUME NEW v \in Clients PROVE ListInv(v)'
  <2>1. /\ Complete(v)' = Complete(v) /\ Shown(v)' = Shown(v) /\ Known(v)' = Known(v)
        /\ asked'[v] = asked[v] /\ answers'[v] = answers[v] /\ patron'[v] = patron[v]
        /\ funcs'[v] = funcs[v] /\ rows'[v] = rows[v]
    BY DEF windowvars, Complete, Shown, Known
  <2>2. ListInv(v) /\ Marks(v)
    BY DEF Lists, MarkInv, WindowInv
  <2>3. ~Current(v)'
    BY <1>1, <2>1, <2>2 DEF Marks, Past, Current
  <2>4. req'[v] # Idle => Complete(v)
    BY <1>1, <2>2 DEF ListInv
  <2>5. Alone => asked[v] = {}
    BY <1>1, <2>2 DEF Alone, ListInv, Complete
  <2>6. \A x \in Shown(v) : (\E a \in answers[v] : a.x = x) \/ x \in Known(v)
    BY <2>2 DEF ListInv
  <2>7. \A x \in Xacts : funcs[v][x] + rows[v][x] <= 1
    BY <2>2 DEF ListInv
  <2>8. QED
    BY <2>1, <2>3, <2>4, <2>5, <2>6, <2>7 DEF ListInv
<1>3. QED
  BY <1>2 DEF Lists

LEMMA PayList ==
    ASSUME TypeInv, TypeInv', MarkInv, Lists, NEW c \in Clients, Pay(c), UNCHANGED windowvars
    PROVE  Lists'
<1>1. CASE Record(c)
  BY <1>1, RecordList
<1>2. CASE Check(c) \/ Charge(c) \/ Failing(c)
  <2>1. UNCHANGED accounts /\ req[c] # Idle
    BY <1>2 DEF Check, Charge, Failing, RecordingFails, UpdateFails, CommitFails, Prepared, Idle
  <2>2. \A d \in Clients \ {c} : req'[d] = req[d]
    BY <1>2, FailCases DEF Check, Charge, Fails, Done, TypeInv, MoneyTypes
  <2>3. QED
    BY <2>1, <2>2, StillRising, NoList
<1>3. QED
  BY <1>1, <1>2 DEF Pay, Failing

\* What a complete list of a current window asks to be paid is owed.
LEMMA ApplyList ==
    ASSUME Careful, TypeInv, TypeInv', Lists, PayInv, NEW w \in Clients, Apply(w)
    PROVE  Lists' /\ PayInv' /\ PaysWhatIsDue
<1>1. PICK r \in Requests :
          /\ req' = [req EXCEPT ![w] = r] /\ r.at = "asked" /\ r.xid = patron[w].xid
          /\ r.pay = pending[w] /\ r.times = Lined(w)
  BY ApplyCases DEF TypeInv
<1>2. UNCHANGED <<accounts, windowvars>> /\ Complete(w) /\ req[w] = Idle
  BY DEF Apply, Ready, Free, Careful
<1>3. Rising
  BY <1>2, StillRising
<1>4. \A v \in Clients : Aside(v)
  BY <1>2 DEF Aside, windowvars
<1>5. \A v \in Clients \ {w} : req'[v] = req[v]
  BY <1>1 DEF TypeInv, MoneyTypes
<1>6. ListInv(w)'
  BY <1>2, <1>3, <1>4, AsideList DEF Lists
<1>7. Lists'
  BY <1>3, <1>4, <1>5, <1>6, OneList
<1>8. Fair(r)
  <2>1. ASSUME r.xid = last_xact_id, NEW x \in Lines(r)
        PROVE  r.times[x] = 1 /\ r.pay[x] # 0 /\ r.pay[x] <= Balance(x)
    <3>1. x \in Xacts /\ Lined(w)[x] > 0
      BY <1>1 DEF Lines
    <3>2. pending[w][x] # 0 /\ rows[w][x] > 0 /\ Lined(w)[x] = rows[w][x]
      BY <3>1 DEF Lined
    <3>3. Current(w) /\ x \in Shown(w)
      BY <1>1, <2>1, <3>1, <3>2 DEF Current, Shown
    <3>4. pending[w][x] <= Balance(x) /\ funcs[w][x] + rows[w][x] <= 1
      BY <3>1, <3>2, <3>3 DEF Lists, ListInv
    <3>5. rows[w][x] = 1
      <4>1. funcs[w][x] \in Nat /\ rows[w][x] \in Nat
        BY <3>1, BillAssumption DEF TypeInv, WindowTypes
      <4>2. QED
        BY <3>2, <3>4, <4>1
    <3>6. QED
      BY <1>1, <3>2, <3>4, <3>5
  <2>2. QED
    BY <2>1 DEF Fair
<1>9. PayInv' /\ PaysWhatIsDue
  BY <1>1, <1>2, <1>8, SendPayInv DEF TypeInv
<1>10. QED
  BY <1>7, <1>9

\* A form that is filled in anew at a window that has the whole list.
LEMMA DistributedEntry ==
    ASSUME TypeInv, NEW w \in Clients, Complete(w), NEW amount \in Int,
           NEW checked \in SUBSET Known(w), Redistribute(w, amount, checked)
    PROVE  Entered(w) /\ \A v \in Clients \ {w} : pending'[v] = pending[v]
  BY RedistributeCases DEF TypeInv, Entered

LEMMA TenderList ==
    ASSUME Careful, TypeInv, TypeInv', Lists, NEW w \in Clients, NEW type \in Types,
           NEW amount \in Amounts, Tender(w, type, amount)
    PROVE  Lists'
<1>1. DEFINE most == IF type = "credit" THEN Smaller(amount, credit) ELSE amount
<1>2. /\ Ready(w) /\ Complete(w)
      /\ UNCHANGED patron \/ (MayReread(w) /\ patron' = [patron EXCEPT ![w] = Patron])
      /\ Redistribute(w, most, check_map[w])
      /\ UNCHANGED <<accounts, req, asked, funcs, rows, answers, bill_map>>
  BY DEF Tender, served, Ready, Careful
<1>3. most \in Int /\ check_map[w] \in SUBSET Known(w)
  BY BillAssumption DEF TypeInv, MoneyTypes, WindowTypes, Smaller
<1>4. HIDE DEF most
<1>5. Entered(w) /\ \A v \in Clients \ {w} : pending'[v] = pending[v]
  BY <1>2, <1>3, DistributedEntry
<1>6. QED
  BY <1>2, <1>5, ClickList

LEMMA RecheckList ==
    ASSUME Careful, TypeInv, TypeInv', Lists, NEW w \in Clients,
           NEW checked \in SUBSET Known(w), Recheck(w, checked)
    PROVE  Lists'
<1>1. /\ Ready(w) /\ Complete(w)
      /\ Redistribute(w, form[w].amount, checked)
      /\ UNCHANGED <<accounts, req, patron, asked, funcs, rows, answers, bill_map>>
  BY DEF Recheck, served, Ready, Careful
<1>2. form[w].amount \in Int
  <2>1. form[w] \in Forms
    BY DEF TypeInv, WindowTypes
  <2>2. QED
    BY <2>1 DEF Forms
<1>3. Entered(w) /\ \A v \in Clients \ {w} : pending'[v] = pending[v]
  BY <1>1, <1>2, DistributedEntry
<1>4. QED
  BY <1>1, <1>3, ClickList

\* Of every step of a window but those that bill, void or send, nothing is paid.
LEMMA WindowCareful ==
    ASSUME Careful, CarefulInv, TypeInv', NEW w \in Clients, Window(w)
    PROVE  Lists' /\ PayInv' /\ PaysWhatIsDue
<1>1. TypeInv /\ MoneyTypes /\ WindowTypes /\ PayInv /\ Lists
  BY DEF CarefulInv, TypeInv
<1>2. UNCHANGED <<accounts, req>> => PayInv' /\ PaysWhatIsDue
  BY <1>1, StillPayInv
<1>3. CASE PatronIn(w) \/ DetailsIn(w) \/ \E x \in Xacts : AppendRow(w, x)
  <2>1. UNCHANGED <<accounts, req>>
    BY <1>3 DEF PatronIn, DetailsIn, AppendRow, moneyvars, accounts, loans
  <2>2. Lists'
    BY <1>1, <1>3, PatronInList, DetailsList, AppendList
  <2>3. QED
    BY <1>2, <2>1, <2>2
<1>4. CASE \E type \in Types, amount \in Amounts : Tender(w, type, amount)
  <2>1. UNCHANGED <<accounts, req>>
    BY <1>4 DEF Tender, served
  <2>2. Lists'
    BY <1>1, <1>4, TenderList
  <2>3. QED
    BY <1>2, <2>1, <2>2
<1>5. CASE Click(w) \/ CheckAll(w) \/ UncheckAll(w) \/ CheckAllRefunds(w)
  <2>1. PICK checked \in SUBSET Known(w) : Recheck(w, checked)
    BY <1>1, <1>5, RecheckCases
  <2>2. UNCHANGED <<accounts, req>>
    BY <2>1 DEF Recheck, served
  <2>3. Lists'
    BY <1>1, <2>1, RecheckList
  <2>4. QED
    BY <1>2, <2>2, <2>3
<1>6. CASE ToggleAll(w) \/ PrintBills(w)
  <2>1. /\ UNCHANGED <<accounts, req, asked, funcs, rows, answers, bill_map, pending>>
        /\ Ready(w)
        /\ UNCHANGED patron \/ (MayReread(w) /\ patron' = [patron EXCEPT ![w] = Patron])
    BY <1>6 DEF ToggleAll, PrintBills, served, moneyvars, accounts, loans, screen
  <2>2. Entered(w) /\ \A v \in Clients \ {w} : pending'[v] = pending[v]
    BY <2>1 DEF Entered
  <2>3. Lists'
    BY <1>1, <2>1, <2>2, ClickList
  <2>4. QED
    BY <1>2, <2>1, <2>3
<1>7. CASE Apply(w)
  BY <1>1, <1>7, ApplyList
<1>8. CASE Lose(w)
  <2>1. req' = [req EXCEPT ![w] = Idle] /\ UNCHANGED <<accounts, windowvars>>
    BY <1>8 DEF Lose
  <2>2. \A v \in Clients : req'[v] # Idle => req[v] # Idle
    BY <1>1, <2>1 DEF MoneyTypes
  <2>3. QED
    BY <1>1, <2>1, <2>2, StillRising, NoList, OverPayInv
<1>9. CASE Answer(w)
  <2>1. /\ req' = [req EXCEPT ![w] = Idle] /\ UNCHANGED <<accounts, patron>>
        /\ req[w] # Idle
        /\ Refresh(w) \/ UNCHANGED <<asked, screen, recorded>>
    BY <1>9 DEF Answer, Idle
  <2>2. req'[w] = Idle /\ \A v \in Clients \ {w} : req'[v] = req[v]
    BY <1>1, <2>1 DEF MoneyTypes
  <2>3. Rising
    BY <1>1, <2>1, StillRising
  <2>4. Complete(w)
    BY <1>1, <2>1 DEF Lists, ListInv
  <2>5. CASE Refresh(w)
    BY <1>1, <2>1, <2>2, <2>3, <2>4, <2>5, RefreshList, OverPayInv
  <2>6. CASE UNCHANGED <<asked, screen, recorded>>
    <3>1. \A v \in Clients : Aside(v)
      BY <2>1, <2>6 DEF Aside, screen
    <3>2. ListInv(w)'
      BY <1>1, <2>2, <2>3, <3>1, AsideList DEF Lists
    <3>3. QED
      BY <1>1, <2>1, <2>2, <2>3, <3>1, <3>2, OneList, OverPayInv
  <2>7. QED
    BY <2>1, <2>5, <2>6
<1>10. CASE VoidAll(w)
  <2>1. Lists'
    BY <1>1, <1>10, VoidList
  <2>2. PICK x \in Xacts : Void(x) /\ x \in Voids
    BY <1>10 DEF VoidAll, Shown
  <2>3. \A c \in Clients : req[c].at # "asked"
    BY <1>10, <2>2 DEF Careful, Alone, VoidAll, Ready, Free, Idle
  <2>4. ~Overlap
    BY DEF Careful
  <2>5. QED
    BY <1>1, <2>1, <2>2, <2>3, <2>4, VoidPayInv
<1>11. CASE Add(w) \/ BillPatron(w)
  <2>1. Lists'
    BY <1>1, <1>11, AddList, WizardList
  <2>2. PICK x \in Xacts : Bill(x, 1)
    BY <1>11 DEF Add, BillPatron, Shown
  <2>3. ~Overlap
    BY DEF Careful
  <2>4. QED
    BY <1>1, <2>1, <2>2, <2>3, BillPayInv
<1>12. QED
  BY <1>3, <1>4, <1>5, <1>6, <1>7, <1>8, <1>9, <1>10, <1>11 DEF Window

LEMMA ServerCareful ==
    ASSUME Careful, CarefulInv, TypeInv', NEW c \in Clients, Pay(c), UNCHANGED windowvars
    PROVE  Lists' /\ PayInv' /\ PaysWhatIsDue
<1>1. TypeInv /\ MoneyTypes /\ MarkInv /\ PayInv /\ Lists /\ ~Overlap
  BY DEF CarefulInv, TypeInv, Careful
<1>2. Lists'
  BY <1>1, PayList
<1>3. PaysWhatIsDue
  BY <1>1, PayIsDue
<1>4. \A d \in Clients : req[d].at = "asked" => req[d].xid <= last_xact_id
  BY <1>1 DEF MarkInv, WindowInv, Marks, Past
<1>5. PayInv'
  BY <1>1, <1>4, CheckPayInv, ChargePayInv, FailPayInv, RecordPayInv DEF Pay, Failing
<1>6. QED
  BY <1>2, <1>3, <1>5

LEMMA ElsewhereCareful ==
    ASSUME Careful, CarefulInv, TypeInv', NEW x \in Xacts, Elsewhere(x), UNCHANGED windowvars
    PROVE  Lists' /\ PayInv' /\ PaysWhatIsDue
<1>1. TypeInv /\ MoneyTypes /\ PayInv /\ Lists /\ ~Overlap
  BY DEF CarefulInv, TypeInv, Careful
<1>2. Befalls(x)
  BY DEF Elsewhere
<1>3. UNCHANGED req
  BY <1>2 DEF Befalls, ListOverdue, StopFines, Return, Fine, NoPayment
<1>4. Lists'
  BY <1>1, <1>2, <1>3, BillRising, NoList
<1>5. QED
  BY <1>1, <1>2, <1>4, LoanCloses, LoanPayInv

LEMMA CarefulStep ==
    ASSUME Careful, CarefulInv, [Next]_vars
    PROVE  CarefulInv' /\ (PaysWhatIsDue \/ UNCHANGED vars)
<1>1. TypeInv'
  BY NextTypeInv DEF CarefulInv
<1>2. MarkInv'
  BY NextMarks DEF CarefulInv, Careful, Guarded
<1>3. Lists' /\ PayInv' /\ (PaysWhatIsDue \/ UNCHANGED vars)
  <2>1. CASE \E w \in Clients : Window(w)
    BY <1>1, <2>1, WindowCareful
  <2>2. CASE \E c \in Clients : Pay(c) /\ UNCHANGED windowvars
    BY <1>1, <2>2, ServerCareful
  <2>3. CASE \E x \in Xacts : Elsewhere(x) /\ UNCHANGED windowvars
    BY <1>1, <2>3, ElsewhereCareful
  <2>4. CASE UNCHANGED vars
    <3>1. UNCHANGED <<accounts, req, windowvars>>
      BY <2>4 DEF vars, moneyvars, accounts, loans
    <3>2. Lists'
      BY <1>1, <3>1, StillRising, NoList DEF CarefulInv
    <3>3. PayInv'
      BY <3>1, StillPayInv DEF CarefulInv, TypeInv
    <3>4. QED
      BY <2>4, <3>2, <3>3
  <2>5. QED
    BY <2>1, <2>2, <2>3, <2>4 DEF Next
<1>4. QED
  BY <1>1, <1>2, <1>3 DEF CarefulInv

LEMMA InitLists == Init => Lists
<1> SUFFICES ASSUME Init, NEW w \in Clients PROVE ListInv(w)
  BY DEF Lists
<1>1. /\ req[w] = Idle /\ answers[w] = {} /\ asked[w] = {Patron} /\ rows[w] = NoPay
      /\ funcs[w] = [x \in Xacts |-> IF x \in Owing THEN 1 ELSE 0]
  BY DEF Init, MoneyInit
<1>2. Shown(w) = {}
  BY <1>1 DEF Shown, NoPay
<1>3. \A x \in Xacts : funcs[w][x] + rows[w][x] <= 1
  BY <1>1 DEF NoPay
<1>4. Patron.xid = last_xact_id
  BY DEF Patron
<1>5. QED
  BY <1>1, <1>2, <1>3, <1>4 DEF ListInv

LEMMA InitCareful == Init => CarefulInv
  BY InitTypeInv, InitMarks, InitPayInv, InitLists DEF CarefulInv, Init

LEMMA CarefulInvariant ==
    ASSUME Careful
    PROVE  Spec => []CarefulInv
<1>1. Init => CarefulInv
  BY InitCareful
<1>2. CarefulInv /\ [Next]_vars => CarefulInv'
  BY CarefulStep
<1>3. QED
  BY <1>1, <1>2, PTL DEF Spec

\* However old the list is that staff act on, no payment of theirs brings what was
\* paid above what is billed, and no refund below it: what is distributed is within
\* the balances last known, and the mark that is sent with it stands for those
\* (distribute_payment, apply_payment, make_payments).
THEOREM PaysNoMoreThanOwed ==
    ASSUME Careful
    PROVE  Spec => PaysWhatIsOwed
<1>1. DEFINE Due == PaysWhatIsDue
<1>2. CarefulInv /\ [Next]_vars => [Due]_vars
  BY CarefulStep
<1>3. PaysWhatIsOwed <=> [][Due]_vars
  BY DEF PaysWhatIsOwed
<1>4. HIDE DEF Due
<1>5. Spec => [][Due]_vars
  BY <1>2, CarefulInvariant, PTL DEF Spec
<1>6. QED
  BY <1>3, <1>5

\* After every payment, bill, void, fine, claim and checkin, with any number of
\* windows, a closed transaction is settled and not a loan whose fines go on, and a
\* settled one is closed unless it is a loan still out.  A loan that was fined after
\* its fines had stopped, from the list the fine generator made before, is excepted:
\* nothing opens it again (make_payments, _check_open_xact, checkin_handle_circ,
\* generate_fines).
THEOREM ClosedWhenSettled ==
    ASSUME Careful
    PROVE  Spec => []ClosedIffSettled
<1>1. CarefulInv => ClosedIffSettled
  BY DEF CarefulInv, PayInv, Closing
<1>2. QED
  BY <1>1, CarefulInvariant, PTL

-----------------------------------------------------------------------------
(* The money adds up *)

\* No change of a card payment is turned into credit, which nobody has paid.
Balanced == Careful /\ ~CardChange

BalancedInv == CarefulInv /\ BalanceInv

LEMMA BalancedStep ==
    ASSUME Balanced, BalancedInv, [Next]_vars
    PROVE  BalancedInv'
<1>1. CarefulInv'
  BY CarefulStep DEF Balanced, BalancedInv
<1>2. MoneyTypes /\ TypeInv /\ WindowTypes /\ PayInv /\ BalanceInv
  BY DEF BalancedInv, CarefulInv, TypeInv
<1>3. UNCHANGED <<accounts, req, taken, unrecorded, unreported>> => BalanceInv'
  BY <1>2, StillBalance
<1>4. ASSUME NEW w \in Clients, Window(w) PROVE BalanceInv'
  <2>1. CASE Apply(w)
    <3>1. PICK r \in Requests :
              req' = [req EXCEPT ![w] = r] /\ r.at = "asked" /\ (~CardChange => Exact(r))
      BY <1>2, <2>1, ApplyCases
    <3>2. req[w] = Idle /\ UNCHANGED <<accounts, taken, unrecorded, unreported>>
      BY <2>1 DEF Apply, Ready, Free
    <3>3. QED
      BY <1>2, <3>1, <3>2, SendBalance DEF Balanced
  <2>2. CASE Lose(w) \/ Answer(w)
    <3>1. /\ req' = [req EXCEPT ![w] = Idle] /\ req[w].at # "charged"
          /\ UNCHANGED <<accounts, unrecorded>>
      BY <2>2 DEF Lose, Answer
    <3>2. \E k \in Int : taken' = taken + k /\ unreported' = unreported + k
      <4>1. CASE Lose(w)
        BY <1>2, <4>1, LostInt
      <4>2. CASE Answer(w)
        <5>1. taken' = taken + 0 /\ unreported' = unreported + 0 /\ 0 \in Int
          BY <1>2, <4>2 DEF Answer, MoneyTypes
        <5>2. QED
          BY <5>1
      <4>3. QED
        BY <2>2, <4>1, <4>2
    <3>3. QED
      BY <1>2, <3>1, <3>2, OverBalance
  <2>3. CASE VoidAll(w) \/ Add(w) \/ BillPatron(w)
    <3>1. NoPayment
      BY <2>3 DEF VoidAll, Add, BillPatron, Void, Bill
    <3>2. QED
      BY <1>2, <3>1, NoPaymentBalance
  <2>4. CASE PatronIn(w) \/ DetailsIn(w) \/ (\E x \in Xacts : AppendRow(w, x)) \/ PrintBills(w)
    <3>1. UNCHANGED <<accounts, req, taken, unrecorded, unreported>>
      BY <2>4 DEF PatronIn, DetailsIn, AppendRow, PrintBills, moneyvars, accounts, loans
    <3>2. QED
      BY <1>3, <3>1
  <2>5. CASE \/ \E type \in Types, amount \in Amounts : Tender(w, type, amount)
             \/ Click(w) \/ CheckAll(w) \/ UncheckAll(w) \/ CheckAllRefunds(w) \/ ToggleAll(w)
    <3>1. UNCHANGED served
      BY <2>5 DEF Tender, Click, CheckAll, UncheckAll, CheckAllRefunds, Recheck, ToggleAll
    <3>2. QED
      BY <1>3, <3>1 DEF served
  <2>6. QED
    BY <1>4, <2>1, <2>2, <2>3, <2>4, <2>5 DEF Window
<1>5. ASSUME NEW x \in Xacts, Elsewhere(x) PROVE BalanceInv'
  <2>1. NoPayment
    BY <1>5 DEF Elsewhere, Befalls, ListOverdue, StopFines, Return, Fine
  <2>2. QED
    BY <1>2, <2>1, NoPaymentBalance
<1>6. ASSUME UNCHANGED vars PROVE BalanceInv'
  BY <1>3, <1>6 DEF vars, moneyvars, accounts, loans
<1>7. BalanceInv'
  BY <1>2, <1>4, <1>5, <1>6, PayBalance DEF Next
<1>8. QED
  BY <1>1, <1>7 DEF BalancedInv

\* Whatever is paid, overpaid, refunded, kept as credit, charged to a card or lost
\* on the way, what was received is on the patron's transactions or in the credit, or
\* it is reported as charged and not recorded, or it fell to one of the failures that
\* nobody reports: an update or a commit that fails at the end, a card approved
\* elsewhere whose payment is refused or lost (make_payments, _recording_failure).
THEOREM ReceivedIsAccounted ==
    ASSUME Balanced
    PROVE  Spec => []MoneyBalances
<1>1. Init => BalancedInv
  BY InitCareful, InitBalance DEF BalancedInv, Init
<1>2. BalancedInv /\ [Next]_vars => BalancedInv'
  BY BalancedStep
<1>3. BalancedInv => MoneyBalances
  BY DEF BalancedInv, BalanceInv
<1>4. QED
  BY <1>1, <1>2, <1>3, PTL DEF Spec
=============================================================================
