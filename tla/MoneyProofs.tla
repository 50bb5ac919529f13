----------------------------- MODULE MoneyProofs -----------------------------
(***************************************************************************)
(* Proofs about Money, for any clients, transactions and amounts: sums     *)
(* over finite sets, and what each step of make_payments and of the        *)
(* billings does to the account.                                           *)
(***************************************************************************)
EXTENDS Money, FiniteSetTheorems, TLAPS

(* Induction and sums.  The theorems of the library that take a formula as *)
(* a parameter cannot be used, those about sets can: a set of numbers or   *)
(* of subsets stands for the formula that holds of its elements.           *)

\* A set of numbers with 0 and every successor has all of them.
LEMMA CountUp ==
    ASSUME NEW T, 0 \in T, \A n \in Nat : n \in T => n + 1 \in T
    PROVE  Nat \subseteq T
<1>1. DEFINE R == OpToRel(<, Nat)
             B == Nat \ T
<1>2. IsWellFoundedOn(R, Nat)
  BY NatLessThanWellFounded
<1>3. \A m, n \in Nat : m < n => <<m, n>> \in R
  BY DEF OpToRel
<1>4. SUFFICES ASSUME B # {} PROVE FALSE
  OBVIOUS
<1>5. B \subseteq Nat
  OBVIOUS
<1>6. HIDE DEF R, B
<1>7. PICK n \in B : \A m \in B : <<m, n>> \notin R
  BY <1>2, <1>4, <1>5, WFMin
<1>8. n \in Nat /\ n \notin T
  BY DEF B
<1>9. n - 1 \in Nat /\ n - 1 < n
  BY <1>8
<1>10. n - 1 \in T
  BY <1>3, <1>7, <1>8, <1>9 DEF B
<1>11. QED
  BY <1>8, <1>9, <1>10

\* A set of subsets of a finite set has all of them, if it has each one whose
\* proper subsets it has.
LEMMA BuildUp ==
    ASSUME NEW S, IsFiniteSet(S), NEW T,
           \A s \in SUBSET S :
              (\A t \in SUBSET s : t # s => t \in T) => s \in T
    PROVE  SUBSET S \subseteq T
<1>1. DEFINE R == StrictSubsetOrdering(S)
             B == (SUBSET S) \ T
<1>2. IsWellFoundedOn(R, SUBSET S)
  BY FS_StrictSubsetOrderingWellFounded, FS_FiniteSubsetsOfFinite
<1>3. \A s \in SUBSET S : \A t \in SUBSET s : t # s => <<t, s>> \in R
  BY DEF StrictSubsetOrdering
<1>4. SUFFICES ASSUME B # {} PROVE FALSE
  OBVIOUS
<1>5. B \subseteq SUBSET S
  OBVIOUS
<1>6. HIDE DEF R, B
<1>7. PICK s \in B : \A t \in B : <<t, s>> \notin R
  BY <1>2, <1>4, <1>5, WFMin
<1>8. s \in SUBSET S /\ s \notin T
  BY DEF B
<1>9. ASSUME NEW t \in SUBSET s, t # s PROVE t \in T
  <2>1. <<t, s>> \in R
    BY <1>3, <1>8, <1>9
  <2>2. t \notin B
    BY <1>7, <2>1
  <2>3. QED
    BY <1>8, <2>2 DEF B
<1>10. QED
  BY <1>8, <1>9

\* SumFunction takes one element after another, by CHOOSE; Partial(f) has the sums
\* over all subsets of the domain.
Picked(s) == CHOOSE x \in s : TRUE
Adds(f, s, g) == IF s = {} THEN 0 ELSE f[Picked(s)] + g[s \ {Picked(s)}]
Partial(f) == CHOOSE g : g = [s \in SUBSET DOMAIN f |-> Adds(f, s, g)]

LEMMA SumIsPartial ==
    ASSUME NEW f
    PROVE  SumFunction(f) = Partial(f)[DOMAIN f]
<1>1. SumFunction(f) = FoldFunctionOnSet(+, 0, f, DOMAIN f)
  BY DEF SumFunction, SumFunctionOnSet
<1>2. QED
  BY <1>1 DEF FoldFunctionOnSet, MapThenFoldSet, Partial, Adds, Picked

LEMMA PickedIsIn == ASSUME NEW s, s # {} PROVE Picked(s) \in s
  BY DEF Picked

\* The recursion has a solution, found for ever larger subsets.
LEMMA PartialSums ==
    ASSUME NEW f, IsFiniteSet(DOMAIN f)
    PROVE  Partial(f) = [s \in SUBSET DOMAIN f |-> Adds(f, s, Partial(f))]
<1>1. DEFINE D == DOMAIN f
             Solves(n, g) == \A s \in SUBSET D : Cardinality(s) <= n => g[s] = Adds(f, s, g)
             T == {n \in Nat : \E g : Solves(n, g)}
<1>2. \A s \in SUBSET D : IsFiniteSet(s) /\ Cardinality(s) \in Nat
  BY FS_Subset, FS_CardinalityType
<1>3. \A s \in SUBSET D : s # {} => /\ s \ {Picked(s)} \in SUBSET D
                                    /\ Cardinality(s \ {Picked(s)}) = Cardinality(s) - 1
  BY <1>2, PickedIsIn, FS_RemoveElement
<1>4. \A s \in SUBSET D : Cardinality(s) <= 0 => s = {}
  BY <1>2, FS_EmptySet
<1>5. 0 \in T
  <2>1. DEFINE g == [s \in SUBSET D |-> 0]
  <2>2. Solves(0, g)
    BY <1>4 DEF Adds
  <2>3. QED
    BY <2>2
<1>6. ASSUME NEW n \in Nat, n \in T PROVE n + 1 \in T
  <2>1. PICK g : Solves(n, g)
    BY <1>6
  <2>2. DEFINE h == [s \in SUBSET D |-> Adds(f, s, g)]
  <2>3. ASSUME NEW s \in SUBSET D, Cardinality(s) <= n + 1 PROVE h[s] = Adds(f, s, h)
    <3>1. CASE s = {}
      BY <3>1 DEF Adds
    <3>2. CASE s # {}
      <4>1. DEFINE t == s \ {Picked(s)}
      <4>2. t \in SUBSET D /\ Cardinality(t) <= n
        BY <1>2, <1>3, <2>3, <3>2
      <4>3. h[t] = g[t]
        BY <2>1, <4>2
      <4>4. QED
        BY <3>2, <4>3 DEF Adds
    <3>3. QED
      BY <3>1, <3>2
  <2>4. Solves(n + 1, h)
    BY <2>3
  <2>5. HIDE DEF h, Solves
  <2>6. QED
    BY <2>4
<1>7. Nat \subseteq T
  <2> HIDE DEF T
  <2>1. QED
    BY <1>5, <1>6, CountUp
<1>8. Cardinality(D) \in Nat
  BY FS_CardinalityType
<1>9. PICK g : Solves(Cardinality(D), g)
  BY <1>7, <1>8
<1>10. DEFINE h == [s \in SUBSET D |-> g[s]]
<1>11. ASSUME NEW s \in SUBSET D PROVE h[s] = Adds(f, s, h)
  <2>1. Cardinality(s) <= Cardinality(D)
    BY FS_Subset
  <2>2. g[s] = Adds(f, s, g)
    BY <1>9, <2>1
  <2>3. Adds(f, s, g) = Adds(f, s, h)
    BY DEF Adds
  <2>4. QED
    BY <2>2, <2>3
<1>12. h = [s \in SUBSET D |-> Adds(f, s, h)]
  BY <1>11
<1>13. QED
  BY <1>12 DEF Partial

LEMMA PartialStep ==
    ASSUME NEW f, IsFiniteSet(DOMAIN f), NEW s \in SUBSET DOMAIN f
    PROVE  /\ s = {} => Partial(f)[s] = 0
           /\ s # {} => /\ Picked(s) \in s
                        /\ Partial(f)[s] = f[Picked(s)] + Partial(f)[s \ {Picked(s)}]
<1>1. Partial(f)[s] = Adds(f, s, Partial(f))
  BY PartialSums
<1>2. QED
  BY <1>1, PickedIsIn DEF Adds

LEMMA PartialInt ==
    ASSUME NEW D, IsFiniteSet(D), NEW f \in [D -> Int]
    PROVE  \A s \in SUBSET D : Partial(f)[s] \in Int
<1>1. DEFINE T == {s \in SUBSET D : Partial(f)[s] \in Int}
<1>2. ASSUME NEW s \in SUBSET D, \A t \in SUBSET s : t # s => t \in T
      PROVE  s \in T
  <2>1. CASE s = {}
    BY <2>1, PartialStep
  <2>2. CASE s # {}
    <3>1. /\ Picked(s) \in s
          /\ Partial(f)[s] = f[Picked(s)] + Partial(f)[s \ {Picked(s)}]
      BY <2>2, PartialStep
    <3>2. s \ {Picked(s)} \in T
      BY <1>2, <3>1
    <3>3. QED
      BY <3>1, <3>2
  <2>3. QED
    BY <2>1, <2>2
<1>3. SUBSET D \subseteq T
  <2> HIDE DEF T
  <2>1. QED
    BY <1>2, BuildUp
<1>4. QED
  BY <1>3

LEMMA SumInt ==
    ASSUME NEW D, IsFiniteSet(D), NEW f \in [D -> Int]
    PROVE  SumFunction(f) \in Int
  BY PartialInt, SumIsPartial

LEMMA SumNat ==
    ASSUME NEW D, IsFiniteSet(D), NEW f \in [D -> Nat]
    PROVE  SumFunction(f) \in Nat
<1>1. DEFINE T == {s \in SUBSET D : Partial(f)[s] \in Nat}
<1>2. ASSUME NEW s \in SUBSET D, \A t \in SUBSET s : t # s => t \in T
      PROVE  s \in T
  <2>1. CASE s = {}
    <3>1. Partial(f)[s] = 0
      BY <2>1, PartialStep
    <3>2. QED
      BY <3>1
  <2>2. CASE s # {}
    <3>1. /\ Picked(s) \in s
          /\ Partial(f)[s] = f[Picked(s)] + Partial(f)[s \ {Picked(s)}]
      BY <2>2, PartialStep
    <3>2. s \ {Picked(s)} \in T
      BY <1>2, <3>1
    <3>3. QED
      BY <3>1, <3>2
  <2>3. QED
    BY <2>1, <2>2
<1>3. SUBSET D \subseteq T
  <2> HIDE DEF T
  <2>1. QED
    BY <1>2, BuildUp
<1>4. QED
  BY <1>3, SumIsPartial

LEMMA SumAdd ==
    ASSUME NEW D, IsFiniteSet(D), NEW f \in [D -> Int], NEW g \in [D -> Int]
    PROVE  SumFunction([x \in D |-> f[x] + g[x]]) = SumFunction(f) + SumFunction(g)
<1>1. DEFINE h == [x \in D |-> f[x] + g[x]]
             T == {s \in SUBSET D : Partial(h)[s] = Partial(f)[s] + Partial(g)[s]}
<1>2. h \in [D -> Int] /\ \A x \in D : h[x] = f[x] + g[x]
  OBVIOUS
<1>3. ASSUME NEW s \in SUBSET D, \A t \in SUBSET s : t # s => t \in T
      PROVE  s \in T
  <2> HIDE DEF h
  <2>1. CASE s = {}
    <3>1. Partial(f)[s] = 0 /\ Partial(g)[s] = 0 /\ Partial(h)[s] = 0
      BY <1>2, <2>1, PartialStep
    <3>2. QED
      BY <3>1
  <2>2. CASE s # {}
    <3>1. DEFINE p == Picked(s)
                 r == s \ {Picked(s)}
    <3>2. /\ p \in s
          /\ Partial(f)[s] = f[p] + Partial(f)[r]
          /\ Partial(g)[s] = g[p] + Partial(g)[r]
          /\ Partial(h)[s] = h[p] + Partial(h)[r]
      BY <1>2, <2>2, PartialStep
    <3>3. r \in T
      BY <1>3, <3>2
    <3>4. /\ Partial(f)[r] \in Int /\ Partial(g)[r] \in Int
          /\ f[p] \in Int /\ g[p] \in Int /\ h[p] = f[p] + g[p]
      BY <1>2, <3>2, PartialInt
    <3>5. Partial(h)[r] = Partial(f)[r] + Partial(g)[r]
      BY <3>3
    <3>6. Partial(h)[s] = Partial(f)[s] + Partial(g)[s]
      <4> HIDE DEF p, r
      <4>1. QED
        BY ONLY <3>2, <3>4, <3>5
    <3>7. QED
      BY ONLY <3>6, s \in SUBSET D
  <2>3. QED
    BY <2>1, <2>2
<1>4. SUBSET D \subseteq T
  <2> HIDE DEF T
  <2>1. QED
    BY <1>3, BuildUp
<1>5. Partial(h)[D] = Partial(f)[D] + Partial(g)[D]
  BY <1>4
<1>6. QED
  BY <1>2, <1>5, SumIsPartial

\* Of functions that are zero but at one place.
LEMMA SumOne ==
    ASSUME NEW D, IsFiniteSet(D), NEW d \in D, NEW v \in Int
    PROVE  SumFunction([x \in D |-> IF x = d THEN v ELSE 0]) = v
<1>1. DEFINE h == [x \in D |-> IF x = d THEN v ELSE 0]
             T == {s \in SUBSET D : Partial(h)[s] = IF d \in s THEN v ELSE 0}
<1>2. h \in [D -> Int] /\ \A x \in D : h[x] = IF x = d THEN v ELSE 0
  OBVIOUS
<1>3. ASSUME NEW s \in SUBSET D, \A t \in SUBSET s : t # s => t \in T
      PROVE  s \in T
  <2> HIDE DEF h
  <2>1. CASE s = {}
    BY <1>2, <2>1, PartialStep
  <2>2. CASE s # {}
    <3>1. /\ Picked(s) \in s
          /\ Partial(h)[s] = h[Picked(s)] + Partial(h)[s \ {Picked(s)}]
      BY <1>2, <2>2, PartialStep
    <3>2. s \ {Picked(s)} \in T
      BY <1>3, <3>1
    <3>3. QED
      BY <1>2, <3>1, <3>2
  <2>3. QED
    BY <2>1, <2>2
<1>4. SUBSET D \subseteq T
  <2> HIDE DEF T
  <2>1. QED
    BY <1>3, BuildUp
<1>5. Partial(h)[D] = v
  BY <1>4
<1>6. QED
  BY <1>2, <1>5, SumIsPartial

LEMMA SumZero ==
    ASSUME NEW D, IsFiniteSet(D), NEW f \in [D -> Int], \A x \in D : f[x] = 0
    PROVE  SumFunction(f) = 0
<1>1. DEFINE T == {s \in SUBSET D : Partial(f)[s] = 0}
<1>2. ASSUME NEW s \in SUBSET D, \A t \in SUBSET s : t # s => t \in T
      PROVE  s \in T
  <2>1. CASE s = {}
    BY <2>1, PartialStep
  <2>2. CASE s # {}
    <3>1. /\ Picked(s) \in s
          /\ Partial(f)[s] = f[Picked(s)] + Partial(f)[s \ {Picked(s)}]
      BY <2>2, PartialStep
    <3>2. s \ {Picked(s)} \in T
      BY <1>2, <3>1
    <3>3. QED
      BY <3>1, <3>2
  <2>3. QED
    BY <2>1, <2>2
<1>3. SUBSET D \subseteq T
  <2> HIDE DEF T
  <2>1. QED
    BY <1>2, BuildUp
<1>4. QED
  BY <1>3, SumIsPartial

LEMMA SumUpdate ==
    ASSUME NEW D, IsFiniteSet(D), NEW f \in [D -> Int], NEW g \in [D -> Int], NEW d \in D,
           \A x \in D \ {d} : g[x] = f[x]
    PROVE  SumFunction(g) = SumFunction(f) - f[d] + g[d]
<1>1. DEFINE h == [x \in D |-> IF x = d THEN g[d] - f[d] ELSE 0]
<1>2. h \in [D -> Int] /\ SumFunction(h) = g[d] - f[d]
  BY SumOne
<1>3. g = [x \in D |-> f[x] + h[x]]
  OBVIOUS
<1>4. SumFunction(g) = SumFunction(f) + SumFunction(h)
  <2> HIDE DEF h
  <2>1. QED
    BY <1>2, <1>3, SumAdd
<1>5. SumFunction(f) \in Int
  BY SumInt
<1>6. QED
  BY <1>2, <1>4, <1>5

\* A sum grows with its terms.
LEMMA SumMono ==
    ASSUME NEW D, IsFiniteSet(D), NEW f \in [D -> Int], NEW g \in [D -> Int],
           \A x \in D : f[x] <= g[x]
    PROVE  SumFunction(f) <= SumFunction(g)
<1>1. DEFINE h == [x \in D |-> g[x] - f[x]]
<1>2. h \in [D -> Nat] /\ h \in [D -> Int] /\ g = [x \in D |-> f[x] + h[x]]
  OBVIOUS
<1>3. HIDE DEF h
<1>4. SumFunction(g) = SumFunction(f) + SumFunction(h)
  BY <1>2, SumAdd
<1>5. SumFunction(h) \in Nat /\ SumFunction(f) \in Int
  BY <1>2, SumNat, SumInt
<1>6. QED
  BY <1>4, <1>5

\* The next element may be any other.
LEMMA AnyNext ==
    ASSUME NEW D, IsFiniteSet(D), NEW f \in [D -> Int]
    PROVE  \A s \in SUBSET D : \A x \in s : Partial(f)[s] = f[x] + Partial(f)[s \ {x}]
<1>1. DEFINE T == {s \in SUBSET D : \A x \in s : Partial(f)[s] = f[x] + Partial(f)[s \ {x}]}
<1>2. ASSUME NEW s \in SUBSET D, \A t \in SUBSET s : t # s => t \in T
      PROVE  s \in T
  <2>1. ASSUME NEW x \in s PROVE Partial(f)[s] = f[x] + Partial(f)[s \ {x}]
    <3>1. DEFINE p == Picked(s)
    <3>2. p \in s /\ Partial(f)[s] = f[p] + Partial(f)[s \ {p}]
      BY <2>1, PartialStep
    <3>3. CASE x = p
      BY <3>2, <3>3
    <3>4. CASE x # p
      <4>1. /\ s \ {p} \in T /\ x \in s \ {p}
            /\ s \ {x} \in T /\ p \in s \ {x}
        BY <1>2, <2>1, <3>2, <3>4
      <4>2. /\ Partial(f)[s \ {p}] = f[x] + Partial(f)[(s \ {p}) \ {x}]
            /\ Partial(f)[s \ {x}] = f[p] + Partial(f)[(s \ {x}) \ {p}]
        BY <4>1
      <4>3. (s \ {p}) \ {x} = (s \ {x}) \ {p}
        OBVIOUS
      <4>4. f[x] \in Int /\ f[p] \in Int /\ Partial(f)[(s \ {x}) \ {p}] \in Int
        BY <2>1, <3>2, PartialInt
      <4>5. DEFINE all == Partial(f)[s]
                   less == Partial(f)[s \ {x}]
                   least == Partial(f)[(s \ {x}) \ {p}]
      <4>6. all = f[p] + (f[x] + least) /\ less = f[p] + least
        BY <3>2, <4>2, <4>3
      <4>7. all = f[x] + less
        <5> HIDE DEF all, less, least, p
        <5>1. least \in Int
          BY <4>4 DEF least
        <5>2. QED
          BY ONLY <4>4, <4>6, <5>1
      <4>8. QED
        BY <4>7
    <3>5. QED
      BY <3>3, <3>4
  <2>2. QED
    BY <2>1
<1>3. SUBSET D \subseteq T
  <2> HIDE DEF T
  <2>1. QED
    BY <1>2, BuildUp
<1>4. QED
  BY <1>3

\* Zeroes elsewhere add nothing.
LEMMA SumExtend ==
    ASSUME NEW E, IsFiniteSet(E), NEW D \in SUBSET E, NEW f \in [D -> Int],
           NEW g \in [E -> Int], \A x \in E : g[x] = IF x \in D THEN f[x] ELSE 0
    PROVE  SumFunction(g) = SumFunction(f)
<1>1. IsFiniteSet(D)
  BY FS_Subset
<1>2. DEFINE T == {s \in SUBSET E : Partial(g)[s] = Partial(f)[s \cap D]}
<1>3. ASSUME NEW s \in SUBSET E, \A t \in SUBSET s : t # s => t \in T
      PROVE  s \in T
  <2>1. CASE s = {}
    <3>1. s \cap D = {} /\ Partial(g)[s] = 0 /\ Partial(f)[s \cap D] = 0
      BY <1>1, <2>1, PartialStep
    <3>2. QED
      BY <3>1
  <2>2. CASE s # {}
    <3>1. PICK x : x \in s
      BY <2>2
    <3>2. Partial(g)[s] = g[x] + Partial(g)[s \ {x}]
      BY <3>1, AnyNext
    <3>3. s \ {x} \in T
      BY <1>3, <3>1
    <3>4. Partial(g)[s \ {x}] = Partial(f)[(s \ {x}) \cap D]
      BY <3>3
    <3>5. CASE x \in D
      <4>1. x \in s \cap D /\ s \cap D \in SUBSET D /\ (s \ {x}) \cap D = (s \cap D) \ {x}
        BY <3>1, <3>5
      <4>2. Partial(f)[s \cap D] = f[x] + Partial(f)[(s \cap D) \ {x}]
        BY <1>1, <4>1, AnyNext
      <4>3. g[x] = f[x]
        BY <3>1, <3>5
      <4>4. Partial(g)[s] = f[x] + Partial(f)[(s \cap D) \ {x}]
        BY <3>2, <3>4, <4>1, <4>3
      <4>5. QED
        BY <4>2, <4>4
    <3>6. CASE x \notin D
      <4>1. (s \ {x}) \cap D = s \cap D
        BY <3>6
      <4>2. g[x] = 0
        BY <3>1, <3>6
      <4>3. Partial(g)[s \ {x}] \in Int
        BY PartialInt
      <4>4. Partial(g)[s] = Partial(g)[s \ {x}]
        BY <3>2, <4>2, <4>3
      <4>5. QED
        BY <3>4, <4>1, <4>4
    <3>7. QED
      BY <3>5, <3>6
  <2>3. QED
    BY <2>1, <2>2
<1>4. SUBSET E \subseteq T
  <2> HIDE DEF T
  <2>1. QED
    BY <1>3, BuildUp
<1>5. Partial(g)[E] = Partial(f)[E \cap D]
  BY <1>4
<1>6. E \cap D = D
  OBVIOUS
<1>7. QED
  BY <1>5, <1>6, SumIsPartial

-----------------------------------------------------------------------------
(* Types *)

PayTypes == {"cash", "credit", "card", "approved"}

Results ==
    {"none", "INVALID_USER_XACT_ID", "REFUSED", "DECLINED", "SUCCESS", "SUCCESS_WO_RECORD",
     "FAILED"}

Requests ==
    [at : {"asked", "checked", "charged", "done"}, type : PayTypes,
     pay : [Xacts -> Int], times : [Xacts -> Nat], change : Int, xid : Int,
     bal : [Xacts -> Int], credit : Int, result : Results]

MoneyTypes ==
    /\ billed \in [Xacts -> 0..MaxBilled]
    /\ paid \in [Xacts -> Int] /\ desk \in [Xacts -> Int]
    /\ finished \subseteq Xacts /\ stopped \subseteq Circs
    /\ out \subseteq Circs /\ overdue \subseteq Circs
    /\ credit \in Nat /\ last_xact_id \in Nat
    /\ req \in [Clients -> Requests \union {Idle}]
    /\ taken \in Int /\ unrecorded \in Int /\ unreported \in Int
    /\ recorded \in [Clients -> Nat] /\ faults \in 0..MaxFaults

LEMMA IsRequest ==
    ASSUME MoneyTypes, NEW c \in Clients, req[c].at # "idle"
    PROVE  req[c] \in Requests
  BY DEF MoneyTypes, Idle

LEMMA RequestTyped ==
    ASSUME NEW type \in PayTypes, NEW pay \in [Xacts -> Int], NEW times \in [Xacts -> Nat],
           NEW change \in Int, NEW xid \in Int
    PROVE  Request(type, pay, times, change, xid) \in Requests
<1>1. NoPay \in [Xacts -> Int]
  BY DEF NoPay
<1>2. "none" \in Results
  BY DEF Results
<1>3. QED
  BY <1>1, <1>2 DEF Request, Requests

LEMMA TotalInt ==
    ASSUME NEW r \in Requests
    PROVE  Paying(r) \in [Xacts -> Int] /\ Total(r) \in Int
<1>1. r.pay \in [Xacts -> Int] /\ r.times \in [Xacts -> Nat]
  BY DEF Requests
<1>2. Paying(r) \in [Xacts -> Int]
  BY <1>1 DEF Paying
<1>3. QED
  BY <1>2, MoneyAssumption, SumInt DEF Total

LEMMA OverpaidInt ==
    ASSUME NEW r \in Requests
    PROVE  Overpaid(r) \in Int /\ CreditOf(r) \in Int
<1>1. /\ r.pay \in [Xacts -> Int] /\ r.times \in [Xacts -> Nat]
      /\ r.bal \in [Xacts -> Int] /\ r.change \in Int
  BY DEF Requests
<1>2. DEFINE f == [x \in Xacts |->
          IF r.pay[x] >= r.bal[x] THEN (r.pay[x] - r.bal[x]) * r.times[x] ELSE 0]
<1>3. f \in [Xacts -> Int]
  BY <1>1
<1>4. SumFunction(f) \in Int
  <2> HIDE DEF f
  <2>1. QED
    BY <1>3, MoneyAssumption, SumInt
<1>5. Overpaid(r) \in Int
  BY <1>4 DEF Overpaid
<1>6. QED
  BY <1>1, <1>5, TotalInt DEF CreditOf

\* A charge of this server's is all a card request brings.
LEMMA ReceivedInt ==
    ASSUME NEW r \in Requests
    PROVE  /\ Received(r) \in Int /\ Beforehand(r) \in Int
           /\ r.type = "card" => Received(r) = Total(r) /\ Beforehand(r) = 0
<1>1. Total(r) \in Int /\ r.change \in Int /\ r.type \in PayTypes
  BY TotalInt DEF Requests
<1>2. Received(r) \in Int /\ (r.type = "card" => Received(r) = Total(r))
  BY <1>1 DEF Received, PayTypes
<1>3. QED
  BY <1>2 DEF Beforehand

\* A request that another stage has been reached for.
LEMMA StageTyped ==
    ASSUME MoneyTypes, NEW c \in Clients, NEW r \in Requests \union {Idle},
           req' = [req EXCEPT ![c] = r]
    PROVE  /\ req' \in [Clients -> Requests \union {Idle}]
           /\ req'[c] = r
           /\ \A d \in Clients \ {c} : req'[d] = req[d]
  BY DEF MoneyTypes

LEMMA DoneTyped ==
    ASSUME MoneyTypes, NEW c \in Clients, NEW result \in Results,
           req[c].at # "idle", Done(c, result)
    PROVE  /\ req' \in [Clients -> Requests \union {Idle}]
           /\ req'[c].at = "done"
           /\ \A d \in Clients \ {c} : req'[d] = req[d]
<1>1. req[c] \in Requests
  BY IsRequest
<1>2. DEFINE r == [[req[c] EXCEPT !.at = "done"] EXCEPT !.result = result]
<1>3. r \in Requests /\ r.at = "done"
  BY <1>1 DEF Requests
<1>4. req' = [req EXCEPT ![c] = r]
  BY DEF Done, MoneyTypes
<1>5. HIDE DEF r
<1>6. QED
  BY <1>3, <1>4, StageTyped

\* What a request becomes that passes the first transaction.
Checked(r) == [[[r EXCEPT !.at = "checked"] EXCEPT !.bal = Balances] EXCEPT !.credit = credit]

LEMMA BalancesInt ==
    ASSUME MoneyTypes
    PROVE  Balances \in [Xacts -> Int] /\ \A x \in Xacts : Balance(x) \in Int
  BY DEF MoneyTypes, Balances, Balance

\* The three ways out of the first transaction.
LEMMA CheckCases ==
    ASSUME MoneyTypes, NEW c \in Clients, Check(c)
    PROVE  /\ req[c].at = "asked" /\ Quiet
           /\ UNCHANGED <<accounts, unrecorded, recorded, faults>>
           /\ \/ /\ \E result \in Results : Done(c, result)
                 /\ taken' = taken + Beforehand(req[c])
                 /\ unreported' = unreported + Beforehand(req[c])
              \/ /\ Version(req[c]) /\ Refundable(req[c])
                 /\ req' = [req EXCEPT ![c] = Checked(req[c])]
                 /\ Checked(req[c]) \in Requests
                 /\ UNCHANGED <<taken, unreported>>
<1>1. req[c].at = "asked" /\ Quiet /\ UNCHANGED <<accounts, unrecorded, recorded, faults>>
  BY DEF Check
<1>2. CASE /\ Fails(c, IF Version(req[c]) THEN "REFUSED" ELSE "INVALID_USER_XACT_ID")
           /\ unreported' = unreported + Beforehand(req[c])
  <2>1. "INVALID_USER_XACT_ID" \in Results /\ "REFUSED" \in Results
    BY DEF Results
  <2>2. QED
    BY <1>1, <1>2, <2>1 DEF Fails
<1>3. CASE /\ Version(req[c]) /\ Refundable(req[c])
           /\ req' = [req EXCEPT ![c].at = "checked", ![c].bal = Balances,
                                 ![c].credit = credit]
           /\ UNCHANGED <<taken, unreported>>
  <2>1. req[c] \in Requests
    BY <1>1, IsRequest
  <2>2. Checked(req[c]) \in Requests
    <3>1. Balances \in [Xacts -> Int] /\ credit \in Int
      BY BalancesInt DEF MoneyTypes
    <3>2. QED
      BY <2>1, <3>1 DEF Checked, Requests
  <2>3. req' = [req EXCEPT ![c] = Checked(req[c])]
    BY <1>3 DEF Checked, MoneyTypes
  <2>4. QED
    BY <1>1, <1>3, <2>2, <2>3
<1>4. QED
  BY <1>2, <1>3 DEF Check

LEMMA CheckTypes ==
    ASSUME MoneyTypes, NEW c \in Clients, Check(c)
    PROVE  MoneyTypes'
<1>1. UNCHANGED <<accounts, unrecorded, recorded, faults>> /\ req[c].at = "asked"
  BY DEF Check
<1>2. req' \in [Clients -> Requests \union {Idle}]
  BY CheckCases, DoneTyped, StageTyped
<1>3. taken' \in Int /\ unreported' \in Int
  <2>1. Beforehand(req[c]) \in Int /\ taken \in Int /\ unreported \in Int
    BY <1>1, IsRequest, ReceivedInt DEF MoneyTypes
  <2>2. \/ taken' = taken + Beforehand(req[c]) /\ unreported' = unreported + Beforehand(req[c])
        \/ UNCHANGED <<taken, unreported>>
    BY CheckCases
  <2>3. QED
    BY <2>1, <2>2
<1>4. QED
  BY <1>1, <1>2, <1>3 DEF MoneyTypes, accounts, loans

LEMMA ChargeCases ==
    ASSUME MoneyTypes, NEW c \in Clients, Charge(c)
    PROVE  /\ req[c].at = "checked" /\ req[c].type = "card"
           /\ UNCHANGED <<accounts, unrecorded, unreported, recorded, faults>>
           /\ \/ /\ req' = [req EXCEPT ![c] = [req[c] EXCEPT !.at = "charged"]]
                 /\ [req[c] EXCEPT !.at = "charged"] \in Requests
                 /\ taken' = taken + Total(req[c])
              \/ Done(c, "DECLINED") /\ UNCHANGED taken
<1>1. /\ req[c].at = "checked" /\ req[c].type = "card"
      /\ UNCHANGED <<accounts, unrecorded, unreported, recorded, faults>>
  BY DEF Charge
<1>2. req[c] \in Requests
  BY <1>1, IsRequest
<1>3. [req[c] EXCEPT !.at = "charged"] \in Requests
  BY <1>2 DEF Requests
<1>4. QED
  BY <1>1, <1>3 DEF Charge, MoneyTypes

LEMMA ChargeTypes ==
    ASSUME MoneyTypes, NEW c \in Clients, Charge(c)
    PROVE  MoneyTypes'
<1>1. UNCHANGED <<accounts, unrecorded, unreported, recorded, faults>>
  BY DEF Charge
<1>2. req' \in [Clients -> Requests \union {Idle}]
  <2>1. "DECLINED" \in Results
    BY DEF Results
  <2>2. QED
    BY <2>1, ChargeCases, DoneTyped, StageTyped
<1>3. taken' \in Int
  <2>1. req[c] \in Requests
    BY ChargeCases, IsRequest
  <2>2. Total(req[c]) \in Int
    BY <2>1, TotalInt
  <2>3. taken \in Int
    BY DEF MoneyTypes
  <2>4. taken' = taken + Total(req[c]) \/ taken' = taken
    BY ChargeCases
  <2>5. QED
    BY <2>2, <2>3, <2>4
<1>4. QED
  BY <1>1, <1>2, <1>3 DEF MoneyTypes, accounts, loans

Recorded(r) ==
    [[[r EXCEPT !.at = "done"] EXCEPT !.result = "SUCCESS"] EXCEPT !.xid = Renews(r)]

LEMMA RecordCases ==
    ASSUME MoneyTypes, NEW c \in Clients, Record(c)
    PROVE  /\ Prepared(req[c]) /\ req[c] \in Requests
           /\ req' = [req EXCEPT ![c] = Recorded(req[c])]
           /\ Recorded(req[c]) \in Requests
<1>1. Prepared(req[c])
  BY DEF Record
<1>2. req[c] \in Requests
  BY <1>1, IsRequest DEF Prepared
<1>3. "SUCCESS" \in Results
  BY DEF Results
<1>4. Renews(req[c]) \in Int
  BY DEF Renews, MoneyTypes
<1>5. Recorded(req[c]) \in Requests
  BY <1>2, <1>3, <1>4 DEF Recorded, Requests
<1>6. req' = [req EXCEPT ![c] = Recorded(req[c])]
  BY DEF Record, Recorded, MoneyTypes
<1>7. QED
  BY <1>1, <1>2, <1>5, <1>6

LEMMA RecordTypes ==
    ASSUME MoneyTypes, NEW c \in Clients, Record(c)
    PROVE  MoneyTypes'
<1>1. DEFINE r == req[c]
<1>2. r \in Requests
  BY RecordCases
<1>3. /\ Paying(r) \in [Xacts -> Int] /\ Total(r) \in Int /\ CreditOf(r) \in Int
      /\ r.credit \in Int /\ r.change \in Int /\ r.type \in PayTypes
  BY <1>2, TotalInt, OverpaidInt DEF Requests
<1>4. req' \in [Clients -> Requests \union {Idle}]
  BY RecordCases, StageTyped
<1>5. paid' \in [Xacts -> Int] /\ desk' \in [Xacts -> Int]
  <2>1. paid' = [x \in Xacts |-> paid[x] + Paying(r)[x]]
    BY DEF Record
  <2>2. desk' = [x \in Xacts |-> desk[x] + IF r.type = "credit" THEN 0 ELSE Paying(r)[x]]
    BY DEF Record
  <2>3. paid \in [Xacts -> Int] /\ desk \in [Xacts -> Int]
    BY DEF MoneyTypes
  <2>4. QED
    BY <1>3, <2>1, <2>2, <2>3
<1>6. credit' \in Nat
  <2>1. credit' = r.credit + CreditOf(r) /\ r.credit + CreditOf(r) >= 0
    BY DEF Record
  <2>2. QED
    BY <1>3, <2>1
<1>7. taken' \in Int
  <2>1. taken' = taken + IF r.type = "card" THEN 0 ELSE Received(r)
    BY DEF Record
  <2>2. taken \in Int /\ Received(r) \in Int
    BY <1>2, ReceivedInt DEF MoneyTypes
  <2>3. QED
    BY <2>1, <2>2
<1>8. finished' \subseteq Xacts
  BY DEF Record, Closes, Lines, MoneyTypes
<1>9. last_xact_id' \in Nat
  BY DEF Record, Renews, MoneyTypes
<1>10. recorded' \in [Clients -> Nat]
  BY DEF Record, MoneyTypes
<1>11. UNCHANGED <<billed, stopped, out, overdue, unrecorded, unreported, faults>>
  BY DEF Record, loans
<1>12. QED
  BY <1>4, <1>5, <1>6, <1>7, <1>8, <1>9, <1>10, <1>11 DEF MoneyTypes

\* The three ways to fail in the second transaction: what was received, and is not
\* recorded, is counted on one of two sides.
Failing(c) == RecordingFails(c) \/ UpdateFails(c) \/ CommitFails(c)

LEMMA FailCases ==
    ASSUME MoneyTypes, NEW c \in Clients, Failing(c)
    PROVE  /\ Prepared(req[c]) /\ req[c] \in Requests
           /\ req' \in [Clients -> Requests \union {Idle}]
           /\ req'[c].at = "done" /\ req'[c].type = req[c].type
           /\ req'[c].change = req[c].change
           /\ \A d \in Clients \ {c} : req'[d] = req[d]
           /\ UNCHANGED <<accounts, recorded>>
<1>1. Prepared(req[c]) /\ UNCHANGED <<accounts, recorded>>
  BY DEF Failing, RecordingFails, UpdateFails, CommitFails
<1>2. req[c] \in Requests
  BY <1>1, IsRequest DEF Prepared
<1>3. CASE RecordingFails(c) \/ UpdateFails(c)
  <2>1. "SUCCESS_WO_RECORD" \in Results /\ "FAILED" \in Results
    BY DEF Results
  <2>2. PICK result \in Results : Done(c, result)
    BY <1>3, <2>1 DEF RecordingFails, UpdateFails, Fails
  <2>3. req'[c].type = req[c].type /\ req'[c].change = req[c].change
    BY <1>2, <2>2 DEF Done, MoneyTypes, Requests
  <2>4. req[c].at # "idle"
    BY <1>1 DEF Prepared
  <2>5. QED
    BY <1>1, <1>2, <2>2, <2>3, <2>4, DoneTyped
<1>4. CASE CommitFails(c)
  <2>1. DEFINE k == [[[req[c] EXCEPT !.at = "done"] EXCEPT !.result = "SUCCESS"]
                        EXCEPT !.xid = NeverCurrent]
  <2>2. "SUCCESS" \in Results /\ NeverCurrent \in Int
    BY DEF Results, NeverCurrent
  <2>3. /\ k \in Requests /\ k.at = "done" /\ k.type = req[c].type
        /\ k.change = req[c].change
    BY <1>2, <2>2 DEF Requests
  <2>4. req' = [req EXCEPT ![c] = k]
    BY <1>4 DEF CommitFails, MoneyTypes
  <2>5. HIDE DEF k
  <2>6. QED
    BY <1>1, <1>2, <2>3, <2>4, StageTyped
<1>5. QED
  BY <1>3, <1>4 DEF Failing

\* k is what is received as the request fails.
LEMMA FailMoney ==
    ASSUME MoneyTypes, NEW c \in Clients, Failing(c)
    PROVE  \E k \in Int :
              /\ taken' = taken + k
              /\ unrecorded' \in Int /\ unreported' \in Int
              /\ unrecorded' + unreported' = unrecorded + unreported + k
                    + IF req[c].type = "card" THEN Total(req[c]) ELSE 0
<1>1. DEFINE r == req[c]
             card == IF r.type = "card" THEN Total(r) ELSE 0
             now == IF r.type = "card" THEN 0 ELSE Received(r)
<1>2. r \in Requests
  BY FailCases
<1>3. /\ Total(r) \in Int /\ Received(r) \in Int /\ Beforehand(r) \in Int
      /\ r.type = "card" => Received(r) = Total(r) /\ Beforehand(r) = 0
      /\ unrecorded \in Int /\ unreported \in Int
  BY <1>2, TotalInt, ReceivedInt DEF MoneyTypes
<1>4. CASE RecordingFails(c)
  <2>1. /\ taken' = taken + Beforehand(r) /\ unrecorded' = unrecorded + card
        /\ unreported' = unreported + Beforehand(r)
    BY <1>4 DEF RecordingFails, Fails
  <2>2. PICK k \in Int : k = Beforehand(r)
    BY <1>3
  <2>3. WITNESS k \in Int
  <2>4. QED
    BY <1>3, <2>1, <2>2
<1>5. CASE UpdateFails(c)
  <2>1. /\ taken' = taken + Beforehand(r) /\ unrecorded' = unrecorded
        /\ unreported' = unreported + IF r.type = "card" THEN Total(r) ELSE Beforehand(r)
    BY <1>5 DEF UpdateFails, Fails
  <2>2. PICK k \in Int : k = Beforehand(r)
    BY <1>3
  <2>3. WITNESS k \in Int
  <2>4. QED
    BY <1>3, <2>1, <2>2
<1>6. CASE CommitFails(c)
  <2>1. /\ taken' = taken + now /\ unrecorded' = unrecorded
        /\ unreported' = unreported + Received(r)
    BY <1>6 DEF CommitFails
  <2>2. PICK k \in Int : k = now
    BY <1>3
  <2>3. WITNESS k \in Int
  <2>4. QED
    BY <1>3, <2>1, <2>2
<1>7. QED
  BY <1>4, <1>5, <1>6 DEF Failing

LEMMA FailTypes ==
    ASSUME MoneyTypes, NEW c \in Clients, Failing(c)
    PROVE  MoneyTypes'
<1>1. UNCHANGED <<accounts, recorded>> /\ req' \in [Clients -> Requests \union {Idle}]
  BY FailCases
<1>2. taken' \in Int /\ unrecorded' \in Int /\ unreported' \in Int
  BY FailMoney DEF MoneyTypes
<1>3. faults' \in 0..MaxFaults
  BY MoneyAssumption
     DEF Failing, RecordingFails, UpdateFails, CommitFails, Fault, MoneyTypes
<1>4. QED
  BY <1>1, <1>2, <1>3 DEF MoneyTypes, accounts, loans

LEMMA PayTypesKept ==
    ASSUME MoneyTypes, NEW c \in Clients, Pay(c)
    PROVE  MoneyTypes'
  BY CheckTypes, ChargeTypes, RecordTypes, FailTypes DEF Pay, Failing

\* The clients decide what becomes of the count of recordings.
LEMMA BillTypes ==
    ASSUME MoneyTypes, NEW x \in Xacts, Bill(x, 1), recorded' \in [Clients -> Nat]
    PROVE  MoneyTypes'
  BY MoneyAssumption DEF Bill, CheckOpen, NoPayment, MoneyTypes, loans

LEMMA VoidTypes ==
    ASSUME MoneyTypes, NEW x \in Xacts, Void(x), recorded' \in [Clients -> Nat]
    PROVE  MoneyTypes'
  BY MoneyAssumption DEF Void, CheckOpen, NoPayment, MoneyTypes, loans

LEMMA LoanTypes ==
    ASSUME MoneyTypes, NEW x \in Xacts, Befalls(x), recorded' \in [Clients -> Nat]
    PROVE  MoneyTypes'
<1>1. CASE ListOverdue(x)
  BY <1>1 DEF ListOverdue, CircOpen, NoPayment, MoneyTypes
<1>2. CASE StopFines(x)
  BY <1>2 DEF StopFines, NoPayment, MoneyTypes
<1>3. CASE Return(x)
  BY <1>3 DEF Return, NoPayment, MoneyTypes
<1>4. CASE \E amount \in {0, 1}, maxed \in BOOLEAN : Fine(x, amount, maxed)
  <2>1. PICK amount \in {0, 1}, maxed \in BOOLEAN : Fine(x, amount, maxed)
    BY <1>4
  <2>2. billed' \in [Xacts -> 0..MaxBilled]
    BY <2>1, MoneyAssumption DEF Fine, MoneyTypes
  <2>3. stopped' \subseteq Circs /\ overdue' \subseteq Circs
    BY <2>1 DEF Fine, MoneyTypes
  <2>4. UNCHANGED <<paid, desk, finished, out, credit, last_xact_id, req, taken, unrecorded,
                    unreported, faults>>
    BY <2>1 DEF Fine, NoPayment
  <2>5. QED
    BY <2>2, <2>3, <2>4 DEF MoneyTypes
<1>5. QED
  BY <1>1, <1>2, <1>3, <1>4 DEF Befalls

\* A request is sent, or over.
LEMMA ClientTypes ==
    ASSUME MoneyTypes, NEW c \in Clients, NEW r \in Requests \union {Idle},
           req' = [req EXCEPT ![c] = r],
           UNCHANGED accounts, unrecorded' = unrecorded,
           taken' \in Int, unreported' \in Int,
           recorded' \in [Clients -> Nat], faults' \in 0..MaxFaults
    PROVE  MoneyTypes'
  BY StageTyped DEF MoneyTypes, accounts, loans

LEMMA InitTypes == MoneyInit => MoneyTypes
  BY MoneyAssumption DEF MoneyInit, MoneyTypes, NoPay

-----------------------------------------------------------------------------
(* What is owed is paid *)

Working(c) == req[c].at \in {"checked", "charged"}

\* What a request that was sent with the present mark pays is still owed, and
\* each transaction is paid on one line.
Fair(r) ==
    r.xid = last_xact_id =>
        \A x \in Lines(r) : r.times[x] = 1 /\ r.pay[x] # 0 /\ r.pay[x] <= Balance(x)

\* What was checked is true until it is recorded, and a refund is a full one.
Agreed(r) ==
    /\ r.bal = Balances /\ r.credit = credit
    /\ \A x \in Lines(r) :
          /\ r.times[x] = 1 /\ r.pay[x] # 0 /\ r.pay[x] <= Balance(x)
          /\ r.pay[x] < 0 => r.pay[x] = Balance(x)

\* The fines of a loan that was brought back have stopped.
Closing ==
    /\ ClosedIffSettled
    /\ Circs \ out \subseteq stopped

PayInv ==
    /\ \A c \in Clients : req[c].at = "asked" => Fair(req[c])
    /\ \A c \in Clients : Working(c) => Agreed(req[c])
    /\ \A c, d \in Clients : Working(c) /\ Working(d) => c = d
    /\ \A c \in Clients : req[c].at = "charged" => req[c].type = "card"
    /\ Closing

\* The money adds up if no change of a card payment becomes credit.
Exact(r) == r.type = "card" => r.change = 0

BalanceInv ==
    /\ MoneyBalances
    /\ \A c \in Clients : req[c] # Idle => Exact(req[c])

LEMMA QuietIsIdle ==
    ASSUME ~Overlap, Quiet
    PROVE  \A c \in Clients : ~Working(c)
  BY DEF Quiet, Working

\* A request that goes on to be done, or away, leaves the others alone.
LEMMA LeavesPayInv ==
    ASSUME MoneyTypes, PayInv, NEW c \in Clients,
           \A d \in Clients \ {c} : req'[d] = req[d],
           req'[c].at \notin {"asked", "checked", "charged"},
           UNCHANGED accounts
    PROVE  PayInv'
<1>1. /\ UNCHANGED <<billed, paid, finished, stopped, out, late, credit, last_xact_id>>
      /\ Balances' = Balances /\ \A x \in Xacts : Balance(x)' = Balance(x)
  BY DEF accounts, loans, Balances, Balance
<1>2. ASSUME NEW d \in Clients, req'[d].at = "asked" PROVE Fair(req[d])'
  BY <1>1, <1>2 DEF PayInv, Fair, Lines
<1>3. ASSUME NEW d \in Clients, Working(d)' PROVE Agreed(req[d])'
  BY <1>1, <1>3 DEF PayInv, Agreed, Lines, Working
<1>4. Closing'
  BY <1>1 DEF PayInv, Closing, ClosedIffSettled, CircOpen
<1>5. QED
  BY <1>2, <1>3, <1>4 DEF PayInv, Working

\* The first transaction lets through what is owed, and only full refunds.
LEMMA CheckedAgrees ==
    ASSUME MoneyTypes, NEW r \in Requests, Fair(r), Version(r), Refundable(r)
    PROVE  Agreed(Checked(r))
<1>1. DEFINE k == Checked(r)
<1>2. k.bal = Balances /\ k.credit = credit /\ k.pay = r.pay /\ k.times = r.times
  BY DEF Checked, Requests
<1>3. \A x \in Lines(r) : r.times[x] = 1 /\ r.pay[x] # 0 /\ r.pay[x] <= Balance(x)
  BY DEF Fair, Version
<1>4. \A x \in Lines(r) : r.pay[x] < 0 => Balance(x) - r.pay[x] <= 0
  BY DEF Refundable
<1>5. \A x \in Lines(r) : x \in Xacts /\ r.pay[x] \in Int /\ Balance(x) \in Int
  BY BalancesInt DEF Lines, Requests
<1>6. \A x \in Lines(r) : r.pay[x] < 0 => r.pay[x] = Balance(x)
  BY <1>3, <1>4, <1>5
<1>7. Lines(k) = Lines(r)
  BY <1>2 DEF Lines
<1>8. QED
  <2> HIDE DEF k
  <2>1. Agreed(k)
    BY <1>2, <1>3, <1>6, <1>7 DEF Agreed
  <2>2. QED
    BY <2>1 DEF k

LEMMA CheckPayInv ==
    ASSUME ~Overlap, MoneyTypes, PayInv, NEW c \in Clients, Check(c)
    PROVE  PayInv'
<1>1. /\ req[c].at = "asked" /\ UNCHANGED accounts
      /\ \A d \in Clients : ~Working(d)
  BY CheckCases, QuietIsIdle
<1>2. CASE \E result \in Results : Done(c, result)
  BY <1>1, <1>2, DoneTyped, LeavesPayInv
<1>3. CASE /\ Version(req[c]) /\ Refundable(req[c])
           /\ req' = [req EXCEPT ![c] = Checked(req[c])]
           /\ Checked(req[c]) \in Requests
  <2>1. req'[c] = Checked(req[c]) /\ \A d \in Clients \ {c} : req'[d] = req[d]
    BY <1>3, StageTyped
  <2>2. req[c] \in Requests /\ Fair(req[c])
    BY <1>1, IsRequest DEF PayInv
  <2>3. PICK k : k = Checked(req[c]) /\ Agreed(k)
    BY <1>3, <2>2, CheckedAgrees
  <2>4. req'[c] = k /\ k.at = "checked"
    BY <2>1, <2>2, <2>3 DEF Checked, Requests
  <2>5. /\ UNCHANGED <<billed, paid, finished, stopped, out, late, credit, last_xact_id>>
        /\ Balances' = Balances /\ \A x \in Xacts : Balance(x)' = Balance(x)
    BY <1>1 DEF accounts, loans, Balances, Balance
  <2>6. Agreed(req[c])'
    BY <2>3, <2>4, <2>5 DEF Agreed, Lines
  <2>7. ASSUME NEW d \in Clients, req'[d].at = "asked" PROVE Fair(req[d])'
    BY <2>1, <2>4, <2>5, <2>7 DEF PayInv, Fair, Lines
  <2>8. \A d \in Clients : Working(d)' => d = c
    BY <1>1, <2>1 DEF Working
  <2>9. Closing'
    BY <2>5 DEF PayInv, Closing, ClosedIffSettled, CircOpen
  <2>10. \A d \in Clients : req'[d].at # "charged"
    BY <1>1, <2>1, <2>4 DEF Working
  <2>11. QED
    BY <2>6, <2>7, <2>8, <2>9, <2>10 DEF PayInv
<1>4. QED
  BY <1>2, <1>3, CheckCases

LEMMA ChargePayInv ==
    ASSUME MoneyTypes, PayInv, NEW c \in Clients, Charge(c)
    PROVE  PayInv'
<1>1. /\ req[c].at = "checked" /\ req[c].type = "card" /\ UNCHANGED accounts
      /\ req[c] \in Requests
  BY ChargeCases, IsRequest
<1>2. CASE Done(c, "DECLINED")
  <2>1. "DECLINED" \in Results
    BY DEF Results
  <2>2. QED
    BY <1>1, <1>2, <2>1, DoneTyped, LeavesPayInv
<1>3. CASE /\ req' = [req EXCEPT ![c] = [req[c] EXCEPT !.at = "charged"]]
           /\ [req[c] EXCEPT !.at = "charged"] \in Requests
  <2>1. PICK k : k = [req[c] EXCEPT !.at = "charged"]
    OBVIOUS
  <2>2. /\ k.at = "charged" /\ k.bal = req[c].bal /\ k.credit = req[c].credit
        /\ k.pay = req[c].pay /\ k.times = req[c].times /\ k.type = "card"
    BY <1>1, <2>1 DEF Requests
  <2>3. req'[c] = k /\ \A d \in Clients \ {c} : req'[d] = req[d]
    BY <1>3, <2>1, StageTyped
  <2>4. /\ UNCHANGED <<billed, paid, finished, stopped, out, late, credit, last_xact_id>>
        /\ Balances' = Balances /\ \A x \in Xacts : Balance(x)' = Balance(x)
    BY <1>1 DEF accounts, loans, Balances, Balance
  <2>5. Agreed(req[c])
    BY <1>1 DEF PayInv, Working
  <2>6. Agreed(req[c])'
    BY <2>2, <2>3, <2>4, <2>5 DEF Agreed, Lines
  <2>7. ASSUME NEW d \in Clients, req'[d].at = "asked" PROVE Fair(req[d])'
    BY <2>2, <2>3, <2>4, <2>7 DEF PayInv, Fair, Lines
  <2>8. \A d \in Clients : Working(d)' => d = c
    BY <1>1, <2>3 DEF PayInv, Working
  <2>9. Closing'
    BY <2>4 DEF PayInv, Closing, ClosedIffSettled, CircOpen
  <2>10. \A d \in Clients : req'[d].at = "charged" => req'[d].type = "card"
    BY <2>2, <2>3 DEF PayInv
  <2>11. QED
    BY <2>6, <2>7, <2>8, <2>9, <2>10 DEF PayInv
<1>4. QED
  BY <1>2, <1>3, ChargeCases

LEMMA FailPayInv ==
    ASSUME MoneyTypes, PayInv, NEW c \in Clients, Failing(c)
    PROVE  PayInv'
<1>1. /\ UNCHANGED accounts /\ req'[c].at = "done"
      /\ \A d \in Clients \ {c} : req'[d] = req[d]
  BY FailCases
<1>2. QED
  BY <1>1, LeavesPayInv

\* What an agreed request writes, and that nothing of it is too much.
LEMMA AgreedPaying ==
    ASSUME MoneyTypes, NEW r \in Requests, Agreed(r)
    PROVE  \A x \in Xacts :
              /\ Paying(r)[x] = IF x \in Lines(r) THEN r.pay[x] ELSE 0
              /\ r.bal[x] = Balance(x)
<1>1. r.pay \in [Xacts -> Int] /\ r.times \in [Xacts -> Nat]
  BY DEF Requests
<1>2. ASSUME NEW x \in Xacts PROVE Paying(r)[x] = IF x \in Lines(r) THEN r.pay[x] ELSE 0
  <2>1. CASE x \in Lines(r)
    <3>1. r.times[x] = 1
      BY <2>1 DEF Agreed
    <3>2. QED
      BY <1>1, <2>1, <3>1 DEF Paying
  <2>2. CASE x \notin Lines(r)
    <3>1. r.times[x] = 0
      BY <1>1, <2>2 DEF Lines
    <3>2. QED
      BY <1>1, <2>2, <3>1 DEF Paying
  <2>3. QED
    BY <2>1, <2>2
<1>3. QED
  BY <1>2 DEF Agreed, Balances

LEMMA AgreedOverpaid ==
    ASSUME MoneyTypes, NEW r \in Requests, Agreed(r)
    PROVE  Overpaid(r) = 0
<1>1. /\ r.pay \in [Xacts -> Int] /\ r.times \in [Xacts -> Nat] /\ r.bal \in [Xacts -> Int]
  BY DEF Requests
<1>2. DEFINE f == [x \in Xacts |->
          IF r.pay[x] >= r.bal[x] THEN (r.pay[x] - r.bal[x]) * r.times[x] ELSE 0]
<1>3. ASSUME NEW x \in Xacts PROVE f[x] = 0
  <2>1. CASE x \in Lines(r)
    <3>1. r.pay[x] <= r.bal[x]
      BY <2>1, AgreedPaying DEF Agreed
    <3>2. r.pay[x] >= r.bal[x] => r.pay[x] - r.bal[x] = 0
      BY <1>1, <3>1
    <3>3. QED
      BY <1>1, <3>2
  <2>2. CASE x \notin Lines(r)
    <3>1. r.times[x] = 0
      BY <1>1, <2>2 DEF Lines
    <3>2. QED
      BY <1>1, <3>1
  <2>3. QED
    BY <2>1, <2>2
<1>4. f \in [Xacts -> Int]
  BY <1>1
<1>5. SumFunction(f) = 0
  <2> HIDE DEF f
  <2>1. QED
    BY <1>3, <1>4, MoneyAssumption, SumZero
<1>6. QED
  BY <1>5 DEF Overpaid

LEMMA RecordBalance ==
    ASSUME MoneyTypes, PayInv, NEW c \in Clients, Record(c)
    PROVE  /\ req[c] \in Requests /\ Agreed(req[c])
           /\ \A x \in Xacts :
                 /\ paid'[x] = paid[x] + Paying(req[c])[x]
                 /\ Balance(x)' = Balance(x) - Paying(req[c])[x]
                 /\ Paying(req[c])[x] \in Int /\ Balance(x) \in Int
<1>1. req[c] \in Requests /\ Working(c)
  BY RecordCases DEF Prepared, Working
<1>2. Agreed(req[c])
  BY <1>1 DEF PayInv
<1>3. paid' = [x \in Xacts |-> paid[x] + Paying(req[c])[x]] /\ UNCHANGED billed
  BY DEF Record
<1>4. Paying(req[c]) \in [Xacts -> Int]
  BY <1>1, TotalInt
<1>5. QED
  BY <1>1, <1>2, <1>3, <1>4, BalancesInt DEF Balance, MoneyTypes

\* The account after a payment: nothing is paid that is not due.
LEMMA RecordIsDue ==
    ASSUME MoneyTypes, PayInv, NEW c \in Clients, Record(c)
    PROVE  PaysWhatIsDue
<1>1. ASSUME NEW x \in Xacts
      PROVE  /\ paid'[x] > paid[x] => paid'[x] <= billed[x]
             /\ paid'[x] < paid[x] => paid'[x] >= billed[x]
  <2>1. DEFINE p == Paying(req[c])[x]
  <2>2. p = 0 \/ (p <= Balance(x) /\ (p < 0 => p = Balance(x)))
    BY RecordBalance, AgreedPaying DEF Agreed
  <2>3. paid'[x] = paid[x] + p /\ p \in Int
    BY RecordBalance
  <2>4. paid[x] \in Int /\ billed[x] \in Int
    BY DEF MoneyTypes
  <2>5. QED
    <3> HIDE DEF p
    <3>1. QED
      BY <2>2, <2>3, <2>4 DEF Balance
<1>2. QED
  BY <1>1 DEF PaysWhatIsDue

LEMMA RecordCloses ==
    ASSUME MoneyTypes, PayInv, NEW c \in Clients, Record(c)
    PROVE  Closing'
<1>1. DEFINE r == req[c]
<1>2. r \in Requests /\ Agreed(r)
  BY RecordBalance
<1>3. finished' = finished \union Closes(r) /\ UNCHANGED <<stopped, out, late>>
  BY DEF Record, loans
<1>4. ASSUME NEW x \in Xacts \ late
      PROVE  /\ x \in finished' => Balance(x)' = 0 /\ ~CircOpen(x)'
             /\ Balance(x)' = 0 /\ x \notin out => x \in finished'
  <2>1. CircOpen(x)' = CircOpen(x) /\ (CircOpen(x) => x \in out)
    BY <1>3 DEF CircOpen, PayInv, Closing
  <2>2. /\ x \in finished => Balance(x) = 0 /\ ~CircOpen(x)
        /\ Balance(x) = 0 /\ x \notin out => x \in finished
    BY DEF PayInv, Closing, ClosedIffSettled
  <2>3. /\ Balance(x)' = Balance(x) - Paying(r)[x] /\ Balance(x) \in Int
        /\ Paying(r)[x] = IF x \in Lines(r) THEN r.pay[x] ELSE 0
        /\ r.bal[x] = Balance(x)
    BY <1>2, RecordBalance, AgreedPaying
  <2>4. CASE x \in Lines(r)
    <3>1. /\ r.pay[x] # 0 /\ r.pay[x] <= Balance(x) /\ r.pay[x] \in Int
          /\ r.pay[x] < 0 => r.pay[x] = Balance(x)
      BY <1>2, <2>4 DEF Agreed, Requests
    <3>2. x \in Closes(r) <=> Balance(x) - r.pay[x] <= 0 /\ ~CircOpen(x)
      BY <2>3, <2>4 DEF Closes
    <3>3. Balance(x) # 0 /\ (Balance(x) - r.pay[x] <= 0 <=> Balance(x)' = 0)
      BY <2>3, <2>4, <3>1
    <3>4. QED
      BY <1>3, <2>1, <2>2, <3>2, <3>3
  <2>5. CASE x \notin Lines(r)
    <3>1. x \notin Closes(r)
      BY <2>5 DEF Closes
    <3>2. Balance(x)' = Balance(x)
      BY <2>3, <2>5
    <3>3. QED
      BY <1>3, <2>1, <2>2, <3>1, <3>2
  <2>6. QED
    BY <2>4, <2>5
<1>5. ClosedIffSettled'
  BY <1>3, <1>4 DEF ClosedIffSettled
<1>6. QED
  BY <1>3, <1>5 DEF PayInv, Closing

\* Requests sent before are no longer current.
LEMMA RecordPayInv ==
    ASSUME MoneyTypes, PayInv, NEW c \in Clients, Record(c),
           \A d \in Clients : req[d].at = "asked" => req[d].xid <= last_xact_id
    PROVE  PayInv'
<1>1. Working(c) /\ req[c] \in Requests
  BY RecordCases DEF Prepared, Working
<1>2. req'[c].at = "done" /\ \A d \in Clients \ {c} : req'[d] = req[d]
  <2>1. req'[c] = Recorded(req[c]) /\ \A d \in Clients \ {c} : req'[d] = req[d]
    BY RecordCases, StageTyped
  <2>2. Recorded(req[c]).at = "done"
    BY <1>1 DEF Recorded, Requests
  <2>3. QED
    BY <2>1, <2>2
<1>3. last_xact_id' = last_xact_id + 1 /\ last_xact_id \in Nat
  BY DEF Record, Renews, MoneyTypes
<1>4. ASSUME NEW d \in Clients, req'[d].at = "asked" PROVE Fair(req[d])'
  <2>1. req'[d] = req[d] /\ req[d].xid <= last_xact_id
    BY <1>2, <1>4
  <2>2. req[d].xid \in Int
    BY <1>4, <2>1, IsRequest DEF Requests
  <2>3. req'[d].xid # last_xact_id'
    BY <1>3, <2>1, <2>2
  <2>4. QED
    BY <2>3 DEF Fair
<1>5. \A d \in Clients : ~Working(d)'
  BY <1>1, <1>2 DEF PayInv, Working
<1>6. \A d \in Clients : req'[d].at # "charged"
  BY <1>5 DEF Working
<1>7. QED
  BY <1>4, <1>5, <1>6, RecordCloses DEF PayInv

\* Nothing else pays.
LEMMA OthersPayNothing ==
    ASSUME MoneyTypes, UNCHANGED paid
    PROVE  PaysWhatIsDue
  BY DEF PaysWhatIsDue, MoneyTypes

LEMMA PayIsDue ==
    ASSUME MoneyTypes, PayInv, NEW c \in Clients, Pay(c)
    PROVE  PaysWhatIsDue
<1>1. CASE Record(c)
  BY <1>1, RecordIsDue
<1>2. CASE Check(c) \/ Charge(c) \/ Failing(c)
  <2>1. UNCHANGED paid
    BY <1>2, FailCases DEF Check, Charge, accounts
  <2>2. QED
    BY <2>1, OthersPayNothing
<1>3. QED
  BY <1>1, <1>2 DEF Pay, Failing

\* Billings wait for payments that are being made, and close what they settle.
LEMMA CheckOpenCloses ==
    ASSUME MoneyTypes, Closing, NEW x \in Xacts, NEW b \in Int,
           billed' = [billed EXCEPT ![x] = b], CheckOpen(x, b),
           UNCHANGED <<paid, stopped, out, late>>
    PROVE  Closing'
<1>1. ASSUME NEW y \in Xacts \ late
      PROVE  /\ y \in finished' => Balance(y)' = 0 /\ ~CircOpen(y)'
             /\ Balance(y)' = 0 /\ y \notin out => y \in finished'
  <2>1. /\ y \in finished => Balance(y) = 0 /\ ~CircOpen(y)
        /\ Balance(y) = 0 /\ y \notin out => y \in finished
        /\ CircOpen(y) => y \in out
        /\ CircOpen(y)' = CircOpen(y)
    BY DEF Closing, ClosedIffSettled, CircOpen
  <2>2. CASE y = x
    <3>1. Balance(x)' = b - paid[x] /\ paid[x] \in Int
      BY DEF Balance, MoneyTypes
    <3>2. CASE b # paid[x]
      BY <2>2, <3>1, <3>2 DEF CheckOpen
    <3>3. CASE b = paid[x]
      BY <2>1, <2>2, <3>1, <3>3 DEF CheckOpen
    <3>4. QED
      BY <3>2, <3>3
  <2>3. CASE y # x
    <3>1. Balance(y)' = Balance(y)
      BY <2>3 DEF Balance, MoneyTypes
    <3>2. y \in finished' <=> y \in finished
      BY <2>3 DEF CheckOpen
    <3>3. QED
      BY <2>1, <3>1, <3>2
  <2>4. QED
    BY <2>2, <2>3
<1>2. ClosedIffSettled'
  BY <1>1 DEF ClosedIffSettled
<1>3. QED
  BY <1>2 DEF Closing

\* Requests that are not being worked on stay fair while no balance falls.
LEMMA QuietPayInv ==
    ASSUME ~Overlap, Quiet, PayInv, Closing', UNCHANGED <<last_xact_id, req>>,
           \A c \in Clients, x \in Xacts : req[c].at = "asked" => Balance(x)' >= Balance(x),
           \A x \in Xacts : Balance(x) \in Int /\ Balance(x)' \in Int, MoneyTypes
    PROVE  PayInv'
<1>1. \A c \in Clients : ~Working(c)
  BY QuietIsIdle
<1>2. ASSUME NEW c \in Clients, req[c].at = "asked" PROVE Fair(req[c])'
  <2>1. Fair(req[c]) /\ req[c] \in Requests
    BY <1>2, IsRequest DEF PayInv
  <2>2. \A x \in Lines(req[c]) : req[c].pay[x] \in Int /\ x \in Xacts
    BY <2>1 DEF Lines, Requests
  <2>3. \A x \in Xacts : Balance(x)' >= Balance(x) /\ Balance(x) \in Int /\ Balance(x)' \in Int
    BY <1>2
  <2>4. ASSUME req[c].xid = last_xact_id, NEW x \in Lines(req[c])
        PROVE  /\ req[c].times[x] = 1 /\ req[c].pay[x] # 0
               /\ req[c].pay[x] <= Balance(x)'
    <3>1. /\ req[c].times[x] = 1 /\ req[c].pay[x] # 0
          /\ req[c].pay[x] <= Balance(x)
      BY <2>1, <2>4 DEF Fair
    <3>2. Balance(x)' >= Balance(x) /\ Balance(x) \in Int /\ Balance(x)' \in Int
          /\ req[c].pay[x] \in Int
      BY <2>2, <2>3
    <3>3. QED
      BY <3>1, <3>2
  <2>5. QED
    BY <2>4 DEF Fair, Lines
<1>3. QED
  BY <1>1, <1>2 DEF PayInv, Working

LEMMA BillPayInv ==
    ASSUME ~Overlap, MoneyTypes, PayInv, NEW x \in Xacts, Bill(x, 1)
    PROVE  PayInv' /\ PaysWhatIsDue
<1>1. /\ Quiet /\ billed' = [billed EXCEPT ![x] = billed[x] + 1]
      /\ CheckOpen(x, billed[x] + 1)
      /\ UNCHANGED <<paid, stopped, out, late, last_xact_id, req>>
  BY DEF Bill, NoPayment, loans
<1>2. billed[x] \in Int /\ billed[x] + 1 \in Int
  BY DEF MoneyTypes
<1>3. Closing'
  BY <1>1, <1>2, CheckOpenCloses DEF PayInv
<1>4. \A y \in Xacts : /\ Balance(y)' >= Balance(y)
                       /\ Balance(y) \in Int /\ Balance(y)' \in Int
  BY <1>1 DEF Balance, MoneyTypes
<1>5. QED
  BY <1>1, <1>3, <1>4, QuietPayInv, OthersPayNothing

\* Voiding lowers a balance.
LEMMA VoidPayInv ==
    ASSUME ~Overlap, MoneyTypes, PayInv, NEW x \in Xacts, Void(x),
           \A c \in Clients : req[c].at # "asked"
    PROVE  PayInv' /\ PaysWhatIsDue
<1>1. /\ Quiet /\ billed' = [billed EXCEPT ![x] = 0]
      /\ CheckOpen(x, 0) /\ UNCHANGED <<paid, stopped, out, late, last_xact_id, req>>
  BY DEF Void, NoPayment, loans
<1>2. Closing'
  <2>1. 0 \in Int /\ Closing
    BY DEF PayInv
  <2>2. QED
    BY <1>1, <2>1, CheckOpenCloses
<1>3. \A y \in Xacts : Balance(y) \in Int /\ Balance(y)' \in Int
  BY <1>1 DEF Balance, MoneyTypes
<1>4. QED
  BY <1>1, <1>2, <1>3, QuietPayInv, OthersPayNothing

\* No balance falls as a loan is listed, fined, claimed or brought back.
LEMMA LoanPayInv ==
    ASSUME ~Overlap, MoneyTypes, PayInv, NEW x \in Xacts, Befalls(x), Closing'
    PROVE  PayInv' /\ PaysWhatIsDue
<1>1. UNCHANGED <<paid, last_xact_id, req>>
  BY DEF Befalls, ListOverdue, StopFines, Return, Fine, NoPayment
<1>2. \A y \in Xacts : Balance(y) \in Int /\ Balance(y)' \in Int /\ Balance(y)' >= Balance(y)
  <2>1. CASE UNCHANGED billed
    BY <1>1, <2>1, BalancesInt DEF Balance
  <2>2. CASE \E amount \in {0, 1}, maxed \in BOOLEAN : Fine(x, amount, maxed)
    <3>1. PICK amount \in {0, 1} : billed' = [billed EXCEPT ![x] = @ + amount]
      BY <2>2 DEF Fine
    <3>2. QED
      BY <1>1, <3>1 DEF Balance, MoneyTypes
  <2>3. QED
    BY <2>1, <2>2 DEF Befalls, ListOverdue, StopFines, Return
<1>3. CASE Quiet
  BY <1>1, <1>2, <1>3, QuietPayInv, OthersPayNothing
<1>4. CASE ListOverdue(x)
  <2>1. UNCHANGED <<billed, paid, credit, last_xact_id, req>>
    BY <1>4 DEF ListOverdue, NoPayment
  <2>2. Balances' = Balances /\ \A y \in Xacts : Balance(y)' = Balance(y)
    BY <2>1 DEF Balances, Balance
  <2>3. QED
    BY <2>1, <2>2, OthersPayNothing DEF PayInv, Fair, Agreed, Lines, Working
<1>5. QED
  BY <1>3, <1>4 DEF Befalls, StopFines, Return, Fine

LEMMA ReturnCloses ==
    ASSUME MoneyTypes, PayInv, NEW x \in Xacts, Return(x)
    PROVE  Closing'
<1>1. /\ stopped' = stopped \union {x} /\ out' = out \ {x} /\ x \in out
      /\ finished' = IF Balance(x) = 0 THEN finished \union {x} ELSE finished
      /\ UNCHANGED <<billed, paid, late>>
  BY DEF Return, NoPayment
<1>2. \A y \in Xacts : Balance(y)' = Balance(y)
  BY <1>1 DEF Balance
<1>3. ASSUME NEW y \in Xacts \ late
      PROVE  /\ y \in finished' => Balance(y)' = 0 /\ ~CircOpen(y)'
             /\ Balance(y)' = 0 /\ y \notin out' => y \in finished'
  <2>1. /\ y \in finished => Balance(y) = 0 /\ ~CircOpen(y)
        /\ Balance(y) = 0 /\ y \notin out => y \in finished
    BY DEF PayInv, Closing, ClosedIffSettled
  <2>2. CASE y = x
    <3>1. ~CircOpen(x)'
      BY <1>1 DEF CircOpen
    <3>2. QED
      BY <1>1, <1>2, <2>1, <2>2, <3>1
  <2>3. CASE y # x
    <3>1. CircOpen(y)' = CircOpen(y)
      BY <1>1, <2>3 DEF CircOpen
    <3>2. QED
      BY <1>1, <1>2, <2>1, <2>3, <3>1
  <2>4. QED
    BY <2>2, <2>3
<1>4. ClosedIffSettled'
  BY <1>1, <1>3 DEF ClosedIffSettled
<1>5. QED
  BY <1>1, <1>4 DEF PayInv, Closing

\* A loan whose fines still run is not closed; one that is fined late is excepted.
LEMMA FineCloses ==
    ASSUME MoneyTypes, PayInv, NEW x \in Xacts, NEW amount \in {0, 1},
           NEW maxed \in BOOLEAN, Fine(x, amount, maxed)
    PROVE  Closing'
<1>1. /\ billed' = [billed EXCEPT ![x] = @ + amount]
      /\ stopped' = IF maxed THEN stopped \union {x} ELSE stopped
      /\ late' = IF amount > 0 /\ ~CircOpen(x) THEN late \union {x} ELSE late
      /\ UNCHANGED <<paid, finished, out>>
  BY DEF Fine, NoPayment
<1>2. ASSUME NEW y \in Xacts \ late'
      PROVE  /\ y \in finished => Balance(y)' = 0 /\ ~CircOpen(y)'
             /\ Balance(y)' = 0 /\ y \notin out => y \in finished
  <2>1. /\ y \in finished => Balance(y) = 0 /\ ~CircOpen(y)
        /\ Balance(y) = 0 /\ y \notin out => y \in finished
        /\ CircOpen(y) => y \in out
        /\ CircOpen(y)' => CircOpen(y)
    BY <1>1, <1>2 DEF PayInv, Closing, ClosedIffSettled, CircOpen
  <2>2. CASE y = x /\ amount > 0
    <3>1. CircOpen(x)
      BY <1>1, <1>2, <2>2
    <3>2. QED
      BY <2>1, <2>2, <3>1
  <2>3. CASE ~(y = x /\ amount > 0)
    <3>1. billed'[y] = billed[y]
      BY <1>1, <2>3 DEF MoneyTypes
    <3>2. Balance(y)' = Balance(y)
      BY <1>1, <3>1 DEF Balance
    <3>3. QED
      BY <2>1, <3>2
  <2>4. QED
    BY <2>2, <2>3
<1>3. ClosedIffSettled'
  BY <1>1, <1>2 DEF ClosedIffSettled
<1>4. QED
  BY <1>1, <1>3 DEF PayInv, Closing

LEMMA LoanCloses ==
    ASSUME MoneyTypes, PayInv, NEW x \in Xacts, Befalls(x)
    PROVE  Closing'
<1>1. CASE ListOverdue(x) \/ StopFines(x)
  <2>1. /\ stopped \subseteq stopped'
        /\ UNCHANGED <<billed, paid, finished, out, late>>
    BY <1>1 DEF ListOverdue, StopFines, NoPayment
  <2>2. \A y \in Xacts : Balance(y)' = Balance(y) /\ (CircOpen(y)' => CircOpen(y))
    BY <2>1 DEF Balance, CircOpen
  <2>3. ClosedIffSettled'
    BY <2>1, <2>2 DEF PayInv, Closing, ClosedIffSettled
  <2>4. QED
    BY <2>1, <2>3 DEF PayInv, Closing
<1>2. CASE Return(x)
  BY <1>2, ReturnCloses
<1>3. CASE \E amount \in {0, 1}, maxed \in BOOLEAN : Fine(x, amount, maxed)
  BY <1>3, FineCloses
<1>4. QED
  BY <1>1, <1>2, <1>3 DEF Befalls

\* A client sends a request that is fair.
LEMMA SendPayInv ==
    ASSUME MoneyTypes, PayInv, NEW c \in Clients, req[c] = Idle,
           NEW r \in Requests, r.at = "asked", Fair(r),
           req' = [req EXCEPT ![c] = r], UNCHANGED accounts
    PROVE  PayInv' /\ PaysWhatIsDue
<1>1. req'[c] = r /\ \A d \in Clients \ {c} : req'[d] = req[d]
  BY StageTyped
<1>2. /\ UNCHANGED <<billed, paid, finished, stopped, out, late, credit, last_xact_id>>
      /\ Balances' = Balances /\ \A x \in Xacts : Balance(x)' = Balance(x)
  BY DEF accounts, loans, Balances, Balance
<1>3. ASSUME NEW d \in Clients, req'[d].at = "asked" PROVE Fair(req[d])'
  BY <1>1, <1>2, <1>3 DEF PayInv, Fair, Lines
<1>4. ASSUME NEW d \in Clients, Working(d)' PROVE Agreed(req[d])' /\ Working(d)
  BY <1>1, <1>2, <1>4 DEF PayInv, Agreed, Lines, Working
<1>5. Closing'
  BY <1>2 DEF PayInv, Closing, ClosedIffSettled, CircOpen
<1>6. \A d \in Clients : req'[d].at = "charged" => req'[d].type = "card"
  BY <1>1 DEF PayInv
<1>7. QED
  BY <1>2, <1>3, <1>4, <1>5, <1>6, OthersPayNothing DEF PayInv

\* A request is over.
LEMMA OverPayInv ==
    ASSUME MoneyTypes, PayInv, NEW c \in Clients,
           req' = [req EXCEPT ![c] = Idle], UNCHANGED accounts
    PROVE  PayInv' /\ PaysWhatIsDue
<1>1. req'[c] = Idle /\ \A d \in Clients \ {c} : req'[d] = req[d]
  BY StageTyped
<1>2. Idle.at = "idle" /\ UNCHANGED paid
  BY DEF Idle, accounts
<1>3. QED
  BY <1>1, <1>2, LeavesPayInv, OthersPayNothing

LEMMA StillPayInv ==
    ASSUME MoneyTypes, PayInv, UNCHANGED <<accounts, req>>
    PROVE  PayInv' /\ PaysWhatIsDue
<1>1. /\ UNCHANGED <<billed, paid, finished, stopped, out, late, credit, last_xact_id>>
      /\ Balances' = Balances /\ \A x \in Xacts : Balance(x)' = Balance(x)
  BY DEF accounts, loans, Balances, Balance
<1>2. ASSUME NEW d \in Clients, req'[d].at = "asked" PROVE Fair(req[d])'
  BY <1>1, <1>2 DEF PayInv, Fair, Lines
<1>3. ASSUME NEW d \in Clients, Working(d)' PROVE Agreed(req[d])'
  BY <1>1, <1>3 DEF PayInv, Agreed, Lines, Working
<1>4. Closing'
  <2>1. Closing
    BY DEF PayInv
  <2>2. QED
    BY <1>1, <2>1 DEF Closing, ClosedIffSettled, CircOpen
<1>5. QED
  BY <1>1, <1>2, <1>3, <1>4, OthersPayNothing DEF PayInv, Working

LEMMA InitPayInv == MoneyInit => PayInv
<1> SUFFICES ASSUME MoneyInit PROVE PayInv
  OBVIOUS
<1>1. \A c \in Clients : req[c].at = "idle"
  BY DEF MoneyInit, Idle
<1>2. ASSUME NEW x \in Xacts
      PROVE  /\ x \in finished => Balance(x) = 0 /\ ~CircOpen(x)
             /\ Balance(x) = 0 /\ x \notin out => x \in finished
  <2>1. Balance(x) = Opening[x] - 0 /\ Opening[x] \in Int
    BY MoneyAssumption DEF MoneyInit, Balance, NoPay
  <2>2. x \in finished <=> x \notin Circs /\ Opening[x] = 0
    BY DEF MoneyInit
  <2>3. out = Circs /\ (CircOpen(x) <=> x \in Circs)
    BY DEF MoneyInit, CircOpen
  <2>4. QED
    BY <2>1, <2>2, <2>3
<1>3. Closing
  BY <1>2 DEF MoneyInit, Closing, ClosedIffSettled
<1>4. QED
  BY <1>1, <1>3 DEF PayInv, Working

-----------------------------------------------------------------------------
(* The money adds up *)

ChargingOf(R) == [c \in Clients |-> IF R[c].at = "charged" THEN Total(R[c]) ELSE 0]

LEMMA ChargingTable ==
    ASSUME NEW R \in [Clients -> Requests \union {Idle}]
    PROVE  ChargingOf(R) \in [Clients -> Int]
<1>1. ASSUME NEW c \in Clients, R[c].at = "charged" PROVE Total(R[c]) \in Int
  <2>1. R[c] \in Requests
    BY <1>1 DEF Idle
  <2>2. QED
    BY <2>1, TotalInt
<1>2. QED
  BY <1>1 DEF ChargingOf

\* What one client's stage changes in the sum.
LEMMA ChargingStep ==
    ASSUME NEW R \in [Clients -> Requests \union {Idle}],
           NEW S \in [Clients -> Requests \union {Idle}],
           NEW c \in Clients, \A d \in Clients \ {c} : S[d] = R[d]
    PROVE  /\ SumFunction(ChargingOf(R)) \in Int
           /\ SumFunction(ChargingOf(S)) = SumFunction(ChargingOf(R))
                 - (IF R[c].at = "charged" THEN Total(R[c]) ELSE 0)
                 + (IF S[c].at = "charged" THEN Total(S[c]) ELSE 0)
<1>1. ChargingOf(R) \in [Clients -> Int] /\ ChargingOf(S) \in [Clients -> Int]
  BY ChargingTable
<1>2. \A d \in Clients \ {c} : ChargingOf(S)[d] = ChargingOf(R)[d]
  BY DEF ChargingOf
<1>3. SumFunction(ChargingOf(S)) =
          SumFunction(ChargingOf(R)) - ChargingOf(R)[c] + ChargingOf(S)[c]
  BY <1>1, <1>2, MoneyAssumption, SumUpdate
<1>4. SumFunction(ChargingOf(R)) \in Int
  BY <1>1, MoneyAssumption, SumInt
<1>5. QED
  BY <1>3, <1>4 DEF ChargingOf

LEMMA ChargingIs == Charging = ChargingOf(req) /\ Charging' = ChargingOf(req')
  BY DEF Charging, ChargingOf

\* Where no charge begins or ends, the amounts in Charging stay; with the accounts
\* everything does.
LEMMA BalanceStill ==
    ASSUME MoneyTypes, MoneyBalances, NEW c \in Clients,
           req' \in [Clients -> Requests \union {Idle}],
           \A d \in Clients \ {c} : req'[d] = req[d],
           req[c].at # "charged", req'[c].at # "charged",
           NEW k \in Int, taken' = taken + k, unreported' = unreported + k,
           UNCHANGED <<paid, credit, unrecorded>>
    PROVE  MoneyBalances'
<1>1. req \in [Clients -> Requests \union {Idle}]
  BY DEF MoneyTypes
<1>2. SumFunction(Charging') = SumFunction(Charging) /\ SumFunction(Charging) \in Int
  BY <1>1, ChargingStep, ChargingIs
<1>3. SumFunction(paid) \in Int
  BY MoneyAssumption, SumInt DEF MoneyTypes
<1>4. QED
  BY <1>2, <1>3 DEF MoneyBalances, MoneyTypes

LEMMA BalanceSame ==
    ASSUME MoneyBalances, UNCHANGED <<paid, credit, taken, unrecorded, unreported, req>>
    PROVE  MoneyBalances'
  BY ChargingIs DEF MoneyBalances

\* A payment is exact when it is sent and remains so.
LEMMA ExactKept ==
    ASSUME BalanceInv, NEW c \in Clients,
           \A d \in Clients \ {c} : req'[d] = req[d],
           req'[c] # Idle => Exact(req'[c])
    PROVE  \A d \in Clients : req'[d] # Idle => Exact(req'[d])
  BY DEF BalanceInv

LEMMA DoneExact ==
    ASSUME MoneyTypes, BalanceInv, NEW c \in Clients, NEW result \in Results,
           req[c].at # "idle", Done(c, result)
    PROVE  /\ req'[c].at = "done" /\ Exact(req'[c])
           /\ req' \in [Clients -> Requests \union {Idle}]
           /\ \A d \in Clients \ {c} : req'[d] = req[d]
<1>1. req[c] \in Requests /\ Exact(req[c])
  BY IsRequest DEF BalanceInv, Idle
<1>2. req'[c].type = req[c].type /\ req'[c].change = req[c].change
  BY <1>1 DEF Done, MoneyTypes, Requests
<1>3. QED
  BY <1>1, <1>2, DoneTyped DEF Exact

LEMMA CheckBalance ==
    ASSUME MoneyTypes, BalanceInv, NEW c \in Clients, Check(c)
    PROVE  BalanceInv'
<1>1. /\ req[c].at = "asked" /\ UNCHANGED <<paid, credit, unrecorded>>
      /\ taken \in Int /\ unreported \in Int
  BY CheckCases DEF accounts, MoneyTypes
<1>2. CASE /\ \E result \in Results : Done(c, result)
           /\ taken' = taken + Beforehand(req[c])
           /\ unreported' = unreported + Beforehand(req[c])
  <2>1. PICK result \in Results : Done(c, result)
    BY <1>2
  <2>2. /\ req'[c].at = "done" /\ Exact(req'[c])
        /\ req' \in [Clients -> Requests \union {Idle}]
        /\ \A d \in Clients \ {c} : req'[d] = req[d]
    BY <1>1, <2>1, DoneExact
  <2>3. Beforehand(req[c]) \in Int
    BY <1>1, IsRequest, ReceivedInt
  <2>4. MoneyBalances'
    BY <1>1, <1>2, <2>2, <2>3, BalanceStill DEF BalanceInv
  <2>5. QED
    BY <2>2, <2>4, ExactKept DEF BalanceInv
<1>3. CASE /\ req' = [req EXCEPT ![c] = Checked(req[c])]
           /\ Checked(req[c]) \in Requests
           /\ UNCHANGED <<taken, unreported>>
  <2>1. req[c] \in Requests /\ Exact(req[c])
    BY <1>1, IsRequest DEF BalanceInv, Idle
  <2>2. /\ req'[c] = Checked(req[c])
        /\ req' \in [Clients -> Requests \union {Idle}]
        /\ \A d \in Clients \ {c} : req'[d] = req[d]
    BY <1>3, StageTyped
  <2>3. req'[c].at = "checked" /\ Exact(req'[c])
    BY <2>1, <2>2 DEF Checked, Requests, Exact
  <2>4. taken' = taken + 0 /\ unreported' = unreported + 0 /\ 0 \in Int
    BY <1>1, <1>3
  <2>5. MoneyBalances'
    BY <1>1, <2>2, <2>3, <2>4, BalanceStill DEF BalanceInv
  <2>6. QED
    BY <2>2, <2>3, <2>5, ExactKept DEF BalanceInv
<1>4. QED
  BY <1>2, <1>3, CheckCases

LEMMA ChargeBalance ==
    ASSUME MoneyTypes, BalanceInv, NEW c \in Clients, Charge(c)
    PROVE  BalanceInv'
<1>1. /\ req[c].at = "checked" /\ UNCHANGED <<paid, credit, unrecorded, unreported>>
  BY ChargeCases DEF accounts
<1>2. CASE Done(c, "DECLINED") /\ UNCHANGED taken
  <2>1. "DECLINED" \in Results
    BY DEF Results
  <2>2. /\ req'[c].at = "done" /\ Exact(req'[c])
        /\ req' \in [Clients -> Requests \union {Idle}]
        /\ \A d \in Clients \ {c} : req'[d] = req[d]
    BY <1>1, <1>2, <2>1, DoneExact
  <2>3. taken' = taken + 0 /\ unreported' = unreported + 0 /\ 0 \in Int
    BY <1>1, <1>2 DEF MoneyTypes
  <2>4. MoneyBalances'
    BY <1>1, <2>2, <2>3, BalanceStill DEF BalanceInv
  <2>5. QED
    BY <2>2, <2>4, ExactKept DEF BalanceInv
<1>3. CASE /\ req' = [req EXCEPT ![c] = [req[c] EXCEPT !.at = "charged"]]
           /\ [req[c] EXCEPT !.at = "charged"] \in Requests
           /\ taken' = taken + Total(req[c])
  <2>1. req[c] \in Requests /\ Exact(req[c])
    BY <1>1, IsRequest DEF BalanceInv, Idle
  <2>2. PICK k : k = [req[c] EXCEPT !.at = "charged"]
    OBVIOUS
  <2>3. /\ k.at = "charged" /\ k.pay = req[c].pay /\ k.times = req[c].times
        /\ Exact(k)
    BY <2>1, <2>2 DEF Requests, Exact
  <2>4. /\ req'[c] = k
        /\ req' \in [Clients -> Requests \union {Idle}]
        /\ \A d \in Clients \ {c} : req'[d] = req[d]
    BY <1>3, <2>2, StageTyped
  <2>5. Total(k) = Total(req[c]) /\ Total(k) \in Int
    BY <2>1, <2>3, TotalInt DEF Total, Paying
  <2>6. /\ SumFunction(Charging) \in Int
        /\ SumFunction(Charging') = SumFunction(Charging) + Total(req[c])
    <3>1. req \in [Clients -> Requests \union {Idle}]
      BY DEF MoneyTypes
    <3>2. /\ SumFunction(Charging) \in Int
          /\ SumFunction(Charging') = SumFunction(Charging)
                 - (IF req[c].at = "charged" THEN Total(req[c]) ELSE 0)
                 + (IF req'[c].at = "charged" THEN Total(req'[c]) ELSE 0)
      BY <2>4, <3>1, ChargingStep, ChargingIs
    <3>3. QED
      BY <1>1, <2>3, <2>4, <2>5, <3>2
  <2>7. SumFunction(paid) \in Int
    BY MoneyAssumption, SumInt DEF MoneyTypes
  <2>8. MoneyBalances'
    BY <1>1, <1>3, <2>5, <2>6, <2>7 DEF MoneyBalances, BalanceInv, MoneyTypes
  <2>9. QED
    BY <2>3, <2>4, <2>8, ExactKept DEF BalanceInv
<1>4. QED
  BY <1>2, <1>3, ChargeCases

LEMMA RecordBalances ==
    ASSUME MoneyTypes, PayInv, BalanceInv, NEW c \in Clients, Record(c)
    PROVE  BalanceInv'
<1>1. DEFINE r == req[c]
<1>2. r \in Requests /\ Prepared(r) /\ Agreed(r) /\ Exact(r)
  BY RecordCases, RecordBalance DEF BalanceInv, Prepared, Idle
<1>3. /\ Total(r) \in Int /\ Paying(r) \in [Xacts -> Int]
      /\ r.change \in Int /\ r.type \in PayTypes /\ r.credit = credit
  BY <1>2, TotalInt DEF Requests, Agreed
<1>4. /\ paid' = [x \in Xacts |-> paid[x] + Paying(r)[x]]
      /\ credit' = r.credit + CreditOf(r)
      /\ taken' = taken + IF r.type = "card" THEN 0 ELSE Received(r)
      /\ UNCHANGED <<unrecorded, unreported>>
  BY DEF Record
<1>5. credit' = credit + r.change - IF r.type = "credit" THEN Total(r) ELSE 0
  <2>1. Overpaid(r) = 0
    BY <1>2, AgreedOverpaid
  <2>2. credit \in Int
    BY DEF MoneyTypes
  <2>3. QED
    BY <1>3, <1>4, <2>1, <2>2 DEF CreditOf
<1>6. /\ SumFunction(paid) \in Int
      /\ SumFunction(paid') = SumFunction(paid) + Total(r)
  <2>1. paid \in [Xacts -> Int]
    BY DEF MoneyTypes
  <2>2. QED
    BY <1>3, <1>4, <2>1, MoneyAssumption, SumInt, SumAdd DEF Total
<1>7. req'[c].at = "done" /\ Exact(req'[c])
      /\ req' \in [Clients -> Requests \union {Idle}]
      /\ \A d \in Clients \ {c} : req'[d] = req[d]
  <2>1. /\ req'[c] = Recorded(r)
        /\ req' \in [Clients -> Requests \union {Idle}]
        /\ \A d \in Clients \ {c} : req'[d] = req[d]
    BY RecordCases, StageTyped
  <2>2. Recorded(r).at = "done" /\ Exact(Recorded(r))
    BY <1>2 DEF Recorded, Requests, Exact
  <2>3. QED
    BY <2>1, <2>2
<1>8. /\ SumFunction(Charging) \in Int
      /\ SumFunction(Charging') = SumFunction(Charging)
             - (IF r.at = "charged" THEN Total(r) ELSE 0)
  <2>1. req \in [Clients -> Requests \union {Idle}]
    BY DEF MoneyTypes
  <2>2. /\ SumFunction(Charging) \in Int
        /\ SumFunction(Charging') = SumFunction(Charging)
               - (IF req[c].at = "charged" THEN Total(req[c]) ELSE 0)
               + (IF req'[c].at = "charged" THEN Total(req'[c]) ELSE 0)
    BY <1>7, <2>1, ChargingStep, ChargingIs
  <2>3. QED
    BY <1>3, <1>7, <2>2
<1>9. r.at = "charged" <=> r.type = "card"
  BY <1>2 DEF PayInv, Prepared
<1>10. r.type = "card" => r.change = 0
  BY <1>2 DEF Exact
<1>11. /\ taken = SumFunction(paid) + credit + unrecorded + unreported + SumFunction(Charging)
       /\ taken \in Int /\ credit \in Int /\ unrecorded \in Int /\ unreported \in Int
  BY DEF BalanceInv, MoneyBalances, MoneyTypes
<1>12. taken' = SumFunction(paid') + credit' + unrecorded' + unreported' + SumFunction(Charging')
  <2> HIDE DEF r
  <2>1. CASE r.type \in {"cash", "approved"}
    <3>1. Received(r) = Total(r) + r.change
      BY <2>1 DEF Received
    <3>2. QED
      BY <1>3, <1>4, <1>5, <1>6, <1>8, <1>9, <1>11, <2>1, <3>1
  <2>2. CASE r.type = "credit"
    <3>1. Received(r) = r.change
      BY <2>2 DEF Received
    <3>2. QED
      BY <1>3, <1>4, <1>5, <1>6, <1>8, <1>9, <1>11, <2>2, <3>1
  <2>3. CASE r.type = "card"
    BY <1>3, <1>4, <1>5, <1>6, <1>8, <1>9, <1>10, <1>11, <2>3
  <2>4. QED
    BY <1>3, <2>1, <2>2, <2>3 DEF PayTypes
<1>13. QED
  BY <1>7, <1>12, ExactKept DEF BalanceInv, MoneyBalances

LEMMA FailBalance ==
    ASSUME MoneyTypes, PayInv, BalanceInv, NEW c \in Clients, Failing(c)
    PROVE  BalanceInv'
<1>1. /\ Prepared(req[c]) /\ req[c] \in Requests /\ UNCHANGED <<paid, credit>>
      /\ req' \in [Clients -> Requests \union {Idle}] /\ req'[c].at = "done"
      /\ req'[c].type = req[c].type /\ req'[c].change = req[c].change
      /\ \A d \in Clients \ {c} : req'[d] = req[d]
  BY FailCases DEF accounts
<1>2. Exact(req'[c])
  <2>1. req[c] # Idle
    BY <1>1 DEF Prepared, Idle
  <2>2. Exact(req[c])
    BY <2>1 DEF BalanceInv
  <2>3. QED
    BY <1>1, <2>2 DEF Exact
<1>3. PICK k \in Int :
         /\ taken' = taken + k /\ unrecorded' \in Int /\ unreported' \in Int
         /\ unrecorded' + unreported' = unrecorded + unreported + k
               + IF req[c].type = "card" THEN Total(req[c]) ELSE 0
  BY FailMoney
<1>4. Total(req[c]) \in Int
  BY <1>1, TotalInt
<1>5. /\ SumFunction(Charging) \in Int
      /\ SumFunction(Charging') = SumFunction(Charging)
             - (IF req[c].at = "charged" THEN Total(req[c]) ELSE 0)
  <2>1. req \in [Clients -> Requests \union {Idle}]
    BY DEF MoneyTypes
  <2>2. /\ SumFunction(Charging) \in Int
        /\ SumFunction(Charging') = SumFunction(Charging)
               - (IF req[c].at = "charged" THEN Total(req[c]) ELSE 0)
               + (IF req'[c].at = "charged" THEN Total(req'[c]) ELSE 0)
    BY <1>1, <2>1, ChargingStep, ChargingIs
  <2>3. QED
    BY <1>1, <1>4, <2>2
<1>6. req[c].at = "charged" <=> req[c].type = "card"
  BY <1>1 DEF PayInv, Prepared
<1>7. /\ taken = SumFunction(paid) + credit + unrecorded + unreported + SumFunction(Charging)
      /\ taken \in Int /\ credit \in Int /\ unrecorded \in Int /\ unreported \in Int
      /\ SumFunction(paid) \in Int
  <2>1. SumFunction(paid) \in Int
    BY MoneyAssumption, SumInt DEF MoneyTypes
  <2>2. QED
    BY <2>1 DEF BalanceInv, MoneyBalances, MoneyTypes
<1>8. MoneyBalances'
  BY <1>1, <1>3, <1>4, <1>5, <1>6, <1>7 DEF MoneyBalances
<1>9. QED
  BY <1>1, <1>2, <1>8, ExactKept DEF BalanceInv

LEMMA PayBalance ==
    ASSUME MoneyTypes, PayInv, BalanceInv, NEW c \in Clients, Pay(c)
    PROVE  BalanceInv'
  BY CheckBalance, ChargeBalance, RecordBalances, FailBalance DEF Pay, Failing

\* Billings do not take part, and a client only by a request.
LEMMA NoPaymentBalance ==
    ASSUME BalanceInv, NoPayment
    PROVE  BalanceInv'
  BY BalanceSame DEF NoPayment, BalanceInv

LEMMA StillBalance ==
    ASSUME BalanceInv, UNCHANGED <<accounts, req, taken, unrecorded, unreported>>
    PROVE  BalanceInv'
  BY BalanceSame DEF accounts, BalanceInv

LEMMA SendBalance ==
    ASSUME MoneyTypes, BalanceInv, NEW c \in Clients, req[c] = Idle,
           NEW r \in Requests, r.at = "asked", Exact(r),
           req' = [req EXCEPT ![c] = r],
           UNCHANGED <<accounts, taken, unrecorded, unreported>>
    PROVE  BalanceInv'
<1>1. /\ req' \in [Clients -> Requests \union {Idle}] /\ req'[c] = r
      /\ \A d \in Clients \ {c} : req'[d] = req[d]
  BY StageTyped
<1>2. taken' = taken + 0 /\ unreported' = unreported + 0 /\ 0 \in Int
  BY DEF MoneyTypes
<1>3. MoneyBalances'
  BY <1>1, <1>2, BalanceStill DEF BalanceInv, Idle, accounts
<1>4. QED
  BY <1>1, <1>3, ExactKept DEF BalanceInv

LEMMA OverBalance ==
    ASSUME MoneyTypes, BalanceInv, NEW c \in Clients, req[c].at # "charged",
           req' = [req EXCEPT ![c] = Idle], UNCHANGED <<accounts, unrecorded>>,
           NEW k \in Int, taken' = taken + k, unreported' = unreported + k
    PROVE  BalanceInv'
<1>1. /\ req' \in [Clients -> Requests \union {Idle}] /\ req'[c] = Idle
      /\ \A d \in Clients \ {c} : req'[d] = req[d]
  BY StageTyped
<1>2. MoneyBalances'
  BY <1>1, BalanceStill DEF BalanceInv, Idle, accounts
<1>3. QED
  BY <1>1, <1>2, ExactKept DEF BalanceInv

LEMMA InitBalance == MoneyInit => BalanceInv
<1> SUFFICES ASSUME MoneyInit PROVE BalanceInv
  OBVIOUS
<1>1. paid \in [Xacts -> Int] /\ \A x \in Xacts : paid[x] = 0
  BY DEF MoneyInit, NoPay
<1>2. \A c \in Clients : req[c] = Idle
  BY DEF MoneyInit
<1>3. Charging \in [Clients -> Int] /\ \A c \in Clients : Charging[c] = 0
  BY <1>2 DEF Charging, Idle
<1>4. SumFunction(paid) = 0
  BY <1>1, MoneyAssumption, SumZero
<1>5. SumFunction(Charging) = 0
  BY <1>3, MoneyAssumption, SumZero
<1>6. taken = 0 /\ credit = 0 /\ unrecorded = 0 /\ unreported = 0
  BY DEF MoneyInit
<1>7. QED
  BY <1>2, <1>4, <1>5, <1>6 DEF BalanceInv, MoneyBalances
=============================================================================
