------------------------ MODULE MatchingEngineProofs ------------------------
(***************************************************************************)
(* Proofs about MatchingEngine, for every set of users and prices and every  *)
(* bound. The inductive invariant is EngineInv; the refinement and the theorems  *)
(* about trades and quantities rest on it.                                     *)
(***************************************************************************)
EXTENDS MatchingEngine, SequenceTheorems, WellFoundedInduction, TLAPS

-----------------------------------------------------------------------------
(* Lemmas on the slices of the book *)

\* A nonempty set of naturals has a least element.
LEMMA LeastNat ==
  ASSUME NEW T, T \subseteq Nat, T # {}
  PROVE  \E x \in T : \A y \in T : x <= y
<1> DEFINE R == {ss \in Nat \X Nat : ss[1] < ss[2]}
<1>1. \E x \in T : \A y \in T : <<y, x>> \notin R
  <2>1. IsWellFoundedOn(R, Nat)
    BY NatLessThanWellFounded DEF OpToRel
  <2> HIDE DEF R
  <2>2. QED
    BY <2>1, WFMin
<1>2. \A x, y \in Nat : <<y, x>> \notin R => x <= y
  OBVIOUS
<1>3. QED
  BY <1>1, <1>2

\* One side of the book in price order.
PriceOrdered(side, s) ==
  \A i, j \in DOMAIN s : i < j => NotWorse(side, s[i].price, s[j].price)

\* AddOrder inserts o at some position k: everything before k is served no
\* later than o by its price, everything after it strictly later.
LEMMA AddOrderShape ==
  ASSUME NEW s \in Seq(Order), NEW o \in Order, PriceOrdered(o.side, s)
  PROVE  \E k \in 1..(Len(s) + 1) :
           /\ AddOrder(s, o) = [i \in 1..(Len(s) + 1) |->
                IF i < k THEN s[i] ELSE IF i = k THEN o ELSE s[i - 1]]
           /\ \A i \in 1..(k - 1) : NotWorse(o.side, s[i].price, o.price)
           /\ \A i \in k..Len(s) : ~NotWorse(o.side, s[i].price, o.price)
<1> DEFINE n == Len(s)
           Stays(i) == NotWorse(o.side, s[i].price, o.price)
           T == {i \in 1..(n + 1) : ~(i <= n /\ Stays(i))}
<1>1. n \in Nat /\ DOMAIN s = 1..n /\ \A i \in 1..n : s[i] \in Order
  OBVIOUS
<1>2. PICK k \in T : \A i \in T : k <= i
  <2>1. n + 1 \in T /\ T \subseteq Nat
    BY <1>1
  <2> HIDE DEF T
  <2>2. QED
    BY <2>1, LeastNat
<1>3. \A i \in 1..(k - 1) : Stays(i)
  BY <1>1, <1>2
<1>4. \A i \in k..n : ~Stays(i)
  <2> SUFFICES ASSUME NEW i \in k..n PROVE ~Stays(i)
    OBVIOUS
  <2>1. k <= n /\ ~Stays(k)
    BY <1>1, <1>2
  <2>2. i = k \/ NotWorse(o.side, s[k].price, s[i].price)
    BY <1>1, <1>2, <2>1 DEF PriceOrdered
  <2>3. s[k].price \in Nat /\ s[i].price \in Nat /\ o.price \in Nat
    BY <1>1, <1>2, <2>1 DEF Order
  <2>4. QED
    BY <2>1, <2>2, <2>3 DEF NotWorse
<1>5. ASSUME NEW i \in 1..(n + 1)
      PROVE  (IF i <= n /\ Stays(i) THEN s[i]
              ELSE IF i = 1 \/ Stays(i - 1) THEN o ELSE s[i - 1])
             = (IF i < k THEN s[i] ELSE IF i = k THEN o ELSE s[i - 1])
  <2>1. CASE i < k
    BY <1>1, <1>2, <1>3, <2>1
  <2>2. CASE i = k
    BY <1>1, <1>2, <1>3, <2>2
  <2>3. CASE i > k
    <3>1. i - 1 \in k..n /\ i # 1
      BY <1>1, <1>2, <2>3
    <3>2. i <= n => i \in k..n
      BY <1>1, <1>2, <2>3
    <3>3. QED
      BY <1>4, <2>3, <3>1, <3>2
  <2>4. QED
    BY <1>1, <1>2, <2>1, <2>2, <2>3
<1>6. QED
  BY <1>1, <1>2, <1>3, <1>4, <1>5 DEF AddOrder

\* The parts of the invariant that speak of one side of the book. At a price the
\* ids come in an order R.
Priority(side, s, R) ==
  \A i, j \in DOMAIN s :
    i < j => /\ NotWorse(side, s[i].price, s[j].price)
             /\ s[i].price = s[j].price => <<s[i].id, s[j].id>> \in R
Distinct(s) == \A i, j \in DOMAIN s : s[i].id = s[j].id => i = j
Sided(side, s) == \A i \in DOMAIN s : s[i].side = side
SideInv(side, s, R) ==
  s \in Seq(Order) /\ Priority(side, s, R) /\ Distinct(s) /\ Sided(side, s)

\* Adding an order that R puts behind all others to a side keeps the side in
\* order and adds exactly that order.
LEMMA AddOrderKeepsSide ==
  ASSUME NEW R, NEW s, NEW o \in Order, SideInv(o.side, s, R),
         \A i \in DOMAIN s : <<s[i].id, o.id>> \in R /\ s[i].id # o.id
  PROVE  /\ SideInv(o.side, AddOrder(s, o), R)
         /\ Elems(AddOrder(s, o)) = Elems(s) \cup {o}
<1> DEFINE n == Len(s)
           r == AddOrder(s, o)
<1>1. s \in Seq(Order) /\ n \in Nat /\ DOMAIN s = 1..n
      /\ (\A i \in 1..n : s[i] \in Order)
  BY DEF SideInv
<1>2. PriceOrdered(o.side, s)
  BY DEF SideInv, Priority, PriceOrdered
<1>3. PICK k \in 1..(n + 1) :
        /\ r = [i \in 1..(n + 1) |->
                  IF i < k THEN s[i] ELSE IF i = k THEN o ELSE s[i - 1]]
        /\ \A i \in 1..(k - 1) : NotWorse(o.side, s[i].price, o.price)
        /\ \A i \in k..n : ~NotWorse(o.side, s[i].price, o.price)
  BY <1>1, <1>2, AddOrderShape
<1> HIDE DEF r
<1>4. \A i \in 1..(n + 1) : r[i] = IF i < k THEN s[i] ELSE IF i = k THEN o ELSE s[i - 1]
  BY <1>3
<1>5. DOMAIN r = 1..(n + 1) /\ r \in Seq(Order)
  <2>1. \A i \in 1..(n + 1) : r[i] \in Order
    BY <1>1, <1>4
  <2>2. r \in [1..(n + 1) -> Order] /\ n + 1 \in Nat
    BY <1>1, <1>3, <2>1
  <2>3. QED
    BY <2>2
<1>6. Elems(r) = Elems(s) \cup {o}
  <2>1. ASSUME NEW i \in 1..(n + 1) PROVE r[i] \in Elems(s) \cup {o}
    <3>1. CASE i < k
      BY <1>1, <1>4, <3>1 DEF Elems
    <3>2. CASE i = k
      BY <1>4, <3>2
    <3>3. CASE i > k
      <4>1. r[i] = s[i - 1] /\ i - 1 \in 1..n
        BY <1>1, <1>4, <3>3
      <4>2. QED
        BY <1>1, <4>1 DEF Elems
    <3>4. QED
      BY <1>1, <3>1, <3>2, <3>3
  <2>2. ASSUME NEW i \in 1..n PROVE s[i] \in Elems(r)
    <3>1. CASE i < k
      BY <1>1, <1>4, <1>5, <3>1 DEF Elems
    <3>2. CASE i >= k
      <4>1. r[i + 1] = s[i] /\ i + 1 \in 1..(n + 1)
        BY <1>1, <1>4, <3>2
      <4>2. QED
        BY <1>5, <4>1 DEF Elems
    <3>3. QED
      BY <1>1, <3>1, <3>2
  <2>3. o \in Elems(r)
    <3>1. r[k] = o
      BY <1>1, <1>4
    <3>2. QED
      BY <3>1, <1>5 DEF Elems
  <2>4. QED
    BY <1>1, <1>5, <2>1, <2>2, <2>3 DEF Elems
<1>7. Priority(o.side, r, R)
  <2> SUFFICES ASSUME NEW i \in 1..(n + 1), NEW j \in 1..(n + 1), i < j
               PROVE  /\ NotWorse(o.side, r[i].price, r[j].price)
                      /\ r[i].price = r[j].price => <<r[i].id, r[j].id>> \in R
    BY <1>5 DEF Priority
  <2>1. \A a, b \in 1..n : a < b =>
          /\ NotWorse(o.side, s[a].price, s[b].price)
          /\ s[a].price = s[b].price => <<s[a].id, s[b].id>> \in R
    BY <1>1 DEF SideInv, Priority
  <2>2. CASE j < k
    BY <1>1, <1>4, <2>1, <2>2
  <2>3. CASE i > k
    <3>1. i - 1 \in 1..n /\ j - 1 \in 1..n /\ i - 1 < j - 1
      BY <1>1, <2>3
    <3>2. r[i] = s[i - 1] /\ r[j] = s[j - 1]
      BY <1>1, <1>4, <2>3
    <3>3. QED
      BY <2>1, <3>1, <3>2
  <2>4. CASE j = k
    <3>1. r[i] = s[i] /\ r[j] = o /\ i \in 1..(k - 1) /\ i \in 1..n
      BY <1>1, <1>4, <2>4
    <3>2. QED
      BY <1>1, <1>3, <3>1
  <2>5. CASE i = k
    <3>1. r[i] = o /\ r[j] = s[j - 1] /\ j - 1 \in k..n /\ j - 1 \in 1..n
      BY <1>1, <1>4, <2>5
    <3>2. ~NotWorse(o.side, s[j - 1].price, o.price)
      BY <1>3, <3>1
    <3>3. s[j - 1].price \in Nat /\ o.price \in Nat
      BY <1>1, <3>1 DEF Order
    <3>4. QED
      BY <3>1, <3>2, <3>3 DEF NotWorse
  <2>6. CASE i < k /\ k < j
    <3>1. r[i] = s[i] /\ r[j] = s[j - 1] /\ i \in 1..n /\ j - 1 \in 1..n /\ i < j - 1
      BY <1>1, <1>4, <2>6
    <3>2. QED
      BY <2>1, <3>1
  <2>7. QED
    BY <1>1, <2>2, <2>3, <2>4, <2>5, <2>6
<1>8. Distinct(r)
  <2> SUFFICES ASSUME NEW i \in 1..(n + 1), NEW j \in 1..(n + 1), i < j
               PROVE  r[i].id # r[j].id
    <3>1. ASSUME NEW i \in 1..(n + 1), NEW j \in 1..(n + 1), r[i].id = r[j].id
          PROVE  i = j
      BY <1>1, <3>1
    <3>2. QED
      BY <1>5, <3>1 DEF Distinct
  <2>1. \A a, b \in 1..n : a # b => s[a].id # s[b].id
    BY <1>1 DEF SideInv, Distinct
  <2>2. \A a \in 1..n : s[a].id # o.id
    BY <1>1
  <2>3. CASE i # k /\ j # k
    <3> DEFINE a == IF i < k THEN i ELSE i - 1
               b == IF j < k THEN j ELSE j - 1
    <3>1. r[i] = s[a] /\ r[j] = s[b] /\ a \in 1..n /\ b \in 1..n /\ a # b
      BY <1>1, <1>4, <2>3
    <3>2. QED
      BY <2>1, <3>1
  <2>4. CASE i = k
    <3>1. r[i] = o /\ r[j] = s[j - 1] /\ j - 1 \in 1..n
      BY <1>1, <1>4, <2>4
    <3>2. QED
      BY <2>2, <3>1
  <2>5. CASE j = k
    <3>1. r[j] = o /\ r[i] = s[i] /\ i \in 1..n
      BY <1>1, <1>4, <2>5
    <3>2. QED
      BY <2>2, <3>1
  <2>6. QED
    BY <2>3, <2>4, <2>5
<1>9. Sided(o.side, r)
  <2>1. \A x \in Elems(s) : x.side = o.side
    BY DEF SideInv, Sided, Elems
  <2>2. \A x \in Elems(r) : x.side = o.side
    BY <1>6, <2>1
  <2>3. QED
    BY <2>2 DEF Sided, Elems
<1>10. QED
  BY <1>5, <1>6, <1>7, <1>8, <1>9 DEF SideInv, r

\* Removing one position of a side takes exactly that order out of it.
LEMMA RemoveIndexKeepsSide ==
  ASSUME NEW R, NEW side, NEW s, SideInv(side, s, R), NEW k \in DOMAIN s
  PROVE  /\ SideInv(side, RemoveIndex(s, k), R)
         /\ Elems(RemoveIndex(s, k)) = Elems(s) \ {s[k]}
<1> DEFINE n == Len(s)
           r == RemoveIndex(s, k)
           Old(j) == IF j < k THEN j ELSE j + 1
<1>1. s \in Seq(Order) /\ n \in Nat /\ DOMAIN s = 1..n /\ k \in 1..n
      /\ (\A i \in 1..n : s[i] \in Order)
  BY DEF SideInv
<1>2. /\ DOMAIN r = 1..(n - 1)
      /\ \A j \in 1..(n - 1) : Old(j) \in 1..n /\ Old(j) # k /\ r[j] = s[Old(j)]
  BY <1>1 DEF RemoveIndex
<1>3. \A i, j \in 1..(n - 1) : i < j => Old(i) < Old(j)
  BY <1>1
<1>4. r \in Seq(Order)
  <2>1. r \in [1..(n - 1) -> Order] /\ n - 1 \in Nat
    BY <1>1 DEF RemoveIndex
  <2>2. QED
    BY <2>1
<1>5. Priority(side, r, R)
  <2> HIDE DEF r, Old
  <2>1. \A a, b \in 1..n : a < b =>
          /\ NotWorse(side, s[a].price, s[b].price)
          /\ s[a].price = s[b].price => <<s[a].id, s[b].id>> \in R
    BY <1>1 DEF SideInv, Priority
  <2>2. QED
    BY <1>2, <1>3, <2>1 DEF Priority
<1>6. Distinct(r)
  <2>1. \A a, b \in 1..n : s[a].id = s[b].id => a = b
    BY <1>1 DEF SideInv, Distinct
  <2>2. \A i, j \in 1..(n - 1) : Old(i) = Old(j) => i = j
    BY <1>1
  <2> HIDE DEF r, Old
  <2>3. QED
    BY <1>2, <2>1, <2>2 DEF Distinct
<1>7. Elems(r) = Elems(s) \ {s[k]}
  <2>1. ASSUME NEW j \in 1..(n - 1) PROVE r[j] \in Elems(s) \ {s[k]}
    <3>1. s[Old(j)] # s[k]
      BY <1>1, <1>2 DEF SideInv, Distinct
    <3>2. s[Old(j)] \in Elems(s)
      BY <1>1, <1>2 DEF Elems
    <3>3. QED
      BY <1>2, <3>1, <3>2
  <2>2. ASSUME NEW i \in 1..n, i # k PROVE s[i] \in Elems(r)
    <3>1. PICK j \in 1..(n - 1) : Old(j) = i
      <4>1. CASE i < k
        BY <1>1, <4>1
      <4>2. CASE i > k
        <5>1. i - 1 \in 1..(n - 1) /\ Old(i - 1) = i
          BY <1>1, <4>2
        <5>2. QED
          BY <5>1
      <4>3. QED
        BY <1>1, <2>2, <4>1, <4>2
    <3> HIDE DEF r, Old
    <3>2. QED
      BY <1>2, <3>1 DEF Elems
  <2> HIDE DEF r, Old
  <2>3. \A x \in Elems(r) : x \in Elems(s) \ {s[k]}
    BY <1>2, <2>1 DEF Elems
  <2>4. \A x \in Elems(s) \ {s[k]} : x \in Elems(r)
    BY <1>1, <2>2 DEF Elems
  <2>5. QED
    BY <2>3, <2>4
<1>8. Sided(side, r)
  <2> HIDE DEF r, Old
  <2>1. QED
    BY <1>1, <1>2 DEF SideInv, Sided
<1>9. QED
  BY <1>4, <1>5, <1>6, <1>7, <1>8 DEF SideInv

\* An order that gives q stays the same order with less quantity.
LEMMA ReducedOrder ==
  ASSUME NEW b \in Order, NEW q \in Nat, q <= b.qty
  PROVE  LET m == [b EXCEPT !.qty = @ - q] IN
         /\ m \in Order
         /\ m.id = b.id /\ m.user = b.user /\ m.side = b.side
         /\ m.type = b.type /\ m.price = b.price /\ m.qty = b.qty - q
BY DEF Order

\* Taking q from the best order removes it when it is used up and otherwise
\* leaves it first with the rest.
LEMMA FillBestKeepsSide ==
  ASSUME NEW R, NEW side, NEW s, SideInv(side, s, R), s # <<>>,
         NEW q \in Nat, q <= s[1].qty
  PROVE  /\ SideInv(side, FillBest(s, q), R)
         /\ Elems(FillBest(s, q)) = (Elems(s) \ {s[1]}) \cup
              (IF s[1].qty = q THEN {} ELSE {[s[1] EXCEPT !.qty = @ - q]})
<1> DEFINE n == Len(s)
           r == FillBest(s, q)
<1>1. s \in Seq(Order) /\ n \in Nat \ {0} /\ DOMAIN s = 1..n /\ 1 \in 1..n
      /\ (\A i \in 1..n : s[i] \in Order)
  BY DEF SideInv
<1>2. CASE s[1].qty = q
  <2>1. RemoveIndex(s, 1) = Tail(s)
    <3>1. /\ RemoveIndex(s, 1) \in Seq(Order)
          /\ Len(RemoveIndex(s, 1)) = n - 1
          /\ \A i \in 1..(n - 1) : RemoveIndex(s, 1)[i] = s[i + 1]
      <4>1. RemoveIndex(s, 1) \in [1..(n - 1) -> Order] /\ n - 1 \in Nat
        BY <1>1 DEF RemoveIndex
      <4>2. QED
        BY <1>1, <4>1 DEF RemoveIndex
    <3>2. /\ Tail(s) \in Seq(Order)
          /\ Len(Tail(s)) = n - 1
          /\ \A i \in 1..(n - 1) : Tail(s)[i] = s[i + 1]
      BY <1>1, HeadTailProperties
    <3>3. QED
      BY <3>1, <3>2, SeqEqual
  <2>2. r = RemoveIndex(s, 1)
    BY <1>2, <2>1 DEF FillBest
  <2> HIDE DEF r
  <2>3. QED
    BY <1>1, <1>2, <2>2, RemoveIndexKeepsSide DEF r
<1>3. CASE s[1].qty # q
  <2> DEFINE m == [s[1] EXCEPT !.qty = @ - q]
  <2>1. m \in Order /\ m.id = s[1].id /\ m.price = s[1].price /\ m.side = s[1].side
    BY <1>1, ReducedOrder
  <2>2. r = [s EXCEPT ![1] = m]
    BY <1>1, <1>3 DEF FillBest
  <2> HIDE DEF r, m
  <2>3. DOMAIN r = 1..n /\ r[1] = m /\ (\A i \in 1..n : i # 1 => r[i] = s[i])
    BY <1>1, <2>2
  <2>4. r \in Seq(Order)
    BY <1>1, <2>1, <2>2
  <2>5. \A i \in 1..n : /\ r[i].id = s[i].id
                        /\ r[i].price = s[i].price
                        /\ r[i].side = s[i].side
    BY <1>1, <2>1, <2>3
  <2>6. Priority(side, r, R) /\ Distinct(r) /\ Sided(side, r)
    BY <1>1, <2>3, <2>5 DEF SideInv, Priority, Distinct, Sided
  <2>7. Elems(r) = (Elems(s) \ {s[1]}) \cup {m}
    <3>1. \A i \in 1..n : i # 1 => s[i] # s[1]
      BY <1>1 DEF SideInv, Distinct
    <3>2. \A x \in Elems(r) : x \in (Elems(s) \ {s[1]}) \cup {m}
      BY <1>1, <2>3, <3>1 DEF Elems
    <3>3. \A x \in (Elems(s) \ {s[1]}) \cup {m} : x \in Elems(r)
      BY <1>1, <2>3 DEF Elems
    <3>4. QED
      BY <3>2, <3>3
  <2>8. QED
    BY <1>3, <2>4, <2>6, <2>7 DEF SideInv, m, r
<1>4. QED
  BY <1>2, <1>3

-----------------------------------------------------------------------------
(* The inductive invariant *)

\* Who is served before whom at a price.
ServedPairs == {r \in Ids \X Ids : Served(r[1], r[2])}

\* The open orders have distinct ids, all of them already handed out; the
\* order being matched is the newest; what a failed restore left out is at no
\* other place.
OpenIds ==
  /\ \A o, p \in Active : o.id = p.id => o = p
  /\ \A o \in Active : o.id <= Len(placed)
  /\ taker # NoOrder => /\ restoring = {}
                        /\ taker.id = Len(placed)
                        /\ \A o \in Active : o.id < taker.id
  /\ \A o \in stranded : o.id \in missed /\ \A p \in Resting : o.id # p.id

\* A rebuild adds orders back oldest first; the order being matched came after it.
RebuildInv ==
  /\ taker # NoOrder => rebuilt < Len(placed)
  /\ restoring # {} => rebuilt = Len(placed)
  /\ \A r \in restoring : \A o \in InBook :
       o.id # r.id /\ createdAt[o.id] <= createdAt[r.id]

EngineInv ==
  /\ TypeOK
  /\ \A s \in Sides : SideInv(s, book[s], ServedPairs)
  /\ NeverCrossed
  /\ OpenIds
  /\ RebuildInv

\* A step that stamps new orders only, and rebuilds nothing, leaves the order in
\* which the others are served.
LEMMA ServedStays ==
  ASSUME TypeOK, rebuilt' = rebuilt,
         \A a \in 1..Len(placed) : createdAt'[a] = createdAt[a]
  PROVE  ServedPairs' = ServedPairs
<1>1. \A a, b \in Ids : Served(a, b)' <=> Served(a, b)
  <2> SUFFICES ASSUME NEW a \in Ids, NEW b \in Ids PROVE Served(a, b)' <=> Served(a, b)
    OBVIOUS
  <2>1. a <= rebuilt /\ b <= rebuilt => a \in 1..Len(placed) /\ b \in 1..Len(placed)
    BY MaxOrdersAssumption DEF TypeOK, Ids
  <2>2. QED
    BY <2>1 DEF Served
<1>2. QED
  BY <1>1 DEF ServedPairs

\* Resting after one side of the book has been replaced.
LEMMA RestingAfter ==
  ASSUME TypeOK, NEW s \in Sides, NEW t, book' = [book EXCEPT ![s] = t]
  PROVE  /\ book'[s] = t
         /\ book'[Opposite(s)] = book[Opposite(s)]
         /\ Resting = Elems(book[s]) \cup Elems(book[Opposite(s)]) \cup restoring
         /\ Resting' = Elems(t) \cup Elems(book[Opposite(s)]) \cup restoring'
         /\ Opposite(s) \in Sides /\ Opposite(s) # s
         /\ \A u \in Sides : u = s \/ u = Opposite(s)
<1>1. DOMAIN book = {"BUY", "SELL"}
  BY DEF TypeOK, Sides
<1>2. s = "BUY" \/ s = "SELL"
  BY DEF Sides
<1>3. (Elems(book["BUY"]))' = Elems(book'["BUY"]) /\ (Elems(book["SELL"]))' = Elems(book'["SELL"])
  BY DEF Elems
<1>4. Resting' = Elems(book'["BUY"]) \cup Elems(book'["SELL"]) \cup restoring'
  BY <1>3 DEF Resting, InBook
<1>5. CASE s = "BUY"
  <2>1. book'["BUY"] = t /\ book'["SELL"] = book["SELL"]
    BY <1>1, <1>5
  <2>2. QED
    BY <1>4, <1>5, <2>1 DEF Resting, InBook, Opposite, Sides
<1>6. CASE s = "SELL"
  <2>1. book'["SELL"] = t /\ book'["BUY"] = book["BUY"]
    BY <1>1, <1>6
  <2>2. QED
    BY <1>4, <1>6, <2>1 DEF Resting, InBook, Opposite, Sides
<1>7. QED
  BY <1>2, <1>5, <1>6

\* The resting orders of one side, where no rebuild is going on.
LEMMA RestingSide ==
  ASSUME EngineInv, restoring = {}, NEW s \in Sides
  PROVE  Elems(book[s]) = {o \in Resting : o.side = s}
<1>1. \A u \in Sides : \A o \in Elems(book[u]) : o.side = u
  BY DEF EngineInv, SideInv, Sided, Elems
<1>2. "BUY" \in Sides /\ "SELL" \in Sides /\ (s = "BUY" \/ s = "SELL")
  BY DEF Sides
<1>3. Resting = Elems(book["BUY"]) \cup Elems(book["SELL"])
  BY DEF Resting, InBook
<1>4. QED
  BY <1>1, <1>2, <1>3

THEOREM InitInv == Init => EngineInv
<1> SUFFICES ASSUME Init PROVE EngineInv
  OBVIOUS
<1>1. \A s \in Sides : book[s] = <<>>
  BY DEF Init
<1>2. \A s \in Sides : SideInv(s, book[s], ServedPairs)
  <2>1. <<>> \in Seq(Order) /\ DOMAIN <<>> = {}
    OBVIOUS
  <2>2. QED
    BY <1>1, <2>1 DEF SideInv, Priority, Distinct, Sided
<1>3. Active = {} /\ Resting = {} /\ stranded = {} /\ restoring = {}
  BY <1>1 DEF Active, Resting, InBook, Elems, Init, Sides
<1>4. TypeOK
  BY MaxOrdersAssumption DEF Init, TypeOK
<1>5. QED
  BY <1>1, <1>2, <1>3, <1>4 DEF EngineInv, NeverCrossed, OpenIds, RebuildInv, Init

\* Active orders are orders with an id that has been handed out.
LEMMA RestingType ==
  ASSUME EngineInv
  PROVE  /\ Resting \subseteq Order /\ Active \subseteq Order /\ Resting \subseteq Active
         /\ \A o \in Active : o.id \in 1..Len(placed) /\ o.id \in Ids
         /\ Len(placed) \in Nat /\ Len(placed) <= MaxOrders
         /\ rebuilt \in Nat /\ rebuilt <= Len(placed)
         /\ \A a \in 1..Len(placed) : createdAt[a] \in Nat
<1>1. Resting \subseteq Order
  BY DEF EngineInv, TypeOK, Resting, InBook, Elems, Sides, SideInv
<1>2. Active \subseteq Order /\ Resting \subseteq Active
  BY <1>1 DEF EngineInv, TypeOK, Active
<1>3. \A o \in Active : o.id <= Len(placed) /\ o.id \in Nat \ {0}
  BY <1>2 DEF EngineInv, OpenIds, Order
<1>4. Len(placed) \in Nat /\ Len(placed) <= MaxOrders
  BY DEF EngineInv, TypeOK
<1>5. \A a \in 1..Len(placed) : createdAt[a] \in Nat
  <2>1. createdAt \in Seq(Stamps) /\ Len(createdAt) = Len(placed)
    BY DEF EngineInv, TypeOK
  <2>2. \A a \in 1..Len(placed) : createdAt[a] \in Stamps
    BY <1>4, <2>1
  <2>3. QED
    BY <2>2, StampsAssumption
<1>6. rebuilt \in Nat /\ rebuilt <= Len(placed)
  BY <1>4 DEF EngineInv, TypeOK
<1>7. QED
  BY <1>1, <1>2, <1>3, <1>4, <1>5, <1>6, MaxOrdersAssumption DEF Ids

\* The order being matched has the newest id, and is served last at its price.
LEMMA TakerType ==
  ASSUME EngineInv, taker # NoOrder
  PROVE  /\ taker \in Order /\ taker.id \in Ids /\ taker.qty \in Nat
         /\ taker.id = Len(placed) /\ restoring = {}
         /\ \A o \in Active : o.id < taker.id
         /\ \A o \in Resting : o.id < taker.id /\ <<o.id, taker.id>> \in ServedPairs
<1>1. /\ taker \in Order /\ taker.id \in Ids /\ taker.qty \in Nat
      /\ taker.id = Len(placed) /\ restoring = {}
      /\ \A o \in Active : o.id < taker.id
  BY MaxOrdersAssumption DEF EngineInv, TypeOK, OpenIds, Order, Ids
<1>2. rebuilt < taker.id /\ rebuilt \in Nat /\ taker.id \in Nat
  BY <1>1, RestingType DEF EngineInv, RebuildInv
<1>3. \A o \in Resting : o.id \in Ids /\ o.id < taker.id
  BY <1>1, RestingType
<1>4. \A o \in Resting : Served(o.id, taker.id)
  BY <1>2, <1>3 DEF Served
<1>5. QED
  BY <1>1, <1>3, <1>4 DEF ServedPairs

-----------------------------------------------------------------------------
(* What the actions do to the set of resting orders *)

\* While Process matches, the first order of the other side has price-time
\* priority among all resting orders of that side.
LEMMA BestOpponent ==
  ASSUME EngineInv, Matching
  PROVE  LET opp == Opposite(taker.side)
             best == book[opp][1]
         IN  /\ taker \in Order /\ restoring = {} /\ opp \in Sides
             /\ SideInv(opp, book[opp], ServedPairs) /\ book[opp] # <<>>
             /\ best \in Order /\ best \in Resting /\ best.side = opp
             /\ best \in Elems(book[opp]) /\ 1 \in DOMAIN book[opp]
             /\ \A r \in Resting : r.side = opp /\ r # best =>
                  /\ NotWorse(opp, best.price, r.price)
                  /\ best.price = r.price => <<best.id, r.id>> \in ServedPairs
<1> DEFINE opp == Opposite(taker.side)
           s == book[opp]
           best == s[1]
<1>1. taker \in Order /\ restoring = {} /\ s # <<>>
  BY DEF EngineInv, TypeOK, OpenIds, Matching, Opponent
<1>2. opp \in Sides
  BY <1>1 DEF Order, Sides, Opposite
<1>3. SideInv(opp, s, ServedPairs)
  BY <1>2 DEF EngineInv
<1>4. s \in Seq(Order) /\ Len(s) \in Nat \ {0} /\ DOMAIN s = 1..Len(s) /\ 1 \in DOMAIN s
  BY <1>1, <1>3 DEF SideInv
<1>5. best \in Order /\ best \in Elems(s) /\ best.side = opp
  BY <1>3, <1>4 DEF SideInv, Sided, Elems
<1>6. Elems(s) = {o \in Resting : o.side = opp}
  BY <1>1, <1>2, RestingSide
<1>7. ASSUME NEW r \in Resting, r.side = opp, r # best
      PROVE  /\ NotWorse(opp, best.price, r.price)
             /\ best.price = r.price => <<best.id, r.id>> \in ServedPairs
  <2>1. r \in Elems(s)
    BY <1>6, <1>7
  <2>2. PICK j \in DOMAIN s : r = s[j]
    BY <2>1 DEF Elems
  <2>3. 1 < j
    BY <1>4, <1>7, <2>2
  <2>4. QED
    BY <1>3, <1>4, <2>2, <2>3 DEF SideInv, Priority
<1>8. QED
  BY <1>1, <1>2, <1>3, <1>4, <1>5, <1>6, <1>7

\* A trade takes q from the best order and touches no other resting order.
LEMMA MatchBestEffect ==
  ASSUME EngineInv, MatchBest
  PROVE  LET best == Opponent[1]
             q == MinQty(taker.qty, best.qty)
         IN  /\ q \in Nat /\ q <= best.qty /\ q <= taker.qty
             /\ Resting' = (Resting \ {best}) \cup
                  (IF best.qty = q THEN {} ELSE {[best EXCEPT !.qty = @ - q]})
             /\ \A u \in Sides : SideInv(u, book'[u], ServedPairs)
             /\ book' \in [Sides -> Seq(Order)]
<1> DEFINE opp == Opposite(taker.side)
           s == book[opp]
           best == s[1]
           q == MinQty(taker.qty, best.qty)
           rest == IF best.qty = q THEN {} ELSE {[best EXCEPT !.qty = @ - q]}
<1>1. Matching /\ restoring' = restoring /\ TypeOK
  BY DEF MatchBest, EngineInv
<1>2. /\ taker \in Order /\ restoring = {} /\ opp \in Sides
      /\ SideInv(opp, s, ServedPairs) /\ s # <<>>
      /\ best \in Order /\ best \in Resting /\ best.side = opp
      /\ best \in Elems(s)
  BY <1>1, BestOpponent
<1>3. q \in Nat /\ q <= best.qty /\ q <= taker.qty
  BY <1>2 DEF MinQty, Order
<1>4. book' = [book EXCEPT ![opp] = FillBest(s, q)]
  BY DEF MatchBest, Opponent
<1>5. SideInv(opp, FillBest(s, q), ServedPairs) /\ Elems(FillBest(s, q)) = (Elems(s) \ {best}) \cup rest
  BY <1>2, <1>3, FillBestKeepsSide
<1>6. /\ book'[opp] = FillBest(s, q)
      /\ book'[Opposite(opp)] = book[Opposite(opp)]
      /\ Resting = Elems(s) \cup Elems(book[Opposite(opp)]) \cup restoring
      /\ Resting' = Elems(FillBest(s, q)) \cup Elems(book[Opposite(opp)]) \cup restoring'
      /\ Opposite(opp) \in Sides /\ Opposite(opp) # opp
      /\ \A u \in Sides : u = opp \/ u = Opposite(opp)
  BY <1>1, <1>2, <1>4, RestingAfter
<1>7. best \notin Elems(book[Opposite(opp)])
  BY <1>2, <1>6 DEF EngineInv, SideInv, Sided, Elems
<1>8. Resting' = (Resting \ {best}) \cup rest
  <2> HIDE DEF rest, best, s, opp
  <2>1. QED
    BY <1>1, <1>2, <1>5, <1>6, <1>7
<1>9. \A u \in Sides : SideInv(u, book'[u], ServedPairs)
  BY <1>5, <1>6 DEF EngineInv
<1>10. book' \in [Sides -> Seq(Order)]
  BY <1>1, <1>4, <1>5 DEF TypeOK, SideInv
<1>11. QED
  BY <1>3, <1>8, <1>9, <1>10 DEF Opponent

\* A limit order that rests is added to the resting orders, and does not cross
\* any of them.
LEMMA ReturnEffect ==
  ASSUME EngineInv, Return
  PROVE  /\ taker \in Order /\ restoring = {}
         /\ Rests => /\ Resting' = Resting \cup {taker}
                     /\ \A r \in Resting : r.side = Opposite(taker.side)
                          => ~Accepts(taker, r)
         /\ ~Rests => Resting' = Resting
         /\ \A u \in Sides : SideInv(u, book'[u], ServedPairs)
         /\ book' \in [Sides -> Seq(Order)]
<1>1. /\ taker \in Order /\ restoring = {} /\ restoring' = restoring /\ TypeOK
      /\ taker # NoOrder /\ LoopEnds
  BY DEF Return, LoopEnds, EngineInv, TypeOK, OpenIds
<1>2. taker.side \in Sides /\ Opposite(taker.side) \in Sides
  BY <1>1 DEF Order, Sides, Opposite
<1>3. CASE Rests
  <2> DEFINE s == book[taker.side]
  <2>1. book' = [book EXCEPT ![taker.side] = AddOrder(s, taker)]
    BY <1>3 DEF Return
  <2>2. SideInv(taker.side, s, ServedPairs)
    BY <1>2 DEF EngineInv
  <2>3. \A i \in DOMAIN s : <<s[i].id, taker.id>> \in ServedPairs /\ s[i].id # taker.id
    <3>1. Elems(s) \subseteq Resting
      BY <1>2, <1>1, RestingSide
    <3>2. \A o \in Resting : o.id \in Nat /\ taker.id \in Nat
      BY <1>1, RestingType DEF Order
    <3>3. QED
      BY <1>1, <3>1, <3>2, TakerType DEF Elems
  <2>4. /\ SideInv(taker.side, AddOrder(s, taker), ServedPairs)
        /\ Elems(AddOrder(s, taker)) = Elems(s) \cup {taker}
    BY <1>1, <2>2, <2>3, AddOrderKeepsSide
  <2>5. /\ book'[taker.side] = AddOrder(s, taker)
        /\ book'[Opposite(taker.side)] = book[Opposite(taker.side)]
        /\ Resting = Elems(s) \cup Elems(book[Opposite(taker.side)]) \cup restoring
        /\ Resting' = Elems(AddOrder(s, taker)) \cup
                        Elems(book[Opposite(taker.side)]) \cup restoring'
        /\ \A u \in Sides : u = taker.side \/ u = Opposite(taker.side)
    BY <1>1, <1>2, <2>1, RestingAfter
  <2>6. Resting' = Resting \cup {taker}
    BY <1>1, <2>4, <2>5
  <2>7. ASSUME NEW r \in Resting, r.side = Opposite(taker.side)
        PROVE  ~Accepts(taker, r)
    <3>1. r \in Elems(Opponent)
      BY <1>1, <1>2, <2>7, RestingSide DEF Opponent
    <3>2. Opponent # <<>>
      BY <3>1 DEF Elems
    <3>3. Matching /\ ~Crosses
      BY <1>1, <1>3, <3>2 DEF LoopEnds, Rests, Matching, Order
    <3> DEFINE best == book[Opposite(taker.side)][1]
    <3>4. /\ best \in Order
          /\ r # best => NotWorse(Opposite(taker.side), best.price, r.price)
      BY <2>7, <3>3, BestOpponent
    <3>5. ~Accepts(taker, best) /\ taker.type # "MARKET"
      BY <1>3, <3>3 DEF Crosses, Opponent, Rests
    <3>6. r.price \in Nat /\ best.price \in Nat /\ taker.price \in Nat
      <4>1. r \in Order
        BY <1>2, <3>1 DEF EngineInv, SideInv, Elems, Opponent
      <4>2. QED
        BY <1>1, <3>4, <4>1 DEF Order
    <3>7. CASE r = best
      BY <3>5, <3>7
    <3>8. CASE r # best
      BY <1>2, <3>4, <3>5, <3>6, <3>8 DEF Accepts, NotWorse, Opposite, Sides
    <3>9. QED
      BY <3>7, <3>8
  <2>8. \A u \in Sides : SideInv(u, book'[u], ServedPairs)
    BY <2>4, <2>5 DEF EngineInv
  <2>9. book' \in [Sides -> Seq(Order)]
    BY <1>1, <2>1, <2>4 DEF TypeOK, SideInv
  <2>10. QED
    BY <1>1, <1>3, <2>6, <2>7, <2>8, <2>9
<1>4. CASE ~Rests
  <2>1. book' = book
    BY <1>4 DEF Return
  <2>2. QED
    BY <1>1, <1>4, <2>1 DEF Resting, InBook, EngineInv, TypeOK, Elems
<1>5. QED
  BY <1>3, <1>4

\* A cancelled order leaves the resting orders, and what it had left is given up.
LEMMA CancelEffect ==
  ASSUME EngineInv, Cancel
  PROVE  /\ restoring = {} /\ taker = NoOrder
         /\ \E m \in Resting : /\ Resting' = Resting \ {m}
                               /\ dropped' = [dropped EXCEPT ![m.id] = @ + m.qty]
         /\ \A u \in Sides : SideInv(u, book'[u], ServedPairs)
         /\ book' \in [Sides -> Seq(Order)]
<1>1. PICK s \in Sides : \E i \in DOMAIN book[s] :
        /\ book' = [book EXCEPT ![s] = RemoveIndex(@, i)]
        /\ dropped' = [dropped EXCEPT ![book[s][i].id] = @ + book[s][i].qty]
  BY DEF Cancel
<1>2. PICK i \in DOMAIN book[s] :
        /\ book' = [book EXCEPT ![s] = RemoveIndex(book[s], i)]
        /\ dropped' = [dropped EXCEPT ![book[s][i].id] = @ + book[s][i].qty]
  BY <1>1
<1> DEFINE m == book[s][i]
<1>3. restoring = {} /\ restoring' = restoring /\ TypeOK /\ taker = NoOrder
  BY DEF Cancel, EngineInv
<1>4. /\ SideInv(s, RemoveIndex(book[s], i), ServedPairs)
      /\ Elems(RemoveIndex(book[s], i)) = Elems(book[s]) \ {m}
  BY RemoveIndexKeepsSide DEF EngineInv
<1>5. /\ book'[s] = RemoveIndex(book[s], i)
      /\ book'[Opposite(s)] = book[Opposite(s)]
      /\ Resting = Elems(book[s]) \cup Elems(book[Opposite(s)]) \cup restoring
      /\ Resting' = Elems(RemoveIndex(book[s], i)) \cup
                      Elems(book[Opposite(s)]) \cup restoring'
      /\ Opposite(s) \in Sides /\ Opposite(s) # s
      /\ \A u \in Sides : u = s \/ u = Opposite(s)
  BY <1>2, <1>3, RestingAfter
<1>6. m \in Elems(book[s]) /\ m \notin Elems(book[Opposite(s)])
  BY <1>5 DEF EngineInv, SideInv, Sided, Elems
<1>7. Resting' = Resting \ {m}
  BY <1>3, <1>4, <1>5, <1>6
<1>8. m \in Resting
  BY <1>5, <1>6
<1>9. \A u \in Sides : SideInv(u, book'[u], ServedPairs)
  BY <1>4, <1>5 DEF EngineInv
<1>10. book' \in [Sides -> Seq(Order)]
  BY <1>2, <1>3, <1>4 DEF TypeOK, SideInv
<1>11. QED
  BY <1>2, <1>3, <1>7, <1>8, <1>9, <1>10

\* The book is dropped.
LEMMA ResetEffect ==
  ASSUME EngineInv, book' = [s \in Sides |-> <<>>]
  PROVE  /\ InBook' = {} /\ Resting' = restoring'
         /\ \A R : \A u \in Sides : SideInv(u, book'[u], R)
         /\ book' \in [Sides -> Seq(Order)]
<1>1. \A u \in Sides : book'[u] = <<>>
  OBVIOUS
<1>2. <<>> \in Seq(Order) /\ DOMAIN <<>> = {}
  OBVIOUS
<1>3. \A u \in Sides : Elems(book'[u]) = {}
  BY <1>1, <1>2 DEF Elems
<1>4. InBook' = {} /\ Resting' = restoring'
  <2>1. "BUY" \in Sides /\ "SELL" \in Sides
    BY DEF Sides
  <2>2. (Elems(book["BUY"]))' = Elems(book'["BUY"]) /\ (Elems(book["SELL"]))' = Elems(book'["SELL"])
    BY DEF Elems
  <2>3. QED
    BY <1>3, <2>1, <2>2 DEF Resting, InBook
<1>5. \A R : \A u \in Sides : SideInv(u, book'[u], R)
  BY <1>1, <1>2 DEF SideInv, Priority, Distinct, Sided
<1>6. book' \in [Sides -> Seq(Order)]
  BY <1>2
<1>7. QED
  BY <1>4, <1>5, <1>6

\* Dropping the book and queueing the active orders for the rebuild loses none.
LEMMA HandoverEffect ==
  ASSUME EngineInv, Handover
  PROVE  Resting' = Active /\ Active' = Active
<1>1. restoring' = Active /\ stranded' = {} /\ book' = [s \in Sides |-> <<>>]
  BY DEF Handover
<1>2. Resting' = Active
  BY <1>1, ResetEffect
<1>3. QED
  BY <1>1, <1>2 DEF Active

\* A leader whose restore failed serves none of the active orders.
LEMMA HandoverFailsEffect ==
  ASSUME EngineInv, HandoverFails
  PROVE  Resting' = {} /\ Active' = Active
<1>1. restoring' = {} /\ stranded' = Active /\ book' = [s \in Sides |-> <<>>]
  BY DEF HandoverFails, LeaderChanges
<1>2. Resting' = {}
  BY <1>1, ResetEffect
<1>3. QED
  BY <1>1, <1>2 DEF Active

\* Restoring the oldest order moves it into the book, behind its elders.
LEMMA RestoreOrderEffect ==
  ASSUME EngineInv, RestoreOrder
  PROVE  /\ Resting' = Resting
         /\ \A u \in Sides : SideInv(u, book'[u], ServedPairs)
         /\ book' \in [Sides -> Seq(Order)]
         /\ restoring' \subseteq restoring
         /\ \A r \in restoring' : \A x \in InBook' :
              x.id # r.id /\ createdAt[x.id] <= createdAt[r.id]
         /\ restoring # {}
<1>1. PICK o \in OldestOf(restoring) :
        /\ book' = [book EXCEPT ![o.side] = AddOrder(@, o)]
        /\ restoring' = restoring \ {o}
  BY DEF RestoreOrder
<1>2. /\ o \in restoring /\ o \in Order /\ o \in Active /\ TypeOK
      /\ \A r \in restoring : createdAt[o.id] <= createdAt[r.id]
  BY DEF OldestOf, EngineInv, TypeOK, Active, Resting
<1>3. o.side \in Sides
  BY <1>2 DEF Order
<1> DEFINE s == book[o.side]
<1>4. \A x \in InBook : x.id # o.id /\ <<x.id, o.id>> \in ServedPairs
  <2>1. \A x \in InBook : x.id # o.id /\ createdAt[x.id] <= createdAt[o.id]
    BY <1>2 DEF EngineInv, RebuildInv
  <2>2. rebuilt = Len(placed)
    BY <1>2 DEF EngineInv, RebuildInv
  <2>3. \A x \in InBook : x \in Active
    BY DEF Active, Resting
  <2>4. \A x \in InBook : x.id <= rebuilt /\ o.id <= rebuilt /\ x.id \in Ids /\ o.id \in Ids
    BY <1>2, <2>2, <2>3, RestingType
  <2>5. QED
    BY <2>1, <2>4 DEF Served, ServedPairs
<1>5. SideInv(o.side, AddOrder(s, o), ServedPairs) /\ Elems(AddOrder(s, o)) = Elems(s) \cup {o}
  <2>1. \A i \in DOMAIN s : s[i] \in InBook
    BY <1>3 DEF InBook, Elems, Sides
  <2>2. \A i \in DOMAIN s : <<s[i].id, o.id>> \in ServedPairs /\ s[i].id # o.id
    BY <1>4, <2>1
  <2>3. QED
    BY <1>2, <1>3, <2>2, AddOrderKeepsSide DEF EngineInv
<1>6. /\ book'[o.side] = AddOrder(s, o)
      /\ book'[Opposite(o.side)] = book[Opposite(o.side)]
      /\ Resting = Elems(s) \cup Elems(book[Opposite(o.side)]) \cup restoring
      /\ Resting' = Elems(AddOrder(s, o)) \cup
                      Elems(book[Opposite(o.side)]) \cup restoring'
      /\ \A u \in Sides : u = o.side \/ u = Opposite(o.side)
      /\ Opposite(o.side) \in Sides
  <2>1. book' = [book EXCEPT ![o.side] = AddOrder(s, o)]
    BY <1>1
  <2>2. QED
    BY <1>2, <1>3, <2>1, RestingAfter
<1>7. Resting' = Resting
  BY <1>1, <1>2, <1>5, <1>6
<1>8. InBook' \subseteq InBook \cup {o}
  <2>1. "BUY" \in Sides /\ "SELL" \in Sides
    BY DEF Sides
  <2>2. \A u \in Sides : Elems(book'[u]) \subseteq Elems(book[u]) \cup {o}
    BY <1>5, <1>6
  <2>3. (Elems(book["BUY"]))' = Elems(book'["BUY"]) /\ (Elems(book["SELL"]))' = Elems(book'["SELL"])
    BY DEF Elems
  <2>4. QED
    BY <2>1, <2>2, <2>3 DEF InBook
<1>9. ASSUME NEW r \in restoring', NEW x \in InBook'
      PROVE  x.id # r.id /\ createdAt[x.id] <= createdAt[r.id]
  <2>1. r \in restoring /\ r # o /\ r \in Active
    BY <1>1 DEF Active, Resting
  <2>2. CASE x = o
    BY <1>2, <2>1, <2>2 DEF EngineInv, OpenIds
  <2>3. CASE x \in InBook
    BY <2>1, <2>3 DEF EngineInv, RebuildInv
  <2>4. QED
    BY <1>8, <2>2, <2>3
<1>10. \A u \in Sides : SideInv(u, book'[u], ServedPairs)
  BY <1>5, <1>6 DEF EngineInv
<1>11. book' \in [Sides -> Seq(Order)]
  BY <1>1, <1>2, <1>3, <1>5 DEF TypeOK, SideInv
<1>12. restoring' \subseteq restoring /\ restoring # {}
  BY <1>1, <1>2
<1>13. QED
  BY <1>7, <1>9, <1>10, <1>11, <1>12

-----------------------------------------------------------------------------
(* Every action preserves the invariant *)

\* What a client can submit is an order with the next id.
LEMMA NewOrderType ==
  ASSUME NEW n \in Nat, NEW o \in NewOrder(n + 1) \cup NewMarketOrder(n + 1)
  PROVE  o \in Order /\ o.id = n + 1 /\ o.qty \in 1..MaxQty
<1>1. Prices \subseteq Nat /\ 1..MaxQty \subseteq Nat
  BY PricesAssumption, MaxQtyAssumption
<1>2. CASE o \in NewOrder(n + 1)
  <2>1. /\ o = [id |-> o.id, user |-> o.user, side |-> o.side,
                 type |-> o.type, price |-> o.price, qty |-> o.qty]
        /\ o.id = n + 1 /\ o.user \in Users /\ o.side \in Sides
        /\ o.type = "LIMIT" /\ o.price \in Prices /\ o.qty \in 1..MaxQty
    BY <1>2 DEF NewOrder
  <2>2. QED
    BY <1>1, <2>1 DEF Order, Types
<1>3. CASE o \in NewMarketOrder(n + 1)
  <2>1. /\ o = [id |-> o.id, user |-> o.user, side |-> o.side,
                 type |-> o.type, price |-> o.price, qty |-> o.qty]
        /\ o.id = n + 1 /\ o.user \in Users /\ o.side \in Sides
        /\ o.type = "MARKET" /\ o.price = 0 /\ o.qty \in 1..MaxQty
    BY <1>3 DEF NewMarketOrder
  <2>2. QED
    BY <1>1, <2>1 DEF Order, Types
<1>4. QED
  BY <1>2, <1>3

\* The times the rebuild goes by stay as they are.
LEMMA StampsStay ==
  ASSUME EngineInv, createdAt' = createdAt, rebuilt' = rebuilt
  PROVE  ServedPairs' = ServedPairs
BY ServedStays DEF EngineInv

LEMMA SubmitInv == ASSUME EngineInv, Submit PROVE EngineInv'
<1>1. PICK o \in NewOrder(Len(placed) + 1) \cup NewMarketOrder(Len(placed) + 1) :
        taker' = o /\ placed' = Append(placed, o.qty)
  BY DEF Submit
<1>2. /\ book' = book /\ restoring' = restoring /\ filled' = filled
      /\ dropped' = dropped /\ trades' = <<>> /\ restoring = {}
      /\ stranded' = stranded /\ rebuilt' = rebuilt /\ missed' = missed
      /\ Len(placed) < MaxOrders /\ taker = NoOrder
  BY DEF Submit
<1>3. placed \in Seq(1..MaxQty) /\ Len(placed) \in Nat
      /\ createdAt \in Seq(Stamps) /\ Len(createdAt) = Len(placed)
  BY DEF EngineInv, TypeOK
<1>4. o \in Order /\ o.id = Len(placed) + 1 /\ o.qty \in 1..MaxQty
  BY <1>1, <1>3, NewOrderType
<1>5. placed' \in Seq(1..MaxQty) /\ Len(placed') = Len(placed) + 1
  BY <1>1, <1>3, <1>4
<1>6. PICK c \in Stamps : createdAt' = Append(createdAt, c)
  BY DEF Submit
<1>7. /\ createdAt' \in Seq(Stamps) /\ Len(createdAt') = Len(placed')
      /\ \A a \in 1..Len(placed) : createdAt'[a] = createdAt[a]
  BY <1>3, <1>5, <1>6
<1>8. ServedPairs' = ServedPairs
  BY <1>2, <1>7, ServedStays DEF EngineInv
<1>9. Resting' = Resting /\ Active' = Active
  BY <1>2 DEF Active, Resting, InBook, Elems
<1>10. rebuilt \in Nat /\ rebuilt <= Len(placed)
  BY RestingType
<1>11. TypeOK'
  <2>1. rebuilt' \in 0..Len(placed')
    BY <1>2, <1>3, <1>5, <1>10
  <2>2. Len(placed') <= MaxOrders
    BY <1>2, <1>3, <1>5, MaxOrdersAssumption
  <2>3. QED
    BY <1>1, <1>2, <1>4, <1>5, <1>7, <2>1, <2>2 DEF EngineInv, TypeOK
<1>12. OpenIds'
  <2>1. \A p \in Active : p.id <= Len(placed) /\ p.id \in Nat
    BY RestingType DEF EngineInv, OpenIds, Order
  <2>2. \A p \in Active : p.id < o.id /\ p.id <= Len(placed')
    BY <1>3, <1>4, <1>5, <2>1
  <2>3. taker'.id = Len(placed')
    BY <1>1, <1>4, <1>5
  <2>4. QED
    BY <1>1, <1>2, <1>9, <2>2, <2>3 DEF EngineInv, OpenIds
<1>13. RebuildInv'
  BY <1>2, <1>3, <1>5, <1>10 DEF RebuildInv
<1>14. QED
  BY <1>2, <1>8, <1>9, <1>11, <1>12, <1>13 DEF EngineInv, NeverCrossed

LEMMA MatchBestInv == ASSUME EngineInv, MatchBest PROVE EngineInv'
<1> DEFINE opp == Opposite(taker.side)
           best == book[opp][1]
           q == MinQty(taker.qty, best.qty)
           m == [best EXCEPT !.qty = @ - q]
           t == [taker EXCEPT !.qty = @ - q]
<1>1. /\ Matching /\ placed' = placed /\ restoring' = restoring
      /\ dropped' = dropped /\ taker' = t /\ stranded' = stranded
      /\ createdAt' = createdAt /\ rebuilt' = rebuilt /\ missed' = missed
      /\ trades' = Append(trades, [maker |-> best, taker |-> taker,
                                   price |-> best.price, qty |-> q])
      /\ filled' = [filled EXCEPT ![best.id] = @ + q, ![taker.id] = @ + q]
  BY DEF MatchBest, Opponent
<1>2. /\ taker \in Order /\ restoring = {} /\ opp \in Sides
      /\ best \in Order /\ best \in Resting /\ best.side = opp
  BY <1>1, BestOpponent
<1>3. /\ q \in Nat /\ q <= best.qty /\ q <= taker.qty
      /\ Resting' = (Resting \ {best}) \cup (IF best.qty = q THEN {} ELSE {m})
      /\ \A u \in Sides : SideInv(u, book'[u], ServedPairs)
      /\ book' \in [Sides -> Seq(Order)]
  BY MatchBestEffect DEF Opponent
<1>4. /\ m \in Order /\ m.id = best.id /\ m.side = best.side /\ m.price = best.price
  BY <1>2, <1>3, ReducedOrder
<1>5. /\ t \in Order /\ t.id = taker.id
  BY <1>2, <1>3, ReducedOrder
<1> HIDE DEF m, t, q
<1>6. \A r \in Resting' : \E p \in Resting :
        /\ r.id = p.id /\ r.side = p.side /\ r.price = p.price
        /\ p = best => r = m
        /\ p # best => r = p
  BY <1>2, <1>3, <1>4
<1>7. TypeOK'
  <2>1. trades' \in Seq(Trade)
    <3>1. [maker |-> best, taker |-> taker, price |-> best.price, qty |-> q] \in Trade
      BY <1>2, <1>3 DEF Trade, Order
    <3>2. trades \in Seq(Trade)
      BY DEF EngineInv, TypeOK
    <3>3. QED
      BY <1>1, <3>1, <3>2
  <2>2. filled' \in [Ids -> Nat]
    <3>1. best.id \in Ids /\ taker.id \in Ids
      <4>1. taker # NoOrder
        BY <1>1 DEF Matching
      <4>2. QED
        BY <1>2, <4>1, RestingType, TakerType
    <3>2. filled \in [Ids -> Nat]
      BY DEF EngineInv, TypeOK
    <3>3. QED
      BY <1>1, <1>3, <3>1, <3>2
  <2>3. QED
    BY <1>1, <1>3, <1>5, <2>1, <2>2 DEF EngineInv, TypeOK
<1>8. NeverCrossed'
  BY <1>1, <1>6 DEF EngineInv, NeverCrossed
<1>9. OpenIds'
  <2>1. taker # NoOrder
    BY <1>1 DEF Matching
  <2>2. \A r \in Active' : \E p \in Active :
          r.id = p.id /\ (p = best => r = m) /\ (p # best => r = p)
    <3>1. best \notin stranded
      BY <1>2 DEF EngineInv, OpenIds
    <3>2. QED
      BY <1>1, <1>6, <3>1 DEF Active
  <2>3. \A o, p \in Active' : o.id = p.id => o = p
    <3> SUFFICES ASSUME NEW o \in Active', NEW p \in Active', o.id = p.id PROVE o = p
      OBVIOUS
    <3>1. PICK oo \in Active : o.id = oo.id /\ (oo = best => o = m) /\ (oo # best => o = oo)
      BY <2>2
    <3>2. PICK pp \in Active : p.id = pp.id /\ (pp = best => p = m) /\ (pp # best => p = pp)
      BY <2>2
    <3>3. oo = pp
      BY <3>1, <3>2 DEF EngineInv, OpenIds
    <3>4. QED
      BY <3>1, <3>2, <3>3
  <2>4. \A r \in Active' : r.id <= Len(placed) /\ r.id < taker.id
    BY <2>1, <2>2 DEF EngineInv, OpenIds
  <2>5. \A o \in stranded : o.id \in missed /\ \A p \in Resting' : o.id # p.id
    BY <1>6 DEF EngineInv, OpenIds
  <2>6. QED
    BY <1>1, <1>2, <1>5, <2>1, <2>3, <2>4, <2>5 DEF EngineInv, OpenIds
<1>10. ServedPairs' = ServedPairs
  BY <1>1, StampsStay
<1>11. RebuildInv'
  BY <1>1, <1>2 DEF EngineInv, RebuildInv, Matching
<1>12. QED
  BY <1>3, <1>7, <1>8, <1>9, <1>10, <1>11 DEF EngineInv

LEMMA CancelNewestInv == ASSUME EngineInv, CancelNewest PROVE EngineInv'
<1> DEFINE t == [taker EXCEPT !.qty = 0]
<1>1. /\ taker # NoOrder /\ taker' = t /\ book' = book /\ trades' = trades
      /\ restoring' = restoring /\ placed' = placed /\ filled' = filled
      /\ stranded' = stranded /\ createdAt' = createdAt
      /\ rebuilt' = rebuilt /\ missed' = missed
      /\ dropped' = [dropped EXCEPT ![taker.id] = @ + taker.qty]
  BY DEF CancelNewest, Matching
<1>2. /\ taker \in Order /\ taker.id \in Ids /\ taker.qty \in Nat
  BY <1>1, TakerType
<1>3. t \in Order /\ t.id = taker.id
  BY <1>2 DEF Order
<1> HIDE DEF t
<1>4. Resting' = Resting /\ Active' = Active /\ InBook' = InBook
  BY <1>1 DEF Active, Resting, InBook, Elems
<1>5. TypeOK'
  BY <1>1, <1>2, <1>3 DEF EngineInv, TypeOK
<1>6. OpenIds'
  BY <1>1, <1>3, <1>4 DEF EngineInv, OpenIds
<1>7. RebuildInv'
  BY <1>1, <1>4 DEF EngineInv, RebuildInv
<1>8. ServedPairs' = ServedPairs
  BY <1>1, StampsStay
<1>9. QED
  BY <1>1, <1>4, <1>5, <1>6, <1>7, <1>8 DEF EngineInv, NeverCrossed

LEMMA ReturnInv == ASSUME EngineInv, Return PROVE EngineInv'
<1>1. /\ taker # NoOrder /\ taker' = NoOrder /\ trades' = trades
      /\ restoring' = restoring /\ placed' = placed /\ filled' = filled
      /\ stranded' = stranded /\ createdAt' = createdAt
      /\ rebuilt' = rebuilt /\ missed' = missed
      /\ dropped' = IF Rests THEN dropped
                    ELSE [dropped EXCEPT ![taker.id] = @ + taker.qty]
  BY DEF Return, LoopEnds
<1>2. /\ taker \in Order /\ taker.id \in Ids /\ taker.qty \in Nat
      /\ taker.id = Len(placed) /\ restoring = {}
      /\ \A o \in Active : o.id < taker.id
  BY <1>1, TakerType
<1>3. /\ Rests => /\ Resting' = Resting \cup {taker}
                  /\ \A r \in Resting : r.side = Opposite(taker.side)
                       => ~Accepts(taker, r)
      /\ ~Rests => Resting' = Resting
      /\ \A u \in Sides : SideInv(u, book'[u], ServedPairs)
      /\ book' \in [Sides -> Seq(Order)]
  BY ReturnEffect
<1>4. TypeOK'
  BY <1>1, <1>2, <1>3 DEF EngineInv, TypeOK
<1>5. NeverCrossed'
  <2>1. CASE ~Rests
    BY <1>1, <1>3, <2>1 DEF EngineInv, NeverCrossed
  <2>2. CASE Rests
    <3> SUFFICES ASSUME NEW b \in Resting', NEW a \in Resting',
                        b.side = "BUY", a.side = "SELL", {b.id, a.id} \cap missed = {}
                 PROVE  b.price < a.price
      BY <1>1 DEF NeverCrossed
    <3>1. Resting \subseteq Order
      BY RestingType
    <3>2. a \in Order /\ b \in Order
      BY <1>2, <1>3, <2>2, <3>1
    <3>3. a.price \in Nat /\ b.price \in Nat
      BY <3>2 DEF Order
    <3>4. CASE b \in Resting /\ a \in Resting
      BY <3>4 DEF EngineInv, NeverCrossed
    <3>5. CASE b = taker
      <4>1. a \in Resting /\ ~Accepts(taker, a)
        BY <1>3, <2>2, <3>5 DEF Opposite
      <4>2. QED
        BY <3>3, <3>5, <4>1 DEF Accepts, NotWorse
    <3>6. CASE a = taker
      <4>1. b \in Resting /\ ~Accepts(taker, b)
        BY <1>3, <2>2, <3>6 DEF Opposite
      <4>2. QED
        BY <3>3, <3>6, <4>1 DEF Accepts, NotWorse
    <3>7. QED
      BY <1>3, <2>2, <3>4, <3>5, <3>6
  <2>3. QED
    BY <2>1, <2>2
<1>6. OpenIds'
  <2>1. \A r \in Active' : r = taker \/ r \in Active
    BY <1>1, <1>3 DEF Active
  <2>2. \A r \in Active : r.id <= Len(placed) /\ r.id < taker.id
    BY <1>2 DEF EngineInv, OpenIds
  <2>3. \A r \in Active : r.id # taker.id
    BY <1>2, <2>2, RestingType DEF Order
  <2>4. \A o, p \in Active' : o.id = p.id => o = p
    BY <2>1, <2>3 DEF EngineInv, OpenIds
  <2>5. \A r \in Active' : r.id <= Len(placed)
    BY <1>2, <2>1, <2>2 DEF Order
  <2>6. \A o \in stranded : o.id \in missed /\ \A p \in Resting' : o.id # p.id
    BY <1>3, <2>3 DEF EngineInv, OpenIds, Active
  <2>7. QED
    BY <1>1, <1>2, <2>4, <2>5, <2>6 DEF OpenIds
<1>7. RebuildInv'
  BY <1>1, <1>2 DEF RebuildInv
<1>8. ServedPairs' = ServedPairs
  BY <1>1, StampsStay
<1>9. QED
  BY <1>3, <1>4, <1>5, <1>6, <1>7, <1>8 DEF EngineInv

LEMMA CancelInv == ASSUME EngineInv, Cancel PROVE EngineInv'
<1>1. /\ taker' = taker /\ trades' = trades /\ restoring' = restoring
      /\ placed' = placed /\ filled' = filled /\ stranded' = stranded
      /\ createdAt' = createdAt /\ rebuilt' = rebuilt /\ missed' = missed
  BY DEF Cancel
<1>2. /\ restoring = {} /\ taker = NoOrder
      /\ \E m \in Resting : /\ Resting' = Resting \ {m}
                            /\ dropped' = [dropped EXCEPT ![m.id] = @ + m.qty]
      /\ \A u \in Sides : SideInv(u, book'[u], ServedPairs)
      /\ book' \in [Sides -> Seq(Order)]
  BY CancelEffect
<1>3. Resting' \subseteq Resting /\ Active' \subseteq Active
  BY <1>1, <1>2 DEF Active
<1>4. dropped' \in [Ids -> Nat]
  <2>1. PICK m \in Resting : dropped' = [dropped EXCEPT ![m.id] = @ + m.qty]
    BY <1>2
  <2>3. m.id \in Ids /\ m.qty \in Nat
    BY RestingType DEF Order, Active
  <2>4. dropped \in [Ids -> Nat]
    BY DEF EngineInv, TypeOK
  <2>5. QED
    BY <2>1, <2>3, <2>4
<1>5. TypeOK'
  BY <1>1, <1>2, <1>4 DEF EngineInv, TypeOK
<1>6. OpenIds'
  BY <1>1, <1>2, <1>3 DEF EngineInv, OpenIds
<1>7. NeverCrossed'
  BY <1>1, <1>3 DEF EngineInv, NeverCrossed
<1>8. RebuildInv'
  BY <1>1, <1>2 DEF RebuildInv
<1>9. ServedPairs' = ServedPairs
  BY <1>1, StampsStay
<1>10. QED
  BY <1>2, <1>5, <1>6, <1>7, <1>8, <1>9 DEF EngineInv

LEMMA HandoverInv == ASSUME EngineInv, Handover PROVE EngineInv'
<1>1. /\ taker' = taker /\ trades' = trades /\ taker = NoOrder
      /\ placed' = placed /\ filled' = filled /\ dropped' = dropped
      /\ createdAt' = createdAt /\ missed' = missed
      /\ restoring' = Active /\ stranded' = {} /\ rebuilt' = Len(placed)
      /\ book' = [s \in Sides |-> <<>>]
  BY DEF Handover, LeaderChanges
<1>2. /\ InBook' = {} /\ book' \in [Sides -> Seq(Order)]
      /\ \A u \in Sides : SideInv(u, book'[u], ServedPairs')
  BY <1>1, ResetEffect
<1>3. Resting' = Active /\ Active' = Active
  BY HandoverEffect
<1>4. Active \subseteq Order /\ Len(placed) \in Nat
  BY RestingType
<1>5. TypeOK'
  <2>1. rebuilt' \in 0..Len(placed')
    BY <1>1, <1>4
  <2>2. QED
    BY <1>1, <1>2, <1>4, <2>1 DEF EngineInv, TypeOK
<1>6. OpenIds'
  BY <1>1, <1>3 DEF EngineInv, OpenIds
<1>7. RebuildInv'
  BY <1>1, <1>2 DEF RebuildInv
<1>8. NeverCrossed'
  <2> SUFFICES ASSUME NEW b \in Active, NEW a \in Active, b.side = "BUY", a.side = "SELL",
                      {b.id, a.id} \cap missed = {}
               PROVE  b.price < a.price
    BY <1>1, <1>3 DEF NeverCrossed
  <2>1. b \notin stranded /\ a \notin stranded
    BY DEF EngineInv, OpenIds
  <2>2. QED
    BY <2>1 DEF Active, EngineInv, NeverCrossed
<1>9. QED
  BY <1>2, <1>5, <1>6, <1>7, <1>8 DEF EngineInv

LEMMA HandoverFailsInv == ASSUME EngineInv, HandoverFails PROVE EngineInv'
<1>1. /\ taker' = taker /\ trades' = trades /\ taker = NoOrder
      /\ placed' = placed /\ filled' = filled /\ dropped' = dropped
      /\ createdAt' = createdAt /\ rebuilt' = rebuilt
      /\ missed' = missed \cup IdsOf(Active)
      /\ restoring' = {} /\ stranded' = Active
      /\ book' = [s \in Sides |-> <<>>]
  BY DEF HandoverFails, LeaderChanges
<1>2. /\ InBook' = {} /\ book' \in [Sides -> Seq(Order)]
      /\ \A u \in Sides : SideInv(u, book'[u], ServedPairs')
  BY <1>1, ResetEffect
<1>3. Resting' = {} /\ Active' = Active
  BY HandoverFailsEffect
<1>4. Active \subseteq Order /\ \A o \in Active : o.id \in Ids
  BY RestingType
<1>5. TypeOK'
  <2>1. missed' \subseteq Ids
    BY <1>1, <1>4 DEF EngineInv, TypeOK, IdsOf
  <2>2. QED
    BY <1>1, <1>2, <1>4, <2>1 DEF EngineInv, TypeOK
<1>6. OpenIds'
  BY <1>1, <1>3 DEF EngineInv, OpenIds, IdsOf
<1>7. RebuildInv' /\ NeverCrossed'
  BY <1>1, <1>2, <1>3 DEF RebuildInv, NeverCrossed
<1>8. QED
  BY <1>2, <1>5, <1>6, <1>7 DEF EngineInv

LEMMA RestoreOrderInv == ASSUME EngineInv, RestoreOrder PROVE EngineInv'
<1>1. /\ taker' = taker /\ trades' = trades /\ stranded' = stranded
      /\ placed' = placed /\ filled' = filled /\ dropped' = dropped
      /\ createdAt' = createdAt /\ rebuilt' = rebuilt /\ missed' = missed
  BY DEF RestoreOrder, history
<1>2. /\ Resting' = Resting
      /\ \A u \in Sides : SideInv(u, book'[u], ServedPairs)
      /\ book' \in [Sides -> Seq(Order)]
      /\ restoring' \subseteq restoring
      /\ \A r \in restoring' : \A x \in InBook' :
           x.id # r.id /\ createdAt[x.id] <= createdAt[r.id]
      /\ restoring # {}
  BY RestoreOrderEffect
<1>3. TypeOK'
  BY <1>1, <1>2 DEF EngineInv, TypeOK
<1>4. taker = NoOrder
  BY <1>2 DEF EngineInv, OpenIds
<1>5. Active' = Active
  BY <1>1, <1>2 DEF Active
<1>6. OpenIds'
  BY <1>1, <1>2, <1>4, <1>5 DEF EngineInv, OpenIds
<1>7. RebuildInv'
  BY <1>1, <1>2, <1>4 DEF EngineInv, RebuildInv
<1>8. ServedPairs' = ServedPairs
  BY <1>1, StampsStay
<1>9. QED
  BY <1>1, <1>2, <1>3, <1>6, <1>7, <1>8 DEF EngineInv, NeverCrossed

LEMMA StepInv == EngineInv /\ [Next]_vars => EngineInv'
<1> SUFFICES ASSUME EngineInv, [Next]_vars PROVE EngineInv'
  OBVIOUS
<1>1. CASE Submit
  BY <1>1, SubmitInv
<1>2. CASE MatchBest
  BY <1>2, MatchBestInv
<1>3. CASE CancelNewest
  BY <1>3, CancelNewestInv
<1>4. CASE Return
  BY <1>4, ReturnInv
<1>5. CASE Cancel
  BY <1>5, CancelInv
<1>6. CASE Handover
  BY <1>6, HandoverInv
<1>7. CASE RestoreOrder
  BY <1>7, RestoreOrderInv
<1>8. CASE HandoverFails
  BY <1>8, HandoverFailsInv
<1>9. CASE UNCHANGED vars
  <2>1. /\ UNCHANGED <<book, taker, trades, restoring, stranded, createdAt>>
        /\ UNCHANGED <<placed, filled, dropped, rebuilt, missed>>
    BY <1>9 DEF vars, history
  <2>2. ServedPairs' = ServedPairs
    BY <2>1, StampsStay
  <2>3. Resting' = Resting /\ Active' = Active /\ InBook' = InBook
    BY <2>1 DEF Active, Resting, InBook, Elems
  <2>4. TypeOK' /\ NeverCrossed' /\ OpenIds' /\ RebuildInv'
    BY <2>1, <2>3 DEF EngineInv, TypeOK, NeverCrossed, OpenIds, RebuildInv
  <2>5. QED
    BY <2>1, <2>2, <2>4 DEF EngineInv
<1>10. QED
  BY <1>1, <1>2, <1>3, <1>4, <1>5, <1>6, <1>7, <1>8, <1>9 DEF Next

-----------------------------------------------------------------------------
(* The theorems *)

\* The engine stays within EngineInv: what it does to the slices of the book
\* (orderbook.go) and to the order it is matching keeps all parts together.
THEOREM EngineInvariant == Spec => []EngineInv
<1>1. Init => EngineInv
  BY InitInv
<1>2. QED
  BY <1>1, StepInv, PTL DEF Spec

\* Types: quantities never go below zero, however much an iteration takes.
THEOREM TypeCorrect == Spec => []TypeOK
<1>1. EngineInv => TypeOK
  BY DEF EngineInv
<1>2. QED
  BY <1>1, EngineInvariant, PTL

\* Price-time priority of both slices (AddOrder, RemoveBestBid, RemoveBestAsk,
\* RemoveOrder and the rebuild by RestoreOrder, whatever the stamps of the rows): by
\* arrival, and by created_at among the orders a leader has restored.
THEOREM PriorityKept == Spec => []PriceTimePriority
<1>1. EngineInv => PriceTimePriority
  BY DEF EngineInv, SideInv, Priority, PriceTimePriority, ServedPairs
<1>2. QED
  BY <1>1, EngineInvariant, PTL

\* The book is never crossed but by an order that a failed restore once left out:
\* Process adds a limit order only after its loop has left nothing it crosses, its
\* own user's orders included.
THEOREM BookNeverCrossed == Spec => []NeverCrossed
<1>1. EngineInv => NeverCrossed
  BY DEF EngineInv
<1>2. QED
  BY <1>1, EngineInvariant, PTL

\* No order is twice in the book, waiting to be restored, stranded or being matched,
\* across submissions, cancels, rebuilds and failed rebuilds.
THEOREM NoDuplicates == Spec => []OpenOnce
<1>1. ASSUME EngineInv, NEW s \in Sides, NEW t \in Sides,
             NEW i \in DOMAIN book[s], NEW j \in DOMAIN book[t],
             book[s][i].id = book[t][j].id
      PROVE  s = t /\ i = j
  <2>1. book[s][i] \in Active /\ book[t][j] \in Active
    BY DEF Active, Resting, InBook, Elems, Sides
  <2>2. book[s][i] = book[t][j]
    BY <1>1, <2>1 DEF EngineInv, OpenIds
  <2>3. book[s][i].side = s /\ book[t][j].side = t
    BY <1>1 DEF EngineInv, SideInv, Sided
  <2>4. s = t
    BY <2>2, <2>3
  <2>5. QED
    BY <1>1, <2>4 DEF EngineInv, SideInv, Distinct
<1>2. ASSUME EngineInv
      PROVE  /\ IdsOf(InBook) \cap IdsOf(restoring) = {}
             /\ IdsOf(Resting) \cap IdsOf(stranded) = {}
  BY <1>2 DEF EngineInv, OpenIds, RebuildInv, IdsOf
<1>3. ASSUME EngineInv, taker # NoOrder PROVE taker.id \notin IdsOf(Active)
  <2>1. \A o \in Active : o.id # taker.id
    BY <1>3, TakerType, RestingType DEF Order
  <2>2. QED
    BY <2>1 DEF IdsOf
<1>4. EngineInv => \A o, p \in Active : o.id = p.id => o = p
  BY DEF EngineInv, OpenIds
<1>5. EngineInv => OpenOnce
  BY <1>1, <1>2, <1>3, <1>4 DEF OpenOnce
<1>6. QED
  BY <1>5, EngineInvariant, PTL

-----------------------------------------------------------------------------
(* Refinement: every step is a step of PriceTimeMatching, or stutters there *)

\* While Process matches, the first slot of the slice holds the order with
\* priority.
LEMMA BestHasPriority ==
  ASSUME EngineInv, Matching
  PROVE  Abstract!HasPriority(Opponent[1], taker)
<1> DEFINE opp == Opposite(taker.side)
           best == book[opp][1]
<1>1. /\ best \in Resting /\ best.side = opp
      /\ \A r \in Resting : r.side = opp /\ r # best =>
           /\ NotWorse(opp, best.price, r.price)
           /\ best.price = r.price => Served(best.id, r.id)
  BY BestOpponent DEF ServedPairs
<1> HIDE DEF best
<1>2. Abstract!HasPriority(best, taker)
  BY <1>1 DEF Abstract!HasPriority, Abstract!Opponents, Abstract!Before,
              Abstract!Served, Served, Abstract!NotWorse, NotWorse, Abstract!Opposite, Opposite
<1>3. QED
  BY <1>2 DEF best, Opponent

LEMMA SubmitRefines == ASSUME EngineInv, Submit PROVE Abstract!Submit
<1>1. Resting' = Resting
  BY DEF Submit, Resting, InBook, Elems
<1>2. /\ taker = NoOrder /\ trades' = <<>> /\ stranded' = stranded /\ rebuilt' = rebuilt
      /\ \E c \in Stamps : createdAt' = Append(createdAt, c)
  BY DEF Submit
<1>3. PICK o \in NewOrder(Len(placed) + 1) \cup NewMarketOrder(Len(placed) + 1) :
        taker' = o /\ placed' = Append(placed, o.qty)
  BY DEF Submit
<1>4. Len(placed') = Len(placed) + 1
  <2>1. placed \in Seq(1..MaxQty) /\ o.qty \in 1..MaxQty
    BY <1>3, NewOrderType DEF EngineInv, TypeOK
  <2>2. QED
    BY <1>3, <2>1
<1>5. o \in Abstract!NewOrder(Len(placed) + 1) \cup Abstract!NewMarketOrder(Len(placed) + 1)
  BY <1>3 DEF NewOrder, NewMarketOrder, Abstract!NewOrder,
              Abstract!NewMarketOrder, Sides, Abstract!Sides
<1>6. QED
  BY <1>1, <1>2, <1>3, <1>4, <1>5 DEF Abstract!Submit

LEMMA MatchBestRefines == ASSUME EngineInv, MatchBest PROVE Abstract!Trading
<1> DEFINE m == Opponent[1]
           q == MinQty(taker.qty, m.qty)
           rest == IF m.qty = q THEN {} ELSE {[m EXCEPT !.qty = @ - q]}
           record == [maker |-> m, taker |-> taker, price |-> m.price, qty |-> q]
<1>1. /\ Matching /\ ~OwnBest /\ Crosses /\ placed' = placed
      /\ stranded' = stranded /\ UNCHANGED Abstract!ranks
      /\ trades' = Append(trades, record)
      /\ taker' = [taker EXCEPT !.qty = @ - q]
  BY DEF MatchBest, Abstract!ranks
<1>2. Resting' = (Resting \ {m}) \cup rest
  BY MatchBestEffect
<1>3. m \in Resting /\ Abstract!HasPriority(m, taker)
  BY <1>1, BestHasPriority DEF Abstract!HasPriority, Abstract!Opponents
<1>4. taker # NoOrder /\ taker.qty > 0
  BY <1>1 DEF Matching
<1>5. Abstract!Accepts(taker, m) /\ m.user # taker.user
  BY <1>1 DEF Crosses, OwnBest, Accepts, Abstract!Accepts, NotWorse, Abstract!NotWorse
<1>6. q = Abstract!MinQty(taker.qty, m.qty)
  BY DEF MinQty, Abstract!MinQty
<1> HIDE DEF m, q
<1>7. QED
  BY <1>1, <1>2, <1>3, <1>4, <1>5, <1>6 DEF Abstract!Trading

LEMMA CancelNewestRefines == ASSUME EngineInv, CancelNewest PROVE Abstract!Forfeit
<1>1. /\ Matching /\ OwnBest /\ taker' = [taker EXCEPT !.qty = 0]
      /\ book' = book /\ restoring' = restoring /\ placed' = placed
      /\ trades' = trades /\ stranded' = stranded /\ UNCHANGED Abstract!ranks
  BY DEF CancelNewest, Abstract!ranks
<1>2. Resting' = Resting
  BY <1>1 DEF Resting, InBook, Elems
<1>3. /\ Opponent[1] \in Resting /\ Abstract!HasPriority(Opponent[1], taker)
      /\ Opponent[1].user = taker.user
  BY <1>1, BestHasPriority DEF Abstract!HasPriority, Abstract!Opponents, OwnBest
<1>4. QED
  BY <1>1, <1>2, <1>3 DEF Abstract!Forfeit, Matching

LEMMA ReturnRefines == ASSUME EngineInv, Return PROVE Abstract!Rest \/ Abstract!Done
<1>1. /\ LoopEnds /\ taker # NoOrder /\ taker' = NoOrder
      /\ trades' = trades /\ placed' = placed
      /\ stranded' = stranded /\ UNCHANGED Abstract!ranks
  BY DEF Return, LoopEnds, Abstract!ranks
<1>2. /\ taker \in Order /\ restoring = {}
      /\ Rests => /\ Resting' = Resting \cup {taker}
                  /\ \A r \in Resting : r.side = Opposite(taker.side)
                       => ~Accepts(taker, r)
      /\ ~Rests => Resting' = Resting
  BY ReturnEffect
<1>3. taker.qty \in Nat /\ taker.type \in Types /\ taker.side \in Sides
  BY <1>2 DEF Order
<1>4. CASE Rests
  <2>1. taker.qty > 0 /\ taker.type = "LIMIT"
    BY <1>3, <1>4 DEF Rests, Types
  <2>2. \A r \in Abstract!Opponents(taker) : ~Abstract!Accepts(taker, r)
    BY <1>2, <1>4 DEF Abstract!Opponents, Accepts, Abstract!Accepts, NotWorse,
                      Abstract!NotWorse, Opposite, Abstract!Opposite
  <2>3. QED
    BY <1>1, <1>2, <1>4, <2>1, <2>2 DEF Abstract!Rest
<1>5. CASE ~Rests
  <2>1. CASE taker.qty = 0
    BY <1>1, <1>2, <1>5, <2>1 DEF Abstract!Done
  <2>2. CASE taker.qty > 0
    <3>1. taker.type = "MARKET"
      BY <1>5, <2>2 DEF Rests
    <3>2. Opponent = <<>>
      BY <1>1, <2>2, <3>1, <1>3 DEF LoopEnds, Crosses, Accepts
    <3>3. Elems(Opponent) = {}
      BY <3>2 DEF Elems
    <3>4. Opposite(taker.side) \in Sides
      BY <1>3 DEF Sides, Opposite
    <3>5. {o \in Resting : o.side = Opposite(taker.side)} = {}
      BY <1>2, <3>3, <3>4, RestingSide DEF Opponent
    <3>6. Abstract!Opponents(taker) = {}
      BY <3>5 DEF Abstract!Opponents, Opposite, Abstract!Opposite
    <3>7. QED
      BY <1>1, <1>2, <1>5, <3>1, <3>6 DEF Abstract!Done
  <2>3. QED
    BY <1>3, <2>1, <2>2
<1>6. QED
  BY <1>4, <1>5

LEMMA CancelRefines == ASSUME EngineInv, Cancel PROVE Abstract!Withdraw
<1>1. /\ placed' = placed /\ taker' = taker /\ trades' = trades
      /\ stranded' = stranded /\ UNCHANGED Abstract!ranks
  BY DEF Cancel, Abstract!ranks
<1>2. taker = NoOrder /\ \E m \in Resting : Resting' = Resting \ {m}
  BY CancelEffect
<1>3. QED
  BY <1>1, <1>2 DEF Abstract!Withdraw

LEMMA HandoverRefines == ASSUME EngineInv, Handover PROVE Abstract!TakeOver
<1>1. /\ taker = NoOrder /\ taker' = taker /\ trades' = trades /\ placed' = placed
      /\ createdAt' = createdAt /\ stranded' = {} /\ rebuilt' = Len(placed)
  BY DEF Handover, LeaderChanges
<1>2. Resting' = Resting \cup stranded
  BY HandoverEffect DEF Active
<1>3. QED
  BY <1>1, <1>2 DEF Abstract!TakeOver

LEMMA HandoverFailsRefines == ASSUME EngineInv, HandoverFails PROVE Abstract!StartEmpty
<1>1. /\ taker = NoOrder /\ taker' = taker /\ trades' = trades /\ placed' = placed
      /\ UNCHANGED Abstract!ranks /\ stranded' = Resting \cup stranded
  BY DEF HandoverFails, LeaderChanges, Active, Abstract!ranks
<1>2. Resting' = {}
  BY HandoverFailsEffect
<1>3. QED
  BY <1>1, <1>2 DEF Abstract!StartEmpty

LEMMA StepRefines ==
  EngineInv /\ [Next]_vars => [Abstract!Next]_(Abstract!absVars)
<1> SUFFICES ASSUME EngineInv, [Next]_vars
             PROVE  [Abstract!Next]_(Abstract!absVars)
  OBVIOUS
<1>1. CASE Submit
  BY <1>1, SubmitRefines DEF Abstract!Next
<1>2. CASE MatchBest
  BY <1>2, MatchBestRefines DEF Abstract!Next
<1>3. CASE CancelNewest
  BY <1>3, CancelNewestRefines DEF Abstract!Next
<1>4. CASE Return
  BY <1>4, ReturnRefines DEF Abstract!Next
<1>5. CASE Cancel
  BY <1>5, CancelRefines DEF Abstract!Next
<1>6. CASE Handover
  BY <1>6, HandoverRefines DEF Abstract!Next
<1>7. CASE HandoverFails
  BY <1>7, HandoverFailsRefines DEF Abstract!Next
<1>8. CASE RestoreOrder
  <2>1. Resting' = Resting
    BY <1>8, RestoreOrderEffect
  <2>2. /\ placed' = placed /\ taker' = taker /\ trades' = trades /\ stranded' = stranded
        /\ createdAt' = createdAt /\ rebuilt' = rebuilt
    BY <1>8 DEF RestoreOrder, history
  <2>3. QED
    BY <2>1, <2>2 DEF Abstract!absVars, Abstract!ranks
<1>9. CASE UNCHANGED vars
  BY <1>9 DEF vars, history, Abstract!absVars, Abstract!ranks, Resting, InBook, Elems
<1>10. QED
  BY <1>1, <1>2, <1>3, <1>4, <1>5, <1>6, <1>7, <1>8, <1>9 DEF Next

\* The slices, the stable sort, the removal by index and the rebuild implement
\* matching over a set of resting orders: every trade is with an order that has
\* price-time priority, and a change of leader brings back all active orders in
\* the order of their creation, or strands them all.
THEOREM EngineImplementsMatching == Spec => Refinement
<1>1. Init => Abstract!Init
  <2> SUFFICES ASSUME Init PROVE Abstract!Init
    OBVIOUS
  <2>1. Resting = {}
    BY DEF Init, Resting, InBook, Elems, Sides
  <2>2. QED
    BY <2>1 DEF Init, Abstract!Init
<1>2. QED
  BY <1>1, StepRefines, EngineInvariant, PTL DEF Spec, Refinement, Abstract!Spec

-----------------------------------------------------------------------------
(* What is reported: the trades of a call of Process are fair, and quantity is
   conserved *)

\* A trade leaves every other resting order as it is, and of the best one, under its id
\* and at its side and price, what it has not given.
LEMMA RestingAfterTrade ==
  ASSUME EngineInv, MatchBest
  PROVE  LET best == Opponent[1]
             q == MinQty(taker.qty, best.qty)
         IN  /\ best \in Resting /\ best \in Order
             /\ q \in Nat /\ q <= best.qty /\ q <= taker.qty
             /\ \A p \in Resting : p # best => p \in Resting'
             /\ best.qty # q => \E r \in Resting' : r.id = best.id
             /\ \A r \in Resting' :
                  \/ r \in Resting /\ r # best
                  \/ /\ best.qty # q /\ r.qty = best.qty - q
                     /\ r.id = best.id /\ r.side = best.side /\ r.price = best.price
<1> DEFINE best == Opponent[1]
           q == MinQty(taker.qty, best.qty)
           m == [best EXCEPT !.qty = @ - q]
<1>1. best \in Resting /\ best \in Order
  BY BestOpponent DEF MatchBest, Opponent
<1>2. /\ q \in Nat /\ q <= best.qty /\ q <= taker.qty
      /\ Resting' = (Resting \ {best}) \cup (IF best.qty = q THEN {} ELSE {m})
  BY MatchBestEffect
<1>3. m.id = best.id /\ m.side = best.side /\ m.price = best.price /\ m.qty = best.qty - q
  BY <1>1, <1>2, ReducedOrder
<1> HIDE DEF m, q, best
<1>4. QED
  BY <1>1, <1>2, <1>3 DEF m, q, best

-----------------------------------------------------------------------------
(* Fair trades *)

\* What is still to be met on the other side has no better price than what was
\* traded.
PricesBehind ==
  taker # NoOrder =>
    \A i \in DOMAIN trades : \A r \in Resting :
      r.side = Opposite(taker.side) => NotWorse(r.side, trades[i].price, r.price)

FairInv == TradesAreFair /\ PricesBehind

LEMMA NotWorseReflexive ==
  ASSUME NEW side, NEW p \in Nat
  PROVE  NotWorse(side, p, p)
BY DEF NotWorse

\* An iteration that trades takes the best price there is.
LEMMA MatchBestFair == ASSUME EngineInv, FairInv, MatchBest PROVE FairInv'
<1> DEFINE best == Opponent[1]
           n == Len(trades)
           new == [maker |-> best, taker |-> taker, price |-> best.price,
                   qty |-> MinQty(taker.qty, best.qty)]
<1>1. /\ Matching /\ ~OwnBest /\ Crosses
      /\ trades' = Append(trades, new)
      /\ taker' = [taker EXCEPT !.qty = @ - MinQty(taker.qty, best.qty)]
  BY DEF MatchBest
<1>2. /\ taker \in Order /\ best \in Order /\ best \in Resting
      /\ best.side = Opposite(taker.side)
      /\ \A r \in Resting : r.side = best.side /\ r # best =>
           NotWorse(best.side, best.price, r.price)
  BY <1>1, BestOpponent DEF Opponent
<1>3. taker # NoOrder /\ best.price \in Nat /\ taker'.side = taker.side
  BY <1>1, <1>2 DEF Matching, Order
<1>4. trades \in Seq(Trade) /\ n \in Nat
  BY DEF EngineInv, TypeOK
<1>5. /\ DOMAIN trades = 1..n /\ DOMAIN trades' = 1..(n + 1)
      /\ \A i \in 1..n : trades'[i] = trades[i]
      /\ trades'[n + 1] = new
  <2> HIDE DEF new
  <2>1. QED
    BY <1>1, <1>4
<1>6. new.maker = best /\ new.taker = taker /\ new.price = best.price
  OBVIOUS
<1>7. \A i \in 1..n : NotWorse(best.side, trades[i].price, best.price)
  BY <1>2, <1>3, <1>5 DEF FairInv, PricesBehind
<1>8. best.user # taker.user /\ Accepts(taker, best)
  BY <1>1 DEF OwnBest, Crosses
<1> HIDE DEF new, best, n
<1>9. ASSUME NEW i \in 1..(n + 1)
      PROVE  /\ trades'[i].maker.user # trades'[i].taker.user
             /\ Accepts(trades'[i].taker, trades'[i].maker)
             /\ \A j \in 1..i :
                  NotWorse(trades'[i].maker.side, trades'[j].price, trades'[i].price)
  <2>1. CASE i \in 1..n
    <3>1. \A j \in 1..i : j \in 1..n
      BY <1>4, <2>1 DEF n
    <3>2. QED
      BY <1>5, <2>1, <3>1 DEF FairInv, TradesAreFair
  <2>2. CASE i = n + 1
    <3>1. trades'[i] = new
      BY <1>5, <2>2
    <3>2. \A j \in 1..i : j \in 1..n \/ j = n + 1
      BY <1>4, <2>2 DEF n
    <3>3. \A j \in 1..i : NotWorse(best.side, trades'[j].price, best.price)
      BY <1>3, <1>5, <1>6, <1>7, <3>2, NotWorseReflexive
    <3>4. QED
      BY <1>6, <1>8, <3>1, <3>3
  <2>3. QED
    BY <1>4, <2>1, <2>2 DEF n
<1>10. TradesAreFair'
  BY <1>5, <1>9 DEF TradesAreFair
<1>11. PricesBehind'
  <2> SUFFICES ASSUME NEW i \in 1..(n + 1), NEW r \in Resting',
                      r.side = Opposite(taker.side)
               PROVE  NotWorse(r.side, trades'[i].price, r.price)
    BY <1>3, <1>5 DEF PricesBehind
  <2>1. PICK p \in Resting : p.side = r.side /\ p.price = r.price
    BY RestingAfterTrade
  <2>2. CASE i \in 1..n
    BY <1>3, <1>5, <2>1, <2>2 DEF FairInv, PricesBehind
  <2>3. CASE i = n + 1
    <3>1. trades'[i].price = best.price
      BY <1>5, <1>6, <2>3
    <3>2. CASE p = best
      BY <1>3, <2>1, <3>1, <3>2, NotWorseReflexive
    <3>3. CASE p # best
      BY <1>2, <2>1, <3>1, <3>3
    <3>4. QED
      BY <3>2, <3>3
  <2>4. QED
    BY <1>4, <2>2, <2>3 DEF n
<1>12. QED
  BY <1>10, <1>11 DEF FairInv

LEMMA FairStep == EngineInv /\ FairInv /\ [Next]_vars => FairInv'
<1> SUFFICES ASSUME EngineInv, FairInv, [Next]_vars PROVE FairInv'
  OBVIOUS
<1>1. CASE Submit
  <2>1. trades' = <<>>
    BY <1>1 DEF Submit
  <2>2. QED
    BY <2>1 DEF FairInv, TradesAreFair, PricesBehind
<1>2. CASE MatchBest
  BY <1>2, MatchBestFair
<1>3. CASE CancelNewest
  <2>1. /\ taker # NoOrder /\ taker' = [taker EXCEPT !.qty = 0]
        /\ trades' = trades /\ Resting' = Resting
    BY <1>3 DEF CancelNewest, Matching, Resting, InBook, Elems
  <2>2. taker'.side = taker.side
    BY <2>1, TakerType DEF Order
  <2>3. QED
    BY <2>1, <2>2 DEF FairInv, TradesAreFair, PricesBehind
<1>4. CASE Return
  BY <1>4 DEF Return, FairInv, TradesAreFair, PricesBehind
<1>5. CASE Cancel
  BY <1>5 DEF Cancel, FairInv, TradesAreFair, PricesBehind
<1>6. CASE Handover \/ HandoverFails
  BY <1>6 DEF Handover, HandoverFails, LeaderChanges, FairInv, TradesAreFair, PricesBehind
<1>7. CASE RestoreOrder
  <2>1. taker' = taker /\ trades' = trades /\ Resting' = Resting
    BY <1>7, RestoreOrderEffect DEF RestoreOrder
  <2>2. QED
    BY <2>1 DEF FairInv, TradesAreFair, PricesBehind
<1>8. CASE UNCHANGED vars
  BY <1>8 DEF vars, FairInv, TradesAreFair, PricesBehind, Resting, InBook, Elems
<1>9. QED
  BY <1>1, <1>2, <1>3, <1>4, <1>5, <1>6, <1>7, <1>8 DEF Next

\* The trades of a call of Process are between two users, within both limits, and get
\* no better for the taker as the call goes on (matchBuyOrder, matchSellOrder).
THEOREM TradesFair == Spec => []TradesAreFair
<1>1. Init => FairInv
  BY DEF Init, FairInv, TradesAreFair, PricesBehind
<1>2. FairInv => TradesAreFair
  BY DEF FairInv
<1>3. QED
  BY <1>1, <1>2, FairStep, EngineInvariant, PTL DEF Spec

-----------------------------------------------------------------------------
(* Conservation *)

Balanced(id, q) == placed[id] = filled[id] + dropped[id] + q

\* Without CHOOSE: an open order has what was neither traded nor given up, one that is
\* not open has nothing left, and ids to come have not traded.
Conserved ==
  /\ \A id \in 1..Len(placed) :
       /\ \A o \in Open : o.id = id => Balanced(id, o.qty)
       /\ (\A o \in Open : o.id # id) => Balanced(id, 0)
  /\ \A id \in Ids : id > Len(placed) => filled[id] = 0 /\ dropped[id] = 0

\* The orders that are open while one is being matched, and while none is.
LEMMA OpenOrders ==
  ASSUME EngineInv
  PROVE  /\ taker # NoOrder => Open = Active \cup {taker}
         /\ taker = NoOrder => Open = Active
         /\ \A o \in Open : o.qty \in Nat /\ o.id \in 1..Len(placed)
         /\ \A o, p \in Open : o.id = p.id => o = p
         /\ Len(placed) \in Nat /\ placed \in Seq(1..MaxQty)
         /\ \A id \in 1..Len(placed) : id \in Ids
         /\ filled \in [Ids -> Nat] /\ dropped \in [Ids -> Nat]
<1>1. /\ Active \subseteq Order /\ \A o \in Active : o.id \in 1..Len(placed)
      /\ Len(placed) \in Nat /\ Len(placed) <= MaxOrders
  BY RestingType
<1>2. taker # NoOrder => taker \in Order /\ taker.id \in 1..Len(placed)
  <2>1. taker # NoOrder => taker \in Order /\ taker.id = Len(placed)
    BY TakerType
  <2>2. QED
    BY <1>1, <2>1 DEF Order
<1>3. taker # NoOrder => Open = Active \cup {taker}
  BY DEF Open
<1>4. taker = NoOrder => Open = Active
  BY DEF Open
<1>5. Open \subseteq Order /\ \A o \in Open : o.id \in 1..Len(placed)
  BY <1>1, <1>2, <1>3, <1>4
<1>6. \A o \in Open : o.qty \in Nat
  BY <1>5 DEF Order
<1>7. \A id \in 1..Len(placed) : id \in Ids
  BY <1>1, MaxOrdersAssumption DEF Ids
<1>8. filled \in [Ids -> Nat] /\ dropped \in [Ids -> Nat] /\ placed \in Seq(1..MaxQty)
  BY DEF EngineInv, TypeOK
<1>9. \A o, p \in Open : o.id = p.id => o = p
  <2>1. taker # NoOrder => \A o \in Active : o.id # taker.id
    BY <1>1, TakerType DEF Order
  <2>2. \A o, p \in Active : o.id = p.id => o = p
    BY DEF EngineInv, OpenIds
  <2>3. QED
    BY <1>3, <1>4, <2>1, <2>2
<1>10. QED
  BY <1>1, <1>3, <1>4, <1>5, <1>6, <1>7, <1>8, <1>9

LEMMA ConservedQuantity ==
  ASSUME EngineInv, Conserved
  PROVE  QuantityConserved
<1> SUFFICES ASSUME NEW id \in DOMAIN placed
             PROVE  Balanced(id, IF \E o \in Open : o.id = id
                                 THEN (CHOOSE o \in Open : o.id = id).qty ELSE 0)
  BY DEF QuantityConserved, Balanced
<1>1. id \in 1..Len(placed)
  BY OpenOrders
<1>2. CASE \E o \in Open : o.id = id
  <2> DEFINE c == CHOOSE o \in Open : o.id = id
  <2>1. c \in Open /\ c.id = id
    BY <1>2
  <2> HIDE DEF c
  <2>2. Balanced(id, c.qty)
    BY <1>1, <2>1 DEF Conserved
  <2>3. QED
    BY <1>2, <2>2 DEF c
<1>3. CASE \A o \in Open : o.id # id
  BY <1>1, <1>3 DEF Conserved
<1>4. QED
  BY <1>2, <1>3

\* A step after which the same orders are open, each with its quantity.
LEMMA SameOpen ==
  ASSUME Conserved, Open' = Open, placed' = placed, filled' = filled, dropped' = dropped
  PROVE  Conserved'
BY DEF Conserved, Balanced

LEMMA SubmitConserves == ASSUME EngineInv, Conserved, Submit PROVE Conserved'
<1> DEFINE n == Len(placed)
<1>1. PICK o \in NewOrder(n + 1) \cup NewMarketOrder(n + 1) :
        taker' = o /\ placed' = Append(placed, o.qty)
  BY DEF Submit
<1>2. /\ filled' = filled /\ dropped' = dropped /\ Active' = Active
      /\ taker = NoOrder /\ n < MaxOrders
  BY DEF Submit, Active, Resting, InBook, Elems
<1>3. /\ n \in Nat /\ placed \in Seq(1..MaxQty) /\ Open = Active
      /\ \A p \in Open : p.id \in 1..n
  BY <1>2, OpenOrders
<1>4. o \in Order /\ o.id = n + 1 /\ o.qty \in 1..MaxQty /\ o.qty \in Nat
  <2>1. o \in Order /\ o.id = n + 1 /\ o.qty \in 1..MaxQty
    BY <1>1, <1>3, NewOrderType
  <2>2. QED
    BY <2>1 DEF Order
<1>5. /\ Len(placed') = n + 1 /\ placed'[n + 1] = o.qty
      /\ \A id \in 1..n : placed'[id] = placed[id]
  BY <1>1, <1>3, <1>4
<1>6. Open' = Open \cup {o}
  BY <1>1, <1>2, <1>3, <1>4, NoOrderAssumption DEF Open
<1>7. n + 1 \in Ids
  BY <1>2, <1>3, MaxOrdersAssumption DEF Ids
<1>8. filled[n + 1] = 0 /\ dropped[n + 1] = 0
  BY <1>3, <1>7 DEF Conserved
<1> HIDE DEF n
<1>9. ASSUME NEW id \in 1..(n + 1)
      PROVE  /\ \A p \in Open' : p.id = id => Balanced(id, p.qty)'
             /\ (\A p \in Open' : p.id # id) => Balanced(id, 0)'
  <2>1. CASE id \in 1..n
    <3>1. o.id # id
      BY <1>3, <1>4, <2>1
    <3>2. QED
      BY <1>2, <1>5, <1>6, <2>1, <3>1 DEF Conserved, Balanced, n
  <2>2. CASE id = n + 1
    <3>1. \A p \in Open : p.id # id
      BY <1>3, <2>2
    <3>2. Balanced(id, o.qty)'
      BY <1>2, <1>4, <1>5, <1>8, <2>2 DEF Balanced
    <3>3. QED
      BY <1>4, <1>6, <2>2, <3>1, <3>2
  <2>3. QED
    BY <1>3, <2>1, <2>2
<1>10. \A id \in Ids : id > n + 1 => filled'[id] = 0 /\ dropped'[id] = 0
  BY <1>2, <1>3 DEF Conserved, Ids, n
<1>11. QED
  BY <1>5, <1>9, <1>10 DEF Conserved

\* Both parties to a trade have q less left and q more traded; no third order changes.
LEMMA MatchBestConserves == ASSUME EngineInv, Conserved, MatchBest PROVE Conserved'
<1> DEFINE best == Opponent[1]
           q == MinQty(taker.qty, best.qty)
           n == Len(placed)
<1>1. /\ taker # NoOrder /\ placed' = placed /\ dropped' = dropped
      /\ taker' = [taker EXCEPT !.qty = @ - q]
      /\ filled' = [filled EXCEPT ![best.id] = @ + q, ![taker.id] = @ + q]
  BY DEF MatchBest, Matching
<1>2. /\ best \in Active /\ best \in Order
      /\ q \in Nat /\ q <= best.qty /\ q <= taker.qty
      /\ \A p \in Active : p # best => p \in Active'
      /\ best.qty # q => \E r \in Active' : r.id = best.id
      /\ \A r \in Active' :
           \/ r \in Active /\ r # best
           \/ best.qty # q /\ r.qty = best.qty - q /\ r.id = best.id
  <2>1. stranded' = stranded
    BY DEF MatchBest
  <2>2. best \in Resting /\ best \notin stranded
    BY RestingAfterTrade DEF EngineInv, OpenIds
  <2>3. QED
    BY <2>1, <2>2, RestingAfterTrade DEF Active
<1>3. /\ taker \in Order /\ taker.id \in Ids /\ taker.qty \in Nat /\ taker.id = n
      /\ \A p \in Active : p.id < taker.id
  BY <1>1, TakerType
<1>4. /\ Open = Active \cup {taker} /\ n \in Nat
      /\ filled \in [Ids -> Nat] /\ dropped \in [Ids -> Nat]
      /\ \A id \in 1..n : id \in Ids
      /\ \A o \in Open : o.qty \in Nat /\ o.id \in 1..n
      /\ placed \in Seq(1..MaxQty)
  BY <1>1, OpenOrders
<1>5. taker' \in Order /\ taker'.id = taker.id /\ taker'.qty = taker.qty - q
  <2> HIDE DEF q
  <2>1. QED
    BY <1>1, <1>2, <1>3, ReducedOrder
<1>6. Open' = Active' \cup {taker'}
  BY <1>5, NoOrderAssumption DEF Open
<1>7. /\ best.id \in 1..n /\ taker.id \in 1..n /\ best.id # taker.id
      /\ best.id \in Ids /\ best.qty \in Nat
  BY <1>2, <1>3, <1>4
<1>8. \A p \in Active : p.id = best.id => p = best
  BY <1>2 DEF EngineInv, OpenIds
<1> HIDE DEF best, q, n
<1>9. /\ filled'[best.id] = filled[best.id] + q
      /\ filled'[taker.id] = filled[taker.id] + q
      /\ \A id \in Ids : id # best.id /\ id # taker.id => filled'[id] = filled[id]
  BY <1>1, <1>3, <1>4, <1>7
<1> DEFINE After(id, left) == placed'[id] = filled'[id] + dropped'[id] + left
<1>10. ASSUME NEW id \in 1..n, filled'[id] = filled[id] + q,
              NEW left \in Nat, q <= left, Balanced(id, left)
       PROVE  After(id, left - q)
  <2>1. filled[id] \in Nat /\ dropped[id] \in Nat /\ q \in Nat
    BY <1>2, <1>4
  <2>2. filled[id] + dropped[id] + left = (filled[id] + q) + dropped[id] + (left - q)
    BY <1>10, <2>1
  <2>3. QED
    BY <1>1, <1>10, <2>2 DEF Balanced
<1>11. ASSUME NEW id \in 1..n
       PROVE  /\ \A o \in Open' : o.id = id => After(id, o.qty)
              /\ (\A o \in Open' : o.id # id) => After(id, 0)
  <2>1. CASE id = taker.id
    <3>1. Balanced(id, taker.qty)
      BY <1>4, <2>1 DEF Conserved, n
    <3>2. After(id, taker'.qty)
      BY <1>2, <1>3, <1>5, <1>9, <1>10, <2>1, <3>1
    <3>3. \A o \in Active' : o.id # id
      <4>1. \A o \in Active' : \E p \in Active : o.id = p.id
        BY <1>2
      <4>2. \A p \in Active : p.id # id
        BY <1>3, <1>4, <2>1
      <4>3. QED
        BY <4>1, <4>2
    <3>4. QED
      BY <1>5, <1>6, <2>1, <3>2, <3>3
  <2>2. CASE id = best.id
    <3>1. Balanced(id, best.qty)
      BY <1>2, <1>4, <2>2 DEF Conserved, n
    <3>2. After(id, best.qty - q)
      BY <1>2, <1>7, <1>9, <1>10, <2>2, <3>1
    <3>3. \A o \in Open' : o.id = id => o.qty = best.qty - q
      BY <1>2, <1>5, <1>6, <1>7, <1>8, <2>2
    <3>4. ASSUME \A o \in Open' : o.id # id
          PROVE  best.qty - q = 0
      <4>1. best.qty = q
        BY <1>2, <1>6, <2>2, <3>4
      <4>2. QED
        BY <1>2, <4>1
    <3>5. QED
      BY <3>2, <3>3, <3>4
  <2>3. CASE id # taker.id /\ id # best.id
    <3>1. filled'[id] = filled[id]
      BY <1>4, <1>9, <2>3
    <3>2. \A o \in Open' : o.id = id => o \in Open
      BY <1>2, <1>4, <1>5, <1>6, <2>3
    <3>3. \A o \in Open : o.id = id => o \in Open'
      BY <1>2, <1>4, <1>6, <2>3
    <3>4. QED
      BY <1>1, <3>1, <3>2, <3>3 DEF Conserved, Balanced, n
  <2>4. QED
    BY <2>1, <2>2, <2>3
<1>12. \A id \in Ids : id > n => filled'[id] = 0 /\ dropped'[id] = 0
  BY <1>1, <1>3, <1>4, <1>7, <1>9 DEF Conserved, Ids, n
<1>13. QED
  BY <1>1, <1>11, <1>12 DEF Conserved, Balanced, n

\* What order m has left is given up: m is no longer open, or has nothing left.
LEMMA GivenUpConserves ==
  ASSUME EngineInv, Conserved, NEW m \in Open,
         placed' = placed, filled' = filled,
         dropped' = [dropped EXCEPT ![m.id] = @ + m.qty],
         \A o \in Open : o # m => o \in Open',
         \A o \in Open' : (o \in Open /\ o # m) \/ (o.id = m.id /\ o.qty = 0)
  PROVE  Conserved'
<1> DEFINE n == Len(placed)
<1>1. /\ n \in Nat /\ m.qty \in Nat /\ m.id \in 1..n
      /\ filled \in [Ids -> Nat] /\ dropped \in [Ids -> Nat]
      /\ \A id \in 1..n : id \in Ids
      /\ \A o \in Open : o.id = m.id => o = m
  BY OpenOrders
<1> HIDE DEF n
<1>2. /\ dropped'[m.id] = dropped[m.id] + m.qty
      /\ \A id \in Ids : id # m.id => dropped'[id] = dropped[id]
  BY <1>1
<1>3. ASSUME NEW id \in 1..n
      PROVE  /\ \A o \in Open' : o.id = id => Balanced(id, o.qty)'
             /\ (\A o \in Open' : o.id # id) => Balanced(id, 0)'
  <2>1. CASE id = m.id
    <3>1. Balanced(id, m.qty)
      BY <2>1, <1>3 DEF Conserved, n
    <3>2. filled[id] \in Nat /\ dropped[id] \in Nat
      BY <1>1
    <3>3. placed[id] = filled[id] + (dropped[id] + m.qty) + 0
      BY <1>1, <3>1, <3>2 DEF Balanced
    <3>4. Balanced(id, 0)'
      BY <1>2, <2>1, <3>3 DEF Balanced
    <3>5. \A o \in Open' : o.id = id => o.qty = 0
      BY <1>1, <2>1
    <3>6. QED
      BY <3>4, <3>5
  <2>2. CASE id # m.id
    <3>1. dropped'[id] = dropped[id]
      BY <1>1, <1>2, <2>2
    <3>2. \A o \in Open' : o.id = id => o \in Open
      BY <2>2
    <3>3. \A o \in Open : o.id = id => o \in Open'
      BY <2>2
    <3>4. QED
      BY <3>1, <3>2, <3>3 DEF Conserved, Balanced, n
  <2>3. QED
    BY <2>1, <2>2
<1>4. \A id \in Ids : id > n => filled'[id] = 0 /\ dropped'[id] = 0
  BY <1>1, <1>2 DEF Conserved, Ids, n
<1>5. QED
  BY <1>3, <1>4 DEF Conserved, n

LEMMA CancelNewestConserves == ASSUME EngineInv, Conserved, CancelNewest PROVE Conserved'
<1>1. /\ taker # NoOrder /\ taker' = [taker EXCEPT !.qty = 0]
      /\ placed' = placed /\ filled' = filled /\ Active' = Active
      /\ dropped' = [dropped EXCEPT ![taker.id] = @ + taker.qty]
  BY DEF CancelNewest, Matching, Active, Resting, InBook, Elems
<1>2. taker \in Order /\ \A p \in Active : p # taker
  BY <1>1, TakerType DEF Order
<1>3. taker' \in Order /\ taker'.id = taker.id /\ taker'.qty = 0
  BY <1>1, <1>2 DEF Order
<1>4. Open' = Active \cup {taker'}
  BY <1>1, <1>3, NoOrderAssumption DEF Open
<1>5. Open = Active \cup {taker}
  BY <1>1, OpenOrders
<1>6. QED
  BY <1>1, <1>2, <1>3, <1>4, <1>5, GivenUpConserves

LEMMA ReturnConserves == ASSUME EngineInv, Conserved, Return PROVE Conserved'
<1>1. /\ taker # NoOrder /\ taker' = NoOrder /\ placed' = placed /\ filled' = filled
      /\ dropped' = IF Rests THEN dropped
                    ELSE [dropped EXCEPT ![taker.id] = @ + taker.qty]
  BY DEF Return, LoopEnds
<1>2. /\ Rests => Active' = Active \cup {taker}
      /\ ~Rests => Active' = Active
  BY ReturnEffect DEF Return, Active
<1>3. Open = Active \cup {taker} /\ Open' = Active'
  BY <1>1, OpenOrders DEF Open
<1>4. taker \in Order /\ \A p \in Active : p # taker
  BY <1>1, TakerType DEF Order
<1>5. CASE Rests
  BY <1>1, <1>2, <1>3, <1>5, SameOpen
<1>6. CASE ~Rests
  BY <1>1, <1>2, <1>3, <1>4, <1>6, GivenUpConserves
<1>7. QED
  BY <1>5, <1>6

LEMMA CancelConserves == ASSUME EngineInv, Conserved, Cancel PROVE Conserved'
<1>1. taker' = taker /\ taker = NoOrder /\ placed' = placed /\ filled' = filled
  BY DEF Cancel
<1>2. PICK m \in Active : /\ Active' = Active \ {m}
                          /\ dropped' = [dropped EXCEPT ![m.id] = @ + m.qty]
  <2>1. PICK m \in Resting : /\ Resting' = Resting \ {m}
                             /\ dropped' = [dropped EXCEPT ![m.id] = @ + m.qty]
    BY CancelEffect
  <2>2. m \notin stranded /\ stranded' = stranded
    BY DEF Cancel, EngineInv, OpenIds
  <2>3. QED
    BY <2>1, <2>2 DEF Active
<1>3. Open = Active /\ Open' = Active'
  BY <1>1 DEF Open
<1>4. QED
  BY <1>1, <1>2, <1>3, GivenUpConserves

LEMMA ConservedStep == EngineInv /\ Conserved /\ [Next]_vars => Conserved'
<1> SUFFICES ASSUME EngineInv, Conserved, [Next]_vars PROVE Conserved'
  OBVIOUS
<1>1. CASE Submit
  BY <1>1, SubmitConserves
<1>2. CASE MatchBest
  BY <1>2, MatchBestConserves
<1>3. CASE CancelNewest
  BY <1>3, CancelNewestConserves
<1>4. CASE Return
  BY <1>4, ReturnConserves
<1>5. CASE Cancel
  BY <1>5, CancelConserves
<1>6. CASE Handover
  <2>1. /\ taker' = taker /\ placed' = placed /\ filled' = filled /\ dropped' = dropped
        /\ Active' = Active
    BY <1>6, HandoverEffect DEF Handover
  <2>2. QED
    BY <2>1, SameOpen DEF Open
<1>7. CASE RestoreOrder
  <2>1. /\ taker' = taker /\ placed' = placed /\ filled' = filled /\ dropped' = dropped
        /\ Active' = Active
    BY <1>7, RestoreOrderEffect DEF RestoreOrder, history, Active
  <2>2. QED
    BY <2>1, SameOpen DEF Open
<1>8. CASE HandoverFails
  <2>1. /\ taker' = taker /\ placed' = placed /\ filled' = filled /\ dropped' = dropped
        /\ Active' = Active
    BY <1>8, HandoverFailsEffect DEF HandoverFails
  <2>2. QED
    BY <2>1, SameOpen DEF Open
<1>9. CASE UNCHANGED vars
  <2>1. Open' = Open
    BY <1>9 DEF vars, history, Open, Active, Resting, InBook, Elems
  <2>2. QED
    BY <1>9, <2>1, SameOpen DEF vars, history
<1>10. QED
  BY <1>1, <1>2, <1>3, <1>4, <1>5, <1>6, <1>7, <1>8, <1>9 DEF Next

\* Quantity is neither lost nor invented: not by a fill or a removal of the best order,
\* by the self-trade prevention, a cancellation, or the rebuild of the book
\* (engine.go, orderbook.go).
THEOREM QuantityKept == Spec => []QuantityConserved
<1>1. Init => Conserved
  BY DEF Init, Conserved, Ids
<1>2. EngineInv /\ Conserved => QuantityConserved
  BY ConservedQuantity
<1>3. QED
  BY <1>1, <1>2, ConservedStep, EngineInvariant, PTL DEF Spec
=============================================================================
