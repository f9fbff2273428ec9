---------------------------- MODULE ExchangeProofs ----------------------------
(***************************************************************************)
(* Proofs about Exchange, for every set of users, every set of requests and   *)
(* every bound on the orders: what the database says of an order agrees with  *)
(* the trades and with the engine. The inductive invariant is ExchangeInv.     *)
(***************************************************************************)
EXTENDS Exchange, SumTheorems

-----------------------------------------------------------------------------
(* The inductive invariant *)

Ids == Nat \ {0}
Command == [kind : {"placed", "cancel"}, id : Ids]
Fill == [maker : Ids, price : Nat, qty : Ids]
TradesEvent == [kind : {"trades"}, id : Ids, remaining : Nat, trades : Seq(Fill)]
CanceledEvent == [kind : {"canceled"}, id : Ids]
Event == TradesEvent \cup CanceledEvent
Row == [taker : Ids, k : Ids, maker : Ids, price : Nat, qty : Ids]

IsTrades(ev) == ev.kind = "trades"

\* The trades an event will record.
Rows(ev) == IF IsTrades(ev) THEN {TradeRow(ev, k) : k \in DOMAIN ev.trades} ELSE {}
RowsOf(s) == UNION {Rows(s[k]) : k \in DOMAIN s}

\* The trades of the order that is being matched.
Current == IF taker = NoOrder THEN {} ELSE Rows(SettlementRequested)

\* Every trade that was made, wherever its record is on its way to the table.
Reported == tradeTable \cup RowsOf(settlements)
AllRows == Reported \cup Current

Mentioning(R, i) == {t \in R : i \in {t.maker, t.taker}}
QtyOf(R, i) == SumFunction([t \in Mentioning(R, i) |-> t.qty])

\* The orders on their way to the engine, in its book, and in its hands.
WaitingIds == {topic[k].id : k \in {j \in DOMAIN topic : topic[j].kind = "placed"}}
RestingIds == {o.id : o \in resting}
TakerIds == IF taker = NoOrder THEN {} ELSE {taker.id}
LiveIds == WaitingIds \cup RestingIds \cup TakerIds

\* Also those whose trades the engine has not reported yet.
BusyIds == LiveIds \cup {t.maker : t \in Current}

MakersOf(R) == {t.maker : t \in R}
Mentions(ev) == {ev.id} \cup MakersOf(Rows(ev))

\* The event after which the taker is complete.
Closing(ev) == IsTrades(ev) /\ (ev.remaining = 0 \/ orders[ev.id].type = "MARKET")

Typed ==
  /\ orders \in Seq(OrderRow)
  /\ \A i \in DOMAIN orders : orders[i].qty > 0
  /\ asked \subseteq DOMAIN orders
  /\ topic \in Seq(Command)
  /\ settlements \in Seq(Event)
  /\ resting \subseteq Order /\ IsFiniteSet(resting)
  /\ taker \in Order \cup {NoOrder}
  /\ trades \in Seq(Trade)
  /\ \A s \in snapshots : s \subseteq Order /\ IsFiniteSet(s)
  /\ AllRows \subseteq Row /\ IsFiniteSet(AllRows)

\* An order is sent to the engine once.
Placing ==
  /\ \A i \in WaitingIds : i \in DOMAIN orders /\ orders[i].status = "NEW"
  /\ \A j, k \in DOMAIN topic :
       topic[j].kind = "placed" /\ topic[k].kind = "placed" /\ topic[j].id = topic[k].id
         => j = k

\* The engine's order o is its row of orders, but for the quantity.
OfRow(o) ==
  /\ o.id \in DOMAIN orders
  /\ o.id \notin WaitingIds
  /\ o.user = orders[o.id].user
  /\ o.side = orders[o.id].side
  /\ o.type = orders[o.id].type
  /\ o.price = orders[o.id].price

InBook ==
  /\ \A o \in resting : OfRow(o) /\ o.type = "LIMIT" /\ o.qty > 0 /\ o.id \notin TakerIds
  /\ \A o, p \in resting : o.id = p.id => o = p
  /\ taker # NoOrder => OfRow(taker) /\ orders[taker.id].status = "NEW"

\* A trade is between two users, on opposite sides, at the price of the maker.
RowOK(t) ==
  /\ t.maker \in DOMAIN orders \ WaitingIds
  /\ t.taker \in DOMAIN orders \ WaitingIds
  /\ orders[t.maker].user # orders[t.taker].user
  /\ orders[t.maker].side # orders[t.taker].side
  /\ orders[t.maker].type = "LIMIT"
  /\ t.price = orders[t.maker].price

Trades ==
  /\ \A t \in AllRows : RowOK(t)
  /\ \A t \in Reported : t.maker \notin TakerIds /\ t.taker \notin TakerIds

\* What the engine has left of an order and what has been traded make up the
\* order.
Quantities ==
  /\ \A o \in resting : o.qty + QtyOf(AllRows, o.id) = orders[o.id].qty
  /\ taker # NoOrder =>
       /\ taker.qty + QtyOf(AllRows, taker.id) <= orders[taker.id].qty
       /\ taker.qty > 0 => taker.qty + QtyOf(AllRows, taker.id) = orders[taker.id].qty
  /\ \A i \in DOMAIN orders : QtyOf(AllRows, i) <= orders[i].qty

LeftOver(ev) ==
  /\ ev.remaining + QtyOf(Rows(ev), ev.id) <= orders[ev.id].qty
  /\ ev.remaining > 0 => ev.remaining + QtyOf(Rows(ev), ev.id) = orders[ev.id].qty

\* The event of a taker comes before all others that mention the order, the
\* event of its cancellation after them; after the event that completes it
\* there is none.
Reports ==
  /\ \A j, k \in DOMAIN settlements : j < k =>
       /\ IsTrades(settlements[k]) => settlements[k].id \notin Mentions(settlements[j])
       /\ ~IsTrades(settlements[j]) => settlements[j].id \notin Mentions(settlements[k])
  /\ \A k \in DOMAIN settlements :
       Mentions(settlements[k]) \subseteq DOMAIN orders \ (TakerIds \cup WaitingIds)
  /\ \A k \in DOMAIN settlements : ~IsTrades(settlements[k]) =>
       settlements[k].id \notin BusyIds /\ orders[settlements[k].id].type = "LIMIT"
  /\ \A k \in DOMAIN settlements : Closing(settlements[k]) =>
       settlements[k].id \notin BusyIds \cup MakersOf(AllRows)
  /\ \A k \in DOMAIN settlements : IsTrades(settlements[k]) => LeftOver(settlements[k])

\* A redelivered event has been applied completely.
Applied ==
  /\ \A k \in DOMAIN settlements :
       LET ev == settlements[k] IN
       IsTrades(ev) /\ orders[ev.id].status # "NEW" =>
         /\ k = 1
         /\ Rows(ev) \subseteq tradeTable
         /\ Closing(ev) => ~IsOpen(ev.id)
  /\ \A t \in tradeTable : orders[t.maker].status # "NEW" /\ orders[t.taker].status # "NEW"

\* The event that will close order i is on its way.
ClosingReported(i) ==
  \E k \in DOMAIN settlements :
    /\ settlements[k].id = i
    /\ ~IsTrades(settlements[k]) \/ Closing(settlements[k])

Table ==
  /\ \A i \in DOMAIN orders : orders[i].filled = QtyOf(tradeTable, i)
  /\ \A i \in DOMAIN orders : ~IsOpen(i) =>
       i \notin BusyIds /\ Mentioning(AllRows, i) \subseteq tradeTable
  /\ \A i \in DOMAIN orders : IsOpen(i) => orders[i].filled < orders[i].qty
  /\ \A i \in DOMAIN orders : IsOpen(i) /\ i \notin LiveIds =>
       QtyOf(AllRows, i) = orders[i].qty \/ ClosingReported(i)

ExchangeInv ==
  Typed /\ Placing /\ InBook /\ Trades /\ Quantities /\ Reports /\ Applied /\ Table

-----------------------------------------------------------------------------
(* The quantities of sets of trades *)

\* The quantity traded is a natural number.
LEMMA QtyIsNat ==
  ASSUME NEW R, R \subseteq Row, IsFiniteSet(R), NEW i
  PROVE  QtyOf(R, i) \in Nat
<1> DEFINE f == [t \in Mentioning(R, i) |-> t.qty]
<1>1. IsFiniteSet(Mentioning(R, i)) /\ Mentioning(R, i) \subseteq R
  BY FS_Subset DEF Mentioning
<1>2. \A t \in Mentioning(R, i) : f[t] \in Nat
  BY <1>1 DEF Row, Ids
<1>3. QED
  BY <1>1, <1>2, SumNat DEF QtyOf, SumFunction

\* The quantity only depends on the trades that mention the order.
LEMMA QtySame ==
  ASSUME NEW R, NEW S, NEW i, Mentioning(R, i) = Mentioning(S, i)
  PROVE  QtyOf(R, i) = QtyOf(S, i)
BY DEF QtyOf

\* A new trade adds its quantity to its two orders.
LEMMA QtyAdd ==
  ASSUME NEW R, R \subseteq Row, IsFiniteSet(R), NEW r \in Row, r \notin R, NEW i
  PROVE  QtyOf(R \cup {r}, i) = QtyOf(R, i) + IF i \in {r.maker, r.taker} THEN r.qty ELSE 0
<1> DEFINE M == Mentioning(R, i)
           N == Mentioning(R \cup {r}, i)
           f == [t \in M |-> t.qty]
           g == [t \in N |-> t.qty]
<1>1. IsFiniteSet(M) /\ M \subseteq R /\ r \notin M
  BY FS_Subset DEF Mentioning
<1>2. QtyOf(R, i) = SumFunctionOnSet(f, M) /\ QtyOf(R \cup {r}, i) = SumFunctionOnSet(g, N)
  BY DEF QtyOf, SumFunction
<1>3. QtyOf(R, i) \in Nat /\ r.qty \in Nat
  BY QtyIsNat DEF Row, Ids
<1>4. CASE i \in {r.maker, r.taker}
  <2>1. N = M \cup {r}
    BY <1>4 DEF Mentioning
  <2>2. \A t \in M \cup {r} : t.qty \in Int
    <3>1. \A t \in Row : t.qty \in Int
      BY DEF Row, Ids
    <3>2. QED
      BY <1>1, <3>1
  <2>3. \A t \in N : g[t] = t.qty
    OBVIOUS
  <2>4. \A t \in M : f[t] = t.qty
    OBVIOUS
  <2> HIDE DEF M, N, f, g
  <2>5. IntOn(g, M \cup {r}) /\ IntOn(f, M) /\ g[r] = r.qty /\ \A t \in M : g[t] = f[t]
    BY <2>1, <2>2, <2>4, <2>3 DEF IntOn
  <2>6. SumFunctionOnSet(g, M \cup {r}) = g[r] + SumFunctionOnSet(g, M)
    BY <1>1, <2>5, SumAdd
  <2>7. SumFunctionOnSet(g, M) = SumFunctionOnSet(f, M)
    BY <1>1, <2>5, SumSame
  <2>8. QED
    BY <1>2, <1>3, <1>4, <2>1, <2>5, <2>6, <2>7
<1>5. CASE i \notin {r.maker, r.taker}
  <2>1. Mentioning(R \cup {r}, i) = Mentioning(R, i)
    BY <1>5 DEF Mentioning
  <2>2. QED
    BY <1>3, <1>5, <2>1, QtySame
<1>6. QED
  BY <1>4, <1>5

\* Nothing is traded of an order that no trade mentions.
LEMMA QtyNone ==
  ASSUME NEW R, NEW i, Mentioning(R, i) = {}
  PROVE  QtyOf(R, i) = 0
BY SumEmpty DEF QtyOf, SumFunction

\* A part of the trades makes up less, unless it has all that mention the
\* order.
LEMMA QtyPart ==
  ASSUME NEW R, R \subseteq Row, IsFiniteSet(R), NEW P \in SUBSET R, NEW i
  PROVE  /\ QtyOf(P, i) <= QtyOf(R, i)
         /\ QtyOf(P, i) = QtyOf(R, i) => Mentioning(R, i) \subseteq P
<1> DEFINE M == Mentioning(P, i)
           N == Mentioning(R, i)
           f == [t \in M |-> t.qty]
           g == [t \in N |-> t.qty]
<1>1. IsFiniteSet(N) /\ M \subseteq N /\ N \subseteq R /\ IsFiniteSet(N \ M) /\ IsFiniteSet(M)
  BY FS_Subset DEF Mentioning
<1>2. QtyOf(P, i) = SumFunctionOnSet(f, M) /\ QtyOf(R, i) = SumFunctionOnSet(g, N)
  BY DEF QtyOf, SumFunction
<1>3. \A t \in N : g[t] \in Nat /\ g[t] > 0
  BY <1>1 DEF Row, Ids
<1>4. \A t \in M : f[t] = g[t]
  BY <1>1
<1>5. Mentioning(R, i) \subseteq P <=> N \ M = {}
  BY DEF Mentioning
<1> HIDE DEF M, N, f, g
<1>6. IntOn(g, N) /\ IntOn(g, M) /\ N = M \cup (N \ M) /\ M \cap (N \ M) = {}
  BY <1>1, <1>3 DEF IntOn
<1>7. SumFunctionOnSet(f, M) = SumFunctionOnSet(g, M)
  BY <1>1, <1>4, <1>6, SumSame
<1>8. SumFunctionOnSet(g, N) = SumFunctionOnSet(g, M) + SumFunctionOnSet(g, N \ M)
  BY <1>1, <1>6, SumDisjoint
<1>9. SumFunctionOnSet(g, M) \in Nat /\ SumFunctionOnSet(g, N \ M) \in Nat
  BY <1>1, <1>3, SumNat
<1>10. ASSUME NEW t \in N \ M PROVE SumFunctionOnSet(g, N \ M) > 0
  <2>1. g[t] <= SumFunctionOnSet(g, N \ M)
    BY <1>1, <1>3, SumMember
  <2>2. QED
    BY <1>3, <1>9, <2>1
<1>11. QED
  BY <1>2, <1>5, <1>7, <1>8, <1>9, <1>10

\* Trades of two disjoint sets add up.
LEMMA QtyUnion ==
  ASSUME NEW R, R \subseteq Row, IsFiniteSet(R), NEW S, S \subseteq Row, IsFiniteSet(S),
         NEW i, Mentioning(R, i) \cap Mentioning(S, i) = {}
  PROVE  QtyOf(R \cup S, i) = QtyOf(R, i) + QtyOf(S, i)
<1> DEFINE M == Mentioning(R, i)
           N == Mentioning(S, i)
           f == [t \in M |-> t.qty]
           g == [t \in N |-> t.qty]
           h == [t \in M \cup N |-> t.qty]
<1>1. IsFiniteSet(M) /\ IsFiniteSet(N) /\ M \subseteq R /\ N \subseteq S
  BY FS_Subset DEF Mentioning
<1>2. QtyOf(R, i) = SumFunctionOnSet(f, M) /\ QtyOf(S, i) = SumFunctionOnSet(g, N)
  BY DEF QtyOf, SumFunction
<1>3. QtyOf(R \cup S, i) = SumFunctionOnSet(h, M \cup N)
  <2>1. Mentioning(R \cup S, i) = M \cup N
    BY DEF Mentioning
  <2>2. QED
    BY <2>1 DEF QtyOf, SumFunction
<1>4. IntOn(h, M \cup N) /\ IntOn(h, M) /\ IntOn(h, N)
  BY <1>1 DEF IntOn, Row, Ids
<1>5. (\A t \in M : f[t] = h[t]) /\ (\A t \in N : g[t] = h[t]) /\ M \cap N = {}
  OBVIOUS
<1> HIDE DEF M, N, f, g, h
<1>6. SumFunctionOnSet(h, M \cup N) = SumFunctionOnSet(h, M) + SumFunctionOnSet(h, N)
  BY <1>1, <1>4, <1>5, SumDisjoint
<1>7. SumFunctionOnSet(f, M) = SumFunctionOnSet(h, M) /\ SumFunctionOnSet(g, N) = SumFunctionOnSet(h, N)
  BY <1>1, <1>4, <1>5, SumSame
<1>8. QED
  BY <1>2, <1>3, <1>6, <1>7

-----------------------------------------------------------------------------
(* The trades of events *)

\* What an event of a taker records, and what it adds up to for the taker and
\* for each maker.
LEMMA EventRows ==
  ASSUME NEW ev \in TradesEvent
  PROVE  /\ Rows(ev) = {TradeRow(ev, k) : k \in DOMAIN ev.trades}
         /\ Rows(ev) \subseteq Row
         /\ IsFiniteSet(Rows(ev))
         /\ \A t \in Rows(ev) : t.taker = ev.id
<1>1. Rows(ev) = {TradeRow(ev, k) : k \in DOMAIN ev.trades}
  BY DEF Rows, IsTrades, TradesEvent
<1>2. \A k \in DOMAIN ev.trades : k \in Ids /\ ev.trades[k] \in Fill /\ ev.id \in Ids
  BY DEF TradesEvent, Ids
<1>3. \A k \in DOMAIN ev.trades : TradeRow(ev, k) \in Row /\ TradeRow(ev, k).taker = ev.id
  BY <1>2 DEF TradeRow, Row, Fill
<1>4. IsFiniteSet(DOMAIN ev.trades)
  <2>1. DOMAIN ev.trades = 1..Len(ev.trades) /\ Len(ev.trades) \in Nat
    BY DEF TradesEvent
  <2>2. QED
    BY <2>1, FS_Interval
<1>5. IsFiniteSet({TradeRow(ev, k) : k \in DOMAIN ev.trades})
  <2> DEFINE b == [k \in DOMAIN ev.trades |-> TradeRow(ev, k)]
  <2>1. {TradeRow(ev, k) : k \in DOMAIN ev.trades} = {b[k] : k \in DOMAIN ev.trades}
    OBVIOUS
  <2> HIDE DEF b
  <2>2. QED
    BY <1>4, <2>1, FiniteImage
<1>6. QED
  BY <1>1, <1>3, <1>5

\* The trades of an event add up to what OrdersAfter adds to the taker and to
\* each maker.
LEMMA EventQty ==
  ASSUME NEW ev \in TradesEvent
  PROVE  /\ ev.id \notin MakersOf(Rows(ev)) => QtyOf(Rows(ev), ev.id) = Filled(ev)
         /\ \A i : i # ev.id => QtyOf(Rows(ev), i) = MakerFill(ev, i)
         /\ Filled(ev) \in Nat
         /\ \A i : MakerFill(ev, i) \in Nat
         /\ \A i : MakerFill(ev, i) > 0 <=> i \in MakersOf(Rows(ev))
<1> DEFINE K == DOMAIN ev.trades
           q == [k \in K |-> ev.trades[k].qty]
           b == [k \in K |-> TradeRow(ev, k)]
           of(i) == {k \in K : ev.trades[k].maker = i}
<1>1. K = 1..Len(ev.trades) /\ Len(ev.trades) \in Nat /\ \A k \in K : ev.trades[k] \in Fill
  BY DEF TradesEvent
<1>2. IsFiniteSet(K) /\ \A i : of(i) \in SUBSET K /\ IsFiniteSet(of(i))
  <2>1. IsFiniteSet(1..Len(ev.trades))
    BY <1>1, FS_Interval
  <2>2. QED
    BY <1>1, <2>1, FS_Subset
<1>3. \A k \in K : q[k] \in Nat /\ q[k] > 0
  BY <1>1 DEF Fill, Ids
<1>4. \A k \in K : /\ b[k] = TradeRow(ev, k) /\ b[k].qty = q[k] /\ b[k].maker = ev.trades[k].maker
                  /\ b[k].taker = ev.id /\ b[k].k = k
  BY DEF TradeRow
<1>5. Rows(ev) = {b[k] : k \in K}
  BY EventRows
<1>6. Filled(ev) = SumFunctionOnSet(q, K)
  BY DEF Filled, SumFunction
<1>7. \A i : MakerFill(ev, i) = SumFunctionOnSet(q, of(i))
  <2> SUFFICES ASSUME NEW i PROVE MakerFill(ev, i) = SumFunctionOnSet(q, of(i))
    OBVIOUS
  <2> DEFINE p == [k \in of(i) |-> ev.trades[k].qty]
  <2>1. MakerFill(ev, i) = SumFunctionOnSet(p, of(i))
    BY DEF MakerFill, SumFunction
  <2>2. \A k \in of(i) : p[k] = q[k]
    OBVIOUS
  <2>3. IntOn(q, of(i))
    BY <1>2, <1>3 DEF IntOn
  <2> HIDE DEF p, q, of
  <2>4. QED
    BY <1>2, <2>1, <2>2, <2>3, SumSame
<1> HIDE DEF q, b
<1>8. \A k, l \in K : b[k] = b[l] => k = l
  BY <1>4
\* The quantity of the trades with index in part.
<1>9. ASSUME NEW part \in SUBSET K, NEW i, Mentioning(Rows(ev), i) = {b[k] : k \in part}
      PROVE  QtyOf(Rows(ev), i) = SumFunctionOnSet(q, part)
  <2> DEFINE g == [t \in {b[k] : k \in part} |-> t.qty]
  <2>1. QtyOf(Rows(ev), i) = SumFunctionOnSet(g, {b[k] : k \in part})
    BY <1>9 DEF QtyOf, SumFunction
  <2>2. IsFiniteSet(part) /\ IntOn(q, part)
    BY <1>2, <1>3, FS_Subset DEF IntOn
  <2>3. \A k \in part : g[b[k]] = q[k]
    BY <1>4
  <2> HIDE DEF g
  <2>4. QED
    BY <1>8, <2>1, <2>2, <2>3, SumReindex
<1>10. ASSUME ev.id \notin MakersOf(Rows(ev)) PROVE QtyOf(Rows(ev), ev.id) = Filled(ev)
  <2>1. Mentioning(Rows(ev), ev.id) = {b[k] : k \in K}
    BY <1>4, <1>5 DEF Mentioning
  <2>2. QED
    BY <1>6, <1>9, <2>1
<1>11. ASSUME NEW i, i # ev.id PROVE QtyOf(Rows(ev), i) = MakerFill(ev, i)
  <2>1. Mentioning(Rows(ev), i) = {b[k] : k \in of(i)}
    BY <1>4, <1>5, <1>11 DEF Mentioning
  <2>2. QED
    BY <1>2, <1>7, <1>9, <2>1
<1>12. Filled(ev) \in Nat /\ \A i : MakerFill(ev, i) \in Nat
  <2>1. SumFunctionOnSet(q, K) \in Nat
    BY <1>2, <1>3, SumNat
  <2>2. ASSUME NEW i PROVE SumFunctionOnSet(q, of(i)) \in Nat
    BY <1>2, <1>3, SumNat
  <2>3. QED
    BY <1>6, <1>7, <2>1, <2>2
<1>13. ASSUME NEW i PROVE MakerFill(ev, i) > 0 <=> i \in MakersOf(Rows(ev))
  <2>1. i \in MakersOf(Rows(ev)) <=> of(i) # {}
    BY <1>4, <1>5 DEF MakersOf
  <2>2. CASE of(i) = {}
    BY <1>7, <2>1, <2>2, SumEmpty
  <2>3. CASE of(i) # {}
    <3> HIDE DEF of, K
    <3>1. PICK k \in of(i) : TRUE
      BY <2>3
    <3>2. \A l \in of(i) : q[l] \in Nat /\ q[l] > 0
      BY <1>2, <1>3
    <3>3. q[k] <= SumFunctionOnSet(q, of(i))
      BY <1>2, <3>1, <3>2, SumMember
    <3>4. QED
      BY <1>7, <1>12, <2>1, <2>3, <3>1, <3>2, <3>3
  <2>4. QED
    BY <2>2, <2>3
<1>14. QED
  BY <1>10, <1>11, <1>12, <1>13

\* The trades of a topic with one more event, and without its first event.
LEMMA RowsOfAppend ==
  ASSUME NEW s \in Seq(Event), NEW ev \in Event
  PROVE  RowsOf(Append(s, ev)) = RowsOf(s) \cup Rows(ev)
<1> DEFINE s2 == Append(s, ev)
<1>1. Len(s) \in Nat /\ DOMAIN s = 1..Len(s) /\ DOMAIN s2 = 1..(Len(s) + 1)
  OBVIOUS
<1>2. (\A k \in 1..Len(s) : s2[k] = s[k]) /\ s2[Len(s) + 1] = ev
  OBVIOUS
<1> HIDE DEF s2
<1>3. ASSUME NEW t \in RowsOf(s2) PROVE t \in RowsOf(s) \cup Rows(ev)
  <2>1. PICK k \in 1..(Len(s) + 1) : t \in Rows(s2[k])
    BY <1>1 DEF RowsOf
  <2>2. CASE k = Len(s) + 1
    BY <1>2, <2>1, <2>2
  <2>3. CASE k # Len(s) + 1
    <3>1. k \in 1..Len(s)
      BY <1>1, <2>3
    <3>2. QED
      BY <1>1, <1>2, <2>1, <3>1 DEF RowsOf
  <2>4. QED
    BY <2>2, <2>3
<1>4. RowsOf(s) \subseteq RowsOf(s2) /\ Rows(ev) \subseteq RowsOf(s2)
  <2>1. \A k \in 1..Len(s) : k \in DOMAIN s2
    BY <1>1
  <2>2. Len(s) + 1 \in DOMAIN s2
    BY <1>1
  <2>3. QED
    BY <1>1, <1>2, <2>1, <2>2 DEF RowsOf
<1>5. QED
  BY <1>3, <1>4 DEF s2

\* Taking the first event off the topic takes its trades.
LEMMA RowsOfTail ==
  ASSUME NEW s \in Seq(Event), s # <<>>
  PROVE  RowsOf(s) = Rows(Head(s)) \cup RowsOf(Tail(s))
<1> DEFINE s2 == Tail(s)
<1>1. Len(s) \in Nat /\ Len(s) >= 1 /\ DOMAIN s = 1..Len(s) /\ DOMAIN s2 = 1..(Len(s) - 1)
  OBVIOUS
<1>2. Head(s) = s[1] /\ \A k \in 1..(Len(s) - 1) : s2[k] = s[k + 1]
  OBVIOUS
<1> HIDE DEF s2
<1>3. ASSUME NEW t \in RowsOf(s) PROVE t \in Rows(Head(s)) \cup RowsOf(s2)
  <2>1. PICK k \in 1..Len(s) : t \in Rows(s[k])
    BY <1>1 DEF RowsOf
  <2>2. CASE k = 1
    BY <1>2, <2>1, <2>2
  <2>3. CASE k # 1
    <3>1. k - 1 \in 1..(Len(s) - 1) /\ (k - 1) + 1 = k
      BY <1>1, <2>3
    <3>2. s2[k - 1] = s[k]
      BY <1>2, <3>1
    <3>3. QED
      BY <1>1, <2>1, <3>1, <3>2 DEF RowsOf
  <2>4. QED
    BY <2>2, <2>3
<1>4. RowsOf(s2) \subseteq RowsOf(s)
  <2>1. \A k \in 1..(Len(s) - 1) : k + 1 \in 1..Len(s) /\ s2[k] = s[k + 1]
    BY <1>1, <1>2
  <2>2. QED
    BY <1>1, <2>1 DEF RowsOf
<1>5. Rows(Head(s)) \subseteq RowsOf(s)
  BY <1>1, <1>2 DEF RowsOf
<1>6. QED
  BY <1>3, <1>4, <1>5 DEF s2

\* The trades of an event in the topic are among those on their way.
LEMMA RowsOfMember ==
  ASSUME NEW s, NEW k \in DOMAIN s
  PROVE  Rows(s[k]) \subseteq RowsOf(s)
BY DEF RowsOf

-----------------------------------------------------------------------------
(* What each step does to the orders in the engine and to the trades *)

\* The orders keep their terms.
KeepsTerms ==
  \A i \in DOMAIN orders :
    /\ i \in DOMAIN orders'
    /\ orders'[i].user = orders[i].user
    /\ orders'[i].side = orders[i].side
    /\ orders'[i].type = orders[i].type
    /\ orders'[i].price = orders[i].price
    /\ orders'[i].qty = orders[i].qty
    /\ orders'[i].lock = orders[i].lock

EngineSame ==
  /\ RestingIds' = RestingIds
  /\ TakerIds' = TakerIds
  /\ Current' = Current

\* The engine's orders and trades are the same while its variables are.
LEMMA EngineFrame ==
  ASSUME UNCHANGED engineVars
  PROVE  EngineSame
BY DEF engineVars, EngineSame, RestingIds, TakerIds, Current, SettlementRequested

\* The commands of a topic with one more command, and without the first.
LEMMA WaitingPlaced ==
  ASSUME topic \in Seq(Command), NEW i, topic' = Append(topic, [kind |-> "placed", id |-> i])
  PROVE  WaitingIds' = WaitingIds \cup {i}
<1> DEFINE c == [kind |-> "placed", id |-> i]
<1>1. Len(topic) \in Nat /\ DOMAIN topic = 1..Len(topic) /\ DOMAIN topic' = 1..(Len(topic) + 1)
  OBVIOUS
<1>2. (\A k \in 1..Len(topic) : topic'[k] = topic[k]) /\ topic'[Len(topic) + 1] = c
  OBVIOUS
<1>3. c.kind = "placed" /\ c.id = i
  OBVIOUS
<1> HIDE DEF c
<1>4. \A k \in 1..(Len(topic) + 1) : k \in 1..Len(topic) \/ k = Len(topic) + 1
  BY <1>1
<1>5. \A k \in 1..Len(topic) : k \in 1..(Len(topic) + 1)
  BY <1>1
<1>6. Len(topic) + 1 \in 1..(Len(topic) + 1)
  BY <1>1
<1>7. QED
  BY <1>1, <1>2, <1>3, <1>4, <1>5, <1>6 DEF WaitingIds

\* A request to cancel puts no order on its way.
LEMMA WaitingCancel ==
  ASSUME topic \in Seq(Command), NEW i, topic' = Append(topic, [kind |-> "cancel", id |-> i])
  PROVE  WaitingIds' = WaitingIds
<1> DEFINE c == [kind |-> "cancel", id |-> i]
<1>1. Len(topic) \in Nat /\ DOMAIN topic = 1..Len(topic) /\ DOMAIN topic' = 1..(Len(topic) + 1)
  OBVIOUS
<1>2. (\A k \in 1..Len(topic) : topic'[k] = topic[k]) /\ topic'[Len(topic) + 1] = c
  OBVIOUS
<1>3. c.kind # "placed"
  OBVIOUS
<1> HIDE DEF c
<1>4. \A k \in 1..(Len(topic) + 1) : k \in 1..Len(topic) \/ k = Len(topic) + 1
  BY <1>1
<1>5. \A k \in 1..Len(topic) : k \in 1..(Len(topic) + 1)
  BY <1>1
<1>6. QED
  BY <1>1, <1>2, <1>3, <1>4, <1>5 DEF WaitingIds

\* The topic without its first command.
LEMMA WaitingTail ==
  ASSUME topic \in Seq(Command), topic # <<>>, Placing, topic' = Tail(topic)
  PROVE  /\ Head(topic) \in Command
         /\ IF Head(topic).kind = "placed"
            THEN /\ Head(topic).id \in WaitingIds
                 /\ WaitingIds' = WaitingIds \ {Head(topic).id}
            ELSE WaitingIds' = WaitingIds
         /\ \A j, k \in DOMAIN topic' :
              topic'[j].kind = "placed" /\ topic'[k].kind = "placed"
                /\ topic'[j].id = topic'[k].id => j = k
<1> DEFINE s == topic'
<1>1. Len(topic) \in Nat /\ Len(topic) >= 1 /\ DOMAIN topic = 1..Len(topic)
      /\ DOMAIN s = 1..(Len(topic) - 1)
  OBVIOUS
<1>2. Head(topic) = topic[1] /\ \A k \in 1..(Len(topic) - 1) : s[k] = topic[k + 1]
  OBVIOUS
<1>3. 1 \in DOMAIN topic /\ topic[1] \in Command
  BY <1>1
<1> HIDE DEF s
<1>4. \A k \in 1..(Len(topic) - 1) : k + 1 \in 1..Len(topic) /\ k + 1 # 1
  BY <1>1
<1>5. \A k \in 1..Len(topic) : k # 1 => k - 1 \in 1..(Len(topic) - 1) /\ s[k - 1] = topic[k]
  <2> SUFFICES ASSUME NEW k \in 1..Len(topic), k # 1
               PROVE  k - 1 \in 1..(Len(topic) - 1) /\ s[k - 1] = topic[k]
    OBVIOUS
  <2>1. k - 1 \in 1..(Len(topic) - 1) /\ (k - 1) + 1 = k
    BY <1>1
  <2>2. QED
    BY <1>2, <2>1
<1>6. \A j, k \in DOMAIN topic :
        topic[j].kind = "placed" /\ topic[k].kind = "placed" /\ topic[j].id = topic[k].id => j = k
  BY DEF Placing
<1> DEFINE W == {s[k].id : k \in {j \in DOMAIN s : s[j].kind = "placed"}}
<1>7. W \subseteq WaitingIds
  BY <1>1, <1>2, <1>4 DEF WaitingIds
<1>8. WaitingIds \subseteq W \cup {Head(topic).id}
  <2> SUFFICES ASSUME NEW k \in DOMAIN topic, topic[k].kind = "placed", k # 1
               PROVE  topic[k].id \in W
    BY <1>2 DEF WaitingIds
  <2>1. k - 1 \in DOMAIN s /\ s[k - 1] = topic[k]
    BY <1>1, <1>5
  <2>2. QED
    BY <2>1
<1>9. W = WaitingIds'
  BY DEF WaitingIds, s
<1>10. \A j, k \in DOMAIN s :
         s[j].kind = "placed" /\ s[k].kind = "placed" /\ s[j].id = s[k].id => j = k
  <2> SUFFICES ASSUME NEW j \in DOMAIN s, NEW k \in DOMAIN s,
                      s[j].kind = "placed", s[k].kind = "placed", s[j].id = s[k].id
               PROVE  j = k
    OBVIOUS
  <2>1. s[j] = topic[j + 1] /\ s[k] = topic[k + 1] /\ j + 1 \in DOMAIN topic /\ k + 1 \in DOMAIN topic
    BY <1>1, <1>2, <1>4
  <2>2. j + 1 = k + 1
    BY <1>6, <2>1
  <2>3. QED
    BY <1>1, <2>2
<1>11. CASE topic[1].kind = "placed"
  <2>1. Head(topic).id \in WaitingIds
    BY <1>2, <1>3, <1>11 DEF WaitingIds
  <2>2. Head(topic).id \notin W
    <3>1. SUFFICES ASSUME NEW k \in DOMAIN s, s[k].kind = "placed", s[k].id = Head(topic).id
                   PROVE  FALSE
      OBVIOUS
    <3>2. s[k] = topic[k + 1] /\ k + 1 \in DOMAIN topic /\ k + 1 # 1
      BY <1>1, <1>2, <1>4
    <3>3. QED
      BY <1>2, <1>3, <1>6, <1>11, <3>1, <3>2
  <2>3. QED
    <3> HIDE DEF W
    <3>1. W = WaitingIds \ {Head(topic).id}
      BY <1>7, <1>8, <2>2
    <3>2. QED
      BY <1>2, <1>3, <1>9, <1>11, <1>10, <2>1, <3>1 DEF s
<1>12. CASE topic[1].kind # "placed"
  <2>1. ASSUME NEW k \in DOMAIN topic, topic[k].kind = "placed" PROVE topic[k].id \in W
    <3>1. k # 1 /\ k \in 1..Len(topic)
      BY <1>1, <1>12, <2>1
    <3>2. k - 1 \in DOMAIN s /\ s[k - 1] = topic[k]
      BY <1>1, <1>5, <3>1
    <3>3. QED
      BY <2>1, <3>2
  <2>2. W = WaitingIds
    BY <1>7, <2>1 DEF WaitingIds
  <2> HIDE DEF W
  <2>3. WaitingIds' = WaitingIds
    BY <1>9, <2>2
  <2>4. QED
    BY <1>2, <1>3, <1>10, <1>12, <2>3 DEF s
<1>13. QED
  BY <1>11, <1>12

-----------------------------------------------------------------------------
(* The amount to lock *)

\* What a request says, by RequestsAssumption.
LEMMA RequestTerms ==
  ASSUME NEW o \in Requests
  PROVE  /\ o.user \in Users
         /\ o.side \in Sides
         /\ o.type \in Types
         /\ o.price \in Nat
         /\ o.qty \in Nat \ {0}
         /\ o.type = "LIMIT" => o.price \in Prices
<1>1. PICK p \in NewOrder(1) \cup NewMarketOrder(1) :
        /\ <<p.user, p.side, p.type>> = <<o.user, o.side, o.type>>
        /\ <<p.price, p.qty>> = <<o.price, o.qty>>
  BY RequestsAssumption
<1>2. /\ p.user = o.user /\ p.side = o.side /\ p.type = o.type
      /\ p.price = o.price /\ p.qty = o.qty
  BY <1>1
<1>3. CASE p \in NewOrder(1)
  <2>1. p.user \in Users /\ p.side \in Sides /\ p.type = "LIMIT" /\ p.price \in Prices
        /\ p.qty \in 1..MaxQty
    BY <1>3 DEF NewOrder
  <2>2. QED
    BY <1>2, <2>1, PricesAssumption, MaxQtyAssumption DEF Types
<1>4. CASE p \in NewMarketOrder(1)
  <2>1. p.user \in Users /\ p.side \in Sides /\ p.type = "MARKET" /\ p.price = 0
        /\ p.qty \in 1..MaxQty
    BY <1>4 DEF NewMarketOrder
  <2>2. QED
    BY <1>2, <2>1, MaxQtyAssumption DEF Types
<1>5. QED
  BY <1>1, <1>3, <1>4

\* The depth of a snapshot is a quantity.
LEMMA DepthIsNat ==
  ASSUME NEW asks, asks \subseteq Order, IsFiniteSet(asks)
  PROVE  Depth(asks) \in Nat
<1> DEFINE f == [a \in asks |-> a.qty]
<1>1. \A a \in asks : f[a] \in Nat
  BY DEF Order
<1>2. QED
  BY <1>1, SumNat DEF Depth, SumFunction

\* estimateFromSnapshotAsks gives an amount that is not negative.
LEMMA EstimateIsNat ==
  ASSUME NEW asks, asks \subseteq Order, IsFiniteSet(asks), NEW q \in Nat
  PROVE  Estimate(asks, q) \in Nat
<1> DEFINE f == [a \in asks |-> a.price * WalkTakes(a, asks, q)]
<1>1. ASSUME NEW a \in asks PROVE WalkTakes(a, asks, q) \in Nat
  <2> DEFINE before == {b \in asks : \/ b.price < a.price
                                     \/ b.price = a.price /\ b.id < a.id}
  <2>1. before \subseteq Order /\ IsFiniteSet(before)
    BY FS_Subset
  <2>2. Depth(before) \in Nat
    BY <2>1, DepthIsNat
  <2>3. WalkTakes(a, asks, q) = IF q <= Depth(before) THEN 0 ELSE MinQty(a.qty, q - Depth(before))
    BY Zenon DEF WalkTakes
  <2> HIDE DEF before
  <2>4. a.qty \in Nat
    BY DEF Order
  <2>5. QED
    BY <2>2, <2>3, <2>4 DEF MinQty
<1>2. \A a \in asks : f[a] \in Nat
  <2>1. \A a \in asks : a.price \in Nat
    BY DEF Order
  <2>2. \A m, n \in Nat : m * n \in Nat
    OBVIOUS
  <2>3. QED
    BY <1>1, <2>1, <2>2
<1> HIDE DEF f
<1>3. SumFunctionOnSet(f, asks) \in Nat
  BY <1>2, SumNat
<1>4. QED
  BY <1>3 DEF Estimate, SumFunction, f

\* So does calculateLockAmount.
LEMMA LockIsNat ==
  ASSUME NEW o \in Requests, NEW asks, asks \subseteq Order, IsFiniteSet(asks)
  PROVE  LockAmount(o, asks) \in Nat
<1>1. /\ o.side \in Sides /\ o.type \in Types /\ o.price \in Nat /\ o.qty \in Nat
  BY RequestTerms
<1>2. CASE o.side = "SELL"
  BY <1>1, <1>2 DEF LockAmount
<1>3. CASE o.side = "BUY" /\ o.type = "LIMIT"
  <2>1. o.price * o.qty \in Nat
    BY <1>1
  <2>2. QED
    BY <1>3, <2>1 DEF LockAmount
<1>4. CASE o.side = "BUY" /\ o.type = "MARKET"
  <2>1. Estimate(asks, o.qty) \in Nat
    BY <1>1, EstimateIsNat
  <2>2. \A e \in Nat : (e * 21) \div 20 \in Nat
    OBVIOUS
  <2>3. QED
    BY <1>4, <2>1, <2>2 DEF LockAmount
<1>5. QED
  BY <1>1, <1>2, <1>3, <1>4 DEF Sides, Types

-----------------------------------------------------------------------------
(* Placing and cancelling *)

\* The identifiers the invariant speaks of are rows of orders.
LEMMA KnownIds ==
  ASSUME ExchangeInv
  PROVE  /\ WaitingIds \subseteq DOMAIN orders
         /\ RestingIds \subseteq DOMAIN orders
         /\ TakerIds \subseteq DOMAIN orders
         /\ MakersOf(AllRows) \subseteq DOMAIN orders
         /\ \A t \in AllRows : t.taker \in DOMAIN orders
         /\ BusyIds \subseteq DOMAIN orders
         /\ \A k \in DOMAIN settlements :
              settlements[k] \in Event /\ settlements[k].id \in DOMAIN orders
         /\ DOMAIN orders = 1..Len(orders) /\ Len(orders) \in Nat
         /\ Len(orders) + 1 \notin DOMAIN orders
<1>1. WaitingIds \subseteq DOMAIN orders
  BY DEF ExchangeInv, Placing
<1>2. RestingIds \subseteq DOMAIN orders
  BY DEF ExchangeInv, InBook, OfRow, RestingIds
<1>3. TakerIds \subseteq DOMAIN orders
  BY DEF ExchangeInv, InBook, OfRow, TakerIds
<1>4. MakersOf(AllRows) \subseteq DOMAIN orders /\ \A t \in AllRows : t.taker \in DOMAIN orders
  BY DEF ExchangeInv, Trades, RowOK, MakersOf
<1>5. BusyIds \subseteq DOMAIN orders
  BY <1>1, <1>2, <1>3, <1>4 DEF BusyIds, LiveIds, AllRows, MakersOf
<1>6. \A k \in DOMAIN settlements :
        settlements[k] \in Event /\ settlements[k].id \in DOMAIN orders
  <2>1. settlements \in Seq(Event)
    BY DEF ExchangeInv, Typed
  <2>2. \A k \in DOMAIN settlements : Mentions(settlements[k]) \subseteq DOMAIN orders
    BY DEF ExchangeInv, Reports
  <2>3. QED
    BY <2>1, <2>2 DEF Mentions
<1>7. orders \in Seq(OrderRow)
  BY DEF ExchangeInv, Typed
<1>8. DOMAIN orders = 1..Len(orders) /\ Len(orders) \in Nat
  BY <1>7
<1>9. Len(orders) + 1 \notin DOMAIN orders
  BY <1>8
<1>10. QED
  BY <1>1, <1>2, <1>3, <1>4, <1>5, <1>6, <1>8, <1>9

\* The columns of a row of orders, with their types.
LEMMA RowFields ==
  ASSUME ExchangeInv, NEW i \in DOMAIN orders
  PROVE  /\ i \in Ids
         /\ orders[i] \in OrderRow
         /\ orders[i].user \in Users /\ orders[i].side \in Sides /\ orders[i].type \in Types
         /\ orders[i].price \in Nat
         /\ orders[i].qty \in Nat /\ orders[i].qty > 0
         /\ orders[i].filled \in Nat
         /\ orders[i].status \in Statuses
         /\ orders[i].lock \in Nat
<1>1. orders \in Seq(OrderRow) /\ orders[i].qty > 0
  BY DEF ExchangeInv, Typed
<1>2. orders[i] \in OrderRow /\ i \in Ids
  BY <1>1 DEF Ids
<1>3. QED
  BY <1>1, <1>2 DEF OrderRow

\* PlaceOrder adds a row and puts it on its way to the engine.
LEMMA PlaceOrderKeeps ==
  ASSUME ExchangeInv, PlaceOrder, UNCHANGED engineVars
  PROVE  ExchangeInv'
<1>0. PICK n : n = Len(orders) + 1
  OBVIOUS
<1>1. /\ UNCHANGED <<tradeTable, settlements, snapshots, asked>>
      /\ UNCHANGED <<resting, taker, trades>>
  BY DEF PlaceOrder, engineVars
<1>2. PICK row \in OrderRow :
        /\ orders' = Append(orders, row)
        /\ row.status = "NEW" /\ row.filled = 0 /\ row.qty > 0
        /\ topic' = Append(topic, [kind |-> "placed", id |-> n])
  <2>1. PICK o \in Requests, asks \in snapshots :
          LET amount == LockAmount(o, asks)
              row == [user |-> o.user, side |-> o.side, type |-> o.type, price |-> o.price,
                      qty |-> o.qty, filled |-> 0, status |-> "NEW", lock |-> amount]
          IN /\ orders' = Append(orders, row)
             /\ topic' = Append(topic, [kind |-> "placed", id |-> Len(orders')])
    BY Zenon DEF PlaceOrder
  <2> DEFINE row == [user |-> o.user, side |-> o.side, type |-> o.type, price |-> o.price,
                     qty |-> o.qty, filled |-> 0, status |-> "NEW", lock |-> LockAmount(o, asks)]
  <2>2. orders' = Append(orders, row)
        /\ topic' = Append(topic, [kind |-> "placed", id |-> Len(orders')])
    BY <2>1
  <2>3. asks \subseteq Order /\ IsFiniteSet(asks) /\ orders \in Seq(OrderRow)
    BY DEF ExchangeInv, Typed
  <2>4. LockAmount(o, asks) \in Nat
    BY <2>3, LockIsNat
  <2>5. row \in OrderRow /\ row.status = "NEW" /\ row.filled = 0 /\ row.qty > 0
    BY <2>4, RequestTerms DEF OrderRow, Statuses
  <2> HIDE DEF row
  <2>6. Len(orders') = n
    BY <1>0, <2>2, <2>3, <2>5
  <2>7. QED
    BY <2>2, <2>5, <2>6
<1>3. /\ WaitingIds \subseteq DOMAIN orders /\ RestingIds \subseteq DOMAIN orders
      /\ TakerIds \subseteq DOMAIN orders /\ BusyIds \subseteq DOMAIN orders
      /\ DOMAIN orders = 1..Len(orders) /\ Len(orders) \in Nat /\ n \notin DOMAIN orders
      /\ \A k \in DOMAIN settlements : settlements[k].id \in DOMAIN orders
  BY <1>0, KnownIds
<1>4. /\ DOMAIN orders' = DOMAIN orders \cup {n}
      /\ \A i \in DOMAIN orders : orders'[i] = orders[i]
      /\ orders'[n] = row
      /\ orders' \in Seq(OrderRow)
  <2>1. orders \in Seq(OrderRow)
    BY DEF ExchangeInv, Typed
  <2>2. QED
    BY <1>0, <1>2, <1>3, <2>1
<1>5. topic \in Seq(Command)
  BY DEF ExchangeInv, Typed
<1>6. WaitingIds' = WaitingIds \cup {n}
  BY <1>2, <1>5, WaitingPlaced
<1>7. RestingIds' = RestingIds /\ TakerIds' = TakerIds /\ Current' = Current
  BY EngineFrame DEF EngineSame
<1>8. Reported' = Reported /\ AllRows' = AllRows
  BY <1>1, <1>7 DEF Reported, AllRows
<1>9. LiveIds' = LiveIds \cup {n} /\ BusyIds' = BusyIds \cup {n}
  BY <1>6, <1>7 DEF LiveIds, BusyIds
<1>10. \A k \in DOMAIN settlements : Closing(settlements[k])' <=> Closing(settlements[k])
  BY <1>1, <1>3, <1>4 DEF Closing
<1>11. Typed'
  <2>1. topic' \in Seq(Command)
    <3>1. [kind |-> "placed", id |-> n] \in Command
      BY <1>0, <1>3 DEF Command, Ids
    <3>2. QED
      BY <1>2, <1>5, <3>1
  <2>2. (\A i \in DOMAIN orders : orders[i].qty > 0)'
    BY <1>2, <1>4 DEF ExchangeInv, Typed
  <2>3. asked' \subseteq DOMAIN orders'
    BY <1>1, <1>4 DEF ExchangeInv, Typed
  <2>4. QED
    BY <1>1, <1>4, <1>8, <2>1, <2>2, <2>3 DEF ExchangeInv, Typed
<1>12. Placing'
  <2>1. \A i \in WaitingIds' : i \in DOMAIN orders' /\ orders'[i].status = "NEW"
    BY <1>2, <1>4, <1>6 DEF ExchangeInv, Placing
  <2>2. ASSUME NEW j \in DOMAIN topic', NEW k \in DOMAIN topic',
               topic'[j].kind = "placed", topic'[k].kind = "placed", topic'[j].id = topic'[k].id
        PROVE  j = k
    <3> DEFINE c == [kind |-> "placed", id |-> n]
    <3>1. Len(topic) \in Nat /\ DOMAIN topic = 1..Len(topic) /\ DOMAIN topic' = 1..(Len(topic) + 1)
      BY <1>2, <1>5
    <3>2. (\A l \in DOMAIN topic : topic'[l] = topic[l]) /\ topic'[Len(topic) + 1] = c
      BY <1>2, <1>5
    <3>3. \A l \in DOMAIN topic : topic[l].kind = "placed" => topic[l].id # n
      BY <1>3 DEF WaitingIds
    <3>4. j \in DOMAIN topic \/ j = Len(topic) + 1
      BY <3>1
    <3>5. k \in DOMAIN topic \/ k = Len(topic) + 1
      BY <3>1
    <3>6. \A l, m \in DOMAIN topic :
            topic[l].kind = "placed" /\ topic[m].kind = "placed" /\ topic[l].id = topic[m].id => l = m
      BY DEF ExchangeInv, Placing
    <3>7. QED
      BY <2>2, <3>2, <3>3, <3>4, <3>5, <3>6
  <2>3. QED
    BY <2>1, <2>2 DEF Placing
<1>13. \A o : o.id \in DOMAIN orders /\ OfRow(o) => OfRow(o)'
  BY <1>3, <1>4, <1>6 DEF OfRow
<1>14. InBook'
  BY <1>1, <1>4, <1>7, <1>13 DEF ExchangeInv, InBook, OfRow
<1>15. Trades'
  <2>1. ASSUME NEW t \in AllRows PROVE RowOK(t)'
    <3>1. RowOK(t)
      BY DEF ExchangeInv, Trades
    <3>2. t.maker \in DOMAIN orders /\ t.taker \in DOMAIN orders
      BY <3>1 DEF RowOK
    <3>3. QED
      BY <1>3, <1>4, <1>6, <3>1, <3>2 DEF RowOK
  <2>2. QED
    BY <1>7, <1>8, <2>1 DEF ExchangeInv, Trades
<1>16. QtyOf(AllRows, n) = 0 /\ Mentioning(tradeTable, n) = {}
  <2>1. Mentioning(AllRows, n) = {}
    BY <1>3, KnownIds DEF Mentioning, MakersOf
  <2>2. Mentioning(tradeTable, n) = {}
    BY <2>1 DEF Mentioning, AllRows, Reported
  <2>3. QED
    BY <2>1, <2>2, QtyNone
<1>17. Quantities'
  <2>1. \A o \in resting : o.id \in DOMAIN orders
    BY <1>3 DEF RestingIds
  <2>2. taker # NoOrder => taker.id \in DOMAIN orders
    BY <1>3 DEF TakerIds
  <2>3. row.qty \in Nat
    BY DEF OrderRow
  <2>4. QED
    BY <1>1, <1>2, <1>4, <1>8, <1>16, <2>1, <2>2, <2>3 DEF ExchangeInv, Quantities
<1>18. Reports'
  <2>1. \A k \in DOMAIN settlements : Mentions(settlements[k]) \subseteq DOMAIN orders
    BY DEF ExchangeInv, Reports
  <2>2. \A k \in DOMAIN settlements : IsTrades(settlements[k]) => LeftOver(settlements[k])'
    BY <1>1, <1>3, <1>4 DEF ExchangeInv, Reports, LeftOver
  <2>3. \A k \in DOMAIN settlements :
          settlements[k].id # n /\ orders'[settlements[k].id] = orders[settlements[k].id]
    BY <1>3, <1>4
  <2>4. (\A k \in DOMAIN settlements : Closing(settlements[k]) =>
          settlements[k].id \notin BusyIds \cup MakersOf(AllRows))'
    BY <1>1, <1>8, <1>9, <1>10, <2>3 DEF ExchangeInv, Reports
  <2>5. (\A k \in DOMAIN settlements : ~IsTrades(settlements[k]) =>
          settlements[k].id \notin BusyIds /\ orders[settlements[k].id].type = "LIMIT")'
    BY <1>1, <1>9, <2>3 DEF ExchangeInv, Reports
  <2>6. (\A k \in DOMAIN settlements :
          Mentions(settlements[k]) \subseteq DOMAIN orders \ (TakerIds \cup WaitingIds))'
    BY <1>1, <1>3, <1>4, <1>6, <1>7, <2>1 DEF ExchangeInv, Reports
  <2>7. QED
    BY <1>1, <2>2, <2>4, <2>5, <2>6 DEF ExchangeInv, Reports
<1>19. Applied'
  <2>1. \A t \in tradeTable : t.maker \in DOMAIN orders /\ t.taker \in DOMAIN orders
    BY KnownIds DEF AllRows, Reported, MakersOf
  <2>2. (\A t \in tradeTable : orders[t.maker].status # "NEW" /\ orders[t.taker].status # "NEW")'
    BY <1>1, <1>4, <2>1 DEF ExchangeInv, Applied
  <2>3. \A k \in DOMAIN settlements : orders'[settlements[k].id] = orders[settlements[k].id]
    BY <1>3, <1>4
  <2>4. \A k \in DOMAIN settlements : IsOpen(settlements[k].id)' <=> IsOpen(settlements[k].id)
    BY <1>1, <2>3 DEF IsOpen
  <2>5. QED
    BY <1>1, <1>10, <2>2, <2>3, <2>4 DEF ExchangeInv, Applied
<1>20. Table'
  <2>1. \A i \in DOMAIN orders : IsOpen(i)' <=> IsOpen(i)
    BY <1>4 DEF IsOpen
  <2>2. IsOpen(n)'
    BY <1>2, <1>4 DEF IsOpen
  <2>3. \A i \in DOMAIN orders : ClosingReported(i) => ClosingReported(i)'
    BY <1>1, <1>10 DEF ClosingReported
  <2>4. (\A i \in DOMAIN orders : orders[i].filled = QtyOf(tradeTable, i))'
    BY <1>1, <1>2, <1>4, <1>16, QtyNone DEF ExchangeInv, Table
  <2>5. (\A i \in DOMAIN orders : ~IsOpen(i) =>
           i \notin BusyIds /\ Mentioning(AllRows, i) \subseteq tradeTable)'
    BY <1>1, <1>3, <1>4, <1>8, <1>9, <2>1, <2>2 DEF ExchangeInv, Table
  <2>6. (\A i \in DOMAIN orders : IsOpen(i) => orders[i].filled < orders[i].qty)'
    BY <1>2, <1>4, <2>1, <2>2 DEF ExchangeInv, Table
  <2>7. (\A i \in DOMAIN orders : IsOpen(i) /\ i \notin LiveIds =>
           QtyOf(AllRows, i) = orders[i].qty \/ ClosingReported(i))'
    BY <1>4, <1>8, <1>9, <2>1, <2>2, <2>3 DEF ExchangeInv, Table
  <2>8. QED
    BY <2>4, <2>5, <2>6, <2>7 DEF Table
<1>21. QED
  BY <1>11, <1>12, <1>14, <1>15, <1>17, <1>18, <1>19, <1>20 DEF ExchangeInv

\* CancelOrder only asks the engine.
LEMMA CancelOrderKeeps ==
  ASSUME ExchangeInv, CancelOrder, UNCHANGED engineVars
  PROVE  ExchangeInv'
<1>1. /\ UNCHANGED <<balance, locked, orders, tradeTable, settlements, snapshots>>
      /\ UNCHANGED <<resting, taker, trades>>
  BY DEF CancelOrder, dbVars, engineVars
<1>2. PICK i \in DOMAIN orders :
        /\ topic' = Append(topic, [kind |-> "cancel", id |-> i])
        /\ asked' = asked \cup {i}
  BY DEF CancelOrder
<1>3. topic \in Seq(Command)
  BY DEF ExchangeInv, Typed
<1>4. WaitingIds' = WaitingIds
  BY <1>2, <1>3, WaitingCancel
<1>5. RestingIds' = RestingIds /\ TakerIds' = TakerIds /\ Current' = Current
  BY EngineFrame DEF EngineSame
<1>6. Reported' = Reported /\ AllRows' = AllRows
  BY <1>1, <1>5 DEF Reported, AllRows
<1>7. LiveIds' = LiveIds /\ BusyIds' = BusyIds
  BY <1>4, <1>5 DEF LiveIds, BusyIds
<1>8. Typed'
  <2>1. topic' \in Seq(Command)
    <3>1. [kind |-> "cancel", id |-> i] \in Command
      <4>1. i \in 1..Len(orders) /\ Len(orders) \in Nat
        BY KnownIds
      <4>2. QED
        BY <4>1 DEF Command, Ids
    <3>2. QED
      BY <1>2, <1>3, <3>1
  <2>2. asked' \subseteq DOMAIN orders'
    BY <1>1, <1>2 DEF ExchangeInv, Typed
  <2>3. QED
    BY <1>1, <1>6, <2>1, <2>2 DEF ExchangeInv, Typed
<1>9. Placing'
  <2>1. ASSUME NEW j \in DOMAIN topic', NEW k \in DOMAIN topic',
               topic'[j].kind = "placed", topic'[k].kind = "placed", topic'[j].id = topic'[k].id
        PROVE  j = k
    <3> DEFINE c == [kind |-> "cancel", id |-> i]
    <3>1. Len(topic) \in Nat /\ DOMAIN topic = 1..Len(topic) /\ DOMAIN topic' = 1..(Len(topic) + 1)
      BY <1>2, <1>3
    <3>2. (\A l \in DOMAIN topic : topic'[l] = topic[l]) /\ topic'[Len(topic) + 1] = c
      BY <1>2, <1>3
    <3>3. (j \in DOMAIN topic \/ j = Len(topic) + 1) /\ (k \in DOMAIN topic \/ k = Len(topic) + 1)
      BY <3>1
    <3>4. j \in DOMAIN topic /\ k \in DOMAIN topic
      BY <2>1, <3>2, <3>3
    <3>5. QED
      BY <2>1, <3>2, <3>4 DEF ExchangeInv, Placing
  <2>2. QED
    BY <1>1, <1>4, <2>1 DEF ExchangeInv, Placing
<1>10. InBook' /\ Trades' /\ Quantities'
  BY <1>1, <1>4, <1>5, <1>6 DEF ExchangeInv, InBook, OfRow, Trades, RowOK, Quantities
<1>11. Reports'
  BY <1>1, <1>4, <1>5, <1>6, <1>7 DEF ExchangeInv, Reports, LeftOver, Closing
<1>12. Applied' /\ Table'
  BY <1>1, <1>6, <1>7 DEF ExchangeInv, Applied, Table, IsOpen, Closing, ClosingReported
<1>13. QED
  BY <1>8, <1>9, <1>10, <1>11, <1>12 DEF ExchangeInv

-----------------------------------------------------------------------------
(* The engine takes an order *)

\* The order that the engine takes is no longer on its way.
LEMMA TakeOrderKeeps ==
  ASSUME ExchangeInv, TakeOrder
  PROVE  ExchangeInv'
<1>1. /\ taker = NoOrder /\ topic # <<>> /\ Head(topic).kind = "placed"
      /\ trades' = <<>> /\ topic' = Tail(topic)
      /\ UNCHANGED <<balance, locked, orders, tradeTable, settlements, snapshots, asked, resting>>
  BY DEF TakeOrder, dbVars
<1>2. PICK i : i = Head(topic).id
  OBVIOUS
<1>3. topic \in Seq(Command) /\ Placing /\ orders \in Seq(OrderRow)
  BY DEF ExchangeInv, Typed
<1>4. /\ i \in WaitingIds /\ WaitingIds' = WaitingIds \ {i}
      /\ \A j, k \in DOMAIN topic' :
           topic'[j].kind = "placed" /\ topic'[k].kind = "placed" /\ topic'[j].id = topic'[k].id
             => j = k
  BY <1>1, <1>2, <1>3, WaitingTail
<1>5. i \in DOMAIN orders /\ orders[i].status = "NEW"
  BY <1>4 DEF ExchangeInv, Placing
<1>6. taker' = EngineOrder(i)
  BY <1>2 DEF TakeOrder
<1>7. taker' \in Order /\ taker'.id = i /\ taker'.qty = orders[i].qty /\ taker' # NoOrder
      /\ taker'.user = orders[i].user /\ taker'.side = orders[i].side
      /\ taker'.type = orders[i].type /\ taker'.price = orders[i].price
  <2>1. orders[i] \in OrderRow /\ i \in Nat \ {0}
    BY <1>3, <1>5
  <2>2. QED
    BY <1>6, <2>1, NoOrderAssumption DEF EngineOrder, OrderRow, Order
<1>8. TakerIds = {} /\ TakerIds' = {i} /\ Current = {} /\ Current' = {}
  <2>1. TakerIds = {} /\ TakerIds' = {i} /\ Current = {}
    BY <1>1, <1>7 DEF TakerIds, Current
  <2>2. SettlementRequested'.trades = <<>>
    BY <1>1 DEF SettlementRequested
  <2>3. Rows(SettlementRequested)' = {}
    BY <2>2 DEF Rows
  <2>4. QED
    BY <1>7, <2>1, <2>3 DEF Current
<1>9. RestingIds' = RestingIds /\ Reported' = Reported /\ AllRows' = AllRows
  BY <1>1, <1>8 DEF RestingIds, Reported, AllRows
<1>10. LiveIds' = LiveIds /\ BusyIds' = BusyIds
  BY <1>4, <1>8, <1>9 DEF LiveIds, BusyIds
<1>11. \A t \in AllRows : t.maker # i /\ t.taker # i
  BY <1>4 DEF ExchangeInv, Trades, RowOK
<1>12. Typed'
  <2>1. topic' \in Seq(Command)
    BY <1>1, <1>3
  <2>2. QED
    BY <1>1, <1>7, <1>9, <2>1 DEF ExchangeInv, Typed
<1>13. Placing'
  BY <1>1, <1>4 DEF ExchangeInv, Placing
<1>14. InBook'
  BY <1>1, <1>4, <1>5, <1>7, <1>8 DEF ExchangeInv, InBook, OfRow
<1>15. Trades'
  <2>1. \A t \in AllRows : RowOK(t)'
    BY <1>1, <1>4 DEF ExchangeInv, Trades, RowOK
  <2>2. QED
    BY <1>8, <1>9, <1>11, <2>1 DEF ExchangeInv, Trades, AllRows
<1>16. Quantities'
  <2>1. QtyOf(AllRows, i) = 0
    BY <1>11, QtyNone DEF Mentioning
  <2>2. orders[i].qty \in Nat
    BY <1>5, RowFields
  <2>3. QED
    BY <1>1, <1>7, <1>9, <2>1, <2>2 DEF ExchangeInv, Quantities
<1>17. Reports'
  BY <1>1, <1>4, <1>8, <1>9, <1>10 DEF ExchangeInv, Reports, LeftOver, Closing
<1>18. Applied' /\ Table'
  BY <1>1, <1>9, <1>10 DEF ExchangeInv, Applied, Table, IsOpen, Closing, ClosingReported
<1>19. QED
  BY <1>12, <1>13, <1>14, <1>15, <1>16, <1>17, <1>18 DEF ExchangeInv

-----------------------------------------------------------------------------
(* The engine matches *)

\* A trade moves quantity from the taker and the maker to a row that no table
\* has yet.
LEMMA TradingKeeps ==
  ASSUME ExchangeInv, Engine!Trading, UNCHANGED serviceVars
  PROVE  ExchangeInv'
<1>1. taker # NoOrder /\ taker.qty > 0 /\ taker \in Order /\ resting \subseteq Order
  BY DEF Engine!Trading, ExchangeInv, Typed
<1>2. UNCHANGED <<balance, locked, orders, tradeTable, topic, settlements, snapshots, asked>>
  BY DEF serviceVars, dbVars
<1>3. PICK m \in resting :
        /\ m.side # taker.side
        /\ m.user # taker.user
        /\ LET q == Engine!MinQty(taker.qty, m.qty) IN
             /\ trades' = Append(trades, [maker |-> m, taker |-> taker,
                                          price |-> m.price, qty |-> q])
             /\ taker' = [taker EXCEPT !.qty = @ - q]
             /\ resting' = (resting \ {m}) \cup
                   (IF m.qty = q THEN {} ELSE {[m EXCEPT !.qty = @ - q]})
  <2>1. taker.side \in Sides
    BY <1>1 DEF Order
  <2>2. Engine!Opposite(taker.side) # taker.side
    BY <2>1 DEF Engine!Opposite, Sides
  <2>3. QED
    BY <2>2 DEF Engine!Trading, Engine!HasPriority, Engine!Opponents
<1>4. PICK q : q = Engine!MinQty(taker.qty, m.qty)
  OBVIOUS
<1>5. m \in Order /\ m.qty > 0 /\ q \in Nat /\ q > 0 /\ q <= m.qty /\ q <= taker.qty
      /\ m.id \in Ids /\ taker.id \in Ids /\ m.qty \in Nat /\ taker.qty \in Nat /\ m.price \in Nat
  <2>1. m.qty > 0 /\ m \in Order
    BY <1>1 DEF ExchangeInv, InBook
  <2>2. /\ m.qty \in Nat /\ taker.qty \in Nat
        /\ m.id \in Ids /\ taker.id \in Ids /\ m.price \in Nat
    BY <1>1, <2>1 DEF Order, Ids
  <2>3. QED
    BY <1>1, <1>4, <2>1, <2>2 DEF Engine!MinQty
<1>6. /\ trades' = Append(trades, [maker |-> m, taker |-> taker, price |-> m.price, qty |-> q])
      /\ taker' = [taker EXCEPT !.qty = @ - q]
      /\ resting' = (resting \ {m}) \cup
            (IF m.qty = q THEN {} ELSE {[m EXCEPT !.qty = @ - q]})
  BY <1>3, <1>4
<1>7. /\ taker' \in Order /\ taker'.id = taker.id /\ taker'.qty = taker.qty - q
      /\ taker'.user = taker.user /\ taker'.side = taker.side
      /\ taker'.type = taker.type /\ taker'.price = taker.price
      /\ taker' # NoOrder
  <2>1. PICK old, new : old = taker /\ new = [old EXCEPT !.qty = @ - q]
    OBVIOUS
  <2>2. old.qty - q \in Nat
    BY <1>5, <2>1
  <2>3. /\ new \in Order /\ new.id = old.id /\ new.qty = old.qty - q
        /\ new.user = old.user /\ new.side = old.side
        /\ new.type = old.type /\ new.price = old.price
    BY <1>1, <2>1, <2>2 DEF Order
  <2>4. QED
    BY <1>6, <2>1, <2>3, NoOrderAssumption
<1>8. PICK rest : rest = [m EXCEPT !.qty = @ - q]
  OBVIOUS
<1>9. /\ rest \in Order /\ rest.id = m.id /\ rest.qty = m.qty - q
      /\ rest.user = m.user /\ rest.side = m.side /\ rest.type = m.type /\ rest.price = m.price
  BY <1>5, <1>8 DEF Order
<1>10. resting' = (resting \ {m}) \cup (IF m.qty = q THEN {} ELSE {rest})
  BY <1>6, <1>8
<1>11. PICK r : r = [taker |-> taker.id, k |-> Len(trades) + 1, maker |-> m.id,
                     price |-> m.price, qty |-> q]
  OBVIOUS
<1>12. trades \in Seq(Trade)
  BY DEF ExchangeInv, Typed
<1>13. r \in Row /\ r.taker = taker.id /\ r.maker = m.id /\ r.qty = q /\ r.price = m.price
       /\ r.k = Len(trades) + 1
  BY <1>5, <1>11, <1>12 DEF Row, Ids
<1>14. TakerIds = {taker.id} /\ TakerIds' = {taker.id}
  BY <1>1, <1>7 DEF TakerIds
<1>15. Current' = Current \cup {r} /\ \A t \in Current : t.k # r.k
  <2> DEFINE CurrentRow(k) == [taker |-> taker.id, k |-> k, maker |-> trades[k].maker.id,
                               price |-> trades[k].price, qty |-> trades[k].qty]
  <2>1. Current = {CurrentRow(k) : k \in DOMAIN trades}
    BY <1>1 DEF Current, Rows, IsTrades, SettlementRequested, TradeRow
  <2>2. Current' = {CurrentRow(k)' : k \in DOMAIN trades'}
    BY <1>7 DEF Current, Rows, IsTrades, SettlementRequested, TradeRow
  <2>3. /\ Len(trades) \in Nat /\ DOMAIN trades = 1..Len(trades)
        /\ DOMAIN trades' = 1..(Len(trades) + 1)
        /\ \A k \in DOMAIN trades : trades'[k] = trades[k]
        /\ trades'[Len(trades) + 1] = [maker |-> m, taker |-> taker, price |-> m.price, qty |-> q]
    BY <1>6, <1>12
  <2>4. \A k \in DOMAIN trades : CurrentRow(k)' = CurrentRow(k)
    BY <1>7, <2>3
  <2>5. ASSUME NEW k, k = Len(trades) + 1 PROVE CurrentRow(k)' = r
    BY <1>7, <1>11, <2>3, <2>5
  <2>6. \A k : CurrentRow(k).k = k
    OBVIOUS
  <2>7. \A k \in DOMAIN trades' : k \in DOMAIN trades \/ k = Len(trades) + 1
    BY <2>3
  <2>8. DOMAIN trades \subseteq DOMAIN trades' /\ Len(trades) + 1 \in DOMAIN trades'
        /\ Len(trades) + 1 \notin DOMAIN trades
    BY <2>3
  <2> HIDE DEF CurrentRow
  <2>9. QED
    BY <1>13, <2>1, <2>2, <2>4, <2>5, <2>6, <2>7, <2>8
<1>16. Reported' = Reported /\ AllRows' = AllRows \cup {r}
  BY <1>2, <1>15 DEF Reported, AllRows
<1>17. r \notin AllRows /\ r \notin Reported
  BY <1>13, <1>14, <1>15 DEF AllRows, ExchangeInv, Trades
<1>18. WaitingIds' = WaitingIds
  BY <1>2 DEF WaitingIds
<1>19. m.id \in RestingIds /\ m.id # taker.id /\ OfRow(m) /\ m.type = "LIMIT"
       /\ \A o \in resting \ {m} : o.id # m.id /\ o.id # taker.id
  BY <1>14 DEF RestingIds, ExchangeInv, InBook
<1>20. OfRow(taker)
  BY <1>1 DEF ExchangeInv, InBook
<1>21. RestingIds' = IF m.qty = q THEN RestingIds \ {m.id} ELSE RestingIds
  BY <1>9, <1>10, <1>19 DEF RestingIds
<1>22. m.id \in LiveIds /\ taker.id \in LiveIds
  BY <1>14, <1>19 DEF LiveIds
<1>23. LiveIds' \subseteq LiveIds /\ LiveIds \subseteq LiveIds' \cup {m.id}
       /\ (m.id \notin LiveIds' => m.qty = q)
  BY <1>14, <1>18, <1>19, <1>21 DEF LiveIds
<1>24. BusyIds' \subseteq BusyIds /\ m.id \in BusyIds
  <2>1. BusyIds' = LiveIds' \cup {t.maker : t \in Current} \cup {m.id}
    BY <1>13, <1>15 DEF BusyIds
  <2>2. QED
    BY <1>22, <1>23, <2>1 DEF BusyIds
<1>25. \A i : QtyOf(AllRows', i) = QtyOf(AllRows, i) + IF i \in {m.id, taker.id} THEN q ELSE 0
  <2>1. AllRows \subseteq Row /\ IsFiniteSet(AllRows)
    BY DEF ExchangeInv, Typed
  <2>2. \A i : QtyOf(AllRows \cup {r}, i)
               = QtyOf(AllRows, i) + IF i \in {r.maker, r.taker} THEN r.qty ELSE 0
    BY <1>13, <1>17, <2>1, QtyAdd
  <2>3. QED
    BY <1>13, <1>16, <2>2
<1>26. \A i : QtyOf(AllRows, i) \in Nat
  BY QtyIsNat DEF ExchangeInv, Typed
<1>27. Typed'
  <2>1. resting' \subseteq Order
    BY <1>1, <1>9, <1>10
  <2>2. IsFiniteSet(resting')
    <3>1. IsFiniteSet(resting \ {m})
      BY FS_RemoveElement DEF ExchangeInv, Typed
    <3>2. IsFiniteSet((resting \ {m}) \cup {rest})
      BY <3>1, FS_AddElement
    <3>3. QED
      BY <1>10, <3>1, <3>2
  <2>3. trades' \in Seq(Trade)
    <3>1. [maker |-> m, taker |-> taker, price |-> m.price, qty |-> q] \in Trade
      BY <1>1, <1>5 DEF Trade
    <3>2. QED
      BY <1>6, <1>12, <3>1
  <2>4. AllRows' \subseteq Row /\ IsFiniteSet(AllRows')
    BY <1>13, <1>16, FS_AddElement DEF ExchangeInv, Typed
  <2>5. QED
    BY <1>2, <1>7, <2>1, <2>2, <2>3, <2>4 DEF ExchangeInv, Typed
<1>28. Placing'
  BY <1>2, <1>18 DEF ExchangeInv, Placing
<1>29. InBook'
  <2>1. \A o \in resting' : o \in resting \ {m} \/ (o = rest /\ m.qty # q)
    BY <1>10
  <2>2. m.qty # q => rest.qty > 0
    BY <1>5, <1>9
  <2>3. \A o \in resting' : OfRow(o) /\ o.type = "LIMIT" /\ o.qty > 0 /\ o.id \notin TakerIds
    BY <1>9, <1>14, <1>19, <2>1, <2>2 DEF ExchangeInv, InBook, OfRow
  <2>4. \A o, p \in resting' : o.id = p.id => o = p
    BY <1>9, <1>19, <2>1 DEF ExchangeInv, InBook
  <2>5. \A o : OfRow(o)' <=> OfRow(o)
    BY <1>2, <1>18 DEF OfRow
  <2>6. OfRow(taker)' /\ orders'[taker'.id].status = "NEW"
    BY <1>1, <1>2, <1>7, <1>18, <1>20 DEF OfRow, ExchangeInv, InBook
  <2>7. QED
    BY <1>14, <2>3, <2>4, <2>5, <2>6 DEF InBook
<1>30. Trades'
  <2>1. RowOK(r)
    BY <1>3, <1>13, <1>19, <1>20 DEF RowOK, OfRow
  <2>2. \A t : RowOK(t)' <=> RowOK(t)
    BY <1>2, <1>18 DEF RowOK
  <2>3. QED
    BY <1>14, <1>16, <2>1, <2>2 DEF ExchangeInv, Trades
<1>31. Quantities'
  <2>1. \A i \in DOMAIN orders : orders[i].qty \in Nat
    BY RowFields
  <2>2. m.id \in DOMAIN orders /\ taker.id \in DOMAIN orders
    BY <1>19, <1>20 DEF OfRow
  <2>3. m.qty + QtyOf(AllRows, m.id) = orders[m.id].qty
    BY DEF ExchangeInv, Quantities
  <2>4. taker.qty + QtyOf(AllRows, taker.id) = orders[taker.id].qty
    BY <1>1 DEF ExchangeInv, Quantities
  <2>5. ASSUME NEW o \in resting' PROVE o.qty + QtyOf(AllRows', o.id) = orders[o.id].qty
    <3>1. CASE o \in resting \ {m}
      <4>1. QtyOf(AllRows', o.id) = QtyOf(AllRows, o.id)
        BY <1>19, <1>25, <1>26, <3>1
      <4>2. QED
        BY <3>1, <4>1 DEF ExchangeInv, Quantities
    <3>2. CASE o = rest
      <4>1. QtyOf(AllRows', m.id) = QtyOf(AllRows, m.id) + q
        BY <1>25
      <4>2. QED
        BY <1>5, <1>9, <1>26, <2>3, <3>2, <4>1
    <3>3. QED
      BY <1>10, <3>1, <3>2
  <2>6. taker'.qty + QtyOf(AllRows', taker.id) = orders[taker.id].qty
    <3>1. QtyOf(AllRows', taker.id) = QtyOf(AllRows, taker.id) + q
      BY <1>25
    <3>2. QED
      BY <1>5, <1>7, <1>26, <2>4, <3>1
  <2>7. ASSUME NEW i \in DOMAIN orders PROVE QtyOf(AllRows', i) <= orders[i].qty
    <3>1. CASE i = m.id
      BY <1>5, <1>25, <1>26, <2>1, <2>3, <3>1
    <3>2. CASE i = taker.id
      BY <1>5, <1>25, <1>26, <2>1, <2>4, <3>2
    <3>3. CASE i \notin {m.id, taker.id}
      <4>1. QtyOf(AllRows', i) = QtyOf(AllRows, i)
        BY <1>25, <1>26, <3>3
      <4>2. QED
        BY <4>1 DEF ExchangeInv, Quantities
    <3>4. QED
      BY <3>1, <3>2, <3>3
  <2>8. taker'.qty + QtyOf(AllRows', taker.id) <= orders[taker.id].qty
    BY <2>1, <2>2, <2>6
  <2>9. QED
    BY <1>2, <1>7, <2>5, <2>6, <2>7, <2>8 DEF Quantities
<1>32. Reports'
  <2>1. MakersOf(AllRows') = MakersOf(AllRows) \cup {m.id}
    BY <1>13, <1>16 DEF MakersOf
  <2>2. \A k \in DOMAIN settlements : Closing(settlements[k])' <=> Closing(settlements[k])
    BY <1>2 DEF Closing
  <2>3. \A k \in DOMAIN settlements : LeftOver(settlements[k])' <=> LeftOver(settlements[k])
    BY <1>2 DEF LeftOver
  <2>4. QED
    BY <1>2, <1>14, <1>18, <1>24, <2>1, <2>2, <2>3 DEF ExchangeInv, Reports
<1>33. Applied'
  BY <1>2 DEF ExchangeInv, Applied, IsOpen, Closing
<1>34. Table'
  <2>1. \A i : i \notin {m.id, taker.id} => Mentioning(AllRows', i) = Mentioning(AllRows, i)
    BY <1>13, <1>16 DEF Mentioning
  <2>2. \A i : (IsOpen(i)' <=> IsOpen(i)) /\ (ClosingReported(i)' <=> ClosingReported(i))
    BY <1>2 DEF IsOpen, ClosingReported, Closing
  <2>3. ASSUME NEW i \in DOMAIN orders, IsOpen(i), i \notin LiveIds'
        PROVE  QtyOf(AllRows', i) = orders[i].qty \/ ClosingReported(i)
    <3>1. CASE i \in LiveIds
      <4>1. i = m.id /\ m.qty = q
        BY <1>23, <2>3, <3>1
      <4>2. m.qty + QtyOf(AllRows, m.id) = orders[m.id].qty
        BY DEF ExchangeInv, Quantities
      <4>3. QED
        BY <1>5, <1>25, <1>26, <4>1, <4>2
    <3>2. CASE i \notin LiveIds
      <4>1. QtyOf(AllRows', i) = QtyOf(AllRows, i)
        BY <1>22, <1>25, <1>26, <3>2
      <4>2. QED
        BY <2>3, <3>2, <4>1 DEF ExchangeInv, Table
    <3>3. QED
      BY <3>1, <3>2
  <2>4. ASSUME NEW i \in DOMAIN orders, ~IsOpen(i)
        PROVE  i \notin BusyIds' /\ Mentioning(AllRows', i) \subseteq tradeTable
    <3>1. i \notin BusyIds /\ Mentioning(AllRows, i) \subseteq tradeTable
      BY <2>4 DEF ExchangeInv, Table
    <3>2. i \notin {m.id, taker.id}
      BY <1>22, <3>1 DEF BusyIds
    <3>3. QED
      BY <1>24, <2>1, <3>1, <3>2
  <2>5. QED
    BY <1>2, <2>2, <2>3, <2>4 DEF ExchangeInv, Table
<1>35. QED
  BY <1>27, <1>28, <1>29, <1>30, <1>31, <1>32, <1>33, <1>34 DEF ExchangeInv

\* The self-trade prevention drops the rest of the taker.
LEMMA ForfeitKeeps ==
  ASSUME ExchangeInv, Engine!Forfeit, UNCHANGED serviceVars
  PROVE  ExchangeInv'
<1>1. UNCHANGED <<balance, locked, orders, tradeTable, topic, settlements, snapshots, asked>>
      /\ UNCHANGED <<resting, trades>>
  BY DEF serviceVars, dbVars, Engine!Forfeit
<1>2. taker # NoOrder /\ taker \in Order /\ taker' = [taker EXCEPT !.qty = 0]
  BY DEF Engine!Forfeit, ExchangeInv, Typed
<1>3. /\ taker' \in Order /\ taker'.id = taker.id /\ taker'.qty = 0
      /\ taker'.user = taker.user /\ taker'.side = taker.side
      /\ taker'.type = taker.type /\ taker'.price = taker.price
      /\ taker' # NoOrder
  BY <1>2, NoOrderAssumption DEF Order
<1>4. RestingIds' = RestingIds /\ TakerIds' = TakerIds /\ WaitingIds' = WaitingIds
  BY <1>1, <1>2, <1>3 DEF RestingIds, TakerIds, WaitingIds
<1>5. Current' = Current
  BY <1>1, <1>2, <1>3 DEF Current, Rows, IsTrades, SettlementRequested, TradeRow
<1>6. Reported' = Reported /\ AllRows' = AllRows
  BY <1>1, <1>5 DEF Reported, AllRows
<1>7. LiveIds' = LiveIds /\ BusyIds' = BusyIds
  BY <1>4, <1>5 DEF LiveIds, BusyIds
<1>8. Typed' /\ Placing'
  BY <1>1, <1>3, <1>4, <1>6 DEF ExchangeInv, Typed, Placing
<1>9. InBook' /\ Trades'
  BY <1>1, <1>2, <1>3, <1>4, <1>6 DEF ExchangeInv, InBook, OfRow, Trades, RowOK
<1>10. Quantities'
  <2>1. taker.id \in DOMAIN orders
    BY <1>2 DEF ExchangeInv, InBook, OfRow
  <2>2. QtyOf(AllRows, taker.id) <= orders[taker.id].qty /\ QtyOf(AllRows, taker.id) \in Nat
    BY <2>1, QtyIsNat DEF ExchangeInv, Quantities, Typed
  <2>3. QED
    BY <1>1, <1>3, <1>6, <2>2 DEF ExchangeInv, Quantities
<1>11. Reports'
  BY <1>1, <1>4, <1>6, <1>7 DEF ExchangeInv, Reports, LeftOver, Closing
<1>12. Applied' /\ Table'
  BY <1>1, <1>6, <1>7 DEF ExchangeInv, Applied, Table, IsOpen, Closing, ClosingReported
<1>13. QED
  BY <1>8, <1>9, <1>10, <1>11, <1>12 DEF ExchangeInv

\* What the engine has reported stays as it is when a new event is appended.
LEMMA EventAppended ==
  ASSUME settlements \in Seq(Event), NEW ev \in Event, settlements' = Append(settlements, ev)
  PROVE  /\ settlements' \in Seq(Event)
         /\ DOMAIN settlements' = DOMAIN settlements \cup {Len(settlements) + 1}
         /\ \A k \in DOMAIN settlements : settlements'[k] = settlements[k] /\ k < Len(settlements) + 1
         /\ settlements'[Len(settlements) + 1] = ev
         /\ DOMAIN settlements \subseteq Nat
         /\ Len(settlements) \in Nat
         /\ RowsOf(settlements') = RowsOf(settlements) \cup Rows(ev)
<1>1. RowsOf(settlements') = RowsOf(settlements) \cup Rows(ev)
  BY RowsOfAppend
<1>2. QED
  BY <1>1

\* The engine is done with the taker: its trades move to the event, and the
\* order rests, or the event closes it.
LEMMA FinishKeeps ==
  ASSUME ExchangeInv, Finish
  PROVE  ExchangeInv'
<1>1. /\ taker # NoOrder /\ taker' = NoOrder
      /\ UNCHANGED <<balance, locked, orders, tradeTable, topic, asked, trades>>
      /\ snapshots' = snapshots \cup {{o \in resting' : o.side = "SELL"}}
  BY DEF Finish, dbVars, PublishBook, Engine!Rest, Engine!Done
<1>2. \/ /\ taker.qty > 0 /\ taker.type = "LIMIT" /\ resting' = resting \cup {taker}
      \/ /\ taker.qty = 0 \/ taker.type = "MARKET"
         /\ resting' = resting
  BY DEF Finish, Engine!Rest, Engine!Done
<1>3. /\ taker \in Order /\ resting \subseteq Order /\ trades \in Seq(Trade)
      /\ settlements \in Seq(Event)
  BY <1>1 DEF ExchangeInv, Typed
<1>4. PICK ev : ev = SettlementRequested
  OBVIOUS
<1>5. /\ ev \in TradesEvent /\ ev \in Event /\ IsTrades(ev)
      /\ ev.id = taker.id /\ ev.remaining = taker.qty /\ Rows(ev) = Current
  <2> DEFINE fill == [k \in DOMAIN trades |->
                [maker |-> trades[k].maker.id, price |-> trades[k].price, qty |-> trades[k].qty]]
  <2>1. ev = [kind |-> "trades", id |-> taker.id, remaining |-> taker.qty, trades |-> fill]
    BY <1>4 DEF SettlementRequested
  <2>2. Current = Rows(ev)
    BY <1>1, <1>4 DEF Current
  <2>3. ASSUME NEW k \in DOMAIN trades PROVE fill[k] \in Fill
    <3>1. TradeRow(ev, k) \in Current
      BY <2>1, <2>2 DEF Rows, IsTrades
    <3>2. TradeRow(ev, k) \in Row
      BY <3>1 DEF ExchangeInv, Typed, AllRows
    <3>3. TradeRow(ev, k).maker = fill[k].maker /\ TradeRow(ev, k).price = fill[k].price
          /\ TradeRow(ev, k).qty = fill[k].qty
      BY <2>1 DEF TradeRow
    <3>4. QED
      BY <3>2, <3>3 DEF Row, Fill
  <2>4. fill \in Seq(Fill)
    <3>1. DOMAIN trades = 1..Len(trades) /\ Len(trades) \in Nat
      BY <1>3
    <3>2. fill \in [1..Len(trades) -> Fill]
      BY <2>3, <3>1
    <3> HIDE DEF fill
    <3>3. QED
      BY <3>1, <3>2
  <2>5. taker.id \in Ids /\ taker.qty \in Nat
    BY <1>3 DEF Order, Ids
  <2> HIDE DEF fill
  <2>6. ev \in TradesEvent
    BY <2>1, <2>4, <2>5 DEF TradesEvent
  <2>7. QED
    BY <2>1, <2>2, <2>6 DEF Event, IsTrades
<1>6. TakerIds = {taker.id} /\ TakerIds' = {} /\ Current' = {} /\ WaitingIds' = WaitingIds
  BY <1>1 DEF TakerIds, Current, WaitingIds
<1>7. OfRow(taker) /\ orders[taker.id].status = "NEW" /\ taker.id \in DOMAIN orders
  BY <1>1 DEF ExchangeInv, InBook, OfRow
<1>8. taker.id \notin WaitingIds /\ taker.id \notin RestingIds
  BY <1>6, <1>7 DEF OfRow, ExchangeInv, InBook, RestingIds
<1> DEFINE Complete == taker.qty = 0 \/ taker.type = "MARKET"
<1>9. /\ Closing(ev)' <=> Complete
      /\ Complete => RestingIds' = RestingIds
      /\ ~Complete => RestingIds' = RestingIds \cup {taker.id}
  <2>1. Closing(ev)' <=> Complete
    BY <1>1, <1>5, <1>7 DEF Closing, OfRow
  <2>2. taker.type = "LIMIT" => taker.type # "MARKET"
    OBVIOUS
  <2>3. taker.qty \in Nat
    BY <1>3 DEF Order
  <2>4. QED
    BY <1>2, <2>1, <2>2, <2>3 DEF RestingIds
<1>10. /\ LiveIds' \subseteq LiveIds
       /\ LiveIds \subseteq LiveIds' \cup {taker.id}
       /\ taker.id \notin LiveIds' <=> Complete
       /\ BusyIds' = LiveIds'
       /\ BusyIds' \subseteq BusyIds
  <2>1. BusyIds' = LiveIds'
    BY <1>6 DEF BusyIds
  <2>2. /\ LiveIds' \subseteq LiveIds
        /\ LiveIds \subseteq LiveIds' \cup {taker.id}
        /\ taker.id \notin LiveIds' <=> Complete
    BY <1>6, <1>8, <1>9 DEF LiveIds
  <2>3. QED
    BY <2>1, <2>2 DEF BusyIds
<1>11. \/ settlements' = Append(settlements, ev)
       \/ settlements' = settlements /\ Current = {} /\ ~Complete
  <2>1. settlements' = IF NeedsSettlement THEN Append(settlements, ev) ELSE settlements
    BY <1>4 DEF Finish
  <2>2. CASE NeedsSettlement
    BY <2>1, <2>2
  <2>3. CASE ~NeedsSettlement
    <3>1. trades = <<>> /\ ~Complete
      BY <2>3 DEF NeedsSettlement
    <3>2. ev.trades = <<>>
      BY <1>4, <3>1 DEF SettlementRequested
    <3>3. Rows(ev) = {}
      BY <1>5, <3>2 DEF Rows
    <3>4. QED
      BY <1>5, <2>1, <2>3, <3>1, <3>3
  <2>4. QED
    BY <2>2, <2>3
<1> HIDE DEF Complete
<1>12. settlements' \in Seq(Event) /\ RowsOf(settlements') = RowsOf(settlements) \cup Current
  BY <1>3, <1>5, <1>11, EventAppended
<1>13. Reported' = AllRows /\ AllRows' = AllRows
  BY <1>1, <1>6, <1>12 DEF Reported, AllRows
<1>14. \A t \in AllRows : t.maker # taker.id
  <2>1. \A t \in Reported : t.maker # taker.id
    BY <1>6 DEF ExchangeInv, Trades
  <2>2. \A t \in Current : t.taker = taker.id
    BY <1>5, EventRows
  <2>3. \A t \in Current : t.maker # t.taker
    BY DEF ExchangeInv, Trades, RowOK, AllRows
  <2>4. QED
    BY <2>1, <2>2, <2>3 DEF AllRows
<1>15. Mentions(ev) \subseteq DOMAIN orders \ WaitingIds
  BY <1>5, <1>7 DEF Mentions, MakersOf, ExchangeInv, Trades, RowOK, AllRows, OfRow
<1>16. LeftOver(ev)
  <2>1. Mentioning(AllRows, taker.id) = Mentioning(Current, taker.id)
    <3>1. \A t \in Reported : t.maker # taker.id /\ t.taker # taker.id
      BY <1>6 DEF ExchangeInv, Trades
    <3>2. QED
      BY <3>1 DEF Mentioning, AllRows
  <2>2. QtyOf(AllRows, taker.id) = QtyOf(Rows(ev), ev.id)
    BY <1>5, <2>1, QtySame
  <2>3. QED
    BY <1>1, <1>5, <2>2 DEF LeftOver, ExchangeInv, Quantities
\* Every event of the new topic is an old one at its old place, or the last.
<1>17. PICK n \in Nat :
         \A k \in DOMAIN settlements' :
           \/ k \in DOMAIN settlements /\ settlements'[k] = settlements[k] /\ k < n
           \/ k = n /\ settlements'[k] = ev
  <2>1. \A k \in DOMAIN settlements : k < Len(settlements) + 1
    BY <1>3
  <2>2. CASE settlements' = Append(settlements, ev)
    BY <1>3, <1>5, <2>2, EventAppended
  <2>3. CASE settlements' = settlements
    BY <1>3, <2>1, <2>3
  <2>4. QED
    BY <1>11, <2>2, <2>3
<1>18. \A k \in DOMAIN settlements : k \in Nat /\ settlements[k].id \in DOMAIN orders
  BY <1>3, KnownIds
<1>19. Typed'
  <2>1. resting' \subseteq Order /\ IsFiniteSet(resting')
    BY <1>2, <1>3, FS_AddElement DEF ExchangeInv, Typed
  <2>2. IsFiniteSet({o \in resting' : o.side = "SELL"})
    BY <2>1, FS_Subset
  <2>3. \A s \in snapshots' : s \subseteq Order /\ IsFiniteSet(s)
    BY <1>1, <2>1, <2>2 DEF ExchangeInv, Typed
  <2>4. QED
    BY <1>1, <1>12, <1>13, <2>1, <2>3 DEF ExchangeInv, Typed
<1>20. Placing'
  BY <1>1, <1>6 DEF ExchangeInv, Placing
<1>21. InBook'
  <2>1. \A o \in resting' : o \in resting \/ (o = taker /\ taker.type = "LIMIT" /\ taker.qty > 0)
    BY <1>2
  <2>2. \A o : OfRow(o)' <=> OfRow(o)
    BY <1>1, <1>6 DEF OfRow
  <2>3. \A o, p \in resting' : o.id = p.id => o = p
    BY <1>8, <2>1 DEF RestingIds, ExchangeInv, InBook
  <2>4. QED
    BY <1>1, <1>6, <1>7, <2>1, <2>2, <2>3 DEF ExchangeInv, InBook
<1>22. Trades'
  <2>1. \A t : RowOK(t)' <=> RowOK(t)
    BY <1>1, <1>6 DEF RowOK
  <2>2. QED
    BY <1>6, <1>13, <2>1 DEF ExchangeInv, Trades
<1>23. Quantities'
  <2>1. \A o \in resting' : o.qty + QtyOf(AllRows, o.id) = orders[o.id].qty
    BY <1>1, <1>2 DEF ExchangeInv, Quantities
  <2>2. QED
    BY <1>1, <1>13, <2>1 DEF ExchangeInv, Quantities
<1>24. Reports'
  <2>1. ASSUME NEW j \in DOMAIN settlements', NEW k \in DOMAIN settlements', j < k
        PROVE  /\ IsTrades(settlements'[k]) => settlements'[k].id \notin Mentions(settlements'[j])
               /\ ~IsTrades(settlements'[j]) => settlements'[j].id \notin Mentions(settlements'[k])
    <3>1. j \in DOMAIN settlements /\ settlements'[j] = settlements[j]
      BY <1>17, <1>18, <2>1
    <3>2. CASE k \in DOMAIN settlements /\ settlements'[k] = settlements[k]
      BY <2>1, <3>1, <3>2 DEF ExchangeInv, Reports
    <3>3. CASE settlements'[k] = ev
      <4>1. taker.id \notin Mentions(settlements[j])
        BY <1>6, <3>1 DEF ExchangeInv, Reports
      <4>2. Mentions(ev) \subseteq BusyIds
        BY <1>5, <1>6 DEF Mentions, MakersOf, BusyIds, LiveIds
      <4>3. ~IsTrades(settlements[j]) => settlements[j].id \notin BusyIds
        BY <3>1 DEF ExchangeInv, Reports
      <4>4. QED
        BY <1>5, <3>1, <3>3, <4>1, <4>2, <4>3
    <3>4. QED
      BY <1>17, <3>2, <3>3
  <2>2. \A k \in DOMAIN settlements' :
          Mentions(settlements'[k]) \subseteq DOMAIN orders \ WaitingIds
    BY <1>15, <1>17 DEF ExchangeInv, Reports
  <2>3. \A k \in DOMAIN settlements' : ~IsTrades(settlements'[k]) =>
          settlements'[k].id \notin BusyIds' /\ orders[settlements'[k].id].type = "LIMIT"
    BY <1>5, <1>10, <1>17 DEF ExchangeInv, Reports
  <2>4. \A e : e # ev => (Closing(e)' <=> Closing(e))
    BY <1>1 DEF Closing
  <2>5. ASSUME NEW k \in DOMAIN settlements', Closing(settlements[k])'
        PROVE  settlements'[k].id \notin BusyIds' \cup MakersOf(AllRows)
    <3>1. PICK e : e = settlements'[k]
      OBVIOUS
    <3>2. Closing(e)'
      BY <2>5, <3>1 DEF Closing
    <3>3. CASE e = ev
      BY <1>5, <1>9, <1>10, <1>14, <3>1, <3>2, <3>3 DEF MakersOf
    <3>4. CASE e # ev
      <4>1. Closing(e) /\ k \in DOMAIN settlements /\ e = settlements[k]
        BY <1>17, <2>4, <3>1, <3>2, <3>4
      <4>2. QED
        BY <1>10, <3>1, <4>1 DEF ExchangeInv, Reports
    <3>5. QED
      BY <3>3, <3>4
  <2>6. \A e : LeftOver(e)' <=> LeftOver(e)
    BY <1>1 DEF LeftOver
  <2>7. \A k \in DOMAIN settlements' : IsTrades(settlements'[k]) => LeftOver(settlements'[k])
    BY <1>16, <1>17 DEF ExchangeInv, Reports
  <2>8. QED
    BY <1>1, <1>6, <1>13, <2>1, <2>2, <2>3, <2>5, <2>6, <2>7 DEF Reports
<1>25. Applied'
  <2>1. \A e : Closing(e)' <=> Closing(e)
    BY <1>1 DEF Closing
  <2>2. \A i : IsOpen(i)' <=> IsOpen(i)
    BY <1>1 DEF IsOpen
  <2>3. QED
    BY <1>1, <1>5, <1>7, <1>17, <2>1, <2>2 DEF ExchangeInv, Applied
<1>26. Table'
  <2>1. \A i : IsOpen(i)' <=> IsOpen(i)
    BY <1>1 DEF IsOpen
  <2>2. \A i : ClosingReported(i) => ClosingReported(i)'
    <3>1. \A e : Closing(e)' <=> Closing(e)
      BY <1>1 DEF Closing
    <3>2. \A k \in DOMAIN settlements : k \in DOMAIN settlements' /\ settlements'[k] = settlements[k]
      BY <1>3, <1>5, <1>11, EventAppended
    <3>3. QED
      BY <3>1, <3>2 DEF ClosingReported
  <2>3. Complete => ClosingReported(ev.id)'
    <3>1. Complete => \E k \in DOMAIN settlements' : settlements'[k] = ev
      BY <1>3, <1>5, <1>11, EventAppended
    <3>2. ASSUME NEW k \in DOMAIN settlements', settlements'[k] = ev, Closing(ev)'
          PROVE  ClosingReported(ev.id)'
      BY <3>2 DEF ClosingReported, Closing
    <3>3. QED
      BY <1>9, <3>1, <3>2
  <2>4. ASSUME NEW i \in DOMAIN orders, IsOpen(i), i \notin LiveIds'
        PROVE  QtyOf(AllRows, i) = orders[i].qty \/ ClosingReported(i)'
    <3>1. CASE i = taker.id
      BY <1>5, <1>10, <2>3, <2>4, <3>1
    <3>2. CASE i # taker.id
      BY <1>10, <2>2, <2>4, <3>2 DEF ExchangeInv, Table
    <3>3. QED
      BY <3>1, <3>2
  <2>5. QED
    BY <1>1, <1>10, <1>13, <2>1, <2>4 DEF ExchangeInv, Table
<1>27. QED
  BY <1>19, <1>20, <1>21, <1>22, <1>23, <1>24, <1>25, <1>26 DEF ExchangeInv

-----------------------------------------------------------------------------
(* The engine takes a cancellation *)

\* The engine removes an order and reports it, or ignores the request.
LEMMA TakeCancelKeeps ==
  ASSUME ExchangeInv, TakeCancel
  PROVE  ExchangeInv'
<1>1. /\ taker = NoOrder /\ topic # <<>> /\ Head(topic).kind = "cancel" /\ topic' = Tail(topic)
      /\ UNCHANGED <<balance, locked, orders, tradeTable, asked, taker, trades>>
  BY DEF TakeCancel, dbVars
<1>2. PICK i : i = Head(topic).id
  OBVIOUS
<1>3. resting' = {o \in resting : o.id # i}
  BY <1>2 DEF TakeCancel, WithoutOrder
<1>4. PICK ev : ev = [kind |-> "canceled", id |-> i]
  OBVIOUS
<1>5. \/ i \in RestingIds /\ settlements' = Append(settlements, ev)
      \/ i \notin RestingIds /\ settlements' = settlements
  BY <1>2, <1>4 DEF TakeCancel, RestingIds
<1>6. \/ snapshots' = snapshots
      \/ snapshots' = snapshots \cup {{o \in resting' : o.side = "SELL"}}
  BY DEF TakeCancel, PublishBook
<1>7. topic \in Seq(Command) /\ Placing /\ resting \subseteq Order /\ settlements \in Seq(Event)
  BY DEF ExchangeInv, Typed
<1>8. /\ WaitingIds' = WaitingIds
      /\ i \in Ids
      /\ \A j, k \in DOMAIN topic' :
           topic'[j].kind = "placed" /\ topic'[k].kind = "placed" /\ topic'[j].id = topic'[k].id
             => j = k
  <2>1. Head(topic) \in Command /\ WaitingIds' = WaitingIds
    BY <1>1, <1>7, WaitingTail
  <2>2. \A j, k \in DOMAIN topic' :
          topic'[j].kind = "placed" /\ topic'[k].kind = "placed" /\ topic'[j].id = topic'[k].id
            => j = k
    BY <1>1, <1>7, WaitingTail
  <2>3. QED
    BY <1>2, <2>1, <2>2 DEF Command
<1>9. ev \in Event /\ ~IsTrades(ev) /\ ev.id = i /\ Rows(ev) = {}
  BY <1>4, <1>8 DEF Event, CanceledEvent, IsTrades, Rows
<1>10. RestingIds' = RestingIds \ {i}
  BY <1>3 DEF RestingIds
<1>11. TakerIds = {} /\ TakerIds' = {} /\ Current = {} /\ Current' = {}
  BY <1>1 DEF TakerIds, Current
<1>12. settlements' \in Seq(Event) /\ RowsOf(settlements') = RowsOf(settlements)
  BY <1>5, <1>7, <1>9, EventAppended
<1>13. Reported' = Reported /\ AllRows' = AllRows
  BY <1>1, <1>11, <1>12 DEF Reported, AllRows
<1>14. i \in RestingIds => /\ i \in DOMAIN orders \ WaitingIds
                          /\ orders[i].type = "LIMIT"
                          /\ i \in BusyIds
  BY DEF RestingIds, ExchangeInv, InBook, OfRow, BusyIds, LiveIds
<1>15. /\ LiveIds' \subseteq LiveIds
       /\ LiveIds \subseteq LiveIds' \cup {i}
       /\ i \in RestingIds => i \notin LiveIds'
       /\ i \notin RestingIds => LiveIds' = LiveIds
       /\ BusyIds' = LiveIds' /\ BusyIds = LiveIds
  BY <1>8, <1>10, <1>11, <1>14 DEF LiveIds, BusyIds
<1>16. PICK n \in Nat :
         \A k \in DOMAIN settlements' :
           \/ k \in DOMAIN settlements /\ settlements'[k] = settlements[k] /\ k < n
           \/ k = n /\ settlements'[k] = ev /\ i \in RestingIds
  <2>1. \A k \in DOMAIN settlements : k < Len(settlements) + 1
    BY <1>7
  <2>2. CASE i \in RestingIds /\ settlements' = Append(settlements, ev)
    <3>1. /\ DOMAIN settlements' = DOMAIN settlements \cup {Len(settlements) + 1}
          /\ \A k \in DOMAIN settlements : settlements'[k] = settlements[k]
          /\ settlements'[Len(settlements) + 1] = ev
          /\ Len(settlements) + 1 \in Nat
      BY <1>7, <1>9, <2>2, EventAppended
    <3>2. QED
      BY <2>1, <2>2, <3>1
  <2>3. CASE settlements' = settlements
    BY <1>7, <2>1, <2>3
  <2>4. QED
    BY <1>5, <2>2, <2>3
<1>17. \A k \in DOMAIN settlements : k \in Nat /\ settlements[k].id \in DOMAIN orders
  BY <1>7, KnownIds
<1>18. \A e : (Closing(e)' <=> Closing(e)) /\ (LeftOver(e)' <=> LeftOver(e))
  BY <1>1 DEF Closing, LeftOver
<1>19. ~Closing(ev)
  BY <1>9 DEF Closing
<1>20. Typed'
  <2>1. resting' \subseteq Order /\ IsFiniteSet(resting')
    BY <1>3, <1>7, FS_Subset DEF ExchangeInv, Typed
  <2>2. IsFiniteSet({o \in resting' : o.side = "SELL"})
    BY <2>1, FS_Subset
  <2>3. \A s \in snapshots' : s \subseteq Order /\ IsFiniteSet(s)
    BY <1>6, <2>1, <2>2 DEF ExchangeInv, Typed
  <2>4. topic' \in Seq(Command)
    BY <1>1, <1>7
  <2>5. QED
    BY <1>1, <1>12, <1>13, <2>1, <2>3, <2>4 DEF ExchangeInv, Typed
<1>21. Placing'
  BY <1>1, <1>8 DEF ExchangeInv, Placing
<1>22. InBook' /\ Trades' /\ Quantities'
  <2>1. \A o \in resting' : o \in resting
    BY <1>3
  <2>2. InBook'
    BY <1>1, <1>8, <1>11, <2>1 DEF ExchangeInv, InBook, OfRow
  <2>3. Trades'
    BY <1>1, <1>8, <1>11, <1>13 DEF ExchangeInv, Trades, RowOK
  <2>4. Quantities'
    BY <1>1, <1>13, <2>1 DEF ExchangeInv, Quantities
  <2>5. QED
    BY <2>2, <2>3, <2>4
<1>23. Reports'
  <2>1. ASSUME NEW j \in DOMAIN settlements', NEW k \in DOMAIN settlements', j < k
        PROVE  /\ IsTrades(settlements'[k]) => settlements'[k].id \notin Mentions(settlements'[j])
               /\ ~IsTrades(settlements'[j]) => settlements'[j].id \notin Mentions(settlements'[k])
    <3>1. j \in DOMAIN settlements /\ settlements'[j] = settlements[j]
      BY <1>16, <1>17, <2>1
    <3>2. CASE k \in DOMAIN settlements /\ settlements'[k] = settlements[k]
      BY <2>1, <3>1, <3>2 DEF ExchangeInv, Reports
    <3>3. CASE settlements'[k] = ev /\ i \in RestingIds
      <4>1. Mentions(ev) = {i}
        BY <1>9 DEF Mentions, MakersOf
      <4>2. ~IsTrades(settlements[j]) => settlements[j].id \notin BusyIds
        BY <3>1 DEF ExchangeInv, Reports
      <4>3. QED
        BY <1>9, <1>14, <3>1, <3>3, <4>1, <4>2
    <3>4. QED
      BY <1>16, <3>2, <3>3
  <2>2. \A k \in DOMAIN settlements' :
          Mentions(settlements'[k]) \subseteq DOMAIN orders \ WaitingIds
    <3>1. Mentions(ev) = {i}
      BY <1>9 DEF Mentions, MakersOf
    <3>2. QED
      BY <1>14, <1>16, <3>1 DEF ExchangeInv, Reports
  <2>3. \A k \in DOMAIN settlements' : ~IsTrades(settlements'[k]) =>
          settlements'[k].id \notin BusyIds' /\ orders[settlements'[k].id].type = "LIMIT"
    BY <1>9, <1>14, <1>15, <1>16 DEF ExchangeInv, Reports
  <2>4. ASSUME NEW k \in DOMAIN settlements', Closing(settlements[k])'
        PROVE  settlements'[k].id \notin BusyIds' \cup MakersOf(AllRows)
    <3>1. PICK e : e = settlements'[k]
      OBVIOUS
    <3>2. Closing(e)
      BY <1>1, <2>4, <3>1 DEF Closing
    <3>3. k \in DOMAIN settlements /\ e = settlements[k]
      BY <1>16, <1>19, <3>1, <3>2
    <3>4. QED
      BY <1>15, <3>1, <3>2, <3>3 DEF ExchangeInv, Reports
  <2>5. \A k \in DOMAIN settlements' : IsTrades(settlements'[k]) => LeftOver(settlements'[k])
    BY <1>9, <1>16 DEF ExchangeInv, Reports
  <2>6. QED
    BY <1>1, <1>8, <1>11, <1>13, <1>18, <2>1, <2>2, <2>3, <2>4, <2>5 DEF Reports
<1>24. \A k : IsOpen(k)' <=> IsOpen(k)
  BY <1>1 DEF IsOpen
<1>25. Applied'
  BY <1>1, <1>9, <1>16, <1>18, <1>24 DEF ExchangeInv, Applied
<1>26. Table'
  <2>1. \A k \in DOMAIN settlements : k \in DOMAIN settlements' /\ settlements'[k] = settlements[k]
    BY <1>5, <1>7, <1>9, EventAppended
  <2>2. \A l : ClosingReported(l) => ClosingReported(l)'
    BY <1>18, <2>1 DEF ClosingReported
  <2>3. i \in RestingIds => ClosingReported(i)'
    <3>1. i \in RestingIds => \E k \in DOMAIN settlements' : settlements'[k] = ev
      BY <1>5, <1>7, <1>9, EventAppended
    <3>2. QED
      BY <1>9, <3>1 DEF ClosingReported
  <2>4. ASSUME NEW l \in DOMAIN orders, IsOpen(l), l \notin LiveIds'
        PROVE  QtyOf(AllRows, l) = orders[l].qty \/ ClosingReported(l)'
    <3>1. CASE l \in LiveIds
      BY <1>15, <2>3, <2>4, <3>1
    <3>2. CASE l \notin LiveIds
      BY <2>2, <2>4, <3>2 DEF ExchangeInv, Table
    <3>3. QED
      BY <3>1, <3>2
  <2>5. QED
    BY <1>1, <1>13, <1>15, <1>24, <2>4 DEF ExchangeInv, Table
<1>27. QED
  BY <1>20, <1>21, <1>22, <1>23, <1>25, <1>26 DEF ExchangeInv

-----------------------------------------------------------------------------
(* The order-service handles an event of exchange.settlements *)

\* What the handling of the first event amounts to, whether it is applied or
\* has been applied before.
Handled(ev) ==
  /\ settlements # <<>> /\ ev = Head(settlements)
  /\ settlements' \in {settlements, Tail(settlements)}
  /\ UNCHANGED <<topic, snapshots, asked, resting, taker, trades>>
  /\ orders' \in Seq(OrderRow) /\ DOMAIN orders' = DOMAIN orders /\ KeepsTerms
  /\ tradeTable' = tradeTable \cup Rows(ev)
  /\ \A t \in Rows(ev) : orders'[t.maker].status # "NEW" /\ orders'[t.taker].status # "NEW"
  /\ (IsTrades(ev) /\ ~Closing(ev)) \/ ~IsOpen(ev.id)'
  /\ \A i \in DOMAIN orders :
       /\ i \notin Mentions(ev) => orders'[i].status = orders[i].status
       /\ orders[i].status # "NEW" => orders'[i].status # "NEW"
       /\ IsOpen(i)' => IsOpen(i) /\ orders'[i].filled < orders[i].qty
       /\ orders'[i].filled = QtyOf(tradeTable', i)
       /\ ~IsOpen(i)' => i \notin BusyIds /\ Mentioning(AllRows, i) \subseteq tradeTable'

\* An event that has been handled as Handled says leaves the invariant.
LEMMA HandledKeeps ==
  ASSUME ExchangeInv, NEW ev, Handled(ev)
  PROVE  ExchangeInv'
<1>1. /\ settlements \in Seq(Event) /\ settlements # <<>> /\ ev = settlements[1] /\ 1 \in DOMAIN settlements
      /\ UNCHANGED <<topic, snapshots, asked, resting, taker, trades>>
  BY DEF Handled, ExchangeInv, Typed
\* The event with index k in the new topic has index k + d in the old one.
<1>2. PICK d \in {0, 1} :
        /\ settlements' = settlements => d = 0
        /\ d = 1 => settlements' = Tail(settlements)
        /\ \A k \in DOMAIN settlements' :
             /\ k \in Nat \ {0}
             /\ k + d \in DOMAIN settlements
             /\ settlements'[k] = settlements[k + d]
        /\ \A k \in DOMAIN settlements :
             k # 1 \/ d = 0 => k - d \in DOMAIN settlements' /\ settlements'[k - d] = settlements[k]
  <2>1. CASE settlements' = settlements
    <3>1. \A k \in DOMAIN settlements : k \in Nat \ {0} /\ k + 0 = k /\ k - 0 = k
      BY <1>1
    <3>2. QED
      BY <2>1, <3>1
  <2>2. CASE settlements' # settlements /\ settlements' = Tail(settlements)
    <3> DEFINE s == Tail(settlements)
    <3>1. Len(settlements) \in Nat /\ DOMAIN settlements = 1..Len(settlements)
          /\ DOMAIN s = 1..(Len(settlements) - 1)
          /\ \A k \in DOMAIN s : s[k] = settlements[k + 1]
      BY <1>1
    <3> HIDE DEF s
    <3>2. \A k \in DOMAIN s : k \in Nat \ {0} /\ k + 1 \in DOMAIN settlements
      BY <3>1
    <3>3. \A k \in DOMAIN settlements : k # 1 => k - 1 \in DOMAIN s /\ (k - 1) + 1 = k
      BY <3>1
    <3>4. /\ \A k \in DOMAIN settlements' :
               /\ k \in Nat \ {0}
               /\ k + 1 \in DOMAIN settlements
               /\ settlements'[k] = settlements[k + 1]
          /\ \A k \in DOMAIN settlements :
               k # 1 => k - 1 \in DOMAIN settlements' /\ settlements'[k - 1] = settlements[k]
      BY <2>2, <3>1, <3>2, <3>3 DEF s
    <3>5. QED
      BY <2>2, <3>4
  <2>3. QED
    BY <2>1, <2>2 DEF Handled
<1>3. WaitingIds' = WaitingIds /\ RestingIds' = RestingIds /\ TakerIds' = TakerIds /\ Current' = Current
  BY <1>1 DEF WaitingIds, RestingIds, TakerIds, Current, SettlementRequested
<1>4. LiveIds' = LiveIds /\ BusyIds' = BusyIds
  BY <1>3 DEF LiveIds, BusyIds
<1>5. tradeTable' = tradeTable \cup Rows(ev)
  BY DEF Handled
<1>6. settlements' \in Seq(Event) /\ Reported' = Reported /\ AllRows' = AllRows
  <2>1. RowsOf(settlements) = Rows(ev) \cup RowsOf(Tail(settlements))
    BY <1>1, RowsOfTail
  <2>2. tradeTable' \cup RowsOf(settlements') = tradeTable \cup RowsOf(settlements)
    <3>1. CASE settlements' = settlements
      BY <1>5, <2>1, <3>1
    <3>2. CASE settlements' = Tail(settlements)
      BY <1>5, <2>1, <3>2
    <3>3. QED
      BY <3>1, <3>2 DEF Handled
  <2>3. settlements' \in Seq(Event)
    <3>1. Tail(settlements) \in Seq(Event)
      BY <1>1
    <3>2. QED
      BY <1>1, <3>1 DEF Handled
  <2>4. QED
    BY <1>3, <2>2, <2>3 DEF Reported, AllRows
<1>7. /\ orders' \in Seq(OrderRow) /\ DOMAIN orders' = DOMAIN orders
      /\ \A i \in DOMAIN orders :
           /\ orders'[i].user = orders[i].user
           /\ orders'[i].side = orders[i].side
           /\ orders'[i].type = orders[i].type
           /\ orders'[i].price = orders[i].price
           /\ orders'[i].qty = orders[i].qty
  BY DEF Handled, KeepsTerms
<1>8. /\ Mentions(ev) \subseteq DOMAIN orders \ (TakerIds \cup WaitingIds)
      /\ \A k \in DOMAIN settlements : settlements[k].id \in DOMAIN orders
  BY <1>1, KnownIds DEF ExchangeInv, Reports
<1>9. \A i \in DOMAIN orders : i \notin Mentions(ev) => orders'[i].status = orders[i].status
  BY DEF Handled
<1>10. \A e : e.id \in DOMAIN orders =>
         (Closing(e)' <=> Closing(e)) /\ (LeftOver(e)' <=> LeftOver(e))
  BY <1>7, <1>8 DEF Closing, LeftOver
\* An event that comes later than the first one is not affected.
<1>11. \A k \in DOMAIN settlements :
         k # 1 /\ IsTrades(settlements[k]) => orders'[settlements[k].id].status = "NEW"
  <2> SUFFICES ASSUME NEW k \in DOMAIN settlements, k # 1, IsTrades(settlements[k])
               PROVE  orders'[settlements[k].id].status = "NEW"
    OBVIOUS
  <2>1. 1 < k
    BY <1>1
  <2>2. settlements[k].id \notin Mentions(ev)
    BY <1>1, <2>1 DEF ExchangeInv, Reports
  <2>3. orders[settlements[k].id].status = "NEW"
    BY DEF ExchangeInv, Applied
  <2>4. QED
    BY <1>8, <1>9, <2>2, <2>3
<1>12. Typed'
  <2>1. \A i \in DOMAIN orders : orders'[i].qty > 0
    BY <1>7 DEF ExchangeInv, Typed
  <2>2. QED
    BY <1>1, <1>6, <1>7, <2>1 DEF ExchangeInv, Typed
<1>13. Placing'
  BY <1>1, <1>3, <1>7, <1>8, <1>9 DEF ExchangeInv, Placing
<1>14. InBook'
  <2>1. \A o : OfRow(o) => OfRow(o)'
    BY <1>3, <1>7 DEF OfRow
  <2>2. taker # NoOrder => orders'[taker.id].status = "NEW"
    <3>1. taker # NoOrder => taker.id \in DOMAIN orders /\ taker.id \notin Mentions(ev)
      BY <1>8 DEF TakerIds, ExchangeInv, InBook, OfRow
    <3>2. QED
      BY <1>9, <3>1 DEF ExchangeInv, InBook
  <2>3. taker # NoOrder => OfRow(taker)'
    BY <1>1, <1>3, <1>7 DEF ExchangeInv, InBook, OfRow
  <2>4. QED
    BY <1>1, <1>3, <2>1, <2>2, <2>3 DEF ExchangeInv, InBook
<1>15. Trades'
  <2>1. \A t \in AllRows : RowOK(t)'
    BY <1>3, <1>7 DEF ExchangeInv, Trades, RowOK
  <2>2. QED
    BY <1>3, <1>6, <2>1 DEF ExchangeInv, Trades
<1>16. Quantities'
  <2>1. \A i \in RestingIds \cup TakerIds : i \in DOMAIN orders
    BY KnownIds
  <2>2. QED
    BY <1>1, <1>6, <1>7, <2>1 DEF ExchangeInv, Quantities, RestingIds, TakerIds
<1>17. Reports'
  <2>1. ASSUME NEW j \in DOMAIN settlements', NEW k \in DOMAIN settlements', j < k
        PROVE  /\ IsTrades(settlements'[k]) => settlements'[k].id \notin Mentions(settlements'[j])
               /\ ~IsTrades(settlements'[j]) => settlements'[j].id \notin Mentions(settlements'[k])
    <3>1. j + d < k + d
      BY <1>2, <2>1
    <3>2. QED
      BY <1>2, <3>1 DEF ExchangeInv, Reports
  <2>2. ASSUME NEW k \in DOMAIN settlements', NEW e, e = settlements'[k]
        PROVE  /\ Mentions(e) \subseteq DOMAIN orders \ (TakerIds \cup WaitingIds)
               /\ ~IsTrades(e) => e.id \notin BusyIds /\ orders[e.id].type = "LIMIT"
               /\ Closing(e) => e.id \notin BusyIds \cup MakersOf(AllRows)
               /\ IsTrades(e) => LeftOver(e)
               /\ (Closing(e)' <=> Closing(e)) /\ (LeftOver(e)' <=> LeftOver(e))
               /\ orders'[e.id].type = orders[e.id].type
    <3>1. k + d \in DOMAIN settlements /\ e = settlements[k + d]
      BY <1>2, <2>2
    <3>2. e.id \in DOMAIN orders
      BY <1>8, <3>1
    <3>3. QED
      BY <1>7, <1>10, <3>1, <3>2 DEF ExchangeInv, Reports
  <2>3. \A k \in DOMAIN settlements' :
          Mentions(settlements'[k]) \subseteq DOMAIN orders' \ (TakerIds' \cup WaitingIds')
    BY <1>3, <1>7, <2>2
  <2>4. \A k \in DOMAIN settlements' : ~IsTrades(settlements'[k]) =>
          settlements'[k].id \notin BusyIds' /\ orders'[settlements'[k].id].type = "LIMIT"
    BY <1>4, <2>2
  <2>5. (\A k \in DOMAIN settlements : Closing(settlements[k]) =>
          settlements[k].id \notin BusyIds \cup MakersOf(AllRows))'
    BY <1>4, <1>6, <2>2 DEF Closing
  <2>6. (\A k \in DOMAIN settlements : IsTrades(settlements[k]) => LeftOver(settlements[k]))'
    BY <2>2 DEF LeftOver
  <2>7. QED
    BY <2>1, <2>3, <2>4, <2>5, <2>6 DEF Reports
<1>18. Applied'
  <2>1. ASSUME NEW k \in DOMAIN settlements', NEW e, e = settlements'[k],
               IsTrades(e), orders'[e.id].status # "NEW"
        PROVE  k = 1 /\ Rows(e) \subseteq tradeTable' /\ (Closing(e)' => ~IsOpen(e.id)')
    <3>1. k + d = 1 /\ e = settlements[k + d]
      BY <1>2, <1>11, <2>1
    <3>2. k = 1 /\ e = ev
      BY <1>1, <1>2, <3>1
    <3>3. Closing(ev)' <=> Closing(ev)
      BY <1>1, <1>8, <1>10
    <3>4. Closing(ev)' => ~IsOpen(ev.id)'
      BY <2>1, <3>2, <3>3 DEF Handled
    <3>5. QED
      BY <1>5, <3>2, <3>4
  <2>2. \A t \in tradeTable' : orders'[t.maker].status # "NEW" /\ orders'[t.taker].status # "NEW"
    <3>1. \A t \in tradeTable : t.maker \in DOMAIN orders /\ t.taker \in DOMAIN orders
      BY KnownIds DEF AllRows, Reported, MakersOf
    <3>2. \A t \in tradeTable : orders'[t.maker].status # "NEW" /\ orders'[t.taker].status # "NEW"
      BY <3>1 DEF Handled, ExchangeInv, Applied
    <3>3. QED
      BY <1>5, <3>2 DEF Handled
  <2>3. QED
    BY <2>1, <2>2 DEF Applied, Closing, IsOpen
<1>19. Table'
  <2>1. ASSUME NEW i \in DOMAIN orders, IsOpen(i)', i \notin LiveIds
        PROVE  QtyOf(AllRows, i) = orders[i].qty \/ ClosingReported(i)'
    <3>1. QtyOf(AllRows, i) = orders[i].qty \/ ClosingReported(i)
      BY <2>1 DEF Handled, ExchangeInv, Table
    <3>2. SUFFICES ASSUME NEW k \in DOMAIN settlements, settlements[k].id = i,
                          ~IsTrades(settlements[k]) \/ Closing(settlements[k])
                   PROVE  ClosingReported(i)'
      BY <3>1 DEF ClosingReported
    <3>3. k # 1
      BY <1>1, <2>1, <3>2 DEF Handled
    <3>4. k - d \in DOMAIN settlements' /\ settlements'[k - d] = settlements[k]
      BY <1>2, <3>3
    <3>5. PICK l : l = k - d
      OBVIOUS
    <3>6. l \in DOMAIN settlements' /\ settlements'[l] = settlements[k]
      BY <3>4, <3>5
    <3>7. Closing(settlements[k]) => Closing(settlements[l])'
      BY <1>7, <1>8, <3>6 DEF Closing
    <3>8. QED
      BY <3>2, <3>6, <3>7 DEF ClosingReported
  <2>2. QED
    BY <1>4, <1>6, <1>7, <2>1 DEF Table, Handled
<1>20. QED
  BY <1>12, <1>13, <1>14, <1>15, <1>16, <1>17, <1>18, <1>19 DEF ExchangeInv

\* The taker of every trade the engine has not reported yet is the order in its
\* hands; that of every other trade is named by the event.
LEMMA TakerOfRow ==
  /\ \A t \in Current : t.taker \in TakerIds
  /\ \A e : \A t \in Rows(e) : t.taker = e.id /\ IsTrades(e) /\ {t.maker, t.taker} \subseteq Mentions(e)
<1>1. \A e : \A t \in Rows(e) : t.taker = e.id /\ IsTrades(e)
  BY DEF Rows, TradeRow
<1>2. \A t \in Current : t.taker \in TakerIds
  <2>1. SettlementRequested.id = taker.id
    BY DEF SettlementRequested
  <2>2. QED
    BY <1>1, <2>1 DEF Current, TakerIds
<1>3. QED
  BY <1>1, <1>2 DEF Mentions, MakersOf

\* The trades that mention the order of the first event are in the table once
\* the event has been applied, when the order is complete.
LEMMA RowsOfCompleted ==
  ASSUME ExchangeInv, settlements # <<>>, NEW ev, ev = Head(settlements),
         ~IsTrades(ev) \/ Closing(ev)
  PROVE  ev.id \notin BusyIds /\ Mentioning(AllRows, ev.id) \subseteq tradeTable \cup Rows(ev)
<1>1. settlements \in Seq(Event) /\ ev = settlements[1] /\ 1 \in DOMAIN settlements
      /\ \A k \in DOMAIN settlements : k # 1 => 1 < k
  <2>1. settlements \in Seq(Event)
    BY DEF ExchangeInv, Typed
  <2>2. QED
    BY <2>1
<1>2. ev.id \notin BusyIds /\ (IsTrades(ev) => ev.id \notin MakersOf(AllRows))
  BY <1>1 DEF ExchangeInv, Reports
<1>3. ASSUME NEW t \in AllRows, ev.id \in {t.maker, t.taker} PROVE t \in tradeTable \cup Rows(ev)
  <2>1. CASE t \in Current
    <3>1. t.maker \in BusyIds /\ t.taker \in BusyIds
      BY <2>1, TakerOfRow DEF BusyIds, LiveIds
    <3>2. QED
      BY <1>2, <1>3, <3>1
  <2>2. CASE t \in RowsOf(settlements)
    <3>1. PICK k \in DOMAIN settlements : t \in Rows(settlements[k])
      BY <2>2 DEF RowsOf
    <3>2. /\ t.taker = settlements[k].id /\ IsTrades(settlements[k])
          /\ {t.maker, t.taker} \subseteq Mentions(settlements[k])
      BY <3>1, TakerOfRow
    <3>3. CASE k = 1
      BY <1>1, <3>1, <3>3
    <3>4. CASE k # 1 /\ ~IsTrades(ev)
      BY <1>1, <1>3, <3>2, <3>4 DEF ExchangeInv, Reports
    <3>5. CASE k # 1 /\ IsTrades(ev)
      <4>1. t.maker # ev.id
        BY <1>2, <3>5 DEF MakersOf
      <4>2. settlements[k].id \notin Mentions(ev)
        BY <1>1, <3>2, <3>5 DEF ExchangeInv, Reports
      <4>3. QED
        BY <1>3, <3>2, <4>1, <4>2 DEF Mentions
    <3>6. QED
      BY <3>3, <3>4, <3>5
  <2>3. QED
    BY <2>1, <2>2 DEF AllRows, Reported
<1>4. QED
  BY <1>2, <1>3 DEF Mentioning

\* The facts about the first event that every handler starts from.
LEMMA FirstEvent ==
  ASSUME ExchangeInv, settlements # <<>>
  PROVE  LET ev == Head(settlements) IN
         /\ ev \in Event /\ ev = settlements[1] /\ 1 \in DOMAIN settlements
         /\ IsTrades(ev) => ev \in TradesEvent
         /\ Mentions(ev) \subseteq DOMAIN orders \ (TakerIds \cup WaitingIds)
         /\ ev.id \in DOMAIN orders
         /\ Rows(ev) \subseteq RowsOf(settlements)
         /\ Rows(ev) \subseteq AllRows
         /\ ~IsTrades(ev) => Rows(ev) = {}
<1>1. settlements \in Seq(Event)
  BY DEF ExchangeInv, Typed
<1>2. Head(settlements) = settlements[1] /\ 1 \in DOMAIN settlements /\ settlements[1] \in Event
  BY <1>1
<1>3. IsTrades(settlements[1]) => settlements[1] \in TradesEvent
  BY <1>2 DEF IsTrades, Event, CanceledEvent
<1>4. Mentions(settlements[1]) \subseteq DOMAIN orders \ (TakerIds \cup WaitingIds)
  BY <1>2 DEF ExchangeInv, Reports
<1>5. QED
  BY <1>2, <1>3, <1>4 DEF Mentions, RowsOf, AllRows, Reported, Rows

\* A trades event that is skipped had been applied completely.
LEMMA SkipSettledHandled ==
  ASSUME ExchangeInv, settlements # <<>>, NEW ev, ev = Head(settlements), SkipSettled(ev),
         UNCHANGED engineVars
  PROVE  Handled(ev)
<1>1. /\ IsTrades(ev) /\ AlreadySettled(ev) /\ settlements' \in {settlements, Tail(settlements)}
      /\ UNCHANGED <<balance, locked, orders, tradeTable, topic, snapshots, asked>>
      /\ UNCHANGED <<resting, taker, trades>>
  BY DEF SkipSettled, IsTrades, Acknowledge, dbVars, engineVars
<1>2. ev \in TradesEvent /\ ev = settlements[1] /\ 1 \in DOMAIN settlements
  BY <1>1, FirstEvent
<1>3. orders[ev.id].status # "NEW"
  <2>1. TradeRow(ev, 1).taker = ev.id
    BY DEF TradeRow
  <2>2. QED
    BY <1>1, <2>1 DEF AlreadySettled, Taker, ExchangeInv, Applied
<1>4. Rows(ev) \subseteq tradeTable /\ (Closing(ev) => ~IsOpen(ev.id))
  BY <1>1, <1>2, <1>3 DEF ExchangeInv, Applied
<1>5. tradeTable' = tradeTable \cup Rows(ev)
  BY <1>1, <1>4
<1>6. \A i : IsOpen(i)' <=> IsOpen(i)
  BY <1>1 DEF IsOpen
<1>7. orders \in Seq(OrderRow) /\ KeepsTerms
  BY <1>1 DEF ExchangeInv, Typed, KeepsTerms
<1>8. \A t \in Rows(ev) : orders[t.maker].status # "NEW" /\ orders[t.taker].status # "NEW"
  BY <1>4 DEF ExchangeInv, Applied
<1>9. (IsTrades(ev) /\ ~Closing(ev)) \/ ~IsOpen(ev.id)'
  BY <1>1, <1>4, <1>6
<1>10. QED
  BY <1>1, <1>5, <1>6, <1>7, <1>8, <1>9 DEF Handled, ExchangeInv, Table

\* A cancellation that is skipped finds the order closed.
LEMMA SkipCanceledHandled ==
  ASSUME ExchangeInv, settlements # <<>>, NEW ev, ev = Head(settlements), SkipCanceled(ev),
         UNCHANGED engineVars
  PROVE  Handled(ev)
<1>1. /\ ~IsTrades(ev) /\ ~IsOpen(ev.id) /\ settlements' \in {settlements, Tail(settlements)}
      /\ UNCHANGED <<balance, locked, orders, tradeTable, topic, snapshots, asked>>
      /\ UNCHANGED <<resting, taker, trades>>
  BY DEF SkipCanceled, IsTrades, Acknowledge, dbVars, engineVars
<1>2. Rows(ev) = {}
  BY <1>1, FirstEvent
<1>3. \A i : IsOpen(i)' <=> IsOpen(i)
  BY <1>1 DEF IsOpen
<1>4. orders \in Seq(OrderRow) /\ KeepsTerms
  BY <1>1 DEF ExchangeInv, Typed, KeepsTerms
<1>5. ~IsOpen(ev.id)'
  BY <1>1, <1>3
<1>6. QED
  BY <1>1, <1>2, <1>3, <1>4, <1>5 DEF Handled, ExchangeInv, Table

\* A cancellation closes an order that has left the engine.
LEMMA SettleCancelHandled ==
  ASSUME ExchangeInv, settlements # <<>>, NEW ev, ev = Head(settlements), SettleCancel(ev),
         UNCHANGED engineVars
  PROVE  Handled(ev)
<1>1. /\ ~IsTrades(ev) /\ IsOpen(ev.id) /\ settlements' \in {settlements, Tail(settlements)}
      /\ orders' = [orders EXCEPT ![ev.id].status = "CANCELED"]
      /\ UNCHANGED <<tradeTable, topic, snapshots, asked, resting, taker, trades>>
  BY DEF SettleCancel, IsTrades, Acknowledge, engineVars
<1>2. ev.id \in DOMAIN orders /\ Rows(ev) = {}
  BY <1>1, FirstEvent
<1>3. orders \in Seq(OrderRow) /\ orders[ev.id] \in OrderRow
  BY <1>2, RowFields DEF ExchangeInv, Typed
<1>4. PICK row : row = [orders[ev.id] EXCEPT !.status = "CANCELED"]
  OBVIOUS
<1>5. /\ row \in OrderRow /\ row.status = "CANCELED"
      /\ row.user = orders[ev.id].user /\ row.side = orders[ev.id].side
      /\ row.type = orders[ev.id].type /\ row.price = orders[ev.id].price
      /\ row.qty = orders[ev.id].qty /\ row.filled = orders[ev.id].filled
      /\ row.lock = orders[ev.id].lock
  BY <1>3, <1>4 DEF OrderRow, Statuses
<1>6. /\ orders' \in Seq(OrderRow) /\ DOMAIN orders' = DOMAIN orders
      /\ orders'[ev.id] = row
      /\ \A i \in DOMAIN orders : i # ev.id => orders'[i] = orders[i]
  <2>1. orders' = [orders EXCEPT ![ev.id] = row]
    BY <1>1, <1>4
  <2>2. QED
    BY <1>2, <1>3, <1>5, <2>1
<1>7. KeepsTerms
  BY <1>5, <1>6 DEF KeepsTerms
<1>8. ~IsOpen(ev.id)'
  BY <1>5, <1>6 DEF IsOpen
<1>9. \A i \in DOMAIN orders : i # ev.id => (IsOpen(i)' <=> IsOpen(i))
  BY <1>6 DEF IsOpen
<1>10. ev.id \notin BusyIds /\ Mentioning(AllRows, ev.id) \subseteq tradeTable
  BY <1>1, <1>2, RowsOfCompleted
<1>11. ASSUME NEW i \in DOMAIN orders
       PROVE  /\ i \notin Mentions(ev) => orders'[i].status = orders[i].status
              /\ orders[i].status # "NEW" => orders'[i].status # "NEW"
              /\ IsOpen(i)' => IsOpen(i) /\ orders'[i].filled < orders[i].qty
              /\ orders'[i].filled = QtyOf(tradeTable', i)
              /\ ~IsOpen(i)' => i \notin BusyIds /\ Mentioning(AllRows, i) \subseteq tradeTable'
  <2>1. ev.id \in Mentions(ev)
    BY DEF Mentions
  <2>2. orders[i].filled = QtyOf(tradeTable, i)
    BY DEF ExchangeInv, Table
  <2>3. CASE i = ev.id
    BY <1>1, <1>5, <1>6, <1>8, <1>10, <2>1, <2>2, <2>3
  <2>4. CASE i # ev.id
    BY <1>1, <1>6, <1>9, <2>2, <2>4 DEF ExchangeInv, Table
  <2>5. QED
    BY <2>3, <2>4
<1>12. QED
  BY <1>1, <1>2, <1>6, <1>7, <1>8, <1>11 DEF Handled

\* An order all of which has been traded and reported has left the engine.
LEMMA AllTraded ==
  ASSUME ExchangeInv, NEW i \in DOMAIN orders, QtyOf(AllRows, i) = orders[i].qty,
         Mentioning(AllRows, i) \subseteq Reported, i \notin WaitingIds \cup TakerIds
  PROVE  i \notin BusyIds
<1>1. i \notin RestingIds
  <2> SUFFICES ASSUME NEW o \in resting, o.id = i PROVE FALSE
    BY DEF RestingIds
  <2>1. o.qty + QtyOf(AllRows, i) = orders[i].qty /\ o.qty > 0
    BY DEF ExchangeInv, Quantities, InBook
  <2>2. o.qty \in Nat /\ orders[i].qty \in Nat
    BY RowFields DEF ExchangeInv, Typed, Order
  <2>3. QED
    BY <2>1, <2>2
<1>2. \A t \in Current : t.maker # i
  <2> SUFFICES ASSUME NEW t \in Current, t.maker = i PROVE FALSE
    OBVIOUS
  <2>1. t \in Reported
    BY DEF Mentioning, AllRows
  <2>2. QED
    BY <2>1, TakerOfRow DEF ExchangeInv, Trades
<1>3. QED
  BY <1>1, <1>2 DEF BusyIds, LiveIds

\* The new status of a taker of which f is filled.
LEMMA TakerStatusIs ==
  ASSUME NEW ev, NEW f, f = TakerFilled(ev), f \in Nat,
         Taker(ev).type \in Types, Taker(ev).status = "NEW"
  PROVE  /\ TakerStatus(ev) \in Statuses
         /\ TakerStatus(ev) \in {"NEW", "PARTIALLY_FILLED"} <=>
              Taker(ev).type = "LIMIT" /\ f # Taker(ev).qty /\ ev.remaining # 0
         /\ f > 0 => TakerStatus(ev) # "NEW"
<1>1. CASE Taker(ev).type = "MARKET"
  <2>1. TakerStatus(ev) = IF f = 0 THEN "CANCELED" ELSE "FILLED"
    BY <1>1 DEF TakerStatus
  <2>2. QED
    BY <1>1, <2>1 DEF Statuses
<1>2. CASE Taker(ev).type = "LIMIT"
  <2>1. TakerStatus(ev) = IF f = Taker(ev).qty THEN "FILLED"
                          ELSE IF ev.remaining = 0 THEN "CANCELED"
                          ELSE IF f > 0 THEN "PARTIALLY_FILLED" ELSE "NEW"
    <3>1. CASE f = Taker(ev).qty
      BY <1>2, <3>1 DEF TakerStatus
    <3>2. CASE f # Taker(ev).qty /\ ev.remaining = 0
      BY <1>2, <3>2 DEF TakerStatus
    <3>3. CASE f # Taker(ev).qty /\ ev.remaining # 0
      BY <1>2, <3>3 DEF TakerStatus
    <3>4. QED
      BY <3>1, <3>2, <3>3
  <2>2. QED
    BY <1>2, <2>1 DEF Statuses
<1>3. QED
  BY <1>1, <1>2 DEF Types

\* What Settle finds: an event whose taker nothing has touched, and makers that
\* are open.
LEMMA SettleFinds ==
  ASSUME ExchangeInv, settlements # <<>>, NEW ev, ev = Head(settlements), Settle(ev)
  PROVE  /\ ev \in TradesEvent /\ IsTrades(ev)
         /\ ev.id \in DOMAIN orders /\ orders[ev.id].status = "NEW" /\ orders[ev.id].filled = 0
         /\ Rows(ev) \cap tradeTable = {}
         /\ ev.id \notin MakersOf(Rows(ev))
         /\ \A i \in MakersOf(Rows(ev)) : i \in DOMAIN orders /\ IsOpen(i)
         /\ Filled(ev) = QtyOf(Rows(ev), ev.id)
         /\ \A i : i # ev.id => MakerFill(ev, i) = QtyOf(Rows(ev), i)
<1>1. IsTrades(ev) /\ ~AlreadySettled(ev)
  BY DEF Settle, IsTrades
<1>2. ev \in TradesEvent /\ ev.id \in DOMAIN orders /\ Rows(ev) \subseteq AllRows
  BY <1>1, FirstEvent
<1>3. orders[ev.id].status = "NEW"
  BY <1>1 DEF AlreadySettled, Taker
<1>4. \A t \in tradeTable : t.maker # ev.id /\ t.taker # ev.id
  BY <1>3 DEF ExchangeInv, Applied
<1>5. orders[ev.id].filled = 0
  <2>1. QtyOf(tradeTable, ev.id) = 0
    BY <1>4, QtyNone DEF Mentioning
  <2>2. QED
    BY <1>2, <2>1 DEF ExchangeInv, Table
<1>6. Rows(ev) \cap tradeTable = {}
  BY <1>4, TakerOfRow
<1>7. ev.id \notin MakersOf(Rows(ev))
  <2>1. \A t \in Rows(ev) : t.taker = ev.id /\ t.maker # t.taker
    BY <1>2, TakerOfRow DEF ExchangeInv, Trades, RowOK
  <2>2. QED
    BY <2>1 DEF MakersOf
<1>8. ASSUME NEW i \in MakersOf(Rows(ev)) PROVE i \in DOMAIN orders /\ IsOpen(i)
  <2>1. PICK t \in Rows(ev) : t.maker = i
    BY DEF MakersOf
  <2>2. t \in Mentioning(AllRows, i) /\ t \notin tradeTable
    BY <1>2, <1>6, <2>1 DEF Mentioning
  <2>3. i \in DOMAIN orders
    BY <1>2, <2>1 DEF ExchangeInv, Trades, RowOK
  <2>4. QED
    BY <2>2, <2>3 DEF ExchangeInv, Table
<1>9. QED
  BY <1>1, <1>2, <1>3, <1>5, <1>6, <1>7, <1>8, EventQty

\* What Settle makes of each row of orders.
LEMMA SettledRow ==
  ASSUME ExchangeInv, settlements # <<>>, NEW ev, ev = Head(settlements), Settle(ev),
         NEW i \in DOMAIN orders
  PROVE  /\ orders'[i] \in OrderRow
         /\ orders'[i].user = orders[i].user /\ orders'[i].side = orders[i].side
         /\ orders'[i].type = orders[i].type /\ orders'[i].price = orders[i].price
         /\ orders'[i].qty = orders[i].qty /\ orders'[i].lock = orders[i].lock
         /\ orders'[i].filled = orders[i].filled + QtyOf(Rows(ev), i)
         /\ i = ev.id => orders'[i].status = TakerStatus(ev)
         /\ i \in MakersOf(Rows(ev)) =>
              orders'[i].status = MakerStatus(i, orders[i].filled + QtyOf(Rows(ev), i))
         /\ i # ev.id /\ i \notin MakersOf(Rows(ev)) => orders'[i] = orders[i]
<1>1. /\ ev \in TradesEvent /\ ev.id \in DOMAIN orders /\ orders[ev.id].status = "NEW"
      /\ ev.id \notin MakersOf(Rows(ev))
      /\ Filled(ev) = QtyOf(Rows(ev), ev.id)
      /\ \A j : j # ev.id => MakerFill(ev, j) = QtyOf(Rows(ev), j)
  BY SettleFinds
<1>2. /\ Filled(ev) \in Nat /\ MakerFill(ev, i) \in Nat
      /\ MakerFill(ev, i) > 0 <=> i \in MakersOf(Rows(ev))
  BY <1>1, EventQty
<1>3. orders' = OrdersAfter(ev)
  BY DEF Settle
<1>4. orders[i] \in OrderRow /\ orders[i].filled \in Nat /\ orders[i].type \in Types
  BY RowFields
<1>5. CASE i = ev.id
  <2>1. PICK f : f = TakerFilled(ev)
    OBVIOUS
  <2>2. PICK st : st = TakerStatus(ev)
    OBVIOUS
  <2>3. f = orders[i].filled + QtyOf(Rows(ev), i) /\ f \in Nat
    BY <1>1, <1>2, <1>4, <1>5, <2>1 DEF TakerFilled, Taker
  <2>4. st \in Statuses
    BY <1>1, <1>4, <1>5, <2>1, <2>2, <2>3, TakerStatusIs DEF Taker
  <2>5. orders'[i] = [orders[i] EXCEPT !.filled = f, !.status = st]
    BY <1>3, <1>5, <2>1, <2>2 DEF OrdersAfter
  <2>6. QED
    BY <1>1, <1>4, <1>5, <2>2, <2>3, <2>4, <2>5 DEF OrderRow
<1>6. CASE i # ev.id /\ MakerFill(ev, i) > 0
  <2>1. PICK f : f = orders[i].filled + MakerFill(ev, i)
    OBVIOUS
  <2>2. PICK st : st = MakerStatus(i, f)
    OBVIOUS
  <2>3. f = orders[i].filled + QtyOf(Rows(ev), i) /\ f \in Nat
    BY <1>1, <1>2, <1>4, <1>6, <2>1
  <2>4. st \in Statuses
    BY <2>2 DEF MakerStatus, Statuses
  <2>5. orders'[i] = [orders[i] EXCEPT !.filled = f, !.status = st]
    BY <1>3, <1>6, <2>1, <2>2 DEF OrdersAfter
  <2>6. QED
    BY <1>2, <1>4, <1>6, <2>2, <2>3, <2>4, <2>5 DEF OrderRow
<1>7. CASE i # ev.id /\ ~(MakerFill(ev, i) > 0)
  <2>1. orders'[i] = orders[i]
    BY <1>3, <1>7 DEF OrdersAfter
  <2>2. QtyOf(Rows(ev), i) = 0
    BY <1>1, <1>2, <1>7
  <2>3. QED
    BY <1>2, <1>4, <1>7, <2>1, <2>2
<1>8. QED
  BY <1>5, <1>6, <1>7

\* A settlement records the trades, fills the orders, and closes those that are
\* complete.
LEMMA SettleHandled ==
  ASSUME ExchangeInv, settlements # <<>>, NEW ev, ev = Head(settlements), Settle(ev),
         UNCHANGED engineVars
  PROVE  Handled(ev)
<1>1. /\ settlements' \in {settlements, Tail(settlements)}
      /\ UNCHANGED <<topic, snapshots, asked, resting, taker, trades>>
  BY DEF Settle, Acknowledge, engineVars
<1>2. /\ ev \in TradesEvent /\ IsTrades(ev) /\ ev = settlements[1] /\ 1 \in DOMAIN settlements
      /\ ev.id \in DOMAIN orders /\ orders[ev.id].status = "NEW" /\ orders[ev.id].filled = 0
      /\ Rows(ev) \cap tradeTable = {}
      /\ ev.id \notin MakersOf(Rows(ev))
      /\ \A i \in MakersOf(Rows(ev)) : i \in DOMAIN orders /\ IsOpen(i)
      /\ Filled(ev) = QtyOf(Rows(ev), ev.id)
      /\ Mentions(ev) \subseteq DOMAIN orders \ (TakerIds \cup WaitingIds)
      /\ Rows(ev) \subseteq AllRows /\ Rows(ev) \subseteq RowsOf(settlements)
  BY SettleFinds, FirstEvent
<1>3. tradeTable' = tradeTable \cup Rows(ev)
  BY <1>2, EventRows DEF Settle
<1>4. DOMAIN orders' = DOMAIN orders /\ orders' \in Seq(OrderRow)
  <2>1. DOMAIN orders' = DOMAIN orders /\ orders' = [i \in DOMAIN orders |-> orders'[i]]
    BY DEF Settle, OrdersAfter
  <2>2. \A i \in DOMAIN orders : orders'[i] \in OrderRow
    BY SettledRow
  <2>3. DOMAIN orders = 1..Len(orders) /\ Len(orders) \in Nat
    BY KnownIds
  <2>4. orders' \in [1..Len(orders) -> OrderRow]
    BY <2>1, <2>2, <2>3
  <2>5. QED
    BY <2>1, <2>3, <2>4
<1>5. KeepsTerms
  BY <1>4, SettledRow DEF KeepsTerms
<1>6. AllRows \subseteq Row /\ IsFiniteSet(AllRows) /\ tradeTable \subseteq AllRows
      /\ tradeTable' \subseteq AllRows /\ tradeTable' \subseteq Reported
  BY <1>2, <1>3 DEF ExchangeInv, Typed, AllRows, Reported
<1>7. \A i : QtyOf(tradeTable', i) = QtyOf(tradeTable, i) + QtyOf(Rows(ev), i)
  <2>1. /\ tradeTable \subseteq Row /\ IsFiniteSet(tradeTable)
        /\ Rows(ev) \subseteq Row /\ IsFiniteSet(Rows(ev))
    BY <1>2, <1>6, FS_Subset
  <2>2. \A i : Mentioning(tradeTable, i) \cap Mentioning(Rows(ev), i) = {}
    BY <1>2 DEF Mentioning
  <2>3. QED
    BY <1>3, <2>1, <2>2, QtyUnion
<1>8. \A i \in DOMAIN orders :
        /\ orders'[i].filled = QtyOf(tradeTable', i)
        /\ orders'[i].filled <= QtyOf(AllRows, i)
        /\ orders'[i].filled = QtyOf(AllRows, i) => Mentioning(AllRows, i) \subseteq tradeTable'
        /\ QtyOf(AllRows, i) <= orders[i].qty
  <2>1. \A i \in DOMAIN orders : orders'[i].filled = QtyOf(tradeTable', i)
    BY <1>7, SettledRow DEF ExchangeInv, Table
  <2>2. \A i : /\ QtyOf(tradeTable', i) <= QtyOf(AllRows, i)
               /\ QtyOf(tradeTable', i) = QtyOf(AllRows, i) => Mentioning(AllRows, i) \subseteq tradeTable'
    BY <1>6, QtyPart
  <2>3. QED
    BY <2>1, <2>2 DEF ExchangeInv, Quantities
<1>9. \A i \in DOMAIN orders : /\ orders[i].qty \in Nat /\ orders[i].filled \in Nat
                              /\ QtyOf(AllRows, i) \in Nat /\ QtyOf(Rows(ev), i) \in Nat
                              /\ orders[i].type \in Types
  BY <1>2, <1>6, RowFields, QtyIsNat, EventRows
<1>10. LeftOver(ev) /\ ev.remaining \in Nat
  BY <1>2 DEF ExchangeInv, Reports, TradesEvent
\* the taker
<1>11. PICK f : f = TakerFilled(ev)
  OBVIOUS
<1>12. f = Filled(ev) /\ f \in Nat /\ f = orders'[ev.id].filled
  BY <1>2, <1>9, <1>11, SettledRow DEF TakerFilled, Taker
<1>13. /\ orders'[ev.id].status \in {"NEW", "PARTIALLY_FILLED"} <=>
             orders[ev.id].type = "LIMIT" /\ f # orders[ev.id].qty /\ ev.remaining # 0
       /\ f > 0 => orders'[ev.id].status # "NEW"
  <2>1. orders'[ev.id].status = TakerStatus(ev)
    BY <1>2, SettledRow
  <2>2. QED
    BY <1>2, <1>9, <1>11, <1>12, <2>1, TakerStatusIs DEF Taker
<1>14. IsOpen(ev.id)' <=> ~Closing(ev)
  <2>1. ev.remaining # 0 => f # orders[ev.id].qty
    BY <1>2, <1>9, <1>10, <1>12 DEF LeftOver
  <2>2. QED
    BY <1>2, <1>9, <1>13, <2>1 DEF IsOpen, Closing, Types
<1>15. IsOpen(ev.id)' => orders'[ev.id].filled < orders[ev.id].qty
  BY <1>2, <1>8, <1>9, <1>12, <1>13 DEF IsOpen
<1>16. ~IsOpen(ev.id)' => ev.id \notin BusyIds /\ Mentioning(AllRows, ev.id) \subseteq tradeTable'
  BY <1>3, <1>14, RowsOfCompleted
\* a maker
<1>17. ASSUME NEW i \in MakersOf(Rows(ev))
       PROVE  /\ i \in DOMAIN orders /\ IsOpen(i)
              /\ orders'[i].status # "NEW"
              /\ IsOpen(i)' => orders'[i].filled < orders[i].qty
              /\ ~IsOpen(i)' => i \notin BusyIds /\ Mentioning(AllRows, i) \subseteq tradeTable'
  <2>1. i \in DOMAIN orders /\ IsOpen(i) /\ i \in Mentions(ev)
    BY <1>2 DEF Mentions
  <2>2. orders'[i].status = IF orders'[i].filled = orders[i].qty THEN "FILLED" ELSE "PARTIALLY_FILLED"
    BY <2>1, SettledRow DEF MakerStatus
  <2>3. IsOpen(i)' => orders'[i].filled < orders[i].qty
    <3>1. orders'[i].filled \in Nat
      BY <1>9, <2>1, SettledRow
    <3>2. IsOpen(i)' => orders'[i].filled # orders[i].qty
      BY <2>2 DEF IsOpen
    <3>3. QED
      BY <1>8, <1>9, <2>1, <3>1, <3>2
  <2>4. ASSUME ~IsOpen(i)' PROVE i \notin BusyIds /\ Mentioning(AllRows, i) \subseteq tradeTable'
    <3>1. orders'[i].filled = orders[i].qty
      BY <2>2, <2>4 DEF IsOpen
    <3>2. QtyOf(AllRows, i) = orders[i].qty /\ Mentioning(AllRows, i) \subseteq tradeTable'
      BY <1>8, <1>9, <2>1, <3>1
    <3>3. i \notin WaitingIds \cup TakerIds
      BY <1>2, <2>1
    <3>4. QED
      BY <1>6, <2>1, <3>2, <3>3, AllTraded
  <2>5. QED
    BY <2>1, <2>2, <2>3, <2>4
<1>18. \A t \in Rows(ev) : orders'[t.maker].status # "NEW" /\ orders'[t.taker].status # "NEW"
  <2> SUFFICES ASSUME NEW t \in Rows(ev)
               PROVE  orders'[t.maker].status # "NEW" /\ orders'[t.taker].status # "NEW"
    OBVIOUS
  <2>1. t.maker \in MakersOf(Rows(ev)) /\ t.taker = ev.id
    BY TakerOfRow DEF MakersOf
  <2>2. QtyOf(Rows(ev), ev.id) # 0
    <3>1. Rows(ev) \subseteq Row /\ IsFiniteSet(Rows(ev)) /\ {} \in SUBSET Rows(ev)
      BY <1>2, EventRows
    <3>2. QtyOf({}, ev.id) = 0
      BY QtyNone DEF Mentioning
    <3>3. t \in Mentioning(Rows(ev), ev.id)
      BY <2>1 DEF Mentioning
    <3>4. QED
      BY <3>1, <3>2, <3>3, QtyPart
  <2>3. QED
    BY <1>2, <1>12, <1>13, <1>17, <2>1, <2>2
<1>19. ASSUME NEW i \in DOMAIN orders
       PROVE  /\ i \notin Mentions(ev) => orders'[i].status = orders[i].status
              /\ orders[i].status # "NEW" => orders'[i].status # "NEW"
              /\ IsOpen(i)' => IsOpen(i) /\ orders'[i].filled < orders[i].qty
              /\ orders'[i].filled = QtyOf(tradeTable', i)
              /\ ~IsOpen(i)' => i \notin BusyIds /\ Mentioning(AllRows, i) \subseteq tradeTable'
  <2>1. CASE i = ev.id
    BY <1>2, <1>8, <1>15, <1>16, <2>1 DEF Mentions, IsOpen
  <2>2. CASE i \in MakersOf(Rows(ev))
    BY <1>8, <1>17, <2>2 DEF Mentions
  <2>3. CASE i # ev.id /\ i \notin MakersOf(Rows(ev))
    <3>1. orders'[i] = orders[i] /\ (IsOpen(i)' <=> IsOpen(i))
      BY <2>3, SettledRow DEF IsOpen
    <3>2. QED
      BY <1>3, <1>8, <3>1 DEF ExchangeInv, Table
  <2>4. QED
    BY <2>1, <2>2, <2>3
<1>20. QED
  BY <1>1, <1>2, <1>3, <1>4, <1>5, <1>14, <1>18, <1>19 DEF Handled

-----------------------------------------------------------------------------
(* The theorems *)

\* At first there is nothing.
LEMMA InitKeeps ==
  ASSUME ExchangeInit
  PROVE  ExchangeInv
<1>1. /\ orders = <<>> /\ topic = <<>> /\ settlements = <<>> /\ asked = {}
      /\ tradeTable = {} /\ snapshots = {{}}
      /\ resting = {} /\ taker = NoOrder /\ trades = <<>>
  BY DEF ExchangeInit, Init, Engine!Init
<1>2. DOMAIN orders = {} /\ DOMAIN topic = {} /\ DOMAIN settlements = {}
  BY <1>1
<1>3. WaitingIds = {} /\ TakerIds = {} /\ RestingIds = {} /\ Current = {}
  BY <1>1, <1>2 DEF WaitingIds, TakerIds, RestingIds, Current
<1>4. Reported = {} /\ AllRows = {}
  BY <1>1, <1>2, <1>3 DEF Reported, AllRows, RowsOf
<1>5. Typed
  <2>1. orders \in Seq(OrderRow) /\ topic \in Seq(Command) /\ settlements \in Seq(Event)
        /\ trades \in Seq(Trade)
    BY <1>1
  <2>2. QED
    BY <1>1, <1>2, <1>4, <2>1, FS_EmptySet DEF Typed
<1>6. QED
  BY <1>1, <1>2, <1>3, <1>4, <1>5
  DEF ExchangeInv, Placing, InBook, Trades, Quantities, Reports, Applied, Table

\* A step of the order-service's consumer is the handling of the event at the
\* head of the topic.
LEMMA HandleSettlementHandled ==
  ASSUME ExchangeInv, HandleSettlement, UNCHANGED engineVars
  PROVE  \E ev : settlements # <<>> /\ ev = Head(settlements) /\ Handled(ev)
<1>1. PICK ev : ev = Head(settlements)
  OBVIOUS
<1>2. /\ settlements # <<>>
      /\ Settle(ev) \/ SkipSettled(ev) \/ SettleCancel(ev) \/ SkipCanceled(ev)
  BY <1>1 DEF HandleSettlement
<1>3. Handled(ev)
  BY <1>1, <1>2, SettleHandled, SkipSettledHandled, SettleCancelHandled, SkipCanceledHandled
<1>4. QED
  BY <1>1, <1>2, <1>3

\* Every step of the order-service and of the engine keeps the invariant.
LEMMA NextKeeps ==
  ASSUME ExchangeInv, [Next]_vars
  PROVE  ExchangeInv'
<1>1. CASE PlaceOrder /\ UNCHANGED engineVars
  BY <1>1, PlaceOrderKeeps
<1>2. CASE CancelOrder /\ UNCHANGED engineVars
  BY <1>2, CancelOrderKeeps
<1>3. CASE HandleSettlement /\ UNCHANGED engineVars
  BY <1>3, HandleSettlementHandled, HandledKeeps
<1>4. CASE TakeOrder
  BY <1>4, TakeOrderKeeps
<1>5. CASE Match
  BY <1>5, TradingKeeps, ForfeitKeeps DEF Match
<1>6. CASE Finish
  BY <1>6, FinishKeeps
<1>7. CASE TakeCancel
  BY <1>7, TakeCancelKeeps
<1>8. CASE UNCHANGED vars
  <2>1. /\ UNCHANGED <<orders, topic, settlements, asked, tradeTable, snapshots, resting, taker, trades>>
    BY <1>8 DEF vars, serviceVars, dbVars, engineVars
  <2>2. UNCHANGED <<WaitingIds, TakerIds, RestingIds, Current, Reported, AllRows, LiveIds, BusyIds>>
    BY <2>1 DEF WaitingIds, TakerIds, RestingIds, Current, Reported, AllRows, LiveIds, BusyIds,
                SettlementRequested
  <2>3. QED
    BY <2>1, <2>2 DEF ExchangeInv, Typed, Placing, InBook, OfRow, Trades, RowOK, Quantities,
       Reports, Closing, LeftOver, Applied, IsOpen, Table, ClosingReported
<1>9. QED
  BY <1>1, <1>2, <1>3, <1>4, <1>5, <1>6, <1>7, <1>8 DEF Next, ServiceNext, EngineNext

\* In every reachable state the database, the events in flight and the engine
\* tell the same story of every order.
THEOREM ExchangeInvariant == Spec => []ExchangeInv
<1>1. ExchangeInit => ExchangeInv
  BY InitKeeps
<1>2. ExchangeInv /\ [Next]_vars => ExchangeInv'
  BY NextKeeps
<1>3. QED
  BY <1>1, <1>2, PTL DEF Spec

\* Every order is filled by exactly the trades recorded for it, however often
\* a settlement is delivered (executeSettlementTx and its idempotency check).
THEOREM FilledIsTraded == Spec => []FilledMatchesTrades
<1>1. ExchangeInv => FilledMatchesTrades
  BY DEF ExchangeInv, Table, FilledMatchesTrades, QtyOf, Mentioning, TradesOf
<1>2. QED
  BY <1>1, ExchangeInvariant, PTL

\* With nothing in flight, the open orders of the database are the resting
\* orders of the engine, quantity for quantity: what RestoreEngineSnapshot
\* rebuilds a book from.
THEOREM QuiescentBooksAgree == Spec => []QuiescentAgreement
<1>1. ASSUME ExchangeInv PROVE QuiescentAgreement
  <2> SUFFICES ASSUME topic = <<>>, settlements = <<>>, taker = NoOrder
               PROVE  {<<i, orders[i].qty - orders[i].filled>> : i \in OpenRows}
                        = {<<o.id, o.qty>> : o \in resting}
    BY DEF QuiescentAgreement
  <2>1. WaitingIds = {} /\ TakerIds = {} /\ Current = {} /\ LiveIds = RestingIds
    BY DEF WaitingIds, TakerIds, Current, LiveIds
  <2>2. AllRows = tradeTable
    BY <2>1 DEF AllRows, Reported, RowsOf
  <2>3. \A i \in DOMAIN orders : orders[i].filled = QtyOf(AllRows, i)
    BY <1>1, <2>2 DEF ExchangeInv, Table
  <2>4. ASSUME NEW o \in resting
        PROVE  o.id \in OpenRows /\ orders[o.id].qty - orders[o.id].filled = o.qty
    <3>1. o.id \in DOMAIN orders /\ o.id \in BusyIds
      BY <1>1 DEF ExchangeInv, InBook, OfRow, BusyIds, LiveIds, RestingIds
    <3>2. o.id \in OpenRows
      BY <1>1, <3>1 DEF ExchangeInv, Table, OpenRows
    <3>3. o.qty + orders[o.id].filled = orders[o.id].qty
      BY <1>1, <2>3, <3>1 DEF ExchangeInv, Quantities
    <3>4. o.qty \in Nat /\ orders[o.id].filled \in Nat /\ orders[o.id].qty \in Nat
      BY <1>1, <3>1, RowFields DEF ExchangeInv, Typed, Order
    <3>5. QED
      BY <3>2, <3>3, <3>4
  <2>5. ASSUME NEW i \in OpenRows PROVE \E o \in resting : o.id = i
    <3>1. i \in DOMAIN orders /\ IsOpen(i) /\ orders[i].filled < orders[i].qty
      BY <1>1 DEF OpenRows, ExchangeInv, Table
    <3>2. orders[i].filled \in Nat /\ orders[i].qty \in Nat
      BY <1>1, <3>1, RowFields
    <3>3. ~ClosingReported(i)
      BY DEF ClosingReported
    <3>4. i \in LiveIds
      BY <1>1, <2>3, <3>1, <3>2, <3>3 DEF ExchangeInv, Table
    <3>5. QED
      BY <2>1, <3>4 DEF RestingIds
  <2>6. QED
    BY <2>4, <2>5
<1>2. QED
  BY <1>1, ExchangeInvariant, PTL

\* A filled or cancelled row of orders is never written again: the settlement
\* of a fill and the one of a cancellation that race cannot both take effect,
\* and neither can a redelivery.
THEOREM ClosedRowsAreFinal == Spec => ClosedStaysClosed
<1>1. ASSUME ExchangeInv, [Next]_vars
      PROVE  [\A i \in DOMAIN orders : ~IsOpen(i) => orders'[i] = orders[i]]_vars
  <2> SUFFICES ASSUME ~UNCHANGED vars, NEW i \in DOMAIN orders, ~IsOpen(i)
               PROVE  orders'[i] = orders[i]
    OBVIOUS
  <2>1. CASE PlaceOrder
    <3>1. PICK r : orders' = Append(orders, r)
      BY <2>1 DEF PlaceOrder
    <3>2. orders \in Seq(OrderRow)
      BY <1>1 DEF ExchangeInv, Typed
    <3>3. QED
      BY <3>1, <3>2
  <2>2. CASE HandleSettlement
    <3>1. PICK ev : ev = Head(settlements)
      OBVIOUS
    <3>2. settlements # <<>>
      BY <2>2 DEF HandleSettlement
    <3>3. CASE Settle(ev)
      <4>1. i # ev.id /\ i \notin MakersOf(Rows(ev))
        BY <1>1, <3>1, <3>2, <3>3, SettleFinds DEF IsOpen
      <4>2. QED
        BY <1>1, <3>1, <3>2, <3>3, <4>1, SettledRow
    <3>4. CASE SkipSettled(ev) \/ SkipCanceled(ev)
      BY <3>4 DEF SkipSettled, SkipCanceled, dbVars
    <3>5. CASE SettleCancel(ev)
      BY <3>5 DEF SettleCancel
    <3>6. QED
      BY <2>2, <3>1, <3>3, <3>4, <3>5 DEF HandleSettlement
  <2>3. CASE CancelOrder \/ TakeOrder \/ Match \/ Finish \/ TakeCancel
    BY <2>3 DEF CancelOrder, TakeOrder, Match, Finish, TakeCancel, serviceVars, dbVars
  <2>4. QED
    BY <1>1, <2>1, <2>2, <2>3 DEF Next, ServiceNext, EngineNext
<1>2. QED
  BY <1>1, ExchangeInvariant, PTL DEF Spec, ClosedStaysClosed
=============================================================================
