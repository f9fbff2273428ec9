------------------------- MODULE ExchangeFundsProofs -------------------------
(***************************************************************************)
(* Proofs about the money in Exchange: no balance or lock is negative, no money  *)
(* is created or lost, and what is locked is what the open orders need. They      *)
(* rest on ExchangeInv.                                                            *)
(***************************************************************************)
EXTENDS ExchangeProofs

FundsTyped ==
  /\ balance \in [Accounts -> Nat]
  /\ locked \in [Accounts -> Nat]
  /\ refused \subseteq Accounts

FundsInv == FundsTyped /\ MoneyConserved /\ LocksMatchOrders

-----------------------------------------------------------------------------
(* Rounding *)

\* A product of natural numbers.
LEMMA ProductIsNat == \A x, y \in Nat : x * y \in Nat
OBVIOUS

\* Half a unit of the eighth decimal.
Half == Scale \div 2

LEMMA HalfIs == Half \in Nat /\ 2 * Half <= Scale /\ Scale <= 2 * Half + 1
BY ScaleAssumption DEF Half

\* Round(8) moves an amount by half a unit at most.
LEMMA RoundIs ==
  ASSUME NEW x \in Int
  PROVE  Round(x) \in Int /\ Round(x) <= x + Half /\ x <= Round(x) + Half
<1>1. PICK y : y = x + Half
  OBVIOUS
<1>2. y \in Int /\ Half \in Nat /\ Scale <= 2 * Half + 1
  BY <1>1, HalfIs
<1>3. y % Scale \in Nat /\ y % Scale < Scale
  BY <1>2, ScaleAssumption
<1>4. Round(x) = y - (y % Scale)
  BY <1>1 DEF Round, Half
<1>5. QED
  BY <1>1, <1>2, <1>3, <1>4, ScaleAssumption

LEMMA RoundZero == Round(0) = 0
<1>1. Half \in Nat /\ Half < Scale
  BY HalfIs, ScaleAssumption
<1>2. Half % Scale = Half
  BY <1>1, ScaleAssumption
<1>3. Round(0) = (0 + Half) - ((0 + Half) % Scale)
  BY DEF Round, Half
<1>4. 0 + Half = Half
  BY <1>1
<1>5. QED
  BY <1>1, <1>2, <1>3, <1>4

\* A sum of numbers that are at most h is at most h times as many.
LEMMA SumBound ==
  ASSUME NEW S, IsFiniteSet(S), NEW h \in Nat,
         NEW f, \A x \in S : f[x] \in Int /\ f[x] <= h /\ -h <= f[x]
  PROVE  /\ SumFunctionOnSet(f, S) <= h * Cardinality(S)
         /\ -(h * Cardinality(S)) <= SumFunctionOnSet(f, S)
<1> DEFINE Bounded(R) == /\ SumFunctionOnSet(f, R) <= h * Cardinality(R)
                         /\ -(h * Cardinality(R)) <= SumFunctionOnSet(f, R)
           Bad == {R \in SUBSET S : ~Bounded(R)}
<1>1. SUFFICES ASSUME S \in Bad PROVE FALSE
  OBVIOUS
<1>2. PICK B \in Bad : \A x \in B : B \ {x} \notin Bad
  BY <1>1, SmallestSubset
<1>3. IsFiniteSet(B) /\ IntOn(f, B) /\ B \in SUBSET S /\ ~Bounded(B)
  BY <1>2, FS_Subset DEF IntOn
<1>4. B # {}
  <2>1. SUFFICES ASSUME B = {} PROVE Bounded(B)
    BY <1>3
  <2>2. Cardinality(B) = 0 /\ SumFunctionOnSet(f, B) = 0 /\ h * 0 = 0
    BY <2>1, FS_EmptySet, SumEmpty
  <2>3. QED
    BY <2>2
<1>5. PICK x \in B : TRUE
  BY <1>4
<1>6. PICK R, n, t : R = B \ {x} /\ n = Cardinality(R) /\ t = SumFunctionOnSet(f, R)
  OBVIOUS
<1>7. R \in SUBSET S /\ IsFiniteSet(R) /\ n \in Nat /\ Cardinality(B) = n + 1 /\ IntOn(f, R)
  <2>1. IsFiniteSet(R) /\ Cardinality(R) = Cardinality(B) - 1
    BY <1>3, <1>5, <1>6, FS_RemoveElement
  <2>2. Cardinality(B) \in Nat /\ Cardinality(R) \in Nat
    BY <1>3, <2>1, FS_CardinalityType
  <2>3. QED
    BY <1>3, <1>6, <2>1, <2>2 DEF IntOn
<1>8. t <= h * n /\ -(h * n) <= t /\ t \in Int
  BY <1>2, <1>5, <1>6, <1>7, SumInt
<1>9. SumFunctionOnSet(f, B) = f[x] + t
  BY <1>3, <1>5, <1>6, SumRemove
<1>10. h * (n + 1) = h * n + h /\ h * n \in Nat
  BY <1>7, ProductIsNat
<1>11. f[x] \in Int /\ f[x] <= h /\ -h <= f[x]
  BY <1>3, <1>5
<1>12. PICK m : m = h * n
  OBVIOUS
<1>13. SumFunctionOnSet(f, B) <= m + h /\ -(m + h) <= SumFunctionOnSet(f, B)
  BY <1>8, <1>9, <1>10, <1>11, <1>12
<1>14. Bounded(B)
  BY <1>7, <1>10, <1>12, <1>13
<1>15. QED
  BY <1>3, <1>14

-----------------------------------------------------------------------------
(* What one trade of a settlement moves *)

\* A trade of an event that is settled is between two users on opposite sides,
\* at the price of its maker.
LEMMA EventTrade ==
  ASSUME ExchangeInv, settlements # <<>>, NEW ev, ev = Head(settlements), Settle(ev),
         NEW k \in DOMAIN ev.trades
  PROVE  /\ ev.trades[k].maker \in DOMAIN orders /\ ev.trades[k].maker # ev.id
         /\ ev.trades[k].price \in Nat /\ ev.trades[k].qty \in Nat
         /\ orders[ev.trades[k].maker].user # orders[ev.id].user
         /\ orders[ev.trades[k].maker].side # orders[ev.id].side
         /\ ev.trades[k].price = orders[ev.trades[k].maker].price
         /\ TradeRow(ev, k) \in Rows(ev)
<1>1. ev \in TradesEvent /\ Rows(ev) \subseteq AllRows
  BY SettleFinds, FirstEvent
<1>2. ev.trades[k] \in Fill
  BY <1>1 DEF TradesEvent
<1>3. TradeRow(ev, k) \in Rows(ev)
  BY <1>1, EventRows
<1>4. RowOK(TradeRow(ev, k))
  BY <1>1, <1>3 DEF ExchangeInv, Trades
<1>5. QED
  BY <1>2, <1>3, <1>4 DEF RowOK, TradeRow, Fill, Ids

\* The trades of an event are finitely many.
LEMMA TradesFinite ==
  ASSUME NEW ev \in TradesEvent
  PROVE  IsFiniteSet(DOMAIN ev.trades)
<1>1. DOMAIN ev.trades = 1..Len(ev.trades) /\ Len(ev.trades) \in Nat
  BY DEF TradesEvent
<1>2. IsFiniteSet(1..Len(ev.trades))
  BY <1>1, FS_Interval
<1>3. QED
  BY <1>1, <1>2

\* calculateTradeSettlement: what one user gives, the other receives.
LEMMA TradeCancels ==
  ASSUME ExchangeInv, settlements # <<>>, NEW ev, ev = Head(settlements), Settle(ev),
         NEW k \in DOMAIN ev.trades, NEW c \in Currencies
  PROVE  /\ \A u \in Users : TradeAmount(ev, ev.trades[k], <<u, c>>) \in Int
         /\ SumFunctionOnSet([u \in Users |-> TradeAmount(ev, ev.trades[k], <<u, c>>)], Users) = 0
<1> DEFINE t == ev.trades[k]
           buyer == BuyerOf(ev, t)
           seller == SellerOf(ev, t)
           f == [u \in Users |-> TradeAmount(ev, t, <<u, c>>)]
<1>1. t.price \in Nat /\ t.qty \in Nat /\ t.maker \in DOMAIN orders
  BY EventTrade
<1>2. buyer \in Users /\ seller \in Users /\ buyer # seller
  <2>1. ev.id \in DOMAIN orders
    BY SettleFinds
  <2>2. orders[t.maker].user \in Users /\ orders[ev.id].user \in Users
    BY <1>1, <2>1, RowFields
  <2>3. orders[t.maker].user # orders[ev.id].user
    BY EventTrade
  <2>4. QED
    BY <2>2, <2>3 DEF BuyerOf, SellerOf, Taker
<1>3. PICK v : v = TradeValue(t)
  OBVIOUS
<1>4. v \in Int /\ t.qty \in Int
  BY <1>1, <1>3, ProductIsNat, RoundIs DEF TradeValue
<1> HIDE DEF t, buyer, seller
<1>5. \A a : TradeAmount(ev, t, a) =
               CASE a = <<buyer, "quote">> -> -v
                 [] a = <<buyer, "base">> -> t.qty
                 [] a = <<seller, "base">> -> -t.qty
                 [] a = <<seller, "quote">> -> v
                 [] OTHER -> 0
  BY <1>3, Zenon DEF TradeAmount, buyer, seller
<1>6. CASE c = "quote"
  <2>1. f[buyer] = -v /\ f[seller] = v /\ \A u \in Users \ {buyer, seller} : f[u] = 0
    BY <1>2, <1>5, <1>6
  <2>2. f[seller] = -f[buyer] /\ f[buyer] \in Int /\ \A u \in Users : f[u] \in Int
    BY <1>2, <1>4, <2>1
  <2> HIDE DEF f
  <2>3. SumFunctionOnSet(f, Users) = 0
    BY <1>2, <2>1, <2>2, UsersAssumption, SumOpposites
  <2>4. QED
    BY <2>2, <2>3 DEF f, t
<1>7. CASE c = "base"
  <2>1. f[buyer] = t.qty /\ f[seller] = -t.qty /\ \A u \in Users \ {buyer, seller} : f[u] = 0
    BY <1>2, <1>5, <1>7
  <2>2. f[seller] = -f[buyer] /\ f[buyer] \in Int /\ \A u \in Users : f[u] \in Int
    BY <1>2, <1>4, <2>1
  <2> HIDE DEF f
  <2>3. SumFunctionOnSet(f, Users) = 0
    BY <1>2, <2>1, <2>2, UsersAssumption, SumOpposites
  <2>4. QED
    BY <2>2, <2>3 DEF f, t
<1>8. QED
  BY <1>6, <1>7 DEF Currencies

\* What the trades of an event move adds up to nothing in each currency.
LEMMA SettlementCancels ==
  ASSUME ExchangeInv, settlements # <<>>, NEW ev, ev = Head(settlements), Settle(ev),
         NEW c \in Currencies
  PROVE  /\ \A u \in Users : TotalAmount(ev, <<u, c>>) \in Int
         /\ SumFunctionOnSet([u \in Users |-> TotalAmount(ev, <<u, c>>)], Users) = 0
<1> DEFINE K == DOMAIN ev.trades
           m == [u \in Users |-> [k \in K |-> TradeAmount(ev, ev.trades[k], <<u, c>>)]]
           row(u) == [k \in K |-> m[u][k]]
           col(k) == [u \in Users |-> m[u][k]]
<1>1. IsFiniteSet(K) /\ IsFiniteSet(Users)
  BY SettleFinds, TradesFinite, UsersAssumption
<1>2. \A u \in Users, k \in K : m[u][k] \in Int
  BY TradeCancels
<1>3. ASSUME NEW k \in K PROVE SumFunctionOnSet(col(k), Users) = 0
  <2>1. PICK h : h = [u \in Users |-> TradeAmount(ev, ev.trades[k], <<u, c>>)]
    OBVIOUS
  <2>2. SumFunctionOnSet(h, Users) = 0
    BY <2>1, TradeCancels
  <2>3. col(k) = h
    BY <2>1
  <2>4. QED
    BY <2>2, <2>3
<1>4. ASSUME NEW u \in Users PROVE TotalAmount(ev, <<u, c>>) = SumFunctionOnSet(row(u), K)
  <2>1. row(u) = [k \in K |-> TradeAmount(ev, ev.trades[k], <<u, c>>)]
    OBVIOUS
  <2>2. QED
    BY <2>1 DEF TotalAmount, SumFunction
<1>5. \A u \in Users : IntOn(row(u), K)
  BY <1>2 DEF IntOn
<1> HIDE DEF m, K
<1>6. \A u \in Users : TotalAmount(ev, <<u, c>>) \in Int
  BY <1>1, <1>4, <1>5, SumInt
<1>7. [u \in Users |-> TotalAmount(ev, <<u, c>>)] = [u \in Users |-> SumFunctionOnSet(row(u), K)]
  BY <1>4
<1>8. SumFunctionOnSet([u \in Users |-> SumFunctionOnSet(row(u), K)], Users)
        = SumFunctionOnSet([k \in K |-> SumFunctionOnSet(col(k), Users)], K)
  BY <1>1, <1>2, SumSwap
<1>9. SumFunctionOnSet([k \in K |-> SumFunctionOnSet(col(k), Users)], K) = 0
  <2> DEFINE z == [k \in K |-> SumFunctionOnSet(col(k), Users)]
  <2>1. \A k \in K : z[k] = 0
    BY <1>3
  <2> HIDE DEF z
  <2>2. SumFunctionOnSet(z, K) = 0
    BY <1>1, <2>1, SumZero
  <2>3. QED
    BY <2>2 DEF z
<1>10. QED
  BY <1>6, <1>7, <1>8, <1>9

-----------------------------------------------------------------------------
(* What a settlement should unlock: the amounts before they are rounded *)

\* TradeUnlock and TotalUnlock without Round(8).
TradeDue(ev, t, a) ==
  CASE a = <<BuyerOf(ev, t), "quote">> -> BuyerDue(ev, t)
    [] a = <<SellerOf(ev, t), "base">> -> t.qty
    [] OTHER -> 0
TotalDue(ev, a) ==
  SumFunction([k \in DOMAIN ev.trades |-> TradeDue(ev, ev.trades[k], a)])
    + (IF a = LockedIn(ev.id) THEN RefundDue(ev) ELSE 0)

\* What one unit of an order has locked.
Unit(r) == IF r.side = "BUY" THEN r.price ELSE 1

MarketBuy(r) == r.side = "BUY" /\ r.type = "MARKET"

\* The parts of a trade's unlock: the maker's and the taker's.
MakerShare(t) == Unit(orders[t.maker]) * t.qty
TakerShare(ev, t) ==
  IF MarketBuy(Taker(ev)) THEN t.price * t.qty ELSE Unit(Taker(ev)) * t.qty

\* What all trades unlock for the taker.
TakerPart(ev) ==
  IF MarketBuy(Taker(ev)) THEN Value(ev) ELSE Unit(Taker(ev)) * Filled(ev)

\* The orders that have funds locked in account a.
Holders(a) == {i \in DOMAIN orders : LockedIn(i) = a}

\* A unit's lock is not negative.
LEMMA UnitIsNat ==
  ASSUME ExchangeInv, NEW i \in DOMAIN orders
  PROVE  Unit(orders[i]) \in Nat
BY RowFields DEF Unit

\* calculateTradeSettlement: a trade unlocks the maker's share in the maker's
\* account and the taker's share in the taker's.
LEMMA TradeDueIs ==
  ASSUME ExchangeInv, settlements # <<>>, NEW ev, ev = Head(settlements), Settle(ev),
         NEW k \in DOMAIN ev.trades, NEW a
  PROVE  LET t == ev.trades[k] IN
         /\ MakerShare(t) \in Nat /\ TakerShare(ev, t) \in Nat
         /\ TradeDue(ev, t, a) =
              (IF a = LockedIn(t.maker) THEN MakerShare(t) ELSE 0)
                + (IF a = LockedIn(ev.id) THEN TakerShare(ev, t) ELSE 0)
<1> DEFINE t == ev.trades[k]
<1>1. /\ t.price \in Nat /\ t.qty \in Nat /\ t.maker \in DOMAIN orders
      /\ t.price = orders[t.maker].price
      /\ orders[t.maker].user # orders[ev.id].user
      /\ orders[t.maker].side # orders[ev.id].side
  BY EventTrade
<1>2. ev.id \in DOMAIN orders
  BY SettleFinds
<1>3. /\ orders[t.maker].side \in Sides /\ orders[ev.id].side \in Sides
      /\ orders[ev.id].type \in Types
      /\ Unit(orders[t.maker]) \in Nat /\ Unit(orders[ev.id]) \in Nat
  BY <1>1, <1>2, RowFields, UnitIsNat
<1> HIDE DEF t
<1>4. MakerShare(t) \in Nat /\ TakerShare(ev, t) \in Nat
  BY <1>1, <1>3, ProductIsNat DEF MakerShare, TakerShare, Taker
<1>5. CASE orders[ev.id].side = "BUY"
  <2>1. orders[t.maker].side = "SELL"
    BY <1>1, <1>3, <1>5 DEF Sides
  <2>2. /\ LockedIn(ev.id) = <<orders[ev.id].user, "quote">>
        /\ LockedIn(t.maker) = <<orders[t.maker].user, "base">>
    BY <1>5, <2>1 DEF LockedIn, LockCurrency
  <2>3. BuyerOf(ev, t) = orders[ev.id].user /\ SellerOf(ev, t) = orders[t.maker].user
    BY <1>5 DEF BuyerOf, SellerOf, Taker
  <2>4. BuyerDue(ev, t) = TakerShare(ev, t)
    BY <1>3, <1>5 DEF BuyerDue, TakerShare, MarketBuy, Unit, Taker, Types
  <2>5. MakerShare(t) = t.qty
    BY <1>1, <2>1 DEF MakerShare, Unit
  <2>6. TradeDue(ev, t, a) = CASE a = LockedIn(ev.id) -> TakerShare(ev, t)
                                  [] a = LockedIn(t.maker) -> MakerShare(t)
                                  [] OTHER -> 0
    BY <2>2, <2>3, <2>4, <2>5, Zenon DEF TradeDue
  <2>7. LockedIn(ev.id) # LockedIn(t.maker)
    BY <2>2
  <2>8. QED
    BY <1>4, <2>6, <2>7 DEF t
<1>6. CASE orders[ev.id].side = "SELL"
  <2>1. orders[t.maker].side = "BUY"
    BY <1>1, <1>3, <1>6 DEF Sides
  <2>2. /\ LockedIn(ev.id) = <<orders[ev.id].user, "base">>
        /\ LockedIn(t.maker) = <<orders[t.maker].user, "quote">>
    BY <1>6, <2>1 DEF LockedIn, LockCurrency
  <2>3. BuyerOf(ev, t) = orders[t.maker].user /\ SellerOf(ev, t) = orders[ev.id].user
    BY <1>6 DEF BuyerOf, SellerOf, Taker
  <2>4. BuyerDue(ev, t) = MakerShare(t)
    BY <1>1, <1>6, <2>1 DEF BuyerDue, MakerShare, Unit, Taker
  <2>5. TakerShare(ev, t) = t.qty
    BY <1>1, <1>6 DEF TakerShare, MarketBuy, Unit, Taker
  <2>6. TradeDue(ev, t, a) = CASE a = LockedIn(t.maker) -> MakerShare(t)
                                  [] a = LockedIn(ev.id) -> TakerShare(ev, t)
                                  [] OTHER -> 0
    BY <2>2, <2>3, <2>4, <2>5, Zenon DEF TradeDue
  <2>7. LockedIn(ev.id) # LockedIn(t.maker)
    BY <2>2
  <2>8. QED
    BY <1>4, <2>6, <2>7 DEF t
<1>7. QED
  BY <1>3, <1>5, <1>6 DEF Sides

\* A maker's unlocks are its share of every unit that it was filled.
LEMMA MakerUnlocks ==
  ASSUME ExchangeInv, settlements # <<>>, NEW ev, ev = Head(settlements), Settle(ev),
         NEW i \in DOMAIN orders,
         NEW f, f = [k \in DOMAIN ev.trades |->
                       IF ev.trades[k].maker = i THEN MakerShare(ev.trades[k]) ELSE 0]
  PROVE  SumFunctionOnSet(f, DOMAIN ev.trades) = Unit(orders[i]) * MakerFill(ev, i)
<1> DEFINE K == DOMAIN ev.trades
           P == {k \in K : ev.trades[k].maker = i}
           q == [k \in P |-> ev.trades[k].qty]
           g == [k \in P |-> MakerShare(ev.trades[k])]
<1>1. IsFiniteSet(K) /\ P \in SUBSET K /\ IsFiniteSet(P)
  BY SettleFinds, TradesFinite, FS_Subset
<1>2. \A k \in P : /\ q[k] \in Int
                   /\ g[k] = Unit(orders[i]) * q[k] /\ g[k] \in Int
                   /\ f[k] = g[k]
  <2> SUFFICES ASSUME NEW k \in P
               PROVE  q[k] \in Int /\ g[k] = Unit(orders[i]) * q[k] /\ g[k] \in Int /\ f[k] = g[k]
    OBVIOUS
  <2>1. k \in K /\ ev.trades[k].maker = i /\ q[k] = ev.trades[k].qty
        /\ g[k] = MakerShare(ev.trades[k])
    OBVIOUS
  <2>2. ev.trades[k].qty \in Nat /\ MakerShare(ev.trades[k]) \in Nat
    BY <2>1, EventTrade, TradeDueIs
  <2>3. MakerShare(ev.trades[k]) = Unit(orders[i]) * ev.trades[k].qty
    BY <2>1 DEF MakerShare
  <2> HIDE DEF q, g
  <2>4. f[k] = MakerShare(ev.trades[k])
    BY <2>1
  <2>5. QED
    BY <2>1, <2>2, <2>3, <2>4
<1>3. MakerFill(ev, i) = SumFunctionOnSet(q, P)
  BY DEF MakerFill, SumFunction
<1>4. \A k \in K \ P : f[k] = 0
  OBVIOUS
<1> HIDE DEF P, q, g
<1>5. SumFunctionOnSet(f, K) = SumFunctionOnSet(g, P)
  <2>1. IntOn(g, P) /\ \A k \in P : f[k] = g[k]
    BY <1>2 DEF IntOn
  <2> HIDE DEF K
  <2>2. QED
    BY <1>1, <1>4, <2>1, SumWhere
<1>6. SumFunctionOnSet(g, P) = Unit(orders[i]) * SumFunctionOnSet(q, P)
  <2>1. Unit(orders[i]) \in Int
    BY UnitIsNat
  <2>2. QED
    BY <1>1, <1>2, <2>1, SumScale DEF IntOn
<1>7. QED
  BY <1>3, <1>5, <1>6

\* The taker's unlocks are those of everything that was traded.
LEMMA TakerUnlocks ==
  ASSUME ExchangeInv, settlements # <<>>, NEW ev, ev = Head(settlements), Settle(ev),
         NEW f, f = [k \in DOMAIN ev.trades |-> TakerShare(ev, ev.trades[k])]
  PROVE  SumFunctionOnSet(f, DOMAIN ev.trades) = TakerPart(ev)
<1> DEFINE K == DOMAIN ev.trades
           q == [k \in K |-> ev.trades[k].qty]
<1>1. IsFiniteSet(K) /\ ev.id \in DOMAIN orders
  BY SettleFinds, TradesFinite
<1>2. CASE MarketBuy(Taker(ev))
  <2>1. f = [k \in K |-> ev.trades[k].price * ev.trades[k].qty]
    BY <1>2 DEF TakerShare
  <2>2. QED
    BY <1>2, <2>1 DEF TakerPart, Value, SumFunction
<1>3. CASE ~MarketBuy(Taker(ev))
  <2>1. \A k \in K : q[k] \in Int /\ f[k] = Unit(Taker(ev)) * q[k]
    BY <1>3, EventTrade DEF TakerShare
  <2>2. Unit(Taker(ev)) \in Int
    BY <1>1, UnitIsNat DEF Taker
  <2>3. Filled(ev) = SumFunctionOnSet(q, K)
    BY DEF Filled, SumFunction
  <2> HIDE DEF q
  <2>4. SumFunctionOnSet(f, K) = Unit(Taker(ev)) * SumFunctionOnSet(q, K)
    BY <1>1, <2>1, <2>2, SumScale DEF IntOn
  <2>5. QED
    BY <1>3, <2>3, <2>4 DEF TakerPart
<1>4. QED
  BY <1>2, <1>3

\* The value of the trades and the refund are whole amounts.
LEMMA RefundIsInt ==
  ASSUME ExchangeInv, settlements # <<>>, NEW ev, ev = Head(settlements), Settle(ev)
  PROVE  Value(ev) \in Nat /\ TakerFilled(ev) = Filled(ev) /\ RefundDue(ev) \in Int
<1>1. /\ ev.id \in DOMAIN orders /\ Filled(ev) \in Nat /\ ev \in TradesEvent
      /\ orders[ev.id].filled = 0
  BY SettleFinds, EventQty
<1>2. /\ Taker(ev).qty \in Nat /\ Taker(ev).price \in Nat /\ Taker(ev).lock \in Nat
      /\ Taker(ev).side \in Sides /\ Taker(ev).type \in Types
  BY <1>1, RowFields DEF Taker
<1>3. Value(ev) \in Nat
  <2> DEFINE v == [k \in DOMAIN ev.trades |-> ev.trades[k].price * ev.trades[k].qty]
  <2>1. \A k \in DOMAIN ev.trades : v[k] \in Nat
    BY EventTrade, ProductIsNat
  <2> HIDE DEF v
  <2>2. SumFunctionOnSet(v, DOMAIN ev.trades) \in Nat
    BY <1>1, <2>1, TradesFinite, SumNat
  <2>3. QED
    BY <2>2 DEF v, Value, SumFunction
<1>4. TakerFilled(ev) = Filled(ev)
  BY <1>1 DEF TakerFilled, Taker
<1>5. PICK rest : rest = Taker(ev).qty - TakerFilled(ev)
  OBVIOUS
<1>6. PICK worth : worth = rest * Taker(ev).price
  OBVIOUS
<1>7. rest \in Int /\ worth \in Int
  BY <1>1, <1>2, <1>4, <1>5, <1>6
<1>8. RefundDue(ev) \in {rest, Taker(ev).lock - Value(ev), worth, 0}
  <2>1. CASE Taker(ev).type = "MARKET"
    BY <1>2, <1>5, <2>1 DEF RefundDue, Sides
  <2>2. CASE Taker(ev).type = "LIMIT"
    BY <1>5, <1>6, <2>2 DEF RefundDue
  <2>3. QED
    BY <1>2, <2>1, <2>2 DEF Types
<1>9. QED
  BY <1>2, <1>3, <1>4, <1>7, <1>8

\* aggregateAndSortAccountUpdates: an account's unlock is the makers' that have
\* funds locked there, and the taker's with its refund.
LEMMA DueParts ==
  ASSUME ExchangeInv, settlements # <<>>, NEW ev, ev = Head(settlements), Settle(ev), NEW a,
         NEW e, e = [i \in Holders(a) |-> Unit(orders[i]) * MakerFill(ev, i)]
  PROVE  TotalDue(ev, a) =
           SumFunctionOnSet(e, Holders(a))
             + (IF a = LockedIn(ev.id) THEN TakerPart(ev) + RefundDue(ev) ELSE 0)
<1> DEFINE K == DOMAIN ev.trades
           H == Holders(a)
           u == [k \in K |-> TradeDue(ev, ev.trades[k], a)]
           f == [k \in K |-> IF a = LockedIn(ev.trades[k].maker) THEN MakerShare(ev.trades[k]) ELSE 0]
           g == [k \in K |-> IF a = LockedIn(ev.id) THEN TakerShare(ev, ev.trades[k]) ELSE 0]
           m == [i \in H |-> [k \in K |->
                   IF ev.trades[k].maker = i THEN MakerShare(ev.trades[k]) ELSE 0]]
           row(i) == [k \in K |-> m[i][k]]
           col(k) == [i \in H |-> m[i][k]]
<1>1. IsFiniteSet(K) /\ IsFiniteSet(H) /\ H \subseteq DOMAIN orders
  <2>1. DOMAIN orders = 1..Len(orders) /\ Len(orders) \in Nat
    BY KnownIds
  <2>2. IsFiniteSet(1..Len(orders))
    BY <2>1, FS_Interval
  <2>3. H \subseteq DOMAIN orders
    BY DEF Holders
  <2>4. IsFiniteSet(H)
    BY <2>1, <2>2, <2>3, FS_Subset
  <2>5. QED
    BY <2>3, <2>4, SettleFinds, TradesFinite
<1>2. \A k \in K : f[k] \in Int /\ g[k] \in Int /\ u[k] = f[k] + g[k]
                   /\ MakerShare(ev.trades[k]) \in Int
  <2> SUFFICES ASSUME NEW k \in K
               PROVE  f[k] \in Int /\ g[k] \in Int /\ u[k] = f[k] + g[k]
                      /\ MakerShare(ev.trades[k]) \in Int
    OBVIOUS
  <2>1. PICK t : t = ev.trades[k]
    OBVIOUS
  <2>2. /\ MakerShare(t) \in Nat /\ TakerShare(ev, t) \in Nat
        /\ TradeDue(ev, t, a) =
              (IF a = LockedIn(t.maker) THEN MakerShare(t) ELSE 0)
                + (IF a = LockedIn(ev.id) THEN TakerShare(ev, t) ELSE 0)
    BY <2>1, TradeDueIs
  <2>3. /\ u[k] = TradeDue(ev, t, a)
        /\ f[k] = IF a = LockedIn(t.maker) THEN MakerShare(t) ELSE 0
        /\ g[k] = IF a = LockedIn(ev.id) THEN TakerShare(ev, t) ELSE 0
    BY <2>1
  <2> HIDE DEF u, f, g
  <2>4. QED
    BY <2>1, <2>2, <2>3
<1>3. TotalDue(ev, a) = SumFunctionOnSet(u, K) + (IF a = LockedIn(ev.id) THEN RefundDue(ev) ELSE 0)
  BY DEF TotalDue, SumFunction
<1>4. SumFunctionOnSet(g, K) = IF a = LockedIn(ev.id) THEN TakerPart(ev) ELSE 0
  <2>1. CASE a = LockedIn(ev.id)
    <3>1. g = [k \in K |-> TakerShare(ev, ev.trades[k])]
      BY <2>1
    <3> HIDE DEF g
    <3>2. QED
      BY <2>1, <3>1, TakerUnlocks
  <2>2. CASE a # LockedIn(ev.id)
    <3>1. \A k \in K : g[k] = 0
      BY <2>2
    <3> HIDE DEF g
    <3>2. QED
      BY <1>1, <2>2, <3>1, SumZero
  <2>3. QED
    BY <2>1, <2>2
\* by maker and by trade
<1>5. \A i \in H, k \in K : m[i][k] \in Int
  <2>1. \A i \in H, k \in K : m[i][k] = IF ev.trades[k].maker = i THEN MakerShare(ev.trades[k]) ELSE 0
    OBVIOUS
  <2> HIDE DEF m, u, f, g
  <2>2. QED
    BY <1>2, <2>1
<1>6. ASSUME NEW i \in H PROVE SumFunctionOnSet(row(i), K) = e[i]
  <2>1. PICK r : r = [k \in K |-> IF ev.trades[k].maker = i THEN MakerShare(ev.trades[k]) ELSE 0]
    OBVIOUS
  <2>2. SumFunctionOnSet(r, K) = Unit(orders[i]) * MakerFill(ev, i)
    BY <1>1, <2>1, MakerUnlocks
  <2>3. row(i) = r
    BY <2>1
  <2>4. QED
    BY <2>2, <2>3
<1>7. ASSUME NEW k \in K PROVE SumFunctionOnSet(col(k), H) = f[k]
  <2>1. PICK t : t = ev.trades[k]
    OBVIOUS
  <2>2. \A i \in H : col(k)[i] = IF t.maker = i THEN MakerShare(t) ELSE 0
    BY <2>1
  <2>3. f[k] = IF a = LockedIn(t.maker) THEN MakerShare(t) ELSE 0
    BY <2>1
  <2>4. t.maker \in DOMAIN orders /\ MakerShare(t) \in Int
    BY <1>2, <2>1, EventTrade
  <2>5. t.maker \in H <=> a = LockedIn(t.maker)
    BY <2>4 DEF Holders
  <2>6. PICK c : c = col(k)
    OBVIOUS
  <2>7. \A i \in H : c[i] = IF t.maker = i THEN MakerShare(t) ELSE 0
    BY <2>2, <2>6
  <2>8. SumFunctionOnSet(c, H) = f[k]
    <3> HIDE DEF f, col, H
    <3>1. CASE t.maker \in H
      <4>1. c[t.maker] = MakerShare(t) /\ \A i \in H \ {t.maker} : c[i] = 0
        BY <2>7, <3>1
      <4>2. QED
        BY <1>1, <2>3, <2>4, <2>5, <3>1, <4>1, SumOnly
    <3>2. CASE t.maker \notin H
      <4>1. \A i \in H : c[i] = 0
        BY <2>7, <3>2
      <4>2. QED
        BY <1>1, <2>3, <2>5, <3>2, <4>1, SumZero
    <3>3. QED
      BY <3>1, <3>2
  <2>9. QED
    BY <2>6, <2>8
<1>8. SumFunctionOnSet(e, H) = SumFunctionOnSet(f, K)
  <2>1. e = [i \in H |-> SumFunctionOnSet(row(i), K)]
    BY <1>6
  <2>2. f = [k \in K |-> SumFunctionOnSet(col(k), H)]
    BY <1>7
  <2> HIDE DEF m, f, H, K
  <2>3. SumFunctionOnSet([i \in H |-> SumFunctionOnSet(row(i), K)], H)
          = SumFunctionOnSet([k \in K |-> SumFunctionOnSet(col(k), H)], K)
    BY <1>1, <1>5, SumSwap
  <2>4. QED
    BY <2>1, <2>2, <2>3
<1> HIDE DEF u, f, g, m, K
<1>9. SumFunctionOnSet(u, K) = SumFunctionOnSet(f, K) + SumFunctionOnSet(g, K)
  BY <1>1, <1>2, SumPlus DEF IntOn
<1>10. SumFunctionOnSet(f, K) \in Int /\ SumFunctionOnSet(g, K) \in Int
  BY <1>1, <1>2, SumInt DEF IntOn
<1>11. RefundDue(ev) \in Int
  BY RefundIsInt
<1>12. QED
  BY <1>3, <1>4, <1>8, <1>9, <1>10, <1>11

-----------------------------------------------------------------------------
(* Money is conserved *)

\* What an account should have unlocked is a whole amount.
LEMMA DueIsInt ==
  ASSUME ExchangeInv, settlements # <<>>, NEW ev, ev = Head(settlements), Settle(ev), NEW a
  PROVE  TotalDue(ev, a) \in Int
<1> DEFINE e == [i \in Holders(a) |-> Unit(orders[i]) * MakerFill(ev, i)]
<1>1. IsFiniteSet(Holders(a)) /\ Holders(a) \subseteq DOMAIN orders
  <2>1. DOMAIN orders = 1..Len(orders) /\ Len(orders) \in Nat
    BY KnownIds
  <2>2. IsFiniteSet(1..Len(orders))
    BY <2>1, FS_Interval
  <2>3. Holders(a) \subseteq DOMAIN orders
    BY DEF Holders
  <2>4. QED
    BY <2>1, <2>2, <2>3, FS_Subset
<1>2. /\ ev \in TradesEvent /\ ev.id \in DOMAIN orders
      /\ \A i : MakerFill(ev, i) \in Nat
      /\ Filled(ev) \in Nat
  BY SettleFinds, EventQty
<1>3. \A i \in Holders(a) : e[i] \in Int
  BY <1>1, <1>2, UnitIsNat, ProductIsNat
<1>4. TakerPart(ev) \in Int
  BY <1>2, RefundIsInt, UnitIsNat, ProductIsNat DEF TakerPart, Taker
<1>5. TotalDue(ev, a) =
        SumFunctionOnSet(e, Holders(a))
          + (IF a = LockedIn(ev.id) THEN TakerPart(ev) + RefundDue(ev) ELSE 0)
  BY DueParts
<1> HIDE DEF e
<1>6. SumFunctionOnSet(e, Holders(a)) \in Int
  BY <1>1, <1>3, SumInt DEF IntOn
<1>7. RefundDue(ev) \in Int
  BY RefundIsInt
<1>8. QED
  BY <1>4, <1>5, <1>6, <1>7

\* What the rounding of one trade moves in an account: nothing of the base currency,
\* half a unit of the quote currency at most.
LEMMA TradeRounded ==
  ASSUME ExchangeInv, settlements # <<>>, NEW ev, ev = Head(settlements), Settle(ev),
         NEW k \in DOMAIN ev.trades, NEW a \in Accounts
  PROVE  LET u == TradeUnlock(ev, ev.trades[k], a)
             d == TradeDue(ev, ev.trades[k], a)
         IN /\ u \in Int /\ d \in Int
            /\ u <= d + Half /\ d <= u + Half
            /\ a[2] = "base" => u = d
<1> DEFINE t == ev.trades[k]
<1>1. t.price \in Nat /\ t.qty \in Nat /\ ev.id \in DOMAIN orders
  BY EventTrade, SettleFinds
<1>2. Taker(ev).price \in Nat
  BY <1>1, RowFields DEF Taker
<1> HIDE DEF t
<1>3. BuyerDue(ev, t) \in Int
  BY <1>1, <1>2, ProductIsNat DEF BuyerDue
<1>4. PICK d, u : d = BuyerDue(ev, t) /\ u = BuyerUnlock(ev, t)
  OBVIOUS
<1>5. d \in Int /\ u \in Int /\ u <= d + Half /\ d <= u + Half
  BY <1>3, <1>4, RoundIs DEF BuyerUnlock
<1>6. CASE a = <<BuyerOf(ev, t), "quote">>
  <2>1. TradeUnlock(ev, t, a) = u /\ TradeDue(ev, t, a) = d /\ a[2] # "base"
    BY <1>4, <1>6 DEF TradeUnlock, TradeDue
  <2>2. QED
    BY <1>5, <2>1 DEF t
<1>7. CASE a # <<BuyerOf(ev, t), "quote">>
  <2>1. PICK w : w = TradeUnlock(ev, t, a)
    OBVIOUS
  <2>2. w = TradeDue(ev, t, a) /\ (w = t.qty \/ w = 0)
    BY <1>7, <2>1 DEF TradeUnlock, TradeDue
  <2>3. w \in Int /\ Half \in Nat
    BY <1>1, <2>2, HalfIs
  <2>4. QED
    BY <2>1, <2>2, <2>3 DEF t
<1>8. QED
  BY <1>6, <1>7

\* The refunds of a settlement: only a taker that is complete gets one.
Refunds(ev) == IF Taker(ev).type = "LIMIT" /\ ev.remaining # 0 THEN 0 ELSE 1

\* What the rounding of a settlement moves in an account: half a unit for every
\* trade and for the refund.
LEMMA SettlementRounded ==
  ASSUME ExchangeInv, settlements # <<>>, NEW ev, ev = Head(settlements), Settle(ev),
         NEW a \in Accounts
  PROVE  LET u == TotalUnlock(ev, a)
             d == TotalDue(ev, a)
             e == Half * (Cardinality(DOMAIN ev.trades) + Refunds(ev))
         IN /\ u \in Int /\ d \in Int /\ e \in Nat
            /\ u <= d + e /\ d <= u + e
            /\ a[2] = "base" => u = d
<1> DEFINE K == DOMAIN ev.trades
           f == [k \in K |-> TradeUnlock(ev, ev.trades[k], a)]
           g == [k \in K |-> TradeDue(ev, ev.trades[k], a)]
           h == [k \in K |-> f[k] - g[k]]
           own == a = LockedIn(ev.id)
<1>1. IsFiniteSet(K) /\ Cardinality(K) \in Nat /\ Half \in Nat /\ ev.id \in DOMAIN orders
  BY SettleFinds, TradesFinite, FS_CardinalityType, HalfIs
<1>2. \A k \in K : /\ f[k] \in Int /\ g[k] \in Int /\ f[k] <= g[k] + Half /\ g[k] <= f[k] + Half
                   /\ a[2] = "base" => f[k] = g[k]
  <2> SUFFICES ASSUME NEW k \in K
               PROVE  /\ f[k] \in Int /\ g[k] \in Int /\ f[k] <= g[k] + Half /\ g[k] <= f[k] + Half
                      /\ a[2] = "base" => f[k] = g[k]
    OBVIOUS
  <2>1. f[k] = TradeUnlock(ev, ev.trades[k], a) /\ g[k] = TradeDue(ev, ev.trades[k], a)
    OBVIOUS
  <2> HIDE DEF f, g
  <2>2. QED
    BY <2>1, TradeRounded
<1>3. \A k \in K : /\ h[k] \in Int /\ h[k] <= Half /\ -Half <= h[k] /\ f[k] = g[k] + h[k]
                   /\ a[2] = "base" => h[k] = 0
  <2>1. \A k \in K : h[k] = f[k] - g[k]
    OBVIOUS
  <2> HIDE DEF f, g, h
  <2>2. QED
    BY <1>1, <1>2, <2>1
<1>4. PICK rd, ru : rd = RefundDue(ev) /\ ru = Refund(ev)
  OBVIOUS
<1>5. TotalUnlock(ev, a) = SumFunctionOnSet(f, K) + (IF own THEN ru ELSE 0)
  BY <1>4 DEF TotalUnlock, SumFunction, LockedIn, Taker
<1>6. TotalDue(ev, a) = SumFunctionOnSet(g, K) + (IF own THEN rd ELSE 0)
  BY <1>4 DEF TotalDue, SumFunction
<1>7. /\ rd \in Int /\ ru \in Int
      /\ ru <= rd + Half * Refunds(ev) /\ rd <= ru + Half * Refunds(ev)
      /\ own /\ a[2] = "base" => ru = rd
  <2>1. rd \in Int /\ (Refunds(ev) = 0 => rd = 0) /\ Refunds(ev) \in {0, 1}
    BY <1>4, RefundIsInt DEF Refunds, RefundDue
  <2>2. CASE Taker(ev).side = "BUY"
    <3>1. ru = Round(rd)
      BY <1>4, <2>2 DEF Refund
    <3>2. ru \in Int /\ ru <= rd + Half /\ rd <= ru + Half
      BY <2>1, <3>1, RoundIs
    <3>3. own => a[2] # "base"
      BY <2>2 DEF LockedIn, LockCurrency, Taker
    <3>4. CASE Refunds(ev) = 0
      <4>1. rd = 0 /\ Round(0) = 0
        BY <2>1, <3>4, RoundZero
      <4>2. Half * Refunds(ev) = 0
        BY <1>1, <3>4
      <4>3. QED
        BY <3>1, <3>3, <4>1, <4>2
    <3>5. CASE Refunds(ev) = 1
      <4>1. Half * Refunds(ev) = Half
        BY <1>1, <3>5
      <4>2. QED
        BY <2>1, <3>2, <3>3, <4>1
    <3>6. QED
      BY <2>1, <3>4, <3>5
  <2>3. CASE Taker(ev).side # "BUY"
    <3>1. ru = rd
      BY <1>4, <2>3 DEF Refund
    <3>2. Half * Refunds(ev) \in Nat
      BY <1>1, ProductIsNat DEF Refunds
    <3>3. PICK x : x = Half * Refunds(ev)
      OBVIOUS
    <3>4. QED
      BY <2>1, <3>1, <3>2, <3>3
  <2>4. QED
    BY <2>2, <2>3
<1> HIDE DEF f, g, h, own, K
<1>8. SumFunctionOnSet(f, K) = SumFunctionOnSet(g, K) + SumFunctionOnSet(h, K)
  BY <1>1, <1>2, <1>3, SumPlus DEF IntOn
<1>9. /\ SumFunctionOnSet(h, K) <= Half * Cardinality(K)
      /\ -(Half * Cardinality(K)) <= SumFunctionOnSet(h, K)
  BY <1>1, <1>3, SumBound
<1>10. a[2] = "base" => SumFunctionOnSet(h, K) = 0
  BY <1>1, <1>3, SumZero
<1>11. SumFunctionOnSet(g, K) \in Int /\ SumFunctionOnSet(h, K) \in Int
  BY <1>1, <1>2, <1>3, SumInt DEF IntOn
<1>12. PICK sf, sg, sh, n, c :
         /\ sf = SumFunctionOnSet(f, K) /\ sg = SumFunctionOnSet(g, K) /\ sh = SumFunctionOnSet(h, K)
         /\ n = Half * Cardinality(K) /\ c = Half * Refunds(ev)
  OBVIOUS
<1>13. n \in Nat /\ c \in Nat /\ Half * (Cardinality(K) + Refunds(ev)) = n + c
  <2>1. Refunds(ev) \in Nat
    BY DEF Refunds
  <2>2. \A x, y, z \in Nat : x * (y + z) = x * y + x * z
    OBVIOUS
  <2>3. QED
    BY <1>1, <1>12, <2>1, <2>2, ProductIsNat
<1>14. PICK u, d : u = TotalUnlock(ev, a) /\ d = TotalDue(ev, a)
  OBVIOUS
<1>15. /\ u = sf + (IF own THEN ru ELSE 0) /\ d = sg + (IF own THEN rd ELSE 0)
       /\ sf = sg + sh /\ sh <= n /\ -n <= sh /\ sg \in Int /\ sh \in Int
       /\ ru <= rd + c /\ rd <= ru + c
       /\ a[2] = "base" => sh = 0
  BY <1>5, <1>6, <1>7, <1>8, <1>9, <1>10, <1>11, <1>12, <1>14
<1>16. /\ u \in Int /\ d \in Int
       /\ u <= d + (n + c) /\ d <= u + (n + c)
       /\ a[2] = "base" => u = d
  BY <1>7, <1>13, <1>15
<1>17. QED
  BY <1>13, <1>14, <1>16 DEF K

\* The unlock of an account is a whole amount.
LEMMA UnlockIsInt ==
  ASSUME ExchangeInv, settlements # <<>>, NEW ev, ev = Head(settlements), Settle(ev),
         NEW a \in Accounts
  PROVE  TotalUnlock(ev, a) \in Int
BY SettlementRounded

\* executeSettlementTx moves money between the columns of an account, and
\* between accounts as the trades say; the CHECK keeps balances from becoming
\* negative, and the WHERE clause locks.
LEMMA SettlementMoves ==
  ASSUME ExchangeInv, FundsTyped, settlements # <<>>, NEW ev, ev = Head(settlements), Settle(ev)
  PROVE  /\ FundsTyped'
         /\ \A a \in Accounts :
              balance'[a] + locked'[a] = balance[a] + locked[a] + TotalAmount(ev, a)
<1>1. \A a \in Accounts : TotalUnlock(ev, a) \in Int /\ TotalAmount(ev, a) \in Int
  <2>1. \A u \in Users, c \in Currencies : TotalAmount(ev, <<u, c>>) \in Int
    BY SettlementCancels
  <2>2. QED
    BY <2>1, UnlockIsInt DEF Accounts
<1>2. /\ locked' = [a \in Accounts |-> locked[a] - Unlocked(a, TotalUnlock(ev, a))]
      /\ balance' = [a \in Accounts |-> BalanceAfter(ev, a)]
      /\ \A a \in Accounts : BalanceAfter(ev, a) >= 0
      /\ refused' \subseteq Accounts
  BY DEF Settle, Affordable, FundsTyped
<1>3. ASSUME NEW a \in Accounts
      PROVE  /\ locked'[a] \in Nat /\ balance'[a] \in Nat
             /\ balance'[a] + locked'[a] = balance[a] + locked[a] + TotalAmount(ev, a)
  <2>1. balance[a] \in Nat /\ locked[a] \in Nat
    BY DEF FundsTyped
  <2>2. PICK u : u = Unlocked(a, TotalUnlock(ev, a))
    OBVIOUS
  <2>3. u \in Int /\ u <= locked[a]
    BY <1>1, <2>1, <2>2 DEF Unlocked
  <2>4. locked'[a] = locked[a] - u /\ balance'[a] = balance[a] + u + TotalAmount(ev, a)
        /\ balance'[a] >= 0
    BY <1>2, <2>2 DEF BalanceAfter
  <2>5. QED
    BY <1>1, <2>1, <2>3, <2>4
<1>4. QED
  BY <1>2, <1>3 DEF FundsTyped

\* A step that changes the accounts by amounts that add up to nothing conserves
\* the money.
LEMMA MoneyKept ==
  ASSUME FundsTyped, FundsTyped', MoneyConserved, NEW d,
         \A a \in Accounts :
           d[a] \in Int /\ balance'[a] + locked'[a] = balance[a] + locked[a] + d[a],
         \A c \in Currencies : SumFunctionOnSet([u \in Users |-> d[<<u, c>>]], Users) = 0
  PROVE  MoneyConserved'
<1> SUFFICES ASSUME NEW c \in Currencies
             PROVE  SumFunction([u \in Users |-> balance'[<<u, c>>] + locked'[<<u, c>>]])
                      = SumFunction([u \in Users |-> Funds[<<u, c>>]])
  BY DEF MoneyConserved
<1> DEFINE f == [u \in Users |-> balance[<<u, c>>] + locked[<<u, c>>]]
           g == [u \in Users |-> d[<<u, c>>]]
           h == [u \in Users |-> balance'[<<u, c>>] + locked'[<<u, c>>]]
<1>1. \A u \in Users : <<u, c>> \in Accounts
  BY DEF Accounts
<1>2. \A u \in Users : f[u] \in Int /\ g[u] \in Int /\ h[u] = f[u] + g[u]
  BY <1>1 DEF FundsTyped
<1>3. SumFunctionOnSet(f, Users) = SumFunction([u \in Users |-> Funds[<<u, c>>]])
  BY DEF MoneyConserved, SumFunction
<1>4. SumFunctionOnSet(g, Users) = 0
  OBVIOUS
<1>5. SumFunction(h) = SumFunctionOnSet(h, Users)
  BY DEF SumFunction
<1> HIDE DEF f, g, h
<1>6. SumFunctionOnSet(h, Users) = SumFunctionOnSet(f, Users) + SumFunctionOnSet(g, Users)
  BY <1>2, UsersAssumption, SumPlus DEF IntOn
<1>7. SumFunctionOnSet(f, Users) \in Int
  BY <1>2, UsersAssumption, SumInt DEF IntOn
<1>8. QED
  BY <1>3, <1>4, <1>5, <1>6, <1>7 DEF h

\* A settlement conserves it.
LEMMA SettlementConserves ==
  ASSUME ExchangeInv, FundsTyped, MoneyConserved,
         settlements # <<>>, NEW ev, ev = Head(settlements), Settle(ev)
  PROVE  MoneyConserved'
<1> DEFINE d == [a \in Accounts |-> TotalAmount(ev, a)]
<1>1. /\ FundsTyped'
      /\ \A a \in Accounts : balance'[a] + locked'[a] = balance[a] + locked[a] + TotalAmount(ev, a)
  BY SettlementMoves
<1>2. \A u \in Users, c \in Currencies : TotalAmount(ev, <<u, c>>) \in Int
  BY SettlementCancels
<1>3. \A a \in Accounts : d[a] \in Int /\ d[a] = TotalAmount(ev, a)
  BY <1>2 DEF Accounts
<1>4. ASSUME NEW c \in Currencies
      PROVE  SumFunctionOnSet([u \in Users |-> d[<<u, c>>]], Users) = 0
  <2>1. PICK g : g = [u \in Users |-> TotalAmount(ev, <<u, c>>)]
    OBVIOUS
  <2>2. SumFunctionOnSet(g, Users) = 0
    BY <2>1, SettlementCancels
  <2>3. [u \in Users |-> d[<<u, c>>]] = g
    BY <2>1 DEF Accounts
  <2>4. QED
    BY <2>2, <2>3
<1> HIDE DEF d
<1>5. \A a \in Accounts :
        d[a] \in Int /\ balance'[a] + locked'[a] = balance[a] + locked[a] + d[a]
  BY <1>1, <1>3
<1>6. QED
  BY <1>1, <1>4, <1>5, MoneyKept

\* Placing and cancelling only move money between the columns of an account.
LEMMA MoneyStays ==
  ASSUME FundsTyped, FundsTyped', MoneyConserved,
         \A a \in Accounts : balance'[a] + locked'[a] = balance[a] + locked[a]
  PROVE  MoneyConserved'
<1> DEFINE d == [a \in Accounts |-> 0]
<1>1. \A a \in Accounts : balance[a] + locked[a] \in Int
  BY DEF FundsTyped
<1>2. \A a \in Accounts :
        d[a] \in Int /\ balance'[a] + locked'[a] = balance[a] + locked[a] + d[a]
  BY <1>1
<1>3. ASSUME NEW c \in Currencies
      PROVE  SumFunctionOnSet([u \in Users |-> d[<<u, c>>]], Users) = 0
  <2> DEFINE g == [u \in Users |-> d[<<u, c>>]]
  <2>1. \A u \in Users : g[u] = 0
    BY DEF Accounts
  <2> HIDE DEF g
  <2>2. SumFunctionOnSet(g, Users) = 0
    BY <2>1, UsersAssumption, SumZero
  <2>3. QED
    BY <2>2 DEF g
<1> HIDE DEF d
<1>4. QED
  BY <1>2, <1>3, MoneyKept

-----------------------------------------------------------------------------
(* What the open orders need *)

\* LocksMatchOrders, said of any rows of orders.
Open(r) == r.status \in {"NEW", "PARTIALLY_FILLED"}
AccountOf(r) == <<r.user, LockCurrency(r.side)>>
ReservedOf(r) == IF MarketBuy(r) THEN r.lock ELSE RestAmount(r)
NeedOf(r) == IF Open(r) THEN ReservedOf(r) ELSE 0
HoldersIn(rows, a) == {i \in DOMAIN rows : AccountOf(rows[i]) = a}
Needed(rows, a) == SumFunction([i \in HoldersIn(rows, a) |-> NeedOf(rows[i])])

WellFilled(rows) ==
  rows \in Seq(OrderRow) /\ \A i \in DOMAIN rows : rows[i].filled <= rows[i].qty

\* The rest of an order is its unfilled quantity at its unit's lock.
LEMMA RestIs ==
  ASSUME NEW r \in OrderRow, r.filled <= r.qty
  PROVE  /\ RestAmount(r) = Unit(r) * (r.qty - r.filled)
         /\ r.qty - r.filled \in Nat /\ Unit(r) \in Nat
         /\ RestAmount(r) \in Nat /\ NeedOf(r) \in Nat
<1>1. /\ r.qty \in Nat /\ r.filled \in Nat /\ r.price \in Nat /\ r.lock \in Nat
  BY DEF OrderRow
<1>2. r.qty - r.filled \in Nat /\ Unit(r) \in Nat
  BY <1>1 DEF Unit
<1>3. RestAmount(r) = Unit(r) * (r.qty - r.filled)
  BY <1>1, <1>2 DEF RestAmount, Unit
<1>4. RestAmount(r) \in Nat
  BY <1>2, <1>3, ProductIsNat
<1>5. NeedOf(r) \in Nat
  BY <1>1, <1>4 DEF NeedOf, ReservedOf
<1>6. QED
  BY <1>2, <1>3, <1>4, <1>5

\* Closed orders need nothing.
LEMMA NeededIs ==
  ASSUME NEW rows, WellFilled(rows), NEW a
  PROVE  /\ IsFiniteSet(HoldersIn(rows, a))
         /\ \A i \in HoldersIn(rows, a) : NeedOf(rows[i]) \in Nat
         /\ Needed(rows, a) \in Nat
         /\ Needed(rows, a) =
              SumFunction([i \in {j \in {k \in DOMAIN rows : Open(rows[k])} : AccountOf(rows[j]) = a}
                             |-> ReservedOf(rows[i])])
<1> DEFINE H == HoldersIn(rows, a)
           P == {j \in {k \in DOMAIN rows : Open(rows[k])} : AccountOf(rows[j]) = a}
           f == [i \in H |-> NeedOf(rows[i])]
           g == [i \in P |-> ReservedOf(rows[i])]
<1>1. IsFiniteSet(H) /\ P \in SUBSET H
  <2>1. DOMAIN rows = 1..Len(rows) /\ Len(rows) \in Nat
    BY DEF WellFilled
  <2>2. IsFiniteSet(1..Len(rows))
    BY <2>1, FS_Interval
  <2>3. H \subseteq DOMAIN rows /\ P \subseteq H
    BY DEF HoldersIn
  <2>4. IsFiniteSet(H)
    BY <2>1, <2>2, <2>3, FS_Subset
  <2>5. QED
    BY <2>3, <2>4
<1>2. \A i \in H : f[i] \in Nat /\ NeedOf(rows[i]) \in Nat
  <2>1. \A i \in DOMAIN rows : rows[i] \in OrderRow /\ rows[i].filled <= rows[i].qty
    BY DEF WellFilled
  <2>2. \A i \in DOMAIN rows : NeedOf(rows[i]) \in Nat
    BY <2>1, RestIs
  <2>3. QED
    BY <2>2 DEF HoldersIn
<1>3. (\A i \in P : f[i] = g[i]) /\ \A i \in H \ P : f[i] = 0
  BY DEF NeedOf, HoldersIn
<1>4. Needed(rows, a) = SumFunctionOnSet(f, H) /\ SumFunction(g) = SumFunctionOnSet(g, P)
  BY DEF Needed, SumFunction
<1>5. SumFunctionOnSet(f, H) = SumFunctionOnSet(g, P)
  <2> HIDE DEF f, g, H, P
  <2>1. IntOn(g, P)
    BY <1>1, <1>2, <1>3 DEF IntOn
  <2>2. QED
    BY <1>1, <1>3, <2>1, SumWhere
<1>6. SumFunctionOnSet(f, H) \in Nat
  <2> HIDE DEF f, H
  <2>1. QED
    BY <1>1, <1>2, SumNat
<1>7. QED
  BY <1>1, <1>2, <1>4, <1>5, <1>6

\* What is locked for a need of n, when rounding may have moved off and an
\* unlock may have been refused.
Fits(lock, n, off, isRefused) ==
  /\ n <= lock + off
  /\ ~isRefused => lock <= n + off
  /\ isRefused => off > 0

\* The property in these terms.
LEMMA LocksNow ==
  ASSUME WellFilled(orders)
  PROVE  LocksMatchOrders <=>
           (~Overspent => \A a \in Accounts :
              Fits(locked[a], Needed(orders, a), RoundedOff(a), a \in refused))
<1>1. PICK rows : rows = orders
  OBVIOUS
<1>2. \A a : Needed(rows, a) =
        SumFunction([i \in {j \in {k \in DOMAIN rows : Open(rows[k])} : AccountOf(rows[j]) = a}
                       |-> ReservedOf(rows[i])])
  <2>1. WellFilled(rows)
    BY <1>1
  <2>2. QED
    BY <2>1, NeededIs
<1>3. /\ \A a : {j \in {k \in DOMAIN rows : Open(rows[k])} : AccountOf(rows[j]) = a}
                 = {j \in OpenRows : LockedIn(j) = a}
      /\ \A i : ReservedOf(rows[i]) = Reserved(i)
  BY <1>1 DEF OpenRows, IsOpen, LockedIn, Reserved, Open, AccountOf, ReservedOf, MarketBuy
<1>4. \A a : Needed(orders, a) =
        SumFunction([i \in {j \in OpenRows : LockedIn(j) = a} |-> Reserved(i)])
  BY <1>1, <1>2, <1>3
<1>5. QED
  BY <1>4 DEF LocksMatchOrders, Fits

\* The same of the state after a step.
LEMMA LocksNext ==
  ASSUME WellFilled(orders')
  PROVE  LocksMatchOrders' <=>
           (~Overspent' => \A a \in Accounts :
              Fits(locked'[a], Needed(orders', a), RoundedOff(a)', a \in refused'))
<1>1. PICK rows : rows = orders'
  OBVIOUS
<1>2. \A a : Needed(rows, a) =
        SumFunction([i \in {j \in {k \in DOMAIN rows : Open(rows[k])} : AccountOf(rows[j]) = a}
                       |-> ReservedOf(rows[i])])
  <2>1. WellFilled(rows)
    BY <1>1
  <2>2. QED
    BY <2>1, NeededIs
<1>3. /\ \A a : {j \in {k \in DOMAIN rows : Open(rows[k])} : AccountOf(rows[j]) = a}
                 = {j \in OpenRows' : LockedIn(j)' = a}
      /\ \A i : ReservedOf(rows[i]) = Reserved(i)'
  <2>1. {k \in DOMAIN rows : Open(rows[k])} = OpenRows'
    BY <1>1 DEF OpenRows, IsOpen, Open
  <2>2. \A j : AccountOf(rows[j]) = LockedIn(j)'
    BY <1>1 DEF AccountOf, LockedIn
  <2>3. \A i : ReservedOf(rows[i]) = Reserved(i)'
    BY <1>1 DEF Reserved, ReservedOf, MarketBuy, RestAmount
  <2>4. QED
    BY <2>1, <2>2, <2>3
<1>4. \A a : Needed(orders', a) =
        SumFunction([i \in {j \in OpenRows' : LockedIn(j)' = a} |-> Reserved(i)'])
  BY <1>1, <1>2, <1>3
<1>5. QED
  BY <1>4 DEF LocksMatchOrders, Fits

\* What rounding may have moved when T is the trades table and C the closed orders.
OffOf(T, C, a) == IF a[2] = "quote" THEN Half * (Cardinality(T) + Cardinality(C)) ELSE 0

LEMMA OffIs ==
  ASSUME NEW T, IsFiniteSet(T), NEW C, IsFiniteSet(C), NEW a
  PROVE  OffOf(T, C, a) \in Nat
<1>1. Cardinality(T) + Cardinality(C) \in Nat
  BY FS_CardinalityType
<1>2. QED
  BY <1>1, HalfIs, ProductIsNat DEF OffOf

\* It only grows, by half a unit for each further trade and closed order.
LEMMA OffGrows ==
  ASSUME NEW T, IsFiniteSet(T), NEW C, IsFiniteSet(C), NEW U, IsFiniteSet(U),
         NEW D, IsFiniteSet(D), NEW n \in Nat, NEW a,
         Cardinality(U) + Cardinality(D) >= Cardinality(T) + Cardinality(C) + n
  PROVE  /\ OffOf(U, D, a) \in Nat /\ OffOf(T, C, a) \in Nat
         /\ OffOf(U, D, a) >= OffOf(T, C, a) + (IF a[2] = "quote" THEN Half * n ELSE 0)
<1>1. PICK x, y : /\ x = Cardinality(T) + Cardinality(C)
                  /\ y = Cardinality(U) + Cardinality(D)
  OBVIOUS
<1>2. x \in Nat /\ y \in Nat /\ y >= x + n
  BY <1>1, FS_CardinalityType
<1>3. \A h, b, c, m \in Nat : c >= b + m => h * c >= h * b + h * m
  <2> SUFFICES ASSUME NEW h \in Nat, NEW b \in Nat, NEW c \in Nat, NEW m \in Nat, c >= b + m
               PROVE  h * c >= h * b + h * m
    OBVIOUS
  <2>1. PICK k \in Nat : c = (b + m) + k
    <3>1. c - (b + m) \in Nat /\ c = (b + m) + (c - (b + m))
      OBVIOUS
    <3>2. QED
      BY <3>1
  <2>2. h * ((b + m) + k) = (h * b + h * m) + h * k /\ h * k \in Nat
    OBVIOUS
  <2>3. QED
    BY <2>1, <2>2
<1>4. Half * y >= Half * x + Half * n
  BY <1>2, <1>3, HalfIs
<1>5. QED
  BY <1>1, <1>4, OffIs DEF OffOf

\* No order is filled beyond its quantity.
LEMMA FilledBound ==
  ASSUME ExchangeInv
  PROVE  WellFilled(orders)
<1>1. orders \in Seq(OrderRow)
  BY DEF ExchangeInv, Typed
<1>2. ASSUME NEW i \in DOMAIN orders PROVE orders[i].filled <= orders[i].qty
  <2>1. AllRows \subseteq Row /\ IsFiniteSet(AllRows) /\ tradeTable \in SUBSET AllRows
    BY DEF ExchangeInv, Typed, AllRows, Reported
  <2>2. QtyOf(tradeTable, i) <= QtyOf(AllRows, i) /\ QtyOf(AllRows, i) \in Nat
    BY <2>1, QtyPart, QtyIsNat
  <2>3. orders[i].filled = QtyOf(tradeTable, i) /\ QtyOf(AllRows, i) <= orders[i].qty
    BY DEF ExchangeInv, Table, Quantities
  <2>4. orders[i].filled \in Nat /\ orders[i].qty \in Nat
    BY RowFields
  <2>5. QED
    BY <2>2, <2>3, <2>4
<1>3. QED
  BY <1>1, <1>2 DEF WellFilled

-----------------------------------------------------------------------------
(* What the orders have cost *)

SpentIn(R, i) == SumFunction([t \in Mentioning(R, i) |-> t.price * t.qty])

\* What an order has cost only grows.
LEMMA SpentGrows ==
  ASSUME NEW S, S \subseteq Row, IsFiniteSet(S), NEW R \in SUBSET S, NEW i
  PROVE  SpentIn(R, i) \in Nat /\ SpentIn(S, i) \in Nat /\ SpentIn(R, i) <= SpentIn(S, i)
<1> DEFINE M == Mentioning(R, i)
           N == Mentioning(S, i)
           f == [t \in M |-> t.price * t.qty]
           g == [t \in N |-> t.price * t.qty]
<1>1. IsFiniteSet(N) /\ M \in SUBSET N /\ N \subseteq S /\ IsFiniteSet(M)
  BY FS_Subset DEF Mentioning
<1>2. \A t \in N : g[t] \in Nat
  <2>1. \A t \in N : t.price \in Nat /\ t.qty \in Nat
    BY <1>1 DEF Row, Ids
  <2>2. QED
    BY <2>1, ProductIsNat
<1>3. \A t \in M : f[t] = g[t]
  BY <1>1
<1>4. SpentIn(R, i) = SumFunctionOnSet(f, M) /\ SpentIn(S, i) = SumFunctionOnSet(g, N)
  BY DEF SpentIn, SumFunction
<1> HIDE DEF M, N, f, g
<1>5. SumFunctionOnSet(f, M) = SumFunctionOnSet(g, M)
  <2>1. IntOn(g, M)
    BY <1>1, <1>2 DEF IntOn
  <2>2. QED
    BY <1>1, <1>3, <2>1, SumSame
<1>6. SumFunctionOnSet(g, M) <= SumFunctionOnSet(g, N)
  BY <1>1, <1>2, SumPart
<1>7. SumFunctionOnSet(g, M) \in Nat /\ SumFunctionOnSet(g, N) \in Nat
  BY <1>1, <1>2, SumNat
<1>8. QED
  BY <1>4, <1>5, <1>6, <1>7

\* So a market buy that has cost more than it locked stays one.
LEMMA OverspentStays ==
  ASSUME KeepsTerms, tradeTable \subseteq tradeTable', tradeTable' \subseteq Row,
         IsFiniteSet(tradeTable'), Overspent, \A i \in DOMAIN orders : orders[i].lock \in Nat
  PROVE  Overspent'
<1>1. PICK i \in DOMAIN orders :
        orders[i].side = "BUY" /\ orders[i].type = "MARKET" /\ Spent(i) > orders[i].lock
  BY DEF Overspent
<1>2. PICK R, S : R = tradeTable /\ S = tradeTable'
  OBVIOUS
<1>3. SpentIn(R, i) \in Nat /\ SpentIn(S, i) \in Nat /\ SpentIn(R, i) <= SpentIn(S, i)
  BY <1>2, SpentGrows
<1>4. Spent(i) = SpentIn(R, i)
  BY <1>2 DEF Spent, SpentIn, TradesOf, Mentioning
<1>5. Spent(i)' = SpentIn(S, i)
  BY <1>2 DEF Spent, SpentIn, TradesOf, Mentioning
<1>6. Spent(i)' > orders[i].lock
  BY <1>1, <1>3, <1>4, <1>5
<1>7. i \in DOMAIN orders' /\ orders'[i].side = "BUY" /\ orders'[i].type = "MARKET"
      /\ orders'[i].lock = orders[i].lock
  BY <1>1 DEF KeepsTerms
<1>8. QED
  BY <1>6, <1>7 DEF Overspent

\* When a settlement is recorded, its taker has cost what its trades are worth.
LEMMA TakerSpends ==
  ASSUME ExchangeInv, settlements # <<>>, NEW ev, ev = Head(settlements), Settle(ev)
  PROVE  SpentIn(tradeTable', ev.id) = Value(ev)
<1> DEFINE K == DOMAIN ev.trades
           v == [k \in K |-> ev.trades[k].price * ev.trades[k].qty]
           b == [k \in K |-> TradeRow(ev, k)]
           g == [t \in Rows(ev) |-> t.price * t.qty]
<1>1. /\ ev \in TradesEvent /\ orders[ev.id].status = "NEW" /\ IsFiniteSet(K)
  BY SettleFinds, TradesFinite
<1>2. \A t \in tradeTable : t.maker # ev.id /\ t.taker # ev.id
  BY <1>1 DEF ExchangeInv, Applied
<1>3. tradeTable' = tradeTable \cup Rows(ev) /\ Rows(ev) = {b[k] : k \in K}
      /\ \A t \in Rows(ev) : t.taker = ev.id
  BY <1>1, EventRows DEF Settle
<1>4. Mentioning(tradeTable', ev.id) = Rows(ev)
  BY <1>2, <1>3 DEF Mentioning
<1>5. SpentIn(tradeTable', ev.id) = SumFunctionOnSet(g, Rows(ev))
  BY <1>4 DEF SpentIn, SumFunction
<1>6. Value(ev) = SumFunctionOnSet(v, K)
  BY DEF Value, SumFunction
<1>7. \A k \in K : v[k] \in Int
  BY EventTrade, ProductIsNat
<1>8. \A j, k \in K : b[j] = b[k] => j = k
  BY DEF TradeRow
<1>9. \A k \in K : g[b[k]] = v[k]
  BY <1>3 DEF TradeRow
<1> HIDE DEF v, b, g, K
<1>10. SumFunctionOnSet(g, {b[k] : k \in K}) = SumFunctionOnSet(v, K)
  <2>1. IntOn(v, K)
    BY <1>7 DEF IntOn
  <2>2. QED
    BY <1>1, <1>8, <1>9, <2>1, SumReindex
<1>11. QED
  BY <1>3, <1>5, <1>6, <1>10

-----------------------------------------------------------------------------
(* A settlement unlocks what the orders no longer need *)

\* The rows after a settlement, and how far they are filled.
LEMMA SettledFills ==
  ASSUME ExchangeInv, settlements # <<>>, NEW ev, ev = Head(settlements), Settle(ev)
  PROVE  /\ WellFilled(orders')
         /\ DOMAIN orders' = DOMAIN orders
         /\ tradeTable \subseteq tradeTable' /\ tradeTable' \subseteq Row /\ IsFiniteSet(tradeTable')
         /\ KeepsTerms
<1>1. DOMAIN orders' = DOMAIN orders /\ orders' = [i \in DOMAIN orders |-> orders'[i]]
  BY DEF Settle, OrdersAfter
<1>2. /\ ev \in TradesEvent /\ Rows(ev) \subseteq AllRows /\ Rows(ev) \cap tradeTable = {}
      /\ tradeTable' = tradeTable \cup Rows(ev)
  BY SettleFinds, FirstEvent, EventRows DEF Settle
<1>3. /\ AllRows \subseteq Row /\ IsFiniteSet(AllRows) /\ tradeTable \subseteq AllRows
      /\ tradeTable' \in SUBSET AllRows
  BY <1>2 DEF ExchangeInv, Typed, AllRows, Reported
<1>4. IsFiniteSet(tradeTable) /\ IsFiniteSet(Rows(ev)) /\ IsFiniteSet(tradeTable')
      /\ tradeTable \subseteq Row /\ Rows(ev) \subseteq Row /\ tradeTable' \subseteq Row
  BY <1>2, <1>3, FS_Subset
<1>5. ASSUME NEW i \in DOMAIN orders
      PROVE  orders'[i] \in OrderRow /\ orders'[i].filled <= orders'[i].qty
  <2>1. /\ orders'[i] \in OrderRow /\ orders'[i].qty = orders[i].qty
        /\ orders'[i].filled = orders[i].filled + QtyOf(Rows(ev), i)
    BY SettledRow
  <2>2. orders[i].filled = QtyOf(tradeTable, i) /\ QtyOf(AllRows, i) <= orders[i].qty
    BY DEF ExchangeInv, Table, Quantities
  <2>3. PICK R : R = tradeTable'
    OBVIOUS
  <2>4. QtyOf(R, i) = QtyOf(tradeTable, i) + QtyOf(Rows(ev), i)
    <3>1. Mentioning(tradeTable, i) \cap Mentioning(Rows(ev), i) = {}
      BY <1>2 DEF Mentioning
    <3>2. QED
      BY <1>2, <1>4, <2>3, <3>1, QtyUnion
  <2>5. QtyOf(R, i) <= QtyOf(AllRows, i) /\ QtyOf(AllRows, i) \in Nat /\ QtyOf(R, i) \in Nat
    BY <1>3, <1>4, <2>3, QtyPart, QtyIsNat
  <2>6. orders[i].qty \in Nat
    BY RowFields
  <2>7. QED
    BY <2>1, <2>2, <2>4, <2>5, <2>6
<1>6. orders' \in Seq(OrderRow)
  <2>1. DOMAIN orders = 1..Len(orders) /\ Len(orders) \in Nat
    BY KnownIds
  <2>2. orders' \in [1..Len(orders) -> OrderRow]
    BY <1>1, <1>5, <2>1
  <2>3. QED
    BY <1>1, <2>1, <2>2
<1>7. KeepsTerms
  BY <1>1, SettledRow DEF KeepsTerms
<1>8. QED
  BY <1>1, <1>2, <1>4, <1>5, <1>6, <1>7 DEF WellFilled

\* A maker needs its unit's lock less for every unit that was filled.
LEMMA MakerNeed ==
  ASSUME ExchangeInv, settlements # <<>>, NEW ev, ev = Head(settlements), Settle(ev),
         NEW i \in DOMAIN orders, i # ev.id
  PROVE  NeedOf(orders[i]) = NeedOf(orders'[i]) + Unit(orders[i]) * MakerFill(ev, i)
<1>1. PICK r : r = orders'[i]
  OBVIOUS
<1>2. PICK m : m = MakerFill(ev, i)
  OBVIOUS
<1>3. /\ ev \in TradesEvent /\ m = QtyOf(Rows(ev), i) /\ m \in Nat
      /\ m > 0 <=> i \in MakersOf(Rows(ev))
  BY <1>2, SettleFinds, EventQty
<1>4. orders[i] \in OrderRow /\ orders[i].filled <= orders[i].qty
      /\ r \in OrderRow /\ r.filled <= r.qty
  <2>1. WellFilled(orders) /\ WellFilled(orders') /\ DOMAIN orders' = DOMAIN orders
    BY FilledBound, SettledFills
  <2>2. QED
    BY <1>1, <2>1 DEF WellFilled
<1>5. /\ Unit(orders[i]) \in Nat /\ orders[i].qty - orders[i].filled \in Nat
      /\ RestAmount(orders[i]) = Unit(orders[i]) * (orders[i].qty - orders[i].filled)
      /\ RestAmount(r) = Unit(r) * (r.qty - r.filled) /\ r.qty - r.filled \in Nat
      /\ NeedOf(orders[i]) \in Nat
  BY <1>4, RestIs
<1>6. CASE m = 0
  <2>1. r = orders[i]
    BY <1>1, <1>3, <1>6, SettledRow
  <2>2. Unit(orders[i]) * m = 0
    BY <1>5, <1>6
  <2>3. QED
    BY <1>1, <1>2, <1>5, <2>1, <2>2
<1>7. CASE m # 0
  <2>1. i \in MakersOf(Rows(ev))
    BY <1>3, <1>7
  <2>2. IsOpen(i) /\ Rows(ev) \subseteq AllRows
    BY <2>1, SettleFinds, FirstEvent
  <2>3. orders[i].type = "LIMIT"
    <3>1. PICK t \in Rows(ev) : t.maker = i
      BY <2>1 DEF MakersOf
    <3>2. QED
      BY <2>2, <3>1 DEF ExchangeInv, Trades, RowOK
  <2>4. /\ r.side = orders[i].side /\ r.price = orders[i].price /\ r.type = orders[i].type
        /\ r.qty = orders[i].qty /\ r.filled = orders[i].filled + m
        /\ r.status = IF r.filled = r.qty THEN "FILLED" ELSE "PARTIALLY_FILLED"
    BY <1>1, <1>3, <2>1, SettledRow DEF MakerStatus
  <2>5. NeedOf(orders[i]) = Unit(orders[i]) * (orders[i].qty - orders[i].filled)
    BY <1>5, <2>2, <2>3 DEF NeedOf, ReservedOf, MarketBuy, Open, IsOpen
  <2>6. Unit(r) = Unit(orders[i])
    BY <2>4 DEF Unit
  <2>7. NeedOf(r) = Unit(r) * (r.qty - r.filled)
    <3>1. CASE r.filled = r.qty
      <4>1. NeedOf(r) = 0
        BY <2>4, <3>1 DEF NeedOf, Open
      <4>2. r.qty - r.filled = 0
        BY <1>4, <3>1 DEF OrderRow
      <4>3. Unit(r) * 0 = 0
        BY <1>5, <2>6
      <4>4. r.qty - r.filled = 0 /\ Unit(r) * (r.qty - r.filled) = Unit(r) * 0
        BY <4>2
      <4>5. QED
        BY <4>1, <4>3, <4>4
    <3>2. CASE r.filled # r.qty
      BY <1>5, <2>3, <2>4, <3>2 DEF NeedOf, ReservedOf, MarketBuy, Open
    <3>3. QED
      BY <3>1, <3>2
  <2>8. orders[i].qty - orders[i].filled = (r.qty - r.filled) + m
    <3>1. orders[i].qty \in Nat /\ orders[i].filled \in Nat
      BY <1>4 DEF OrderRow
    <3>2. PICK q, g : q = orders[i].qty /\ g = orders[i].filled
      OBVIOUS
    <3>3. q \in Nat /\ g \in Nat /\ m \in Nat /\ r.qty = q /\ r.filled = g + m
      BY <1>3, <2>4, <3>1, <3>2
    <3>4. q - g = (q - (g + m)) + m
      BY <3>3
    <3>5. QED
      BY <3>2, <3>3, <3>4
  <2>9. \A u, x, y \in Nat : u * (x + y) = u * x + u * y
    OBVIOUS
  <2>10. QED
    BY <1>1, <1>2, <1>3, <1>5, <2>5, <2>6, <2>7, <2>8, <2>9
<1>8. QED
  BY <1>6, <1>7

\* The taker needs less by what its trades and its refund unlock, unless it is
\* a market buy that cost more than it locked.
LEMMA TakerNeed ==
  ASSUME ExchangeInv, settlements # <<>>, NEW ev, ev = Head(settlements), Settle(ev), ~Overspent'
  PROVE  /\ NeedOf(orders[ev.id]) = NeedOf(orders'[ev.id]) + (TakerPart(ev) + RefundDue(ev))
         /\ TakerPart(ev) \in Nat /\ RefundDue(ev) \in Nat
<1>1. PICK o, r, f, v : /\ o = orders[ev.id] /\ r = orders'[ev.id]
                        /\ f = Filled(ev) /\ v = Value(ev)
  OBVIOUS
<1>2. /\ ev \in TradesEvent /\ IsTrades(ev) /\ ev.id \in DOMAIN orders /\ o.status = "NEW"
      /\ o.filled = 0 /\ f = QtyOf(Rows(ev), ev.id) /\ f \in Nat
      /\ v \in Nat /\ TakerFilled(ev) = f
  BY <1>1, SettleFinds, EventQty, RefundIsInt
<1>3. /\ o \in OrderRow /\ o.filled <= o.qty /\ r \in OrderRow /\ r.filled <= r.qty
      /\ DOMAIN orders' = DOMAIN orders
  <2>1. WellFilled(orders) /\ WellFilled(orders') /\ DOMAIN orders' = DOMAIN orders
    BY FilledBound, SettledFills
  <2>2. QED
    BY <1>1, <1>2, <2>1 DEF WellFilled
<1>4. /\ o.qty \in Nat /\ o.price \in Nat /\ o.lock \in Nat /\ o.side \in Sides /\ o.type \in Types
  BY <1>3 DEF OrderRow
<1>5. /\ r.side = o.side /\ r.type = o.type /\ r.price = o.price /\ r.qty = o.qty /\ r.lock = o.lock
      /\ r.filled = f
      /\ r.status = TakerStatus(ev)
  BY <1>1, <1>2, SettledRow
<1>6. Open(r) <=> o.type = "LIMIT" /\ f # o.qty /\ ev.remaining # 0
  BY <1>1, <1>2, <1>4, <1>5, TakerStatusIs DEF Open, Taker
<1>7. ev.remaining \in Nat /\ (ev.remaining > 0 => ev.remaining + f = o.qty) /\ f <= o.qty
  <2>1. 1 \in DOMAIN settlements /\ ev = settlements[1]
    BY FirstEvent
  <2>2. LeftOver(ev)
    BY <1>2, <2>1 DEF ExchangeInv, Reports
  <2>3. QED
    BY <1>1, <1>2, <1>3, <1>5, <2>2 DEF LeftOver, TradesEvent
<1>8. PICK u : u = Unit(o)
  OBVIOUS
<1>9. /\ u \in Nat /\ Unit(r) = u
      /\ RestAmount(o) = u * o.qty /\ RestAmount(r) = u * (o.qty - f) /\ RestAmount(r) \in Nat
  <2>1. /\ Unit(o) \in Nat /\ RestAmount(o) = Unit(o) * (o.qty - o.filled)
        /\ RestAmount(r) = Unit(r) * (r.qty - r.filled) /\ RestAmount(r) \in Nat
    BY <1>3, RestIs
  <2>2. Unit(r) = Unit(o)
    BY <1>5 DEF Unit
  <2>3. o.qty - o.filled = o.qty /\ r.qty - r.filled = o.qty - f
    BY <1>2, <1>4, <1>5
  <2>4. PICK a, b, s, t : /\ a = RestAmount(o) /\ b = RestAmount(r)
                          /\ s = o.qty - o.filled /\ t = r.qty - r.filled
    OBVIOUS
  <2>5. /\ u \in Nat /\ Unit(r) = u /\ a = u * s /\ b = u * t /\ b \in Nat
        /\ s = o.qty /\ t = o.qty - f
    BY <1>8, <2>1, <2>2, <2>3, <2>4
  <2>6. QED
    BY <2>4, <2>5
<1>10. u * f + u * (o.qty - f) = u * o.qty /\ u * f \in Nat /\ u * (o.qty - f) \in Nat
  <2>1. \A x, y, z \in Nat : x * y + x * z = x * (y + z)
    OBVIOUS
  <2>2. f \in Nat /\ o.qty - f \in Nat /\ f + (o.qty - f) = o.qty
    BY <1>2, <1>4, <1>7
  <2>3. PICK q, rest : q = o.qty /\ rest = o.qty - f
    OBVIOUS
  <2>4. f \in Nat /\ rest \in Nat /\ f + rest = q
    BY <2>2, <2>3
  <2>5. u * f + u * rest = u * (f + rest)
    BY <1>9, <2>1, <2>4
  <2>6. u * f \in Nat /\ u * rest \in Nat
    BY <1>9, <2>4, ProductIsNat
  <2>7. QED
    BY <2>3, <2>4, <2>5, <2>6
<1>11. NeedOf(o) = IF MarketBuy(o) THEN o.lock ELSE u * o.qty
  BY <1>2, <1>9 DEF NeedOf, ReservedOf, Open
<1>12. TakerPart(ev) = IF MarketBuy(o) THEN v ELSE u * f
  BY <1>1, <1>8 DEF TakerPart, Taker
<1>13. CASE MarketBuy(o)
  <2>1. v <= o.lock
    <3>1. PICK S : S = tradeTable'
      OBVIOUS
    <3>2. Spent(ev.id)' = SpentIn(S, ev.id)
      BY <3>1 DEF Spent, SpentIn, TradesOf, Mentioning
    <3>3. SpentIn(S, ev.id) = v
      BY <1>1, <3>1, TakerSpends
    <3>4. ~(Spent(ev.id)' > r.lock)
      BY <1>1, <1>2, <1>3, <1>5, <1>13 DEF Overspent, MarketBuy
    <3>5. QED
      BY <1>2, <1>4, <1>5, <3>2, <3>3, <3>4
  <2>2. RefundDue(ev) = o.lock - v
    <3>1. RefundDue(ev) = IF v < o.lock THEN o.lock - v ELSE 0
      BY <1>1, <1>13 DEF RefundDue, MarketBuy, Taker
    <3>2. QED
      BY <1>2, <1>4, <2>1, <3>1
  <2>3. NeedOf(r) = 0
    BY <1>6, <1>13 DEF NeedOf, MarketBuy
  <2>4. QED
    BY <1>1, <1>2, <1>4, <1>11, <1>12, <1>13, <2>1, <2>2, <2>3
<1>14. CASE o.type = "MARKET" /\ o.side = "SELL"
  <2>1. u = 1 /\ ~MarketBuy(o)
    BY <1>8, <1>14 DEF Unit, MarketBuy
  <2>2. RefundDue(ev) = o.qty - f
    BY <1>1, <1>2, <1>14 DEF RefundDue, Taker
  <2>3. NeedOf(r) = 0
    BY <1>6, <1>14 DEF NeedOf
  <2>4. QED
    BY <1>1, <1>2, <1>4, <1>7, <1>11, <1>12, <2>1, <2>2, <2>3
<1>15. CASE o.type = "LIMIT" /\ ev.remaining = 0
  <2>1. ~MarketBuy(o)
    BY <1>15 DEF MarketBuy
  <2>2. RefundDue(ev) = u * (o.qty - f)
    <3>1. PICK rest : rest = o.qty - f
      OBVIOUS
    <3>2. rest \in Int
      BY <1>2, <1>4, <3>1
    <3>3. RefundDue(ev) = IF o.side = "BUY" THEN rest * o.price ELSE rest
      BY <1>1, <1>2, <1>15, <3>1 DEF RefundDue, Taker
    <3>4. u * rest = IF o.side = "BUY" THEN rest * o.price ELSE rest
      BY <1>4, <1>8, <3>2 DEF Unit
    <3>5. QED
      BY <3>1, <3>3, <3>4
  <2>3. NeedOf(r) = 0
    BY <1>6, <1>15 DEF NeedOf
  <2>4. QED
    BY <1>1, <1>10, <1>11, <1>12, <2>1, <2>2, <2>3
<1>16. CASE o.type = "LIMIT" /\ ev.remaining # 0
  <2>1. ~MarketBuy(o) /\ ~MarketBuy(r)
    BY <1>5, <1>16 DEF MarketBuy
  <2>2. RefundDue(ev) = 0
    BY <1>1, <1>16 DEF RefundDue, Taker
  <2>3. f # o.qty
    BY <1>2, <1>4, <1>7, <1>16
  <2>4. NeedOf(r) = u * (o.qty - f)
    BY <1>6, <1>9, <1>16, <2>1, <2>3 DEF NeedOf, ReservedOf
  <2>5. QED
    BY <1>1, <1>10, <1>11, <1>12, <2>1, <2>2, <2>4
<1>17. QED
  BY <1>4, <1>13, <1>14, <1>15, <1>16 DEF MarketBuy, Sides, Types

\* So what an account should have unlocked is the fall of what its orders need.
LEMMA SettledNeed ==
  ASSUME ExchangeInv, settlements # <<>>, NEW ev, ev = Head(settlements), Settle(ev), ~Overspent',
         NEW a
  PROVE  Needed(orders, a) = Needed(orders', a) + TotalDue(ev, a)
<1>1. PICK rows : rows = orders'
  OBVIOUS
<1>2. PICK H : H = Holders(a)
  OBVIOUS
<1> DEFINE e == [i \in H |-> Unit(orders[i]) * MakerFill(ev, i)]
           x == [i \in H |-> IF i = ev.id THEN TakerPart(ev) + RefundDue(ev) ELSE 0]
           d == [i \in H |-> e[i] + x[i]]
           before == [i \in H |-> NeedOf(orders[i])]
           after == [i \in H |-> NeedOf(rows[i])]
<1>3. /\ ev \in TradesEvent /\ ev.id \in DOMAIN orders /\ ev.id \notin MakersOf(Rows(ev))
      /\ \A i : MakerFill(ev, i) \in Nat
      /\ MakerFill(ev, ev.id) = 0
  <2>1. /\ ev \in TradesEvent /\ ev.id \in DOMAIN orders /\ ev.id \notin MakersOf(Rows(ev))
    BY SettleFinds
  <2>2. \A i : MakerFill(ev, i) \in Nat /\ (MakerFill(ev, i) > 0 <=> i \in MakersOf(Rows(ev)))
    BY <2>1, EventQty
  <2>3. QED
    BY <2>1, <2>2
<1>4. WellFilled(orders) /\ WellFilled(rows) /\ DOMAIN rows = DOMAIN orders /\ KeepsTerms
  BY <1>1, FilledBound, SettledFills
<1>5. H = HoldersIn(orders, a) /\ H = HoldersIn(rows, a)
  <2>1. \A i \in DOMAIN orders : AccountOf(rows[i]) = AccountOf(orders[i])
                                 /\ AccountOf(orders[i]) = LockedIn(i)
    BY <1>1, <1>4 DEF KeepsTerms, AccountOf, LockedIn
  <2>2. QED
    BY <1>2, <1>4, <2>1 DEF Holders, HoldersIn
<1>6. /\ IsFiniteSet(H) /\ H \subseteq DOMAIN orders
      /\ \A i \in H : before[i] \in Nat /\ after[i] \in Nat
      /\ Needed(orders, a) = SumFunctionOnSet(before, H)
      /\ Needed(rows, a) = SumFunctionOnSet(after, H)
  <2>1. IsFiniteSet(H) /\ (\A i \in H : NeedOf(orders[i]) \in Nat /\ NeedOf(rows[i]) \in Nat)
    BY <1>4, <1>5, NeededIs
  <2>2. H \subseteq DOMAIN orders
    BY <1>5 DEF HoldersIn
  <2>3. /\ Needed(orders, a) = SumFunctionOnSet(before, H)
        /\ Needed(rows, a) = SumFunctionOnSet(after, H)
    BY <1>5 DEF Needed, SumFunction
  <2>4. QED
    BY <2>1, <2>2, <2>3
<1>7. TakerPart(ev) \in Nat /\ RefundDue(ev) \in Nat
  BY TakerNeed
<1>8. \A i \in H : e[i] \in Nat /\ x[i] \in Nat /\ d[i] \in Nat /\ d[i] = e[i] + x[i]
  <2>1. \A i \in H : e[i] \in Nat
    BY <1>3, <1>6, UnitIsNat, ProductIsNat
  <2>2. QED
    BY <1>7, <2>1
<1>9. ASSUME NEW i \in H PROVE before[i] = after[i] + d[i]
  <2>1. e[i] \in Nat /\ after[i] \in Nat
    BY <1>6, <1>8
  <2>2. CASE i = ev.id
    <3>1. NeedOf(orders[i]) = NeedOf(rows[i]) + (TakerPart(ev) + RefundDue(ev))
      BY <1>1, <2>2, TakerNeed
    <3>2. e[i] = 0
      <4>1. Unit(orders[i]) \in Nat
        BY <1>6, UnitIsNat
      <4>2. QED
        BY <1>3, <2>2, <4>1
    <3>3. d[i] = TakerPart(ev) + RefundDue(ev)
      BY <1>7, <2>2, <3>2
    <3>4. QED
      BY <3>1, <3>3
  <2>3. CASE i # ev.id
    <3>1. NeedOf(orders[i]) = NeedOf(rows[i]) + Unit(orders[i]) * MakerFill(ev, i)
      BY <1>1, <1>6, <2>3, MakerNeed
    <3>2. d[i] = Unit(orders[i]) * MakerFill(ev, i)
      BY <1>8, <2>1, <2>3
    <3>3. QED
      BY <3>1, <3>2
  <2>4. QED
    BY <2>2, <2>3
<1>10. TotalDue(ev, a) =
         SumFunctionOnSet(e, H) + (IF a = LockedIn(ev.id) THEN TakerPart(ev) + RefundDue(ev) ELSE 0)
  BY <1>2, DueParts
<1>11. (ev.id \in H <=> a = LockedIn(ev.id)) /\ (ev.id \in H => x[ev.id] = TakerPart(ev) + RefundDue(ev))
       /\ \A i \in H \ {ev.id} : x[i] = 0
  BY <1>2, <1>3 DEF Holders
<1> HIDE DEF e, x, d, before, after
<1>12. SumFunctionOnSet(x, H) = IF a = LockedIn(ev.id) THEN TakerPart(ev) + RefundDue(ev) ELSE 0
  <2>1. CASE ev.id \in H
    BY <1>6, <1>8, <1>11, <2>1, SumOnly
  <2>2. CASE ev.id \notin H
    <3>1. \A i \in H : x[i] = 0
      BY <1>11, <2>2
    <3>2. QED
      BY <1>6, <1>11, <2>2, <3>1, SumZero
  <2>3. QED
    BY <2>1, <2>2
<1>13. IntOn(e, H) /\ IntOn(x, H) /\ IntOn(d, H) /\ IntOn(before, H) /\ IntOn(after, H)
  BY <1>6, <1>8 DEF IntOn
<1>14. SumFunctionOnSet(d, H) = SumFunctionOnSet(e, H) + SumFunctionOnSet(x, H)
  BY <1>6, <1>8, <1>13, SumPlus
<1>15. SumFunctionOnSet(before, H) = SumFunctionOnSet(after, H) + SumFunctionOnSet(d, H)
  BY <1>6, <1>9, <1>13, SumPlus
<1>16. QED
  BY <1>1, <1>6, <1>10, <1>12, <1>14, <1>15

\* What an account should have unlocked is not negative then.
LEMMA DueIsNat ==
  ASSUME ExchangeInv, settlements # <<>>, NEW ev, ev = Head(settlements), Settle(ev), ~Overspent',
         NEW a
  PROVE  TotalDue(ev, a) \in Nat
<1> DEFINE e == [i \in Holders(a) |-> Unit(orders[i]) * MakerFill(ev, i)]
<1>1. IsFiniteSet(Holders(a)) /\ Holders(a) \subseteq DOMAIN orders
  <2>1. DOMAIN orders = 1..Len(orders) /\ Len(orders) \in Nat
    BY KnownIds
  <2>2. IsFiniteSet(1..Len(orders))
    BY <2>1, FS_Interval
  <2>3. Holders(a) \subseteq DOMAIN orders
    BY DEF Holders
  <2>4. QED
    BY <2>1, <2>2, <2>3, FS_Subset
<1>2. \A i : MakerFill(ev, i) \in Nat
  BY SettleFinds, EventQty
<1>3. \A i \in Holders(a) : e[i] \in Nat
  BY <1>1, <1>2, UnitIsNat, ProductIsNat
<1>4. TakerPart(ev) \in Nat /\ RefundDue(ev) \in Nat
  BY TakerNeed
<1>5. TotalDue(ev, a) =
        SumFunctionOnSet(e, Holders(a))
          + (IF a = LockedIn(ev.id) THEN TakerPart(ev) + RefundDue(ev) ELSE 0)
  BY DueParts
<1> HIDE DEF e
<1>6. SumFunctionOnSet(e, Holders(a)) \in Nat
  BY <1>1, <1>3, SumNat
<1>7. QED
  BY <1>4, <1>5, <1>6

\* The tables of orders and trades are finite.
LEMMA TablesFinite ==
  ASSUME ExchangeInv
  PROVE  IsFiniteSet(tradeTable) /\ IsFiniteSet(ClosedRows) /\ IsFiniteSet(DOMAIN orders)
<1>1. tradeTable \subseteq AllRows /\ IsFiniteSet(AllRows)
  BY DEF ExchangeInv, Typed, AllRows, Reported
<1>2. DOMAIN orders = 1..Len(orders) /\ Len(orders) \in Nat
  BY KnownIds
<1>3. IsFiniteSet(1..Len(orders)) /\ ClosedRows \subseteq DOMAIN orders
  BY <1>2, FS_Interval DEF ClosedRows
<1>4. QED
  BY <1>1, <1>2, <1>3, FS_Subset

\* A settlement records its trades and, when it refunds, closes its taker.
LEMMA SettlementCounts ==
  ASSUME ExchangeInv, settlements # <<>>, NEW ev, ev = Head(settlements), Settle(ev)
  PROVE  /\ IsFiniteSet(tradeTable') /\ IsFiniteSet(ClosedRows')
         /\ Cardinality(DOMAIN ev.trades) + Refunds(ev) \in Nat
         /\ Cardinality(tradeTable') + Cardinality(ClosedRows')
              >= Cardinality(tradeTable) + Cardinality(ClosedRows)
                   + (Cardinality(DOMAIN ev.trades) + Refunds(ev))
<1> DEFINE K == DOMAIN ev.trades
           b == [k \in K |-> TradeRow(ev, k)]
<1>1. /\ ev \in TradesEvent /\ ev.id \in DOMAIN orders /\ orders[ev.id].status = "NEW"
      /\ orders[ev.id].filled = 0
      /\ Rows(ev) \cap tradeTable = {}
      /\ \A i \in MakersOf(Rows(ev)) : i \in DOMAIN orders /\ IsOpen(i)
      /\ IsFiniteSet(K)
  BY SettleFinds, TradesFinite
<1>2. tradeTable' = tradeTable \cup Rows(ev) /\ Rows(ev) = {b[k] : k \in K}
  BY <1>1, EventRows DEF Settle
<1>3. IsFiniteSet(tradeTable) /\ IsFiniteSet(ClosedRows) /\ IsFiniteSet(DOMAIN orders)
  BY TablesFinite
<1>4. IsFiniteSet(Rows(ev)) /\ Cardinality(Rows(ev)) = Cardinality(K)
  <2>1. \A j, k \in K : b[j] = b[k] => j = k
    BY DEF TradeRow
  <2>2. b \in Bijection(K, Rows(ev))
    <3>1. b \in Surjection(K, Rows(ev))
      BY <1>2 DEF Surjection
    <3>2. b \in Injection(K, Rows(ev))
      BY <2>1, <3>1 DEF Injection, IsInjective, Surjection
    <3>3. QED
      BY <3>1, <3>2 DEF Bijection
  <2>3. QED
    BY <1>1, <2>2, FS_Bijection DEF ExistsBijection
<1>5. IsFiniteSet(tradeTable') /\ Cardinality(tradeTable') = Cardinality(tradeTable) + Cardinality(K)
  <2>1. Cardinality(tradeTable \cap Rows(ev)) = 0
    BY <1>1, FS_EmptySet
  <2>2. Cardinality(tradeTable) \in Nat /\ Cardinality(K) \in Nat
    BY <1>1, <1>3, FS_CardinalityType
  <2>3. PICK R, n, k : R = Rows(ev) /\ n = Cardinality(tradeTable) /\ k = Cardinality(K)
    OBVIOUS
  <2>4. /\ IsFiniteSet(tradeTable \cup R)
        /\ Cardinality(tradeTable \cup R) = n + k - Cardinality(tradeTable \cap R)
    BY <1>3, <1>4, <2>3, FS_Union
  <2>5. tradeTable' = tradeTable \cup R /\ Cardinality(tradeTable \cap R) = 0
    BY <1>2, <2>1, <2>3
  <2>6. n \in Nat /\ k \in Nat /\ n + k - 0 = n + k
    BY <2>2, <2>3
  <2>7. Cardinality(tradeTable \cup R) = n + k
    BY <2>4, <2>5, <2>6
  <2>8. QED
    BY <2>3, <2>4, <2>5, <2>7
<1>6. PICK C, D : C = ClosedRows /\ D = ClosedRows'
  OBVIOUS
<1>7. DOMAIN orders' = DOMAIN orders /\ D \subseteq DOMAIN orders /\ IsFiniteSet(D)
  <2>1. DOMAIN orders' = DOMAIN orders
    BY SettledFills
  <2>2. D \subseteq DOMAIN orders
    BY <1>6, <2>1 DEF ClosedRows
  <2>3. QED
    BY <1>3, <2>1, <2>2, FS_Subset
<1>8. C \subseteq D /\ ev.id \notin C
  <2>1. ev.id \notin C
    BY <1>1, <1>6 DEF ClosedRows, OpenRows, IsOpen
  <2>2. ASSUME NEW i \in C PROVE i \in D
    <3>1. i \in DOMAIN orders /\ ~IsOpen(i) /\ i # ev.id
      BY <1>6, <2>1, <2>2 DEF ClosedRows, OpenRows
    <3>2. orders'[i] = orders[i]
      BY <1>1, <3>1, SettledRow
    <3>3. QED
      BY <1>6, <1>7, <3>1, <3>2 DEF ClosedRows, OpenRows, IsOpen
  <2>3. QED
    BY <2>1, <2>2
<1>9. Refunds(ev) \in {0, 1}
  BY DEF Refunds
<1>10. Refunds(ev) = 1 => ev.id \in D
  <2> SUFFICES ASSUME Refunds(ev) = 1 PROVE ev.id \in D
    OBVIOUS
  <2>1. TakerFilled(ev) \in Nat /\ Taker(ev).type \in Types /\ Taker(ev).status = "NEW"
    BY <1>1, RefundIsInt, EventQty, RowFields DEF Taker
  <2>2. ~(Taker(ev).type = "LIMIT" /\ ev.remaining # 0)
    BY DEF Refunds
  <2>3. TakerStatus(ev) \notin {"NEW", "PARTIALLY_FILLED"}
    BY <2>1, <2>2, TakerStatusIs
  <2>4. orders'[ev.id].status = TakerStatus(ev)
    BY <1>1, SettledRow
  <2>5. QED
    BY <1>1, <1>6, <1>7, <2>3, <2>4 DEF ClosedRows, OpenRows, IsOpen
<1>11. Cardinality(D) >= Cardinality(C) + Refunds(ev)
  <2>1. Cardinality(C) \in Nat /\ Cardinality(D) \in Nat /\ IsFiniteSet(C)
    BY <1>3, <1>6, <1>7, FS_CardinalityType
  <2>2. CASE Refunds(ev) = 0
    <3>1. Cardinality(C) <= Cardinality(D)
      BY <1>7, <1>8, FS_Subset
    <3>2. QED
      BY <2>1, <2>2, <3>1
  <2>3. CASE Refunds(ev) = 1
    <3>1. Cardinality(C \cup {ev.id}) = Cardinality(C) + 1
      BY <1>8, <2>1, FS_AddElement
    <3>2. C \cup {ev.id} \in SUBSET D
      BY <1>8, <1>10, <2>3
    <3>3. Cardinality(C \cup {ev.id}) <= Cardinality(D)
      BY <1>7, <3>2, FS_Subset
    <3>4. QED
      BY <2>1, <2>3, <3>1, <3>3
  <2>4. QED
    BY <1>9, <2>2, <2>3
<1>12. /\ Cardinality(C) \in Nat /\ Cardinality(D) \in Nat /\ Cardinality(K) \in Nat
       /\ Cardinality(tradeTable) \in Nat
  BY <1>1, <1>3, <1>6, <1>7, FS_CardinalityType
<1>13. QED
  BY <1>5, <1>6, <1>7, <1>9, <1>11, <1>12

\* Unless a market buy cost more than it locked, what stays locked after
\* executeSettlementTx is what the orders still need, but for what Round(8) moved;
\* when an unlock of an account is more than it has locked, Round(8) made it so.
LEMMA SettleLocks ==
  ASSUME ExchangeInv, FundsTyped, LocksMatchOrders,
         settlements # <<>>, NEW ev, ev = Head(settlements), Settle(ev)
  PROVE  LocksMatchOrders'
<1>1. /\ WellFilled(orders) /\ WellFilled(orders') /\ KeepsTerms
      /\ tradeTable \subseteq tradeTable' /\ tradeTable' \subseteq Row /\ IsFiniteSet(tradeTable')
  BY FilledBound, SettledFills
<1> SUFFICES ASSUME ~Overspent', NEW a \in Accounts
             PROVE  Fits(locked'[a], Needed(orders', a), RoundedOff(a)', a \in refused')
  BY <1>1, LocksNext
<1>2. ~Overspent
  <2>1. \A i \in DOMAIN orders : orders[i].lock \in Nat
    BY RowFields
  <2>2. QED
    BY <1>1, <2>1, OverspentStays
<1>3. Fits(locked[a], Needed(orders, a), RoundedOff(a), a \in refused)
  BY <1>1, <1>2, LocksNow
<1>4. PICK u, d, e, m, n, off, next :
        /\ u = TotalUnlock(ev, a) /\ d = TotalDue(ev, a)
        /\ e = IF a[2] = "quote"
                 THEN Half * (Cardinality(DOMAIN ev.trades) + Refunds(ev)) ELSE 0
        /\ m = Needed(orders, a) /\ n = Needed(orders', a)
        /\ off = RoundedOff(a) /\ next = RoundedOff(a)'
  OBVIOUS
<1>5. m = n + d /\ d \in Nat
  BY <1>4, SettledNeed, DueIsNat
<1>6. m \in Nat /\ n \in Nat
  <2>1. PICK rows : rows = orders'
    OBVIOUS
  <2>2. QED
    BY <1>1, <1>4, <2>1, NeededIs
<1>7. u \in Int /\ e \in Nat /\ u <= d + e /\ d <= u + e
  <2>1. a[2] \in {"base", "quote"}
    BY DEF Accounts, Currencies
  <2>2. QED
    BY <1>4, <2>1, SettlementRounded
<1>8. off \in Nat /\ next \in Nat /\ next >= off + e
  <2>1. PICK T, C, U, D : T = tradeTable /\ C = ClosedRows /\ U = tradeTable' /\ D = ClosedRows'
    OBVIOUS
  <2>2. PICK k : k = Cardinality(DOMAIN ev.trades) + Refunds(ev)
    OBVIOUS
  <2>3. /\ IsFiniteSet(T) /\ IsFiniteSet(C) /\ IsFiniteSet(U) /\ IsFiniteSet(D) /\ k \in Nat
        /\ Cardinality(U) + Cardinality(D) >= Cardinality(T) + Cardinality(C) + k
    BY <2>1, <2>2, SettlementCounts, TablesFinite
  <2>4. /\ OffOf(U, D, a) \in Nat /\ OffOf(T, C, a) \in Nat
        /\ OffOf(U, D, a) >= OffOf(T, C, a) + (IF a[2] = "quote" THEN Half * k ELSE 0)
    BY <2>3, OffGrows
  <2>5. off = OffOf(T, C, a) /\ next = OffOf(U, D, a)
    BY <1>4, <2>1 DEF RoundedOff, OffOf, Half
  <2>6. QED
    BY <1>4, <2>2, <2>4, <2>5
<1>9. locked'[a] = locked[a] - (IF locked[a] >= u THEN u ELSE 0) /\ locked[a] \in Nat
  BY <1>4 DEF Settle, Unlocked, FundsTyped
<1>10. a \in refused' <=> a \in refused \/ u > locked[a]
  BY <1>4 DEF Settle
<1>11. /\ m <= locked[a] + off
       /\ a \notin refused => locked[a] <= m + off
       /\ a \in refused => off > 0
  BY <1>3, <1>4 DEF Fits
<1>12. PICK l, l2 : l = locked[a] /\ l2 = locked'[a]
  OBVIOUS
<1>13. l \in Nat /\ l2 = l - (IF l >= u THEN u ELSE 0)
  BY <1>9, <1>12
<1>14. n <= l2 + next
  BY <1>5, <1>6, <1>7, <1>8, <1>11, <1>12, <1>13
<1>15. a \notin refused' => l2 <= n + next
  BY <1>5, <1>6, <1>7, <1>8, <1>10, <1>11, <1>12, <1>13
<1>16. a \in refused' => next > 0
  BY <1>5, <1>6, <1>7, <1>8, <1>10, <1>11, <1>12, <1>13
<1>17. QED
  BY <1>4, <1>12, <1>14, <1>15, <1>16 DEF Fits

-----------------------------------------------------------------------------
(* Every step keeps the funds in order *)

\* The accounts that PlaceOrder and OrderCanceledEvent use exist.
LEMMA AccountExists ==
  /\ \A o \in Requests : <<o.user, LockCurrency(o.side)>> \in Accounts
  /\ \A r \in OrderRow : AccountOf(r) \in Accounts
<1>1. ASSUME NEW o \in Requests PROVE <<o.user, LockCurrency(o.side)>> \in Accounts
  BY RequestTerms DEF Accounts, Currencies, LockCurrency
<1>2. ASSUME NEW r \in OrderRow PROVE AccountOf(r) \in Accounts
  BY DEF AccountOf, OrderRow, Accounts, Currencies, LockCurrency
<1>3. QED
  BY <1>1, <1>2

\* PlaceOrder locks what the new order needs.
LEMMA PlaceOrderFunds ==
  ASSUME ExchangeInv, FundsInv, PlaceOrder
  PROVE  FundsInv'
<1>1. PICK o \in Requests, asks \in snapshots :
        LET a == <<o.user, LockCurrency(o.side)>>
            amount == LockAmount(o, asks)
        IN /\ CanLock(a, amount)
           /\ balance' = [balance EXCEPT ![a] = @ - amount]
           /\ locked' = [locked EXCEPT ![a] = @ + amount]
           /\ orders' = Append(orders,
                 [user |-> o.user, side |-> o.side, type |-> o.type, price |-> o.price,
                  qty |-> o.qty, filled |-> 0, status |-> "NEW", lock |-> amount])
  BY DEF PlaceOrder
<1>2. PICK a, amount, r :
        /\ a = <<o.user, LockCurrency(o.side)>>
        /\ amount = LockAmount(o, asks)
        /\ r = [user |-> o.user, side |-> o.side, type |-> o.type, price |-> o.price,
                qty |-> o.qty, filled |-> 0, status |-> "NEW", lock |-> amount]
  OBVIOUS
<1>3. /\ balance[a] >= amount
      /\ balance' = [balance EXCEPT ![a] = @ - amount]
      /\ locked' = [locked EXCEPT ![a] = @ + amount]
      /\ orders' = Append(orders, r)
      /\ refused' = refused /\ tradeTable' = tradeTable
  BY <1>1, <1>2 DEF CanLock, PlaceOrder
<1>4. /\ o.user \in Users /\ o.side \in Sides /\ o.type \in Types /\ o.price \in Nat
      /\ o.qty \in Nat
  BY RequestTerms
<1>5. amount \in Nat
  BY <1>2, LockIsNat DEF ExchangeInv, Typed
<1>6. a \in Accounts
  BY <1>2, AccountExists
<1>7. FundsTyped'
  BY <1>3, <1>5, <1>6 DEF FundsInv, FundsTyped
<1>8. \A b \in Accounts : balance'[b] + locked'[b] = balance[b] + locked[b]
  <2> SUFFICES ASSUME NEW b \in Accounts PROVE balance'[b] + locked'[b] = balance[b] + locked[b]
    OBVIOUS
  <2>1. balance[b] \in Nat /\ locked[b] \in Nat
    BY DEF FundsInv, FundsTyped
  <2>2. QED
    BY <1>3, <1>5, <2>1 DEF FundsInv, FundsTyped
<1>9. MoneyConserved'
  BY <1>7, <1>8, MoneyStays DEF FundsInv
<1>10. r \in OrderRow /\ r.filled <= r.qty /\ AccountOf(r) = a
  BY <1>2, <1>4, <1>5 DEF OrderRow, Statuses, AccountOf
<1>11. NeedOf(r) = amount
  <2>1. NeedOf(r) = IF MarketBuy(r) THEN amount ELSE RestAmount(r)
    BY <1>2 DEF NeedOf, ReservedOf, Open
  <2>2. RestAmount(r) = IF o.side = "BUY" THEN o.price * o.qty ELSE o.qty
    BY <1>2, <1>4 DEF RestAmount
  <2>3. ~MarketBuy(r) => amount = IF o.side = "BUY" THEN o.price * o.qty ELSE o.qty
    <3>1. MarketBuy(r) <=> o.side = "BUY" /\ o.type = "MARKET"
      BY <1>2 DEF MarketBuy
    <3>2. CASE o.side = "SELL"
      BY <1>2, <3>2 DEF LockAmount
    <3>3. CASE o.side = "BUY" /\ o.type = "LIMIT"
      BY <1>2, <3>3 DEF LockAmount
    <3>4. QED
      BY <1>4, <3>1, <3>2, <3>3 DEF Sides, Types
  <2>4. QED
    BY <2>1, <2>2, <2>3
<1>12. WellFilled(orders) /\ orders \in Seq(OrderRow)
  BY FilledBound DEF WellFilled
<1>13. PICK rows, n : rows = orders' /\ n = Len(orders) + 1
  OBVIOUS
<1>14. /\ rows \in Seq(OrderRow) /\ DOMAIN rows = DOMAIN orders \cup {n} /\ n \notin DOMAIN orders
       /\ rows[n] = r /\ \A i \in DOMAIN orders : rows[i] = orders[i]
  BY <1>3, <1>10, <1>12, <1>13
<1>15. WellFilled(rows)
  BY <1>10, <1>12, <1>14 DEF WellFilled
<1>16. LocksMatchOrders'
  <2> SUFFICES ASSUME ~Overspent', NEW b \in Accounts
               PROVE  Fits(locked'[b], Needed(orders', b), RoundedOff(b)', b \in refused')
    BY <1>13, <1>15, LocksNext
  <2>1. ~Overspent
    <3>1. tradeTable' = tradeTable
      BY DEF PlaceOrder
    <3>2. KeepsTerms
      BY <1>13, <1>14 DEF KeepsTerms
    <3>3. tradeTable' \subseteq Row /\ IsFiniteSet(tradeTable')
      <4>1. tradeTable \subseteq AllRows /\ AllRows \subseteq Row /\ IsFiniteSet(AllRows)
        BY DEF ExchangeInv, Typed, AllRows, Reported
      <4>2. QED
        BY <3>1, <4>1, FS_Subset
    <3>4. \A i \in DOMAIN orders : orders[i].lock \in Nat
      BY RowFields
    <3>5. QED
      BY <3>1, <3>2, <3>3, <3>4, OverspentStays
  <2>2. Fits(locked[b], Needed(orders, b), RoundedOff(b), b \in refused)
    BY <1>12, <2>1, LocksNow DEF FundsInv
  <2>14. RoundedOff(b)' = RoundedOff(b)
    <3>1. \A i \in DOMAIN rows : Open(rows[i]) <=> i \in OpenRows'
      BY <1>13 DEF OpenRows, IsOpen, Open
    <3>2. Open(rows[n]) /\ DOMAIN rows = DOMAIN orders'
      BY <1>2, <1>13, <1>14 DEF Open
    <3>3. ClosedRows' = ClosedRows
      BY <1>14, <3>1, <3>2 DEF ClosedRows, OpenRows, IsOpen, Open
    <3>4. QED
      BY <1>3, <3>3 DEF RoundedOff
  <2>15. PICK off, m : off = RoundedOff(b) /\ m = Needed(orders, b)
    OBVIOUS
  <2>16. /\ m <= locked[b] + off
         /\ b \notin refused => locked[b] <= m + off
         /\ b \in refused => off > 0
         /\ locked[b] \in Nat /\ m \in Nat /\ off \in Nat
    <3>1. m \in Nat
      BY <1>12, <2>15, NeededIs
    <3>2. off = OffOf(tradeTable, ClosedRows, b) /\ locked[b] \in Nat
      BY <2>15 DEF RoundedOff, OffOf, Half, FundsInv, FundsTyped
    <3>3. OffOf(tradeTable, ClosedRows, b) \in Nat
      BY TablesFinite, OffIs
    <3>4. QED
      BY <2>2, <2>15, <3>1, <3>2, <3>3 DEF Fits
  <2>3. PICK H, I : H = HoldersIn(orders, b) /\ I = HoldersIn(rows, b)
    OBVIOUS
  <2> DEFINE f == [i \in H |-> NeedOf(orders[i])]
             g == [i \in I |-> NeedOf(rows[i])]
  <2>4. I = IF a = b THEN H \cup {n} ELSE H
    BY <1>10, <1>14, <2>3 DEF HoldersIn
  <2>5. n \notin H /\ H \subseteq DOMAIN orders
    BY <1>14, <2>3 DEF HoldersIn
  <2>6. /\ IsFiniteSet(H) /\ IsFiniteSet(I)
        /\ \A i \in H : f[i] \in Int
        /\ \A i \in I : g[i] \in Int
    <3>1. /\ IsFiniteSet(H) /\ \A i \in H : NeedOf(orders[i]) \in Nat
          /\ IsFiniteSet(I) /\ \A i \in I : NeedOf(rows[i]) \in Nat
      BY <1>12, <1>15, <2>3, NeededIs
    <3>2. QED
      BY <3>1
  <2>7. \A i \in H : g[i] = f[i]
    BY <1>14, <2>4, <2>5
  <2>8. a = b => g[n] = amount
    BY <1>11, <1>14, <2>4
  <2>9. /\ Needed(orders, b) = SumFunctionOnSet(f, H)
        /\ Needed(rows, b) = SumFunctionOnSet(g, I)
    BY <2>3 DEF Needed, SumFunction
  <2> HIDE DEF f, g
  <2>10. SumFunctionOnSet(g, H) = SumFunctionOnSet(f, H) /\ SumFunctionOnSet(f, H) \in Int
    <3>1. IntOn(f, H)
      BY <2>6 DEF IntOn
    <3>2. QED
      BY <2>6, <2>7, <3>1, SumSame, SumInt
  <2>11. CASE a = b
    <3>1. IntOn(g, H \cup {n})
      BY <2>4, <2>6, <2>11 DEF IntOn
    <3>2. SumFunctionOnSet(g, H \cup {n}) = g[n] + SumFunctionOnSet(g, H)
      BY <2>5, <2>6, <3>1, SumAdd
    <3>3. locked'[b] = locked[b] + amount
      BY <1>3, <2>11 DEF FundsInv, FundsTyped
    <3>4. Needed(rows, b) = m + amount
      BY <1>5, <2>4, <2>8, <2>9, <2>10, <2>11, <2>15, <3>2
    <3>5. /\ m + amount <= locked'[b] + off
          /\ b \notin refused => locked'[b] <= (m + amount) + off
      BY <1>5, <2>16, <3>3
    <3>6. QED
      BY <1>3, <1>13, <2>14, <2>15, <2>16, <3>4, <3>5 DEF Fits
  <2>12. CASE a # b
    <3>1. locked'[b] = locked[b]
      BY <1>3, <2>12 DEF FundsInv, FundsTyped
    <3>2. Needed(rows, b) = m
      BY <2>4, <2>9, <2>10, <2>12, <2>15
    <3>3. QED
      BY <1>3, <1>13, <2>14, <2>15, <2>16, <3>1, <3>2 DEF Fits
  <2>13. QED
    BY <2>11, <2>12
<1>17. QED
  BY <1>7, <1>9, <1>16 DEF FundsInv

\* OrderCanceledEvent unlocks what the cancelled order still needed.
LEMMA SettleCancelFunds ==
  ASSUME ExchangeInv, FundsInv, settlements # <<>>, NEW ev, ev = Head(settlements),
         SettleCancel(ev)
  PROVE  FundsInv'
<1>1. PICK i, o, r, a, u :
        /\ i = ev.id /\ o = orders[i] /\ r = [o EXCEPT !.status = "CANCELED"]
        /\ a = AccountOf(o) /\ u = Unlocked(a, RestAmount(o))
  OBVIOUS
<1>2. /\ balance' = [balance EXCEPT ![a] = @ + u]
      /\ locked' = [locked EXCEPT ![a] = @ - u]
      /\ orders' = [orders EXCEPT ![i].status = "CANCELED"]
      /\ Open(o) /\ tradeTable' = tradeTable
      /\ refused' = IF RestAmount(o) > locked[a] THEN refused \cup {a} ELSE refused
  BY <1>1 DEF SettleCancel, AccountOf, IsOpen, Open
<1>3. ~IsTrades(ev) /\ i \in DOMAIN orders /\ 1 \in DOMAIN settlements /\ ev = settlements[1]
  BY <1>1, FirstEvent DEF SettleCancel, IsTrades
<1>4. o.type = "LIMIT"
  BY <1>1, <1>3 DEF ExchangeInv, Reports
<1>5. WellFilled(orders) /\ o \in OrderRow /\ o.filled <= o.qty
  BY <1>1, <1>3, FilledBound DEF WellFilled
<1>6. RestAmount(o) \in Nat /\ a \in Accounts
  BY <1>1, <1>5, RestIs, AccountExists
<1>7. balance \in [Accounts -> Nat] /\ locked \in [Accounts -> Nat]
  BY DEF FundsInv, FundsTyped
<1>8. u \in Nat /\ u <= locked[a] /\ u = IF locked[a] >= RestAmount(o) THEN RestAmount(o) ELSE 0
  BY <1>1, <1>6, <1>7 DEF Unlocked
<1>9. FundsTyped'
  <2>1. refused' \subseteq Accounts
    BY <1>2, <1>6 DEF FundsInv, FundsTyped
  <2>2. QED
    BY <1>2, <1>6, <1>7, <1>8, <2>1 DEF FundsTyped
<1>10. \A b \in Accounts : balance'[b] + locked'[b] = balance[b] + locked[b]
  <2> SUFFICES ASSUME NEW b \in Accounts PROVE balance'[b] + locked'[b] = balance[b] + locked[b]
    OBVIOUS
  <2>1. balance[b] \in Nat /\ locked[b] \in Nat
    BY <1>7
  <2>2. QED
    BY <1>2, <1>7, <1>8, <2>1
<1>11. MoneyConserved'
  BY <1>9, <1>10, MoneyStays DEF FundsInv, FundsTyped
<1>12. /\ r \in OrderRow /\ r.filled = o.filled /\ r.qty = o.qty /\ AccountOf(r) = a
       /\ r.user = o.user /\ r.side = o.side /\ r.type = o.type /\ r.price = o.price
       /\ r.lock = o.lock /\ NeedOf(r) = 0
  BY <1>1, <1>5 DEF OrderRow, Statuses, AccountOf, NeedOf, Open
<1>13. PICK rows : rows = orders'
  OBVIOUS
<1>14. /\ DOMAIN rows = DOMAIN orders /\ rows \in Seq(OrderRow)
       /\ rows[i] = r /\ \A j \in DOMAIN orders : j # i => rows[j] = orders[j]
  <2>1. orders \in Seq(OrderRow)
    BY <1>5 DEF WellFilled
  <2>2. rows = [orders EXCEPT ![i] = r]
    BY <1>1, <1>2, <1>3, <1>13
  <2>3. QED
    BY <1>3, <1>12, <2>1, <2>2
<1>15. WellFilled(rows)
  BY <1>5, <1>12, <1>14 DEF WellFilled
<1>16. LocksMatchOrders'
  <2> SUFFICES ASSUME ~Overspent', NEW b \in Accounts
               PROVE  Fits(locked'[b], Needed(orders', b), RoundedOff(b)', b \in refused')
    BY <1>13, <1>15, LocksNext
  <2>1. ~Overspent
    <3>1. KeepsTerms
      <4>1. DOMAIN orders \subseteq DOMAIN rows
        BY <1>14
      <4>2. \A j \in DOMAIN orders :
              /\ rows[j].user = orders[j].user /\ rows[j].side = orders[j].side
              /\ rows[j].type = orders[j].type /\ rows[j].price = orders[j].price
              /\ rows[j].qty = orders[j].qty /\ rows[j].lock = orders[j].lock
        BY <1>1, <1>12, <1>14
      <4>3. QED
        BY <1>13, <4>1, <4>2 DEF KeepsTerms
    <3>2. tradeTable' \subseteq Row /\ IsFiniteSet(tradeTable')
      <4>1. tradeTable \subseteq AllRows /\ AllRows \subseteq Row /\ IsFiniteSet(AllRows)
        BY DEF ExchangeInv, Typed, AllRows, Reported
      <4>2. QED
        BY <1>2, <4>1, FS_Subset
    <3>3. \A j \in DOMAIN orders : orders[j].lock \in Nat
      BY RowFields
    <3>4. QED
      BY <1>2, <3>1, <3>2, <3>3, OverspentStays
  <2>2. Fits(locked[b], Needed(orders, b), RoundedOff(b), b \in refused)
    BY <1>5, <2>1, LocksNow DEF FundsInv
  <2>13. PICK off, next, m : off = RoundedOff(b) /\ next = RoundedOff(b)' /\ m = Needed(orders, b)
    OBVIOUS
  <2>14. off \in Nat /\ next \in Nat /\ next >= off
    <3>1. PICK T, C, D : T = tradeTable /\ C = ClosedRows /\ D = ClosedRows'
      OBVIOUS
    <3>2. C \subseteq D /\ D \subseteq DOMAIN orders
      <4>1. \A j \in DOMAIN orders : j \in C <=> ~Open(orders[j])
        BY <3>1 DEF ClosedRows, OpenRows, IsOpen, Open
      <4>2. C \subseteq DOMAIN orders
        BY <3>1 DEF ClosedRows
      <4>3. \A j \in DOMAIN rows : j \in D <=> ~Open(rows[j])
        BY <1>13, <3>1 DEF ClosedRows, OpenRows, IsOpen, Open
      <4>4. D \subseteq DOMAIN rows
        BY <1>13, <3>1 DEF ClosedRows
      <4>5. QED
        BY <1>1, <1>2, <1>14, <4>1, <4>2, <4>3, <4>4
    <3>3. IsFiniteSet(T) /\ IsFiniteSet(C) /\ IsFiniteSet(D) /\ Cardinality(C) <= Cardinality(D)
      BY <3>1, <3>2, TablesFinite, FS_Subset
    <3>4. Cardinality(T) + Cardinality(D) >= Cardinality(T) + Cardinality(C) + 0
      BY <3>3, FS_CardinalityType
    <3>5. /\ OffOf(T, D, b) \in Nat /\ OffOf(T, C, b) \in Nat
          /\ OffOf(T, D, b) >= OffOf(T, C, b) + (IF b[2] = "quote" THEN Half * 0 ELSE 0)
      BY <3>3, <3>4, OffGrows
    <3>6. off = OffOf(T, C, b) /\ next = OffOf(T, D, b)
      BY <1>2, <2>13, <3>1 DEF RoundedOff, OffOf, Half
    <3>7. Half * 0 = 0
      BY HalfIs
    <3>8. QED
      BY <3>5, <3>6, <3>7
  <2>15. /\ m <= locked[b] + off
         /\ b \notin refused => locked[b] <= m + off
         /\ b \in refused => off > 0
         /\ locked[b] \in Nat /\ m \in Nat
    <3>1. m \in Nat
      BY <1>5, <2>13, NeededIs
    <3>2. QED
      BY <1>7, <2>2, <2>13, <3>1 DEF Fits
  <2>3. PICK H : H = HoldersIn(orders, b)
    OBVIOUS
  <2>4. H = HoldersIn(rows, b) /\ H \subseteq DOMAIN orders /\ (i \in H <=> a = b)
    BY <1>1, <1>3, <1>12, <1>14, <2>3 DEF HoldersIn
  <2> DEFINE f == [j \in H |-> NeedOf(orders[j])]
             g == [j \in H |-> NeedOf(rows[j])]
  <2>5. IsFiniteSet(H) /\ \A j \in H : f[j] \in Nat /\ g[j] \in Nat
    <3>1. /\ IsFiniteSet(H)
          /\ \A j \in H : NeedOf(orders[j]) \in Nat /\ NeedOf(rows[j]) \in Nat
      BY <1>5, <1>15, <2>3, <2>4, NeededIs
    <3>2. QED
      BY <3>1
  <2>6. \A j \in H \ {i} : g[j] = f[j]
    BY <1>14, <2>4
  <2>7. i \in H => f[i] = RestAmount(o) /\ g[i] = 0
    BY <1>1, <1>2, <1>4, <1>12, <1>14 DEF NeedOf, ReservedOf, MarketBuy
  <2>8. /\ Needed(orders, b) = SumFunctionOnSet(f, H)
        /\ Needed(rows, b) = SumFunctionOnSet(g, H)
    BY <2>3, <2>4 DEF Needed, SumFunction
  <2> HIDE DEF f, g
  <2>9. IntOn(f, H) /\ SumFunctionOnSet(f, H) \in Int
    <3>1. IntOn(f, H)
      BY <2>5 DEF IntOn
    <3>2. QED
      BY <2>5, <3>1, SumInt
  <2>10. CASE a = b
    <3>1. SumFunctionOnSet(g, H) = SumFunctionOnSet(f, H) + g[i] - f[i]
      BY <2>4, <2>5, <2>6, <2>9, <2>10, SumUpdate
    <3>2. f[i] <= SumFunctionOnSet(f, H)
      BY <2>4, <2>5, <2>10, SumMember
    <3>3. PICK d, k, l, l2 : /\ d = RestAmount(o) /\ k = Needed(rows, b)
                            /\ l = locked[b] /\ l2 = locked'[b]
      OBVIOUS
    <3>4. l2 = l - u /\ u = (IF l >= d THEN d ELSE 0) /\ d \in Nat
      BY <1>2, <1>6, <1>7, <1>8, <2>10, <3>3
    <3>5. k = m - d /\ d <= m
      BY <1>6, <2>4, <2>7, <2>8, <2>9, <2>10, <2>13, <3>1, <3>2, <3>3
    <3>6. b \in refused' <=> b \in refused \/ d > l
      BY <1>2, <2>10, <3>3
    <3>7. /\ k <= l2 + next
          /\ b \notin refused' => l2 <= k + next
          /\ b \in refused' => next > 0
      BY <2>14, <2>15, <3>3, <3>4, <3>5, <3>6
    <3>8. QED
      BY <1>13, <2>13, <3>3, <3>7 DEF Fits
  <2>11. CASE a # b
    <3>1. locked'[b] = locked[b]
      BY <1>2, <1>7, <2>11
    <3>2. \A j \in H : g[j] = f[j]
      BY <2>4, <2>6, <2>11
    <3>3. SumFunctionOnSet(g, H) = SumFunctionOnSet(f, H)
      BY <2>5, <2>9, <3>2, SumSame
    <3>4. Needed(rows, b) = m
      BY <2>8, <2>13, <3>3
    <3>5. b \in refused' <=> b \in refused
      BY <1>2, <2>11
    <3>6. PICK l : l = locked[b]
      OBVIOUS
    <3>7. /\ m <= l + next
          /\ b \notin refused' => l <= m + next
          /\ b \in refused' => next > 0
      BY <2>14, <2>15, <3>5, <3>6
    <3>8. QED
      BY <1>13, <2>13, <3>1, <3>4, <3>6, <3>7 DEF Fits
  <2>12. QED
    BY <2>10, <2>11
<1>17. QED
  BY <1>9, <1>11, <1>16 DEF FundsInv

\* A step that leaves the database alone leaves the funds alone.
LEMMA FundsStay ==
  ASSUME FundsInv, UNCHANGED dbVars
  PROVE  FundsInv'
<1>1. UNCHANGED <<balance, locked, orders, tradeTable, refused>>
  BY DEF dbVars
<1>2. FundsTyped'
  BY <1>1 DEF FundsInv, FundsTyped
<1>3. MoneyConserved'
  BY <1>1 DEF FundsInv, MoneyConserved
<1>4. LocksMatchOrders'
  BY <1>1 DEF FundsInv, LocksMatchOrders, OpenRows, ClosedRows, IsOpen, LockedIn, Reserved,
     RoundedOff, Overspent, Spent, TradesOf
<1>5. QED
  BY <1>2, <1>3, <1>4 DEF FundsInv

\* Every step of the order-service and of the engine keeps the funds in order.
LEMMA StepKeepsFunds ==
  ASSUME ExchangeInv, FundsInv, [Next]_vars
  PROVE  FundsInv'
<1>1. CASE PlaceOrder
  BY <1>1, PlaceOrderFunds
<1>2. CASE HandleSettlement
  <2>1. PICK ev : ev = Head(settlements)
    OBVIOUS
  <2>2. settlements # <<>> /\ (Settle(ev) \/ SkipSettled(ev) \/ SettleCancel(ev) \/ SkipCanceled(ev))
    BY <1>2, <2>1 DEF HandleSettlement
  <2>3. CASE Settle(ev)
    BY <2>1, <2>2, <2>3, SettlementMoves, SettlementConserves, SettleLocks DEF FundsInv
  <2>4. CASE SettleCancel(ev)
    BY <2>1, <2>2, <2>4, SettleCancelFunds
  <2>5. CASE SkipSettled(ev) \/ SkipCanceled(ev)
    BY <2>5, FundsStay DEF SkipSettled, SkipCanceled
  <2>6. QED
    BY <2>2, <2>3, <2>4, <2>5
<1>3. CASE CancelOrder \/ TakeOrder \/ Match \/ Finish \/ TakeCancel \/ UNCHANGED vars
  <2>1. UNCHANGED dbVars
    BY <1>3 DEF CancelOrder, TakeOrder, Match, Finish, TakeCancel, vars, serviceVars
  <2>2. QED
    BY <2>1, FundsStay
<1>4. QED
  BY <1>1, <1>2, <1>3 DEF Next, ServiceNext, EngineNext

\* At first nothing is locked.
LEMMA InitFunds ==
  ASSUME ExchangeInit
  PROVE  FundsInv
<1>1. /\ balance = Funds /\ locked = [a \in Accounts |-> 0]
      /\ orders = <<>> /\ tradeTable = {} /\ refused = {}
  BY DEF ExchangeInit, Init
<1>2. FundsTyped
  BY <1>1, FundsAssumption DEF FundsTyped
<1>3. MoneyConserved
  <2> SUFFICES ASSUME NEW c \in Currencies
               PROVE  SumFunction([u \in Users |-> balance[<<u, c>>] + locked[<<u, c>>]])
                        = SumFunction([u \in Users |-> Funds[<<u, c>>]])
    BY DEF MoneyConserved
  <2>1. \A u \in Users : balance[<<u, c>>] + locked[<<u, c>>] = Funds[<<u, c>>]
    BY <1>1, FundsAssumption DEF Accounts
  <2>2. QED
    BY <2>1
<1>4. LocksMatchOrders
  <2>1. WellFilled(orders)
    BY <1>1 DEF WellFilled
  <2>2. \A a \in Accounts : Needed(orders, a) = 0
    <3> SUFFICES ASSUME NEW a \in Accounts PROVE Needed(orders, a) = 0
      OBVIOUS
    <3>1. HoldersIn(orders, a) = {}
      BY <1>1 DEF HoldersIn
    <3>2. QED
      BY <3>1, SumEmpty DEF Needed, SumFunction
  <2>3. \A a \in Accounts : RoundedOff(a) = 0 /\ locked[a] = 0
    <3>1. ClosedRows = {} /\ Cardinality({}) = 0
      BY <1>1, FS_EmptySet DEF ClosedRows
    <3>2. Half * (0 + 0) = 0
      BY HalfIs
    <3>3. QED
      BY <1>1, <3>1, <3>2 DEF RoundedOff, Half
  <2>4. \A a \in Accounts : Fits(0, 0, 0, FALSE)
    BY DEF Fits
  <2>5. QED
    BY <1>1, <2>1, <2>2, <2>3, <2>4, LocksNow DEF Fits
<1>5. QED
  BY <1>2, <1>3, <1>4 DEF FundsInv

-----------------------------------------------------------------------------
(* The theorems *)

\* In every reachable state no balance and no lock is negative, the money is
\* all there, and the locks match the open orders.
THEOREM FundsInvariant == Spec => []FundsInv
<1>1. ExchangeInit => FundsInv
  BY InitFunds
<1>2. ExchangeInv /\ FundsInv /\ [Next]_vars => FundsInv'
  BY StepKeepsFunds
<1>3. QED
  BY <1>1, <1>2, ExchangeInvariant, PTL DEF Spec

\* Every variable keeps its type: no column of accounts becomes negative, and
\* no order is filled beyond its quantity.
THEOREM TypeCorrect == Spec => []TypeOK
<1>1. ASSUME ExchangeInv, FundsInv PROVE TypeOK
  <2>1. balance \in [Accounts -> Nat] /\ locked \in [Accounts -> Nat] /\ refused \subseteq Accounts
    BY <1>1 DEF FundsInv, FundsTyped
  <2>2. orders \in Seq(OrderRow) /\ \A i \in DOMAIN orders : orders[i].filled <= orders[i].qty
    BY <1>1, FilledBound DEF WellFilled
  <2>3. /\ asked \subseteq DOMAIN orders /\ taker \in Order \cup {NoOrder} /\ resting \subseteq Order
        /\ UNION snapshots \subseteq Order
    BY <1>1 DEF ExchangeInv, Typed
  <2>4. QED
    BY <2>1, <2>2, <2>3 DEF TypeOK
<1>2. QED
  BY <1>1, ExchangeInvariant, FundsInvariant, PTL

\* Settlements, refunds, cancellations and redeliveries never create or destroy
\* money (calculateTradeSettlement, aggregateAndSortAccountUpdates).
THEOREM MoneyIsConserved == Spec => []MoneyConserved
<1>1. FundsInv => MoneyConserved
  BY DEF FundsInv
<1>2. QED
  BY <1>1, FundsInvariant, PTL

\* Until a market buy costs more than it locked, an account has locked what its open
\* orders need, exactly in the base currency, and in the quote currency but for half
\* a unit for every amount that Round(8) may have moved; UnlockFunds, whose result
\* nobody checks, misses only because of that.
THEOREM LocksMatch == Spec => []LocksMatchOrders
<1>1. FundsInv => LocksMatchOrders
  BY DEF FundsInv
<1>2. QED
  BY <1>1, FundsInvariant, PTL
=============================================================================
