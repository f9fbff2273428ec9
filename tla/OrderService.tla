---------------------------- MODULE OrderService ----------------------------
(***************************************************************************)
(* The order-service's transactions on the database: PlaceOrder (funds are   *)
(* locked, the order is created, an event goes to exchange.orders),           *)
(* CancelOrder (an event only), and the consumer of exchange.settlements       *)
(* (internal/order/event_subscribers.go), which is delivered each event at     *)
(* least once. Exchange adds the matching engine between the two topics.       *)
(*                                                                         *)
(* Each transaction is atomic: it locks the rows it reads. The outbox between  *)
(* a transaction and Kafka is taken to deliver once and in order here.         *)
(* Quantities and prices have 8 decimals; their product has 16 and is kept in  *)
(* full by DECIMAL(38,18) until a settlement rounds it to 8. An amount of the   *)
(* quote currency is a whole number of fine units here, a price in twentieths   *)
(* of them, so that 105 % of an amount is one too; Scale of them are a unit of   *)
(* the eighth decimal.                                                          *)
(***************************************************************************)
EXTENDS Orders, Integers, Sequences, FiniteSets, Functions

CONSTANTS
    Funds,      \* [user, currency -> what the user owns at first]
    Requests,   \* the orders clients may submit
    MaxOrders,  \* bound on the orders placed
    Scale       \* what Round(8) rounds to a multiple of; 1: nothing has to be rounded

ASSUME ScaleAssumption == Scale \in Nat \ {0}

ASSUME TwentiethsAssumption == \A p \in Prices : p % 20 = 0

\* A request is what a client sends: an order without its id.
ASSUME RequestsAssumption ==
    \A r \in Requests : \E o \in NewOrder(1) \cup NewMarketOrder(1) :
      /\ <<o.user, o.side, o.type>> = <<r.user, r.side, r.type>>
      /\ <<o.price, o.qty>> = <<r.price, r.qty>>

VARIABLES
    balance,    \* accounts.balance, by <<user, currency>>
    locked,     \* accounts.locked
    orders,     \* the orders table; the index is the id
    tradeTable, \* the trades table
    refused,    \* history: the accounts of which an UnlockFunds has matched no row
    topic,      \* exchange.orders
    settlements,\* exchange.settlements
    snapshots,  \* the sell sides the engine has published; Redis holds one of them
    asked       \* the orders whose cancellation has been requested

dbVars == <<balance, locked, orders, tradeTable, refused>>
serviceVars == <<dbVars, topic, settlements, snapshots, asked>>

Currencies == {"base", "quote"}
Accounts == Users \X Currencies

\* The users table has finitely many rows, and CHECK (balance >= 0).
ASSUME UsersAssumption == IsFiniteSet(Users)
ASSUME FundsAssumption == Funds \in [Accounts -> Nat]

Statuses == {"NEW", "PARTIALLY_FILLED", "FILLED", "CANCELED"}

\* A row of orders. lock is the AmountLocked that travels with its events.
OrderRow == [user : Users, side : Sides, type : Types, price : Nat, qty : Nat,
             filled : Nat, status : Statuses, lock : Nat]

IsOpen(i) == orders[i].status \in {"NEW", "PARTIALLY_FILLED"}

Init ==
    /\ balance = Funds
    /\ locked = [a \in Accounts |-> 0]
    /\ orders = <<>>
    /\ tradeTable = {}
    /\ refused = {}
    /\ topic = <<>>
    /\ settlements = <<>>
    /\ snapshots = {{}}
    /\ asked = {}

-----------------------------------------------------------------------------
(* Placing and cancelling *)

LockCurrency(side) == IF side = "BUY" THEN "quote" ELSE "base"

Depth(asks) == SumFunction([a \in asks |-> a.qty])

\* The quantity taken from ask a by a walk up the asks that looks for q.
WalkTakes(a, asks, q) ==
    LET before == {b \in asks : \/ b.price < a.price
                                \/ b.price = a.price /\ b.id < a.id}
    IN IF q <= Depth(before) THEN 0 ELSE MinQty(a.qty, q - Depth(before))

\* estimateFromSnapshotAsks, which fails when the asks do not cover q.
Estimate(asks, q) == SumFunction([a \in asks |-> a.price * WalkTakes(a, asks, q)])

\* calculateLockAmount: the whole price of a limit buy, 105 % of the estimate
\* for a market buy, the quantity of a sell.
LockAmount(o, asks) ==
    CASE o.side = "SELL" -> o.qty
      [] o.side = "BUY" /\ o.type = "LIMIT" -> o.price * o.qty
      [] o.side = "BUY" /\ o.type = "MARKET" -> (Estimate(asks, o.qty) * 21) \div 20

\* LockFunds: WHERE balance >= amount.
CanLock(a, amount) == balance[a] >= amount

\* PlaceOrder up to its commit. Without funds or liquidity nothing happens. The
\* engine and, later, market-data-service write the same snapshots to Redis;
\* either write may fail or come late, so any of them may be the one found.
PlaceOrder ==
    /\ Len(orders) < MaxOrders
    /\ \E o \in Requests, asks \in snapshots :
         LET a == <<o.user, LockCurrency(o.side)>>
             amount == LockAmount(o, asks)
         IN /\ o.side = "BUY" /\ o.type = "MARKET" => o.qty <= Depth(asks)
            /\ CanLock(a, amount)
            /\ balance' = [balance EXCEPT ![a] = @ - amount]
            /\ locked' = [locked EXCEPT ![a] = @ + amount]
            /\ orders' = Append(orders,
                 [user |-> o.user, side |-> o.side, type |-> o.type, price |-> o.price,
                  qty |-> o.qty, filled |-> 0, status |-> "NEW", lock |-> amount])
            /\ topic' = Append(topic, [kind |-> "placed", id |-> Len(orders')])
    /\ UNCHANGED <<tradeTable, refused, settlements, snapshots, asked>>

\* CancelOrder: the order stays as it is, the engine is asked to remove it.
\* Each order is asked for once here.
CancelOrder ==
    /\ \E i \in DOMAIN orders \ asked :
         /\ IsOpen(i)
         /\ topic' = Append(topic, [kind |-> "cancel", id |-> i])
         /\ asked' = asked \cup {i}
    /\ UNCHANGED <<dbVars, settlements, snapshots>>

-----------------------------------------------------------------------------
(* Settlement: SettlementRequestedEvent *)

\* Round(8): to the nearest unit, half of one upwards. It changes no quantity.
Round(x) ==
    LET up == x + (Scale \div 2)
    IN up - (up % Scale)

\* ev = [kind |-> "trades", id |-> taker, remaining |-> what the engine left of
\* it, trades |-> sequence of [maker, price, qty]]
Taker(ev) == orders[ev.id]
Value(ev) == SumFunction([k \in DOMAIN ev.trades |-> ev.trades[k].price * ev.trades[k].qty])
Filled(ev) == SumFunction([k \in DOMAIN ev.trades |-> ev.trades[k].qty])

\* Faulty: the fill is derived from what the engine left of the order.
TakerFilled_FromRemaining(ev) == Taker(ev).qty - ev.remaining

\* takerOrder.FilledQuantity once every trade has been added.
TakerFilled(ev) == Taker(ev).filled + Filled(ev)

TradeRow(ev, k) == [taker |-> ev.id, k |-> k, maker |-> ev.trades[k].maker,
                    price |-> ev.trades[k].price, qty |-> ev.trades[k].qty]

\* Faulty: only the trades are looked up, and an event may have none.
AlreadySettled_TradesOnly(ev) ==
    ev.trades # <<>> /\ TradeRow(ev, 1) \in tradeTable

\* The checks before and inside the transaction.
AlreadySettled(ev) ==
    \/ Taker(ev).status # "NEW"
    \/ ev.trades # <<>> /\ TradeRow(ev, 1) \in tradeTable

\* calculateTradeSettlement: what one trade changes in account a. A limit
\* order that takes unlocks at its own price and pays the better one.
BuyerOf(ev, t) ==
    IF Taker(ev).side = "BUY" THEN Taker(ev).user ELSE orders[t.maker].user
SellerOf(ev, t) ==
    IF Taker(ev).side = "BUY" THEN orders[t.maker].user ELSE Taker(ev).user

BuyerDue(ev, t) ==
    IF Taker(ev).side = "BUY" /\ Taker(ev).type = "LIMIT"
    THEN Taker(ev).price * t.qty ELSE t.price * t.qty
BuyerUnlock(ev, t) == Round(BuyerDue(ev, t))
TradeValue(t) == Round(t.price * t.qty)

TradeUnlock(ev, t, a) ==
    CASE a = <<BuyerOf(ev, t), "quote">> -> BuyerUnlock(ev, t)
      [] a = <<SellerOf(ev, t), "base">> -> t.qty
      [] OTHER -> 0

\* Faulty: a buyer pays its own limit, the seller receives the trade price.
TradeAmount_AtLimit(ev, t, a) ==
    CASE a = <<BuyerOf(ev, t), "quote">> -> -BuyerUnlock(ev, t)
      [] a = <<BuyerOf(ev, t), "base">> -> t.qty
      [] a = <<SellerOf(ev, t), "base">> -> -t.qty
      [] a = <<SellerOf(ev, t), "quote">> -> TradeValue(t)
      [] OTHER -> 0

TradeAmount(ev, t, a) ==
    CASE a = <<BuyerOf(ev, t), "quote">> -> -TradeValue(t)
      [] a = <<BuyerOf(ev, t), "base">> -> t.qty
      [] a = <<SellerOf(ev, t), "base">> -> -t.qty
      [] a = <<SellerOf(ev, t), "quote">> -> TradeValue(t)
      [] OTHER -> 0

\* What is left of the taker's lock when the taker is complete. A negative
\* difference, a market buy that cost more than it locked, is ignored.
RefundDue(ev) ==
    LET o == Taker(ev)
        rest == o.qty - TakerFilled(ev)
    IN CASE o.type = "MARKET" /\ o.side = "SELL" -> rest
         [] o.type = "MARKET" /\ o.side = "BUY" ->
              IF Value(ev) < o.lock THEN o.lock - Value(ev) ELSE 0
         [] o.type = "LIMIT" /\ ev.remaining = 0 ->
              IF o.side = "BUY" THEN rest * o.price ELSE rest
         [] OTHER -> 0
Refund(ev) == IF Taker(ev).side = "BUY" THEN Round(RefundDue(ev)) ELSE RefundDue(ev)

\* aggregateAndSortAccountUpdates: one unlock and one amount per account.
TotalUnlock(ev, a) ==
    SumFunction([k \in DOMAIN ev.trades |-> TradeUnlock(ev, ev.trades[k], a)])
      + (IF a = <<Taker(ev).user, LockCurrency(Taker(ev).side)>> THEN Refund(ev) ELSE 0)
TotalAmount(ev, a) ==
    SumFunction([k \in DOMAIN ev.trades |-> TradeAmount(ev, ev.trades[k], a)])

\* Faulty: UnlockFunds without its WHERE clause.
Unlocked_Always(a, amount) == amount

\* UnlockFunds: WHERE locked >= amount; nobody looks at the rows affected.
Unlocked(a, amount) == IF locked[a] >= amount THEN amount ELSE 0

\* The status of a maker that has been filled up to f.
MakerStatus(i, f) == IF f = orders[i].qty THEN "FILLED" ELSE "PARTIALLY_FILLED"

TakerStatus(ev) ==
    LET o == Taker(ev)
        f == TakerFilled(ev)
    IN CASE o.type = "MARKET" -> IF f = 0 THEN "CANCELED" ELSE "FILLED"
         [] o.type = "LIMIT" /\ f = o.qty -> "FILLED"
         [] o.type = "LIMIT" /\ f # o.qty /\ ev.remaining = 0 -> "CANCELED"
         [] OTHER -> IF f > 0 THEN "PARTIALLY_FILLED" ELSE o.status

MakerFill(ev, i) ==
    SumFunction([k \in {j \in DOMAIN ev.trades : ev.trades[j].maker = i} |-> ev.trades[k].qty])

OrdersAfter(ev) ==
    [i \in DOMAIN orders |->
       LET f == orders[i].filled + MakerFill(ev, i) IN
       CASE i = ev.id ->
              [orders[i] EXCEPT !.filled = TakerFilled(ev), !.status = TakerStatus(ev)]
         [] i # ev.id /\ MakerFill(ev, i) > 0 ->
              [orders[i] EXCEPT !.filled = f, !.status = MakerStatus(i, f)]
         [] OTHER -> orders[i]]

\* The offset is committed, or the event will be delivered again.
Acknowledge == settlements' \in {Tail(settlements), settlements}

BalanceAfter(ev, a) ==
    balance[a] + Unlocked(a, TotalUnlock(ev, a)) + TotalAmount(ev, a)

\* CHECK (balance >= 0)
Affordable(ev) == \A a \in Accounts : BalanceAfter(ev, a) >= 0

\* executeSettlementTx. When the CHECK fails so does the whole transaction,
\* and the consumer retries it for ever.
Settle(ev) ==
    /\ ev.kind = "trades"
    /\ ~AlreadySettled(ev)
    /\ locked' = [a \in Accounts |-> locked[a] - Unlocked(a, TotalUnlock(ev, a))]
    /\ refused' = refused \cup {a \in Accounts : TotalUnlock(ev, a) > locked[a]}
    /\ balance' = [a \in Accounts |-> BalanceAfter(ev, a)]
    /\ Affordable(ev)
    /\ orders' = OrdersAfter(ev)
    /\ tradeTable' = tradeTable \cup {TradeRow(ev, k) : k \in DOMAIN ev.trades}
    /\ Acknowledge
    /\ UNCHANGED <<topic, snapshots, asked>>

\* ErrIdempotencySkip
SkipSettled(ev) ==
    /\ ev.kind = "trades"
    /\ AlreadySettled(ev)
    /\ Acknowledge
    /\ UNCHANGED <<dbVars, topic, snapshots, asked>>

-----------------------------------------------------------------------------
(* Settlement: OrderCanceledEvent *)

\* calculateUnlockAmount: a buy's rest at its price, not rounded, the rest of a sell.
RestAmount(o) == IF o.side = "BUY" THEN o.price * (o.qty - o.filled) ELSE o.qty - o.filled

SettleCancel(ev) ==
    /\ ev.kind = "canceled"
    /\ IsOpen(ev.id)
    /\ LET o == orders[ev.id]
           a == <<o.user, LockCurrency(o.side)>>
           u == Unlocked(a, RestAmount(o))
       IN /\ balance' = [balance EXCEPT ![a] = @ + u]
          /\ locked' = [locked EXCEPT ![a] = @ - u]
          /\ refused' = IF RestAmount(o) > locked[a] THEN refused \cup {a} ELSE refused
          /\ orders' = [orders EXCEPT ![ev.id].status = "CANCELED"]
    /\ Acknowledge
    /\ UNCHANGED <<tradeTable, topic, snapshots, asked>>

SkipCanceled(ev) ==
    /\ ev.kind = "canceled"
    /\ ~IsOpen(ev.id)
    /\ Acknowledge
    /\ UNCHANGED <<dbVars, topic, snapshots, asked>>

HandleSettlement ==
    /\ settlements # <<>>
    /\ LET ev == Head(settlements) IN
         Settle(ev) \/ SkipSettled(ev) \/ SettleCancel(ev) \/ SkipCanceled(ev)

ServiceNext == PlaceOrder \/ CancelOrder \/ HandleSettlement
=============================================================================
