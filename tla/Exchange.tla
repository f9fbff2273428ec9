------------------------------ MODULE Exchange ------------------------------
(***************************************************************************)
(* The life of an order: the order-service and the matching-engine around     *)
(* the topics exchange.orders and exchange.settlements. The engine is the     *)
(* abstract one, PriceTimeMatching, which MatchingEngine is shown to           *)
(* implement; its consumer (internal/matching/event_subscribers.go) takes one  *)
(* event at a time and publishes before it takes the next.                     *)
(*                                                                         *)
(* One leader that never changes: the change of leader is the subject of       *)
(* LeaderElection.                                                             *)
(***************************************************************************)
EXTENDS OrderService

VARIABLES
    resting,  \* the order book in the engine's memory
    taker,    \* the order the engine is matching, or NoOrder
    trades    \* the trades of that order

engineVars == <<resting, taker, trades>>
vars == <<serviceVars, engineVars>>

Engine == INSTANCE PriceTimeMatching
            WITH Stamps <- {}, arrivals <- 0, createdAt <- <<>>, rebuilt <- 0, stranded <- {}

ExchangeInit == Init /\ Engine!Init

-----------------------------------------------------------------------------
(* internal/matching/event_subscribers.go *)

\* convertToMatchingOrder
EngineOrder(i) ==
    [id |-> i, user |-> orders[i].user, side |-> orders[i].side,
     type |-> orders[i].type, price |-> orders[i].price, qty |-> orders[i].qty]

\* handleOrderPlaced calls Process.
TakeOrder ==
    /\ taker = NoOrder
    /\ topic # <<>>
    /\ Head(topic).kind = "placed"
    /\ taker' = EngineOrder(Head(topic).id)
    /\ trades' = <<>>
    /\ topic' = Tail(topic)
    /\ UNCHANGED <<dbVars, settlements, snapshots, asked, resting>>

Match == (Engine!Trading \/ Engine!Forfeit) /\ UNCHANGED serviceVars

\* OnOrderBookUpdate
PublishBook == snapshots' = snapshots \cup {{o \in resting' : o.side = "SELL"}}

\* Faulty: an order without trades is never settled.
NeedsSettlement_OnTrades == trades # <<>>

\* needsSettlement: trades, a market order, or the self-trade prevention.
NeedsSettlement ==
    trades # <<>> \/ taker.type = "MARKET" \/ taker.qty = 0

SettlementRequested ==
    [kind |-> "trades", id |-> taker.id, remaining |-> taker.qty,
     trades |-> [k \in DOMAIN trades |->
        [maker |-> trades[k].maker.id, price |-> trades[k].price, qty |-> trades[k].qty]]]

\* Process returns; the rest of handleOrderPlaced.
Finish ==
    /\ Engine!Rest \/ Engine!Done
    /\ settlements' = IF NeedsSettlement THEN Append(settlements, SettlementRequested)
                                         ELSE settlements
    /\ PublishBook
    /\ UNCHANGED <<dbVars, topic, asked>>

\* Faulty: the order is reported as cancelled and stays in the book.
WithoutOrder_Kept(i) == resting

\* Cancel: the book without order i, the book itself when i does not rest.
WithoutOrder(i) == {o \in resting : o.id # i}

\* handleOrderCancelRequested
TakeCancel ==
    /\ taker = NoOrder
    /\ topic # <<>>
    /\ LET i == Head(topic).id IN
         /\ Head(topic).kind = "cancel"
         /\ resting' = WithoutOrder(i)
         /\ IF \E o \in resting : o.id = i
            THEN /\ settlements' = Append(settlements, [kind |-> "canceled", id |-> i])
                 /\ PublishBook
            ELSE UNCHANGED <<settlements, snapshots>>
    /\ topic' = Tail(topic)
    /\ UNCHANGED <<dbVars, asked, taker, trades>>

EngineNext == TakeOrder \/ Match \/ Finish \/ TakeCancel

Next ==
    \/ ServiceNext /\ UNCHANGED engineVars
    \/ EngineNext

\* An event at the head is delivered until its offset is committed.
Acknowledged ==
    HandleSettlement /\ settlements' # settlements /\ UNCHANGED engineVars

Spec == ExchangeInit /\ [][Next]_vars

\* Both consumers run; no client has to do anything.
FairSpec == Spec /\ WF_vars(EngineNext) /\ WF_vars(Acknowledged)

-----------------------------------------------------------------------------
(* Properties *)

TypeOK ==
    /\ balance \in [Accounts -> Nat]
    /\ locked \in [Accounts -> Nat]
    /\ refused \subseteq Accounts
    /\ orders \in Seq(OrderRow)
    /\ \A i \in DOMAIN orders : orders[i].filled <= orders[i].qty
    /\ asked \subseteq DOMAIN orders
    /\ taker \in Order \cup {NoOrder}
    /\ resting \subseteq Order
    /\ UNION snapshots \subseteq Order

\* Trades, refunds, unlocks and redeliveries move money between users and
\* between the two columns, and never create or destroy it.
MoneyConserved ==
    \A c \in Currencies :
      SumFunction([u \in Users |-> balance[<<u, c>>] + locked[<<u, c>>]])
        = SumFunction([u \in Users |-> Funds[<<u, c>>]])

OpenRows == {i \in DOMAIN orders : IsOpen(i)}
ClosedRows == DOMAIN orders \ OpenRows

\* What an open order must have locked.
Reserved(i) ==
    IF orders[i].side = "BUY" /\ orders[i].type = "MARKET" THEN orders[i].lock
    ELSE RestAmount(orders[i])

\* The account it is locked in.
LockedIn(i) == <<orders[i].user, LockCurrency(orders[i].side)>>

TradesOf(i) == {t \in tradeTable : i \in {t.maker, t.taker}}
Spent(i) == SumFunction([t \in TradesOf(i) |-> t.price * t.qty])

\* A market buy locks 105 % of what a possibly stale snapshot says; this one
\* has cost more than that.
Overspent ==
    \E i \in DOMAIN orders :
      /\ orders[i].side = "BUY"
      /\ orders[i].type = "MARKET"
      /\ Spent(i) > orders[i].lock

\* PlaceOrder and CancelOrder lock and unlock the full product, a settlement what
\* Round(8) makes of it: each trade and each refund may unlock half a unit of the
\* quote currency too little or too much.
RoundedOff(a) ==
    IF a[2] = "quote"
    THEN (Scale \div 2) * (Cardinality(tradeTable) + Cardinality(ClosedRows))
    ELSE 0

\* Until a market buy costs more than it locked, locked is what the open orders
\* of the account need, up to what rounding has moved: partial fills, price
\* improvement, the self-trade prevention, cancellations and redeliveries leave
\* nothing else behind and take nothing twice. Only rounding makes an UnlockFunds
\* match no row; that leaves more locked, never less.
LocksMatchOrders ==
    ~Overspent =>
      \A a \in Accounts :
        LET needed == SumFunction([i \in {j \in OpenRows : LockedIn(j) = a} |-> Reserved(i)])
        IN /\ needed <= locked[a] + RoundedOff(a)
           /\ a \notin refused => locked[a] <= needed + RoundedOff(a)
           /\ a \in refused => RoundedOff(a) > 0

\* audit_test.go, "Trade and Order Consistency": every order is filled by
\* exactly the trades recorded for it.
FilledMatchesTrades ==
    \A i \in DOMAIN orders :
      orders[i].filled = SumFunction([t \in TradesOf(i) |-> t.qty])

\* When nothing is in flight, the open orders of the database are the resting
\* orders of the engine, with the same quantities. The new leader's
\* RestoreEngineSnapshot relies on it.
QuiescentAgreement ==
    topic = <<>> /\ settlements = <<>> /\ taker = NoOrder =>
      {<<i, orders[i].qty - orders[i].filled>> : i \in OpenRows}
        = {<<o.id, o.qty>> : o \in resting}

\* A filled or cancelled order is final: a fill and a cancellation that race
\* are decided by the engine alone, and a redelivered event changes nothing.
ClosedStaysClosed ==
    [][\A i \in DOMAIN orders : ~IsOpen(i) => orders'[i] = orders[i]]_vars

\* The transaction of the event at the head fails on CHECK (balance >= 0).
Blocked ==
    /\ settlements # <<>>
    /\ Head(settlements).kind = "trades"
    /\ ~AlreadySettled(Head(settlements))
    /\ ~Affordable(Head(settlements))

\* An order whose cancellation was requested is eventually closed, whatever
\* the engine did to it first, unless a settlement blocks the topic.
CancelCompletes ==
    \A i \in 1..MaxOrders : i \in asked ~> i \in ClosedRows \/ Blocked

\* audit_test.go, "No Stuck Locked Funds": an account has locked funds only
\* while its user has an open order.
NoStuckLockedFunds ==
    \A a \in Accounts :
      locked[a] > 0 => \E i \in OpenRows : orders[i].user = a[1]
=============================================================================
