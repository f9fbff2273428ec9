--------------------------- MODULE MatchingEngine ---------------------------
(***************************************************************************)
(* The in-memory matching engine of one symbol (internal/matching/engine).  *)
(*                                                                         *)
(* book.BUY and book.SELL are the slices ob.bids and ob.asks. Every method   *)
(* runs under e.mu: Submit takes the mutex for Process (taker holds the      *)
(* order being matched, a pointer the loop writes to), each iteration of     *)
(* the matching loop is a step, and Return leaves Process. Cancel, Handover   *)
(* and RestoreOrder need the mutex, so they wait while taker # NoOrder.       *)
(*                                                                         *)
(* Handover is the change of leader of a settled system: EngineManager.Reset  *)
(* drops the book, and RestoreEngineSnapshot adds every active order back in  *)
(* created_at order. That column is a millisecond the order-service reads      *)
(* before its transaction, one for all orders of a batch, and the goroutines    *)
(* that publish do not keep to it: it ties, and says little of the arrival.     *)
(* When the query fails the new leader serves an empty book (HandoverFails).    *)
(* What happens when orders or settlements are still in flight at a change of   *)
(* leader is the subject of EngineRecovery.                                     *)
(***************************************************************************)
EXTENDS Orders, Sequences

CONSTANTS
    MaxOrders, \* bound on the orders submitted in a behaviour
    Stamps     \* the values of created_at

ASSUME MaxOrdersAssumption == MaxOrders \in Nat
ASSUME StampsAssumption == Stamps \subseteq Nat

VARIABLES
    book,     \* the order book: [side -> sequence of resting orders]
    taker,    \* the order Process is matching, or NoOrder
    trades,   \* the trades Process has collected for it
    restoring,\* active orders the new leader has not added back yet
    stranded, \* active orders that a leader whose restore failed does not know
    createdAt,\* created_at of the submitted orders
    placed,   \* history: the quantities as submitted; their index is the order id
    filled,   \* history: quantity traded, per order id
    dropped,  \* history: quantity given up (STP, market remainder, cancel)
    rebuilt,  \* history: how many orders there were at the last restore
    missed    \* history: the ids that have been stranded

history == <<placed, filled, dropped, rebuilt, missed>>
vars == <<book, taker, trades, restoring, stranded, createdAt, history>>

Ids == 1..MaxOrders
Elems(s) == {s[i] : i \in DOMAIN s}
IdsOf(S) == {o.id : o \in S}
InBook == Elems(book["BUY"]) \cup Elems(book["SELL"])
Resting == InBook \cup restoring

\* The active rows of the orders table.
Active == Resting \cup stranded

-----------------------------------------------------------------------------
(* orderbook.go *)

\* Faulty: an unstable sort, the new order goes ahead of those at its own price.
AddOrder_Unstable(s, o) ==
    LET Stays(i) == NotWorse(o.side, s[i].price, o.price) /\ s[i].price # o.price
    IN [i \in 1..(Len(s) + 1) |->
          IF i <= Len(s) /\ Stays(i) THEN s[i]
          ELSE IF i = 1 \/ Stays(i - 1) THEN o ELSE s[i - 1]]

\* Append and stable sort by price: every order served no later than o keeps
\* its place, o follows them, the others move back by one.
AddOrder(s, o) ==
    LET Stays(i) == NotWorse(o.side, s[i].price, o.price)
    IN [i \in 1..(Len(s) + 1) |->
          IF i <= Len(s) /\ Stays(i) THEN s[i]
          ELSE IF i = 1 \/ Stays(i - 1) THEN o ELSE s[i - 1]]

\* append(s[:i], s[i+1:]...)
RemoveIndex(s, i) ==
    [j \in 1..(Len(s) - 1) |-> IF j < i THEN s[j] ELSE s[j + 1]]

\* Faulty: a partly filled order keeps its full quantity.
FillBest_Forgets(s, q) == IF s[1].qty = q THEN Tail(s) ELSE s

\* The best order of a side gives q, and leaves the book once it has no more.
FillBest(s, q) ==
    IF s[1].qty = q THEN Tail(s) ELSE [s EXCEPT ![1].qty = @ - q]

-----------------------------------------------------------------------------
Init ==
    /\ book = [s \in Sides |-> <<>>]
    /\ taker = NoOrder
    /\ trades = <<>>
    /\ restoring = {}
    /\ stranded = {}
    /\ createdAt = <<>>
    /\ placed = <<>>
    /\ filled = [id \in Ids |-> 0]
    /\ dropped = [id \in Ids |-> 0]
    /\ rebuilt = 0
    /\ missed = {}

\* Process is entered with the next order of the topic, whenever it was created.
Submit ==
    /\ taker = NoOrder
    /\ restoring = {}
    /\ Len(placed) < MaxOrders
    /\ \E o \in NewOrder(Len(placed) + 1) \cup NewMarketOrder(Len(placed) + 1) :
         /\ taker' = o
         /\ placed' = Append(placed, o.qty)
    /\ \E c \in Stamps : createdAt' = Append(createdAt, c)
    /\ trades' = <<>>
    /\ UNCHANGED <<book, restoring, stranded, filled, dropped, rebuilt, missed>>

Opponent == book[Opposite(taker.side)]

\* Another iteration of the loop runs: the taker still wants quantity and
\* the other side is not empty.
Matching ==
    /\ taker # NoOrder
    /\ taker.qty > 0
    /\ Opponent # <<>>

\* Faulty: the users are never compared.
OwnBest_Unchecked == FALSE

\* buyOrder.UserID == bestAsk.UserID, tested before the prices are.
OwnBest == taker.user = Opponent[1].user

\* Faulty: orders at the same price do not trade.
Crosses_Strictly ==
    Accepts(taker, Opponent[1]) /\ taker.price # Opponent[1].price

\* The price test of the loop, skipped for a market order.
Crosses == Accepts(taker, Opponent[1])

\* One iteration that trades, at the maker's price.
MatchBest ==
    /\ Matching
    /\ ~OwnBest
    /\ Crosses
    /\ LET best == Opponent[1]
           q == MinQty(taker.qty, best.qty)
       IN /\ trades' = Append(trades, [maker |-> best, taker |-> taker,
                                       price |-> best.price, qty |-> q])
          /\ taker' = [taker EXCEPT !.qty = @ - q]
          /\ book' = [book EXCEPT ![Opposite(taker.side)] = FillBest(@, q)]
          /\ filled' = [filled EXCEPT ![best.id] = @ + q, ![taker.id] = @ + q]
    /\ UNCHANGED <<restoring, stranded, createdAt, placed, dropped, rebuilt, missed>>

\* Self-trade prevention, "Cancel Newest".
CancelNewest ==
    /\ Matching
    /\ OwnBest
    /\ taker' = [taker EXCEPT !.qty = 0]
    /\ dropped' = [dropped EXCEPT ![taker.id] = @ + taker.qty]
    /\ UNCHANGED <<book, trades, restoring, stranded, createdAt,
                   placed, filled, rebuilt, missed>>

\* Faulty: a price mismatch does not break the loop.
LoopEnds_NotOnPrice ==
    taker # NoOrder /\ (taker.qty = 0 \/ Opponent = <<>>)

\* The loop ends: nothing left to trade, nobody to trade with, or no
\* agreement on the price.
LoopEnds ==
    /\ taker # NoOrder
    /\ \/ taker.qty = 0
       \/ Opponent = <<>>
       \/ Matching /\ ~OwnBest /\ ~Crosses

\* Process adds what is left of a limit order to the book.
Rests == taker.qty > 0 /\ taker.type # "MARKET"

Return ==
    /\ LoopEnds
    /\ book' = IF Rests THEN [book EXCEPT ![taker.side] = AddOrder(@, taker)]
                        ELSE book
    /\ dropped' = IF Rests THEN dropped
                  ELSE [dropped EXCEPT ![taker.id] = @ + taker.qty]
    /\ taker' = NoOrder
    /\ UNCHANGED <<trades, restoring, stranded, createdAt, placed, filled, rebuilt, missed>>

\* A cancel request for an order that rests; a request for any other order, a
\* stranded one too, finds nothing and changes nothing.
Cancel ==
    /\ taker = NoOrder
    /\ restoring = {}
    /\ \E s \in Sides : \E i \in DOMAIN book[s] :
         /\ \A j \in DOMAIN book[s] : j < i => book[s][j].id # book[s][i].id
         /\ book' = [book EXCEPT ![s] = RemoveIndex(@, i)]
         /\ dropped' = [dropped EXCEPT ![book[s][i].id] = @ + book[s][i].qty]
    /\ UNCHANGED <<taker, trades, restoring, stranded, createdAt,
                   placed, filled, rebuilt, missed>>

\* A new leader is elected while nothing is in flight and some order is active.
LeaderChanges == taker = NoOrder /\ restoring = {} /\ Active # {}

\* Faulty: the new leader restores into the book it already has.
Handover_WithoutReset ==
    /\ LeaderChanges
    /\ restoring' = Active
    /\ stranded' = {}
    /\ rebuilt' = Len(placed)
    /\ UNCHANGED <<book, taker, trades, createdAt, placed, filled, dropped, missed>>

\* EngineManager.Reset by a new leader; the database holds what is active.
Handover ==
    /\ LeaderChanges
    /\ restoring' = Active
    /\ stranded' = {}
    /\ rebuilt' = Len(placed)
    /\ book' = [s \in Sides |-> <<>>]
    /\ UNCHANGED <<taker, trades, createdAt, placed, filled, dropped, missed>>

\* GetActiveOrders returns an error. It is logged, and the new leader serves the
\* orders that come from the book it has reset.
HandoverFails ==
    /\ LeaderChanges
    /\ stranded' = Active
    /\ missed' = missed \cup IdsOf(Active)
    /\ book' = [s \in Sides |-> <<>>]
    /\ UNCHANGED <<taker, trades, restoring, createdAt, placed, filled, dropped, rebuilt>>

\* Faulty: the query has no ORDER BY.
OldestOf_Any(S) == S

\* ORDER BY created_at ASC: rows with the same stamp come in any order.
OldestOf(S) == {o \in S : \A p \in S : createdAt[o.id] <= createdAt[p.id]}

\* RestoreOrder: into the book, without matching.
RestoreOrder ==
    /\ \E o \in OldestOf(restoring) :
         /\ book' = [book EXCEPT ![o.side] = AddOrder(@, o)]
         /\ restoring' = restoring \ {o}
    /\ UNCHANGED <<taker, trades, stranded, createdAt, history>>

Next ==
    \/ Submit
    \/ MatchBest
    \/ CancelNewest
    \/ Return
    \/ Cancel
    \/ Handover
    \/ HandoverFails
    \/ RestoreOrder

\* The goroutine that runs Process or the restore loop is scheduled; nobody
\* has to submit or cancel.
Fairness == WF_vars(MatchBest \/ CancelNewest \/ Return \/ RestoreOrder)

Spec == Init /\ [][Next]_vars
FairSpec == Spec /\ Fairness

-----------------------------------------------------------------------------
(* Properties *)

Open == Active \cup ({taker} \ {NoOrder})

TypeOK ==
    /\ book \in [Sides -> Seq(Order)]
    /\ taker \in Order \cup {NoOrder}
    /\ trades \in Seq(Trade)
    /\ restoring \subseteq Order
    /\ stranded \subseteq Order
    /\ placed \in Seq(1..MaxQty)
    /\ Len(placed) <= MaxOrders
    /\ createdAt \in Seq(Stamps)
    /\ Len(createdAt) = Len(placed)
    /\ filled \in [Ids -> Nat]
    /\ dropped \in [Ids -> Nat]
    /\ rebuilt \in 0..Len(placed)
    /\ missed \subseteq Ids

\* Of two orders at a price, a is served before b: it arrived first; or the book
\* has been rebuilt since both came, and a was created no later.
Served(a, b) ==
    IF a <= rebuilt /\ b <= rebuilt THEN createdAt[a] <= createdAt[b] ELSE a < b

\* Price-time priority of the data structure: whoever is served first has the
\* better price, or the same price and the earlier time, of arrival or, once a
\* leader has rebuilt the book, of creation. The code only ever sorts by price
\* and relies on the stability of the sort, on FillBest not moving a partly
\* filled order, and on the order of the rebuild.
PriceTimePriority ==
    \A s \in Sides : \A i, j \in DOMAIN book[s] :
      i < j => /\ NotWorse(s, book[s][i].price, book[s][j].price)
               /\ book[s][i].price = book[s][j].price
                    => Served(book[s][i].id, book[s][j].id)

\* The book is never crossed, also while an order is being matched and while
\* a new leader rebuilds it, except by an order that was active when a restore
\* failed: the orders that came in the meantime did not meet it.
NeverCrossed ==
    \A b, a \in Resting :
      /\ b.side = "BUY" /\ a.side = "SELL"
      /\ {b.id, a.id} \cap missed = {}
      => b.price < a.price

\* Every trade of a Process call is between two users, between the limits of
\* both orders, and no later trade of the call has a better price for the
\* taker than an earlier one.
TradesAreFair ==
    \A i \in DOMAIN trades :
      LET t == trades[i] IN
        /\ t.maker.user # t.taker.user
        /\ Accepts(t.taker, t.maker)
        /\ \A j \in 1..i :
             NotWorse(t.maker.side, trades[j].price, t.price)

\* An order is at one place at most: at one index of one side of the book, waiting
\* to be restored, left out by a failed restore, or being matched.
OpenOnce ==
    /\ \A s, t \in Sides : \A i \in DOMAIN book[s], j \in DOMAIN book[t] :
         book[s][i].id = book[t][j].id => s = t /\ i = j
    /\ \A o, p \in Active : o.id = p.id => o = p
    /\ IdsOf(InBook) \cap IdsOf(restoring) = {}
    /\ IdsOf(Resting) \cap IdsOf(stranded) = {}
    /\ taker # NoOrder => taker.id \notin IdsOf(Active)

\* Quantity is neither lost nor invented: what was submitted is what traded,
\* what was given up and what is still open, known to the engine or not.
QuantityConserved ==
    \A id \in DOMAIN placed :
      placed[id] = filled[id] + dropped[id] +
        (IF \E o \in Open : o.id = id
         THEN (CHOOSE o \in Open : o.id = id).qty ELSE 0)

\* The slices, the sort and the rebuild implement matching over a plain set
\* of resting orders. Handover and HandoverFails are its changes of leader;
\* RestoreOrder is invisible there.
Abstract == INSTANCE PriceTimeMatching
              WITH arrivals <- Len(placed), resting <- Resting

Refinement == Abstract!Spec

\* Process leaves its loop and releases the mutex.
ProcessReturns == taker # NoOrder ~> taker = NoOrder
=============================================================================
