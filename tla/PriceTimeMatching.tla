------------------------- MODULE PriceTimeMatching -------------------------
(***************************************************************************)
(* What the matching engine promises, with no order book data structure:    *)
(* resting orders are a set, and an incoming order trades with the resting   *)
(* order that has price-time priority until it is filled, gives up, or rests *)
(* without crossing anybody. A change of leader brings the active orders back *)
(* in the order of their creation, or strands them. Sorting, slices, removal   *)
(* by index and the rebuild order by order are left to MatchingEngine.         *)
(***************************************************************************)
EXTENDS Orders, Sequences

CONSTANT Stamps \* the times of creation

VARIABLES
    arrivals,  \* how many orders have been submitted
    createdAt, \* when each of them was created
    resting,   \* the resting orders
    stranded,  \* active orders the leader does not know
    rebuilt,   \* how many orders had been submitted when it took over
    taker,     \* the order being matched, or NoOrder
    trades     \* the trades of the current (or last) incoming order

ranks == <<createdAt, rebuilt>>
absVars == <<arrivals, resting, stranded, ranks, taker, trades>>

\* Among the orders it took over the leader goes by the time of creation, with
\* ties in any order; then by arrival.
Served(a, b) ==
    IF a <= rebuilt /\ b <= rebuilt THEN createdAt[a] <= createdAt[b] ELSE a < b

\* Resting order a may be served before resting order b of the same side.
Before(a, b) ==
    /\ NotWorse(a.side, a.price, b.price)
    /\ a.price = b.price => Served(a.id, b.id)

Opponents(t) == {m \in resting : m.side = Opposite(t.side)}

\* m has price-time priority among the opponents of t.
HasPriority(m, t) ==
    /\ m \in Opponents(t)
    /\ \A r \in Opponents(t) \ {m} : Before(m, r)

Init ==
    /\ arrivals = 0
    /\ createdAt = <<>>
    /\ resting = {}
    /\ stranded = {}
    /\ rebuilt = 0
    /\ taker = NoOrder
    /\ trades = <<>>

Submit ==
    /\ taker = NoOrder
    /\ \E o \in NewOrder(arrivals + 1) \cup NewMarketOrder(arrivals + 1) :
         taker' = o
    /\ arrivals' = arrivals + 1
    /\ \E c \in Stamps : createdAt' = Append(createdAt, c)
    /\ trades' = <<>>
    /\ UNCHANGED <<resting, stranded, rebuilt>>

Trading ==
    /\ taker # NoOrder
    /\ taker.qty > 0
    /\ \E m \in resting :
         /\ HasPriority(m, taker)
         /\ Accepts(taker, m)
         /\ m.user # taker.user
         /\ LET q == MinQty(taker.qty, m.qty) IN
              /\ trades' = Append(trades, [maker |-> m, taker |-> taker,
                                           price |-> m.price, qty |-> q])
              /\ taker' = [taker EXCEPT !.qty = @ - q]
              /\ resting' = (resting \ {m}) \cup
                    (IF m.qty = q THEN {} ELSE {[m EXCEPT !.qty = @ - q]})
    /\ UNCHANGED <<arrivals, stranded, ranks>>

\* Self-trade prevention: the newest order gives up what is left of it when
\* its own user holds the priority on the other side.
Forfeit ==
    /\ taker # NoOrder
    /\ taker.qty > 0
    /\ \E m \in resting : HasPriority(m, taker) /\ m.user = taker.user
    /\ taker' = [taker EXCEPT !.qty = 0]
    /\ UNCHANGED <<arrivals, resting, stranded, ranks, trades>>

\* A limit order rests only when no resting order crosses it, whoever owns it.
Rest ==
    /\ taker # NoOrder
    /\ taker.qty > 0
    /\ taker.type = "LIMIT"
    /\ \A m \in Opponents(taker) : ~Accepts(taker, m)
    /\ resting' = resting \cup {taker}
    /\ taker' = NoOrder
    /\ UNCHANGED <<arrivals, stranded, ranks, trades>>

\* The order is complete: filled, given up, or a market order that has
\* emptied the other side.
Done ==
    /\ taker # NoOrder
    /\ \/ taker.qty = 0
       \/ taker.type = "MARKET" /\ Opponents(taker) = {}
    /\ taker' = NoOrder
    /\ UNCHANGED <<arrivals, resting, stranded, ranks, trades>>

Withdraw ==
    /\ taker = NoOrder
    /\ \E m \in resting : resting' = resting \ {m}
    /\ UNCHANGED <<arrivals, stranded, ranks, taker, trades>>

\* A new leader takes over everything that is active.
TakeOver ==
    /\ taker = NoOrder
    /\ resting' = resting \cup stranded
    /\ stranded' = {}
    /\ rebuilt' = arrivals
    /\ UNCHANGED <<arrivals, createdAt, taker, trades>>

\* A new leader takes over nothing.
StartEmpty ==
    /\ taker = NoOrder
    /\ resting' = {}
    /\ stranded' = resting \cup stranded
    /\ UNCHANGED <<arrivals, ranks, taker, trades>>

Next ==
    \/ Submit \/ Trading \/ Forfeit \/ Rest \/ Done \/ Withdraw
    \/ TakeOver \/ StartEmpty

Spec == Init /\ [][Next]_absVars
=============================================================================
