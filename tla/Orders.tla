------------------------------- MODULE Orders -------------------------------
(***************************************************************************)
(* The data of the matching engine (internal/matching/engine/types.go): an  *)
(* order as the engine sees it, a trade, and the comparisons on prices.     *)
(* Decimal prices and quantities are naturals: the engine only compares,    *)
(* adds and subtracts them, and a scaled decimal behaves as an integer.     *)
(***************************************************************************)
EXTENDS Naturals

CONSTANTS
    Users,    \* the owners of orders
    Prices,   \* the prices a limit order may carry
    MaxQty,   \* the largest quantity a client submits
    NoOrder   \* "no order": the engine's mutex is free

ASSUME PricesAssumption == Prices \subseteq Nat \ {0}
ASSUME MaxQtyAssumption == MaxQty \in Nat \ {0}

Sides == {"BUY", "SELL"}
Types == {"LIMIT", "MARKET"}

Opposite(side) == IF side = "BUY" THEN "SELL" ELSE "BUY"

\* An engine order. Ids number the orders in the order the engine receives
\* them, so a smaller id is an earlier arrival.
Order == [id : Nat \ {0}, user : Users, side : Sides, type : Types,
          price : Nat, qty : Nat]

ASSUME NoOrderAssumption == NoOrder \notin Order

\* The orders a client can submit: a limit order carries a price, a market
\* order carries none (decimal.Zero), and validation requires a positive
\* quantity.
NewOrder(id) ==
    [id : {id}, user : Users, side : Sides, type : {"LIMIT"},
     price : Prices, qty : 1..MaxQty]
NewMarketOrder(id) ==
    [id : {id}, user : Users, side : Sides, type : {"MARKET"},
     price : {0}, qty : 1..MaxQty]

Trade == [maker : Order, taker : Order, price : Nat, qty : Nat]

\* On one side of the book, price p is served before price q or together
\* with it: the highest bid and the lowest ask come first.
NotWorse(side, p, q) == IF side = "BUY" THEN p >= q ELSE p <= q

\* The incoming order t accepts the price of the resting order m. A market
\* order accepts every price.
Accepts(t, m) ==
    \/ t.type = "MARKET"
    \/ NotWorse(t.side, t.price, m.price)

\* Faulty: the larger of the two quantities trades.
MinQty_Larger(p, q) == IF p <= q THEN q ELSE p

\* matchQty
MinQty(p, q) == IF p <= q THEN p ELSE q
=============================================================================
