-------------------------- MODULE MCEngineRecovery --------------------------
EXTENDS EngineRecovery, TLC

CONSTANTS o1, o2, o3

TwoOrders == {o1, o2}
ThreeOrders == {o1, o2, o3}
Symmetry == Permutations(OrderIds)

Limit(side, qty) == [side |-> side, type |-> "limit", qty |-> qty]

\* The configurations have one value of created_at: orders of one stamp are restored in
\* any order, and nothing else looks at it.

\* An order that fills in part and rests, makers that are smaller than the taker.
LimitRequests == {Limit("sell", 1), Limit("buy", 2)}
MCRequests == LimitRequests \cup {[side |-> "buy", type |-> "market", qty |-> 2]}
=============================================================================
