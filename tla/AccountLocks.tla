---------------------------- MODULE AccountLocks ----------------------------
(***************************************************************************)
(* The row locks of the order-service's transactions (internal/order/service.go, *)
(* internal/order/event_subscribers.go, internal/order/account_service.go,         *)
(* internal/repository). PostgreSQL holds the lock of a row from the statement that  *)
(* reads it FOR UPDATE or changes it until the transaction ends, and a statement       *)
(* that needs a locked row waits. What the transactions do to the rows is the subject    *)
(* of OrderService, where each is one step.                                                *)
(*                                                                           *)
(* Rows that a transaction inserts are seen by nobody else and left out, as is the row of     *)
(* the fencing token: settlements share its lock and take it first.                            *)
(* Its specification is named LockSpec, so that a module can extend this one and another.      *)
(***************************************************************************)
EXTENDS Integers, Sequences, FiniteSets

CONSTANTS
    Connections, \* the connections to the database, each with a transaction or idle
    NumOrders,   \* orders are numbered in the order of their ids
    NumUsers,    \* and so are users
    Owner        \* Owner[o]: the user of order o

OrderIds == 1..NumOrders
Users == 1..NumUsers

ASSUME LocksAssumption ==
    /\ NumOrders \in Nat
    /\ NumUsers \in Nat
    /\ Owner \in [OrderIds -> Users]

\* "BTC" comes before "USD".
Base == 1
Quote == 2
Currencies == {Base, Quote}
NoCurrency == 0

AccountRow(u, c) == <<u, c>>
OrderRow(o) == <<o, NoCurrency>>
AccountRows == Users \X Currencies
OrderRowsOf(ids) == ids \X {NoCurrency}
AccountsOf(ids) == {Owner[o] : o \in ids} \X Currencies
OrderRows == OrderRowsOf(OrderIds)
Rows == OrderRows \cup AccountRows

\* Orders before accounts; orders by id, accounts by user and then by currency.
Before(x, y) ==
    \/ x \in OrderRows /\ y \in AccountRows
    \/ /\ x \in OrderRows <=> y \in OrderRows
       /\ x[1] < y[1] \/ (x[1] = y[1] /\ x[2] < y[2])

VARIABLES
    held, \* the rows that the transaction of a connection has locked
    todo  \* the rows it has yet to lock, in that order

lockVars == <<held, todo>>

LockInit ==
    /\ held = [c \in Connections |-> {}]
    /\ todo = [c \in Connections |-> <<>>]

Active(c) == held[c] # {} \/ todo[c] # <<>>

-----------------------------------------------------------------------------
(* The transactions: which rows, in which order *)

Begin(c, rows) ==
    /\ ~Active(c)
    /\ todo' = [todo EXCEPT ![c] = rows]
    /\ UNCHANGED held

\* Faulty: rows are locked in the order of a Go map.
InOrder_OfMap ==
    [S \in (SUBSET OrderRows) \cup (SUBSET AccountRows) |->
       {s \in [1..Cardinality(S) -> S] : \A i, j \in DOMAIN s : s[i] = s[j] => i = j}]

\* sort.Slice, and the loops that sort by swapping: the rows of one table in order.
InOrder ==
    [S \in (SUBSET OrderRows) \cup (SUBSET AccountRows) |->
       {s \in [1..Cardinality(S) -> S] :
          \A i, j \in DOMAIN s : i < j => Before(s[i], s[j])}]

\* LockFunds
PlaceOrder(c) == \E row \in AccountRows : Begin(c, <<row>>)

\* BatchLockFunds: users, then currencies, sorted.
BatchPlaceOrders(c) ==
    \E S \in SUBSET AccountRows : \E rows \in InOrder[S] : Begin(c, rows)

\* CancelOrder: the order FOR UPDATE
CancelOrder(c) == \E row \in OrderRows : Begin(c, <<row>>)

\* executeSettlementTx: the orders of the taker and the makers sorted by id, FOR UPDATE;
\* then those of their users' accounts that change, as aggregateAndSortAccountUpdates
\* sorts them.
Settle(c) ==
    \E ids \in (SUBSET OrderIds) \ {{}} : \E S \in SUBSET AccountsOf(ids) :
      \E first \in InOrder[OrderRowsOf(ids)], second \in InOrder[S] : Begin(c, first \o second)

\* handleOrderCanceled: the order, then the account its rest is locked in.
SettleCancel(c) ==
    \E o \in OrderIds, cur \in Currencies :
      Begin(c, <<OrderRow(o), AccountRow(Owner[o], cur)>>)

\* RechargeTestUser
Recharge(c) == \E u \in Users : Begin(c, <<AccountRow(u, Base), AccountRow(u, Quote)>>)

-----------------------------------------------------------------------------
Free(r) == \A c \in Connections : r \notin held[c]

\* The next statement gets its row.
Lock(c) ==
    /\ todo[c] # <<>>
    /\ Free(Head(todo[c]))
    /\ held' = [held EXCEPT ![c] = @ \cup {Head(todo[c])}]
    /\ todo' = [todo EXCEPT ![c] = Tail(@)]

\* COMMIT
Commit(c) ==
    /\ todo[c] = <<>>
    /\ held[c] # {}
    /\ held' = [held EXCEPT ![c] = {}]
    /\ UNCHANGED todo

\* A statement fails, a funds check refuses, the client goes away.
Rollback(c) ==
    /\ Active(c)
    /\ held' = [held EXCEPT ![c] = {}]
    /\ todo' = [todo EXCEPT ![c] = <<>>]

ApiStep(c) == PlaceOrder(c) \/ BatchPlaceOrders(c) \/ CancelOrder(c) \/ Recharge(c)
SettlementStep(c) == Settle(c) \/ SettleCancel(c)
DatabaseStep(c) == Lock(c) \/ Commit(c)

LockNext == \E c \in Connections :
          ApiStep(c) \/ SettlementStep(c) \/ DatabaseStep(c) \/ Rollback(c)

LockSpec == LockInit /\ [][LockNext]_lockVars

-----------------------------------------------------------------------------
(* Properties *)

\* Every variable has its type, and a row is locked by one transaction.
LockTypeOK ==
    /\ held \in [Connections -> SUBSET Rows]
    /\ todo \in [Connections -> Seq(Rows)]
    /\ \A c, d \in Connections : c # d => held[c] \cap held[d] = {}

WaitsFor(c, d) == c # d /\ todo[c] # <<>> /\ Head(todo[c]) \in held[d]

\* A transaction that has locked a row needs only later ones.
Ascending ==
    \A c \in Connections :
      /\ \A i, j \in DOMAIN todo[c] : i < j => Before(todo[c][i], todo[c][j])
      /\ \A row \in held[c] : \A i \in DOMAIN todo[c] : Before(row, todo[c][i])

\* Whatever transactions meet on the same orders and accounts, none wait for each other
\* in a circle: among any that are waiting, one waits for a transaction outside
\* (internal/order/event_subscribers.go:252-266, 475-505,
\* internal/repository/account_repository.go:68-118).
NoDeadlock ==
    \A S \in SUBSET Connections :
      S # {} => \E c \in S : \A d \in S : ~WaitsFor(c, d)
=============================================================================
