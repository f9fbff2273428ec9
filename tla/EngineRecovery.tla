--------------------------- MODULE EngineRecovery ---------------------------
(***************************************************************************)
(* What a change of leader does to orders in flight                            *)
(* (internal/matching/initializer.go, internal/matching/event_subscribers.go,   *)
(* cmd/matching-engine/main.go). A new leader rebuilds its book from the active  *)
(* rows of the database, or serves an empty one when that fails, and then        *)
(* consumes exchange.orders from the committed offset; settlements reach the     *)
(* rows later, through a topic of their own, and those of an older term are      *)
(* dropped. Records reach exchange.orders in any order: each is sent by a        *)
(* goroutine of its own or by the outbox worker.                                 *)
(*                                                                           *)
(* All orders have one price and different users, so the book is two queues and  *)
(* no order meets its own user's; matching is the subject of MatchingEngine,     *)
(* funds of OrderService, the lock and two instances at once of LeaderElection.  *)
(***************************************************************************)
EXTENDS Integers, Sequences, FiniteSets, SequencesExt

CONSTANTS
    OrderIds,      \* the orders clients place
    Requests,      \* what they may ask for: a set of [side, type, qty]
    Stamps,        \* the values of created_at
    MaxCancels,    \* bound on the cancellations clients ask for
    MaxTerm,       \* bound on the terms
    MaxDuplicates  \* bound on the records sent twice and the commits that fail

Sides == {"buy", "sell"}

ASSUME RequestsAssumption ==
    Requests \subseteq [side : Sides, type : {"limit", "market"}, qty : Nat \ {0}]
ASSUME StampsAssumption == Stamps \subseteq Nat
ASSUME BoundsAssumption ==
    MaxTerm \in Nat \ {0} /\ MaxCancels \in Nat /\ MaxDuplicates \in Nat

Opposite(side) == IF side = "buy" THEN "sell" ELSE "buy"
Open == {"new", "partially_filled"}

VARIABLES
    rows,       \* the table of orders: the request, filled and status of each
    created,    \* created_at of each order
    outbox,     \* the records of exchange.orders that are not sent yet
    trades,     \* the table of trades: the settlements that were written
    orders,     \* exchange.orders
    committed,  \* the offset of the consumer group
    pos,        \* the next record the leader's consumer hands to its handler
    book,       \* the resting orders of each side, the oldest first
    out,        \* the settlement the handler has to publish; none: <<>>
    handled,    \* the handler is done with the record, its offset not committed
    retries,    \* how often a commit has failed
    leader,     \* "serving", "leaving" (its token is zeroed) or "down"
    term,       \* the fencing token in the lock row, and of the newest leader
    settlements,\* exchange.settlements, what its consumer has not acknowledged
    matches,    \* how many matches have been made: gives trades their ids
    givenUp,    \* orders whose handler returned because of a cancelled context
    clean,      \* every record was sent once and handled once, by the leader it was sent to
    restored    \* the newest leader has read the active rows

dbVars == <<rows, created, trades, outbox>>
logVars == <<orders, committed>>
engineVars == <<pos, book, out, handled, retries, leader, term, matches>>
historyVars == <<givenUp, clean, restored>>
vars == <<dbVars, logVars, engineVars, settlements, historyVars>>

\* Its handler works on no record.
Idle == out = <<>> /\ ~handled

Init ==
    /\ rows = [o \in {} |-> {}]
    /\ created = [o \in {} |-> 0]
    /\ trades = {}
    /\ outbox = {}
    /\ orders = <<>>
    /\ committed = 1
    /\ pos = 1
    /\ book = [side \in Sides |-> <<>>]
    /\ out = <<>>
    /\ handled = FALSE
    /\ retries = 0
    /\ leader = "serving"
    /\ term = 1
    /\ settlements = <<>>
    /\ matches = 0
    /\ givenUp = {}
    /\ clean = TRUE
    /\ restored = TRUE

-----------------------------------------------------------------------------
(* The order-service: rows and records *)

Placed(o) == [kind |-> "placed", order |-> o]
Cancel(o) == [kind |-> "cancel", order |-> o]

\* The row and its event. The stamp is taken before the transaction, and the orders
\* of a batch share one: it says nothing of the order of the records.
PlaceOrder ==
    \E o \in OrderIds \ DOMAIN rows, r \in Requests, stamp \in Stamps :
      /\ rows' = [p \in DOMAIN rows \cup {o} |->
                    IF p = o THEN [req |-> r, filled |-> 0, status |-> "new"] ELSE rows[p]]
      /\ created' = [p \in DOMAIN rows \cup {o} |-> IF p = o THEN stamp ELSE created[p]]
      /\ outbox' = outbox \cup {Placed(o)}
      /\ UNCHANGED <<trades, logVars, engineVars, settlements, historyVars>>

\* One request is enough: the next finds the order gone.
CancelOrder ==
    \E o \in DOMAIN rows :
      /\ rows[o].status \in Open
      /\ Cancel(o) \notin outbox \cup ToSet(orders)
      /\ Cardinality({p \in DOMAIN rows : Cancel(p) \in outbox \cup ToSet(orders)}) < MaxCancels
      /\ outbox' = outbox \cup {Cancel(o)}
      /\ UNCHANGED <<rows, created, trades, logVars, engineVars, settlements, historyVars>>

\* The hot path of an event or the worker publishes it, whichever event is first.
Send ==
    \E record \in outbox :
      /\ orders' = Append(orders, record)
      /\ outbox' = outbox \ {record}
      /\ UNCHANGED <<rows, created, trades, committed, engineVars, settlements, historyVars>>

Repeats == Len(orders) - Cardinality(ToSet(orders)) + retries

\* The hot path and the worker both publish an event, or one of them twice.
Duplicate ==
    /\ Repeats < MaxDuplicates
    /\ \E record \in ToSet(orders) : orders' = Append(orders, record)
    /\ clean' = FALSE
    /\ UNCHANGED <<dbVars, committed, engineVars, settlements, givenUp, restored>>

-----------------------------------------------------------------------------
(* The handler of the leader's consumer *)

Record == orders[pos]

\* A record for a leader that serves and has finished the one before.
Ready(kind) ==
    /\ leader = "serving"
    /\ Idle
    /\ pos <= Len(orders)
    /\ Record.kind = kind

\* What the first k orders of a queue have left, together.
Depth(queue) == [k \in 0..Len(queue) |->
    SumFunctionOnSet([j \in DOMAIN queue |-> queue[j].qty], 1..k)]

Smaller(a, b) == IF a < b THEN a ELSE b

\* The loop ends before the k-th order.
Satisfied(queue, k, qty) == \E j \in 0..(k-1) : Depth(queue)[j] >= qty

\* What an order of quantity qty takes from the k-th order of a queue. An order that
\* was filled beyond its quantity may have been restored with a negative one.
Taken(queue, k, qty) ==
    IF Satisfied(queue, k, qty) THEN 0
    ELSE Smaller(queue[k].qty, qty - Depth(queue)[k-1])

\* The elements of s at the positions of K, in the same order.
Kept(s, K) ==
    LET kept[k \in 0..Len(s)] ==
          IF k = 0 THEN <<>> ELSE IF k \in K THEN Append(kept[k-1], s[k]) ELSE kept[k-1]
    IN kept[Len(s)]

\* Faulty: makers that are used up stay in the queue.
Unmatched_KeepsEmpty(queue, qty) ==
    [k \in DOMAIN queue |-> [queue[k] EXCEPT !.qty = @ - Taken(queue, k, qty)]]

\* What stays of the queue, and what of the order.
Unmatched(queue, qty) ==
    Kept([k \in DOMAIN queue |-> [queue[k] EXCEPT !.qty = @ - Taken(queue, k, qty)]],
         {k \in DOMAIN queue : queue[k].qty # Taken(queue, k, qty)})
Left(queue, qty) ==
    IF Satisfied(queue, Len(queue) + 1, qty) THEN 0 ELSE qty - Depth(queue)[Len(queue)]

\* How much each maker gives; a maker that is in the queue twice gives twice.
FillOf(queue, qty, m) ==
    SumFunctionOnSet([k \in DOMAIN queue |-> Taken(queue, k, qty)],
                     {k \in DOMAIN queue : queue[k].id = m})
Fills(queue, qty) ==
    [m \in {queue[k].id : k \in {j \in DOMAIN queue : Taken(queue, j, qty) # 0}} |->
       FillOf(queue, qty, m)]

Settlement(o, fills, left) ==
    [kind |-> "settle", id |-> matches + 1, taker |-> o, fills |-> fills, left |-> left,
     token |-> term]

\* handleOrderPlaced up to the loop that publishes: match, rest, build the event.
HandlePlaced ==
    /\ Ready("placed")
    /\ LET o == Record.order
           r == rows[o].req
           side == Opposite(r.side)
           left == Left(book[side], r.qty)
           fills == Fills(book[side], r.qty)
       IN
       /\ book' = [s \in Sides |->
            IF s = side THEN Unmatched(book[side], r.qty)
            ELSE IF left > 0 /\ r.type = "limit" THEN Append(book[s], [id |-> o, qty |-> left])
            ELSE book[s]]
       /\ IF DOMAIN fills # {} \/ r.type = "market"
          THEN /\ out' = <<Settlement(o, fills, left)>>
               /\ handled' = FALSE
          ELSE /\ out' = <<>>
               /\ handled' = TRUE
    /\ matches' = matches + 1
    /\ UNCHANGED <<dbVars, logVars, pos, retries, leader, term, settlements, historyVars>>

\* The oldest entry of an order, or 0.
EntryOf(queue, o) == SelectInSeq(queue, LAMBDA entry : entry.id = o)

\* handleOrderCancelRequested; nothing is published for an order not in the book.
HandleCancel ==
    /\ Ready("cancel")
    /\ LET o == Record.order
           side == rows[o].req.side
           k == EntryOf(book[side], o)
       IN IF k # 0
          THEN /\ book' = [book EXCEPT ![side] = RemoveAt(@, k)]
               /\ out' = <<[kind |-> "canceled", order |-> o, token |-> term]>>
               /\ handled' = FALSE
          ELSE /\ handled' = TRUE
               /\ UNCHANGED <<book, out>>
    /\ UNCHANGED <<dbVars, logVars, pos, retries, leader, term, settlements, matches,
                   historyVars>>

\* The publish that succeeds. A leader that was deposed between matching and
\* building the event has read the token 0.
Publish ==
    /\ out # <<>>
    /\ leader # "down"
    /\ \E token \in {out[1].token} \cup (IF leader = "leaving" THEN {0} ELSE {}) :
         settlements' = Append(settlements, [out[1] EXCEPT !.token = token])
    /\ out' = <<>>
    /\ handled' = TRUE
    /\ UNCHANGED <<dbVars, logVars, pos, book, retries, leader, term, matches, historyVars>>

\* CommitRecords
CommitOffset ==
    /\ handled
    /\ leader # "down"
    /\ committed' = pos + 1
    /\ pos' = pos + 1
    /\ handled' = FALSE
    /\ UNCHANGED <<dbVars, orders, book, out, retries, leader, term, settlements, matches,
                   historyVars>>

\* CommitRecords fails: the handler is called with the record once more.
CommitFails ==
    /\ handled
    /\ leader # "down"
    /\ Repeats < MaxDuplicates
    /\ retries' = retries + 1
    /\ handled' = FALSE
    /\ clean' = FALSE
    /\ UNCHANGED <<dbVars, logVars, pos, book, out, leader, term, settlements, matches,
                   givenUp, restored>>

-----------------------------------------------------------------------------
(* A change of leader *)

\* onLoseLeadership: SetFencingToken(0)
StepDown ==
    /\ leader = "serving"
    /\ leader' = "leaving"
    /\ UNCHANGED <<dbVars, logVars, pos, book, out, handled, retries, term, settlements,
                   matches, historyVars>>

\* HandleEvents without a token returns nil, and the record counts as handled.
SkipRecord ==
    /\ leader = "leaving"
    /\ Idle
    /\ pos <= Len(orders)
    /\ handled' = TRUE
    /\ clean' = FALSE
    /\ UNCHANGED <<dbVars, logVars, pos, book, out, retries, leader, term, settlements,
                   matches, givenUp, restored>>

\* The consumer's context is cancelled: a handler that could not publish returns
\* the error, nothing is committed for it.
CancelConsumer ==
    /\ leader = "leaving"
    /\ leader' = "down"
    /\ givenUp' = givenUp \cup {o \in DOMAIN rows : out # <<>> /\ Record.order = o}
    /\ out' = <<>>
    /\ handled' = FALSE
    /\ UNCHANGED <<dbVars, logVars, pos, book, retries, term, settlements, matches, clean,
                   restored>>

Crash ==
    /\ leader # "down"
    /\ leader' = "down"
    /\ out' = <<>>
    /\ handled' = FALSE
    /\ UNCHANGED <<dbVars, logVars, pos, book, retries, term, settlements, matches, historyVars>>

\* GetActiveOrders
Active(o) == rows[o].status \in Open /\ rows[o].req.type = "limit"

\* Faulty: the order comes back with its whole quantity.
Restored_Whole(o) == [id |-> o, qty |-> rows[o].req.qty]

\* RestoreEngineSnapshot
Restored(o) == [id |-> o, qty |-> rows[o].req.qty - rows[o].filled]

ActiveOf(side) == {o \in DOMAIN rows : Active(o) /\ rows[o].req.side = side}

\* The orders of S, ORDER BY created_at ASC; those of one stamp in any order.
InOrder(S) == {ids \in Bijection(1..Cardinality(S), S) :
                 \A j, k \in DOMAIN ids : j < k => created[ids[j]] <= created[ids[k]]}

\* Reset, then RestoreEngineSnapshot.
RestoreBook ==
    \E ids \in [Sides -> UNION {InOrder(ActiveOf(side)) : side \in Sides}] :
      /\ \A side \in Sides : ids[side] \in InOrder(ActiveOf(side))
      /\ book' = [side \in Sides |-> [k \in DOMAIN ids[side] |-> Restored(ids[side][k])]]

\* GetActiveOrders fails: the error is logged, and the book stays as Reset left it.
RestoreFails == book' = [side \in Sides |-> <<>>]

\* The new leader's row: a larger token.
NewTerm == term + 1

\* No order waits to be sent.
AllSent == \A record \in outbox : record.kind # "placed"

\* The old leader has handled every order. Its settlements may still be on their way:
\* they will be dropped, and the book is restored without them.
AllHandled ==
    /\ AllSent
    /\ committed > Len(orders)
    /\ \A k \in DOMAIN settlements : settlements[k].token > 0

\* onBecomeLeader: the book from the database, the topic from the offset.
TakeOver ==
    /\ leader = "down"
    /\ term < MaxTerm
    /\ term' = NewTerm
    /\ leader' = "serving"
    /\ \/ RestoreBook /\ restored' = TRUE
       \/ RestoreFails /\ restored' = FALSE
    /\ pos' = committed
    /\ clean' = (clean /\ AllHandled)
    /\ UNCHANGED <<dbVars, logVars, out, handled, retries, settlements, matches, givenUp>>

-----------------------------------------------------------------------------
(* The settlement consumer of the order-service *)

Next1 == settlements[1]

\* ValidateFencingTokenTx; no check for an event without a token.
Stale(s) == s.token > 0 /\ s.token # term

\* Faulty: only the id of the first trade is looked up.
Settled_TradeOnly(s) == DOMAIN s.fills # {} /\ \E t \in trades : t.id = s.id

\* The taker is no longer NEW, or the first trade is in the table.
Settled(s) ==
    \/ rows[s.taker].status # "new"
    \/ DOMAIN s.fills # {} /\ \E t \in trades : t.id = s.id

Total(fills) == SumFunction(fills)

\* Faulty: what an order has filled is cut off at its quantity.
MakerRow_Capped(o, qty) ==
    [rows[o] EXCEPT !.filled = Smaller(@ + qty, rows[o].req.qty), !.status = "filled"]

MakerRow(o, qty) ==
    [rows[o] EXCEPT !.filled = @ + qty,
                    !.status = IF rows[o].filled + qty = rows[o].req.qty
                               THEN "filled" ELSE "partially_filled"]

TakerRow(s) ==
    LET row == rows[s.taker]
        filled == row.filled + Total(s.fills)
    IN [row EXCEPT !.filled = filled,
                   !.status = IF row.req.type = "market"
                              THEN IF filled = 0 THEN "canceled" ELSE "filled"
                              ELSE IF filled = row.req.qty THEN "filled"
                              ELSE IF s.left = 0 THEN "canceled"
                              ELSE IF filled > 0 THEN "partially_filled"
                              ELSE row.status]

\* The record may be delivered again: its offset is committed later.
Acknowledge == settlements' = Tail(settlements) \/ UNCHANGED settlements

\* Taker and maker are of different sides, so they are different rows.
Settle ==
    /\ settlements # <<>>
    /\ Next1.kind = "settle"
    /\ IF Stale(Next1) \/ Settled(Next1)
       THEN /\ settlements' = Tail(settlements)
            /\ UNCHANGED <<rows, trades>>
       ELSE /\ rows' = [o \in DOMAIN rows |->
                 IF o = Next1.taker THEN TakerRow(Next1)
                 ELSE IF o \in DOMAIN Next1.fills THEN MakerRow(o, Next1.fills[o])
                 ELSE rows[o]]
            /\ trades' = IF DOMAIN Next1.fills = {} THEN trades ELSE trades \cup {Next1}
            /\ Acknowledge
    /\ UNCHANGED <<created, outbox, logVars, engineVars, historyVars>>

\* handleOrderCanceled
SettleCancel ==
    /\ settlements # <<>>
    /\ Next1.kind = "canceled"
    /\ rows' = IF ~Stale(Next1) /\ rows[Next1.order].status \in Open
               THEN [rows EXCEPT ![Next1.order] = [@ EXCEPT !.status = "canceled"]]
               ELSE rows
    /\ Acknowledge
    /\ UNCHANGED <<created, trades, outbox, logVars, engineVars, historyVars>>

-----------------------------------------------------------------------------
ServiceStep == PlaceOrder \/ CancelOrder \/ Send \/ Duplicate
HandlerStep == HandlePlaced \/ HandleCancel \/ Publish \/ CommitOffset \/ CommitFails
LeaderStep == StepDown \/ SkipRecord \/ CancelConsumer \/ Crash \/ TakeOver
SettlementStep == Settle \/ SettleCancel

Next == ServiceStep \/ HandlerStep \/ LeaderStep \/ SettlementStep

Spec == Init /\ [][Next]_vars

-----------------------------------------------------------------------------
(* Properties *)

IsEvent(e) ==
    /\ e.kind \in {"settle", "canceled"}
    /\ e.token \in 0..term
    /\ e.kind = "canceled" => e.order \in DOMAIN rows
    /\ e.kind = "settle" =>
         /\ e.id \in 1..matches
         /\ e.taker \in DOMAIN rows
         /\ DOMAIN e.fills \subseteq DOMAIN rows \ {e.taker}
         /\ \A o \in DOMAIN e.fills : e.fills[o] \in Int
         /\ e.left \in Nat

\* Every variable has its type; no order in the book is used up, and no
\* taker is its own maker.
TypeOK ==
    /\ DOMAIN rows \subseteq OrderIds
    /\ \A o \in DOMAIN rows :
         rows[o] \in [req : Requests, filled : Int,
                      status : Open \cup {"filled", "canceled"}]
    /\ created \in [DOMAIN rows -> Stamps]
    /\ outbox \subseteq [kind : {"placed", "cancel"}, order : DOMAIN rows]
    /\ \A t \in trades : t.kind = "settle" /\ IsEvent(t)
    /\ orders \in Seq([kind : {"placed", "cancel"}, order : DOMAIN rows])
    /\ committed \in 1..pos /\ pos \in 1..(Len(orders) + 1)
    /\ book \in [Sides -> Seq([id : DOMAIN rows, qty : Int])]
    /\ \A side \in Sides : \A k \in DOMAIN book[side] : book[side][k].qty # 0
    /\ Len(out) <= 1 /\ \A k \in DOMAIN out : IsEvent(out[k])
    /\ \A k \in DOMAIN settlements : IsEvent(settlements[k])
    /\ handled \in BOOLEAN /\ clean \in BOOLEAN /\ restored \in BOOLEAN
    /\ retries \in 0..MaxDuplicates
    /\ leader \in {"serving", "leaving", "down"}
    /\ term \in 1..MaxTerm /\ matches \in Nat
    /\ givenUp \subseteq DOMAIN rows

\* An order is the taker of one settlement with trades at most, although its event
\* may be sent twice, matched again by the next leader, and settled twice
\* (internal/order/event_subscribers.go:98-137, 285-297). The status decides, and it
\* leaves NEW only if something was filled: a book restored from an overfilled row
\* makes trades of negative quantity, after which nothing is claimed.
TakesOnce ==
    (\A t \in trades : \A m \in DOMAIN t.fills : t.fills[m] > 0)
      => \A t, u \in trades : t.taker = u.taker => t = u

TradedBy(o) ==
    SumFunction([t \in trades |-> (IF t.taker = o THEN Total(t.fills) ELSE 0)
                                  + (IF o \in DOMAIN t.fills THEN t.fills[o] ELSE 0)])

\* What a row says is filled is what the trades say, whatever leaders come and go
\* (internal/order/event_subscribers.go:299-376).
FilledMatchesTrades == \A o \in DOMAIN rows : rows[o].filled = TradedBy(o)

NotOverfilled(o) == rows[o].filled <= rows[o].req.qty

\* Its places in the book.
Copies(o) == UNION {{<<side, k>> : k \in {j \in DOMAIN book[side] : book[side][j].id = o}} :
                      side \in Sides}

\* Every order was handled, and every settlement written or dropped.
Quiescent ==
    /\ leader = "serving"
    /\ Idle
    /\ AllSent
    /\ pos > Len(orders)
    /\ settlements = <<>>

\* When no record was sent twice or skipped and every leader left no order behind,
\* orders are filled up to their quantity and are in the book once, although
\* settlements may be in flight when the leader changes, and leaders may serve without
\* having restored a book. The book at rest of a leader that has restored one holds
\* the open orders with what they have left, and no other
\* (internal/matching/initializer.go:15-50, internal/order/event_subscribers.go:235-250,
\* cmd/matching-engine/main.go:127-129).
CleanHandoversSafe ==
    clean =>
      /\ \A o \in DOMAIN rows : NotOverfilled(o) /\ Cardinality(Copies(o)) <= 1
      /\ Quiescent /\ restored =>
           \A side \in Sides :
             ToSet(book[side]) = {Restored(o) : o \in ActiveOf(side)}

\* internal/matching/event_subscribers.go:129-130 says of a handler that gives up
\* when its context is cancelled: its offset is not committed, and after the restart
\* the engine is restored from the database, which is entirely safe. The order is
\* restored, and its record delivered again.
GivingUpIsSafe == \A o \in givenUp : NotOverfilled(o)
=============================================================================
