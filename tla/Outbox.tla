------------------------------- MODULE Outbox -------------------------------
(***************************************************************************)
(* The two ways of an event from the order-service's database to               *)
(* exchange.orders (internal/order/service.go, internal/infrastructure/outbox). *)
(* The transaction that places or cancels an order inserts a row. After its      *)
(* commit a goroutine publishes the event at once (the hot path) and reports its *)
(* id to a goroutine that deletes rows in batches; a worker polls for rows older *)
(* than a grace period, publishes them and deletes them in one transaction.      *)
(*                                                                           *)
(* The grace period makes it unlikely that a worker meets a row whose hot path   *)
(* still runs, and no code excludes it, so a row may come of age at any time.     *)
(* Funds and orders are the subject of OrderService.                              *)
(***************************************************************************)
EXTENDS Naturals, Sequences, FiniteSets

CONSTANTS
    Services,  \* the instances of the order-service
    OrderIds,  \* the orders clients place
    BatchSize, \* LIMIT of FetchPending
    ChanSize,  \* capacity of publishedMsgChan
    MaxEvents  \* bound on the events committed

ASSUME BatchSizeAssumption == BatchSize \in Nat \ {0}
ASSUME ChanSizeAssumption == ChanSize \in Nat
ASSUME MaxEventsAssumption == MaxEvents \in Nat

Placed(o) == [kind |-> "placed", order |-> o]
CancelRequested(o) == [kind |-> "cancel", order |-> o]
Messages == [kind : {"placed", "cancel"}, order : OrderIds]

VARIABLES
    now,       \* how many transactions have committed
    stamp,     \* created_at of a message: the number of its transaction, 0 before
    aged,      \* rows up to this created_at have passed the grace period
    rows,      \* outbox_messages
    topic,     \* exchange.orders: its messages in the order they first arrived
    hot,       \* messages whose hot path goroutine runs, per service
    published, \* publishedMsgChan
    batch,     \* what batchMarkPublishedWorker has taken from it
    todo,      \* the Worker's transaction: the fetched messages still to publish,
    done,      \* those it has published,
    failed     \* and those it could not publish

dbVars == <<now, stamp, aged, rows>>
hotVars == <<hot, published, batch>>
workerVars == <<todo, done, failed>>
vars == <<dbVars, topic, hotVars, workerVars>>

Committed == {m \in Messages : stamp[m] # 0}
InTopic(m) == \E k \in DOMAIN topic : topic[k] = m

\* The rows locked by the transaction of p's worker; none, when it has none.
Held(p) == todo[p] \cup done[p] \cup failed[p]

\* That transaction ends and its locks go.
Release(p) ==
    /\ todo' = [todo EXCEPT ![p] = {}]
    /\ done' = [done EXCEPT ![p] = {}]
    /\ failed' = [failed EXCEPT ![p] = {}]

Init ==
    /\ now = 0
    /\ stamp = [m \in Messages |-> 0]
    /\ aged = 0
    /\ rows = {}
    /\ topic = <<>>
    /\ hot = [p \in Services |-> {}]
    /\ published = [p \in Services |-> {}]
    /\ batch = [p \in Services |-> {}]
    /\ todo = [p \in Services |-> {}]
    /\ done = [p \in Services |-> {}]
    /\ failed = [p \in Services |-> {}]

-----------------------------------------------------------------------------
(* The transactions of the API *)

\* Faulty: the events are published without being stored first.
RowsWith_HotOnly(S) == rows

\* Insert, BatchInsert
RowsWith(S) == rows \cup S

\* The events of S are inserted in one transaction, with one created_at, and
\* their hot paths start.
Commit(p, S) ==
    /\ S \cap Committed = {}
    /\ Cardinality(Committed) + Cardinality(S) <= MaxEvents
    /\ now' = now + 1
    /\ stamp' = [m \in Messages |-> IF m \in S THEN now' ELSE stamp[m]]
    /\ rows' = RowsWith(S)
    /\ hot' = [hot EXCEPT ![p] = @ \cup S]
    /\ UNCHANGED <<aged, topic, published, batch, workerVars>>

PlaceOrder(p) == \E o \in OrderIds : Commit(p, {Placed(o)})

BatchPlaceOrders(p) ==
    \E O \in SUBSET OrderIds :
      /\ Cardinality(O) > 1
      /\ Commit(p, {Placed(o) : o \in O})

\* Any instance may serve the request; the order is in the database.
CancelOrder(p) ==
    \E o \in OrderIds :
      /\ Placed(o) \in Committed
      /\ Commit(p, {CancelRequested(o)})

-----------------------------------------------------------------------------
(* The hot path *)

\* A record is appended to the topic; what matters of a duplicate is left to
\* the consumer.
Arrives(m) == topic' = IF InTopic(m) THEN topic ELSE Append(topic, m)

\* PublishRaw succeeds. A full channel drops the id.
HotPublish(p, m) ==
    /\ m \in hot[p]
    /\ hot' = [hot EXCEPT ![p] = @ \ {m}]
    /\ Arrives(m)
    /\ published' = IF Cardinality(published[p]) < ChanSize
                    THEN [published EXCEPT ![p] = @ \cup {m}] ELSE published
    /\ UNCHANGED <<dbVars, batch, workerVars>>

\* Faulty: a failed hot path reports its id all the same.
ReportedOnError_Always(p, m) == [published EXCEPT ![p] = @ \cup {m}]

\* The goroutine returns before it reports the id.
ReportedOnError(p, m) == published

\* PublishRaw fails or times out; the record may be in the topic nevertheless.
HotFails(p, m) ==
    /\ m \in hot[p]
    /\ hot' = [hot EXCEPT ![p] = @ \ {m}]
    /\ Arrives(m) \/ UNCHANGED topic
    /\ published' = ReportedOnError(p, m)
    /\ UNCHANGED <<dbVars, batch, workerVars>>

\* batchMarkPublishedWorker
Collect(p) ==
    /\ \E m \in published[p] :
         /\ published' = [published EXCEPT ![p] = @ \ {m}]
         /\ batch' = [batch EXCEPT ![p] = @ \cup {m}]
    /\ UNCHANGED <<dbVars, topic, hot, workerVars>>

\* DELETE waits for the transactions that hold the rows.
Flush(p) ==
    /\ batch[p] # {}
    /\ \A q \in Services : Held(q) \cap batch[p] = {}
    /\ rows' = rows \ batch[p]
    /\ batch' = [batch EXCEPT ![p] = {}]
    /\ UNCHANGED <<now, stamp, aged, topic, hot, published, workerVars>>

\* The DELETE fails or waits for too long: the ids are forgotten.
FlushFails(p) ==
    /\ batch[p] # {}
    /\ batch' = [batch EXCEPT ![p] = {}]
    /\ UNCHANGED <<dbVars, topic, hot, published, workerVars>>

-----------------------------------------------------------------------------
(* The worker *)

\* Faulty: the grace period is added to the present.
GracePasses_Added ==
    /\ aged <= now
    /\ aged' = aged + 1
    /\ UNCHANGED <<now, stamp, rows, topic, hotVars, workerVars>>

\* The threshold moves on: created_at <= now - gracePeriod.
GracePasses ==
    /\ aged < now
    /\ aged' = aged + 1
    /\ UNCHANGED <<now, stamp, rows, topic, hotVars, workerVars>>

\* Faulty: FOR UPDATE of a query that does not skip locked rows it has read.
Unlocked_Ignored(m) == TRUE

\* SKIP LOCKED
Unlocked(m) == \A q \in Services : m \notin Held(q)

Pending == {m \in rows : stamp[m] <= aged /\ Unlocked(m)}

\* ORDER BY created_at LIMIT BatchSize
OldestBatches ==
    {S \in SUBSET Pending :
       /\ Cardinality(S) <= BatchSize
       /\ Cardinality(S) = BatchSize \/ S = Pending
       /\ \A m \in S, n \in Pending \ S : stamp[m] <= stamp[n]}

\* A tick: FetchPending finds something.
Fetch(p) ==
    /\ Held(p) = {}
    /\ \E S \in OldestBatches \ {{}} :
         todo' = [todo EXCEPT ![p] = S]
    /\ UNCHANGED <<dbVars, topic, hotVars, done, failed>>

\* The loop takes the messages of the batch in the order of created_at.
NextOf(p) == {m \in todo[p] : \A n \in todo[p] : stamp[m] <= stamp[n]}

Publish(p, m) ==
    /\ m \in NextOf(p)
    /\ Arrives(m)
    /\ todo' = [todo EXCEPT ![p] = @ \ {m}]
    /\ done' = [done EXCEPT ![p] = @ \cup {m}]
    /\ UNCHANGED <<dbVars, hotVars, failed>>

\* IncrementRetry; the loop continues with the next message.
PublishFails(p, m) ==
    /\ m \in NextOf(p)
    /\ Arrives(m) \/ UNCHANGED topic
    /\ todo' = [todo EXCEPT ![p] = @ \ {m}]
    /\ failed' = [failed EXCEPT ![p] = @ \cup {m}]
    /\ UNCHANGED <<dbVars, hotVars, done>>

\* Faulty: published rows are marked and stay pending.
Deleted_Nothing(p) == {}

\* MarkPublishedBatch(successfulIDs)
Deleted(p) == done[p]

CommitBatch(p) ==
    /\ Held(p) # {}
    /\ todo[p] = {}
    /\ rows' = rows \ Deleted(p)
    /\ Release(p)
    /\ UNCHANGED <<now, stamp, aged, topic, hotVars>>

\* A query or the commit fails: nothing was deleted, everything is unlocked.
Rollback(p) ==
    /\ Held(p) # {}
    /\ Release(p)
    /\ UNCHANGED <<dbVars, topic, hotVars>>

\* The process ends and another one starts in its place.
Crash(p) ==
    /\ hot' = [hot EXCEPT ![p] = {}]
    /\ published' = [published EXCEPT ![p] = {}]
    /\ batch' = [batch EXCEPT ![p] = {}]
    /\ Release(p)
    /\ UNCHANGED <<dbVars, topic>>

-----------------------------------------------------------------------------
ApiStep(p) == PlaceOrder(p) \/ BatchPlaceOrders(p) \/ CancelOrder(p)

HotStep(p) ==
    \/ \E m \in Messages : HotPublish(p, m) \/ HotFails(p, m)
    \/ Collect(p)
    \/ Flush(p)
    \/ FlushFails(p)

\* A step of the worker in which nothing fails.
Works(p) ==
    \/ Fetch(p)
    \/ \E m \in Messages : Publish(p, m)
    \/ CommitBatch(p)

WorkerFails(p) == Rollback(p) \/ \E m \in Messages : PublishFails(p, m)

Next ==
    \/ GracePasses
    \/ \E p \in Services :
         ApiStep(p) \/ HotStep(p) \/ Works(p) \/ WorkerFails(p) \/ Crash(p)

Spec == Init /\ [][Next]_vars

\* Time passes, the workers run, and from some time on no batch of theirs is
\* disturbed any more: an outage of Kafka or of the database ends. Nothing is
\* assumed of the hot path, whose goroutines may all fail.
Fairness ==
    /\ WF_vars(GracePasses)
    /\ \A p \in Services : WF_vars(Works(p))
    /\ <>[][\E p \in Services : Works(p)]_workerVars

FairSpec == Spec /\ Fairness

-----------------------------------------------------------------------------
(* Properties *)

TypeOK ==
    /\ now \in Nat
    /\ stamp \in [Messages -> 0..now]
    /\ aged \in 0..now
    /\ rows \subseteq Messages
    /\ topic \in Seq(Messages)
    /\ hot \in [Services -> SUBSET Messages]
    /\ published \in [Services -> SUBSET Messages]
    /\ batch \in [Services -> SUBSET Messages]
    /\ todo \in [Services -> SUBSET Messages]
    /\ done \in [Services -> SUBSET Messages]
    /\ failed \in [Services -> SUBSET Messages]

\* worker.go: no event is lost, though either path may fail at any point. Only
\* a row whose event is in the topic is deleted, by whichever of the two
\* deletions comes first.
NothingLost == \A m \in Committed : m \in rows \/ InTopic(m)

\* SKIP LOCKED: two workers never hold the same row, and what a worker holds is
\* not deleted under its hands by a hot path.
HeldOnce ==
    \A p \in Services :
      /\ Held(p) \subseteq rows
      /\ \A q \in Services \ {p} : Held(p) \cap Held(q) = {}

\* Both paths together implement the log that forgets nothing.
Log == INSTANCE ReliableLog WITH committed <- Committed
ImplementsLog == Log!Spec

\* The rows of published events go away: the backlog drains.
Drains == \A m \in Messages : m \in rows ~> m \notin rows

\* events.go: the consumer sees an order before the request to cancel it.
PlacedBeforeCancel ==
    \A k \in DOMAIN topic : topic[k].kind = "cancel" =>
      \E j \in 1..(k - 1) : topic[j] = Placed(topic[k].order)
=============================================================================
