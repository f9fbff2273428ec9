---------------------------- MODULE OutboxProofs ----------------------------
(***************************************************************************)
(* Proofs about Outbox, for any services, orders and limits. The inductive    *)
(* invariant is OutboxInv: a deletion is only as good as what the deleter      *)
(* knows, so PathInv says what it means for an id to be reported or done.       *)
(***************************************************************************)
EXTENDS Outbox, FiniteSetTheorems, TLAPS

\* Whatever a path is about to publish has been committed; whatever a deletion
\* is based on is in the topic.
PathInv ==
  /\ rows \subseteq Committed
  /\ \A p \in Services : hot[p] \subseteq Committed
  /\ \A p \in Services : \A m \in published[p] : InTopic(m)
  /\ \A p \in Services : \A m \in batch[p] : InTopic(m)
  /\ \A p \in Services : \A m \in done[p] : InTopic(m)

OutboxInv == TypeOK /\ PathInv /\ NothingLost /\ HeldOnce

-----------------------------------------------------------------------------
(* Lemmas *)

\* A record that arrives is in the topic from then on, with all the others.
LEMMA ArrivesKeeps ==
  ASSUME topic \in Seq(Messages), NEW m \in Messages, Arrives(m)
  PROVE  /\ topic' \in Seq(Messages)
         /\ InTopic(m)'
         /\ \A n : InTopic(n) => InTopic(n)'
<1>1. CASE InTopic(m)
  BY <1>1 DEF Arrives, InTopic
<1>2. CASE ~InTopic(m)
  <2>1. topic' = Append(topic, m)
    BY <1>2 DEF Arrives
  <2>2. /\ topic' \in Seq(Messages)
        /\ Len(topic) \in Nat
        /\ DOMAIN topic = 1..Len(topic)
        /\ DOMAIN topic' = 1..(Len(topic) + 1)
        /\ \A k \in 1..Len(topic) : topic'[k] = topic[k]
        /\ topic'[Len(topic) + 1] = m
    BY <2>1
  <2>3. QED
    BY <2>2 DEF InTopic
<1>3. QED
  BY <1>1, <1>2

\* The same when the record may or may not arrive.
LEMMA MayArriveKeeps ==
  ASSUME topic \in Seq(Messages), NEW m \in Messages, Arrives(m) \/ UNCHANGED topic
  PROVE  /\ topic' \in Seq(Messages)
         /\ \A n : InTopic(n) => InTopic(n)'
<1>1. CASE Arrives(m)
  BY <1>1, ArrivesKeeps
<1>2. CASE UNCHANGED topic
  BY <1>2 DEF InTopic
<1>3. QED
  BY <1>1, <1>2

\* The events of the API are messages.
LEMMA ApiMessages ==
  /\ \A o \in OrderIds : Placed(o) \in Messages /\ CancelRequested(o) \in Messages
BY DEF Placed, CancelRequested, Messages

\* Every API step commits a set of new messages.
LEMMA ApiCommits ==
  ASSUME NEW p \in Services, ApiStep(p)
  PROVE  \E S \in SUBSET Messages : S # {} /\ Commit(p, S)
<1>1. CASE PlaceOrder(p)
  BY <1>1, ApiMessages DEF PlaceOrder
<1>2. CASE BatchPlaceOrders(p)
  <2>1. PICK O \in SUBSET OrderIds : Cardinality(O) > 1 /\ Commit(p, {Placed(o) : o \in O})
    BY <1>2 DEF BatchPlaceOrders
  <2>2. O # {}
    BY <2>1, FS_EmptySet
  <2>3. QED
    BY <2>1, <2>2, ApiMessages
<1>3. CASE CancelOrder(p)
  BY <1>3, ApiMessages DEF CancelOrder
<1>4. QED
  BY <1>1, <1>2, <1>3 DEF ApiStep

-----------------------------------------------------------------------------
(* The invariant *)

LEMMA InitInv == Init => OutboxInv
BY DEF Init, OutboxInv, TypeOK, PathInv, NothingLost, HeldOnce, Committed, InTopic, Held

\* A transaction of the API: the new events are in rows and nowhere else.
LEMMA CommitInv ==
  ASSUME OutboxInv, NEW p \in Services, NEW S \in SUBSET Messages, Commit(p, S)
  PROVE  OutboxInv'
<1> USE DEF OutboxInv, Commit, RowsWith, workerVars
<1>1. TypeOK'
  BY DEF TypeOK
<1>2. Committed' = Committed \cup S
  BY DEF TypeOK, Committed
<1>3. PathInv'
  BY <1>2 DEF PathInv, TypeOK, InTopic
<1>4. NothingLost'
  BY <1>2 DEF NothingLost, InTopic
<1>5. HeldOnce'
  BY DEF HeldOnce, Held
<1>6. QED
  BY <1>1, <1>3, <1>4, <1>5

\* Steps of the hot path that may append to the topic.
LEMMA HotInv ==
  ASSUME OutboxInv, NEW p \in Services, NEW m \in Messages, HotPublish(p, m) \/ HotFails(p, m)
  PROVE  OutboxInv'
<1> USE DEF OutboxInv
<1>1. /\ UNCHANGED <<now, stamp, aged, rows, batch, todo, done, failed>>
      /\ hot' = [hot EXCEPT ![p] = @ \ {m}]
  BY DEF HotPublish, HotFails, dbVars, workerVars
<1>2. topic' \in Seq(Messages) /\ \A n : InTopic(n) => InTopic(n)'
  BY ArrivesKeeps, MayArriveKeeps DEF HotPublish, HotFails, TypeOK
<1>3. \/ published' = published
      \/ published' = [published EXCEPT ![p] = @ \cup {m}] /\ InTopic(m)'
  BY ArrivesKeeps DEF HotPublish, HotFails, ReportedOnError, TypeOK
<1>t. published \in [Services -> SUBSET Messages] /\ hot \in [Services -> SUBSET Messages]
  BY DEF TypeOK
<1>4. TypeOK'
  <2>1. hot' \in [Services -> SUBSET Messages]
    BY <1>1, <1>t
  <2>2. published' \in [Services -> SUBSET Messages]
    BY <1>3, <1>t
  <2>3. QED
    BY <1>1, <1>2, <2>1, <2>2 DEF TypeOK
<1>c. Committed' = Committed
  BY <1>1 DEF Committed
<1>5. PathInv'
  <2>1. \A q \in Services : hot'[q] \subseteq hot[q]
    BY <1>1, <1>t
  <2>2. \A q \in Services : \A n \in published'[q] : n \in published[q] \/ InTopic(n)'
    BY <1>3, <1>t
  <2>3. \A q \in Services : \A n \in published'[q] : InTopic(n)'
    BY <1>2, <2>2 DEF PathInv
  <2>4. QED
    BY <1>1, <1>2, <1>c, <2>1, <2>3 DEF PathInv
<1>6. NothingLost'
  BY <1>1, <1>2, <1>c DEF NothingLost
<1>7. HeldOnce'
  BY <1>1 DEF HeldOnce, Held
<1>8. QED
  BY <1>4, <1>5, <1>6, <1>7

\* The goroutine that deletes in batches.
LEMMA BatchInv ==
  ASSUME OutboxInv, NEW p \in Services, Collect(p) \/ Flush(p) \/ FlushFails(p)
  PROVE  OutboxInv'
<1> USE DEF OutboxInv
<1>1. CASE Collect(p)
  BY <1>1 DEF Collect, dbVars, workerVars, TypeOK, PathInv, NothingLost, HeldOnce, Held, Committed, InTopic
<1>2. CASE Flush(p)
  <2>1. TypeOK' /\ PathInv'
    BY <1>2 DEF Flush, workerVars, TypeOK, PathInv, Committed, InTopic
  <2>2. NothingLost'
    BY <1>2 DEF Flush, workerVars, PathInv, NothingLost, Committed, InTopic
  <2>3. HeldOnce'
    BY <1>2 DEF Flush, workerVars, HeldOnce, Held
  <2>4. QED
    BY <2>1, <2>2, <2>3
<1>3. CASE FlushFails(p)
  BY <1>3 DEF FlushFails, dbVars, workerVars, TypeOK, PathInv, NothingLost, HeldOnce, Held, Committed, InTopic
<1>4. QED
  BY <1>1, <1>2, <1>3

\* A worker locks rows that nobody holds.
LEMMA FetchInv ==
  ASSUME OutboxInv, NEW p \in Services, Fetch(p)
  PROVE  OutboxInv'
<1> USE DEF OutboxInv
<1>1. PICK S \in SUBSET Pending : todo' = [todo EXCEPT ![p] = S]
  BY DEF Fetch, OldestBatches
<1>2. UNCHANGED <<now, stamp, aged, rows, topic, hot, published, batch, done, failed>> /\ Held(p) = {}
  BY DEF Fetch, dbVars, hotVars
<1>3. S \subseteq rows /\ S \subseteq Messages /\ \A q \in Services : S \cap Held(q) = {}
  BY DEF Pending, Unlocked, TypeOK
<1>4. TypeOK'
  BY <1>1, <1>2, <1>3 DEF TypeOK
<1>5. PathInv' /\ NothingLost'
  <2>1. Committed' = Committed /\ \A m : InTopic(m)' <=> InTopic(m)
    BY <1>2 DEF Committed, InTopic
  <2>2. QED
    BY <1>2, <2>1 DEF PathInv, NothingLost
<1>6. Held(p)' = S /\ \A q \in Services \ {p} : Held(q)' = Held(q)
  BY <1>1, <1>2 DEF Held, TypeOK
<1>7. HeldOnce'
  BY <1>2, <1>3, <1>6 DEF HeldOnce
<1>8. QED
  BY <1>4, <1>5, <1>7

\* Publishing moves a message within what the worker holds.
LEMMA PublishInv ==
  ASSUME OutboxInv, NEW p \in Services, NEW m \in Messages, Publish(p, m) \/ PublishFails(p, m)
  PROVE  OutboxInv'
<1> USE DEF OutboxInv
<1>1. UNCHANGED <<now, stamp, aged, rows, hot, published, batch>> /\ m \in todo[p]
  BY DEF Publish, PublishFails, dbVars, hotVars, NextOf
<1>2. topic' \in Seq(Messages) /\ \A n : InTopic(n) => InTopic(n)'
  BY ArrivesKeeps, MayArriveKeeps DEF Publish, PublishFails, TypeOK
<1>3. /\ todo' = [todo EXCEPT ![p] = @ \ {m}]
      /\ \/ done' = [done EXCEPT ![p] = @ \cup {m}] /\ failed' = failed /\ InTopic(m)'
         \/ failed' = [failed EXCEPT ![p] = @ \cup {m}] /\ done' = done
  BY ArrivesKeeps DEF Publish, PublishFails, TypeOK
<1>4. TypeOK'
  <2>1. /\ todo' \in [Services -> SUBSET Messages]
        /\ done' \in [Services -> SUBSET Messages]
        /\ failed' \in [Services -> SUBSET Messages]
    <3>1. /\ todo \in [Services -> SUBSET Messages]
          /\ done \in [Services -> SUBSET Messages]
          /\ failed \in [Services -> SUBSET Messages]
      BY DEF TypeOK
    <3>2. CASE done' = [done EXCEPT ![p] = @ \cup {m}] /\ failed' = failed
      BY <1>3, <3>1, <3>2
    <3>3. CASE failed' = [failed EXCEPT ![p] = @ \cup {m}] /\ done' = done
      BY <1>3, <3>1, <3>3
    <3>4. QED
      BY <1>3, <3>2, <3>3
  <2>2. QED
    BY <1>1, <1>2, <2>1 DEF TypeOK
<1>c. Committed' = Committed
  BY <1>1 DEF Committed
<1>5. PathInv' /\ NothingLost'
  <2>1. \A q \in Services : \A n \in done'[q] : n \in done[q] \/ (n = m /\ InTopic(m)')
    <3>1. done \in [Services -> SUBSET Messages]
      BY DEF TypeOK
    <3>2. QED
      BY <1>3, <3>1
  <2>0. \A q \in Services : \A n \in done[q] : InTopic(n)
    BY DEF PathInv
  <2>2. \A q \in Services : \A n \in done'[q] : InTopic(n)'
    BY <1>2, <2>0, <2>1
  <2>3. PathInv'
    BY <1>1, <1>2, <1>c, <2>2 DEF PathInv
  <2>4. NothingLost'
    BY <1>1, <1>2, <1>c DEF NothingLost
  <2>5. QED
    BY <2>3, <2>4
<1>6. \A q \in Services : Held(q)' = Held(q)
  <2>1. /\ todo \in [Services -> SUBSET Messages]
        /\ done \in [Services -> SUBSET Messages]
        /\ failed \in [Services -> SUBSET Messages]
    BY DEF TypeOK
  <2>2. QED
    BY <1>1, <1>3, <2>1 DEF Held
<1>7. HeldOnce'
  BY <1>1, <1>6 DEF HeldOnce
<1>8. QED
  BY <1>4, <1>5, <1>7

\* The worker's transaction ends, with the deletion of what is done or without.
LEMMA EndInv ==
  ASSUME OutboxInv, NEW p \in Services, CommitBatch(p) \/ Rollback(p)
  PROVE  OutboxInv'
<1> USE DEF OutboxInv
<1>1. /\ UNCHANGED <<now, stamp, aged, topic, hot, published, batch>>
      /\ Release(p)
      /\ rows' = rows \/ rows' = rows \ done[p]
  BY DEF CommitBatch, Rollback, Deleted, dbVars, hotVars
<1>2. TypeOK'
  BY <1>1 DEF Release, TypeOK
<1>3. PathInv' /\ NothingLost'
  <2>1. Committed' = Committed /\ \A m : InTopic(m)' <=> InTopic(m)
    BY <1>1 DEF Committed, InTopic
  <2>2. \A q \in Services : done'[q] \subseteq done[q]
    BY <1>1 DEF Release, TypeOK
  <2>3. PathInv'
    BY <1>1, <2>1, <2>2 DEF PathInv
  <2>4. \A m \in done[p] : InTopic(m)
    BY DEF PathInv
  <2>5. NothingLost'
    BY <1>1, <2>1, <2>4 DEF NothingLost
  <2>6. QED
    BY <2>3, <2>5
<1>4. Held(p)' = {} /\ \A q \in Services \ {p} : Held(q)' = Held(q)
  BY <1>1 DEF Release, Held, TypeOK
<1>5. done[p] \subseteq Held(p)
  BY DEF Held
<1>6. HeldOnce'
  BY <1>1, <1>4, <1>5 DEF HeldOnce
<1>7. QED
  BY <1>2, <1>3, <1>6

LEMMA CrashInv ==
  ASSUME OutboxInv, NEW p \in Services, Crash(p)
  PROVE  OutboxInv'
<1> USE DEF OutboxInv
<1>1. TypeOK'
  BY DEF Crash, Release, dbVars, TypeOK
<1>2. PathInv' /\ NothingLost'
  BY DEF Crash, Release, dbVars, PathInv, NothingLost, TypeOK, Committed, InTopic
<1>3. Held(p)' = {} /\ \A q \in Services \ {p} : Held(q)' = Held(q)
  BY DEF Crash, Release, Held, TypeOK
<1>4. HeldOnce'
  BY <1>3 DEF Crash, Release, dbVars, HeldOnce
<1>5. QED
  BY <1>1, <1>2, <1>4

\* Rows come of age.
LEMMA GraceInv ==
  ASSUME OutboxInv, GracePasses
  PROVE  OutboxInv'
BY DEF OutboxInv, GracePasses, hotVars, workerVars, TypeOK, PathInv, NothingLost, HeldOnce, Held,
       Committed, InTopic

LEMMA StepInv == OutboxInv /\ [Next]_vars => OutboxInv'
<1> SUFFICES ASSUME OutboxInv, [Next]_vars PROVE OutboxInv'
  OBVIOUS
<1>1. ASSUME NEW p \in Services, ApiStep(p) PROVE OutboxInv'
  BY <1>1, ApiCommits, CommitInv
<1>2. ASSUME NEW p \in Services, HotStep(p) PROVE OutboxInv'
  BY <1>2, HotInv, BatchInv DEF HotStep
<1>3. ASSUME NEW p \in Services, Works(p) \/ WorkerFails(p) PROVE OutboxInv'
  BY <1>3, FetchInv, PublishInv, EndInv DEF Works, WorkerFails
<1>4. CASE UNCHANGED vars
  BY <1>4 DEF vars, dbVars, hotVars, workerVars, OutboxInv, TypeOK, PathInv, NothingLost, HeldOnce,
              Held, Committed, InTopic
<1>5. QED
  BY <1>1, <1>2, <1>3, <1>4, GraceInv, CrashInv DEF Next

-----------------------------------------------------------------------------
(* Refinement: Outbox takes the steps of ReliableLog *)

\* A record that arrives is a delivery of the log, or there already.
LEMMA ArrivalDelivers ==
  ASSUME NEW m \in Messages, m \in Committed, UNCHANGED stamp, Arrives(m) \/ UNCHANGED topic
  PROVE  Log!Deliver(m) \/ UNCHANGED <<Committed, topic>>
<1>1. Committed' = Committed
  BY DEF Committed
<1>2. Log!InTopic(m) <=> InTopic(m)
  BY DEF Log!InTopic, InTopic
<1>3. QED
  BY <1>1, <1>2 DEF Arrives, Log!Deliver

LEMMA StepRefines ==
  ASSUME OutboxInv, [Next]_vars
  PROVE  Log!Next \/ UNCHANGED <<Committed, topic>>
<1>1. ASSUME NEW p \in Services, NEW S \in SUBSET Messages, S # {}, Commit(p, S)
      PROVE  Log!CommitEvents
  <2>1. Committed' = Committed \cup S
    BY <1>1 DEF Commit, Committed, OutboxInv, TypeOK
  <2>2. S \in SUBSET (Messages \ Committed) /\ UNCHANGED topic
    BY <1>1 DEF Commit
  <2>3. QED
    BY <1>1, <2>1, <2>2 DEF Log!CommitEvents
<1>2. ASSUME NEW p \in Services, NEW m \in Messages,
             \/ HotPublish(p, m) \/ HotFails(p, m)
             \/ Publish(p, m) \/ PublishFails(p, m)
      PROVE  Log!Deliver(m) \/ UNCHANGED <<Committed, topic>>
  <2>1. m \in Committed
    BY <1>2 DEF HotPublish, HotFails, Publish, PublishFails, NextOf, OutboxInv, PathInv,
                HeldOnce, Held
  <2>2. UNCHANGED stamp /\ (Arrives(m) \/ UNCHANGED topic)
    BY <1>2 DEF HotPublish, HotFails, Publish, PublishFails, dbVars
  <2>3. QED
    BY <2>1, <2>2, ArrivalDelivers
<1>3. ASSUME UNCHANGED <<stamp, topic>>
      PROVE  UNCHANGED <<Committed, topic>>
  BY <1>3 DEF Committed
<1>4. ASSUME NEW p \in Services, ApiStep(p)
      PROVE  Log!Next
  BY <1>1, <1>4, ApiCommits DEF Log!Next
<1>5. ASSUME NEW p \in Services, HotStep(p)
      PROVE  Log!Next \/ UNCHANGED <<Committed, topic>>
  <2>1. CASE \E m \in Messages : HotPublish(p, m) \/ HotFails(p, m)
    BY <1>2, <2>1 DEF Log!Next
  <2>2. CASE Collect(p) \/ Flush(p) \/ FlushFails(p)
    BY <1>3, <2>2 DEF Collect, Flush, FlushFails, dbVars
  <2>3. QED
    BY <1>5, <2>1, <2>2 DEF HotStep
<1>6. ASSUME NEW p \in Services, Works(p) \/ WorkerFails(p)
      PROVE  Log!Next \/ UNCHANGED <<Committed, topic>>
  <2>1. CASE \E m \in Messages : Publish(p, m) \/ PublishFails(p, m)
    BY <1>2, <2>1 DEF Log!Next
  <2>2. CASE Fetch(p) \/ CommitBatch(p) \/ Rollback(p)
    BY <1>3, <2>2 DEF Fetch, CommitBatch, Rollback, dbVars
  <2>3. QED
    BY <1>6, <2>1, <2>2 DEF Works, WorkerFails
<1>7. ASSUME NEW p \in Services, Crash(p)
      PROVE  UNCHANGED <<Committed, topic>>
  BY <1>3, <1>7 DEF Crash, dbVars
<1>8. CASE GracePasses \/ UNCHANGED vars
  BY <1>3, <1>8 DEF GracePasses, vars, dbVars
<1>9. QED
  BY <1>4, <1>5, <1>6, <1>7, <1>8 DEF Next

-----------------------------------------------------------------------------
(* The theorems *)

\* OutboxInv holds through crashes, rollbacks and failures of either path.
THEOREM OutboxInvariant == Spec => []OutboxInv
BY InitInv, StepInv, PTL DEF Spec

\* Every variable keeps its type, for any batch size and channel capacity.
THEOREM TypeCorrect == Spec => []TypeOK
<1>1. OutboxInv => TypeOK
  BY DEF OutboxInv
<1>2. QED
  BY <1>1, OutboxInvariant, PTL

\* No committed event is ever in neither the table nor the topic (worker.go).
THEOREM NoEventLost == Spec => []NothingLost
<1>1. OutboxInv => NothingLost
  BY DEF OutboxInv
<1>2. QED
  BY <1>1, OutboxInvariant, PTL

\* Two workers never hold the same row (FOR UPDATE SKIP LOCKED), and the rows
\* a worker holds are in the table until its transaction ends.
THEOREM RowsHeldOnce == Spec => []HeldOnce
<1>1. OutboxInv => HeldOnce
  BY DEF OutboxInv
<1>2. QED
  BY <1>1, OutboxInvariant, PTL

\* Hot path, worker and deletions together are a log to which only committed
\* events are appended; that each one is, in the end, is ImplementsLog.
THEOREM OutboxImplementsLog == Spec => Log!SafeSpec
<1>1. Init => Log!Init
  BY DEF Init, Log!Init, Committed
<1>2. OutboxInv /\ [Next]_vars => [Log!Next]_<<Committed, topic>>
  BY StepRefines
<1>3. QED
  BY <1>1, <1>2, OutboxInvariant, PTL DEF Spec, Log!SafeSpec, Log!logVars
=============================================================================
