--------------------------- MODULE LeaderElection ---------------------------
(***************************************************************************)
(* The matching engine's leader election and its fencing token: the row of   *)
(* partition_leader_locks (election/repository.go), the elector goroutine     *)
(* (election/elector.go) with the callbacks and the shutdown of               *)
(* cmd/matching-engine/main.go, the consumer goroutine of a leader            *)
(* (matching/event_subscribers.go) and the order-service's settlement          *)
(* transaction that checks the token (order/event_subscribers.go).            *)
(*                                                                         *)
(* Time: nothing bounds the delay between two ticks (onBecomeLeader runs      *)
(* inside a tick, the queries carry no deadline, instances read their own     *)
(* clocks), so a lease may be seen expired at any moment.                     *)
(***************************************************************************)
EXTENDS Naturals, Sequences

CONSTANTS
    Instances,  \* the matching-engine processes, named by their hostnames
    Nobody,     \* the holder of a row that does not exist yet
    MaxToken,   \* bound on the fencing tokens handed out
    MaxSent     \* bound on the settlement requests written to Kafka

ASSUME NobodyAssumption == Nobody \notin Instances
ASSUME BoundsAssumption == MaxToken \in Nat /\ MaxSent \in Nat

VARIABLES
    row,        \* the lock row: leader_id, fencing_token, lease not expired
    sharing,    \* a settlement transaction holds the row FOR SHARE
    elector,    \* [instance -> where its elector goroutine is]
    token,      \* [instance -> e.fencingToken, or the token just granted]
    main,       \* [instance -> where its main goroutine is]
    svcToken,   \* [instance -> the Subscriber's fencingToken]
    cancelled,  \* [instance -> the consumer's context is cancelled]
    consumer,   \* [instance -> where its consumer goroutine is]
    built,      \* [instance -> the token in the event being published]
    term,       \* history: [instance -> token for which its book was built]
    settlements,\* the exchange.settlements topic, not yet settled
    sent,       \* how many settlement requests have been written to it
    applied     \* history: the committed settlements

electorVars == <<elector, token, term>>
consumerVars == <<svcToken, cancelled, consumer, built>>
kafkaVars == <<settlements, sent>>
vars == <<row, sharing, electorVars, main, consumerVars, kafkaVars, applied>>

Tokens == 0..MaxToken

\* standby and leader: between two ticks. granted: AcquireLock has committed.
\* starting: in onBecomeLeader. lost, cleared, waiting: in onLoseLeadership.
\* exited: Run has returned.
ElectorStates == {"standby", "granted", "starting", "leader",
                  "lost", "cleared", "waiting", "exited"}
MainStates == {"serving", "stopping", "waiting", "down"}
ConsumerStates == {"none", "polling", "handling", "publishing"}

\* A SettlementRequestedEvent: the token it carries, and the term whose book
\* its trades were matched in.
Request == [token : Tokens, term : Tokens]

IsLeader(i) == elector[i] \in {"starting", "leader"}

Init ==
    /\ row = [leader |-> Nobody, token |-> 0, live |-> FALSE]
    /\ sharing = FALSE
    /\ elector = [i \in Instances |-> "standby"]
    /\ token = [i \in Instances |-> 0]
    /\ main = [i \in Instances |-> "serving"]
    /\ svcToken = [i \in Instances |-> 0]
    /\ cancelled = [i \in Instances |-> FALSE]
    /\ consumer = [i \in Instances |-> "none"]
    /\ built = [i \in Instances |-> 0]
    /\ term = [i \in Instances |-> 0]
    /\ settlements = <<>>
    /\ sent = 0
    /\ applied = <<>>

-----------------------------------------------------------------------------
(* The lock row *)

LeaseExpires ==
    /\ row.live
    /\ row' = [row EXCEPT !.live = FALSE]
    /\ UNCHANGED <<sharing, electorVars, main, consumerVars, kafkaVars, applied>>

\* Faulty: the settlement transaction reads the token without FOR SHARE.
Updatable_NoShareLock == TRUE

\* An UPDATE of the row waits for the transactions that hold it FOR SHARE.
Updatable == ~sharing

\* Faulty: a take-over keeps the token of the row.
TakeOver_KeepsToken(i) ==
    [leader |-> i, token |-> IF row.token = 0 THEN 1 ELSE row.token, live |-> TRUE]

\* INSERT with token 1, or UPDATE with the next token.
TakeOver(i) == [leader |-> i, token |-> row.token + 1, live |-> TRUE]

\* Faulty: an expired lease is never taken over.
Available_OnlyNew == row.token = 0

\* No row yet, or expires_at < now.
Available == ~row.live

\* A tick of a standby: AcquireLock commits; its answer is on the way.
Acquire(i) ==
    /\ main[i] = "serving"
    /\ elector[i] = "standby"
    /\ Available
    /\ Updatable
    /\ row.token < MaxToken
    /\ row' = TakeOver(i)
    /\ elector' = [elector EXCEPT ![i] = "granted"]
    /\ token' = [token EXCEPT ![i] = row'.token]
    /\ UNCHANGED <<sharing, term, main, consumerVars, kafkaVars, applied>>

\* The answer is lost: tick logs the error, the row keeps this instance's name.
AcquireFails(i) ==
    /\ elector[i] = "granted"
    /\ elector' = [elector EXCEPT ![i] = "standby"]
    /\ token' = [token EXCEPT ![i] = 0]
    /\ UNCHANGED <<row, sharing, term, main, consumerVars, kafkaVars, applied>>

\* ExtendLease's WHERE clause.
HoldsRow(i) == row.leader = i /\ row.token = token[i]

\* A tick of a leader. An expired lease that nobody took over is revived.
Extend(i) ==
    /\ main[i] = "serving"
    /\ elector[i] = "leader"
    /\ HoldsRow(i)
    /\ Updatable
    /\ row' = [row EXCEPT !.live = TRUE]
    /\ UNCHANGED <<sharing, electorVars, main, consumerVars, kafkaVars, applied>>

-----------------------------------------------------------------------------
(* The elector goroutine *)

\* consumerMu, held by onLoseLeadership or by the main goroutine's shutdown.
ElectorHoldsMu(i) == elector[i] \in {"cleared", "waiting"}
MainHoldsMu(i) == main[i] = "waiting"

\* isLeader and fencingToken are stored, onBecomeLeader is called.
Promote(i) ==
    /\ elector[i] = "granted"
    /\ elector' = [elector EXCEPT ![i] = "starting"]
    /\ UNCHANGED <<row, sharing, token, term, main, consumerVars, kafkaVars, applied>>

\* onBecomeLeader: Reset, SetFencingToken, restore the book and start the
\* consumer. When NewConsumer fails the callback just returns.
Start(i) ==
    /\ elector[i] = "starting"
    /\ ~MainHoldsMu(i)
    /\ elector' = [elector EXCEPT ![i] = "leader"]
    /\ svcToken' = [svcToken EXCEPT ![i] = token[i]]
    /\ term' = [term EXCEPT ![i] = token[i]]
    /\ \/ /\ consumer' = [consumer EXCEPT ![i] = "polling"]
          /\ cancelled' = [cancelled EXCEPT ![i] = FALSE]
       \/ UNCHANGED <<consumer, cancelled>>
    /\ UNCHANGED <<row, sharing, token, main, built, kafkaVars, applied>>

\* ExtendLease reports an error: no row matches, or the query fails (possibly
\* after an Extend that took effect). The leader steps down either way.
StepDown(i) ==
    /\ elector[i] = "leader"
    /\ elector' = [elector EXCEPT ![i] = "lost"]
    /\ token' = [token EXCEPT ![i] = 0]
    /\ UNCHANGED <<row, sharing, term, main, consumerVars, kafkaVars, applied>>

\* onLoseLeadership takes consumerMu and zeroes the token of the Subscriber...
ClearToken(i) ==
    /\ elector[i] = "lost"
    /\ ~MainHoldsMu(i)
    /\ elector' = [elector EXCEPT ![i] = "cleared"]
    /\ svcToken' = [svcToken EXCEPT ![i] = 0]
    /\ UNCHANGED <<row, sharing, token, term, main, cancelled, consumer, built, kafkaVars, applied>>

\* ... cancels the consumer's context...
CancelConsumer(i) ==
    /\ elector[i] = "cleared"
    /\ elector' = [elector EXCEPT ![i] = "waiting"]
    /\ cancelled' = [cancelled EXCEPT ![i] = TRUE]
    /\ UNCHANGED <<row, sharing, token, term, main, svcToken, consumer, built, kafkaVars, applied>>

\* Faulty: onLoseLeadership does not wait for the consumer goroutine.
Joined_NotAwaited(i) == TRUE

\* matchConsumer.Wait() returns.
Joined(i) == consumer[i] = "none"

\* ... and waits until its goroutine has ended.
JoinConsumer(i) ==
    /\ elector[i] = "waiting"
    /\ Joined(i)
    /\ elector' = [elector EXCEPT ![i] = "standby"]
    /\ UNCHANGED <<row, sharing, token, term, main, consumerVars, kafkaVars, applied>>

\* Faulty: the row loses its leader_id.
Released_NoLeader(i) == [leader |-> 0, token |-> row.token, live |-> FALSE]

\* Faulty: the row is deleted instead of expired.
Released_Deletes(i) == [leader |-> Nobody, token |-> 0, live |-> FALSE]

\* expires_at = 0; the next candidate still finds the token.
Released(i) == [row EXCEPT !.live = FALSE]

\* Run sees ctx.Done: a leader gives up the lease (the query may time out or
\* match no row) and no callback is called.
ReleaseAndExit(i) ==
    /\ main[i] # "serving"
    /\ elector[i] \in {"standby", "leader"}
    /\ elector' = [elector EXCEPT ![i] = "exited"]
    /\ token' = [token EXCEPT ![i] = 0]
    /\ \/ elector[i] = "leader" /\ row.leader = i /\ Updatable /\ row' = Released(i)
       \/ UNCHANGED row
    /\ UNCHANGED <<sharing, term, main, consumerVars, kafkaVars, applied>>

-----------------------------------------------------------------------------
(* The main goroutine and the process *)

\* SIGTERM: cancelGlobal().
Shutdown(i) ==
    /\ main[i] = "serving"
    /\ main' = [main EXCEPT ![i] = "stopping"]
    /\ UNCHANGED <<row, sharing, electorVars, consumerVars, kafkaVars, applied>>

\* consumerMu.Lock() before matchConsumer.Wait().
MainLocks(i) ==
    /\ main[i] = "stopping"
    /\ ~ElectorHoldsMu(i)
    /\ main' = [main EXCEPT ![i] = "waiting"]
    /\ UNCHANGED <<row, sharing, electorVars, consumerVars, kafkaVars, applied>>

\* The process ends, whatever its elector goroutine is doing.
ProcessEnds(i) ==
    /\ main' = [main EXCEPT ![i] = "down"]
    /\ elector' = [elector EXCEPT ![i] = "exited"]
    /\ consumer' = [consumer EXCEPT ![i] = "none"]
    /\ token' = [token EXCEPT ![i] = 0]
    /\ svcToken' = [svcToken EXCEPT ![i] = 0]
    /\ built' = [built EXCEPT ![i] = 0]
    /\ term' = [term EXCEPT ![i] = 0]
    /\ cancelled' = [cancelled EXCEPT ![i] = FALSE]
    /\ UNCHANGED <<row, sharing, kafkaVars, applied>>

Exit(i) ==
    /\ main[i] = "waiting"
    /\ consumer[i] = "none"
    /\ ProcessEnds(i)

Crash(i) ==
    /\ main[i] # "down"
    /\ ProcessEnds(i)

\* A new process with the same hostname.
Restart(i) ==
    /\ main[i] = "down"
    /\ main' = [main EXCEPT ![i] = "serving"]
    /\ elector' = [elector EXCEPT ![i] = "standby"]
    /\ UNCHANGED <<row, sharing, token, term, consumerVars, kafkaVars, applied>>

-----------------------------------------------------------------------------
(* The consumer goroutine of exchange.orders *)

\* HandleEvents finds a token and Process matches the order in the book of
\* this term. Without a token the order is passed over: nothing changes here.
Handle(i) ==
    /\ consumer[i] = "polling"
    /\ ~cancelled[i]
    /\ svcToken[i] # 0
    /\ sent < MaxSent
    /\ consumer' = [consumer EXCEPT ![i] = "handling"]
    /\ UNCHANGED <<row, sharing, electorVars, main, svcToken, cancelled, built, kafkaVars, applied>>

\* The event is built after Process and reads the token again.
Build(i) ==
    /\ consumer[i] = "handling"
    /\ consumer' = [consumer EXCEPT ![i] = "publishing"]
    /\ built' = [built EXCEPT ![i] = svcToken[i]]
    /\ UNCHANGED <<row, sharing, electorVars, main, svcToken, cancelled, kafkaVars, applied>>

\* The event reaches the topic. The producer may report a timeout all the
\* same; the loop then publishes it again.
Publish(i) ==
    /\ consumer[i] = "publishing"
    /\ sent < MaxSent
    /\ sent' = sent + 1
    /\ settlements' = Append(settlements, [token |-> built[i], term |-> term[i]])
    /\ \/ /\ consumer' = [consumer EXCEPT ![i] = "polling"]
          /\ built' = [built EXCEPT ![i] = 0]
       \/ UNCHANGED <<consumer, built>>
    /\ UNCHANGED <<row, sharing, electorVars, main, svcToken, cancelled, applied>>

\* Faulty: the retry loop does not look at the context.
MayGiveUp_Never(i) == FALSE

\* ctx.Err() # nil after a failed publish.
MayGiveUp(i) == cancelled[i]

GiveUp(i) ==
    /\ consumer[i] = "publishing"
    /\ MayGiveUp(i)
    /\ consumer' = [consumer EXCEPT ![i] = "polling"]
    /\ built' = [built EXCEPT ![i] = 0]
    /\ UNCHANGED <<row, sharing, electorVars, main, svcToken, cancelled, kafkaVars, applied>>

StopConsumer(i) ==
    /\ consumer[i] = "polling"
    /\ cancelled[i]
    /\ consumer' = [consumer EXCEPT ![i] = "none"]
    /\ UNCHANGED <<row, sharing, electorVars, main, svcToken, cancelled, built, kafkaVars, applied>>

-----------------------------------------------------------------------------
(* The settlement consumer of the order-service *)

NextRequest == settlements[1]

\* ValidateFencingTokenTx. (No row cannot happen once a token was handed out.)
Current(m) == m.token >= row.token

Settled(m) == Append(applied, [token |-> m.token, term |-> m.term, at |-> row.token])

\* The transaction starts: the row is locked and the token is current.
BeginFenced ==
    /\ settlements # <<>>
    /\ ~sharing
    /\ NextRequest.token > 0
    /\ Current(NextRequest)
    /\ sharing' = TRUE
    /\ UNCHANGED <<row, electorVars, main, consumerVars, kafkaVars, applied>>

\* ErrStaleSettlementEvent: a stale token, the message is passed over.
DropStale ==
    /\ settlements # <<>>
    /\ ~sharing
    /\ NextRequest.token > 0
    /\ ~Current(NextRequest)
    /\ settlements' = Tail(settlements)
    /\ UNCHANGED <<row, sharing, electorVars, main, consumerVars, sent, applied>>

Commit ==
    /\ sharing
    /\ sharing' = FALSE
    /\ settlements' = Tail(settlements)
    /\ applied' = Settled(NextRequest)
    /\ UNCHANGED <<row, electorVars, main, consumerVars, sent>>

\* An error rolls the transaction back; the consumer retries the message.
Abort ==
    /\ sharing
    /\ sharing' = FALSE
    /\ UNCHANGED <<row, electorVars, main, consumerVars, kafkaVars, applied>>

\* A message with token 0 is not checked and does not lock the row.
SettleUnfenced ==
    /\ settlements # <<>>
    /\ NextRequest.token = 0
    /\ settlements' = Tail(settlements)
    /\ applied' = Settled(NextRequest)
    /\ UNCHANGED <<row, sharing, electorVars, main, consumerVars, sent>>

-----------------------------------------------------------------------------
ElectorStep(i) ==
    \/ Promote(i)
    \/ AcquireFails(i)
    \/ Start(i)
    \/ StepDown(i)
    \/ ClearToken(i)
    \/ CancelConsumer(i)
    \/ JoinConsumer(i)
    \/ ReleaseAndExit(i)

ConsumerStep(i) ==
    \/ Handle(i)
    \/ Build(i)
    \/ Publish(i)
    \/ GiveUp(i)
    \/ StopConsumer(i)

MainStep(i) ==
    \/ Shutdown(i)
    \/ MainLocks(i)
    \/ Exit(i)
    \/ Crash(i)
    \/ Restart(i)

SettlementStep == BeginFenced \/ DropStale \/ Commit \/ Abort \/ SettleUnfenced

Next ==
    \/ LeaseExpires
    \/ SettlementStep
    \/ \E i \in Instances : \/ Acquire(i)
                            \/ Extend(i)
                            \/ ElectorStep(i)
                            \/ ConsumerStep(i)
                            \/ MainStep(i)

Spec == Init /\ [][Next]_vars

\* Time passes while the holder of the row is down, and the goroutines run on:
\* each elector leaves the states in which it does not wait for a tick, a
\* leader without the row learns it at its next tick, a consumer leaves its
\* handler where the code lets it. Nothing is assumed of Kafka, nor that a
\* healthy leader keeps its lease. A standby's tick recurs, so it acquires a
\* lease that is available again and again.
Fairness ==
    /\ WF_vars(LeaseExpires /\ \A i \in Instances : row.leader = i => main[i] = "down")
    /\ WF_vars(Commit)
    /\ \A i \in Instances :
         /\ SF_vars(Acquire(i))
         /\ WF_vars(\/ Promote(i) \/ AcquireFails(i) \/ Start(i) \/ ReleaseAndExit(i)
                    \/ StepDown(i) /\ ~HoldsRow(i)
                    \/ ClearToken(i) \/ CancelConsumer(i) \/ JoinConsumer(i))
         /\ WF_vars(Build(i) \/ GiveUp(i) \/ StopConsumer(i))
         /\ WF_vars(MainLocks(i) \/ Exit(i))

FairSpec == Spec /\ Fairness

-----------------------------------------------------------------------------
(* Properties *)

TypeOK ==
    /\ row \in [leader : Instances \cup {Nobody}, token : Tokens, live : BOOLEAN]
    /\ sharing \in BOOLEAN
    /\ elector \in [Instances -> ElectorStates]
    /\ token \in [Instances -> Tokens]
    /\ main \in [Instances -> MainStates]
    /\ svcToken \in [Instances -> Tokens]
    /\ cancelled \in [Instances -> BOOLEAN]
    /\ consumer \in [Instances -> ConsumerStates]
    /\ built \in [Instances -> Tokens]
    /\ term \in [Instances -> Tokens]
    /\ settlements \in Seq(Request)
    /\ sent \in 0..MaxSent
    /\ applied \in Seq([token : Tokens, term : Tokens, at : Tokens])

\* Leaders may overlap, terms may not: two instances that lead at the same
\* time hold different tokens, and only the instance named in the row can hold
\* the current one, whatever leases expired and answers were lost.
OneLeaderPerTerm ==
    \A i \in Instances : IsLeader(i) =>
      /\ \A j \in Instances : IsLeader(j) /\ token[i] = token[j] => i = j
      /\ token[i] = row.token => row.leader = i

\* A request carries the token of the term in which its trades were matched,
\* or none: a handler that outlives a change of leadership never signs the
\* trades of an old book with a new token.
TokenNamesTerm ==
    \A k \in DOMAIN settlements :
      settlements[k].token \in {0, settlements[k].term}

\* A settlement that carries a token commits only while the term it was
\* matched in is the newest one, even if the term changes between the check
\* and the commit.
FencedWritesCurrent ==
    \A k \in DOMAIN applied :
      applied[k].token # 0 => applied[k].term = applied[k].at

\* The row passes to another holder only with a larger token, and no step
\* takes a token back: not a release, a crash, or a restart.
TokenNeverReused ==
    [][/\ row'.token >= row.token
       /\ row'.leader # row.leader => row'.token > row.token]_vars

\* onLoseLeadership returns although Kafka may refuse the event that is being
\* published: the consumer it waits for sees the cancelled context.
StepDownCompletes ==
    \A i \in Instances :
      elector[i] = "cleared" ~> elector[i] \notin {"cleared", "waiting"}

\* When the holder of the lock is down, a standby that keeps running takes
\* over, unless the holder comes back.
TakenOver ==
    \A i, j \in Instances :
      i # j /\ row.leader = i /\ main[i] = "down" /\ main[j] = "serving"
        ~> row.leader # i \/ main[i] # "down" \/ main[j] # "serving" \/ row.token = MaxToken

\* elector.go: the writes of an old leader are rejected by the database.
OldLeaderRejected ==
    \A k \in DOMAIN applied : applied[k].term = applied[k].at

\* main.go: cancelling the global context stops the consumer as well.
ShutdownCompletes ==
    \A i \in Instances : main[i] = "stopping" ~> main[i] = "down"
=============================================================================
