--------------------------- MODULE OrderBookCache ---------------------------
(***************************************************************************)
(* How snapshots of the order book reach the cache that market-data-service     *)
(* answers from (internal/matching/event_subscribers.go:223-262,                 *)
(* internal/repository/cache_repository.go, internal/marketdata). After every     *)
(* change the matching engine stamps a snapshot with its token, writes it to Redis *)
(* and publishes it; the market-data-service consumes it and writes it to Redis a   *)
(* second time, then pushes it to the WebSocket hub. The script that writes refuses  *)
(* a token that is smaller than the one in the cache.                                *)
(*                                                                           *)
(* The engines of several terms may run at once: an old leader whose lease ran out   *)
(* finishes its handler. A snapshot is the number of the change it shows, in its term.*)
(***************************************************************************)
EXTENDS Naturals, Sequences

CONSTANTS
    MaxTerm,     \* bound on the terms
    MaxChanges,  \* bound on the changes of the book in a term
    MaxRestarts  \* bound on the restarts of the market-data-service

Terms == 1..MaxTerm
Snapshot == [term : Terms, change : 1..MaxChanges, token : 0..MaxTerm]
None == [term |-> 0, change |-> 0, token |-> 0]

VARIABLES
    newest,   \* the newest term
    token,    \* Subscriber.fencingToken of each term's leader
    changes,  \* how often the term's book has changed
    step,     \* where the term's handler is in OnOrderBookUpdate
    stamped,  \* the snapshot it has stamped
    cache,    \* exchange:orderbook:<symbol>
    feed,     \* exchange.orderbook
    offset,   \* the committed offset of market-data-orderbook
    next,     \* the record the consumer handles
    stage,    \* where HandleOrderBook is with it
    restarts, \* of the market-data-service
    missed,   \* the snapshots whose publish or whose second write failed
    unsent    \* the restored books of which no snapshot was made

engineVars == <<newest, token, changes, step, stamped>>
consumerVars == <<offset, next, stage, restarts>>
vars == <<engineVars, cache, feed, consumerVars, missed, unsent>>

\* The engines of a new leader are those of the restored orders. SyncRecoveredOrderBooks
\* sends the book of each engine there is: a symbol of which nothing was restored, because
\* it had no active order or the restore failed, has none.
Synced == {"changed", "idle"}

UnsentBooks(t, first) == IF first = "idle" THEN {<<t, 1>>} ELSE {}

Init ==
    /\ newest = 1
    /\ token = [t \in Terms |-> IF t = 1 THEN 1 ELSE 0]
    /\ changes = [t \in Terms |-> IF t = 1 THEN 1 ELSE 0]
    /\ \E first \in Synced :
         /\ step = [t \in Terms |-> IF t = 1 THEN first ELSE "idle"]
         /\ unsent = UnsentBooks(1, first)
    /\ stamped = [t \in Terms |-> None]
    /\ cache = None
    /\ feed = <<>>
    /\ offset = 1
    /\ next = 1
    /\ stage = "fetch"
    /\ restarts = 0
    /\ missed = {}

-----------------------------------------------------------------------------
(* The script *)

\* Faulty: the token of the cached snapshot is not compared.
Accepts_All(s) == TRUE

\* The last writer wins unless its token is smaller; a token 0 is not compared.
Accepts(s) == s.token = 0 \/ s.token >= cache.token

Written(s) == IF Accepts(s) THEN s ELSE cache

-----------------------------------------------------------------------------
(* The matching engine *)

\* A leader is elected, and restores its book.
BecomeLeader ==
    /\ newest < MaxTerm
    /\ newest' = newest + 1
    /\ token' = [token EXCEPT ![newest'] = newest']
    /\ changes' = [changes EXCEPT ![newest'] = 1]
    /\ \E first \in Synced :
         /\ step' = [step EXCEPT ![newest'] = first]
         /\ unsent' = unsent \cup UnsentBooks(newest', first)
    /\ UNCHANGED <<stamped, cache, feed, consumerVars, missed>>

\* onBecomeLeader has not sent the restored book yet.
Starting(t) == changes[t] = 1 /\ step[t] # "idle"

\* onLoseLeadership: the token is zeroed while the consumer's handler may be at work.
\* The elector calls it after onBecomeLeader, never during it.
LoseLeadership(t) ==
    /\ token[t] # 0
    /\ ~Starting(t)
    /\ token' = [token EXCEPT ![t] = 0]
    /\ UNCHANGED <<newest, changes, step, stamped, cache, feed, consumerVars, missed, unsent>>

\* The process ends in the middle of its handler.
Crash(t) ==
    /\ token[t] # 0 \/ step[t] # "idle"
    /\ token' = [token EXCEPT ![t] = 0]
    /\ step' = [step EXCEPT ![t] = "idle"]
    /\ missed' = IF step[t] = "idle" THEN missed ELSE missed \cup {<<t, changes[t]>>}
    /\ UNCHANGED <<newest, changes, stamped, cache, feed, consumerVars, unsent>>

\* The handler of an order or a cancellation changes the book.
Change(t) ==
    /\ token[t] # 0
    /\ step[t] = "idle"
    /\ changes[t] < MaxChanges
    /\ changes' = [changes EXCEPT ![t] = @ + 1]
    /\ step' = [step EXCEPT ![t] = "changed"]
    /\ UNCHANGED <<newest, token, stamped, cache, feed, consumerVars, missed, unsent>>

\* OnOrderBookUpdate reads the token.
Stamp(t) ==
    /\ step[t] = "changed"
    /\ stamped' = [stamped EXCEPT ![t] =
                     [term |-> t, change |-> changes[t], token |-> token[t]]]
    /\ step' = [step EXCEPT ![t] = "stamped"]
    /\ UNCHANGED <<newest, token, changes, cache, feed, consumerVars, missed, unsent>>

\* SetOrderBookSnapshot; an error is only logged.
WriteCache(t) ==
    /\ step[t] = "stamped"
    /\ cache' \in {cache, Written(stamped[t])}
    /\ step' = [step EXCEPT ![t] = "written"]
    /\ UNCHANGED <<newest, token, changes, stamped, feed, consumerVars, missed, unsent>>

\* The event is published; or an error is logged, and the event may be in the topic.
Publish(t) ==
    /\ step[t] = "written"
    /\ step' = [step EXCEPT ![t] = "idle"]
    /\ \/ feed' = Append(feed, stamped[t]) /\ UNCHANGED missed
       \/ /\ missed' = missed \cup {<<t, changes[t]>>}
          /\ feed' \in {feed, Append(feed, stamped[t])}
    /\ UNCHANGED <<newest, token, changes, stamped, cache, consumerVars, unsent>>

-----------------------------------------------------------------------------
(* The market-data-service *)

\* HandleOrderBook writes the snapshot; an error, or a refusal, is only logged.
Cache ==
    /\ stage = "fetch"
    /\ next <= Len(feed)
    /\ \/ cache' = Written(feed[next]) /\ UNCHANGED missed
       \/ missed' = missed \cup {<<feed[next].term, feed[next].change>>} /\ UNCHANGED cache
    /\ stage' = "push"
    /\ UNCHANGED <<engineVars, feed, offset, next, restarts, unsent>>

\* OnOrderBookUpdate of the hub: the record is pushed, refused by the cache or not.
Push ==
    /\ stage = "push"
    /\ stage' = "commit"
    /\ UNCHANGED <<engineVars, cache, feed, offset, next, restarts, missed, unsent>>

NextRecord == next + 1

CommitRecord ==
    /\ stage = "commit"
    /\ offset' = NextRecord
    /\ next' = NextRecord
    /\ stage' = "fetch"
    /\ UNCHANGED <<engineVars, cache, feed, restarts, missed, unsent>>

\* The new process goes on at the committed offset. A commit that fails does the same:
\* the record is handled again.
Restart ==
    /\ restarts < MaxRestarts
    /\ restarts' = restarts + 1
    /\ next' = offset
    /\ stage' = "fetch"
    /\ UNCHANGED <<engineVars, cache, feed, offset, missed, unsent>>

-----------------------------------------------------------------------------
EngineStep(t) == Change(t) \/ Stamp(t) \/ WriteCache(t) \/ Publish(t)
LeaderStep == BecomeLeader \/ \E t \in Terms : LoseLeadership(t) \/ Crash(t)
ConsumerStep == Cache \/ Push \/ CommitRecord \/ Restart

Next == LeaderStep \/ ConsumerStep \/ \E t \in Terms : EngineStep(t)

Spec == Init /\ [][Next]_vars

-----------------------------------------------------------------------------
(* Properties *)

Latest == <<newest, changes[newest]>>

\* Every variable has its type.
TypeOK ==
    /\ newest \in Terms
    /\ token \in [Terms -> 0..MaxTerm]
    /\ changes \in [Terms -> 0..MaxChanges]
    /\ step \in [Terms -> {"idle", "changed", "stamped", "written"}]
    /\ stamped \in [Terms -> Snapshot \cup {None}]
    /\ cache \in Snapshot \cup {None}
    /\ feed \in Seq(Snapshot)
    /\ offset \in 1..next /\ next \in 1..(Len(feed) + 1)
    /\ stage \in {"fetch", "push", "commit"}
    /\ restarts \in 0..MaxRestarts
    /\ missed \subseteq Terms \X (1..MaxChanges)
    /\ unsent \subseteq Terms \X (1..MaxChanges)

\* Everything that was sent has arrived.
Settled ==
    /\ \A t \in Terms : step[t] = "idle"
    /\ stage = "fetch" /\ next > Len(feed)

Unfenced == \E t \in Terms : stamped[t] # None /\ stamped[t].token = 0

\* Two services write the same key, each in its own time and some of it twice, and old
\* leaders write late. When all is delivered the cache shows the newest book of the
\* newest leader, unless that one failed to be published or written, was restored empty
\* and not sent, or a deposed leader stamped its last snapshot with 0
\* (internal/repository/cache_repository.go:45-86, internal/marketdata/event_subscribers.go:56-65,
\* internal/matching/event_subscribers.go:253-262).
CacheSettles ==
    Settled /\ Latest \notin missed \cup unsent /\ ~Unfenced =>
      <<cache.term, cache.change>> = Latest

\* internal/repository/cache_repository.go:57-59 says that comparing tokens keeps the
\* late snapshots of a zombie from the screen.
NoZombieSnapshot == [][cache'.term >= cache.term]_cache
=============================================================================
