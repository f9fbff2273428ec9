---------------------------- MODULE Idempotency ----------------------------
(***************************************************************************)
(* The Idempotency-Key of the gateway (internal/middleware/idempotency.go,      *)
(* redis_idempotency_store.go). A request that places an order may name a key.   *)
(* The gateway looks the key up in Redis, forwards the request to the             *)
(* order-service when it finds nothing, and stores the answer when it is not an     *)
(* error. Nothing is reserved between the lookup and the store.                     *)
(*                                                                           *)
(* An answer names the request that it was made for; its order has the same name.    *)
(* The specification is named GatewaySpec, so that a module can extend this one and      *)
(* another.                                                                           *)
(***************************************************************************)
EXTENDS Naturals, FiniteSets

CONSTANTS
    Requests,   \* the requests that clients may send
    Keys,       \* the keys they may name
    MaxExpiries \* bound on the entries that expire

NoKey == "none"
ASSUME KeysAssumption == NoKey \notin Keys
ASSUME ExpiriesAssumption == MaxExpiries \in Nat

Nothing == [status |-> "none"]
Answer(status, r) == [status |-> status, of |-> r]

VARIABLES
    key,      \* the key of a request
    stage,    \* where the gateway is with it
    service,  \* where the order-service is with it
    answer,   \* what the gateway has for the client
    replayed, \* requests answered from the store
    store,    \* exchange:idempotency:<key>
    expiries, \* how many entries have expired
    disturbed \* keys whose requests overlapped, lost an answer, or met Redis out of order

gatewayVars == <<key, stage, service, answer, replayed, store, expiries, disturbed>>

GatewayInit ==
    /\ key = [r \in Requests |-> NoKey]
    /\ stage = [r \in Requests |-> "unsent"]
    /\ service = [r \in Requests |-> "idle"]
    /\ answer = [r \in Requests |-> Nothing]
    /\ replayed = {}
    /\ store = [k \in Keys |-> Nothing]
    /\ expiries = 0
    /\ disturbed = {}

Going(r) == stage[r] \notin {"unsent", "done"} \/ service[r] = "busy"

\* A client sends or repeats a request. That it does so before the one before is over
\* is up to the client.
Send(r) ==
    /\ stage[r] = "unsent"
    /\ \E k \in Keys \cup {NoKey} :
         /\ key' = [key EXCEPT ![r] = k]
         /\ disturbed' = IF \E q \in Requests : key[q] = k /\ Going(q)
                         THEN disturbed \cup ({k} \ {NoKey}) ELSE disturbed
    /\ stage' = [stage EXCEPT ![r] = "sent"]
    /\ UNCHANGED <<service, answer, replayed, store, expiries>>

-----------------------------------------------------------------------------
(* The middleware *)

Found(r) == key[r] # NoKey /\ store[key[r]] # Nothing

\* store.Get has an entry: the handler is not called.
Replay(r) ==
    /\ stage[r] = "sent"
    /\ Found(r)
    /\ answer' = [answer EXCEPT ![r] = store[key[r]]]
    /\ replayed' = replayed \cup {r}
    /\ stage' = [stage EXCEPT ![r] = "done"]
    /\ UNCHANGED <<key, service, store, expiries, disturbed>>

\* No key, no entry, or Redis does not answer in two seconds.
Forward(r) ==
    /\ stage[r] = "sent"
    /\ stage' = [stage EXCEPT ![r] = "forwarded"]
    /\ service' = [service EXCEPT ![r] = "busy"]
    /\ disturbed' = IF Found(r) THEN disturbed \cup {key[r]} ELSE disturbed
    /\ UNCHANGED <<key, answer, replayed, store, expiries>>

\* The order-service has answered, and the answer is on its way to the client.
Answered(r) ==
    /\ stage[r] = "forwarded"
    /\ service[r] \in {"placed", "refused"}
    /\ answer' = [answer EXCEPT ![r] =
                    Answer(IF service[r] = "placed" THEN "accepted" ELSE "error", r)]
    /\ stage' = [stage EXCEPT ![r] = "answered"]
    /\ UNCHANGED <<key, service, replayed, store, expiries, disturbed>>

\* The connection to the order-service fails: 502, whatever became of the order.
BadGateway(r) ==
    /\ stage[r] = "forwarded"
    /\ answer' = [answer EXCEPT ![r] = Answer("error", r)]
    /\ stage' = [stage EXCEPT ![r] = "answered"]
    /\ disturbed' = disturbed \cup ({key[r]} \ {NoKey})
    /\ UNCHANGED <<key, service, replayed, store, expiries>>

\* Faulty: an error is stored as well.
Storable_All(r) == TRUE

\* Faulty: only 200 is stored, and a placed order is answered with 202.
Storable_Only200(r) == FALSE

\* statusCode < 400
Storable(r) == answer[r].status # "error"

\* The bytes that the handler wrote.
Entry(r) == answer[r]

\* store.Set, whose error is only logged.
Finish(r) ==
    /\ stage[r] = "answered"
    /\ stage' = [stage EXCEPT ![r] = "done"]
    /\ IF key[r] # NoKey /\ Storable(r)
       THEN \/ /\ store' = [store EXCEPT ![key[r]] = Entry(r)]
               /\ UNCHANGED disturbed
            \/ /\ disturbed' = disturbed \cup {key[r]}
               /\ UNCHANGED store
       ELSE UNCHANGED <<store, disturbed>>
    /\ UNCHANGED <<key, service, answer, replayed, expiries>>

-----------------------------------------------------------------------------
(* The order-service and Redis *)

\* PlaceOrder commits, or the request is refused.
Serve(r) ==
    /\ service[r] = "busy"
    /\ service' \in {[service EXCEPT ![r] = "placed"], [service EXCEPT ![r] = "refused"]}
    /\ UNCHANGED <<key, stage, answer, replayed, store, expiries, disturbed>>

\* The ttl of 24 hours ends, or Redis loses the entry.
Expire ==
    /\ expiries < MaxExpiries
    /\ \E k \in Keys :
         /\ store[k] # Nothing
         /\ store' = [store EXCEPT ![k] = Nothing]
         /\ disturbed' = disturbed \cup {k}
    /\ expiries' = expiries + 1
    /\ UNCHANGED <<key, stage, service, answer, replayed>>

-----------------------------------------------------------------------------
GatewayStep(r) == Replay(r) \/ Forward(r) \/ Answered(r) \/ BadGateway(r) \/ Finish(r)

GatewayNext == Expire \/ \E r \in Requests : Send(r) \/ GatewayStep(r) \/ Serve(r)

GatewaySpec == GatewayInit /\ [][GatewayNext]_gatewayVars

-----------------------------------------------------------------------------
(* Properties *)

Answers == {Nothing} \cup [status : {"accepted", "error"}, of : Requests]

\* Every variable has its type.
GatewayTypeOK ==
    /\ key \in [Requests -> Keys \cup {NoKey}]
    /\ stage \in [Requests -> {"unsent", "sent", "forwarded", "answered", "done"}]
    /\ service \in [Requests -> {"idle", "busy", "placed", "refused"}]
    /\ answer \in [Requests -> Answers]
    /\ replayed \subseteq Requests
    /\ store \in [Keys -> Answers]
    /\ expiries \in 0..MaxExpiries
    /\ disturbed \subseteq Keys

PlacedBy(k) == {r \in Requests : key[r] = k /\ service[r] = "placed"}

\* What is answered from the store is the acceptance of an order that exists and was
\* placed under the same key, whatever was lost, repeated or answered with 502 in
\* between; an error is never repeated (internal/middleware/idempotency.go:96-113).
ReplayFaithful ==
    \A r \in replayed :
      /\ answer[r].status = "accepted"
      /\ answer[r].of \in PlacedBy(key[r])

\* A client that waits for each answer before it repeats places one order with a key.
\* What can undo this is listed in disturbed: requests at the same time, a 502 whose
\* order was placed all the same, a Redis that fails or forgets, the end of the 24
\* hours (internal/middleware/idempotency.go:95-114).
OneOrderPerKey == \A k \in Keys \ disturbed : Cardinality(PlacedBy(k)) <= 1
=============================================================================
