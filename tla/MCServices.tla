----------------------------- MODULE MCServices -----------------------------
(***************************************************************************)
(* Five parts that share no state, checked in one run: the WebSocket hub, the   *)
(* cache of the order book, the idempotency keys, the token bucket and the row    *)
(* locks. A behaviour is one of a single part, the subject, and the others stay     *)
(* as they started: interleaving them could show nothing new.                        *)
(***************************************************************************)
EXTENDS WebSocketHub, Idempotency, AccountLocks

CONSTANTS
    MaxTerm, MaxChanges, MaxRestarts,                \* OrderBookCache
    Limiters, InFlight, MinTtl, Timeout, MaxClock    \* RateLimiter

VARIABLES
    subject,
    newest, token, changes, step, stamped, cache, feed, offset, next, place, restarts, missed, unsent,
    clock, request, bucket, expires, admitted, setback

Cache == INSTANCE OrderBookCache WITH stage <- place
Limiter == INSTANCE RateLimiter

\* There is a first term, with a first book; the bounds are numbers.
ASSUME CacheAssumption ==
    /\ MaxTerm \in Nat \ {0}
    /\ MaxChanges \in Nat \ {0}
    /\ MaxRestarts \in Nat

\* A limiter's capacity is its rate times the window of one second (cmd/gateway/main.go:86-88,
\* redis_rate_limiter.go:57-64), and keys live for ten seconds or more when a request waits
\* for two: between them a bucket would have filled.
ASSUME LimitersAssumption ==
    /\ Limiters \subseteq [rate : Nat \ {0}, capacity : Nat \ {0}]
    /\ IsFiniteSet(Limiters) /\ Limiters # {}
    /\ MinTtl \in Nat /\ Timeout \in Nat /\ MaxClock \in Nat
    /\ \A l \in Limiters :
         Limiter!MaxCapacity <= Limiter!MaxRate * (Limiter!Ttl(l) - Timeout)

cacheVars == <<newest, token, changes, step, stamped, cache, feed, offset, next, place, restarts,
               missed, unsent>>
limiterVars == <<clock, request, bucket, expires, admitted, setback>>

MCOwner == [o \in OrderIds |-> o]
MCLimiters == {[rate |-> 2, capacity |-> 2], [rate |-> 1, capacity |-> 1]}

Subjects == {"hub", "cache", "gateway", "limiter", "locks"}

ServicesInit ==
    /\ subject \in Subjects
    /\ Init /\ Cache!Init /\ GatewayInit /\ Limiter!Init /\ LockInit

HubNext ==
    /\ subject = "hub" /\ Next
    /\ UNCHANGED <<subject, cacheVars, gatewayVars, limiterVars, lockVars>>
CacheNext ==
    /\ subject = "cache" /\ Cache!Next
    /\ UNCHANGED <<subject, vars, gatewayVars, limiterVars, lockVars>>
KeysNext ==
    /\ subject = "gateway" /\ GatewayNext
    /\ UNCHANGED <<subject, vars, cacheVars, limiterVars, lockVars>>
LimiterNext ==
    /\ subject = "limiter" /\ Limiter!Next
    /\ UNCHANGED <<subject, vars, cacheVars, gatewayVars, lockVars>>
TransactionsNext ==
    /\ subject = "locks" /\ LockNext
    /\ UNCHANGED <<subject, vars, cacheVars, gatewayVars, limiterVars>>

ServicesNext == HubNext \/ CacheNext \/ KeysNext \/ LimiterNext \/ TransactionsNext

servicesVars == <<subject, vars, cacheVars, gatewayVars, limiterVars, lockVars>>

ServicesSpec ==
    /\ ServicesInit
    /\ [][ServicesNext]_servicesVars
    /\ (subject = "hub" => Fairness)

-----------------------------------------------------------------------------
\* Every variable of every part has its type.
ServicesTypeOK ==
    /\ subject \in Subjects
    /\ TypeOK /\ Cache!TypeOK /\ GatewayTypeOK /\ Limiter!TypeOK /\ LockTypeOK

\* The properties of the parts that are instances: the cache
\* (internal/repository/cache_repository.go:45-86) and the token bucket
\* (internal/middleware/redis_rate_limiter.go:25-43).
CacheSettles == Cache!CacheSettles
AdmissionBound == Limiter!AdmissionBound
=============================================================================
