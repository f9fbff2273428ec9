---------------------------- MODULE RateLimiter ----------------------------
(***************************************************************************)
(* The token bucket of the gateway (internal/middleware/redis_rate_limiter.go, *)
(* rate_limiter.go). The public and the private routes have a limiter each, with  *)
(* a rate and a capacity of its own, but the Redis keys hold only the address of    *)
(* the client: one bucket serves both. A request takes the time first and runs the   *)
(* script later, so the script meets times that are older than the last.              *)
(*                                                                           *)
(* One client; time passes in ticks, and a rate is a number of tokens per tick.       *)
(***************************************************************************)
EXTENDS Integers, FiniteSets

CONSTANTS
    Limiters,  \* the limiters: a set of [rate, capacity]
    InFlight,  \* the requests that the gateway can have under way
    MinTtl,    \* the least time to live of the keys: 10 s
    Timeout,   \* how long a request waits for Redis: 2 s
    MaxClock   \* bound on the time

VARIABLES
    clock,    \* the gateway's clock
    request,  \* the time that a request under way has taken, and its limiter
    bucket,   \* exchange:ratelimit:tokens:<ip> and exchange:ratelimit:ts:<ip>
    expires,  \* when Redis forgets them
    admitted, \* how many requests the script has admitted
    setback   \* how far its times have gone back, in all

vars == <<clock, request, bucket, expires, admitted, setback>>

None == [now |-> -1]
Larger(x, y) == IF x > y THEN x ELSE y
Smaller(x, y) == IF x < y THEN x ELSE y
Greatest(S) == CHOOSE x \in S : \A y \in S : x >= y

Init ==
    /\ clock = 0
    /\ request = [r \in InFlight |-> None]
    /\ bucket = None
    /\ expires = 0
    /\ admitted = 0
    /\ setback = 0

\* A request gives up after Timeout. Redis is taken to run no script after that for a call
\* it has received earlier.
Overdue(r) == request[r] # None /\ clock - request[r].now >= Timeout

Tick ==
    /\ clock < MaxClock
    /\ ~\E r \in InFlight : Overdue(r)
    /\ clock' = clock + 1
    /\ UNCHANGED <<request, bucket, expires, admitted, setback>>

\* Allow: the time is read before the script is called.
Arrive(r) ==
    /\ request[r] = None
    /\ \E l \in Limiters : request' = [request EXCEPT ![r] = [now |-> clock, limiter |-> l]]
    /\ UNCHANGED <<clock, bucket, expires, admitted, setback>>

\* What is in the bucket at time now: a new one is full.
Filled(l, now) ==
    IF bucket = None THEN l.capacity
    ELSE Smaller(l.capacity, bucket.tokens + Larger(0, now - bucket.now) * l.rate)

Ttl(l) == Larger(MinTtl, (2 * l.capacity) \div l.rate)

\* Faulty: the script stores the time of a new bucket only.
Script_KeepsTime(l, now) ==
    LET filled == Filled(l, now)
        allowed == IF filled >= 1 THEN 1 ELSE 0
    IN /\ bucket' = [now |-> IF bucket = None THEN now ELSE bucket.now,
                     tokens |-> filled - allowed]
       /\ admitted' = admitted + allowed
       /\ setback' = IF bucket = None THEN setback ELSE setback + Larger(0, bucket.now - now)
       /\ expires' = clock + Ttl(l)

\* rateLimitScript: atomic in Redis. The time it is given becomes the bucket's.
Script(l, now) ==
    LET filled == Filled(l, now)
        allowed == IF filled >= 1 THEN 1 ELSE 0
    IN /\ bucket' = [now |-> now, tokens |-> filled - allowed]
       /\ admitted' = admitted + allowed
       /\ setback' = IF bucket = None THEN setback ELSE setback + Larger(0, bucket.now - now)
       /\ expires' = clock + Ttl(l)

Answers(r) == request' = [request EXCEPT ![r] = None]

Allow(r) ==
    /\ request[r] # None
    /\ Script(request[r].limiter, request[r].now)
    /\ Answers(r)
    /\ UNCHANGED clock

\* Redis fails or is too slow: the request is let through, whether or not the script
\* has run.
FailOpen(r) ==
    /\ request[r] # None
    /\ \/ Script(request[r].limiter, request[r].now)
       \/ UNCHANGED <<bucket, expires, admitted, setback>>
    /\ Answers(r)
    /\ UNCHANGED clock

Expire ==
    /\ bucket # None
    /\ clock >= expires
    /\ bucket' = None
    /\ UNCHANGED <<clock, request, expires, admitted, setback>>

Next == Tick \/ Expire \/ \E r \in InFlight : Arrive(r) \/ Allow(r) \/ FailOpen(r)

Spec == Init /\ [][Next]_vars

-----------------------------------------------------------------------------
(* Properties *)

MaxRate == Greatest({l.rate : l \in Limiters})
MaxCapacity == Greatest({l.capacity : l \in Limiters})

\* Every variable has its type.
TypeOK ==
    /\ clock \in 0..MaxClock
    /\ request \in [InFlight -> {None} \cup [now : 0..clock, limiter : Limiters]]
    /\ bucket = None \/ bucket \in [now : 0..clock, tokens : 0..MaxCapacity]
    /\ expires \in Nat /\ admitted \in Nat /\ setback \in Nat

\* Requests whose scripts run in another order than they took their times set the
\* bucket's time back, and the next one is given the same refill again; two limiters
\* spend from one bucket; the keys expire. What is admitted is bounded all the same, by
\* the larger capacity and rate and by how far the times went back
\* (internal/middleware/redis_rate_limiter.go:25-43, 73-79).
AdmissionBound == admitted <= MaxCapacity + MaxRate * (clock + setback)
=============================================================================
