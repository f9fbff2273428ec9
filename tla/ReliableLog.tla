---------------------------- MODULE ReliableLog ----------------------------
(***************************************************************************)
(* What a transactional outbox promises: an event that was committed with its  *)
(* transaction reaches the topic, sooner or later, and no other event does.     *)
(* How the events are stored, which path publishes them, how often, and what    *)
(* fails on the way is left to Outbox.                                          *)
(***************************************************************************)
EXTENDS Naturals, Sequences

CONSTANT Messages \* the events that services may commit

VARIABLES
    committed, \* the events whose transactions have committed
    topic      \* the events of the topic, in the order they first arrived

logVars == <<committed, topic>>

InTopic(m) == \E k \in DOMAIN topic : topic[k] = m

Init ==
    /\ committed = {}
    /\ topic = <<>>

\* One transaction commits one event or several.
CommitEvents ==
    /\ \E S \in SUBSET (Messages \ committed) :
         /\ S # {}
         /\ committed' = committed \cup S
    /\ UNCHANGED topic

Deliver(m) ==
    /\ m \in committed
    /\ ~InTopic(m)
    /\ topic' = Append(topic, m)
    /\ UNCHANGED committed

Next == CommitEvents \/ \E m \in Messages : Deliver(m)

\* Every step is of the kinds above.
SafeSpec == Init /\ [][Next]_logVars

\* No committed event is forgotten, whatever happens to the others.
Spec == SafeSpec /\ \A m \in Messages : WF_logVars(Deliver(m))
=============================================================================
