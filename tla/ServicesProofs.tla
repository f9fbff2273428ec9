--------------------------- MODULE ServicesProofs ---------------------------
(***************************************************************************)
(* Proofs about the five parts that share no state and are checked together: the  *)
(* WebSocket hub, the idempotency keys of the gateway, the row locks of the          *)
(* order-service's transactions, the token bucket, and the cache of the order book.    *)
(***************************************************************************)
EXTENDS MCServices,
        SumTheorems, SequenceTheorems, FiniteSetTheorems, WellFoundedInduction, TLAPS

-----------------------------------------------------------------------------
(* WebSocketHub, for any clients and capacities. MembersInv says what a client's
   reader tells about its membership and its channel; FeedInv says that what a
   client was sent is a part of the log without gaps. *)

ReaderStates == {"none", "registering", "reading", "leaving", "gone"}

\* A client that has not been registered has an open channel and is no member.
MembersInv ==
  /\ clients \subseteq Clients
  /\ closes \in [Clients -> Nat]
  /\ reader \in [Clients -> ReaderStates]
  /\ \A c \in Clients : reader[c] \in {"none", "registering"} => closes[c] = 0
  /\ ClosedOnce

\* No client is registered at the start.
LEMMA InitMembers == Init => MembersInv
BY DEF Init, MembersInv, ClosedOnce, ReaderStates

\* Dropping clients keeps the account of who is a member and whose channel is closed.
LEMMA DropKeeps ==
  ASSUME MembersInv, NEW S \in SUBSET Clients, Drop(S), UNCHANGED <<reader, sentOn>>
  PROVE  MembersInv'
<1>1. /\ clients' = clients \ (S \cap clients)
      /\ closes' = [c \in Clients |-> IF c \in S \cap clients THEN closes[c] + 1 ELSE closes[c]]
      /\ \A c \in clients : closes[c] = 0 /\ reader[c] \in {"reading", "leaving"}
  BY DEF Drop, Dropped, MembersInv, ClosedOnce
<1>2. /\ clients' \subseteq Clients /\ closes' \in [Clients -> Nat]
      /\ reader' \in [Clients -> ReaderStates] /\ sentOn' = {}
  BY <1>1 DEF MembersInv, ClosedOnce
<1>3. ASSUME NEW c \in Clients
      PROVE  /\ closes'[c] <= 1
             /\ c \in clients' <=> reader'[c] \in {"reading", "leaving"} /\ closes'[c] = 0
             /\ reader'[c] \in {"none", "registering"} => closes'[c] = 0
  <2>1. CASE c \in S \cap clients
    <3>1. closes'[c] = 1 /\ c \notin clients' /\ reader'[c] \in {"reading", "leaving"}
      BY <1>1, <2>1
    <3>2. QED
      BY <3>1
  <2>2. CASE c \notin S \cap clients
    <3>1. closes'[c] = closes[c] /\ (c \in clients' <=> c \in clients) /\ reader'[c] = reader[c]
      BY <1>1, <2>2
    <3>2. QED
      BY <3>1 DEF MembersInv, ClosedOnce
  <2>3. QED
    BY <2>1, <2>2
<1>4. QED
  BY <1>2, <1>3 DEF MembersInv, ClosedOnce

\* Every step keeps the members and their channels together.
LEMMA StepKeepsMembers == MembersInv /\ [Next]_vars => MembersInv'
<1> SUFFICES ASSUME MembersInv, [Next]_vars PROVE MembersInv'
  OBVIOUS
<1>1. CASE UNCHANGED <<clients, closes, sentOn, reader>>
  BY <1>1 DEF MembersInv, ClosedOnce
<1>2. CASE Broadcast
  BY <1>1, <1>2 DEF Broadcast
<1>3. ASSUME NEW c \in Clients, Connect(c) PROVE MembersInv'
  BY <1>3 DEF Connect, hubVars, MembersInv, ClosedOnce, ReaderStates
<1>4. ASSUME NEW c \in Clients, Register(c) PROVE MembersInv'
  BY <1>4 DEF Register, MembersInv, ClosedOnce, ReaderStates
<1>5. ASSUME NEW c \in Clients, Unregister(c) PROVE MembersInv'
  <2>1. /\ reader[c] = "leaving" /\ reader' = [reader EXCEPT ![c] = "gone"]
        /\ clients' = clients \ ({c} \cap clients)
        /\ closes' = [d \in Clients |->
                        IF d \in {c} \cap clients THEN closes[d] + 1 ELSE closes[d]]
        /\ sentOn' = sentOn
    BY <1>5 DEF Unregister, Drop, Dropped
  <2>2. /\ clients' \subseteq Clients /\ closes' \in [Clients -> Nat]
        /\ reader' \in [Clients -> ReaderStates] /\ sentOn' = {}
    BY <2>1 DEF MembersInv, ClosedOnce, ReaderStates
  <2>3. ASSUME NEW d \in Clients
        PROVE  /\ closes'[d] <= 1
               /\ d \in clients' <=> reader'[d] \in {"reading", "leaving"} /\ closes'[d] = 0
               /\ reader'[d] \in {"none", "registering"} => closes'[d] = 0
    <3>1. CASE d = c
      BY <2>1, <3>1 DEF MembersInv, ClosedOnce
    <3>2. CASE d # c
      <4>1. closes'[d] = closes[d] /\ (d \in clients' <=> d \in clients) /\ reader'[d] = reader[d]
        BY <2>1, <3>2 DEF MembersInv
      <4>2. QED
        BY <4>1 DEF MembersInv, ClosedOnce
    <3>3. QED
      BY <3>1, <3>2
  <2>4. QED
    BY <2>2, <2>3 DEF MembersInv, ClosedOnce
<1>6. CASE Deliver
  <2>1. TooSlow \in SUBSET Clients /\ Drop(TooSlow) /\ reader' = reader
    BY <1>6 DEF Deliver, TooSlow, MembersInv
  <2>2. sentOn' = sentOn
    <3>1. {c \in clients : closes[c] > 0} = {}
      BY DEF MembersInv, ClosedOnce
    <3>2. QED
      BY <1>6, <3>1 DEF Deliver
  <2>3. QED
    BY <2>1, <2>2, DropKeeps
<1>7. ASSUME NEW c \in Clients, ReadFails(c) PROVE MembersInv'
  BY <1>7 DEF ReadFails, AfterRead, hubVars, MembersInv, ClosedOnce, ReaderStates
<1>8. ASSUME NEW c \in Clients, PingFails(c) \/ WriterStep(c) PROVE MembersInv'
  BY <1>1, <1>8 DEF PingFails, WriterStep, Write, WriteClose, hubVars
<1>9. CASE UNCHANGED vars
  BY <1>1, <1>9 DEF vars, hubVars
<1>10. QED
  BY <1>2, <1>3, <1>4, <1>5, <1>6, <1>7, <1>8, <1>9 DEF Next, HubStep

\* The channel of a client is closed once and nothing is sent to it afterwards, whoever
\* drops the client first, for any clients and capacities.
THEOREM ChannelsClosedOnce == Spec => []ClosedOnce
<1>1. MembersInv => ClosedOnce
  BY DEF MembersInv
<1>2. QED
  BY <1>1, InitMembers, StepKeepsMembers, PTL DEF Spec

-----------------------------------------------------------------------------
(* What the clients are sent *)

Registered(c) == reader[c] \notin {"none", "registering"}

Rising(s) == \A i, j \in 1..Len(s) : i < j => s[i] < s[j]
Below(s, m) == \A i \in 1..Len(s) : s[i] < m

\* The messages in the order of their calls: first those in log, then those in queue.
OrderInv ==
  /\ calls \in Nat /\ log \in Seq(Nat) /\ queue \in Seq(Nat)
  /\ Rising(log) /\ Rising(queue)
  /\ \A j \in 1..Len(queue) : Below(log, queue[j])
  /\ Below(log, calls + 1) /\ Below(queue, calls + 1)

\* A client was sent the messages of the log that follow the joined[c]-th, from first
\* to last; a member all of them.
Fed(c) ==
  /\ Len(received[c]) + Len(send[c]) <= Len(log) - joined[c]
  /\ \A i \in 1..Len(received[c]) : received[c][i] = log[joined[c] + i]
  /\ \A i \in 1..Len(send[c]) : send[c][i] = log[joined[c] + Len(received[c]) + i]
  /\ c \in clients => Len(received[c]) + Len(send[c]) = Len(log) - joined[c]

\* Whoever is not registered was sent nothing and has no writer.
Feed(c) ==
  /\ Len(send[c]) <= SendCap
  /\ Registered(c) => Fed(c)
  /\ ~Registered(c) => send[c] = <<>> /\ received[c] = <<>>
  /\ writer[c] = "writing" => Registered(c)

FeedInv ==
  /\ send \in [Clients -> Seq(Nat)] /\ received \in [Clients -> Seq(Nat)]
  /\ joined \in [Clients -> Nat]
  /\ writer \in [Clients -> {"none", "writing", "gone"}]
  /\ \A c \in Clients : Feed(c)

HubInv == MembersInv /\ OrderInv /\ FeedInv

\* Nothing has been sent at the start.
LEMMA InitHub == ASSUME SendCap \in Nat, Init PROVE HubInv
<1>1. MembersInv
  BY InitMembers
<1>2. OrderInv
  BY DEF Init, OrderInv, Rising, Below
<1>3. FeedInv
  BY DEF Init, FeedInv, Feed, Registered
<1>4. QED
  BY <1>1, <1>2, <1>3 DEF HubInv

\* What Append and Tail do, index by index.
LEMMA Appended ==
  ASSUME NEW s \in Seq(Nat), NEW m \in Nat
  PROVE  /\ Append(s, m) \in Seq(Nat) /\ Len(Append(s, m)) = Len(s) + 1 /\ Len(s) \in Nat
         /\ \A i \in 1..Len(s) : Append(s, m)[i] = s[i] /\ s[i] \in Nat
         /\ Append(s, m)[Len(s) + 1] = m
OBVIOUS

\* The head and the tail of a queue, index by index.
LEMMA HeadAndTail ==
  ASSUME NEW s \in Seq(Nat), s # <<>>
  PROVE  /\ Tail(s) \in Seq(Nat) /\ Len(Tail(s)) = Len(s) - 1 /\ Len(s) \in Nat \ {0}
         /\ \A i \in 1..(Len(s) - 1) : Tail(s)[i] = s[i + 1]
         /\ Head(s) = s[1] /\ Head(s) \in Nat
OBVIOUS

\* The lengths of what a client received (r) and has in its channel (s), of the log (l)
\* and of what the client missed of it (j).
LEMMA Lengths ==
  ASSUME NEW r \in Nat, NEW s \in Nat, NEW l \in Nat, NEW j \in Nat, r + s <= l - j
  PROVE  /\ \A i \in 1..r : j + i \in 1..l
         /\ \A i \in 1..s : j + r + i \in 1..l
         /\ r + s <= (l + 1) - j
         /\ r + s = l - j => j + r + (s + 1) = l + 1 /\ r + (s + 1) = (l + 1) - j
OBVIOUS

\* A larger number at the end keeps a sequence increasing.
LEMMA RisingAppended ==
  ASSUME NEW s \in Seq(Nat), NEW m \in Nat, Rising(s), Below(s, m)
  PROVE  Rising(Append(s, m))
<1>1. /\ Len(Append(s, m)) = Len(s) + 1 /\ Len(s) \in Nat
      /\ \A i \in 1..Len(s) : Append(s, m)[i] = s[i] /\ s[i] \in Nat
      /\ Append(s, m)[Len(s) + 1] = m
  BY Appended
<1>2. ASSUME NEW i \in 1..(Len(s) + 1), NEW j \in 1..(Len(s) + 1), i < j
      PROVE  Append(s, m)[i] < Append(s, m)[j]
  <2>1. i \in 1..Len(s) /\ (j \in 1..Len(s) \/ j = Len(s) + 1)
    BY <1>1, <1>2
  <2>2. CASE j \in 1..Len(s)
    <3>1. s[i] < s[j]
      BY <1>2, <2>1, <2>2 DEF Rising
    <3>2. Append(s, m)[i] = s[i] /\ Append(s, m)[j] = s[j]
      BY <1>1, <2>1, <2>2
    <3>3. QED
      BY <3>1, <3>2
  <2>3. CASE j = Len(s) + 1
    <3>1. s[i] < m
      BY <2>1 DEF Below
    <3>2. Append(s, m)[i] = s[i] /\ Append(s, m)[j] = m
      BY <1>1, <2>1, <2>3
    <3>3. QED
      BY <3>1, <3>2
  <2>4. QED
    BY <2>1, <2>2, <2>3
<1>3. QED
  BY <1>1, <1>2 DEF Rising

\* A bound on the elements of a sequence and on a new one.
LEMMA BelowAppended ==
  ASSUME NEW s \in Seq(Nat), NEW m \in Nat, NEW n \in Nat, Below(s, n), m < n
  PROVE  Below(Append(s, m), n)
<1>1. /\ Len(Append(s, m)) = Len(s) + 1 /\ Len(s) \in Nat
      /\ \A i \in 1..Len(s) : Append(s, m)[i] = s[i]
      /\ Append(s, m)[Len(s) + 1] = m
  BY Appended
<1>2. ASSUME NEW i \in 1..(Len(s) + 1) PROVE Append(s, m)[i] < n
  <2>1. CASE i \in 1..Len(s)
    BY <1>1, <2>1 DEF Below
  <2>2. CASE i = Len(s) + 1
    BY <1>1, <2>2
  <2>3. QED
    BY <1>1, <2>1, <2>2
<1>3. QED
  BY <1>1, <1>2 DEF Below

\* Below a higher bound, too.
LEMMA BelowRaised ==
  ASSUME NEW s \in Seq(Nat), NEW m \in Nat, NEW n \in Nat, Below(s, m), m <= n
  PROVE  Below(s, n)
<1>1. \A i \in 1..Len(s) : s[i] \in Nat
  OBVIOUS
<1>2. QED
  BY <1>1 DEF Below

\* The tail of a rising sequence rises, and lies above the head.
LEMMA RisingTail ==
  ASSUME NEW s \in Seq(Nat), s # <<>>, Rising(s)
  PROVE  Rising(Tail(s)) /\ \A j \in 1..Len(Tail(s)) : Head(s) < Tail(s)[j]
<1>1. /\ Len(Tail(s)) = Len(s) - 1 /\ Len(s) \in Nat \ {0}
      /\ \A i \in 1..(Len(s) - 1) : Tail(s)[i] = s[i + 1]
      /\ Head(s) = s[1]
  BY HeadAndTail
<1>2. ASSUME NEW i \in 1..(Len(s) - 1), NEW j \in 1..(Len(s) - 1), i < j
      PROVE  Tail(s)[i] < Tail(s)[j]
  <2>1. i + 1 \in 1..Len(s) /\ j + 1 \in 1..Len(s) /\ i + 1 < j + 1
    BY <1>1, <1>2
  <2>2. s[i + 1] < s[j + 1]
    BY <2>1 DEF Rising
  <2>3. QED
    BY <1>1, <2>2
<1>3. ASSUME NEW j \in 1..(Len(s) - 1) PROVE Head(s) < Tail(s)[j]
  <2>1. 1 \in 1..Len(s) /\ j + 1 \in 1..Len(s) /\ 1 < j + 1
    BY <1>1
  <2>2. s[1] < s[j + 1]
    BY <2>1 DEF Rising
  <2>3. QED
    BY <1>1, <2>2
<1>4. QED
  BY <1>1, <1>2, <1>3 DEF Rising

\* Every step keeps the messages in the order of their calls.
LEMMA StepKeepsOrder == OrderInv /\ [Next]_vars => OrderInv'
<1> SUFFICES ASSUME OrderInv, [Next]_vars PROVE OrderInv'
  OBVIOUS
<1>1. CASE UNCHANGED <<calls, log, queue>>
  BY <1>1 DEF OrderInv
<1>2. CASE Broadcast
  <2>1. calls' = calls + 1 /\ log' = log /\ (queue' = Append(queue, calls') \/ queue' = queue)
    BY <1>2 DEF Broadcast
  <2>2. calls \in Nat /\ calls' \in Nat /\ queue \in Seq(Nat) /\ log \in Seq(Nat)
    BY <2>1 DEF OrderInv
  <2>3. Below(log, calls' + 1) /\ Below(queue, calls' + 1) /\ Below(queue, calls')
    BY <2>1, <2>2, BelowRaised DEF OrderInv
  <2>4. CASE queue' = queue
    BY <2>1, <2>2, <2>3, <2>4 DEF OrderInv
  <2>5. CASE queue' = Append(queue, calls')
    <3>1. queue' \in Seq(Nat) /\ Rising(queue')
      BY <2>2, <2>3, <2>5, RisingAppended, Appended DEF OrderInv
    <3>2. Below(queue', calls' + 1)
      BY <2>2, <2>3, <2>5, BelowAppended
    <3>3. ASSUME NEW j \in 1..Len(queue') PROVE Below(log, queue'[j])
      <4>1. Len(queue') = Len(queue) + 1 /\ Len(queue) \in Nat
        BY <2>2, <2>5, Appended
      <4>2. CASE j \in 1..Len(queue)
        <5>1. queue'[j] = queue[j] /\ Below(log, queue[j])
          BY <2>2, <2>5, <4>2, Appended DEF OrderInv
        <5>2. QED
          BY <5>1
      <4>3. CASE j = Len(queue) + 1
        <5>1. queue'[j] = calls' /\ Below(log, calls')
          BY <2>1, <2>2, <2>5, <4>3, Appended DEF OrderInv
        <5>2. QED
          BY <5>1
      <4>4. QED
        BY <4>1, <4>2, <4>3
    <3>4. QED
      BY <2>1, <2>2, <2>3, <3>1, <3>2, <3>3 DEF OrderInv
  <2>6. QED
    BY <2>1, <2>4, <2>5
<1>3. CASE Deliver
  <2>1. /\ queue # <<>> /\ queue' = Tail(queue) /\ log' = Append(log, Head(queue))
        /\ calls' = calls
    BY <1>3 DEF Deliver
  <2>2. /\ calls \in Nat /\ queue \in Seq(Nat) /\ log \in Seq(Nat)
        /\ Rising(log) /\ Rising(queue)
        /\ Below(log, calls + 1) /\ Below(queue, calls + 1)
        /\ \A j \in 1..Len(queue) : Below(log, queue[j])
    BY DEF OrderInv
  <2>3. /\ queue' \in Seq(Nat) /\ Len(queue') = Len(queue) - 1 /\ Len(queue) \in Nat \ {0}
        /\ \A i \in 1..(Len(queue) - 1) : queue'[i] = queue[i + 1]
        /\ Head(queue) = queue[1] /\ Head(queue) \in Nat
    BY <2>1, <2>2, HeadAndTail
  <2>4. Rising(queue') /\ \A j \in 1..Len(queue') : Head(queue) < queue'[j]
    BY <2>1, <2>2, RisingTail
  <2>5. Below(log, Head(queue)) /\ Head(queue) < calls + 1
    <3>1. 1 \in 1..Len(queue)
      BY <2>3
    <3>2. QED
      BY <2>2, <2>3, <3>1 DEF Below
  <2>6. log' \in Seq(Nat) /\ Rising(log')
    BY <2>1, <2>2, <2>3, <2>5, RisingAppended, Appended
  <2>7. Below(log', calls' + 1)
    BY <2>1, <2>2, <2>3, <2>5, BelowAppended
  <2>8. ASSUME NEW j \in 1..Len(queue') PROVE Below(log', queue'[j]) /\ queue'[j] < calls' + 1
    <3>1. j \in 1..(Len(queue) - 1) /\ j + 1 \in 1..Len(queue)
      BY <2>3
    <3>2. /\ queue'[j] = queue[j + 1] /\ queue[j + 1] \in Nat
          /\ Below(log, queue[j + 1]) /\ queue[j + 1] < calls + 1
      BY <2>2, <2>3, <3>1 DEF Below
    <3>3. Head(queue) < queue[j + 1]
      BY <2>4, <3>2
    <3>4. QED
      BY <2>1, <2>2, <2>3, <3>2, <3>3, BelowAppended
  <2>9. QED
    BY <2>1, <2>2, <2>3, <2>4, <2>6, <2>7, <2>8 DEF OrderInv, Below
<1>4. ASSUME NEW c \in Clients,
             \/ Connect(c) \/ Register(c) \/ Unregister(c) \/ ReadFails(c) \/ PingFails(c)
             \/ WriterStep(c)
      PROVE  UNCHANGED <<calls, log, queue>>
  BY <1>4 DEF Connect, Register, Unregister, ReadFails, PingFails, WriterStep, Write, WriteClose,
              hubVars
<1>5. CASE UNCHANGED vars
  BY <1>1, <1>5 DEF vars, hubVars
<1>6. QED
  BY <1>1, <1>2, <1>3, <1>4, <1>5 DEF Next, HubStep

-----------------------------------------------------------------------------
\* A client whose goroutines and channel a step leaves alone, while it adds nothing to
\* the members, keeps its feed.
LEMMA SameFeed ==
  ASSUME NEW c \in Clients, Feed(c), log' = log,
         send'[c] = send[c], received'[c] = received[c], joined'[c] = joined[c],
         Registered(c)' <=> Registered(c),
         writer'[c] = writer[c] \/ writer'[c] = "gone",
         c \in clients' => c \in clients
  PROVE  Feed(c)'
BY DEF Feed, Fed

\* A client that registers has missed the log so far.
LEMMA RegisterKeepsFeeds ==
  ASSUME SendCap \in Nat, HubInv, NEW c \in Clients, Register(c)
  PROVE  FeedInv'
<1>1. /\ reader[c] = "registering" /\ clients' = clients \cup {c}
      /\ joined' = [joined EXCEPT ![c] = Len(log)]
      /\ reader' = [reader EXCEPT ![c] = "reading"]
      /\ writer' = [writer EXCEPT ![c] = "writing"]
      /\ log' = log /\ send' = send /\ received' = received
  BY DEF Register
<1>2. /\ send \in [Clients -> Seq(Nat)] /\ received \in [Clients -> Seq(Nat)]
      /\ joined \in [Clients -> Nat] /\ writer \in [Clients -> {"none", "writing", "gone"}]
      /\ reader \in [Clients -> ReaderStates] /\ log \in Seq(Nat) /\ Len(log) \in Nat
      /\ \A d \in Clients : Feed(d)
  BY DEF HubInv, FeedInv, OrderInv, MembersInv
<1>3. ASSUME NEW d \in Clients PROVE Feed(d)'
  <2>1. CASE d = c
    <3>1. send'[c] = <<>> /\ received'[c] = <<>> /\ joined'[c] = Len(log)
      BY <1>1, <1>2 DEF Feed, Registered
    <3>2. reader'[c] = "reading"
      BY <1>1, <1>2
    <3>3. Fed(c)'
      BY <1>1, <1>2, <3>1 DEF Fed
    <3>4. QED
      BY <2>1, <3>1, <3>2, <3>3 DEF Feed, Registered
  <2>2. CASE d # c
    BY <1>1, <1>2, <2>2, SameFeed DEF Registered
  <2>3. QED
    BY <2>1, <2>2
<1>4. QED
  BY <1>1, <1>2, <1>3 DEF FeedInv

\* A message that the writer takes moves from one part of the feed to the other.
LEMMA WriteKeepsFeeds ==
  ASSUME SendCap \in Nat, HubInv, NEW c \in Clients, Write(c)
  PROVE  FeedInv'
<1>1. /\ writer[c] = "writing" /\ send[c] # <<>>
      /\ send' = [send EXCEPT ![c] = Tail(send[c])]
      /\ received' = [received EXCEPT ![c] = Append(received[c], Head(send[c]))]
      /\ writer' = writer \/ writer' = [writer EXCEPT ![c] = "gone"]
      /\ log' = log /\ clients' = clients /\ reader' = reader /\ joined' = joined
  BY DEF Write, WriterEnds
<1>2. /\ send \in [Clients -> Seq(Nat)] /\ received \in [Clients -> Seq(Nat)]
      /\ joined \in [Clients -> Nat] /\ writer \in [Clients -> {"none", "writing", "gone"}]
      /\ log \in Seq(Nat) /\ Len(log) \in Nat
      /\ \A d \in Clients : Feed(d)
  BY DEF HubInv, FeedInv, OrderInv
<1>3. writer' \in [Clients -> {"none", "writing", "gone"}]
  BY <1>1, <1>2
<1>4. /\ send'[c] = Tail(send[c]) /\ Tail(send[c]) \in Seq(Nat)
      /\ Len(send'[c]) = Len(send[c]) - 1 /\ Len(send[c]) \in Nat \ {0}
      /\ \A i \in 1..(Len(send[c]) - 1) : send'[c][i] = send[c][i + 1]
      /\ Head(send[c]) = send[c][1] /\ Head(send[c]) \in Nat
  BY <1>1, <1>2, HeadAndTail
<1>5. /\ received'[c] = Append(received[c], Head(send[c])) /\ received'[c] \in Seq(Nat)
      /\ Len(received'[c]) = Len(received[c]) + 1 /\ Len(received[c]) \in Nat
      /\ \A i \in 1..Len(received[c]) : received'[c][i] = received[c][i]
      /\ received'[c][Len(received[c]) + 1] = send[c][1]
  BY <1>1, <1>2, <1>4, Appended
<1>6. send' \in [Clients -> Seq(Nat)] /\ received' \in [Clients -> Seq(Nat)]
  BY <1>1, <1>2, <1>4, <1>5
<1>7. Feed(c)'
  <2>1. Registered(c) /\ Registered(c)' /\ Fed(c) /\ Len(send[c]) <= SendCap
    BY <1>1, <1>2 DEF Feed, Registered
  <2>2. /\ Len(received[c]) + Len(send[c]) <= Len(log) - joined[c]
        /\ \A i \in 1..Len(received[c]) : received[c][i] = log[joined[c] + i]
        /\ \A i \in 1..Len(send[c]) : send[c][i] = log[joined[c] + Len(received[c]) + i]
        /\ c \in clients => Len(received[c]) + Len(send[c]) = Len(log) - joined[c]
    BY <2>1 DEF Fed
  <2>3. joined'[c] = joined[c] /\ joined[c] \in Nat
    BY <1>1, <1>2
  <2>4. Len(received'[c]) + Len(send'[c]) = Len(received[c]) + Len(send[c])
    <3> DEFINE t == Len(send[c])
               r == Len(received[c])
               t1 == Len(send'[c])
               r1 == Len(received'[c])
    <3>1. t1 = t - 1 /\ r1 = r + 1 /\ t \in Nat /\ r \in Nat
      BY <1>4, <1>5
    <3> HIDE DEF t, r, t1, r1
    <3>2. r1 + t1 = r + t
      BY <3>1
    <3>3. QED
      BY <3>2 DEF t, r, t1, r1
  <2>5. ASSUME NEW i \in 1..Len(received'[c])
        PROVE  received'[c][i] = log'[joined'[c] + i]
    <3>1. CASE i \in 1..Len(received[c])
      BY <1>1, <1>5, <2>2, <2>3, <3>1
    <3>2. CASE i = Len(received[c]) + 1
      <4>1. 1 \in 1..Len(send[c]) /\ joined[c] + Len(received[c]) + 1 = joined[c] + i
        BY <1>4, <1>5, <2>3, <3>2
      <4>2. send[c][1] = log[joined[c] + Len(received[c]) + 1]
        BY <2>2, <4>1
      <4>3. QED
        BY <1>1, <1>5, <2>3, <3>2, <4>1, <4>2
    <3>3. QED
      BY <1>5, <3>1, <3>2
  <2>6. ASSUME NEW i \in 1..Len(send'[c])
        PROVE  send'[c][i] = log'[joined'[c] + Len(received'[c]) + i]
    <3>1. i + 1 \in 1..Len(send[c]) /\ i \in 1..(Len(send[c]) - 1)
      BY <1>4
    <3>2. send[c][i + 1] = log[joined[c] + Len(received[c]) + (i + 1)]
      BY <2>2, <3>1
    <3>3. joined[c] + Len(received[c]) + (i + 1) = joined[c] + Len(received'[c]) + i
      <4> DEFINE r == Len(received[c])
                 r1 == Len(received'[c])
                 j == joined[c]
      <4>1. r1 = r + 1 /\ r \in Nat /\ j \in Nat /\ i \in Nat
        BY <1>5, <2>3, <3>1
      <4> HIDE DEF r, r1, j
      <4>2. j + r + (i + 1) = j + r1 + i
        BY <4>1
      <4>3. QED
        BY <4>2 DEF r, r1, j
    <3>4. QED
      BY <1>1, <1>4, <2>3, <3>1, <3>2, <3>3
  <2>7. Fed(c)'
    BY <1>1, <2>2, <2>3, <2>4, <2>5, <2>6 DEF Fed
  <2>8. Len(send'[c]) <= SendCap
    BY <1>4, <2>1
  <2>9. QED
    BY <2>1, <2>7, <2>8 DEF Feed
<1>8. ASSUME NEW d \in Clients, d # c PROVE Feed(d)'
  BY <1>1, <1>2, <1>8, SameFeed DEF Registered
<1>9. QED
  BY <1>1, <1>2, <1>3, <1>6, <1>7, <1>8 DEF FeedInv

\* Every member gets the message that Run takes, or is no member any more.
LEMMA DeliverKeepsFeeds ==
  ASSUME SendCap \in Nat, HubInv, Deliver
  PROVE  FeedInv'
<1>1. /\ queue # <<>> /\ log' = Append(log, Head(queue))
      /\ send' = [c \in Clients |->
                    IF c \in clients /\ Len(send[c]) < SendCap
                    THEN Append(send[c], Head(queue)) ELSE send[c]]
      /\ clients' = clients \ ({c \in clients : Len(send[c]) = SendCap} \cap clients)
      /\ reader' = reader /\ writer' = writer /\ joined' = joined /\ received' = received
  BY DEF Deliver, Drop, Dropped, TooSlow
<1>2. /\ send \in [Clients -> Seq(Nat)] /\ received \in [Clients -> Seq(Nat)]
      /\ joined \in [Clients -> Nat] /\ writer \in [Clients -> {"none", "writing", "gone"}]
      /\ log \in Seq(Nat) /\ queue \in Seq(Nat) /\ clients \subseteq Clients
      /\ \A d \in Clients : Feed(d)
      /\ \A d \in clients : Registered(d)
  BY DEF HubInv, FeedInv, OrderInv, MembersInv, ClosedOnce, Registered
<1>3. Head(queue) \in Nat
  BY <1>1, <1>2, HeadAndTail
<1>4. /\ Len(log) \in Nat /\ Len(log') = Len(log) + 1
      /\ \A i \in 1..Len(log) : log'[i] = log[i]
      /\ log'[Len(log) + 1] = Head(queue)
  BY <1>1, <1>2, <1>3, Appended
<1>5. send' \in [Clients -> Seq(Nat)]
  <2>1. \A c \in Clients : Append(send[c], Head(queue)) \in Seq(Nat) /\ send[c] \in Seq(Nat)
    BY <1>2, <1>3, Appended
  <2>2. QED
    BY <1>1, <2>1
<1>6. ASSUME NEW c \in Clients PROVE Feed(c)'
  <2>1. /\ joined'[c] = joined[c] /\ received'[c] = received[c] /\ writer'[c] = writer[c]
        /\ Registered(c)' <=> Registered(c)
        /\ Len(received[c]) \in Nat /\ Len(send[c]) \in Nat /\ joined[c] \in Nat
        /\ Len(send[c]) <= SendCap
    BY <1>1, <1>2 DEF Registered, Feed
  <2>2. CASE ~Registered(c)
    <3>1. send'[c] = send[c]
      BY <1>1, <1>2, <2>2
    <3>2. QED
      BY <1>2, <2>1, <2>2, <3>1 DEF Feed
  <2>3. CASE Registered(c)
    <3>1. /\ Len(received[c]) + Len(send[c]) <= Len(log) - joined[c]
          /\ \A i \in 1..Len(received[c]) : received[c][i] = log[joined[c] + i]
          /\ \A i \in 1..Len(send[c]) : send[c][i] = log[joined[c] + Len(received[c]) + i]
          /\ c \in clients => Len(received[c]) + Len(send[c]) = Len(log) - joined[c]
      BY <1>2, <2>3 DEF Feed, Fed
    <3>2. ASSUME NEW i \in 1..Len(received'[c])
          PROVE  received'[c][i] = log'[joined'[c] + i]
      <4>1. joined[c] + i \in 1..Len(log)
        <5>1. Len(received[c]) + Len(send[c]) <= Len(log) - joined[c] /\ i \in 1..Len(received[c])
          BY <2>1, <3>1
        <5>2. QED
          BY <1>4, <2>1, <5>1, Lengths
      <4>2. QED
        BY <1>4, <2>1, <3>1, <4>1
    <3>3. ASSUME NEW i \in 1..Len(send[c])
          PROVE  send[c][i] = log'[joined'[c] + Len(received'[c]) + i]
      <4>1. joined[c] + Len(received[c]) + i \in 1..Len(log)
        <5>1. Len(received[c]) + Len(send[c]) <= Len(log) - joined[c]
          BY <3>1
        <5>2. QED
          BY <1>4, <2>1, <5>1, Lengths
      <4>2. QED
        BY <1>4, <2>1, <3>1, <4>1
    <3>4. CASE c \in clients /\ Len(send[c]) < SendCap
      <4>1. send'[c] = Append(send[c], Head(queue)) /\ send[c] \in Seq(Nat)
        BY <1>1, <1>2, <3>4
      <4>2. /\ Len(send'[c]) = Len(send[c]) + 1
            /\ \A i \in 1..Len(send[c]) : send'[c][i] = send[c][i]
            /\ send'[c][Len(send[c]) + 1] = Head(queue)
        BY <1>3, <4>1, Appended
      <4>3. /\ joined[c] + Len(received[c]) + (Len(send[c]) + 1) = Len(log) + 1
            /\ Len(received[c]) + (Len(send[c]) + 1) = (Len(log) + 1) - joined[c]
        <5> DEFINE r == Len(received[c])
                   t == Len(send[c])
                   j == joined[c]
                   l == Len(log)
        <5>1. r \in Nat /\ t \in Nat /\ j \in Nat /\ l \in Nat /\ r + t <= l - j /\ r + t = l - j
          BY <1>4, <2>1, <3>1, <3>4
        <5> HIDE DEF r, t, j, l
        <5>2. j + r + (t + 1) = l + 1 /\ r + (t + 1) = (l + 1) - j
          BY <5>1, Lengths
        <5>3. QED
          BY <5>2 DEF r, t, j, l
      <4>4. ASSUME NEW i \in 1..Len(send'[c])
            PROVE  send'[c][i] = log'[joined'[c] + Len(received'[c]) + i]
        <5>1. CASE i \in 1..Len(send[c])
          BY <3>3, <4>2, <5>1
        <5>2. CASE i = Len(send[c]) + 1
          BY <1>4, <2>1, <4>2, <4>3, <5>2
        <5>3. i \in 1..Len(send[c]) \/ i = Len(send[c]) + 1
          <6>1. i \in 1..(Len(send[c]) + 1) /\ Len(send[c]) \in Nat
            BY <2>1, <4>2
          <6>2. QED
            BY <6>1
        <5>4. QED
          BY <5>1, <5>2, <5>3
      <4>5. /\ Len(received'[c]) + Len(send'[c]) = Len(log') - joined'[c]
            /\ Len(received'[c]) + Len(send'[c]) <= Len(log') - joined'[c]
            /\ Len(send'[c]) <= SendCap
        <5>1. Len(received'[c]) = Len(received[c]) /\ Len(send'[c]) = Len(send[c]) + 1
              /\ joined'[c] = joined[c] /\ Len(log') = Len(log) + 1
              /\ Len(send[c]) < SendCap
          BY <1>4, <2>1, <3>4, <4>2
        <5>2. Len(received'[c]) + Len(send'[c]) = Len(log') - joined'[c]
          BY <4>3, <5>1
        <5>3. Len(send[c]) + 1 <= SendCap
          <6>1. Len(send[c]) \in Nat /\ Len(send[c]) < SendCap
            BY <2>1, <5>1
          <6>2. QED
            BY <6>1
        <5>4. Len(log') - joined'[c] \in Int /\ \A k \in Int : k <= k
          BY <1>4, <2>1, <5>1
        <5>5. Len(received'[c]) + Len(send'[c]) <= Len(log') - joined'[c]
          BY <5>2, <5>4
        <5>6. Len(send'[c]) <= SendCap
          BY <5>1, <5>3
        <5>7. QED
          BY <5>2, <5>5, <5>6
      <4>6. Fed(c)'
        BY <3>2, <4>4, <4>5 DEF Fed
      <4>7. QED
        BY <2>1, <2>3, <4>5, <4>6 DEF Feed
    <3>5. CASE ~(c \in clients /\ Len(send[c]) < SendCap)
      <4>1. send'[c] = send[c] /\ c \notin clients'
        <5>1. c \in clients => Len(send[c]) = SendCap
          BY <2>1, <3>5
        <5>2. QED
          BY <1>1, <3>5, <5>1
      <4>2. Len(received'[c]) + Len(send'[c]) <= Len(log') - joined'[c]
        <5>1. /\ Len(received[c]) + Len(send[c]) <= Len(log) - joined[c]
              /\ Len(received'[c]) = Len(received[c]) /\ Len(send'[c]) = Len(send[c])
              /\ joined'[c] = joined[c] /\ Len(log') = Len(log) + 1
          BY <1>4, <2>1, <3>1, <4>1
        <5>2. Len(received[c]) + Len(send[c]) <= (Len(log) + 1) - joined[c]
          BY <1>4, <2>1, <5>1, Lengths
        <5>3. QED
          BY <5>1, <5>2
      <4>3. Fed(c)'
        BY <3>2, <3>3, <4>1, <4>2 DEF Fed
      <4>4. QED
        BY <2>1, <2>3, <4>1, <4>3 DEF Feed
    <3>6. QED
      BY <3>4, <3>5
  <2>4. QED
    BY <2>2, <2>3
<1>7. QED
  BY <1>1, <1>2, <1>5, <1>6 DEF FeedInv

\* Every step keeps the feeds parts of the log.
LEMMA StepKeepsFeeds == SendCap \in Nat /\ HubInv /\ [Next]_vars => FeedInv'
<1> SUFFICES ASSUME SendCap \in Nat, HubInv, [Next]_vars PROVE FeedInv'
  OBVIOUS
<1>1. /\ send \in [Clients -> Seq(Nat)] /\ received \in [Clients -> Seq(Nat)]
      /\ joined \in [Clients -> Nat] /\ writer \in [Clients -> {"none", "writing", "gone"}]
      /\ reader \in [Clients -> ReaderStates] /\ clients \subseteq Clients
      /\ \A d \in Clients : Feed(d)
  BY DEF HubInv, FeedInv, MembersInv
<1>2. ASSUME UNCHANGED <<log, send, received, joined>>,
             \A d \in Clients : Registered(d)' <=> Registered(d),
             writer' = writer \/ \E c \in Clients : writer' = [writer EXCEPT ![c] = "gone"],
             clients' \subseteq clients
      PROVE  FeedInv'
  <2>1. writer' \in [Clients -> {"none", "writing", "gone"}]
    BY <1>1, <1>2
  <2>2. ASSUME NEW d \in Clients PROVE Feed(d)'
    <3>1. writer'[d] = writer[d] \/ writer'[d] = "gone"
      BY <1>1, <1>2
    <3>2. QED
      BY <1>1, <1>2, <3>1, SameFeed
  <2>3. QED
    BY <1>1, <1>2, <2>1, <2>2 DEF FeedInv
<1>3. CASE Broadcast
  BY <1>2, <1>3 DEF Broadcast, Registered
<1>4. ASSUME NEW c \in Clients, Connect(c) \/ ReadFails(c) \/ Unregister(c) PROVE FeedInv'
  <2>1. UNCHANGED <<log, send, received, joined, writer>> /\ clients' \subseteq clients
    BY <1>4 DEF Connect, ReadFails, Unregister, Drop, hubVars
  <2>2. \A d \in Clients : Registered(d)' <=> Registered(d)
    BY <1>1, <1>4 DEF Connect, ReadFails, AfterRead, Unregister, Registered
  <2>3. QED
    BY <1>2, <2>1, <2>2
<1>5. ASSUME NEW c \in Clients, PingFails(c) \/ WriteClose(c) PROVE FeedInv'
  BY <1>2, <1>5 DEF PingFails, WriteClose, WriterEnds, hubVars, Registered
<1>6. ASSUME NEW c \in Clients, Register(c) \/ Write(c) PROVE FeedInv'
  BY <1>6, RegisterKeepsFeeds, WriteKeepsFeeds
<1>7. CASE Deliver
  BY <1>7, DeliverKeepsFeeds
<1>8. CASE UNCHANGED vars
  BY <1>2, <1>8 DEF vars, hubVars, Registered
<1>9. QED
  BY <1>3, <1>4, <1>5, <1>6, <1>7, <1>8 DEF Next, HubStep, WriterStep

-----------------------------------------------------------------------------
(* The indices tell the sequences *)

\* What Run has taken and what waits for it are in the order of the calls.
LEMMA OrderedMessages == OrderInv => Increasing(log \o queue)
<1> SUFFICES ASSUME OrderInv PROVE Increasing(log \o queue)
  OBVIOUS
<1>1. /\ log \in Seq(Nat) /\ queue \in Seq(Nat) /\ Len(log) \in Nat /\ Len(queue) \in Nat
      /\ Rising(log) /\ Rising(queue) /\ \A j \in 1..Len(queue) : Below(log, queue[j])
  BY DEF OrderInv
<1>2. /\ log \o queue \in Seq(Nat) /\ Len(log \o queue) = Len(log) + Len(queue)
      /\ \A i \in 1..(Len(log) + Len(queue)) :
           (log \o queue)[i] = IF i <= Len(log) THEN log[i] ELSE queue[i - Len(log)]
  BY <1>1, ConcatProperties
<1>3. DOMAIN (log \o queue) = 1..(Len(log) + Len(queue))
  BY <1>2, LenProperties
<1>4. ASSUME NEW i \in 1..(Len(log) + Len(queue)), NEW j \in 1..(Len(log) + Len(queue)), i < j
      PROVE  (log \o queue)[i] < (log \o queue)[j]
  <2>1. CASE j <= Len(log)
    <3>1. i \in 1..Len(log) /\ j \in 1..Len(log)
      BY <1>1, <1>4, <2>1
    <3>2. log[i] < log[j]
      BY <1>1, <1>4, <3>1 DEF Rising
    <3>3. (log \o queue)[i] = log[i] /\ (log \o queue)[j] = log[j]
      BY <1>2, <3>1, <2>1
    <3>4. QED
      BY <3>2, <3>3
  <2>2. CASE i <= Len(log) /\ ~(j <= Len(log))
    <3>1. i \in 1..Len(log) /\ j - Len(log) \in 1..Len(queue)
      BY <1>1, <2>2
    <3>2. log[i] < queue[j - Len(log)]
      BY <1>1, <3>1 DEF Below
    <3>3. (log \o queue)[i] = log[i] /\ (log \o queue)[j] = queue[j - Len(log)]
      BY <1>2, <2>2
    <3>4. QED
      BY <3>2, <3>3
  <2>3. CASE ~(i <= Len(log))
    <3>1. /\ i - Len(log) \in 1..Len(queue) /\ j - Len(log) \in 1..Len(queue)
          /\ i - Len(log) < j - Len(log) /\ ~(j <= Len(log))
      BY <1>1, <1>4, <2>3
    <3>2. queue[i - Len(log)] < queue[j - Len(log)]
      BY <1>1, <3>1 DEF Rising
    <3>3. /\ (log \o queue)[i] = queue[i - Len(log)]
          /\ (log \o queue)[j] = queue[j - Len(log)]
      BY <1>2, <2>3, <3>1
    <3>4. QED
      BY <3>2, <3>3
  <2>4. QED
    BY <2>1, <2>2, <2>3
<1>5. QED
  BY <1>3, <1>4 DEF Increasing

\* The two parts of a client's feed, and the log from m + 1 on, index by index.
LEMMA FeedByIndex ==
  ASSUME NEW r \in Seq(Nat), NEW t \in Seq(Nat)
  PROVE  /\ r \o t \in Seq(Nat) /\ Len(r \o t) = Len(r) + Len(t)
         /\ Len(r) \in Nat /\ Len(t) \in Nat
         /\ \A i \in 1..Len(r) : (r \o t)[i] = r[i]
         /\ \A i \in 1..Len(t) : (r \o t)[Len(r) + i] = t[i]
<1>1. Len(r) \in Nat /\ Len(t) \in Nat
  OBVIOUS
<1>2. /\ r \o t \in Seq(Nat) /\ Len(r \o t) = Len(r) + Len(t)
      /\ \A i \in 1..(Len(r) + Len(t)) :
           (r \o t)[i] = IF i <= Len(r) THEN r[i] ELSE t[i - Len(r)]
  BY ConcatProperties
<1>3. ASSUME NEW i \in 1..Len(r) PROVE (r \o t)[i] = r[i]
  <2>1. i \in 1..(Len(r) + Len(t)) /\ i <= Len(r)
    BY <1>1
  <2>2. QED
    BY <1>2, <2>1
<1>4. ASSUME NEW i \in 1..Len(t) PROVE (r \o t)[Len(r) + i] = t[i]
  <2>1. /\ Len(r) + i \in 1..(Len(r) + Len(t)) /\ ~(Len(r) + i <= Len(r))
        /\ (Len(r) + i) - Len(r) = i
    BY <1>1
  <2>2. QED
    BY <1>2, <2>1
<1>5. QED
  BY <1>1, <1>2, <1>3, <1>4

\* The log from where a client joined, index by index.
LEMMA SinceByIndex ==
  ASSUME NEW s \in Seq(Nat), NEW m \in Nat, NEW n \in Nat, m <= n, n <= Len(s)
  PROVE  /\ SubSeq(s, m + 1, n) \in Seq(Nat) /\ Len(SubSeq(s, m + 1, n)) = n - m
         /\ \A i \in 1..(n - m) : SubSeq(s, m + 1, n)[i] = s[m + i]
<1>1. m + 1 \in Int /\ n \in Int /\ Len(s) \in Nat /\ n - (m + 1) + 1 = n - m
  OBVIOUS
<1>2. \A i \in (m + 1)..n : s[i] \in Nat
  BY <1>1, ElementOfSeq
<1>3. /\ SubSeq(s, m + 1, n) \in Seq(Nat)
      /\ Len(SubSeq(s, m + 1, n)) = IF m + 1 <= n THEN n - (m + 1) + 1 ELSE 0
      /\ \A i \in 1..(n - (m + 1) + 1) : SubSeq(s, m + 1, n)[i] = s[(m + 1) + i - 1]
  <2> DEFINE k == m + 1
  <2>1. k \in Int /\ \A i \in k..n : s[i] \in Nat
    BY <1>1, <1>2
  <2> HIDE DEF k
  <2>2. /\ SubSeq(s, k, n) \in Seq(Nat)
        /\ Len(SubSeq(s, k, n)) = IF k <= n THEN n - k + 1 ELSE 0
        /\ \A i \in 1..(n - k + 1) : SubSeq(s, k, n)[i] = s[k + i - 1]
    BY <1>1, <2>1, SubSeqProperties
  <2>3. QED
    BY <2>2 DEF k
<1>4. (IF m + 1 <= n THEN n - (m + 1) + 1 ELSE 0) = n - m
  OBVIOUS
<1>5. \A i \in 1..(n - m) : (m + 1) + i - 1 = m + i
  OBVIOUS
<1>6. QED
  BY <1>1, <1>3, <1>4, <1>5

\* A sequence that agrees with another as far as it goes is a beginning of it.
LEMMA Beginning ==
  ASSUME NEW s \in Seq(Nat), NEW t \in Seq(Nat), Len(s) <= Len(t),
         \A i \in 1..Len(s) : s[i] = t[i]
  PROVE  s = SubSeq(t, 1, Len(s)) /\ (Len(s) = Len(t) => s = t)
<1>1. Len(s) \in Nat /\ Len(t) \in Nat /\ 0 \in Nat /\ 0 <= Len(s)
      /\ 0 + 1 = 1 /\ Len(s) - 0 = Len(s)
  OBVIOUS
<1>2. /\ SubSeq(t, 0 + 1, Len(s)) \in Seq(Nat) /\ Len(SubSeq(t, 0 + 1, Len(s))) = Len(s) - 0
      /\ \A i \in 1..(Len(s) - 0) : SubSeq(t, 0 + 1, Len(s))[i] = t[0 + i]
  BY <1>1, SinceByIndex
<1>3. /\ SubSeq(t, 1, Len(s)) \in Seq(Nat) /\ Len(SubSeq(t, 1, Len(s))) = Len(s)
      /\ \A i \in 1..Len(s) : SubSeq(t, 1, Len(s))[i] = t[i]
  BY <1>1, <1>2
<1>4. s = SubSeq(t, 1, Len(s))
  BY <1>3, SeqEqual
<1>5. Len(s) = Len(t) => s = t
  BY SeqEqual
<1>6. QED
  BY <1>4, <1>5

\* The feed of a client is the log from where it joined, up to some message.
LEMMA FeedIsPartOfLog ==
  ASSUME FeedInv, log \in Seq(Nat), NEW c \in Clients, Registered(c)
  PROVE  LET sent == received[c] \o send[c]
             since == SubSeq(log, joined[c] + 1, Len(log))
         IN /\ sent = SubSeq(since, 1, Len(sent))
            /\ c \in clients => sent = since
<1> DEFINE r == Len(received[c])
           t == Len(send[c])
           j == joined[c]
           l == Len(log)
           sent == received[c] \o send[c]
           since == SubSeq(log, j + 1, l)
<1>1. /\ received[c] \in Seq(Nat) /\ send[c] \in Seq(Nat)
      /\ r \in Nat /\ t \in Nat /\ j \in Nat /\ l \in Nat
  BY DEF FeedInv
<1>2. /\ r + t <= l - j
      /\ \A i \in 1..r : received[c][i] = log[j + i]
      /\ \A i \in 1..t : send[c][i] = log[j + r + i]
      /\ c \in clients => r + t = l - j
  BY DEF FeedInv, Feed, Fed
<1>3. /\ sent \in Seq(Nat) /\ Len(sent) = r + t
      /\ \A i \in 1..r : sent[i] = received[c][i]
      /\ \A i \in 1..t : sent[r + i] = send[c][i]
  BY <1>1, FeedByIndex
<1>4. /\ since \in Seq(Nat) /\ Len(since) = l - j
      /\ \A i \in 1..(l - j) : since[i] = log[j + i]
  <2>1. j <= l /\ l <= Len(log)
    <3> HIDE DEF r, t, j
    <3>1. j <= l
      <4> HIDE DEF l
      <4>1. QED
        BY <1>1, <1>2
    <3>2. QED
      BY <1>1, <3>1
  <2>2. QED
    BY <1>1, <2>1, SinceByIndex
<1> HIDE DEF r, t, j, l, sent, since
<1>5. ASSUME NEW i \in 1..Len(sent) PROVE sent[i] = since[i]
  <2>1. i \in 1..(r + t) /\ i \in 1..(l - j)
    BY <1>1, <1>2, <1>3
  <2>2. since[i] = log[j + i]
    BY <1>4, <2>1
  <2>3. CASE i <= r
    <3>1. i \in 1..r
      BY <1>1, <2>1, <2>3
    <3>2. QED
      BY <1>2, <1>3, <2>2, <3>1
  <2>4. CASE ~(i <= r)
    <3>1. i - r \in 1..t /\ r + (i - r) = i /\ j + r + (i - r) = j + i
      BY <1>1, <2>1, <2>4
    <3>2. sent[r + (i - r)] = send[c][i - r] /\ send[c][i - r] = log[j + r + (i - r)]
      BY <1>2, <1>3, <3>1
    <3>3. QED
      BY <2>2, <3>1, <3>2
  <2>5. QED
    BY <2>3, <2>4
<1>6. Len(sent) <= Len(since) /\ (c \in clients => Len(sent) = Len(since))
  BY <1>1, <1>2, <1>3, <1>4
<1>7. sent = SubSeq(since, 1, Len(sent)) /\ (c \in clients => sent = since)
  BY <1>3, <1>4, <1>5, <1>6, Beginning
<1>8. QED
  BY <1>7 DEF sent, since, j, l

\* A client is sent a part of the log without gaps, from where it joined on, for any
\* clients and capacities: whoever misses a message is sent nothing more.
THEOREM FeedsHaveNoGaps == Spec => []FeedHasNoGaps
<1>1. Init => HubInv
  BY InitHub, CapacitiesAssumption
<1>2. HubInv /\ [Next]_vars => HubInv'
  BY StepKeepsMembers, StepKeepsOrder, StepKeepsFeeds, CapacitiesAssumption DEF HubInv
<1>3. HubInv => FeedHasNoGaps
  <2> SUFFICES ASSUME HubInv PROVE FeedHasNoGaps
    OBVIOUS
  <2>1. OrderInv /\ FeedInv /\ log \in Seq(Nat) /\ Increasing(log \o queue)
    BY OrderedMessages DEF HubInv, OrderInv
  <2>2. \A c \in clients : c \in Clients /\ Registered(c)
    BY DEF HubInv, MembersInv, ClosedOnce, Registered
  <2>3. QED
    BY <2>1, <2>2, FeedIsPartOfLog DEF FeedHasNoGaps, Registered
<1>4. QED
  BY <1>1, <1>2, <1>3, PTL DEF Spec

-----------------------------------------------------------------------------
(* Idempotency, for any requests, keys and number of expiries *)

Accepted(a, k) == a.status = "accepted" /\ a.of \in PlacedBy(k)

\* What the store, the gateway and the answers from the store stand for.
AnswerInv ==
  /\ \A r \in Requests : stage[r] \in {"unsent", "sent"} => service[r] = "idle"
  /\ \A r \in Requests : stage[r] = "answered" /\ answer[r].status # "error" =>
       answer[r] = Answer("accepted", r) /\ service[r] = "placed"
  /\ \A k \in Keys : store[k] # Nothing => Accepted(store[k], k)
  /\ \A r \in replayed : stage[r] = "done" /\ key[r] \in Keys /\ Accepted(answer[r], key[r])

\* The requests of a key that nothing has disturbed: they do not overlap, the answer of
\* one that has placed an order is in the store when the gateway is done with it, and
\* the order-service works on one only while the gateway waits for it and no other has
\* placed an order.
KeyInv ==
  \A k \in Keys \ disturbed : \A r, q \in Requests :
    key[r] = k /\ key[q] = k =>
      /\ Going(r) /\ Going(q) => r = q
      /\ stage[r] = "answered" /\ answer[r].status = "error" => service[r] = "refused"
      /\ service[r] = "placed" /\ stage[r] = "done" => store[k] # Nothing
      /\ service[r] = "busy" => stage[r] = "forwarded" /\ service[q] # "placed"
      /\ service[r] = "placed" /\ service[q] = "placed" => r = q

IdempotencyInv == GatewayTypeOK /\ AnswerInv /\ KeyInv

\* An answer has a status.
LEMMA AnswerTypes ==
  ASSUME NEW r \in Requests
  PROVE  /\ Nothing.status = "none" /\ Nothing \in Answers
         /\ \A s \in {"accepted", "error"} :
              /\ Answer(s, r) \in Answers /\ Answer(s, r) # Nothing
              /\ Answer(s, r).status = s /\ Answer(s, r).of = r
BY DEF Answers, Nothing, Answer

\* No key has been used at the start.
LEMMA InitKeys == GatewayInit => IdempotencyInv
<1> SUFFICES ASSUME GatewayInit PROVE IdempotencyInv
  OBVIOUS
<1>1. GatewayTypeOK
  <2>1. Nothing \in Answers
    BY DEF Answers
  <2>2. expiries \in 0..MaxExpiries
    BY ExpiriesAssumption DEF GatewayInit
  <2>3. QED
    BY <2>1, <2>2 DEF GatewayInit, GatewayTypeOK
<1>2. AnswerInv
  <2>1. \A r \in Requests : stage[r] = "unsent" /\ service[r] = "idle"
    BY DEF GatewayInit
  <2>2. \A k \in Keys : store[k] = Nothing
    BY DEF GatewayInit
  <2>3. replayed = {}
    BY DEF GatewayInit
  <2>4. QED
    BY <2>1, <2>2, <2>3 DEF AnswerInv
<1>3. KeyInv
  BY KeysAssumption DEF GatewayInit, KeyInv
<1>4. QED
  BY <1>1, <1>2, <1>3 DEF IdempotencyInv

-----------------------------------------------------------------------------
(* Steps of the clients, the gateway, the order-service and Redis *)

\* An order that has been placed stays placed under its key.
LEMMA PlacedStays ==
  ASSUME \A r \in Requests : service[r] = "placed" => service'[r] = "placed" /\ key'[r] = key[r]
  PROVE  \A a, k : Accepted(a, k) => a.status = "accepted" /\ a.of \in PlacedBy(k)'
BY DEF Accepted, PlacedBy

\* A client sends a request.
LEMMA SendInv ==
  ASSUME IdempotencyInv, NEW r \in Requests, Send(r) PROVE IdempotencyInv'
<1>1. PICK k \in Keys \cup {NoKey} :
        /\ key' = [key EXCEPT ![r] = k]
        /\ disturbed' = IF \E q \in Requests : key[q] = k /\ Going(q)
                        THEN disturbed \cup ({k} \ {NoKey}) ELSE disturbed
  BY DEF Send
<1>2. /\ stage[r] = "unsent" /\ stage' = [stage EXCEPT ![r] = "sent"]
      /\ UNCHANGED <<service, answer, replayed, store, expiries>>
  BY DEF Send
<1>3. GatewayTypeOK /\ AnswerInv /\ KeyInv
  BY DEF IdempotencyInv
<1>4. GatewayTypeOK'
  BY <1>1, <1>2, <1>3 DEF GatewayTypeOK
<1>5. service[r] = "idle" /\ r \notin replayed
  BY <1>2, <1>3 DEF AnswerInv
<1>6. \A q \in Requests : q # r => key'[q] = key[q] /\ stage'[q] = stage[q]
  BY <1>1, <1>2, <1>3 DEF GatewayTypeOK
<1>7. key'[r] = k /\ stage'[r] = "sent"
  BY <1>1, <1>2, <1>3 DEF GatewayTypeOK
<1>8. \A a, kk : Accepted(a, kk) => Accepted(a, kk)'
  BY <1>2, <1>5, <1>6, PlacedStays DEF Accepted
<1>9. AnswerInv'
  <2>1. \A q \in Requests : stage'[q] \in {"unsent", "sent"} => service'[q] = "idle"
    BY <1>2, <1>3, <1>5, <1>6 DEF AnswerInv
  <2>2. \A q \in Requests : stage'[q] = "answered" /\ answer'[q].status # "error" =>
          answer'[q] = Answer("accepted", q) /\ service'[q] = "placed"
    BY <1>2, <1>3, <1>6, <1>7 DEF AnswerInv
  <2>3. \A kk \in Keys : store'[kk] # Nothing => Accepted(store[kk], kk)'
    BY <1>2, <1>3, <1>8 DEF AnswerInv
  <2>4. \A q \in replayed :
          stage'[q] = "done" /\ key'[q] \in Keys /\ Accepted(answer[q], key[q])'
    <3> SUFFICES ASSUME NEW q \in replayed
                 PROVE  stage'[q] = "done" /\ key'[q] \in Keys /\ Accepted(answer[q], key[q])'
      OBVIOUS
    <3>1. q \in Requests /\ q # r
      BY <1>3, <1>5 DEF GatewayTypeOK
    <3>2. stage[q] = "done" /\ key[q] \in Keys /\ Accepted(answer[q], key[q])
      BY <1>3 DEF AnswerInv
    <3>3. stage'[q] = stage[q] /\ key'[q] = key[q] /\ answer'[q] = answer[q]
      BY <1>2, <1>6, <3>1
    <3>4. Accepted(answer[q], key[q])'
      BY <1>8, <3>2, <3>3 DEF Accepted, PlacedBy
    <3>5. QED
      BY <3>2, <3>3, <3>4
  <2>5. QED
    BY <1>2, <2>1, <2>2, <2>3, <2>4 DEF AnswerInv
<1>10. KeyInv'
  <2> SUFFICES ASSUME NEW kk \in Keys \ disturbed', NEW p \in Requests, NEW q \in Requests,
                      key'[p] = kk, key'[q] = kk
               PROVE  /\ Going(p)' /\ Going(q)' => p = q
                      /\ stage'[p] = "answered" /\ answer[p].status = "error" =>
                           service[p] = "refused"
                      /\ service[p] = "placed" /\ stage'[p] = "done" => store[kk] # Nothing
                      /\ service[p] = "busy" => stage'[p] = "forwarded" /\ service[q] # "placed"
                      /\ service[p] = "placed" /\ service[q] = "placed" => p = q
    BY <1>2 DEF KeyInv
  <2>1. kk \notin disturbed
    BY <1>1
  <2>2. CASE p # r /\ q # r
    BY <1>2, <1>3, <1>6, <2>1, <2>2 DEF KeyInv, Going
  <2>3. \A x \in Requests : x # r /\ key[x] = kk /\ kk = k => ~Going(x)
    BY <1>1, KeysAssumption
  <2>4. \A x \in Requests : x # r => Going(x)' = Going(x)
    BY <1>2, <1>6 DEF Going
  <2>5. CASE p = r \/ q = r
    <3>1. kk = k
      BY <1>7, <2>5
    <3>2. \A x \in Requests : x # r /\ key[x] = kk => ~Going(x) /\ service[x] # "busy"
      BY <2>3, <3>1 DEF Going
    <3>3. \A x \in Requests : x # r /\ key[x] = kk /\ service[x] = "placed" /\ stage[x] = "done" =>
            store[kk] # Nothing
      BY <1>3, <2>1 DEF KeyInv
    <3>4. \A x \in Requests : x # r /\ key[x] = kk /\ stage[x] = "answered" /\ answer[x].status = "error" =>
            service[x] = "refused"
      BY <1>3, <2>1 DEF KeyInv
    <3>5. \A x, y \in Requests :
            x # r /\ y # r /\ key[x] = kk /\ key[y] = kk /\ service[x] = "placed" /\ service[y] = "placed" =>
            x = y
      BY <1>3, <2>1 DEF KeyInv
    <3>6. QED
      BY <1>5, <1>6, <1>7, <2>4, <2>5, <3>2, <3>3, <3>4, <3>5
  <2>6. QED
    BY <2>2, <2>5
<1>11. QED
  BY <1>4, <1>9, <1>10 DEF IdempotencyInv

\* The store has an entry, and the client is answered with it.
LEMMA ReplayInv ==
  ASSUME IdempotencyInv, NEW r \in Requests, Replay(r) PROVE IdempotencyInv'
<1>1. /\ stage[r] = "sent" /\ key[r] # NoKey /\ store[key[r]] # Nothing
      /\ answer' = [answer EXCEPT ![r] = store[key[r]]]
      /\ replayed' = replayed \cup {r}
      /\ stage' = [stage EXCEPT ![r] = "done"]
      /\ UNCHANGED <<key, service, store, expiries, disturbed>>
  BY DEF Replay, Found
<1>2. GatewayTypeOK /\ AnswerInv /\ KeyInv
  BY DEF IdempotencyInv
<1>3. key[r] \in Keys /\ store[key[r]] \in Answers /\ service[r] = "idle"
  BY <1>1, <1>2 DEF GatewayTypeOK, AnswerInv
<1>4. GatewayTypeOK'
  BY <1>1, <1>2, <1>3 DEF GatewayTypeOK
<1>5. /\ stage'[r] = "done" /\ answer'[r] = store[key[r]]
      /\ \A q \in Requests : q # r => stage'[q] = stage[q] /\ answer'[q] = answer[q]
  BY <1>1, <1>2 DEF GatewayTypeOK
<1>6. \A a, k : Accepted(a, k)' = Accepted(a, k)
  BY <1>1 DEF Accepted, PlacedBy
<1>7. AnswerInv'
  <2>1. Accepted(store[key[r]], key[r])
    BY <1>1, <1>2, <1>3 DEF AnswerInv
  <2>2. \A q \in Requests : q \in replayed' =>
          stage'[q] = "done" /\ key'[q] \in Keys /\ Accepted(answer'[q], key[q])
    BY <1>1, <1>2, <1>3, <1>5, <2>1 DEF AnswerInv
  <2>3. replayed' \subseteq Requests
    BY <1>4 DEF GatewayTypeOK
  <2>4. QED
    BY <1>1, <1>2, <1>5, <1>6, <2>2, <2>3 DEF AnswerInv, Accepted, PlacedBy
<1>8. KeyInv'
  BY <1>1, <1>2, <1>3, <1>5 DEF KeyInv, Going
<1>9. QED
  BY <1>4, <1>7, <1>8 DEF IdempotencyInv

\* The request goes to the order-service.
LEMMA ForwardInv ==
  ASSUME IdempotencyInv, NEW r \in Requests, Forward(r) PROVE IdempotencyInv'
<1>1. /\ stage[r] = "sent"
      /\ stage' = [stage EXCEPT ![r] = "forwarded"]
      /\ service' = [service EXCEPT ![r] = "busy"]
      /\ disturbed' = IF key[r] # NoKey /\ store[key[r]] # Nothing
                      THEN disturbed \cup {key[r]} ELSE disturbed
      /\ UNCHANGED <<key, answer, replayed, store, expiries>>
  BY DEF Forward, Found
<1>2. GatewayTypeOK /\ AnswerInv /\ KeyInv
  BY DEF IdempotencyInv
<1>3. GatewayTypeOK'
  BY <1>1, <1>2 DEF GatewayTypeOK
<1>4. /\ stage'[r] = "forwarded" /\ service'[r] = "busy" /\ service[r] = "idle"
      /\ \A q \in Requests : q # r => stage'[q] = stage[q] /\ service'[q] = service[q]
  BY <1>1, <1>2 DEF GatewayTypeOK, AnswerInv
<1>5. \A a, k : Accepted(a, k) => Accepted(a, k)'
  BY <1>1, <1>4, PlacedStays DEF Accepted
<1>6. AnswerInv'
  BY <1>1, <1>2, <1>4, <1>5 DEF AnswerInv
<1>7. KeyInv'
  <2> SUFFICES ASSUME NEW k \in Keys \ disturbed', NEW p \in Requests, NEW q \in Requests,
                      key[p] = k, key[q] = k
               PROVE  /\ Going(p)' /\ Going(q)' => p = q
                      /\ stage'[p] = "answered" /\ answer[p].status = "error" =>
                           service'[p] = "refused"
                      /\ service'[p] = "placed" /\ stage'[p] = "done" => store[k] # Nothing
                      /\ service'[p] = "busy" => stage'[p] = "forwarded" /\ service'[q] # "placed"
                      /\ service'[p] = "placed" /\ service'[q] = "placed" => p = q
    BY <1>1 DEF KeyInv
  <2>1. k \notin disturbed
    BY <1>1
  <2>2. \A x \in Requests : Going(x)' => Going(x)
    BY <1>1, <1>4 DEF Going
  <2>3. key[r] = k => store[k] = Nothing
    BY <1>1, KeysAssumption
  <2>4. key[r] = k => \A x \in Requests : key[x] = k => service[x] # "placed"
    <3> SUFFICES ASSUME key[r] = k, NEW x \in Requests, key[x] = k, service[x] = "placed"
                 PROVE  FALSE
      OBVIOUS
    <3>1. Going(r) /\ x # r
      BY <1>1, <1>4 DEF Going
    <3>2. ~Going(x)
      BY <1>2, <2>1, <3>1 DEF KeyInv
    <3>3. stage[x] = "done"
      BY <1>2, <3>2 DEF Going, AnswerInv
    <3>4. QED
      BY <1>2, <2>1, <2>3, <3>3 DEF KeyInv
  <2>5. QED
    BY <1>2, <1>4, <2>1, <2>2, <2>4 DEF KeyInv
<1>8. QED
  BY <1>3, <1>6, <1>7 DEF IdempotencyInv

\* The order-service has answered.
LEMMA AnsweredInv ==
  ASSUME IdempotencyInv, NEW r \in Requests, Answered(r) PROVE IdempotencyInv'
<1> DEFINE a == Answer(IF service[r] = "placed" THEN "accepted" ELSE "error", r)
<1>1. /\ stage[r] = "forwarded" /\ service[r] \in {"placed", "refused"}
      /\ answer' = [answer EXCEPT ![r] = a]
      /\ stage' = [stage EXCEPT ![r] = "answered"]
      /\ UNCHANGED <<key, service, replayed, store, expiries, disturbed>>
  BY DEF Answered
<1>2. GatewayTypeOK /\ AnswerInv /\ KeyInv
  BY DEF IdempotencyInv
<1>3. /\ a \in Answers
      /\ a.status # "error" => a = Answer("accepted", r) /\ service[r] = "placed"
  BY AnswerTypes
<1> HIDE DEF a
<1>4. GatewayTypeOK'
  BY <1>1, <1>2, <1>3 DEF GatewayTypeOK
<1>5. /\ stage'[r] = "answered" /\ answer'[r] = a
      /\ \A q \in Requests : q # r => stage'[q] = stage[q] /\ answer'[q] = answer[q]
  BY <1>1, <1>2 DEF GatewayTypeOK
<1>6. r \notin replayed
  BY <1>1, <1>2 DEF AnswerInv
<1>7. \A b, k : Accepted(b, k)' = Accepted(b, k)
  BY <1>1 DEF Accepted, PlacedBy
<1>8. AnswerInv'
  BY <1>1, <1>2, <1>3, <1>5, <1>6, <1>7 DEF AnswerInv
<1>9. KeyInv'
  <2>1. a.status = "error" => service[r] = "refused"
    BY <1>1, AnswerTypes DEF a
  <2>2. QED
    BY <1>1, <1>2, <1>5, <2>1 DEF KeyInv, Going
<1>10. QED
  BY <1>4, <1>8, <1>9 DEF IdempotencyInv

\* The order-service is not reached, or its answer is lost.
LEMMA BadGatewayInv ==
  ASSUME IdempotencyInv, NEW r \in Requests, BadGateway(r) PROVE IdempotencyInv'
<1>1. /\ stage[r] = "forwarded"
      /\ answer' = [answer EXCEPT ![r] = Answer("error", r)]
      /\ stage' = [stage EXCEPT ![r] = "answered"]
      /\ disturbed' = disturbed \cup ({key[r]} \ {NoKey})
      /\ UNCHANGED <<key, service, replayed, store, expiries>>
  BY DEF BadGateway
<1>2. GatewayTypeOK /\ AnswerInv /\ KeyInv
  BY DEF IdempotencyInv
<1>3. Answer("error", r) \in Answers /\ Answer("error", r).status = "error"
  BY AnswerTypes
<1>4. GatewayTypeOK'
  BY <1>1, <1>2, <1>3 DEF GatewayTypeOK
<1>5. /\ stage'[r] = "answered" /\ answer'[r] = Answer("error", r)
      /\ \A q \in Requests : q # r => stage'[q] = stage[q] /\ answer'[q] = answer[q]
  BY <1>1, <1>2 DEF GatewayTypeOK
<1>6. r \notin replayed
  BY <1>1, <1>2 DEF AnswerInv
<1>7. \A b, k : Accepted(b, k)' = Accepted(b, k)
  BY <1>1 DEF Accepted, PlacedBy
<1>8. AnswerInv'
  BY <1>1, <1>2, <1>3, <1>5, <1>6, <1>7 DEF AnswerInv
<1>9. KeyInv'
  <2>1. \A k \in Keys \ disturbed' : k \notin disturbed /\ key[r] # k
    BY <1>1, KeysAssumption
  <2>2. QED
    BY <1>1, <1>2, <1>5, <2>1 DEF KeyInv, Going
<1>10. QED
  BY <1>4, <1>8, <1>9 DEF IdempotencyInv

\* The answer is stored when it is no error.
LEMMA FinishInv ==
  ASSUME IdempotencyInv, NEW r \in Requests, Finish(r) PROVE IdempotencyInv'
<1>1. /\ stage[r] = "answered" /\ stage' = [stage EXCEPT ![r] = "done"]
      /\ UNCHANGED <<key, service, answer, replayed, expiries>>
  BY DEF Finish
<1>2. \/ /\ key[r] # NoKey /\ answer[r].status # "error"
         /\ store' = [store EXCEPT ![key[r]] = answer[r]] /\ disturbed' = disturbed
      \/ /\ key[r] # NoKey
         /\ disturbed' = disturbed \cup {key[r]} /\ store' = store
      \/ /\ key[r] = NoKey \/ answer[r].status = "error"
         /\ store' = store /\ disturbed' = disturbed
  BY DEF Finish, Storable, Entry
<1>3. GatewayTypeOK /\ AnswerInv /\ KeyInv
  BY DEF IdempotencyInv
<1>4. key[r] # NoKey => key[r] \in Keys
  BY <1>3 DEF GatewayTypeOK
<1>5. GatewayTypeOK'
  BY <1>1, <1>2, <1>3, <1>4 DEF GatewayTypeOK
<1>6. /\ stage'[r] = "done"
      /\ \A q \in Requests : q # r => stage'[q] = stage[q]
  BY <1>1, <1>3 DEF GatewayTypeOK
<1>7. answer[r].status # "error" =>
        /\ Accepted(answer[r], key[r]) /\ answer[r] # Nothing
        /\ service[r] = "placed"
  BY <1>1, <1>3, AnswerTypes DEF AnswerInv, Accepted, PlacedBy
<1>8. \A b, k : Accepted(b, k)' = Accepted(b, k)
  BY <1>1 DEF Accepted, PlacedBy
<1>9. \A k \in Keys : \/ store'[k] = store[k]
                      \/ store'[k] = answer[r] /\ k = key[r] /\ answer[r].status # "error"
  BY <1>2, <1>3 DEF GatewayTypeOK
<1>10. AnswerInv'
  <2>1. \A k \in Keys : store'[k] # Nothing => Accepted(store'[k], k)
    BY <1>3, <1>7, <1>9 DEF AnswerInv
  <2>2. QED
    BY <1>1, <1>3, <1>6, <1>8, <2>1 DEF AnswerInv
<1>11. KeyInv'
  <2> SUFFICES ASSUME NEW k \in Keys \ disturbed', NEW p \in Requests, NEW q \in Requests,
                      key[p] = k, key[q] = k
               PROVE  /\ Going(p)' /\ Going(q)' => p = q
                      /\ stage'[p] = "answered" /\ answer[p].status = "error" =>
                           service[p] = "refused"
                      /\ service[p] = "placed" /\ stage'[p] = "done" => store'[k] # Nothing
                      /\ service[p] = "busy" => stage'[p] = "forwarded" /\ service[q] # "placed"
                      /\ service[p] = "placed" /\ service[q] = "placed" => p = q
    BY <1>1 DEF KeyInv
  <2>1. k \notin disturbed
    BY <1>2
  <2>2. \A x \in Requests : Going(x)' => Going(x)
    BY <1>1, <1>6 DEF Going
  <2>3. store[k] # Nothing => store'[k] # Nothing
    BY <1>7, <1>9
  <2>4. p = r /\ service[p] = "placed" => store'[k] # Nothing
    <3> SUFFICES ASSUME p = r, service[p] = "placed" PROVE store'[k] # Nothing
      OBVIOUS
    <3>1. key[r] = k /\ k # NoKey
      BY KeysAssumption
    <3>2. CASE answer[r].status # "error"
      BY <1>2, <1>3, <1>7, <3>1, <3>2 DEF GatewayTypeOK
    <3>3. CASE answer[r].status = "error"
      BY <1>1, <1>3, <2>1, <3>1, <3>3 DEF KeyInv
    <3>4. QED
      BY <3>2, <3>3
  <2>5. service[p] = "placed" /\ stage'[p] = "done" => store'[k] # Nothing
    BY <1>3, <1>6, <2>1, <2>3, <2>4 DEF KeyInv
  <2>6. stage'[p] = "answered" /\ answer[p].status = "error" => service[p] = "refused"
    BY <1>3, <1>6, <2>1 DEF KeyInv
  <2>7. service[p] = "busy" => stage'[p] = "forwarded" /\ service[q] # "placed"
    BY <1>1, <1>3, <1>6, <2>1 DEF KeyInv
  <2>8. QED
    BY <1>3, <2>1, <2>2, <2>5, <2>6, <2>7 DEF KeyInv
<1>12. QED
  BY <1>5, <1>10, <1>11 DEF IdempotencyInv

\* The order-service places the order or refuses it.
LEMMA ServeInv ==
  ASSUME IdempotencyInv, NEW r \in Requests, Serve(r) PROVE IdempotencyInv'
<1>1. /\ service[r] = "busy"
      /\ \/ service' = [service EXCEPT ![r] = "placed"]
         \/ service' = [service EXCEPT ![r] = "refused"]
      /\ UNCHANGED <<key, stage, answer, replayed, store, expiries, disturbed>>
  BY DEF Serve
<1>2. GatewayTypeOK /\ AnswerInv /\ KeyInv
  BY DEF IdempotencyInv
<1>3. GatewayTypeOK'
  BY <1>1, <1>2 DEF GatewayTypeOK
<1>4. /\ service'[r] \in {"placed", "refused"}
      /\ \A q \in Requests : q # r => service'[q] = service[q]
  BY <1>1, <1>2 DEF GatewayTypeOK
<1>5. \A a, k : Accepted(a, k) => Accepted(a, k)'
  BY <1>1, <1>4, PlacedStays DEF Accepted
<1>6. stage[r] \notin {"unsent", "sent"}
  BY <1>1, <1>2 DEF AnswerInv
<1>7. AnswerInv'
  BY <1>1, <1>2, <1>4, <1>5, <1>6 DEF AnswerInv
<1>8. KeyInv'
  <2> SUFFICES ASSUME NEW k \in Keys \ disturbed, NEW p \in Requests, NEW q \in Requests,
                      key[p] = k, key[q] = k
               PROVE  /\ Going(p)' /\ Going(q)' => p = q
                      /\ stage[p] = "answered" /\ answer[p].status = "error" =>
                           service'[p] = "refused"
                      /\ service'[p] = "placed" /\ stage[p] = "done" => store[k] # Nothing
                      /\ service'[p] = "busy" => stage[p] = "forwarded" /\ service'[q] # "placed"
                      /\ service'[p] = "placed" /\ service'[q] = "placed" => p = q
    BY <1>1 DEF KeyInv
  <2>1. \A x \in Requests : Going(x)' => Going(x)
    BY <1>1, <1>4 DEF Going
  <2>2. Going(r)
    BY <1>1 DEF Going
  <2>3. key[r] = k => stage[r] = "forwarded"
    BY <1>1, <1>2, <2>2 DEF KeyInv
  <2>4. \A x \in Requests : key[r] = k /\ key[x] = k /\ x # r => service[x] \notin {"busy", "placed"}
    BY <1>1, <1>2, <2>2 DEF KeyInv, Going
  <2>5. QED
    BY <1>2, <1>4, <2>1, <2>3, <2>4 DEF KeyInv
<1>9. QED
  BY <1>3, <1>7, <1>8 DEF IdempotencyInv

\* An entry of the store expires.
LEMMA ExpireInv == ASSUME IdempotencyInv, Expire PROVE IdempotencyInv'
<1>1. PICK k \in Keys : store' = [store EXCEPT ![k] = Nothing] /\ disturbed' = disturbed \cup {k}
  BY DEF Expire
<1>2. /\ expiries < MaxExpiries /\ expiries' = expiries + 1
      /\ UNCHANGED <<key, stage, service, answer, replayed>>
  BY DEF Expire
<1>3. GatewayTypeOK /\ AnswerInv /\ KeyInv
  BY DEF IdempotencyInv
<1>4. GatewayTypeOK'
  <2>1. Nothing \in Answers
    BY DEF Answers
  <2>2. expiries' \in 0..MaxExpiries
    BY <1>2, <1>3, ExpiriesAssumption DEF GatewayTypeOK
  <2>3. QED
    BY <1>1, <1>2, <1>3, <2>1, <2>2 DEF GatewayTypeOK
<1>5. \A q \in Keys : store'[q] = Nothing \/ (store'[q] = store[q] /\ q # k)
  BY <1>1, <1>3 DEF GatewayTypeOK
<1>6. \A q \in Keys \ disturbed' : q \notin disturbed /\ store'[q] = store[q]
  BY <1>1, <1>3 DEF GatewayTypeOK
<1>7. \A b, q : Accepted(b, q)' = Accepted(b, q)
  BY <1>2 DEF Accepted, PlacedBy
<1>8. AnswerInv'
  BY <1>2, <1>3, <1>5, <1>7 DEF AnswerInv
<1>9. KeyInv'
  BY <1>2, <1>3, <1>6 DEF KeyInv, Going
<1>10. QED
  BY <1>4, <1>8, <1>9 DEF IdempotencyInv

\* Every step of the gateway keeps IdempotencyInv.
LEMMA StepKeepsKeys == IdempotencyInv /\ [GatewayNext]_gatewayVars => IdempotencyInv'
<1> SUFFICES ASSUME IdempotencyInv, [GatewayNext]_gatewayVars PROVE IdempotencyInv'
  OBVIOUS
<1>1. CASE Expire
  BY <1>1, ExpireInv
<1>2. ASSUME NEW r \in Requests, Send(r) \/ GatewayStep(r) \/ Serve(r)
      PROVE  IdempotencyInv'
  BY <1>2, SendInv, ReplayInv, ForwardInv, AnsweredInv, BadGatewayInv, FinishInv, ServeInv
     DEF GatewayStep
<1>3. CASE UNCHANGED gatewayVars
  BY <1>3 DEF gatewayVars, IdempotencyInv, GatewayTypeOK, AnswerInv, KeyInv, Going,
              Accepted, PlacedBy
<1>4. QED
  BY <1>1, <1>2, <1>3 DEF GatewayNext

-----------------------------------------------------------------------------
(* The theorems *)

\* The gateway, the store and the order-service stay within IdempotencyInv.
THEOREM IdempotencyInvariant == GatewaySpec => []IdempotencyInv
<1>1. QED
  BY InitKeys, StepKeepsKeys, PTL DEF GatewaySpec

\* What the middleware answers from the store is the acceptance of an order that was
\* placed under the same key (idempotency.go:95-114).
THEOREM ReplaysAreFaithful == GatewaySpec => []ReplayFaithful
<1>1. IdempotencyInv => ReplayFaithful
  BY DEF IdempotencyInv, AnswerInv, Accepted, ReplayFaithful
<1>2. QED
  BY <1>1, IdempotencyInvariant, PTL

\* A key that nothing has disturbed places one order at most, although the middleware
\* reserves nothing between its lookup and its store.
THEOREM KeysPlaceOnce == GatewaySpec => []OneOrderPerKey
<1>1. ASSUME IdempotencyInv, NEW k \in Keys \ disturbed
      PROVE  Cardinality(PlacedBy(k)) <= 1
  <2>1. \A r, q \in PlacedBy(k) : r = q
    BY <1>1 DEF IdempotencyInv, KeyInv, PlacedBy
  <2>2. CASE PlacedBy(k) = {}
    BY <2>2, FS_EmptySet
  <2>3. CASE PlacedBy(k) # {}
    <3>1. PICK r : PlacedBy(k) = {r}
      BY <2>1, <2>3
    <3>2. QED
      BY <3>1, FS_Singleton
  <2>4. QED
    BY <2>2, <2>3
<1>2. IdempotencyInv => OneOrderPerKey
  BY <1>1 DEF OneOrderPerKey
<1>3. QED
  BY <1>2, IdempotencyInvariant, PTL

-----------------------------------------------------------------------------
(* AccountLocks, for any connections, orders and users. Every row has a rank,
   and a transaction locks rows of ascending rank; so, of transactions that all
   wait, the one whose row has the greatest rank can't wait for another of
   them. *)

Rank(x) == IF x[2] = NoCurrency THEN x[1] ELSE NumOrders + 2 * x[1] + x[2]
LastRank == NumOrders + 2 * NumUsers + 2

LocksInv == LockTypeOK /\ Ascending

\* The rows, with their types.
LEMMA RowTypes ==
  /\ \A r \in OrderRows : r[1] \in 1..NumOrders /\ r[2] = 0
  /\ \A r \in AccountRows : r[1] \in 1..NumUsers /\ r[2] \in {1, 2}
  /\ NumOrders \in Nat /\ NumUsers \in Nat
BY LocksAssumption
   DEF OrderRows, OrderRowsOf, AccountRows, OrderIds, Users, Currencies, Base, Quote, NoCurrency

\* Ranks are bounded, and they ascend with the rows.
LEMMA RankAscends ==
  /\ \A x \in Rows : Rank(x) \in 0..LastRank
  /\ \A x, y \in Rows : Before(x, y) => Rank(x) < Rank(y)
<1>1. ASSUME NEW x \in OrderRows
      PROVE  Rank(x) = x[1] /\ Rank(x) \in 1..NumOrders
  BY <1>1, RowTypes DEF Rank, NoCurrency
<1>2. ASSUME NEW x \in AccountRows
      PROVE  /\ Rank(x) = NumOrders + 2 * x[1] + x[2]
             /\ Rank(x) \in (NumOrders + 3)..LastRank
  BY <1>2, RowTypes DEF Rank, NoCurrency, LastRank
<1>3. \A x \in Rows : Rank(x) \in 0..LastRank
  BY <1>1, <1>2, RowTypes DEF Rows, LastRank
<1>4. ASSUME NEW x \in Rows, NEW y \in Rows, Before(x, y)
      PROVE  Rank(x) < Rank(y)
  <2>1. CASE x \in OrderRows /\ y \in OrderRows
    BY <2>1, <1>1, <1>4, RowTypes DEF Before
  <2>2. CASE x \in OrderRows /\ y \in AccountRows
    BY <2>2, <1>1, <1>2, RowTypes
  <2>3. CASE x \in AccountRows /\ y \in AccountRows
    <3>1. x \notin OrderRows /\ y \notin OrderRows
      BY <2>3, RowTypes
    <3>2. x[1] < y[1] \/ (x[1] = y[1] /\ x[2] < y[2])
      BY <3>1, <1>4 DEF Before
    <3>3. QED
      BY <3>2, <2>3, <1>2, RowTypes
  <2>4. CASE x \in AccountRows /\ y \in OrderRows
    <3>1. x \notin OrderRows /\ y \notin AccountRows
      BY <2>4, RowTypes
    <3>2. QED
      BY <3>1, <2>4, <1>4 DEF Before
  <2>5. QED
    BY <2>1, <2>2, <2>3, <2>4 DEF Rows
<1>5. QED
  BY <1>3, <1>4

\* The sets of rows that a transaction sorts have a size.
LEMMA RowsFinite ==
  \A S \in (SUBSET OrderRows) \cup (SUBSET AccountRows) : Cardinality(S) \in Nat
<1>1. IsFiniteSet(OrderIds) /\ IsFiniteSet(Users)
  BY LocksAssumption, FS_Interval DEF OrderIds, Users
<1>2. IsFiniteSet({NoCurrency}) /\ IsFiniteSet(Currencies)
  <2>1. IsFiniteSet({}) /\ IsFiniteSet({NoCurrency}) /\ IsFiniteSet({Base})
    BY FS_EmptySet, FS_Singleton
  <2>2. Currencies = {Base} \cup {Quote} /\ IsFiniteSet({Quote})
    BY FS_Singleton DEF Currencies
  <2>3. QED
    BY <2>1, <2>2, FS_Union
<1>3. IsFiniteSet(OrderRows) /\ IsFiniteSet(AccountRows)
  BY <1>1, <1>2, FS_Product DEF OrderRows, OrderRowsOf, AccountRows
<1>4. ASSUME NEW S \in (SUBSET OrderRows) \cup (SUBSET AccountRows)
      PROVE  Cardinality(S) \in Nat
  <2>1. IsFiniteSet(S)
    BY <1>3, FS_Subset
  <2>2. QED
    BY <2>1, FS_CardinalityType
<1>5. QED
  BY <1>4

\* A list of rows that a transaction may lock.
IsPlan(rows) ==
  /\ rows \in Seq(Rows)
  /\ \A i, j \in DOMAIN rows : i < j => Before(rows[i], rows[j])

\* What sort.Slice returns.
LEMMA SortedIsPlan ==
  ASSUME NEW S \in (SUBSET OrderRows) \cup (SUBSET AccountRows), NEW rows \in InOrder[S]
  PROVE  rows \in Seq(S) /\ IsPlan(rows)
<1>1. /\ rows \in [1..Cardinality(S) -> S]
      /\ \A i, j \in DOMAIN rows : i < j => Before(rows[i], rows[j])
  BY DEF InOrder
<1>2. Cardinality(S) \in Nat
  BY RowsFinite
<1>3. rows \in Seq(S)
  BY <1>1, <1>2
<1>4. S \subseteq Rows
  BY DEF Rows
<1>5. rows \in Seq(Rows)
  BY <1>1, <1>2, <1>4
<1>6. QED
  BY <1>1, <1>3, <1>5 DEF IsPlan

\* A sorted list of orders and one of accounts after it are a plan.
LEMMA OrdersThenAccounts ==
  ASSUME NEW first, NEW second, first \in Seq(OrderRows), second \in Seq(AccountRows),
         IsPlan(first), IsPlan(second)
  PROVE  IsPlan(first \o second)
<1> DEFINE rows == first \o second
<1>1. /\ rows \in Seq(Rows)
      /\ Len(first) \in Nat /\ Len(second) \in Nat
      /\ DOMAIN first = 1..Len(first) /\ DOMAIN second = 1..Len(second)
      /\ DOMAIN rows = 1..(Len(first) + Len(second))
      /\ \A i \in 1..Len(first) : rows[i] = first[i] /\ rows[i] \in OrderRows
      /\ \A i \in (Len(first) + 1)..(Len(first) + Len(second)) :
           rows[i] = second[i - Len(first)] /\ rows[i] \in AccountRows
  BY DEF IsPlan
<1>2. ASSUME NEW i \in DOMAIN rows, NEW j \in DOMAIN rows, i < j
      PROVE  Before(rows[i], rows[j])
  <2>1. CASE j <= Len(first)
    <3>1. /\ i \in DOMAIN first /\ j \in DOMAIN first
          /\ rows[i] = first[i] /\ rows[j] = first[j]
      BY <1>1, <1>2, <2>1
    <3>2. QED
      BY <3>1, <1>2 DEF IsPlan
  <2>2. CASE i > Len(first)
    <3>1. /\ i - Len(first) \in DOMAIN second /\ j - Len(first) \in DOMAIN second
          /\ rows[i] = second[i - Len(first)] /\ rows[j] = second[j - Len(first)]
          /\ i - Len(first) < j - Len(first)
      BY <1>1, <1>2, <2>2
    <3>2. QED
      BY <3>1 DEF IsPlan
  <2>3. CASE i <= Len(first) /\ j > Len(first)
    <3>1. rows[i] \in OrderRows /\ rows[j] \in AccountRows
      BY <1>1, <1>2, <2>3
    <3>2. QED
      BY <3>1 DEF Before
  <2>4. QED
    BY <1>1, <1>2, <2>1, <2>2, <2>3
<1>3. QED
  BY <1>1, <1>2 DEF IsPlan

-----------------------------------------------------------------------------
(* What a transaction begins with *)

\* One row, or two that are in order.
LEMMA ShortPlans ==
  /\ \A x \in Rows : IsPlan(<<x>>)
  /\ \A x, y \in Rows : Before(x, y) => IsPlan(<<x, y>>)
BY DEF IsPlan

\* Every transaction begins with a plan.
LEMMA BeginsWithPlan ==
  ASSUME NEW c \in Connections, ApiStep(c) \/ SettlementStep(c)
  PROVE  \E rows : IsPlan(rows) /\ Begin(c, rows)
<1>1. CASE PlaceOrder(c)
  BY <1>1, ShortPlans DEF PlaceOrder, Rows
<1>2. CASE BatchPlaceOrders(c)
  <2>1. PICK S \in SUBSET AccountRows : \E rows \in InOrder[S] : Begin(c, rows)
    BY <1>2 DEF BatchPlaceOrders
  <2>2. PICK rows \in InOrder[S] : Begin(c, rows)
    BY <2>1
  <2>3. IsPlan(rows)
    BY SortedIsPlan
  <2>4. QED
    BY <2>2, <2>3
<1>3. CASE CancelOrder(c)
  BY <1>3, ShortPlans DEF CancelOrder, Rows
<1>4. CASE Recharge(c)
  <2>1. PICK u \in Users : Begin(c, <<AccountRow(u, Base), AccountRow(u, Quote)>>)
    BY <1>4 DEF Recharge
  <2>2. /\ AccountRow(u, Base) \in AccountRows /\ AccountRow(u, Quote) \in AccountRows
        /\ AccountRow(u, Base)[1] = u /\ AccountRow(u, Quote)[1] = u
        /\ AccountRow(u, Base)[2] = 1 /\ AccountRow(u, Quote)[2] = 2
    BY DEF AccountRow, AccountRows, Currencies, Base, Quote
  <2>3. AccountRow(u, Base) \notin OrderRows /\ AccountRow(u, Quote) \notin OrderRows
    BY <2>2, RowTypes
  <2>4. Before(AccountRow(u, Base), AccountRow(u, Quote))
    BY <2>2, <2>3 DEF Before
  <2>5. QED
    BY <2>1, <2>2, <2>4, ShortPlans DEF Rows
<1>5. CASE Settle(c)
  <2>1. PICK ids \in (SUBSET OrderIds) \ {{}} : \E S \in SUBSET AccountsOf(ids) :
          \E first \in InOrder[OrderRowsOf(ids)], second \in InOrder[S] :
            Begin(c, first \o second)
    BY <1>5 DEF Settle
  <2>2. PICK S \in SUBSET AccountsOf(ids) :
          \E first \in InOrder[OrderRowsOf(ids)], second \in InOrder[S] :
            Begin(c, first \o second)
    BY <2>1
  <2>3. OrderRowsOf(ids) \in SUBSET OrderRows
    BY DEF OrderRowsOf, OrderRows
  <2>4. S \in SUBSET AccountRows
    BY LocksAssumption DEF AccountsOf, AccountRows
  <2>5. PICK first \in InOrder[OrderRowsOf(ids)], second \in InOrder[S] :
          Begin(c, first \o second)
    BY <2>2
  <2>6. first \in Seq(OrderRows) /\ IsPlan(first)
    <3>1. first \in Seq(OrderRowsOf(ids)) /\ IsPlan(first)
      BY <2>3, SortedIsPlan
    <3>2. QED
      BY <3>1, <2>3
  <2>7. second \in Seq(AccountRows) /\ IsPlan(second)
    <3>1. second \in Seq(S) /\ IsPlan(second)
      BY <2>4, SortedIsPlan
    <3>2. QED
      BY <3>1, <2>4
  <2>8. QED
    BY <2>5, <2>6, <2>7, OrdersThenAccounts
<1>6. CASE SettleCancel(c)
  <2>1. PICK o \in OrderIds, cur \in Currencies :
          Begin(c, <<OrderRow(o), AccountRow(Owner[o], cur)>>)
    BY <1>6 DEF SettleCancel
  <2>2. OrderRow(o) \in OrderRows /\ AccountRow(Owner[o], cur) \in AccountRows
    BY LocksAssumption DEF OrderRow, OrderRows, OrderRowsOf, AccountRow, AccountRows
  <2>3. Before(OrderRow(o), AccountRow(Owner[o], cur))
    BY <2>2 DEF Before
  <2>4. QED
    BY <2>1, <2>2, <2>3, ShortPlans DEF Rows
<1>7. QED
  BY <1>1, <1>2, <1>3, <1>4, <1>5, <1>6 DEF ApiStep, SettlementStep

-----------------------------------------------------------------------------
(* The invariant *)

\* Nothing is locked at the start.
LEMMA InitLocks == LockInit => LocksInv
BY DEF LockInit, LocksInv, LockTypeOK, Ascending

\* A transaction begins with its plan.
LEMMA BeginKeeps ==
  ASSUME LocksInv, NEW c \in Connections, NEW rows, IsPlan(rows), Begin(c, rows)
  PROVE  LocksInv'
<1>1. /\ held' = held /\ held[c] = {}
      /\ todo' = [todo EXCEPT ![c] = rows] /\ rows \in Seq(Rows)
      /\ held \in [Connections -> SUBSET Rows] /\ todo \in [Connections -> Seq(Rows)]
  BY DEF Begin, Active, IsPlan, LocksInv, LockTypeOK
<1>2. LockTypeOK'
  BY <1>1 DEF LocksInv, LockTypeOK
<1>3. ASSUME NEW d \in Connections
      PROVE  /\ \A i, j \in DOMAIN todo'[d] : i < j => Before(todo'[d][i], todo'[d][j])
             /\ \A row \in held'[d] : \A i \in DOMAIN todo'[d] : Before(row, todo'[d][i])
  <2>1. CASE d = c
    BY <1>1, <2>1 DEF IsPlan
  <2>2. CASE d # c
    BY <1>1, <2>2 DEF LocksInv, Ascending
  <2>3. QED
    BY <2>1, <2>2
<1>4. QED
  BY <1>2, <1>3 DEF LocksInv, Ascending

\* A transaction locks the next row of its plan.
LEMMA LockKeeps ==
  ASSUME LocksInv, NEW c \in Connections, Lock(c)
  PROVE  LocksInv'
<1> DEFINE row == Head(todo[c])
<1>1. /\ held \in [Connections -> SUBSET Rows] /\ todo \in [Connections -> Seq(Rows)]
      /\ todo[c] # <<>> /\ todo[c] \in Seq(Rows)
      /\ \A d \in Connections : row \notin held[d]
  BY DEF Lock, Free, LocksInv, LockTypeOK
<1>2. /\ row \in Rows /\ row = todo[c][1] /\ 1 \in DOMAIN todo[c]
      /\ Tail(todo[c]) \in Seq(Rows)
      /\ \A i \in DOMAIN Tail(todo[c]) :
           i + 1 \in DOMAIN todo[c] /\ 1 < i + 1 /\ Tail(todo[c])[i] = todo[c][i + 1]
      /\ \A i \in DOMAIN Tail(todo[c]) : i \in Nat
  BY <1>1
<1>3. /\ held' = [held EXCEPT ![c] = held[c] \cup {row}]
      /\ todo' = [todo EXCEPT ![c] = Tail(todo[c])]
  BY DEF Lock
<1>4. LockTypeOK'
  <2>1. held' \in [Connections -> SUBSET Rows] /\ todo' \in [Connections -> Seq(Rows)]
    BY <1>1, <1>2, <1>3
  <2>2. \A d, e \in Connections : d # e => held'[d] \cap held'[e] = {}
    BY <1>1, <1>3 DEF LocksInv, LockTypeOK
  <2>3. QED
    BY <2>1, <2>2 DEF LockTypeOK
<1>5. ASSUME NEW d \in Connections
      PROVE  /\ \A i, j \in DOMAIN todo'[d] : i < j => Before(todo'[d][i], todo'[d][j])
             /\ \A x \in held'[d] : \A i \in DOMAIN todo'[d] : Before(x, todo'[d][i])
  <2>1. CASE d = c
    <3>1. todo'[d] = Tail(todo[c]) /\ held'[d] = held[c] \cup {row}
      BY <1>1, <1>3, <2>1
    <3>2. \A i, j \in DOMAIN todo[c] : i < j => Before(todo[c][i], todo[c][j])
      BY DEF LocksInv, Ascending
    <3>3. \A x \in held[c] : \A i \in DOMAIN todo[c] : Before(x, todo[c][i])
      BY DEF LocksInv, Ascending
    <3>4. ASSUME NEW i \in DOMAIN Tail(todo[c]), NEW j \in DOMAIN Tail(todo[c]), i < j
          PROVE  Before(Tail(todo[c])[i], Tail(todo[c])[j])
      <4>1. i + 1 \in DOMAIN todo[c] /\ j + 1 \in DOMAIN todo[c] /\ i + 1 < j + 1
        BY <1>2, <3>4
      <4>2. QED
        BY <4>1, <3>2, <1>2
    <3>5. ASSUME NEW x \in held[c] \cup {row}, NEW i \in DOMAIN Tail(todo[c])
          PROVE  Before(x, Tail(todo[c])[i])
      <4>1. i + 1 \in DOMAIN todo[c] /\ 1 < i + 1 /\ Tail(todo[c])[i] = todo[c][i + 1]
        BY <1>2
      <4>2. CASE x \in held[c]
        BY <4>1, <4>2, <3>3
      <4>3. CASE x = row
        BY <4>1, <4>3, <3>2, <1>2
      <4>4. QED
        BY <4>2, <4>3
    <3>6. QED
      BY <3>1, <3>4, <3>5
  <2>2. CASE d # c
    BY <1>1, <1>3, <2>2 DEF LocksInv, Ascending
  <2>3. QED
    BY <2>1, <2>2
<1>6. QED
  BY <1>4, <1>5 DEF LocksInv, Ascending

\* COMMIT and ROLLBACK
LEMMA EndKeeps ==
  ASSUME LocksInv, NEW c \in Connections, Commit(c) \/ Rollback(c)
  PROVE  LocksInv'
<1>1. /\ held' = [held EXCEPT ![c] = {}]
      /\ todo' = [todo EXCEPT ![c] = <<>>]
  BY DEF Commit, Rollback, LocksInv, LockTypeOK
<1>2. QED
  BY <1>1 DEF LocksInv, LockTypeOK, Ascending

\* Every step of a transaction keeps LocksInv.
LEMMA StepKeepsLocks == LocksInv /\ [LockNext]_lockVars => LocksInv'
<1> SUFFICES ASSUME LocksInv, [LockNext]_lockVars PROVE LocksInv'
  OBVIOUS
<1>1. ASSUME NEW c \in Connections, ApiStep(c) \/ SettlementStep(c) PROVE LocksInv'
  BY <1>1, BeginsWithPlan, BeginKeeps
<1>2. ASSUME NEW c \in Connections, Lock(c) PROVE LocksInv'
  BY <1>2, LockKeeps
<1>3. ASSUME NEW c \in Connections, Commit(c) \/ Rollback(c) PROVE LocksInv'
  BY <1>3, EndKeeps
<1>4. CASE UNCHANGED lockVars
  BY <1>4 DEF lockVars, LocksInv, LockTypeOK, Ascending
<1>5. QED
  BY <1>1, <1>2, <1>3, <1>4 DEF LockNext, DatabaseStep

\* The type invariant and the ascending plans hold for any connections, orders and users.
THEOREM LocksInvariant == LockSpec => []LocksInv
<1>1. QED
  BY InitLocks, StepKeepsLocks, PTL DEF LockSpec

\* Wherever it is, a transaction that waits waits for a row of less rank than its holder
\* needs.
LEMMA WaitsAscend ==
  ASSUME LocksInv, NEW c \in Connections, NEW d \in Connections,
         WaitsFor(c, d), todo[d] # <<>>
  PROVE  /\ Head(todo[c]) \in Rows /\ Head(todo[d]) \in Rows
         /\ Rank(Head(todo[c])) < Rank(Head(todo[d]))
<1>1. /\ todo[c] \in Seq(Rows) /\ todo[d] \in Seq(Rows)
      /\ todo[c] # <<>> /\ Head(todo[c]) \in held[d]
  BY DEF WaitsFor, LocksInv, LockTypeOK
<1>2. /\ Head(todo[c]) \in Rows /\ Head(todo[d]) \in Rows
      /\ 1 \in DOMAIN todo[d] /\ Head(todo[d]) = todo[d][1]
  BY <1>1
<1>3. Before(Head(todo[c]), Head(todo[d]))
  BY <1>1, <1>2 DEF LocksInv, Ascending
<1>4. QED
  BY <1>2, <1>3, RankAscends

\* A nonempty set of natural numbers has a least one.
LEMMA LeastExists ==
  ASSUME NEW T \in SUBSET Nat, T # {}
  PROVE  \E x \in T : \A y \in T : ~(y < x)
<1>1. PICK x \in T : \A y \in T : ~(<<y, x>> \in OpToRel(<, Nat))
  BY NatLessThanWellFounded, WFMin, Zenon
<1>2. \A y \in T : y < x => <<y, x>> \in OpToRel(<, Nat)
  BY DEF OpToRel
<1>3. QED
  BY <1>1, <1>2, Zenon

\* A nonempty set of numbers up to a bound has a greatest one.
LEMMA GreatestExists ==
  ASSUME NEW n \in Nat, NEW T \in SUBSET (0..n), T # {}
  PROVE  \E x \in T : \A y \in T : y <= x
<1> DEFINE U == {k \in 0..n : n - k \in T}
<1>1. U \subseteq Nat /\ U # {}
  <2>1. PICK t : t \in T
    OBVIOUS
  <2>2. t \in 0..n /\ n - t \in 0..n /\ n - (n - t) = t
    BY <2>1
  <2>3. n - t \in U
    BY <2>1, <2>2
  <2>4. QED
    BY <2>3
<1>2. PICK k \in U : \A j \in U : ~(j < k)
  BY <1>1, LeastExists
<1>3. n - k \in T
  BY <1>2
<1>4. ASSUME NEW y \in T PROVE y <= n - k
  <2>1. y \in 0..n /\ n - y \in 0..n /\ n - (n - y) = y
    OBVIOUS
  <2>2. n - y \in U
    BY <2>1
  <2>3. ~(n - y < k) /\ k \in Nat
    BY <1>1, <1>2, <2>2
  <2>4. QED
    BY <2>1, <2>3
<1>5. QED
  BY <1>3, <1>4

\* No transactions of the order-service wait for each other in a circle, however many
\* connections, orders and users there are.
THEOREM NeverDeadlocked == LockSpec => []NoDeadlock
<1>1. ASSUME LocksInv PROVE NoDeadlock
  <2>1. SUFFICES ASSUME NEW S \in SUBSET Connections, S # {},
                        \A c \in S : \E d \in S : WaitsFor(c, d)
                 PROVE  FALSE
    BY DEF NoDeadlock
  <2> DEFINE T == {Rank(Head(todo[c])) : c \in S}
  <2>2. \A c \in S : todo[c] # <<>>
    BY <2>1 DEF WaitsFor
  <2>3. ASSUME NEW c \in S
        PROVE  \E d \in S : Rank(Head(todo[c])) < Rank(Head(todo[d]))
    BY <1>1, <2>1, <2>2, WaitsAscend
  <2>4. ASSUME NEW c \in S PROVE Rank(Head(todo[c])) \in 0..LastRank
    <3>1. Head(todo[c]) \in Rows
      BY <1>1, <2>1, <2>2, WaitsAscend
    <3>2. QED
      BY <3>1, RankAscends
  <2>5. LastRank \in Nat
    BY RowTypes DEF LastRank
  <2>6. T \in SUBSET (0..LastRank) /\ T # {}
    BY <2>1, <2>4
  <2>7. PICK x \in T : \A y \in T : y <= x
    BY <2>5, <2>6, GreatestExists
  <2>8. PICK c \in S : x = Rank(Head(todo[c]))
    BY <2>7
  <2>9. PICK d \in S : Rank(Head(todo[c])) < Rank(Head(todo[d]))
    BY <2>3
  <2>10. Rank(Head(todo[d])) <= Rank(Head(todo[c]))
    BY <2>7, <2>8
  <2>11. QED
    BY <2>4, <2>9, <2>10
<1>2. QED
  BY <1>1, LocksInvariant, PTL

-----------------------------------------------------------------------------
(* RateLimiter, for any limiters whose buckets fill between the time to live of the
   keys and the timeout of a request. While the bucket exists, what was admitted and
   what it still holds is paid for by one full bucket and by the refill up to the
   bucket's time; and when its keys expire a full bucket's refill has passed since,
   even for the oldest request under way. *)

MaxRate == Limiter!MaxRate
MaxCapacity == Limiter!MaxCapacity

\* Requests wait no longer than the timeout.
InTime == \A r \in InFlight : request[r] # Limiter!None => clock <= request[r].now + Timeout

\* What the bucket has paid for.
BucketPays ==
  bucket # Limiter!None =>
    /\ admitted + bucket.tokens <= MaxCapacity + MaxRate * (bucket.now + setback)
    /\ MaxCapacity <= MaxRate * (expires - Timeout - bucket.now)

\* Without a bucket, a full one can be given to any request under way.
NoBucketPays ==
  bucket = Limiter!None => admitted = 0 \/ admitted <= MaxRate * (clock - Timeout + setback)

LimiterInv == Limiter!TypeOK /\ InTime /\ BucketPays /\ NoBucketPays

\* A finite set of numbers has a greatest.
LEMMA GreatestIs ==
  ASSUME NEW S, S \subseteq Nat, IsFiniteSet(S), S # {}
  PROVE  /\ Limiter!Greatest(S) \in S
         /\ \A y \in S : y <= Limiter!Greatest(S)
<1> DEFINE Tops(B) == {x \in B : \A y \in B : x >= y}
           Bad == {B \in SUBSET S : B # {} /\ Tops(B) = {}}
<1>1. Bad = {}
  <2> SUFFICES ASSUME Bad # {} PROVE FALSE
    OBVIOUS
  <2>1. PICK B \in Bad : \A x \in B : B \ {x} \notin Bad
    BY SmallestSubset
  <2>2. PICK x \in B : TRUE
    BY <2>1
  <2>3. CASE B \ {x} = {}
    <3>1. x \in Tops(B)
      BY <2>1, <2>2, <2>3
    <3>2. QED
      BY <2>1, <3>1
  <2>4. CASE B \ {x} # {}
    <3>1. Tops(B \ {x}) # {}
      BY <2>1, <2>2, <2>4
    <3>2. PICK z \in Tops(B \ {x}) : TRUE
      BY <3>1
    <3>3. x \in Nat /\ z \in Nat /\ B \subseteq Nat
      BY <2>1, <2>2, <3>2
    <3>4. x \in Tops(B) \/ z \in Tops(B)
      BY <2>2, <3>2, <3>3
    <3>5. QED
      BY <2>1, <3>4
  <2>5. QED
    BY <2>3, <2>4
<1>2. \E x \in S : \A y \in S : x >= y
  BY <1>1
<1>3. /\ Limiter!Greatest(S) \in S
      /\ \A y \in S : Limiter!Greatest(S) >= y
  BY <1>2 DEF Limiter!Greatest
<1>4. QED
  BY <1>3

\* The largest rate and capacity bound those of every limiter.
LEMMA LimitsAre ==
  /\ MaxRate \in Nat /\ MaxCapacity \in Nat
  /\ \A l \in Limiters : /\ l.rate \in Nat \ {0} /\ l.rate <= MaxRate
                         /\ l.capacity \in Nat \ {0} /\ l.capacity <= MaxCapacity
<1> DEFINE rates == {l.rate : l \in Limiters}
           capacities == {l.capacity : l \in Limiters}
<1>1. \A l \in Limiters : l.rate \in Nat \ {0} /\ l.capacity \in Nat \ {0}
  BY LimitersAssumption
<1>2. rates \subseteq Nat /\ capacities \subseteq Nat /\ rates # {} /\ capacities # {}
  BY <1>1, LimitersAssumption
<1>3. IsFiniteSet(rates) /\ IsFiniteSet(capacities)
  <2>1. PICK b : b = [l \in Limiters |-> l.rate]
    OBVIOUS
  <2>2. IsFiniteSet({b[l] : l \in Limiters})
    BY LimitersAssumption, FiniteImage
  <2>3. PICK d : d = [l \in Limiters |-> l.capacity]
    OBVIOUS
  <2>4. IsFiniteSet({d[l] : l \in Limiters})
    BY LimitersAssumption, FiniteImage
  <2>5. {b[l] : l \in Limiters} = rates /\ {d[l] : l \in Limiters} = capacities
    BY <2>1, <2>3
  <2>6. QED
    BY <2>2, <2>4, <2>5
<1>4. MaxRate = Limiter!Greatest(rates) /\ MaxCapacity = Limiter!Greatest(capacities)
  BY DEF MaxRate, MaxCapacity, Limiter!MaxRate, Limiter!MaxCapacity
<1>5. /\ MaxRate \in rates /\ \A y \in rates : y <= MaxRate
      /\ MaxCapacity \in capacities /\ \A y \in capacities : y <= MaxCapacity
  <2> HIDE DEF rates, capacities
  <2>1. QED
    BY <1>2, <1>3, <1>4, GreatestIs
<1>6. QED
  BY <1>1, <1>2, <1>5

\* Facts about products that the solvers need one at a time.
LEMMA Products ==
  /\ \A n \in Nat, x \in Int : n * x \in Int
  /\ \A n \in Nat, x, y \in Int : n * (x + y) = n * x + n * y
  /\ \A n \in Nat, x, y \in Int : x <= y => n * x <= n * y
  /\ \A n, k \in Nat, x \in Nat : n <= k => x * n <= k * x
<1>1. \A n \in Nat, x \in Int : n * x \in Int
  OBVIOUS
<1>2. \A n \in Nat, x, y \in Int : n * (x + y) = n * x + n * y
  OBVIOUS
<1>3. \A n \in Nat, x, y \in Int : x <= y => n * x <= n * y
  <2> SUFFICES ASSUME NEW n \in Nat, NEW x \in Int, NEW y \in Int, x <= y PROVE n * x <= n * y
    OBVIOUS
  <2>1. PICK d \in Nat : y = x + d
    <3>1. y - x \in Nat /\ y = x + (y - x)
      OBVIOUS
    <3>2. QED
      BY <3>1
  <2>2. n * y = n * x + n * d /\ n * d \in Nat /\ n * x \in Int
    BY <2>1, <1>1, <1>2
  <2>3. QED
    BY <2>2
<1>4. \A n, k \in Nat, x \in Nat : n <= k => x * n <= k * x
  <2> SUFFICES ASSUME NEW n \in Nat, NEW k \in Nat, NEW x \in Nat, n <= k PROVE x * n <= k * x
    OBVIOUS
  <2>1. x * n <= x * k
    BY <1>3
  <2>2. x * k = k * x
    OBVIOUS
  <2>3. QED
    BY <2>1, <2>2
<1>5. QED
  BY <1>1, <1>2, <1>3, <1>4

\* Keys live for a number of ticks.
LEMMA TtlIsNat == \A l \in Limiters : Limiter!Ttl(l) \in Nat
<1> SUFFICES ASSUME NEW l \in Limiters PROVE Limiter!Ttl(l) \in Nat
  OBVIOUS
<1>1. l.rate \in Nat \ {0} /\ l.capacity \in Nat \ {0} /\ MinTtl \in Nat
  BY LimitsAre, LimitersAssumption
<1>2. (2 * l.capacity) \div l.rate \in Int
  <2>1. \A n \in Nat, k \in Nat \ {0} : n \div k \in Int
    OBVIOUS
  <2>2. 2 * l.capacity \in Nat
    BY <1>1
  <2>3. QED
    BY <1>1, <2>1, <2>2
<1>3. QED
  BY <1>1, <1>2 DEF Limiter!Ttl, Limiter!Larger

\* A bucket is a time and a number of tokens.
LEMMA BucketIs ==
  ASSUME Limiter!TypeOK, bucket # Limiter!None
  PROVE  bucket.now \in 0..clock /\ bucket.tokens \in 0..MaxCapacity
BY DEF Limiter!TypeOK, MaxCapacity

\* What the script finds in the bucket is paid for at the time it is given.
LEMMA FilledPays ==
  ASSUME LimiterInv, NEW l \in Limiters, NEW now \in 0..clock, clock <= now + Timeout,
         Limiter!Script(l, now)
  PROVE  /\ Limiter!Filled(l, now) \in 0..l.capacity
         /\ setback' \in Nat
         /\ admitted + Limiter!Filled(l, now) <= MaxCapacity + MaxRate * (now + setback')
<1>1. /\ MaxRate \in Nat /\ MaxCapacity \in Nat /\ Timeout \in Nat
      /\ l.rate \in Nat /\ l.rate <= MaxRate
      /\ l.capacity \in Nat /\ l.capacity <= MaxCapacity
  BY LimitsAre, LimitersAssumption
<1>2. clock \in Nat /\ admitted \in Nat /\ setback \in Nat
  BY DEF LimiterInv, Limiter!TypeOK
<1> DEFINE filled == Limiter!Filled(l, now)
<1>3. CASE bucket = Limiter!None
  <2>1. filled = l.capacity /\ setback' = setback
    BY <1>3 DEF Limiter!Filled, Limiter!Script
  <2>2. admitted <= MaxRate * (now + setback)
    <3>1. CASE admitted = 0
      BY <1>1, <1>2, <3>1, Products
    <3>2. CASE admitted <= MaxRate * (clock - Timeout + setback)
      <4>1. clock - Timeout + setback \in Int /\ now + setback \in Int
            /\ clock - Timeout + setback <= now + setback
        BY <1>1, <1>2
      <4>2. MaxRate * (clock - Timeout + setback) <= MaxRate * (now + setback)
        BY <1>1, <4>1, Products
      <4>3. QED
        BY <1>1, <1>2, <3>2, <4>1, <4>2, Products
    <3>3. QED
      BY <1>3, <3>1, <3>2 DEF LimiterInv, NoBucketPays
  <2>3. MaxRate * (now + setback) \in Int
    BY <1>1, <1>2, Products
  <2>4. QED
    BY <1>1, <1>2, <2>1, <2>2, <2>3
<1>4. CASE bucket # Limiter!None
  <2>1. PICK b, t : b = bucket.now /\ t = bucket.tokens
    OBVIOUS
  <2>2. b \in 0..clock /\ t \in 0..MaxCapacity
        /\ admitted + t <= MaxCapacity + MaxRate * (b + setback)
    BY <1>4, <2>1, BucketIs DEF LimiterInv, BucketPays
  <2>3. PICK d \in Nat : d = Limiter!Larger(0, now - b)
    BY <1>2, <2>2 DEF Limiter!Larger
  <2>4. d * l.rate \in Nat /\ d * l.rate <= MaxRate * d
    BY <1>1, Products, <2>3
  <2>5. filled = Limiter!Smaller(l.capacity, t + d * l.rate)
    BY <1>4, <2>1, <2>3 DEF Limiter!Filled
  <2>6. filled \in 0..l.capacity /\ filled <= t + MaxRate * d
    <3>1. PICK x : x = d * l.rate
      OBVIOUS
    <3>2. PICK y : y = MaxRate * d
      OBVIOUS
    <3>3. x \in Nat /\ y \in Int /\ x <= y /\ filled = Limiter!Smaller(l.capacity, t + x)
      BY <1>1, <2>3, <2>4, <2>5, <3>1, <3>2, Products
    <3>4. QED
      BY <1>1, <2>2, <3>2, <3>3 DEF Limiter!Smaller
  <2>7. setback' \in Nat /\ (b + setback) + d = now + setback'
    BY <1>2, <1>4, <2>1, <2>2, <2>3 DEF Limiter!Script, Limiter!Larger
  <2>8. MaxRate * (now + setback') = MaxRate * (b + setback) + MaxRate * d
    BY <1>1, <1>2, <2>2, <2>3, <2>7, Products
  <2>9. MaxRate * (b + setback) \in Int /\ MaxRate * d \in Int
    BY <1>1, <1>2, <2>2, <2>3, Products
  <2>10. PICK x, y : x = MaxRate * (b + setback) /\ y = MaxRate * d
    OBVIOUS
  <2>11. /\ x \in Int /\ y \in Int /\ filled <= t + y
         /\ admitted + t <= MaxCapacity + x
         /\ MaxRate * (now + setback') = x + y
    BY <2>2, <2>6, <2>8, <2>9, <2>10
  <2>12. PICK g, m : g = filled /\ m = MaxRate * (now + setback')
    OBVIOUS
  <2>13. g \in 0..l.capacity /\ g <= t + y /\ m = x + y
    BY <2>6, <2>11, <2>12
  <2>14. admitted + g <= MaxCapacity + m
    BY <1>1, <1>2, <2>2, <2>11, <2>13
  <2>15. QED
    BY <2>7, <2>12, <2>13, <2>14
<1>5. QED
  BY <1>3, <1>4

\* The script of a request under way.
LEMMA ScriptKeeps ==
  ASSUME LimiterInv, NEW l \in Limiters, NEW now \in 0..clock, clock <= now + Timeout,
         Limiter!Script(l, now), UNCHANGED clock
  PROVE  /\ bucket' \in [now : 0..clock, tokens : 0..MaxCapacity]
         /\ expires' \in Nat /\ admitted' \in Nat /\ setback' \in Nat
         /\ bucket' # Limiter!None /\ BucketPays'
<1>1. /\ MaxRate \in Nat /\ MaxCapacity \in Nat /\ Timeout \in Nat
      /\ l.capacity \in Nat /\ l.capacity <= MaxCapacity
      /\ Limiter!Ttl(l) \in Nat /\ MaxCapacity <= MaxRate * (Limiter!Ttl(l) - Timeout)
  BY LimitsAre, LimitersAssumption, TtlIsNat DEF MaxRate, MaxCapacity
<1>2. clock \in Nat /\ admitted \in Nat /\ setback \in Nat
  BY DEF LimiterInv, Limiter!TypeOK
<1>3. PICK filled : filled = Limiter!Filled(l, now)
  OBVIOUS
<1>4. /\ filled \in 0..l.capacity /\ setback' \in Nat
      /\ admitted + filled <= MaxCapacity + MaxRate * (now + setback')
  BY <1>3, FilledPays
<1>5. PICK allowed : allowed = IF filled >= 1 THEN 1 ELSE 0
  OBVIOUS
<1>6. /\ bucket' = [now |-> now, tokens |-> filled - allowed]
      /\ admitted' = admitted + allowed
      /\ expires' = clock + Limiter!Ttl(l)
  BY <1>3, <1>5 DEF Limiter!Script
<1>7. /\ filled - allowed \in 0..MaxCapacity /\ admitted' \in Nat /\ expires' \in Nat
      /\ admitted' + (filled - allowed) = admitted + filled
  BY <1>1, <1>2, <1>4, <1>5, <1>6
<1>8. bucket' \in [now : 0..clock, tokens : 0..MaxCapacity]
  BY <1>6, <1>7
<1>9. bucket' # Limiter!None
  BY <1>6 DEF Limiter!None
<1>10. bucket'.now = now /\ bucket'.tokens = filled - allowed
  BY <1>6
<1>11. MaxCapacity <= MaxRate * (expires' - Timeout - now)
  <2>1. PICK e : e = expires' - Timeout - now
    OBVIOUS
  <2>2. /\ e \in Int /\ Limiter!Ttl(l) - Timeout \in Int /\ Limiter!Ttl(l) - Timeout <= e
    BY <1>1, <1>2, <1>6, <2>1
  <2>3. MaxRate * (Limiter!Ttl(l) - Timeout) <= MaxRate * e
    BY <1>1, <2>2, Products
  <2>4. MaxRate * (Limiter!Ttl(l) - Timeout) \in Int /\ MaxRate * e \in Int
    BY <1>1, <2>2, Products
  <2>5. QED
    BY <1>1, <2>1, <2>3, <2>4
<1>12. MaxRate' = MaxRate /\ MaxCapacity' = MaxCapacity
  BY DEF MaxRate, MaxCapacity, Limiter!MaxRate, Limiter!MaxCapacity, Limiter!Greatest
<1>13. BucketPays'
  BY <1>4, <1>7, <1>10, <1>11, <1>12 DEF BucketPays
<1>14. QED
  BY <1>4, <1>7, <1>8, <1>9, <1>13

\* The variables, with their types.
LEMMA LimiterTypes ==
  ASSUME LimiterInv
  PROVE  /\ clock \in 0..MaxClock /\ expires \in Nat /\ admitted \in Nat /\ setback \in Nat
         /\ request \in [InFlight -> {Limiter!None} \cup [now : 0..clock, limiter : Limiters]]
         /\ \A r \in InFlight : request[r] # Limiter!None =>
              /\ request[r].now \in 0..clock /\ request[r].limiter \in Limiters
              /\ clock <= request[r].now + Timeout
BY DEF LimiterInv, Limiter!TypeOK, InTime

\* Nothing has been admitted at the start.
LEMMA InitLimiter == Limiter!Init => LimiterInv
BY LimitersAssumption
   DEF Limiter!Init, LimiterInv, Limiter!TypeOK, InTime, BucketPays, NoBucketPays

\* A tick brings no request beyond its timeout.
LEMMA TickKeeps ==
  ASSUME LimiterInv, Limiter!Tick
  PROVE  LimiterInv'
<1>1. /\ clock \in 0..MaxClock /\ clock' = clock + 1 /\ clock' \in 0..MaxClock /\ clock \in Nat
      /\ Timeout \in Nat /\ MaxClock \in Nat
      /\ UNCHANGED <<request, bucket, expires, admitted, setback>>
  BY LimiterTypes, LimitersAssumption DEF Limiter!Tick
<1>2. PICK c : c = clock'
  OBVIOUS
<1>3. PICK q : q = request
  OBVIOUS
<1>4. q \in [InFlight -> {Limiter!None} \cup [now : 0..c, limiter : Limiters]]
  <2>1. 0..clock \subseteq 0..c
    BY <1>1, <1>2
  <2>2. q \in [InFlight -> {Limiter!None} \cup [now : 0..clock, limiter : Limiters]]
    BY <1>3, LimiterTypes
  <2>3. [now : 0..clock, limiter : Limiters] \subseteq [now : 0..c, limiter : Limiters]
    BY <2>1
  <2>4. QED
    BY <2>2, <2>3
<1>5. bucket = Limiter!None \/ bucket \in [now : 0..c, tokens : 0..MaxCapacity]
  <2>1. 0..clock \subseteq 0..c
    BY <1>1, <1>2
  <2>2. bucket = Limiter!None \/ bucket \in [now : 0..clock, tokens : 0..MaxCapacity]
    BY DEF LimiterInv, Limiter!TypeOK, MaxCapacity
  <2>3. QED
    BY <2>1, <2>2
<1>6. MaxRate' = MaxRate /\ MaxCapacity' = MaxCapacity /\ MaxRate \in Nat
  BY LimitsAre DEF MaxRate, MaxCapacity, Limiter!MaxRate, Limiter!MaxCapacity, Limiter!Greatest
<1>7. Limiter!TypeOK'
  <2>1. expires' \in Nat /\ admitted' \in Nat /\ setback' \in Nat
    BY <1>1, LimiterTypes
  <2>2. request' \in [InFlight -> {Limiter!None} \cup [now : 0..clock', limiter : Limiters]]
    BY <1>1, <1>2, <1>3, <1>4
  <2>3. bucket' = Limiter!None \/ bucket' \in [now : 0..clock', tokens : 0..MaxCapacity']
    BY <1>1, <1>2, <1>5, <1>6
  <2>4. QED
    BY <1>1, <2>1, <2>2, <2>3 DEF Limiter!TypeOK, MaxCapacity
<1>8. InTime'
  <2> SUFFICES ASSUME NEW r \in InFlight, request[r] # Limiter!None
               PROVE  clock + 1 <= request[r].now + Timeout
    BY <1>1 DEF InTime
  <2>1. request[r].now \in 0..clock
    BY LimiterTypes
  <2>2. ~(clock - request[r].now >= Timeout)
    BY DEF Limiter!Tick, Limiter!Overdue
  <2>3. QED
    BY <1>1, <2>1, <2>2
<1>9. BucketPays'
  BY <1>1, <1>6 DEF LimiterInv, BucketPays
<1>10. NoBucketPays'
  <2> SUFFICES ASSUME bucket = Limiter!None, admitted # 0
               PROVE  admitted <= MaxRate * (clock + 1 - Timeout + setback)
    BY <1>1, <1>6 DEF NoBucketPays
  <2>1. admitted <= MaxRate * (clock - Timeout + setback)
    BY DEF LimiterInv, NoBucketPays
  <2>2. PICK x, y : x = clock - Timeout + setback /\ y = clock + 1 - Timeout + setback
    OBVIOUS
  <2>3. x \in Int /\ y \in Int /\ x <= y
    BY <1>1, <2>2, LimiterTypes
  <2>4. MaxRate * x <= MaxRate * y /\ MaxRate * x \in Int /\ MaxRate * y \in Int
    BY <1>6, <2>3, Products
  <2>5. QED
    BY <2>1, <2>2, <2>4, LimiterTypes
<1>11. QED
  BY <1>7, <1>8, <1>9, <1>10 DEF LimiterInv

\* The requests after a step that gives none a time that is past.
LEMMA OtherSteps ==
  ASSUME LimiterInv, UNCHANGED clock,
         request' \in [InFlight -> {Limiter!None} \cup [now : 0..clock, limiter : Limiters]],
         \A r \in InFlight : request'[r] # Limiter!None => clock <= request'[r].now + Timeout,
         expires' \in Nat, admitted' \in Nat, setback' \in Nat,
         \/ bucket' = Limiter!None
         \/ bucket' \in [now : 0..clock, tokens : 0..MaxCapacity],
         BucketPays', NoBucketPays'
  PROVE  LimiterInv'
<1>1. MaxCapacity' = MaxCapacity
  BY DEF MaxCapacity, Limiter!MaxCapacity, Limiter!Greatest
<1>2. clock' \in 0..MaxClock /\ clock' = clock
  BY LimiterTypes
<1>3. Limiter!TypeOK'
  BY <1>1, <1>2 DEF Limiter!TypeOK, MaxCapacity
<1>4. InTime'
  BY <1>2 DEF InTime
<1>5. QED
  BY <1>3, <1>4 DEF LimiterInv

\* The bucket is left alone.
LEMMA SameBucket ==
  ASSUME LimiterInv, UNCHANGED <<clock, bucket, expires, admitted, setback>>
  PROVE  /\ expires' \in Nat /\ admitted' \in Nat /\ setback' \in Nat
         /\ bucket' = Limiter!None \/ bucket' \in [now : 0..clock, tokens : 0..MaxCapacity]
         /\ BucketPays' /\ NoBucketPays'
<1>1. MaxRate' = MaxRate /\ MaxCapacity' = MaxCapacity
  BY DEF MaxRate, MaxCapacity, Limiter!MaxRate, Limiter!MaxCapacity, Limiter!Greatest
<1>2. BucketPays' /\ NoBucketPays'
  BY <1>1 DEF LimiterInv, BucketPays, NoBucketPays
<1>3. bucket' = Limiter!None \/ bucket' \in [now : 0..clock, tokens : 0..MaxCapacity]
  BY DEF LimiterInv, Limiter!TypeOK, MaxCapacity
<1>4. QED
  BY <1>2, <1>3, LimiterTypes

\* A request takes the time.
LEMMA ArriveKeeps ==
  ASSUME LimiterInv, NEW r \in InFlight, Limiter!Arrive(r)
  PROVE  LimiterInv'
<1>1. PICK l \in Limiters : request' = [request EXCEPT ![r] = [now |-> clock, limiter |-> l]]
  BY DEF Limiter!Arrive
<1>2. clock \in Nat /\ Timeout \in Nat
  BY LimiterTypes, LimitersAssumption
<1>3. PICK v : v = [now |-> clock, limiter |-> l]
  OBVIOUS
<1>4. v \in [now : 0..clock, limiter : Limiters] /\ clock <= v.now + Timeout
  BY <1>2, <1>3
<1>5. request' = [request EXCEPT ![r] = v]
  BY <1>1, <1>3
<1>6. request' \in [InFlight -> {Limiter!None} \cup [now : 0..clock, limiter : Limiters]]
  BY <1>4, <1>5, LimiterTypes
<1>7. \A q \in InFlight : request'[q] # Limiter!None => clock <= request'[q].now + Timeout
  <2> SUFFICES ASSUME NEW q \in InFlight, request'[q] # Limiter!None
               PROVE  clock <= request'[q].now + Timeout
    OBVIOUS
  <2>1. CASE q = r
    BY <1>4, <1>5, <2>1, LimiterTypes
  <2>2. CASE q # r
    <3>1. request'[q] = request[q]
      BY <1>5, <2>2, LimiterTypes
    <3>2. QED
      BY <3>1, LimiterTypes
  <2>3. QED
    BY <2>1, <2>2
<1>8. UNCHANGED <<clock, bucket, expires, admitted, setback>>
  BY DEF Limiter!Arrive
<1>9. QED
  BY <1>6, <1>7, <1>8, SameBucket, OtherSteps

\* The requests that are left when one has its answer.
LEMMA AnswersKeep ==
  ASSUME LimiterInv, NEW r \in InFlight, Limiter!Answers(r)
  PROVE  /\ request' \in [InFlight -> {Limiter!None} \cup [now : 0..clock, limiter : Limiters]]
         /\ \A q \in InFlight : request'[q] # Limiter!None => clock <= request'[q].now + Timeout
<1>1. request' = [request EXCEPT ![r] = Limiter!None]
  BY DEF Limiter!Answers
<1>2. request' \in [InFlight -> {Limiter!None} \cup [now : 0..clock, limiter : Limiters]]
  BY <1>1, LimiterTypes
<1>3. ASSUME NEW q \in InFlight, request'[q] # Limiter!None
      PROVE  clock <= request'[q].now + Timeout
  <2>1. request'[q] = request[q]
    BY <1>1, <1>3, LimiterTypes
  <2>2. QED
    BY <1>3, <2>1, LimiterTypes
<1>4. QED
  BY <1>2, <1>3

\* A request runs the script, or is let through without it.
LEMMA AllowKeeps ==
  ASSUME LimiterInv, NEW r \in InFlight, Limiter!Allow(r) \/ Limiter!FailOpen(r)
  PROVE  LimiterInv'
<1>1. /\ request[r] # Limiter!None /\ Limiter!Answers(r) /\ UNCHANGED clock
      /\ \/ Limiter!Script(request[r].limiter, request[r].now)
         \/ UNCHANGED <<bucket, expires, admitted, setback>>
  BY DEF Limiter!Allow, Limiter!FailOpen
<1>2. CASE UNCHANGED <<bucket, expires, admitted, setback>>
  BY <1>1, <1>2, AnswersKeep, SameBucket, OtherSteps
<1>3. CASE Limiter!Script(request[r].limiter, request[r].now)
  <2>1. PICK l, now : l = request[r].limiter /\ now = request[r].now
    OBVIOUS
  <2>2. l \in Limiters /\ now \in 0..clock /\ clock <= now + Timeout /\ Limiter!Script(l, now)
    BY <1>1, <1>3, <2>1, LimiterTypes
  <2>3. /\ bucket' \in [now : 0..clock, tokens : 0..MaxCapacity]
        /\ expires' \in Nat /\ admitted' \in Nat /\ setback' \in Nat
        /\ bucket' # Limiter!None /\ BucketPays'
    BY <1>1, <2>2, ScriptKeeps
  <2>4. NoBucketPays'
    BY <2>3 DEF NoBucketPays, Limiter!None
  <2>5. QED
    BY <1>1, <2>3, <2>4, AnswersKeep, OtherSteps
<1>4. QED
  BY <1>1, <1>2, <1>3

\* The keys expire: since the last script a full bucket's refill has passed, for the
\* oldest request too.
LEMMA ForgetKeeps ==
  ASSUME LimiterInv, Limiter!Expire
  PROVE  LimiterInv'
<1>1. /\ bucket # Limiter!None /\ clock >= expires /\ bucket' = Limiter!None
      /\ UNCHANGED <<clock, request, expires, admitted, setback>>
  BY DEF Limiter!Expire
<1>2. PICK b, t : b = bucket.now /\ t = bucket.tokens
  OBVIOUS
<1>3. /\ b \in Nat /\ t \in Nat /\ b <= clock
      /\ admitted + t <= MaxCapacity + MaxRate * (b + setback)
      /\ MaxCapacity <= MaxRate * (expires - Timeout - b)
  <2>1. b \in 0..clock /\ t \in 0..MaxCapacity /\ clock \in Nat /\ MaxCapacity \in Nat
    BY <1>1, <1>2, BucketIs, LimiterTypes, LimitsAre DEF LimiterInv
  <2>2. QED
    BY <1>1, <1>2, <2>1 DEF LimiterInv, BucketPays
<1>4. /\ clock \in Nat /\ expires \in Nat /\ admitted \in Nat /\ setback \in Nat
      /\ Timeout \in Nat /\ MaxRate \in Nat /\ MaxCapacity \in Nat
  BY LimiterTypes, LimitersAssumption, LimitsAre
<1>5. PICK x, y, z : /\ x = b + setback /\ y = expires - Timeout - b
                     /\ z = clock - Timeout + setback
  OBVIOUS
<1>6. x \in Int /\ y \in Int /\ z \in Int /\ x + y \in Int /\ x + y <= z
  BY <1>1, <1>3, <1>4, <1>5
<1>7. MaxRate * x + MaxRate * y <= MaxRate * z
  <2>1. MaxRate * (x + y) <= MaxRate * z
    BY <1>4, <1>6, Products
  <2>2. MaxRate * (x + y) = MaxRate * x + MaxRate * y
    BY <1>4, <1>6, Products
  <2>3. QED
    BY <2>1, <2>2
<1>8. PICK p, q, s : p = MaxRate * x /\ q = MaxRate * y /\ s = MaxRate * z
  OBVIOUS
<1>9. /\ p \in Int /\ q \in Int /\ s \in Int /\ p + q <= s
      /\ admitted + t <= MaxCapacity + p /\ MaxCapacity <= q
  BY <1>3, <1>4, <1>5, <1>6, <1>7, <1>8, Products
<1>10. admitted <= s
  BY <1>3, <1>4, <1>9
<1>11. MaxRate' = MaxRate
  BY DEF MaxRate, Limiter!MaxRate, Limiter!Greatest
<1>12. NoBucketPays'
  BY <1>1, <1>5, <1>8, <1>10, <1>11 DEF NoBucketPays
<1>13. BucketPays'
  BY <1>1 DEF BucketPays, Limiter!None
<1>14. /\ request' \in [InFlight -> {Limiter!None} \cup [now : 0..clock, limiter : Limiters]]
       /\ \A r \in InFlight : request'[r] # Limiter!None => clock <= request'[r].now + Timeout
       /\ expires' \in Nat /\ admitted' \in Nat /\ setback' \in Nat
  BY <1>1, LimiterTypes
<1>15. /\ clock' = clock
       /\ bucket' = Limiter!None \/ bucket' \in [now : 0..clock, tokens : 0..MaxCapacity]
  BY <1>1
<1>16. QED
  BY <1>12, <1>13, <1>14, <1>15, OtherSteps

\* Every step of the limiter keeps LimiterInv.
LEMMA StepKeepsLimiter ==
  ASSUME LimiterInv, [Limiter!Next]_limiterVars
  PROVE  LimiterInv'
<1>1. CASE Limiter!Tick
  BY <1>1, TickKeeps
<1>2. CASE Limiter!Expire
  BY <1>2, ForgetKeeps
<1>3. ASSUME NEW r \in InFlight, Limiter!Arrive(r) \/ Limiter!Allow(r) \/ Limiter!FailOpen(r)
      PROVE  LimiterInv'
  BY <1>3, ArriveKeeps, AllowKeeps
<1>4. CASE UNCHANGED limiterVars
  <2>1. UNCHANGED <<clock, bucket, expires, admitted, setback>> /\ request' = request
    BY <1>4 DEF limiterVars
  <2>2. QED
    BY <2>1, LimiterTypes, SameBucket, OtherSteps
<1>5. QED
  BY <1>1, <1>2, <1>3, <1>4 DEF Limiter!Next

\* What was admitted is within the bound.
LEMMA LimiterBounds == LimiterInv => AdmissionBound
<1> SUFFICES ASSUME LimiterInv
             PROVE  admitted <= MaxCapacity + MaxRate * (clock + setback)
  BY DEF AdmissionBound, Limiter!AdmissionBound, MaxRate, MaxCapacity
<1>1. /\ clock \in Nat /\ admitted \in Nat /\ setback \in Nat
      /\ Timeout \in Nat /\ MaxRate \in Nat /\ MaxCapacity \in Nat
  BY LimiterTypes, LimitersAssumption, LimitsAre
<1>2. PICK z : z = clock + setback
  OBVIOUS
<1>3. z \in Nat /\ MaxRate * z \in Nat
  <2>1. z \in Nat
    BY <1>1, <1>2
  <2>2. QED
    BY <1>1, <2>1
<1>4. CASE bucket = Limiter!None
  <2>1. PICK x : x = clock - Timeout + setback
    OBVIOUS
  <2>2. x \in Int /\ x <= z
    BY <1>1, <1>2, <2>1
  <2>3. MaxRate * x <= MaxRate * z /\ MaxRate * x \in Int
    BY <1>1, <1>3, <2>2, Products
  <2>4. admitted = 0 \/ admitted <= MaxRate * x
    BY <1>4, <2>1 DEF LimiterInv, NoBucketPays
  <2>5. QED
    BY <1>1, <1>2, <1>3, <2>3, <2>4
<1>5. CASE bucket # Limiter!None
  <2>1. PICK b, t : b = bucket.now /\ t = bucket.tokens
    OBVIOUS
  <2>2. b \in 0..clock /\ t \in 0..MaxCapacity
        /\ admitted + t <= MaxCapacity + MaxRate * (b + setback)
    BY <1>5, <2>1, BucketIs DEF LimiterInv, BucketPays
  <2>3. PICK x : x = b + setback
    OBVIOUS
  <2>4. x \in Int /\ x <= z
    BY <1>1, <1>2, <2>2, <2>3
  <2>5. MaxRate * x <= MaxRate * z /\ MaxRate * x \in Int
    BY <1>1, <1>3, <2>4, Products
  <2>6. admitted + t <= MaxCapacity + MaxRate * x
    BY <2>2, <2>3
  <2>7. PICK p, q : p = MaxRate * x /\ q = MaxRate * z
    OBVIOUS
  <2>8. p \in Int /\ q \in Int /\ p <= q /\ admitted + t <= MaxCapacity + p /\ t \in Nat
    BY <1>1, <1>3, <2>2, <2>5, <2>6, <2>7
  <2>9. admitted <= MaxCapacity + q
    BY <1>1, <2>8
  <2>10. QED
    BY <1>2, <2>7, <2>9
<1>6. QED
  BY <1>4, <1>5

-----------------------------------------------------------------------------
(* OrderBookCache, for any numbers of terms, changes and restarts. The newest book of
   the newest leader is missed, was restored empty and not sent, or is at one place of the feed; once the consumer
   is past that place the cache shows it, because what is written later is older and
   has the smaller token of an older term. *)

\* The term's last snapshot was stamped after its token was zeroed.
Unstamped(t) == stamped[t] # Cache!None /\ stamped[t].token = 0

\* What a term's leader may do, and what it has stamped.
TermsInv ==
  \A t \in Cache!Terms :
    /\ token[t] \in {0, t}
    /\ changes[t] = 0 <=> t > newest
    /\ t > newest => token[t] = 0 /\ step[t] = "idle" /\ stamped[t] = Cache!None
    /\ stamped[t] # Cache!None =>
         /\ stamped[t].term = t /\ stamped[t].change <= changes[t]
         /\ stamped[t].token \in {0, t}
         /\ stamped[t].token = 0 => token[t] = 0
    /\ step[t] \in {"stamped", "written"} =>
         stamped[t] # Cache!None /\ stamped[t].change = changes[t]

\* A snapshot of a book that there was.
Genuine(s) ==
  /\ s.term <= newest /\ s.change <= changes[s.term] /\ s.token \in {0, s.term}
  /\ s.token = 0 => Unstamped(s.term)

\* Snapshots of one term are published in their order, each once.
SnapshotsInv ==
  /\ cache # Cache!None => Genuine(cache)
  /\ \A i \in DOMAIN feed : Genuine(feed[i])
  /\ \A i, j \in DOMAIN feed :
       i < j /\ feed[i].term = feed[j].term => feed[i].change < feed[j].change
  /\ \A i \in DOMAIN feed :
       step[feed[i].term] # "idle" => feed[i].change < changes[feed[i].term]
  /\ place # "fetch" => next <= Len(feed)

\* The consumer has written the record at p, or failed to.
Shown(p) == next > p \/ (next = p /\ place # "fetch")

\* The newest book of the newest leader, at place p of the feed.
LatestAt(p) ==
  /\ p \in DOMAIN feed
  /\ feed[p].term = newest /\ feed[p].change = changes[newest]

LatestInv ==
  step[newest] = "idle" /\ Cache!Latest \notin missed \cup unsent =>
    \E p \in DOMAIN feed : LatestAt(p) /\ (Shown(p) /\ ~Cache!Unfenced => cache = feed[p])

CacheInv == Cache!TypeOK /\ TermsInv /\ SnapshotsInv /\ LatestInv

\* The variables of the engines, with their types.
LEMMA EngineTypes ==
  ASSUME Cache!TypeOK
  PROVE  /\ Cache!Terms = 1..MaxTerm /\ MaxTerm \in Nat /\ MaxChanges \in Nat
         /\ 1 \in Cache!Terms /\ 1 \in 1..MaxChanges
         /\ newest \in Cache!Terms /\ newest \in Nat
         /\ token \in [Cache!Terms -> 0..MaxTerm]
         /\ changes \in [Cache!Terms -> 0..MaxChanges]
         /\ step \in [Cache!Terms -> {"idle", "changed", "stamped", "written"}]
         /\ stamped \in [Cache!Terms -> Cache!Snapshot \cup {Cache!None}]
         /\ missed \subseteq Cache!Terms \X (1..MaxChanges)
         /\ unsent \subseteq Cache!Terms \X (1..MaxChanges)
BY CacheAssumption DEF Cache!TypeOK, Cache!Terms

\* The fields of a snapshot.
LEMMA SnapshotFields ==
  /\ \A s \in Cache!Snapshot :
       /\ s.term \in Cache!Terms /\ s.term \in Nat /\ s.change \in Nat /\ s.token \in Nat
       /\ s.change \in 1..MaxChanges
  /\ Cache!None \notin Cache!Snapshot /\ Cache!None.token = 0 /\ Cache!None.term = 0
BY CacheAssumption DEF Cache!Snapshot, Cache!None, Cache!Terms

\* The cache, the feed and its consumer, with their types.
LEMMA FeedTypes ==
  ASSUME Cache!TypeOK
  PROVE  /\ cache \in Cache!Snapshot \cup {Cache!None}
         /\ feed \in Seq(Cache!Snapshot) /\ Len(feed) \in Nat /\ DOMAIN feed = 1..Len(feed)
         /\ \A i \in DOMAIN feed : feed[i] \in Cache!Snapshot
         /\ next \in 1..(Len(feed) + 1) /\ offset \in 1..next
         /\ next \in Nat /\ offset \in Nat
         /\ place \in {"fetch", "push", "commit"} /\ restarts \in 0..MaxRestarts
BY DEF Cache!TypeOK

\* A leader that has a token or is at work has been elected.
LEMMA Elected ==
  ASSUME CacheInv, NEW t \in Cache!Terms, token[t] # 0 \/ step[t] # "idle"
  PROVE  t <= newest /\ changes[t] \in 1..MaxChanges
<1>1. t \in Nat /\ newest \in Nat /\ changes[t] \in 0..MaxChanges /\ MaxChanges \in Nat
  BY EngineTypes DEF CacheInv
<1>2. ~(t > newest) /\ changes[t] # 0
  BY DEF CacheInv, TermsInv
<1>3. QED
  BY <1>1, <1>2

\* While no snapshot was stamped 0, a genuine one has the token of its term.
LEMMA Fenced ==
  ASSUME CacheInv, ~Cache!Unfenced, NEW s \in Cache!Snapshot, Genuine(s)
  PROVE  s.token = s.term
<1>1. s.term \in Cache!Terms
  BY SnapshotFields
<1>2. ~Unstamped(s.term)
  BY <1>1 DEF Cache!Unfenced, Unstamped
<1>3. QED
  BY <1>2 DEF Genuine

\* A handler at work has stamped a genuine snapshot.
LEMMA StampIsGenuine ==
  ASSUME CacheInv, NEW t \in Cache!Terms, step[t] \in {"stamped", "written"}
  PROVE  /\ stamped[t] \in Cache!Snapshot /\ Genuine(stamped[t])
         /\ stamped[t].term = t /\ stamped[t].change = changes[t]
<1>1. stamped[t] # Cache!None /\ stamped[t].change = changes[t] /\ stamped[t].term = t
      /\ stamped[t].token \in {0, t}
  BY DEF CacheInv, TermsInv
<1>2. stamped[t] \in Cache!Snapshot
  BY <1>1, EngineTypes DEF CacheInv
<1>3. t <= newest
  BY Elected
<1>4. changes[t] \in Nat
  BY EngineTypes DEF CacheInv
<1>5. QED
  BY <1>1, <1>2, <1>3, <1>4 DEF Genuine, Unstamped

\* The first leader has its first book.
LEMMA InitCache == Cache!Init => CacheInv
<1> SUFFICES ASSUME Cache!Init PROVE CacheInv
  OBVIOUS
<1>1. Cache!Terms = 1..MaxTerm /\ MaxTerm \in Nat /\ 1 \in Cache!Terms /\ 1 \in 1..MaxChanges
      /\ MaxChanges \in Nat /\ MaxRestarts \in Nat
  BY CacheAssumption DEF Cache!Terms
<1> PICK first \in Cache!Synced :
      /\ step = [t \in Cache!Terms |-> IF t = 1 THEN first ELSE "idle"]
      /\ unsent = Cache!UnsentBooks(1, first)
  BY DEF Cache!Init
<1>2. Cache!TypeOK
  <2>1. feed \in Seq(Cache!Snapshot) /\ Len(feed) = 0
    BY DEF Cache!Init
  <2>2. token \in [Cache!Terms -> 0..MaxTerm] /\ changes \in [Cache!Terms -> 0..MaxChanges]
        /\ step \in [Cache!Terms -> {"idle", "changed", "stamped", "written"}]
        /\ stamped \in [Cache!Terms -> Cache!Snapshot \cup {Cache!None}]
    BY <1>1 DEF Cache!Init, Cache!Synced
  <2>3. unsent \subseteq Cache!Terms \X (1..MaxChanges)
    BY <1>1 DEF Cache!UnsentBooks
  <2>4. QED
    BY <1>1, <2>1, <2>2, <2>3 DEF Cache!Init, Cache!TypeOK
<1>3. TermsInv
  BY <1>1 DEF Cache!Init, Cache!Synced, TermsInv
<1>4. SnapshotsInv
  BY DEF Cache!Init, SnapshotsInv
<1>5. LatestInv
  BY <1>1 DEF Cache!Init, Cache!Synced, Cache!UnsentBooks, Cache!Latest, LatestInv
<1>6. QED
  BY <1>2, <1>3, <1>4, <1>5 DEF CacheInv

\* The latest book stays where it is in the feed, unless it is no longer the latest or
\* is missed.
LEMMA LatestStays ==
  ASSUME CacheInv, newest' = newest, changes'[newest] = changes[newest],
         step'[newest] = "idle" => step[newest] = "idle",
         missed \subseteq missed', unsent' = unsent, Cache!Unfenced => Cache!Unfenced',
         DOMAIN feed \subseteq DOMAIN feed', \A i \in DOMAIN feed : feed'[i] = feed[i],
         \A p \in DOMAIN feed :
           /\ LatestAt(p) /\ Cache!Latest \notin missed' /\ ~Cache!Unfenced /\ Shown(p)'
           /\ Shown(p) => cache = feed[p]
           => cache' = feed[p]
  PROVE  LatestInv'
<1> SUFFICES ASSUME step'[newest] = "idle", Cache!Latest' \notin missed' \cup unsent'
             PROVE  \E p \in DOMAIN feed' :
                      LatestAt(p)' /\ (Shown(p)' /\ ~Cache!Unfenced' => cache' = feed'[p])
  BY DEF LatestInv
<1>1. Cache!Latest' = Cache!Latest
  BY DEF Cache!Latest
<1>2. PICK p \in DOMAIN feed : LatestAt(p) /\ (Shown(p) /\ ~Cache!Unfenced => cache = feed[p])
  BY <1>1 DEF CacheInv, LatestInv
<1>3. p \in DOMAIN feed' /\ feed'[p] = feed[p] /\ LatestAt(p)'
  BY <1>2 DEF LatestAt
<1>4. ASSUME Shown(p)', ~Cache!Unfenced' PROVE cache' = feed'[p]
  BY <1>1, <1>2, <1>3, <1>4
<1>5. QED
  BY <1>3, <1>4

\* A step that changes neither a stamp, nor the cache, nor the feed.
LEMMA SnapshotsStay ==
  ASSUME CacheInv, UNCHANGED <<stamped, cache, feed, next, place>>, newest <= newest',
         newest' \in Nat,
         \A t \in Cache!Terms : t <= newest => /\ changes[t] <= changes'[t]
                                               /\ changes'[t] \in Nat
                                               /\ \/ step'[t] = "idle"
                                                  \/ step'[t] = step[t] /\ changes'[t] = changes[t]
                                                  \/ changes'[t] > changes[t]
  PROVE  SnapshotsInv'
<1>1. /\ newest \in Nat
      /\ \A t \in Cache!Terms : changes[t] \in Nat
  BY EngineTypes DEF CacheInv
<1>2. ASSUME NEW s \in Cache!Snapshot, Genuine(s) PROVE Genuine(s)'
  <2>1. s.term \in Cache!Terms /\ s.term \in Nat /\ s.change \in Nat /\ s.term <= newest
        /\ s.change <= changes[s.term]
    BY <1>2, SnapshotFields DEF Genuine
  <2>2. s.term <= newest' /\ s.change <= changes'[s.term]
    BY <1>1, <2>1
  <2>3. Unstamped(s.term)' <=> Unstamped(s.term)
    BY DEF Unstamped
  <2>4. QED
    BY <1>2, <2>2, <2>3 DEF Genuine
<1>3. cache' # Cache!None => Genuine(cache)'
  BY <1>2, FeedTypes DEF CacheInv, SnapshotsInv, Genuine, Unstamped
<1>4. \A i \in DOMAIN feed' : Genuine(feed[i])'
  BY <1>2, FeedTypes DEF CacheInv, SnapshotsInv, Genuine, Unstamped
<1>5. ASSUME NEW i \in DOMAIN feed, step'[feed[i].term] # "idle"
      PROVE  feed[i].change < changes'[feed[i].term]
  <2>1. PICK t, c : t = feed[i].term /\ c = feed[i].change
    OBVIOUS
  <2>2. t \in Cache!Terms /\ c \in Nat /\ t <= newest /\ c <= changes[t]
        /\ (step[t] # "idle" => c < changes[t])
    BY <2>1, FeedTypes, SnapshotFields DEF CacheInv, SnapshotsInv, Genuine
  <2>3. c < changes'[t]
    BY <1>1, <1>5, <2>1, <2>2
  <2>4. QED
    BY <2>1, <2>3
<1>6. QED
  BY <1>3, <1>4, <1>5 DEF CacheInv, SnapshotsInv

\* A new leader: it has yet to send its book, or the book is empty and not sent.
LEMMA LeaderKeeps ==
  ASSUME CacheInv, Cache!BecomeLeader
  PROVE  CacheInv'
<1>1. PICK n : n = newest + 1
  OBVIOUS
<1>2. PICK first \in Cache!Synced :
      /\ newest' = n /\ token' = [token EXCEPT ![n] = n]
      /\ changes' = [changes EXCEPT ![n] = 1] /\ step' = [step EXCEPT ![n] = first]
      /\ unsent' = unsent \cup Cache!UnsentBooks(n, first)
      /\ UNCHANGED <<stamped, cache, feed, offset, next, place, restarts, missed>>
      /\ newest < MaxTerm
  BY <1>1 DEF Cache!BecomeLeader, Cache!consumerVars
<1>3. n \in Cache!Terms /\ n \in 0..MaxTerm /\ n \in Nat /\ newest \in Nat
      /\ newest < n /\ \A t \in Cache!Terms : t \in Nat
  BY <1>1, <1>2, EngineTypes DEF CacheInv
<1>4. Cache!TypeOK'
  <2>1. token' \in [Cache!Terms -> 0..MaxTerm] /\ changes' \in [Cache!Terms -> 0..MaxChanges]
        /\ step' \in [Cache!Terms -> {"idle", "changed", "stamped", "written"}]
    BY <1>2, <1>3, EngineTypes DEF CacheInv, Cache!Synced
  <2>2. unsent' \subseteq Cache!Terms \X (1..MaxChanges)
    BY <1>2, <1>3, EngineTypes DEF CacheInv, Cache!UnsentBooks
  <2>3. QED
    BY <1>2, <1>3, <2>1, <2>2 DEF CacheInv, Cache!TypeOK
<1>5. TermsInv'
  <2> SUFFICES ASSUME NEW t \in Cache!Terms
               PROVE  /\ token'[t] \in {0, t}
                      /\ changes'[t] = 0 <=> t > n
                      /\ t > n => token'[t] = 0 /\ step'[t] = "idle" /\ stamped[t] = Cache!None
                      /\ stamped[t] # Cache!None =>
                           /\ stamped[t].term = t /\ stamped[t].change <= changes'[t]
                           /\ stamped[t].token \in {0, t}
                           /\ stamped[t].token = 0 => token'[t] = 0
                      /\ step'[t] \in {"stamped", "written"} =>
                           stamped[t] # Cache!None /\ stamped[t].change = changes'[t]
    BY <1>2 DEF TermsInv
  <2>1. CASE t = n
    <3>1. stamped[t] = Cache!None
      BY <1>3, <2>1 DEF CacheInv, TermsInv
    <3>2. token'[t] = t /\ changes'[t] = 1 /\ step'[t] \in {"changed", "idle"}
      BY <1>2, <2>1, EngineTypes DEF CacheInv, Cache!Synced
    <3>3. QED
      BY <1>3, <2>1, <3>1, <3>2
  <2>2. CASE t # n
    <3>1. token'[t] = token[t] /\ changes'[t] = changes[t] /\ step'[t] = step[t]
      BY <1>2, <2>2, EngineTypes DEF CacheInv
    <3>2. t > n <=> t > newest
      BY <1>1, <1>3, <2>2
    <3>3. QED
      BY <3>1, <3>2 DEF CacheInv, TermsInv
  <2>3. QED
    BY <2>1, <2>2
<1>6. SnapshotsInv'
  <2>1. \A t \in Cache!Terms : t <= newest =>
          changes'[t] = changes[t] /\ step'[t] = step[t] /\ changes[t] \in Nat
    BY <1>2, <1>3, EngineTypes DEF CacheInv
  <2>2. \A t \in Cache!Terms : t <= newest => /\ changes[t] <= changes'[t]
                                              /\ changes'[t] \in Nat
                                              /\ step'[t] = step[t] /\ changes'[t] = changes[t]
    BY <2>1
  <2>3. QED
    BY <1>2, <1>3, <2>2, SnapshotsStay
<1>7. LatestInv'
  <2>1. step'[newest'] = first /\ Cache!Latest' = <<n, 1>>
    BY <1>2, <1>3, EngineTypes DEF CacheInv, Cache!Latest
  <2>2. first = "idle" => Cache!Latest' \in unsent'
    BY <1>2, <2>1 DEF Cache!UnsentBooks
  <2>3. QED
    BY <2>1, <2>2 DEF LatestInv
<1>8. QED
  BY <1>4, <1>5, <1>6, <1>7 DEF CacheInv

\* A leader loses its token, in the middle of its handler or with the whole process.
LEMMA LossKeeps ==
  ASSUME CacheInv, NEW t \in Cache!Terms, Cache!LoseLeadership(t) \/ Cache!Crash(t)
  PROVE  CacheInv'
<1>1. /\ token' = [token EXCEPT ![t] = 0]
      /\ step' = step \/ step' = [step EXCEPT ![t] = "idle"]
      /\ missed' = missed \/ missed' = missed \cup {<<t, changes[t]>>}
      /\ step' = step \/ step[t] = "idle" \/ missed' = missed \cup {<<t, changes[t]>>}
      /\ UNCHANGED <<newest, changes, stamped, cache, feed, offset, next, place, restarts, unsent>>
  BY DEF Cache!LoseLeadership, Cache!Crash, Cache!consumerVars
<1>2. changes[t] \in 1..MaxChanges
  BY Elected DEF Cache!LoseLeadership, Cache!Crash
<1>3. Cache!TypeOK'
  <2>1. token' \in [Cache!Terms -> 0..MaxTerm]
        /\ step' \in [Cache!Terms -> {"idle", "changed", "stamped", "written"}]
    <3>1. 0 \in 0..MaxTerm
      BY EngineTypes DEF CacheInv
    <3>2. token' \in [Cache!Terms -> 0..MaxTerm]
      BY <1>1, <3>1, EngineTypes DEF CacheInv
    <3>3. step' \in [Cache!Terms -> {"idle", "changed", "stamped", "written"}]
      BY <1>1, EngineTypes DEF CacheInv
    <3>4. QED
      BY <3>2, <3>3
  <2>2. missed' \subseteq Cache!Terms \X (1..MaxChanges)
    BY <1>1, <1>2, EngineTypes DEF CacheInv
  <2>3. QED
    BY <1>1, <2>1, <2>2 DEF CacheInv, Cache!TypeOK
<1>4. TermsInv'
  <2>1. \A u \in Cache!Terms : /\ token'[u] \in {0, token[u]}
                               /\ step'[u] \in {"idle", step[u]}
    BY <1>1, EngineTypes DEF CacheInv
  <2>2. QED
    BY <1>1, <2>1 DEF CacheInv, TermsInv
<1>5. SnapshotsInv'
  <2>1. \A u \in Cache!Terms : changes[u] \in Nat /\ (step'[u] = "idle" \/ step'[u] = step[u])
    BY <1>1, EngineTypes DEF CacheInv
  <2>2. newest \in Nat
    BY EngineTypes DEF CacheInv
  <2>3. QED
    BY <1>1, <2>1, <2>2, SnapshotsStay
<1>6. LatestInv'
  <2>1. CASE step'[newest] = "idle" => step[newest] = "idle"
    <3>1. Cache!Unfenced => Cache!Unfenced'
      BY <1>1 DEF Cache!Unfenced
    <3>2. \A p \in DOMAIN feed : Shown(p)' <=> Shown(p)
      BY <1>1 DEF Shown
    <3>3. \A p \in DOMAIN feed :
           /\ LatestAt(p) /\ Cache!Latest \notin missed' /\ ~Cache!Unfenced /\ Shown(p)'
           /\ Shown(p) => cache = feed[p]
           => cache' = feed[p]
      BY <1>1, <3>2
    <3>4. missed \subseteq missed'
      BY <1>1
    <3>5. QED
      BY <1>1, <2>1, <3>1, <3>3, <3>4, LatestStays
  <2>2. CASE step'[newest] = "idle" /\ step[newest] # "idle"
    <3>1. newest = t
      BY <1>1, <2>2, EngineTypes DEF CacheInv
    <3>2. Cache!Latest' \in missed'
      BY <1>1, <2>2, <3>1 DEF Cache!Latest
    <3>3. QED
      BY <3>2 DEF LatestInv
  <2>3. QED
    BY <2>1, <2>2
<1>7. QED
  BY <1>3, <1>4, <1>5, <1>6 DEF CacheInv

\* The next book of a term: it has yet to be sent.
LEMMA ChangeKeeps ==
  ASSUME CacheInv, NEW t \in Cache!Terms, Cache!Change(t)
  PROVE  CacheInv'
<1>1. /\ token[t] # 0 /\ step[t] = "idle" /\ changes[t] < MaxChanges
      /\ changes' = [changes EXCEPT ![t] = changes[t] + 1]
      /\ step' = [step EXCEPT ![t] = "changed"]
      /\ UNCHANGED <<newest, token, stamped, cache, feed, offset, next, place, restarts, missed, unsent>>
  BY DEF Cache!Change, Cache!consumerVars
<1>2. t <= newest /\ changes[t] \in 1..MaxChanges
  BY <1>1, Elected
<1>3. t \in Nat /\ newest \in Nat /\ MaxChanges \in Nat
  BY EngineTypes DEF CacheInv
<1>4. changes'[t] = changes[t] + 1 /\ step'[t] = "changed"
  BY <1>1, EngineTypes DEF CacheInv
<1>5. \A u \in Cache!Terms : u # t => changes'[u] = changes[u] /\ step'[u] = step[u]
  BY <1>1, EngineTypes DEF CacheInv
<1>6. Cache!TypeOK'
  <2>1. changes[t] + 1 \in 0..MaxChanges
    BY <1>1, <1>2, <1>3
  <2>2. changes' \in [Cache!Terms -> 0..MaxChanges]
    BY <1>1, <2>1, EngineTypes DEF CacheInv
  <2>3. step' \in [Cache!Terms -> {"idle", "changed", "stamped", "written"}]
    BY <1>1, EngineTypes DEF CacheInv
  <2>4. QED
    BY <1>1, <2>2, <2>3 DEF CacheInv, Cache!TypeOK
<1>7. TermsInv'
  <2> SUFFICES ASSUME NEW u \in Cache!Terms
               PROVE  /\ token[u] \in {0, u}
                      /\ changes'[u] = 0 <=> u > newest
                      /\ u > newest => token[u] = 0 /\ step'[u] = "idle" /\ stamped[u] = Cache!None
                      /\ stamped[u] # Cache!None =>
                           /\ stamped[u].term = u /\ stamped[u].change <= changes'[u]
                           /\ stamped[u].token \in {0, u}
                           /\ stamped[u].token = 0 => token[u] = 0
                      /\ step'[u] \in {"stamped", "written"} =>
                           stamped[u] # Cache!None /\ stamped[u].change = changes'[u]
    BY <1>1 DEF TermsInv
  <2>1. CASE u = t
    <3>1. stamped[u] # Cache!None =>
            /\ stamped[u].term = u /\ stamped[u].change <= changes[u] /\ stamped[u].change \in Nat
            /\ stamped[u].token \in {0, u} /\ (stamped[u].token = 0 => token[u] = 0)
      BY EngineTypes, SnapshotFields DEF CacheInv, TermsInv
    <3>2. token[u] \in {0, u}
      BY DEF CacheInv, TermsInv
    <3>3. ~(u > newest) /\ changes'[u] # 0 /\ changes'[u] = changes[u] + 1 /\ changes[u] \in Nat
      BY <1>2, <1>3, <1>4, <2>1
    <3>4. QED
      BY <1>4, <2>1, <3>1, <3>2, <3>3
  <2>2. CASE u # t
    BY <1>5, <2>2 DEF CacheInv, TermsInv
  <2>3. QED
    BY <2>1, <2>2
<1>8. SnapshotsInv'
  <2>1. \A u \in Cache!Terms : changes[u] \in Nat
    BY EngineTypes DEF CacheInv
  <2>2. \A u \in Cache!Terms : /\ changes[u] <= changes'[u] /\ changes'[u] \in Nat
                               /\ \/ step'[u] = step[u] /\ changes'[u] = changes[u]
                                  \/ changes'[u] > changes[u]
    <3> SUFFICES ASSUME NEW u \in Cache!Terms
                 PROVE  /\ changes[u] <= changes'[u] /\ changes'[u] \in Nat
                        /\ \/ step'[u] = step[u] /\ changes'[u] = changes[u]
                           \/ changes'[u] > changes[u]
      OBVIOUS
    <3>1. CASE u = t
      BY <1>4, <2>1, <3>1
    <3>2. CASE u # t
      BY <1>5, <2>1, <3>2
    <3>3. QED
      BY <3>1, <3>2
  <2>3. QED
    BY <1>1, <1>3, <2>2, SnapshotsStay
<1>9. LatestInv'
  <2>1. CASE t = newest
    BY <1>1, <1>4, <2>1 DEF LatestInv
  <2>2. CASE t # newest
    <3>1. changes'[newest] = changes[newest] /\ step'[newest] = step[newest]
      BY <1>5, <2>2, EngineTypes DEF CacheInv
    <3>2. Cache!Unfenced => Cache!Unfenced'
      BY <1>1 DEF Cache!Unfenced
    <3>3. \A p \in DOMAIN feed : Shown(p)' <=> Shown(p)
      BY <1>1 DEF Shown
    <3>4. QED
      BY <1>1, <3>1, <3>2, <3>3, LatestStays
  <2>3. QED
    BY <2>1, <2>2
<1>10. QED
  BY <1>6, <1>7, <1>8, <1>9 DEF CacheInv

\* What was stamped 0 stays so: the term's token never comes back.
LEMMA StampStays ==
  ASSUME CacheInv, NEW t \in Cache!Terms, Cache!Stamp(t)
  PROVE  /\ \A u \in Cache!Terms : Unstamped(u) => Unstamped(u)'
         /\ Cache!Unfenced => Cache!Unfenced'
         /\ \A u \in Cache!Terms : u # t => stamped'[u] = stamped[u] /\ step'[u] = step[u]
         /\ stamped'[t] = [term |-> t, change |-> changes[t], token |-> token[t]]
         /\ stamped'[t] \in Cache!Snapshot
         /\ step'[t] = "stamped"
<1>1. /\ step[t] = "changed"
      /\ stamped' = [stamped EXCEPT ![t] =
                       [term |-> t, change |-> changes[t], token |-> token[t]]]
      /\ step' = [step EXCEPT ![t] = "stamped"]
  BY DEF Cache!Stamp
<1>2. stamped'[t] = [term |-> t, change |-> changes[t], token |-> token[t]]
  BY <1>1, EngineTypes DEF CacheInv
<1>3. stamped'[t] \in Cache!Snapshot
  <2>1. changes[t] \in 1..MaxChanges /\ token[t] \in 0..MaxTerm
    BY <1>1, Elected, EngineTypes DEF CacheInv
  <2>2. QED
    BY <1>2, <2>1 DEF Cache!Snapshot
<1>4. \A u \in Cache!Terms : u # t => stamped'[u] = stamped[u] /\ step'[u] = step[u]
  BY <1>1, EngineTypes DEF CacheInv
<1>5. ASSUME NEW u \in Cache!Terms, Unstamped(u) PROVE Unstamped(u)'
  <2>1. CASE u = t
    <3>1. token[t] = 0
      BY <1>5, <2>1 DEF CacheInv, TermsInv, Unstamped
    <3>2. stamped'[t].token = 0 /\ stamped'[t] # Cache!None
      BY <1>2, <1>3, <3>1, SnapshotFields
    <3>3. QED
      BY <2>1, <3>2 DEF Unstamped
  <2>2. CASE u # t
    BY <1>4, <1>5, <2>2 DEF Unstamped
  <2>3. QED
    BY <2>1, <2>2
<1>6. Cache!Unfenced => Cache!Unfenced'
  BY <1>5 DEF Cache!Unfenced, Unstamped
<1>7. step'[t] = "stamped"
  BY <1>1, EngineTypes DEF CacheInv
<1>8. QED
  BY <1>2, <1>3, <1>4, <1>5, <1>6, <1>7

\* OnOrderBookUpdate reads the token.
LEMMA StampKeeps ==
  ASSUME CacheInv, NEW t \in Cache!Terms, Cache!Stamp(t)
  PROVE  CacheInv'
<1>1. /\ step[t] = "changed" /\ step' = [step EXCEPT ![t] = "stamped"]
      /\ stamped' = [stamped EXCEPT ![t] =
                       [term |-> t, change |-> changes[t], token |-> token[t]]]
      /\ UNCHANGED <<newest, token, changes, cache, feed, offset, next, place, restarts, missed, unsent>>
  BY DEF Cache!Stamp, Cache!consumerVars
<1>2. t <= newest /\ changes[t] \in 1..MaxChanges /\ t \in Nat /\ newest \in Nat
  BY <1>1, Elected, EngineTypes DEF CacheInv
<1>3. PICK v : v = [term |-> t, change |-> changes[t], token |-> token[t]]
  OBVIOUS
<1>4. v.term = t /\ v.change = changes[t] /\ v.token = token[t]
  BY <1>3
<1>5. stamped'[t] = v /\ v \in Cache!Snapshot /\ step'[t] = "stamped" /\ v # Cache!None
      /\ \A u \in Cache!Terms : u # t => stamped'[u] = stamped[u] /\ step'[u] = step[u]
  BY <1>3, StampStays, SnapshotFields
<1>6. Cache!TypeOK'
  <2>1. stamped' = [stamped EXCEPT ![t] = v]
    BY <1>1, <1>3
  <2>2. stamped' \in [Cache!Terms -> Cache!Snapshot \cup {Cache!None}]
    BY <1>5, <2>1, EngineTypes DEF CacheInv
  <2>3. step' \in [Cache!Terms -> {"idle", "changed", "stamped", "written"}]
    BY <1>1, EngineTypes DEF CacheInv
  <2>4. QED
    BY <1>1, <2>2, <2>3 DEF CacheInv, Cache!TypeOK
<1>7. TermsInv'
  <2> SUFFICES ASSUME NEW u \in Cache!Terms
               PROVE  /\ token[u] \in {0, u}
                      /\ changes[u] = 0 <=> u > newest
                      /\ u > newest => token[u] = 0 /\ step'[u] = "idle" /\ stamped'[u] = Cache!None
                      /\ stamped'[u] # Cache!None =>
                           /\ stamped'[u].term = u /\ stamped'[u].change <= changes[u]
                           /\ stamped'[u].token \in {0, u}
                           /\ stamped'[u].token = 0 => token[u] = 0
                      /\ step'[u] \in {"stamped", "written"} =>
                           stamped'[u] # Cache!None /\ stamped'[u].change = changes[u]
    BY <1>1 DEF TermsInv
  <2>1. CASE u = t
    <3>1. token[u] \in {0, u} /\ (changes[u] = 0 <=> u > newest) /\ ~(u > newest)
      BY <1>2, <2>1 DEF CacheInv, TermsInv
    <3>2. changes[u] <= changes[u]
      BY <1>2, <2>1
    <3>3. QED
      BY <1>4, <1>5, <2>1, <3>1, <3>2
  <2>2. CASE u # t
    BY <1>5, <2>2 DEF CacheInv, TermsInv
  <2>3. QED
    BY <2>1, <2>2
<1>8. SnapshotsInv'
  <2>1. ASSUME NEW s \in Cache!Snapshot, Genuine(s) PROVE Genuine(s)'
    <3>1. s.term \in Cache!Terms
      BY SnapshotFields
    <3>2. Unstamped(s.term) => Unstamped(s.term)'
      BY <3>1, StampStays
    <3>3. QED
      BY <1>1, <2>1, <3>2 DEF Genuine
  <2>2. cache' # Cache!None => Genuine(cache)'
    <3>1. PICK s : s = cache
      OBVIOUS
    <3>2. s # Cache!None => Genuine(s)'
      BY <2>1, <3>1, FeedTypes DEF CacheInv, SnapshotsInv
    <3>3. QED
      BY <1>1, <3>1, <3>2 DEF Genuine
  <2>3. ASSUME NEW i \in DOMAIN feed PROVE Genuine(feed[i])'
    <3>1. PICK s : s = feed[i]
      OBVIOUS
    <3>2. Genuine(s)'
      BY <2>1, <3>1, FeedTypes DEF CacheInv, SnapshotsInv
    <3>3. QED
      BY <1>1, <3>1, <3>2 DEF Genuine
  <2>4. \A i \in DOMAIN feed : step'[feed[i].term] # "idle" => step[feed[i].term] # "idle"
    BY <1>1, <1>5, FeedTypes, SnapshotFields DEF CacheInv
  <2>5. QED
    BY <1>1, <2>2, <2>3, <2>4 DEF CacheInv, SnapshotsInv
<1>9. LatestInv'
  <2>1. CASE t = newest
    BY <1>1, <1>5, <2>1 DEF LatestInv
  <2>2. CASE t # newest
    <3>1. step'[newest] = step[newest]
      BY <1>5, <2>2, EngineTypes DEF CacheInv
    <3>2. Cache!Unfenced => Cache!Unfenced'
      BY StampStays
    <3>3. \A p \in DOMAIN feed : Shown(p)' <=> Shown(p)
      BY <1>1 DEF Shown
    <3>4. QED
      BY <1>1, <3>1, <3>2, <3>3, LatestStays
  <2>3. QED
    BY <2>1, <2>2
<1>10. QED
  BY <1>6, <1>7, <1>8, <1>9 DEF CacheInv

\* The latest record has the newest token.
LEMMA LatestToken ==
  ASSUME CacheInv, ~Cache!Unfenced, NEW p \in DOMAIN feed, LatestAt(p)
  PROVE  feed[p].token = newest /\ newest \in Nat /\ newest # 0
<1>1. feed[p] \in Cache!Snapshot /\ Genuine(feed[p])
  BY FeedTypes DEF CacheInv, SnapshotsInv
<1>2. PICK s : s = feed[p]
  OBVIOUS
<1>3. s.token = s.term
  BY <1>1, <1>2, Fenced
<1>4. newest \in Nat /\ newest # 0
  BY EngineTypes DEF CacheInv
<1>5. QED
  BY <1>2, <1>3, <1>4 DEF LatestAt

\* An older leader's snapshot does not replace the latest.
LEMMA OldRefused ==
  ASSUME CacheInv, ~Cache!Unfenced, NEW p \in DOMAIN feed, LatestAt(p), cache = feed[p],
         NEW s \in Cache!Snapshot, Genuine(s), s.term # newest
  PROVE  Cache!Written(s) = cache
<1>1. s.token = s.term /\ s.term \in Nat /\ s.term <= newest
  BY Fenced, SnapshotFields DEF Genuine
<1>2. s.term \in Cache!Terms /\ s.term # 0
  BY SnapshotFields, EngineTypes DEF CacheInv
<1>3. cache.token = newest /\ newest \in Nat
  BY LatestToken
<1>4. ~Cache!Accepts(s)
  BY <1>1, <1>2, <1>3 DEF Cache!Accepts
<1>5. QED
  BY <1>4 DEF Cache!Written

\* The latest snapshot replaces whatever is in the cache.
LEMMA LatestAccepted ==
  ASSUME CacheInv, ~Cache!Unfenced, NEW p \in DOMAIN feed, LatestAt(p)
  PROVE  Cache!Written(feed[p]) = feed[p]
<1>1. feed[p].token = newest /\ newest \in Nat
  BY LatestToken
<1>2. cache.token \in Nat /\ cache.token <= newest
  <2>1. CASE cache = Cache!None
    BY <1>1, <2>1, SnapshotFields
  <2>2. CASE cache # Cache!None
    <3>1. cache \in Cache!Snapshot /\ Genuine(cache)
      BY <2>2, FeedTypes DEF CacheInv, SnapshotsInv
    <3>2. QED
      BY <1>1, <3>1, SnapshotFields DEF Genuine
  <2>3. QED
    BY <2>1, <2>2
<1>3. Cache!Accepts(feed[p])
  BY <1>1, <1>2 DEF Cache!Accepts
<1>4. QED
  BY <1>3 DEF Cache!Written

\* SetOrderBookSnapshot by the engine.
LEMMA WriteCacheKeeps ==
  ASSUME CacheInv, NEW t \in Cache!Terms, Cache!WriteCache(t)
  PROVE  CacheInv'
<1>1. /\ step[t] = "stamped" /\ step' = [step EXCEPT ![t] = "written"]
      /\ cache' \in {cache, Cache!Written(stamped[t])}
      /\ UNCHANGED <<newest, token, changes, stamped, feed, offset, next, place, restarts, missed, unsent>>
  BY DEF Cache!WriteCache, Cache!consumerVars
<1>2. PICK s : s = stamped[t]
  OBVIOUS
<1>3. s \in Cache!Snapshot /\ Genuine(s) /\ s.term = t
  BY <1>1, <1>2, StampIsGenuine
<1>4. cache' = cache \/ cache' = s
  BY <1>1, <1>2 DEF Cache!Written
<1>5. step'[t] = "written" /\ \A u \in Cache!Terms : u # t => step'[u] = step[u]
  BY <1>1, EngineTypes DEF CacheInv
<1>6. Cache!TypeOK'
  <2>1. step' \in [Cache!Terms -> {"idle", "changed", "stamped", "written"}]
    BY <1>1, EngineTypes DEF CacheInv
  <2>2. cache' \in Cache!Snapshot \cup {Cache!None}
    BY <1>3, <1>4, FeedTypes DEF CacheInv
  <2>3. QED
    BY <1>1, <2>1, <2>2 DEF CacheInv, Cache!TypeOK
<1>7. TermsInv'
  <2>1. \A u \in Cache!Terms :
          step'[u] = step[u] \/ (u = t /\ step[u] = "stamped" /\ step'[u] = "written")
    BY <1>1, <1>5
  <2>2. QED
    BY <1>1, <2>1 DEF CacheInv, TermsInv
<1>8. SnapshotsInv'
  <2>1. \A r : Genuine(r)' <=> (/\ r.term <= newest /\ r.change <= changes[r.term]
                                /\ r.token \in {0, r.term} /\ (r.token = 0 => Unstamped(r.term)))
    BY <1>1 DEF Genuine, Unstamped
  <2>2. cache' # Cache!None => Genuine(cache)'
    <3>1. PICK r : r = cache'
      OBVIOUS
    <3>2. r # Cache!None => Genuine(r)
      BY <1>3, <1>4, <3>1 DEF CacheInv, SnapshotsInv
    <3>3. r # Cache!None => Genuine(r)'
      BY <2>1, <3>2 DEF Genuine
    <3>4. QED
      BY <1>1, <3>1, <3>3 DEF Genuine, Unstamped
  <2>3. \A i \in DOMAIN feed : step'[feed[i].term] # "idle" => step[feed[i].term] # "idle"
    BY <1>1, <1>5, FeedTypes, SnapshotFields DEF CacheInv
  <2>4. \A i \in DOMAIN feed' : Genuine(feed[i])'
    BY <1>1 DEF CacheInv, SnapshotsInv, Genuine, Unstamped
  <2>5. QED
    BY <1>1, <2>2, <2>3, <2>4 DEF CacheInv, SnapshotsInv
<1>9. LatestInv'
  <2>1. CASE t = newest
    BY <1>1, <1>5, <2>1 DEF LatestInv
  <2>2. CASE t # newest
    <3>1. step'[newest] = step[newest]
      BY <1>5, <2>2, EngineTypes DEF CacheInv
    <3>2. Cache!Unfenced => Cache!Unfenced'
      BY <1>1 DEF Cache!Unfenced
    <3>3. ASSUME NEW p \in DOMAIN feed, LatestAt(p), ~Cache!Unfenced, Shown(p)',
                 Shown(p) => cache = feed[p]
          PROVE  cache' = feed[p]
      <4>1. cache = feed[p]
        BY <1>1, <3>3 DEF Shown
      <4>2. Cache!Written(s) = cache
        BY <1>3, <2>2, <3>3, <4>1, OldRefused
      <4>3. QED
        BY <1>1, <1>2, <4>1, <4>2
    <3>4. QED
      BY <1>1, <3>1, <3>2, <3>3, LatestStays
  <2>3. QED
    BY <2>1, <2>2
<1>10. QED
  BY <1>6, <1>7, <1>8, <1>9 DEF CacheInv

\* The consumer moves, or writes: the engines and the feed stay.
LEMMA ConsumerKeeps ==
  ASSUME CacheInv, UNCHANGED <<newest, token, changes, step, stamped, feed, unsent>>,
         missed \subseteq missed', missed' \subseteq Cache!Terms \X (1..MaxChanges),
         cache' = cache \/ (cache' \in Cache!Snapshot /\ Genuine(cache')),
         next' \in 1..(Len(feed) + 1), offset' \in 1..next',
         place' \in {"fetch", "push", "commit"}, restarts' \in 0..MaxRestarts,
         place' # "fetch" => next' <= Len(feed),
         \A p \in DOMAIN feed :
           /\ LatestAt(p) /\ Cache!Latest \notin missed' /\ ~Cache!Unfenced /\ Shown(p)'
           /\ Shown(p) => cache = feed[p]
           => cache' = feed[p]
  PROVE  CacheInv'
<1>1. Cache!TypeOK'
  <2>1. cache' \in Cache!Snapshot \cup {Cache!None}
    BY FeedTypes DEF CacheInv
  <2>2. QED
    BY <2>1 DEF CacheInv, Cache!TypeOK
<1>2. TermsInv'
  BY DEF CacheInv, TermsInv
<1>3. SnapshotsInv'
  <2>1. cache' # Cache!None => Genuine(cache)'
    BY DEF CacheInv, SnapshotsInv, Genuine, Unstamped
  <2>2. \A i \in DOMAIN feed' : Genuine(feed[i])'
    BY DEF CacheInv, SnapshotsInv, Genuine, Unstamped
  <2>3. QED
    BY <2>1, <2>2 DEF CacheInv, SnapshotsInv
<1>4. LatestInv'
  <2>1. Cache!Unfenced => Cache!Unfenced'
    BY DEF Cache!Unfenced
  <2>2. QED
    BY <2>1, LatestStays
<1>5. QED
  BY <1>1, <1>2, <1>3, <1>4 DEF CacheInv

\* HandleOrderBook writes the record, or fails to.
LEMMA HandleKeeps ==
  ASSUME CacheInv, Cache!Cache
  PROVE  CacheInv'
<1>1. /\ place = "fetch" /\ next <= Len(feed) /\ place' = "push"
      /\ \/ cache' = Cache!Written(feed[next]) /\ missed' = missed
         \/ missed' = missed \cup {<<feed[next].term, feed[next].change>>} /\ cache' = cache
      /\ UNCHANGED <<newest, token, changes, step, stamped, feed, offset, next, restarts, unsent>>
  BY DEF Cache!Cache, Cache!engineVars
<1>2. next \in DOMAIN feed
  BY <1>1, FeedTypes DEF CacheInv
<1>3. PICK s : s = feed[next]
  OBVIOUS
<1>4. s \in Cache!Snapshot /\ Genuine(s)
  BY <1>2, <1>3, FeedTypes DEF CacheInv, SnapshotsInv
<1>5. missed \subseteq missed' /\ missed' \subseteq Cache!Terms \X (1..MaxChanges)
  <2>1. <<s.term, s.change>> \in Cache!Terms \X (1..MaxChanges)
    BY <1>4, SnapshotFields
  <2>2. missed \subseteq Cache!Terms \X (1..MaxChanges)
    BY EngineTypes DEF CacheInv
  <2>3. QED
    BY <1>1, <1>3, <2>1, <2>2
<1>6. cache' = cache \/ (cache' \in Cache!Snapshot /\ Genuine(cache'))
  <2>1. PICK r : r = cache'
    OBVIOUS
  <2>2. r = cache \/ (r \in Cache!Snapshot /\ Genuine(r))
    BY <1>1, <1>3, <1>4, <2>1 DEF Cache!Written
  <2>3. QED
    BY <2>1, <2>2
<1>7. ASSUME NEW p \in DOMAIN feed, LatestAt(p), Cache!Latest \notin missed', ~Cache!Unfenced,
             Shown(p)', Shown(p) => cache = feed[p]
      PROVE  cache' = feed[p]
  <2>1. next \in Nat /\ p \in Nat /\ newest \in Nat
    BY FeedTypes, EngineTypes DEF CacheInv
  <2>2. next > p \/ next = p
    BY <1>1, <1>7 DEF Shown
  <2>3. CASE next = p
    <3>1. <<s.term, s.change>> = Cache!Latest
      BY <1>3, <1>7, <2>3 DEF LatestAt, Cache!Latest
    <3>2. cache' = Cache!Written(feed[p])
      BY <1>1, <1>3, <1>7, <2>3, <3>1
    <3>3. QED
      BY <1>7, <3>2, LatestAccepted
  <2>4. CASE next > p
    <3>1. cache = feed[p]
      BY <1>7, <2>4 DEF Shown
    <3>2. s.term # newest
      <4>1. SUFFICES ASSUME s.term = newest PROVE FALSE
        OBVIOUS
      <4>2. feed[p].change < s.change
        BY <1>2, <1>3, <1>7, <2>1, <2>4, <4>1 DEF CacheInv, SnapshotsInv, LatestAt
      <4>3. s.change <= changes[newest] /\ feed[p].change = changes[newest]
        BY <1>4, <1>7, <4>1 DEF Genuine, LatestAt
      <4>4. s.change \in Nat /\ changes[newest] \in Nat
        BY <1>4, SnapshotFields, EngineTypes DEF CacheInv
      <4>5. QED
        BY <4>2, <4>3, <4>4
    <3>3. Cache!Written(s) = cache
      BY <1>4, <1>7, <3>1, <3>2, OldRefused
    <3>4. QED
      BY <1>1, <1>3, <3>1, <3>3
  <2>5. QED
    BY <2>2, <2>3, <2>4
<1>8. /\ next' \in 1..(Len(feed) + 1) /\ offset' \in 1..next' /\ restarts' \in 0..MaxRestarts
      /\ place' \in {"fetch", "push", "commit"} /\ next' <= Len(feed)
  BY <1>1, FeedTypes DEF CacheInv
<1>9. QED
  BY <1>1, <1>5, <1>6, <1>7, <1>8, ConsumerKeeps

\* The record is pushed, then committed; a restart goes back to the committed offset.
LEMMA MoveKeeps ==
  ASSUME CacheInv, Cache!Push \/ Cache!CommitRecord \/ Cache!Restart
  PROVE  CacheInv'
<1>1. UNCHANGED <<newest, token, changes, step, stamped, feed, cache, missed, unsent>>
  BY DEF Cache!Push, Cache!CommitRecord, Cache!Restart, Cache!engineVars
<1>2. /\ next \in Nat /\ offset \in 1..next /\ offset \in Nat /\ Len(feed) \in Nat
      /\ next \in 1..(Len(feed) + 1) /\ restarts \in 0..MaxRestarts /\ MaxRestarts \in Nat
      /\ place # "fetch" => next <= Len(feed)
  BY FeedTypes, CacheAssumption DEF CacheInv, SnapshotsInv
<1>3. /\ next' \in 1..(Len(feed) + 1) /\ offset' \in 1..next' /\ restarts' \in 0..MaxRestarts
      /\ place' \in {"fetch", "push", "commit"}
      /\ place' # "fetch" => next' <= Len(feed)
      /\ \A p \in Nat : Shown(p)' => Shown(p)
  <2>1. CASE Cache!Push
    BY <1>2, <2>1 DEF Cache!Push, Shown
  <2>2. CASE Cache!CommitRecord
    BY <1>2, <2>2 DEF Cache!CommitRecord, Cache!NextRecord, Shown
  <2>3. CASE Cache!Restart
    BY <1>2, <2>3 DEF Cache!Restart, Shown
  <2>4. QED
    BY <2>1, <2>2, <2>3
<1>4. \A p \in DOMAIN feed : p \in Nat
  BY FeedTypes DEF CacheInv
<1>5. missed' \subseteq Cache!Terms \X (1..MaxChanges)
  BY <1>1, EngineTypes DEF CacheInv
<1>6. QED
  BY <1>1, <1>3, <1>4, <1>5, ConsumerKeeps

\* A feed to which a snapshot may have been added.
LEMMA LongerFeed ==
  ASSUME NEW S, NEW e \in Seq(S), NEW s \in S, NEW f, f = e \/ f = Append(e, s)
  PROVE  /\ f \in Seq(S) /\ Len(f) \in Nat /\ Len(e) <= Len(f)
         /\ Len(f) <= Len(e) + 1 /\ DOMAIN f = 1..Len(f)
         /\ \A i \in DOMAIN e : i \in DOMAIN f /\ f[i] = e[i]
         /\ f = Append(e, s) => Len(f) = Len(e) + 1 /\ f[Len(e) + 1] = s
         /\ \A i \in DOMAIN f : i \in DOMAIN e \/ (f[i] = s /\ i = Len(e) + 1)
<1>1. Len(e) \in Nat /\ DOMAIN e = 1..Len(e)
  OBVIOUS
<1>2. CASE f = Append(e, s)
  <2>1. f \in Seq(S) /\ Len(f) = Len(e) + 1 /\ DOMAIN f = 1..(Len(e) + 1)
    BY <1>2
  <2>2. f[Len(e) + 1] = s /\ \A i \in 1..Len(e) : f[i] = e[i]
    BY <1>2
  <2>3. QED
    BY <1>1, <2>1, <2>2
<1>3. CASE f # Append(e, s)
  <2>1. f = e
    BY <1>3
  <2>2. Len(e) <= Len(e) /\ Len(e) <= Len(e) + 1
    BY <1>1
  <2>3. QED
    BY <1>1, <1>3, <2>1, <2>2, Zenon
<1>4. QED
  BY <1>2, <1>3

\* The snapshot is published, or the failure only logged.
LEMMA PublishKeeps ==
  ASSUME CacheInv, NEW t \in Cache!Terms, Cache!Publish(t)
  PROVE  CacheInv'
<1>1. PICK s : s = stamped[t]
  OBVIOUS
<1>2. /\ step[t] = "written" /\ step' = [step EXCEPT ![t] = "idle"]
      /\ feed' = feed \/ feed' = Append(feed, s)
      /\ \/ feed' = Append(feed, s) /\ missed' = missed
         \/ missed' = missed \cup {<<t, changes[t]>>}
      /\ UNCHANGED <<newest, token, changes, stamped, cache, offset, next, place, restarts, unsent>>
  BY <1>1 DEF Cache!Publish, Cache!consumerVars
<1>3. s \in Cache!Snapshot /\ Genuine(s) /\ s.term = t /\ s.change = changes[t]
  BY <1>1, <1>2, StampIsGenuine
<1>4. changes[t] \in 1..MaxChanges
  BY <1>2, Elected
<1>5. step'[t] = "idle" /\ \A u \in Cache!Terms : u # t => step'[u] = step[u]
  BY <1>2, EngineTypes DEF CacheInv
<1>6. PICK f : f = feed'
  OBVIOUS
<1>7. /\ f \in Seq(Cache!Snapshot) /\ Len(f) \in Nat /\ Len(feed) <= Len(f)
      /\ Len(f) <= Len(feed) + 1 /\ DOMAIN f = 1..Len(f)
      /\ \A i \in DOMAIN feed : i \in DOMAIN f /\ f[i] = feed[i]
      /\ f = Append(feed, s) => Len(f) = Len(feed) + 1 /\ f[Len(feed) + 1] = s
      /\ \A i \in DOMAIN f : i \in DOMAIN feed \/ (f[i] = s /\ i = Len(feed) + 1)
  BY <1>2, <1>3, <1>6, FeedTypes, LongerFeed DEF CacheInv
<1>8. /\ Len(feed) \in Nat /\ DOMAIN feed = 1..Len(feed) /\ Len(f) \in Nat
      /\ Len(feed) <= Len(f) /\ Len(f) <= Len(feed) + 1 /\ DOMAIN f = 1..Len(f)
  BY <1>7, FeedTypes DEF CacheInv
<1>9. Cache!TypeOK'
  <2>1. step' \in [Cache!Terms -> {"idle", "changed", "stamped", "written"}]
    BY <1>2, EngineTypes DEF CacheInv
  <2>2. missed' \subseteq Cache!Terms \X (1..MaxChanges)
    BY <1>2, <1>4, EngineTypes DEF CacheInv
  <2>3. feed' \in Seq(Cache!Snapshot) /\ next' \in 1..(Len(feed') + 1) /\ offset' \in 1..next'
    <3>1. next \in 1..(Len(feed) + 1) /\ Len(feed) \in Nat /\ offset \in 1..next
      BY FeedTypes DEF CacheInv
    <3>2. next \in 1..(Len(f) + 1)
      BY <1>8, <3>1
    <3>3. QED
      BY <1>2, <1>6, <1>7, <3>1, <3>2
  <2>4. QED
    BY <1>2, <2>1, <2>2, <2>3 DEF CacheInv, Cache!TypeOK
<1>10. TermsInv'
  <2>1. \A u \in Cache!Terms : step'[u] \in {step[u], "idle"}
    BY <1>5
  <2>2. QED
    BY <1>2, <2>1 DEF CacheInv, TermsInv
<1>11. SnapshotsInv'
  <2>1. cache' # Cache!None => Genuine(cache)'
    BY <1>2 DEF CacheInv, SnapshotsInv, Genuine, Unstamped
  <2>2. \A i \in DOMAIN f : f[i] \in Cache!Snapshot /\ Genuine(f[i])
    BY <1>3, <1>7, FeedTypes DEF CacheInv, SnapshotsInv
  <2>3. ASSUME NEW i \in DOMAIN f, NEW j \in DOMAIN f, i < j, f[i].term = f[j].term
        PROVE  f[i].change < f[j].change
    <3>2. i \in DOMAIN feed
      BY <1>8, <2>3
    <3>3. CASE j \in DOMAIN feed
      BY <1>7, <2>3, <3>2, <3>3 DEF CacheInv, SnapshotsInv
    <3>4. CASE f[j] = s
      <4>1. feed[i].term = t /\ feed[i].change < changes[t]
        BY <1>2, <1>3, <1>7, <2>3, <3>2, <3>4 DEF CacheInv, SnapshotsInv
      <4>2. QED
        BY <1>3, <1>7, <3>2, <3>4, <4>1
    <3>5. QED
      BY <1>7, <3>3, <3>4
  <2>4. ASSUME NEW i \in DOMAIN f, step'[f[i].term] # "idle"
        PROVE  f[i].change < changes[f[i].term]
    <3>1. f[i].term \in Cache!Terms /\ f[i].term # t
      BY <1>5, <2>2, <2>4, SnapshotFields
    <3>2. i \in DOMAIN feed /\ f[i] = feed[i]
      BY <1>3, <1>7, <3>1
    <3>3. step[feed[i].term] # "idle"
      BY <1>5, <2>4, <3>1, <3>2
    <3>4. QED
      BY <3>2, <3>3 DEF CacheInv, SnapshotsInv
  <2>5. place' # "fetch" => next' <= Len(f)
    <3>1. next \in Nat /\ Len(feed) \in Nat
      BY FeedTypes DEF CacheInv
    <3>2. QED
      BY <1>2, <1>8, <3>1 DEF CacheInv, SnapshotsInv
  <2>6. \A i \in DOMAIN feed' : Genuine(feed[i])'
    BY <1>2, <1>6, <2>2 DEF Genuine, Unstamped
  <2>7. QED
    BY <1>2, <1>6, <2>1, <2>3, <2>4, <2>5, <2>6 DEF SnapshotsInv
<1>12. LatestInv'
  <2>1. CASE t = newest /\ missed' = missed \cup {<<t, changes[t]>>}
    BY <1>2, <2>1 DEF LatestInv, Cache!Latest
  <2>2. CASE t = newest /\ feed' = Append(feed, s)
    <3>1. Len(f) = Len(feed) + 1 /\ f[Len(f)] = s /\ Len(f) \in DOMAIN f
      <4>1. f = Append(feed, s)
        BY <1>6, <2>2
      <4>2. Len(f) = Len(feed) + 1 /\ f[Len(feed) + 1] = s
        BY <1>7, <4>1
      <4>3. QED
        BY <1>7, <1>8, <4>2
    <3>2. LatestAt(Len(f))'
      BY <1>2, <1>3, <1>6, <2>2, <3>1 DEF LatestAt
    <3>3. ~Shown(Len(f))'
      <4>1. next \in 1..(Len(feed) + 1) /\ Len(feed) \in Nat
            /\ (place # "fetch" => next <= Len(feed))
        BY FeedTypes DEF CacheInv, SnapshotsInv
      <4>2. PICK n : n = Len(f)
        OBVIOUS
      <4>3. ~(next > n \/ (next = n /\ place # "fetch"))
        BY <3>1, <4>1, <4>2
      <4>4. QED
        BY <1>2, <1>6, <4>2, <4>3 DEF Shown
    <3>4. QED
      BY <1>6, <3>1, <3>2, <3>3 DEF LatestInv
  <2>3. CASE t # newest
    <3>1. step'[newest] = step[newest]
      BY <1>5, <2>3, EngineTypes DEF CacheInv
    <3>2. Cache!Unfenced => Cache!Unfenced'
      BY <1>2 DEF Cache!Unfenced
    <3>3. \A p \in DOMAIN feed : Shown(p)' <=> Shown(p)
      BY <1>2 DEF Shown
    <3>4. DOMAIN feed \subseteq DOMAIN feed' /\ \A i \in DOMAIN feed : feed'[i] = feed[i]
      BY <1>6, <1>7
    <3>5. missed \subseteq missed'
      BY <1>2
    <3>6. QED
      BY <1>2, <3>1, <3>2, <3>3, <3>4, <3>5, LatestStays
  <2>4. QED
    BY <1>2, <2>1, <2>2, <2>3
<1>13. QED
  BY <1>9, <1>10, <1>11, <1>12 DEF CacheInv

\* Every step of the engines and of the market-data-service keeps CacheInv.
LEMMA StepKeepsCache ==
  ASSUME CacheInv, [Cache!Next]_cacheVars
  PROVE  CacheInv'
<1>1. CASE Cache!BecomeLeader
  BY <1>1, LeaderKeeps
<1>2. ASSUME NEW t \in Cache!Terms,
             Cache!LoseLeadership(t) \/ Cache!Crash(t) \/ Cache!EngineStep(t)
      PROVE  CacheInv'
  BY <1>2, LossKeeps, ChangeKeeps, StampKeeps, WriteCacheKeeps, PublishKeeps
     DEF Cache!EngineStep
<1>3. CASE Cache!ConsumerStep
  BY <1>3, HandleKeeps, MoveKeeps DEF Cache!ConsumerStep
<1>4. CASE UNCHANGED cacheVars
  <2>1. /\ UNCHANGED <<newest, token, changes, step, stamped, feed, cache, missed>>
        /\ UNCHANGED <<offset, next, place, restarts, unsent>>
    BY <1>4 DEF cacheVars
  <2>2. \A p : Shown(p)' <=> Shown(p)
    BY <2>1 DEF Shown
  <2>3. /\ next' \in 1..(Len(feed) + 1) /\ offset' \in 1..next' /\ restarts' \in 0..MaxRestarts
        /\ place' \in {"fetch", "push", "commit"}
        /\ place' # "fetch" => next' <= Len(feed)
        /\ missed' \subseteq Cache!Terms \X (1..MaxChanges)
    BY <2>1, FeedTypes, EngineTypes DEF CacheInv, SnapshotsInv
  <2>4. QED
    BY <2>1, <2>2, <2>3, ConsumerKeeps
<1>5. QED
  BY <1>1, <1>2, <1>3, <1>4 DEF Cache!Next, Cache!LeaderStep

\* When everything has arrived, the consumer is past the latest record.
LEMMA LatestIsShown == CacheInv => CacheSettles
<1> SUFFICES ASSUME CacheInv, Cache!Settled, Cache!Latest \notin missed \cup unsent,
                    ~Cache!Unfenced
             PROVE  <<cache.term, cache.change>> = Cache!Latest
  BY DEF CacheSettles, Cache!CacheSettles
<1>1. step[newest] = "idle" /\ next > Len(feed)
  BY EngineTypes DEF CacheInv, Cache!Settled
<1>2. PICK p \in DOMAIN feed : LatestAt(p) /\ (Shown(p) => cache = feed[p])
  BY <1>1 DEF CacheInv, LatestInv
<1>3. Shown(p)
  BY <1>1, <1>2, FeedTypes DEF CacheInv, Shown
<1>4. QED
  BY <1>2, <1>3 DEF LatestAt, Cache!Latest

-----------------------------------------------------------------------------
(* The types of the WebSocket hub: its channels keep to their capacities. *)

\* A sequence of elements of S is one of elements of a larger set.
LEMMA SeqOfMore ==
  ASSUME NEW S, NEW T, S \subseteq T, NEW s \in Seq(S)
  PROVE  s \in Seq(T)
<1>1. s \in [1..Len(s) -> S] /\ Len(s) \in Nat
  OBVIOUS
<1>2. s \in [1..Len(s) -> T]
  BY <1>1
<1>3. QED
  BY <1>1, <1>2

\* Nothing has been sent at the start.
LEMMA InitHubTypes == Init => TypeOK
BY CapacitiesAssumption DEF Init, TypeOK

\* A call of Broadcast: the message goes into the channel only when there is room.
LEMMA BroadcastTypes ==
  ASSUME TypeOK, Broadcast
  PROVE  TypeOK'
<1>1. /\ calls \in 0..MaxMessages /\ calls < MaxMessages /\ calls' = calls + 1
      /\ MaxMessages \in Nat /\ QueueCap \in Nat /\ queue \in Seq(1..calls) /\ Len(queue) <= QueueCap
      /\ log \in Seq(1..calls) /\ send \in [Clients -> Seq(1..calls)]
      /\ received \in [Clients -> Seq(1..calls)]
  BY CapacitiesAssumption DEF Broadcast, TypeOK
<1>2. PICK n : n = calls'
  OBVIOUS
<1>3. PICK S, T : S = 1..calls /\ T = 1..n
  OBVIOUS
<1>4. n \in 0..MaxMessages /\ n \in T /\ S \subseteq T /\ 1..calls' = T
  BY <1>1, <1>2, <1>3
<1>5. /\ queue \in Seq(S) /\ queue \in Seq(T) /\ log \in Seq(T)
      /\ \A c \in Clients : send[c] \in Seq(T) /\ received[c] \in Seq(T)
  BY <1>1, <1>3, <1>4, SeqOfMore
<1>6. send \in [Clients -> Seq(T)] /\ received \in [Clients -> Seq(T)]
  BY <1>1, <1>5
<1>7. queue' \in Seq(T) /\ Len(queue') <= QueueCap
  <2>1. CASE Room
    <3>1. queue' = Append(queue, n) /\ Len(queue) < QueueCap
      BY <1>2, <2>1 DEF Broadcast, Room
    <3>2. Append(queue, n) \in Seq(T) /\ Len(Append(queue, n)) = Len(queue) + 1
          /\ Len(queue) \in Nat
      BY <1>4, <1>5
    <3>3. QED
      BY <1>1, <3>1, <3>2
  <2>2. CASE ~Room
    BY <1>1, <1>5, <2>2 DEF Broadcast
  <2>3. QED
    BY <2>1, <2>2
<1>8. /\ log' = log /\ send' = send /\ received' = received
      /\ UNCHANGED <<clients, closes, sentOn, reader, writer, connOpen, joined>>
  BY DEF Broadcast
<1>9. calls' \in 0..MaxMessages
  BY <1>2, <1>4
<1>10. /\ queue' \in Seq(1..calls') /\ log' \in Seq(1..calls')
       /\ send' \in [Clients -> Seq(1..calls')] /\ received' \in [Clients -> Seq(1..calls')]
  BY <1>4, <1>5, <1>6, <1>7, <1>8
<1>11. QED
  BY <1>7, <1>8, <1>9, <1>10 DEF TypeOK

\* Run moves a message: only into channels with room.
LEMMA DeliverTypes ==
  ASSUME TypeOK, Deliver
  PROVE  TypeOK'
<1>1. PICK T : T = 1..calls
  OBVIOUS
<1>2. /\ queue \in Seq(T) /\ queue # <<>> /\ Len(queue) <= QueueCap /\ log \in Seq(T)
      /\ send \in [Clients -> Seq(T)] /\ \A c \in Clients : Len(send[c]) <= SendCap
      /\ SendCap \in Nat /\ QueueCap \in Nat
  BY <1>1, CapacitiesAssumption DEF TypeOK, Deliver
<1>3. PICK h : h = Head(queue)
  OBVIOUS
<1>4. h \in T /\ Tail(queue) \in Seq(T) /\ Len(Tail(queue)) = Len(queue) - 1 /\ Len(queue) \in Nat
  BY <1>2, <1>3
<1>5. Append(log, h) \in Seq(T)
  BY <1>2, <1>4
<1>6. queue' \in Seq(T) /\ Len(queue') <= QueueCap
  BY <1>2, <1>4 DEF Deliver
<1>7. \A c \in Clients :
        LET s == IF c \in clients /\ Len(send[c]) < SendCap THEN Append(send[c], h) ELSE send[c]
        IN s \in Seq(T) /\ Len(s) <= SendCap
  <2> SUFFICES ASSUME NEW c \in Clients, Len(send[c]) < SendCap
               PROVE  Append(send[c], h) \in Seq(T) /\ Len(Append(send[c], h)) <= SendCap
    BY <1>2
  <2>1. PICK s : s = send[c]
    OBVIOUS
  <2>2. s \in Seq(T) /\ Len(s) < SendCap /\ Len(s) \in Nat
    BY <1>2, <2>1
  <2>3. Append(s, h) \in Seq(T) /\ Len(Append(s, h)) = Len(s) + 1
    BY <1>4, <2>2
  <2>4. QED
    BY <1>2, <2>1, <2>2, <2>3
<1>8. send' = [c \in Clients |->
                 IF c \in clients /\ Len(send[c]) < SendCap THEN Append(send[c], h) ELSE send[c]]
  BY <1>3 DEF Deliver
<1>9. send' \in [Clients -> Seq(T)] /\ \A c \in Clients : Len(send'[c]) <= SendCap
  BY <1>7, <1>8
<1>10. closes' \in [Clients -> Nat] /\ clients' \subseteq Clients /\ sentOn' \subseteq Clients
  BY DEF Deliver, Drop, TypeOK
<1>11. log' \in Seq(T)
  BY <1>3, <1>5 DEF Deliver
<1>12. UNCHANGED <<calls, reader, writer, connOpen, joined, received>>
  BY DEF Deliver
<1>13. QED
  BY <1>1, <1>6, <1>9, <1>10, <1>11, <1>12 DEF TypeOK

\* A client takes a message from its channel.
LEMMA WriteTypes ==
  ASSUME TypeOK, NEW c \in Clients, Write(c)
  PROVE  TypeOK'
<1>1. PICK T : T = 1..calls
  OBVIOUS
<1>2. /\ send \in [Clients -> Seq(T)] /\ \A d \in Clients : Len(send[d]) <= SendCap
      /\ received \in [Clients -> Seq(T)] /\ SendCap \in Nat
  BY <1>1, CapacitiesAssumption DEF TypeOK
<1>3. PICK s, r : s = send[c] /\ r = received[c]
  OBVIOUS
<1>4. s \in Seq(T) /\ r \in Seq(T) /\ s # <<>> /\ Len(s) <= SendCap
  BY <1>2, <1>3 DEF Write
<1>5. Head(s) \in T /\ Tail(s) \in Seq(T) /\ Len(Tail(s)) = Len(s) - 1 /\ Len(s) \in Nat
  BY <1>4
<1>6. Append(r, Head(s)) \in Seq(T)
  BY <1>4, <1>5
<1>7. /\ send' = [send EXCEPT ![c] = Tail(s)]
      /\ received' = [received EXCEPT ![c] = Append(r, Head(s))]
  BY <1>3 DEF Write
<1>8. send' \in [Clients -> Seq(T)] /\ received' \in [Clients -> Seq(T)]
  BY <1>2, <1>5, <1>6, <1>7
<1>9. \A d \in Clients : Len(send'[d]) <= SendCap
  <2> SUFFICES ASSUME NEW d \in Clients PROVE Len(send'[d]) <= SendCap
    OBVIOUS
  <2>1. CASE d = c
    <3>1. send'[d] = Tail(s)
      BY <1>2, <1>7, <2>1
    <3>2. Len(Tail(s)) <= SendCap
      BY <1>2, <1>4, <1>5
    <3>3. QED
      BY <3>1, <3>2
  <2>2. CASE d # c
    BY <1>2, <1>7, <2>2
  <2>3. QED
    BY <2>1, <2>2
<1>10. writer' \in [Clients -> {"none", "writing", "gone"}]
  BY DEF TypeOK, Write, WriterEnds
<1>11. UNCHANGED <<calls, queue, log, clients, closes, sentOn, reader, connOpen, joined>>
  BY DEF Write
<1>12. QED
  BY <1>1, <1>8, <1>9, <1>10, <1>11 DEF TypeOK

\* The steps that move no message.
LEMMA MemberTypes ==
  ASSUME TypeOK, NEW c \in Clients,
         Connect(c) \/ ReadFails(c) \/ PingFails(c) \/ WriteClose(c) \/ Register(c) \/ Unregister(c)
  PROVE  TypeOK'
<1>1. UNCHANGED <<calls, queue, log, send, received>>
  BY DEF Connect, ReadFails, PingFails, WriteClose, Register, Unregister, hubVars
<1>2. reader' \in [Clients -> ReaderStates] /\ writer' \in [Clients -> {"none", "writing", "gone"}]
  BY DEF TypeOK, ReaderStates, Connect, ReadFails, PingFails, WriteClose, WriterEnds, Register,
         Unregister, hubVars, AfterRead
<1>3. clients' \subseteq Clients /\ connOpen' \subseteq Clients /\ sentOn' \subseteq Clients
  BY DEF TypeOK, Connect, ReadFails, PingFails, WriteClose, Register, Unregister, Drop, hubVars
<1>4. closes' \in [Clients -> Nat]
  <2>1. closes \in [Clients -> Nat]
    BY DEF TypeOK
  <2>2. CASE Unregister(c)
    BY <2>1, <2>2 DEF Unregister, Drop
  <2>3. CASE ~Unregister(c)
    BY <2>1, <2>3 DEF Connect, ReadFails, PingFails, WriteClose, Register, hubVars
  <2>4. QED
    BY <2>2, <2>3
<1>5. joined' \in [Clients -> Nat]
  <2>1. Len(log) \in Nat /\ joined \in [Clients -> Nat]
    BY DEF TypeOK
  <2>2. joined' = joined \/ joined' = [joined EXCEPT ![c] = Len(log)]
    BY DEF Connect, ReadFails, PingFails, WriteClose, Register, Unregister
  <2>3. QED
    BY <2>1, <2>2
<1>6. QED
  BY <1>1, <1>2, <1>3, <1>4, <1>5 DEF TypeOK, ReaderStates

\* Every step of the hub and its clients keeps the types.
LEMMA StepKeepsHubTypes == TypeOK /\ [Next]_vars => TypeOK'
<1> SUFFICES ASSUME TypeOK, [Next]_vars PROVE TypeOK'
  OBVIOUS
<1>1. CASE UNCHANGED vars
  BY <1>1 DEF vars, hubVars, TypeOK
<1>2. CASE Next
  BY <1>2, BroadcastTypes, DeliverTypes, WriteTypes, MemberTypes
     DEF Next, HubStep, WriterStep
<1>3. QED
  BY <1>1, <1>2

-----------------------------------------------------------------------------
(* The five parts together: a step is one of a single part, so each keeps its
   invariant. *)

ServicesInv ==
  /\ subject \in Subjects
  /\ TypeOK /\ CacheInv /\ IdempotencyInv /\ LimiterInv /\ LocksInv

\* A step of one part is a stutter of the others.
LEMMA OnePart ==
  ASSUME [ServicesNext]_servicesVars
  PROVE  /\ subject' = subject
         /\ [Next]_vars /\ [Cache!Next]_cacheVars /\ [GatewayNext]_gatewayVars
         /\ [Limiter!Next]_limiterVars /\ [LockNext]_lockVars
BY DEF ServicesNext, servicesVars, HubNext, CacheNext, KeysNext, LimiterNext, TransactionsNext

\* The parts stay within their invariants.
THEOREM ServicesInvariant == ServicesSpec => []ServicesInv
<1>1. ServicesInit => ServicesInv
  BY InitHubTypes, InitCache, InitKeys, InitLimiter, InitLocks DEF ServicesInit, ServicesInv
<1>2. ASSUME ServicesInv, [ServicesNext]_servicesVars PROVE ServicesInv'
  BY <1>2, OnePart, StepKeepsHubTypes, StepKeepsCache, StepKeepsKeys, StepKeepsLimiter,
     StepKeepsLocks DEF ServicesInv
<1>3. QED
  BY <1>1, <1>2, PTL DEF ServicesSpec

\* Every variable of the five parts keeps its type: the hub's channels keep to their
\* capacities (websocket_handler.go:53, 145-161, 194), and the consumer of the snapshots
\* stays within the topic.
THEOREM ServicesTypes == ServicesSpec => []ServicesTypeOK
<1>1. ServicesInv => ServicesTypeOK
  BY DEF ServicesInv, ServicesTypeOK, CacheInv, IdempotencyInv, LimiterInv, LocksInv
<1>2. QED
  BY <1>1, ServicesInvariant, PTL

\* When all snapshots are delivered, the cache shows the newest book of the newest
\* leader, unless that one was missed, was restored empty and not sent, or a deposed
\* leader stamped its last with 0
\* (cache_repository.go:45-86).
THEOREM CacheShowsLatest == ServicesSpec => []CacheSettles
<1>1. ServicesInv => CacheSettles
  BY LatestIsShown DEF ServicesInv
<1>2. QED
  BY <1>1, ServicesInvariant, PTL

\* What the script admits is bounded by the larger capacity and rate and by how far the
\* times of its requests went back (redis_rate_limiter.go:14-46).
THEOREM AdmissionIsBounded == ServicesSpec => []AdmissionBound
<1>1. ServicesInv => AdmissionBound
  BY LimiterBounds DEF ServicesInv
<1>2. QED
  BY <1>1, ServicesInvariant, PTL
=============================================================================
