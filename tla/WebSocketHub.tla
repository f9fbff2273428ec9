---------------------------- MODULE WebSocketHub ----------------------------
(***************************************************************************)
(* The WebSocket hub of the market-data-service                                *)
(* (internal/api/websocket_handler.go). Handlers call Broadcast, which puts a   *)
(* message into a channel or drops it. One goroutine, Run, owns the set of       *)
(* clients and moves each message into the channels of all of them; a client     *)
(* whose channel is full is thrown out and its channel closed. Each client has a *)
(* goroutine that reads its connection and one that writes to it.                *)
(*                                                                           *)
(* Messages are the numbers of their calls of Broadcast. A send to a closed       *)
(* channel and a second close are panics that would end the process.              *)
(***************************************************************************)
EXTENDS Naturals, Sequences

CONSTANTS
    Clients,     \* the connections that clients may open
    SendCap,     \* capacity of Client.send
    QueueCap,    \* capacity of WebSocketHandler.broadcast
    MaxMessages  \* bound on the calls of Broadcast

ASSUME CapacitiesAssumption == SendCap \in Nat /\ QueueCap \in Nat /\ MaxMessages \in Nat

VARIABLES
    calls,    \* how often Broadcast was called
    queue,    \* WebSocketHandler.broadcast
    log,      \* what Run has taken from it
    clients,  \* WebSocketHandler.clients
    send,     \* Client.send
    closes,   \* how often Client.send was closed
    sentOn,   \* sends to a channel that was closed
    reader,   \* where readPump is
    writer,   \* where writePump is
    connOpen, \* the connections not closed by this side
    joined,   \* how much of log a client missed before it was registered
    received  \* what the writer took from the client's channel

hubVars == <<queue, log, clients, send, closes, sentOn>>
vars == <<calls, hubVars, reader, writer, connOpen, joined, received>>

Init ==
    /\ calls = 0
    /\ queue = <<>>
    /\ log = <<>>
    /\ clients = {}
    /\ send = [c \in Clients |-> <<>>]
    /\ closes = [c \in Clients |-> 0]
    /\ sentOn = {}
    /\ reader = [c \in Clients |-> "none"]
    /\ writer = [c \in Clients |-> "none"]
    /\ connOpen = {}
    /\ joined = [c \in Clients |-> 0]
    /\ received = [c \in Clients |-> <<>>]

-----------------------------------------------------------------------------
(* The callers of the hub *)

\* Faulty: the channel holds one message more than it was made for.
Room_OffByOne == Len(queue) <= QueueCap

Room == Len(queue) < QueueCap

\* Broadcast: a full channel drops the message.
Broadcast ==
    /\ calls < MaxMessages
    /\ calls' = calls + 1
    /\ queue' = IF Room THEN Append(queue, calls') ELSE queue
    /\ UNCHANGED <<log, clients, send, closes, sentOn, reader, writer, connOpen, joined,
                   received>>

\* HandleWS up to the send on register, which waits for Run.
Connect(c) ==
    /\ reader[c] = "none"
    /\ reader' = [reader EXCEPT ![c] = "registering"]
    /\ connOpen' = connOpen \cup {c}
    /\ UNCHANGED <<calls, hubVars, writer, joined, received>>

-----------------------------------------------------------------------------
(* Run *)

\* case <-h.register; HandleWS then starts the two pumps.
Register(c) ==
    /\ reader[c] = "registering"
    /\ clients' = clients \cup {c}
    /\ joined' = [joined EXCEPT ![c] = Len(log)]
    /\ reader' = [reader EXCEPT ![c] = "reading"]
    /\ writer' = [writer EXCEPT ![c] = "writing"]
    /\ UNCHANGED <<calls, queue, log, send, closes, sentOn, connOpen, received>>

\* Faulty: the channel is closed whether or not the hub has closed it before.
Dropped_Always(S) == S

\* The clients of S that Run still has; it closes their channels.
Dropped(S) == S \cap clients

\* The effect of leaving: delete(h.clients, client), close(client.send).
Drop(S) ==
    /\ clients' = clients \ Dropped(S)
    /\ closes' = [c \in Clients |-> IF c \in Dropped(S) THEN closes[c] + 1 ELSE closes[c]]

\* case <-h.unregister: readPump's send has been waiting, and it closes the connection.
Unregister(c) ==
    /\ reader[c] = "leaving"
    /\ Drop({c})
    /\ reader' = [reader EXCEPT ![c] = "gone"]
    /\ connOpen' = connOpen \ {c}
    /\ UNCHANGED <<calls, queue, log, send, sentOn, writer, joined, received>>

\* Faulty: the message is left out for a client whose channel is full.
TooSlow_Patient == {}

\* The members whose channels are full.
TooSlow == {c \in clients : Len(send[c]) = SendCap}

\* case <-h.broadcast: never blocked by a client.
Deliver ==
    /\ queue # <<>>
    /\ queue' = Tail(queue)
    /\ log' = Append(log, Head(queue))
    /\ send' = [c \in Clients |->
                  IF c \in clients /\ Len(send[c]) < SendCap
                  THEN Append(send[c], Head(queue)) ELSE send[c]]
    /\ sentOn' = sentOn \cup {c \in clients : closes[c] > 0}
    /\ Drop(TooSlow)
    /\ UNCHANGED <<calls, reader, writer, connOpen, joined, received>>

-----------------------------------------------------------------------------
(* readPump *)

\* The deferred function first sends on unregister.
AfterRead(c) == "leaving"

\* ReadMessage fails: the peer has closed or broken the connection, or sent no pong
\* for pongWait.
ReadFails(c) ==
    /\ reader[c] = "reading"
    /\ reader' = [reader EXCEPT ![c] = AfterRead(c)]
    /\ UNCHANGED <<calls, hubVars, writer, connOpen, joined, received>>

-----------------------------------------------------------------------------
(* writePump *)

WriterEnds(c) == writer' = [writer EXCEPT ![c] = "gone"]

\* A message is taken and written. The write may fail, on a closed connection it does.
Write(c) ==
    /\ writer[c] = "writing"
    /\ send[c] # <<>>
    /\ send' = [send EXCEPT ![c] = Tail(@)]
    /\ received' = [received EXCEPT ![c] = Append(@, Head(send[c]))]
    /\ \/ c \in connOpen /\ UNCHANGED writer
       \/ WriterEnds(c)
    /\ UNCHANGED <<calls, queue, log, clients, closes, sentOn, reader, connOpen, joined>>

\* Faulty: an empty message is taken for a tick without news.
SeesClose_Never(c) == FALSE

\* The channel is closed and empty: ok is false.
SeesClose(c) == closes[c] > 0 /\ send[c] = <<>>

\* The close message is sent and the pump returns.
WriteClose(c) ==
    /\ writer[c] = "writing"
    /\ SeesClose(c)
    /\ WriterEnds(c)
    /\ UNCHANGED <<calls, hubVars, reader, connOpen, joined, received>>

\* The ping finds the connection closed or broken.
PingFails(c) ==
    /\ writer[c] = "writing"
    /\ WriterEnds(c)
    /\ UNCHANGED <<calls, hubVars, reader, connOpen, joined, received>>

-----------------------------------------------------------------------------
HubStep == Deliver \/ \E c \in Clients : Register(c) \/ Unregister(c)
WriterStep(c) == Write(c) \/ WriteClose(c)

Next ==
    \/ Broadcast
    \/ HubStep
    \/ \E c \in Clients : Connect(c) \/ ReadFails(c) \/ PingFails(c) \/ WriterStep(c)

Spec == Init /\ [][Next]_vars

\* Run never blocks and select chooses among its cases at random, so whoever waits on
\* a channel is served in the end. A write ends after writeWait. When nobody pings the
\* peer any more its pongs stop, and the read deadline passes: the peer is taken to send
\* pongs in answer to pings only, since each one it sends puts the deadline off.
Fairness ==
    /\ \A c \in Clients :
         /\ WF_vars(Register(c))
         /\ WF_vars(Unregister(c))
         /\ WF_vars(WriterStep(c))
         /\ WF_vars(writer[c] = "gone" /\ ReadFails(c))
    /\ WF_vars(Deliver)

FairSpec == Spec /\ Fairness

-----------------------------------------------------------------------------
(* Properties *)

Increasing(s) == \A i, j \in DOMAIN s : i < j => s[i] < s[j]

\* Every variable has its type; channels keep to their capacities.
TypeOK ==
    /\ calls \in 0..MaxMessages
    /\ queue \in Seq(1..calls) /\ Len(queue) <= QueueCap
    /\ log \in Seq(1..calls)
    /\ clients \subseteq Clients /\ sentOn \subseteq Clients /\ connOpen \subseteq Clients
    /\ send \in [Clients -> Seq(1..calls)] /\ \A c \in Clients : Len(send[c]) <= SendCap
    /\ closes \in [Clients -> Nat]
    /\ reader \in [Clients -> {"none", "registering", "reading", "leaving", "gone"}]
    /\ writer \in [Clients -> {"none", "writing", "gone"}]
    /\ joined \in [Clients -> Nat]
    /\ received \in [Clients -> Seq(1..calls)]

\* The hub throws a slow client out, and the client's reader unregisters later, or
\* before, or in between: the channel is closed once, nothing is sent to it afterwards,
\* and the members are the clients whose channel is open and whose reader has yet to
\* leave (internal/api/websocket_handler.go:139-143, 155-158, 206-209).
ClosedOnce ==
    /\ sentOn = {}
    /\ \A c \in Clients :
         /\ closes[c] <= 1
         /\ c \in clients <=> reader[c] \in {"reading", "leaving"} /\ closes[c] = 0

\* What a client is sent since it joined: a message may be dropped for everybody when
\* Broadcast finds the channel full, but a client that misses one gets no further
\* messages, so no feed has a gap or goes back (internal/api/websocket_handler.go:145-161).
FeedHasNoGaps ==
    /\ Increasing(log \o queue)
    /\ \A c \in Clients :
         LET feed == received[c] \o send[c]
             since == SubSeq(log, joined[c] + 1, Len(log))
         IN /\ reader[c] \notin {"none", "registering"} =>
                 feed = SubSeq(since, 1, Len(feed))
            /\ c \in clients => feed = since

Leaves(c) == reader[c] = "leaving" \/ writer[c] = "gone" \/ closes[c] > 0

\* A connection that one side gives up is given up by all: whichever of the peer, the
\* hub, the reader and the writer starts, both goroutines end and the hub forgets the
\* client (internal/api/websocket_handler.go:205-257).
ConnectionsReleased ==
    \A c \in Clients :
      Leaves(c) ~> (reader[c] = "gone" /\ writer[c] = "gone" /\ c \notin clients)
=============================================================================
