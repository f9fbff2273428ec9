------------------------ MODULE LeaderElectionProofs ------------------------
(***************************************************************************)
(* Proofs about LeaderElection, for every set of instances and every bound.  *)
(* The inductive invariant is ElectionInv: TypeOK and three parts, about the  *)
(* tokens of the electors, the goroutines of each process, and the requests   *)
(* on their way to the database.                                              *)
(***************************************************************************)
EXTENDS LeaderElection, SequenceTheorems, TLAPS

\* An elector has a token exactly from the grant to the end of its leadership;
\* no two electors have the same one, and the one in the row is the holder's.
ElectorInv ==
  /\ \A i \in Instances : token[i] <= row.token
  /\ \A i \in Instances :
       token[i] > 0 <=> elector[i] \in {"granted", "starting", "leader"}
  /\ \A i, j \in Instances : token[i] = token[j] /\ token[i] > 0 => i = j
  /\ \A i \in Instances : token[i] = row.token /\ token[i] > 0 => row.leader = i

\* What a Subscriber signs with is the token of its book or nothing, and no
\* consumer runs while its elector could be given the next token.
ConsumerInv ==
  \A i \in Instances :
    /\ svcToken[i] \in {0, term[i]}
    /\ built[i] \in {0, term[i]}
    /\ consumer[i] # "publishing" => built[i] = 0
    /\ term[i] <= row.token
    /\ elector[i] \in {"standby", "granted", "starting"} => consumer[i] = "none"
    /\ main[i] = "down" => elector[i] = "exited" /\ consumer[i] = "none"

\* A signed request is of its own term; while the settlement transaction is
\* open the token of its request is the one in the row.
RequestInv ==
  /\ TokenNamesTerm
  /\ \A k \in DOMAIN settlements : settlements[k].term <= row.token
  /\ sharing => /\ settlements # <<>>
                /\ settlements[1].token > 0
                /\ Current(settlements[1])
  /\ FencedWritesCurrent

ElectionInv == TypeOK /\ ElectorInv /\ ConsumerInv /\ RequestInv

LEMMA InitInv == Init => ElectionInv
<1> SUFFICES ASSUME Init PROVE ElectionInv
  OBVIOUS
<1>1. 0 \in Tokens /\ 0 \in 0..MaxSent
  BY BoundsAssumption DEF Tokens
<1>2. row.token = 0 /\ settlements = <<>> /\ applied = <<>> /\ sharing = FALSE
  BY DEF Init
<1>3. DOMAIN settlements = {} /\ DOMAIN applied = {}
  BY <1>2
<1>4. TypeOK
  <2>1. /\ row \in [leader : Instances \cup {Nobody}, token : Tokens, live : BOOLEAN]
        /\ settlements \in Seq(Request)
        /\ applied \in Seq([token : Tokens, term : Tokens, at : Tokens])
    BY <1>1 DEF Init
  <2>2. QED
    BY <1>1, <2>1 DEF Init, TypeOK, ElectorStates, MainStates, ConsumerStates
<1>5. ElectorInv
  BY <1>2 DEF Init, ElectorInv
<1>6. ConsumerInv
  <2>1. \A i \in Instances :
          /\ svcToken[i] = 0 /\ built[i] = 0 /\ term[i] = 0
          /\ consumer[i] = "none" /\ main[i] = "serving"
    BY DEF Init
  <2>2. row.token = 0
    BY <1>2
  <2> SUFFICES ASSUME NEW i \in Instances PROVE
         /\ svcToken[i] \in {0, term[i]}
         /\ built[i] \in {0, term[i]}
         /\ consumer[i] # "publishing" => built[i] = 0
         /\ term[i] <= row.token
         /\ elector[i] \in {"standby", "granted", "starting"} => consumer[i] = "none"
         /\ main[i] = "down" => elector[i] = "exited" /\ consumer[i] = "none"
    BY DEF ConsumerInv
  <2>3. QED
    BY <2>1, <2>2
<1>7. RequestInv
  BY <1>2, <1>3 DEF RequestInv, TokenNamesTerm, FencedWritesCurrent
<1>8. QED
  BY <1>4, <1>5, <1>6, <1>7 DEF ElectionInv

\* The head of a nonempty topic, and what is left after it.
LEMMA TailFacts ==
  ASSUME NEW S, NEW s \in Seq(S), s # <<>>
  PROVE  /\ s[1] \in S /\ 1 \in DOMAIN s
         /\ Tail(s) \in Seq(S)
         /\ \A k \in DOMAIN Tail(s) : k + 1 \in DOMAIN s /\ Tail(s)[k] = s[k + 1]
<1>1. Len(s) \in Nat \ {0} /\ DOMAIN s = 1..Len(s)
  OBVIOUS
<1>2. /\ Tail(s) \in Seq(S) /\ Len(Tail(s)) = Len(s) - 1
      /\ \A i \in 1..Len(Tail(s)) : Tail(s)[i] = s[i + 1]
  BY HeadTailProperties
<1>3. DOMAIN Tail(s) = 1..(Len(s) - 1)
  BY <1>1, <1>2
<1>4. QED
  BY <1>1, <1>2, <1>3

\* The topic after an event has been appended.
LEMMA AppendFacts ==
  ASSUME NEW S, NEW s \in Seq(S), NEW e \in S
  PROVE  /\ Append(s, e) \in Seq(S)
         /\ Append(s, e) # <<>>
         /\ \A k \in DOMAIN Append(s, e) :
              \/ k \in DOMAIN s /\ Append(s, e)[k] = s[k]
              \/ Append(s, e)[k] = e
         /\ s # <<>> => Append(s, e)[1] = s[1]
OBVIOUS

-----------------------------------------------------------------------------
(* Types *)

LEMMA LockType ==
  ASSUME TypeOK, NEW i \in Instances,
         LeaseExpires \/ Acquire(i) \/ AcquireFails(i) \/ Extend(i)
  PROVE  TypeOK'
<1>1. CASE LeaseExpires
  BY <1>1 DEF LeaseExpires, TypeOK, electorVars, consumerVars, kafkaVars
<1>2. CASE Acquire(i)
  <2>1. row.token \in Nat /\ row.token + 1 \in Tokens
    BY <1>2, BoundsAssumption DEF Acquire, TypeOK, Tokens
  <2>2. row' = [leader |-> i, token |-> row.token + 1, live |-> TRUE]
    BY <1>2 DEF Acquire, TakeOver
  <2>3. row' \in [leader : Instances \cup {Nobody}, token : Tokens, live : BOOLEAN]
        /\ row'.token \in Tokens
    BY <2>1, <2>2
  <2>4. QED
    BY <1>2, <2>3 DEF Acquire, TypeOK, ElectorStates, consumerVars, kafkaVars
<1>3. CASE AcquireFails(i)
  BY <1>3, BoundsAssumption
     DEF AcquireFails, TypeOK, Tokens, ElectorStates, consumerVars, kafkaVars
<1>4. CASE Extend(i)
  BY <1>4 DEF Extend, TypeOK, electorVars, consumerVars, kafkaVars
<1>5. QED
  BY <1>1, <1>2, <1>3, <1>4

LEMMA ElectorType ==
  ASSUME TypeOK, NEW i \in Instances, ElectorStep(i)
  PROVE  TypeOK'
<1>1. CASE Promote(i)
  BY <1>1 DEF Promote, TypeOK, ElectorStates, consumerVars, kafkaVars
<1>2. CASE AcquireFails(i)
  BY <1>2, LockType
<1>3. CASE Start(i)
  BY <1>3 DEF Start, TypeOK, ElectorStates, ConsumerStates, kafkaVars
<1>4. CASE StepDown(i)
  BY <1>4, BoundsAssumption DEF StepDown, TypeOK, Tokens, ElectorStates, consumerVars, kafkaVars
<1>5. CASE ClearToken(i)
  BY <1>5, BoundsAssumption DEF ClearToken, TypeOK, Tokens, ElectorStates, kafkaVars
<1>6. CASE CancelConsumer(i)
  BY <1>6 DEF CancelConsumer, TypeOK, ElectorStates, kafkaVars
<1>7. CASE JoinConsumer(i)
  BY <1>7 DEF JoinConsumer, TypeOK, ElectorStates, consumerVars, kafkaVars
<1>8. CASE ReleaseAndExit(i)
  <2>1. row' \in [leader : Instances \cup {Nobody}, token : Tokens, live : BOOLEAN]
    BY <1>8 DEF ReleaseAndExit, Released, TypeOK
  <2>2. QED
    BY <1>8, <2>1, BoundsAssumption
       DEF ReleaseAndExit, TypeOK, Tokens, ElectorStates, consumerVars, kafkaVars
<1>9. QED
  BY <1>1, <1>2, <1>3, <1>4, <1>5, <1>6, <1>7, <1>8 DEF ElectorStep

LEMMA MainType ==
  ASSUME TypeOK, NEW i \in Instances, MainStep(i)
  PROVE  TypeOK'
<1>1. CASE Shutdown(i)
  BY <1>1 DEF Shutdown, TypeOK, MainStates, electorVars, consumerVars, kafkaVars
<1>2. CASE MainLocks(i)
  BY <1>2 DEF MainLocks, TypeOK, MainStates, electorVars, consumerVars, kafkaVars
<1>3. CASE ProcessEnds(i)
  BY <1>3, BoundsAssumption
     DEF ProcessEnds, TypeOK, Tokens, MainStates, ElectorStates, ConsumerStates, kafkaVars
<1>4. CASE Restart(i)
  BY <1>4 DEF Restart, TypeOK, MainStates, ElectorStates, consumerVars, kafkaVars
<1>5. QED
  BY <1>1, <1>2, <1>3, <1>4 DEF MainStep, Exit, Crash

LEMMA ConsumerType ==
  ASSUME TypeOK, NEW i \in Instances, ConsumerStep(i)
  PROVE  TypeOK'
<1>1. CASE Handle(i)
  BY <1>1 DEF Handle, TypeOK, ConsumerStates, electorVars, kafkaVars
<1>2. CASE Build(i)
  BY <1>2 DEF Build, TypeOK, ConsumerStates, electorVars, kafkaVars
<1>3. CASE Publish(i)
  <2>1. [token |-> built[i], term |-> term[i]] \in Request
    BY DEF TypeOK, Request
  <2>2. settlements' \in Seq(Request)
    BY <1>3, <2>1, AppendFacts DEF Publish, TypeOK
  <2>3. sent' \in 0..MaxSent
    BY <1>3, BoundsAssumption DEF Publish, TypeOK
  <2>4. consumer' \in [Instances -> ConsumerStates] /\ built' \in [Instances -> Tokens]
    <3>1. 0 \in Tokens /\ "polling" \in ConsumerStates
      BY BoundsAssumption DEF Tokens, ConsumerStates
    <3>2. \/ consumer' = consumer /\ built' = built
          \/ /\ consumer' = [consumer EXCEPT ![i] = "polling"]
             /\ built' = [built EXCEPT ![i] = 0]
      BY <1>3 DEF Publish
    <3>3. consumer \in [Instances -> ConsumerStates] /\ built \in [Instances -> Tokens]
      BY DEF TypeOK
    <3>4. QED
      BY <3>1, <3>2, <3>3
  <2>5. QED
    BY <1>3, <2>2, <2>3, <2>4 DEF Publish, TypeOK, electorVars
<1>4. CASE GiveUp(i)
  BY <1>4, BoundsAssumption DEF GiveUp, TypeOK, Tokens, ConsumerStates, electorVars, kafkaVars
<1>5. CASE StopConsumer(i)
  BY <1>5 DEF StopConsumer, TypeOK, ConsumerStates, electorVars, kafkaVars
<1>6. QED
  BY <1>1, <1>2, <1>3, <1>4, <1>5 DEF ConsumerStep

\* A request is taken from the head of the topic and, if it is not dropped,
\* recorded with the token of the row.
LEMMA SettledType ==
  ASSUME TypeOK, settlements # <<>>
  PROVE  /\ Tail(settlements) \in Seq(Request)
         /\ Settled(NextRequest) \in Seq([token : Tokens, term : Tokens, at : Tokens])
         /\ NextRequest.token \in Nat /\ NextRequest.term \in Nat
<1>1. NextRequest \in Request /\ Tail(settlements) \in Seq(Request)
  BY TailFacts DEF TypeOK, NextRequest
<1> DEFINE R == [token : Tokens, term : Tokens, at : Tokens]
           e == [token |-> NextRequest.token, term |-> NextRequest.term, at |-> row.token]
<1>2. e \in R /\ applied \in Seq(R)
  BY <1>1 DEF TypeOK, Request
<1> HIDE DEF R, e
<1>3. Append(applied, e) \in Seq(R)
  BY <1>2, AppendFacts
<1>4. QED
  BY <1>1, <1>3 DEF R, e, Settled, Request, Tokens

LEMMA SettlementType ==
  ASSUME TypeOK, RequestInv, SettlementStep
  PROVE  TypeOK'
<1>1. CASE BeginFenced
  BY <1>1 DEF BeginFenced, TypeOK, electorVars, consumerVars, kafkaVars
<1>2. CASE DropStale
  BY <1>2, SettledType DEF DropStale, TypeOK, electorVars, consumerVars
<1>3. CASE Commit
  <2>1. settlements # <<>>
    BY <1>3 DEF RequestInv, Commit
  <2>2. QED
    BY <1>3, <2>1, SettledType DEF Commit, TypeOK, electorVars, consumerVars
<1>4. CASE Abort
  BY <1>4 DEF Abort, TypeOK, electorVars, consumerVars, kafkaVars
<1>5. CASE SettleUnfenced
  BY <1>5, SettledType DEF SettleUnfenced, TypeOK, electorVars, consumerVars
<1>6. QED
  BY <1>1, <1>2, <1>3, <1>4, <1>5 DEF SettlementStep

LEMMA NextType ==
  ASSUME TypeOK, RequestInv, Next
  PROVE  TypeOK'
<1>1. CASE LeaseExpires
  BY <1>1 DEF LeaseExpires, TypeOK, electorVars, consumerVars, kafkaVars
<1>2. CASE SettlementStep
  BY <1>2, SettlementType
<1>3. ASSUME NEW i \in Instances,
             \/ Acquire(i) \/ Extend(i)
             \/ ElectorStep(i) \/ ConsumerStep(i) \/ MainStep(i)
      PROVE  TypeOK'
  BY <1>3, LockType, ElectorType, ConsumerType, MainType
<1>4. QED
  BY <1>1, <1>2, <1>3 DEF Next

-----------------------------------------------------------------------------
(* The tokens of the electors *)

\* What the invariant needs to know of a step that changes no token but
\* possibly gives one up.
LEMMA TokenGivenUp ==
  ASSUME TypeOK, ElectorInv, NEW i \in Instances, NEW state,
         state \notin {"granted", "starting", "leader"},
         elector' = [elector EXCEPT ![i] = state],
         token' = [token EXCEPT ![i] = 0],
         row'.token = row.token, row'.leader = row.leader
  PROVE  ElectorInv'
<1>1. /\ token'[i] = 0 /\ elector'[i] = state
      /\ \A j \in Instances : j # i => token'[j] = token[j] /\ elector'[j] = elector[j]
      /\ row.token \in Nat
  BY DEF TypeOK, Tokens
<1>2. QED
  BY <1>1 DEF ElectorInv

\* ... and of a step that moves an elector with its token or without one.
LEMMA TokenKept ==
  ASSUME TypeOK, ElectorInv, NEW i \in Instances, NEW state,
         elector' = [elector EXCEPT ![i] = state],
         elector[i] \in {"granted", "starting", "leader"}
           <=> state \in {"granted", "starting", "leader"},
         token' = token, row'.token = row.token, row'.leader = row.leader
  PROVE  ElectorInv'
<1>1. /\ elector'[i] = state
      /\ \A j \in Instances : j # i => elector'[j] = elector[j]
  BY DEF TypeOK
<1>2. QED
  BY <1>1 DEF ElectorInv

LEMMA AcquireElector ==
  ASSUME TypeOK, ElectorInv, NEW i \in Instances, Acquire(i)
  PROVE  ElectorInv'
<1>1. row' = [leader |-> i, token |-> row.token + 1, live |-> TRUE]
  BY DEF Acquire, TakeOver
<1>2. row'.token = row.token + 1 /\ row'.leader = i /\ row.token \in Nat
  BY <1>1 DEF TypeOK, Tokens
<1>3. /\ token'[i] = row.token + 1 /\ elector'[i] = "granted"
      /\ \A j \in Instances : j # i => token'[j] = token[j] /\ elector'[j] = elector[j]
  BY <1>2 DEF Acquire, TypeOK
<1>4. \A j \in Instances : token[j] \in Nat /\ token[j] <= row.token
  BY DEF TypeOK, Tokens, ElectorInv
<1>5. QED
  BY <1>2, <1>3, <1>4 DEF ElectorInv

\* Steps that change neither an elector nor its token, nor whose row it is.
LEMMA ElectorUnchanged ==
  ASSUME ElectorInv, UNCHANGED <<elector, token>>,
         row'.token = row.token, row'.leader = row.leader
  PROVE  ElectorInv'
BY DEF ElectorInv

\* Updates of live only.
LEMMA LiveOnly ==
  ASSUME TypeOK, NEW b \in BOOLEAN, row' = [row EXCEPT !.live = b]
  PROVE  row'.token = row.token /\ row'.leader = row.leader
BY DEF TypeOK

LEMMA NextElector ==
  ASSUME TypeOK, ElectorInv, ConsumerInv, Next
  PROVE  ElectorInv'
<1>1. CASE LeaseExpires
  BY <1>1, LiveOnly, ElectorUnchanged DEF LeaseExpires, electorVars
<1>2. CASE SettlementStep
  <2>1. UNCHANGED <<elector, token, row>>
    BY <1>2 DEF SettlementStep, BeginFenced, DropStale, Commit, Abort,
                SettleUnfenced, electorVars
  <2>2. QED
    BY <2>1, ElectorUnchanged
<1>3. ASSUME NEW i \in Instances,
             \/ Acquire(i) \/ Extend(i)
             \/ ElectorStep(i) \/ ConsumerStep(i) \/ MainStep(i)
      PROVE  ElectorInv'
  <2>1. CASE Acquire(i)
    BY <2>1, AcquireElector
  <2>2. CASE Extend(i)
    BY <2>2, LiveOnly, ElectorUnchanged DEF Extend, electorVars
  <2>3. CASE Promote(i)
    BY <2>3, TokenKept DEF Promote
  <2>4. CASE AcquireFails(i)
    BY <2>4, TokenGivenUp DEF AcquireFails
  <2>5. CASE Start(i)
    BY <2>5, TokenKept DEF Start
  <2>6. CASE StepDown(i)
    BY <2>6, TokenGivenUp DEF StepDown
  <2>7. CASE ClearToken(i)
    BY <2>7, TokenKept DEF ClearToken
  <2>8. CASE CancelConsumer(i)
    BY <2>8, TokenKept DEF CancelConsumer
  <2>9. CASE JoinConsumer(i)
    BY <2>9, TokenKept DEF JoinConsumer
  <2>10. CASE ReleaseAndExit(i)
    <3>1. row'.token = row.token /\ row'.leader = row.leader
      BY <2>10, LiveOnly DEF ReleaseAndExit, Released
    <3>2. QED
      BY <2>10, <3>1, TokenGivenUp DEF ReleaseAndExit
  <2>11. CASE ConsumerStep(i)
    <3>1. UNCHANGED <<elector, token, row>>
      BY <2>11 DEF ConsumerStep, Handle, Build, Publish, GiveUp, StopConsumer, electorVars
    <3>2. QED
      BY <3>1, ElectorUnchanged
  <2>12. CASE Shutdown(i) \/ MainLocks(i)
    <3>1. UNCHANGED <<elector, token, row>>
      BY <2>12 DEF Shutdown, MainLocks, electorVars
    <3>2. QED
      BY <3>1, ElectorUnchanged
  <2>13. CASE ProcessEnds(i)
    BY <2>13, TokenGivenUp DEF ProcessEnds
  <2>14. CASE Restart(i)
    <3>1. elector[i] = "exited"
      BY <2>14 DEF Restart, ConsumerInv
    <3>2. QED
      BY <2>14, <3>1, TokenKept DEF Restart
  <2>15. QED
    BY <1>3, <2>1, <2>2, <2>3, <2>4, <2>5, <2>6, <2>7, <2>8, <2>9, <2>10,
       <2>11, <2>12, <2>13, <2>14 DEF ElectorStep, MainStep, Exit, Crash
<1>4. QED
  BY <1>1, <1>2, <1>3 DEF Next

-----------------------------------------------------------------------------
(* The row *)

\* No step takes a token back, and a new holder comes with a new token.
LEMMA RowStep ==
  ASSUME TypeOK, Next
  PROVE  /\ row'.token >= row.token
         /\ row'.leader # row.leader => row'.token > row.token
         /\ sharing => row'.token = row.token
<1>1. row.token \in Nat
  BY DEF TypeOK, Tokens
<1>2. CASE UNCHANGED row
  BY <1>1, <1>2
<1>3. CASE \E b \in BOOLEAN : row' = [row EXCEPT !.live = b]
  BY <1>1, <1>3, LiveOnly
<1>4. ASSUME NEW i \in Instances, Acquire(i)
      PROVE  row'.token = row.token + 1 /\ ~sharing
  BY <1>4 DEF Acquire, TakeOver, Updatable
<1>5. CASE \E i \in Instances : Acquire(i)
  BY <1>1, <1>4, <1>5
<1>6. \/ UNCHANGED row
      \/ \E b \in BOOLEAN : row' = [row EXCEPT !.live = b]
      \/ \E i \in Instances : Acquire(i)
  <2>1. CASE LeaseExpires
    BY <2>1 DEF LeaseExpires
  <2>2. CASE SettlementStep
    BY <2>2 DEF SettlementStep, BeginFenced, DropStale, Commit, Abort, SettleUnfenced
  <2>3. ASSUME NEW i \in Instances, Extend(i)
        PROVE  row' = [row EXCEPT !.live = TRUE]
    BY <2>3 DEF Extend
  <2>4. ASSUME NEW i \in Instances, ElectorStep(i)
        PROVE  row' = row \/ row' = [row EXCEPT !.live = FALSE]
    BY <2>4 DEF ElectorStep, Promote, AcquireFails, Start, StepDown, ClearToken,
                CancelConsumer, JoinConsumer, ReleaseAndExit, Released
  <2>5. ASSUME NEW i \in Instances, ConsumerStep(i) \/ MainStep(i)
        PROVE  UNCHANGED row
    BY <2>5 DEF ConsumerStep, Handle, Build, Publish, GiveUp, StopConsumer, MainStep,
                Shutdown, MainLocks, Exit, Crash, Restart, ProcessEnds
  <2>6. QED
    BY <2>1, <2>2, <2>3, <2>4, <2>5 DEF Next
<1>7. QED
  BY <1>2, <1>3, <1>5, <1>6

-----------------------------------------------------------------------------
(* The goroutines *)

\* The parts of ConsumerInv that speak of one process.
Process(i) ==
  /\ svcToken[i] \in {0, term[i]}
  /\ built[i] \in {0, term[i]}
  /\ consumer[i] # "publishing" => built[i] = 0
  /\ term[i] <= row.token
  /\ elector[i] \in {"standby", "granted", "starting"} => consumer[i] = "none"
  /\ main[i] = "down" => elector[i] = "exited" /\ consumer[i] = "none"

\* Process j is not affected by a step that changes none of its variables.
LEMMA ProcessUnchanged ==
  ASSUME TypeOK, TypeOK', Next, NEW j \in Instances, Process(j),
         svcToken'[j] = svcToken[j], term'[j] = term[j], built'[j] = built[j],
         consumer'[j] = consumer[j], elector'[j] = elector[j], main'[j] = main[j]
  PROVE  Process(j)'
<1>1. term[j] \in Nat /\ row.token \in Nat /\ row'.token \in Nat
  BY DEF TypeOK, Tokens
<1>2. row'.token >= row.token
  BY RowStep
<1>3. QED
  BY <1>1, <1>2 DEF Process

\* A step of i leaves every other process alone.
LEMMA OthersUnchanged ==
  ASSUME TypeOK, NEW i \in Instances,
         \/ Acquire(i) \/ Extend(i)
         \/ ElectorStep(i) \/ ConsumerStep(i) \/ MainStep(i),
         NEW j \in Instances, j # i
  PROVE  /\ svcToken'[j] = svcToken[j] /\ term'[j] = term[j]
         /\ built'[j] = built[j] /\ consumer'[j] = consumer[j]
         /\ elector'[j] = elector[j] /\ main'[j] = main[j]
<1>1. CASE Acquire(i) \/ Extend(i)
  BY <1>1 DEF TypeOK, Acquire, Extend, electorVars, consumerVars
<1>2. CASE ElectorStep(i)
  BY <1>2 DEF TypeOK, ElectorStep, Promote, AcquireFails, Start, StepDown, ClearToken,
              CancelConsumer, JoinConsumer, ReleaseAndExit, electorVars, consumerVars
<1>3. CASE ConsumerStep(i)
  BY <1>3 DEF TypeOK, ConsumerStep, Handle, Build, Publish, GiveUp, StopConsumer,
              electorVars, consumerVars
<1>4. CASE MainStep(i)
  BY <1>4 DEF TypeOK, MainStep, Shutdown, MainLocks, Exit, Crash, Restart, ProcessEnds,
              electorVars, consumerVars
<1>5. QED
  BY <1>1, <1>2, <1>3, <1>4

\* Each step of i keeps the state of process i together.
LEMMA OwnProcess ==
  ASSUME TypeOK, TypeOK', ElectorInv, Next, NEW i \in Instances, Process(i),
         \/ Acquire(i) \/ Extend(i)
         \/ ElectorStep(i) \/ ConsumerStep(i) \/ MainStep(i)
  PROVE  Process(i)'
<1>1. /\ term[i] \in Nat /\ row.token \in Nat /\ row'.token \in Nat
      /\ row'.token >= row.token /\ token[i] <= row.token
  <2>1. term[i] \in Nat /\ row.token \in Nat /\ row'.token \in Nat
    BY DEF TypeOK, Tokens
  <2>2. row'.token >= row.token
    BY RowStep
  <2>3. token[i] <= row.token
    BY DEF ElectorInv
  <2>4. QED
    BY <2>1, <2>2, <2>3
<1>2. CASE Acquire(i)
  BY <1>1, <1>2 DEF Process, TypeOK, Acquire, consumerVars
<1>3. CASE Extend(i)
  BY <1>1, <1>3 DEF Process, Extend, electorVars, consumerVars
<1>4. CASE Promote(i)
  BY <1>1, <1>4 DEF Process, TypeOK, Promote, consumerVars
<1>5. CASE AcquireFails(i)
  BY <1>1, <1>5 DEF Process, TypeOK, AcquireFails, consumerVars
<1>6. CASE Start(i)
  <2>1. consumer[i] = "none" /\ built[i] = 0 /\ main[i] # "down"
    BY <1>6 DEF Process, Start
  <2>2. /\ svcToken'[i] = token[i] /\ term'[i] = token[i] /\ built'[i] = 0
        /\ elector'[i] = "leader" /\ main'[i] # "down" /\ row'.token = row.token
        /\ consumer'[i] # "publishing"
    BY <1>6, <2>1 DEF TypeOK, Start
  <2>3. QED
    BY <1>1, <2>2 DEF Process
<1>7. CASE StepDown(i)
  BY <1>1, <1>7 DEF Process, TypeOK, StepDown, consumerVars
<1>8. CASE ClearToken(i)
  BY <1>1, <1>8 DEF Process, TypeOK, ClearToken
<1>9. CASE CancelConsumer(i)
  BY <1>1, <1>9 DEF Process, TypeOK, CancelConsumer
<1>10. CASE JoinConsumer(i)
  BY <1>1, <1>10 DEF Process, TypeOK, JoinConsumer, Joined, consumerVars
<1>11. CASE ReleaseAndExit(i)
  BY <1>1, <1>11 DEF Process, TypeOK, ReleaseAndExit, consumerVars
<1>12. CASE Handle(i)
  BY <1>1, <1>12 DEF Process, TypeOK, Handle, electorVars
<1>13. CASE Build(i)
  BY <1>1, <1>13 DEF Process, TypeOK, Build, electorVars
<1>14. CASE Publish(i)
  BY <1>1, <1>14 DEF Process, TypeOK, Publish, electorVars
<1>15. CASE GiveUp(i)
  BY <1>1, <1>15 DEF Process, TypeOK, GiveUp, electorVars
<1>16. CASE StopConsumer(i)
  BY <1>1, <1>16 DEF Process, TypeOK, StopConsumer, electorVars
<1>17. CASE Shutdown(i) \/ MainLocks(i)
  BY <1>1, <1>17 DEF Process, TypeOK, Shutdown, MainLocks, electorVars, consumerVars
<1>18. CASE ProcessEnds(i)
  BY <1>1, <1>18 DEF Process, TypeOK, ProcessEnds
<1>19. CASE Restart(i)
  BY <1>1, <1>19 DEF Process, TypeOK, Restart, consumerVars
<1>20. QED
  BY <1>2, <1>3, <1>4, <1>5, <1>6, <1>7, <1>8, <1>9, <1>10, <1>11, <1>12, <1>13,
     <1>14, <1>15, <1>16, <1>17, <1>18, <1>19
     DEF ElectorStep, ConsumerStep, MainStep, Exit, Crash

LEMMA NextConsumer ==
  ASSUME TypeOK, TypeOK', ElectorInv, ConsumerInv, Next
  PROVE  ConsumerInv'
<1>1. \A j \in Instances : Process(j)
  BY DEF ConsumerInv, Process
<1>2. ASSUME NEW j \in Instances PROVE Process(j)'
  <2>1. CASE LeaseExpires \/ SettlementStep
    <3>1. UNCHANGED <<svcToken, term, built, consumer, elector, main>>
      BY <2>1 DEF LeaseExpires, SettlementStep, BeginFenced, DropStale, Commit, Abort,
                  SettleUnfenced, electorVars, consumerVars
    <3>2. QED
      BY <1>1, <3>1, ProcessUnchanged
  <2>2. ASSUME NEW i \in Instances,
               \/ Acquire(i) \/ Extend(i)
               \/ ElectorStep(i) \/ ConsumerStep(i) \/ MainStep(i)
        PROVE  Process(j)'
    <3>1. CASE j = i
      BY <1>1, <2>2, <3>1, OwnProcess
    <3>2. CASE j # i
      BY <1>1, <2>2, <3>2, OthersUnchanged, ProcessUnchanged
    <3>3. QED
      BY <3>1, <3>2
  <2>3. QED
    BY <2>1, <2>2 DEF Next
<1>3. QED
  BY <1>2 DEF ConsumerInv, Process

-----------------------------------------------------------------------------
(* The requests *)

\* Steps that write no request and settle none, and leave an open settlement
\* transaction with the token it checked.
LEMMA RequestsUnchanged ==
  ASSUME TypeOK, TypeOK', RequestInv, Next,
         UNCHANGED <<sharing, settlements, applied>>
  PROVE  RequestInv'
<1>1. row.token \in Nat /\ row'.token \in Nat /\ row'.token >= row.token
      /\ (sharing => row'.token = row.token)
  <2>1. row.token \in Nat /\ row'.token \in Nat
    BY DEF TypeOK, Tokens
  <2>2. QED
    BY <2>1, RowStep
<1>2. \A k \in DOMAIN settlements : settlements[k].term \in Nat
  <2>1. settlements \in Seq(Request)
    BY DEF TypeOK
  <2>2. \A k \in DOMAIN settlements : settlements[k] \in Request
    BY <2>1
  <2>3. QED
    BY <2>2 DEF Request, Tokens
<1>3. QED
  BY <1>1, <1>2 DEF RequestInv, TokenNamesTerm, FencedWritesCurrent, Current

LEMMA PublishRequest ==
  ASSUME TypeOK, ConsumerInv, RequestInv, NEW i \in Instances, Publish(i)
  PROVE  RequestInv'
<1> DEFINE e == [token |-> built[i], term |-> term[i]]
<1>1. e \in Request /\ settlements \in Seq(Request)
  BY DEF TypeOK, Request
<1>2. settlements' = Append(settlements, e) /\ UNCHANGED <<row, sharing, applied>>
  BY DEF Publish
<1>3. e.token \in {0, e.term} /\ e.term <= row.token
  BY DEF ConsumerInv
<1> HIDE DEF e
<1>4. /\ settlements' # <<>>
      /\ \A k \in DOMAIN settlements' :
           \/ k \in DOMAIN settlements /\ settlements'[k] = settlements[k]
           \/ settlements'[k] = e
      /\ settlements # <<>> => settlements'[1] = settlements[1]
  BY <1>1, <1>2, AppendFacts
<1>5. TokenNamesTerm' /\ \A k \in DOMAIN settlements' : settlements'[k].term <= row'.token
  BY <1>2, <1>3, <1>4 DEF RequestInv, TokenNamesTerm
<1>6. QED
  BY <1>2, <1>4, <1>5 DEF RequestInv, FencedWritesCurrent, Current

\* What a settlement records.
LEMMA AppliedAfter ==
  ASSUME TypeOK, settlements # <<>>, FencedWritesCurrent, applied' = Settled(NextRequest),
         NextRequest.token # 0 => NextRequest.term = row.token
  PROVE  FencedWritesCurrent'
<1> DEFINE R == [token : Tokens, term : Tokens, at : Tokens]
           e == [token |-> NextRequest.token, term |-> NextRequest.term, at |-> row.token]
<1>1. applied \in Seq(R) /\ applied' = Append(applied, e)
  BY DEF TypeOK, Settled
<1>2. e \in R
  <2>1. NextRequest \in Request
    BY TailFacts DEF TypeOK, NextRequest
  <2>2. QED
    BY <2>1 DEF Request, TypeOK
<1>3. e.token # 0 => e.term = e.at
  OBVIOUS
<1> HIDE DEF R, e
<1>4. \A k \in DOMAIN applied' :
        \/ k \in DOMAIN applied /\ applied'[k] = applied[k]
        \/ applied'[k] = e
  BY <1>1, <1>2, AppendFacts
<1>5. QED
  BY <1>3, <1>4 DEF FencedWritesCurrent

\* A request leaves the topic.
LEMMA TakenRequest ==
  ASSUME TypeOK, RequestInv, settlements # <<>>, settlements' = Tail(settlements),
         UNCHANGED row, ~sharing', FencedWritesCurrent'
  PROVE  RequestInv'
<1>1. \A k \in DOMAIN settlements' : k + 1 \in DOMAIN settlements
                                     /\ settlements'[k] = settlements[k + 1]
  BY TailFacts DEF TypeOK
<1>2. QED
  BY <1>1 DEF RequestInv, TokenNamesTerm

LEMMA SettlementRequest ==
  ASSUME TypeOK, RequestInv, SettlementStep
  PROVE  RequestInv'
<1>1. CASE BeginFenced
  BY <1>1 DEF BeginFenced, RequestInv, TokenNamesTerm, FencedWritesCurrent, Current, NextRequest, kafkaVars
<1>2. CASE DropStale
  <2>1. FencedWritesCurrent'
    BY <1>2 DEF DropStale, RequestInv, FencedWritesCurrent
  <2>2. QED
    BY <1>2, <2>1, TakenRequest DEF DropStale
<1>3. CASE Commit
  <2>1. settlements # <<>> /\ NextRequest.token > 0 /\ NextRequest.token >= row.token
    BY <1>3 DEF Commit, RequestInv, Current, NextRequest
  <2>2. 1 \in DOMAIN settlements /\ NextRequest \in Request
    BY <2>1, TailFacts DEF TypeOK, NextRequest
  <2>3. NextRequest.token \in {0, NextRequest.term} /\ NextRequest.term <= row.token
    BY <2>2 DEF RequestInv, TokenNamesTerm, NextRequest
  <2>4. NextRequest.term \in Nat /\ NextRequest.token \in Nat /\ row.token \in Nat
    BY <2>2 DEF Request, TypeOK, Tokens
  <2>5. NextRequest.term = row.token
    BY <2>1, <2>3, <2>4
  <2>6. FencedWritesCurrent'
    BY <1>3, <2>1, <2>5, AppliedAfter DEF Commit, RequestInv
  <2>7. QED
    BY <1>3, <2>1, <2>6, TakenRequest DEF Commit
<1>4. CASE Abort
  BY <1>4 DEF Abort, RequestInv, TokenNamesTerm, FencedWritesCurrent, kafkaVars
<1>5. CASE SettleUnfenced
  <2>1. FencedWritesCurrent'
    BY <1>5, AppliedAfter DEF SettleUnfenced, RequestInv
  <2>2. ~sharing
    BY <1>5 DEF SettleUnfenced, RequestInv, NextRequest
  <2>3. QED
    BY <1>5, <2>1, <2>2, TakenRequest DEF SettleUnfenced
<1>6. QED
  BY <1>1, <1>2, <1>3, <1>4, <1>5 DEF SettlementStep

LEMMA NextRequests ==
  ASSUME TypeOK, TypeOK', ConsumerInv, RequestInv, Next
  PROVE  RequestInv'
<1>1. CASE SettlementStep
  BY <1>1, SettlementRequest
<1>2. CASE \E i \in Instances : Publish(i)
  BY <1>2, PublishRequest
<1>3. CASE UNCHANGED <<sharing, settlements, applied>>
  BY <1>3, RequestsUnchanged
<1>4. \/ SettlementStep
      \/ \E i \in Instances : Publish(i)
      \/ UNCHANGED <<sharing, settlements, applied>>
  <2>1. ASSUME NEW i \in Instances,
               \/ Acquire(i) \/ Extend(i)
               \/ ElectorStep(i) \/ ConsumerStep(i) \/ MainStep(i)
        PROVE  Publish(i) \/ UNCHANGED <<sharing, settlements, applied>>
    BY <2>1 DEF Acquire, Extend, ElectorStep, Promote, AcquireFails, Start, StepDown,
                ClearToken, CancelConsumer, JoinConsumer, ReleaseAndExit, ConsumerStep,
                Handle, Build, GiveUp, StopConsumer, MainStep, Shutdown, MainLocks,
                Exit, Crash, Restart, ProcessEnds, kafkaVars
  <2>2. QED
    BY <2>1 DEF Next, LeaseExpires, kafkaVars
<1>5. QED
  BY <1>1, <1>2, <1>3, <1>4

-----------------------------------------------------------------------------
(* The theorems *)

LEMMA StepInv == ElectionInv /\ [Next]_vars => ElectionInv'
<1>1. CASE Next
  BY <1>1, NextType, NextElector, NextConsumer, NextRequests DEF ElectionInv
<1>2. CASE UNCHANGED vars
  BY <1>2 DEF vars, electorVars, consumerVars, kafkaVars, ElectionInv, TypeOK, ElectorInv,
              ConsumerInv, RequestInv, TokenNamesTerm, FencedWritesCurrent, Current
<1>3. QED
  BY <1>1, <1>2

\* ElectionInv is an invariant of the election, with crashes, lost answers and
\* leases that expire at any moment.
THEOREM ElectionInvariant == Spec => []ElectionInv
BY InitInv, StepInv, PTL DEF Spec

\* Types: a token is never beyond the row's bound, whoever holds it.
THEOREM TypeCorrect == Spec => []TypeOK
<1>1. ElectionInv => TypeOK
  BY DEF ElectionInv
<1>2. QED
  BY <1>1, ElectionInvariant, PTL

\* Instances may overlap as leaders, but not under the same token, and the
\* current token is only with the holder of the row (AcquireLock, ReleaseLock).
THEOREM LeadersDiffer == Spec => []OneLeaderPerTerm
<1>1. ElectionInv => OneLeaderPerTerm
  BY DEF ElectionInv, ElectorInv, OneLeaderPerTerm, IsLeader
<1>2. QED
  BY <1>1, ElectionInvariant, PTL

\* No event is signed with the token of another term than that of the book its
\* trades come from (SetFencingToken, the wait in onLoseLeadership).
THEOREM EventsSignedInTerm == Spec => []TokenNamesTerm
<1>1. ElectionInv => TokenNamesTerm
  BY DEF ElectionInv, RequestInv
<1>2. QED
  BY <1>1, ElectionInvariant, PTL

\* A settlement with a token commits only in the term it was matched in
\* (ValidateFencingTokenTx and its FOR SHARE lock).
THEOREM FencingWorks == Spec => []FencedWritesCurrent
<1>1. ElectionInv => FencedWritesCurrent
  BY DEF ElectionInv, RequestInv
<1>2. QED
  BY <1>1, ElectionInvariant, PTL

\* The row's token never goes back and no holder inherits the token of
\* another (AcquireLock, ReleaseLock).
THEOREM TokensOnlyGrow == Spec => TokenNeverReused
<1>1. ElectionInv /\ [Next]_vars =>
        [/\ row'.token >= row.token
         /\ row'.leader # row.leader => row'.token > row.token]_vars
  BY RowStep DEF ElectionInv
<1>2. QED
  BY <1>1, ElectionInvariant, PTL DEF Spec, TokenNeverReused
=============================================================================
