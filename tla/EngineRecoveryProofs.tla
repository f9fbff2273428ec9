------------------------ MODULE EngineRecoveryProofs ------------------------
(***************************************************************************)
(* Proofs about EngineRecovery, for every set of orders and requests, any     *)
(* number of leaders and of repeated records. The inductive invariant is       *)
(* RecoveryInv; what clean handovers keep is HandoverInv, inductive beside it.   *)
(***************************************************************************)
EXTENDS EngineRecovery, SumTheorems

-----------------------------------------------------------------------------
(* Numbers and sequences *)

\* Among any natural numbers one is the least.
LEMMA LeastNatural ==
  ASSUME NEW S \in SUBSET Nat, S # {}
  PROVE  \E m \in S : \A n \in S : m <= n
<1>1. IsWellFoundedOn(OpToRel(<, Nat), Nat)
  BY NatLessThanWellFounded
<1>2. PICK m \in S : \A n \in S : <<n, m>> \notin OpToRel(<, Nat)
  BY <1>1, WFMin
<1>3. \A n \in S : ~(n < m)
  BY <1>2 DEF OpToRel
<1>4. QED
  BY <1>3

\* A sequence over a set is one over any larger set.
LEMMA SeqOfMore ==
  ASSUME NEW S, NEW T, S \subseteq T
  PROVE  Seq(S) \subseteq Seq(T)
OBVIOUS

\* f holds what is kept of the first k elements.
KeepsUpTo(f, s, K, n) ==
  f = [k \in 0..n |->
         IF k = 0 THEN <<>> ELSE IF k \in K THEN Append(f[k-1], s[k]) ELSE f[k-1]]

\* The function that Kept recurses with exists.
LEMMA KeptRecursion ==
  ASSUME NEW T, NEW s \in Seq(T), NEW K
  PROVE  \E f : KeepsUpTo(f, s, K, Len(s)) /\ Kept(s, K) = f[Len(s)]
<1> DEFINE Bad == {n \in Nat : ~\E f : KeepsUpTo(f, s, K, n)}
<1>1. ASSUME Bad # {} PROVE FALSE
  <2>1. PICK n \in Bad : \A m \in Bad : n <= m
    <3>1. Bad \in SUBSET Nat
      OBVIOUS
    <3> HIDE DEF Bad
    <3>2. QED
      BY <1>1, <3>1, LeastNatural
  <2>2. CASE n = 0
    <3> DEFINE f == [k \in 0..0 |-> <<>>]
    <3>1. KeepsUpTo(f, s, K, 0)
      BY DEF KeepsUpTo
    <3>2. QED
      BY <2>1, <2>2, <3>1
  <2>3. CASE n # 0
    <3>1. n - 1 \in Nat /\ n - 1 \notin Bad
      BY <2>1, <2>3
    <3>2. PICK f : KeepsUpTo(f, s, K, n - 1)
      BY <3>1
    <3> DEFINE g == [k \in 0..n |->
                 IF k = n THEN IF k \in K THEN Append(f[k-1], s[k]) ELSE f[k-1] ELSE f[k]]
    <3>3. \A k \in 0..(n-1) : g[k] = f[k]
      BY <3>1
    <3>4. \A k \in 0..n : g[k] =
             IF k = 0 THEN <<>> ELSE IF k \in K THEN Append(g[k-1], s[k]) ELSE g[k-1]
      <4> SUFFICES ASSUME NEW k \in 0..n
                   PROVE  g[k] = IF k = 0 THEN <<>>
                                 ELSE IF k \in K THEN Append(g[k-1], s[k]) ELSE g[k-1]
        OBVIOUS
      <4>1. CASE k = n
        <5>1. g[k-1] = f[k-1] /\ k # 0
          BY <2>3, <3>1, <3>3, <4>1
        <5>2. QED
          BY <4>1, <5>1
      <4>2. CASE k # n
        <5>1. k \in 0..(n-1) /\ (k # 0 => k - 1 \in 0..(n-1))
          BY <3>1, <4>2
        <5>2. f[k] = IF k = 0 THEN <<>>
                     ELSE IF k \in K THEN Append(f[k-1], s[k]) ELSE f[k-1]
          BY <3>2, <5>1 DEF KeepsUpTo
        <5> HIDE DEF g
        <5>3. QED
          BY <3>3, <5>1, <5>2
      <4>3. QED
        BY <4>1, <4>2
    <3>5. KeepsUpTo(g, s, K, n)
      <4>1. g = [k \in 0..n |-> g[k]]
        OBVIOUS
      <4> HIDE DEF g
      <4>2. QED
        BY <3>4, <4>1 DEF KeepsUpTo
    <3>6. QED
      BY <2>1, <3>5
  <2>4. QED
    BY <2>2, <2>3
<1>2. \E f : KeepsUpTo(f, s, K, Len(s))
  <2>1. PICK n : n = Len(s)
    OBVIOUS
  <2>2. n \in Nat
    BY <2>1
  <2>3. n \notin Bad
    BY <1>1
  <2>4. QED
    BY <2>1, <2>2, <2>3
<1>3. PICK f : f = CHOOSE g : KeepsUpTo(g, s, K, Len(s))
  OBVIOUS
<1>4. Kept(s, K) = f[Len(s)]
  BY <1>3 DEF Kept, KeepsUpTo
<1>5. QED
  BY <1>2, <1>3, <1>4

\* What is kept are elements at the positions asked for.
LEMMA KeptElements ==
  ASSUME NEW T, NEW s \in Seq(T), NEW K
  PROVE  Kept(s, K) \in Seq({s[k] : k \in K \cap DOMAIN s})
<1> DEFINE E == {s[k] : k \in K \cap DOMAIN s}
<1>1. PICK f : KeepsUpTo(f, s, K, Len(s)) /\ Kept(s, K) = f[Len(s)]
  BY KeptRecursion
<1>2. \A k \in 0..Len(s) : f[k] = IF k = 0 THEN <<>>
                                  ELSE IF k \in K THEN Append(f[k-1], s[k]) ELSE f[k-1]
  BY <1>1 DEF KeepsUpTo
<1> DEFINE Bad == {n \in 0..Len(s) : f[n] \notin Seq(E)}
<1>3. ASSUME Bad # {} PROVE FALSE
  <2>1. PICK n \in Bad : \A m \in Bad : n <= m
    <3>1. Bad \in SUBSET Nat
      OBVIOUS
    <3> HIDE DEF Bad
    <3>2. QED
      BY <1>3, <3>1, LeastNatural
  <2>2. CASE n = 0
    <3>1. f[0] = <<>> /\ <<>> \in Seq(E)
      BY <1>2
    <3>2. QED
      BY <2>1, <2>2, <3>1
  <2>3. CASE n # 0
    <3>1. n - 1 \in 0..Len(s) /\ n \in DOMAIN s /\ n - 1 \notin Bad
      BY <2>1, <2>3
    <3>2. f[n-1] \in Seq(E)
      BY <3>1
    <3>3. n \in K => s[n] \in E
      BY <3>1
    <3> HIDE DEF E
    <3>4. f[n] \in Seq(E)
      <4>1. f[n] = IF n \in K THEN Append(f[n-1], s[n]) ELSE f[n-1]
        BY <1>2, <2>3
      <4>2. \A q \in Seq(E), x \in E : Append(q, x) \in Seq(E)
        OBVIOUS
      <4>3. QED
        BY <3>2, <3>3, <4>1, <4>2
    <3>5. QED
      BY <2>1, <3>4
  <2>4. QED
    BY <2>2, <2>3
<1>4. Len(s) \in 0..Len(s)
  OBVIOUS
<1>5. QED
  BY <1>1, <1>3, <1>4

\* The least position at which an order is found; 0 if there is none.
LEMMA EntryIsPosition ==
  ASSUME NEW I, NEW queue \in Seq([id : I, qty : Int]), NEW o
  PROVE  EntryOf(queue, o) # 0 => EntryOf(queue, o) \in DOMAIN queue /\ queue[EntryOf(queue, o)].id = o
<1>1. PICK S : S = {i \in 1..Len(queue) : queue[i].id = o}
  OBVIOUS
<1>2. EntryOf(queue, o) = IF S # {} THEN CHOOSE x \in S : \A y \in S : x <= y ELSE 0
  BY <1>1 DEF EntryOf, SelectInSeq, Min
<1>3. S \in SUBSET Nat
  BY <1>1
<1>4. CASE S # {}
  <2>1. \E m \in S : \A n \in S : m <= n
    BY <1>3, <1>4, LeastNatural
  <2>2. EntryOf(queue, o) \in S
    BY <1>2, <1>4, <2>1
  <2>3. QED
    BY <1>1, <2>2
<1>5. QED
  BY <1>2, <1>4

\* A sequence without one of its elements has elements of the same set.
LEMMA RemovedIsSeq ==
  ASSUME NEW T, NEW s \in Seq(T), NEW i \in DOMAIN s
  PROVE  RemoveAt(s, i) \in Seq(T)
<1>1. i \in 1..Len(s) /\ Len(s) \in Nat
  OBVIOUS
<1>2. SubSeq(s, 1, i - 1) \in Seq(T) /\ SubSeq(s, i + 1, Len(s)) \in Seq(T)
  BY <1>1
<1>3. QED
  BY <1>2 DEF RemoveAt

-----------------------------------------------------------------------------
(* What an order takes from a queue *)

Queue(I) == Seq([id : I, qty : Int])

\* The entries of a queue.
LEMMA QueueEntries ==
  ASSUME NEW I, NEW queue \in Queue(I)
  PROVE  /\ DOMAIN queue = 1..Len(queue) /\ Len(queue) \in Nat
         /\ \A k \in DOMAIN queue : /\ queue[k] \in [id : I, qty : Int]
                                    /\ queue[k].id \in I /\ queue[k].qty \in Int
<1>1. PICK E : E = [id : I, qty : Int]
  OBVIOUS
<1>2. queue \in Seq(E)
  BY <1>1 DEF Queue
<1>3. DOMAIN queue = 1..Len(queue) /\ Len(queue) \in Nat /\ \A k \in DOMAIN queue : queue[k] \in E
  BY <1>2
<1>4. QED
  BY <1>1, <1>3

\* The depths of a queue are numbers.
LEMMA DepthIsInt ==
  ASSUME NEW I, NEW queue \in Queue(I), NEW k \in 0..Len(queue)
  PROVE  Depth(queue)[k] \in Int
<1>1. PICK f : f = [j \in DOMAIN queue |-> queue[j].qty]
  OBVIOUS
<1>2. Depth(queue)[k] = SumFunctionOnSet(f, 1..k)
  BY <1>1 DEF Depth
<1>3. IntOn(f, 1..k)
  <2>1. DOMAIN queue = 1..Len(queue) /\ 1..k \subseteq 1..Len(queue)
    BY QueueEntries
  <2>2. QED
    BY <1>1, <2>1, QueueEntries DEF IntOn
<1>4. IsFiniteSet(1..k)
  BY FS_Interval
<1>5. QED
  BY <1>2, <1>3, <1>4, SumInt

\* So is what is taken from each order.
LEMMA TakenIsInt ==
  ASSUME NEW I, NEW queue \in Queue(I), NEW k \in DOMAIN queue, NEW qty \in Int
  PROVE  Taken(queue, k, qty) \in Int
<1>1. k \in 1..Len(queue) /\ k - 1 \in 0..Len(queue) /\ queue[k].qty \in Int
  BY QueueEntries
<1>2. PICK d : d = Depth(queue)[k-1]
  OBVIOUS
<1>3. d \in Int
  BY <1>1, <1>2, DepthIsInt
<1>4. Taken(queue, k, qty) = IF Satisfied(queue, k, qty) THEN 0 ELSE Smaller(queue[k].qty, qty - d)
  BY <1>2 DEF Taken
<1>5. Smaller(queue[k].qty, qty - d) \in Int
  BY <1>1, <1>3 DEF Smaller
<1>6. QED
  BY <1>4, <1>5

\* What is left of an order is never negative.
LEMMA LeftIsNat ==
  ASSUME NEW I, NEW queue \in Queue(I), NEW qty \in Int
  PROVE  Left(queue, qty) \in Nat
<1>1. PICK n, d : n = Len(queue) /\ d = Depth(queue)[n]
  OBVIOUS
<1>2. n \in Nat /\ n \in 0..Len(queue) /\ (n + 1) - 1 = n
  BY <1>1 DEF Queue
<1>3. d \in Int
  BY <1>1, <1>2, DepthIsInt
<1>4. Left(queue, qty) = IF Satisfied(queue, n + 1, qty) THEN 0 ELSE qty - d
  BY <1>1 DEF Left
<1>5. ~Satisfied(queue, n + 1, qty) => ~(d >= qty)
  BY <1>1, <1>2 DEF Satisfied
<1>6. QED
  BY <1>3, <1>4, <1>5

\* The fills are a finite function from makers in the queue to numbers.
LEMMA FillsTyped ==
  ASSUME NEW I, NEW queue \in Queue(I), NEW qty \in Int
  PROVE  /\ Fills(queue, qty) \in [DOMAIN Fills(queue, qty) -> Int]
         /\ DOMAIN Fills(queue, qty) \subseteq I
         /\ IsFiniteSet(DOMAIN Fills(queue, qty))
<1>1. PICK D : D = {k \in DOMAIN queue : Taken(queue, k, qty) # 0}
  OBVIOUS
<1>2. D \subseteq DOMAIN queue /\ IsFiniteSet(D) /\ \A k \in DOMAIN queue : queue[k].id \in I
  <2>1. DOMAIN queue = 1..Len(queue) /\ Len(queue) \in Nat
    BY DEF Queue
  <2>2. IsFiniteSet(DOMAIN queue)
    BY <2>1, FS_Interval
  <2>3. D \subseteq DOMAIN queue
    BY <1>1
  <2>4. IsFiniteSet(D)
    BY <2>2, <2>3, FS_Subset
  <2>5. QED
    BY <2>3, <2>4, QueueEntries
<1>3. PICK ids : ids = [k \in D |-> queue[k].id]
  OBVIOUS
<1>4. Fills(queue, qty) = [m \in {ids[k] : k \in D} |-> FillOf(queue, qty, m)]
  <2>1. {ids[k] : k \in D} = {queue[k].id : k \in D}
    BY <1>3
  <2>2. QED
    BY <1>1, <2>1 DEF Fills
<1>5. IsFiniteSet({ids[k] : k \in D})
  BY <1>2, FiniteImage
<1>6. {ids[k] : k \in D} \subseteq I
  BY <1>2, <1>3
<1>7. \A m : FillOf(queue, qty, m) \in Int
  <2> SUFFICES ASSUME NEW m PROVE FillOf(queue, qty, m) \in Int
    OBVIOUS
  <2>1. PICK f, S : /\ f = [k \in DOMAIN queue |-> Taken(queue, k, qty)]
                    /\ S = {k \in DOMAIN queue : queue[k].id = m}
    OBVIOUS
  <2>2. FillOf(queue, qty, m) = SumFunctionOnSet(f, S)
    BY <2>1 DEF FillOf
  <2>3. IntOn(f, S)
    BY <2>1, TakenIsInt DEF IntOn
  <2>4. IsFiniteSet(S)
    <3>1. DOMAIN queue = 1..Len(queue) /\ Len(queue) \in Nat
      BY DEF Queue
    <3>2. IsFiniteSet(DOMAIN queue) /\ S \subseteq DOMAIN queue
      BY <2>1, <3>1, FS_Interval
    <3>3. QED
      BY <3>2, FS_Subset
  <2>5. QED
    BY <2>2, <2>3, <2>4, SumInt
<1>8. QED
  BY <1>4, <1>5, <1>6, <1>7

\* No order of the rest of the queue is used up.
LEMMA UnmatchedTyped ==
  ASSUME NEW I, NEW queue \in Queue(I), NEW qty \in Int
  PROVE  Unmatched(queue, qty) \in Seq([id : I, qty : Int \ {0}])
<1>1. PICK rest, K : /\ rest = [k \in DOMAIN queue |->
                                  [queue[k] EXCEPT !.qty = @ - Taken(queue, k, qty)]]
                     /\ K = {k \in DOMAIN queue : queue[k].qty # Taken(queue, k, qty)}
  OBVIOUS
<1>2. Unmatched(queue, qty) = Kept(rest, K)
  BY <1>1 DEF Unmatched
<1>3. \A k \in DOMAIN queue :
        /\ rest[k] \in [id : I, qty : Int]
        /\ k \in K => rest[k] \in [id : I, qty : Int \ {0}]
  <2> SUFFICES ASSUME NEW k \in DOMAIN queue
               PROVE  /\ rest[k] \in [id : I, qty : Int]
                      /\ k \in K => rest[k] \in [id : I, qty : Int \ {0}]
    OBVIOUS
  <2>1. PICK e, t : e = queue[k] /\ t = Taken(queue, k, qty)
    OBVIOUS
  <2>2. e \in [id : I, qty : Int] /\ t \in Int
    BY <2>1, TakenIsInt, QueueEntries
  <2>3. rest[k] = [e EXCEPT !.qty = @ - t]
    BY <1>1, <2>1
  <2>4. k \in K => e.qty # t
    BY <1>1, <2>1
  <2>5. QED
    BY <2>2, <2>3, <2>4
<1>4. rest \in Seq([id : I, qty : Int]) /\ DOMAIN rest = DOMAIN queue
  <2>1. DOMAIN queue = 1..Len(queue) /\ Len(queue) \in Nat
    BY DEF Queue
  <2>2. rest = [k \in 1..Len(queue) |-> rest[k]]
    BY <1>1, <2>1
  <2>3. QED
    BY <1>3, <2>1, <2>2
<1>5. Kept(rest, K) \in Seq({rest[k] : k \in K \cap DOMAIN rest})
  BY <1>4, KeptElements
<1>6. {rest[k] : k \in K \cap DOMAIN rest} \subseteq [id : I, qty : Int \ {0}]
  BY <1>3, <1>4
<1>7. \A S, T : S \subseteq T => Seq(S) \subseteq Seq(T)
  OBVIOUS
<1>8. QED
  BY <1>2, <1>5, <1>6, <1>7

-----------------------------------------------------------------------------
(* The inductive invariant *)

OrderRow == [req : Requests, filled : Int, status : Open \cup {"filled", "canceled"}]
Fillings == {f \in UNION {[S -> Int] : S \in SUBSET OrderIds} : IsFiniteSet(DOMAIN f)}
SettleEvent == [kind : {"settle"}, id : Nat, taker : OrderIds, fills : Fillings,
                left : Nat, token : Nat]
CanceledEvent == [kind : {"canceled"}, order : OrderIds, token : Nat]
Event == SettleEvent \cup CanceledEvent

\* The orders of a side.
Of(side) == {o \in DOMAIN rows : rows[o].req.side = side}

\* Every event of the engine: written, to be settled, to be published.
Reported == trades \cup ToSet(settlements) \cup ToSet(out)

\* What an event speaks of exists; no taker is its own maker.
Fits(e) ==
  /\ e \in Event
  /\ e.token \in 0..term
  /\ e.kind = "canceled" => e.order \in DOMAIN rows
  /\ e.kind = "settle" => /\ e.id \in 1..matches
                          /\ e.taker \in DOMAIN rows
                          /\ DOMAIN e.fills \subseteq DOMAIN rows \ {e.taker}

\* The records there can be of the orders of I.
RecordsOf(I) == [kind : {"placed", "cancel"}, order : I]

\* A limit order that is filled exactly is not open.
RowsOK ==
  /\ DOMAIN rows \subseteq OrderIds
  /\ \A o \in DOMAIN rows :
       /\ rows[o] \in OrderRow
       /\ Active(o) => rows[o].filled # rows[o].req.qty
  /\ IsFiniteSet(DOMAIN rows)
  /\ created \in [DOMAIN rows -> Stamps]
  /\ outbox \subseteq RecordsOf(DOMAIN rows)

\* The handler works on a record of the topic, and is done with it once it has
\* nothing to publish; without a leader there is none at work.
LogOK ==
  /\ orders \in Seq([kind : {"placed", "cancel"}, order : DOMAIN rows])
  /\ committed \in 1..pos
  /\ pos \in 1..(Len(orders) + 1)
  /\ ~Idle => pos <= Len(orders)
  /\ handled => out = <<>>
  /\ leader = "down" => Idle

\* The orders of a queue are of its side.
BookOK ==
  /\ book \in [Sides -> Seq([id : DOMAIN rows, qty : Int])]
  /\ \A side \in Sides : book[side] \in Seq([id : Of(side), qty : Int \ {0}])

EventsOK ==
  /\ trades \subseteq SettleEvent /\ IsFiniteSet(trades)
  /\ settlements \in Seq(Event)
  /\ out \in Seq(Event) /\ Len(out) <= 1
  /\ \A e \in Reported : Fits(e)

FlagsOK ==
  /\ handled \in BOOLEAN /\ clean \in BOOLEAN /\ restored \in BOOLEAN
  /\ retries \in 0..MaxDuplicates
  /\ leader \in {"serving", "leaving", "down"}
  /\ term \in 1..MaxTerm /\ matches \in Nat
  /\ givenUp \subseteq DOMAIN rows

\* Unless an overfilled row was restored, whoever has taken is no longer new.
AllPositive(T) == \A t \in T : \A m \in DOMAIN t.fills : t.fills[m] > 0
Claimed == AllPositive(trades) => \A t \in trades : rows[t.taker].status # "new"

RecoveryInv ==
  /\ RowsOK
  /\ LogOK
  /\ BookOK
  /\ EventsOK
  /\ FlagsOK
  /\ FilledMatchesTrades
  /\ Claimed
  /\ TakesOnce

-----------------------------------------------------------------------------
(* What the invariant says *)

\* The fields of a row.
LEMMA RowFields ==
  ASSUME RowsOK, NEW o \in DOMAIN rows
  PROVE  /\ o \in OrderIds /\ rows[o] \in OrderRow /\ rows[o].filled \in Int
         /\ rows[o].req \in Requests /\ rows[o].req.side \in Sides
         /\ rows[o].req.type \in {"limit", "market"}
         /\ rows[o].req.qty \in Nat /\ rows[o].req.qty > 0
         /\ rows[o].status \in {"new", "partially_filled", "filled", "canceled"}
<1>1. o \in OrderIds /\ rows[o] \in OrderRow
  BY DEF RowsOK
<1>2. rows[o].req \in Requests /\ rows[o].filled \in Int
      /\ rows[o].status \in {"new", "partially_filled", "filled", "canceled"}
  BY <1>1 DEF OrderRow, Open
<1>3. rows[o].req \in [side : Sides, type : {"limit", "market"}, qty : Nat \ {0}]
  BY <1>2, RequestsAssumption
<1>4. QED
  BY <1>1, <1>2, <1>3

\* The fields of an event.
LEMMA EventFields ==
  ASSUME NEW e \in Event
  PROVE  /\ e.kind \in {"settle", "canceled"} /\ e.token \in Nat
         /\ e.kind = "canceled" => e \in CanceledEvent
         /\ e.kind = "settle" => /\ e \in SettleEvent /\ e.left \in Nat
                                 /\ IsFiniteSet(DOMAIN e.fills)
                                 /\ e.fills \in [DOMAIN e.fills -> Int]
                                 /\ \A o \in DOMAIN e.fills : e.fills[o] \in Int
<1>1. CASE e \in CanceledEvent
  BY <1>1 DEF CanceledEvent
<1>2. CASE e \in SettleEvent
  <2>1. e.kind = "settle" /\ e.token \in Nat /\ e.left \in Nat /\ e.fills \in Fillings
    BY <1>2 DEF SettleEvent
  <2>2. PICK f : f = e.fills
    OBVIOUS
  <2>3. f \in [DOMAIN f -> Int] /\ IsFiniteSet(DOMAIN f)
    BY <2>1, <2>2 DEF Fillings
  <2>4. QED
    BY <1>2, <2>1, <2>2, <2>3
<1>3. QED
  BY <1>1, <1>2 DEF Event

\* An event that fits is an event of the type invariant.
LEMMA FittingEvent ==
  ASSUME NEW e, Fits(e)
  PROVE  IsEvent(e)
<1>1. e \in Event
  BY DEF Fits
<1>2. e.kind \in {"settle", "canceled"} /\ (e.kind = "settle" =>
        e.left \in Nat /\ \A o \in DOMAIN e.fills : e.fills[o] \in Int)
  BY <1>1, EventFields
<1>3. QED
  BY <1>2 DEF Fits, IsEvent

\* It still fits when rows, terms and matches are added.
LEMMA FitsLater ==
  ASSUME NEW e, Fits(e), DOMAIN rows \subseteq DOMAIN rows', term \in Nat, term' \in Nat,
         term <= term', matches \in Nat, matches' \in Nat, matches <= matches'
  PROVE  Fits(e)'
<1>1. e.token \in 0..term' /\ 1..matches \subseteq 1..matches'
  BY DEF Fits
<1>2. QED
  BY <1>1 DEF Fits

\* Positions and elements of a sequence.
LEMMA SetOfAppend ==
  ASSUME NEW T, NEW s \in Seq(T), NEW x
  PROVE  ToSet(Append(s, x)) = ToSet(s) \cup {x}
<1>1. PICK t : t = Append(s, x)
  OBVIOUS
<1>2. DOMAIN t = 1..(Len(s) + 1) /\ DOMAIN s = 1..Len(s) /\ Len(s) \in Nat
      /\ t[Len(s) + 1] = x /\ \A k \in DOMAIN s : t[k] = s[k]
  BY <1>1
<1>3. DOMAIN t = DOMAIN s \cup {Len(s) + 1}
  BY <1>2
<1>4. QED
  BY <1>1, <1>2, <1>3 DEF ToSet

\* The records behind the first are records of the topic.
LEMMA SetOfTail ==
  ASSUME NEW T, NEW s \in Seq(T), s # <<>>
  PROVE  Tail(s) \in Seq(T) /\ ToSet(Tail(s)) \subseteq ToSet(s) /\ s[1] \in ToSet(s) /\ s[1] \in T
<1>1. /\ DOMAIN s = 1..Len(s) /\ Len(s) \in Nat /\ Len(s) >= 1 /\ Tail(s) \in Seq(T)
      /\ DOMAIN Tail(s) = 1..(Len(s) - 1)
      /\ \A k \in DOMAIN Tail(s) : Tail(s)[k] = s[k + 1]
  OBVIOUS
<1>2. 1 \in DOMAIN s /\ \A k \in DOMAIN Tail(s) : k + 1 \in DOMAIN s
  BY <1>1
<1>3. QED
  BY <1>1, <1>2 DEF ToSet

\* The type invariant follows.
LEMMA InvType == RecoveryInv => TypeOK
<1> SUFFICES ASSUME RecoveryInv PROVE TypeOK
  OBVIOUS
<1>1. \A o \in DOMAIN rows :
        rows[o] \in [req : Requests, filled : Int, status : Open \cup {"filled", "canceled"}]
  BY DEF RecoveryInv, RowsOK, OrderRow
<1>2. \A t \in trades : t.kind = "settle" /\ IsEvent(t)
  BY FittingEvent DEF RecoveryInv, EventsOK, SettleEvent, Reported
<1>3. \A side \in Sides : \A k \in DOMAIN book[side] : book[side][k].qty # 0
  <2> SUFFICES ASSUME NEW side \in Sides, NEW k \in DOMAIN book[side] PROVE book[side][k].qty # 0
    OBVIOUS
  <2>1. PICK E : E = [id : Of(side), qty : Int \ {0}]
    OBVIOUS
  <2>2. book[side] \in Seq(E)
    BY <2>1 DEF RecoveryInv, BookOK
  <2>3. book[side][k] \in E
    BY <2>2
  <2>4. QED
    BY <2>1, <2>3
<1>4. Len(out) <= 1 /\ \A k \in DOMAIN out : IsEvent(out[k])
  BY FittingEvent DEF RecoveryInv, EventsOK, Reported, ToSet
<1>5. \A k \in DOMAIN settlements : IsEvent(settlements[k])
  BY FittingEvent DEF RecoveryInv, EventsOK, Reported, ToSet
<1>6. /\ DOMAIN rows \subseteq OrderIds /\ created \in [DOMAIN rows -> Stamps]
      /\ outbox \subseteq [kind : {"placed", "cancel"}, order : DOMAIN rows]
      /\ orders \in Seq([kind : {"placed", "cancel"}, order : DOMAIN rows])
      /\ committed \in 1..pos /\ pos \in 1..(Len(orders) + 1)
      /\ book \in [Sides -> Seq([id : DOMAIN rows, qty : Int])]
  BY DEF RecoveryInv, RowsOK, RecordsOf, LogOK, BookOK
<1>7. FlagsOK
  BY DEF RecoveryInv
<1>8. QED
  BY <1>1, <1>2, <1>3, <1>4, <1>5, <1>6, <1>7 DEF TypeOK, FlagsOK

-----------------------------------------------------------------------------
(* The initial state *)

\* The invariant holds at the start: no order, no trade, no book.
LEMMA InitRecovery == Init => RecoveryInv
<1> SUFFICES ASSUME Init PROVE RecoveryInv
  OBVIOUS
<1>1. DOMAIN rows = {} /\ trades = {} /\ settlements = <<>> /\ out = <<>> /\ orders = <<>>
      /\ outbox = {} /\ book = [side \in Sides |-> <<>>]
  BY DEF Init
<1>2. RowsOK
  <2>1. created \in [DOMAIN rows -> Stamps]
    BY <1>1 DEF Init
  <2>2. IsFiniteSet(DOMAIN rows)
    BY <1>1, FS_EmptySet
  <2>3. QED
    BY <1>1, <2>1, <2>2 DEF RowsOK
<1>3. LogOK
  BY <1>1 DEF Init, LogOK, Idle
<1>4. BookOK
  BY <1>1 DEF BookOK
<1>5. EventsOK
  <2>1. Reported = {}
    BY <1>1 DEF Reported, ToSet
  <2>2. IsFiniteSet(trades)
    BY <1>1, FS_EmptySet
  <2>3. QED
    BY <1>1, <2>1, <2>2 DEF EventsOK
<1>6. FlagsOK
  <2>1. handled \in BOOLEAN /\ clean \in BOOLEAN /\ restored \in BOOLEAN
    BY DEF Init
  <2>2. retries \in 0..MaxDuplicates /\ term \in 1..MaxTerm /\ matches \in Nat
    BY BoundsAssumption DEF Init
  <2>3. leader \in {"serving", "leaving", "down"} /\ givenUp \subseteq DOMAIN rows
    BY DEF Init
  <2>4. QED
    BY <2>1, <2>2, <2>3 DEF FlagsOK
<1>7. FilledMatchesTrades /\ Claimed /\ TakesOnce
  BY <1>1 DEF FilledMatchesTrades, Claimed, TakesOnce
<1>8. QED
  BY <1>2, <1>3, <1>4, <1>5, <1>6, <1>7 DEF RecoveryInv

-----------------------------------------------------------------------------
(* What steps have in common *)

\* What is settled depends on the tables.
LEMMA SameData ==
  ASSUME RecoveryInv, UNCHANGED <<rows, trades>>
  PROVE  FilledMatchesTrades' /\ Claimed' /\ TakesOnce'
<1>1. FilledMatchesTrades'
  BY DEF RecoveryInv, FilledMatchesTrades, TradedBy
<1>2. Claimed'
  BY DEF RecoveryInv, Claimed
<1>3. TakesOnce'
  BY DEF RecoveryInv, TakesOnce
<1>4. QED
  BY <1>1, <1>2, <1>3

\* The rows do not change.
LEMMA SameRows ==
  ASSUME RowsOK, UNCHANGED <<rows, created, outbox>>
  PROVE  RowsOK'
BY DEF RowsOK, Active

\* The topic and the consumer do not move.
LEMMA SameLog ==
  ASSUME LogOK, UNCHANGED <<rows, orders, committed, pos, out, handled>>,
         leader' = "down" => leader = "down"
  PROVE  LogOK'
BY DEF LogOK, Idle

\* The book does not change.
LEMMA SameBook ==
  ASSUME BookOK, UNCHANGED <<rows, book>>
  PROVE  BookOK'
BY DEF BookOK, Of

\* A queue may be replaced by one of orders of its side.
LEMMA NewQueues ==
  ASSUME BookOK, UNCHANGED rows, book' \in [Sides -> Seq([id : DOMAIN rows, qty : Int])],
         \A side \in Sides : book'[side] \in Seq([id : Of(side), qty : Int \ {0}])
  PROVE  BookOK'
BY DEF BookOK, Of

\* No event that is not there already.
LEMMA NoNewEvents ==
  ASSUME EventsOK, FlagsOK, FlagsOK', DOMAIN rows \subseteq DOMAIN rows', term <= term',
         matches <= matches', trades' \subseteq SettleEvent, IsFiniteSet(trades'),
         settlements' \in Seq(Event), out' \in Seq(Event), Len(out') <= 1,
         Reported' \subseteq Reported
  PROVE  EventsOK'
<1>1. \A e \in Reported' : Fits(e)'
  <2> SUFFICES ASSUME NEW e \in Reported' PROVE Fits(e)'
    OBVIOUS
  <2>1. Fits(e)
    BY DEF EventsOK
  <2>2. term \in Nat /\ term' \in Nat /\ matches \in Nat /\ matches' \in Nat
    BY DEF FlagsOK
  <2>3. QED
    BY <2>1, <2>2, FitsLater
<1>2. QED
  BY <1>1 DEF EventsOK

\* The events do not move.
LEMMA SameEvents ==
  ASSUME EventsOK, FlagsOK, FlagsOK', DOMAIN rows \subseteq DOMAIN rows', term <= term',
         matches <= matches', UNCHANGED <<trades, settlements, out>>
  PROVE  EventsOK'
<1>1. Reported' = Reported
  BY DEF Reported
<1>2. /\ settlements' \in Seq(Event) /\ out' \in Seq(Event) /\ Len(out') <= 1
      /\ trades' \subseteq SettleEvent /\ IsFiniteSet(trades')
  BY DEF EventsOK
<1>3. QED
  BY <1>1, <1>2, NoNewEvents

\* The handler's event is dropped.
LEMMA DropEvent ==
  ASSUME EventsOK, FlagsOK, FlagsOK', DOMAIN rows \subseteq DOMAIN rows', term <= term',
         matches <= matches', UNCHANGED <<trades, settlements>>, out' = <<>>
  PROVE  EventsOK'
<1>1. Reported' \subseteq Reported
  BY DEF Reported, ToSet
<1>2. /\ settlements' \in Seq(Event) /\ out' \in Seq(Event) /\ Len(out') <= 1
      /\ trades' \subseteq SettleEvent /\ IsFiniteSet(trades')
  BY DEF EventsOK
<1>3. QED
  BY <1>1, <1>2, NoNewEvents

-----------------------------------------------------------------------------
(* The steps of the order-service *)

\* A placed order is a new row, a new record, and nothing has been traded for it.
LEMMA PlaceOrderKeeps ==
  ASSUME RecoveryInv, PlaceOrder
  PROVE  RecoveryInv'
<1>1. PICK o \in OrderIds \ DOMAIN rows, r \in Requests, stamp \in Stamps :
        /\ rows' = [p \in DOMAIN rows \cup {o} |->
                      IF p = o THEN [req |-> r, filled |-> 0, status |-> "new"] ELSE rows[p]]
        /\ created' = [p \in DOMAIN rows \cup {o} |-> IF p = o THEN stamp ELSE created[p]]
        /\ outbox' = outbox \cup {Placed(o)}
  BY DEF PlaceOrder
<1>2. UNCHANGED <<trades, orders, committed, pos, book, out, handled, retries, leader, term,
                  matches, settlements, givenUp, clean, restored>>
  BY DEF PlaceOrder, logVars, engineVars, historyVars
<1>3. /\ RowsOK /\ LogOK /\ BookOK /\ EventsOK /\ FlagsOK
      /\ FilledMatchesTrades /\ Claimed /\ TakesOnce
  BY DEF RecoveryInv
<1>4. PICK new : new = [req |-> r, filled |-> 0, status |-> "new"]
  OBVIOUS
<1>5. /\ DOMAIN rows' = DOMAIN rows \cup {o} /\ rows'[o] = new
      /\ \A p \in DOMAIN rows : rows'[p] = rows[p] /\ p # o
  BY <1>1, <1>4
<1>6. RowsOK'
  <2>1. new \in OrderRow /\ new.filled = 0 /\ new.req = r
    BY <1>4 DEF OrderRow, Open
  <2>2. r.qty # 0
    <3>1. r \in [side : Sides, type : {"limit", "market"}, qty : Nat \ {0}]
      BY RequestsAssumption
    <3>2. QED
      BY <3>1
  <2>3. \A p \in DOMAIN rows' : rows'[p] \in OrderRow /\ (Active(p)' => rows'[p].filled # rows'[p].req.qty)
    BY <1>3, <1>5, <2>1, <2>2 DEF RowsOK, Active
  <2>4. created' \in [DOMAIN rows' -> Stamps]
    <3>1. \A p \in DOMAIN rows : created[p] \in Stamps
      BY <1>3 DEF RowsOK
    <3>2. QED
      BY <1>1, <1>5, <3>1
  <2>5. outbox' \subseteq RecordsOf(DOMAIN rows')
    <3>1. RecordsOf(DOMAIN rows) \subseteq RecordsOf(DOMAIN rows')
      BY <1>5 DEF RecordsOf
    <3>2. Placed(o) \in RecordsOf(DOMAIN rows')
      BY <1>5 DEF RecordsOf, Placed
    <3>3. QED
      BY <1>1, <1>3, <3>1, <3>2 DEF RowsOK
  <2>6. IsFiniteSet(DOMAIN rows')
    <3>1. IsFiniteSet(DOMAIN rows)
      BY <1>3 DEF RowsOK
    <3>2. QED
      BY <1>5, <3>1, FS_AddElement
  <2>7. DOMAIN rows' \subseteq OrderIds
    BY <1>1, <1>3, <1>5 DEF RowsOK
  <2>8. QED
    BY <2>3, <2>4, <2>5, <2>6, <2>7 DEF RowsOK
<1>7. LogOK'
  <2>1. PICK R : R = [kind : {"placed", "cancel"}, order : DOMAIN rows']
    OBVIOUS
  <2>2. orders \in Seq(R)
    <3>1. [kind : {"placed", "cancel"}, order : DOMAIN rows] \subseteq R
      BY <1>5, <2>1
    <3>2. \A S, T : S \subseteq T => Seq(S) \subseteq Seq(T)
      OBVIOUS
    <3>3. QED
      BY <1>3, <3>1, <3>2 DEF LogOK
  <2>3. QED
    BY <1>2, <1>3, <2>1, <2>2 DEF LogOK, Idle
<1>8. BookOK'
  <2>1. \A side : Of(side) \subseteq Of(side)'
    BY <1>5 DEF Of
  <2>2. \A S, T : S \subseteq T => Seq(S) \subseteq Seq(T)
    OBVIOUS
  <2>3. \A side : [id : Of(side), qty : Int \ {0}] \subseteq [id : Of(side)', qty : Int \ {0}]
    BY <2>1
  <2>4. \A side \in Sides : book'[side] \in Seq([id : Of(side)', qty : Int \ {0}])
    <3> SUFFICES ASSUME NEW side \in Sides
                 PROVE  book'[side] \in Seq([id : Of(side)', qty : Int \ {0}])
      OBVIOUS
    <3>1. PICK S, T : S = [id : Of(side), qty : Int \ {0}] /\ T = [id : Of(side)', qty : Int \ {0}]
      OBVIOUS
    <3>2. S \subseteq T /\ book'[side] \in Seq(S)
      BY <1>2, <1>3, <2>3, <3>1 DEF BookOK
    <3>3. book'[side] \in Seq(T)
      BY <2>2, <3>2
    <3>4. QED
      BY <3>1, <3>3
  <2>5. [id : DOMAIN rows, qty : Int] \subseteq [id : DOMAIN rows', qty : Int]
    BY <1>5
  <2>6. Seq([id : DOMAIN rows, qty : Int]) \subseteq Seq([id : DOMAIN rows', qty : Int])
    <3>1. PICK S, T : S = [id : DOMAIN rows, qty : Int] /\ T = [id : DOMAIN rows', qty : Int]
      OBVIOUS
    <3>2. S \subseteq T
      BY <2>5, <3>1
    <3>3. Seq(S) \subseteq Seq(T)
      BY <2>2, <3>2
    <3>4. QED
      BY <3>1, <3>3
  <2>7. book' \in [Sides -> Seq([id : DOMAIN rows', qty : Int])]
    BY <1>2, <1>3, <2>6 DEF BookOK
  <2>8. QED
    BY <2>4, <2>7 DEF BookOK
<1>9. FlagsOK'
  BY <1>2, <1>3, <1>5 DEF FlagsOK
<1>10. EventsOK'
  <2>1. term <= term' /\ matches <= matches' /\ DOMAIN rows \subseteq DOMAIN rows'
    BY <1>2, <1>3, <1>5 DEF FlagsOK
  <2>2. QED
    BY <1>2, <1>3, <1>9, <2>1, SameEvents
<1>11. FilledMatchesTrades'
  <2> SUFFICES ASSUME NEW p \in DOMAIN rows' PROVE rows'[p].filled = TradedBy(p)'
    BY DEF FilledMatchesTrades
  <2>1. TradedBy(p)' = TradedBy(p)
    BY <1>2 DEF TradedBy
  <2>2. CASE p \in DOMAIN rows
    BY <1>3, <1>5, <2>1, <2>2 DEF FilledMatchesTrades
  <2>3. CASE p = o
    <3>1. PICK f : f = [t \in trades |-> (IF t.taker = o THEN Total(t.fills) ELSE 0)
                                         + (IF o \in DOMAIN t.fills THEN t.fills[o] ELSE 0)]
      OBVIOUS
    <3>2. \A t \in trades : f[t] = 0
      <4> SUFFICES ASSUME NEW t \in trades PROVE f[t] = 0
        OBVIOUS
      <4>1. Fits(t) /\ t.kind = "settle"
        BY <1>3 DEF EventsOK, Reported, SettleEvent
      <4>2. t.taker # o /\ o \notin DOMAIN t.fills
        BY <1>1, <4>1 DEF Fits
      <4>3. QED
        BY <3>1, <4>2
    <3>3. SumFunctionOnSet(f, trades) = 0
      BY <1>3, <3>2, SumZero DEF EventsOK
    <3>4. TradedBy(o) = 0
      BY <3>1, <3>3 DEF TradedBy, SumFunction
    <3>5. rows'[o].filled = 0
      BY <1>4, <1>5
    <3>6. QED
      BY <2>1, <2>3, <3>4, <3>5
  <2>4. QED
    BY <1>5, <2>2, <2>3
<1>12. Claimed'
  <2>1. \A t \in trades : t.taker \in DOMAIN rows
    BY <1>3 DEF EventsOK, Reported, SettleEvent, Fits
  <2>2. QED
    BY <1>2, <1>3, <1>5, <2>1 DEF Claimed
<1>13. TakesOnce'
  BY <1>2, <1>3 DEF TakesOnce
<1>14. QED
  BY <1>6, <1>7, <1>8, <1>9, <1>10, <1>11, <1>12, <1>13 DEF RecoveryInv

\* A record of an order that exists is added to the topic.
LEMMA AddedRecord ==
  ASSUME LogOK, NEW x \in [kind : {"placed", "cancel"}, order : DOMAIN rows],
         orders' = Append(orders, x), UNCHANGED <<rows, committed, pos, out, handled, leader>>
  PROVE  LogOK'
<1>1. PICK R : R = [kind : {"placed", "cancel"}, order : DOMAIN rows]
  OBVIOUS
<1>2. orders \in Seq(R) /\ x \in R
  BY <1>1 DEF LogOK
<1>3. orders' \in Seq(R) /\ Len(orders') = Len(orders) + 1 /\ Len(orders) \in Nat
  BY <1>2
<1>4. QED
  BY <1>1, <1>3 DEF LogOK, Idle

\* A request to cancel adds a record to the outbox, for an order that is open.
LEMMA CancelOrderKeeps ==
  ASSUME RecoveryInv, CancelOrder
  PROVE  RecoveryInv'
<1>1. PICK o \in DOMAIN rows : outbox' = outbox \cup {Cancel(o)}
  BY DEF CancelOrder
<1>2. UNCHANGED <<rows, created, trades, orders, committed, pos, book, out, handled, retries,
                  leader, term, matches, settlements, givenUp, clean, restored>>
  BY DEF CancelOrder, logVars, engineVars, historyVars
<1>3. /\ RowsOK /\ LogOK /\ BookOK /\ EventsOK /\ FlagsOK
  BY DEF RecoveryInv
<1>4. RowsOK'
  <2>1. Cancel(o) \in RecordsOf(DOMAIN rows)
    BY DEF Cancel, RecordsOf
  <2>2. outbox' \subseteq RecordsOf(DOMAIN rows)
    BY <1>1, <1>3, <2>1 DEF RowsOK
  <2>3. QED
    BY <1>2, <1>3, <2>2 DEF RowsOK, Active
<1>5. FlagsOK' /\ term <= term' /\ matches <= matches' /\ DOMAIN rows \subseteq DOMAIN rows'
  BY <1>2, <1>3 DEF FlagsOK
<1>6. EventsOK'
  BY <1>2, <1>3, <1>5, SameEvents
<1>7. LogOK' /\ BookOK'
  BY <1>2, <1>3, SameLog, SameBook
<1>8. QED
  BY <1>2, <1>4, <1>5, <1>6, <1>7, SameData DEF RecoveryInv

\* A record leaves the outbox for the topic.
LEMMA SendKeeps ==
  ASSUME RecoveryInv, Send
  PROVE  RecoveryInv'
<1>1. PICK x \in outbox : orders' = Append(orders, x) /\ outbox' = outbox \ {x}
  BY DEF Send
<1>2. UNCHANGED <<rows, created, trades, committed, pos, book, out, handled, retries, leader,
                  term, matches, settlements, givenUp, clean, restored>>
  BY DEF Send, engineVars, historyVars
<1>3. /\ RowsOK /\ LogOK /\ BookOK /\ EventsOK /\ FlagsOK
  BY DEF RecoveryInv
<1>4. LogOK'
  <2>1. x \in [kind : {"placed", "cancel"}, order : DOMAIN rows]
    BY <1>3 DEF RowsOK, RecordsOf
  <2>2. QED
    BY <1>1, <1>2, <1>3, <2>1, AddedRecord
<1>5. FlagsOK' /\ term <= term' /\ matches <= matches' /\ DOMAIN rows \subseteq DOMAIN rows'
  BY <1>2, <1>3 DEF FlagsOK
<1>6. EventsOK'
  BY <1>2, <1>3, <1>5, SameEvents
<1>7. BookOK'
  BY <1>2, <1>3, SameBook
<1>8. RowsOK'
  BY <1>1, <1>2, <1>3 DEF RowsOK, Active
<1>9. QED
  BY <1>2, <1>4, <1>5, <1>6, <1>7, <1>8, SameData DEF RecoveryInv

\* The outbox may publish a record again: the repeated record says what the first one says.
LEMMA DuplicateKeeps ==
  ASSUME RecoveryInv, Duplicate
  PROVE  RecoveryInv'
<1>1. PICK x \in ToSet(orders) : orders' = Append(orders, x)
  BY DEF Duplicate
<1>2. UNCHANGED <<rows, created, outbox, trades, committed, pos, book, out, handled, retries, leader,
                  term, matches, settlements, givenUp, restored>> /\ clean' = FALSE
  BY DEF Duplicate, dbVars, engineVars
<1>3. /\ RowsOK /\ LogOK /\ BookOK /\ EventsOK /\ FlagsOK
  BY DEF RecoveryInv
<1>4. LogOK'
  <2>1. PICK R : R = [kind : {"placed", "cancel"}, order : DOMAIN rows]
    OBVIOUS
  <2>2. orders \in Seq(R)
    BY <1>3, <2>1 DEF LogOK
  <2>3. x \in R
    BY <1>1, <2>2 DEF ToSet
  <2>4. QED
    BY <1>1, <1>2, <1>3, <2>1, <2>3, AddedRecord
<1>5. FlagsOK' /\ term <= term' /\ matches <= matches' /\ DOMAIN rows \subseteq DOMAIN rows'
  <2>1. clean' \in BOOLEAN
    BY <1>2
  <2>2. FlagsOK'
    BY <1>2, <1>3, <2>1 DEF FlagsOK
  <2>3. QED
    BY <1>2, <1>3, <2>2 DEF FlagsOK
<1>6. EventsOK'
  BY <1>2, <1>3, <1>5, SameEvents
<1>7. RowsOK' /\ BookOK'
  BY <1>2, <1>3, SameRows, SameBook
<1>8. QED
  BY <1>2, <1>4, <1>5, <1>6, <1>7, SameData DEF RecoveryInv

-----------------------------------------------------------------------------
(* The steps of the handler *)

\* The record a ready handler has before it.
LEMMA RecordFields ==
  ASSUME RecoveryInv, NEW kind, Ready(kind)
  PROVE  /\ Record.order \in DOMAIN rows /\ pos <= Len(orders)
         /\ out = <<>> /\ handled = FALSE /\ leader = "serving"
<1>1. PICK R : R = [kind : {"placed", "cancel"}, order : DOMAIN rows]
  OBVIOUS
<1>2. orders \in Seq(R) /\ pos \in 1..Len(orders)
  BY <1>1 DEF RecoveryInv, LogOK, Ready
<1>3. orders[pos] \in R
  BY <1>2
<1>4. handled = FALSE /\ out = <<>>
  <2>1. handled \in BOOLEAN
    BY DEF RecoveryInv, FlagsOK
  <2>2. QED
    BY <2>1 DEF Ready, Idle
<1>5. leader = "serving"
  BY DEF Ready
<1>6. QED
  BY <1>1, <1>2, <1>3, <1>4, <1>5 DEF Record

\* A sequence of one element.
LEMMA OneEvent ==
  ASSUME NEW e, e \in Event, NEW s, s = <<e>>
  PROVE  s \in Seq(Event) /\ Len(s) = 1 /\ ToSet(s) = {e}
BY DEF ToSet

\* The handler of a placed order matches it against the book and prepares its event.
LEMMA HandlePlacedKeeps ==
  ASSUME RecoveryInv, HandlePlaced
  PROVE  RecoveryInv'
<1>1. PICK o, r, side : /\ o = Record.order /\ r = rows[o].req /\ side = Opposite(r.side)
  OBVIOUS
<1>2. PICK queue, left, fills : /\ queue = book[side] /\ left = Left(queue, r.qty)
                                /\ fills = Fills(queue, r.qty)
  OBVIOUS
<1>3. /\ RowsOK /\ LogOK /\ BookOK /\ EventsOK /\ FlagsOK
  BY DEF RecoveryInv
<1>4. /\ book' = [s \in Sides |->
           IF s = side THEN Unmatched(queue, r.qty)
           ELSE IF left > 0 /\ r.type = "limit" THEN Append(book[s], [id |-> o, qty |-> left])
           ELSE book[s]]
      /\ \/ out' = <<Settlement(o, fills, left)>> /\ handled' = FALSE
         \/ out' = <<>> /\ handled' = TRUE
      /\ matches' = matches + 1
  BY <1>1, <1>2 DEF HandlePlaced
<1>5. UNCHANGED <<rows, created, outbox, trades, orders, committed, pos, retries, leader, term,
                  settlements, givenUp, clean, restored>>
  BY DEF HandlePlaced, dbVars, logVars, historyVars
<1>6. o \in DOMAIN rows /\ pos <= Len(orders) /\ out = <<>> /\ leader = "serving"
  BY <1>1, RecordFields DEF HandlePlaced
<1>7. r.side \in Sides /\ r.qty \in Nat /\ r.qty > 0
  BY <1>1, <1>3, <1>6, RowFields
<1>8. side \in Sides /\ side # r.side /\ o \in OrderIds
  BY <1>1, <1>3, <1>6, <1>7, RowFields DEF Opposite, Sides
<1>9. PICK I : I = Of(side)
  OBVIOUS
<1>10. I \subseteq DOMAIN rows /\ o \notin I /\ I \subseteq OrderIds
  BY <1>1, <1>3, <1>8, <1>9 DEF Of, RowsOK
<1>11. queue \in Queue(I)
  <2>1. PICK E, F : E = [id : I, qty : Int \ {0}] /\ F = [id : I, qty : Int]
    OBVIOUS
  <2>2. queue \in Seq(E)
    BY <1>2, <1>3, <1>8, <1>9, <2>1 DEF BookOK
  <2>3. E \subseteq F
    BY <2>1
  <2>4. queue \in Seq(F)
    BY <2>2, <2>3, SeqOfMore
  <2>5. QED
    BY <2>1, <2>4 DEF Queue
<1>12. Unmatched(queue, r.qty) \in Seq([id : I, qty : Int \ {0}])
  BY <1>7, <1>11, UnmatchedTyped
<1>13. left \in Nat
  BY <1>2, <1>7, <1>11, LeftIsNat
<1>14. fills \in [DOMAIN fills -> Int] /\ DOMAIN fills \subseteq I /\ IsFiniteSet(DOMAIN fills)
  BY <1>2, <1>7, <1>11, FillsTyped
<1>15. BookOK'
  <2>1. \A s \in Sides : book'[s] \in Seq([id : Of(s), qty : Int \ {0}])
    <3> SUFFICES ASSUME NEW s \in Sides PROVE book'[s] \in Seq([id : Of(s), qty : Int \ {0}])
      OBVIOUS
    <3>1. CASE s = side
      BY <1>4, <1>9, <1>12, <3>1
    <3>2. CASE s # side
      <4>1. s = r.side
        BY <1>7, <1>8, <3>2 DEF Sides
      <4>2. PICK E, x : E = [id : Of(s), qty : Int \ {0}] /\ x = [id |-> o, qty |-> left]
        OBVIOUS
      <4>3. left > 0 => x \in E
        BY <1>1, <1>6, <1>13, <4>1, <4>2 DEF Of
      <4>4. book[s] \in Seq(E)
        BY <1>3, <4>2 DEF BookOK
      <4>5. book'[s] = IF left > 0 /\ r.type = "limit" THEN Append(book[s], x) ELSE book[s]
        BY <1>4, <3>2, <4>2
      <4>6. book'[s] \in Seq(E)
        BY <4>3, <4>4, <4>5
      <4>7. QED
        BY <4>2, <4>6
    <3>3. QED
      BY <3>1, <3>2
  <2>2. book' \in [Sides -> Seq([id : DOMAIN rows, qty : Int])]
    <3>1. \A s \in Sides : book'[s] \in Seq([id : DOMAIN rows, qty : Int])
      <4> SUFFICES ASSUME NEW s \in Sides PROVE book'[s] \in Seq([id : DOMAIN rows, qty : Int])
        OBVIOUS
      <4>1. PICK E, F : E = [id : Of(s), qty : Int \ {0}] /\ F = [id : DOMAIN rows, qty : Int]
        OBVIOUS
      <4>2. E \subseteq F
        BY <4>1 DEF Of
      <4>3. book'[s] \in Seq(E)
        BY <2>1, <4>1
      <4>4. book'[s] \in Seq(F)
        BY <4>2, <4>3, SeqOfMore
      <4>5. QED
        BY <4>1, <4>4
    <3>2. book' = [s \in Sides |-> book'[s]]
      BY <1>4
    <3>3. QED
      BY <3>1, <3>2
  <2>3. QED
    BY <1>3, <1>5, <2>1, <2>2, NewQueues
<1>16. LogOK'
  <2>1. handled' => out' = <<>>
    BY <1>4
  <2>2. QED
    BY <1>3, <1>5, <1>6, <2>1 DEF LogOK
<1>17. FlagsOK' /\ term <= term' /\ matches <= matches' /\ DOMAIN rows \subseteq DOMAIN rows'
  <2>1. handled' \in BOOLEAN /\ matches' \in Nat
    <3>1. handled' = FALSE \/ handled' = TRUE
      BY <1>4
    <3>2. matches' \in Nat
      BY <1>3, <1>4 DEF FlagsOK
    <3>3. QED
      BY <3>1, <3>2
  <2>2. FlagsOK'
    BY <1>3, <1>5, <2>1 DEF FlagsOK
  <2>3. QED
    BY <1>3, <1>4, <1>5, <2>2 DEF FlagsOK
<1>18. EventsOK'
  <2>1. CASE out' = <<Settlement(o, fills, left)>>
    <3>1. PICK e : e = [kind |-> "settle", id |-> matches + 1, taker |-> o, fills |-> fills,
                        left |-> left, token |-> term]
      OBVIOUS
    <3>2. /\ e.kind = "settle" /\ e.id = matches + 1 /\ e.taker = o /\ e.fills = fills
          /\ e.left = left /\ e.token = term
      BY <3>1
    <3>3. e \in SettleEvent
      <4>1. fills \in Fillings
        BY <1>10, <1>14 DEF Fillings
      <4>2. matches + 1 \in Nat /\ term \in Nat
        BY <1>3 DEF FlagsOK
      <4>3. QED
        BY <1>8, <1>13, <3>1, <4>1, <4>2 DEF SettleEvent
    <3>4. Fits(e)'
      <4>1. e.token \in 0..term' /\ e.id \in 1..matches'
        BY <1>3, <1>4, <1>5, <3>2 DEF FlagsOK
      <4>2. e.taker \in DOMAIN rows' /\ DOMAIN e.fills \subseteq DOMAIN rows' \ {e.taker}
        BY <1>5, <1>6, <1>10, <1>14, <3>2
      <4>3. QED
        BY <3>2, <3>3, <4>1, <4>2 DEF Fits, Event
    <3>5. out' = <<e>>
      BY <2>1, <3>1 DEF Settlement
    <3>6. out' \in Seq(Event) /\ Len(out') = 1 /\ ToSet(out') = {e}
      BY <3>3, <3>5, OneEvent DEF Event
    <3>7. Reported' \subseteq Reported \cup {e}
      BY <1>5, <3>6 DEF Reported
    <3>8. \A x \in Reported' : Fits(x)'
      <4> SUFFICES ASSUME NEW x \in Reported' PROVE Fits(x)'
        OBVIOUS
      <4>1. CASE x = e
        BY <3>4, <4>1
      <4>2. CASE x # e
        <5>1. Fits(x)
          BY <1>3, <3>7, <4>2 DEF EventsOK
        <5>2. term \in Nat /\ term' \in Nat /\ matches \in Nat /\ matches' \in Nat
          BY <1>3, <1>17 DEF FlagsOK
        <5>3. QED
          BY <1>17, <5>1, <5>2, FitsLater
      <4>3. QED
        BY <4>1, <4>2
    <3>9. QED
      BY <1>3, <1>5, <3>6, <3>8 DEF EventsOK
  <2>2. CASE out' = <<>>
    BY <1>3, <1>5, <1>17, <2>2, DropEvent
  <2>3. QED
    BY <1>4, <2>1, <2>2
<1>19. RowsOK'
  BY <1>3, <1>5, SameRows
<1>20. QED
  BY <1>5, <1>15, <1>16, <1>17, <1>18, <1>19, SameData DEF RecoveryInv

\* The handler of a cancellation takes the order out of the book, if it rests there.
LEMMA HandleCancelKeeps ==
  ASSUME RecoveryInv, HandleCancel
  PROVE  RecoveryInv'
<1>1. PICK o, side, k : /\ o = Record.order /\ side = rows[o].req.side
                        /\ k = EntryOf(book[side], o)
  OBVIOUS
<1>2. /\ RowsOK /\ LogOK /\ BookOK /\ EventsOK /\ FlagsOK
  BY DEF RecoveryInv
<1>3. \/ /\ k # 0
         /\ book' = [book EXCEPT ![side] = RemoveAt(@, k)]
         /\ out' = <<[kind |-> "canceled", order |-> o, token |-> term]>>
         /\ handled' = FALSE
      \/ handled' = TRUE /\ UNCHANGED <<book, out>>
  BY <1>1 DEF HandleCancel
<1>4. UNCHANGED <<rows, created, outbox, trades, orders, committed, pos, retries, leader, term,
                  settlements, matches, givenUp, clean, restored>>
  BY DEF HandleCancel, dbVars, logVars, historyVars
<1>5. o \in DOMAIN rows /\ pos <= Len(orders) /\ out = <<>> /\ leader = "serving"
  BY <1>1, RecordFields DEF HandleCancel
<1>6. side \in Sides /\ o \in OrderIds
  BY <1>1, <1>2, <1>5, RowFields
<1>7. LogOK'
  <2>1. handled' => out' = <<>>
    BY <1>3, <1>5
  <2>2. QED
    BY <1>2, <1>4, <1>5, <2>1 DEF LogOK
<1>8. FlagsOK' /\ term <= term' /\ matches <= matches' /\ DOMAIN rows \subseteq DOMAIN rows'
  <2>1. handled' \in BOOLEAN
    BY <1>3
  <2>2. FlagsOK'
    BY <1>2, <1>4, <2>1 DEF FlagsOK
  <2>3. QED
    BY <1>2, <1>4, <2>2 DEF FlagsOK
<1>9. BookOK' /\ EventsOK'
  <2>1. CASE UNCHANGED <<book, out>>
    BY <1>2, <1>4, <1>8, <2>1, SameBook, SameEvents
  <2>2. CASE /\ k # 0
             /\ book' = [book EXCEPT ![side] = RemoveAt(@, k)]
             /\ out' = <<[kind |-> "canceled", order |-> o, token |-> term]>>
    <3>1. PICK queue, E, F : /\ queue = book[side] /\ E = [id : Of(side), qty : Int \ {0}]
                             /\ F = [id : DOMAIN rows, qty : Int]
      OBVIOUS
    <3>2. queue \in Seq(E) /\ queue \in Seq(F)
      BY <1>2, <1>6, <3>1 DEF BookOK
    <3>3. k \in DOMAIN queue
      BY <1>1, <2>2, <3>1, <3>2, EntryIsPosition
    <3>4. RemoveAt(queue, k) \in Seq(E) /\ RemoveAt(queue, k) \in Seq(F)
      BY <3>2, <3>3, RemovedIsSeq
    <3>5. \A s \in Sides : book'[s] \in Seq([id : Of(s), qty : Int \ {0}])
      <4> SUFFICES ASSUME NEW s \in Sides PROVE book'[s] \in Seq([id : Of(s), qty : Int \ {0}])
        OBVIOUS
      <4>1. CASE s = side
        BY <1>2, <1>6, <2>2, <3>1, <3>4, <4>1 DEF BookOK
      <4>2. CASE s # side
        BY <1>2, <2>2, <4>2 DEF BookOK
      <4>3. QED
        BY <4>1, <4>2
    <3>6. book' \in [Sides -> Seq([id : DOMAIN rows, qty : Int])]
      <4>1. book \in [Sides -> Seq(F)]
        BY <1>2, <3>1 DEF BookOK
      <4>2. book' \in [Sides -> Seq(F)]
        BY <2>2, <3>1, <3>4, <4>1
      <4>3. QED
        BY <3>1, <4>2
    <3>7. BookOK'
      BY <1>2, <1>4, <3>5, <3>6, NewQueues
    <3>8. PICK e : e = [kind |-> "canceled", order |-> o, token |-> term]
      OBVIOUS
    <3>9. e \in CanceledEvent /\ e.kind = "canceled" /\ e.token = term /\ e.order = o
      BY <1>2, <1>6, <3>8 DEF CanceledEvent, FlagsOK
    <3>10. Fits(e)'
      <4>1. e.token \in 0..term' /\ e.order \in DOMAIN rows'
        BY <1>2, <1>4, <1>5, <3>9 DEF FlagsOK
      <4>2. QED
        BY <3>9, <4>1 DEF Fits, Event
    <3>11. out' \in Seq(Event) /\ Len(out') = 1 /\ ToSet(out') = {e}
      BY <2>2, <3>8, <3>9, OneEvent DEF Event
    <3>12. Reported' \subseteq Reported \cup {e}
      BY <1>4, <3>11 DEF Reported
    <3>13. \A x \in Reported' : Fits(x)'
      <4> SUFFICES ASSUME NEW x \in Reported' PROVE Fits(x)'
        OBVIOUS
      <4>1. CASE x = e
        BY <3>10, <4>1
      <4>2. CASE x # e
        <5>1. Fits(x)
          BY <1>2, <3>12, <4>2 DEF EventsOK
        <5>2. term \in Nat /\ term' \in Nat /\ matches \in Nat /\ matches' \in Nat
          BY <1>2, <1>8 DEF FlagsOK
        <5>3. QED
          BY <1>8, <5>1, <5>2, FitsLater
      <4>3. QED
        BY <4>1, <4>2
    <3>14. QED
      BY <1>2, <1>4, <3>7, <3>11, <3>13 DEF EventsOK
  <2>3. QED
    BY <1>3, <2>1, <2>2
<1>10. RowsOK'
  BY <1>2, <1>4, SameRows
<1>11. QED
  BY <1>4, <1>7, <1>8, <1>9, <1>10, SameData DEF RecoveryInv

\* The event the handler has to publish.
LEMMA OutEvent ==
  ASSUME RecoveryInv, out # <<>>
  PROVE  out[1] \in Event /\ Fits(out[1]) /\ pos <= Len(orders)
<1>1. out \in Seq(Event)
  BY DEF RecoveryInv, EventsOK
<1>2. 1 \in DOMAIN out /\ out[1] \in Event
  BY <1>1
<1>3. out[1] \in Reported
  BY <1>2 DEF Reported, ToSet
<1>4. pos <= Len(orders)
  BY DEF RecoveryInv, LogOK, Idle
<1>5. QED
  BY <1>2, <1>3, <1>4 DEF RecoveryInv, EventsOK

\* The prepared event is published, with its token or, while the leader leaves, with 0.
LEMMA PublishKeeps ==
  ASSUME RecoveryInv, Publish
  PROVE  RecoveryInv'
<1>1. PICK old : old = out[1]
  OBVIOUS
<1>2. PICK token \in {old.token} \cup (IF leader = "leaving" THEN {0} ELSE {}) :
        settlements' = Append(settlements, [old EXCEPT !.token = token])
  BY <1>1 DEF Publish
<1>3. out # <<>> /\ out' = <<>> /\ handled' = TRUE /\ leader # "down"
  BY DEF Publish
<1>4. UNCHANGED <<rows, created, outbox, trades, orders, committed, pos, book, retries, leader, term,
                  matches, givenUp, clean, restored>>
  BY DEF Publish, dbVars, logVars, historyVars
<1>5. /\ RowsOK /\ LogOK /\ BookOK /\ EventsOK /\ FlagsOK
  BY DEF RecoveryInv
<1>6. old \in Event /\ Fits(old) /\ pos <= Len(orders)
  BY <1>1, <1>3, OutEvent
<1>7. PICK e : e = [old EXCEPT !.token = token]
  OBVIOUS
<1>8. term \in Nat
  BY <1>5 DEF FlagsOK
<1>9. old.token \in 0..term /\ token \in 0..term
  BY <1>2, <1>6, <1>8 DEF Fits
<1>10. e \in Event /\ e.token = token /\ e.kind = old.kind
       /\ (e.kind = "canceled" => e.order = old.order)
       /\ (e.kind = "settle" => e.id = old.id /\ e.taker = old.taker /\ e.fills = old.fills)
  <2>1. token \in Nat
    BY <1>8, <1>9
  <2>2. CASE old \in CanceledEvent
    BY <1>7, <2>1, <2>2 DEF CanceledEvent, Event
  <2>3. CASE old \in SettleEvent
    BY <1>7, <2>1, <2>3 DEF SettleEvent, Event
  <2>4. QED
    BY <1>6, <2>2, <2>3 DEF Event
<1>11. Fits(e)'
  BY <1>4, <1>6, <1>9, <1>10 DEF Fits
<1>12. LogOK'
  BY <1>3, <1>4, <1>5, <1>6 DEF LogOK
<1>13. FlagsOK' /\ term <= term' /\ matches <= matches' /\ DOMAIN rows \subseteq DOMAIN rows'
  <2>1. FlagsOK'
    BY <1>3, <1>4, <1>5 DEF FlagsOK
  <2>2. QED
    BY <1>4, <1>5, <2>1 DEF FlagsOK
<1>14. EventsOK'
  <2>1. settlements' = Append(settlements, e) /\ settlements \in Seq(Event)
    BY <1>2, <1>5, <1>7 DEF EventsOK
  <2>2. settlements' \in Seq(Event) /\ ToSet(settlements') = ToSet(settlements) \cup {e}
    BY <1>10, <2>1, SetOfAppend
  <2>3. Reported' \subseteq Reported \cup {e}
    <3>1. ToSet(out') = {}
      BY <1>3 DEF ToSet
    <3>2. QED
      BY <1>4, <2>2, <3>1 DEF Reported
  <2>4. \A x \in Reported' : Fits(x)'
    <3> SUFFICES ASSUME NEW x \in Reported' PROVE Fits(x)'
      OBVIOUS
    <3>1. CASE x = e
      BY <1>11, <3>1
    <3>2. CASE x # e
      <4>1. Fits(x)
        BY <1>5, <2>3, <3>2 DEF EventsOK
      <4>2. term \in Nat /\ term' \in Nat /\ matches \in Nat /\ matches' \in Nat
        BY <1>5, <1>13 DEF FlagsOK
      <4>3. QED
        BY <1>13, <4>1, <4>2, FitsLater
    <3>3. QED
      BY <3>1, <3>2
  <2>5. out' \in Seq(Event) /\ Len(out') <= 1
    BY <1>3
  <2>6. QED
    BY <1>4, <1>5, <2>2, <2>4, <2>5 DEF EventsOK
<1>15. RowsOK' /\ BookOK'
  BY <1>4, <1>5, SameRows, SameBook
<1>16. QED
  BY <1>4, <1>12, <1>13, <1>14, <1>15, SameData DEF RecoveryInv

\* The handled record is committed, and the consumer goes on.
LEMMA CommitOffsetKeeps ==
  ASSUME RecoveryInv, CommitOffset
  PROVE  RecoveryInv'
<1>1. handled /\ committed' = pos + 1 /\ pos' = pos + 1 /\ handled' = FALSE /\ leader # "down"
  BY DEF CommitOffset
<1>2. UNCHANGED <<rows, created, outbox, trades, orders, book, out, retries, leader, term,
                  settlements, matches, givenUp, clean, restored>>
  BY DEF CommitOffset, dbVars, historyVars
<1>3. /\ RowsOK /\ LogOK /\ BookOK /\ EventsOK /\ FlagsOK
  BY DEF RecoveryInv
<1>4. pos <= Len(orders)
  BY <1>1, <1>3 DEF LogOK, Idle
<1>5. out = <<>>
  BY <1>1, <1>3 DEF LogOK
<1>6. LogOK'
  BY <1>1, <1>2, <1>3, <1>4, <1>5 DEF LogOK, Idle
<1>7. FlagsOK' /\ term <= term' /\ matches <= matches' /\ DOMAIN rows \subseteq DOMAIN rows'
  <2>1. FlagsOK'
    BY <1>1, <1>2, <1>3 DEF FlagsOK
  <2>2. QED
    BY <1>2, <1>3, <2>1 DEF FlagsOK
<1>8. EventsOK'
  BY <1>2, <1>3, <1>7, SameEvents
<1>9. RowsOK' /\ BookOK'
  BY <1>2, <1>3, SameRows, SameBook
<1>10. QED
  BY <1>2, <1>6, <1>7, <1>8, <1>9, SameData DEF RecoveryInv

\* A commit that fails: the record is handled once more.
LEMMA CommitFailsKeeps ==
  ASSUME RecoveryInv, CommitFails
  PROVE  RecoveryInv'
<1>1. handled /\ Repeats < MaxDuplicates /\ retries' = retries + 1 /\ handled' = FALSE
      /\ clean' = FALSE
  BY DEF CommitFails
<1>2. UNCHANGED <<rows, created, outbox, trades, orders, committed, pos, book, out, leader, term,
                  settlements, matches, givenUp, restored>>
  BY DEF CommitFails, dbVars, logVars
<1>3. /\ RowsOK /\ LogOK /\ BookOK /\ EventsOK /\ FlagsOK
  BY DEF RecoveryInv
<1>4. LogOK'
  BY <1>1, <1>2, <1>3 DEF LogOK, Idle
<1>5. retries < MaxDuplicates
  <2>1. PICK n, c : n = Len(orders) /\ c = Cardinality(ToSet(orders))
    OBVIOUS
  <2>2. n \in Nat /\ DOMAIN orders = 1..n
    BY <1>3, <2>1 DEF LogOK
  <2>3. PICK f : f = [k \in 1..n |-> orders[k]]
    OBVIOUS
  <2>4. f \in Surjection(1..n, ToSet(orders))
    BY <2>2, <2>3 DEF Surjection, ToSet
  <2>5. IsFiniteSet(1..n) /\ Cardinality(1..n) = n
    BY <2>2, FS_Interval
  <2>6. IsFiniteSet(ToSet(orders)) /\ c <= n
    BY <2>1, <2>4, <2>5, FS_Surjection
  <2>7. c \in Nat /\ retries \in Nat
    BY <1>3, <2>1, <2>6, FS_CardinalityType DEF FlagsOK
  <2>8. Repeats = n - c + retries
    BY <2>1 DEF Repeats
  <2>9. QED
    BY <1>1, <2>2, <2>6, <2>7, <2>8, BoundsAssumption
<1>6. FlagsOK' /\ term <= term' /\ matches <= matches' /\ DOMAIN rows \subseteq DOMAIN rows'
  <2>1. retries' \in 0..MaxDuplicates
    BY <1>1, <1>3, <1>5, BoundsAssumption DEF FlagsOK
  <2>2. FlagsOK'
    BY <1>1, <1>2, <1>3, <2>1 DEF FlagsOK
  <2>3. QED
    BY <1>2, <1>3, <2>2 DEF FlagsOK
<1>7. EventsOK'
  BY <1>2, <1>3, <1>6, SameEvents
<1>8. RowsOK' /\ BookOK'
  BY <1>2, <1>3, SameRows, SameBook
<1>9. QED
  BY <1>2, <1>4, <1>6, <1>7, <1>8, SameData DEF RecoveryInv

-----------------------------------------------------------------------------
(* The steps of a change of leader *)

\* A leader that loses its lease goes on with its handler.
LEMMA StepDownKeeps ==
  ASSUME RecoveryInv, StepDown
  PROVE  RecoveryInv'
<1>1. leader' = "leaving"
  BY DEF StepDown
<1>2. UNCHANGED <<rows, created, outbox, trades, orders, committed, pos, book, out, handled, retries,
                  term, settlements, matches, givenUp, clean, restored>>
  BY DEF StepDown, dbVars, logVars, historyVars
<1>3. /\ RowsOK /\ LogOK /\ BookOK /\ EventsOK /\ FlagsOK
  BY DEF RecoveryInv
<1>4. FlagsOK' /\ term <= term' /\ matches <= matches' /\ DOMAIN rows \subseteq DOMAIN rows'
  <2>1. FlagsOK'
    BY <1>1, <1>2, <1>3 DEF FlagsOK
  <2>2. QED
    BY <1>2, <1>3, <2>1 DEF FlagsOK
<1>5. EventsOK'
  BY <1>2, <1>3, <1>4, SameEvents
<1>6. RowsOK' /\ BookOK' /\ LogOK'
  BY <1>1, <1>2, <1>3, SameRows, SameBook, SameLog
<1>7. QED
  BY <1>2, <1>4, <1>5, <1>6, SameData DEF RecoveryInv

\* A record that meets no token counts as handled, and is then committed.
LEMMA SkipRecordKeeps ==
  ASSUME RecoveryInv, SkipRecord
  PROVE  RecoveryInv'
<1>1. Idle /\ pos <= Len(orders) /\ handled' = TRUE /\ clean' = FALSE /\ leader = "leaving"
  BY DEF SkipRecord
<1>2. UNCHANGED <<rows, created, outbox, trades, orders, committed, pos, book, out, retries, leader,
                  term, settlements, matches, givenUp, restored>>
  BY DEF SkipRecord, dbVars, logVars
<1>3. /\ RowsOK /\ LogOK /\ BookOK /\ EventsOK /\ FlagsOK
  BY DEF RecoveryInv
<1>4. FlagsOK' /\ term <= term' /\ matches <= matches' /\ DOMAIN rows \subseteq DOMAIN rows'
  <2>1. FlagsOK'
    BY <1>1, <1>2, <1>3 DEF FlagsOK
  <2>2. QED
    BY <1>2, <1>3, <2>1 DEF FlagsOK
<1>5. EventsOK'
  BY <1>2, <1>3, <1>4, SameEvents
<1>6. LogOK'
  BY <1>1, <1>2, <1>3 DEF LogOK, Idle
<1>7. RowsOK' /\ BookOK'
  BY <1>2, <1>3, SameRows, SameBook
<1>8. QED
  BY <1>2, <1>4, <1>5, <1>6, <1>7, SameData DEF RecoveryInv

\* A leader that is gone publishes nothing.
LEMMA DownKeeps ==
  ASSUME RecoveryInv, CancelConsumer \/ Crash
  PROVE  RecoveryInv'
<1>1. leader' = "down" /\ out' = <<>> /\ handled' = FALSE
  BY DEF CancelConsumer, Crash
<1>2. UNCHANGED <<rows, created, outbox, trades, orders, committed, pos, book, retries, term,
                  settlements, matches, clean, restored>>
  BY DEF CancelConsumer, Crash, dbVars, logVars, historyVars
<1>3. /\ RowsOK /\ LogOK /\ BookOK /\ EventsOK /\ FlagsOK
  BY DEF RecoveryInv
<1>4. FlagsOK' /\ term <= term' /\ matches <= matches' /\ DOMAIN rows \subseteq DOMAIN rows'
  <2>1. givenUp' \subseteq DOMAIN rows
    BY <1>3 DEF CancelConsumer, Crash, historyVars, FlagsOK
  <2>2. FlagsOK'
    BY <1>1, <1>2, <1>3, <2>1 DEF FlagsOK
  <2>3. QED
    BY <1>2, <1>3, <2>2 DEF FlagsOK
<1>5. EventsOK'
  BY <1>1, <1>2, <1>3, <1>4, DropEvent
<1>6. LogOK'
  BY <1>1, <1>2, <1>3 DEF LogOK, Idle
<1>7. RowsOK' /\ BookOK'
  BY <1>2, <1>3, SameRows, SameBook
<1>8. QED
  BY <1>2, <1>4, <1>5, <1>6, <1>7, SameData DEF RecoveryInv

\* A restored queue is one of open orders, of which none is filled exactly.
LEMMA RestoredEntry ==
  ASSUME RowsOK, NEW side \in Sides, NEW o \in ActiveOf(side)
  PROVE  /\ o \in DOMAIN rows /\ Active(o) /\ rows[o].req.side = side
         /\ Restored(o) \in [id : Of(side), qty : Int \ {0}]
         /\ Restored(o).id = o /\ Restored(o).qty = rows[o].req.qty - rows[o].filled
<1>1. o \in DOMAIN rows /\ Active(o) /\ rows[o].req.side = side
  BY DEF ActiveOf
<1>2. rows[o].filled \in Int /\ rows[o].req.qty \in Int /\ rows[o].filled # rows[o].req.qty
  BY <1>1, RowFields DEF RowsOK
<1>3. PICK q : q = rows[o].req.qty - rows[o].filled
  OBVIOUS
<1>4. q \in Int \ {0} /\ o \in Of(side)
  BY <1>1, <1>2, <1>3 DEF Of
<1>5. QED
  BY <1>1, <1>3, <1>4 DEF Restored

\* Reset leaves queues without orders; what is restored lists each open order once.
LEMMA RestoredQueue ==
  ASSUME RowsOK, NEW side \in Sides, RestoreBook
  PROVE  LET q == book'[side] IN
         /\ q \in Seq([id : Of(side), qty : Int \ {0}])
         /\ DOMAIN q = 1..Len(q) /\ Len(q) \in Nat
         /\ \A k \in DOMAIN q : \E o \in ActiveOf(side) : q[k] = Restored(o)
         /\ \A o \in ActiveOf(side) : \E k \in DOMAIN q : q[k] = Restored(o)
         /\ \A j, k \in DOMAIN q : q[j].id = q[k].id => j = k
<1>1. PICK all :
        /\ \A s \in Sides : all[s] \in InOrder(ActiveOf(s))
        /\ book' = [s \in Sides |-> [k \in DOMAIN all[s] |-> Restored(all[s][k])]]
  BY DEF RestoreBook
<1>2. PICK A, n, ids, q : /\ A = ActiveOf(side) /\ n = Cardinality(A) /\ ids = all[side]
                          /\ q = book'[side]
  OBVIOUS
<1>3. IsFiniteSet(A) /\ n \in Nat
  <2>1. A \subseteq DOMAIN rows
    BY <1>2 DEF ActiveOf
  <2>2. IsFiniteSet(A)
    BY <2>1, FS_Subset DEF RowsOK
  <2>3. QED
    BY <1>2, <2>2, FS_CardinalityType
<1>4. /\ ids \in [1..n -> A]
      /\ \A j, k \in 1..n : ids[j] = ids[k] => j = k
      /\ \A o \in A : \E k \in 1..n : ids[k] = o
  <2>1. ids \in Bijection(1..n, A)
    BY <1>1, <1>2 DEF InOrder
  <2>2. QED
    BY <2>1 DEF Bijection, Injection, Surjection, IsInjective
<1>5. q = [k \in 1..n |-> Restored(ids[k])]
  BY <1>1, <1>2, <1>4
<1>6. PICK E : E = [id : Of(side), qty : Int \ {0}]
  OBVIOUS
<1>7. \A o \in A : Restored(o) \in E /\ Restored(o).id = o
  BY <1>2, <1>6, RestoredEntry
<1>8. q \in Seq(E) /\ DOMAIN q = 1..n /\ Len(q) = n
  BY <1>3, <1>4, <1>5, <1>7
<1>9. \A k \in 1..n : q[k] = Restored(ids[k]) /\ ids[k] \in A /\ q[k].id = ids[k]
  BY <1>4, <1>5, <1>7
<1>10. \A o \in A : \E k \in 1..n : q[k] = Restored(o)
  BY <1>4, <1>9
<1>11. \A j, k \in 1..n : q[j].id = q[k].id => j = k
  BY <1>4, <1>9
<1>12. QED
  BY <1>2, <1>3, <1>6, <1>8, <1>9, <1>10, <1>11

\* The new leader restores its book from the rows.
LEMMA TakeOverKeeps ==
  ASSUME RecoveryInv, TakeOver
  PROVE  RecoveryInv'
<1>1. /\ leader = "down" /\ term < MaxTerm /\ term' = term + 1 /\ leader' = "serving"
      /\ RestoreBook \/ RestoreFails
      /\ restored' \in BOOLEAN /\ pos' = committed /\ clean' = (clean /\ AllHandled)
  BY DEF TakeOver, NewTerm
<1>2. UNCHANGED <<rows, created, outbox, trades, orders, committed, out, handled, retries,
                  settlements, matches, givenUp>>
  BY DEF TakeOver, dbVars, logVars
<1>3. /\ RowsOK /\ LogOK /\ BookOK /\ EventsOK /\ FlagsOK
  BY DEF RecoveryInv
<1>4. FlagsOK' /\ term <= term' /\ matches <= matches' /\ DOMAIN rows \subseteq DOMAIN rows'
  <2>1. clean' \in BOOLEAN
    BY <1>1
  <2>2. term' \in 1..MaxTerm /\ term <= term'
    BY <1>1, <1>3, BoundsAssumption DEF FlagsOK
  <2>3. FlagsOK'
    BY <1>1, <1>2, <1>3, <2>1, <2>2 DEF FlagsOK
  <2>4. QED
    BY <1>2, <1>3, <2>2, <2>3 DEF FlagsOK
<1>5. EventsOK'
  BY <1>2, <1>3, <1>4, SameEvents
<1>6. LogOK'
  <2>1. out' = <<>> /\ handled' = FALSE
    <3>1. handled \in BOOLEAN
      BY <1>3 DEF FlagsOK
    <3>2. QED
      BY <1>1, <1>2, <1>3, <3>1 DEF LogOK, Idle
  <2>2. committed' \in 1..pos' /\ pos' \in 1..(Len(orders') + 1)
    <3>1. Len(orders) \in Nat
      BY <1>3 DEF LogOK
    <3>2. QED
      BY <1>1, <1>2, <1>3, <3>1 DEF LogOK
  <2>3. QED
    BY <1>2, <1>3, <2>1, <2>2 DEF LogOK, Idle
<1>7. BookOK'
  <2>1. ASSUME NEW side \in Sides PROVE book'[side] \in Seq([id : Of(side), qty : Int \ {0}])
    <3>1. CASE RestoreBook
      BY <1>3, <3>1, RestoredQueue
    <3>2. CASE RestoreFails
      BY <3>2 DEF RestoreFails
    <3>3. QED
      BY <1>1, <3>1, <3>2
  <2>2. book' \in [Sides -> Seq([id : DOMAIN rows, qty : Int])]
    <3>1. \A side \in Sides : book'[side] \in Seq([id : DOMAIN rows, qty : Int])
      <4> SUFFICES ASSUME NEW side \in Sides
                   PROVE  book'[side] \in Seq([id : DOMAIN rows, qty : Int])
        OBVIOUS
      <4>1. PICK E, F : E = [id : Of(side), qty : Int \ {0}] /\ F = [id : DOMAIN rows, qty : Int]
        OBVIOUS
      <4>2. E \subseteq F
        BY <4>1 DEF Of
      <4>3. book'[side] \in Seq(E)
        BY <2>1, <4>1
      <4>4. book'[side] \in Seq(F)
        BY <4>2, <4>3, SeqOfMore
      <4>5. QED
        BY <4>1, <4>4
    <3>2. book' = [side \in Sides |-> book'[side]]
      <4>1. CASE RestoreBook
        BY <4>1 DEF RestoreBook
      <4>2. CASE RestoreFails
        BY <4>2 DEF RestoreFails
      <4>3. QED
        BY <1>1, <4>1, <4>2
    <3>3. QED
      BY <3>1, <3>2
  <2>3. QED
    BY <1>2, <1>3, <2>1, <2>2, NewQueues
<1>8. RowsOK'
  BY <1>2, <1>3, SameRows
<1>9. QED
  BY <1>2, <1>4, <1>5, <1>6, <1>7, <1>8, SameData DEF RecoveryInv

-----------------------------------------------------------------------------
(* The settlement consumer *)

\* The event that the consumer has before it.
LEMMA NextEvent ==
  ASSUME RecoveryInv, settlements # <<>>
  PROVE  /\ Next1 \in Event /\ Fits(Next1) /\ Next1 \in Reported
         /\ Tail(settlements) \in Seq(Event) /\ ToSet(Tail(settlements)) \subseteq ToSet(settlements)
<1>1. settlements \in Seq(Event)
  BY DEF RecoveryInv, EventsOK
<1>2. /\ Tail(settlements) \in Seq(Event) /\ ToSet(Tail(settlements)) \subseteq ToSet(settlements)
      /\ Next1 \in ToSet(settlements) /\ Next1 \in Event
  BY <1>1, SetOfTail DEF Next1
<1>3. Next1 \in Reported
  BY <1>2 DEF Reported
<1>4. QED
  BY <1>2, <1>3 DEF RecoveryInv, EventsOK

\* What a settlement adds to what an order has filled.
PartOf(t, o) == (IF t.taker = o THEN Total(t.fills) ELSE 0)
                + (IF o \in DOMAIN t.fills THEN t.fills[o] ELSE 0)

\* It is a number, and positive numbers add up to one.
LEMMA PartIsInt ==
  ASSUME NEW t \in SettleEvent, NEW o
  PROVE  /\ Total(t.fills) \in Int /\ PartOf(t, o) \in Int
         /\ (\A m \in DOMAIN t.fills : t.fills[m] > 0) => PartOf(t, o) \in Nat /\ Total(t.fills) \in Nat
         /\ (\A m \in DOMAIN t.fills : t.fills[m] > 0) /\ DOMAIN t.fills # {} => Total(t.fills) > 0
         /\ DOMAIN t.fills = {} => Total(t.fills) = 0
<1>1. PICK f, S, n : f = t.fills /\ S = DOMAIN f /\ n = Total(f)
  OBVIOUS
<1>2. IsFiniteSet(S) /\ \A m \in S : f[m] \in Int
  <2>1. t \in Event /\ t.kind = "settle"
    BY DEF Event, SettleEvent
  <2>2. QED
    BY <1>1, <2>1, EventFields
<1>3. n = SumFunctionOnSet(f, S)
  BY <1>1 DEF Total, SumFunction
<1>4. n \in Int
  BY <1>2, <1>3, SumInt DEF IntOn
<1>5. ASSUME \A m \in S : f[m] > 0 PROVE n \in Nat /\ (S # {} => n > 0)
  <2>1. \A m \in S : f[m] \in Nat
    BY <1>2, <1>5
  <2>2. n \in Nat
    BY <1>2, <1>3, <2>1, SumNat
  <2>3. ASSUME NEW m \in S PROVE n > 0
    <3>1. f[m] <= n
      BY <1>2, <1>3, <2>1, <2>3, SumMember
    <3>2. QED
      BY <1>4, <1>5, <2>1, <2>3, <3>1
  <2>4. QED
    BY <2>2, <2>3
<1>6. S = {} => n = 0
  BY <1>3, SumEmpty
<1>7. PartOf(t, o) = (IF t.taker = o THEN n ELSE 0) + (IF o \in S THEN f[o] ELSE 0)
  BY <1>1 DEF PartOf
<1>8. PartOf(t, o) \in Int
  BY <1>2, <1>4, <1>7
<1>9. (\A m \in S : f[m] > 0) => PartOf(t, o) \in Nat
  BY <1>2, <1>5, <1>7
<1>10. QED
  BY <1>1, <1>4, <1>5, <1>6, <1>8, <1>9

\* What was traded is the sum of these parts.
LEMMA TradedIsSum ==
  ASSUME EventsOK, NEW o, NEW f, f = [t \in trades |-> PartOf(t, o)]
  PROVE  /\ TradedBy(o) = SumFunctionOnSet(f, trades)
         /\ IntOn(f, trades)
         /\ AllPositive(trades) => TradedBy(o) \in Nat
<1>1. TradedBy(o) = SumFunctionOnSet(f, trades)
  BY DEF TradedBy, PartOf, SumFunction
<1>2. trades \subseteq SettleEvent /\ IsFiniteSet(trades)
  BY DEF EventsOK
<1>3. IntOn(f, trades)
  BY <1>2, PartIsInt DEF IntOn
<1>4. ASSUME AllPositive(trades) PROVE TradedBy(o) \in Nat
  <2>1. \A t \in trades : f[t] \in Nat
    BY <1>2, <1>4, PartIsInt DEF AllPositive
  <2>2. QED
    BY <1>1, <1>2, <2>1, SumNat
<1>5. QED
  BY <1>1, <1>3, <1>4

\* The settlement is written.
Writes(e) ==
  /\ e \in SettleEvent /\ Fits(e) /\ e \in Reported /\ ~Settled(e)
  /\ rows' = [o \in DOMAIN rows |->
                 IF o = e.taker THEN TakerRow(e)
                 ELSE IF o \in DOMAIN e.fills THEN MakerRow(o, e.fills[o])
                 ELSE rows[o]]
  /\ trades' = IF DOMAIN e.fills = {} THEN trades ELSE trades \cup {e}

\* The rows it leaves.
LEMMA WrittenRows ==
  ASSUME RecoveryInv, NEW e, Writes(e)
  PROVE  /\ DOMAIN rows' = DOMAIN rows
         /\ \A o \in DOMAIN rows :
              /\ rows'[o] \in OrderRow
              /\ rows'[o].req = rows[o].req
              /\ rows'[o].filled = rows[o].filled + PartOf(e, o)
              /\ o = e.taker => rows'[o].status = TakerRow(e).status
              /\ o \in DOMAIN e.fills => rows'[o].status = MakerRow(o, e.fills[o]).status
              /\ o # e.taker /\ o \notin DOMAIN e.fills => rows'[o] = rows[o]
<1>1. DOMAIN rows' = DOMAIN rows
  BY DEF Writes
<1>2. e \in SettleEvent /\ e.taker \in DOMAIN rows /\ e.taker \notin DOMAIN e.fills
      /\ \A o \in DOMAIN e.fills : e.fills[o] \in Int
  <2>1. e \in SettleEvent /\ e.kind = "settle" /\ Fits(e) /\ e \in Event
    BY DEF Writes, SettleEvent, Event
  <2>2. QED
    BY <2>1, EventFields DEF Fits
<1>3. ASSUME NEW o \in DOMAIN rows
      PROVE  /\ rows'[o] \in OrderRow
             /\ rows'[o].req = rows[o].req
             /\ rows'[o].filled = rows[o].filled + PartOf(e, o)
             /\ o = e.taker => rows'[o].status = TakerRow(e).status
             /\ o \in DOMAIN e.fills => rows'[o].status = MakerRow(o, e.fills[o]).status
             /\ o # e.taker /\ o \notin DOMAIN e.fills => rows'[o] = rows[o]
  <2>1. PICK r : r = rows[o]
    OBVIOUS
  <2>2. r \in OrderRow /\ r.filled \in Int
    BY <2>1, RowFields DEF RecoveryInv
  <2>3. CASE o = e.taker
    <3>1. PICK n, filled, s :
            /\ n = Total(e.fills) /\ filled = r.filled + n
            /\ s = IF r.req.type = "market" THEN IF filled = 0 THEN "canceled" ELSE "filled"
                   ELSE IF filled = r.req.qty THEN "filled"
                   ELSE IF e.left = 0 THEN "canceled"
                   ELSE IF filled > 0 THEN "partially_filled"
                   ELSE r.status
      OBVIOUS
    <3>2. rows'[o] = [r EXCEPT !.filled = filled, !.status = s]
      BY <2>1, <2>3, <3>1 DEF Writes, TakerRow
    <3>3. n \in Int /\ PartOf(e, o) = n
      BY <1>2, <2>3, <3>1, PartIsInt DEF PartOf
    <3>4. filled \in Int /\ s \in Open \cup {"filled", "canceled"}
      BY <2>2, <3>1, <3>3 DEF OrderRow, Open
    <3>5. /\ rows'[o] \in OrderRow /\ rows'[o].req = r.req /\ rows'[o].filled = filled
          /\ rows'[o].status = s
      BY <2>2, <3>2, <3>4 DEF OrderRow
    <3>6. rows'[o] = TakerRow(e)
      BY <2>3 DEF Writes
    <3>7. QED
      BY <1>2, <2>1, <2>3, <3>1, <3>3, <3>5, <3>6
  <2>4. CASE o # e.taker /\ o \in DOMAIN e.fills
    <3>1. PICK q, s : /\ q = e.fills[o]
                      /\ s = IF r.filled + q = r.req.qty THEN "filled" ELSE "partially_filled"
      OBVIOUS
    <3>2. rows'[o] = [r EXCEPT !.filled = @ + q, !.status = s]
      BY <2>1, <2>4, <3>1 DEF Writes, MakerRow
    <3>3. q \in Int /\ PartOf(e, o) = q
      BY <1>2, <2>4, <3>1 DEF PartOf
    <3>4. r.filled + q \in Int /\ s \in Open \cup {"filled", "canceled"}
      BY <2>2, <3>1, <3>3 DEF Open
    <3>5. /\ rows'[o] \in OrderRow /\ rows'[o].req = r.req /\ rows'[o].filled = r.filled + q
      BY <2>2, <3>2, <3>4 DEF OrderRow
    <3>6. rows'[o] = MakerRow(o, e.fills[o])
      BY <2>4 DEF Writes
    <3>7. QED
      BY <2>1, <2>4, <3>3, <3>5, <3>6
  <2>5. CASE o # e.taker /\ o \notin DOMAIN e.fills
    <3>1. rows'[o] = r
      BY <2>1, <2>5 DEF Writes
    <3>2. PartOf(e, o) = 0
      BY <2>5 DEF PartOf
    <3>3. QED
      BY <2>1, <2>2, <2>5, <3>1, <3>2
  <2>6. QED
    BY <2>3, <2>4, <2>5
<1>4. QED
  BY <1>1, <1>3

\* No order that is still open is filled exactly.
LEMMA WrittenRowsOK ==
  ASSUME RecoveryInv, NEW e, Writes(e), UNCHANGED <<created, outbox>>
  PROVE  RowsOK'
<1>1. RowsOK
  BY DEF RecoveryInv
<1>2. DOMAIN rows' = DOMAIN rows /\ \A o \in DOMAIN rows : rows'[o] \in OrderRow
  BY WrittenRows
<1>3. ASSUME NEW o \in DOMAIN rows, rows'[o].status \in Open, rows'[o].req.type = "limit"
      PROVE  rows'[o].filled # rows'[o].req.qty
  <2>1. PICK r, n : r = rows[o] /\ n = PartOf(e, o)
    OBVIOUS
  <2>2. /\ rows'[o].req = r.req /\ rows'[o].filled = r.filled + n
        /\ o = e.taker => rows'[o].status = TakerRow(e).status
        /\ o \in DOMAIN e.fills => rows'[o].status = MakerRow(o, e.fills[o]).status
        /\ o # e.taker /\ o \notin DOMAIN e.fills => rows'[o] = r
    BY <2>1, WrittenRows
  <2>3. r \in OrderRow
    BY <1>1, <2>1 DEF RowsOK
  <2>4. CASE o = e.taker
    <3>1. rows'[o] = TakerRow(e) /\ o \notin DOMAIN e.fills
      BY <2>4 DEF Writes, Fits, SettleEvent
    <3>2. PICK filled : filled = r.filled + Total(e.fills)
      OBVIOUS
    <3>3. PICK s :
            s = IF r.req.type = "market" THEN IF filled = 0 THEN "canceled" ELSE "filled"
                ELSE IF filled = r.req.qty THEN "filled"
                ELSE IF e.left = 0 THEN "canceled"
                ELSE IF filled > 0 THEN "partially_filled"
                ELSE r.status
      OBVIOUS
    <3>4. TakerRow(e) = [r EXCEPT !.filled = filled, !.status = s]
      BY <2>1, <2>4, <3>2, <3>3 DEF TakerRow
    <3>5. rows'[o].status = s /\ rows'[o].filled = filled /\ rows'[o].req = r.req
      BY <2>3, <3>1, <3>4 DEF OrderRow
    <3>6. QED
      BY <1>3, <3>3, <3>5 DEF Open
  <2>5. CASE o # e.taker /\ o \in DOMAIN e.fills
    <3>1. PICK q, s : /\ q = e.fills[o]
                      /\ s = IF r.filled + q = r.req.qty THEN "filled" ELSE "partially_filled"
      OBVIOUS
    <3>2. MakerRow(o, e.fills[o]) = [r EXCEPT !.filled = @ + q, !.status = s]
      BY <2>1, <3>1 DEF MakerRow
    <3>3. rows'[o] = MakerRow(o, e.fills[o])
      BY <2>5 DEF Writes
    <3>4. rows'[o].status = s /\ rows'[o].filled = r.filled + q /\ rows'[o].req = r.req
      BY <2>3, <3>2, <3>3 DEF OrderRow
    <3>5. QED
      BY <1>3, <3>1, <3>4 DEF Open
  <2>6. CASE o # e.taker /\ o \notin DOMAIN e.fills
    BY <1>1, <1>3, <2>1, <2>2, <2>6 DEF RowsOK, Active
  <2>7. QED
    BY <2>4, <2>5, <2>6
<1>4. QED
  BY <1>1, <1>2, <1>3 DEF RowsOK, Active

\* Every row has filled what was traded.
LEMMA WrittenFilled ==
  ASSUME RecoveryInv, NEW e, Writes(e)
  PROVE  FilledMatchesTrades'
<1>1. EventsOK /\ FilledMatchesTrades /\ DOMAIN rows' = DOMAIN rows /\ e \in SettleEvent
  BY WrittenRows DEF RecoveryInv, Writes
<1>2. SUFFICES ASSUME NEW o \in DOMAIN rows PROVE rows'[o].filled = TradedBy(o)'
  BY <1>1 DEF FilledMatchesTrades
<1>3. PICK f, S : S = trades' /\ f = [t \in S |-> PartOf(t, o)]
  OBVIOUS
<1>4. PICK g : g = [t \in trades |-> PartOf(t, o)]
  OBVIOUS
<1>5. TradedBy(o) = SumFunctionOnSet(g, trades) /\ IntOn(g, trades)
  BY <1>1, <1>4, TradedIsSum
<1>6. TradedBy(o)' = SumFunctionOnSet(f, S)
  BY <1>3 DEF TradedBy, PartOf, SumFunction
<1>7. rows'[o].filled = TradedBy(o) + PartOf(e, o)
  BY <1>1, WrittenRows DEF FilledMatchesTrades
<1>8. PartOf(e, o) \in Int /\ TradedBy(o) \in Int
  <2>1. IsFiniteSet(trades)
    BY <1>1 DEF EventsOK
  <2>2. QED
    BY <1>1, <1>5, <2>1, PartIsInt, SumInt
<1>9. CASE DOMAIN e.fills = {}
  <2>1. S = trades /\ f = g
    BY <1>3, <1>4, <1>9 DEF Writes
  <2>2. PartOf(e, o) = 0
    BY <1>1, <1>9, PartIsInt DEF PartOf
  <2>3. QED
    BY <1>5, <1>6, <1>7, <1>8, <2>1, <2>2
<1>10. CASE DOMAIN e.fills # {}
  <2>1. e \notin trades
    BY <1>10 DEF Writes, Settled
  <2>2. S = trades \cup {e}
    BY <1>3, <1>10 DEF Writes
  <2>3. f[e] = PartOf(e, o) /\ \A t \in trades : f[t] = g[t]
    BY <1>3, <1>4, <2>2
  <2>4. IsFiniteSet(trades)
    BY <1>1 DEF EventsOK
  <2>5. IntOn(f, trades \cup {e}) /\ IntOn(f, trades)
    BY <1>5, <1>8, <2>3 DEF IntOn
  <2>6. SumFunctionOnSet(f, trades \cup {e}) = f[e] + SumFunctionOnSet(f, trades)
    BY <2>1, <2>4, <2>5, SumAdd
  <2>7. SumFunctionOnSet(f, trades) = SumFunctionOnSet(g, trades)
    BY <1>5, <2>3, <2>4, SumSame
  <2>8. QED
    BY <1>5, <1>6, <1>7, <1>8, <2>2, <2>3, <2>6, <2>7
<1>11. QED
  BY <1>9, <1>10

\* Who takes has not taken before, and is not new afterwards.
LEMMA WrittenClaims ==
  ASSUME RecoveryInv, NEW e, Writes(e)
  PROVE  Claimed' /\ TakesOnce'
<1>1. EventsOK /\ FilledMatchesTrades /\ e \in SettleEvent /\ e.taker \in DOMAIN rows
      /\ rows[e.taker].status = "new" /\ trades \subseteq SettleEvent
      /\ DOMAIN rows' = DOMAIN rows
  BY WrittenRows DEF RecoveryInv, EventsOK, Writes, Settled, Fits, SettleEvent
<1>2. trades' = trades \/ (DOMAIN e.fills # {} /\ trades' = trades \cup {e})
  BY DEF Writes
<1>3. ASSUME AllPositive(trades')
      PROVE  /\ \A t \in trades' : rows'[t.taker].status # "new"
             /\ \A t, u \in trades' : t.taker = u.taker => t = u
  <2>1. AllPositive(trades)
    BY <1>2, <1>3 DEF AllPositive
  <2>2. \A t \in trades : rows[t.taker].status # "new" /\ t.taker # e.taker
    BY <1>1, <2>1 DEF RecoveryInv, Claimed
  <2>3. \A t, u \in trades : t.taker = u.taker => t = u
    BY <2>1 DEF RecoveryInv, TakesOnce, AllPositive
  <2>4. ASSUME NEW t \in trades PROVE rows'[t.taker].status # "new"
    <3>1. PICK o : o = t.taker
      OBVIOUS
    <3>2. o \in DOMAIN rows /\ o # e.taker /\ rows[o].status # "new"
      <4>1. Fits(t) /\ t.kind = "settle"
        BY <1>1, <2>4 DEF EventsOK, Reported, SettleEvent
      <4>2. QED
        BY <2>2, <2>4, <3>1, <4>1 DEF Fits
    <3>3. CASE o \in DOMAIN e.fills
      <4>1. rows'[o] = MakerRow(o, e.fills[o])
        BY <3>2, <3>3 DEF Writes
      <4>2. PICK r, q, s :
              /\ r = rows[o] /\ q = e.fills[o]
              /\ s = IF r.filled + q = r.req.qty THEN "filled" ELSE "partially_filled"
        OBVIOUS
      <4>3. rows'[o] = [r EXCEPT !.filled = @ + q, !.status = s]
        BY <4>1, <4>2 DEF MakerRow
      <4>4. r \in OrderRow
        BY <3>2, <4>2 DEF RecoveryInv, RowsOK
      <4>5. rows'[o].status = s
        BY <4>3, <4>4 DEF OrderRow
      <4>6. QED
        BY <3>1, <4>2, <4>5
    <3>4. CASE o \notin DOMAIN e.fills
      BY <3>1, <3>2, <3>4, WrittenRows
    <3>5. QED
      BY <3>3, <3>4
  <2>5. ASSUME DOMAIN e.fills # {}, trades' = trades \cup {e}
        PROVE  rows'[e.taker].status # "new"
    <3>1. PICK o, r, n : o = e.taker /\ r = rows[o] /\ n = Total(e.fills)
      OBVIOUS
    <3>2. n \in Int /\ n > 0
      <4>1. \A m \in DOMAIN e.fills : e.fills[m] > 0
        BY <1>3, <2>5 DEF AllPositive
      <4>2. QED
        BY <1>1, <2>5, <3>1, <4>1, PartIsInt
    <3>3. r.filled \in Nat
      <4>1. TradedBy(o) \in Nat
        <5>1. PICK f : f = [t \in trades |-> PartOf(t, o)]
          OBVIOUS
        <5>2. QED
          BY <1>1, <2>1, <5>1, TradedIsSum
      <4>2. QED
        BY <1>1, <3>1, <4>1 DEF FilledMatchesTrades
    <3>4. PICK filled, s :
            /\ filled = r.filled + n
            /\ s = IF r.req.type = "market" THEN IF filled = 0 THEN "canceled" ELSE "filled"
                   ELSE IF filled = r.req.qty THEN "filled"
                   ELSE IF e.left = 0 THEN "canceled"
                   ELSE IF filled > 0 THEN "partially_filled"
                   ELSE r.status
      OBVIOUS
    <3>5. rows'[o] = [r EXCEPT !.filled = filled, !.status = s]
      <4>1. rows'[o] = TakerRow(e)
        BY <1>1, <3>1 DEF Writes
      <4>2. QED
        BY <3>1, <3>4, <4>1 DEF TakerRow
    <3>6. r \in OrderRow
      BY <1>1, <3>1 DEF RecoveryInv, RowsOK
    <3>7. rows'[o].status = s
      BY <3>5, <3>6 DEF OrderRow
    <3>8. filled > 0
      BY <3>2, <3>3, <3>4
    <3>9. s # "new"
      BY <3>4, <3>8
    <3>10. QED
      BY <3>1, <3>7, <3>9
  <2>6. \A t \in trades' : rows'[t.taker].status # "new"
    BY <1>2, <2>4, <2>5
  <2>7. \A t, u \in trades' : t.taker = u.taker => t = u
    BY <1>2, <2>2, <2>3
  <2>8. QED
    BY <2>6, <2>7
<1>4. Claimed'
  BY <1>3 DEF Claimed
<1>5. TakesOnce'
  BY <1>3 DEF TakesOnce, AllPositive
<1>6. QED
  BY <1>4, <1>5

\* The rest of the topic after a settlement.
LEMMA Acknowledged ==
  ASSUME RecoveryInv, settlements # <<>>, settlements' = Tail(settlements) \/ UNCHANGED settlements
  PROVE  settlements' \in Seq(Event) /\ ToSet(settlements') \subseteq ToSet(settlements)
<1>1. settlements \in Seq(Event)
  BY DEF RecoveryInv, EventsOK
<1>2. QED
  BY <1>1, NextEvent

\* A settlement records a trade and fills both rows by its quantity.
LEMMA SettleKeeps ==
  ASSUME RecoveryInv, Settle
  PROVE  RecoveryInv'
<1>1. PICK e : e = Next1
  OBVIOUS
<1>2. /\ RowsOK /\ LogOK /\ BookOK /\ EventsOK /\ FlagsOK
  BY DEF RecoveryInv
<1>3. UNCHANGED <<created, outbox, orders, committed, pos, book, out, handled, retries, leader, term,
                  matches, givenUp, clean, restored>>
  BY DEF Settle, logVars, engineVars, historyVars
<1>4. settlements # <<>> /\ (settlements' = Tail(settlements) \/ UNCHANGED settlements)
  BY DEF Settle, Acknowledge
<1>5. settlements' \in Seq(Event) /\ ToSet(settlements') \subseteq ToSet(settlements)
  BY <1>4, Acknowledged
<1>6. e \in SettleEvent /\ Fits(e) /\ e \in Reported
  <2>1. Next1 \in Event /\ Fits(Next1) /\ Next1 \in Reported /\ Next1.kind = "settle"
    BY <1>4, NextEvent DEF Settle
  <2>2. QED
    BY <1>1, <2>1, EventFields
<1>7. UNCHANGED <<rows, trades>> \/ Writes(e)
  BY <1>1, <1>6 DEF Settle, Writes
<1>8. DOMAIN rows' = DOMAIN rows /\ \A o \in DOMAIN rows : rows'[o].req = rows[o].req
  BY <1>7, WrittenRows
<1>9. RowsOK' /\ FilledMatchesTrades' /\ Claimed' /\ TakesOnce'
  <2>1. CASE UNCHANGED <<rows, trades>>
    BY <1>2, <1>3, <2>1, SameRows, SameData
  <2>2. CASE Writes(e)
    BY <1>3, <2>2, WrittenRowsOK, WrittenFilled, WrittenClaims
  <2>3. QED
    BY <1>7, <2>1, <2>2
<1>10. LogOK'
  BY <1>2, <1>3, <1>8 DEF LogOK, Idle
<1>11. BookOK'
  <2>1. \A side : Of(side)' = Of(side)
    BY <1>8 DEF Of
  <2>2. QED
    BY <1>2, <1>3, <1>8, <2>1 DEF BookOK
<1>12. FlagsOK' /\ term <= term' /\ matches <= matches' /\ DOMAIN rows \subseteq DOMAIN rows'
  <2>1. FlagsOK'
    BY <1>2, <1>3, <1>8 DEF FlagsOK
  <2>2. QED
    BY <1>2, <1>3, <1>8, <2>1 DEF FlagsOK
<1>13. EventsOK'
  <2>1. trades' \subseteq trades \cup {e}
    BY <1>7 DEF Writes
  <2>2. trades' \subseteq SettleEvent /\ IsFiniteSet(trades')
    <3>1. IsFiniteSet(trades \cup {e}) /\ trades \subseteq SettleEvent
      BY <1>2, FS_AddElement DEF EventsOK
    <3>2. QED
      BY <1>6, <2>1, <3>1, FS_Subset
  <2>3. Reported' \subseteq Reported
    BY <1>3, <1>5, <1>6, <2>1 DEF Reported
  <2>4. out' \in Seq(Event) /\ Len(out') <= 1
    BY <1>2, <1>3 DEF EventsOK
  <2>5. QED
    BY <1>2, <1>5, <1>12, <2>2, <2>3, <2>4, NoNewEvents
<1>14. QED
  BY <1>9, <1>10, <1>11, <1>12, <1>13 DEF RecoveryInv

\* The settlement of a cancellation closes a row and fills nothing.
LEMMA SettleCancelKeeps ==
  ASSUME RecoveryInv, SettleCancel
  PROVE  RecoveryInv'
<1>1. PICK i : i = Next1.order
  OBVIOUS
<1>2. /\ RowsOK /\ LogOK /\ BookOK /\ EventsOK /\ FlagsOK
      /\ FilledMatchesTrades /\ Claimed /\ TakesOnce
  BY DEF RecoveryInv
<1>3. UNCHANGED <<created, outbox, trades, orders, committed, pos, book, out, handled, retries, leader,
                  term, matches, givenUp, clean, restored>>
  BY DEF SettleCancel, logVars, engineVars, historyVars
<1>4. settlements # <<>> /\ (settlements' = Tail(settlements) \/ UNCHANGED settlements)
  BY DEF SettleCancel, Acknowledge
<1>5. settlements' \in Seq(Event) /\ ToSet(settlements') \subseteq ToSet(settlements)
  BY <1>4, Acknowledged
<1>6. i \in DOMAIN rows
  <2>1. Fits(Next1) /\ Next1.kind = "canceled"
    BY <1>4, NextEvent DEF SettleCancel
  <2>2. QED
    BY <1>1, <2>1 DEF Fits
<1>7. UNCHANGED rows \/ rows' = [rows EXCEPT ![i] = [@ EXCEPT !.status = "canceled"]]
  BY <1>1 DEF SettleCancel
<1>8. /\ DOMAIN rows' = DOMAIN rows
      /\ \A o \in DOMAIN rows :
           /\ rows'[o] \in OrderRow
           /\ rows'[o].req = rows[o].req /\ rows'[o].filled = rows[o].filled
           /\ rows'[o].status = rows[o].status \/ rows'[o].status = "canceled"
  <2>1. CASE UNCHANGED rows
    BY <1>2, <2>1 DEF RowsOK
  <2>2. CASE rows' = [rows EXCEPT ![i] = [@ EXCEPT !.status = "canceled"]]
    <3>1. PICK old, new : old = rows[i] /\ new = [old EXCEPT !.status = "canceled"]
      OBVIOUS
    <3>2. old \in OrderRow
      BY <1>2, <1>6, <3>1 DEF RowsOK
    <3>3. new \in OrderRow /\ new.req = old.req /\ new.filled = old.filled /\ new.status = "canceled"
      BY <3>1, <3>2 DEF OrderRow
    <3>4. DOMAIN rows' = DOMAIN rows /\ \A o \in DOMAIN rows :
             rows'[o] = IF o = i THEN new ELSE rows[o]
      BY <1>6, <2>2, <3>1
    <3>5. ASSUME NEW o \in DOMAIN rows
          PROVE  /\ rows'[o] \in OrderRow
                 /\ rows'[o].req = rows[o].req /\ rows'[o].filled = rows[o].filled
                 /\ rows'[o].status = rows[o].status \/ rows'[o].status = "canceled"
      <4>1. CASE o = i
        BY <3>1, <3>3, <3>4, <4>1
      <4>2. CASE o # i
        BY <1>2, <3>4, <4>2 DEF RowsOK
      <4>3. QED
        BY <4>1, <4>2
    <3>6. QED
      BY <3>4, <3>5
  <2>3. QED
    BY <1>7, <2>1, <2>2
<1>9. RowsOK'
  BY <1>2, <1>3, <1>8 DEF RowsOK, Active, Open
<1>10. LogOK'
  BY <1>2, <1>3, <1>8 DEF LogOK, Idle
<1>11. BookOK'
  <2>1. \A side : Of(side)' = Of(side)
    BY <1>8 DEF Of
  <2>2. QED
    BY <1>2, <1>3, <1>8, <2>1 DEF BookOK
<1>12. FlagsOK' /\ term <= term' /\ matches <= matches' /\ DOMAIN rows \subseteq DOMAIN rows'
  <2>1. FlagsOK'
    BY <1>2, <1>3, <1>8 DEF FlagsOK
  <2>2. QED
    BY <1>2, <1>3, <1>8, <2>1 DEF FlagsOK
<1>13. EventsOK'
  <2>1. Reported' \subseteq Reported
    BY <1>3, <1>5 DEF Reported
  <2>2. /\ out' \in Seq(Event) /\ Len(out') <= 1
        /\ trades' \subseteq SettleEvent /\ IsFiniteSet(trades')
    BY <1>2, <1>3 DEF EventsOK
  <2>3. QED
    BY <1>2, <1>5, <1>12, <2>1, <2>2, NoNewEvents
<1>14. FilledMatchesTrades'
  <2>1. \A o : TradedBy(o)' = TradedBy(o)
    BY <1>3 DEF TradedBy
  <2>2. QED
    BY <1>2, <1>8, <2>1 DEF FilledMatchesTrades
<1>15. Claimed' /\ TakesOnce'
  <2>1. \A t \in trades : t.taker \in DOMAIN rows
    BY <1>2 DEF EventsOK, Reported, SettleEvent, Fits
  <2>2. Claimed'
    BY <1>2, <1>3, <1>8, <2>1 DEF Claimed, AllPositive
  <2>3. TakesOnce'
    BY <1>2, <1>3 DEF TakesOnce
  <2>4. QED
    BY <2>2, <2>3
<1>16. QED
  BY <1>9, <1>10, <1>11, <1>12, <1>13, <1>14, <1>15 DEF RecoveryInv

-----------------------------------------------------------------------------
(* The theorems *)

\* Every step keeps the invariant.
LEMMA StepKeepsRecovery ==
  ASSUME RecoveryInv, [Next]_vars
  PROVE  RecoveryInv'
<1>1. CASE ServiceStep
  BY <1>1, PlaceOrderKeeps, CancelOrderKeeps, SendKeeps, DuplicateKeeps DEF ServiceStep
<1>2. CASE HandlerStep
  BY <1>2, HandlePlacedKeeps, HandleCancelKeeps, PublishKeeps, CommitOffsetKeeps, CommitFailsKeeps
     DEF HandlerStep
<1>3. CASE LeaderStep
  BY <1>3, StepDownKeeps, SkipRecordKeeps, DownKeeps, TakeOverKeeps DEF LeaderStep
<1>4. CASE SettlementStep
  BY <1>4, SettleKeeps, SettleCancelKeeps DEF SettlementStep
<1>5. CASE UNCHANGED vars
  <2>1. UNCHANGED <<rows, created, outbox, trades, orders, committed, pos, book, out, handled, retries,
                    leader, term, settlements, matches, givenUp, clean, restored>>
    BY <1>5 DEF vars, dbVars, logVars, engineVars, historyVars
  <2>2. /\ RowsOK /\ LogOK /\ BookOK /\ EventsOK /\ FlagsOK
    BY DEF RecoveryInv
  <2>3. FlagsOK' /\ term <= term' /\ matches <= matches' /\ DOMAIN rows \subseteq DOMAIN rows'
    <3>1. FlagsOK'
      BY <2>1, <2>2 DEF FlagsOK
    <3>2. QED
      BY <2>1, <2>2, <3>1 DEF FlagsOK
  <2>4. EventsOK'
    BY <2>1, <2>2, <2>3, SameEvents
  <2>5. RowsOK' /\ BookOK' /\ LogOK'
    BY <2>1, <2>2, SameRows, SameBook, SameLog
  <2>6. QED
    BY <2>1, <2>3, <2>4, <2>5, SameData DEF RecoveryInv
<1>6. QED
  BY <1>1, <1>2, <1>3, <1>4, <1>5 DEF Next

\* Whatever leaders come and go, and whatever is sent, matched or settled twice, the
\* tables and the topics are in order (internal/matching/initializer.go,
\* internal/matching/event_subscribers.go, internal/order/event_subscribers.go).
THEOREM RecoveryInvariant == Spec => []RecoveryInv
<1>1. Init => RecoveryInv
  BY InitRecovery
<1>2. RecoveryInv /\ [Next]_vars => RecoveryInv'
  BY StepKeepsRecovery
<1>3. QED
  BY <1>1, <1>2, PTL DEF Spec

\* Every variable has its type; no order in a book is used up, also after a restore,
\* and no taker is its own maker (internal/matching/engine/orderbook.go,
\* internal/matching/initializer.go:15-50).
THEOREM RecoveryTypes == Spec => []TypeOK
BY RecoveryInvariant, InvType, PTL

\* What a row says is filled is what the trades of the table say
\* (internal/order/event_subscribers.go:299-376).
THEOREM RowsMatchTrades == Spec => []FilledMatchesTrades
<1>1. RecoveryInv => FilledMatchesTrades
  BY DEF RecoveryInv
<1>2. QED
  BY <1>1, RecoveryInvariant, PTL

\* An order is the taker of one settlement with trades at most
\* (internal/order/event_subscribers.go:98-137, 285-297).
THEOREM OrdersTakeOnce == Spec => []TakesOnce
<1>1. RecoveryInv => TakesOnce
  BY DEF RecoveryInv
<1>2. QED
  BY <1>1, RecoveryInvariant, PTL

-----------------------------------------------------------------------------
(* The elements that are kept *)

\* g gives the positions in s of the elements of q, which are those of K up to n, in order.
Picks(g, q, s, K, n) ==
  /\ g \in [DOMAIN q -> K \cap 1..n]
  /\ \A i, j \in DOMAIN q : i < j => g[i] < g[j]
  /\ \A k \in K \cap 1..n : \E i \in DOMAIN q : g[i] = k
  /\ \A i \in DOMAIN q : q[i] = s[g[i]]

\* What is kept keeps its order, and is all that was asked for.
LEMMA KeptInOrder ==
  ASSUME NEW T, NEW s \in Seq(T), NEW K
  PROVE  /\ Kept(s, K) \in Seq(T)
         /\ \E g : Picks(g, Kept(s, K), s, K, Len(s))
<1>1. PICK f : KeepsUpTo(f, s, K, Len(s)) /\ Kept(s, K) = f[Len(s)]
  BY KeptRecursion
<1>2. \A k \in 0..Len(s) : f[k] = IF k = 0 THEN <<>>
                                  ELSE IF k \in K THEN Append(f[k-1], s[k]) ELSE f[k-1]
  BY <1>1 DEF KeepsUpTo
<1> DEFINE Good(n) == f[n] \in Seq(T) /\ \E g : Picks(g, f[n], s, K, n)
           Bad == {n \in 0..Len(s) : ~Good(n)}
<1>3. ASSUME Bad # {} PROVE FALSE
  <2>1. PICK n \in Bad : \A m \in Bad : n <= m
    <3>1. Bad \in SUBSET Nat
      OBVIOUS
    <3> HIDE DEF Bad
    <3>2. QED
      BY <1>3, <3>1, LeastNatural
  <2>2. n \in 0..Len(s) /\ ~Good(n)
    BY <2>1
  <2>3. n # 0
    <3> SUFFICES ASSUME n = 0 PROVE FALSE
      OBVIOUS
    <3>1. f[0] = <<>>
      BY <1>2
    <3>2. Picks([i \in {} |-> 0], <<>>, s, K, 0)
      BY DEF Picks
    <3>3. QED
      BY <2>2, <3>1, <3>2
  <2>4. n - 1 \in 0..Len(s) /\ n \in DOMAIN s /\ Good(n - 1)
    BY <2>1, <2>3
  <2>5. PICK q, g : q = f[n - 1] /\ q \in Seq(T) /\ Picks(g, q, s, K, n - 1)
    BY <2>4
  <2>6. PICK l : l = Len(q)
    OBVIOUS
  <2>7. l \in Nat /\ DOMAIN q = 1..l
    BY <2>5, <2>6
  <2>8. n \in Nat /\ n > 0 /\ s[n] \in T
    BY <2>3, <2>4
  <2>9. CASE n \notin K
    <3>1. f[n] = q
      BY <1>2, <2>2, <2>3, <2>5, <2>9
    <3>2. K \cap 1..n = K \cap 1..(n - 1)
      BY <2>8, <2>9
    <3>3. Picks(g, q, s, K, n)
      BY <2>5, <3>2 DEF Picks
    <3>4. QED
      BY <2>2, <2>5, <3>1, <3>3
  <2>10. CASE n \in K
    <3>1. PICK p : p = Append(q, s[n])
      OBVIOUS
    <3>2. f[n] = p
      BY <1>2, <2>2, <2>3, <2>5, <2>10, <3>1
    <3>3. /\ p \in Seq(T) /\ DOMAIN p = 1..(l + 1) /\ p[l + 1] = s[n]
          /\ \A i \in 1..l : p[i] = q[i]
      BY <2>5, <2>6, <2>8, <3>1
    <3>4. PICK h : h = [i \in 1..(l + 1) |-> IF i = l + 1 THEN n ELSE g[i]]
      OBVIOUS
    <3>5. h[l + 1] = n /\ \A i \in 1..l : h[i] = g[i] /\ g[i] \in K \cap 1..(n - 1)
      BY <2>5, <2>7, <3>4 DEF Picks
    <3>6. h \in [1..(l + 1) -> K \cap 1..n]
      BY <2>7, <2>8, <2>10, <3>4, <3>5
    <3>7. \A i, j \in 1..(l + 1) : i < j => h[i] < h[j]
      <4> SUFFICES ASSUME NEW i \in 1..(l + 1), NEW j \in 1..(l + 1), i < j PROVE h[i] < h[j]
        OBVIOUS
      <4>1. i \in 1..l
        BY <2>7
      <4>2. CASE j = l + 1
        BY <2>8, <3>5, <4>1, <4>2
      <4>3. CASE j # l + 1
        <5>1. j \in 1..l
          BY <2>7, <4>3
        <5>2. g[i] < g[j]
          BY <2>5, <2>7, <4>1, <5>1 DEF Picks
        <5>3. QED
          BY <3>5, <4>1, <5>1, <5>2
      <4>4. QED
        BY <4>2, <4>3
    <3>8. \A k \in K \cap 1..n : \E i \in 1..(l + 1) : h[i] = k
      <4> SUFFICES ASSUME NEW k \in K \cap 1..n PROVE \E i \in 1..(l + 1) : h[i] = k
        OBVIOUS
      <4>1. CASE k = n
        BY <2>7, <3>5, <4>1
      <4>2. CASE k # n
        <5>1. k \in K \cap 1..(n - 1)
          BY <2>8, <4>2
        <5>2. PICK i \in 1..l : g[i] = k
          BY <2>5, <2>7, <5>1 DEF Picks
        <5>3. QED
          BY <2>7, <3>5, <5>2
      <4>3. QED
        BY <4>1, <4>2
    <3>9. \A i \in 1..(l + 1) : p[i] = s[h[i]]
      <4> SUFFICES ASSUME NEW i \in 1..(l + 1) PROVE p[i] = s[h[i]]
        OBVIOUS
      <4>1. CASE i = l + 1
        BY <3>3, <3>5, <4>1
      <4>2. CASE i # l + 1
        <5>1. i \in 1..l
          BY <2>7, <4>2
        <5>2. q[i] = s[g[i]]
          BY <2>5, <2>7, <5>1 DEF Picks
        <5>3. p[i] = q[i] /\ h[i] = g[i]
          BY <3>3, <3>5, <5>1
        <5>4. QED
          BY <5>2, <5>3
      <4>3. QED
        BY <4>1, <4>2
    <3>10. Picks(h, p, s, K, n)
      BY <3>3, <3>6, <3>7, <3>8, <3>9 DEF Picks
    <3>11. QED
      BY <2>2, <3>2, <3>3, <3>10
  <2>11. QED
    BY <2>9, <2>10
<1>4. Len(s) \in 0..Len(s)
  OBVIOUS
<1>5. Good(Len(s))
  BY <1>3, <1>4
<1>6. QED
  BY <1>1, <1>5

-----------------------------------------------------------------------------
(* Matching with makers that all have something left *)

PositiveQueue(I, queue) ==
  /\ queue \in Queue(I)
  /\ \A k \in DOMAIN queue : queue[k].qty > 0
  /\ \A j, k \in DOMAIN queue : queue[j].id = queue[k].id => j = k

\* The depth grows by what each order has left.
LEMMA DepthGrows ==
  ASSUME NEW I, NEW queue, PositiveQueue(I, queue)
  PROVE  /\ Depth(queue)[0] = 0
         /\ \A k \in 0..Len(queue) : Depth(queue)[k] \in Nat
         /\ \A k \in 1..Len(queue) : Depth(queue)[k] = Depth(queue)[k - 1] + queue[k].qty
         /\ \A j, k \in 0..Len(queue) : j <= k => Depth(queue)[j] <= Depth(queue)[k]
<1>1. PICK n, f : n = Len(queue) /\ f = [j \in DOMAIN queue |-> queue[j].qty]
  OBVIOUS
<1>2. n \in Nat /\ DOMAIN queue = 1..n
  BY <1>1, QueueEntries DEF PositiveQueue
<1>3. \A j \in 1..n : f[j] \in Nat /\ f[j] = queue[j].qty
  BY <1>1, <1>2, QueueEntries DEF PositiveQueue
<1>4. \A k \in 0..n : Depth(queue)[k] = SumFunctionOnSet(f, 1..k)
  BY <1>1 DEF Depth
<1>5. \A k \in 0..n : IsFiniteSet(1..k) /\ IntOn(f, 1..k) /\ \A x \in 1..k : f[x] \in Nat
  <2> SUFFICES ASSUME NEW k \in 0..n
               PROVE  IsFiniteSet(1..k) /\ IntOn(f, 1..k) /\ \A x \in 1..k : f[x] \in Nat
    OBVIOUS
  <2>1. 1..k \subseteq 1..n
    BY <1>2
  <2>2. IsFiniteSet(1..k)
    BY <1>2, FS_Interval
  <2>3. QED
    BY <1>3, <2>1, <2>2 DEF IntOn
<1>6. Depth(queue)[0] = 0
  <2>1. 1..0 = {}
    OBVIOUS
  <2>2. QED
    BY <1>2, <1>4, <2>1, SumEmpty
<1>7. \A k \in 0..n : Depth(queue)[k] \in Nat
  BY <1>4, <1>5, SumNat
<1>8. \A k \in 1..n : Depth(queue)[k] = Depth(queue)[k - 1] + queue[k].qty
  <2> SUFFICES ASSUME NEW k \in 1..n
               PROVE  Depth(queue)[k] = Depth(queue)[k - 1] + queue[k].qty
    OBVIOUS
  <2>1. k \in 0..n /\ k - 1 \in 0..n /\ k \in 1..k /\ (1..k) \ {k} = 1..(k - 1)
    BY <1>2
  <2>2. SumFunctionOnSet(f, 1..k) = f[k] + SumFunctionOnSet(f, (1..k) \ {k})
    BY <1>5, <2>1, SumRemove
  <2>3. Depth(queue)[k] = SumFunctionOnSet(f, 1..k)
        /\ Depth(queue)[k - 1] = SumFunctionOnSet(f, (1..k) \ {k})
    BY <1>4, <2>1
  <2>4. PICK a, b : a = Depth(queue)[k] /\ b = Depth(queue)[k - 1]
    OBVIOUS
  <2>5. a = f[k] + b /\ b \in Nat /\ f[k] \in Nat
    BY <1>3, <1>7, <2>1, <2>2, <2>3, <2>4
  <2>6. QED
    BY <1>3, <2>4, <2>5
<1>9. \A j, k \in 0..n : j <= k => Depth(queue)[j] <= Depth(queue)[k]
  <2> SUFFICES ASSUME NEW j \in 0..n, NEW k \in 0..n, j <= k
               PROVE  Depth(queue)[j] <= Depth(queue)[k]
    OBVIOUS
  <2>1. PICK S, T : S = 1..k /\ T = 1..j
    OBVIOUS
  <2>2. T \in SUBSET S /\ IsFiniteSet(S) /\ \A x \in S : f[x] \in Nat
    BY <1>2, <1>5, <2>1
  <2>3. SumFunctionOnSet(f, T) <= SumFunctionOnSet(f, S)
    BY <2>2, SumPart
  <2>4. QED
    BY <1>4, <2>1, <2>3
<1>10. QED
  BY <1>1, <1>6, <1>7, <1>8, <1>9

\* The loop ends before an order if those before it are enough.
LEMMA EnoughBefore ==
  ASSUME NEW I, NEW queue, PositiveQueue(I, queue), NEW k \in 1..(Len(queue) + 1), NEW qty \in Nat
  PROVE  Satisfied(queue, k, qty) <=> Depth(queue)[k - 1] >= qty
<1>1. PICK n, d : n = Len(queue) /\ d = Depth(queue)
  OBVIOUS
<1>2. n \in Nat
  BY <1>1, QueueEntries DEF PositiveQueue
<1>3. k - 1 \in 0..n /\ k - 1 \in 0..(k - 1) /\ \A j \in 0..(k - 1) : j \in 0..n /\ j <= k - 1
  BY <1>1, <1>2
<1>4. /\ \A j \in 0..n : d[j] \in Nat
      /\ \A i, j \in 0..n : i <= j => d[i] <= d[j]
  BY <1>1, DepthGrows
<1>5. Satisfied(queue, k, qty) <=> \E j \in 0..(k - 1) : d[j] >= qty
  BY <1>1 DEF Satisfied
<1>6. ASSUME NEW j \in 0..(k - 1), d[j] >= qty PROVE d[k - 1] >= qty
  <2>1. d[j] \in Nat /\ d[k - 1] \in Nat /\ d[j] <= d[k - 1]
    BY <1>3, <1>4
  <2>2. QED
    BY <1>6, <2>1
<1>7. QED
  BY <1>1, <1>3, <1>5, <1>6

\* Nobody gives more than it has; what is taken and what is left make up the order.
LEMMA TakenAddsUp ==
  ASSUME NEW I, NEW queue, PositiveQueue(I, queue), NEW qty \in Nat,
         NEW f, f = [k \in DOMAIN queue |-> Taken(queue, k, qty)]
  PROVE  /\ \A k \in DOMAIN queue : Taken(queue, k, qty) \in 0..queue[k].qty
         /\ Left(queue, qty) \in Nat
         /\ Left(queue, qty) + SumFunctionOnSet(f, DOMAIN queue) = qty
<1>1. PICK n, d : n = Len(queue) /\ d = Depth(queue)
  OBVIOUS
<1>2. /\ n \in Nat /\ DOMAIN queue = 1..n
      /\ \A k \in 1..n : queue[k].qty \in Nat
  BY <1>1, QueueEntries DEF PositiveQueue
<1>3. /\ d[0] = 0
      /\ \A k \in 0..n : d[k] \in Nat
      /\ \A k \in 1..n : d[k] = d[k - 1] + queue[k].qty
  BY <1>1, DepthGrows
<1>4. \A k \in 1..n : f[k] = Taken(queue, k, qty)
  BY <1>2
<1>5. ASSUME NEW k \in 1..n
      PROVE  /\ f[k] \in 0..queue[k].qty
             /\ f[k] = Smaller(d[k], qty) - Smaller(d[k - 1], qty)
  <2>1. k \in 1..(n + 1) /\ k - 1 \in 0..n /\ k \in 0..n
    BY <1>2
  <2>2. Satisfied(queue, k, qty) <=> d[k - 1] >= qty
    BY <1>1, <2>1, EnoughBefore
  <2>3. PICK a, b, q : a = d[k - 1] /\ b = d[k] /\ q = queue[k].qty
    OBVIOUS
  <2>4. a \in Nat /\ b \in Nat /\ q \in Nat /\ b = a + q
    BY <1>2, <1>3, <2>1, <2>3
  <2>5. f[k] = IF a >= qty THEN 0 ELSE Smaller(q, qty - a)
    BY <1>1, <1>4, <2>2, <2>3 DEF Taken
  <2>6. f[k] \in 0..q /\ f[k] = Smaller(b, qty) - Smaller(a, qty)
    BY <2>4, <2>5 DEF Smaller
  <2>7. QED
    BY <2>3, <2>6
<1>6. \A k \in 0..n : SumFunctionOnSet(f, 1..k) = Smaller(d[k], qty)
  <2> DEFINE Bad == {k \in 0..n : SumFunctionOnSet(f, 1..k) # Smaller(d[k], qty)}
  <2>1. ASSUME Bad # {} PROVE FALSE
    <3>1. PICK k \in Bad : \A j \in Bad : k <= j
      <4>1. Bad \in SUBSET Nat
        OBVIOUS
      <4> HIDE DEF Bad
      <4>2. QED
        BY <2>1, <4>1, LeastNatural
    <3>2. CASE k = 0
      <4>1. SumFunctionOnSet(f, 1..0) = 0
        <5>1. 1..0 = {}
          OBVIOUS
        <5>2. QED
          BY <5>1, SumEmpty
      <4>2. Smaller(d[0], qty) = 0
        BY <1>3 DEF Smaller
      <4>3. QED
        BY <3>1, <3>2, <4>1, <4>2
    <3>3. CASE k # 0
      <4>1. k \in 1..n /\ k - 1 \in 0..n /\ k - 1 \notin Bad /\ (1..k) \ {k} = 1..(k - 1) /\ k \in 1..k
        BY <1>2, <3>1, <3>3
      <4>2. SumFunctionOnSet(f, 1..(k - 1)) = Smaller(d[k - 1], qty)
        BY <4>1
      <4>3. IsFiniteSet(1..k) /\ IntOn(f, 1..k)
        <5>1. \A j \in 1..k : j \in 1..n
          BY <1>2, <4>1
        <5>2. \A j \in 1..n : f[j] \in Int
          BY <1>2, <1>5
        <5>3. IsFiniteSet(1..k)
          BY <1>2, <4>1, FS_Interval
        <5>4. QED
          BY <5>1, <5>2, <5>3 DEF IntOn
      <4>4. SumFunctionOnSet(f, 1..k) = f[k] + SumFunctionOnSet(f, (1..k) \ {k})
        BY <4>1, <4>3, SumRemove
      <4>5. f[k] = Smaller(d[k], qty) - Smaller(d[k - 1], qty)
        BY <1>5, <4>1
      <4>6. Smaller(d[k], qty) \in Int /\ Smaller(d[k - 1], qty) \in Int
        BY <1>3, <3>1, <4>1 DEF Smaller
      <4>7. SumFunctionOnSet(f, 1..k) = Smaller(d[k], qty)
        <5>1. PICK a, b, c, u, v : /\ a = Smaller(d[k], qty) /\ b = Smaller(d[k - 1], qty)
                                   /\ c = f[k] /\ u = SumFunctionOnSet(f, 1..k)
                                   /\ v = SumFunctionOnSet(f, 1..(k - 1))
          OBVIOUS
        <5>2. u = c + v
          BY <4>1, <4>4, <5>1
        <5>3. v = b /\ c = a - b /\ a \in Int /\ b \in Int
          BY <4>2, <4>5, <4>6, <5>1
        <5>4. u = a
          BY <5>2, <5>3
        <5>5. QED
          BY <5>1, <5>4
      <4>8. QED
        BY <3>1, <4>7
    <3>4. QED
      BY <3>2, <3>3
  <2>2. QED
    BY <2>1
<1>7. n \in 0..n /\ n + 1 \in 1..(n + 1) /\ (n + 1) - 1 = n
  BY <1>2
<1>8. Satisfied(queue, n + 1, qty) <=> d[n] >= qty
  BY <1>1, <1>7, EnoughBefore
<1>9. Left(queue, qty) = IF d[n] >= qty THEN 0 ELSE qty - d[n]
  BY <1>1, <1>8 DEF Left
<1>10. d[n] \in Nat /\ SumFunctionOnSet(f, DOMAIN queue) = Smaller(d[n], qty)
  BY <1>2, <1>3, <1>6, <1>7
<1>11. Left(queue, qty) \in Nat /\ Left(queue, qty) + SumFunctionOnSet(f, DOMAIN queue) = qty
  BY <1>9, <1>10 DEF Smaller
<1>12. QED
  BY <1>2, <1>4, <1>5, <1>11

\* The fills say of each maker what is taken from its place, and together what is taken.
LEMMA FillsAddUp ==
  ASSUME NEW I, NEW queue, PositiveQueue(I, queue), NEW qty \in Nat
  PROVE  /\ \A k \in DOMAIN queue :
              /\ queue[k].id \in DOMAIN Fills(queue, qty) <=> Taken(queue, k, qty) # 0
              /\ queue[k].id \in DOMAIN Fills(queue, qty) =>
                   Fills(queue, qty)[queue[k].id] = Taken(queue, k, qty)
         /\ \A m \in DOMAIN Fills(queue, qty) :
              /\ \E k \in DOMAIN queue : queue[k].id = m
              /\ Fills(queue, qty)[m] \in Nat /\ Fills(queue, qty)[m] > 0
         /\ Left(queue, qty) + Total(Fills(queue, qty)) = qty
<1>1. PICK f, D, F : /\ f = [k \in DOMAIN queue |-> Taken(queue, k, qty)]
                     /\ D = {k \in DOMAIN queue : Taken(queue, k, qty) # 0}
                     /\ F = Fills(queue, qty)
  OBVIOUS
<1>2. /\ queue \in Queue(I) /\ DOMAIN queue = 1..Len(queue) /\ Len(queue) \in Nat
      /\ \A j, k \in DOMAIN queue : queue[j].id = queue[k].id => j = k
      /\ \A k \in DOMAIN queue : queue[k].qty \in Nat
  BY QueueEntries DEF PositiveQueue
<1>3. /\ \A k \in DOMAIN queue : f[k] = Taken(queue, k, qty) /\ f[k] \in 0..queue[k].qty
      /\ Left(queue, qty) \in Nat /\ Left(queue, qty) + SumFunctionOnSet(f, DOMAIN queue) = qty
  BY <1>1, TakenAddsUp
<1>4. \A k \in DOMAIN queue : f[k] \in Nat
  BY <1>2, <1>3
<1>5. IsFiniteSet(DOMAIN queue) /\ IsFiniteSet(D) /\ D \in SUBSET DOMAIN queue
  <2>1. IsFiniteSet(DOMAIN queue) /\ D \in SUBSET DOMAIN queue
    BY <1>1, <1>2, FS_Interval
  <2>2. QED
    BY <2>1, FS_Subset
<1>6. PICK ids : ids = [k \in D |-> queue[k].id]
  OBVIOUS
<1>7. PICK M : M = {ids[k] : k \in D}
  OBVIOUS
<1>8. DOMAIN F = M /\ \A m \in M : F[m] = FillOf(queue, qty, m)
  <2>1. M = {queue[k].id : k \in {j \in DOMAIN queue : Taken(queue, j, qty) # 0}}
    BY <1>1, <1>6, <1>7
  <2>2. F = [m \in M |-> FillOf(queue, qty, m)]
    BY <1>1, <2>1 DEF Fills
  <2>3. QED
    BY <2>2
<1>9. ASSUME NEW k \in DOMAIN queue PROVE FillOf(queue, qty, queue[k].id) = f[k]
  <2>1. {j \in DOMAIN queue : queue[j].id = queue[k].id} = {k}
    BY <1>2
  <2>2. FillOf(queue, qty, queue[k].id) = SumFunctionOnSet(f, {k})
    BY <1>1, <2>1 DEF FillOf
  <2>3. SumFunctionOnSet(f, {k}) = f[k]
    <3>1. IsFiniteSet({k})
      BY FS_Singleton
    <3>2. f[k] \in Int
      BY <1>4
    <3>3. PICK S : S = {k}
      OBVIOUS
    <3>4. IsFiniteSet(S) /\ k \in S /\ \A y \in S \ {k} : f[y] = 0
      BY <3>1, <3>3
    <3>5. QED
      BY <3>2, <3>3, <3>4, SumOnly
  <2>4. QED
    BY <2>2, <2>3
<1>10. \A k \in DOMAIN queue : queue[k].id \in M <=> k \in D
  BY <1>2, <1>5, <1>6, <1>7
<1>11. \A k \in D : ids[k] = queue[k].id /\ F[ids[k]] = f[k] /\ k \in DOMAIN queue /\ f[k] # 0
  BY <1>1, <1>3, <1>5, <1>6, <1>7, <1>8, <1>9
<1>12. \A j, k \in D : ids[j] = ids[k] => j = k
  BY <1>2, <1>11
<1>13. SumFunctionOnSet(F, M) = SumFunctionOnSet(f, D)
  <2>1. IntOn(f, D)
    BY <1>4, <1>5 DEF IntOn
  <2>2. \A k \in D : F[ids[k]] = f[k]
    BY <1>11
  <2>3. QED
    BY <1>5, <1>7, <1>12, <2>1, <2>2, SumReindex
<1>14. SumFunctionOnSet(f, DOMAIN queue) = SumFunctionOnSet(f, D)
  <2>1. \A k \in (DOMAIN queue) \ D : f[k] = 0
    BY <1>1, <1>3
  <2>2. IntOn(f, D)
    BY <1>4, <1>5 DEF IntOn
  <2>3. QED
    BY <1>5, <2>1, <2>2, SumWhere
<1>15. Total(F) = SumFunctionOnSet(F, M)
  BY <1>8 DEF Total, SumFunction
<1>16. \A m \in M : F[m] \in Nat /\ F[m] > 0 /\ \E k \in DOMAIN queue : queue[k].id = m
  <2> SUFFICES ASSUME NEW m \in M
               PROVE  F[m] \in Nat /\ F[m] > 0 /\ \E k \in DOMAIN queue : queue[k].id = m
    OBVIOUS
  <2>1. PICK k \in D : m = ids[k]
    BY <1>7
  <2>2. F[m] = f[k] /\ k \in DOMAIN queue /\ f[k] # 0 /\ f[k] \in Nat /\ queue[k].id = m
    BY <1>4, <1>11, <2>1
  <2>3. QED
    BY <2>2
<1>17. \A k \in DOMAIN queue : /\ queue[k].id \in DOMAIN F <=> Taken(queue, k, qty) # 0
                               /\ queue[k].id \in DOMAIN F => F[queue[k].id] = Taken(queue, k, qty)
  BY <1>1, <1>3, <1>8, <1>9, <1>10
<1>18. Left(queue, qty) + Total(F) = qty
  BY <1>3, <1>13, <1>14, <1>15
<1>19. QED
  BY <1>1, <1>8, <1>16, <1>17, <1>18

\* What rests afterwards is what was not taken, in the same order.
LEMMA UnmatchedRests ==
  ASSUME NEW I, NEW queue, PositiveQueue(I, queue), NEW qty \in Nat
  PROVE  /\ DOMAIN Unmatched(queue, qty) = 1..Len(Unmatched(queue, qty))
         /\ Len(Unmatched(queue, qty)) \in Nat
         /\ \E g : /\ g \in [DOMAIN Unmatched(queue, qty) -> DOMAIN queue]
                   /\ \A i, j \in DOMAIN Unmatched(queue, qty) : i < j => g[i] < g[j]
                   /\ \A k \in DOMAIN queue : queue[k].qty # Taken(queue, k, qty)
                        => \E i \in DOMAIN Unmatched(queue, qty) : g[i] = k
                   /\ \A i \in DOMAIN Unmatched(queue, qty) :
                        LET e == Unmatched(queue, qty)[i] IN
                        /\ e.id = queue[g[i]].id
                        /\ e.qty = queue[g[i]].qty - Taken(queue, g[i], qty)
                        /\ e.qty \in Nat /\ e.qty > 0
<1>1. PICK rest, K, u :
        /\ rest = [k \in DOMAIN queue |-> [queue[k] EXCEPT !.qty = @ - Taken(queue, k, qty)]]
        /\ K = {k \in DOMAIN queue : queue[k].qty # Taken(queue, k, qty)}
        /\ u = Unmatched(queue, qty)
  OBVIOUS
<1>2. u = Kept(rest, K)
  BY <1>1 DEF Unmatched
<1>3. /\ queue \in Queue(I) /\ DOMAIN queue = 1..Len(queue) /\ Len(queue) \in Nat
      /\ \A k \in DOMAIN queue : queue[k] \in [id : I, qty : Int] /\ queue[k].qty \in Nat
  BY QueueEntries DEF PositiveQueue
<1>4. \A k \in DOMAIN queue : Taken(queue, k, qty) \in 0..queue[k].qty
  <2>1. PICK f : f = [k \in DOMAIN queue |-> Taken(queue, k, qty)]
    OBVIOUS
  <2>2. QED
    BY <2>1, TakenAddsUp
<1>5. ASSUME NEW k \in DOMAIN queue
      PROVE  /\ rest[k] \in [id : I, qty : Int] /\ rest[k].id = queue[k].id
             /\ rest[k].qty = queue[k].qty - Taken(queue, k, qty)
  <2>1. PICK e, t : e = queue[k] /\ t = Taken(queue, k, qty)
    OBVIOUS
  <2>2. e \in [id : I, qty : Int] /\ t \in Int
    BY <1>3, <1>4, <2>1
  <2>3. rest[k] = [e EXCEPT !.qty = @ - t]
    BY <1>1, <2>1
  <2>4. QED
    BY <2>1, <2>2, <2>3
<1>6. rest \in Seq([id : I, qty : Int]) /\ Len(rest) = Len(queue)
  <2>1. PICK n : n = Len(queue)
    OBVIOUS
  <2>2. rest = [k \in 1..n |-> rest[k]] /\ n \in Nat /\ \A k \in 1..n : rest[k] \in [id : I, qty : Int]
    BY <1>1, <1>3, <1>5, <2>1
  <2>3. QED
    BY <2>1, <2>2
<1>7. u \in Seq([id : I, qty : Int]) /\ \E g : Picks(g, u, rest, K, Len(queue))
  BY <1>2, <1>6, KeptInOrder
<1>8. PICK g : Picks(g, u, rest, K, Len(queue))
  BY <1>7
<1>9. K \cap 1..Len(queue) = K /\ K \subseteq DOMAIN queue
  BY <1>1, <1>3
<1>10. /\ g \in [DOMAIN u -> K]
       /\ \A i, j \in DOMAIN u : i < j => g[i] < g[j]
       /\ \A k \in K : \E i \in DOMAIN u : g[i] = k
       /\ \A i \in DOMAIN u : u[i] = rest[g[i]]
  BY <1>8, <1>9 DEF Picks
<1>11. g \in [DOMAIN u -> DOMAIN queue]
  BY <1>9, <1>10
<1>12. \A k \in DOMAIN queue : queue[k].qty # Taken(queue, k, qty) => \E i \in DOMAIN u : g[i] = k
  BY <1>1, <1>10
<1>13. ASSUME NEW i \in DOMAIN u
       PROVE  /\ u[i].id = queue[g[i]].id
              /\ u[i].qty = queue[g[i]].qty - Taken(queue, g[i], qty)
              /\ u[i].qty \in Nat /\ u[i].qty > 0
  <2>1. g[i] \in K /\ g[i] \in DOMAIN queue /\ u[i] = rest[g[i]]
    BY <1>9, <1>10
  <2>2. u[i].id = queue[g[i]].id /\ u[i].qty = queue[g[i]].qty - Taken(queue, g[i], qty)
    BY <1>5, <2>1
  <2>3. PICK a, b : a = queue[g[i]].qty /\ b = Taken(queue, g[i], qty)
    OBVIOUS
  <2>4. a \in Nat /\ b \in 0..a /\ a # b
    BY <1>1, <1>3, <1>4, <2>1, <2>3
  <2>5. QED
    BY <2>2, <2>3, <2>4
<1>14. DOMAIN u = 1..Len(u) /\ Len(u) \in Nat
  BY <1>7
<1>15. QED
  BY <1>1, <1>10, <1>11, <1>12, <1>13, <1>14

-----------------------------------------------------------------------------
(* What the wire owes *)

\* The settlements on their way, the one to be published last.
Wire == settlements \o out

\* It will be written: it is not stale, and its taker is still new.
Due(e) == e.kind = "settle" /\ ~Stale(e) /\ rows[e.taker].status = "new"
OwedAt(o) == [k \in DOMAIN Wire |-> IF Due(Wire[k]) THEN PartOf(Wire[k], o) ELSE 0]
Owed(o) == SumFunction(OwedAt(o))

\* The orders an event speaks of.
Mentions(e) == IF e.kind = "settle" THEN {e.taker} \cup DOMAIN e.fills ELSE {e.order}

\* Two events that tell the consumer the same.
Alike(e, f) ==
  /\ e.kind = f.kind
  /\ e.kind = "settle" => e.taker = f.taker /\ e.fills = f.fills /\ e.left = f.left
  /\ e.kind = "canceled" => e.order = f.order

\* What the handler will not touch again: the record it is at, once it has begun.
NextPos == IF Idle THEN pos ELSE pos + 1
Waiting(o) == Placed(o) \in outbox \/ \E k \in NextPos..Len(orders) : orders[k] = Placed(o)

Rests(o) == \E s \in Sides : \E k \in DOMAIN book[s] : book[s][k].id = o
Withdrawn(o) == \E k \in DOMAIN Wire :
                  Wire[k].kind = "canceled" /\ ~Stale(Wire[k]) /\ Wire[k].order = o

\* Every order has a record, sent or not.
Recorded ==
  \A o \in DOMAIN rows : Placed(o) \in outbox \/ \E k \in DOMAIN orders : orders[k] = Placed(o)

\* An id stands for one taker.
OneTaker ==
  \A e, f \in Reported : e.kind = "settle" /\ f.kind = "settle" /\ e.id = f.id
                            => e.taker = f.taker

Ledger ==
  /\ committed = pos
  /\ out # <<>> => out[1].token = term
  /\ Recorded
  /\ OneTaker

\* An order has one record, sent or not, and one place in its queue.
RecordsOnce ==
  \A j \in DOMAIN orders : orders[j].kind = "placed" =>
    /\ orders[j] \notin outbox
    /\ \A k \in DOMAIN orders : orders[k] = orders[j] => j = k
QueuesOnce ==
  \A s \in Sides : \A j, k \in DOMAIN book[s] : book[s][j].id = book[s][k].id => j = k

\* Settlements share out their taker's order to makers that are open.
Gives == \A e \in Reported : e.kind = "settle" => \A m \in DOMAIN e.fills : e.fills[m] > 0
Matched ==
  /\ Gives
  /\ \A k \in DOMAIN Wire : LET e == Wire[k] IN e.kind = "settle" =>
       /\ e.left + Total(e.fills) = rows[e.taker].req.qty
       /\ rows[e.taker].req.type = "limit" => DOMAIN e.fills # {}
       /\ Due(e) => \A m \in DOMAIN e.fills : Active(m)

\* An order takes before it gives, and is withdrawn last.
Sequence ==
  \A j, k \in DOMAIN Wire :
    j < k /\ ~Stale(Wire[j]) /\ ~Stale(Wire[k]) /\ Wire[k].kind = "settle" =>
      /\ Wire[k].taker \notin Mentions(Wire[j])
      /\ Wire[j].kind = "canceled" => Wire[j].order \notin DOMAIN Wire[k].fills

\* What is filled and what is owed is no more than was asked for.
Bounded == \A o \in DOMAIN rows : rows[o].filled + Owed(o) <= rows[o].req.qty

\* Nothing has happened yet to an order whose record waits.
Fresh ==
  \A o \in DOMAIN rows : Waiting(o) =>
    /\ rows[o].filled = 0 /\ rows[o].status = "new"
    /\ \A k \in DOMAIN Wire : o \notin Mentions(Wire[k])

\* What rests, what is filled and what is owed make up the order.
Resting ==
  \A s \in Sides : \A k \in DOMAIN book[s] : LET o == book[s][k].id IN
    /\ Active(o) /\ ~Waiting(o) /\ ~Withdrawn(o)
    /\ book[s][k].qty > 0
    /\ book[s][k].qty + rows[o].filled + Owed(o) = rows[o].req.qty

\* An open order rests in a book that was restored, or the rest of it is owed.
Complete ==
  restored => \A o \in DOMAIN rows : Active(o) /\ ~Waiting(o) /\ ~Withdrawn(o) =>
    Rests(o) \/ rows[o].filled + Owed(o) = rows[o].req.qty

InBook == Fresh /\ Resting /\ Complete
OnWire == RecordsOnce /\ QueuesOnce /\ Matched /\ Sequence /\ Bounded

HandoverInv ==
  /\ Ledger
  /\ clean => OnWire /\ (leader # "down" => InBook)

-----------------------------------------------------------------------------
(* Sums along a sequence *)

\* The last value counts apart.
LEMMA SumLast ==
  ASSUME NEW n \in Nat, NEW g, \A k \in 1..(n + 1) : g[k] \in Int
  PROVE  /\ SumFunctionOnSet(g, 1..n) \in Int
         /\ SumFunctionOnSet(g, 1..(n + 1)) = SumFunctionOnSet(g, 1..n) + g[n + 1]
<1>1. PICK S, x : S = 1..n /\ x = n + 1
  OBVIOUS
<1>2. S \cup {x} = 1..(n + 1) /\ x \notin S /\ IsFiniteSet(S)
  <2>1. IsFiniteSet(S)
    BY <1>1, FS_Interval
  <2>2. S \cup {x} = 1..(n + 1) /\ x \notin S
    BY <1>1
  <2>3. QED
    BY <2>1, <2>2
<1>3. IntOn(g, S) /\ IntOn(g, S \cup {x}) /\ g[x] \in Int
  BY <1>1, <1>2 DEF IntOn
<1>4. SumFunctionOnSet(g, S \cup {x}) = g[x] + SumFunctionOnSet(g, S)
  BY <1>2, <1>3, SumAdd
<1>5. SumFunctionOnSet(g, S) \in Int
  BY <1>2, <1>3, SumInt
<1>6. PICK a, b, c : a = SumFunctionOnSet(g, S) /\ b = g[x] /\ c = SumFunctionOnSet(g, S \cup {x})
  OBVIOUS
<1>7. c = a + b
  BY <1>3, <1>4, <1>5, <1>6
<1>8. QED
  BY <1>1, <1>2, <1>5, <1>6, <1>7

\* So does the first.
LEMMA SumFirst ==
  ASSUME NEW n \in Nat, NEW g, \A k \in 1..(n + 1) : g[k] \in Int,
         NEW h, \A k \in 1..n : h[k] = g[k + 1]
  PROVE  /\ SumFunctionOnSet(h, 1..n) \in Int
         /\ SumFunctionOnSet(g, 1..(n + 1)) = SumFunctionOnSet(h, 1..n) + g[1]
<1>0. PICK S, b : S = 1..n /\ b = [k \in S |-> k + 1]
  OBVIOUS
<1>1. PICK T : T = {b[k] : k \in S}
  OBVIOUS
<1>2. /\ IsFiniteSet(S) /\ T \cup {1} = 1..(n + 1) /\ 1 \notin T
      /\ \A x, y \in S : b[x] = b[y] => x = y
      /\ \A x \in S : b[x] = x + 1 /\ x \in Nat
  <2>1. IsFiniteSet(S)
    BY <1>0, FS_Interval
  <2>2. \A x \in S : b[x] = x + 1 /\ x \in Nat /\ x > 0
    BY <1>0
  <2>3. ASSUME NEW y \in 2..(n + 1) PROVE y \in T
    <3>1. y - 1 \in S /\ b[y - 1] = y
      BY <1>0
    <3>2. QED
      BY <1>1, <3>1
  <2>4. ASSUME NEW y \in T PROVE y \in 2..(n + 1)
    <3>1. PICK x \in S : y = b[x]
      BY <1>1
    <3>2. x \in 1..n /\ y = x + 1
      BY <1>0, <3>1
    <3>3. QED
      BY <3>2
  <2>5. T \cup {1} = 1..(n + 1) /\ 1 \notin T
    BY <2>3, <2>4
  <2>6. \A x, y \in S : b[x] = b[y] => x = y
    BY <2>2
  <2>7. QED
    BY <2>1, <2>2, <2>5, <2>6
<1>3. IntOn(h, S) /\ \A x \in S : g[b[x]] = h[x]
  <2>1. \A x \in S : h[x] = g[x + 1] /\ x + 1 \in 1..(n + 1) /\ b[x] = x + 1
    BY <1>0, <1>2
  <2>2. QED
    BY <2>1 DEF IntOn
<1>4. IsFiniteSet(T) /\ SumFunctionOnSet(g, T) = SumFunctionOnSet(h, S)
  <2>1. IsFiniteSet(S) /\ \A x, y \in S : b[x] = b[y] => x = y
    BY <1>2
  <2>2. /\ IsFiniteSet({b[x] : x \in S})
        /\ SumFunctionOnSet(g, {b[x] : x \in S}) = SumFunctionOnSet(h, S)
    BY <1>3, <2>1, SumReindex
  <2>3. QED
    BY <1>1, <2>2
<1>5. IntOn(g, T \cup {1}) /\ g[1] \in Int
  BY <1>2 DEF IntOn
<1>6. SumFunctionOnSet(g, T \cup {1}) = g[1] + SumFunctionOnSet(g, T)
  BY <1>2, <1>4, <1>5, SumAdd
<1>7. SumFunctionOnSet(h, S) \in Int
  BY <1>2, <1>3, SumInt
<1>8. PICK a, c, d : a = SumFunctionOnSet(h, S) /\ c = g[1] /\ d = SumFunctionOnSet(g, T \cup {1})
  OBVIOUS
<1>9. d = a + c
  BY <1>4, <1>5, <1>6, <1>7, <1>8
<1>10. QED
  BY <1>0, <1>2, <1>7, <1>8, <1>9

-----------------------------------------------------------------------------
(* The wire *)

\* Positions and events of the wire.
WireFacts ==
  /\ Len(settlements) \in Nat /\ Len(out) \in {0, 1} /\ Len(Wire) \in Nat
  /\ Len(Wire) = Len(settlements) + Len(out)
  /\ DOMAIN Wire = 1..Len(Wire)
  /\ \A k \in 1..Len(settlements) : k \in DOMAIN Wire /\ Wire[k] = settlements[k]
  /\ out # <<>> => Len(out) = 1 /\ Wire[Len(Wire)] = out[1] /\ Len(Wire) \in DOMAIN Wire
  /\ \A k \in DOMAIN Wire : Wire[k] \in Event /\ Wire[k] \in Reported

\* What is owed is the sum of the parts of what is due.
OwedFacts ==
  \A o :
    /\ Owed(o) = SumFunctionOnSet(OwedAt(o), 1..Len(Wire)) /\ Owed(o) \in Int
    /\ \A k \in 1..Len(Wire) :
         /\ OwedAt(o)[k] = IF Due(Wire[k]) THEN PartOf(Wire[k], o) ELSE 0
         /\ OwedAt(o)[k] \in Int
         /\ Matched => OwedAt(o)[k] \in Nat
    /\ Matched => Owed(o) \in Nat

\* They follow from the types of the events.
LEMMA WireHasEvents == RecoveryInv => WireFacts
<1> SUFFICES ASSUME RecoveryInv PROVE WireFacts
  OBVIOUS
<1>1. PICK s, t, w : s = settlements /\ t = out /\ w = Wire
  OBVIOUS
<1>2. s \in Seq(Event) /\ t \in Seq(Event) /\ Len(t) <= 1 /\ w = s \o t
  BY <1>1 DEF RecoveryInv, EventsOK, Wire
<1>3. PICK m, n, l : m = Len(s) /\ n = Len(t) /\ l = Len(w)
  OBVIOUS
<1>4. m \in Nat /\ n \in Nat /\ n \in {0, 1} /\ DOMAIN s = 1..m /\ DOMAIN t = 1..n /\ (t # <<>> => n = 1)
  BY <1>2, <1>3
<1>5. l = m + n /\ l \in Nat /\ DOMAIN w = 1..l
  BY <1>2, <1>3
<1>6. \A k \in 1..m : k \in 1..l /\ w[k] = s[k]
  BY <1>2, <1>3, <1>4, <1>5
<1>7. n = 1 => l \in 1..l /\ l = m + 1 /\ w[l] = t[1]
  BY <1>2, <1>3, <1>4, <1>5
<1>8. ASSUME NEW k \in 1..l PROVE w[k] \in Event /\ w[k] \in ToSet(s) \cup ToSet(t)
  <2>1. CASE k \in 1..m
    <3>1. w[k] = s[k] /\ k \in DOMAIN s /\ s[k] \in Event
      BY <1>2, <1>4, <1>6, <2>1
    <3>2. QED
      BY <3>1 DEF ToSet
  <2>2. CASE k \notin 1..m
    <3>1. n = 1 /\ k = l
      BY <1>4, <1>5, <2>2
    <3>2. w[k] = t[1] /\ 1 \in DOMAIN t
      BY <1>4, <1>7, <3>1
    <3>3. t[1] \in Event
      BY <1>2, <3>2
    <3>4. QED
      BY <3>2, <3>3 DEF ToSet
  <2>3. QED
    BY <2>1, <2>2
<1>9. \A k \in DOMAIN Wire : Wire[k] \in Event /\ Wire[k] \in Reported
  BY <1>1, <1>5, <1>8 DEF Reported
<1>10. QED
  BY <1>1, <1>3, <1>4, <1>5, <1>6, <1>7, <1>9 DEF WireFacts

\* So does what is owed.
LEMMA OwedParts == RecoveryInv => OwedFacts
<1> SUFFICES ASSUME RecoveryInv, NEW o
             PROVE  /\ Owed(o) = SumFunctionOnSet(OwedAt(o), 1..Len(Wire)) /\ Owed(o) \in Int
                    /\ \A k \in 1..Len(Wire) :
                         /\ OwedAt(o)[k] = IF Due(Wire[k]) THEN PartOf(Wire[k], o) ELSE 0
                         /\ OwedAt(o)[k] \in Int
                         /\ Matched => OwedAt(o)[k] \in Nat
                    /\ Matched => Owed(o) \in Nat
  BY DEF OwedFacts
<1>1. PICK f, n : f = OwedAt(o) /\ n = Len(Wire)
  OBVIOUS
<1>2. DOMAIN Wire = 1..n /\ n \in Nat /\ \A k \in 1..n : Wire[k] \in Event /\ Wire[k] \in Reported
  BY <1>1, WireHasEvents DEF WireFacts
<1>3. DOMAIN f = 1..n /\ \A k \in 1..n : f[k] = IF Due(Wire[k]) THEN PartOf(Wire[k], o) ELSE 0
  BY <1>1, <1>2 DEF OwedAt
<1>4. ASSUME NEW k \in 1..n PROVE f[k] \in Int /\ (Matched => f[k] \in Nat)
  <2>1. CASE Due(Wire[k])
    <3>1. PICK e : e = Wire[k]
      OBVIOUS
    <3>2. e \in SettleEvent /\ e \in Reported /\ e.kind = "settle"
      BY <1>2, <2>1, <3>1, EventFields DEF Due
    <3>3. Matched => \A m \in DOMAIN e.fills : e.fills[m] > 0
      BY <3>2 DEF Matched, Gives
    <3>4. PartOf(e, o) \in Int /\ (Matched => PartOf(e, o) \in Nat)
      BY <3>2, <3>3, PartIsInt
    <3>5. QED
      BY <1>3, <2>1, <3>1, <3>4
  <2>2. CASE ~Due(Wire[k])
    BY <1>3, <2>2
  <2>3. QED
    BY <2>1, <2>2
<1>5. PICK S : S = 1..n
  OBVIOUS
<1>6. IsFiniteSet(S) /\ (\A k \in S : f[k] \in Int) /\ (Matched => \A k \in S : f[k] \in Nat)
  BY <1>2, <1>4, <1>5, FS_Interval
<1>7. Owed(o) = SumFunctionOnSet(f, S)
  BY <1>1, <1>3, <1>5 DEF Owed, SumFunction
<1>8. Owed(o) \in Int
  BY <1>6, <1>7, SumInt DEF IntOn
<1>9. Matched => Owed(o) \in Nat
  BY <1>6, <1>7, SumNat
<1>10. QED
  BY <1>1, <1>3, <1>4, <1>5, <1>7, <1>8, <1>9

\* The same holds of the next state.
LEMMA FactsNext == RecoveryInv' => WireFacts' /\ OwedFacts'
BY WireHasEvents, OwedParts, PTL

\* Nothing is owed to an order that the wire does not mention.
LEMMA NothingOwed ==
  ASSUME RecoveryInv, NEW o, \A k \in DOMAIN Wire : o \notin Mentions(Wire[k])
  PROVE  Owed(o) = 0
<1>1. PICK f, n, S : f = OwedAt(o) /\ n = Len(Wire) /\ S = 1..Len(Wire)
  OBVIOUS
<1>2. DOMAIN Wire = S /\ S = 1..n /\ n \in Nat /\ Owed(o) = SumFunctionOnSet(f, S)
  BY <1>1, WireHasEvents, OwedParts DEF WireFacts, OwedFacts
<1>3. ASSUME NEW k \in S PROVE f[k] = 0
  <2>1. f[k] = IF Due(Wire[k]) THEN PartOf(Wire[k], o) ELSE 0
    BY <1>1, OwedParts DEF OwedFacts
  <2>2. Wire[k].kind = "settle" => PartOf(Wire[k], o) = 0
    BY <1>2 DEF Mentions, PartOf
  <2>3. QED
    BY <2>1, <2>2 DEF Due
<1>4. IsFiniteSet(S)
  BY <1>2, FS_Interval
<1>5. QED
  BY <1>2, <1>3, <1>4, SumZero

-----------------------------------------------------------------------------
(* What is owed before and after a step *)

\* The parts before and after a step.
LEMMA PartsBefore ==
  ASSUME RecoveryInv, NEW o, NEW f, f = OwedAt(o), NEW n, n = Len(Wire)
  PROVE  /\ n \in Nat /\ DOMAIN Wire = 1..n /\ IsFiniteSet(1..n)
         /\ \A k \in 1..n : f[k] \in Int
         /\ Owed(o) = SumFunctionOnSet(f, 1..n)
<1>1. n \in Nat /\ DOMAIN Wire = 1..n
  BY WireHasEvents DEF WireFacts
<1>2. (\A k \in 1..n : f[k] \in Int) /\ Owed(o) = SumFunctionOnSet(f, 1..n)
  BY OwedParts DEF OwedFacts
<1>3. QED
  BY <1>1, <1>2, FS_Interval

\* The same of the next state.
LEMMA PartsAfter ==
  ASSUME RecoveryInv', NEW o, NEW g, g = OwedAt(o)', NEW n, n = Len(Wire')
  PROVE  /\ n \in Nat /\ DOMAIN Wire' = 1..n /\ IsFiniteSet(1..n)
         /\ \A k \in 1..n : g[k] \in Int
         /\ Owed(o)' = SumFunctionOnSet(g, 1..n)
<1>1. n \in Nat /\ DOMAIN Wire' = 1..n
  BY FactsNext DEF WireFacts
<1>2. (\A k \in 1..n : g[k] \in Int) /\ Owed(o)' = SumFunctionOnSet(g, 1..n)
  BY FactsNext DEF OwedFacts
<1>3. QED
  BY <1>1, <1>2, FS_Interval

\* Sums of functions that agree.
LEMMA SumAgree ==
  ASSUME NEW n \in Nat, NEW f, NEW g, \A k \in 1..n : f[k] \in Int, \A k \in 1..n : g[k] = f[k]
  PROVE  SumFunctionOnSet(g, 1..n) = SumFunctionOnSet(f, 1..n) /\ SumFunctionOnSet(f, 1..n) \in Int
<1>1. PICK S : S = 1..n
  OBVIOUS
<1>2. IsFiniteSet(S) /\ IntOn(f, S) /\ \A k \in S : g[k] = f[k]
  BY <1>1, FS_Interval DEF IntOn
<1>3. QED
  BY <1>1, <1>2, SumSame, SumInt

\* Where each part stays the same, so does what is owed.
LEMMA OwedSame ==
  ASSUME RecoveryInv, RecoveryInv', NEW o, Len(Wire') = Len(Wire),
         \A k \in DOMAIN Wire : OwedAt(o)'[k] = OwedAt(o)[k]
  PROVE  Owed(o)' = Owed(o)
<1>1. PICK f, g, n : f = OwedAt(o) /\ g = OwedAt(o)' /\ n = Len(Wire) /\ n = Len(Wire')
  OBVIOUS
<1>2. /\ n \in Nat /\ DOMAIN Wire = 1..n /\ \A k \in 1..n : f[k] \in Int
      /\ Owed(o) = SumFunctionOnSet(f, 1..n)
  BY <1>1, PartsBefore
<1>3. Owed(o)' = SumFunctionOnSet(g, 1..n)
  BY <1>1, PartsAfter
<1>4. \A k \in 1..n : g[k] = f[k]
  BY <1>1, <1>2
<1>5. QED
  BY <1>2, <1>3, <1>4, SumAgree

\* A new event at the end of the wire adds its part.
LEMMA OwedMore ==
  ASSUME RecoveryInv, RecoveryInv', NEW o, Len(Wire') = Len(Wire) + 1,
         \A k \in DOMAIN Wire : OwedAt(o)'[k] = OwedAt(o)[k]
  PROVE  Owed(o)' = Owed(o) + OwedAt(o)'[Len(Wire) + 1]
<1>1. PICK f, g, n : f = OwedAt(o) /\ g = OwedAt(o)' /\ n = Len(Wire) /\ n + 1 = Len(Wire')
  OBVIOUS
<1>2. /\ n \in Nat /\ DOMAIN Wire = 1..n /\ \A k \in 1..n : f[k] \in Int
      /\ Owed(o) = SumFunctionOnSet(f, 1..n)
  BY <1>1, PartsBefore
<1>3. (\A k \in 1..(n + 1) : g[k] \in Int) /\ Owed(o)' = SumFunctionOnSet(g, 1..(n + 1))
  BY <1>1, PartsAfter
<1>4. \A k \in 1..n : g[k] = f[k]
  BY <1>1, <1>2
<1>5. SumFunctionOnSet(g, 1..n) = SumFunctionOnSet(f, 1..n)
  BY <1>2, <1>4, SumAgree
<1>6. SumFunctionOnSet(g, 1..(n + 1)) = SumFunctionOnSet(g, 1..n) + g[n + 1]
  BY <1>2, <1>3, SumLast
<1>7. QED
  BY <1>1, <1>2, <1>3, <1>5, <1>6

\* The last event takes its part with it.
LEMMA OwedLess ==
  ASSUME RecoveryInv, RecoveryInv', NEW o, Len(Wire) = Len(Wire') + 1,
         \A k \in DOMAIN Wire' : OwedAt(o)'[k] = OwedAt(o)[k]
  PROVE  Owed(o) = Owed(o)' + OwedAt(o)[Len(Wire)]
<1>1. PICK f, g, n : f = OwedAt(o) /\ g = OwedAt(o)' /\ n = Len(Wire') /\ n + 1 = Len(Wire)
  OBVIOUS
<1>2. (\A k \in 1..(n + 1) : f[k] \in Int) /\ Owed(o) = SumFunctionOnSet(f, 1..(n + 1))
  BY <1>1, PartsBefore
<1>3. /\ n \in Nat /\ DOMAIN Wire' = 1..n /\ \A k \in 1..n : g[k] \in Int
      /\ Owed(o)' = SumFunctionOnSet(g, 1..n)
  BY <1>1, PartsAfter
<1>4. \A k \in 1..n : f[k] = g[k]
  BY <1>1, <1>3
<1>5. SumFunctionOnSet(f, 1..n) = SumFunctionOnSet(g, 1..n)
  BY <1>3, <1>4, SumAgree
<1>6. SumFunctionOnSet(f, 1..(n + 1)) = SumFunctionOnSet(f, 1..n) + f[n + 1]
  BY <1>2, <1>3, SumLast
<1>7. QED
  BY <1>1, <1>2, <1>3, <1>5, <1>6

\* The first event takes its part with it.
LEMMA OwedBehind ==
  ASSUME RecoveryInv, RecoveryInv', NEW o, Len(Wire) = Len(Wire') + 1,
         \A k \in DOMAIN Wire' : OwedAt(o)'[k] = OwedAt(o)[k + 1]
  PROVE  Owed(o) = Owed(o)' + OwedAt(o)[1]
<1>1. PICK f, g, n : f = OwedAt(o) /\ g = OwedAt(o)' /\ n = Len(Wire') /\ n + 1 = Len(Wire)
  OBVIOUS
<1>2. (\A k \in 1..(n + 1) : f[k] \in Int) /\ Owed(o) = SumFunctionOnSet(f, 1..(n + 1))
  BY <1>1, PartsBefore
<1>3. /\ n \in Nat /\ DOMAIN Wire' = 1..n /\ Owed(o)' = SumFunctionOnSet(g, 1..n)
  BY <1>1, PartsAfter
<1>4. \A k \in 1..n : g[k] = f[k + 1]
  BY <1>1, <1>3
<1>5. SumFunctionOnSet(f, 1..(n + 1)) = SumFunctionOnSet(g, 1..n) + f[1]
  BY <1>2, <1>3, <1>4, SumFirst
<1>6. QED
  BY <1>1, <1>2, <1>3, <1>5

\* The first event stays, but is due no longer.
LEMMA OwedSettled ==
  ASSUME RecoveryInv, RecoveryInv', NEW o, Len(Wire') = Len(Wire), 1 \in DOMAIN Wire,
         OwedAt(o)'[1] = 0,
         \A k \in DOMAIN Wire : k # 1 => OwedAt(o)'[k] = OwedAt(o)[k]
  PROVE  Owed(o) = Owed(o)' + OwedAt(o)[1]
<1>1. PICK f, g, n : f = OwedAt(o) /\ g = OwedAt(o)' /\ n = Len(Wire) /\ n = Len(Wire')
  OBVIOUS
<1>2. PICK S : S = 1..n
  OBVIOUS
<1>3. /\ DOMAIN Wire = S /\ IsFiniteSet(S) /\ \A k \in S : f[k] \in Int
      /\ Owed(o) = SumFunctionOnSet(f, S)
  BY <1>1, <1>2, PartsBefore
<1>4. Owed(o)' = SumFunctionOnSet(g, S)
  BY <1>1, <1>2, PartsAfter
<1>5. 1 \in S /\ g[1] = 0 /\ f[1] \in Int /\ \A k \in S \ {1} : g[k] = f[k]
  BY <1>1, <1>3
<1>6. SumFunctionOnSet(f, S) \in Int
  BY <1>3, SumInt DEF IntOn
<1>7. SumFunctionOnSet(g, S) = SumFunctionOnSet(f, S) + g[1] - f[1]
  BY <1>3, <1>5, SumUpdate DEF IntOn
<1>8. QED
  BY <1>1, <1>3, <1>4, <1>5, <1>6, <1>7

-----------------------------------------------------------------------------
(* Steps that change little *)

\* No event is new.
LEMMA LedgerSame ==
  ASSUME HandoverInv, Recorded', committed' = pos', out' = <<>> \/ UNCHANGED <<out, term>>,
         Reported' \subseteq Reported
  PROVE  Ledger'
<1>1. Ledger
  BY DEF HandoverInv
<1>2. out' # <<>> => out'[1].token = term'
  BY <1>1 DEF Ledger
<1>3. OneTaker'
  BY <1>1 DEF Ledger, OneTaker
<1>4. QED
  BY <1>2, <1>3 DEF Ledger

\* The records are the same.
LEMMA SameRecords ==
  ASSUME HandoverInv, UNCHANGED <<orders, outbox>>, DOMAIN rows' = DOMAIN rows
  PROVE  Recorded' /\ (clean => RecordsOnce')
<1>1. Recorded'
  BY DEF HandoverInv, Ledger, Recorded, Placed
<1>2. clean => RecordsOnce'
  BY DEF HandoverInv, OnWire, RecordsOnce
<1>3. QED
  BY <1>1, <1>2

\* The wire says the same, and every row and every queue is the same.
LEMMA SameView ==
  ASSUME RecoveryInv, RecoveryInv', HandoverInv, clean, UNCHANGED <<rows, book, restored>>,
         Len(Wire') = Len(Wire),
         \A k \in DOMAIN Wire : Alike(Wire'[k], Wire[k]) /\ (Stale(Wire[k])' <=> Stale(Wire[k])),
         Gives', RecordsOnce', \A o \in DOMAIN rows : Waiting(o)' <=> Waiting(o),
         leader' # "down" => leader # "down"
  PROVE  OnWire' /\ (leader' # "down" => InBook')
<1>1. OnWire /\ (leader' # "down" => InBook)
  BY DEF HandoverInv
<1>2. DOMAIN Wire' = DOMAIN Wire
  BY WireHasEvents, FactsNext DEF WireFacts
<1>3. \A o \in DOMAIN rows : Active(o)' <=> Active(o)
  BY DEF Active
<1>4. \A k \in DOMAIN Wire : Wire[k].kind = "settle" \/ Wire[k].kind = "canceled"
  <2>1. \A k \in DOMAIN Wire : Wire[k] \in Event
    BY WireHasEvents DEF WireFacts
  <2>2. QED
    BY <2>1, EventFields
<1>5. \A k \in DOMAIN Wire : /\ Due(Wire[k])' <=> Due(Wire[k])
                             /\ Mentions(Wire'[k]) = Mentions(Wire[k])
  BY <1>4 DEF Due, Stale, Alike, Mentions
<1>6. \A o : Owed(o)' = Owed(o)
  <2> SUFFICES ASSUME NEW o PROVE Owed(o)' = Owed(o)
    OBVIOUS
  <2>1. ASSUME NEW k \in DOMAIN Wire PROVE OwedAt(o)'[k] = OwedAt(o)[k]
    <3>1. k \in 1..Len(Wire) /\ k \in 1..Len(Wire')
      BY WireHasEvents DEF WireFacts
    <3>2. OwedAt(o)[k] = IF Due(Wire[k]) THEN PartOf(Wire[k], o) ELSE 0
      BY <3>1, OwedParts DEF OwedFacts
    <3>3. OwedAt(o)'[k] = IF Due(Wire[k])' THEN PartOf(Wire'[k], o) ELSE 0
      BY <3>1, FactsNext DEF OwedFacts
    <3>4. Due(Wire[k]) => PartOf(Wire'[k], o) = PartOf(Wire[k], o)
      BY DEF Due, Alike, PartOf
    <3>5. QED
      BY <1>5, <3>2, <3>3, <3>4
  <2>2. QED
    BY <2>1, OwedSame
<1>7. \A o : Withdrawn(o)' <=> Withdrawn(o)
  BY <1>2 DEF Withdrawn, Stale, Alike
<1>8. \A o : Rests(o)' <=> Rests(o)
  BY DEF Rests
<1>9. QueuesOnce'
  BY <1>1 DEF OnWire, QueuesOnce
<1>10. Matched'
  <2>1. ASSUME NEW k \in DOMAIN Wire', Wire'[k].kind = "settle"
        PROVE  /\ Wire'[k].left + Total(Wire'[k].fills) = rows'[Wire'[k].taker].req.qty
               /\ rows'[Wire'[k].taker].req.type = "limit" => DOMAIN Wire'[k].fills # {}
               /\ Due(Wire[k])' => \A m \in DOMAIN Wire'[k].fills : Active(m)'
    <3>1. /\ k \in DOMAIN Wire /\ Wire[k].kind = "settle" /\ Wire'[k].taker = Wire[k].taker
          /\ Wire'[k].fills = Wire[k].fills /\ Wire'[k].left = Wire[k].left
      BY <1>2, <2>1 DEF Alike
    <3>2. /\ Wire[k].left + Total(Wire[k].fills) = rows[Wire[k].taker].req.qty
          /\ rows[Wire[k].taker].req.type = "limit" => DOMAIN Wire[k].fills # {}
          /\ Due(Wire[k]) => \A m \in DOMAIN Wire[k].fills : Active(m)
      BY <1>1, <3>1 DEF OnWire, Matched
    <3>3. \A m : Active(m)' <=> Active(m)
      BY DEF Active
    <3>4. QED
      BY <1>5, <3>1, <3>2, <3>3
  <2>2. QED
    BY <2>1 DEF Matched
<1>11. Sequence'
  BY <1>1, <1>2, <1>5 DEF OnWire, Sequence, Stale, Alike
<1>12. Bounded'
  BY <1>1, <1>6 DEF OnWire, Bounded
<1>13. OnWire'
  BY <1>9, <1>10, <1>11, <1>12 DEF OnWire
<1>14. ASSUME leader' # "down" PROVE InBook'
  <2>1. Fresh'
    BY <1>1, <1>2, <1>5, <1>14 DEF InBook, Fresh
  <2>2. Resting'
    <3>1. \A s \in Sides : \A k \in DOMAIN book[s] : book[s][k].id \in DOMAIN rows
      <4> SUFFICES ASSUME NEW s \in Sides, NEW k \in DOMAIN book[s] PROVE book[s][k].id \in DOMAIN rows
        OBVIOUS
      <4>1. book[s] \in Queue(DOMAIN rows)
        BY DEF RecoveryInv, BookOK, Queue
      <4>2. QED
        BY <4>1, QueueEntries
    <3>2. QED
      BY <1>1, <1>3, <1>6, <1>7, <1>14, <3>1 DEF InBook, Resting
  <2>3. Complete'
    BY <1>1, <1>3, <1>6, <1>7, <1>8, <1>14 DEF InBook, Complete
  <2>4. QED
    BY <2>1, <2>2, <2>3 DEF InBook
<1>15. QED
  BY <1>13, <1>14

\* The tables, the book and the wire are as they were.
LEMMA QuietStep ==
  ASSUME RecoveryInv, RecoveryInv', HandoverInv,
         UNCHANGED <<rows, trades, book, settlements, out, term, restored>>, clean' => clean,
         committed' = pos', Recorded', clean => RecordsOnce',
         \A o \in DOMAIN rows : Waiting(o)' <=> Waiting(o), leader' # "down" => leader # "down"
  PROVE  HandoverInv'
<1>1. Wire' = Wire /\ Reported' = Reported
  BY DEF Wire, Reported
<1>2. Ledger'
  BY <1>1, LedgerSame
<1>3. ASSUME clean' PROVE OnWire' /\ (leader' # "down" => InBook')
  <2>1. Gives'
    BY <1>1, <1>3 DEF HandoverInv, OnWire, Matched, Gives
  <2>2. \A k \in DOMAIN Wire : Alike(Wire'[k], Wire[k]) /\ (Stale(Wire[k])' <=> Stale(Wire[k]))
    BY <1>1 DEF Alike, Stale
  <2>3. clean /\ Len(Wire') = Len(Wire) /\ UNCHANGED <<rows, book, restored>>
        /\ (\A o \in DOMAIN rows : Waiting(o)' <=> Waiting(o)) /\ RecordsOnce'
    BY <1>1, <1>3
  <2>4. QED
    BY <2>1, <2>2, <2>3, SameView
<1>4. QED
  BY <1>2, <1>3 DEF HandoverInv

\* A leader that leaves has the same book.
LEMMA StepDownKeepsBook ==
  ASSUME RecoveryInv, RecoveryInv', HandoverInv, StepDown
  PROVE  HandoverInv'
<1>1. UNCHANGED <<rows, trades, outbox, book, settlements, out, term, orders, pos, committed,
                  handled, clean, restored>> /\ leader # "down"
  BY DEF StepDown, dbVars, logVars, historyVars
<1>2. \A o : Waiting(o)' <=> Waiting(o)
  BY <1>1 DEF Waiting, NextPos, Idle, Placed
<1>3. committed' = pos'
  BY <1>1 DEF HandoverInv, Ledger
<1>4. Recorded' /\ (clean => RecordsOnce')
  BY <1>1, SameRecords
<1>5. QED
  BY <1>1, <1>2, <1>3, <1>4, QuietStep

\* Committing a record is no news to the orders: its handler was done.
LEMMA CommitOffsetKeepsBook ==
  ASSUME RecoveryInv, RecoveryInv', HandoverInv, CommitOffset
  PROVE  HandoverInv'
<1>1. /\ UNCHANGED <<rows, trades, outbox, book, settlements, out, term, orders, leader, clean,
                     restored>>
      /\ handled /\ committed' = pos + 1 /\ pos' = pos + 1 /\ handled' = FALSE
  BY DEF CommitOffset, dbVars, historyVars
<1>2. out = <<>>
  BY <1>1 DEF RecoveryInv, LogOK
<1>3. NextPos' = NextPos
  BY <1>1, <1>2 DEF NextPos, Idle
<1>4. \A o : Waiting(o)' <=> Waiting(o)
  BY <1>1, <1>3 DEF Waiting, Placed
<1>5. Recorded' /\ (clean => RecordsOnce')
  BY <1>1, SameRecords
<1>6. QED
  BY <1>1, <1>4, <1>5, QuietStep

\* A record is added to the topic.
LEMMA LongerLog ==
  ASSUME RecoveryInv, NEW record, orders' = Append(orders, record), UNCHANGED <<pos, out, handled>>
  PROVE  /\ Len(orders) \in Nat /\ Len(orders') = Len(orders) + 1 /\ Len(orders) <= Len(orders')
         /\ DOMAIN orders = 1..Len(orders) /\ DOMAIN orders' = 1..(Len(orders) + 1)
         /\ DOMAIN orders \subseteq DOMAIN orders'
         /\ \A k \in DOMAIN orders : orders'[k] = orders[k]
         /\ orders'[Len(orders) + 1] = record
         /\ NextPos' = NextPos /\ NextPos \in 1..(Len(orders) + 1)
<1>1. PICK s, t, n : s = orders /\ t = orders' /\ n = Len(s)
  OBVIOUS
<1>2. PICK R : s \in Seq(R)
  BY <1>1 DEF RecoveryInv, LogOK
<1>3. /\ n \in Nat /\ Len(t) = n + 1 /\ DOMAIN s = 1..n /\ DOMAIN t = 1..(n + 1)
      /\ (\A k \in 1..n : t[k] = s[k]) /\ t[n + 1] = record
  BY <1>1, <1>2
<1>4. NextPos' = NextPos
  BY DEF NextPos, Idle
<1>5. NextPos \in 1..(n + 1)
  BY <1>1, <1>3 DEF NextPos, RecoveryInv, LogOK
<1>6. n <= n + 1 /\ 1..n \subseteq 1..(n + 1)
  BY <1>3
<1>7. QED
  BY <1>1, <1>3, <1>4, <1>5, <1>6

\* A cancellation is a record that places nothing.
LEMMA CancelOrderKeepsBook ==
  ASSUME RecoveryInv, RecoveryInv', HandoverInv, CancelOrder
  PROVE  HandoverInv'
<1>1. PICK o : outbox' = outbox \cup {Cancel(o)}
  BY DEF CancelOrder
<1>2. UNCHANGED <<rows, trades, book, settlements, out, term, orders, pos, committed, handled,
                  leader, clean, restored>>
  BY DEF CancelOrder, logVars, engineVars, historyVars
<1>3. Cancel(o).kind # "placed" /\ \A p : Placed(p) # Cancel(o)
  BY DEF Cancel, Placed
<1>4. \A p : Placed(p) \in outbox' <=> Placed(p) \in outbox
  BY <1>1, <1>3
<1>5. \A p : Waiting(p)' <=> Waiting(p)
  BY <1>2, <1>4 DEF Waiting, NextPos, Idle, Placed
<1>6. Recorded'
  BY <1>2, <1>4 DEF HandoverInv, Ledger, Recorded, Placed
<1>7. ASSUME clean PROVE RecordsOnce'
  <2>1. RecordsOnce
    BY <1>7 DEF HandoverInv, OnWire
  <2>2. QED
    BY <1>1, <1>2, <1>3, <2>1 DEF RecordsOnce
<1>8. committed' = pos'
  BY <1>2 DEF HandoverInv, Ledger
<1>9. QED
  BY <1>2, <1>5, <1>6, <1>7, <1>8, QuietStep

\* A record that is sent waits in the topic.
LEMMA SendKeepsBook ==
  ASSUME RecoveryInv, RecoveryInv', HandoverInv, Send
  PROVE  HandoverInv'
<1>1. PICK record : /\ record \in outbox /\ orders' = Append(orders, record)
                    /\ outbox' = outbox \ {record}
  BY DEF Send
<1>2. UNCHANGED <<rows, trades, book, settlements, out, term, pos, committed, handled,
                  leader, clean, restored>>
  BY DEF Send, engineVars, historyVars
<1>3. PICK n : n = Len(orders)
  OBVIOUS
<1>4. /\ n \in Nat /\ Len(orders') = n + 1
      /\ DOMAIN orders = 1..n /\ DOMAIN orders' = 1..(n + 1)
      /\ \A k \in 1..n : orders'[k] = orders[k]
      /\ orders'[n + 1] = record
      /\ NextPos' = NextPos /\ NextPos \in 1..(n + 1)
  BY <1>1, <1>2, <1>3, LongerLog
<1>5. \A o : Waiting(o)' <=> Waiting(o)
  <2> SUFFICES ASSUME NEW o, NEW p, p = Placed(o) PROVE Waiting(o)' <=> Waiting(o)
    OBVIOUS
  <2>1. Waiting(o)' <=> p \in outbox' \/ \E k \in NextPos..(n + 1) : orders'[k] = p
    BY <1>4 DEF Waiting, Placed
  <2>2. Waiting(o) <=> p \in outbox \/ \E k \in NextPos..n : orders[k] = p
    BY <1>3 DEF Waiting
  <2>3. \A k \in NextPos..(n + 1) : k # n + 1 => k \in NextPos..n /\ orders'[k] = orders[k]
    BY <1>4
  <2>4. \A k \in NextPos..n : k \in NextPos..(n + 1) /\ orders'[k] = orders[k]
    BY <1>4
  <2>5. n + 1 \in NextPos..(n + 1)
    BY <1>4
  <2>6. QED
    BY <1>1, <1>4, <2>1, <2>2, <2>3, <2>4, <2>5
<1>6. Recorded'
  <2>1. \A k \in 1..n : k \in 1..(n + 1) /\ orders'[k] = orders[k]
    BY <1>4
  <2>2. n + 1 \in 1..(n + 1)
    BY <1>4
  <2>3. QED
    BY <1>1, <1>2, <1>4, <2>1, <2>2 DEF HandoverInv, Ledger, Recorded, Placed
<1>7. ASSUME clean PROVE RecordsOnce'
  <2>1. RecordsOnce
    BY <1>7 DEF HandoverInv, OnWire
  <2>2. ASSUME NEW j \in 1..(n + 1), orders'[j].kind = "placed"
        PROVE  /\ orders'[j] \notin outbox'
               /\ \A k \in 1..(n + 1) : orders'[k] = orders'[j] => j = k
    <3>1. \A k \in 1..(n + 1) : k # n + 1 => k \in 1..n
      BY <1>4
    <3>2. \A k \in 1..n : orders[k].kind = "placed" => orders[k] # record
      BY <1>1, <1>4, <2>1 DEF RecordsOnce
    <3>3. CASE j = n + 1
      BY <1>1, <1>4, <2>2, <3>1, <3>2, <3>3
    <3>4. CASE j # n + 1
      <4>1. j \in 1..n /\ orders'[j] = orders[j]
        BY <1>4, <3>1, <3>4
      <4>2. orders[j] \notin outbox /\ \A k \in 1..n : orders[k] = orders[j] => j = k
        BY <1>4, <2>1, <2>2, <4>1 DEF RecordsOnce
      <4>3. QED
        BY <1>1, <1>4, <2>2, <3>1, <3>2, <4>1, <4>2
    <3>5. QED
      BY <3>3, <3>4
  <2>3. QED
    BY <1>4, <2>2 DEF RecordsOnce
<1>8. committed' = pos'
  BY <1>2 DEF HandoverInv, Ledger
<1>9. QED
  BY <1>2, <1>5, <1>6, <1>7, <1>8, QuietStep

\* A record that is repeated or skipped, a commit that fails: the history is not clean.
LEMMA UncleanKeepsLedger ==
  ASSUME RecoveryInv, RecoveryInv', HandoverInv, Duplicate \/ CommitFails \/ SkipRecord
  PROVE  HandoverInv'
<1>1. /\ UNCHANGED <<rows, trades, outbox, settlements, out, term, pos, committed>>
      /\ clean' = FALSE
  BY DEF Duplicate, CommitFails, SkipRecord, dbVars, logVars, engineVars
<1>2. Reported' = Reported /\ committed' = pos'
  BY <1>1 DEF Reported, HandoverInv, Ledger
<1>3. DOMAIN orders \subseteq DOMAIN orders' /\ \A k \in DOMAIN orders : orders'[k] = orders[k]
  <2>1. CASE Duplicate
    <3>1. PICK record : orders' = Append(orders, record)
      BY <2>1 DEF Duplicate
    <3>2. UNCHANGED <<pos, out, handled>>
      BY <2>1 DEF Duplicate, engineVars
    <3>3. QED
      BY <3>1, <3>2, LongerLog
  <2>2. CASE orders' = orders
    BY <2>2
  <2>3. QED
    BY <2>1, <2>2 DEF CommitFails, SkipRecord, logVars
<1>4. Recorded'
  <2>1. Recorded
    BY DEF HandoverInv, Ledger
  <2>2. QED
    BY <1>1, <1>3, <2>1 DEF Recorded, Placed
<1>5. Ledger'
  BY <1>1, <1>2, <1>4, LedgerSame
<1>6. QED
  BY <1>1, <1>5 DEF HandoverInv

-----------------------------------------------------------------------------
(* Going down and publishing *)

\* Without a leader the event that was not published is gone.
LEMMA DownKeepsWire ==
  ASSUME RecoveryInv, RecoveryInv', HandoverInv, CancelConsumer \/ Crash
  PROVE  HandoverInv'
<1>1. /\ UNCHANGED <<rows, trades, outbox, settlements, orders, committed, pos, book, term,
                     clean, restored>>
      /\ out' = <<>> /\ leader' = "down"
  BY DEF CancelConsumer, Crash, dbVars, logVars, historyVars
<1>2. Reported' \subseteq Reported
  BY <1>1 DEF Reported, ToSet
<1>3. Ledger'
  <2>1. Recorded' /\ committed' = pos'
    BY <1>1, SameRecords DEF HandoverInv, Ledger
  <2>2. QED
    BY <1>1, <1>2, <2>1, LedgerSame
<1>4. ASSUME clean PROVE OnWire'
  <2>1. OnWire
    BY <1>4 DEF HandoverInv
  <2>2. PICK m : m = Len(settlements)
    OBVIOUS
  <2>3. /\ m \in Nat /\ DOMAIN Wire = 1..Len(Wire) /\ Len(Wire) = m + Len(out)
        /\ Len(out) \in {0, 1} /\ \A k \in 1..m : Wire[k] = settlements[k] /\ k \in DOMAIN Wire
    BY <2>2, WireHasEvents DEF WireFacts
  <2>4. DOMAIN Wire' = 1..m /\ Len(Wire') = m /\ \A k \in 1..m : Wire'[k] = Wire[k]
    <3>1. Len(out') = 0 /\ Len(settlements') = m
      BY <1>1, <2>2
    <3>2. /\ Len(Wire') = m /\ DOMAIN Wire' = 1..m
          /\ \A k \in 1..m : Wire'[k] = settlements'[k]
      BY <2>3, <3>1, FactsNext DEF WireFacts
    <3>3. QED
      BY <1>1, <2>3, <3>2
  <2>5. \A k \in 1..m : Due(Wire[k])' <=> Due(Wire[k])
    BY <1>1, <2>4 DEF Due, Stale
  <2>6. ASSUME NEW o PROVE Owed(o)' <= Owed(o)
    <3>1. \A k \in DOMAIN Wire' : OwedAt(o)'[k] = OwedAt(o)[k]
      <4> SUFFICES ASSUME NEW k \in DOMAIN Wire' PROVE OwedAt(o)'[k] = OwedAt(o)[k]
        OBVIOUS
      <4>1. k \in 1..m /\ k \in 1..Len(Wire) /\ k \in 1..Len(Wire')
        BY <2>3, <2>4
      <4>2. OwedAt(o)[k] = IF Due(Wire[k]) THEN PartOf(Wire[k], o) ELSE 0
        BY <4>1, OwedParts DEF OwedFacts
      <4>3. OwedAt(o)'[k] = IF Due(Wire[k])' THEN PartOf(Wire'[k], o) ELSE 0
        BY <4>1, FactsNext DEF OwedFacts
      <4>4. QED
        BY <2>4, <2>5, <4>1, <4>2, <4>3
    <3>2. Owed(o) \in Int /\ Owed(o)' \in Int
      BY OwedParts, FactsNext DEF OwedFacts
    <3>3. CASE Len(out) = 0
      <4>1. Len(Wire') = Len(Wire)
        BY <2>3, <2>4, <3>3
      <4>2. DOMAIN Wire' = DOMAIN Wire
        BY <2>3, <2>4, <4>1
      <4>3. Owed(o)' = Owed(o)
        BY <3>1, <4>1, <4>2, OwedSame
      <4>4. QED
        BY <3>2, <4>3
    <3>4. CASE Len(out) = 1
      <4>1. Len(Wire) = Len(Wire') + 1 /\ Len(Wire) \in 1..Len(Wire)
        BY <2>3, <2>4, <3>4
      <4>2. Owed(o) = Owed(o)' + OwedAt(o)[Len(Wire)]
        BY <3>1, <4>1, OwedLess
      <4>3. OwedAt(o)[Len(Wire)] \in Nat
        BY <2>1, <4>1, OwedParts DEF OwedFacts, OnWire
      <4>4. QED
        BY <3>2, <4>2, <4>3
    <3>5. QED
      BY <2>3, <3>3, <3>4
  <2>7. RecordsOnce' /\ QueuesOnce'
    BY <1>1, <2>1 DEF OnWire, RecordsOnce, QueuesOnce
  <2>8. Matched'
    <3>1. Gives'
      BY <1>2, <2>1 DEF OnWire, Matched, Gives
    <3>2. ASSUME NEW k \in DOMAIN Wire', Wire'[k].kind = "settle"
          PROVE  /\ Wire'[k].left + Total(Wire'[k].fills) = rows'[Wire'[k].taker].req.qty
                 /\ rows'[Wire'[k].taker].req.type = "limit" => DOMAIN Wire'[k].fills # {}
                 /\ Due(Wire[k])' => \A m1 \in DOMAIN Wire'[k].fills : Active(m1)'
      <4>1. k \in DOMAIN Wire /\ k \in 1..m /\ Wire'[k] = Wire[k]
        BY <2>3, <2>4
      <4>2. \A m1 : Active(m1)' <=> Active(m1)
        BY <1>1 DEF Active
      <4>3. /\ Wire[k].left + Total(Wire[k].fills) = rows[Wire[k].taker].req.qty
            /\ rows[Wire[k].taker].req.type = "limit" => DOMAIN Wire[k].fills # {}
            /\ Due(Wire[k]) => \A m1 \in DOMAIN Wire[k].fills : Active(m1)
        BY <2>1, <3>2, <4>1 DEF OnWire, Matched
      <4>4. QED
        BY <1>1, <2>5, <4>1, <4>2, <4>3
    <3>3. QED
      BY <3>1, <3>2 DEF Matched
  <2>9. Sequence'
    <3> SUFFICES ASSUME NEW j \in DOMAIN Wire', NEW k \in DOMAIN Wire', j < k,
                        ~Stale(Wire[j])', ~Stale(Wire[k])', Wire'[k].kind = "settle"
                 PROVE  /\ Wire'[k].taker \notin Mentions(Wire'[j])
                        /\ Wire'[j].kind = "canceled" => Wire'[j].order \notin DOMAIN Wire'[k].fills
      BY DEF Sequence
    <3>1. /\ j \in DOMAIN Wire /\ Wire'[j] = Wire[j] /\ k \in DOMAIN Wire /\ Wire'[k] = Wire[k]
          /\ term' = term
      BY <1>1, <2>3, <2>4
    <3>2. ~Stale(Wire[j]) /\ ~Stale(Wire[k])
      BY <3>1 DEF Stale
    <3>3. QED
      BY <2>1, <3>1, <3>2 DEF OnWire, Sequence
  <2>10. Bounded'
    <3> SUFFICES ASSUME NEW o \in DOMAIN rows PROVE rows[o].filled + Owed(o)' <= rows[o].req.qty
      BY <1>1 DEF Bounded
    <3>1. rows[o].filled + Owed(o) <= rows[o].req.qty
      BY <2>1 DEF OnWire, Bounded
    <3>2. rows[o].filled \in Int /\ rows[o].req.qty \in Int
      BY RowFields DEF RecoveryInv
    <3>3. Owed(o) \in Int /\ Owed(o)' \in Int
      BY OwedParts, FactsNext DEF OwedFacts
    <3>4. QED
      BY <2>6, <3>1, <3>2, <3>3
  <2>11. QED
    BY <2>7, <2>8, <2>9, <2>10 DEF OnWire
<1>5. QED
  BY <1>1, <1>3, <1>4 DEF HandoverInv

\* What is published says what was prepared.
LEMMA PublishKeepsBook ==
  ASSUME RecoveryInv, RecoveryInv', HandoverInv, Publish
  PROVE  HandoverInv'
<1>1. PICK old, token :
        /\ old = out[1] /\ settlements' = Append(settlements, [old EXCEPT !.token = token])
        /\ token = old.token \/ token = 0
  <2>1. PICK token \in {out[1].token} \cup (IF leader = "leaving" THEN {0} ELSE {}) :
          settlements' = Append(settlements, [out[1] EXCEPT !.token = token])
    BY DEF Publish
  <2>2. QED
    BY <2>1
<1>2. /\ out # <<>> /\ out' = <<>> /\ handled' = TRUE /\ leader # "down"
      /\ UNCHANGED <<rows, trades, outbox, orders, committed, pos, book, leader, term, clean,
                     restored>>
  BY DEF Publish, dbVars, logVars, historyVars
<1>3. old \in Event /\ old.token = term /\ term \in Nat /\ term # 0
  BY <1>1, <1>2, OutEvent DEF HandoverInv, Ledger, RecoveryInv, FlagsOK
<1>4. PICK e : e = [old EXCEPT !.token = token]
  OBVIOUS
<1>5. /\ e.kind = old.kind /\ e.token = token
      /\ e.kind = "settle" => /\ e.taker = old.taker /\ e.fills = old.fills /\ e.left = old.left
                              /\ e.id = old.id
      /\ e.kind = "canceled" => e.order = old.order
  <2>1. CASE old \in SettleEvent
    BY <1>4, <2>1 DEF SettleEvent
  <2>2. CASE old \in CanceledEvent
    BY <1>4, <2>2 DEF CanceledEvent
  <2>3. QED
    BY <1>3, <2>1, <2>2 DEF Event
<1>6. Alike(e, old)
  BY <1>5 DEF Alike
<1>7. PICK s, m : s = settlements /\ m = Len(s)
  OBVIOUS
<1>8. s \in Seq(Event) /\ m \in Nat /\ settlements' = Append(s, e)
  BY <1>1, <1>4, <1>7 DEF RecoveryInv, EventsOK
<1>9. Len(settlements') = m + 1 /\ settlements'[m + 1] = e /\ \A k \in 1..m : settlements'[k] = s[k]
  <2>1. PICK t : t = Append(s, e)
    OBVIOUS
  <2>2. Len(t) = m + 1 /\ t[m + 1] = e /\ \A k \in 1..m : t[k] = s[k]
    BY <1>7, <1>8, <2>1
  <2>3. QED
    BY <1>8, <2>1, <2>2
<1>10. /\ Len(Wire) = m + 1 /\ Wire[m + 1] = old /\ \A k \in 1..m : Wire[k] = s[k]
       /\ DOMAIN Wire = 1..(m + 1)
  BY <1>1, <1>2, <1>7, <1>8, WireHasEvents DEF WireFacts
<1>11. Len(Wire') = m + 1 /\ \A k \in 1..(m + 1) : Wire'[k] = settlements'[k]
  <2>1. Len(out') = 0
    BY <1>2
  <2>2. QED
    BY <1>8, <1>9, <2>1, FactsNext DEF WireFacts
<1>12. ASSUME NEW k \in DOMAIN Wire
       PROVE  Alike(Wire'[k], Wire[k]) /\ (Stale(Wire[k])' <=> Stale(Wire[k]))
  <2>1. CASE k = m + 1
    <3>1. Wire'[k] = e /\ Wire[k] = old
      BY <1>8, <1>9, <1>10, <1>11, <2>1
    <3>2. Stale(Wire[k])' <=> e.token > 0 /\ e.token # term
      BY <1>2, <3>1 DEF Stale
    <3>3. Stale(Wire[k]) <=> old.token > 0 /\ old.token # term
      BY <3>1 DEF Stale
    <3>4. ~Stale(Wire[k])' /\ ~Stale(Wire[k])
      BY <1>1, <1>3, <1>5, <3>2, <3>3
    <3>5. QED
      BY <1>6, <3>1, <3>4
  <2>2. CASE k # m + 1
    <3>1. k \in 1..m /\ k \in 1..(m + 1)
      BY <1>8, <1>10, <2>2
    <3>2. Wire'[k] = Wire[k]
      BY <1>9, <1>10, <1>11, <3>1
    <3>3. QED
      BY <1>2, <3>2 DEF Alike, Stale
  <2>3. QED
    BY <2>1, <2>2
<1>13. Reported' \subseteq Reported \cup {e} /\ old \in Reported
  <2>1. ToSet(settlements') = ToSet(settlements) \cup {e}
    BY <1>7, <1>8, SetOfAppend
  <2>2. ToSet(out') = {} /\ old \in ToSet(out)
    <3>1. 1 \in DOMAIN out
      BY <1>2 DEF RecoveryInv, EventsOK
    <3>2. QED
      BY <1>1, <1>2, <3>1 DEF ToSet
  <2>3. QED
    BY <1>2, <2>1, <2>2 DEF Reported
<1>14. Ledger'
  <2>1. Ledger
    BY DEF HandoverInv
  <2>2. ASSUME NEW x \in Reported', NEW y \in Reported', x.kind = "settle", y.kind = "settle",
               x.id = y.id
        PROVE  x.taker = y.taker
    <3>1. \A z \in Reported' : z.kind = "settle" =>
             \E v \in Reported : v.kind = "settle" /\ v.id = z.id /\ v.taker = z.taker
      BY <1>5, <1>13
    <3>2. PICK v \in Reported : v.kind = "settle" /\ v.id = x.id /\ v.taker = x.taker
      BY <2>2, <3>1
    <3>3. PICK w \in Reported : w.kind = "settle" /\ w.id = y.id /\ w.taker = y.taker
      BY <2>2, <3>1
    <3>4. v.taker = w.taker
      BY <2>1, <2>2, <3>2, <3>3 DEF Ledger, OneTaker
    <3>5. QED
      BY <3>2, <3>3, <3>4
  <2>3. committed' = pos' /\ Recorded'
    BY <1>2, <2>1, SameRecords DEF Ledger
  <2>4. OneTaker'
    BY <2>2 DEF OneTaker
  <2>5. QED
    BY <1>2, <2>3, <2>4 DEF Ledger
<1>15. ASSUME clean PROVE OnWire' /\ (leader' # "down" => InBook')
  <2>1. Gives'
    <3>1. Gives
      BY <1>15 DEF HandoverInv, OnWire, Matched
    <3>2. QED
      BY <1>5, <1>13, <3>1 DEF Gives
  <2>2. RecordsOnce'
    BY <1>2, <1>15, SameRecords
  <2>3. \A o : Waiting(o)' <=> Waiting(o)
    <3>1. NextPos' = NextPos
      BY <1>2 DEF NextPos, Idle
    <3>2. QED
      BY <1>2, <3>1 DEF Waiting, Placed
  <2>4. QED
    BY <1>2, <1>10, <1>11, <1>12, <1>15, <2>1, <2>2, <2>3, SameView
<1>16. QED
  BY <1>2, <1>14, <1>15 DEF HandoverInv

-----------------------------------------------------------------------------
(* Taking over *)

\* Events speak of orders that have a row.
LEMMA WireMentions ==
  ASSUME RecoveryInv, NEW k \in DOMAIN Wire
  PROVE  /\ Wire[k].kind = "settle" \/ Wire[k].kind = "canceled"
         /\ Mentions(Wire[k]) \subseteq DOMAIN rows
         /\ Wire[k].kind = "settle" => /\ Wire[k].taker \in DOMAIN rows
                                       /\ DOMAIN Wire[k].fills \subseteq DOMAIN rows
                                       /\ Wire[k].taker \notin DOMAIN Wire[k].fills
                                       /\ Wire[k] \in SettleEvent
         /\ Wire[k].kind = "canceled" => Wire[k].order \in DOMAIN rows
<1>1. PICK e : e = Wire[k]
  OBVIOUS
<1>2. e \in Event /\ e \in Reported
  BY <1>1, WireHasEvents DEF WireFacts
<1>3. Fits(e)
  BY <1>2 DEF RecoveryInv, EventsOK
<1>4. e.kind \in {"settle", "canceled"} /\ (e.kind = "settle" => e \in SettleEvent)
  BY <1>2, EventFields
<1>5. QED
  BY <1>1, <1>3, <1>4 DEF Fits, Mentions

\* Where nothing is due, nothing is owed.
LEMMA NothingDue ==
  ASSUME RecoveryInv', \A k \in DOMAIN Wire' : ~Due(Wire[k])', NEW o
  PROVE  Owed(o)' = 0
<1>1. PICK g, n, S : g = OwedAt(o)' /\ n = Len(Wire') /\ S = 1..n
  OBVIOUS
<1>2. DOMAIN Wire' = S /\ IsFiniteSet(S) /\ Owed(o)' = SumFunctionOnSet(g, S)
  BY <1>1, PartsAfter
<1>3. \A k \in S : g[k] = 0
  BY <1>1, <1>2, FactsNext DEF OwedFacts
<1>4. QED
  BY <1>2, <1>3, SumZero

\* A restored book holds every open order once, with what the row has left.
LEMMA RestoredBooks ==
  ASSUME RowsOK, RestoreBook
  PROVE  /\ QueuesOnce'
         /\ \A s \in Sides : \A k \in DOMAIN book'[s] : \E o \in DOMAIN rows :
              /\ Active(o) /\ book'[s][k].id = o
              /\ book'[s][k].qty = rows[o].req.qty - rows[o].filled
         /\ \A o \in DOMAIN rows : Active(o) => Rests(o)'
<1>1. ASSUME NEW s \in Sides
      PROVE  /\ \A j, k \in DOMAIN book'[s] : book'[s][j].id = book'[s][k].id => j = k
             /\ \A k \in DOMAIN book'[s] : \E o \in ActiveOf(s) : book'[s][k] = Restored(o)
             /\ \A o \in ActiveOf(s) : \E k \in DOMAIN book'[s] : book'[s][k].id = o
  <2>1. PICK q : q = book'[s]
    OBVIOUS
  <2>2. /\ \A k \in DOMAIN q : \E o \in ActiveOf(s) : q[k] = Restored(o)
        /\ \A o \in ActiveOf(s) : \E k \in DOMAIN q : q[k] = Restored(o)
        /\ \A j, k \in DOMAIN q : q[j].id = q[k].id => j = k
    BY <2>1, RestoredQueue
  <2>3. \A o : Restored(o).id = o
    BY DEF Restored
  <2>4. \A o \in ActiveOf(s) : \E k \in DOMAIN q : q[k].id = o
    BY <2>2, <2>3
  <2>5. QED
    BY <2>1, <2>2, <2>4
<1>2. QueuesOnce'
  BY <1>1 DEF QueuesOnce
<1>3. ASSUME NEW s \in Sides, NEW k \in DOMAIN book'[s]
      PROVE  \E o \in DOMAIN rows : /\ Active(o) /\ book'[s][k].id = o
                                     /\ book'[s][k].qty = rows[o].req.qty - rows[o].filled
  <2>1. PICK o \in ActiveOf(s) : book'[s][k] = Restored(o)
    BY <1>1
  <2>2. QED
    BY <2>1 DEF ActiveOf, Restored
<1>4. ASSUME NEW o \in DOMAIN rows, Active(o) PROVE Rests(o)'
  <2>1. PICK s : s = rows[o].req.side /\ s \in Sides
    BY RowFields
  <2>2. o \in ActiveOf(s)
    BY <1>4, <2>1 DEF ActiveOf
  <2>3. QED
    BY <1>1, <2>1, <2>2 DEF Rests
<1>5. QED
  BY <1>2, <1>3, <1>4

\* The new leader's book is the rows', for every settlement on its way is stale; or it
\* is empty.
LEMMA TakeOverKeepsBook ==
  ASSUME RecoveryInv, RecoveryInv', HandoverInv, TakeOver
  PROVE  HandoverInv'
<1>1. /\ leader = "down" /\ term' = term + 1 /\ leader' = "serving"
      /\ (RestoreBook /\ restored' = TRUE) \/ (RestoreFails /\ restored' = FALSE)
      /\ pos' = committed /\ clean' = (clean /\ AllHandled)
      /\ UNCHANGED <<rows, trades, outbox, orders, committed, out, handled, settlements>>
  BY DEF TakeOver, NewTerm, dbVars, logVars
<1>2. Idle /\ out = <<>> /\ Wire' = Wire /\ Reported' = Reported /\ RowsOK
  BY <1>1 DEF RecoveryInv, LogOK, Idle, Wire, Reported
<1>3. Ledger'
  <2>1. Recorded' /\ committed' = pos'
    BY <1>1, SameRecords
  <2>2. QED
    BY <1>1, <1>2, <2>1, LedgerSame
<1>4. ASSUME clean' PROVE OnWire' /\ InBook'
  <2>1. clean /\ AllHandled /\ OnWire
    BY <1>1, <1>4 DEF HandoverInv
  <2>2. ASSUME NEW k \in DOMAIN Wire' PROVE Stale(Wire[k])' /\ ~Due(Wire[k])'
    <3>1. PICK e : e = Wire[k]
      OBVIOUS
    <3>2. k \in 1..Len(settlements) /\ e = settlements[k] /\ e \in Reported
      <4>1. Len(out) = 0
        BY <1>2
      <4>2. QED
        BY <1>2, <3>1, <4>1, WireHasEvents DEF WireFacts
    <3>3. k \in DOMAIN settlements
      <4>1. settlements \in Seq(Event)
        BY DEF RecoveryInv, EventsOK
      <4>2. QED
        BY <3>2, <4>1
    <3>4. e.token > 0 /\ e.token \in 0..term /\ term \in Nat
      BY <2>1, <3>2, <3>3 DEF AllHandled, RecoveryInv, EventsOK, FlagsOK, Fits
    <3>5. e.token > 0 /\ e.token # term'
      BY <1>1, <3>4
    <3>6. Wire'[k] = e
      BY <1>2, <3>1
    <3>7. QED
      BY <3>5, <3>6 DEF Stale, Due
  <2>3. \A o : Owed(o)' = 0
    BY <2>2, NothingDue
  <2>4. \A o : ~Waiting(o)'
    <3>1. NextPos' = committed
      BY <1>1, <1>2 DEF NextPos, Idle
    <3>2. committed > Len(orders) /\ committed \in Nat /\ Len(orders) \in Nat
      BY <2>1 DEF AllHandled, RecoveryInv, LogOK
    <3>3. \A o : Placed(o) \notin outbox
      BY <2>1 DEF AllHandled, AllSent, Placed
    <3>4. NextPos'..Len(orders') = {}
      BY <1>1, <3>1, <3>2
    <3>5. \A o : Placed(o) \notin outbox'
      BY <1>1, <3>3
    <3>6. QED
      BY <3>4, <3>5 DEF Waiting, Placed
  <2>5. \A o : ~Withdrawn(o)'
    BY <2>2 DEF Withdrawn
  <2>6. \A o : Active(o)' <=> Active(o)
    BY <1>1 DEF Active
  <2>7. ASSUME NEW o \in DOMAIN rows
        PROVE  /\ rows[o].filled \in Int /\ rows[o].req.qty \in Int
               /\ rows[o].filled <= rows[o].req.qty
               /\ Active(o) => rows[o].filled < rows[o].req.qty
    <3>1. rows[o].filled \in Int /\ rows[o].req.qty \in Int
      BY <1>2, RowFields
    <3>2. rows[o].filled + Owed(o) <= rows[o].req.qty /\ Owed(o) \in Nat
      BY <2>1, OwedParts DEF OnWire, Bounded, OwedFacts
    <3>3. Active(o) => rows[o].filled # rows[o].req.qty
      BY <1>2 DEF RowsOK
    <3>4. QED
      BY <3>1, <3>2, <3>3
  <2>8. /\ QueuesOnce'
        /\ \A s \in Sides : \A k \in DOMAIN book'[s] : \E o \in DOMAIN rows :
             /\ Active(o) /\ book'[s][k].id = o
             /\ book'[s][k].qty = rows[o].req.qty - rows[o].filled
        /\ restored' => \A o \in DOMAIN rows : Active(o) => Rests(o)'
    <3>1. CASE RestoreBook
      BY <1>2, <3>1, RestoredBooks
    <3>2. CASE RestoreFails /\ restored' = FALSE
      <4>1. \A s \in Sides : DOMAIN book'[s] = {}
        BY <3>2 DEF RestoreFails
      <4>2. QueuesOnce'
        BY <4>1 DEF QueuesOnce
      <4>3. QED
        BY <3>2, <4>1, <4>2
    <3>3. QED
      BY <1>1, <3>1, <3>2
  <2>9. RecordsOnce'
    BY <1>1, <2>1, SameRecords
  <2>10. Matched'
    <3>1. Gives'
      BY <1>2, <2>1 DEF OnWire, Matched, Gives
    <3>2. QED
      BY <1>1, <1>2, <2>1, <2>2, <3>1 DEF OnWire, Matched
  <2>11. Sequence'
    BY <1>2, <2>2 DEF Sequence
  <2>12. Bounded'
    BY <1>1, <2>3, <2>7 DEF Bounded
  <2>13. Fresh'
    BY <2>4 DEF Fresh
  <2>14. Resting'
    <3> SUFFICES ASSUME NEW s \in Sides, NEW k \in DOMAIN book'[s], NEW o, o = book'[s][k].id
                 PROVE  /\ Active(o)' /\ ~Waiting(o)' /\ ~Withdrawn(o)'
                        /\ book'[s][k].qty > 0
                        /\ book'[s][k].qty + rows'[o].filled + Owed(o)' = rows'[o].req.qty
      BY DEF Resting
    <3>1. o \in DOMAIN rows /\ Active(o) /\ book'[s][k].qty = rows[o].req.qty - rows[o].filled
      BY <2>8
    <3>2. PICK a, b, c : a = rows[o].req.qty /\ b = rows[o].filled /\ c = book'[s][k].qty
      OBVIOUS
    <3>3. a \in Int /\ b \in Int /\ b < a /\ c = a - b
      BY <2>7, <3>1, <3>2
    <3>4. c > 0 /\ c + b + 0 = a
      BY <3>3
    <3>5. QED
      BY <1>1, <2>3, <2>4, <2>5, <2>6, <3>1, <3>2, <3>4
  <2>15. Complete'
    BY <1>1, <2>6, <2>8 DEF Complete
  <2>16. QED
    BY <2>8, <2>9, <2>10, <2>11, <2>12, <2>13, <2>14, <2>15 DEF OnWire, InBook
<1>5. QED
  BY <1>3, <1>4 DEF HandoverInv

-----------------------------------------------------------------------------
(* Placing an order *)

\* The wire is the same and so are the rows it speaks of: the same is owed.
LEMMA OwedByRows ==
  ASSUME RecoveryInv, RecoveryInv', Wire' = Wire, term' = term,
         \A k \in DOMAIN Wire : Wire[k].kind = "settle" =>
           rows'[Wire[k].taker].status = rows[Wire[k].taker].status
  PROVE  /\ \A k \in DOMAIN Wire : Due(Wire[k])' <=> Due(Wire[k])
         /\ \A o : Owed(o)' = Owed(o)
<1>1. \A k \in DOMAIN Wire : Due(Wire[k])' <=> Due(Wire[k])
  BY DEF Due, Stale
<1>2. ASSUME NEW o PROVE Owed(o)' = Owed(o)
  <2>1. ASSUME NEW k \in DOMAIN Wire PROVE OwedAt(o)'[k] = OwedAt(o)[k]
    <3>1. k \in 1..Len(Wire) /\ k \in 1..Len(Wire')
      BY WireHasEvents DEF WireFacts
    <3>2. OwedAt(o)[k] = IF Due(Wire[k]) THEN PartOf(Wire[k], o) ELSE 0
      BY <3>1, OwedParts DEF OwedFacts
    <3>3. OwedAt(o)'[k] = IF Due(Wire[k])' THEN PartOf(Wire'[k], o) ELSE 0
      BY <3>1, FactsNext DEF OwedFacts
    <3>4. QED
      BY <1>1, <3>2, <3>3
  <2>2. QED
    BY <2>1, OwedSame
<1>3. QED
  BY <1>1, <1>2

\* The orders in the book have a row.
LEMMA BookHasRows ==
  ASSUME RecoveryInv, NEW s \in Sides, NEW k \in DOMAIN book[s]
  PROVE  /\ book[s][k].id \in DOMAIN rows /\ rows[book[s][k].id].req.side = s
         /\ book[s][k].qty \in Int
<1>1. PICK E : E = [id : Of(s), qty : Int \ {0}]
  OBVIOUS
<1>2. book[s] \in Seq(E)
  BY <1>1 DEF RecoveryInv, BookOK
<1>3. book[s][k] \in E
  BY <1>2
<1>4. QED
  BY <1>1, <1>3 DEF Of

\* A placed order waits to be sent, and nobody has heard of it.
LEMMA PlaceOrderKeepsBook ==
  ASSUME RecoveryInv, RecoveryInv', HandoverInv, PlaceOrder
  PROVE  HandoverInv'
<1>1. PICK o, r :
        /\ o \notin DOMAIN rows /\ r \in Requests
        /\ rows' = [p \in DOMAIN rows \cup {o} |->
                      IF p = o THEN [req |-> r, filled |-> 0, status |-> "new"] ELSE rows[p]]
        /\ outbox' = outbox \cup {Placed(o)}
  BY DEF PlaceOrder
<1>2. UNCHANGED <<trades, orders, committed, pos, book, out, handled, leader, term, settlements,
                  clean, restored>>
  BY DEF PlaceOrder, logVars, engineVars, historyVars
<1>3. /\ DOMAIN rows' = DOMAIN rows \cup {o}
      /\ \A p \in DOMAIN rows : rows'[p] = rows[p] /\ p # o
      /\ rows'[o].req = r /\ rows'[o].filled = 0 /\ rows'[o].status = "new"
  BY <1>1
<1>4. \A p \in DOMAIN rows : Placed(p) \in outbox' <=> Placed(p) \in outbox
  BY <1>1, <1>3 DEF Placed
<1>5. \A j \in DOMAIN orders : orders[j].order \in DOMAIN rows
  <2>1. PICK R : R = RecordsOf(DOMAIN rows)
    OBVIOUS
  <2>2. orders \in Seq(R)
    BY <2>1 DEF RecoveryInv, LogOK, RecordsOf
  <2>3. \A j \in DOMAIN orders : orders[j] \in R
    BY <2>2
  <2>4. QED
    BY <2>1, <2>3 DEF RecordsOf
<1>6. \A j \in DOMAIN orders : orders[j] # Placed(o)
  BY <1>1, <1>5 DEF Placed
<1>7. Wire' = Wire /\ Reported' = Reported
  BY <1>2 DEF Wire, Reported
<1>8. Ledger
  BY DEF HandoverInv
<1>9. Recorded'
  BY <1>1, <1>2, <1>3, <1>4, <1>8 DEF Ledger, Recorded, Placed
<1>10. Ledger'
  <2>1. committed' = pos'
    BY <1>2, <1>8 DEF Ledger
  <2>2. QED
    BY <1>2, <1>7, <1>9, <2>1, LedgerSame
<1>11. ASSUME clean PROVE OnWire' /\ (leader' # "down" => InBook')
  <2>1. OnWire /\ (leader' # "down" => InBook)
    BY <1>2, <1>11 DEF HandoverInv
  <2>2. /\ \A k \in DOMAIN Wire : Due(Wire[k])' <=> Due(Wire[k])
        /\ \A p : Owed(p)' = Owed(p)
    BY <1>2, <1>3, <1>7, WireMentions, OwedByRows
  <2>3. \A k \in DOMAIN Wire : o \notin Mentions(Wire[k])
    BY <1>1, WireMentions
  <2>4. Owed(o)' = 0
    BY <2>2, <2>3, NothingOwed
  <2>5. \A p \in DOMAIN rows : Active(p)' <=> Active(p)
    BY <1>3 DEF Active
  <2>8. \A p \in DOMAIN rows : Waiting(p)' <=> Waiting(p)
    BY <1>2, <1>4 DEF Waiting, NextPos, Idle, Placed
  <2>9. Waiting(o)'
    BY <1>1 DEF Waiting, Placed
  <2>10. RecordsOnce'
    <3>1. RecordsOnce
      BY <2>1 DEF OnWire
    <3>2. QED
      BY <1>1, <1>2, <1>6, <3>1 DEF RecordsOnce
  <2>11. QueuesOnce'
    BY <1>2, <2>1 DEF OnWire, QueuesOnce
  <2>12. Matched'
    <3>1. Gives'
      BY <1>7, <2>1 DEF OnWire, Matched, Gives
    <3>2. ASSUME NEW k \in DOMAIN Wire, Wire[k].kind = "settle"
          PROVE  /\ Wire[k].left + Total(Wire[k].fills) = rows'[Wire[k].taker].req.qty
                 /\ rows'[Wire[k].taker].req.type = "limit" => DOMAIN Wire[k].fills # {}
                 /\ Due(Wire[k])' => \A p \in DOMAIN Wire[k].fills : Active(p)'
      <4>1. Wire[k].taker \in DOMAIN rows /\ DOMAIN Wire[k].fills \subseteq DOMAIN rows
        BY <3>2, WireMentions
      <4>2. /\ Wire[k].left + Total(Wire[k].fills) = rows[Wire[k].taker].req.qty
            /\ rows[Wire[k].taker].req.type = "limit" => DOMAIN Wire[k].fills # {}
            /\ Due(Wire[k]) => \A p \in DOMAIN Wire[k].fills : Active(p)
        BY <2>1, <3>2 DEF OnWire, Matched
      <4>3. QED
        BY <1>3, <2>2, <2>5, <4>1, <4>2
    <3>3. QED
      BY <1>7, <3>1, <3>2 DEF Matched
  <2>13. Sequence'
    BY <1>2, <1>7, <2>1 DEF OnWire, Sequence, Stale
  <2>14. Bounded'
    <3> SUFFICES ASSUME NEW p \in DOMAIN rows' PROVE rows'[p].filled + Owed(p)' <= rows'[p].req.qty
      BY DEF Bounded
    <3>1. CASE p = o
      <4>1. rows'[o].req.qty \in Nat
        <5>1. r.qty \in Nat
          BY <1>1, RequestsAssumption
        <5>2. QED
          BY <1>3, <5>1
      <4>2. QED
        BY <1>3, <2>4, <3>1, <4>1
    <3>2. CASE p # o
      BY <1>3, <2>1, <2>2, <3>2 DEF OnWire, Bounded
    <3>3. QED
      BY <3>1, <3>2
  <2>15. ASSUME leader' # "down" PROVE InBook'
    <3>1. Fresh'
      <4> SUFFICES ASSUME NEW p \in DOMAIN rows', Waiting(p)'
                   PROVE  /\ rows'[p].filled = 0 /\ rows'[p].status = "new"
                          /\ \A k \in DOMAIN Wire : p \notin Mentions(Wire[k])
        BY <1>7 DEF Fresh
      <4>1. CASE p = o
        BY <1>3, <2>3, <4>1
      <4>2. CASE p # o
        BY <1>3, <2>1, <2>8, <2>15, <4>2 DEF InBook, Fresh
      <4>3. QED
        BY <4>1, <4>2
    <3>2. \A p : Withdrawn(p)' <=> Withdrawn(p)
      BY <1>2, <1>7 DEF Withdrawn, Stale
    <3>3. Resting'
      <4> SUFFICES ASSUME NEW s \in Sides, NEW k \in DOMAIN book[s], NEW p, p = book[s][k].id
                   PROVE  /\ Active(p)' /\ ~Waiting(p)' /\ ~Withdrawn(p)'
                          /\ book'[s][k].qty > 0
                          /\ book'[s][k].qty + rows'[p].filled + Owed(p)' = rows'[p].req.qty
        BY <1>2 DEF Resting
      <4>1. p \in DOMAIN rows
        BY BookHasRows
      <4>2. /\ Active(p) /\ ~Waiting(p) /\ ~Withdrawn(p) /\ book[s][k].qty > 0
            /\ book[s][k].qty + rows[p].filled + Owed(p) = rows[p].req.qty
        BY <2>1, <2>15 DEF InBook, Resting
      <4>3. QED
        BY <1>2, <1>3, <2>2, <2>5, <2>8, <3>2, <4>1, <4>2
    <3>4. Complete'
      <4> SUFFICES ASSUME restored', NEW p \in DOMAIN rows', Active(p)', ~Waiting(p)',
                          ~Withdrawn(p)'
                   PROVE  Rests(p)' \/ rows'[p].filled + Owed(p)' = rows'[p].req.qty
        BY DEF Complete
      <4>1. p # o /\ p \in DOMAIN rows
        BY <1>3, <2>9
      <4>2. Rests(p)' <=> Rests(p)
        BY <1>2 DEF Rests
      <4>3. QED
        BY <1>2, <1>3, <2>1, <2>2, <2>5, <2>8, <2>15, <3>2, <4>1, <4>2 DEF InBook, Complete
    <3>5. QED
      BY <3>1, <3>3, <3>4 DEF InBook
  <2>16. QED
    BY <2>10, <2>11, <2>12, <2>13, <2>14, <2>15 DEF OnWire
<1>12. QED
  BY <1>2, <1>10, <1>11 DEF HandoverInv

-----------------------------------------------------------------------------
(* Handling a record *)

\* The handler has prepared an event.
LEMMA WireGrows ==
  ASSUME RecoveryInv, RecoveryInv', out = <<>>, UNCHANGED <<rows, trades, term, settlements>>,
         NEW e, out' = <<e>>, NEW n, n = Len(Wire)
  PROVE  /\ n \in Nat /\ DOMAIN Wire = 1..n /\ DOMAIN Wire' = 1..(n + 1) /\ Len(Wire') = n + 1
         /\ \A k \in 1..n : Wire'[k] = Wire[k] /\ (Due(Wire[k])' <=> Due(Wire[k]))
                            /\ (Stale(Wire[k])' <=> Stale(Wire[k]))
         /\ Wire'[n + 1] = e
         /\ \A o : Owed(o)' = Owed(o) + (IF Due(e) THEN PartOf(e, o) ELSE 0)
         /\ Reported' = Reported \cup {e}
<1>1. Len(out) = 0 /\ Len(out') = 1 /\ out'[1] = e /\ out' # <<>>
  OBVIOUS
<1>2. /\ n \in Nat /\ DOMAIN Wire = 1..n /\ n = Len(settlements)
      /\ \A k \in 1..n : Wire[k] = settlements[k]
  BY <1>1, WireHasEvents DEF WireFacts
<1>3. /\ Len(Wire') = n + 1 /\ DOMAIN Wire' = 1..(n + 1) /\ Wire'[n + 1] = e
      /\ \A k \in 1..n : Wire'[k] = settlements[k]
  BY <1>1, <1>2, FactsNext DEF WireFacts
<1>4. \A k \in 1..n : Wire'[k] = Wire[k] /\ (Due(Wire[k])' <=> Due(Wire[k]))
                      /\ (Stale(Wire[k])' <=> Stale(Wire[k]))
  BY <1>2, <1>3 DEF Due, Stale
<1>5. ASSUME NEW o PROVE Owed(o)' = Owed(o) + (IF Due(e) THEN PartOf(e, o) ELSE 0)
  <2>1. ASSUME NEW k \in DOMAIN Wire PROVE OwedAt(o)'[k] = OwedAt(o)[k]
    <3>1. k \in 1..Len(Wire) /\ k \in 1..Len(Wire') /\ k \in 1..n
      BY <1>2, <1>3
    <3>2. OwedAt(o)[k] = IF Due(Wire[k]) THEN PartOf(Wire[k], o) ELSE 0
      BY <3>1, OwedParts DEF OwedFacts
    <3>3. OwedAt(o)'[k] = IF Due(Wire[k])' THEN PartOf(Wire'[k], o) ELSE 0
      BY <3>1, FactsNext DEF OwedFacts
    <3>4. QED
      BY <1>4, <3>1, <3>2, <3>3
  <2>2. Owed(o)' = Owed(o) + OwedAt(o)'[n + 1]
    BY <1>3, <2>1, OwedMore
  <2>3. n + 1 \in 1..Len(Wire')
    BY <1>2, <1>3
  <2>4. OwedAt(o)'[n + 1] = IF Due(Wire[n + 1])' THEN PartOf(Wire'[n + 1], o) ELSE 0
    BY <2>3, FactsNext DEF OwedFacts
  <2>5. Due(Wire[n + 1])' <=> Due(e)
    BY <1>3 DEF Due, Stale
  <2>6. QED
    BY <1>3, <2>2, <2>4, <2>5
<1>6. Reported' = Reported \cup {e}
  <2>1. ToSet(out) = {} /\ ToSet(out') = {e}
    BY DEF ToSet
  <2>2. QED
    BY <2>1 DEF Reported
<1>7. QED
  BY <1>2, <1>3, <1>4, <1>5, <1>6

\* No order is twice in the book.
LEMMA DistinctEntries ==
  ASSUME RecoveryInv, HandoverInv, clean
  PROVE  \A s, t \in Sides : \A j \in DOMAIN book[s], k \in DOMAIN book[t] :
           book[s][j].id = book[t][k].id => s = t /\ j = k
<1>1. ASSUME NEW s \in Sides, NEW t \in Sides, NEW j \in DOMAIN book[s], NEW k \in DOMAIN book[t],
             book[s][j].id = book[t][k].id
      PROVE  s = t /\ j = k
  <2>1. s = t
    BY <1>1, BookHasRows
  <2>2. QED
    BY <1>1, <2>1 DEF HandoverInv, OnWire, QueuesOnce
<1>2. QED
  BY <1>1

\* A sequence without one of its elements.
LEMMA RemovedEntries ==
  ASSUME NEW T, NEW s \in Seq(T), NEW i \in DOMAIN s, NEW t, t = RemoveAt(s, i)
  PROVE  /\ DOMAIN t = 1..Len(t) /\ DOMAIN s = 1..Len(s) /\ Len(s) \in Nat /\ Len(t) \in Nat
         /\ Len(s) = Len(t) + 1
         /\ \A k \in DOMAIN t : t[k] = IF k < i THEN s[k] ELSE s[k + 1]
<1>1. PICK n, a, b : n = Len(s) /\ a = SubSeq(s, 1, i - 1) /\ b = SubSeq(s, i + 1, n)
  OBVIOUS
<1>2. n \in Nat /\ i \in 1..n /\ DOMAIN s = 1..n
  BY <1>1
<1>3. /\ a \in Seq(T) /\ Len(a) = i - 1 /\ \A k \in 1..(i - 1) : a[k] = s[k]
      /\ b \in Seq(T) /\ Len(b) = n - i /\ \A k \in 1..(n - i) : b[k] = s[i + k]
  <2>1. a \in Seq(T) /\ Len(a) = i - 1 /\ \A k \in 1..(i - 1) : a[k] = s[k]
    BY <1>1, <1>2
  <2>2. b \in Seq(T) /\ Len(b) = n - i
    BY <1>1, <1>2
  <2>3. \A k \in 1..(n - i) : b[k] = s[i + k]
    BY <1>1, <1>2
  <2>4. QED
    BY <2>1, <2>2, <2>3
<1>4. t = a \o b
  BY <1>1 DEF RemoveAt
<1>5. t \in Seq(T) /\ Len(t) = n - 1 /\ DOMAIN t = 1..(n - 1)
  <2>1. PICK x, y : x = Len(a) /\ y = Len(b)
    OBVIOUS
  <2>2. t \in Seq(T) /\ Len(t) = x + y /\ DOMAIN t = 1..Len(t)
    <3>1. a \in Seq(T) /\ b \in Seq(T)
      BY <1>3
    <3>2. t \in Seq(T)
      BY <1>4, <3>1
    <3>3. Len(t) = Len(a) + Len(b)
      BY <1>4, <3>1
    <3>4. QED
      BY <2>1, <3>2, <3>3
  <2>3. x + y = n - 1
    BY <1>2, <1>3, <2>1
  <2>4. QED
    BY <2>2, <2>3
<1>6. ASSUME NEW k \in 1..(n - 1) PROVE t[k] = IF k < i THEN s[k] ELSE s[k + 1]
  <2>1. t[k] = IF k <= i - 1 THEN a[k] ELSE b[k - (i - 1)]
    BY <1>2, <1>3, <1>4
  <2>2. CASE k < i
    BY <1>2, <1>3, <2>1, <2>2
  <2>3. CASE ~(k < i)
    <3>1. k - (i - 1) \in 1..(n - i) /\ i + (k - (i - 1)) = k + 1 /\ ~(k <= i - 1)
      BY <1>2, <2>3
    <3>2. PICK j : j = k - (i - 1)
      OBVIOUS
    <3>3. t[k] = b[j] /\ b[j] = s[i + j] /\ i + j = k + 1
      BY <1>3, <2>1, <3>1, <3>2
    <3>4. QED
      BY <2>3, <3>3
  <2>4. QED
    BY <2>2, <2>3
<1>7. QED
  BY <1>1, <1>2, <1>5, <1>6

\* The record at hand is no placement of another, and those of waiting orders follow.
LEMMA NextRecord ==
  ASSUME RecoveryInv, NEW kind, Ready(kind), UNCHANGED <<orders, outbox, pos>>,
         out' # <<>> \/ handled'
  PROVE  /\ NextPos = pos /\ NextPos' = pos + 1 /\ pos \in Nat /\ Len(orders) \in Nat
         /\ pos \in DOMAIN orders /\ pos \in pos..Len(orders) /\ orders[pos].kind = kind
         /\ \A p : Waiting(p) <=> Waiting(p)' \/ orders[pos] = Placed(p)
<1>1. NextPos = pos /\ NextPos' = pos + 1 /\ orders[pos].kind = kind
  BY DEF NextPos, Ready, Idle, Record
<1>2. PICK s, n : s = orders /\ n = Len(orders)
  OBVIOUS
<1>3. n \in Nat /\ pos \in 1..n /\ DOMAIN orders = 1..n
  <2>1. PICK R : s \in Seq(R)
    BY <1>2 DEF RecoveryInv, LogOK
  <2>2. pos <= n /\ pos \in 1..(n + 1)
    BY <1>2 DEF RecoveryInv, LogOK, Ready
  <2>3. QED
    BY <1>2, <2>1, <2>2
<1>4. ASSUME NEW p PROVE Waiting(p) <=> Waiting(p)' \/ orders[pos] = Placed(p)
  <2>1. Waiting(p) <=> Placed(p) \in outbox \/ \E k \in pos..n : orders[k] = Placed(p)
    BY <1>1, <1>2 DEF Waiting
  <2>2. Waiting(p)' <=> Placed(p) \in outbox \/ \E k \in (pos + 1)..n : orders[k] = Placed(p)
    BY <1>1, <1>2 DEF Waiting, Placed
  <2>3. \A k : k \in pos..n <=> k = pos \/ k \in (pos + 1)..n
    BY <1>3
  <2>4. QED
    BY <2>1, <2>2, <2>3
<1>5. QED
  BY <1>1, <1>2, <1>3, <1>4

\* What the new book keeps of the old one.
KeepsQueue(h, s, o) ==
  /\ h \in [DOMAIN book'[s] -> DOMAIN book[s]]
  /\ \A i, j \in DOMAIN book'[s] : i < j => h[i] < h[j]
  /\ \A i \in DOMAIN book'[s] : book'[s][i] = book[s][h[i]] /\ book[s][h[i]].id # o
  /\ \A k \in DOMAIN book[s] : book[s][k].id # o => \E i \in DOMAIN book'[s] : h[i] = k

\* A cancellation takes the one entry of its order.
LEMMA CancelTakesEntry ==
  ASSUME RecoveryInv, HandoverInv, clean, NEW side \in Sides, NEW o, NEW k, k # 0,
         k = EntryOf(book[side], o), book' = [book EXCEPT ![side] = RemoveAt(@, k)]
  PROVE  /\ k \in DOMAIN book[side] /\ book[side][k].id = o
         /\ \A s \in Sides : \E h : KeepsQueue(h, s, o)
<1>1. PICK q, E : q = book[side] /\ E = [id : DOMAIN rows, qty : Int]
  OBVIOUS
<1>2. q \in Seq(E) /\ book \in [Sides -> Seq(E)]
  BY <1>1 DEF RecoveryInv, BookOK
<1>3. k \in DOMAIN q /\ q[k].id = o
  BY <1>1, <1>2, EntryIsPosition
<1>4. PICK t : t = RemoveAt(q, k)
  OBVIOUS
<1>5. book'[side] = t /\ \A s \in Sides : s # side => book'[s] = book[s]
  BY <1>1, <1>2, <1>4
<1>6. PICK n, m : n = Len(q) /\ m = Len(t)
  OBVIOUS
<1>7. /\ DOMAIN t = 1..m /\ DOMAIN q = 1..n /\ n = m + 1 /\ n \in Nat /\ m \in Nat
      /\ \A i \in 1..m : t[i] = IF i < k THEN q[i] ELSE q[i + 1]
  <2>1. k \in DOMAIN q /\ q \in Seq(E)
    BY <1>2, <1>3
  <2>2. t = RemoveAt(q, k)
    BY <1>4
  <2>3. /\ DOMAIN t = 1..Len(t) /\ DOMAIN q = 1..Len(q) /\ Len(q) \in Nat /\ Len(t) \in Nat
        /\ Len(q) = Len(t) + 1
        /\ \A i \in DOMAIN t : t[i] = IF i < k THEN q[i] ELSE q[i + 1]
    BY <2>1, <2>2, RemovedEntries
  <2>4. QED
    BY <1>6, <2>3
<1>8. \A s \in Sides : \A i \in DOMAIN book[s] : book[s][i].id = o => s = side /\ i = k
  BY <1>1, <1>3, DistinctEntries
<1>9. ASSUME NEW s \in Sides PROVE \E h : KeepsQueue(h, s, o)
  <2>1. CASE s = side
    <3>1. PICK h : h = [i \in 1..m |-> IF i < k THEN i ELSE i + 1]
      OBVIOUS
    <3>2. k \in 1..n /\ \A i \in 1..m : h[i] = IF i < k THEN i ELSE i + 1
      BY <1>3, <1>7, <3>1
    <3>3. \A i \in 1..m : h[i] \in 1..n /\ h[i] # k
      BY <1>7, <3>2
    <3>4. h \in [1..m -> 1..n]
      BY <3>1, <3>3
    <3>5. \A i, j \in 1..m : i < j => h[i] < h[j]
      BY <3>2
    <3>6. \A i \in 1..m : t[i] = q[h[i]]
      BY <1>7, <3>2
    <3>7. \A i \in 1..n : i # k => \E j \in 1..m : h[j] = i
      <4> SUFFICES ASSUME NEW i \in 1..n, i # k PROVE \E j \in 1..m : h[j] = i
        OBVIOUS
      <4>1. CASE i < k
        <5>1. i \in 1..m /\ h[i] = i
          BY <1>7, <3>2, <4>1
        <5>2. QED
          BY <5>1
      <4>2. CASE ~(i < k)
        <5>1. i - 1 \in 1..m /\ h[i - 1] = i
          BY <1>7, <3>2, <4>2
        <5>2. QED
          BY <5>1
      <4>3. QED
        BY <4>1, <4>2
    <3>8. \A i \in 1..n : q[i].id = o <=> i = k
      BY <1>1, <1>3, <1>7, <1>8
    <3>9. KeepsQueue(h, side, o)
      <4>1. book'[side] = t /\ book[side] = q /\ DOMAIN t = 1..m /\ DOMAIN q = 1..n
        BY <1>1, <1>5, <1>7
      <4>2. \A i \in 1..m : t[i] = q[h[i]] /\ q[h[i]].id # o
        BY <3>3, <3>6, <3>8
      <4>3. \A i \in 1..n : q[i].id # o => \E j \in 1..m : h[j] = i
        BY <3>7, <3>8
      <4>4. QED
        BY <3>4, <3>5, <4>1, <4>2, <4>3 DEF KeepsQueue
    <3>10. QED
      BY <2>1, <3>9
  <2>2. CASE s # side
    <3>1. PICK h : h = [i \in DOMAIN book[s] |-> i]
      OBVIOUS
    <3>2. book'[s] = book[s] /\ \A i \in DOMAIN book[s] : book[s][i].id # o
      BY <1>5, <1>8, <2>2
    <3>3. KeepsQueue(h, s, o)
      BY <3>1, <3>2 DEF KeepsQueue
    <3>4. QED
      BY <3>3
  <2>3. QED
    BY <2>1, <2>2
<1>10. QED
  BY <1>1, <1>3, <1>9

\* An order that is withdrawn leaves the book; what is on the wire is as it was.
LEMMA HandleCancelKeepsBook ==
  ASSUME RecoveryInv, RecoveryInv', HandoverInv, HandleCancel
  PROVE  HandoverInv'
<1>1. PICK o, side, k : /\ o = Record.order /\ side = rows[o].req.side
                        /\ k = EntryOf(book[side], o)
  OBVIOUS
<1>2. PICK e : e = [kind |-> "canceled", order |-> o, token |-> term]
  OBVIOUS
<1>3. \/ /\ k # 0
         /\ book' = [book EXCEPT ![side] = RemoveAt(@, k)]
         /\ out' = <<e>>
         /\ handled' = FALSE
      \/ handled' = TRUE /\ UNCHANGED <<book, out>>
  BY <1>1, <1>2 DEF HandleCancel
<1>4. UNCHANGED <<rows, trades, outbox, orders, committed, pos, leader, term, settlements, clean,
                  restored>>
  BY DEF HandleCancel, dbVars, logVars, historyVars
<1>5. o \in DOMAIN rows /\ out = <<>> /\ leader = "serving" /\ Ready("cancel")
  BY <1>1, RecordFields DEF HandleCancel
<1>6. side \in Sides
  BY <1>1, <1>5, RowFields DEF RecoveryInv
<1>7. out' # <<>> \/ handled'
  <2>1. <<e>> # <<>>
    OBVIOUS
  <2>2. QED
    BY <1>3, <2>1
<1>8. \A p : Waiting(p)' <=> Waiting(p)
  <2>1. orders[pos].kind = "cancel" /\ \A p : Waiting(p) <=> Waiting(p)' \/ orders[pos] = Placed(p)
    BY <1>4, <1>5, <1>7, NextRecord
  <2>2. \A p : Placed(p).kind = "placed"
    BY DEF Placed
  <2>3. \A p : orders[pos] # Placed(p)
    BY <2>1, <2>2
  <2>4. QED
    BY <2>1, <2>3
<1>9. committed' = pos' /\ Recorded'
  BY <1>4, SameRecords DEF HandoverInv, Ledger
<1>10. CASE UNCHANGED <<book, out>>
  BY <1>4, <1>8, <1>9, <1>10, SameRecords, QuietStep
<1>11. CASE k # 0 /\ book' = [book EXCEPT ![side] = RemoveAt(@, k)] /\ out' = <<e>>
  <2>1. PICK n : n = Len(Wire)
    OBVIOUS
  <2>2. e.kind = "canceled" /\ e.order = o /\ e.token = term /\ ~Due(e) /\ term \in Nat
    BY <1>2 DEF Due, RecoveryInv, FlagsOK
  <2>3. /\ n \in Nat /\ DOMAIN Wire = 1..n /\ DOMAIN Wire' = 1..(n + 1)
        /\ \A j \in 1..n : Wire'[j] = Wire[j] /\ (Due(Wire[j])' <=> Due(Wire[j]))
                           /\ (Stale(Wire[j])' <=> Stale(Wire[j]))
        /\ Wire'[n + 1] = e
        /\ \A p : Owed(p)' = Owed(p) + (IF Due(e) THEN PartOf(e, p) ELSE 0)
        /\ Reported' = Reported \cup {e}
    BY <1>4, <1>5, <1>11, <2>1, WireGrows
  <2>4. \A p : Owed(p)' = Owed(p)
    <3>1. \A p : Owed(p) \in Int
      BY OwedParts DEF OwedFacts
    <3>2. QED
      BY <2>2, <2>3, <3>1
  <2>5. Ledger'
    <3>1. Ledger
      BY DEF HandoverInv
    <3>2. out'[1].token = term'
      BY <1>4, <1>11, <2>2
    <3>3. \A x, y \in Reported' : x.kind = "settle" /\ y.kind = "settle" /\ x.id = y.id
                                    => x.taker = y.taker
      <4>1. e.kind # "settle"
        BY <2>2
      <4>2. QED
        BY <2>3, <3>1, <4>1 DEF Ledger, OneTaker
    <3>4. QED
      BY <1>9, <3>2, <3>3 DEF Ledger, OneTaker
  <2>6. ASSUME clean PROVE OnWire' /\ InBook'
    <3>1. OnWire /\ InBook
      BY <1>5, <2>6 DEF HandoverInv
    <3>2. /\ k \in DOMAIN book[side] /\ book[side][k].id = o
          /\ \A s \in Sides : \E h : KeepsQueue(h, s, o)
      <4>1. side \in Sides /\ k = EntryOf(book[side], o) /\ k # 0
        BY <1>1, <1>6, <1>11
      <4>2. book' = [book EXCEPT ![side] = RemoveAt(@, k)]
        BY <1>11
      <4>3. QED
        BY <2>6, <4>1, <4>2, CancelTakesEntry
    <3>3. \A p : Active(p)' <=> Active(p)
      BY <1>4 DEF Active
    <3>4. \A p : Withdrawn(p)' <=> Withdrawn(p) \/ p = o
      <4> SUFFICES ASSUME NEW p PROVE Withdrawn(p)' <=> Withdrawn(p) \/ p = o
        OBVIOUS
      <4>1. ~Stale(Wire[n + 1])'
        BY <1>4, <2>2, <2>3 DEF Stale
      <4>2. Withdrawn(p)' <=> \E j \in 1..(n + 1) :
               Wire'[j].kind = "canceled" /\ ~Stale(Wire[j])' /\ Wire'[j].order = p
        BY <2>3 DEF Withdrawn
      <4>3. Withdrawn(p) <=> \E j \in 1..n :
               Wire[j].kind = "canceled" /\ ~Stale(Wire[j]) /\ Wire[j].order = p
        BY <2>3 DEF Withdrawn
      <4>4. \A j : j \in 1..(n + 1) <=> j \in 1..n \/ j = n + 1
        BY <2>3
      <4>5. Wire'[n + 1].kind = "canceled" /\ Wire'[n + 1].order = o
        BY <2>2, <2>3
      <4>6. \A j \in 1..n : Wire'[j] = Wire[j] /\ (Stale(Wire[j])' <=> Stale(Wire[j]))
        BY <2>3
      <4>7. QED
        BY <4>1, <4>2, <4>3, <4>4, <4>5, <4>6
    <3>5. RecordsOnce'
      BY <1>4, <2>6, SameRecords
    <3>6. QueuesOnce'
      <4> SUFFICES ASSUME NEW s \in Sides, NEW i \in DOMAIN book'[s], NEW j \in DOMAIN book'[s],
                          book'[s][i].id = book'[s][j].id
                   PROVE  i = j
        BY DEF QueuesOnce
      <4>1. PICK h : KeepsQueue(h, s, o)
        BY <3>2
      <4>2. /\ h[i] \in DOMAIN book[s] /\ h[j] \in DOMAIN book[s]
            /\ book[s][h[i]].id = book[s][h[j]].id
        BY <4>1 DEF KeepsQueue
      <4>3. h[i] = h[j]
        BY <3>1, <4>2 DEF OnWire, QueuesOnce
      <4>4. h[i] \in Nat /\ i \in Nat /\ j \in Nat
        BY <4>2 DEF RecoveryInv, BookOK
      <4>5. (i < j => h[i] < h[j]) /\ (j < i => h[j] < h[i])
        BY <4>1 DEF KeepsQueue
      <4>6. QED
        BY <4>3, <4>4, <4>5
    <3>7. Matched'
      <4>1. Gives'
        <5>1. e.kind # "settle"
          BY <2>2
        <5>2. QED
          BY <2>3, <3>1, <5>1 DEF OnWire, Matched, Gives
      <4>2. ASSUME NEW j \in DOMAIN Wire', Wire'[j].kind = "settle"
            PROVE  /\ Wire'[j].left + Total(Wire'[j].fills) = rows'[Wire'[j].taker].req.qty
                   /\ rows'[Wire'[j].taker].req.type = "limit" => DOMAIN Wire'[j].fills # {}
                   /\ Due(Wire[j])' => \A p \in DOMAIN Wire'[j].fills : Active(p)'
        <5>1. j \in 1..n
          BY <2>2, <2>3, <4>2
        <5>2. Wire'[j] = Wire[j] /\ (Due(Wire[j])' <=> Due(Wire[j])) /\ j \in DOMAIN Wire
          BY <2>3, <5>1
        <5>3. /\ Wire[j].left + Total(Wire[j].fills) = rows[Wire[j].taker].req.qty
              /\ rows[Wire[j].taker].req.type = "limit" => DOMAIN Wire[j].fills # {}
              /\ Due(Wire[j]) => \A p \in DOMAIN Wire[j].fills : Active(p)
          BY <3>1, <4>2, <5>2 DEF OnWire, Matched
        <5>4. QED
          BY <1>4, <3>3, <5>2, <5>3
      <4>3. QED
        BY <4>1, <4>2 DEF Matched
    <3>8. Sequence'
      <4> SUFFICES ASSUME NEW i \in DOMAIN Wire', NEW j \in DOMAIN Wire', i < j,
                          ~Stale(Wire[i])', ~Stale(Wire[j])', Wire'[j].kind = "settle"
                   PROVE  /\ Wire'[j].taker \notin Mentions(Wire'[i])
                          /\ Wire'[i].kind = "canceled" => Wire'[i].order \notin DOMAIN Wire'[j].fills
        BY DEF Sequence
      <4>1. j \in 1..n
        BY <2>2, <2>3
      <4>2. i \in 1..n
        BY <2>3, <4>1
      <4>3. Wire'[i] = Wire[i] /\ Wire'[j] = Wire[j] /\ ~Stale(Wire[i]) /\ ~Stale(Wire[j])
        BY <2>3, <4>1, <4>2
      <4>4. QED
        BY <2>3, <3>1, <4>1, <4>2, <4>3 DEF OnWire, Sequence
    <3>9. Bounded'
      BY <1>4, <2>4, <3>1 DEF OnWire, Bounded
    <3>10. o \in DOMAIN rows /\ ~Waiting(o)
      BY <1>5, <1>6, <3>1, <3>2 DEF InBook, Resting
    <3>11. Fresh'
      <4> SUFFICES ASSUME NEW p \in DOMAIN rows', Waiting(p)', NEW j \in DOMAIN Wire'
                   PROVE  /\ rows'[p].filled = 0 /\ rows'[p].status = "new"
                          /\ p \notin Mentions(Wire'[j])
        <5>1. DOMAIN Wire' # {}
          BY <2>3
        <5>2. QED
          BY <5>1 DEF Fresh
      <4>1. p # o /\ Waiting(p) /\ p \in DOMAIN rows
        BY <1>4, <1>8, <3>10
      <4>2. rows[p].filled = 0 /\ rows[p].status = "new" /\ \A i \in DOMAIN Wire : p \notin Mentions(Wire[i])
        BY <3>1, <4>1 DEF InBook, Fresh
      <4>3. CASE j = n + 1
        BY <1>4, <2>2, <2>3, <4>1, <4>2, <4>3 DEF Mentions
      <4>4. CASE j # n + 1
        <5>1. j \in DOMAIN Wire /\ Wire'[j] = Wire[j]
          BY <2>3, <4>4
        <5>2. QED
          BY <1>4, <4>2, <5>1
      <4>5. QED
        BY <4>3, <4>4
    <3>12. Resting'
      <4> SUFFICES ASSUME NEW s \in Sides, NEW j \in DOMAIN book'[s], NEW p, p = book'[s][j].id
                   PROVE  /\ Active(p)' /\ ~Waiting(p)' /\ ~Withdrawn(p)'
                          /\ book'[s][j].qty > 0
                          /\ book'[s][j].qty + rows'[p].filled + Owed(p)' = rows'[p].req.qty
        BY DEF Resting
      <4>1. PICK h : KeepsQueue(h, s, o)
        BY <3>2
      <4>2. PICK i : i = h[j] /\ i \in DOMAIN book[s] /\ book'[s][j] = book[s][i] /\ p # o
        BY <4>1 DEF KeepsQueue
      <4>3. /\ Active(p) /\ ~Waiting(p) /\ ~Withdrawn(p) /\ book[s][i].qty > 0
            /\ book[s][i].qty + rows[p].filled + Owed(p) = rows[p].req.qty
        BY <3>1, <4>2 DEF InBook, Resting
      <4>4. QED
        BY <1>4, <1>8, <2>4, <3>3, <3>4, <4>2, <4>3
    <3>13. Complete'
      <4> SUFFICES ASSUME restored', NEW p \in DOMAIN rows', Active(p)', ~Waiting(p)',
                          ~Withdrawn(p)'
                   PROVE  Rests(p)' \/ rows'[p].filled + Owed(p)' = rows'[p].req.qty
        BY DEF Complete
      <4>1. p # o /\ (Rests(p) \/ rows[p].filled + Owed(p) = rows[p].req.qty)
        BY <1>4, <1>8, <3>1, <3>3, <3>4 DEF InBook, Complete
      <4>2. ASSUME Rests(p) PROVE Rests(p)'
        <5>1. PICK s \in Sides : \E i \in DOMAIN book[s] : book[s][i].id = p
          BY <4>2 DEF Rests
        <5>2. PICK i \in DOMAIN book[s] : book[s][i].id = p
          BY <5>1
        <5>3. PICK h : KeepsQueue(h, s, o)
          BY <3>2
        <5>4. PICK j \in DOMAIN book'[s] : h[j] = i
          BY <4>1, <5>2, <5>3 DEF KeepsQueue
        <5>5. book'[s][j].id = p
          BY <5>2, <5>3, <5>4 DEF KeepsQueue
        <5>6. QED
          BY <5>5 DEF Rests
      <4>3. QED
        BY <1>4, <2>4, <4>1, <4>2
    <3>14. QED
      BY <3>1, <3>5, <3>6, <3>7, <3>8, <3>9, <3>11, <3>12, <3>13 DEF OnWire, InBook
  <2>7. QED
    BY <1>4, <2>5, <2>6 DEF HandoverInv
<1>12. QED
  BY <1>3, <1>10, <1>11

-----------------------------------------------------------------------------
(* Matching an order *)

\* What the handler of a placed order has before it.
PlacedWith(o, r, side, left, fills, e) ==
  /\ o = Record.order /\ r = rows[o].req /\ side = Opposite(r.side)
  /\ left = Left(book[side], r.qty)
  /\ fills = Fills(book[side], r.qty)
  /\ e = [kind |-> "settle", id |-> matches + 1, taker |-> o, fills |-> fills, left |-> left,
          token |-> term]

\* The queues of a serving leader hold orders of their side, once each, with something left.
LEMMA OpenQueues ==
  ASSUME RecoveryInv, HandoverInv, clean, leader = "serving", NEW s \in Sides
  PROVE  PositiveQueue(Of(s), book[s])
<1>1. PICK E, F : E = [id : Of(s), qty : Int \ {0}] /\ F = [id : Of(s), qty : Int]
  OBVIOUS
<1>2. book[s] \in Seq(E) /\ E \subseteq F
  BY <1>1 DEF RecoveryInv, BookOK
<1>3. book[s] \in Seq(F)
  BY <1>2, SeqOfMore
<1>4. Resting
  BY DEF HandoverInv, InBook
<1>5. \A k \in DOMAIN book[s] : book[s][k].qty > 0
  BY <1>4 DEF Resting
<1>6. \A j, k \in DOMAIN book[s] : book[s][j].id = book[s][k].id => j = k
  BY DistinctEntries
<1>7. QED
  BY <1>1, <1>3, <1>5, <1>6 DEF PositiveQueue, Queue

\* Nothing has happened to the order at hand, and it does not rest.
LEMMA PlacedOrder ==
  ASSUME RecoveryInv, HandoverInv, HandlePlaced, clean, NEW o, o = Record.order
  PROVE  /\ o \in DOMAIN rows /\ out = <<>> /\ leader = "serving"
         /\ ~Waiting(o)' /\ \A p : p # o => (Waiting(p)' <=> Waiting(p))
         /\ rows[o].filled = 0 /\ rows[o].status = "new"
         /\ \A k \in DOMAIN Wire : o \notin Mentions(Wire[k])
         /\ Owed(o) = 0
         /\ \A s \in Sides : \A k \in DOMAIN book[s] : book[s][k].id # o
<1>1. Ready("placed") /\ UNCHANGED <<orders, outbox, pos>> /\ (out' # <<>> \/ handled')
  <2>1. Ready("placed") /\ UNCHANGED <<orders, outbox, pos>>
    BY DEF HandlePlaced, dbVars, logVars
  <2>2. PICK x : out' = <<x>> \/ handled' = TRUE
    BY DEF HandlePlaced
  <2>3. <<x>> # <<>>
    OBVIOUS
  <2>4. QED
    BY <2>1, <2>2, <2>3
<1>2. o \in DOMAIN rows /\ out = <<>> /\ leader = "serving"
  BY <1>1, RecordFields
<1>3. OnWire /\ InBook
  BY <1>2 DEF HandoverInv
<1>4. /\ NextPos = pos /\ NextPos' = pos + 1 /\ pos \in Nat /\ Len(orders) \in Nat
      /\ pos \in DOMAIN orders /\ pos \in pos..Len(orders) /\ orders[pos].kind = "placed"
      /\ \A p : Waiting(p) <=> Waiting(p)' \/ orders[pos] = Placed(p)
  BY <1>1, NextRecord
<1>5. orders[pos] = Placed(o) /\ \A p : orders[pos] = Placed(p) => p = o
  <2>1. PICK R : R = [kind : {"placed", "cancel"}, order : DOMAIN rows]
    OBVIOUS
  <2>2. orders \in Seq(R)
    BY <2>1 DEF RecoveryInv, LogOK
  <2>3. orders[pos] \in R
    BY <1>4, <2>2
  <2>4. PICK x : x = orders[pos]
    OBVIOUS
  <2>5. x = [kind |-> x.kind, order |-> x.order]
    BY <2>1, <2>3, <2>4
  <2>6. x.order = o /\ x.kind = "placed"
    BY <1>4, <2>4 DEF Record
  <2>7. \A p : Placed(p).order = p
    BY DEF Placed
  <2>8. x = Placed(o)
    BY <2>5, <2>6 DEF Placed
  <2>9. QED
    BY <2>4, <2>7, <2>8
<1>6. orders[pos] \notin outbox /\ \A k \in DOMAIN orders : orders[k] = orders[pos] => k = pos
  BY <1>3, <1>4 DEF OnWire, RecordsOnce
<1>7. ~Waiting(o)'
  <2>1. Placed(o) \notin outbox'
    BY <1>1, <1>5, <1>6
  <2>2. ASSUME NEW k \in (pos + 1)..Len(orders) PROVE orders[k] # Placed(o)
    <3>1. PICK R : orders \in Seq(R)
      BY DEF RecoveryInv, LogOK
    <3>2. DOMAIN orders = 1..Len(orders)
      BY <3>1
    <3>3. k \in DOMAIN orders /\ k # pos
      BY <1>4, <3>2
    <3>4. QED
      BY <1>5, <1>6, <3>3
  <2>3. QED
    BY <1>1, <1>4, <2>1, <2>2 DEF Waiting, Placed
<1>8. Waiting(o) /\ \A p : p # o => (Waiting(p)' <=> Waiting(p))
  BY <1>4, <1>5
<1>9. /\ rows[o].filled = 0 /\ rows[o].status = "new"
      /\ \A k \in DOMAIN Wire : o \notin Mentions(Wire[k])
  BY <1>2, <1>3, <1>8 DEF InBook, Fresh
<1>10. Owed(o) = 0
  BY <1>9, NothingOwed
<1>11. ASSUME NEW s \in Sides, NEW j \in DOMAIN book[s]
       PROVE  book[s][j].id # o
  BY <1>3, <1>8 DEF InBook, Resting
<1>12. QED
  BY <1>2, <1>7, <1>8, <1>9, <1>10, <1>11

\* What the match gives, and to whom.
LEMMA PlacedFills ==
  ASSUME RecoveryInv, HandoverInv, HandlePlaced, clean,
         NEW o, NEW r, NEW side, NEW left, NEW fills, NEW e, PlacedWith(o, r, side, left, fills, e)
  PROVE  /\ side \in Sides /\ r.side \in Sides /\ side # r.side
         /\ r.type \in {"limit", "market"} /\ r.qty \in Nat
         /\ left \in Nat /\ Total(fills) \in Nat /\ left + Total(fills) = r.qty
         /\ \A m \in DOMAIN fills : /\ fills[m] \in Nat /\ fills[m] > 0 /\ m # o
                                    /\ \E k \in DOMAIN book[side] : book[side][k].id = m
         /\ \A p : PartOf(e, p) = IF p = o THEN Total(fills)
                                  ELSE IF p \in DOMAIN fills THEN fills[p] ELSE 0
         /\ e.kind = "settle" /\ e.taker = o /\ e.fills = fills /\ e.left = left /\ e.token = term
         /\ e.id = matches + 1 /\ Due(e) /\ ~Stale(e)
         /\ DOMAIN fills = {} => Total(fills) = 0
<1>1. o \in DOMAIN rows /\ leader = "serving" /\ rows[o].status = "new"
  BY PlacedOrder DEF PlacedWith
<1>2. r.side \in Sides /\ r.type \in {"limit", "market"} /\ r.qty \in Nat
  BY <1>1, RowFields DEF PlacedWith, RecoveryInv
<1>3. side \in Sides /\ side # r.side
  BY <1>2 DEF PlacedWith, Opposite, Sides
<1>4. PICK q, I : q = book[side] /\ I = Of(side)
  OBVIOUS
<1>5. PositiveQueue(I, q)
  BY <1>1, <1>3, <1>4, OpenQueues
<1>6. left = Left(q, r.qty) /\ fills = Fills(q, r.qty)
  BY <1>4 DEF PlacedWith
<1>7. q \in Queue(I)
  BY <1>5 DEF PositiveQueue
<1>8. left \in Nat /\ IsFiniteSet(DOMAIN fills) /\ DOMAIN fills \subseteq I
  BY <1>2, <1>6, <1>7, LeftIsNat, FillsTyped
<1>9. /\ \A m \in DOMAIN fills : /\ fills[m] \in Nat /\ fills[m] > 0
                                 /\ \E k \in DOMAIN q : q[k].id = m
      /\ left + Total(fills) = r.qty
  BY <1>2, <1>5, <1>6, FillsAddUp
<1>10. o \notin I
  BY <1>3, <1>4 DEF Of, PlacedWith
<1>11. PICK n : n = Total(fills)
  OBVIOUS
<1>12. n \in Nat
  <2>1. PICK S : S = DOMAIN fills
    OBVIOUS
  <2>2. IsFiniteSet(S) /\ \A m \in S : fills[m] \in Nat
    BY <1>8, <1>9, <2>1
  <2>3. SumFunctionOnSet(fills, S) \in Nat
    BY <2>2, SumNat
  <2>4. QED
    BY <1>11, <2>1, <2>3 DEF Total, SumFunction
<1>13. DOMAIN fills = {} => n = 0
  <2>1. SumFunctionOnSet(fills, {}) = 0
    BY SumEmpty
  <2>2. QED
    BY <1>11, <2>1 DEF Total, SumFunction
<1>14. /\ e.kind = "settle" /\ e.taker = o /\ e.fills = fills /\ e.left = left /\ e.token = term
       /\ e.id = matches + 1
  BY DEF PlacedWith
<1>15. Due(e) /\ ~Stale(e)
  BY <1>1, <1>14 DEF Due, Stale
<1>16. ASSUME NEW p
       PROVE  PartOf(e, p) = IF p = o THEN n ELSE IF p \in DOMAIN fills THEN fills[p] ELSE 0
  <2>1. o \notin DOMAIN fills
    BY <1>8, <1>10
  <2>2. CASE p = o
    BY <1>11, <1>12, <1>14, <2>1, <2>2 DEF PartOf
  <2>3. CASE p # o /\ p \in DOMAIN fills
    BY <1>9, <1>14, <2>3 DEF PartOf
  <2>4. CASE p # o /\ p \notin DOMAIN fills
    BY <1>14, <2>4 DEF PartOf
  <2>5. QED
    BY <2>2, <2>3, <2>4
<1>17. QED
  BY <1>2, <1>3, <1>4, <1>8, <1>9, <1>10, <1>11, <1>12, <1>13, <1>14, <1>15, <1>16

\* A settlement gets an id of its own.
LEMMA PlacedLedger ==
  ASSUME RecoveryInv, HandoverInv, HandlePlaced,
         NEW o, NEW r, NEW side, NEW left, NEW fills, NEW e, PlacedWith(o, r, side, left, fills, e)
  PROVE  /\ UNCHANGED <<rows, trades, outbox, orders, committed, pos, leader, term, settlements,
                        clean, restored>>
         /\ \/ out' = <<e>>
            \/ out' = <<>> /\ DOMAIN fills = {} /\ r.type # "market"
         /\ Ledger'
<1>1. UNCHANGED <<rows, trades, outbox, orders, committed, pos, leader, term, settlements,
                  clean, restored>>
  BY DEF HandlePlaced, dbVars, logVars, historyVars
<1>2. out' = <<e>> \/ (out' = <<>> /\ DOMAIN fills = {} /\ r.type # "market")
  <2>1. e = Settlement(o, fills, left)
    BY DEF PlacedWith, Settlement
  <2>2. IF DOMAIN fills # {} \/ r.type = "market"
        THEN out' = <<Settlement(o, fills, left)>> /\ handled' = FALSE
        ELSE out' = <<>> /\ handled' = TRUE
    BY DEF HandlePlaced, PlacedWith
  <2>3. QED
    BY <2>1, <2>2
<1>3. e.id = matches + 1 /\ e.token = term /\ e.kind = "settle"
  BY DEF PlacedWith
<1>4. Ledger
  BY DEF HandoverInv
<1>5. Reported' \subseteq Reported \cup {e}
  <2>1. ToSet(<<e>>) = {e} /\ ToSet(<<>>) = {}
    BY DEF ToSet
  <2>2. QED
    BY <1>1, <1>2, <2>1 DEF Reported
<1>6. ASSUME NEW x \in Reported, x.kind = "settle" PROVE x.id # e.id
  <2>1. x.id \in 1..matches /\ matches \in Nat
    BY <1>6 DEF RecoveryInv, EventsOK, FlagsOK, Fits
  <2>2. QED
    BY <1>3, <2>1
<1>7. OneTaker'
  BY <1>4, <1>5, <1>6 DEF Ledger, OneTaker
<1>8. out' # <<>> => out'[1].token = term'
  BY <1>1, <1>2, <1>3
<1>9. committed' = pos' /\ Recorded'
  BY <1>1, <1>4, SameRecords DEF Ledger
<1>10. Ledger'
  BY <1>7, <1>8, <1>9 DEF Ledger
<1>11. QED
  BY <1>1, <1>2, <1>10

\* The wire carries one event more, or none if there is nothing to tell.
LEMMA PlacedWire ==
  ASSUME RecoveryInv, RecoveryInv', HandoverInv, HandlePlaced, clean,
         NEW o, NEW r, NEW side, NEW left, NEW fills, NEW e, PlacedWith(o, r, side, left, fills, e),
         NEW n, n = Len(Wire)
  PROVE  /\ n \in Nat /\ DOMAIN Wire = 1..n
         /\ \A k \in 1..n : /\ k \in DOMAIN Wire' /\ Wire'[k] = Wire[k]
                            /\ Due(Wire[k])' <=> Due(Wire[k])
                            /\ Stale(Wire[k])' <=> Stale(Wire[k])
         /\ \A k \in DOMAIN Wire' :
              \/ k \in 1..n
              \/ k = n + 1 /\ Wire'[k] = e /\ (r.type = "limit" => DOMAIN fills # {})
         /\ \A p : Owed(p)' = Owed(p) + PartOf(e, p)
         /\ Reported' \subseteq Reported \cup {e}
<1>1. /\ UNCHANGED <<rows, trades, outbox, orders, committed, pos, leader, term, settlements,
                     clean, restored>>
      /\ \/ out' = <<e>>
         \/ out' = <<>> /\ DOMAIN fills = {} /\ r.type # "market"
  BY PlacedLedger
<1>2. out = <<>>
  BY PlacedOrder DEF PlacedWith
<1>3. n \in Nat /\ DOMAIN Wire = 1..n
  BY WireHasEvents DEF WireFacts
<1>4. \A p : Owed(p) \in Int
  BY OwedParts DEF OwedFacts
<1>5. CASE out' = <<e>> /\ (r.type = "limit" => DOMAIN fills # {})
  <2>1. /\ DOMAIN Wire' = 1..(n + 1)
        /\ \A k \in 1..n : Wire'[k] = Wire[k] /\ (Due(Wire[k])' <=> Due(Wire[k]))
                           /\ (Stale(Wire[k])' <=> Stale(Wire[k]))
        /\ Wire'[n + 1] = e
        /\ \A p : Owed(p)' = Owed(p) + (IF Due(e) THEN PartOf(e, p) ELSE 0)
        /\ Reported' = Reported \cup {e}
    BY <1>1, <1>2, <1>5, WireGrows
  <2>2. Due(e)
    BY PlacedFills
  <2>3. \A k : k \in 1..(n + 1) <=> k \in 1..n \/ k = n + 1
    BY <1>3
  <2>4. QED
    BY <1>3, <1>5, <2>1, <2>2, <2>3
<1>6. CASE out' = <<>> /\ DOMAIN fills = {}
  <2>1. Wire' = Wire /\ Reported' = Reported
    BY <1>1, <1>2, <1>6 DEF Wire, Reported
  <2>2. /\ \A k \in DOMAIN Wire : Due(Wire[k])' <=> Due(Wire[k])
        /\ \A p : Owed(p)' = Owed(p)
    BY <1>1, <2>1, OwedByRows
  <2>3. \A p : PartOf(e, p) = 0
    BY <1>6, PlacedFills
  <2>4. \A k \in DOMAIN Wire : Stale(Wire[k])' <=> Stale(Wire[k])
    BY <1>1, <2>1 DEF Stale
  <2>5. QED
    BY <1>3, <1>4, <2>1, <2>2, <2>3, <2>4
<1>7. out' = <<e>> \/ (out' = <<>> /\ DOMAIN fills = {} /\ r.type # "market")
  BY <1>1
<1>8. CASE out' = <<e>> /\ r.type = "limit" /\ DOMAIN fills = {}
  <2>1. out' = <<>>
    BY <1>8 DEF HandlePlaced, PlacedWith
  <2>2. QED
    BY <1>8, <2>1
<1>9. QED
  BY <1>5, <1>6, <1>7, <1>8

\* The queue t has every order of q with what it keeps of its quantity, and last the
\* order o if it rests.
Gave(h, q, t, o, part, rests, left) ==
  /\ \A i \in DOMAIN t :
       \/ /\ t[i].id # o /\ h[i] \in DOMAIN q /\ t[i].id = q[h[i]].id
          /\ t[i].qty = q[h[i]].qty - part[t[i].id] /\ t[i].qty > 0
       \/ rests /\ t[i].id = o /\ t[i].qty = left /\ \A j \in DOMAIN t : j <= i
  /\ \A i, j \in DOMAIN t : i < j /\ t[j].id # o => h[i] < h[j]
  /\ \A k \in DOMAIN q : q[k].qty # part[q[k].id] => \E i \in DOMAIN t : t[i].id = q[k].id
  /\ rests => \E i \in DOMAIN t : t[i].id = o

\* The makers.
LEMMA MakersGive ==
  ASSUME NEW I, NEW q, PositiveQueue(I, q), NEW qty \in Nat, NEW o, \A k \in DOMAIN q : q[k].id # o,
         NEW part, \A k \in DOMAIN q : part[q[k].id] = IF q[k].id \in DOMAIN Fills(q, qty)
                                                       THEN Fills(q, qty)[q[k].id] ELSE 0,
         NEW t, t = Unmatched(q, qty), NEW left
  PROVE  \E h : Gave(h, q, t, o, part, FALSE, left)
<1>1. \A k \in DOMAIN q : part[q[k].id] = Taken(q, k, qty)
  <2> SUFFICES ASSUME NEW k \in DOMAIN q PROVE part[q[k].id] = Taken(q, k, qty)
    OBVIOUS
  <2>1. /\ q[k].id \in DOMAIN Fills(q, qty) <=> Taken(q, k, qty) # 0
        /\ q[k].id \in DOMAIN Fills(q, qty) => Fills(q, qty)[q[k].id] = Taken(q, k, qty)
    BY FillsAddUp
  <2>2. QED
    BY <2>1
<1>2. PICK g : /\ g \in [DOMAIN t -> DOMAIN q]
               /\ \A i, j \in DOMAIN t : i < j => g[i] < g[j]
               /\ \A k \in DOMAIN q : q[k].qty # Taken(q, k, qty) => \E i \in DOMAIN t : g[i] = k
               /\ \A i \in DOMAIN t :
                    /\ t[i].id = q[g[i]].id
                    /\ t[i].qty = q[g[i]].qty - Taken(q, g[i], qty)
                    /\ t[i].qty \in Nat /\ t[i].qty > 0
  BY UnmatchedRests
<1>3. ASSUME NEW i \in DOMAIN t
      PROVE  /\ t[i].id # o /\ g[i] \in DOMAIN q /\ t[i].id = q[g[i]].id
             /\ t[i].qty = q[g[i]].qty - part[t[i].id] /\ t[i].qty > 0
  <2>1. g[i] \in DOMAIN q
    BY <1>2
  <2>2. QED
    BY <1>1, <1>2, <2>1
<1>4. ASSUME NEW k \in DOMAIN q, q[k].qty # part[q[k].id] PROVE \E i \in DOMAIN t : t[i].id = q[k].id
  <2>1. q[k].qty # Taken(q, k, qty)
    BY <1>1, <1>4
  <2>2. PICK i \in DOMAIN t : g[i] = k
    BY <1>2, <2>1
  <2>3. QED
    BY <1>2, <2>2
<1>5. Gave(g, q, t, o, part, FALSE, left)
  BY <1>2, <1>3, <1>4 DEF Gave
<1>6. QED
  BY <1>5

\* Its own side.
LEMMA OwnSideGives ==
  ASSUME NEW T, NEW q \in Seq(T), NEW o, \A k \in DOMAIN q : q[k].id # o /\ q[k].qty > 0 /\ q[k].qty \in Int,
         NEW part, \A k \in DOMAIN q : part[q[k].id] = 0, NEW left, NEW rests \in BOOLEAN,
         NEW t, t = IF rests THEN Append(q, [id |-> o, qty |-> left]) ELSE q
  PROVE  \E h : Gave(h, q, t, o, part, rests, left)
<1>1. PICK n, h : n = Len(q) /\ h = [k \in 1..(n + 1) |-> k]
  OBVIOUS
<1>2. n \in Nat /\ DOMAIN q = 1..n /\ \A k \in 1..(n + 1) : h[k] = k
  BY <1>1
<1>3. CASE rests
  <2>1. PICK x : x = [id |-> o, qty |-> left]
    OBVIOUS
  <2>2. t = Append(q, x) /\ x.id = o /\ x.qty = left
    BY <1>3, <2>1
  <2>3. DOMAIN t = 1..(n + 1) /\ t[n + 1] = x /\ \A k \in 1..n : t[k] = q[k]
    BY <1>1, <2>2
  <2>4. \A i \in 1..(n + 1) : i \in 1..n \/ i = n + 1
    BY <1>2
  <2>5. \A i \in 1..n : /\ t[i].id # o /\ h[i] \in DOMAIN q /\ t[i].id = q[h[i]].id
                        /\ t[i].qty = q[h[i]].qty - part[t[i].id] /\ t[i].qty > 0
    <3> SUFFICES ASSUME NEW i \in 1..n
                 PROVE  /\ t[i].id # o /\ h[i] \in DOMAIN q /\ t[i].id = q[h[i]].id
                        /\ t[i].qty = q[h[i]].qty - part[t[i].id] /\ t[i].qty > 0
      OBVIOUS
    <3>1. h[i] = i /\ t[i] = q[i] /\ i \in DOMAIN q
      BY <1>2, <2>3
    <3>2. part[q[i].id] = 0 /\ q[i].qty \in Int /\ q[i].id # o /\ q[i].qty > 0
      BY <3>1
    <3>3. q[i].qty = q[i].qty - part[q[i].id]
      BY <3>2
    <3>4. QED
      BY <3>1, <3>2, <3>3
  <2>6. \A i, j \in 1..(n + 1) : i < j => h[i] < h[j]
    BY <1>2
  <2>7. \A k \in 1..n : k \in DOMAIN t /\ t[k].id = q[k].id
    BY <1>2, <2>3
  <2>8. n + 1 \in DOMAIN t /\ t[n + 1].id = o /\ t[n + 1].qty = left /\ \A j \in DOMAIN t : j <= n + 1
    BY <1>2, <2>2, <2>3
  <2>9. Gave(h, q, t, o, part, rests, left)
    BY <1>2, <1>3, <2>3, <2>4, <2>5, <2>6, <2>7, <2>8 DEF Gave
  <2>10. QED
    BY <2>9
<1>4. CASE ~rests
  <2>1. t = q
    BY <1>4
  <2>2. ASSUME NEW i \in 1..n PROVE h[i] = i /\ q[i].qty = q[i].qty - part[q[i].id]
    <3>1. i \in DOMAIN q /\ h[i] = i
      BY <1>2
    <3>2. part[q[i].id] = 0 /\ q[i].qty \in Int
      BY <3>1
    <3>3. QED
      BY <3>1, <3>2
  <2>3. \A i, j \in 1..n : i < j => h[i] < h[j]
    BY <2>2
  <2>4. Gave(h, q, q, o, part, rests, left)
    BY <1>2, <1>4, <2>2, <2>3 DEF Gave
  <2>5. QED
    BY <2>1, <2>4
<1>5. QED
  BY <1>3, <1>4

\* So the book gives what the settlement says.
LEMMA PlacedBook ==
  ASSUME RecoveryInv, HandoverInv, HandlePlaced, clean,
         NEW o, NEW r, NEW side, NEW left, NEW fills, NEW e, PlacedWith(o, r, side, left, fills, e),
         NEW part, part = [p \in DOMAIN rows |-> IF p \in DOMAIN fills THEN fills[p] ELSE 0],
         NEW s \in Sides
  PROVE  \E h : Gave(h, book[s], book'[s], o, part, s = r.side /\ left > 0 /\ r.type = "limit", left)
<1>1. /\ side \in Sides /\ r.side \in Sides /\ side # r.side /\ r.qty \in Nat
      /\ \A m \in DOMAIN fills : \E k \in DOMAIN book[side] : book[side][k].id = m
  BY PlacedFills
<1>2. PICK q, t, rests : /\ q = book[s] /\ t = book'[s]
                         /\ rests = (s = r.side /\ left > 0 /\ r.type = "limit")
  OBVIOUS
<1>3. t = IF s = side THEN Unmatched(q, r.qty)
          ELSE IF left > 0 /\ r.type = "limit" THEN Append(q, [id |-> o, qty |-> left]) ELSE q
  BY <1>2 DEF HandlePlaced, PlacedWith
<1>4. \A k \in DOMAIN q : q[k].id # o /\ q[k].id \in DOMAIN rows /\ q[k].qty \in Int
  BY <1>2, PlacedOrder, BookHasRows DEF PlacedWith
<1>5. PositiveQueue(Of(s), q)
  <2>1. leader = "serving"
    BY PlacedOrder DEF PlacedWith
  <2>2. QED
    BY <1>2, <2>1, OpenQueues
<1>6. \A k \in DOMAIN q : part[q[k].id] = IF q[k].id \in DOMAIN fills THEN fills[q[k].id] ELSE 0
  BY <1>4
<1>7. CASE s = side
  <2>1. t = Unmatched(q, r.qty) /\ fills = Fills(q, r.qty)
    BY <1>2, <1>3, <1>7 DEF PlacedWith
  <2>2. rests = FALSE
    BY <1>1, <1>2, <1>7
  <2>3. \E h : Gave(h, q, t, o, part, FALSE, left)
    BY <1>1, <1>4, <1>5, <1>6, <2>1, MakersGive
  <2>4. QED
    BY <1>2, <2>2, <2>3
<1>8. CASE s # side
  <2>1. s = r.side
    BY <1>1, <1>8 DEF Sides
  <2>2. t = IF rests THEN Append(q, [id |-> o, qty |-> left]) ELSE q
    BY <1>2, <1>3, <1>8, <2>1
  <2>3. \A k \in DOMAIN q : q[k].id \notin DOMAIN fills
    <3> SUFFICES ASSUME NEW k \in DOMAIN q, q[k].id \in DOMAIN fills PROVE FALSE
      OBVIOUS
    <3>1. PICK j \in DOMAIN book[side] : book[side][j].id = q[k].id
      BY <1>1
    <3>2. s = side
      BY <1>1, <1>2, <3>1, DistinctEntries
    <3>3. QED
      BY <1>8, <3>2
  <2>4. \A k \in DOMAIN q : part[q[k].id] = 0
    BY <1>6, <2>3
  <2>5. PICK T : q \in Seq(T)
    BY <1>5 DEF PositiveQueue, Queue
  <2>6. \A k \in DOMAIN q : q[k].qty > 0
    BY <1>5 DEF PositiveQueue
  <2>7. rests \in BOOLEAN
    BY <1>2
  <2>8. \E h : Gave(h, q, t, o, part, rests, left)
    BY <1>4, <2>2, <2>4, <2>5, <2>6, <2>7, OwnSideGives
  <2>9. QED
    BY <1>2, <2>8
<1>9. QED
  BY <1>7, <1>8

\* What the match leaves on the wire.
LEMMA PlacedOnWire ==
  ASSUME RecoveryInv, RecoveryInv', HandoverInv, HandlePlaced, clean,
         NEW o, NEW r, NEW side, NEW left, NEW fills, NEW e, PlacedWith(o, r, side, left, fills, e)
  PROVE  Matched' /\ Sequence'
<1>1. PICK n : n = Len(Wire)
  OBVIOUS
<1>2. /\ n \in Nat /\ DOMAIN Wire = 1..n
      /\ \A k \in 1..n : /\ k \in DOMAIN Wire' /\ Wire'[k] = Wire[k]
                         /\ Due(Wire[k])' <=> Due(Wire[k])
                         /\ Stale(Wire[k])' <=> Stale(Wire[k])
      /\ \A k \in DOMAIN Wire' :
           \/ k \in 1..n
           \/ k = n + 1 /\ Wire'[k] = e /\ (r.type = "limit" => DOMAIN fills # {})
      /\ Reported' \subseteq Reported \cup {e}
  BY <1>1, PlacedWire
<1>3. UNCHANGED rows /\ leader = "serving"
  BY PlacedLedger, PlacedOrder DEF PlacedWith
<1>4. OnWire /\ InBook
  BY <1>3 DEF HandoverInv
<1>5. /\ side \in Sides /\ left + Total(fills) = r.qty
      /\ \A m \in DOMAIN fills : fills[m] > 0 /\ \E k \in DOMAIN book[side] : book[side][k].id = m
      /\ e.kind = "settle" /\ e.taker = o /\ e.fills = fills /\ e.left = left
  BY PlacedFills
<1>6. r = rows[o].req
  BY DEF PlacedWith
<1>7. \A m \in DOMAIN fills : Active(m) /\ ~Withdrawn(m)
  BY <1>4, <1>5 DEF InBook, Resting
<1>8. \A p : Active(p)' <=> Active(p)
  BY <1>3 DEF Active
<1>9. Matched'
  <2>1. Gives'
    BY <1>2, <1>4, <1>5 DEF OnWire, Matched, Gives
  <2>2. ASSUME NEW k \in DOMAIN Wire', Wire'[k].kind = "settle"
        PROVE  /\ Wire'[k].left + Total(Wire'[k].fills) = rows'[Wire'[k].taker].req.qty
               /\ rows'[Wire'[k].taker].req.type = "limit" => DOMAIN Wire'[k].fills # {}
               /\ Due(Wire[k])' => \A p \in DOMAIN Wire'[k].fills : Active(p)'
    <3>1. CASE k \in 1..n
      <4>1. /\ Wire'[k] = Wire[k] /\ (Due(Wire[k])' <=> Due(Wire[k])) /\ k \in DOMAIN Wire
            /\ rows' = rows
        BY <1>2, <1>3, <3>1
      <4>2. /\ Wire[k].left + Total(Wire[k].fills) = rows[Wire[k].taker].req.qty
            /\ rows[Wire[k].taker].req.type = "limit" => DOMAIN Wire[k].fills # {}
            /\ Due(Wire[k]) => \A p \in DOMAIN Wire[k].fills : Active(p)
        BY <1>4, <2>2, <4>1 DEF OnWire, Matched
      <4>3. QED
        BY <1>8, <4>1, <4>2
    <3>2. CASE k \notin 1..n
      <4>1. Wire'[k] = e /\ (r.type = "limit" => DOMAIN fills # {}) /\ rows' = rows
        BY <1>2, <1>3, <3>2
      <4>2. \A p \in DOMAIN fills : Active(p)'
        BY <1>7, <1>8
      <4>3. QED
        BY <1>5, <1>6, <4>1, <4>2
    <3>3. QED
      BY <3>1, <3>2
  <2>3. QED
    BY <2>1, <2>2 DEF Matched
<1>10. Sequence'
  <2> SUFFICES ASSUME NEW i \in DOMAIN Wire', NEW j \in DOMAIN Wire', i < j,
                      ~Stale(Wire[i])', ~Stale(Wire[j])', Wire'[j].kind = "settle"
               PROVE  /\ Wire'[j].taker \notin Mentions(Wire'[i])
                      /\ Wire'[i].kind = "canceled" => Wire'[i].order \notin DOMAIN Wire'[j].fills
    BY DEF Sequence
  <2>1. i \in 1..n
    BY <1>2
  <2>2. Wire'[i] = Wire[i] /\ ~Stale(Wire[i]) /\ i \in DOMAIN Wire
    BY <1>2, <2>1
  <2>3. CASE j \in 1..n
    <3>1. Wire'[j] = Wire[j] /\ ~Stale(Wire[j]) /\ j \in DOMAIN Wire
      BY <1>2, <2>3
    <3>2. QED
      BY <1>4, <2>2, <3>1 DEF OnWire, Sequence
  <2>4. CASE j \notin 1..n
    <3>1. Wire'[j] = e
      BY <1>2, <2>4
    <3>2. o \notin Mentions(Wire[i])
      BY <2>2, PlacedOrder DEF PlacedWith
    <3>3. Wire[i].kind = "canceled" => Wire[i].order \notin DOMAIN fills
      BY <1>7, <2>2 DEF Withdrawn
    <3>4. QED
      BY <1>5, <2>2, <3>1, <3>2, <3>3
  <2>5. QED
    BY <2>3, <2>4
<1>11. QED
  BY <1>9, <1>10

\* A placed order is matched, and what it takes is owed from then on.
LEMMA HandlePlacedKeepsBook ==
  ASSUME RecoveryInv, RecoveryInv', HandoverInv, HandlePlaced
  PROVE  HandoverInv'
<1>1. PICK o, r, side, left, fills, e : PlacedWith(o, r, side, left, fills, e)
  BY DEF PlacedWith
<1>2. /\ UNCHANGED <<rows, trades, outbox, orders, committed, pos, leader, term, settlements,
                     clean, restored>>
      /\ Ledger'
  BY <1>1, PlacedLedger
<1>3. ASSUME clean PROVE OnWire' /\ InBook'
  <2>1. PICK n, part : /\ n = Len(Wire)
                       /\ part = [p \in DOMAIN rows |-> IF p \in DOMAIN fills THEN fills[p] ELSE 0]
    OBVIOUS
  <2>2. /\ o \in DOMAIN rows /\ leader = "serving"
        /\ ~Waiting(o)' /\ \A p : p # o => (Waiting(p)' <=> Waiting(p))
        /\ rows[o].filled = 0 /\ rows[o].status = "new"
        /\ \A k \in DOMAIN Wire : o \notin Mentions(Wire[k])
        /\ Owed(o) = 0
        /\ \A s \in Sides : \A k \in DOMAIN book[s] : book[s][k].id # o
    BY <1>1, <1>3, PlacedOrder DEF PlacedWith
  <2>3. /\ side \in Sides /\ r.side \in Sides /\ r.type \in {"limit", "market"} /\ r.qty \in Nat
        /\ left \in Nat /\ Total(fills) \in Nat /\ left + Total(fills) = r.qty
        /\ \A m \in DOMAIN fills : /\ fills[m] \in Nat /\ fills[m] > 0 /\ m # o
                                   /\ \E k \in DOMAIN book[side] : book[side][k].id = m
        /\ \A p : PartOf(e, p) = IF p = o THEN Total(fills)
                                 ELSE IF p \in DOMAIN fills THEN fills[p] ELSE 0
        /\ e.kind = "settle" /\ e.taker = o /\ e.fills = fills
    BY <1>1, <1>3, PlacedFills
  <2>4. /\ n \in Nat /\ DOMAIN Wire = 1..n
        /\ \A k \in 1..n : /\ k \in DOMAIN Wire' /\ Wire'[k] = Wire[k]
                           /\ Stale(Wire[k])' <=> Stale(Wire[k])
        /\ \A k \in DOMAIN Wire' : k \in 1..n \/ Wire'[k] = e
        /\ \A p : Owed(p)' = Owed(p) + PartOf(e, p)
    BY <1>1, <1>3, <2>1, PlacedWire
  <2>5. OnWire /\ InBook
    BY <1>3, <2>2 DEF HandoverInv
  <2>6. \A s \in Sides :
          \E h : Gave(h, book[s], book'[s], o, part, s = r.side /\ left > 0 /\ r.type = "limit", left)
    BY <1>1, <1>3, <2>1, PlacedBook
  <2>7. \A p : Active(p)' <=> Active(p)
    BY <1>2 DEF Active
  <2>8. \A p : Withdrawn(p)' <=> Withdrawn(p)
    <3> SUFFICES ASSUME NEW p PROVE Withdrawn(p)' <=> Withdrawn(p)
      OBVIOUS
    <3>1. e.kind # "canceled"
      BY <2>3
    <3>2. QED
      BY <2>4, <3>1 DEF Withdrawn
  <2>9. \A p \in DOMAIN rows : /\ part[p] \in Nat
                               /\ p # o => Owed(p)' = Owed(p) + part[p]
                               /\ p \notin DOMAIN fills => part[p] = 0
    BY <2>1, <2>3, <2>4
  <2>10. Owed(o)' = Total(fills)
    BY <2>2, <2>3, <2>4
  <2>11. \A p : Owed(p) \in Int
    BY OwedParts DEF OwedFacts
  <2>12. \A p \in DOMAIN rows : rows[p].filled \in Int /\ rows[p].req.qty \in Nat
    BY RowFields DEF RecoveryInv
  <2>13. r = rows[o].req
    BY <1>1 DEF PlacedWith
  <2>14. ASSUME NEW s \in Sides, NEW k \in DOMAIN book[s], NEW p, p = book[s][k].id
         PROVE  /\ p \in DOMAIN rows /\ p # o /\ part[p] \in Nat /\ book[s][k].qty \in Int
                /\ part[p] <= book[s][k].qty
                /\ book[s][k].qty + rows[p].filled + Owed(p) = rows[p].req.qty
                /\ Active(p) /\ ~Waiting(p) /\ ~Withdrawn(p)
                /\ part[p] # book[s][k].qty => Rests(p)'
    <3>1. p \in DOMAIN rows /\ p # o /\ book[s][k].qty \in Int
      BY <2>2, <2>14, BookHasRows
    <3>2. part[p] \in Nat
      BY <2>9, <3>1
    <3>3. PICK h : Gave(h, book[s], book'[s], o, part, s = r.side /\ left > 0 /\ r.type = "limit", left)
      BY <2>6
    <3>4. ASSUME part[p] # book[s][k].qty PROVE part[p] <= book[s][k].qty /\ Rests(p)'
      <4>1. PICK i \in DOMAIN book'[s] : book'[s][i].id = p
        BY <2>14, <3>3, <3>4 DEF Gave
      <4>2. /\ h[i] \in DOMAIN book[s] /\ book[s][h[i]].id = p
            /\ book'[s][i].qty = book[s][h[i]].qty - part[p] /\ book'[s][i].qty > 0
        BY <3>1, <3>3, <4>1 DEF Gave
      <4>3. h[i] = k
        BY <1>3, <2>14, <4>2, DistinctEntries
      <4>4. book[s][k].qty - part[p] > 0
        BY <4>2, <4>3
      <4>5. QED
        BY <3>1, <3>2, <4>1, <4>4 DEF Rests
    <3>5. /\ book[s][k].qty + rows[p].filled + Owed(p) = rows[p].req.qty
          /\ Active(p) /\ ~Waiting(p) /\ ~Withdrawn(p)
      BY <2>5, <2>14 DEF InBook, Resting
    <3>6. QED
      BY <3>1, <3>2, <3>4, <3>5
  <2>15. RecordsOnce'
    BY <1>2, <1>3, SameRecords
  <2>16. QueuesOnce'
    <3> SUFFICES ASSUME NEW s \in Sides, NEW i \in DOMAIN book'[s], NEW j \in DOMAIN book'[s],
                        book'[s][i].id = book'[s][j].id
                 PROVE  i = j
      BY DEF QueuesOnce
    <3>1. PICK h : Gave(h, book[s], book'[s], o, part, s = r.side /\ left > 0 /\ r.type = "limit", left)
      BY <2>6
    <3>2. i \in Nat /\ j \in Nat
      BY DEF RecoveryInv, BookOK
    <3>3. CASE book'[s][i].id = o
      <4>1. j <= i /\ i <= j
        BY <3>1, <3>3 DEF Gave
      <4>2. QED
        BY <3>2, <4>1
    <3>4. CASE book'[s][i].id # o
      <4>1. /\ h[i] \in DOMAIN book[s] /\ h[j] \in DOMAIN book[s]
            /\ book[s][h[i]].id = book[s][h[j]].id
        BY <3>1, <3>4 DEF Gave
      <4>2. h[i] = h[j] /\ h[i] \in Nat
        BY <2>5, <4>1 DEF OnWire, QueuesOnce, RecoveryInv, BookOK
      <4>3. (i < j => h[i] < h[j]) /\ (j < i => h[j] < h[i])
        BY <3>1, <3>4 DEF Gave
      <4>4. QED
        BY <3>2, <4>2, <4>3
    <3>5. QED
      BY <3>3, <3>4
  <2>17. Matched' /\ Sequence'
    BY <1>1, <1>3, PlacedOnWire
  <2>18. Bounded'
    <3> SUFFICES ASSUME NEW p \in DOMAIN rows PROVE rows[p].filled + Owed(p)' <= rows[p].req.qty
      BY <1>2 DEF Bounded
    <3>1. CASE p = o
      BY <2>2, <2>3, <2>10, <2>13, <3>1
    <3>2. CASE p # o /\ p \notin DOMAIN fills
      <4>1. Owed(p)' = Owed(p)
        BY <2>9, <2>11, <3>2
      <4>2. QED
        BY <2>5, <4>1 DEF OnWire, Bounded
    <3>3. CASE p # o /\ p \in DOMAIN fills
      <4>1. PICK k \in DOMAIN book[side] : book[side][k].id = p
        BY <2>3, <3>3
      <4>2. /\ part[p] \in Nat /\ book[side][k].qty \in Int /\ part[p] <= book[side][k].qty
            /\ book[side][k].qty + rows[p].filled + Owed(p) = rows[p].req.qty
        BY <2>3, <2>14, <4>1
      <4>3. PICK q, a, b, c, f : /\ q = book[side][k].qty /\ a = part[p] /\ b = Owed(p)
                                 /\ c = rows[p].filled /\ f = Owed(p)'
        OBVIOUS
      <4>4. f = b + a /\ a <= q /\ q + c + b = rows[p].req.qty
        BY <2>9, <3>3, <4>2, <4>3
      <4>5. a \in Int /\ b \in Int /\ c \in Int /\ q \in Int
        BY <2>11, <2>12, <4>2, <4>3
      <4>6. c + f <= q + c + b
        BY <4>4, <4>5
      <4>7. QED
        BY <4>3, <4>4, <4>6
    <3>4. QED
      BY <3>1, <3>2, <3>3
  <2>19. Fresh'
    <3> SUFFICES ASSUME NEW p \in DOMAIN rows, Waiting(p)'
                 PROVE  /\ rows'[p].filled = 0 /\ rows'[p].status = "new"
                        /\ \A k \in DOMAIN Wire' : p \notin Mentions(Wire'[k])
      BY <1>2 DEF Fresh
    <3>1. p # o /\ Waiting(p)
      BY <2>2
    <3>2. /\ rows[p].filled = 0 /\ rows[p].status = "new"
          /\ \A k \in DOMAIN Wire : p \notin Mentions(Wire[k])
      BY <2>5, <3>1 DEF InBook, Fresh
    <3>3. p \notin DOMAIN fills
      BY <2>3, <2>14, <3>1
    <3>4. p \notin Mentions(e)
      BY <2>3, <3>1, <3>3 DEF Mentions
    <3>5. ASSUME NEW k \in DOMAIN Wire' PROVE p \notin Mentions(Wire'[k])
      BY <2>4, <3>2, <3>4
    <3>6. QED
      BY <1>2, <3>2, <3>5
  <2>20. Resting'
    <3> SUFFICES ASSUME NEW s \in Sides, NEW i \in DOMAIN book'[s], NEW p, p = book'[s][i].id
                 PROVE  /\ Active(p)' /\ ~Waiting(p)' /\ ~Withdrawn(p)'
                        /\ book'[s][i].qty > 0
                        /\ book'[s][i].qty + rows'[p].filled + Owed(p)' = rows'[p].req.qty
      BY DEF Resting
    <3>1. PICK h : Gave(h, book[s], book'[s], o, part, s = r.side /\ left > 0 /\ r.type = "limit", left)
      BY <2>6
    <3>2. CASE p # o
      <4>1. PICK k \in DOMAIN book[s] : /\ k = h[i] /\ p = book[s][k].id
                                        /\ book'[s][i].qty = book[s][k].qty - part[p]
                                        /\ book'[s][i].qty > 0
        BY <3>1, <3>2 DEF Gave
      <4>2. /\ p \in DOMAIN rows /\ part[p] \in Nat /\ book[s][k].qty \in Int
            /\ book[s][k].qty + rows[p].filled + Owed(p) = rows[p].req.qty
            /\ Active(p) /\ ~Waiting(p) /\ ~Withdrawn(p)
        BY <2>14, <4>1
      <4>3. PICK q, a, b, c, f : /\ q = book[s][k].qty /\ a = part[p] /\ b = Owed(p)
                                 /\ c = rows[p].filled /\ f = Owed(p)'
        OBVIOUS
      <4>4. f = b + a /\ a \in Int /\ b \in Int /\ c \in Int /\ q \in Int
        BY <2>9, <2>11, <2>12, <3>2, <4>2, <4>3
      <4>5. (q - a) + c + f = q + c + b
        BY <4>4
      <4>6. book'[s][i].qty + rows[p].filled + Owed(p)' = rows[p].req.qty
        BY <4>1, <4>2, <4>3, <4>5
      <4>7. QED
        BY <1>2, <2>2, <2>7, <2>8, <3>2, <4>1, <4>2, <4>6
    <3>3. CASE p = o
      <4>1. left > 0 /\ r.type = "limit" /\ book'[s][i].qty = left
        BY <3>1, <3>3 DEF Gave
      <4>2. Active(o) /\ ~Withdrawn(o)
        <5>1. Active(o)
          BY <2>2, <2>13, <4>1 DEF Active, Open
        <5>2. ~Withdrawn(o)
          BY <2>2 DEF Withdrawn, Mentions
        <5>3. QED
          BY <5>1, <5>2
      <4>3. left + rows[o].filled + Owed(o)' = rows[o].req.qty
        BY <2>2, <2>3, <2>10, <2>13
      <4>4. QED
        BY <1>2, <2>2, <2>7, <2>8, <3>3, <4>1, <4>2, <4>3
    <3>4. QED
      BY <3>2, <3>3
  <2>21. Complete'
    <3> SUFFICES ASSUME restored, NEW p \in DOMAIN rows, Active(p), ~Waiting(p)', ~Withdrawn(p)
                 PROVE  Rests(p)' \/ rows[p].filled + Owed(p)' = rows[p].req.qty
      BY <1>2, <2>7, <2>8 DEF Complete
    <3>1. CASE p = o /\ left > 0
      <4>1. r.type = "limit"
        BY <2>13, <3>1 DEF Active
      <4>2. PICK h : Gave(h, book[r.side], book'[r.side], o, part,
                          r.side = r.side /\ left > 0 /\ r.type = "limit", left)
        BY <2>3, <2>6
      <4>3. \E i \in DOMAIN book'[r.side] : book'[r.side][i].id = o
        BY <3>1, <4>1, <4>2 DEF Gave
      <4>4. QED
        BY <2>3, <3>1, <4>3 DEF Rests
    <3>2. CASE p = o /\ ~(left > 0)
      BY <2>2, <2>3, <2>10, <2>13, <3>2
    <3>3. CASE p # o /\ Rests(p)
      <4>1. PICK s \in Sides : \E k \in DOMAIN book[s] : book[s][k].id = p
        BY <3>3 DEF Rests
      <4>2. PICK k \in DOMAIN book[s] : book[s][k].id = p
        BY <4>1
      <4>3. /\ part[p] \in Nat
            /\ book[s][k].qty + rows[p].filled + Owed(p) = rows[p].req.qty
            /\ part[p] # book[s][k].qty => Rests(p)'
        BY <2>14, <4>2
      <4>4. ASSUME part[p] = book[s][k].qty PROVE rows[p].filled + Owed(p)' = rows[p].req.qty
        <5>1. PICK a, b, c, f : a = part[p] /\ b = Owed(p) /\ c = rows[p].filled /\ f = Owed(p)'
          OBVIOUS
        <5>2. f = b + a /\ a \in Int /\ b \in Int /\ c \in Int /\ a + c + b = rows[p].req.qty
          BY <2>9, <2>11, <2>12, <3>3, <4>3, <4>4, <5>1
        <5>3. c + f = a + c + b
          BY <5>2
        <5>4. QED
          BY <5>1, <5>2, <5>3
      <4>5. QED
        BY <4>3, <4>4
    <3>4. CASE p # o /\ ~Rests(p)
      <4>1. rows[p].filled + Owed(p) = rows[p].req.qty
        BY <2>2, <2>5, <3>4 DEF InBook, Complete
      <4>2. p \notin DOMAIN fills
        BY <2>3, <3>4 DEF Rests
      <4>3. Owed(p)' = Owed(p)
        BY <2>9, <2>11, <3>4, <4>2
      <4>4. QED
        BY <4>1, <4>3
    <3>5. QED
      BY <3>1, <3>2, <3>3, <3>4
  <2>22. QED
    BY <2>15, <2>16, <2>17, <2>18, <2>19, <2>20, <2>21 DEF OnWire, InBook
<1>4. QED
  BY <1>2, <1>3 DEF HandoverInv

-----------------------------------------------------------------------------
(* Settling *)

\* The event withdraws the order.
Cancels(e, o) == e.kind = "canceled" /\ ~Stale(e) /\ e.order = o

\* The settlement consumer has dealt with the event at the head.
HeadTaken(e) ==
  /\ settlements # <<>> /\ e = Next1
  /\ settlements' = Tail(settlements) \/ UNCHANGED settlements
  /\ UNCHANGED <<outbox, orders, committed, pos, book, out, handled, leader, term, clean,
                 restored>>
  /\ DOMAIN rows' = DOMAIN rows
  /\ Reported' \subseteq Reported
  /\ ~Due(e)'
  /\ \A p \in DOMAIN rows :
       /\ rows'[p].req = rows[p].req
       /\ rows'[p].filled = rows[p].filled + (IF Due(e) THEN PartOf(e, p) ELSE 0)
       /\ Stale(e) \/ p \notin Mentions(e) => rows'[p] = rows[p]
       /\ Active(p)' => Active(p)
       /\ Active(p) /\ rows'[p].filled < rows[p].req.qty => Active(p)' \/ Cancels(e, p)
       /\ Cancels(e, p) => ~Active(p)'

\* The wire is the same but for its head, which is gone or will be delivered again.
LEMMA WireBehind ==
  ASSUME RecoveryInv, RecoveryInv', NEW e, HeadTaken(e)
  PROVE  /\ 1 \in DOMAIN Wire /\ Wire[1] = e /\ DOMAIN Wire = 1..Len(Wire)
         /\ Len(Wire) \in Nat /\ Len(Wire') \in Nat /\ DOMAIN Wire' = 1..Len(Wire')
         /\ \E c \in {0, 1} :
              /\ Len(Wire) = Len(Wire') + c
              /\ \A k \in DOMAIN Wire' : k + c \in DOMAIN Wire /\ Wire'[k] = Wire[k + c]
<1>1. PICK s, t, w : s = settlements /\ t = out /\ w = Wire
  OBVIOUS
<1>2. s \in Seq(Event) /\ t \in Seq(Event) /\ s # <<>> /\ w = s \o t /\ e = s[1]
  BY <1>1 DEF RecoveryInv, EventsOK, Wire, HeadTaken, Next1
<1>3. PICK a, b : a = Len(s) /\ b = Len(t)
  OBVIOUS
<1>4. a \in Nat /\ b \in Nat /\ a >= 1 /\ DOMAIN s = 1..a /\ DOMAIN t = 1..b
  BY <1>2, <1>3
<1>5. Len(w) = a + b
  BY <1>2, <1>3
<1>6. DOMAIN w = 1..(a + b) /\ \A k \in 1..(a + b) : w[k] = IF k <= a THEN s[k] ELSE t[k - a]
  BY <1>2, <1>3, <1>4
<1>7. 1 \in DOMAIN w /\ w[1] = e
  BY <1>2, <1>4, <1>6
<1>8. PICK u, v : u = settlements' /\ v = Wire'
  OBVIOUS
<1>9. v = u \o t /\ (u = Tail(s) \/ u = s)
  BY <1>1, <1>8 DEF Wire, HeadTaken
<1>10. CASE u = s
  <2>1. v = w
    BY <1>2, <1>9, <1>10
  <2>2. \A k \in 1..(a + b) : k + 0 = k
    BY <1>4
  <2>3. a + b \in Nat /\ a + b = (a + b) + 0
    BY <1>4
  <2>4. QED
    BY <1>1, <1>5, <1>6, <1>7, <1>8, <2>1, <2>2, <2>3
<1>11. CASE u = Tail(s)
  <2>1. u \in Seq(Event) /\ Len(u) = a - 1
    BY <1>2, <1>3, <1>4, <1>11
  <2>2. \A k \in 1..(a - 1) : u[k] = s[k + 1]
    BY <1>2, <1>3, <1>4, <1>11
  <2>3. Len(v) = Len(u) + Len(t)
    <3>1. u \in Seq(Event) /\ t \in Seq(Event)
      BY <1>2, <2>1
    <3>2. v = u \o t
      BY <1>9
    <3>3. QED
      BY <3>1, <3>2
  <2>4. Len(v) = (a - 1) + b
    BY <1>3, <2>1, <2>3
  <2>5. DOMAIN v = 1..((a - 1) + b)
    <3>1. v \in Seq(Event)
      BY <1>2, <1>9, <2>1
    <3>2. QED
      BY <2>4, <3>1
  <2>6. \A k \in 1..((a - 1) + b) : v[k] = IF k <= a - 1 THEN u[k] ELSE t[k - (a - 1)]
    BY <1>2, <1>3, <1>4, <1>9, <2>1
  <2>7. ASSUME NEW k \in 1..((a - 1) + b) PROVE k + 1 \in 1..(a + b) /\ v[k] = w[k + 1]
    <3>1. k + 1 \in 1..(a + b) /\ (k <= a - 1 <=> k + 1 <= a) /\ k - (a - 1) = (k + 1) - a
      BY <1>4
    <3>2. CASE k <= a - 1
      <4>1. k \in 1..(a - 1)
        BY <1>4, <3>2
      <4>2. QED
        BY <1>6, <2>2, <2>6, <3>1, <3>2, <4>1
    <3>3. CASE ~(k <= a - 1)
      BY <1>6, <2>6, <3>1, <3>3
    <3>4. QED
      BY <3>2, <3>3
  <2>8. a + b = ((a - 1) + b) + 1 /\ (a - 1) + b \in Nat /\ a + b \in Nat
    BY <1>4
  <2>9. QED
    BY <1>1, <1>5, <1>6, <1>7, <1>8, <2>4, <2>5, <2>7, <2>8
<1>12. QED
  BY <1>9, <1>10, <1>11

\* What the head owed is filled; the rest of the wire owes what it did.
LEMMA HeadIsPaid ==
  ASSUME RecoveryInv, RecoveryInv', HandoverInv, clean, NEW e, HeadTaken(e),
         NEW c \in {0, 1}, Len(Wire) = Len(Wire') + c,
         \A k \in DOMAIN Wire' : k + c \in DOMAIN Wire /\ Wire'[k] = Wire[k + c]
  PROVE  /\ \A k \in DOMAIN Wire' : /\ Stale(Wire[k])' <=> Stale(Wire[k + c])
                                    /\ Due(Wire[k])' <=> Due(Wire[k + c]) /\ k + c # 1
         /\ \A o : Owed(o) = Owed(o)' + (IF Due(e) THEN PartOf(e, o) ELSE 0)
<1>1. /\ 1 \in DOMAIN Wire /\ Wire[1] = e /\ DOMAIN Wire = 1..Len(Wire)
      /\ Len(Wire) \in Nat /\ Len(Wire') \in Nat /\ DOMAIN Wire' = 1..Len(Wire')
  BY WireBehind
<1>2. term' = term /\ ~Due(e)'
  BY DEF HeadTaken
<1>3. \A k \in DOMAIN Wire' : Stale(Wire[k])' <=> Stale(Wire[k + c])
  BY <1>2 DEF Stale
<1>4. ASSUME NEW k \in DOMAIN Wire' PROVE Due(Wire[k])' <=> Due(Wire[k + c]) /\ k + c # 1
  <2>1. PICK j, f : j = k + c /\ f = Wire'[k] /\ j \in DOMAIN Wire /\ f = Wire[j]
    OBVIOUS
  <2>2. Due(Wire[k])' <=> f.kind = "settle" /\ ~Stale(f) /\ rows'[f.taker].status = "new"
    BY <1>2, <2>1 DEF Due, Stale
  <2>3. Due(Wire[j]) <=> f.kind = "settle" /\ ~Stale(f) /\ rows[f.taker].status = "new"
    BY <2>1 DEF Due
  <2>4. CASE j = 1
    <3>1. f = e
      BY <1>1, <2>1, <2>4
    <3>2. ~Due(Wire[k])'
      BY <1>2, <2>1, <3>1 DEF Due, Stale
    <3>3. QED
      BY <2>1, <2>4, <3>2
  <2>5. CASE j # 1 /\ f.kind = "settle" /\ ~Stale(f)
    <3>1. f.taker \in DOMAIN rows
      BY <2>1, <2>5, WireMentions
    <3>2. 1 < j
      BY <1>1, <2>1, <2>5
    <3>3. Stale(e) \/ f.taker \notin Mentions(e)
      BY <1>1, <2>1, <2>5, <3>2 DEF HandoverInv, OnWire, Sequence
    <3>4. rows'[f.taker] = rows[f.taker]
      BY <3>1, <3>3 DEF HeadTaken
    <3>5. QED
      BY <2>1, <2>2, <2>3, <2>5, <3>4
  <2>6. CASE ~(f.kind = "settle" /\ ~Stale(f))
    BY <2>1, <2>2, <2>3, <2>6
  <2>7. QED
    BY <2>4, <2>5, <2>6
<1>5. ASSUME NEW o PROVE Owed(o) = Owed(o)' + (IF Due(e) THEN PartOf(e, o) ELSE 0)
  <2>1. OwedAt(o)[1] = IF Due(e) THEN PartOf(e, o) ELSE 0
    <3>1. 1 \in 1..Len(Wire)
      BY <1>1
    <3>2. OwedAt(o)[1] = IF Due(Wire[1]) THEN PartOf(Wire[1], o) ELSE 0
      BY <3>1, OwedParts DEF OwedFacts
    <3>3. QED
      BY <1>1, <3>2
  <2>2. ASSUME NEW k \in DOMAIN Wire'
        PROVE  OwedAt(o)'[k] = IF k + c = 1 THEN 0 ELSE OwedAt(o)[k + c]
    <3>1. k \in 1..Len(Wire') /\ k + c \in 1..Len(Wire)
      BY <1>1
    <3>2. OwedAt(o)'[k] = IF Due(Wire[k])' THEN PartOf(Wire'[k], o) ELSE 0
      BY <3>1, FactsNext DEF OwedFacts
    <3>3. OwedAt(o)[k + c] = IF Due(Wire[k + c]) THEN PartOf(Wire[k + c], o) ELSE 0
      BY <3>1, OwedParts DEF OwedFacts
    <3>4. QED
      BY <1>4, <3>2, <3>3
  <2>3. CASE c = 1
    <3>1. Len(Wire) = Len(Wire') + 1
      BY <2>3
    <3>2. \A k \in DOMAIN Wire' : OwedAt(o)'[k] = OwedAt(o)[k + 1]
      <4>1. \A k \in DOMAIN Wire' : k + c # 1
        BY <1>1, <2>3
      <4>2. QED
        BY <2>2, <2>3, <4>1
    <3>3. QED
      BY <2>1, <3>1, <3>2, OwedBehind
  <2>4. CASE c = 0
    <3>1. Len(Wire') = Len(Wire)
      BY <1>1, <2>4
    <3>2. \A k \in DOMAIN Wire' : k + c = k
      BY <1>1, <2>4
    <3>3. DOMAIN Wire' = DOMAIN Wire
      BY <1>1, <3>1
    <3>4. OwedAt(o)'[1] = 0
      BY <1>1, <2>2, <3>2, <3>3
    <3>5. \A k \in DOMAIN Wire : k # 1 => OwedAt(o)'[k] = OwedAt(o)[k]
      BY <2>2, <3>2, <3>3
    <3>6. QED
      BY <1>1, <2>1, <3>1, <3>4, <3>5, OwedSettled
  <2>5. QED
    BY <2>3, <2>4
<1>6. QED
  BY <1>3, <1>4, <1>5

\* Whoever gives on the wire is not filled yet.
LEMMA GiverIsShort ==
  ASSUME RecoveryInv', Gives', NEW k \in DOMAIN Wire', Due(Wire[k])', NEW m \in DOMAIN Wire'[k].fills
  PROVE  Owed(m)' \in Nat /\ Owed(m)' > 0
<1>1. PICK g, n : g = OwedAt(m)' /\ n = Len(Wire')
  OBVIOUS
<1>2. /\ n \in Nat /\ DOMAIN Wire' = 1..n /\ IsFiniteSet(1..n)
      /\ Owed(m)' = SumFunctionOnSet(g, 1..n)
  BY <1>1, PartsAfter
<1>3. ASSUME NEW j \in 1..n, Due(Wire[j])'
      PROVE  /\ PartOf(Wire'[j], m) \in Nat
             /\ m \in DOMAIN Wire'[j].fills => PartOf(Wire'[j], m) > 0
  <2>1. PICK f : f = Wire'[j]
    OBVIOUS
  <2>2. f \in Event /\ f \in Reported' /\ f.kind = "settle"
    <3>1. Wire'[j] \in Event /\ Wire'[j] \in Reported'
      BY <1>2, FactsNext DEF WireFacts
    <3>2. QED
      BY <1>3, <2>1, <3>1 DEF Due
  <2>3. f \in SettleEvent /\ \A p \in DOMAIN f.fills : f.fills[p] > 0 /\ f.fills[p] \in Int
    BY <2>2, EventFields DEF Gives
  <2>4. PartOf(f, m) \in Nat /\ Total(f.fills) \in Nat
    BY <2>3, PartIsInt
  <2>5. m \in DOMAIN f.fills => PartOf(f, m) > 0
    BY <2>3, <2>4 DEF PartOf
  <2>6. QED
    BY <2>1, <2>4, <2>5
<1>4. \A j \in 1..n : g[j] = IF Due(Wire[j])' THEN PartOf(Wire'[j], m) ELSE 0
  BY <1>1, FactsNext DEF OwedFacts
<1>5. \A j \in 1..n : g[j] \in Nat
  BY <1>3, <1>4
<1>6. k \in 1..n /\ g[k] > 0
  BY <1>2, <1>3, <1>4
<1>7. PICK S : S = 1..n
  OBVIOUS
<1>8. SumFunctionOnSet(g, S) \in Nat /\ g[k] <= SumFunctionOnSet(g, S)
  BY <1>2, <1>5, <1>6, <1>7, SumNat, SumMember
<1>9. QED
  BY <1>2, <1>5, <1>6, <1>7, <1>8

\* Orders move from what is owed to what is filled, and the book stays right.
LEMMA HeadTakenKeepsBook ==
  ASSUME RecoveryInv, RecoveryInv', HandoverInv, clean, NEW e, HeadTaken(e)
  PROVE  OnWire' /\ (leader' # "down" => InBook')
<1>1. /\ UNCHANGED <<outbox, orders, committed, pos, book, out, handled, leader, term, clean,
                     restored>>
      /\ DOMAIN rows' = DOMAIN rows /\ Reported' \subseteq Reported
  BY DEF HeadTaken
<1>2. /\ 1 \in DOMAIN Wire /\ Wire[1] = e /\ DOMAIN Wire = 1..Len(Wire)
      /\ Len(Wire) \in Nat /\ Len(Wire') \in Nat /\ DOMAIN Wire' = 1..Len(Wire')
  BY WireBehind
<1>3. PICK c \in {0, 1} : /\ Len(Wire) = Len(Wire') + c
                          /\ \A k \in DOMAIN Wire' : k + c \in DOMAIN Wire /\ Wire'[k] = Wire[k + c]
  BY WireBehind
<1>4. /\ \A k \in DOMAIN Wire' : /\ Stale(Wire[k])' <=> Stale(Wire[k + c])
                                 /\ Due(Wire[k])' <=> Due(Wire[k + c]) /\ k + c # 1
      /\ \A o : Owed(o) = Owed(o)' + (IF Due(e) THEN PartOf(e, o) ELSE 0)
  BY <1>3, HeadIsPaid
<1>5. OnWire /\ (leader' # "down" => InBook)
  BY <1>1 DEF HandoverInv
<1>6. \A p \in DOMAIN rows : rows[p].filled \in Int /\ rows[p].req.qty \in Nat
  BY RowFields DEF RecoveryInv
<1>7. ASSUME NEW p \in DOMAIN rows
      PROVE  /\ rows'[p].req = rows[p].req
             /\ rows'[p].filled \in Int /\ Owed(p)' \in Int /\ Owed(p) \in Int
             /\ rows'[p].filled + Owed(p)' = rows[p].filled + Owed(p)
  <2>1. PICK x : x = IF Due(e) THEN PartOf(e, p) ELSE 0
    OBVIOUS
  <2>2. rows'[p].filled = rows[p].filled + x /\ rows'[p].req = rows[p].req /\ Owed(p) = Owed(p)' + x
    BY <1>4, <2>1 DEF HeadTaken
  <2>3. x \in Int
    <3>1. 1 \in 1..Len(Wire)
      BY <1>2
    <3>2. OwedAt(p)[1] = IF Due(Wire[1]) THEN PartOf(Wire[1], p) ELSE 0
      BY <3>1, OwedParts DEF OwedFacts
    <3>3. OwedAt(p)[1] \in Int
      BY <3>1, OwedParts DEF OwedFacts
    <3>4. QED
      BY <1>2, <2>1, <3>2, <3>3
  <2>4. Owed(p)' \in Int /\ Owed(p) \in Int
    BY OwedParts, FactsNext DEF OwedFacts
  <2>5. QED
    BY <1>6, <2>2, <2>3, <2>4
<1>8. \A p : Withdrawn(p)' => Withdrawn(p)
  BY <1>3, <1>4 DEF Withdrawn
<1>9. \A p : Withdrawn(p) => Withdrawn(p)' \/ Cancels(e, p)
  <2> SUFFICES ASSUME NEW p, Withdrawn(p) PROVE Withdrawn(p)' \/ Cancels(e, p)
    OBVIOUS
  <2>1. PICK j \in DOMAIN Wire : Wire[j].kind = "canceled" /\ ~Stale(Wire[j]) /\ Wire[j].order = p
    BY DEF Withdrawn
  <2>2. CASE j = 1
    BY <1>2, <2>1, <2>2 DEF Cancels
  <2>3. CASE j # 1
    <3>1. j - c \in DOMAIN Wire' /\ (j - c) + c = j
      BY <1>2, <1>3, <2>3
    <3>2. PICK k \in DOMAIN Wire' : k + c = j
      BY <3>1
    <3>3. Wire'[k] = Wire[j] /\ (Stale(Wire[k])' <=> Stale(Wire[j]))
      BY <1>3, <1>4, <3>2
    <3>4. QED
      BY <2>1, <3>3 DEF Withdrawn
  <2>4. QED
    BY <2>2, <2>3
<1>10. \A p : Cancels(e, p) => Withdrawn(p)
  BY <1>2 DEF Cancels, Withdrawn
<1>11. \A p : Waiting(p)' <=> Waiting(p)
  BY <1>1 DEF Waiting, NextPos, Idle, Placed
<1>12. RecordsOnce'
  BY <1>1, SameRecords
<1>13. QueuesOnce'
  BY <1>1, <1>5 DEF OnWire, QueuesOnce
<1>14. Gives'
  BY <1>1, <1>5 DEF OnWire, Matched, Gives
<1>15. Bounded'
  <2> SUFFICES ASSUME NEW p \in DOMAIN rows PROVE rows'[p].filled + Owed(p)' <= rows'[p].req.qty
    BY <1>1 DEF Bounded
  <2>1. rows[p].filled + Owed(p) <= rows[p].req.qty
    BY <1>5 DEF OnWire, Bounded
  <2>2. QED
    BY <1>7, <2>1
<1>16. Sequence'
  <2> SUFFICES ASSUME NEW i \in DOMAIN Wire', NEW j \in DOMAIN Wire', i < j,
                      ~Stale(Wire[i])', ~Stale(Wire[j])', Wire'[j].kind = "settle"
               PROVE  /\ Wire'[j].taker \notin Mentions(Wire'[i])
                      /\ Wire'[i].kind = "canceled" => Wire'[i].order \notin DOMAIN Wire'[j].fills
    BY DEF Sequence
  <2>1. PICK a, b : /\ a = i + c /\ b = j + c /\ a \in DOMAIN Wire /\ b \in DOMAIN Wire
                    /\ Wire'[i] = Wire[a] /\ Wire'[j] = Wire[b]
                    /\ ~Stale(Wire[a]) /\ ~Stale(Wire[b])
    BY <1>3, <1>4
  <2>2. a < b
    BY <1>2, <2>1
  <2>3. QED
    BY <1>5, <2>1, <2>2 DEF OnWire, Sequence
<1>17. Matched'
  <2>1. ASSUME NEW k \in DOMAIN Wire', Wire'[k].kind = "settle"
        PROVE  /\ Wire'[k].left + Total(Wire'[k].fills) = rows'[Wire'[k].taker].req.qty
               /\ rows'[Wire'[k].taker].req.type = "limit" => DOMAIN Wire'[k].fills # {}
               /\ Due(Wire[k])' => \A p \in DOMAIN Wire'[k].fills : Active(p)'
    <3>1. PICK j, f : /\ j = k + c /\ j \in DOMAIN Wire /\ f = Wire[j] /\ Wire'[k] = f
                      /\ Due(Wire[k])' <=> Due(Wire[j]) /\ j # 1
      BY <1>3, <1>4
    <3>2. /\ f.left + Total(f.fills) = rows[f.taker].req.qty
          /\ rows[f.taker].req.type = "limit" => DOMAIN f.fills # {}
          /\ Due(Wire[j]) => \A p \in DOMAIN f.fills : Active(p)
      BY <1>5, <2>1, <3>1 DEF OnWire, Matched
    <3>3. f.taker \in DOMAIN rows /\ DOMAIN f.fills \subseteq DOMAIN rows
      BY <2>1, <3>1, WireMentions
    <3>4. ASSUME Due(Wire[k])', NEW p \in DOMAIN f.fills PROVE Active(p)'
      <4>1. Active(p) /\ p \in DOMAIN rows
        BY <3>1, <3>2, <3>3, <3>4
      <4>2. Owed(p)' \in Nat /\ Owed(p)' > 0
        BY <1>14, <3>1, <3>4, GiverIsShort
      <4>3. rows'[p].filled + Owed(p)' <= rows'[p].req.qty
        BY <1>1, <1>15, <4>1 DEF Bounded
      <4>4. rows'[p].filled < rows[p].req.qty
        <5>1. rows[p].req.qty \in Nat /\ rows'[p].req = rows[p].req /\ rows'[p].filled \in Int
          BY <1>6, <1>7, <4>1
        <5>2. QED
          BY <4>2, <4>3, <5>1
      <4>5. ~Cancels(e, p)
        <5>1. Due(Wire[j]) /\ 1 < j
          BY <1>2, <3>1, <3>4
        <5>2. ~Stale(Wire[j]) /\ Wire[j].kind = "settle"
          BY <5>1 DEF Due
        <5>3. ~Stale(e) /\ e.kind = "canceled" => e.order \notin DOMAIN f.fills
          BY <1>2, <1>5, <3>1, <5>1, <5>2 DEF OnWire, Sequence
        <5>4. QED
          BY <5>3 DEF Cancels
      <4>6. QED
        BY <4>1, <4>4, <4>5 DEF HeadTaken
    <3>5. QED
      BY <1>7, <3>1, <3>2, <3>3, <3>4
  <2>2. QED
    BY <1>14, <2>1 DEF Matched
<1>18. \A p : Owed(p)' \in Nat
  BY <1>17, FactsNext DEF OwedFacts
<1>19. ASSUME leader' # "down" PROVE InBook'
  <2>1. InBook
    BY <1>5, <1>19
  <2>2. Fresh'
    <3> SUFFICES ASSUME NEW p \in DOMAIN rows, Waiting(p)
                 PROVE  /\ rows'[p].filled = 0 /\ rows'[p].status = "new"
                        /\ \A k \in DOMAIN Wire' : p \notin Mentions(Wire'[k])
      BY <1>1, <1>11 DEF Fresh
    <3>1. /\ rows[p].filled = 0 /\ rows[p].status = "new"
          /\ \A k \in DOMAIN Wire : p \notin Mentions(Wire[k])
      BY <2>1 DEF InBook, Fresh
    <3>2. rows'[p] = rows[p]
      BY <1>2, <3>1 DEF HeadTaken
    <3>3. QED
      BY <1>3, <3>1, <3>2
  <2>3. Resting'
    <3> SUFFICES ASSUME NEW s \in Sides, NEW k \in DOMAIN book[s], NEW p, p = book[s][k].id
                 PROVE  /\ Active(p)' /\ ~Waiting(p)' /\ ~Withdrawn(p)'
                        /\ book[s][k].qty > 0
                        /\ book[s][k].qty + rows'[p].filled + Owed(p)' = rows'[p].req.qty
      BY <1>1 DEF Resting
    <3>1. p \in DOMAIN rows /\ book[s][k].qty \in Int
      BY BookHasRows
    <3>2. /\ Active(p) /\ ~Waiting(p) /\ ~Withdrawn(p) /\ book[s][k].qty > 0
          /\ book[s][k].qty + rows[p].filled + Owed(p) = rows[p].req.qty
      BY <2>1 DEF InBook, Resting
    <3>3. PICK q, x, y, u, v, z : /\ q = book[s][k].qty /\ x = rows[p].filled /\ y = Owed(p)
                                  /\ u = rows'[p].filled /\ v = Owed(p)' /\ z = rows[p].req.qty
      OBVIOUS
    <3>4. /\ q \in Int /\ x \in Int /\ y \in Int /\ u \in Int /\ v \in Nat /\ z \in Nat /\ q > 0
          /\ u + v = x + y /\ q + x + y = z
      BY <1>6, <1>7, <1>18, <3>1, <3>2, <3>3
    <3>5. u < z /\ q + u + v = z
      BY <3>4
    <3>6. Active(p)'
      <4>1. rows'[p].filled < rows[p].req.qty /\ ~Cancels(e, p)
        BY <1>10, <3>2, <3>3, <3>5
      <4>2. QED
        BY <3>1, <3>2, <4>1 DEF HeadTaken
    <3>7. QED
      BY <1>7, <1>8, <1>11, <3>1, <3>2, <3>3, <3>5, <3>6
  <2>4. Complete'
    <3> SUFFICES ASSUME restored, NEW p \in DOMAIN rows, Active(p)', ~Waiting(p)',
                        ~Withdrawn(p)'
                 PROVE  Rests(p)' \/ rows'[p].filled + Owed(p)' = rows'[p].req.qty
      BY <1>1 DEF Complete
    <3>1. Active(p) /\ ~Cancels(e, p)
      BY DEF HeadTaken
    <3>2. ~Waiting(p) /\ ~Withdrawn(p)
      BY <1>9, <1>11, <3>1
    <3>3. Rests(p) \/ rows[p].filled + Owed(p) = rows[p].req.qty
      BY <2>1, <3>1, <3>2 DEF InBook, Complete
    <3>4. Rests(p)' <=> Rests(p)
      BY <1>1 DEF Rests
    <3>5. QED
      BY <1>7, <3>3, <3>4
  <2>5. QED
    BY <2>2, <2>3, <2>4 DEF InBook
<1>20. QED
  BY <1>12, <1>13, <1>15, <1>16, <1>17, <1>19 DEF OnWire

\* The head of the queue is the head of the wire.
LEMMA WireHead ==
  ASSUME RecoveryInv, settlements # <<>>
  PROVE  1 \in DOMAIN Wire /\ Wire[1] = Next1 /\ Next1 \in Reported /\ Next1 \in Event
<1>1. PICK s, n : s = settlements /\ n = Len(settlements)
  OBVIOUS
<1>2. s \in Seq(Event) /\ s # <<>>
  BY <1>1 DEF RecoveryInv, EventsOK
<1>3. n \in Nat /\ n >= 1
  BY <1>1, <1>2
<1>4. 1 \in 1..Len(settlements)
  BY <1>1, <1>3
<1>5. 1 \in DOMAIN Wire /\ Wire[1] = settlements[1]
  BY <1>4, WireHasEvents DEF WireFacts
<1>6. Wire[1] \in Event /\ Wire[1] \in Reported
  BY <1>5, WireHasEvents DEF WireFacts
<1>7. QED
  BY <1>5, <1>6 DEF Next1

\* A cancellation closes its order, or does nothing.
LEMMA SettleCancelTakesHead ==
  ASSUME RecoveryInv, RecoveryInv', SettleCancel, NEW e, e = Next1
  PROVE  HeadTaken(e) /\ UNCHANGED <<trades, term>>
<1>1. /\ settlements # <<>> /\ e.kind = "canceled"
      /\ rows' = IF ~Stale(e) /\ rows[e.order].status \in Open
                 THEN [rows EXCEPT ![e.order] = [@ EXCEPT !.status = "canceled"]]
                 ELSE rows
      /\ settlements' = Tail(settlements) \/ UNCHANGED settlements
  BY DEF SettleCancel, Acknowledge
<1>2. UNCHANGED <<trades, outbox, orders, committed, pos, book, out, handled, leader, term, clean,
                  restored>>
  BY DEF SettleCancel, logVars, engineVars, historyVars
<1>3. ~Due(e) /\ ~Due(e)' /\ Mentions(e) = {e.order}
  BY <1>1 DEF Due, Mentions
<1>4. Reported' \subseteq Reported
  <2>1. ToSet(settlements') \subseteq ToSet(settlements)
    BY <1>1, Acknowledged
  <2>2. QED
    BY <1>2, <2>1 DEF Reported
<1>5. DOMAIN rows' = DOMAIN rows
  BY <1>1
<1>6. ASSUME NEW p \in DOMAIN rows
      PROVE  /\ rows'[p].req = rows[p].req
             /\ rows'[p].filled = rows[p].filled + (IF Due(e) THEN PartOf(e, p) ELSE 0)
             /\ Stale(e) \/ p \notin Mentions(e) => rows'[p] = rows[p]
             /\ Active(p)' => Active(p)
             /\ Active(p) /\ rows'[p].filled < rows[p].req.qty => Active(p)' \/ Cancels(e, p)
             /\ Cancels(e, p) => ~Active(p)'
  <2>1. rows[p] \in OrderRow /\ rows[p].filled \in Int
    BY RowFields DEF RecoveryInv
  <2>2. rows[p].filled = rows[p].filled + 0
    BY <2>1
  <2>3. CASE p = e.order /\ ~Stale(e) /\ rows[p].status \in Open
    <3>1. rows'[p] = [rows[p] EXCEPT !.status = "canceled"]
      BY <1>1, <2>3
    <3>2. rows'[p].req = rows[p].req /\ rows'[p].filled = rows[p].filled /\ rows'[p].status = "canceled"
      BY <2>1, <3>1 DEF OrderRow
    <3>3. ~Active(p)' /\ Cancels(e, p)
      BY <1>1, <2>3, <3>2 DEF Active, Open, Cancels
    <3>4. QED
      BY <1>3, <2>2, <2>3, <3>2, <3>3
  <2>4. CASE ~(p = e.order /\ ~Stale(e) /\ rows[p].status \in Open)
    <3>1. rows'[p] = rows[p]
      BY <1>1, <2>4
    <3>2. Active(p)' <=> Active(p)
      BY <3>1 DEF Active
    <3>3. Cancels(e, p) => ~Active(p)
      BY <2>4 DEF Cancels, Active
    <3>4. QED
      BY <1>3, <2>2, <3>1, <3>2, <3>3
  <2>5. QED
    BY <2>3, <2>4
<1>7. HeadTaken(e)
  BY <1>1, <1>2, <1>3, <1>4, <1>5, <1>6 DEF HeadTaken
<1>8. QED
  BY <1>2, <1>7

\* What has been settled is owed no more.
LEMMA SettledIsNotDue ==
  ASSUME RecoveryInv, HandoverInv, clean, NEW e \in Reported, e.kind = "settle", Settled(e)
  PROVE  ~Due(e)
<1> SUFFICES ASSUME rows[e.taker].status = "new" PROVE FALSE
  BY DEF Due
<1>1. PICK t \in trades : t.id = e.id
  BY DEF Settled
<1>2. t \in Reported /\ t.kind = "settle"
  BY <1>1 DEF Reported, RecoveryInv, EventsOK, SettleEvent
<1>3. t.taker = e.taker
  BY <1>1, <1>2 DEF HandoverInv, Ledger, OneTaker
<1>4. AllPositive(trades)
  <2>1. \A u \in trades : u \in Reported /\ u.kind = "settle"
    BY DEF Reported, RecoveryInv, EventsOK, SettleEvent
  <2>2. QED
    BY <2>1 DEF HandoverInv, OnWire, Matched, Gives, AllPositive
<1>5. QED
  BY <1>1, <1>3, <1>4 DEF RecoveryInv, Claimed

\* A written settlement fills what it owed, and closes only what is full or has no rest.
LEMMA WritingTakesHead ==
  ASSUME RecoveryInv, RecoveryInv', HandoverInv, clean, settlements # <<>>, NEW e, e = Next1,
         ~Stale(e), Writes(e)
  PROVE  /\ Due(e) /\ ~Due(e)'
         /\ \A p \in DOMAIN rows :
              /\ rows'[p].req = rows[p].req
              /\ rows'[p].filled = rows[p].filled + PartOf(e, p)
              /\ p \notin Mentions(e) => rows'[p] = rows[p]
              /\ Active(p)' => Active(p)
              /\ Active(p) /\ rows'[p].filled < rows[p].req.qty => Active(p)'
<1>1. /\ e \in SettleEvent /\ e.kind = "settle" /\ rows[e.taker].status = "new"
      /\ e.taker \in DOMAIN rows /\ DOMAIN e.fills \subseteq DOMAIN rows \ {e.taker}
      /\ \A m \in DOMAIN e.fills : e.fills[m] \in Int
  <2>1. e \in SettleEvent /\ e.kind = "settle" /\ e \in Event /\ Fits(e) /\ ~Settled(e)
    BY DEF Writes, SettleEvent, Event
  <2>2. QED
    BY <2>1, EventFields DEF Settled, Fits
<1>2. Due(e)
  BY <1>1 DEF Due
<1>3. 1 \in DOMAIN Wire /\ Wire[1] = e /\ e \in Reported
  BY WireHead
<1>4. OnWire
  BY DEF HandoverInv
<1>5. /\ e.left + Total(e.fills) = rows[e.taker].req.qty
      /\ rows[e.taker].req.type = "limit" => DOMAIN e.fills # {}
      /\ \A m \in DOMAIN e.fills : Active(m)
      /\ \A m \in DOMAIN e.fills : e.fills[m] > 0
  BY <1>1, <1>2, <1>3, <1>4 DEF OnWire, Matched, Gives
<1>6. AllPositive(trades)
  <2>1. \A u \in trades : u \in Reported /\ u.kind = "settle"
    BY DEF Reported, RecoveryInv, EventsOK, SettleEvent
  <2>2. QED
    BY <1>4, <2>1 DEF OnWire, Matched, Gives, AllPositive
<1>7. PICK x, n : x = e.taker /\ n = Total(e.fills)
  OBVIOUS
<1>8. n \in Nat /\ (rows[x].req.type = "limit" => n > 0) /\ PartOf(e, x) = n /\ e.left \in Nat
  <2>1. n \in Nat /\ (DOMAIN e.fills # {} => n > 0)
    BY <1>1, <1>5, <1>7, PartIsInt
  <2>2. PartOf(e, x) = n
    BY <1>1, <1>7, <2>1 DEF PartOf
  <2>3. e.left \in Nat
    BY <1>1 DEF SettleEvent
  <2>4. QED
    BY <1>5, <1>7, <2>1, <2>2, <2>3
<1>9. rows[x].filled \in Nat
  <2>1. PICK f : f = [t \in trades |-> PartOf(t, x)]
    OBVIOUS
  <2>2. TradedBy(x) \in Nat
    BY <1>6, <2>1, TradedIsSum DEF RecoveryInv
  <2>3. QED
    BY <1>1, <1>7, <2>2 DEF RecoveryInv, FilledMatchesTrades
<1>10. \A o \in DOMAIN rows :
         /\ rows'[o].req = rows[o].req
         /\ rows'[o].filled = rows[o].filled + PartOf(e, o)
         /\ o = e.taker => rows'[o].status = TakerRow(e).status
         /\ o \in DOMAIN e.fills => rows'[o].status = MakerRow(o, e.fills[o]).status
         /\ o # e.taker /\ o \notin DOMAIN e.fills => rows'[o] = rows[o]
  BY WrittenRows
<1>11. PICK r, filled : r = rows[x] /\ filled = r.filled + n
  OBVIOUS
<1>12. r \in OrderRow /\ r.req.qty \in Nat /\ r.req.qty > 0 /\ r.req.type \in {"limit", "market"}
  BY <1>1, <1>7, <1>11, RowFields DEF RecoveryInv
<1>13. rows'[x].status = IF r.req.type = "market" THEN IF filled = 0 THEN "canceled" ELSE "filled"
                         ELSE IF filled = r.req.qty THEN "filled"
                         ELSE IF e.left = 0 THEN "canceled"
                         ELSE IF filled > 0 THEN "partially_filled"
                         ELSE r.status
  <2>1. PICK s : s = IF r.req.type = "market" THEN IF filled = 0 THEN "canceled" ELSE "filled"
                     ELSE IF filled = r.req.qty THEN "filled"
                     ELSE IF e.left = 0 THEN "canceled"
                     ELSE IF filled > 0 THEN "partially_filled"
                     ELSE r.status
    OBVIOUS
  <2>2. TakerRow(e) = [r EXCEPT !.filled = filled, !.status = s]
    BY <1>7, <1>11, <2>1 DEF TakerRow
  <2>3. TakerRow(e).status = s
    BY <1>12, <2>2 DEF OrderRow
  <2>4. QED
    BY <1>1, <1>7, <1>10, <2>1, <2>3
<1>14. r.req.type = "limit" => filled \in Nat /\ filled > 0
  BY <1>8, <1>9, <1>11
<1>15. rows'[x].status # "new"
  BY <1>12, <1>13, <1>14
<1>16. ~Due(e)'
  BY <1>7, <1>15 DEF Due
<1>17. rows'[x].filled = filled /\ rows'[x].req = r.req /\ r.status = "new"
  BY <1>1, <1>7, <1>8, <1>10, <1>11
<1>18. Active(x)' => Active(x)
  BY <1>11, <1>17 DEF Active, Open
<1>19. ASSUME Active(x), filled < r.req.qty PROVE Active(x)'
  <2>1. r.req.type = "limit"
    BY <1>11, <1>19 DEF Active
  <2>2. filled > 0 /\ filled # r.req.qty
    BY <1>12, <1>14, <1>19, <2>1
  <2>3. e.left # 0
    <3>1. e.left + n = r.req.qty
      BY <1>5, <1>7, <1>11
    <3>2. QED
      BY <1>8, <1>9, <1>11, <1>12, <1>19, <3>1
  <2>4. rows'[x].status = "partially_filled"
    BY <1>13, <2>1, <2>2, <2>3
  <2>5. QED
    BY <1>17, <2>1, <2>4 DEF Active, Open
<1>20. ASSUME NEW p \in DOMAIN e.fills, rows'[p].filled < rows[p].req.qty PROVE Active(p)'
  <2>1. p \in DOMAIN rows /\ p # x /\ Active(p)
    BY <1>1, <1>5, <1>7
  <2>2. PICK u, q : u = rows[p] /\ q = e.fills[p]
    OBVIOUS
  <2>3. u \in OrderRow /\ u.filled \in Int /\ u.req.qty \in Nat /\ q \in Int
    BY <1>1, <2>1, <2>2, RowFields DEF RecoveryInv
  <2>4. PartOf(e, p) = q
    BY <1>7, <2>1, <2>2, <2>3 DEF PartOf
  <2>5. rows'[p].filled = u.filled + q /\ rows'[p].req = u.req
    BY <1>10, <2>1, <2>2, <2>4
  <2>6. u.filled + q # u.req.qty
    BY <1>20, <2>2, <2>3, <2>5
  <2>7. MakerRow(p, q) = [u EXCEPT !.filled = @ + q, !.status = "partially_filled"]
    BY <2>2, <2>6 DEF MakerRow
  <2>8. MakerRow(p, q).status = "partially_filled"
    BY <2>3, <2>7 DEF OrderRow
  <2>9. rows'[p].status = "partially_filled"
    BY <1>10, <2>1, <2>2, <2>8
  <2>10. QED
    BY <2>1, <2>2, <2>5, <2>9 DEF Active, Open
<1>21. ASSUME NEW p \in DOMAIN rows
       PROVE  /\ p \notin Mentions(e) => rows'[p] = rows[p]
              /\ Active(p)' => Active(p)
              /\ Active(p) /\ rows'[p].filled < rows[p].req.qty => Active(p)'
  <2>1. p \notin Mentions(e) <=> p # x /\ p \notin DOMAIN e.fills
    BY <1>1, <1>7 DEF Mentions
  <2>2. CASE p = x
    BY <1>11, <1>17, <1>18, <1>19, <2>1, <2>2
  <2>3. CASE p \in DOMAIN e.fills
    BY <1>5, <1>20, <2>1, <2>3
  <2>4. CASE p # x /\ p \notin DOMAIN e.fills
    <3>1. rows'[p] = rows[p]
      BY <1>7, <1>10, <2>4
    <3>2. QED
      BY <2>1, <2>4, <3>1 DEF Active
  <2>5. QED
    BY <2>2, <2>3, <2>4
<1>22. QED
  BY <1>2, <1>10, <1>16, <1>21

\* A settlement is dropped, or written.
LEMMA SettleCases ==
  ASSUME RecoveryInv, Settle, NEW e, e = Next1
  PROVE  /\ settlements # <<>> /\ e.kind = "settle" /\ e \in Reported
         /\ settlements' = Tail(settlements) \/ UNCHANGED settlements
         /\ UNCHANGED <<outbox, orders, committed, pos, book, out, handled, leader, term, clean,
                        restored>>
         /\ DOMAIN rows' = DOMAIN rows /\ Reported' \subseteq Reported
         /\ \/ UNCHANGED <<rows, trades>> /\ (Stale(e) \/ Settled(e))
            \/ ~Stale(e) /\ Writes(e)
<1>1. settlements # <<>> /\ e.kind = "settle"
  BY DEF Settle
<1>2. settlements' = Tail(settlements) \/ UNCHANGED settlements
  BY DEF Settle, Acknowledge
<1>3. UNCHANGED <<outbox, orders, committed, pos, book, out, handled, leader, term, clean,
                  restored>>
  BY DEF Settle, logVars, engineVars, historyVars
<1>4. e \in Event /\ Fits(e) /\ e \in Reported
  BY <1>1, NextEvent
<1>5. ASSUME Stale(e) \/ Settled(e) PROVE UNCHANGED <<rows, trades>>
  BY <1>5 DEF Settle
<1>6. ASSUME ~(Stale(e) \/ Settled(e)) PROVE Writes(e)
  <2>1. e \in SettleEvent
    BY <1>1, <1>4, EventFields
  <2>2. /\ rows' = [o \in DOMAIN rows |->
                 IF o = e.taker THEN TakerRow(e)
                 ELSE IF o \in DOMAIN e.fills THEN MakerRow(o, e.fills[o])
                 ELSE rows[o]]
        /\ trades' = IF DOMAIN e.fills = {} THEN trades ELSE trades \cup {e}
    BY <1>6 DEF Settle
  <2>3. QED
    BY <1>4, <1>6, <2>1, <2>2 DEF Writes
<1>7. \/ UNCHANGED <<rows, trades>> /\ (Stale(e) \/ Settled(e))
      \/ ~Stale(e) /\ Writes(e)
  BY <1>5, <1>6
<1>8. DOMAIN rows' = DOMAIN rows /\ trades' \subseteq trades \cup {e}
  BY <1>7 DEF Writes
<1>9. Reported' \subseteq Reported
  <2>1. ToSet(settlements') \subseteq ToSet(settlements)
    BY <1>1, <1>2, Acknowledged
  <2>2. QED
    BY <1>3, <1>4, <1>8, <2>1 DEF Reported
<1>10. QED
  BY <1>1, <1>2, <1>3, <1>4, <1>7, <1>8, <1>9

\* A settlement, whether it is written or dropped, leaves what the wire owes.
LEMMA SettleKeepsBook ==
  ASSUME RecoveryInv, RecoveryInv', HandoverInv, Settle
  PROVE  HandoverInv'
<1>1. PICK e : e = Next1
  OBVIOUS
<1>2. /\ settlements # <<>> /\ e.kind = "settle" /\ e \in Reported
      /\ settlements' = Tail(settlements) \/ UNCHANGED settlements
      /\ UNCHANGED <<outbox, orders, committed, pos, book, out, handled, leader, term, clean,
                     restored>>
      /\ DOMAIN rows' = DOMAIN rows /\ Reported' \subseteq Reported
      /\ \/ UNCHANGED <<rows, trades>> /\ (Stale(e) \/ Settled(e))
         \/ ~Stale(e) /\ Writes(e)
  BY <1>1, SettleCases
<1>3. Ledger'
  <2>1. committed' = pos' /\ Recorded'
    BY <1>2, SameRecords DEF HandoverInv, Ledger
  <2>2. QED
    BY <1>2, <2>1, LedgerSame
<1>4. ASSUME clean PROVE HeadTaken(e)
  <2>1. CASE ~Stale(e) /\ Writes(e)
    <3>1. /\ Due(e) /\ ~Due(e)'
          /\ \A p \in DOMAIN rows :
               /\ rows'[p].req = rows[p].req
               /\ rows'[p].filled = rows[p].filled + PartOf(e, p)
               /\ p \notin Mentions(e) => rows'[p] = rows[p]
               /\ Active(p)' => Active(p)
               /\ Active(p) /\ rows'[p].filled < rows[p].req.qty => Active(p)'
      BY <1>1, <1>2, <1>4, <2>1, WritingTakesHead
    <3>2. \A p : ~Cancels(e, p)
      BY <1>2 DEF Cancels
    <3>3. QED
      BY <1>1, <1>2, <2>1, <3>1, <3>2 DEF HeadTaken
  <2>2. CASE UNCHANGED <<rows, trades>> /\ (Stale(e) \/ Settled(e))
    <3>1. ~Due(e)
      BY <1>2, <1>4, <2>2, SettledIsNotDue DEF Due
    <3>2. ~Due(e)'
      BY <1>2, <2>2, <3>1 DEF Due, Stale
    <3>3. \A p : ~Cancels(e, p) /\ (Active(p)' <=> Active(p))
      BY <1>2, <2>2 DEF Cancels, Active
    <3>4. \A p \in DOMAIN rows : rows[p].filled = rows[p].filled + 0
      BY RowFields DEF RecoveryInv
    <3>5. QED
      BY <1>1, <1>2, <2>2, <3>1, <3>2, <3>3, <3>4 DEF HeadTaken
  <2>3. QED
    BY <1>2, <2>1, <2>2
<1>5. clean => OnWire' /\ (leader' # "down" => InBook')
  BY <1>4, HeadTakenKeepsBook
<1>6. QED
  BY <1>2, <1>3, <1>5 DEF HandoverInv

\* So does a cancellation.
LEMMA SettleCancelKeepsBook ==
  ASSUME RecoveryInv, RecoveryInv', HandoverInv, SettleCancel
  PROVE  HandoverInv'
<1>1. PICK e : e = Next1
  OBVIOUS
<1>2. HeadTaken(e)
  BY <1>1, SettleCancelTakesHead
<1>3. /\ UNCHANGED <<outbox, orders, committed, pos, out, term, clean>>
      /\ DOMAIN rows' = DOMAIN rows /\ Reported' \subseteq Reported
  BY <1>2 DEF HeadTaken
<1>4. Ledger'
  <2>1. committed' = pos' /\ Recorded'
    BY <1>3, SameRecords DEF HandoverInv, Ledger
  <2>2. QED
    BY <1>3, <2>1, LedgerSame
<1>5. clean => OnWire' /\ (leader' # "down" => InBook')
  BY <1>2, HeadTakenKeepsBook
<1>6. QED
  BY <1>3, <1>4, <1>5 DEF HandoverInv

\* At first there is nothing.
LEMMA InitHandover == Init => HandoverInv
<1> SUFFICES ASSUME Init PROVE HandoverInv
  OBVIOUS
<1>1. RecoveryInv
  BY InitRecovery
<1>2. DOMAIN rows = {}
  BY DEF Init
<1>3. /\ trades = {} /\ orders = <<>> /\ settlements = <<>> /\ out = <<>>
      /\ committed = pos /\ \A s \in Sides : book[s] = <<>>
  BY DEF Init
<1>4. DOMAIN Wire = {}
  <2>1. Len(settlements) = 0 /\ Len(out) = 0
    BY <1>3
  <2>2. DOMAIN Wire = 1..0
    BY <1>1, <2>1, WireHasEvents DEF WireFacts
  <2>3. QED
    BY <2>2
<1>5. Reported = {} /\ DOMAIN orders = {}
  BY <1>3 DEF Reported, ToSet
<1>6. \A s \in Sides : DOMAIN book[s] = {}
  BY <1>3
<1>7. Ledger
  BY <1>2, <1>3, <1>5 DEF Ledger, Recorded, OneTaker
<1>8. RecordsOnce /\ QueuesOnce
  BY <1>5, <1>6 DEF RecordsOnce, QueuesOnce
<1>9. Matched
  BY <1>4, <1>5 DEF Matched, Gives
<1>10. Sequence /\ Bounded
  BY <1>2, <1>4 DEF Sequence, Bounded
<1>11. InBook
  BY <1>2, <1>6 DEF InBook, Fresh, Resting, Complete
<1>12. QED
  BY <1>7, <1>8, <1>9, <1>10, <1>11 DEF HandoverInv, OnWire

\* When nothing happens everything stays.
LEMMA NothingHappens ==
  ASSUME RecoveryInv, RecoveryInv', HandoverInv, UNCHANGED vars
  PROVE  HandoverInv'
<1>1. /\ UNCHANGED <<rows, trades, outbox, book, settlements, out, term>>
      /\ UNCHANGED <<orders, committed, pos, handled, leader, clean, restored>>
  BY DEF vars, dbVars, logVars, engineVars, historyVars
<1>2. \A o : Waiting(o)' <=> Waiting(o)
  BY <1>1 DEF Waiting, NextPos, Idle, Placed
<1>3. committed' = pos' /\ Recorded' /\ (clean => RecordsOnce')
  BY <1>1, SameRecords DEF HandoverInv, Ledger
<1>4. QED
  BY <1>1, <1>2, <1>3, QuietStep

\* Every step keeps it.
LEMMA StepKeepsHandovers ==
  ASSUME RecoveryInv, RecoveryInv', HandoverInv, [Next]_vars
  PROVE  HandoverInv'
<1>1. CASE ServiceStep
  BY <1>1, PlaceOrderKeepsBook, CancelOrderKeepsBook, SendKeepsBook, UncleanKeepsLedger
     DEF ServiceStep
<1>2. CASE HandlerStep
  BY <1>2, HandlePlacedKeepsBook, HandleCancelKeepsBook, PublishKeepsBook, CommitOffsetKeepsBook,
     UncleanKeepsLedger DEF HandlerStep
<1>3. CASE LeaderStep
  BY <1>3, StepDownKeepsBook, UncleanKeepsLedger, DownKeepsWire, TakeOverKeepsBook DEF LeaderStep
<1>4. CASE SettlementStep
  BY <1>4, SettleKeepsBook, SettleCancelKeepsBook DEF SettlementStep
<1>5. CASE UNCHANGED vars
  BY <1>5, NothingHappens
<1>6. QED
  BY <1>1, <1>2, <1>3, <1>4, <1>5 DEF Next

-----------------------------------------------------------------------------
(* Clean handovers are safe *)

\* An order has one entry at most.
LEMMA OneCopy ==
  ASSUME RecoveryInv, HandoverInv, clean, NEW o
  PROVE  Cardinality(Copies(o)) <= 1
<1>1. PICK C : C = Copies(o)
  OBVIOUS
<1>2. \A x, y \in C : x = y
  <2> SUFFICES ASSUME NEW x \in C, NEW y \in C PROVE x = y
    OBVIOUS
  <2>1. \A z \in C : \E s \in Sides : \E k \in DOMAIN book[s] : book[s][k].id = o /\ z = <<s, k>>
    BY <1>1 DEF Copies
  <2>2. PICK s \in Sides : \E j \in DOMAIN book[s] : book[s][j].id = o /\ x = <<s, j>>
    BY <2>1
  <2>3. PICK t \in Sides : \E k \in DOMAIN book[t] : book[t][k].id = o /\ y = <<t, k>>
    BY <2>1
  <2>4. PICK j \in DOMAIN book[s] : book[s][j].id = o /\ x = <<s, j>>
    BY <2>2
  <2>5. PICK k \in DOMAIN book[t] : book[t][k].id = o /\ y = <<t, k>>
    BY <2>3
  <2>6. s = t /\ j = k
    BY <2>4, <2>5, DistinctEntries
  <2>7. QED
    BY <2>4, <2>5, <2>6
<1>3. CASE C = {}
  BY <1>1, <1>3, FS_EmptySet
<1>4. CASE C # {}
  <2>1. PICK x \in C : TRUE
    BY <1>4
  <2>2. C = {x}
    BY <1>2, <2>1
  <2>3. Cardinality(C) = 1
    BY <2>2, FS_Singleton
  <2>4. QED
    BY <1>1, <2>3
<1>5. QED
  BY <1>3, <1>4

\* At rest a queue of a restored book holds what would be restored.
LEMMA QuietQueue ==
  ASSUME RecoveryInv, HandoverInv, clean, Quiescent, restored, NEW s \in Sides
  PROVE  ToSet(book[s]) = {Restored(o) : o \in ActiveOf(s)}
<1>1. OnWire /\ InBook
  BY DEF HandoverInv, Quiescent
<1>2. DOMAIN Wire = {}
  <2>1. Len(settlements) = 0 /\ Len(out) = 0
    BY DEF Quiescent, Idle
  <2>2. DOMAIN Wire = 1..0
    BY <2>1, WireHasEvents DEF WireFacts
  <2>3. QED
    BY <2>2
<1>3. \A o : Owed(o) = 0 /\ ~Withdrawn(o) /\ ~Waiting(o)
  <2>1. \A o : Owed(o) = 0
    BY <1>2, NothingOwed
  <2>2. \A o : ~Withdrawn(o)
    BY <1>2 DEF Withdrawn
  <2>3. NextPos = pos /\ pos > Len(orders) /\ pos \in Nat /\ Len(orders) \in Nat
    BY DEF NextPos, Quiescent, RecoveryInv, LogOK
  <2>4. NextPos..Len(orders) = {}
    BY <2>3
  <2>5. \A o : Placed(o) \notin outbox
    BY DEF Quiescent, AllSent, Placed
  <2>6. QED
    BY <2>1, <2>2, <2>4, <2>5 DEF Waiting
<1>4. ASSUME NEW k \in DOMAIN book[s]
      PROVE  book[s][k].id \in ActiveOf(s) /\ book[s][k] = Restored(book[s][k].id)
  <2>1. PICK o, x : o = book[s][k].id /\ x = book[s][k].qty
    OBVIOUS
  <2>2. o \in DOMAIN rows /\ rows[o].req.side = s /\ x \in Int
    BY <2>1, BookHasRows
  <2>3. Active(o) /\ x + rows[o].filled + Owed(o) = rows[o].req.qty
    BY <1>1, <2>1 DEF InBook, Resting
  <2>4. rows[o].filled \in Int /\ rows[o].req.qty \in Int
    BY <2>2, RowFields DEF RecoveryInv
  <2>5. x = rows[o].req.qty - rows[o].filled
    BY <1>3, <2>2, <2>3, <2>4
  <2>6. book[s][k] = [id |-> o, qty |-> x]
    <3>1. PICK T : T = [id : Of(s), qty : Int \ {0}]
      OBVIOUS
    <3>2. book[s] \in Seq(T)
      BY <3>1 DEF RecoveryInv, BookOK
    <3>3. book[s][k] \in T
      BY <3>2
    <3>4. QED
      BY <2>1, <3>1, <3>3
  <2>7. QED
    BY <2>1, <2>2, <2>3, <2>5, <2>6 DEF Restored, ActiveOf
<1>5. ASSUME NEW o \in ActiveOf(s) PROVE \E k \in DOMAIN book[s] : book[s][k].id = o
  <2>1. o \in DOMAIN rows /\ Active(o) /\ rows[o].req.side = s
    BY DEF ActiveOf
  <2>2. rows[o].filled \in Int /\ rows[o].filled # rows[o].req.qty
    BY <2>1, RowFields DEF RecoveryInv, RowsOK
  <2>3. Rests(o)
    <3>1. Rests(o) \/ rows[o].filled + Owed(o) = rows[o].req.qty
      BY <1>1, <1>3, <2>1 DEF InBook, Complete
    <3>2. rows[o].filled + Owed(o) = rows[o].filled
      BY <1>3, <2>2
    <3>3. QED
      BY <2>2, <3>1, <3>2
  <2>4. PICK u \in Sides : \E k \in DOMAIN book[u] : book[u][k].id = o
    BY <2>3 DEF Rests
  <2>5. u = s
    BY <2>1, <2>4, BookHasRows
  <2>6. QED
    BY <2>4, <2>5
<1>6. QED
  BY <1>4, <1>5 DEF ToSet

\* So clean handovers are safe.
LEMMA HandoverSafe == RecoveryInv /\ HandoverInv => CleanHandoversSafe
<1> SUFFICES ASSUME RecoveryInv, HandoverInv, clean
             PROVE  /\ \A o \in DOMAIN rows : NotOverfilled(o) /\ Cardinality(Copies(o)) <= 1
                    /\ Quiescent /\ restored =>
                         \A s \in Sides : ToSet(book[s]) = {Restored(o) : o \in ActiveOf(s)}
  BY DEF CleanHandoversSafe
<1>1. OnWire
  BY DEF HandoverInv
<1>2. ASSUME NEW o \in DOMAIN rows PROVE NotOverfilled(o)
  <2>1. rows[o].filled + Owed(o) <= rows[o].req.qty
    BY <1>1 DEF OnWire, Bounded
  <2>2. Owed(o) \in Nat
    BY <1>1, OwedParts DEF OwedFacts, OnWire
  <2>3. rows[o].filled \in Int /\ rows[o].req.qty \in Nat
    BY RowFields DEF RecoveryInv
  <2>4. QED
    BY <2>1, <2>2, <2>3 DEF NotOverfilled
<1>3. ASSUME Quiescent, restored, NEW s \in Sides
      PROVE  ToSet(book[s]) = {Restored(o) : o \in ActiveOf(s)}
  BY <1>3, QuietQueue
<1>4. QED
  BY <1>2, <1>3, OneCopy

-----------------------------------------------------------------------------
(* The theorems of handovers *)

\* While every record is sent and handled once and every leader leaves none behind, what
\* the rows have filled, what settlements on their way owe and what rests in a book that
\* was restored make up each order, whatever the stamps of the orders, the order in which
\* their records are sent and the restores that fail (internal/matching/initializer.go:15-50,
\* cmd/matching-engine/main.go:127-129, internal/matching/event_subscribers.go:103-222,
\* internal/order/event_subscribers.go:235-376).
THEOREM HandoversInvariant == Spec => []HandoverInv
<1>1. Init => HandoverInv
  BY InitHandover
<1>2. RecoveryInv /\ RecoveryInv' /\ HandoverInv /\ [Next]_vars => HandoverInv'
  BY StepKeepsHandovers
<1>3. QED
  BY <1>1, <1>2, RecoveryInvariant, PTL DEF Spec

\* Such handovers are safe: no order is filled beyond its quantity or twice in the book,
\* and the book at rest of a leader that has restored one holds the open orders with what
\* they have left (internal/matching/initializer.go:15-50,
\* internal/order/event_subscribers.go:235-250).
THEOREM HandoversAreSafe == Spec => []CleanHandoversSafe
<1>1. RecoveryInv /\ HandoverInv => CleanHandoversSafe
  BY HandoverSafe
<1>2. QED
  BY <1>1, RecoveryInvariant, HandoversInvariant, PTL
=============================================================================
