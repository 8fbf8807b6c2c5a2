-------------------------- MODULE MetricAgentProofs --------------------------
(***************************************************************************)
(* Proofs about MetricAgent for every BatchSize, BufferSize, Poison set    *)
(* and bound.  TLC checks the same formulas on MCMetricAgent.              *)
(***************************************************************************)
EXTENDS MetricAgent, SequenceLemmas, SequenceTheorems, TLAPS

-----------------------------------------------------------------------------
(* Type correctness. *)

LEMMA FlushTypes ==
    ASSUME NEW b, NEW otherwise \in {"select", "returned"}, Flush(b, otherwise)
    PROVE  /\ pc' \in PCs /\ request' \in Requests
           /\ pc' \in {"sending", otherwise}
           /\ pc' = "sending" <=> request' # "none"
           /\ pc' = "sending" => b # <<>>
           /\ b # <<>> => pc' = "sending"
BY DEF Flush, PCs, Requests

LEMMA BoundedTypes ==
    ASSUME NEW b \in Seq(Nat), Len(b) <= BufferSize + 1
    PROVE  Bounded(b) \in Seq(Nat) /\ Len(Bounded(b)) <= BufferSize
<1>1. CASE Len(b) > BufferSize
  <2>1. b # <<>>  BY <1>1, BufferSizeAssumption, EmptySeq
  <2>2. Tail(b) \in Seq(Nat) /\ Len(Tail(b)) = Len(b) - 1  BY <2>1, HeadTailProperties
  <2>3. QED  BY <1>1, <2>2, BufferSizeAssumption, LenProperties DEF Bounded
<1>2. CASE ~(Len(b) > BufferSize)
  BY <1>2, BufferSizeAssumption, LenProperties DEF Bounded
<1>3. QED  BY <1>1, <1>2

LEMMA TypeInit == Init => TypeOK
<1> SUFFICES ASSUME Init  PROVE TypeOK
  OBVIOUS
<1>1. <<>> \in Seq(Nat) /\ Len(<<>>) <= BufferSize  BY BufferSizeAssumption, EmptySeq
<1>2. /\ events = <<>> /\ batch = <<>> /\ stored = <<>> /\ late = {}
      /\ accepted = 0 /\ faults = 0 /\ closedAt = 0 /\ overflowed = {}
  BY DEF Init
<1>3. /\ events \in Seq(Nat) /\ Len(events) <= BufferSize
      /\ batch \in Seq(Nat) /\ Len(batch) <= BufferSize
      /\ stored \in Seq(Nat)
  BY <1>1, <1>2
<1>4. pc = "new" /\ request = "none" /\ cause = "none"  BY DEF Init
<1>5. tick \in BOOLEAN /\ done \in BOOLEAN /\ cancelled \in BOOLEAN /\ failing \in BOOLEAN
  BY DEF Init
<1>6. QED  BY <1>2, <1>3, <1>4, <1>5 DEF TypeOK, PCs, Requests

\* Every step keeps the types and the two capacities.
LEMMA TypeStep == TypeOK /\ [Next]_vars => TypeOK'
<1> SUFFICES ASSUME TypeOK, [Next]_vars  PROVE TypeOK'
  OBVIOUS
<1> USE DEF TypeOK, agentVars, serviceVars, history
<1>1. CASE Emit
  <2>1. Append(events, accepted + 1) \in Seq(Nat) /\ Len(Append(events, accepted + 1)) = Len(events) + 1
    BY AppendProperties
  <2>2. Len(events) + 1 <= BufferSize  BY <1>1, BufferSizeAssumption, LenProperties DEF Emit
  <2>3. QED  BY <1>1, <2>1, <2>2 DEF Emit
<1>2. CASE Close  BY <1>2 DEF Close
<1>3. CASE CancelContext  BY <1>3 DEF CancelContext
<1>4. CASE Tick  BY <1>4 DEF Tick
<1>5. CASE StartRun  BY <1>5 DEF StartRun, PCs
<1>6. CASE TakeEvent
  <2> DEFINE longer == Append(batch, Head(events))
  <2>1. /\ Head(events) \in Nat /\ Tail(events) \in Seq(Nat)
        /\ Len(Tail(events)) = Len(events) - 1
    BY <1>6, HeadTailProperties DEF TakeEvent
  <2>2. longer \in Seq(Nat) /\ Len(longer) = Len(batch) + 1 /\ longer # <<>>
    <3>1. batch \in Seq(Nat)  OBVIOUS
    <3>2. QED  BY ONLY <2>1, <3>1, AppendProperties
  <2>3. Len(events) \in Nat /\ Len(batch) \in Nat  BY LenProperties
  <2>4. cause = "none" => Bounded(longer) \in Seq(Nat) /\ Len(Bounded(longer)) <= BufferSize
    <3> HAVE cause = "none"
    <3>1. Len(longer) <= BufferSize + 1  BY <2>2, <2>3, BufferSizeAssumption
    <3> HIDE DEF longer
    <3>2. QED  BY <2>2, <3>1, BoundedTypes
  <2>5. Bounded(longer) \in Seq(Nat)
    <3> HIDE DEF longer
    <3>1. Tail(longer) \in Seq(Nat)  BY <2>2, HeadTailProperties
    <3>2. QED  BY <2>2, <3>1 DEF Bounded
  <2>6. Range(longer) \subseteq Nat
    <3> HIDE DEF longer
    <3>1. QED  BY <2>2, RangeOfSeq
  <2>7. /\ batch' = Bounded(longer)
        /\ events' = Tail(events)
        /\ overflowed' = overflowed \union (Range(longer) \ Range(Bounded(longer)))
        /\ IF Len(Bounded(longer)) >= BatchSize
           THEN Flush(Bounded(longer), "select") ELSE UNCHANGED <<pc, request>>
        /\ pc = "select"
        /\ UNCHANGED <<tick, done, cancelled, cause, stored, late, faults, accepted, closedAt, failing>>
    BY <1>6 DEF TakeEvent
  <2> HIDE DEF longer
  <2>8. /\ pc' \in PCs /\ request' \in Requests
        /\ pc' \in {"select", "sending"}
        /\ pc' = "sending" <=> request' # "none"
        /\ pc' = "sending" => Bounded(longer) # <<>>
    BY <2>7, FlushTypes
  <2>9. Len(Tail(events)) <= BufferSize  BY <2>1, <2>3, BufferSizeAssumption
  <2>10. QED  BY <2>1, <2>4, <2>5, <2>6, <2>7, <2>8, <2>9
<1>7. CASE TakeTick  BY <1>7, FlushTypes DEF TakeTick
<1>8. CASE TakeDone  BY <1>8 DEF TakeDone, PCs, Leave
<1>9. CASE TakeCtxDone  BY <1>9 DEF TakeCtxDone, PCs, Leave
<1>10. CASE DrainEvent
  <2>1. /\ Head(events) \in Nat /\ Tail(events) \in Seq(Nat)
        /\ Len(Tail(events)) = Len(events) - 1
    BY <1>10, HeadTailProperties DEF DrainEvent, DrainInto
  <2>2. Append(batch, Head(events)) \in Seq(Nat)  BY <2>1, AppendProperties
  <2>3. Len(Tail(events)) <= BufferSize  BY <2>1, BufferSizeAssumption, LenProperties
  <2>4. QED  BY <1>10, <2>1, <2>2, <2>3 DEF DrainEvent, DrainInto
<1>11. CASE DrainEnd  BY <1>11, FlushTypes DEF DrainEnd, FlushDrained
<1>12. CASE SendSucceeds
  <2>1. Len(<<>>) <= BufferSize /\ <<>> \in Seq(Nat)  BY BufferSizeAssumption, EmptySeq
  <2>2. QED  BY <1>12, <2>1 DEF SendSucceeds, SendReturns, PCs, Requests, Resume, AfterFlush
<1>13. CASE SendFails  BY <1>13 DEF SendFails, SendReturns, PCs, Requests, Resume, AfterFlush
<1>14. CASE ServiceStores
  <2>1. stored \o batch \in Seq(Nat)  BY ConcatProperties
  <2>2. QED  BY <1>14, <2>1 DEF ServiceStores, Requests
<1>15. CASE ServiceRefuses  BY <1>15 DEF ServiceRefuses, Requests
<1>16. CASE ServiceStoresSome
  <2>1. PICK n \in 1 .. Len(batch) - 1 : stored' = stored \o SubSeq(batch, 1, n)
    BY <1>16 DEF ServiceStoresSome
  <2>2. \A i \in 1 .. n : batch[i] \in Nat  BY <2>1, ElementOfSeq, LenProperties
  <2>3. SubSeq(batch, 1, n) \in Seq(Nat)  BY <2>1, <2>2, SubSeqProperties
  <2>4. stored' \in Seq(Nat)  BY <2>1, <2>3, ConcatProperties
  <2>5. QED  BY <1>16, <2>4 DEF ServiceStoresSome, Requests
<1>17. CASE ReplyLost  BY <1>17 DEF ReplyLost, SendReturns, PCs, Requests, Resume, AfterFlush
<1>18. CASE Abandon  BY <1>18 DEF Abandon, SendReturns, PCs, Requests, Resume, AfterFlush
<1>19. CASE LateStore
  <2>1. PICK r \in late : late' = late \ {r} /\ stored' = stored \o r.events
    BY <1>19 DEF LateStore
  <2>2. stored' \in Seq(Nat)  BY <2>1, ConcatProperties
  <2>3. QED  BY <1>19, <2>1, <2>2 DEF LateStore
<1>20. CASE UNCHANGED vars  BY <1>20 DEF vars
<1>21. QED
  BY <1>1, <1>2, <1>3, <1>4, <1>5, <1>6, <1>7, <1>8, <1>9, <1>10, <1>11, <1>12, <1>13, <1>14,
     <1>15, <1>16, <1>17, <1>18, <1>19, <1>20 DEF Next, RunStep

\* Run's state, the channel and the batch keep their types, the channel never
\* exceeds BufferSize, and outside a shutdown neither does the batch.
THEOREM TypeCorrect == Spec => []TypeOK
<1>1. QED  BY TypeInit, TypeStep, PTL DEF Spec

-----------------------------------------------------------------------------
(***************************************************************************)
(* The inductive invariant.  Besides the properties of MetricAgent it says *)
(* that a batch whose success is about to be noticed is in the store       *)
(* (ISent), that the service only ever sees accepted events (IStored),     *)
(* that an abandoned request is still a run of the oldest held events      *)
(* (ILate, ILateRun), and that a batch reaches its flush size only by a    *)
(* failed send (IFailing).  IOnce adds to ExactlyOnceWithoutFaults that    *)
(* without a fault the store holds nothing the agent still has to send.    *)
(***************************************************************************)
IOrder   == Settled \in Nat /\ PendingInOrder
ISent    == request = "stored" => Range(batch) \subseteq Stored
IStored  == /\ Stored \subseteq 1 .. accepted
            /\ \A r \in late : Range(r.events) \subseteq 1 .. accepted
ILate    == \A r \in late : \A e \in Range(r.events) :
                Settled + 1 .. e \subseteq Range(r.events)
ILateRun == \A r \in late : \E b \in 0 .. Settled : CountsFrom(b, r.events)
NoRepeat == \A i, j \in DOMAIN stored : i # j => stored[i] # stored[j]
Sent     == IF request = "stored" THEN Settled + Len(batch) ELSE Settled
IOnce    == faults = 0 => late = {} /\ NoRepeat /\ \A i \in Stored : i <= Sent
IClose   == closedAt <= accepted /\ CloseDrains
IFailing == BatchSize <= BufferSize /\ pc \in {"new", "select"} /\ ~failing
                => Len(batch) < BatchSize

IInv ==
    /\ TypeOK /\ IOrder
    /\ ISent /\ IStored /\ NothingVanishes
    /\ IClose
    /\ OverflowDropsOldest
    /\ ILate /\ PoisonBlocksLater
    /\ ILateRun /\ FirstStoredInOrder
    /\ IOnce
    /\ IFailing

-----------------------------------------------------------------------------
(* What the steps do to the held events, and to the store. *)

\* Only an Emit, a receive and a successful send touch the held events.
LEMMA WhoTouchesPending ==
    [Next]_vars => Emit \/ TakeEvent \/ DrainEvent \/ SendSucceeds
                        \/ UNCHANGED <<events, batch, accepted, overflowed>>
BY DEF Next, RunStep, vars, agentVars, serviceVars, history, Close, CancelContext, Tick, StartRun,
       TakeTick, TakeDone, TakeCtxDone, DrainEnd, SendFails, SendReturns, ServiceStores,
       ServiceRefuses, ServiceStoresSome, ReplyLost, Abandon, LateStore,
       Leave, FlushDrained, Resume, AfterFlush

\* Only the service's own steps touch the store, only giving a request up and
\* working on it later touch the abandoned requests.
LEMMA WhoTouchesStore ==
    [Next]_vars => \/ ServiceStores \/ ServiceStoresSome \/ LateStore \/ Abandon
                   \/ UNCHANGED <<stored, late>>
BY DEF Next, RunStep, vars, agentVars, serviceVars, history, Close, CancelContext, Tick, StartRun,
       TakeTick, TakeDone, TakeCtxDone, DrainEnd, SendFails, SendReturns, Emit, TakeEvent,
       DrainEvent, SendSucceeds, ServiceRefuses, ReplyLost,
       Leave, FlushDrained, Resume, AfterFlush, DrainInto

\* The three length facts that arithmetic about Settled needs.
LEMMA Lengths ==
    ASSUME TypeOK
    PROVE  Len(batch) \in Nat /\ Len(events) \in Nat /\ accepted \in Nat
BY LenProperties DEF TypeOK

\* The held events are the numbers from Settled + 1 to accepted.
LEMMA PendingRange ==
    ASSUME TypeOK, IOrder
    PROVE  /\ Range(batch) = Settled + 1 .. Settled + Len(batch)
           /\ Settled + Len(batch) + Len(events) = accepted
           /\ Settled \in Nat /\ Len(batch) \in Nat /\ Len(events) \in Nat /\ accepted \in Nat
<1>1. batch \in Seq(Nat) /\ Settled \in Nat /\ CountsFrom(Settled, batch)
  BY DEF TypeOK, IOrder, PendingInOrder
<1>2. Range(batch) = Settled + 1 .. Settled + Len(batch)  BY <1>1, CountsRange
<1>3. QED  BY <1>1, <1>2, Lengths DEF Settled

\* A receive in the select loop moves the channel's head to the end of the
\* batch, and displaces exactly the oldest held event when the batch was full.
LEMMA TakeEventEffect ==
    ASSUME TypeOK, IOrder, TakeEvent
    PROVE  /\ CountsFrom(Settled', batch') /\ CountsFrom(Settled' + Len(batch'), events')
           /\ accepted' = accepted /\ Len(events') = Len(events) - 1
           /\ \/ /\ Settled' = Settled
                 /\ overflowed' = overflowed
              \/ /\ Settled' = Settled + 1
                 /\ overflowed' = overflowed \union {Settled + 1}
                 /\ Len(batch) >= BufferSize
                 /\ Settled + 1 + BufferSize <= accepted
<1> DEFINE longer == Append(batch, Head(events))
<1>1. /\ events \in Seq(Nat) /\ batch \in Seq(Nat) /\ events # <<>>
      /\ Settled \in Nat /\ Settled + Len(batch) \in Nat
      /\ CountsFrom(Settled, batch) /\ CountsFrom(Settled + Len(batch), events)
  BY Lengths DEF TypeOK, TakeEvent, IOrder, PendingInOrder
<1>2. /\ Head(events) = Settled + Len(batch) + 1
      /\ CountsFrom(Settled + Len(batch) + 1, Tail(events))
      /\ Tail(events) \in Seq(Nat) /\ Len(Tail(events)) = Len(events) - 1
  BY ONLY <1>1, CountsTail
<1>3. CountsFrom(Settled, longer) /\ longer \in Seq(Nat) /\ Len(longer) = Len(batch) + 1
  <2>1. Head(events) = Settled + Len(batch) + 1  BY <1>2
  <2>2. QED  BY ONLY <1>1, <2>1, CountsAppend
<1>4. /\ batch' = Bounded(longer)
      /\ events' = Tail(events)
      /\ overflowed' = overflowed \union (Range(longer) \ Range(Bounded(longer)))
      /\ accepted' = accepted
  BY DEF TakeEvent
<1> HIDE DEF longer
<1>5. Settled' = accepted - Len(Bounded(longer)) - (Len(events) - 1)
  BY <1>2, <1>4 DEF Settled
<1>6. Settled = accepted - Len(batch) - Len(events)  BY DEF Settled
<1>7. CASE Len(longer) > BufferSize
  <2>1. longer # <<>>  BY <1>3, Lengths, EmptySeq
  <2>2. /\ CountsFrom(Settled + 1, Tail(longer)) /\ Len(Tail(longer)) = Len(longer) - 1
        /\ Tail(longer) \in Seq(Nat)
    BY ONLY <1>1, <1>3, <2>1, CountsTail
  <2>3. Bounded(longer) = Tail(longer)  BY <1>7 DEF Bounded
  <2>4. Settled' = Settled + 1 /\ Len(batch') = Len(batch)
    BY <1>3, <1>4, <1>5, <1>6, <2>2, <2>3, Lengths
  <2>5. /\ Range(longer) = Settled + 1 .. Settled + Len(longer)
        /\ Range(Tail(longer)) = Settled + 2 .. Settled + Len(longer)
    <3>1. Range(longer) = Settled + 1 .. Settled + Len(longer)
      BY ONLY <1>1, <1>3, CountsRange
    <3>2. Range(Tail(longer)) = Settled + 1 + 1 .. Settled + 1 + Len(Tail(longer))
      <4>1. Settled + 1 \in Nat  BY <1>1
      <4>2. QED  BY ONLY <2>2, <4>1, CountsRange
    <3>3. Range(Tail(longer)) = Settled + 1 + 1 .. Settled + 1 + (Len(longer) - 1)
      BY <2>2, <3>2, Zenon
    <3>4. \A n, k \in Nat : n + 1 + 1 .. n + 1 + (k - 1) = n + 2 .. n + k
      OBVIOUS
    <3>5. Len(longer) \in Nat  BY <1>3, Lengths
    <3>6. QED  BY <1>1, <3>1, <3>3, <3>4, <3>5, Zenon
  <2>6. Range(longer) \ Range(Bounded(longer)) = {Settled + 1}
    BY <1>1, <1>3, <2>3, <2>5, Lengths
  <2>7. Len(batch) >= BufferSize  BY <1>3, <1>7, BufferSizeAssumption, Lengths
  <2>8. Len(events) >= 1  BY <1>1, EmptySeq
  <2>9. Settled + 1 + BufferSize <= accepted
    <3>1. Len(batch) \in Nat /\ Len(events) \in Nat /\ accepted \in Nat  BY Lengths
    <3>2. QED  BY ONLY <1>6, <2>7, <2>8, <3>1, BufferSizeAssumption
  <2>10. CountsFrom(Settled', batch') /\ CountsFrom(Settled' + Len(batch'), events')
    <3>1. Settled + Len(batch) + 1 = Settled' + Len(batch')  BY <1>1, <2>4, Lengths
    <3>2. QED  BY <1>2, <1>4, <2>2, <2>3, <2>4, <3>1
  <2>11. QED  BY <1>2, <1>4, <2>4, <2>6, <2>7, <2>9, <2>10
<1>8. CASE ~(Len(longer) > BufferSize)
  <2>1. Bounded(longer) = longer  BY <1>8 DEF Bounded
  <2>2. Settled' = Settled /\ Len(batch') = Len(batch) + 1
    BY <1>3, <1>4, <1>5, <1>6, <2>1, Lengths
  <2>3. CountsFrom(Settled', batch') /\ CountsFrom(Settled' + Len(batch'), events')
    <3>1. Settled + Len(batch) + 1 = Settled' + Len(batch')  BY <1>1, <2>2, Lengths
    <3>2. QED  BY <1>2, <1>3, <1>4, <2>1, <2>2, <3>1
  <2>4. QED  BY <1>2, <1>4, <2>1, <2>2, <2>3
<1>9. QED  BY <1>7, <1>8

\* A receive while draining moves the channel's head to the end of the batch.
LEMMA DrainEventEffect ==
    ASSUME TypeOK, IOrder, DrainEvent
    PROVE  /\ CountsFrom(Settled', batch') /\ CountsFrom(Settled' + Len(batch'), events')
           /\ Settled' = Settled /\ accepted' = accepted /\ overflowed' = overflowed
<1>1. /\ events \in Seq(Nat) /\ batch \in Seq(Nat) /\ events # <<>>
      /\ Settled \in Nat /\ Settled + Len(batch) \in Nat
      /\ CountsFrom(Settled, batch) /\ CountsFrom(Settled + Len(batch), events)
  BY Lengths DEF TypeOK, DrainEvent, IOrder, PendingInOrder, DrainInto
<1>2. /\ Head(events) = Settled + Len(batch) + 1
      /\ CountsFrom(Settled + Len(batch) + 1, Tail(events))
      /\ Len(Tail(events)) = Len(events) - 1
  BY ONLY <1>1, CountsTail
<1>3. /\ CountsFrom(Settled, Append(batch, Head(events)))
      /\ Len(Append(batch, Head(events))) = Len(batch) + 1
  <2>1. Head(events) = Settled + Len(batch) + 1  BY <1>2
  <2>2. QED  BY ONLY <1>1, <2>1, CountsAppend
<1>4. /\ batch' = Append(batch, Head(events)) /\ events' = Tail(events)
      /\ accepted' = accepted /\ overflowed' = overflowed
  BY DEF DrainEvent, history, DrainInto
<1>5. Settled' = Settled /\ Settled' + Len(batch') = Settled + Len(batch) + 1
  <2>1. Settled' = accepted - (Len(batch) + 1) - (Len(events) - 1)
    BY <1>2, <1>3, <1>4 DEF Settled
  <2>2. Len(batch') = Len(batch) + 1  BY <1>3, <1>4
  <2>3. Settled = accepted - Len(batch) - Len(events)  BY DEF Settled
  <2>4. QED  BY <2>1, <2>2, <2>3, Lengths
<1>6. QED  BY <1>2, <1>3, <1>4, <1>5

\* A successful send settles exactly the batch.
LEMMA SendSucceedsEffect ==
    ASSUME TypeOK, IOrder, SendSucceeds
    PROVE  /\ CountsFrom(Settled', batch') /\ CountsFrom(Settled' + Len(batch'), events')
           /\ Settled' = Settled + Len(batch) /\ accepted' = accepted
           /\ overflowed' = overflowed /\ batch' = <<>>
<1>1. /\ batch' = <<>> /\ events' = events /\ accepted' = accepted /\ overflowed' = overflowed
  BY DEF SendSucceeds, SendReturns, Resume, AfterFlush
<1>2. Len(batch') = 0 /\ CountsFrom(Settled', batch')  BY <1>1 DEF CountsFrom
<1>3. Settled = accepted - Len(batch) - Len(events) /\ Settled' = accepted - Len(batch') - Len(events)
  BY <1>1 DEF Settled
<1>4. Settled' = Settled + Len(batch)  BY <1>2, <1>3, Lengths
<1>5. CountsFrom(Settled' + Len(batch'), events')
  <2>1. CountsFrom(Settled + Len(batch), events)  BY DEF IOrder, PendingInOrder
  <2>2. Settled' + Len(batch') = Settled + Len(batch)  BY <1>2, <1>4, Lengths DEF IOrder
  <2>3. QED  BY <1>1, <2>1, <2>2
<1>6. QED  BY <1>1, <1>2, <1>4, <1>5

\* An Emit puts the next number at the end of the channel.
LEMMA EmitEffect ==
    ASSUME TypeOK, IOrder, Emit
    PROVE  /\ CountsFrom(Settled', batch') /\ CountsFrom(Settled' + Len(batch'), events')
           /\ Settled' = Settled /\ accepted' = accepted + 1
           /\ overflowed' = overflowed /\ Len(events') = Len(events) + 1
<1>1. /\ batch' = batch /\ events' = Append(events, accepted + 1)
      /\ accepted' = accepted + 1 /\ overflowed' = overflowed
  BY DEF Emit
<1>2. accepted + 1 = (Settled + Len(batch)) + Len(events) + 1
  BY Lengths DEF Settled
<1>3. /\ Settled + Len(batch) \in Nat /\ events \in Seq(Nat)
      /\ CountsFrom(Settled + Len(batch), events) /\ CountsFrom(Settled, batch)
  BY Lengths DEF TypeOK, IOrder, PendingInOrder
<1>4. /\ CountsFrom(Settled + Len(batch), Append(events, accepted + 1))
      /\ Len(Append(events, accepted + 1)) = Len(events) + 1
  BY ONLY <1>2, <1>3, CountsAppend
<1>5. Settled' = Settled
  <2>1. Settled' = (accepted + 1) - Len(batch) - (Len(events) + 1)  BY <1>1, <1>4 DEF Settled
  <2>2. QED  BY <2>1, Lengths DEF Settled
<1>6. QED  BY <1>1, <1>3, <1>4, <1>5

\* The store only grows.
LEMMA StoreGrows ==
    ASSUME TypeOK, [Next]_vars
    PROVE  Stored \subseteq Stored'
<1>1. ASSUME NEW s \in Seq(Nat), stored' = stored \o s
      PROVE  Stored \subseteq Stored'
  <2>1. Range(stored \o s) = Range(stored) \union Range(s)
    BY RangeConcatenation DEF TypeOK
  <2>2. QED  BY <1>1, <2>1 DEF Stored
<1>2. CASE ServiceStores  BY <1>1, <1>2 DEF ServiceStores, TypeOK
<1>3. CASE ServiceStoresSome
  <2>1. PICK n \in 1 .. Len(batch) - 1 : stored' = stored \o SubSeq(batch, 1, n)
    BY <1>3 DEF ServiceStoresSome
  <2>2. \A i \in 1 .. n : batch[i] \in Nat  BY <2>1, ElementOfSeq, LenProperties DEF TypeOK
  <2>3. SubSeq(batch, 1, n) \in Seq(Nat)  BY <2>1, <2>2, SubSeqProperties
  <2>4. QED  BY <1>1, <2>1, <2>3
<1>4. CASE LateStore  BY <1>1, <1>4 DEF LateStore, TypeOK
<1>5. CASE UNCHANGED stored  BY <1>5 DEF Stored
<1>6. QED  BY <1>2, <1>3, <1>4, <1>5, WhoTouchesStore DEF Abandon, SendReturns, Resume, AfterFlush

-----------------------------------------------------------------------------
(* Each part of IInv is kept by every step. *)

LEMMA OrderStep ==
    ASSUME TypeOK, IOrder, [Next]_vars
    PROVE  IOrder' /\ Settled <= Settled' /\ accepted <= accepted'
<1>1. Settled \in Nat /\ accepted \in Nat /\ Len(batch) \in Nat  BY Lengths DEF IOrder
<1>2. CASE Emit
  BY <1>1, <1>2, EmitEffect DEF IOrder, PendingInOrder
<1>3. CASE TakeEvent
  <2>1. Settled' = Settled \/ Settled' = Settled + 1  BY <1>3, TakeEventEffect
  <2>2. QED  BY <1>1, <1>3, <2>1, TakeEventEffect DEF IOrder, PendingInOrder
<1>4. CASE DrainEvent
  BY <1>1, <1>4, DrainEventEffect DEF IOrder, PendingInOrder
<1>5. CASE SendSucceeds
  BY <1>1, <1>5, SendSucceedsEffect DEF IOrder, PendingInOrder
<1>6. CASE UNCHANGED <<events, batch, accepted, overflowed>>
  BY <1>1, <1>6 DEF IOrder, PendingInOrder, Settled
<1>7. QED  BY <1>2, <1>3, <1>4, <1>5, <1>6, WhoTouchesPending

LEMMA SentStep ==
    ASSUME TypeOK, IOrder, ISent, [Next]_vars
    PROVE  ISent'
<1>1. CASE ServiceStores
  <2>1. Range(stored \o batch) = Range(stored) \union Range(batch)
    BY RangeConcatenation DEF TypeOK
  <2>2. QED  BY <1>1, <2>1 DEF ServiceStores, ISent, Stored
<1>2. CASE ~ServiceStores
  <2>1. request' = "stored" => request = "stored" /\ batch' = batch
    BY <1>2 DEF Next, RunStep, vars, agentVars, serviceVars, history, Emit, Close, CancelContext,
       Tick, StartRun, TakeEvent, TakeTick, TakeDone, TakeCtxDone, DrainEvent, DrainEnd, Flush,
       SendSucceeds, SendFails, SendReturns, ServiceRefuses, ServiceStoresSome, ReplyLost,
       Abandon, LateStore, TypeOK, Leave, DrainInto, FlushDrained, Resume, AfterFlush
  <2>2. QED  BY <2>1, StoreGrows DEF ISent
<1>3. QED  BY <1>1, <1>2

\* What an event is settled for does not change, and every newly settled one
\* is in the store or has just been displaced.
LEMMA NothingVanishesStep ==
    ASSUME TypeOK, IOrder, ISent, NothingVanishes, [Next]_vars
    PROVE  NothingVanishes'
<1>1. Settled \in Nat /\ Len(batch) \in Nat /\ Stored \subseteq Stored'
  BY Lengths, StoreGrows DEF IOrder
<1>2. CASE Emit  BY <1>1, <1>2, EmitEffect DEF NothingVanishes
<1>3. CASE TakeEvent  BY <1>1, <1>3, TakeEventEffect DEF NothingVanishes
<1>4. CASE DrainEvent  BY <1>1, <1>4, DrainEventEffect DEF NothingVanishes
<1>5. CASE SendSucceeds
  <2>1. Settled + 1 .. Settled + Len(batch) \subseteq Stored
    BY <1>5, PendingRange DEF SendSucceeds, ISent
  <2>2. QED  BY <1>1, <1>5, <2>1, SendSucceedsEffect DEF NothingVanishes
<1>6. CASE UNCHANGED <<events, batch, accepted, overflowed>>
  BY <1>1, <1>6 DEF NothingVanishes, Settled
<1>7. QED  BY <1>2, <1>3, <1>4, <1>5, <1>6, WhoTouchesPending

LEMMA StoredStep ==
    ASSUME TypeOK, IOrder, IStored, [Next]_vars
    PROVE  IStored'
<1>1. accepted \in Nat /\ accepted' \in Nat /\ accepted <= accepted'
  <2>1. TypeOK'  BY TypeStep
  <2>2. QED  BY <2>1, OrderStep DEF TypeOK
<1>2. Range(batch) \subseteq 1 .. accepted  BY PendingRange
<1>3. ASSUME NEW s \in Seq(Nat), Range(s) \subseteq 1 .. accepted, stored' = stored \o s
      PROVE  Stored' \subseteq 1 .. accepted'
  <2>1. Range(stored \o s) = Range(stored) \union Range(s)
    BY RangeConcatenation DEF TypeOK
  <2>2. QED  BY <1>1, <1>3, <2>1 DEF Stored, IStored
<1>4. CASE ServiceStores
  <2>1. Stored' \subseteq 1 .. accepted'  BY <1>2, <1>3, <1>4 DEF ServiceStores, TypeOK
  <2>2. late' = late  BY <1>4 DEF ServiceStores
  <2>3. QED  BY <1>1, <2>1, <2>2 DEF IStored
<1>5. CASE ServiceStoresSome
  <2>1. PICK n \in 1 .. Len(batch) - 1 : stored' = stored \o SubSeq(batch, 1, n)
    BY <1>5 DEF ServiceStoresSome
  <2>2. \A i \in 1 .. n : batch[i] \in Nat  BY <2>1, ElementOfSeq, LenProperties DEF TypeOK
  <2>3. /\ SubSeq(batch, 1, n) \in Seq(Nat)
        /\ Len(SubSeq(batch, 1, n)) = n
        /\ \A i \in 1 .. n : SubSeq(batch, 1, n)[i] = batch[i]
    BY <2>1, <2>2, SubSeqProperties
  <2>4. Range(SubSeq(batch, 1, n)) \subseteq Range(batch)
    <3>1. DOMAIN SubSeq(batch, 1, n) = 1 .. n /\ DOMAIN batch = 1 .. Len(batch)
      BY <2>3, LenProperties DEF TypeOK
    <3>2. 1 .. n \subseteq DOMAIN batch  BY <2>1, <3>1, Lengths
    <3>3. QED  BY <2>3, <3>1, <3>2 DEF Range
  <2>5. Stored' \subseteq 1 .. accepted'  BY <1>2, <1>3, <2>1, <2>3, <2>4
  <2>6. late' = late  BY <1>5 DEF ServiceStoresSome
  <2>7. \A r \in late' : Range(r.events) \subseteq 1 .. accepted'  BY <1>1, <2>6 DEF IStored
  <2>8. QED  BY <2>5, <2>7 DEF IStored
<1>6. CASE LateStore
  <2>1. PICK r \in late : late' = late \ {r} /\ stored' = stored \o r.events
    BY <1>6 DEF LateStore
  <2>2. r.events \in Seq(Nat) /\ Range(r.events) \subseteq 1 .. accepted
    BY <2>1 DEF TypeOK, IStored
  <2>3. Stored' \subseteq 1 .. accepted'  BY <1>3, <2>1, <2>2
  <2>4. ASSUME NEW q \in late'  PROVE Range(q.events) \subseteq 1 .. accepted'
    <3>1. q \in late  BY <2>1
    <3>2. Range(q.events) \subseteq 1 .. accepted  BY <3>1 DEF IStored
    <3>3. QED  BY <1>1, <3>2
  <2>5. QED  BY <2>3, <2>4 DEF IStored
<1>7. CASE Abandon
  <2>1. late' = late \union {[id |-> faults, events |-> batch]} /\ stored' = stored
    BY <1>7 DEF Abandon, SendReturns, Resume, AfterFlush
  <2>2. Stored' \subseteq 1 .. accepted'  BY <1>1, <2>1 DEF Stored, IStored
  <2>3. ASSUME NEW r \in late'  PROVE Range(r.events) \subseteq 1 .. accepted'
    <3>1. CASE r \in late  BY <1>1, <3>1 DEF IStored
    <3>2. CASE r = [id |-> faults, events |-> batch]
      <4>1. r.events = batch  BY <3>2
      <4>2. QED  BY <1>1, <1>2, <4>1
    <3>3. QED  BY <2>1, <3>1, <3>2
  <2>4. QED  BY <2>2, <2>3 DEF IStored
<1>8. CASE UNCHANGED <<stored, late>>  BY <1>1, <1>8 DEF IStored, Stored
<1>9. QED  BY <1>4, <1>5, <1>6, <1>7, <1>8, WhoTouchesStore

\* Draining stops only at an empty channel, and later Emits come after it.
LEMMA CloseStep ==
    ASSUME TypeOK, IOrder, IClose, [Next]_vars
    PROVE  IClose'
<1>1. /\ accepted \in Nat /\ closedAt \in Nat /\ Len(events) \in Nat /\ Len(batch) \in Nat
      /\ closedAt <= accepted
  BY Lengths DEF TypeOK, IClose
<1>2. accepted <= accepted' /\ accepted' \in Nat
  BY TypeStep, OrderStep DEF TypeOK
<1>3. IClose' <=> closedAt' <= accepted' /\ CloseDrains'  BY DEF IClose
<1>4. CASE Close
  <2>1. /\ closedAt' = accepted /\ accepted' = accepted /\ cause' = cause /\ ~done
    BY <1>4 DEF Close
  <2>2. cause' # "done"  BY <2>1 DEF TypeOK
  <2>3. QED  BY <1>1, <1>3, <2>1, <2>2 DEF CloseDrains
<1>5. CASE Emit
  <2>1. /\ closedAt' = closedAt /\ pc' = pc /\ cause' = cause
        /\ accepted' - Len(events') = accepted - Len(events)
    BY <1>1, <1>5, EmitEffect DEF Emit
  <2>2. CloseDrains'  BY <2>1 DEF IClose, CloseDrains
  <2>3. QED  BY <1>1, <1>2, <1>3, <2>1, <2>2
<1>6. CASE DrainEnd
  <2>1. events' = <<>> /\ Len(events') = 0 /\ closedAt' = closedAt /\ accepted' = accepted
    BY <1>6 DEF DrainEnd, history, FlushDrained
  <2>2. QED  BY <1>1, <1>3, <2>1 DEF CloseDrains
<1>7. CASE TakeEvent \/ TakeTick \/ TakeDone \/ TakeCtxDone \/ DrainEvent \/ StartRun
  <2>1. closedAt' = closedAt /\ accepted' = accepted
    BY <1>7 DEF TakeEvent, TakeTick, TakeDone, TakeCtxDone, DrainEvent, StartRun, history,
       Leave, DrainInto
  <2>2. cause' # "done" \/ pc' \notin {"sending", "returned"}
    BY <1>7 DEF TakeEvent, TakeTick, TakeDone, TakeCtxDone, DrainEvent, StartRun, TypeOK,
       Leave, DrainInto
  <2>3. QED  BY <1>1, <1>3, <2>1, <2>2 DEF CloseDrains
<1>8. CASE SendSucceeds \/ SendFails \/ ReplyLost \/ Abandon
  <2>1. closedAt' = closedAt /\ accepted' = accepted /\ cause' = cause /\ events' = events
    BY <1>8 DEF SendSucceeds, SendFails, ReplyLost, Abandon, SendReturns, Resume, AfterFlush
  <2>2. pc = "sending"
    BY <1>8 DEF SendSucceeds, SendFails, ReplyLost, Abandon, TypeOK
  <2>3. QED  BY <1>1, <1>3, <2>1, <2>2 DEF IClose, CloseDrains
<1>9. CASE UNCHANGED <<events, pc, cause, accepted, closedAt>>
  BY <1>1, <1>9 DEF IClose, CloseDrains
<1>10. QED
  <2>1. CancelContext \/ Tick \/ ServiceStores \/ ServiceRefuses \/ ServiceStoresSome \/ LateStore
          \/ UNCHANGED vars => UNCHANGED <<events, pc, cause, accepted, closedAt>>
    BY DEF CancelContext, Tick, ServiceStores, ServiceRefuses, ServiceStoresSome, LateStore,
       vars, agentVars, serviceVars, history
  <2>2. QED  BY <1>4, <1>5, <1>6, <1>7, <1>8, <1>9, <2>1 DEF Next, RunStep

\* An event is displaced when it is the oldest held one and BufferSize newer
\* ones are held.
LEMMA OverflowStep ==
    ASSUME TypeOK, IOrder, OverflowDropsOldest, [Next]_vars
    PROVE  OverflowDropsOldest'
<1>1. /\ Settled \in Nat /\ Settled' \in Nat /\ Settled <= Settled'
      /\ accepted \in Nat /\ accepted' \in Nat /\ accepted <= accepted'
      /\ BufferSize \in Nat /\ overflowed \subseteq Nat
  BY TypeStep, OrderStep, BufferSizeAssumption DEF TypeOK, IOrder
<1>2. \A i \in overflowed : i <= Settled' /\ i + BufferSize <= accepted'
  BY <1>1 DEF OverflowDropsOldest
<1>3. CASE overflowed' = overflowed  BY <1>2, <1>3 DEF OverflowDropsOldest
<1>4. CASE TakeEvent /\ overflowed' # overflowed
  <2>1. /\ Settled' = Settled + 1 /\ overflowed' = overflowed \union {Settled + 1}
        /\ Settled + 1 + BufferSize <= accepted /\ accepted' = accepted
    BY <1>4, TakeEventEffect
  <2>2. Settled + 1 <= Settled' /\ Settled + 1 + BufferSize <= accepted'  BY <1>1, <2>1
  <2>3. QED  BY <1>2, <2>1, <2>2 DEF OverflowDropsOldest
<1>5. QED
  BY <1>3, <1>4, WhoTouchesPending, EmitEffect, DrainEventEffect, SendSucceedsEffect

\* An abandoned request holds a run of the events that were held at the time,
\* oldest first; settling only shortens what is asked of it.
LEMMA LateStep ==
    ASSUME TypeOK, IOrder, ILate, [Next]_vars
    PROVE  ILate'
<1>1. Settled \in Nat /\ Settled' \in Nat /\ Settled <= Settled'  BY OrderStep DEF IOrder
<1>2. ASSUME NEW r \in late, NEW e \in Range(r.events)
      PROVE  Settled' + 1 .. e \subseteq Range(r.events)
  <2>1. Settled + 1 .. e \subseteq Range(r.events)  BY DEF ILate
  <2>2. QED  BY <1>1, <2>1
<1>3. CASE Abandon
  <2>1. late' = late \union {[id |-> faults, events |-> batch]} /\ Settled' = Settled
    BY <1>3 DEF Abandon, SendReturns, Settled, Resume, AfterFlush
  <2>2. ASSUME NEW e \in Range(batch)  PROVE Settled' + 1 .. e \subseteq Range(batch)
    <3>1. Range(batch) = Settled + 1 .. Settled + Len(batch) /\ Len(batch) \in Nat
      BY PendingRange
    <3>2. e \in Nat /\ e <= Settled + Len(batch)  BY <1>1, <2>2, <3>1
    <3>3. QED  BY <1>1, <2>1, <3>1, <3>2
  <2>3. ASSUME NEW r \in late', NEW e \in Range(r.events)
        PROVE  Settled' + 1 .. e \subseteq Range(r.events)
    <3>1. CASE r \in late  BY <1>2, <3>1
    <3>2. CASE r = [id |-> faults, events |-> batch]
      <4>1. r.events = batch  BY <3>2
      <4>2. QED  BY <2>2, <2>3, <4>1
    <3>3. QED  BY <2>1, <3>1, <3>2
  <2>4. QED  BY <2>3 DEF ILate
<1>4. CASE late' \subseteq late
  BY <1>2, <1>4 DEF ILate
<1>5. QED
  <2>1. ServiceStores \/ ServiceStoresSome \/ LateStore \/ UNCHANGED <<stored, late>>
          => late' \subseteq late
    BY DEF ServiceStores, ServiceStoresSome, LateStore
  <2>2. QED  BY <1>3, <1>4, <2>1, WhoTouchesStore

\* What is stored in a step comes from the current batch or from an abandoned
\* request, neither of which has the refused event in it: so all of it lies
\* before any refused event that is still held.
LEMMA PoisonStep ==
    ASSUME TypeOK, IOrder, IStored, ILate, PoisonBlocksLater, [Next]_vars
    PROVE  PoisonBlocksLater'
<1>1. /\ Settled \in Nat /\ Settled' \in Nat /\ Settled <= Settled'
      /\ accepted \in Nat /\ accepted' \in Nat
      /\ accepted' = accepted \/ accepted' = accepted + 1
  <2>1. accepted' = accepted \/ accepted' = accepted + 1
    BY WhoTouchesPending, EmitEffect, TakeEventEffect, DrainEventEffect, SendSucceedsEffect
  <2>2. QED  BY <2>1, OrderStep, TypeStep DEF IOrder, TypeOK
<1>2. ASSUME NEW p \in Poison \cap (Settled' + 1 .. accepted'), NEW i \in Stored
      PROVE  i < p
  <2>1. i \in 1 .. accepted  BY DEF IStored
  <2>2. CASE p <= accepted
    <3>1. p \in Poison \cap (Settled + 1 .. accepted)  BY <1>1, <1>2, <2>2
    <3>2. QED  BY <3>1 DEF PoisonBlocksLater
  <2>3. CASE p = accepted + 1  BY <1>1, <2>1, <2>3
  <2>4. QED  BY <1>1, <1>2, <2>2, <2>3
<1>3. ASSUME NEW s \in Seq(Nat), stored' = stored \o s, Settled' = Settled, accepted' = accepted,
             \A p \in Poison \cap (Settled + 1 .. accepted), i \in Range(s) : i < p
      PROVE  PoisonBlocksLater'
  <2>1. Range(stored \o s) = Range(stored) \union Range(s)
    BY RangeConcatenation DEF TypeOK
  <2>2. Stored' = Stored \union Range(s)  BY <1>3, <2>1 DEF Stored
  <2>3. QED  BY <1>2, <1>3, <2>2 DEF PoisonBlocksLater
<1>4. ASSUME Range(batch) \intersect Poison = {}
      PROVE  \A p \in Poison \cap (Settled + 1 .. accepted), i \in Range(batch) : i < p
  BY <1>1, <1>4, PendingRange
<1>5. CASE ServiceStores
  <2>1. /\ stored' = stored \o batch /\ Range(batch) \intersect Poison = {}
        /\ accepted' = accepted /\ Settled' = Settled /\ batch \in Seq(Nat)
    BY <1>5 DEF ServiceStores, history, Settled, TypeOK
  <2>2. QED  BY <1>3, <1>4, <2>1
<1>6. CASE ServiceStoresSome
  <2>1. PICK n \in 1 .. Len(batch) - 1 : stored' = stored \o SubSeq(batch, 1, n)
    BY <1>6 DEF ServiceStoresSome
  <2>2. \A i \in 1 .. n : batch[i] \in Nat  BY <2>1, ElementOfSeq, LenProperties DEF TypeOK
  <2>3. /\ SubSeq(batch, 1, n) \in Seq(Nat)
        /\ Len(SubSeq(batch, 1, n)) = n
        /\ \A i \in 1 .. n : SubSeq(batch, 1, n)[i] = batch[i]
    BY <2>1, <2>2, SubSeqProperties
  <2>4. Range(SubSeq(batch, 1, n)) \subseteq Range(batch)
    <3>1. DOMAIN SubSeq(batch, 1, n) = 1 .. n /\ DOMAIN batch = 1 .. Len(batch)
      BY <2>3, LenProperties DEF TypeOK
    <3>2. 1 .. n \subseteq DOMAIN batch  BY <2>1, <3>1, Lengths
    <3>3. QED  BY <2>3, <3>1, <3>2 DEF Range
  <2>5. Range(batch) \intersect Poison = {} /\ accepted' = accepted /\ Settled' = Settled
    BY <1>6 DEF ServiceStoresSome, history, Settled
  <2>6. \A p \in Poison \cap (Settled + 1 .. accepted), i \in Range(SubSeq(batch, 1, n)) : i < p
    BY <1>4, <2>4, <2>5
  <2>7. QED  BY <1>3, <2>1, <2>3, <2>5, <2>6
<1>7. CASE LateStore
  <2>1. PICK r \in late :
          /\ Range(r.events) \intersect Poison = {} /\ stored' = stored \o r.events
          /\ UNCHANGED <<agentVars, faults, history>>
    BY <1>7 DEF LateStore
  <2>2. /\ r.events \in Seq(Nat) /\ Range(r.events) \subseteq 1 .. accepted
        /\ accepted' = accepted /\ Settled' = Settled
    BY <2>1 DEF TypeOK, IStored, agentVars, history, Settled
  <2>3. ASSUME NEW p \in Poison \cap (Settled + 1 .. accepted), NEW i \in Range(r.events)
        PROVE  i < p
    <3>1. Settled + 1 .. i \subseteq Range(r.events)  BY DEF ILate
    <3>2. p \notin Settled + 1 .. i  BY <2>1, <3>1
    <3>3. QED  BY <1>1, <2>2, <3>2
  <2>4. QED  BY <1>3, <2>1, <2>2, <2>3
<1>8. CASE stored' = stored
  <2>1. Stored' = Stored  BY <1>8 DEF Stored
  <2>2. QED  BY <1>2, <2>1 DEF PoisonBlocksLater
<1>9. QED  BY <1>5, <1>6, <1>7, <1>8, WhoTouchesStore DEF Abandon, SendReturns, Resume, AfterFlush

\* What is settled never decreases and the agent's steps on a request leave it
\* alone, so an abandoned run still starts among the settled events.
LEMMA LateRunStep ==
    ASSUME TypeOK, IOrder, ILateRun, [Next]_vars
    PROVE  ILateRun'
<1>1. Settled \in Nat /\ Settled' \in Nat /\ Settled <= Settled'  BY OrderStep DEF IOrder
<1>2. ASSUME NEW r \in late
      PROVE  \E b \in 0 .. Settled' : CountsFrom(b, r.events)
  <2>1. PICK b \in 0 .. Settled : CountsFrom(b, r.events)  BY DEF ILateRun
  <2>2. b \in 0 .. Settled'  BY <1>1
  <2>3. QED  BY <2>1, <2>2
<1>3. CASE Abandon
  <2>1. late' = late \union {[id |-> faults, events |-> batch]} /\ Settled' = Settled
    BY <1>3 DEF Abandon, SendReturns, Settled, Resume, AfterFlush
  <2>2. ASSUME NEW r \in late'
        PROVE  \E b \in 0 .. Settled' : CountsFrom(b, r.events)
    <3>1. CASE r \in late  BY <1>2, <3>1
    <3>2. CASE r = [id |-> faults, events |-> batch]
      <4>1. r.events = batch /\ CountsFrom(Settled, batch)  BY <3>2 DEF IOrder, PendingInOrder
      <4>2. CountsFrom(Settled, r.events) /\ Settled \in 0 .. Settled'  BY <1>1, <2>1, <4>1
      <4>3. QED  BY <4>2
    <3>3. QED  BY <2>1, <3>1, <3>2
  <2>3. QED  BY <2>2 DEF ILateRun
<1>4. CASE late' \subseteq late  BY <1>2, <1>4 DEF ILateRun
<1>5. QED
  <2>1. ServiceStores \/ ServiceStoresSome \/ LateStore \/ UNCHANGED <<stored, late>>
          => late' \subseteq late
    BY DEF ServiceStores, ServiceStoresSome, LateStore
  <2>2. QED  BY <1>3, <1>4, <2>1, WhoTouchesStore

\* Whatever the service appends is a run that starts among the settled events,
\* and without overflow all of those are in the store.
LEMMA FirstStoredStep ==
    ASSUME TypeOK, IOrder, NothingVanishes, ILateRun, FirstStoredInOrder, [Next]_vars
    PROVE  FirstStoredInOrder'
<1>1. Settled \in Nat /\ stored \in Seq(Nat) /\ batch \in Seq(Nat)  BY DEF IOrder, TypeOK
<1>2. FirstStoredInOrder <=> (overflowed = {} => FirstInOrder(stored))
  BY DEF FirstStoredInOrder, FirstInOrder
<1>3. FirstStoredInOrder' <=> (overflowed' = {} => FirstInOrder(stored'))
  BY DEF FirstStoredInOrder, FirstInOrder
<1>4. overflowed \subseteq overflowed'
  BY WhoTouchesPending, EmitEffect, TakeEventEffect, DrainEventEffect, SendSucceedsEffect
<1>5. ASSUME NEW b \in 0 .. Settled, NEW s \in Seq(Nat), CountsFrom(b, s), stored' = stored \o s
      PROVE  FirstStoredInOrder'
  <2> SUFFICES ASSUME overflowed = {}  PROVE FirstInOrder(stored')
    BY <1>3, <1>4
  <2>1. b \in Nat /\ 1 .. b \subseteq Range(stored)
    BY <1>1 DEF NothingVanishes, Stored
  <2>2. FirstInOrder(stored)  BY <1>2
  <2>3. FirstInOrder(stored \o s)  BY ONLY <1>1, <1>5, <2>1, <2>2, RunKeepsOrder
  <2>4. QED  BY <1>5, <2>3
<1>6. Settled \in 0 .. Settled /\ CountsFrom(Settled, batch)  BY <1>1 DEF IOrder, PendingInOrder
<1>7. CASE ServiceStores  BY <1>1, <1>5, <1>6, <1>7 DEF ServiceStores
<1>8. CASE ServiceStoresSome
  <2>1. PICK n \in 1 .. Len(batch) - 1 : stored' = stored \o SubSeq(batch, 1, n)
    BY <1>8 DEF ServiceStoresSome
  <2>2. n \in 1 .. Len(batch)  BY <2>1, Lengths
  <2>3. SubSeq(batch, 1, n) \in Seq(Nat) /\ CountsFrom(Settled, SubSeq(batch, 1, n))
    BY <1>1, <1>6, <2>2, CountsPrefix
  <2>4. QED  BY <1>5, <1>6, <2>1, <2>3
<1>9. CASE LateStore
  <2>1. PICK r \in late : stored' = stored \o r.events  BY <1>9 DEF LateStore
  <2>2. r.events \in Seq(Nat)  BY <2>1 DEF TypeOK
  <2>3. PICK b \in 0 .. Settled : CountsFrom(b, r.events)  BY DEF ILateRun
  <2>4. QED  BY <1>5, <2>1, <2>2, <2>3
<1>10. CASE stored' = stored  BY <1>2, <1>3, <1>4, <1>10
<1>11. QED  BY <1>7, <1>8, <1>9, <1>10, WhoTouchesStore DEF Abandon, SendReturns, Resume, AfterFlush

\* Without a fault the service sees every event once: it stores the batch only
\* after all earlier ones, and the agent then lets go of exactly that batch.
LEMMA OnceStep ==
    ASSUME TypeOK, IOrder, IOnce, [Next]_vars
    PROVE  IOnce'
<1>1. /\ Settled \in Nat /\ Settled' \in Nat /\ Settled <= Settled' /\ Len(batch) \in Nat
      /\ stored \in Seq(Nat) /\ batch \in Seq(Nat) /\ CountsFrom(Settled, batch)
  BY Lengths, OrderStep DEF IOrder, PendingInOrder, TypeOK
<1>2. \A x \in Stored : x \in Nat  BY <1>1, RangeOfSeq DEF Stored
<1>3. CASE ServiceStoresSome \/ ReplyLost \/ Abandon
  <2>1. faults' = faults + 1  BY <1>3 DEF ServiceStoresSome, ReplyLost, Abandon
  <2>2. QED  BY <2>1 DEF IOnce, TypeOK
<1>4. CASE LateStore
  <2>1. faults' = faults /\ late # {}  BY <1>4 DEF LateStore
  <2>2. QED  BY <2>1 DEF IOnce
<1> SUFFICES ASSUME faults' = 0, ~ServiceStoresSome, ~ReplyLost, ~Abandon, ~LateStore
             PROVE  late' = {} /\ NoRepeat' /\ (\A i \in Stored : i <= Sent)'
  BY <1>3, <1>4 DEF IOnce
<1>5. faults = 0 /\ late' = late
  BY DEF Next, RunStep, vars, agentVars, serviceVars, history, Emit, Close, CancelContext,
       Tick, StartRun, TakeEvent, TakeTick, TakeDone, TakeCtxDone, DrainEvent, DrainEnd,
       SendSucceeds, SendFails, SendReturns, ServiceStores, ServiceRefuses,
       Leave, DrainInto, FlushDrained, Resume, AfterFlush
<1>6. late = {} /\ NoRepeat /\ \A i \in Stored : i <= Sent  BY <1>5 DEF IOnce
<1>7. CASE ServiceStores
  <2>1. /\ stored' = stored \o batch /\ request = "posted" /\ request' = "stored"
        /\ batch' = batch /\ Settled' = Settled
    BY <1>7 DEF ServiceStores, history, Settled
  <2>2. Sent = Settled /\ Sent' = Settled + Len(batch)  BY <2>1 DEF Sent
  <2>3. \A x \in Range(stored) : x <= Settled  BY <1>6, <2>2 DEF Stored
  <2>4. Distinct(stored)  BY <1>6 DEF NoRepeat, Distinct
  <2>5. Distinct(stored \o batch)  BY ONLY <1>1, <2>3, <2>4, RunDistinct
  <2>6. NoRepeat'  BY <2>1, <2>5 DEF NoRepeat, Distinct
  <2>7. Range(stored \o batch) = Range(stored) \union Range(batch)
    BY <1>1, RangeConcatenation
  <2>8. Range(batch) = Settled + 1 .. Settled + Len(batch)  BY PendingRange
  <2>9. ASSUME NEW i \in Stored'  PROVE i <= Settled + Len(batch)
    <3>1. CASE i \in Stored
      <4>1. i <= Settled /\ i \in Nat  BY <1>2, <2>3, <3>1 DEF Stored
      <4>2. QED  BY <1>1, <4>1
    <3>2. CASE i \in Range(batch)  BY <1>1, <2>8, <3>2
    <3>3. QED  BY <2>1, <2>7, <2>9, <3>1, <3>2 DEF Stored
  <2>10. QED  BY <1>5, <1>6, <2>2, <2>6, <2>9
<1>8. CASE ~ServiceStores
  <2>1. stored' = stored  BY <1>8, WhoTouchesStore
  <2>2. NoRepeat' /\ Stored' = Stored  BY <1>6, <2>1 DEF NoRepeat, Stored
  <2>3. Sent \in Nat /\ Sent <= Sent' /\ Sent' \in Nat
    <3>1. Sent \in Nat  BY <1>1 DEF Sent
    <3>2. CASE SendSucceeds
      <4>1. Settled' = Settled + Len(batch) /\ request' = "none" /\ request = "stored"
        BY <3>2, SendSucceedsEffect DEF SendSucceeds, SendReturns, Resume
      <4>2. QED  BY <1>1, <3>1, <4>1 DEF Sent
    <3>3. CASE ~SendSucceeds
      <4>1. request = "stored" => request' = "stored" /\ batch' = batch
        BY <1>8, <3>3 DEF Next, RunStep, vars, agentVars, serviceVars, history, Emit, Close,
           CancelContext, Tick, StartRun, TakeEvent, TakeTick, TakeDone, TakeCtxDone, DrainEvent,
           DrainEnd, SendFails, SendReturns, ServiceRefuses, TypeOK,
           Leave, DrainInto, FlushDrained, Resume, AfterFlush
      <4>2. request' = "stored" => request = "stored"
        BY <1>8, <3>3 DEF Next, RunStep, vars, agentVars, serviceVars, history, Emit, Close,
           CancelContext, Tick, StartRun, TakeEvent, TakeTick, TakeDone, TakeCtxDone, DrainEvent,
           DrainEnd, SendFails, SendReturns, ServiceRefuses, TypeOK, Flush,
           Leave, DrainInto, FlushDrained, Resume, AfterFlush
      <4>3. QED  BY <1>1, <3>1, <4>1, <4>2 DEF Sent
    <3>4. QED  BY <3>2, <3>3
  <2>4. \A i \in Stored' : i <= Sent'  BY <1>2, <1>6, <2>2, <2>3
  <2>5. QED  BY <1>5, <1>6, <2>2, <2>4
<1>9. QED  BY <1>7, <1>8

\* While the last send worked, Run goes back to its loop only with a batch
\* below the flush size.
LEMMA FailingStep ==
    ASSUME TypeOK, IFailing, [Next]_vars
    PROVE  IFailing'
<1>1. CASE TakeEvent
  <2>1. \/ pc' # "select" /\ pc' # "new"
        \/ batch' = Bounded(Append(batch, Head(events)))
           /\ ~(Len(Bounded(Append(batch, Head(events)))) >= BatchSize)
    BY <1>1, EmptySeq, BatchSizeAssumption DEF TakeEvent, Flush
  <2>2. TypeOK'  BY TypeStep
  <2>3. Len(batch') \in Nat /\ BatchSize \in Nat  BY <2>2, LenProperties, BatchSizeAssumption DEF TypeOK
  <2>4. QED  BY <2>1, <2>3 DEF IFailing
<1>2. CASE TakeTick  BY <1>2, EmptySeq, BatchSizeAssumption DEF TakeTick, Flush, history, IFailing
<1>3. CASE SendSucceeds
  <2>1. Len(batch') = 0  BY <1>3 DEF SendSucceeds, SendReturns, Resume, AfterFlush
  <2>2. QED  BY <2>1, BatchSizeAssumption DEF IFailing
<1>4. CASE SendFails \/ ReplyLost \/ Abandon
  BY <1>4 DEF SendFails, ReplyLost, Abandon, SendReturns, IFailing, Resume, AfterFlush
<1>5. CASE TakeDone \/ TakeCtxDone \/ DrainEvent \/ DrainEnd
  BY <1>5 DEF TakeDone, TakeCtxDone, DrainEvent, DrainEnd, Flush, IFailing,
       Leave, DrainInto, FlushDrained
<1>6. CASE StartRun  BY <1>6 DEF StartRun, history, IFailing
<1>7. CASE UNCHANGED <<batch, pc, failing>>  BY <1>7 DEF IFailing
<1>8. QED
  BY <1>1, <1>2, <1>3, <1>4, <1>5, <1>6, <1>7
  DEF Next, RunStep, vars, agentVars, serviceVars, history, Emit, Close, CancelContext, Tick,
      ServiceStores, ServiceRefuses, ServiceStoresSome, LateStore

-----------------------------------------------------------------------------
(* The theorems. *)

LEMMA InvInit == Init => IInv
<1> SUFFICES ASSUME Init  PROVE IInv
  OBVIOUS
<1>1. TypeOK  BY TypeInit
<1>2. /\ events = <<>> /\ batch = <<>> /\ stored = <<>> /\ late = {} /\ overflowed = {}
      /\ accepted = 0 /\ closedAt = 0 /\ request = "none" /\ cause = "none"
      /\ Len(batch) = 0 /\ Len(events) = 0
  BY DEF Init
<1>3. Settled = 0
  <2>1. Settled = accepted - Len(batch) - Len(events)  BY DEF Settled
  <2>2. Settled = 0 - 0 - 0  BY <1>2, <2>1, Zenon
  <2>3. QED  BY <2>2
<1>4. Stored = {}  BY <1>2 DEF Stored, Range
<1>5. IOrder  BY <1>2, <1>3 DEF IOrder, PendingInOrder, CountsFrom
<1>6. ISent /\ IStored /\ ILate  BY <1>2, <1>4 DEF ISent, IStored, ILate
<1>11. ILateRun /\ FirstStoredInOrder  BY <1>2 DEF ILateRun, FirstStoredInOrder
<1>12. IOnce  BY <1>2, <1>4 DEF IOnce, NoRepeat
<1>7. NothingVanishes  BY <1>3 DEF NothingVanishes
<1>8. IClose  BY <1>2 DEF IClose, CloseDrains
<1>9. OverflowDropsOldest /\ PoisonBlocksLater
  BY <1>2, <1>4 DEF OverflowDropsOldest, PoisonBlocksLater
<1>10. IFailing  BY <1>2, BatchSizeAssumption DEF IFailing
<1>13. QED  BY <1>1, <1>5, <1>6, <1>7, <1>8, <1>9, <1>10, <1>11, <1>12 DEF IInv

LEMMA InvStep == IInv /\ [Next]_vars => IInv'
BY TypeStep, OrderStep, SentStep, StoredStep, NothingVanishesStep, CloseStep, OverflowStep,
   LateStep, PoisonStep, FailingStep, LateRunStep, FirstStoredStep, OnceStep DEF IInv

LEMMA Invariance == Spec => []IInv
BY InvInit, InvStep, PTL DEF Spec

\* Retries, overflow and draining never reorder the held events.
THEOREM Ordered == Spec => []PendingInOrder
<1>1. IInv => PendingInOrder  BY DEF IInv, IOrder
<1>2. QED  BY <1>1, Invariance, PTL

\* An event that left the agent is in the store or was displaced.
THEOREM NoLoss == Spec => []NothingVanishes
<1>1. IInv => NothingVanishes  BY DEF IInv
<1>2. QED  BY <1>1, Invariance, PTL

\* Close gets everything accepted before it into the final batch.
THEOREM DrainedAtClose == Spec => []CloseDrains
<1>1. IInv => CloseDrains  BY DEF IInv, IClose
<1>2. QED  BY <1>1, Invariance, PTL

\* A shutdown whose last send succeeded loses nothing that was accepted
\* before Close, except by overflow: the closing argument, from conservation
\* and draining.
THEOREM CleanClose == Spec => []CleanCloseDelivers
<1>1. IInv => CleanCloseDelivers
  <2> SUFFICES ASSUME IInv, cause = "done", pc = "returned", batch = <<>>,
                      NEW i \in 1 .. closedAt
               PROVE  i \in Stored \union overflowed
    BY DEF CleanCloseDelivers
  <2>1. closedAt <= accepted - Len(events)  BY DEF IInv, IClose, CloseDrains
  <2>2. Len(batch) = 0  OBVIOUS
  <2>3. /\ Settled = accepted - Len(batch) - Len(events)
        /\ accepted \in Nat /\ Len(events) \in Nat /\ closedAt \in Nat
    BY Lengths DEF Settled, IInv, TypeOK
  <2>4. i \in 1 .. Settled  BY <2>1, <2>2, <2>3
  <2>5. QED  BY <2>4 DEF IInv, NothingVanishes
<1>2. QED  BY <1>1, Invariance, PTL

\* Overflow displaces the oldest event, for BufferSize newer ones.
THEOREM Overflow == Spec => []OverflowDropsOldest
<1>1. IInv => OverflowDropsOldest  BY DEF IInv
<1>2. QED  BY <1>1, Invariance, PTL

\* A refused event holds back everything accepted after it.
THEOREM HeadOfLine == Spec => []PoisonBlocksLater
<1>1. IInv => PoisonBlocksLater  BY DEF IInv
<1>2. QED  BY <1>1, Invariance, PTL

\* As long as no send ended without the agent knowing its effect, the service
\* has no event twice.
THEOREM ExactlyOnce == Spec => []ExactlyOnceWithoutFaults
<1>1. IInv => ExactlyOnceWithoutFaults  BY DEF IInv, IOnce, NoRepeat, ExactlyOnceWithoutFaults
<1>2. QED  BY <1>1, Invariance, PTL

\* Repeats, partial writes and late requests never let an event overtake an
\* earlier one: they only store again what comes after a settled prefix.
THEOREM FirstInAcceptedOrder == Spec => []FirstStoredInOrder
<1>1. IInv => FirstStoredInOrder  BY DEF IInv
<1>2. QED  BY <1>1, Invariance, PTL

\* With BatchSize <= BufferSize the agent drops events only while its sends
\* are failing.
THEOREM NoNeedlessOverflow == Spec => OverflowOnlyWhileFailing
<1>1. IInv /\ [Next]_vars
        => [BatchSize <= BufferSize /\ overflowed' # overflowed => failing]_vars
  <2> SUFFICES ASSUME IInv, Next, BatchSize <= BufferSize, overflowed' # overflowed, ~failing
               PROVE  FALSE
    BY DEF vars, history
  <2>1. TakeEvent
    BY WhoTouchesPending, EmitEffect, DrainEventEffect, SendSucceedsEffect DEF IInv
  <2>2. Len(batch) >= BufferSize  BY <2>1, TakeEventEffect DEF IInv
  <2>3. Len(batch) < BatchSize  BY <2>1 DEF IInv, IFailing, TakeEvent
  <2>4. QED  BY <2>2, <2>3, Lengths, BatchSizeAssumption, BufferSizeAssumption DEF IInv
<1>2. QED  BY <1>1, Invariance, PTL DEF Spec, OverflowOnlyWhileFailing

\* The agent implements MetricDelivery: receives, ticks and failed sends
\* stutter; the service's steps store, a successful send settles its batch,
\* a receive into a full batch displaces.
THEOREM AgentImplementsDelivery == Spec => ImplementsDelivery
<1>1. Init => Delivery!Init
  <2> SUFFICES ASSUME Init  PROVE Delivery!Init
    OBVIOUS
  <2>1. Settled = 0
    <3>1. /\ Settled = accepted - Len(batch) - Len(events)
          /\ accepted = 0 /\ Len(batch) = 0 /\ Len(events) = 0
      BY DEF Init, Settled
    <3>2. Settled = 0 - 0 - 0  BY <3>1, Zenon
    <3>3. QED  BY <3>2
  <2>2. Stored = {}  BY DEF Init, Stored, Range
  <2>3. QED  BY <2>1, <2>2 DEF Init, Delivery!Init
<1>2. IInv /\ [Next]_vars => [Delivery!Next]_(Delivery!vars)
  <2> SUFFICES ASSUME IInv, [Next]_vars
               PROVE  Delivery!Next \/ UNCHANGED Delivery!vars
    OBVIOUS
  <2>1. IInv'  BY InvStep
  <2>2. /\ Settled \in Nat /\ accepted \in Nat /\ Len(batch) \in Nat /\ Len(events) \in Nat
        /\ Settled + Len(batch) + Len(events) = accepted
    BY PendingRange DEF IInv
  <2>3. CASE Emit
    <3>1. stored' = stored  BY <2>3 DEF Emit, serviceVars
    <3>2. Stored' = Stored  BY <3>1 DEF Stored
    <3>3. Delivery!Accept  BY <2>3, <3>2, EmitEffect DEF IInv, Delivery!Accept
    <3>4. QED  BY <3>3 DEF Delivery!Next
  <2>4. CASE TakeEvent
    <3>1. stored' = stored  BY <2>4 DEF TakeEvent, serviceVars
    <3>2. Stored' = Stored  BY <3>1 DEF Stored
    <3>3. accepted' = accepted /\ Len(events) >= 1
      BY <2>4, EmptySeq DEF TakeEvent, IInv, TypeOK
    <3>4. CASE Settled' = Settled /\ overflowed' = overflowed
      BY <3>2, <3>3, <3>4 DEF Delivery!vars
    <3>5. CASE Settled' = Settled + 1 /\ overflowed' = overflowed \union {Settled + 1}
      <4>1. Settled < accepted  BY <2>2, <3>3
      <4>2. Delivery!Displace  BY <3>2, <3>3, <3>5, <4>1 DEF Delivery!Displace
      <4>3. QED  BY <4>2 DEF Delivery!Next
    <3>6. QED  BY <2>4, <3>4, <3>5, TakeEventEffect DEF IInv
  <2>5. CASE DrainEvent
    <3>1. stored' = stored  BY <2>5 DEF DrainEvent, serviceVars, DrainInto
    <3>2. QED  BY <2>5, <3>1, DrainEventEffect DEF IInv, Delivery!vars, Stored
  <2>6. CASE SendSucceeds
    <3>1. stored' = stored  BY <2>6 DEF SendSucceeds, SendReturns, Resume, AfterFlush
    <3>2. Stored' = Stored  BY <3>1 DEF Stored
    <3>3. Settled + 1 .. Settled + Len(batch) \subseteq Stored
      BY <2>6, PendingRange DEF IInv, ISent, SendSucceeds
    <3>4. Len(batch) >= 1
      <4>1. batch # <<>> /\ batch \in Seq(Nat)  BY <2>6 DEF SendSucceeds, IInv, TypeOK
      <4>2. QED  BY <4>1, EmptySeq
    <3>5. Settled + Len(batch) \in Settled + 1 .. accepted  BY <2>2, <3>4
    <3>6. Delivery!Settle
      BY <2>6, <3>2, <3>3, <3>5, SendSucceedsEffect DEF IInv, Delivery!Settle
    <3>7. QED  BY <3>6 DEF Delivery!Next
  <2>7. CASE UNCHANGED <<events, batch, accepted, overflowed>>
    <3>1. Settled' = Settled  BY <2>7 DEF Settled
    <3>2. Stored \subseteq Stored' /\ Stored' \subseteq 1 .. accepted
      BY <2>1, <2>7, StoreGrows DEF IInv, IStored
    <3>3. Stored' = Stored \union Stored' /\ Stored' \in SUBSET (1 .. accepted)  BY <3>2
    <3>4. Delivery!Store  BY <2>7, <3>1, <3>3 DEF Delivery!Store
    <3>5. QED  BY <3>4 DEF Delivery!Next
  <2>8. QED  BY <2>3, <2>4, <2>5, <2>6, <2>7, WhoTouchesPending
<1>3. QED  BY <1>1, <1>2, Invariance, PTL DEF Spec, ImplementsDelivery, Delivery!Spec
=============================================================================
