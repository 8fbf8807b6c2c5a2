---------------------------- MODULE UDPAgentProofs ----------------------------
(***************************************************************************)
(* Proofs about UDPAgent for every BatchSize, ChanSize, Invalid set and     *)
(* number of packets.  TLC checks the same formulas on MCUDPAgent.cfg.      *)
(***************************************************************************)
EXTENDS UDPAgent, SequenceLemmas, SequenceTheorems, TLAPS

-----------------------------------------------------------------------------
(* Type correctness. *)

LEMMA TypeInit == Init => TypeOK
<1> SUFFICES ASSUME Init  PROVE TypeOK
  OBVIOUS
<1>1. <<>> \in Seq(Nat) /\ Len(<<>>) = 0  BY EmptySeq
<1>2. /\ hand = <<>> /\ events = <<>> /\ bridge = <<>> /\ forwardEvents = <<>> /\ batch = <<>>
      /\ stored = <<>>
  BY DEF Init
<1>3. /\ hand \in Seq(Nat) /\ events \in Seq(Nat) /\ bridge \in Seq(Nat)
      /\ forwardEvents \in Seq(Nat) /\ batch \in Seq(Nat) /\ stored \in Seq(Nat)
      /\ Len(hand) = 0 /\ Len(events) = 0 /\ Len(bridge) = 0 /\ Len(forwardEvents) = 0
      /\ Len(batch) = 0
  BY <1>1, <1>2
<1>4. 0 <= ChanSize /\ 0 < BatchSize /\ BatchSize \in Nat  BY SizesAssumption
<1>5. /\ running = TRUE /\ cancelled = FALSE /\ tick = FALSE
      /\ collector = "reading" /\ forwarder = "select"
      /\ received = 0 /\ requests = {} /\ dropped = {}
  BY DEF Init
<1>6. Len(batch) <= BatchSize /\ Len(batch) < BatchSize /\ Len(hand) <= 1 /\ Len(bridge) <= 1
  BY <1>3, <1>4
<1>7. QED  BY <1>2, <1>3, <1>4, <1>5, <1>6 DEF TypeOK

LEMMA Lengths ==
    ASSUME TypeOK
    PROVE  /\ Len(hand) \in Nat /\ Len(events) \in Nat /\ Len(bridge) \in Nat
           /\ Len(forwardEvents) \in Nat /\ Len(batch) \in Nat /\ received \in Nat
BY LenProperties DEF TypeOK

\* What a flush leaves of a batch, and what it adds.
LEMMA FlushTypes ==
    ASSUME NEW b \in Seq(Nat), NEW otherwise \in {"select", "returned"}, Flush(b, otherwise),
           requests \subseteq Seq(Nat), dropped \subseteq Nat
    PROVE  /\ forwarder' \in {"sending", otherwise}
           /\ batch' = b \/ batch' = <<>>
           /\ forwarder' = "select" => batch' = <<>>
           /\ requests' \subseteq Seq(Nat) /\ dropped' \subseteq Nat
<1>1. Range(b) \subseteq Nat  BY RangeOfSeq
<1>2. QED  BY <1>1 DEF Flush

\* Every step keeps the types and the limits of the pipeline.
LEMMA TypeStep == TypeOK /\ [Next]_vars => TypeOK'
<1> SUFFICES ASSUME TypeOK, [Next]_vars  PROVE TypeOK'
  OBVIOUS
<1> USE DEF TypeOK, sides
<1>0. <<>> \in Seq(Nat) /\ Len(<<>>) = 0 /\ 0 < BatchSize /\ BatchSize \in Nat /\ ChanSize \in Nat
  BY EmptySeq, SizesAssumption
<1>1. CASE Receive
  <2>1. <<received + 1>> \in Seq(Nat) /\ Len(<<received + 1>>) = 1  OBVIOUS
  <2>2. QED  BY <1>1, <2>1 DEF Receive
<1>2. CASE Publish
  <2>1. events \o hand \in Seq(Nat) /\ Len(events \o hand) = Len(events) + Len(hand)
    BY ConcatProperties
  <2>2. Len(events) + Len(hand) <= ChanSize  BY <1>0, <1>2, Lengths DEF Publish
  <2>3. QED  BY <1>0, <1>2, <2>1, <2>2 DEF Publish, PublishInto
<1>3. CASE CollectorReturns  BY <1>3 DEF CollectorReturns, CollectorReturnsFrom
<1>4. CASE Exit  BY <1>4 DEF Exit
<1>5. CASE BridgeReceive
  <2>1. Head(events) \in Nat /\ Tail(events) \in Seq(Nat) /\ Len(Tail(events)) = Len(events) - 1
    BY <1>5, HeadTailProperties DEF BridgeReceive
  <2>2. <<Head(events)>> \in Seq(Nat) /\ Len(<<Head(events)>>) = 1  BY <2>1
  <2>3. Len(Tail(events)) <= ChanSize  BY <1>0, <2>1, Lengths
  <2>4. QED  BY <1>5, <2>1, <2>2, <2>3 DEF BridgeReceive
<1>6. CASE BridgeSend
  <2>1. /\ forwardEvents \o bridge \in Seq(Nat)
        /\ Len(forwardEvents \o bridge) = Len(forwardEvents) + Len(bridge)
    BY ConcatProperties
  <2>2. Len(forwardEvents) + Len(bridge) <= ChanSize  BY <1>0, <1>6, Lengths DEF BridgeSend
  <2>3. QED  BY <1>0, <1>6, <2>1, <2>2 DEF BridgeSend
<1>7. CASE ForwarderReceive
  <2> DEFINE longer == Append(batch, Head(forwardEvents))
  <2>1. /\ Head(forwardEvents) \in Nat /\ Tail(forwardEvents) \in Seq(Nat)
        /\ Len(Tail(forwardEvents)) = Len(forwardEvents) - 1
    BY <1>7, HeadTailProperties DEF ForwarderReceive
  <2>2. longer \in Seq(Nat) /\ Len(longer) = Len(batch) + 1
    <3>1. batch \in Seq(Nat)  OBVIOUS
    <3>2. QED  BY ONLY <2>1, <3>1, AppendProperties
  <2>3. /\ forwardEvents' = Tail(forwardEvents)
        /\ IF Len(longer) >= BatchSize THEN Flush(longer, "select")
           ELSE batch' = longer /\ UNCHANGED <<forwarder, requests, dropped>>
        /\ forwarder = "select"
        /\ UNCHANGED <<running, cancelled, collector, tick, hand, events, bridge, received, stored>>
    BY <1>7 DEF ForwarderReceive
  <2> HIDE DEF longer
  <2>4. Len(Tail(forwardEvents)) <= ChanSize  BY <1>0, <2>1, Lengths
  <2>5. Len(longer) <= BatchSize  BY <1>0, <2>2, <2>3, Lengths
  <2>6. /\ forwarder' \in {"select", "sending"}
        /\ batch' \in Seq(Nat) /\ Len(batch') <= BatchSize
        /\ forwarder' = "select" => Len(batch') < BatchSize
        /\ requests' \subseteq Seq(Nat) /\ dropped' \subseteq Nat
    <3>1. CASE Len(longer) >= BatchSize
      <4>1. /\ forwarder' \in {"sending", "select"} /\ (batch' = longer \/ batch' = <<>>)
            /\ forwarder' = "select" => batch' = <<>>
            /\ requests' \subseteq Seq(Nat) /\ dropped' \subseteq Nat
        BY <2>2, <2>3, <3>1, FlushTypes
      <4>2. CASE batch' = longer  BY <1>0, <2>2, <2>5, <4>1, <4>2
      <4>3. CASE batch' = <<>>  BY <1>0, <4>1, <4>3
      <4>4. QED  BY <4>1, <4>2, <4>3
    <3>2. CASE ~(Len(longer) >= BatchSize)
      <4>1. batch' = longer /\ UNCHANGED <<forwarder, requests, dropped>>  BY <2>3, <3>2
      <4>2. Len(longer) < BatchSize  BY <1>0, <2>2, <3>2, Lengths
      <4>3. QED  BY <1>0, <2>2, <2>3, <4>1, <4>2
    <3>3. QED  BY <3>1, <3>2
  <2>7. QED  BY <2>1, <2>3, <2>4, <2>6
<1>8. CASE ForwarderTick
  <2>1. /\ forwarder' \in {"sending", "select"} /\ (batch' = batch \/ batch' = <<>>)
        /\ forwarder' = "select" => batch' = <<>>
        /\ requests' \subseteq Seq(Nat) /\ dropped' \subseteq Nat
    BY <1>8, FlushTypes DEF ForwarderTick, FlushOnTick
  <2>2. batch' \in Seq(Nat) /\ Len(batch') <= BatchSize
    <3>1. CASE batch' = batch  BY <3>1
    <3>2. CASE batch' = <<>>  BY <1>0, <3>2
    <3>3. QED  BY <2>1, <3>1, <3>2
  <2>3. forwarder' = "select" => Len(batch') < BatchSize  BY <1>0, <2>1
  <2>4. QED  BY <1>8, <2>1, <2>2, <2>3 DEF ForwarderTick, FlushOnTick
<1>9. CASE SendReturns
  <2>1. batch' \in Seq(Nat) /\ Len(batch') = 0  BY <1>0, <1>9 DEF SendReturns, ResumeWith
  <2>2. Len(batch') < BatchSize /\ Len(batch') <= BatchSize  BY <1>0, <2>1
  <2>3. QED  BY <1>9, <2>1, <2>2 DEF SendReturns, ResumeWith
<1>10. CASE ForwarderStops
  <2>1. /\ forwarder' \in {"sending", "returned"} /\ (batch' = batch \/ batch' = <<>>)
        /\ requests' \subseteq Seq(Nat) /\ dropped' \subseteq Nat
    BY <1>10, FlushTypes DEF ForwarderStops
  <2>2. batch' \in Seq(Nat) /\ Len(batch') <= BatchSize
    <3>1. CASE batch' = batch  BY <3>1
    <3>2. CASE batch' = <<>>  BY <1>0, <3>2
    <3>3. QED  BY <2>1, <3>1, <3>2
  <2>3. QED  BY <1>10, <2>1, <2>2 DEF ForwarderStops
<1>11. CASE Tick  BY <1>11 DEF Tick
<1>12. CASE Interrupt  BY <1>12 DEF Interrupt
<1>13. CASE ServiceStores
  <2>1. PICK r \in requests : stored' = stored \o r /\ requests' = requests \ {r}
    BY <1>13 DEF ServiceStores
  <2>2. stored' \in Seq(Nat)  BY <2>1, ConcatProperties
  <2>3. QED  BY <1>13, <2>1, <2>2 DEF ServiceStores
<1>14. CASE ServiceFails
  <2>1. PICK r \in requests, n \in 0 .. BatchSize - 1 :
            /\ n < Len(r)
            /\ stored' = stored \o SubSeq(r, 1, n)
            /\ dropped' = dropped \union Range(SubSeq(r, n + 1, Len(r)))
            /\ requests' = requests \ {r}
    BY <1>14 DEF ServiceFails
  <2>2. r \in Seq(Nat) /\ n \in Nat /\ Len(r) \in Nat  BY <1>0, <2>1, LenProperties
  <2>3. SubSeq(r, 1, n) \in Seq(Nat) /\ SubSeq(r, n + 1, Len(r)) \in Seq(Nat)
    <3>1. \A i \in 1 .. Len(r) : r[i] \in Nat  BY <2>2, ElementOfSeq
    <3>2. (\A i \in 1 .. n : r[i] \in Nat) /\ (\A i \in n + 1 .. Len(r) : r[i] \in Nat)
      BY <2>1, <2>2, <3>1
    <3>3. 1 \in Int /\ n \in Int /\ n + 1 \in Int /\ Len(r) \in Int  BY <2>2
    <3>4. QED  BY ONLY <3>2, <3>3, SubSeqProperties
  <2>4. stored' \in Seq(Nat)  BY <2>1, <2>3, ConcatProperties
  <2>5. Range(SubSeq(r, n + 1, Len(r))) \subseteq Nat  BY <2>3, RangeOfSeq
  <2>6. QED  BY <1>14, <2>1, <2>4, <2>5 DEF ServiceFails
<1>15. CASE UNCHANGED vars  BY <1>15 DEF vars
<1>16. QED
  BY <1>1, <1>2, <1>3, <1>4, <1>5, <1>6, <1>7, <1>8, <1>9, <1>10, <1>11, <1>12, <1>13, <1>14,
     <1>15 DEF Next, Collect, Bridge, Forward, Service

\* The goroutines keep their states and the channels, the batch and what the
\* collector and the bridge have in hand their limits: backpressure stops at
\* the socket (cmd/agent/main.go:21-31).
THEOREM TypeCorrect == Spec => []TypeOK
<1>1. QED  BY TypeInit, TypeStep, PTL DEF Spec

-----------------------------------------------------------------------------
(***************************************************************************)
(* The order of the pipeline.  PipelineInOrder speaks of one long sequence; *)
(* its inductive form, IOrder, speaks of the five it is made of, each of    *)
(* which counts on from where the one ahead of it ends.  A step moves one   *)
(* event across one border.                                                 *)
(***************************************************************************)
AtHand    == received - Len(hand)          \* the packets already published,
AtEvents  == AtHand - Len(events)          \* taken by the bridge,
AtBridge  == AtEvents - Len(bridge)        \* passed on by it,
AtForward == AtBridge - Len(forwardEvents) \* taken by the forwarder,
Flushed   == AtForward - Len(Unsent)       \* and flushed

IOrder ==
    /\ Flushed \in Nat
    /\ CountsFrom(AtHand, hand) /\ CountsFrom(AtEvents, events)
    /\ CountsFrom(AtBridge, bridge) /\ CountsFrom(AtForward, forwardEvents)
    /\ CountsFrom(Flushed, Unsent)

\* The borders are in order.
LEMMA Borders ==
    ASSUME TypeOK, IOrder
    PROVE  /\ Unsent \in Seq(Nat) /\ Len(Unsent) \in Nat
           /\ Flushed \in Nat /\ AtForward \in Nat /\ AtBridge \in Nat /\ AtEvents \in Nat
           /\ AtHand \in Nat
           /\ AtForward = Flushed + Len(Unsent) /\ AtBridge = AtForward + Len(forwardEvents)
           /\ AtEvents = AtBridge + Len(bridge) /\ AtHand = AtEvents + Len(events)
           /\ received = AtHand + Len(hand)
<1>1. Unsent \in Seq(Nat)  BY EmptySeq DEF Unsent, TypeOK
<1>2. Len(Unsent) \in Nat  BY <1>1, LenProperties
<1>3. /\ AtHand = received - Len(hand) /\ AtEvents = AtHand - Len(events)
      /\ AtBridge = AtEvents - Len(bridge) /\ AtForward = AtBridge - Len(forwardEvents)
      /\ Flushed = AtForward - Len(Unsent) /\ Flushed \in Nat
  BY DEF AtHand, AtEvents, AtBridge, AtForward, Flushed, IOrder
<1>4. /\ Len(hand) \in Nat /\ Len(events) \in Nat /\ Len(bridge) \in Nat
      /\ Len(forwardEvents) \in Nat /\ received \in Nat
  BY Lengths
<1>5. AtHand \in Int /\ received = AtHand + Len(hand)  BY ONLY <1>3, <1>4
<1>6. AtEvents \in Int /\ AtHand = AtEvents + Len(events)  BY ONLY <1>3, <1>4, <1>5
<1>7. AtBridge \in Int /\ AtEvents = AtBridge + Len(bridge)  BY ONLY <1>3, <1>4, <1>6
<1>8. AtForward \in Int /\ AtBridge = AtForward + Len(forwardEvents)  BY ONLY <1>3, <1>4, <1>7
<1>9. AtForward = Flushed + Len(Unsent)  BY ONLY <1>2, <1>3, <1>8
<1>10. AtForward \in Nat
  <2>1. Flushed \in Nat  BY <1>3
  <2>2. QED  BY ONLY <1>2, <1>9, <2>1
<1>11. AtBridge \in Nat  BY ONLY <1>4, <1>8, <1>10
<1>12. AtEvents \in Nat  BY ONLY <1>4, <1>7, <1>11
<1>13. AtHand \in Nat  BY ONLY <1>4, <1>6, <1>12
<1>14. QED
  BY <1>1, <1>2, <1>3, <1>5, <1>6, <1>7, <1>8, <1>9, <1>10, <1>11, <1>12, <1>13

\* IOrder says what PipelineInOrder says.
LEMMA PiecesInOrder ==
    ASSUME TypeOK, IOrder
    PROVE  PipelineInOrder /\ received - Len(Pipeline) = Flushed
<1> DEFINE a == Unsent \o forwardEvents
           b == a \o bridge
           c == b \o events
<1>1. /\ Unsent \in Seq(Nat) /\ forwardEvents \in Seq(Nat) /\ bridge \in Seq(Nat)
      /\ events \in Seq(Nat) /\ hand \in Seq(Nat) /\ Flushed \in Nat
  BY Borders DEF TypeOK
<1>2. /\ AtForward = Flushed + Len(Unsent) /\ AtBridge = AtForward + Len(forwardEvents)
      /\ AtEvents = AtBridge + Len(bridge) /\ AtHand = AtEvents + Len(events)
      /\ received = AtHand + Len(hand)
      /\ Len(Unsent) \in Nat /\ Len(forwardEvents) \in Nat /\ Len(bridge) \in Nat
      /\ Len(events) \in Nat /\ Len(hand) \in Nat
  BY Borders, Lengths
<1>3. CountsFrom(Flushed, Unsent) /\ CountsFrom(Flushed + Len(Unsent), forwardEvents)
  BY <1>2 DEF IOrder
<1>4. CountsFrom(Flushed, a) /\ a \in Seq(Nat) /\ Len(a) = Len(Unsent) + Len(forwardEvents)
  BY ONLY <1>1, <1>3, CountsConcat
<1> HIDE DEF a
<1>5. CountsFrom(Flushed + Len(a), bridge)
  <2>1. Flushed + Len(a) = AtBridge  BY ONLY <1>1, <1>2, <1>4
  <2>2. QED  BY <2>1 DEF IOrder
<1>6. CountsFrom(Flushed, b) /\ b \in Seq(Nat) /\ Len(b) = Len(a) + Len(bridge)
  BY ONLY <1>1, <1>4, <1>5, CountsConcat
<1> HIDE DEF b
<1>7. CountsFrom(Flushed + Len(b), events)
  <2>1. Flushed + Len(b) = AtEvents  BY ONLY <1>1, <1>2, <1>4, <1>6
  <2>2. QED  BY <2>1 DEF IOrder
<1>8. CountsFrom(Flushed, c) /\ c \in Seq(Nat) /\ Len(c) = Len(b) + Len(events)
  BY ONLY <1>1, <1>6, <1>7, CountsConcat
<1> HIDE DEF c
<1>9. CountsFrom(Flushed + Len(c), hand)
  <2>1. Flushed + Len(c) = AtHand  BY ONLY <1>1, <1>2, <1>4, <1>6, <1>8
  <2>2. QED  BY <2>1 DEF IOrder
<1>10. CountsFrom(Flushed, c \o hand) /\ Len(c \o hand) = Len(c) + Len(hand)
  BY ONLY <1>1, <1>8, <1>9, CountsConcat
<1>11. Pipeline = c \o hand  BY DEF Pipeline, a, b, c
<1>12. received - Len(Pipeline) = Flushed
  <2>1. received = Flushed + Len(c \o hand) /\ Len(c \o hand) \in Nat
    BY ONLY <1>1, <1>2, <1>4, <1>6, <1>8, <1>10
  <2>2. QED  BY <1>1, <1>11, <2>1
<1>13. QED  BY <1>10, <1>11, <1>12 DEF PipelineInOrder

LEMMA OrderInit == Init => IOrder
<1> SUFFICES ASSUME Init  PROVE IOrder
  OBVIOUS
<1>1. Len(<<>>) = 0  BY EmptySeq
<1>2. /\ hand = <<>> /\ events = <<>> /\ bridge = <<>> /\ forwardEvents = <<>>
      /\ Unsent = <<>> /\ received = 0
  BY DEF Init, Unsent
<1>3. Flushed \in Nat  BY <1>1, <1>2 DEF AtHand, AtEvents, AtBridge, AtForward, Flushed
<1>4. QED  BY <1>2, <1>3, CountsEmpty DEF IOrder

\* A flush of what the forwarder holds, b, either turns it into a request or
\* drops it; nothing is held afterwards.
FlushOf(b) ==
    /\ Unsent' = <<>>
    /\ \/ b # <<>> /\ requests' = requests \union {b} /\ dropped' = dropped
       \/ requests' = requests /\ dropped' = dropped \union Range(b)

LEMMA FlushEffect ==
    ASSUME NEW b \in Seq(Nat), NEW otherwise \in {"select", "returned"}, Flush(b, otherwise)
    PROVE  FlushOf(b)
<1>1. CASE b = <<>>
  <2>1. Range(b) = {}  BY <1>1 DEF Range
  <2>2. Unsent' = <<>> /\ requests' = requests /\ dropped' = dropped
    BY <1>1 DEF Flush, Unsent
  <2>3. QED  BY <2>1, <2>2 DEF FlushOf
<1>2. CASE b # <<>> /\ cancelled
  BY <1>2 DEF Flush, FlushOf, Unsent
<1>3. CASE b # <<>> /\ ~cancelled
  BY <1>3 DEF Flush, FlushOf, Unsent
<1>4. QED  BY <1>1, <1>2, <1>3

\* The borders after a step, from the lengths after it.
LEMMA NextBorders ==
    /\ AtHand' = received' - Len(hand')
    /\ AtEvents' = AtHand' - Len(events')
    /\ AtBridge' = AtEvents' - Len(bridge')
    /\ AtForward' = AtBridge' - Len(forwardEvents')
    /\ Flushed' = AtForward' - Len(Unsent')
BY DEF AtHand, AtEvents, AtBridge, AtForward, Flushed

\* The collector's read takes the next number.
LEMMA ReceiveOrder ==
    ASSUME TypeOK, IOrder, Receive
    PROVE  IOrder' /\ Flushed' = Flushed
<1>1. /\ hand = <<>> /\ hand' = <<received + 1>> /\ received' = received + 1
      /\ UNCHANGED <<events, bridge, forwardEvents, Unsent>>
  BY DEF TypeOK, Receive, Unsent
<1>2. /\ Len(hand) = 0 /\ received \in Nat /\ Len(hand') = 1 /\ CountsFrom(received, hand')
  <2>1. received \in Nat  BY Lengths
  <2>2. CountsFrom(received, <<received + 1>>) /\ Len(<<received + 1>>) = 1
    BY ONLY <2>1, CountsOne
  <2>3. QED  BY <1>1, <2>1, <2>2, EmptySeq
<1>3. AtHand' = received /\ AtHand = received  BY <1>1, <1>2, NextBorders DEF AtHand
<1>4. AtEvents' = AtEvents /\ AtBridge' = AtBridge /\ AtForward' = AtForward /\ Flushed' = Flushed
  BY <1>1, <1>3, NextBorders DEF AtEvents, AtBridge, AtForward, Flushed
<1>5. QED  BY <1>1, <1>2, <1>3, <1>4 DEF IOrder

LEMMA PublishOrder ==
    ASSUME TypeOK, IOrder, Publish
    PROVE  IOrder' /\ Flushed' = Flushed
<1>1. /\ hand' = <<>> /\ events' = events \o hand
      /\ UNCHANGED <<received, bridge, forwardEvents, Unsent>>
  BY DEF Publish, PublishInto, Unsent
<1>2. /\ AtEvents \in Nat /\ AtHand = AtEvents + Len(events) /\ received = AtHand + Len(hand)
      /\ events \in Seq(Nat) /\ hand \in Seq(Nat) /\ Len(events) \in Nat /\ Len(hand) \in Nat
      /\ CountsFrom(AtEvents, events)
  BY Borders, Lengths DEF TypeOK, IOrder
<1>3. CountsFrom(AtEvents + Len(events), hand)  BY <1>2 DEF IOrder
<1>4. /\ CountsFrom(AtEvents, events \o hand) /\ Len(events \o hand) = Len(events) + Len(hand)
  BY ONLY <1>2, <1>3, CountsConcat
<1>5. AtHand' = received
  BY <1>1, Lengths, EmptySeq, NextBorders
<1>6. AtEvents' = AtEvents
  <2>1. AtEvents' = received - (Len(events) + Len(hand))  BY <1>1, <1>4, <1>5, NextBorders
  <2>2. QED  BY ONLY <1>2, <2>1
<1>7. AtBridge' = AtBridge /\ AtForward' = AtForward /\ Flushed' = Flushed
  BY <1>1, <1>6, NextBorders DEF AtBridge, AtForward, Flushed
<1>8. QED  BY <1>1, <1>4, <1>6, <1>7, CountsEmpty DEF IOrder

LEMMA BridgeReceiveOrder ==
    ASSUME TypeOK, IOrder, BridgeReceive
    PROVE  IOrder' /\ Flushed' = Flushed
<1>1. /\ bridge = <<>> /\ events # <<>> /\ bridge' = <<Head(events)>> /\ events' = Tail(events)
      /\ UNCHANGED <<received, hand, forwardEvents, Unsent>>
  BY DEF BridgeReceive, Unsent
<1>2. /\ AtEvents \in Nat /\ AtHand = AtEvents + Len(events) /\ AtEvents = AtBridge + Len(bridge)
      /\ AtBridge \in Nat /\ events \in Seq(Nat) /\ Len(events) \in Nat
      /\ CountsFrom(AtEvents, events)
  BY Borders, Lengths DEF TypeOK, IOrder
<1>3. /\ Head(events) = AtEvents + 1 /\ CountsFrom(AtEvents + 1, Tail(events))
      /\ Len(Tail(events)) = Len(events) - 1
  BY ONLY <1>1, <1>2, CountsTail
<1>4. CountsFrom(AtEvents, bridge') /\ Len(bridge') = 1
  <2>1. CountsFrom(AtEvents, <<AtEvents + 1>>) /\ Len(<<AtEvents + 1>>) = 1
    BY ONLY <1>2, CountsOne
  <2>2. QED  BY <1>1, <1>3, <2>1
<1>5. AtHand' = AtHand  BY <1>1, NextBorders DEF AtHand
<1>6. AtEvents' = AtEvents + 1
  <2>1. AtEvents' = AtHand - (Len(events) - 1)  BY <1>1, <1>3, <1>5, NextBorders
  <2>2. QED  BY ONLY <1>2, <2>1
<1>7. AtBridge' = AtBridge /\ AtBridge = AtEvents
  <2>1. Len(bridge) = 0  BY <1>1, EmptySeq
  <2>2. AtBridge' = AtEvents' - 1  BY <1>4, NextBorders
  <2>3. QED  BY ONLY <1>2, <1>6, <2>1, <2>2
<1>8. AtForward' = AtForward /\ Flushed' = Flushed
  BY <1>1, <1>7, NextBorders DEF AtForward, Flushed
<1>9. QED  BY <1>1, <1>3, <1>4, <1>5, <1>6, <1>7, <1>8 DEF IOrder

LEMMA BridgeSendOrder ==
    ASSUME TypeOK, IOrder, BridgeSend
    PROVE  IOrder' /\ Flushed' = Flushed
<1>1. /\ bridge' = <<>> /\ forwardEvents' = forwardEvents \o bridge
      /\ UNCHANGED <<received, hand, events, Unsent>>
  BY DEF BridgeSend, Unsent
<1>2. /\ AtForward \in Nat /\ AtBridge = AtForward + Len(forwardEvents)
      /\ AtEvents = AtBridge + Len(bridge)
      /\ forwardEvents \in Seq(Nat) /\ bridge \in Seq(Nat)
      /\ Len(forwardEvents) \in Nat /\ Len(bridge) \in Nat
      /\ CountsFrom(AtForward, forwardEvents)
  BY Borders, Lengths DEF TypeOK, IOrder
<1>3. CountsFrom(AtForward + Len(forwardEvents), bridge)  BY <1>2 DEF IOrder
<1>4. /\ CountsFrom(AtForward, forwardEvents \o bridge)
      /\ Len(forwardEvents \o bridge) = Len(forwardEvents) + Len(bridge)
  BY ONLY <1>2, <1>3, CountsConcat
<1>5. AtHand' = AtHand /\ AtEvents' = AtEvents  BY <1>1, NextBorders DEF AtHand, AtEvents
<1>6. AtBridge' = AtEvents
  <2>1. Len(bridge') = 0  BY <1>1, EmptySeq
  <2>2. AtEvents \in Nat  BY Borders
  <2>3. AtBridge' = AtEvents - 0  BY <1>5, <2>1, NextBorders
  <2>4. QED  BY ONLY <2>2, <2>3
<1>7. AtForward' = AtForward
  <2>1. AtForward' = AtEvents - (Len(forwardEvents) + Len(bridge))
    BY <1>1, <1>4, <1>6, NextBorders
  <2>2. QED  BY ONLY <1>2, <2>1
<1>8. Flushed' = Flushed  BY <1>1, <1>7, NextBorders DEF Flushed
<1>9. QED  BY <1>1, <1>4, <1>5, <1>7, <1>8, CountsEmpty DEF IOrder

\* A step that flushes b, the oldest of what is not flushed yet.
Flushes(b) ==
    CountsFrom(Flushed, b) /\ Flushed' = Flushed + Len(b) /\ FlushOf(b)

LEMMA ForwarderReceiveOrder ==
    ASSUME TypeOK, IOrder, ForwarderReceive
    PROVE  /\ IOrder'
           /\ \/ Flushed' = Flushed /\ requests' = requests /\ dropped' = dropped
              \/ \E b \in Seq(Nat) : Flushes(b)
<1> DEFINE longer == Append(batch, Head(forwardEvents))
<1>1. /\ forwarder = "select" /\ forwardEvents # <<>> /\ forwardEvents' = Tail(forwardEvents)
      /\ IF Len(longer) >= BatchSize THEN Flush(longer, "select")
         ELSE batch' = longer /\ UNCHANGED <<forwarder, requests, dropped>>
      /\ UNCHANGED <<received, hand, events, bridge>>
  BY DEF ForwarderReceive
<1>2. Unsent = batch  BY <1>1 DEF Unsent
<1>3. /\ Flushed \in Nat /\ AtForward \in Nat /\ AtForward = Flushed + Len(batch)
      /\ AtBridge = AtForward + Len(forwardEvents)
      /\ batch \in Seq(Nat) /\ forwardEvents \in Seq(Nat)
      /\ Len(batch) \in Nat /\ Len(forwardEvents) \in Nat
      /\ CountsFrom(Flushed, batch) /\ CountsFrom(AtForward, forwardEvents)
  BY <1>2, Borders, Lengths DEF TypeOK, IOrder
<1>4. /\ Head(forwardEvents) = AtForward + 1 /\ CountsFrom(AtForward + 1, Tail(forwardEvents))
      /\ Len(Tail(forwardEvents)) = Len(forwardEvents) - 1
  BY ONLY <1>1, <1>3, CountsTail
<1>5. CountsFrom(Flushed, longer) /\ longer \in Seq(Nat) /\ Len(longer) = Len(batch) + 1
  <2>1. Head(forwardEvents) = Flushed + Len(batch) + 1  BY ONLY <1>3, <1>4
  <2>2. QED  BY ONLY <1>3, <2>1, CountsAppend
<1> HIDE DEF longer
<1>6. AtHand' = AtHand /\ AtEvents' = AtEvents /\ AtBridge' = AtBridge
  BY <1>1, NextBorders DEF AtHand, AtEvents, AtBridge
<1>7. AtForward' = AtForward + 1 /\ CountsFrom(AtForward', forwardEvents')
  <2>1. AtForward' = AtBridge - (Len(forwardEvents) - 1)  BY <1>1, <1>4, <1>6, NextBorders
  <2>2. AtForward' = AtForward + 1  BY ONLY <1>3, <2>1
  <2>3. QED  BY <1>1, <1>4, <2>2
<1>8. CASE Len(longer) >= BatchSize
  <2>1. FlushOf(longer)  BY <1>1, <1>5, <1>8, FlushEffect
  <2>2. Unsent' = <<>> /\ Len(Unsent') = 0  BY <2>1, EmptySeq DEF FlushOf
  <2>3. Flushed' = Flushed + Len(longer)
    <3>1. Flushed' = (AtForward + 1) - 0  BY <1>7, <2>2, NextBorders
    <3>2. QED  BY ONLY <1>3, <1>5, <3>1
  <2>4. Flushed' \in Nat  BY <1>3, <1>5, <2>3
  <2>5. IOrder'  BY <1>1, <1>6, <1>7, <2>2, <2>4, CountsEmpty DEF IOrder
  <2>6. QED  BY <1>5, <2>1, <2>3, <2>5 DEF Flushes
<1>9. CASE ~(Len(longer) >= BatchSize)
  <2>1. batch' = longer /\ UNCHANGED <<forwarder, requests, dropped>>  BY <1>1, <1>9
  <2>2. Unsent' = longer  BY <1>1, <2>1 DEF Unsent
  <2>3. Flushed' = Flushed
    <3>1. Flushed' = (AtForward + 1) - (Len(batch) + 1)  BY <1>5, <1>7, <2>2, NextBorders
    <3>2. QED  BY ONLY <1>3, <3>1
  <2>4. IOrder'  BY <1>1, <1>3, <1>5, <1>6, <1>7, <2>2, <2>3 DEF IOrder
  <2>5. QED  BY <2>1, <2>3, <2>4
<1>10. QED  BY <1>8, <1>9

\* The tick and the end of the forwarder flush the batch.
LEMMA FlushOrder ==
    ASSUME TypeOK, IOrder, ForwarderTick \/ ForwarderStops
    PROVE  IOrder' /\ Flushes(batch)
<1>1. /\ forwarder = "select" /\ UNCHANGED <<received, hand, events, bridge, forwardEvents>>
      /\ batch \in Seq(Nat)
      /\ \E otherwise \in {"select", "returned"} : Flush(batch, otherwise)
  BY DEF ForwarderTick, FlushOnTick, ForwarderStops, TypeOK
<1>2. FlushOf(batch)  BY <1>1, FlushEffect
<1>3. Unsent = batch /\ Unsent' = <<>> /\ Len(Unsent') = 0
  BY <1>1, <1>2, EmptySeq DEF Unsent, FlushOf
<1>4. /\ AtHand' = AtHand /\ AtEvents' = AtEvents /\ AtBridge' = AtBridge
      /\ AtForward' = AtForward
  BY <1>1, NextBorders DEF AtHand, AtEvents, AtBridge, AtForward
<1>5. /\ Flushed \in Nat /\ AtForward \in Nat /\ AtForward = Flushed + Len(batch)
      /\ CountsFrom(Flushed, batch)
  BY <1>3, Borders DEF IOrder
<1>6. Flushed' = Flushed + Len(batch) /\ Flushed' \in Nat
  <2>1. Flushed' = AtForward - 0  BY <1>3, <1>4, NextBorders
  <2>2. QED  BY <1>5, <2>1
<1>7. IOrder'  BY <1>1, <1>3, <1>4, <1>6, CountsEmpty DEF IOrder
<1>8. QED  BY <1>2, <1>5, <1>6, <1>7 DEF Flushes

\* A send that returns leaves an empty batch behind, and held none before.
LEMMA SendReturnsOrder ==
    ASSUME TypeOK, IOrder, SendReturns
    PROVE  IOrder' /\ Flushed' = Flushed
<1>1. /\ Unsent = <<>> /\ Unsent' = <<>>
      /\ UNCHANGED <<received, hand, events, bridge, forwardEvents>>
  BY DEF SendReturns, ResumeWith, Unsent
<1>2. QED  BY <1>1, NextBorders DEF IOrder, AtHand, AtEvents, AtBridge, AtForward, Flushed

\* Nobody else touches the pipeline.
LEMMA WhoTouchesPipeline ==
    [Next]_vars => \/ Receive \/ Publish \/ BridgeReceive \/ BridgeSend
                   \/ ForwarderReceive \/ ForwarderTick \/ ForwarderStops \/ SendReturns
                   \/ UNCHANGED <<received, hand, events, bridge, forwardEvents, Unsent>>
BY DEF Next, Collect, Bridge, Forward, Service, vars, sides, Unsent, Interrupt, Tick,
       CollectorReturns, CollectorReturnsFrom, Exit, ServiceStores, ServiceFails

\* Nor do requests, store and dropped change but by a flush or the service.
LEMMA WhoTouchesFates ==
    [Next]_vars => \/ ForwarderReceive \/ ForwarderTick \/ ForwarderStops
                   \/ ServiceStores \/ ServiceFails
                   \/ UNCHANGED <<requests, stored, dropped>>
BY DEF Next, Collect, Bridge, Forward, Service, vars, Interrupt, Tick, Receive, Publish,
       PublishInto, BridgeReceive, BridgeSend, SendReturns, ResumeWith,
       CollectorReturns, CollectorReturnsFrom, Exit

LEMMA OrderStep ==
    ASSUME TypeOK, IOrder, [Next]_vars
    PROVE  IOrder' /\ (Flushed' = Flushed \/ ForwarderReceive \/ ForwarderTick \/ ForwarderStops)
<1>1. CASE UNCHANGED <<received, hand, events, bridge, forwardEvents, Unsent>>
  BY <1>1, NextBorders DEF IOrder, AtHand, AtEvents, AtBridge, AtForward, Flushed
<1>2. QED
  BY <1>1, WhoTouchesPipeline, ReceiveOrder, PublishOrder, BridgeReceiveOrder, BridgeSendOrder,
     ForwarderReceiveOrder, FlushOrder, SendReturnsOrder

\* Through three queues and four goroutines no packet is lost, repeated or
\* overtaken before it is flushed (cmd/agent/main.go:25-31).
THEOREM Ordered == Spec => []PipelineInOrder
<1>1. Init => TypeOK /\ IOrder  BY TypeInit, OrderInit
<1>2. TypeOK /\ IOrder /\ [Next]_vars => TypeOK' /\ IOrder'  BY TypeStep, OrderStep
<1>3. TypeOK /\ IOrder => PipelineInOrder  BY PiecesInOrder
<1>4. QED  BY <1>1, <1>2, <1>3, PTL DEF Spec

-----------------------------------------------------------------------------
(***************************************************************************)
(* The fate of a flushed event.  IFate is ExactlyOneFate in terms of        *)
(* Flushed, and that a request holds no event twice, without which storing  *)
(* it would.                                                                *)
(***************************************************************************)
IFate ==
    /\ \A r \in requests : Distinct(r)
    /\ Distinct(stored)
    /\ \A r, q \in requests : r # q => Range(r) \intersect Range(q) = {}
    /\ InRequests \union Range(stored) \union dropped = 1 .. Flushed
    /\ InRequests \intersect Range(stored) = {}
    /\ InRequests \intersect dropped = {}
    /\ Range(stored) \intersect dropped = {}

\* A request cut in two: what is stored of it, and the rest.
LEMMA CutInTwo ==
    ASSUME NEW r \in Seq(Nat), NEW n \in Nat, n < Len(r), Distinct(r)
    PROVE  LET p == SubSeq(r, 1, n)
               q == SubSeq(r, n + 1, Len(r))
           IN  /\ p \in Seq(Nat) /\ q \in Seq(Nat) /\ Distinct(p)
               /\ Range(p) \union Range(q) = Range(r) /\ Range(p) \intersect Range(q) = {}
<1> DEFINE p == SubSeq(r, 1, n)
           q == SubSeq(r, n + 1, Len(r))
<1>1. Len(r) \in Nat /\ DOMAIN r = 1 .. Len(r)  BY LenProperties
<1>2. (\A i \in 1 .. n : r[i] \in Nat) /\ (\A i \in n + 1 .. Len(r) : r[i] \in Nat)
  BY <1>1, ElementOfSeq
<1>3. p \in Seq(Nat) /\ Len(p) = n /\ \A i \in 1 .. n : p[i] = r[i]
  BY <1>2, SubSeqProperties
<1>4. /\ q \in Seq(Nat) /\ Len(q) = Len(r) - n
      /\ \A i \in 1 .. Len(r) - n : q[i] = r[n + i]
  <2>1. n + 1 \in Int /\ Len(r) \in Int /\ n + 1 <= Len(r)  BY <1>1
  <2>2. /\ q \in Seq(Nat) /\ Len(q) = Len(r) - (n + 1) + 1
        /\ \A i \in 1 .. Len(r) - (n + 1) + 1 : q[i] = r[n + 1 + i - 1]
    BY <1>2, <2>1, SubSeqProperties
  <2>3. Len(r) - (n + 1) + 1 = Len(r) - n  BY <1>1
  <2>4. \A i \in 1 .. Len(r) - n : n + 1 + i - 1 = n + i  BY <1>1
  <2>5. QED  BY <2>2, <2>3, <2>4
<1>5. DOMAIN p = 1 .. n /\ DOMAIN q = 1 .. Len(r) - n  BY <1>3, <1>4, LenProperties
<1> HIDE DEF p, q
<1>6. Distinct(p)  BY <1>1, <1>3, <1>5 DEF Distinct
<1>7. Range(p) \subseteq Range(r)  BY <1>1, <1>3, <1>5 DEF Range
<1>8. Range(q) \subseteq Range(r)
  <2>1. \A i \in DOMAIN q : n + i \in DOMAIN r  BY <1>1, <1>5
  <2>2. QED  BY <1>4, <1>5, <2>1 DEF Range
<1>9. Range(r) \subseteq Range(p) \union Range(q)
  <2>1. ASSUME NEW i \in DOMAIN r  PROVE r[i] \in Range(p) \union Range(q)
    <3>1. CASE i <= n
      <4>1. i \in DOMAIN p /\ p[i] = r[i]  BY <1>1, <1>3, <1>5, <3>1
      <4>2. QED  BY <4>1 DEF Range
    <3>2. CASE ~(i <= n)
      <4>1. i - n \in DOMAIN q /\ n + (i - n) = i  BY <1>1, <1>5, <3>2
      <4>2. q[i - n] = r[i]  BY <1>4, <1>5, <4>1
      <4>3. QED  BY <4>1, <4>2 DEF Range
    <3>3. QED  BY <3>1, <3>2
  <2>2. QED  BY <2>1 DEF Range
<1>10. Range(p) \intersect Range(q) = {}
  <2>1. ASSUME NEW i \in DOMAIN p, NEW j \in DOMAIN q  PROVE p[i] # q[j]
    <3>1. i \in DOMAIN r /\ n + j \in DOMAIN r /\ i # n + j  BY <1>1, <1>5
    <3>2. p[i] = r[i] /\ q[j] = r[n + j]  BY <1>3, <1>4, <1>5
    <3>3. QED  BY <3>1, <3>2 DEF Distinct
  <2>2. QED  BY <2>1 DEF Range
<1>11. QED  BY <1>3, <1>4, <1>6, <1>7, <1>8, <1>9, <1>10 DEF p, q

LEMMA FateInit == Init => IFate
<1> SUFFICES ASSUME Init  PROVE IFate
  OBVIOUS
<1>1. requests = {} /\ stored = <<>> /\ dropped = {} /\ received = 0  BY DEF Init
<1>2. Range(stored) = {} /\ Distinct(stored) /\ InRequests = {}
  BY <1>1 DEF Range, Distinct, InRequests
<1>3. Flushed = 0
  <2>1. /\ Len(hand) = 0 /\ Len(events) = 0 /\ Len(bridge) = 0 /\ Len(forwardEvents) = 0
        /\ Len(Unsent) = 0
    <3>1. /\ hand = <<>> /\ events = <<>> /\ bridge = <<>> /\ forwardEvents = <<>>
          /\ Unsent = <<>>
      BY DEF Init, Unsent
    <3>2. QED  BY ONLY <3>1, EmptySeq
  <2>2. received = 0 /\ AtHand = received - Len(hand) /\ AtEvents = AtHand - Len(events)
    BY <1>1 DEF AtHand, AtEvents
  <2>3. /\ AtBridge = AtEvents - Len(bridge) /\ AtForward = AtBridge - Len(forwardEvents)
        /\ Flushed = AtForward - Len(Unsent)
    BY DEF AtBridge, AtForward, Flushed
  <2>4. QED  BY ONLY <2>1, <2>2, <2>3
<1>4. QED  BY <1>1, <1>2, <1>3 DEF IFate

\* A flush adds the next events, which have no fate yet.
LEMMA FlushFate ==
    ASSUME TypeOK, IOrder, IFate, NEW b \in Seq(Nat), Flushes(b), stored' = stored
    PROVE  IFate'
<1>1. Flushed \in Nat /\ Len(b) \in Nat /\ Flushed' = Flushed + Len(b) /\ CountsFrom(Flushed, b)
  BY LenProperties DEF IOrder, Flushes
<1>2. Range(b) = Flushed + 1 .. Flushed + Len(b)  BY ONLY <1>1, CountsRange
<1>3. Distinct(b)  BY ONLY <1>1, CountsDistinct
<1>4. 1 .. Flushed' = (1 .. Flushed) \union Range(b) /\ (1 .. Flushed) \intersect Range(b) = {}
  BY ONLY <1>1, <1>2
<1>5. /\ InRequests \intersect Range(b) = {} /\ Range(stored) \intersect Range(b) = {}
      /\ dropped \intersect Range(b) = {}
  BY <1>4 DEF IFate
<1>6. CASE requests' = requests \union {b} /\ dropped' = dropped
  <2>1. InRequests' = InRequests \union Range(b)  BY <1>6 DEF InRequests
  <2>2. \A r \in requests' : Distinct(r)  BY <1>3, <1>6 DEF IFate
  <2>3. \A r \in requests : Range(r) \subseteq InRequests  BY DEF InRequests
  <2>4. \A r, q \in requests' : r # q => Range(r) \intersect Range(q) = {}
    <3>1. ASSUME NEW r \in requests', NEW q \in requests', r # q
          PROVE  Range(r) \intersect Range(q) = {}
      <4>1. CASE r \in requests /\ q \in requests  BY <3>1, <4>1 DEF IFate
      <4>2. CASE r \in requests /\ q = b  BY <1>5, <2>3, <4>2
      <4>3. CASE r = b /\ q \in requests  BY <1>5, <2>3, <4>3
      <4>4. QED  BY <1>6, <3>1, <4>1, <4>2, <4>3
    <3>2. QED  BY <3>1
  <2>5. /\ Distinct(stored')
        /\ InRequests' \union Range(stored') \union dropped' = 1 .. Flushed'
        /\ InRequests' \intersect Range(stored') = {} /\ InRequests' \intersect dropped' = {}
        /\ Range(stored') \intersect dropped' = {}
    BY <1>4, <1>5, <1>6, <2>1 DEF IFate
  <2>6. QED  BY <2>2, <2>4, <2>5 DEF IFate
<1>7. CASE requests' = requests /\ dropped' = dropped \union Range(b)
  <2>1. InRequests' = InRequests  BY <1>7 DEF InRequests
  <2>2. QED  BY <1>4, <1>5, <1>7, <2>1 DEF IFate
<1>8. QED  BY <1>6, <1>7 DEF Flushes, FlushOf

\* The service ends with a request: p of it is stored, and D dropped.
LEMMA ServiceFate ==
    ASSUME TypeOK, IFate, NEW r \in requests, NEW p \in Seq(Nat), Distinct(p), NEW D,
           Range(p) \union D = Range(r), Range(p) \intersect D = {},
           stored' = stored \o p, dropped' = dropped \union D, requests' = requests \ {r},
           Flushed' = Flushed
    PROVE  IFate'
<1>1. Range(r) \subseteq InRequests  BY DEF InRequests
<1>2. InRequests' = InRequests \ Range(r)
  <2>1. \A q \in requests' : Range(q) \subseteq InRequests \ Range(r)
    BY DEF IFate, InRequests
  <2>2. \A q \in requests : q = r \/ q \in requests'  OBVIOUS
  <2>3. QED  BY <2>1, <2>2 DEF InRequests
<1>3. Range(stored') = Range(stored) \union Range(p)
  BY RangeConcatenation DEF TypeOK
<1>4. Distinct(stored')
  <2>1. Range(stored) \intersect Range(p) = {}  BY <1>1 DEF IFate
  <2>2. stored \in Seq(Nat) /\ Distinct(stored)  BY DEF TypeOK, IFate
  <2>3. Distinct(stored \o p)  BY <2>1, <2>2, DistinctConcat
  <2>4. QED  BY <2>3
<1>5. InRequests' \union Range(stored') \union dropped' = 1 .. Flushed'
  BY <1>1, <1>2, <1>3 DEF IFate
<1>6. /\ InRequests' \intersect Range(stored') = {} /\ InRequests' \intersect dropped' = {}
      /\ Range(stored') \intersect dropped' = {}
  BY <1>1, <1>2, <1>3 DEF IFate
<1>7. /\ \A q \in requests' : Distinct(q)
      /\ \A q, u \in requests' : q # u => Range(q) \intersect Range(u) = {}
  BY DEF IFate
<1>8. QED  BY <1>4, <1>5, <1>6, <1>7 DEF IFate

LEMMA FateStep ==
    ASSUME TypeOK, IOrder, IFate, [Next]_vars
    PROVE  IFate'
<1>1. CASE ForwarderReceive
  <2>1. stored' = stored  BY <1>1 DEF ForwarderReceive
  <2>2. CASE Flushed' = Flushed /\ requests' = requests /\ dropped' = dropped
    BY <2>1, <2>2 DEF IFate, InRequests
  <2>3. CASE \E b \in Seq(Nat) : Flushes(b)  BY <2>1, <2>3, FlushFate
  <2>4. QED  BY <1>1, <2>2, <2>3, ForwarderReceiveOrder
<1>2. CASE ForwarderTick \/ ForwarderStops
  <2>1. stored' = stored /\ batch \in Seq(Nat)
    BY <1>2 DEF ForwarderTick, FlushOnTick, ForwarderStops, TypeOK
  <2>2. Flushes(batch)  BY <1>2, FlushOrder
  <2>3. QED  BY <2>1, <2>2, FlushFate
<1>3. CASE ~(ForwarderReceive \/ ForwarderTick \/ ForwarderStops)
  <2>0. Flushed' = Flushed  BY <1>3, OrderStep
  <2>1. CASE ServiceStores
    <3>1. PICK r \in requests : stored' = stored \o r /\ requests' = requests \ {r}
      BY <2>1 DEF ServiceStores
    <3>2. dropped' = dropped \union {}  BY <2>1 DEF ServiceStores
    <3>3. r \in Seq(Nat) /\ Distinct(r)  BY DEF TypeOK, IFate
    <3>4. Range(r) \union {} = Range(r) /\ Range(r) \intersect {} = {}  OBVIOUS
    <3>5. QED  BY <2>0, <3>1, <3>2, <3>3, <3>4, ServiceFate
  <2>2. CASE ServiceFails
    <3>1. PICK r \in requests, n \in 0 .. BatchSize - 1 :
              /\ n < Len(r)
              /\ stored' = stored \o SubSeq(r, 1, n)
              /\ dropped' = dropped \union Range(SubSeq(r, n + 1, Len(r)))
              /\ requests' = requests \ {r}
      BY <2>2 DEF ServiceFails
    <3>2. r \in Seq(Nat) /\ n \in Nat /\ Distinct(r)  BY <3>1, SizesAssumption DEF TypeOK, IFate
    <3>3. LET p == SubSeq(r, 1, n)
              q == SubSeq(r, n + 1, Len(r))
          IN  /\ p \in Seq(Nat) /\ Distinct(p)
              /\ Range(p) \union Range(q) = Range(r) /\ Range(p) \intersect Range(q) = {}
      BY <3>1, <3>2, CutInTwo
    <3>4. QED  BY <2>0, <3>1, <3>3, ServiceFate
  <2>3. CASE UNCHANGED <<requests, stored, dropped>>
    BY <2>0, <2>3 DEF IFate, InRequests
  <2>4. QED  BY <1>3, <2>1, <2>2, <2>3, WhoTouchesFates
<1>4. QED  BY <1>1, <1>2, <1>3

IInv == TypeOK /\ IOrder /\ IFate

\* A packet that left the pipeline is in one place only, the store included at
\* most once, whatever sends time out, fail or are late
\* (internal/forwarder/http.go:57-85).
THEOREM OneFate == Spec => []ExactlyOneFate
<1>1. Init => IInv  BY TypeInit, OrderInit, FateInit DEF IInv
<1>2. IInv /\ [Next]_vars => IInv'  BY TypeStep, OrderStep, FateStep DEF IInv
<1>3. IInv => ExactlyOneFate
  <2> SUFFICES ASSUME IInv  PROVE ExactlyOneFate
    OBVIOUS
  <2>1. received - Len(Pipeline) = Flushed  BY PiecesInOrder DEF IInv
  <2>2. QED  BY <2>1 DEF IInv, IFate, ExactlyOneFate, Distinct
<1>4. QED  BY <1>1, <1>2, <1>3, PTL DEF Spec
=============================================================================
