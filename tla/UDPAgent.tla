------------------------------ MODULE UDPAgent ------------------------------
(***************************************************************************)
(* The standalone agent: the UDP collector, the bridge goroutine of main,  *)
(* and the HTTP forwarder, joined by two bounded channels.  The process    *)
(* ends as soon as the collector returns.  The forwarder clears its batch  *)
(* after every flush, sent or not.                                         *)
(*                                                                         *)
(* An event is the number of its packet among those that decode: a packet  *)
(* that does not decode, or a failed read, only brings the collector back  *)
(* to its read.  Definitions marked "variant" are wrong forms that no      *)
(* action uses.                                                            *)
(***************************************************************************)
EXTENDS Integers, Sequences, Functions, Counting

CONSTANTS
    BatchSize,    \* AGENT_BATCH_SIZE
    ChanSize,     \* capacity of events and of forwardEvents (1000 in main)
    Invalid,      \* events Validate refuses
    MaxPackets    \* bound: packets that decode

ASSUME SizesAssumption ==
    BatchSize \in Nat \ {0} /\ ChanSize \in Nat \ {0} /\ MaxPackets \in Nat

VARIABLES
    running,        \* the process is alive
    cancelled,      \* SIGINT arrived: ctx is cancelled
    collector,      \* where the collector is
    hand,           \* the decoded event it is publishing
    events,         \* channel from the collector to the bridge
    bridge,         \* the event the bridge is passing on
    forwardEvents,  \* channel from the bridge to the forwarder
    forwarder,      \* where the forwarder is
    batch,          \* its batch
    tick,           \* its ticker holds a tick
    received,       \* packets decoded so far
    requests,       \* batches posted that the service has not finished with
    stored,         \* events in the order the service appended them
    dropped         \* events of sends that failed

sides == <<hand, events, bridge, forwardEvents, batch>>
vars  == <<running, cancelled, collector, forwarder, tick, sides,
           received, requests, stored, dropped>>

Init ==
    /\ running = TRUE /\ cancelled = FALSE
    /\ collector = "reading" /\ forwarder = "select" /\ tick = FALSE
    /\ hand = <<>> /\ events = <<>> /\ bridge = <<>> /\ forwardEvents = <<>> /\ batch = <<>>
    /\ received = 0 /\ requests = {} /\ stored = <<>> /\ dropped = {}

Interrupt ==
    /\ running /\ ~cancelled
    /\ cancelled' = TRUE
    /\ UNCHANGED <<running, collector, forwarder, tick, sides, received, requests, stored, dropped>>

-----------------------------------------------------------------------------
(* Collector. *)

Receive ==
    /\ running /\ collector = "reading"
    /\ received < MaxPackets
    /\ received' = received + 1
    /\ hand' = <<received + 1>>
    /\ collector' = "publishing"
    /\ UNCHANGED <<running, cancelled, forwarder, tick, events, bridge, forwardEvents, batch,
                   requests, stored, dropped>>

\* The event goes into the channel, which is es from now on.
PublishInto(es) ==
    /\ running /\ collector = "publishing"
    /\ events' = es
    /\ hand' = <<>>
    /\ collector' = "reading"
    /\ UNCHANGED <<running, cancelled, forwarder, tick, bridge, forwardEvents, batch,
                   received, requests, stored, dropped>>

\* Variants: a publication that does not wait for room, and overfills the
\* channel or discards the event.
PublishUnbounded == PublishInto(events \o hand)
PublishOrDiscard == PublishInto(IF Len(events) < ChanSize THEN events \o hand ELSE events)

\* out <- event blocks while the channel is full.
Publish == Len(events) < ChanSize /\ PublishInto(events \o hand)

CollectorReturnsFrom(states) ==
    /\ running /\ cancelled
    /\ collector \in states
    /\ collector' = "returned"
    /\ UNCHANGED <<running, cancelled, forwarder, tick, sides, received, requests, stored, dropped>>

\* Variant: the publication does not watch ctx.
CollectorReturnsFromRead == CollectorReturnsFrom({"reading"})

\* Either ReadFrom fails on the closed socket, or the select takes ctx.Done().
CollectorReturns == CollectorReturnsFrom({"reading", "publishing"})

\* main returns: every goroutine ends where it is.
Exit ==
    /\ running /\ collector = "returned"
    /\ running' = FALSE
    /\ UNCHANGED <<cancelled, collector, forwarder, tick, sides, received, requests, stored, dropped>>

-----------------------------------------------------------------------------
(* Bridge: receives, then blocks until forwardEvents has room. *)

BridgeReceive ==
    /\ running /\ bridge = <<>> /\ events # <<>>
    /\ bridge' = <<Head(events)>>
    /\ events' = Tail(events)
    /\ UNCHANGED <<running, cancelled, collector, forwarder, tick, hand, forwardEvents, batch,
                   received, requests, stored, dropped>>

BridgeSend ==
    /\ running /\ bridge # <<>> /\ Len(forwardEvents) < ChanSize
    /\ forwardEvents' = forwardEvents \o bridge
    /\ bridge' = <<>>
    /\ UNCHANGED <<running, cancelled, collector, forwarder, tick, hand, events, batch,
                   received, requests, stored, dropped>>

-----------------------------------------------------------------------------
(* Forwarder. *)

\* flush() of batch b, then state otherwise.  With ctx cancelled the client
\* fails before it sends, and the batch is cleared all the same.
Flush(b, otherwise) ==
    IF b = <<>>
    THEN batch' = b /\ forwarder' = otherwise /\ UNCHANGED <<requests, dropped>>
    ELSE IF cancelled
         THEN /\ batch' = <<>> /\ forwarder' = otherwise
              /\ dropped' = dropped \union Range(b)
              /\ UNCHANGED requests
         ELSE /\ batch' = b /\ forwarder' = "sending"
              /\ requests' = requests \union {b}
              /\ UNCHANGED dropped

ForwarderReceive ==
    /\ running /\ forwarder = "select" /\ forwardEvents # <<>>
    /\ forwardEvents' = Tail(forwardEvents)
    /\ LET longer == Append(batch, Head(forwardEvents))
       IN  IF Len(longer) >= BatchSize
           THEN Flush(longer, "select")
           ELSE batch' = longer /\ UNCHANGED <<forwarder, requests, dropped>>
    /\ UNCHANGED <<running, cancelled, collector, tick, hand, events, bridge, received, stored>>

Tick ==
    /\ running /\ ~tick /\ forwarder # "returned"
    /\ tick' = TRUE
    /\ UNCHANGED <<running, cancelled, collector, forwarder, sides, received, requests, stored, dropped>>

FlushOnTick(b) ==
    /\ running /\ forwarder = "select" /\ tick
    /\ tick' = FALSE
    /\ Flush(b, "select")
    /\ UNCHANGED <<running, cancelled, collector, hand, events, bridge, forwardEvents,
                   received, stored>>

\* Variant: a tick only flushes what is already a full batch.
ForwarderTickFull == FlushOnTick(IF Len(batch) >= BatchSize THEN batch ELSE <<>>)

ForwarderTick == FlushOnTick(batch)

\* The send returns, whatever its outcome, and leaves batch b.
ResumeWith(b) ==
    /\ running /\ forwarder = "sending"
    /\ forwarder' = "select"
    /\ batch' = b
    /\ UNCHANGED <<running, cancelled, collector, tick, hand, events, bridge, forwardEvents,
                   received, requests, stored, dropped>>

\* Variant: the batch is kept for another try.
SendReturnsKeeping == ResumeWith(batch)

\* The answer, an error, or the client's timeout while the service still has
\* the request: the outcome is only logged.
SendReturns == ResumeWith(<<>>)

ForwarderStops ==
    /\ running /\ forwarder = "select" /\ cancelled
    /\ Flush(batch, "returned")
    /\ UNCHANGED <<running, cancelled, collector, tick, hand, events, bridge, forwardEvents,
                   received, stored>>

-----------------------------------------------------------------------------
(* The service's end: all of a request, some of it, or none of it. *)

ServiceStores ==
    \E r \in requests :
        /\ Range(r) \intersect Invalid = {}
        /\ stored' = stored \o r
        /\ requests' = requests \ {r}
        /\ UNCHANGED <<running, cancelled, collector, forwarder, tick, sides, received, dropped>>

\* A write error part of the way, or before the first event (n = 0), an
\* invalid event in the batch, or a request that never arrives.
ServiceFails ==
    \E r \in requests, n \in 0 .. BatchSize - 1 :
        /\ n < Len(r)
        /\ Range(r) \intersect Invalid # {} => n = 0
        /\ stored' = stored \o SubSeq(r, 1, n)
        /\ dropped' = dropped \union Range(SubSeq(r, n + 1, Len(r)))
        /\ requests' = requests \ {r}
        /\ UNCHANGED <<running, cancelled, collector, forwarder, tick, sides, received>>

-----------------------------------------------------------------------------
Forward == ForwarderReceive \/ ForwarderTick \/ SendReturns \/ ForwarderStops
Collect == Publish \/ CollectorReturns \/ Exit
Bridge  == BridgeReceive \/ BridgeSend
Service == ServiceStores \/ ServiceFails

Next == Receive \/ Interrupt \/ Tick \/ Collect \/ Bridge \/ Forward \/ Service

Spec == Init /\ [][Next]_vars

\* Goroutines are scheduled, the ticker ticks, a request is answered or times
\* out, and select takes a case that is ready again and again.
Fairness ==
    /\ WF_vars(Collect) /\ WF_vars(Bridge) /\ WF_vars(Service) /\ WF_vars(Tick)
    /\ WF_vars(Forward) /\ SF_vars(ForwarderReceive) /\ SF_vars(ForwarderTick)
    /\ SF_vars(CollectorReturns)

FairSpec == Spec /\ Fairness

-----------------------------------------------------------------------------
(* Properties. *)

\* What the forwarder has not yet flushed, oldest first.
Unsent   == IF forwarder = "sending" THEN <<>> ELSE batch
Pipeline == Unsent \o forwardEvents \o bridge \o events \o hand

\* Backpressure: nothing along the pipeline grows past its limit.
TypeOK ==
    /\ running \in BOOLEAN /\ cancelled \in BOOLEAN /\ tick \in BOOLEAN
    /\ collector \in {"reading", "publishing", "returned"}
    /\ forwarder \in {"select", "sending", "returned"}
    /\ events \in Seq(Nat) /\ forwardEvents \in Seq(Nat)
    /\ Len(events) <= ChanSize /\ Len(forwardEvents) <= ChanSize
    /\ hand \in Seq(Nat) /\ Len(hand) <= 1 /\ (collector = "reading" => hand = <<>>)
    /\ bridge \in Seq(Nat) /\ Len(bridge) <= 1
    /\ batch \in Seq(Nat) /\ Len(batch) <= BatchSize
    /\ forwarder = "select" => Len(batch) < BatchSize
    /\ received \in Nat /\ requests \subseteq Seq(Nat)
    /\ stored \in Seq(Nat) /\ dropped \subseteq Nat

\* The unsent events are the newest packets, in the order they arrived.
PipelineInOrder == CountsFrom(received - Len(Pipeline), Pipeline)

InRequests == UNION {Range(r) : r \in requests}

\* At most once, whatever times out or fails: no event is stored twice, and
\* each one that left the pipeline is in exactly one of: a request the service
\* still has, the store, the dropped ones.
ExactlyOneFate ==
    /\ \A i, j \in DOMAIN stored : i # j => stored[i] # stored[j]
    /\ \A r, q \in requests : r # q => Range(r) \intersect Range(q) = {}
    /\ InRequests \union Range(stored) \union dropped = 1 .. received - Len(Pipeline)
    /\ InRequests \intersect Range(stored) = {}
    /\ InRequests \intersect dropped = {}
    /\ Range(stored) \intersect dropped = {}

\* Until the interrupt, every packet that decoded is eventually stored or
\* dropped by a failed send: backpressure never becomes a deadlock.
EventuallyDecided ==
    \A i \in 1 .. MaxPackets :
        received >= i ~> i \in Range(stored) \union dropped \/ cancelled

\* The interrupt ends the process, even with every channel full.
InterruptEnds == cancelled ~> ~running
=============================================================================
