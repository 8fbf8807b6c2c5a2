----------------------------- MODULE MetricAgent -----------------------------
(***************************************************************************)
(* The embeddable agent, agent/agent.go.  Workflows call Emit, which puts  *)
(* an event on a bounded channel without blocking.  One goroutine, Run,    *)
(* selects between that channel, a ticker, the done channel that Close     *)
(* closes, and ctx.Done(), gathers events in a batch and POSTs the batch   *)
(* to the service.  A failed POST keeps the batch for the next flush.      *)
(*                                                                         *)
(* An event is the number of its successful Emit: the k-th accepted event  *)
(* is k.  The service end of the POST is reduced to what it appends to its *)
(* store and to whether the agent learns about it.                         *)
(*                                                                         *)
(* A definition marked "variant" is a wrong form of the one that follows   *)
(* it; no action uses it.  It shows which property notices the mistake.    *)
(***************************************************************************)
EXTENDS Integers, Sequences, FiniteSets, Functions, Counting

CONSTANTS
    BatchSize,    \* config.BatchSize: a batch this long is flushed at once
    BufferSize,   \* config.BufferSize: capacity of the channel and of the retry batch
    Poison,       \* events the service will not take: json.Marshal or Validate fails
    MaxEvents,    \* bound: the number of events ever accepted
    MaxFaults     \* bound: sends whose effect the agent does not learn

ASSUME BatchSizeAssumption  == BatchSize  \in Nat \ {0}
ASSUME BufferSizeAssumption == BufferSize \in Nat \ {0}
ASSUME BoundsAssumption     == MaxEvents \in Nat /\ MaxFaults \in Nat

VARIABLES
    events,       \* a.events, the channel
    batch,        \* Run's batch
    pc,           \* where Run is
    request,      \* the state of the POST of batch while pc = "sending"
    tick,         \* ticker.C holds a tick
    done,         \* a.done is closed
    cancelled,    \* ctx is cancelled
    cause,        \* which of done and ctx made Run leave its loop
    stored,       \* events in the order the service appended them
    late,         \* requests the agent gave up while the service still had them
    faults,       \* how many sends ended without the agent knowing their effect
    accepted,     \* how many Emits returned nil
    overflowed,   \* events dropped as oldest of a full batch
    closedAt,     \* accepted at the first Close
    failing       \* the last send returned an error

agentVars   == <<events, batch, pc, request, tick, done, cancelled, cause>>
serviceVars == <<stored, late, faults>>
history     == <<accepted, overflowed, closedAt, failing>>
vars        == <<agentVars, serviceVars, history>>

Init ==
    /\ events = <<>> /\ batch = <<>>
    /\ pc = "new" /\ request = "none"
    /\ tick = FALSE /\ done = FALSE /\ cancelled = FALSE /\ cause = "none"
    /\ stored = <<>> /\ late = {} /\ faults = 0
    /\ accepted = 0 /\ overflowed = {} /\ closedAt = 0 /\ failing = FALSE

-----------------------------------------------------------------------------
(* The workflow's side. *)

\* Emit accepts while the channel has room, whatever state Run is in; when it
\* has none, Emit returns an error and changes nothing.
Emit ==
    /\ accepted < MaxEvents
    /\ Len(events) < BufferSize
    /\ accepted' = accepted + 1
    /\ events' = Append(events, accepted + 1)
    /\ UNCHANGED <<batch, pc, request, tick, done, cancelled, cause,
                   serviceVars, overflowed, closedAt, failing>>

Close ==
    /\ ~done
    /\ done' = TRUE
    /\ closedAt' = accepted
    /\ UNCHANGED <<events, batch, pc, request, tick, cancelled, cause,
                   serviceVars, accepted, overflowed, failing>>

CancelContext ==
    /\ ~cancelled
    /\ cancelled' = TRUE
    /\ UNCHANGED <<events, batch, pc, request, tick, done, cause, serviceVars, history>>

-----------------------------------------------------------------------------
(* Run's loop. *)

StartRun ==
    /\ pc = "new"
    /\ pc' = "select"
    /\ UNCHANGED <<events, batch, request, tick, done, cancelled, cause, serviceVars, history>>

\* time.NewTicker's channel holds one tick; Stop on return.
Tick ==
    /\ pc \notin {"new", "returned"}
    /\ ~tick
    /\ tick' = TRUE
    /\ UNCHANGED <<events, batch, pc, request, done, cancelled, cause, serviceVars, history>>

\* flush() with batch b: nothing to do when it is empty, else send(ctx, b).
\* net/http returns at once when ctx is already cancelled.
Flush(b, otherwise) ==
    IF b = <<>>
    THEN pc' = otherwise /\ request' = "none"
    ELSE pc' = "sending" /\ request' = (IF cancelled THEN "failed" ELSE "posted")

\* Variants: the limit is off by one, either way.
BoundedTooLate(b)  == IF Len(b) > BufferSize + 1 THEN Tail(b) ELSE b
BoundedTooEarly(b) == IF Len(b) >= BufferSize THEN Tail(b) ELSE b

\* The batch after an append: the oldest event goes when it is over BufferSize.
Bounded(b) == IF Len(b) > BufferSize THEN Tail(b) ELSE b

TakeEvent ==
    /\ pc = "select"
    /\ events # <<>>
    /\ events' = Tail(events)
    /\ LET longer == Append(batch, Head(events))
       IN  /\ batch' = Bounded(longer)
           /\ overflowed' = overflowed \union (Range(longer) \ Range(Bounded(longer)))
           /\ IF Len(Bounded(longer)) >= BatchSize
              THEN Flush(Bounded(longer), "select")
              ELSE UNCHANGED <<pc, request>>
    /\ UNCHANGED <<tick, done, cancelled, cause, serviceVars, accepted, closedAt, failing>>

\* Variant: a tick flushes only a full batch.
TakeTickForFullBatch ==
    /\ pc = "select"
    /\ tick
    /\ tick' = FALSE
    /\ IF Len(batch) >= BatchSize THEN Flush(batch, "select") ELSE UNCHANGED <<pc, request>>
    /\ UNCHANGED <<events, batch, done, cancelled, cause, serviceVars, history>>

TakeTick ==
    /\ pc = "select"
    /\ tick
    /\ tick' = FALSE
    /\ Flush(batch, "select")
    /\ UNCHANGED <<events, batch, done, cancelled, cause, serviceVars, history>>

\* A case of the select that ends the loop.
Leave(next, why) ==
    /\ pc = "select"
    /\ pc' = next
    /\ cause' = why
    /\ UNCHANGED <<events, batch, request, tick, done, cancelled, serviceVars, history>>

\* Variant: return at once instead of draining.
TakeDoneWithoutDrain == done /\ Leave("returned", "done")

TakeDone == done /\ Leave("draining", "done")

TakeCtxDone == cancelled /\ Leave("draining", "ctx")

\* drainAndFlush receives an event; b is the batch with it.
DrainInto(b) ==
    /\ pc = "draining"
    /\ events # <<>>
    /\ events' = Tail(events)
    /\ batch' = b
    /\ UNCHANGED <<pc, request, tick, done, cancelled, cause, serviceVars, history>>

\* Variant: drained events go in front of the batch.
DrainEventInFront == DrainInto(<<Head(events)>> \o batch)

\* No bound on the batch here.
DrainEvent == DrainInto(Append(batch, Head(events)))

\* The channel is taken for empty: the final flush.
FlushDrained ==
    /\ pc = "draining"
    /\ Flush(batch, "returned")
    /\ UNCHANGED <<events, batch, tick, done, cancelled, cause, serviceVars, history>>

\* Variant: a full batch ends the draining.
DrainEndOnFullBatch == (events = <<>> \/ Len(batch) >= BatchSize) /\ FlushDrained

DrainEnd == events = <<>> /\ FlushDrained

-----------------------------------------------------------------------------
(* send: the POST, the service's answer, and the return to Run. *)

\* Variant: the valid events of a refused batch are stored.
ServiceStoresValidOnes ==
    /\ request = "posted"
    /\ stored' = stored \o SelectSeq(batch, LAMBDA e : e \notin Poison)
    /\ request' = IF Range(batch) \intersect Poison = {} THEN "stored" ELSE "failed"
    /\ UNCHANGED <<events, batch, pc, tick, done, cancelled, cause, late, faults, history>>

\* Ingest validates every event before it stores the first one.
ServiceStores ==
    /\ request = "posted"
    /\ Range(batch) \intersect Poison = {}
    /\ stored' = stored \o batch
    /\ request' = "stored"
    /\ UNCHANGED <<events, batch, pc, tick, done, cancelled, cause, late, faults, history>>

\* A non-2xx answer: a 400 for a poison event, or a storage error before the
\* first event was written.
ServiceRefuses ==
    /\ request = "posted"
    /\ request' = "failed"
    /\ UNCHANGED <<events, batch, pc, tick, done, cancelled, cause, serviceVars, history>>

\* A storage error after some of the events: the DynamoDB adapter writes one
\* item per event and returns at the first error.
ServiceStoresSome ==
    /\ request = "posted"
    /\ faults < MaxFaults
    /\ Range(batch) \intersect Poison = {}
    /\ \E n \in 1 .. Len(batch) - 1 : stored' = stored \o SubSeq(batch, 1, n)
    /\ faults' = faults + 1
    /\ request' = "failed"
    /\ UNCHANGED <<events, batch, pc, tick, done, cancelled, cause, late, history>>

\* Back in flush, which leaves the batch b and goes on at next.
Resume(next, b, ok) ==
    /\ pc' = next
    /\ batch' = b
    /\ request' = "none"
    /\ failing' = ~ok
    /\ UNCHANGED <<events, tick, done, cancelled, cause, stored,
                   accepted, overflowed, closedAt>>

\* The loop, or the return when this was the flush of drainAndFlush.
AfterFlush == IF cause = "none" THEN "select" ELSE "returned"

\* Variants: a failed batch is dropped; a stored batch is kept; the flush of
\* drainAndFlush goes back to the loop.
SendReturnsDropping(ok) == Resume(AfterFlush, <<>>, ok)
SendReturnsKeeping(ok)  == Resume(AfterFlush, batch, ok)
SendReturnsToLoop(ok)   == Resume("select", IF ok THEN <<>> ELSE batch, ok)

\* Success empties the batch, an error keeps it.
SendReturns(ok) == Resume(AfterFlush, IF ok THEN <<>> ELSE batch, ok)

SendSucceeds ==
    /\ request = "stored"
    /\ SendReturns(TRUE)
    /\ UNCHANGED <<late, faults>>

\* A refusal, or no connection at all.
SendFails ==
    /\ request \in {"posted", "failed"}
    /\ SendReturns(FALSE)
    /\ UNCHANGED <<late, faults>>

\* The service stored the batch, its answer does not arrive in time.
ReplyLost ==
    /\ request = "stored"
    /\ faults < MaxFaults
    /\ faults' = faults + 1
    /\ SendReturns(FALSE)
    /\ UNCHANGED late

\* The client times out, or its ctx is cancelled, before the service has
\* worked on the request, which stays with the service.
Abandon ==
    /\ request = "posted"
    /\ faults < MaxFaults
    /\ faults' = faults + 1
    /\ late' = late \union {[id |-> faults, events |-> batch]}
    /\ SendReturns(FALSE)

\* The service gets to an abandoned request.
LateStore ==
    \E r \in late :
        /\ Range(r.events) \intersect Poison = {}
        /\ late' = late \ {r}
        /\ stored' = stored \o r.events
        /\ UNCHANGED <<agentVars, faults, history>>

-----------------------------------------------------------------------------
RunStep ==
    \/ StartRun \/ TakeEvent \/ TakeTick \/ TakeDone \/ TakeCtxDone
    \/ DrainEvent \/ DrainEnd \/ SendSucceeds \/ SendFails

Next ==
    \/ Emit \/ Close \/ CancelContext \/ Tick
    \/ RunStep
    \/ ServiceStores \/ ServiceRefuses \/ ServiceStoresSome
    \/ ReplyLost \/ Abandon \/ LateStore

Spec == Init /\ [][Next]_vars

\* The goroutine keeps running (a send returns within the client's timeout),
\* the ticker keeps ticking, and Go's select takes each of its ready cases
\* again and again.
Fairness ==
    /\ WF_vars(RunStep)
    /\ WF_vars(Tick)
    /\ SF_vars(TakeEvent) /\ SF_vars(TakeTick)
    /\ SF_vars(TakeDone \/ TakeCtxDone)

\* A service that is up again and again: it cannot refuse every send.
ServiceRecovers == SF_vars(ServiceStores) /\ SF_vars(SendSucceeds)

FairSpec == Spec /\ Fairness /\ ServiceRecovers

-----------------------------------------------------------------------------
(* Properties. *)

PCs      == {"new", "select", "sending", "draining", "returned"}
Requests == {"none", "posted", "stored", "failed"}

\* The channel never holds more than BufferSize events and, until a shutdown
\* drains the channel into it, neither does the batch; a send has a batch.
TypeOK ==
    /\ events \in Seq(Nat) /\ Len(events) <= BufferSize
    /\ batch \in Seq(Nat) /\ (cause = "none" => Len(batch) <= BufferSize)
    /\ pc \in PCs /\ request \in Requests
    /\ pc = "sending" <=> request # "none"
    /\ pc = "sending" => batch # <<>>
    /\ pc \in {"new", "select"} => cause = "none"
    /\ pc \in {"draining", "returned"} => cause # "none"
    /\ (cause = "done" => done) /\ (cause = "ctx" => cancelled)
    /\ tick \in BOOLEAN /\ done \in BOOLEAN /\ cancelled \in BOOLEAN
    /\ cause \in {"none", "done", "ctx"}
    /\ stored \in Seq(Nat)
    /\ late \subseteq [id : Nat, events : Seq(Nat)]
    /\ faults \in Nat
    /\ accepted \in Nat /\ overflowed \subseteq Nat /\ closedAt \in Nat
    /\ failing \in BOOLEAN

\* How many events have left the agent: the oldest ones.
Settled == accepted - Len(batch) - Len(events)

Stored == Range(stored)

\* The batch followed by the channel is always the newest accepted events, in
\* the order Emit accepted them: retries, overflow and draining neither
\* reorder nor skip an event.
PendingInOrder == CountsFrom(Settled, batch) /\ CountsFrom(Settled + Len(batch), events)

\* An accepted event that the agent no longer holds was stored by the service
\* or dropped as the oldest of a full batch; nothing else disappears.
NothingVanishes == \A i \in 1 .. Settled : i \in Stored \union overflowed

\* Close gets what was accepted before it into the final batch: once that
\* batch is being sent, none of those events is left in the channel.
CloseDrains ==
    cause = "done" /\ pc \in {"sending", "returned"}
        => closedAt <= accepted - Len(events)

\* When Run has returned because of Close and its last send succeeded, every
\* event accepted before Close was stored, or had been dropped by overflow.
CleanCloseDelivers ==
    cause = "done" /\ pc = "returned" /\ batch = <<>>
        => \A i \in 1 .. closedAt : i \in Stored \union overflowed

\* Without a lost answer, a partial write or an abandoned request the service
\* stores no event twice: a batch is cleared exactly when it was stored.
ExactlyOnceWithoutFaults ==
    faults = 0 => \A i, j \in DOMAIN stored : i # j => stored[i] # stored[j]

\* An event that the service refuses blocks all that came after it: while the
\* agent holds it in its batch or channel, no later event is stored.
PoisonBlocksLater ==
    \A p \in Poison \cap (Settled + 1 .. accepted), i \in Stored : i < p

\* The retry buffer drops an event only in favour of BufferSize newer ones,
\* and a dropped event never lies behind one that is still held.
OverflowDropsOldest ==
    \A i \in overflowed : i <= Settled /\ i + BufferSize <= accepted

\* Without overflow each event is stored for the first time after the events
\* accepted before it, whatever is retried, repeated or stored late.
FirstStoredInOrder ==
    overflowed = {}
        => \A j \in DOMAIN stored : \A e \in 1 .. stored[j] : \E i \in 1 .. j : stored[i] = e

\* As long as a batch fits the retry buffer, the agent drops an event only
\* while the service is failing: the last send returned an error.
OverflowOnlyWhileFailing ==
    [][BatchSize <= BufferSize /\ overflowed' # overflowed => failing]_vars

\* The agent implements the delivery it promises.
Delivery == INSTANCE MetricDelivery WITH
    settled <- Settled, stored <- Stored, displaced <- overflowed
ImplementsDelivery == Delivery!Spec

\* Every accepted event is stored or displaced, unless the agent is shut down
\* or holds an event the service refuses.
EventuallySettled ==
    \A i \in 1 .. MaxEvents :
        accepted >= i ~> \/ i \in Stored \union overflowed
                         \/ done \/ cancelled
                         \/ \E p \in Poison : Settled < p /\ p <= accepted

\* Once Run has been started, Close or a cancelled ctx makes it return.
ShutdownEnds == (done \/ cancelled) /\ pc # "new" ~> pc = "returned"

\* DOCUMENTATION.md:448: Close() drains all accepted events before it makes
\* the final send.
CloseDrainsAll == cause = "done" /\ pc = "returned" => events = <<>>
=============================================================================
