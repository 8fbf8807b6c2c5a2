---------------------------- MODULE MemoryService ----------------------------
(***************************************************************************)
(* The metrics service over memory.Store: every repository operation runs   *)
(* under one mutex, prunes what has expired, and is one action.             *)
(***************************************************************************)
EXTENDS MetricService, Collections

VARIABLE events     \* Store.events, in insertion order

vars == <<service, events>>

Kept(stored, t) == Filter(stored, Unexpired(Range(stored), t))

Init == ServiceInit /\ events = <<>>

(* SaveMetrics: the clock is read once, under the lock, and all the events  *)
(* of the request get the same expiry.                                      *)
SaveMetrics(r) ==
    /\ ingests[r].state = "saving"
    /\ LET expires == clock + Lifetime(ingests[r].days)
           batch == [i \in DOMAIN ingests[r].events |-> Record(r, i, expires)]
       IN  /\ events' = Kept(events, clock) \o batch
           /\ written' = written \cup Range(batch)
    /\ ingests' = [ingests EXCEPT ![r].state = "accepted"]
    /\ UNCHANGED <<clock, days, queries>>

(* ListEvents keeps the first Limit matches in insertion order; the other   *)
(* reads use every match.                                                   *)
Listed(matching, limit) ==
    IF limit = 0 \/ Len(matching) <= limit THEN matching ELSE SubSeq(matching, 1, limit)

(* The answer, from what is in memory after pruning. *)
Reply(q, kept) ==
    LET matching == Filter(kept, {rec \in Range(kept) : Matches(rec.event, queries[q].filter)})
    IN  /\ queries[q].state = "asked"
        /\ queries' = [queries EXCEPT ![q].state = "answered",
                                      ![q].answer = Range(Listed(matching, queries[q].limit))]
        /\ events' = kept
        /\ UNCHANGED <<clock, days, ingests, written>>

(* Variant: the read path relies on writes to prune. *)
ListUnpruned(q) == Reply(q, events)

List(q) == Reply(q, Kept(events, clock))

Restart == ServiceRestart /\ events' = <<>>

Next ==
    \/ ServiceNext /\ UNCHANGED events
    \/ \E q \in Queries, req \in Reads : Ask(q, req, Unexpired(Range(events), clock)) /\ UNCHANGED events
    \/ \E r \in Ingests : SaveMetrics(r)
    \/ \E q \in Queries : List(q)
    \/ Restart

Spec == Init /\ [][Next]_vars

-----------------------------------------------------------------------------
(* Types: handlers are in one of their states, stored and remembered records *)
(* are records, and memory holds each record once.                           *)
TypeOK ==
    /\ clock \in 1 .. MaxClock
    /\ days \in Nat \ {0}
    /\ \A r \in Ingests :
          ingests[r].state \in {"free", "refused", "validated", "saving", "accepted", "broken"}
    /\ \A q \in Queries :
          queries[q].state \in {"free", "asked", "answered", "failed"}
    /\ written \subseteq RecordType
    /\ Range(events) \subseteq written
    /\ \A i, j \in DOMAIN events : events[i] = events[j] => i = j

(* A request is stored as a whole or not at all, whatever other requests,   *)
(* reads and restarts do meanwhile: everything in it when it was answered   *)
(* 202, with one expiry, and then Validate accepted all of it; nothing in   *)
(* every other case (metrics.go:25-30, memory/store.go:27-41).              *)
BatchAllOrNothing ==
    \A r \in Ingests :
        IF ingests[r].state = "accepted"
        THEN /\ {rec.idx : rec \in RecordsOf(r)} = DOMAIN ingests[r].batch
             /\ \A i \in DOMAIN ingests[r].batch : Valid(ingests[r].batch[i])
             /\ Cardinality({rec.expires : rec \in RecordsOf(r)}) = 1
        ELSE RecordsOf(r) = {}

(* The service over memory implements MetricRepository without durability:  *)
(* what was answered 202 is in the answer of every query asked later, up to *)
(* the limit and until it expires, and nothing else is, however queries,    *)
(* ingestion, retention changes and restarts interleave.                    *)
Repository == INSTANCE MetricRepository WITH
    Durable <- FALSE,
    Wanted  <- LAMBDA rec, filter : Matches(rec.event, filter),
    settled <- Unexpired(Range(events), clock),
    asks    <- Asks

ImplementsRepository == Repository!Spec
=============================================================================
