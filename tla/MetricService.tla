---------------------------- MODULE MetricService ----------------------------
(***************************************************************************)
(* The part of the metrics service that is the same for every storage       *)
(* backend: the steps of POST /v1/metrics before the repository is called,  *)
(* the start of a read request, the runtime configuration and the clock.    *)
(* MemoryService and DynamoService add a repository each.                   *)
(*                                                                          *)
(* Every HTTP request runs on its own goroutine; an action is the code      *)
(* between two points where another goroutine's step can be observed.       *)
(***************************************************************************)
EXTENDS MetricEvents, Functions

CONSTANTS
    Ingests,        \* identities of POST /v1/metrics requests
    Batches,        \* the event lists such a request may carry
    Queries,        \* identities of read requests
    Reads,          \* the read requests a client may make
    Limit,          \* the number of records an events answer may have
    SubmittedDays,  \* retentionDays that PUT /v1/config may carry
    InitialDays,    \* retentionDays the service starts with
    HalfRange,      \* time.Duration holds -HalfRange .. HalfRange - 1 days
    MaxClock        \* bound on the clock

ASSUME ServiceAssumption ==
    /\ InitialDays \in Int
    /\ SubmittedDays \subseteq Int
    /\ HalfRange \in Nat \ {0}
    /\ MaxClock \in Nat \ {0}
    /\ Limit \in Nat \ {0}
    /\ Window \in Nat
    /\ \A batch \in Batches : batch \in Seq(Range(batch))

ASSUME BatchAssumption ==
    \A batch \in Batches : \A i \in DOMAIN batch :
        /\ Trim(batch[i].name) \in STRING
        /\ batch[i].ts \in Int
        /\ Trim(batch[i].trace) \in TagValues \cup {""}

VARIABLES
    clock,          \* time.Now, in the unit that Window and lifetimes use
    days,           \* ConfigService: RuntimeConfig.RetentionDays
    ingests,        \* per POST request: where its handler is, and its data
    queries,        \* per read request: likewise
    written         \* ghost: every record ever stored

service == <<clock, days, ingests, queries, written>>

(* time.Duration(days) * 24 * time.Hour in 64 bits: the product wraps. *)
Lifetime(d) == ((d + HalfRange) % (2 * HalfRange)) - HalfRange

(* What NewConfigService keeps of the retention it is given. *)
ConfiguredDays(d) == IF d <= 0 THEN 7 ELSE d

(* Variant: Save keeps what the client sends. *)
SavedDaysUnchecked(d) == d

(* What ConfigService.Save keeps. *)
SavedDays(d) == IF d <= 0 THEN 1 ELSE d

Unexpired(S, t) == {rec \in S : rec.expires > t}

Record(r, i, expires) ==
    [req |-> r, idx |-> i, event |-> ingests[r].events[i], expires |-> expires]

FreeIngest ==
    [state |-> "free", batch |-> <<>>, events |-> <<>>, now |-> 0, days |-> 0, seen |-> {},
     expires |-> 0, next |-> 1]

FreeQuery ==
    [state |-> "free", req |-> "none", filter |-> "none", limit |-> 0, asked |-> 0,
     must |-> {}, now |-> 0, page |-> 1, got |-> {}, answer |-> {}]

ServiceInit ==
    /\ clock = 1
    /\ days = ConfiguredDays(InitialDays)
    /\ ingests = [r \in Ingests |-> FreeIngest]
    /\ queries = [q \in Queries |-> FreeQuery]
    /\ written = {}

-----------------------------------------------------------------------------
(* POST /v1/metrics *)

(* An empty list, or one with any event that Validate refuses, is answered  *)
(* 400 before anything is stored.                                           *)
RefuseBatch(r, batch) ==
    /\ ingests[r].state = "free"
    /\ batch = <<>> \/ \E i \in DOMAIN batch : ~Valid(batch[i])
    /\ ingests' = [ingests EXCEPT ![r].state = "refused", ![r].batch = batch]
    /\ UNCHANGED <<clock, days, queries, written>>

(* Ingest reads the clock once, and validates and so rewrites the events    *)
(* with the indices I.                                                      *)
Accept(r, batch, I) ==
    \E events \in [I -> UNION {Validated(batch[i], clock) : i \in I}] :
       /\ \A i \in I : events[i] \in Validated(batch[i], clock)
       /\ ingests' = [ingests EXCEPT ![r] =
             [@ EXCEPT !.state = "validated", !.batch = batch, !.events = events,
                       !.now = clock, !.seen = {days}]]

(* Variant: the refused events are skipped, the others are stored. *)
ValidateSkipping(r, batch) ==
    /\ ingests[r].state = "free"
    /\ batch # <<>> /\ Valid(batch[1])
    /\ Accept(r, batch, {1} \cup {i \in DOMAIN batch : \A j \in 1 .. i : Valid(batch[j])})
    /\ UNCHANGED <<clock, days, queries, written>>

Validate(r, batch) ==
    /\ ingests[r].state = "free"
    /\ batch # <<>> /\ \A i \in DOMAIN batch : Valid(batch[i])
    /\ Accept(r, batch, DOMAIN batch)
    /\ UNCHANGED <<clock, days, queries, written>>

(* Variant: the retention the service was started with is used for ever. *)
ReadInitialConfig(r) ==
    /\ ingests[r].state = "validated"
    /\ ingests' = [ingests EXCEPT ![r].state = "saving", ![r].days = ConfiguredDays(InitialDays)]
    /\ UNCHANGED <<clock, days, queries, written>>

(* s.config.Get(), the argument of the call to SaveMetrics. *)
ReadConfig(r) ==
    /\ ingests[r].state = "validated"
    /\ ingests' = [ingests EXCEPT ![r].state = "saving", ![r].days = days]
    /\ UNCHANGED <<clock, days, queries, written>>

-----------------------------------------------------------------------------
(* PUT /v1/config, under the lock of ConfigService.  seen is a ghost: the   *)
(* retentions in force since an unfinished POST request came in.            *)
SaveConfig(d) ==
    /\ days' = SavedDays(d)
    /\ ingests' = [r \in Ingests |-> IF ingests[r].state = "validated"
                                     THEN [ingests[r] EXCEPT !.seen = @ \cup {days'}]
                                     ELSE ingests[r]]
    /\ UNCHANGED <<clock, queries, written>>

Tick ==
    /\ clock < MaxClock
    /\ clock' = clock + 1
    /\ UNCHANGED <<days, ingests, queries, written>>

-----------------------------------------------------------------------------
(* Read requests.  "events" and "trace" answer at most Limit records, the   *)
(* aggregates ("summaries") are computed from all that match.  must is a    *)
(* ghost: what the repository had settled when the request came in.         *)
Ask(q, req, settled) ==
    /\ queries[q].state = "free"
    /\ queries' = [queries EXCEPT ![q] =
          [@ EXCEPT !.state = "asked", !.req = req, !.filter = FilterOf(req, clock),
                    !.limit = IF req.route = "summaries" THEN 0 ELSE Limit,
                    !.asked = clock, !.must = settled]]
    /\ UNCHANGED <<clock, days, ingests, written>>

(* A restart of the process: handlers die, the configuration is not kept.   *)
ServiceRestart ==
    /\ days' = ConfiguredDays(InitialDays)
    /\ ingests' = [r \in Ingests |->
          IF ingests[r].state \in {"free", "accepted", "refused"}
          THEN ingests[r] ELSE [ingests[r] EXCEPT !.state = "broken"]]
    /\ queries' = [q \in Queries |->
          IF queries[q].state \in {"asked", "scanning"}
          THEN [queries[q] EXCEPT !.state = "failed"] ELSE queries[q]]
    /\ UNCHANGED <<clock, written>>

ServiceNext ==
    \/ \E r \in Ingests, batch \in Batches : RefuseBatch(r, batch) \/ Validate(r, batch)
    \/ \E r \in Ingests : ReadConfig(r)
    \/ \E d \in SubmittedDays : SaveConfig(d)
    \/ Tick

-----------------------------------------------------------------------------
(* Shared properties *)

RecordsOf(r) == {rec \in written : rec.req = r}

EventType ==
    [name : STRING, ts : Int, trace : TagValues \cup {""},
     tags : [TagKeys -> TagValues \cup {""}]]

RecordType == [req : Ingests, idx : Nat \ {0}, expires : Int, event : EventType]

(* What MetricRepository sees of a query, and of all of them. *)
Seen(query) ==
    [state  |-> IF query.state \in {"asked", "scanning"} THEN "open" ELSE query.state,
     filter |-> query.filter, limit |-> query.limit, asked |-> query.asked,
     must   |-> query.must, answer |-> query.answer]

Asks == [q \in Queries |-> Seen(queries[q])]

(* Whatever the order of configuration changes, restarts and ingestion, a   *)
(* record expires a retention after its request was being handled, and that *)
(* retention was in force while the request was: expires_at = now +         *)
(* retentionDays (memory/store.go:31, dynamodbstore/store.go:63), never an  *)
(* older configuration.  However long the puts of a request take, and       *)
(* whatever the configuration becomes meanwhile, its events expire          *)
(* together: a query never sees a request half expired.                     *)
RetentionInForce ==
    \A rec \in written :
        /\ \E d \in ingests[rec.req].seen, t \in ingests[rec.req].now .. clock :
              rec.expires = t + d
        /\ \A other \in RecordsOf(rec.req) : other.expires = rec.expires

(* An answer to a query for a correlation id (the MCP tool                  *)
(* get_execution_by_correlation, mcp.go:69, and service_test.go:45 ask with *)
(* the parameter correlation_id) holds events of that execution only.       *)
CorrelationAnswered ==
    \A q \in Queries :
        (queries[q].state = "answered" /\ queries[q].req.params["correlation_id"] # "")
        => \A rec \in queries[q].answer :
               rec.event.tags["correlation_id"] = queries[q].req.params["correlation_id"]
=============================================================================
