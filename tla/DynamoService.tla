---------------------------- MODULE DynamoService ----------------------------
(***************************************************************************)
(* The metrics service over dynamodbstore.Store.  Nothing is locked: a      *)
(* POST puts its events one by one, a query reads the table, or one of its  *)
(* two secondary indexes, page by page, and both go on while others do.     *)
(*                                                                          *)
(* DynamoDB is external.  As src/ uses it: an item put is durable; every    *)
(* read is eventually consistent (ConsistentRead is never set), so a page   *)
(* holds each of its items that has settled on all replicas of what is      *)
(* read, and any of those that have not; an index holds the items that have *)
(* its key attribute; an expired item is deleted at some later time; a call *)
(* that returns an error may have taken effect, now or later.               *)
(***************************************************************************)
EXTENDS MetricService

CONSTANTS
    PageOf,     \* the page of a scan or query on which items of a name lie
    Pages       \* the number of pages

ASSUME PageAssumption ==
    /\ Pages \in Nat \ {0}
    /\ \A n \in DOMAIN PageOf : PageOf[n] \in 1 .. Pages
    /\ \A batch \in Batches : \A i \in DOMAIN batch : Trim(batch[i].name) \in DOMAIN PageOf

VARIABLES
    table,      \* the items of the table
    settled,    \* per view: the items every replica of it has
    late        \* items of failed puts that may yet be applied

dynamo == <<table, settled, late>>
vars == <<service, dynamo>>

Views == {"table", "trace-index", "correlation-index"}

(* The items a view holds: storedMetric omits an empty key attribute.  The  *)
(* trace_id attribute is the field of the event, correlation_id its tag.    *)
InView(rec, view) ==
    CASE view = "trace-index" -> rec.event.trace # ""
      [] view = "correlation-index" -> rec.event.tags["correlation_id"] # ""
      [] OTHER -> TRUE

Init ==
    /\ ServiceInit
    /\ table = {} /\ late = {}
    /\ settled = [v \in Views |-> {}]

-----------------------------------------------------------------------------
(* SaveMetrics *)

(* The expiry is fixed before the loop over the events. *)
BeginPuts(r) ==
    /\ ingests[r].state = "saving"
    /\ ingests' = [ingests EXCEPT ![r].state = "putting",
                                  ![r].expires = clock + Lifetime(ingests[r].days)]
    /\ UNCHANGED <<clock, days, queries, written, dynamo>>

Item(r) == Record(r, ingests[r].next, ingests[r].expires)

(* The next event of the loop, or the answer 202 after the last one. *)
NextEvent(r) ==
    ingests' = [ingests EXCEPT
        ![r].next = @ + 1,
        ![r].state = IF ingests[r].next = Len(ingests[r].batch) THEN "accepted" ELSE @]

Put(r, item) ==
    /\ ingests[r].state = "putting"
    /\ table' = table \cup {item}
    /\ written' = written \cup {item}
    /\ NextEvent(r)
    /\ UNCHANGED <<clock, days, queries, settled, late>>

(* Variant: each item's expiry is computed when it is put. *)
PutItemFreshExpiry(r) == Put(r, [Item(r) EXCEPT !.expires = clock + Lifetime(ingests[r].days)])

PutItem(r) == Put(r, Item(r))

(* Variant: SaveMetrics goes on to the next event after an error. *)
PutFailsSkipping(r) ==
    /\ ingests[r].state = "putting"
    /\ NextEvent(r)
    /\ UNCHANGED <<clock, days, queries, written, dynamo>>

(* A put returns an error (throttling, a lost connection, the context of a  *)
(* client that went away): SaveMetrics stops there and the answer is 400.   *)
(* The item may have been written, may be later, or may never be.           *)
PutFails(r) ==
    /\ ingests[r].state = "putting"
    /\ ingests' = [ingests EXCEPT ![r].state = "refused"]
    /\ \/ late' = late \cup {Item(r)} /\ UNCHANGED <<table, written>>
       \/ table' = table \cup {Item(r)} /\ written' = written \cup {Item(r)} /\ UNCHANGED late
       \/ UNCHANGED <<late, table, written>>
    /\ UNCHANGED <<clock, days, queries, settled>>

-----------------------------------------------------------------------------
(* DynamoDB *)

LatePut(item) ==
    /\ item \in late
    /\ late' = late \ {item}
    /\ table' = table \cup {item}
    /\ written' = written \cup {item}
    /\ UNCHANGED <<clock, days, ingests, queries, settled>>

Settle(view, item) ==
    /\ item \in table \ settled[view]
    /\ InView(item, view)
    /\ settled' = [settled EXCEPT ![view] = @ \cup {item}]
    /\ UNCHANGED <<service, table, late>>

Delete(item) ==
    /\ item \in table /\ item.expires <= clock
    /\ table' = table \ {item}
    /\ settled' = [v \in Views |-> settled[v] \ {item}]
    /\ UNCHANGED <<service, late>>

-----------------------------------------------------------------------------
(* Queries *)

(* scanEvents: a non-empty trace_id, then a non-empty correlation_id, takes *)
(* the query to an index; everything else scans the table.                  *)
Wants(filter, k) == k \in DOMAIN filter.tags /\ filter.tags[k] # ""

ViewOf(filter) ==
    IF Wants(filter, "trace_id") THEN "trace-index"
    ELSE IF Wants(filter, "correlation_id") THEN "correlation-index" ELSE "table"

(* The items of the view with the key that is asked for. *)
WithKey(S, filter) ==
    CASE ViewOf(filter) = "trace-index" ->
            {item \in S : item.event.trace = filter.tags["trace_id"]}
      [] ViewOf(filter) = "correlation-index" ->
            {item \in S : item.event.tags["correlation_id"] = filter.tags["correlation_id"]}
      [] OTHER -> S

OnPage(S, p) == {item \in S : PageOf[item.event.name] = p}

(* The records that have settled in every view that holds them. *)
Settled == {item \in table : \A v \in Views : InView(item, v) => item \in settled[v]}

(* now := time.Now() before the first page. *)
BeginScan(q) ==
    /\ queries[q].state = "asked"
    /\ queries' = [queries EXCEPT ![q].state = "scanning", ![q].now = clock]
    /\ UNCHANGED <<clock, days, ingests, written, dynamo>>

(* The orders sort.Slice may leave records of one timestamp in, cut at the  *)
(* limit: the answer has the earliest timestamps of what was found.         *)
Cut(found, limit) ==
    IF limit = 0 \/ Cardinality(found) <= limit THEN {found}
    ELSE {A \in SUBSET found :
            /\ Cardinality(A) = limit
            /\ \A a \in A, b \in found \ A : a.event.ts <= b.event.ts}

(* What a page adds: its items with the key that had not expired when the   *)
(* scan began and that match.                                               *)
Found(query, S) ==
    query.got \cup {i \in Unexpired(WithKey(S, query.filter), query.now) :
                       Matches(i.event, query.filter)}

(* One page of a view: all that has settled there, and any of the rest.     *)
PageReads(query) ==
    LET view == ViewOf(query.filter)
        sure == OnPage(settled[view], query.page)
        maybe == {i \in OnPage(table, query.page) : InView(i, view)}
    IN  {Found(query, sure \cup unsettled) : unsettled \in SUBSET (maybe \ sure)}

Finish(q, found) ==
    \E answer \in Cut(found, queries[q].limit) :
        queries' = [queries EXCEPT ![q].state = "answered", ![q].got = found, ![q].answer = answer]

(* Variant: the loop ends after the first page, LastEvaluatedKey ignored. *)
ReadPageOnce(q) ==
    /\ queries[q].state = "scanning"
    /\ \E found \in PageReads(queries[q]) : Finish(q, found)
    /\ UNCHANGED <<clock, days, ingests, written, dynamo>>

ReadPage(q) ==
    /\ queries[q].state = "scanning"
    /\ \E found \in PageReads(queries[q]) :
          IF queries[q].page < Pages
          THEN queries' = [queries EXCEPT ![q].page = @ + 1, ![q].got = found]
          ELSE Finish(q, found)
    /\ UNCHANGED <<clock, days, ingests, written, dynamo>>

(* A page cannot be read: the query is answered 500. *)
ScanFails(q) ==
    /\ queries[q].state = "scanning"
    /\ queries' = [queries EXCEPT ![q].state = "failed"]
    /\ UNCHANGED <<clock, days, ingests, written, dynamo>>

(* The table outlives the service; a put under way may still be applied. *)
Restart ==
    /\ ServiceRestart
    /\ \E S \in SUBSET {Item(r) : r \in {p \in Ingests : ingests[p].state = "putting"}} :
          late' = late \cup S
    /\ UNCHANGED <<table, settled>>

Next ==
    \/ ServiceNext /\ UNCHANGED dynamo
    \/ \E q \in Queries, req \in Reads : Ask(q, req, Unexpired(Settled, clock)) /\ UNCHANGED dynamo
    \/ \E r \in Ingests : BeginPuts(r) \/ PutItem(r) \/ PutFails(r)
    \/ \E item \in late : LatePut(item)
    \/ \E view \in Views, item \in table : Settle(view, item)
    \/ \E item \in table : Delete(item)
    \/ \E q \in Queries : BeginScan(q) \/ ReadPage(q) \/ ScanFails(q)
    \/ Restart

Spec == Init /\ [][Next]_vars

-----------------------------------------------------------------------------
(* Types: items and remembered records are records, and a view settles only *)
(* on items of the table that belong to it.                                 *)
TypeOK ==
    /\ clock \in 1 .. MaxClock
    /\ days \in Nat \ {0}
    /\ \A r \in Ingests :
          /\ ingests[r].state \in {"free", "refused", "validated", "saving", "putting",
                                   "accepted", "broken"}
          /\ ingests[r].next \in 1 .. Len(ingests[r].batch) + 1
    /\ \A q \in Queries :
          queries[q].state \in {"free", "asked", "scanning", "answered", "failed"}
    /\ written \subseteq RecordType
    /\ late \subseteq RecordType
    /\ table \subseteq written
    /\ \A v \in Views : settled[v] \subseteq {item \in table : InView(item, v)}

(* What a request leaves in the table is a prefix of its events: all of     *)
(* them when it was answered 202, possibly some when it was answered 400 in *)
(* the middle or the service died, and none unless Validate accepted every  *)
(* one (metrics.go:25-30, dynamodbstore/store.go:64-89).                    *)
StoredPrefix ==
    \A r \in Ingests :
        LET stored == {rec.idx : rec \in RecordsOf(r)}
            batch == ingests[r].batch
        IN  /\ stored = 1 .. Cardinality(stored)
            /\ ingests[r].state = "accepted" => stored = DOMAIN batch
            /\ stored # {} => \A i \in DOMAIN batch : Valid(batch[i])

(* The service over DynamoDB implements MetricRepository with durability: a *)
(* query that pages through the table or an index while items are put,      *)
(* replicated, expired and deleted answers with every settled match, though *)
(* the index is chosen by a field and the match made on a tag; restarts     *)
(* lose nothing.                                                            *)
Repository == INSTANCE MetricRepository WITH
    Durable <- TRUE,
    Wanted  <- LAMBDA rec, filter : Matches(rec.event, filter),
    settled <- Unexpired(Settled, clock),
    asks    <- Asks

ImplementsRepository == Repository!Spec
=============================================================================
