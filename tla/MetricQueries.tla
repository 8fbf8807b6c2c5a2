---------------------------- MODULE MetricQueries ----------------------------
(***************************************************************************)
(* What the read API computes from stored events, as each storage adapter   *)
(* computes it: lists (MetricLists), summaries, series and dimensions.  The *)
(* only state is the events stored so far; the properties compare the two   *)
(* adapters with each other and with what the answers should be, for every  *)
(* filter, limit and bucket of an instance.                                 *)
(***************************************************************************)
EXTENDS MetricLists

CONSTANTS
    Names, Sources,    \* values of the dimensions; "" is among Sources
    Times,              \* timestamps, in ticks since Go's zero time
    Values,             \* metric values
    Limits,             \* limits of ListEvents
    Buckets,            \* bucket widths of QuerySeries, in ticks
    TicksPerSecond,     \* QuerySeries labels points with whole seconds
    Month               \* dynamodbstore offers dimensions of the last 30 days

ASSUME QueriesAssumption ==
    /\ "" \in Sources /\ "" \notin Names
    /\ Times \subseteq Nat \ {0} /\ Values \subseteq Int
    /\ Limits \subseteq Nat \ {0} /\ Buckets \subseteq Nat \ {0}
    /\ TicksPerSecond \in Nat \ {0} /\ Month \in Nat
    /\ \A e \in Emitted : e.name \in Names /\ e.source \in Sources
                         /\ e.ts \in Times /\ e.value \in Values

Events == [name : Names, source : Sources, ts : Times, value : Values]

Filters == [name : Names \cup {""}, source : Sources, from : Times, to : Times]

-----------------------------------------------------------------------------
(* ListSummaries: one summary per name and group, built by a walk over the  *)
(* matches in the order s.                                                  *)
GroupOf(i, groupBy) == IF groupBy = "source" THEN stored[i].source ELSE ""

Blank == [count |-> 0, sum |-> 0, latest |-> 0, updated |-> 0]

Entry(acc, k, blank) == IF k \in DOMAIN acc THEN acc[k] ELSE blank

Put(acc, k, v) == [x \in DOMAIN acc \cup {k} |-> IF x = k THEN v ELSE acc[x]]

(* latest: memory.Store assigns it for every event, dynamodbstore.Store     *)
(* only for one that is newer than those before it.                         *)
MemoryLatest(old, event) == event.value

(* Variant: the value of the first event of a group is never replaced. *)
DynamoLatestFirst(old, event) == IF old.updated = 0 THEN event.value ELSE old.latest

DynamoLatest(old, event) == IF event.ts > old.updated THEN event.value ELSE old.latest

Latest(adapter, old, event) ==
    IF adapter = "memory" THEN MemoryLatest(old, event) ELSE DynamoLatest(old, event)

(* Variant: the metrics of a group share one summary. *)
KeyOfGroup(i, groupBy) == <<stored[1].name, GroupOf(i, groupBy)>>

Key(i, groupBy) == <<stored[i].name, GroupOf(i, groupBy)>>

Updated(old, event, adapter) ==
    [count |-> old.count + 1, sum |-> old.sum + event.value,
     latest |-> Latest(adapter, old, event), updated |-> Max({old.updated, event.ts})]

Summaries(s, groupBy, adapter) ==
    LET sums[n \in 0 .. Len(s)] ==
            IF n = 0 THEN <<>>
            ELSE LET acc == sums[n - 1]
                     k   == Key(s[n], groupBy)
                 IN  Put(acc, k, Updated(Entry(acc, k, Blank), stored[s[n]], adapter))
    IN  sums[Len(s)]

MemorySummaries(f, groupBy) == Summaries(InsertionOrder(f), groupBy, "memory")
DynamoSummaries(f, groupBy) == {Summaries(s, groupBy, "dynamodb") : s \in ScanOrders(f)}

-----------------------------------------------------------------------------
(* Variant: the timestamp is rounded to the nearest bucket. *)
PointOfRounded(ts, bucket) ==
    LET shifted == ts + (bucket \div 2)
    IN  (shifted - (shifted % bucket)) \div TicksPerSecond

(* QuerySeries, the same in both adapters but for the order of the walk.    *)
(* The label of a point is the Unix second of the truncated timestamp.      *)
PointOf(ts, bucket) == (ts - (ts % bucket)) \div TicksPerSecond

NoPoint == [value |-> 0, count |-> 0]

Counted(old, event) == [value |-> old.value + event.value, count |-> old.count + 1]

Series(s, bucket) ==
    LET points[n \in 0 .. Len(s)] ==
            IF n = 0 THEN <<>>
            ELSE LET acc == points[n - 1]
                     k   == PointOf(stored[s[n]].ts, bucket)
                 IN  Put(acc, k, Counted(Entry(acc, k, NoPoint), stored[s[n]]))
    IN  points[Len(s)]

MemorySeries(f, bucket) == Series(InsertionOrder(f), bucket)
DynamoSeries(f, bucket) == {Series(s, bucket) : s \in ScanOrders(f)}

-----------------------------------------------------------------------------
Period(from, to) == [name |-> "", source |-> "", from |-> from, to |-> to]

SourcesOf(S) == {stored[i].source : i \in S} \ {""}

(* ListDimensions: what a filter can be set to.  memory.Store looks at all  *)
(* events it has, dynamodbstore.Store at those of the last 30 days.         *)
MemoryDimensions == SourcesOf(DOMAIN stored)

(* Variant: the interval queries have when none is given. *)
DynamoDimensionsHalfHour(now) == SourcesOf(Matching(Period(now - 1, now)))

DynamoDimensions(now) == SourcesOf(Matching(Period(now - Month, now)))

-----------------------------------------------------------------------------
Total(S) == SumOver([i \in DOMAIN stored |-> stored[i].value], S)

(* Event lists are sorted by time, hold matches only, as many as the limit  *)
(* allows, and the adapters agree unless the limit cuts: then dynamodbstore *)
(* keeps the oldest matches and memory the first saved, so that what memory *)
(* answers with may be newer, but never older, position by position         *)
(* (memory/store.go:50-59, dynamodbstore/store.go:94-101).                  *)
ListsAgree ==
    \A f \in Filters, limit \in Limits :
        LET n == Min({limit, Cardinality(Matching(f))})
        IN  \A d \in DynamoLists(f, limit), m \in MemoryLists(f, limit) :
               /\ Len(d) = n /\ Len(m) = n
               /\ Range(m) \subseteq Matching(f)
               /\ \A i, j \in 1 .. n : i < j => stored[m[i]].ts <= stored[m[j]].ts
               /\ \A i \in 1 .. n : stored[d[i]].ts <= stored[m[i]].ts
               /\ n < limit => Range(d) = Range(m)

\* The matches that belong in the summary k, under their own name and group,
\* and the values of those of one time.
InGroup(f, k, groupBy) ==
    {i \in Matching(f) : <<stored[i].name, GroupOf(i, groupBy)>> = k}

ValuesAt(f, k, groupBy, ts) ==
    {stored[i].value : i \in {j \in InGroup(f, k, groupBy) : stored[j].ts = ts}}

(* Both adapters sum up every match exactly once, under its own name and    *)
(* group: count, sum and time of the last update are those of the events of *)
(* the group, and no summary is empty (memory/store.go:69-97,               *)
(* dynamodbstore/store.go:110-133).                                         *)
SummariesExact ==
    \A f \in Filters, groupBy \in {"", "source"} :
        \A sums \in {MemorySummaries(f, groupBy)} \cup DynamoSummaries(f, groupBy) :
            /\ DOMAIN sums = {<<stored[i].name, GroupOf(i, groupBy)>> : i \in Matching(f)}
            /\ \A k \in DOMAIN sums :
                  LET group == InGroup(f, k, groupBy)
                  IN  /\ sums[k].count = Cardinality(group)
                      /\ sums[k].sum = Total(group)
                      /\ sums[k].updated = Max({stored[i].ts : i \in group})

(* In a summary of dynamodbstore the latest value is that of an event with  *)
(* the time of the last update (dynamodbstore/store.go:122-125).  In memory *)
(* it is that of the event saved last, whatever its time (memory/store.go:  *)
(* 84), so it is the newest event's when events arrive in time order.       *)
LatestIsNewest ==
    \A f \in Filters, groupBy \in {"", "source"} :
        /\ \A sums \in DynamoSummaries(f, groupBy) : \A k \in DOMAIN sums :
              sums[k].latest \in ValuesAt(f, k, groupBy, sums[k].updated)
        /\ \A sums \in {MemorySummaries(f, groupBy)} : \A k \in DOMAIN sums :
              LET group == InGroup(f, k, groupBy)
              IN  /\ sums[k].latest = stored[Max(group)].value
                  /\ (\A i, j \in group : i < j => stored[i].ts <= stored[j].ts)
                     => sums[k].latest \in ValuesAt(f, k, groupBy, sums[k].updated)

(* A series counts every match once, in the adapters alike, at a label that *)
(* is not after the event and less than a bucket and a second before it,    *)
(* also when the bucket is no whole number of seconds                       *)
(* (memory/store.go:113-127).                                               *)
SeriesConserves ==
    \A f \in Filters, bucket \in Buckets :
        LET points == MemorySeries(f, bucket)
            at(k) == {i \in Matching(f) : PointOf(stored[i].ts, bucket) = k}
        IN  /\ DynamoSeries(f, bucket) = {points}
            /\ DOMAIN points = {PointOf(stored[i].ts, bucket) : i \in Matching(f)}
            /\ \A k \in DOMAIN points :
                  /\ points[k].count = Cardinality(at(k))
                  /\ points[k].value = Total(at(k))
                  /\ \A i \in at(k) :
                        /\ k * TicksPerSecond <= stored[i].ts
                        /\ stored[i].ts < k * TicksPerSecond + bucket + TicksPerSecond

(* Whatever is offered as a filter finds events, the one adapter offers no  *)
(* more than the other, and a filter that finds events among those of the   *)
(* last 30 days is offered by both: what only memory offers is older, or    *)
(* in the future of the service's clock (memory/store.go:138-163,           *)
(* dynamodbstore/store.go:170-192).                                         *)
DimensionsAgree ==
    \A now \in Times :
        /\ DynamoDimensions(now) \subseteq MemoryDimensions
        /\ \A v \in MemoryDimensions \ DynamoDimensions(now) : \A i \in DOMAIN stored :
              stored[i].source = v => stored[i].ts < now - Month \/ stored[i].ts > now
        /\ \A v \in DynamoDimensions(now) :
              Matching([Period(now - Month, now) EXCEPT !.source = v]) # {}
        /\ \A f \in Filters :
              f.from >= now - Month /\ f.to <= now /\ f.source # "" /\ Matching(f) # {}
                => f.source \in DynamoDimensions(now)
=============================================================================
