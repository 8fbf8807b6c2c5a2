---------------------------- MODULE MetricEvents ----------------------------
(***************************************************************************)
(* Metric events and the filters of the read API: what MetricEvent.Validate *)
(* makes of a submitted event, what parseFilter makes of a query string,    *)
(* and when an event matches a filter.  Strings are members of small sets;  *)
(* "" is Go's empty string, hence also the value of a missing map key.      *)
(*                                                                          *)
(* A submitted event has a name, a kind, a timestamp (0: the zero time), a  *)
(* top-level trace_id and tags (a function from raw keys to raw values).    *)
(* Value, unit, the plain dimensions (see MetricLists) and span_id, which   *)
(* is treated exactly as trace_id everywhere, are left out.                 *)
(***************************************************************************)
EXTENDS Integers, Sequences, FiniteSets

CONSTANTS
    Trim(_),      \* strings.TrimSpace
    TagValues,    \* the trimmed, non-empty values a tag or a trace id can have
    Window        \* the 30 minutes a query without "from" looks back

TagKeys == {"trace_id", "correlation_id"}
Kinds == {"count", "gauge", "money"}

(* The tests of Validate that refuse an event. *)
Valid(raw) ==
    /\ Trim(raw.name) # ""
    /\ raw.kind \in Kinds \cup {""}

(* The trimmed, non-empty values that raw tags give to key k: more than one *)
(* when two raw keys differ only in surrounding space.                      *)
TagCandidates(raw, k) ==
    {Trim(raw.tags[j]) : j \in {i \in DOMAIN raw.tags : Trim(i) = k}} \ {""}

(* Tags after the loop of Validate.  It ranges over a Go map, so when two   *)
(* keys collide after trimming either value may end up in the result.       *)
NormalTags(raw) ==
    {t \in [TagKeys -> TagValues \cup {""}] :
        \A k \in TagKeys :
            IF TagCandidates(raw, k) = {} THEN t[k] = ""
                                          ELSE t[k] \in TagCandidates(raw, k)}

(* The trace id an event ends up with: the field first, then the tag. *)
TraceOf(raw, tags) ==
    IF Trim(raw.trace) # "" THEN Trim(raw.trace) ELSE tags["trace_id"]

(* Variant: a trace id that only the tags carry is not promoted to the      *)
(* field, from which the storage adapters index the event.                  *)
ValidatedWithoutPromotion(raw, now) ==
    {[name  |-> Trim(raw.name),
      ts    |-> IF raw.ts = 0 THEN now ELSE raw.ts,
      trace |-> Trim(raw.trace),
      tags  |-> [t EXCEPT !["trace_id"] = TraceOf(raw, t)]] :
     t \in NormalTags(raw)}

(* The events Validate can turn a valid raw event into at time now. *)
Validated(raw, now) ==
    {[name  |-> Trim(raw.name),
      ts    |-> IF raw.ts = 0 THEN now ELSE raw.ts,
      trace |-> TraceOf(raw, t),
      tags  |-> [t EXCEPT !["trace_id"] =
                   IF TraceOf(raw, t) # "" THEN TraceOf(raw, t) ELSE @]] :
     t \in NormalTags(raw)}

-----------------------------------------------------------------------------
(* A read request: the route it takes, the {traceId} of the path (route     *)
(* "trace" only), the query parameters ("" when absent), for each tag the   *)
(* values of its tagIn parameter, and the interval.  A pair of the          *)
(* parameter tags=k:v is written "tags:k".                                  *)
Params == {"tag.trace_id", "tag.correlation_id", "tags:trace_id", "tags:correlation_id",
           "trace_id", "correlation_id"}

NoParams == [p \in Params |-> ""]
NoTagIn  == [k \in TagKeys |-> {}]

(* What MCPServer.call sends for its execution tools. *)
ByCorrelation(id) ==
    [route |-> "events", path |-> "", from |-> 0, to |-> 0,
     tagIn |-> NoTagIn, params |-> [NoParams EXCEPT !["correlation_id"] = id]]

ByTrace(id) ==
    [route |-> "trace", path |-> id, from |-> 0, to |-> 0,
     tagIn |-> NoTagIn, params |-> [NoParams EXCEPT !["trace_id"] = id]]

(* The value a query string gives to tag k: the parameter tag.<k>, a pair   *)
(* of tags=, or for the trace id the parameter trace_id; the last one that  *)
(* is not blank stays.                                                      *)
TagParam(params, k) ==
    LET own   == IF k = "trace_id" THEN Trim(params[k]) ELSE ""
        given == SelectSeq(<<own, Trim(params["tags:" \o k]), Trim(params["tag." \o k])>>,
                           LAMBDA v : v # "")
    IN  IF given = <<>> THEN "" ELSE Head(given)

(* parseTags, and the trace_id that eventsByTrace adds, blank or not. *)
FilterTags(req) ==
    LET byQuery == {k \in TagKeys : TagParam(req.params, k) # ""}
        keys == byQuery \cup IF req.route = "trace" THEN {"trace_id"} ELSE {}
    IN  [k \in keys |->
            IF req.route = "trace" /\ k = "trace_id" THEN Trim(req.path)
                                                     ELSE TagParam(req.params, k)]

(* parseTagIn: blank values are dropped, and tags without any other. *)
FilterTagIn(req) ==
    LET values(k) == {Trim(v) : v \in req.tagIn[k]} \ {""}
    IN  [k \in {t \in TagKeys : values(t) # {}} |-> values(k)]

(* parseFilter followed by normalizeFilter at time now. *)
FilterOf(req, now) ==
    LET to == IF req.to = 0 THEN now ELSE req.to
    IN  [tags |-> FilterTags(req), tagIn |-> FilterTagIn(req),
         to   |-> to,
         from |-> IF req.from = 0 THEN to - Window ELSE req.from]

(* matches: the interval, both ends included, the wanted tags, and for each *)
(* tag of tagIn one of its values.                                          *)
Matches(event, filter) ==
    /\ event.ts >= filter.from
    /\ event.ts <= filter.to
    /\ \A k \in DOMAIN filter.tags : event.tags[k] = filter.tags[k]
    /\ \A k \in DOMAIN filter.tagIn : event.tags[k] \in filter.tagIn[k]
=============================================================================
