------------------------------ MODULE Processes ------------------------------
(***************************************************************************)
(* From stored events to what the webview shows: the service lists events   *)
(* of an interval (MetricLists, with the limit rule of the use case), the   *)
(* page groups them into processes, one per execution, and draws lists,     *)
(* widgets and charts from those (webview/app.js).  Workflows emit the      *)
(* events in any order and number; an agent that retries a send may store   *)
(* an event again.                                                          *)
(*                                                                          *)
(* An event is a record of what the page reads: name (the part after        *)
(* "routing_slip.step."), source, workflow, step, status, ts, trace, and of *)
(* its tags corr (correlation_id), message (message_id), total              *)
(* (total_steps) and index (step_index), 0 when absent, and tagged, a tag   *)
(* called status.  Reprocessing, durations and free text search are left    *)
(* out.                                                                     *)
(*                                                                          *)
(* The page asks for the list and for the chart in two requests.  Events    *)
(* may be stored between their answers, and the period may be changed       *)
(* between an answer and a drawing of it: nothing here relates a list to a  *)
(* chart, and what is drawn is related to its own answer.                   *)
(***************************************************************************)
EXTENDS MetricLists

CONSTANTS
    Moments,          \* when the page may ask or draw
    Spans,            \* lengths of the last period that can be selected
    Dates,            \* what an exact period may be set to, from or to
    Unset,            \* a date that was not set
    Rollups,          \* rollup seconds of a widget query
    Minute, Quarter, Hour, Day,    \* in the unit of Moments
    PageSource,                    \* the source the page asks for
    ListLimit, ChartLimit,         \* the limits it asks for: 1000 and 5000
    DefaultEvents, MostEvents      \* the service's limits: 200 and 1000

ASSUME ProcessesAssumption ==
    /\ Moments \subseteq Int /\ Spans \subseteq Nat /\ Rollups \subseteq Int
    /\ Dates \subseteq Int /\ Unset \notin Int /\ Quarter \in Nat
    /\ Minute \in Nat \ {0} /\ Hour \in Nat \ {0} /\ Day \in Nat /\ Day % Hour = 0
    /\ DefaultEvents \in Nat \ {0} /\ MostEvents \in Nat /\ DefaultEvents < MostEvents
    /\ ListLimit = MostEvents /\ ChartLimit \in Nat /\ ChartLimit > MostEvents
    /\ \A e \in Emitted : e.ts \in Int /\ e.index \in Nat /\ e.total \in Nat

-----------------------------------------------------------------------------
(* What the service answers, whichever adapter it runs on. *)

(* Variant: the largest limit is refused as well. *)
ServedLimitExclusive(limit) ==
    IF limit <= 0 \/ limit >= MostEvents THEN DefaultEvents ELSE limit

(* MetricService.Events: a limit over the maximum is not cut but replaced. *)
ServedLimit(limit) == IF limit <= 0 \/ limit > MostEvents THEN DefaultEvents ELSE limit

Interval(from, to) == [name |-> "", source |-> PageSource, from |-> from, to |-> to]

Answers(from, to, limit) ==
    MemoryLists(Interval(from, to), ServedLimit(limit))
        \cup DynamoLists(Interval(from, to), ServedLimit(limit))

(* The settings of the period: one that ends now, or an exact one, of which *)
(* either date may be missing, lie long ago or ahead, or follow the other.  *)
Periods ==
    [from : {Unset}, to : {Unset}, back : Spans]
        \cup [from : Dates \cup {Unset}, to : Dates \cup {Unset}, back : {Quarter}]

TimeWindow(period, now) ==
    [from |-> IF period.from = Unset THEN now - period.back ELSE period.from,
     to   |-> IF period.to = Unset THEN now ELSE period.to]

(* refreshData: two requests, one of the selected period for the list, one  *)
(* of the last day for the chart, each answered from what is stored when it *)
(* arrives.                                                                 *)
ListAnswers(window) == Answers(window.from, window.to, ListLimit)
ChartAnswers(now)   == Answers(now - Day, now, ChartLimit)

-----------------------------------------------------------------------------
(* groupProcessEvents: an answer is a sequence of positions in stored. *)

Or(s, otherwise) == IF s = "" THEN otherwise ELSE s

(* A record's id is unique to it: its position stands for it. *)
KeyOf(i) ==
    LET e == stored[i] IN Or(e.corr, Or(e.message, Or(e.trace, ToString(i))))

\* What the last event of a list says, when each overwrites the one before.
LastOf(list, field, none) == IF list = <<>> THEN none ELSE stored[Last(list)][field]

LastWorkflow(members) ==
    LastOf(Filter(members, {i \in Range(members) : stored[i].workflow # ""}), "workflow", "-")

LastTagged(members) ==
    LastOf(Filter(members, {i \in Range(members) : stored[i].tagged # ""}), "tagged", "")

Named(members, name) == Len(Filter(members, {i \in Range(members) : stored[i].name = name}))

(* Variant: the last event's total replaces the others. *)
TotalStepsOfLast(members) == stored[Last(members)].total

TotalSteps(members) == Max({stored[i].total : i \in Range(members)})

(* Variant: only finished steps are counted. *)
InferExpectedFinished(members, finished) == Max({finished, 1})

(* inferExpectedSteps, when no event says how many steps there are. *)
InferExpectedSteps(members, finished) ==
    Max({stored[i].index : i \in Range(members)} \cup {finished, 1})

StatusOf(completed, failed, stopped, expected) ==
    IF failed > 0 THEN "failed"
    ELSE IF stopped > 0 THEN "stopped"
    ELSE IF completed >= expected THEN "completed" ELSE "running"

Process(answer, key) ==
    LET members   == Filter(answer, {i \in Range(answer) : KeyOf(i) = key})
        completed == Named(members, "completed")
        failed    == Named(members, "failed")
        stopped   == Named(members, "stopped")
        finished  == completed + failed + stopped
        total     == TotalSteps(members)
        expected  == IF total # 0 THEN total ELSE InferExpectedSteps(members, finished)
        times     == {stored[i].ts : i \in Range(members)}
    IN  [id |-> key, events |-> members,
         workflow |-> LastWorkflow(members), tagged |-> LastTagged(members),
         completed |-> completed, failed |-> failed, stopped |-> stopped,
         expected |-> expected, remaining |-> Max({expected - finished, 0}),
         status |-> StatusOf(completed, failed, stopped, expected),
         startedAt |-> Min(times), updatedAt |-> Max(times)]

GroupProcessEvents(answer) == {Process(answer, KeyOf(i)) : i \in Range(answer)}

(* processSteps: the steps of a process and the last outcome of each. *)
StepKey(i) == <<stored[i].index, Or(stored[i].step, stored[i].name)>>

Outcomes == {"success", "failed", "stopped"}

Decided(p, k) == {i \in Range(p.events) : StepKey(i) = k /\ stored[i].status \in Outcomes}

ProcessSteps(p) ==
    [k \in {StepKey(i) : i \in Range(p.events)} |->
        LastOf(Filter(p.events, Decided(p, k)), "status", "running")]

-----------------------------------------------------------------------------
(* Queries of widgets, over the processes P of an answer. *)

(* processSearchFields: a tag takes the place of the field it is named after. *)
SearchField(p, key) == IF key = "status" THEN Or(p.tagged, p.status) ELSE p.workflow

FilterQueryProcesses(P, key, value) == {p \in P : SearchField(p, key) = value}

Statuses == {"completed", "failed", "stopped", "running"}

StatusSeries(P) == [s \in Statuses |-> Cardinality({p \in P : p.status = s})]

TopRows(P, key) ==
    [v \in {Or(SearchField(p, key), "-") : p \in P} |->
        Cardinality({p \in P : Or(SearchField(p, key), "-") = v})]

(* Variant: the loop stops before the end of the period. *)
BucketsBefore(from, to, size) ==
    IF from > to THEN {} ELSE 0 .. ((to - from + size - 1) \div size) - 1

(* One bucket for from, from + size, ... up to and including to. *)
BucketsOf(from, to, size) == IF from > to THEN {} ELSE 0 .. (to - from) \div size

TimeBuckets(P, seconds, from, to) ==
    LET size == Max({Minute, seconds})
    IN  [b \in BucketsOf(from, to, size) |->
            Cardinality({p \in P : (p.startedAt - from) \div size = b})]

FloorHour(t) == t - (t % Hour)

(* hourlyBuckets, with the window of the moment of drawing. *)
HourlyBuckets(P, now) ==
    LET from == FloorHour(now - Day)
    IN  [b \in BucketsOf(from, FloorHour(now), Hour) |->
            Cardinality({p \in P : FloorHour(p.startedAt) = from + b * Hour})]

-----------------------------------------------------------------------------
(* Properties. *)

\* Every window that the page may ask for or draw.
Windows == {TimeWindow(period, now) : period \in Periods, now \in Moments}

SumOf(series) == SumOver(series, DOMAIN series)

Simultaneous(p) ==
    \E i, j \in Range(p.events) : i # j /\ stored[i].ts = stored[j].ts

\* What must not depend on the order of an answer.
Facts(p) ==
    [id |-> p.id, completed |-> p.completed, failed |-> p.failed, stopped |-> p.stopped,
     expected |-> p.expected, remaining |-> p.remaining, status |-> p.status,
     startedAt |-> p.startedAt, updatedAt |-> p.updatedAt, steps |-> DOMAIN ProcessSteps(p)]

\* What the last event decides.
LastWord(p) == [workflow |-> p.workflow, tagged |-> p.tagged, steps |-> ProcessSteps(p)]

\* Two pages, grouped from answers with the same events, have the same content.
Alike(a, b) ==
    UNION {Range(p.events) : p \in a} = UNION {Range(p.events) : p \in b}
        => /\ {Facts(p) : p \in a} = {Facts(p) : p \in b}
           /\ \A p \in a, q \in b :
                 p.id = q.id /\ ~Simultaneous(p) => LastWord(p) = LastWord(q)

(* The two adapters may answer with events of one time in any order, and    *)
(* the page has the same processes all the same, with the same counters,    *)
(* status, times and steps; workflow, tags and outcome of each step as      *)
(* well, unless two events of the process have one time (app.js:207-261).   *)
SameWhateverOrder ==
    \A w \in Windows :
        \A a, b \in {GroupProcessEvents(x) : x \in ListAnswers(w)} : Alike(a, b)

\* Every list of processes, and the chart's processes, that the page may get.
Listed == UNION {{GroupProcessEvents(a) : a \in ListAnswers(w)} : w \in Windows}

Charted(now) == {GroupProcessEvents(c) : c \in ChartAnswers(now)}

Shown(p, outcome) == {k \in DOMAIN ProcessSteps(p) : ProcessSteps(p)[k] = outcome}

\* Each step came to one outcome, reported once.
OncePerStep(p) == \A k \in DOMAIN ProcessSteps(p) : Cardinality(Decided(p, k)) <= 1

\* The emitting application names an event after the outcome it reports.
Consistent(p) ==
    \A i \in Range(p.events) :
        /\ stored[i].status = "success" <=> stored[i].name = "completed"
        /\ stored[i].status = "failed"  <=> stored[i].name = "failed"
        /\ stored[i].status = "stopped" <=> stored[i].name = "stopped"

\* Every event has a step_index, which tells the steps apart, and none is above
\* the total_steps that some event may give.
Numbered(p) ==
    /\ \A i \in Range(p.events) : stored[i].index > 0
    /\ \A i, j \in Range(p.events) : stored[i].index = stored[j].index => StepKey(i) = StepKey(j)
    /\ \A i, j \in Range(p.events) : stored[j].total # 0 => stored[i].index <= TotalSteps(p.events)

\* What the page shows as outcomes of steps, beside what it counts.
StepsMatch(p) ==
    LET shown == [o \in Outcomes |-> Cardinality(Shown(p, o))]
    IN  /\ shown["success"] <= p.completed
        /\ shown["failed"] <= p.failed /\ shown["stopped"] <= p.stopped
        /\ OncePerStep(p) =>
              /\ shown["success"] = p.completed
              /\ shown["failed"] = p.failed /\ shown["stopped"] = p.stopped
              /\ Numbered(p) /\ p.status = "completed"
                    => DOMAIN ProcessSteps(p) = Shown(p, "success") /\ p.remaining = 0

(* The counters at the top of a process and the steps listed under them     *)
(* come from different fields, name and status.  When the application gives *)
(* both alike they agree: no more steps are shown with an outcome than are  *)
(* counted, and as many when each step reported one outcome once.  Then,    *)
(* when the steps are numbered, a process is only called completed when all *)
(* its steps are shown as done: none is still running (app.js:248-261,      *)
(* 566-599).                                                                *)
StepsMatchCounters ==
    \A p \in UNION Listed : Consistent(p) => StepsMatch(p)

\* The events of the page in an interval, and the ids of their processes.
Within(from, to) == Cardinality(Matching(Interval(from, to)))

IdsWithin(from, to) == {KeyOf(i) : i \in Matching(Interval(from, to))}

ProcessIds(P) == {p.id : p \in P}

Began(P, from, to) == Cardinality({p \in P : from <= p.startedAt /\ p.startedAt <= to})

Untagged(P) == \A p \in P : p.tagged = ""

\* The series of a widget that says how many processes of P there are.
SeriesCountEach(P) ==
    /\ SumOf(StatusSeries(P)) = Cardinality(P)
    /\ \A key \in {"status", "workflow"} : SumOf(TopRows(P, key)) = Cardinality(P)
    /\ Untagged(P) =>
          \A s \in Statuses :
              StatusSeries(P)[s] = Cardinality(FilterQueryProcesses(P, "status", s))

\* The buckets of a window: its last one may end after the window.
BucketsCountEach(P, from, to) ==
    \A seconds \in Rollups :
        LET sum == SumOf(TimeBuckets(P, seconds, from, to))
        IN  /\ Began(P, from, to) <= sum
            /\ sum <= Began(P, from, to + Max({Minute, seconds}) - 1)

HoursCountEach(C, draw) ==
    SumOf(HourlyBuckets(C, draw)) = Cardinality({p \in C : p.startedAt >= FloorHour(draw - Day)})

(* Every series of a widget counts each process it is about once: status    *)
(* and group series all of them, time buckets those that began in the       *)
(* window of the moment of drawing, while the processes stay those of an    *)
(* earlier answer, of the same period or of another; the last bucket may    *)
(* reach past the window's end.  The hourly chart counts those that began   *)
(* in the hours it shows.  A process is only missing from the list when its *)
(* period has more than 1000 events, and from the chart when the day has    *)
(* more than 200 (app.js:166-205, 446-470 and 718-815; metrics.go:34-38).   *)
ChartsCountEach ==
    /\ \A P \in Listed : SeriesCountEach(P) /\ \A w \in Windows : BucketsCountEach(P, w.from, w.to)
    /\ \A w \in Windows : Within(w.from, w.to) <= MostEvents =>
          \A a \in ListAnswers(w) : ProcessIds(GroupProcessEvents(a)) = IdsWithin(w.from, w.to)
    /\ \A now \in Moments : \A C \in Charted(now) :
          /\ \A draw \in Moments : draw >= now => HoursCountEach(C, draw)
          /\ Within(now - Day, now) <= DefaultEvents => ProcessIds(C) = IdsWithin(now - Day, now)

(* DOCUMENTATION.md:57: a bar chart with the number of processes per hour.  *)
(* When no event is stored between the two answers, every process of a list *)
(* whose window lies in the day of the chart is one of those the chart      *)
(* counts.                                                                  *)
ListedAreCharted ==
    \A now \in Moments : \A w \in {x \in Windows : now - Day <= x.from /\ x.to <= now} :
        \A a \in ListAnswers(w), c \in ChartAnswers(now) :
            ProcessIds(GroupProcessEvents(a)) \subseteq ProcessIds(GroupProcessEvents(c))
=============================================================================
