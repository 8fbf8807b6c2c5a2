# Custom Business Metrics: TLA+ verification project

Custom Business Metrics collects business events from workflows, stores them for
a limited time and shows them. This directory holds TLA+ models of it, the TLC
configurations that check them, and TLAPS proofs. Source paths are relative to
the repository root; DOCUMENTATION.md and README.md there are the documents the
findings quote.

## 1. Inventory

| component | source | state | operations | concurrency |
|---|---|---|---|---|
| embeddable agent | `agent/agent.go` | channel `events`, `batch`, `done`, ticker | `Emit`, `Close`, `Run` | many emitters, one `Run` goroutine, `select` over four channels |
| UDP agent | `agent/cmd/agent`, `agent/internal/collector`, `agent/internal/forwarder` | two channels of 1000, one batch, one event in each hand | UDP read, bridge, flush, interrupt | four goroutines in a row, one context |
| validation and filters | `service/internal/core/metric.go`, `httpapi/server.go` | none | `Validate`, `parseFilter`, `matches` | none; one result depends on map iteration order |
| use cases | `service/internal/application/metrics.go` | none of their own | `Ingest`, `Events`, `Summaries`, `Series`, `Dimensions` | one goroutine per HTTP request |
| runtime configuration | `service/internal/application/config.go` | `RuntimeConfig` | `Get`, `Save` | read-write lock; read by every ingestion |
| memory store | `adapters/memory/store.go` | slice of records with expiry | save, list, summarise, prune | one mutex |
| DynamoDB store | `adapters/dynamodbstore` | a table with two indexes | put per event, paged scan or query | none of its own; several calls per operation |
| HTTP API, MCP server | `adapters/httpapi/server.go`, `service/mcp.go` | none | routes, tools; the tools call the API over HTTP | one goroutine per request |
| dashboards | `application/dashboards.go`, both stores | a map of definitions, in memory in both stores | list, save, delete | last writer wins |
| service process | `service/service.go`, `service/cmd/service` | two servers | start, graceful shutdown | one five-second context for both shutdowns |
| webview | `webview/app.js` | settings, widgets, events, a timer | refresh, edit, resize, group into processes, draw | overlapping asynchronous refreshes |
| generator, examples, infrastructure | `testapp`, `examples`, `infra` | | | |

How they interact: a workflow calls `Emit` (or sends a UDP packet); an agent
POSTs batches to `/v1/metrics`; the service validates a batch as a whole, reads
the retention from the configuration and hands the batch to a store; browser and
MCP clients read through `/v1/metrics...`; the stores drop what has expired; the
page groups the events it gets into processes and computes everything it shows
from those.

Hard behaviours: retries without an idempotency key (a lost answer means
duplicates), a bounded retry buffer, two ways of shutting down, backpressure over
three queues, batches that DynamoDB stores one item at a time, eventually
consistent paged reads during writes, expiry computed from a configuration that
may change under way, answers cut at a limit, definitions that are read, edited
and written back as a whole, a server that is shut down before the one that calls
it, and figures of one process that come from different fields of its events.
`PROJECT.json` lists the hazards line by line, with the properties that watch them.

What makes each component correct, in a sentence: an agent delivers accepted
events in order, at least once (embeddable) or at most once (UDP), and loses them
only where it must; the service stores a request whole or refuses it, or tells
how much of it may remain; it applies a retention that was in force; a query
answers with everything that had settled before it and nothing that had expired;
a dashboard keeps the time of its creation; a shutdown in time cuts nothing off;
the page shows each process once and every figure of it agrees with the others.

## 2. Modules

| module | models | state and actions |
|---|---|---|
| `MetricDelivery` | what an agent promises | accepted, settled, stored, displaced |
| `MetricAgent`, `MCMetricAgent` | `agent/agent.go` | the fields of `Agent`, the locals of `Run`, the request under way; one action per `select` case, per outcome of a send, and for `Emit`, `Close`, cancellation and the ticker |
| `UDPAgent` | the UDP agent | the channels, the event each goroutine holds, the batch, the requests on the wire; one action per receive, send and flush |
| `Counting` | | sequences of consecutive numbers, which accepted events are |
| `Collections` | pruning and matching of `memory.Store`, the page's filters, deletion of a widget; adding up | `Filter` and `SumOver`, recursive functions |
| `SequenceLemmas` | | lemmas about both, about enumerations, greatest and least elements, quotients, and two ways of induction |
| `MetricAgentProofs`, `UDPAgentProofs`, `MemoryServiceProofs`, `DynamoServiceProofs`, `ServiceProcessProofs` | | theorems about the module of the same name |
| `PageProofs` | | theorems about the page and what it shows: `Webview`, `MetricLists`, `MetricQueries`, `Processes` |
| `MetricServiceProofs` | | lemmas about the steps both stores share |
| `MetricEvents` | `Validate`, `parseFilter`, `normalizeFilter`, `matches`, the requests of the MCP tools | operators only; `Validated` returns the set of possible results, because tag keys that collide after trimming are decided by map order; a filter may give a tag as `tag.k`, `tags=k:v`, `trace_id` or `tagIn.k` |
| `MetricRepository` | what the service promises to readers | records written and settled, queries asked and answered |
| `MetricService` | the steps before a repository is called | per request: state of its handler; clock, retention; actions `RefuseBatch`, `Validate`, `ReadConfig`, `SaveConfig`, `Ask`, `Tick` |
| `MemoryService`, `MCMemoryService` | service over `memory.Store` | `events`; `SaveMetrics` and `List` are atomic, as under the mutex |
| `DynamoService`, `MCDynamoService` | service over `dynamodbstore.Store` | table, per view what has settled, puts that may come late; `BeginPuts`, `PutItem`, `PutFails`, `BeginScan`, `ReadPage`, `ScanFails`, and DynamoDB's own `LatePut`, `Settle`, `Delete` |
| `MetricLists` | `ListEvents` of both stores | `stored`, the sequence of stored events; `Save` stores any of those emitted; the set of lists each store may answer with |
| `MetricQueries` | summaries, series and dimensions of both stores | as `MetricLists`; the answers are operators |
| `Processes`, `MCProcesses` | from stored events to the page: the periods of `timeWindow`, the two requests of `refreshData`, the limit rule of `MetricService.Events`, `groupProcessEvents`, `processSteps`, widget queries and series, the hourly chart | as `MetricLists`; the pages are operators on an answer, and nothing relates the answer for the list to the one for the chart |
| `ServiceProcess`, `MCServiceProcess` | `cmd/service/main.go`, `DashboardService`, the dashboards of both stores, tool calls | phase of the process, requests and tool calls under way, definitions, what clients hold; a client posts any definition of `Drafts`, with whatever id and time of creation, or an edited copy of one it has read; the history variable `claimed` has the ids it posted without the time read with them; `Save` (defaults, no lock) and `SaveDashboard` (under the lock) are two steps |
| `Webview`, `MCWebview` | `webview/app.js`: refreshes, settings, dashboard grid | controls, settings, timers, refreshes in flight, what is shown, widgets, what is drawn, localStorage; one action per event handler, per answer, and for a reload |

`MemoryService` and `DynamoService` extend `MetricService`, which extends
`MetricEvents`. Both are checked against `MetricRepository`; `MetricAgent` is
checked, and proved, against `MetricDelivery`. `Processes` and `MetricQueries`
extend `MetricLists`: what the page shows is computed from what either store may
answer under the service's limits.

Abstractions. An accepted event is its number in the agent modules, a small record
(name, time, trace id, two tags) in the service modules, and a record of the fields
the page reads in `Processes`. The HTTP exchange of the agents is reduced to what the
service stored and whether the agent learned of it. DynamoDB is external: an
eventually consistent page holds every item that has settled on all replicas of what
is read and any subset of those that have not; an index holds the items that carry
its key; a failed call may take effect later; expired items go at some time. Pages
are fixed by the name of an event.

In `MetricQueries` a walk that fills a map is a recursive function of the number of events
met, and a map a function that grows by a key; values are integers, so that the order in
which they are added does not change a sum. What a float64 loses to rounding is left out.

A definition commented "Variant" is a plausible mistake in the definition that
follows it. No action uses it; put in the place of that definition it makes the
property named in `PROJECT.json` fail, which shows what the property guards.

## 3. Runs

| run | question | bounds |
|---|---|---|
| `agent` | order, loss, duplicates, shutdown and overflow of the embeddable agent, `MetricDelivery`, and liveness | batch and buffer 2, 4 events of which the third is refused by the service, 2 sends with an unknown outcome |
| `agent_close_drains_all` | expected violation: `Close` drains all accepted events | 3 events, none refused, 1 such send |
| `udp_agent` | order, at most once, backpressure, interrupt | channels of 1, batch of 2, 5 packets, one refused by the service |
| `memory_service` | requests whole, `MetricRepository` | 2 requests of 2 events or one refused, 1 query of three kinds, limit 2, retention 2 and 1, clock to 3 |
| `dynamo_service` | what a request leaves behind, expiry, `MetricRepository` | 1 request, 1 query of three kinds over 2 pages, limit 1, retention 2 and 1, clock to 3 |
| `metric_queries` | the computations of both stores against reference definitions | every sequence of up to 3 events over 2 names, 2 sources, 3 times, 2 values; every filter, limits 1 to 3, buckets 1 to 3 half-seconds, a month of 2 |
| `correlation_tool` | expected violation: a query by `correlation_id` answers with that execution | `memory_service` with the MCP tools' queries |
| `service_process` | dashboards edited by several clients, shutdown, crash, restart | 2 clients, 1 tool, clock to 2, 1 new id, a definition with a creation time ahead of the clock and one with an id of the client's own but no time, 1 id so claimed, 2 starts |
| `webview` | timer, data shown, screen and localStorage agree | 3 refreshes, 2 periods, a timer or none, dashboards of up to 2 widgets, reload at any time |
| `webview_period` | expected violation: the data shown is that of the selected period | as `webview` |
| `processes` | what the page makes of events | every sequence of up to 4 of 8 events of 5 executions, every order either store may answer in, last periods within and beyond the day of the chart, exact periods with both dates, one or none, in either order, drawn at once or later under any of them |
| `chart_of_the_day` | expected violation: the chart counts the processes of the list | as `processes` |

Why the bounds suffice. With batch and buffer of 2 the third event overflows the buffer
while sends fail, the fourth fills the channel behind it, and a drain finds more than a
batch; with the third event refused, events before and after it compete for the buffer;
two sends of unknown outcome are the least that may arrive in the wrong order. With
channels of 1, five packets fill every place of the UDP pipeline. Two requests of two
events exceed the limit of 2; a clock of 3 and retentions of 2 and 1 let a later record
expire before an earlier one, before, during and after a query. Two pages are the least
in which something can change behind a scan or ahead of it. Two clients, each between
its list and its save, suffice for every lost update and for a save after a delete; one
new id for two versions of a definition the service named, one claimed id for two of one a
client named, each with a creation time missing, in the past or ahead; two starts for what
a restart keeps. Three refreshes of the page are two that overlap and
one more after a reload or a failure; the moves of a resize reach both bounds of the
width. In `processes` the limits 200, 1000 and 5000 are scaled to 2, 3 and 5, so four
events exceed each of those that the code can exceed, and hours and days to 2 and 4 units, so that
periods and buckets begin in the middle of an hour; last periods of 2 and 6 units end inside and
reach beyond the day, and exact dates of 2 and 5 lie before, within and after it; the eight events name their execution
in every way the code knows (correlation id, message id, trace id, nothing), carry or
lack total and index, and repeat when stored twice.
`MaxEvents`, `MaxFaults`, `MaxPackets`, `MaxClock`, `MaxRefreshes`, `MaxWidgets`,
`MaxIds`, `MaxStarts` and `MaxClaims` are bounds of the models, not of the code.

Deadlock. The agents stop for good after a shutdown; `MetricQueries`, `Processes` and
the service models stop when their bounded inputs are used up; only for these is deadlock
checking off. That the UDP pipeline never blocks is the liveness property
`EventuallyDecided`. The page can always do something, and deadlock is checked.

Fairness. `MetricAgent` and `UDPAgent` assume weak fairness of each goroutine and of
the ticker: the Go scheduler runs a goroutine that can run. A receive case of a
`select` gets strong fairness, since `select` picks uniformly among ready cases, so
one that is ready again and again is taken. `EventuallySettled` also assumes a service
that recovers (strong fairness of a stored and answered send); without that the claim
is false, and the code does not promise it. `ShutdownEnds` is checked in the same run, so under
the same specification `FairSpec`, but does not lean on it: the refused event never is stored, and
after a cancellation sends fail for good, so the shutdown is also checked with sends that
never succeed. The service and the page state safety only:
what they do next depends on clients and users, of whom nothing can be assumed.

## 4. Findings

* `agent_close_drains_all`: DOCUMENTATION.md:448 says `Close()` drains all accepted
  events before the final send. `Emit` accepts events after the drain too, even after
  `Run` has returned; those stay in the channel. What `Close` does guarantee is
  `CloseDrains`: everything accepted *before* it is in the final batch.
* `webview_period`: DOCUMENTATION.md:104 promises the processes of the selected period.
  `refreshData` shows the answers of whichever refresh ends, so those of an older one
  that come late replace newer ones; the page keeps them, with status Online, until the
  next refresh. What holds is `ShownTogether`: list and chart belong together, and if the
  refresh started last also ended last, its data is shown.
* `correlation_tool`: the MCP tool `get_execution_by_correlation` sends the parameter
  `correlation_id`, which `parseTags` ignores (it knows `tag.correlation_id`), so it gets
  the events of every execution. `service_test.go` asks the same way and passes because
  its store holds one event.
* `chart_of_the_day`: DOCUMENTATION.md:57 describes a bar chart with the number of
  processes per hour. The page asks for 5000 events of the last day (`webview/app.js:194`);
  `MetricService.Events` does not cut a limit above 1000 but replaces it by 200
  (`application/metrics.go:36`), and the stores answer with the 200 oldest. On a day with more
  events than that, processes of the list are missing from the chart. What holds is
  `ChartsCountEach`: up to 200 events in the day of its own request the chart has every process with
an event in it, and each hour shown counts those that began in it, once.

`ListedAreCharted` compares answers of one state, for periods within the day of the chart, so
that the limit alone is what makes it fail. A listed process may be missing from the chart for
two more reasons, which no document excludes: its period is longer than a day or lies before
it, or its events were stored between the two requests of a refresh.

Observations that contradict no document.

* The two stores cut an event list at different ends of the order of arrival (`ListsAgree`
  states how they relate); the latest value of a summary is the last saved one in memory
  and the newest one in DynamoDB (`LatestIsNewest`); dimensions come from the last 30 days
  in DynamoDB and from everything that has not expired in memory (`DimensionsAgree`).
* An event the service refuses blocks an embeddable agent until overflow displaces it
  (`PoisonBlocksLater`). When the final flush fails, `Run` returns nil and the batch is gone.
* After a failed put a part of a request remains in the table although it was answered 400,
  and is stored again by a retry.
* The page asks for events of the source `routing-slip-app` only (`webview/app.js:185`);
  DOCUMENTATION.md:195 and :216 show `routing-slip-pattern` as a source, and events of
  that source never show.
* Events without a correlation id are grouped by message id or trace id, so one execution
  whose events differ in this is shown as several. An execution whose events lack
  `total_steps` and `step_index`, or have duplicates from a retry, may be shown as completed
  before it is; one step that failed and succeeded on a second try keeps the process failed.
  `StepsMatchCounters` states when figures and steps agree: the application names its events
  after the status they report (`Consistent`), each step reports one outcome once, and every
  event carries a `step_index` of its own step that is no larger than `total_steps`
  (`Numbered`). One of the emitted events of `processes`, "retried" with status "success",
  breaks the first, others the second and third.
* A tag called `status` takes the place of the status of the process in filters.
* A save of a dashboard reads the time before the store takes its lock, so `UpdatedAt` may
  go back; only `CreatedAt` is kept, if the client returns it with the id (`CreatedOnce`). `Save`
  takes any id and any `CreatedAt` from the client: one id posted twice without `CreatedAt` has two
  creation times, and one ahead of the clock is kept, so a definition may be saved before it
  was created. The page's rules for periods are as loose: an exact one may end before it begins,
  and then lists nothing. A dashboard deleted by one client comes
  back when another saves its copy. Dashboards are lost by a restart on DynamoDB too. A widget
  whose metric is edited keeps the query that was derived from the old one. The page does
  not use the dashboards of the service; it keeps its own in localStorage.
* Only SIGINT shuts the service down gracefully.

## 5. Proofs

All theorems hold for every value of the constants, under the named assumptions of the
modules. Sizes are positive and bounds are naturals. `BatchAssumption` gives the fields of a
submitted event their types, trace ids among the tag values. `PageAssumption` lets every
name that is submitted lie on a page. newID does not repeat itself (`NewIdAssumption`; the
code draws 64 random bits). `DraftAssumption` gives the fields of a definition the types of
JSON and nothing else: any id, any time of creation, any name and period, any widgets.
`QueryAssumption` says that the query made from a metric, aggregation and metric joined by a
colon, is not the empty string: a fact about strings that the provers do not have. `WebviewAssumption` gives presets a query and a width of 2 to 12, as those
of `app.js` have. `QueriesAssumption` gives times after Go's zero time, positive limits, buckets
and clock ticks, and says that an empty filter is no name of a metric (`Validate` refuses an
empty one); `ProcessesAssumption` gives the page's and the service's limits their order
(200 below 1000, which the list asks for, and 5000 above) and makes a day a whole number of
hours; periods may be of any length, and exact ones have any two dates. TLC evaluates all of them. A theorem rests on the
assumptions of its own module: those of `PageProofs` about queries cite `QueriesAssumption`
only, those about processes `ProcessesAssumption` only.

| module | theorem | property |
|---|---|---|
| `MetricAgentProofs` | `TypeCorrect` | `TypeOK` |
| | `Ordered`, `FirstInAcceptedOrder` | `PendingInOrder`, `FirstStoredInOrder` |
| | `NoLoss`, `ExactlyOnce` | `NothingVanishes`, `ExactlyOnceWithoutFaults` |
| | `DrainedAtClose`, `CleanClose` | `CloseDrains`, `CleanCloseDelivers` |
| | `Overflow`, `NoNeedlessOverflow` | `OverflowDropsOldest`, `OverflowOnlyWhileFailing` |
| | `HeadOfLine` | `PoisonBlocksLater` |
| | `AgentImplementsDelivery` | `ImplementsDelivery` |
| `UDPAgentProofs` | `TypeCorrect`, `Ordered`, `OneFate` | `TypeOK`, `PipelineInOrder`, `ExactlyOneFate` |
| `MemoryServiceProofs` | `TypeCorrect` | `TypeOK` |
| | `AllOrNothing`, `InForce` | `BatchAllOrNothing`, `RetentionInForce` |
| | `MemoryImplementsRepository` | `ImplementsRepository` |
| `DynamoServiceProofs` | `TypeCorrect` | `TypeOK` |
| | `Prefix`, `InForceAlways` | `StoredPrefix`, `RetentionInForce` |
| | `DynamoImplementsRepository` | `ImplementsRepository` |
| `ServiceProcessProofs` | `TypeCorrect` | `TypeOK` |
| | `OneCreation`, `GracefulShutdown` | `CreatedOnce`, `ShutdownCutsNothingOff` |
| `PageProofs` (page) | `TypeCorrect` | `TypeOK` |
| | `DataShownTogether` | `ShownTogether` |
| | `ScreenShowsDashboard`, `LayoutIsPersisted` | `ScreenMatches`, `LayoutPersisted` |
| `PageProofs` (queries) | `ListsTheorem`, `DimensionsTheorem` | `ListsAgree`, `DimensionsAgree` |
| | `SummariesTheorem`, `LatestTheorem` | `SummariesExact`, `LatestIsNewest` |
| | `SeriesTheorem` | `SeriesConserves` |
| `PageProofs` (processes) | `OrderTheorem` | `SameWhateverOrder` |
| | `StepsTheorem`, `ChartsTheorem` | `StepsMatchCounters`, `ChartsCountEach` |

Each argument has three facts, that the initial states satisfy an inductive invariant, that
every step keeps it (one proof step per action) and that it implies the property, and ends
in a PTL step. In a refinement the invariant and the step give a step of the abstract
specification, or a stutter.

`MetricAgent`. `IOrder` is `PendingInOrder` with its arithmetic: the batch followed by the
channel counts up from `Settled + 1`, so every step shifts one boundary of an interval.
`ISent`: while a request is in state "stored", its batch is in the store, so clearing the
batch on success loses nothing. `IStored`: the events in the store and in abandoned
requests have been accepted. `IClose` is `CloseDrains` with `closedAt` at most the number
of accepted events. `ILate`: an abandoned request that holds an event holds all those not
yet settled before it, so storing it late overtakes none; `ILateRun`: it is a run of numbers
that starts among the settled ones, so without overflow whatever it stores first comes
after all earlier events (`FirstInAcceptedOrder`). `IOnce`: without a fault nothing is stored
that the agent will send again, so each batch is appended to a store that has none of
it. `IFailing`: if the batch size is at most the buffer size, a batch is at its limit outside
a send only after a failed send.

`UDPAgent`. The batch, the two channels and the two hands are five pieces of one interval
that ends at the last packet read. A step moves one event across one border between
neighbours (`SequenceLemmas` says what that does to an interval) or the whole batch out;
`IFate` says that what has left the pipeline is, without overlap, on the wire, stored or
dropped, and that it is older than what is in it.

`MemoryService`, `DynamoService`. `MetricServiceProofs` proves once, for the steps both
share, that a handler past validation has a batch that is valid as a whole (`IHandlers`),
that its retention was in force while it ran (`IRetention`), and the types of batches and
queries (`IData`, `IQueries`). Memory adds that whatever was stored belongs to a request
answered 202 (`IWritten`), DynamoDB that the items of a request are `1 .. next - 1`, or
`1 .. next` when a put that failed was applied, and that an item which may still come late has
just the position `next` (`IPut`): without that a late put could leave a gap.
`RetentionInForce` is proved from `RetentionFits`: no retention of the runtime
configuration is beyond the 292 years that time.Duration holds. The premise is needed, as
beyond it `Lifetime` wraps.

Their refinement of `MetricRepository`. In memory a query is answered in one step from what
is there then. `IMemory` says that the list repeats nothing and holds what is owed to each
open query: every record that had settled when it was asked and has not expired (`Owed`).
Pruning keeps that, as it removes only what has expired. The answer is a prefix of the
matching records, cut at the limit, so counting (`PrefixCount`) shows that it leaves
something out only when it is full. In DynamoDB a scan reads page after page, each step
in another state of the table. `IScan` (`Scanning`) is about each of them: what it has found
matches, was written and had not expired when it began; and a record that had settled when
the query was asked and still must be answered is still settled, and has been found if it
matches and lies on a page already read. For the choice of the index, `KeyOfMatch` shows
that an event which matches a filter carries the key the filter selects, whichever way the
trace id was given: that rests on what `Validate` makes of an event.

`ServiceProcess`. `CreatedOnce` speaks of what clients hold and of what is stored; a save
under way that was posted under an id will be one of its versions too, so `IHeld` states the
agreement for those as well (`Held`). It also says where an id comes from (`Saved`): newID gave
it out, it is the seeded one, or a client claimed it. Only then is a new definition alone with
its id, and only a claimed one may come without a time of creation. What a client posts is either
a version with the id and time it has read, which agrees with all others because its copy does, or
it puts its id among the claimed (`Returned`). `IShutdown`: when the API has
been shut down in time, no request is active and no tool is waiting for one. For `TypeOK`,
`Origins` shows that whatever a step adds to the definitions of the service was made by `Save`
or is the seed (`Made`), and `IWhole` that all of these are whole, whatever was posted.

`Webview`. Settings, data and dashboard have an invariant each, and a step of the user on the
dashboard leaves the first two alone (`EditingKeeps`). `IConf`: every change of the settings
clears the timer before it sets one. `IData`: while the refresh started last is under way or
shown, the period selected is the one it asked for, since nothing changes the settings
without a refresh or a reload. `IGrid`: the widgets are a layout, no two with one
identity; what is drawn is the widgets, or, during a resize whose element was replaced, the
widgets with an older width of that one (`Outdated`); and localStorage holds them, up
to the width under way (`Stored`). Every change is proved to turn a layout into a layout
(`WithoutOne`, `InsertOne`, `FreshId`, `WidthSet`).

Queries and processes. What is read depends on `stored` alone, and the inductive invariant is
that it is a sequence of emitted events (`IStored`); the work is in the operators, each of
which is proved correct for every list.

* *Lists.* The orders that sorting may leave are the enumerations of a set in order of time
  (`TimeOrdersAre`), and one exists for every finite set (`TimeOrderExists`), so the properties are
  not about an empty set of answers. `FirstOf` says what a cut leaves. For `ListsAgree`,
  `OldestFirst`: in two enumerations by time, one of all matches and one of some of them, the
  first is nowhere newer. If it were, at position `n`, the first `n` of the second
  would all be among fewer than `n` of the first: a count of distinct elements.
* *Summaries and series.* `SummariesWalk` and its like unfold the recursion once; the rest goes
  along the walk. A table is exact for the events met so far, and one event more leaves it exact
  for those and itself (`AddToEntry`: a step changes the entry of its own key and no other;
  `ExactStep`, `NewestStep`, `LastMetStep`, `PlotStep`). At the end all matches have been met, once
  each, since the walk is along an enumeration. As a sum does not depend on the order
  (`SumPicks`), both adapters come to the same. `LabelIsNear` bounds the label of a
  point by the remainder of the two divisions.
* *Processes.* `ProcessIs` describes a process by the set of its events alone: the counters
  count a set, times and totals are greatest and least elements, and by `OneOrder` a list
  whose times all differ has one order only, which is why the last word of a process
  depends on the order just when two of its times are equal.
  For `StepsMatchCounters`, `ShownCount` maps the events with an outcome to their steps: the
  map reaches every step shown with it, and is a bijection when each step reported once.
  A completed process then shows at least as many steps as done as are expected. There are
  no more steps than numbers, and none of these is above the expected one: no step
  is left to run.
* *Charts.* A series sends each process to one key, so its counts add up to the number of
  processes sent to a key of the series (`SumCounts`, by adding one key at a time). What is left
  is which processes those are: all for status and group; for time buckets, `DivAtLeast` and
  `DivGrows` show that the quotient lies between 0 and the last bucket for every process that
  began in the window drawn, and for none that began before it or a bucket after its end. The
  window need not be that of the answer, which is why the sum has two bounds. For the same last
  period, drawn at the answer or later, they meet: no process of the answer began after the window.
  `ListIs` and `ChartIs` say which processes an answer has: below its limit an answer is all
  matches of its window (`AnswersAre`).

A computation over data is within reach as a recursive function. `SequenceLemmas` proves that it
is defined (`FilterDefined`, `WalkDefined`, `SumDefined`) and what it returns. The induction
theorems of the library take an operator as a parameter, which no installed prover can
instantiate; `Upwards` and `Elementwise` take instead the *set* of the numbers, or of the
subsets of a finite set, that have what is to be shown, and rest on the least counterexample.

`StepsMatchCounters` is stated with its premises, `Consistent`, `OncePerStep` and `Numbered`,
because no proof goes through without them: nothing in the service makes an application
name its events after their status or number its steps.

Model-checked only: all liveness (`EventuallySettled`, `ShutdownEnds`, `EventuallyDecided`,
`InterruptEnds`), which needs fairness and ENABLED, out of the provers' reach.
`FilterSelects` in `MCMemoryService` has TLC compare `Filter` with `SelectSeq`.

## 6. Not modelled

* Traffic generator, examples, Terraform, containers and CI: no state of the system
  depends on them.
* Feature flags and redaction settings of the configuration: stored and returned, read by
  nothing.
* UDP packets lost before the agent reads them: a packet exists in `UDPAgent` from the
  moment it is read. Reads that fail and packets that do not decode change nothing.
* Text formats (times, durations, JSON), health, CORS, environment variables, API keys and
  the JSON-RPC envelope of the MCP server; averages, percentiles, free-text search, drawing
  and markup of the page; description, tags and layout of a dashboard.
* Hours that begin in the middle of a clock hour because of a change to or from daylight
  saving time: `floorHour` is modelled in one zone without changes.
* A crash of the service process is modelled while it serves, not during a shutdown. A tool
  call whose HTTP client times out counts as one answered with an error.

No property covers two hazards of the list. A retention beyond 106751 days (292 years) wraps
`time.Duration`, and events expire when they are stored. That contradicts README.md:68
(`expires_at = now + retentionDays`, without a bound); the models have small days, and
`RetentionInForce` is proved under the premise `RetentionFits`, which excludes it. And of two tag keys that
collide once trimmed the map's order of iteration decides which value stays: `Validated` has
every outcome, and no document says which is the right one.

## 7. Plan

1. Done: both agents, the service over both stores, queries, processes, the service process
   with its dashboards, the page; every safety property a passing run checks is a theorem,
   and that the agent implements `MetricDelivery` and both services `MetricRepository`.
2. Proofs left: none within reach of the provers; liveness stays with TLC.
3. Models left: the averages and percentiles of the page's figures.
