---------------------------- MODULE ServiceProcess ----------------------------
(***************************************************************************)
(* The service's process, cmd/service/main.go: an API server and an MCP     *)
(* server whose tools call the API over HTTP, their shutdown at an          *)
(* interrupt, and the dashboards, which both stores keep in memory only.    *)
(*                                                                          *)
(* A client lists dashboards, edits a copy and posts it as a whole, or      *)
(* deletes it; between a client's list and its save others do the same.     *)
(* The API takes any definition, so a client may also post one under an id  *)
(* or with a creation time of its own.  DashboardService.Save reads the     *)
(* time and fills in defaults before the store takes its lock.  Of a        *)
(* definition only what Save looks at is modelled; a name is what is left   *)
(* of it without the space around it.                                       *)
(***************************************************************************)
EXTENDS Integers, Sequences, FiniteSets, Functions

CONSTANTS
    Clients,        \* they use the dashboards
    Tools,          \* tool calls to the MCP server
    Drafts,         \* definitions of a client's own, ids and times included
    NewId(_),       \* newID: the id it gives out as its n-th
    MaxClock,       \* bound on the clock
    MaxIds,         \* bound on the ids that newID gives out
    MaxStarts,      \* bound on the starts of the process
    MaxClaims       \* bound on the ids in claimed

ASSUME ProcessAssumption ==
    MaxClock \in Nat \ {0} /\ MaxIds \in Nat /\ MaxStarts \in Nat \ {0} /\ MaxClaims \in Nat

\* Any definition that JSON can hold; the time 0 is the zero time, of one that
\* names none.
ASSUME DraftAssumption ==
    Drafts \subseteq [id : STRING, name : STRING, refresh : Int, created : Int,
                    widgets : Seq([id : STRING, type : STRING, aggregation : STRING,
                                   chart : STRING, metric : STRING, query : STRING])]

\* Random bytes: no id comes twice, nor equals the seeded one.
ASSUME NewIdAssumption ==
    \A n \in 1 .. MaxIds :
        /\ NewId(n) \notin {"", "operations"}
        /\ \A m \in 1 .. MaxIds : NewId(m) = NewId(n) => m = n

VARIABLES
    phase,          \* "serving", "closing" the API, "closing MCP", "stopped"
    mcp,            \* the MCP server listens
    expired,        \* shutdownCtx has timed out
    starts,         \* how often the process was started
    clock,
    ids,            \* how many ids newID has given out
    dashboards,     \* Store.dashboards: id -> definition
    copies,         \* client -> the definition it has read or saved, or NoCopy
    calls,          \* client -> its request to the API
    tools,          \* tool call -> its state
    claimed         \* history: the ids under which a client has posted a
                    \* definition without the creation time it has read

vars == <<phase, mcp, expired, starts, clock, ids, dashboards, copies, calls, tools, claimed>>

server == <<phase, mcp, expired, starts>>

-----------------------------------------------------------------------------
(* DashboardService.Save *)

Or(s, otherwise) == IF s = "" THEN otherwise ELSE s

QueryOf(aggregation, metric) == aggregation \o ":" \o metric \o "{}.as_count()"

(* A widget, completed; id is the new id when it has none. *)
Completed(w, id, chart) ==
    LET aggregation == Or(w.aggregation, "sum")
    IN  [w EXCEPT !.id = Or(@, id), !.type = Or(@, "timeseries"),
                  !.aggregation = aggregation, !.chart = Or(@, chart),
                  !.query = IF @ = "" /\ w.metric # "" THEN QueryOf(aggregation, w.metric) ELSE @]

\* No query is empty, a colon being in it; the assumption is one about strings.
ASSUME QueryAssumption ==
    \A d \in Drafts : \A i \in DOMAIN d.widgets :
        QueryOf(Or(d.widgets[i].aggregation, "sum"), d.widgets[i].metric) # ""

(* Variant: the chart is filled in before the type it is taken from. *)
WithDefaultsChartFirst(w, id) == Completed(w, id, w.type)

WithDefaults(w, id) == Completed(w, id, Or(w.type, "timeseries"))

(* The ids Save asks for: one for a definition without one, then one for    *)
(* each widget without one; the i-th widget gets the IdsUpTo(d, i)-th.      *)
Nameless(d) == {i \in DOMAIN d.widgets : d.widgets[i].id = ""}

OwnIds(d) == IF d.id = "" THEN 1 ELSE 0

IdsUpTo(d, i) == OwnIds(d) + Cardinality({j \in Nameless(d) : j <= i})

NeededIds(d) == OwnIds(d) + Cardinality(Nameless(d))

(* A definition as it is stored; n ids have been given out before. *)
Stamped(d, created, n) ==
    [id      |-> Or(d.id, NewId(n + 1)),
     name    |-> Or(d.name, "Operational dashboard"),
     refresh |-> IF d.refresh <= 0 THEN 5 ELSE d.refresh,
     created |-> created,
     widgets |-> [i \in DOMAIN d.widgets |-> WithDefaults(d.widgets[i], NewId(n + IdsUpTo(d, i)))]]

(* Variant: CreatedAt is set by every save. *)
NormalNewlyCreated(d, now, n) == Stamped(d, now, n)

Normal(d, now, n) == Stamped(d, IF d.id = "" \/ d.created = 0 THEN now ELSE d.created, n)

-----------------------------------------------------------------------------
(* Requests to the API. *)

NoCopy  == [id |-> ""]
NoCall  == [op |-> "none", body |-> NoCopy]

(* What a client that has read d may post under the id of d: d as it is, or *)
(* a definition of its own, with or without the time that d was created.    *)
Edited(d) ==
    {d} \cup {[draft EXCEPT !.id = d.id] : draft \in Drafts}
        \cup {[draft EXCEPT !.id = d.id, !.created = d.created] : draft \in Drafts}

Bodies(c) == Drafts \cup (IF copies[c] = NoCopy THEN {} ELSE Edited(copies[c]))

\* The body gives back the identity of the definition that c has read.
Returned(c, body) ==
    /\ copies[c] # NoCopy
    /\ body.id = copies[c].id /\ body.created = copies[c].created

\* A handler runs from Call on; the listener is open until the interrupt.
Call(c, op, body) ==
    /\ phase = "serving"
    /\ calls[c].op = "none"
    /\ calls' = [calls EXCEPT ![c] = [op |-> op, body |-> body]]
    /\ claimed' = IF op = "save" /\ body.id # "" /\ ~Returned(c, body)
                     THEN claimed \cup {body.id} ELSE claimed
    /\ Cardinality(claimed') <= MaxClaims
    /\ UNCHANGED <<server, clock, ids, dashboards, copies, tools>>

Running == phase # "stopped"

\* The handler of c answers; the client keeps d.
Answer(c, d) ==
    /\ Running
    /\ calls' = [calls EXCEPT ![c] = NoCall]
    /\ copies' = [copies EXCEPT ![c] = d]
    /\ UNCHANGED <<server, clock, tools, claimed>>

\* The client goes on with one of the definitions listed.
ListDashboards(c) ==
    /\ calls[c].op = "list"
    /\ IF dashboards = <<>> THEN Answer(c, NoCopy)
       ELSE \E id \in DOMAIN dashboards : Answer(c, dashboards[id])
    /\ UNCHANGED <<ids, dashboards>>

\* now is read and the definition completed, no lock held.
Save(c) ==
    /\ Running
    /\ calls[c].op = "save"
    /\ ids + NeededIds(calls[c].body) <= MaxIds
    /\ ids' = ids + NeededIds(calls[c].body)
    /\ calls' = [calls EXCEPT ![c] = [op |-> "storing", body |-> Normal(calls[c].body, clock, ids)]]
    /\ UNCHANGED <<server, clock, dashboards, copies, tools, claimed>>

\* The store replaces whatever it has under that id.
SaveDashboard(c) ==
    /\ calls[c].op = "storing"
    /\ LET d == calls[c].body
       IN  dashboards' = [id \in DOMAIN dashboards \cup {d.id} |->
                            IF id = d.id THEN d ELSE dashboards[id]]
    /\ Answer(c, calls[c].body)
    /\ UNCHANGED ids

\* No error when there is none of that id; the client may keep its copy.
DeleteDashboard(c) ==
    /\ calls[c].op = "delete"
    /\ dashboards' = Restrict(dashboards, DOMAIN dashboards \ {calls[c].body.id})
    /\ Answer(c, copies[c])
    /\ UNCHANGED ids

-----------------------------------------------------------------------------
(* Tool calls: the MCP handler asks the API and passes on what it gets. *)

SetTool(t, state) ==
    /\ tools' = [tools EXCEPT ![t] = state]
    /\ UNCHANGED <<server, clock, ids, dashboards, copies, calls, claimed>>

CallTool(t) ==
    /\ phase \in {"serving", "closing"} /\ mcp /\ tools[t] = "idle"
    /\ SetTool(t, "called")

\* The request of the tool reaches the API; a closed port refuses it, and the
\* tool answers with that error.
AskAPI(t) ==
    /\ Running /\ tools[t] = "called"
    /\ SetTool(t, IF phase = "serving" THEN "asking" ELSE "idle")

ToolAnswers(t) == Running /\ tools[t] = "asking" /\ SetTool(t, "idle")

-----------------------------------------------------------------------------
(* main *)

Active == {c \in Clients : calls[c].op # "none"}
InMCP  == {t \in Tools : tools[t] \in {"called", "asking"}}

Seed == [id |-> "operations", name |-> "Processamentos", refresh |-> 5, widgets |-> <<>>,
         created |-> clock]

\* New and both listeners; the service does without an MCP server that cannot
\* listen.
Start ==
    /\ phase = "stopped" /\ starts < MaxStarts
    /\ phase' = "serving" /\ starts' = starts + 1 /\ expired' = FALSE
    /\ mcp' \in BOOLEAN
    /\ dashboards' = [id \in {Seed.id} |-> Seed]
    /\ UNCHANGED <<clock, ids, copies, calls, tools, claimed>>

\* The signal: server.Shutdown closes the API's listener.
Interrupt ==
    /\ phase = "serving"
    /\ phase' = "closing"
    /\ UNCHANGED <<mcp, expired, starts, clock, ids, dashboards, copies, calls, tools, claimed>>

\* Five seconds are over.
Expire ==
    /\ phase \in {"closing", "closing MCP"} /\ ~expired
    /\ expired' = TRUE
    /\ UNCHANGED <<phase, mcp, starts, clock, ids, dashboards, copies, calls, tools, claimed>>

\* server.Shutdown returns: no request is active, or its context is done.
ShutdownAPI ==
    /\ phase = "closing"
    /\ expired \/ (Active = {} /\ \A t \in Tools : tools[t] # "asking")
    /\ phase' = "closing MCP"
    /\ UNCHANGED <<mcp, expired, starts, clock, ids, dashboards, copies, calls, tools, claimed>>

\* The process ends, with whatever still runs in it; who waited for an answer
\* gets an error and may go on.
Exit ==
    /\ phase' = "stopped" /\ mcp' = FALSE
    /\ calls' = [c \in Clients |-> IF c \in Active THEN NoCall ELSE calls[c]]
    /\ tools' = [t \in Tools |-> IF t \in InMCP THEN "idle" ELSE tools[t]]
    /\ dashboards' = <<>>
    /\ UNCHANGED <<expired, starts, clock, ids, copies, claimed>>

\* Variant: main does not wait for the MCP server.
ShutdownMCPAtOnce == phase = "closing MCP" /\ Exit

\* mcpServer.Shutdown returns, on the same five seconds, and main ends.
ShutdownMCP == phase = "closing MCP" /\ (expired \/ InMCP = {}) /\ Exit

\* A crash, or os.Exit when the API's listener fails.
Crash == Running /\ phase = "serving" /\ Exit

Tick ==
    /\ clock < MaxClock
    /\ clock' = clock + 1
    /\ UNCHANGED <<server, ids, dashboards, copies, calls, tools, claimed>>

Init ==
    /\ phase = "stopped" /\ mcp = FALSE /\ expired = FALSE /\ starts = 0
    /\ clock = 1 /\ ids = 0 /\ dashboards = <<>>
    /\ copies = [c \in Clients |-> NoCopy] /\ calls = [c \in Clients |-> NoCall]
    /\ tools = [t \in Tools |-> "idle"] /\ claimed = {}

Next ==
    \/ \E c \in Clients :
          \/ Call(c, "list", NoCopy)
          \/ \E d \in Bodies(c) : Call(c, "save", d)
          \/ copies[c] # NoCopy /\ Call(c, "delete", copies[c])
          \/ ListDashboards(c) \/ Save(c) \/ SaveDashboard(c) \/ DeleteDashboard(c)
    \/ \E t \in Tools : CallTool(t) \/ AskAPI(t) \/ ToolAnswers(t)
    \/ Start \/ Interrupt \/ Expire \/ ShutdownAPI \/ ShutdownMCP \/ Crash
    \/ Tick

Spec == Init /\ [][Next]_vars

-----------------------------------------------------------------------------
(* Properties. *)

\* Definitions that went through Save, or the seed.
Known ==
    Range(dashboards) \cup (Range(copies) \ {NoCopy})
        \cup {calls[c].body : c \in {x \in Clients : calls[x].op \in {"storing", "delete"}}}

(* Types, and what Save promises of every definition that is stored or came *)
(* from the service: an id, a name, a period, complete widgets, and a time  *)
(* of creation, be it one of the client's own (dashboards.go:30-72).        *)
TypeOK ==
    /\ phase \in {"serving", "closing", "closing MCP", "stopped"}
    /\ mcp \in BOOLEAN /\ expired \in BOOLEAN
    /\ starts \in 0 .. MaxStarts /\ clock \in 1 .. MaxClock /\ ids \in 0 .. MaxIds
    /\ \A c \in Clients : calls[c].op \in {"none", "list", "save", "storing", "delete"}
    /\ \A t \in Tools : tools[t] \in {"idle", "called", "asking"}
    /\ \A id \in DOMAIN dashboards : dashboards[id].id = id
    /\ \A d \in Known :
          /\ d.id # "" /\ d.name # "" /\ d.refresh > 0 /\ d.created # 0
          /\ \A i \in DOMAIN d.widgets :
                LET w == d.widgets[i]
                IN  /\ "" \notin {w.id, w.type, w.aggregation, w.chart}
                    /\ w.metric # "" => w.query # ""

(* A definition keeps the time of its creation: whatever clients read, edit *)
(* and save at the same time, saves that bring back a deleted definition    *)
(* and restarts included, all versions of one id agree on it as long as     *)
(* clients return the creation time they have read with the id.  Save keeps *)
(* any time it is given, so a definition posted under an id with another    *)
(* time, or with none, makes versions disagree, of that id only; and the    *)
(* seeded dashboard is created anew by each start (dashboards.go:30-47,     *)
(* memory/store.go:318-331).                                                *)
CreatedOnce ==
    \A d, e \in Known :
        d.id = e.id => \/ d.created = e.created
                       \/ d.id \in claimed
                       \/ d.id = "operations" /\ starts > 1

(* A shutdown that is over in five seconds cuts nothing off: main returns   *)
(* when the requests the API had taken, those of tools included, and the    *)
(* tool calls are all answered, though tools ask an API that is closed      *)
(* before the MCP server (main.go:68-74).                                   *)
ShutdownCutsNothingOff ==
    [][phase = "closing MCP" /\ phase' = "stopped" /\ ~expired
        => calls' = calls /\ tools' = tools]_vars
=============================================================================
