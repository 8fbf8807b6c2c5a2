------------------------------ MODULE Webview -------------------------------
(***************************************************************************)
(* The web page (webview/app.js): one event loop that runs the handlers of  *)
(* a timer, of the user and of answers to requests, one at a time, over the *)
(* page's state, what is on the screen, and localStorage.  A refresh awaits *)
(* two answers; until they come any other handler may run, another refresh  *)
(* included.                                                                *)
(*                                                                          *)
(* The settings are the period and the refresh interval (URL and key go the *)
(* same way); a widget is its query and its width (title and type go with   *)
(* the query, the height with the width).  Data is known by the number of   *)
(* the refresh that asked for it.  A variable that may have no value is a   *)
(* set of at most one element.                                              *)
(***************************************************************************)
EXTENDS Integers, Sequences, FiniteSets, FiniteSetsExt, SequencesExt, Collections

CONSTANTS
    Ranges, DefaultRange,       \* periods of the selector
    Intervals, DefaultInterval, \* refresh intervals in seconds, 0: manual
    Queries,                    \* queries typed in the editor, "" among them
    Presets,                    \* widgets of the palette, as [query, w]
    DefaultPresets,             \* the widgets of an empty dashboard, likewise
    Moves,                      \* grid columns a resize may move by
    MaxWidgets, MaxRefreshes    \* bounds

ASSUME WebviewAssumption ==
    /\ DefaultRange \in Ranges
    /\ Intervals \subseteq Nat /\ DefaultInterval \in Intervals
    /\ Queries \subseteq STRING /\ "" \in Queries
    /\ Presets \subseteq [query : STRING \ {""}, w : 2 .. 12]
    /\ DefaultPresets \in Seq([query : STRING \ {""}, w : 2 .. 12])
    /\ Moves \subseteq Int
    /\ MaxWidgets \in Nat /\ MaxRefreshes \in Nat

VARIABLES
    inputs,         \* the controls: [range, interval]
    settings,       \* state.settings
    savedSettings,  \* localStorage
    timers,         \* the intervals of the live timers, state.timer last
    issued,         \* refreshes started so far
    refreshes,      \* those still awaiting answers
    lastEnded,      \* the refresh whose end was handled last, 0: none
    shown,          \* where the data shown comes from
    online,         \* the status shown
    modal,          \* the open dialog
    editMode,
    widgets,        \* state.widgets, in grid order
    savedWidgets,   \* localStorage
    screen,         \* the widgets as drawn
    editor,         \* the widget editor: [id, query]
    resizing        \* state.resizing; attached: its element is still drawn

conf == <<inputs, settings, savedSettings, timers>>
data == <<issued, refreshes, lastEnded, shown, online>>
grid == <<editMode, widgets, savedWidgets, screen, resizing>>
vars == <<conf, data, modal, editor, grid>>

Parts == {"list", "chart"}

-----------------------------------------------------------------------------
(* Settings and refreshes. *)

\* Variant: the timer before is not cleared.
ScheduledUncleared(interval) ==
    IF interval > 0 THEN Append(timers, interval) ELSE timers

\* scheduleRefresh: clearInterval(state.timer), then setInterval.
Scheduled(interval) ==
    LET others == IF timers = <<>> THEN <<>> ELSE Front(timers)
    IN  IF interval > 0 THEN Append(others, interval) ELSE others

SaveSettings(in) ==
    /\ inputs' = in /\ settings' = in /\ savedSettings' = in
    /\ timers' = Scheduled(in.interval)

Refresh(range) == [no |-> issued + 1, range |-> range, got |-> {}]

\* refreshData up to its await; it saves the controls first, whatever was
\* typed in them.
RefreshData(in) ==
    /\ issued < MaxRefreshes
    /\ SaveSettings(in)
    /\ issued' = issued + 1
    /\ refreshes' = refreshes \cup {Refresh(settings'.range)}
    /\ UNCHANGED <<lastEnded, shown, online>>

\* A modal dialog and a resize keep the user from everything else.
Free == modal = "none" /\ resizing = {}

TimerFires == timers # <<>> /\ RefreshData(inputs) /\ UNCHANGED <<modal, editor, grid>>

RefreshNow == Free /\ RefreshData(inputs) /\ UNCHANGED <<modal, editor, grid>>

ChangeRange(r) ==
    /\ Free /\ r # inputs.range
    /\ RefreshData([inputs EXCEPT !.range = r])
    /\ UNCHANGED <<modal, editor, grid>>

OpenConfig ==
    /\ Free
    /\ modal' = "config"
    /\ UNCHANGED <<conf, data, editor, grid>>

PickInterval(i) ==
    /\ modal = "config"
    /\ inputs' = [inputs EXCEPT !.interval = i]
    /\ UNCHANGED <<settings, savedSettings, timers, data, modal, editor, grid>>

SaveConfig ==
    /\ modal = "config"
    /\ RefreshData(inputs)
    /\ modal' = "none"
    /\ UNCHANGED <<editor, grid>>

\* What was typed stays in the controls.
CloseConfig ==
    /\ modal = "config"
    /\ modal' = "none"
    /\ UNCHANGED <<conf, data, editor, grid>>

-----------------------------------------------------------------------------
(* Drawing. *)

\* renderWidgets: the grid is rebuilt, and a resize keeps its old element.
RenderWidgets ==
    /\ screen' = {widgets'}
    /\ resizing' = {[r EXCEPT !.attached = FALSE] : r \in resizing}

WindowResized ==
    /\ UNCHANGED <<conf, data, modal, editor, editMode, widgets, savedWidgets>>
    /\ RenderWidgets

\* Variant: each answer is shown when it comes.
ShowingEach(r, part, before) ==
    LET old == IF before = {} THEN [list |-> 0, chart |-> 0, range |-> r.range]
                              ELSE CHOOSE s \in before : TRUE
    IN  {[[old EXCEPT ![part] = r.no] EXCEPT !.range = r.range]}

\* The data shown once the answer for part has come to refresh r.
Showing(r, part, before) ==
    IF r.got \cup {part} = Parts
    THEN {[list |-> r.no, chart |-> r.no, range |-> r.range]}
    ELSE before

\* An answer comes: Promise.all goes on when it is the second.
Answer(r, part) ==
    /\ r \in refreshes /\ part \notin r.got
    /\ UNCHANGED <<conf, issued, modal, editor, editMode, widgets, savedWidgets>>
    /\ shown' = Showing(r, part, shown)
    /\ IF r.got \cup {part} = Parts
       THEN /\ refreshes' = refreshes \ {r}
            /\ lastEnded' = r.no /\ online' = TRUE
            /\ RenderWidgets
       ELSE /\ refreshes' = (refreshes \ {r}) \cup {[r EXCEPT !.got = @ \cup {part}]}
            /\ UNCHANGED <<lastEnded, online, screen, resizing>>

\* A request fails, or is answered with an error: Promise.all rejects, and
\* the other answer is dropped.
Fail(r) ==
    /\ r \in refreshes
    /\ refreshes' = refreshes \ {r}
    /\ lastEnded' = r.no /\ online' = FALSE
    /\ UNCHANGED <<conf, issued, shown, modal, editor, grid>>

-----------------------------------------------------------------------------
(* The dashboard. *)

Ids(ws) == {w.id : w \in Range(ws)}

NewId(ws) == Min((1 .. Len(ws) + 1) \ Ids(ws))

Position(ws, id) == CHOOSE i \in DOMAIN ws : ws[i].id = id

Without(ws, id) == Filter(ws, {w \in Range(ws) : w.id # id})

WithWidth(ws, id, w) == [ws EXCEPT ![Position(ws, id)].w = w]

DefaultWidgets ==
    [i \in DOMAIN DefaultPresets |->
        [id |-> i, query |-> DefaultPresets[i].query, w |-> DefaultPresets[i].w]]

SaveDashboard == savedWidgets' = {widgets'}

\* The buttons of a drawn widget, which only edit mode shows.
Clickable(id) == Free /\ editMode /\ \E ws \in screen : id \in Ids(ws)

SetDashboardEditMode ==
    /\ Free
    /\ editMode' = ~editMode
    /\ UNCHANGED widgets
    /\ RenderWidgets
    /\ UNCHANGED <<conf, data, modal, editor, savedWidgets>>

AddWidget(p) ==
    /\ Free /\ editMode /\ Len(widgets) < MaxWidgets
    /\ widgets' = Append(widgets, [id |-> NewId(widgets), query |-> p.query, w |-> p.w])
    /\ SaveDashboard /\ RenderWidgets
    /\ UNCHANGED <<conf, data, modal, editor, editMode>>

\* Variant: the deletion is not saved.
DeleteWidgetUnsaved(id) ==
    /\ Clickable(id)
    /\ widgets' = Without(widgets, id)
    /\ RenderWidgets
    /\ UNCHANGED <<conf, data, modal, editor, editMode, savedWidgets>>

DeleteWidget(id) ==
    /\ Clickable(id)
    /\ widgets' = Without(widgets, id)
    /\ SaveDashboard /\ RenderWidgets
    /\ UNCHANGED <<conf, data, modal, editor, editMode>>

\* The source is taken out, and put back where the target then is.
MoveWidgetBefore(source, target) ==
    /\ Clickable(source) /\ Clickable(target) /\ source # target
    /\ LET rest == Without(widgets, source)
       IN  widgets' = InsertAt(rest, Position(rest, target), widgets[Position(widgets, source)])
    /\ SaveDashboard /\ RenderWidgets
    /\ UNCHANGED <<conf, data, modal, editor, editMode>>

OpenWidgetEditor(id) ==
    /\ Clickable(id)
    /\ editor' = {[id |-> id, query |-> widgets[Position(widgets, id)].query]}
    /\ modal' = "editor"
    /\ UNCHANGED <<conf, data, grid>>

TypeQuery(q) ==
    /\ modal = "editor"
    /\ editor' = {[e EXCEPT !.query = q] : e \in editor}
    /\ UNCHANGED <<conf, data, modal, grid>>

SaveWidgetEditor ==
    /\ modal = "editor" /\ modal' = "none" /\ editor' = {}
    /\ \E e \in editor :
          widgets' = IF e.query = "" THEN widgets
                     ELSE [widgets EXCEPT ![Position(widgets, e.id)].query = e.query]
    /\ SaveDashboard /\ RenderWidgets
    /\ UNCHANGED <<conf, data, editMode>>

CloseWidgetEditor ==
    /\ modal = "editor" /\ modal' = "none" /\ editor' = {}
    /\ UNCHANGED <<conf, data, grid>>

\* The mouse goes down on the corner of a widget, moves, and is released.
StartWidgetResize(id) ==
    /\ Clickable(id)
    /\ resizing' = {[id |-> id, w |-> widgets[Position(widgets, id)].w, attached |-> TRUE]}
    /\ UNCHANGED <<conf, data, modal, editor, editMode, widgets, savedWidgets, screen>>

\* Variant: the width is not bounded by the grid.
ClampedBelow(w) == Max({2, w})

Clamped(w) == Max({2, Min({12, w})})

ResizeWidget(dx) ==
    /\ \E r \in resizing :
          LET w == Clamped(r.w + dx)
          IN  /\ widgets' = WithWidth(widgets, r.id, w)
              /\ screen' = IF r.attached THEN {WithWidth(ws, r.id, w) : ws \in screen} ELSE screen
    /\ UNCHANGED <<conf, data, modal, editor, editMode, savedWidgets, resizing>>

\* Variant: the grid is not drawn again.
StopWidgetResizeUndrawn ==
    /\ resizing # {} /\ resizing' = {}
    /\ UNCHANGED widgets
    /\ SaveDashboard
    /\ UNCHANGED <<conf, data, modal, editor, editMode, screen>>

StopWidgetResize ==
    /\ resizing # {} /\ resizing' = {}
    /\ UNCHANGED widgets
    /\ SaveDashboard /\ screen' = {widgets}
    /\ UNCHANGED <<conf, data, modal, editor, editMode>>

-----------------------------------------------------------------------------
(* The page is opened, or loaded again at any time: requests in flight are  *)
(* given up, the settings and the dashboard come from localStorage, an      *)
(* empty dashboard becomes the default one, and a refresh starts.  Nothing  *)
(* is drawn before its answers come or the user toggles edit mode.          *)

LoadedWidgets(saved) ==
    IF saved \subseteq {<<>>} THEN DefaultWidgets ELSE CHOOSE ws \in saved : TRUE

DefaultSettings == [range |-> DefaultRange, interval |-> DefaultInterval]

\* The first visit: localStorage is empty.
Init ==
    /\ inputs = DefaultSettings /\ settings = DefaultSettings /\ savedSettings = DefaultSettings
    /\ timers = IF DefaultInterval > 0 THEN <<DefaultInterval>> ELSE <<>>
    /\ issued = 1 /\ refreshes = {[no |-> 1, range |-> DefaultRange, got |-> {}]}
    /\ lastEnded = 0 /\ shown = {} /\ online = FALSE
    /\ modal = "none" /\ editMode = FALSE /\ editor = {} /\ resizing = {} /\ screen = {}
    /\ savedWidgets = {} /\ widgets = DefaultWidgets

Reload ==
    /\ issued < MaxRefreshes
    /\ inputs' = savedSettings /\ settings' = savedSettings /\ UNCHANGED savedSettings
    /\ timers' = IF savedSettings.interval > 0 THEN <<savedSettings.interval>> ELSE <<>>
    /\ issued' = issued + 1 /\ refreshes' = {Refresh(savedSettings.range)}
    /\ lastEnded' = 0 /\ shown' = {} /\ online' = FALSE
    /\ modal' = "none" /\ editMode' = FALSE /\ editor' = {} /\ resizing' = {} /\ screen' = {}
    /\ widgets' = LoadedWidgets(savedWidgets) /\ UNCHANGED savedWidgets

Next ==
    \/ TimerFires \/ RefreshNow \/ \E r \in Ranges : ChangeRange(r)
    \/ OpenConfig \/ SaveConfig \/ CloseConfig \/ \E i \in Intervals : PickInterval(i)
    \/ \E r \in refreshes : Fail(r) \/ \E part \in Parts : Answer(r, part)
    \/ WindowResized \/ SetDashboardEditMode
    \/ \E p \in Presets : AddWidget(p)
    \/ \E id \in Ids(widgets) :
          \/ DeleteWidget(id) \/ OpenWidgetEditor(id) \/ StartWidgetResize(id)
          \/ \E target \in Ids(widgets) : MoveWidgetBefore(id, target)
    \/ \E q \in Queries : TypeQuery(q)
    \/ SaveWidgetEditor \/ CloseWidgetEditor
    \/ \E dx \in Moves : ResizeWidget(dx)
    \/ StopWidgetResize
    \/ Reload

Spec == Init /\ [][Next]_vars

-----------------------------------------------------------------------------
Widgets == [id : 1 .. MaxWidgets + Len(DefaultPresets), query : STRING, w : 2 .. 12]

\* Widgets keep distinct identities and a width the grid has; editor and
\* resize are about widgets that exist; timers never pile up, although every
\* refresh schedules anew (app.js:126-137, 629-634).
TypeOK ==
    /\ {inputs, settings, savedSettings} \subseteq [range : Ranges, interval : Intervals]
    /\ timers \in Seq(Intervals \ {0}) /\ Len(timers) <= 1
    /\ refreshes \subseteq [no : 1 .. issued, range : Ranges, got : SUBSET Parts]
    /\ lastEnded \in 0 .. issued /\ online \in BOOLEAN /\ editMode \in BOOLEAN
    /\ modal \in {"none", "config", "editor"}
    /\ widgets \in Seq(Widgets) /\ Cardinality(Ids(widgets)) = Len(widgets)
    /\ \A e \in editor \cup resizing : e.id \in Ids(widgets)

\* List and chart come from one refresh, also when one of its two requests
\* fails; and if the refresh started last also ended last, and well, then its
\* answers are shown and belong to the selected period (app.js:180-205).
ShownTogether ==
    /\ \A s \in shown : s.list = s.chart
    /\ lastEnded = issued /\ online =>
          shown = {[list |-> issued, chart |-> issued, range |-> settings.range]}

\* What is drawn is the dashboard, except that a resize whose element a
\* refresh has replaced does not show the width until the mouse is released
\* (app.js:291-299, 974-1019).
ScreenMatches ==
    \A ws \in screen :
        \/ ws = widgets
        \/ \E r \in resizing :
              ~r.attached /\ WithWidth(ws, r.id, widgets[Position(widgets, r.id)].w) = widgets

\* The dashboard, without the resize under way, is what localStorage holds, so
\* that a reload at any time finds every change made before.  A default
\* dashboard is not saved until it is changed, and one whose last widget was
\* deleted is saved empty: a reload shows the default again (app.js:91-112,
\* 907-1019).
LayoutPersisted ==
    LET committed == IF resizing = {} THEN widgets
                     ELSE LET r == CHOOSE r \in resizing : TRUE
                          IN  WithWidth(widgets, r.id, r.w)
    IN  \/ savedWidgets = {committed}
        \/ savedWidgets \subseteq {<<>>} /\ committed = DefaultWidgets

\* What DOCUMENTATION.md:104 says of count:processes{*}, "Total de processos no
\* periodo selecionado": with no request in flight and the status Online, the
\* data is that of the selected period.  Fails when answers come out of order.
ShownIsSelected ==
    refreshes = {} /\ online => \A s \in shown : s.range = settings.range
=============================================================================
