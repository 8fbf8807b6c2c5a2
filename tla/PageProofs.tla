------------------------------ MODULE PageProofs ------------------------------
(***************************************************************************)
(* Theorems about the webview and what it shows: the page itself (Webview), *)
(* what the stores answer to its queries (MetricLists, MetricQueries), and  *)
(* the processes and charts it makes of the answers (Processes).            *)
(*                                                                          *)
(* In Webview the settings with the timer, the data, and the dashboard have *)
(* an invariant each: IConf, IData and IGrid.  The answers depend on stored *)
(* alone, of which IStored is invariant: the rest is about the walks along  *)
(* what is stored, and about what grouping and counting make of a list.     *)
(***************************************************************************)
EXTENDS Webview, MetricQueries, Processes, SequenceLemmas

-----------------------------------------------------------------------------
(* Settings and timers. *)

Settings == [range : Ranges, interval : Intervals]

AtMostOne(s) == s \in Seq(Intervals \ {0}) /\ Len(s) <= 1

IConf ==
    /\ inputs \in Settings /\ settings \in Settings /\ savedSettings \in Settings
    /\ AtMostOne(timers)

LEMMA PositiveInterval ==
  ASSUME NEW i \in Intervals
  PROVE  (i > 0 <=> i \in Intervals \ {0}) /\ (i > 0) \in BOOLEAN
<1>1. i \in Nat  BY WebviewAssumption
<1>. QED  BY <1>1

LEMMA OneTimer ==
  AtMostOne(<<>>) /\ \A i \in Intervals \ {0} : AtMostOne(<<i>>)
<1>1. <<>> \in Seq(Intervals \ {0}) /\ Len(<<>>) = 0
  OBVIOUS
<1>2. \A i \in Intervals \ {0} : <<i>> \in Seq(Intervals \ {0}) /\ Len(<<i>>) = 1
  OBVIOUS
<1>3. 0 <= 1 /\ 1 <= 1
  OBVIOUS
<1>. QED  BY <1>1, <1>2, <1>3 DEF AtMostOne

\* The timer before is cleared, so that there is never a second.
LEMMA ScheduledOne ==
  ASSUME IConf, NEW i \in Intervals
  PROVE  AtMostOne(Scheduled(i))
<1>. DEFINE others == IF timers = <<>> THEN <<>> ELSE Front(timers)
<1>1. others = <<>>
  <2>1. CASE timers = <<>>
    BY <2>1
  <2>2. CASE timers # <<>>
    <3>0. timers \in Seq(Intervals \ {0}) /\ Len(timers) <= 1
      BY DEF IConf, AtMostOne
    <3>4. Len(timers) \in Nat /\ Len(timers) # 0
      BY <2>2, <3>0, EmptySeq, LenProperties
    <3>1. Len(timers) = 1
      <4>1. \A n \in Nat : n # 0 /\ n <= 1 => n = 1
        OBVIOUS
      <4>. QED  BY <3>0, <3>4, <4>1, Zenon
    <3>2. Front(timers) = SubSeq(timers, 1, 0)
      BY <3>1 DEF Front
    <3>3. SubSeq(timers, 1, 0) = <<>>
      BY <3>0, SubSeqEmpty
    <3>. QED  BY <2>2, <3>2, <3>3
  <2>. QED  BY <2>1, <2>2
<1>2. Scheduled(i) = IF i > 0 THEN Append(<<>>, i) ELSE <<>>
  BY <1>1 DEF Scheduled
<1>3. Append(<<>>, i) = <<i>>
  OBVIOUS
<1>. QED  BY <1>2, <1>3, PositiveInterval, OneTimer, Zenon

LEMMA RefreshConf ==
  ASSUME IConf, NEW in \in Settings, RefreshData(in)
  PROVE  IConf' /\ settings' = in
<1>1. /\ inputs' = in /\ settings' = in /\ savedSettings' = in
      /\ timers' = Scheduled(in.interval)
  BY DEF RefreshData, SaveSettings
<1>2. in.interval \in Intervals
  BY DEF Settings
<1>3. AtMostOne(timers')
  BY <1>1, <1>2, ScheduledOne
<1>. QED  BY <1>1, <1>3 DEF IConf, AtMostOne

-----------------------------------------------------------------------------
(* What a step does to the settings and to the data. *)

Refreshing == \E in \in Settings : RefreshData(in)

LEMMA RefreshSteps ==
  ASSUME IConf
  PROVE  /\ TimerFires => Refreshing
         /\ RefreshNow => Refreshing
         /\ \A r \in Ranges : ChangeRange(r) => Refreshing
         /\ SaveConfig => Refreshing
<1>1. \A r \in Ranges : [inputs EXCEPT !.range = r] \in Settings
  BY DEF IConf, Settings
<1>. QED  BY <1>1 DEF TimerFires, RefreshNow, ChangeRange, SaveConfig, Refreshing, IConf

\* The steps of the user on the dashboard, of which settings and data know
\* nothing.
Editing ==
    \/ OpenConfig \/ CloseConfig
    \/ WindowResized \/ SetDashboardEditMode
    \/ \E p \in Presets : AddWidget(p)
    \/ \E id \in Ids(widgets) :
          \/ DeleteWidget(id) \/ OpenWidgetEditor(id) \/ StartWidgetResize(id)
          \/ \E target \in Ids(widgets) : MoveWidgetBefore(id, target)
    \/ \E q \in Queries : TypeQuery(q)
    \/ SaveWidgetEditor \/ CloseWidgetEditor
    \/ \E dx \in Moves : ResizeWidget(dx)
    \/ StopWidgetResize

LEMMA EditingKeeps == Editing \/ UNCHANGED vars => UNCHANGED <<conf, data>>
<1>1. CASE UNCHANGED vars
  BY <1>1 DEF vars
<1>2. CASE OpenConfig \/ CloseConfig
  BY <1>2 DEF OpenConfig, CloseConfig
<1>3. CASE WindowResized \/ SetDashboardEditMode
  BY <1>3 DEF WindowResized, SetDashboardEditMode
<1>4. ASSUME NEW p \in Presets, AddWidget(p) PROVE UNCHANGED <<conf, data>>
  BY <1>4 DEF AddWidget
<1>5. ASSUME NEW id, DeleteWidget(id) \/ OpenWidgetEditor(id) \/ StartWidgetResize(id)
      PROVE  UNCHANGED <<conf, data>>
  BY <1>5 DEF DeleteWidget, OpenWidgetEditor, StartWidgetResize
<1>6. ASSUME NEW id, NEW target, MoveWidgetBefore(id, target) PROVE UNCHANGED <<conf, data>>
  BY <1>6 DEF MoveWidgetBefore
<1>7. ASSUME NEW q, TypeQuery(q) PROVE UNCHANGED <<conf, data>>
  BY <1>7 DEF TypeQuery
<1>8. CASE SaveWidgetEditor \/ CloseWidgetEditor \/ StopWidgetResize
  BY <1>8 DEF SaveWidgetEditor, CloseWidgetEditor, StopWidgetResize
<1>9. ASSUME NEW dx, ResizeWidget(dx) PROVE UNCHANGED <<conf, data>>
  BY <1>9 DEF ResizeWidget
<1>. QED  BY <1>1, <1>2, <1>3, <1>4, <1>5, <1>6, <1>7, <1>8, <1>9 DEF Editing

LEMMA Steps ==
  ASSUME IConf, [Next]_vars
  PROVE  \/ Refreshing
         \/ \E i \in Intervals : PickInterval(i)
         \/ \E r \in refreshes : Fail(r) \/ \E part \in Parts : Answer(r, part)
         \/ Reload
         \/ Editing \/ UNCHANGED vars
BY RefreshSteps DEF Next, Editing

LEMMA ConfStep == IConf /\ [Next]_vars => IConf'
<1>. SUFFICES ASSUME IConf, [Next]_vars PROVE IConf'
  OBVIOUS
<1>0. UNCHANGED conf => IConf'
  BY DEF conf, IConf, AtMostOne
<1>1. CASE Refreshing
  BY <1>1, RefreshConf DEF Refreshing
<1>2. ASSUME NEW i \in Intervals, PickInterval(i) PROVE IConf'
  BY <1>2 DEF PickInterval, IConf, Settings, AtMostOne
<1>3. ASSUME NEW r \in refreshes, Fail(r) \/ \E part \in Parts : Answer(r, part) PROVE IConf'
  BY <1>0, <1>3 DEF Fail, Answer
<1>4. CASE Reload
  <2>. DEFINE i == savedSettings.interval
  <2>1. i \in Intervals
    BY DEF IConf, Settings
  <2>2. timers' = IF i > 0 THEN <<i>> ELSE <<>>
    BY <1>4 DEF Reload
  <2>3. PICK j, t : j = i /\ t = timers'
    OBVIOUS
  <2>. HIDE DEF i
  <2>4. AtMostOne(t)
    BY <2>1, <2>2, <2>3, PositiveInterval, OneTimer, Zenon
  <2>5. AtMostOne(timers')
    BY <2>3, <2>4
  <2>. QED  BY <1>4, <2>5 DEF Reload, IConf, AtMostOne
<1>5. CASE Editing \/ UNCHANGED vars
  BY <1>0, <1>5, EditingKeeps
<1>. QED  BY <1>1, <1>2, <1>3, <1>4, <1>5, Steps

-----------------------------------------------------------------------------
(* The data.  ShownTogether does not say why the refresh started last has    *)
(* the period selected: nothing changes the settings but a refresh or a     *)
(* reload.                                                                  *)

LatestAsked == [list |-> issued, chart |-> issued, range |-> settings.range]

IData ==
    /\ issued \in Nat
    /\ refreshes \subseteq [no : 1 .. issued, range : Ranges, got : SUBSET Parts]
    /\ lastEnded \in 0 .. issued /\ online \in BOOLEAN
    /\ \A r \in refreshes : r.no = issued => r.range = settings.range
    /\ \A s \in shown : s.list = s.chart
    /\ lastEnded = issued /\ online => shown = {LatestAsked}

LEMMA DataStep == IConf /\ IData /\ [Next]_vars => IData'
<1>. SUFFICES ASSUME IConf, IData, [Next]_vars PROVE IData'
  OBVIOUS
<1>0. UNCHANGED <<data, settings>> => IData'
  BY DEF data, IData, LatestAsked
<1>i. /\ issued \in Nat /\ issued + 1 \in Nat /\ issued + 1 # issued
      /\ 1 .. issued \subseteq 1 .. issued + 1 /\ issued + 1 \in 1 .. issued + 1
      /\ 0 .. issued \subseteq 0 .. issued + 1 /\ issued + 1 \notin 0 .. issued
      /\ 1 .. issued \subseteq 0 .. issued /\ issued + 1 \notin 1 .. issued
      /\ 0 \in 0 .. issued + 1 /\ 0 # issued + 1
  BY DEF IData
<1>r. ASSUME NEW range \in Ranges
      PROVE  /\ Refresh(range) \in [no : 1 .. issued + 1, range : Ranges, got : SUBSET Parts]
             /\ Refresh(range).range = range
  BY <1>i DEF Refresh
<1>1. ASSUME NEW in \in Settings, RefreshData(in) PROVE IData'
  <2>1. /\ issued' = issued + 1 /\ settings' = in /\ in.range \in Ranges
        /\ refreshes' = refreshes \cup {Refresh(in.range)}
        /\ lastEnded' = lastEnded /\ shown' = shown /\ online' = online
    BY <1>1 DEF RefreshData, SaveSettings, Settings
  <2>2. refreshes' \subseteq [no : 1 .. issued', range : Ranges, got : SUBSET Parts]
    <3>1. [no : 1 .. issued, range : Ranges, got : SUBSET Parts]
            \subseteq [no : 1 .. issued + 1, range : Ranges, got : SUBSET Parts]
      BY <1>i
    <3>. QED  BY <2>1, <3>1, <1>r DEF IData
  <2>3. \A r \in refreshes' : r.no = issued' => r.range = settings'.range
    <3>1. \A r \in refreshes : r.no \in 1 .. issued
      BY DEF IData
    <3>. QED  BY <2>1, <3>1, <1>i, <1>r
  <2>4. lastEnded' \in 0 .. issued' /\ lastEnded' # issued'
    BY <2>1, <1>i DEF IData
  <2>. QED  BY <2>1, <2>2, <2>3, <2>4, <1>i DEF IData
<1>2. ASSUME NEW i \in Intervals, PickInterval(i) PROVE IData'
  BY <1>0, <1>2 DEF PickInterval
<1>3. ASSUME NEW r \in refreshes, Fail(r) PROVE IData'
  <2>1. /\ issued' = issued /\ settings' = settings /\ shown' = shown
        /\ refreshes' = refreshes \ {r} /\ lastEnded' = r.no /\ online' = FALSE
    BY <1>3 DEF Fail, conf
  <2>2. r.no \in 0 .. issued
    BY <1>i DEF IData
  <2>. QED  BY <2>1, <2>2 DEF IData
<1>4. ASSUME NEW r \in refreshes, NEW part \in Parts, Answer(r, part) PROVE IData'
  <2>1. /\ issued' = issued /\ settings' = settings
        /\ shown' = Showing(r, part, shown)
    BY <1>4 DEF Answer, conf
  <2>2. /\ r \in [no : 1 .. issued, range : Ranges, got : SUBSET Parts]
        /\ r.no \in 0 .. issued
    BY <1>i DEF IData
  <2>3. CASE r.got \cup {part} = Parts
    <3>1. /\ shown' = {[list |-> r.no, chart |-> r.no, range |-> r.range]}
          /\ refreshes' = refreshes \ {r} /\ lastEnded' = r.no /\ online' = TRUE
      BY <1>4, <2>1, <2>3 DEF Answer, Showing
    <3>2. lastEnded' = issued' => shown' = {LatestAsked'}
      BY <2>1, <3>1 DEF IData, LatestAsked
    <3>3. \A s \in shown' : s.list = s.chart
      BY <3>1
    <3>. QED  BY <2>1, <2>2, <3>1, <3>2, <3>3 DEF IData
  <2>4. CASE r.got \cup {part} # Parts
    <3>1. /\ shown' = shown /\ lastEnded' = lastEnded /\ online' = online
          /\ refreshes' = (refreshes \ {r}) \cup {[r EXCEPT !.got = @ \cup {part}]}
      BY <1>4, <2>1, <2>4 DEF Answer, Showing
    <3>2. PICK e : e = [r EXCEPT !.got = @ \cup {part}]
      OBVIOUS
    <3>3. /\ e \in [no : 1 .. issued, range : Ranges, got : SUBSET Parts]
          /\ e.no = r.no /\ e.range = r.range
      BY <2>2, <3>2
    <3>4. refreshes' \subseteq refreshes \cup {e}
      BY <3>1, <3>2
    <3>. QED  BY <2>1, <3>1, <3>3, <3>4 DEF IData, LatestAsked
  <2>. QED  BY <2>3, <2>4
<1>5. CASE Reload
  <2>1. /\ issued' = issued + 1 /\ settings' = savedSettings
        /\ refreshes' = {Refresh(savedSettings.range)}
        /\ lastEnded' = 0 /\ shown' = {} /\ online' = FALSE
    BY <1>5 DEF Reload
  <2>2. savedSettings.range \in Ranges
    BY DEF IConf, Settings
  <2>. QED  BY <2>1, <2>2, <1>i, <1>r DEF IData
<1>6. CASE Editing \/ UNCHANGED vars
  BY <1>0, <1>6, EditingKeeps DEF conf
<1>. QED  BY <1>1, <1>2, <1>3, <1>4, <1>5, <1>6, Steps DEF Refreshing

LEMMA InitConfData == Init => IConf /\ IData
<1>. SUFFICES ASSUME Init PROVE IConf /\ IData
  OBVIOUS
<1>1. DefaultSettings \in Settings /\ DefaultSettings.range = DefaultRange
  BY WebviewAssumption DEF DefaultSettings, Settings
<1>2. AtMostOne(timers)
  <2>1. DefaultInterval \in Intervals
    BY WebviewAssumption
  <2>2. timers = IF DefaultInterval > 0 THEN <<DefaultInterval>> ELSE <<>>
    BY DEF Init
  <2>. QED  BY <2>1, <2>2, PositiveInterval, OneTimer, Zenon
<1>3. IConf
  BY <1>1, <1>2, Zenon DEF IConf, Init
<1>4. DefaultRange \in Ranges
  BY WebviewAssumption
<1>5. IData
  <2>1. /\ issued = 1 /\ refreshes = {[no |-> 1, range |-> DefaultRange, got |-> {}]}
        /\ lastEnded = 0 /\ shown = {} /\ online = FALSE /\ settings.range = DefaultRange
    BY <1>1 DEF Init
  <2>2. 1 \in Nat /\ 1 \in 1 .. 1 /\ 0 \in 0 .. 1
    OBVIOUS
  <2>3. refreshes \subseteq [no : 1 .. issued, range : Ranges, got : SUBSET Parts]
    BY <1>4, <2>1, <2>2
  <2>4. \A r \in refreshes : r.range = settings.range
    BY <2>1
  <2>. QED  BY <2>1, <2>2, <2>3, <2>4 DEF IData
<1>. QED  BY <1>3, <1>5

LEMMA ConfDataInductive == Spec => [](IConf /\ IData)
BY InitConfData, ConfStep, DataStep, PTL DEF Spec

(* List and chart are always of one refresh, and when the refresh started   *)
(* last ended last, and well, its answers are what is shown, and they are   *)
(* of the period selected; for any number of refreshes on the way, answered *)
(* and failing in any order (app.js:180-205).                               *)
THEOREM DataShownTogether == Spec => []ShownTogether
<1>1. IData => ShownTogether
  BY DEF IData, LatestAsked, ShownTogether
<1>. QED  BY <1>1, ConfDataInductive, PTL

-----------------------------------------------------------------------------
(* Layouts: the widgets of a dashboard, no two of which have one identity.  *)

Layouts == {ws \in Seq(Widgets) : \A i, j \in DOMAIN ws : i # j => ws[i].id # ws[j].id}

LEMMA LayoutFacts ==
  ASSUME NEW ws \in Layouts
  PROVE  /\ ws \in Seq(Widgets) /\ DOMAIN ws = 1 .. Len(ws) /\ Len(ws) \in Nat
         /\ \A i \in DOMAIN ws : ws[i] \in Widgets /\ ws[i].id \in Ids(ws)
         /\ \A i, j \in DOMAIN ws : i # j => ws[i].id # ws[j].id
<1>1. ws \in Seq(Widgets) /\ \A i, j \in DOMAIN ws : i # j => ws[i].id # ws[j].id
  BY DEF Layouts
<1>2. DOMAIN ws = 1 .. Len(ws) /\ Len(ws) \in Nat
  BY <1>1, LenProperties
<1>3. \A i \in DOMAIN ws : ws[i] \in Widgets
  BY <1>1, <1>2, ElementOfSeq
<1>4. \A i \in DOMAIN ws : ws[i].id \in Ids(ws)
  BY DEF Ids, Range
<1>. QED  BY <1>1, <1>2, <1>3, <1>4

\* A widget is found by its identity, at one position.
LEMMA Found ==
  ASSUME NEW ws \in Layouts, NEW id \in Ids(ws)
  PROVE  /\ Position(ws, id) \in DOMAIN ws
         /\ ws[Position(ws, id)].id = id
         /\ \A i \in DOMAIN ws : ws[i].id = id => i = Position(ws, id)
<1>1. \E i \in DOMAIN ws : ws[i].id = id
  BY DEF Ids, Range
<1>2. Position(ws, id) \in DOMAIN ws /\ ws[Position(ws, id)].id = id
  BY <1>1 DEF Position
<1>. QED  BY <1>2, LayoutFacts

\* One widget of a layout is replaced by one of the same identity.
LEMMA Replaced ==
  ASSUME NEW ws \in Layouts, NEW p \in DOMAIN ws, NEW x \in Widgets, x.id = ws[p].id,
         NEW v, v = [ws EXCEPT ![p] = x]
  PROVE  /\ v \in Layouts /\ Ids(v) = Ids(ws) /\ Len(v) = Len(ws)
         /\ \A id \in Ids(ws) : Position(v, id) = Position(ws, id)
<1>1. /\ ws \in Seq(Widgets) /\ DOMAIN ws = 1 .. Len(ws) /\ Len(ws) \in Nat
      /\ \A i \in DOMAIN ws : ws[i] \in Widgets
      /\ \A i, j \in DOMAIN ws : i # j => ws[i].id # ws[j].id
  BY LayoutFacts
<1>2. v \in Seq(Widgets) /\ Len(v) = Len(ws) /\ DOMAIN v = DOMAIN ws
  BY <1>1, ExceptSeq
<1>3. \A i \in DOMAIN ws : v[i] = IF i = p THEN x ELSE ws[i]
  BY <1>1
<1>4. \A i \in DOMAIN ws : v[i].id = ws[i].id
  BY <1>3
<1>5. v \in Layouts
  BY <1>1, <1>2, <1>4 DEF Layouts
<1>6. Ids(v) = Ids(ws)
  BY <1>2, <1>4 DEF Ids, Range
<1>7. ASSUME NEW id \in Ids(ws) PROVE Position(v, id) = Position(ws, id)
  BY <1>2, <1>4, <1>5, <1>6, Found
<1>. QED  BY <1>2, <1>5, <1>6, <1>7

LEMMA WidgetFields ==
  ASSUME NEW x \in Widgets
  PROVE  /\ x.id \in 1 .. MaxWidgets + Len(DefaultPresets) /\ x.query \in STRING /\ x.w \in 2 .. 12
         /\ x = [id |-> x.id, query |-> x.query, w |-> x.w]
BY DEF Widgets

LEMMA WidgetOf ==
  ASSUME NEW id \in 1 .. MaxWidgets + Len(DefaultPresets), NEW query \in STRING, NEW w \in 2 .. 12
  PROVE  [id |-> id, query |-> query, w |-> w] \in Widgets
BY DEF Widgets

LEMMA Resized ==
  ASSUME NEW x \in Widgets, NEW w \in 2 .. 12
  PROVE  [x EXCEPT !.w = w] \in Widgets /\ [x EXCEPT !.w = w] = [id |-> x.id, query |-> x.query, w |-> w]
BY DEF Widgets

LEMMA Requeried ==
  ASSUME NEW x \in Widgets, NEW q \in STRING
  PROVE  [x EXCEPT !.query = q] \in Widgets /\ [x EXCEPT !.query = q].id = x.id
BY DEF Widgets

\* A resize keeps the layout, and only its last width counts.
LEMMA WidthSet ==
  ASSUME NEW ws \in Layouts, NEW id \in Ids(ws), NEW w \in 2 .. 12
  PROVE  /\ WithWidth(ws, id, w) \in Layouts
         /\ Ids(WithWidth(ws, id, w)) = Ids(ws)
         /\ WithWidth(ws, id, w)[Position(ws, id)].w = w
         /\ Position(WithWidth(ws, id, w), id) = Position(ws, id)
         /\ \A v \in 2 .. 12 : WithWidth(WithWidth(ws, id, w), id, v) = WithWidth(ws, id, v)
<1>. DEFINE p == Position(ws, id)
<1>1. p \in DOMAIN ws /\ ws[p] \in Widgets
  BY Found, LayoutFacts
<1>2. ASSUME NEW v \in 2 .. 12
      PROVE  /\ WithWidth(ws, id, v) = [ws EXCEPT ![p] = [id |-> ws[p].id, query |-> ws[p].query, w |-> v]]
             /\ [id |-> ws[p].id, query |-> ws[p].query, w |-> v] \in Widgets
  <2>1. WithWidth(ws, id, v) = [ws EXCEPT ![p] = [ws[p] EXCEPT !.w = v]]
    BY DEF WithWidth
  <2>. HIDE DEF p
  <2>. QED  BY <1>1, <2>1, Resized
<1>. HIDE DEF p
<1>3. PICK x, u : x = [id |-> ws[p].id, query |-> ws[p].query, w |-> w] /\ u = [ws EXCEPT ![p] = x]
  OBVIOUS
<1>4. u = WithWidth(ws, id, w) /\ x \in Widgets /\ x.id = ws[p].id /\ x.query = ws[p].query /\ x.w = w
  BY <1>2, <1>3
<1>5. u \in Layouts /\ Ids(u) = Ids(ws) /\ Position(u, id) = p
  <2>1. u \in Layouts /\ Ids(u) = Ids(ws) /\ \A i \in Ids(ws) : Position(u, i) = Position(ws, i)
    <3>1. u = [ws EXCEPT ![p] = x] /\ x \in Widgets /\ x.id = ws[p].id
      BY <1>3, <1>4
    <3>2. p \in DOMAIN ws
      BY <1>1
    <3>3. PICK k : k = p
      OBVIOUS
    <3>. QED  BY ONLY <3>1, <3>2, <3>3, ws \in Layouts, Replaced
  <2>. QED  BY <2>1 DEF p
<1>6. u[p] = x
  BY <1>1, <1>3
<1>7. ASSUME NEW v \in 2 .. 12 PROVE WithWidth(u, id, v) = WithWidth(ws, id, v)
  <2>1. WithWidth(u, id, v) = [u EXCEPT ![p] = [x EXCEPT !.w = v]]
    BY <1>5, <1>6 DEF WithWidth
  <2>2. PICK y : y = [id |-> ws[p].id, query |-> ws[p].query, w |-> v]
    OBVIOUS
  <2>3. [x EXCEPT !.w = v] = y
    BY <1>4, <2>2, Resized
  <2>4. WithWidth(u, id, v) = [u EXCEPT ![p] = y] /\ WithWidth(ws, id, v) = [ws EXCEPT ![p] = y]
    BY <1>2, <2>1, <2>2, <2>3
  <2>. QED  BY <1>3, <2>4
<1>. QED  BY <1>4, <1>5, <1>6, <1>7 DEF p

LEMMA WidthKept ==
  ASSUME NEW ws \in Layouts, NEW id \in Ids(ws)
  PROVE  /\ ws[Position(ws, id)].w \in 2 .. 12
         /\ WithWidth(ws, id, ws[Position(ws, id)].w) = ws
<1>. DEFINE p == Position(ws, id)
<1>1. p \in DOMAIN ws /\ ws[p] \in Widgets
  BY Found, LayoutFacts
<1>2. ws \in Seq(Widgets)
  BY LayoutFacts
<1>3. WithWidth(ws, id, ws[p].w) = [ws EXCEPT ![p] = [ws[p] EXCEPT !.w = ws[p].w]]
  BY DEF WithWidth
<1>. HIDE DEF p
<1>4. ws[p].w \in 2 .. 12
  BY <1>1, WidgetFields
<1>5. [ws[p] EXCEPT !.w = ws[p].w] = ws[p]
  BY <1>1, <1>4, WidgetFields, Resized
<1>6. [ws EXCEPT ![p] = ws[p]] = ws
  BY <1>1, <1>2
<1>. QED  BY <1>3, <1>4, <1>5, <1>6 DEF p

\* The list without a widget is a layout of the others.
LEMMA WithoutOne ==
  ASSUME NEW ws \in Layouts, NEW id
  PROVE  /\ Without(ws, id) \in Layouts
         /\ Ids(Without(ws, id)) = Ids(ws) \ {id}
<1>. DEFINE T == {w \in Range(ws) : w.id # id}
<1>1. PICK f, e : f = Without(ws, id) /\ f \in Seq(Widgets) /\ Picks(e, f, ws, T, Len(ws))
  BY LayoutFacts, FilterPicks DEF Without
<1>2. /\ DOMAIN ws = 1 .. Len(ws) /\ DOMAIN f = 1 .. Len(f) /\ Len(f) \in Nat
      /\ \A i, j \in DOMAIN ws : i # j => ws[i].id # ws[j].id
  BY <1>1, LayoutFacts, LenProperties
<1>3. \A i \in DOMAIN f : e[i] \in DOMAIN ws /\ e[i] \in Int /\ f[i] = ws[e[i]] /\ f[i] \in T
  BY <1>1, <1>2 DEF Picks
<1>4. \A k \in DOMAIN ws : ws[k] \in T => \E i \in DOMAIN f : e[i] = k
  BY <1>1, <1>2 DEF Picks
<1>5. \A i, j \in DOMAIN f : i # j => e[i] # e[j]
  <2>1. \A i, j \in DOMAIN f : i < j => e[i] < e[j]
    BY <1>1, <1>2 DEF Picks
  <2>2. \A i, j \in DOMAIN f : i \in Int /\ j \in Int /\ (i # j => i < j \/ j < i)
    BY <1>2
  <2>. QED  BY <1>3, <2>1, <2>2
<1>6. f \in Layouts
  BY <1>1, <1>2, <1>3, <1>5 DEF Layouts
<1>7. Ids(f) = Ids(ws) \ {id}
  <2>1. Ids(f) \subseteq Ids(ws) \ {id}
    BY <1>3 DEF Ids, Range
  <2>2. ASSUME NEW x \in Ids(ws) \ {id} PROVE x \in Ids(f)
    <3>1. PICK k \in DOMAIN ws : ws[k].id = x
      BY <2>2 DEF Ids, Range
    <3>2. ws[k] \in T
      BY <3>1, <2>2 DEF Range
    <3>3. PICK i \in DOMAIN f : e[i] = k
      BY <1>4, <3>2
    <3>4. f[i].id = x
      BY <1>3, <3>1, <3>3
    <3>. QED  BY <3>4 DEF Ids, Range
  <2>. QED  BY <2>1, <2>2
<1>. QED  BY <1>1, <1>6, <1>7

\* A widget that is not in a layout is put in.
LEMMA InsertOne ==
  ASSUME NEW ws \in Layouts, NEW p \in 1 .. Len(ws) + 1, NEW x \in Widgets, x.id \notin Ids(ws)
  PROVE  /\ InsertAt(ws, p, x) \in Layouts
         /\ Ids(InsertAt(ws, p, x)) = Ids(ws) \cup {x.id}
<1>1. /\ ws \in Seq(Widgets) /\ DOMAIN ws = 1 .. Len(ws) /\ Len(ws) \in Nat
      /\ \A i \in DOMAIN ws : ws[i] \in Widgets /\ ws[i].id \in Ids(ws)
      /\ \A i, j \in DOMAIN ws : i # j => ws[i].id # ws[j].id
  BY LayoutFacts
<1>2. PICK l, a, b : l = Len(ws) /\ a = SubSeq(ws, 1, p - 1) /\ b = SubSeq(ws, p, l)
  OBVIOUS
<1>3. /\ a \in Seq(Widgets) /\ Len(a) = p - 1 /\ \A i \in 1 .. p - 1 : a[i] = ws[i]
  <2>1. \A i \in 1 .. p - 1 : ws[i] \in Widgets
    BY <1>1
  <2>. QED  BY <1>2, <2>1, SubSeqProperties
<1>4. /\ b \in Seq(Widgets) /\ Len(b) = l - p + 1
      /\ \A i \in 1 .. l - p + 1 : b[i] = ws[p + i - 1]
  <2>1. \A i \in p .. l : ws[i] \in Widgets
    BY <1>1, <1>2
  <2>. QED  BY <1>1, <1>2, <2>1, SubSeqProperties
<1>5. PICK v : v = a \o <<x>> \o b
  OBVIOUS
<1>6. v = InsertAt(ws, p, x)
  BY <1>2, <1>5 DEF InsertAt
<1>7. /\ v \in Seq(Widgets) /\ Len(v) = l + 1
      /\ \A i \in 1 .. l + 1 : v[i] = IF i < p THEN ws[i] ELSE IF i = p THEN x ELSE ws[i - 1]
  <2>1. PICK c : c = a \o <<x>>
    OBVIOUS
  <2>2. <<x>> \in Seq(Widgets) /\ Len(<<x>>) = 1 /\ <<x>>[1] = x
    OBVIOUS
  <2>3. /\ c \in Seq(Widgets) /\ Len(c) = Len(a) + 1
        /\ \A i \in 1 .. Len(a) + 1 : c[i] = IF i <= Len(a) THEN a[i] ELSE <<x>>[i - Len(a)]
    BY <2>1, <2>2, <1>3, ConcatProperties
  <2>4. /\ v \in Seq(Widgets) /\ Len(v) = Len(c) + Len(b)
        /\ \A i \in 1 .. Len(c) + Len(b) : v[i] = IF i <= Len(c) THEN c[i] ELSE b[i - Len(c)]
    BY <2>1, <2>3, <1>4, <1>5, ConcatProperties
  <2>5. l \in Nat /\ p \in 1 .. l + 1
    BY <1>1, <1>2
  <2>6. /\ Len(a) = p - 1 /\ Len(c) = p /\ Len(b) = l - p + 1 /\ Len(v) = l + 1
    BY <2>3, <2>4, <2>5, <1>3, <1>4
  <2>7. ASSUME NEW i \in 1 .. l + 1
        PROVE  v[i] = IF i < p THEN ws[i] ELSE IF i = p THEN x ELSE ws[i - 1]
    <3>1. CASE i < p
      <4>1. v[i] = c[i] /\ c[i] = a[i] /\ a[i] = ws[i]
        BY <3>1, <2>3, <2>4, <2>5, <2>6, <1>3
      <4>. QED  BY <3>1, <4>1
    <3>2. CASE i = p
      <4>1. v[i] = c[i] /\ c[i] = <<x>>[i - (p - 1)] /\ i - (p - 1) = 1
        BY <3>2, <2>3, <2>4, <2>5, <2>6
      <4>2. ~(i < p)
        BY <3>2, <2>5
      <4>. QED  BY <3>2, <4>1, <4>2, <2>2
    <3>3. CASE p < i
      <4>1. v[i] = b[i - p] /\ b[i - p] = ws[p + (i - p) - 1] /\ p + (i - p) - 1 = i - 1
        BY <3>3, <2>4, <2>5, <2>6, <1>4
      <4>2. ~(i < p) /\ i # p
        BY <3>3, <2>5
      <4>. QED  BY <4>1, <4>2
    <3>. QED  BY <2>5, <3>1, <3>2, <3>3
  <2>. QED  BY <2>4, <2>6, <2>7
<1>8. DOMAIN v = 1 .. l + 1
  BY <1>7, LenProperties
<1>. DEFINE from(i) == IF i < p THEN i ELSE i - 1
<1>9. \A i \in DOMAIN v \ {p} : from(i) \in DOMAIN ws /\ v[i] = ws[from(i)]
  BY <1>1, <1>2, <1>7, <1>8
<1>10. \A i, j \in DOMAIN v \ {p} : i # j => from(i) # from(j)
  BY <1>8, <1>1, <1>2
<1>11. v[p] = x /\ p \in DOMAIN v
  BY <1>1, <1>2, <1>7, <1>8
<1>12. \A k \in DOMAIN ws : \E i \in DOMAIN v \ {p} : from(i) = k
  <2>1. ASSUME NEW k \in DOMAIN ws PROVE \E i \in DOMAIN v \ {p} : from(i) = k
    <3>1. CASE k < p
      BY <3>1, <1>1, <1>2, <1>8
    <3>2. CASE ~(k < p)
      <4>1. k + 1 \in DOMAIN v \ {p} /\ from(k + 1) = k
        BY <3>2, <1>1, <1>2, <1>8
      <4>. QED  BY <4>1
    <3>. QED  BY <3>1, <3>2
  <2>. QED  BY <2>1
<1>. HIDE DEF from
<1>13. \A i, j \in DOMAIN v : i # j => v[i].id # v[j].id
  BY <1>1, <1>9, <1>10, <1>11
<1>14. v \in Layouts
  BY <1>7, <1>13 DEF Layouts
<1>15. Ids(v) = Ids(ws) \cup {x.id}
  <2>1. Ids(v) \subseteq Ids(ws) \cup {x.id}
    BY <1>1, <1>9, <1>11 DEF Ids, Range
  <2>2. Ids(ws) \subseteq Ids(v)
    BY <1>9, <1>12 DEF Ids, Range
  <2>. QED  BY <2>1, <2>2, <1>11 DEF Ids, Range
<1>. QED  BY <1>6, <1>14, <1>15

LEMMA IdsCount ==
  ASSUME NEW ws \in Layouts
  PROVE  IsFiniteSet(Ids(ws)) /\ Cardinality(Ids(ws)) = Len(ws)
<1>1. /\ DOMAIN ws = 1 .. Len(ws) /\ Len(ws) \in Nat
      /\ \A i, j \in DOMAIN ws : i # j => ws[i].id # ws[j].id
  BY LayoutFacts
<1>2. PICK n, f : n = Len(ws) /\ f = [i \in 1 .. n |-> ws[i].id]
  OBVIOUS
<1>3. Ids(ws) = {f[i] : i \in 1 .. n}
  BY <1>1, <1>2 DEF Ids, Range
<1>4. f \in Bijection(1 .. n, Ids(ws))
  <2>1. f \in [1 .. n -> Ids(ws)]
    BY <1>2, <1>3
  <2>2. \A i, j \in 1 .. n : i # j => f[i] # f[j]
    BY <1>1, <1>2
  <2>. QED  BY <1>3, <2>1, <2>2 DEF Bijection, Injection, Surjection, IsInjective
<1>5. n \in Nat /\ ExistsBijection(1 .. n, Ids(ws))
  BY <1>1, <1>2, <1>4 DEF ExistsBijection
<1>. QED  BY <1>2, <1>5, FS_CountingElements, FS_NatBijection

\* A new widget gets an identity that no widget has.
LEMMA FreshId ==
  ASSUME NEW ws \in Layouts
  PROVE  NewId(ws) \in 1 .. Len(ws) + 1 /\ NewId(ws) \notin Ids(ws)
<1>1. PICK n : n = Len(ws)
  OBVIOUS
<1>2. n \in Nat /\ IsFiniteSet(Ids(ws)) /\ Cardinality(Ids(ws)) = n
  BY <1>1, IdsCount, LayoutFacts
<1>. DEFINE T == (1 .. n + 1) \ Ids(ws)
<1>3. T # {}
  <2>. SUFFICES ASSUME T = {} PROVE FALSE
    OBVIOUS
  <2>1. 1 .. n + 1 \subseteq Ids(ws)
    OBVIOUS
  <2>2. Cardinality(1 .. n + 1) <= n
    BY <1>2, <2>1, FS_Subset
  <2>3. Cardinality(1 .. n + 1) = n + 1
    <3>1. 1 \in Int /\ n + 1 \in Int /\ ~(1 > n + 1) /\ (n + 1) - 1 + 1 = n + 1
      BY <1>2
    <3>. QED  BY <3>1, FS_Interval
  <2>. QED  BY <1>2, <2>2, <2>3
<1>4. T \in SUBSET Nat /\ T \subseteq 1 .. n + 1
  BY <1>2
<1>. HIDE DEF T
<1>5. PICK k \in T : \A m \in T : ~(m < k)
  BY <1>3, <1>4, Least
<1>6. \A m \in T : k <= m
  BY <1>4, <1>5
<1>7. Min(T) \in T
  BY <1>5, <1>6 DEF Min
<1>8. NewId(ws) = Min(T)
  BY <1>1 DEF NewId, T
<1>. QED  BY <1>1, <1>4, <1>7, <1>8 DEF T

LEMMA DefaultLayout == DefaultWidgets \in Layouts
<1>. DEFINE Preset == [query : STRING \ {""}, w : 2 .. 12]
<1>1. DefaultPresets \in Seq(Preset)
  BY WebviewAssumption
<1>. HIDE DEF Preset
<1>2. /\ DOMAIN DefaultPresets = 1 .. Len(DefaultPresets) /\ Len(DefaultPresets) \in Nat
      /\ \A i \in 1 .. Len(DefaultPresets) : DefaultPresets[i] \in Preset
  BY <1>1, LenProperties, ElementOfSeq
<1>3. \A p \in Preset : p.query \in STRING /\ p.w \in 2 .. 12
  BY DEF Preset
<1>4. PICK l, d : l = Len(DefaultPresets) /\ d = DefaultWidgets
  OBVIOUS
<1>5. d = [i \in 1 .. l |-> [id |-> i, query |-> DefaultPresets[i].query, w |-> DefaultPresets[i].w]]
  BY <1>2, <1>4 DEF DefaultWidgets
<1>6. \A i \in 1 .. l : d[i] \in Widgets /\ d[i].id = i
  <2>1. ASSUME NEW i \in 1 .. l PROVE d[i] \in Widgets /\ d[i].id = i
    <3>1. DefaultPresets[i].query \in STRING /\ DefaultPresets[i].w \in 2 .. 12
      BY <1>2, <1>3, <1>4
    <3>2. i \in 1 .. MaxWidgets + Len(DefaultPresets)
      <4>1. MaxWidgets \in Nat
        BY WebviewAssumption
      <4>. QED  BY <1>2, <1>4, <4>1
    <3>. QED  BY <1>5, <3>1, <3>2, WidgetOf
  <2>. QED  BY <2>1
<1>7. d \in Seq(Widgets) /\ DOMAIN d = 1 .. l
  BY <1>2, <1>4, <1>5, <1>6, IsASeq
<1>8. d \in Layouts
  BY <1>6, <1>7 DEF Layouts
<1>. QED  BY <1>4, <1>8

-----------------------------------------------------------------------------
(* The dashboard.  ScreenMatches speaks of a widget's width only while its   *)
(* element is not drawn; the invariant says what the old element shows.     *)

\* localStorage holds ws, or nothing yet of a default dashboard.
Stored(ws) == savedWidgets = {ws} \/ (savedWidgets \subseteq {<<>>} /\ ws = DefaultWidgets)

\* ws is what was drawn before the resize r lost its element.
Outdated(ws, r) == ~r.attached /\ \E w \in 2 .. 12 : ws = WithWidth(widgets, r.id, w)

IUser ==
    /\ modal \in {"none", "config", "editor"} /\ editMode \in BOOLEAN
    /\ editor # {} => modal = "editor"
    /\ \A e \in editor : e = [id |-> e.id, query |-> e.query] /\ e.id \in Ids(widgets) /\ e.query \in STRING
    /\ resizing # {} => modal = "none"
    /\ \A r \in resizing : r \in [id : Ids(widgets), w : 2 .. 12, attached : BOOLEAN]
    /\ \A r, q \in resizing : r = q

IGrid ==
    /\ IUser
    /\ widgets \in Layouts
    /\ \A ws \in screen : ws = widgets \/ \E r \in resizing : Outdated(ws, r)
    /\ resizing = {} => Stored(widgets)
    /\ \A r \in resizing : Stored(WithWidth(widgets, r.id, r.w))

LEMMA GridStays == IGrid /\ UNCHANGED <<modal, editor, grid>> => IGrid'
BY DEF IGrid, IUser, grid, Outdated, Stored

\* The grid is drawn again, and the element of a resize with it.
LEMMA Redrawn ==
  ASSUME IGrid, RenderWidgets, UNCHANGED <<modal, editor, widgets, savedWidgets>>,
         editMode' \in BOOLEAN
  PROVE  IGrid'
<1>1. ASSUME NEW r \in resizing
      PROVE  LET q == [r EXCEPT !.attached = FALSE]
             IN  /\ q \in [id : Ids(widgets), w : 2 .. 12, attached : BOOLEAN]
                 /\ q.id = r.id /\ q.w = r.w
  BY DEF IGrid, IUser
<1>2. resizing' = {[r EXCEPT !.attached = FALSE] : r \in resizing} /\ screen' = {widgets'}
  BY DEF RenderWidgets
<1>3. ASSUME NEW q \in resizing'
      PROVE  /\ q \in [id : Ids(widgets), w : 2 .. 12, attached : BOOLEAN]
             /\ \E r \in resizing : q = [r EXCEPT !.attached = FALSE] /\ q.id = r.id /\ q.w = r.w
  BY <1>1, <1>2
<1>4. \A r, q \in resizing' : r = q
  BY <1>2 DEF IGrid, IUser
<1>5. resizing' # {} => resizing # {}
  BY <1>2
<1>6. IUser'
  BY <1>3, <1>4, <1>5 DEF IGrid, IUser
<1>7. \A ws \in screen' : ws = widgets'
  BY <1>2
<1>8. resizing' = {} => Stored(widgets)'
  <2>1. resizing' = {} => resizing = {}
    BY <1>2
  <2>. QED  BY <2>1 DEF IGrid, Stored
<1>9. \A q \in resizing' : Stored(WithWidth(widgets, q.id, q.w))'
  BY <1>3 DEF IGrid, Stored
<1>. QED  BY <1>6, <1>7, <1>8, <1>9 DEF IGrid

\* A change of the dashboard, saved and drawn.
LEMMA Changed ==
  ASSUME IGrid, resizing = {}, widgets' \in Layouts, SaveDashboard, RenderWidgets,
         editor' = {}, modal' = "none", editMode' = editMode
  PROVE  IGrid'
<1>1. resizing' = {} /\ screen' = {widgets'} /\ savedWidgets' = {widgets'}
  BY DEF RenderWidgets, SaveDashboard
<1>2. IUser'
  BY <1>1 DEF IGrid, IUser
<1>. QED  BY <1>1, <1>2 DEF IGrid, Stored

LEMMA ModalStep ==
  ASSUME IGrid, OpenConfig \/ CloseConfig \/ SaveConfig \/ CloseWidgetEditor
  PROVE  IGrid'
<1>1. UNCHANGED grid /\ (editor' = editor \/ editor' = {})
  BY DEF OpenConfig, CloseConfig, SaveConfig, CloseWidgetEditor
<1>2. IUser'
  BY DEF OpenConfig, CloseConfig, SaveConfig, CloseWidgetEditor, Free, IGrid, IUser, grid
<1>. QED  BY <1>1, <1>2 DEF IGrid, grid, Outdated, Stored

LEMMA AddStep ==
  ASSUME IGrid, NEW p \in Presets, AddWidget(p)
  PROVE  IGrid'
<1>1. /\ Free /\ Len(widgets) < MaxWidgets /\ SaveDashboard /\ RenderWidgets
      /\ UNCHANGED <<modal, editor, editMode>>
      /\ widgets' = Append(widgets, [id |-> NewId(widgets), query |-> p.query, w |-> p.w])
  BY DEF AddWidget
<1>2. PICK x, ws : x = [id |-> NewId(widgets), query |-> p.query, w |-> p.w] /\ ws = widgets
  OBVIOUS
<1>3. /\ ws \in Layouts /\ ws \in Seq(Widgets) /\ Len(ws) \in Nat /\ DOMAIN ws = 1 .. Len(ws)
      /\ \A i \in DOMAIN ws : ws[i].id \in Ids(ws)
      /\ \A i, j \in DOMAIN ws : i # j => ws[i].id # ws[j].id
  BY <1>2, LayoutFacts DEF IGrid
<1>4. NewId(ws) \in 1 .. Len(ws) + 1 /\ NewId(ws) \notin Ids(ws)
  BY <1>3, FreshId
<1>5. p.query \in STRING /\ p.w \in 2 .. 12 /\ MaxWidgets \in Nat /\ Len(DefaultPresets) \in Nat
  <2>1. p \in [query : STRING \ {""}, w : 2 .. 12] /\ MaxWidgets \in Nat
    BY WebviewAssumption
  <2>2. DefaultPresets \in Seq([query : STRING \ {""}, w : 2 .. 12])
    BY WebviewAssumption
  <2>. DEFINE Preset == [query : STRING \ {""}, w : 2 .. 12]
  <2>3. Len(DefaultPresets) \in Nat
    <3>1. DefaultPresets \in Seq(Preset)
      BY <2>2
    <3>. HIDE DEF Preset
    <3>. QED  BY <3>1, LenProperties
  <2>. QED  BY <2>1, <2>3
<1>6. NewId(ws) \in 1 .. MaxWidgets + Len(DefaultPresets)
  <2>1. Len(ws) < MaxWidgets
    BY <1>1, <1>2
  <2>. QED  BY <2>1, <1>3, <1>4, <1>5
<1>7. x \in Widgets /\ x.id = NewId(ws)
  BY <1>2, <1>5, <1>6, WidgetOf
<1>8. PICK v : v = Append(ws, x)
  OBVIOUS
<1>9. /\ v \in Seq(Widgets) /\ Len(v) = Len(ws) + 1
      /\ \A i \in 1 .. Len(ws) : v[i] = ws[i]
      /\ v[Len(ws) + 1] = x
  BY <1>3, <1>7, <1>8, AppendProperties
<1>10. DOMAIN v = 1 .. Len(ws) + 1
  BY <1>9, LenProperties
<1>11. \A i, j \in DOMAIN v : i # j => v[i].id # v[j].id
  <2>1. \A i \in DOMAIN v : i \in DOMAIN ws \/ i = Len(ws) + 1
    BY <1>3, <1>10
  <2>2. \A i \in DOMAIN ws : v[i].id = ws[i].id /\ v[i].id # x.id
    BY <1>3, <1>4, <1>7, <1>9
  <2>3. v[Len(ws) + 1].id = x.id
    BY <1>9
  <2>. QED  BY <2>1, <2>2, <2>3, <1>3
<1>12. widgets' \in Layouts
  BY <1>1, <1>2, <1>8, <1>9, <1>11 DEF Layouts
<1>13. editor' = {} /\ modal' = "none" /\ resizing = {}
  BY <1>1 DEF Free, IGrid, IUser
<1>. QED  BY <1>1, <1>12, <1>13, Changed

LEMMA DeleteStep ==
  ASSUME IGrid, NEW id, DeleteWidget(id)
  PROVE  IGrid'
<1>1. /\ Free /\ SaveDashboard /\ RenderWidgets
      /\ UNCHANGED <<modal, editor, editMode>>
      /\ widgets' = Without(widgets, id)
  BY DEF DeleteWidget, Clickable
<1>2. widgets' \in Layouts
  BY <1>1, WithoutOne DEF IGrid
<1>3. editor' = {} /\ modal' = "none" /\ resizing = {}
  BY <1>1 DEF Free, IGrid, IUser
<1>. QED  BY <1>1, <1>2, <1>3, Changed

LEMMA MoveStep ==
  ASSUME IGrid, NEW source \in Ids(widgets), NEW target \in Ids(widgets),
         MoveWidgetBefore(source, target)
  PROVE  IGrid'
<1>1. /\ Free /\ SaveDashboard /\ RenderWidgets /\ source # target
      /\ UNCHANGED <<modal, editor, editMode>>
      /\ widgets' = InsertAt(Without(widgets, source), Position(Without(widgets, source), target),
                             widgets[Position(widgets, source)])
  BY DEF MoveWidgetBefore, Clickable
<1>2. PICK rest, x, p : /\ rest = Without(widgets, source)
                        /\ x = widgets[Position(widgets, source)]
                        /\ p = Position(rest, target)
  OBVIOUS
<1>3. widgets \in Layouts /\ rest \in Layouts /\ Ids(rest) = Ids(widgets) \ {source}
  BY <1>2, WithoutOne DEF IGrid
<1>4. x \in Widgets /\ x.id = source
  BY <1>2, <1>3, Found, LayoutFacts
<1>5. p \in 1 .. Len(rest) + 1
  <2>1. p \in DOMAIN rest
    BY <1>1, <1>2, <1>3, Found
  <2>. QED  BY <2>1, <1>3, LayoutFacts
<1>6. InsertAt(rest, p, x) \in Layouts
  BY <1>3, <1>4, <1>5, InsertOne
<1>7. widgets' \in Layouts
  BY <1>1, <1>2, <1>6
<1>8. editor' = {} /\ modal' = "none" /\ resizing = {}
  BY <1>1 DEF Free, IGrid, IUser
<1>. QED  BY <1>1, <1>7, <1>8, Changed

LEMMA EditorStep ==
  ASSUME IGrid
  PROVE  /\ \A id \in Ids(widgets) : OpenWidgetEditor(id) => IGrid'
         /\ \A q \in Queries : TypeQuery(q) => IGrid'
         /\ SaveWidgetEditor => IGrid'
<1>1. ASSUME NEW id \in Ids(widgets), OpenWidgetEditor(id) PROVE IGrid'
  <2>1. widgets[Position(widgets, id)].query \in STRING
    BY Found, LayoutFacts, WidgetFields DEF IGrid
  <2>2. PICK e : e = [id |-> id, query |-> widgets[Position(widgets, id)].query]
    OBVIOUS
  <2>3. /\ UNCHANGED grid /\ modal' = "editor" /\ editor' = {e} /\ resizing = {}
    BY <1>1, <2>2 DEF OpenWidgetEditor, Clickable, Free
  <2>4. e = [id |-> e.id, query |-> e.query] /\ e.id \in Ids(widgets) /\ e.query \in STRING
    BY <2>1, <2>2
  <2>5. IUser'
    BY <2>3, <2>4 DEF IGrid, IUser, grid
  <2>. QED  BY <2>3, <2>5 DEF IGrid, grid, Outdated, Stored
<1>2. ASSUME NEW q \in Queries, TypeQuery(q) PROVE IGrid'
  <2>1. q \in STRING
    BY WebviewAssumption
  <2>2. /\ UNCHANGED grid /\ modal' = modal /\ modal = "editor"
        /\ editor' = {[e EXCEPT !.query = q] : e \in editor}
    BY <1>2 DEF TypeQuery
  <2>3. ASSUME NEW e \in editor
        PROVE  LET f == [e EXCEPT !.query = q]
               IN  f = [id |-> f.id, query |-> f.query] /\ f.id \in Ids(widgets) /\ f.query \in STRING
    <3>1. e = [id |-> e.id, query |-> e.query] /\ e.id \in Ids(widgets)
      BY DEF IGrid, IUser
    <3>2. [e EXCEPT !.query = q] = [id |-> e.id, query |-> q]
      BY <3>1
    <3>. QED  BY <2>1, <3>1, <3>2
  <2>4. IUser'
    BY <2>2, <2>3 DEF IGrid, IUser, grid
  <2>. QED  BY <2>2, <2>4 DEF IGrid, grid, Outdated, Stored
<1>3. ASSUME SaveWidgetEditor PROVE IGrid'
  <2>1. /\ modal = "editor" /\ modal' = "none" /\ editor' = {} /\ editMode' = editMode
        /\ SaveDashboard /\ RenderWidgets
    BY <1>3 DEF SaveWidgetEditor
  <2>2. resizing = {}
    BY <2>1 DEF IGrid, IUser
  <2>3. PICK e \in editor :
           widgets' = IF e.query = "" THEN widgets
                      ELSE [widgets EXCEPT ![Position(widgets, e.id)].query = e.query]
    BY <1>3 DEF SaveWidgetEditor
  <2>4. CASE widgets' = widgets
    BY <2>1, <2>2, <2>4, Changed DEF IGrid
  <2>5. CASE widgets' = [widgets EXCEPT ![Position(widgets, e.id)].query = e.query]
    <3>1. PICK p, x : p = Position(widgets, e.id) /\ x = [widgets[p] EXCEPT !.query = e.query]
      OBVIOUS
    <3>2. p \in DOMAIN widgets /\ widgets[p] \in Widgets /\ e.query \in STRING
      BY <3>1, Found, LayoutFacts DEF IGrid, IUser
    <3>3. x \in Widgets /\ x.id = widgets[p].id
      BY <3>1, <3>2, Requeried
    <3>4. widgets' = [widgets EXCEPT ![p] = x]
      BY <3>1, <2>5
    <3>5. widgets' \in Layouts
      BY <3>2, <3>3, <3>4, Replaced DEF IGrid
    <3>. QED  BY <2>1, <2>2, <3>5, Changed
  <2>. QED  BY <2>3, <2>4, <2>5
<1>. QED  BY <1>1, <1>2, <1>3

LEMMA StartResizeStep ==
  ASSUME IGrid, NEW id \in Ids(widgets), StartWidgetResize(id)
  PROVE  IGrid'
<1>1. PICK r : r = [id |-> id, w |-> widgets[Position(widgets, id)].w, attached |-> TRUE]
  OBVIOUS
<1>2. /\ modal = "none" /\ resizing = {} /\ resizing' = {r}
      /\ UNCHANGED <<modal, editor, editMode, widgets, savedWidgets, screen>>
  BY <1>1 DEF StartWidgetResize, Clickable, Free
<1>3. /\ r.w \in 2 .. 12 /\ r.id = id /\ WithWidth(widgets, r.id, r.w) = widgets
      /\ r \in [id : Ids(widgets), w : 2 .. 12, attached : BOOLEAN]
  BY <1>1, WidthKept DEF IGrid
<1>4. IUser'
  BY <1>2, <1>3 DEF IGrid, IUser
<1>. QED  BY <1>2, <1>3, <1>4 DEF IGrid, Stored

LEMMA Bounds == \A w \in Int : Clamped(w) \in 2 .. 12
<1>1. ASSUME NEW a \in Int, NEW b \in Int
      PROVE  /\ Min({a, b}) \in {a, b} /\ Min({a, b}) <= a /\ Min({a, b}) <= b
             /\ Max({a, b}) \in {a, b} /\ Max({a, b}) >= a /\ Max({a, b}) >= b
  <2>1. \E x \in {a, b} : \A y \in {a, b} : x <= y
    <3>1. a <= b \/ b <= a
      OBVIOUS
    <3>. QED  BY <3>1
  <2>2. \E x \in {a, b} : \A y \in {a, b} : x >= y
    <3>1. a <= b \/ b <= a
      OBVIOUS
    <3>. QED  BY <3>1
  <2>. QED  BY <2>1, <2>2 DEF Min, Max
<1>2. ASSUME NEW w \in Int PROVE Clamped(w) \in 2 .. 12
  <2>1. PICK m : m = Min({12, w})
    OBVIOUS
  <2>2. m \in Int /\ m <= 12
    <3>1. 12 \in Int
      OBVIOUS
    <3>2. m \in {12, w} /\ m <= 12
      BY <1>1, <2>1, <3>1, Zenon
    <3>. QED  BY <3>1, <3>2
  <2>3. PICK n : n = Max({2, m})
    OBVIOUS
  <2>4. n \in {2, m} /\ n >= 2
    BY <1>1, <2>2, <2>3
  <2>5. Clamped(w) = n
    BY <2>1, <2>3 DEF Clamped
  <2>. QED  BY <2>2, <2>4, <2>5
<1>. QED  BY <1>2

LEMMA ResizeStep ==
  ASSUME IGrid, NEW dx \in Moves, ResizeWidget(dx)
  PROVE  IGrid'
<1>1. PICK r \in resizing :
         /\ widgets' = WithWidth(widgets, r.id, Clamped(r.w + dx))
         /\ screen' = IF r.attached THEN {WithWidth(ws, r.id, Clamped(r.w + dx)) : ws \in screen}
                      ELSE screen
  BY DEF ResizeWidget
<1>2. UNCHANGED <<modal, editor, editMode, savedWidgets, resizing>>
  BY DEF ResizeWidget
<1>3. /\ r.id \in Ids(widgets) /\ r.w \in 2 .. 12 /\ r.attached \in BOOLEAN
      /\ \A q \in resizing : q = r
      /\ widgets \in Layouts
  BY DEF IGrid, IUser
<1>4. PICK w : w = Clamped(r.w + dx)
  OBVIOUS
<1>5. w \in 2 .. 12
  <2>1. dx \in Int
    BY WebviewAssumption
  <2>2. r.w + dx \in Int
    BY <2>1, <1>3
  <2>. QED  BY <2>2, <1>4, Bounds
<1>6. /\ widgets' = WithWidth(widgets, r.id, w)
      /\ screen' = IF r.attached THEN {WithWidth(ws, r.id, w) : ws \in screen} ELSE screen
  BY <1>1, <1>4
<1>7. /\ widgets' \in Layouts /\ Ids(widgets') = Ids(widgets)
      /\ \A v \in 2 .. 12 : WithWidth(widgets', r.id, v) = WithWidth(widgets, r.id, v)
  BY <1>3, <1>5, <1>6, WidthSet
<1>8. IUser'
  BY <1>2, <1>7 DEF IGrid, IUser
<1>9. \A ws \in screen' : ws = widgets' \/ \E q \in resizing' : Outdated(ws, q)'
  <2>1. CASE r.attached
    <3>1. \A ws \in screen : ws = widgets
      BY <2>1, <1>3 DEF IGrid, Outdated
    <3>. QED  BY <2>1, <3>1, <1>6
  <2>2. CASE ~r.attached
    <3>1. ASSUME NEW ws \in screen PROVE \E v \in 2 .. 12 : ws = WithWidth(widgets, r.id, v)
      <4>1. CASE ws = widgets
        BY <4>1, <1>3, WidthKept
      <4>2. CASE \E q \in resizing : Outdated(ws, q)
        BY <4>2, <1>3 DEF Outdated
      <4>. QED  BY <4>1, <4>2 DEF IGrid
    <3>2. \A ws \in screen : Outdated(ws, r)'
      BY <2>2, <3>1, <1>7 DEF Outdated
    <3>. QED  BY <2>2, <3>2, <1>2, <1>6
  <2>. QED  BY <1>3, <2>1, <2>2
<1>10. Stored(WithWidth(widgets, r.id, r.w))'
  <2>1. Stored(WithWidth(widgets, r.id, r.w))
    BY DEF IGrid
  <2>. QED  BY <2>1, <1>2, <1>3, <1>7 DEF Stored
<1>. QED  BY <1>2, <1>3, <1>7, <1>8, <1>9, <1>10 DEF IGrid

LEMMA StopResizeStep ==
  ASSUME IGrid, StopWidgetResize
  PROVE  IGrid'
<1>1. /\ resizing' = {} /\ screen' = {widgets} /\ savedWidgets' = {widgets}
      /\ UNCHANGED <<modal, editor, editMode, widgets>>
  BY DEF StopWidgetResize, SaveDashboard
<1>2. IUser'
  BY <1>1 DEF IGrid, IUser
<1>. QED  BY <1>1, <1>2 DEF IGrid, Stored

\* What was stored, or an empty dashboard's defaults, is loaded.
LEMMA ReloadStep ==
  ASSUME IGrid, Reload
  PROVE  IGrid'
<1>1. /\ modal' = "none" /\ editMode' = FALSE /\ editor' = {} /\ resizing' = {} /\ screen' = {}
      /\ widgets' = LoadedWidgets(savedWidgets) /\ savedWidgets' = savedWidgets
  BY DEF Reload
<1>2. \E ws \in Layouts : Stored(ws)
  <2>1. CASE resizing = {}
    BY <2>1 DEF IGrid
  <2>2. ASSUME NEW r \in resizing PROVE \E ws \in Layouts : Stored(ws)
    <3>1. r.id \in Ids(widgets) /\ r.w \in 2 .. 12 /\ widgets \in Layouts
      BY DEF IGrid, IUser
    <3>. QED  BY <3>1, WidthSet DEF IGrid
  <2>. QED  BY <2>1, <2>2
<1>3. PICK ws \in Layouts : Stored(ws)
  BY <1>2
<1>4. CASE savedWidgets \subseteq {<<>>}
  <2>1. widgets' = DefaultWidgets
    BY <1>1, <1>4 DEF LoadedWidgets
  <2>2. Stored(widgets)'
    BY <1>1, <1>4, <2>1 DEF Stored
  <2>. QED  BY <1>1, <2>1, <2>2, DefaultLayout DEF IGrid, IUser
<1>5. CASE ~(savedWidgets \subseteq {<<>>})
  <2>1. savedWidgets = {ws}
    BY <1>3, <1>5 DEF Stored
  <2>2. widgets' = ws
    BY <1>1, <1>5, <2>1 DEF LoadedWidgets
  <2>3. Stored(widgets)'
    BY <1>1, <2>1, <2>2 DEF Stored
  <2>. QED  BY <1>1, <2>2, <2>3 DEF IGrid, IUser
<1>. QED  BY <1>4, <1>5

LEMMA GridStep == IGrid /\ [Next]_vars => IGrid'
<1>. SUFFICES ASSUME IGrid, [Next]_vars PROVE IGrid'
  OBVIOUS
<1>1. CASE UNCHANGED vars
  BY <1>1, GridStays DEF vars
<1>2. CASE \/ TimerFires \/ RefreshNow \/ \E r \in Ranges : ChangeRange(r)
           \/ \E i \in Intervals : PickInterval(i)
  BY <1>2, GridStays DEF TimerFires, RefreshNow, ChangeRange, PickInterval
<1>3. CASE OpenConfig \/ SaveConfig \/ CloseConfig \/ CloseWidgetEditor
  BY <1>3, ModalStep
<1>4. ASSUME NEW r \in refreshes, Fail(r) PROVE IGrid'
  BY <1>4, GridStays DEF Fail
<1>5. ASSUME NEW r \in refreshes, NEW part \in Parts, Answer(r, part) PROVE IGrid'
  <2>1. UNCHANGED <<modal, editor, editMode, widgets, savedWidgets>>
    BY <1>5 DEF Answer
  <2>2. RenderWidgets \/ UNCHANGED <<screen, resizing>>
    BY <1>5 DEF Answer
  <2>3. editMode' \in BOOLEAN
    BY <2>1 DEF IGrid, IUser
  <2>. QED  BY <2>1, <2>2, <2>3, Redrawn, GridStays DEF grid
<1>6. CASE WindowResized \/ SetDashboardEditMode
  <2>1. RenderWidgets /\ UNCHANGED <<modal, editor, widgets, savedWidgets>>
    BY <1>6 DEF WindowResized, SetDashboardEditMode
  <2>2. editMode' \in BOOLEAN
    BY <1>6 DEF WindowResized, SetDashboardEditMode, IGrid, IUser
  <2>. QED  BY <2>1, <2>2, Redrawn
<1>7. ASSUME NEW p \in Presets, AddWidget(p) PROVE IGrid'
  BY <1>7, AddStep
<1>8. ASSUME NEW id \in Ids(widgets),
             \/ DeleteWidget(id) \/ OpenWidgetEditor(id) \/ StartWidgetResize(id)
             \/ \E target \in Ids(widgets) : MoveWidgetBefore(id, target)
      PROVE  IGrid'
  BY <1>8, DeleteStep, EditorStep, StartResizeStep, MoveStep
<1>9. CASE SaveWidgetEditor \/ \E q \in Queries : TypeQuery(q)
  BY <1>9, EditorStep
<1>10. CASE StopWidgetResize \/ \E dx \in Moves : ResizeWidget(dx)
  BY <1>10, StopResizeStep, ResizeStep
<1>11. CASE Reload
  BY <1>11, ReloadStep
<1>. QED
  BY <1>1, <1>2, <1>3, <1>4, <1>5, <1>6, <1>7, <1>8, <1>9, <1>10, <1>11 DEF Next

LEMMA GridInductive == Spec => []IGrid
<1>1. Init => IGrid
  <2>. SUFFICES ASSUME Init PROVE IGrid
    OBVIOUS
  <2>1. /\ modal = "none" /\ editMode = FALSE /\ editor = {} /\ resizing = {} /\ screen = {}
        /\ savedWidgets = {} /\ widgets = DefaultWidgets
    BY DEF Init
  <2>. QED  BY <2>1, DefaultLayout DEF IGrid, IUser, Stored
<1>. QED  BY <1>1, GridStep, PTL DEF Spec

(* Whatever the user and the answers do, in any order and through reloads,  *)
(* there is at most one timer, widgets have distinct identities and a width *)
(* the grid has, and editor and resize are about widgets that exist         *)
(* (app.js:126-137, 629-634, 907-1019).                                     *)
THEOREM TypeCorrect == Spec => []TypeOK
<1>1. IConf /\ IData /\ IGrid => TypeOK
  <2>. SUFFICES ASSUME IConf, IData, IGrid PROVE TypeOK
    OBVIOUS
  <2>1. {inputs, settings, savedSettings} \subseteq [range : Ranges, interval : Intervals]
    BY DEF IConf, Settings
  <2>2. timers \in Seq(Intervals \ {0}) /\ Len(timers) <= 1
    BY DEF IConf, AtMostOne
  <2>3. widgets \in Seq(Widgets) /\ Cardinality(Ids(widgets)) = Len(widgets)
    BY IdsCount, LayoutFacts DEF IGrid
  <2>4. \A e \in editor \cup resizing : e.id \in Ids(widgets)
    BY DEF IGrid, IUser
  <2>. QED  BY <2>1, <2>2, <2>3, <2>4, Zenon DEF IData, IGrid, IUser, TypeOK
<1>. QED  BY <1>1, ConfDataInductive, GridInductive, PTL

(* What is drawn is the dashboard, for any number of widgets, except for    *)
(* the width of the one being resized when its element has been replaced    *)
(* (app.js:291-299, 974-1019).                                              *)
THEOREM ScreenShowsDashboard == Spec => []ScreenMatches
<1>1. IGrid => ScreenMatches
  <2>. SUFFICES ASSUME IGrid, NEW ws \in screen, NEW r \in resizing, Outdated(ws, r)
                PROVE  ~r.attached
                         /\ WithWidth(ws, r.id, widgets[Position(widgets, r.id)].w) = widgets
    BY DEF IGrid, ScreenMatches
  <2>1. PICK w \in 2 .. 12 : ws = WithWidth(widgets, r.id, w)
    BY DEF Outdated
  <2>2. widgets \in Layouts /\ r.id \in Ids(widgets)
    BY DEF IGrid, IUser
  <2>3. PICK v : v = widgets[Position(widgets, r.id)].w
    OBVIOUS
  <2>4. v \in 2 .. 12 /\ WithWidth(widgets, r.id, v) = widgets
    BY <2>2, <2>3, WidthKept
  <2>5. WithWidth(ws, r.id, v) = WithWidth(widgets, r.id, v)
    BY <2>1, <2>2, <2>4, WidthSet
  <2>. QED  BY <2>3, <2>4, <2>5 DEF Outdated
<1>. QED  BY <1>1, GridInductive, PTL

(* localStorage holds the dashboard as it was after the last completed      *)
(* change, whatever changes were made; a reload shows that, or the default  *)
(* when no widget was left (app.js:91-112, 907-1019).                       *)
THEOREM LayoutIsPersisted == Spec => []LayoutPersisted
<1>1. IGrid => LayoutPersisted
  <2>. SUFFICES ASSUME IGrid PROVE LayoutPersisted
    OBVIOUS
  <2>1. CASE resizing = {}
    BY <2>1 DEF IGrid, Stored, LayoutPersisted
  <2>2. CASE resizing # {}
    <3>1. PICK r : r = CHOOSE q \in resizing : TRUE
      OBVIOUS
    <3>2. r \in resizing
      BY <2>2, <3>1
    <3>3. Stored(WithWidth(widgets, r.id, r.w))
      BY <3>2 DEF IGrid
    <3>. QED  BY <2>2, <3>1, <3>3 DEF Stored, LayoutPersisted
  <2>. QED  BY <2>1, <2>2
<1>. QED  BY <1>1, GridInductive, PTL

-----------------------------------------------------------------------------
(* What the stores answer to queries.  The theorems hold for every order the *)
(* adapters may meet events in.                                              *)

\* Whatever is stored was saved: the invariant of MetricLists.
IStored == stored \in Seq(Emitted)

\* Enough for sorting by time.
Timed == stored \in Seq(Emitted) /\ \A i \in DOMAIN stored : stored[i].ts \in Int

\* What matches a filter are positions of stored, finitely many.
LEMMA MatchingFinite ==
    ASSUME stored \in Seq(Emitted), NEW f
    PROVE  /\ Matching(f) \subseteq DOMAIN stored /\ DOMAIN stored = 1 .. Len(stored)
           /\ Len(stored) \in Nat /\ DOMAIN stored \subseteq Nat
           /\ \A S \in SUBSET DOMAIN stored : IsFiniteSet(S) /\ Cardinality(S) \in Nat
           /\ Matching(f) \in SUBSET DOMAIN stored
<1>1. Matching(f) \subseteq DOMAIN stored  BY DEF Matching
<1>2. DOMAIN stored = 1 .. Len(stored) /\ Len(stored) \in Nat  BY LenProperties
<1>3. IsFiniteSet(DOMAIN stored)  BY <1>2, FS_Interval
<1>4. \A S \in SUBSET DOMAIN stored : IsFiniteSet(S) /\ Cardinality(S) \in Nat
  BY <1>3, FS_Subset, FS_CardinalityType
<1>5. QED  BY <1>1, <1>2, <1>4

\* memory.Store meets every match once, in the order they were saved.
LEMMA InsertionEnumerates ==
    ASSUME stored \in Seq(Emitted), NEW f
    PROVE  /\ Enumerates(InsertionOrder(f), Matching(f))
           /\ \A i, j \in DOMAIN InsertionOrder(f) : i < j => InsertionOrder(f)[i] < InsertionOrder(f)[j]
<1>1. PICK s : s = [i \in DOMAIN stored |-> i]  OBVIOUS
<1>2. DOMAIN stored = 1 .. Len(stored) /\ Len(stored) \in Nat  BY LenProperties
<1>3. s \in Seq(Nat) /\ Len(s) = Len(stored) /\ DOMAIN s = DOMAIN stored /\ \A i \in DOMAIN stored : s[i] = i
  BY <1>1, <1>2
<1>4. Distinct(s) /\ Range(s) = DOMAIN stored  BY <1>3 DEF Distinct, Range
<1>5. PICK g : g = InsertionOrder(f)  OBVIOUS
<1>6. g = Filter(s, Matching(f))  BY <1>1, <1>5 DEF InsertionOrder
<1>7. g \in Seq(Nat) /\ Range(g) = Matching(f) /\ Distinct(g)
  <2>1. /\ Filter(s, Matching(f)) \in Seq(Nat) /\ Distinct(Filter(s, Matching(f)))
        /\ Range(Filter(s, Matching(f))) = Range(s) \cap Matching(f)
    BY <1>3, <1>4, FilterProperties
  <2>2. Range(s) \cap Matching(f) = Matching(f)  BY <1>4 DEF Matching
  <2>3. QED  BY <1>6, <2>1, <2>2
<1>8. PICK e : Picks(e, g, s, Matching(f), Len(s))  BY <1>3, <1>6, FilterPicks
<1>9. DOMAIN g = 1 .. Len(g)  BY <1>7, LenProperties
<1>10. \A i \in DOMAIN g : g[i] = e[i]
  BY <1>2, <1>3, <1>8, <1>9 DEF Picks
<1>11. \A i, j \in DOMAIN g : i < j => g[i] < g[j]  BY <1>8, <1>9, <1>10 DEF Picks
<1>12. g \in Seq(Matching(f))
  <2>1. \A i \in 1 .. Len(g) : g[i] \in Matching(f)  BY <1>7, <1>9 DEF Range
  <2>2. QED  BY <1>7, <1>9, <2>1, SeqDef
<1>13. QED  BY <1>5, <1>7, <1>11, <1>12 DEF Enumerates

\* A sequence whose neighbours are in order is in order.
LEMMA NeighboursOrdered ==
    ASSUME NEW n \in Nat, NEW t, \A i \in 1 .. n : t[i] \in Int,
           \A i \in 1 .. n - 1 : t[i] <= t[i + 1]
    PROVE  \A i, j \in 1 .. n : i <= j => t[i] <= t[j]
<1>. DEFINE Good == {m \in 0 .. n : \A i \in 1 .. m : t[i] <= t[m]}
<1>1. 0 \in Good  OBVIOUS
<1>2. ASSUME NEW m \in 1 .. n, m - 1 \in Good  PROVE m \in Good
  <2>1. ASSUME NEW i \in 1 .. m  PROVE t[i] <= t[m]
    <3>1. CASE i = m  BY <3>1
    <3>2. CASE i # m
      <4>1. i \in 1 .. m - 1 /\ m - 1 \in 1 .. n - 1 /\ (m - 1) + 1 = m  BY <3>2
      <4>2. t[i] <= t[m - 1] /\ t[m - 1] <= t[m]  BY <1>2, <4>1
      <4>3. t[i] \in Int /\ t[m - 1] \in Int /\ t[m] \in Int  BY <4>1
      <4>4. QED  BY <4>2, <4>3
    <3>3. QED  BY <3>1, <3>2
  <2>2. QED  BY <2>1
<1>3. \A m \in 0 .. n : m \in Good
  <2>. HIDE DEF Good
  <2>1. QED  BY <1>1, <1>2, Upwards
<1>4. QED  BY <1>3

\* What sort.Slice by timestamp may leave: an enumeration in order of time.
Ordered(s) == \A i, j \in DOMAIN s : i <= j => stored[s[i]].ts <= stored[s[j]].ts

\* What sort.Slice may leave of a set: its enumerations in order of time.
LEMMA TimeOrdersAre ==
    ASSUME Timed, NEW S \in SUBSET DOMAIN stored, NEW s
    PROVE  s \in TimeOrders(S) <=> Enumerates(s, S) /\ Ordered(s)
<1>1. IsFiniteSet(S)  BY MatchingFinite DEF Timed
<1>2. s \in TimeOrders(S) <=>
         Enumerates(s, S) /\ \A i \in 1 .. Len(s) - 1 : stored[s[i]].ts <= stored[s[i + 1]].ts
  BY <1>1, SetToSeqsEnumerates DEF TimeOrders
<1>3. ASSUME Enumerates(s, S)
      PROVE  (\A i \in 1 .. Len(s) - 1 : stored[s[i]].ts <= stored[s[i + 1]].ts) <=> Ordered(s)
  <2>1. DOMAIN s = 1 .. Len(s) /\ Len(s) \in Nat  BY <1>3, LenProperties DEF Enumerates
  <2>2. PICK t : t = [i \in 1 .. Len(s) |-> stored[s[i]].ts]  OBVIOUS
  <2>3. \A i \in 1 .. Len(s) : t[i] = stored[s[i]].ts /\ t[i] \in Int
    <3>1. \A i \in 1 .. Len(s) : s[i] \in S  BY <1>3, <2>1 DEF Enumerates, Range
    <3>2. QED  BY <2>2, <3>1 DEF Timed
  <2>4. \A i \in 1 .. Len(s) - 1 : i \in 1 .. Len(s) /\ i + 1 \in 1 .. Len(s) /\ i <= i + 1
    BY <2>1
  <2>5. ASSUME \A i \in 1 .. Len(s) - 1 : stored[s[i]].ts <= stored[s[i + 1]].ts
        PROVE  Ordered(s)
    <3>1. \A i \in 1 .. Len(s) - 1 : t[i] <= t[i + 1]  BY <2>3, <2>4, <2>5
    <3>2. \A i, j \in 1 .. Len(s) : i <= j => t[i] <= t[j]  BY <2>1, <2>3, <3>1, NeighboursOrdered
    <3>3. QED  BY <2>1, <2>3, <3>2 DEF Ordered
  <2>6. ASSUME Ordered(s)
        PROVE  \A i \in 1 .. Len(s) - 1 : stored[s[i]].ts <= stored[s[i + 1]].ts
    BY <2>1, <2>4, <2>6 DEF Ordered
  <2>7. QED  BY <2>5, <2>6
<1>4. QED  BY <1>2, <1>3

\* The first elements of an enumeration.
LEMMA FirstOf ==
    ASSUME NEW S, NEW s, Enumerates(s, S), NEW limit \in Nat \ {0}
    PROVE  LET n == Min({limit, Len(s)})
           IN  /\ n \in Nat /\ n <= Len(s) /\ n <= limit /\ Len(s) = Cardinality(S)
               /\ First(s, limit) \in Seq(S) /\ Len(First(s, limit)) = n
               /\ \A i \in 1 .. n : First(s, limit)[i] = s[i]
               /\ Range(First(s, limit)) \subseteq S /\ Cardinality(Range(First(s, limit))) = n
               /\ n < limit => n = Len(s) /\ Range(First(s, limit)) = S
<1>1. PICK n : n = Min({limit, Len(s)})  OBVIOUS
<1>2. s \in Seq(S) /\ Distinct(s) /\ Range(s) = S /\ Len(s) \in Nat /\ DOMAIN s = 1 .. Len(s)
  BY LenProperties DEF Enumerates
<1>3. PICK l \in Nat : l = Len(s)  BY <1>2
<1>4. n \in Nat /\ n <= l /\ n <= limit /\ (n < limit => n = l)
  <2>1. {limit, l} \in SUBSET Int  OBVIOUS
  <2>2. CASE limit <= l
    <3>1. limit \in {limit, l} /\ \A x \in {limit, l} : limit =< x  BY <2>2
    <3>2. n = limit  BY <1>1, <1>3, <2>1, <3>1, MinIs
    <3>3. QED  BY <2>2, <3>2
  <2>3. CASE ~(limit <= l)
    <3>1. l \in {limit, l} /\ \A x \in {limit, l} : l =< x  BY <2>3
    <3>2. n = l  BY <1>1, <1>3, <2>1, <3>1, MinIs
    <3>3. QED  BY <2>3, <3>2
  <2>4. QED  BY <2>2, <2>3
<1>5. PICK g : g = First(s, limit)  OBVIOUS
<1>6. g = SubSeq(s, 1, n)  BY <1>1, <1>5 DEF First
<1>7. \A i \in 1 .. n : s[i] \in S
  <2>1. \A i \in 1 .. n : i \in 1 .. Len(s)  BY <1>3, <1>4
  <2>2. QED  BY <1>2, <2>1, ElementOfSeq
<1>8. g \in Seq(S) /\ Len(g) = n /\ \A i \in 1 .. n : g[i] = s[i]
  BY <1>3, <1>4, <1>6, <1>7, SubSeqProperties
<1>9. Range(g) \subseteq S /\ Cardinality(Range(g)) = n  BY <1>2, <1>3, <1>4, <1>6, PrefixCount
<1>10. Len(s) = Cardinality(S)  BY <1>2, DistinctLength
<1>11. n < limit => Range(g) = S
  <2>1. IsFiniteSet(S)  BY <1>2, DistinctLength
  <2>2. QED  BY <1>3, <1>4, <1>9, <1>10, <2>1, FS_Subset
<1>12. QED  BY <1>1, <1>3, <1>4, <1>5, <1>8, <1>9, <1>10, <1>11

\* Events can be put in order of time.
LEMMA TimeOrderExists ==
    ASSUME Timed, NEW S \in SUBSET DOMAIN stored
    PROVE  TimeOrders(S) # {}
<1>0. /\ \A U \in SUBSET DOMAIN stored : IsFiniteSet(U) /\ Cardinality(U) \in Nat
      /\ DOMAIN stored \subseteq Nat
  BY MatchingFinite DEF Timed
<1>1. PICK c \in Nat : c = Cardinality(S)  BY <1>0
<1>. DEFINE Sorted(U) == \E s : Enumerates(s, U) /\ Ordered(s)
            Good == {m \in 0 .. c : \A U \in SUBSET S : Cardinality(U) = m => Sorted(U)}
<1>2. 0 \in Good
  <2>1. ASSUME NEW U \in SUBSET S, Cardinality(U) = 0  PROVE Sorted(U)
    <3>1. U = {}  BY <1>0, <2>1, FS_EmptySet
    <3>2. Enumerates(<<>>, {}) /\ Ordered(<<>>)  BY DEF Enumerates, Distinct, Range, Ordered
    <3>3. QED  BY <3>1, <3>2
  <2>. HIDE DEF Sorted
  <2>2. 0 \in 0 .. c  OBVIOUS
  <2>3. QED  BY <2>1, <2>2
<1>3. ASSUME NEW m \in 1 .. c, m - 1 \in Good  PROVE m \in Good
  <2>1. ASSUME NEW U \in SUBSET S, Cardinality(U) = m  PROVE Sorted(U)
    <3>1. U # {}  BY <2>1, FS_EmptySet
    <3>2. PICK x \in U : \A i \in U : stored[i].ts <= stored[x].ts
      <4>1. PICK t : t = [i \in U |-> stored[i].ts]  OBVIOUS
      <4>2. t = [i \in U |-> t[i]] /\ \A i \in U : t[i] = stored[i].ts /\ t[i] \in Int
        BY <4>1 DEF Timed
      <4>3. PICK T : T = {t[i] : i \in U}  OBVIOUS
      <4>4. IsFiniteSet(T)  BY <1>0, <4>2, <4>3, FiniteImage
      <4>5. T \in SUBSET Int /\ T # {}  BY <3>1, <4>2, <4>3
      <4>6. Max(T) \in T /\ \A y \in T : Max(T) >= y  BY <4>4, <4>5, MaxExists
      <4>7. PICK x \in U : t[x] = Max(T)  BY <4>3, <4>6
      <4>8. \A i \in U : t[x] >= t[i]  BY <4>3, <4>6, <4>7
      <4>9. \A i \in U : t[i] <= t[x]  BY <4>2, <4>8
      <4>10. QED  BY <4>2, <4>9
    <3>3. U \ {x} \in SUBSET S /\ Cardinality(U \ {x}) = m - 1  BY <1>0, <2>1, FS_RemoveElement
    <3>4. PICK t : Enumerates(t, U \ {x}) /\ Ordered(t)  BY <1>3, <3>3
    <3>5. t \in Seq(U) /\ Distinct(t) /\ Range(t) = U \ {x}  BY <3>4, SeqMonotonic DEF Enumerates
    <3>6. DOMAIN t = 1 .. Len(t) /\ Len(t) \in Nat  BY <3>5, LenProperties
    <3>7. PICK s : s = Append(t, x)  OBVIOUS
    <3>8. PICK l \in Nat : l = Len(t) + 1  BY <3>6
    <3>9. /\ s \in Seq(U) /\ Len(s) = l /\ s[l] = x
          /\ \A i \in 1 .. l - 1 : s[i] = t[i]
      BY <3>5, <3>6, <3>7, <3>8, AppendProperties
    <3>10. DOMAIN s = 1 .. l  BY <3>9, LenProperties
    <3>11. DOMAIN t = 1 .. l - 1 /\ \A i \in 1 .. l : i = l \/ i \in 1 .. l - 1  BY <3>6, <3>8
    <3>12. \A i \in 1 .. l - 1 : s[i] \in U \ {x}  BY <3>5, <3>9, <3>11 DEF Range
    <3>13. Distinct(s)
      <4>1. ASSUME NEW i \in 1 .. l, NEW j \in 1 .. l, i # j  PROVE s[i] # s[j]
        <5>1. CASE i = l \/ j = l  BY <3>9, <3>11, <3>12, <4>1, <5>1
        <5>2. CASE i # l /\ j # l
          <6>1. i \in 1 .. l - 1 /\ j \in 1 .. l - 1  BY <3>11, <5>2
          <6>2. t[i] # t[j]  BY <3>5, <3>11, <4>1, <6>1 DEF Distinct
          <6>3. QED  BY <3>9, <6>1, <6>2
        <5>3. QED  BY <5>1, <5>2
      <4>2. QED  BY <3>10, <4>1 DEF Distinct
    <3>14. Range(s) = U
      <4>1. ASSUME NEW y \in U  PROVE \E i \in 1 .. l : s[i] = y
        <5>1. l \in 1 .. l  BY <3>6, <3>8
        <5>2. CASE y = x  BY <3>9, <5>1, <5>2
        <5>3. CASE y # x
          <6>1. PICK i \in 1 .. l - 1 : t[i] = y  BY <3>5, <3>11, <5>3 DEF Range
          <6>2. i \in 1 .. l  OBVIOUS
          <6>3. QED  BY <3>9, <6>1, <6>2
        <5>4. QED  BY <5>2, <5>3
      <4>2. \A i \in 1 .. l : s[i] \in U  BY <3>9, <3>11, <3>12
      <4>3. QED  BY <3>10, <4>1, <4>2 DEF Range
    <3>15. Ordered(s)
      <4>1. ASSUME NEW i \in 1 .. l, NEW j \in 1 .. l, i <= j
            PROVE  stored[s[i]].ts <= stored[s[j]].ts
        <5>1. CASE j = l
          <6>1. s[i] \in U /\ s[j] = x  BY <3>9, <3>11, <3>12, <5>1
          <6>2. QED  BY <3>2, <6>1
        <5>2. CASE j # l
          <6>1. i \in 1 .. l - 1 /\ j \in 1 .. l - 1  BY <4>1, <5>2
          <6>2. stored[t[i]].ts <= stored[t[j]].ts  BY <3>4, <3>11, <4>1, <6>1 DEF Ordered
          <6>3. QED  BY <3>9, <6>1, <6>2
        <5>3. QED  BY <5>1, <5>2
      <4>2. QED  BY <3>10, <4>1 DEF Ordered
    <3>16. Enumerates(s, U)  BY <3>9, <3>13, <3>14 DEF Enumerates
    <3>17. QED  BY <3>15, <3>16
  <2>2. m \in 0 .. c  OBVIOUS
  <2>. HIDE DEF Sorted
  <2>3. QED  BY <2>1, <2>2
<1>4. c \in Good
  <2>. HIDE DEF Good
  <2>1. \A m \in 0 .. c : m \in Good  BY <1>2, <1>3, Upwards
  <2>2. QED  BY <2>1
<1>5. PICK s : Enumerates(s, S) /\ Ordered(s)  BY <1>1, <1>4
<1>6. s \in TimeOrders(S)  BY <1>5, TimeOrdersAre
<1>7. QED  BY <1>6

\* Of two enumerations of which one is in order of time, the first elements of
\* the ordered one are, position by position, not the later ones.
LEMMA OldestFirst ==
    ASSUME Timed, NEW S \in SUBSET DOMAIN stored, NEW R \in SUBSET S,
           NEW d, Enumerates(d, S), Ordered(d), NEW m, Enumerates(m, R), Ordered(m),
           NEW i \in DOMAIN m
    PROVE  i \in DOMAIN d /\ stored[d[i]].ts <= stored[m[i]].ts
<1>1. /\ DOMAIN d = 1 .. Len(d) /\ Len(d) \in Nat /\ DOMAIN m = 1 .. Len(m) /\ Len(m) \in Nat
      /\ Range(d) = S /\ Range(m) = R /\ Distinct(m) /\ Distinct(d)
  BY LenProperties DEF Enumerates
<1>2. i \in 1 .. Len(m) /\ i \in Nat  BY <1>1
<1>3. Len(m) <= Len(d)
  <2>1. IsFiniteSet(S) /\ Len(d) = Cardinality(S) /\ Len(m) = Cardinality(R)
    BY DistinctLength DEF Enumerates
  <2>2. QED  BY <2>1, FS_Subset
<1>4. i \in DOMAIN d  BY <1>1, <1>2, <1>3
<1>5. \A j \in DOMAIN m : m[j] \in S /\ stored[m[j]].ts \in Int  BY <1>1 DEF Range, Timed
<1>6. \A j \in DOMAIN d : d[j] \in S /\ stored[d[j]].ts \in Int  BY <1>1 DEF Range, Timed
<1>7. ASSUME ~(stored[d[i]].ts <= stored[m[i]].ts)  PROVE FALSE
  <2>1. stored[m[i]].ts < stored[d[i]].ts  BY <1>4, <1>5, <1>6, <1>7
  <2>2. ASSUME NEW j \in 1 .. i
        PROVE  \E k \in 1 .. i - 1 : d[k] = m[j]
    <3>1. j \in DOMAIN m  BY <1>1, <1>2
    <3>2. stored[m[j]].ts <= stored[m[i]].ts  BY <3>1 DEF Ordered
    <3>3. PICK k \in DOMAIN d : d[k] = m[j]  BY <1>1, <1>5, <3>1 DEF Range
    <3>4. ~(i <= k)
      <4>1. SUFFICES ASSUME i <= k  PROVE FALSE  OBVIOUS
      <4>2. stored[d[i]].ts <= stored[d[k]].ts  BY <1>4, <4>1 DEF Ordered
      <4>3. QED  BY <1>4, <1>5, <1>6, <2>1, <3>1, <3>2, <3>3, <4>2
    <3>5. k \in 1 .. i - 1  BY <1>1, <1>2, <3>4
    <3>6. QED  BY <3>3, <3>5
  <2>3. PICK g : g = [j \in 1 .. i |-> CHOOSE k \in 1 .. i - 1 : d[k] = m[j]]  OBVIOUS
  <2>4. \A j \in 1 .. i : g[j] \in 1 .. i - 1 /\ d[g[j]] = m[j]  BY <2>2, <2>3
  <2>5. g \in [1 .. i -> 1 .. i - 1]  BY <2>3, <2>4
  <2>6. /\ IsFiniteSet(1 .. i) /\ IsFiniteSet(1 .. i - 1)
        /\ Cardinality(1 .. i - 1) < Cardinality(1 .. i)
    <3>1. PICK h \in Int : h = i - 1  BY <1>2
    <3>2. i \in Int /\ 1 \in Int /\ 1 <= i  BY <1>1, <1>2
    <3>3. IsFiniteSet(1 .. i) /\ Cardinality(1 .. i) = IF 1 > i THEN 0 ELSE i - 1 + 1
      BY <3>2, FS_Interval
    <3>4. IsFiniteSet(1 .. h) /\ Cardinality(1 .. h) = IF 1 > h THEN 0 ELSE h - 1 + 1
      BY FS_Interval
    <3>5. Cardinality(1 .. i) = i  BY <3>2, <3>3
    <3>6. Cardinality(1 .. h) < i  BY <3>1, <3>2, <3>4
    <3>7. QED  BY <3>1, <3>3, <3>4, <3>5, <3>6
  <2>7. PICK x, y \in 1 .. i : x # y /\ g[x] = g[y]  BY <2>5, <2>6, FS_PigeonHole
  <2>8. m[x] = m[y] /\ x \in DOMAIN m /\ y \in DOMAIN m  BY <1>1, <1>2, <2>4, <2>7
  <2>9. QED  BY <1>1, <2>7, <2>8 DEF Distinct
<1>8. QED  BY <1>4, <1>7

-----------------------------------------------------------------------------
(* Lists and dimensions.                                                    *)

\* The assumptions of MetricQueries, without those about the empty string.
LEMMA QueriesNumbers ==
    /\ Times \subseteq Nat \ {0} /\ Values \subseteq Int
    /\ Limits \subseteq Nat \ {0} /\ Buckets \subseteq Nat \ {0}
    /\ TicksPerSecond \in Nat \ {0} /\ Month \in Nat
    /\ \A e \in Emitted : e.name \in Names /\ e.source \in Sources
                         /\ e.ts \in Times /\ e.value \in Values
BY QueriesAssumption, Zenon

\* The ends of a filter are times.
LEMMA FilterTimes ==
    ASSUME NEW f \in Filters
    PROVE  f.from \in Times /\ f.to \in Times
BY Zenon DEF Filters

\* What is stored has the fields that are saved.
LEMMA QueriesTimed ==
    ASSUME IStored
    PROVE  /\ Timed
           /\ \A i \in DOMAIN stored :
                 /\ stored[i].ts \in Nat \ {0} /\ stored[i].value \in Int
                 /\ stored[i].source \in Sources /\ stored[i].name \in Names
<1>1. \A i \in DOMAIN stored : stored[i] \in Emitted  BY ElementOfSeq, LenProperties DEF IStored
<1>2. \A e \in Emitted : e.ts \in Nat \ {0} /\ e.value \in Int /\ e.source \in Sources /\ e.name \in Names
  BY QueriesNumbers
<1>3. QED  BY <1>1, <1>2 DEF Timed, IStored

\* ListEvents: the lists of both adapters, whatever the order of equal times.
LEMMA ListsHold ==
    ASSUME IStored
    PROVE  ListsAgree
<1>. DEFINE Served(f, limit) == Min({limit, Cardinality(Matching(f))})
            Agree(f, n, limit, d, m) ==
                /\ Len(d) = n /\ Len(m) = n
                /\ Range(m) \subseteq Matching(f)
                /\ \A i, j \in 1 .. n : i < j => stored[m[i]].ts <= stored[m[j]].ts
                /\ \A i \in 1 .. n : stored[d[i]].ts <= stored[m[i]].ts
                /\ n < limit => Range(d) = Range(m)
<1>1. ASSUME NEW f \in Filters, NEW limit \in Limits,
             NEW d \in DynamoLists(f, limit), NEW m \in MemoryLists(f, limit)
      PROVE  Agree(f, Served(f, limit), limit, d, m)
  <2>0. Timed /\ limit \in Nat \ {0}  BY QueriesTimed, QueriesNumbers
  <2>1. PICK S \in SUBSET DOMAIN stored : S = Matching(f)  BY MatchingFinite DEF IStored
  <2>2. PICK n : n = Min({limit, Cardinality(S)})  OBVIOUS
  <2>3. PICK s : s \in TimeOrders(S) /\ d = First(s, limit)  BY <2>1 DEF DynamoLists, ScanOrders
  <2>4. Enumerates(s, S) /\ Ordered(s)  BY <2>0, <2>3, TimeOrdersAre
  <2>41. n = Min({limit, Len(s)})  BY <2>2, <2>4, DistinctLength DEF Enumerates
  <2>5. /\ n \in Nat /\ Len(d) = n /\ \A i \in 1 .. n : d[i] = s[i]
        /\ n < limit => Range(d) = S
    <3>1. /\ n \in Nat /\ Len(First(s, limit)) = n
          /\ \A i \in 1 .. n : First(s, limit)[i] = s[i]
          /\ n < limit => Range(First(s, limit)) = S
      BY <2>0, <2>4, <2>41, FirstOf
    <3>2. QED  BY <2>3, <3>1
  <2>6. PICK o : o = InsertionOrder(f) /\ Enumerates(o, S)  BY <2>1, InsertionEnumerates DEF IStored
  <2>7. PICK R : R = Range(First(o, limit))  OBVIOUS
  <2>71. n = Min({limit, Len(o)})  BY <2>2, <2>6, DistinctLength DEF Enumerates
  <2>8. R \in SUBSET S /\ Cardinality(R) = n /\ (n < limit => R = S)
    BY <2>0, <2>6, <2>7, <2>71, FirstOf
  <2>9. m \in TimeOrders(R)  BY <2>6, <2>7 DEF MemoryLists
  <2>10. Enumerates(m, R) /\ Ordered(m)  BY <2>0, <2>8, <2>9, TimeOrdersAre
  <2>11. Len(m) = n /\ Range(m) = R  BY <2>8, <2>10, DistinctLength DEF Enumerates
  <2>12. DOMAIN m = 1 .. n  BY <2>10, <2>11, LenProperties DEF Enumerates
  <2>13. \A i \in 1 .. n : stored[d[i]].ts <= stored[m[i]].ts
    BY <2>0, <2>4, <2>5, <2>8, <2>10, <2>12, OldestFirst
  <2>14. \A i, j \in 1 .. n : i < j => stored[m[i]].ts <= stored[m[j]].ts
    BY <2>5, <2>10, <2>12 DEF Ordered
  <2>15. QED  BY <2>1, <2>2, <2>5, <2>8, <2>11, <2>13, <2>14
<1>2. QED  BY <1>1 DEF ListsAgree

\* ListDimensions, of everything in memory and of one month in DynamoDB.
LEMMA DimensionsHold ==
    ASSUME IStored
    PROVE  DimensionsAgree
<1>1. \A v, S : v \in SourcesOf(S) <=> v # "" /\ \E i \in S : stored[i].source = v
  BY Zenon DEF SourcesOf
<1>2. ASSUME NEW now
      PROVE  \A i : i \in Matching(Period(now - Month, now)) <=>
                 i \in DOMAIN stored /\ stored[i].ts >= now - Month /\ stored[i].ts <= now
  <2>1. Period(now - Month, now).from = now - Month /\ Period(now - Month, now).to = now
    BY DEF Period
  <2>2. \A got : Match(Period(now - Month, now).name, got) /\ Match(Period(now - Month, now).source, got)
    BY Zenon DEF Period, Match
  <2>3. QED  BY <2>1, <2>2 DEF Matching, Selected
<1>. HIDE DEF Matching
<1>3. ASSUME NEW now \in Times  PROVE DynamoDimensions(now) \subseteq MemoryDimensions
  <2>1. Matching(Period(now - Month, now)) \subseteq DOMAIN stored  BY <1>2
  <2>2. QED  BY <1>1, <2>1 DEF DynamoDimensions, MemoryDimensions
<1>4. ASSUME NEW now \in Times, NEW v \in MemoryDimensions \ DynamoDimensions(now),
             NEW i \in DOMAIN stored, stored[i].source = v
      PROVE  stored[i].ts < now - Month \/ stored[i].ts > now
  <2>1. i \notin Matching(Period(now - Month, now))  BY <1>1, <1>4 DEF DynamoDimensions, MemoryDimensions
  <2>2. ~(stored[i].ts >= now - Month /\ stored[i].ts <= now)  BY <1>2, <2>1
  <2>3. stored[i].ts \in Int /\ now \in Int /\ Month \in Int  BY QueriesTimed, QueriesNumbers
  <2>4. QED  BY <2>2, <2>3
<1>5. ASSUME NEW now \in Times, NEW v \in DynamoDimensions(now)
      PROVE  Matching([Period(now - Month, now) EXCEPT !.source = v]) # {}
  <2>1. PICK i \in Matching(Period(now - Month, now)) : stored[i].source = v
    BY <1>1 DEF DynamoDimensions
  <2>2. PICK f : f = [Period(now - Month, now) EXCEPT !.source = v]  OBVIOUS
  <2>3. f.from = now - Month /\ f.to = now /\ f.source = v /\ f.name = Period(now - Month, now).name
    BY <2>2 DEF Period
  <2>4. Match(f.name, stored[i].name)  BY <2>3, Zenon DEF Period, Match
  <2>5. Match(f.source, stored[i].source)  BY <2>1, <2>3, Zenon DEF Match
  <2>6. i \in Matching(f)  BY <1>2, <2>1, <2>3, <2>4, <2>5 DEF Matching, Selected
  <2>7. QED  BY <2>2, <2>6
<1>6. ASSUME NEW now \in Times, NEW f \in Filters,
             f.from >= now - Month, f.to <= now, f.source # "", Matching(f) # {}
      PROVE  f.source \in DynamoDimensions(now)
  <2>1. PICK i \in DOMAIN stored : Selected(i, f)  BY <1>6 DEF Matching
  <2>2. stored[i].source = f.source  BY <1>6, <2>1, Zenon DEF Selected, Match
  <2>3. stored[i].ts >= f.from /\ stored[i].ts <= f.to  BY <2>1 DEF Selected
  <2>4. /\ stored[i].ts \in Int /\ f.from \in Int /\ f.to \in Int
        /\ now \in Int /\ Month \in Int
    <3>1. stored[i].ts \in Int  BY QueriesTimed
    <3>2. Times \subseteq Int /\ Month \in Int  BY QueriesNumbers
    <3>3. f.from \in Times /\ f.to \in Times  BY FilterTimes
    <3>4. QED  BY <3>1, <3>2, <3>3
  <2>41. f.from >= now - Month /\ f.to <= now  BY <1>6, Zenon
  <2>5. stored[i].ts >= now - Month /\ stored[i].ts <= now  BY <2>3, <2>4, <2>41
  <2>6. i \in Matching(Period(now - Month, now))  BY <1>2, <2>1, <2>5
  <2>7. QED  BY <1>1, <1>6, <2>2, <2>6 DEF DynamoDimensions
<1>7. QED  BY <1>3, <1>4, <1>5, <1>6, Zenon DEF DimensionsAgree

-----------------------------------------------------------------------------
(* Summaries.  Keys stay opaque: nothing depends on what a group is.         *)

Entries == [count : Nat, sum : Int, latest : Int, updated : Nat]

Tables(groupBy) == UNION {[K -> Entries] : K \in SUBSET {Key(i, groupBy) : i \in DOMAIN stored}}

Group(V, k, groupBy) == {i \in V : Key(i, groupBy) = k}

AddTo(acc, x, groupBy, adapter) ==
    Put(acc, Key(x, groupBy), Updated(Entry(acc, Key(x, groupBy), Blank), stored[x], adapter))

\* One event added to a summary (memory/store.go and dynamodbstore/store.go).
LEMMA UpdatedTyped ==
    ASSUME IStored, NEW x \in DOMAIN stored, NEW old \in Entries, NEW adapter
    PROVE  /\ Updated(old, stored[x], adapter) \in Entries
           /\ Updated(old, stored[x], adapter).count = old.count + 1
           /\ Updated(old, stored[x], adapter).sum = old.sum + stored[x].value
           /\ Updated(old, stored[x], adapter).latest = Latest(adapter, old, stored[x])
           /\ Updated(old, stored[x], adapter).updated
                 = IF stored[x].ts >= old.updated THEN stored[x].ts ELSE old.updated
<1>1. stored[x].ts \in Nat /\ stored[x].value \in Int  BY QueriesTimed
<1>2. old.count \in Nat /\ old.sum \in Int /\ old.latest \in Int /\ old.updated \in Nat
  BY DEF Entries
<1>3. PICK u, t \in Nat : u = old.updated /\ t = stored[x].ts  BY <1>1, <1>2
<1>4. Max({u, t}) = IF t >= u THEN t ELSE u
  <2>1. {u, t} \in SUBSET Int  OBVIOUS
  <2>2. CASE t >= u
    <3>1. t \in {u, t} /\ \A y \in {u, t} : t >= y  BY <2>2
    <3>2. Max({u, t}) = t  BY <2>1, <3>1, MaxIs
    <3>3. QED  BY <2>2, <3>2
  <2>3. CASE ~(t >= u)
    <3>1. u \in {u, t} /\ \A y \in {u, t} : u >= y  BY <2>3
    <3>2. Max({u, t}) = u  BY <2>1, <3>1, MaxIs
    <3>3. QED  BY <2>3, <3>2
  <2>4. QED  BY <2>2, <2>3
<1>5. Latest(adapter, old, stored[x]) \in Int
  BY <1>1, <1>2 DEF Latest, MemoryLatest, DynamoLatest
<1>6. Max({old.updated, stored[x].ts}) = IF t >= u THEN t ELSE u  BY <1>3, <1>4
<1>7. Max({old.updated, stored[x].ts}) \in Nat  BY <1>6
<1>. HIDE DEF Latest
<1>8. QED  BY <1>1, <1>2, <1>3, <1>5, <1>6, <1>7 DEF Updated, Entries

\* One event added to the table of summaries leaves a table.
LEMMA AddToTyped ==
    ASSUME IStored, NEW groupBy, NEW adapter, NEW x \in DOMAIN stored, NEW acc \in Tables(groupBy)
    PROVE  /\ AddTo(acc, x, groupBy, adapter) \in Tables(groupBy)
           /\ Entry(acc, Key(x, groupBy), Blank) \in Entries
<1>1. PICK K \in SUBSET {Key(i, groupBy) : i \in DOMAIN stored} : acc \in [K -> Entries]
  BY DEF Tables
<1>2. PICK k : k = Key(x, groupBy)  OBVIOUS
<1>3. Blank \in Entries  BY DEF Blank, Entries
<1>4. PICK old : old = Entry(acc, k, Blank)  OBVIOUS
<1>5. old \in Entries  BY <1>1, <1>3, <1>4 DEF Entry
<1>6. PICK new : new = Updated(old, stored[x], adapter)  OBVIOUS
<1>7. new \in Entries  BY <1>5, <1>6, UpdatedTyped
<1>8. Put(acc, k, new) \in [K \cup {k} -> Entries]  BY <1>1, <1>7 DEF Put
<1>9. K \cup {k} \in SUBSET {Key(i, groupBy) : i \in DOMAIN stored}  BY <1>2
<1>10. QED  BY <1>2, <1>4, <1>5, <1>6, <1>8, <1>9 DEF AddTo, Tables

\* The walk of ListSummaries, step by step.
LEMMA SummariesWalk ==
    ASSUME IStored, NEW S \in SUBSET DOMAIN stored, NEW s, Enumerates(s, S), NEW groupBy, NEW adapter
    PROVE  \E g : /\ g \in [0 .. Len(s) -> Tables(groupBy)]
                  /\ g[0] = <<>>
                  /\ \A m \in 1 .. Len(s) : g[m] = AddTo(g[m - 1], s[m], groupBy, adapter)
                  /\ g[Len(s)] = Summaries(s, groupBy, adapter)
<1>0. PICK n \in Nat : n = Len(s)  BY LenProperties DEF Enumerates
<1>1. s \in Seq(S) /\ \A m \in 1 .. n : s[m] \in DOMAIN stored
  BY <1>0, LenProperties, ElementOfSeq DEF Enumerates
<1>2. PICK A : A = Tables(groupBy)  OBVIOUS
<1>. DEFINE Is(g) == g = [m \in 0 .. n |-> IF m = 0 THEN <<>>
                                           ELSE AddTo(g[m - 1], s[m], groupBy, adapter)]
<1>3. PICK step : step = [p \in (1 .. n) \X A |-> AddTo(p[2], s[p[1]], groupBy, adapter)]  OBVIOUS
<1>4. \A m \in 1 .. n, acc \in A :
         step[<<m, acc>>] = AddTo(acc, s[m], groupBy, adapter) /\ AddTo(acc, s[m], groupBy, adapter) \in A
  BY <1>1, <1>2, <1>3, AddToTyped
<1>5. IsStep(step, n, A)  BY <1>3, <1>4 DEF IsStep
<1>6. <<>> \in A
  <2>1. {} \in SUBSET {Key(i, groupBy) : i \in DOMAIN stored}  OBVIOUS
  <2>2. <<>> \in [{} -> Entries]  OBVIOUS
  <2>3. QED  BY <1>2, <2>1, <2>2 DEF Tables
<1>7. PICK h \in [0 .. n -> A] : h[0] = <<>> /\ \A m \in 1 .. n : h[m] = step[<<m, h[m - 1]>>]
  BY <1>5, <1>6, WalkDefined
<1>8. Is(h)
  <2>1. ASSUME NEW m \in 0 .. n, m # 0
        PROVE  h[m] = AddTo(h[m - 1], s[m], groupBy, adapter)
    <3>1. m \in 1 .. n /\ m - 1 \in 0 .. n  BY <2>1
    <3>2. h[m - 1] \in A  BY <1>7, <3>1
    <3>3. QED  BY <1>4, <1>7, <3>1, <3>2
  <2>2. h = [m \in 0 .. n |-> h[m]]  BY <1>7
  <2>3. QED  BY <1>7, <2>1, <2>2
<1>9. PICK g : g = CHOOSE k : Is(k)  OBVIOUS
<1>10. Is(g)  BY <1>8, <1>9
<1>11. Summaries(s, groupBy, adapter) = g[n]  BY <1>0, <1>9 DEF Summaries, AddTo
<1>12. g[0] = <<>> /\ \A m \in 1 .. n : g[m] = AddTo(g[m - 1], s[m], groupBy, adapter)
  BY <1>10
<1>13. g \in [0 .. n -> A]
  <2>1. 0 \in {m \in 0 .. n : g[m] \in A}  BY <1>6, <1>12
  <2>2. ASSUME NEW m \in 1 .. n, m - 1 \in {k \in 0 .. n : g[k] \in A}
        PROVE  m \in {k \in 0 .. n : g[k] \in A}
    <3>1. AddTo(g[m - 1], s[m], groupBy, adapter) \in A  BY <1>4, <2>2
    <3>2. m \in 0 .. n  OBVIOUS
    <3>3. QED  BY <1>12, <3>1, <3>2
  <2>3. PICK T : T = {k \in 0 .. n : g[k] \in A}  OBVIOUS
  <2>4. \A m \in 0 .. n : m \in T  BY <2>1, <2>2, <2>3, Upwards
  <2>5. \A m \in 0 .. n : g[m] \in A  BY <2>3, <2>4
  <2>6. QED  BY <1>10, <2>5
<1>14. QED  BY <1>0, <1>2, <1>11, <1>12, <1>13

\* What the summaries acc of the events at the positions V say.
Exact(acc, V, groupBy) ==
    /\ acc \in Tables(groupBy)
    /\ DOMAIN acc = {Key(i, groupBy) : i \in V}
    /\ \A k \in DOMAIN acc :
          /\ acc[k].count = Cardinality(Group(V, k, groupBy))
          /\ acc[k].sum = Total(Group(V, k, groupBy))
          /\ \E i \in Group(V, k, groupBy) : acc[k].updated = stored[i].ts
          /\ \A i \in Group(V, k, groupBy) : stored[i].ts <= acc[k].updated

\* In a summary of dynamodbstore latest belongs to the time of the last update,
\* in one of memory to the last position V has.
Newest(acc, V, groupBy) ==
    \A k \in DOMAIN acc : \E i \in Group(V, k, groupBy) :
        acc[k].updated = stored[i].ts /\ acc[k].latest = stored[i].value

\* The total of the values of events, one event at a time.
LEMMA TotalProperties ==
    ASSUME IStored
    PROVE  /\ Total({}) = 0
           /\ \A V \in SUBSET DOMAIN stored : Total(V) \in Int
           /\ \A V \in SUBSET DOMAIN stored : \A x \in DOMAIN stored \ V :
                 Total(V \cup {x}) = Total(V) + stored[x].value
<1>1. PICK f : f = [i \in DOMAIN stored |-> stored[i].value]  OBVIOUS
<1>2. IsFiniteSet(DOMAIN stored)  BY MatchingFinite DEF IStored
<1>3. \A i \in DOMAIN stored : f[i] = stored[i].value /\ f[i] \in Int  BY <1>1, QueriesTimed
<1>4. \A V : Total(V) = SumOver(f, V)  BY <1>1 DEF Total
<1>5. /\ SumOver(f, {}) = 0
      /\ \A V \in SUBSET DOMAIN stored : SumOver(f, V) \in Int
      /\ \A V \in SUBSET DOMAIN stored : \A x \in DOMAIN stored \ V :
            SumOver(f, V \cup {x}) = SumOver(f, V) + f[x]
  BY <1>2, <1>3, SumProperties
<1>6. QED  BY <1>3, <1>4, <1>5

\* One more event in a table.
Added(new, old, acc, x, groupBy, adapter) ==
    /\ new \in Tables(groupBy) /\ old \in Entries
    /\ DOMAIN new = DOMAIN acc \cup {Key(x, groupBy)}
    /\ \A k \in DOMAIN acc : k # Key(x, groupBy) => new[k] = acc[k]
    /\ new[Key(x, groupBy)] = Updated(old, stored[x], adapter)

\* Adding an event changes the summary of its group and no other.
LEMMA AddToEntry ==
    ASSUME IStored, NEW groupBy, NEW adapter, NEW x \in DOMAIN stored, NEW acc \in Tables(groupBy)
    PROVE  Added(AddTo(acc, x, groupBy, adapter), Entry(acc, Key(x, groupBy), Blank),
                 acc, x, groupBy, adapter)
<1>1. PICK new : new = AddTo(acc, x, groupBy, adapter)  OBVIOUS
<1>2. PICK key : key = Key(x, groupBy)  OBVIOUS
<1>3. PICK old : old = Entry(acc, key, Blank)  OBVIOUS
<1>4. PICK u : u = Updated(old, stored[x], adapter)  OBVIOUS
<1>5. new = [y \in DOMAIN acc \cup {key} |-> IF y = key THEN u ELSE acc[y]]
  BY <1>1, <1>2, <1>3, <1>4 DEF AddTo, Put
<1>6. new \in Tables(groupBy) /\ old \in Entries  BY <1>1, <1>2, <1>3, AddToTyped
<1>7. /\ DOMAIN new = DOMAIN acc \cup {key}
      /\ \A k \in DOMAIN acc : k # key => new[k] = acc[k]
      /\ new[key] = u
  BY <1>5
<1>8. QED  BY <1>1, <1>2, <1>3, <1>4, <1>6, <1>7 DEF Added

\* A table that is exact stays exact when the next match is added.
LEMMA ExactStep ==
    ASSUME IStored, NEW groupBy, NEW adapter, NEW V \in SUBSET DOMAIN stored,
           NEW x \in DOMAIN stored \ V, NEW acc, Exact(acc, V, groupBy)
    PROVE  Exact(AddTo(acc, x, groupBy, adapter), V \cup {x}, groupBy)
<1>. DEFINE G(k) == Group(V, k, groupBy)
            H(k) == Group(V \cup {x}, k, groupBy)
<1>1. acc \in Tables(groupBy)  BY DEF Exact
<1>2. PICK new : new = AddTo(acc, x, groupBy, adapter)  OBVIOUS
<1>3. PICK key : key = Key(x, groupBy)  OBVIOUS
<1>4. PICK old : old = Entry(acc, key, Blank)  OBVIOUS
<1>5. /\ new \in Tables(groupBy) /\ old \in Entries
      /\ DOMAIN new = DOMAIN acc \cup {key}
      /\ \A k \in DOMAIN acc : k # key => new[k] = acc[k]
      /\ new[key] = Updated(old, stored[x], adapter)
  <2>1. x \in DOMAIN stored  OBVIOUS
  <2>2. Added(AddTo(acc, x, groupBy, adapter), Entry(acc, Key(x, groupBy), Blank), acc, x, groupBy, adapter)
    BY <1>1, <2>1, AddToEntry
  <2>3. QED  BY <1>2, <1>3, <1>4, <2>2 DEF Added
<1>6. /\ new[key].count = old.count + 1
      /\ new[key].sum = old.sum + stored[x].value
      /\ new[key].updated = IF stored[x].ts >= old.updated THEN stored[x].ts ELSE old.updated
  BY <1>5, UpdatedTyped
<1>7. /\ \A k : k # key => H(k) = G(k)
      /\ H(key) = G(key) \cup {x} /\ x \notin G(key) /\ \A k : G(k) \in SUBSET DOMAIN stored
  BY <1>3 DEF Group
<1>8. \A k : k \in DOMAIN acc <=> G(k) # {}  BY DEF Exact, Group
<1>9. /\ old.count = Cardinality(G(key)) /\ old.sum = Total(G(key))
      /\ \A i \in G(key) : stored[i].ts <= old.updated
      /\ G(key) # {} => \E i \in G(key) : old.updated = stored[i].ts
      /\ G(key) = {} => old.updated = 0
  <2>1. CASE key \in DOMAIN acc
    <3>1. old = acc[key]  BY <1>4, <2>1 DEF Entry
    <3>2. QED  BY <1>8, <2>1, <3>1 DEF Exact
  <2>2. CASE key \notin DOMAIN acc
    <3>1. old = Blank /\ G(key) = {}  BY <1>4, <1>8, <2>2 DEF Entry
    <3>2. QED  BY <3>1, FS_EmptySet, TotalProperties DEF Blank
  <2>3. QED  BY <2>1, <2>2
<1>10. /\ IsFiniteSet(G(key)) /\ Cardinality(H(key)) = Cardinality(G(key)) + 1
       /\ Total(H(key)) = Total(G(key)) + stored[x].value
  <2>1. IsFiniteSet(G(key))  BY <1>7, MatchingFinite DEF IStored
  <2>2. QED  BY <1>7, <2>1, FS_AddElement, TotalProperties
<1>11. /\ new[key].count = Cardinality(H(key)) /\ new[key].sum = Total(H(key))
  BY <1>6, <1>9, <1>10
<1>12. /\ \E i \in H(key) : new[key].updated = stored[i].ts
       /\ \A i \in H(key) : stored[i].ts <= new[key].updated
  <2>1. PICK u, t \in Nat : u = old.updated /\ t = stored[x].ts  BY <1>5, QueriesTimed DEF Entries
  <2>2. PICK w \in Nat : w = new[key].updated /\ w = IF t >= u THEN t ELSE u  BY <1>6, <2>1
  <2>3. u <= w /\ t <= w  BY <2>2
  <2>4. \A i \in G(key) : stored[i].ts \in Nat  BY <1>7, QueriesTimed
  <2>5. \A i \in G(key) : stored[i].ts <= w  BY <1>9, <2>1, <2>3, <2>4
  <2>6. \E i \in H(key) : w = stored[i].ts
    <3>1. CASE w = t  BY <1>7, <2>1, <3>1
    <3>2. CASE w # t
      <4>1. w = u /\ u # 0  BY <2>2, <3>2
      <4>2. G(key) # {}  BY <1>9, <2>1, <4>1
      <4>3. QED  BY <1>7, <1>9, <2>1, <4>1, <4>2
    <3>3. QED  BY <3>1, <3>2
  <2>. HIDE DEF G, H
  <2>7. QED  BY <1>7, <2>1, <2>2, <2>3, <2>5, <2>6
<1>13. DOMAIN new = {Key(i, groupBy) : i \in V \cup {x}}
  <2>1. DOMAIN acc = {Key(i, groupBy) : i \in V}  BY DEF Exact
  <2>2. QED  BY <1>3, <1>5, <2>1
<1>14. ASSUME NEW k \in DOMAIN new
       PROVE  /\ new[k].count = Cardinality(H(k)) /\ new[k].sum = Total(H(k))
              /\ \E i \in H(k) : new[k].updated = stored[i].ts
              /\ \A i \in H(k) : stored[i].ts <= new[k].updated
  <2>1. CASE k = key  BY <1>11, <1>12, <2>1
  <2>2. CASE k # key
    <3>1. k \in DOMAIN acc /\ new[k] = acc[k] /\ H(k) = G(k)  BY <1>5, <1>7, <2>2
    <3>2. /\ acc[k].count = Cardinality(G(k)) /\ acc[k].sum = Total(G(k))
          /\ \E i \in G(k) : acc[k].updated = stored[i].ts
          /\ \A i \in G(k) : stored[i].ts <= acc[k].updated
      BY <3>1 DEF Exact
    <3>. HIDE DEF G, H
    <3>3. QED  BY <3>1, <3>2
  <2>3. QED  BY <2>1, <2>2
<1>15. Exact(new, V \cup {x}, groupBy)  BY <1>5, <1>13, <1>14 DEF Exact
<1>16. QED  BY <1>2, <1>15

\* DynamoDB keeps the value of the newest event met so far.
LEMMA NewestStep ==
    ASSUME IStored, NEW groupBy, NEW V \in SUBSET DOMAIN stored,
           NEW x \in DOMAIN stored \ V, NEW acc, Exact(acc, V, groupBy), Newest(acc, V, groupBy)
    PROVE  Newest(AddTo(acc, x, groupBy, "dynamodb"), V \cup {x}, groupBy)
<1>1. acc \in Tables(groupBy)  BY DEF Exact
<1>2. PICK new : new = AddTo(acc, x, groupBy, "dynamodb")  OBVIOUS
<1>3. PICK key : key = Key(x, groupBy)  OBVIOUS
<1>4. PICK old : old = Entry(acc, key, Blank)  OBVIOUS
<1>5. /\ old \in Entries
      /\ DOMAIN new = DOMAIN acc \cup {key}
      /\ \A k \in DOMAIN acc : k # key => new[k] = acc[k]
      /\ new[key] = Updated(old, stored[x], "dynamodb")
  <2>1. x \in DOMAIN stored  OBVIOUS
  <2>2. Added(AddTo(acc, x, groupBy, "dynamodb"), Entry(acc, Key(x, groupBy), Blank), acc, x, groupBy, "dynamodb")
    BY <1>1, <2>1, AddToEntry
  <2>3. QED  BY <1>2, <1>3, <1>4, <2>2 DEF Added
<1>6. /\ new[key].latest = Latest("dynamodb", old, stored[x])
      /\ new[key].updated = IF stored[x].ts >= old.updated THEN stored[x].ts ELSE old.updated
  BY <1>5, UpdatedTyped
<1>7. new[key].latest = IF stored[x].ts > old.updated THEN stored[x].value ELSE old.latest
  BY <1>6 DEF Latest, DynamoLatest
<1>8. \A k : Group(V, k, groupBy) \subseteq Group(V \cup {x}, k, groupBy)  BY DEF Group
<1>9. x \in Group(V \cup {x}, key, groupBy)  BY <1>3 DEF Group
<1>10. \E i \in Group(V \cup {x}, key, groupBy) :
          new[key].updated = stored[i].ts /\ new[key].latest = stored[i].value
  <2>1. PICK u, t \in Nat : u = old.updated /\ t = stored[x].ts /\ t # 0
    BY <1>5, QueriesTimed DEF Entries
  <2>2. CASE t > u
    <3>1. new[key].updated = t /\ new[key].latest = stored[x].value  BY <1>6, <1>7, <2>1, <2>2
    <3>2. QED  BY <1>9, <2>1, <3>1
  <2>3. CASE ~(t > u)
    <3>1. new[key].updated = u /\ new[key].latest = old.latest /\ u # 0  BY <1>6, <1>7, <2>1, <2>3
    <3>2. key \in DOMAIN acc /\ old = acc[key]  BY <1>4, <2>1, <3>1 DEF Entry, Blank
    <3>3. PICK i \in Group(V, key, groupBy) : old.updated = stored[i].ts /\ old.latest = stored[i].value
      BY <3>2 DEF Newest
    <3>4. QED  BY <1>8, <2>1, <3>1, <3>3
  <2>4. QED  BY <2>2, <2>3
<1>11. ASSUME NEW k \in DOMAIN new
       PROVE  \E i \in Group(V \cup {x}, k, groupBy) :
                 new[k].updated = stored[i].ts /\ new[k].latest = stored[i].value
  <2>1. CASE k = key  BY <1>10, <2>1
  <2>2. CASE k # key
    <3>1. k \in DOMAIN acc /\ new[k] = acc[k]  BY <1>5, <2>2
    <3>2. QED  BY <1>8, <3>1 DEF Newest
  <2>3. QED  BY <2>1, <2>2
<1>12. QED  BY <1>2, <1>11 DEF Newest

\* The positions that the first m steps of a walk along s visit.
Visited(s, m) == {s[i] : i \in 1 .. m}

\* A walk along an enumeration visits one new element with each step.
LEMMA VisitedGrows ==
    ASSUME NEW S, NEW s, Enumerates(s, S)
    PROVE  /\ Visited(s, 0) = {} /\ Visited(s, Len(s)) = S /\ Len(s) \in Nat
           /\ \A m \in 1 .. Len(s) :
                 /\ Visited(s, m - 1) \subseteq S /\ s[m] \in S \ Visited(s, m - 1)
                 /\ Visited(s, m) = Visited(s, m - 1) \cup {s[m]}
<1>1. PICK n \in Nat : n = Len(s)  BY LenProperties DEF Enumerates
<1>2. DOMAIN s = 1 .. n /\ Range(s) = S /\ Distinct(s)  BY <1>1, LenProperties DEF Enumerates
<1>3. \A m \in 1 .. n : s[m] \in S  BY <1>2 DEF Range
<1>4. Visited(s, 0) = {}
  <2>1. 1 .. 0 = {}  OBVIOUS
  <2>2. QED  BY <2>1 DEF Visited
<1>5. Visited(s, n) = S  BY <1>2 DEF Visited, Range
<1>6. ASSUME NEW m \in 1 .. n
      PROVE  /\ Visited(s, m - 1) \subseteq S /\ s[m] \in S \ Visited(s, m - 1)
             /\ Visited(s, m) = Visited(s, m - 1) \cup {s[m]}
  <2>1. \A i \in 1 .. m - 1 : i \in 1 .. n /\ i # m  OBVIOUS
  <2>2. s[m] \notin Visited(s, m - 1)  BY <1>2, <2>1 DEF Visited, Distinct
  <2>3. Visited(s, m - 1) \subseteq S  BY <1>3, <2>1 DEF Visited
  <2>4. 1 .. m = 1 .. m - 1 \cup {m}  OBVIOUS
  <2>5. Visited(s, m) = Visited(s, m - 1) \cup {s[m]}  BY <2>4 DEF Visited
  <2>6. QED  BY <1>3, <2>2, <2>3, <2>5
<1>7. QED  BY <1>1, <1>4, <1>5, <1>6

\* The last step of a walk that met an event of k wrote what acc says is latest.
LastMet(acc, s, m, groupBy) ==
    \A k \in DOMAIN acc : \E i \in 1 .. m :
        /\ Key(s[i], groupBy) = k /\ acc[k].latest = stored[s[i]].value
        /\ \A j \in 1 .. m : Key(s[j], groupBy) = k => j <= i

\* The memory store keeps the value of the last event it met.
LEMMA LastMetStep ==
    ASSUME IStored, NEW groupBy, NEW s, NEW m \in Nat, s[m + 1] \in DOMAIN stored,
           NEW acc \in Tables(groupBy), LastMet(acc, s, m, groupBy)
    PROVE  LastMet(AddTo(acc, s[m + 1], groupBy, "memory"), s, m + 1, groupBy)
<1>1. PICK x \in DOMAIN stored : x = s[m + 1]  OBVIOUS
<1>2. PICK new : new = AddTo(acc, x, groupBy, "memory")  OBVIOUS
<1>3. PICK old : old = Entry(acc, Key(x, groupBy), Blank)  OBVIOUS
<1>4. /\ old \in Entries
      /\ DOMAIN new = DOMAIN acc \cup {Key(x, groupBy)}
      /\ \A k \in DOMAIN acc : k # Key(x, groupBy) => new[k] = acc[k]
      /\ new[Key(x, groupBy)] = Updated(old, stored[x], "memory")
  <2>1. Added(AddTo(acc, x, groupBy, "memory"), Entry(acc, Key(x, groupBy), Blank),
              acc, x, groupBy, "memory")
    BY AddToEntry
  <2>2. QED  BY <1>2, <1>3, <2>1 DEF Added
<1>5. new[Key(x, groupBy)].latest = stored[x].value
  <2>1. new[Key(x, groupBy)].latest = Latest("memory", old, stored[x])  BY <1>4, UpdatedTyped
  <2>2. QED  BY <2>1 DEF Latest, MemoryLatest
<1>6. \A i \in 1 .. m + 1 : i \in Int /\ i <= m + 1 /\ (i = m + 1 \/ i \in 1 .. m)  OBVIOUS
<1>7. m + 1 \in 1 .. m + 1 /\ \A i \in 1 .. m : i \in 1 .. m + 1  OBVIOUS
<1>8. ASSUME NEW k \in DOMAIN new
      PROVE  \E i \in 1 .. m + 1 :
                /\ Key(s[i], groupBy) = k /\ new[k].latest = stored[s[i]].value
                /\ \A j \in 1 .. m + 1 : Key(s[j], groupBy) = k => j <= i
  <2>1. CASE k = Key(x, groupBy)  BY <1>1, <1>5, <1>6, <1>7, <2>1
  <2>2. CASE k # Key(x, groupBy)
    <3>1. k \in DOMAIN acc /\ new[k] = acc[k]  BY <1>4, <2>2
    <3>2. PICK i \in 1 .. m :
             /\ Key(s[i], groupBy) = k /\ acc[k].latest = stored[s[i]].value
             /\ \A j \in 1 .. m : Key(s[j], groupBy) = k => j <= i
      BY <3>1 DEF LastMet
    <3>3. \A j \in 1 .. m + 1 : Key(s[j], groupBy) = k => j \in 1 .. m  BY <1>1, <1>6, <2>2
    <3>4. QED  BY <1>7, <3>1, <3>2, <3>3
  <2>3. QED  BY <2>1, <2>2
<1>9. QED  BY <1>1, <1>2, <1>8 DEF LastMet

\* What a walk along an enumeration of the matches leaves.
LEMMA SummariesSay ==
    ASSUME IStored, NEW S \in SUBSET DOMAIN stored, NEW s, Enumerates(s, S), NEW groupBy, NEW adapter
    PROVE  /\ Exact(Summaries(s, groupBy, adapter), S, groupBy)
           /\ adapter = "dynamodb" => Newest(Summaries(s, groupBy, adapter), S, groupBy)
           /\ adapter = "memory" => LastMet(Summaries(s, groupBy, adapter), s, Len(s), groupBy)
<1>1. PICK n \in Nat : n = Len(s)  BY VisitedGrows
<1>2. PICK g : /\ g \in [0 .. n -> Tables(groupBy)]
               /\ g[0] = <<>>
               /\ \A m \in 1 .. n : g[m] = AddTo(g[m - 1], s[m], groupBy, adapter)
               /\ g[n] = Summaries(s, groupBy, adapter)
  BY <1>1, SummariesWalk
<1>. DEFINE Right(m) == /\ Exact(g[m], Visited(s, m), groupBy)
                        /\ adapter = "dynamodb" => Newest(g[m], Visited(s, m), groupBy)
                        /\ adapter = "memory" => LastMet(g[m], s, m, groupBy)
<1>3. Right(0)
  <2>1. g[0] \in Tables(groupBy) /\ DOMAIN g[0] = {}  BY <1>2
  <2>2. Visited(s, 0) = {}  BY VisitedGrows
  <2>3. Exact(g[0], {}, groupBy)  BY <2>1 DEF Exact
  <2>4. Newest(g[0], {}, groupBy) /\ LastMet(g[0], s, 0, groupBy)  BY <2>1 DEF Newest, LastMet
  <2>5. QED  BY <2>2, <2>3, <2>4
<1>4. ASSUME NEW m \in 1 .. n, Right(m - 1)  PROVE Right(m)
  <2>1. PICK p \in Nat : p = m - 1  OBVIOUS
  <2>2. m = p + 1 /\ p \in 0 .. n  BY <2>1
  <2>3. PICK V : V = Visited(s, p)  OBVIOUS
  <2>4. V \in SUBSET DOMAIN stored /\ s[m] \in DOMAIN stored \ V /\ Visited(s, m) = V \cup {s[m]}
    BY <1>1, <2>1, <2>3, VisitedGrows
  <2>5. g[p] \in Tables(groupBy) /\ Exact(g[p], V, groupBy) /\ g[m] = AddTo(g[p], s[m], groupBy, adapter)
    BY <1>2, <1>4, <2>1, <2>2, <2>3
  <2>6. Exact(g[m], Visited(s, m), groupBy)  BY <2>4, <2>5, ExactStep
  <2>7. ASSUME adapter = "dynamodb"  PROVE Newest(g[m], Visited(s, m), groupBy)
    <3>1. Newest(g[p], V, groupBy)  BY <1>4, <2>1, <2>3, <2>7
    <3>2. Newest(AddTo(g[p], s[m], groupBy, "dynamodb"), V \cup {s[m]}, groupBy)
      BY <2>4, <2>5, <3>1, NewestStep
    <3>3. QED  BY <2>4, <2>5, <2>7, <3>2
  <2>8. ASSUME adapter = "memory"  PROVE LastMet(g[m], s, m, groupBy)
    <3>1. LastMet(g[p], s, p, groupBy)  BY <1>4, <2>1, <2>8
    <3>2. LastMet(AddTo(g[p], s[p + 1], groupBy, "memory"), s, p + 1, groupBy)
      BY <2>2, <2>4, <2>5, <3>1, LastMetStep
    <3>3. QED  BY <2>2, <2>5, <2>8, <3>2
  <2>9. QED  BY <2>6, <2>7, <2>8
<1>5. Right(n)
  <2>1. PICK T : T = {m \in 0 .. n : Right(m)}  OBVIOUS
  <2>. HIDE DEF Right
  <2>2. 0 \in T /\ \A m \in 1 .. n : m - 1 \in T => m \in T  BY <1>3, <1>4, <2>1
  <2>3. \A m \in 0 .. n : m \in T  BY <2>2, Upwards
  <2>4. QED  BY <2>1, <2>3
<1>6. Visited(s, n) = S  BY <1>1, VisitedGrows
<1>7. QED  BY <1>1, <1>2, <1>5, <1>6

-----------------------------------------------------------------------------
(* Summaries of both adapters, whatever the order of the walk.              *)

\* The orders a scan may be in enumerate the matches in order of time.
LEMMA ScansEnumerate ==
    ASSUME IStored, NEW f
    PROVE  \A s \in ScanOrders(f) : Enumerates(s, Matching(f)) /\ Ordered(s)
<1>1. Matching(f) \in SUBSET DOMAIN stored  BY MatchingFinite DEF IStored
<1>2. QED  BY <1>1, QueriesTimed, TimeOrdersAre DEF ScanOrders

\* ListSummaries: count, sum and time of the last update are exact.
LEMMA SummariesHold ==
    ASSUME IStored
    PROVE  SummariesExact
<1>1. ASSUME NEW f, NEW groupBy, NEW sums \in {MemorySummaries(f, groupBy)} \cup DynamoSummaries(f, groupBy)
      PROVE  Exact(sums, Matching(f), groupBy)
  <2>1. Matching(f) \in SUBSET DOMAIN stored  BY MatchingFinite DEF IStored
  <2>2. CASE sums = MemorySummaries(f, groupBy)
    <3>1. Enumerates(InsertionOrder(f), Matching(f))  BY InsertionEnumerates DEF IStored
    <3>2. QED  BY <2>1, <2>2, <3>1, SummariesSay DEF MemorySummaries
  <2>3. CASE sums \in DynamoSummaries(f, groupBy)
    <3>1. PICK s \in ScanOrders(f) : sums = Summaries(s, groupBy, "dynamodb")
      BY <2>3 DEF DynamoSummaries
    <3>2. QED  BY <2>1, <3>1, ScansEnumerate, SummariesSay
  <2>4. QED  BY <2>2, <2>3
<1>2. ASSUME NEW f, NEW groupBy, NEW sums, Exact(sums, Matching(f), groupBy), NEW k \in DOMAIN sums,
             NEW H, H = Group(Matching(f), k, groupBy)
      PROVE  /\ sums[k].count = Cardinality(H) /\ sums[k].sum = Total(H)
             /\ sums[k].updated = Max({stored[i].ts : i \in H})
  <2>1. PICK T : T = {stored[i].ts : i \in H}  OBVIOUS
  <2>2. T \in SUBSET Int  BY <1>2, <2>1, QueriesTimed DEF Group, Matching
  <2>3. sums[k].updated \in T /\ \A t \in T : t <= sums[k].updated  BY <1>2, <2>1 DEF Exact
  <2>4. \A t \in T : sums[k].updated >= t  BY <2>2, <2>3
  <2>5. sums[k].updated = Max(T)  BY <2>2, <2>3, <2>4, MaxIs
  <2>6. QED  BY <1>2, <2>1, <2>5 DEF Exact
<1>3. \A f, groupBy, k : InGroup(f, k, groupBy) = Group(Matching(f), k, groupBy)
  BY DEF InGroup, Group, Key
<1>4. ASSUME NEW f, NEW groupBy, NEW sums \in {MemorySummaries(f, groupBy)} \cup DynamoSummaries(f, groupBy)
      PROVE  /\ DOMAIN sums = {<<stored[i].name, GroupOf(i, groupBy)>> : i \in Matching(f)}
             /\ \A k \in DOMAIN sums :
                   /\ sums[k].count = Cardinality(InGroup(f, k, groupBy))
                   /\ sums[k].sum = Total(InGroup(f, k, groupBy))
                   /\ sums[k].updated = Max({stored[i].ts : i \in InGroup(f, k, groupBy)})
  <2>1. Exact(sums, Matching(f), groupBy)  BY <1>1
  <2>2. DOMAIN sums = {<<stored[i].name, GroupOf(i, groupBy)>> : i \in Matching(f)}
    BY <2>1 DEF Exact, Key
  <2>3. ASSUME NEW k \in DOMAIN sums
        PROVE  /\ sums[k].count = Cardinality(InGroup(f, k, groupBy))
               /\ sums[k].sum = Total(InGroup(f, k, groupBy))
               /\ sums[k].updated = Max({stored[i].ts : i \in InGroup(f, k, groupBy)})
    <3>1. PICK H : H = InGroup(f, k, groupBy) /\ H = Group(Matching(f), k, groupBy)  BY <1>3
    <3>2. /\ sums[k].count = Cardinality(H) /\ sums[k].sum = Total(H)
          /\ sums[k].updated = Max({stored[i].ts : i \in H})
      BY <1>2, <2>1, <3>1
    <3>3. QED  BY <3>1, <3>2
  <2>4. QED  BY <2>2, <2>3
<1>5. QED  BY <1>4, Zenon DEF SummariesExact

\* ListSummaries: whose value is latest, in either adapter.
LEMMA LatestHolds ==
    ASSUME IStored
    PROVE  LatestIsNewest
<1>. DEFINE G(f, groupBy, k) == Group(Matching(f), k, groupBy)
<1>1. ASSUME NEW f, NEW groupBy, NEW sums \in DynamoSummaries(f, groupBy), NEW k \in DOMAIN sums
      PROVE  \E i \in G(f, groupBy, k) : sums[k].updated = stored[i].ts /\ sums[k].latest = stored[i].value
  <2>1. Matching(f) \in SUBSET DOMAIN stored  BY MatchingFinite DEF IStored
  <2>2. PICK s \in ScanOrders(f) : sums = Summaries(s, groupBy, "dynamodb")  BY DEF DynamoSummaries
  <2>3. Newest(sums, Matching(f), groupBy)  BY <2>1, <2>2, ScansEnumerate, SummariesSay
  <2>4. QED  BY <2>3 DEF Newest
<1>2. ASSUME NEW f, NEW groupBy, NEW k \in DOMAIN MemorySummaries(f, groupBy)
      PROVE  /\ Max(G(f, groupBy, k)) \in G(f, groupBy, k)
             /\ MemorySummaries(f, groupBy)[k].latest = stored[Max(G(f, groupBy, k))].value
             /\ (\A i, j \in G(f, groupBy, k) : i < j => stored[i].ts <= stored[j].ts)
                => stored[Max(G(f, groupBy, k))].ts = MemorySummaries(f, groupBy)[k].updated
  <2>1. PICK S \in SUBSET DOMAIN stored : S = Matching(f)  BY MatchingFinite DEF IStored
  <2>2. PICK s : s = InsertionOrder(f)  OBVIOUS
  <2>3. Enumerates(s, S) /\ \A i, j \in DOMAIN s : i < j => s[i] < s[j]
    BY <2>1, <2>2, InsertionEnumerates DEF IStored
  <2>4. PICK sums : sums = MemorySummaries(f, groupBy)  OBVIOUS
  <2>5. Exact(sums, S, groupBy) /\ LastMet(sums, s, Len(s), groupBy)
    BY <2>2, <2>3, <2>4, SummariesSay DEF MemorySummaries
  <2>6. PICK n \in Nat : n = Len(s)  BY VisitedGrows, <2>3
  <2>7. DOMAIN s = 1 .. n /\ Range(s) = S  BY <2>3, <2>6, LenProperties DEF Enumerates
  <2>8. PICK H : H = Group(S, k, groupBy)  OBVIOUS
  <2>9. PICK l \in 1 .. n : /\ Key(s[l], groupBy) = k /\ sums[k].latest = stored[s[l]].value
                            /\ \A j \in 1 .. n : Key(s[j], groupBy) = k => j <= l
    BY <2>4, <2>5, <2>6 DEF LastMet
  <2>10. S \in SUBSET Nat  BY MatchingFinite DEF IStored
  <2>11. PICK m : m = s[l]  OBVIOUS
  <2>12. m \in H /\ H \in SUBSET Int /\ m \in Int  BY <2>7, <2>8, <2>9, <2>10, <2>11 DEF Group, Range
  <2>13. ASSUME NEW i \in H  PROVE m >= i
    <3>1. PICK j \in 1 .. n : s[j] = i  BY <2>7, <2>8 DEF Group, Range
    <3>2. Key(s[j], groupBy) = k  BY <2>8, <3>1 DEF Group
    <3>3. j <= l  BY <2>9, <3>2
    <3>4. CASE j = l  BY <2>11, <2>12, <3>1, <3>4
    <3>5. CASE j # l
      <4>1. s[j] < s[l]  BY <2>3, <2>7, <3>3, <3>5
      <4>2. QED  BY <2>11, <2>12, <3>1, <4>1
    <3>6. QED  BY <3>4, <3>5
  <2>14. Max(H) = m  BY <2>12, <2>13, MaxIs
  <2>15. ASSUME \A i, j \in H : i < j => stored[i].ts <= stored[j].ts
         PROVE  stored[m].ts = sums[k].updated
    <3>1. PICK i \in H : sums[k].updated = stored[i].ts  BY <2>4, <2>5, <2>8 DEF Exact
    <3>2. stored[m].ts <= sums[k].updated  BY <2>4, <2>5, <2>8, <2>12 DEF Exact
    <3>3. stored[i].ts \in Int /\ stored[m].ts \in Int  BY <2>8, <2>12, QueriesTimed DEF Group
    <3>4. CASE i = m  BY <3>1, <3>4
    <3>5. CASE i # m
      <4>1. i < m  BY <2>12, <2>13, <3>5
      <4>2. stored[i].ts <= stored[m].ts  BY <2>12, <2>15, <4>1
      <4>3. QED  BY <3>1, <3>2, <3>3, <4>2
    <3>6. QED  BY <3>4, <3>5
  <2>16. QED  BY <2>1, <2>4, <2>8, <2>9, <2>11, <2>12, <2>14, <2>15
<1>3. \A f, groupBy, k : InGroup(f, k, groupBy) = G(f, groupBy, k)
  BY DEF InGroup, Group, Key
<1>4. ASSUME NEW f, NEW groupBy, NEW sums \in DynamoSummaries(f, groupBy), NEW k \in DOMAIN sums
      PROVE  sums[k].latest \in ValuesAt(f, k, groupBy, sums[k].updated)
  <2>1. PICK i \in InGroup(f, k, groupBy) : sums[k].updated = stored[i].ts /\ sums[k].latest = stored[i].value
    BY <1>1, <1>3
  <2>2. QED  BY <2>1 DEF ValuesAt
<1>5. ASSUME NEW f, NEW groupBy, NEW sums \in {MemorySummaries(f, groupBy)}, NEW k \in DOMAIN sums
      PROVE  /\ sums[k].latest = stored[Max(InGroup(f, k, groupBy))].value
             /\ (\A i, j \in InGroup(f, k, groupBy) : i < j => stored[i].ts <= stored[j].ts)
                => sums[k].latest \in ValuesAt(f, k, groupBy, sums[k].updated)
  <2>1. PICK H : H = InGroup(f, k, groupBy) /\ H = G(f, groupBy, k)  BY <1>3
  <2>2. /\ Max(H) \in H /\ sums[k].latest = stored[Max(H)].value
        /\ (\A i, j \in H : i < j => stored[i].ts <= stored[j].ts) => stored[Max(H)].ts = sums[k].updated
    BY <1>2, <2>1
  <2>3. stored[Max(H)].ts = sums[k].updated => sums[k].latest \in ValuesAt(f, k, groupBy, sums[k].updated)
    BY <2>1, <2>2 DEF ValuesAt
  <2>4. QED  BY <2>1, <2>2, <2>3
<1>6. QED  BY <1>4, <1>5, Zenon DEF LatestIsNewest

-----------------------------------------------------------------------------
(* Series.                                                                  *)

Points == [value : Int, count : Nat]

LabelOf(i, bucket) == PointOf(stored[i].ts, bucket)

Lines(bucket) == UNION {[K -> Points] : K \in SUBSET {LabelOf(i, bucket) : i \in DOMAIN stored}}

Plot(acc, x, bucket) ==
    Put(acc, LabelOf(x, bucket), Counted(Entry(acc, LabelOf(x, bucket), NoPoint), stored[x]))

\* The matches V at a label.
At(V, k, bucket) == {i \in V : LabelOf(i, bucket) = k}

\* What a series of the events at the positions V is.
Drawn(V, bucket) ==
    [k \in {LabelOf(i, bucket) : i \in V} |->
        [value |-> Total(At(V, k, bucket)), count |-> Cardinality(At(V, k, bucket))]]

\* One event added to a line of points leaves a line of points.
LEMMA PlotTyped ==
    ASSUME IStored, NEW bucket, NEW x \in DOMAIN stored, NEW acc \in Lines(bucket)
    PROVE  Plot(acc, x, bucket) \in Lines(bucket)
<1>1. PICK K \in SUBSET {LabelOf(i, bucket) : i \in DOMAIN stored} : acc \in [K -> Points]
  BY DEF Lines
<1>2. PICK k : k = LabelOf(x, bucket)  OBVIOUS
<1>3. PICK old : old = Entry(acc, k, NoPoint)  OBVIOUS
<1>4. old \in Points  BY <1>1, <1>3 DEF Entry, NoPoint, Points
<1>5. PICK new : new = Counted(old, stored[x])  OBVIOUS
<1>6. new \in Points
  <2>1. stored[x].value \in Int  BY QueriesTimed
  <2>2. QED  BY <1>4, <1>5, <2>1 DEF Counted, Points
<1>7. Put(acc, k, new) \in [K \cup {k} -> Points]  BY <1>1, <1>6 DEF Put
<1>8. K \cup {k} \in SUBSET {LabelOf(i, bucket) : i \in DOMAIN stored}  BY <1>2
<1>9. QED  BY <1>2, <1>3, <1>5, <1>7, <1>8 DEF Plot, Lines

\* One more event in a series.
LEMMA PlotStep ==
    ASSUME IStored, NEW bucket, NEW V \in SUBSET DOMAIN stored, NEW x \in DOMAIN stored \ V
    PROVE  Plot(Drawn(V, bucket), x, bucket) = Drawn(V \cup {x}, bucket)
<1>. DEFINE G(k) == At(V, k, bucket)
            H(k) == At(V \cup {x}, k, bucket)
            P(k) == [value |-> Total(G(k)), count |-> Cardinality(G(k))]
            Q(k) == [value |-> Total(H(k)), count |-> Cardinality(H(k))]
<1>1. PICK key : key = LabelOf(x, bucket)  OBVIOUS
<1>2. PICK K : K = {LabelOf(i, bucket) : i \in V}  OBVIOUS
<1>3. PICK acc : acc = [k \in K |-> P(k)]  OBVIOUS
<1>4. acc = Drawn(V, bucket)  BY <1>2, <1>3 DEF Drawn
<1>5. Drawn(V \cup {x}, bucket) = [k \in K \cup {key} |-> Q(k)]
  <2>1. {LabelOf(i, bucket) : i \in V \cup {x}} = K \cup {key}  BY <1>1, <1>2
  <2>2. QED  BY <2>1 DEF Drawn
<1>6. /\ \A k : k # key => H(k) = G(k)
      /\ H(key) = G(key) \cup {x} /\ x \notin G(key) /\ G(key) \in SUBSET DOMAIN stored
      /\ key \notin K => G(key) = {}
  BY <1>1, <1>2 DEF At
<1>. HIDE DEF G, H
<1>7. PICK old : old = Entry(acc, key, NoPoint)  OBVIOUS
<1>8. old = P(key)
  <2>1. CASE key \in K  BY <1>3, <1>7, <2>1 DEF Entry
  <2>2. CASE key \notin K
    <3>1. old = NoPoint /\ G(key) = {}  BY <1>3, <1>6, <1>7, <2>2 DEF Entry
    <3>2. QED  BY <3>1, TotalProperties, FS_EmptySet DEF NoPoint
  <2>3. QED  BY <2>1, <2>2
<1>9. IsFiniteSet(G(key))  BY <1>6, MatchingFinite DEF IStored
<1>10. Cardinality(H(key)) = Cardinality(G(key)) + 1 /\ Total(H(key)) = Total(G(key)) + stored[x].value
  BY <1>6, <1>9, FS_AddElement, TotalProperties
<1>11. Counted(old, stored[x]) = Q(key)  BY <1>8, <1>10 DEF Counted
<1>12. PICK new : new = Q(key)  OBVIOUS
<1>13. Plot(acc, x, bucket) = [y \in K \cup {key} |-> IF y = key THEN new ELSE acc[y]]
  BY <1>1, <1>3, <1>7, <1>11, <1>12 DEF Plot, Put
<1>14. \A k \in K \cup {key} : (IF k = key THEN new ELSE acc[k]) = Q(k)
  <2>1. ASSUME NEW k \in K, k # key  PROVE acc[k] = Q(k)
    <3>1. acc[k] = P(k)  BY <1>3
    <3>2. H(k) = G(k)  BY <1>6, <2>1
    <3>3. QED  BY <3>1, <3>2
  <2>. HIDE DEF Q
  <2>2. QED  BY <1>12, <2>1
<1>15. [y \in K \cup {key} |-> IF y = key THEN new ELSE acc[y]] = [k \in K \cup {key} |-> Q(k)]
  <2>. HIDE DEF Q
  <2>. QED  BY <1>14
<1>16. QED  BY <1>4, <1>5, <1>13, <1>15

\* The walk of QuerySeries.
LEMMA SeriesSay ==
    ASSUME IStored, NEW S \in SUBSET DOMAIN stored, NEW s, Enumerates(s, S), NEW bucket
    PROVE  Series(s, bucket) = Drawn(S, bucket)
<1>0. PICK n \in Nat : n = Len(s)  BY LenProperties DEF Enumerates
<1>1. s \in Seq(S) /\ \A m \in 1 .. n : s[m] \in DOMAIN stored
  BY <1>0, LenProperties, ElementOfSeq DEF Enumerates
<1>2. PICK A : A = Lines(bucket)  OBVIOUS
<1>. DEFINE Is(g) == g = [m \in 0 .. n |-> IF m = 0 THEN <<>> ELSE Plot(g[m - 1], s[m], bucket)]
<1>3. PICK step : step = [p \in (1 .. n) \X A |-> Plot(p[2], s[p[1]], bucket)]  OBVIOUS
<1>4. \A m \in 1 .. n, acc \in A :
         step[<<m, acc>>] = Plot(acc, s[m], bucket) /\ Plot(acc, s[m], bucket) \in A
  BY <1>1, <1>2, <1>3, PlotTyped
<1>5. IsStep(step, n, A)  BY <1>3, <1>4 DEF IsStep
<1>6. <<>> \in A
  <2>1. {} \in SUBSET {LabelOf(i, bucket) : i \in DOMAIN stored}  OBVIOUS
  <2>2. <<>> \in [{} -> Points]  OBVIOUS
  <2>3. QED  BY <1>2, <2>1, <2>2 DEF Lines
<1>7. PICK h \in [0 .. n -> A] : h[0] = <<>> /\ \A m \in 1 .. n : h[m] = step[<<m, h[m - 1]>>]
  BY <1>5, <1>6, WalkDefined
<1>8. Is(h)
  <2>1. ASSUME NEW m \in 0 .. n, m # 0
        PROVE  h[m] = Plot(h[m - 1], s[m], bucket)
    <3>1. m \in 1 .. n /\ m - 1 \in 0 .. n  BY <2>1
    <3>2. h[m - 1] \in A  BY <1>7, <3>1
    <3>3. QED  BY <1>4, <1>7, <3>1, <3>2
  <2>2. h = [m \in 0 .. n |-> h[m]]  BY <1>7
  <2>3. QED  BY <1>7, <2>1, <2>2
<1>9. PICK g : g = CHOOSE k : Is(k)  OBVIOUS
<1>10. Is(g)  BY <1>8, <1>9
<1>11. Series(s, bucket) = g[n]  BY <1>0, <1>9 DEF Series, Plot, LabelOf
<1>12. g[0] = <<>> /\ \A m \in 1 .. n : g[m] = Plot(g[m - 1], s[m], bucket)
  BY <1>10
<1>. DEFINE Good == {m \in 0 .. n : g[m] = Drawn(Visited(s, m), bucket)}
<1>13. 0 \in Good
  <2>1. Drawn({}, bucket) = <<>>
    <3>1. {LabelOf(i, bucket) : i \in {}} = {}  OBVIOUS
    <3>2. DOMAIN Drawn({}, bucket) = {}  BY <3>1 DEF Drawn
    <3>3. Drawn({}, bucket) = [k \in {} |-> Drawn({}, bucket)[k]]  BY <3>1 DEF Drawn
    <3>4. QED  BY <3>3
  <2>2. Visited(s, 0) = {}  BY VisitedGrows
  <2>3. g[0] = Drawn(Visited(s, 0), bucket)  BY <1>12, <2>1, <2>2
  <2>4. 0 \in 0 .. n  OBVIOUS
  <2>5. QED  BY <2>3, <2>4
<1>14. ASSUME NEW m \in 1 .. n, m - 1 \in Good  PROVE m \in Good
  <2>1. PICK V : V = Visited(s, m - 1)  OBVIOUS
  <2>2. V \in SUBSET DOMAIN stored /\ s[m] \in DOMAIN stored \ V /\ Visited(s, m) = V \cup {s[m]}
    BY <1>0, <2>1, VisitedGrows
  <2>3. g[m - 1] = Drawn(V, bucket)  BY <1>14, <2>1
  <2>4. Plot(Drawn(V, bucket), s[m], bucket) = Drawn(V \cup {s[m]}, bucket)  BY <2>2, PlotStep
  <2>5. g[m] = Drawn(Visited(s, m), bucket)  BY <1>12, <2>2, <2>3, <2>4
  <2>6. m \in 0 .. n  OBVIOUS
  <2>7. QED  BY <2>5, <2>6
<1>15. n \in Good
  <2>. HIDE DEF Good
  <2>1. \A m \in 0 .. n : m \in Good  BY <1>13, <1>14, Upwards
  <2>2. QED  BY <2>1
<1>16. Visited(s, n) = S  BY <1>0, VisitedGrows
<1>17. QED  BY <1>11, <1>15, <1>16

\* A label is the whole second at or before the start of the event's bucket.
LEMMA LabelIsNear ==
    ASSUME NEW ts \in Nat, NEW bucket \in Nat \ {0}
    PROVE  /\ PointOf(ts, bucket) * TicksPerSecond <= ts
           /\ ts < PointOf(ts, bucket) * TicksPerSecond + bucket + TicksPerSecond
<1>1. PICK t \in Nat \ {0} : t = TicksPerSecond  BY QueriesNumbers
<1>2. PICK r \in Int : r = ts % bucket /\ 0 <= r /\ r < bucket  BY ModRange
<1>3. PICK a \in Int : a = ts - r  OBVIOUS
<1>4. PICK q \in Int : q = a \div t /\ q * t <= a /\ a < q * t + t  BY DivRange
<1>5. PICK p \in Int : p = q * t  OBVIOUS
<1>6. p <= ts /\ ts < p + bucket + t  BY <1>2, <1>3, <1>4, <1>5
<1>7. PointOf(ts, bucket) = q  BY <1>1, <1>2, <1>3, <1>4 DEF PointOf
<1>8. QED  BY <1>1, <1>5, <1>6, <1>7

\* QuerySeries: the points add up to the events, whatever their order.
LEMMA SeriesHold ==
    ASSUME IStored
    PROVE  SeriesConserves
<1>1. ASSUME NEW f, NEW bucket
      PROVE  /\ MemorySeries(f, bucket) = Drawn(Matching(f), bucket)
             /\ DynamoSeries(f, bucket) = {Drawn(Matching(f), bucket)}
  <2>1. Matching(f) \in SUBSET DOMAIN stored  BY MatchingFinite DEF IStored
  <2>2. MemorySeries(f, bucket) = Drawn(Matching(f), bucket)
    BY <2>1, InsertionEnumerates, SeriesSay DEF MemorySeries, IStored
  <2>3. \A s \in ScanOrders(f) : Series(s, bucket) = Drawn(Matching(f), bucket)
    BY <2>1, ScansEnumerate, SeriesSay
  <2>4. ScanOrders(f) # {}  BY <2>1, QueriesTimed, TimeOrderExists DEF ScanOrders
  <2>5. QED  BY <2>2, <2>3, <2>4 DEF DynamoSeries
<1>2. ASSUME NEW f \in Filters, NEW bucket \in Buckets
      PROVE  LET points == MemorySeries(f, bucket)
                 at(k) == {i \in Matching(f) : PointOf(stored[i].ts, bucket) = k}
             IN  /\ DynamoSeries(f, bucket) = {points}
                 /\ DOMAIN points = {PointOf(stored[i].ts, bucket) : i \in Matching(f)}
                 /\ \A k \in DOMAIN points :
                       /\ points[k].count = Cardinality(at(k))
                       /\ points[k].value = Total(at(k))
                       /\ \A i \in at(k) :
                             /\ k * TicksPerSecond <= stored[i].ts
                             /\ stored[i].ts < k * TicksPerSecond + bucket + TicksPerSecond
  <2>1. PICK points : points = Drawn(Matching(f), bucket)  OBVIOUS
  <2>2. MemorySeries(f, bucket) = points /\ DynamoSeries(f, bucket) = {points}  BY <1>1, <2>1
  <2>3. DOMAIN points = {PointOf(stored[i].ts, bucket) : i \in Matching(f)}
    BY <2>1 DEF Drawn, LabelOf
  <2>4. ASSUME NEW k \in DOMAIN points,
               NEW at, at = {i \in Matching(f) : PointOf(stored[i].ts, bucket) = k}
        PROVE  /\ points[k].count = Cardinality(at)
               /\ points[k].value = Total(at)
               /\ \A i \in at :
                     /\ k * TicksPerSecond <= stored[i].ts
                     /\ stored[i].ts < k * TicksPerSecond + bucket + TicksPerSecond
    <3>1. at = At(Matching(f), k, bucket)  BY <2>4 DEF At, LabelOf
    <3>2. points[k] = [value |-> Total(At(Matching(f), k, bucket)),
                       count |-> Cardinality(At(Matching(f), k, bucket))]
      BY <2>1 DEF Drawn
    <3>3. ASSUME NEW i \in at
          PROVE  /\ k * TicksPerSecond <= stored[i].ts
                 /\ stored[i].ts < k * TicksPerSecond + bucket + TicksPerSecond
      <4>1. i \in DOMAIN stored /\ PointOf(stored[i].ts, bucket) = k  BY <2>4 DEF Matching
      <4>2. stored[i].ts \in Nat /\ bucket \in Nat \ {0}  BY <4>1, QueriesTimed, QueriesNumbers
      <4>3. QED  BY <4>1, <4>2, LabelIsNear
    <3>4. QED  BY <3>1, <3>2, <3>3
  <2>5. QED  BY <2>2, <2>3, <2>4
<1>3. QED  BY <1>2, Zenon DEF SeriesConserves

-----------------------------------------------------------------------------
(* The theorems about queries.                                              *)

\* Nothing is stored at first.
LEMMA StoredInit == ListsInit => IStored
BY DEF ListsInit, IStored

\* Saving appends an event.
LEMMA StoredStep == IStored /\ [ListsNext]_stored => IStored'
<1>1. ASSUME IStored, NEW event \in Emitted, Save(event)  PROVE IStored'
  BY <1>1, AppendProperties DEF IStored, Save
<1>2. ASSUME IStored, UNCHANGED stored  PROVE IStored'
  BY <1>2 DEF IStored
<1>3. QED  BY <1>1, <1>2 DEF ListsNext

\* Whatever is stored are events that may be saved.
THEOREM EventsAreStored == ListsSpec => []IStored
BY StoredInit, StoredStep, PTL DEF ListsSpec

\* Both adapters answer ListEvents alike but for the order of equal times and for
\* the first events when there are more than the limit.
THEOREM ListsTheorem == ListsSpec => []ListsAgree
BY EventsAreStored, ListsHold, PTL

\* DynamoDB lists the sources of the last month, the memory store all of them.
THEOREM DimensionsTheorem == ListsSpec => []DimensionsAgree
BY EventsAreStored, DimensionsHold, PTL

\* Count, sum and last update of every summary are those of its events.
THEOREM SummariesTheorem == ListsSpec => []SummariesExact
BY EventsAreStored, SummariesHold, PTL

\* The latest value is that of the newest event in DynamoDB, of the event saved
\* last in memory: the same when events are saved in order of time.
THEOREM LatestTheorem == ListsSpec => []LatestIsNewest
BY EventsAreStored, LatestHolds, PTL

\* A series counts every match once, in both adapters, near its own time.
THEOREM SeriesTheorem == ListsSpec => []SeriesConserves
BY EventsAreStored, SeriesHold, PTL

-----------------------------------------------------------------------------
(* Answers to the page, of which the lists are made.                        *)

\* What is stored has a time and the two step numbers.
LEMMA ProcessesTimed ==
    ASSUME IStored
    PROVE  /\ Timed
           /\ \A i \in DOMAIN stored :
                 stored[i].ts \in Int /\ stored[i].index \in Nat /\ stored[i].total \in Nat
<1>1. \A i \in DOMAIN stored : stored[i] \in Emitted  BY ElementOfSeq, LenProperties DEF IStored
<1>2. \A e \in Emitted : e.ts \in Int /\ e.index \in Nat /\ e.total \in Nat
  BY ProcessesAssumption
<1>3. QED  BY <1>1, <1>2 DEF Timed, IStored

\* What Filter leaves of an enumeration.
LEMMA FilterEnumerates ==
    ASSUME NEW S, NEW s, Enumerates(s, S), NEW T
    PROVE  /\ Enumerates(Filter(s, T), S \cap T)
           /\ Len(Filter(s, T)) = Cardinality(S \cap T)
           /\ Ordered(s) => Ordered(Filter(s, T))
<1>1. PICK f : f = Filter(s, T)  OBVIOUS
<1>2. s \in Seq(S) /\ Distinct(s) /\ Range(s) = S  BY DEF Enumerates
<1>3. f \in Seq(S) /\ Distinct(f) /\ Range(f) = S \cap T  BY <1>1, <1>2, FilterProperties
<1>4. DOMAIN f = 1 .. Len(f) /\ Len(f) \in Nat /\ DOMAIN s = 1 .. Len(s) /\ Len(s) \in Nat
  BY <1>2, <1>3, LenProperties
<1>5. f \in Seq(S \cap T)
  <2>1. \A i \in 1 .. Len(f) : f[i] \in S \cap T  BY <1>3, <1>4 DEF Range
  <2>2. QED  BY <1>3, <1>4, <2>1, SeqDef
<1>6. ASSUME Ordered(s)  PROVE Ordered(f)
  <2>1. PICK e : Picks(e, f, s, T, Len(s))  BY <1>1, <1>2, FilterPicks
  <2>2. ASSUME NEW i \in DOMAIN f, NEW j \in DOMAIN f, i <= j
        PROVE  stored[f[i]].ts <= stored[f[j]].ts
    <3>1. /\ e[i] \in DOMAIN s /\ e[j] \in DOMAIN s /\ f[i] = s[e[i]] /\ f[j] = s[e[j]]
          /\ e[i] \in Int /\ e[j] \in Int
      BY <1>4, <2>1 DEF Picks
    <3>2. e[i] <= e[j]
      <4>1. CASE i = j  BY <3>1, <4>1
      <4>2. CASE i # j
        <5>1. i < j  BY <1>4, <2>2, <4>2
        <5>2. e[i] < e[j]  BY <1>4, <2>1, <5>1 DEF Picks
        <5>3. QED  BY <3>1, <5>2
      <4>3. QED  BY <4>1, <4>2
    <3>3. QED  BY <1>6, <3>1, <3>2 DEF Ordered
  <2>3. QED  BY <2>2 DEF Ordered
<1>7. Len(f) = Cardinality(S \cap T)  BY <1>3, DistinctLength
<1>8. QED  BY <1>1, <1>3, <1>5, <1>6, <1>7 DEF Enumerates

\* Without events of one time there is one order of time.
LEMMA OneOrder ==
    ASSUME Timed, NEW S \in SUBSET DOMAIN stored,
           NEW s, Enumerates(s, S), Ordered(s), NEW t, Enumerates(t, S), Ordered(t),
           \A i, j \in S : stored[i].ts = stored[j].ts => i = j
    PROVE  s = t
<1>1. /\ DOMAIN s = 1 .. Len(s) /\ DOMAIN t = 1 .. Len(t) /\ Range(s) = S /\ Range(t) = S
      /\ Len(s) = Len(t)
  BY LenProperties, DistinctLength DEF Enumerates
<1>2. ASSUME NEW i \in DOMAIN s  PROVE s[i] = t[i]
  <2>1. i \in DOMAIN t  BY <1>1
  <2>2. s[i] \in S /\ t[i] \in S  BY <1>1, <2>1 DEF Range
  <2>3. S \in SUBSET S  OBVIOUS
  <2>4. stored[s[i]].ts <= stored[t[i]].ts  BY <2>1, <2>3, OldestFirst
  <2>5. stored[t[i]].ts <= stored[s[i]].ts  BY <2>3, OldestFirst
  <2>6. stored[s[i]].ts \in Int /\ stored[t[i]].ts \in Int  BY <2>2 DEF Timed
  <2>7. QED  BY <2>2, <2>4, <2>5, <2>6
<1>3. s = [i \in DOMAIN s |-> s[i]] /\ t = [i \in DOMAIN t |-> t[i]]
  BY SeqDef DEF Enumerates
<1>4. QED  BY <1>1, <1>2, <1>3

\* An answer of the service: the first events of an interval, in order of time.
Answered(a, R, M, limit) ==
    /\ R \in SUBSET M /\ M \in SUBSET DOMAIN stored
    /\ Enumerates(a, R) /\ Ordered(a)
    /\ Cardinality(M) <= limit => R = M

\* An answer of either adapter: part of the matches in order of time, all of them
\* when the limit allows.
LEMMA AnswersAre ==
    ASSUME IStored, NEW from, NEW to, NEW limit, ServedLimit(limit) \in Nat \ {0},
           NEW a \in Answers(from, to, limit)
    PROVE  \E R : Answered(a, R, Matching(Interval(from, to)), ServedLimit(limit))
<1>1. PICK f : f = Interval(from, to)  OBVIOUS
<1>2. PICK l \in Nat \ {0} : l = ServedLimit(limit)  OBVIOUS
<1>3. PICK M \in SUBSET DOMAIN stored : M = Matching(f)  BY MatchingFinite DEF IStored
<1>4. IsFiniteSet(M) /\ Cardinality(M) \in Nat  BY MatchingFinite DEF IStored
<1>5. \A s : Enumerates(s, M) =>
         /\ Range(First(s, l)) \in SUBSET M /\ First(s, l) \in Seq(M) /\ Distinct(First(s, l))
         /\ \A i \in DOMAIN First(s, l) : i \in DOMAIN s /\ First(s, l)[i] = s[i]
         /\ Cardinality(M) <= l => Range(First(s, l)) = M
  <2>1. SUFFICES ASSUME NEW s, Enumerates(s, M)
                 PROVE  /\ Range(First(s, l)) \in SUBSET M /\ First(s, l) \in Seq(M) /\ Distinct(First(s, l))
                        /\ \A i \in DOMAIN First(s, l) : i \in DOMAIN s /\ First(s, l)[i] = s[i]
                        /\ Cardinality(M) <= l => Range(First(s, l)) = M
    OBVIOUS
  <2>2. PICK g : g = First(s, l)  OBVIOUS
  <2>3. PICK n : n = Min({l, Len(s)})  OBVIOUS
  <2>4. /\ n \in Nat /\ n <= Len(s) /\ n <= l /\ Len(s) = Cardinality(M)
        /\ g \in Seq(M) /\ Len(g) = n /\ \A i \in 1 .. n : g[i] = s[i]
    <3>1. n \in Nat /\ n <= Len(s) /\ n <= l /\ Len(s) = Cardinality(M)
      BY <2>1, <2>3, FirstOf
    <3>2. First(s, l) \in Seq(M) /\ Len(First(s, l)) = n  BY <2>1, <2>3, FirstOf
    <3>3. \A i \in 1 .. n : First(s, l)[i] = s[i]  BY <2>1, <2>3, FirstOf
    <3>4. QED  BY <2>2, <3>1, <3>2, <3>3
  <2>5. Range(g) \subseteq M /\ Cardinality(Range(g)) = n /\ (n < l => Range(g) = M)
    BY <2>1, <2>2, <2>3, FirstOf
  <2>6. DOMAIN g = 1 .. n /\ DOMAIN s = 1 .. Len(s) /\ Len(s) \in Nat /\ Distinct(s)
    BY <2>1, <2>4, LenProperties DEF Enumerates
  <2>7. \A i \in DOMAIN g : i \in DOMAIN s /\ g[i] = s[i]  BY <2>4, <2>6
  <2>8. Distinct(g)  BY <2>6, <2>7 DEF Distinct
  <2>9. ASSUME Cardinality(M) <= l  PROVE Range(g) = M
    <3>1. CASE n < l  BY <2>5, <3>1
    <3>2. CASE ~(n < l)
      <4>1. Cardinality(Range(g)) = Cardinality(M)  BY <1>4, <2>4, <2>5, <2>9, <3>2
      <4>2. QED  BY <1>4, <2>5, <4>1, FS_Subset
    <3>3. QED  BY <3>1, <3>2
  <2>10. QED  BY <2>2, <2>4, <2>5, <2>7, <2>8, <2>9
<1>6. CASE a \in MemoryLists(f, l)
  <2>1. PICK s : s = InsertionOrder(f) /\ Enumerates(s, M)  BY <1>3, InsertionEnumerates DEF IStored
  <2>2. PICK R : R = Range(First(s, l))  OBVIOUS
  <2>3. R \in SUBSET M /\ (Cardinality(M) <= l => R = M)  BY <1>5, <2>1, <2>2
  <2>4. a \in TimeOrders(R)  BY <1>6, <2>1, <2>2 DEF MemoryLists
  <2>5. R \in SUBSET DOMAIN stored  BY <2>3
  <2>6. Enumerates(a, R) /\ Ordered(a)  BY <2>4, <2>5, ProcessesTimed, TimeOrdersAre
  <2>7. QED  BY <1>1, <1>2, <1>3, <2>3, <2>6 DEF Answered
<1>7. CASE a \in DynamoLists(f, l)
  <2>1. PICK s : s \in TimeOrders(M) /\ a = First(s, l)  BY <1>3, <1>7 DEF DynamoLists, ScanOrders
  <2>2. Enumerates(s, M) /\ Ordered(s)  BY <2>1, ProcessesTimed, TimeOrdersAre
  <2>3. PICK R : R = Range(a)  OBVIOUS
  <2>4. /\ R \in SUBSET M /\ a \in Seq(M) /\ Distinct(a)
        /\ \A i \in DOMAIN a : i \in DOMAIN s /\ a[i] = s[i]
        /\ Cardinality(M) <= l => R = M
    BY <1>5, <2>1, <2>2, <2>3
  <2>5. Ordered(a)  BY <2>2, <2>4 DEF Ordered
  <2>6. a \in Seq(R)
    <3>1. DOMAIN a = 1 .. Len(a) /\ Len(a) \in Nat  BY <2>4, LenProperties
    <3>2. \A i \in 1 .. Len(a) : a[i] \in R  BY <2>3, <3>1 DEF Range
    <3>3. QED  BY <2>4, <3>1, <3>2, SeqDef
  <2>7. Enumerates(a, R)  BY <2>3, <2>4, <2>6 DEF Enumerates
  <2>8. QED  BY <1>1, <1>2, <1>3, <2>4, <2>5, <2>7 DEF Answered
<1>8. QED  BY <1>1, <1>2, <1>6, <1>7 DEF Answers

-----------------------------------------------------------------------------
(* Processes.                                                               *)

\* The events of an answer with the elements R that belong to one process.
Members(R, key) == {i \in R : KeyOf(i) = key}

Count(M, name) == Cardinality({i \in M : stored[i].name = name})

Finished(M) == Count(M, "completed") + Count(M, "failed") + Count(M, "stopped")

\* How many steps the events M of a process say or suggest it has.
Expected(M) ==
    LET total == Max({stored[i].total : i \in M})
    IN  IF total # 0 THEN total
        ELSE Max({stored[i].index : i \in M} \cup {Finished(M), 1})

\* What there is to know about a process from its events.
IsProcess(p, key, M) ==
    /\ p.id = key /\ Enumerates(p.events, M) /\ Ordered(p.events)
    /\ p.workflow = LastWorkflow(p.events) /\ p.tagged = LastTagged(p.events)
    /\ p.completed = Count(M, "completed") /\ p.failed = Count(M, "failed")
    /\ p.stopped = Count(M, "stopped")
    /\ p.expected = Expected(M)
    /\ p.remaining = Max({Expected(M) - Finished(M), 0})
    /\ p.status = StatusOf(Count(M, "completed"), Count(M, "failed"), Count(M, "stopped"), Expected(M))
    /\ p.startedAt = Min({stored[i].ts : i \in M}) /\ p.updatedAt = Max({stored[i].ts : i \in M})

\* How many events of a list have a name does not depend on its order.
LEMMA NamedCounts ==
    ASSUME NEW M, NEW s, Enumerates(s, M), NEW name
    PROVE  Named(s, name) = Count(M, name)
<1>1. Range(s) = M  BY DEF Enumerates
<1>2. PICK T : T = {i \in M : stored[i].name = name}  OBVIOUS
<1>3. M \cap T = T  BY <1>2
<1>4. Len(Filter(s, T)) = Cardinality(M \cap T)  BY FilterEnumerates
<1>5. QED  BY <1>1, <1>2, <1>3, <1>4 DEF Named, Count

\* The process grouped from an answer, said from the set of its events.
LEMMA ProcessIs ==
    ASSUME NEW R, NEW a, Enumerates(a, R), Ordered(a), NEW key
    PROVE  IsProcess(Process(a, key), key, Members(R, key))
<1>1. PICK M : M = Members(R, key)  OBVIOUS
<1>2. Range(a) = R  BY DEF Enumerates
<1>3. PICK s : s = Filter(a, {i \in Range(a) : KeyOf(i) = key})  OBVIOUS
<1>4. s = Filter(a, M) /\ R \cap M = M  BY <1>1, <1>2, <1>3 DEF Members
<1>5. Enumerates(s, M) /\ Ordered(s)
  <2>1. Enumerates(s, R \cap M) /\ Ordered(s)  BY <1>4, FilterEnumerates
  <2>2. QED  BY <1>4, <2>1
<1>6. Range(s) = M  BY <1>5 DEF Enumerates
<1>7. /\ Named(s, "completed") = Count(M, "completed") /\ Named(s, "failed") = Count(M, "failed")
      /\ Named(s, "stopped") = Count(M, "stopped")
  BY <1>5, NamedCounts
<1>8. PICK total : total = TotalSteps(s) /\ total = Max({stored[i].total : i \in M})
  BY <1>6 DEF TotalSteps
<1>9. PICK finished : /\ finished = Named(s, "completed") + Named(s, "failed") + Named(s, "stopped")
                      /\ finished = Finished(M)
  BY <1>7 DEF Finished
<1>10. InferExpectedSteps(s, finished) = Max({stored[i].index : i \in M} \cup {finished, 1})
  BY <1>6 DEF InferExpectedSteps
<1>11. PICK expected : /\ expected = IF total # 0 THEN total ELSE InferExpectedSteps(s, finished)
                       /\ expected = Expected(M)
  BY <1>8, <1>9, <1>10 DEF Expected
<1>12. PICK times : times = {stored[i].ts : i \in Range(s)} /\ times = {stored[i].ts : i \in M}
  BY <1>6
<1>13. PICK p : p = Process(a, key)  OBVIOUS
<1>14. p = [id |-> key, events |-> s,
            workflow |-> LastWorkflow(s), tagged |-> LastTagged(s),
            completed |-> Named(s, "completed"), failed |-> Named(s, "failed"),
            stopped |-> Named(s, "stopped"),
            expected |-> expected, remaining |-> Max({expected - finished, 0}),
            status |-> StatusOf(Named(s, "completed"), Named(s, "failed"), Named(s, "stopped"), expected),
            startedAt |-> Min(times), updatedAt |-> Max(times)]
  BY <1>3, <1>8, <1>9, <1>11, <1>12, <1>13 DEF Process
<1>15. QED  BY <1>1, <1>5, <1>7, <1>9, <1>11, <1>12, <1>13, <1>14 DEF IsProcess

\* Two orders of the events of a process give the same counters, status and times.
LEMMA FactsSame ==
    ASSUME NEW M, NEW key, NEW p, NEW q, IsProcess(p, key, M), IsProcess(q, key, M)
    PROVE  Facts(p) = Facts(q)
<1>1. Range(p.events) = M /\ Range(q.events) = M  BY DEF IsProcess, Enumerates
<1>2. DOMAIN ProcessSteps(p) = {StepKey(i) : i \in M} /\ DOMAIN ProcessSteps(q) = {StepKey(i) : i \in M}
  BY <1>1 DEF ProcessSteps
<1>3. QED  BY <1>2 DEF Facts, IsProcess

\* The processes of an answer.
LEMMA GroupsAre ==
    ASSUME IStored, NEW R \in SUBSET DOMAIN stored, NEW a, Enumerates(a, R), Ordered(a)
    PROVE  /\ GroupProcessEvents(a) = {Process(a, KeyOf(i)) : i \in R}
           /\ UNION {Range(p.events) : p \in GroupProcessEvents(a)} = R
           /\ IsFiniteSet(GroupProcessEvents(a))
<1>1. Range(a) = R  BY DEF Enumerates
<1>2. PICK P : P = GroupProcessEvents(a)  OBVIOUS
<1>3. P = {Process(a, KeyOf(i)) : i \in R}  BY <1>1, <1>2 DEF GroupProcessEvents
<1>4. ASSUME NEW key  PROVE Range(Process(a, key).events) = Members(R, key)
  <2>1. IsProcess(Process(a, key), key, Members(R, key))  BY ProcessIs
  <2>2. QED  BY <2>1 DEF IsProcess, Enumerates
<1>5. \A i \in R : i \in Members(R, KeyOf(i))  BY DEF Members
<1>6. \A key : Members(R, key) \subseteq R  BY DEF Members
<1>7. UNION {Range(p.events) : p \in P} = R
  <2>1. ASSUME NEW i \in R  PROVE \E p \in P : i \in Range(p.events)
    BY <1>3, <1>4, <1>5
  <2>2. ASSUME NEW p \in P  PROVE Range(p.events) \subseteq R
    BY <1>3, <1>4, <1>6
  <2>3. QED  BY <2>1, <2>2
<1>8. IsFiniteSet(P)
  <2>1. PICK f : f = [i \in R |-> Process(a, KeyOf(i))]  OBVIOUS
  <2>2. IsFiniteSet(R)  BY MatchingFinite DEF IStored
  <2>3. f = [i \in R |-> f[i]] /\ P = {f[i] : i \in R}  BY <1>3, <2>1
  <2>4. QED  BY <2>2, <2>3, FiniteImage
<1>9. QED  BY <1>2, <1>3, <1>7, <1>8

\* The answers to a request for the list.
LEMMA ListAnswersAre ==
    ASSUME IStored, NEW w, NEW a \in ListAnswers(w)
    PROVE  \E R : Answered(a, R, Matching(Interval(w.from, w.to)), MostEvents)
<1>1. ServedLimit(ListLimit) = MostEvents /\ MostEvents \in Nat \ {0}
  BY ProcessesAssumption DEF ServedLimit
<1>2. QED  BY <1>1, AnswersAre DEF ListAnswers

\* An answer to the 24 hours of the chart, whose limit of 5000 becomes 200.
LEMMA ChartAnswersAre ==
    ASSUME IStored, NEW now, NEW a \in ChartAnswers(now)
    PROVE  \E R : Answered(a, R, Matching(Interval(now - Day, now)), DefaultEvents)
<1>1. ServedLimit(ChartLimit) = DefaultEvents /\ DefaultEvents \in Nat \ {0}
  BY ProcessesAssumption DEF ServedLimit
<1>2. QED  BY <1>1, AnswersAre DEF ChartAnswers

-----------------------------------------------------------------------------
(* The order of an answer.                                                  *)

\* Two answers with the same events group into the same page.
LEMMA OrderHolds ==
    ASSUME IStored
    PROVE  SameWhateverOrder
<1>1. ASSUME NEW w, NEW x \in ListAnswers(w), NEW y \in ListAnswers(w)
      PROVE  Alike(GroupProcessEvents(x), GroupProcessEvents(y))
  <2>0. PICK a, b : a = GroupProcessEvents(x) /\ b = GroupProcessEvents(y)  OBVIOUS
  <2>01. SUFFICES ASSUME UNION {Range(p.events) : p \in a} = UNION {Range(p.events) : p \in b}
                  PROVE  /\ {Facts(p) : p \in a} = {Facts(p) : p \in b}
                         /\ \A p \in a, q \in b :
                               p.id = q.id /\ ~Simultaneous(p) => LastWord(p) = LastWord(q)
    BY <2>0 DEF Alike
  <2>1. PICK R : R \in SUBSET DOMAIN stored /\ Enumerates(x, R) /\ Ordered(x)
    BY ListAnswersAre DEF Answered
  <2>2. PICK Q : Q \in SUBSET DOMAIN stored /\ Enumerates(y, Q) /\ Ordered(y)
    BY ListAnswersAre DEF Answered
  <2>3. R = Q  BY <2>0, <2>01, <2>1, <2>2, GroupsAre
  <2>4. a = {Process(x, KeyOf(i)) : i \in R} /\ b = {Process(y, KeyOf(i)) : i \in R}
    BY <2>0, <2>1, <2>2, <2>3, GroupsAre
  <2>5. \A key : IsProcess(Process(x, key), key, Members(R, key)) /\ IsProcess(Process(y, key), key, Members(R, key))
    BY <2>1, <2>2, <2>3, ProcessIs
  <2>6. \A key : Facts(Process(x, key)) = Facts(Process(y, key))  BY <2>5, FactsSame
  <2>7. {Facts(p) : p \in a} = {Facts(p) : p \in b}  BY <2>4, <2>6
  <2>8. ASSUME NEW p \in a, NEW q \in b, p.id = q.id, ~Simultaneous(p)
        PROVE  LastWord(p) = LastWord(q)
    <3>1. PICK key : IsProcess(p, key, Members(R, key))  BY <2>4, <2>5
    <3>2. PICK key2 : IsProcess(q, key2, Members(R, key2))  BY <2>4, <2>5
    <3>3. key = key2  BY <2>8, <3>1, <3>2 DEF IsProcess
    <3>4. PICK M \in SUBSET DOMAIN stored : M = Members(R, key)  BY <2>1 DEF Members
    <3>5. /\ Enumerates(p.events, M) /\ Ordered(p.events)
          /\ Enumerates(q.events, M) /\ Ordered(q.events)
      BY <3>1, <3>2, <3>3, <3>4 DEF IsProcess
    <3>6. \A i, j \in M : stored[i].ts = stored[j].ts => i = j
      BY <2>8, <3>5 DEF Simultaneous, Enumerates
    <3>7. p.events = q.events  BY <3>5, <3>6, ProcessesTimed, OneOrder
    <3>8. p.workflow = q.workflow /\ p.tagged = q.tagged  BY <3>1, <3>2, <3>7 DEF IsProcess
    <3>9. ProcessSteps(p) = ProcessSteps(q)  BY <3>7 DEF ProcessSteps, Decided
    <3>10. QED  BY <3>8, <3>9 DEF LastWord
  <2>9. QED  BY <2>7, <2>8
<1>2. \A w : \A a, b \in {GroupProcessEvents(x) : x \in ListAnswers(w)} : Alike(a, b)
  BY <1>1
<1>3. QED  BY <1>2 DEF SameWhateverOrder

-----------------------------------------------------------------------------
(* The steps listed under a process and the counters above them.            *)

\* What is shown for a step: the status of one of the events that decide it.
LEMMA StepShows ==
    ASSUME IStored, NEW M \in SUBSET DOMAIN stored, NEW p, Enumerates(p.events, M), NEW k
    PROVE  /\ Decided(p, k) = {i \in M : StepKey(i) = k /\ stored[i].status \in Outcomes}
           /\ Decided(p, k) = {} =>
                 LastOf(Filter(p.events, Decided(p, k)), "status", "running") = "running"
           /\ Decided(p, k) # {} =>
                 \E i \in Decided(p, k) :
                    LastOf(Filter(p.events, Decided(p, k)), "status", "running") = stored[i].status
<1>1. PICK D : D = Decided(p, k)  OBVIOUS
<1>2. Range(p.events) = M  BY DEF Enumerates
<1>3. D = {i \in M : StepKey(i) = k /\ stored[i].status \in Outcomes}  BY <1>1, <1>2 DEF Decided
<1>4. PICK s : s = Filter(p.events, D)  OBVIOUS
<1>5. Enumerates(s, D)
  <2>1. M \cap D = D  BY <1>3
  <2>2. Enumerates(s, M \cap D)  BY <1>4, FilterEnumerates
  <2>3. QED  BY <2>1, <2>2
<1>6. s \in Seq(D) /\ DOMAIN s = 1 .. Len(s) /\ Len(s) \in Nat /\ Range(s) = D
  BY <1>5, LenProperties DEF Enumerates
<1>7. ASSUME D = {}  PROVE s = <<>>
  <2>1. \A i \in 1 .. Len(s) : s[i] \in D  BY <1>6 DEF Range
  <2>2. Len(s) = 0
    <3>1. CASE Len(s) > 0
      <4>1. 1 \in 1 .. Len(s)  BY <1>6, <3>1
      <4>2. QED  BY <1>7, <2>1, <4>1
    <3>2. QED  BY <1>6, <3>1
  <2>3. QED  BY <1>6, <2>2, EmptySeq
<1>8. ASSUME D # {}  PROVE s # <<>> /\ Last(s) \in D
  <2>1. PICK i \in DOMAIN s : TRUE  BY <1>6, <1>8 DEF Range
  <2>2. Len(s) \in 1 .. Len(s)  BY <1>6, <2>1
  <2>3. s[Len(s)] \in D  BY <1>6, <2>2 DEF Range
  <2>4. s # <<>>
    <3>1. ASSUME s = <<>>  PROVE FALSE
      <4>1. Len(s) = 0  BY <3>1, EmptySeq
      <4>2. QED  BY <1>6, <2>2, <4>1
    <3>2. QED  BY <3>1
  <2>5. QED  BY <2>3, <2>4 DEF Last
<1>9. QED  BY <1>1, <1>3, <1>4, <1>7, <1>8 DEF LastOf

\* The members of a process that have one name, and the steps with one outcome.
LEMMA ShownCount ==
    ASSUME IStored, NEW M \in SUBSET DOMAIN stored, NEW p, Enumerates(p.events, M),
           NEW o \in Outcomes, NEW name, \A i \in M : stored[i].status = o <=> stored[i].name = name
    PROVE  /\ IsFiniteSet(Shown(p, o)) /\ Cardinality(Shown(p, o)) <= Count(M, name)
           /\ Shown(p, o) \subseteq {StepKey(i) : i \in M}
           /\ DOMAIN ProcessSteps(p) = {StepKey(i) : i \in M}
           /\ OncePerStep(p) => Cardinality(Shown(p, o)) = Count(M, name)
<1>1. PICK T \in SUBSET M : T = {i \in M : stored[i].name = name}  OBVIOUS
<1>2. PICK S : S = Shown(p, o)  OBVIOUS
<1>3. PICK K : K = {StepKey(i) : i \in M}  OBVIOUS
<1>4. Range(p.events) = M  BY DEF Enumerates
<1>5. /\ DOMAIN ProcessSteps(p) = K
      /\ \A k \in K : ProcessSteps(p)[k] = LastOf(Filter(p.events, Decided(p, k)), "status", "running")
  BY <1>3, <1>4 DEF ProcessSteps
<1>6. S \subseteq K /\ \A k \in K : k \in S <=> ProcessSteps(p)[k] = o  BY <1>2, <1>5 DEF Shown
<1>7. \A i \in M : i \in T <=> stored[i].status = o  BY <1>1
<1>8. o # "running"  BY DEF Outcomes
<1>9. IsFiniteSet(T) /\ Cardinality(T) \in Nat /\ IsFiniteSet(M)  BY MatchingFinite DEF IStored
<1>10. PICK f : f = [i \in T |-> StepKey(i)]  OBVIOUS
<1>11. \A k \in K : Decided(p, k) = {i \in M : StepKey(i) = k /\ stored[i].status \in Outcomes}
  BY StepShows
<1>12. ASSUME NEW k \in S  PROVE \E i \in T : k = f[i]
  <2>1. k \in K /\ LastOf(Filter(p.events, Decided(p, k)), "status", "running") = o  BY <1>5, <1>6
  <2>2. PICK i \in Decided(p, k) : stored[i].status = o  BY <1>8, <2>1, StepShows
  <2>3. i \in M /\ StepKey(i) = k  BY <1>11, <2>1, <2>2
  <2>4. QED  BY <1>7, <1>10, <2>2, <2>3
<1>13. PICK H : H = {f[i] : i \in T}  OBVIOUS
<1>14. IsFiniteSet(H) /\ Cardinality(H) <= Cardinality(T) /\ Cardinality(H) \in Nat
  <2>1. f = [i \in T |-> f[i]]  BY <1>10
  <2>2. QED  BY <1>9, <1>13, <2>1, FiniteImage, FS_CardinalityType
<1>15. S \subseteq H  BY <1>12, <1>13
<1>16. IsFiniteSet(S) /\ Cardinality(S) <= Cardinality(T) /\ Cardinality(S) \in Nat
  <2>1. IsFiniteSet(S) /\ Cardinality(S) <= Cardinality(H)  BY <1>14, <1>15, FS_Subset
  <2>2. QED  BY <1>9, <1>14, <2>1, FS_CardinalityType
<1>17. ASSUME OncePerStep(p)  PROVE Cardinality(S) = Cardinality(T)
  <2>1. \A k \in K : Cardinality(Decided(p, k)) <= 1  BY <1>5, <1>17 DEF OncePerStep
  <2>2. ASSUME NEW k \in K, NEW i \in Decided(p, k), NEW j \in Decided(p, k)  PROVE i = j
    <3>1. PICK D : D = Decided(p, k)  OBVIOUS
    <3>2. D \in SUBSET M  BY <1>11, <3>1
    <3>3. IsFiniteSet(D) /\ Cardinality(D) \in Nat  BY <1>9, <3>2, FS_Subset, FS_CardinalityType
    <3>4. Cardinality(D \ {i}) = Cardinality(D) - 1  BY <3>1, <3>3, FS_RemoveElement
    <3>5. IsFiniteSet(D \ {i}) /\ Cardinality(D \ {i}) \in Nat
      BY <3>3, FS_Subset, FS_CardinalityType
    <3>6. Cardinality(D \ {i}) = 0  BY <2>1, <3>1, <3>3, <3>4, <3>5
    <3>7. D \ {i} = {}  BY <3>5, <3>6, FS_EmptySet
    <3>8. QED  BY <3>1, <3>7
  <2>3. ASSUME NEW i \in T  PROVE f[i] \in S /\ i \in Decided(p, f[i]) /\ f[i] \in K
    <3>1. f[i] = StepKey(i) /\ f[i] \in K /\ stored[i].status = o  BY <1>3, <1>7, <1>10
    <3>2. i \in Decided(p, f[i])  BY <1>11, <3>1
    <3>3. PICK j \in Decided(p, f[i]) :
             LastOf(Filter(p.events, Decided(p, f[i])), "status", "running") = stored[j].status
      BY <3>2, StepShows
    <3>4. j = i  BY <2>2, <3>1, <3>2
    <3>5. QED  BY <1>5, <1>6, <3>1, <3>2, <3>3, <3>4
  <2>4. \A i, j \in T : f[i] = f[j] => i = j  BY <2>2, <2>3
  <2>5. f \in Bijection(T, S)
    <3>1. f \in [T -> S]  BY <1>10, <2>3
    <3>2. QED  BY <1>12, <2>4, <3>1 DEF Bijection, Injection, Surjection, IsInjective
  <2>6. QED  BY <1>9, <2>5, FS_Bijection DEF ExistsBijection
<1>18. Count(M, name) = Cardinality(T)  BY <1>1 DEF Count
<1>19. QED  BY <1>2, <1>3, <1>5, <1>6, <1>16, <1>17, <1>18

\* The steps shown and the counters of a process whose events are consistent.
LEMMA ProcessStepsMatch ==
    ASSUME IStored, NEW M \in SUBSET DOMAIN stored, M # {}, NEW p, NEW key, IsProcess(p, key, M),
           Consistent(p)
    PROVE  StepsMatch(p)
<1>1. Enumerates(p.events, M) /\ Range(p.events) = M  BY DEF IsProcess, Enumerates
<1>2. /\ \A i \in M : stored[i].status = "success" <=> stored[i].name = "completed"
      /\ \A i \in M : stored[i].status = "failed" <=> stored[i].name = "failed"
      /\ \A i \in M : stored[i].status = "stopped" <=> stored[i].name = "stopped"
  BY <1>1 DEF Consistent
<1>3. "success" \in Outcomes /\ "failed" \in Outcomes /\ "stopped" \in Outcomes  BY DEF Outcomes
<1>4. PICK c, f, s : /\ c = Count(M, "completed") /\ f = Count(M, "failed")
                     /\ s = Count(M, "stopped")
  OBVIOUS
<1>5. c \in Nat /\ f \in Nat /\ s \in Nat
  <2>1. \A name : {i \in M : stored[i].name = name} \in SUBSET DOMAIN stored  OBVIOUS
  <2>2. QED  BY <1>4, <2>1, MatchingFinite DEF Count, IStored
<1>6. p.completed = c /\ p.failed = f /\ p.stopped = s  BY <1>4 DEF IsProcess
<1>7. /\ Cardinality(Shown(p, "success")) <= c /\ Cardinality(Shown(p, "failed")) <= f
      /\ Cardinality(Shown(p, "stopped")) <= s
  BY <1>1, <1>2, <1>3, <1>4, ShownCount
<1>8. ASSUME OncePerStep(p)
      PROVE  /\ Cardinality(Shown(p, "success")) = c /\ Cardinality(Shown(p, "failed")) = f
             /\ Cardinality(Shown(p, "stopped")) = s
  BY <1>1, <1>2, <1>3, <1>4, <1>8, ShownCount
<1>90. PICK K : K = {StepKey(i) : i \in M}  OBVIOUS
<1>91. Shown(p, "success") \subseteq K  BY <1>1, <1>2, <1>3, <1>90, ShownCount
<1>92. IsFiniteSet(Shown(p, "success"))  BY <1>1, <1>2, <1>3, ShownCount
<1>93. DOMAIN ProcessSteps(p) = K  BY <1>1, <1>90 DEF ProcessSteps
<1>9. /\ K = DOMAIN ProcessSteps(p) /\ K = {StepKey(i) : i \in M}
      /\ IsFiniteSet(Shown(p, "success")) /\ Shown(p, "success") \subseteq K
  BY <1>90, <1>91, <1>92, <1>93
<1>10. ASSUME OncePerStep(p), Numbered(p), p.status = "completed"
       PROVE  K = Shown(p, "success") /\ p.remaining = 0
  <2>1. PICK N : N = Expected(M) /\ p.remaining = Max({N - Finished(M), 0})
                 /\ p.status = StatusOf(c, f, s, N)
    BY <1>4 DEF IsProcess
  <2>2. Finished(M) = c + f + s  BY <1>4 DEF Finished
  <2>3. f = 0 /\ s = 0 /\ c >= N
    BY <1>5, <1>10, <2>1 DEF StatusOf
  <2>4. /\ \A i \in M : stored[i].index \in Nat /\ stored[i].total \in Nat /\ stored[i].index > 0
        /\ \A i, j \in M : stored[i].index = stored[j].index => StepKey(i) = StepKey(j)
        /\ \A i, j \in M : stored[j].total # 0 => stored[i].index <= TotalSteps(p.events)
    BY <1>1, <1>10, ProcessesTimed DEF Numbered
  <2>50. PICK totals : totals = {stored[i].total : i \in M}  OBVIOUS
  <2>60. PICK indexes : indexes = {stored[i].index : i \in M}  OBVIOUS
  <2>5. totals \in SUBSET Int /\ totals = {stored[i].total : i \in M}  BY <2>4, <2>50
  <2>6. indexes \in SUBSET Int /\ indexes = {stored[i].index : i \in M}  BY <2>4, <2>60
  <2>7. IsFiniteSet(M) /\ IsFiniteSet(totals) /\ IsFiniteSet(indexes) /\ totals # {}
    <3>1. IsFiniteSet(M)  BY MatchingFinite DEF IStored
    <3>2. PICK g : g = [i \in M |-> stored[i].total]  OBVIOUS
    <3>3. g = [i \in M |-> g[i]] /\ totals = {g[i] : i \in M}  BY <2>5, <3>2
    <3>4. PICK h : h = [i \in M |-> stored[i].index]  OBVIOUS
    <3>5. h = [i \in M |-> h[i]] /\ indexes = {h[i] : i \in M}  BY <2>6, <3>4
    <3>6. IsFiniteSet(totals)  BY <3>1, <3>3, FiniteImage
    <3>7. IsFiniteSet(indexes)  BY <3>1, <3>5, FiniteImage
    <3>8. QED  BY <2>5, <3>1, <3>6, <3>7
  <2>8. PICK t \in totals : t = Max(totals)  BY <2>7, MaxExists
  <2>9. N \in Nat /\ \A x \in indexes : x \in 1 .. N
    <3>1. CASE t # 0
      <4>1. N = t  BY <2>1, <2>5, <2>8, <3>1 DEF Expected
      <4>2. PICK j \in M : stored[j].total = t  BY <2>5
      <4>3. TotalSteps(p.events) = t  BY <1>1, <2>5, <2>8 DEF TotalSteps
      <4>4. t \in Nat /\ \A i \in M : stored[i].index <= t  BY <2>4, <3>1, <4>2, <4>3
      <4>5. QED  BY <2>4, <2>6, <4>1, <4>4
    <3>2. CASE t = 0
      <4>1. PICK U : U = indexes \cup {Finished(M), 1}  OBVIOUS
      <4>2. N = Max(U)  BY <2>1, <2>5, <2>6, <2>8, <3>2, <4>1 DEF Expected
      <4>3. U \in SUBSET Int /\ U # {} /\ 1 \in U /\ \A x \in indexes : x \in U
        BY <1>5, <2>2, <2>6, <4>1
      <4>4. IsFiniteSet(U)
        <5>1. PICK V : V = indexes \cup {Finished(M)}  OBVIOUS
        <5>2. IsFiniteSet(V)  BY <2>7, <5>1, FS_AddElement
        <5>3. IsFiniteSet(V \cup {1})  BY <5>2, FS_AddElement
        <5>4. U = V \cup {1}  BY <4>1, <5>1
        <5>5. QED  BY <5>3, <5>4
      <4>5. N \in U /\ \A x \in U : N >= x  BY <4>2, <4>3, <4>4, MaxExists
      <4>6. \A x \in indexes : x \in Nat /\ x > 0  BY <2>4, <2>6
      <4>7. N \in Int /\ N >= 1  BY <4>3, <4>5
      <4>8. QED  BY <4>3, <4>5, <4>6, <4>7
    <3>3. QED  BY <3>1, <3>2
  <2>10. IsFiniteSet(indexes) /\ Cardinality(indexes) <= N
    <3>1. indexes \subseteq 1 .. N  BY <2>9
    <3>2. IsFiniteSet(1 .. N) /\ Cardinality(1 .. N) = N  BY <2>9, FS_Interval
    <3>3. QED  BY <3>1, <3>2, FS_Subset
  <2>11. IsFiniteSet(K) /\ Cardinality(K) <= Cardinality(indexes)
    <3>1. PICK h : h = [x \in indexes |-> StepKey(CHOOSE i \in M : stored[i].index = x)]  OBVIOUS
    <3>2. ASSUME NEW i \in M  PROVE stored[i].index \in indexes /\ h[stored[i].index] = StepKey(i)
      <4>1. stored[i].index \in indexes  BY <2>6
      <4>2. PICK j : j = CHOOSE l \in M : stored[l].index = stored[i].index  OBVIOUS
      <4>3. j \in M /\ stored[j].index = stored[i].index  BY <4>2
      <4>4. StepKey(j) = StepKey(i)  BY <2>4, <4>3
      <4>5. QED  BY <3>1, <4>1, <4>2, <4>4
    <3>3. PICK H : H = {h[x] : x \in indexes}  OBVIOUS
    <3>4. H = K
      <4>1. \A x \in indexes : \E i \in M : x = stored[i].index  BY <2>6
      <4>2. \A k : k \in K <=> \E i \in M : k = StepKey(i)  BY <1>9
      <4>3. \A k : k \in H <=> \E x \in indexes : k = h[x]  BY <3>3
      <4>4. H \subseteq K  BY <3>2, <4>1, <4>2, <4>3
      <4>5. K \subseteq H  BY <3>2, <4>2, <4>3
      <4>6. QED  BY <4>4, <4>5
    <3>5. h = [x \in indexes |-> h[x]]  BY <3>1
    <3>6. IsFiniteSet(H) /\ Cardinality(H) <= Cardinality(indexes)  BY <2>7, <3>3, <3>5, FiniteImage
    <3>7. QED  BY <3>4, <3>6
  <2>12. PICK S : S = Shown(p, "success")  OBVIOUS
  <2>13. Cardinality(S) = c /\ S \subseteq K  BY <1>8, <1>9, <1>10, <2>12
  <2>14. Cardinality(K) \in Nat /\ Cardinality(indexes) \in Nat
    BY <2>10, <2>11, FS_CardinalityType
  <2>15. Cardinality(K) <= c  BY <1>5, <2>3, <2>9, <2>10, <2>11, <2>14
  <2>16. Cardinality(S) <= Cardinality(K)  BY <2>11, <2>13, FS_Subset
  <2>17. Cardinality(S) = Cardinality(K)  BY <1>5, <2>13, <2>14, <2>15, <2>16
  <2>18. S = K  BY <2>11, <2>13, <2>17, FS_Subset
  <2>19. p.remaining = 0
    <3>1. PICK d \in Int : d = N - Finished(M) /\ d <= 0  BY <1>5, <2>2, <2>3, <2>9
    <3>2. PICK D : D = {d, 0}  OBVIOUS
    <3>3. D \in SUBSET Int /\ 0 \in D /\ \A x \in D : 0 >= x  BY <3>1, <3>2
    <3>4. Max(D) = 0  BY <3>3, MaxIs
    <3>5. QED  BY <2>1, <3>1, <3>2, <3>4
  <2>20. QED  BY <2>12, <2>18, <2>19
<1>11. QED  BY <1>3, <1>6, <1>7, <1>8, <1>9, <1>10 DEF StepsMatch

\* The same for every process of every answer.
LEMMA StepsHold ==
    ASSUME IStored
    PROVE  StepsMatchCounters
<1>1. ASSUME NEW w, NEW a \in ListAnswers(w), NEW p \in GroupProcessEvents(a),
             Consistent(p)
      PROVE  StepsMatch(p)
  <2>1. PICK R : R \in SUBSET DOMAIN stored /\ Enumerates(a, R) /\ Ordered(a)
    BY ListAnswersAre DEF Answered
  <2>2. PICK i \in R : p = Process(a, KeyOf(i))  BY <2>1, GroupsAre
  <2>3. PICK M : M = Members(R, KeyOf(i))  OBVIOUS
  <2>4. IsProcess(p, KeyOf(i), M)  BY <2>1, <2>2, <2>3, ProcessIs
  <2>5. i \in M /\ M \in SUBSET DOMAIN stored  BY <2>1, <2>3 DEF Members
  <2>6. QED  BY <1>1, <2>4, <2>5, ProcessStepsMatch
<1>2. \A P \in Listed : \E w : \E a \in ListAnswers(w) : P = GroupProcessEvents(a)  BY DEF Listed
<1>3. QED  BY <1>1, <1>2 DEF StepsMatchCounters

-----------------------------------------------------------------------------
(* Series.                                                                  *)

\* A quotient is at least q when the dividend has q divisors in it.
LEMMA DivAtLeast ==
    ASSUME NEW a \in Int, NEW b \in Nat \ {0}, NEW q \in Int
    PROVE  a \div b >= q <=> a >= q * b
<1>1. PICK p \in Int : p = a \div b /\ p * b <= a /\ a < p * b + b  BY DivRange
<1>2. ASSUME p >= q  PROVE a >= q * b
  <2>1. PICK d \in Nat : p = q + d
    <3>1. p - q \in Nat /\ p = q + (p - q)  BY <1>2
    <3>2. QED  BY <3>1
  <2>2. p * b = q * b + d * b /\ d * b >= 0  BY <2>1
  <2>3. QED  BY <1>1, <2>2
<1>3. ASSUME p < q  PROVE a < q * b
  <2>1. PICK d \in Nat : q = p + 1 + d
    <3>1. q - p - 1 \in Nat /\ q = p + 1 + (q - p - 1)  BY <1>3
    <3>2. QED  BY <3>1
  <2>2. q * b = p * b + b + d * b /\ d * b >= 0  BY <2>1
  <2>3. QED  BY <1>1, <2>2
<1>4. QED  BY <1>1, <1>2, <1>3

\* Quotients grow with the dividend.
LEMMA DivGrows ==
    ASSUME NEW a \in Int, NEW c \in Int, a <= c, NEW b \in Nat \ {0}
    PROVE  a \div b <= c \div b
<1>1. PICK q \in Int : q = a \div b /\ q * b <= a  BY DivRange
<1>2. PICK r \in Int : r = c \div b  BY DivRange
<1>3. q * b <= c  BY <1>1
<1>4. c \div b >= q  BY <1>1, <1>3, DivAtLeast
<1>5. QED  BY <1>1, <1>2, <1>4

\* c counts, for each of the keys K, the elements of P that f sends there.
Counts(c, K, P, f) == c = [k \in K |-> Cardinality({p \in P : f[p] = k})]

\* Such counts add up to the number of elements f sends into K.
LEMMA SumCounts ==
    ASSUME NEW P, IsFiniteSet(P), NEW K, IsFiniteSet(K), NEW f, NEW c, Counts(c, K, P, f)
    PROVE  SumOf(c) = Cardinality({p \in P : f[p] \in K})
<1>. DEFINE Having(k) == {p \in P : f[p] = k}
            Among(S) == {p \in P : f[p] \in S}
            T == {S \in SUBSET K : SumOver(c, S) = Cardinality(Among(S))}
<1>1. DOMAIN c = K /\ \A k \in K : c[k] = Cardinality(Having(k))  BY DEF Counts
<1>2. /\ \A k : IsFiniteSet(Having(k)) /\ Cardinality(Having(k)) \in Nat
      /\ \A S : IsFiniteSet(Among(S)) /\ Cardinality(Among(S)) \in Nat
  <2>1. /\ \A k : Having(k) \in SUBSET P
        /\ \A S : Among(S) \in SUBSET P
    OBVIOUS
  <2>2. \A Q \in SUBSET P : IsFiniteSet(Q) /\ Cardinality(Q) \in Nat  BY FS_Subset, FS_CardinalityType
  <2>. HIDE DEF Having, Among
  <2>3. QED  BY <2>1, <2>2
<1>3. \A k \in K : c[k] \in Int
  <2>. HIDE DEF Having
  <2>1. QED  BY <1>1, <1>2
<1>4. /\ SumOver(c, {}) = 0
      /\ \A S \in SUBSET K : \A x \in K \ S : SumOver(c, S \cup {x}) = SumOver(c, S) + c[x]
  BY <1>3, SumProperties
<1>5. {} \in T
  <2>1. Among({}) = {}  OBVIOUS
  <2>2. Cardinality(Among({})) = 0  BY <2>1, FS_EmptySet, Zenon
  <2>. HIDE DEF Among
  <2>3. QED  BY <1>4, <2>2
<1>6. ASSUME NEW S \in SUBSET K, NEW x \in K \ S, S \in T  PROVE S \cup {x} \in T
  <2>1. Among(S \cup {x}) = Among(S) \cup Having(x) /\ Among(S) \cap Having(x) = {}  BY <1>6
  <2>. HIDE DEF Among, Having
  <2>2. Cardinality(Among(S) \cup Having(x)) = Cardinality(Among(S)) + Cardinality(Having(x))
    <3>1. Cardinality(Among(S) \cup Having(x))
            = Cardinality(Among(S)) + Cardinality(Having(x)) - Cardinality(Among(S) \cap Having(x))
      BY <1>2, FS_Union
    <3>2. Cardinality(Among(S) \cap Having(x)) = 0  BY <2>1, FS_EmptySet
    <3>3. QED  BY <1>2, <3>1, <3>2
  <2>3. SumOver(c, S \cup {x}) = SumOver(c, S) + c[x]  BY <1>4, <1>6
  <2>4. QED  BY <1>1, <1>6, <2>1, <2>2, <2>3
<1>7. K \in T
  <2>. HIDE DEF T
  <2>1. QED  BY <1>5, <1>6, Elementwise
<1>8. QED  BY <1>1, <1>7 DEF SumOf

-----------------------------------------------------------------------------
(* Lists of processes, and their series.                                    *)

\* The ends of the interval of a page.
LEMMA IntervalIs ==
    ASSUME NEW from, NEW to
    PROVE  Interval(from, to).from = from /\ Interval(from, to).to = to
<1>1. ASSUME NEW n, NEW s, NEW x, NEW y, NEW f, f = [name |-> n, source |-> s, from |-> x, to |-> y]
      PROVE  f.from = x /\ f.to = y
  BY <1>1
<1>2. PICK f : f = Interval(from, to)  OBVIOUS
<1>3. \E n, s : f = [name |-> n, source |-> s, from |-> from, to |-> to]  BY <1>2, Zenon DEF Interval
<1>4. f.from = from /\ f.to = to  BY <1>1, <1>3
<1>5. QED  BY <1>2, <1>4

\* The processes of an answer: when they began, how they stand, which they are.
LEMMA PageProcesses ==
    ASSUME IStored, NEW from \in Int, NEW to \in Int, NEW a, NEW R, NEW limit,
           Answered(a, R, Matching(Interval(from, to)), limit)
    PROVE  /\ IsFiniteSet(GroupProcessEvents(a))
           /\ \A p \in GroupProcessEvents(a) :
                 p.status \in Statuses /\ p.startedAt \in Int /\ p.startedAt <= to
           /\ ProcessIds(GroupProcessEvents(a)) = {KeyOf(i) : i \in R}
<1>1. PICK f : f = Interval(from, to) /\ f.from = from /\ f.to = to  BY IntervalIs
<1>2. R \in SUBSET Matching(f) /\ R \in SUBSET DOMAIN stored /\ Enumerates(a, R) /\ Ordered(a)
  BY <1>1 DEF Answered
<1>3. PICK P : P = GroupProcessEvents(a)  OBVIOUS
<1>4. IsFiniteSet(P)  BY <1>2, <1>3, GroupsAre
<1>5. P = {Process(a, KeyOf(i)) : i \in R}  BY <1>2, <1>3, GroupsAre
<1>6. ASSUME NEW i \in R, NEW p, p = Process(a, KeyOf(i))
      PROVE  /\ p.id = KeyOf(i) /\ p.status \in Statuses
             /\ p.startedAt \in Int /\ p.startedAt <= to
  <2>1. PICK M : M = Members(R, KeyOf(i))  OBVIOUS
  <2>2. IsProcess(p, KeyOf(i), M)  BY <1>2, <1>6, <2>1, ProcessIs
  <2>3. i \in M /\ M \in SUBSET R /\ M \in SUBSET DOMAIN stored  BY <1>2, <2>1 DEF Members
  <2>4. p.status \in Statuses
    <3>1. \A c, g, s, n : StatusOf(c, g, s, n) \in Statuses  BY Zenon DEF StatusOf, Statuses
    <3>2. QED  BY <2>2, <3>1 DEF IsProcess
  <2>5. \A j \in M : stored[j].ts \in Int /\ stored[j].ts <= to
    BY <1>1, <1>2, <2>3, ProcessesTimed DEF Matching, Selected
  <2>6. PICK times : times = {stored[j].ts : j \in M}  OBVIOUS
  <2>7. times \in SUBSET Int /\ times # {} /\ \A t \in times : t <= to  BY <2>3, <2>5, <2>6
  <2>8. IsFiniteSet(times)
    <3>1. PICK h : h = [j \in M |-> stored[j].ts]  OBVIOUS
    <3>2. h = [j \in M |-> h[j]] /\ times = {h[j] : j \in M}  BY <2>6, <3>1
    <3>3. IsFiniteSet(M)  BY <2>3, MatchingFinite DEF IStored
    <3>4. QED  BY <3>2, <3>3, FiniteImage
  <2>9. Min(times) \in times  BY <2>7, <2>8, MinExists
  <2>10. p.startedAt = Min(times)  BY <2>2, <2>6 DEF IsProcess
  <2>11. p.startedAt \in Int /\ p.startedAt <= to  BY <2>7, <2>9, <2>10
  <2>12. p.id = KeyOf(i)  BY <2>2 DEF IsProcess
  <2>13. QED  BY <2>4, <2>11, <2>12
<1>7. \A p \in P : \E i \in R : p = Process(a, KeyOf(i))  BY <1>5
<1>8. \A p \in P : p.status \in Statuses /\ p.startedAt \in Int /\ p.startedAt <= to
  BY <1>6, <1>7
<1>9. ProcessIds(P) = {KeyOf(i) : i \in R}
  <2>1. \A x : x \in ProcessIds(P) <=> \E p \in P : x = p.id  BY DEF ProcessIds
  <2>2. \A p : p \in P <=> \E i \in R : p = Process(a, KeyOf(i))  BY <1>5
  <2>3. \A x : x \in ProcessIds(P) <=> \E i \in R : x = KeyOf(i)  BY <1>6, <2>1, <2>2
  <2>4. QED  BY <2>3
<1>10. QED  BY <1>3, <1>4, <1>8, <1>9

-----------------------------------------------------------------------------
(* What the series count.                                                   *)

\* Every process has one of the four statuses.
LEMMA StatusSeriesCounts ==
    ASSUME NEW P, IsFiniteSet(P), \A p \in P : p.status \in Statuses
    PROVE  SumOf(StatusSeries(P)) = Cardinality(P)
<1>1. PICK f : f = [p \in P |-> p.status]  OBVIOUS
<1>2. PICK c : c = StatusSeries(P)  OBVIOUS
<1>3. PICK K : K = Statuses  OBVIOUS
<1>4. IsFiniteSet(K)
  <2>1. K = {"completed", "failed", "stopped", "running"}  BY <1>3 DEF Statuses
  <2>2. PICK A : A = {"completed", "failed"} /\ IsFiniteSet(A)
    <3>1. IsFiniteSet({"completed"})  BY FS_Singleton
    <3>2. IsFiniteSet({"completed"} \cup {"failed"})  BY <3>1, FS_AddElement
    <3>3. {"completed"} \cup {"failed"} = {"completed", "failed"}  OBVIOUS
    <3>4. QED  BY <3>2, <3>3
  <2>3. PICK B : B = A \cup {"stopped"} /\ IsFiniteSet(B)  BY <2>2, FS_AddElement
  <2>4. IsFiniteSet(B \cup {"running"})  BY <2>3, FS_AddElement
  <2>5. B \cup {"running"} = K  BY <2>1, <2>2, <2>3
  <2>6. QED  BY <2>4, <2>5
<1>5. Counts(c, K, P, f)
  <2>1. \A k : {p \in P : p.status = k} = {p \in P : f[p] = k}  BY <1>1
  <2>2. c = [k \in K |-> Cardinality({p \in P : p.status = k})]  BY <1>2, <1>3 DEF StatusSeries
  <2>3. QED  BY <2>1, <2>2 DEF Counts
<1>6. SumOf(c) = Cardinality({p \in P : f[p] \in K})  BY <1>4, <1>5, SumCounts
<1>7. {p \in P : f[p] \in K} = P  BY <1>1, <1>3
<1>8. QED  BY <1>2, <1>6, <1>7

\* Every process is in the row of its value.
LEMMA TopRowsCount ==
    ASSUME NEW P, IsFiniteSet(P), NEW key
    PROVE  SumOf(TopRows(P, key)) = Cardinality(P)
<1>1. PICK f : f = [p \in P |-> Or(SearchField(p, key), "-")]  OBVIOUS
<1>2. PICK c : c = TopRows(P, key)  OBVIOUS
<1>3. PICK K : K = {f[p] : p \in P}  OBVIOUS
<1>4. IsFiniteSet(K)
  <2>1. f = [p \in P |-> f[p]]  BY <1>1
  <2>2. QED  BY <1>3, <2>1, FiniteImage
<1>5. Counts(c, K, P, f)
  <2>1. PICK H : H = {Or(SearchField(p, key), "-") : p \in P}  OBVIOUS
  <2>2. c = [k \in H |-> Cardinality({p \in P : Or(SearchField(p, key), "-") = k})]
    BY <1>2, <2>1 DEF TopRows
  <2>3. \A k : {p \in P : Or(SearchField(p, key), "-") = k} = {p \in P : f[p] = k}  BY <1>1
  <2>4. H = K  BY <1>1, <1>3, <2>1
  <2>5. QED  BY <2>2, <2>3, <2>4 DEF Counts
<1>6. SumOf(c) = Cardinality({p \in P : f[p] \in K})  BY <1>4, <1>5, SumCounts
<1>7. {p \in P : f[p] \in K} = P  BY <1>3
<1>8. QED  BY <1>2, <1>6, <1>7

\* The buckets of a window hold what began in it, and nothing that began before
\* it or a whole bucket after it.
LEMMA TimeBucketsCount ==
    ASSUME NEW P, IsFiniteSet(P), NEW from \in Int, NEW to \in Int, NEW seconds \in Int,
           \A p \in P : p.startedAt \in Int
    PROVE  LET sum == SumOf(TimeBuckets(P, seconds, from, to))
           IN  /\ Began(P, from, to) <= sum
               /\ sum <= Began(P, from, to + Max({Minute, seconds}) - 1)
<1>1. PICK size \in Nat \ {0} : size = Max({Minute, seconds})
  <2>1. PICK S : S = {Minute, seconds}  OBVIOUS
  <2>2. Minute \in Nat /\ Minute > 0  BY ProcessesAssumption
  <2>3. S \in SUBSET Int /\ S # {} /\ Minute \in S  BY <2>1, <2>2
  <2>4. IsFiniteSet(S)
    <3>1. IsFiniteSet({Minute})  BY FS_Singleton
    <3>2. IsFiniteSet({Minute} \cup {seconds})  BY <3>1, FS_AddElement
    <3>3. {Minute} \cup {seconds} = S  BY <2>1
    <3>4. QED  BY <3>2, <3>3
  <2>5. Max(S) \in S /\ \A x \in S : Max(S) >= x  BY <2>3, <2>4, MaxExists
  <2>6. Max(S) \in Int /\ Max(S) >= Minute  BY <2>3, <2>5
  <2>7. Max(S) \in Nat \ {0}  BY <2>2, <2>6
  <2>8. QED  BY <2>1, <2>7
<1>2. PICK f : f = [p \in P |-> (p.startedAt - from) \div size]  OBVIOUS
<1>3. PICK n \in Int : n = (to - from) \div size /\ n * size <= to - from
  <2>1. PICK d \in Int : d = to - from  OBVIOUS
  <2>2. PICK n \in Int : n = d \div size /\ n * size <= d  BY <2>1, DivRange
  <2>3. QED  BY <2>1, <2>2
<1>4. PICK K : K = BucketsOf(from, to, size)  OBVIOUS
<1>5. K = IF from > to THEN {} ELSE 0 .. n  BY <1>3, <1>4 DEF BucketsOf
<1>6. IsFiniteSet(K)  BY <1>3, <1>5, FS_Interval, FS_EmptySet
<1>7. PICK c : c = TimeBuckets(P, seconds, from, to)  OBVIOUS
<1>8. Counts(c, K, P, f)
  <2>1. \A k : {p \in P : (p.startedAt - from) \div size = k} = {p \in P : f[p] = k}  BY <1>2
  <2>2. c = [k \in K |-> Cardinality({p \in P : (p.startedAt - from) \div size = k})]
    BY <1>1, <1>4, <1>7 DEF TimeBuckets
  <2>3. QED  BY <2>1, <2>2 DEF Counts
<1>9. SumOf(c) = Cardinality({p \in P : f[p] \in K})  BY <1>6, <1>8, SumCounts
<1>10. ASSUME NEW p \in P
       PROVE  /\ from <= p.startedAt /\ p.startedAt <= to => f[p] \in K
              /\ f[p] \in K => from <= p.startedAt /\ p.startedAt <= to + size - 1
  <2>1. PICK a \in Int : a = p.startedAt - from  OBVIOUS
  <2>2. PICK q \in Int : q = a \div size /\ f[p] = q  BY <1>2, <2>1, DivRange
  <2>3. q >= 0 <=> a >= 0
    <3>1. a \div size >= 0 <=> a >= 0 * size  BY DivAtLeast
    <3>2. 0 * size = 0  OBVIOUS
    <3>3. QED  BY <2>2, <3>1, <3>2
  <2>4. a <= to - from => q <= n
    <3>1. PICK d \in Int : d = to - from  OBVIOUS
    <3>2. a <= d => a \div size <= d \div size  BY DivGrows
    <3>3. QED  BY <1>3, <2>2, <3>1, <3>2
  <2>5. q <= n => a <= to - from + size - 1
    <3>1. PICK m \in Int : m = n + 1  OBVIOUS
    <3>2. q >= m <=> a >= m * size  BY <2>2, DivAtLeast
    <3>3. PICK t \in Int : t = n * size  OBVIOUS
    <3>4. m * size = t + size  BY <3>1, <3>3
    <3>5. t <= to - from  BY <1>3, <3>3
    <3>6. QED  BY ONLY <3>1, <3>2, <3>4, <3>5, a \in Int, q \in Int, n \in Int, size \in Nat,
                       to \in Int, from \in Int
  <2>6. f[p] \in K <=> ~(from > to) /\ 0 <= q /\ q <= n  BY <1>5, <2>2
  <2>7. p.startedAt \in Int  OBVIOUS
  <2>8. QED  BY ONLY <2>1, <2>3, <2>4, <2>5, <2>6, <2>7, to \in Int, from \in Int, size \in Nat
<1>11. PICK In, S, Out : /\ In = {p \in P : from <= p.startedAt /\ p.startedAt <= to}
                         /\ S = {p \in P : f[p] \in K}
                         /\ Out = {p \in P : from <= p.startedAt /\ p.startedAt <= to + size - 1}
  OBVIOUS
<1>12. In \in SUBSET S /\ S \in SUBSET Out /\ Out \in SUBSET P  BY <1>10, <1>11
<1>13. Cardinality(In) <= Cardinality(S) /\ Cardinality(S) <= Cardinality(Out)
  <2>1. IsFiniteSet(Out) /\ Cardinality(S) <= Cardinality(Out)  BY <1>12, FS_Subset
  <2>2. IsFiniteSet(S)  BY <1>12, <2>1, FS_Subset
  <2>3. QED  BY <1>12, <2>1, <2>2, FS_Subset
<1>14. Began(P, from, to) = Cardinality(In)  BY <1>11 DEF Began
<1>15. Began(P, from, to + size - 1) = Cardinality(Out)  BY <1>11 DEF Began
<1>16. SumOf(TimeBuckets(P, seconds, from, to)) = Cardinality(S)  BY <1>7, <1>9, <1>11
<1>17. QED  BY <1>1, <1>13, <1>14, <1>15, <1>16

\* The full hour a time is in.
LEMMA FloorHourIs ==
    ASSUME NEW t \in Int
    PROVE  FloorHour(t) = (t \div Hour) * Hour /\ t \div Hour \in Int
<1>1. Hour \in Nat \ {0}  BY ProcessesAssumption
<1>2. t = (t \div Hour) * Hour + (t % Hour)  BY <1>1, DivMod
<1>3. t \div Hour \in Int /\ t % Hour \in Int  BY <1>1, DivRange, ModRange
<1>4. PICK q \in Int : q = t \div Hour  BY <1>3
<1>5. PICK r \in Int : r = t % Hour  BY <1>3
<1>6. PICK m \in Int : m = q * Hour  BY <1>1
<1>7. t - r = m  BY <1>2, <1>4, <1>5, <1>6
<1>8. QED  BY <1>4, <1>5, <1>6, <1>7 DEF FloorHour

\* hourlyBuckets counts every process that began at or after its first hour.
LEMMA HourlyBucketsCount ==
    ASSUME NEW P, IsFiniteSet(P), NEW draw \in Int,
           \A p \in P : p.startedAt \in Int /\ p.startedAt <= draw
    PROVE  HoursCountEach(P, draw)
<1>1. Hour \in Nat \ {0} /\ Day \in Nat  BY ProcessesAssumption
<1>2. PICK since \in Int : since = draw - Day /\ since <= draw  BY <1>1
<1>3. PICK q \in Int : q = since \div Hour  BY <1>1, DivRange
<1>4. PICK r \in Int : r = draw \div Hour  BY <1>1, DivRange
<1>5. q <= r  BY <1>1, <1>2, <1>3, <1>4, DivGrows
<1>6. PICK from \in Int : from = q * Hour /\ from = FloorHour(draw - Day)
  BY <1>1, <1>2, <1>3, FloorHourIs
<1>7. PICK to \in Int : to = r * Hour /\ to = FloorHour(draw)  BY <1>1, <1>4, FloorHourIs
<1>8. PICK n \in Nat : n = r - q  BY <1>5
<1>9. to - from = n * Hour /\ n * Hour >= 0
  <2>1. r = q + n  BY <1>8
  <2>2. r * Hour = q * Hour + n * Hour  BY <1>1, <2>1
  <2>3. n * Hour >= 0 /\ n * Hour \in Int  BY <1>1
  <2>4. QED  BY <1>6, <1>7, <2>2, <2>3
<1>10. (to - from) \div Hour = n
  <2>1. PICK d \in Int : d = to - from /\ d = n * Hour  BY <1>9
  <2>2. n * Hour <= d /\ d < n * Hour + Hour  BY <1>1, <2>1
  <2>3. d \div Hour = n  BY <1>1, <2>2, DivUnique
  <2>4. QED  BY <2>1, <2>3
<1>11. PICK K : K = BucketsOf(from, to, Hour)  OBVIOUS
<1>12. K = 0 .. n  BY <1>6, <1>7, <1>9, <1>10, <1>11 DEF BucketsOf
<1>13. IsFiniteSet(K)  BY <1>12, FS_Interval
<1>14. PICK f : f = [p \in P |-> (p.startedAt \div Hour) - q]  OBVIOUS
<1>15. PICK c : c = HourlyBuckets(P, draw)  OBVIOUS
<1>16. ASSUME NEW p \in P, NEW b \in K
       PROVE  FloorHour(p.startedAt) = from + b * Hour <=> f[p] = b
  <2>1. PICK s \in Int : s = p.startedAt \div Hour /\ FloorHour(p.startedAt) = s * Hour
    BY FloorHourIs
  <2>2. b \in Int  BY <1>12
  <2>3. f[p] = s - q  BY <1>14, <2>1
  <2>4. from + b * Hour = (q + b) * Hour  BY <1>1, <1>6, <2>2
  <2>5. s * Hour = (q + b) * Hour <=> s = q + b
    <3>1. ASSUME NEW x \in Int, NEW y \in Int, x < y  PROVE x * Hour < y * Hour
      <4>1. y - x - 1 \in Nat /\ y = x + 1 + (y - x - 1)  BY <3>1
      <4>2. PICK d \in Nat : y = x + 1 + d  BY <4>1
      <4>3. y * Hour = x * Hour + Hour + d * Hour /\ d * Hour >= 0 /\ d * Hour \in Int
            /\ x * Hour \in Int
        BY <1>1, <4>2
      <4>4. QED  BY <1>1, <4>3
    <3>2. PICK y \in Int : y = q + b  BY <2>2
    <3>3. s * Hour \in Int /\ y * Hour \in Int  BY <1>1
    <3>4. CASE s < y  BY <3>1, <3>2, <3>3, <3>4
    <3>5. CASE y < s  BY <3>1, <3>2, <3>3, <3>5
    <3>6. CASE s = y  BY <3>2, <3>6
    <3>7. QED  BY <3>4, <3>5, <3>6
  <2>6. s - q = b <=> s = q + b  BY <2>2
  <2>7. QED  BY <2>1, <2>3, <2>4, <2>5, <2>6
<1>17. Counts(c, K, P, f)
  <2>1. \A b \in K : {p \in P : FloorHour(p.startedAt) = from + b * Hour} = {p \in P : f[p] = b}
    BY <1>16
  <2>2. c = [b \in K |-> Cardinality({p \in P : FloorHour(p.startedAt) = from + b * Hour})]
    BY <1>6, <1>7, <1>11, <1>15 DEF HourlyBuckets
  <2>3. QED  BY <2>1, <2>2 DEF Counts
<1>18. SumOf(c) = Cardinality({p \in P : f[p] \in K})  BY <1>13, <1>17, SumCounts
<1>19. ASSUME NEW p \in P  PROVE f[p] \in K <=> p.startedAt >= from
  <2>1. PICK t \in Int : t = p.startedAt /\ t <= draw  OBVIOUS
  <2>2. PICK s \in Int : s = t \div Hour /\ f[p] = s - q  BY <1>1, <1>14, <2>1, DivRange
  <2>3. s <= r  BY <1>1, <1>4, <2>1, <2>2, DivGrows
  <2>4. s >= q <=> t >= from
    <3>1. t \div Hour >= q <=> t >= q * Hour  BY <1>1, DivAtLeast
    <3>2. QED  BY <1>6, <2>2, <3>1
  <2>5. s - q \in 0 .. n <=> s >= q  BY <1>8, <2>3
  <2>6. QED  BY <1>12, <2>1, <2>2, <2>4, <2>5
<1>20. {p \in P : f[p] \in K} = {p \in P : p.startedAt >= from}  BY <1>19
<1>21. QED  BY <1>6, <1>15, <1>18, <1>20 DEF HoursCountEach

\* Without tags the status of the page is the one a query filters by.
LEMMA StatusFiltered ==
    ASSUME NEW P, Untagged(P), NEW s \in Statuses
    PROVE  StatusSeries(P)[s] = Cardinality(FilterQueryProcesses(P, "status", s))
<1>1. \A p \in P : SearchField(p, "status") = p.status  BY Zenon DEF Untagged, SearchField, Or
<1>2. {p \in P : p.status = s} = {p \in P : SearchField(p, "status") = s}  BY <1>1
<1>3. QED  BY <1>2 DEF StatusSeries, FilterQueryProcesses

\* A window has two times, whatever the settings of the period.
LEMMA WindowTimes ==
    ASSUME NEW w \in Windows
    PROVE  w.from \in Int /\ w.to \in Int
<1>1. PICK period \in Periods, now \in Moments : w = TimeWindow(period, now)  BY DEF Windows
<1>2. now \in Int  BY ProcessesAssumption
<1>3. /\ period.from = Unset \/ period.from \in Int
      /\ period.to = Unset \/ period.to \in Int
      /\ period.back \in Int
  <2>1. Spans \subseteq Int /\ Dates \subseteq Int /\ Quarter \in Int  BY ProcessesAssumption
  <2>2. QED  BY <2>1 DEF Periods
<1>4. now - period.back \in Int  BY <1>2, <1>3
<1>5. /\ w.from = IF period.from = Unset THEN now - period.back ELSE period.from
      /\ w.to = IF period.to = Unset THEN now ELSE period.to
  <2>1. PICK from, to : /\ from = IF period.from = Unset THEN now - period.back ELSE period.from
                        /\ to = IF period.to = Unset THEN now ELSE period.to
    OBVIOUS
  <2>2. w = [from |-> from, to |-> to]  BY <1>1, <2>1 DEF TimeWindow
  <2>3. w.from = from /\ w.to = to  BY <2>2
  <2>4. QED  BY <2>1, <2>3
<1>6. QED  BY <1>2, <1>3, <1>4, <1>5

\* A request for the list, in the terms of the lemmas.
LEMMA ListIs ==
    ASSUME IStored, NEW w \in Windows, NEW a \in ListAnswers(w)
    PROVE  LET P == GroupProcessEvents(a)
           IN  /\ IsFiniteSet(P)
               /\ \A p \in P : p.status \in Statuses /\ p.startedAt \in Int
               /\ Within(w.from, w.to) <= MostEvents => ProcessIds(P) = IdsWithin(w.from, w.to)
<1>1. PICK from \in Int, to \in Int : from = w.from /\ to = w.to  BY WindowTimes
<1>2. PICK M : M = Matching(Interval(from, to))  OBVIOUS
<1>3. PICK R : Answered(a, R, M, MostEvents)  BY <1>1, <1>2, ListAnswersAre
<1>4. PICK P : P = GroupProcessEvents(a)  OBVIOUS
<1>5. /\ IsFiniteSet(P)
      /\ \A p \in P : p.status \in Statuses /\ p.startedAt \in Int
      /\ ProcessIds(P) = {KeyOf(i) : i \in R}
  BY <1>2, <1>3, <1>4, PageProcesses
<1>6. ASSUME Within(from, to) <= MostEvents  PROVE ProcessIds(P) = IdsWithin(from, to)
  <2>1. R = M  BY <1>2, <1>3, <1>6 DEF Answered, Within
  <2>2. QED  BY <1>2, <1>5, <2>1 DEF IdsWithin
<1>7. QED  BY <1>1, <1>4, <1>5, <1>6

\* A request for the chart, likewise.
LEMMA ChartIs ==
    ASSUME IStored, NEW now \in Int, NEW C \in Charted(now)
    PROVE  /\ IsFiniteSet(C)
           /\ \A p \in C : p.startedAt \in Int /\ p.startedAt <= now
           /\ Within(now - Day, now) <= DefaultEvents => ProcessIds(C) = IdsWithin(now - Day, now)
<1>1. Day \in Nat  BY ProcessesAssumption
<1>2. PICK from \in Int : from = now - Day  BY <1>1
<1>3. PICK c \in ChartAnswers(now) : C = GroupProcessEvents(c)  BY DEF Charted
<1>4. PICK M : M = Matching(Interval(from, now))  OBVIOUS
<1>5. PICK R : Answered(c, R, M, DefaultEvents)  BY <1>2, <1>3, <1>4, ChartAnswersAre
<1>6. /\ IsFiniteSet(C)
      /\ \A p \in C : p.startedAt \in Int /\ p.startedAt <= now
      /\ ProcessIds(C) = {KeyOf(i) : i \in R}
  BY <1>3, <1>4, <1>5, PageProcesses
<1>7. ASSUME Within(from, now) <= DefaultEvents  PROVE ProcessIds(C) = IdsWithin(from, now)
  <2>1. R = M  BY <1>4, <1>5, <1>7 DEF Answered, Within
  <2>2. QED  BY <1>4, <1>6, <2>1 DEF IdsWithin
<1>8. QED  BY <1>2, <1>6, <1>7

\* All of that, for every window asked for and every window drawn.
LEMMA ChartsHold ==
    ASSUME IStored
    PROVE  ChartsCountEach
<1>1. ASSUME NEW P \in Listed  PROVE IsFiniteSet(P) /\ \A p \in P : p.status \in Statuses /\ p.startedAt \in Int
  <2>1. PICK w \in Windows : P \in {GroupProcessEvents(a) : a \in ListAnswers(w)}  BY DEF Listed
  <2>2. PICK a \in ListAnswers(w) : P = GroupProcessEvents(a)  BY <2>1
  <2>3. QED  BY <2>2, ListIs
<1>2. ASSUME NEW P \in Listed  PROVE SeriesCountEach(P)
  <2>1. SumOf(StatusSeries(P)) = Cardinality(P)  BY <1>1, StatusSeriesCounts
  <2>2. \A key : SumOf(TopRows(P, key)) = Cardinality(P)  BY <1>1, TopRowsCount
  <2>3. Untagged(P) => \A s \in Statuses :
           StatusSeries(P)[s] = Cardinality(FilterQueryProcesses(P, "status", s))
    BY StatusFiltered
  <2>4. QED  BY <2>1, <2>2, <2>3 DEF SeriesCountEach
<1>3. ASSUME NEW P \in Listed, NEW w \in Windows  PROVE BucketsCountEach(P, w.from, w.to)
  <2>1. PICK from \in Int, to \in Int : from = w.from /\ to = w.to  BY WindowTimes
  <2>2. Rollups \subseteq Int  BY ProcessesAssumption
  <2>3. BucketsCountEach(P, from, to)  BY <1>1, <2>2, TimeBucketsCount DEF BucketsCountEach
  <2>4. QED  BY <2>1, <2>3
<1>4. \A w \in Windows : Within(w.from, w.to) <= MostEvents =>
         \A a \in ListAnswers(w) : ProcessIds(GroupProcessEvents(a)) = IdsWithin(w.from, w.to)
  BY ListIs
<1>5. ASSUME NEW now \in Moments, NEW C \in Charted(now)
      PROVE  /\ \A draw \in Moments : draw >= now => HoursCountEach(C, draw)
             /\ Within(now - Day, now) <= DefaultEvents => ProcessIds(C) = IdsWithin(now - Day, now)
  <2>1. now \in Int /\ Moments \subseteq Int  BY ProcessesAssumption
  <2>2. ASSUME NEW draw \in Moments, draw >= now  PROVE HoursCountEach(C, draw)
    <3>1. draw \in Int  BY <2>1
    <3>2. IsFiniteSet(C) /\ \A p \in C : p.startedAt \in Int /\ p.startedAt <= now  BY <2>1, ChartIs
    <3>3. \A p \in C : p.startedAt \in Int /\ p.startedAt <= draw  BY <2>1, <2>2, <3>1, <3>2
    <3>4. QED  BY <3>1, <3>2, <3>3, HourlyBucketsCount
  <2>3. QED  BY <2>1, <2>2, ChartIs
<1>6. QED  BY <1>2, <1>3, <1>4, <1>5 DEF ChartsCountEach

\* Whatever order the adapters answer events of one time in, the page shows the
\* same processes.
THEOREM OrderTheorem == ListsSpec => []SameWhateverOrder
BY EventsAreStored, OrderHolds, PTL

\* The steps listed under a process and its counters agree.
THEOREM StepsTheorem == ListsSpec => []StepsMatchCounters
BY EventsAreStored, StepsHold, PTL

\* Every series and the hourly chart count each process once, and neither the
\* list nor the chart lacks one of its own window, unless that has more events
\* than the service answers with; for any setting of the period.
THEOREM ChartsTheorem == ListsSpec => []ChartsCountEach
BY EventsAreStored, ChartsHold, PTL
===============================================================================
