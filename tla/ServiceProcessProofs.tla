------------------------ MODULE ServiceProcessProofs ------------------------
(***************************************************************************)
(* Theorems about ServiceProcess.                                           *)
(*                                                                          *)
(* CreatedOnce speaks of the definitions that were stored.  It is not       *)
(* inductive: a client may also be about to save one under an id that it    *)
(* has read.  IHeld states it of those too, and with it where ids come      *)
(* from: an id that newID has not given out yet is on no definition, unless *)
(* a client has claimed it.  IShutdown says what the shutdown of the API    *)
(* has waited for.  IWhole is what Save promises of every definition, and   *)
(* what it may assume of a body that a client has posted.                   *)
(***************************************************************************)
EXTENDS ServiceProcess, FiniteSetTheorems, TLAPS

-----------------------------------------------------------------------------
(* The inductive invariant. *)

\* A value with the fields of a definition, whatever they hold.
IsDefinition(d) ==
    d = [id |-> d.id, name |-> d.name, refresh |-> d.refresh, created |-> d.created,
         widgets |-> d.widgets]

Shape(d) == IsDefinition(d) /\ IsFiniteSet(DOMAIN d.widgets)

\* A definition that has been through Save, or the seed, or one that is on its
\* way to Save under an id.
Saved(d) ==
    /\ Shape(d)
    /\ d.id # ""
    /\ d.created # 0 \/ d.id \in claimed
    /\ d.id \in claimed \/ d.id = "operations" \/ \E n \in 1 .. ids : d.id = NewId(n)

Holding == {c \in Clients : calls[c].op \in {"storing", "delete"}}
Saving  == {c \in Clients : calls[c].op = "save" /\ calls[c].body.id # ""}

Held ==
    Range(dashboards) \cup (Range(copies) \ {NoCopy}) \cup {calls[c].body : c \in Holding \cup Saving}

Agree(d, e) ==
    d.id = e.id => \/ d.created = e.created
                   \/ d.id \in claimed
                   \/ d.id = "operations" /\ starts > 1

IType ==
    /\ starts \in Nat /\ clock \in Nat /\ clock # 0 /\ ids \in 0 .. MaxIds
    /\ copies = [c \in Clients |-> copies[c]]
    /\ calls = [c \in Clients |-> calls[c]]
    /\ tools = [t \in Tools |-> tools[t]]

IHeld ==
    /\ \A d \in Held : Saved(d)
    /\ \A d, e \in Held : Agree(d, e)
    /\ \A c \in Clients : calls[c].op = "save" => Shape(calls[c].body)
    /\ starts = 0 => phase = "stopped" /\ Held = {}

IShutdown ==
    phase = "closing MCP" /\ ~expired => Active = {} /\ \A t \in Tools : tools[t] # "asking"

IInv == IType /\ IHeld /\ IShutdown

-----------------------------------------------------------------------------
(* What the steps are made of. *)

\* A value with the fields of a widget, whatever they hold.
IsWidget(w) ==
    w = [id |-> w.id, type |-> w.type, aggregation |-> w.aggregation,
         chart |-> w.chart, metric |-> w.metric, query |-> w.query]

LEMMA DraftShape ==
  ASSUME NEW d \in Drafts
  PROVE  /\ Shape(d) /\ d.refresh \in Int /\ DOMAIN d.widgets \subseteq Int
         /\ \A i \in DOMAIN d.widgets : IsWidget(d.widgets[i])
<1>. DEFINE Widget == [id : STRING, type : STRING, aggregation : STRING,
                       chart : STRING, metric : STRING, query : STRING]
            Widgets == Seq(Widget)
<1>1. d \in [id : STRING, name : STRING, refresh : Int, created : Int, widgets : Widgets]
  BY DraftAssumption
<1>2. \A s \in Widgets : /\ DOMAIN s = 1 .. Len(s) /\ Len(s) \in Nat
                         /\ \A i \in DOMAIN s : s[i] \in Widget
  <2>. HIDE DEF Widget
  <2>. QED  OBVIOUS
<1>3. \A w \in Widget : IsWidget(w)
  BY DEF IsWidget
<1>. HIDE DEF Widget, Widgets
<1>4. IsDefinition(d) /\ d.refresh \in Int
  BY <1>1 DEF IsDefinition
<1>5. DOMAIN d.widgets = 1 .. Len(d.widgets) /\ Len(d.widgets) \in Nat
  BY <1>1, <1>2
<1>6. IsFiniteSet(1 .. Len(d.widgets)) /\ 1 .. Len(d.widgets) \subseteq Int
  BY <1>5, FS_Interval
<1>7. \A i \in DOMAIN d.widgets : IsWidget(d.widgets[i])
  BY <1>1, <1>2, <1>3
<1>. QED  BY <1>4, <1>5, <1>6, <1>7 DEF Shape

\* Save gives out as many ids as are missing, one of them to the definition.
LEMMA IdsNeeded ==
  ASSUME NEW d, IsFiniteSet(DOMAIN d.widgets)
  PROVE  NeededIds(d) \in Nat /\ (d.id = "" => NeededIds(d) > 0)
<1>1. IsFiniteSet(Nameless(d))
  BY FS_Subset, Nameless(d) \in SUBSET (DOMAIN d.widgets) DEF Nameless
<1>2. Cardinality(Nameless(d)) \in Nat
  BY <1>1, FS_CardinalityType
<1>3. OwnIds(d) \in {0, 1} /\ (d.id = "" => OwnIds(d) = 1)
  BY DEF OwnIds
<1>4. \A m \in {0, 1}, k \in Nat : m + k \in Nat /\ (m = 1 => m + k > 0)
  OBVIOUS
<1>. QED  BY <1>2, <1>3, <1>4 DEF NeededIds

\* A widget without an id gets one of those.
LEMMA IdsUpToNeeded ==
  ASSUME NEW d, IsFiniteSet(DOMAIN d.widgets), DOMAIN d.widgets \subseteq Int,
         NEW i \in Nameless(d)
  PROVE  IdsUpTo(d, i) \in 1 .. NeededIds(d)
<1>. DEFINE S == {j \in Nameless(d) : j <= i}
<1>1. IsFiniteSet(Nameless(d))
  BY FS_Subset, Nameless(d) \in SUBSET (DOMAIN d.widgets) DEF Nameless
<1>2. i \in S
  <2>1. i \in Int
    BY DEF Nameless
  <2>. QED  BY ONLY <2>1, i \in Nameless(d)
<1>3. IsFiniteSet(S) /\ Cardinality(S) <= Cardinality(Nameless(d))
  BY <1>1, FS_Subset, S \in SUBSET Nameless(d)
<1>4. Cardinality(S) \in Nat /\ Cardinality(S) # 0 /\ Cardinality(Nameless(d)) \in Nat
  BY <1>1, <1>2, <1>3, FS_CardinalityType, FS_EmptySet
<1>5. OwnIds(d) \in {0, 1}
  BY DEF OwnIds
<1>6. IdsUpTo(d, i) = OwnIds(d) + Cardinality(S)
  BY DEF IdsUpTo
<1>. HIDE DEF S
<1>. QED  BY <1>3, <1>4, <1>5, <1>6 DEF NeededIds

\* What Save leaves of a definition, as far as CreatedOnce is concerned.
LEMMA NormalShape ==
  ASSUME NEW d, Shape(d), NEW now, NEW n
  PROVE  LET e == Normal(d, now, n)
         IN  /\ Shape(e)
             /\ e.id = IF d.id = "" THEN NewId(n + 1) ELSE d.id
             /\ e.created = IF d.id = "" \/ d.created = 0 THEN now ELSE d.created
<1>. DEFINE created == IF d.id = "" \/ d.created = 0 THEN now ELSE d.created
            e == Stamped(d, created, n)
            w == [i \in DOMAIN d.widgets |-> WithDefaults(d.widgets[i], NewId(n + IdsUpTo(d, i)))]
<1>1. Normal(d, now, n) = e
  BY DEF Normal
<1>2. e = [id |-> Or(d.id, NewId(n + 1)), name |-> Or(d.name, "Operational dashboard"),
           refresh |-> IF d.refresh <= 0 THEN 5 ELSE d.refresh, created |-> created,
           widgets |-> w]
  <2>. HIDE DEF created
  <2>. QED  BY DEF Stamped
<1>3. DOMAIN w = DOMAIN d.widgets
  OBVIOUS
<1>. HIDE DEF created, w
<1>4. e.id = Or(d.id, NewId(n + 1)) /\ e.created = created /\ e.widgets = w /\ IsDefinition(e)
  <2>. HIDE DEF e
  <2>. QED  BY <1>2 DEF IsDefinition
<1>. HIDE DEF e
<1>. QED  BY <1>1, <1>3, <1>4 DEF Or, created, Shape

\* What a client posts under an id that it has read has the shape of a
\* definition: it is the one read, or one of its own.
LEMMA EditedShape ==
  ASSUME NEW d, Shape(d), NEW e \in Edited(d)
  PROVE  /\ Shape(e) /\ e.id = d.id
         /\ \/ e = d
            \/ \E draft \in Drafts : e.refresh = draft.refresh /\ e.widgets = draft.widgets
<1>1. CASE e = d
  BY <1>1
<1>2. CASE e # d
  <2>1. PICK draft \in Drafts : \/ e = [draft EXCEPT !.id = d.id]
                                \/ e = [draft EXCEPT !.id = d.id, !.created = d.created]
    BY <1>2 DEF Edited
  <2>2. Shape(draft)
    BY DraftShape
  <2>a. PICK x : x = draft
    OBVIOUS
  <2>b. x = [id |-> draft.id, name |-> draft.name, refresh |-> draft.refresh,
             created |-> draft.created, widgets |-> draft.widgets]
    BY <2>a, <2>2 DEF Shape, IsDefinition
  <2>c. PICK id, created : id = d.id /\ created = d.created
    OBVIOUS
  <2>d. e = [x EXCEPT !.id = id] \/ e = [x EXCEPT !.id = id, !.created = created]
    BY <2>1, <2>a, <2>c
  <2>3. PICK later : e = [id |-> d.id, name |-> draft.name, refresh |-> draft.refresh,
                          created |-> later, widgets |-> draft.widgets]
    <3>1. CASE e = [x EXCEPT !.id = id]
      <4>1. e = [id |-> id, name |-> draft.name, refresh |-> draft.refresh,
                 created |-> draft.created, widgets |-> draft.widgets]
        BY ONLY <2>b, <3>1
      <4>. QED  BY <4>1, <2>c
    <3>2. CASE e = [x EXCEPT !.id = id, !.created = created]
      <4>1. e = [id |-> id, name |-> draft.name, refresh |-> draft.refresh,
                 created |-> created, widgets |-> draft.widgets]
        BY ONLY <2>b, <3>2
      <4>. QED  BY <4>1, <2>c
    <3>. QED  BY <2>d, <3>1, <3>2
  <2>4. /\ e.id = d.id /\ e.refresh = draft.refresh /\ e.widgets = draft.widgets
        /\ IsDefinition(e)
    BY <2>3 DEF IsDefinition
  <2>. QED  BY <2>2, <2>4 DEF Shape
<1>. QED  BY <1>1, <1>2

-----------------------------------------------------------------------------
(* Steps that add at most one definition, x, to those held. *)

LEMMA HeldGrows ==
  ASSUME IHeld, ids \in Nat, ids' \in Nat, ids <= ids', starts' = starts,
         claimed \subseteq claimed', NEW x, Saved(x)', \A d \in Held : Agree(x, d)',
         Held' \subseteq Held \cup {x}
  PROVE  (\A d \in Held : Saved(d))' /\ (\A d, e \in Held : Agree(d, e))'
<1>1. \A d : Saved(d) => Saved(d)'
  <2>1. 1 .. ids \subseteq 1 .. ids'
    OBVIOUS
  <2>. QED  BY <2>1 DEF Saved, Shape, IsDefinition
<1>2. \A d, e : Agree(d, e) => Agree(d, e)'
  BY DEF Agree
<1>3. \A d, e : Agree(d, e)' => Agree(e, d)'
  BY DEF Agree
<1>4. Agree(x, x)'
  BY DEF Agree
<1>. QED  BY <1>1, <1>2, <1>3, <1>4 DEF IHeld

LEMMA HeldStays ==
  ASSUME IHeld, ids \in Nat, ids' = ids, starts' = starts, claimed \subseteq claimed',
         Held' \subseteq Held
  PROVE  (\A d \in Held : Saved(d))' /\ (\A d, e \in Held : Agree(d, e))'
<1>1. \A d : Saved(d) => Saved(d)'
  BY DEF Saved, Shape, IsDefinition
<1>2. \A d, e : Agree(d, e) => Agree(d, e)'
  BY DEF Agree
<1>. QED  BY <1>1, <1>2 DEF IHeld

-----------------------------------------------------------------------------
(* The invariant. *)

LEMMA InitInv == Init => IInv
<1>. SUFFICES ASSUME Init PROVE IInv
  OBVIOUS
<1>1. IType
  BY ProcessAssumption DEF Init, IType
<1>2. Held = {}
  <2>1. Range(dashboards) = {}
    BY DOMAIN << >> = {} DEF Init, Range
  <2>2. Range(copies) \ {NoCopy} = {}
    BY DEF Init, Range
  <2>3. Holding = {} /\ Saving = {}
    BY DEF Init, Holding, Saving, NoCall
  <2>. QED  BY <2>1, <2>2, <2>3 DEF Held
<1>3. IHeld
  BY <1>2 DEF IHeld, Init, NoCall
<1>4. IShutdown
  BY DEF Init, IShutdown
<1>. QED  BY <1>1, <1>3, <1>4 DEF IInv

LEMMA TypeStep == IInv /\ [Next]_vars => IType'
<1>. SUFFICES ASSUME IInv, [Next]_vars PROVE IType'
  OBVIOUS
<1>. USE DEF IInv, IType, server
<1>1. CASE UNCHANGED vars
  BY <1>1 DEF vars
<1>2. ASSUME NEW c \in Clients, NEW op, NEW body, Call(c, op, body) PROVE IType'
  BY <1>2 DEF Call
<1>3. ASSUME NEW c \in Clients, ListDashboards(c) PROVE IType'
  BY <1>3 DEF ListDashboards, Answer
<1>4. ASSUME NEW c \in Clients, Save(c) PROVE IType'
  <2>1. /\ starts' = starts /\ clock' = clock /\ copies' = copies /\ tools' = tools
        /\ calls' = [d \in Clients |-> calls'[d]]
    BY <1>4 DEF Save
  <2>2. NeededIds(calls[c].body) \in Nat
    <3>1. Shape(calls[c].body)
      BY <1>4 DEF IHeld, Save
    <3>. QED  BY <3>1, IdsNeeded DEF Shape
  <2>3. ids' \in 0 .. MaxIds
    BY <1>4, <2>2, ProcessAssumption DEF Save
  <2>. QED  BY <2>1, <2>3
<1>5. ASSUME NEW c \in Clients, SaveDashboard(c) PROVE IType'
  BY <1>5 DEF SaveDashboard, Answer
<1>6. ASSUME NEW c \in Clients, DeleteDashboard(c) PROVE IType'
  BY <1>6 DEF DeleteDashboard, Answer
<1>7. ASSUME NEW t \in Tools, CallTool(t) \/ AskAPI(t) \/ ToolAnswers(t) PROVE IType'
  BY <1>7 DEF CallTool, AskAPI, ToolAnswers, SetTool
<1>8. CASE Start
  BY <1>8 DEF Start
<1>9. CASE Interrupt \/ Expire \/ ShutdownAPI
  BY <1>9 DEF Interrupt, Expire, ShutdownAPI
<1>10. CASE ShutdownMCP \/ Crash
  BY <1>10 DEF ShutdownMCP, Crash, Exit
<1>11. CASE Tick
  BY <1>11 DEF Tick
<1>. QED
  BY <1>1, <1>2, <1>3, <1>4, <1>5, <1>6, <1>7, <1>8, <1>9, <1>10, <1>11 DEF Next

LEMMA ShutdownStep == IInv /\ [Next]_vars => IShutdown'
<1>. SUFFICES ASSUME IInv, [Next]_vars PROVE IShutdown'
  OBVIOUS
<1>. USE DEF IInv, IShutdown, Active
<1>1. CASE UNCHANGED vars
  BY <1>1 DEF vars
<1>2. ASSUME NEW c \in Clients, NEW op, NEW body, Call(c, op, body) PROVE IShutdown'
  BY <1>2 DEF Call, server
<1>3. ASSUME NEW c \in Clients,
             ListDashboards(c) \/ Save(c) \/ SaveDashboard(c) \/ DeleteDashboard(c)
      PROVE  IShutdown'
  BY <1>3 DEF ListDashboards, Save, SaveDashboard, DeleteDashboard, Answer, server
<1>4. ASSUME NEW t \in Tools, CallTool(t) \/ AskAPI(t) \/ ToolAnswers(t) PROVE IShutdown'
  BY <1>4 DEF IType, CallTool, AskAPI, ToolAnswers, SetTool, server
<1>5. CASE Start \/ Interrupt \/ Expire
  BY <1>5 DEF Start, Interrupt, Expire
<1>6. CASE ShutdownAPI
  BY <1>6 DEF ShutdownAPI
<1>7. CASE ShutdownMCP \/ Crash
  BY <1>7 DEF ShutdownMCP, Crash, Exit
<1>8. CASE Tick
  BY <1>8 DEF Tick, server
<1>. QED  BY <1>1, <1>2, <1>3, <1>4, <1>5, <1>6, <1>7, <1>8 DEF Next

LEMMA HeldStep == IInv /\ [Next]_vars => IHeld'
<1>. SUFFICES ASSUME IInv, [Next]_vars PROVE IHeld'
  OBVIOUS
<1>. USE DEF IInv
<1>n. ids \in Nat /\ starts \in Nat /\ clock \in Nat /\ clock # 0 /\ MaxIds \in Nat
  BY ProcessAssumption DEF IType
<1>0. /\ IType'
      /\ copies = [c \in Clients |-> copies[c]]
      /\ calls = [c \in Clients |-> calls[c]]
  BY TypeStep, ProcessAssumption DEF IType
<1>. DEFINE Shapes == \A c \in Clients : calls[c].op = "save" => Shape(calls[c].body)
\* Most steps add nothing to what is held.
<1>1. ASSUME Held' \subseteq Held, ids' = ids, starts' = starts, claimed \subseteq claimed', Shapes',
             starts = 0 => phase' = "stopped"
      PROVE  IHeld'
  BY <1>n, <1>1, HeldStays DEF IHeld
<1>s. \A d : Shape(d) => Shape(d)'
  BY DEF Shape, IsDefinition
<1>2. CASE UNCHANGED vars
  <2>1. Held' = Held /\ Shapes'
    BY <1>2, <1>s DEF vars, Held, Holding, Saving, IHeld
  <2>. QED  BY <1>1, <1>2, <2>1 DEF vars, IHeld
<1>3. ASSUME NEW c \in Clients, NEW op, NEW body, Call(c, op, body),
             op = "list" \/ (op = "save" /\ body \in Bodies(c))
                \/ (op = "delete" /\ copies[c] # NoCopy /\ body = copies[c])
      PROVE  IHeld'
  <2>1. /\ dashboards' = dashboards /\ copies' = copies /\ ids' = ids /\ starts' = starts
        /\ phase = "serving" /\ phase' = phase
        /\ calls' = [calls EXCEPT ![c] = [op |-> op, body |-> body]]
        /\ claimed \subseteq claimed'
        /\ op = "save" /\ body.id # "" /\ ~Returned(c, body) => body.id \in claimed'
    BY <1>3 DEF Call, server
  <2>2. \A d \in Clients \ {c} : calls'[d] = calls[d]
    BY <2>1, <1>0
  <2>3. calls'[c].op = op /\ calls'[c].body = body
    BY <2>1, <1>0
  <2>4. Held' \subseteq Held \cup (IF (op = "save" /\ body.id # "") \/ op = "delete" THEN {body} ELSE {})
    BY <2>1, <2>2, <2>3, <1>3 DEF Held, Holding, Saving
  <2>5. copies[c] # NoCopy => copies[c] \in Held /\ Saved(copies[c])
    BY <1>0 DEF Held, Range, IHeld
  <2>6. op = "save" => Shape(body)
    BY <1>3, <2>5, DraftShape, EditedShape DEF Bodies, Saved
  <2>7. Shapes'
    BY <2>2, <2>3, <2>6, <1>s DEF IHeld
  <2>8. CASE op = "list" \/ op = "delete" \/ body.id = ""
    <3>1. Held' \subseteq Held
      BY <2>4, <2>5, <2>8, <1>3
    <3>. QED  BY <1>1, <2>1, <2>7, <3>1 DEF IHeld
  <2>9. CASE op = "save" /\ body.id # ""
    <3>1. Held' \subseteq Held \cup {body}
      BY <2>4
    <3>2. Saved(body)' /\ \A d \in Held : Agree(body, d)'
      <4>1. CASE Returned(c, body)
        <5>1. /\ copies[c] \in Held /\ Saved(copies[c])
              /\ body.id = copies[c].id /\ body.created = copies[c].created
          BY <4>1, <2>5 DEF Returned
        <5>2. Saved(body)'
          BY <5>1, <2>1, <2>6, <2>9, <1>s DEF Saved
        <5>3. \A d \in Held : Agree(copies[c], d)
          BY <5>1 DEF IHeld
        <5>. QED  BY <5>1, <5>2, <5>3, <2>1 DEF Agree
      <4>2. CASE ~Returned(c, body)
        <5>1. body.id \in claimed'
          BY <4>2, <2>1, <2>9
        <5>. QED  BY <5>1, <2>6, <2>9, <1>s DEF Saved, Agree
      <4>. QED  BY <4>1, <4>2
    <3>3. ids' \in Nat /\ ids <= ids'
      <4>1. ids' = ids
        BY <2>1
      <4>. QED  BY ONLY <4>1, <1>n
    <3>4. (\A d \in Held : Saved(d))' /\ (\A d, e \in Held : Agree(d, e))'
      BY <1>n, <2>1, <3>1, <3>2, <3>3, HeldGrows
    <3>. QED  BY <2>1, <2>7, <3>4 DEF IHeld
  <2>. QED  BY <1>3, <2>8, <2>9
<1>4. ASSUME NEW c \in Clients, NEW d, Answer(c, d), d = NoCopy \/ d \in Held,
             ids' = ids, Range(dashboards)' \subseteq Held
      PROVE  IHeld'
  <2>1. /\ calls' = [calls EXCEPT ![c] = NoCall] /\ copies' = [copies EXCEPT ![c] = d]
        /\ starts' = starts /\ phase' = phase /\ phase # "stopped" /\ claimed' = claimed
    BY <1>4 DEF Answer, Running, server
  <2>2. /\ \A x \in Clients \ {c} : calls'[x] = calls[x]
        /\ calls'[c].op = "none"
    BY <2>1, <1>0 DEF NoCall
  <2>3. Range(copies)' \subseteq Range(copies) \cup {d}
    BY <2>1, <1>0 DEF Range
  <2>4. Holding' \subseteq Holding \ {c} /\ Saving' \subseteq Saving \ {c} /\ Shapes'
    BY <2>2, <1>s DEF Holding, Saving, IHeld
  <2>5. Held' \subseteq Held
    <3>1. ASSUME NEW x \in Holding' \cup Saving' PROVE calls'[x].body \in Held
      <4>1. x \in (Holding \cup Saving) \ {c} /\ x \in Clients
        BY <2>4 DEF Holding, Saving
      <4>. QED  BY <4>1, <2>2 DEF Held
    <3>2. Range(copies)' \ {NoCopy} \subseteq Held
      BY <1>4, <2>3 DEF Held
    <3>. QED  BY <1>4, <3>1, <3>2 DEF Held
  <2>. QED  BY <1>1, <1>4, <2>1, <2>4, <2>5 DEF IHeld
<1>5. ASSUME NEW c \in Clients, ListDashboards(c) PROVE IHeld'
  <2>1. Range(dashboards)' \subseteq Held /\ ids' = ids
    BY <1>5 DEF ListDashboards, Held
  <2>2. PICK d : Answer(c, d) /\ (d = NoCopy \/ d \in Held)
    BY <1>5 DEF ListDashboards, Held, Range
  <2>. QED  BY <1>4, <2>1, <2>2
<1>6. ASSUME NEW c \in Clients, Save(c) PROVE IHeld'
  <2>. DEFINE body == calls[c].body
  <2>0. PICK x : x = Normal(body, clock, ids)
    OBVIOUS
  <2>1. /\ dashboards' = dashboards /\ copies' = copies /\ starts' = starts /\ phase' = phase
        /\ phase # "stopped" /\ claimed' = claimed /\ calls[c].op = "save"
        /\ ids' = ids + NeededIds(body) /\ ids' <= MaxIds
        /\ calls' = [calls EXCEPT ![c] = [op |-> "storing", body |-> x]]
    BY <1>6, <2>0 DEF Save, Running, server
  <2>2. /\ \A y \in Clients \ {c} : calls'[y] = calls[y]
        /\ calls'[c].op = "storing" /\ calls'[c].body = x
    BY <2>1, <1>0
  <2>3. body.id = "" \/ body \in Held
    BY <2>1 DEF Held, Saving
  <2>4. Shape(body) /\ IsFiniteSet(DOMAIN body.widgets)
    BY <2>1 DEF IHeld, Shape
  <2>. DEFINE k == NeededIds(body)
  <2>6. k \in Nat /\ ids' = ids + k /\ ids' <= MaxIds
    BY <2>1, <2>4, IdsNeeded
  <2>k. body.id = "" => k > 0
    BY <2>4, IdsNeeded
  <2>. HIDE DEF body, k
  <2>5. /\ Shape(x)
        /\ x.id = (IF body.id = "" THEN NewId(ids + 1) ELSE body.id)
        /\ x.created = (IF body.id = "" \/ body.created = 0 THEN clock ELSE body.created)
    BY <2>0, <2>4, NormalShape
  <2>7. Held' \subseteq Held \cup {x}
    <3>1. ASSUME NEW y \in Holding' \cup Saving' PROVE calls'[y].body \in Held \cup {x}
      <4>1. y \in Clients /\ (y = c \/ y \in Holding \cup Saving)
        BY <2>2 DEF Holding, Saving
      <4>. QED  BY <4>1, <2>2 DEF Held
    <3>. QED  BY <2>1, <3>1 DEF Held
  <2>8. Shapes'
    BY <2>2, <1>s DEF IHeld
  <2>9. Saved(x)' /\ \A d \in Held : Agree(x, d)'
    <3>1. CASE body.id = ""
      <4>1. x.id = NewId(ids + 1) /\ x.created = clock
        BY <3>1, <2>5
      <4>2. ids + 1 \in 1 .. ids' /\ ids + 1 \in 1 .. MaxIds
        <5>1. k > 0 /\ k \in Nat /\ ids' = ids + k /\ ids' <= MaxIds
          BY <3>1, <2>k, <2>6
        <5>. QED  BY ONLY <5>1, <1>n
      <4>3. x.id # "" /\ x.created # 0 /\ \E n \in 1 .. ids' : x.id = NewId(n)
        BY <4>1, <4>2, <1>n, NewIdAssumption
      <4>4. Saved(x)'
        BY <4>3, <2>5, <1>s DEF Saved
      <4>5. ASSUME NEW d \in Held, d.id = x.id PROVE d.id \in claimed
        <5>1. \/ d.id \in claimed \/ d.id = "operations"
              \/ \E n \in 1 .. ids : d.id = NewId(n)
          BY DEF IHeld, Saved
        <5>2. \A n \in 1 .. ids : n \in 1 .. MaxIds /\ n # ids + 1
          BY <4>2, <1>n
        <5>. QED  BY <4>1, <4>2, <4>5, <5>1, <5>2, NewIdAssumption
      <4>. QED  BY <4>4, <4>5, <2>1 DEF Agree
    <3>2. CASE body.id # "" /\ body \in Held
      <4>1. Saved(body)
        BY <3>2 DEF IHeld
      <4>2. x.id = body.id /\ (x.created = body.created \/ x.id \in claimed)
        BY <3>2, <4>1, <2>5 DEF Saved
      <4>3. 1 .. ids \subseteq 1 .. ids'
        BY <2>6, <1>n
      <4>4. Saved(x)'
        BY <4>1, <4>2, <4>3, <2>1, <2>5, <1>s DEF Saved
      <4>5. \A d \in Held : Agree(body, d)
        BY <3>2 DEF IHeld
      <4>. QED  BY <4>2, <4>4, <4>5, <2>1 DEF Agree
    <3>. QED  BY <2>3, <3>1, <3>2
  <2>10. ids' \in Nat /\ ids <= ids'
    BY <2>6, <1>n
  <2>11. (\A d \in Held : Saved(d))' /\ (\A d, e \in Held : Agree(d, e))'
    BY <1>n, <2>1, <2>7, <2>9, <2>10, HeldGrows
  <2>. QED  BY <2>1, <2>8, <2>11 DEF IHeld
<1>7. ASSUME NEW c \in Clients, SaveDashboard(c) PROVE IHeld'
  <2>1. calls[c].body \in Held
    BY <1>7 DEF SaveDashboard, Held, Holding
  <2>2. Range(dashboards)' \subseteq Range(dashboards) \cup {calls[c].body}
    BY <1>7 DEF SaveDashboard, Range
  <2>3. Answer(c, calls[c].body) /\ ids' = ids
    BY <1>7 DEF SaveDashboard
  <2>. QED  BY <1>4, <2>1, <2>2, <2>3 DEF Held
<1>8. ASSUME NEW c \in Clients, DeleteDashboard(c) PROVE IHeld'
  <2>1. Answer(c, copies[c]) /\ ids' = ids
    BY <1>8 DEF DeleteDashboard
  <2>2. Range(dashboards)' \subseteq Range(dashboards)
    BY <1>8 DEF DeleteDashboard, Range, Restrict
  <2>3. copies[c] = NoCopy \/ copies[c] \in Held
    BY <1>0 DEF Held, Range
  <2>. QED  BY <1>4, <2>1, <2>2, <2>3 DEF Held
<1>9. CASE \/ \E t \in Tools : CallTool(t) \/ AskAPI(t) \/ ToolAnswers(t)
           \/ Interrupt \/ Expire \/ ShutdownAPI \/ Tick
  <2>1. /\ dashboards' = dashboards /\ copies' = copies /\ calls' = calls /\ ids' = ids
        /\ starts' = starts /\ (phase = "stopped" => phase' = "stopped") /\ claimed' = claimed
    BY <1>9 DEF CallTool, AskAPI, ToolAnswers, SetTool, Interrupt, Expire, ShutdownAPI, Tick, server
  <2>2. Held' = Held /\ Shapes'
    BY <2>1, <1>s DEF Held, Holding, Saving, IHeld
  <2>. QED  BY <1>1, <2>1, <2>2 DEF IHeld
<1>10. CASE ShutdownMCP \/ Crash
  <2>1. /\ dashboards' = << >> /\ copies' = copies /\ ids' = ids /\ starts' = starts
        /\ phase' = "stopped" /\ claimed' = claimed
        /\ calls' = [c \in Clients |->
                        IF c \in Active THEN NoCall ELSE calls[c]]
    BY <1>10 DEF ShutdownMCP, Crash, Exit
  <2>2. Holding' = {} /\ Saving' = {} /\ Shapes'
    BY <2>1 DEF Holding, Saving, Active, NoCall
  <2>3. Range(dashboards)' = {}
    BY <2>1, DOMAIN << >> = {} DEF Range
  <2>4. Held' \subseteq Held
    BY <2>1, <2>2, <2>3 DEF Held
  <2>. QED  BY <1>1, <2>1, <2>2, <2>4
<1>11. CASE Start
  <2>0. PICK seed : seed = Seed
    OBVIOUS
  <2>1. /\ dashboards' = [id \in {seed.id} |-> seed] /\ copies' = copies /\ calls' = calls /\ ids' = ids
        /\ starts' = starts + 1 /\ claimed' = claimed
    BY <1>11, <2>0 DEF Start
  <2>2. /\ seed.id = "operations" /\ seed.created = clock /\ seed.widgets = << >>
        /\ IsDefinition(seed)
    BY <2>0 DEF Seed, IsDefinition
  <2>3. Range(dashboards)' \subseteq {seed}
    BY <2>1 DEF Range
  <2>4. Held' \subseteq Held \cup {seed}
    BY <2>1, <2>3 DEF Held, Holding, Saving
  <2>5. Saved(seed)'
    <3>1. DOMAIN seed.widgets = {}
      BY <2>2
    <3>. QED  BY <2>2, <3>1, <1>n, FS_EmptySet DEF Saved, Shape, IsDefinition
  <2>6. \A d \in Held : Saved(d)'
    BY <2>1, <1>s DEF IHeld, Saved
  <2>7. \A d \in Held' : Saved(d)'
    BY <2>4, <2>5, <2>6
  <2>8. \A d, e \in Held' : Agree(d, e)'
    <3>1. CASE starts = 0
      BY <3>1, <2>4 DEF IHeld, Agree
    <3>2. CASE starts # 0
      <4>1. starts' > 1
        BY <3>2, <2>1, <1>n
      <4>2. \A d, e \in Held : Agree(d, e)'
        <5>1. \A d, e \in Held : Agree(d, e)
          BY DEF IHeld
        <5>. QED  BY <4>1, <5>1, <2>1 DEF Agree
      <4>3. \A d \in Held : Agree(d, seed)' /\ Agree(seed, d)'
        BY <4>1, <2>2 DEF Agree
      <4>4. Agree(seed, seed)'
        BY DEF Agree
      <4>. QED  BY <2>4, <4>2, <4>3, <4>4
    <3>. QED  BY <3>1, <3>2
  <2>9. Shapes'
    BY <2>1, <1>s DEF IHeld
  <2>10. starts' # 0
    BY <2>1, <1>n
  <2>. QED  BY <2>7, <2>8, <2>9, <2>10 DEF IHeld
<1>. QED
  BY <1>2, <1>3, <1>5, <1>6, <1>7, <1>8, <1>9, <1>10, <1>11 DEF Next

LEMMA Inductive == Spec => []IInv
<1>1. IInv /\ [Next]_vars => IInv'
  BY TypeStep, HeldStep, ShutdownStep DEF IInv
<1>. QED  BY InitInv, <1>1, PTL DEF Spec

-----------------------------------------------------------------------------
(* What Save promises, of what it may assume of a body posted to it.        *)

Complete(w) ==
    /\ "" \notin {w.id, w.type, w.aggregation, w.chart}
    /\ w.metric # "" => w.query # ""

\* What may be posted: a query that is to be filled in will not be empty.
Posted(d) ==
    /\ d.refresh \in Int /\ DOMAIN d.widgets \subseteq Int
    /\ \A i \in DOMAIN d.widgets :
          LET w == d.widgets[i]
          IN  /\ IsWidget(w)
              /\ w.query = "" /\ w.metric # "" => QueryOf(Or(w.aggregation, "sum"), w.metric) # ""

Whole(d) ==
    /\ Posted(d)
    /\ d.refresh > 0 /\ d.created # 0 /\ d.name # ""
    /\ \A i \in DOMAIN d.widgets : Complete(d.widgets[i])

IWhole ==
    /\ \A d \in Known : Whole(d)
    /\ \A c \in Clients : calls[c].op = "save" => Posted(calls[c].body)
    /\ \A id \in DOMAIN dashboards : dashboards[id].id = id

IStates ==
    /\ phase \in {"serving", "closing", "closing MCP", "stopped"}
    /\ mcp \in BOOLEAN /\ expired \in BOOLEAN
    /\ starts \in 0 .. MaxStarts /\ clock \in 1 .. MaxClock
    /\ \A c \in Clients : calls[c].op \in {"none", "list", "save", "storing", "delete"}
    /\ \A t \in Tools : tools[t] \in {"idle", "called", "asking"}

\* Save makes a definition of every body posted, and a start makes one.
Completing == {c \in Clients : calls[c].op = "save" /\ ids + NeededIds(calls[c].body) <= MaxIds}

Made == {Normal(calls[c].body, clock, ids) : c \in Completing} \cup {Seed}

Stays(c) == calls[c]' = calls[c] \/ calls[c].op' # "save"

LEMMA Origins ==
  ASSUME IInv, [Next]_vars
  PROVE  /\ Known' \subseteq Known \cup Made
         /\ \A c \in Clients : Stays(c) \/ calls[c].body' \in Bodies(c)
<1>. USE DEF IInv
<1>0. /\ copies = [c \in Clients |-> copies[c]]
      /\ calls = [c \in Clients |-> calls[c]]
  BY DEF IType
<1>1. CASE UNCHANGED vars
  <2>1. Known' = Known /\ calls' = calls
    BY <1>1 DEF vars, Known
  <2>. QED  BY <2>1 DEF Stays
<1>2. ASSUME NEW c \in Clients, NEW op, NEW body, Call(c, op, body),
             op = "list" \/ (op = "save" /\ body \in Bodies(c))
                \/ (op = "delete" /\ copies[c] # NoCopy /\ body = copies[c])
      PROVE  Known' \subseteq Known /\ \A x \in Clients : Stays(x) \/ calls[x].body' \in Bodies(x)
  <2>1. /\ dashboards' = dashboards /\ copies' = copies
        /\ calls' = [calls EXCEPT ![c] = [op |-> op, body |-> body]]
    BY <1>2 DEF Call
  <2>2. /\ \A d \in Clients \ {c} : calls'[d] = calls[d]
        /\ calls'[c].op = op /\ calls'[c].body = body
    BY <2>1, <1>0
  <2>3. copies[c] # NoCopy => copies[c] \in Range(copies) \ {NoCopy}
    BY <1>0 DEF Range
  <2>4. ASSUME NEW x \in Clients, calls'[x].op \in {"storing", "delete"}
        PROVE  calls'[x].body \in Known
    BY <1>2, <2>2, <2>3, <2>4 DEF Known
  <2>5. Known' \subseteq Known
    BY <2>1, <2>4 DEF Known
  <2>. QED  BY <1>2, <2>2, <2>5 DEF Stays
<1>3. ASSUME NEW c \in Clients, NEW d, Answer(c, d), d = NoCopy \/ d \in Known,
             Range(dashboards)' \subseteq Known
      PROVE  Known' \subseteq Known /\ \A x \in Clients : Stays(x)
  <2>1. calls' = [calls EXCEPT ![c] = NoCall] /\ copies' = [copies EXCEPT ![c] = d]
    BY <1>3 DEF Answer
  <2>2. /\ \A x \in Clients \ {c} : calls'[x] = calls[x]
        /\ calls'[c].op = "none"
    BY <2>1, <1>0 DEF NoCall
  <2>3. Range(copies)' \subseteq Range(copies) \cup {d}
    BY <2>1, <1>0 DEF Range
  <2>4. \A x \in Clients : calls'[x].op \in {"storing", "delete"} => calls'[x] = calls[x]
    BY <2>2
  <2>5. Known' \subseteq Known
    BY <1>3, <2>3, <2>4 DEF Known
  <2>. QED  BY <2>2, <2>5 DEF Stays
<1>4. ASSUME NEW c \in Clients, ListDashboards(c)
      PROVE  Known' \subseteq Known /\ \A x \in Clients : Stays(x)
  <2>1. Range(dashboards)' \subseteq Known
    BY <1>4 DEF ListDashboards, Known
  <2>2. PICK d : Answer(c, d) /\ (d = NoCopy \/ d \in Known)
    BY <1>4 DEF ListDashboards, Known, Range
  <2>. QED  BY <1>3, <2>1, <2>2
<1>5. ASSUME NEW c \in Clients, Save(c)
      PROVE  Known' \subseteq Known \cup Made /\ \A x \in Clients : Stays(x)
  <2>0. PICK x : x = Normal(calls[c].body, clock, ids)
    OBVIOUS
  <2>1. /\ dashboards' = dashboards /\ copies' = copies
        /\ calls[c].op = "save" /\ ids + NeededIds(calls[c].body) <= MaxIds
        /\ calls' = [calls EXCEPT ![c] = [op |-> "storing", body |-> x]]
    BY <1>5, <2>0 DEF Save
  <2>2. /\ \A y \in Clients \ {c} : calls'[y] = calls[y]
        /\ calls'[c].op = "storing" /\ calls'[c].body = x
    BY <2>1, <1>0
  <2>3. x \in Made
    BY <2>0, <2>1 DEF Made, Completing
  <2>4. ASSUME NEW y \in Clients, calls'[y].op \in {"storing", "delete"}
        PROVE  calls'[y].body \in Known \cup Made
    BY <2>2, <2>3, <2>4 DEF Known
  <2>5. Known' \subseteq Known \cup Made
    BY <2>1, <2>4 DEF Known
  <2>. QED  BY <2>2, <2>5 DEF Stays
<1>6. ASSUME NEW c \in Clients, SaveDashboard(c)
      PROVE  Known' \subseteq Known /\ \A x \in Clients : Stays(x)
  <2>1. calls[c].body \in Known
    BY <1>6 DEF SaveDashboard, Known
  <2>2. Range(dashboards)' \subseteq Range(dashboards) \cup {calls[c].body}
    BY <1>6 DEF SaveDashboard, Range
  <2>3. Answer(c, calls[c].body)
    BY <1>6 DEF SaveDashboard
  <2>. QED  BY <1>3, <2>1, <2>2, <2>3 DEF Known
<1>7. ASSUME NEW c \in Clients, DeleteDashboard(c)
      PROVE  Known' \subseteq Known /\ \A x \in Clients : Stays(x)
  <2>1. Answer(c, copies[c])
    BY <1>7 DEF DeleteDashboard
  <2>2. Range(dashboards)' \subseteq Range(dashboards)
    BY <1>7 DEF DeleteDashboard, Range, Restrict
  <2>3. copies[c] = NoCopy \/ copies[c] \in Known
    BY <1>0 DEF Known, Range
  <2>. QED  BY <1>3, <2>1, <2>2, <2>3 DEF Known
<1>8. CASE \/ \E t \in Tools : CallTool(t) \/ AskAPI(t) \/ ToolAnswers(t)
           \/ Interrupt \/ Expire \/ ShutdownAPI \/ Tick
  <2>1. dashboards' = dashboards /\ copies' = copies /\ calls' = calls
    BY <1>8 DEF CallTool, AskAPI, ToolAnswers, SetTool, Interrupt, Expire, ShutdownAPI, Tick
  <2>2. Known' = Known
    BY <2>1 DEF Known
  <2>. QED  BY <2>1, <2>2 DEF Stays
<1>9. CASE ShutdownMCP \/ Crash
  <2>1. /\ dashboards' = << >> /\ copies' = copies
        /\ calls' = [c \in Clients |->
                        IF c \in Active THEN NoCall ELSE calls[c]]
    BY <1>9 DEF ShutdownMCP, Crash, Exit
  <2>2. \A c \in Clients : calls'[c].op \notin {"storing", "delete", "save"}
    BY <2>1 DEF Active, NoCall
  <2>3. Range(dashboards)' = {}
    BY <2>1, DOMAIN << >> = {} DEF Range
  <2>4. Known' \subseteq Known
    BY <2>1, <2>2, <2>3 DEF Known
  <2>. QED  BY <2>2, <2>4 DEF Stays
<1>10. CASE Start
  <2>1. dashboards' = [id \in {Seed.id} |-> Seed] /\ copies' = copies /\ calls' = calls
    BY <1>10 DEF Start
  <2>2. Range(dashboards)' \subseteq {Seed}
    BY <2>1 DEF Range
  <2>3. Seed \in Made
    BY DEF Made
  <2>4. Known' \subseteq Known \cup {Seed}
    BY <2>1, <2>2 DEF Known
  <2>. QED  BY <2>1, <2>3, <2>4 DEF Stays
<1>. QED
  BY <1>1, <1>2, <1>4, <1>5, <1>6, <1>7, <1>8, <1>9, <1>10 DEF Next

\* A completed widget is complete, whatever it lacked.
LEMMA CompletedIsComplete ==
  ASSUME NEW w, IsWidget(w), NEW id, NEW chart, chart # "", w.id = "" => id # "",
         w.query = "" /\ w.metric # "" => QueryOf(Or(w.aggregation, "sum"), w.metric) # ""
  PROVE  IsWidget(Completed(w, id, chart)) /\ Complete(Completed(w, id, chart))
<1>. DEFINE made == QueryOf(Or(w.aggregation, "sum"), w.metric)
            query == IF w.query = "" /\ w.metric # "" THEN made ELSE w.query
            e == Completed(w, id, chart)
<1>1. w.metric # "" => query # ""
  <2>. HIDE DEF made
  <2>1. w.query = "" /\ w.metric # "" => made # ""
    BY DEF made
  <2>. QED  BY <2>1
<1>2. e = [id |-> Or(w.id, id), type |-> Or(w.type, "timeseries"),
           aggregation |-> Or(w.aggregation, "sum"), chart |-> Or(w.chart, chart),
           metric |-> w.metric, query |-> query]
  <2>. HIDE DEF made
  <2>1. e = [w EXCEPT !.id = Or(w.id, id), !.type = Or(w.type, "timeseries"),
                      !.aggregation = Or(w.aggregation, "sum"), !.chart = Or(w.chart, chart),
                      !.query = query]
    BY DEF Completed, made
  <2>2. w = [id |-> w.id, type |-> w.type, aggregation |-> w.aggregation,
             chart |-> w.chart, metric |-> w.metric, query |-> w.query]
    BY DEF IsWidget
  <2>3. PICK x : x = w
    OBVIOUS
  <2>4. PICK i, t, a, c, q : /\ i = Or(w.id, id) /\ t = Or(w.type, "timeseries")
                             /\ a = Or(w.aggregation, "sum") /\ c = Or(w.chart, chart) /\ q = query
    OBVIOUS
  <2>. HIDE DEF query, e
  <2>5. x = [id |-> w.id, type |-> w.type, aggregation |-> w.aggregation,
             chart |-> w.chart, metric |-> w.metric, query |-> w.query]
    BY <2>2, <2>3
  <2>6. e = [x EXCEPT !.id = i, !.type = t, !.aggregation = a, !.chart = c, !.query = q]
    BY <2>1, <2>3, <2>4
  <2>7. e = [id |-> i, type |-> t, aggregation |-> a, chart |-> c, metric |-> w.metric, query |-> q]
    BY ONLY <2>5, <2>6
  <2>. QED  BY <2>4, <2>7
<1>. HIDE DEF query
<1>3. /\ e.id = Or(w.id, id) /\ e.type = Or(w.type, "timeseries")
      /\ e.aggregation = Or(w.aggregation, "sum") /\ e.chart = Or(w.chart, chart)
      /\ e.metric = w.metric /\ e.query = query /\ IsWidget(e)
  <2>. HIDE DEF e
  <2>. QED  BY <1>2 DEF IsWidget
<1>. HIDE DEF e
<1>4. e.id # "" /\ e.type # "" /\ e.aggregation # "" /\ e.chart # ""
  BY <1>3 DEF Or
<1>5. Complete(e)
  BY <1>1, <1>3, <1>4 DEF Complete
<1>. QED  BY <1>3, <1>5 DEF e

\* What is left of the fields that NormalShape does not speak of.
LEMMA NormalRest ==
  ASSUME NEW d, NEW now, NEW n
  PROVE  LET e == Normal(d, now, n)
         IN  /\ e.name # ""
             /\ e.refresh = (IF d.refresh <= 0 THEN 5 ELSE d.refresh)
             /\ DOMAIN e.widgets = DOMAIN d.widgets
             /\ \A i \in DOMAIN d.widgets :
                   e.widgets[i] = WithDefaults(d.widgets[i], NewId(n + IdsUpTo(d, i)))
<1>. DEFINE created == IF d.id = "" \/ d.created = 0 THEN now ELSE d.created
            e == Stamped(d, created, n)
            w == [i \in DOMAIN d.widgets |-> WithDefaults(d.widgets[i], NewId(n + IdsUpTo(d, i)))]
            r == IF d.refresh <= 0 THEN 5 ELSE d.refresh
<1>1. Normal(d, now, n) = e
  BY DEF Normal
<1>2. e = [id |-> Or(d.id, NewId(n + 1)), name |-> Or(d.name, "Operational dashboard"),
           refresh |-> r, created |-> created, widgets |-> w]
  <2>. HIDE DEF created
  <2>. QED  BY DEF Stamped
<1>. HIDE DEF created, w, r
<1>3. e.name = Or(d.name, "Operational dashboard") /\ e.widgets = w /\ e.refresh = r
  <2>. HIDE DEF e
  <2>. QED  BY <1>2
<1>. HIDE DEF e
<1>4. Or(d.name, "Operational dashboard") # ""
  BY DEF Or
<1>. QED  BY <1>1, <1>3, <1>4 DEF w, r

\* Whatever a client posts, of its own or a copy of what it has read.
LEMMA BodiesArePosted ==
  ASSUME IInv, IWhole, NEW c \in Clients, NEW body \in Bodies(c)
  PROVE  Posted(body)
<1>1. ASSUME NEW d, NEW draft \in Drafts, d.refresh = draft.refresh, d.widgets = draft.widgets
      PROVE  Posted(d)
  BY <1>1, DraftShape, QueryAssumption DEF Posted
<1>2. CASE body \in Drafts
  BY <1>1, <1>2
<1>3. CASE copies[c] # NoCopy /\ body \in Edited(copies[c])
  <2>1. copies[c] \in Known /\ copies[c] \in Held
    <3>1. copies = [x \in Clients |-> copies[x]]
      BY DEF IInv, IType
    <3>. QED  BY <1>3, <3>1 DEF Known, Held, Range
  <2>2. Whole(copies[c]) /\ Shape(copies[c])
    BY <2>1 DEF IInv, IHeld, IWhole, Saved
  <2>. QED  BY <1>1, <1>3, <2>2, EditedShape DEF Whole
<1>. QED  BY <1>2, <1>3 DEF Bodies

\* What Save makes of a body posted.
LEMMA NormalIsWhole ==
  ASSUME IInv, IWhole, NEW c \in Completing
  PROVE  Whole(Normal(calls[c].body, clock, ids))
<1>. DEFINE body == calls[c].body
            e == Normal(body, clock, ids)
            id(i) == NewId(ids + IdsUpTo(body, i))
<1>1. /\ Shape(body) /\ Posted(body) /\ IsFiniteSet(DOMAIN body.widgets)
      /\ ids + NeededIds(body) <= MaxIds
  BY DEF Completing, IInv, IHeld, IWhole, Shape
<1>2. /\ ids \in Nat /\ MaxIds \in Nat /\ clock \in Nat /\ clock # 0
  BY ProcessAssumption DEF IInv, IType
<1>. HIDE DEF body
<1>3. NeededIds(body) \in Nat
  BY <1>1, IdsNeeded
<1>4. ASSUME NEW i \in DOMAIN body.widgets, body.widgets[i].id = ""
      PROVE  id(i) # ""
  <2>1. i \in Nameless(body)
    BY <1>4 DEF Nameless
  <2>2. IdsUpTo(body, i) \in 1 .. NeededIds(body)
    BY <1>1, <2>1, IdsUpToNeeded DEF Posted
  <2>3. ids + IdsUpTo(body, i) \in 1 .. MaxIds
    BY <1>1, <1>2, <1>3, <2>2
  <2>. QED  BY <2>3, NewIdAssumption
<1>5. ASSUME NEW i \in DOMAIN body.widgets
      PROVE  IsWidget(WithDefaults(body.widgets[i], id(i))) /\ Complete(WithDefaults(body.widgets[i], id(i)))
  <2>. DEFINE chart == Or(body.widgets[i].type, "timeseries")
              w     == body.widgets[i]
  <2>1. chart # ""
    BY DEF Or
  <2>2. w.id = "" => id(i) # ""
    BY <1>4
  <2>3. /\ IsWidget(w)
        /\ w.query = "" /\ w.metric # "" => QueryOf(Or(w.aggregation, "sum"), w.metric) # ""
    BY <1>1 DEF Posted
  <2>4. WithDefaults(w, id(i)) = Completed(w, id(i), chart)
    BY DEF WithDefaults
  <2>. HIDE DEF id, chart, w
  <2>5. IsWidget(WithDefaults(w, id(i))) /\ Complete(WithDefaults(w, id(i)))
    BY <2>1, <2>2, <2>3, <2>4, CompletedIsComplete
  <2>. QED  BY <2>5 DEF w
<1>p. PICK now, n : now = clock /\ n = ids
  OBVIOUS
<1>e. e = Normal(body, now, n) /\ \A i : id(i) = NewId(n + IdsUpTo(body, i))
  BY <1>p
<1>. HIDE DEF e, id
<1>7. /\ e.name # ""
      /\ e.refresh = (IF body.refresh <= 0 THEN 5 ELSE body.refresh)
      /\ DOMAIN e.widgets = DOMAIN body.widgets
      /\ \A i \in DOMAIN body.widgets : e.widgets[i] = WithDefaults(body.widgets[i], id(i))
  BY ONLY NormalRest, <1>e
<1>8. e.created = IF body.id = "" \/ body.created = 0 THEN clock ELSE body.created
  BY ONLY <1>1, NormalShape, <1>p, <1>e
<1>9. \A i \in DOMAIN e.widgets : IsWidget(e.widgets[i]) /\ Complete(e.widgets[i])
  BY <1>5, <1>7
<1>10. e.refresh \in Int /\ e.refresh > 0
  <2>1. \A x \in Int : (IF x <= 0 THEN 5 ELSE x) \in Int /\ (IF x <= 0 THEN 5 ELSE x) > 0
    OBVIOUS
  <2>. QED  BY <1>1, <1>7, <2>1 DEF Posted
<1>11. e.created # 0
  BY <1>2, <1>8
<1>12. DOMAIN e.widgets \subseteq Int
  BY <1>1, <1>7 DEF Posted
<1>13. Posted(e)
  BY <1>9, <1>10, <1>12 DEF Posted, Complete
<1>14. Whole(e)
  BY <1>7, <1>9, <1>10, <1>11, <1>13 DEF Whole
<1>. QED  BY <1>14 DEF e, body

LEMMA MadeIsWhole ==
  ASSUME IInv, IWhole, NEW e \in Made
  PROVE  Whole(e)
<1>1. CASE e = Seed
  <2>1. clock # 0
    BY DEF IInv, IType
  <2>2. e.refresh = 5 /\ e.created = clock /\ e.name # "" /\ DOMAIN e.widgets = {}
    <3>1. e.widgets = << >>
      BY <1>1 DEF Seed
    <3>. QED  BY <1>1, <3>1, DOMAIN << >> = {} DEF Seed
  <2>3. e.refresh \in Int /\ e.refresh > 0 /\ DOMAIN e.widgets \subseteq Int
    <3>1. e.refresh = 5 /\ DOMAIN e.widgets = {}
      BY <2>2
    <3>. QED  BY ONLY <3>1
  <2>4. Posted(e)
    BY <2>2, <2>3, Zenon DEF Posted
  <2>. QED  BY <2>1, <2>2, <2>3, <2>4, Zenon DEF Whole
<1>2. CASE \E c \in Completing : e = Normal(calls[c].body, clock, ids)
  BY <1>2, NormalIsWhole
<1>. QED  BY <1>1, <1>2 DEF Made

LEMMA NoDomain == DOMAIN << >> = {}
  OBVIOUS

LEMMA WholeStep == IInv /\ IWhole /\ [Next]_vars => IWhole'
<1>. SUFFICES ASSUME IInv, IWhole, [Next]_vars PROVE IWhole'
  OBVIOUS
<1>1. /\ Known' \subseteq Known \cup Made
      /\ \A c \in Clients : Stays(c) \/ calls[c].body' \in Bodies(c)
  BY Origins
<1>2. \A d : Posted(d) => Posted(d)'
  BY DEF Posted, IsWidget
<1>3. \A d : Whole(d) => Whole(d)'
  BY <1>2 DEF Whole, Complete
<1>4. (\A d \in Known : Whole(d))'
  BY <1>1, <1>3, MadeIsWhole DEF IWhole
<1>5. (\A c \in Clients : calls[c].op = "save" => Posted(calls[c].body))'
  <2>. SUFFICES ASSUME NEW c \in Clients, (calls[c].op)' = "save"
                PROVE  Posted(calls[c].body)'
    OBVIOUS
  <2>1. CASE calls[c]' = calls[c]
    <3>1. Posted(calls[c].body)
      BY <2>1 DEF IWhole
    <3>. QED  BY <1>2, <2>1, <3>1
  <2>2. CASE calls[c].body' \in Bodies(c)
    <3>1. PICK b \in Bodies(c) : calls[c].body' = b
      BY <2>2
    <3>. QED  BY <1>2, <3>1, BodiesArePosted
  <2>. QED  BY <1>1, <2>1, <2>2 DEF Stays
<1>6. (\A id \in DOMAIN dashboards : dashboards[id].id = id)'
  <2>1. CASE UNCHANGED dashboards
    BY <2>1 DEF IWhole
  <2>2. ASSUME NEW c \in Clients, SaveDashboard(c)
        PROVE  (\A id \in DOMAIN dashboards : dashboards[id].id = id)'
    <3>. DEFINE d == calls[c].body
    <3>1. dashboards' = [id \in DOMAIN dashboards \cup {d.id} |->
                           IF id = d.id THEN d ELSE dashboards[id]]
      BY <2>2 DEF SaveDashboard
    <3>. HIDE DEF d
    <3>. QED  BY <3>1 DEF IWhole
  <2>3. ASSUME NEW c \in Clients, DeleteDashboard(c)
        PROVE  (\A id \in DOMAIN dashboards : dashboards[id].id = id)'
    BY <2>3 DEF DeleteDashboard, Restrict, IWhole
  <2>4. CASE Start
    <3>1. PICK seed : seed = Seed
      OBVIOUS
    <3>2. dashboards' = [id \in {seed.id} |-> seed]
      BY <2>4, <3>1 DEF Start
    <3>. QED  BY <3>2
  <2>5. CASE ShutdownMCP \/ Crash
    <3>1. dashboards' = << >>
      BY <2>5 DEF ShutdownMCP, Crash, Exit
    <3>. QED  BY <3>1, NoDomain
  <2>6. ASSUME NEW c \in Clients, NEW op, NEW body,
               Call(c, op, body) \/ ListDashboards(c) \/ Save(c)
        PROVE  UNCHANGED dashboards
    BY <2>6 DEF Call, ListDashboards, Save
  <2>7. CASE \/ \E t \in Tools : CallTool(t) \/ AskAPI(t) \/ ToolAnswers(t)
             \/ Interrupt \/ Expire \/ ShutdownAPI \/ Tick \/ UNCHANGED vars
    BY <2>1, <2>7 DEF CallTool, AskAPI, ToolAnswers, SetTool, Interrupt, Expire, ShutdownAPI, Tick, vars
  <2>. QED  BY <2>1, <2>2, <2>3, <2>4, <2>5, <2>6, <2>7 DEF Next
<1>. QED  BY <1>4, <1>5, <1>6 DEF IWhole

LEMMA StatesStep == IInv /\ IStates /\ [Next]_vars => IStates'
<1>. SUFFICES ASSUME IInv, IStates, [Next]_vars PROVE IStates'
  OBVIOUS
<1>. DEFINE Ops    == {"none", "list", "save", "storing", "delete"}
            States == {"idle", "called", "asking"}
            IMain  == /\ phase \in {"serving", "closing", "closing MCP", "stopped"}
                      /\ mcp \in BOOLEAN /\ expired \in BOOLEAN
                      /\ starts \in 0 .. MaxStarts /\ clock \in 1 .. MaxClock
            ICalls == \A c \in Clients : calls[c].op \in Ops
            ITools == \A t \in Tools : tools[t] \in States
<1>0. /\ calls = [c \in Clients |-> calls[c]]
      /\ tools = [t \in Tools |-> tools[t]]
      /\ MaxStarts \in Nat /\ MaxClock \in Nat
  BY ProcessAssumption DEF IInv, IType
<1>i. IMain /\ ICalls /\ ITools
  BY DEF IStates
<1>q. ASSUME IMain', ICalls', ITools' PROVE IStates'
  BY <1>q DEF IStates
<1>a. UNCHANGED <<phase, mcp, expired, starts, clock>> => IMain'
  BY <1>i
<1>b. UNCHANGED calls => ICalls'
  BY <1>i
<1>c. UNCHANGED tools => ITools'
  BY <1>i
<1>s. ASSUME NEW c \in Clients, NEW op \in Ops, NEW body,
             calls' = [calls EXCEPT ![c] = [op |-> op, body |-> body]]
      PROVE  ICalls'
  BY <1>0, <1>i, <1>s
<1>. HIDE DEF IMain, ICalls, ITools
<1>1. CASE UNCHANGED vars
  BY <1>1, <1>a, <1>b, <1>c, <1>q DEF vars
<1>2. ASSUME NEW c \in Clients, NEW op \in {"list", "save", "delete"}, NEW body, Call(c, op, body)
      PROVE  IStates'
  BY <1>2, <1>a, <1>c, <1>s, <1>q DEF Call, server
<1>3. ASSUME NEW c \in Clients, NEW d, Answer(c, d)
      PROVE  IStates'
  BY <1>3, <1>a, <1>c, <1>s, <1>q DEF Answer, server, NoCall
<1>4. ASSUME NEW c \in Clients, Save(c) PROVE IStates'
  <2>1. PICK x : calls' = [calls EXCEPT ![c] = [op |-> "storing", body |-> x]]
    BY <1>4 DEF Save
  <2>. QED  BY <1>4, <2>1, <1>a, <1>c, <1>s, <1>q DEF Save, server
<1>5. ASSUME NEW c \in Clients, ListDashboards(c) \/ SaveDashboard(c) \/ DeleteDashboard(c)
      PROVE  IStates'
  BY <1>3, <1>5 DEF ListDashboards, SaveDashboard, DeleteDashboard
<1>6. ASSUME NEW t \in Tools, CallTool(t) \/ AskAPI(t) \/ ToolAnswers(t) PROVE IStates'
  <2>1. PICK state \in States : SetTool(t, state)
    BY <1>6 DEF CallTool, AskAPI, ToolAnswers
  <2>2. tools' = [tools EXCEPT ![t] = state]
    BY <2>1 DEF SetTool
  <2>3. ITools'
    BY <1>0, <1>i, <2>2 DEF ITools
  <2>. QED  BY <2>1, <2>3, <1>a, <1>b, <1>q DEF SetTool, server
<1>7. CASE Start
  <2>0. starts' \in 0 .. MaxStarts
    BY <1>0, <1>i, <1>7 DEF Start, IMain
  <2>1. IMain'
    BY <1>i, <1>7, <2>0 DEF Start, IMain
  <2>. QED  BY <1>7, <2>1, <1>b, <1>c, <1>q DEF Start
<1>8. CASE Interrupt \/ Expire \/ ShutdownAPI
  <2>1. IMain'
    BY <1>i, <1>8 DEF Interrupt, Expire, ShutdownAPI, IMain
  <2>. QED  BY <1>8, <2>1, <1>b, <1>c, <1>q DEF Interrupt, Expire, ShutdownAPI
<1>9. CASE ShutdownMCP \/ Crash
  <2>1. Exit
    BY <1>9 DEF ShutdownMCP, Crash
  <2>2. IMain'
    BY <1>i, <2>1 DEF Exit, IMain
  <2>3. ICalls'
    BY <1>i, <2>1 DEF Exit, ICalls, NoCall
  <2>4. ITools'
    BY <1>i, <2>1 DEF Exit, ITools
  <2>. QED  BY <2>2, <2>3, <2>4, <1>q
<1>10. CASE Tick
  <2>0. clock' \in 1 .. MaxClock
    <3>1. clock \in 1 .. MaxClock /\ clock < MaxClock /\ clock' = clock + 1
      BY <1>i, <1>10 DEF Tick, IMain
    <3>. QED  BY ONLY <1>0, <3>1
  <2>1. IMain'
    BY <1>i, <1>10, <2>0 DEF Tick, server, IMain
  <2>. QED  BY <1>10, <2>1, <1>b, <1>c, <1>q DEF Tick
<1>. QED  BY <1>1, <1>2, <1>4, <1>5, <1>6, <1>7, <1>8, <1>9, <1>10 DEF Next

-----------------------------------------------------------------------------
(* The theorems. *)

(* Every definition that is stored, answered or about to be stored went     *)
(* through Save: it has an id, a name, a period, complete widgets and a     *)
(* time of creation; for any number of clients, whatever they post, under   *)
(* whatever id and with whatever time (application/dashboards.go:30-76).    *)
THEOREM TypeCorrect == Spec => []TypeOK
<1>1. Init => IWhole /\ IStates
  <2>. SUFFICES ASSUME Init PROVE IWhole /\ IStates
    OBVIOUS
  <2>1. starts = 0 /\ dashboards = << >> /\ IInv
    BY InitInv DEF Init
  <2>2. Held = {} /\ Known \subseteq Held
    BY <2>1 DEF IInv, IHeld, Known, Held, Holding
  <2>3. IWhole
    BY <2>1, <2>2, DOMAIN << >> = {} DEF IWhole, Init, NoCall
  <2>4. IStates
    <3>1. 0 \in 0 .. MaxStarts /\ 1 \in 1 .. MaxClock
      BY ProcessAssumption
    <3>. QED  BY <3>1 DEF IStates, Init, NoCall
  <2>. QED  BY <2>3, <2>4
<1>2. IInv /\ IWhole /\ IStates => TypeOK
  <2>. SUFFICES ASSUME IInv, IWhole, IStates PROVE TypeOK
    OBVIOUS
  <2>1. Known \subseteq Held
    BY DEF Known, Held, Holding
  <2>2. \A d \in Known : d.id # "" /\ Whole(d)
    BY <2>1 DEF IInv, IHeld, IWhole, Saved
  <2>3. ids \in 0 .. MaxIds
    BY DEF IInv, IType
  <2>. QED  BY <2>2, <2>3 DEF IStates, IWhole, Whole, Complete, TypeOK
<1>. QED  BY Inductive, <1>1, <1>2, WholeStep, StatesStep, PTL DEF Spec

(* However many clients read, edit, save and delete dashboards at the same  *)
(* time, and through crashes and restarts, all versions of a definition     *)
(* agree on when it was created, except of the one each start creates anew  *)
(* and of those under whose id a client has posted a time of its own, or    *)
(* none: whatever clients post, they disturb no other definition            *)
(* (dashboards.go:30-47, memory/store.go:318-331).                          *)
THEOREM OneCreation == Spec => []CreatedOnce
<1>1. IInv => CreatedOnce
  <2>1. Known \subseteq Held
    BY DEF Known, Held, Holding
  <2>. QED  BY <2>1 DEF IInv, IHeld, Agree, CreatedOnce
<1>. QED  BY Inductive, <1>1, PTL

(* A shutdown that takes less than five seconds ends no request and no tool *)
(* call before it is answered, for any number of them (main.go:68-74).      *)
THEOREM GracefulShutdown == Spec => ShutdownCutsNothingOff
<1>1. IInv /\ [Next]_vars => [phase = "closing MCP" /\ phase' = "stopped" /\ ~expired
                                => calls' = calls /\ tools' = tools]_vars
  <2>. SUFFICES ASSUME IInv, Next, phase = "closing MCP", phase' = "stopped", ~expired
                PROVE  calls' = calls /\ tools' = tools
    OBVIOUS
  <2>. USE DEF IInv, IType, IShutdown
  <2>1. CASE ShutdownMCP
    <3>1. Active = {} /\ InMCP = {}
      BY <2>1 DEF ShutdownMCP
    <3>2. /\ calls' = [c \in Clients |-> calls[c]]
          /\ tools' = [t \in Tools |-> tools[t]]
      BY <2>1, <3>1 DEF ShutdownMCP, Exit
    <3>. QED  BY <3>2
  <2>2. ASSUME NEW c \in Clients, NEW op, NEW body, Call(c, op, body) PROVE FALSE
    BY <2>2 DEF Call
  <2>3. ASSUME NEW c \in Clients,
               ListDashboards(c) \/ Save(c) \/ SaveDashboard(c) \/ DeleteDashboard(c)
        PROVE  FALSE
    BY <2>3 DEF ListDashboards, Save, SaveDashboard, DeleteDashboard, Answer, server
  <2>4. ASSUME NEW t \in Tools, CallTool(t) \/ AskAPI(t) \/ ToolAnswers(t) PROVE FALSE
    BY <2>4 DEF CallTool, AskAPI, ToolAnswers, SetTool, server
  <2>5. CASE Start \/ Interrupt \/ Expire \/ ShutdownAPI \/ Crash \/ Tick
    BY <2>5 DEF Start, Interrupt, Expire, ShutdownAPI, Crash, Tick, server
  <2>. QED  BY <2>1, <2>2, <2>3, <2>4, <2>5 DEF Next
<1>. QED  BY Inductive, <1>1, PTL DEF Spec, ShutdownCutsNothingOff
=============================================================================
