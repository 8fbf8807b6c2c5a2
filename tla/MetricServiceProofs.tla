------------------------- MODULE MetricServiceProofs -------------------------
(***************************************************************************)
(* Lemmas about the steps that MemoryService and DynamoService share: what  *)
(* every handler of a POST request knows about its batch and its retention. *)
(***************************************************************************)
EXTENDS MetricService, TLAPS

-----------------------------------------------------------------------------
(* Retentions. *)

\* No retention is as long as time.Duration can be.
RetentionFits ==
    /\ HalfRange > 7
    /\ \A d \in SubmittedDays \cup {InitialDays} : d < HalfRange

LEMMA LifetimeExact ==
  ASSUME NEW d \in Nat, d < HalfRange
  PROVE  Lifetime(d) = d
<1>1. HalfRange \in Nat /\ HalfRange > 0
  BY ServiceAssumption
<1>2. (d + HalfRange) % (2 * HalfRange) = d + HalfRange
  BY <1>1
<1>. QED  BY <1>1, <1>2 DEF Lifetime

LEMMA DaysFit ==
  ASSUME RetentionFits
  PROVE  /\ ConfiguredDays(InitialDays) \in 1 .. HalfRange - 1
         /\ \A d \in SubmittedDays : SavedDays(d) \in 1 .. HalfRange - 1
<1>1. /\ HalfRange \in Int /\ HalfRange > 7 /\ InitialDays \in Int /\ InitialDays < HalfRange
      /\ \A d \in SubmittedDays : d \in Int /\ d < HalfRange
  BY ServiceAssumption DEF RetentionFits
<1>2. ConfiguredDays(InitialDays) \in 1 .. HalfRange - 1
  BY <1>1 DEF ConfiguredDays
<1>3. ASSUME NEW d \in SubmittedDays PROVE SavedDays(d) \in 1 .. HalfRange - 1
  <2>1. d \in Int /\ d < HalfRange /\ HalfRange \in Int /\ HalfRange > 7
    BY <1>1
  <2>. QED  BY <2>1 DEF SavedDays
<1>. QED  BY <1>2, <1>3

-----------------------------------------------------------------------------
(* Handlers. *)

IsIngest(h) ==
    h = [state |-> h.state, batch |-> h.batch, events |-> h.events, now |-> h.now,
         days |-> h.days, seen |-> h.seen, expires |-> h.expires, next |-> h.next]

\* The batch of the request was found valid as a whole, at a time gone by.
Passed(h) ==
    /\ h.batch \in Batches /\ h.batch # <<>>
    /\ DOMAIN h.events = DOMAIN h.batch
    /\ \A i \in DOMAIN h.batch : Valid(h.batch[i])

Handling == {"validated", "saving", "putting", "accepted"}

IHandlers ==
    /\ ingests = [r \in Ingests |-> ingests[r]]
    /\ \A r \in Ingests :
          /\ IsIngest(ingests[r])
          /\ ingests[r].batch \in Batches \cup {<<>>}
          /\ ingests[r].state \in {"free", "refused", "broken"} \cup Handling
          /\ ingests[r].state \in Handling => Passed(ingests[r])
          /\ ingests[r].state \in {"free", "validated", "saving"} => ingests[r].next = 1

\* The retention a handler goes by was in force while it ran.
IRetention ==
    /\ clock \in Nat
    /\ days \in 1 .. HalfRange - 1
    /\ \A r \in Ingests :
          /\ ingests[r].state \in Handling => ingests[r].now \in Nat /\ ingests[r].now <= clock
          /\ ingests[r].state = "validated" => days \in ingests[r].seen
          /\ ingests[r].state = "saving" =>
                ingests[r].days \in ingests[r].seen /\ ingests[r].days \in 1 .. HalfRange - 1

\* The steps before a repository is called leave all other handlers alone,
\* and what a restart ends.
Moves ==
    \A r \in Ingests :
        \/ ingests'[r] = ingests[r]
        \/ /\ ingests[r].state \in {"free", "validated"}
           /\ ingests'[r].state \in {"refused", "validated", "saving"}
           /\ ingests'[r].next = 1

Breaks ==
    \A r \in Ingests :
        \/ ingests'[r] = ingests[r]
        \/ /\ ingests[r].state \in {"validated", "saving", "putting"}
           /\ ingests'[r] = [ingests[r] EXCEPT !.state = "broken"]

LEMMA HandlersInit == ServiceInit => IHandlers
  BY DEF ServiceInit, FreeIngest, IHandlers, IsIngest, Handling

LEMMA RetentionInit == RetentionFits /\ ServiceInit => IRetention
<1>. SUFFICES ASSUME RetentionFits, ServiceInit PROVE IRetention
  OBVIOUS
<1>1. days \in 1 .. HalfRange - 1 /\ clock \in Nat
  BY DaysFit DEF ServiceInit
<1>2. \A r \in Ingests : ingests[r].state = "free"
  BY DEF ServiceInit, FreeIngest
<1>. QED  BY <1>1, <1>2 DEF IRetention, Handling

\* One handler goes on from state "free" or "validated".
LEMMA OneMoves ==
  ASSUME IHandlers, NEW r \in Ingests, NEW h, ingests' = [ingests EXCEPT ![r] = h],
         IsIngest(h), ingests[r].state \in {"free", "validated"},
         h.state \in {"refused", "validated", "saving"}, h.next = 1, h.batch \in Batches,
         h.state # "refused" => Passed(h)
  PROVE  IHandlers' /\ Moves
<1>1. \A p \in Ingests : ingests'[p] = IF p = r THEN h ELSE ingests[p]
  BY DEF IHandlers
<1>2. ingests' = [p \in Ingests |-> ingests'[p]]
  BY DEF IHandlers
<1>3. Moves
  BY <1>1 DEF Moves
<1>4. IHandlers'
  BY <1>1, <1>2 DEF IHandlers, IsIngest, Passed, Handling
<1>. QED  BY <1>3, <1>4

LEMMA HandlersStep == IHandlers /\ ServiceNext => IHandlers' /\ Moves
<1>. SUFFICES ASSUME IHandlers, ServiceNext PROVE IHandlers' /\ Moves
  OBVIOUS
<1>1. ASSUME NEW r \in Ingests, NEW batch \in Batches, RefuseBatch(r, batch)
      PROVE  IHandlers' /\ Moves
  <2>0. PICK h : h = [ingests[r] EXCEPT !.state = "refused", !.batch = batch]
    OBVIOUS
  <2>1. ingests' = [ingests EXCEPT ![r] = h] /\ ingests[r].state = "free"
    BY <1>1, <2>0 DEF RefuseBatch, IHandlers
  <2>a. IsIngest(ingests[r]) /\ ingests[r].next = 1
    BY <2>1 DEF IHandlers
  <2>2. IsIngest(h) /\ h.state = "refused" /\ h.next = 1 /\ h.batch \in Batches
    BY <2>0, <2>a DEF IsIngest
  <2>. QED  BY <2>1, <2>2, OneMoves
<1>2. ASSUME NEW r \in Ingests, NEW batch \in Batches, Validate(r, batch)
      PROVE  IHandlers' /\ Moves
  <2>1. PICK events : /\ DOMAIN events = DOMAIN batch
                      /\ ingests' = [ingests EXCEPT ![r] =
                            [@ EXCEPT !.state = "validated", !.batch = batch, !.events = events,
                                      !.now = clock, !.seen = {days}]]
    BY <1>2 DEF Validate, Accept
  <2>0. PICK h : h = [ingests[r] EXCEPT !.state = "validated", !.batch = batch,
                                        !.events = events, !.now = clock, !.seen = {days}]
    OBVIOUS
  <2>2. /\ ingests' = [ingests EXCEPT ![r] = h] /\ ingests[r].state = "free"
        /\ batch # <<>> /\ \A i \in DOMAIN batch : Valid(batch[i])
    BY <1>2, <2>0, <2>1 DEF Validate
  <2>a. IsIngest(ingests[r]) /\ ingests[r].next = 1
    BY <2>2 DEF IHandlers
  <2>3. /\ IsIngest(h) /\ h.state = "validated" /\ h.next = 1
        /\ h.batch = batch /\ h.events = events
    BY <2>0, <2>a DEF IsIngest
  <2>4. Passed(h)
    BY <2>1, <2>2, <2>3 DEF Passed
  <2>. QED  BY <2>2, <2>3, <2>4, OneMoves
<1>3. ASSUME NEW r \in Ingests, ReadConfig(r) PROVE IHandlers' /\ Moves
  <2>0. PICK h : h = [ingests[r] EXCEPT !.state = "saving", !.days = days]
    OBVIOUS
  <2>1. ingests' = [ingests EXCEPT ![r] = h] /\ ingests[r].state = "validated"
    BY <1>3, <2>0 DEF ReadConfig, IHandlers
  <2>a. IsIngest(ingests[r]) /\ ingests[r].next = 1
    BY <2>1 DEF IHandlers
  <2>2. /\ IsIngest(h) /\ h.state = "saving" /\ h.next = 1
        /\ h.batch = ingests[r].batch /\ h.events = ingests[r].events
    BY <2>0, <2>a DEF IsIngest
  <2>3. Passed(h) /\ h.batch \in Batches
    BY <2>1, <2>2 DEF IHandlers, Passed, Handling
  <2>. QED  BY <2>1, <2>2, <2>3, OneMoves
<1>4. ASSUME NEW d \in SubmittedDays, SaveConfig(d) PROVE IHandlers' /\ Moves
  <2>1. \A p \in Ingests : ingests'[p] = IF ingests[p].state = "validated"
                                         THEN [ingests[p] EXCEPT !.seen = @ \cup {days'}]
                                         ELSE ingests[p]
    BY <1>4 DEF SaveConfig
  <2>2. ingests' = [p \in Ingests |-> ingests'[p]]
    BY <1>4 DEF SaveConfig
  <2>3. ASSUME NEW p \in Ingests
        PROVE  /\ IsIngest(ingests'[p])
               /\ ingests'[p].state = ingests[p].state /\ ingests'[p].next = ingests[p].next
               /\ ingests'[p].batch = ingests[p].batch /\ ingests'[p].events = ingests[p].events
               /\ ingests'[p] = ingests[p] \/ ingests[p].state = "validated"
    BY <2>1 DEF IHandlers, IsIngest
  <2>4. Moves
    BY <2>3 DEF Moves, IHandlers
  <2>5. IHandlers'
    BY <2>2, <2>3 DEF IHandlers, Passed
  <2>. QED  BY <2>4, <2>5
<1>5. CASE Tick
  BY <1>5 DEF Tick, IHandlers, Moves
<1>. QED  BY <1>1, <1>2, <1>3, <1>4, <1>5 DEF ServiceNext

LEMMA HandlersRestart == IHandlers /\ ServiceRestart => IHandlers' /\ Breaks
<1>. SUFFICES ASSUME IHandlers, ServiceRestart PROVE IHandlers' /\ Breaks
  OBVIOUS
<1>1. \A r \in Ingests : ingests'[r] = IF ingests[r].state \in {"free", "accepted", "refused"}
                                       THEN ingests[r]
                                       ELSE [ingests[r] EXCEPT !.state = "broken"]
  BY DEF ServiceRestart
<1>2. ingests' = [r \in Ingests |-> ingests'[r]]
  BY DEF ServiceRestart
<1>3. ASSUME NEW r \in Ingests, ingests[r].state \notin {"free", "accepted", "refused"}
      PROVE  /\ IsIngest(ingests'[r]) /\ ingests'[r].state = "broken"
             /\ ingests'[r].batch = ingests[r].batch
  BY <1>1, <1>3 DEF IHandlers, IsIngest
<1>4. IHandlers'
  <2>1. ASSUME NEW r \in Ingests, ingests[r].state \in {"free", "accepted", "refused"}
        PROVE  ingests'[r] = ingests[r]
    BY <1>1, <2>1
  <2>2. ASSUME NEW r \in Ingests
        PROVE  ingests'[r].batch = ingests[r].batch
    BY <1>3, <2>1
  <2>. QED  BY <1>2, <1>3, <2>1, <2>2 DEF IHandlers, Handling, Passed
<1>5. Breaks
  <2>1. ASSUME NEW r \in Ingests, ingests[r].state = "broken" PROVE ingests'[r] = ingests[r]
    BY <1>1, <2>1 DEF IHandlers, IsIngest
  <2>. QED  BY <1>1, <2>1 DEF Breaks, IHandlers, Handling
<1>. QED  BY <1>4, <1>5

LEMMA RetentionStep == RetentionFits /\ IHandlers /\ IRetention /\ ServiceNext => IRetention'
<1>. SUFFICES ASSUME RetentionFits, IHandlers, IRetention, ServiceNext PROVE IRetention'
  OBVIOUS
<1>0. clock \in Nat
  BY DEF IRetention
<1>1. ASSUME NEW r \in Ingests, NEW batch \in Batches, RefuseBatch(r, batch)
      PROVE  IRetention'
  <2>1. ingests' = [ingests EXCEPT ![r].state = "refused", ![r].batch = batch]
        /\ clock' = clock /\ days' = days
    BY <1>1 DEF RefuseBatch
  <2>2. \A p \in Ingests : p # r => ingests'[p] = ingests[p]
    BY <2>1 DEF IHandlers
  <2>3. IsIngest(ingests[r])
    BY DEF IHandlers
  <2>4. ingests'[r].state = "refused"
    BY <2>1, <2>3 DEF IHandlers, IsIngest
  <2>. QED  BY <2>1, <2>2, <2>4 DEF IRetention, Handling
<1>2. ASSUME NEW r \in Ingests, NEW batch \in Batches, Validate(r, batch)
      PROVE  IRetention'
  <2>1. PICK events : ingests' = [ingests EXCEPT ![r] =
                            [@ EXCEPT !.state = "validated", !.batch = batch, !.events = events,
                                      !.now = clock, !.seen = {days}]]
    BY <1>2 DEF Validate, Accept
  <2>2. \A p \in Ingests : p # r => ingests'[p] = ingests[p]
    BY <2>1 DEF IHandlers
  <2>3. IsIngest(ingests[r])
    BY DEF IHandlers
  <2>4. ingests'[r].state = "validated" /\ ingests'[r].now = clock /\ ingests'[r].seen = {days}
    BY <2>1, <2>3 DEF IHandlers, IsIngest
  <2>5. clock' = clock /\ days' = days
    BY <1>2 DEF Validate
  <2>6. ingests'[r].now \in Nat /\ ingests'[r].now <= clock'
    BY <1>0, <2>4, <2>5
  <2>7. days' \in ingests'[r].seen
    BY <2>4, <2>5
  <2>. QED  BY <2>2, <2>4, <2>5, <2>6, <2>7 DEF IRetention, Handling
<1>3. ASSUME NEW r \in Ingests, ReadConfig(r) PROVE IRetention'
  <2>1. ingests' = [ingests EXCEPT ![r].state = "saving", ![r].days = days]
        /\ ingests[r].state = "validated" /\ clock' = clock /\ days' = days
    BY <1>3 DEF ReadConfig
  <2>2. \A p \in Ingests : p # r => ingests'[p] = ingests[p]
    BY <2>1 DEF IHandlers
  <2>3. IsIngest(ingests[r])
    BY DEF IHandlers
  <2>4. /\ ingests'[r].state = "saving" /\ ingests'[r].days = days
        /\ ingests'[r].seen = ingests[r].seen /\ ingests'[r].now = ingests[r].now
    BY <2>1, <2>3 DEF IHandlers, IsIngest
  <2>. QED  BY <2>1, <2>2, <2>4 DEF IRetention, Handling
<1>4. ASSUME NEW d \in SubmittedDays, SaveConfig(d) PROVE IRetention'
  <2>1. \A p \in Ingests : ingests'[p] = IF ingests[p].state = "validated"
                                         THEN [ingests[p] EXCEPT !.seen = @ \cup {days'}]
                                         ELSE ingests[p]
    BY <1>4 DEF SaveConfig
  <2>2. ASSUME NEW p \in Ingests
        PROVE  /\ ingests'[p].state = ingests[p].state /\ ingests'[p].days = ingests[p].days
               /\ ingests'[p].now = ingests[p].now
               /\ ingests[p].state # "validated" => ingests'[p].seen = ingests[p].seen
               /\ ingests[p].state = "validated" => days' \in ingests'[p].seen
    BY <2>1 DEF IHandlers, IsIngest
  <2>3. days' \in 1 .. HalfRange - 1
    BY <1>4, DaysFit DEF SaveConfig
  <2>4. clock' = clock
    BY <1>4 DEF SaveConfig
  <2>. QED  BY <2>2, <2>3, <2>4 DEF IRetention
<1>5. CASE Tick
  <2>1. clock' = clock + 1 /\ ingests' = ingests /\ days' = days
    BY <1>5 DEF Tick
  <2>2. clock' \in Nat /\ \A t \in Nat : t <= clock => t <= clock'
    BY <1>0, <2>1
  <2>. QED  BY <2>1, <2>2 DEF IRetention
<1>. QED  BY <1>1, <1>2, <1>3, <1>4, <1>5 DEF ServiceNext

LEMMA RetentionRestart == RetentionFits /\ IHandlers /\ IRetention /\ ServiceRestart => IRetention'
<1>. SUFFICES ASSUME RetentionFits, IHandlers, IRetention, ServiceRestart PROVE IRetention'
  OBVIOUS
<1>1. days' \in 1 .. HalfRange - 1 /\ clock' = clock
  BY DaysFit DEF ServiceRestart
<1>2. \A r \in Ingests :
         ingests'[r] = ingests[r] \/ ingests'[r].state = "broken"
  BY HandlersRestart DEF Breaks, IHandlers, IsIngest
<1>3. \A r \in Ingests : ingests'[r].state \in {"free", "accepted", "refused", "broken"}
  <2>1. ASSUME NEW r \in Ingests PROVE ingests'[r].state \in {"free", "accepted", "refused", "broken"}
    BY DEF ServiceRestart, IHandlers, IsIngest
  <2>. QED  BY <2>1
<1>. QED  BY <1>1, <1>2, <1>3 DEF IRetention, Handling

\* The retention of a handler about to save gives a time of expiry in force.
LEMMA ExpiryInForce ==
  ASSUME IRetention, NEW r \in Ingests, ingests[r].state = "saving"
  PROVE  \E d \in ingests[r].seen, t \in ingests[r].now .. clock :
            clock + Lifetime(ingests[r].days) = t + d
<1>1. /\ ingests[r].days \in ingests[r].seen /\ ingests[r].days \in 1 .. HalfRange - 1
      /\ ingests[r].now \in Nat /\ ingests[r].now <= clock /\ clock \in Nat
  BY DEF IRetention, Handling
<1>2. HalfRange \in Nat
  BY ServiceAssumption
<1>3. ingests[r].days \in Nat /\ ingests[r].days < HalfRange
  BY <1>1, <1>2
<1>4. Lifetime(ingests[r].days) = ingests[r].days
  BY <1>3, LifetimeExact
<1>5. clock \in ingests[r].now .. clock
  BY <1>1
<1>. QED  BY <1>1, <1>4, <1>5

-----------------------------------------------------------------------------
(* Events. *)

\* A validated event has its types, carries one trace id in both places, and
\* is named by a batch.
GoodEvent(e) ==
    /\ e \in EventType
    /\ e.trace = e.tags["trace_id"]
    /\ \E batch \in Batches : \E i \in DOMAIN batch : e.name = Trim(batch[i].name)

LEMMA ValidatedGood ==
  ASSUME NEW batch \in Batches, NEW i \in DOMAIN batch, NEW now \in Nat,
         NEW e \in Validated(batch[i], now)
  PROVE  GoodEvent(e)
<1>. DEFINE raw == batch[i]
<1>1. Trim(raw.name) \in STRING /\ raw.ts \in Int /\ Trim(raw.trace) \in TagValues \cup {""}
  BY BatchAssumption
<1>2. PICK t \in NormalTags(raw) :
         e = [name  |-> Trim(raw.name),
              ts    |-> IF raw.ts = 0 THEN now ELSE raw.ts,
              trace |-> TraceOf(raw, t),
              tags  |-> [t EXCEPT !["trace_id"] =
                           IF TraceOf(raw, t) # "" THEN TraceOf(raw, t) ELSE @]]
  BY DEF Validated
<1>3. t \in [TagKeys -> TagValues \cup {""}] /\ "trace_id" \in TagKeys
  BY DEF NormalTags, TagKeys
<1>. HIDE DEF raw
<1>4. TraceOf(raw, t) \in TagValues \cup {""}
  BY <1>1, <1>3 DEF TraceOf
<1>5. TraceOf(raw, t) = "" => t["trace_id"] = ""
  BY DEF TraceOf
<1>6. PICK v : v = IF TraceOf(raw, t) # "" THEN TraceOf(raw, t) ELSE t["trace_id"]
  OBVIOUS
<1>7. v \in TagValues \cup {""} /\ v = TraceOf(raw, t)
  BY <1>4, <1>5, <1>6
<1>8. [t EXCEPT !["trace_id"] = v] \in [TagKeys -> TagValues \cup {""}]
      /\ [t EXCEPT !["trace_id"] = v]["trace_id"] = v
  BY <1>3, <1>7
<1>9. PICK ts : ts = IF raw.ts = 0 THEN now ELSE raw.ts
  OBVIOUS
<1>10. ts \in Int
  <2>1. now \in Int
    OBVIOUS
  <2>. QED  BY <1>1, <1>9, <2>1
<1>11. e = [name |-> Trim(raw.name), ts |-> ts, trace |-> v, tags |-> [t EXCEPT !["trace_id"] = v]]
  BY <1>2, <1>6, <1>7, <1>9
<1>12. e \in EventType /\ e.trace = e.tags["trace_id"]
  BY <1>1, <1>7, <1>8, <1>10, <1>11 DEF EventType
<1>13. \E b \in Batches : \E j \in DOMAIN b : e.name = Trim(b[j].name)
  BY <1>11 DEF raw
<1>. QED  BY <1>12, <1>13 DEF GoodEvent

\* What a handler holds is validated, and retentions are positive.
IData ==
    /\ clock \in 1 .. MaxClock
    /\ days \in Nat /\ days # 0
    /\ \A r \in Ingests :
          /\ ingests[r].state \in Handling =>
                \A i \in DOMAIN ingests[r].batch : GoodEvent(ingests[r].events[i])
          /\ ingests[r].state = "saving" => ingests[r].days \in Nat

LEMMA DaysPositive ==
  /\ ConfiguredDays(InitialDays) \in Nat /\ ConfiguredDays(InitialDays) # 0
  /\ \A d \in SubmittedDays : SavedDays(d) \in Nat /\ SavedDays(d) # 0
<1>1. InitialDays \in Int /\ \A d \in SubmittedDays : d \in Int
  BY ServiceAssumption
<1>. QED  BY <1>1 DEF ConfiguredDays, SavedDays

LEMMA DataInit == ServiceInit => IData
<1>. SUFFICES ASSUME ServiceInit PROVE IData
  OBVIOUS
<1>1. clock = 1 /\ days = ConfiguredDays(InitialDays) /\ \A r \in Ingests : ingests[r].state = "free"
  BY DEF ServiceInit, FreeIngest
<1>2. MaxClock \in Nat /\ MaxClock # 0
  BY ServiceAssumption
<1>3. clock \in 1 .. MaxClock
  BY <1>1, <1>2
<1>. QED  BY <1>1, <1>3, DaysPositive DEF IData, Handling

LEMMA DataStep == IHandlers /\ IData /\ ServiceNext => IData'
<1>. SUFFICES ASSUME IHandlers, IData, ServiceNext PROVE IData'
  OBVIOUS
<1>0. MaxClock \in Nat /\ clock \in Nat /\ clock \in 1 .. MaxClock /\ days \in Nat /\ days # 0
  BY ServiceAssumption DEF IData
<1>1. ASSUME NEW r \in Ingests, NEW batch \in Batches, RefuseBatch(r, batch)
      PROVE  IData'
  <2>1. ingests' = [ingests EXCEPT ![r].state = "refused", ![r].batch = batch]
        /\ clock' = clock /\ days' = days
    BY <1>1 DEF RefuseBatch
  <2>2. \A p \in Ingests : p # r => ingests'[p] = ingests[p]
    BY <2>1 DEF IHandlers
  <2>3. IsIngest(ingests[r])
    BY DEF IHandlers
  <2>4. ingests'[r].state = "refused"
    BY <2>1, <2>3 DEF IHandlers, IsIngest
  <2>. QED  BY <2>1, <2>2, <2>4 DEF IData, Handling
<1>2. ASSUME NEW r \in Ingests, NEW batch \in Batches, Validate(r, batch)
      PROVE  IData'
  <2>1. PICK events : /\ \A i \in DOMAIN batch : events[i] \in Validated(batch[i], clock)
                      /\ ingests' = [ingests EXCEPT ![r] =
                            [@ EXCEPT !.state = "validated", !.batch = batch, !.events = events,
                                      !.now = clock, !.seen = {days}]]
    BY <1>2 DEF Validate, Accept
  <2>2. \A p \in Ingests : p # r => ingests'[p] = ingests[p]
    BY <2>1 DEF IHandlers
  <2>3. IsIngest(ingests[r])
    BY DEF IHandlers
  <2>4. ingests'[r].state = "validated" /\ ingests'[r].batch = batch /\ ingests'[r].events = events
    BY <2>1, <2>3 DEF IHandlers, IsIngest
  <2>5. clock' = clock /\ days' = days
    BY <1>2 DEF Validate
  <2>6. \A i \in DOMAIN batch : GoodEvent(events[i])
    BY <1>0, <2>1, ValidatedGood
  <2>. QED  BY <2>2, <2>4, <2>5, <2>6 DEF IData, Handling
<1>3. ASSUME NEW r \in Ingests, ReadConfig(r) PROVE IData'
  <2>1. ingests' = [ingests EXCEPT ![r].state = "saving", ![r].days = days]
        /\ ingests[r].state = "validated" /\ clock' = clock /\ days' = days
    BY <1>3 DEF ReadConfig
  <2>2. \A p \in Ingests : p # r => ingests'[p] = ingests[p]
    BY <2>1 DEF IHandlers
  <2>3. IsIngest(ingests[r])
    BY DEF IHandlers
  <2>4. /\ ingests'[r].state = "saving" /\ ingests'[r].days = days
        /\ ingests'[r].batch = ingests[r].batch /\ ingests'[r].events = ingests[r].events
    BY <2>1, <2>3 DEF IHandlers, IsIngest
  <2>. QED  BY <1>0, <2>1, <2>2, <2>4 DEF IData, Handling
<1>4. ASSUME NEW d \in SubmittedDays, SaveConfig(d) PROVE IData'
  <2>1. \A p \in Ingests : ingests'[p] = IF ingests[p].state = "validated"
                                         THEN [ingests[p] EXCEPT !.seen = @ \cup {days'}]
                                         ELSE ingests[p]
    BY <1>4 DEF SaveConfig
  <2>2. ASSUME NEW p \in Ingests
        PROVE  /\ ingests'[p].state = ingests[p].state /\ ingests'[p].days = ingests[p].days
               /\ ingests'[p].batch = ingests[p].batch /\ ingests'[p].events = ingests[p].events
    BY <2>1 DEF IHandlers, IsIngest
  <2>3. clock' = clock /\ days' = SavedDays(d)
    BY <1>4 DEF SaveConfig
  <2>. QED  BY <2>2, <2>3, DaysPositive DEF IData
<1>5. CASE Tick
  <2>1. clock' = clock + 1 /\ clock < MaxClock /\ ingests' = ingests /\ days' = days
    BY <1>5 DEF Tick
  <2>2. clock' \in 1 .. MaxClock
    BY <1>0, <2>1
  <2>. QED  BY <2>1, <2>2 DEF IData
<1>. QED  BY <1>1, <1>2, <1>3, <1>4, <1>5 DEF ServiceNext

LEMMA DataRestart == IHandlers /\ IData /\ ServiceRestart => IData'
<1>. SUFFICES ASSUME IHandlers, IData, ServiceRestart PROVE IData'
  OBVIOUS
<1>1. clock' = clock /\ days' = ConfiguredDays(InitialDays)
  BY DEF ServiceRestart
<1>2. \A r \in Ingests : ingests'[r] = ingests[r] \/ ingests'[r].state = "broken"
  BY HandlersRestart DEF Breaks, IHandlers, IsIngest
<1>. QED  BY <1>1, <1>2, DaysPositive DEF IData, Handling

LEMMA LifetimeType ==
  ASSUME NEW d \in Nat
  PROVE  Lifetime(d) \in Int
<1>1. HalfRange \in Nat /\ HalfRange > 0
  BY ServiceAssumption
<1>2. (d + HalfRange) % (2 * HalfRange) \in Int
  BY <1>1
<1>. QED  BY <1>1, <1>2 DEF Lifetime

\* The types of a record that a handler writes.
LEMMA RecordGood ==
  ASSUME IHandlers, IData, NEW r \in Ingests, ingests[r].state \in Handling,
         NEW i \in DOMAIN ingests[r].batch, NEW expires \in Int
  PROVE  /\ Record(r, i, expires) \in RecordType
         /\ GoodEvent(Record(r, i, expires).event)
         /\ Record(r, i, expires).req = r /\ Record(r, i, expires).idx = i
         /\ Record(r, i, expires).expires = expires
<1>1. GoodEvent(ingests[r].events[i]) /\ Passed(ingests[r])
  BY DEF IData, IHandlers
<1>2. i \in Nat \ {0}
  <2>1. ingests[r].batch \in Seq(Range(ingests[r].batch))
    BY <1>1, ServiceAssumption DEF Passed
  <2>2. PICK b, S : b = ingests[r].batch /\ b \in Seq(S)
    BY <2>1
  <2>3. DOMAIN b = 1 .. Len(b) /\ Len(b) \in Nat
    BY <2>2
  <2>. QED  BY <2>2, <2>3
<1>3. ingests[r].events[i] \in EventType
  BY <1>1 DEF GoodEvent
<1>. QED  BY <1>1, <1>2, <1>3 DEF Record, RecordType

-----------------------------------------------------------------------------
(* Queries. *)

IsQuery(h) ==
    h = [state |-> h.state, req |-> h.req, filter |-> h.filter, limit |-> h.limit,
         asked |-> h.asked, must |-> h.must, now |-> h.now, page |-> h.page, got |-> h.got,
         answer |-> h.answer]

IQueries ==
    /\ queries = [q \in Queries |-> queries[q]]
    /\ \A q \in Queries :
          /\ IsQuery(queries[q])
          /\ queries[q].state \in {"free", "asked", "scanning", "answered", "failed"}
          /\ queries[q].limit \in Nat
          /\ queries[q].state # "free" => queries[q].asked \in Nat /\ queries[q].asked <= clock
          /\ queries[q].state \in {"free", "asked"} => queries[q].page = 1 /\ queries[q].got = {}

LEMMA QueriesInit == ServiceInit => IQueries
  BY DEF ServiceInit, FreeQuery, IQueries, IsQuery

\* One query goes on.
LEMMA OneQuery ==
  ASSUME IQueries, NEW q \in Queries, NEW h, queries' = [queries EXCEPT ![q] = h],
         IsQuery(h), h.state \in {"asked", "scanning", "answered", "failed"},
         h.limit \in Nat, h.asked \in Nat, h.asked <= clock,
         h.state = "asked" => h.page = 1 /\ h.got = {}, clock' = clock
  PROVE  /\ IQueries' /\ queries'[q] = h
         /\ \A p \in Queries \ {q} : queries'[p] = queries[p]
         /\ Asks'[q] = Seen(h) /\ \A p \in Queries \ {q} : Asks'[p] = Asks[p]
<1>1. \A p \in Queries : queries'[p] = IF p = q THEN h ELSE queries[p]
  BY DEF IQueries
<1>2. queries' = [p \in Queries |-> queries'[p]]
  BY DEF IQueries
<1>3. IQueries'
  BY <1>1, <1>2 DEF IQueries
<1>4. \A p \in Queries : Asks'[p] = Seen(queries'[p]) /\ Asks[p] = Seen(queries[p])
  BY DEF Asks
<1>. QED  BY <1>1, <1>3, <1>4

LEMMA AskEffect ==
  ASSUME IQueries, clock \in Nat, NEW q \in Queries, NEW req, NEW S, Ask(q, req, S)
  PROVE  /\ IQueries' /\ queries[q].state = "free" /\ queries'[q].state = "asked"
         /\ queries'[q].asked = clock /\ queries'[q].must = S
         /\ \A p \in Queries \ {q} : queries'[p] = queries[p]
         /\ \A p \in Queries : Asks'[p] = Seen(queries'[p]) /\ Asks[p] = Seen(queries[p])
<1>1. PICK filter, limit : /\ filter = FilterOf(req, clock)
                           /\ limit = IF req.route = "summaries" THEN 0 ELSE Limit
  OBVIOUS
<1>2. limit \in Nat
  BY <1>1, ServiceAssumption
<1>3. PICK h : h = [queries[q] EXCEPT !.state = "asked", !.req = req, !.filter = filter,
                       !.limit = limit, !.asked = clock, !.must = S]
  OBVIOUS
<1>4. /\ queries' = [queries EXCEPT ![q] = h] /\ queries[q].state = "free" /\ clock' = clock
  BY <1>1, <1>3 DEF Ask, IQueries
<1>5. IsQuery(queries[q]) /\ queries[q].page = 1 /\ queries[q].got = {}
  BY <1>4 DEF IQueries
<1>6. /\ IsQuery(h) /\ h.state = "asked" /\ h.limit = limit /\ h.asked = clock /\ h.must = S
      /\ h.page = 1 /\ h.got = {}
  BY <1>3, <1>5 DEF IsQuery
<1>7. /\ IQueries' /\ queries'[q] = h
      /\ \A p \in Queries \ {q} : queries'[p] = queries[p]
  <2>1. h.asked \in Nat /\ h.asked <= clock /\ h.limit \in Nat
    BY <1>2, <1>6
  <2>. QED  BY <1>4, <1>6, <2>1, OneQuery
<1>8. \A p \in Queries : Asks'[p] = Seen(queries'[p]) /\ Asks[p] = Seen(queries[p])
  BY DEF Asks
<1>. QED  BY <1>4, <1>6, <1>7, <1>8

LEMMA QueriesRestart ==
  ASSUME IQueries, ServiceRestart
  PROVE  /\ IQueries'
         /\ \A q \in Queries :
               \/ queries'[q] = queries[q]
               \/ /\ queries[q].state \in {"asked", "scanning"}
                  /\ queries'[q].state = "failed"
<1>1. \A q \in Queries : queries'[q] = IF queries[q].state \in {"asked", "scanning"}
                                       THEN [queries[q] EXCEPT !.state = "failed"]
                                       ELSE queries[q]
  BY DEF ServiceRestart
<1>2. queries' = [q \in Queries |-> queries'[q]] /\ clock' = clock
  BY DEF ServiceRestart
<1>3. ASSUME NEW q \in Queries, queries[q].state \in {"asked", "scanning"}
      PROVE  /\ IsQuery(queries'[q]) /\ queries'[q].state = "failed"
             /\ queries'[q].limit = queries[q].limit /\ queries'[q].asked = queries[q].asked
  BY <1>1, <1>3 DEF IQueries, IsQuery
<1>4. IQueries'
  <2>1. ASSUME NEW q \in Queries, queries[q].state \notin {"asked", "scanning"}
        PROVE  queries'[q] = queries[q]
    BY <1>1, <2>1
  <2>2. ASSUME NEW q \in Queries
        PROVE  /\ IsQuery(queries'[q])
               /\ queries'[q].state \in {"free", "asked", "scanning", "answered", "failed"}
               /\ queries'[q].limit \in Nat
               /\ queries'[q].state # "free" => queries'[q].asked \in Nat /\ queries'[q].asked <= clock'
               /\ queries'[q].state \in {"free", "asked"} => queries'[q].page = 1 /\ queries'[q].got = {}
    BY <1>2, <1>3, <2>1 DEF IQueries
  <2>. QED  BY <1>2, <2>2 DEF IQueries
<1>. QED  BY <1>1, <1>3, <1>4

\* Queries stay while time passes.
LEMMA QueriesStay ==
  ASSUME IQueries, queries' = queries, clock \in Nat, clock' \in Nat, clock <= clock'
  PROVE  IQueries' /\ Asks' = Asks
<1>1. \A t \in Nat : t <= clock => t <= clock'
  OBVIOUS
<1>2. IQueries'
  BY <1>1 DEF IQueries
<1>. QED  BY <1>2 DEF Asks
=============================================================================
