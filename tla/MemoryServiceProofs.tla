------------------------- MODULE MemoryServiceProofs -------------------------
(***************************************************************************)
(* Theorems about MemoryService: a request is stored whole or not at all,   *)
(* and expires a retention after it was handled.  IWritten is               *)
(* BatchAllOrNothing with the converse: whatever was stored belongs to a    *)
(* request that was answered 202, so no step of another handler, and no     *)
(* restart, can leave a part of a request behind.                           *)
(***************************************************************************)
EXTENDS MemoryService, MetricServiceProofs, SequenceLemmas

IWritten ==
    /\ \A rec \in written : rec.req \in Ingests /\ ingests[rec.req].state = "accepted"
    /\ \A r \in Ingests : ingests[r].state = "accepted" =>
          /\ {rec.idx : rec \in RecordsOf(r)} = DOMAIN ingests[r].batch
          /\ \A rec, other \in RecordsOf(r) : rec.expires = other.expires

IExpiry ==
    \A rec \in written :
        \E d \in ingests[rec.req].seen, t \in ingests[rec.req].now .. clock : rec.expires = t + d

IInv == IHandlers /\ IWritten

-----------------------------------------------------------------------------
\* Steps that change neither the records nor the handlers that are done.
LEMMA WrittenStays ==
  ASSUME IWritten, written' = written,
         \A r \in Ingests : \/ ingests'[r] = ingests[r]
                            \/ ingests[r].state # "accepted" /\ ingests'[r].state # "accepted"
  PROVE  IWritten'
<1>1. \A r \in Ingests : RecordsOf(r)' = RecordsOf(r)
  BY DEF RecordsOf
<1>. QED  BY <1>1 DEF IWritten

LEMMA ServiceKeepsWritten == ServiceNext \/ ServiceRestart => written' = written
  BY DEF ServiceNext, RefuseBatch, Validate, ReadConfig, SaveConfig, Tick, ServiceRestart

\* What SaveMetrics does to the handler and to the records.
LEMMA Saves ==
  ASSUME IHandlers, NEW r \in Ingests, SaveMetrics(r)
  PROVE  LET e == clock + Lifetime(ingests[r].days)
         IN  /\ ingests[r].state = "saving"
             /\ written' = written \cup {Record(r, i, e) : i \in DOMAIN ingests[r].batch}
             /\ \A p \in Ingests \ {r} : ingests'[p] = ingests[p]
             /\ ingests'[r].state = "accepted" /\ ingests'[r].batch = ingests[r].batch
             /\ ingests'[r].seen = ingests[r].seen /\ ingests'[r].now = ingests[r].now
             /\ clock' = clock /\ days' = days
             /\ IHandlers'
<1>. DEFINE e == clock + Lifetime(ingests[r].days)
<1>1. IsIngest(ingests[r]) /\ ingests[r].state = "saving"
  BY DEF IHandlers, SaveMetrics
<1>2. DOMAIN ingests[r].events = DOMAIN ingests[r].batch
  BY <1>1 DEF IHandlers, Handling, Passed
<1>3. written' = written \cup {Record(r, i, e) : i \in DOMAIN ingests[r].batch}
  BY <1>2 DEF SaveMetrics, Range
<1>4. /\ ingests' = [ingests EXCEPT ![r].state = "accepted"]
      /\ clock' = clock /\ days' = days
  BY DEF SaveMetrics
<1>5. \A p \in Ingests \ {r} : ingests'[p] = ingests[p]
  BY <1>4 DEF IHandlers
<1>6. /\ IsIngest(ingests'[r]) /\ ingests'[r].state = "accepted"
      /\ ingests'[r].batch = ingests[r].batch /\ ingests'[r].events = ingests[r].events
      /\ ingests'[r].seen = ingests[r].seen /\ ingests'[r].now = ingests[r].now
  BY <1>1, <1>4 DEF IHandlers, IsIngest
<1>7. ingests' = [p \in Ingests |-> ingests'[p]]
  BY <1>4 DEF IHandlers
<1>8. IHandlers'
  <2>1. Passed(ingests'[r])
    BY <1>1, <1>6 DEF IHandlers, Handling, Passed
  <2>. QED  BY <1>5, <1>6, <1>7, <2>1 DEF IHandlers, Handling, Passed, IsIngest
<1>. QED  BY <1>1, <1>3, <1>4, <1>5, <1>6, <1>8

LEMMA Step == IInv /\ [Next]_vars => IInv'
<1>. SUFFICES ASSUME IInv, [Next]_vars PROVE IInv'
  OBVIOUS
<1>. USE DEF IInv
<1>1. CASE UNCHANGED vars
  BY <1>1 DEF vars, service, IHandlers, IWritten, RecordsOf
<1>2. CASE ServiceNext
  <2>1. IHandlers' /\ Moves
    BY <1>2, HandlersStep
  <2>. QED  BY <1>2, <2>1, ServiceKeepsWritten, WrittenStays DEF Moves
<1>3. CASE Restart
  <2>1. ServiceRestart
    BY <1>3 DEF Restart
  <2>2. IHandlers' /\ Breaks
    BY <2>1, HandlersRestart
  <2>3. \A r \in Ingests : \/ ingests'[r] = ingests[r]
                           \/ ingests[r].state # "accepted" /\ ingests'[r].state # "accepted"
    BY <2>1, <2>2 DEF Breaks, IHandlers, IsIngest
  <2>. QED  BY <2>1, <2>2, <2>3, ServiceKeepsWritten, WrittenStays
<1>4. ASSUME NEW q \in Queries,
             (\E req \in Reads : Ask(q, req, Unexpired(Range(events), clock))) \/ List(q)
      PROVE  IInv'
  <2>1. ingests' = ingests /\ written' = written
    BY <1>4 DEF Ask, List, Reply
  <2>. QED  BY <2>1 DEF IHandlers, IWritten, RecordsOf
<1>5. ASSUME NEW r \in Ingests, SaveMetrics(r) PROVE IInv'
  <2>. DEFINE e == clock + Lifetime(ingests[r].days)
              new == {Record(r, i, e) : i \in DOMAIN ingests[r].batch}
  <2>1. /\ ingests[r].state = "saving"
        /\ written' = written \cup new
        /\ \A p \in Ingests \ {r} : ingests'[p] = ingests[p]
        /\ ingests'[r].state = "accepted" /\ ingests'[r].batch = ingests[r].batch
        /\ IHandlers'
    BY <1>5, Saves
  <2>2. \A rec \in new : rec.req = r /\ rec.expires = e
    BY DEF Record
  <2>3. {rec.idx : rec \in new} = DOMAIN ingests[r].batch
    <3>1. \A i : Record(r, i, e).idx = i
      BY DEF Record
    <3>. QED  BY <3>1
  <2>. HIDE DEF new
  <2>4. RecordsOf(r)' = new /\ \A p \in Ingests \ {r} : RecordsOf(p)' = RecordsOf(p)
    BY <2>1, <2>2 DEF IWritten, RecordsOf
  <2>5. {rec.idx : rec \in RecordsOf(r)'} = DOMAIN ingests'[r].batch
    BY <2>1, <2>3, <2>4
  <2>6. \A rec, other \in RecordsOf(r)' : rec.expires = other.expires
    BY <2>2, <2>4
  <2>7. \A rec \in written' : rec.req \in Ingests /\ ingests'[rec.req].state = "accepted"
    BY <2>1, <2>2 DEF IWritten
  <2>8. IWritten'
    BY <2>1, <2>4, <2>5, <2>6, <2>7 DEF IWritten
  <2>. QED  BY <2>1, <2>8
<1>. QED  BY <1>1, <1>2, <1>3, <1>4, <1>5 DEF Next

LEMMA InitInv == Init => IInv
<1>. SUFFICES ASSUME Init PROVE IInv
  OBVIOUS
<1>1. IHandlers
  BY HandlersInit DEF Init
<1>2. IWritten
  BY DEF Init, ServiceInit, FreeIngest, IWritten
<1>. QED  BY <1>1, <1>2 DEF IInv

LEMMA Inductive == Spec => []IInv
  BY InitInv, Step, PTL DEF Spec

\* A batch that passed has an event.
LEMMA SomeEvent ==
  ASSUME NEW batch \in Batches, batch # <<>>
  PROVE  DOMAIN batch # {}
<1>. DEFINE S == Range(batch)
<1>1. batch \in Seq(S)
  BY ServiceAssumption
<1>. HIDE DEF S
<1>2. Len(batch) \in Nat /\ Len(batch) # 0 /\ DOMAIN batch = 1 .. Len(batch)
  BY <1>1, EmptySeq
<1>. QED  BY <1>2

-----------------------------------------------------------------------------
(* A request is in memory as a whole, with one expiry, when it was answered *)
(* 202, and no part of it otherwise: for any number of requests, events,    *)
(* queries, configuration changes and restarts (metrics.go:25-30,           *)
(* memory/store.go:27-41).                                                  *)
THEOREM AllOrNothing == Spec => []BatchAllOrNothing
<1>1. IInv => BatchAllOrNothing
  <2>. SUFFICES ASSUME IInv, NEW r \in Ingests
                PROVE  IF ingests[r].state = "accepted"
                       THEN /\ {rec.idx : rec \in RecordsOf(r)} = DOMAIN ingests[r].batch
                            /\ \A i \in DOMAIN ingests[r].batch : Valid(ingests[r].batch[i])
                            /\ Cardinality({rec.expires : rec \in RecordsOf(r)}) = 1
                       ELSE RecordsOf(r) = {}
    BY DEF BatchAllOrNothing
  <2>. USE DEF IInv
  <2>1. CASE ingests[r].state = "accepted"
    <3>1. Passed(ingests[r])
      BY <2>1 DEF IHandlers, Handling
    <3>2. DOMAIN ingests[r].batch # {}
      BY <3>1, SomeEvent DEF Passed
    <3>3. PICK rec \in RecordsOf(r) : TRUE
      BY <2>1, <3>2 DEF IWritten
    <3>4. {other.expires : other \in RecordsOf(r)} = {rec.expires}
      BY <2>1, <3>3 DEF IWritten
    <3>5. Cardinality({other.expires : other \in RecordsOf(r)}) = 1
      BY <3>4, FS_Singleton
    <3>. QED  BY <2>1, <3>1, <3>5 DEF IWritten, Passed
  <2>2. CASE ingests[r].state # "accepted"
    BY <2>2 DEF IWritten, RecordsOf
  <2>. QED  BY <2>1, <2>2
<1>. QED  BY Inductive, <1>1, PTL

(* As long as no retention exceeds time.Duration, a record expires a        *)
(* retention after its request was being handled that was in force while it *)
(* was, whatever the order of configuration changes, restarts and requests  *)
(* (metrics.go:30, memory/store.go:31).                                     *)
THEOREM InForce == RetentionFits => (Spec => []RetentionInForce)
<1>. SUFFICES ASSUME RetentionFits PROVE Spec => []RetentionInForce
  OBVIOUS
<1>. DEFINE I == IInv /\ IRetention /\ IExpiry
<1>1. Init => I
  <2>1. Init => IExpiry
    BY DEF Init, ServiceInit, IExpiry
  <2>. QED  BY <2>1, InitInv, RetentionInit DEF Init
<1>2. I /\ [Next]_vars => I'
  <2>. SUFFICES ASSUME I, [Next]_vars PROVE IRetention' /\ IExpiry'
    BY Step
  <2>. USE DEF IInv
  <2>0. clock \in Nat /\ \A r \in Ingests : ingests[r].state = "accepted" => ingests[r].now \in Nat
    BY DEF IRetention, Handling
  <2>1. ASSUME \A r \in Ingests : ingests[r].state = "accepted" => ingests'[r] = ingests[r],
               written' = written, clock' \in Nat, clock <= clock'
        PROVE  IExpiry'
    <3>1. ASSUME NEW rec \in written
          PROVE  \E d \in ingests'[rec.req].seen, t \in ingests'[rec.req].now .. clock' :
                    rec.expires = t + d
      <4>1. ingests'[rec.req] = ingests[rec.req] /\ ingests[rec.req].now \in Nat
        BY <2>0, <2>1 DEF IWritten
      <4>2. PICK d \in ingests[rec.req].seen, t \in ingests[rec.req].now .. clock :
                rec.expires = t + d
        BY DEF IExpiry
      <4>3. t \in ingests[rec.req].now .. clock'
        BY <2>0, <2>1, <4>1
      <4>. QED  BY <4>1, <4>2, <4>3
    <3>. QED  BY <2>1, <3>1 DEF IExpiry
  <2>2. CASE UNCHANGED vars
    BY <2>2 DEF vars, service, IRetention, IExpiry
  <2>3. CASE ServiceNext
    <3>1. IRetention'
      BY <2>3, RetentionStep
    <3>2. clock <= clock'
      <4>1. clock' = clock \/ clock' = clock + 1
        BY <2>3 DEF ServiceNext, RefuseBatch, Validate, ReadConfig, SaveConfig, Tick
      <4>. QED  BY <2>0, <4>1
    <3>3. \A r \in Ingests : ingests[r].state = "accepted" => ingests'[r] = ingests[r]
      BY <2>3, HandlersStep DEF Moves
    <3>4. clock' \in Nat
      BY <3>1 DEF IRetention
    <3>. QED  BY <2>1, <2>3, <3>1, <3>2, <3>3, <3>4, ServiceKeepsWritten
  <2>4. CASE Restart
    <3>1. ServiceRestart /\ clock' = clock
      BY <2>4 DEF Restart, ServiceRestart
    <3>2. IRetention'
      BY <3>1, RetentionRestart
    <3>3. \A r \in Ingests : ingests[r].state = "accepted" => ingests'[r] = ingests[r]
      BY <3>1, HandlersRestart DEF Breaks
    <3>. QED  BY <2>0, <2>1, <3>1, <3>2, <3>3, ServiceKeepsWritten
  <2>5. ASSUME NEW q \in Queries,
               (\E req \in Reads : Ask(q, req, Unexpired(Range(events), clock))) \/ List(q)
        PROVE  IRetention' /\ IExpiry'
    <3>1. ingests' = ingests /\ written' = written /\ clock' = clock /\ days' = days
      BY <2>5 DEF Ask, List, Reply
    <3>. QED  BY <3>1 DEF IRetention, IExpiry
  <2>6. ASSUME NEW r \in Ingests, SaveMetrics(r) PROVE IRetention' /\ IExpiry'
    <3>. DEFINE e == clock + Lifetime(ingests[r].days)
    <3>1. /\ ingests[r].state = "saving"
          /\ written' = written \cup {Record(r, i, e) : i \in DOMAIN ingests[r].batch}
          /\ \A p \in Ingests \ {r} : ingests'[p] = ingests[p]
          /\ ingests'[r].state = "accepted"
          /\ ingests'[r].seen = ingests[r].seen /\ ingests'[r].now = ingests[r].now
          /\ clock' = clock /\ days' = days
      BY <2>6, Saves
    <3>2. \E d \in ingests[r].seen, t \in ingests[r].now .. clock : e = t + d
      BY <3>1, ExpiryInForce
    <3>3. IRetention'
      BY <3>1 DEF IRetention, Handling
    <3>. HIDE DEF e
    <3>4. \A rec \in written' : rec \in written \/ (rec.req = r /\ rec.expires = e)
      BY <3>1 DEF Record
    <3>5. \A rec \in written : rec.req \in Ingests \ {r}
      BY <3>1 DEF IWritten
    <3>6. IExpiry'
      BY <3>1, <3>2, <3>4, <3>5 DEF IExpiry
    <3>. QED  BY <3>3, <3>6
  <2>. QED  BY <2>2, <2>3, <2>4, <2>5, <2>6 DEF Next
<1>3. I => RetentionInForce
  BY DEF IInv, IWritten, IExpiry, RetentionInForce, RecordsOf
<1>. QED  BY <1>1, <1>2, <1>3, PTL DEF Spec

-----------------------------------------------------------------------------
(* What memory holds, and what the open queries ask of it. *)

\* What was settled when q was asked is in memory until it expires.
Owed(q) ==
    /\ queries[q].must \subseteq written
    /\ \A rec \in queries[q].must : rec.expires > clock => rec \in Range(events)

IMemory ==
    /\ \A r \in Ingests : ingests[r].state # "putting"
    /\ \A rec \in written : rec \in RecordType
    /\ events \in Seq(written) /\ Distinct(events)
    /\ \A q \in Queries : queries[q].state # "scanning"
    /\ \A q \in Queries : queries[q].state = "asked" => Owed(q)

ITypes == IInv /\ IData /\ IQueries /\ IMemory

\* Pruning keeps what has not expired.
LEMMA KeptEvents ==
  ASSUME IMemory
  PROVE  /\ Kept(events, clock) \in Seq(written) /\ Distinct(Kept(events, clock))
         /\ Range(Kept(events, clock)) = Unexpired(Range(events), clock)
<1>. DEFINE T == Unexpired(Range(events), clock)
<1>1. Kept(events, clock) = Filter(events, T)
  BY DEF Kept
<1>2. events \in Seq(written) /\ Distinct(events)
  BY DEF IMemory
<1>3. Range(events) \cap T = T
  BY DEF Unexpired
<1>. HIDE DEF T
<1>4. /\ Filter(events, T) \in Seq(written) /\ Distinct(Filter(events, T))
      /\ Range(Filter(events, T)) = Range(events) \cap T
  BY <1>2, FilterProperties
<1>. QED  BY <1>1, <1>3, <1>4 DEF T

\* What SaveMetrics adds to memory is new.
LEMMA SavedEvents ==
  ASSUME ITypes, NEW r \in Ingests, SaveMetrics(r)
  PROVE  \E new : /\ new \in Seq(written') /\ Distinct(new)
                  /\ events' = Kept(events, clock) \o new
                  /\ written' = written \cup Range(new)
                  /\ \A rec \in Range(new) : rec \in RecordType /\ rec \notin written
<1>. USE DEF ITypes
<1>. DEFINE e == clock + Lifetime(ingests[r].days)
<1>1. PICK new : new = [i \in DOMAIN ingests[r].events |-> Record(r, i, e)]
  OBVIOUS
<1>2. /\ events' = Kept(events, clock) \o new /\ written' = written \cup Range(new)
      /\ ingests[r].state = "saving"
  BY <1>1 DEF SaveMetrics
<1>3. /\ IHandlers /\ ingests[r].state \in Handling /\ Passed(ingests[r])
      /\ DOMAIN ingests[r].events = DOMAIN ingests[r].batch
  BY <1>2 DEF IInv, IHandlers, Handling, Passed
<1>4. ingests[r].days \in Nat /\ clock \in Int
  BY <1>2 DEF IData
<1>5. e \in Int
  BY <1>4, LifetimeType
<1>6. PICK n \in Nat : DOMAIN ingests[r].batch = 1 .. n
  <2>1. PICK b, S : b = ingests[r].batch /\ b \in Seq(S)
    BY <1>3, ServiceAssumption DEF Passed
  <2>. QED  BY <2>1
<1>. HIDE DEF e
<1>7. ASSUME NEW i \in 1 .. n
      PROVE  new[i] \in RecordType /\ new[i].req = r /\ new[i].idx = i /\ new[i] \notin written
  <2>1. new[i] = Record(r, i, e)
    BY <1>1, <1>3, <1>6
  <2>2. Record(r, i, e) \in RecordType /\ Record(r, i, e).req = r /\ Record(r, i, e).idx = i
    <3>1. i \in DOMAIN ingests[r].batch
      BY <1>6
    <3>2. IHandlers /\ IData
      BY <1>3
    <3>. QED  BY ONLY <1>3, <1>5, <3>1, <3>2, RecordGood
  <2>3. \A rec \in written : rec.req # r
    BY <1>2 DEF IInv, IWritten
  <2>. QED  BY <2>1, <2>2, <2>3
<1>8. DOMAIN new = 1 .. n
  BY <1>1, <1>3, <1>6
<1>9. new \in Seq(written')
  <2>1. \A i \in 1 .. n : new[i] \in written'
    BY <1>2, <1>8 DEF Range
  <2>2. new = [i \in 1 .. n |-> new[i]]
    BY <1>1, <1>8
  <2>. QED  BY <2>1, <2>2, IsASeq
<1>10. Distinct(new)
  BY <1>7, <1>8 DEF Distinct
<1>11. \A rec \in Range(new) : rec \in RecordType /\ rec \notin written
  BY <1>7, <1>8 DEF Range
<1>. QED  BY <1>2, <1>9, <1>10, <1>11

\* A query is answered.
LEMMA Answers ==
  ASSUME IQueries, clock \in Nat, NEW q \in Queries, List(q)
  PROVE  /\ IQueries' /\ queries[q].state = "asked" /\ queries'[q].state = "answered"
         /\ \A p \in Queries \ {q} : queries'[p] = queries[p]
         /\ events' = Kept(events, clock)
         /\ UNCHANGED <<clock, days, ingests, written>>
         /\ \E matching :
               /\ matching = Filter(Kept(events, clock),
                                    {rec \in Range(Kept(events, clock)) :
                                        Matches(rec.event, queries[q].filter)})
               /\ queries'[q].answer = Range(Listed(matching, queries[q].limit))
<1>1. PICK matching, answer :
          /\ matching = Filter(Kept(events, clock),
                               {rec \in Range(Kept(events, clock)) :
                                   Matches(rec.event, queries[q].filter)})
          /\ answer = Range(Listed(matching, queries[q].limit))
  OBVIOUS
<1>2. PICK h : h = [queries[q] EXCEPT !.state = "answered", !.answer = answer]
  OBVIOUS
<1>3. /\ queries' = [queries EXCEPT ![q] = h] /\ queries[q].state = "asked"
      /\ events' = Kept(events, clock) /\ UNCHANGED <<clock, days, ingests, written>>
  BY <1>1, <1>2 DEF List, Reply, IQueries
<1>4. /\ IsQuery(queries[q]) /\ queries[q].limit \in Nat
      /\ queries[q].asked \in Nat /\ queries[q].asked <= clock
  BY <1>3 DEF IQueries
<1>5. /\ IsQuery(h) /\ h.state = "answered" /\ h.answer = answer
      /\ h.limit = queries[q].limit /\ h.asked = queries[q].asked
  BY <1>2, <1>4 DEF IsQuery
<1>6. IQueries' /\ queries'[q] = h /\ \A p \in Queries \ {q} : queries'[p] = queries[p]
  BY <1>3, <1>4, <1>5, OneQuery
<1>. QED  BY <1>1, <1>3, <1>5, <1>6

\* Memory loses only what has expired, so it still holds what it owes.
LEMMA MemoryStays ==
  ASSUME ITypes, IQueries', clock \in Nat, clock' \in Nat, clock <= clock',
         written \subseteq written', \A rec \in written' : rec \in RecordType,
         \A r \in Ingests : ingests'[r].state # "putting",
         events' \in Seq(written'), Distinct(events'),
         \A rec \in Range(events) : rec.expires > clock' => rec \in Range(events'),
         \A q \in Queries : \/ queries'[q] = queries[q]
                            \/ queries'[q].state \in {"answered", "failed"}
  PROVE  IMemory'
<1>. USE DEF ITypes
<1>1. \A rec \in written : rec.expires \in Int
  BY DEF IMemory, RecordType
<1>2. \A x \in Int : x > clock' => x > clock
  OBVIOUS
<1>3. ASSUME NEW q \in Queries, queries'[q].state = "asked" PROVE Owed(q)'
  <2>1. queries'[q] = queries[q] /\ Owed(q)
    BY <1>3 DEF IMemory
  <2>. QED  BY <1>1, <1>2, <2>1 DEF Owed
<1>4. \A q \in Queries : queries'[q].state # "scanning"
  BY DEF IMemory
<1>. QED  BY <1>3, <1>4 DEF IMemory

LEMMA TypesStep == ITypes /\ [Next]_vars => ITypes'
<1>. SUFFICES ASSUME ITypes, [Next]_vars PROVE IData' /\ IQueries' /\ IMemory'
  BY Step DEF ITypes
<1>. USE DEF ITypes
<1>0. /\ clock \in Nat /\ events \in Seq(written) /\ Distinct(events)
      /\ \A rec \in written : rec \in RecordType
      /\ \A r \in Ingests : ingests[r].state # "putting"
  BY DEF IData, IMemory
<1>1. CASE UNCHANGED vars
  <2>1. UNCHANGED <<clock, days, ingests, queries, written, events>>
    BY <1>1 DEF vars, service
  <2>. QED  BY <2>1 DEF IData, IQueries, IMemory, Owed
<1>2. CASE ServiceNext /\ UNCHANGED events
  <2>1. IData' /\ clock' \in Nat
    BY <1>2, DataStep DEF IInv, IData
  <2>2. queries' = queries /\ written' = written /\ (clock' = clock \/ clock' = clock + 1)
    BY <1>2 DEF ServiceNext, RefuseBatch, Validate, ReadConfig, SaveConfig, Tick
  <2>3. clock <= clock'
    BY <1>0, <2>2
  <2>4. IQueries'
    BY <1>0, <2>1, <2>2, <2>3, QueriesStay
  <2>5. \A r \in Ingests : ingests'[r].state # "putting"
    BY <1>0, <1>2, HandlersStep DEF Moves, IInv
  <2>. QED  BY <1>0, <1>2, <2>1, <2>2, <2>3, <2>4, <2>5, MemoryStays
<1>3. ASSUME NEW q \in Queries, NEW req \in Reads,
             Ask(q, req, Unexpired(Range(events), clock)), UNCHANGED events
      PROVE  IData' /\ IQueries' /\ IMemory'
  <2>1. /\ IQueries' /\ queries'[q].state = "asked"
        /\ queries'[q].must = Unexpired(Range(events), clock)
        /\ \A p \in Queries \ {q} : queries'[p] = queries[p]
    BY <1>0, <1>3, AskEffect
  <2>2. UNCHANGED <<clock, days, ingests, written, events>>
    BY <1>3 DEF Ask
  <2>3. Range(events) \subseteq written
    BY <1>0, RangeOfSeq
  <2>4. Owed(q)'
    BY <2>1, <2>2, <2>3 DEF Owed, Unexpired
  <2>5. ASSUME NEW p \in Queries \ {q}, queries'[p].state = "asked" PROVE Owed(p)'
    BY <2>1, <2>2, <2>5 DEF Owed, IMemory
  <2>6. IMemory'
    BY <2>1, <2>2, <2>4, <2>5 DEF IMemory
  <2>. QED  BY <2>1, <2>2, <2>6 DEF IData
<1>4. ASSUME NEW q \in Queries, List(q) PROVE IData' /\ IQueries' /\ IMemory'
  <2>1. /\ IQueries' /\ queries'[q].state = "answered"
        /\ \A p \in Queries \ {q} : queries'[p] = queries[p]
        /\ events' = Kept(events, clock)
        /\ UNCHANGED <<clock, days, ingests, written>>
    BY <1>0, <1>4, Answers
  <2>2. /\ events' \in Seq(written) /\ Distinct(events')
        /\ Range(events') = Unexpired(Range(events), clock)
    BY <2>1, KeptEvents
  <2>3. \A rec \in Range(events) : rec.expires > clock' => rec \in Range(events')
    BY <2>1, <2>2 DEF Unexpired
  <2>4. IMemory'
    BY <1>0, <2>1, <2>2, <2>3, MemoryStays
  <2>. QED  BY <2>1, <2>4 DEF IData
<1>5. ASSUME NEW r \in Ingests, SaveMetrics(r) PROVE IData' /\ IQueries' /\ IMemory'
  <2>1. PICK new : /\ new \in Seq(written') /\ Distinct(new)
                   /\ events' = Kept(events, clock) \o new
                   /\ written' = written \cup Range(new)
                   /\ \A rec \in Range(new) : rec \in RecordType /\ rec \notin written
    BY <1>5, SavedEvents
  <2>2. /\ \A p \in Ingests \ {r} : ingests'[p] = ingests[p]
        /\ ingests[r].state = "saving" /\ ingests'[r].state = "accepted"
        /\ ingests'[r].batch = ingests[r].batch
        /\ clock' = clock /\ days' = days
    BY <1>5, Saves DEF IInv
  <2>3. queries' = queries /\ ingests'[r].events = ingests[r].events
    BY <1>5 DEF SaveMetrics, IInv, IHandlers, IsIngest
  <2>4. IData'
    BY <2>2, <2>3 DEF IData, Handling
  <2>5. IQueries'
    BY <1>0, <2>2, <2>3, QueriesStay
  <2>6. PICK kept : kept = Kept(events, clock)
    OBVIOUS
  <2>7. /\ kept \in Seq(written) /\ Distinct(kept)
        /\ Range(kept) = Unexpired(Range(events), clock)
    BY <2>6, KeptEvents
  <2>8. kept \in Seq(written') /\ Range(kept) \cap Range(new) = {}
    <3>1. Range(kept) \subseteq written
      BY <2>7, RangeOfSeq
    <3>2. written \subseteq written'
      BY <2>1
    <3>3. kept \in Seq(written')
      BY <2>7, <3>2, SeqMonotonic
    <3>. QED  BY <2>1, <3>1, <3>3
  <2>9. /\ kept \o new \in Seq(written') /\ Distinct(kept \o new)
        /\ Range(kept \o new) = Range(kept) \cup Range(new)
    BY <2>1, <2>7, <2>8, DistinctConcat
  <2>10. /\ events' \in Seq(written') /\ Distinct(events')
         /\ \A rec \in Range(events) : rec.expires > clock' => rec \in Range(events')
    BY <2>1, <2>2, <2>6, <2>7, <2>9 DEF Unexpired
  <2>11. /\ \A p \in Ingests : ingests'[p].state # "putting"
         /\ \A rec \in written' : rec \in RecordType
    BY <1>0, <2>1, <2>2
  <2>12. clock' \in Nat /\ clock <= clock' /\ written \subseteq written'
    BY <1>0, <2>1, <2>2
  <2>13. IMemory'
    BY <1>0, <2>3, <2>5, <2>10, <2>11, <2>12, MemoryStays
  <2>. QED  BY <2>4, <2>5, <2>13
<1>6. CASE Restart
  <2>1. ServiceRestart /\ events' = <<>> /\ clock' = clock /\ written' = written
    BY <1>6 DEF Restart, ServiceRestart
  <2>2. IData' /\ IHandlers' /\ Breaks
    BY <2>1, DataRestart, HandlersRestart DEF IInv
  <2>3. /\ IQueries'
        /\ \A q \in Queries : \/ queries'[q] = queries[q]
                              \/ /\ queries[q].state \in {"asked", "scanning"}
                                 /\ queries'[q].state = "failed"
    BY <2>1, QueriesRestart
  <2>4. \A q \in Queries : queries'[q].state \notin {"asked", "scanning"}
    BY <2>1 DEF ServiceRestart, IQueries, IsQuery
  <2>5. \A r \in Ingests : ingests'[r].state # "putting"
    BY <1>0, <2>2 DEF Breaks, IInv, IHandlers, IsIngest
  <2>6. events' \in Seq(written') /\ Distinct(events')
    BY <2>1 DEF Distinct
  <2>7. IMemory'
    BY <1>0, <2>1, <2>4, <2>5, <2>6 DEF IMemory
  <2>. QED  BY <2>2, <2>3, <2>7
<1>. QED  BY <1>1, <1>2, <1>3, <1>4, <1>5, <1>6 DEF Next

LEMMA TypesInit == Init => ITypes
<1>. SUFFICES ASSUME Init PROVE ITypes
  OBVIOUS
<1>1. /\ IInv /\ IData /\ IQueries
  BY InitInv, DataInit, QueriesInit DEF Init
<1>2. /\ events = <<>> /\ written = {}
      /\ \A r \in Ingests : ingests[r].state = "free"
      /\ \A q \in Queries : queries[q].state = "free"
  BY DEF Init, ServiceInit, FreeIngest, FreeQuery
<1>3. IMemory
  BY <1>2 DEF IMemory, Distinct
<1>. QED  BY <1>1, <1>3 DEF ITypes

(* Handlers and queries are in one of their states, what is stored is a     *)
(* record of a validated event, and memory holds each record at most once,  *)
(* however requests, reads, expiry and restarts interleave                  *)
(* (memory/store.go:27-41, 185-193).                                        *)
THEOREM TypeCorrect == Spec => []TypeOK
<1>1. ITypes => TypeOK
  <2>. SUFFICES ASSUME ITypes PROVE TypeOK
    OBVIOUS
  <2>. USE DEF ITypes
  <2>1. clock \in 1 .. MaxClock /\ days \in Nat \ {0}
    BY DEF IData
  <2>2. \A r \in Ingests :
           ingests[r].state \in {"free", "refused", "validated", "saving", "accepted", "broken"}
    BY DEF IInv, IHandlers, IMemory, Handling
  <2>3. \A q \in Queries : queries[q].state \in {"free", "asked", "answered", "failed"}
    BY DEF IQueries, IMemory
  <2>4. written \subseteq RecordType
    BY DEF IMemory
  <2>5. Range(events) \subseteq written
    BY RangeOfSeq DEF IMemory
  <2>6. \A i, j \in DOMAIN events : events[i] = events[j] => i = j
    BY DEF IMemory, Distinct
  <2>. QED  BY <2>1, <2>2, <2>3, <2>4, <2>5, <2>6 DEF TypeOK
<1>. QED  BY <1>1, TypesInit, TypesStep, PTL DEF Spec

-----------------------------------------------------------------------------
(* What a client sees. *)

\* MetricRepository counts like the lemmas about lists do.
LEMMA SameCardinality == \A S : Repository!Cardinality(S) = Cardinality(S)
  BY DEF Cardinality, Repository!Cardinality

\* The answer of List is one that MetricRepository allows.
LEMMA AnswerAllowed ==
  ASSUME ITypes, NEW q \in Queries, List(q), NEW answer, answer = queries'[q].answer
  PROVE  /\ \A rec \in answer : rec \in written /\ rec.expires > queries[q].asked
                                                /\ Matches(rec.event, queries[q].filter)
         /\ \/ \A rec \in queries[q].must :
                  rec.expires > clock /\ Matches(rec.event, queries[q].filter) => rec \in answer
            \/ queries[q].limit > 0 /\ Cardinality(answer) = queries[q].limit
<1>. USE DEF ITypes
<1>1. clock \in Nat /\ queries[q].state = "asked"
  BY DEF IData, List, Reply
<1>2. PICK kept : kept = Kept(events, clock)
  OBVIOUS
<1>3. PICK matching :
          /\ matching = Filter(kept, {rec \in Range(kept) : Matches(rec.event, queries[q].filter)})
          /\ answer = Range(Listed(matching, queries[q].limit))
  BY <1>1, <1>2, Answers
<1>4. /\ kept \in Seq(written) /\ Distinct(kept)
      /\ Range(kept) = Unexpired(Range(events), clock)
  BY <1>2, KeptEvents
<1>5. /\ matching \in Seq(written) /\ Distinct(matching)
      /\ Range(matching) = {rec \in Range(kept) : Matches(rec.event, queries[q].filter)}
  <2>. DEFINE T == {rec \in Range(kept) : Matches(rec.event, queries[q].filter)}
  <2>1. Range(kept) \cap T = T
    OBVIOUS
  <2>2. matching = Filter(kept, T)
    BY <1>3
  <2>. HIDE DEF T
  <2>3. /\ matching \in Seq(written) /\ Distinct(matching)
        /\ Range(matching) = Range(kept) \cap T
    BY <1>4, <2>2, FilterProperties
  <2>. QED  BY <2>1, <2>3 DEF T
<1>6. /\ queries[q].limit \in Nat /\ queries[q].asked \in Nat /\ queries[q].asked <= clock
  BY <1>1 DEF IQueries
<1>7. \A rec \in Range(matching) : rec \in written /\ rec.expires > queries[q].asked
                                                  /\ Matches(rec.event, queries[q].filter)
  <2>1. Range(events) \subseteq written /\ \A rec \in written : rec.expires \in Int
    BY RangeOfSeq DEF IMemory, RecordType
  <2>2. \A t \in Int : t > clock => t > queries[q].asked
    BY <1>1, <1>6
  <2>. QED  BY <1>4, <1>5, <2>1, <2>2 DEF Unexpired
<1>8. \A rec \in queries[q].must :
         rec.expires > clock /\ Matches(rec.event, queries[q].filter) => rec \in Range(matching)
  BY <1>1, <1>4, <1>5 DEF IMemory, Owed, Unexpired
<1>9. CASE queries[q].limit = 0 \/ Len(matching) <= queries[q].limit
  <2>1. answer = Range(matching)
    BY <1>3, <1>9 DEF Listed
  <2>. QED  BY <1>7, <1>8, <2>1
<1>10. CASE ~(queries[q].limit = 0 \/ Len(matching) <= queries[q].limit)
  <2>1. PICK n \in Nat : n = queries[q].limit
    BY <1>6
  <2>2. n > 0 /\ n <= Len(matching)
    <3>1. Len(matching) \in Nat
      BY <1>5, LenProperties
    <3>. QED  BY <1>10, <2>1, <3>1
  <2>3. answer = Range(SubSeq(matching, 1, n))
    BY <1>3, <1>10, <2>1 DEF Listed
  <2>4. answer \subseteq Range(matching) /\ Cardinality(answer) = n
    BY <1>5, <2>2, <2>3, PrefixCount
  <2>. QED  BY <1>7, <2>1, <2>2, <2>4
<1>. QED  BY <1>9, <1>10

\* A step of the service, seen by a client.
LEMMA RefinesStep ==
  ASSUME ITypes, [Next]_vars
  PROVE  Repository!Next \/ UNCHANGED Repository!vars
<1>. DEFINE U == Unexpired(Range(events), clock)
<1>0. /\ ITypes' /\ clock \in Nat /\ clock' \in Nat /\ IQueries
      /\ \A rec \in written : rec.expires \in Int
      /\ Range(events) \subseteq written /\ Range(events') \subseteq written'
  <2>1. ITypes' /\ clock \in Nat /\ clock' \in Nat
    BY TypesStep DEF ITypes, IData
  <2>2. \A rec \in written : rec.expires \in Int
    BY DEF ITypes, IMemory, RecordType
  <2>3. events \in Seq(written) /\ events' \in Seq(written')
    BY <2>1 DEF ITypes, IMemory
  <2>. QED  BY <2>1, <2>2, <2>3, RangeOfSeq DEF ITypes
<1>1. U \subseteq written /\ U' \subseteq written'
  BY <1>0 DEF Unexpired
<1>2. \A q \in Queries : Asks[q] = Seen(queries[q]) /\ Asks'[q] = Seen(queries'[q])
  BY DEF Asks
<1>3. \A h : /\ Seen(h).state = IF h.state \in {"asked", "scanning"} THEN "open" ELSE h.state
             /\ Seen(h).filter = h.filter /\ Seen(h).limit = h.limit
             /\ Seen(h).asked = h.asked /\ Seen(h).must = h.must /\ Seen(h).answer = h.answer
  BY DEF Seen
<1>4. ASSUME UNCHANGED <<clock, queries>>, written \subseteq written', U \subseteq U'
      PROVE  Repository!Next
  <2>1. Asks' = Asks
    BY <1>4 DEF Asks
  <2>2. Repository!Store
    BY <1>1, <1>4, <2>1 DEF Repository!Store
  <2>. QED  BY <2>2 DEF Repository!Next
<1>5. CASE UNCHANGED vars
  <2>1. UNCHANGED <<clock, written, queries, events>>
    BY <1>5 DEF vars, service
  <2>. QED  BY <1>4, <2>1
<1>6. CASE ServiceNext /\ UNCHANGED events
  <2>1. queries' = queries /\ written' = written /\ (clock' = clock \/ clock' = clock + 1)
    BY <1>6 DEF ServiceNext, RefuseBatch, Validate, ReadConfig, SaveConfig, Tick
  <2>2. CASE clock' = clock
    BY <1>4, <1>6, <2>1, <2>2
  <2>3. CASE clock' = clock + 1
    <3>1. Asks' = Asks
      BY <2>1 DEF Asks
    <3>2. \A rec \in Range(events) : rec.expires > clock' => rec.expires > clock
      BY <1>0, <2>3
    <3>3. U' = {rec \in U : rec.expires > clock'}
      BY <1>6, <3>2 DEF Unexpired
    <3>4. Repository!Pass
      BY <2>1, <2>3, <3>1, <3>3 DEF Repository!Pass, Repository!Unexpired
    <3>. QED  BY <3>4 DEF Repository!Next
  <2>. QED  BY <2>1, <2>2, <2>3
<1>7. ASSUME NEW q \in Queries, NEW req \in Reads,
             Ask(q, req, U), UNCHANGED events
      PROVE  Repository!Next
  <2>1. /\ queries[q].state = "free" /\ queries'[q].state = "asked"
        /\ queries'[q].asked = clock /\ queries'[q].must = U
        /\ \A p \in Queries \ {q} : queries'[p] = queries[p]
    BY <1>0, <1>7, AskEffect
  <2>2. written' = written /\ clock' = clock
    BY <1>7 DEF Ask
  <2>3. U' = U
    BY <1>7, <2>2 DEF Unexpired
  <2>4. /\ Asks[q].state = "free" /\ Asks'[q].state = "open"
        /\ Asks'[q].asked = clock /\ Asks'[q].must = U
        /\ \A p \in Queries \ {q} : Asks'[p] = Asks[p]
    BY <1>2, <1>3, <2>1
  <2>5. Repository!Ask(q)
    BY <2>2, <2>3, <2>4 DEF Repository!Ask
  <2>. QED  BY <2>5 DEF Repository!Next
<1>8. ASSUME NEW q \in Queries, List(q) PROVE Repository!Next
  <2>1. /\ queries[q].state = "asked" /\ queries'[q].state = "answered"
        /\ \A p \in Queries \ {q} : queries'[p] = queries[p]
        /\ events' = Kept(events, clock)
        /\ UNCHANGED <<clock, written>>
    BY <1>0, <1>8, Answers
  <2>2. U' = U
    <3>1. Range(events') = U
      BY <2>1, KeptEvents DEF ITypes
    <3>. QED  BY <2>1, <3>1 DEF Unexpired
  <2>3. PICK answer : answer = queries'[q].answer
    OBVIOUS
  <2>4. /\ \A rec \in answer : rec \in written /\ rec.expires > queries[q].asked
                                               /\ Matches(rec.event, queries[q].filter)
        /\ \/ \A rec \in queries[q].must :
                 rec.expires > clock /\ Matches(rec.event, queries[q].filter) => rec \in answer
           \/ queries[q].limit > 0 /\ Cardinality(answer) = queries[q].limit
    BY <1>8, <2>3, AnswerAllowed
  <2>5. \A p \in Queries \ {q} : Asks'[p] = Asks[p]
    BY <1>2, <2>1
  <2>6. /\ Asks[q].state = "open" /\ Asks'[q].state = "answered" /\ Asks'[q].answer = answer
        /\ Asks[q].asked = queries[q].asked /\ Asks[q].must = queries[q].must
        /\ Asks[q].limit = queries[q].limit /\ Asks[q].filter = queries[q].filter
    BY <1>2, <1>3, <2>1, <2>3
  <2>7. answer \subseteq {rec \in {r \in written : r.expires > Asks[q].asked} :
                             Matches(rec.event, Asks[q].filter)}
    BY <2>4, <2>6
  <2>8. \/ {rec \in {r \in Asks[q].must : r.expires > clock} :
                             Matches(rec.event, Asks[q].filter)} \subseteq answer
        \/ Asks[q].limit > 0 /\ Repository!Cardinality(answer) = Asks[q].limit
    BY <2>4, <2>6, SameCardinality
  <2>9. Repository!Answer(q)
    BY <2>1, <2>2, <2>5, <2>6, <2>7, <2>8 DEF Repository!Answer, Repository!Unexpired
  <2>. QED  BY <2>9 DEF Repository!Next
<1>9. ASSUME NEW r \in Ingests, SaveMetrics(r) PROVE Repository!Next
  <2>1. queries' = queries /\ clock' = clock
    BY <1>9 DEF SaveMetrics
  <2>2. PICK new : /\ new \in Seq(written') /\ events' = Kept(events, clock) \o new
                   /\ written' = written \cup Range(new)
    BY <1>9, SavedEvents
  <2>3. Kept(events, clock) \in Seq(written') /\ Range(Kept(events, clock)) = U
    <3>1. /\ Kept(events, clock) \in Seq(written) /\ Range(Kept(events, clock)) = U
      BY KeptEvents DEF ITypes
    <3>2. written \subseteq written'
      BY <2>2
    <3>. QED  BY <3>1, <3>2, SeqMonotonic
  <2>4. U \subseteq Range(events')
    <3>1. PICK kept : kept = Kept(events, clock)
      OBVIOUS
    <3>2. Range(kept \o new) = Range(kept) \cup Range(new)
      BY <2>2, <2>3, <3>1, RangeConcatenation
    <3>. QED  BY <2>2, <2>3, <3>1, <3>2
  <2>5. U \subseteq U'
    BY <2>1, <2>4 DEF Unexpired
  <2>. QED  BY <1>4, <2>1, <2>2, <2>5
<1>10. CASE Restart
  <2>1. ServiceRestart /\ events' = <<>>
    BY <1>10 DEF Restart
  <2>2. written' = written /\ clock' = clock
    BY <2>1 DEF ServiceRestart
  <2>3. U' = {}
    <3>1. Range(events') = {}
      BY <2>1 DEF Range
    <3>. QED  BY <3>1 DEF Unexpired
  <2>4. ASSUME NEW q \in Queries
        PROVE  \/ Asks'[q] = Asks[q]
               \/ Asks[q].state = "open" /\ Asks'[q].state = "failed"
    <3>1. \/ queries'[q] = queries[q]
          \/ queries[q].state \in {"asked", "scanning"} /\ queries'[q].state = "failed"
      BY <1>0, <2>1, QueriesRestart
    <3>. QED  BY <1>2, <1>3, <3>1
  <2>5. Repository!Restart
    BY <2>2, <2>3, <2>4 DEF Repository!Restart
  <2>. QED  BY <2>5 DEF Repository!Next
<1>. QED  BY <1>5, <1>6, <1>7, <1>8, <1>9, <1>10 DEF Next

(* The service over memory implements MetricRepository, without durability: *)
(* what was answered 202 is in every answer asked for later until it        *)
(* expires or the process restarts, up to the limit, and nothing but        *)
(* matching records is.                                                     *)
THEOREM MemoryImplementsRepository == Spec => ImplementsRepository
<1>1. Init => Repository!Init
  <2>. SUFFICES ASSUME Init PROVE Repository!Init
    OBVIOUS
  <2>1. written = {} /\ events = <<>> /\ \A q \in Queries : queries[q].state = "free"
    BY DEF Init, ServiceInit, FreeQuery
  <2>2. Unexpired(Range(events), clock) = {}
    BY <2>1 DEF Range, Unexpired
  <2>3. \A q \in Queries : Asks[q].state = "free"
    BY <2>1 DEF Asks, Seen
  <2>. QED  BY <2>1, <2>2, <2>3 DEF Repository!Init
<1>2. ITypes /\ [Next]_vars => [Repository!Next]_(Repository!vars)
  BY RefinesStep
<1>. QED  BY <1>1, <1>2, TypesInit, TypesStep, PTL
          DEF Spec, ImplementsRepository, Repository!Spec
=============================================================================
