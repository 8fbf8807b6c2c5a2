------------------------- MODULE DynamoServiceProofs -------------------------
(***************************************************************************)
(* Theorems about DynamoService: what a request leaves in the table is a    *)
(* prefix of its events, and a retention in force when it was handled.      *)
(* StoredPrefix is not inductive: an item of a failed put may be applied    *)
(* long after its handler is gone.  IPut therefore also says where that     *)
(* item stands, just after what has been stored, and that a handler has one *)
(* such item at most.                                                       *)
(***************************************************************************)
EXTENDS DynamoService, MetricServiceProofs, FiniteSetTheorems, SequenceTheorems

Ended == {"refused", "broken"}

Stored(r) == {rec.idx : rec \in RecordsOf(r)}

\* The positions at which an item of r may yet be applied.
Pending(r) == {item.idx : item \in {other \in late : other.req = r}}

\* The puts of a request, one after the other.
Puts(r) ==
    /\ ingests[r].next \in Nat /\ ingests[r].next >= 1
    /\ \/ Stored(r) = 1 .. ingests[r].next - 1
       \/ Stored(r) = 1 .. ingests[r].next /\ ingests[r].state \in Ended
    /\ Pending(r) = {} \/ (Pending(r) = {ingests[r].next} /\ ingests[r].state \in Ended)
    /\ ingests[r].state = "putting" => ingests[r].next \in DOMAIN ingests[r].batch
    /\ ingests[r].state = "accepted" => Stored(r) = DOMAIN ingests[r].batch
    /\ Stored(r) # {} \/ Pending(r) # {} => Passed(ingests[r])

IPut ==
    /\ \A rec \in written \cup late : rec.req \in Ingests
    /\ \A r \in Ingests : Puts(r)

\* The expiry of a request was in force while its handler ran.
InForce(h, c) ==
    /\ h.now \in Nat
    /\ \E d \in h.seen, t \in h.now .. c : h.expires = t + d

IExpiry ==
    /\ \A r \in Ingests : ingests[r].state = "putting" => InForce(ingests[r], clock)
    /\ \A rec \in written \cup late :
          rec.expires = ingests[rec.req].expires /\ InForce(ingests[rec.req], clock)

IInv == IHandlers /\ IPut

-----------------------------------------------------------------------------
(* One step of a handler that puts. *)

LEMMA OneGoes ==
  ASSUME IHandlers, NEW r \in Ingests, NEW h, ingests' = [ingests EXCEPT ![r] = h],
         IsIngest(h), h.state \in {"putting", "accepted", "refused"},
         ingests[r].state \in {"saving", "putting"},
         h.batch = ingests[r].batch, h.events = ingests[r].events
  PROVE  /\ IHandlers' /\ Passed(h) /\ ingests'[r] = h
         /\ \A p \in Ingests \ {r} : ingests'[p] = ingests[p]
<1>1. \A p \in Ingests : ingests'[p] = IF p = r THEN h ELSE ingests[p]
  BY DEF IHandlers
<1>2. ingests' = [p \in Ingests |-> ingests'[p]]
  BY DEF IHandlers
<1>3. Passed(h)
  BY DEF IHandlers, Handling, Passed
<1>4. IHandlers'
  BY <1>1, <1>2, <1>3 DEF IHandlers, IsIngest, Passed, Handling
<1>. QED  BY <1>1, <1>3, <1>4

LEMMA BatchLen ==
  ASSUME NEW h, Passed(h)
  PROVE  Len(h.batch) \in Nat /\ Len(h.batch) >= 1 /\ DOMAIN h.batch = 1 .. Len(h.batch)
<1>. DEFINE S == Range(h.batch)
<1>1. h.batch \in Seq(S) /\ h.batch # <<>>
  BY ServiceAssumption DEF Passed
<1>. HIDE DEF S
<1>2. Len(h.batch) \in Nat /\ Len(h.batch) # 0 /\ DOMAIN h.batch = 1 .. Len(h.batch)
  BY <1>1, EmptySeq
<1>. QED  BY <1>2

LEMMA Begins ==
  ASSUME IHandlers, NEW r \in Ingests, BeginPuts(r)
  PROVE  /\ IHandlers' /\ Passed(ingests'[r])
         /\ ingests[r].state = "saving" /\ ingests'[r].state = "putting"
         /\ ingests'[r].next = ingests[r].next /\ ingests[r].next = 1
         /\ ingests'[r].batch = ingests[r].batch
         /\ ingests'[r].now = ingests[r].now /\ ingests'[r].seen = ingests[r].seen
         /\ ingests'[r].expires = clock + Lifetime(ingests[r].days)
         /\ \A p \in Ingests \ {r} : ingests'[p] = ingests[p]
         /\ UNCHANGED <<clock, days, written, late>>
<1>1. IsIngest(ingests[r]) /\ ingests[r].state = "saving" /\ ingests[r].next = 1
  BY DEF IHandlers, BeginPuts
<1>2. PICK h : h = [ingests[r] EXCEPT !.state = "putting",
                                      !.expires = clock + Lifetime(ingests[r].days)]
  OBVIOUS
<1>3. ingests' = [ingests EXCEPT ![r] = h] /\ UNCHANGED <<clock, days, written, late>>
  BY <1>2 DEF BeginPuts, IHandlers, dynamo
<1>4. /\ IsIngest(h) /\ h.state = "putting" /\ h.next = ingests[r].next
      /\ h.batch = ingests[r].batch /\ h.events = ingests[r].events
      /\ h.now = ingests[r].now /\ h.seen = ingests[r].seen
      /\ h.expires = clock + Lifetime(ingests[r].days)
  BY <1>1, <1>2 DEF IsIngest
<1>5. /\ IHandlers' /\ Passed(h) /\ ingests'[r] = h
      /\ \A p \in Ingests \ {r} : ingests'[p] = ingests[p]
  BY <1>1, <1>3, <1>4, OneGoes
<1>. QED  BY <1>1, <1>3, <1>4, <1>5

\* A put that is answered, and one that fails, go on in the same way.
LEMMA PutSteps ==
  ASSUME IHandlers, NEW r \in Ingests, PutItem(r) \/ PutFails(r)
  PROVE  /\ IHandlers' /\ Passed(ingests'[r]) /\ Passed(ingests[r])
         /\ ingests[r].state = "putting"
         /\ ingests'[r].batch = ingests[r].batch
         /\ ingests'[r].now = ingests[r].now /\ ingests'[r].seen = ingests[r].seen
         /\ ingests'[r].expires = ingests[r].expires
         /\ IF PutItem(r)
            THEN /\ ingests'[r].next = ingests[r].next + 1
                 /\ ingests'[r].state = IF ingests[r].next = Len(ingests[r].batch)
                                        THEN "accepted" ELSE "putting"
            ELSE ingests'[r].next = ingests[r].next /\ ingests'[r].state = "refused"
         /\ \A p \in Ingests \ {r} : ingests'[p] = ingests[p]
         /\ UNCHANGED <<clock, days>>
<1>1. IsIngest(ingests[r]) /\ ingests[r].state = "putting"
  BY DEF IHandlers, PutItem, Put, PutFails
<1>2. Passed(ingests[r])
  BY <1>1 DEF IHandlers, Handling
<1>3. CASE PutItem(r)
  <2>1. PICK s : s = IF ingests[r].next = Len(ingests[r].batch) THEN "accepted" ELSE "putting"
    OBVIOUS
  <2>2. PICK h : h = [ingests[r] EXCEPT !.next = ingests[r].next + 1, !.state = s]
    OBVIOUS
  <2>3. ingests' = [ingests EXCEPT ![r] = h] /\ UNCHANGED <<clock, days>>
    BY <1>1, <1>3, <2>1, <2>2 DEF PutItem, Put, NextEvent, IHandlers, IsIngest
  <2>4. /\ IsIngest(h) /\ h.state = s /\ h.next = ingests[r].next + 1
        /\ h.batch = ingests[r].batch /\ h.events = ingests[r].events
        /\ h.now = ingests[r].now /\ h.seen = ingests[r].seen /\ h.expires = ingests[r].expires
    BY <1>1, <2>2 DEF IsIngest
  <2>5. /\ IHandlers' /\ Passed(h) /\ ingests'[r] = h
        /\ \A p \in Ingests \ {r} : ingests'[p] = ingests[p]
    BY <1>1, <2>1, <2>3, <2>4, OneGoes
  <2>. QED  BY <1>1, <1>2, <1>3, <2>1, <2>3, <2>4, <2>5
<1>4. CASE ~PutItem(r) /\ PutFails(r)
  <2>2. PICK h : h = [ingests[r] EXCEPT !.state = "refused"]
    OBVIOUS
  <2>3. ingests' = [ingests EXCEPT ![r] = h] /\ UNCHANGED <<clock, days>>
    BY <1>4, <2>2 DEF PutFails, IHandlers
  <2>4. /\ IsIngest(h) /\ h.state = "refused" /\ h.next = ingests[r].next
        /\ h.batch = ingests[r].batch /\ h.events = ingests[r].events
        /\ h.now = ingests[r].now /\ h.seen = ingests[r].seen /\ h.expires = ingests[r].expires
    BY <1>1, <2>2 DEF IsIngest
  <2>5. /\ IHandlers' /\ Passed(h) /\ ingests'[r] = h
        /\ \A p \in Ingests \ {r} : ingests'[p] = ingests[p]
    BY <1>1, <2>3, <2>4, OneGoes
  <2>. QED  BY <1>1, <1>2, <1>4, <2>3, <2>4, <2>5
<1>. QED  BY <1>3, <1>4

-----------------------------------------------------------------------------
(* The puts of a request. *)

\* Positions of the records of a set S that belong to p, when an item is added.
LEMMA Added ==
  ASSUME NEW S, NEW T, NEW item, T = S \cup {item}, NEW p
  PROVE  {rec.idx : rec \in {x \in T : x.req = p}} =
            IF p = item.req THEN {rec.idx : rec \in {x \in S : x.req = p}} \cup {item.idx}
            ELSE {rec.idx : rec \in {x \in S : x.req = p}}
  OBVIOUS

LEMMA OneLonger ==
  ASSUME NEW n \in Nat, n >= 1
  PROVE  (1 .. n - 1) \cup {n} = 1 .. n
  OBVIOUS

\* A handler that did not begin to put, or has ended, is not disturbed.
LEMMA PutsStay ==
  ASSUME IInv, NEW r \in Ingests, Stored(r)' = Stored(r), Pending(r)' = Pending(r),
         \/ ingests'[r] = ingests[r]
         \/ /\ ingests[r].state \in {"free", "validated"}
            /\ ingests'[r].state \in {"refused", "validated", "saving"}
            /\ ingests'[r].next = 1
  PROVE  Puts(r)'
<1>1. CASE ingests'[r] = ingests[r]
  BY <1>1 DEF IInv, IPut, Puts, Passed
<1>2. CASE ingests[r].state \in {"free", "validated"}
           /\ ingests'[r].state \in {"refused", "validated", "saving"} /\ ingests'[r].next = 1
  <2>1. ingests[r].next = 1
    BY <1>2 DEF IInv, IHandlers
  <2>2. Stored(r) = 1 .. 0 /\ Pending(r) = {}
    BY <1>2, <2>1 DEF IInv, IPut, Puts, Ended
  <2>. QED  BY <1>2, <2>2 DEF Puts
<1>. QED  BY <1>1, <1>2

LEMMA Step == IInv /\ [Next]_vars => IInv'
<1>. SUFFICES ASSUME IInv, [Next]_vars PROVE IInv'
  OBVIOUS
<1>. USE DEF IInv
<1>0. ASSUME UNCHANGED <<written, late>>, IHandlers',
             \A r \in Ingests :
                \/ ingests'[r] = ingests[r]
                \/ /\ ingests[r].state \in {"free", "validated"}
                   /\ ingests'[r].state \in {"refused", "validated", "saving"}
                   /\ ingests'[r].next = 1
      PROVE  IInv'
  <2>1. ASSUME NEW r \in Ingests PROVE Puts(r)'
    <3>1. Stored(r)' = Stored(r) /\ Pending(r)' = Pending(r)
      BY <1>0 DEF Stored, Pending, RecordsOf
    <3>. QED  BY <1>0, <3>1, PutsStay
  <2>. QED  BY <1>0, <2>1 DEF IPut
<1>1. CASE UNCHANGED vars
  <2>1. UNCHANGED <<written, late, ingests>>
    BY <1>1 DEF vars, service, dynamo
  <2>. QED  BY <1>0, <2>1 DEF IHandlers
<1>2. CASE ServiceNext /\ UNCHANGED dynamo
  <2>1. written' = written
    BY <1>2 DEF ServiceNext, RefuseBatch, Validate, ReadConfig, SaveConfig, Tick
  <2>. QED  BY <1>0, <1>2, <2>1, HandlersStep DEF Moves, dynamo
<1>3. ASSUME NEW q \in Queries,
             \/ \E req \in Reads : Ask(q, req, Unexpired(Settled, clock)) /\ UNCHANGED dynamo
             \/ BeginScan(q) \/ ReadPage(q) \/ ScanFails(q)
      PROVE  IInv'
  <2>1. UNCHANGED <<written, late, ingests>>
    BY <1>3 DEF Ask, BeginScan, ReadPage, ScanFails, Finish, dynamo
  <2>. QED  BY <1>0, <2>1 DEF IHandlers
<1>4. ASSUME NEW item \in table, (\E view \in Views : Settle(view, item)) \/ Delete(item)
      PROVE  IInv'
  <2>1. UNCHANGED <<written, late, ingests>>
    BY <1>4 DEF Settle, Delete, service
  <2>. QED  BY <1>0, <2>1 DEF IHandlers
<1>5. ASSUME NEW r \in Ingests, BeginPuts(r) PROVE IInv'
  <2>1. /\ IHandlers' /\ Passed(ingests'[r])
        /\ ingests[r].state = "saving" /\ ingests'[r].state = "putting"
        /\ ingests'[r].next = ingests[r].next /\ ingests[r].next = 1
        /\ \A p \in Ingests \ {r} : ingests'[p] = ingests[p]
        /\ UNCHANGED <<written, late>>
    BY <1>5, Begins
  <2>2. \A p : Stored(p)' = Stored(p) /\ Pending(p)' = Pending(p)
    BY <2>1 DEF Stored, Pending, RecordsOf
  <2>3. \A p \in Ingests \ {r} : Puts(p)'
    BY <2>1, <2>2, PutsStay
  <2>4. Stored(r) = 1 .. ingests[r].next - 1 /\ Pending(r) = {}
    BY <2>1 DEF IPut, Puts, Ended
  <2>5. 1 \in DOMAIN ingests'[r].batch
    BY <2>1, BatchLen
  <2>6. Puts(r)'
    BY <2>1, <2>2, <2>4, <2>5 DEF Puts
  <2>. QED  BY <2>1, <2>3, <2>6 DEF IPut
<1>6. ASSUME NEW r \in Ingests, PutItem(r) PROVE IInv'
  <2>. DEFINE n == ingests[r].next
  <2>1. /\ IHandlers' /\ Passed(ingests'[r]) /\ Passed(ingests[r])
        /\ ingests[r].state = "putting" /\ ingests'[r].batch = ingests[r].batch
        /\ ingests'[r].next = n + 1
        /\ ingests'[r].state = IF n = Len(ingests[r].batch) THEN "accepted" ELSE "putting"
        /\ \A p \in Ingests \ {r} : ingests'[p] = ingests[p]
    BY <1>6, PutSteps
  <2>2. PICK item : /\ item.req = r /\ item.idx = n
                    /\ written' = written \cup {item} /\ late' = late
    BY <1>6 DEF PutItem, Put, Item, Record
  <2>3. \A p : /\ Stored(p)' = IF p = r THEN Stored(p) \cup {n} ELSE Stored(p)
               /\ Pending(p)' = Pending(p)
    BY <2>2, Added DEF Stored, Pending, RecordsOf
  <2>4. \A p \in Ingests \ {r} : Puts(p)'
    BY <2>1, <2>3, PutsStay
  <2>5. /\ n \in Nat /\ n >= 1 /\ n \in DOMAIN ingests[r].batch
        /\ Stored(r) = 1 .. n - 1 /\ Pending(r) = {}
    BY <2>1 DEF IPut, Puts, Ended
  <2>6. /\ Len(ingests[r].batch) \in Nat
        /\ DOMAIN ingests[r].batch = 1 .. Len(ingests[r].batch)
    BY <2>1, BatchLen
  <2>7. Stored(r)' = 1 .. n
    BY <2>3, <2>5, OneLonger
  <2>8. Puts(r)'
    <3>. HIDE DEF n
    <3>1. ingests'[r].state = "accepted" => n = Len(ingests[r].batch)
      BY <2>1
    <3>2. ingests'[r].state = "putting" => n + 1 \in DOMAIN ingests[r].batch
      <4>1. ingests'[r].state = "putting" => n # Len(ingests[r].batch)
        BY <2>1
      <4>. QED  BY <4>1, <2>5, <2>6
    <3>3. n + 1 \in Nat /\ n + 1 >= 1 /\ (n + 1) - 1 = n
      BY <2>5
    <3>. QED  BY <2>1, <2>3, <2>5, <2>6, <2>7, <3>1, <3>2, <3>3 DEF Puts
  <2>. QED  BY <2>1, <2>2, <2>4, <2>8 DEF IPut
<1>7. ASSUME NEW r \in Ingests, PutFails(r) PROVE IInv'
  <2>. DEFINE n == ingests[r].next
  <2>0. ingests[r].state = "putting" /\ IsIngest(ingests[r])
    BY <1>7 DEF PutFails, IHandlers
  <2>a. /\ n \in Nat /\ n >= 1 /\ n \in DOMAIN ingests[r].batch
        /\ Stored(r) = 1 .. n - 1 /\ Pending(r) = {}
    BY <2>0 DEF IPut, Puts, Ended
  <2>b. ingests'[r].state = "refused" /\ ingests'[r].next = n
    BY <1>7, <2>0 DEF PutFails, IHandlers, IsIngest
  <2>c. ~PutItem(r)
    <3>1. PutItem(r) => ingests'[r].next = n + 1
      BY PutSteps
    <3>. QED  BY <2>a, <2>b, <3>1
  <2>1. /\ IHandlers' /\ Passed(ingests'[r])
        /\ \A p \in Ingests \ {r} : ingests'[p] = ingests[p]
    BY <1>7, PutSteps
  <2>d. PICK item : item = Item(r)
    OBVIOUS
  <2>2. /\ item.req = r /\ item.idx = n
        /\ \/ late' = late \cup {item} /\ written' = written
           \/ written' = written \cup {item} /\ late' = late
           \/ UNCHANGED <<late, written>>
    <3>1. item.req = r /\ item.idx = n
      BY <2>d DEF Item, Record
    <3>2. \/ late' = late \cup {item} /\ written' = written
          \/ written' = written \cup {item} /\ late' = late
          \/ UNCHANGED <<late, written>>
      BY <1>7, <2>d DEF PutFails
    <3>. QED  BY <3>1, <3>2
  <2>3. \A p : p # r => Stored(p)' = Stored(p) /\ Pending(p)' = Pending(p)
    BY <2>2, Added DEF Stored, Pending, RecordsOf
  <2>4. \A p \in Ingests \ {r} : Puts(p)'
    BY <2>1, <2>3, PutsStay
  <2>5. \/ Stored(r)' = Stored(r) /\ Pending(r)' = Pending(r) \cup {n}
        \/ Stored(r)' = Stored(r) \cup {n} /\ Pending(r)' = Pending(r)
        \/ Stored(r)' = Stored(r) /\ Pending(r)' = Pending(r)
    BY <2>2, Added DEF Stored, Pending, RecordsOf
  <2>6. /\ Stored(r)' = 1 .. n - 1 \/ Stored(r)' = 1 .. n
        /\ Pending(r)' = {} \/ Pending(r)' = {n}
    <3>1. (1 .. n - 1) \cup {n} = 1 .. n
      BY <2>a, OneLonger
    <3>. HIDE DEF n
    <3>2. Stored(r)' = 1 .. n - 1 \/ Stored(r)' = 1 .. n
      BY <2>5, <2>a, <3>1
    <3>. QED  BY <2>5, <2>a, <3>2
  <2>7. Puts(r)'
    BY <2>1, <2>6, <2>a, <2>b DEF Puts, Ended
  <2>. QED  BY <2>1, <2>2, <2>4, <2>7 DEF IPut
<1>8. ASSUME NEW item \in late, LatePut(item) PROVE IInv'
  <2>1. /\ late' = late \ {item} /\ written' = written \cup {item} /\ ingests' = ingests
    BY <1>8 DEF LatePut
  <2>2. PICK r \in Ingests : r = item.req
    BY DEF IPut
  <2>3. \A p \in Ingests \ {r} : Stored(p)' = Stored(p) /\ Pending(p)' = Pending(p)
    BY <2>1, <2>2, Added DEF Stored, Pending, RecordsOf
  <2>4. \A p \in Ingests \ {r} : Puts(p)'
    BY <2>1, <2>3, PutsStay
  <2>5. Stored(r)' = Stored(r) \cup {item.idx} /\ Pending(r)' \subseteq Pending(r)
        /\ item.idx \in Pending(r)
    BY <2>1, <2>2, Added DEF Stored, Pending, RecordsOf
  <2>6. /\ ingests[r].next \in Nat /\ ingests[r].next >= 1 /\ ingests[r].state \in Ended
        /\ Pending(r) = {ingests[r].next} /\ item.idx = ingests[r].next /\ Passed(ingests[r])
        /\ Stored(r) = 1 .. ingests[r].next - 1 \/ Stored(r) = 1 .. ingests[r].next
    BY <2>5 DEF IPut, Puts
  <2>7. Stored(r)' = 1 .. ingests[r].next
    <3>1. (1 .. ingests[r].next - 1) \cup {ingests[r].next} = 1 .. ingests[r].next
      BY <2>6, OneLonger
    <3>2. (1 .. ingests[r].next) \cup {ingests[r].next} = 1 .. ingests[r].next
      BY <2>6
    <3>. QED  BY <2>5, <2>6, <3>1, <3>2
  <2>8. Puts(r)'
    BY <2>1, <2>5, <2>6, <2>7 DEF Puts, Ended, Passed
  <2>. QED  BY <2>1, <2>4, <2>8 DEF IPut, IHandlers
<1>9. CASE Restart
  <2>1. ServiceRestart
    BY <1>9 DEF Restart
  <2>2. PICK S \in SUBSET {Item(r) : r \in {p \in Ingests : ingests[p].state = "putting"}} :
            late' = late \cup S
    BY <1>9 DEF Restart
  <2>3. written' = written /\ \A p : Stored(p)' = Stored(p)
    BY <2>1 DEF ServiceRestart, Stored, RecordsOf
  <2>4. IHandlers' /\ Breaks
    BY <2>1, HandlersRestart
  <2>5. \A item \in S : \E p \in Ingests : /\ ingests[p].state = "putting"
                                           /\ item.req = p /\ item.idx = ingests[p].next
    BY <2>2 DEF Item, Record
  <2>6. ASSUME NEW r \in Ingests PROVE Puts(r)'
    <3>1. IsIngest(ingests[r])
      BY DEF IHandlers
    <3>2. CASE ingests[r].state = "putting"
      <4>1. /\ ingests'[r].state = "broken" /\ ingests'[r].next = ingests[r].next
            /\ ingests'[r].batch = ingests[r].batch /\ ingests'[r].events = ingests[r].events
        BY <2>1, <3>1, <3>2 DEF ServiceRestart, IsIngest
      <4>2. /\ ingests[r].next \in Nat /\ ingests[r].next >= 1
            /\ Stored(r) = 1 .. ingests[r].next - 1 /\ Pending(r) = {} /\ Passed(ingests[r])
        BY <3>2 DEF IPut, Puts, Ended, IHandlers, Handling
      <4>3. \A item \in late' : item.req = r => item.idx = ingests[r].next
        BY <2>2, <2>5, <4>2 DEF Pending
      <4>4. Pending(r)' = {} \/ Pending(r)' = {ingests[r].next}
        BY <4>3 DEF Pending
      <4>5. Passed(ingests'[r])
        BY <4>1, <4>2 DEF Passed
      <4>. QED  BY <2>3, <4>1, <4>2, <4>4, <4>5 DEF Puts, Ended
    <3>3. CASE ingests[r].state # "putting"
      <4>1. Pending(r)' = Pending(r)
        BY <2>2, <2>5, <3>3 DEF Pending
      <4>2. CASE ingests'[r] = ingests[r]
        BY <2>3, <4>1, <4>2, PutsStay
      <4>3. CASE ingests[r].state \in {"validated", "saving"}
                 /\ ingests'[r] = [ingests[r] EXCEPT !.state = "broken"]
        <5>1. ingests'[r].state = "broken" /\ ingests'[r].next = ingests[r].next
          BY <3>1, <4>3 DEF IsIngest
        <5>2. ingests[r].next = 1 /\ Stored(r) = 1 .. 0 /\ Pending(r) = {}
          BY <4>3 DEF IHandlers, IPut, Puts, Ended
        <5>. QED  BY <2>3, <4>1, <5>1, <5>2 DEF Puts
      <4>. QED  BY <2>4, <3>3, <4>2, <4>3 DEF Breaks
    <3>. QED  BY <3>2, <3>3
  <2>7. \A rec \in written' \cup late' : rec.req \in Ingests
    BY <2>2, <2>3, <2>5 DEF IPut
  <2>. QED  BY <2>4, <2>6, <2>7 DEF IPut
<1>. QED  BY <1>1, <1>2, <1>3, <1>4, <1>5, <1>6, <1>7, <1>8, <1>9 DEF Next

LEMMA InitInv == Init => IInv
<1>. SUFFICES ASSUME Init PROVE IInv
  OBVIOUS
<1>1. IHandlers
  BY HandlersInit DEF Init
<1>2. ASSUME NEW r \in Ingests PROVE Puts(r)
  <2>1. ingests[r].state = "free" /\ ingests[r].next = 1 /\ Stored(r) = {} /\ Pending(r) = {}
    BY DEF Init, ServiceInit, FreeIngest, Stored, Pending, RecordsOf
  <2>. QED  BY <2>1 DEF Puts
<1>3. written = {} /\ late = {}
  BY DEF Init, ServiceInit
<1>. QED  BY <1>1, <1>2, <1>3 DEF IInv, IPut

LEMMA Inductive == Spec => []IInv
  BY InitInv, Step, PTL DEF Spec

-----------------------------------------------------------------------------
(* What a request leaves in the table is a prefix of its events, for any    *)
(* number of requests, pages, failures, late puts and restarts: all of them *)
(* when it was answered 202, none unless Validate accepted every one        *)
(* (metrics.go:25-30, dynamodbstore/store.go:64-89).                        *)
THEOREM Prefix == Spec => []StoredPrefix
<1>1. IInv => StoredPrefix
  <2>. SUFFICES ASSUME IInv, NEW r \in Ingests
                PROVE  /\ Stored(r) = 1 .. Cardinality(Stored(r))
                       /\ ingests[r].state = "accepted" => Stored(r) = DOMAIN ingests[r].batch
                       /\ Stored(r) # {} =>
                             \A i \in DOMAIN ingests[r].batch : Valid(ingests[r].batch[i])
    BY DEF StoredPrefix, Stored
  <2>1. Puts(r)
    BY DEF IInv, IPut
  <2>2. PICK k \in Nat : Stored(r) = 1 .. k
    <3>1. ingests[r].next \in Nat /\ ingests[r].next - 1 \in Nat
      BY <2>1 DEF Puts
    <3>. QED  BY <2>1, <3>1 DEF Puts
  <2>3. Cardinality(Stored(r)) = k
    <3>1. Cardinality(1 .. k) = IF 1 > k THEN 0 ELSE k - 1 + 1
      BY FS_Interval
    <3>2. Cardinality(1 .. k) = k
      BY <3>1
    <3>. QED  BY <2>2, <3>2
  <2>. QED  BY <2>1, <2>2, <2>3 DEF Puts, Passed
<1>. QED  BY Inductive, <1>1, PTL

-----------------------------------------------------------------------------
(* Expiry. *)

LEMMA ForceStays ==
  ASSUME NEW h, NEW g, NEW c, NEW b, InForce(h, c), g.now = h.now, g.seen = h.seen, g.expires = h.expires,
         c \in Nat, b \in Nat, c <= b
  PROVE  InForce(g, b)
<1>1. PICK d \in h.seen, t \in h.now .. c : h.expires = t + d
  BY DEF InForce
<1>2. h.now \in Nat /\ t \in h.now .. b
  BY DEF InForce
<1>. QED  BY <1>1, <1>2 DEF InForce

\* No step of a handler that has put touches its expiry.
LEMMA ExpiryStays ==
  ASSUME IInv, IExpiry, clock \in Nat, clock' \in Nat, clock <= clock',
         \A r \in Ingests : (ingests[r].state \notin {"free", "validated", "saving"}) =>
            /\ ingests'[r].now = ingests[r].now /\ ingests'[r].seen = ingests[r].seen
            /\ ingests'[r].expires = ingests[r].expires,
         \A r \in Ingests : ingests'[r].state = "putting" => ingests[r].state = "putting",
         \A rec \in written' \cup late' :
            \/ rec \in written \cup late
            \/ /\ rec.req \in Ingests /\ ingests[rec.req].state = "putting"
               /\ rec.expires = ingests[rec.req].expires
  PROVE  IExpiry'
<1>1. ASSUME NEW r \in Ingests, ingests[r].state \notin {"free", "validated", "saving"},
             InForce(ingests[r], clock)
      PROVE  InForce(ingests'[r], clock')
  BY <1>1, ForceStays
<1>2. ASSUME NEW rec \in written \cup late
      PROVE  rec.req \in Ingests /\ ingests[rec.req].state \notin {"free", "validated", "saving"}
  <2>1. rec.req \in Ingests
    BY DEF IInv, IPut
  <2>2. Stored(rec.req) # {} \/ Pending(rec.req) # {}
    BY DEF Stored, Pending, RecordsOf
  <2>3. Puts(rec.req)
    BY <2>1 DEF IInv, IPut
  <2>4. ingests[rec.req].state \in {"free", "validated", "saving"} => ingests[rec.req].next = 1
    BY <2>1 DEF IInv, IHandlers
  <2>5. 1 .. 1 - 1 = {}
    OBVIOUS
  <2>. QED  BY <2>1, <2>2, <2>3, <2>4, <2>5 DEF Puts, Ended
<1>3. ASSUME NEW rec \in written' \cup late'
      PROVE  rec.expires = ingests'[rec.req].expires /\ InForce(ingests'[rec.req], clock')
  <2>1. CASE rec \in written \cup late
    BY <1>1, <1>2, <2>1 DEF IExpiry
  <2>2. CASE /\ rec.req \in Ingests /\ ingests[rec.req].state = "putting"
             /\ rec.expires = ingests[rec.req].expires
    BY <1>1, <2>2 DEF IExpiry
  <2>. QED  BY <2>1, <2>2
<1>4. \A r \in Ingests : ingests'[r].state = "putting" => InForce(ingests'[r], clock')
  BY <1>1 DEF IExpiry
<1>. QED  BY <1>3, <1>4 DEF IExpiry

LEMMA ExpiryStep ==
  ASSUME RetentionFits, IInv, IRetention, IExpiry, [Next]_vars
  PROVE  IRetention' /\ IExpiry'
<1>. USE DEF IInv
<1>0. clock \in Nat
  BY DEF IRetention
<1>1. ASSUME UNCHANGED <<clock, days, ingests, written, late>> PROVE IRetention' /\ IExpiry'
  BY <1>0, <1>1, ExpiryStays DEF IRetention
<1>2. CASE UNCHANGED vars
  BY <1>1, <1>2 DEF vars, service, dynamo
<1>3. CASE ServiceNext /\ UNCHANGED dynamo
  <2>1. IRetention' /\ Moves
    BY <1>3, RetentionStep, HandlersStep
  <2>2. clock' = clock \/ clock' = clock + 1
    BY <1>3 DEF ServiceNext, RefuseBatch, Validate, ReadConfig, SaveConfig, Tick
  <2>3. written' = written /\ late' = late
    BY <1>3 DEF ServiceNext, RefuseBatch, Validate, ReadConfig, SaveConfig, Tick, dynamo
  <2>4. clock' \in Nat /\ clock <= clock'
    BY <1>0, <2>2
  <2>. QED  BY <1>0, <2>1, <2>3, <2>4, ExpiryStays DEF Moves
<1>4. ASSUME NEW q \in Queries,
             \/ \E req \in Reads : Ask(q, req, Unexpired(Settled, clock)) /\ UNCHANGED dynamo
             \/ BeginScan(q) \/ ReadPage(q) \/ ScanFails(q)
      PROVE  IRetention' /\ IExpiry'
  BY <1>1, <1>4 DEF Ask, BeginScan, ReadPage, ScanFails, Finish, dynamo
<1>5. ASSUME NEW item \in table, (\E view \in Views : Settle(view, item)) \/ Delete(item)
      PROVE  IRetention' /\ IExpiry'
  BY <1>1, <1>5 DEF Settle, Delete, service
<1>6. ASSUME NEW r \in Ingests, BeginPuts(r) PROVE IRetention' /\ IExpiry'
  <2>1. /\ ingests[r].state = "saving" /\ ingests'[r].state = "putting"
        /\ ingests[r].next = 1
        /\ ingests'[r].now = ingests[r].now /\ ingests'[r].seen = ingests[r].seen
        /\ ingests'[r].expires = clock + Lifetime(ingests[r].days)
        /\ \A p \in Ingests \ {r} : ingests'[p] = ingests[p]
        /\ UNCHANGED <<clock, days, written, late>>
    BY <1>6, Begins
  <2>2. IRetention'
    BY <2>1 DEF IRetention, Handling
  <2>3. ingests[r].now \in Nat
    BY <2>1 DEF IRetention, Handling
  <2>4. InForce(ingests'[r], clock')
    <3>1. \E d \in ingests[r].seen, t \in ingests[r].now .. clock :
             clock + Lifetime(ingests[r].days) = t + d
      BY <2>1, ExpiryInForce
    <3>. QED  BY <2>1, <2>3, <3>1 DEF InForce
  <2>5. \A rec \in written \cup late : rec.req \in Ingests \ {r}
    <3>1. Stored(r) = 1 .. 1 - 1 /\ Pending(r) = {}
      BY <2>1 DEF IPut, Puts, Ended
    <3>2. Stored(r) = {}
      BY <3>1
    <3>3. \A rec \in written \cup late : rec.req # r
      BY <3>1, <3>2 DEF Stored, Pending, RecordsOf
    <3>. QED  BY <3>3 DEF IPut
  <2>6. IExpiry'
    BY <2>1, <2>4, <2>5 DEF IExpiry, InForce
  <2>. QED  BY <2>2, <2>6
<1>7. ASSUME NEW r \in Ingests, PutItem(r) \/ PutFails(r) PROVE IRetention' /\ IExpiry'
  <2>1. /\ ingests[r].state = "putting"
        /\ ingests'[r].state \in {"putting", "accepted", "refused"}
        /\ ingests'[r].now = ingests[r].now /\ ingests'[r].seen = ingests[r].seen
        /\ ingests'[r].expires = ingests[r].expires
        /\ \A p \in Ingests \ {r} : ingests'[p] = ingests[p]
        /\ UNCHANGED <<clock, days>>
    BY <1>7, PutSteps
  <2>2. IRetention'
    BY <2>1 DEF IRetention, Handling
  <2>3. PICK item : item = Item(r)
    OBVIOUS
  <2>4. item.req = r /\ item.expires = ingests[r].expires
    BY <2>3 DEF Item, Record
  <2>5. written' \cup late' \subseteq written \cup late \cup {item}
    BY <1>7, <2>3 DEF PutItem, Put, PutFails
  <2>6. \A rec \in written' \cup late' :
           \/ rec \in written \cup late
           \/ /\ rec.req \in Ingests /\ ingests[rec.req].state = "putting"
              /\ rec.expires = ingests[rec.req].expires
    BY <2>1, <2>4, <2>5
  <2>7. clock' \in Nat /\ clock <= clock'
    BY <1>0, <2>1
  <2>8. /\ \A p \in Ingests : (ingests[p].state \notin {"free", "validated", "saving"}) =>
              /\ ingests'[p].now = ingests[p].now /\ ingests'[p].seen = ingests[p].seen
              /\ ingests'[p].expires = ingests[p].expires
        /\ \A p \in Ingests : ingests'[p].state = "putting" => ingests[p].state = "putting"
    BY <2>1
  <2>. QED  BY <1>0, <2>2, <2>6, <2>7, <2>8, ExpiryStays
<1>8. ASSUME NEW item \in late, LatePut(item) PROVE IRetention' /\ IExpiry'
  <2>1. UNCHANGED <<clock, days, ingests>> /\ written' \cup late' \subseteq written \cup late
    BY <1>8 DEF LatePut
  <2>. QED  BY <1>0, <2>1, ExpiryStays DEF IRetention
<1>9. CASE Restart
  <2>1. ServiceRestart
    BY <1>9 DEF Restart
  <2>2. PICK S \in SUBSET {Item(r) : r \in {p \in Ingests : ingests[p].state = "putting"}} :
            late' = late \cup S
    BY <1>9 DEF Restart
  <2>3. written' = written /\ clock' = clock
    BY <2>1 DEF ServiceRestart
  <2>4. IRetention'
    BY <2>1, RetentionRestart
  <2>5. \A r \in Ingests : /\ ingests'[r].now = ingests[r].now
                           /\ ingests'[r].seen = ingests[r].seen
                           /\ ingests'[r].expires = ingests[r].expires
                           /\ ingests'[r].state = "putting" => ingests[r].state = "putting"
    BY <2>1 DEF ServiceRestart, IHandlers, IsIngest
  <2>6. \A item \in S : /\ item.req \in Ingests /\ ingests[item.req].state = "putting"
                        /\ item.expires = ingests[item.req].expires
    BY <2>2 DEF Item, Record
  <2>7. clock' \in Nat /\ clock <= clock'
    BY <1>0, <2>3
  <2>8. \A rec \in written' \cup late' :
           \/ rec \in written \cup late
           \/ /\ rec.req \in Ingests /\ ingests[rec.req].state = "putting"
              /\ rec.expires = ingests[rec.req].expires
    BY <2>2, <2>3, <2>6
  <2>. QED  BY <1>0, <2>4, <2>5, <2>7, <2>8, ExpiryStays
<1>. QED  BY <1>2, <1>3, <1>4, <1>5, <1>6, <1>7, <1>8, <1>9 DEF Next

(* As long as no retention exceeds time.Duration, the events of a request   *)
(* expire together, a retention after the request was being handled that    *)
(* was in force while it was, however long its puts take and whichever of   *)
(* them are applied late (metrics.go:30, dynamodbstore/store.go:63).        *)
THEOREM InForceAlways == RetentionFits => (Spec => []RetentionInForce)
<1>. SUFFICES ASSUME RetentionFits PROVE Spec => []RetentionInForce
  OBVIOUS
<1>. DEFINE I == IInv /\ IRetention /\ IExpiry
<1>1. Init => I
  <2>. SUFFICES ASSUME Init PROVE I
    OBVIOUS
  <2>1. written = {} /\ late = {} /\ \A r \in Ingests : ingests[r].state = "free"
    BY DEF Init, ServiceInit, FreeIngest
  <2>2. IExpiry
    BY <2>1 DEF IExpiry
  <2>. QED  BY <2>2, InitInv, RetentionInit DEF Init
<1>2. I /\ [Next]_vars => I'
  BY Step, ExpiryStep
<1>3. I => RetentionInForce
  BY DEF IInv, IPut, IExpiry, InForce, RetentionInForce, RecordsOf
<1>. QED  BY <1>1, <1>2, <1>3, PTL DEF Spec

-----------------------------------------------------------------------------
(* Types. *)

IRecords == \A rec \in written \cup late : rec \in RecordType /\ GoodEvent(rec.event)

ITable ==
    /\ table \subseteq written
    /\ settled = [v \in Views |-> settled[v]]
    /\ \A v \in Views : settled[v] \subseteq {item \in table : InView(item, v)}

INext ==
    \A r \in Ingests :
        /\ Len(ingests[r].batch) \in Nat
        /\ ingests[r].next \in 1 .. Len(ingests[r].batch) + 1
        /\ ingests[r].state = "putting" => ingests[r].expires \in Int

ITypes == IInv /\ IData /\ IQueries /\ IRecords /\ ITable /\ INext

LEMMA BatchLength ==
  ASSUME IHandlers, NEW r \in Ingests
  PROVE  Len(ingests[r].batch) \in Nat
<1>1. CASE ingests[r].batch = <<>>
  <2>1. Len(<<>>) \in Nat
    OBVIOUS
  <2>. QED  BY <1>1, <2>1
<1>2. CASE ingests[r].batch \in Batches
  <2>. DEFINE S == Range(ingests[r].batch)
  <2>1. ingests[r].batch \in Seq(S)
    BY <1>2, ServiceAssumption
  <2>. HIDE DEF S
  <2>. QED  BY <2>1
<1>. QED  BY <1>1, <1>2 DEF IHandlers

\* The item a handler is about to put.
LEMMA ItemGood ==
  ASSUME IInv, IData, INext, NEW r \in Ingests, ingests[r].state = "putting"
  PROVE  Item(r) \in RecordType /\ GoodEvent(Item(r).event)
<1>1. ingests[r].next \in DOMAIN ingests[r].batch
  BY DEF IInv, IPut, Puts
<1>2. ingests[r].expires \in Int /\ ingests[r].state \in Handling
  BY DEF INext, Handling
<1>. QED  BY <1>1, <1>2, RecordGood DEF Item, IInv

LEMMA NextStays ==
  ASSUME IHandlers', INext,
         \A r \in Ingests :
            \/ ingests'[r].next = 1 /\ ingests'[r].state # "putting"
            \/ /\ ingests'[r].next = ingests[r].next /\ ingests'[r].batch = ingests[r].batch
               /\ ingests'[r].expires = ingests[r].expires \/ ingests'[r].state # "putting"
               /\ ingests'[r].state = "putting" => ingests[r].state = "putting"
  PROVE  INext'
<1>1. \A r \in Ingests : (Len(ingests[r].batch) \in Nat)'
  BY BatchLength
<1>2. \A n \in Nat : 1 \in 1 .. n + 1
  OBVIOUS
<1>. QED  BY <1>1, <1>2 DEF INext

\* A handler that begins to put fixes an expiry, and one that puts goes on
\* within its batch.
LEMMA PutTypes ==
  ASSUME ITypes, NEW r \in Ingests, BeginPuts(r) \/ PutItem(r) \/ PutFails(r)
  PROVE  IData' /\ INext'
<1>. USE DEF ITypes
<1>1. CASE BeginPuts(r)
  <2>1. /\ IHandlers' /\ ingests[r].state = "saving" /\ ingests'[r].state = "putting"
        /\ ingests'[r].next = ingests[r].next
        /\ ingests'[r].batch = ingests[r].batch
        /\ ingests'[r].expires = clock + Lifetime(ingests[r].days)
        /\ \A p \in Ingests \ {r} : ingests'[p] = ingests[p]
        /\ UNCHANGED <<clock, days>>
    BY <1>1, Begins DEF IInv
  <2>2. ingests'[r].events = ingests[r].events
    BY <1>1 DEF BeginPuts, IInv, IHandlers, IsIngest
  <2>3. ingests[r].days \in Nat /\ clock \in Int
    BY <2>1 DEF IData
  <2>4. clock + Lifetime(ingests[r].days) \in Int
    BY <2>3, LifetimeType
  <2>5. IData'
    BY <2>1, <2>2 DEF IData, Handling
  <2>6. INext'
    BY <2>1, <2>4 DEF INext
  <2>. QED  BY <2>5, <2>6
<1>2. CASE PutItem(r) \/ PutFails(r)
  <2>1. /\ IHandlers' /\ ingests[r].state = "putting"
        /\ ingests'[r].state \in {"putting", "accepted", "refused"}
        /\ ingests'[r].batch = ingests[r].batch
        /\ ingests'[r].expires = ingests[r].expires
        /\ ingests'[r].next = ingests[r].next \/ ingests'[r].next = ingests[r].next + 1
        /\ \A p \in Ingests \ {r} : ingests'[p] = ingests[p]
        /\ UNCHANGED <<clock, days>>
    BY <1>2, PutSteps DEF IInv
  <2>2. ingests'[r].events = ingests[r].events
    BY <1>2 DEF PutItem, Put, PutFails, NextEvent, IInv, IHandlers, IsIngest
  <2>3. IData'
    BY <2>1, <2>2 DEF IData, Handling
  <2>4. /\ ingests[r].next \in DOMAIN ingests[r].batch
        /\ DOMAIN ingests[r].batch = 1 .. Len(ingests[r].batch)
        /\ Len(ingests[r].batch) \in Nat
    BY <2>1, BatchLen DEF IInv, IPut, Puts, IHandlers, Handling
  <2>5. ingests'[r].next \in 1 .. Len(ingests[r].batch) + 1
    BY <2>1, <2>4
  <2>6. INext'
    BY <2>1, <2>5 DEF INext
  <2>. QED  BY <2>3, <2>6
<1>. QED  BY <1>1, <1>2

\* What the steps do to the table.
LEMMA TableStays ==
  ASSUME ITable, table \subseteq table', table' \subseteq written',
         settled' = settled
  PROVE  ITable'
  BY DEF ITable, InView

\* A scan begins, reads a page or fails.
LEMMA ScanSteps ==
  ASSUME IQueries, clock \in Nat, NEW q \in Queries,
         BeginScan(q) \/ ReadPage(q) \/ ScanFails(q)
  PROVE  /\ IQueries'
         /\ \A p \in Queries \ {q} : queries'[p] = queries[p]
         /\ queries[q].state \in {"asked", "scanning"}
         /\ queries'[q].filter = queries[q].filter /\ queries'[q].limit = queries[q].limit
         /\ queries'[q].asked = queries[q].asked /\ queries'[q].must = queries[q].must
         /\ \/ /\ BeginScan(q) /\ queries[q].state = "asked" /\ queries'[q].state = "scanning"
               /\ queries'[q].now = clock /\ queries'[q].page = 1 /\ queries'[q].got = {}
               /\ queries'[q].answer = queries[q].answer
            \/ /\ ReadPage(q) /\ queries[q].state = "scanning"
               /\ queries[q].page < Pages /\ queries'[q].state = "scanning"
               /\ queries'[q].now = queries[q].now
               /\ queries'[q].page = queries[q].page + 1
               /\ queries'[q].got \in PageReads(queries[q])
               /\ queries'[q].answer = queries[q].answer
            \/ /\ ReadPage(q) /\ queries[q].state = "scanning"
               /\ ~(queries[q].page < Pages) /\ queries'[q].state = "answered"
               /\ \E found \in PageReads(queries[q]) :
                     queries'[q].answer \in Cut(found, queries[q].limit)
            \/ /\ ScanFails(q) /\ queries[q].state = "scanning" /\ queries'[q].state = "failed"
<1>1. IsQuery(queries[q]) /\ clock' = clock /\ queries[q].state \in {"asked", "scanning"}
  BY DEF IQueries, BeginScan, ReadPage, ScanFails
<1>2. queries[q].limit \in Nat /\ queries[q].asked \in Nat /\ queries[q].asked <= clock
  BY <1>1 DEF IQueries
<1>3. CASE BeginScan(q)
  <2>1. PICK h : h = [queries[q] EXCEPT !.state = "scanning", !.now = clock]
    OBVIOUS
  <2>2. queries' = [queries EXCEPT ![q] = h] /\ queries[q].state = "asked"
    BY <1>3, <2>1 DEF BeginScan, IQueries
  <2>3. /\ IsQuery(h) /\ h.state = "scanning" /\ h.now = clock
        /\ h.filter = queries[q].filter /\ h.limit = queries[q].limit
        /\ h.asked = queries[q].asked /\ h.must = queries[q].must
        /\ h.page = queries[q].page /\ h.got = queries[q].got /\ h.answer = queries[q].answer
    BY <1>1, <2>1 DEF IsQuery
  <2>4. queries[q].page = 1 /\ queries[q].got = {}
    BY <2>2 DEF IQueries
  <2>5. /\ IQueries' /\ queries'[q] = h /\ \A p \in Queries \ {q} : queries'[p] = queries[p]
    BY <1>1, <1>2, <2>2, <2>3, OneQuery
  <2>. QED  BY <1>3, <2>2, <2>3, <2>4, <2>5
<1>4. CASE ScanFails(q)
  <2>1. PICK h : h = [queries[q] EXCEPT !.state = "failed"]
    OBVIOUS
  <2>2. queries' = [queries EXCEPT ![q] = h] /\ queries[q].state = "scanning"
    BY <1>4, <2>1 DEF ScanFails, IQueries
  <2>3. /\ IsQuery(h) /\ h.state = "failed"
        /\ h.filter = queries[q].filter /\ h.limit = queries[q].limit
        /\ h.asked = queries[q].asked /\ h.must = queries[q].must
    BY <1>1, <2>1 DEF IsQuery
  <2>4. /\ IQueries' /\ queries'[q] = h /\ \A p \in Queries \ {q} : queries'[p] = queries[p]
    BY <1>1, <1>2, <2>2, <2>3, OneQuery
  <2>. QED  BY <1>4, <2>2, <2>3, <2>4
<1>5. CASE ReadPage(q) /\ queries[q].page < Pages
  <2>0. PICK found \in PageReads(queries[q]) :
           queries' = [queries EXCEPT ![q].page = @ + 1, ![q].got = found]
    BY <1>5 DEF ReadPage
  <2>a. PICK n : n = queries[q].page + 1
    OBVIOUS
  <2>1. PICK h : h = [queries[q] EXCEPT !.page = n, !.got = found]
    OBVIOUS
  <2>2. queries' = [queries EXCEPT ![q] = h] /\ queries[q].state = "scanning"
    BY <1>1, <1>5, <2>0, <2>a, <2>1 DEF ReadPage, IQueries, IsQuery
  <2>3. /\ IsQuery(h) /\ h.state = "scanning" /\ h.now = queries[q].now
        /\ h.filter = queries[q].filter /\ h.limit = queries[q].limit
        /\ h.asked = queries[q].asked /\ h.must = queries[q].must
        /\ h.page = n /\ h.got = found /\ h.answer = queries[q].answer
    BY <1>1, <2>1, <2>2 DEF IsQuery
  <2>5. /\ IQueries' /\ queries'[q] = h /\ \A p \in Queries \ {q} : queries'[p] = queries[p]
    BY <1>1, <1>2, <2>2, <2>3, OneQuery
  <2>. QED  BY <1>5, <2>0, <2>a, <2>2, <2>3, <2>5
<1>6. CASE ReadPage(q) /\ ~(queries[q].page < Pages)
  <2>a. PICK found \in PageReads(queries[q]) : Finish(q, found)
    BY <1>6 DEF ReadPage
  <2>0. PICK answer \in Cut(found, queries[q].limit) :
           queries' = [queries EXCEPT ![q].state = "answered", ![q].got = found, ![q].answer = answer]
    BY <2>a DEF Finish
  <2>1. PICK h : h = [queries[q] EXCEPT !.state = "answered", !.got = found, !.answer = answer]
    OBVIOUS
  <2>2. queries' = [queries EXCEPT ![q] = h] /\ queries[q].state = "scanning"
    BY <1>6, <2>0, <2>1 DEF ReadPage, IQueries
  <2>3. /\ IsQuery(h) /\ h.state = "answered"
        /\ h.filter = queries[q].filter /\ h.limit = queries[q].limit
        /\ h.asked = queries[q].asked /\ h.must = queries[q].must /\ h.answer = answer
    BY <1>1, <2>1 DEF IsQuery
  <2>5. /\ IQueries' /\ queries'[q] = h /\ \A p \in Queries \ {q} : queries'[p] = queries[p]
    BY <1>1, <1>2, <2>2, <2>3, OneQuery
  <2>. QED  BY <1>6, <2>a, <2>0, <2>2, <2>3, <2>5
<1>. QED  BY <1>3, <1>4, <1>5, <1>6

LEMMA TypesStep == ITypes /\ [Next]_vars => ITypes'
<1>. SUFFICES ASSUME ITypes, [Next]_vars PROVE ITypes'
  OBVIOUS
<1>. USE DEF ITypes
<1>0. IInv' /\ clock \in Nat
  BY Step DEF IData
<1>1. CASE UNCHANGED vars
  BY <1>0, <1>1 DEF vars, service, dynamo, IData, IQueries, IRecords, ITable, INext
<1>2. CASE ServiceNext /\ UNCHANGED dynamo
  <2>1. IData' /\ Moves
    BY <1>2, DataStep, HandlersStep DEF IInv
  <2>2. queries' = queries /\ written' = written /\ (clock' = clock \/ clock' = clock + 1)
    BY <1>2 DEF ServiceNext, RefuseBatch, Validate, ReadConfig, SaveConfig, Tick
  <2>3. clock' \in Nat /\ clock <= clock'
    BY <1>0, <2>2
  <2>4. IQueries'
    BY <1>0, <2>2, <2>3, QueriesStay
  <2>5. IRecords' /\ ITable'
    BY <1>2, <2>2, TableStays DEF dynamo, IRecords, ITable
  <2>6. \A r \in Ingests :
            \/ ingests'[r] = ingests[r]
            \/ ingests'[r].next = 1 /\ ingests'[r].state # "putting"
    BY <2>1 DEF Moves
  <2>7. INext'
    BY <1>0, <2>6, NextStays DEF IInv
  <2>. QED  BY <1>0, <2>1, <2>4, <2>5, <2>7
<1>3. ASSUME NEW q \in Queries, NEW req \in Reads,
             Ask(q, req, Unexpired(Settled, clock)), UNCHANGED dynamo
      PROVE  ITypes'
  <2>1. IQueries'
    BY <1>0, <1>3, AskEffect
  <2>2. UNCHANGED <<clock, days, ingests, written>>
    BY <1>3 DEF Ask
  <2>. QED  BY <1>0, <1>3, <2>1, <2>2 DEF dynamo, IData, IRecords, ITable, INext
<1>4. ASSUME NEW q \in Queries, BeginScan(q) \/ ReadPage(q) \/ ScanFails(q)
      PROVE  ITypes'
  <2>1. UNCHANGED <<clock, days, ingests, written, dynamo>>
    BY <1>4 DEF BeginScan, ReadPage, ScanFails
  <2>2. IQueries'
    BY <1>0, <1>4, ScanSteps
  <2>. QED  BY <1>0, <2>1, <2>2 DEF dynamo, IData, IRecords, ITable, INext
<1>5. ASSUME NEW r \in Ingests, BeginPuts(r) \/ PutItem(r) \/ PutFails(r)
      PROVE  ITypes'
  <2>1. IData' /\ INext'
    BY <1>5, PutTypes
  <2>2. queries' = queries /\ clock' = clock /\ settled' = settled
    BY <1>5 DEF BeginPuts, PutItem, Put, PutFails, dynamo
  <2>3. IQueries'
    BY <1>0, <2>2, QueriesStay
  <2>4. CASE BeginPuts(r)
    BY <1>0, <2>1, <2>3, <2>4 DEF BeginPuts, dynamo, IRecords, ITable
  <2>5. CASE PutItem(r) \/ PutFails(r)
    <3>1. PICK item : item = Item(r)
      OBVIOUS
    <3>2. item \in RecordType /\ GoodEvent(item.event)
      BY <2>5, <3>1, ItemGood DEF PutItem, Put, PutFails
    <3>3. /\ \/ UNCHANGED <<table, written>>
             \/ table' = table \cup {item} /\ written' = written \cup {item}
          /\ late' = late \/ late' = late \cup {item}
      BY <2>5, <3>1 DEF PutItem, Put, PutFails
    <3>4. table \subseteq table' /\ table' \subseteq written'
      BY <3>3 DEF ITable
    <3>5. ITable'
      BY <2>2, <3>4, TableStays
    <3>6. IRecords'
      BY <3>2, <3>3 DEF IRecords
    <3>. QED  BY <1>0, <2>1, <2>3, <3>5, <3>6
  <2>. QED  BY <1>5, <2>4, <2>5
<1>6. ASSUME NEW item \in late, LatePut(item) PROVE ITypes'
  <2>1. /\ table' = table \cup {item} /\ written' = written \cup {item} /\ late' \subseteq late
        /\ UNCHANGED <<clock, days, ingests, queries, settled>>
    BY <1>6 DEF LatePut
  <2>2. table \subseteq table' /\ table' \subseteq written'
    BY <2>1 DEF ITable
  <2>3. ITable'
    BY <2>1, <2>2, TableStays
  <2>4. IRecords'
    BY <2>1 DEF IRecords
  <2>. QED  BY <1>0, <2>1, <2>3, <2>4 DEF IData, IQueries, INext
<1>7. ASSUME NEW view \in Views, NEW item \in table, Settle(view, item) PROVE ITypes'
  <2>1. /\ settled' = [settled EXCEPT ![view] = @ \cup {item}] /\ InView(item, view)
        /\ UNCHANGED <<service, table, late>>
    BY <1>7 DEF Settle
  <2>2. ITable'
    BY <2>1 DEF ITable, service, InView
  <2>. QED  BY <1>0, <2>1, <2>2 DEF service, IData, IQueries, IRecords, INext
<1>8. ASSUME NEW item \in table, Delete(item) PROVE ITypes'
  <2>1. /\ table' = table \ {item} /\ settled' = [v \in Views |-> settled[v] \ {item}]
        /\ UNCHANGED <<service, late>>
    BY <1>8 DEF Delete
  <2>2. ITable'
    BY <2>1 DEF ITable, service, InView
  <2>. QED  BY <1>0, <2>1, <2>2 DEF service, IData, IQueries, IRecords, INext
<1>9. CASE Restart
  <2>1. ServiceRestart /\ UNCHANGED <<table, settled>>
    BY <1>9 DEF Restart
  <2>2. PICK S \in SUBSET {Item(r) : r \in {p \in Ingests : ingests[p].state = "putting"}} :
            late' = late \cup S
    BY <1>9 DEF Restart
  <2>3. IData' /\ IQueries' /\ written' = written
    BY <2>1, DataRestart, QueriesRestart DEF IInv, ServiceRestart
  <2>4. \A item \in S : item \in RecordType /\ GoodEvent(item.event)
    BY <2>2, ItemGood
  <2>5. IRecords' /\ ITable'
    BY <2>1, <2>2, <2>3, <2>4, TableStays DEF IRecords, ITable
  <2>6. \A r \in Ingests : /\ ingests'[r].next = ingests[r].next
                           /\ ingests'[r].batch = ingests[r].batch
                           /\ ingests'[r].expires = ingests[r].expires
                           /\ ingests'[r].state = "putting" => ingests[r].state = "putting"
    BY <2>1 DEF ServiceRestart, IInv, IHandlers, IsIngest
  <2>7. INext'
    BY <1>0, <2>6, NextStays DEF IInv
  <2>. QED  BY <1>0, <2>3, <2>5, <2>7
<1>. QED  BY <1>1, <1>2, <1>3, <1>4, <1>5, <1>6, <1>7, <1>8, <1>9 DEF Next

LEMMA TypesInit == Init => ITypes
<1>. SUFFICES ASSUME Init PROVE ITypes
  OBVIOUS
<1>1. ServiceInit /\ table = {} /\ late = {} /\ settled = [v \in Views |-> {}] /\ written = {}
  BY DEF Init, ServiceInit
<1>2. \A r \in Ingests : ingests[r].batch = <<>> /\ ingests[r].next = 1 /\ ingests[r].state = "free"
  BY <1>1 DEF ServiceInit, FreeIngest
<1>3. Len(<<>>) \in Nat /\ 1 \in 1 .. Len(<<>>) + 1
  OBVIOUS
<1>4. INext
  BY <1>2, <1>3 DEF INext
<1>5. ITable /\ IRecords
  BY <1>1 DEF ITable, IRecords
<1>. QED  BY <1>1, <1>4, <1>5, InitInv, DataInit, QueriesInit DEF ITypes

LEMMA TypesInvariant == Spec => []ITypes
  BY TypesInit, TypesStep, PTL DEF Spec

(* Handlers and queries are in one of their states, what is stored or may   *)
(* yet be stored has the types of a record, whatever was submitted, and a   *)
(* view settles only on items of the table that belong to it.               *)
THEOREM TypeCorrect == Spec => []TypeOK
<1>1. ITypes => TypeOK
  <2>. SUFFICES ASSUME ITypes PROVE TypeOK
    OBVIOUS
  <2>1. \A r \in Ingests : ingests[r].next \in 1 .. Len(ingests[r].batch) + 1
    BY DEF ITypes, INext
  <2>2. days \in Nat \ {0} /\ clock \in 1 .. MaxClock
    BY DEF ITypes, IData
  <2>3. \A r \in Ingests : ingests[r].state \in {"free", "refused", "validated", "saving", "putting",
                                                "accepted", "broken"}
    BY DEF ITypes, IInv, IHandlers, Handling
  <2>4. \A q \in Queries : queries[q].state \in {"free", "asked", "scanning", "answered", "failed"}
    BY DEF ITypes, IQueries
  <2>5. /\ written \subseteq RecordType /\ late \subseteq RecordType /\ table \subseteq written
        /\ \A v \in Views : settled[v] \subseteq {item \in table : InView(item, v)}
    BY DEF ITypes, IRecords, ITable
  <2>. QED  BY <2>1, <2>2, <2>3, <2>4, <2>5 DEF TypeOK
<1>. QED  BY <1>1, TypesInvariant, PTL

-----------------------------------------------------------------------------
(* The refinement.  IScan is what a query that is being answered knows: an  *)
(* unexpired record it must answer with is still settled, and is among what *)
(* it found when it matches and lies on a page already read.                *)

Scanning(q) ==
    queries[q].state \in {"asked", "scanning"} =>
        /\ queries[q].must \subseteq written
        /\ \A rec \in queries[q].must : rec.expires > clock => rec \in Settled
        /\ queries[q].state = "scanning" =>
              /\ queries[q].now \in Nat /\ queries[q].now <= clock
              /\ queries[q].asked <= queries[q].now
              /\ queries[q].page \in 1 .. Pages
              /\ \A rec \in queries[q].got :
                    rec \in written /\ rec.expires > queries[q].now
                                    /\ Matches(rec.event, queries[q].filter)
              /\ \A rec \in queries[q].must :
                    /\ rec.expires > clock /\ Matches(rec.event, queries[q].filter)
                    /\ PageOf[rec.event.name] < queries[q].page
                    => rec \in queries[q].got

IScan == \A q \in Queries : Scanning(q)

LEMMA SettledWritten ==
  ASSUME ITable
  PROVE  Settled \subseteq table /\ Settled \subseteq written
  BY DEF ITable, Settled

LEMMA SettledGrows ==
  ASSUME ITable, table \subseteq table', \A v \in Views : settled[v] \subseteq settled'[v],
         \A item \in table' : item \in table \/ \A v \in Views : item \notin settled'[v]
  PROVE  Settled \subseteq Settled'
  BY DEF Settled, InView

\* A query is not disturbed by what only adds to the table or to the time.
LEMMA ScanningStays ==
  ASSUME ITypes, NEW q \in Queries, Scanning(q), queries'[q] = queries[q],
         written \subseteq written', clock' \in Nat, clock <= clock',
         \A rec \in Settled : rec.expires > clock => rec \in Settled'
  PROVE  Scanning(q)'
<1>1. clock \in Nat /\ \A rec \in written : rec.expires \in Int
  BY DEF ITypes, IData, IRecords, RecordType
<1>2. \A rec \in written : rec.expires > clock' => rec.expires > clock
  BY <1>1
<1>3. \A t \in Nat : t <= clock => t <= clock'
  BY <1>1
<1>. QED  BY <1>1, <1>2, <1>3 DEF Scanning

\* The index a filter takes a query to holds what the filter matches: a
\* validated event has the trace id of its field among its tags as well.
LEMMA KeyOfMatch ==
  ASSUME NEW item, GoodEvent(item.event), NEW filter, Matches(item.event, filter), NEW S, item \in S
  PROVE  InView(item, ViewOf(filter)) /\ ViewOf(filter) \in Views /\ item \in WithKey(S, filter)
<1>1. item.event.trace = item.event.tags["trace_id"]
  BY DEF GoodEvent
<1>2. \A k \in DOMAIN filter.tags : item.event.tags[k] = filter.tags[k]
  BY DEF Matches
<1>3. CASE Wants(filter, "trace_id")
  <2>1. item.event.trace = filter.tags["trace_id"] /\ filter.tags["trace_id"] # ""
    BY <1>1, <1>2, <1>3 DEF Wants
  <2>2. ViewOf(filter) = "trace-index"
    BY <1>3 DEF ViewOf
  <2>. QED  BY <2>1, <2>2 DEF InView, WithKey, Views
<1>4. CASE ~Wants(filter, "trace_id") /\ Wants(filter, "correlation_id")
  <2>1. /\ item.event.tags["correlation_id"] = filter.tags["correlation_id"]
        /\ filter.tags["correlation_id"] # ""
    BY <1>2, <1>4 DEF Wants
  <2>2. ViewOf(filter) = "correlation-index"
    BY <1>4 DEF ViewOf
  <2>. QED  BY <2>1, <2>2 DEF InView, WithKey, Views
<1>5. CASE ~Wants(filter, "trace_id") /\ ~Wants(filter, "correlation_id")
  <2>1. ViewOf(filter) = "table"
    BY <1>5 DEF ViewOf
  <2>. QED  BY <2>1 DEF InView, WithKey, Views
<1>. QED  BY <1>3, <1>4, <1>5

LEMMA WithKeySubset ==
  ASSUME NEW S, NEW filter
  PROVE  WithKey(S, filter) \subseteq S
  BY DEF WithKey

\* A page adds only what is stored, unexpired at the start and matches, and
\* adds every settled record of the page that is still wanted.
LEMMA PageFinds ==
  ASSUME ITypes, NEW q \in Queries, Scanning(q), queries[q].state = "scanning",
         NEW found \in PageReads(queries[q])
  PROVE  /\ queries[q].got \subseteq found
         /\ \A rec \in found : rec \in written /\ rec.expires > queries[q].now
                                               /\ Matches(rec.event, queries[q].filter)
         /\ \A rec \in Settled :
               /\ rec.expires > clock /\ Matches(rec.event, queries[q].filter)
               /\ PageOf[rec.event.name] = queries[q].page
               => rec \in found
<1>. DEFINE filter == queries[q].filter
            view == ViewOf(filter)
            sure == OnPage(settled[view], queries[q].page)
            maybe == {i \in OnPage(table, queries[q].page) : InView(i, view)}
<1>1. PICK unsettled \in SUBSET (maybe \ sure) : found = Found(queries[q], sure \cup unsettled)
  BY DEF PageReads
<1>2. PICK read : read = sure \cup unsettled
  OBVIOUS
<1>3. view \in Views
  BY DEF ViewOf, Views
<1>4. settled[view] \subseteq table /\ table \subseteq written
  BY <1>3 DEF ITypes, ITable
<1>5. read \subseteq written
  BY <1>2, <1>4 DEF OnPage
<1>6. found = queries[q].got \cup
              {i \in WithKey(read, filter) :
                  i.expires > queries[q].now /\ Matches(i.event, filter)}
  BY <1>1, <1>2 DEF Found, Unexpired
<1>7. \A rec \in queries[q].got : rec \in written /\ rec.expires > queries[q].now
                                                  /\ Matches(rec.event, filter)
  BY DEF Scanning
<1>8. WithKey(read, filter) \subseteq read
  BY WithKeySubset
<1>9. ASSUME NEW rec \in Settled, rec.expires > clock, Matches(rec.event, filter),
             PageOf[rec.event.name] = queries[q].page
      PROVE  rec \in found
  <2>1. rec \in table /\ rec \in written
    BY SettledWritten DEF ITypes
  <2>2. GoodEvent(rec.event) /\ rec.expires \in Int
    BY <2>1 DEF ITypes, IRecords, RecordType
  <2>3. InView(rec, view)
    BY <1>9, <2>2, KeyOfMatch
  <2>4. rec \in settled[view]
    BY <1>3, <2>3 DEF Settled
  <2>5. rec \in read
    BY <1>2, <1>9, <2>4 DEF OnPage
  <2>6. rec \in WithKey(read, filter)
    BY <1>9, <2>2, <2>5, KeyOfMatch
  <2>7. rec.expires > queries[q].now
    <3>1. queries[q].now \in Nat /\ queries[q].now <= clock /\ clock \in Nat
      BY DEF Scanning, ITypes, IData
    <3>. QED  BY <1>9, <2>2, <3>1
  <2>. QED  BY <1>6, <1>9, <2>6, <2>7
<1>. HIDE DEF view, sure, maybe
<1>. QED  BY <1>5, <1>6, <1>7, <1>8, <1>9

\* The page of a record is one of the pages.
LEMMA RecordPage ==
  ASSUME ITypes, NEW rec \in written
  PROVE  PageOf[rec.event.name] \in 1 .. Pages /\ Pages \in Nat
<1>1. GoodEvent(rec.event)
  BY DEF ITypes, IRecords
<1>2. rec.event.name \in DOMAIN PageOf
  BY <1>1, PageAssumption DEF GoodEvent
<1>. QED  BY <1>2, PageAssumption

LEMMA ScanStep == ITypes /\ IScan /\ [Next]_vars => IScan'
<1>. SUFFICES ASSUME ITypes, IScan, [Next]_vars PROVE IScan'
  OBVIOUS
<1>0. ITypes' /\ clock \in Nat /\ clock' \in Nat /\ ITable
  BY TypesStep DEF ITypes, IData
<1>1. ASSUME queries' = queries, written \subseteq written', clock <= clock',
             \A rec \in Settled : rec.expires > clock => rec \in Settled'
      PROVE  IScan'
  BY <1>0, <1>1, ScanningStays DEF IScan
<1>2. CASE UNCHANGED vars
  <2>1. queries' = queries /\ written' = written /\ clock' = clock /\ Settled' = Settled
    BY <1>2 DEF vars, service, dynamo, Settled
  <2>. QED  BY <1>0, <1>1, <2>1
<1>3. CASE ServiceNext /\ UNCHANGED dynamo
  <2>1. queries' = queries /\ written' = written /\ (clock' = clock \/ clock' = clock + 1)
    BY <1>3 DEF ServiceNext, RefuseBatch, Validate, ReadConfig, SaveConfig, Tick
  <2>2. Settled' = Settled
    BY <1>3 DEF dynamo, Settled
  <2>. QED  BY <1>0, <1>1, <2>1, <2>2
<1>4. ASSUME NEW q \in Queries, NEW req \in Reads,
             Ask(q, req, Unexpired(Settled, clock)), UNCHANGED dynamo
      PROVE  IScan'
  <2>1. /\ queries'[q].state = "asked" /\ queries'[q].must = Unexpired(Settled, clock)
        /\ \A p \in Queries \ {q} : queries'[p] = queries[p]
    BY <1>0, <1>4, AskEffect DEF ITypes
  <2>2. written' = written /\ clock' = clock /\ Settled' = Settled
    BY <1>4 DEF Ask, dynamo, Settled
  <2>3. Unexpired(Settled, clock) \subseteq Settled /\ Settled \subseteq written
    BY <1>0, SettledWritten DEF Unexpired
  <2>4. Scanning(q)'
    BY <2>1, <2>2, <2>3 DEF Scanning
  <2>5. \A p \in Queries \ {q} : Scanning(p)'
    BY <1>0, <2>1, <2>2, ScanningStays DEF IScan
  <2>. QED  BY <2>4, <2>5 DEF IScan
<1>5. ASSUME NEW q \in Queries, BeginScan(q) \/ ReadPage(q) \/ ScanFails(q)
      PROVE  IScan'
  <2>0. IQueries
    BY DEF ITypes
  <2>1. /\ \A p \in Queries \ {q} : queries'[p] = queries[p]
        /\ queries[q].state \in {"asked", "scanning"}
        /\ queries'[q].filter = queries[q].filter
        /\ queries'[q].asked = queries[q].asked /\ queries'[q].must = queries[q].must
        /\ \/ /\ BeginScan(q) /\ queries[q].state = "asked" /\ queries'[q].state = "scanning"
              /\ queries'[q].now = clock /\ queries'[q].page = 1 /\ queries'[q].got = {}
           \/ /\ ReadPage(q) /\ queries[q].state = "scanning"
              /\ queries[q].page < Pages /\ queries'[q].state = "scanning"
              /\ queries'[q].now = queries[q].now
              /\ queries'[q].page = queries[q].page + 1
              /\ queries'[q].got \in PageReads(queries[q])
           \/ queries'[q].state \in {"answered", "failed"}
    BY <1>0, <1>5, <2>0, ScanSteps
  <2>2. UNCHANGED <<clock, written, table, settled>>
    BY <1>5 DEF BeginScan, ReadPage, ScanFails, dynamo
  <2>3. Settled' = Settled
    BY <2>2 DEF Settled
  <2>4. \A p \in Queries \ {q} : Scanning(p)'
    BY <1>0, <2>1, <2>2, <2>3, ScanningStays DEF IScan
  <2>5. Scanning(q)
    BY DEF IScan
  <2>6. \A rec \in queries[q].must : rec \in written /\ (rec.expires > clock => rec \in Settled)
    BY <2>1, <2>5 DEF Scanning
  <2>7. \A rec \in queries[q].must : PageOf[rec.event.name] \in 1 .. Pages /\ Pages \in Nat
    BY <2>6, RecordPage
  <2>8. CASE /\ queries[q].state = "asked" /\ queries'[q].state = "scanning"
             /\ queries'[q].now = clock /\ queries'[q].page = 1 /\ queries'[q].got = {}
    <3>1. queries[q].asked <= clock
      BY <2>0, <2>8 DEF IQueries
    <3>2. 1 \in 1 .. Pages /\ \A rec \in queries[q].must : ~(PageOf[rec.event.name] < 1)
      BY <2>7, PageAssumption
    <3>3. clock <= clock
      BY <1>0
    <3>4. Scanning(q)'
      BY <1>0, <2>1, <2>2, <2>3, <2>6, <2>8, <3>1, <3>2, <3>3 DEF Scanning
    <3>. QED  BY <2>4, <3>4 DEF IScan
  <2>9. CASE /\ queries[q].state = "scanning"
             /\ queries[q].page < Pages /\ queries'[q].state = "scanning"
             /\ queries'[q].now = queries[q].now
             /\ queries'[q].page = queries[q].page + 1
             /\ queries'[q].got \in PageReads(queries[q])
    <3>1. /\ queries[q].now \in Nat /\ queries[q].now <= clock
          /\ queries[q].asked <= queries[q].now
          /\ queries[q].page \in 1 .. Pages
          /\ \A rec \in queries[q].must :
                /\ rec.expires > clock /\ Matches(rec.event, queries[q].filter)
                /\ PageOf[rec.event.name] < queries[q].page
                => rec \in queries[q].got
      BY <2>5, <2>9 DEF Scanning
    <3>2. Pages \in Nat
      BY PageAssumption
    <3>3. queries'[q].page \in 1 .. Pages
      BY <2>9, <3>1, <3>2
    <3>4. /\ queries[q].got \subseteq queries'[q].got
          /\ \A rec \in queries'[q].got : rec \in written /\ rec.expires > queries[q].now
                                               /\ Matches(rec.event, queries[q].filter)
          /\ \A rec \in Settled :
               /\ rec.expires > clock /\ Matches(rec.event, queries[q].filter)
               /\ PageOf[rec.event.name] = queries[q].page
               => rec \in queries'[q].got
      BY <2>5, <2>9, PageFinds
    <3>5. ASSUME NEW rec \in queries[q].must, rec.expires > clock,
                 Matches(rec.event, queries[q].filter),
                 PageOf[rec.event.name] < queries'[q].page
          PROVE  rec \in queries'[q].got
      <4>1. PageOf[rec.event.name] < queries[q].page \/ PageOf[rec.event.name] = queries[q].page
        BY <2>7, <2>9, <3>1, <3>5
      <4>. QED  BY <2>6, <3>1, <3>4, <3>5, <4>1
    <3>6. Scanning(q)'
      BY <2>1, <2>2, <2>3, <2>6, <2>9, <3>1, <3>3, <3>4, <3>5 DEF Scanning
    <3>. QED  BY <2>4, <3>6 DEF IScan
  <2>10. CASE queries'[q].state \in {"answered", "failed"}
    BY <2>4, <2>10 DEF IScan, Scanning
  <2>. QED  BY <2>1, <2>8, <2>9, <2>10
<1>6. ASSUME NEW r \in Ingests, BeginPuts(r) \/ PutItem(r) \/ PutFails(r)
      PROVE  IScan'
  <2>1. /\ queries' = queries /\ clock' = clock /\ settled' = settled
        /\ table \subseteq table' /\ written \subseteq written'
    BY <1>6 DEF BeginPuts, PutItem, Put, PutFails, dynamo
  <2>2. Settled \subseteq Settled'
    BY <2>1 DEF Settled
  <2>. QED  BY <1>0, <1>1, <2>1, <2>2
<1>7. ASSUME NEW item \in late, LatePut(item) PROVE IScan'
  <2>1. /\ queries' = queries /\ clock' = clock /\ settled' = settled
        /\ table \subseteq table' /\ written \subseteq written'
    BY <1>7 DEF LatePut
  <2>2. Settled \subseteq Settled'
    BY <2>1 DEF Settled
  <2>. QED  BY <1>0, <1>1, <2>1, <2>2
<1>8. ASSUME NEW view \in Views, NEW item \in table, Settle(view, item) PROVE IScan'
  <2>1. /\ settled' = [settled EXCEPT ![view] = @ \cup {item}]
        /\ UNCHANGED <<service, table, late>>
    BY <1>8 DEF Settle
  <2>2. Settled \subseteq Settled'
    BY <1>0, <2>1 DEF Settled, ITable
  <2>. QED  BY <1>0, <1>1, <2>1, <2>2 DEF service
<1>9. ASSUME NEW item \in table, Delete(item) PROVE IScan'
  <2>1. /\ table' = table \ {item} /\ settled' = [v \in Views |-> settled[v] \ {item}]
        /\ item.expires <= clock /\ UNCHANGED <<service, late>>
    BY <1>9 DEF Delete
  <2>2. item.expires \in Int
    BY DEF ITypes, ITable, IRecords, RecordType
  <2>3. ~(item.expires > clock)
    BY <1>0, <2>1, <2>2
  <2>4. \A rec \in Settled : rec.expires > clock => rec \in Settled'
    BY <2>1, <2>3 DEF Settled
  <2>. QED  BY <1>0, <1>1, <2>1, <2>4 DEF service
<1>10. CASE Restart
  <2>1. ServiceRestart /\ UNCHANGED <<table, settled>>
    BY <1>10 DEF Restart
  <2>2. written' = written /\ clock' = clock /\ Settled' = Settled
    BY <2>1 DEF ServiceRestart, Settled
  <2>3. \A q \in Queries : queries'[q] = queries[q] \/ queries'[q].state = "failed"
    BY <2>1, QueriesRestart DEF ITypes
  <2>4. ASSUME NEW q \in Queries PROVE Scanning(q)'
    <3>1. CASE queries'[q] = queries[q]
      BY <1>0, <2>2, <3>1, ScanningStays DEF IScan
    <3>2. CASE queries'[q].state = "failed"
      BY <3>2 DEF Scanning
    <3>. QED  BY <2>3, <3>1, <3>2
  <2>. QED  BY <2>4 DEF IScan
<1>. QED  BY <1>2, <1>3, <1>4, <1>5, <1>6, <1>7, <1>8, <1>9, <1>10 DEF Next

\* MetricRepository counts like DynamoService does.
LEMMA SameCardinality == \A S : Repository!Cardinality(S) = Cardinality(S)
  BY DEF Cardinality, Repository!Cardinality

\* The answer cut from what the last page completes is one that
\* MetricRepository allows.
LEMMA AnswerAllowed ==
  ASSUME ITypes, IScan, NEW q \in Queries, queries[q].state = "scanning",
         ~(queries[q].page < Pages),
         NEW found \in PageReads(queries[q]), NEW answer \in Cut(found, queries[q].limit)
  PROVE  /\ \A rec \in answer : rec \in written /\ rec.expires > queries[q].asked
                                                /\ Matches(rec.event, queries[q].filter)
         /\ \/ \A rec \in queries[q].must :
                  rec.expires > clock /\ Matches(rec.event, queries[q].filter) => rec \in answer
            \/ queries[q].limit > 0 /\ Cardinality(answer) = queries[q].limit
<1>1. Scanning(q)
  BY DEF IScan
<1>2. /\ queries[q].got \subseteq found
      /\ \A rec \in found : rec \in written /\ rec.expires > queries[q].now
                                            /\ Matches(rec.event, queries[q].filter)
      /\ \A rec \in Settled :
            /\ rec.expires > clock /\ Matches(rec.event, queries[q].filter)
            /\ PageOf[rec.event.name] = queries[q].page
            => rec \in found
  BY <1>1, PageFinds
<1>3. /\ queries[q].must \subseteq written
      /\ \A rec \in queries[q].must : rec.expires > clock => rec \in Settled
      /\ queries[q].now \in Nat /\ queries[q].asked <= queries[q].now
      /\ queries[q].page \in 1 .. Pages
      /\ \A rec \in queries[q].must :
            /\ rec.expires > clock /\ Matches(rec.event, queries[q].filter)
            /\ PageOf[rec.event.name] < queries[q].page
            => rec \in queries[q].got
  BY <1>1 DEF Scanning
<1>4. queries[q].asked \in Nat /\ queries[q].limit \in Nat
  BY DEF ITypes, IQueries
<1>5. \A rec \in found : rec.expires > queries[q].asked
  <2>1. \A rec \in found : rec.expires \in Int
    BY <1>2 DEF ITypes, IRecords, RecordType
  <2>2. \A t \in Int : t > queries[q].now => t > queries[q].asked
    BY <1>3, <1>4
  <2>. QED  BY <1>2, <2>1, <2>2
<1>6. \A rec \in queries[q].must :
         rec.expires > clock /\ Matches(rec.event, queries[q].filter) => rec \in found
  <2>1. ASSUME NEW rec \in queries[q].must, rec.expires > clock,
               Matches(rec.event, queries[q].filter)
        PROVE  rec \in found
    <3>1. PageOf[rec.event.name] \in 1 .. Pages /\ Pages \in Nat
      BY <1>3, RecordPage
    <3>2. PageOf[rec.event.name] < queries[q].page \/ PageOf[rec.event.name] = queries[q].page
      BY <1>3, <3>1
    <3>. QED  BY <1>2, <1>3, <2>1, <3>2
  <2>. QED  BY <2>1
<1>7. CASE queries[q].limit = 0 \/ Cardinality(found) <= queries[q].limit
  <2>1. answer = found
    BY <1>7 DEF Cut
  <2>. QED  BY <1>2, <1>5, <1>6, <2>1
<1>8. CASE ~(queries[q].limit = 0 \/ Cardinality(found) <= queries[q].limit)
  <2>1. answer \subseteq found /\ Cardinality(answer) = queries[q].limit
    BY <1>8 DEF Cut
  <2>2. queries[q].limit > 0
    BY <1>4, <1>8
  <2>. QED  BY <1>2, <1>5, <2>1, <2>2
<1>. QED  BY <1>7, <1>8

\* A step of the service, seen by a client.
LEMMA RefinesStep ==
  ASSUME ITypes, IScan, [Next]_vars
  PROVE  Repository!Next \/ UNCHANGED Repository!vars
<1>0. /\ ITypes' /\ clock \in Nat /\ clock' \in Nat /\ ITable /\ ITable' /\ IQueries /\ IQueries'
      /\ \A rec \in written : rec.expires \in Int
  BY TypesStep DEF ITypes, IData, IRecords, RecordType
<1>. DEFINE U == Unexpired(Settled, clock)
<1>1. Settled \subseteq written /\ Settled' \subseteq written'
  <2>1. Settled \subseteq written
    BY <1>0, SettledWritten
  <2>2. Settled' \subseteq table' /\ table' \subseteq written'
    BY <1>0 DEF ITable, Settled
  <2>. QED  BY <2>1, <2>2
<1>2. \A q \in Queries : Asks[q] = Seen(queries[q]) /\ Asks'[q] = Seen(queries'[q])
  BY DEF Asks
<1>3. \A h : /\ Seen(h).state = IF h.state \in {"asked", "scanning"} THEN "open" ELSE h.state
             /\ Seen(h).filter = h.filter /\ Seen(h).limit = h.limit
             /\ Seen(h).asked = h.asked /\ Seen(h).must = h.must /\ Seen(h).answer = h.answer
  BY DEF Seen
<1>4. ASSUME UNCHANGED <<clock, queries>>, written \subseteq written', Settled \subseteq Settled'
      PROVE  Repository!Next
  <2>1. Asks' = Asks
    BY <1>4 DEF Asks
  <2>2. U \subseteq U' /\ U' \subseteq written'
    BY <1>1, <1>4 DEF Unexpired
  <2>3. Repository!Store
    BY <1>4, <2>1, <2>2 DEF Repository!Store
  <2>. QED  BY <2>3 DEF Repository!Next
<1>5. CASE UNCHANGED vars
  <2>1. UNCHANGED <<clock, written, queries, table, settled>>
    BY <1>5 DEF vars, service, dynamo
  <2>2. Settled' = Settled
    BY <2>1 DEF Settled
  <2>. QED  BY <1>4, <2>1, <2>2
<1>6. CASE ServiceNext /\ UNCHANGED dynamo
  <2>1. queries' = queries /\ written' = written /\ (clock' = clock \/ clock' = clock + 1)
    BY <1>6 DEF ServiceNext, RefuseBatch, Validate, ReadConfig, SaveConfig, Tick
  <2>2. Settled' = Settled
    BY <1>6 DEF dynamo, Settled
  <2>3. CASE clock' = clock
    BY <1>4, <2>1, <2>2, <2>3
  <2>4. CASE clock' = clock + 1
    <3>1. Asks' = Asks
      BY <2>1 DEF Asks
    <3>2. \A rec \in Settled : rec.expires > clock' => rec.expires > clock
      BY <1>0, <1>1, <2>4
    <3>3. U' = {rec \in U : rec.expires > clock'}
      BY <2>2, <3>2 DEF Unexpired
    <3>4. Repository!Pass
      BY <2>1, <2>4, <3>1, <3>3 DEF Repository!Pass, Repository!Unexpired
    <3>. QED  BY <3>4 DEF Repository!Next
  <2>. QED  BY <2>1, <2>3, <2>4
<1>7. ASSUME NEW q \in Queries, NEW req \in Reads,
             Ask(q, req, Unexpired(Settled, clock)), UNCHANGED dynamo
      PROVE  Repository!Next
  <2>1. /\ queries[q].state = "free" /\ queries'[q].state = "asked"
        /\ queries'[q].asked = clock /\ queries'[q].must = U
        /\ \A p \in Queries \ {q} : queries'[p] = queries[p]
    BY <1>0, <1>7, AskEffect
  <2>2. written' = written /\ clock' = clock /\ Settled' = Settled
    BY <1>7 DEF Ask, dynamo, Settled
  <2>3. U' = U
    BY <2>2 DEF Unexpired
  <2>4. /\ Asks[q].state = "free" /\ Asks'[q].state = "open"
        /\ Asks'[q].asked = clock /\ Asks'[q].must = U
        /\ \A p \in Queries \ {q} : Asks'[p] = Asks[p]
    BY <1>2, <1>3, <2>1
  <2>5. Repository!Ask(q)
    BY <2>2, <2>3, <2>4 DEF Repository!Ask
  <2>. QED  BY <2>5 DEF Repository!Next
<1>8. ASSUME NEW q \in Queries, BeginScan(q) \/ ReadPage(q) \/ ScanFails(q)
      PROVE  Repository!Next
  <2>1. /\ \A p \in Queries \ {q} : queries'[p] = queries[p]
        /\ queries[q].state \in {"asked", "scanning"}
        /\ queries'[q].filter = queries[q].filter /\ queries'[q].limit = queries[q].limit
        /\ queries'[q].asked = queries[q].asked /\ queries'[q].must = queries[q].must
        /\ \/ queries'[q].state = "scanning" /\ queries'[q].answer = queries[q].answer
           \/ /\ queries[q].state = "scanning"
              /\ ~(queries[q].page < Pages) /\ queries'[q].state = "answered"
              /\ \E found \in PageReads(queries[q]) :
                     queries'[q].answer \in Cut(found, queries[q].limit)
           \/ queries'[q].state = "failed"
    BY <1>0, <1>8, ScanSteps
  <2>2. UNCHANGED <<clock, written, table, settled>>
    BY <1>8 DEF BeginScan, ReadPage, ScanFails, dynamo
  <2>3. Settled' = Settled
    BY <2>2 DEF Settled
  <2>4. U' = U
    BY <2>2, <2>3 DEF Unexpired
  <2>5. \A p \in Queries \ {q} : Asks'[p] = Asks[p]
    BY <1>2, <2>1
  <2>6. CASE queries'[q].state = "scanning" /\ queries'[q].answer = queries[q].answer
    <3>1. Asks'[q] = Asks[q]
      <4>1. Asks[q] = Seen(queries[q]) /\ Asks'[q] = Seen(queries'[q])
        BY <1>2
      <4>. QED  BY <2>1, <2>6, <4>1 DEF Seen
    <3>2. Asks = [p \in Queries |-> Asks[p]] /\ Asks' = [p \in Queries |-> Asks'[p]]
      BY DEF Asks
    <3>3. Asks' = Asks
      BY <2>5, <3>1, <3>2
    <3>4. Repository!Store
      BY <1>1, <2>2, <2>4, <3>3 DEF Repository!Store, Unexpired
    <3>. QED  BY <3>4 DEF Repository!Next
  <2>7. CASE /\ queries[q].state = "scanning"
             /\ ~(queries[q].page < Pages) /\ queries'[q].state = "answered"
             /\ \E found \in PageReads(queries[q]) :
                    queries'[q].answer \in Cut(found, queries[q].limit)
    <3>1. PICK found \in PageReads(queries[q]) :
             queries'[q].answer \in Cut(found, queries[q].limit)
      BY <2>7
    <3>2. PICK answer : answer = queries'[q].answer
      OBVIOUS
    <3>3. /\ \A rec \in answer : rec \in written /\ rec.expires > queries[q].asked
                                                 /\ Matches(rec.event, queries[q].filter)
          /\ \/ \A rec \in queries[q].must :
                   rec.expires > clock /\ Matches(rec.event, queries[q].filter) => rec \in answer
             \/ queries[q].limit > 0 /\ Cardinality(answer) = queries[q].limit
      BY <2>7, <3>1, <3>2, AnswerAllowed
    <3>4. /\ Asks[q].state = "open" /\ Asks'[q].state = "answered" /\ Asks'[q].answer = answer
          /\ Asks[q].asked = queries[q].asked /\ Asks[q].must = queries[q].must
          /\ Asks[q].limit = queries[q].limit /\ Asks[q].filter = queries[q].filter
      BY <1>2, <1>3, <2>7, <3>2
    <3>5. answer \subseteq {rec \in {r \in written : r.expires > Asks[q].asked} :
                               Matches(rec.event, Asks[q].filter)}
      BY <3>3, <3>4
    <3>6. \/ {rec \in {r \in Asks[q].must : r.expires > clock} :
                               Matches(rec.event, Asks[q].filter)} \subseteq answer
          \/ Asks[q].limit > 0 /\ Repository!Cardinality(answer) = Asks[q].limit
      BY <3>3, <3>4, SameCardinality
    <3>7. Repository!Answer(q)
      BY <2>2, <2>4, <2>5, <3>4, <3>5, <3>6 DEF Repository!Answer, Repository!Unexpired
    <3>. QED  BY <3>7 DEF Repository!Next
  <2>8. CASE queries'[q].state = "failed"
    <3>1. Asks[q].state = "open" /\ Asks'[q].state = "failed"
      BY <1>2, <1>3, <2>1, <2>8
    <3>2. Repository!Fail(q)
      BY <2>2, <2>4, <2>5, <3>1 DEF Repository!Fail
    <3>. QED  BY <3>2 DEF Repository!Next
  <2>. QED  BY <2>1, <2>6, <2>7, <2>8
<1>9. ASSUME NEW r \in Ingests, BeginPuts(r) \/ PutItem(r) \/ PutFails(r)
      PROVE  Repository!Next
  <2>1. /\ queries' = queries /\ clock' = clock /\ settled' = settled
        /\ table \subseteq table' /\ written \subseteq written'
    BY <1>9 DEF BeginPuts, PutItem, Put, PutFails, dynamo
  <2>2. Settled \subseteq Settled'
    BY <2>1 DEF Settled
  <2>. QED  BY <1>4, <2>1, <2>2
<1>10. ASSUME NEW item \in late, LatePut(item) PROVE Repository!Next
  <2>1. /\ queries' = queries /\ clock' = clock /\ settled' = settled
        /\ table \subseteq table' /\ written \subseteq written'
    BY <1>10 DEF LatePut
  <2>2. Settled \subseteq Settled'
    BY <2>1 DEF Settled
  <2>. QED  BY <1>4, <2>1, <2>2
<1>11. ASSUME NEW view \in Views, NEW item \in table, Settle(view, item) PROVE Repository!Next
  <2>1. /\ settled' = [settled EXCEPT ![view] = @ \cup {item}]
        /\ UNCHANGED <<service, table, late>>
    BY <1>11 DEF Settle
  <2>2. Settled \subseteq Settled'
    BY <1>0, <2>1 DEF Settled, ITable
  <2>. QED  BY <1>4, <2>1, <2>2 DEF service
<1>12. ASSUME NEW item \in table, Delete(item) PROVE Repository!Next
  <2>1. /\ table' = table \ {item} /\ settled' = [v \in Views |-> settled[v] \ {item}]
        /\ item.expires <= clock /\ UNCHANGED <<service, late>>
    BY <1>12 DEF Delete
  <2>2. ~(item.expires > clock)
    <3>1. item.expires \in Int
      BY <1>0 DEF ITable
    <3>. QED  BY <1>0, <2>1, <3>1
  <2>3. Asks' = Asks /\ clock' = clock /\ written' = written
    BY <2>1 DEF service, Asks
  <2>4. U \subseteq U'
    BY <2>1, <2>2, <2>3 DEF Unexpired, Settled
  <2>5. U' \subseteq written'
    BY <1>1 DEF Unexpired
  <2>6. Repository!Store
    BY <2>3, <2>4, <2>5 DEF Repository!Store
  <2>. QED  BY <2>6 DEF Repository!Next
<1>13. CASE Restart
  <2>1. ServiceRestart /\ UNCHANGED <<table, settled>>
    BY <1>13 DEF Restart
  <2>2. written' = written /\ clock' = clock /\ Settled' = Settled
    BY <2>1 DEF ServiceRestart, Settled
  <2>3. U' = U
    BY <2>2 DEF Unexpired
  <2>4. ASSUME NEW q \in Queries
        PROVE  \/ Asks'[q] = Asks[q]
               \/ Asks[q].state = "open" /\ Asks'[q].state = "failed"
    <3>1. \/ queries'[q] = queries[q]
          \/ queries[q].state \in {"asked", "scanning"} /\ queries'[q].state = "failed"
      BY <1>0, <2>1, QueriesRestart
    <3>. QED  BY <1>2, <1>3, <3>1
  <2>5. Repository!Restart
    BY <2>2, <2>3, <2>4 DEF Repository!Restart
  <2>. QED  BY <2>5 DEF Repository!Next
<1>. QED  BY <1>5, <1>6, <1>7, <1>8, <1>9, <1>10, <1>11, <1>12, <1>13 DEF Next

(* The service over DynamoDB implements MetricRepository: whatever is put,  *)
(* replicated, expires, is deleted or restarts between the pages of a scan, *)
(* a query answers with matches only and with every settled one, up to its  *)
(* limit.                                                                   *)
THEOREM DynamoImplementsRepository == Spec => ImplementsRepository
<1>1. Init => Repository!Init
  <2>. SUFFICES ASSUME Init PROVE Repository!Init
    OBVIOUS
  <2>1. written = {} /\ table = {} /\ \A q \in Queries : queries[q].state = "free"
    BY DEF Init, ServiceInit, FreeQuery
  <2>2. Unexpired(Settled, clock) = {}
    BY <2>1 DEF Settled, Unexpired
  <2>3. \A q \in Queries : Asks[q].state = "free"
    BY <2>1 DEF Asks, Seen
  <2>. QED  BY <2>1, <2>2, <2>3 DEF Repository!Init
<1>2. Init => IScan
  <2>. SUFFICES ASSUME Init PROVE IScan
    OBVIOUS
  <2>1. \A q \in Queries : queries[q].state = "free"
    BY DEF Init, ServiceInit, FreeQuery
  <2>. QED  BY <2>1 DEF IScan, Scanning
<1>. DEFINE I == ITypes /\ IScan
<1>3. Init => I
  BY <1>2, TypesInit
<1>4. I /\ [Next]_vars => I'
  BY TypesStep, ScanStep
<1>5. I /\ [Next]_vars => [Repository!Next]_(Repository!vars)
  BY RefinesStep
<1>. QED  BY <1>1, <1>3, <1>4, <1>5, PTL DEF Spec, ImplementsRepository, Repository!Spec
=============================================================================
