----------------------------- MODULE MetricLists -----------------------------
(***************************************************************************)
(* Event lists as each storage adapter answers them.  memory.Store walks its *)
(* events in insertion order; dynamodbstore.Store first collects the matches *)
(* (scanEvents) and sorts them by timestamp, in no particular order among    *)
(* equal ones.  Of the plain dimensions only name and source are modelled:   *)
(* match treats segment, workflow, step and status as it does source.  Tags  *)
(* are in MetricEvents, expiry and paging in the service modules.            *)
(***************************************************************************)
EXTENDS Collections, FiniteSets, FiniteSetsExt, SequencesExt

CONSTANTS
    Emitted,        \* the events that may be saved
    MaxEvents       \* bound on the number of stored events

VARIABLE stored     \* the events, in the order they were saved

ListsInit == stored = <<>>

Save(event) ==
    /\ Len(stored) < MaxEvents
    /\ stored' = Append(stored, event)

ListsNext == \E event \in Emitted : Save(event)

ListsSpec == ListsInit /\ [][ListsNext]_stored

-----------------------------------------------------------------------------
(* matches, on positions of stored. *)
Match(want, got) == want = "" \/ want = got

Selected(i, f) ==
    /\ stored[i].ts >= f.from /\ stored[i].ts <= f.to
    /\ Match(f.name, stored[i].name)
    /\ Match(f.source, stored[i].source)

Matching(f) == {i \in DOMAIN stored : Selected(i, f)}

(* The order memory.Store meets the matches in. *)
InsertionOrder(f) == Filter([i \in DOMAIN stored |-> i], Matching(f))

(* The orders sort.Slice by timestamp, which is not stable, may leave. *)
TimeOrders(S) ==
    {s \in SetToSeqs(S) :
        \A i \in 1 .. Len(s) - 1 : stored[s[i]].ts <= stored[s[i + 1]].ts}

(* The orders dynamodbstore.Store may meet the matches in. *)
ScanOrders(f) == TimeOrders(Matching(f))

First(s, n) == SubSeq(s, 1, Min({n, Len(s)}))

(* Variant: the answer is left in insertion order. *)
MemoryListsUnsorted(f, limit) == {First(InsertionOrder(f), limit)}

(* memory.Store.ListEvents: the first matches to be saved, then sorted. *)
MemoryLists(f, limit) == TimeOrders(Range(First(InsertionOrder(f), limit)))

(* dynamodbstore.Store.ListEvents: sorted, then the first. *)
DynamoLists(f, limit) == {First(s, limit) : s \in ScanOrders(f)}
=============================================================================
