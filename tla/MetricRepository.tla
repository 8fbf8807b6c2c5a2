-------------------------- MODULE MetricRepository --------------------------
(***************************************************************************)
(* What the metrics service promises to whoever reads from it, whichever    *)
(* storage backend it uses.  A record that was stored settles (from then on *)
(* every new query must see it) and stays settled until it expires.  A      *)
(* query is answered with matching records only, none of them expired when  *)
(* it was asked, and with all that had settled when it was asked and have   *)
(* not expired when it is answered, unless the answer is cut at its limit.  *)
(***************************************************************************)
EXTENDS Integers, FiniteSets

CONSTANTS
    Queries,        \* identities of queries
    Wanted(_, _),   \* whether a record matches a filter
    Durable         \* whether records outlive a restart of the service

VARIABLES
    clock,
    written,        \* every record ever stored
    settled,        \* the unexpired records every new query must see
    asks            \* per query: state, filter, limit, when, must, answer

vars == <<clock, written, settled, asks>>

Unexpired(S, t) == {rec \in S : rec.expires > t}

Init ==
    /\ written = {} /\ settled = {}
    /\ \A q \in Queries : asks[q].state = "free"

(* Records are stored, records settle, or both at once. *)
Store ==
    /\ written \subseteq written'
    /\ settled \subseteq settled'
    /\ settled' \subseteq written'
    /\ UNCHANGED <<clock, asks>>

Pass ==
    /\ clock' = clock + 1
    /\ settled' = Unexpired(settled, clock')
    /\ UNCHANGED <<written, asks>>

Ask(q) ==
    /\ asks[q].state = "free" /\ asks'[q].state = "open"
    /\ asks'[q].asked = clock
    /\ asks'[q].must = settled
    /\ \A p \in Queries \ {q} : asks'[p] = asks[p]
    /\ UNCHANGED <<clock, written, settled>>

(* The code of a backend may take several steps here; only the last one,    *)
(* which fixes the answer, is visible.                                      *)
Answer(q) ==
    LET ask == asks[q]
        ans == asks'[q].answer
        matching(S) == {rec \in S : Wanted(rec, ask.filter)}
    IN  /\ ask.state = "open" /\ asks'[q].state = "answered"
        /\ ans \subseteq matching(Unexpired(written, ask.asked))
        /\ \/ matching(Unexpired(ask.must, clock)) \subseteq ans
           \/ ask.limit > 0 /\ Cardinality(ans) = ask.limit
        /\ \A p \in Queries \ {q} : asks'[p] = asks[p]
        /\ UNCHANGED <<clock, written, settled>>

Fail(q) ==
    /\ asks[q].state = "open" /\ asks'[q].state = "failed"
    /\ \A p \in Queries \ {q} : asks'[p] = asks[p]
    /\ UNCHANGED <<clock, written, settled>>

(* A restart breaks off open queries; without durability records are gone. *)
Restart ==
    /\ settled' = IF Durable THEN settled ELSE {}
    /\ \A q \in Queries :
          \/ asks'[q] = asks[q]
          \/ asks[q].state = "open" /\ asks'[q].state = "failed"
    /\ UNCHANGED <<clock, written>>

Next ==
    \/ Store \/ Pass \/ Restart
    \/ \E q \in Queries : Ask(q) \/ Answer(q) \/ Fail(q)

Spec == Init /\ [][Next]_vars
=============================================================================
