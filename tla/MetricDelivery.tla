--------------------------- MODULE MetricDelivery ---------------------------
(***************************************************************************)
(* What an agent that keeps failed batches promises, without channels,     *)
(* batches or requests: accepted events leave it oldest first, each one    *)
(* either because the service has stored it (once or more) or because the  *)
(* bounded buffer displaced it.                                            *)
(***************************************************************************)
EXTENDS Integers

VARIABLES
    accepted,   \* events 1 .. accepted were accepted
    settled,    \* events 1 .. settled have left the agent
    stored,     \* events the service has stored
    displaced   \* events dropped for newer ones

vars == <<accepted, settled, stored, displaced>>

Init ==
    /\ accepted = 0 /\ settled = 0
    /\ stored = {} /\ displaced = {}

Accept ==
    /\ accepted' = accepted + 1
    /\ UNCHANGED <<settled, stored, displaced>>

\* The service stores events it was sent; the agent may not know, and a
\* request it gave up may be worked on later.
Store ==
    \E S \in SUBSET (1 .. accepted) :
        /\ stored' = stored \union S
        /\ UNCHANGED <<accepted, settled, displaced>>

\* The agent lets go of its oldest events: all of them are stored.
Settle ==
    \E n \in settled + 1 .. accepted :
        /\ settled + 1 .. n \subseteq stored
        /\ settled' = n
        /\ UNCHANGED <<accepted, stored, displaced>>

Displace ==
    /\ settled < accepted
    /\ settled' = settled + 1
    /\ displaced' = displaced \union {settled + 1}
    /\ UNCHANGED <<accepted, stored>>

Next == Accept \/ Store \/ Settle \/ Displace

Spec == Init /\ [][Next]_vars
=============================================================================
