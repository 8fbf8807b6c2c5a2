------------------------------- MODULE Counting -------------------------------
(***************************************************************************)
(* Both agents number the events they accept, so a queue that neither lost, *)
(* repeated nor reordered one is a sequence that counts.                    *)
(***************************************************************************)
EXTENDS Integers, Sequences

\* s counts up from n + 1.
CountsFrom(n, s) == \A i \in DOMAIN s : s[i] = n + i
=============================================================================
