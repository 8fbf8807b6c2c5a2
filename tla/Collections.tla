----------------------------- MODULE Collections -----------------------------
(***************************************************************************)
(* Two walks over data, written as recursive functions, about which proofs  *)
(* are possible: leaving elements out of a list (SelectSeq for membership   *)
(* of a set), and adding up.                                                *)
(***************************************************************************)
EXTENDS Integers, Sequences

\* The elements of s that are in T, in their order: memory.Store prunes and
\* matches, the webview filters and deletes.
Filter(s, T) ==
    LET kept[n \in 0 .. Len(s)] ==
            IF n = 0 THEN <<>>
            ELSE IF s[n] \in T THEN Append(kept[n - 1], s[n]) ELSE kept[n - 1]
    IN  kept[Len(s)]

\* The sum of f over the finite set S.
SumOver(f, S) ==
    LET sum[T \in SUBSET S] ==
            IF T = {} THEN 0
            ELSE LET x == CHOOSE x \in T : TRUE IN f[x] + sum[T \ {x}]
    IN  sum[S]
=============================================================================
