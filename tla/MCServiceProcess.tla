--------------------------- MODULE MCServiceProcess ---------------------------
EXTENDS ServiceProcess, TLC

(* A new definition that names a time of creation later than its first     *)
(* save, and one under an id of the client's own that names no time, with a *)
(* widget of a metric that lacks the rest.                                  *)
Later == [id |-> "", name |-> "", refresh |-> 0, created |-> 2, widgets |-> <<>>]

Widget == [id |-> "", type |-> "", aggregation |-> "", chart |-> "", metric |-> "m", query |-> ""]

MCDrafts == {Later, [Later EXCEPT !.id = "own", !.created = 0, !.widgets = <<Widget>>]}

MCNewId(n) == ToString(n)

Symmetry == Permutations(Clients)
=============================================================================
