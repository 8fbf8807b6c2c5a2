-------------------------- MODULE MCDynamoService --------------------------
(* A small instance of DynamoService. *)
EXTENDS DynamoService, TLC

MCTrim(s) == IF s = " " THEN "" ELSE s

(* The two ways of giving a trace id, on two pages of the table. *)
ByField == [name |-> "a", kind |-> "count", ts |-> 0, trace |-> "x", tags |-> << >>]
ByTag   == [name |-> "b", kind |-> "", ts |-> 0, trace |-> " ",
            tags |-> "trace_id" :> "x" @@ "correlation_id" :> "x"]
BadKind == [ByField EXCEPT !.kind = "histogram"]

MCBatches == {<<ByField, ByTag>>, <<ByTag, BadKind>>}

Everything == [route |-> "events", path |-> "", from |-> 0, to |-> 0,
               tagIn |-> NoTagIn, params |-> NoParams]
Aggregate  == [route |-> "summaries", path |-> "", from |-> 0, to |-> 0,
               tagIn |-> [NoTagIn EXCEPT !["trace_id"] = {"x", " "}],
               params |-> [NoParams EXCEPT !["tag.correlation_id"] = "x"]]

MCReads == {Everything, Aggregate, ByTrace("x")}

MCPageOf == "a" :> 1 @@ "b" :> 2

Symmetric == Permutations(Ingests)
=============================================================================
