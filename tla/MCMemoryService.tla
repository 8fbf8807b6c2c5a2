-------------------------- MODULE MCMemoryService --------------------------
(* A small instance of MemoryService. *)
EXTENDS MemoryService, TLC

(* strings.TrimSpace on the strings of this instance. *)
MCTrim(s) == CASE s = " " -> "" [] s = " trace_id" -> "trace_id" [] OTHER -> s

NoTags == << >>

(* The two ways of giving a trace id, a client timestamp, and an event that is refused. *)
ByField  == [name |-> "a", kind |-> "count", ts |-> 0, trace |-> "x", tags |-> NoTags]
ByTag    == [name |-> "b", kind |-> "", ts |-> 0, trace |-> " ",
             tags |-> "trace_id" :> "x" @@ "correlation_id" :> "x"]
Stamped  == [name |-> "a", kind |-> "gauge", ts |-> 2, trace |-> "y",
             tags |-> "trace_id" :> "x" @@ "correlation_id" :> "y"]
Collide  == [name |-> "a", kind |-> "money", ts |-> 0, trace |-> "",
             tags |-> "trace_id" :> "x" @@ " trace_id" :> "y"]
BadKind  == [ByField EXCEPT !.kind = "histogram"]

MCBatches == {<<ByField, Collide>>, <<Stamped, ByTag>>, <<ByTag, BadKind>>}

(* Filter is SelectSeq. *)
ASSUME FilterSelects ==
    \A n \in 0 .. 4 : \A s \in [1 .. n -> 1 .. 3], T \in SUBSET (1 .. 3) :
        Filter(s, T) = SelectSeq(s, LAMBDA x : x \in T)

Symmetric == Permutations(Ingests)

Everything == [route |-> "events", path |-> "", from |-> 0, to |-> 0,
               tagIn |-> NoTagIn, params |-> NoParams]
Aggregate  == [route |-> "summaries", path |-> "", from |-> 1, to |-> 3,
               tagIn |-> [NoTagIn EXCEPT !["trace_id"] = {"x", " "}],
               params |-> [NoParams EXCEPT !["tags:correlation_id"] = "x"]]

MCReads == {Everything, Aggregate, ByTrace("x")}
MCMCPReads == {ByCorrelation("x"), ByTrace("x")}
=============================================================================
