----------------------------- MODULE MCProcesses -----------------------------
(* Executions c1 (steps a and b, with or without index and total, one of    *)
(* them failing) and c2, one known by its message and trace only, one by    *)
(* nothing, and an event of another source.                                 *)
EXTENDS Processes

Event(name, status, ts) ==
    [name |-> name, source |-> "routing-slip-app", workflow |-> "w", step |-> "a",
     status |-> status, ts |-> ts, corr |-> "c1", message |-> "", trace |-> "",
     total |-> 0, index |-> 0, tagged |-> ""]

Step(event, step, index) == [event EXCEPT !.step = step, !.index = index]

MCEmitted ==
    {Step(Event("started", "running", 2), "b", 2),
     Step(Event("completed", "success", 2), "a", 1),
     [Step(Event("completed", "success", 4), "b", 2) EXCEPT !.total = 2, !.workflow = "v"],
     Step(Event("failed", "failed", 4), "b", 2),
     [Event("completed", "success", 5) EXCEPT !.corr = "c2", !.tagged = "failed"],
     [Event("stopped", "stopped", 3) EXCEPT !.corr = "", !.message = "m", !.trace = "t"],
     [Event("retried", "success", 6) EXCEPT !.corr = "", !.step = "", !.workflow = ""],
     [Event("completed", "success", 3) EXCEPT !.source = "routing-slip-pattern"]}
=============================================================================
