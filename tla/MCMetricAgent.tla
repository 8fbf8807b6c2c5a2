---------------------------- MODULE MCMetricAgent ----------------------------
(* MetricAgent on small instances: nothing refused, or the third event. *)
EXTENDS MetricAgent

NoPoison  == {}
ThirdBad  == {3}
=============================================================================
