------------------------ MODULE MC_HealthProjection ------------------------
(***************************************************************************)
(* A monitored source for TLC, in two areas that share no state and are    *)
(* checked side by side.  Health: one host with one problem, which may be  *)
(* critical or informational.  Metrics: one item, which may change its     *)
(* value kind or be disabled, and samples of two clocks, two of which      *)
(* contradict each other.  A behaviour stays in the area chosen at the     *)
(* start.                                                                  *)
(***************************************************************************)
EXTENDS HealthProjection, MetricPolls, TLC

CONSTANTS h1, p1, critical, informational, m1, integer, text, x, y

MCHosts == {h1}
MCProblems == {p1}
MCViews == {critical, informational}
MCOwnerOf == [p \in MCProblems |-> h1]
MCSeverityOf == [v \in MCViews |-> IF v = critical THEN "critical" ELSE "informational"]

MCMetrics == {m1}
Item(shape, enabled) == [shape |-> shape, enabled |-> enabled]
MCItems == {Item(integer, TRUE), Item(text, TRUE), Item(integer, FALSE)}
MCHostOf == [shape \in {integer, text} |-> h1]
Sample(clock, value) == [clock |-> clock, value |-> value]
MCSamples == {Sample(1, x), Sample(1, y), Sample(2, x)}

VARIABLE area

sourceVars == <<area, healthVars, metricVars>>

MCInit == area \in {"health", "metrics"} /\ HealthInit /\ MetricInit

MCNext ==
    /\ UNCHANGED area
    /\ \/ area = "health" /\ HealthNext /\ UNCHANGED metricVars
       \/ area = "metrics" /\ MetricNext /\ UNCHANGED healthVars

MCSpec == MCInit /\ [][MCNext]_sourceVars

Interchangeable == Permutations(InventoryOps) \cup Permutations(ProblemOps)
=============================================================================
