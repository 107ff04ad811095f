----------------------------- MODULE MC_Alerting -----------------------------
(***************************************************************************)
(* What follows from the health of a resource, in areas checked side by    *)
(* side: the transport from monitoring, the lifecycle of the alerts of a   *)
(* policy, who acts on an alert, who knows of it, who is responsible for   *)
(* its resource, and the delivery of a notification.  A behaviour stays in *)
(* the area chosen at the start.  People act over a lifecycle of one       *)
(* version that is in effect and a subject that moves twice: an alert      *)
(* opens at the first move and is resolved at the second, or opens at the  *)
(* second.                                                                 *)
(***************************************************************************)
EXTENDS HumanOperations, MonitoringResync, NotificationDelivery, TLC

VARIABLE area

alertingVars == <<area, lifecycleVars, humanVars, resyncVars, notificationVars>>

Areas == {"policies", "actions", "views", "responsibility", "resync", "delivery"}

Report(attempt, kind) == [attempt |-> attempt, kind |-> kind]

MCCallbacks == {Report(1, "failed"), Report(1, "external_read_observed"), Report(1, "delivered")}

Answer(state, bound) == [state |-> state, bound |-> bound]

MCAnswers == {Answer("sent", TRUE), Answer("failed", TRUE), Answer("unknown", FALSE)}

MCConditions == {{"down"}}

\* The processes of every area are the same model values.
Interchangeable == Permutations(Workers)

\* The state a switch to version 1, alone, leaves.
InEffect ==
    /\ subject = [revision |-> 0, class |-> "up", current |-> FALSE]
    /\ policyVersions = [v \in Versions |->
           IF v = 1 THEN [condition |-> {"down"}, superseded |-> FALSE] ELSE None]
    /\ effective = [version |-> 1, enabled |-> TRUE]
    /\ switches = [o \in Operators |-> None]
    /\ evaluations = [e \in Evaluators |-> None]
    /\ alerts = [d \in Decisions |-> None]
    /\ decisions = [d \in Decisions |-> None]

MCInit ==
    /\ area \in Areas
    /\ IF area = "policies" THEN LifecycleInit ELSE InEffect
    /\ HumanInit /\ ResyncInit /\ NotificationInit

\* The lifecycle as far as the areas of people need it.
OneVersionNext ==
    \/ /\ subject.revision < 2
       /\ \E class \in Classes : SubjectMoves(class, TRUE)
    \/ \E e \in Evaluators : StartEvaluation(e, 1) \/ ReadSubject(e) \/ Decide(e)

PeopleStep ==
    \/ area = "actions" /\ ActionStep
    \/ area = "views" /\ ViewStep
    \/ area = "responsibility" /\ ResponsibilityStep
    \/ area \in {"actions", "views"} /\ \E c \in Callers : CallerLost(c)

AlertsNext ==
    \/ area = "policies" /\ LifecycleNext /\ UNCHANGED humanVars
    \/ area \in {"actions", "views"} /\ OneVersionNext /\ UNCHANGED humanVars
    \/ PeopleStep /\ UNCHANGED lifecycleVars

MCNext ==
    /\ UNCHANGED area
    /\ \/ AlertsNext /\ UNCHANGED <<resyncVars, notificationVars>>
       \/ /\ area = "resync" /\ ResyncNext
          /\ UNCHANGED <<lifecycleVars, humanVars, notificationVars>>
       \/ /\ area = "delivery" /\ NotificationNext
          /\ UNCHANGED <<lifecycleVars, humanVars, resyncVars>>

MCSpec == MCInit /\ [][MCNext]_alertingVars
=============================================================================
