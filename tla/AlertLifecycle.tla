--------------------------- MODULE AlertLifecycle ---------------------------
(***************************************************************************)
(* The alerts of one policy over one subject                               *)
(* (sql/alerting/001_alert_policy_lifecycle.sql, driven by                 *)
(* apps/g7-alert-policy-lifecycle/pg_port.py).                             *)
(*                                                                         *)
(* Each function is one READ COMMITTED transaction of several statements.  *)
(* g7_set_effective_policy_version reads the version, then locks the       *)
(* effective row; g7_apply_current_evaluation reads whether its version is *)
(* effective, then the subject, then decides.  Other transactions commit   *)
(* in between, and any transaction may be rolled back.  What follows the   *)
(* lock of the effective row, or the lookup of the active alert, is one    *)
(* step: the row locks and the unique index leave no other outcome.        *)
(*                                                                         *)
(* The class of the subject stands for what conditions test (the state and *)
(* severity of a problem, the class of a health projection); current, for  *)
(* the evidence and the generations all being current.  Monitoring gives   *)
(* every change of class a revision of its own.  Content hashes and the    *)
(* answers to the caller are left out, and so are calls that change        *)
(* nothing: a version created again, whatever its content.                 *)
(***************************************************************************)
EXTENDS Absent, Naturals, FiniteSets

CONSTANTS
    Versions,      \* policy_version
    Classes,       \* what a subject may be
    Conditions,    \* the sets of classes a version may match
    Evaluators,    \* sessions that call g7_apply_current_evaluation
    Operators,     \* sessions that call g7_set_effective_policy_version
    MaxRevision    \* bound on projection_revision

Revisions == 1 .. MaxRevision

VARIABLES
    subject,          \* the monitoring row an evaluation reads, revision 0 before there is one
    policyVersions,   \* alert_policy_version
    effective,        \* alert_policy_effective_version
    switches,         \* g7_set_effective_policy_version in flight, per operator
    evaluations,      \* g7_apply_current_evaluation in flight, per evaluator
    alerts,           \* alert, by the decision that created it
    decisions         \* alert_decision

policyVars == <<policyVersions, effective, switches>>
alertVars == <<alerts, decisions>>
lifecycleVars == <<subject, policyVars, evaluations, alertVars>>

\* A decision id names the version and the revision; the id of an alert derives from the
\* decision that created it.
Decisions == Versions \X Revisions

Subjects == [revision : Revisions \cup {0}, class : Classes, current : BOOLEAN]
VersionRows == [condition : Conditions, superseded : BOOLEAN]
EffectiveRows == [version : Versions, enabled : BOOLEAN]
Switches == [version : Versions, enabled : BOOLEAN, first : BOOLEAN]
Readings == [revision : Revisions, class : Classes]
Evaluations == [version : Versions, authority : BOOLEAN, reading : Readings \cup {None}]
AlertRows == [state : {"active", "resolved"}, revision : Revisions]
DecisionRows == [effect : {"create", "resolve"}, alert : Decisions]

ASSUME AlertConstants ==
    /\ Conditions \subseteq SUBSET Classes
    /\ MaxRevision \in Nat
    /\ None \notin Decisions \cup DecisionRows \cup AlertRows \cup VersionRows

Active(a) == alerts[a] # None /\ alerts[a].state = "active"
ActiveAlerts == {a \in Decisions : Active(a)}

LifecycleInit ==
    /\ subject \in [revision : {0}, class : Classes, current : {FALSE}]
    /\ policyVersions = [v \in Versions |-> None]
    /\ effective = None
    /\ switches = [o \in Operators |-> None]
    /\ evaluations = [e \in Evaluators |-> None]
    /\ alerts = [d \in Decisions |-> None]
    /\ decisions = [d \in Decisions |-> None]

-----------------------------------------------------------------------------
(* The monitoring rows *)

\* A poll changes the projection: a class or an evidence state at the next revision.
SubjectMoves(class, current) ==
    /\ subject.revision < MaxRevision
    /\ subject' = [revision |-> subject.revision + 1, class |-> class, current |-> current]
    /\ UNCHANGED <<policyVars, evaluations, alertVars>>

\* operational_evidence_state of the source changes; the projection keeps its revision.
EvidenceTurns ==
    /\ subject.revision > 0
    /\ subject' = [subject EXCEPT !.current = ~subject.current]
    /\ UNCHANGED <<policyVars, evaluations, alertVars>>

-----------------------------------------------------------------------------
(* Policy versions *)

\* g7_create_policy_version
CreateVersion(v, condition) ==
    /\ policyVersions[v] = None
    /\ policyVersions' =
          [policyVersions EXCEPT ![v] = [condition |-> condition, superseded |-> FALSE]]
    /\ UNCHANGED <<subject, effective, switches, evaluations, alertVars>>

\* g7_set_effective_policy_version: the version exists and is not superseded, by a read
\* that locks nothing.
CheckVersion(o, v, enabled) ==
    /\ switches[o] = None
    /\ policyVersions[v] # None
    /\ ~policyVersions[v].superseded
    /\ switches' = [switches EXCEPT ![o] = [version |-> v, enabled |-> enabled, first |-> FALSE]]
    /\ UNCHANGED <<subject, policyVersions, effective, evaluations, alertVars>>

\* g7_set_effective_policy_version: there is no effective row to lock.
FindsNoneEffective(o) ==
    /\ switches[o] # None
    /\ ~switches[o].first
    /\ effective = None
    /\ switches' = [switches EXCEPT ![o].first = TRUE]
    /\ UNCHANGED <<subject, policyVersions, effective, evaluations, alertVars>>

\* g7_set_effective_policy_version: the locked row gives the version to supersede, and the
\* upsert replaces it.  One that found no row supersedes nothing.
SwitchEffective(o) ==
    /\ switches[o] # None
    /\ switches[o].first \/ effective # None
    /\ LET s == switches[o] IN
          /\ policyVersions' =
                [v \in Versions |->
                    IF ~s.first /\ v = effective.version /\ v # s.version
                    THEN [policyVersions[v] EXCEPT !.superseded = TRUE]
                    ELSE policyVersions[v]]
          /\ effective' = [version |-> s.version, enabled |-> s.enabled]
    /\ switches' = [switches EXCEPT ![o] = None]
    /\ UNCHANGED <<subject, evaluations, alertVars>>

\* The session of an operator is lost, and its transaction with it.
OperatorLost(o) ==
    /\ switches[o] # None
    /\ switches' = [switches EXCEPT ![o] = None]
    /\ UNCHANGED <<subject, policyVersions, effective, evaluations, alertVars>>

-----------------------------------------------------------------------------
(* g7_apply_current_evaluation *)

\* Mutant form: evaluations of a version do not wait for each other.
StartUnlocked(e, v) ==
    /\ evaluations[e] = None
    /\ policyVersions[v] # None
    /\ evaluations' =
          [evaluations EXCEPT ![e] =
              [version |-> v, reading |-> None,
               authority |-> effective # None /\ effective = [version |-> v, enabled |-> TRUE]]]
    /\ UNCHANGED <<subject, policyVars, alertVars>>

\* The advisory lock of the version and the subject, then whether the version is effective.
StartEvaluation(e, v) ==
    /\ evaluations[e] = None
    /\ \A other \in Evaluators : evaluations[other] # None => evaluations[other].version # v
    /\ policyVersions[v] # None
    /\ evaluations' =
          [evaluations EXCEPT ![e] =
              [version |-> v, reading |-> None,
               authority |-> effective # None /\ effective = [version |-> v, enabled |-> TRUE]]]
    /\ UNCHANGED <<subject, policyVars, alertVars>>

\* The source row; with none, or with evidence that is not current, the call ends.
ReadSubject(e) ==
    /\ evaluations[e] # None
    /\ evaluations[e].reading = None
    /\ evaluations' =
          IF subject.revision > 0 /\ subject.current
          THEN [evaluations EXCEPT ![e].reading =
                   [revision |-> subject.revision, class |-> subject.class]]
          ELSE [evaluations EXCEPT ![e] = None]
    /\ UNCHANGED <<subject, policyVars, alertVars>>

DecisionOf(ev) == <<ev.version, ev.reading.revision>>
Matches(ev) == ev.reading.class \in policyVersions[ev.version].condition

\* Mutant form: only the alerts of the version itself are looked up.
CreatesAlone(ev) ==
    /\ decisions[DecisionOf(ev)] = None
    /\ \A a \in ActiveAlerts : a[1] # ev.version
    /\ Matches(ev) /\ ev.authority

Creates(ev) ==
    /\ decisions[DecisionOf(ev)] = None
    /\ ActiveAlerts = {}
    /\ Matches(ev) /\ ev.authority

\* The guard of the alert table refuses a revision below the alert's.
Resolves(ev, a) ==
    /\ Active(a) /\ a[1] = ev.version
    /\ decisions[DecisionOf(ev)] = None
    /\ alerts[a].revision <= ev.reading.revision
    /\ ~Matches(ev)

CreateAlert(ev) ==
    LET d == DecisionOf(ev) IN
    /\ Creates(ev)
    /\ alerts' = [alerts EXCEPT ![d] = [state |-> "active", revision |-> ev.reading.revision]]
    /\ decisions' = [decisions EXCEPT ![d] = [effect |-> "create", alert |-> d]]

ResolveAlert(ev, a) ==
    /\ Resolves(ev, a)
    /\ alerts' = [alerts EXCEPT ![a] = [state |-> "resolved", revision |-> ev.reading.revision]]
    /\ decisions' = [decisions EXCEPT ![DecisionOf(ev)] = [effect |-> "resolve", alert |-> a]]

\* Everything after the reading of the subject.
Decide(e) ==
    LET ev == evaluations[e] IN
    /\ ev # None /\ ev.reading # None
    /\ \/ CreateAlert(ev)
       \/ \E a \in Decisions : ResolveAlert(ev, a)
       \/ /\ ~Creates(ev)
          /\ \A a \in Decisions : ~Resolves(ev, a)
          /\ UNCHANGED alertVars
    /\ evaluations' = [evaluations EXCEPT ![e] = None]
    /\ UNCHANGED <<subject, policyVars>>

\* The session of an evaluator is lost, and its transaction with it.
EvaluatorLost(e) ==
    /\ evaluations[e] # None
    /\ evaluations' = [evaluations EXCEPT ![e] = None]
    /\ UNCHANGED <<subject, policyVars, alertVars>>

-----------------------------------------------------------------------------

OperatorStep(o) ==
    \/ \E v \in Versions, enabled \in BOOLEAN : CheckVersion(o, v, enabled)
    \/ FindsNoneEffective(o) \/ SwitchEffective(o) \/ OperatorLost(o)

EvaluatorStep(e) ==
    \/ \E v \in Versions : StartEvaluation(e, v)
    \/ ReadSubject(e) \/ Decide(e) \/ EvaluatorLost(e)

LifecycleNext ==
    \/ \E class \in Classes, current \in BOOLEAN : SubjectMoves(class, current)
    \/ EvidenceTurns
    \/ \E v \in Versions, condition \in Conditions : CreateVersion(v, condition)
    \/ \E o \in Operators : OperatorStep(o)
    \/ \E e \in Evaluators : EvaluatorStep(e)

LifecycleSpec == LifecycleInit /\ [][LifecycleNext]_lifecycleVars

-----------------------------------------------------------------------------

LifecycleTypeOK ==
    /\ subject \in Subjects
    /\ policyVersions \in [Versions -> VersionRows \cup {None}]
    /\ effective \in EffectiveRows \cup {None}
    /\ switches \in [Operators -> Switches \cup {None}]
    /\ evaluations \in [Evaluators -> Evaluations \cup {None}]
    /\ alerts \in [Decisions -> AlertRows \cup {None}]
    /\ decisions \in [Decisions -> DecisionRows \cup {None}]

\* A policy has at most one active alert over a subject, whichever of its versions
\* evaluate at the same time (alert_one_active_occurrence, and the lookup that lets an
\* alert of another version stand).
OneActiveAlert == \A a, b \in ActiveAlerts : a = b

\* The alerts of a version follow the revisions of the subject: a later one opens above
\* the revision that resolved the earlier.  The advisory lock keeps the readings of a
\* version in order, and a revision that was decided is not decided again.
OccurrencesAdvance ==
    \A a, b \in Decisions :
        alerts[a] # None /\ alerts[b] # None /\ a[1] = b[1] /\ a[2] < b[2] =>
            alerts[a].state = "resolved" /\ a[2] < alerts[a].revision /\ alerts[a].revision < b[2]

\* No version is effective after it was superseded: the check of
\* g7_set_effective_policy_version refuses it, unless it was made before the version that
\* supersedes it became effective.
SupersededStaysOut == effective # None => ~policyVersions[effective.version].superseded
=============================================================================
