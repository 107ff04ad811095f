--------------------------- MODULE AlertingProofs ---------------------------
(***************************************************************************)
(* Proofs about the alerts of a policy, about who acts on an alert, about  *)
(* the transport from monitoring, and about the notification of an intent, *)
(* for any versions, conditions, evaluators, operators, callers, messages, *)
(* consumers, revisions, dispatchers and callbacks.                        *)
(*                                                                         *)
(* What the run checks of the alerts is not inductive: a decision is right *)
(* because the reading it acts on is not older than any decision of its    *)
(* version (ReadingsFollowDecisions), and that holds because the advisory  *)
(* lock lets one evaluation of a version run at a time                     *)
(* (OneEvaluationPerVersion). Who acts on an alert is complete as the      *)
(* history grows by one revision at a time. A receipt is claimed by one    *)
(* consumer as a claim takes a new generation (ClaimsFollowReceipts). What *)
(* a transaction will show of a notification is reported, or reported by   *)
(* the attempt it writes (ShowsReported), and that attempt has no outcome  *)
(* yet or this one (WritesAnAttempt).                                      *)
(***************************************************************************)
EXTENDS HumanOperations, MonitoringResync, NotificationDelivery, FiniteSetTheorems, TLAPS

-----------------------------------------------------------------------------
(* The alerts of a policy *)

InFlight(e) == evaluations[e] # None
HasRead(e) == InFlight(e) /\ evaluations[e].reading # None

\* What is effective, about to be, or evaluated is a version that was created.
VersionsExist ==
    /\ effective # None => policyVersions[effective.version] # None
    /\ \A o \in Operators : switches[o] # None => policyVersions[switches[o].version] # None
    /\ \A e \in Evaluators : InFlight(e) => policyVersions[evaluations[e].version] # None

\* The advisory lock.
OneEvaluationPerVersion ==
    \A e, f \in Evaluators :
        InFlight(e) /\ InFlight(f) /\ evaluations[e].version = evaluations[f].version => e = f

\* Readings and decisions are about revisions the subject has reached.
RevisionsAreReached ==
    /\ \A e \in Evaluators : HasRead(e) => evaluations[e].reading.revision <= subject.revision
    /\ \A d \in Decisions : decisions[d] # None => d[2] <= subject.revision

ReadingsFollowDecisions ==
    \A e \in Evaluators, d \in Decisions :
        HasRead(e) /\ decisions[d] # None /\ d[1] = evaluations[e].version =>
            d[2] <= evaluations[e].reading.revision

\* An alert carries the revision of the last decision about it.
AlertsAreDecided ==
    \A a \in Decisions : alerts[a] # None =>
        /\ decisions[a] # None
        /\ alerts[a].state = "active" => alerts[a].revision = a[2]
        /\ alerts[a].state = "resolved" =>
              a[2] < alerts[a].revision /\ decisions[<<a[1], alerts[a].revision>>] # None

ReadingsInv == OneEvaluationPerVersion /\ RevisionsAreReached /\ ReadingsFollowDecisions
AlertsInv == OneActiveAlert /\ AlertsAreDecided /\ OccurrencesAdvance
IInv == LifecycleTypeOK /\ VersionsExist /\ ReadingsInv /\ AlertsInv

-----------------------------------------------------------------------------
\* A decision id is a version and a revision.
LEMMA DecisionParts ==
    /\ \A d \in Decisions : d[1] \in Versions /\ d[2] \in Revisions /\ d = <<d[1], d[2]>>
    /\ \A v \in Versions, r \in Revisions :
          <<v, r>> \in Decisions /\ <<v, r>>[1] = v /\ <<v, r>>[2] = r
  BY DEF Decisions

\* Revisions are natural numbers.
LEMMA RevisionsAreNat == \A r \in Revisions : r \in Nat /\ 1 <= r
  BY AlertConstants DEF Revisions

\* Nothing is there at first.
LEMMA InitIInv == LifecycleInit => IInv
<1> SUFFICES ASSUME LifecycleInit PROVE IInv
  OBVIOUS
<1> USE DEF LifecycleInit
<1>1. LifecycleTypeOK
  BY DEF LifecycleTypeOK, Subjects
<1>2. VersionsExist
  BY DEF VersionsExist, InFlight
<1>3. ReadingsInv
  BY DEF ReadingsInv, OneEvaluationPerVersion, RevisionsAreReached, ReadingsFollowDecisions,
         InFlight, HasRead
<1>4. AlertsInv
  BY DEF AlertsInv, OneActiveAlert, AlertsAreDecided, OccurrencesAdvance, ActiveAlerts, Active
<1> QED  BY <1>1, <1>2, <1>3, <1>4 DEF IInv

\* The alerts and the decisions alone determine AlertsInv.
LEMMA AlertsKept == AlertsInv /\ UNCHANGED alertVars => AlertsInv'
  BY DEF AlertsInv, alertVars, OneActiveAlert, AlertsAreDecided, OccurrencesAdvance, ActiveAlerts,
         Active

\* A step that ends evaluations or leaves them alone keeps the readings in order, as long as
\* the subject does not go back and nothing is decided.
LEMMA ReadingsKept ==
    ASSUME IInv, subject'.revision \in Nat, subject.revision <= subject'.revision,
           decisions' = decisions,
           \A e \in Evaluators : evaluations'[e] = evaluations[e] \/ evaluations'[e] = None
    PROVE  ReadingsInv'
<1> USE DEF IInv, ReadingsInv, InFlight, HasRead
<1>1. OneEvaluationPerVersion'
  BY DEF OneEvaluationPerVersion
<1>2. subject.revision \in Nat
  BY RevisionsAreNat DEF LifecycleTypeOK, Subjects
<1>3. ASSUME NEW e \in Evaluators, HasRead(e)'
      PROVE  evaluations'[e] = evaluations[e] /\ HasRead(e) /\ evaluations[e].reading.revision \in Nat
  BY <1>3, RevisionsAreNat DEF LifecycleTypeOK, Evaluations, Readings
<1>4. RevisionsAreReached'
  <2>1. \A e \in Evaluators : HasRead(e)' => evaluations'[e].reading.revision <= subject'.revision
    BY <1>2, <1>3 DEF RevisionsAreReached
  <2>2. \A d \in Decisions : decisions'[d] # None => d[2] <= subject'.revision
    BY <1>2, DecisionParts, RevisionsAreNat DEF RevisionsAreReached
  <2> QED  BY <2>1, <2>2 DEF RevisionsAreReached
<1>5. ReadingsFollowDecisions'
  BY <1>3 DEF ReadingsFollowDecisions
<1> QED  BY <1>1, <1>4, <1>5

-----------------------------------------------------------------------------
(* The steps of the subject, of the policy versions and of the operators *)

\* Monitoring moves the subject forward only.
LEMMA SubjectKeeps ==
    ASSUME IInv,
           \/ \E class \in Classes, current \in BOOLEAN : SubjectMoves(class, current)
           \/ EvidenceTurns
    PROVE  IInv'
<1>1. subject' \in Subjects /\ subject'.revision \in Nat /\ subject.revision <= subject'.revision
  <2>1. subject \in Subjects /\ subject.revision \in Nat /\ subject.revision <= MaxRevision
    BY AlertConstants DEF IInv, LifecycleTypeOK, Subjects, Revisions
  <2>2. CASE \E class \in Classes, current \in BOOLEAN : SubjectMoves(class, current)
    <3>1. PICK class \in Classes, current \in BOOLEAN : SubjectMoves(class, current)
      BY <2>2
    <3>2. subject.revision + 1 \in Revisions
      BY <2>1, <3>1, AlertConstants DEF SubjectMoves, Revisions
    <3> QED  BY <2>1, <3>1, <3>2 DEF SubjectMoves, Subjects
  <2>3. CASE EvidenceTurns
    <3> DEFINE turned == ~subject.current
    <3>1. turned \in BOOLEAN
      BY Zenon
    <3>2. subject' = [subject EXCEPT !.current = turned]
      BY <2>3 DEF EvidenceTurns
    <3> HIDE DEF turned
    <3> QED  BY <2>1, <3>1, <3>2 DEF Subjects
  <2> QED  BY <2>2, <2>3
<1>2. UNCHANGED <<policyVars, evaluations, alertVars>>
  BY DEF SubjectMoves, EvidenceTurns
<1>3. LifecycleTypeOK' /\ VersionsExist'
  BY <1>1, <1>2 DEF IInv, LifecycleTypeOK, VersionsExist, InFlight, policyVars, alertVars
<1>4. ReadingsInv'
  BY <1>1, <1>2, ReadingsKept DEF alertVars
<1> QED  BY <1>2, <1>3, <1>4, AlertsKept DEF IInv

\* What the policy steps leave alone is all the alerts depend on.
LEMMA PolicyKeeps ==
    ASSUME IInv, UNCHANGED <<subject, evaluations, alertVars>>,
           policyVersions' \in [Versions -> VersionRows \cup {None}],
           effective' \in EffectiveRows \cup {None},
           switches' \in [Operators -> Switches \cup {None}],
           \A v \in Versions : policyVersions[v] # None => policyVersions'[v] # None,
           effective' # None => policyVersions'[effective'.version] # None,
           \A o \in Operators :
               switches'[o] # None => policyVersions'[switches'[o].version] # None
    PROVE  IInv'
<1>1. LifecycleTypeOK'
  BY DEF IInv, LifecycleTypeOK, alertVars
<1>2. VersionsExist'
  BY DEF IInv, LifecycleTypeOK, VersionsExist, InFlight, Evaluations
<1>3. ReadingsInv'
  BY DEF IInv, ReadingsInv, OneEvaluationPerVersion, RevisionsAreReached, ReadingsFollowDecisions,
         InFlight, HasRead, alertVars
<1> QED  BY <1>1, <1>2, <1>3, AlertsKept DEF IInv

\* Creating a version takes none away, and changes nothing about those there are.
LEMMA CreateVersionKeeps ==
    ASSUME IInv, NEW v \in Versions, NEW condition \in Conditions, CreateVersion(v, condition)
    PROVE  IInv'
<1> DEFINE row == [condition |-> condition, superseded |-> FALSE]
<1>1. row \in VersionRows
  BY DEF VersionRows
<1> HIDE DEF row
<1>1a. row # None
  BY <1>1, AlertConstants
<1>2. policyVersions' = [policyVersions EXCEPT ![v] = row]
  BY DEF CreateVersion, row
<1>3. /\ UNCHANGED <<subject, evaluations, alertVars, effective, switches>>
      /\ policyVersions' \in [Versions -> VersionRows \cup {None}]
      /\ \A w \in Versions : policyVersions[w] # None => policyVersions'[w] # None
  BY <1>1, <1>1a, <1>2 DEF CreateVersion, IInv, LifecycleTypeOK
<1>4. effective' # None => policyVersions'[effective'.version] # None
  BY <1>3 DEF IInv, LifecycleTypeOK, VersionsExist, EffectiveRows
<1>5. \A o \in Operators : switches'[o] # None => policyVersions'[switches'[o].version] # None
  BY <1>3 DEF IInv, LifecycleTypeOK, VersionsExist, Switches
<1>6. effective' \in EffectiveRows \cup {None} /\ switches' \in [Operators -> Switches \cup {None}]
  BY <1>3 DEF IInv, LifecycleTypeOK
<1> QED  BY <1>3, <1>4, <1>5, <1>6, PolicyKeeps

\* A switch of the policy names a version that was created, while it waits and when it lands.
LEMMA OperatorKeeps ==
    ASSUME IInv, NEW o \in Operators, OperatorStep(o)
    PROVE  IInv'
<1> USE DEF IInv, LifecycleTypeOK, VersionsExist
<1>0. \A row \in VersionRows : [row EXCEPT !.superseded = TRUE] \in VersionRows
  BY DEF VersionRows
<1>1. CASE \E v \in Versions, enabled \in BOOLEAN : CheckVersion(o, v, enabled)
  <2>1. PICK v \in Versions, enabled \in BOOLEAN : CheckVersion(o, v, enabled)
    BY <1>1
  <2> QED  BY <2>1, PolicyKeeps DEF CheckVersion, Switches
<1>2. CASE FindsNoneEffective(o)
  BY <1>2, PolicyKeeps DEF FindsNoneEffective, Switches
<1>3. CASE SwitchEffective(o)
  <2>1. switches[o] \in Switches /\ policyVersions[switches[o].version] # None
    BY <1>3 DEF SwitchEffective
  <2>2. \A v \in Versions :
           policyVersions'[v] \in VersionRows \cup {None}
           /\ (policyVersions[v] # None => policyVersions'[v] # None)
    <3> SUFFICES ASSUME NEW v \in Versions
                 PROVE  /\ policyVersions'[v] \in VersionRows \cup {None}
                        /\ policyVersions[v] # None => policyVersions'[v] # None
      OBVIOUS
    <3>1. CASE ~switches[o].first /\ v = effective.version /\ v # switches[o].version
      <4>1. effective # None /\ policyVersions[v] # None
        BY <1>3, <3>1 DEF SwitchEffective
      <4>2. policyVersions'[v] = [policyVersions[v] EXCEPT !.superseded = TRUE]
        BY <1>3, <3>1 DEF SwitchEffective
      <4>3. policyVersions[v] \in VersionRows
        BY <4>1
      <4>4. [policyVersions[v] EXCEPT !.superseded = TRUE] \in VersionRows
        BY <4>3, <1>0
      <4> QED  BY <4>2, <4>4, AlertConstants
    <3>2. CASE ~(~switches[o].first /\ v = effective.version /\ v # switches[o].version)
      BY <1>3, <3>2 DEF SwitchEffective
    <3> QED  BY <3>1, <3>2
  <2>3. policyVersions' \in [Versions -> VersionRows \cup {None}]
    BY <1>3, <2>2 DEF SwitchEffective
  <2>4. effective' \in EffectiveRows /\ effective'.version = switches[o].version
    BY <1>3, <2>1 DEF SwitchEffective, EffectiveRows, Switches
  <2>5. switches' \in [Operators -> Switches \cup {None}]
        /\ \A p \in Operators : switches'[p] # None => switches'[p] = switches[p]
    BY <1>3 DEF SwitchEffective
  <2>6. policyVersions'[effective'.version] # None
    BY <2>1, <2>2, <2>4 DEF Switches
  <2>7. \A p \in Operators : switches'[p] # None => policyVersions'[switches'[p].version] # None
    BY <2>2, <2>5 DEF Switches
  <2>8. UNCHANGED <<subject, evaluations, alertVars>>
    BY <1>3 DEF SwitchEffective
  <2> QED  BY <2>2, <2>3, <2>4, <2>5, <2>6, <2>7, <2>8, PolicyKeeps
<1>4. CASE OperatorLost(o)
  BY <1>4, PolicyKeeps DEF OperatorLost
<1> QED  BY <1>1, <1>2, <1>3, <1>4 DEF OperatorStep

-----------------------------------------------------------------------------
(* The steps of an evaluation before it decides *)

\* A reading and its evaluation have the types of their parts.
LEMMA EvaluationParts ==
    ASSUME IInv, NEW e \in Evaluators, InFlight(e)
    PROVE  /\ evaluations[e] \in Evaluations /\ evaluations[e].version \in Versions
           /\ HasRead(e) => evaluations[e].reading \in Readings
                            /\ evaluations[e].reading.revision \in Revisions
                            /\ DecisionOf(evaluations[e]) \in Decisions
                            /\ DecisionOf(evaluations[e])[1] = evaluations[e].version
                            /\ DecisionOf(evaluations[e])[2] = evaluations[e].reading.revision
  BY DecisionParts
  DEF IInv, LifecycleTypeOK, InFlight, HasRead, Evaluations, Readings, DecisionOf

\* A step of one evaluation that ends it.
LEMMA EndedKeeps ==
    ASSUME IInv, NEW e \in Evaluators, UNCHANGED <<subject, policyVars, alertVars>>,
           evaluations' = [evaluations EXCEPT ![e] = None]
    PROVE  IInv'
<1>1. evaluations' \in [Evaluators -> Evaluations \cup {None}]
      /\ \A f \in Evaluators : evaluations'[f] = evaluations[f] \/ evaluations'[f] = None
  BY DEF IInv, LifecycleTypeOK
<1>2. LifecycleTypeOK'
  BY <1>1 DEF IInv, LifecycleTypeOK, policyVars, alertVars
<1>3. VersionsExist'
  BY <1>1 DEF IInv, VersionsExist, InFlight, policyVars
<1>4. ReadingsInv'
  BY <1>1, ReadingsKept, RevisionsAreNat DEF IInv, LifecycleTypeOK, Subjects, alertVars
<1> QED  BY <1>2, <1>3, <1>4, AlertsKept DEF IInv

\* An evaluation starts under the advisory lock, with nothing read.
LEMMA StartKeeps ==
    ASSUME IInv, NEW e \in Evaluators, NEW v \in Versions, StartEvaluation(e, v)
    PROVE  IInv'
<1> DEFINE effectiveNow == effective # None /\ effective = [version |-> v, enabled |-> TRUE]
           started == [version |-> v, reading |-> None, authority |-> effectiveNow]
<1>1. effectiveNow \in BOOLEAN
  BY Zenon
<1>2. evaluations' = [evaluations EXCEPT ![e] = started]
  BY DEF StartEvaluation
<1> HIDE DEF effectiveNow
<1>3. started \in Evaluations /\ started.version = v /\ started.reading = None
  BY <1>1 DEF Evaluations
<1> HIDE DEF started
<1>4. UNCHANGED <<subject, policyVars, alertVars>>
  BY DEF StartEvaluation
<1>5. /\ evaluations' \in [Evaluators -> Evaluations \cup {None}]
      /\ evaluations'[e] = started
      /\ \A f \in Evaluators \ {e} : evaluations'[f] = evaluations[f]
  BY <1>2, <1>3 DEF IInv, LifecycleTypeOK
<1>6. LifecycleTypeOK'
  BY <1>4, <1>5 DEF IInv, LifecycleTypeOK, policyVars, alertVars
<1>7. VersionsExist'
  BY <1>3, <1>4, <1>5 DEF IInv, VersionsExist, InFlight, policyVars, StartEvaluation
<1>8. OneEvaluationPerVersion'
  BY <1>3, <1>5 DEF IInv, ReadingsInv, OneEvaluationPerVersion, InFlight, StartEvaluation
<1>9. RevisionsAreReached' /\ ReadingsFollowDecisions'
  BY <1>3, <1>4, <1>5
  DEF IInv, ReadingsInv, RevisionsAreReached, ReadingsFollowDecisions, InFlight, HasRead, alertVars
<1> QED  BY <1>4, <1>6, <1>7, <1>8, <1>9, AlertsKept DEF IInv, ReadingsInv

\* The subject is read at its revision, which no decision is above.
LEMMA ReadKeeps ==
    ASSUME IInv, NEW e \in Evaluators, ReadSubject(e)
    PROVE  IInv'
<1> DEFINE reading == [revision |-> subject.revision, class |-> subject.class]
<1>1. UNCHANGED <<subject, policyVars, alertVars>>
  BY DEF ReadSubject
<1>2. CASE subject.revision > 0 /\ subject.current
  <2>1. evaluations' = [evaluations EXCEPT ![e].reading = reading]
    BY <1>2 DEF ReadSubject
  <2>2. reading \in Readings /\ reading.revision = subject.revision
        /\ subject.revision \in Nat
    BY <1>2, RevisionsAreNat DEF IInv, LifecycleTypeOK, Subjects, Readings
  <2> HIDE DEF reading
  <2>3. evaluations[e] \in Evaluations
    BY DEF ReadSubject, IInv, LifecycleTypeOK
  <2>4. /\ evaluations' \in [Evaluators -> Evaluations \cup {None}]
        /\ evaluations'[e].reading = reading /\ evaluations'[e].version = evaluations[e].version
        /\ \A f \in Evaluators \ {e} : evaluations'[f] = evaluations[f]
    BY <2>1, <2>2, <2>3 DEF IInv, LifecycleTypeOK, Evaluations
  <2>5. LifecycleTypeOK'
    BY <1>1, <2>4 DEF IInv, LifecycleTypeOK, policyVars, alertVars
  <2>6. VersionsExist'
    BY <1>1, <2>4 DEF IInv, VersionsExist, InFlight, policyVars, ReadSubject
  <2>7. OneEvaluationPerVersion'
    BY <2>4 DEF IInv, ReadingsInv, OneEvaluationPerVersion, InFlight, ReadSubject
  <2>8. RevisionsAreReached' /\ ReadingsFollowDecisions'
    <3>1. RevisionsAreReached'
      BY <1>1, <2>2, <2>4
      DEF IInv, ReadingsInv, RevisionsAreReached, InFlight, HasRead, alertVars
    <3>2. ReadingsFollowDecisions'
      BY <1>1, <2>2, <2>4
      DEF IInv, ReadingsInv, RevisionsAreReached, ReadingsFollowDecisions, InFlight, HasRead,
          alertVars
    <3> QED  BY <3>1, <3>2
  <2> QED  BY <1>1, <2>5, <2>6, <2>7, <2>8, AlertsKept DEF IInv, ReadingsInv
<1>3. CASE ~(subject.revision > 0 /\ subject.current)
  BY <1>1, <1>3, EndedKeeps DEF ReadSubject
<1> QED  BY <1>2, <1>3

-----------------------------------------------------------------------------
(* The decision *)

\* A decision of an evaluation leaves the other readings in order: they are of other versions.
LEMMA DecidedReadings ==
    ASSUME IInv, NEW e \in Evaluators, HasRead(e), UNCHANGED <<subject, policyVars>>,
           evaluations' = [evaluations EXCEPT ![e] = None],
           \A d \in Decisions \ {DecisionOf(evaluations[e])} : decisions'[d] = decisions[d]
    PROVE  ReadingsInv'
<1> USE DEF IInv, ReadingsInv, InFlight, HasRead
<1>1. /\ evaluations'[e] = None
      /\ \A f \in Evaluators \ {e} : evaluations'[f] = evaluations[f]
      /\ \A f \in Evaluators : evaluations'[f] # None => evaluations'[f] = evaluations[f] /\ f # e
  BY DEF LifecycleTypeOK
<1>2. OneEvaluationPerVersion'
  BY <1>1 DEF OneEvaluationPerVersion
<1>3. RevisionsAreReached'
  BY <1>1, EvaluationParts DEF RevisionsAreReached
<1>4. ReadingsFollowDecisions'
  <2> SUFFICES ASSUME NEW f \in Evaluators, NEW d \in Decisions, HasRead(f)',
                      decisions'[d] # None, d[1] = evaluations'[f].version
               PROVE  d[2] <= evaluations'[f].reading.revision
    BY DEF ReadingsFollowDecisions
  <2>1. f # e /\ evaluations'[f] = evaluations[f]
    BY <1>1
  <2>2. d # DecisionOf(evaluations[e])
    BY <2>1, EvaluationParts DEF OneEvaluationPerVersion
  <2> QED  BY <2>1, <2>2 DEF ReadingsFollowDecisions
<1> QED  BY <1>2, <1>3, <1>4

\* An alert that is active is the only one of its decision and its revision; one that is not
\* is resolved.
LEMMA AlertParts ==
    ASSUME IInv, NEW a \in Decisions, alerts[a] # None
    PROVE  /\ alerts[a] \in AlertRows /\ alerts[a].state \in {"active", "resolved"}
           /\ alerts[a].revision \in Revisions
           /\ Active(a) <=> alerts[a].state = "active"
           /\ <<a[1], alerts[a].revision>> \in Decisions
  BY DecisionParts DEF IInv, LifecycleTypeOK, AlertRows, Active

\* No active alert of the policy and no decision at this revision: every alert of the version
\* was resolved below the revision.
LEMMA CreateKeeps ==
    ASSUME IInv, NEW e \in Evaluators, HasRead(e), CreateAlert(evaluations[e])
    PROVE  AlertsInv' /\ alerts' \in [Decisions -> AlertRows \cup {None}]
           /\ decisions' \in [Decisions -> DecisionRows \cup {None}]
<1> DEFINE d == DecisionOf(evaluations[e])
           r == evaluations[e].reading.revision
           alert == [state |-> "active", revision |-> r]
           decision == [effect |-> "create", alert |-> d]
<1>1. d \in Decisions /\ r \in Revisions /\ d[2] = r /\ d[1] = evaluations[e].version
  BY EvaluationParts DEF HasRead
<1>2. decisions[d] = None /\ ActiveAlerts = {}
  BY DEF CreateAlert, Creates
<1>3. alerts' = [alerts EXCEPT ![d] = alert] /\ decisions' = [decisions EXCEPT ![d] = decision]
  BY DEF CreateAlert
<1>4. alert \in AlertRows /\ decision \in DecisionRows
  BY <1>1 DEF AlertRows, DecisionRows
<1>5. alert.state = "active" /\ alert.revision = r
  OBVIOUS
<1> HIDE DEF d, r, alert, decision
<1>6. alert # None /\ decision # None
  BY <1>4, AlertConstants
<1>7. /\ alerts'[d] = alert /\ decisions'[d] = decision
      /\ \A a \in Decisions \ {d} : alerts'[a] = alerts[a] /\ decisions'[a] = decisions[a]
      /\ alerts' \in [Decisions -> AlertRows \cup {None}]
      /\ decisions' \in [Decisions -> DecisionRows \cup {None}]
  BY <1>1, <1>3, <1>4 DEF IInv, LifecycleTypeOK
<1>8. OneActiveAlert'
  BY <1>2, <1>7 DEF OneActiveAlert, ActiveAlerts, Active
<1>9. AlertsAreDecided'
  <2> SUFFICES ASSUME NEW a \in Decisions, alerts'[a] # None
               PROVE  /\ decisions'[a] # None
                      /\ alerts'[a].state = "active" => alerts'[a].revision = a[2]
                      /\ alerts'[a].state = "resolved" =>
                            a[2] < alerts'[a].revision
                            /\ decisions'[<<a[1], alerts'[a].revision>>] # None
    BY DEF AlertsAreDecided
  <2>1. CASE a = d
    BY <1>1, <1>5, <1>6, <1>7, <2>1
  <2>2. CASE a # d
    BY <1>6, <1>7, <2>2, AlertParts DEF IInv, AlertsInv, AlertsAreDecided
  <2> QED  BY <2>1, <2>2
<1>10. ASSUME NEW a \in Decisions, alerts[a] # None, a[1] = d[1]
       PROVE  alerts[a].state = "resolved" /\ a[2] < alerts[a].revision /\ alerts[a].revision < r
  <2>1. alerts[a].state = "resolved"
    BY <1>2, <1>10, AlertParts DEF ActiveAlerts
  <2>2. decisions[<<a[1], alerts[a].revision>>] # None /\ a[2] < alerts[a].revision
    BY <1>10, <2>1 DEF IInv, AlertsInv, AlertsAreDecided
  <2>3. alerts[a].revision <= r
    BY <1>1, <1>10, <2>2, AlertParts, DecisionParts
    DEF IInv, ReadingsInv, ReadingsFollowDecisions, r
  <2>4. alerts[a].revision # r
    BY <1>1, <1>2, <1>10, <2>2, DecisionParts
  <2> QED  BY <1>1, <1>10, <2>1, <2>2, <2>3, <2>4, AlertParts, RevisionsAreNat
<1>11. OccurrencesAdvance'
  <2> SUFFICES ASSUME NEW a \in Decisions, NEW b \in Decisions,
                      alerts'[a] # None, alerts'[b] # None, a[1] = b[1], a[2] < b[2]
               PROVE  alerts'[a].state = "resolved" /\ a[2] < alerts'[a].revision
                      /\ alerts'[a].revision < b[2]
    BY DEF OccurrencesAdvance
  <2>1. a # d
    <3> SUFFICES ASSUME a = d PROVE FALSE
      OBVIOUS
    <3>1. b # d /\ alerts[b] # None /\ b[1] = d[1]
      BY <1>7, DecisionParts, RevisionsAreNat
    <3>2. b[2] < alerts[b].revision /\ alerts[b].revision < r
      BY <1>10, <3>1
    <3>3. r < b[2] /\ b[2] \in Nat /\ r \in Nat /\ alerts[b].revision \in Nat
      BY <1>1, <3>1, DecisionParts, RevisionsAreNat, AlertParts
    <3> QED  BY <3>2, <3>3
  <2>2. CASE b = d
    BY <1>1, <1>7, <1>10, <2>1, <2>2
  <2>3. CASE b # d
    BY <1>7, <2>1, <2>3 DEF IInv, AlertsInv, OccurrencesAdvance
  <2> QED  BY <2>2, <2>3
<1> QED  BY <1>7, <1>8, <1>9, <1>11 DEF AlertsInv

\* The active alert of a version is its last: resolving it closes the line of its alerts.
LEMMA ResolveKeeps ==
    ASSUME IInv, NEW e \in Evaluators, HasRead(e), NEW alertId \in Decisions,
           ResolveAlert(evaluations[e], alertId)
    PROVE  AlertsInv' /\ alerts' \in [Decisions -> AlertRows \cup {None}]
           /\ decisions' \in [Decisions -> DecisionRows \cup {None}]
<1> DEFINE d == DecisionOf(evaluations[e])
           r == evaluations[e].reading.revision
           alert == [state |-> "resolved", revision |-> r]
           decision == [effect |-> "resolve", alert |-> alertId]
<1>1. d \in Decisions /\ r \in Revisions /\ d[2] = r /\ d[1] = alertId[1]
      /\ d = <<alertId[1], r>>
  BY EvaluationParts DEF HasRead, ResolveAlert, Resolves, DecisionOf
<1>2. decisions[d] = None /\ Active(alertId) /\ alerts[alertId].revision <= r
  BY DEF ResolveAlert, Resolves
<1>3. alerts' = [alerts EXCEPT ![alertId] = alert]
      /\ decisions' = [decisions EXCEPT ![d] = decision]
  BY DEF ResolveAlert
<1>4. alert \in AlertRows /\ decision \in DecisionRows
  BY <1>1 DEF AlertRows, DecisionRows
<1>5. alert.state = "resolved" /\ alert.revision = r
  OBVIOUS
<1> HIDE DEF d, r, alert, decision
<1>6. alert # None /\ decision # None
  BY <1>4, AlertConstants
<1>7. /\ alerts'[alertId] = alert /\ decisions'[d] = decision
      /\ \A a \in Decisions \ {alertId} : alerts'[a] = alerts[a]
      /\ \A a \in Decisions \ {d} : decisions'[a] = decisions[a]
      /\ alerts' \in [Decisions -> AlertRows \cup {None}]
      /\ decisions' \in [Decisions -> DecisionRows \cup {None}]
  BY <1>1, <1>3, <1>4 DEF IInv, LifecycleTypeOK
<1>8. OneActiveAlert'
  BY <1>5, <1>7 DEF IInv, AlertsInv, OneActiveAlert, ActiveAlerts, Active
<1>9. alertId[2] < r /\ alerts[alertId] # None /\ alerts[alertId].state = "active"
      /\ decisions[alertId] # None
  <2>1. alerts[alertId] # None /\ alerts[alertId].state = "active"
    BY <1>2 DEF Active
  <2>2. decisions[alertId] # None /\ alertId[2] <= r
    BY <1>2, <2>1 DEF IInv, AlertsInv, AlertsAreDecided
  <2>3. alertId[2] # r
    BY <1>1, <1>2, <2>2, DecisionParts
  <2> QED  BY <1>1, <2>1, <2>2, <2>3, DecisionParts, RevisionsAreNat
<1>10. \A a \in Decisions : decisions[a] # None => decisions'[a] # None
  BY <1>6, <1>7
<1>11. AlertsAreDecided'
  <2> SUFFICES ASSUME NEW a \in Decisions, alerts'[a] # None
               PROVE  /\ decisions'[a] # None
                      /\ alerts'[a].state = "active" => alerts'[a].revision = a[2]
                      /\ alerts'[a].state = "resolved" =>
                            a[2] < alerts'[a].revision
                            /\ decisions'[<<a[1], alerts'[a].revision>>] # None
    BY DEF AlertsAreDecided
  <2>1. CASE a = alertId
    BY <1>1, <1>5, <1>6, <1>7, <1>9, <1>10, <2>1
  <2>2. CASE a # alertId
    BY <1>7, <1>10, <2>2, AlertParts DEF IInv, AlertsInv, AlertsAreDecided
  <2> QED  BY <2>1, <2>2
<1>12. OccurrencesAdvance'
  <2> SUFFICES ASSUME NEW a \in Decisions, NEW b \in Decisions,
                      alerts'[a] # None, alerts'[b] # None, a[1] = b[1], a[2] < b[2]
               PROVE  alerts'[a].state = "resolved" /\ a[2] < alerts'[a].revision
                      /\ alerts'[a].revision < b[2]
    BY DEF OccurrencesAdvance
  <2>1. alerts[a] # None /\ alerts[b] # None
    BY <1>7, <1>9
  <2>2. alerts[a].state = "resolved" /\ a[2] < alerts[a].revision /\ alerts[a].revision < b[2]
    BY <2>1 DEF IInv, AlertsInv, OccurrencesAdvance
  <2>3. a # alertId
    BY <1>9, <2>2
  <2> QED  BY <1>7, <2>2, <2>3
<1> QED  BY <1>7, <1>8, <1>11, <1>12 DEF AlertsInv

\* A decision creates an alert, resolves one or leaves both as they are.
LEMMA DecideKeeps ==
    ASSUME IInv, NEW e \in Evaluators, Decide(e)
    PROVE  IInv'
<1>1. HasRead(e) /\ UNCHANGED <<subject, policyVars>>
      /\ evaluations' = [evaluations EXCEPT ![e] = None]
  BY DEF Decide, HasRead, InFlight
<1>2. CASE UNCHANGED alertVars
  BY <1>1, <1>2, EndedKeeps
<1>3. CASE CreateAlert(evaluations[e]) \/ \E a \in Decisions : ResolveAlert(evaluations[e], a)
  <2>1. /\ AlertsInv' /\ alerts' \in [Decisions -> AlertRows \cup {None}]
        /\ decisions' \in [Decisions -> DecisionRows \cup {None}]
    BY <1>1, <1>3, CreateKeeps, ResolveKeeps
  <2>2. \A d \in Decisions \ {DecisionOf(evaluations[e])} : decisions'[d] = decisions[d]
    BY <1>1, <1>3, EvaluationParts
    DEF CreateAlert, ResolveAlert, HasRead, IInv, LifecycleTypeOK
  <2>3. ReadingsInv'
    BY <1>1, <2>2, DecidedReadings
  <2>4. LifecycleTypeOK' /\ VersionsExist'
    BY <1>1, <2>1 DEF IInv, LifecycleTypeOK, VersionsExist, InFlight, policyVars
  <2> QED  BY <2>1, <2>3, <2>4 DEF IInv
<1> QED  BY <1>2, <1>3 DEF Decide

\* Every step of an evaluator is one of the above.
LEMMA EvaluatorKeeps ==
    ASSUME IInv, NEW e \in Evaluators, EvaluatorStep(e)
    PROVE  IInv'
<1>1. CASE \E v \in Versions : StartEvaluation(e, v)
  BY <1>1, StartKeeps
<1>2. CASE ReadSubject(e)
  BY <1>2, ReadKeeps
<1>3. CASE Decide(e)
  BY <1>3, DecideKeeps
<1>4. CASE EvaluatorLost(e)
  BY <1>4, EndedKeeps DEF EvaluatorLost
<1> QED  BY <1>1, <1>2, <1>3, <1>4 DEF EvaluatorStep

-----------------------------------------------------------------------------
\* Every step of the lifecycle keeps the strengthening.
LEMMA NextIInv == IInv /\ [LifecycleNext]_lifecycleVars => IInv'
<1> SUFFICES ASSUME IInv, [LifecycleNext]_lifecycleVars PROVE IInv'
  OBVIOUS
<1>1. CASE LifecycleNext
  <2>1. CASE \/ \E class \in Classes, current \in BOOLEAN : SubjectMoves(class, current)
             \/ EvidenceTurns
    BY <2>1, SubjectKeeps
  <2>2. CASE \E v \in Versions, condition \in Conditions : CreateVersion(v, condition)
    BY <2>2, CreateVersionKeeps
  <2>3. CASE \E o \in Operators : OperatorStep(o)
    BY <2>3, OperatorKeeps
  <2>4. CASE \E e \in Evaluators : EvaluatorStep(e)
    BY <2>4, EvaluatorKeeps
  <2> QED  BY <1>1, <2>1, <2>2, <2>3, <2>4 DEF LifecycleNext
<1>2. CASE UNCHANGED lifecycleVars
  BY <1>2, AlertsKept
  DEF lifecycleVars, policyVars, alertVars, IInv, LifecycleTypeOK, VersionsExist, ReadingsInv,
      OneEvaluationPerVersion, RevisionsAreReached, ReadingsFollowDecisions, InFlight, HasRead
<1> QED  BY <1>1, <1>2

\* What the functions keep true of the rows and of the evaluations in flight.
THEOREM LifecycleInvariant == LifecycleSpec => []IInv
  BY InitIInv, NextIInv, PTL DEF LifecycleSpec

\* Every variable keeps the form of its rows, whatever transactions interleave or are lost.
THEOREM LifecycleTypeCorrect == LifecycleSpec => []LifecycleTypeOK
<1>1. IInv => LifecycleTypeOK
  BY DEF IInv
<1> QED  BY <1>1, LifecycleInvariant, PTL

\* One active alert of a policy over a subject, whichever versions evaluate together: the
\* lookup of the active alert and alert_one_active_occurrence.
THEOREM AlertOneActive == LifecycleSpec => []OneActiveAlert
<1>1. IInv => OneActiveAlert
  BY DEF IInv, AlertsInv
<1> QED  BY <1>1, LifecycleInvariant, PTL

\* The alerts of a version follow the revisions of the subject, because the advisory lock of
\* g7_apply_current_evaluation is taken before the subject is read.
THEOREM AlertOccurrencesAdvance == LifecycleSpec => []OccurrencesAdvance
<1>1. IInv => OccurrencesAdvance
  BY DEF IInv, AlertsInv
<1> QED  BY <1>1, LifecycleInvariant, PTL

-----------------------------------------------------------------------------
(* Who acts on an alert *)

AssignmentsTyped ==
    /\ requests \in [Callers -> Requests \cup {None}]
    /\ assignments \in [Actions -> Assignments \cup {None}]
    /\ currentAction \in [Decisions -> ActionProjections \cup {None}]
    /\ \A a \in Decisions : IsFiniteSet(AssignmentsOf(a))

AssignmentInvariant == AssignmentsTyped /\ HistoryIsComplete

\* At first nobody acts on anything.
LEMMA AssignmentsInitially == HumanInit => AssignmentInvariant
<1> SUFFICES ASSUME HumanInit PROVE AssignmentInvariant
  OBVIOUS
<1> USE DEF HumanInit
<1>1. \A a \in Decisions : AssignmentsOf(a) = {}
  BY DEF AssignmentsOf
<1>2. HistoryIsComplete
  BY <1>1 DEF HistoryIsComplete
<1> QED  BY <1>1, <1>2, FS_EmptySet DEF AssignmentInvariant, AssignmentsTyped

\* What neither assigns nor finds an alert for an assignment leaves the history alone.
LEMMA HistoryKept ==
    ASSUME AssignmentInvariant, UNCHANGED <<assignments, currentAction>>,
           requests' \in [Callers -> Requests \cup {None}]
    PROVE  AssignmentInvariant'
  BY DEF AssignmentInvariant, AssignmentsTyped, HistoryIsComplete, AssignmentsOf

\* A new assignment closes the one in force and is counted.
LEMMA RecordingKeeps ==
    ASSUME AssignmentInvariant, NEW r \in Requests, assignments[r.action] = None,
           RecordAssignment(r), requests' \in [Callers -> Requests \cup {None}]
    PROVE  AssignmentInvariant'
<1> USE DEF AssignmentInvariant
<1> DEFINE new == [alert |-> r.alert, owner |-> r.principal, open |-> TRUE]
           past == AssignmentsOf(r.alert)
           counted == [assignment |-> r.action,
                       revision |-> IF currentAction[r.alert] = None THEN 1
                                    ELSE currentAction[r.alert].revision + 1]
<1>1. r.action \in Actions /\ r.alert \in Decisions /\ r.principal \in Principals
  BY DEF Requests
<1>2. new \in Assignments /\ new # None /\ new.alert = r.alert /\ new.open
  <2>1. new \in Assignments
    BY <1>1 DEF Assignments
  <2>2. new.alert = r.alert /\ new.open
    OBVIOUS
  <2> HIDE DEF new
  <2> QED  BY <2>1, <2>2, HumanConstants
<1>3. r.action \notin past /\ past \subseteq Actions /\ IsFiniteSet(past)
  BY <1>1 DEF AssignmentsOf, AssignmentsTyped
<1>4. ASSUME NEW k \in past
      PROVE  /\ [assignments[k] EXCEPT !.open = FALSE] \in Assignments
             /\ [assignments[k] EXCEPT !.open = FALSE].alert = r.alert
             /\ ~[assignments[k] EXCEPT !.open = FALSE].open
  <2>1. assignments[k] \in Assignments /\ assignments[k].alert = r.alert
    BY <1>4 DEF AssignmentsOf, AssignmentsTyped
  <2> QED  BY <2>1 DEF Assignments
<1>5. /\ assignments'[r.action] = new
      /\ \A k \in past : assignments'[k] \in Assignments /\ assignments'[k].alert = r.alert
                         /\ ~assignments'[k].open
      /\ \A k \in Actions : k # r.action /\ k \notin past => assignments'[k] = assignments[k]
  BY <1>1, <1>3, <1>4 DEF RecordAssignment
<1>6. assignments' \in [Actions -> Assignments \cup {None}]
  <2>1. \A k \in Actions : assignments'[k] \in Assignments \cup {None}
    BY <1>2, <1>5 DEF AssignmentsTyped
  <2>2. assignments' = [k \in Actions |-> assignments'[k]]
    BY DEF RecordAssignment
  <2> QED  BY <2>1, <2>2
<1> HIDE DEF new
<1>7. AssignmentsOf(r.alert)' = past \cup {r.action}
  BY <1>1, <1>2, <1>3, <1>5, HumanConstants DEF AssignmentsOf
<1>8. \A a \in Decisions : a # r.alert =>
         /\ AssignmentsOf(a)' = AssignmentsOf(a)
         /\ \A k \in AssignmentsOf(a) : assignments'[k] = assignments[k]
  BY <1>1, <1>2, <1>3, <1>5, HumanConstants DEF AssignmentsOf
<1>9. IsFiniteSet(past \cup {r.action}) /\ Cardinality(past \cup {r.action}) = Cardinality(past) + 1
  BY <1>3, FS_AddElement
<1>10. /\ counted \in ActionProjections /\ counted.assignment = r.action
       /\ counted.revision = Cardinality(past) + 1
  <2>1. CASE currentAction[r.alert] = None
    <3>1. Cardinality(past) = 0
      BY <1>1, <2>1, FS_EmptySet DEF HistoryIsComplete
    <3> QED  BY <1>1, <2>1, <3>1 DEF ActionProjections
  <2>2. CASE currentAction[r.alert] # None
    <3>1. currentAction[r.alert].revision = Cardinality(past)
      BY <1>1, <2>2 DEF HistoryIsComplete
    <3>2. currentAction[r.alert].revision \in Nat
      BY <1>1, <2>2 DEF AssignmentsTyped, ActionProjections
    <3> QED  BY <1>1, <2>2, <3>1, <3>2 DEF ActionProjections
  <2> QED  BY <2>1, <2>2
<1>11. currentAction' = [currentAction EXCEPT ![r.alert] = counted]
  BY DEF RecordAssignment
<1> HIDE DEF counted, past
<1>12. AssignmentsTyped'
  BY <1>1, <1>6, <1>7, <1>8, <1>9, <1>10, <1>11 DEF AssignmentsTyped
<1>13. /\ currentAction'[r.alert] = counted /\ counted # None
       /\ \A a \in Decisions : a # r.alert => currentAction'[a] = currentAction[a]
  BY <1>1, <1>10, <1>11, HumanConstants DEF AssignmentsTyped
<1>14. {k \in past \cup {r.action} : assignments'[k].open} = {r.action}
  BY <1>2, <1>3, <1>5
<1>15. HistoryIsComplete'
  <2> SUFFICES ASSUME NEW a \in Decisions
               PROVE  LET mine == AssignmentsOf(a)'  now == currentAction'[a] IN
                      IF now = None THEN mine = {}
                      ELSE /\ now.revision = Cardinality(mine)
                           /\ {k \in mine : assignments'[k].open} = {now.assignment}
    BY DEF HistoryIsComplete
  <2>1. CASE a = r.alert
    BY <2>1, <1>7, <1>9, <1>10, <1>13, <1>14
  <2>2. CASE a # r.alert
    <3>1. {k \in AssignmentsOf(a) : assignments'[k].open} =
          {k \in AssignmentsOf(a) : assignments[k].open}
      BY <2>2, <1>8
    <3> QED  BY <2>2, <3>1, <1>8, <1>13 DEF HistoryIsComplete
  <2> QED  BY <2>1, <2>2
<1> QED  BY <1>12, <1>15

\* A call that assigns, or is answered from its row.
LEMMA AssignActionKeeps ==
    ASSUME AssignmentInvariant, NEW c \in Callers, AssignAction(c)
    PROVE  AssignmentInvariant'
<1>1. requests[c] \in Requests /\ requests' \in [Callers -> Requests \cup {None}]
  BY DEF AssignAction, Done, AssignmentInvariant, AssignmentsTyped
<1>2. CASE assignments[requests[c].action] = None
  <2>1. RecordAssignment(requests[c])
    BY <1>2 DEF AssignAction
  <2> QED  BY <1>1, <1>2, <2>1, RecordingKeeps
<1>3. CASE assignments[requests[c].action] # None
  BY <1>1, <1>3, HistoryKept DEF AssignAction
<1> QED  BY <1>2, <1>3

\* Every step keeps the history.
LEMMA HumanStepKeeps ==
    AssignmentInvariant /\ [HumanNext]_<<lifecycleVars, humanVars>> => AssignmentInvariant'
<1> SUFFICES ASSUME AssignmentInvariant, [HumanNext]_<<lifecycleVars, humanVars>>
             PROVE  AssignmentInvariant'
  OBVIOUS
<1>1. requests \in [Callers -> Requests \cup {None}]
  BY DEF AssignmentInvariant, AssignmentsTyped
<1>2. ASSUME UNCHANGED humanVars PROVE AssignmentInvariant'
  BY <1>1, <1>2, HistoryKept DEF humanVars
<1>3. ASSUME NEW c \in Callers, NEW r \in Requests, FindsActive(c, r) PROVE AssignmentInvariant'
  BY <1>1, <1>3, HistoryKept DEF FindsActive
<1>4. ASSUME NEW c \in Callers, Acknowledge(c) \/ RequireVisibility(c) \/ CallerLost(c)
      PROVE  AssignmentInvariant'
  BY <1>1, <1>4, HistoryKept DEF Acknowledge, RequireVisibility, CallerLost, Done, viewVars
<1>5. ASSUME \/ \E k, requirement \in Actions, viewer \in Principals :
                   RecordReceipt(k, requirement, viewer)
             \/ ResponsibilityStep
      PROVE  AssignmentInvariant'
  BY <1>1, <1>5, HistoryKept
  DEF RecordReceipt, ResponsibilityStep, EndResponsibility, AssignResponsibility
<1> QED
  BY <1>2, <1>3, <1>4, <1>5, AssignActionKeeps DEF HumanNext, HumanStep, ActionStep, ViewStep

\* However calls are repeated and overlap, the assignments of an alert form a chain: all but the
\* last are closed, and the projection names the last and counts them (g8_assign_alert_action).
THEOREM HumanHistoryIsComplete == HumanSpec => []HistoryIsComplete
<1>1. AssignmentInvariant => HistoryIsComplete
  BY DEF AssignmentInvariant
<1> QED  BY <1>1, AssignmentsInitially, HumanStepKeeps, PTL DEF HumanSpec

-----------------------------------------------------------------------------
(* The transport from monitoring *)

\* A consumer that is at a message has a receipt of it, and one that reads the owner's side
\* holds a claim in force; a receipt that was not claimed has no generation yet.
ClaimsFollowReceipts ==
    /\ \A c \in Consumers :
          consumers[c].stage # "waiting" =>
              /\ consumers[c].message \in Messages
              /\ inboxRows[consumers[c].message] # None
    /\ \A m \in Messages :
          inboxRows[m] # None /\ inboxRows[m].state = "admitted" => inboxRows[m].generation = 0

ResyncInvariant == ResyncTypeOK /\ ClaimsFollowReceipts /\ OneClaimPerReceipt

\* At first there are no receipts.
LEMMA ResyncInitially == ResyncInit => ResyncInvariant
  BY ResyncConstants
  DEF ResyncInit, ResyncInvariant, ResyncTypeOK, ClaimsFollowReceipts, OneClaimPerReceipt,
      Waiting, ConsumerStates, ConsumerStages, Messages

\* A consumer that stops is at nothing.
LEMMA StoppingKeeps ==
    ASSUME ResyncInvariant, NEW c \in Consumers, Stops(c), UNCHANGED <<owner, sourceCurrent, inboxRows>>
    PROVE  ResyncInvariant'
<1> USE DEF ResyncInvariant, Stops
<1>1. Waiting \in ConsumerStates /\ Waiting.stage = "waiting"
  BY DEF Waiting, ConsumerStates, ConsumerStages
<1>2. ResyncTypeOK'
  BY <1>1 DEF ResyncTypeOK
<1>3. \A d \in Consumers : consumers'[d] = consumers[d] \/ consumers'[d].stage = "waiting"
  BY <1>1 DEF ResyncTypeOK
<1> QED
  BY <1>2, <1>3 DEF ClaimsFollowReceipts, OneClaimPerReceipt

\* Of one receipt and one consumer after a step: what the invariant asks of them.
ReceiptInOrder(c, m, row, at) ==
    /\ row \in InboxRows /\ at \in ConsumerStates
    /\ row.generation <= 1
    /\ row.state = "admitted" => row.generation = 0
    /\ row.result # None => row.result >= m
    /\ at.stage # "waiting" => at.message = m
    /\ at.stage = "reading" => row.state = "processing" /\ row.executor = c

NotReadByOthers(c, m) ==
    \A d \in Consumers \ {c} : consumers[d].stage = "reading" => consumers[d].message # m

\* A step that changes one receipt, which no other consumer reads, and one consumer.
LEMMA StepKeeps ==
    \A c \in Consumers, m \in Messages : \A row, at :
        /\ ResyncInvariant
        /\ inboxRows' = [inboxRows EXCEPT ![m] = row]
        /\ consumers' = [consumers EXCEPT ![c] = at]
        /\ UNCHANGED <<owner, sourceCurrent>>
        /\ ReceiptInOrder(c, m, row, at)
        /\ NotReadByOthers(c, m)
        => ResyncInvariant'
<1> SUFFICES ASSUME NEW c \in Consumers, NEW m \in Messages, NEW row, NEW at, ResyncInvariant,
                    inboxRows' = [inboxRows EXCEPT ![m] = row],
                    consumers' = [consumers EXCEPT ![c] = at],
                    UNCHANGED <<owner, sourceCurrent>>,
                    ReceiptInOrder(c, m, row, at), NotReadByOthers(c, m)
             PROVE  ResyncInvariant'
  OBVIOUS
<1> USE DEF ResyncInvariant, ReceiptInOrder, NotReadByOthers
<1>1. ResyncTypeOK'
  BY DEF ResyncTypeOK
<1>2. /\ inboxRows'[m] = row /\ row # None
      /\ \A n \in Messages : n # m => inboxRows'[n] = inboxRows[n]
      /\ consumers'[c] = at
      /\ \A d \in Consumers : d # c => consumers'[d] = consumers[d]
  BY ResyncConstants DEF ResyncTypeOK
<1>3. ClaimsFollowReceipts'
  BY <1>2 DEF ClaimsFollowReceipts
<1>4. OneClaimPerReceipt'
  <2>1. \A n \in Messages :
           inboxRows'[n] # None =>
               /\ inboxRows'[n].generation <= 1
               /\ inboxRows'[n].result # None => inboxRows'[n].result >= n
    BY <1>2 DEF OneClaimPerReceipt
  <2>2. ASSUME NEW d \in Consumers, consumers'[d].stage = "reading"
        PROVE  /\ inboxRows'[consumers'[d].message].state = "processing"
               /\ inboxRows'[consumers'[d].message].executor = d
    <3>1. CASE d = c
      BY <3>1, <1>2, <2>2
    <3>2. CASE d # c
      BY <3>2, <1>2, <2>2 DEF OneClaimPerReceipt, ClaimsFollowReceipts
    <3> QED  BY <3>1, <3>2
  <2> QED  BY <2>1, <2>2 DEF OneClaimPerReceipt
<1> QED  BY <1>1, <1>3, <1>4

\* A receipt is created, or one that waits is observed.
LEMMA AdmitKeeps ==
    ASSUME ResyncInvariant, NEW c \in Consumers, NEW m \in Messages, Admit(c, m)
    PROVE  ResyncInvariant'
<1> USE DEF ResyncInvariant
<1> DEFINE row == inboxRows'[m]
<1>1. CASE inboxRows[m] = None
  <2> DEFINE new == [state |-> "admitted", executor |-> None, generation |-> 0, lapsed |-> FALSE,
                     result |-> None]
  <2> DEFINE at == [stage |-> "admitted", message |-> m, generation |-> 0]
  <2>1. new \in InboxRows /\ at \in ConsumerStates
    BY DEF InboxRows, ConsumerStates, ConsumerStages
  <2>2. inboxRows' = [inboxRows EXCEPT ![m] = new] /\ consumers' = [consumers EXCEPT ![c] = at]
    BY <1>1 DEF Admit, ResyncTypeOK, Turns
  <2>3. \A d \in Consumers : consumers[d].stage = "reading" => consumers[d].message # m
    BY DEF Admit, Held
  <2>4. UNCHANGED <<owner, sourceCurrent>>
    BY DEF Admit
  <2>5. ReceiptInOrder(c, m, new, at) /\ NotReadByOthers(c, m)
    BY <2>1, <2>3 DEF ReceiptInOrder, NotReadByOthers
  <2> HIDE DEF new, at
  <2> QED  BY <2>2, <2>4, <2>5, StepKeeps
<1>2. CASE inboxRows[m] # None
  <2> DEFINE at == [stage |-> "admitted", message |-> m, generation |-> 0]
  <2>1. inboxRows' = inboxRows /\ UNCHANGED <<owner, sourceCurrent>>
    BY <1>2 DEF Admit
  <2>2. \/ UNCHANGED consumers
        \/ consumers' = [consumers EXCEPT ![c] = at]
    BY DEF Admit, Turns
  <2>3. at \in ConsumerStates /\ at.stage = "admitted" /\ at.message = m
    BY DEF ConsumerStates, ConsumerStages
  <2> HIDE DEF at
  <2> QED
    BY <1>2, <2>1, <2>2, <2>3 DEF ResyncTypeOK, ClaimsFollowReceipts, OneClaimPerReceipt
<1> QED  BY <1>1, <1>2

\* What a consumer that is at a message has.
LEMMA AtReceipt ==
    ASSUME ResyncInvariant, NEW c \in Consumers, consumers[c].stage # "waiting"
    PROVE  LET m == consumers[c].message  row == inboxRows[m] IN
           /\ m \in Messages /\ m \in Nat /\ row \in InboxRows
           /\ consumers[c].generation \in Nat
           /\ row.generation \in Nat /\ row.generation <= 1
           /\ row.state = "admitted" => row.generation = 0
           /\ row.result # None => row.result >= m
<1>1. consumers[c].message \in Messages /\ inboxRows[consumers[c].message] # None
  BY DEF ResyncInvariant, ClaimsFollowReceipts
<1> QED
  BY <1>1, ResyncConstants
  DEF ResyncInvariant, ResyncTypeOK, ClaimsFollowReceipts, OneClaimPerReceipt, InboxRows,
      ConsumerStates, Messages

\* A receipt that is settled, by a consumer that then stops.
LEMMA SettlingKeeps ==
    ASSUME ResyncInvariant, NEW c \in Consumers, consumers[c].stage # "waiting",
           NEW state \in SettledStates, NEW result \in Messages \cup {None},
           Settles(consumers[c].message, state, result), Stops(c),
           UNCHANGED <<owner, sourceCurrent>>,
           result # None => result >= consumers[c].message,
           \A d \in Consumers \ {c} :
               consumers[d].stage = "reading" => consumers[d].message # consumers[c].message
    PROVE  ResyncInvariant'
<1> DEFINE m == consumers[c].message
           row == [inboxRows[m] EXCEPT !.state = state, !.executor = None, !.lapsed = FALSE,
                                       !.result = result]
<1>1. m \in Messages /\ inboxRows[m] \in InboxRows /\ inboxRows[m].generation <= 1
  BY AtReceipt
<1>2. /\ row \in InboxRows /\ row.generation = inboxRows[m].generation
      /\ row.state = state /\ row.result = result
  BY <1>1 DEF InboxRows, SettledStates
<1>3. Waiting \in ConsumerStates /\ Waiting.stage = "waiting"
  BY DEF Waiting, ConsumerStates, ConsumerStages
<1>4. inboxRows' = [inboxRows EXCEPT ![m] = row] /\ consumers' = [consumers EXCEPT ![c] = Waiting]
  BY DEF Settles, Stops
<1>5. ReceiptInOrder(c, m, row, Waiting) /\ NotReadByOthers(c, m)
  BY <1>1, <1>2, <1>3 DEF SettledStates, ReceiptInOrder, NotReadByOthers
<1> HIDE DEF m, row
<1> QED  BY <1>1, <1>4, <1>5, StepKeeps

\* A claim: taken, answered as processing, lapsed, or over.
LEMMA ClaimKeeps ==
    ASSUME ResyncInvariant, NEW c \in Consumers, ClaimReceipt(c)
    PROVE  ResyncInvariant'
<1> DEFINE m == consumers[c].message
           row == inboxRows[m]
<1>1. /\ consumers[c].stage = "admitted" /\ ~Held(m) /\ UNCHANGED <<owner, sourceCurrent>>
  BY DEF ClaimReceipt
<1>2. /\ m \in Messages /\ row \in InboxRows /\ row.generation \in Nat /\ row.generation <= 1
      /\ row.state = "admitted" => row.generation = 0
      /\ row.result # None => row.result >= m
  BY <1>1, AtReceipt
<1>3. \A d \in Consumers : consumers[d].stage = "reading" => consumers[d].message # m
  BY <1>1 DEF Held
<1>4. CASE row.state = "admitted"
  <2> DEFINE new == [row EXCEPT !.state = "processing", !.executor = c, !.generation = 1]
             at == [stage |-> "claimed", message |-> m, generation |-> 1]
  <2>0. row.generation = 0
    BY <1>2, <1>4
  <2>1. /\ new \in InboxRows /\ new.generation = 1 /\ new.state = "processing"
        /\ new.result = row.result
    <3>1. row \in InboxRows
      BY <1>2
    <3> HIDE DEF row
    <3> QED  BY <3>1 DEF InboxRows
  <2>2. at \in ConsumerStates /\ at.stage = "claimed" /\ at.message = m
    BY <1>2 DEF ConsumerStates, ConsumerStages
  <2>3. inboxRows' = [inboxRows EXCEPT ![m] = new] /\ consumers' = [consumers EXCEPT ![c] = at]
    <3>1. row.state # "processing" /\ row.state \notin SettledStates
      BY <1>4 DEF SettledStates
    <3>2. inboxRows' = [inboxRows EXCEPT ![m] =
              [row EXCEPT !.state = "processing", !.executor = c,
                          !.generation = row.generation + 1]]
          /\ Turns(c, "claimed", m, row.generation + 1)
      BY <3>1 DEF ClaimReceipt
    <3>3. row.generation + 1 = 1
      BY <2>0
    <3> HIDE DEF m, row
    <3> QED  BY <3>2, <3>3 DEF Turns
  <2>4. ReceiptInOrder(c, m, new, at) /\ NotReadByOthers(c, m)
    BY <1>2, <1>3, <2>1, <2>2 DEF ReceiptInOrder, NotReadByOthers
  <2> HIDE DEF new, at, m, row
  <2> QED  BY <1>1, <1>2, <2>3, <2>4, StepKeeps
<1>5. CASE row.state = "processing" /\ ~row.lapsed
  <2> DEFINE at == [stage |-> "claimed", message |-> m, generation |-> row.generation]
  <2>1. at \in ConsumerStates /\ at.stage = "claimed" /\ at.message = m
    BY <1>2 DEF ConsumerStates, ConsumerStages
  <2>2. inboxRows' = inboxRows /\ consumers' = [consumers EXCEPT ![c] = at]
    BY <1>5 DEF ClaimReceipt, Turns, SettledStates
  <2>3. inboxRows' = [inboxRows EXCEPT ![m] = row]
    BY <2>2 DEF ResyncInvariant, ResyncTypeOK
  <2>4. ReceiptInOrder(c, m, row, at) /\ NotReadByOthers(c, m)
    BY <1>2, <1>3, <2>1 DEF ReceiptInOrder, NotReadByOthers
  <2> HIDE DEF at, m, row
  <2> QED  BY <1>1, <1>2, <2>2, <2>3, <2>4, StepKeeps
<1>6. CASE row.state = "processing" /\ row.lapsed
  <2>1. Settles(m, "reconciliation_required", None) /\ Stops(c)
    BY <1>6 DEF ClaimReceipt, SettledStates
  <2> QED  BY <1>1, <1>3, <2>1, SettlingKeeps DEF SettledStates
<1>7. CASE row.state \in SettledStates
  <2>1. Stops(c) /\ UNCHANGED inboxRows
    BY <1>7 DEF ClaimReceipt, SettledStates
  <2> QED  BY <1>1, <2>1, StoppingKeeps
<1> QED  BY <1>2, <1>4, <1>5, <1>6, <1>7 DEF InboxRows

\* A completion finds its claim over, ends it, or holds the receipt and reads on.
LEMMA ReadSourceKeeps ==
    ASSUME ResyncInvariant, NEW c \in Consumers, ReadSource(c)
    PROVE  ResyncInvariant'
<1> DEFINE m == consumers[c].message
           row == inboxRows[m]
<1>1. /\ consumers[c].stage = "claimed" /\ ~Held(m) /\ UNCHANGED <<owner, sourceCurrent>>
  BY DEF ReadSource
<1>2. /\ m \in Messages /\ row \in InboxRows /\ row.generation <= 1
      /\ row.state = "admitted" => row.generation = 0
      /\ row.result # None => row.result >= m
      /\ consumers[c].generation \in Nat
  BY <1>1, AtReceipt
<1>3. \A d \in Consumers : consumers[d].stage = "reading" => consumers[d].message # m
  BY <1>1 DEF Held
<1>4. CASE Stops(c) /\ UNCHANGED inboxRows
  BY <1>1, <1>4, StoppingKeeps
<1>5. CASE Settles(m, "reconciliation_required", None) /\ Stops(c)
  BY <1>1, <1>3, <1>5, SettlingKeeps DEF SettledStates
<1>6. CASE IsCurrent(c) /\ Turns(c, "reading", m, consumers[c].generation) /\ UNCHANGED inboxRows
  <2> DEFINE at == [stage |-> "reading", message |-> m, generation |-> consumers[c].generation]
  <2>1. at \in ConsumerStates /\ at.stage = "reading" /\ at.message = m
    BY <1>2 DEF ConsumerStates, ConsumerStages
  <2>2. row.state = "processing" /\ row.executor = c
    BY <1>6 DEF IsCurrent
  <2>3. consumers' = [consumers EXCEPT ![c] = at] /\ inboxRows' = [inboxRows EXCEPT ![m] = row]
    BY <1>6 DEF Turns, ResyncInvariant, ResyncTypeOK
  <2>4. ReceiptInOrder(c, m, row, at) /\ NotReadByOthers(c, m)
    BY <1>2, <1>3, <2>1, <2>2 DEF ReceiptInOrder, NotReadByOthers
  <2> HIDE DEF at, m, row
  <2> QED  BY <1>1, <1>2, <2>3, <2>4, StepKeeps
<1> QED  BY <1>4, <1>5, <1>6 DEF ReadSource

\* The receipt is completed at a revision that is not before its message, or given up.
LEMMA ReadProjectionKeeps ==
    ASSUME ResyncInvariant, NEW c \in Consumers, ReadProjection(c)
    PROVE  ResyncInvariant'
<1> DEFINE m == consumers[c].message
<1>1. consumers[c].stage = "reading" /\ Stops(c) /\ UNCHANGED <<owner, sourceCurrent>>
  BY DEF ReadProjection
<1>2. m \in Messages
  BY <1>1, AtReceipt
<1>3. \A d \in Consumers \ {c} : consumers[d].stage = "reading" => consumers[d].message # m
  BY <1>1 DEF ResyncInvariant, OneClaimPerReceipt
<1>4. CASE owner.current /\ m <= owner.revision
  <2>1. owner.revision \in Messages /\ owner.revision >= m
    BY <1>2, <1>4, ResyncConstants DEF ResyncInvariant, ResyncTypeOK, Messages
  <2>2. Settles(m, "completed", owner.revision)
    BY <1>4 DEF ReadProjection
  <2> QED  BY <1>1, <1>3, <2>1, <2>2, SettlingKeeps DEF SettledStates
<1>5. CASE ~(owner.current /\ m <= owner.revision)
  <2>1. Settles(m, "reconciliation_required", None)
    BY <1>5 DEF ReadProjection
  <2> QED  BY <1>1, <1>3, <2>1, SettlingKeeps DEF SettledStates
<1> QED  BY <1>4, <1>5

\* A lease lapses.
LEMMA LapseKeeps ==
    ASSUME ResyncInvariant, NEW m \in Messages, ReceiptLapses(m)
    PROVE  ResyncInvariant'
<1> DEFINE row == [inboxRows[m] EXCEPT !.lapsed = TRUE]
<1>1. inboxRows[m] \in InboxRows /\ inboxRows[m] # None
  BY DEF ResyncInvariant, ResyncTypeOK, ReceiptLapses
<1>2. /\ row \in InboxRows /\ row.state = inboxRows[m].state /\ row.executor = inboxRows[m].executor
      /\ row.generation = inboxRows[m].generation /\ row.result = inboxRows[m].result
  BY <1>1 DEF InboxRows
<1>3. inboxRows' = [inboxRows EXCEPT ![m] = row] /\ UNCHANGED <<owner, sourceCurrent, consumers>>
  BY DEF ReceiptLapses
<1> HIDE DEF row
<1>4. /\ inboxRows'[m] = row
      /\ \A n \in Messages : n # m => inboxRows'[n] = inboxRows[n]
  BY <1>3 DEF ResyncInvariant, ResyncTypeOK
<1> QED
  BY <1>1, <1>2, <1>3, <1>4, ResyncConstants
  DEF ResyncInvariant, ResyncTypeOK, ClaimsFollowReceipts, OneClaimPerReceipt

\* The owner's side moves without looking at receipts.
LEMMA OwnerKeeps ==
    ASSUME ResyncInvariant,
           (\E current \in BOOLEAN : OwnerMoves(current)) \/ SourceTurns \/ UNCHANGED resyncVars
    PROVE  ResyncInvariant'
<1>1. /\ owner' \in [revision : Messages \cup {0}, current : BOOLEAN]
      /\ sourceCurrent' \in BOOLEAN
      /\ UNCHANGED <<inboxRows, consumers>>
  <2> USE ResyncConstants DEF ResyncInvariant, ResyncTypeOK, Messages
  <2>1. CASE \E current \in BOOLEAN : OwnerMoves(current)
    BY <2>1 DEF OwnerMoves
  <2>2. CASE SourceTurns
    BY <2>2 DEF SourceTurns
  <2>3. CASE UNCHANGED resyncVars
    BY <2>3 DEF resyncVars
  <2> QED  BY <2>1, <2>2, <2>3
<1> QED
  BY <1>1 DEF ResyncInvariant, ResyncTypeOK, ClaimsFollowReceipts, OneClaimPerReceipt

\* Every step keeps the invariant.
LEMMA ResyncStepKeeps == ResyncInvariant /\ [ResyncNext]_resyncVars => ResyncInvariant'
<1> SUFFICES ASSUME ResyncInvariant, [ResyncNext]_resyncVars PROVE ResyncInvariant'
  OBVIOUS
<1>1. ASSUME NEW c \in Consumers, ConsumerStops(c) PROVE ResyncInvariant'
  BY <1>1, StoppingKeeps DEF ConsumerStops
<1> QED
  BY <1>1, OwnerKeeps, LapseKeeps, ClaimKeeps, ReadSourceKeeps, ReadProjectionKeeps, AdmitKeeps
  DEF ResyncNext, ConsumerStep

\* A receipt is claimed once, read by the consumer that claimed it, and completed at the revision
\* of its message or above, whatever is delivered again and to whom.
THEOREM ResyncOneClaim == ResyncSpec => []OneClaimPerReceipt
<1>1. ResyncInvariant => OneClaimPerReceipt
  BY DEF ResyncInvariant
<1> QED  BY <1>1, ResyncInitially, ResyncStepKeeps, PTL DEF ResyncSpec

\* No step touches a receipt that is completed or left for reconciliation: a late or doubled
\* consumer finds that its claim is over.
LEMMA SettledStepKeeps ==
    ASSUME ResyncInvariant, [ResyncNext]_resyncVars, NEW m \in Messages, inboxRows[m] # None,
           inboxRows[m].state \in SettledStates
    PROVE  inboxRows'[m] = inboxRows[m]
<1>1. inboxRows[m].state \notin {"admitted", "processing"}
  BY DEF SettledStates
<1>2. inboxRows \in [Messages -> InboxRows \cup {None}]
  BY DEF ResyncInvariant, ResyncTypeOK
<1>3. ASSUME NEW n \in Messages, ReceiptLapses(n) PROVE inboxRows'[m] = inboxRows[m]
  BY <1>1, <1>2, <1>3 DEF ReceiptLapses
<1>4. ASSUME NEW c \in Consumers, NEW n \in Messages, Admit(c, n) PROVE inboxRows'[m] = inboxRows[m]
  BY <1>2, <1>4 DEF Admit
<1>5. ASSUME NEW c \in Consumers, ClaimReceipt(c) PROVE inboxRows'[m] = inboxRows[m]
  BY <1>1, <1>2, <1>5 DEF ClaimReceipt, Settles
<1>6. ASSUME NEW c \in Consumers, ReadSource(c) PROVE inboxRows'[m] = inboxRows[m]
  BY <1>1, <1>2, <1>6 DEF ReadSource, IsCurrent, Settles
<1>7. ASSUME NEW c \in Consumers, ReadProjection(c) PROVE inboxRows'[m] = inboxRows[m]
  <2>1. inboxRows[consumers[c].message].state = "processing"
    BY <1>7 DEF ReadProjection, ResyncInvariant, OneClaimPerReceipt
  <2> QED  BY <1>1, <1>2, <1>7, <2>1 DEF ReadProjection, Settles
<1> QED
  BY <1>3, <1>4, <1>5, <1>6, <1>7
  DEF ResyncNext, ConsumerStep, ConsumerStops, OwnerMoves, SourceTurns, resyncVars

\* A receipt is settled once and stays as it is.
THEOREM ResyncSettledIsFinal == ResyncSpec => SettledReceiptIsFinal
<1>1. ResyncInvariant /\ [ResyncNext]_resyncVars =>
          [\A m \in Messages :
              inboxRows[m] # None /\ inboxRows[m].state \in SettledStates =>
                  inboxRows'[m] = inboxRows[m]]_inboxRows
  BY SettledStepKeeps
<1> QED
  BY <1>1, ResyncInitially, ResyncStepKeeps, PTL DEF ResyncSpec, SettledReceiptIsFinal

-----------------------------------------------------------------------------
(* The notification of an intent *)

\* An attempt exists as soon as its dispatch row was claimed.
RowsAgree ==
    /\ outbox \in [Attempts -> OutboxRows \cup {None}]
    /\ attempts \in [Attempts -> AttemptRows \cup {None}]
    /\ \A n \in Attempts : attempts[n] # None <=> outbox[n] \notin {None, Admitted}

\* A dispatcher that moves is known by its row, and by an outcome once it has sent.
WorkersAreTyped ==
    /\ workers \in [Workers -> WorkerStates]
    /\ \A w \in Workers : /\ workers[w].phase # "idle" =>
                                workers[w].row # None /\ outbox[workers[w].row] # None
                          /\ workers[w].phase = "sent" => workers[w].outcome # None

\* A transaction that writes an attempt writes one that has no outcome yet, or leaves it as it is.
WritesAnAttempt(t) ==
    /\ t.row \in Attempts /\ t.attempt \in AttemptRows
    /\ t.outbox \in OutboxRows /\ t.outbox # Admitted
    /\ attempts[t.row] # None /\ attempts[t.row].state # "dispatching" => attempts[t.row] = t.attempt

\* Transactions in flight write attempts as they may, and no two of them the same one.
InflightIsSound ==
    /\ \A t \in inflight : /\ t.row # None => WritesAnAttempt(t)
                           /\ t.by # None => t.by \in Workers /\ t.row # None
    /\ \A t, u \in inflight : t.row # None /\ t.row = u.row => t = u

\* What holds of the rows, the dispatchers and the transactions.
RowInvariant == RowsAgree /\ WorkersAreTyped /\ InflightIsSound

\* Some callback, or some attempt, says the notification was delivered.
Reported ==
    \/ \E c \in DOMAIN evidence : c.kind = "delivered"
    \/ \E n \in Attempts : attempts[n] # None /\ attempts[n].state = "delivered"

\* What a transaction is about to show is reported, or reported by what it is about to write.
ShowsReported ==
    /\ projection.state = "delivered" => Reported
    /\ \A t \in inflight : t.proj.state = "delivered" =>
          Reported \/ (t.row # None /\ t.attempt.state = "delivered")

\* The invariant of the notification.
NotificationInvariant == RowInvariant /\ ShowsReported

\* The latest attempt is an attempt there is.
LEMMA LatestIsThere ==
    ASSUME NEW rows, Latest(rows) # 0
    PROVE  Latest(rows) \in Attempts /\ rows[Latest(rows)] # None
<1> DEFINE S == {n \in Attempts : rows[n] # None} \cup {0}
<1>1. S \subseteq 0 .. 3 /\ 0 \in S
  BY NotificationConstants DEF Attempts
<1>2. \E x \in S : \A y \in S : x >= y
  <2>1. CASE 3 \in S
    BY <1>1, <2>1
  <2>2. CASE 3 \notin S /\ 2 \in S
    BY <1>1, <2>2
  <2>3. CASE 3 \notin S /\ 2 \notin S /\ 1 \in S
    BY <1>1, <2>3
  <2>4. CASE 3 \notin S /\ 2 \notin S /\ 1 \notin S
    BY <1>1, <2>4
  <2> QED  BY <2>1, <2>2, <2>3, <2>4
<1> HIDE DEF S
<1>3. Max(S) \in S
  BY <1>2 DEF Max
<1>4. Latest(rows) = Max(S)
  BY DEF Latest, S
<1> QED  BY <1>3, <1>4 DEF S

\* What a refresh shows as delivered was among the facts or the rows it read.
LEMMA ProjectedFromFacts ==
    ASSUME NEW rows, NEW facts, Projected(rows, facts).state = "delivered"
    PROVE  \/ \E c \in DOMAIN facts : c.kind = "delivered"
           \/ \E n \in Attempts : rows[n] # None /\ rows[n].state = "delivered"
<1>1. DeliveryState(rows, facts) = "delivered"
  BY DEF Projected
<1>2. \/ DeliveryProven(facts)
      \/ Latest(rows) # 0 /\ rows[Latest(rows)].state = "delivered"
  BY <1>1 DEF DeliveryState
<1> QED  BY <1>2, LatestIsThere DEF DeliveryProven, KindsOf

\* Reports stay reports as long as evidence and outcomes stay.
LEMMA ReportsStay ==
    ASSUME DOMAIN evidence \subseteq DOMAIN evidence', Reported,
           \A n \in Attempts : attempts[n] # None /\ attempts[n].state = "delivered"
               => attempts'[n] = attempts[n]
    PROVE  Reported'
  BY DEF Reported

\* The rows a claim is over with, and the row that waits for one.
LEMMA RowShapes ==
    /\ Admitted \in OutboxRows /\ Admitted # None
    /\ \A row : \A state \in {"succeeded", "failed", "reconciliation_required"} :
          Released(row, state) \in OutboxRows /\ Released(row, state) \notin {None, Admitted}
<1>1. Admitted \in OutboxRows /\ Admitted.state = "admitted"
  BY DEF Admitted, OutboxRows
<1>2. ASSUME NEW row, NEW state \in {"succeeded", "failed", "reconciliation_required"}
      PROVE  Released(row, state) \in OutboxRows /\ Released(row, state).state = state
  BY DEF Released, OutboxRows
<1> QED  BY <1>1, <1>2, NotificationConstants

\* The intent starts with one admitted dispatch and nothing reported.
LEMMA NotificationInitially == NotificationInit => NotificationInvariant
<1> SUFFICES ASSUME NotificationInit PROVE NotificationInvariant
  OBVIOUS
<1> USE NotificationConstants DEF NotificationInit
<1>1. RowInvariant
  <2>1. Admitted \in OutboxRows
    BY DEF Admitted, OutboxRows
  <2>2. Idle \in WorkerStates /\ Idle.phase = "idle"
    BY DEF Idle, WorkerStates
  <2>3. RowsAgree
    BY <2>1 DEF RowsAgree
  <2> HIDE DEF NotificationInit
  <2>4. workers = [w \in Workers |-> Idle] /\ inflight = {}
    BY DEF NotificationInit
  <2>5. WorkersAreTyped
    BY <2>2, <2>4 DEF WorkersAreTyped
  <2> QED  BY <2>3, <2>4, <2>5 DEF RowInvariant, InflightIsSound
<1>2. ShowsReported
  BY ProjectedFromFacts DEF ShowsReported, Reported
<1> QED  BY <1>1, <1>2 DEF NotificationInvariant

\* A transaction on an attempt that no other transaction has locked.
LEMMA BeginKeeps ==
    ASSUME NotificationInvariant, NEW by \in Workers \cup {None}, NEW n \in Attempts,
           NEW row \in OutboxRows, NEW attempt \in AttemptRows, Begin(by, n, row, attempt),
           row # Admitted, WorkersAreTyped',
           attempts[n] # None /\ attempts[n].state # "dispatching" => attempts[n] = attempt
    PROVE  NotificationInvariant'
<1> USE NotificationConstants DEF NotificationInvariant, RowInvariant
<1> DEFINE t == [by |-> by, row |-> n, outbox |-> row, attempt |-> attempt, callback |-> None,
                 proj |-> Projected([attempts EXCEPT ![n] = attempt], Visible)]
<1>1. /\ inflight' = inflight \cup {t}
      /\ UNCHANGED <<outbox, attempts, evidence, projection>>
      /\ \A u \in inflight : u.row # n
  BY DEF Begin, Locked
<1>2. /\ t.by = by /\ t.row = n /\ t.outbox = row /\ t.attempt = attempt
      /\ t.proj = Projected([attempts EXCEPT ![n] = attempt], Visible)
  OBVIOUS
<1> HIDE DEF t
<1>3. InflightIsSound'
  BY <1>1, <1>2 DEF InflightIsSound, WritesAnAttempt
<1>4. t.proj.state = "delivered" => Reported \/ attempt.state = "delivered"
  <2> SUFFICES ASSUME t.proj.state = "delivered" PROVE Reported \/ attempt.state = "delivered"
    OBVIOUS
  <2>1. PICK rows : rows = [attempts EXCEPT ![n] = attempt]
    OBVIOUS
  <2>2. PICK facts : facts = Visible
    OBVIOUS
  <2>3. \/ \E c \in DOMAIN facts : c.kind = "delivered"
        \/ \E m \in Attempts : rows[m] # None /\ rows[m].state = "delivered"
    BY <1>2, <2>1, <2>2, ProjectedFromFacts
  <2>4. DOMAIN facts \subseteq DOMAIN evidence
    BY <2>2 DEF Visible
  <2> QED  BY <2>1, <2>3, <2>4 DEF Reported, RowsAgree
<1>5. Reported' <=> Reported
  BY <1>1 DEF Reported
<1>6. ShowsReported'
  BY <1>1, <1>2, <1>4, <1>5 DEF ShowsReported
<1> QED  BY <1>1, <1>3, <1>6 DEF RowsAgree

\* A dispatcher that moves on is known by its row, and by its outcome once it has sent.
LEMMA WorkerMoves ==
    ASSUME WorkersAreTyped, NEW w \in Workers, NEW state \in WorkerStates,
           workers' = [workers EXCEPT ![w] = state],
           state.phase # "idle" => state.row # None /\ outbox'[state.row] # None,
           state.phase = "sent" => state.outcome # None,
           \A n \in Attempts : outbox[n] # None => outbox'[n] # None
    PROVE  WorkersAreTyped'
  BY DEF WorkersAreTyped, WorkerStates

\* The writes become visible: the attempt a transaction wrote had no outcome before, or this one.
LEMMA CommitKeeps ==
    ASSUME NotificationInvariant, NEW t \in inflight, Commit(t)
    PROVE  /\ NotificationInvariant'
           /\ \A n \in Attempts : Settled(attempts[n]) => attempts'[n] = attempts[n]
<1> USE NotificationConstants DEF NotificationInvariant, RowInvariant
<1>1. /\ outbox' = IF t.row = None THEN outbox ELSE [outbox EXCEPT ![t.row] = t.outbox]
      /\ attempts' = IF t.row = None THEN attempts ELSE [attempts EXCEPT ![t.row] = t.attempt]
      /\ projection' = t.proj /\ inflight' = inflight \ {t} /\ UNCHANGED evidence
  BY DEF Commit
<1>2. /\ t.row # None => WritesAnAttempt(t)
      /\ t.by # None => t.by \in Workers /\ t.row # None
  BY DEF InflightIsSound
<1>3. \A n \in Attempts : attempts[n] # None /\ attempts[n].state # "dispatching"
         => attempts'[n] = attempts[n]
  BY <1>1, <1>2 DEF WritesAnAttempt, RowsAgree
<1>4. RowsAgree'
  <2>1. CASE t.row = None
    BY <1>1, <2>1 DEF RowsAgree
  <2>2. CASE t.row # None
    <3>1. /\ t.row \in Attempts /\ t.attempt \in AttemptRows /\ t.attempt # None
          /\ t.outbox \in OutboxRows /\ t.outbox \notin {None, Admitted}
      BY <1>2, <2>2 DEF WritesAnAttempt
    <3> QED  BY <1>1, <2>2, <3>1 DEF RowsAgree
  <2> QED  BY <2>1, <2>2
<1>5. InflightIsSound'
  <2>1. ASSUME NEW u \in inflight', u.row # None
        PROVE  WritesAnAttempt(u)'
    <3>1. u \in inflight /\ u # t /\ WritesAnAttempt(u) /\ (t.row # None => u.row # t.row)
      BY <1>1, <2>1 DEF InflightIsSound
    <3>2. attempts'[u.row] = attempts[u.row]
      BY <1>1, <3>1 DEF RowsAgree, WritesAnAttempt
    <3> QED  BY <3>1, <3>2 DEF WritesAnAttempt
  <2> QED  BY <1>1, <2>1 DEF InflightIsSound
<1>6. WorkersAreTyped'
  <2>1. \A n \in Attempts : outbox[n] # None => outbox'[n] # None
    BY <1>1, <1>2 DEF WritesAnAttempt, RowsAgree
  <2>2. CASE t.by = None
    BY <2>1, <2>2 DEF Commit, WorkersAreTyped, WorkerStates
  <2>3. CASE t.by # None
    <3> DEFINE sending == [phase |-> "sending", row |-> t.row, outcome |-> None]
    <3>1. /\ sending \in WorkerStates /\ sending.row = t.row /\ sending.phase = "sending"
          /\ t.row # None /\ outbox'[t.row] # None
      BY <1>1, <1>2, <2>3 DEF WorkerStates, WritesAnAttempt, RowsAgree
    <3>2. Idle \in WorkerStates /\ Idle.phase = "idle"
      BY DEF Idle, WorkerStates
    <3>3. PICK state \in {sending, Idle} : workers' = [workers EXCEPT ![t.by] = state]
      BY <2>3 DEF Commit
    <3> HIDE DEF sending
    <3> QED  BY <1>2, <2>1, <2>3, <3>1, <3>2, <3>3, WorkerMoves
  <2> QED  BY <2>2, <2>3
<1>7. ShowsReported'
  <2>1. Reported => Reported'
    BY <1>1, <1>3, ReportsStay
  <2>2. \A u \in inflight : u.row # None => u.row \in Attempts /\ u.attempt \in AttemptRows
    BY DEF InflightIsSound, WritesAnAttempt
  <2>3. t.row # None /\ t.attempt.state = "delivered" => Reported'
    BY <1>1, <2>2 DEF Reported, RowsAgree
  <2> QED  BY <1>1, <2>1, <2>3 DEF ShowsReported
<1> QED  BY <1>3, <1>4, <1>5, <1>6, <1>7 DEF Settled

\* Steps that touch no attempt, and no transaction.
LEMMA AsideKeeps ==
    ASSUME NotificationInvariant, RowsAgree', WorkersAreTyped',
           UNCHANGED <<attempts, evidence, projection, inflight>>
    PROVE  NotificationInvariant'
  BY DEF NotificationInvariant, RowInvariant, InflightIsSound, WritesAnAttempt, ShowsReported, Reported

\* What a dispatcher may be at.
LEMMA WorkerShapes ==
    /\ Idle \in WorkerStates /\ Idle.phase = "idle"
    /\ \A n \in Attempts, phase \in {"candidate", "sending"} :
          LET state == [phase |-> phase, row |-> n, outcome |-> None]
          IN  state \in WorkerStates /\ state.phase = phase /\ state.row = n
    /\ \A s \in WorkerStates :
          LET state == [s EXCEPT !.phase = "waiting"]
          IN  state \in WorkerStates /\ state.phase = "waiting" /\ state.row = s.row
    /\ \A s \in WorkerStates, answer \in Answers :
          LET state == [s EXCEPT !.phase = "sent", !.outcome = answer]
          IN  state \in WorkerStates /\ state.phase = "sent" /\ state.row = s.row
              /\ state.outcome = answer /\ answer \in AttemptRows
  BY NotificationConstants DEF Idle, WorkerStates, AttemptRows

\* The dispatcher, between its transactions.
LEMMA DispatcherKeeps ==
    ASSUME NotificationInvariant, NEW w \in Workers,
           \/ \E n \in Attempts : NextCandidate(w, n)
           \/ ClaimLapsed(w) \/ ClaimDuplicate(w) \/ CompleteRefused(w) \/ WorkerDies(w)
           \/ \E answer \in Answers : Send(w, answer)
    PROVE  NotificationInvariant'
<1> USE NotificationConstants DEF NotificationInvariant, RowInvariant
<1>1. UNCHANGED <<attempts, evidence, projection, inflight>>
  BY DEF NextCandidate, ClaimLapsed, ClaimDuplicate, CompleteRefused, WorkerDies, Send
<1>2. workers[w] \in WorkerStates /\ (workers[w].phase # "idle" => workers[w].row \in Attempts)
  BY DEF WorkersAreTyped, WorkerStates
<1>3. RowsAgree' /\ \A n \in Attempts : outbox[n] # None => outbox'[n] # None
  <2>1. CASE UNCHANGED outbox
    BY <1>1, <2>1 DEF RowsAgree
  <2>2. CASE ClaimLapsed(w)
    <3> DEFINE n == workers[w].row
               row == Released(outbox[n], "reconciliation_required")
    <3>1. n \in Attempts /\ outbox[n] # None /\ outbox[n].state = "processing"
          /\ outbox' = [outbox EXCEPT ![n] = row]
      BY <1>2, <2>2 DEF ClaimLapsed, WorkersAreTyped
    <3>2. outbox[n] \in OutboxRows /\ outbox[n] # Admitted
      BY <3>1 DEF RowsAgree, Admitted
    <3>3. row \in OutboxRows /\ row # Admitted /\ row # None
      BY RowShapes
    <3> HIDE DEF n, row
    <3> QED  BY <1>1, <3>1, <3>2, <3>3 DEF RowsAgree
  <2> QED  BY <2>1, <2>2 DEF NextCandidate, ClaimDuplicate, CompleteRefused, WorkerDies, Send
<1>4. \A n \in Attempts : outbox[n] # None => outbox'[n] # None
  BY <1>3
<1>5. WorkersAreTyped'
  <2>1. CASE \E n \in Attempts : NextCandidate(w, n)
    <3>1. PICK n \in Attempts : NextCandidate(w, n)
      BY <2>1
    <3> DEFINE state == [phase |-> "candidate", row |-> n, outcome |-> None]
    <3>2. workers' = [workers EXCEPT ![w] = state] /\ outbox'[n] # None
      BY <3>1, <1>4, RowShapes DEF NextCandidate
    <3>3. state \in WorkerStates /\ state.phase = "candidate" /\ state.row = n
      BY WorkerShapes
    <3> HIDE DEF state
    <3> QED  BY <1>4, <3>2, <3>3, WorkerMoves
  <2>2. CASE \E answer \in Answers : Send(w, answer)
    <3>1. PICK answer \in Answers : Send(w, answer)
      BY <2>2
    <3> DEFINE state == [workers[w] EXCEPT !.phase = "sent", !.outcome = answer]
    <3>2. workers' = [workers EXCEPT ![w] = state] /\ workers[w].phase = "sending"
      BY <3>1 DEF Send, WorkersAreTyped
    <3>3. state \in WorkerStates /\ state.phase = "sent" /\ state.row = workers[w].row
          /\ state.outcome = answer /\ answer # None
      BY <1>2 DEF WorkerStates, AttemptRows
    <3>4. workers[w].row # None /\ outbox'[workers[w].row] # None
      BY <1>2, <1>4, <3>2 DEF WorkersAreTyped
    <3> HIDE DEF state
    <3> QED  BY <1>4, <3>2, <3>3, <3>4, WorkerMoves
  <2>3. CASE ClaimDuplicate(w) /\ outbox[workers[w].row].state = "processing"
    <3>1. PICK n \in Attempts : n = workers[w].row
      BY <1>2, <2>3 DEF ClaimDuplicate
    <3> DEFINE state == [phase |-> "sending", row |-> n, outcome |-> None]
    <3>2. workers' = [workers EXCEPT ![w] = state] /\ outbox'[n] # None
      BY <2>3, <3>1, <1>4 DEF ClaimDuplicate, WorkersAreTyped
    <3>3. state \in WorkerStates /\ state.phase = "sending" /\ state.row = n
      BY WorkerShapes
    <3> HIDE DEF state
    <3> QED  BY <1>4, <3>2, <3>3, WorkerMoves
  <2>4. CASE workers' = [workers EXCEPT ![w] = Idle]
    BY <1>4, <2>4, WorkerShapes, WorkerMoves
  <2> QED  BY <2>1, <2>2, <2>3, <2>4 DEF ClaimLapsed, ClaimDuplicate, CompleteRefused, WorkerDies
<1> QED  BY <1>1, <1>3, <1>5, AsideKeeps

\* A dispatcher that waits for its transaction.
LEMMA WaitingKeeps ==
    ASSUME NotificationInvariant, NEW w \in Workers, workers[w].phase # "idle", UNCHANGED outbox,
           workers' = [workers EXCEPT ![w].phase = "waiting"]
    PROVE  WorkersAreTyped'
<1> USE DEF NotificationInvariant, RowInvariant
<1>1. workers[w] \in WorkerStates /\ workers[w].row # None /\ outbox[workers[w].row] # None
  BY DEF WorkersAreTyped
<1> DEFINE state == [workers[w] EXCEPT !.phase = "waiting"]
<1>2. state \in WorkerStates /\ state.phase = "waiting" /\ state.row = workers[w].row
  BY <1>1 DEF WorkerStates
<1>3. workers' = [workers EXCEPT ![w] = state]
  OBVIOUS
<1>4. \A n \in Attempts : outbox[n] # None => outbox'[n] # None
  OBVIOUS
<1>5. WorkersAreTyped
  OBVIOUS
<1> HIDE DEF state, NotificationInvariant, RowInvariant
<1>6. outbox'[state.row] # None
  BY <1>1, <1>2
<1> QED  BY <1>2, <1>3, <1>4, <1>5, <1>6, <1>1, WorkerMoves

\* A claim writes the first state of the attempt.
LEMMA DispatchClaimKeeps ==
    ASSUME NotificationInvariant, NEW w \in Workers, Claim(w)
    PROVE  NotificationInvariant'
<1>1. PICK n : n = workers[w].row
  OBVIOUS
<1>2. n \in Attempts /\ workers[w].phase # "idle"
  BY <1>1, NotificationConstants
     DEF Claim, NotificationInvariant, RowInvariant, WorkersAreTyped, WorkerStates
<1> DEFINE row == [state |-> "processing", executor |-> w, lapsed |-> FALSE]
           attempt == [state |-> "dispatching", bound |-> FALSE]
<1>3. /\ row \in OutboxRows /\ attempt \in AttemptRows /\ row # Admitted
      /\ Begin(w, n, row, attempt) /\ outbox[n] = Admitted
      /\ workers' = [workers EXCEPT ![w].phase = "waiting"]
  BY <1>1 DEF Claim, OutboxRows, AttemptRows, Admitted
<1>4. attempts[n] = None
  BY <1>2, <1>3 DEF NotificationInvariant, RowInvariant, RowsAgree
<1> HIDE DEF row, attempt
<1>5. WorkersAreTyped'
  BY <1>2, <1>3, WaitingKeeps DEF Begin
<1> QED  BY <1>2, <1>3, <1>4, <1>5, BeginKeeps

\* A completion writes the outcome of an attempt that has none.
LEMMA CompleteKeeps ==
    ASSUME NotificationInvariant, NEW w \in Workers, Complete(w)
    PROVE  NotificationInvariant'
<1>1. PICK n, outcome : n = workers[w].row /\ outcome = workers[w].outcome
  OBVIOUS
<1>2. n \in Attempts /\ outcome \in AttemptRows /\ workers[w].phase # "idle"
  BY <1>1, NotificationConstants
     DEF Complete, NotificationInvariant, RowInvariant, WorkersAreTyped, WorkerStates
<1>3. PICK row : row = Released(outbox[n], DispatchVerdict(outcome))
  OBVIOUS
<1>4. row \in OutboxRows /\ row # Admitted
  BY <1>3, RowShapes DEF DispatchVerdict
<1>5. /\ Begin(w, n, row, outcome) /\ attempts[n].state = "dispatching"
      /\ workers' = [workers EXCEPT ![w].phase = "waiting"]
  BY <1>1, <1>3 DEF Complete, CurrentClaim
<1>6. WorkersAreTyped'
  BY <1>2, <1>5, WaitingKeeps DEF Begin
<1> QED  BY <1>2, <1>4, <1>5, <1>6, BeginKeeps

\* Reconciliation gives an attempt without outcome the outcome "unknown", and leaves any other.
LEMMA ReconcileKeeps ==
    ASSUME NotificationInvariant, NEW n \in Attempts, Reconcile(n)
    PROVE  NotificationInvariant'
<1>1. PICK row : row = Released(outbox[n], "failed")
  OBVIOUS
<1>2. row \in OutboxRows /\ row # Admitted
  BY <1>1, RowShapes
<1>3. outbox[n] # None /\ outbox[n].state = "reconciliation_required" /\ UNCHANGED workers
  BY DEF Reconcile
<1>4. attempts[n] \in AttemptRows
  BY <1>3 DEF NotificationInvariant, RowInvariant, RowsAgree, Admitted
<1>5. PICK attempt : attempt = IF attempts[n].state = "dispatching"
                               THEN [attempts[n] EXCEPT !.state = "unknown"] ELSE attempts[n]
  OBVIOUS
<1>6. attempt \in AttemptRows /\ (attempts[n].state # "dispatching" => attempt = attempts[n])
  BY <1>4, <1>5 DEF AttemptRows, Outcomes
<1>7. Begin(None, n, row, attempt)
  BY <1>1, <1>5 DEF Reconcile
<1>8. WorkersAreTyped'
  BY <1>3, <1>7 DEF Begin, NotificationInvariant, RowInvariant, WorkersAreTyped
<1> QED  BY <1>2, <1>6, <1>7, <1>8, BeginKeeps

\* A lease that lapses, and the dispatch row of a retry, leave the attempts alone.
LEMMA OutboxKeeps ==
    ASSUME NotificationInvariant, ScheduleRetry \/ \E n \in Attempts : LeaseLapses(n)
    PROVE  NotificationInvariant'
<1> USE DEF NotificationInvariant, RowInvariant
<1>1. UNCHANGED <<attempts, evidence, projection, inflight, workers>>
  BY DEF ScheduleRetry, LeaseLapses
<1>2. RowsAgree' /\ \A n \in Attempts : outbox[n] # None => outbox'[n] # None
  <2>1. CASE ScheduleRetry
    <3>1. PICK n : n = Latest(attempts)
      OBVIOUS
    <3>2. n + 1 \in Attempts /\ outbox[n + 1] = None /\ outbox' = [outbox EXCEPT ![n + 1] = Admitted]
      BY <2>1, <3>1, LatestIsThere, NotificationConstants DEF ScheduleRetry, Attempts
    <3> QED  BY <1>1, <3>2, RowShapes DEF RowsAgree
  <2>2. CASE \E n \in Attempts : LeaseLapses(n)
    <3>1. PICK n \in Attempts : LeaseLapses(n)
      BY <2>2
    <3> DEFINE row == [outbox[n] EXCEPT !.lapsed = TRUE]
    <3>2. outbox[n] # None /\ outbox[n].state = "processing" /\ outbox[n] \in OutboxRows
          /\ outbox' = [outbox EXCEPT ![n] = row]
      BY <3>1 DEF LeaseLapses, RowsAgree
    <3>3. row \in OutboxRows /\ row.state = "processing"
      BY <3>2 DEF OutboxRows
    <3> HIDE DEF row
    <3>4. row \notin {None, Admitted} /\ outbox[n] \notin {None, Admitted}
      BY <3>2, <3>3, NotificationConstants DEF Admitted
    <3> QED  BY <1>1, <3>2, <3>3, <3>4 DEF RowsAgree
  <2> QED  BY <2>1, <2>2
<1>3. WorkersAreTyped'
  BY <1>1, <1>2, NotificationConstants DEF WorkersAreTyped, WorkerStates
<1> QED  BY <1>1, <1>2, <1>3, AsideKeeps

\* A refresh on its own, or of a callback, shows what was reported, the callback included.
LEMMA RefreshKeeps ==
    ASSUME NotificationInvariant,
           RetryAlreadyProven \/ \E c \in Callbacks : RecordCallback(c) \/ QuarantineCallback(c)
    PROVE  NotificationInvariant'
<1> USE NotificationConstants DEF NotificationInvariant, RowInvariant
<1>1. UNCHANGED <<outbox, attempts, projection, workers>>
  BY DEF RetryAlreadyProven, RecordCallback, QuarantineCallback
<1>2. CASE UNCHANGED <<evidence, inflight>>
  BY <1>1, <1>2, AsideKeeps DEF RowsAgree, WorkersAreTyped
<1>3. CASE ~ UNCHANGED <<evidence, inflight>>
  <2>1. PICK t, facts :
           /\ inflight' = inflight \cup {t}
           /\ t.by = None /\ t.row = None /\ t.proj = Projected(attempts, facts)
           /\ DOMAIN facts \subseteq DOMAIN evidence' /\ DOMAIN evidence \subseteq DOMAIN evidence'
    <3>1. CASE RetryAlreadyProven
      <4> DEFINE t == [by |-> None, row |-> None, outbox |-> None, attempt |-> None,
                       callback |-> None, proj |-> Projected(attempts, Visible)]
      <4>1. inflight' = inflight \cup {t} /\ UNCHANGED evidence
        BY <3>1 DEF RetryAlreadyProven
      <4>2. t.by = None /\ t.row = None /\ t.proj = Projected(attempts, Visible)
        OBVIOUS
      <4>3. DOMAIN Visible \subseteq DOMAIN evidence
        BY DEF Visible
      <4> QED  BY <4>1, <4>2, <4>3
    <3>2. CASE \E c \in Callbacks : RecordCallback(c)
      <4>1. PICK c \in Callbacks : RecordCallback(c)
        BY <3>2
      <4> DEFINE facts == Observed(Visible, c)
                 t == [by |-> None, row |-> None, outbox |-> None, attempt |-> None,
                       callback |-> c, proj |-> Projected(attempts, facts)]
      <4>2. inflight' = inflight \cup {t} /\ evidence' = Observed(evidence, c)
        BY <4>1 DEF RecordCallback
      <4>3. DOMAIN Visible \subseteq DOMAIN evidence
        BY DEF Visible
      <4>4. DOMAIN facts = DOMAIN Visible \cup {c} /\ DOMAIN evidence' = DOMAIN evidence \cup {c}
        BY <4>2 DEF Observed
      <4> HIDE DEF facts
      <4>5. t.by = None /\ t.row = None /\ t.proj = Projected(attempts, facts)
        OBVIOUS
      <4> HIDE DEF t
      <4> QED  BY <4>2, <4>3, <4>4, <4>5
    <3> QED  BY <1>3, <3>1, <3>2 DEF QuarantineCallback
  <2>2. InflightIsSound'
    BY <1>1, <2>1 DEF InflightIsSound, WritesAnAttempt
  <2>3. Reported => Reported'
    BY <1>1, <2>1, ReportsStay
  <2>4. t.proj.state = "delivered" => Reported'
    <3> SUFFICES ASSUME t.proj.state = "delivered" PROVE Reported'
      OBVIOUS
    <3>1. PICK rows : rows = attempts
      OBVIOUS
    <3>2. \/ \E c \in DOMAIN facts : c.kind = "delivered"
          \/ \E n \in Attempts : rows[n] # None /\ rows[n].state = "delivered"
      BY <2>1, <3>1, ProjectedFromFacts
    <3> QED  BY <1>1, <2>1, <3>1, <3>2 DEF Reported
  <2>5. ShowsReported'
    BY <1>1, <2>1, <2>3, <2>4 DEF ShowsReported
  <2> QED  BY <1>1, <2>2, <2>5 DEF RowsAgree, WorkersAreTyped
<1> QED  BY <1>2, <1>3

\* Every step keeps the invariant, and every outcome.
LEMMA NotificationStepKeeps ==
    NotificationInvariant /\ [NotificationNext]_notificationVars =>
        /\ NotificationInvariant'
        /\ \A n \in Attempts : Settled(attempts[n]) => attempts'[n] = attempts[n]
<1> SUFFICES ASSUME NotificationInvariant, [NotificationNext]_notificationVars
             PROVE  /\ NotificationInvariant'
                    /\ \A n \in Attempts : Settled(attempts[n]) => attempts'[n] = attempts[n]
  OBVIOUS
<1>1. CASE \E t \in inflight : Commit(t)
  BY <1>1, CommitKeeps
<1>2. ASSUME NEW w \in Workers,
             \/ \E n \in Attempts : NextCandidate(w, n)
             \/ Claim(w) \/ ClaimLapsed(w) \/ ClaimDuplicate(w)
             \/ \E answer \in Answers : Send(w, answer)
             \/ Complete(w) \/ CompleteRefused(w) \/ WorkerDies(w)
      PROVE  NotificationInvariant' /\ UNCHANGED attempts
  <2>1. NotificationInvariant'
    BY <1>2, DispatchClaimKeeps, CompleteKeeps, DispatcherKeeps
  <2>2. UNCHANGED attempts
    BY <1>2 DEF NextCandidate, Claim, ClaimLapsed, ClaimDuplicate, Send, Complete, CompleteRefused,
                WorkerDies, Begin
  <2> QED  BY <2>1, <2>2
<1>3. CASE (\E n \in Attempts : LeaseLapses(n) \/ Reconcile(n)) \/ ScheduleRetry
  <2>1. NotificationInvariant'
    BY <1>3, OutboxKeeps, ReconcileKeeps
  <2>2. UNCHANGED attempts
    BY <1>3 DEF LeaseLapses, Reconcile, ScheduleRetry, Begin
  <2> QED  BY <2>1, <2>2
<1>4. CASE RetryAlreadyProven \/ \E c \in Callbacks : RecordCallback(c) \/ QuarantineCallback(c)
  <2>1. NotificationInvariant'
    BY <1>4, RefreshKeeps
  <2>2. UNCHANGED attempts
    BY <1>4 DEF RetryAlreadyProven, RecordCallback, QuarantineCallback
  <2> QED  BY <2>1, <2>2
<1>5. CASE UNCHANGED notificationVars
  <2>1. UNCHANGED <<outbox, attempts, evidence, projection, inflight, workers>>
    BY <1>5 DEF notificationVars
  <2>2. RowsAgree' /\ WorkersAreTyped'
    BY <2>1 DEF NotificationInvariant, RowInvariant, RowsAgree, WorkersAreTyped
  <2> QED  BY <2>1, <2>2, AsideKeeps
<1> QED  BY <1>1, <1>2, <1>3, <1>4, <1>5 DEF NotificationNext

\* The invariant holds throughout.
LEMMA NotificationInvariantHolds == NotificationSpec => []NotificationInvariant
  BY NotificationInitially, NotificationStepKeeps, PTL DEF NotificationSpec

\* Nothing is shown as delivered that was not reported delivered, in whatever order transactions
\* compute and publish what they show.
THEOREM NotificationNeverInvents == NotificationSpec => []NeverInventsDelivery
<1>1. NotificationInvariant => NeverInventsDelivery
  BY DEF NotificationInvariant, ShowsReported, Reported, NeverInventsDelivery
<1> QED  BY <1>1, NotificationInvariantHolds, PTL

\* The outcome of an attempt is written once, whoever dispatches, reconciles or reports late.
THEOREM NotificationOutcomeIsFinal == NotificationSpec => OutcomeIsFinal
<1>1. NotificationInvariant /\ [NotificationNext]_notificationVars
        => [\A n \in Attempts : Settled(attempts[n]) => attempts'[n] = attempts[n]]_notificationVars
  BY NotificationStepKeeps
<1> QED  BY <1>1, NotificationInvariantHolds, PTL DEF NotificationSpec, OutcomeIsFinal

=============================================================================
