--------------------------- MODULE HumanOperations ---------------------------
(***************************************************************************)
(* What people do about the alerts of AlertLifecycle                       *)
(* (sql/human_operations/001_human_operations.sql, driven by               *)
(* apps/g8-human-operations/service.py): who acts on an alert, who         *)
(* acknowledged it, who has to see it and who did, and who is responsible  *)
(* for the resource.                                                       *)
(*                                                                         *)
(* An assignment, an acknowledgement and a visibility requirement each     *)
(* read that the alert is active without locking it, and write later in    *)
(* their transaction; the lifecycle goes on in between.  Assignments of an *)
(* alert wait for each other on an advisory lock.  A call names a logical  *)
(* action; one that was recorded is answered from its row, or refused when *)
(* it says something else, and changes nothing either way.  The authority  *)
(* snapshot, notes and reasons are left out.                               *)
(***************************************************************************)
EXTENDS AlertLifecycle

CONSTANTS
    Callers,       \* sessions that call the functions
    Actions,       \* logical_action_id, which each table keeps apart
    Principals

VARIABLES
    requests,          \* calls that found their alert active and did not write yet
    assignments,       \* alert_action_assignment, by logical action
    currentAction,     \* current_action_projection, by alert
    acknowledgements,  \* alert_acknowledgement: the alert, by logical action
    requirements,      \* visibility_requirement, by logical action
    receipts,          \* visibility_receipt: the requirement, by logical action
    responsibilities   \* resource_responsibility_assignment, by logical action

viewVars == <<acknowledgements, requirements, receipts, responsibilities>>
humanVars == <<requests, assignments, currentAction, viewVars>>

Kinds == {"assign", "acknowledge", "require"}
Requests == [kind : Kinds, alert : Decisions, action : Actions, principal : Principals]
Assignments == [alert : Decisions, owner : Principals, open : BOOLEAN]
ActionProjections == [assignment : Actions, revision : Nat \ {0}]
Requirements == [alert : Decisions, viewer : Principals]

ASSUME HumanConstants ==
    None \notin Actions /\ None \notin Assignments /\ None \notin ActionProjections

HumanInit ==
    /\ requests = [c \in Callers |-> None]
    /\ assignments = [k \in Actions |-> None]
    /\ currentAction = [a \in Decisions |-> None]
    /\ acknowledgements = [k \in Actions |-> None]
    /\ requirements = [k \in Actions |-> None]
    /\ receipts = [k \in Actions |-> None]
    /\ responsibilities = [k \in Actions |-> None]

Done(c) == requests' = [requests EXCEPT ![c] = None]

\* A call finds its alert active; an assignment holds the advisory lock of the alert.
FindsActive(c, r) ==
    /\ requests[c] = None
    /\ Active(r.alert)
    /\ r.kind = "assign" =>
          \A other \in Callers :
              requests[other] # None /\ requests[other].alert = r.alert =>
                  requests[other].kind # "assign"
    /\ requests' = [requests EXCEPT ![c] = r]
    /\ UNCHANGED <<assignments, currentAction, viewVars>>

AssignmentsOf(a) == {k \in Actions : assignments[k] # None /\ assignments[k].alert = a}

\* Mutant form: the assignment in force stays open.
RecordAssignmentOnly(r) ==
    LET known == currentAction[r.alert] IN
    /\ assignments' = [assignments EXCEPT
           ![r.action] = [alert |-> r.alert, owner |-> r.principal, open |-> TRUE]]
    /\ currentAction' = [currentAction EXCEPT ![r.alert] =
           [assignment |-> r.action, revision |-> IF known = None THEN 1 ELSE known.revision + 1]]

\* The assignment in force is closed as reassigned; the new one and the projection follow.
RecordAssignment(r) ==
    LET known == currentAction[r.alert] IN
    /\ assignments' = [k \in Actions |->
           IF k = r.action THEN [alert |-> r.alert, owner |-> r.principal, open |-> TRUE]
           ELSE IF k \in AssignmentsOf(r.alert) THEN [assignments[k] EXCEPT !.open = FALSE]
           ELSE assignments[k]]
    /\ currentAction' = [currentAction EXCEPT ![r.alert] =
           [assignment |-> r.action, revision |-> IF known = None THEN 1 ELSE known.revision + 1]]

\* g8_assign_alert_action, after the alert was found active.
AssignAction(c) ==
    /\ requests[c] # None /\ requests[c].kind = "assign"
    /\ IF assignments[requests[c].action] = None
       THEN RecordAssignment(requests[c])
       ELSE UNCHANGED <<assignments, currentAction>>
    /\ Done(c)
    /\ UNCHANGED viewVars

\* g8_acknowledge_alert
Acknowledge(c) ==
    LET r == requests[c] IN
    /\ r # None /\ r.kind = "acknowledge"
    /\ acknowledgements' =
          IF acknowledgements[r.action] = None
          THEN [acknowledgements EXCEPT ![r.action] = r.alert]
          ELSE acknowledgements
    /\ Done(c)
    /\ UNCHANGED <<assignments, currentAction, requirements, receipts, responsibilities>>

\* g8_create_visibility_requirement
RequireVisibility(c) ==
    LET r == requests[c] IN
    /\ r # None /\ r.kind = "require"
    /\ requirements' =
          IF requirements[r.action] = None
          THEN [requirements EXCEPT ![r.action] = [alert |-> r.alert, viewer |-> r.principal]]
          ELSE requirements
    /\ Done(c)
    /\ UNCHANGED <<assignments, currentAction, acknowledgements, receipts, responsibilities>>

\* The session of a caller is lost, and its transaction with it.
CallerLost(c) ==
    /\ requests[c] # None
    /\ Done(c)
    /\ UNCHANGED <<assignments, currentAction, viewVars>>

\* g8_record_visibility_receipt: whether the alert is still active is not asked.
RecordReceipt(k, requirement, viewer) ==
    /\ receipts[k] = None
    /\ requirements[requirement] # None
    /\ requirements[requirement].viewer = viewer
    /\ receipts' = [receipts EXCEPT ![k] = requirement]
    /\ UNCHANGED <<requests, assignments, currentAction, acknowledgements, requirements,
                   responsibilities>>

\* g8_assign_resource_responsibility
AssignResponsibility(k, p) ==
    /\ responsibilities[k] = None
    /\ responsibilities' = [responsibilities EXCEPT ![k] = [principal |-> p, ended |-> FALSE]]
    /\ UNCHANGED <<requests, assignments, currentAction, acknowledgements, requirements, receipts>>

\* g8_end_resource_responsibility
EndResponsibility(k) ==
    /\ responsibilities[k] # None
    /\ ~responsibilities[k].ended
    /\ responsibilities' = [responsibilities EXCEPT ![k].ended = TRUE]
    /\ UNCHANGED <<requests, assignments, currentAction, acknowledgements, requirements, receipts>>

\* Who acts on an alert
ActionStep ==
    \/ \E c \in Callers, r \in Requests : r.kind = "assign" /\ FindsActive(c, r)
    \/ \E c \in Callers : AssignAction(c)

\* Who knows of it
ViewStep ==
    \/ \E c \in Callers, r \in Requests : r.kind # "assign" /\ FindsActive(c, r)
    \/ \E c \in Callers : Acknowledge(c) \/ RequireVisibility(c)
    \/ \E k, requirement \in Actions, viewer \in Principals : RecordReceipt(k, requirement, viewer)

\* Who is responsible for its resource
ResponsibilityStep ==
    \E k \in Actions : EndResponsibility(k) \/ \E p \in Principals : AssignResponsibility(k, p)

HumanStep ==
    \/ ActionStep \/ ViewStep \/ ResponsibilityStep
    \/ \E c \in Callers : CallerLost(c)

HumanNext ==
    \/ LifecycleNext /\ UNCHANGED humanVars
    \/ HumanStep /\ UNCHANGED lifecycleVars

HumanSpec == LifecycleInit /\ HumanInit /\ [][HumanNext]_<<lifecycleVars, humanVars>>

-----------------------------------------------------------------------------

HumanTypeOK ==
    /\ requests \in [Callers -> Requests \cup {None}]
    /\ assignments \in [Actions -> Assignments \cup {None}]
    /\ currentAction \in [Decisions -> ActionProjections \cup {None}]
    /\ acknowledgements \in [Actions -> Decisions \cup {None}]
    /\ requirements \in [Actions -> Requirements \cup {None}]
    /\ receipts \in [Actions -> Actions \cup {None}]

\* The history of an alert is complete: its assignments were made one after the other,
\* each closed by the next, and the projection names the one in force and counts them all,
\* whatever calls were repeated or ran at the same time (g8_assign_alert_action).
HistoryIsComplete ==
    \A a \in Decisions :
        LET past == AssignmentsOf(a)  now == currentAction[a] IN
        IF now = None THEN past = {}
        ELSE /\ now.revision = Cardinality(past)
             /\ {k \in past : assignments[k].open} = {now.assignment}

\* An alert that is not active takes no acknowledgement: g8_acknowledge_alert asks for an
\* active alert, but does not hold it.
NoLateAcknowledgement ==
    [][\A k \in Actions :
          acknowledgements[k] = None /\ acknowledgements'[k] # None =>
              Active(acknowledgements'[k])]_acknowledgements
=============================================================================
