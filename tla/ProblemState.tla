---------------------------- MODULE ProblemState ----------------------------
(* The problems of the hosts of a source, as Zabbix reports them           *)
(* (sql/wave4/042 to 046).                                                 *)
(*                                                                         *)
(* A problem operation is enqueued, claimed and completed like an          *)
(* inventory operation, under a poll and an admission of its own.  But its *)
(* completion decides twice: 044 checks the authority of the poll under    *)
(* the lock of the operation alone and records the snapshot, then 043      *)
(* takes the lock of the source, checks again and applies it.  Another     *)
(* transaction that changes the source may commit in between, so the       *)
(* completion is two actions here; what it wrote is seen once it commits.  *)
(*                                                                         *)
(* A problem is one event of the provider.  What a poll says of it, its    *)
(* severity, text, acknowledgement and metadata, is its view.  Left out:   *)
(* transitions, time, and the metric polls of the source, which share no   *)
(* state with this.                                                        *)
EXTENDS HostInventory

CONSTANTS
    Problems,    \* the events of the provider
    OwnerOf,     \* the host each is about
    Views,       \* what may be said of a problem
    SeverityOf,  \* the severity class of each view
    ProblemOps,  \* operations of kind problem_state_sync
    ProblemEpochs  \* bound: the poll epochs recovery may move to

Severities == {"unknown", "informational", "warning", "degraded", "critical"}

ASSUME ProblemEpochsAssumption == ProblemEpochs \subseteq Nat
ASSUME OwnerAssumption == OwnerOf \in [Problems -> Hosts]
ASSUME SeverityAssumption == SeverityOf \in [Views -> Severities]

VARIABLES
    problemPoll, problemAdmission,  \* as hostPoll and hostAdmission, for the problem polls
    problemOps,                     \* the problem operations
    completing,                     \* snapshot of a completion between its two checks
    problems                        \* the row of each problem

problemVars == <<problemPoll, problemAdmission, problemOps, completing, problems>>

\* active: the view of each reported problem, None for the others.  recovered: problems
\* whose recovery events were read.  complete: no active problem is missing.
Snapshots == [active : [Problems -> Views \cup {None}], recovered : SUBSET Problems,
              complete : BOOLEAN]

\* The row of a problem.  by: what ended it, when it is resolved.
ProblemRows == [state : {"active", "resolved"}, view : Views, by : {"recovery", "omission", None}]

\* No snapshot, view or row is the absent one.
ASSUME ProblemNoneAssumption ==
    None \notin Snapshots /\ None \notin Views /\ None \notin ProblemRows

Reported(snapshot) == {p \in Problems : snapshot.active[p] # None}

\* snapshot: the evidence row, once the completion is committed.  applied: problems were
\* changed by it, the operation was not merely retired.
UnaskedProblems == [state |-> "absent", poll |-> None, snapshot |-> None, applied |-> FALSE]

ProblemInit ==
    /\ problemPoll = [epoch |-> 1, generation |-> 0]
    /\ problemAdmission = None
    /\ problemOps = [o \in ProblemOps |-> UnaskedProblems]
    /\ completing = [o \in ProblemOps |-> None]
    /\ problems = [p \in Problems |-> None]
-----------------------------------------------------------------------------
\* enqueue_zabbix_problem_state_sync
EnqueueProblem(o) ==
    /\ problemOps[o].state = "absent"
    /\ sourceEvidence = "current"
    /\ problemOps' = [problemOps EXCEPT ![o].state = "pending"]
    /\ UNCHANGED <<problemPoll, problemAdmission, completing, problems>>

\* claim_zabbix_problem_state
ClaimProblem(o) ==
    /\ problemOps[o].state = "pending"
    /\ sourceEvidence = "current"
    /\ problemAdmission = problemPoll.epoch
    /\ problemPoll' = NextPoll(problemPoll)
    /\ problemOps' = [problemOps EXCEPT ![o].state = "running", ![o].poll = problemPoll']
    /\ UNCHANGED <<problemAdmission, completing, problems>>

\* Mutant form: a later poll of the epoch does not supersede this one.
HasEpoch(poll) ==
    poll.epoch = problemPoll.epoch /\ problemAdmission = poll.epoch /\ sourceEvidence = "current"

\* The poll is the newest of the source, it is admitted and the source is current.
HasAuthority(poll) ==
    poll = problemPoll /\ problemAdmission = poll.epoch /\ sourceEvidence = "current"

\* complete_zabbix_problem_state_with_evidence up to the lock of the source: without
\* authority it raises, and the operation keeps running
CheckAuthority(o, snapshot) ==
    /\ problemOps[o].state = "running"
    /\ completing[o] = None
    /\ HasAuthority(problemOps[o].poll)
    /\ completing' = [completing EXCEPT ![o] = snapshot]
    /\ UNCHANGED <<problemPoll, problemAdmission, problemOps, problems>>

\* complete_zabbix_problem_state when the authority was lost since the check: the operation
\* is retired, no problem is touched, and the evidence recorded before is committed
RetireProblem(o) ==
    /\ completing[o] # None
    /\ ~ HasAuthority(problemOps[o].poll)
    /\ problemOps' = [problemOps EXCEPT ![o].state = "reconciliation_required",
                                        ![o].snapshot = completing[o]]
    /\ completing' = [completing EXCEPT ![o] = None]
    /\ UNCHANGED <<problemPoll, problemAdmission, problems>>
-----------------------------------------------------------------------------
IsActive(p) == problems[p] # None /\ problems[p].state = "active"

\* Active problems the snapshot does not report
Omitted(snapshot) == {p \in Problems : IsActive(p)} \ Reported(snapshot)

\* Mutant form: a problem that is not reported is over, whatever the snapshot covers.
OmittedIsOver(snapshot) ==
    {p \in snapshot.recovered : IsActive(p) \/ p \in Reported(snapshot)} \cup Omitted(snapshot)

\* Problems the snapshot ends: by their recovery event, or, when it is complete, by not
\* reporting them
Ended(snapshot) ==
    {p \in snapshot.recovered : IsActive(p) \/ p \in Reported(snapshot)} \cup
    (IF snapshot.complete THEN Omitted(snapshot) ELSE {})

\* Rows the completion updates and leaves at their projection revision: a problem reported
\* as before, and one an incomplete snapshot omits.  The guard of the table demands that
\* every update advances the revision, and refuses these.
Unrevised(snapshot) ==
    {p \in Reported(snapshot) : IsActive(p) /\ problems[p].view = snapshot.active[p]} \cup
    (Omitted(snapshot) \ Ended(snapshot))

\* The conditions the completion raises without: each reported problem belongs to a known
\* resource and has not ended before, each recovered one is known and did not end by
\* omission, at another time than its recovery event says.
Acceptable(snapshot) ==
    /\ \A p \in Reported(snapshot) :
          /\ resources[OwnerOf[p]] # None
          /\ problems[p] = None \/ IsActive(p)
    /\ \A p \in snapshot.recovered :
          \/ p \in Reported(snapshot) \/ IsActive(p)
          \/ problems[p] # None /\ problems[p].by = "recovery"
    /\ Unrevised(snapshot) = {}

\* The row of p when the snapshot is applied
Projected(p, snapshot) ==
    LET view == IF p \in Reported(snapshot) THEN snapshot.active[p] ELSE problems[p].view
    IN  CASE p \in Ended(snapshot) ->
                [state |-> "resolved", view |-> view,
                 by |-> IF p \in snapshot.recovered THEN "recovery" ELSE "omission"]
          [] p \in Reported(snapshot) \ Ended(snapshot) ->
                [state |-> "active", view |-> view, by |-> None]
          [] OTHER -> problems[p]

\* complete_zabbix_problem_state under the locks of the operation and the source
ApplyProblem(o) ==
    /\ completing[o] # None
    /\ HasAuthority(problemOps[o].poll)
    /\ Acceptable(completing[o])
    /\ problems' = [p \in Problems |-> Projected(p, completing[o])]
    /\ problemOps' = [problemOps EXCEPT
          ![o].state = IF completing[o].complete THEN "succeeded" ELSE "reconciliation_required",
          ![o].snapshot = completing[o], ![o].applied = TRUE]
    /\ completing' = [completing EXCEPT ![o] = None]
    /\ UNCHANGED <<problemPoll, problemAdmission>>

\* The transaction rolls back: the snapshot is not acceptable, a deadlock made it the
\* victim, or the connection is lost.  The operation keeps running and may be completed
\* again.
AbortProblem(o) ==
    /\ completing[o] # None
    /\ completing' = [completing EXCEPT ![o] = None]
    /\ UNCHANGED <<problemPoll, problemAdmission, problemOps, problems>>

\* Mutant form: the current epoch may be admitted again, as before 045.
SameOrLater(successor) == successor >= problemPoll.epoch

\* 045: re-establishing the admission takes a strictly later epoch.
Successor(successor) == successor > problemPoll.epoch

\* reestablish_problem_state_runtime_admission: waits for the completions that hold their
\* operations, and retires the operations of the epoch that are left
RecoverProblem(successor) ==
    /\ Successor(successor)
    /\ \A o \in ProblemOps : completing[o] = None
    /\ problemPoll' = [problemPoll EXCEPT !.epoch = successor]
    /\ problemAdmission' = successor
    /\ problemOps' = [o \in ProblemOps |->
          IF problemOps[o].state = "running" /\ problemOps[o].poll.epoch = problemPoll.epoch
          THEN [problemOps[o] EXCEPT !.state = "reconciliation_required"] ELSE problemOps[o]]
    /\ UNCHANGED <<completing, problems>>

\* The steps of the problem polls, but for crashes
ProblemStep ==
    \/ \E o \in ProblemOps :
          \/ EnqueueProblem(o) \/ ClaimProblem(o)
          \/ \E snapshot \in Snapshots : CheckAuthority(o, snapshot)
          \/ ApplyProblem(o) \/ RetireProblem(o) \/ AbortProblem(o)
    \/ \E successor \in ProblemEpochs : RecoverProblem(successor)
=============================================================================
