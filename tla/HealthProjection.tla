-------------------------- MODULE HealthProjection --------------------------
(* The health of the hosts of a source, derived from its inventory and its *)
(* problems (sql/wave4/047 to 051), and the system the three make up: the  *)
(* transactions of both poll streams, the recomputations and the crashes   *)
(* of the database, in any order.                                          *)
EXTENDS ProblemState

VARIABLES
    health,   \* the projection of each host, None before the first
    revoked   \* history: the newest epoch of each stream whose admission a crash took

healthVars == <<inventoryVars, problemVars, health, revoked>>

HealthInit ==
    /\ InventoryInit
    /\ ProblemInit
    /\ health = [h \in Hosts |-> None]
    /\ revoked = [host |-> 0, problem |-> 0]

\* Severities of the active problems of h
Active(h) == {SeverityOf[problems[p].view] : p \in {q \in Problems : IsActive(q) /\ OwnerOf[q] = h}}

\* The class of h when its evidence is current, and when it is not
ClassWhenCurrent(h) ==
    CASE "critical" \in Active(h) -> "unhealthy"
      [] "critical" \notin Active(h) /\ Active(h) \cap {"warning", "degraded"} # {} -> "degraded"
      [] Active(h) \subseteq {"unknown", "informational"} ->
            IF "unknown" \in Active(h) THEN "unknown" ELSE "healthy"

ClassOtherwise(h) ==
    IF Active(h) \subseteq {"unknown", "informational"} THEN "unknown" ELSE ClassWhenCurrent(h)

\* Operations with a snapshot for the newest poll
SnapshotsOfPoll == {o \in ProblemOps : problemOps[o].snapshot # None /\ problemOps[o].poll = problemPoll}

\* What health may be derived from for h
EvidenceOf(h) ==
    LET some == {sourceEvidence, resources[h].evidence}
    IN  CASE /\ sourceEvidence = "current"
             /\ resources[h] = [presence |-> "present", evidence |-> "current"]
             /\ \E o \in SnapshotsOfPoll : problemOps[o].snapshot.complete -> "current"
          [] OTHER -> IF "unavailable" \in some THEN "unavailable"
                      ELSE IF "incomplete" \in some THEN "incomplete"
                      ELSE "reconciliation_required"

\* recompute_health_projection, under the lock of the source
RecomputeHealth(h) ==
    /\ resources[h] # None
    /\ Cardinality(SnapshotsOfPoll) <= 1
    /\ health' = [health EXCEPT ![h] =
          [class |-> IF EvidenceOf(h) = "current" THEN ClassWhenCurrent(h) ELSE ClassOtherwise(h),
           evidence |-> EvidenceOf(h),
           cites |-> IF SnapshotsOfPoll = {} THEN None ELSE CHOOSE o \in SnapshotsOfPoll : TRUE]]
    /\ UNCHANGED <<inventoryVars, problemVars, revoked>>

Lost(admission, before) == IF admission = None THEN before ELSE admission

\* The database crashes: tables that are not logged are truncated and open transactions are
\* rolled back.
Crash ==
    /\ hostAdmission' = None
    /\ problemAdmission' = None
    /\ completing' = [o \in ProblemOps |-> None]
    /\ revoked' = [host |-> Lost(hostAdmission, revoked.host),
                   problem |-> Lost(problemAdmission, revoked.problem)]
    /\ UNCHANGED <<validation, sourceEvidence, hostPoll, inventories, resources>>
    /\ UNCHANGED <<problemPoll, problemOps, problems, health>>

HealthNext ==
    \/ InventoryStep /\ UNCHANGED <<problemVars, health, revoked>>
    \/ ProblemStep /\ UNCHANGED <<inventoryVars, health, revoked>>
    \/ \E h \in Hosts : RecomputeHealth(h)
    \/ Crash

HealthSpec == HealthInit /\ [][HealthNext]_healthVars
-----------------------------------------------------------------------------
(* Properties *)

Newest(ops, op) == CHOOSE a \in ops : \A b \in ops : op[a].poll.generation >= op[b].poll.generation

AppliedReads == {i \in InventoryOps : inventories[i].read # None}

\* Whatever the order in which polls complete, with recoveries in between: a host is present
\* when the newest poll that could tell, one that saw it or a complete one, saw it, and the
\* evidence of the source and of every present host is that of the newest poll applied.
PresenceFollowsPolls ==
    LET Read(i) == inventories[i].read
        Telling(h) == {i \in AppliedReads : h \in Read(i).hosts \/ Read(i).outcome = "current"}
        Latest == Read(Newest(AppliedReads, inventories)).outcome
    IN  /\ AppliedReads # {} => sourceEvidence = Latest
        /\ \A h \in Hosts :
              /\ resources[h] = None <=> \A i \in AppliedReads : h \notin Read(i).hosts
              /\ resources[h] # None =>
                    resources[h] = IF h \in Read(Newest(Telling(h), inventories)).hosts
                                   THEN [presence |-> "present", evidence |-> Latest]
                                   ELSE [presence |-> "removed", evidence |-> "current"]

AppliedSnapshots == {o \in ProblemOps : problemOps[o].applied}

\* A problem is active when the newest applied poll that says anything of it reports it and
\* does not report it recovered; a complete poll says of every problem it leaves out that it
\* is over, an incomplete one says nothing of those.  Its view is that of the newest report.
ActiveFollowsSnapshots ==
    LET Snap(o) == problemOps[o].snapshot
        Reporting(p) == {o \in AppliedSnapshots : p \in Reported(Snap(o))}
        Telling(p) == {o \in AppliedSnapshots :
                          Snap(o).complete \/ p \in Reported(Snap(o)) \cup Snap(o).recovered}
    IN  \A p \in Problems :
            /\ problems[p] = None <=> Reporting(p) = {}
            /\ problems[p] # None =>
                  LET newest == Snap(Newest(Telling(p), problemOps))
                  IN  /\ IsActive(p) <=> p \in Reported(newest) \ newest.recovered
                      /\ problems[p].view = Snap(Newest(Reporting(p), problemOps)).active[p]

\* Work that was claimed under an admission a crash took is never applied: neither what it
\* read of the hosts nor what it read of the problems.
LostAdmissionFences ==
    [][/\ \A i \in AppliedReads' \ AppliedReads : inventories[i].poll.epoch > revoked.host
       /\ \A o \in AppliedSnapshots' \ AppliedSnapshots : problemOps[o].poll.epoch > revoked.problem
      ]_healthVars

\* Current health that cites the snapshot of the newest poll is what the problems amount to
\* now: they do not change behind it until the next poll is claimed.
CurrentHealthMatchesProblems ==
    \A h \in Hosts :
        /\ health[h] # None
        /\ health[h].evidence = "current"
        /\ problemOps[health[h].cites].poll = problemPoll
        => health[h].class = ClassWhenCurrent(h)

\* The health projection's authorization, and the comment of 044, have current health rest
\* on a complete snapshot of an operation that succeeded.
CurrentHealthIsApplied ==
    \A h \in Hosts : health[h] # None /\ health[h].evidence = "current" =>
        problemOps[health[h].cites].state = "succeeded"
=============================================================================
