-------------------------- MODULE MonitoringProofs --------------------------
(***************************************************************************)
(* Proofs about the polls of a source, for any hosts, problems, metrics,   *)
(* operations and epochs.                                                  *)
(*                                                                         *)
(* Health.  What fences the work of a lost admission is that an admission, *)
(* when there is one, is for the current epoch, later than every epoch a   *)
(* crash took (AdmissionsAreFresh).  That a step applies a poll, and not   *)
(* merely ends it, is read off the operations, so their types are needed   *)
(* too.  Rows follow the newest poll as no two operations hold one poll,   *)
(* the operation that is applied holds the stream's, and no step gives an  *)
(* older operation a newer poll.  Current health is right as it cites an   *)
(* operation that has a snapshot: while that is the stream's poll no other *)
(* completion can be applied behind it.                                    *)
(*                                                                         *)
(* Metrics.  Polls of a stream take generations in the order they are      *)
(* claimed (ClaimedInOrder), none later than the stream's.  The poll that  *)
(* is applied holds the stream's, so it is later than every poll that      *)
(* succeeded, and what it accepts is later than what was accepted.         *)
(***************************************************************************)
EXTENDS HealthProjection, MetricPolls, SequenceTheorems, TLAPS

Polls == [epoch : Nat, generation : Nat]

Fresh(poll, admission, lost) ==
    /\ poll \in Polls
    /\ lost \in Nat
    /\ lost <= poll.epoch
    /\ admission # None => admission = poll.epoch /\ lost < admission

AdmissionsAreFresh ==
    /\ revoked \in [host : Nat, problem : Nat]
    /\ Fresh(hostPoll, hostAdmission, revoked.host)
    /\ Fresh(problemPoll, problemAdmission, revoked.problem)

-----------------------------------------------------------------------------
\* A recovery leaves a stream with a fresh admission.
LEMMA FreshAfterRecovery ==
  ASSUME NEW poll, NEW admission, NEW lost, NEW successor \in Nat,
         Fresh(poll, admission, lost), successor > poll.epoch
  PROVE  Fresh([poll EXCEPT !.epoch = successor], successor, lost)
  BY DEF Fresh, Polls

\* A claim takes the next generation of the epoch.
LEMMA FreshAfterClaim ==
  ASSUME NEW poll, NEW admission, NEW lost, Fresh(poll, admission, lost)
  PROVE  Fresh(NextPoll(poll), admission, lost)
  BY DEF Fresh, Polls, NextPoll

\* A crash takes the admission, and with it the epoch.
LEMMA FreshAfterCrash ==
  ASSUME NEW poll, NEW admission, NEW lost, Fresh(poll, admission, lost)
  PROVE  Fresh(poll, None, Lost(admission, lost))
  BY DEF Fresh, Polls, Lost

\* Neither stream has an admission at first.
LEMMA InitFresh == HealthInit => AdmissionsAreFresh
  BY DEF HealthInit, InventoryInit, ProblemInit, AdmissionsAreFresh, Fresh, Polls

\* Every step keeps the admissions fresh.
LEMMA StepFresh == AdmissionsAreFresh /\ [HealthNext]_healthVars => AdmissionsAreFresh'
<1> SUFFICES ASSUME AdmissionsAreFresh, [HealthNext]_healthVars PROVE AdmissionsAreFresh'
  OBVIOUS
<1>0. CASE UNCHANGED <<hostPoll, hostAdmission, problemPoll, problemAdmission, revoked>>
  BY <1>0 DEF AdmissionsAreFresh
<1>1. CASE InventoryStep /\ UNCHANGED <<problemVars, health, revoked>>
  <2>1. ASSUME NEW i \in InventoryOps, ClaimInventory(i) PROVE AdmissionsAreFresh'
    BY <1>1, <2>1, FreshAfterClaim DEF ClaimInventory, AdmissionsAreFresh, problemVars
  <2>2. ASSUME NEW e \in HostEpochs, RecoverInventory(e) PROVE AdmissionsAreFresh'
    <3>1. e \in Nat
      BY HostEpochsAssumption
    <3> QED  BY <1>1, <2>2, <3>1, FreshAfterRecovery DEF RecoverInventory, AdmissionsAreFresh, problemVars
  <2>3. CASE UNCHANGED <<hostPoll, hostAdmission>>
    BY <1>0, <1>1, <2>3 DEF problemVars
  <2> QED
    BY <1>1, <2>1, <2>2, <2>3 DEF InventoryStep, ClaimValidation, CompleteValidation,
       EnqueueInventory, RetireInventory, ApplyInventory
<1>2. CASE ProblemStep /\ UNCHANGED <<inventoryVars, health, revoked>>
  <2>1. ASSUME NEW o \in ProblemOps, ClaimProblem(o) PROVE AdmissionsAreFresh'
    BY <1>2, <2>1, FreshAfterClaim DEF ClaimProblem, AdmissionsAreFresh, inventoryVars
  <2>2. ASSUME NEW e \in ProblemEpochs, RecoverProblem(e) PROVE AdmissionsAreFresh'
    <3>1. e \in Nat /\ e > problemPoll.epoch
      BY <2>2, ProblemEpochsAssumption DEF RecoverProblem, Successor
    <3> QED  BY <1>2, <2>2, <3>1, FreshAfterRecovery DEF RecoverProblem, AdmissionsAreFresh, inventoryVars
  <2>3. CASE UNCHANGED <<problemPoll, problemAdmission>>
    BY <1>0, <1>2, <2>3 DEF inventoryVars
  <2> QED
    BY <1>2, <2>1, <2>2, <2>3 DEF ProblemStep, EnqueueProblem, CheckAuthority, ApplyProblem,
       RetireProblem, AbortProblem
<1>3. ASSUME NEW h \in Hosts, RecomputeHealth(h) PROVE AdmissionsAreFresh'
  BY <1>0, <1>3 DEF RecomputeHealth, inventoryVars, problemVars
<1>4. CASE Crash
  <2>1. Lost(hostAdmission, revoked.host) \in Nat /\ Lost(problemAdmission, revoked.problem) \in Nat
    BY DEF Lost, AdmissionsAreFresh, Fresh, Polls
  <2> QED  BY <1>4, <2>1, FreshAfterCrash DEF Crash, AdmissionsAreFresh
<1>5. CASE UNCHANGED healthVars
  BY <1>0, <1>5 DEF healthVars, inventoryVars, problemVars
<1> QED  BY <1>1, <1>2, <1>3, <1>4, <1>5 DEF HealthNext

-----------------------------------------------------------------------------
(* The operations *)

States == {"absent", "pending", "running", "succeeded", "reconciliation_required"}

InventoryRecords == [state : States, poll : Polls \cup {None}, read : HostReads \cup {None}]

ProblemRecords == [state : States, poll : Polls \cup {None}, snapshot : Snapshots \cup {None},
                applied : BOOLEAN]

OpsTyped ==
    /\ inventories \in [InventoryOps -> InventoryRecords]
    /\ problemOps \in [ProblemOps -> ProblemRecords]
    /\ completing \in [ProblemOps -> Snapshots \cup {None}]

\* Updates of an operation stay within its type: a claim and the application of an inventory
\* operation, and a claim, a retirement and the application of a problem operation.
LEMMA InventoryUpdates ==
  ASSUME NEW f \in [InventoryOps -> InventoryRecords], NEW i \in InventoryOps, NEW s \in States,
         NEW p \in Polls \cup {None}, NEW r \in HostReads \cup {None}
  PROVE  /\ [f EXCEPT ![i].state = s, ![i].poll = p] \in [InventoryOps -> InventoryRecords]
         /\ [f EXCEPT ![i].state = s, ![i].read = r] \in [InventoryOps -> InventoryRecords]
  BY DEF InventoryRecords

LEMMA ProblemUpdates ==
  ASSUME NEW f \in [ProblemOps -> ProblemRecords], NEW o \in ProblemOps, NEW s \in States,
         NEW p \in Polls \cup {None}, NEW r \in Snapshots \cup {None}
  PROVE  /\ [f EXCEPT ![o].state = s, ![o].poll = p] \in [ProblemOps -> ProblemRecords]
         /\ [f EXCEPT ![o].state = s, ![o].snapshot = r] \in [ProblemOps -> ProblemRecords]
         /\ [f EXCEPT ![o].state = s, ![o].snapshot = r, ![o].applied = TRUE]
               \in [ProblemOps -> ProblemRecords]
  BY DEF ProblemRecords

\* Operations and completions have their types at first.
LEMMA InitTyped == HealthInit => OpsTyped
  BY DEF HealthInit, InventoryInit, ProblemInit, OpsTyped, InventoryRecords, ProblemRecords,
         Unasked, UnaskedProblems, States

\* The steps of the inventory keep the types of its operations.
LEMMA InventoryTyped ==
  ASSUME OpsTyped, AdmissionsAreFresh, InventoryStep, UNCHANGED problemVars
  PROVE  OpsTyped'
<1> USE DEF OpsTyped
<1>0. problemOps' = problemOps /\ completing' = completing
  BY DEF problemVars
<1>1. ASSUME NEW i \in InventoryOps, EnqueueInventory(i) PROVE OpsTyped'
  BY <1>0, <1>1 DEF EnqueueInventory, InventoryRecords, States
<1>2. ASSUME NEW i \in InventoryOps, ClaimInventory(i) PROVE OpsTyped'
  <2>1. hostPoll' \in Polls
    BY <1>2 DEF ClaimInventory, NextPoll, AdmissionsAreFresh, Fresh, Polls
  <2>2. inventories' = [inventories EXCEPT ![i].state = "running", ![i].poll = hostPoll']
    BY <1>2 DEF ClaimInventory
  <2>3. inventories' \in [InventoryOps -> InventoryRecords]
    BY <2>1, <2>2, InventoryUpdates DEF States
  <2> QED  BY <1>0, <2>3
<1>3. ASSUME NEW i \in InventoryOps, RetireInventory(i) PROVE OpsTyped'
  BY <1>0, <1>3 DEF RetireInventory, InventoryRecords, States
<1>4. ASSUME NEW i \in InventoryOps, NEW read \in HostReads, ApplyInventory(i, read) PROVE OpsTyped'
  <2>1. PICK state \in States : inventories' = [inventories EXCEPT ![i].state = state, ![i].read = read]
    BY <1>4 DEF ApplyInventory, Settled, States
  <2>2. inventories' \in [InventoryOps -> InventoryRecords]
    BY <2>1, InventoryUpdates
  <2> QED  BY <1>0, <2>2
<1>5. CASE UNCHANGED inventories
  BY <1>0, <1>5
<1> QED
  BY <1>1, <1>2, <1>3, <1>4, <1>5
  DEF InventoryStep, ClaimValidation, CompleteValidation, RecoverInventory

\* The steps of the problem polls keep the types of theirs.
LEMMA ProblemTyped ==
  ASSUME OpsTyped, AdmissionsAreFresh, ProblemStep, UNCHANGED inventoryVars
  PROVE  OpsTyped'
<1> USE DEF OpsTyped
<1>0. inventories' = inventories
  BY DEF inventoryVars
<1>1. ASSUME NEW o \in ProblemOps, EnqueueProblem(o) PROVE OpsTyped'
  BY <1>0, <1>1 DEF EnqueueProblem, ProblemRecords, States
<1>2. ASSUME NEW o \in ProblemOps, ClaimProblem(o) PROVE OpsTyped'
  <2>1. problemPoll' \in Polls
    BY <1>2 DEF ClaimProblem, NextPoll, AdmissionsAreFresh, Fresh, Polls
  <2>2. problemOps' = [problemOps EXCEPT ![o].state = "running", ![o].poll = problemPoll']
    BY <1>2 DEF ClaimProblem
  <2>3. problemOps' \in [ProblemOps -> ProblemRecords]
    BY <2>1, <2>2, ProblemUpdates DEF States
  <2> QED  BY <1>0, <1>2, <2>3 DEF ClaimProblem
<1>3. ASSUME NEW o \in ProblemOps, NEW snapshot \in Snapshots, CheckAuthority(o, snapshot)
      PROVE  OpsTyped'
  BY <1>0, <1>3 DEF CheckAuthority
<1>4. ASSUME NEW o \in ProblemOps, ApplyProblem(o) PROVE OpsTyped'
  <2>1. PICK state \in States : problemOps' = [problemOps EXCEPT
          ![o].state = state, ![o].snapshot = completing[o], ![o].applied = TRUE]
    BY <1>4 DEF ApplyProblem, States
  <2>2. problemOps' \in [ProblemOps -> ProblemRecords]
    BY <2>1, ProblemUpdates
  <2> QED  BY <1>0, <1>4, <2>2 DEF ApplyProblem
<1>5. ASSUME NEW o \in ProblemOps, RetireProblem(o) PROVE OpsTyped'
  <2>1. problemOps' = [problemOps EXCEPT
          ![o].state = "reconciliation_required", ![o].snapshot = completing[o]]
    BY <1>5 DEF RetireProblem
  <2>2. problemOps' \in [ProblemOps -> ProblemRecords]
    BY <2>1, ProblemUpdates DEF States
  <2> QED  BY <1>0, <1>5, <2>2 DEF RetireProblem
<1>6. ASSUME NEW o \in ProblemOps, AbortProblem(o) PROVE OpsTyped'
  BY <1>0, <1>6 DEF AbortProblem
<1>7. ASSUME NEW e \in ProblemEpochs, RecoverProblem(e) PROVE OpsTyped'
  BY <1>0, <1>7 DEF RecoverProblem, ProblemRecords, States
<1> QED  BY <1>1, <1>2, <1>3, <1>4, <1>5, <1>6, <1>7 DEF ProblemStep

\* Every step keeps the types.
LEMMA StepTyped == OpsTyped /\ AdmissionsAreFresh /\ [HealthNext]_healthVars => OpsTyped'
<1> SUFFICES ASSUME OpsTyped, AdmissionsAreFresh, [HealthNext]_healthVars PROVE OpsTyped'
  OBVIOUS
<1>1. CASE Crash
  BY <1>1 DEF Crash, OpsTyped
<1>2. CASE UNCHANGED <<inventories, problemOps, completing>>
  BY <1>2 DEF OpsTyped
<1> QED
  BY <1>1, <1>2, InventoryTyped, ProblemTyped
  DEF HealthNext, RecomputeHealth, healthVars, inventoryVars, problemVars

-----------------------------------------------------------------------------
(* The work of a lost admission *)

\* An inventory operation a step applies has the epoch of a fresh admission.
LEMMA ReadsFenced ==
  ASSUME OpsTyped, AdmissionsAreFresh, HealthNext, NEW i \in AppliedReads' \ AppliedReads
  PROVE  inventories[i].poll.epoch > revoked.host
<1>1. PICK j \in InventoryOps, read \in HostReads : ApplyInventory(j, read)
  <2>1. i \in InventoryOps /\ inventories[i].read = None /\ inventories'[i].read # None
    BY DEF AppliedReads
  <2>2. \A j \in InventoryOps :
          EnqueueInventory(j) \/ ClaimInventory(j) \/ RetireInventory(j) =>
              inventories'[i].read = inventories[i].read
    BY <2>1 DEF EnqueueInventory, ClaimInventory, RetireInventory, OpsTyped, InventoryRecords
  <2> QED
    BY <2>1, <2>2 DEF HealthNext, InventoryStep, ClaimValidation, CompleteValidation,
       RecoverInventory, RecomputeHealth, Crash, inventoryVars
<1>2. i = j
  BY <1>1 DEF ApplyInventory, AppliedReads, OpsTyped, InventoryRecords
<1>3. hostAdmission = hostPoll.epoch /\ hostPoll.epoch \in Nat /\ inventories[i].poll = hostPoll
  BY <1>1, <1>2 DEF ApplyInventory, CurrentPoll, AdmissionsAreFresh, Fresh, Polls
<1> QED  BY <1>3, HostEpochsAssumption DEF AdmissionsAreFresh, Fresh

\* A problem operation a step applies has the epoch of a fresh admission.
LEMMA SnapshotsFenced ==
  ASSUME OpsTyped, AdmissionsAreFresh, HealthNext, NEW o \in AppliedSnapshots' \ AppliedSnapshots
  PROVE  problemOps[o].poll.epoch > revoked.problem
<1>1. PICK q \in ProblemOps : ApplyProblem(q)
  <2>1. o \in ProblemOps /\ ~ problemOps[o].applied /\ problemOps'[o].applied
    BY DEF AppliedSnapshots
  <2>2. \A q \in ProblemOps :
          EnqueueProblem(q) \/ ClaimProblem(q) \/ RetireProblem(q) =>
              problemOps'[o].applied = problemOps[o].applied
    BY <2>1 DEF EnqueueProblem, ClaimProblem, RetireProblem, OpsTyped, ProblemRecords
  <2>3. \A e \in ProblemEpochs : RecoverProblem(e) => problemOps'[o].applied = problemOps[o].applied
    BY <2>1 DEF RecoverProblem, OpsTyped, ProblemRecords
  <2> QED
    BY <2>1, <2>2, <2>3 DEF HealthNext, ProblemStep, CheckAuthority, AbortProblem,
       RecomputeHealth, Crash, problemVars
<1>2. o = q
  BY <1>1 DEF ApplyProblem, AppliedSnapshots, OpsTyped, ProblemRecords
<1>3. /\ problemAdmission = problemPoll.epoch /\ problemPoll.epoch \in Nat
      /\ problemOps[o].poll = problemPoll
  BY <1>1, <1>2 DEF ApplyProblem, HasAuthority, AdmissionsAreFresh, Fresh, Polls
<1> QED  BY <1>3, HostEpochsAssumption DEF AdmissionsAreFresh, Fresh

\* Work claimed under an admission that a crash took is never applied, whatever recovery
\* does: complete_zabbix_host_inventory and complete_zabbix_problem_state compare epochs.
THEOREM LostAdmissionIsFenced == HealthSpec => LostAdmissionFences
<1> DEFINE Inv == OpsTyped /\ AdmissionsAreFresh
           Fenced == /\ \A i \in AppliedReads' \ AppliedReads :
                           inventories[i].poll.epoch > revoked.host
                     /\ \A o \in AppliedSnapshots' \ AppliedSnapshots :
                           problemOps[o].poll.epoch > revoked.problem
<1>1. HealthInit => Inv
  BY InitTyped, InitFresh
<1>2. Inv /\ [HealthNext]_healthVars => Inv'
  BY StepTyped, StepFresh
<1>3. Inv /\ [HealthNext]_healthVars => [Fenced]_healthVars
  BY ReadsFenced, SnapshotsFenced
<1> QED  BY <1>1, <1>2, <1>3, PTL DEF HealthSpec, LostAdmissionFences

-----------------------------------------------------------------------------
(* The polls of the metrics *)

PollStates == {"running", "succeeded", "reconciliation_required"}

MetricPollRecords ==
    [stream : Streams, state : PollStates, epoch : Nat, generation : Nat,
     items : ItemReads \cup {None}, targets : (SUBSET Metrics) \cup {None}]

MetricsTyped ==
    /\ streams \in [Streams -> [epoch : Nat, generation : Nat, admitted : BOOLEAN]]
    /\ metricPolls \in Seq(MetricPollRecords)

\* The polls of a stream have generations in the order they were claimed.
ClaimedInOrder ==
    \A p, q \in PollIds :
        p < q /\ metricPolls[p].stream = metricPolls[q].stream =>
            metricPolls[p].generation < metricPolls[q].generation

\* The stream counts up to the last of them.
CountedByStream ==
    \A p \in PollIds : metricPolls[p].generation <= streams[metricPolls[p].stream].generation

\* What was accepted was accepted by a poll of the values that succeeded.
AcceptedByPolls ==
    \A a \in acceptances :
        /\ a.poll \in PollIds
        /\ metricPolls[a.poll].stream = "values"
        /\ metricPolls[a.poll].state = "succeeded"

\* The current value of m is the one accepted last.
LastIsCurrent(m) ==
    LET mine == {a \in acceptances : a.metric = m}
    IN  IF mine = {} THEN currentValues[m] = None
        ELSE /\ currentValues[m] \in mine
             /\ \A a \in mine \ {currentValues[m]} :
                   metricPolls[a.poll].generation < metricPolls[currentValues[m].poll].generation

MetricInvariant ==
    /\ MetricsTyped /\ ClaimedInOrder /\ CountedByStream /\ AcceptedByPolls /\ OneValuePoll
    /\ \A m \in Metrics : LastIsCurrent(m)

\* No poll was claimed and nothing was accepted at first.
LEMMA MetricsStartRight == MetricInit => MetricInvariant
  BY DEF MetricInit, MetricInvariant, MetricsTyped, ClaimedInOrder, CountedByStream,
     AcceptedByPolls, OneValuePoll, LastIsCurrent, PollIds, InFlight, Streams

\* A step that only ends polls, and leaves what was accepted and the generations alone.
LEMMA EndingPollsIsQuiet ==
  ASSUME MetricInvariant, UNCHANGED <<acceptances, currentValues>>,
         MetricsTyped', OneValuePoll', Len(metricPolls') = Len(metricPolls),
         \A s \in Streams : streams'[s].generation = streams[s].generation,
         \A p \in PollIds : /\ metricPolls'[p].stream = metricPolls[p].stream
                            /\ metricPolls'[p].generation = metricPolls[p].generation
                            /\ metricPolls[p].state = "succeeded" => metricPolls'[p].state = "succeeded"
  PROVE  MetricInvariant'
<1>1. PollIds' = PollIds
  BY LenProperties DEF MetricInvariant, MetricsTyped, PollIds
<1>2. ClaimedInOrder'
  BY <1>1 DEF MetricInvariant, ClaimedInOrder
<1>3. CountedByStream'
  <2>1. \A p \in PollIds : metricPolls[p] \in MetricPollRecords
    BY ElementOfSeq, LenProperties DEF MetricInvariant, MetricsTyped, PollIds
  <2> QED  BY <1>1, <2>1 DEF MetricInvariant, CountedByStream, MetricPollRecords
<1>4. AcceptedByPolls'
  BY <1>1 DEF MetricInvariant, AcceptedByPolls
<1>5. \A m \in Metrics : LastIsCurrent(m)'
  BY DEF MetricInvariant, AcceptedByPolls, LastIsCurrent
<1> QED  BY <1>2, <1>3, <1>4, <1>5 DEF MetricInvariant

\* Ending polls keeps everything else about them.
LEMMA ReconciledKeeps ==
  ASSUME MetricsTyped, NEW ended
  PROVE  /\ Reconciled(ended) \in Seq(MetricPollRecords)
         /\ Len(Reconciled(ended)) = Len(metricPolls)
         /\ DOMAIN Reconciled(ended) = PollIds
         /\ \A p \in PollIds :
               /\ Reconciled(ended)[p].stream = metricPolls[p].stream
               /\ Reconciled(ended)[p].epoch = metricPolls[p].epoch
               /\ Reconciled(ended)[p].generation = metricPolls[p].generation
               /\ Reconciled(ended)[p].state =
                     IF p \in ended THEN "reconciliation_required" ELSE metricPolls[p].state
<1>1. PollIds = 1 .. Len(metricPolls) /\ Len(metricPolls) \in Nat
  BY LenProperties DEF MetricsTyped, PollIds
<1>2. ASSUME NEW p \in PollIds
      PROVE  /\ metricPolls[p] \in MetricPollRecords
             /\ [metricPolls[p] EXCEPT !.state = "reconciliation_required", !.targets = None]
                   \in MetricPollRecords
  <2>1. metricPolls[p] \in MetricPollRecords
    BY <1>1, ElementOfSeq DEF MetricsTyped
  <2> QED  BY <2>1 DEF MetricPollRecords, PollStates
<1>3. Reconciled(ended) \in [1 .. Len(metricPolls) -> MetricPollRecords]
  BY <1>1, <1>2 DEF Reconciled
<1>4. /\ Reconciled(ended) \in Seq(MetricPollRecords)
      /\ Len(Reconciled(ended)) = Len(metricPolls)
      /\ DOMAIN Reconciled(ended) = PollIds
  <2>1. Reconciled(ended) \in Seq(MetricPollRecords)
    BY <1>1, <1>3, SeqDef
  <2> QED  BY <1>1, <1>3, <2>1, LenProperties
<1>5. ASSUME NEW p \in PollIds
      PROVE  /\ Reconciled(ended)[p].stream = metricPolls[p].stream
             /\ Reconciled(ended)[p].epoch = metricPolls[p].epoch
             /\ Reconciled(ended)[p].generation = metricPolls[p].generation
             /\ Reconciled(ended)[p].state =
                   IF p \in ended THEN "reconciliation_required" ELSE metricPolls[p].state
  BY <1>2 DEF Reconciled, MetricPollRecords
<1> QED  BY <1>4, <1>5

\* Whatever ends polls that run keeps the invariant.
LEMMA EndingIsSafe ==
  ASSUME MetricInvariant, NEW ended, metricPolls' = Reconciled(ended),
         \A p \in ended : p \in PollIds /\ metricPolls[p].state = "running",
         UNCHANGED <<streams, acceptances, currentValues>>
  PROVE  MetricInvariant'
<1>1. MetricsTyped
  BY DEF MetricInvariant
<1>2. MetricsTyped'
  BY <1>1, ReconciledKeeps DEF MetricsTyped
<1>3. PollIds' = PollIds /\ InFlight("values")' \subseteq InFlight("values")
  BY <1>1, ReconciledKeeps DEF InFlight, PollIds
<1>4. OneValuePoll'
  BY <1>1, <1>3, ReconciledKeeps DEF OneValuePoll, MetricInvariant, InFlight
<1> QED  BY <1>1, <1>2, <1>4, ReconciledKeeps, EndingPollsIsQuiet

\* A claim of a stream: it takes the next generation, and of the values it is alone.
LEMMA ClaimIsSafe ==
  ASSUME MetricInvariant, NEW s \in Streams, ClaimPoll(s)
  PROVE  MetricInvariant'
<1> DEFINE kept == Reconciled(Superseded(s))
           claimed == [stream |-> s, state |-> "running", epoch |-> streams[s].epoch,
                       generation |-> streams[s].generation + 1, items |-> None,
                       targets |-> IF s = "values" THEN Targets ELSE None]
           last == Len(metricPolls) + 1
<1>1. /\ MetricsTyped
      /\ metricPolls' = Append(kept, claimed)
      /\ streams' = [streams EXCEPT ![s].generation = streams[s].generation + 1]
      /\ UNCHANGED <<acceptances, currentValues>>
  BY DEF ClaimPoll, MetricInvariant
<1>2. claimed \in MetricPollRecords
  BY <1>1 DEF MetricsTyped, MetricPollRecords, PollStates, Targets
<1>3. /\ PollIds = 1 .. Len(metricPolls) /\ Len(metricPolls) \in Nat
      /\ \A p \in PollIds : metricPolls[p] \in MetricPollRecords
  BY <1>1, LenProperties, ElementOfSeq DEF MetricsTyped, PollIds
<1>4. /\ metricPolls' \in Seq(MetricPollRecords)
      /\ PollIds' = PollIds \cup {last}
      /\ metricPolls'[last] = claimed
      /\ \A p \in PollIds : metricPolls'[p] = kept[p]
  <2>1. kept \in Seq(MetricPollRecords) /\ Len(kept) = Len(metricPolls)
    BY <1>1, ReconciledKeeps
  <2> HIDE DEF kept, claimed
  <2>2. /\ Append(kept, claimed) \in Seq(MetricPollRecords)
        /\ Len(Append(kept, claimed)) = last
        /\ \A i \in 1 .. Len(kept) : Append(kept, claimed)[i] = kept[i]
        /\ Append(kept, claimed)[last] = claimed
    BY <1>2, <2>1, AppendProperties
  <2>3. PollIds' = 1 .. last
    BY <1>1, <2>2, LenProperties DEF PollIds
  <2> QED  BY <1>1, <1>3, <2>1, <2>2, <2>3
<1>5. \A p \in PollIds :
        /\ kept[p].stream = metricPolls[p].stream
        /\ kept[p].epoch = metricPolls[p].epoch
        /\ kept[p].generation = metricPolls[p].generation
        /\ kept[p].state = IF p \in Superseded(s) THEN "reconciliation_required"
                           ELSE metricPolls[p].state
  BY <1>1, ReconciledKeeps
<1>6. /\ claimed.stream = s /\ claimed.state = "running" /\ claimed.epoch = streams[s].epoch
      /\ claimed.generation = streams[s].generation + 1
  OBVIOUS
<1>7. \A p \in PollIds : metricPolls[p].state = "succeeded" => kept[p].state = "succeeded"
  BY <1>5 DEF Superseded, InFlight
<1>8. /\ streams' \in [Streams -> [epoch : Nat, generation : Nat, admitted : BOOLEAN]]
      /\ streams'[s].generation = streams[s].generation + 1
      /\ streams'[s].epoch = streams[s].epoch
      /\ \A o \in Streams \ {s} : streams'[o] = streams[o]
      /\ \A o \in Streams : /\ streams[o].generation \in Nat
                            /\ streams'[o].generation \in Nat
                            /\ streams[o].generation <= streams'[o].generation
  BY <1>1 DEF MetricsTyped
<1> HIDE DEF kept, claimed
<1>9. ClaimedInOrder'
  <2> SUFFICES ASSUME NEW p \in PollIds', NEW q \in PollIds', p < q,
                      metricPolls'[p].stream = metricPolls'[q].stream
               PROVE  metricPolls'[p].generation < metricPolls'[q].generation
    BY DEF ClaimedInOrder
  <2>1. p \in PollIds
    BY <1>3, <1>4
  <2>2. CASE q \in PollIds
    BY <1>4, <1>5, <2>1, <2>2 DEF MetricInvariant, ClaimedInOrder
  <2>3. CASE q = last
    <3>1. metricPolls[p].stream = s /\ metricPolls'[p].generation = metricPolls[p].generation
      BY <1>4, <1>5, <1>6, <2>1, <2>3
    <3>2. metricPolls[p].generation <= streams[s].generation /\ metricPolls[p].generation \in Nat
      BY <1>3, <2>1, <3>1 DEF MetricInvariant, CountedByStream, MetricPollRecords
    <3> QED  BY <1>4, <1>6, <1>8, <2>3, <3>1, <3>2
  <2> QED  BY <1>4, <2>2, <2>3
<1>10. CountedByStream'
  <2> SUFFICES ASSUME NEW p \in PollIds'
               PROVE  metricPolls'[p].generation <= streams'[metricPolls'[p].stream].generation
    BY DEF CountedByStream
  <2>1. CASE p \in PollIds
    <3>1. /\ metricPolls[p].generation <= streams[metricPolls[p].stream].generation
          /\ metricPolls[p].generation \in Nat /\ metricPolls[p].stream \in Streams
      BY <1>3, <2>1 DEF MetricInvariant, CountedByStream, MetricPollRecords
    <3> QED  BY <1>4, <1>5, <1>8, <2>1, <3>1
  <2>2. CASE p = last
    BY <1>4, <1>6, <1>8, <2>2
  <2> QED  BY <1>4, <2>1, <2>2
<1>11. AcceptedByPolls'
  <2> SUFFICES ASSUME NEW a \in acceptances
               PROVE  /\ a.poll \in PollIds'
                      /\ metricPolls'[a.poll].stream = "values"
                      /\ metricPolls'[a.poll].state = "succeeded"
    BY <1>1 DEF AcceptedByPolls
  <2>1. /\ a.poll \in PollIds
        /\ metricPolls[a.poll].stream = "values" /\ metricPolls[a.poll].state = "succeeded"
    BY DEF MetricInvariant, AcceptedByPolls
  <2> QED  BY <1>4, <1>5, <1>7, <2>1
<1>12. OneValuePoll'
  <2>1. CASE s = "values"
    <3>1. InFlight("values")' = {last}
      <4>1. \A p \in InFlight("values") : p \in Superseded(s)
        BY <2>1 DEF MetricInvariant, OneValuePoll, Superseded
      <4>2. last \notin PollIds
        BY <1>3
      <4> QED  BY <1>4, <1>5, <1>6, <2>1, <4>1, <4>2 DEF InFlight
    <3> QED  BY <1>4, <1>6, <1>8, <2>1, <3>1 DEF OneValuePoll
  <2>2. CASE s # "values"
    <3>1. InFlight("values")' = InFlight("values")
      BY <1>3, <1>4, <1>5, <1>6, <2>2 DEF InFlight, Superseded
    <3> QED  BY <1>4, <1>5, <1>8, <2>2, <3>1 DEF MetricInvariant, OneValuePoll, InFlight, Streams
  <2> QED  BY <2>1, <2>2
<1>13. \A m \in Metrics : LastIsCurrent(m)'
  <2>1. /\ acceptances' = acceptances /\ currentValues' = currentValues
        /\ \A a \in acceptances :
              metricPolls'[a.poll].generation = metricPolls[a.poll].generation
    BY <1>1, <1>4, <1>5 DEF MetricInvariant, AcceptedByPolls
  <2> QED  BY <2>1 DEF MetricInvariant, LastIsCurrent
<1> QED  BY <1>4, <1>8, <1>9, <1>10, <1>11, <1>12, <1>13 DEF MetricInvariant, MetricsTyped

\* Recovery ends the polls of the values that run, and moves the epoch only.
LEMMA RecoveryIsSafe ==
  ASSUME MetricInvariant, NEW s \in Streams, NEW successor \in MetricEpochs,
         RecoverStream(s, successor)
  PROVE  MetricInvariant'
<1>1. /\ MetricsTyped
      /\ metricPolls' = Reconciled(Superseded(s))
      /\ streams' = [streams EXCEPT ![s].epoch = successor, ![s].admitted = TRUE]
      /\ UNCHANGED <<acceptances, currentValues>>
  BY DEF RecoverStream, MetricInvariant
<1>2. /\ MetricsTyped'
      /\ \A o \in Streams : streams'[o].generation = streams[o].generation
  <2>1. successor \in Nat
    BY MetricEpochsAssumption
  <2>2. /\ streams' \in [Streams -> [epoch : Nat, generation : Nat, admitted : BOOLEAN]]
        /\ \A o \in Streams : streams'[o].generation = streams[o].generation
    BY <1>1, <2>1 DEF MetricsTyped, Streams
  <2> QED  BY <1>1, <2>2, ReconciledKeeps DEF MetricsTyped
<1>3. OneValuePoll'
  <2>1. CASE s = "values"
    <3>1. \A p \in InFlight("values") : p \in Superseded(s)
      BY <2>1 DEF MetricInvariant, OneValuePoll, Superseded
    <3>2. InFlight("values")' = {}
      BY <1>1, <3>1, ReconciledKeeps DEF InFlight, PollIds
    <3> QED  BY <3>2 DEF OneValuePoll
  <2>2. CASE s # "values"
    <3>1. InFlight("values")' = InFlight("values") /\ streams'["values"] = streams["values"]
      BY <1>1, <2>2, ReconciledKeeps DEF InFlight, PollIds, Superseded, MetricsTyped, Streams
    <3>2. \A p \in InFlight("values") : /\ metricPolls'[p].generation = metricPolls[p].generation
                                        /\ metricPolls'[p].epoch = metricPolls[p].epoch
      BY <1>1, ReconciledKeeps DEF InFlight
    <3> QED  BY <3>1, <3>2 DEF MetricInvariant, OneValuePoll
  <2> QED  BY <2>1, <2>2
<1>4. /\ Len(metricPolls') = Len(metricPolls)
      /\ \A p \in PollIds : /\ metricPolls'[p].stream = metricPolls[p].stream
                            /\ metricPolls'[p].generation = metricPolls[p].generation
                            /\ metricPolls[p].state = "succeeded" => metricPolls'[p].state = "succeeded"
  BY <1>1, ReconciledKeeps DEF Superseded, InFlight
<1>5. UNCHANGED <<acceptances, currentValues>>
  BY <1>1
<1> QED  BY <1>2, <1>3, <1>4, <1>5, EndingPollsIsQuiet

LEMMA FunctionIsSeq ==
  ASSUME NEW S, NEW n \in Nat, NEW f \in [1 .. n -> S]
  PROVE  f \in Seq(S)
  BY SeqDef

LEMMA PollsTyped ==
  ASSUME MetricsTyped
  PROVE  /\ PollIds = 1 .. Len(metricPolls) /\ Len(metricPolls) \in Nat
         /\ \A p \in PollIds : p \in Nat /\ metricPolls[p] \in MetricPollRecords
<1>1. PollIds = 1 .. Len(metricPolls) /\ Len(metricPolls) \in Nat
  BY LenProperties DEF MetricsTyped, PollIds
<1>2. \A p \in 1 .. Len(metricPolls) : metricPolls[p] \in MetricPollRecords
  BY ElementOfSeq DEF MetricsTyped
<1> QED  BY <1>1, <1>2

\* The poll with the generation of its stream is later than every other of the stream.
LEMMA HolderIsLast ==
  ASSUME MetricInvariant, NEW p \in PollIds,
         metricPolls[p].generation = streams[metricPolls[p].stream].generation,
         NEW q \in PollIds \ {p}, metricPolls[q].stream = metricPolls[p].stream
  PROVE  metricPolls[q].generation < metricPolls[p].generation
<1>1. metricPolls[q].generation <= metricPolls[p].generation
  BY DEF MetricInvariant, CountedByStream
<1>2. /\ metricPolls[q].generation \in Nat /\ metricPolls[p].generation \in Nat
      /\ p \in Nat /\ q \in Nat
  BY PollsTyped DEF MetricInvariant, MetricPollRecords
<1>3. q < p \/ p < q
  BY <1>2
<1> QED  BY <1>1, <1>2, <1>3 DEF MetricInvariant, ClaimedInOrder

\* A poll that runs succeeds.
LEMMA SucceedingKeeps ==
  ASSUME MetricsTyped, NEW p \in PollIds, NEW items \in ItemReads \cup {None},
         NEW targets \in (SUBSET Metrics) \cup {None},
         metricPolls' = [metricPolls EXCEPT ![p].state = "succeeded", ![p].items = items,
                                            ![p].targets = targets]
  PROVE  /\ metricPolls' \in Seq(MetricPollRecords)
         /\ Len(metricPolls') = Len(metricPolls)
         /\ PollIds' = PollIds
         /\ \A q \in PollIds :
               /\ metricPolls'[q].stream = metricPolls[q].stream
               /\ metricPolls'[q].epoch = metricPolls[q].epoch
               /\ metricPolls'[q].generation = metricPolls[q].generation
               /\ metricPolls'[q].state = IF q = p THEN "succeeded" ELSE metricPolls[q].state
<1>1. PollIds = 1 .. Len(metricPolls) /\ Len(metricPolls) \in Nat
  BY PollsTyped
<1>2. \A q \in PollIds : metricPolls[q] \in MetricPollRecords
  BY PollsTyped
<1>3. ASSUME NEW q \in PollIds
      PROVE  /\ metricPolls'[q] \in MetricPollRecords
             /\ metricPolls'[q].stream = metricPolls[q].stream
             /\ metricPolls'[q].epoch = metricPolls[q].epoch
             /\ metricPolls'[q].generation = metricPolls[q].generation
             /\ metricPolls'[q].state = IF q = p THEN "succeeded" ELSE metricPolls[q].state
  BY <1>1, <1>2 DEF MetricPollRecords, PollStates, PollIds
<1>4. metricPolls' \in [1 .. Len(metricPolls) -> MetricPollRecords]
  BY <1>1, <1>3 DEF PollIds
<1>5. metricPolls' \in Seq(MetricPollRecords)
  BY <1>1, <1>4, FunctionIsSeq
<1>6. Len(metricPolls') = Len(metricPolls) /\ PollIds' = PollIds
  BY <1>1, <1>4, <1>5, LenProperties DEF PollIds
<1> QED  BY <1>3, <1>5, <1>6

\* A snapshot of the definitions that is applied touches no value.
LEMMA DefinitionsAreSafe ==
  ASSUME MetricInvariant, NEW p \in PollIds, NEW items \in ItemReads, ApplyDefinitions(p, items)
  PROVE  MetricInvariant'
<1>1. /\ MetricsTyped
      /\ metricPolls[p].stream = "definitions"
      /\ metricPolls' = [metricPolls EXCEPT ![p].state = "succeeded", ![p].items = items]
      /\ UNCHANGED <<streams, acceptances, currentValues>>
  BY DEF ApplyDefinitions, MetricInvariant, InFlight
<1>2. /\ metricPolls[p] \in MetricPollRecords
      /\ metricPolls[p].targets \in (SUBSET Metrics) \cup {None}
      /\ items \in ItemReads \cup {None}
  BY <1>1, PollsTyped DEF MetricPollRecords
<1>3. metricPolls' = [metricPolls EXCEPT ![p].state = "succeeded", ![p].items = items,
                                         ![p].targets = metricPolls[p].targets]
  BY <1>1, <1>2 DEF MetricPollRecords, PollIds
<1>4. /\ metricPolls' \in Seq(MetricPollRecords)
      /\ Len(metricPolls') = Len(metricPolls)
      /\ PollIds' = PollIds
      /\ \A q \in PollIds :
            /\ metricPolls'[q].stream = metricPolls[q].stream
            /\ metricPolls'[q].epoch = metricPolls[q].epoch
            /\ metricPolls'[q].generation = metricPolls[q].generation
            /\ metricPolls'[q].state = IF q = p THEN "succeeded" ELSE metricPolls[q].state
  BY <1>1, <1>2, <1>3, SucceedingKeeps
<1>5. MetricsTyped'
  BY <1>1, <1>4 DEF MetricsTyped
<1>6. InFlight("values")' = InFlight("values")
  BY <1>1, <1>4 DEF InFlight
<1>7. OneValuePoll'
  <2>1. \A q \in InFlight("values") : /\ metricPolls'[q].generation = metricPolls[q].generation
                                      /\ metricPolls'[q].epoch = metricPolls[q].epoch
    BY <1>4 DEF InFlight
  <2>2. streams' = streams
    BY <1>1
  <2> QED  BY <1>6, <2>1, <2>2 DEF MetricInvariant, OneValuePoll
<1> QED  BY <1>1, <1>4, <1>5, <1>7, EndingPollsIsQuiet

\* What a poll of the values accepts is later than all that was accepted before.
LEMMA ValuesAreSafe ==
  ASSUME MetricInvariant, NEW p \in PollIds, NEW read, AcceptValues(p, read)
  PROVE  MetricInvariant'
<1> DEFINE new == {[metric |-> m, sample |-> read[m], poll |-> p] : m \in NewlyRead(read)}
<1>1. /\ MetricsTyped
      /\ metricPolls[p].stream = "values" /\ metricPolls[p].state = "running"
      /\ metricPolls[p].generation = streams["values"].generation
      /\ metricPolls' = [metricPolls EXCEPT ![p].state = "succeeded", ![p].targets = None]
      /\ acceptances' = acceptances \cup new
      /\ UNCHANGED streams
  BY DEF AcceptValues, MetricInvariant, InFlight, HoldsPoll
<1>2. /\ metricPolls[p] \in MetricPollRecords
      /\ metricPolls[p].items \in ItemReads \cup {None}
  BY <1>1, PollsTyped DEF MetricPollRecords
<1>3. metricPolls' = [metricPolls EXCEPT ![p].state = "succeeded", ![p].items = metricPolls[p].items,
                                         ![p].targets = None]
  BY <1>1, <1>2 DEF MetricPollRecords, PollIds
<1>4. /\ metricPolls' \in Seq(MetricPollRecords)
      /\ PollIds' = PollIds
      /\ \A q \in PollIds :
            /\ metricPolls'[q].stream = metricPolls[q].stream
            /\ metricPolls'[q].epoch = metricPolls[q].epoch
            /\ metricPolls'[q].generation = metricPolls[q].generation
            /\ metricPolls'[q].state = IF q = p THEN "succeeded" ELSE metricPolls[q].state
  BY <1>1, <1>2, <1>3, SucceedingKeeps
<1> HIDE DEF new
<1>5. MetricsTyped' /\ ClaimedInOrder' /\ CountedByStream'
  <2>1. MetricsTyped'
    BY <1>1, <1>4 DEF MetricsTyped
  <2>2. ClaimedInOrder'
    BY <1>4 DEF MetricInvariant, ClaimedInOrder
  <2>3. CountedByStream'
    BY <1>1, <1>4 DEF MetricInvariant, CountedByStream
  <2> QED  BY <2>1, <2>2, <2>3
<1>6. OneValuePoll'
  <2>1. InFlight("values") = {p}
    BY <1>1 DEF MetricInvariant, OneValuePoll, InFlight
  <2>2. InFlight("values")' = {}
    BY <1>4, <2>1 DEF InFlight
  <2> QED  BY <2>2 DEF OneValuePoll
<1>7. \A a \in new : a.poll = p
  BY DEF new
<1>8. AcceptedByPolls'
  <2>1. \A a \in new : /\ a.poll \in PollIds'
                       /\ metricPolls'[a.poll].stream = "values"
                       /\ metricPolls'[a.poll].state = "succeeded"
    BY <1>1, <1>4, <1>7
  <2>2. \A a \in acceptances : /\ a.poll \in PollIds'
                               /\ metricPolls'[a.poll].stream = "values"
                               /\ metricPolls'[a.poll].state = "succeeded"
    BY <1>4 DEF MetricInvariant, AcceptedByPolls
  <2> QED  BY <1>1, <2>1, <2>2 DEF AcceptedByPolls
<1>9. \A q \in PollIds \ {p} :
        metricPolls[q].stream = "values" => metricPolls[q].generation < metricPolls[p].generation
  BY <1>1, HolderIsLast
<1>10. \A a \in acceptances : /\ metricPolls[a.poll].generation < metricPolls[p].generation
                              /\ metricPolls'[a.poll].generation = metricPolls[a.poll].generation
  BY <1>1, <1>4, <1>9 DEF MetricInvariant, AcceptedByPolls
<1>11. ASSUME NEW m \in Metrics PROVE LastIsCurrent(m)'
  <2>1. CASE m \in NewlyRead(read)
    <3> DEFINE it == [metric |-> m, sample |-> read[m], poll |-> p]
    <3>1. it \in new /\ it \in acceptances'
      BY <1>1, <2>1 DEF new
    <3>2. \A a \in acceptances' : a.metric = m => a = it \/ a \in acceptances
      BY <1>1 DEF new
    <3>3. \A a \in acceptances' : a.metric = m /\ a.sample = read[m] => a = it
      BY <2>1, <3>2 DEF NewlyRead, AcceptedAt
    <3>4. currentValues'[m] = CHOOSE a \in acceptances' : a.metric = m /\ a.sample = read[m]
      BY <2>1 DEF AcceptValues, Shown
    <3>5. currentValues'[m] = it
      BY <3>1, <3>3, <3>4
    <3>6. metricPolls'[it.poll].generation = metricPolls[p].generation
      BY <1>4
    <3> HIDE DEF it
    <3>7. it \in {a \in acceptances' : a.metric = m}
      BY <3>1 DEF it
    <3> QED  BY <1>10, <3>2, <3>5, <3>6, <3>7 DEF LastIsCurrent
  <2>2. CASE m \notin NewlyRead(read)
    <3>1. currentValues'[m] = currentValues[m]
      BY <2>2 DEF AcceptValues, Shown
    <3>2. {a \in acceptances' : a.metric = m} = {a \in acceptances : a.metric = m}
      BY <1>1, <2>2 DEF new
    <3> QED  BY <1>10, <3>1, <3>2 DEF MetricInvariant, LastIsCurrent
  <2> QED  BY <2>1, <2>2
<1> QED  BY <1>5, <1>6, <1>8, <1>11 DEF MetricInvariant

\* Every step keeps the invariant.
LEMMA MetricStepsAreSafe == MetricInvariant /\ [MetricNext]_metricVars => MetricInvariant'
<1> SUFFICES ASSUME MetricInvariant, [MetricNext]_metricVars PROVE MetricInvariant'
  OBVIOUS
<1>1. CASE UNCHANGED <<streams, metricPolls, acceptances, currentValues>>
  <2>1. PollIds' = PollIds /\ InFlight("values")' = InFlight("values")
    BY <1>1 DEF PollIds, InFlight
  <2>2. MetricsTyped' /\ OneValuePoll'
    BY <1>1, <2>1 DEF MetricInvariant, MetricsTyped, OneValuePoll
  <2> QED  BY <1>1, <2>2, EndingPollsIsQuiet
<1>2. ASSUME NEW s \in Streams, EnqueuePoll(s) PROVE MetricInvariant'
  BY <1>1, <1>2 DEF EnqueuePoll
<1>3. ASSUME NEW s \in Streams, ClaimPoll(s) PROVE MetricInvariant'
  BY <1>3, ClaimIsSafe
<1>4. ASSUME NEW p \in PollIds, FailPoll(p) PROVE MetricInvariant'
  BY <1>4, EndingIsSafe DEF FailPoll, InFlight
<1>5. ASSUME NEW p \in PollIds, NEW m \in Metrics, NEW item \in Items, MarkDrift(p, m, item)
      PROVE  MetricInvariant'
  BY <1>5, EndingIsSafe DEF MarkDrift, InFlight
<1>6. ASSUME NEW p \in PollIds, NEW items \in ItemReads, ApplyDefinitions(p, items)
      PROVE  MetricInvariant'
  BY <1>6, DefinitionsAreSafe
<1>7. ASSUME NEW p \in PollIds, NEW read, AcceptValues(p, read) PROVE MetricInvariant'
  BY <1>7, ValuesAreSafe
<1>8. ASSUME NEW s \in Streams, NEW successor \in MetricEpochs, RecoverStream(s, successor)
      PROVE  MetricInvariant'
  BY <1>8, RecoveryIsSafe
<1>9. CASE SourceMoves
  BY <1>1, <1>9 DEF SourceMoves
<1>10. CASE AdmissionsLost
  <2>1. /\ MetricsTyped'
        /\ \A s \in Streams : /\ streams'[s].generation = streams[s].generation
                               /\ streams'[s].epoch = streams[s].epoch
    BY <1>10 DEF AdmissionsLost, MetricInvariant, MetricsTyped
  <2>2. metricPolls' = metricPolls /\ UNCHANGED <<acceptances, currentValues>>
    BY <1>10 DEF AdmissionsLost
  <2>3. InFlight("values")' = InFlight("values")
    BY <2>2 DEF InFlight, PollIds
  <2>4. OneValuePoll'
    BY <2>1, <2>2, <2>3 DEF MetricInvariant, OneValuePoll, Streams
  <2> QED  BY <2>1, <2>2, <2>4, EndingPollsIsQuiet
<1>11. ASSUME NEW hosts \in SUBSET MonitoredHosts, ScopeMoves(hosts) PROVE MetricInvariant'
  BY <1>1, <1>11 DEF ScopeMoves
<1>12. CASE UNCHANGED metricVars
  BY <1>1, <1>12 DEF metricVars
<1> QED
  BY <1>2, <1>3, <1>4, <1>5, <1>6, <1>7, <1>8, <1>9, <1>10, <1>11, <1>12
     DEF MetricNext, CompletePoll

\* However the polls of a source overlap, and whatever recovery comes in between: the current
\* value of a metric has one writer at a time, and is the observation accepted last
\* (complete_zabbix_metric_current_state).
THEOREM OneWriterOfCurrent == MetricSpec => []CurrentHasOneWriter
<1>1. MetricInvariant => CurrentHasOneWriter
  BY DEF MetricInvariant, CurrentHasOneWriter, LastIsCurrent
<1> QED  BY <1>1, MetricsStartRight, MetricStepsAreSafe, PTL DEF MetricSpec

-----------------------------------------------------------------------------
(* The definitions of the metrics *)

\* Only a poll of the definitions that succeeded has a snapshot that was accepted.
SnapshotsWereApplied ==
    \A p \in PollIds :
        metricPolls[p].items # None =>
            metricPolls[p].stream = "definitions" /\ metricPolls[p].state = "succeeded"

\* What DefinitionsFollowPolls says of one metric
FollowsPolls(m) ==
    IF definitions[m] = None THEN Listing(m) = {}
    ELSE /\ \A p \in Listing(m) :
               /\ metricPolls[p].generation <= definitions[m].confirmed
               /\ metricPolls[p].items[m].shape = definitions[m].shape
         /\ \E p \in Listing(m) : metricPolls[p].generation = definitions[m].confirmed
         /\ definitions[m].active <=> definitions[m].retired = None
         /\ ~definitions[m].active =>
               /\ definitions[m].retired > definitions[m].confirmed
               /\ \E p \in PollIds \ Listing(m) :
                     /\ metricPolls[p].items # None
                     /\ metricPolls[p].generation = definitions[m].retired

DefinitionInvariant ==
    /\ definitions \in [Metrics -> DefinitionRecords \cup {None}]
    /\ SnapshotsWereApplied
    /\ \A m \in Metrics : FollowsPolls(m)

LEMMA DefinitionsStartRight == MetricInit => DefinitionInvariant
  BY DEF MetricInit, DefinitionInvariant, SnapshotsWereApplied, FollowsPolls, Listing, PollIds

\* The polls before a step, with what they listed, are there after it, and the new ones have
\* listed nothing.
ListingsKept ==
    /\ \A p \in PollIds : /\ p \in PollIds'
                          /\ metricPolls'[p].stream = metricPolls[p].stream
                          /\ metricPolls'[p].generation = metricPolls[p].generation
                          /\ metricPolls'[p].items = metricPolls[p].items
                          /\ metricPolls[p].state = "succeeded" => metricPolls'[p].state = "succeeded"
    /\ \A p \in PollIds' \ PollIds : metricPolls'[p].items = None

\* A step that accepts no snapshot, and changes no more of a definition than whether it is
\* trusted.
LEMMA KeepingListingsIsQuiet ==
  ASSUME DefinitionInvariant, ListingsKept,
         definitions' \in [Metrics -> DefinitionRecords \cup {None}],
         \A m \in Metrics : \/ definitions'[m] = definitions[m]
                           \/ /\ definitions[m] # None /\ definitions'[m] # None
                              /\ definitions'[m].shape = definitions[m].shape
                              /\ definitions'[m].active = definitions[m].active
                              /\ definitions'[m].confirmed = definitions[m].confirmed
                              /\ definitions'[m].retired = definitions[m].retired
  PROVE  DefinitionInvariant'
<1>1. SnapshotsWereApplied'
  BY DEF DefinitionInvariant, SnapshotsWereApplied, ListingsKept
<1>2. ASSUME NEW m \in Metrics PROVE FollowsPolls(m)'
  <2>1. Listing(m)' = Listing(m)
    BY DEF ListingsKept, Listing
  <2>2. FollowsPolls(m)
    BY DEF DefinitionInvariant
  <2>3. \A p \in PollIds : /\ p \in PollIds'
                          /\ metricPolls'[p].generation = metricPolls[p].generation
                          /\ metricPolls'[p].items = metricPolls[p].items
    BY DEF ListingsKept
  <2>4. \A p \in Listing(m) : p \in PollIds
    BY DEF Listing
  <2> QED  BY <2>1, <2>2, <2>3, <2>4 DEF FollowsPolls
<1> QED  BY <1>1, <1>2 DEF DefinitionInvariant

\* Ending polls takes no snapshot back: none of them had one.
LEMMA EndingKeepsListings ==
  ASSUME MetricsTyped, NEW ended, metricPolls' = Reconciled(ended),
         \A p \in ended : p \in PollIds /\ metricPolls[p].state = "running"
  PROVE  ListingsKept
<1>1. PollIds' = PollIds
  BY ReconciledKeeps DEF PollIds
<1>2. \A p \in PollIds : metricPolls'[p].items = metricPolls[p].items
  BY PollsTyped DEF Reconciled, MetricPollRecords
<1> QED  BY <1>1, <1>2, ReconciledKeeps DEF ListingsKept

\* A snapshot that is applied is the newest of those accepted.
LEMMA SnapshotIsFollowed ==
  ASSUME MetricInvariant, DefinitionInvariant,
         NEW p \in PollIds, NEW items \in ItemReads, ApplyDefinitions(p, items)
  PROVE  DefinitionInvariant'
<1> DEFINE G == metricPolls[p].generation
<1>1. /\ MetricsTyped
      /\ metricPolls[p].stream = "definitions" /\ metricPolls[p].state = "running"
      /\ G = streams["definitions"].generation
      /\ metricPolls' = [metricPolls EXCEPT ![p].state = "succeeded", ![p].items = items]
      /\ Sound(items)
      /\ \A m \in Metrics : definitions'[m] =
               IF m \in DOMAIN items THEN Confirmed(m, items[m], metricPolls[p])
               ELSE IF Missing(m)
                    THEN [definitions[m] EXCEPT !.active = FALSE, !.trusted = TRUE, !.retired = G]
                    ELSE definitions[m]
  BY DEF ApplyDefinitions, MetricInvariant, InFlight, HoldsPoll
<1>2. /\ \A q \in PollIds : metricPolls[q] \in MetricPollRecords
      /\ G \in Nat /\ metricPolls[p].items = None /\ items # None
  BY <1>1, PollsTyped, NoneAssumption DEF MetricPollRecords, DefinitionInvariant, SnapshotsWereApplied
<1>3. /\ PollIds' = PollIds
      /\ \A q \in PollIds :
            /\ metricPolls'[q].stream = metricPolls[q].stream
            /\ metricPolls'[q].generation = metricPolls[q].generation
            /\ metricPolls'[q].items = IF q = p THEN items ELSE metricPolls[q].items
            /\ metricPolls'[q].state = IF q = p THEN "succeeded" ELSE metricPolls[q].state
  BY <1>1, <1>2 DEF MetricPollRecords, PollIds
<1>4. SnapshotsWereApplied'
  BY <1>1, <1>3 DEF DefinitionInvariant, SnapshotsWereApplied
<1>5. DOMAIN items \subseteq Metrics /\ \A m \in DOMAIN items : items[m] \in Items
  BY DEF ItemReads
<1>6. \A q \in PollIds \ {p} :
        metricPolls[q].items # None => metricPolls[q].generation < G
  BY <1>1, HolderIsLast DEF DefinitionInvariant, SnapshotsWereApplied
<1>7. \A m \in Metrics : Listing(m)' = IF m \in DOMAIN items THEN Listing(m) \cup {p} ELSE Listing(m)
  BY <1>2, <1>3 DEF Listing
<1>8. \A m \in Metrics : \A q \in Listing(m) :
        /\ q \in PollIds /\ q # p /\ metricPolls[q].generation < G
        /\ metricPolls'[q].generation = metricPolls[q].generation
        /\ metricPolls'[q].items = metricPolls[q].items
  BY <1>2, <1>3, <1>6 DEF Listing
<1> HIDE DEF G
<1>9. ASSUME NEW m \in Metrics
      PROVE  /\ definitions'[m] \in DefinitionRecords \cup {None}
             /\ FollowsPolls(m)'
  <2>1. FollowsPolls(m) /\ definitions[m] \in DefinitionRecords \cup {None}
    BY DEF DefinitionInvariant
  <2>2. CASE m \in DOMAIN items
    <3>1. /\ definitions'[m] \in DefinitionRecords
          /\ definitions'[m] # None
          /\ definitions'[m].shape = items[m].shape
          /\ definitions'[m].active = TRUE
          /\ definitions'[m].confirmed = G
          /\ definitions'[m].retired = None
      <4>1. definitions'[m] = [shape |-> items[m].shape, active |-> TRUE, trusted |-> TRUE,
                               enabled |-> items[m].enabled, confirmed |-> G, retired |-> None]
        BY <1>1, <2>2 DEF Confirmed, G
      <4>2. /\ items[m].shape \in {item.shape : item \in Items}
            /\ items[m].enabled \in {item.enabled : item \in Items}
        BY <1>5, <2>2
      <4>3. definitions'[m] \in DefinitionRecords
        BY <1>2, <4>1, <4>2 DEF DefinitionRecords
      <4>4. definitions'[m] # None
        BY <4>3, NoneAssumption
      <4> QED  BY <4>1, <4>3, <4>4, Z3
    <3>2. \A q \in Listing(m) : metricPolls[q].items[m].shape = items[m].shape
      BY <1>1, <2>1, <2>2 DEF FollowsPolls, Sound, Drifted
    <3>3. /\ p \in Listing(m)' /\ metricPolls'[p].generation = G
          /\ metricPolls'[p].items[m].shape = items[m].shape
      BY <1>3, <1>7, <2>2 DEF G
    <3>4. \A q \in Listing(m) : /\ metricPolls'[q].generation <= G
                                /\ metricPolls'[q].items[m].shape = items[m].shape
      <4> SUFFICES ASSUME NEW q \in Listing(m)
                   PROVE  /\ metricPolls'[q].generation <= G
                          /\ metricPolls'[q].items[m].shape = items[m].shape
        OBVIOUS
      <4>1. metricPolls[q].generation \in Nat
        BY <1>2, <1>8 DEF MetricPollRecords
      <4> QED  BY <1>2, <1>8, <3>2, <4>1
    <3>5. \A q \in Listing(m)' : q = p \/ q \in Listing(m)
      BY <1>7, <2>2
    <3> QED  BY <1>2, <3>1, <3>3, <3>4, <3>5 DEF FollowsPolls
  <2>3. CASE m \notin DOMAIN items /\ Missing(m)
    <3>1. /\ definitions[m] \in DefinitionRecords /\ definitions[m] # None
      BY <2>1, <2>3 DEF Missing
    <3>2. /\ definitions'[m] \in DefinitionRecords
          /\ definitions'[m] # None
          /\ definitions'[m].shape = definitions[m].shape
          /\ definitions'[m].active = FALSE
          /\ definitions'[m].confirmed = definitions[m].confirmed
          /\ definitions'[m].retired = G
      <4>1. definitions'[m] = [definitions[m] EXCEPT !.active = FALSE, !.trusted = TRUE,
                                                     !.retired = G]
        BY <1>1, <2>3
      <4>2. definitions'[m] \in DefinitionRecords
        BY <1>2, <3>1, <4>1 DEF DefinitionRecords
      <4> QED  BY <3>1, <4>1, <4>2, NoneAssumption DEF DefinitionRecords
    <3>3. \E q \in Listing(m) : metricPolls[q].generation = definitions[m].confirmed
      BY <2>1, <3>1 DEF FollowsPolls
    <3>4. G > definitions[m].confirmed
      BY <1>2, <1>8, <3>1, <3>3 DEF DefinitionRecords, MetricPollRecords
    <3>5. /\ p \in PollIds' \ Listing(m)' /\ metricPolls'[p].items # None
          /\ metricPolls'[p].generation = G
      BY <1>2, <1>3, <1>7, <1>8, <2>3 DEF G
    <3>6. \A q \in Listing(m)' : /\ metricPolls'[q].generation <= definitions[m].confirmed
                                 /\ metricPolls'[q].items[m].shape = definitions[m].shape
      BY <1>7, <1>8, <2>1, <2>3, <3>1 DEF FollowsPolls
    <3>7. \E q \in Listing(m)' : metricPolls'[q].generation = definitions[m].confirmed
      BY <1>7, <1>8, <2>3, <3>3
    <3>8. G # None
      BY <1>2, NoneAssumption
    <3> QED  BY <3>2, <3>4, <3>5, <3>6, <3>7, <3>8 DEF FollowsPolls
  <2>4. CASE m \notin DOMAIN items /\ ~Missing(m)
    <3>1. definitions'[m] = definitions[m] /\ Listing(m)' = Listing(m)
      BY <1>1, <1>7, <2>4
    <3>2. \A q \in PollIds : metricPolls[q].items # None =>
             /\ q # p /\ metricPolls'[q].items # None
             /\ metricPolls'[q].generation = metricPolls[q].generation
      BY <1>2, <1>3
    <3> QED  BY <1>3, <1>8, <2>1, <3>1, <3>2 DEF FollowsPolls
  <2> QED  BY <2>2, <2>3, <2>4
<1>10. definitions' \in [Metrics -> DefinitionRecords \cup {None}]
  BY <1>9 DEF ApplyDefinitions
<1> QED  BY <1>4, <1>9, <1>10 DEF DefinitionInvariant

\* A claim adds a poll that has no snapshot.
LEMMA ClaimKeepsListings ==
  ASSUME MetricsTyped, NEW s \in Streams, ClaimPoll(s)
  PROVE  ListingsKept
<1> DEFINE kept == Reconciled(Superseded(s))
           claimed == [stream |-> s, state |-> "running", epoch |-> streams[s].epoch,
                       generation |-> streams[s].generation + 1, items |-> None,
                       targets |-> IF s = "values" THEN Targets ELSE None]
<1>1. metricPolls' = Append(kept, claimed)
  BY DEF ClaimPoll
<1>2. /\ kept \in Seq(MetricPollRecords) /\ Len(kept) = Len(metricPolls)
      /\ \A p \in PollIds : /\ kept[p].stream = metricPolls[p].stream
                            /\ kept[p].generation = metricPolls[p].generation
                            /\ metricPolls[p].state = "succeeded" => kept[p].state = "succeeded"
  BY ReconciledKeeps DEF Superseded, InFlight
<1>3. \A p \in PollIds : kept[p].items = metricPolls[p].items
  BY PollsTyped DEF Reconciled, MetricPollRecords
<1>4. claimed \in MetricPollRecords /\ claimed.items = None
  BY DEF MetricsTyped, MetricPollRecords, PollStates, Targets
<1> HIDE DEF kept, claimed
<1>5. /\ metricPolls' \in Seq(MetricPollRecords)
      /\ Len(metricPolls') = Len(metricPolls) + 1
      /\ \A i \in 1 .. Len(metricPolls) : metricPolls'[i] = kept[i]
      /\ metricPolls'[Len(metricPolls) + 1] = claimed
  BY <1>1, <1>2, <1>4, AppendProperties
<1>6. PollIds = 1 .. Len(metricPolls) /\ Len(metricPolls) \in Nat
  BY PollsTyped
<1>7. PollIds' = 1 .. Len(metricPolls) + 1
  BY <1>5, LenProperties DEF PollIds
<1> QED  BY <1>2, <1>3, <1>4, <1>5, <1>6, <1>7 DEF ListingsKept

\* Every step keeps the invariant of the definitions.
LEMMA DefinitionStepsAreSafe ==
  MetricInvariant /\ DefinitionInvariant /\ [MetricNext]_metricVars => DefinitionInvariant'
<1> SUFFICES ASSUME MetricInvariant, DefinitionInvariant, [MetricNext]_metricVars
             PROVE  DefinitionInvariant'
  OBVIOUS
<1>1. MetricsTyped /\ definitions \in [Metrics -> DefinitionRecords \cup {None}]
  BY DEF MetricInvariant, DefinitionInvariant
<1>2. ASSUME definitions' = definitions, ListingsKept PROVE DefinitionInvariant'
  BY <1>1, <1>2, KeepingListingsIsQuiet
<1>3. metricPolls' = metricPolls => ListingsKept
  BY DEF ListingsKept, PollIds
<1>4. ASSUME NEW s \in Streams, EnqueuePoll(s) PROVE DefinitionInvariant'
  BY <1>2, <1>3, <1>4 DEF EnqueuePoll
<1>5. ASSUME NEW s \in Streams, ClaimPoll(s) PROVE DefinitionInvariant'
  BY <1>1, <1>2, <1>5, ClaimKeepsListings DEF ClaimPoll
<1>6. ASSUME NEW p \in PollIds, FailPoll(p) PROVE DefinitionInvariant'
  BY <1>1, <1>2, <1>6, EndingKeepsListings DEF FailPoll, InFlight
<1>7. ASSUME NEW p \in PollIds, NEW m \in Metrics, NEW item \in Items, MarkDrift(p, m, item)
      PROVE  DefinitionInvariant'
  <2>1. ListingsKept
    BY <1>1, <1>7, EndingKeepsListings DEF MarkDrift, InFlight
  <2>2. /\ definitions[m] \in DefinitionRecords /\ definitions[m] # None
        /\ definitions' = [definitions EXCEPT ![m].trusted = FALSE]
    BY <1>1, <1>7 DEF MarkDrift, Drifted
  <2>3. /\ definitions'[m] \in DefinitionRecords
        /\ definitions'[m].shape = definitions[m].shape
        /\ definitions'[m].active = definitions[m].active
        /\ definitions'[m].confirmed = definitions[m].confirmed
        /\ definitions'[m].retired = definitions[m].retired
    BY <1>1, <2>2 DEF DefinitionRecords
  <2>4. definitions'[m] # None
    BY <2>3, NoneAssumption
  <2>5. \A n \in Metrics \ {m} : definitions'[n] = definitions[n]
    BY <1>1, <2>2
  <2>6. definitions' \in [Metrics -> DefinitionRecords \cup {None}]
    BY <1>1, <2>2, <2>3
  <2> QED  BY <2>1, <2>2, <2>3, <2>4, <2>5, <2>6, KeepingListingsIsQuiet
<1>8. ASSUME NEW p \in PollIds, NEW items \in ItemReads, ApplyDefinitions(p, items)
      PROVE  DefinitionInvariant'
  BY <1>8, SnapshotIsFollowed
<1>9. ASSUME NEW p \in PollIds, NEW read, AcceptValues(p, read) PROVE DefinitionInvariant'
  <2>1. /\ definitions' = definitions
        /\ metricPolls' = [metricPolls EXCEPT ![p].state = "succeeded", ![p].targets = None]
    BY <1>9 DEF AcceptValues
  <2>2. ListingsKept
    BY <1>1, <2>1, PollsTyped DEF ListingsKept, PollIds, MetricPollRecords
  <2> QED  BY <1>2, <2>1, <2>2
<1>10. ASSUME NEW s \in Streams, NEW successor \in MetricEpochs, RecoverStream(s, successor)
       PROVE  DefinitionInvariant'
  BY <1>1, <1>2, <1>10, EndingKeepsListings DEF RecoverStream, Superseded, InFlight
<1>11. CASE SourceMoves \/ AdmissionsLost \/ UNCHANGED metricVars
  BY <1>2, <1>3, <1>11 DEF SourceMoves, AdmissionsLost, metricVars
<1>12. ASSUME NEW hosts \in SUBSET MonitoredHosts, ScopeMoves(hosts) PROVE DefinitionInvariant'
  BY <1>2, <1>3, <1>12 DEF ScopeMoves
<1> QED
  BY <1>4, <1>5, <1>6, <1>7, <1>8, <1>9, <1>10, <1>11, <1>12 DEF MetricNext, CompletePoll

\* However the polls of the definitions overlap, and complete in whatever order: a definition is
\* as the newest accepted snapshot that lists it says, and is retired by a later one that does
\* not, or not at all (complete_zabbix_metric_definitions).
THEOREM DefinitionsFollow == MetricSpec => []DefinitionsFollowPolls
<1>1. DefinitionInvariant => DefinitionsFollowPolls
  BY DEF DefinitionInvariant, DefinitionsFollowPolls, FollowsPolls
<1>2. MetricInit => MetricInvariant /\ DefinitionInvariant
  BY MetricsStartRight, DefinitionsStartRight
<1>3. MetricInvariant /\ DefinitionInvariant /\ [MetricNext]_metricVars
        => (MetricInvariant /\ DefinitionInvariant)'
  BY MetricStepsAreSafe, DefinitionStepsAreSafe
<1> QED  BY <1>1, <1>2, <1>3, PTL DEF MetricSpec

-----------------------------------------------------------------------------
(* The operations of one stream *)

\* Operations that were claimed hold polls of their own, none newer than the stream's.
PollsAreOwn(S, ops, stream) ==
    /\ \A o \in S : ops[o].poll # None =>
          /\ ops[o].poll.generation <= stream.generation
          /\ ops[o].poll.epoch <= stream.epoch
    /\ \A a, b \in S :
          a # b /\ ops[a].poll # None /\ ops[b].poll # None =>
              ops[a].poll.generation # ops[b].poll.generation

\* Operation a of S holds the newest poll of them all.
IsNewest(a, S, ops) ==
    /\ a \in S
    /\ \A b \in S \ {a} : ops[b].poll.generation < ops[a].poll.generation

\* A claim gives its operation a poll newer than every other.
LEMMA ClaimKeepsOwn ==
  ASSUME NEW S, NEW ops, NEW next, NEW stream \in Polls, PollsAreOwn(S, ops, stream), NEW o \in S,
         \A a \in S : ops[a].poll \in Polls \cup {None},
         \A a \in S \ {o} : next[a].poll = ops[a].poll,
         next[o].poll = NextPoll(stream)
  PROVE  PollsAreOwn(S, next, NextPoll(stream))
<1>1. /\ NextPoll(stream).generation = stream.generation + 1
      /\ NextPoll(stream).epoch = stream.epoch
      /\ stream.generation \in Nat /\ stream.epoch \in Nat
  BY DEF NextPoll, Polls
<1>2. \A a \in S \ {o} : next[a].poll # None =>
         /\ next[a].poll.generation \in Nat /\ next[a].poll.generation <= stream.generation
         /\ next[a].poll.epoch <= stream.epoch
  BY DEF PollsAreOwn, Polls
<1>3. \A a \in S : next[a].poll # None =>
         /\ next[a].poll.generation <= NextPoll(stream).generation
         /\ next[a].poll.epoch <= NextPoll(stream).epoch
  BY <1>1, <1>2
<1>4. ASSUME NEW a \in S, NEW b \in S, a # b, next[a].poll # None, next[b].poll # None
      PROVE  next[a].poll.generation # next[b].poll.generation
  <2>1. CASE a = o
    BY <1>1, <1>2, <1>4, <2>1
  <2>2. CASE b = o
    BY <1>1, <1>2, <1>4, <2>2
  <2>3. CASE a # o /\ b # o
    BY <1>4, <2>3 DEF PollsAreOwn
  <2> QED  BY <2>1, <2>2, <2>3
<1> QED  BY <1>3, <1>4 DEF PollsAreOwn

\* The stream may move on, and other steps leave the polls to their operations.
LEMMA QuietKeepsOwn ==
  ASSUME NEW S, NEW ops, NEW next, NEW stream \in Polls, NEW later \in Polls,
         PollsAreOwn(S, ops, stream),
         \A a \in S : ops[a].poll \in Polls \cup {None},
         \A a \in S : next[a].poll = ops[a].poll,
         stream.generation <= later.generation, stream.epoch <= later.epoch
  PROVE  PollsAreOwn(S, next, later)
  BY DEF PollsAreOwn, Polls

\* The operation that holds the poll of the stream holds the newest.
LEMMA HolderIsNewest ==
  ASSUME NEW S, NEW ops, NEW stream \in Polls, PollsAreOwn(S, ops, stream),
         \A a \in S : ops[a].poll \in Polls \cup {None},
         NEW o \in S, ops[o].poll = stream, stream # None,
         NEW T \in SUBSET S, o \in T, \A a \in T : ops[a].poll # None
  PROVE  IsNewest(o, T, ops)
<1> SUFFICES ASSUME NEW b \in T \ {o} PROVE ops[b].poll.generation < ops[o].poll.generation
  BY DEF IsNewest
<1>1. /\ ops[b].poll \in Polls /\ ops[b].poll.generation <= stream.generation
      /\ ops[b].poll.generation # stream.generation
  BY DEF PollsAreOwn
<1> QED  BY <1>1 DEF Polls

\* What is newest is the one Newest chooses.
LEMMA NewestIs ==
  ASSUME NEW S, NEW ops, NEW a, IsNewest(a, S, ops), \A b \in S : ops[b].poll \in Polls
  PROVE  Newest(S, ops) = a
<1>1. \A b \in S : ops[b].poll.generation \in Nat
  BY DEF Polls
<1>2. a \in S /\ \A b \in S : ops[a].poll.generation >= ops[b].poll.generation
  BY <1>1 DEF IsNewest
<1>3. \A c \in S : (\A b \in S : ops[c].poll.generation >= ops[b].poll.generation) => c = a
  BY <1>1 DEF IsNewest
<1> QED  BY <1>2, <1>3 DEF Newest

\* Which one is newest depends on the polls alone.
LEMMA NewestStays ==
  ASSUME NEW S, NEW ops, NEW next, NEW a, IsNewest(a, S, ops),
         \A b \in S : next[b].poll = ops[b].poll
  PROVE  IsNewest(a, S, next)
  BY DEF IsNewest

-----------------------------------------------------------------------------
(* What the operations went through *)

Begun == {"absent", "pending", "running"}

\* An operation has a read only once it ran with a poll, and none was asked for before the
\* validation succeeded.
InventoryInOrder ==
    /\ PollsAreOwn(InventoryOps, inventories, hostPoll)
    /\ \A i \in InventoryOps :
          /\ inventories[i].state = "running" => inventories[i].poll # None
          /\ inventories[i].read # None => inventories[i].poll # None /\ inventories[i].state \notin Begun
          /\ validation # "succeeded" => inventories[i].state = "absent"

\* The same of problems; only an operation that runs is being completed.
ProblemsInOrder ==
    /\ PollsAreOwn(ProblemOps, problemOps, problemPoll)
    /\ \A o \in ProblemOps :
          /\ problemOps[o].state = "running" => problemOps[o].poll # None
          /\ completing[o] # None => problemOps[o].state = "running"
          /\ problemOps[o].snapshot # None =>
                problemOps[o].poll # None /\ problemOps[o].state \notin Begun
          /\ problemOps[o].applied => problemOps[o].snapshot # None

\* Nothing was asked for at first.
LEMMA InitInOrder == HealthInit => InventoryInOrder /\ ProblemsInOrder
  BY DEF HealthInit, InventoryInit, ProblemInit, InventoryInOrder, ProblemsInOrder, PollsAreOwn,
         Unasked, UnaskedProblems

\* An inventory operation keeps its poll, or takes the next one by a claim; recovery moves on.
LEMMA InventoryKeepsOrder ==
  ASSUME OpsTyped, AdmissionsAreFresh, InventoryInOrder, InventoryStep
  PROVE  InventoryInOrder'
<1> USE DEF Begun
<1>0. /\ \A i \in InventoryOps : inventories[i] \in InventoryRecords
      /\ hostPoll \in Polls /\ None \notin Polls
      /\ hostPoll.generation <= hostPoll.generation /\ hostPoll.epoch <= hostPoll.epoch
  BY HostNoneAssumption DEF OpsTyped, AdmissionsAreFresh, Fresh, Polls
<1>1. \A i \in InventoryOps : inventories[i].poll \in Polls \cup {None}
  BY <1>0 DEF InventoryRecords
<1>2. CASE UNCHANGED <<hostPoll, inventories>> /\ (validation = "succeeded" => validation' = "succeeded")
  BY <1>2 DEF InventoryInOrder
<1>3. ASSUME NEW i \in InventoryOps, EnqueueInventory(i) PROVE InventoryInOrder'
  <2>1. \A j \in InventoryOps : inventories'[j].poll = inventories[j].poll
    BY <1>0, <1>3 DEF EnqueueInventory, InventoryRecords, OpsTyped
  <2>2. PollsAreOwn(InventoryOps, inventories, hostPoll)'
    <3>1. hostPoll' = hostPoll
      BY <1>3 DEF EnqueueInventory
    <3>2. \A j \in InventoryOps : inventories'[j].poll = inventories[j].poll
      BY <2>1
    <3>3. PollsAreOwn(InventoryOps, inventories, hostPoll)
      BY DEF InventoryInOrder
    <3> QED  BY <1>0, <1>1, <3>1, <3>2, <3>3, QuietKeepsOwn
  <2> QED  BY <1>0, <1>3, <2>2 DEF EnqueueInventory, InventoryInOrder, InventoryRecords, OpsTyped, ValidatedCurrent
<1>4. ASSUME NEW i \in InventoryOps, ClaimInventory(i) PROVE InventoryInOrder'
  <2>1. /\ \A j \in InventoryOps \ {i} : inventories'[j] = inventories[j]
        /\ inventories'[i].poll = NextPoll(hostPoll) /\ inventories'[i].state = "running"
        /\ inventories'[i].read = inventories[i].read /\ hostPoll' = NextPoll(hostPoll)
    BY <1>0, <1>4 DEF ClaimInventory, InventoryRecords, OpsTyped
  <2>2. PollsAreOwn(InventoryOps, inventories', hostPoll')
    BY <1>0, <1>1, <2>1, ClaimKeepsOwn DEF InventoryInOrder
  <2>3. NextPoll(hostPoll) # None
    BY <1>0 DEF NextPoll, Polls
  <2> QED  BY <1>4, <2>1, <2>2, <2>3 DEF ClaimInventory, InventoryInOrder, ValidatedCurrent
<1>5. ASSUME NEW i \in InventoryOps, RetireInventory(i) PROVE InventoryInOrder'
  <2>1. \A j \in InventoryOps : inventories'[j].poll = inventories[j].poll
    BY <1>0, <1>5 DEF RetireInventory, InventoryRecords, OpsTyped
  <2>2. PollsAreOwn(InventoryOps, inventories, hostPoll)'
    <3>1. hostPoll' = hostPoll
      BY <1>5 DEF RetireInventory
    <3>2. \A j \in InventoryOps : inventories'[j].poll = inventories[j].poll
      BY <2>1
    <3>3. PollsAreOwn(InventoryOps, inventories, hostPoll)
      BY DEF InventoryInOrder
    <3> QED  BY <1>0, <1>1, <3>1, <3>2, <3>3, QuietKeepsOwn
  <2> QED  BY <1>0, <1>5, <2>2 DEF RetireInventory, InventoryInOrder, InventoryRecords, OpsTyped
<1>6. ASSUME NEW i \in InventoryOps, NEW read \in HostReads, ApplyInventory(i, read)
      PROVE  InventoryInOrder'
  <2>1. /\ \A j \in InventoryOps \ {i} : inventories'[j] = inventories[j]
        /\ inventories'[i].poll = inventories[i].poll /\ inventories'[i].state \notin Begun
        /\ inventories[i].state = "running"
    BY <1>0, <1>6 DEF ApplyInventory, InventoryRecords, OpsTyped, Settled
  <2>2. PollsAreOwn(InventoryOps, inventories, hostPoll)'
    <3>1. hostPoll' = hostPoll
      BY <1>6 DEF ApplyInventory
    <3>2. \A j \in InventoryOps : inventories'[j].poll = inventories[j].poll
      BY <2>1
    <3>3. PollsAreOwn(InventoryOps, inventories, hostPoll)
      BY DEF InventoryInOrder
    <3> QED  BY <1>0, <1>1, <3>1, <3>2, <3>3, QuietKeepsOwn
  <2> QED  BY <1>6, <2>1, <2>2 DEF ApplyInventory, InventoryInOrder
<1>7. ASSUME NEW e \in HostEpochs, RecoverInventory(e) PROVE InventoryInOrder'
  <2>1. /\ e \in Nat /\ hostPoll' \in Polls /\ hostPoll.epoch <= hostPoll'.epoch
        /\ hostPoll.generation <= hostPoll'.generation
    BY <1>0, <1>7, HostEpochsAssumption DEF RecoverInventory, Polls
  <2>2. PollsAreOwn(InventoryOps, inventories, hostPoll)'
    <3>1. inventories' = inventories
      BY <1>7 DEF RecoverInventory
    <3>2. PollsAreOwn(InventoryOps, inventories, hostPoll)
      BY DEF InventoryInOrder
    <3> QED  BY <1>0, <1>1, <2>1, <3>1, <3>2, QuietKeepsOwn
  <2> QED  BY <1>7, <2>2 DEF RecoverInventory, InventoryInOrder
<1>8. CASE ClaimValidation
  BY <1>2, <1>8 DEF ClaimValidation
<1>9. ASSUME NEW outcome \in Outcomes, CompleteValidation(outcome) PROVE InventoryInOrder'
  BY <1>2, <1>9 DEF CompleteValidation
<1> QED  BY <1>3, <1>4, <1>5, <1>6, <1>7, <1>8, <1>9 DEF InventoryStep

\* A problem operation likewise; what completes it runs.
LEMMA ProblemsKeepOrder ==
  ASSUME OpsTyped, AdmissionsAreFresh, ProblemsInOrder, ProblemStep
  PROVE  ProblemsInOrder'
<1> USE DEF Begun
<1>0. /\ \A o \in ProblemOps : problemOps[o] \in ProblemRecords
      /\ problemPoll \in Polls /\ None \notin Polls
      /\ problemPoll.generation <= problemPoll.generation /\ problemPoll.epoch <= problemPoll.epoch
  BY HostNoneAssumption DEF OpsTyped, AdmissionsAreFresh, Fresh, Polls
<1>1. \A o \in ProblemOps : problemOps[o].poll \in Polls \cup {None}
  BY <1>0 DEF ProblemRecords
<1>2. ASSUME NEW o \in ProblemOps, EnqueueProblem(o) PROVE ProblemsInOrder'
  <2>1. \A q \in ProblemOps : problemOps'[q].poll = problemOps[q].poll
    BY <1>0, <1>2 DEF EnqueueProblem, ProblemRecords, OpsTyped
  <2>2. PollsAreOwn(ProblemOps, problemOps, problemPoll)'
    <3>1. problemPoll' = problemPoll
      BY <1>2 DEF EnqueueProblem
    <3>2. \A j \in ProblemOps : problemOps'[j].poll = problemOps[j].poll
      BY <2>1
    <3>3. PollsAreOwn(ProblemOps, problemOps, problemPoll)
      BY DEF ProblemsInOrder
    <3> QED  BY <1>0, <1>1, <3>1, <3>2, <3>3, QuietKeepsOwn
  <2> QED  BY <1>0, <1>2, <2>2 DEF EnqueueProblem, ProblemsInOrder, ProblemRecords, OpsTyped
<1>3. ASSUME NEW o \in ProblemOps, ClaimProblem(o) PROVE ProblemsInOrder'
  <2>1. /\ \A q \in ProblemOps \ {o} : problemOps'[q] = problemOps[q]
        /\ problemOps'[o].poll = NextPoll(problemPoll) /\ problemOps'[o].state = "running"
        /\ problemOps'[o].snapshot = problemOps[o].snapshot
        /\ problemOps'[o].applied = problemOps[o].applied
        /\ problemPoll' = NextPoll(problemPoll)
    BY <1>0, <1>3 DEF ClaimProblem, ProblemRecords, OpsTyped
  <2>2. PollsAreOwn(ProblemOps, problemOps', problemPoll')
    BY <1>0, <1>1, <2>1, ClaimKeepsOwn DEF ProblemsInOrder
  <2>3. NextPoll(problemPoll) # None
    BY <1>0 DEF NextPoll, Polls
  <2> QED  BY <1>3, <2>1, <2>2, <2>3 DEF ClaimProblem, ProblemsInOrder
<1>4. ASSUME NEW o \in ProblemOps, NEW snapshot \in Snapshots, CheckAuthority(o, snapshot)
      PROVE  ProblemsInOrder'
  BY <1>4 DEF CheckAuthority, ProblemsInOrder, OpsTyped
<1>5. ASSUME NEW o \in ProblemOps, ApplyProblem(o) \/ RetireProblem(o) PROVE ProblemsInOrder'
  <2>1. /\ \A q \in ProblemOps \ {o} : problemOps'[q] = problemOps[q]
        /\ problemOps'[o].poll = problemOps[o].poll /\ problemOps'[o].state \notin Begun
        /\ problemOps'[o].snapshot = completing[o] /\ completing[o] # None
        /\ problemOps[o].state = "running" /\ problemPoll' = problemPoll
    BY <1>0, <1>5 DEF ApplyProblem, RetireProblem, ProblemRecords, OpsTyped, ProblemsInOrder
  <2>2. PollsAreOwn(ProblemOps, problemOps, problemPoll)'
    BY <1>0, <1>1, <2>1, QuietKeepsOwn DEF ProblemsInOrder
  <2>3. completing' = [completing EXCEPT ![o] = None]
    BY <1>5 DEF ApplyProblem, RetireProblem
  <2> QED  BY <2>1, <2>2, <2>3 DEF ProblemsInOrder, OpsTyped
<1>6. ASSUME NEW o \in ProblemOps, AbortProblem(o) PROVE ProblemsInOrder'
  BY <1>6 DEF AbortProblem, ProblemsInOrder, OpsTyped
<1>7. ASSUME NEW e \in ProblemEpochs, RecoverProblem(e) PROVE ProblemsInOrder'
  <2>1. /\ e \in Nat /\ problemPoll' \in Polls /\ problemPoll.epoch <= problemPoll'.epoch
        /\ problemPoll.generation <= problemPoll'.generation
    BY <1>0, <1>7, ProblemEpochsAssumption DEF RecoverProblem, Successor, Polls
  <2>2. \A q \in ProblemOps :
          /\ problemOps'[q].poll = problemOps[q].poll
          /\ problemOps'[q].snapshot = problemOps[q].snapshot
          /\ problemOps'[q].applied = problemOps[q].applied
          /\ \/ problemOps'[q].state = problemOps[q].state
             \/ problemOps'[q].state = "reconciliation_required"
    BY <1>0, <1>7 DEF RecoverProblem, ProblemRecords
  <2>3. PollsAreOwn(ProblemOps, problemOps, problemPoll)'
    BY <1>0, <1>1, <2>1, <2>2, QuietKeepsOwn DEF ProblemsInOrder
  <2> QED  BY <1>7, <2>2, <2>3 DEF RecoverProblem, ProblemsInOrder
<1> QED  BY <1>2, <1>3, <1>4, <1>5, <1>6, <1>7 DEF ProblemStep

\* Every step keeps both in order.
LEMMA StepInOrder ==
  ASSUME OpsTyped, AdmissionsAreFresh, InventoryInOrder, ProblemsInOrder, [HealthNext]_healthVars
  PROVE  InventoryInOrder' /\ ProblemsInOrder'
<1>1. CASE InventoryStep /\ UNCHANGED <<problemVars, health, revoked>>
  BY <1>1, InventoryKeepsOrder DEF ProblemsInOrder, problemVars
<1>2. CASE ProblemStep /\ UNCHANGED <<inventoryVars, health, revoked>>
  BY <1>2, ProblemsKeepOrder DEF InventoryInOrder, inventoryVars
<1>3. CASE Crash
  BY <1>3 DEF Crash, InventoryInOrder, ProblemsInOrder
<1>4. CASE UNCHANGED <<inventoryVars, problemVars>>
  BY <1>4 DEF InventoryInOrder, ProblemsInOrder, inventoryVars, problemVars
<1> QED  BY <1>1, <1>2, <1>3, <1>4 DEF HealthNext, RecomputeHealth, healthVars

-----------------------------------------------------------------------------
(* What the reads of the hosts leave behind *)

\* Reads that could tell whether h is there
TellingReads(h) ==
    {i \in AppliedReads : h \in inventories[i].read.hosts \/ inventories[i].read.outcome = "current"}

\* PresenceFollowsPolls, with the polls it speaks of at hand
PresenceShown ==
    /\ AppliedReads # {} =>
          \E last \in AppliedReads : /\ IsNewest(last, AppliedReads, inventories)
                                     /\ sourceEvidence = inventories[last].read.outcome
    /\ \A h \in Hosts :
          /\ resources[h] = None <=> \A i \in AppliedReads : h \notin inventories[i].read.hosts
          /\ resources[h] # None =>
                \E last \in AppliedReads, told \in TellingReads(h) :
                    /\ IsNewest(last, AppliedReads, inventories)
                    /\ IsNewest(told, TellingReads(h), inventories)
                    /\ resources[h] =
                          IF h \in inventories[told].read.hosts
                          THEN [presence |-> "present", evidence |-> inventories[last].read.outcome]
                          ELSE [presence |-> "removed", evidence |-> "current"]

\* Steps that apply no read and change neither resources nor evidence leave it.
LEMMA PresenceStays ==
  ASSUME PresenceShown, AppliedReads' = AppliedReads,
         \A i \in AppliedReads : /\ inventories'[i].poll = inventories[i].poll
                                 /\ inventories'[i].read = inventories[i].read,
         UNCHANGED resources, AppliedReads = {} \/ UNCHANGED sourceEvidence
  PROVE  PresenceShown'
<1>1. AppliedReads' # {} =>
          \E last \in AppliedReads' : /\ IsNewest(last, AppliedReads, inventories)'
                                      /\ sourceEvidence' = inventories'[last].read.outcome
  BY NewestStays DEF PresenceShown
<1>2. ASSUME NEW h \in Hosts PROVE TellingReads(h)' = TellingReads(h)
  BY DEF TellingReads
<1>3. ASSUME NEW h \in Hosts PROVE
          resources'[h] = None <=> \A i \in AppliedReads' : h \notin inventories'[i].read.hosts
  BY DEF PresenceShown
<1>4. ASSUME NEW h \in Hosts, resources'[h] # None PROVE
          \E last \in AppliedReads', told \in TellingReads(h)' :
              /\ IsNewest(last, AppliedReads, inventories)'
              /\ IsNewest(told, TellingReads(h), inventories)'
              /\ resources'[h] =
                    IF h \in inventories'[told].read.hosts
                    THEN [presence |-> "present", evidence |-> inventories'[last].read.outcome]
                    ELSE [presence |-> "removed", evidence |-> "current"]
  <2>1. PICK last \in AppliedReads, told \in TellingReads(h) :
              /\ IsNewest(last, AppliedReads, inventories)
              /\ IsNewest(told, TellingReads(h), inventories)
              /\ resources[h] =
                    IF h \in inventories[told].read.hosts
                    THEN [presence |-> "present", evidence |-> inventories[last].read.outcome]
                    ELSE [presence |-> "removed", evidence |-> "current"]
    BY <1>4 DEF PresenceShown
  <2>2. told \in AppliedReads /\ TellingReads(h) \subseteq AppliedReads
    BY DEF TellingReads
  <2>3. IsNewest(last, AppliedReads, inventories') /\ IsNewest(told, TellingReads(h), inventories')
    BY <2>1, <2>2, NewestStays
  <2> QED  BY <1>2, <2>1, <2>2, <2>3
<1> QED  BY <1>1, <1>3, <1>4 DEF PresenceShown

\* Applying a read makes it the newest, and of all hosts it tells of the one that tells last.
LEMMA ReadIsShown ==
  ASSUME OpsTyped, AdmissionsAreFresh, InventoryInOrder, PresenceShown,
         NEW i \in InventoryOps, NEW read \in HostReads, ApplyInventory(i, read)
  PROVE  PresenceShown'
<1>0. /\ \A j \in InventoryOps : inventories[j] \in InventoryRecords
      /\ hostPoll \in Polls /\ None \notin Polls /\ read # None
  BY HostNoneAssumption DEF OpsTyped, AdmissionsAreFresh, Fresh, Polls
<1>1. /\ \A j \in InventoryOps \ {i} : inventories'[j] = inventories[j]
      /\ inventories'[i].poll = inventories[i].poll /\ inventories[i].poll = hostPoll
      /\ inventories'[i].read = read /\ inventories[i].read = None
  BY <1>0 DEF ApplyInventory, CurrentPoll, InventoryRecords, OpsTyped, InventoryInOrder, Begun
<1>2. AppliedReads' = AppliedReads \cup {i} /\ i \notin AppliedReads
  BY <1>0, <1>1 DEF AppliedReads
<1>3. ASSUME NEW T \in SUBSET AppliedReads', i \in T PROVE IsNewest(i, T, inventories')
  <2>1. \A j \in InventoryOps : inventories'[j].poll \in Polls \cup {None}
    BY <1>0, <1>1 DEF InventoryRecords
  <2>2. PollsAreOwn(InventoryOps, inventories', hostPoll)
    <3>1. hostPoll.generation <= hostPoll.generation /\ hostPoll.epoch <= hostPoll.epoch
      BY <1>0 DEF Polls
    <3>2. \A j \in InventoryOps : inventories[j].poll \in Polls \cup {None}
      BY <1>0 DEF InventoryRecords
    <3> QED  BY <1>0, <1>1, <3>1, <3>2, QuietKeepsOwn DEF InventoryInOrder
  <2>3. \A j \in T : j \in InventoryOps /\ inventories'[j].poll # None
    BY <1>0, <1>1, <1>2 DEF AppliedReads, InventoryInOrder
  <2> QED  BY <1>0, <1>1, <1>3, <2>1, <2>2, <2>3, HolderIsNewest
<1>4. sourceEvidence' = read.outcome /\ resources' = [h \in Hosts |-> Observed(h, read)]
  BY DEF ApplyInventory
<1>5. ASSUME NEW h \in Hosts
      PROVE  /\ resources'[h] = None <=> \A j \in AppliedReads' : h \notin inventories'[j].read.hosts
             /\ resources'[h] # None =>
                   \E told \in TellingReads(h)' :
                       /\ IsNewest(told, TellingReads(h), inventories)'
                       /\ resources'[h] =
                             IF h \in inventories'[told].read.hosts
                             THEN [presence |-> "present", evidence |-> read.outcome]
                             ELSE [presence |-> "removed", evidence |-> "current"]
  <2>1. resources'[h] = Observed(h, read)
    BY <1>4
  <2>2. /\ h \in read.hosts \/ read.outcome = "current" =>
               i \in TellingReads(h)' /\ IsNewest(i, TellingReads(h), inventories)'
        /\ ~ (h \in read.hosts \/ read.outcome = "current") =>
               /\ TellingReads(h)' = TellingReads(h)
               /\ \A j \in TellingReads(h) : inventories'[j] = inventories[j]
    <3>1. TellingReads(h)' \subseteq AppliedReads'
      BY DEF TellingReads
    <3>2. i \in TellingReads(h)' <=> h \in read.hosts \/ read.outcome = "current"
      BY <1>1, <1>2 DEF TellingReads
    <3>3. \A j \in AppliedReads : j \in InventoryOps \ {i}
      BY <1>2 DEF AppliedReads
    <3> QED  BY <1>1, <1>2, <1>3, <3>1, <3>2, <3>3 DEF TellingReads
  <2>3. read.outcome \in Outcomes
    BY DEF HostReads
  <2>4. \A evidence \in Outcomes :
           /\ [presence |-> "present", evidence |-> evidence] # None
           /\ [presence |-> "removed", evidence |-> evidence] # None
    BY HostNoneAssumption
  <2>5. \A j \in AppliedReads : inventories'[j] = inventories[j]
    BY <1>1, <1>2 DEF AppliedReads
  <2>6. CASE h \in read.hosts
    BY <1>1, <1>2, <2>1, <2>2, <2>3, <2>4, <2>6 DEF Observed
  <2>7. CASE h \notin read.hosts /\ resources[h] = None
    <3>1. resources'[h] = None
      BY <2>1, <2>7 DEF Observed
    <3> QED  BY <1>1, <1>2, <2>5, <2>7, <3>1 DEF PresenceShown
  <2>8. CASE h \notin read.hosts /\ resources[h] # None
    <3>1. PICK last \in AppliedReads, told \in TellingReads(h) :
              /\ IsNewest(told, TellingReads(h), inventories)
              /\ resources[h] =
                    IF h \in inventories[told].read.hosts
                    THEN [presence |-> "present", evidence |-> inventories[last].read.outcome]
                    ELSE [presence |-> "removed", evidence |-> "current"]
      BY <2>8 DEF PresenceShown
    <3>2. PICK j \in AppliedReads : h \in inventories[j].read.hosts
      BY <2>8 DEF PresenceShown
    <3>3. h \in inventories'[j].read.hosts /\ j \in AppliedReads'
      BY <1>2, <2>5, <3>2
    <3>4. CASE read.outcome = "current"
      <4>1. resources'[h] = [presence |-> "removed", evidence |-> "current"]
        BY <2>1, <2>8, <3>1, <3>4 DEF Observed
      <4> QED  BY <1>1, <2>2, <2>3, <2>4, <2>8, <3>3, <3>4, <4>1
    <3>5. CASE read.outcome # "current"
      <4>1. told \in TellingReads(h)' /\ inventories'[told] = inventories[told]
        BY <2>2, <2>8, <3>5
      <4>2. IsNewest(told, TellingReads(h), inventories)'
        BY <2>2, <2>8, <3>1, <3>5, NewestStays
      <4>3. resources'[h] = IF h \in inventories[told].read.hosts
                            THEN [presence |-> "present", evidence |-> read.outcome]
                            ELSE [presence |-> "removed", evidence |-> "current"]
        BY <2>1, <2>8, <3>1, <3>5 DEF Observed
      <4>4. resources'[h] # None
        BY <2>3, <2>4, <4>3 DEF Outcomes
      <4> QED  BY <3>3, <4>1, <4>2, <4>3, <4>4
    <3> QED  BY <3>4, <3>5
  <2> QED  BY <2>6, <2>7, <2>8
<1>6. i \in AppliedReads' /\ IsNewest(i, AppliedReads, inventories)'
  BY <1>2, <1>3
<1> QED  BY <1>1, <1>4, <1>5, <1>6 DEF PresenceShown

\* Every step keeps what the hosts show.
LEMMA PresenceKept ==
  ASSUME OpsTyped, AdmissionsAreFresh, InventoryInOrder, PresenceShown, [HealthNext]_healthVars
  PROVE  PresenceShown'
<1>0. \A j \in InventoryOps : inventories[j] \in InventoryRecords
  BY DEF OpsTyped
<1>1. CASE UNCHANGED <<inventories, resources, sourceEvidence>>
  <2>1. AppliedReads' = AppliedReads
    BY <1>1 DEF AppliedReads
  <2> QED  BY <1>1, <2>1, PresenceStays
<1>2. CASE InventoryStep
  <2>1. ASSUME NEW i \in InventoryOps, EnqueueInventory(i) \/ ClaimInventory(i) \/ RetireInventory(i)
        PROVE  PresenceShown'
    <3>1. /\ \A j \in InventoryOps : inventories'[j].read = inventories[j].read
          /\ \A j \in InventoryOps \ {i} : inventories'[j] = inventories[j]
          /\ inventories[i].state \in Begun
          /\ UNCHANGED <<resources, sourceEvidence>>
      BY <1>0, <2>1 DEF EnqueueInventory, ClaimInventory, RetireInventory, InventoryRecords, OpsTyped, Begun
    <3>2. AppliedReads' = AppliedReads /\ i \notin AppliedReads
      BY <3>1 DEF AppliedReads, InventoryInOrder
    <3>3. \A j \in AppliedReads : j \in InventoryOps \ {i}
      BY <3>2 DEF AppliedReads
    <3> QED  BY <3>1, <3>2, <3>3, PresenceStays
  <2>2. ASSUME NEW outcome \in Outcomes, CompleteValidation(outcome) PROVE PresenceShown'
    <3>1. UNCHANGED <<inventories, resources>> /\ validation # "succeeded"
      BY <2>2 DEF CompleteValidation
    <3>2. AppliedReads = {} /\ AppliedReads' = AppliedReads
      BY <3>1 DEF AppliedReads, InventoryInOrder, Begun
    <3> QED  BY <3>1, <3>2, PresenceStays
  <2> QED
    BY <1>1, <1>2, <2>1, <2>2, ReadIsShown DEF InventoryStep, ClaimValidation, RecoverInventory
<1> QED
  BY <1>1, <1>2 DEF HealthNext, RecomputeHealth, Crash, healthVars, inventoryVars

\* Whatever the order in which reads complete, with recoveries and crashes in between, hosts and
\* source are as the newest read that could tell left them (complete_zabbix_host_inventory).
THEOREM PresenceFollows == HealthSpec => []PresenceFollowsPolls
<1> DEFINE Inv == OpsTyped /\ AdmissionsAreFresh /\ InventoryInOrder /\ ProblemsInOrder
                  /\ PresenceShown
<1>1. HealthInit => Inv
  <2>1. HealthInit => PresenceShown
    <3>1. HealthInit => AppliedReads = {} /\ \A h \in Hosts : resources[h] = None
      BY DEF HealthInit, InventoryInit, AppliedReads, Unasked
    <3> QED  BY <3>1 DEF PresenceShown
  <2> QED  BY <2>1, InitTyped, InitFresh, InitInOrder
<1>2. Inv /\ [HealthNext]_healthVars => Inv'
  BY StepTyped, StepFresh, StepInOrder, PresenceKept
<1>3. Inv => PresenceFollowsPolls
  <2> SUFFICES ASSUME Inv PROVE PresenceFollowsPolls
    OBVIOUS
  <2>1. \A i \in AppliedReads : inventories[i].poll \in Polls
    BY DEF AppliedReads, OpsTyped, InventoryRecords, InventoryInOrder
  <2>2. AppliedReads # {} => sourceEvidence = inventories[Newest(AppliedReads, inventories)].read.outcome
    BY <2>1, NewestIs DEF PresenceShown
  <2>3. ASSUME NEW h \in Hosts, resources[h] # None
        PROVE  resources[h] =
                 IF h \in inventories[Newest(TellingReads(h), inventories)].read.hosts
                 THEN [presence |-> "present",
                       evidence |-> inventories[Newest(AppliedReads, inventories)].read.outcome]
                 ELSE [presence |-> "removed", evidence |-> "current"]
    <3>1. PICK last \in AppliedReads, told \in TellingReads(h) :
              /\ IsNewest(last, AppliedReads, inventories)
              /\ IsNewest(told, TellingReads(h), inventories)
              /\ resources[h] =
                    IF h \in inventories[told].read.hosts
                    THEN [presence |-> "present", evidence |-> inventories[last].read.outcome]
                    ELSE [presence |-> "removed", evidence |-> "current"]
      BY <2>3 DEF PresenceShown
    <3>2. \A i \in TellingReads(h) : inventories[i].poll \in Polls
      BY <2>1 DEF TellingReads
    <3>3. /\ Newest(AppliedReads, inventories) = last
          /\ Newest(TellingReads(h), inventories) = told
      BY <2>1, <3>1, <3>2, NewestIs
    <3> QED  BY <3>1, <3>3
  <2>4. \A h \in Hosts : resources[h] = None <=> \A i \in AppliedReads : h \notin inventories[i].read.hosts
    BY DEF PresenceShown
  <2> QED  BY <2>2, <2>3, <2>4 DEF PresenceFollowsPolls, TellingReads
<1> QED  BY <1>1, <1>2, <1>3, PTL DEF HealthSpec

-----------------------------------------------------------------------------
(* What the snapshots of the problems leave behind *)

Snap(o) == problemOps[o].snapshot

\* Snapshots that report p, and those that say anything of it
ReportingSnapshots(p) == {o \in AppliedSnapshots : p \in Reported(Snap(o))}
TellingSnapshots(p) ==
    {o \in AppliedSnapshots : Snap(o).complete \/ p \in Reported(Snap(o)) \cup Snap(o).recovered}

\* ActiveFollowsSnapshots, with the polls it speaks of at hand
ProblemsShown ==
    /\ problems \in [Problems -> ProblemRows \cup {None}]
    /\ \A p \in Problems :
          /\ problems[p] = None <=> ReportingSnapshots(p) = {}
          /\ problems[p] # None =>
                \E told \in TellingSnapshots(p), seen \in ReportingSnapshots(p) :
                    /\ IsNewest(told, TellingSnapshots(p), problemOps)
                    /\ IsNewest(seen, ReportingSnapshots(p), problemOps)
                    /\ IsActive(p) <=> p \in Reported(Snap(told)) \ Snap(told).recovered
                    /\ problems[p].view = Snap(seen).active[p]

\* Steps that apply no snapshot leave it.
LEMMA ProblemsStay ==
  ASSUME ProblemsShown, UNCHANGED problems, AppliedSnapshots' = AppliedSnapshots,
         \A o \in AppliedSnapshots : /\ problemOps'[o].poll = problemOps[o].poll
                                     /\ problemOps'[o].snapshot = problemOps[o].snapshot
  PROVE  ProblemsShown'
<1>1. \A o \in AppliedSnapshots : Snap(o)' = Snap(o) /\ Reported(Snap(o))' = Reported(Snap(o))
  BY DEF Snap, Reported
<1>2. ASSUME NEW p \in Problems
      PROVE  /\ TellingSnapshots(p)' = TellingSnapshots(p)
             /\ ReportingSnapshots(p)' = ReportingSnapshots(p)
             /\ TellingSnapshots(p) \subseteq AppliedSnapshots
             /\ ReportingSnapshots(p) \subseteq AppliedSnapshots
  BY <1>1 DEF TellingSnapshots, ReportingSnapshots
<1>3. ASSUME NEW p \in Problems, problems'[p] # None
      PROVE  \E told \in TellingSnapshots(p)', seen \in ReportingSnapshots(p)' :
                 /\ IsNewest(told, TellingSnapshots(p), problemOps)'
                 /\ IsNewest(seen, ReportingSnapshots(p), problemOps)'
                 /\ IsActive(p)' <=> p \in Reported(Snap(told))' \ Snap(told)'.recovered
                 /\ problems'[p].view = Snap(seen)'.active[p]
  <2>1. PICK told \in TellingSnapshots(p), seen \in ReportingSnapshots(p) :
                 /\ IsNewest(told, TellingSnapshots(p), problemOps)
                 /\ IsNewest(seen, ReportingSnapshots(p), problemOps)
                 /\ IsActive(p) <=> p \in Reported(Snap(told)) \ Snap(told).recovered
                 /\ problems[p].view = Snap(seen).active[p]
    BY <1>3 DEF ProblemsShown
  <2>2. /\ IsNewest(told, TellingSnapshots(p), problemOps')
        /\ IsNewest(seen, ReportingSnapshots(p), problemOps')
    BY <1>2, <2>1, NewestStays
  <2>3. IsActive(p)' <=> IsActive(p)
    BY DEF IsActive
  <2> QED  BY <1>1, <1>2, <2>1, <2>2, <2>3
<1> QED  BY <1>2, <1>3 DEF ProblemsShown

\* Applying a snapshot makes it the newest of all that report a problem it reports, and of all
\* that say anything of a problem it speaks of.
LEMMA SnapshotIsShown ==
  ASSUME OpsTyped, AdmissionsAreFresh, ProblemsInOrder, ProblemsShown,
         NEW o \in ProblemOps, ApplyProblem(o)
  PROVE  ProblemsShown'
<1> DEFINE snapshot == completing[o]
<1>0. /\ \A q \in ProblemOps : problemOps[q] \in ProblemRecords
      /\ problemPoll \in Polls /\ None \notin Polls
      /\ snapshot \in Snapshots /\ snapshot # None
  BY HostNoneAssumption DEF OpsTyped, AdmissionsAreFresh, Fresh, Polls, ApplyProblem
<1>1. /\ \A q \in ProblemOps \ {o} : problemOps'[q] = problemOps[q]
      /\ problemOps'[o].poll = problemOps[o].poll /\ problemOps[o].poll = problemPoll
      /\ Snap(o)' = snapshot /\ problemOps'[o].applied /\ ~ problemOps[o].applied
  BY <1>0 DEF ApplyProblem, HasAuthority, ProblemRecords, OpsTyped, ProblemsInOrder, Begun, Snap
<1>2. AppliedSnapshots' = AppliedSnapshots \cup {o} /\ o \notin AppliedSnapshots
  BY <1>0, <1>1 DEF AppliedSnapshots
<1>3. ASSUME NEW T \in SUBSET AppliedSnapshots', o \in T PROVE IsNewest(o, T, problemOps')
  <2>1. \A q \in ProblemOps : problemOps'[q].poll \in Polls \cup {None}
    BY <1>0, <1>1 DEF ProblemRecords
  <2>2. PollsAreOwn(ProblemOps, problemOps', problemPoll)
    <3>1. problemPoll.generation <= problemPoll.generation /\ problemPoll.epoch <= problemPoll.epoch
      BY <1>0 DEF Polls
    <3>2. \A q \in ProblemOps : problemOps[q].poll \in Polls \cup {None}
      BY <1>0 DEF ProblemRecords
    <3> QED  BY <1>0, <1>1, <3>1, <3>2, QuietKeepsOwn DEF ProblemsInOrder
  <2>3. \A q \in T : q \in ProblemOps /\ problemOps'[q].poll # None
    BY <1>0, <1>1, <1>2 DEF AppliedSnapshots, ProblemsInOrder
  <2> QED  BY <1>0, <1>1, <1>3, <2>1, <2>2, <2>3, HolderIsNewest
<1>4. \A q \in AppliedSnapshots : q \in ProblemOps \ {o} /\ problemOps'[q] = problemOps[q]
  BY <1>1, <1>2 DEF AppliedSnapshots
<1>5. problems' = [p \in Problems |-> Projected(p, snapshot)]
  BY DEF ApplyProblem
<1>6. ASSUME NEW p \in Problems
      PROVE  /\ problems'[p] \in ProblemRows \cup {None}
             /\ problems'[p] = None <=> ReportingSnapshots(p)' = {}
             /\ problems'[p] # None =>
                   \E told \in TellingSnapshots(p)', seen \in ReportingSnapshots(p)' :
                       /\ IsNewest(told, TellingSnapshots(p), problemOps)'
                       /\ IsNewest(seen, ReportingSnapshots(p), problemOps)'
                       /\ IsActive(p)' <=> p \in Reported(Snap(told))' \ Snap(told)'.recovered
                       /\ problems'[p].view = Snap(seen)'.active[p]
  <2> DEFINE reports == p \in Reported(snapshot)
             tells == snapshot.complete \/ reports \/ p \in snapshot.recovered
  <2>1. problems'[p] = Projected(p, snapshot) /\ problems[p] \in ProblemRows \cup {None}
    BY <1>5 DEF ProblemsShown
  <2>2. /\ \A q \in AppliedSnapshots : Snap(q)' = Snap(q) /\ Reported(Snap(q))' = Reported(Snap(q))
        /\ Reported(Snap(o))' = Reported(snapshot)
    BY <1>1, <1>4 DEF Snap, Reported
  <2>3. /\ ReportingSnapshots(p)' = ReportingSnapshots(p) \cup (IF reports THEN {o} ELSE {})
        /\ TellingSnapshots(p)' = TellingSnapshots(p) \cup (IF tells THEN {o} ELSE {})
    BY <1>1, <1>2, <2>2 DEF ReportingSnapshots, TellingSnapshots
  <2>4. /\ ReportingSnapshots(p) \subseteq AppliedSnapshots
        /\ TellingSnapshots(p) \subseteq AppliedSnapshots
    BY DEF ReportingSnapshots, TellingSnapshots
  <2>5. /\ reports => o \in ReportingSnapshots(p)' /\ IsNewest(o, ReportingSnapshots(p), problemOps)'
        /\ tells => o \in TellingSnapshots(p)' /\ IsNewest(o, TellingSnapshots(p), problemOps)'
    <3>1. /\ ReportingSnapshots(p)' \subseteq AppliedSnapshots'
          /\ TellingSnapshots(p)' \subseteq AppliedSnapshots'
      BY <1>2, <2>3, <2>4
    <3> QED  BY <1>3, <2>3, <3>1
  <2>6. CASE reports
    <3>1. snapshot.active[p] \in Views
      BY <1>0, <2>6 DEF Snapshots, Reported
    <3>2. /\ p \in Ended(snapshot) <=> p \in snapshot.recovered
          /\ problems'[p] \in ProblemRows /\ problems'[p].view = snapshot.active[p]
          /\ problems'[p].state = (IF p \in Ended(snapshot) THEN "resolved" ELSE "active")
      BY <2>1, <2>6, <3>1 DEF Projected, ProblemRows, Ended, Omitted
    <3>3. problems'[p] # None
      BY <3>2, ProblemNoneAssumption
    <3>4. IsActive(p)' <=> p \in Reported(Snap(o))' \ Snap(o)'.recovered
      BY <1>1, <2>2, <2>6, <3>2, <3>3 DEF IsActive
    <3> QED  BY <1>1, <2>3, <2>5, <2>6, <3>2, <3>3, <3>4
  <2>7. CASE ~ reports /\ p \in Ended(snapshot)
    <3>1. /\ IsActive(p) /\ tells
          /\ problems[p] # None /\ problems[p] \in ProblemRows
      BY <2>1, <2>7 DEF Ended, Omitted, IsActive
    <3>2. /\ problems'[p] \in ProblemRows /\ problems'[p].view = problems[p].view
          /\ problems'[p].state = "resolved"
      BY <2>1, <2>7, <3>1 DEF Projected, ProblemRows
    <3>3. problems'[p] # None /\ ~ IsActive(p)'
      BY <3>2, ProblemNoneAssumption DEF IsActive
    <3>4. PICK seen \in ReportingSnapshots(p) :
              /\ IsNewest(seen, ReportingSnapshots(p), problemOps)
              /\ problems[p].view = Snap(seen).active[p]
      BY <3>1 DEF ProblemsShown
    <3>5. IsNewest(seen, ReportingSnapshots(p), problemOps)'
      BY <1>4, <2>3, <2>4, <2>7, <3>4, NewestStays
    <3> QED  BY <2>2, <2>3, <2>4, <2>5, <2>7, <3>1, <3>2, <3>3, <3>4, <3>5
  <2>8. CASE ~ reports /\ p \notin Ended(snapshot)
    <3>1. problems'[p] = problems[p] /\ (IsActive(p)' <=> IsActive(p))
      BY <2>1, <2>8 DEF Projected, IsActive
    <3>2. tells => ~ IsActive(p)
      BY <2>8 DEF Ended, Omitted
    <3>3. ReportingSnapshots(p)' = ReportingSnapshots(p)
      BY <2>3, <2>8
    <3>4. SUFFICES ASSUME problems[p] # None
                   PROVE  \E told \in TellingSnapshots(p)', seen \in ReportingSnapshots(p)' :
                             /\ IsNewest(told, TellingSnapshots(p), problemOps)'
                             /\ IsNewest(seen, ReportingSnapshots(p), problemOps)'
                             /\ IsActive(p)' <=> p \in Reported(Snap(told))' \ Snap(told)'.recovered
                             /\ problems'[p].view = Snap(seen)'.active[p]
      BY <2>1, <3>1, <3>3 DEF ProblemsShown
    <3>5. PICK told \in TellingSnapshots(p), seen \in ReportingSnapshots(p) :
              /\ IsNewest(told, TellingSnapshots(p), problemOps)
              /\ IsNewest(seen, ReportingSnapshots(p), problemOps)
              /\ IsActive(p) <=> p \in Reported(Snap(told)) \ Snap(told).recovered
              /\ problems[p].view = Snap(seen).active[p]
      BY <3>4 DEF ProblemsShown
    <3>6. IsNewest(seen, ReportingSnapshots(p), problemOps)'
      BY <1>4, <2>4, <3>3, <3>5, NewestStays
    <3>7. CASE tells
      BY <2>2, <2>4, <2>5, <2>8, <3>1, <3>2, <3>3, <3>5, <3>6, <3>7
    <3>8. CASE ~ tells
      <4>1. TellingSnapshots(p)' = TellingSnapshots(p)
        BY <2>3, <3>8
      <4>2. IsNewest(told, TellingSnapshots(p), problemOps)'
        BY <1>4, <2>4, <3>5, <4>1, NewestStays
      <4> QED  BY <2>2, <2>4, <3>1, <3>3, <3>5, <3>6, <4>1, <4>2
    <3> QED  BY <3>7, <3>8
  <2> QED  BY <2>6, <2>7, <2>8
<1> QED  BY <1>5, <1>6 DEF ProblemsShown

\* Every step keeps what the problems show.
LEMMA ProblemsKept ==
  ASSUME OpsTyped, AdmissionsAreFresh, ProblemsInOrder, ProblemsShown, [HealthNext]_healthVars
  PROVE  ProblemsShown'
<1>0. \A o \in ProblemOps : problemOps[o] \in ProblemRecords
  BY DEF OpsTyped
<1>1. CASE UNCHANGED <<problems, problemOps>>
  <2>1. AppliedSnapshots' = AppliedSnapshots
    BY <1>1 DEF AppliedSnapshots
  <2> QED  BY <1>1, <2>1, ProblemsStay
<1>2. CASE ProblemStep
  <2>1. ASSUME NEW o \in ProblemOps, EnqueueProblem(o) \/ ClaimProblem(o) \/ RetireProblem(o)
        PROVE  ProblemsShown'
    <3>1. /\ \A q \in ProblemOps : problemOps'[q].applied = problemOps[q].applied
          /\ \A q \in ProblemOps \ {o} : problemOps'[q] = problemOps[q]
          /\ problemOps[o].state \in Begun /\ UNCHANGED problems
      BY <1>0, <2>1 DEF EnqueueProblem, ClaimProblem, RetireProblem, ProblemRecords, OpsTyped, Begun,
         ProblemsInOrder
    <3>2. AppliedSnapshots' = AppliedSnapshots /\ o \notin AppliedSnapshots
      BY <3>1 DEF AppliedSnapshots, ProblemsInOrder
    <3>3. \A q \in AppliedSnapshots : q \in ProblemOps \ {o}
      BY <3>2 DEF AppliedSnapshots
    <3> QED  BY <3>1, <3>2, <3>3, ProblemsStay
  <2>2. ASSUME NEW e \in ProblemEpochs, RecoverProblem(e) PROVE ProblemsShown'
    <3>1. \A q \in ProblemOps : /\ problemOps'[q].applied = problemOps[q].applied
                                /\ problemOps'[q].poll = problemOps[q].poll
                                /\ problemOps'[q].snapshot = problemOps[q].snapshot
      BY <1>0, <2>2 DEF RecoverProblem, ProblemRecords
    <3>2. AppliedSnapshots' = AppliedSnapshots /\ AppliedSnapshots \subseteq ProblemOps
      BY <3>1 DEF AppliedSnapshots
    <3> QED  BY <2>2, <3>1, <3>2, ProblemsStay DEF RecoverProblem
  <2> QED
    BY <1>1, <1>2, <2>1, <2>2, SnapshotIsShown DEF ProblemStep, CheckAuthority, AbortProblem
<1> QED
  BY <1>1, <1>2 DEF HealthNext, RecomputeHealth, Crash, healthVars, problemVars

\* Whatever the order in which polls of the problems complete, between checks that are seconds
\* apart, recoveries and crashes: a problem is as the newest applied snapshot that says anything
\* of it says (complete_zabbix_problem_state).
THEOREM ActiveFollows == HealthSpec => []ActiveFollowsSnapshots
<1> DEFINE Inv == OpsTyped /\ AdmissionsAreFresh /\ InventoryInOrder /\ ProblemsInOrder
                  /\ ProblemsShown
<1>1. HealthInit => Inv
  <2>1. HealthInit => AppliedSnapshots = {} /\ problems = [p \in Problems |-> None]
    BY DEF HealthInit, ProblemInit, AppliedSnapshots, UnaskedProblems
  <2>2. HealthInit => ProblemsShown
    BY <2>1 DEF ProblemsShown, ReportingSnapshots
  <2> QED  BY <2>2, InitTyped, InitFresh, InitInOrder
<1>2. Inv /\ [HealthNext]_healthVars => Inv'
  BY StepTyped, StepFresh, StepInOrder, ProblemsKept
<1>3. Inv => ActiveFollowsSnapshots
  <2> SUFFICES ASSUME Inv, NEW p \in Problems
               PROVE  /\ problems[p] = None <=> ReportingSnapshots(p) = {}
                      /\ problems[p] # None =>
                            LET newest == Snap(Newest(TellingSnapshots(p), problemOps))
                            IN  /\ IsActive(p) <=> p \in Reported(newest) \ newest.recovered
                                /\ problems[p].view =
                                      Snap(Newest(ReportingSnapshots(p), problemOps)).active[p]
    BY DEF ActiveFollowsSnapshots, TellingSnapshots, ReportingSnapshots, Snap
  <2>1. \A o \in AppliedSnapshots : problemOps[o].poll \in Polls
    BY DEF AppliedSnapshots, OpsTyped, ProblemRecords, ProblemsInOrder
  <2>2. CASE problems[p] # None
    <3>1. PICK told \in TellingSnapshots(p), seen \in ReportingSnapshots(p) :
              /\ IsNewest(told, TellingSnapshots(p), problemOps)
              /\ IsNewest(seen, ReportingSnapshots(p), problemOps)
              /\ IsActive(p) <=> p \in Reported(Snap(told)) \ Snap(told).recovered
              /\ problems[p].view = Snap(seen).active[p]
      BY <2>2 DEF ProblemsShown
    <3>2. \A o \in TellingSnapshots(p) \cup ReportingSnapshots(p) : problemOps[o].poll \in Polls
      BY <2>1 DEF TellingSnapshots, ReportingSnapshots
    <3>3. /\ Newest(TellingSnapshots(p), problemOps) = told
          /\ Newest(ReportingSnapshots(p), problemOps) = seen
      BY <3>1, <3>2, NewestIs
    <3> QED  BY <2>2, <3>1, <3>3 DEF ProblemsShown
  <2>3. CASE problems[p] = None
    BY <2>3 DEF ProblemsShown
  <2> QED  BY <2>2, <2>3
<1> QED  BY <1>1, <1>2, <1>3, PTL DEF HealthSpec

-----------------------------------------------------------------------------
(* Current health *)

\* Current health was derived from a snapshot there is.
HealthCitesSnapshot ==
    /\ DOMAIN health = Hosts
    /\ \A h \in Hosts : health[h] # None /\ health[h].evidence = "current" =>
          health[h].cites \in ProblemOps /\ problemOps[health[h].cites].snapshot # None

\* The class of a host depends on the problems alone.
LEMMA ClassOfProblems ==
  ASSUME UNCHANGED problems, NEW h PROVE ClassWhenCurrent(h)' = ClassWhenCurrent(h)
<1>1. Active(h)' = Active(h)
  BY DEF Active, IsActive
<1> QED  BY <1>1 DEF ClassWhenCurrent

\* Health is derived from what it cites.
LEMMA RecomputedMatches ==
  ASSUME HealthCitesSnapshot, CurrentHealthMatchesProblems, NEW h \in Hosts, RecomputeHealth(h)
  PROVE  HealthCitesSnapshot' /\ CurrentHealthMatchesProblems'
<1> DEFINE cited == IF SnapshotsOfPoll = {} THEN None ELSE CHOOSE o \in SnapshotsOfPoll : TRUE
<1>1. /\ DOMAIN health' = DOMAIN health
      /\ \A g \in Hosts \ {h} : health'[g] = health[g]
      /\ health'[h].evidence = EvidenceOf(h) /\ health'[h].cites = cited
      /\ EvidenceOf(h) = "current" => health'[h].class = ClassWhenCurrent(h)
      /\ UNCHANGED <<problemOps, problemPoll, problems>>
  BY DEF RecomputeHealth, HealthCitesSnapshot, problemVars
<1>2. EvidenceOf(h) = "current" => SnapshotsOfPoll # {}
  BY DEF EvidenceOf
<1>3. EvidenceOf(h) = "current" => cited \in SnapshotsOfPoll
  BY <1>2
<1>4. EvidenceOf(h) = "current" => cited \in ProblemOps /\ problemOps[cited].snapshot # None
  BY <1>3 DEF SnapshotsOfPoll
<1>5. \A g \in Hosts : ClassWhenCurrent(g)' = ClassWhenCurrent(g)
  BY <1>1, ClassOfProblems
<1> HIDE DEF cited
<1>6. HealthCitesSnapshot'
  BY <1>1, <1>4 DEF HealthCitesSnapshot
<1>7. CurrentHealthMatchesProblems'
  BY <1>1, <1>5 DEF CurrentHealthMatchesProblems
<1> QED  BY <1>6, <1>7

\* An operation with a snapshot keeps it, and a step that leaves the poll of one newest neither
\* moves the poll nor the problems.
LEMMA CitedStays ==
  ASSUME OpsTyped, AdmissionsAreFresh, ProblemsInOrder, [HealthNext]_healthVars,
         NEW o \in ProblemOps, problemOps[o].snapshot # None
  PROVE  /\ problemOps'[o].snapshot # None
         /\ problemOps'[o].poll = problemPoll' =>
               problemOps[o].poll = problemPoll /\ UNCHANGED problems
<1>0. /\ \A q \in ProblemOps : problemOps[q] \in ProblemRecords
      /\ problemPoll \in Polls /\ problemOps[o].poll \in Polls
      /\ problemOps[o].state \notin Begun
  BY DEF OpsTyped, AdmissionsAreFresh, Fresh, ProblemsInOrder, ProblemRecords
<1>1. CASE UNCHANGED <<problemOps, problemPoll, problems>>
  BY <1>1
<1>2. CASE ProblemStep
  <2>1. ASSUME NEW q \in ProblemOps, EnqueueProblem(q) \/ RetireProblem(q)
        PROVE  problemOps'[o] = problemOps[o] /\ UNCHANGED <<problemPoll, problems>>
    BY <1>0, <2>1 DEF EnqueueProblem, RetireProblem, OpsTyped, Begun, ProblemsInOrder
  <2>2. ASSUME NEW q \in ProblemOps, ClaimProblem(q)
        PROVE  problemOps'[o] = problemOps[o] /\ problemOps[o].poll # problemPoll'
    <3>1. problemOps'[o] = problemOps[o] /\ problemPoll' = NextPoll(problemPoll)
      BY <1>0, <2>2 DEF ClaimProblem, OpsTyped, Begun
    <3>2. problemOps[o].poll.generation <= problemPoll.generation /\ problemOps[o].poll # None
      BY DEF ProblemsInOrder, PollsAreOwn
    <3> QED  BY <1>0, <3>1, <3>2 DEF NextPoll, Polls
  <2>3. ASSUME NEW q \in ProblemOps, ApplyProblem(q)
        PROVE  problemOps'[o] = problemOps[o] /\ problemOps[o].poll # problemPoll'
    <3>1. /\ problemOps'[o] = problemOps[o] /\ problemPoll' = problemPoll /\ q # o
          /\ problemOps[q].poll = problemPoll
      BY <1>0, <2>3 DEF ApplyProblem, HasAuthority, OpsTyped, Begun, ProblemsInOrder
    <3>2. problemOps[o].poll # None /\ problemOps[q].poll # None
      BY <1>0, <3>1, HostNoneAssumption DEF Polls
    <3> QED  BY <3>1, <3>2 DEF ProblemsInOrder, PollsAreOwn
  <2>4. ASSUME NEW e \in ProblemEpochs, RecoverProblem(e)
        PROVE  /\ problemOps'[o].snapshot = problemOps[o].snapshot
               /\ problemOps'[o].poll = problemOps[o].poll /\ problemOps[o].poll # problemPoll'
    <3>1. /\ problemOps'[o].snapshot = problemOps[o].snapshot
          /\ problemOps'[o].poll = problemOps[o].poll
      BY <1>0, <2>4 DEF RecoverProblem, ProblemRecords
    <3>2. problemPoll'.epoch = e /\ e \in Nat /\ e > problemPoll.epoch
      BY <1>0, <2>4, ProblemEpochsAssumption DEF RecoverProblem, Successor, Polls
    <3>3. problemOps[o].poll.epoch <= problemPoll.epoch
      BY DEF ProblemsInOrder, PollsAreOwn
    <3> QED  BY <1>0, <3>1, <3>2, <3>3 DEF Polls
  <2> QED
    BY <1>1, <1>2, <2>1, <2>2, <2>3, <2>4 DEF ProblemStep, CheckAuthority, AbortProblem
<1> QED
  BY <1>1, <1>2 DEF HealthNext, RecomputeHealth, Crash, healthVars, problemVars

\* Every step keeps current health true to the problems.
LEMMA HealthKept ==
  ASSUME OpsTyped, AdmissionsAreFresh, ProblemsInOrder, HealthCitesSnapshot,
         CurrentHealthMatchesProblems, [HealthNext]_healthVars
  PROVE  HealthCitesSnapshot' /\ CurrentHealthMatchesProblems'
<1>1. CASE UNCHANGED health
  <2>1. HealthCitesSnapshot'
    BY <1>1, CitedStays DEF HealthCitesSnapshot
  <2>2. ASSUME NEW h \in Hosts, health[h] # None, health[h].evidence = "current",
               problemOps'[health[h].cites].poll = problemPoll'
        PROVE  health[h].class = ClassWhenCurrent(h)'
    <3>1. problemOps[health[h].cites].poll = problemPoll /\ UNCHANGED problems
      BY <2>2, CitedStays DEF HealthCitesSnapshot
    <3> QED  BY <2>2, <3>1, ClassOfProblems DEF CurrentHealthMatchesProblems
  <2> QED  BY <1>1, <2>1, <2>2 DEF CurrentHealthMatchesProblems
<1>2. ASSUME NEW h \in Hosts, RecomputeHealth(h) PROVE HealthCitesSnapshot' /\ CurrentHealthMatchesProblems'
  BY <1>2, RecomputedMatches
<1> QED  BY <1>1, <1>2 DEF HealthNext, Crash, healthVars

\* Current health that cites the newest poll is what the problems amount to: they do not change
\* behind it until the next poll is claimed (recompute_health_projection).
THEOREM CurrentHealthMatches == HealthSpec => []CurrentHealthMatchesProblems
<1> DEFINE Inv == OpsTyped /\ AdmissionsAreFresh /\ InventoryInOrder /\ ProblemsInOrder
                  /\ HealthCitesSnapshot /\ CurrentHealthMatchesProblems
<1>1. HealthInit => Inv
  <2>1. HealthInit => HealthCitesSnapshot /\ CurrentHealthMatchesProblems
    BY DEF HealthInit, HealthCitesSnapshot, CurrentHealthMatchesProblems
  <2> QED  BY <2>1, InitTyped, InitFresh, InitInOrder
<1>2. Inv /\ [HealthNext]_healthVars => Inv'
  BY StepTyped, StepFresh, StepInOrder, HealthKept
<1> QED  BY <1>1, <1>2, PTL DEF HealthSpec
=============================================================================
