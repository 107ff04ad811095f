----------------------------- MODULE MetricPolls -----------------------------
(***************************************************************************)
(* The metrics of a monitored source: their definitions and their current  *)
(* values (sql/wave4/020 to 039, src/jlmirror_monitoring).                 *)
(*                                                                         *)
(* Two streams of polls, each with an epoch, a generation and a runtime    *)
(* admission of its own, run over one source.  An operation is enqueued,   *)
(* claimed and completed in three transactions, and in between a worker    *)
(* reads the provider without any lock.  Only the newest claim of a stream *)
(* is applied when it completes.  A claim of the current values ends the   *)
(* older ones that still run, and so does recovery; one of the definitions *)
(* leaves them to their own completion.                                    *)
(*                                                                         *)
(* A metric stands for the item of the provider it is derived from, and a  *)
(* shape for what may not change about it: its host and its value kind.    *)
(* A definition and its binding are marked and confirmed together: one     *)
(* `trusted` stands for the evidence of both.  What the host inventory     *)
(* does to the source and its hosts is external.                           *)
(* Left out: names, units, keys, transitions, the revisions of the source, *)
(* which nothing changes after its creation, and times.                    *)
(***************************************************************************)
EXTENDS Absent, Naturals, Sequences

CONSTANTS
    Metrics,          \* the items of the provider
    Items,            \* what may be read of an item: [shape, enabled]
    MonitoredHosts,   \* the hosts of the source
    HostOf,           \* the host of each shape
    Samples,          \* [clock, value]: lastclock with lastns, and the value
    MaxMetricPolls,   \* bound on the operations
    MetricEpochs      \* bound: the epochs recovery may move to

ASSUME MetricEpochsAssumption == MetricEpochs \subseteq Nat
ASSUME HostOfAssumption == \A item \in Items : HostOf[item.shape] \in MonitoredHosts

\* A read of the items: those of some metrics
ItemReads == UNION {[some -> Items] : some \in SUBSET Metrics}

\* metric_definition with its provider binding: `confirmed` and `retired` are generations.
DefinitionRecords ==
    [shape : {item.shape : item \in Items}, active : BOOLEAN, trusted : BOOLEAN,
     enabled : {item.enabled : item \in Items}, confirmed : Nat, retired : Nat \cup {None}]

ASSUME NoneAssumption == None \notin Nat /\ None \notin ItemReads /\ None \notin DefinitionRecords

VARIABLES
    sourceIsCurrent,  \* operational_evidence_state = 'current'
    hostsInScope,     \* the hosts that are present and in scope, on current evidence
    streams,          \* poll epoch, poll generation and admission of each stream
    awaiting,         \* how many operations of each stream are pending: they are all alike
    metricPolls,      \* the other operations, in the order they were claimed
    definitions,      \* metric_definition with its provider binding, None before the first
    acceptances,      \* monitoring_metric_observation_acceptance
    currentValues     \* the acceptance metric_current_state shows, None before the first

metricVars ==
    <<sourceIsCurrent, hostsInScope, streams, awaiting, metricPolls, definitions, acceptances,
      currentValues>>

Streams == {"definitions", "values"}

\* Both streams as their first recovery leaves them: a new source is at epoch 1 and without
\* admissions, where nothing can be claimed.
MetricInit ==
    /\ sourceIsCurrent = TRUE
    /\ hostsInScope = MonitoredHosts
    /\ streams = [s \in Streams |-> [epoch |-> 2, generation |-> 0, admitted |-> TRUE]]
    /\ awaiting = [s \in Streams |-> 0]
    /\ metricPolls = <<>>
    /\ definitions = [m \in Metrics |-> None]
    /\ acceptances = {}
    /\ currentValues = [m \in Metrics |-> None]

-----------------------------------------------------------------------------
(* What both streams share *)

PollIds == DOMAIN metricPolls

InFlight(stream) ==
    {p \in PollIds : metricPolls[p].stream = stream /\ metricPolls[p].state = "running"}

\* Mutant form: a later claim of the epoch does not take the authority of this one.
OfCurrentEpoch(poll) ==
    /\ sourceIsCurrent /\ streams[poll.stream].admitted
    /\ poll.epoch = streams[poll.stream].epoch

\* The source is current and admitted, and no recovery and no later claim came since.
HoldsPoll(poll) ==
    /\ sourceIsCurrent /\ streams[poll.stream].admitted
    /\ poll.epoch = streams[poll.stream].epoch
    /\ poll.generation = streams[poll.stream].generation

\* The polls, with those of a set ended without success.
Reconciled(ended) ==
    [p \in PollIds |-> IF p \in ended
                       THEN [metricPolls[p] EXCEPT !.state = "reconciliation_required",
                                                      !.targets = None]
                       ELSE metricPolls[p]]

\* Mutant form: recovery and claims leave what runs to its own completion.
LeftRunning(stream) == {}

\* wave4_terminalize_superseded_metric_current_state_claims, and the first update of a claim
Superseded(stream) ==
    IF stream = "values"
    THEN {p \in InFlight("values") : metricPolls[p].epoch = streams["values"].epoch}
    ELSE {}

\* enqueue_zabbix_metric_definition_sync, enqueue_zabbix_metric_current_state_sync
EnqueuePoll(stream) ==
    /\ awaiting["definitions"] + awaiting["values"] + Len(metricPolls) < MaxMetricPolls
    /\ sourceIsCurrent
    /\ awaiting' = [awaiting EXCEPT ![stream] = @ + 1]
    /\ UNCHANGED <<sourceIsCurrent, hostsInScope, streams, metricPolls, definitions, acceptances,
                   currentValues>>

\* What a poll of the current values is to read: list_zabbix_metric_current_targets.
IsTarget(m) ==
    /\ definitions[m] # None
    /\ definitions[m].active /\ definitions[m].trusted /\ definitions[m].enabled

Targets == {m \in Metrics : IsTarget(m)}

\* claim_zabbix_metric_definitions; claim_zabbix_metric_current_state and, in the same
\* transaction, the list of its targets
ClaimPoll(stream) ==
    LET generation == streams[stream].generation + 1
    IN  /\ awaiting[stream] > 0
        /\ sourceIsCurrent /\ streams[stream].admitted
        /\ awaiting' = [awaiting EXCEPT ![stream] = @ - 1]
        /\ streams' = [streams EXCEPT ![stream].generation = generation]
        /\ metricPolls' = Append(Reconciled(Superseded(stream)),
               [stream |-> stream, state |-> "running", epoch |-> streams[stream].epoch,
                generation |-> generation, items |-> None,
                targets |-> IF stream = "values" THEN Targets ELSE None])
        /\ UNCHANGED <<sourceIsCurrent, hostsInScope, definitions, acceptances, currentValues>>

\* reestablish_metric_definition_runtime_admission and, for the current values,
\* reestablish_metric_current_state_runtime_admission
RecoverStream(stream, successor) ==
    /\ successor > streams[stream].epoch
    /\ metricPolls' = Reconciled(Superseded(stream))
    /\ streams' = [streams EXCEPT ![stream].epoch = successor, ![stream].admitted = TRUE]
    /\ UNCHANGED <<sourceIsCurrent, hostsInScope, awaiting, definitions, acceptances, currentValues>>

\* A completion that applies nothing: the provider could not be read, what was read is not
\* well formed, or the poll lost its authority.
FailPoll(p) ==
    /\ p \in InFlight(metricPolls[p].stream)
    /\ metricPolls' = Reconciled({p})
    /\ UNCHANGED <<sourceIsCurrent, hostsInScope, streams, awaiting, definitions, acceptances,
                   currentValues>>

-----------------------------------------------------------------------------
(* The definitions *)

OnKnownHost(item) == HostOf[item.shape] \in hostsInScope

\* The item is not what the binding of its metric says it is.
Drifted(m, item) == definitions[m] # None /\ definitions[m].shape # item.shape

\* complete_zabbix_metric_definitions, when the first item that is at fault drifted: only
\* its definition and its binding are marked, and the snapshot is not accepted.
MarkDrift(p, m, item) ==
    /\ p \in InFlight("definitions")
    /\ HoldsPoll(metricPolls[p])
    /\ OnKnownHost(item) /\ Drifted(m, item)
    /\ definitions' = [definitions EXCEPT ![m].trusted = FALSE]
    /\ metricPolls' = Reconciled({p})
    /\ UNCHANGED <<sourceIsCurrent, hostsInScope, streams, awaiting, acceptances, currentValues>>

\* Mutant form: what the binding says is not compared with the item.
HostsKnown(items) == \A m \in DOMAIN items : OnKnownHost(items[m])

\* Every item is of a host in scope and is what it was.
Sound(items) == \A m \in DOMAIN items : OnKnownHost(items[m]) /\ ~Drifted(m, items[m])

\* A metric that the poll found
Confirmed(m, item, poll) ==
    [shape |-> item.shape, active |-> TRUE, trusted |-> TRUE, enabled |-> item.enabled,
     confirmed |-> poll.generation, retired |-> None]

\* wave4_retire_missing_metric_definitions: one that the poll did not find, on a host it
\* would have been found on
Missing(m) ==
    /\ definitions[m] # None /\ definitions[m].active
    /\ HostOf[definitions[m].shape] \in hostsInScope

\* complete_zabbix_metric_definitions, of a snapshot that is accepted
ApplyDefinitions(p, items) ==
    LET poll == metricPolls[p]
    IN  /\ p \in InFlight("definitions")
        /\ HoldsPoll(poll)
        /\ Sound(items)
        /\ definitions' = [m \in Metrics |->
               IF m \in DOMAIN items THEN Confirmed(m, items[m], poll)
               ELSE IF Missing(m)
                    THEN [definitions[m] EXCEPT !.active = FALSE, !.trusted = TRUE,
                                                !.retired = poll.generation]
                    ELSE definitions[m]]
        /\ metricPolls' = [metricPolls EXCEPT ![p].state = "succeeded", ![p].items = items]
        /\ UNCHANGED <<sourceIsCurrent, hostsInScope, streams, awaiting, acceptances, currentValues>>

-----------------------------------------------------------------------------
(* The current values *)

\* What a read of targets may return: a sample of some of them.
SampleReads(targets) == UNION {[some -> Samples] : some \in SUBSET targets}

\* The acceptance of a metric at the clock of a sample
AcceptedAt(m, sample) == {a \in acceptances : a.metric = m /\ a.sample.clock = sample.clock}

\* Every metric is a target still, and no sample contradicts one that was accepted.
Consistent(read) ==
    \A m \in DOMAIN read :
        /\ IsTarget(m)
        /\ \A a \in AcceptedAt(m, read[m]) : a.sample = read[m]

\* The metrics whose sample was not accepted before
NewlyRead(read) == {m \in DOMAIN read : AcceptedAt(m, read[m]) = {}}

\* Mutant form: a sample that was accepted before is shown again.
AnyRead(read) == DOMAIN read

\* The metrics whose current value a read replaces: an exact replay is passed over.
Shown(read) == NewlyRead(read)

\* complete_zabbix_metric_current_state, of a batch that is accepted.  A sample that was
\* accepted before is passed over; any other becomes the current value, whatever its clock.
AcceptValues(p, read) ==
    LET poll == metricPolls[p]
        new == {[metric |-> m, sample |-> read[m], poll |-> p] : m \in NewlyRead(read)}
    IN  /\ p \in InFlight("values")
        /\ HoldsPoll(poll)
        /\ Consistent(read)
        /\ acceptances' = acceptances \cup new
        /\ currentValues' = [m \in Metrics |->
               IF m \in Shown(read)
               THEN CHOOSE a \in acceptances' : a.metric = m /\ a.sample = read[m]
               ELSE currentValues[m]]
        /\ metricPolls' = [metricPolls EXCEPT ![p].state = "succeeded", ![p].targets = None]
        /\ UNCHANGED <<sourceIsCurrent, hostsInScope, streams, awaiting, definitions>>

-----------------------------------------------------------------------------
(* The host inventory, and a crash that empties the admissions, which are not logged *)

SourceMoves ==
    /\ sourceIsCurrent' = ~sourceIsCurrent
    /\ UNCHANGED <<hostsInScope, streams, awaiting, metricPolls, definitions, acceptances,
                   currentValues>>

ScopeMoves(hosts) ==
    /\ hostsInScope' = hosts
    /\ UNCHANGED <<sourceIsCurrent, streams, awaiting, metricPolls, definitions, acceptances,
                   currentValues>>

AdmissionsLost ==
    /\ streams' = [s \in Streams |-> [streams[s] EXCEPT !.admitted = FALSE]]
    /\ UNCHANGED <<sourceIsCurrent, hostsInScope, awaiting, metricPolls, definitions, acceptances,
                   currentValues>>

-----------------------------------------------------------------------------

CompletePoll(p) ==
    \/ FailPoll(p)
    \/ \E m \in Metrics, item \in Items : MarkDrift(p, m, item)
    \/ \E items \in ItemReads : ApplyDefinitions(p, items)
    \/ /\ p \in InFlight("values")
       /\ \E read \in SampleReads(metricPolls[p].targets) : AcceptValues(p, read)

MetricNext ==
    \/ \E stream \in Streams : EnqueuePoll(stream) \/ ClaimPoll(stream)
    \/ \E p \in PollIds : CompletePoll(p)
    \/ \E stream \in Streams, successor \in MetricEpochs : RecoverStream(stream, successor)
    \/ SourceMoves \/ AdmissionsLost
    \/ \E hosts \in SUBSET MonitoredHosts : ScopeMoves(hosts)

MetricSpec == MetricInit /\ [][MetricNext]_metricVars

-----------------------------------------------------------------------------
(* Properties *)

\* The accepted snapshots that list m
Listing(m) ==
    {p \in PollIds : metricPolls[p].items # None /\ m \in DOMAIN metricPolls[p].items}

\* However the polls of a source overlap and whatever recovery comes in between: a definition
\* was last confirmed by the newest accepted snapshot that lists it, it has the shape every
\* snapshot ever accepted said it has, and it is retired by a later snapshot that does not
\* list it, or it is not retired.
DefinitionsFollowPolls ==
    \A m \in Metrics :
        IF definitions[m] = None THEN Listing(m) = {}
        ELSE /\ \A p \in Listing(m) :
                   /\ metricPolls[p].generation <= definitions[m].confirmed
                   /\ metricPolls[p].items[m].shape = definitions[m].shape
             /\ \E p \in Listing(m) : metricPolls[p].generation = definitions[m].confirmed
             /\ definitions[m].active <=> definitions[m].retired = None
             /\ ~definitions[m].active =>
                   /\ definitions[m].retired > definitions[m].confirmed
                   /\ \E p \in PollIds \ Listing(m) :
                         /\ metricPolls[p].items # None
                         /\ metricPolls[p].generation = definitions[m].retired

\* At most one poll of the current values is under way, and it is the newest that was claimed.
OneValuePoll ==
    \A p \in InFlight("values") :
        /\ InFlight("values") = {p}
        /\ metricPolls[p].generation = streams["values"].generation
        /\ metricPolls[p].epoch = streams["values"].epoch

\* Whatever is claimed, recovered and read again, the current value of a metric has one writer
\* at a time and is the observation that was accepted last: a sample that is read again, after
\* another was accepted, does not bring the older one back.
CurrentHasOneWriter ==
    /\ OneValuePoll
    /\ \A m \in Metrics :
          LET mine == {a \in acceptances : a.metric = m}
          IN  IF mine = {} THEN currentValues[m] = None
              ELSE /\ currentValues[m] \in mine
                   /\ \A a \in mine \ {currentValues[m]} :
                         metricPolls[a.poll].generation
                             < metricPolls[currentValues[m].poll].generation
=============================================================================
