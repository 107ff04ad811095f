----------------------- MODULE HistoryReconciliation -----------------------
(***************************************************************************)
(* When the history of a metric is complete                                *)
(* (sql/d2-open-rel-030/004 to 010).                                       *)
(*                                                                         *)
(* Workers sweep windows of the provider's history into the accepted one   *)
(* and finalize it up to a moment; the owner moves the authority, and the  *)
(* provider adds late rows and corrects old ones.  Every function locks    *)
(* the row of the authority, then the row of the stream (010), before it   *)
(* reads anything else, so each is one step.  The gap function locks the   *)
(* stream alone and reads nothing else.  A call that raises changes        *)
(* nothing and is left out; so is the generation a worker passes, since a  *)
(* call that passes another than the current one raises.                   *)
(***************************************************************************)
EXTENDS Absent, Integers, FiniteSets, FiniteSetsExt

CONSTANTS
    Observations,          \* observation_id, of one stream
    Contents,              \* numeric_value
    SupportedFloor,        \* supported_history_floor
    MaxTime,               \* bound on all timestamps
    MaxAuthority,          \* bound on authority_generation
    MaxRevision,           \* bound on provider_dataset_revision
    MaxRuns                \* bound on the runs

Times == 0 .. MaxTime

VARIABLES
    providerAuthority,     \* the row of provider_authority
    providerHistory,       \* provider_visible_history
    acceptedHistory,       \* accepted_history
    stream,                \* the row of stream_state
    runs                   \* reconciliation_run

historyVars == <<providerAuthority, providerHistory, acceptedHistory, stream, runs>>

ProviderRows == [at : Times, visible : Times, content : Contents]

ASSUME ReconciliationConstants ==
    MaxTime \in Nat /\ SupportedFloor \in Times /\ None \notin Times \cup ProviderRows

\* What makes two copies of an observation the same.
CanonicalRow(row) == [at |-> row.at, content |-> row.content]

\* A new stream: the owner inserts its authority and its state, and there are no rows.
HistoryInit ==
    /\ providerAuthority \in [generation : {1}, snapshot : Times, finality : Times,
                              required : Times, revision : {1}]
    /\ providerAuthority.finality <= providerAuthority.snapshot
    /\ providerAuthority.required <= providerAuthority.snapshot
    /\ providerHistory = [o \in Observations |-> None]
    /\ acceptedHistory = [o \in Observations |-> None]
    /\ stream = [state |-> "reconciliation_required", finalized |-> None, covered |-> None]
    /\ runs = {}

\* Coverage is lost, a gap is not.
Uncovered(s) ==
    [s EXCEPT !.covered = None,
              !.state = IF s.state = "gap" THEN "gap" ELSE "reconciliation_required"]

\* advance_provider_authority
AdvanceProviderAuthority(snapshot, finality, required) ==
    /\ providerAuthority.generation < MaxAuthority
    /\ providerAuthority.snapshot <= snapshot
    /\ providerAuthority.finality <= finality /\ finality <= snapshot
    /\ providerAuthority.required <= required /\ required <= snapshot
    /\ providerAuthority' =
          [generation |-> providerAuthority.generation + 1, snapshot |-> snapshot,
           finality |-> finality, required |-> required,
           revision |-> providerAuthority.revision]
    /\ stream' = Uncovered(stream)
    /\ UNCHANGED <<providerHistory, acceptedHistory, runs>>

\* provider_history_mutation_guard: an insert or an update of a row; rows are never deleted.
MutateProviderHistory(o, row) ==
    /\ providerAuthority.revision < MaxRevision
    /\ providerHistory[o] # row
    /\ providerHistory' = [providerHistory EXCEPT ![o] = row]
    /\ providerAuthority' = [providerAuthority EXCEPT !.revision = @ + 1]
    /\ stream' = Uncovered(stream)
    /\ UNCHANGED <<acceptedHistory, runs>>

-----------------------------------------------------------------------------
(* Sweeps *)

\* The runs that count: of this generation and of the present revision.
CurrentRuns(generation, required) ==
    {run \in runs : run.generation = generation /\ run.snapshot >= required
                    /\ run.revision = providerAuthority.revision}

\* Each moment from the floor on is followed in one of the runs.
Chains(some, through) ==
    /\ \E run \in some : run.from <= SupportedFloor /\ SupportedFloor <= run.to
    /\ \A t \in SupportedFloor .. through - 1 :
          \E run \in some : run.from <= t /\ t < run.to

\* contiguous_covered_through: how far windows that meet reach from the floor.
CoveredThrough(some) ==
    IF Chains(some, SupportedFloor)
    THEN Max({t \in SupportedFloor .. MaxTime : Chains(some, t)})
    ELSE None

Within(t, from, to) == from <= t /\ t <= to

\* Whatever its visibility, an accepted row that the provider has corrected.
Conflict(o, from, to) ==
    /\ providerHistory[o] # None /\ acceptedHistory[o] # None
    /\ Within(acceptedHistory[o].at, from, to) \/ Within(providerHistory[o].at, from, to)
    /\ acceptedHistory[o] # CanonicalRow(providerHistory[o])

\* A row that was not accepted before, if it is visible at the snapshot.
Discovered(o, from, to) ==
    /\ acceptedHistory[o] = None /\ providerHistory[o] # None
    /\ Within(providerHistory[o].at, from, to)
    /\ providerHistory[o].visible <= providerAuthority.snapshot

\* sweep: a conflict aborts it.
Sweep(from, to) ==
    LET run == [generation |-> providerAuthority.generation,
                revision |-> providerAuthority.revision,
                snapshot |-> providerAuthority.snapshot, from |-> from, to |-> to]
    IN
    /\ from <= to
    /\ Cardinality(runs) < MaxRuns
    /\ \A o \in Observations : ~Conflict(o, from, to)
    /\ acceptedHistory' =
          [o \in Observations |->
              IF Discovered(o, from, to) THEN CanonicalRow(providerHistory[o]) ELSE acceptedHistory[o]]
    /\ runs' = runs \cup {run}
    /\ stream' = [stream EXCEPT
                     !.covered = CoveredThrough(CurrentRuns(run.generation, 0) \cup {run}),
                     !.state = IF @ = "gap" THEN "gap" ELSE "provisional"]
    /\ UNCHANGED <<providerAuthority, providerHistory>>

-----------------------------------------------------------------------------
(* Finalization *)

\* Mutant form: the watermark that was finalized before is not looked at again.
RequestedOnly(through) == through

\* The watermark that was finalized once must be covered again.
RequiredThrough(through) ==
    IF stream.finalized = None \/ stream.finalized < through THEN through ELSE stream.finalized

\* try_finalize
TryFinalize(through) ==
    LET required == RequiredThrough(through)
        covered == CoveredThrough(CurrentRuns(providerAuthority.generation,
                                              providerAuthority.required))
        reached == covered # None /\ required <= covered
                   /\ required <= providerAuthority.finality
    IN
    /\ stream.state # "gap"
    /\ stream' = [state |-> IF reached THEN "complete" ELSE "reconciliation_required",
                  finalized |-> IF reached
                                THEN IF stream.finalized = None \/ stream.finalized < required
                                     THEN required ELSE stream.finalized
                                ELSE stream.finalized,
                  covered |-> covered]
    /\ UNCHANGED <<providerAuthority, providerHistory, acceptedHistory, runs>>

\* record_unrecoverable_gap
RecordUnrecoverableGap(from) ==
    /\ stream' = [stream EXCEPT
                     !.state = "gap",
                     !.finalized = IF @ # None /\ from < @ THEN from ELSE @]
    /\ UNCHANGED <<providerAuthority, providerHistory, acceptedHistory, runs>>

-----------------------------------------------------------------------------

HistoryNext ==
    \/ \E snapshot, finality, required \in Times :
          AdvanceProviderAuthority(snapshot, finality, required)
    \/ \E o \in Observations, row \in ProviderRows : MutateProviderHistory(o, row)
    \/ \E from, to \in Times : Sweep(from, to)
    \/ \E through \in Times : TryFinalize(through) \/ RecordUnrecoverableGap(through)

HistorySpec == HistoryInit /\ [][HistoryNext]_historyVars

-----------------------------------------------------------------------------

ReachedTimes == Times \cup {None}

HistoryTypeOK ==
    /\ providerAuthority \in [generation : 1 .. MaxAuthority, snapshot : Times, finality : Times,
                              required : Times, revision : 1 .. MaxRevision]
    /\ providerHistory \in [Observations -> ProviderRows \cup {None}]
    /\ acceptedHistory \in [Observations -> [at : Times, content : Contents] \cup {None}]
    /\ stream \in [state : {"provisional", "reconciliation_required", "complete", "gap"},
                   finalized : ReachedTimes, covered : ReachedTimes]
    /\ \A run \in runs : run.generation <= providerAuthority.generation
                         /\ run.revision <= providerAuthority.revision

\* The accepted copy of an observation is the provider's, as far as either is in the interval
\* and the provider's is visible.
Agrees(o, from, to) ==
    LET ours == acceptedHistory[o]  theirs == providerHistory[o] IN
    /\ ours # None /\ Within(ours.at, from, to) => theirs # None /\ ours = CanonicalRow(theirs)
    /\ theirs # None /\ Within(theirs.at, from, to) /\ theirs.visible <= providerAuthority.snapshot
          => ours = CanonicalRow(theirs)

\* History that says it is complete is: up to the finalized watermark, which the owner has
\* declared final, the accepted rows are the rows of the provider, however late rows, corrections,
\* moves of the authority, partial sweeps and finalizations came one after another.
CompleteIsAccepted ==
    stream.state = "complete" =>
        /\ stream.finalized # None /\ stream.finalized <= providerAuthority.finality
        /\ \A o \in Observations : Agrees(o, SupportedFloor, stream.finalized)
=============================================================================
