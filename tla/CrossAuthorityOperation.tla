----------------------- MODULE CrossAuthorityOperation -----------------------
(***************************************************************************)
(* The operation ledger of src/jlmirror_async/reconciliation.py: effects   *)
(* that cannot commit together with their inbox receipt run as attempts of *)
(* a stable operation.  A lost or ambiguous attempt blocks the operation   *)
(* until append-only reconciliation evidence about that very attempt says  *)
(* what happened.                                                          *)
(*                                                                         *)
(* Time is abstracted: whether an attempt's lease has run out at the       *)
(* observed_at a caller brings is a free choice of each call, which covers *)
(* every clock and every lag.  executor_id and attempt_expires_at are set  *)
(* and cleared together everywhere, so executor_id stands for both.  The   *)
(* admission current-execution authority grants is fresh for each attempt  *)
(* and is named by the attempt's generation.                               *)
(*                                                                         *)
(* The effect authority is external: effects are the attempts whose effect *)
(* took place.  Any holder of an attempt may reach it, however late; once  *)
(* the absence of an attempt's effect has been proven, the authority       *)
(* refuses that attempt for good (this is what the proof means).           *)
(***************************************************************************)
EXTENDS Naturals, FiniteSets, Absent

CONSTANTS
    OperationIds,
    Executors,
    Scopes,        \* authority scopes (tenant_id, owner_contract)
    Revisions,     \* reconciliation revisions
    MaxAttempts    \* bound on attempt_generation

VARIABLES
    operations,    \* _operations: operation id -> operation, None when unknown
    evidence,      \* _reconciliation_evidence: id -> revision -> evidence or None
    attempts,      \* every OperationAttempt handed out; its holder may act late
    effects        \* external: the attempts whose effect took place

opVars == <<operations, evidence, attempts, effects>>

OperationStates == {"prepared", "attempting", "completed", "reconciliation_required",
                    "failed_terminal"}

Resolutions == {"effect_confirmed", "effect_proven_absent", "still_unknown"}

AmbiguityReasons == {"attempt_lease_expired", "ambiguous", "failed"}

\* An EffectResultLink names the attempt whose effect it is the result of.
Outcomes == Nat

Operations == [scope : Scopes, state : OperationStates, attempt_generation : Nat,
               executor_id : Executors \cup {None},
               execution_admission : Nat \cup {None},
               outcome : Outcomes \cup {None},
               ambiguity_reason : AmbiguityReasons \cup {None},
               reconciliation_revision : Revisions \cup {None},
               reconciliation_resolution : Resolutions \cup {None}]

Evidence == [attempt_generation : Nat \ {0}, resolution : Resolutions,
             confirmed_outcome : Outcomes \cup {None}]

ASSUME OperationConstants ==
    /\ None \notin Executors /\ None \notin Scopes /\ None \notin Revisions
    /\ None \notin Nat /\ None \notin Resolutions /\ None \notin Operations
    /\ None \notin Evidence /\ None \notin AmbiguityReasons
    /\ MaxAttempts \in Nat

Attempts == [operation_id : OperationIds, attempt_generation : Nat, executor_id : Executors]

Known == {o \in OperationIds : operations[o] # None}

EffectOf(o, g) == [operation_id |-> o, attempt_generation |-> g]

\* Attempt g of o has been proven without effect.
ProvenAbsent(o, g) ==
    \E v \in Revisions :
        /\ evidence[o][v] # None
        /\ evidence[o][v].attempt_generation = g
        /\ evidence[o][v].resolution = "effect_proven_absent"

-----------------------------------------------------------------------------
\* Mutant form: a lapsed or ambiguous attempt is taken to have had no effect.
RetryAfterTimeout(op, reason) ==
    [op EXCEPT !.state = "prepared",
               !.executor_id = None,
               !.execution_admission = None,
               !.ambiguity_reason = None,
               !.reconciliation_revision = None,
               !.reconciliation_resolution = None]

\* _block_for_reconciliation
Blocked(op, reason) ==
    [op EXCEPT !.state = "reconciliation_required",
               !.executor_id = None,
               !.execution_admission = None,
               !.ambiguity_reason = reason,
               !.reconciliation_revision = None,
               !.reconciliation_resolution = None]

\* _require_current_attempt, when the lease has not run out at observed_at
IsCurrentAttempt(a) ==
    LET op == operations[a.operation_id]
    IN  /\ op # None
        /\ op.state = "attempting"
        /\ op.executor_id = a.executor_id
        /\ op.attempt_generation = a.attempt_generation
        /\ op.execution_admission = a.attempt_generation

-----------------------------------------------------------------------------
OpInit ==
    /\ operations = [o \in OperationIds |-> None]
    /\ evidence = [o \in OperationIds |-> [v \in Revisions |-> None]]
    /\ attempts = {}
    /\ effects = {}

\* prepare: create or observe; rebinding to another scope raises
Prepare(o, s) ==
    /\ operations[o] = None
    /\ operations' = [operations EXCEPT ![o] =
          [scope |-> s, state |-> "prepared", attempt_generation |-> 0,
           executor_id |-> None, execution_admission |-> None, outcome |-> None,
           ambiguity_reason |-> None, reconciliation_revision |-> None,
           reconciliation_resolution |-> None]]
    /\ UNCHANGED <<evidence, attempts, effects>>

Attempting(op, e) ==
    [op EXCEPT !.state = "attempting",
               !.attempt_generation = op.attempt_generation + 1,
               !.executor_id = e,
               !.execution_admission = op.attempt_generation + 1,
               !.reconciliation_revision = None,
               !.reconciliation_resolution = None]

\* begin_attempt, when current execution is admitted; every refusal raises and
\* changes nothing
BeginAttempt(o, e) ==
    LET op == operations[o]
    IN  /\ op # None
        /\ op.state = "prepared"
        /\ op.reconciliation_resolution \in {None, "effect_proven_absent"}
        /\ op.attempt_generation < MaxAttempts
        /\ operations' = [operations EXCEPT ![o] = Attempting(op, e)]
        /\ attempts' = attempts \cup
              {[operation_id |-> o, attempt_generation |-> op.attempt_generation + 1,
                executor_id |-> e]}
        /\ UNCHANGED <<evidence, effects>>

\* expire_attempt, and the expiry that _require_current_attempt leaves behind when
\* it refuses the call
ExpireAttempt(o) ==
    /\ operations[o] # None
    /\ operations[o].state = "attempting"
    /\ operations' = [operations EXCEPT ![o] = Blocked(operations[o], "attempt_lease_expired")]
    /\ UNCHANGED <<evidence, attempts, effects>>

\* complete: its caller holds the result of the effect its attempt made
CompleteAttempt(a) ==
    /\ EffectOf(a.operation_id, a.attempt_generation) \in effects
    /\ IsCurrentAttempt(a)
    /\ operations' = [operations EXCEPT ![a.operation_id] =
          [operations[a.operation_id] EXCEPT !.state = "completed",
                    !.outcome = a.attempt_generation,
                    !.executor_id = None,
                    !.ambiguity_reason = None]]
    /\ UNCHANGED <<evidence, attempts, effects>>

MarkAmbiguous(a) ==
    /\ IsCurrentAttempt(a)
    /\ operations' = [operations EXCEPT ![a.operation_id] =
                         Blocked(operations[a.operation_id], "ambiguous")]
    /\ UNCHANGED <<evidence, attempts, effects>>

FailAttemptTerminal(a) ==
    /\ IsCurrentAttempt(a)
    /\ operations' = [operations EXCEPT ![a.operation_id] =
          [operations[a.operation_id] EXCEPT !.state = "failed_terminal",
                    !.executor_id = None,
                    !.execution_admission = None,
                    !.ambiguity_reason = "failed"]]
    /\ UNCHANGED <<evidence, attempts, effects>>

\* What the effect authority can truthfully say of the current attempt of o.
Truthful(o, resolution, outcome) ==
    LET current == EffectOf(o, operations[o].attempt_generation)
    IN  \/ resolution = "effect_confirmed" /\ current \in effects
                                           /\ outcome = operations[o].attempt_generation
        \/ resolution = "effect_proven_absent" /\ current \notin effects /\ outcome = None
        \/ resolution = "still_unknown" /\ outcome = None

\* The same revision may come again only with the same evidence.
RevisionUsable(o, v, entry) == evidence[o][v] \in {None, entry}

Reconciled(op, v, resolution, outcome) ==
    LET pointed == [op EXCEPT !.reconciliation_revision = v,
                              !.reconciliation_resolution = resolution]
    IN  IF resolution = "still_unknown" THEN pointed
        ELSE IF resolution = "effect_confirmed"
             THEN [pointed EXCEPT !.state = "completed",
                                  !.outcome = outcome,
                                  !.ambiguity_reason = None]
             ELSE [pointed EXCEPT !.state = "prepared",
                                  !.outcome = None,
                                  !.ambiguity_reason = None]

\* reconcile, of the current attempt; revisions are append-only
Reconcile(o, v, resolution, outcome) ==
    LET op == operations[o]
        entry == [attempt_generation |-> op.attempt_generation,
                  resolution |-> resolution, confirmed_outcome |-> outcome]
    IN  /\ op # None
        /\ op.state = "reconciliation_required"
        /\ op.attempt_generation >= 1
        /\ RevisionUsable(o, v, entry)
        /\ evidence' = [evidence EXCEPT ![o][v] = entry]
        /\ operations' = [operations EXCEPT ![o] = Reconciled(op, v, resolution, outcome)]
        /\ UNCHANGED <<attempts, effects>>

\* External: the holder of an attempt, current or not, reaches the effect authority.
ApplyEffect(a) ==
    /\ ~ ProvenAbsent(a.operation_id, a.attempt_generation)
    /\ effects' = effects \cup {EffectOf(a.operation_id, a.attempt_generation)}
    /\ UNCHANGED <<operations, evidence, attempts>>

PrepareSome == \E o \in OperationIds, s \in Scopes : Prepare(o, s)
BeginSome == \E o \in OperationIds, e \in Executors : BeginAttempt(o, e)
ExpireSome == \E o \in OperationIds : ExpireAttempt(o)
CompleteSome == \E a \in attempts : CompleteAttempt(a)
AmbiguousSome == \E a \in attempts : MarkAmbiguous(a)
FailSome == \E a \in attempts : FailAttemptTerminal(a)
ApplySome == \E a \in attempts : ApplyEffect(a)
ReconcileSome ==
    \E o \in OperationIds, v \in Revisions, resolution \in Resolutions :
        \E outcome \in 1 .. MaxAttempts \cup {None} :
            /\ operations[o] # None
            /\ Truthful(o, resolution, outcome)
            /\ Reconcile(o, v, resolution, outcome)

OpNext == PrepareSome \/ BeginSome \/ ExpireSome \/ CompleteSome \/ AmbiguousSome
          \/ FailSome \/ ReconcileSome \/ ApplySome

OpSpec == OpInit /\ [][OpNext]_opVars

-----------------------------------------------------------------------------
\* Every variable has the shape the dataclasses give it.
OpTypeOK ==
    /\ operations \in [OperationIds -> Operations \cup {None}]
    /\ evidence \in [OperationIds -> [Revisions -> Evidence \cup {None}]]
    /\ attempts \subseteq Attempts
    /\ effects \subseteq [operation_id : OperationIds, attempt_generation : Nat]

\* At most one attempt of an operation ever takes effect, whatever executors die,
\* time out, answer late or are reconciled: the ambiguous attempt is never retried
\* blindly.
EffectAtMostOnce ==
    \A f, g \in effects : f.operation_id = g.operation_id => f = g

\* A completed operation names an effect that took place.
CompletedHasEffect ==
    \A o \in Known : operations[o].state = "completed" =>
        EffectOf(o, operations[o].outcome) \in effects

\* What CrossAuthorityOperationSnapshot accepts of an operation and its evidence
Coherent(op, entries) ==
    /\ (op.reconciliation_revision = None) <=> (op.reconciliation_resolution = None)
    /\ op.reconciliation_revision # None =>
         LET entry == entries[op.reconciliation_revision]
         IN  /\ entry # None
             /\ entry.attempt_generation = op.attempt_generation
             /\ entry.resolution = op.reconciliation_resolution
    /\ (op.state = "completed") <=> (op.outcome # None)
    /\ op.reconciliation_resolution = "effect_confirmed" => op.state = "completed"
    /\ op.reconciliation_resolution = "effect_proven_absent" => op.state = "prepared"
    /\ op.reconciliation_resolution = "still_unknown" => op.state = "reconciliation_required"

\* snapshot never raises on any reachable operation: the pointer leads to evidence
\* about the current attempt, and state, outcome and resolution agree.
SnapshotCoherent == \A o \in Known : Coherent(operations[o], evidence[o])

\* Every attempt but the first follows a proof that its very predecessor had no
\* effect; a proof about an earlier attempt authorises nothing.
SuccessorNeedsProof ==
    \A o \in Known : \A g \in 1 .. (operations[o].attempt_generation - 1) : ProvenAbsent(o, g)

SQL == INSTANCE Wave2Guards

\* PostgreSQL takes every step of the ledger: the constraints and the guard of the
\* operation table, and the insertion trigger of the reconciliation table.
OperationGuardAccepts ==
    [][\A o \in Known :
         /\ operations'[o] # operations[o] =>
               /\ SQL!OperationRowAllowed(operations'[o])
               /\ SQL!OperationUpdateAllowed(operations[o], operations'[o], evidence'[o])
         /\ \A v \in Revisions : evidence'[o][v] # evidence[o][v] =>
               SQL!EvidenceInsertAllowed(operations[o], evidence[o][v], evidence'[o][v])]_opVars
=============================================================================
