----------------------------- MODULE Wave2Guards -----------------------------
(***************************************************************************)
(* What the PostgreSQL schema of sql/wave2 accepts: for each table the     *)
(* CHECK constraints a row must meet and the update its BEFORE UPDATE      *)
(* triggers let through, as they stand after migrations 001..006.  The     *)
(* operators are predicates on rows; the ledgers of src/jlmirror_async are *)
(* held against them.  A row carries the columns its ledger also keeps.    *)
(*                                                                         *)
(* SQL NULL is None.  The ten execution_* columns are one value,           *)
(* execution_admission; executor_id and the expiry are set and cleared     *)
(* together everywhere, so a NULL executor_id stands for both.             *)
(***************************************************************************)
EXTENDS Naturals

CONSTANT None

-----------------------------------------------------------------------------
\* system.async_outbox_dispatch: the row constraints
DispatchRowAllowed(row) ==
    /\ (row.state = "claimed") <=> (row.claim_owner # None)
    /\ (row.claim_owner # None) <=> (row.claim_expires_at # None)
    /\ row.state = "published" => row.publication_receipt # None

SameCounters(old, new) ==
    new.claim_generation = old.claim_generation /\ new.attempt_count = old.attempt_count

\* system.wave2_guard_outbox_dispatch_update
DispatchUpdateAllowed(old, new) ==
    \/ /\ old.state = "pending" /\ new.state = "claimed"
       /\ new.claim_generation = old.claim_generation + 1
       /\ new.attempt_count = old.attempt_count + 1
    \/ /\ old.state = "claimed" /\ new.state \in {"pending", "published", "quarantined"}
       /\ SameCounters(old, new)
    \/ /\ old.state = "pending" /\ new.state = "pending"
       /\ SameCounters(old, new)
       /\ new.publication_receipt = old.publication_receipt
    \/ /\ old.state = "claimed" /\ new.state = "claimed"
       /\ SameCounters(old, new)
       /\ new.claim_owner = old.claim_owner
       /\ new.claim_expires_at = old.claim_expires_at
       /\ new.publication_receipt = old.publication_receipt
    \/ old.state = "pending" /\ new.state = "quarantined"
    \/ /\ old.state \in {"published", "quarantined"} /\ new.state = old.state
       /\ SameCounters(old, new)
       /\ new.last_error_class = old.last_error_class
       /\ new.publication_receipt = old.publication_receipt

-----------------------------------------------------------------------------
\* system.async_cross_authority_operation: the row constraints
OperationRowAllowed(row) ==
    /\ (row.reconciliation_revision = None) <=> (row.reconciliation_resolution = None)
    /\ (row.state = "attempting") <=> (row.executor_id # None)
    /\ row.state = "attempting" => row.execution_admission # None
    /\ row.state = "completed" => row.outcome # None
    /\ row.state = "reconciliation_required" => row.ambiguity_reason # None
    /\ row.state = "prepared"
         => row.reconciliation_resolution \in {None, "effect_proven_absent"}

NoPointer(row) == row.reconciliation_revision = None /\ row.reconciliation_resolution = None

\* The evidence row the new pointer names, and its binding to the attempt that
\* was blocked (wave2_guard_operation_reconciliation_attempt_binding)
PointsTo(old, new, evidence, resolution) ==
    /\ new.reconciliation_revision # None
    /\ evidence[new.reconciliation_revision] # None
    /\ evidence[new.reconciliation_revision].resolution = resolution
    /\ evidence[new.reconciliation_revision].attempt_generation = old.attempt_generation
    /\ new.reconciliation_resolution = resolution

\* system.wave2_guard_cross_authority_operation_update; evidence is the
\* reconciliation table for this operation, by revision
OperationUpdateAllowed(old, new, evidence) ==
    /\ new.scope = old.scope
    /\ \/ /\ old.state = "prepared" /\ new.state = "attempting"
          /\ new.attempt_generation = old.attempt_generation + 1
          /\ old.reconciliation_resolution \in {None, "effect_proven_absent"}
          /\ NoPointer(new)
       \/ /\ old.state = "attempting" /\ new.state = "completed"
          /\ new.reconciliation_revision = old.reconciliation_revision
          /\ new.reconciliation_resolution = old.reconciliation_resolution
       \/ /\ old.state = "attempting"
          /\ new.state \in {"reconciliation_required", "failed_terminal"}
          /\ NoPointer(new)
       \/ /\ old.state = "reconciliation_required" /\ new.state = "reconciliation_required"
          /\ PointsTo(old, new, evidence, "still_unknown")
       \/ /\ old.state = "reconciliation_required" /\ new.state = "prepared"
          /\ PointsTo(old, new, evidence, "effect_proven_absent")
       \/ /\ old.state = "reconciliation_required" /\ new.state = "completed"
          /\ PointsTo(old, new, evidence, "effect_confirmed")
          /\ new.outcome = evidence[new.reconciliation_revision].confirmed_outcome
       \/ old.state # "reconciliation_required" /\ new = old

\* system.async_cross_authority_reconciliation: primary key, CHECKs, insert and
\* immutability triggers
EvidenceInsertAllowed(operation, old, new) ==
    /\ old = None
    /\ operation.state = "reconciliation_required"
    /\ new.attempt_generation = operation.attempt_generation
    /\ new.attempt_generation > 0
    /\ (new.resolution = "effect_confirmed") <=> (new.confirmed_outcome # None)

-----------------------------------------------------------------------------
\* system.async_consumer_inbox: the row constraints, and the scope of the bound
\* operation (wave2_guard_inbox_operation_scope)
InboxRowAllowed(row, operation) ==
    /\ (row.state = "processing") <=> (row.executor_id # None)
    /\ row.state = "processing" => row.execution_admission # None
    /\ row.state = "completed" => row.result_link # None
    /\ row.state \in {"reconciliation_required", "quarantined", "failed_terminal"}
         => row.terminal_reason # None
    /\ row.operation_id # None => operation # None /\ operation.scope = row.scope

\* Evidence of the bound operation, about its current attempt, that a receipt may
\* leave reconciliation on (wave2_guard_inbox_reconciliation_attempt_binding)
ReconciledBy(new, operation, evidence, resolution) ==
    /\ new.operation_id # None /\ new.reconciliation_revision # None
    /\ evidence[new.reconciliation_revision] # None
    /\ evidence[new.reconciliation_revision].resolution = resolution
    /\ evidence[new.reconciliation_revision].attempt_generation = operation.attempt_generation

\* Direct completion of an operation-bound receipt
DirectOutcome(new, operation) ==
    /\ operation # None
    /\ operation.state = "completed"
    /\ NoPointer(operation)
    /\ new.result_link.operation_id = new.operation_id
    /\ new.result_link.attempt_generation = operation.outcome

\* system.wave2_guard_consumer_inbox_update; operation is the row operation_id
\* refers to and evidence its reconciliation rows, by revision
InboxUpdateAllowed(old, new, operation, evidence) ==
    /\ new.scope = old.scope /\ new.comparison_evidence = old.comparison_evidence
    /\ \/ new.operation_id = old.operation_id
       \/ old.operation_id = None /\ old.state = "processing" /\ new.state = "processing"
    /\ \/ /\ old.state = "admitted" /\ new.state = "processing"
          /\ new.execution_generation = old.execution_generation + 1
          /\ new.reconciliation_revision = None
       \/ /\ old.state \in {"admitted", "processing"}
          /\ new.state \in {"reconciliation_required", "quarantined", "failed_terminal"}
          /\ new.reconciliation_revision = None
       \/ /\ old.state = "processing" /\ new.state = "completed"
          /\ new.reconciliation_revision = None
          /\ new.operation_id # None => DirectOutcome(new, operation)
       \/ /\ old.state = "processing" /\ new.state = "processing"
          /\ new = [old EXCEPT !.operation_id = new.operation_id]
       \/ /\ old.state = "reconciliation_required" /\ new.state = "admitted"
          /\ ReconciledBy(new, operation, evidence, "effect_proven_absent")
          /\ operation.state = "prepared"
       \/ /\ old.state = "reconciliation_required" /\ new.state = "completed"
          /\ ReconciledBy(new, operation, evidence, "effect_confirmed")
          /\ operation.state = "completed"
          /\ new.result_link.attempt_generation
               = evidence[new.reconciliation_revision].confirmed_outcome
       \/ old.state # "processing" /\ new = old
=============================================================================
