---------------------------- MODULE ConsumerInbox ----------------------------
(***************************************************************************)
(* The consumer inbox of src/jlmirror_async/inbox.py, composed with the    *)
(* operation ledger it consults.  A receipt is admitted once per key, one  *)
(* executor at a time claims its effect, and the receipt completes with a  *)
(* link to the result of that effect.                                      *)
(*                                                                         *)
(* The methods that consult the operation authority hold the inbox lock    *)
(* while they read a snapshot under the other ledger's lock, release that, *)
(* and only then write the receipt.  They are two steps here: the first    *)
(* checks everything and computes the write (pending_write), the second    *)
(* performs it.  Inbox calls wait meanwhile; operation calls do not.       *)
(*                                                                         *)
(* As in CrossAuthorityOperation a lease may lapse at any time, executor_id *)
(* stands for the claim's expiry too, and an admission is named by the     *)
(* execution generation it was granted for.  A local effect commits in one *)
(* transaction with its receipt's completion.                              *)
(***************************************************************************)
EXTENDS CrossAuthorityOperation

CONSTANTS
    Keys,           \* (consumer_contract, message_identity_scope, message_id)
    Profiles,       \* comparison profile, version, form and verifier generation
    Digests,        \* opaque comparison evidence bytes
    MaxExecutions   \* bound on execution_generation

VARIABLES
    receipts,       \* _receipts: key -> receipt, None when unknown
    claims,         \* every InboxExecutorClaim handed out
    pending_write,  \* a call between its operation snapshot and its write, or None
    local_effects   \* external: local effects that committed, by key and generation

inboxVars == <<receipts, claims, pending_write, local_effects>>
vars == <<opVars, inboxVars>>

InboxStates == {"admitted", "processing", "completed", "failed_terminal",
                "reconciliation_required", "quarantined"}

AdmissionReasons == {"conflicting_trusted_binding", "conflicting_immutable_content",
                     "equivalence_unknown"}

TerminalReasons == AdmissionReasons \cup {"processing_lease_expired", "ambiguous", "failed"}

ComparisonEvidence == [profile : Profiles, digest : Digests]

\* An EffectResultLink: of an attempt of an operation, or of a local execution.
ResultLinks == [operation_id : OperationIds \cup {None}, attempt_generation : Nat]

Receipts == [scope : Scopes, comparison_evidence : ComparisonEvidence,
             state : InboxStates, executor_id : Executors \cup {None},
             execution_generation : Nat, execution_admission : Nat \cup {None},
             result_link : ResultLinks \cup {None},
             operation_id : OperationIds \cup {None},
             terminal_reason : TerminalReasons \cup {None},
             reconciliation_revision : Revisions \cup {None}]

ASSUME InboxConstants ==
    /\ MaxExecutions \in Nat /\ None \notin OperationIds /\ None \notin TerminalReasons
    /\ None \notin Receipts \cup ResultLinks \cup [key : Keys, receipt : Receipts]

InboxClaims == [key : Keys, executor_id : Executors, execution_generation : Nat]

LocalEffect(k, g) == [key |-> k, execution_generation |-> g]

Received == {k \in Keys : receipts[k] # None}

\* relation_to: evidence under another profile or verifier says nothing
Relation(mine, other) ==
    IF mine.profile # other.profile THEN "unknown"
    ELSE IF mine.digest = other.digest THEN "equivalent" ELSE "mismatch"

-----------------------------------------------------------------------------
\* Leaving the executor behind, for a reason
Stopped(r, state, reason) ==
    [r EXCEPT !.state = state,
              !.executor_id = None,
              !.execution_admission = None,
              !.terminal_reason = reason]

\* Mutant form: a lapsed processing claim makes the receipt claimable again.
LapsedRetry(r) ==
    [r EXCEPT !.state = "admitted", !.executor_id = None, !.execution_admission = None]

\* What expire_processing_claim and _require_current_claim leave of a lapsed claim
Lapsed(r) ==
    [Stopped(r, "reconciliation_required", "processing_lease_expired")
        EXCEPT !.reconciliation_revision = None]

\* Mutant form: the generation alone decides, whatever the state.
SameExecution(c) ==
    /\ receipts[c.key] # None
    /\ receipts[c.key].execution_generation = c.execution_generation

\* _require_current_claim, when the lease has not run out at observed_at
IsCurrentClaim(c) ==
    LET r == receipts[c.key]
    IN  /\ r # None
        /\ r.state = "processing"
        /\ r.executor_id = c.executor_id
        /\ r.execution_generation = c.execution_generation
        /\ r.execution_admission = c.execution_generation

Unlocked == pending_write = None

SetReceipt(k, r) ==
    /\ receipts' = [receipts EXCEPT ![k] = r]
    /\ UNCHANGED <<claims, pending_write, local_effects, opVars>>

-----------------------------------------------------------------------------
Init ==
    /\ OpInit
    /\ receipts = [k \in Keys |-> None]
    /\ claims = {}
    /\ pending_write = None
    /\ local_effects = {}

\* admit of a new key
AdmitNew(k, s, ev) ==
    /\ Unlocked
    /\ receipts[k] = None
    /\ SetReceipt(k, [scope |-> s, comparison_evidence |-> ev, state |-> "admitted",
                      executor_id |-> None, execution_generation |-> 0,
                      execution_admission |-> None, result_link |-> None,
                      operation_id |-> None, terminal_reason |-> None,
                      reconciliation_revision |-> None])

\* admit of a known key: a conflict quarantines and unknown equivalence blocks,
\* whatever the state; an equivalent duplicate only observes
AdmitAgain(k, s, ev) ==
    /\ Unlocked
    /\ receipts[k] # None
    /\ LET r == receipts[k]
       IN  \/ /\ s # r.scope
              /\ SetReceipt(k, Stopped(r, "quarantined", "conflicting_trusted_binding"))
           \/ /\ s = r.scope
              /\ Relation(r.comparison_evidence, ev) = "mismatch"
              /\ SetReceipt(k, Stopped(r, "quarantined", "conflicting_immutable_content"))
           \/ /\ s = r.scope
              /\ Relation(r.comparison_evidence, ev) = "unknown"
              /\ SetReceipt(k, Stopped(r, "reconciliation_required", "equivalence_unknown"))

\* claim_effect, when current execution is admitted
ClaimEffect(k, e) ==
    /\ Unlocked
    /\ receipts[k] # None
    /\ LET r == receipts[k]
           g == r.execution_generation + 1
       IN  /\ r.state = "admitted"
           /\ g <= MaxExecutions
           /\ receipts' = [receipts EXCEPT ![k] =
                 [r EXCEPT !.state = "processing",
                           !.executor_id = e,
                           !.execution_generation = g,
                           !.execution_admission = g,
                           !.reconciliation_revision = None]]
           /\ claims' = claims \cup {[key |-> k, executor_id |-> e, execution_generation |-> g]}
    /\ UNCHANGED <<pending_write, local_effects, opVars>>

\* expire_processing_claim, and the expiry a refused call leaves behind
ExpireProcessingClaim(k) ==
    /\ Unlocked
    /\ receipts[k] # None
    /\ receipts[k].state = "processing"
    /\ SetReceipt(k, Lapsed(receipts[k]))

Completed(r, link) ==
    [r EXCEPT !.state = "completed",
              !.result_link = link,
              !.executor_id = None,
              !.terminal_reason = None]

\* Mutant form: local completion of a receipt whose effect an operation owns.
CompleteLocalAnyway(c) ==
    /\ Unlocked
    /\ IsCurrentClaim(c)
    /\ receipts' = [receipts EXCEPT ![c.key] =
          Completed(receipts[c.key], [operation_id |-> None,
                                      attempt_generation |-> c.execution_generation])]
    /\ local_effects' = local_effects \cup {LocalEffect(c.key, c.execution_generation)}
    /\ UNCHANGED <<claims, pending_write, opVars>>

\* complete_local_effect; the effect commits with it
CompleteLocalEffect(c) ==
    LET r == receipts[c.key]
    IN  /\ Unlocked
        /\ IsCurrentClaim(c)
        /\ r.operation_id = None
        /\ receipts' = [receipts EXCEPT ![c.key] =
              Completed(r, [operation_id |-> None,
                            attempt_generation |-> c.execution_generation])]
        /\ local_effects' = local_effects \cup {LocalEffect(c.key, c.execution_generation)}
        /\ UNCHANGED <<claims, pending_write, opVars>>

RequireReconciliation(c) ==
    /\ Unlocked
    /\ IsCurrentClaim(c)
    /\ SetReceipt(c.key, [Stopped(receipts[c.key], "reconciliation_required", "ambiguous")
                             EXCEPT !.reconciliation_revision = None])

FailTerminal(c) ==
    /\ Unlocked
    /\ IsCurrentClaim(c)
    /\ SetReceipt(c.key, Stopped(receipts[c.key], "failed_terminal", "failed"))

-----------------------------------------------------------------------------
(* The calls that consult the operation authority.                         *)

\* _require_operation_scope, of a snapshot of o
InScope(r, o) == operations[o] # None /\ operations[o].scope = r.scope

AfterSnapshot(k, r) ==
    /\ pending_write' = [key |-> k, receipt |-> r]
    /\ UNCHANGED <<receipts, claims, local_effects, opVars>>

\* bind_cross_authority_operation
BindOperation(c, o) ==
    LET r == receipts[c.key]
    IN  /\ Unlocked
        /\ IsCurrentClaim(c)
        /\ r.operation_id \in {None, o}
        /\ InScope(r, o)
        /\ AfterSnapshot(c.key, [r EXCEPT !.operation_id = o])

\* Mutant form: the caller's link is taken for the operation's outcome.
CompleteWithCallersLink(c, link) ==
    LET r == receipts[c.key]
    IN  /\ Unlocked
        /\ IsCurrentClaim(c)
        /\ r.operation_id # None
        /\ InScope(r, r.operation_id)
        /\ operations[r.operation_id].state = "completed"
        /\ AfterSnapshot(c.key, Completed(r, link))

\* complete_cross_authority_effect
CompleteCrossAuthorityEffect(c, link) ==
    LET r == receipts[c.key]
        op == operations[r.operation_id]
    IN  /\ Unlocked
        /\ IsCurrentClaim(c)
        /\ r.operation_id # None
        /\ InScope(r, r.operation_id)
        /\ op.state = "completed"
        /\ link = EffectOf(r.operation_id, op.outcome)
        /\ op.reconciliation_resolution = None /\ op.reconciliation_revision = None
        /\ AfterSnapshot(c.key, Completed(r, link))

AbsenceReconciled(op) ==
    /\ op.state = "prepared"
    /\ op.reconciliation_resolution = "effect_proven_absent"
    /\ op.reconciliation_revision # None

\* reconcile_retry_eligible
ReconcileRetryEligible(k) ==
    /\ Unlocked
    /\ receipts[k] # None
    /\ LET r == receipts[k]
       IN  /\ r.state = "reconciliation_required"
           /\ r.operation_id # None
           /\ InScope(r, r.operation_id)
           /\ AbsenceReconciled(operations[r.operation_id])
           /\ AfterSnapshot(k,
                 [r EXCEPT !.state = "admitted",
                           !.terminal_reason = None,
                           !.reconciliation_revision =
                               operations[r.operation_id].reconciliation_revision])

\* reconcile_completed
ReconcileCompleted(k, link) ==
    /\ Unlocked
    /\ receipts[k] # None
    /\ LET r == receipts[k]
           op == operations[r.operation_id]
       IN  /\ r.state = "reconciliation_required"
           /\ r.operation_id # None
           /\ InScope(r, r.operation_id)
           /\ op.state = "completed"
           /\ link = EffectOf(r.operation_id, op.outcome)
           /\ op.reconciliation_resolution = "effect_confirmed"
           /\ op.reconciliation_revision # None
           /\ AfterSnapshot(k,
                 [r EXCEPT !.state = "completed",
                           !.result_link = link,
                           !.terminal_reason = None,
                           !.reconciliation_revision = op.reconciliation_revision])

\* The write that ends each of these calls
Write ==
    /\ pending_write # None
    /\ receipts' = [receipts EXCEPT ![pending_write.key] = pending_write.receipt]
    /\ pending_write' = None
    /\ UNCHANGED <<claims, local_effects, opVars>>

Links == [operation_id : OperationIds, attempt_generation : 1 .. MaxAttempts]

Deliver == \E k \in Keys, s \in Scopes, ev \in ComparisonEvidence : AdmitNew(k, s, ev)
Redeliver == \E k \in Keys, s \in Scopes, ev \in ComparisonEvidence : AdmitAgain(k, s, ev)
Claim == \E k \in Keys, e \in Executors : ClaimEffect(k, e)
Expire == \E k \in Keys : ExpireProcessingClaim(k)
CompleteLocal == \E c \in claims : CompleteLocalEffect(c)
Require == \E c \in claims : RequireReconciliation(c)
Fail == \E c \in claims : FailTerminal(c)
Bind == \E c \in claims, o \in OperationIds : BindOperation(c, o)
CompleteCross == \E c \in claims, l \in Links : CompleteCrossAuthorityEffect(c, l)
Retry == \E k \in Keys : ReconcileRetryEligible(k)
Confirm == \E k \in Keys, l \in Links : ReconcileCompleted(k, l)

InboxNext == Deliver \/ Redeliver \/ Claim \/ Expire \/ CompleteLocal \/ Require \/ Fail
             \/ Bind \/ CompleteCross \/ Retry \/ Confirm \/ Write

Next == InboxNext \/ (OpNext /\ UNCHANGED inboxVars)

Spec == Init /\ [][Next]_vars

-----------------------------------------------------------------------------
\* Every variable has the shape the dataclasses give it.
InboxTypeOK ==
    /\ receipts \in [Keys -> Receipts \cup {None}]
    /\ claims \subseteq InboxClaims
    /\ pending_write \in [key : Keys, receipt : Receipts] \cup {None}
    /\ local_effects \subseteq [key : Keys, execution_generation : Nat]

\* A completed receipt proves an effect: its link names a local effect that
\* committed, or the effect that its own bound, completed operation had.
CompletedIsBacked ==
    \A k \in Received : receipts[k].state = "completed" =>
        LET link == receipts[k].result_link
        IN  /\ link.operation_id = receipts[k].operation_id
            /\ IF link.operation_id = None
               THEN LocalEffect(k, link.attempt_generation) \in local_effects
               ELSE /\ operations[link.operation_id].state = "completed"
                    /\ operations[link.operation_id].outcome = link.attempt_generation
                    /\ link \in effects

\* A message has one local effect at most, none once its effect belongs to an
\* operation, and a receipt that ever completed is never executed again, although
\* a redelivery may quarantine it or send it to reconciliation.
LocalEffectOnce ==
    /\ \A d, e \in local_effects : d.key = e.key => d = e
    /\ \A d \in local_effects : receipts[d.key].operation_id = None
    /\ \A k \in Received : receipts[k].result_link # None =>
          receipts[k].state \notin {"admitted", "processing"}

\* An executor after the first is admitted only when some attempt of the bound
\* operation has been proven without effect.
ReexecutionNeedsProof ==
    \A k \in Received : receipts[k].execution_generation > 1 =>
        /\ receipts[k].operation_id # None
        /\ \E v \in Revisions :
              LET entry == evidence[receipts[k].operation_id][v]
              IN  entry # None /\ entry.resolution = "effect_proven_absent"

\* The row of the operation a receipt refers to, and its reconciliation rows.
OperationRow(r) == IF r.operation_id = None THEN None ELSE operations[r.operation_id]
EvidenceRows(r) == IF r.operation_id = None THEN [v \in Revisions |-> None]
                                            ELSE evidence[r.operation_id]

\* Inbox steps other than the verdict of a redelivery and the retry admission
Executed(k) ==
    /\ receipts'[k] # receipts[k]
    /\ receipts'[k].terminal_reason \notin AdmissionReasons
    /\ receipts'[k].state # "admitted"

GuardAccepts(k) ==
    /\ SQL!InboxRowAllowed(receipts'[k], OperationRow(receipts'[k]))
    /\ SQL!InboxUpdateAllowed(receipts[k], receipts'[k], OperationRow(receipts'[k]),
                              EvidenceRows(receipts'[k]))

\* The PostgreSQL tables take the steps of the two ledgers: the inbox table each claim,
\* binding, completion, expiry and failure of a receipt (not the verdict of a redelivery nor
\* the retry admission), and the operation tables each step and each reconciliation of the
\* operation it consults.
LedgerGuardsAccept ==
    /\ [][\A k \in Received : Executed(k) => GuardAccepts(k)]_vars
    /\ OperationGuardAccepts
=============================================================================
