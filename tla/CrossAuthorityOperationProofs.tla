-------------------- MODULE CrossAuthorityOperationProofs --------------------
(***************************************************************************)
(* Proofs about the operation ledger, for any operations, executors,       *)
(* scopes, revisions and bound: type correctness, effects at most once,    *)
(* coherent snapshots, and outcomes that name a real effect.               *)
(*                                                                         *)
(* EffectAtMostOnce is not inductive alone.  It rests on the chain of      *)
(* absence proofs: every attempt before the current one is proven without  *)
(* effect (SuccessorNeedsProof), an operation only becomes prepared again  *)
(* on such a proof (ReopenedByProof), and a proven attempt has no effect,  *)
(* now or later (ProofsAreTrue).  So the only attempt that can have had an *)
(* effect is the current one (AttemptsBounded).                            *)
(*                                                                         *)
(* Of the inbox over that ledger: types, backed completions, one local     *)
(* effect, and no second execution without proof.  The inbox reads an      *)
(* operation and writes its receipt later, so what is sound of a receipt   *)
(* (Sound) is kept of the write under way as well, and no step of the      *)
(* ledger takes it back (OperationsSettle).                                *)
(*                                                                         *)
(* PostgreSQL takes every step of the operations, and of a receipt each    *)
(* claim, binding, completion, expiry and failure; the verdict of a        *)
(* redelivery and the retry admission are left out of that, since the      *)
(* trigger refuses some of them, though the rows they write meet the CHECK *)
(* constraints like all others.  Evidence that confirms names the outcome  *)
(* the operation has, and a write under way would pass the trigger at any  *)
(* moment until it happens: known operations keep their scope, completed   *)
(* ones do not change, and evidence is only added (RowsSettle).            *)
(***************************************************************************)
EXTENDS ConsumerInbox, TLAPS

\* Attempts and effects name a known operation and a generation it has reached.
AttemptsBounded ==
    /\ \A a \in attempts :
          /\ operations[a.operation_id] # None
          /\ a.attempt_generation \in 1 .. operations[a.operation_id].attempt_generation
    /\ \A f \in effects :
          /\ operations[f.operation_id] # None
          /\ f.attempt_generation \in 1 .. operations[f.operation_id].attempt_generation

\* An operation waits for a new attempt before its first, or after a proof that its
\* latest attempt had no effect.
ReopenedByProof ==
    \A o \in Known :
        operations[o].state = "prepared" /\ operations[o].attempt_generation > 0
            => ProvenAbsent(o, operations[o].attempt_generation)

\* What has been proven absent has not happened.
ProofsAreTrue ==
    \A f \in effects : ~ ProvenAbsent(f.operation_id, f.attempt_generation)

IInv ==
    /\ OpTypeOK
    /\ AttemptsBounded
    /\ SuccessorNeedsProof
    /\ ReopenedByProof
    /\ ProofsAreTrue
    /\ SnapshotCoherent
    /\ CompletedHasEffect

-----------------------------------------------------------------------------
(* The shape of the records the operations build.                          *)

\* Blocking keeps scope, generation and outcome, and clears the pointer.
LEMMA BlockedShape ==
    ASSUME NEW op \in Operations, NEW reason \in AmbiguityReasons
    PROVE  /\ Blocked(op, reason) \in Operations
           /\ Blocked(op, reason).attempt_generation = op.attempt_generation
           /\ Blocked(op, reason).outcome = op.outcome
           /\ Blocked(op, reason).state = "reconciliation_required"
           /\ Blocked(op, reason).reconciliation_revision = None
           /\ Blocked(op, reason).reconciliation_resolution = None
  BY DEF Blocked, Operations, OperationStates

\* A new attempt advances the generation by one and consumes the pointer.
LEMMA AttemptingShape ==
    ASSUME NEW op \in Operations, NEW e \in Executors
    PROVE  /\ Attempting(op, e) \in Operations
           /\ Attempting(op, e).attempt_generation = op.attempt_generation + 1
           /\ Attempting(op, e).outcome = op.outcome
           /\ Attempting(op, e).state = "attempting"
           /\ Attempting(op, e).reconciliation_revision = None
           /\ Attempting(op, e).reconciliation_resolution = None
<1>1. op.attempt_generation + 1 \in Nat
  BY DEF Operations
<1>2. \A generation \in Nat :
        LET new == [op EXCEPT !.state = "attempting", !.attempt_generation = generation,
                              !.executor_id = e, !.execution_admission = generation,
                              !.reconciliation_revision = None,
                              !.reconciliation_resolution = None]
        IN  /\ new \in Operations
            /\ new.attempt_generation = generation
            /\ new.outcome = op.outcome
            /\ new.state = "attempting"
            /\ new.reconciliation_revision = None
            /\ new.reconciliation_resolution = None
  BY DEF Operations, OperationStates
<1> QED  BY <1>1, <1>2 DEF Attempting

\* What each resolution makes of an operation.
LEMMA ReconciledShape ==
    ASSUME NEW op \in Operations, NEW v \in Revisions, NEW resolution \in Resolutions,
           NEW outcome \in Outcomes \cup {None}
    PROVE  LET new == Reconciled(op, v, resolution, outcome)
           IN  /\ new \in Operations
               /\ new.attempt_generation = op.attempt_generation
               /\ new.reconciliation_revision = v
               /\ new.reconciliation_resolution = resolution
               /\ resolution = "still_unknown" => new.state = op.state /\ new.outcome = op.outcome
               /\ resolution = "effect_confirmed"
                    => new.state = "completed" /\ new.outcome = outcome
               /\ resolution = "effect_proven_absent"
                    => new.state = "prepared" /\ new.outcome = None
<1>1. CASE resolution = "still_unknown"
  BY <1>1 DEF Reconciled, Operations, Resolutions
<1>2. CASE resolution = "effect_confirmed"
  BY <1>2 DEF Reconciled, Operations, OperationStates, Resolutions
<1>3. CASE resolution = "effect_proven_absent"
  BY <1>3 DEF Reconciled, Operations, OperationStates, Resolutions
<1> QED  BY <1>1, <1>2, <1>3 DEF Resolutions
-----------------------------------------------------------------------------
(* The invariant.                                                          *)

\* The ledger starts empty.
LEMMA InitIInv == OpInit => IInv
  BY OperationConstants
     DEF OpInit, IInv, OpTypeOK, AttemptsBounded, SuccessorNeedsProof, ReopenedByProof,
         ProofsAreTrue, SnapshotCoherent, CompletedHasEffect, Known, ProvenAbsent

\* A proof of absence stays a proof: evidence is only ever added.
LEMMA ProofsKept ==
    ASSUME \A o \in OperationIds, v \in Revisions :
               evidence[o][v] # None => evidence'[o][v] = evidence[o][v],
           NEW o \in OperationIds, NEW g, ProvenAbsent(o, g)
    PROVE  ProvenAbsent(o, g)'
  BY DEF ProvenAbsent

\* A step that rewrites one known operation within its current generation, leaves
\* attempts and effects alone and adds no evidence preserves the invariant, when
\* what it writes is coherent, names a real outcome and is not prepared.
LEMMA SettlePreserves ==
    ASSUME IInv, NEW o \in OperationIds, NEW new \in Operations,
           operations[o] # None,
           operations' = [operations EXCEPT ![o] = new],
           UNCHANGED <<evidence, attempts, effects>>,
           new.attempt_generation = operations[o].attempt_generation,
           Coherent(new, evidence[o]),
           new.state = "completed" => EffectOf(o, new.outcome) \in effects,
           new.state # "prepared"
    PROVE  IInv'
<1>1. OpTypeOK /\ operations[o] \in Operations
  BY DEF IInv, OpTypeOK
<1>2. /\ operations'[o] = new
      /\ \A p \in OperationIds : p # o => operations'[p] = operations[p]
  BY <1>1 DEF OpTypeOK
<1>3. \A p \in OperationIds :
        /\ operations[p] # None <=> operations'[p] # None
        /\ operations[p] # None
             => operations'[p].attempt_generation = operations[p].attempt_generation
  BY <1>2, OperationConstants
<1>4. OpTypeOK'
  BY <1>1 DEF OpTypeOK
<1>5. AttemptsBounded'
  BY <1>1, <1>3 DEF IInv, AttemptsBounded, OpTypeOK, Attempts
<1>6. \A p \in OperationIds : \A g : ProvenAbsent(p, g)' <=> ProvenAbsent(p, g)
  BY DEF ProvenAbsent
<1>7. SuccessorNeedsProof'
  BY <1>3, <1>6 DEF IInv, SuccessorNeedsProof, Known
<1>8. ReopenedByProof'
  BY <1>2, <1>6 DEF IInv, ReopenedByProof, Known
<1>9. ProofsAreTrue'
  BY <1>1, <1>6 DEF IInv, ProofsAreTrue, OpTypeOK
<1>10. SnapshotCoherent'
  BY <1>2 DEF IInv, SnapshotCoherent, Known, Coherent
<1>11. CompletedHasEffect'
  BY <1>2 DEF IInv, CompletedHasEffect, Known
<1> QED  BY <1>4, <1>5, <1>7, <1>8, <1>9, <1>10, <1>11 DEF IInv

\* prepare adds an operation that no attempt, effect or evidence pointer names.
LEMMA PreparePreserves ==
    ASSUME IInv, NEW o \in OperationIds, NEW s \in Scopes, Prepare(o, s)
    PROVE  IInv'
<1> DEFINE new == [scope |-> s, state |-> "prepared", attempt_generation |-> 0,
                   executor_id |-> None, execution_admission |-> None, outcome |-> None,
                   ambiguity_reason |-> None, reconciliation_revision |-> None,
                   reconciliation_resolution |-> None]
<1>1. /\ operations[o] = None
      /\ operations' = [operations EXCEPT ![o] = new]
      /\ UNCHANGED <<evidence, attempts, effects>>
  BY DEF Prepare
<1>2. new \in Operations
  BY DEF Operations, OperationStates
<1>3. OpTypeOK
  BY DEF IInv
<1>4. /\ operations'[o] = new
      /\ \A p \in OperationIds : p # o => operations'[p] = operations[p]
  BY <1>1, <1>3 DEF OpTypeOK
<1>5. /\ new.state = "prepared" /\ new.attempt_generation = 0 /\ new.outcome = None
      /\ new.reconciliation_revision = None /\ new.reconciliation_resolution = None
  OBVIOUS
<1> HIDE DEF new
<1>6. OpTypeOK'
  BY <1>1, <1>2, <1>3 DEF OpTypeOK
<1>7. AttemptsBounded'
  BY <1>1, <1>3, <1>4 DEF IInv, AttemptsBounded, OpTypeOK, Attempts
<1>8. \A p \in OperationIds : \A g : ProvenAbsent(p, g)' <=> ProvenAbsent(p, g)
  BY <1>1 DEF ProvenAbsent
<1>9. SuccessorNeedsProof'
  BY <1>4, <1>5, <1>8 DEF IInv, SuccessorNeedsProof, Known
<1>10. ReopenedByProof'
  BY <1>4, <1>5, <1>8 DEF IInv, ReopenedByProof, Known
<1>11. ProofsAreTrue'
  BY <1>1, <1>3, <1>8 DEF IInv, ProofsAreTrue, OpTypeOK
<1>12. SnapshotCoherent'
  BY <1>1, <1>4, <1>5, OperationConstants DEF Resolutions, IInv, SnapshotCoherent, Known, Coherent
<1>13. CompletedHasEffect'
  BY <1>1, <1>4, <1>5 DEF IInv, CompletedHasEffect, Known
<1> QED  BY <1>6, <1>7, <1>9, <1>10, <1>11, <1>12, <1>13 DEF IInv

\* begin_attempt: the generation it leaves behind was proven without effect.
LEMMA BeginPreserves ==
    ASSUME IInv, NEW o \in OperationIds, NEW e \in Executors, BeginAttempt(o, e)
    PROVE  IInv'
<1> DEFINE op == operations[o]
           new == Attempting(op, e)
           a == [operation_id |-> o, attempt_generation |-> op.attempt_generation + 1,
                 executor_id |-> e]
<1>1. /\ op # None
      /\ op.state = "prepared"
      /\ operations' = [operations EXCEPT ![o] = new]
      /\ attempts' = attempts \cup {a}
      /\ UNCHANGED <<evidence, effects>>
  BY DEF BeginAttempt
<1>2. OpTypeOK /\ op \in Operations
  BY <1>1 DEF IInv, OpTypeOK
<1>3. /\ new \in Operations
      /\ new.attempt_generation = op.attempt_generation + 1
      /\ new.outcome = op.outcome
      /\ new.state = "attempting"
      /\ new.reconciliation_revision = None
      /\ new.reconciliation_resolution = None
  BY <1>2, AttemptingShape
<1>4. op.attempt_generation \in Nat
  BY <1>2 DEF Operations
<1>5. op.outcome = None
  BY <1>1 DEF IInv, SnapshotCoherent, Known, Coherent
<1>6. op.attempt_generation > 0 => ProvenAbsent(o, op.attempt_generation)
  BY <1>1 DEF IInv, ReopenedByProof, Known
<1>7. /\ a \in Attempts
      /\ a.operation_id = o /\ a.attempt_generation = op.attempt_generation + 1
  BY <1>4 DEF Attempts
<1>8. new # None
  BY <1>3, OperationConstants
<1> HIDE DEF op, new, a
<1>9. /\ operations'[o] = new
      /\ \A p \in OperationIds : p # o => operations'[p] = operations[p]
  BY <1>1, <1>2 DEF OpTypeOK
<1>10. OpTypeOK'
  BY <1>1, <1>2, <1>3, <1>7 DEF OpTypeOK
<1>11. \A p \in OperationIds :
         operations[p] # None =>
            /\ operations'[p] # None
            /\ operations'[p].attempt_generation \in Nat
            /\ operations[p].attempt_generation \in Nat
            /\ operations'[p].attempt_generation >= operations[p].attempt_generation
  BY <1>2, <1>3, <1>4, <1>8, <1>9 DEF op, OpTypeOK, Operations
<1>12. AttemptsBounded'
  <2>1. \A b \in attempts' :
           /\ operations'[b.operation_id] # None
           /\ b.attempt_generation \in 1 .. operations'[b.operation_id].attempt_generation
    <3> SUFFICES ASSUME NEW b \in attempts'
                 PROVE  /\ operations'[b.operation_id] # None
                        /\ b.attempt_generation
                              \in 1 .. operations'[b.operation_id].attempt_generation
      OBVIOUS
    <3>1. CASE b \in attempts
      BY <3>1, <1>2, <1>11 DEF IInv, AttemptsBounded, OpTypeOK, Attempts
    <3>2. CASE b = a
      BY <3>2, <1>3, <1>4, <1>7, <1>8, <1>9
    <3> QED  BY <3>1, <3>2, <1>1
  <2>2. \A f \in effects' :
           /\ operations'[f.operation_id] # None
           /\ f.attempt_generation \in 1 .. operations'[f.operation_id].attempt_generation
    BY <1>1, <1>2, <1>11 DEF IInv, AttemptsBounded, OpTypeOK
  <2> QED  BY <2>1, <2>2 DEF AttemptsBounded
<1>13. \A p \in OperationIds : \A g : ProvenAbsent(p, g)' <=> ProvenAbsent(p, g)
  BY <1>1 DEF ProvenAbsent
<1>14. SuccessorNeedsProof'
  <2> SUFFICES ASSUME NEW p \in OperationIds, operations'[p] # None,
                      NEW g \in 1 .. (operations'[p].attempt_generation - 1)
               PROVE  ProvenAbsent(p, g)'
    BY DEF SuccessorNeedsProof, Known
  <2>1. CASE p # o
    BY <2>1, <1>9, <1>13 DEF IInv, SuccessorNeedsProof, Known
  <2>2. CASE p = o /\ g = op.attempt_generation
    BY <2>2, <1>6, <1>13
  <2>3. CASE p = o /\ g # op.attempt_generation
    <3>1. g \in 1 .. (op.attempt_generation - 1)
      BY <2>3, <1>3, <1>4, <1>9
    <3> QED  BY <2>3, <3>1, <1>1, <1>13 DEF IInv, SuccessorNeedsProof, Known, op
  <2> QED  BY <2>1, <2>2, <2>3
<1>15. ReopenedByProof'
  BY <1>3, <1>9, <1>13 DEF IInv, ReopenedByProof, Known
<1>16. ProofsAreTrue'
  BY <1>1, <1>2, <1>13 DEF IInv, ProofsAreTrue, OpTypeOK
<1>17. SnapshotCoherent'
  BY <1>1, <1>3, <1>5, <1>9, OperationConstants DEF Resolutions, IInv, SnapshotCoherent, Known, Coherent
<1>18. CompletedHasEffect'
  BY <1>1, <1>3, <1>9 DEF IInv, CompletedHasEffect, Known
<1> QED  BY <1>10, <1>12, <1>14, <1>15, <1>16, <1>17, <1>18 DEF IInv

\* An attempting operation holds no outcome and no pointer.
LEMMA AttemptingHoldsNothing ==
    ASSUME IInv, NEW o \in OperationIds, operations[o] # None,
           operations[o].state = "attempting"
    PROVE  /\ operations[o].outcome = None
           /\ operations[o].reconciliation_revision = None
           /\ operations[o].reconciliation_resolution = None
<1>1. operations[o] \in Operations
  BY DEF IInv, OpTypeOK
<1>2. Coherent(operations[o], evidence[o])
  BY DEF IInv, SnapshotCoherent, Known
<1> QED  BY <1>1, <1>2 DEF Coherent, Operations, Resolutions

\* Blocking an attempting operation, for expiry or ambiguity.
LEMMA BlockPreserves ==
    ASSUME IInv, NEW o \in OperationIds, operations[o] # None,
           operations[o].state = "attempting", NEW reason \in AmbiguityReasons,
           operations' = [operations EXCEPT ![o] = Blocked(operations[o], reason)],
           UNCHANGED <<evidence, attempts, effects>>
    PROVE  IInv'
<1> DEFINE new == Blocked(operations[o], reason)
<1>1. operations[o] \in Operations
  BY DEF IInv, OpTypeOK
<1>2. /\ new \in Operations
      /\ new.attempt_generation = operations[o].attempt_generation
      /\ new.outcome = None
      /\ new.state = "reconciliation_required"
      /\ new.reconciliation_revision = None
      /\ new.reconciliation_resolution = None
  BY <1>1, BlockedShape, AttemptingHoldsNothing
<1> HIDE DEF new
<1>3. Coherent(new, evidence[o])
  BY <1>2, OperationConstants DEF Coherent, Resolutions
<1>4. operations' = [operations EXCEPT ![o] = new]
  BY DEF new
<1> QED  BY <1>2, <1>3, <1>4, SettlePreserves

\* complete records the outcome of an effect that its caller holds.
LEMMA CompletePreserves ==
    ASSUME IInv, NEW a \in attempts, CompleteAttempt(a)
    PROVE  IInv'
<1> DEFINE o == a.operation_id
           op == operations[o]
           new == [op EXCEPT !.state = "completed", !.outcome = a.attempt_generation,
                             !.executor_id = None, !.ambiguity_reason = None]
<1>1. o \in OperationIds /\ a.attempt_generation \in Nat
  BY DEF IInv, OpTypeOK, Attempts
<1>2. /\ op # None /\ op.state = "attempting"
      /\ op.attempt_generation = a.attempt_generation
      /\ EffectOf(o, a.attempt_generation) \in effects
      /\ operations' = [operations EXCEPT ![o] = new]
      /\ UNCHANGED <<evidence, attempts, effects>>
  BY DEF CompleteAttempt, IsCurrentAttempt
<1>3. op \in Operations
  BY <1>1, <1>2 DEF IInv, OpTypeOK
<1>4. op.reconciliation_revision = None /\ op.reconciliation_resolution = None
  BY <1>1, <1>2, AttemptingHoldsNothing
<1>5. /\ new \in Operations
      /\ new.state = "completed" /\ new.outcome = a.attempt_generation
      /\ new.attempt_generation = op.attempt_generation
      /\ new.reconciliation_revision = None /\ new.reconciliation_resolution = None
  BY <1>1, <1>3, <1>4 DEF Operations, OperationStates, Outcomes
<1> HIDE DEF new
<1>6. Coherent(new, evidence[o])
  BY <1>1, <1>5, OperationConstants DEF Coherent, Resolutions
<1> HIDE DEF o
<1> QED  BY <1>1, <1>2, <1>5, <1>6, SettlePreserves

\* fail_terminal
LEMMA FailPreserves ==
    ASSUME IInv, NEW a \in attempts, FailAttemptTerminal(a)
    PROVE  IInv'
<1> DEFINE o == a.operation_id
           op == operations[o]
           new == [op EXCEPT !.state = "failed_terminal", !.executor_id = None,
                             !.execution_admission = None, !.ambiguity_reason = "failed"]
<1>1. o \in OperationIds
  BY DEF IInv, OpTypeOK, Attempts
<1>2. /\ op # None /\ op.state = "attempting"
      /\ operations' = [operations EXCEPT ![o] = new]
      /\ UNCHANGED <<evidence, attempts, effects>>
  BY DEF FailAttemptTerminal, IsCurrentAttempt
<1>3. op \in Operations
  BY <1>1, <1>2 DEF IInv, OpTypeOK
<1>4. /\ op.outcome = None
      /\ op.reconciliation_revision = None /\ op.reconciliation_resolution = None
  BY <1>1, <1>2, AttemptingHoldsNothing
<1>5. /\ new \in Operations
      /\ new.state = "failed_terminal" /\ new.outcome = None
      /\ new.attempt_generation = op.attempt_generation
      /\ new.reconciliation_revision = None /\ new.reconciliation_resolution = None
  BY <1>3, <1>4 DEF Operations, OperationStates, AmbiguityReasons
<1> HIDE DEF new
<1>6. Coherent(new, evidence[o])
  BY <1>5, OperationConstants DEF Coherent, Resolutions
<1> HIDE DEF o
<1> QED  BY <1>1, <1>2, <1>5, <1>6, SettlePreserves

\* reconcile adds truthful evidence of the current attempt, under a revision that
\* is new or says the same already.
LEMMA ReconcilePreserves ==
    ASSUME IInv, NEW o \in OperationIds, NEW v \in Revisions, NEW resolution \in Resolutions,
           NEW outcome \in 1 .. MaxAttempts \cup {None},
           Truthful(o, resolution, outcome), Reconcile(o, v, resolution, outcome)
    PROVE  IInv'
<1> DEFINE op == operations[o]
           new == Reconciled(op, v, resolution, outcome)
           entry == [attempt_generation |-> op.attempt_generation,
                     resolution |-> resolution, confirmed_outcome |-> outcome]
<1>1. /\ op # None /\ op.state = "reconciliation_required" /\ op.attempt_generation >= 1
      /\ evidence[o][v] \in {None, entry}
      /\ evidence' = [evidence EXCEPT ![o][v] = entry]
      /\ operations' = [operations EXCEPT ![o] = new]
      /\ UNCHANGED <<attempts, effects>>
  BY DEF Reconcile, RevisionUsable
<1>2. OpTypeOK /\ op \in Operations /\ op.attempt_generation \in Nat
  BY <1>1 DEF IInv, OpTypeOK, Operations
<1>3. outcome \in Outcomes \cup {None}
  BY OperationConstants DEF Outcomes
<1>4. /\ new \in Operations
      /\ new.attempt_generation = op.attempt_generation
      /\ new.reconciliation_revision = v
      /\ new.reconciliation_resolution = resolution
      /\ resolution = "still_unknown" => new.state = op.state /\ new.outcome = op.outcome
      /\ resolution = "effect_confirmed" => new.state = "completed" /\ new.outcome = outcome
      /\ resolution = "effect_proven_absent" => new.state = "prepared" /\ new.outcome = None
  <2> HIDE DEF op
  <2> QED  BY <1>2, <1>3, ReconciledShape
<1>5. /\ entry \in Evidence
      /\ entry.attempt_generation = op.attempt_generation
      /\ entry.resolution = resolution
  BY <1>1, <1>2, <1>3 DEF Evidence
<1>6. op.outcome = None
  BY <1>1 DEF IInv, SnapshotCoherent, Known, Coherent
<1>7. /\ resolution = "effect_confirmed"
           => outcome = op.attempt_generation /\ EffectOf(o, op.attempt_generation) \in effects
      /\ resolution = "effect_proven_absent"
           => EffectOf(o, op.attempt_generation) \notin effects
  BY DEF Truthful, Resolutions
<1> HIDE DEF op, new, entry
<1>8. /\ operations'[o] = new
      /\ \A p \in OperationIds : p # o => operations'[p] = operations[p]
  BY <1>1, <1>2 DEF OpTypeOK
<1>9. /\ evidence'[o][v] = entry
      /\ \A p \in OperationIds, w \in Revisions :
            p # o \/ w # v => evidence'[p][w] = evidence[p][w]
  BY <1>1, <1>2 DEF OpTypeOK
<1>10a. entry # None
  BY <1>5, OperationConstants
<1>10. OpTypeOK'
  BY <1>1, <1>2, <1>4, <1>5 DEF OpTypeOK
<1>11. \A p \in OperationIds :
         operations[p] # None =>
            /\ operations'[p] # None
            /\ operations'[p].attempt_generation = operations[p].attempt_generation
  BY <1>4, <1>8, OperationConstants DEF op
<1>12. AttemptsBounded'
  BY <1>1, <1>2, <1>11 DEF IInv, AttemptsBounded, OpTypeOK, Attempts
<1>13. \A p \in OperationIds, w \in Revisions :
         evidence[p][w] # None => evidence'[p][w] = evidence[p][w]
  BY <1>1, <1>9
<1>14. \A p \in OperationIds : \A g : ProvenAbsent(p, g) => ProvenAbsent(p, g)'
  BY <1>13 DEF ProvenAbsent
<1>15. \A p \in OperationIds : \A g : ProvenAbsent(p, g)' =>
         \/ ProvenAbsent(p, g)
         \/ p = o /\ g = op.attempt_generation /\ resolution = "effect_proven_absent"
  BY <1>5, <1>9 DEF ProvenAbsent
<1>16. SuccessorNeedsProof'
  BY <1>1, <1>4, <1>8, <1>14 DEF IInv, SuccessorNeedsProof, Known, op
<1>17. ReopenedByProof'
  <2>1. \A g : resolution = "effect_proven_absent" /\ g = op.attempt_generation
                => ProvenAbsent(o, g)'
    BY <1>5, <1>9, <1>10a DEF ProvenAbsent
  <2>2. new.state = "prepared" => resolution = "effect_proven_absent"
    BY <1>1, <1>4 DEF Resolutions
  <2> SUFFICES ASSUME NEW p \in OperationIds, NEW g, operations'[p] # None,
                      operations'[p].state = "prepared",
                      g = operations'[p].attempt_generation, g > 0
               PROVE  ProvenAbsent(p, g)'
    BY DEF ReopenedByProof, Known
  <2>3. CASE p = o
    BY <2>1, <2>2, <2>3, <1>4, <1>8
  <2>4. CASE p # o
    <3>1. operations'[p] = operations[p]
      BY <2>4, <1>8
    <3>2. ProvenAbsent(p, g)
      BY <3>1 DEF IInv, ReopenedByProof, Known
    <3> QED  BY <3>2, <1>14
  <2> QED  BY <2>3, <2>4
<1>18. ProofsAreTrue'
  <2> SUFFICES ASSUME NEW f \in effects, ProvenAbsent(f.operation_id, f.attempt_generation)'
               PROVE  FALSE
    BY <1>1 DEF ProofsAreTrue
  <2>1. /\ f \in [operation_id : OperationIds, attempt_generation : Nat]
        /\ ~ ProvenAbsent(f.operation_id, f.attempt_generation)
    BY <1>2 DEF IInv, OpTypeOK, ProofsAreTrue
  <2>2. /\ f.operation_id = o /\ f.attempt_generation = op.attempt_generation
        /\ resolution = "effect_proven_absent"
    BY <2>1, <1>15
  <2>3. f = EffectOf(o, op.attempt_generation)
    BY <2>1, <2>2 DEF EffectOf
  <2> QED  BY <2>2, <2>3, <1>7
<1>19. SnapshotCoherent'
  <2>1. Coherent(new, evidence'[o])
    BY <1>1, <1>4, <1>5, <1>6, <1>7, <1>9, <1>10a, OperationConstants
       DEF Coherent, Evidence, Resolutions
  <2>2. \A p \in OperationIds :
           p # o /\ operations[p] # None => Coherent(operations'[p], evidence'[p])
    BY <1>8, <1>2, <1>9 DEF IInv, SnapshotCoherent, Known, Coherent, OpTypeOK, Operations
  <2> QED  BY <2>1, <2>2, <1>8 DEF SnapshotCoherent, Known
<1>20. CompletedHasEffect'
  BY <1>1, <1>4, <1>7, <1>8 DEF IInv, CompletedHasEffect, Known, Resolutions
<1> QED  BY <1>10, <1>12, <1>16, <1>17, <1>18, <1>19, <1>20 DEF IInv

\* A late holder reaches the effect authority, unless its attempt was proven absent.
LEMMA ApplyPreserves ==
    ASSUME IInv, NEW a \in attempts, ApplyEffect(a)
    PROVE  IInv'
<1> DEFINE f == EffectOf(a.operation_id, a.attempt_generation)
<1>1. /\ ~ ProvenAbsent(a.operation_id, a.attempt_generation)
      /\ effects' = effects \cup {f}
      /\ UNCHANGED <<operations, evidence, attempts>>
  BY DEF ApplyEffect
<1>2. OpTypeOK /\ a \in Attempts
  BY DEF IInv, OpTypeOK
<1>3. /\ f \in [operation_id : OperationIds, attempt_generation : Nat]
      /\ f.operation_id = a.operation_id /\ f.attempt_generation = a.attempt_generation
  BY <1>2 DEF EffectOf, Attempts
<1> HIDE DEF f
<1>4. OpTypeOK'
  BY <1>1, <1>2, <1>3 DEF OpTypeOK
<1>5. AttemptsBounded'
  BY <1>1, <1>3 DEF IInv, AttemptsBounded
<1>6. \A p, g : ProvenAbsent(p, g)' <=> ProvenAbsent(p, g)
  BY <1>1 DEF ProvenAbsent
<1>7. SuccessorNeedsProof' /\ ReopenedByProof'
  BY <1>1, <1>6 DEF IInv, SuccessorNeedsProof, ReopenedByProof, Known
<1>8. ProofsAreTrue'
  BY <1>1, <1>3, <1>6 DEF IInv, ProofsAreTrue
<1>9. SnapshotCoherent' /\ CompletedHasEffect'
  BY <1>1 DEF IInv, SnapshotCoherent, CompletedHasEffect, Known
<1> QED  BY <1>4, <1>5, <1>7, <1>8, <1>9 DEF IInv

\* Every step keeps the invariant.
LEMMA NextIInv == IInv /\ [OpNext]_opVars => IInv'
<1> SUFFICES ASSUME IInv, [OpNext]_opVars PROVE IInv'
  OBVIOUS
<1>1. CASE PrepareSome
  BY <1>1, PreparePreserves DEF PrepareSome
<1>2. CASE BeginSome
  BY <1>2, BeginPreserves DEF BeginSome
<1>3. CASE ExpireSome
  <2> PICK o \in OperationIds : ExpireAttempt(o)
    BY <1>3 DEF ExpireSome
  <2> QED  BY BlockPreserves DEF ExpireAttempt, AmbiguityReasons
<1>4. CASE CompleteSome
  BY <1>4, CompletePreserves DEF CompleteSome
<1>5. CASE AmbiguousSome
  <2> PICK a \in attempts : MarkAmbiguous(a)
    BY <1>5 DEF AmbiguousSome
  <2>1. a.operation_id \in OperationIds
    BY DEF IInv, OpTypeOK, Attempts
  <2> QED  BY <2>1, BlockPreserves DEF MarkAmbiguous, IsCurrentAttempt, AmbiguityReasons
<1>6. CASE FailSome
  BY <1>6, FailPreserves DEF FailSome
<1>7. CASE ReconcileSome
  BY <1>7, ReconcilePreserves DEF ReconcileSome
<1>8. CASE ApplySome
  BY <1>8, ApplyPreserves DEF ApplySome
<1>9. CASE UNCHANGED opVars
  BY <1>9 DEF opVars, IInv, OpTypeOK, AttemptsBounded, SuccessorNeedsProof, ReopenedByProof,
             ProofsAreTrue, SnapshotCoherent, CompletedHasEffect, Known, ProvenAbsent
<1> QED  BY <1>1, <1>2, <1>3, <1>4, <1>5, <1>6, <1>7, <1>8, <1>9 DEF OpNext

\* The invariant holds on every behaviour.
LEMMA OperationInvariant == OpSpec => []IInv
  BY InitIInv, NextIInv, PTL DEF OpSpec

-----------------------------------------------------------------------------
\* Type correctness of the operation ledger, its attempts and its evidence.
THEOREM OperationTypeCorrect == OpSpec => []OpTypeOK
<1>1. IInv => OpTypeOK
  BY DEF IInv
<1> QED  BY <1>1, OperationInvariant, PTL

\* However executors die, lapse, answer late or are reconciled, an operation takes
\* effect at most once: the attempts before the current one are proven without
\* effect, and no other can have one.
THEOREM OperationEffectAtMostOnce == OpSpec => []EffectAtMostOnce
<1>1. IInv => EffectAtMostOnce
  <2> SUFFICES ASSUME IInv, NEW f \in effects, NEW g \in effects,
                      f.operation_id = g.operation_id
               PROVE  f = g
    BY DEF EffectAtMostOnce
  <2> DEFINE o == f.operation_id
             current == operations[o].attempt_generation
  <2>1. /\ f \in [operation_id : OperationIds, attempt_generation : Nat]
        /\ g \in [operation_id : OperationIds, attempt_generation : Nat]
    BY DEF IInv, OpTypeOK
  <2>2. o \in Known /\ current \in Nat
    BY <2>1 DEF IInv, OpTypeOK, AttemptsBounded, Known, Operations
  <2>3. f.attempt_generation \in 1 .. current /\ g.attempt_generation \in 1 .. current
    BY DEF IInv, AttemptsBounded
  <2>4. ~ ProvenAbsent(o, f.attempt_generation) /\ ~ ProvenAbsent(o, g.attempt_generation)
    BY DEF IInv, ProofsAreTrue
  <2>5. \A n \in 1 .. (current - 1) : ProvenAbsent(o, n)
    BY <2>2 DEF IInv, SuccessorNeedsProof
  <2> HIDE DEF current
  <2>6. f.attempt_generation = current /\ g.attempt_generation = current
    BY <2>2, <2>3, <2>4, <2>5
  <2> QED  BY <2>1, <2>6
<1> QED  BY <1>1, OperationInvariant, PTL

\* Every attempt but the first follows a proof that its very predecessor had no
\* effect.
THEOREM OperationSuccessorNeedsProof == OpSpec => []SuccessorNeedsProof
<1>1. IInv => SuccessorNeedsProof
  BY DEF IInv
<1> QED  BY <1>1, OperationInvariant, PTL

\* The snapshot the inbox decides on can always be built, and never mixes the state
\* of one attempt with the evidence of another.
THEOREM OperationSnapshotCoherent == OpSpec => []SnapshotCoherent
<1>1. IInv => SnapshotCoherent
  BY DEF IInv
<1> QED  BY <1>1, OperationInvariant, PTL

\* A completed operation names an effect that took place.
THEOREM OperationCompletedHasEffect == OpSpec => []CompletedHasEffect
<1>1. IInv => CompletedHasEffect
  BY DEF IInv
<1> QED  BY <1>1, OperationInvariant, PTL

-----------------------------------------------------------------------------
(* The consumer inbox *)

\* Some recorded evidence proves that the operation had no effect.
AbsenceProven(o) ==
    \E v \in Revisions :
        evidence[o][v] # None /\ evidence[o][v].resolution = "effect_proven_absent"

\* A link names the local effect, or the effect of the completed operation.
LinkIsBacked(k, r) ==
    /\ r.result_link.operation_id = r.operation_id
    /\ IF r.operation_id = None
       THEN LocalEffect(k, r.result_link.attempt_generation) \in local_effects
       ELSE /\ operations[r.operation_id] # None
            /\ operations[r.operation_id].state = "completed"
            /\ operations[r.operation_id].outcome = r.result_link.attempt_generation
            /\ r.result_link \in effects

\* What holds of a receipt, of one that is written already and of one that is about to be.  A
\* receipt with a link is not executed again, and one that waits for an executor after its first
\* has the proof that lets it.
Sound(k, r) ==
    /\ r.state = "completed" => r.result_link # None
    /\ r.result_link # None => r.state \notin {"admitted", "processing"} /\ LinkIsBacked(k, r)
    /\ r.execution_generation > 1 \/ (r.state = "admitted" /\ r.execution_generation > 0) =>
          r.operation_id # None /\ AbsenceProven(r.operation_id)

\* The write that is under way concerns a receipt there is, and a message without local effect.
InboxIsSound ==
    /\ \A k \in Received : Sound(k, receipts[k])
    /\ pending_write # None =>
          /\ receipts[pending_write.key] # None
          /\ Sound(pending_write.key, pending_write.receipt)
          /\ \A d \in local_effects : d.key # pending_write.key
    /\ \A d, e \in local_effects : d.key = e.key => d = e
    /\ \A d \in local_effects : /\ receipts[d.key] # None
                                /\ receipts[d.key].operation_id = None
                                /\ receipts[d.key].result_link # None

InboxInvariant == IInv /\ InboxTypeOK /\ InboxIsSound

\* Nothing is received at first.
LEMMA InboxInitially == Init => InboxInvariant
<1> SUFFICES ASSUME Init PROVE InboxInvariant
  OBVIOUS
<1>1. IInv
  BY InitIInv DEF Init
<1>2. InboxTypeOK /\ InboxIsSound
  BY InboxConstants DEF Init, InboxTypeOK, InboxIsSound, Received
<1> QED  BY <1>1, <1>2 DEF InboxInvariant

\* What the inbox properties say is part of it.
LEMMA SoundImplies ==
    InboxInvariant => CompletedIsBacked /\ LocalEffectOnce /\ ReexecutionNeedsProof
  BY DEF InboxInvariant, InboxIsSound, Sound, LinkIsBacked, AbsenceProven, CompletedIsBacked,
         LocalEffectOnce, ReexecutionNeedsProof, Received

\* A record of the inbox is written at once.
LEMMA SettingKeeps ==
    ASSUME InboxInvariant, NEW k \in Keys, NEW r \in Receipts, Unlocked, Sound(k, r),
           receipts' = [receipts EXCEPT ![k] = r],
           receipts[k] # None => /\ r.operation_id = receipts[k].operation_id
                                 /\ r.result_link = receipts[k].result_link,
           claims' \subseteq InboxClaims, UNCHANGED <<pending_write, local_effects, opVars>>
    PROVE  InboxInvariant'
<1> USE InboxConstants DEF InboxInvariant
<1>1. receipts'[k] = r /\ r # None /\ \A j \in Keys : j # k => receipts'[j] = receipts[j]
  BY DEF InboxTypeOK
<1>2. IInv'
  BY NextIInv DEF vars, opVars
<1>3. InboxTypeOK'
  BY DEF InboxTypeOK
<1>4. ASSUME NEW j \in Keys, receipts'[j] # None
      PROVE  Sound(j, receipts[j])'
  <2>1. CASE j = k
    BY <1>1, <2>1 DEF Sound, LinkIsBacked, AbsenceProven, opVars
  <2>2. CASE j # k
    <3>1. Sound(j, receipts[j])
      BY <1>1, <1>4, <2>2 DEF InboxIsSound, Received
    <3> QED  BY <1>1, <2>2, <3>1 DEF Sound, LinkIsBacked, AbsenceProven, opVars
  <2> QED  BY <2>1, <2>2
<1>5. pending_write' = None
  BY DEF Unlocked
<1>6. \A d \in local_effects : d.key \in Keys
  BY DEF InboxTypeOK
<1>7. InboxIsSound'
  <2>1. \A d \in local_effects : /\ receipts'[d.key] # None
                                 /\ receipts'[d.key].operation_id = None
                                 /\ receipts'[d.key].result_link # None
    BY <1>1, <1>6 DEF InboxIsSound
  <2>2. \A d, e \in local_effects : d.key = e.key => d = e
    BY DEF InboxIsSound
  <2> HIDE DEF InboxInvariant
  <2> QED  BY <1>4, <1>5, <2>1, <2>2 DEF InboxIsSound, Received
<1> QED  BY <1>2, <1>3, <1>7

\* The operations move on: what a receipt rests on, that an operation is completed with its
\* outcome, that an effect took place and that an absence is proven, stays as it is.
LEMMA OperationsSettle ==
    ASSUME IInv, OpNext, NEW o \in OperationIds
    PROVE  /\ operations[o] # None /\ operations[o].state = "completed" =>
                 operations'[o] = operations[o]
           /\ AbsenceProven(o) => AbsenceProven(o)'
           /\ effects \subseteq effects'
<1> USE OperationConstants DEF IInv
<1>1. /\ operations \in [OperationIds -> Operations \cup {None}]
      /\ evidence \in [OperationIds -> [Revisions -> Evidence \cup {None}]]
      /\ \A a \in attempts : a.operation_id \in OperationIds
  BY DEF OpTypeOK, Attempts
<1>2. CASE PrepareSome
  BY <1>1, <1>2 DEF PrepareSome, Prepare, AbsenceProven
<1>3. CASE BeginSome
  BY <1>1, <1>3 DEF BeginSome, BeginAttempt, AbsenceProven
<1>4. CASE ExpireSome
  BY <1>1, <1>4 DEF ExpireSome, ExpireAttempt, AbsenceProven
<1>5. CASE CompleteSome
  BY <1>1, <1>5 DEF CompleteSome, CompleteAttempt, IsCurrentAttempt, AbsenceProven
<1>6. CASE AmbiguousSome
  BY <1>1, <1>6 DEF AmbiguousSome, MarkAmbiguous, IsCurrentAttempt, AbsenceProven
<1>7. CASE FailSome
  BY <1>1, <1>7 DEF FailSome, FailAttemptTerminal, IsCurrentAttempt, AbsenceProven
<1>8. CASE ApplySome
  BY <1>1, <1>8 DEF ApplySome, ApplyEffect, AbsenceProven
<1>9. CASE ReconcileSome
  <2>1. PICK p \in OperationIds, v \in Revisions, resolution \in Resolutions,
             outcome \in 1 .. MaxAttempts \cup {None} :
                Truthful(p, resolution, outcome) /\ Reconcile(p, v, resolution, outcome)
    BY <1>9 DEF ReconcileSome
  <2> DEFINE entry == [attempt_generation |-> operations[p].attempt_generation,
                       resolution |-> resolution, confirmed_outcome |-> outcome]
             op == Reconciled(operations[p], v, resolution, outcome)
  <2>2. /\ operations[p].state = "reconciliation_required"
        /\ evidence[p][v] \in {None, entry}
        /\ evidence' = [evidence EXCEPT ![p][v] = entry]
        /\ operations' = [operations EXCEPT ![p] = op]
        /\ operations[p] # None /\ operations[p].attempt_generation >= 1
        /\ UNCHANGED effects
    BY <2>1 DEF Reconcile, RevisionUsable
  <2>3. entry # None
    <3>1. operations[p] \in Operations
      BY <1>1, <2>2
    <3>2. entry \in Evidence
      BY <2>2, <3>1 DEF Operations, Evidence, Outcomes
    <3> QED  BY <3>2
  <2> HIDE DEF entry, op
  <2>4. \A u \in Revisions : evidence[o][u] # None => evidence'[o][u] = evidence[o][u]
    BY <1>1, <2>2
  <2> QED  BY <1>1, <2>2, <2>4 DEF AbsenceProven
<1> QED  BY <1>2, <1>3, <1>4, <1>5, <1>6, <1>7, <1>8, <1>9 DEF OpNext

\* A step of the operations keeps the inbox.
LEMMA OperationStepKeeps ==
    ASSUME InboxInvariant, OpNext, UNCHANGED inboxVars
    PROVE  InboxInvariant'
<1> USE InboxConstants DEF InboxInvariant
<1>1. IInv'
  BY NextIInv
<1>2. InboxTypeOK'
  BY DEF InboxTypeOK, inboxVars
<1>3. /\ \A k \in Keys : receipts[k] # None => receipts[k] \in Receipts
      /\ pending_write # None => pending_write.key \in Keys /\ pending_write.receipt \in Receipts
  BY DEF InboxTypeOK
<1>4. ASSUME NEW k \in Keys, NEW r \in Receipts, Sound(k, r)
      PROVE  /\ r.execution_generation > 1 \/ (r.state = "admitted" /\ r.execution_generation > 0) =>
                   r.operation_id # None /\ AbsenceProven(r.operation_id)'
             /\ r.result_link # None =>
                   /\ r.result_link.operation_id = r.operation_id
                   /\ IF r.operation_id = None
                      THEN LocalEffect(k, r.result_link.attempt_generation) \in local_effects
                      ELSE /\ operations'[r.operation_id] # None
                           /\ operations'[r.operation_id].state = "completed"
                           /\ operations'[r.operation_id].outcome = r.result_link.attempt_generation
                           /\ r.result_link \in effects'
  <2>1. r.operation_id # None => r.operation_id \in OperationIds
    BY DEF Receipts
  <2> DEFINE o == r.operation_id
  <2>2. CASE o = None
    BY <1>4, <2>2 DEF Sound, LinkIsBacked
  <2>3. CASE o # None
    <3>1. /\ operations[o] # None /\ operations[o].state = "completed" => operations'[o] = operations[o]
          /\ AbsenceProven(o) => AbsenceProven(o)'
          /\ effects \subseteq effects'
      BY <2>1, <2>3, OperationsSettle
    <3> QED  BY <1>4, <2>3, <3>1 DEF Sound, LinkIsBacked
  <2> QED  BY <2>2, <2>3
<1>5. UNCHANGED <<receipts, claims, pending_write, local_effects>>
  BY DEF inboxVars
<1>6. \A k \in Received : Sound(k, receipts[k])'
  BY <1>3, <1>4, <1>5 DEF InboxIsSound, Received, Sound, LinkIsBacked, AbsenceProven
<1>7. pending_write # None => Sound(pending_write.key, pending_write.receipt)'
  BY <1>3, <1>4, <1>5 DEF InboxIsSound, Sound, LinkIsBacked, AbsenceProven
<1>8. InboxIsSound'
  BY <1>5, <1>6, <1>7 DEF InboxIsSound, Received
<1> QED  BY <1>1, <1>2, <1>8

\* A call consulted the operations, and will write a receipt of a message without local effect.
LEMMA SnapshotKeeps ==
    ASSUME InboxInvariant, NEW k \in Keys, NEW r \in Receipts, Sound(k, r), receipts[k] # None,
           \A d \in local_effects : d.key # k, AfterSnapshot(k, r)
    PROVE  InboxInvariant'
<1> USE DEF InboxInvariant
<1>1. /\ pending_write' = [key |-> k, receipt |-> r]
      /\ UNCHANGED <<receipts, claims, local_effects, opVars>>
  BY DEF AfterSnapshot
<1>2. IInv'
  BY <1>1, NextIInv
<1>3. InboxTypeOK'
  BY <1>1 DEF InboxTypeOK
<1>4. \A j \in Received : Sound(j, receipts[j])'
  BY <1>1 DEF InboxIsSound, Sound, LinkIsBacked, AbsenceProven, opVars
<1>5. Sound(pending_write.key, pending_write.receipt)'
  BY <1>1 DEF Sound, LinkIsBacked, AbsenceProven, opVars
<1>6. InboxIsSound'
  BY <1>1, <1>4, <1>5 DEF InboxIsSound, Received
<1> QED  BY <1>2, <1>3, <1>6

\* The write that ends the call.
LEMMA WriteKeeps ==
    ASSUME InboxInvariant, Write
    PROVE  InboxInvariant'
<1> USE InboxConstants DEF InboxInvariant
<1> DEFINE k == pending_write.key
           r == pending_write.receipt
<1>1. /\ pending_write # None /\ k \in Keys /\ r \in Receipts /\ r # None
      /\ receipts \in [Keys -> Receipts \cup {None}]
  BY DEF Write, InboxTypeOK
<1>2. /\ receipts' = [receipts EXCEPT ![k] = r] /\ pending_write' = None
      /\ UNCHANGED <<claims, local_effects, opVars>>
  BY DEF Write
<1>3. Sound(k, r) /\ \A d \in local_effects : d.key # k
  BY <1>1 DEF InboxIsSound
<1> HIDE DEF k, r
<1>4. receipts'[k] = r /\ \A j \in Keys : j # k => receipts'[j] = receipts[j]
  BY <1>1, <1>2
<1>5. IInv'
  BY <1>2, NextIInv
<1>6. InboxTypeOK'
  BY <1>1, <1>2 DEF InboxTypeOK
<1>7. ASSUME NEW j \in Keys, receipts'[j] # None
      PROVE  Sound(j, receipts[j])'
  <2>1. CASE j = k
    BY <1>2, <1>3, <1>4, <2>1 DEF Sound, LinkIsBacked, AbsenceProven, opVars
  <2>2. CASE j # k
    <3>1. Sound(j, receipts[j])
      BY <1>4, <1>7, <2>2 DEF InboxIsSound, Received
    <3> QED  BY <1>2, <1>4, <2>2, <3>1 DEF Sound, LinkIsBacked, AbsenceProven, opVars
  <2> QED  BY <2>1, <2>2
<1>8. \A d \in local_effects : d.key \in Keys /\ receipts'[d.key] = receipts[d.key]
  BY <1>3, <1>4 DEF InboxTypeOK
<1>9. InboxIsSound'
  BY <1>2, <1>7, <1>8 DEF InboxIsSound, Received
<1> QED  BY <1>5, <1>6, <1>9

\* A receipt that no longer points at what decided it.
Unpointed(r) == [r EXCEPT !.reconciliation_revision = None]

\* A receipt that loses its executor keeps its operation, link and generation.
LEMMA StoppedReceipt ==
    \A k \in Keys, r \in Receipts, reason \in TerminalReasons,
       state \in {"quarantined", "reconciliation_required", "failed_terminal"} :
       Sound(k, r) =>
          \A new \in {Stopped(r, state, reason), Unpointed(Stopped(r, state, reason))} :
             /\ new \in Receipts /\ Sound(k, new)
             /\ new.operation_id = r.operation_id /\ new.result_link = r.result_link
<1> TAKE k \in Keys, r \in Receipts, reason \in TerminalReasons,
         state \in {"quarantined", "reconciliation_required", "failed_terminal"}
<1> HAVE Sound(k, r)
<1> DEFINE stopped == Stopped(r, state, reason)
           unpointed == Unpointed(stopped)
<1>1. /\ stopped \in Receipts /\ stopped.state = state
      /\ stopped.operation_id = r.operation_id /\ stopped.result_link = r.result_link
      /\ stopped.execution_generation = r.execution_generation
  BY DEF Stopped, Receipts, InboxStates
<1> HIDE DEF stopped
<1>2. /\ unpointed \in Receipts /\ unpointed.state = state
      /\ unpointed.operation_id = r.operation_id /\ unpointed.result_link = r.result_link
      /\ unpointed.execution_generation = r.execution_generation
  BY <1>1 DEF Receipts, Unpointed
<1> HIDE DEF unpointed
<1>3. Sound(k, stopped) /\ Sound(k, unpointed)
  BY <1>1, <1>2 DEF Sound, LinkIsBacked
<1> QED  BY <1>1, <1>2, <1>3 DEF stopped, unpointed

\* The calls that take the executor away.
LEMMA StoppingKeeps ==
    ASSUME InboxInvariant,
           \/ \E k \in Keys, s \in Scopes, ev \in ComparisonEvidence : AdmitAgain(k, s, ev)
           \/ \E k \in Keys : ExpireProcessingClaim(k)
           \/ \E c \in claims : RequireReconciliation(c) \/ FailTerminal(c)
    PROVE  InboxInvariant'
<1>1. PICK k \in Keys, reason \in TerminalReasons,
           state \in {"quarantined", "reconciliation_required", "failed_terminal"} :
         /\ Unlocked /\ receipts[k] # None
         /\ \/ SetReceipt(k, Stopped(receipts[k], state, reason))
            \/ SetReceipt(k, Unpointed(Stopped(receipts[k], state, reason)))
  <2>1. \A c \in claims : c.key \in Keys
    BY DEF InboxInvariant, InboxTypeOK, InboxClaims
  <2>2. /\ "conflicting_trusted_binding" \in TerminalReasons
        /\ "conflicting_immutable_content" \in TerminalReasons
        /\ "equivalence_unknown" \in TerminalReasons
        /\ "processing_lease_expired" \in TerminalReasons
        /\ "ambiguous" \in TerminalReasons /\ "failed" \in TerminalReasons
    BY DEF TerminalReasons, AdmissionReasons
  <2>3. CASE \E k \in Keys, s \in Scopes, ev \in ComparisonEvidence : AdmitAgain(k, s, ev)
    <3> HIDE DEF TerminalReasons
    <3> QED  BY <2>2, <2>3 DEF AdmitAgain, Unpointed
  <2>4. CASE \E k \in Keys : ExpireProcessingClaim(k)
    BY <2>2, <2>4 DEF ExpireProcessingClaim, Lapsed, Unpointed
  <2>5. CASE \E c \in claims : RequireReconciliation(c)
    BY <2>1, <2>2, <2>5 DEF RequireReconciliation, IsCurrentClaim, Unpointed
  <2>6. CASE \E c \in claims : FailTerminal(c)
    BY <2>1, <2>2, <2>6 DEF FailTerminal, IsCurrentClaim
  <2> QED  BY <2>3, <2>4, <2>5, <2>6
<1>2. receipts[k] \in Receipts /\ Sound(k, receipts[k])
  BY <1>1 DEF InboxInvariant, InboxTypeOK, InboxIsSound, Received
<1>3. claims \subseteq InboxClaims
  BY DEF InboxInvariant, InboxTypeOK
<1>4. PICK r \in Receipts : /\ Sound(k, r) /\ SetReceipt(k, r)
                            /\ r.operation_id = receipts[k].operation_id
                            /\ r.result_link = receipts[k].result_link
  <2> DEFINE stopped == Stopped(receipts[k], state, reason)
             unpointed == Unpointed(stopped)
  <2>1. \A n \in {stopped, unpointed} :
           /\ n \in Receipts /\ Sound(k, n)
           /\ n.operation_id = receipts[k].operation_id /\ n.result_link = receipts[k].result_link
    BY <1>2, StoppedReceipt DEF Receipts
  <2>2. SetReceipt(k, stopped) \/ SetReceipt(k, unpointed)
    BY <1>1
  <2> HIDE DEF stopped, unpointed
  <2> QED  BY <2>1, <2>2
<1>5. /\ receipts' = [receipts EXCEPT ![k] = r]
      /\ UNCHANGED <<claims, pending_write, local_effects, opVars>>
  BY <1>4 DEF SetReceipt
<1> QED  BY <1>1, <1>3, <1>4, <1>5, SettingKeeps

\* The first admission of a message.
LEMMA AdmitNewKeeps ==
    ASSUME InboxInvariant, NEW k \in Keys, NEW s \in Scopes, NEW ev \in ComparisonEvidence,
           AdmitNew(k, s, ev)
    PROVE  InboxInvariant'
<1> DEFINE r == [scope |-> s, comparison_evidence |-> ev, state |-> "admitted",
                 executor_id |-> None, execution_generation |-> 0,
                 execution_admission |-> None, result_link |-> None,
                 operation_id |-> None, terminal_reason |-> None,
                 reconciliation_revision |-> None]
<1>1. r \in Receipts /\ Sound(k, r)
  BY DEF Receipts, InboxStates, Sound
<1>2. SetReceipt(k, r) /\ Unlocked /\ receipts[k] = None
  BY DEF AdmitNew
<1> HIDE DEF r
<1>3. claims \subseteq InboxClaims
  BY DEF InboxInvariant, InboxTypeOK
<1>4. /\ receipts' = [receipts EXCEPT ![k] = r]
      /\ UNCHANGED <<claims, pending_write, local_effects, opVars>>
  BY <1>2 DEF SetReceipt
<1> QED  BY <1>1, <1>2, <1>3, <1>4, SettingKeeps

\* A claim of the effect: the second one of a message finds the proof that admitted it.
LEMMA ClaimEffectKeeps ==
    ASSUME InboxInvariant, NEW k \in Keys, NEW e \in Executors, ClaimEffect(k, e)
    PROVE  InboxInvariant'
<1> DEFINE old == receipts[k]
           g == old.execution_generation + 1
           r == [old EXCEPT !.state = "processing", !.executor_id = e,
                            !.execution_generation = g, !.execution_admission = g,
                            !.reconciliation_revision = None]
           claim == [key |-> k, executor_id |-> e, execution_generation |-> g]
<1>1. /\ Unlocked /\ old # None /\ old.state = "admitted"
      /\ receipts' = [receipts EXCEPT ![k] = r] /\ claims' = claims \cup {claim}
      /\ UNCHANGED <<pending_write, local_effects, opVars>>
  BY DEF ClaimEffect
<1>2. old \in Receipts /\ Sound(k, old)
  BY <1>1 DEF InboxInvariant, InboxTypeOK, InboxIsSound, Received
<1> HIDE DEF old
<1>3. g \in Nat /\ (g > 1 => old.execution_generation > 0)
  BY <1>2 DEF Receipts
<1>4. /\ r \in Receipts /\ r.state = "processing" /\ r.execution_generation = g
      /\ r.operation_id = old.operation_id /\ r.result_link = old.result_link
  <2> HIDE DEF g
  <2> QED  BY <1>2, <1>3 DEF Receipts, InboxStates
<1>5. claim \in InboxClaims
  BY <1>3 DEF InboxClaims
<1> HIDE DEF r, g, claim
<1>6. Sound(k, r)
  BY <1>1, <1>2, <1>3, <1>4 DEF Sound
<1>7. claims' \subseteq InboxClaims
  BY <1>1, <1>5 DEF InboxInvariant, InboxTypeOK
<1> QED  BY <1>1, <1>4, <1>6, <1>7, SettingKeeps DEF old

\* A local effect commits with the completion of its receipt, which had none before.
LEMMA CompleteLocalKeeps ==
    ASSUME InboxInvariant, NEW c \in claims, CompleteLocalEffect(c)
    PROVE  InboxInvariant'
<1> USE InboxConstants DEF InboxInvariant
<1> DEFINE k == c.key
           old == receipts[k]
           link == [operation_id |-> None, attempt_generation |-> c.execution_generation]
           r == Completed(old, link)
           effect == LocalEffect(k, c.execution_generation)
<1>1. c \in InboxClaims /\ k \in Keys /\ c.execution_generation \in Nat
  BY DEF InboxTypeOK, InboxClaims
<1>2. /\ pending_write = None /\ old # None /\ old.state = "processing"
      /\ old.operation_id = None
      /\ receipts' = [receipts EXCEPT ![k] = r] /\ local_effects' = local_effects \cup {effect}
      /\ UNCHANGED <<claims, pending_write, opVars>>
  BY DEF CompleteLocalEffect, IsCurrentClaim, Unlocked
<1>3. old \in Receipts /\ Sound(k, old) /\ receipts \in [Keys -> Receipts \cup {None}]
  BY <1>1, <1>2 DEF InboxTypeOK, InboxIsSound, Received
<1>4. old.result_link = None
  BY <1>2, <1>3 DEF Sound
<1>5. link \in ResultLinks /\ link # None
  <2>1. link \in ResultLinks
    BY <1>1 DEF ResultLinks
  <2> QED  BY <2>1
<1>6. /\ effect.key = k
      /\ effect = LocalEffect(k, link.attempt_generation)
      /\ effect \in [key : Keys, execution_generation : Nat]
  BY <1>1 DEF LocalEffect
<1>7. link.operation_id = None
  OBVIOUS
<1>8. \A d \in local_effects : d.key # k /\ d.key \in Keys
  BY <1>4 DEF InboxIsSound, InboxTypeOK
<1> HIDE DEF old, link, effect, k
<1>9. /\ r \in Receipts /\ r.state = "completed" /\ r.result_link = link /\ r # None
      /\ r.operation_id = None /\ r.execution_generation = old.execution_generation
  <2>1. /\ r \in Receipts /\ r.state = "completed" /\ r.result_link = link
        /\ r.operation_id = old.operation_id /\ r.execution_generation = old.execution_generation
    BY <1>3, <1>5 DEF Receipts, InboxStates, Completed
  <2> QED  BY <1>2, <2>1
<1> HIDE DEF r
<1>10. receipts'[k] = r /\ \A j \in Keys : j # k => receipts'[j] = receipts[j]
  BY <1>1, <1>2, <1>3
<1>11. IInv'
  BY <1>2, NextIInv
<1>12. InboxTypeOK'
  BY <1>1, <1>2, <1>3, <1>6, <1>9 DEF InboxTypeOK
<1>13. ASSUME NEW j \in Keys, receipts'[j] # None
       PROVE  Sound(j, receipts[j])'
  <2>1. CASE j = k
    <3>1. ~ (old.execution_generation > 1)
      BY <1>2, <1>3 DEF Sound
    <3> QED  BY <1>2, <1>5, <1>6, <1>7, <1>9, <1>10, <2>1, <3>1 DEF Sound, LinkIsBacked
  <2>2. CASE j # k
    <3>1. Sound(j, receipts[j])
      BY <1>10, <1>13, <2>2 DEF InboxIsSound, Received
    <3> QED  BY <1>2, <1>10, <2>2, <3>1 DEF Sound, LinkIsBacked, AbsenceProven, opVars
  <2> QED  BY <2>1, <2>2
<1>14. InboxIsSound'
  <2>1. \A d, f \in local_effects' : d.key = f.key => d = f
    BY <1>2, <1>6, <1>8 DEF InboxIsSound
  <2>2. ASSUME NEW d \in local_effects'
        PROVE  /\ receipts'[d.key] # None /\ receipts'[d.key].operation_id = None
               /\ receipts'[d.key].result_link # None
    <3>1. CASE d = effect
      BY <1>5, <1>6, <1>9, <1>10, <3>1
    <3>2. CASE d \in local_effects
      BY <1>8, <1>10, <3>2 DEF InboxIsSound
    <3> QED  BY <1>2, <3>1, <3>2
  <2> QED  BY <1>2, <1>13, <2>1, <2>2 DEF InboxIsSound, Received
<1> QED  BY <1>11, <1>12, <1>14

\* A receipt whose effect may be local still has no operation; so a message whose receipt has
\* one, or is being executed, has no local effect.
LEMMA NoLocalEffect ==
    ASSUME InboxInvariant, NEW k \in Keys, receipts[k] # None,
           receipts[k].operation_id # None \/ receipts[k].state = "processing"
    PROVE  \A d \in local_effects : d.key # k
  BY DEF InboxInvariant, InboxIsSound, Sound, Received

\* A receipt is bound to an operation by its executor.
LEMMA BindKeeps ==
    ASSUME InboxInvariant, NEW c \in claims, NEW o \in OperationIds, BindOperation(c, o)
    PROVE  InboxInvariant'
<1> USE InboxConstants DEF InboxInvariant
<1> DEFINE k == c.key
           old == receipts[k]
           r == [old EXCEPT !.operation_id = o]
<1>1. k \in Keys
  BY DEF InboxTypeOK, InboxClaims
<1>2. /\ old # None /\ old.state = "processing" /\ old.operation_id \in {None, o}
      /\ AfterSnapshot(k, r)
  BY DEF BindOperation, IsCurrentClaim
<1>3. old \in Receipts /\ Sound(k, old)
  BY <1>1, <1>2 DEF InboxTypeOK, InboxIsSound, Received
<1>4. \A d \in local_effects : d.key # k
  BY <1>1, <1>2, NoLocalEffect
<1>5. receipts[k] # None
  BY <1>2
<1> HIDE DEF old, k
<1>6. /\ r \in Receipts /\ r.state = old.state /\ r.result_link = old.result_link
      /\ r.operation_id = o /\ r.execution_generation = old.execution_generation
  BY <1>3 DEF Receipts
<1> HIDE DEF r
<1>7. Sound(k, r)
  BY <1>2, <1>3, <1>6 DEF Sound
<1> QED  BY <1>1, <1>2, <1>4, <1>5, <1>6, <1>7, SnapshotKeeps

\* What a snapshot of a completed operation proves of the link to its effect.
LEMMA CompletedOperationBacks ==
    ASSUME IInv, NEW o \in OperationIds, operations[o] # None, operations[o].state = "completed"
    PROVE  LET link == EffectOf(o, operations[o].outcome)
           IN  /\ link \in effects /\ link.operation_id = o
               /\ link.attempt_generation = operations[o].outcome
               /\ link \in ResultLinks
<1>1. EffectOf(o, operations[o].outcome) \in effects
  BY DEF IInv, CompletedHasEffect, Known
<1>2. effects \subseteq [operation_id : OperationIds, attempt_generation : Nat]
  BY DEF IInv, OpTypeOK
<1> QED  BY <1>1, <1>2 DEF EffectOf, ResultLinks

\* A completion takes its link from the operation, by the executor or by reconciliation.
LEMMA CompletionKeeps ==
    ASSUME InboxInvariant,
           \/ \E c \in claims, l \in Links : CompleteCrossAuthorityEffect(c, l)
           \/ \E k \in Keys, l \in Links : ReconcileCompleted(k, l)
    PROVE  InboxInvariant'
<1> USE InboxConstants, OperationConstants DEF InboxInvariant
<1>1. PICK k, r, l :
         LET old == receipts[k]
             op == operations[old.operation_id]
         IN  /\ k \in Keys /\ old # None /\ old.operation_id # None /\ op # None
             /\ op.state = "completed" /\ l = EffectOf(old.operation_id, op.outcome)
             /\ AfterSnapshot(k, r)
             /\ \/ r = Completed(old, l)
                \/ /\ op.reconciliation_revision # None
                   /\ r = [old EXCEPT !.state = "completed", !.result_link = l,
                                      !.terminal_reason = None,
                                      !.reconciliation_revision = op.reconciliation_revision]
  <2>1. CASE \E c \in claims, l \in Links : CompleteCrossAuthorityEffect(c, l)
    <3>1. PICK c \in claims, l \in Links : CompleteCrossAuthorityEffect(c, l)
      BY <2>1
    <3>2. c.key \in Keys
      BY DEF InboxTypeOK, InboxClaims
    <3> QED  BY <3>1, <3>2 DEF CompleteCrossAuthorityEffect, IsCurrentClaim, InScope
  <2>2. CASE \E k \in Keys, l \in Links : ReconcileCompleted(k, l)
    BY <2>2 DEF ReconcileCompleted, InScope
  <2> QED  BY <2>1, <2>2
<1> DEFINE old == receipts[k]
           o == old.operation_id
<1>2. old \in Receipts /\ Sound(k, old) /\ old # None
  BY <1>1 DEF InboxTypeOK, InboxIsSound, Received
<1>3. o \in OperationIds /\ operations[o] # None /\ operations[o].state = "completed"
      /\ l = EffectOf(o, operations[o].outcome) /\ operations[o] \in Operations
  BY <1>1, <1>2 DEF Receipts, IInv, OpTypeOK
<1>4. /\ l \in effects /\ l.operation_id = o /\ l \in ResultLinks /\ l # None
      /\ l.attempt_generation = operations[o].outcome
  BY <1>3, CompletedOperationBacks
<1>5. \A d \in local_effects : d.key # k
  BY <1>1, NoLocalEffect
<1>6. /\ r \in Receipts /\ r.state = "completed" /\ r.result_link = l
      /\ r.operation_id = o /\ r.execution_generation = old.execution_generation
  <2>1. CASE r = Completed(old, l)
    <3> HIDE DEF old
    <3> QED  BY <1>2, <1>4, <2>1 DEF Receipts, InboxStates, Completed, o
  <2>2. CASE r = [old EXCEPT !.state = "completed", !.result_link = l, !.terminal_reason = None,
                             !.reconciliation_revision = operations[o].reconciliation_revision]
    <3>1. operations[o].reconciliation_revision \in Revisions \cup {None}
      BY <1>3 DEF Operations
    <3> DEFINE v == operations[o].reconciliation_revision
    <3> HIDE DEF old, v
    <3> QED  BY <1>2, <1>4, <2>2, <3>1 DEF Receipts, InboxStates, o, v
  <2> QED  BY <1>1, <2>1, <2>2
<1> HIDE DEF old
<1>7. Sound(k, r)
  BY <1>2, <1>3, <1>4, <1>6 DEF Sound, LinkIsBacked
<1> QED  BY <1>1, <1>5, <1>6, <1>7, SnapshotKeeps

\* An operation that waits again, after its absence was proven, admits the next executor.
LEMMA RetryKeeps ==
    ASSUME InboxInvariant, NEW k \in Keys, ReconcileRetryEligible(k)
    PROVE  InboxInvariant'
<1> USE InboxConstants, OperationConstants DEF InboxInvariant
<1> DEFINE old == receipts[k]
           o == old.operation_id
           v == operations[o].reconciliation_revision
           r == [old EXCEPT !.state = "admitted", !.terminal_reason = None,
                            !.reconciliation_revision = v]
<1>1. /\ old # None /\ o # None /\ operations[o] # None
      /\ operations[o].state = "prepared" /\ v # None
      /\ operations[o].reconciliation_resolution = "effect_proven_absent"
      /\ AfterSnapshot(k, r)
  BY DEF ReconcileRetryEligible, InScope, AbsenceReconciled
<1>2. old \in Receipts /\ Sound(k, old) /\ o \in OperationIds
  <2>1. old \in Receipts /\ Sound(k, old)
    BY <1>1 DEF InboxTypeOK, InboxIsSound, Received
  <2> QED  BY <1>1, <2>1 DEF Receipts
<1>3. v \in Revisions
  BY <1>1, <1>2 DEF IInv, OpTypeOK, Operations
<1>4. AbsenceProven(o)
  BY <1>1, <1>2, <1>3 DEF IInv, SnapshotCoherent, Coherent, Known, AbsenceProven
<1>5. old.result_link = None
  BY <1>1, <1>2 DEF Sound, LinkIsBacked
<1>6. \A d \in local_effects : d.key # k
  BY <1>1, NoLocalEffect
<1>7. receipts[k] # None
  BY <1>1
<1> HIDE DEF v
<1>8. /\ r \in Receipts /\ r.state = "admitted" /\ r.result_link = old.result_link
      /\ r.operation_id = o
  <2> HIDE DEF old
  <2> QED  BY <1>2, <1>3 DEF Receipts, InboxStates, o
<1> HIDE DEF r
<1>9. Sound(k, r)
  BY <1>1, <1>4, <1>5, <1>8 DEF Sound
<1> HIDE DEF old
<1> QED  BY <1>1, <1>6, <1>7, <1>8, <1>9, SnapshotKeeps

\* Every step of the inbox and of the operations keeps the strengthening.
LEMMA InboxStepKeeps == InboxInvariant /\ [Next]_vars => InboxInvariant'
<1> SUFFICES ASSUME InboxInvariant, [Next]_vars PROVE InboxInvariant'
  OBVIOUS
<1>1. CASE Deliver
  BY <1>1, AdmitNewKeeps DEF Deliver
<1>2. CASE Redeliver \/ Expire \/ Require \/ Fail
  BY <1>2, StoppingKeeps DEF Redeliver, Expire, Require, Fail
<1>3. CASE Claim
  BY <1>3, ClaimEffectKeeps DEF Claim
<1>4. CASE CompleteLocal
  BY <1>4, CompleteLocalKeeps DEF CompleteLocal
<1>5. CASE Bind
  BY <1>5, BindKeeps DEF Bind
<1>6. CASE CompleteCross \/ Confirm
  BY <1>6, CompletionKeeps DEF CompleteCross, Confirm
<1>7. CASE Retry
  BY <1>7, RetryKeeps DEF Retry
<1>8. CASE Write
  BY <1>8, WriteKeeps
<1>9. CASE OpNext /\ UNCHANGED inboxVars
  BY <1>9, OperationStepKeeps
<1>10. CASE UNCHANGED vars
  <2>1. IInv'
    BY <1>10, NextIInv DEF vars, InboxInvariant
  <2>2. InboxTypeOK' /\ InboxIsSound'
    BY <1>10 DEF vars, inboxVars, opVars, InboxInvariant, InboxTypeOK, InboxIsSound, Sound,
                 LinkIsBacked, AbsenceProven, Received
  <2> QED  BY <2>1, <2>2 DEF InboxInvariant
<1> QED
  BY <1>1, <1>2, <1>3, <1>4, <1>5, <1>6, <1>7, <1>8, <1>9, <1>10 DEF Next, InboxNext

\* Receipts, claims and writes under way keep their shape.
THEOREM InboxTypeCorrect == Spec => []InboxTypeOK
<1>1. InboxInvariant => InboxTypeOK
  BY DEF InboxInvariant
<1> QED  BY InboxInitially, InboxStepKeeps, <1>1, PTL DEF Spec

\* A completed receipt proves an effect.
THEOREM InboxCompletedIsBacked == Spec => []CompletedIsBacked
BY InboxInitially, InboxStepKeeps, SoundImplies, PTL DEF Spec

\* A message has one local effect at most, and is not executed after it completed.
THEOREM InboxLocalEffectOnce == Spec => []LocalEffectOnce
BY InboxInitially, InboxStepKeeps, SoundImplies, PTL DEF Spec

\* An executor after the first follows a proof of absence.
THEOREM InboxReexecutionNeedsProof == Spec => []ReexecutionNeedsProof
BY InboxInitially, InboxStepKeeps, SoundImplies, PTL DEF Spec

-----------------------------------------------------------------------------
(* What PostgreSQL says to the steps of the two ledgers.                   *)

\* The operation table meets its row constraints, and evidence that confirms a completion names
\* its outcome.
OperationRowsAllowed ==
    \A o \in Known :
        /\ SQL!OperationRowAllowed(operations[o])
        /\ operations[o].reconciliation_resolution = "effect_confirmed" =>
              evidence[o][operations[o].reconciliation_revision].confirmed_outcome
                 = operations[o].outcome

\* The operation o becomes new, and the tables take the step.
OperationTaken(o, new) ==
    /\ operations' = [operations EXCEPT ![o] = new]
    /\ SQL!OperationRowAllowed(new)
    /\ new.reconciliation_resolution = "effect_confirmed" =>
          evidence'[o][new.reconciliation_revision].confirmed_outcome = new.outcome
    /\ operations[o] # None => SQL!OperationUpdateAllowed(operations[o], new, evidence'[o])
    /\ \A p \in OperationIds, v \in Revisions :
          evidence'[p][v] # evidence[p][v] =>
             p = o /\ SQL!EvidenceInsertAllowed(operations[o], None, evidence'[o][v])
                   /\ evidence[o][v] = None

\* What blocks an attempt keeps the scope and leaves a reason.
LEMMA BlockedRow ==
    ASSUME NEW op \in Operations, NEW reason \in AmbiguityReasons
    PROVE  /\ Blocked(op, reason).scope = op.scope
           /\ Blocked(op, reason).executor_id = None
           /\ Blocked(op, reason).ambiguity_reason = reason
  BY DEF Blocked, Operations

\* A new attempt has an executor that is admitted for it.
LEMMA AttemptingRow ==
    ASSUME NEW op \in Operations, NEW e \in Executors
    PROVE  /\ Attempting(op, e).scope = op.scope
           /\ Attempting(op, e).executor_id = e
           /\ Attempting(op, e).execution_admission \in Nat
<1>1. op.attempt_generation + 1 \in Nat
  BY DEF Operations
<1> DEFINE g == op.attempt_generation + 1
<1> HIDE DEF g
<1>2. LET new == [op EXCEPT !.state = "attempting", !.attempt_generation = g,
                            !.executor_id = e, !.execution_admission = g,
                            !.reconciliation_revision = None,
                            !.reconciliation_resolution = None]
      IN  new.scope = op.scope /\ new.executor_id = e /\ new.execution_admission = g
  BY DEF Operations
<1> QED  BY <1>1, <1>2 DEF Attempting, g

\* A reconciliation leaves scope and executor, and while nothing is known, the reason.
LEMMA ReconciledRow ==
    ASSUME NEW op \in Operations, NEW v \in Revisions, NEW resolution \in Resolutions,
           NEW outcome \in Outcomes \cup {None}
    PROVE  LET new == Reconciled(op, v, resolution, outcome)
           IN  /\ new.scope = op.scope
               /\ new.executor_id = op.executor_id
               /\ resolution = "still_unknown" => new.ambiguity_reason = op.ambiguity_reason
<1>1. CASE resolution = "still_unknown"
  BY <1>1 DEF Reconciled, Operations, Resolutions
<1>2. CASE resolution = "effect_confirmed"
  BY <1>2 DEF Reconciled, Operations, OperationStates, Resolutions
<1>3. CASE resolution = "effect_proven_absent"
  BY <1>3 DEF Reconciled, Operations, OperationStates, Resolutions
<1> QED  BY <1>1, <1>2, <1>3 DEF Resolutions

\* Expiry and ambiguity of an attempt.
LEMMA BlockTaken ==
    ASSUME IInv, NEW o \in OperationIds, operations[o] # None,
           operations[o].state = "attempting", NEW reason \in AmbiguityReasons,
           operations' = [operations EXCEPT ![o] = Blocked(operations[o], reason)],
           UNCHANGED <<evidence, attempts, effects>>
    PROVE  OperationTaken(o, Blocked(operations[o], reason))
<1> DEFINE new == Blocked(operations[o], reason)
<1>1. operations[o] \in Operations
  BY DEF IInv, OpTypeOK
<1>2. /\ new.state = "reconciliation_required" /\ new.scope = operations[o].scope
      /\ new.executor_id = None /\ new.ambiguity_reason = reason /\ new.outcome = None
      /\ new.reconciliation_revision = None /\ new.reconciliation_resolution = None
  BY <1>1, BlockedShape, BlockedRow, AttemptingHoldsNothing
<1>3. reason # None /\ None \notin Resolutions
  BY OperationConstants
<1> HIDE DEF new
<1>4. SQL!OperationRowAllowed(new)
  BY <1>2, <1>3 DEF SQL!OperationRowAllowed
<1>5. SQL!OperationUpdateAllowed(operations[o], new, evidence'[o])
  BY <1>2 DEF SQL!OperationUpdateAllowed, SQL!NoPointer
<1>6. new.reconciliation_resolution # "effect_confirmed"
  BY <1>2, <1>3 DEF Resolutions
<1>7. operations' = [operations EXCEPT ![o] = new]
  BY DEF new
<1>8. OperationTaken(o, new)
  BY <1>4, <1>5, <1>6, <1>7 DEF OperationTaken
<1> QED  BY <1>8 DEF new

\* The first row of an operation.
LEMMA PrepareTaken ==
    ASSUME NEW o \in OperationIds, NEW s \in Scopes, Prepare(o, s)
    PROVE  \E new \in Operations : OperationTaken(o, new)
<1> DEFINE new == [scope |-> s, state |-> "prepared", attempt_generation |-> 0,
                   executor_id |-> None, execution_admission |-> None, outcome |-> None,
                   ambiguity_reason |-> None, reconciliation_revision |-> None,
                   reconciliation_resolution |-> None]
<1>1. new \in Operations /\ SQL!OperationRowAllowed(new)
  BY DEF Operations, OperationStates, SQL!OperationRowAllowed
<1>2. new.reconciliation_resolution # "effect_confirmed"
  BY OperationConstants DEF Resolutions
<1>3. /\ operations[o] = None
      /\ operations' = [operations EXCEPT ![o] = new]
      /\ UNCHANGED <<evidence, attempts, effects>>
  BY DEF Prepare
<1> HIDE DEF new
<1>4. OperationTaken(o, new)
  BY <1>1, <1>2, <1>3 DEF OperationTaken
<1> QED  BY <1>1, <1>4

\* begin_attempt
LEMMA BeginTaken ==
    ASSUME IInv, NEW o \in OperationIds, NEW e \in Executors, BeginAttempt(o, e)
    PROVE  OperationTaken(o, Attempting(operations[o], e))
<1> DEFINE op == operations[o]
           new == Attempting(op, e)
<1>1. /\ op # None /\ op.state = "prepared"
      /\ op.reconciliation_resolution \in {None, "effect_proven_absent"}
      /\ operations' = [operations EXCEPT ![o] = new]
      /\ UNCHANGED <<evidence, effects>>
  BY DEF BeginAttempt
<1>2. op \in Operations
  BY <1>1 DEF IInv, OpTypeOK
<1>3. /\ new.state = "attempting" /\ new.scope = op.scope
      /\ new.attempt_generation = op.attempt_generation + 1
      /\ new.executor_id = e /\ new.execution_admission \in Nat
      /\ new.reconciliation_revision = None /\ new.reconciliation_resolution = None
  BY <1>2, AttemptingShape, AttemptingRow
<1> HIDE DEF op, new
<1>4. SQL!OperationRowAllowed(new)
  BY <1>3, OperationConstants DEF SQL!OperationRowAllowed
<1>5. SQL!OperationUpdateAllowed(op, new, evidence'[o])
  BY <1>1, <1>3 DEF SQL!OperationUpdateAllowed, SQL!NoPointer
<1>6. new.reconciliation_resolution # "effect_confirmed"
  BY <1>3, OperationConstants DEF Resolutions
<1>7. OperationTaken(o, new)
  BY <1>1, <1>4, <1>5, <1>6 DEF OperationTaken, op
<1> QED  BY <1>7 DEF new, op

\* complete and fail_terminal
LEMMA SettleTaken ==
    ASSUME IInv, NEW a \in attempts, CompleteAttempt(a) \/ FailAttemptTerminal(a)
    PROVE  /\ a.operation_id \in OperationIds
           /\ \E new \in Operations : OperationTaken(a.operation_id, new)
<1> DEFINE o == a.operation_id
           op == operations[o]
           done == [op EXCEPT !.state = "completed", !.outcome = a.attempt_generation,
                              !.executor_id = None, !.ambiguity_reason = None]
           failed == [op EXCEPT !.state = "failed_terminal", !.executor_id = None,
                                !.execution_admission = None, !.ambiguity_reason = "failed"]
<1>1. o \in OperationIds /\ a.attempt_generation \in Nat
  BY DEF IInv, OpTypeOK, Attempts
<1>2. /\ op # None /\ op.state = "attempting"
      /\ \/ operations' = [operations EXCEPT ![o] = done]
         \/ operations' = [operations EXCEPT ![o] = failed]
      /\ UNCHANGED <<evidence, attempts, effects>>
  BY DEF CompleteAttempt, FailAttemptTerminal, IsCurrentAttempt
<1>3. op \in Operations
  BY <1>1, <1>2 DEF IInv, OpTypeOK
<1>4. op.reconciliation_revision = None /\ op.reconciliation_resolution = None
  BY <1>1, <1>2, AttemptingHoldsNothing
<1> HIDE DEF op
<1>5. /\ done \in Operations /\ done.state = "completed" /\ done.scope = op.scope
      /\ done.executor_id = None /\ done.outcome = a.attempt_generation
      /\ done.reconciliation_revision = None /\ done.reconciliation_resolution = None
  BY <1>1, <1>3, <1>4 DEF Operations, OperationStates, Outcomes
<1>6. /\ failed \in Operations /\ failed.state = "failed_terminal" /\ failed.scope = op.scope
      /\ failed.executor_id = None
      /\ failed.reconciliation_revision = None /\ failed.reconciliation_resolution = None
  BY <1>3, <1>4 DEF Operations, OperationStates, AmbiguityReasons
<1> HIDE DEF done, failed
<1>7. ASSUME NEW new \in {done, failed}, operations' = [operations EXCEPT ![o] = new]
      PROVE  OperationTaken(o, new)
  <2>1. SQL!OperationRowAllowed(new)
    BY <1>1, <1>5, <1>6, OperationConstants DEF SQL!OperationRowAllowed
  <2>2. SQL!OperationUpdateAllowed(op, new, evidence'[o])
    BY <1>2, <1>4, <1>5, <1>6 DEF SQL!OperationUpdateAllowed, SQL!NoPointer
  <2>3. new.reconciliation_resolution # "effect_confirmed"
    BY <1>5, <1>6, OperationConstants DEF Resolutions
  <2> QED  BY <1>2, <1>7, <2>1, <2>2, <2>3 DEF OperationTaken, op
<1> HIDE DEF o
<1>8. \E new \in Operations : OperationTaken(o, new)
  BY <1>2, <1>5, <1>6, <1>7
<1> QED  BY <1>1, <1>8 DEF o

\* reconcile, of an operation without executor
LEMMA ReconcileTaken ==
    ASSUME IInv, OperationRowsAllowed,
           NEW o \in OperationIds, NEW v \in Revisions, NEW resolution \in Resolutions,
           NEW outcome \in 1 .. MaxAttempts \cup {None},
           Truthful(o, resolution, outcome), Reconcile(o, v, resolution, outcome)
    PROVE  \E new \in Operations : OperationTaken(o, new)
<1> DEFINE op == operations[o]
           new == Reconciled(op, v, resolution, outcome)
           entry == [attempt_generation |-> op.attempt_generation,
                     resolution |-> resolution, confirmed_outcome |-> outcome]
<1>1. /\ op # None /\ op.state = "reconciliation_required" /\ op.attempt_generation >= 1
      /\ evidence[o][v] \in {None, entry}
      /\ evidence' = [evidence EXCEPT ![o][v] = entry]
      /\ operations' = [operations EXCEPT ![o] = new]
  BY DEF Reconcile, RevisionUsable
<1>2. /\ op \in Operations /\ op.attempt_generation \in Nat
      /\ evidence \in [OperationIds -> [Revisions -> Evidence \cup {None}]]
  BY <1>1 DEF IInv, OpTypeOK, Operations
<1>3. outcome \in Outcomes \cup {None} /\ None \notin Nat /\ None \notin Revisions
  BY OperationConstants DEF Outcomes
<1>4. (resolution = "effect_confirmed") <=> (outcome # None)
  BY <1>2, <1>3 DEF Truthful, Resolutions
<1>5. /\ op.executor_id = None /\ op.ambiguity_reason # None
  BY <1>1 DEF OperationRowsAllowed, Known, SQL!OperationRowAllowed
<1>6. /\ new \in Operations /\ new.scope = op.scope
      /\ new.executor_id = None
      /\ new.reconciliation_revision = v /\ new.reconciliation_resolution = resolution
      /\ resolution = "still_unknown"
           => new.state = "reconciliation_required" /\ new.ambiguity_reason # None
      /\ resolution = "effect_confirmed" => new.state = "completed" /\ new.outcome = outcome
      /\ resolution = "effect_proven_absent" => new.state = "prepared"
  <2> HIDE DEF op
  <2>1. new \in Operations /\ new.scope = op.scope /\ new.executor_id = op.executor_id
    BY <1>2, <1>3, ReconciledShape, ReconciledRow
  <2>2. /\ new.reconciliation_revision = v /\ new.reconciliation_resolution = resolution
        /\ resolution = "still_unknown"
             => new.state = op.state /\ new.ambiguity_reason = op.ambiguity_reason
        /\ resolution = "effect_confirmed" => new.state = "completed" /\ new.outcome = outcome
        /\ resolution = "effect_proven_absent" => new.state = "prepared"
    BY <1>2, <1>3, ReconciledShape, ReconciledRow
  <2> HIDE DEF new
  <2> QED  BY <1>1, <1>5, <2>1, <2>2
<1>7. /\ entry.attempt_generation = op.attempt_generation /\ entry.resolution = resolution
      /\ entry.confirmed_outcome = outcome /\ entry \in Evidence
  BY <1>1, <1>2, <1>3 DEF Evidence
<1>8. entry # None /\ resolution # None
  BY <1>7, OperationConstants
<1> HIDE DEF op, new, entry
<1>9. /\ evidence'[o][v] = entry
      /\ \A p \in OperationIds, w \in Revisions :
            p # o \/ w # v => evidence'[p][w] = evidence[p][w]
  BY <1>1, <1>2
<1>10. SQL!OperationRowAllowed(new)
  BY <1>3, <1>4, <1>6, <1>8 DEF SQL!OperationRowAllowed, Resolutions
<1>11. SQL!OperationUpdateAllowed(op, new, evidence'[o])
  BY <1>1, <1>3, <1>6, <1>7, <1>8, <1>9
     DEF SQL!OperationUpdateAllowed, SQL!PointsTo, Resolutions
<1>12. SQL!EvidenceInsertAllowed(op, None, entry)
  BY <1>1, <1>2, <1>4, <1>7 DEF SQL!EvidenceInsertAllowed
<1>13. OperationTaken(o, new)
  BY <1>1, <1>6, <1>7, <1>9, <1>10, <1>11, <1>12 DEF OperationTaken, op
<1> QED  BY <1>6, <1>13

\* Every step of the operations is taken.
LEMMA OperationStepTaken ==
    ASSUME IInv, OperationRowsAllowed, OpNext
    PROVE  \/ UNCHANGED <<operations, evidence>>
           \/ \E o \in OperationIds, new \in Operations : OperationTaken(o, new)
<1>1. \A o \in OperationIds : operations[o] # None => operations[o] \in Operations
  BY DEF IInv, OpTypeOK
<1>2. CASE PrepareSome
  BY <1>2, PrepareTaken DEF PrepareSome
<1>3. CASE BeginSome
  <2> PICK o \in OperationIds, e \in Executors : BeginAttempt(o, e)
    BY <1>3 DEF BeginSome
  <2>1. Attempting(operations[o], e) \in Operations
    BY <1>1, AttemptingShape DEF BeginAttempt
  <2> QED  BY <2>1, BeginTaken
<1>4. ASSUME NEW o \in OperationIds, operations[o] # None, operations[o].state = "attempting",
             NEW reason \in AmbiguityReasons,
             operations' = [operations EXCEPT ![o] = Blocked(operations[o], reason)],
             UNCHANGED <<evidence, attempts, effects>>
      PROVE  \E new \in Operations : OperationTaken(o, new)
  <2>1. Blocked(operations[o], reason) \in Operations
    BY <1>1, <1>4, BlockedShape
  <2> QED  BY <1>4, <2>1, BlockTaken
<1>5. CASE ExpireSome
  <2> PICK o \in OperationIds : ExpireAttempt(o)
    BY <1>5 DEF ExpireSome
  <2> QED  BY <1>4 DEF ExpireAttempt, AmbiguityReasons
<1>6. CASE AmbiguousSome
  <2> PICK a \in attempts : MarkAmbiguous(a)
    BY <1>6 DEF AmbiguousSome
  <2>1. a.operation_id \in OperationIds
    BY DEF IInv, OpTypeOK, Attempts
  <2> QED  BY <1>4, <2>1 DEF MarkAmbiguous, IsCurrentAttempt, AmbiguityReasons
<1>7. CASE CompleteSome \/ FailSome
  BY <1>7, SettleTaken DEF CompleteSome, FailSome
<1>8. CASE ReconcileSome
  BY <1>8, ReconcileTaken DEF ReconcileSome
<1>9. CASE ApplySome
  BY <1>9 DEF ApplySome, ApplyEffect
<1> QED  BY <1>2, <1>3, <1>5, <1>6, <1>7, <1>8, <1>9 DEF OpNext

\* A confirmed operation points at the evidence.
LEMMA ConfirmedPointsAtEvidence ==
    ASSUME IInv, NEW o \in OperationIds, operations[o] # None,
           operations[o].reconciliation_resolution # None
    PROVE  /\ operations[o].reconciliation_revision \in Revisions
           /\ evidence[o][operations[o].reconciliation_revision] # None
           /\ evidence[o][operations[o].reconciliation_revision].resolution
                 = operations[o].reconciliation_resolution
           /\ evidence[o][operations[o].reconciliation_revision].attempt_generation
                 = operations[o].attempt_generation
<1>1. operations[o] \in Operations /\ Coherent(operations[o], evidence[o])
  BY DEF IInv, OpTypeOK, SnapshotCoherent, Known
<1> QED  BY <1>1 DEF Operations, Coherent

\* What a step that is taken leaves.
LEMMA TakenKeepsRows ==
    ASSUME IInv, OperationRowsAllowed, NEW o \in OperationIds, NEW new \in Operations,
           OperationTaken(o, new)
    PROVE  OperationRowsAllowed'
<1>1. operations'[o] = new /\ \A p \in OperationIds : p # o => operations'[p] = operations[p]
  BY DEF OperationTaken, IInv, OpTypeOK
<1>2. ASSUME NEW p \in OperationIds, operations'[p] # None
      PROVE  /\ SQL!OperationRowAllowed(operations'[p])
             /\ operations'[p].reconciliation_resolution = "effect_confirmed" =>
                   evidence'[p][operations'[p].reconciliation_revision].confirmed_outcome
                      = operations'[p].outcome
  <2>1. CASE p = o
    BY <1>1, <2>1 DEF OperationTaken
  <2>2. CASE p # o
    <3>1. operations'[p] = operations[p]
      BY <1>1, <2>2
    <3>2. "effect_confirmed" # None
      BY OperationConstants DEF Resolutions
    <3>3. \A v \in Revisions : evidence'[p][v] = evidence[p][v]
      BY <2>2 DEF OperationTaken
    <3>4. operations[p].reconciliation_resolution = "effect_confirmed"
             => operations[p].reconciliation_revision \in Revisions
      BY <1>2, <3>1, <3>2, ConfirmedPointsAtEvidence
    <3> QED  BY <1>2, <3>1, <3>3, <3>4 DEF OperationRowsAllowed, Known
  <2> QED  BY <2>1, <2>2
<1> QED  BY <1>2 DEF OperationRowsAllowed, Known

\* The rows stay allowed, and what PostgreSQL checks of a step holds.
LEMMA OperationGuardsHold ==
    ASSUME IInv, OperationRowsAllowed, [OpNext]_opVars
    PROVE  /\ OperationRowsAllowed'
           /\ \A o \in Known :
                 /\ operations'[o] # operations[o] =>
                       /\ SQL!OperationRowAllowed(operations'[o])
                       /\ SQL!OperationUpdateAllowed(operations[o], operations'[o], evidence'[o])
                 /\ \A v \in Revisions : evidence'[o][v] # evidence[o][v] =>
                       SQL!EvidenceInsertAllowed(operations[o], evidence[o][v], evidence'[o][v])
<1>1. CASE UNCHANGED <<operations, evidence>>
  BY <1>1 DEF OperationRowsAllowed, Known
<1>2. CASE \E o \in OperationIds, new \in Operations : OperationTaken(o, new)
  <2> PICK o \in OperationIds, new \in Operations : OperationTaken(o, new)
    BY <1>2
  <2>1. operations'[o] = new /\ \A p \in OperationIds : p # o => operations'[p] = operations[p]
    BY DEF OperationTaken, IInv, OpTypeOK
  <2>2. OperationRowsAllowed'
    BY TakenKeepsRows
  <2> QED  BY <2>1, <2>2 DEF OperationTaken, Known
<1>3. [OpNext]_opVars => OpNext \/ UNCHANGED <<operations, evidence>>
  BY DEF opVars
<1> QED  BY <1>1, <1>2, <1>3, OperationStepTaken

-----------------------------------------------------------------------------
\* The receipt meets the constraints of the inbox table, and its executor found it without pointer.
ReceiptRowAllowed(r) ==
    /\ SQL!InboxRowAllowed(r, OperationRow(r))
    /\ r.state = "processing" => r.reconciliation_revision = None

\* The update trigger lets the step of a receipt through.
UpdateAllowed(old, new) ==
    new.terminal_reason \notin AdmissionReasons /\ new.state # "admitted" =>
        SQL!InboxUpdateAllowed(old, new, OperationRow(new), EvidenceRows(new))

\* Of a write under way the same holds, whatever the operations did since its snapshot.
ReceiptRowsAllowed ==
    /\ \A k \in Received : ReceiptRowAllowed(receipts[k])
    /\ pending_write # None =>
          /\ ReceiptRowAllowed(pending_write.receipt)
          /\ UpdateAllowed(receipts[pending_write.key], pending_write.receipt)

GuardsInvariant == InboxInvariant /\ OperationRowsAllowed /\ ReceiptRowsAllowed

ReceiptTaken(k, r) ==
    /\ ReceiptRowAllowed(r)
    /\ receipts[k] # None => UpdateAllowed(receipts[k], r)

\* A receipt that stops: by the verdict of a redelivery from any state, else from processing.
LEMMA StoppedTaken ==
    ASSUME NEW old \in Receipts, ReceiptRowAllowed(old), NEW reason \in TerminalReasons,
           NEW state \in {"quarantined", "reconciliation_required", "failed_terminal"},
           reason \in AdmissionReasons \/ old.state = "processing",
           NEW new \in {Stopped(old, state, reason), Unpointed(Stopped(old, state, reason))}
    PROVE  new \in Receipts /\ ReceiptRowAllowed(new) /\ UpdateAllowed(old, new)
<1> DEFINE stopped == Stopped(old, state, reason)
           unpointed == Unpointed(stopped)
<1>1. /\ stopped \in Receipts /\ stopped.state = state /\ stopped.terminal_reason = reason
      /\ stopped.executor_id = None /\ stopped.operation_id = old.operation_id
      /\ stopped.scope = old.scope /\ stopped.comparison_evidence = old.comparison_evidence
      /\ stopped.reconciliation_revision = old.reconciliation_revision
  BY DEF Stopped, Receipts, InboxStates
<1> HIDE DEF stopped
<1>2. /\ unpointed \in Receipts /\ unpointed.state = state /\ unpointed.terminal_reason = reason
      /\ unpointed.executor_id = None /\ unpointed.operation_id = old.operation_id
      /\ unpointed.scope = old.scope /\ unpointed.comparison_evidence = old.comparison_evidence
      /\ unpointed.reconciliation_revision = None
  BY <1>1 DEF Receipts, Unpointed
<1> HIDE DEF unpointed
<1>3. new \in {stopped, unpointed}
  BY DEF stopped, unpointed
<1>4. /\ new \in Receipts /\ new.state = state /\ new.terminal_reason = reason
      /\ new.executor_id = None /\ new.operation_id = old.operation_id
      /\ new.scope = old.scope /\ new.comparison_evidence = old.comparison_evidence
      /\ new.reconciliation_revision \in {None, old.reconciliation_revision}
  BY <1>1, <1>2, <1>3
<1>5. OperationRow(new) = OperationRow(old)
  BY <1>4 DEF OperationRow
<1>6. ReceiptRowAllowed(new)
  BY <1>4, <1>5, InboxConstants DEF ReceiptRowAllowed, SQL!InboxRowAllowed
<1>7. UpdateAllowed(old, new)
  BY <1>4 DEF ReceiptRowAllowed, UpdateAllowed, SQL!InboxUpdateAllowed
<1> QED  BY <1>4, <1>6, <1>7

\* What is written, at once or after a snapshot, passes the table.
LEMMA WrittenAccepted ==
    ASSUME InboxTypeOK, ReceiptRowsAllowed, NEW k \in Keys, NEW r \in Receipts,
           ReceiptTaken(k, r), receipts' = [receipts EXCEPT ![k] = r], pending_write' = None,
           UNCHANGED opVars
    PROVE  /\ ReceiptRowsAllowed'
           /\ \A j \in Received : Executed(j) => GuardAccepts(j)
<1>1. receipts'[k] = r /\ \A j \in Keys : j # k => receipts'[j] = receipts[j]
  BY DEF InboxTypeOK
<1>2. UNCHANGED <<operations, evidence>>
  BY DEF opVars
<1>3. \A q : ReceiptRowAllowed(q)' <=> ReceiptRowAllowed(q)
  BY <1>2 DEF ReceiptRowAllowed, OperationRow
<1>4. ReceiptRowsAllowed'
  <2> SUFFICES ASSUME NEW j \in Keys, receipts'[j] # None
               PROVE  ReceiptRowAllowed(receipts[j])'
    BY DEF ReceiptRowsAllowed, Received
  <2>1. \A q : q = receipts'[j] /\ ReceiptRowAllowed(q) => ReceiptRowAllowed(receipts[j])'
    BY <1>2 DEF ReceiptRowAllowed, OperationRow
  <2>2. ReceiptRowAllowed(receipts'[j])
    BY <1>1 DEF ReceiptTaken, ReceiptRowsAllowed, Received
  <2> QED  BY <2>1, <2>2
<1>5. ASSUME NEW j \in Keys, receipts[j] # None, Executed(j)
      PROVE  GuardAccepts(j)
  <2>1. j = k /\ receipts'[j] = r
    BY <1>1, <1>5 DEF Executed
  <2>2. r.terminal_reason \notin AdmissionReasons /\ r.state # "admitted"
    BY <1>5, <2>1 DEF Executed
  <2>3. SQL!InboxRowAllowed(r, OperationRow(r))
    BY DEF ReceiptTaken, ReceiptRowAllowed
  <2>4. SQL!InboxUpdateAllowed(receipts[j], r, OperationRow(r), EvidenceRows(r))
    BY <1>5, <2>1, <2>2 DEF ReceiptTaken, UpdateAllowed
  <2> QED  BY <2>1, <2>3, <2>4 DEF GuardAccepts
<1> QED  BY <1>4, <1>5 DEF Received

\* A write under way leaves the table alone.
LEMMA SnapshotAccepted ==
    ASSUME InboxTypeOK, ReceiptRowsAllowed, NEW k \in Keys, NEW r \in Receipts,
           receipts[k] # None, ReceiptTaken(k, r), AfterSnapshot(k, r)
    PROVE  /\ ReceiptRowsAllowed'
           /\ \A j \in Received : Executed(j) => GuardAccepts(j)
<1>1. /\ pending_write' = [key |-> k, receipt |-> r]
      /\ UNCHANGED <<receipts, operations, evidence>>
  BY DEF AfterSnapshot, opVars
<1>2. \A j \in Received : ~ Executed(j)
  BY <1>1 DEF Executed
<1>3. \A j \in Received : ReceiptRowAllowed(receipts[j])'
  BY <1>1 DEF ReceiptRowsAllowed, ReceiptRowAllowed, OperationRow
<1>4. ReceiptRowAllowed(pending_write.receipt)'
  BY <1>1 DEF ReceiptTaken, ReceiptRowAllowed, OperationRow
<1>5. UpdateAllowed(receipts[pending_write.key], pending_write.receipt)'
  BY <1>1 DEF ReceiptTaken, UpdateAllowed, OperationRow, EvidenceRows
<1> QED  BY <1>1, <1>2, <1>3, <1>4, <1>5 DEF ReceiptRowsAllowed, Received

\* A receipt there is has the shape and the row.
LEMMA ReceivedRow ==
    ASSUME GuardsInvariant, NEW k \in Keys, receipts[k] # None
    PROVE  /\ receipts[k] \in Receipts /\ ReceiptRowAllowed(receipts[k])
           /\ receipts[k].operation_id # None => receipts[k].operation_id \in OperationIds
<1>1. receipts[k] \in Receipts /\ ReceiptRowAllowed(receipts[k])
  BY DEF GuardsInvariant, InboxInvariant, InboxTypeOK, ReceiptRowsAllowed, Received
<1> QED  BY <1>1 DEF Receipts

\* Redelivery, expiry, ambiguity and failure.
LEMMA StoppingTaken ==
    ASSUME GuardsInvariant,
           \/ \E k \in Keys, s \in Scopes, ev \in ComparisonEvidence : AdmitAgain(k, s, ev)
           \/ \E k \in Keys : ExpireProcessingClaim(k)
           \/ \E c \in claims : RequireReconciliation(c) \/ FailTerminal(c)
    PROVE  Unlocked /\ \E k \in Keys, r \in Receipts : ReceiptTaken(k, r) /\ SetReceipt(k, r)
<1>1. PICK k \in Keys, reason \in TerminalReasons,
           state \in {"quarantined", "reconciliation_required", "failed_terminal"} :
         /\ Unlocked /\ receipts[k] # None
         /\ reason \in AdmissionReasons \/ receipts[k].state = "processing"
         /\ \/ SetReceipt(k, Stopped(receipts[k], state, reason))
            \/ SetReceipt(k, Unpointed(Stopped(receipts[k], state, reason)))
  <2>1. \A c \in claims : c.key \in Keys
    BY DEF GuardsInvariant, InboxInvariant, InboxTypeOK, InboxClaims
  <2>2. /\ AdmissionReasons \subseteq TerminalReasons
        /\ "conflicting_trusted_binding" \in AdmissionReasons
        /\ "conflicting_immutable_content" \in AdmissionReasons
        /\ "equivalence_unknown" \in AdmissionReasons
        /\ "processing_lease_expired" \in TerminalReasons
        /\ "ambiguous" \in TerminalReasons /\ "failed" \in TerminalReasons
    BY DEF TerminalReasons, AdmissionReasons
  <2>3. CASE \E k \in Keys, s \in Scopes, ev \in ComparisonEvidence : AdmitAgain(k, s, ev)
    <3> HIDE DEF TerminalReasons, AdmissionReasons
    <3> QED  BY <2>2, <2>3 DEF AdmitAgain
  <2>4. CASE \E k \in Keys : ExpireProcessingClaim(k)
    BY <2>2, <2>4 DEF ExpireProcessingClaim, Lapsed, Unpointed
  <2>5. CASE \E c \in claims : RequireReconciliation(c)
    BY <2>1, <2>2, <2>5 DEF RequireReconciliation, IsCurrentClaim, Unpointed
  <2>6. CASE \E c \in claims : FailTerminal(c)
    BY <2>1, <2>2, <2>6 DEF FailTerminal, IsCurrentClaim
  <2> QED  BY <2>3, <2>4, <2>5, <2>6
<1>2. receipts[k] \in Receipts /\ ReceiptRowAllowed(receipts[k])
  BY <1>1, ReceivedRow
<1> DEFINE stopped == Stopped(receipts[k], state, reason)
           unpointed == Unpointed(stopped)
<1>3. \A r \in {stopped, unpointed} : r \in Receipts /\ ReceiptTaken(k, r)
  BY <1>1, <1>2, StoppedTaken DEF ReceiptTaken
<1>4. SetReceipt(k, stopped) \/ SetReceipt(k, unpointed)
  BY <1>1
<1> HIDE DEF stopped, unpointed
<1> QED  BY <1>1, <1>3, <1>4

\* The first admission of a message.
LEMMA AdmitNewTaken ==
    ASSUME NEW k \in Keys, NEW s \in Scopes, NEW ev \in ComparisonEvidence, AdmitNew(k, s, ev)
    PROVE  \E r \in Receipts : ReceiptTaken(k, r) /\ SetReceipt(k, r)
<1> DEFINE r == [scope |-> s, comparison_evidence |-> ev, state |-> "admitted",
                 executor_id |-> None, execution_generation |-> 0,
                 execution_admission |-> None, result_link |-> None,
                 operation_id |-> None, terminal_reason |-> None,
                 reconciliation_revision |-> None]
<1>1. r \in Receipts /\ ReceiptRowAllowed(r)
  BY DEF Receipts, InboxStates, ReceiptRowAllowed, SQL!InboxRowAllowed
<1>2. SetReceipt(k, r) /\ receipts[k] = None
  BY DEF AdmitNew
<1> HIDE DEF r
<1> QED  BY <1>1, <1>2 DEF ReceiptTaken

\* A claim of the effect.
LEMMA ClaimEffectTaken ==
    ASSUME GuardsInvariant, NEW k \in Keys, NEW e \in Executors, ClaimEffect(k, e)
    PROVE  \E r \in Receipts : ReceiptTaken(k, r) /\ receipts' = [receipts EXCEPT ![k] = r]
<1> DEFINE old == receipts[k]
           g == old.execution_generation + 1
           r == [old EXCEPT !.state = "processing", !.executor_id = e,
                            !.execution_generation = g, !.execution_admission = g,
                            !.reconciliation_revision = None]
<1>1. old # None /\ old.state = "admitted" /\ receipts' = [receipts EXCEPT ![k] = r]
  BY DEF ClaimEffect
<1>2. old \in Receipts /\ ReceiptRowAllowed(old)
  BY <1>1, ReceivedRow
<1>3. g \in Nat
  BY <1>2 DEF Receipts
<1> HIDE DEF old, g
<1>4. /\ r \in Receipts /\ r.state = "processing" /\ r.execution_generation = g
      /\ r.executor_id = e /\ r.execution_admission = g /\ r.reconciliation_revision = None
      /\ r.operation_id = old.operation_id /\ r.scope = old.scope
      /\ r.comparison_evidence = old.comparison_evidence
  BY <1>2, <1>3 DEF Receipts, InboxStates
<1> HIDE DEF r
<1>5. OperationRow(r) = OperationRow(old)
  BY <1>4 DEF OperationRow
<1>6. ReceiptRowAllowed(r)
  BY <1>2, <1>3, <1>4, <1>5, OperationConstants DEF ReceiptRowAllowed, SQL!InboxRowAllowed
<1>7. UpdateAllowed(old, r)
  BY <1>1, <1>4 DEF UpdateAllowed, SQL!InboxUpdateAllowed, g
<1> QED  BY <1>1, <1>4, <1>6, <1>7 DEF ReceiptTaken, old

\* A completion changes state and link, and leaves executor and reason behind.
LEMMA CompletedRow ==
    ASSUME NEW old \in Receipts, NEW link \in ResultLinks
    PROVE  LET r == Completed(old, link)
           IN  /\ r \in Receipts /\ r.state = "completed" /\ r.result_link = link
               /\ r.executor_id = None
               /\ r.operation_id = old.operation_id /\ r.scope = old.scope
               /\ r.comparison_evidence = old.comparison_evidence
               /\ r.reconciliation_revision = old.reconciliation_revision
  BY DEF Completed, Receipts, InboxStates

\* A local effect.
LEMMA CompleteLocalTaken ==
    ASSUME GuardsInvariant, NEW c \in claims, CompleteLocalEffect(c)
    PROVE  /\ c.key \in Keys
           /\ \E r \in Receipts : /\ ReceiptTaken(c.key, r)
                                  /\ receipts' = [receipts EXCEPT ![c.key] = r]
<1> DEFINE k == c.key
           old == receipts[k]
           link == [operation_id |-> None, attempt_generation |-> c.execution_generation]
           r == Completed(old, link)
<1>1. k \in Keys /\ c.execution_generation \in Nat
  BY DEF GuardsInvariant, InboxInvariant, InboxTypeOK, InboxClaims
<1>2. /\ old # None /\ old.state = "processing" /\ old.operation_id = None
      /\ receipts' = [receipts EXCEPT ![k] = r]
  BY DEF CompleteLocalEffect, IsCurrentClaim
<1>3. old \in Receipts /\ ReceiptRowAllowed(old)
  BY <1>1, <1>2, ReceivedRow
<1>4. link \in ResultLinks /\ link # None
  <2>1. link \in ResultLinks
    BY <1>1 DEF ResultLinks
  <2> QED  BY <2>1, InboxConstants
<1> HIDE DEF old, link, k
<1>5. /\ r \in Receipts /\ r.state = "completed" /\ r.result_link = link
      /\ r.executor_id = None /\ r.operation_id = old.operation_id /\ r.scope = old.scope
      /\ r.comparison_evidence = old.comparison_evidence
      /\ r.reconciliation_revision = old.reconciliation_revision
  BY <1>3, <1>4, CompletedRow
<1> HIDE DEF r
<1>6. ReceiptRowAllowed(r)
  BY <1>2, <1>4, <1>5 DEF ReceiptRowAllowed, SQL!InboxRowAllowed
<1>7. UpdateAllowed(old, r)
  BY <1>2, <1>3, <1>5 DEF ReceiptRowAllowed, UpdateAllowed, SQL!InboxUpdateAllowed
<1>8. ReceiptTaken(k, r)
  BY <1>6, <1>7 DEF ReceiptTaken, old
<1> QED  BY <1>1, <1>2, <1>5, <1>8 DEF k

\* The binding to an operation of the receipt's scope.
LEMMA BindTaken ==
    ASSUME GuardsInvariant, NEW c \in claims, NEW o \in OperationIds, BindOperation(c, o)
    PROVE  \E k \in Keys, r \in Receipts :
              receipts[k] # None /\ ReceiptTaken(k, r) /\ AfterSnapshot(k, r)
<1> DEFINE k == c.key
           old == receipts[k]
           r == [old EXCEPT !.operation_id = o]
<1>1. k \in Keys
  BY DEF GuardsInvariant, InboxInvariant, InboxTypeOK, InboxClaims
<1>2. /\ old # None /\ old.state = "processing" /\ old.operation_id \in {None, o}
      /\ InScope(old, o) /\ AfterSnapshot(k, r)
  BY DEF BindOperation, IsCurrentClaim
<1>3. old \in Receipts /\ ReceiptRowAllowed(old)
  BY <1>1, <1>2, ReceivedRow
<1> HIDE DEF old
<1>4. /\ r \in Receipts /\ r.operation_id = o /\ r.scope = old.scope
      /\ r.comparison_evidence = old.comparison_evidence
      /\ r.state = old.state /\ r.executor_id = old.executor_id
      /\ r.execution_admission = old.execution_admission
      /\ r.reconciliation_revision = old.reconciliation_revision
  BY <1>3 DEF Receipts
<1>5. r = [old EXCEPT !.operation_id = r.operation_id]
  BY <1>4
<1> HIDE DEF r
<1>6. OperationRow(r) = operations[o]
  BY <1>4, InboxConstants DEF OperationRow
<1>7. ReceiptRowAllowed(r)
  BY <1>2, <1>3, <1>4, <1>6 DEF ReceiptRowAllowed, SQL!InboxRowAllowed, InScope
<1>8. UpdateAllowed(old, r)
  BY <1>2, <1>4, <1>5 DEF UpdateAllowed, SQL!InboxUpdateAllowed
<1>9. ReceiptTaken(k, r) /\ receipts[k] # None
  BY <1>2, <1>7, <1>8 DEF ReceiptTaken, old
<1> HIDE DEF k
<1> QED  BY <1>1, <1>2, <1>4, <1>9

\* A receipt completes with the outcome of its operation: while that was not reconciled, by the
\* executor.
LEMMA CompleteCrossTaken ==
    ASSUME GuardsInvariant, NEW c \in claims, NEW l \in Links, CompleteCrossAuthorityEffect(c, l)
    PROVE  \E k \in Keys, r \in Receipts :
              receipts[k] # None /\ ReceiptTaken(k, r) /\ AfterSnapshot(k, r)
<1> DEFINE k == c.key
           old == receipts[k]
           o == old.operation_id
           op == operations[o]
           r == Completed(old, l)
<1>1. k \in Keys
  BY DEF GuardsInvariant, InboxInvariant, InboxTypeOK, InboxClaims
<1>2. /\ old # None /\ old.state = "processing" /\ o # None
      /\ op # None /\ op.scope = old.scope /\ op.state = "completed"
      /\ l = EffectOf(o, op.outcome)
      /\ op.reconciliation_resolution = None /\ op.reconciliation_revision = None
      /\ AfterSnapshot(k, r)
  BY DEF CompleteCrossAuthorityEffect, IsCurrentClaim, InScope
<1>3. old \in Receipts /\ ReceiptRowAllowed(old) /\ o \in OperationIds
  BY <1>1, <1>2, ReceivedRow
<1>4. l \in ResultLinks /\ l # None /\ l.operation_id = o /\ l.attempt_generation = op.outcome
  BY <1>2, <1>3, CompletedOperationBacks, InboxConstants DEF GuardsInvariant, InboxInvariant
<1> HIDE DEF old
<1>5. /\ r \in Receipts /\ r.state = "completed" /\ r.result_link = l
      /\ r.executor_id = None /\ r.operation_id = o /\ r.scope = old.scope
      /\ r.comparison_evidence = old.comparison_evidence
      /\ r.reconciliation_revision = old.reconciliation_revision
  BY <1>3, <1>4, CompletedRow
<1> HIDE DEF r, o, op
<1>6. OperationRow(r) = op
  BY <1>2, <1>5 DEF OperationRow, op
<1>7. ReceiptRowAllowed(r)
  BY <1>2, <1>4, <1>5, <1>6 DEF ReceiptRowAllowed, SQL!InboxRowAllowed
<1>8. UpdateAllowed(old, r)
  <2>1. SQL!DirectOutcome(r, op)
    BY <1>2, <1>4, <1>5 DEF SQL!DirectOutcome, SQL!NoPointer
  <2>2. old.reconciliation_revision = None
    BY <1>2, <1>3 DEF ReceiptRowAllowed
  <2>3. r.operation_id = old.operation_id
    BY <1>5 DEF o
  <2> QED  BY <1>2, <1>5, <1>6, <2>1, <2>2, <2>3 DEF UpdateAllowed, SQL!InboxUpdateAllowed
<1>9. ReceiptTaken(k, r) /\ receipts[k] # None
  BY <1>2, <1>7, <1>8 DEF ReceiptTaken, old
<1> HIDE DEF k
<1> QED  BY <1>1, <1>2, <1>5, <1>9

\* After a reconciliation that confirmed the effect: the evidence names the same outcome.
LEMMA ConfirmTaken ==
    ASSUME GuardsInvariant, NEW k \in Keys, NEW l \in Links, ReconcileCompleted(k, l)
    PROVE  \E r \in Receipts :
              receipts[k] # None /\ ReceiptTaken(k, r) /\ AfterSnapshot(k, r)
<1> DEFINE old == receipts[k]
           o == old.operation_id
           op == operations[o]
           v == op.reconciliation_revision
           r == [old EXCEPT !.state = "completed", !.result_link = l,
                            !.terminal_reason = None, !.reconciliation_revision = v]
<1>2. /\ old # None /\ old.state = "reconciliation_required" /\ o # None
      /\ op # None /\ op.scope = old.scope /\ op.state = "completed"
      /\ l = EffectOf(o, op.outcome)
      /\ op.reconciliation_resolution = "effect_confirmed" /\ v # None
      /\ AfterSnapshot(k, r)
  BY DEF ReconcileCompleted, InScope
<1>3. old \in Receipts /\ ReceiptRowAllowed(old) /\ o \in OperationIds
  BY <1>2, ReceivedRow
<1>4. l \in ResultLinks /\ l # None /\ l.operation_id = o /\ l.attempt_generation = op.outcome
  BY <1>2, <1>3, CompletedOperationBacks, InboxConstants DEF GuardsInvariant, InboxInvariant
<1>5. /\ v \in Revisions /\ evidence[o][v] # None
      /\ evidence[o][v].resolution = "effect_confirmed"
      /\ evidence[o][v].attempt_generation = op.attempt_generation
  <2>1. "effect_confirmed" # None
    BY OperationConstants DEF Resolutions
  <2> QED  BY <1>2, <1>3, <2>1, ConfirmedPointsAtEvidence DEF GuardsInvariant, InboxInvariant
<1>6. evidence[o][v].confirmed_outcome = op.outcome
  BY <1>2, <1>3 DEF GuardsInvariant, OperationRowsAllowed, Known
<1> HIDE DEF old, v
<1>7. /\ r \in Receipts /\ r.state = "completed" /\ r.result_link = l
      /\ r.executor_id = old.executor_id /\ r.operation_id = o /\ r.scope = old.scope
      /\ r.comparison_evidence = old.comparison_evidence /\ r.reconciliation_revision = v
  BY <1>3, <1>4, <1>5 DEF Receipts, InboxStates
<1> HIDE DEF r, o, op
<1>8. OperationRow(r) = op /\ EvidenceRows(r) = evidence[o]
  BY <1>2, <1>7 DEF OperationRow, EvidenceRows, op
<1>9. ReceiptRowAllowed(r)
  BY <1>2, <1>3, <1>4, <1>7, <1>8 DEF ReceiptRowAllowed, SQL!InboxRowAllowed
<1>10. UpdateAllowed(old, r)
  <2>1. SQL!ReconciledBy(r, op, evidence[o], "effect_confirmed")
    BY <1>2, <1>5, <1>7 DEF SQL!ReconciledBy
  <2>2. r.operation_id = old.operation_id
    BY <1>7 DEF o
  <2> QED  BY <1>2, <1>4, <1>6, <1>7, <1>8, <2>1, <2>2 DEF UpdateAllowed, SQL!InboxUpdateAllowed
<1>11. ReceiptTaken(k, r) /\ receipts[k] # None
  BY <1>2, <1>9, <1>10 DEF ReceiptTaken, old
<1> QED  BY <1>2, <1>7, <1>11

\* A receipt that waits for its next executor.
LEMMA RetryTaken ==
    ASSUME GuardsInvariant, NEW k \in Keys, ReconcileRetryEligible(k)
    PROVE  \E r \in Receipts :
              receipts[k] # None /\ ReceiptTaken(k, r) /\ AfterSnapshot(k, r)
<1> DEFINE old == receipts[k]
           o == old.operation_id
           v == operations[o].reconciliation_revision
           r == [old EXCEPT !.state = "admitted", !.terminal_reason = None,
                            !.reconciliation_revision = v]
<1>1. /\ old # None /\ old.state = "reconciliation_required" /\ o # None
      /\ operations[o] # None /\ v # None /\ AfterSnapshot(k, r)
  BY DEF ReconcileRetryEligible, InScope, AbsenceReconciled
<1>2. old \in Receipts /\ ReceiptRowAllowed(old) /\ o \in OperationIds
  BY <1>1, ReceivedRow
<1>3. v \in Revisions
  BY <1>1, <1>2 DEF GuardsInvariant, InboxInvariant, IInv, OpTypeOK, Operations
<1> HIDE DEF old, v
<1>4. /\ r \in Receipts /\ r.state = "admitted" /\ r.executor_id = old.executor_id
      /\ r.operation_id = old.operation_id /\ r.scope = old.scope
  BY <1>2, <1>3 DEF Receipts, InboxStates
<1> HIDE DEF r
<1>5. OperationRow(r) = OperationRow(old)
  BY <1>4 DEF OperationRow
<1>6. ReceiptRowAllowed(r)
  BY <1>1, <1>2, <1>4, <1>5 DEF ReceiptRowAllowed, SQL!InboxRowAllowed
<1>7. ReceiptTaken(k, r) /\ receipts[k] # None
  BY <1>1, <1>4, <1>6 DEF ReceiptTaken, UpdateAllowed, old
<1> QED  BY <1>1, <1>4, <1>7

\* The write that ends a call.
LEMMA WriteTaken ==
    ASSUME GuardsInvariant, Write
    PROVE  /\ \E k \in Keys, r \in Receipts :
                 ReceiptTaken(k, r) /\ receipts' = [receipts EXCEPT ![k] = r]
           /\ pending_write' = None /\ UNCHANGED opVars
<1> DEFINE k == pending_write.key
           r == pending_write.receipt
<1>1. /\ pending_write # None /\ receipts' = [receipts EXCEPT ![k] = r]
      /\ pending_write' = None /\ UNCHANGED opVars
  BY DEF Write
<1>2. k \in Keys /\ r \in Receipts
  BY <1>1 DEF GuardsInvariant, InboxInvariant, InboxTypeOK
<1>3. ReceiptTaken(k, r)
  BY <1>1 DEF GuardsInvariant, ReceiptRowsAllowed, ReceiptTaken
<1> HIDE DEF k, r
<1> QED  BY <1>1, <1>2, <1>3

\* What the operation table lets through: a known operation keeps its scope, a completed one stays
\* as it is, and evidence is only added.
LEMMA RowsSettle ==
    ASSUME GuardsInvariant, OpNext, NEW o \in OperationIds, operations[o] # None
    PROVE  /\ operations'[o] # None /\ operations'[o].scope = operations[o].scope
           /\ operations[o].state = "completed" => operations'[o] = operations[o]
           /\ \A v \in Revisions : evidence[o][v] # None => evidence'[o][v] = evidence[o][v]
<1>1. IInv /\ OperationRowsAllowed
  BY DEF GuardsInvariant, InboxInvariant
<1>2. CASE UNCHANGED <<operations, evidence>>
  BY <1>2
<1>3. CASE \E p \in OperationIds, new \in Operations : OperationTaken(p, new)
  <2> PICK p \in OperationIds, new \in Operations : OperationTaken(p, new)
    BY <1>3
  <2>1. operations'[p] = new /\ \A q \in OperationIds : q # p => operations'[q] = operations[q]
    BY <1>1 DEF OperationTaken, IInv, OpTypeOK
  <2>2. new # None
    BY OperationConstants
  <2>3. p = o => SQL!OperationUpdateAllowed(operations[o], new, evidence'[o])
    BY DEF OperationTaken
  <2>4. p = o => /\ new.scope = operations[o].scope
                 /\ operations[o].state = "completed" => new = operations[o]
    BY <2>3 DEF SQL!OperationUpdateAllowed
  <2>5. \A v \in Revisions : evidence[o][v] # None => evidence'[o][v] = evidence[o][v]
    BY DEF OperationTaken
  <2> QED  BY <2>1, <2>2, <2>4, <2>5
<1> QED  BY <1>1, <1>2, <1>3, OperationStepTaken

\* What the operations do takes nothing back from a receipt, nor from a write under way.
LEMMA OperationStepKeepsRows ==
    ASSUME GuardsInvariant, OpNext, UNCHANGED inboxVars
    PROVE  ReceiptRowsAllowed'
<1>1. ASSUME NEW r \in Receipts, ReceiptRowAllowed(r)
      PROVE  ReceiptRowAllowed(r)'
  <2>1. CASE r.operation_id = None
    BY <1>1, <2>1 DEF ReceiptRowAllowed, OperationRow
  <2>2. CASE r.operation_id # None
    <3>1. r.operation_id \in OperationIds
      BY <2>2 DEF Receipts
    <3>2. operations[r.operation_id] # None /\ operations[r.operation_id].scope = r.scope
      BY <1>1, <2>2 DEF ReceiptRowAllowed, SQL!InboxRowAllowed, OperationRow
    <3>3. operations'[r.operation_id] # None /\ operations'[r.operation_id].scope = r.scope
      BY <3>1, <3>2, RowsSettle
    <3> QED  BY <1>1, <2>2, <3>3 DEF ReceiptRowAllowed, SQL!InboxRowAllowed, OperationRow
  <2> QED  BY <2>1, <2>2
<1>2. ASSUME NEW old, NEW new \in Receipts, ReceiptRowAllowed(new), UpdateAllowed(old, new)
      PROVE  UpdateAllowed(old, new)'
  <2> DEFINE o == new.operation_id
             op == OperationRow(new)
             rows == EvidenceRows(new)
  <2> SUFFICES ASSUME new.terminal_reason \notin AdmissionReasons, new.state # "admitted"
               PROVE  SQL!InboxUpdateAllowed(old, new, OperationRow(new)', EvidenceRows(new)')
    BY DEF UpdateAllowed
  <2>1. SQL!InboxUpdateAllowed(old, new, op, rows)
    BY <1>2 DEF UpdateAllowed
  <2>2. CASE o = None
    <3>1. OperationRow(new)' = op /\ EvidenceRows(new)' = rows
      BY <2>2 DEF OperationRow, EvidenceRows
    <3> QED  BY <2>1, <3>1
  <2>3. CASE o # None
    <3>1. o \in OperationIds /\ new.reconciliation_revision \in Revisions \cup {None}
      BY <2>3 DEF Receipts
    <3>2. /\ op = operations[o] /\ rows = evidence[o]
          /\ OperationRow(new)' = operations'[o] /\ EvidenceRows(new)' = evidence'[o]
      BY <2>3 DEF OperationRow, EvidenceRows
    <3>3. operations[o] # None
      BY <1>2, <2>3, <3>2 DEF ReceiptRowAllowed, SQL!InboxRowAllowed
    <3>4. /\ operations[o].state = "completed" => operations'[o] = operations[o]
          /\ \A v \in Revisions : evidence[o][v] # None => evidence'[o][v] = evidence[o][v]
      BY <3>1, <3>3, RowsSettle
    <3> HIDE DEF op, rows
    <3>5. SQL!InboxUpdateAllowed(old, new, operations[o], evidence[o])
      BY <2>1, <3>2
    <3>6. SQL!DirectOutcome(new, operations[o]) => SQL!DirectOutcome(new, operations'[o])
      BY <3>4 DEF SQL!DirectOutcome
    <3>7. operations[o].state = "completed"
          /\ SQL!ReconciledBy(new, operations[o], evidence[o], "effect_confirmed")
             => /\ SQL!ReconciledBy(new, operations'[o], evidence'[o], "effect_confirmed")
                /\ operations'[o].state = "completed"
                /\ evidence'[o][new.reconciliation_revision]
                      = evidence[o][new.reconciliation_revision]
      BY <3>1, <3>4 DEF SQL!ReconciledBy
    <3>8. SQL!InboxUpdateAllowed(old, new, operations'[o], evidence'[o])
      BY <3>5, <3>6, <3>7 DEF SQL!InboxUpdateAllowed
    <3> QED  BY <3>2, <3>8
  <2> QED  BY <2>2, <2>3
<1>3. /\ \A k \in Keys : receipts[k] # None => receipts[k] \in Receipts
      /\ pending_write # None => /\ pending_write.receipt \in Receipts
  BY DEF GuardsInvariant, InboxInvariant, InboxTypeOK
<1>4. receipts' = receipts /\ pending_write' = pending_write
  BY DEF inboxVars
<1>5. ASSUME NEW k \in Keys, receipts[k] # None
      PROVE  ReceiptRowAllowed(receipts[k])'
  <2>1. \A r \in Receipts : r = receipts[k] => ReceiptRowAllowed(receipts[k])'
    BY <1>1, <1>4, <1>5 DEF GuardsInvariant, ReceiptRowsAllowed, Received, ReceiptRowAllowed,
                            OperationRow
  <2> QED  BY <1>3, <1>5, <2>1
<1>6. ASSUME pending_write # None
      PROVE  /\ ReceiptRowAllowed(pending_write.receipt)'
             /\ UpdateAllowed(receipts[pending_write.key], pending_write.receipt)'
  <2>1. /\ ReceiptRowAllowed(pending_write.receipt)
        /\ UpdateAllowed(receipts[pending_write.key], pending_write.receipt)
    BY <1>6 DEF GuardsInvariant, ReceiptRowsAllowed
  <2>2. \A r \in Receipts : r = pending_write.receipt => ReceiptRowAllowed(pending_write.receipt)'
    BY <1>1, <1>4, <2>1 DEF ReceiptRowAllowed, OperationRow
  <2>3. \A old, new : /\ new \in Receipts /\ new = pending_write.receipt
                      /\ old = receipts[pending_write.key]
                      => UpdateAllowed(receipts[pending_write.key], pending_write.receipt)'
    BY <1>2, <1>4, <2>1 DEF UpdateAllowed, OperationRow, EvidenceRows
  <2> QED  BY <1>3, <1>6, <2>2, <2>3
<1> QED  BY <1>4, <1>5, <1>6 DEF ReceiptRowsAllowed, Received

\* The calls of the inbox.
LEMMA InboxStepAccepted ==
    ASSUME GuardsInvariant, InboxNext
    PROVE  /\ ReceiptRowsAllowed' /\ UNCHANGED opVars
           /\ \A k \in Received : Executed(k) => GuardAccepts(k)
<1> USE DEF GuardsInvariant, InboxInvariant
<1>1. CASE Deliver \/ Redeliver \/ Expire \/ Require \/ Fail
  <2>1. Unlocked /\ \E k \in Keys, r \in Receipts : ReceiptTaken(k, r) /\ SetReceipt(k, r)
    <3> HIDE DEF GuardsInvariant, InboxInvariant
    <3>1. CASE Deliver
      BY <3>1, AdmitNewTaken DEF Deliver, AdmitNew
    <3>2. CASE Redeliver \/ Expire \/ Require \/ Fail
      BY <3>2, StoppingTaken DEF Redeliver, Expire, Require, Fail
    <3> QED  BY <1>1, <3>1, <3>2
  <2> QED  BY <2>1, WrittenAccepted DEF SetReceipt, Unlocked
<1>2. CASE Claim \/ CompleteLocal
  <2>1. /\ \E k \in Keys, r \in Receipts :
              ReceiptTaken(k, r) /\ receipts' = [receipts EXCEPT ![k] = r]
        /\ pending_write' = None /\ UNCHANGED opVars
    <3> HIDE DEF GuardsInvariant, InboxInvariant
    <3>1. CASE Claim
      BY <3>1, ClaimEffectTaken DEF Claim, ClaimEffect, Unlocked
    <3>2. CASE CompleteLocal
      BY <3>2, CompleteLocalTaken DEF CompleteLocal, CompleteLocalEffect, Unlocked
    <3> QED  BY <1>2, <3>1, <3>2
  <2> QED  BY <2>1, WrittenAccepted
<1>3. CASE Bind \/ CompleteCross \/ Confirm \/ Retry
  <2>1. \E k \in Keys, r \in Receipts :
           receipts[k] # None /\ ReceiptTaken(k, r) /\ AfterSnapshot(k, r)
    BY <1>3, BindTaken, CompleteCrossTaken, ConfirmTaken, RetryTaken
       DEF Bind, CompleteCross, Confirm, Retry
  <2> QED  BY <2>1, SnapshotAccepted DEF AfterSnapshot
<1>4. CASE Write
  BY <1>4, WriteTaken, WrittenAccepted
<1> QED  BY <1>1, <1>2, <1>3, <1>4 DEF InboxNext

\* Every step keeps the rows, and passes the tables.
LEMMA GuardsStep ==
    ASSUME GuardsInvariant, [Next]_vars
    PROVE  /\ GuardsInvariant'
           /\ [\A k \in Received : Executed(k) => GuardAccepts(k)]_vars
           /\ [\A o \in Known :
                 /\ operations'[o] # operations[o] =>
                       /\ SQL!OperationRowAllowed(operations'[o])
                       /\ SQL!OperationUpdateAllowed(operations[o], operations'[o], evidence'[o])
                 /\ \A v \in Revisions : evidence'[o][v] # evidence[o][v] =>
                       SQL!EvidenceInsertAllowed(operations[o], evidence[o][v], evidence'[o][v])]_opVars
<1>1. InboxInvariant'
  BY InboxStepKeeps DEF GuardsInvariant
<1>2. IInv /\ OperationRowsAllowed /\ ReceiptRowsAllowed
  BY DEF GuardsInvariant, InboxInvariant
<1>3. CASE InboxNext
  BY <1>1, <1>2, <1>3, InboxStepAccepted, OperationGuardsHold DEF GuardsInvariant
<1>4. CASE OpNext /\ UNCHANGED inboxVars
  <2>1. \A k \in Received : ~ Executed(k)
    BY <1>4 DEF Executed, inboxVars
  <2> QED  BY <1>1, <1>2, <1>4, <2>1, OperationStepKeepsRows, OperationGuardsHold
           DEF GuardsInvariant
<1>5. CASE UNCHANGED vars
  <2>1. UNCHANGED opVars /\ UNCHANGED <<receipts, pending_write, operations, evidence>>
    BY <1>5 DEF vars, inboxVars, opVars
  <2>2. OperationRowsAllowed' /\ ReceiptRowsAllowed'
    BY <1>2, <2>1 DEF OperationRowsAllowed, ReceiptRowsAllowed, ReceiptRowAllowed, UpdateAllowed,
                      OperationRow, EvidenceRows, Known, Received
  <2> QED  BY <1>1, <1>5, <2>1, <2>2 DEF GuardsInvariant
<1> QED  BY <1>3, <1>4, <1>5 DEF Next

\* Whatever wrote it, a row of the inbox table meets the CHECK constraints and has its operation.
ReceiptRowsMeetConstraints ==
    \A k \in Received : SQL!InboxRowAllowed(receipts[k], OperationRow(receipts[k]))

\* PostgreSQL takes every step of the operations and of their evidence
\* (wave2_guard_cross_authority_operation_update with the constraints and triggers beside it), and
\* each claim, binding, completion, expiry and failure of a receipt
\* (wave2_guard_consumer_inbox_update), also of one that is written after the operation it was
\* decided on moved on.  The update trigger is not claimed to take the verdict of a redelivery or
\* the retry admission (Executed); of the rows those two write, only that they meet the constraints.
THEOREM LedgerGuardsHold == Spec => LedgerGuardsAccept /\ []ReceiptRowsMeetConstraints
<1>1. Init => GuardsInvariant
  <2> SUFFICES ASSUME Init PROVE GuardsInvariant
    OBVIOUS
  <2>1. OperationRowsAllowed /\ ReceiptRowsAllowed
    BY DEF Init, OpInit, OperationRowsAllowed, ReceiptRowsAllowed, Known, Received
  <2> QED  BY <2>1, InboxInitially DEF GuardsInvariant
<1>2. GuardsInvariant => ReceiptRowsMeetConstraints
  BY DEF GuardsInvariant, ReceiptRowsAllowed, ReceiptRowAllowed, ReceiptRowsMeetConstraints
<1> QED  BY <1>1, <1>2, GuardsStep, PTL DEF Spec, LedgerGuardsAccept, OperationGuardAccepts

=============================================================================
