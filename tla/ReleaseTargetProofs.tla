------------------------- MODULE ReleaseTargetProofs -------------------------
(***************************************************************************)
(* Proofs about deployments to a target, for any operations and contents.  *)
(* The properties say what the authority knows; the strengthening Owned    *)
(* says what the target environment is like while it does not know.  An    *)
(* executor may only act for an unconfirmed operation, that operation owns *)
(* the target, and what runs is either what it puts there or what ran      *)
(* before it.                                                              *)
(***************************************************************************)
EXTENDS ReleaseTarget, TLAPS

Owned ==
    /\ \A op \in executors : Known(op) /\ records[op].state \in Unconfirmed /\ op \notin effects
    /\ \A op \in effects : Known(op)
    /\ \A op \in Operations :
          target.unresolved = op =>
              running = IF op \in effects THEN records[op].content ELSE target.current
    /\ \A op \in Operations : Known(op) /\ records[op].state = "runtime_verification" =>
          op \in effects /\ target.pending = records[op].content

IInv ==
    /\ ReleaseTypeOK /\ Owned
    /\ UnresolvedOwnsTarget /\ RunningIsCurrent
    /\ VersionNamesOneDeployment /\ ConfirmationNeverRefused /\ AbortedHasNoEffect

\* A fresh target runs what it says it runs, which is nothing.
LEMMA InitIInv == ReleaseInit => IInv
  BY ReleaseConstants
     DEF ReleaseInit, IInv, ReleaseTypeOK, Owned, UnresolvedOwnsTarget, RunningIsCurrent,
         VersionNamesOneDeployment, ConfirmationNeverRefused, AbortedHasNoEffect, Known,
         TargetStates

\* Two operations cannot both be unsettled.
LEMMA OneUnsettled ==
    ASSUME IInv, NEW f \in Operations, NEW g \in Operations, Known(f), Known(g),
           records[f].state \notin Terminal, records[g].state \notin Terminal
    PROVE  f = g
  BY DEF IInv, UnresolvedOwnsTarget

\* Moving a record to another state changes nothing else in it.
LEMMA StateChange ==
    ASSUME IInv, NEW op \in Operations, Known(op),
           NEW state \in Unconfirmed \cup {"runtime_verification"} \cup Terminal,
           records' = WithState(op, state)
    PROVE  /\ records' \in [Operations -> DeploymentRecords \cup {None}]
           /\ Known(op)' /\ records'[op].state = state
           /\ records'[op].content = records[op].content
           /\ records'[op].required = records[op].required
           /\ records'[op].resulting = records[op].resulting
           /\ \A f \in Operations : f # op => records'[f] = records[f]
<1>1. records[op] \in DeploymentRecords /\ records \in [Operations -> DeploymentRecords \cup {None}]
  BY DEF IInv, ReleaseTypeOK, Known
<1> DEFINE r == [records[op] EXCEPT !.state = state]
<1>2. /\ r \in DeploymentRecords
      /\ r.state = state /\ r.content = records[op].content
      /\ r.required = records[op].required /\ r.resulting = records[op].resulting
  BY <1>1 DEF DeploymentRecords
<1>3. r # None
  BY <1>2, ReleaseConstants
<1>4. records' = [records EXCEPT ![op] = r]
  BY DEF WithState
<1> HIDE DEF r
<1>5. /\ records' \in [Operations -> DeploymentRecords \cup {None}]
      /\ records'[op] = r
      /\ \A f \in Operations : f # op => records'[f] = records[f]
  BY <1>1, <1>2, <1>4
<1> QED  BY <1>2, <1>3, <1>5 DEF Known

\* Admission: one more record, in a state of its own, that owns the target.
LEMMA CreatePreserves ==
    ASSUME IInv, NEW op \in Operations, NEW content \in ReleaseContents,
           NEW expected \in 0 .. target.version, CreateOperation(op, content, expected)
    PROVE  IInv'
<1> DEFINE r == [content |-> content, required |-> expected + 1, resulting |-> None,
                 state |-> "deploying"]
<1>1. /\ ~ Known(op) /\ expected = target.version /\ target.unresolved = None
      /\ records' = [records EXCEPT ![op] = r]
      /\ target' = [target EXCEPT !.unresolved = op]
      /\ executors' = executors \cup {op} /\ effects' = effects /\ running' = running
  BY DEF CreateOperation, Admissible
<1>2. target \in TargetStates /\ target.version \in Nat
      /\ records \in [Operations -> DeploymentRecords \cup {None}]
  BY DEF IInv, ReleaseTypeOK, TargetStates
<1>3. /\ r \in DeploymentRecords /\ r.content = content /\ r.required = target.version + 1
      /\ r.resulting = None /\ r.state = "deploying"
  BY <1>1, <1>2 DEF DeploymentRecords, Unconfirmed
<1>4. r # None
  BY <1>3, ReleaseConstants
<1> HIDE DEF r
<1>5. /\ records' \in [Operations -> DeploymentRecords \cup {None}]
      /\ records'[op] = r /\ \A f \in Operations : f # op => records'[f] = records[f]
  BY <1>1, <1>2, <1>3
<1>6. /\ target' \in TargetStates /\ target'.unresolved = op
      /\ target'.version = target.version /\ target'.current = target.current
      /\ target'.pending = target.pending
  BY <1>1, <1>2 DEF TargetStates
<1>7. Known(op)' /\ op # None /\ op \notin effects
  BY <1>1, <1>4, <1>5, ReleaseConstants DEF Known, IInv, Owned
<1>8. \A f \in Operations : f # op /\ Known(f)' => Known(f) /\ records[f].state \in Terminal
  BY <1>1, <1>5, ReleaseConstants DEF Known, IInv, UnresolvedOwnsTarget
<1>9. \A f \in executors \cup effects : f # op /\ f \in Operations
  BY <1>1 DEF IInv, Owned, ReleaseTypeOK
<1>10. "deploying" \in Unconfirmed /\ "deploying" \notin Terminal
       /\ "runtime_verification" \notin Terminal /\ Unconfirmed \cap Terminal = {}
  BY DEF Unconfirmed, Terminal
<1>11. ReleaseTypeOK'
  BY <1>1, <1>5, <1>6 DEF IInv, ReleaseTypeOK
<1>12. executors = {}
  BY <1>1, <1>10, ReleaseConstants DEF IInv, Owned, UnresolvedOwnsTarget, ReleaseTypeOK
<1>13. Owned'
  <2>1. \A f \in executors' : Known(f)' /\ records'[f].state \in Unconfirmed /\ f \notin effects'
    BY <1>1, <1>3, <1>5, <1>7, <1>10, <1>12
  <2>2. \A f \in effects' : Known(f)'
    BY <1>1, <1>5, <1>9 DEF IInv, Owned, Known
  <2>3. \A f \in Operations :
           target'.unresolved = f =>
               running' = IF f \in effects' THEN records'[f].content ELSE target'.current
    BY <1>1, <1>6, <1>7 DEF IInv, RunningIsCurrent
  <2>4. \A f \in Operations : ~ (Known(f)' /\ records'[f].state = "runtime_verification")
    BY <1>3, <1>5, <1>8, <1>10
  <2> QED  BY <2>1, <2>2, <2>3, <2>4 DEF Owned
<1>14. UnresolvedOwnsTarget'
  BY <1>3, <1>5, <1>6, <1>7, <1>8, <1>10 DEF UnresolvedOwnsTarget
<1>15. RunningIsCurrent'
  BY <1>6, <1>7 DEF RunningIsCurrent
<1>16. VersionNamesOneDeployment'
  <2>1. \A f \in Operations :
           Known(f)' /\ records'[f].resulting # None =>
               f # op /\ Known(f) /\ records'[f].resulting = records[f].resulting
    BY <1>3, <1>5, <1>8
  <2> QED  BY <1>6, <2>1 DEF IInv, VersionNamesOneDeployment
<1>17. ConfirmationNeverRefused'
  BY <1>3, <1>5, <1>6, <1>8, <1>10 DEF ConfirmationNeverRefused
<1>18. AbortedHasNoEffect'
  BY <1>1, <1>3, <1>5, <1>8 DEF IInv, AbortedHasNoEffect
<1> QED  BY <1>11, <1>13, <1>14, <1>15, <1>16, <1>17, <1>18 DEF IInv

\* The executor puts its content where the current one was.
LEMMA ActPreserves ==
    ASSUME IInv, NEW op \in Operations, ExecutorActs(op)
    PROVE  IInv'
<1>1. /\ op \in executors /\ executors' = executors \ {op} /\ effects' = effects \cup {op}
      /\ running' = records[op].content /\ UNCHANGED <<target, records>>
  BY DEF ExecutorActs
<1>2. Known(op) /\ records[op].state \in Unconfirmed /\ records[op] \in DeploymentRecords
  BY <1>1 DEF IInv, Owned, ReleaseTypeOK, Known
<1>3. target.unresolved = op /\ op # None
  BY <1>2, ReleaseConstants DEF IInv, UnresolvedOwnsTarget, Unconfirmed, Terminal
<1>4. ReleaseTypeOK'
  BY <1>1, <1>2 DEF IInv, ReleaseTypeOK, DeploymentRecords
<1>5. Owned'
  BY <1>1, <1>2, <1>3 DEF IInv, Owned, Known
<1>6. UnresolvedOwnsTarget' /\ VersionNamesOneDeployment' /\ ConfirmationNeverRefused'
  BY <1>1 DEF IInv, UnresolvedOwnsTarget, VersionNamesOneDeployment, ConfirmationNeverRefused,
              Known
<1>7. RunningIsCurrent'
  BY <1>1, <1>3 DEF RunningIsCurrent
<1>8. AbortedHasNoEffect'
  BY <1>1 DEF IInv, AbortedHasNoEffect, Known
<1> QED  BY <1>4, <1>5, <1>6, <1>7, <1>8 DEF IInv

\* An executor that dies leaves everything as it was.
LEMMA FencedPreserves ==
    ASSUME IInv, NEW op \in Operations, ExecutorFenced(op)
    PROVE  IInv'
  BY DEF ExecutorFenced, IInv, ReleaseTypeOK, Owned, UnresolvedOwnsTarget, RunningIsCurrent,
         VersionNamesOneDeployment, ConfirmationNeverRefused, AbortedHasNoEffect, Known

\* Silence keeps the operation where it is in the way.
LEMMA NothingPreserves ==
    ASSUME IInv, NEW op \in Operations, ObserveNothing(op)
    PROVE  IInv'
<1>1. /\ Known(op) /\ records[op].state \in Unconfirmed
      /\ records' = WithState(op, "reconciliation_required")
      /\ UNCHANGED <<target, executors, effects, running>>
  BY DEF ObserveNothing
<1>2. "reconciliation_required" \in Unconfirmed \cup {"runtime_verification"} \cup Terminal
  BY DEF Unconfirmed
<1>3. /\ records' \in [Operations -> DeploymentRecords \cup {None}]
      /\ Known(op)' /\ records'[op].state = "reconciliation_required"
      /\ records'[op].content = records[op].content
      /\ records'[op].required = records[op].required
      /\ records'[op].resulting = records[op].resulting
      /\ \A f \in Operations : f # op => records'[f] = records[f]
  BY <1>1, <1>2, StateChange
<1>4. \A f \in Operations :
         /\ Known(f)' <=> Known(f)
         /\ Known(f) => /\ records'[f].content = records[f].content
                        /\ records'[f].required = records[f].required
                        /\ records'[f].resulting = records[f].resulting
                        /\ records'[f].state \in Unconfirmed <=> records[f].state \in Unconfirmed
                        /\ records'[f].state \in Terminal <=> records[f].state \in Terminal
                        /\ records'[f].state = "aborted" <=> records[f].state = "aborted"
                        /\ records'[f].state = "runtime_verification"
                               <=> records[f].state = "runtime_verification"
  BY <1>1, <1>3 DEF Known, Unconfirmed, Terminal
<1>5. ReleaseTypeOK'
  BY <1>1, <1>3 DEF IInv, ReleaseTypeOK
<1>6. Owned'
  <2>1. \A f \in executors : Known(f)' /\ records'[f].state \in Unconfirmed /\ f \notin effects
    BY <1>4 DEF IInv, Owned, ReleaseTypeOK
  <2>2. \A f \in effects : Known(f)'
    BY <1>4 DEF IInv, Owned, ReleaseTypeOK
  <2>3. \A f \in Operations :
           target.unresolved = f =>
               running = IF f \in effects THEN records'[f].content ELSE target.current
    BY <1>4 DEF IInv, Owned
  <2>4. \A f \in Operations : Known(f)' /\ records'[f].state = "runtime_verification" =>
           f \in effects /\ target.pending = records'[f].content
    BY <1>4 DEF IInv, Owned
  <2> QED  BY <1>1, <2>1, <2>2, <2>3, <2>4 DEF Owned
<1>7. UnresolvedOwnsTarget'
  BY <1>1, <1>4 DEF IInv, UnresolvedOwnsTarget
<1>8. RunningIsCurrent'
  BY <1>1 DEF IInv, RunningIsCurrent
<1>9. VersionNamesOneDeployment'
  BY <1>1, <1>4 DEF IInv, VersionNamesOneDeployment
<1>10. ConfirmationNeverRefused'
  BY <1>1, <1>4 DEF IInv, ConfirmationNeverRefused
<1>11. AbortedHasNoEffect'
  BY <1>1, <1>4 DEF IInv, AbortedHasNoEffect
<1> QED  BY <1>5, <1>6, <1>7, <1>8, <1>9, <1>10, <1>11 DEF IInv

\* A proven absence: the operation is settled, and what ran before it still runs.
LEMMA AbsentPreserves ==
    ASSUME IInv, NEW op \in Operations, ObserveAbsent(op)
    PROVE  IInv'
<1>1. /\ Known(op) /\ records[op].state \in Unconfirmed
      /\ op \notin effects /\ op \notin executors
      /\ records' = WithState(op, "aborted") /\ target' = ClearPending(op)
      /\ UNCHANGED <<executors, effects, running>>
  BY DEF ObserveAbsent, ProvenAbsent
<1>2. "aborted" \in Unconfirmed \cup {"runtime_verification"} \cup Terminal
  BY DEF Terminal
<1>3. /\ records' \in [Operations -> DeploymentRecords \cup {None}]
      /\ Known(op)' /\ records'[op].state = "aborted"
      /\ records'[op].resulting = records[op].resulting
      /\ \A f \in Operations : f # op => records'[f] = records[f]
  BY <1>1, <1>2, StateChange
<1>4. target.unresolved = op /\ op # None
  BY <1>1, ReleaseConstants DEF IInv, UnresolvedOwnsTarget, Unconfirmed, Terminal
<1>5. target \in TargetStates
  BY DEF IInv, ReleaseTypeOK
<1>6. /\ target' \in TargetStates /\ target'.unresolved = None
      /\ target'.version = target.version /\ target'.current = target.current
  BY <1>1, <1>4, <1>5 DEF ClearPending, TargetStates
<1>7. /\ "aborted" \in Terminal /\ "aborted" \notin Unconfirmed /\ "aborted" # "runtime_verification"
      /\ Unconfirmed \cap Terminal = {} /\ "runtime_verification" \notin Terminal
  BY DEF Unconfirmed, Terminal
<1>8. \A f \in Operations : f # op /\ Known(f) => records[f].state \in Terminal
  BY <1>4 DEF IInv, UnresolvedOwnsTarget
<1>9. \A f \in Operations : Known(f)' => records'[f].state \in Terminal
  BY <1>3, <1>7, <1>8 DEF Known
<1>10. ReleaseTypeOK'
  BY <1>1, <1>3, <1>6 DEF IInv, ReleaseTypeOK
<1>11. Owned'
  <2>1. executors = {}
    <3>1. \A f \in executors : f # op /\ Known(f) /\ records[f].state \in Unconfirmed
      BY <1>1 DEF IInv, Owned
    <3> QED  BY <3>1, <1>7, <1>8 DEF IInv, ReleaseTypeOK
  <2>2. \A f \in effects : Known(f)'
    BY <1>1, <1>3 DEF IInv, Owned, ReleaseTypeOK, Known
  <2>3. \A f \in Operations : target'.unresolved # f
    BY <1>6, ReleaseConstants
  <2>4. \A f \in Operations : ~ (Known(f)' /\ records'[f].state = "runtime_verification")
    BY <1>7, <1>9
  <2> QED  BY <1>1, <2>1, <2>2, <2>3, <2>4 DEF Owned
<1>12. UnresolvedOwnsTarget'
  BY <1>6, <1>9, ReleaseConstants DEF UnresolvedOwnsTarget
<1>13. RunningIsCurrent'
  BY <1>1, <1>4, <1>6 DEF IInv, Owned, RunningIsCurrent
<1>14. VersionNamesOneDeployment'
  <2>1. \A f \in Operations : Known(f)' =>
           Known(f) /\ records'[f].resulting = records[f].resulting
    BY <1>1, <1>3 DEF Known
  <2> QED  BY <1>6, <2>1 DEF IInv, VersionNamesOneDeployment
<1>15. ConfirmationNeverRefused'
  BY <1>7, <1>9 DEF ConfirmationNeverRefused
<1>16. AbortedHasNoEffect'
  BY <1>1, <1>3 DEF IInv, AbortedHasNoEffect, Known
<1> QED  BY <1>10, <1>11, <1>12, <1>13, <1>14, <1>15, <1>16 DEF IInv

\* A confirmed effect: the version advances past every version a record names.
LEMMA ConfirmedPreserves ==
    ASSUME IInv, NEW op \in Operations, ObserveConfirmed(op)
    PROVE  IInv'
<1> DEFINE r == [records[op] EXCEPT !.state = "runtime_verification",
                                    !.resulting = target.version + 1]
<1>1. /\ Known(op) /\ records[op].state \in Unconfirmed
      /\ op \in effects /\ running = records[op].content
      /\ target' = Advanced(records[op].content)
      /\ records' = [records EXCEPT ![op] = r]
      /\ UNCHANGED <<executors, effects, running>>
  BY DEF ObserveConfirmed
<1>2. /\ target \in TargetStates /\ target.version \in Nat
      /\ records \in [Operations -> DeploymentRecords \cup {None}]
      /\ records[op] \in DeploymentRecords
  BY <1>1 DEF IInv, ReleaseTypeOK, TargetStates, Known
<1>3. /\ r \in DeploymentRecords /\ r.content = records[op].content
      /\ r.state = "runtime_verification" /\ r.resulting = target.version + 1
  <2>1. PICK next \in Nat : next = target.version + 1
    BY <1>2
  <2>2. r = [records[op] EXCEPT !.state = "runtime_verification", !.resulting = next]
    BY <2>1
  <2>3. /\ [records[op] EXCEPT !.state = "runtime_verification", !.resulting = next]
              \in DeploymentRecords
        /\ r.content = records[op].content
        /\ r.state = "runtime_verification" /\ r.resulting = next
    BY <1>2, <2>2 DEF DeploymentRecords
  <2> HIDE DEF r
  <2> QED  BY <2>1, <2>2, <2>3
<1>4. r # None /\ target.version + 1 # None
  BY <1>2, <1>3, ReleaseConstants
<1> HIDE DEF r
<1>5. /\ records' \in [Operations -> DeploymentRecords \cup {None}]
      /\ records'[op] = r /\ \A f \in Operations : f # op => records'[f] = records[f]
  BY <1>1, <1>2, <1>3
<1>6. Known(op)'
  BY <1>4, <1>5 DEF Known
<1>7. target.unresolved = op /\ op # None
  BY <1>1, ReleaseConstants DEF IInv, UnresolvedOwnsTarget, Unconfirmed, Terminal
<1>8. records[op].content \in ReleaseContents
  BY <1>2 DEF DeploymentRecords
<1>9. /\ target' \in TargetStates /\ target'.unresolved = op
      /\ target'.version = target.version + 1 /\ target'.current = target.current
      /\ target'.pending = records[op].content
  <2>1. target.version + 1 \in Nat
    BY <1>2
  <2> QED  BY <2>1, <1>1, <1>2, <1>7, <1>8 DEF Advanced, TargetStates
<1>10. /\ "runtime_verification" \notin Terminal /\ "runtime_verification" \notin Unconfirmed
       /\ Unconfirmed \cap Terminal = {} /\ "runtime_verification" # "aborted"
  BY DEF Unconfirmed, Terminal
<1>11. \A f \in Operations : f # op /\ Known(f)' => Known(f) /\ records[f].state \in Terminal
  BY <1>5, <1>7 DEF Known, IInv, UnresolvedOwnsTarget
<1>12. ReleaseTypeOK'
  BY <1>1, <1>5, <1>9 DEF IInv, ReleaseTypeOK
<1>13. Owned'
  <2>1. executors = {}
    <3>1. \A f \in executors : f # op /\ Known(f) /\ records[f].state \in Unconfirmed
      BY <1>1 DEF IInv, Owned
    <3>2. \A f \in executors : f \in Operations
      BY DEF IInv, ReleaseTypeOK
    <3>3. \A f \in Operations : Known(f) /\ records[f].state \notin Terminal => f = op
      BY <1>7 DEF IInv, UnresolvedOwnsTarget
    <3> QED  BY <3>1, <3>2, <3>3, <1>10
  <2>2. \A f \in effects : Known(f)'
    BY <1>5, <1>6 DEF IInv, Owned, ReleaseTypeOK, Known
  <2>3. running' = records'[op].content
    BY <1>1, <1>3, <1>5
  <2>4. \A f \in Operations : Known(f)' /\ records'[f].state = "runtime_verification" =>
           f \in effects /\ target'.pending = records'[f].content
    BY <1>1, <1>3, <1>5, <1>9, <1>10, <1>11
  <2> QED  BY <1>1, <1>9, <2>1, <2>2, <2>3, <2>4 DEF Owned
<1>14. UnresolvedOwnsTarget'
  BY <1>3, <1>5, <1>6, <1>9, <1>10, <1>11 DEF UnresolvedOwnsTarget
<1>15. RunningIsCurrent'
  BY <1>7, <1>9 DEF RunningIsCurrent
<1>16. VersionNamesOneDeployment'
  <2>1. \A f \in Operations : f # op /\ Known(f)' /\ records'[f].resulting # None =>
           /\ Known(f) /\ records'[f].resulting = records[f].resulting
           /\ records[f].resulting \in Nat /\ records[f].resulting <= target.version
    BY <1>2, <1>5, <1>11 DEF IInv, VersionNamesOneDeployment, DeploymentRecords, Known
  <2>2. records'[op].resulting = target.version + 1
    BY <1>3, <1>5
  <2>3. \A f \in Operations : Known(f)' /\ records'[f].resulting # None =>
           records'[f].resulting <= target'.version
    BY <1>2, <1>9, <2>1, <2>2
  <2>4. \A f \in Operations, g \in Operations :
           Known(f)' /\ Known(g)' /\ records'[f].resulting # None
           /\ records'[g].resulting = records'[f].resulting => g = f
    <3> SUFFICES ASSUME NEW f \in Operations, NEW g \in Operations, Known(f)', Known(g)',
                        records'[f].resulting # None,
                        records'[g].resulting = records'[f].resulting
                 PROVE  g = f
      OBVIOUS
    <3>1. CASE f = op /\ g # op
      BY <1>2, <2>1, <2>2, <3>1
    <3>2. CASE g = op /\ f # op
      BY <1>2, <2>1, <2>2, <3>2
    <3>3. CASE f # op /\ g # op
      BY <2>1, <3>3 DEF IInv, VersionNamesOneDeployment
    <3> QED  BY <3>1, <3>2, <3>3
  <2> QED  BY <2>3, <2>4 DEF VersionNamesOneDeployment
<1>17. ConfirmationNeverRefused'
  BY <1>3, <1>5, <1>10, <1>11 DEF ConfirmationNeverRefused
<1>18. AbortedHasNoEffect'
  BY <1>1, <1>3, <1>5, <1>10, <1>11 DEF IInv, AbortedHasNoEffect
<1> QED  BY <1>12, <1>13, <1>14, <1>15, <1>16, <1>17, <1>18 DEF IInv

\* A verified runtime: what runs becomes the current content and the target is free.
LEMMA CompletePreserves ==
    ASSUME IInv, NEW op \in Operations, CompleteVerification(op)
    PROVE  IInv'
<1>1. /\ Known(op) /\ records[op].state = "runtime_verification"
      /\ target.unresolved = op /\ target.pending = records[op].content
      /\ running = records[op].content
      /\ records' = WithState(op, "completed") /\ target' = Promoted(op)
      /\ UNCHANGED <<executors, effects, running>>
  BY DEF CompleteVerification
<1>2. "completed" \in Unconfirmed \cup {"runtime_verification"} \cup Terminal
  BY DEF Terminal
<1>3. /\ records' \in [Operations -> DeploymentRecords \cup {None}]
      /\ Known(op)' /\ records'[op].state = "completed"
      /\ records'[op].resulting = records[op].resulting
      /\ \A f \in Operations : f # op => records'[f] = records[f]
  BY <1>1, <1>2, StateChange
<1>4. target \in TargetStates
  BY DEF IInv, ReleaseTypeOK
<1>5. /\ target' \in TargetStates /\ target'.unresolved = None
      /\ target'.version = target.version /\ target'.current = target.pending
  BY <1>1, <1>4 DEF ClearPending, Promoted, TargetStates
<1>6. /\ "completed" \in Terminal /\ "completed" # "runtime_verification"
      /\ "completed" # "aborted" /\ "runtime_verification" \notin Unconfirmed
      /\ Unconfirmed \cap Terminal = {} /\ "runtime_verification" \notin Terminal
  BY DEF Unconfirmed, Terminal
<1>7. \A f \in Operations : f # op /\ Known(f) => records[f].state \in Terminal
  BY <1>1 DEF IInv, UnresolvedOwnsTarget
<1>8. \A f \in Operations : Known(f)' => records'[f].state \in Terminal
  BY <1>3, <1>6, <1>7 DEF Known
<1>9. ReleaseTypeOK'
  BY <1>1, <1>3, <1>5 DEF IInv, ReleaseTypeOK
<1>10. Owned'
  <2>1. executors = {}
    <3>1. \A f \in executors : Known(f) /\ records[f].state \in Unconfirmed
      BY DEF IInv, Owned
    <3>2. \A f \in executors : f \in Operations
      BY DEF IInv, ReleaseTypeOK
    <3> QED  BY <3>1, <3>2, <1>1, <1>6, <1>7
  <2>2. \A f \in effects : Known(f)'
    BY <1>1, <1>3 DEF IInv, Owned, ReleaseTypeOK, Known
  <2>3. \A f \in Operations : target'.unresolved # f
    BY <1>5, ReleaseConstants
  <2>4. \A f \in Operations : ~ (Known(f)' /\ records'[f].state = "runtime_verification")
    BY <1>6, <1>8
  <2> QED  BY <1>1, <2>1, <2>2, <2>3, <2>4 DEF Owned
<1>11. UnresolvedOwnsTarget'
  BY <1>5, <1>8, ReleaseConstants DEF UnresolvedOwnsTarget
<1>12. RunningIsCurrent'
  BY <1>1, <1>5 DEF RunningIsCurrent
<1>13. VersionNamesOneDeployment'
  <2>1. \A f \in Operations : Known(f)' =>
           Known(f) /\ records'[f].resulting = records[f].resulting
    BY <1>1, <1>3 DEF Known
  <2> QED  BY <1>5, <2>1 DEF IInv, VersionNamesOneDeployment
<1>14. ConfirmationNeverRefused'
  BY <1>6, <1>8 DEF ConfirmationNeverRefused
<1>15. AbortedHasNoEffect'
  BY <1>1, <1>3, <1>6 DEF IInv, AbortedHasNoEffect, Known
<1> QED  BY <1>9, <1>10, <1>11, <1>12, <1>13, <1>14, <1>15 DEF IInv

\* Every step keeps the inductive invariant.
LEMMA NextIInv == IInv /\ [ReleaseNext]_releaseVars => IInv'
<1> SUFFICES ASSUME IInv, [ReleaseNext]_releaseVars PROVE IInv'
  OBVIOUS
<1>1. CASE UNCHANGED releaseVars
  BY <1>1 DEF releaseVars, IInv, ReleaseTypeOK, Owned, UnresolvedOwnsTarget, RunningIsCurrent,
              VersionNamesOneDeployment, ConfirmationNeverRefused, AbortedHasNoEffect, Known
<1>2. CASE ReleaseNext
  BY <1>2, CreatePreserves, ActPreserves, FencedPreserves, NothingPreserves, AbsentPreserves,
     ConfirmedPreserves, CompletePreserves DEF ReleaseNext
<1> QED  BY <1>1, <1>2

\* DeploymentAuthority with its executors keeps the inductive invariant.
THEOREM ReleaseInvariant == ReleaseSpec => []IInv
  BY InitIInv, NextIInv, PTL DEF ReleaseSpec

\* The target and its records keep their types (DeploymentAuthority).
THEOREM ReleaseTypeCorrect == ReleaseSpec => []ReleaseTypeOK
<1>1. IInv => ReleaseTypeOK
  BY DEF IInv
<1> QED  BY <1>1, ReleaseInvariant, PTL

\* create_or_observe admits an operation only on a target whose predecessor is settled, so
\* an unsettled operation owns the target, whichever operations race for it.
THEOREM ReleaseUnresolvedOwnsTarget == ReleaseSpec => []UnresolvedOwnsTarget
<1>1. IInv => UnresolvedOwnsTarget
  BY DEF IInv
<1> QED  BY <1>1, ReleaseInvariant, PTL

\* Between operations the target runs its current artifact and configuration, although
\* executors act unheard and observations come late.
THEOREM ReleaseRunningIsCurrent == ReleaseSpec => []RunningIsCurrent
<1>1. IInv => RunningIsCurrent
  BY DEF IInv
<1> QED  BY <1>1, ReleaseInvariant, PTL

\* No two deployments are confirmed as one version of the target.
THEOREM ReleaseVersionNamesOneDeployment == ReleaseSpec => []VersionNamesOneDeployment
<1>1. IInv => VersionNamesOneDeployment
  BY DEF IInv
<1> QED  BY <1>1, ReleaseInvariant, PTL

\* The check of observe_effect that the requirements fit the version never fails for an
\* admitted operation.
THEOREM ReleaseConfirmationNeverRefused == ReleaseSpec => []ConfirmationNeverRefused
<1>1. IInv => ConfirmationNeverRefused
  BY DEF IInv
<1> QED  BY <1>1, ReleaseInvariant, PTL

\* An abort on proven absence is final for the target as well.
THEOREM ReleaseAbortedHasNoEffect == ReleaseSpec => []AbortedHasNoEffect
<1>1. IInv => AbortedHasNoEffect
  BY DEF IInv
<1> QED  BY <1>1, ReleaseInvariant, PTL

\* An executor that acts late acts for the operation that still owns the target.
THEOREM ReleaseEffectUnderOwnership == ReleaseSpec => EffectUnderOwnership
<1>1. IInv /\ [ReleaseNext]_releaseVars =>
          [\A op \in Operations : op \in effects' \ effects => target.unresolved = op]_releaseVars
  <2> SUFFICES ASSUME IInv, ReleaseNext, NEW op \in Operations, op \in effects' \ effects
               PROVE  target.unresolved = op
    OBVIOUS
  <2>1. op \in executors
    BY DEF ReleaseNext, CreateOperation, ExecutorActs, ExecutorFenced, ObserveNothing,
           ObserveAbsent, ObserveConfirmed, CompleteVerification
  <2> QED  BY <2>1 DEF IInv, Owned, UnresolvedOwnsTarget, Unconfirmed, Terminal
<1> QED  BY <1>1, ReleaseInvariant, PTL DEF ReleaseSpec, EffectUnderOwnership
=============================================================================
