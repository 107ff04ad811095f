---------------------------- MODULE ReleaseTarget ----------------------------
(***************************************************************************)
(* Deployments to one release target: DeploymentAuthority of               *)
(* jlmirror_release/authority.py, one lock around every call, and the      *)
(* executors and the target environment it hears about.  Controllers read  *)
(* the target's version, build an intent and its evidence on it and submit *)
(* it later; observations of the effect arrive late, repeatedly, or not.   *)
(*                                                                         *)
(* An artifact with its configuration generation is one content.  That the *)
(* evidence of an admission is complete and bound to the intent is assumed *)
(* of a submitted intent; calls that raise change nothing and are left     *)
(* out.  Evidence about the effect is truthful: confirmed when the target  *)
(* runs the content the executor put there, proven absent when the         *)
(* executor is fenced and never acted.  Both stay true, so a late report   *)
(* needs no message of its own.                                            *)
(***************************************************************************)
EXTENDS Naturals, Absent

CONSTANTS
    Operations,    \* deployment operation ids
    ReleaseContents       \* artifact and configuration generation

VARIABLES
    target,        \* _MutableReleaseTargetState
    records,       \* operation id -> DeploymentRecord, None when unknown
    executors,     \* operations whose executor may still act
    effects,       \* operations whose executor has acted
    running        \* what the target environment runs

releaseVars == <<target, records, executors, effects, running>>

Unconfirmed == {"deploying", "reconciliation_required"}
Terminal == {"completed", "aborted"}

TargetStates == [version : Nat, current : ReleaseContents \cup {None},
                 unresolved : Operations \cup {None}, pending : ReleaseContents \cup {None}]

\* required: the version the runtime verification requirements were authorised for;
\* resulting: the version the confirmed effect led to.
DeploymentRecords ==
    [content : ReleaseContents, required : Nat, resulting : Nat \cup {None},
     state : Unconfirmed \cup {"runtime_verification"} \cup Terminal]

ASSUME ReleaseConstants ==
    /\ None \notin Operations
    /\ None \notin ReleaseContents
    /\ None \notin DeploymentRecords
    /\ None \notin Nat

Known(op) == records[op] # None

ReleaseInit ==
    /\ target = [version |-> 0, current |-> None, unresolved |-> None, pending |-> None]
    /\ records = [op \in Operations |-> None]
    /\ executors = {} /\ effects = {}
    /\ running = None

-----------------------------------------------------------------------------
\* Mutant form: an unresolved operation does not stand in the way of another.
AnyPredecessor(expected) == expected = target.version

\* The checks of create_or_observe on the target
Admissible(expected) == expected = target.version /\ target.unresolved = None

\* create_or_observe of an operation that is new; expected was read before.  The
\* requirements were authorised for the version after it.
CreateOperation(op, content, expected) ==
    /\ ~ Known(op)
    /\ Admissible(expected)
    /\ records' = [records EXCEPT ![op] =
           [content |-> content, required |-> expected + 1, resulting |-> None,
            state |-> "deploying"]]
    /\ target' = [target EXCEPT !.unresolved = op]
    /\ executors' = executors \cup {op}
    /\ UNCHANGED <<effects, running>>

\* The executor puts the content in place, which nobody may hear of.
ExecutorActs(op) ==
    /\ op \in executors
    /\ executors' = executors \ {op}
    /\ effects' = effects \cup {op}
    /\ running' = records[op].content
    /\ UNCHANGED <<target, records>>

\* The executor dies or is fenced before it acted.
ExecutorFenced(op) ==
    /\ op \in executors
    /\ executors' = executors \ {op}
    /\ UNCHANGED <<target, records, effects, running>>

WithState(op, state) == [records EXCEPT ![op] = [records[op] EXCEPT !.state = state]]

\* observe_effect of "ambiguous" or "not_observed"
ObserveNothing(op) ==
    /\ Known(op)
    /\ records[op].state \in Unconfirmed
    /\ records' = WithState(op, "reconciliation_required")
    /\ UNCHANGED <<target, executors, effects, running>>

ProvenAbsent(op) == op \notin effects /\ op \notin executors

\* Mutant form: the abort leaves the target to the operation.
KeepUnresolved(op) == [target EXCEPT !.pending = None]

\* _clear_pending
ClearPending(op) ==
    [target EXCEPT !.unresolved = IF target.unresolved = op THEN None ELSE target.unresolved,
                   !.pending = None]

\* observe_effect of "effect_absent_proven"
ObserveAbsent(op) ==
    /\ Known(op)
    /\ records[op].state \in Unconfirmed
    /\ ProvenAbsent(op)
    /\ records' = WithState(op, "aborted")
    /\ target' = ClearPending(op)
    /\ UNCHANGED <<executors, effects, running>>

Advanced(content) == [target EXCEPT !.version = target.version + 1, !.pending = content]

\* observe_effect of "effect_confirmed"
ObserveConfirmed(op) ==
    /\ Known(op)
    /\ records[op].state \in Unconfirmed
    /\ op \in effects /\ running = records[op].content
    /\ target.version + 1 = records[op].required
    /\ target' = Advanced(records[op].content)
    /\ records' = [records EXCEPT ![op] =
           [records[op] EXCEPT !.state = "runtime_verification",
                               !.resulting = target.version + 1]]
    /\ UNCHANGED <<executors, effects, running>>

Promoted(op) == [ClearPending(op) EXCEPT !.current = target.pending]

\* complete_runtime_verification with evidence of this operation and the target's version
CompleteVerification(op) ==
    /\ Known(op)
    /\ records[op].state = "runtime_verification"
    /\ target.unresolved = op
    /\ target.pending = records[op].content
    /\ running = records[op].content
    /\ target' = Promoted(op)
    /\ records' = WithState(op, "completed")
    /\ UNCHANGED <<executors, effects, running>>

ReleaseNext ==
    \E op \in Operations :
        \/ \E content \in ReleaseContents, expected \in 0 .. target.version :
              CreateOperation(op, content, expected)
        \/ ExecutorActs(op) \/ ExecutorFenced(op)
        \/ ObserveNothing(op) \/ ObserveAbsent(op) \/ ObserveConfirmed(op)
        \/ CompleteVerification(op)

ReleaseSpec == ReleaseInit /\ [][ReleaseNext]_releaseVars

-----------------------------------------------------------------------------
\* The target and its records have their types.
ReleaseTypeOK ==
    /\ target \in TargetStates
    /\ records \in [Operations -> DeploymentRecords \cup {None}]
    /\ executors \subseteq Operations /\ effects \subseteq Operations
    /\ running \in ReleaseContents \cup {None}

\* An operation that is not settled owns the target: a new operation id does not get past
\* an unresolved one (RLV-048).
UnresolvedOwnsTarget ==
    \A op \in Operations :
        Known(op) /\ records[op].state \notin Terminal <=> target.unresolved = op

\* What the target runs is known: between operations it runs the current content, and
\* nothing an aborted or lost operation left there.
RunningIsCurrent == target.unresolved = None => running = target.current

\* A version names one deployment, and the target's is the latest (RLV-047).
VersionNamesOneDeployment ==
    \A op \in Operations : Known(op) /\ records[op].resulting # None =>
        /\ records[op].resulting <= target.version
        /\ \A other \in Operations :
              Known(other) /\ records[other].resulting = records[op].resulting => other = op

\* The requirements fixed at admission still fit when the effect is confirmed, however
\* late: no operation is left with an effect its confirmation is refused for.
ConfirmationNeverRefused ==
    \A op \in Operations : Known(op) /\ records[op].state \in Unconfirmed =>
        records[op].required = target.version + 1

\* An aborted operation has had no effect and will have none.
AbortedHasNoEffect ==
    \A op \in Operations : Known(op) /\ records[op].state = "aborted" =>
        op \notin effects /\ op \notin executors

\* The target environment changes under the operation that owns the target.
EffectUnderOwnership ==
    [][\A op \in Operations : op \in effects' \ effects => target.unresolved = op]_releaseVars
=============================================================================
