-------------------------- MODULE TenantAdmission --------------------------
(***************************************************************************)
(* Admission of a protected operation                                      *)
(* (src/jlmirror_authority/control_plane.py, src/jlmirror_g1/authority.py).*)
(*                                                                         *)
(* An admission asks several authorities one after another, each a process *)
(* of its own that moves between the questions, builds a context from what *)
(* it heard, and at last asks one authority for a decision that covers all *)
(* of them at one moment, which it compares with what it was told before.  *)
(* A check that fails denies the operation.                                *)
(*                                                                         *)
(* The authorities are external.  A generation never comes back; whether   *)
(* a placement is admissible, a policy grants and a runtime is active may  *)
(* change back and forth.  Every question before the last is asked for the *)
(* moment the operation came, so what lapses meanwhile is not noticed by   *)
(* them.  Evidence that is malformed or of another subject is left out.    *)
(***************************************************************************)
EXTENDS Absent, Naturals, Sequences

CONSTANTS
    Dimensions,             \* the generations a placement is made of
    MaxGeneration           \* bound on every generation

ASSUME AdmissionConstants ==
    /\ MaxGeneration \in Nat \ {0}
    /\ None \notin {"admitted", "denied"}

AdmittedGenerations == 1 .. MaxGeneration

VARIABLES
    tenantPlacement,        \* PlacementEvidence of the tenant
    credential,             \* the session or credential of the principal
    grants,                 \* AuthorizationDecision.granted
    strength,               \* version of the strength policy
    lapsed,                 \* the session or the strength evidence has run out
    runtime,                \* RuntimeExecutionEvidence
    operation,              \* the admission under way
    held                    \* whether all it relies on held at one moment since it came

authorities == <<tenantPlacement, credential, grants, strength, lapsed, runtime>>
admissionVars == <<authorities, operation, held>>

Placements == [generation : [Dimensions -> AdmittedGenerations], admissible : BOOLEAN]
Runtimes == [generation : AdmittedGenerations, active : BOOLEAN]

\* The questions before the final one.  A tenant operation builds its context first
\* (require_current, construct_tenant_context), then authorizes.
Checks == [
    tenant |-> <<"destination", "principal", "construct", "principal",
                 "principal", "context", "placement", "strength", "principal", "policy",
                 "context", "placement", "strength", "principal", "policy">>,
    crossTenant |-> <<"principal", "runtime", "strength", "principal", "policy",
                      "strength", "principal", "runtime", "policy">>]

AdmissionInit ==
    /\ tenantPlacement = [generation |-> [d \in Dimensions |-> 1], admissible |-> TRUE]
    /\ credential = [generation |-> 1, live |-> TRUE]
    /\ grants \in BOOLEAN
    /\ strength = 1
    /\ lapsed = FALSE
    /\ runtime = [generation |-> 1, active |-> TRUE]
    /\ operation \in [kind : DOMAIN Checks, at : {1}, principal : {1}, strength : {1},
                      destination : {None}, context : {None}, runtime : {None},
                      evidence : {None}, answer : {None}]
    /\ held = grants

-----------------------------------------------------------------------------
(* The serial narrowing *)

Asking == IF operation.answer = None /\ operation.at <= Len(Checks[operation.kind])
          THEN Checks[operation.kind][operation.at] ELSE None

\* _require_current_principal
PrincipalIsCurrent == credential.live /\ credential.generation = operation.principal

\* _placement_matches_context, and context_is_current
PlacementMatches(generation) ==
    tenantPlacement.admissible /\ tenantPlacement.generation = generation

\* What the authority that is asked has to answer for the operation to go on.
Passes ==
    CASE Asking = "destination" -> TRUE
      [] Asking = "principal" -> PrincipalIsCurrent
      [] Asking = "construct" -> PlacementMatches(operation.destination)
      [] Asking \in {"context", "placement"} -> PlacementMatches(operation.context)
      [] Asking = "strength" -> strength = operation.strength
      [] Asking = "policy" -> grants
      [] Asking = "runtime" -> runtime.active

\* What the operation keeps of the answer.
Narrow ==
    /\ Asking # None /\ Passes
    /\ operation' =
          [operation EXCEPT
              !.at = @ + 1,
              !.destination = IF Asking = "destination" THEN tenantPlacement.generation ELSE @,
              !.context = IF Asking = "construct" THEN tenantPlacement.generation ELSE @,
              !.runtime = IF Asking = "runtime" THEN runtime.generation ELSE @]
    /\ UNCHANGED authorities

Deny ==
    /\ Asking # None /\ ~Passes
    /\ operation' = [operation EXCEPT !.answer = "denied"]
    /\ UNCHANGED authorities

-----------------------------------------------------------------------------
(* The final decision *)

\* finalize_current_admission: a snapshot of all authorities, by their own clock.
Finalize ==
    /\ operation.answer = None /\ operation.evidence = None
    /\ operation.at > Len(Checks[operation.kind])
    /\ operation' =
          [operation EXCEPT
              !.evidence = [granted |-> grants,
                            current |-> credential.live /\ ~lapsed /\ runtime.active
                                        /\ (operation.context = None \/ tenantPlacement.admissible),
                            principal |-> credential.generation,
                            placement |-> tenantPlacement.generation,
                            strength |-> strength,
                            runtime |-> runtime.generation]]
    /\ UNCHANGED authorities

\* Mutant form: the evidence is current, whatever it is of.
IsCurrentEvidence(evidence) == evidence.granted /\ evidence.current

\* _finalize_current_admission: the evidence is of what the operation was told.
MatchesOperation(evidence) ==
    /\ evidence.granted /\ evidence.current
    /\ evidence.principal = operation.principal
    /\ operation.context # None => evidence.placement = operation.context
    /\ evidence.strength = operation.strength
    /\ operation.runtime # None => evidence.runtime = operation.runtime

Conclude ==
    /\ operation.answer = None /\ operation.evidence # None
    /\ operation' = [operation EXCEPT
                        !.answer = IF MatchesOperation(operation.evidence)
                                   THEN "admitted" ELSE "denied"]
    /\ UNCHANGED authorities

-----------------------------------------------------------------------------
(* The authorities *)

\* A relocation, or a new generation of one part of the runtime.
MovePlacement(d) ==
    /\ tenantPlacement.generation[d] < MaxGeneration
    /\ tenantPlacement' = [tenantPlacement EXCEPT !.generation[d] = @ + 1]
    /\ UNCHANGED <<credential, grants, strength, lapsed, runtime>>

TurnPlacement ==
    /\ tenantPlacement' = [tenantPlacement EXCEPT !.admissible = ~@]
    /\ UNCHANGED <<credential, grants, strength, lapsed, runtime>>

RotateCredential ==
    /\ credential.generation < MaxGeneration
    /\ credential' = [credential EXCEPT !.generation = @ + 1]
    /\ UNCHANGED <<tenantPlacement, grants, strength, lapsed, runtime>>

RevokeCredential ==
    /\ credential.live
    /\ credential' = [credential EXCEPT !.live = FALSE]
    /\ UNCHANGED <<tenantPlacement, grants, strength, lapsed, runtime>>

ChangePolicy ==
    /\ grants' = ~grants
    /\ UNCHANGED <<tenantPlacement, credential, strength, lapsed, runtime>>

ChangeStrengthPolicy ==
    /\ strength < MaxGeneration
    /\ strength' = strength + 1
    /\ UNCHANGED <<tenantPlacement, credential, grants, lapsed, runtime>>

EvidenceLapses ==
    /\ ~lapsed
    /\ lapsed' = TRUE
    /\ UNCHANGED <<tenantPlacement, credential, grants, strength, runtime>>

RestartRuntime ==
    /\ runtime.generation < MaxGeneration
    /\ runtime' = [runtime EXCEPT !.generation = @ + 1]
    /\ UNCHANGED <<tenantPlacement, credential, grants, strength, lapsed>>

TurnRuntime ==
    /\ runtime' = [runtime EXCEPT !.active = ~@]
    /\ UNCHANGED <<tenantPlacement, credential, grants, strength, lapsed>>

AuthorityMoves ==
    /\ UNCHANGED operation
    /\ \/ \E d \in Dimensions : MovePlacement(d)
       \/ TurnPlacement
       \/ RotateCredential \/ RevokeCredential
       \/ ChangePolicy \/ ChangeStrengthPolicy
       \/ EvidenceLapses
       \/ RestartRuntime \/ TurnRuntime

-----------------------------------------------------------------------------

\* All the operation relies on, of what it was told so far, holds now.
AllHolds ==
    /\ PrincipalIsCurrent /\ ~lapsed
    /\ operation.context # None => PlacementMatches(operation.context)
    /\ grants
    /\ strength = operation.strength
    /\ runtime.active
    /\ operation.runtime # None => runtime.generation = operation.runtime

\* The operation is answered once.
AdmissionNext ==
    /\ operation.answer = None
    /\ Narrow \/ Deny \/ Finalize \/ Conclude \/ AuthorityMoves
    /\ held' = (AllHolds' \/ (held /\ operation'.context = operation.context
                                   /\ operation'.runtime = operation.runtime))

AdmissionSpec == AdmissionInit /\ [][AdmissionNext]_admissionVars

-----------------------------------------------------------------------------

AdmissionTypeOK ==
    /\ tenantPlacement \in Placements /\ runtime \in Runtimes
    /\ credential \in [generation : AdmittedGenerations, live : BOOLEAN]
    /\ grants \in BOOLEAN /\ lapsed \in BOOLEAN /\ held \in BOOLEAN
    /\ strength \in AdmittedGenerations
    /\ operation.kind \in DOMAIN Checks
    /\ operation.at \in 1 .. Len(Checks[operation.kind]) + 1
    /\ operation.answer \in {None, "admitted", "denied"}

\* An operation that is admitted had everything it relies on at one moment: the principal, the
\* placement its context was built from, the policy, the strength and the runtime.  The checks
\* one after another do not establish that, however often they are repeated, since each of
\* them may hold only when it is asked.
AdmittedAtOneMoment == operation.answer = "admitted" => held
=============================================================================
