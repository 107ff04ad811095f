---------------------------- MODULE PollRecovery ----------------------------
(***************************************************************************)
(* Polls of a source across relocation and restore                         *)
(* (sql/d2-open-rel-030/003_tier1_recovery_authority.sql).                 *)
(*                                                                         *)
(* claim_next_poll locks the placement, the recovery admission and the     *)
(* poll authority before it decides, so it is one step.  The poll          *)
(* authority and the claims are part of what a restore takes back; the     *)
(* placement and the recovery admission are not.  Those who fence, move    *)
(* and restore are external, as the script does it: a relocation fences    *)
(* the placement first and then admits the next version, a restore comes   *)
(* with the next recovery generation, fenced until it is reconciled.       *)
(***************************************************************************)
EXTENDS Absent, Naturals, Sequences, SequencesExt

CONSTANTS
    Cells,                  \* cell_id
    MaxPlacement,           \* bound on placement_version
    MaxRecoveries,          \* bound on recovery_generation
    MaxPolls                \* bound on the claims granted

VARIABLES
    placement,              \* placement_authority
    recovery,               \* recovery_admission
    pollAuthority,          \* poll_authority, None before the first claim
    pollClaims,             \* poll_claim
    image,                  \* the poll tables as a backup holds them
    granted                 \* the claims that were handed out, for ever

pollVars == <<placement, recovery, pollAuthority, pollClaims, image, granted>>

PollInit ==
    /\ placement \in [version : {1}, cell : Cells, admitted : {TRUE}]
    /\ recovery = [generation |-> 1, reconciled |-> TRUE, admitted |-> TRUE]
    /\ pollAuthority = None
    /\ pollClaims = {}
    /\ image = [authority |-> None, claims |-> {}]
    /\ granted = <<>>

PollsAdmitted == placement.admitted /\ recovery.admitted /\ recovery.reconciled

\* The authority is of this placement and of this recovery.
Continues(authority) ==
    /\ authority.version = placement.version /\ authority.cell = placement.cell
    /\ authority.recovery = recovery.generation

\* What the next claim is: the first, the next of the epoch, or the first of the next epoch.
NextClaim ==
    [version |-> placement.version, cell |-> placement.cell, recovery |-> recovery.generation,
     epoch |-> IF pollAuthority = None THEN 1
               ELSE IF Continues(pollAuthority) THEN pollAuthority.epoch
               ELSE pollAuthority.epoch + 1,
     generation |-> IF pollAuthority # None /\ Continues(pollAuthority)
                    THEN pollAuthority.generation + 1 ELSE 1]

\* claim_next_poll, by a poller that knows the placement and the recovery generation.
ClaimNextPoll ==
    /\ PollsAdmitted
    /\ Len(granted) < MaxPolls
    /\ pollAuthority' = NextClaim
    /\ pollClaims' = pollClaims \cup {NextClaim}
    /\ granted' = Append(granted, NextClaim)
    /\ UNCHANGED <<placement, recovery, image>>

\* Mutant form: the recovery generation of a claim is not compared.
CurrentInPlacement(claim) ==
    /\ claim \in pollClaims /\ pollAuthority = claim /\ PollsAdmitted
    /\ claim.version = placement.version /\ claim.cell = placement.cell

\* poll_claim_is_current
ClaimIsCurrent(claim) ==
    /\ claim \in pollClaims /\ pollAuthority = claim /\ PollsAdmitted
    /\ Continues(claim)

-----------------------------------------------------------------------------
(* The operators of the cells *)

FencePlacement ==
    /\ placement.admitted
    /\ placement' = [placement EXCEPT !.admitted = FALSE]
    /\ UNCHANGED <<recovery, pollAuthority, pollClaims, image, granted>>

Relocate(cell) ==
    /\ ~placement.admitted
    /\ placement.version < MaxPlacement
    /\ placement' = [version |-> placement.version + 1, cell |-> cell, admitted |-> TRUE]
    /\ UNCHANGED <<recovery, pollAuthority, pollClaims, image, granted>>

\* A backup of the tenant's database.
TakeImage ==
    /\ image' = [authority |-> pollAuthority, claims |-> pollClaims]
    /\ UNCHANGED <<placement, recovery, pollAuthority, pollClaims, granted>>

\* The database goes back to the backup, under a recovery generation of its own.
RestorePolls ==
    /\ recovery.generation < MaxRecoveries
    /\ recovery' = [generation |-> recovery.generation + 1, reconciled |-> FALSE,
                    admitted |-> FALSE]
    /\ pollAuthority' = image.authority
    /\ pollClaims' = image.claims
    /\ UNCHANGED <<placement, image, granted>>

\* Reconciled through the fence, and admitted.
AdmitRecovery ==
    /\ ~recovery.admitted
    /\ recovery' = [recovery EXCEPT !.reconciled = TRUE, !.admitted = TRUE]
    /\ UNCHANGED <<placement, pollAuthority, pollClaims, image, granted>>

-----------------------------------------------------------------------------

PollNext ==
    \/ ClaimNextPoll
    \/ FencePlacement
    \/ \E cell \in Cells : Relocate(cell)
    \/ TakeImage \/ RestorePolls \/ AdmitRecovery

PollSpec == PollInit /\ [][PollNext]_pollVars

-----------------------------------------------------------------------------

Claims ==
    [version : 1 .. MaxPlacement, cell : Cells, recovery : 1 .. MaxRecoveries,
     epoch : 1 .. MaxPolls, generation : 1 .. MaxPolls]

PollTypeOK ==
    /\ placement \in [version : 1 .. MaxPlacement, cell : Cells, admitted : BOOLEAN]
    /\ recovery \in [generation : 1 .. MaxRecoveries, reconciled : BOOLEAN, admitted : BOOLEAN]
    /\ pollAuthority \in Claims \cup {None}
    /\ pollClaims \subseteq Claims
    /\ granted \in Seq(Claims)

\* Of all the claims ever handed out only the latest can be current, however the cells were
\* moved and restored since: what a restore brings back is not current any more, and neither
\* is what it forgot.
OnlyLatestIsCurrent ==
    \A i \in 1 .. Len(granted) : ClaimIsCurrent(granted[i]) => granted[i] = Last(granted)
=============================================================================
