-------------------------- MODULE AuthorityProofs ---------------------------
(***************************************************************************)
(* Proofs about the fence authority, about polls across relocation and     *)
(* restore, about the admission of an operation, the revocation of a       *)
(* cached authority and the completeness of a history, for any scopes,     *)
(* callers, generations, states, dimensions, replicas, rows and bounds.    *)
(*                                                                         *)
(* OneHolderPerEpoch becomes inductive with TokensBehind: no token is      *)
(* ahead of its row, so the epoch an advance grants is new to every token. *)
(* Only the latest poll is current as what was claimed before it is behind *)
(* it in recovery generation or in poll generation (GrantsInOrder,         *)
(* LatestIsAuthority). What an operation was admitted on held at one       *)
(* moment, that of the last decision, whose evidence covers all of it      *)
(* (EvidenceWasHeld). A revoked authority is not admitted again as its     *)
(* scope then is excluded, or later than every entry                       *)
(* (EntriesFollowTheSource). A complete history has accepted what the      *)
(* provider has as each run of the present still agrees with it            *)
(* (SweptAgrees). What was consumed stays consumed across a restore as the *)
(* sealed witness and the table together miss nothing (NothingIsForgotten);*)
(* an effect stays accounted for as each row also accounts for whatever a  *)
(* claim could still send, and a sealed witness has every effect as none   *)
(* can be added before the rows are rebuilt from it (EffectsAreKnown).     *)
(***************************************************************************)
EXTENDS FenceAuthority, PollRecovery, TenantAdmission, CacheAuthority, HistoryReconciliation,
        ReplayRecovery, Integers, SequenceTheorems, FiniteSetTheorems,
        WellFoundedInduction, TLAPS

-----------------------------------------------------------------------------
(* The fence authority *)

\* Every token belongs to a scope that has a row, and is not ahead of it.
TokensBehind ==
    \A t \in tokens : /\ fences[t.fence_scope_id] # None
                      /\ t.fence_epoch <= fences[t.fence_scope_id].current_fence_epoch

IInv == FenceTypeOK /\ TokensBehind /\ OneHolderPerEpoch

-----------------------------------------------------------------------------
\* There are no rows, calls and tokens at first.
LEMMA InitIInv == FenceInit => IInv
  BY FenceConstants DEF FenceInit, IInv, FenceTypeOK, TokensBehind, OneHolderPerEpoch

\* What a first row or an advance does, to the row and to the tokens: the new epoch
\* exceeds every token of the scope.
LEMMA GrantPreserves ==
    ASSUME IInv, NEW s \in Scopes, NEW row \in FenceRecords,
           NEW t \in FenceTokens, t.fence_scope_id = s,
           t.fence_epoch = row.current_fence_epoch,
           row.current_fence_epoch = EpochOf(s) + 1,
           fences' = [fences EXCEPT ![s] = row],
           tokens' = tokens \cup {t} \/ tokens' = tokens,
           calls' \in [Callers -> AcquireCalls \cup {None}],
           UNCHANGED applied
    PROVE  IInv'
<1>1. FenceTypeOK'
  BY DEF IInv, FenceTypeOK
<1>2. row # None
  BY FenceConstants
<1>3. /\ fences'[s] = row
      /\ \A r \in Scopes : r # s => fences'[r] = fences[r]
  BY DEF IInv, FenceTypeOK
<1>4. \A u \in tokens : /\ u \in FenceTokens
                        /\ u.fence_scope_id \in Scopes
                        /\ u.fence_epoch \in Epochs
  BY DEF IInv, FenceTypeOK, FenceTokens
<1>5. \A u \in tokens : u.fence_scope_id = s => u.fence_epoch < row.current_fence_epoch
  <2> SUFFICES ASSUME NEW u \in tokens, u.fence_scope_id = s
               PROVE  u.fence_epoch < row.current_fence_epoch
    OBVIOUS
  <2>1. fences[s] # None /\ u.fence_epoch <= fences[s].current_fence_epoch
    BY DEF IInv, TokensBehind
  <2>2. fences[s].current_fence_epoch \in Nat /\ u.fence_epoch \in Nat
    BY <2>1, <1>4 DEF IInv, FenceTypeOK, FenceRecords, Epochs
  <2> QED  BY <2>1, <2>2 DEF EpochOf
<1>6. TokensBehind'
  <2> SUFFICES ASSUME NEW u \in tokens'
               PROVE  /\ fences'[u.fence_scope_id] # None
                      /\ u.fence_epoch <= fences'[u.fence_scope_id].current_fence_epoch
    BY DEF TokensBehind
  <2>1. CASE u = t
    BY <2>1, <1>2, <1>3 DEF FenceRecords, Epochs
  <2>2. CASE u \in tokens /\ u.fence_scope_id = s
    BY <2>2, <1>2, <1>3, <1>4, <1>5 DEF FenceRecords, Epochs
  <2>3. CASE u \in tokens /\ u.fence_scope_id # s
    BY <2>3, <1>3, <1>4 DEF IInv, TokensBehind
  <2> QED  BY <2>1, <2>2, <2>3
<1>7. OneHolderPerEpoch'
  <2> SUFFICES ASSUME NEW u \in tokens', NEW v \in tokens',
                      u.fence_scope_id = v.fence_scope_id, u.fence_epoch = v.fence_epoch
               PROVE  u = v
    BY DEF OneHolderPerEpoch
  <2>1. CASE u \in tokens /\ v \in tokens
    BY <2>1 DEF IInv, OneHolderPerEpoch
  <2>2. CASE u = t \/ v = t
    <3>1. \A w \in tokens : w.fence_scope_id = s => w.fence_epoch # t.fence_epoch
      BY <1>4, <1>5 DEF FenceRecords, Epochs
    <3> QED  BY <2>2, <3>1
  <2> QED  BY <2>1, <2>2
<1> QED  BY <1>1, <1>6, <1>7 DEF IInv

\* initialize_authority_fence grants epoch 1 of a scope that has no row.
LEMMA InitializeGrants ==
    ASSUME IInv, NEW c \in Callers, NEW s \in Scopes, NEW g \in Generations,
           NEW state \in States, InitializeFence(c, s, g, state)
    PROVE  /\ IInv'
           /\ EpochOf(s) = 0 /\ UNCHANGED applied
           /\ \E row \in FenceRecords : /\ fences' = [fences EXCEPT ![s] = row]
                                        /\ row.current_fence_epoch = 1
<1> DEFINE row == [current_fence_epoch |-> 1, current_generation_id |-> g,
                   authority_state |-> state]
           t == FenceToken(c, s, 1, g)
<1>1. /\ fences[s] = None /\ fences' = [fences EXCEPT ![s] = row]
      /\ tokens' = tokens \cup {t} /\ UNCHANGED <<calls, applied>>
  BY DEF InitializeFence
<1>2. row \in FenceRecords /\ row.current_fence_epoch = 1
  BY FenceConstants DEF FenceRecords, Epochs
<1>3. t \in FenceTokens /\ t.fence_scope_id = s /\ t.fence_epoch = 1
  BY FenceConstants DEF FenceTokens, FenceToken, Epochs
<1>4. EpochOf(s) = 0
  BY <1>1 DEF EpochOf
<1>5. calls' \in [Callers -> AcquireCalls \cup {None}]
  BY <1>1 DEF IInv, FenceTypeOK
<1>6. t.fence_epoch = row.current_fence_epoch /\ row.current_fence_epoch = EpochOf(s) + 1
  BY <1>2, <1>3, <1>4
<1> HIDE DEF row, t
<1>7. IInv'
  BY <1>1, <1>2, <1>3, <1>5, <1>6, GrantPreserves
<1> QED  BY <1>1, <1>2, <1>4, <1>7

\* An advance grants the next epoch, or grants nothing.
LEMMA AdvanceGrants ==
    ASSUME IInv, NEW c \in Callers, NEW answered \in BOOLEAN, AdvanceFence(c, answered)
    PROVE  /\ IInv'
           /\ UNCHANGED applied
           /\ \/ UNCHANGED fences
              \/ \E s \in Scopes, row \in FenceRecords :
                    /\ fences[s] # None
                    /\ EffectEligible(fences[s])
                    /\ fences' = [fences EXCEPT ![s] = row]
                    /\ row.current_fence_epoch = EpochOf(s) + 1
<1> DEFINE call == calls[c]
           s == call.fence_scope_id
           e == call.expected_predecessor_epoch + 1
           g == call.successor_generation_id
           row == [current_fence_epoch |-> e, current_generation_id |-> g,
                   authority_state |-> call.successor_state]
           t == FenceToken(c, s, e, g)
<1>1. /\ call \in AcquireCalls
      /\ calls' = [calls EXCEPT ![c] = None]
      /\ UNCHANGED applied
  BY DEF AdvanceFence, IInv, FenceTypeOK
<1>2. calls' \in [Callers -> AcquireCalls \cup {None}]
  BY <1>1 DEF IInv, FenceTypeOK
<1>3. CASE ~ PredecessorIsCurrent(call)
  <2>1. UNCHANGED <<fences, tokens>>
    BY <1>3 DEF AdvanceFence
  <2> QED  BY <2>1, <1>1, <1>2 DEF IInv, FenceTypeOK, TokensBehind, OneHolderPerEpoch
<1>4. CASE PredecessorIsCurrent(call)
  <2>1. /\ fences' = [fences EXCEPT ![s] = row]
        /\ tokens' = tokens \cup {t} \/ tokens' = tokens
    BY <1>4 DEF AdvanceFence
  <2>2. /\ s \in Scopes /\ call.expected_predecessor_epoch \in Epochs
        /\ g \in Generations /\ call.successor_state \in States
    BY <1>1 DEF AcquireCalls
  <2>3. /\ fences[s] # None /\ EffectEligible(fences[s])
        /\ fences[s].current_fence_epoch = call.expected_predecessor_epoch
        /\ call.expected_predecessor_epoch < MaxEpoch
    BY <1>4 DEF PredecessorIsCurrent, SuccessorExists
  <2>4. e \in Epochs /\ e = EpochOf(s) + 1
    BY <2>2, <2>3, FenceConstants DEF Epochs, EpochOf
  <2>5. row \in FenceRecords /\ row.current_fence_epoch = e
    BY <2>2, <2>4 DEF FenceRecords
  <2>6. t \in FenceTokens /\ t.fence_scope_id = s /\ t.fence_epoch = e
    BY <2>2, <2>4 DEF FenceTokens, FenceToken
  <2> HIDE DEF row, t, s, e, g, call
  <2>7. IInv'
    BY <1>1, <1>2, <2>1, <2>2, <2>4, <2>5, <2>6, GrantPreserves
  <2> QED  BY <1>1, <2>1, <2>2, <2>3, <2>4, <2>5, <2>7
<1> QED  BY <1>3, <1>4

\* An admission runs its effect under the scope's current epoch, and changes nothing else.
LEMMA AdmitApplies ==
    ASSUME IInv, NEW t \in tokens, AdmitFencedEffect(t)
    PROVE  /\ IInv'
           /\ UNCHANGED fences
           /\ t.fence_scope_id \in Scopes
           /\ fences[t.fence_scope_id] # None
           /\ EffectEligible(fences[t.fence_scope_id])
           /\ EpochOf(t.fence_scope_id) \in Epochs
           /\ applied' = [applied EXCEPT ![t.fence_scope_id] = EpochOf(t.fence_scope_id)]
<1>1. /\ t.fence_scope_id \in Scopes /\ t.fence_epoch \in Epochs
  BY DEF IInv, FenceTypeOK, FenceTokens
<1>2. /\ fences[t.fence_scope_id] # None
      /\ EffectEligible(fences[t.fence_scope_id])
      /\ EpochOf(t.fence_scope_id) = t.fence_epoch
  BY DEF AdmitFencedEffect, TokenIsCurrent, EpochOf
<1>3. /\ applied' = [applied EXCEPT ![t.fence_scope_id] = t.fence_epoch]
      /\ UNCHANGED <<fences, calls, tokens>>
  BY DEF AdmitFencedEffect
<1>4. applied' \in [Scopes -> 0 .. MaxEpoch]
  BY <1>1, <1>3, FenceConstants DEF IInv, FenceTypeOK, Epochs
<1> QED  BY <1>1, <1>2, <1>3, <1>4 DEF IInv, FenceTypeOK, TokensBehind, OneHolderPerEpoch

\* A read leaves everything but the caller's own call.
LEMMA ObserveReads ==
    ASSUME IInv, ObserveSome
    PROVE  IInv' /\ UNCHANGED <<fences, applied>>
<1>1. PICK c \in Callers, s \in Scopes, e \in Epochs, successor \in Generations,
           state \in States :
           \E expected \in Generations \cup {None} :
               ObservePredecessor(c, s, e, expected, successor, state)
  BY DEF ObserveSome
<1> DEFINE call == [fence_scope_id |-> s, expected_predecessor_epoch |-> e,
                    expected_predecessor_generation_id |-> fences[s].current_generation_id,
                    successor_generation_id |-> successor, successor_state |-> state]
<1>2. /\ fences[s] # None /\ calls' = [calls EXCEPT ![c] = call]
      /\ UNCHANGED <<fences, tokens, applied>>
  BY <1>1 DEF ObservePredecessor
<1>3. fences[s].current_generation_id \in Generations
  BY <1>2 DEF IInv, FenceTypeOK, FenceRecords
<1>4. call \in AcquireCalls
  BY <1>3 DEF AcquireCalls
<1> HIDE DEF call
<1>5. calls' \in [Callers -> AcquireCalls \cup {None}]
  BY <1>2, <1>4 DEF IInv, FenceTypeOK
<1> QED  BY <1>2, <1>5 DEF IInv, FenceTypeOK, TokensBehind, OneHolderPerEpoch

\* Every step preserves the invariant.
LEMMA NextIInv == IInv /\ [FenceNext]_fenceVars => IInv'
<1> SUFFICES ASSUME IInv, [FenceNext]_fenceVars PROVE IInv'
  OBVIOUS
<1>1. CASE InitializeSome
  BY <1>1, InitializeGrants DEF InitializeSome
<1>2. CASE ObserveSome
  BY <1>2, ObserveReads
<1>3. CASE AdvanceSome
  BY <1>3, AdvanceGrants DEF AdvanceSome
<1>4. CASE AdmitSome
  BY <1>4, AdmitApplies DEF AdmitSome
<1>5. CASE UNCHANGED fenceVars
  BY <1>5 DEF fenceVars, IInv, FenceTypeOK, TokensBehind, OneHolderPerEpoch
<1> QED  BY <1>1, <1>2, <1>3, <1>4, <1>5 DEF FenceNext

\* The invariant holds on every behaviour.
LEMMA FenceInvariant == FenceSpec => []IInv
  BY InitIInv, NextIInv, PTL DEF FenceSpec

-----------------------------------------------------------------------------
\* Type correctness: no epoch leaves the range of a positive signed BIGINT.
THEOREM FenceTypeCorrect == FenceSpec => []FenceTypeOK
<1>1. IInv => FenceTypeOK
  BY DEF IInv
<1> QED  BY <1>1, FenceInvariant, PTL

\* Of all callers racing for an epoch at most one gets a token for it.
THEOREM FenceOneHolderPerEpoch == FenceSpec => []OneHolderPerEpoch
<1>1. IInv => OneHolderPerEpoch
  BY DEF IInv
<1> QED  BY <1>1, FenceInvariant, PTL

\* How any step changes one row and the epoch of its last effect.
LEMMA RowStep ==
    ASSUME IInv, [FenceNext]_fenceVars, NEW r \in Scopes
    PROVE  /\ fences[r] # None =>
                 \/ fences'[r] = fences[r]
                 \/ /\ fences'[r] # None
                    /\ fences'[r].current_fence_epoch = fences[r].current_fence_epoch + 1
           /\ fences[r] # None /\ ~ EffectEligible(fences[r])
                 => fences'[r] = fences[r] /\ applied'[r] = applied[r]
<1>1. CASE InitializeSome
  <2>1. PICK c \in Callers, s \in Scopes, g \in Generations, state \in States :
             InitializeFence(c, s, g, state)
    BY <1>1 DEF InitializeSome
  <2> QED  BY <2>1 DEF InitializeFence, IInv, FenceTypeOK
<1>2. CASE ObserveSome
  BY <1>2, ObserveReads
<1>3. CASE AdvanceSome
  <2>1. PICK c \in Callers, answered \in BOOLEAN : AdvanceFence(c, answered)
    BY <1>3 DEF AdvanceSome
  <2>2. CASE UNCHANGED fences
    BY <2>1, <2>2, AdvanceGrants
  <2>3. CASE ~ UNCHANGED fences
    <3>1. PICK s \in Scopes, row \in FenceRecords :
              /\ fences[s] # None /\ EffectEligible(fences[s])
              /\ fences' = [fences EXCEPT ![s] = row]
              /\ row.current_fence_epoch = EpochOf(s) + 1
      BY <2>1, <2>3, AdvanceGrants
    <3>2. UNCHANGED applied
      BY <2>1, AdvanceGrants
    <3>3. row # None
      BY FenceConstants
    <3> QED  BY <3>1, <3>2, <3>3 DEF IInv, FenceTypeOK, EpochOf
  <2> QED  BY <2>2, <2>3
<1>4. CASE AdmitSome
  <2>1. PICK t \in tokens : AdmitFencedEffect(t)
    BY <1>4 DEF AdmitSome
  <2> QED  BY <2>1, AdmitApplies DEF IInv, FenceTypeOK
<1>5. CASE UNCHANGED fenceVars
  BY <1>5 DEF fenceVars
<1> QED  BY <1>1, <1>2, <1>3, <1>4, <1>5 DEF FenceNext

\* No row is removed, reset or rewritten under its epoch.
THEOREM FenceEpochNeverReset == FenceSpec => EpochNeverReset
<1>1. IInv /\ [FenceNext]_fenceVars =>
        [\A s \in Scopes : fences[s] # None =>
            \/ fences'[s] = fences[s]
            \/ /\ fences'[s] # None
               /\ fences'[s].current_fence_epoch = fences[s].current_fence_epoch + 1]_fenceVars
  BY RowStep
<1> QED  BY <1>1, FenceInvariant, PTL DEF FenceSpec, EpochNeverReset

\* Nothing brings a scope back from a state other than active.
THEOREM FenceInactiveIsTerminal == FenceSpec => InactiveIsTerminal
<1>1. IInv /\ [FenceNext]_fenceVars =>
        [\A s \in Scopes :
            fences[s] # None /\ fences[s].authority_state # "active"
                => fences'[s] = fences[s] /\ applied'[s] = applied[s]]_fenceVars
  BY RowStep DEF EffectEligible
<1> QED  BY <1>1, FenceInvariant, PTL DEF FenceSpec, InactiveIsTerminal

-----------------------------------------------------------------------------
(* Refinement: the epochs of the rows are the granted epochs.              *)

\* An absent row maps to no grant.
LEMMA InitMaps == FenceInit => Promise!FencedInit
  BY DEF FenceInit, Promise!FencedInit, EpochOf

\* Writing a row with the next epoch is a grant.
LEMMA GrantMaps ==
    ASSUME IInv, NEW s \in Scopes, NEW row \in FenceRecords,
           fences' = [fences EXCEPT ![s] = row],
           row.current_fence_epoch = EpochOf(s) + 1,
           UNCHANGED applied
    PROVE  Promise!Grant(s)
<1>1. row # None
  BY FenceConstants
<1>2. \A r \in Scopes : EpochOf(r)' = IF r = s THEN EpochOf(s) + 1 ELSE EpochOf(r)
  BY <1>1 DEF EpochOf, IInv, FenceTypeOK
<1> QED  BY <1>2 DEF Promise!Grant

\* Every step is a grant, an effect under the latest grant, or a stutter.
LEMMA StepMaps == IInv /\ [FenceNext]_fenceVars => [Promise!FencedNext]_Promise!fencedVars
<1> SUFFICES ASSUME IInv, [FenceNext]_fenceVars
             PROVE  Promise!FencedNext \/ UNCHANGED <<fences, applied>>
  BY DEF Promise!fencedVars, EpochOf
<1>1. CASE InitializeSome
  <2>1. PICK c \in Callers, s \in Scopes, g \in Generations, state \in States :
             InitializeFence(c, s, g, state)
    BY <1>1 DEF InitializeSome
  <2>2. Promise!Grant(s)
    BY <2>1, InitializeGrants, GrantMaps
  <2> QED  BY <2>2 DEF Promise!FencedNext
<1>2. CASE ObserveSome
  BY <1>2, ObserveReads
<1>3. CASE AdvanceSome
  <2>1. PICK c \in Callers, answered \in BOOLEAN : AdvanceFence(c, answered)
    BY <1>3 DEF AdvanceSome
  <2>2. CASE UNCHANGED fences
    BY <2>1, <2>2, AdvanceGrants
  <2>3. CASE ~ UNCHANGED fences
    <3>1. PICK s \in Scopes : Promise!Grant(s)
      BY <2>1, <2>3, AdvanceGrants, GrantMaps
    <3> QED  BY <3>1 DEF Promise!FencedNext
  <2> QED  BY <2>2, <2>3
<1>4. CASE AdmitSome
  <2>1. PICK t \in tokens : AdmitFencedEffect(t)
    BY <1>4 DEF AdmitSome
  <2>2. Promise!Apply(t.fence_scope_id)
    BY <2>1, AdmitApplies DEF Promise!Apply, Epochs, EpochOf
  <2> QED  BY <2>1, <2>2, AdmitApplies DEF Promise!FencedNext
<1>5. CASE UNCHANGED fenceVars
  BY <1>5 DEF fenceVars
<1> QED  BY <1>1, <1>2, <1>3, <1>4, <1>5 DEF FenceNext

\* The authority and its callers implement what a fence promises: effects follow the
\* order of the grants, whatever callers observed, lost or repeated.
THEOREM FenceKeepsPromise == FenceSpec => KeepsPromise
  BY InitMaps, StepMaps, FenceInvariant, PTL DEF FenceSpec, KeepsPromise, Promise!FencedSpec

-----------------------------------------------------------------------------
(* Polls across relocation and restore *)

\* Recovery generations only grow, so no claim is of a later one than the latest claim, and
\* that one not of a later one than the tenant is in.
GrantsInOrder ==
    \A i \in 1 .. Len(granted) :
        /\ granted[i].recovery <= Last(granted).recovery
        /\ granted[i].recovery <= recovery.generation

\* As long as nothing was restored since, the authority is what the latest claim made it.
LatestIsAuthority ==
    granted # <<>> /\ Last(granted).recovery = recovery.generation =>
        pollAuthority = Last(granted)

GrantedClaims ==
    [version : Nat, cell : Cells, recovery : Nat, epoch : Nat, generation : Nat]

PollInvariant ==
    /\ granted \in Seq(GrantedClaims)
    /\ pollAuthority \in GrantedClaims \cup {None}
    /\ image.authority \in GrantedClaims \cup {None}
    /\ placement \in [version : Nat, cell : Cells, admitted : BOOLEAN]
    /\ recovery \in [generation : Nat, reconciled : BOOLEAN, admitted : BOOLEAN]
    /\ GrantsInOrder /\ LatestIsAuthority

\* Nothing was granted at first.
LEMMA PollInitially == PollInit => PollInvariant
<1> SUFFICES ASSUME PollInit PROVE PollInvariant
  OBVIOUS
<1> USE DEF PollInit
<1>1. granted \in Seq(GrantedClaims) /\ Len(granted) = 0
  BY EmptySeq
<1>2. GrantsInOrder /\ LatestIsAuthority
  BY <1>1 DEF GrantsInOrder, LatestIsAuthority
<1>3. placement \in [version : Nat, cell : Cells, admitted : BOOLEAN]
  <2>1. PICK cell \in Cells : placement = [version |-> 1, cell |-> cell, admitted |-> TRUE]
    OBVIOUS
  <2> QED  BY <2>1
<1>4. recovery \in [generation : Nat, reconciled : BOOLEAN, admitted : BOOLEAN]
  OBVIOUS
<1>5. image.authority = None /\ pollAuthority = None
  OBVIOUS
<1> QED  BY <1>1, <1>2, <1>3, <1>4, <1>5 DEF PollInvariant

\* Claims are records of claims.
LEMMA GrantedAreClaims ==
    PollInvariant => \A i \in 1 .. Len(granted) :
                        granted[i] \in GrantedClaims /\ granted[i].recovery \in Nat
<1>1. ASSUME PollInvariant, NEW i \in 1 .. Len(granted) PROVE granted[i] \in GrantedClaims
  <2>1. granted \in Seq(GrantedClaims)
    BY <1>1 DEF PollInvariant
  <2> QED  BY <2>1, ElementOfSeq
<1> QED  BY <1>1 DEF GrantedClaims

\* A claim is the latest, of the recovery the tenant is in, and the authority is set to it.
LEMMA ClaimKeepsPolls == PollInvariant /\ ClaimNextPoll => PollInvariant'
<1> SUFFICES ASSUME PollInvariant, ClaimNextPoll PROVE PollInvariant'
  OBVIOUS
<1> USE DEF PollInvariant, ClaimNextPoll
<1>1. NextClaim \in GrantedClaims /\ NextClaim.recovery = recovery.generation
  <2>1. /\ placement.version \in Nat /\ placement.cell \in Cells /\ recovery.generation \in Nat
        /\ pollAuthority # None => pollAuthority.epoch \in Nat /\ pollAuthority.generation \in Nat
    BY DEF GrantedClaims
  <2>2. NextClaim.epoch \in Nat /\ NextClaim.generation \in Nat
    BY <2>1 DEF NextClaim
  <2> QED  BY <2>1, <2>2 DEF NextClaim, GrantedClaims
<1>2. /\ granted' \in Seq(GrantedClaims) /\ Len(granted') = Len(granted) + 1
      /\ \A i \in 1 .. Len(granted) : granted'[i] = granted[i]
      /\ granted'[Len(granted) + 1] = NextClaim
  BY <1>1, AppendProperties
<1>3. Last(granted') = NextClaim
  BY <1>2 DEF Last
<1>4. GrantsInOrder'
  <2> SUFFICES ASSUME NEW i \in 1 .. Len(granted')
               PROVE  /\ granted'[i].recovery <= Last(granted').recovery
                      /\ granted'[i].recovery <= recovery'.generation
    BY DEF GrantsInOrder
  <2>1. CASE i = Len(granted')
    BY <2>1, <1>1, <1>2, <1>3
  <2>2. CASE i \in 1 .. Len(granted)
    BY <2>2, <1>1, <1>2, <1>3 DEF GrantsInOrder
  <2> QED  BY <2>1, <2>2, <1>2
<1>5. LatestIsAuthority'
  BY <1>3 DEF LatestIsAuthority
<1> QED  BY <1>1, <1>2, <1>4, <1>5

\* A restore begins a recovery in which nothing was granted yet.
LEMMA RestoreKeepsPolls == PollInvariant /\ RestorePolls => PollInvariant'
<1> SUFFICES ASSUME PollInvariant, RestorePolls PROVE PollInvariant'
  OBVIOUS
<1> USE DEF PollInvariant, RestorePolls
<1>1. recovery'.generation = recovery.generation + 1 /\ recovery.generation \in Nat
  OBVIOUS
<1>2. \A i \in 1 .. Len(granted) : granted[i].recovery \in Nat
  BY GrantedAreClaims
<1>3. GrantsInOrder'
  BY <1>1, <1>2 DEF GrantsInOrder, Last
<1>4. granted # <<>> => Last(granted).recovery # recovery'.generation
  <2> SUFFICES ASSUME granted # <<>> PROVE Last(granted).recovery # recovery'.generation
    OBVIOUS
  <2>1. Len(granted) \in 1 .. Len(granted)
    BY EmptySeq, LenProperties
  <2> QED  BY <1>1, <1>2, <2>1 DEF GrantsInOrder, Last
<1>5. LatestIsAuthority'
  BY <1>4 DEF LatestIsAuthority, Last
<1> QED  BY <1>3, <1>5

\* The other steps leave claims, authority and recovery generation as they are.
LEMMA OthersKeepPolls ==
    ASSUME PollInvariant,
           \/ FencePlacement \/ TakeImage \/ AdmitRecovery
           \/ \E cell \in Cells : Relocate(cell)
           \/ UNCHANGED pollVars
    PROVE  PollInvariant'
<1> USE DEF PollInvariant, GrantsInOrder, LatestIsAuthority, Last
<1>1. CASE FencePlacement
  BY <1>1 DEF FencePlacement
<1>2. CASE TakeImage
  BY <1>2 DEF TakeImage
<1>3. CASE AdmitRecovery
  BY <1>3 DEF AdmitRecovery
<1>4. CASE \E cell \in Cells : Relocate(cell)
  BY <1>4 DEF Relocate
<1>5. CASE UNCHANGED pollVars
  BY <1>5 DEF pollVars
<1> QED  BY <1>1, <1>2, <1>3, <1>4, <1>5

\* Of all claims ever granted only the latest can be current: an older one is of an earlier
\* recovery, or the authority has moved on from it (poll_claim_is_current).
THEOREM OnlyLatestPollIsCurrent == PollSpec => []OnlyLatestIsCurrent
<1>1. PollInvariant => OnlyLatestIsCurrent
  <2> SUFFICES ASSUME PollInvariant, NEW i \in 1 .. Len(granted), ClaimIsCurrent(granted[i])
               PROVE  granted[i] = Last(granted)
    BY DEF OnlyLatestIsCurrent
  <2>1. granted[i] = pollAuthority /\ granted[i].recovery = recovery.generation
    BY DEF ClaimIsCurrent, Continues
  <2>2. Len(granted) \in 1 .. Len(granted) /\ granted # <<>>
    BY LenProperties, EmptySeq DEF PollInvariant
  <2>3. granted[i].recovery \in Nat /\ Last(granted).recovery \in Nat
    BY <2>2, GrantedAreClaims DEF Last
  <2>4. Last(granted).recovery = recovery.generation
    BY <2>1, <2>2, <2>3 DEF PollInvariant, GrantsInOrder, Last
  <2> QED  BY <2>1, <2>2, <2>4 DEF PollInvariant, LatestIsAuthority
<1>2. PollInvariant /\ [PollNext]_pollVars => PollInvariant'
  BY ClaimKeepsPolls, RestoreKeepsPolls, OthersKeepPolls DEF PollNext
<1> QED  BY <1>1, <1>2, PollInitially, PTL DEF PollSpec

-----------------------------------------------------------------------------
(* Admission by several authorities *)

\* What an operation keeps of the answers it was given.
Admissions ==
    [kind : DOMAIN Checks, at : Nat, principal : AdmittedGenerations,
     strength : AdmittedGenerations, destination : {None} \cup [Dimensions -> AdmittedGenerations],
     context : {None} \cup [Dimensions -> AdmittedGenerations],
     runtime : {None} \cup AdmittedGenerations,
     evidence : {None} \cup
        [granted : BOOLEAN, current : BOOLEAN, principal : AdmittedGenerations,
         placement : [Dimensions -> AdmittedGenerations], strength : AdmittedGenerations,
         runtime : AdmittedGenerations],
     answer : {None, "admitted", "denied"}]

AdmissionTyped ==
    /\ tenantPlacement \in Placements /\ runtime \in Runtimes
    /\ credential \in [generation : AdmittedGenerations, live : BOOLEAN]
    /\ grants \in BOOLEAN /\ lapsed \in BOOLEAN /\ held \in BOOLEAN
    /\ strength \in AdmittedGenerations
    /\ operation \in Admissions

\* The evidence came after the last question, and if it is of what the operation was told then
\* all of it held when it was taken.
EvidenceWasHeld ==
    operation.evidence # None =>
        /\ operation.at > Len(Checks[operation.kind])
        /\ MatchesOperation(operation.evidence) => held

AdmissionInvariant == AdmissionTyped /\ EvidenceWasHeld /\ AdmittedAtOneMoment

\* The questions are a finite sequence.
LEMMA ChecksEnd == \A k \in DOMAIN Checks : Len(Checks[k]) \in Nat
  BY DEF Checks

\* At first nothing was asked and nothing answered.
LEMMA AdmissionInitially == AdmissionInit => AdmissionInvariant
<1> SUFFICES ASSUME AdmissionInit PROVE AdmissionInvariant
  OBVIOUS
<1> USE DEF AdmissionInit
<1>1. 1 \in AdmittedGenerations
  BY AdmissionConstants DEF AdmittedGenerations
<1>2. PICK kind \in DOMAIN Checks :
          operation = [kind |-> kind, at |-> 1, principal |-> 1, strength |-> 1,
                       destination |-> None, context |-> None, runtime |-> None,
                       evidence |-> None, answer |-> None]
  OBVIOUS
<1>3. operation \in Admissions
  BY <1>1, <1>2 DEF Admissions
<1>4. tenantPlacement \in Placements /\ runtime \in Runtimes
  BY <1>1 DEF Placements, Runtimes
<1> QED
  BY <1>1, <1>2, <1>3, <1>4, AdmissionConstants
  DEF AdmissionInvariant, AdmissionTyped, EvidenceWasHeld, AdmittedAtOneMoment

\* An operation that asks or is denied has no evidence and is not admitted.
LEMMA NarrowingKeeps ==
    AdmissionInvariant /\ AdmissionNext /\ (Narrow \/ Deny) => AdmissionInvariant'
<1> SUFFICES ASSUME AdmissionInvariant, AdmissionNext, Narrow \/ Deny PROVE AdmissionInvariant'
  OBVIOUS
<1> USE DEF AdmissionInvariant
<1>1. /\ Asking # None /\ UNCHANGED authorities
      /\ operation.answer = None /\ held' \in BOOLEAN
  BY DEF Narrow, Deny, AdmissionNext, AllHolds
<1>2. operation.at <= Len(Checks[operation.kind])
  BY <1>1 DEF Asking
<1>3. operation.kind \in DOMAIN Checks /\ operation.at \in Nat
  BY DEF AdmissionTyped, Admissions
<1>4. operation.evidence = None
  BY <1>2, <1>3, ChecksEnd DEF EvidenceWasHeld
<1>5. operation' \in Admissions /\ operation'.evidence = None /\ operation'.answer # "admitted"
  <2>1. CASE Narrow
    <3> DEFINE told == IF Asking = "destination" THEN tenantPlacement.generation
                       ELSE operation.destination
               built == IF Asking = "construct" THEN tenantPlacement.generation
                        ELSE operation.context
               ran == IF Asking = "runtime" THEN runtime.generation ELSE operation.runtime
    <3>1. /\ told \in {None} \cup [Dimensions -> AdmittedGenerations]
          /\ built \in {None} \cup [Dimensions -> AdmittedGenerations]
          /\ ran \in {None} \cup AdmittedGenerations
      BY DEF AdmissionTyped, Admissions, Placements, Runtimes
    <3>2. operation' = [kind |-> operation.kind, at |-> operation.at + 1,
                        principal |-> operation.principal, strength |-> operation.strength,
                        destination |-> told, context |-> built, runtime |-> ran,
                        evidence |-> operation.evidence, answer |-> operation.answer]
      BY <2>1 DEF Narrow, AdmissionTyped, Admissions
    <3> HIDE DEF told, built, ran
    <3>3. operation' \in Admissions
      BY <1>3, <3>1, <3>2 DEF AdmissionTyped, Admissions
    <3>4. operation'.evidence = operation.evidence /\ operation'.answer = operation.answer
      BY <3>2 DEF AdmissionTyped, Admissions
    <3> QED  BY <1>1, <1>4, <3>3, <3>4, AdmissionConstants
  <2>2. CASE Deny
    BY <1>1, <1>4, <2>2 DEF Deny, AdmissionTyped, Admissions
  <2> QED  BY <2>1, <2>2
<1> QED
  BY <1>1, <1>5 DEF AdmissionTyped, authorities, EvidenceWasHeld, AdmittedAtOneMoment

\* The decision is taken of all authorities at once: if it is of what the operation was told,
\* all of that holds now.
LEMMA FinalizeKeeps == AdmissionInvariant /\ AdmissionNext /\ Finalize => AdmissionInvariant'
<1> SUFFICES ASSUME AdmissionInvariant, AdmissionNext, Finalize PROVE AdmissionInvariant'
  OBVIOUS
<1> USE DEF AdmissionInvariant
<1>1. /\ UNCHANGED authorities /\ operation.answer = None
      /\ operation.at > Len(Checks[operation.kind])
  BY DEF Finalize
<1> DEFINE taken == operation'.evidence
<1>2. /\ operation' = [operation EXCEPT !.evidence = taken]
      /\ taken = [granted |-> grants,
                  current |-> credential.live /\ ~lapsed /\ runtime.active
                              /\ (operation.context = None \/ tenantPlacement.admissible),
                  principal |-> credential.generation,
                  placement |-> tenantPlacement.generation,
                  strength |-> strength,
                  runtime |-> runtime.generation]
  BY DEF Finalize, AdmissionTyped, Admissions
<1>3. operation' \in Admissions
  <2>1. taken \in [granted : BOOLEAN, current : BOOLEAN, principal : AdmittedGenerations,
                   placement : [Dimensions -> AdmittedGenerations],
                   strength : AdmittedGenerations, runtime : AdmittedGenerations]
    BY <1>2 DEF AdmissionTyped, Placements, Runtimes
  <2> HIDE DEF taken
  <2> QED  BY <1>2, <2>1 DEF AdmissionTyped, Admissions
<1>4. /\ operation'.kind = operation.kind /\ operation'.at = operation.at
      /\ operation'.principal = operation.principal /\ operation'.context = operation.context
      /\ operation'.strength = operation.strength /\ operation'.runtime = operation.runtime
      /\ operation'.answer = None
  BY <1>1, <1>2 DEF AdmissionTyped, Admissions
<1>5. MatchesOperation(operation.evidence)' => AllHolds'
  <2> SUFFICES ASSUME MatchesOperation(operation.evidence)' PROVE AllHolds'
    OBVIOUS
  <2>1. /\ grants /\ credential.live /\ ~lapsed /\ runtime.active
        /\ operation.context = None \/ tenantPlacement.admissible
        /\ credential.generation = operation.principal /\ strength = operation.strength
        /\ operation.context # None => tenantPlacement.generation = operation.context
        /\ operation.runtime # None => runtime.generation = operation.runtime
    <3>1. /\ taken.granted /\ taken.current
          /\ taken.principal = operation.principal /\ taken.strength = operation.strength
          /\ operation.context # None => taken.placement = operation.context
          /\ operation.runtime # None => taken.runtime = operation.runtime
      BY <1>4 DEF MatchesOperation
    <3>2. /\ taken.granted = grants
          /\ taken.current = (credential.live /\ ~lapsed /\ runtime.active
                              /\ (operation.context = None \/ tenantPlacement.admissible))
          /\ taken.principal = credential.generation /\ taken.strength = strength
          /\ taken.placement = tenantPlacement.generation /\ taken.runtime = runtime.generation
      BY <1>2
    <3> HIDE DEF taken
    <3> QED  BY <3>1, <3>2
  <2> QED
    BY <1>1, <1>4, <2>1 DEF AllHolds, PrincipalIsCurrent, PlacementMatches, authorities
<1>6. held' \in BOOLEAN /\ (AllHolds' => held')
  BY DEF AdmissionNext, AllHolds
<1> QED
  BY <1>1, <1>3, <1>4, <1>5, <1>6, AdmissionConstants
  DEF AdmissionTyped, authorities, EvidenceWasHeld, AdmittedAtOneMoment

\* The answer follows the evidence.
LEMMA ConcludeKeeps == AdmissionInvariant /\ AdmissionNext /\ Conclude => AdmissionInvariant'
<1> SUFFICES ASSUME AdmissionInvariant, AdmissionNext, Conclude PROVE AdmissionInvariant'
  OBVIOUS
<1> USE DEF AdmissionInvariant
<1>1. UNCHANGED authorities /\ operation.evidence # None
  BY DEF Conclude
<1>2. /\ operation' \in Admissions
      /\ \A field \in {"kind", "at", "principal", "context", "strength", "runtime", "evidence"} :
            operation'[field] = operation[field]
      /\ operation'.answer = "admitted" => MatchesOperation(operation.evidence)
  BY DEF Conclude, AdmissionTyped, Admissions
<1>3. /\ operation'.kind = operation.kind /\ operation'.at = operation.at
      /\ operation'.principal = operation.principal /\ operation'.context = operation.context
      /\ operation'.strength = operation.strength /\ operation'.runtime = operation.runtime
      /\ operation'.evidence = operation.evidence
  BY <1>2
<1>4. held' \in BOOLEAN /\ (held => held')
  BY <1>3 DEF AdmissionNext, AllHolds
<1> QED
  BY <1>1, <1>2, <1>3, <1>4
  DEF AdmissionTyped, authorities, EvidenceWasHeld, AdmittedAtOneMoment, MatchesOperation

\* What an authority does later does not undo that all held once.
LEMMA MovesKeep == AdmissionInvariant /\ AdmissionNext /\ AuthorityMoves => AdmissionInvariant'
<1> SUFFICES ASSUME AdmissionInvariant, AdmissionNext, AuthorityMoves PROVE AdmissionInvariant'
  OBVIOUS
<1> USE DEF AdmissionInvariant
<1>1. UNCHANGED operation /\ held' \in BOOLEAN /\ (held => held')
  BY DEF AuthorityMoves, AdmissionNext, AllHolds
<1>2. MaxGeneration \in Nat
  BY AdmissionConstants
<1>3. /\ tenantPlacement' \in Placements /\ runtime' \in Runtimes
      /\ credential' \in [generation : AdmittedGenerations, live : BOOLEAN]
      /\ grants' \in BOOLEAN /\ lapsed' \in BOOLEAN /\ strength' \in AdmittedGenerations
  <2> USE <1>2 DEF AdmissionTyped, Placements, Runtimes, AdmittedGenerations
  <2>1. CASE \E d \in Dimensions : MovePlacement(d)
    BY <2>1 DEF MovePlacement
  <2>2. CASE TurnPlacement
    BY <2>2 DEF TurnPlacement
  <2>3. CASE RotateCredential
    BY <2>3 DEF RotateCredential
  <2>4. CASE RevokeCredential
    BY <2>4 DEF RevokeCredential
  <2>5. CASE ChangePolicy
    BY <2>5 DEF ChangePolicy
  <2>6. CASE ChangeStrengthPolicy
    BY <2>6 DEF ChangeStrengthPolicy
  <2>7. CASE EvidenceLapses
    BY <2>7 DEF EvidenceLapses
  <2>8. CASE RestartRuntime
    BY <2>8 DEF RestartRuntime
  <2>9. CASE TurnRuntime
    BY <2>9 DEF TurnRuntime
  <2> QED
    BY <2>1, <2>2, <2>3, <2>4, <2>5, <2>6, <2>7, <2>8, <2>9 DEF AuthorityMoves
<1> QED
  BY <1>1, <1>3 DEF AdmissionTyped, EvidenceWasHeld, AdmittedAtOneMoment, MatchesOperation

\* However the authorities move between the questions and the final decision, an operation that
\* is admitted had all it relies on at one moment (_finalize_current_admission).
THEOREM AdmissionHeldAtOneMoment == AdmissionSpec => []AdmittedAtOneMoment
<1>1. AdmissionInvariant /\ UNCHANGED admissionVars => AdmissionInvariant'
  BY DEF AdmissionInvariant, AdmissionTyped, EvidenceWasHeld, AdmittedAtOneMoment,
         MatchesOperation, admissionVars, authorities
<1>2. AdmissionInvariant /\ [AdmissionNext]_admissionVars => AdmissionInvariant'
  BY <1>1, NarrowingKeeps, FinalizeKeeps, ConcludeKeeps, MovesKeep DEF AdmissionNext
<1>3. AdmissionInvariant => AdmittedAtOneMoment
  BY DEF AdmissionInvariant
<1> QED  BY <1>2, <1>3, AdmissionInitially, PTL DEF AdmissionSpec

-----------------------------------------------------------------------------
(* The revocation of a cached authority *)

CacheShapes ==
    [auth : [state : {"current", "fence", "revoked"}, gen : 1..2, epoch : Nat],
     pos : [gen : 1..2, epoch : Nat]]

\* The shapes the proof needs, with epochs of any size.  The source is revoked once.
CacheTyped ==
    /\ source \in [gen : 1..2, active : BOOLEAN] /\ (source.active <=> source.gen = 1)
    /\ transition \in [Transitions -> TransitionRows \cup {None}]
    /\ scope \in [state : {"admitted", "excluding", "excluded"}, epoch : Nat,
                  target : Nat \cup {None}, hold : Transitions \cup {None}]
    /\ scope.state = "excluding" => scope.target = scope.epoch + 1
    /\ leaseRow \in [Replicas -> [epoch : Nat, retired : BOOLEAN] \cup {None}]
    /\ lease \in [Replicas -> [epoch : Nat, retiring : BOOLEAN] \cup {None}]
    /\ inflight \in [Replicas -> Nat \cup {None}]
    /\ cache \in CacheShapes /\ copy \in CacheShapes
    /\ observed \in [gen : 1..2, epoch : Nat] \cup {None}
    /\ committing \subseteq [t : Transitions, w : Writers]

\* A commit past its permit is of a transition that was reserved, and that holds the excluded
\* scope as long as it can still commit.
PermitsHoldTheScope ==
    \A c \in committing : /\ transition[c.t] # None
                          /\ InState(c.t, "prepared") => ExcludedFor(c.t)

PermitInvariant == CacheTyped /\ PermitsHoldTheScope /\ CommitHoldsTheScope

\* An admission runs on a lease, a lease has a row that is not retired, and such a row is of the
\* scope's epoch and in the way of its exclusion.
LeasesAreOfTheEpoch ==
    \A r \in Replicas :
        /\ inflight[r] # None => lease[r] # None /\ lease[r].epoch = inflight[r]
        /\ lease[r] # None => /\ leaseRow[r] # None /\ ~leaseRow[r].retired
                              /\ leaseRow[r].epoch = lease[r].epoch
        /\ leaseRow[r] # None /\ ~leaseRow[r].retired =>
              scope.state # "excluded" /\ leaseRow[r].epoch = scope.epoch

\* What the caches say, and what a filler is about to make them say, is of an epoch up to bound.
CurrentUpTo(bound) ==
    /\ \A c \in {cache, copy} : c.auth.state = "current" => c.auth.epoch <= bound
    /\ observed # None => observed.epoch <= bound

\* As long as the source is active there is one generation.  Once it is revoked, the scope is
\* excluded still, or at an epoch none of the entries is of.
EntriesFollowTheSource ==
    /\ CurrentUpTo(scope.epoch)
    /\ source.active => /\ \A c \in {cache, copy} : c.pos.gen = 1
                        /\ observed # None => observed.gen = 1
    /\ ~source.active =>
          \/ \E t \in Transitions :
                (InState(t, "committed") \/ InState(t, "finalized")) /\ ExcludedFor(t)
          \/ CurrentUpTo(scope.epoch - 1)

CacheInvariant == PermitInvariant /\ LeasesAreOfTheEpoch /\ EntriesFollowTheSource

\* Nothing is reserved, leased or revoked at first.
LEMMA CacheInitially == CacheInit => CacheInvariant
  BY CacheConstants
  DEF CacheInit, CacheInvariant, PermitInvariant, CacheTyped, PermitsHoldTheScope,
      CommitHoldsTheScope, InState, LeasesAreOfTheEpoch, EntriesFollowTheSource, CurrentUpTo,
      FreshCache, CacheShapes

\* What the entries say together with the leases of the scope.
LEMMA EntriesAndLeases == CacheInvariant => AdmissionsSeeTheSource
<1> SUFFICES ASSUME CacheInvariant, NEW r \in Replicas, NEW c \in {cache, copy},
                    inflight[r] # None, Allows(c, inflight[r])
             PROVE  source.active /\ c.pos.gen = source.gen
  BY DEF AdmissionsSeeTheSource
<1> USE DEF CacheInvariant, PermitInvariant, CacheTyped
<1>1. scope.state # "excluded" /\ inflight[r] = scope.epoch /\ scope.epoch \in Nat
  BY DEF LeasesAreOfTheEpoch
<1>2. c.auth.state = "current" /\ c.auth.epoch = scope.epoch
  BY <1>1 DEF Allows
<1>3. source.active
  BY <1>1, <1>2 DEF EntriesFollowTheSource, CurrentUpTo, ExcludedFor
<1> QED  BY <1>3 DEF EntriesFollowTheSource

\* The owner's transition moves on, without a commit.
LEMMA TransitionKeeps ==
    ASSUME CacheInvariant, NEW t \in Transitions, NEW row \in TransitionRows,
           transition' = [transition EXCEPT ![t] = row], UNCHANGED <<onlyTransition, committing>>,
           \/ transition[t] = None /\ row.state = "prepared"
           \/ InState(t, "prepared") /\ row.state \in {"prepared", "cancelled"}
           \/ InState(t, "committed") /\ row.state = "finalized"
    PROVE  CacheInvariant'
<1> USE CacheConstants DEF CacheInvariant, PermitInvariant, onlyTransition
<1>1. transition'[t] = row /\ row # None /\ \A u \in Transitions : u # t => transition'[u] = transition[u]
  BY DEF CacheTyped
<1>2. CacheTyped'
  BY DEF CacheTyped
<1>3. PermitsHoldTheScope' /\ CommitHoldsTheScope'
  BY <1>1 DEF CacheTyped, PermitsHoldTheScope, CommitHoldsTheScope, InState, ExcludedFor
<1>4. LeasesAreOfTheEpoch'
  BY DEF LeasesAreOfTheEpoch
<1>5. EntriesFollowTheSource'
  BY <1>1 DEF EntriesFollowTheSource, CurrentUpTo, InState, ExcludedFor
<1> QED  BY <1>2, <1>3, <1>4, <1>5

\* A commit finds the source active once, and the scope excluded for it.
LEMMA FinishCommitKeeps ==
    ASSUME CacheInvariant, NEW c \in committing, FinishCommit(c)
    PROVE  CacheInvariant'
<1> USE CacheConstants DEF CacheInvariant, PermitInvariant
<1>1. /\ UNCHANGED <<scope, leaseRow, lease, inflight, cache, copy, observed, verified>>
      /\ committing' \subseteq committing /\ c.t \in Transitions
  BY DEF FinishCommit, CacheTyped
<1>2. CASE ~ Commits(c.t, c.w)
  BY <1>1, <1>2 DEF FinishCommit, CacheTyped, PermitsHoldTheScope, CommitHoldsTheScope, InState,
                    ExcludedFor, LeasesAreOfTheEpoch, EntriesFollowTheSource, CurrentUpTo
<1>3. CASE Commits(c.t, c.w)
  <2> DEFINE row == [transition[c.t] EXCEPT !.state = "committed"]
  <2>1. /\ InState(c.t, "prepared") /\ source.active /\ ExcludedFor(c.t)
        /\ source' = [gen |-> source.gen + 1, active |-> FALSE]
        /\ transition' = [transition EXCEPT ![c.t] = row]
    BY <1>3 DEF FinishCommit, Commits, PermitsHoldTheScope
  <2>2. row \in TransitionRows /\ row.state = "committed" /\ row # None
    BY <1>1, <2>1 DEF CacheTyped, InState, TransitionRows
  <2> HIDE DEF row
  <2>3. /\ transition'[c.t] = row
        /\ \A u \in Transitions : u # c.t => transition'[u] = transition[u]
    BY <1>1, <2>1 DEF CacheTyped
  <2>4. CacheTyped'
    BY <1>1, <2>1, <2>2 DEF CacheTyped
  <2>5. PermitsHoldTheScope' /\ CommitHoldsTheScope'
    BY <1>1, <2>1, <2>2, <2>3 DEF CacheTyped, PermitsHoldTheScope, CommitHoldsTheScope, InState,
                                  ExcludedFor
  <2>6. LeasesAreOfTheEpoch'
    BY <1>1 DEF LeasesAreOfTheEpoch
  <2>7. EntriesFollowTheSource'
    <3>1. InState(c.t, "committed")' /\ ExcludedFor(c.t)'
      BY <1>1, <2>1, <2>2, <2>3 DEF InState, ExcludedFor
    <3>2. ~ source'.active /\ CurrentUpTo(scope.epoch)'
      BY <1>1, <2>1 DEF EntriesFollowTheSource, CurrentUpTo
    <3> QED  BY <1>1, <3>1, <3>2 DEF EntriesFollowTheSource
  <2> QED  BY <2>4, <2>5, <2>6, <2>7
<1> QED  BY <1>2, <1>3

\* The scope is taken, excluded at the next epoch once its leases are drained, and admitted again.
LEMMA ScopeKeeps ==
    ASSUME CacheInvariant, NEW t \in Transitions,
           BeginExclusion(t) \/ FinalizeExclusion(t) \/ ReleaseCancelled(t) \/ ReleaseFinalized(t)
    PROVE  CacheInvariant'
<1> USE CacheConstants DEF CacheInvariant, PermitInvariant
<1>1. UNCHANGED <<source, transition, leaseRow, lease, inflight, cache, copy, observed, committing>>
  BY DEF BeginExclusion, FinalizeExclusion, ReleaseCancelled, ReleaseFinalized, onlyScope
<1>s. /\ scope \in [state : {"admitted", "excluding", "excluded"}, epoch : Nat,
                    target : Nat \cup {None}, hold : Transitions \cup {None}]
      /\ scope.state = "excluding" => scope.target = scope.epoch + 1
      /\ scope.epoch \in Nat /\ scope.epoch + 1 \in Nat
  BY DEF CacheTyped
<1>2. /\ scope' \in [state : {"admitted", "excluding", "excluded"}, epoch : Nat,
                     target : Nat \cup {None}, hold : Transitions \cup {None}]
      /\ scope'.state = "excluding" => scope'.target = scope'.epoch + 1
      /\ scope'.epoch \in {scope.epoch, scope.epoch + 1}
      /\ scope'.state = "excluded" => scope.state = "excluding" /\ Unretired(scope.epoch) = {}
      /\ scope.state # "excluded" /\ scope'.state # "excluded" => scope'.epoch = scope.epoch
  <2>1. CASE BeginExclusion(t)
    BY <1>s, <2>1 DEF BeginExclusion
  <2>2. CASE FinalizeExclusion(t)
    BY <1>s, <2>2 DEF FinalizeExclusion
  <2>3. CASE ReleaseCancelled(t)
    BY <1>s, <2>3 DEF ReleaseCancelled, Admitted
  <2>4. CASE ReleaseFinalized(t)
    BY <1>s, <2>4 DEF ReleaseFinalized, Admitted, ExcludedFor
  <2> QED  BY <2>1, <2>2, <2>3, <2>4
<1>3. CacheTyped'
  BY <1>1, <1>2 DEF CacheTyped
\* Whoever loses its hold is over.
<1>4. \A u \in Transitions :
         ExcludedFor(u) => u = t /\ (InState(t, "cancelled") \/ InState(t, "finalized"))
  BY DEF ExcludedFor, BeginExclusion, FinalizeExclusion, ReleaseCancelled, ReleaseFinalized
<1>5. PermitsHoldTheScope' /\ CommitHoldsTheScope'
  BY <1>1, <1>4 DEF CacheTyped, PermitsHoldTheScope, CommitHoldsTheScope, InState, ExcludedFor
<1>6. LeasesAreOfTheEpoch'
  <2>1. CASE scope.state = "excluded"
    BY <1>1, <2>1 DEF LeasesAreOfTheEpoch
  <2>2. CASE scope.state # "excluded" /\ scope'.state # "excluded"
    BY <1>1, <1>2, <2>2 DEF LeasesAreOfTheEpoch
  <2>3. CASE scope'.state = "excluded"
    BY <1>1, <1>2, <2>3 DEF LeasesAreOfTheEpoch, Unretired
  <2> QED  BY <2>1, <2>2, <2>3
<1>7. EntriesFollowTheSource'
  <2>1. /\ cache.auth.epoch \in Nat /\ copy.auth.epoch \in Nat
        /\ observed # None => observed.epoch \in Nat
    BY DEF CacheTyped, CacheShapes
  <2>2. CurrentUpTo(scope.epoch)'
    BY <1>1, <1>s, <1>2, <2>1 DEF EntriesFollowTheSource, CurrentUpTo
  <2>3. CASE CurrentUpTo(scope.epoch - 1)
    <3>1. CurrentUpTo(scope.epoch - 1)'
      BY <1>1, <1>s, <1>2, <2>1, <2>3 DEF CurrentUpTo
    <3> QED  BY <1>1, <2>2, <3>1 DEF EntriesFollowTheSource
  <2>4. CASE \E u \in Transitions : (InState(u, "committed") \/ InState(u, "finalized")) /\ ExcludedFor(u)
    <3>1. ReleaseFinalized(t)
      BY <1>4, <2>4 DEF InState, ExcludedFor, BeginExclusion, FinalizeExclusion, ReleaseCancelled
    <3>2. scope'.epoch - 1 = scope.epoch
      BY <1>s, <3>1 DEF ReleaseFinalized, Admitted
    <3>3. CurrentUpTo(scope.epoch - 1)'
      BY <1>1, <3>2 DEF EntriesFollowTheSource, CurrentUpTo
    <3> QED  BY <1>1, <2>2, <3>3 DEF EntriesFollowTheSource
  <2>5. CASE source.active
    BY <1>1, <2>2, <2>5 DEF EntriesFollowTheSource
  <2> QED  BY <2>3, <2>4, <2>5 DEF EntriesFollowTheSource
<1> QED  BY <1>3, <1>5, <1>6, <1>7

\* A replica takes a lease at the scope's epoch, gives it up, or dies with it.
LEMMA LeaseKeeps ==
    ASSUME CacheInvariant, NEW r \in Replicas,
           \/ IssueLease(r) \/ BeginRetire(r) \/ AckRetire(r) \/ ReplicaDies(r)
           \/ BeginAdmission(r) \/ EndAdmission(r)
    PROVE  CacheInvariant'
<1> USE CacheConstants DEF CacheInvariant, PermitInvariant
<1>1. UNCHANGED <<source, transition, scope, cache, copy, observed, committing>>
  BY DEF IssueLease, BeginRetire, AckRetire, ReplicaDies, BeginAdmission, EndAdmission, onlyLeases
<1>2. CacheTyped' /\ LeasesAreOfTheEpoch'
  <2>1. CASE IssueLease(r)
    <3> DEFINE row == [epoch |-> scope.epoch, retired |-> FALSE]
               mine == [epoch |-> scope.epoch, retiring |-> FALSE]
    <3>1. /\ row \in [epoch : Nat, retired : BOOLEAN] /\ row # None
          /\ row.epoch = scope.epoch /\ row.retired = FALSE
          /\ mine \in [epoch : Nat, retiring : BOOLEAN] /\ mine.epoch = scope.epoch
      <4>1. scope.epoch \in Nat
        BY DEF CacheTyped
      <4>2. row \in [epoch : Nat, retired : BOOLEAN] /\ mine \in [epoch : Nat, retiring : BOOLEAN]
        BY <4>1
      <4> QED  BY <4>2
    <3>2. /\ lease' = [lease EXCEPT ![r] = mine] /\ leaseRow' = [leaseRow EXCEPT ![r] = row]
          /\ UNCHANGED inflight /\ inflight[r] = None /\ scope.state = "admitted"
      BY <2>1 DEF IssueLease
    <3> HIDE DEF row, mine
    <3> QED  BY <1>1, <3>1, <3>2 DEF CacheTyped, LeasesAreOfTheEpoch
  <2>2. CASE BeginRetire(r)
    <3> DEFINE mine == [lease[r] EXCEPT !.retiring = TRUE]
    <3>1. lease[r] # None /\ mine \in [epoch : Nat, retiring : BOOLEAN] /\ mine.epoch = lease[r].epoch
      <4>1. lease[r] # None /\ lease[r] \in [epoch : Nat, retiring : BOOLEAN]
        BY <2>2 DEF BeginRetire, CacheTyped
      <4> QED  BY <4>1
    <3>2. lease' = [lease EXCEPT ![r] = mine] /\ UNCHANGED <<leaseRow, inflight>>
      BY <2>2 DEF BeginRetire
    <3> HIDE DEF mine
    <3>3. CacheTyped'
      BY <1>1, <3>1, <3>2 DEF CacheTyped
    <3>4. \A s \in Replicas : lease'[s] = IF s = r THEN mine ELSE lease[s]
      BY <3>2 DEF CacheTyped
    <3>5. mine # None
      BY <3>1
    <3>6. \A s \in Replicas :
             /\ lease'[s] # None => lease[s] # None
             /\ lease[s] # None => lease'[s] # None /\ lease'[s].epoch = lease[s].epoch
      BY <3>1, <3>4, <3>5
    <3> QED  BY <1>1, <3>2, <3>3, <3>6 DEF LeasesAreOfTheEpoch
  <2>3. CASE AckRetire(r)
    <3> DEFINE row == [leaseRow[r] EXCEPT !.retired = TRUE]
    <3>1. leaseRow[r] # None /\ row \in [epoch : Nat, retired : BOOLEAN] /\ row.retired
      <4>1. leaseRow[r] # None /\ leaseRow[r] \in [epoch : Nat, retired : BOOLEAN]
        BY <2>3 DEF AckRetire, CacheTyped, LeasesAreOfTheEpoch
      <4> QED  BY <4>1
    <3>2. /\ leaseRow' = [leaseRow EXCEPT ![r] = row] /\ lease' = [lease EXCEPT ![r] = None]
          /\ UNCHANGED inflight /\ inflight[r] = None
      BY <2>3 DEF AckRetire
    <3> HIDE DEF row
    <3> QED  BY <1>1, <3>1, <3>2 DEF CacheTyped, LeasesAreOfTheEpoch
  <2>4. CASE ReplicaDies(r)
    BY <1>1, <2>4 DEF ReplicaDies, onlyLeases, CacheTyped, LeasesAreOfTheEpoch
  <2>5. CASE BeginAdmission(r)
    BY <1>1, <2>5 DEF BeginAdmission, CacheTyped, LeasesAreOfTheEpoch
  <2>6. CASE EndAdmission(r)
    BY <1>1, <2>6 DEF EndAdmission, CacheTyped, LeasesAreOfTheEpoch
  <2> QED  BY <2>1, <2>2, <2>3, <2>4, <2>5, <2>6
<1>3. PermitsHoldTheScope' /\ CommitHoldsTheScope' /\ EntriesFollowTheSource'
  BY <1>1 DEF PermitsHoldTheScope, CommitHoldsTheScope, InState, ExcludedFor,
              EntriesFollowTheSource, CurrentUpTo
<1> QED  BY <1>2, <1>3

\* What is written into the cache is not current, or is what was observed before the revocation.
LEMMA EntryKeeps ==
    ASSUME CacheInvariant,
           \/ \E t \in Transitions : InstallFence(t) \/ WriteRevoked(t) \/ VerifyRevoked(t)
           \/ \E r \in Replicas : DegradedFill(r)
           \/ Observe \/ FillAuthority \/ FillPositive \/ TakeCopy
    PROVE  CacheInvariant'
<1> USE CacheConstants DEF CacheInvariant, PermitInvariant
<1>1. UNCHANGED <<source, transition, scope, leaseRow, lease, inflight, committing>>
  BY DEF InstallFence, WriteRevoked, VerifyRevoked, DegradedFill, Observe, FillAuthority,
         FillPositive, TakeCopy, onlyCache
<1>2. PermitsHoldTheScope' /\ CommitHoldsTheScope' /\ LeasesAreOfTheEpoch'
  BY <1>1 DEF PermitsHoldTheScope, CommitHoldsTheScope, InState, ExcludedFor, LeasesAreOfTheEpoch
<1>3. /\ cache' \in CacheShapes /\ copy' \in CacheShapes
      /\ observed' \in [gen : 1..2, epoch : Nat] \cup {None}
      /\ \A bound \in {scope.epoch, scope.epoch - 1} :
            CurrentUpTo(bound) /\ (observed' \in {observed, None} \/ bound = scope.epoch)
               => CurrentUpTo(bound)'
      /\ source.active => /\ \A c \in {cache', copy'} : c.pos.gen = 1
                          /\ observed' # None => observed'.gen = 1
      /\ ~source.active => observed' \in {observed, None}
  <2> USE DEF CacheTyped, CacheShapes, CurrentUpTo, EntriesFollowTheSource
  <2>1. CASE \E t \in Transitions : InstallFence(t) \/ WriteRevoked(t) \/ VerifyRevoked(t)
    BY <2>1 DEF InstallFence, WriteRevoked, VerifyRevoked, RevokedEntry
  <2>2. CASE \E r \in Replicas : DegradedFill(r)
    BY <2>2 DEF DegradedFill
  <2>3. CASE Observe
    BY <2>3 DEF Observe
  <2>4. CASE FillAuthority
    BY <2>4 DEF FillAuthority
  <2>5. CASE FillPositive
    BY <2>5 DEF FillPositive
  <2>6. CASE TakeCopy
    BY <2>6 DEF TakeCopy
  <2> QED  BY <2>1, <2>2, <2>3, <2>4, <2>5, <2>6
<1>4. CacheTyped'
  BY <1>1, <1>3 DEF CacheTyped
<1>5. EntriesFollowTheSource'
  BY <1>1, <1>3 DEF EntriesFollowTheSource, InState, ExcludedFor, CurrentUpTo
<1> QED  BY <1>2, <1>4, <1>5

\* Every step of the revocation keeps the strengthening.
LEMMA CacheStepKeeps == CacheInvariant /\ [CacheNext]_cacheVars => CacheInvariant'
<1> SUFFICES ASSUME CacheInvariant, [CacheNext]_cacheVars PROVE CacheInvariant'
  OBVIOUS
<1> USE CacheConstants
<1>1. ASSUME NEW t \in Transitions, NEW w \in Writers, Reserve(t, w) PROVE CacheInvariant'
  <2> DEFINE row == [state |-> "prepared", owner |-> w, expected |-> source.gen, lapsed |-> FALSE]
  <2>1. row \in TransitionRows /\ row.state = "prepared"
    BY DEF CacheInvariant, PermitInvariant, CacheTyped, TransitionRows
  <2>2. transition' = [transition EXCEPT ![t] = row] /\ transition[t] = None
        /\ UNCHANGED <<onlyTransition, committing>>
    BY <1>1 DEF Reserve
  <2> HIDE DEF row
  <2> QED  BY <2>1, <2>2, TransitionKeeps
<1>2. ASSUME NEW t \in Transitions,
             (\E w \in Writers : Takeover(t, w)) \/ Lapse(t) \/ Cancel(t) \/ FinalizeSource(t)
      PROVE  CacheInvariant'
  <2>1. transition[t] \in TransitionRows
    BY <1>2 DEF Takeover, Lapse, Cancel, FinalizeSource, InState, CacheInvariant, PermitInvariant,
                CacheTyped
  <2>2. PICK row \in TransitionRows :
           /\ transition' = [transition EXCEPT ![t] = row]
           /\ \/ InState(t, "prepared") /\ row.state \in {"prepared", "cancelled"}
              \/ InState(t, "committed") /\ row.state = "finalized"
    <3>1. /\ \A late \in BOOLEAN, owner \in Writers :
                LET row == [transition[t] EXCEPT !.owner = owner, !.lapsed = late]
                IN  row \in TransitionRows /\ row.state = transition[t].state
          /\ \A late \in BOOLEAN :
                LET row == [transition[t] EXCEPT !.lapsed = late]
                IN  row \in TransitionRows /\ row.state = transition[t].state
          /\ \A state \in {"cancelled", "finalized"} :
                LET row == [transition[t] EXCEPT !.state = state]
                IN  row \in TransitionRows /\ row.state = state
      BY <2>1 DEF TransitionRows
    <3>2. transition \in [Transitions -> TransitionRows \cup {None}]
      BY DEF CacheInvariant, PermitInvariant, CacheTyped
    <3>3. CASE \E w \in Writers : Takeover(t, w)
      <4>1. PICK w \in Writers : Takeover(t, w)
        BY <3>3
      <4> DEFINE row == [transition[t] EXCEPT !.owner = w, !.lapsed = FALSE]
      <4>2. row \in TransitionRows /\ row.state = "prepared" /\ InState(t, "prepared")
        BY <3>1, <4>1 DEF Takeover, InState
      <4>3. transition' = [transition EXCEPT ![t] = row]
        BY <3>2, <4>1 DEF Takeover
      <4> QED  BY <4>2, <4>3
    <3>4. CASE Lapse(t)
      BY <3>1, <3>2, <3>4 DEF Lapse, InState
    <3>5. CASE Cancel(t)
      BY <3>1, <3>2, <3>5 DEF Cancel, InState
    <3>6. CASE FinalizeSource(t)
      BY <3>1, <3>2, <3>6 DEF FinalizeSource, InState
    <3> QED  BY <1>2, <3>3, <3>4, <3>5, <3>6
  <2>3. UNCHANGED <<onlyTransition, committing>>
    BY <1>2 DEF Takeover, Lapse, Cancel, FinalizeSource
  <2> QED  BY <2>2, <2>3, TransitionKeeps
<1>3. ASSUME NEW t \in Transitions, NEW w \in Writers, BeginCommit(t, w) PROVE CacheInvariant'
  BY <1>3 DEF BeginCommit, onlyTransition, CacheInvariant, PermitInvariant, CacheTyped,
              PermitsHoldTheScope, CommitHoldsTheScope, InState, ExcludedFor, LeasesAreOfTheEpoch,
              EntriesFollowTheSource, CurrentUpTo
<1>4. CASE UNCHANGED cacheVars
  BY <1>4 DEF cacheVars, CacheInvariant, PermitInvariant, CacheTyped,
              PermitsHoldTheScope, CommitHoldsTheScope, InState, ExcludedFor, LeasesAreOfTheEpoch,
              EntriesFollowTheSource, CurrentUpTo
<1> QED
  BY <1>1, <1>2, <1>3, <1>4, FinishCommitKeeps, ScopeKeeps, LeaseKeeps, EntryKeeps DEF CacheNext

\* Whatever a running admission reads, an ALLOW is about the generation the owner holds active.
THEOREM CacheAdmissionsSeeTheSource == CacheSpec => []AdmissionsSeeTheSource
BY CacheInitially, CacheStepKeeps, EntriesAndLeases, PTL DEF CacheSpec

\* From its commit to its finalization a transition holds the excluded scope.
THEOREM CacheCommitHoldsTheScope == CacheSpec => []CommitHoldsTheScope
<1>1. CacheInvariant => CommitHoldsTheScope
  BY DEF CacheInvariant, PermitInvariant
<1> QED  BY CacheInitially, CacheStepKeeps, <1>1, PTL DEF CacheSpec

-----------------------------------------------------------------------------
(* The completeness of a history *)

Runs == [generation : Nat, revision : Nat, snapshot : Times, from : Times, to : Times]

\* Generations and revisions only grow, and the run of a sweep keeps those it ran at.
HistoryTyped ==
    /\ providerAuthority \in [generation : Nat, snapshot : Times, finality : Times,
                              required : Times, revision : Nat]
    /\ stream.finalized \in Times \cup {None}
    /\ runs \subseteq Runs
    /\ \A run \in runs : run.generation <= providerAuthority.generation
                         /\ run.revision <= providerAuthority.revision

\* The provider deletes no row, so an observation that was accepted is one of the provider's.
AcceptedFromProvider ==
    \A o \in Observations : acceptedHistory[o] # None => providerHistory[o] # None

IsOfPresent(run) ==
    run.generation = providerAuthority.generation /\ run.revision = providerAuthority.revision

\* As long as neither the authority nor the provider moved, what a run swept agrees.
SweptAgrees ==
    \A run \in runs : IsOfPresent(run) => \A o \in Observations : Agrees(o, run.from, run.to)

HistoryInvariant ==
    /\ HistoryTyped
    /\ acceptedHistory \in [Observations -> [at : Times, content : Contents] \cup {None}]
    /\ providerHistory \in [Observations -> ProviderRows \cup {None}]
    /\ AcceptedFromProvider /\ SweptAgrees /\ CompleteIsAccepted

\* A set of naturals that is not empty and has a bound has a largest member.
LEMMA BoundedHasLargest ==
    ASSUME NEW bound \in Nat, NEW S \in SUBSET (0 .. bound), S # {}
    PROVE  Max(S) \in S /\ \A x \in S : x <= Max(S)
<1> DEFINE T == {n \in Nat : bound - n \in S}
<1>1. T \subseteq Nat /\ T # {}
  <2>1. PICK x \in S : x \in 0 .. bound
    OBVIOUS
  <2>2. bound - x \in Nat /\ bound - (bound - x) = x
    BY <2>1
  <2> QED  BY <2>2
<1>2. PICK n \in T : \A m \in T : ~ (<<m, n>> \in OpToRel(<, Nat))
  <2> HIDE DEF T
  <2> QED  BY <1>1, NatLessThanWellFounded, WFMin
<1>3. \A m \in T : ~ (m < n)
  BY <1>1, <1>2 DEF OpToRel
<1>4. bound - n \in S /\ \A x \in S : bound - n >= x
  <2>1. \A x \in S : x \in 0 .. bound /\ bound - x \in T
    OBVIOUS
  <2> QED  BY <1>3, <2>1
<1> QED  BY <1>4 DEF Max

\* A new stream has no rows and no runs.
LEMMA HistoryInitially == HistoryInit => HistoryInvariant
<1> SUFFICES ASSUME HistoryInit PROVE HistoryInvariant
  OBVIOUS
<1> QED
  BY DEF HistoryInit, HistoryInvariant, HistoryTyped, AcceptedFromProvider, SweptAgrees,
         CompleteIsAccepted

\* How far the runs reach from the floor on is a moment, and each moment before it lies in one
\* of them.
LEMMA CoverageIsSwept ==
    ASSUME NEW some, some \subseteq Runs, CoveredThrough(some) # None
    PROVE  /\ CoveredThrough(some) \in Times
           /\ \A t \in SupportedFloor .. CoveredThrough(some) :
                 \E run \in some : run.from <= t /\ t <= run.to
<1> USE ReconciliationConstants DEF Times
<1> DEFINE S == {t \in SupportedFloor .. MaxTime : Chains(some, t)}
<1>1. Chains(some, SupportedFloor) /\ CoveredThrough(some) = Max(S)
  BY DEF CoveredThrough
<1>2. SupportedFloor \in S /\ S \in SUBSET (0 .. MaxTime)
  BY <1>1
<1>3. Max(S) \in S
  <2> HIDE DEF S
  <2> QED  BY <1>2, BoundedHasLargest
<1> DEFINE through == CoveredThrough(some)
<1>4. through \in SupportedFloor .. MaxTime /\ Chains(some, through)
  BY <1>1, <1>3
<1> HIDE DEF through, S
<1>5. ASSUME NEW t \in SupportedFloor .. through
      PROVE  \E run \in some : run.from <= t /\ t <= run.to
  <2>1. CASE t < through
    <3>1. PICK run \in some : run.from <= t /\ t < run.to
      BY <1>4, <2>1 DEF Chains
    <3> QED  BY <3>1 DEF Runs
  <2>2. CASE t = SupportedFloor
    BY <1>4, <2>2 DEF Chains
  <2>3. CASE t = through /\ t # SupportedFloor
    <3>1. t - 1 \in SupportedFloor .. through - 1
      BY <1>4, <2>3
    <3>2. PICK run \in some : run.from <= t - 1 /\ t - 1 < run.to
      BY <1>4, <3>1 DEF Chains
    <3> QED  BY <1>4, <3>2 DEF Runs
  <2> QED  BY <1>4, <2>1, <2>2, <2>3
<1> QED  BY <1>4, <1>5 DEF through

\* Once the authority or the provider moved, no run is of the present.
LEMMA MovingLeavesNoRun ==
    ASSUME HistoryInvariant, UNCHANGED <<runs, acceptedHistory>>,
           stream'.state # "complete", stream'.finalized \in Times \cup {None},
           providerAuthority' \in [generation : Nat, snapshot : Times, finality : Times,
                                   required : Times, revision : Nat],
           \/ /\ providerAuthority'.generation = providerAuthority.generation + 1
              /\ providerAuthority'.revision = providerAuthority.revision
           \/ /\ providerAuthority'.revision = providerAuthority.revision + 1
              /\ providerAuthority'.generation = providerAuthority.generation,
           providerHistory' \in [Observations -> ProviderRows \cup {None}],
           AcceptedFromProvider'
    PROVE  HistoryInvariant'
<1>1. \A run \in runs :
         /\ run.generation <= providerAuthority'.generation
         /\ run.revision <= providerAuthority'.revision
         /\ ~ (run.generation = providerAuthority'.generation
               /\ run.revision = providerAuthority'.revision)
  BY DEF HistoryInvariant, HistoryTyped, Runs
<1> QED
  BY <1>1 DEF HistoryInvariant, HistoryTyped, SweptAgrees, IsOfPresent, CompleteIsAccepted

\* The owner moves its authority.
LEMMA AdvanceKeepsHistory ==
    ASSUME HistoryInvariant, NEW snapshot \in Times, NEW finality \in Times,
           NEW required \in Times, AdvanceProviderAuthority(snapshot, finality, required)
    PROVE  HistoryInvariant'
<1>1. /\ providerAuthority' \in [generation : Nat, snapshot : Times, finality : Times,
                                 required : Times, revision : Nat]
      /\ providerAuthority'.generation = providerAuthority.generation + 1
      /\ providerAuthority'.revision = providerAuthority.revision
  BY DEF AdvanceProviderAuthority, HistoryInvariant, HistoryTyped
<1>2. stream'.state # "complete" /\ stream'.finalized = stream.finalized
  BY DEF AdvanceProviderAuthority, Uncovered
<1> QED
  BY <1>1, <1>2, MovingLeavesNoRun
  DEF AdvanceProviderAuthority, HistoryInvariant, HistoryTyped, AcceptedFromProvider

\* The provider writes a row.
LEMMA MutationKeepsHistory ==
    ASSUME HistoryInvariant, NEW o \in Observations, NEW row \in ProviderRows,
           MutateProviderHistory(o, row)
    PROVE  HistoryInvariant'
<1>1. /\ providerAuthority' \in [generation : Nat, snapshot : Times, finality : Times,
                                 required : Times, revision : Nat]
      /\ providerAuthority'.revision = providerAuthority.revision + 1
      /\ providerAuthority'.generation = providerAuthority.generation
  BY DEF MutateProviderHistory, HistoryInvariant, HistoryTyped
<1>2. stream'.state # "complete" /\ stream'.finalized = stream.finalized
  BY DEF MutateProviderHistory, Uncovered
<1>3. providerHistory' \in [Observations -> ProviderRows \cup {None}] /\ AcceptedFromProvider'
  BY ReconciliationConstants DEF MutateProviderHistory, HistoryInvariant, AcceptedFromProvider
<1> QED
  BY <1>1, <1>2, <1>3, MovingLeavesNoRun DEF MutateProviderHistory, HistoryInvariant, HistoryTyped

\* A sweep makes its own window agree and disturbs no other.
LEMMA SweepKeepsHistory ==
    ASSUME HistoryInvariant, NEW from \in Times, NEW to \in Times, Sweep(from, to)
    PROVE  HistoryInvariant'
<1> DEFINE run == [generation |-> providerAuthority.generation,
                   revision |-> providerAuthority.revision,
                   snapshot |-> providerAuthority.snapshot, from |-> from, to |-> to]
<1>1. /\ UNCHANGED <<providerAuthority, providerHistory>>
      /\ runs' = runs \cup {run}
      /\ \A o \in Observations : ~ Conflict(o, from, to)
      /\ acceptedHistory' =
            [o \in Observations |->
               IF Discovered(o, from, to) THEN CanonicalRow(providerHistory[o]) ELSE acceptedHistory[o]]
      /\ stream'.state # "complete" /\ stream'.finalized = stream.finalized
  BY DEF Sweep
<1>2. run \in Runs /\ run.generation = providerAuthority.generation
      /\ run.revision = providerAuthority.revision /\ run.from = from /\ run.to = to
  BY DEF HistoryInvariant, HistoryTyped, Runs
<1> HIDE DEF run
<1>3. HistoryTyped'
  BY <1>1, <1>2 DEF HistoryInvariant, HistoryTyped
<1>4. \A o \in Observations :
         providerHistory[o] # None => CanonicalRow(providerHistory[o]) \in [at : Times, content : Contents]
  BY DEF HistoryInvariant, ProviderRows, CanonicalRow
<1>5. /\ acceptedHistory' \in [Observations -> [at : Times, content : Contents] \cup {None}]
      /\ AcceptedFromProvider'
  BY <1>1, <1>4 DEF HistoryInvariant, AcceptedFromProvider, Discovered
<1>6. ASSUME NEW o \in Observations
      PROVE  /\ Agrees(o, from, to)'
             /\ \A start, end \in Times : Agrees(o, start, end) => Agrees(o, start, end)'
  BY <1>1 DEF HistoryInvariant, AcceptedFromProvider, Agrees, Conflict, Discovered, Within,
              CanonicalRow
<1>7. SweptAgrees'
  <2> SUFFICES ASSUME NEW other \in runs', IsOfPresent(other)', NEW o \in Observations
               PROVE  Agrees(o, other.from, other.to)'
    BY DEF SweptAgrees
  <2>1. CASE other = run
    BY <1>1, <1>2, <1>6, <2>1 DEF Agrees
  <2>2. CASE other \in runs
    BY <1>1, <1>6, <2>2 DEF HistoryInvariant, HistoryTyped, Runs, SweptAgrees, IsOfPresent
  <2> QED  BY <1>1, <2>1, <2>2
<1> QED  BY <1>1, <1>3, <1>5, <1>7 DEF HistoryInvariant, CompleteIsAccepted

\* A history is found complete when current runs cover it without a hole.
LEMMA FinalizeKeepsHistory ==
    ASSUME HistoryInvariant, NEW through \in Times, TryFinalize(through)
    PROVE  HistoryInvariant'
<1> USE ReconciliationConstants DEF HistoryInvariant
<1> DEFINE some == CurrentRuns(providerAuthority.generation, providerAuthority.required)
           required == RequiredThrough(through)
           covered == CoveredThrough(some)
           reached == covered # None /\ required <= covered /\ required <= providerAuthority.finality
<1>1. UNCHANGED <<providerAuthority, providerHistory, acceptedHistory, runs>>
  BY DEF TryFinalize
<1>2. required \in Times /\ required # None
  BY DEF RequiredThrough, HistoryTyped
<1>3. /\ stream'.state = (IF reached THEN "complete" ELSE "reconciliation_required")
      /\ stream'.finalized = (IF reached THEN required ELSE stream.finalized)
  BY DEF TryFinalize, RequiredThrough, HistoryTyped, Times
<1>4. ASSUME reached, NEW o \in Observations
      PROVE  Agrees(o, SupportedFloor, required)
  <2>1. some \subseteq Runs /\ \A run \in some : run \in runs /\ IsOfPresent(run)
    BY DEF CurrentRuns, IsOfPresent, HistoryTyped
  <2> HIDE DEF some, required
  <2>2. covered \in Times /\ required <= covered
    BY <1>4, <2>1, CoverageIsSwept
  <2>3. \A t \in SupportedFloor .. required :
           \E run \in some : Agrees(o, run.from, run.to) /\ run.from <= t /\ t <= run.to
    BY <1>2, <1>4, <2>1, <2>2, CoverageIsSwept DEF SweptAgrees, Times
  <2>4. \A t \in Times : Within(t, SupportedFloor, required) =>
           \E run \in some : Agrees(o, run.from, run.to) /\ Within(t, run.from, run.to)
    BY <1>2, <2>3 DEF Within, Times
  <2>5. /\ acceptedHistory[o] # None => acceptedHistory[o].at \in Times
        /\ providerHistory[o] # None => providerHistory[o].at \in Times
    BY DEF ProviderRows
  <2> QED  BY <2>4, <2>5 DEF Agrees
<1> HIDE DEF required, reached, covered, some
<1>5. HistoryTyped' /\ AcceptedFromProvider' /\ SweptAgrees'
  BY <1>1, <1>2, <1>3 DEF HistoryTyped, AcceptedFromProvider, SweptAgrees, IsOfPresent, Agrees
<1>6. CompleteIsAccepted'
  <2> SUFFICES ASSUME reached PROVE CompleteIsAccepted'
    BY <1>3 DEF CompleteIsAccepted
  <2>1. required <= providerAuthority.finality
    BY DEF reached
  <2> QED  BY <1>1, <1>2, <1>3, <1>4, <2>1 DEF CompleteIsAccepted, Agrees
<1> QED  BY <1>1, <1>5, <1>6

\* Every step of the reconciliation keeps the strengthening.
LEMMA HistoryStepKeeps == HistoryInvariant /\ [HistoryNext]_historyVars => HistoryInvariant'
<1> SUFFICES ASSUME HistoryInvariant, [HistoryNext]_historyVars PROVE HistoryInvariant'
  OBVIOUS
<1>1. CASE \E snapshot, finality, required \in Times :
              AdvanceProviderAuthority(snapshot, finality, required)
  BY <1>1, AdvanceKeepsHistory
<1>2. CASE \E o \in Observations, row \in ProviderRows : MutateProviderHistory(o, row)
  BY <1>2, MutationKeepsHistory
<1>3. CASE \E from, to \in Times : Sweep(from, to)
  BY <1>3, SweepKeepsHistory
<1>4. CASE \E through \in Times : TryFinalize(through)
  BY <1>4, FinalizeKeepsHistory
<1>5. CASE \E from \in Times : RecordUnrecoverableGap(from)
  BY <1>5 DEF RecordUnrecoverableGap, HistoryInvariant, HistoryTyped, AcceptedFromProvider,
              SweptAgrees, IsOfPresent, Agrees, CompleteIsAccepted
<1>6. CASE UNCHANGED historyVars
  BY <1>6 DEF historyVars, HistoryInvariant, HistoryTyped, AcceptedFromProvider,
              SweptAgrees, IsOfPresent, Agrees, CompleteIsAccepted
<1> QED  BY <1>1, <1>2, <1>3, <1>4, <1>5, <1>6 DEF HistoryNext

\* A history that says it is complete holds the provider's rows up to its watermark: every
\* moment up to it was swept since the authority and the provider last moved.
THEOREM HistoryCompleteIsAccepted == HistorySpec => []CompleteIsAccepted
<1>1. HistoryInvariant => CompleteIsAccepted
  BY DEF HistoryInvariant
<1> QED  BY HistoryInitially, HistoryStepKeeps, <1>1, PTL DEF HistorySpec

-----------------------------------------------------------------------------
(* Consumed assertions across a restore *)

\* What the argument needs of the shape of a database, of the witness and of the callers.
IsDatabase(d) ==
    /\ d = [epoch |-> d.epoch, open |-> d.open, used |-> d.used, redrive |-> d.redrive]
    /\ d.epoch \in Nat
    /\ d.used \in [Assertions -> [print : Prints, epoch : Nat] \cup {None}]

IsWitness(w) ==
    /\ w = [epoch |-> w.epoch, open |-> w.open, used |-> w.used, outcomes |-> w.outcomes]
    /\ w.epoch \in Nat
    /\ w.used \in [Assertions -> Prints \cup {None}]

ReplayShape ==
    /\ IsDatabase(db) /\ IsDatabase(dump) /\ IsWitness(witness)
    /\ callers \subseteq [a : Assertions, print : Prints, epoch : Nat]
    /\ wins \in [Assertions -> Nat]

\* Whatever was won is in the replay table.
Covers == \A a \in Assertions : wins[a] > 0 => db.used[a] # None

\* An open witness stands for a table that misses nothing.  A sealed one has everything that
\* was won while the database could still be replaced; afterwards the two have it together,
\* until the table is rebuilt from both.
NothingIsForgotten ==
    /\ \A a \in Assertions : wins[a] > 0 => db.used[a] # None \/ witness.used[a] # None
    /\ witness.open \/ step = "rebuilt" => Covers
    /\ ~witness.open /\ ~restored =>
          ~db.open /\ \A a \in Assertions : wins[a] > 0 => witness.used[a] # None
    /\ step \in {"draining", "reopened"} => witness.open

ReplayInvariant == ReplayShape /\ NothingIsForgotten

\* A row of the redrive table is not one of the replay table.
LEMMA SetRowEffect ==
    ASSUME IsDatabase(db), NEW o, NEW row, SetRow(o, row)
    PROVE  IsDatabase(db') /\ db'.used = db.used /\ db'.open = db.open /\ db'.epoch = db.epoch
  BY DEF IsDatabase, SetRow

\* A step that keeps the table, the gate and the wins.
LEMMA RedriveKeeps ==
    ASSUME ReplayInvariant, IsDatabase(db'), db'.used = db.used, db'.open = db.open,
           UNCHANGED <<witness, dump, wins, restored>>,
           callers' = callers, step' = step \/ step' = "idle"
    PROVE  ReplayInvariant'
  BY DEF ReplayInvariant, ReplayShape, NothingIsForgotten, Covers

\* What a consume that won leaves.
LEMMA ConsumeKeeps ==
    ASSUME ReplayInvariant, NEW c \in callers, Consume(c)
    PROVE  ReplayInvariant'
<1> USE DEF ReplayInvariant
<1>1. c.a \in Assertions /\ c.print \in Prints /\ c.epoch \in Nat
  BY DEF ReplayShape
<1>2. callers' \subseteq callers /\ UNCHANGED <<witness, dump, step, restored>>
  BY DEF Consume
<1>3. CASE ConsumeAnswer(c) = "WIN"
  <2> DEFINE r == [print |-> c.print, epoch |-> c.epoch]
  <2>1. db.open /\ db' = [db EXCEPT !.used[c.a] = r] /\ wins' = [wins EXCEPT ![c.a] = @ + 1]
    BY <1>3 DEF Consume, ConsumeAnswer
  <2>2. r \in [print : Prints, epoch : Nat] /\ r # None
    BY <1>1, ReplayConstants
  <2> HIDE DEF r
  <2>3. /\ db' = [epoch |-> db.epoch, open |-> db.open, used |-> [db.used EXCEPT ![c.a] = r],
                  redrive |-> db.redrive]
    BY <2>1 DEF ReplayShape, IsDatabase
  <2>4. /\ db'.used = [db.used EXCEPT ![c.a] = r] /\ db'.epoch = db.epoch /\ db'.open = db.open
        /\ db'.redrive = db.redrive
    BY <2>3
  <2>5. IsDatabase(db')
    BY <2>2, <2>3, <2>4 DEF ReplayShape, IsDatabase
  <2>6. /\ \A a \in Assertions : a # c.a => db'.used[a] = db.used[a] /\ wins'[a] = wins[a]
        /\ db'.used[c.a] # None
    BY <1>1, <2>1, <2>2, <2>4 DEF ReplayShape, IsDatabase
  <2>7. ReplayShape'
    BY <1>1, <1>2, <2>1, <2>5 DEF ReplayShape
  <2>8. witness.open \/ restored
    BY <2>1 DEF NothingIsForgotten
  <2>9. NothingIsForgotten'
    BY <1>2, <2>6, <2>8 DEF NothingIsForgotten, Covers
  <2> QED  BY <2>7, <2>9
<1>4. CASE ConsumeAnswer(c) # "WIN"
  BY <1>2, <1>4 DEF Consume, ReplayShape, NothingIsForgotten, Covers
<1> QED  BY <1>3, <1>4

\* The operator's own steps.
LEMMA SealKeeps ==
    ASSUME ReplayInvariant, NEW named \in SUBSET Ops, Seal(named)
    PROVE  ReplayInvariant'
<1> USE DEF ReplayInvariant
<1> DEFINE u == [a \in Assertions |-> IF db.used[a] = None THEN None ELSE db.used[a].print]
           os == [o \in Ops |-> IF o \in IssuedOps \cup named THEN Canonical(o) ELSE None]
<1>1. /\ step = "draining" /\ ~db.open /\ step' = "idle" /\ restored' = FALSE
      /\ witness' = [epoch |-> witness.epoch + 1, open |-> FALSE, used |-> u, outcomes |-> os]
      /\ UNCHANGED <<db, dump, callers, wins>>
  BY DEF Seal
<1>2. \A a \in Assertions : db.used[a] # None => db.used[a].print \in Prints
  BY DEF ReplayShape, IsDatabase
<1>3. u \in [Assertions -> Prints \cup {None}]
  BY <1>2
<1>4. \A a \in Assertions : db.used[a] # None => u[a] # None
  BY <1>2, ReplayConstants
<1> HIDE DEF u, os
<1>5. witness'.used = u /\ witness'.open = FALSE
  BY <1>1
<1>6. IsWitness(witness')
  BY <1>1, <1>3 DEF ReplayShape, IsWitness
<1>7. Covers
  BY <1>1 DEF NothingIsForgotten
<1>8. ReplayShape'
  BY <1>1, <1>6 DEF ReplayShape
<1>9. NothingIsForgotten'
  BY <1>1, <1>4, <1>5, <1>7 DEF NothingIsForgotten, Covers
<1> QED  BY <1>8, <1>9

LEMMA RestoreConsumedKeeps ==
    ASSUME ReplayInvariant, RestoreConsumed
    PROVE  ReplayInvariant'
<1> USE DEF ReplayInvariant
<1> DEFINE u == [a \in Assertions |->
                    IF witness.used[a] = None THEN db.used[a]
                    ELSE [print |-> witness.used[a], epoch |-> db.epoch]]
<1>1. /\ db' = [db EXCEPT !.used = u] /\ step' = "rebuilt"
      /\ UNCHANGED <<witness, dump, callers, wins, restored>>
  BY DEF RestoreConsumed
<1>2. \A a \in Assertions : witness.used[a] # None =>
          [print |-> witness.used[a], epoch |-> db.epoch] \in [print : Prints, epoch : Nat]
  BY DEF ReplayShape, IsWitness, IsDatabase
<1>3. u \in [Assertions -> [print : Prints, epoch : Nat] \cup {None}]
  BY <1>2 DEF ReplayShape, IsDatabase
<1>4. \A a \in Assertions : db.used[a] # None \/ witness.used[a] # None => u[a] # None
  BY <1>2, ReplayConstants
<1> HIDE DEF u
<1>5. db' = [epoch |-> db.epoch, open |-> db.open, used |-> u, redrive |-> db.redrive]
  BY <1>1 DEF ReplayShape, IsDatabase
<1>6. db'.used = u /\ db'.open = db.open /\ db'.epoch = db.epoch /\ db'.redrive = db.redrive
  BY <1>5
<1>7. IsDatabase(db')
  BY <1>3, <1>5, <1>6 DEF ReplayShape, IsDatabase
<1>8. ReplayShape'
  BY <1>1, <1>7 DEF ReplayShape
<1>9. NothingIsForgotten'
  BY <1>1, <1>4, <1>6 DEF NothingIsForgotten, Covers
<1> QED  BY <1>8, <1>9

LEMMA OperatorKeeps ==
    ASSUME ReplayInvariant,
           TakeDump \/ Drain \/ Restore \/ EnterQuarantine \/ OpenWitness \/ OpenDatabase \/ OperatorStops
    PROVE  ReplayInvariant'
<1> USE DEF ReplayInvariant
<1>1. CASE TakeDump
  BY <1>1 DEF TakeDump, ReplayShape, NothingIsForgotten, Covers
<1>2. CASE Drain
  <2>1. IsDatabase(db') /\ db'.used = db.used /\ ~db'.open
    BY <1>2 DEF Drain, ReplayShape, IsDatabase
  <2> QED  BY <1>2, <2>1 DEF Drain, ReplayShape, NothingIsForgotten, Covers
<1>3. CASE Restore
  BY <1>3 DEF Restore, ReplayShape, NothingIsForgotten, Covers
<1>4. CASE EnterQuarantine
  <2>1. IsDatabase(db') /\ db'.used = db.used /\ ~db'.open
    BY <1>4 DEF EnterQuarantine, ReplayShape, IsDatabase, IsWitness
  <2> QED  BY <1>4, <2>1 DEF EnterQuarantine, ReplayShape, NothingIsForgotten, Covers
<1>5. CASE OpenWitness
  <2>1. IsWitness(witness') /\ witness'.used = witness.used /\ witness'.open
    BY <1>5 DEF OpenWitness, ReplayShape, IsWitness
  <2> QED  BY <1>5, <2>1 DEF OpenWitness, ReplayShape, NothingIsForgotten, Covers
<1>6. CASE OpenDatabase
  <2>1. IsDatabase(db') /\ db'.used = db.used
    BY <1>6 DEF OpenDatabase, ReplayShape, IsDatabase
  <2> QED  BY <1>6, <2>1 DEF OpenDatabase, ReplayShape, NothingIsForgotten, Covers
<1>7. CASE OperatorStops
  BY <1>7 DEF OperatorStops, ReplayShape, NothingIsForgotten, Covers
<1> QED  BY <1>1, <1>2, <1>3, <1>4, <1>5, <1>6, <1>7

LEMMA ReplayInitially == ReplayInit => ReplayInvariant
  BY DEF ReplayInit, FreshDb, ReplayInvariant, ReplayShape, IsDatabase, IsWitness,
         NothingIsForgotten, Covers

LEMMA ReplayStepKeeps == ReplayInvariant /\ [ReplayNext]_replayVars => ReplayInvariant'
<1> SUFFICES ASSUME ReplayInvariant, [ReplayNext]_replayVars PROVE ReplayInvariant'
  OBVIOUS
<1>0. IsDatabase(db)
  BY DEF ReplayInvariant, ReplayShape
<1>1. CASE \E a \in Assertions, p \in Prints : Admit(a, p)
  BY <1>1 DEF Admit, ReplayInvariant, ReplayShape, IsWitness, NothingIsForgotten, Covers
<1>2. CASE \E c \in callers : Consume(c)
  BY <1>2, ConsumeKeeps
<1>3. CASE \E o \in Ops : Prepare(o) \/ Claim(o) \/ Resolve(o)
  BY <1>0, <1>3, SetRowEffect, RedriveKeeps DEF Prepare, Claim, Resolve, NoSeal
<1>4. CASE \E o \in Ops : RestoreOutcome(o)
  BY <1>0, <1>4, SetRowEffect, RedriveKeeps DEF RestoreOutcome
<1>5. CASE \E c \in issued : Send(c) \/ Probe(c)
  BY <1>0, <1>5, RedriveKeeps DEF Send, Probe, NoSeal
<1>6. CASE \E c \in issued : Complete(c) \/ MarkAmbiguous(c)
  BY <1>0, <1>6, SetRowEffect, RedriveKeeps DEF Complete, MarkAmbiguous, NoSeal
<1>7. CASE \E c \in issued : \E answer \in Answers(c) : Reconcile(c, answer)
  BY <1>0, <1>7, SetRowEffect, RedriveKeeps DEF Reconcile, NoSeal
<1>8. CASE \/ TakeDump \/ Drain \/ Restore \/ EnterQuarantine \/ OpenWitness \/ OpenDatabase
           \/ OperatorStops
  BY <1>8, OperatorKeeps
<1>9. CASE RestoreConsumed \/ \E named \in SUBSET Ops : Seal(named)
  BY <1>9, RestoreConsumedKeeps, SealKeeps
<1>10. CASE UNCHANGED replayVars
  BY <1>10 DEF replayVars, ReplayInvariant, ReplayShape, NothingIsForgotten, Covers
<1> QED  BY <1>1, <1>2, <1>3, <1>4, <1>5, <1>6, <1>7, <1>8, <1>9, <1>10 DEF ReplayNext

\* Whatever dump was restored and wherever the operator died, what was consumed stays
\* consumed once both authorities admit again.
THEOREM ReplayStaysConsumed == ReplaySpec => []ConsumedStaysConsumed
<1>1. ReplayInvariant => ConsumedStaysConsumed
  BY DEF ReplayInvariant, NothingIsForgotten, Covers, ConsumedStaysConsumed, Serving
<1> QED  BY <1>1, ReplayInitially, ReplayStepKeeps, PTL DEF ReplaySpec

-----------------------------------------------------------------------------
(* Effects across a restore *)

RedriveCaps == [op : Ops, gen : Nat \ {0}, token : Nat]
StoredRows == [state : RowStates, epoch : Nat, gen : Nat, token : Nat \cup {None},
               rev : RedriveCaps \cup {None}]
RedriveTyped ==
    /\ db.redrive \in [Ops -> StoredRows \cup {None}]
    /\ dump.redrive \in [Ops -> StoredRows \cup {None}]
    /\ effect \in [Ops -> RedriveCaps \cup {None}]
    /\ fence \in [Ops -> RedriveCaps \cup {None}]
    /\ issued \subseteq RedriveCaps /\ IsFiniteSet(issued)

\* The provider would still take c.
CanSend(c) == effect[c.op] = None /\ (fence[c.op] # None => fence[c.op].gen < c.gen)

\* An effect was sent by a claim, later than what was fenced.
EffectsAreLater ==
    \A o \in Ops : effect[o] # None =>
        /\ effect[o] \in issued /\ effect[o].op = o
        /\ fence[o] # None => fence[o].gen < effect[o].gen

\* What a row says of the provider, in the database and in a dump however old.
RowHolds(o, row) ==
    /\ row.state \in {"attempting", "reconciliation_required"} =>
          [op |-> o, gen |-> row.gen, token |-> row.token] \in issued
    /\ row.state = "prepared" /\ row.gen > 0 => fence[o] # None /\ fence[o].gen = row.gen
    /\ row.state = "completed" => effect[o] # None /\ row.rev = effect[o]
RowsHold(d) == \A o \in Ops : d.redrive[o] # None => RowHolds(o, d.redrive[o])

\* The row accounts for the effect there is, and for any that could still be sent.
Accounts(o) ==
    LET row == db.redrive[o] IN
    /\ effect[o] # None => row # None /\ row.gen = effect[o].gen /\ row.state # "prepared"
    /\ \A c \in issued : c.op = o /\ CanSend(c) =>
          row # None /\ row.gen = c.gen /\ row.state \in {"attempting", "reconciliation_required"}

Witnessed(o) ==
    effect[o] # None /\ witness.outcomes[o] # None
    /\ witness.outcomes[o] = [kind |-> "CONFIRMED", cap |-> effect[o]]

\* Each row accounts, except where a dump was restored under a sealed witness that has the
\* effect.  Until then the sealed witness has every effect, and none can be added.
EffectsAreKnown ==
    /\ \A o \in Ops : Accounts(o) \/ (~witness.open /\ restored /\ Witnessed(o))
    /\ ~witness.open /\ ~restored =>
          ~db.open /\ (\A c \in issued : ~CanSend(c)) /\ (\A o \in Ops : effect[o] # None => Witnessed(o))
    /\ step = "rebuilt" => \A o \in Ops \ todo : Accounts(o)
    /\ step \in {"draining", "reopened"} => witness.open

RedriveInvariant ==
    RedriveTyped /\ EffectsAreLater /\ RowsHold(db) /\ RowsHold(dump) /\ EffectsAreKnown

\* None is no capability, row or status.
LEMMA RedriveNone ==
    /\ None \notin RedriveCaps /\ None \notin StoredRows
    /\ \A cap \in RedriveCaps : [kind |-> "CONFIRMED", cap |-> cap] # None
<1>1. RedriveCaps \subseteq [op : Ops, gen : Nat, token : Nat]
  BY DEF RedriveCaps
<1>2. StoredRows \subseteq [state : RowStates, epoch : Nat, gen : Nat, token : Nat \cup {None},
                            rev : [op : Ops, gen : Nat, token : Nat] \cup {None}]
  BY <1>1 DEF StoredRows
<1>3. \A cap \in RedriveCaps : [kind |-> "CONFIRMED", cap |-> cap] \in
          [kind : {"CONFIRMED", "ABSENT"}, cap : [op : Ops, gen : Nat, token : Nat]]
  BY <1>1
<1> QED  BY <1>1, <1>2, <1>3, ReplayNoneAssumption

LEMMA SetRowRedrive ==
    ASSUME IsDatabase(db), RedriveTyped, NEW o \in Ops, NEW row, SetRow(o, row)
    PROVE  /\ db'.redrive = [db.redrive EXCEPT ![o] = row] /\ db'.open = db.open
           /\ db'.redrive[o] = row
           /\ \A x \in Ops \ {o} : db'.redrive[x] = db.redrive[x]
           /\ row \in StoredRows \cup {None} => db'.redrive \in [Ops -> StoredRows \cup {None}]
<1>1. db' = [epoch |-> db.epoch, open |-> db.open, used |-> db.used,
             redrive |-> [db.redrive EXCEPT ![o] = row]]
  BY DEF IsDatabase, SetRow
<1>2. db'.redrive = [db.redrive EXCEPT ![o] = row] /\ db'.open = db.open
  BY <1>1
<1> QED  BY <1>2 DEF RedriveTyped

\* A step that leaves the witness, and under a sealed one neither adds an effect nor opens.
LEMMA KnownKeeps ==
    ASSUME EffectsAreKnown, witness' = witness, restored' = restored,
           \A o \in Ops : Accounts(o) => Accounts(o)',
           \A o \in Ops : Witnessed(o) => Witnessed(o)',
           ~witness.open /\ ~restored =>
              ~db'.open /\ (\A c \in issued' : ~CanSend(c)')
              /\ (\A o \in Ops : effect'[o] # None => effect[o] # None),
           step' = step /\ (\A o \in Ops \ todo' : o \in todo => Accounts(o)')
    PROVE  EffectsAreKnown'
<1>1. \A o \in Ops : Accounts(o)' \/ (~witness.open /\ restored /\ Witnessed(o)')
  BY DEF EffectsAreKnown
<1>2. ~witness.open /\ ~restored =>
          ~db'.open /\ (\A c \in issued' : ~CanSend(c)') /\ (\A o \in Ops : effect'[o] # None => Witnessed(o)')
  BY DEF EffectsAreKnown
<1>3. step = "rebuilt" => \A o \in Ops \ todo' : Accounts(o)'
  BY DEF EffectsAreKnown
<1>4. step \in {"draining", "reopened"} => witness.open
  BY DEF EffectsAreKnown
<1> QED  BY <1>1, <1>2, <1>3, <1>4 DEF EffectsAreKnown

\* A step that writes one row.
LEMMA RowKeeps ==
    ASSUME IsDatabase(db), RedriveInvariant, NEW o \in Ops, NEW row \in StoredRows \cup {None}, SetRow(o, row),
           row # None => RowHolds(o, row), Accounts(o) => Accounts(o)',
           UNCHANGED <<witness, dump, restored, step, effect, fence, issued>>,
           todo' = todo \/ (todo' = todo \ {o} /\ Accounts(o)')
    PROVE  RedriveInvariant'
<1> USE DEF RedriveInvariant
<1>1. /\ db'.redrive[o] = row /\ \A x \in Ops \ {o} : db'.redrive[x] = db.redrive[x]
      /\ db'.redrive \in [Ops -> StoredRows \cup {None}] /\ db'.open = db.open
  BY SetRowRedrive
<1>2. RedriveTyped'
  BY <1>1 DEF RedriveTyped
<1>3. EffectsAreLater'
  BY DEF EffectsAreLater
<1>4. RowsHold(db)' /\ RowsHold(dump)'
  BY <1>1 DEF RowsHold, RowHolds
<1>5. (\A x \in Ops : Accounts(x) => Accounts(x)') /\ (\A c : CanSend(c)' <=> CanSend(c))
  BY <1>1 DEF Accounts, CanSend
<1>6. \A x \in Ops : Witnessed(x) => Witnessed(x)'
  BY DEF Witnessed
<1>7. ~witness.open /\ ~restored => ~db'.open /\ \A c \in issued' : ~CanSend(c)'
  BY <1>1, <1>5 DEF EffectsAreKnown
<1>8. EffectsAreKnown'
  BY <1>5, <1>6, <1>7, KnownKeeps
<1> QED  BY <1>2, <1>3, <1>4, <1>8

\* A stored row, and what it becomes.
LEMMA RowSettles ==
    ASSUME NEW row \in StoredRows, NEW s \in RowStates, NEW r \in RedriveCaps \cup {None}
    PROVE  LET new == [row EXCEPT !.state = s, !.token = None, !.rev = r] IN
           /\ new \in StoredRows /\ row.gen \in Nat
           /\ new.state = s /\ new.gen = row.gen /\ new.rev = r
  BY DEF StoredRows

LEMMA RowMoves ==
    ASSUME NEW row \in StoredRows, NEW e \in Nat
    PROVE  LET new == [row EXCEPT !.epoch = e] IN
           /\ new \in StoredRows /\ new.state = row.state /\ new.gen = row.gen
           /\ new.token = row.token /\ new.rev = row.rev
  BY DEF StoredRows

LEMMA SettledRow ==
    ASSUME NEW row \in StoredRows, NEW answer, answer.cap \in RedriveCaps
    PROVE  LET new == Settled(row, answer) IN
           /\ new \in StoredRows /\ new.gen = row.gen /\ new.rev = answer.cap
           /\ new.state = IF answer.kind = "CONFIRMED" THEN "completed" ELSE "prepared"
<1> DEFINE done == [row EXCEPT !.state = "completed", !.token = None, !.rev = answer.cap]
           back == [row EXCEPT !.state = "prepared", !.token = None, !.rev = answer.cap]
<1>1. /\ done \in StoredRows /\ row.gen \in Nat
      /\ done.state = "completed" /\ done.gen = row.gen /\ done.rev = answer.cap
  BY RowSettles DEF RowStates
<1>2. /\ back \in StoredRows /\ row.gen \in Nat
      /\ back.state = "prepared" /\ back.gen = row.gen /\ back.rev = answer.cap
  BY RowSettles DEF RowStates
<1>3. Settled(row, answer) = IF answer.kind = "CONFIRMED" THEN done ELSE back
  BY DEF Settled
<1> HIDE DEF done, back
<1> QED  BY <1>1, <1>2, <1>3

\* The row as a claim leaves it.
Claimed(row, t) == [row EXCEPT !.state = "attempting", !.gen = @ + 1, !.token = t, !.rev = None]
LEMMA ClaimedRow ==
    ASSUME NEW row \in StoredRows, NEW t \in Nat
    PROVE  LET new == Claimed(row, t) IN
           /\ new \in StoredRows /\ row.gen \in Nat
           /\ new.state = "attempting" /\ new.gen = row.gen + 1 /\ new.token = t
<1> DEFINE g == row.gen + 1
<1>1. row.gen \in Nat /\ g \in Nat
  BY DEF StoredRows
<1>2. Claimed(row, t) = [row EXCEPT !.state = "attempting", !.gen = g, !.token = t, !.rev = None]
  BY DEF Claimed
<1> HIDE DEF g
<1>3. LET new == [row EXCEPT !.state = "attempting", !.gen = g, !.token = t, !.rev = None] IN
      /\ new \in StoredRows
      /\ new.state = "attempting" /\ new.gen = g /\ new.token = t
  BY <1>1 DEF StoredRows, RowStates
<1> QED  BY <1>1, <1>2, <1>3 DEF g

\* An answer of the provider about operation o at generation g settles a row there.
LEMMA SettledHolds ==
    ASSUME RedriveInvariant, NEW o \in Ops, NEW row \in StoredRows, NEW answer,
           answer.kind = "CONFIRMED" => effect[o] # None /\ answer.cap = effect[o],
           answer.kind # "CONFIRMED" => fence[o] # None /\ answer.cap = fence[o] /\ fence[o].gen = row.gen
    PROVE  /\ Settled(row, answer) \in StoredRows /\ RowHolds(o, Settled(row, answer))
           /\ Settled(row, answer).gen = row.gen
           /\ answer.kind = "CONFIRMED" => Settled(row, answer).state = "completed"
<1> USE DEF RedriveInvariant
<1>1. answer.cap \in RedriveCaps
  BY DEF RedriveTyped
<1> DEFINE new == Settled(row, answer)
<1>2. /\ new \in StoredRows /\ new.gen = row.gen /\ new.rev = answer.cap
      /\ new.state = IF answer.kind = "CONFIRMED" THEN "completed" ELSE "prepared"
  BY <1>1, SettledRow
<1> HIDE DEF new
<1>3. RowHolds(o, new)
  BY <1>2 DEF RowHolds
<1> QED  BY <1>2, <1>3 DEF new

\* The workers, on rows of their operations.
LEMMA PrepareKeepsRedrive ==
    ASSUME ReplayInvariant, RedriveInvariant, NEW o \in Ops, Prepare(o)
    PROVE  RedriveInvariant'
<1> DEFINE row == [state |-> "prepared", epoch |-> db.epoch, gen |-> 0, token |-> None, rev |-> None]
<1>1. db.redrive[o] = None /\ SetRow(o, row) /\ UNCHANGED <<witness, dump, restored, step, effect, fence, issued, todo>>
  BY DEF Prepare, NoSeal
<1>2. IsDatabase(db) /\ row \in StoredRows /\ row.gen = 0 /\ row.state = "prepared"
  BY DEF ReplayInvariant, ReplayShape, IsDatabase, StoredRows, RowStates
<1> HIDE DEF row
<1>3. RowHolds(o, row)
  BY <1>2 DEF RowHolds
<1>4. Accounts(o) => Accounts(o)'
  BY <1>1 DEF Accounts, CanSend
<1> QED  BY <1>1, <1>2, <1>3, <1>4, RowKeeps

LEMMA CompleteKeepsRedrive ==
    ASSUME ReplayInvariant, RedriveInvariant, NEW c \in issued, Complete(c) \/ MarkAmbiguous(c)
    PROVE  RedriveInvariant'
<1> DEFINE o == c.op
           row == db.redrive[o]
<1>1. c \in RedriveCaps /\ o \in Ops /\ IsDatabase(db)
  BY DEF RedriveInvariant, RedriveTyped, RedriveCaps, ReplayInvariant, ReplayShape
<1>2. /\ row # None /\ row.state = "attempting" /\ row.gen = c.gen
      /\ UNCHANGED <<witness, dump, restored, step, effect, fence, issued, todo>>
  BY DEF Complete, MarkAmbiguous, At, NoSeal
<1>3. row \in StoredRows /\ RowHolds(o, row)
  BY <1>1, <1>2 DEF RedriveInvariant, RedriveTyped, RowsHold
<1>4. CASE Complete(c)
  <2> DEFINE new == [row EXCEPT !.state = "completed", !.token = None, !.rev = c]
  <2>1. SetRow(o, new) /\ effect[o] = c /\ effect[o] # None
    BY <1>1, <1>4, RedriveNone DEF Complete
  <2>2. new \in StoredRows /\ new.state = "completed" /\ new.gen = row.gen /\ new.rev = c
    <3> HIDE DEF row, o
    <3> QED  BY <1>1, <1>3 DEF StoredRows, RowStates
  <2> HIDE DEF new
  <2>3. RowHolds(o, new)
    BY <2>1, <2>2 DEF RowHolds
  <2>4. db'.redrive[o] = new
    BY <1>1, <2>1, SetRowRedrive DEF RedriveInvariant
  <2>5. Accounts(o) => Accounts(o)'
    BY <1>2, <2>1, <2>2, <2>4, RedriveNone DEF Accounts, CanSend
  <2> QED  BY <1>1, <1>2, <2>1, <2>2, <2>3, <2>5, RowKeeps
<1>5. CASE MarkAmbiguous(c)
  <2> DEFINE new == [row EXCEPT !.state = "reconciliation_required"]
  <2>1. SetRow(o, new)
    BY <1>5 DEF MarkAmbiguous
  <2>2. /\ new \in StoredRows /\ new.state = "reconciliation_required" /\ new.gen = row.gen
        /\ new.token = row.token
    BY <1>3 DEF RowStates, StoredRows
  <2> HIDE DEF new
  <2>3. RowHolds(o, new)
    BY <1>2, <1>3, <2>2 DEF RowHolds
  <2>4. db'.redrive[o] = new
    BY <1>1, <2>1, SetRowRedrive DEF RedriveInvariant
  <2>5. Accounts(o) => Accounts(o)'
    BY <1>2, <2>2, <2>4, RedriveNone DEF Accounts, CanSend
  <2> QED  BY <1>1, <1>2, <2>1, <2>2, <2>3, <2>5, RowKeeps
<1> QED  BY <1>4, <1>5

\* An effect excludes absence, and absence at the generation of the row excludes effects.
LEMMA AbsenceAccounts ==
    ASSUME RedriveInvariant, NEW o \in Ops, Accounts(o), db.redrive[o] # None,
           fence[o] # None, fence[o].gen = db.redrive[o].gen
    PROVE  effect[o] = None /\ \A c \in issued : c.op = o => ~CanSend(c)
<1>1. fence[o].gen \in Nat
  BY DEF RedriveInvariant, RedriveTyped, RedriveCaps
<1>2. effect[o] = None
  BY <1>1 DEF RedriveInvariant, EffectsAreLater, Accounts
<1> QED  BY <1>1, <1>2 DEF Accounts, CanSend

\* Settling the row of an operation from what the provider holds.
LEMMA SettlingAccounts ==
    ASSUME RedriveInvariant, NEW o \in Ops, NEW row, row # None, row.gen = db.redrive[o].gen,
           db'.redrive[o] = row, db.redrive[o] # None, UNCHANGED <<effect, fence, issued>>,
           \/ effect[o] # None /\ row.state = "completed"
           \/ fence[o] # None /\ fence[o].gen = db.redrive[o].gen
    PROVE  Accounts(o) => Accounts(o)'
<1>1. CASE effect[o] # None /\ row.state = "completed"
  BY <1>1 DEF Accounts, CanSend
<1>2. CASE fence[o] # None /\ fence[o].gen = db.redrive[o].gen
  BY <1>2, AbsenceAccounts DEF Accounts, CanSend
<1> QED  BY <1>1, <1>2

LEMMA ReconcileKeepsRedrive ==
    ASSUME ReplayInvariant, RedriveInvariant, NEW c \in issued, NEW answer \in Answers(c),
           Reconcile(c, answer)
    PROVE  RedriveInvariant'
<1> DEFINE o == c.op
           row == db.redrive[o]
           new == Settled(row, answer)
<1>1. c \in RedriveCaps /\ o \in Ops /\ IsDatabase(db) /\ c # None
  BY RedriveNone DEF RedriveInvariant, RedriveTyped, RedriveCaps, ReplayInvariant, ReplayShape
<1>2. /\ row # None /\ row.gen = c.gen /\ SetRow(o, new)
      /\ UNCHANGED <<witness, dump, restored, step, effect, fence, issued, todo>>
  BY DEF Reconcile, At, NoSeal
<1>3. row \in StoredRows
  BY <1>1, <1>2 DEF RedriveInvariant, RedriveTyped
<1>4. \/ answer.kind = "CONFIRMED" /\ effect[o] # None /\ answer.cap = effect[o]
      \/ answer.kind = "ABSENT" /\ fence[o] = c /\ answer.cap = c
  BY DEF Answers
<1>5. /\ new \in StoredRows /\ RowHolds(o, new) /\ new.gen = row.gen
      /\ answer.kind = "CONFIRMED" => new.state = "completed"
  BY <1>1, <1>2, <1>3, <1>4, SettledHolds
<1> HIDE DEF new
<1>6. db'.redrive[o] = new /\ new # None
  BY <1>1, <1>2, <1>5, SetRowRedrive, RedriveNone DEF RedriveInvariant
<1>7. Accounts(o) => Accounts(o)'
  BY <1>1, <1>2, <1>4, <1>5, <1>6, SettlingAccounts
<1> QED  BY <1>1, <1>2, <1>5, <1>7, RowKeeps

LEMMA ClaimKeepsRedrive ==
    ASSUME ReplayInvariant, RedriveInvariant, NEW o \in Ops, Claim(o)
    PROVE  RedriveInvariant'
<1> USE DEF RedriveInvariant
<1> DEFINE row == db.redrive[o]
           token == Cardinality(issued) + 1
           new == Claimed(row, token)
           c == [op |-> o, gen |-> row.gen + 1, token |-> token]
<1>1. /\ row # None /\ db.open /\ row.state = "prepared" /\ SetRow(o, new) /\ issued' = issued \cup {c}
      /\ UNCHANGED <<witness, dump, restored, step, effect, fence, todo>>
  BY DEF Claim, NoSeal, Claimed
<1>2. row \in StoredRows /\ IsDatabase(db)
  BY <1>1 DEF RedriveTyped, ReplayInvariant, ReplayShape
<1>3. token \in Nat
  BY FS_CardinalityType DEF RedriveTyped
<1> HIDE DEF token
<1>4. /\ new \in StoredRows /\ new.state = "attempting" /\ new.gen = row.gen + 1 /\ new.token = token
      /\ row.gen \in Nat
  BY <1>2, <1>3, ClaimedRow
<1>5. c \in RedriveCaps /\ c.op = o /\ c.gen = row.gen + 1
  BY <1>3, <1>4 DEF RedriveCaps
<1>6. c = [op |-> o, gen |-> new.gen, token |-> new.token]
  BY <1>4
<1> HIDE DEF new, c
<1>7. /\ db'.redrive[o] = new /\ \A x \in Ops \ {o} : db'.redrive[x] = db.redrive[x]
      /\ db'.redrive \in [Ops -> StoredRows \cup {None}] /\ db'.open = db.open /\ new # None
  BY <1>1, <1>2, <1>4, SetRowRedrive, RedriveNone
<1>8. RedriveTyped'
  <2>1. IsFiniteSet(issued \cup {c})
    BY FS_AddElement DEF RedriveTyped
  <2> QED  BY <1>1, <1>5, <1>7, <2>1 DEF RedriveTyped
<1>9. EffectsAreLater'
  BY <1>1 DEF EffectsAreLater
<1>10. RowsHold(db)' /\ RowsHold(dump)'
  BY <1>1, <1>4, <1>6, <1>7 DEF RowsHold, RowHolds
<1>11. Accounts(o) => Accounts(o)'
  <2> SUFFICES ASSUME Accounts(o) PROVE Accounts(o)'
    OBVIOUS
  <2>1. effect[o] = None /\ \A x \in issued : x.op = o => ~CanSend(x)
    BY <1>1 DEF Accounts
  <2>2. \A x \in issued' : x.op = o /\ CanSend(x)' => x = c
    BY <1>1, <2>1 DEF CanSend
  <2> QED  BY <1>1, <1>4, <1>5, <1>7, <2>1, <2>2 DEF Accounts
<1>12. \A x \in Ops : Accounts(x) => Accounts(x)'
  <2> SUFFICES ASSUME NEW x \in Ops \ {o}, Accounts(x) PROVE Accounts(x)'
    BY <1>11
  <2>1. \A y \in issued' : y.op = x => y \in issued
    BY <1>1, <1>5
  <2> QED  BY <1>1, <1>7, <2>1 DEF Accounts, CanSend
<1>13. (\A x \in Ops : Witnessed(x) => Witnessed(x)') /\ (witness.open \/ restored)
  BY <1>1 DEF Witnessed, EffectsAreKnown
<1>14. EffectsAreKnown'
  BY <1>1, <1>12, <1>13, KnownKeeps
<1> QED  BY <1>8, <1>9, <1>10, <1>14

\* What the provider takes: an effect of a claim it would still take, or the fence of an
\* operation it has nothing of.
LEMMA SendKeepsRedrive ==
    ASSUME RedriveInvariant, NEW c \in issued, Send(c)
    PROVE  RedriveInvariant'
<1> USE DEF RedriveInvariant
<1> DEFINE o == c.op
<1>1. /\ CanSend(c) /\ effect' = [effect EXCEPT ![o] = c] /\ effect[o] = None
      /\ UNCHANGED <<db, witness, dump, restored, step, fence, issued, todo>>
  BY DEF Send, NoSeal, CanSend
<1>2. c \in RedriveCaps /\ o \in Ops /\ c # None
  BY RedriveNone DEF RedriveTyped, RedriveCaps
<1>3. effect'[o] = c /\ \A x \in Ops \ {o} : effect'[x] = effect[x]
  BY <1>1, <1>2 DEF RedriveTyped
<1>4. RedriveTyped'
  BY <1>1, <1>2 DEF RedriveTyped
<1>5. EffectsAreLater'
  BY <1>1, <1>2, <1>3 DEF EffectsAreLater, CanSend
<1>6. RowsHold(db)' /\ RowsHold(dump)'
  BY <1>1, <1>2, <1>3 DEF RowsHold, RowHolds
<1>7. \A x \in Ops : Accounts(x) => Accounts(x)'
  <2>1. Accounts(o) => Accounts(o)'
    BY <1>1, <1>2, <1>3 DEF Accounts, CanSend
  <2>2. \A x \in Ops \ {o} : Accounts(x) => Accounts(x)'
    BY <1>1, <1>2, <1>3 DEF Accounts, CanSend
  <2> QED  BY <2>1, <2>2
<1>8. (\A x \in Ops : Witnessed(x) => Witnessed(x)') /\ (witness.open \/ restored)
  BY <1>1, <1>3 DEF Witnessed, EffectsAreKnown
<1>9. EffectsAreKnown'
  BY <1>1, <1>7, <1>8, KnownKeeps
<1> QED  BY <1>4, <1>5, <1>6, <1>9

\* Fencing an operation, its row being settled from that or not.
LEMMA FenceKeeps ==
    ASSUME RedriveInvariant, NEW c \in issued, effect[c.op] = None, fence[c.op] = None,
           fence' = [fence EXCEPT ![c.op] = c],
           UNCHANGED <<effect, issued, dump, witness>>
    PROVE  /\ fence'[c.op] = c /\ c \in RedriveCaps /\ c # None
           /\ \A x \in Ops \ {c.op} : fence'[x] = fence[x]
           /\ fence' \in [Ops -> RedriveCaps \cup {None}]
           /\ EffectsAreLater' /\ RowsHold(dump)'
           /\ \A x \in Ops : \A row : RowHolds(x, row) => RowHolds(x, row)'
           /\ \A x \in issued : x.op \in Ops /\ (CanSend(x)' => CanSend(x))
           /\ \A x \in Ops : Witnessed(x)' <=> Witnessed(x)
<1> USE DEF RedriveInvariant
<1>1. c \in RedriveCaps /\ c.op \in Ops /\ c # None
  BY RedriveNone DEF RedriveTyped, RedriveCaps
<1>2. fence'[c.op] = c /\ \A x \in Ops \ {c.op} : fence'[x] = fence[x]
  BY <1>1 DEF RedriveTyped
<1>3. \A x \in Ops : \A row : RowHolds(x, row) => RowHolds(x, row)'
  BY <1>1, <1>2 DEF RowHolds
<1>4. \A x \in issued : x.op \in Ops /\ (CanSend(x)' => CanSend(x))
  BY <1>1, <1>2 DEF RedriveTyped, RedriveCaps, CanSend
<1>5. fence' \in [Ops -> RedriveCaps \cup {None}]
  BY <1>1 DEF RedriveTyped
<1>6. EffectsAreLater'
  BY <1>1, <1>2 DEF EffectsAreLater
<1>7. RowsHold(dump)'
  BY <1>3 DEF RowsHold
<1>8. \A x \in Ops : Witnessed(x)' <=> Witnessed(x)
  BY DEF Witnessed
<1> QED  BY <1>1, <1>2, <1>3, <1>4, <1>5, <1>6, <1>7, <1>8

LEMMA ProbeKeepsRedrive ==
    ASSUME RedriveInvariant, NEW c \in issued, Probe(c)
    PROVE  RedriveInvariant'
<1> USE DEF RedriveInvariant
<1>1. /\ effect[c.op] = None /\ fence[c.op] = None /\ fence' = [fence EXCEPT ![c.op] = c]
      /\ UNCHANGED <<db, witness, dump, restored, step, effect, issued, todo>>
  BY DEF Probe, NoSeal
<1>2. RedriveTyped' /\ EffectsAreLater' /\ RowsHold(dump)'
  BY <1>1, FenceKeeps DEF RedriveTyped
<1>3. RowsHold(db)'
  BY <1>1, FenceKeeps DEF RowsHold
<1>4. \A x \in issued : CanSend(x)' => CanSend(x)
  BY <1>1, FenceKeeps
<1>5. \A x \in Ops : Accounts(x) => Accounts(x)'
  BY <1>1, <1>4 DEF Accounts
<1>6. \A x \in Ops : Witnessed(x) => Witnessed(x)'
  BY <1>1 DEF Witnessed
<1>7. EffectsAreKnown'
  <2>1. ~witness.open /\ ~restored => ~db'.open /\ \A x \in issued' : ~CanSend(x)'
    BY <1>1, <1>4 DEF EffectsAreKnown
  <2> QED  BY <1>1, <1>5, <1>6, <2>1, KnownKeeps
<1> QED  BY <1>2, <1>3, <1>7

\* The operator resolves an ambiguous row, fencing its operation if nothing is known of it.
LEMMA ResolveKeepsRedrive ==
    ASSUME ReplayInvariant, RedriveInvariant, NEW o \in Ops, Resolve(o)
    PROVE  RedriveInvariant'
<1> USE DEF RedriveInvariant
<1> DEFINE row == db.redrive[o]
           c == [op |-> o, gen |-> row.gen, token |-> row.token]
           fenced == IF effect[o] = None /\ fence[o] = None THEN [fence EXCEPT ![o] = c] ELSE fence
           answer == IF effect[o] # None THEN [kind |-> "CONFIRMED", cap |-> effect[o]]
                     ELSE [kind |-> "ABSENT", cap |-> fenced[o]]
           new == Settled(row, answer)
<1>1. /\ row # None /\ row.state \in {"attempting", "reconciliation_required"}
      /\ answer.cap = c /\ fence' = fenced /\ SetRow(o, new)
      /\ UNCHANGED <<witness, dump, restored, step, effect, issued, todo>>
  BY DEF Resolve, NoSeal, Unresolved
<1>2. row \in StoredRows /\ IsDatabase(db) /\ RowHolds(o, row)
  BY <1>1 DEF RedriveTyped, ReplayInvariant, ReplayShape, RowsHold
<1>3. c \in issued /\ c.op = o /\ c.gen = row.gen
  BY <1>1, <1>2 DEF RowHolds
<1>4. c \in RedriveCaps
  BY <1>3 DEF RedriveTyped
<1>5. /\ effect[o] # None => answer.kind = "CONFIRMED" /\ effect[o] = c
      /\ effect[o] = None => answer.kind = "ABSENT" /\ fenced[o] = c
  BY <1>1
<1> HIDE DEF answer
<1>6. /\ new \in StoredRows /\ new.gen = row.gen /\ new.rev = c
      /\ new.state = IF answer.kind = "CONFIRMED" THEN "completed" ELSE "prepared"
  BY <1>1, <1>2, <1>4, SettledRow
<1> HIDE DEF new
<1>7. CASE fenced = fence
  <2>1. RowHolds(o, new)
    BY <1>3, <1>4, <1>5, <1>6, <1>7, RedriveNone DEF RowHolds
  <2>2. db'.redrive[o] = new /\ new # None
    BY <1>1, <1>2, <1>6, SetRowRedrive, RedriveNone
  <2>3. Accounts(o) => Accounts(o)'
    <3>1. \/ effect[o] # None /\ new.state = "completed"
          \/ fence[o] # None /\ fence[o].gen = row.gen
      BY <1>3, <1>4, <1>5, <1>6, <1>7, RedriveNone
    <3> QED  BY <1>1, <1>6, <1>7, <2>2, <3>1, SettlingAccounts
  <2> QED  BY <1>1, <1>2, <1>6, <1>7, <2>1, <2>3, RowKeeps
<1>8. CASE fenced # fence
  <2>1. effect[o] = None /\ fence[o] = None /\ fence' = [fence EXCEPT ![c.op] = c]
    BY <1>1, <1>3, <1>8
  <2> HIDE DEF c, fenced
  <2>2. /\ fence'[o] = c /\ c # None /\ fence' \in [Ops -> RedriveCaps \cup {None}]
        /\ EffectsAreLater' /\ RowsHold(dump)'
        /\ \A x \in Ops : \A r : RowHolds(x, r) => RowHolds(x, r)'
        /\ \A x \in issued : x.op \in Ops /\ (CanSend(x)' => CanSend(x))
        /\ \A x \in Ops : Witnessed(x)' <=> Witnessed(x)
    BY <1>1, <1>3, <2>1, FenceKeeps
  <2>3. /\ db'.redrive[o] = new /\ new # None /\ db'.open = db.open
        /\ \A x \in Ops \ {o} : db'.redrive[x] = db.redrive[x]
        /\ db'.redrive \in [Ops -> StoredRows \cup {None}]
    BY <1>1, <1>2, <1>6, SetRowRedrive, RedriveNone
  <2>4. RedriveTyped'
    BY <1>1, <2>2, <2>3 DEF RedriveTyped
  <2>5. new.state = "prepared" /\ \A r : r = new => RowHolds(o, r)'
    BY <1>3, <1>5, <1>6, <2>1, <2>2 DEF RowHolds
  <2>6. RowsHold(db)'
    BY <2>2, <2>3, <2>5 DEF RowsHold
  <2>7. \A x \in Ops : Accounts(x) => Accounts(x)'
    <3>1. ASSUME Accounts(o) PROVE \A x \in issued : x.op = o => ~CanSend(x)'
      <4>1. \A x \in issued : x.op = o /\ CanSend(x) => x.gen = c.gen
        BY <1>3, <3>1 DEF Accounts
      <4>2. \A x \in issued : x.op = o /\ CanSend(x)' => c.gen < x.gen
        BY <2>2 DEF CanSend
      <4>3. c.gen \in Nat /\ \A x \in issued : CanSend(x)' => CanSend(x)
        BY <1>4, <2>2 DEF RedriveCaps
      <4> QED  BY <4>1, <4>2, <4>3
    <3>2. Accounts(o) => Accounts(o)'
      BY <1>1, <2>1, <3>1 DEF Accounts
    <3>3. \A x \in Ops \ {o} : Accounts(x) => Accounts(x)'
      BY <1>1, <2>2, <2>3 DEF Accounts
    <3> QED  BY <3>2, <3>3
  <2>8. EffectsAreKnown'
    <3>1. ~witness.open /\ ~restored => ~db'.open /\ \A x \in issued' : ~CanSend(x)'
      BY <1>1, <2>2, <2>3 DEF EffectsAreKnown
    <3>2. \A x \in Ops : Witnessed(x) => Witnessed(x)'
      BY <2>2
    <3> QED  BY <1>1, <2>7, <3>1, <3>2, KnownKeeps
  <2> QED  BY <2>2, <2>4, <2>6, <2>8
<1> QED  BY <1>7, <1>8

\* A boundary is sealed once nothing can be sent, and has every effect.
LEMMA SealKeepsRedrive ==
    ASSUME RedriveInvariant, NEW named \in SUBSET Ops, Seal(named)
    PROVE  RedriveInvariant'
<1> USE DEF RedriveInvariant
<1>1. /\ step = "draining" /\ Unresolved = {} /\ ~db.open
      /\ witness'.open = FALSE /\ step' = "idle" /\ restored' = FALSE
      /\ witness'.outcomes = [o \in Ops |-> IF o \in IssuedOps \cup named THEN Canonical(o) ELSE None]
      /\ UNCHANGED <<db, effect, fence, dump, issued, todo>>
  BY DEF Seal
<1>2. \A o \in Ops : Accounts(o)
  BY <1>1 DEF EffectsAreKnown
<1>3. \A c \in issued : ~CanSend(c)
  <2> SUFFICES ASSUME NEW c \in issued, CanSend(c) PROVE FALSE
    OBVIOUS
  <2>1. c.op \in Ops
    BY DEF RedriveTyped, RedriveCaps
  <2>2. c.op \in Unresolved
    BY <1>2, <2>1 DEF Accounts, Unresolved
  <2> QED  BY <1>1, <2>2
<1>4. \A o \in Ops : effect[o] # None => Witnessed(o)'
  <2> SUFFICES ASSUME NEW o \in Ops, effect[o] # None PROVE Witnessed(o)'
    OBVIOUS
  <2>1. effect[o] \in RedriveCaps /\ effect[o].gen > 0
    BY DEF RedriveTyped, RedriveCaps
  <2>2. db.redrive[o] # None /\ db.redrive[o].gen > 0
    BY <1>2, <2>1 DEF Accounts
  <2>3. o \in IssuedOps
    BY <2>2 DEF IssuedOps
  <2>4. witness'.outcomes[o] = [kind |-> "CONFIRMED", cap |-> effect[o]]
    BY <1>1, <2>3 DEF Canonical
  <2> QED  BY <1>1, <2>1, <2>4, RedriveNone DEF Witnessed
<1>5. RedriveTyped' /\ EffectsAreLater' /\ RowsHold(db)' /\ RowsHold(dump)'
  BY <1>1 DEF RedriveTyped, EffectsAreLater, RowsHold, RowHolds
<1>6. (\A o \in Ops : Accounts(o)') /\ (\A c \in issued' : ~CanSend(c)')
  BY <1>1, <1>2, <1>3 DEF Accounts, CanSend
<1>7. EffectsAreKnown'
  BY <1>1, <1>4, <1>6 DEF EffectsAreKnown
<1> QED  BY <1>5, <1>7

\* The database goes back to a dump: each effect there is was witnessed.
LEMMA RestoreKeepsRedrive ==
    ASSUME RedriveInvariant, Restore
    PROVE  RedriveInvariant'
<1> USE DEF RedriveInvariant
<1>1. /\ step = "idle" /\ ~witness.open /\ ~restored /\ db' = dump /\ restored' = TRUE
      /\ UNCHANGED <<witness, effect, fence, dump, issued, step, todo>>
  BY DEF Restore
<1>2. RedriveTyped' /\ EffectsAreLater' /\ RowsHold(db)' /\ RowsHold(dump)'
  BY <1>1 DEF RedriveTyped, EffectsAreLater, RowsHold, RowHolds
<1>3. \A o \in Ops : effect[o] = None => Accounts(o)'
  BY <1>1 DEF EffectsAreKnown, Accounts, CanSend
<1>4. \A o \in Ops : effect[o] # None => Witnessed(o)'
  BY <1>1 DEF EffectsAreKnown, Witnessed
<1>5. EffectsAreKnown'
  BY <1>1, <1>3, <1>4 DEF EffectsAreKnown
<1> QED  BY <1>2, <1>5

\* The operator's other steps, and the consumes, leave rows and provider alone.
LEMMA OperatorKeepsRedrive ==
    ASSUME ReplayInvariant, RedriveInvariant,
           \/ TakeDump \/ Drain \/ EnterQuarantine \/ RestoreConsumed \/ OpenWitness
           \/ OpenDatabase \/ OperatorStops
           \/ \E a \in Assertions, p \in Prints : Admit(a, p)
           \/ \E c \in callers : Consume(c)
    PROVE  RedriveInvariant'
<1> USE DEF RedriveInvariant
<1>1. /\ db'.redrive = db.redrive /\ (db'.open => db.open \/ witness'.open)
      /\ UNCHANGED <<effect, fence, issued, restored>> /\ witness'.outcomes = witness.outcomes
      /\ dump' \in {dump, db}
      /\ witness'.open => witness.open \/ (step = "rebuilt" /\ todo = {})
      /\ witness.open => witness'.open
      /\ step' \in {"draining", "reopened"} => witness'.open
      /\ step' = "rebuilt" => \/ step = "rebuilt" /\ todo' = todo
                              \/ todo' = {o \in Ops : witness.outcomes[o] # None}
  <2>1. IsDatabase(db) /\ IsWitness(witness)
    BY DEF ReplayInvariant, ReplayShape
  <2>2. step \in {"draining", "reopened"} => witness.open
    BY DEF EffectsAreKnown
  <2>3. CASE TakeDump \/ OperatorStops \/ \E a \in Assertions, p \in Prints : Admit(a, p)
    BY <2>2, <2>3 DEF TakeDump, OperatorStops, Admit
  <2>4. CASE Drain \/ EnterQuarantine
    BY <2>1, <2>4 DEF Drain, EnterQuarantine, IsDatabase
  <2>5. CASE RestoreConsumed
    BY <2>1, <2>5 DEF RestoreConsumed, IsDatabase
  <2>6. CASE OpenWitness
    BY <2>1, <2>6 DEF OpenWitness, IsWitness
  <2>7. CASE OpenDatabase
    BY <2>1, <2>2, <2>7 DEF OpenDatabase, IsDatabase
  <2>8. CASE \E c \in callers : Consume(c)
    <3>1. UNCHANGED <<witness, effect, fence, dump, issued, step, todo, restored>>
      BY <2>8 DEF Consume
    <3>2. db'.redrive = db.redrive /\ db'.open = db.open
      <4>1. PICK c \in callers : Consume(c)
        BY <2>8
      <4> DEFINE u == [db.used EXCEPT ![c.a] = [print |-> c.print, epoch |-> c.epoch]]
      <4>2. db' = [db EXCEPT !.used = u] \/ db' = db
        BY <4>1 DEF Consume
      <4> HIDE DEF u
      <4> QED  BY <2>1, <4>2 DEF IsDatabase
    <3> QED  BY <2>2, <3>1, <3>2
  <2> QED  BY <2>3, <2>4, <2>5, <2>6, <2>7, <2>8
<1>2. RedriveTyped' /\ EffectsAreLater' /\ RowsHold(db)' /\ RowsHold(dump)'
  BY <1>1 DEF RedriveTyped, EffectsAreLater, RowsHold, RowHolds
<1>3. /\ \A o \in Ops : (Accounts(o)' <=> Accounts(o)) /\ (Witnessed(o)' <=> Witnessed(o))
      /\ \A c : CanSend(c)' <=> CanSend(c)
  BY <1>1 DEF Accounts, CanSend, Witnessed
<1>4. \A o \in Ops : Accounts(o)' \/ (~witness'.open /\ restored' /\ Witnessed(o)')
  BY <1>1, <1>3 DEF EffectsAreKnown
<1>5. ~witness'.open /\ ~restored' =>
          ~db'.open /\ (\A c \in issued' : ~CanSend(c)')
          /\ (\A o \in Ops : effect'[o] # None => Witnessed(o)')
  BY <1>1, <1>3 DEF EffectsAreKnown
<1>6. step' = "rebuilt" => \A o \in Ops \ todo' : Accounts(o)'
  BY <1>1, <1>3 DEF EffectsAreKnown, Witnessed
<1>7. EffectsAreKnown'
  BY <1>1, <1>4, <1>5, <1>6 DEF EffectsAreKnown
<1> QED  BY <1>2, <1>7

\* What the witness and a fresh probe agree on settles a row of the restored database.
LEMMA RestoreOutcomeKeepsRedrive ==
    ASSUME ReplayInvariant, RedriveInvariant, NEW o \in Ops, RestoreOutcome(o)
    PROVE  RedriveInvariant'
<1> USE DEF RedriveInvariant
<1> DEFINE status == witness.outcomes[o]
           row == db.redrive[o]
           new == Rehydrated(o)
<1>1. /\ step = "rebuilt" /\ Restorable(o) /\ SetRow(o, new) /\ todo' = todo \ {o}
      /\ UNCHANGED <<witness, effect, fence, dump, issued, step, restored>>
  BY DEF RestoreOutcome
<1>2. IsDatabase(db) /\ db.epoch \in Nat
  BY DEF ReplayInvariant, ReplayShape, IsDatabase
<1>3. Accounts(o) \/ Witnessed(o)
  BY DEF EffectsAreKnown
<1>4. Witnessed(o) => status.kind = "CONFIRMED" /\ status.cap = effect[o] /\ effect[o] # None
  BY DEF Witnessed
<1>5. CASE row = None
  <2>1. Accounts(o) => effect[o] = None /\ \A c \in issued : c.op = o => ~CanSend(c)
    BY <1>5 DEF Accounts
  <2>2. CASE status.cap = None
    <3>1. new = None /\ effect[o] = None /\ Accounts(o)
      BY <1>3, <1>4, <1>5, <2>1, <2>2 DEF Rehydrated
    <3>2. db'.redrive[o] = None
      BY <1>1, <1>2, <3>1, SetRowRedrive
    <3>3. Accounts(o)'
      BY <1>1, <1>5, <3>1, <3>2 DEF Accounts, CanSend
    <3> QED  BY <1>1, <1>2, <3>1, <3>3, RowKeeps
  <2>3. CASE status.cap # None
    <3> DEFINE base == [state |-> "prepared", epoch |-> db.epoch, gen |-> status.cap.gen,
                        token |-> None, rev |-> None]
    <3>1. /\ new = Settled(base, status)
          /\ status.kind = "CONFIRMED" => effect[o] = status.cap
          /\ status.kind # "CONFIRMED" => effect[o] = None /\ fence[o] = status.cap
      BY <1>1, <1>5, <2>3 DEF Restorable, StillHolds, Rehydrated
    <3>2. status.cap \in RedriveCaps /\ status.cap.gen \in Nat
      BY <2>3, <3>1 DEF RedriveTyped, RedriveCaps
    <3>3. base \in StoredRows /\ base.gen = status.cap.gen
      BY <1>2, <3>2 DEF StoredRows, RowStates
    <3> HIDE DEF base
    <3>4. /\ new \in StoredRows /\ new.gen = status.cap.gen /\ new.rev = status.cap
          /\ new.state = IF status.kind = "CONFIRMED" THEN "completed" ELSE "prepared"
      BY <3>1, <3>2, <3>3, SettledRow
    <3> HIDE DEF new, status
    <3>5. RowHolds(o, new)
      BY <2>3, <3>1, <3>4 DEF RowHolds, status
    <3>6. db'.redrive[o] = new /\ new # None
      BY <1>1, <1>2, <3>4, SetRowRedrive, RedriveNone
    <3>7. Accounts(o)'
      <4>1. CASE status.kind = "CONFIRMED"
        BY <1>1, <2>3, <3>1, <3>4, <3>6, <4>1 DEF Accounts, CanSend, status
      <4>2. CASE status.kind # "CONFIRMED"
        BY <1>1, <1>3, <1>4, <2>1, <3>1, <4>2 DEF Accounts, CanSend, status
      <4> QED  BY <4>1, <4>2
    <3> QED  BY <1>1, <1>2, <3>4, <3>5, <3>7, RowKeeps
  <2> QED  BY <2>2, <2>3
<1>6. CASE row # None /\ o \in Unresolved
  <2>1. /\ status.cap # None /\ status.cap.gen = row.gen
        /\ status.kind = "CONFIRMED" => effect[o] = status.cap
        /\ status.kind # "CONFIRMED" => effect[o] = None /\ fence[o] = status.cap
    BY <1>1, <1>6 DEF Restorable, StillHolds
  <2>2. row \in StoredRows /\ status.cap \in RedriveCaps
    BY <1>6, <2>1 DEF RedriveTyped
  <2> DEFINE base == Settled(row, status)
  <2>3. /\ base \in StoredRows /\ base.gen = row.gen /\ base.rev = status.cap
        /\ base.state = IF status.kind = "CONFIRMED" THEN "completed" ELSE "prepared"
    BY <2>2, SettledRow
  <2>4. new = [base EXCEPT !.epoch = db.epoch]
    BY <1>6 DEF Rehydrated
  <2> HIDE DEF base
  <2>5. /\ new \in StoredRows /\ new.gen = row.gen /\ new.rev = status.cap
        /\ new.state = IF status.kind = "CONFIRMED" THEN "completed" ELSE "prepared"
    BY <1>2, <2>3, <2>4, RowMoves
  <2> HIDE DEF new
  <2>6. RowHolds(o, new)
    BY <2>1, <2>5 DEF RowHolds
  <2>7. db'.redrive[o] = new /\ new # None
    BY <1>1, <1>2, <2>5, SetRowRedrive, RedriveNone
  <2>8. Accounts(o)'
    <3>1. CASE status.kind = "CONFIRMED"
      <4>1. effect'[o] # None /\ new.gen = effect'[o].gen
        BY <1>1, <2>1, <2>5, <3>1
      <4> QED  BY <2>5, <2>7, <3>1, <4>1 DEF Accounts, CanSend
    <3>2. CASE status.kind # "CONFIRMED"
      <4>1. Accounts(o) /\ fence[o] # None /\ fence[o].gen = row.gen
        BY <1>3, <1>4, <2>1, <3>2
      <4> QED  BY <1>1, <1>6, <2>5, <2>7, <4>1, SettlingAccounts
    <3> QED  BY <3>1, <3>2
  <2> QED  BY <1>1, <1>2, <2>5, <2>6, <2>8, RowKeeps
<1>7. CASE row # None /\ o \notin Unresolved
  <2>1. row \in StoredRows /\ RowHolds(o, row) /\ row.state \in {"prepared", "completed"}
    BY <1>7 DEF RedriveTyped, RowsHold, Unresolved, StoredRows, RowStates
  <2>2. new = [row EXCEPT !.epoch = db.epoch]
    BY <1>7 DEF Rehydrated
  <2> HIDE DEF new
  <2>3. new \in StoredRows /\ new.gen = row.gen /\ new.state = row.state /\ new.rev = row.rev
    BY <1>2, <2>1, <2>2, RowMoves
  <2>4. RowHolds(o, new)
    BY <2>1, <2>3 DEF RowHolds
  <2>5. db'.redrive[o] = new /\ new # None
    BY <1>1, <1>2, <2>3, SetRowRedrive, RedriveNone
  <2>6. Accounts(o)
    <3>1. SUFFICES ASSUME Witnessed(o) PROVE Accounts(o)
      BY <1>3
    <3>2. effect[o] # None /\ effect[o].gen = row.gen
      BY <1>1, <1>4, <1>7, <3>1 DEF Restorable
    <3>3. effect[o].gen \in Nat /\ effect[o].gen > 0
      BY <3>2 DEF RedriveTyped, RedriveCaps
    <3>4. row.state # "prepared"
      BY <2>1, <3>2, <3>3 DEF RowHolds, EffectsAreLater
    <3> QED  BY <1>7, <3>2, <3>4 DEF Accounts, CanSend
  <2>7. Accounts(o)'
    BY <1>1, <1>7, <2>3, <2>5, <2>6 DEF Accounts, CanSend
  <2> QED  BY <1>1, <1>2, <2>3, <2>4, <2>7, RowKeeps
<1> QED  BY <1>5, <1>6, <1>7

LEMMA RedriveInitially == ReplayInit => RedriveInvariant
  BY FS_EmptySet DEF ReplayInit, FreshDb, RedriveInvariant, RedriveTyped, EffectsAreLater, RowsHold, EffectsAreKnown,
     Accounts

LEMMA RedriveStepKeeps ==
    ReplayInvariant /\ RedriveInvariant /\ [ReplayNext]_replayVars => RedriveInvariant'
<1> SUFFICES ASSUME ReplayInvariant, RedriveInvariant, [ReplayNext]_replayVars PROVE RedriveInvariant'
  OBVIOUS
<1>1. CASE \E o \in Ops : Prepare(o) \/ Claim(o) \/ Resolve(o) \/ RestoreOutcome(o)
  BY <1>1, PrepareKeepsRedrive, ClaimKeepsRedrive, ResolveKeepsRedrive, RestoreOutcomeKeepsRedrive
<1>2. CASE \E c \in issued : Send(c) \/ Probe(c) \/ Complete(c) \/ MarkAmbiguous(c)
  BY <1>2, SendKeepsRedrive, ProbeKeepsRedrive, CompleteKeepsRedrive
<1>3. CASE \E c \in issued : \E answer \in Answers(c) : Reconcile(c, answer)
  BY <1>3, ReconcileKeepsRedrive
<1>4. CASE Restore \/ \E named \in SUBSET Ops : Seal(named)
  BY <1>4, RestoreKeepsRedrive, SealKeepsRedrive
<1>5. CASE \/ TakeDump \/ Drain \/ EnterQuarantine \/ RestoreConsumed \/ OpenWitness
           \/ OpenDatabase \/ OperatorStops
           \/ \E a \in Assertions, p \in Prints : Admit(a, p)
           \/ \E c \in callers : Consume(c)
  BY <1>5, OperatorKeepsRedrive
<1>6. CASE UNCHANGED replayVars
  BY <1>6 DEF replayVars, RedriveInvariant, RedriveTyped, EffectsAreLater, RowsHold, RowHolds,
              EffectsAreKnown, Accounts, CanSend, Witnessed
<1> QED  BY <1>1, <1>2, <1>3, <1>4, <1>5, <1>6 DEF ReplayNext

\* While the witness is open, and so while both authorities admit, the row of an operation
\* accounts for its effect, whatever dump was restored under the witness that was sealed.
THEOREM ReplayEffectIsAccounted == ReplaySpec => []EffectIsAccountedFor
<1>1. RedriveInvariant => EffectIsAccountedFor
  BY DEF RedriveInvariant, EffectsAreKnown, Accounts, EffectIsAccountedFor, Serving
<1> QED  BY <1>1, ReplayInitially, ReplayStepKeeps, RedriveInitially, RedriveStepKeeps, PTL DEF ReplaySpec

=============================================================================
