--------------------------- MODULE MC_Authorities ---------------------------
(***************************************************************************)
(* Six areas side by side: the fence of a scope, replay across a restore,  *)
(* revocation of a cached authority, the completeness of a history, polls  *)
(* across relocation and restore, and the admission of an operation by     *)
(* several authorities.  They share no state; a behaviour is one of a      *)
(* single area, chosen at the start.                                       *)
(***************************************************************************)
EXTENDS FenceAuthority, ReplayRecovery, CacheAuthority, HistoryReconciliation, PollRecovery,
        TenantAdmission, TLC

VARIABLE authority

authorityVars ==
    <<authority, fenceVars, replayVars, cacheVars, historyVars, pollVars, admissionVars>>

\* The transitions of the cache authority and two of the callers of a fence are the same
\* model values, and so are its writers and the generations of a fence.
Interchangeable == Permutations(Transitions) \cup Permutations(Writers)

\* The cells are alike, so the first one may be any.  A stream begins with a snapshot of its first
\* moments, and its owner then asks for the whole history: the other moves of the authority add
\* states and no new case.
FirstSnapshot ==
    /\ providerAuthority.snapshot = 1 /\ providerAuthority.finality = 1
    /\ providerAuthority.required = 0

AsksForAll ==
    providerAuthority'.generation # providerAuthority.generation =>
        providerAuthority'.required = MaxTime /\ providerAuthority'.finality = MaxTime

MCInit ==
    /\ authority \in {"fence", "replay", "cache", "history", "polls", "admission"}
    /\ FenceInit /\ ReplayInit /\ CacheInit
    /\ HistoryInit /\ FirstSnapshot
    /\ PollInit /\ placement.cell = CHOOSE cell \in Cells : TRUE
    /\ AdmissionInit
    /\ authority # "admission" => operation.kind = "tenant" /\ grants

MCNext ==
    /\ UNCHANGED authority
    /\ \/ /\ authority = "fence" /\ FenceNext
          /\ UNCHANGED <<replayVars, cacheVars, historyVars, pollVars, admissionVars>>
       \/ /\ authority = "replay" /\ ReplayNext
          /\ UNCHANGED <<fenceVars, cacheVars, historyVars, pollVars, admissionVars>>
       \/ /\ authority = "cache" /\ CacheNext
          /\ UNCHANGED <<fenceVars, replayVars, historyVars, pollVars, admissionVars>>
       \/ /\ authority = "history" /\ HistoryNext /\ AsksForAll
          /\ UNCHANGED <<fenceVars, replayVars, cacheVars, pollVars, admissionVars>>
       \/ /\ authority = "polls" /\ PollNext
          /\ UNCHANGED <<fenceVars, replayVars, cacheVars, historyVars, admissionVars>>
       \/ /\ authority = "admission" /\ AdmissionNext
          /\ UNCHANGED <<fenceVars, replayVars, cacheVars, historyVars, pollVars>>

MCSpec == MCInit /\ [][MCNext]_authorityVars
=============================================================================
