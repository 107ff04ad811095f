--------------------------- MODULE FenceAuthority ---------------------------
(***************************************************************************)
(* The fence authority: the rows of platform.authority_fences with the two *)
(* functions that write them (sql/wave1/001), and its callers in           *)
(* jlmirror_authority/fencing.py.  acquire_next_fence reads the current    *)
(* row, checks it, and only then asks for the compare-and-advance: other   *)
(* callers run in between.  A caller may die after the advance committed,  *)
(* which leaves an epoch nobody holds.                                     *)
(*                                                                         *)
(* A protected effect and its admission are one step: the contract of      *)
(* admit_fenced_effect asks for the predicate and the mutation in the same *)
(* database transaction.                                                   *)
(***************************************************************************)
EXTENDS Absent, Naturals

CONSTANTS
    Scopes,        \* fence_scope_id
    Callers,       \* processes that acquire fences and run effects under them
    Generations,   \* generation_id, chosen by the caller; nothing makes it unique
    States,        \* authority_state: "active" and any other canonical name
    MaxEpoch       \* MAX_SIGNED_BIGINT

VARIABLES
    fences,        \* platform.authority_fences: scope -> row, None when absent
    calls,         \* acquire_next_fence between its read and its advance, per caller
    tokens,        \* every FenceToken a caller got back, with its holder
    applied        \* the epoch each scope's last protected effect ran under

fenceVars == <<fences, calls, tokens, applied>>

Epochs == 1 .. MaxEpoch

FenceRecords == [current_fence_epoch : Epochs, current_generation_id : Generations,
                 authority_state : States]

AcquireCalls == [fence_scope_id : Scopes, expected_predecessor_epoch : Epochs,
                 expected_predecessor_generation_id : Generations,
                 successor_generation_id : Generations, successor_state : States]

FenceTokens == [holder : Callers, fence_scope_id : Scopes, fence_epoch : Epochs,
                generation_id : Generations]

ASSUME FenceConstants ==
    /\ MaxEpoch \in Nat \ {0}
    /\ "active" \in States
    /\ None \notin FenceRecords
    /\ None \notin AcquireCalls
    /\ None \notin Generations

-----------------------------------------------------------------------------
\* _require_effect_eligible_authority_state, and the state predicate of the advance
EffectEligible(row) == row.authority_state = "active"

\* The scope has a further epoch to give: asked by acquire_next_fence and by the advance
SuccessorExists(e) == e < MaxEpoch

FenceToken(c, s, e, g) ==
    [holder |-> c, fence_scope_id |-> s, fence_epoch |-> e, generation_id |-> g]

FenceInit ==
    /\ fences = [s \in Scopes |-> None]
    /\ calls = [c \in Callers |-> None]
    /\ tokens = {}
    /\ applied = [s \in Scopes |-> 0]

\* initialize_authority_fence; an existing row is left alone
InitializeFence(c, s, g, state) ==
    /\ fences[s] = None
    /\ fences' = [fences EXCEPT ![s] = [current_fence_epoch |-> 1,
                                        current_generation_id |-> g,
                                        authority_state |-> state]]
    /\ tokens' = tokens \cup {FenceToken(c, s, 1, g)}
    /\ UNCHANGED <<calls, applied>>

\* acquire_next_fence up to its call of acquire_successor.  expected is the generation
\* the caller names, None to take the one observed.
ObservePredecessor(c, s, e, expected, successor, state) ==
    LET row == fences[s]
    IN  /\ calls[c] = None
        /\ SuccessorExists(e)
        /\ row # None
        /\ EffectEligible(row)
        /\ row.current_fence_epoch = e
        /\ expected \in {None, row.current_generation_id}
        /\ calls' = [calls EXCEPT ![c] =
              [fence_scope_id |-> s, expected_predecessor_epoch |-> e,
               expected_predecessor_generation_id |-> row.current_generation_id,
               successor_generation_id |-> successor, successor_state |-> state]]
        /\ UNCHANGED <<fences, tokens, applied>>

\* The WHERE clause of advance_authority_fence
PredecessorIsCurrent(call) ==
    LET row == fences[call.fence_scope_id]
    IN  /\ row # None
        /\ row.current_fence_epoch = call.expected_predecessor_epoch
        /\ row.current_generation_id = call.expected_predecessor_generation_id
        /\ EffectEligible(row)
        /\ SuccessorExists(row.current_fence_epoch)

\* The compare-and-advance and the rest of acquire_next_fence.  answered: the caller
\* lives to see the row it won.
AdvanceFence(c, answered) ==
    LET call == calls[c]
        e == call.expected_predecessor_epoch + 1
    IN  /\ call # None
        /\ calls' = [calls EXCEPT ![c] = None]
        /\ IF PredecessorIsCurrent(call)
           THEN /\ fences' = [fences EXCEPT ![call.fence_scope_id] =
                      [current_fence_epoch |-> e,
                       current_generation_id |-> call.successor_generation_id,
                       authority_state |-> call.successor_state]]
                /\ tokens' = IF answered
                             THEN tokens \cup {FenceToken(c, call.fence_scope_id, e,
                                                          call.successor_generation_id)}
                             ELSE tokens
           ELSE UNCHANGED <<fences, tokens>>
        /\ UNCHANGED applied

\* Mutant form: the generation alone tells whether a token is current.
TokenGenerationIsCurrent(t) ==
    LET row == fences[t.fence_scope_id]
    IN  row # None /\ EffectEligible(row) /\ row.current_generation_id = t.generation_id

\* The predicate of admit_fenced_effect
TokenIsCurrent(t) ==
    LET row == fences[t.fence_scope_id]
    IN  /\ row # None
        /\ EffectEligible(row)
        /\ row.current_fence_epoch = t.fence_epoch
        /\ row.current_generation_id = t.generation_id

\* admit_fenced_effect and the effect, in one transaction
AdmitFencedEffect(t) ==
    /\ TokenIsCurrent(t)
    /\ applied' = [applied EXCEPT ![t.fence_scope_id] = t.fence_epoch]
    /\ UNCHANGED <<fences, calls, tokens>>

InitializeSome ==
    \E c \in Callers, s \in Scopes, g \in Generations, state \in States :
        InitializeFence(c, s, g, state)

ObserveSome ==
    \E c \in Callers, s \in Scopes, e \in Epochs, successor \in Generations, state \in States :
        \E expected \in Generations \cup {None} :
            ObservePredecessor(c, s, e, expected, successor, state)

AdvanceSome == \E c \in Callers, answered \in BOOLEAN : AdvanceFence(c, answered)

AdmitSome == \E t \in tokens : AdmitFencedEffect(t)

FenceNext == InitializeSome \/ ObserveSome \/ AdvanceSome \/ AdmitSome

FenceSpec == FenceInit /\ [][FenceNext]_fenceVars

-----------------------------------------------------------------------------
\* Rows, calls, tokens and applied epochs have their types: no epoch leaves the range
\* of a positive signed BIGINT.
FenceTypeOK ==
    /\ fences \in [Scopes -> FenceRecords \cup {None}]
    /\ calls \in [Callers -> AcquireCalls \cup {None}]
    /\ tokens \subseteq FenceTokens
    /\ applied \in [Scopes -> 0 .. MaxEpoch]

\* Of all callers racing for one epoch of a scope, acquire_next_fence returns to one at
\* most: no two tokens name the same epoch.
OneHolderPerEpoch ==
    \A t, u \in tokens :
        t.fence_scope_id = u.fence_scope_id /\ t.fence_epoch = u.fence_epoch => t = u

\* A row is never removed or rewritten under its epoch: the epoch stays with the
\* whole row or grows by one.
EpochNeverReset ==
    [][\A s \in Scopes : fences[s] # None =>
          \/ fences'[s] = fences[s]
          \/ /\ fences'[s] # None
             /\ fences'[s].current_fence_epoch = fences[s].current_fence_epoch + 1]_fenceVars

\* Nothing brings a scope back from a state other than active: recovery is not an
\* ordinary successor.
InactiveIsTerminal ==
    [][\A s \in Scopes :
          fences[s] # None /\ fences[s].authority_state # "active"
              => fences'[s] = fences[s] /\ applied'[s] = applied[s]]_fenceVars

EpochOf(s) == IF fences[s] = None THEN 0 ELSE fences[s].current_fence_epoch

Promise == INSTANCE FencedEffects WITH epoch <- [s \in Scopes |-> EpochOf(s)]

\* The rows, the compare-and-advance and the token check together keep the promise of
\* a fence: a caller whose epoch was superseded never runs an effect again.
KeepsPromise == Promise!FencedSpec
=============================================================================
