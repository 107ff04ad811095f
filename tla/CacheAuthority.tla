--------------------------- MODULE CacheAuthority ---------------------------
(***************************************************************************)
(* Revoking a cached session authority: the owner's transition, the scope  *)
(* admission row, the leases of the BFF replicas and the cache, as the     *)
(* cache_authority_conformance runners of the identity harness leave them  *)
(* after their last layer (integrity_entrypoint).                          *)
(*                                                                         *)
(* One resource and its scope.  A revocation reserves a transition,        *)
(* excludes the scope (no lease is issued, every lease is drained and      *)
(* retired), commits in the owner's database, makes the cache              *)
(* non-authorizing and releases the scope at a new epoch.  Replicas admit  *)
(* requests from the cache, or from a stale copy of it, without asking     *)
(* either database.                                                        *)
(*                                                                         *)
(* Ticks are arguments of the callers: a transition's lease may lapse at   *)
(* any moment, and a lease of a replica that expires is retired by the     *)
(* same drain as one that is given up.                                     *)
(***************************************************************************)
EXTENDS Naturals, Absent

CONSTANTS Transitions, Writers, Replicas,
          MaxScopeEpoch     \* bound: epochs of the scope

VARIABLES
    source,       \* [gen, active]: the owner's row of the resource
    transition,   \* transition -> [state, owner, expected, lapsed], or None
    scope,        \* [state, epoch, target, hold]: scope_admission
    leaseRow,     \* replica -> [epoch, retired] of scope_lease, or None
    lease,        \* replica -> [epoch, retiring]: the lease object its process holds, or None
    inflight,     \* replica -> epoch of the lease its running admission began with, or None
    cache,        \* [auth, pos]: the authority and the positive entry
    copy,         \* a snapshot or a replica of the cache that can be promoted
    observed,     \* [gen, epoch] a cache filler read and has not written yet, or None
    committing,   \* [t, w]: commits past their permit, before the owner's transaction
    verified      \* transitions whose cache reconciliation was proved

cacheVars == <<source, transition, scope, leaseRow, lease, inflight, cache, copy,
               observed, committing, verified>>

ScopeEpochs == 1..MaxScopeEpoch
TransitionRows == [state : {"prepared", "cancelled", "committed", "finalized"}, owner : Writers,
                   expected : 1..2, lapsed : BOOLEAN]
AuthorityEntries == [state : {"current", "fence", "revoked"}, gen : 1..2, epoch : ScopeEpochs]
Caches == [auth : AuthorityEntries, pos : [gen : 1..2, epoch : ScopeEpochs]]

ASSUME CacheConstants ==
    /\ MaxScopeEpoch \in Nat
    /\ None \notin Transitions \cup Writers \cup TransitionRows
    /\ None \notin [epoch : Nat, retired : BOOLEAN] \cup [epoch : Nat, retiring : BOOLEAN]

CacheTypeOK ==
    /\ source \in [gen : 1..2, active : BOOLEAN]
    /\ transition \in [Transitions -> TransitionRows \cup {None}]
    /\ scope \in [state : {"admitted", "excluding", "excluded"}, epoch : ScopeEpochs,
                  target : ScopeEpochs \cup {None}, hold : Transitions \cup {None}]
    /\ leaseRow \in [Replicas -> [epoch : ScopeEpochs, retired : BOOLEAN] \cup {None}]
    /\ lease \in [Replicas -> [epoch : ScopeEpochs, retiring : BOOLEAN] \cup {None}]
    /\ inflight \in [Replicas -> ScopeEpochs \cup {None}]
    /\ cache \in Caches /\ copy \in Caches
    /\ observed \in [gen : 1..2, epoch : ScopeEpochs] \cup {None}
    /\ committing \subseteq [t : Transitions, w : Writers]
    /\ verified \subseteq Transitions

FreshCache == [auth |-> [state |-> "current", gen |-> 1, epoch |-> 1],
               pos |-> [gen |-> 1, epoch |-> 1]]

\* insert_resource and its first set_cache_current.
CacheInit ==
    /\ source = [gen |-> 1, active |-> TRUE]
    /\ transition = [t \in Transitions |-> None]
    /\ scope = [state |-> "admitted", epoch |-> 1, target |-> None, hold |-> None]
    /\ leaseRow = [r \in Replicas |-> None] /\ lease = [r \in Replicas |-> None]
    /\ inflight = [r \in Replicas |-> None]
    /\ cache = FreshCache /\ copy = FreshCache
    /\ observed = None /\ committing = {} /\ verified = {}

InState(t, s) == transition[t] # None /\ transition[t].state = s

-----------------------------------------------------------------------------
\* The owner's transition.

onlyTransition == <<source, scope, leaseRow, lease, inflight, cache, copy, observed, verified>>

\* reserve_transition: the first insert wins, a compatible retry observes it.
Reserve(t, w) ==
    /\ transition[t] = None
    /\ transition' = [transition EXCEPT ![t] =
            [state |-> "prepared", owner |-> w, expected |-> source.gen, lapsed |-> FALSE]]
    /\ UNCHANGED <<onlyTransition, committing>>

\* The tick of some caller passes the transition's lease.
Lapse(t) ==
    /\ InState(t, "prepared") /\ ~transition[t].lapsed
    /\ transition' = [transition EXCEPT ![t].lapsed = TRUE]
    /\ UNCHANGED <<onlyTransition, committing>>

\* cancel_transition
Cancel(t) ==
    /\ InState(t, "prepared") /\ transition[t].lapsed
    /\ transition' = [transition EXCEPT ![t].state = "cancelled"]
    /\ UNCHANGED <<onlyTransition, committing>>

\* takeover_transition
Takeover(t, w) ==
    /\ InState(t, "prepared") /\ transition[t].lapsed
    /\ transition' = [transition EXCEPT ![t].owner = w, ![t].lapsed = FALSE]
    /\ UNCHANGED <<onlyTransition, committing>>

\* acquire_commit_permit and the check of commit_source (review layer): unlocked
\* reads of the scope, in another database than the commit.
ExcludedFor(t) == scope.state = "excluded" /\ scope.hold = t

BeginCommit(t, w) ==
    /\ InState(t, "prepared") /\ ~transition[t].lapsed /\ ExcludedFor(t)
    /\ committing' = committing \cup {[t |-> t, w |-> w]}
    /\ UNCHANGED <<onlyTransition, transition>>

\* The owner's transaction of commit_source; the tick it compares is as old as the
\* call.
Commits(t, w) ==
    InState(t, "prepared") /\ transition[t].owner = w
    /\ source.active /\ source.gen = transition[t].expected

FinishCommit(c) ==
    /\ c \in committing
    /\ committing' = committing \ {c}
    /\ IF Commits(c.t, c.w)
       THEN /\ source' = [gen |-> source.gen + 1, active |-> FALSE]
            /\ transition' = [transition EXCEPT ![c.t].state = "committed"]
       ELSE UNCHANGED <<source, transition>>
    /\ UNCHANGED <<scope, leaseRow, lease, inflight, cache, copy, observed, verified>>

-----------------------------------------------------------------------------
\* The scope.

onlyScope == <<source, transition, leaseRow, lease, inflight, cache, copy, observed, committing, verified>>

\* begin_scope_exclusion; the state of the transition is not asked.
BeginExclusion(t) ==
    /\ transition[t] # None /\ scope.state = "admitted" /\ scope.hold = None
    /\ scope.epoch + 2 \in ScopeEpochs
    /\ scope' = [scope EXCEPT !.state = "excluding", !.target = scope.epoch + 1, !.hold = t]
    /\ UNCHANGED onlyScope

Unretired(e) ==
    {r \in Replicas : leaseRow[r] # None /\ leaseRow[r].epoch = e /\ ~leaseRow[r].retired}

\* finalize_scope_exclusion: no lease of the old epoch is unretired, expired or not.
\* No lease is issued while the scope is held, so the count cannot be outdated.
FinalizeExclusion(t) ==
    /\ scope.state = "excluding" /\ scope.hold = t
    /\ Unretired(scope.epoch) = {}
    /\ scope' = [scope EXCEPT !.state = "excluded", !.epoch = scope.target]
    /\ UNCHANGED onlyScope

Admitted(e) == [state |-> "admitted", epoch |-> e, target |-> None, hold |-> None]

\* Mutant form: the caller's word that the transition was cancelled is believed.
ReleaseUnasked(t) ==
    /\ ~InState(t, "finalized") /\ scope.hold = t /\ scope.state \in {"excluding", "excluded"}
    /\ scope' = Admitted(scope.epoch)
    /\ UNCHANGED onlyScope

\* release_scope_after_terminal of a cancelled transition keeps the epoch.
ReleaseCancelled(t) ==
    /\ InState(t, "cancelled") /\ scope.hold = t /\ scope.state \in {"excluding", "excluded"}
    /\ scope' = Admitted(scope.epoch)
    /\ UNCHANGED onlyScope

\* Mutant form: the scope is admitted again at the epoch its copies may name.
ReleaseAtOldEpoch(t) ==
    /\ InState(t, "finalized") /\ ExcludedFor(t)
    /\ scope' = Admitted(scope.epoch - 1)
    /\ UNCHANGED onlyScope

\* Of a finalized one (review layer) it rotates the epoch once more.
ReleaseFinalized(t) ==
    /\ InState(t, "finalized") /\ ExcludedFor(t)
    /\ scope' = Admitted(scope.epoch + 1)
    /\ UNCHANGED onlyScope

-----------------------------------------------------------------------------
\* The leases and admissions of the replicas.

onlyLeases == <<source, transition, scope, cache, copy, observed, committing, verified>>

\* issue_scope_lease (integrity layer): the predecessor is withdrawn and drained
\* first; a row that is not retired is replaced by the process that holds its lease
\* only.
IssueLease(r) ==
    /\ scope.state = "admitted"
    /\ inflight[r] = None
    /\ lease[r] # None => ~lease[r].retiring
    /\ leaseRow[r] # None /\ ~leaseRow[r].retired => lease[r] # None
    /\ lease' = [lease EXCEPT ![r] = [epoch |-> scope.epoch, retiring |-> FALSE]]
    /\ leaseRow' = [leaseRow EXCEPT ![r] = [epoch |-> scope.epoch, retired |-> FALSE]]
    /\ UNCHANGED <<onlyLeases, inflight>>

\* retire_scope_lease, and expire_local_scope_lease: no admission begins any more ...
BeginRetire(r) ==
    /\ lease[r] # None /\ ~lease[r].retiring
    /\ lease' = [lease EXCEPT ![r].retiring = TRUE]
    /\ UNCHANGED <<onlyLeases, leaseRow, inflight>>

\* ... and the durable acknowledgement follows the drain.
AckRetire(r) ==
    /\ lease[r] # None /\ lease[r].retiring /\ inflight[r] = None
    /\ lease' = [lease EXCEPT ![r] = None]
    /\ leaseRow' = [leaseRow EXCEPT ![r].retired = TRUE]
    /\ UNCHANGED <<onlyLeases, inflight>>

\* _begin_admission; bound: one admission of a replica runs at a time.
BeginAdmission(r) ==
    /\ lease[r] # None /\ ~lease[r].retiring /\ inflight[r] = None
    /\ inflight' = [inflight EXCEPT ![r] = lease[r].epoch]
    /\ UNCHANGED <<onlyLeases, leaseRow, lease>>

\* _end_admission, once the script answered.
EndAdmission(r) ==
    /\ inflight[r] # None
    /\ inflight' = [inflight EXCEPT ![r] = None]
    /\ UNCHANGED <<onlyLeases, leaseRow, lease>>

\* The process of a replica dies; its row stays as it is.
ReplicaDies(r) ==
    /\ lease[r] # None
    /\ lease' = [lease EXCEPT ![r] = None] /\ inflight' = [inflight EXCEPT ![r] = None]
    /\ UNCHANGED <<onlyLeases, leaseRow>>

\* ADMISSION_SCRIPT on one set of cache bytes.
Allows(c, e) ==
    /\ c.auth.state = "current"
    /\ c.auth.gen = c.pos.gen
    /\ c.auth.epoch = e /\ c.pos.epoch = e

-----------------------------------------------------------------------------
\* The cache.

onlyCache == <<source, transition, scope, leaseRow, lease, inflight, committing>>

\* install_fence
InstallFence(t) ==
    /\ InState(t, "prepared")
    /\ cache.auth.state = "current" /\ cache.auth.gen = transition[t].expected
    /\ cache' = [cache EXCEPT !.auth.state = "fence"]
    /\ UNCHANGED <<onlyCache, copy, observed, verified>>

\* A filler reads an active source under the epoch of the moment.
Observe ==
    /\ source.active /\ observed = None
    /\ observed' = [gen |-> source.gen, epoch |-> scope.epoch]
    /\ UNCHANGED <<onlyCache, cache, copy, verified>>

\* set_cache_current: two writes, however late.
FillAuthority ==
    /\ observed # None
    /\ cache' = [cache EXCEPT !.auth = [state |-> "current", gen |-> observed.gen, epoch |-> observed.epoch]]
    /\ UNCHANGED <<onlyCache, copy, observed, verified>>

FillPositive ==
    /\ observed # None
    /\ cache' = [cache EXCEPT !.pos = observed]
    /\ observed' = None
    /\ UNCHANGED <<onlyCache, copy, verified>>

\* degraded_owner_read_and_fill, within a running admission: the positive is
\* written when the authority is current at the source's generation.
DegradedFill(r) ==
    /\ inflight[r] # None /\ source.active
    /\ cache.auth = [state |-> "current", gen |-> source.gen, epoch |-> inflight[r]]
    /\ cache' = [cache EXCEPT !.pos = [gen |-> source.gen, epoch |-> inflight[r]]]
    /\ UNCHANGED <<onlyCache, copy, observed, verified>>

\* snapshot_rdb, a replica that stopped following.
TakeCopy ==
    /\ copy # cache /\ copy' = cache
    /\ UNCHANGED <<onlyCache, cache, observed, verified>>

RevokedEntry == [state |-> "revoked", gen |-> source.gen, epoch |-> scope.epoch]

\* reconcile_cache_and_finalize_source: set_cache_revoked, the exact read of what was
\* written, and the owner's transaction.
WriteRevoked(t) ==
    /\ InState(t, "committed") /\ ExcludedFor(t)
    /\ cache' = [cache EXCEPT !.auth = RevokedEntry]
    /\ UNCHANGED <<onlyCache, copy, observed, verified>>

VerifyRevoked(t) ==
    /\ InState(t, "committed") /\ ExcludedFor(t) /\ cache.auth = RevokedEntry
    /\ verified' = verified \cup {t}
    /\ UNCHANGED <<onlyCache, cache, copy, observed>>

FinalizeSource(t) ==
    /\ InState(t, "committed") /\ t \in verified
    /\ transition' = [transition EXCEPT ![t].state = "finalized"]
    /\ UNCHANGED <<onlyTransition, committing>>

CacheNext ==
    \/ \E t \in Transitions :
          \/ \E w \in Writers : Reserve(t, w) \/ Takeover(t, w) \/ BeginCommit(t, w)
          \/ Lapse(t) \/ Cancel(t)
          \/ BeginExclusion(t) \/ FinalizeExclusion(t) \/ ReleaseCancelled(t) \/ ReleaseFinalized(t)
          \/ InstallFence(t) \/ WriteRevoked(t) \/ VerifyRevoked(t) \/ FinalizeSource(t)
    \/ \E c \in committing : FinishCommit(c)
    \/ \E r \in Replicas :
          \/ IssueLease(r) \/ BeginRetire(r) \/ AckRetire(r) \/ ReplicaDies(r)
          \/ BeginAdmission(r) \/ EndAdmission(r) \/ DegradedFill(r)
    \/ Observe \/ FillAuthority \/ FillPositive \/ TakeCopy

CacheSpec == CacheInit /\ [][CacheNext]_cacheVars

-----------------------------------------------------------------------------
\* Whatever a running admission reads, the cache or a stale copy of it, an ALLOW is
\* about the generation the owner's database holds active at that moment: a revoked
\* authority is never admitted again, although admissions ask neither database.
AdmissionsSeeTheSource ==
    \A r \in Replicas : \A c \in {cache, copy} :
        inflight[r] # None /\ Allows(c, inflight[r]) => source.active /\ c.pos.gen = source.gen

\* From its commit to its finalization a transition holds the excluded scope, although
\* the commit checked the hold in another database before its own transaction
\* (preterminal_scope_release_impossible).
CommitHoldsTheScope ==
    \A t \in Transitions : InState(t, "committed") => ExcludedFor(t)
=============================================================================
