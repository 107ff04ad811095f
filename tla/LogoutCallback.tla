--------------------------- MODULE LogoutCallback ---------------------------
(***************************************************************************)
(* The back-channel logout authority of the identity harness: the token of *)
(* a logout is delivered over HTTP, its effect is frozen in a replay       *)
(* ledger under a lease, and the delivery is answered once the             *)
(* responsibility is durable.  Consumers and a drain apply the effect      *)
(* later, from the ledger alone.                                           *)
(*                                                                         *)
(* The last layers of the harness win: the ledger and the authority are    *)
(* those of keycloak_callback_currentness_drain_runner.py over the         *)
(* autonomous, continuity and single-winner ones; the handler is the       *)
(* autonomous one.  Issuer and client are one, and a callback stands for   *)
(* the exact bytes of a token: its jti is its own.                         *)
(***************************************************************************)
EXTENDS Naturals, Absent

CONSTANTS
    Callbacks,      \* logout tokens, one replay identity each
    Sessions,       \* provider session ids, each with its local session
    Subjects,       \* provider subjects
    PlatformPrincipals, \* whom a subject stands for
    Workers         \* threads that deliver, consume or drain

VARIABLES
    tokens,     \* callback -> [sid, sub, fresh], or None before the provider issues it
    ledger,     \* callback -> [status, owner, live, intent], or None
    inbox,      \* callbacks stored by the HTTP handler
    acked,      \* callbacks answered with 200
    work,       \* worker -> [kind, callback, step, intent], or None
    available,  \* the currentness of the mappings is known
    placement,  \* subject -> its current principal, or None
    locals,     \* session -> [principal, sub, generation, bound], or None before its login
    generation, \* principal -> its generation
    retired     \* local sessions retired exactly

callbackVars == <<tokens, ledger, inbox, acked, work, available, placement, locals,
                  generation, retired>>

Tokens == {t \in [sid : Sessions \cup {None}, sub : Subjects \cup {None}, fresh : BOOLEAN] :
              t.sid # None \/ t.sub # None}

\* The effect of a logout: retire a session, fence a principal at a generation, nothing.
SidEffect(s) == [kind |-> "sid", target |-> s, generation |-> None]
PrincipalEffect(p, g) == [kind |-> "principal", target |-> p, generation |-> g]
NoEffect == [kind |-> "none", target |-> None, generation |-> None]
Intents == [kind : {"sid", "principal", "none"}, target : Sessions \cup PlatformPrincipals \cup {None},
            generation : Nat \cup {None}]

LedgerRows == [status : {"pending", "retryable", "completed"}, owner : Workers \cup {None},
               live : BOOLEAN, intent : Intents \cup {None}]
Steps == {"claimed", "placed", "read", "frozen", "renewed", "half", "applied", "released", "stored"}
WorkRecords == [kind : {"deliver", "execute"}, callback : Callbacks, step : Steps,
                intent : Intents \cup {None}]
LocalSessions == [principal : PlatformPrincipals, sub : Subjects, generation : Nat, bound : BOOLEAN]

ASSUME CallbackConstants ==
    /\ None \notin Sessions \cup Subjects \cup PlatformPrincipals \cup Workers \cup Nat
    /\ None \notin Tokens /\ None \notin LedgerRows /\ None \notin WorkRecords
    /\ None \notin LocalSessions /\ None \notin Intents

CallbackTypeOK ==
    /\ tokens \in [Callbacks -> Tokens \cup {None}]
    /\ ledger \in [Callbacks -> LedgerRows \cup {None}]
    /\ inbox \subseteq Callbacks /\ acked \subseteq Callbacks
    /\ work \in [Workers -> WorkRecords \cup {None}]
    /\ available \in BOOLEAN
    /\ placement \in [Subjects -> PlatformPrincipals \cup {None}]
    /\ locals \in [Sessions -> LocalSessions \cup {None}]
    /\ generation \in [PlatformPrincipals -> Nat]
    /\ retired \subseteq Sessions

\* The row the cutover imports for a replay identity the previous ledger completed:
\* it has neither authenticated claims nor an intent.
Imported == [status |-> "completed", owner |-> None, live |-> FALSE, intent |-> None]

CallbackInit ==
    /\ tokens = [c \in Callbacks |-> None]
    /\ ledger \in [Callbacks -> {None, Imported}]
    /\ inbox = {} /\ acked = {}
    /\ work = [w \in Workers |-> None]
    /\ available \in BOOLEAN
    /\ placement = [u \in Subjects |-> None]
    /\ locals = [s \in Sessions |-> None]
    /\ generation = [p \in PlatformPrincipals |-> 1]
    /\ retired = {}

-----------------------------------------------------------------------------
\* The world around: logins, the provider's tokens, the currentness of the mappings.

\* SessionFenceAuthority.create and ProviderMappingAuthority.bind, as one login.
Login(s, u, p) ==
    /\ locals[s] = None
    /\ locals' = [locals EXCEPT ![s] =
           [principal |-> p, sub |-> u, generation |-> generation[p], bound |-> TRUE]]
    /\ placement' = [placement EXCEPT ![u] = p]
    /\ UNCHANGED <<tokens, ledger, inbox, acked, work, available, generation, retired>>

\* unlink_subject and relink_subject.
Relink(u, p) ==
    /\ placement[u] # p
    /\ placement' = [placement EXCEPT ![u] = p]
    /\ UNCHANGED <<tokens, ledger, inbox, acked, work, available, locals, generation, retired>>

MappingsChangeCurrentness ==
    /\ available' = ~available
    /\ UNCHANGED <<tokens, ledger, inbox, acked, work, placement, locals, generation, retired>>

\* The provider ends a session, or all of a subject.
Issue(c, sid, sub) ==
    /\ tokens[c] = None /\ (sid # None \/ sub # None)
    /\ tokens' = [tokens EXCEPT ![c] = [sid |-> sid, sub |-> sub, fresh |-> TRUE]]
    /\ UNCHANGED <<ledger, inbox, acked, work, available, placement, locals, generation, retired>>

\* The token leaves the horizon FreshLogoutVerifier accepts.
TokenExpires(c) ==
    /\ tokens[c] # None /\ tokens[c].fresh
    /\ tokens' = [tokens EXCEPT ![c].fresh = FALSE]
    /\ UNCHANGED <<ledger, inbox, acked, work, available, placement, locals, generation, retired>>

\* The lease of a claim runs out.
Lapse(c) ==
    /\ ledger[c] # None /\ ledger[c].status = "pending" /\ ledger[c].live
    /\ ledger' = [ledger EXCEPT ![c].live = FALSE]
    /\ UNCHANGED <<tokens, inbox, acked, work, available, placement, locals, generation, retired>>

-----------------------------------------------------------------------------
\* Claiming.  Each method of the ledger is one immediate transaction.

NoEffects == UNCHANGED <<tokens, available, placement, locals, generation, retired>>

Takeable(c) ==
    /\ ledger[c] # None
    /\ \/ ledger[c].status = "retryable"
       \/ ledger[c].status = "pending" /\ ~ledger[c].live

TakeRow(w, c, kind, step) ==
    LET intent == IF ledger[c] = None THEN None ELSE ledger[c].intent IN
    /\ work[w] = None
    /\ ledger' = [ledger EXCEPT ![c] =
           [status |-> "pending", owner |-> w, live |-> TRUE, intent |-> intent]]
    /\ work' = [work EXCEPT ![w] =
           [kind |-> kind, callback |-> c, step |-> step, intent |-> intent]]
    /\ NoEffects /\ UNCHANGED <<inbox, acked>>

\* claim_authenticated, after the token was verified.
ClaimAuthenticated(w, c, kind) ==
    /\ tokens[c] # None /\ tokens[c].fresh
    /\ ledger[c] = None \/ Takeable(c)
    /\ TakeRow(w, c, kind, "claimed")

\* do_POST of a token the inbox does not hold, up to its claim.
DeliverToken(w, c) == c \notin inbox /\ ClaimAuthenticated(w, c, "deliver")

\* handle of a token the HTTP handler stored and queued, up to its claim.
Handle(w, c) == c \in inbox /\ ClaimAuthenticated(w, c, "execute")

\* reconcile of a row that reconcilable_identities lists, up to its claim.
ReconcileFrozen(w, c) ==
    /\ Takeable(c) /\ ledger[c].intent # None
    /\ TakeRow(w, c, "execute", "frozen")

\* resolve_unprepared_sid_callback of a row that unresolved_sid_identities lists, up to its claim.
ResolveUnprepared(w, c) ==
    /\ Takeable(c) /\ ledger[c].intent = None /\ tokens[c].sid # None
    /\ TakeRow(w, c, "execute", "claimed")

Holds(w) ==
    LET c == work[w].callback IN
    ledger[c].status = "pending" /\ ledger[c].owner = w /\ ledger[c].live

Doing(w, step) == work[w] # None /\ work[w].step = step
Moves(w, step) == work' = [work EXCEPT ![w].step = step]
Rests(w) == work' = [work EXCEPT ![w] = None]

\* _transition of the claim w holds.
Leaves(w, status) ==
    ledger' = [ledger EXCEPT ![work[w].callback] =
        [@ EXCEPT !.status = status, !.owner = None, !.live = FALSE]]

\* _best_effort_retryable: a claim that lapsed or was taken over stays as it is.
LeavesRetryable(w) == IF Holds(w) THEN Leaves(w, "retryable") ELSE UNCHANGED ledger

-----------------------------------------------------------------------------
\* Freezing the effect.

\* prepared_effect found the intent of an earlier claim, and prepare_effect renews the lease.
KeepIntent(w) ==
    /\ Doing(w, "claimed") /\ Holds(w) /\ work[w].intent # None
    /\ Moves(w, "frozen")
    /\ NoEffects /\ UNCHANGED <<ledger, inbox, acked>>

\* resolve does not answer: the mappings are not current, or the session is of another subject.
Uncertain(t) ==
    \/ ~available
    \/ /\ t.sid # None /\ t.sub # None /\ locals[t.sid] # None
       /\ locals[t.sid].sub # t.sub

\* The answer of resolve, as _intent_from_resolution takes it.  A session that is
\* unknown or no longer bound is confirmed absence: it is not widened to the subject.
Resolution(t) ==
    IF t.sid # None
    THEN IF locals[t.sid] # None /\ locals[t.sid].bound THEN SidEffect(t.sid) ELSE NoEffect
    ELSE IF placement[t.sub] # None THEN PrincipalEffect(placement[t.sub], None) ELSE NoEffect

Resolve(w) ==
    LET t == tokens[work[w].callback] IN
    /\ Doing(w, "claimed") /\ Holds(w) /\ work[w].intent = None
    /\ ~Uncertain(t)
    /\ work' = [work EXCEPT ![w].intent = Resolution(t),
                            ![w].step = IF Resolution(t).kind = "principal" THEN "placed" ELSE "read"]
    /\ NoEffects /\ UNCHANGED <<ledger, inbox, acked>>

\* Mutant form: any callback may wait for its target.
AnyMayAwaitTarget(c) == TRUE

\* A callback without an intent is durable work only if it names its session.
MayAwaitTarget(c) == tokens[c].sid # None

\* resolve raised: a delivery that names its session goes on, with the target to be found later.
LeaveUnresolved(w) ==
    /\ Doing(w, "claimed") /\ work[w].kind = "deliver" /\ work[w].intent = None
    /\ Uncertain(tokens[work[w].callback]) /\ MayAwaitTarget(work[w].callback)
    /\ LeavesRetryable(w)
    /\ Moves(w, "released")
    /\ NoEffects /\ UNCHANGED <<inbox, acked>>

\* current_generation, asked after the mapping answered.
ReadGeneration(w) ==
    /\ Doing(w, "placed")
    /\ work' = [work EXCEPT ![w].intent.generation = generation[work[w].intent.target],
                            ![w].step = "read"]
    /\ NoEffects /\ UNCHANGED <<ledger, inbox, acked>>

\* prepare_effect: the first intent of a callback is its last.
Freeze(w) ==
    LET c == work[w].callback IN
    /\ Doing(w, "read") /\ Holds(w) /\ ledger[c].intent \in {None, work[w].intent}
    /\ ledger' = [ledger EXCEPT ![c].intent = work[w].intent]
    /\ Moves(w, "frozen")
    /\ NoEffects /\ UNCHANGED <<inbox, acked>>

-----------------------------------------------------------------------------
\* The HTTP answer.

\* The delivery gives its claim up: the frozen effect is work for anyone.
Release(w) ==
    /\ Doing(w, "frozen") /\ work[w].kind = "deliver" /\ Holds(w)
    /\ Leaves(w, "retryable")
    /\ Moves(w, "released")
    /\ NoEffects /\ UNCHANGED <<inbox, acked>>

\* accept_verified.
Store(w) ==
    /\ Doing(w, "released")
    /\ inbox' = inbox \cup {work[w].callback}
    /\ Moves(w, "stored")
    /\ NoEffects /\ UNCHANGED <<ledger, acked>>

Acknowledge(w) ==
    /\ Doing(w, "stored")
    /\ acked' = acked \cup {work[w].callback}
    /\ Rests(w)
    /\ NoEffects /\ UNCHANGED <<ledger, inbox>>

\* assert_prepared_identity.
IsPrepared(c) ==
    /\ ledger[c] # None
    /\ ledger[c].intent = None => MayAwaitTarget(c) /\ ledger[c].status # "completed"

\* do_POST of a token the inbox holds: expired tokens included.
AcknowledgeAgain(c) ==
    /\ c \in inbox /\ IsPrepared(c)
    /\ acked' = acked \cup {c}
    /\ NoEffects /\ UNCHANGED <<ledger, inbox, work>>

-----------------------------------------------------------------------------
\* Applying the effect.

\* renew_for_effect.  From here on the lease may lapse and another worker take over.
Renew(w) ==
    /\ Doing(w, "frozen") /\ work[w].kind = "execute" /\ Holds(w)
    /\ Moves(w, "renewed")
    /\ NoEffects /\ UNCHANGED <<ledger, inbox, acked>>

\* retire_exact_if_current.
RetireSession(w) ==
    /\ Doing(w, "renewed") /\ work[w].intent.kind = "sid"
    /\ retired' = retired \cup {work[w].intent.target}
    /\ Moves(w, "half")
    /\ UNCHANGED <<tokens, ledger, inbox, acked, available, placement, locals, generation>>

\* retire_prepared_sid.
RetireBinding(w) ==
    /\ Doing(w, "half")
    /\ locals' = [locals EXCEPT ![work[w].intent.target].bound = FALSE]
    /\ Moves(w, "applied")
    /\ UNCHANGED <<tokens, ledger, inbox, acked, available, placement, generation, retired>>

\* Mutant form: fence_principal of the first layer, which asks for no generation.
Advanced(current, expected) == current + 1

\* fence_principal_if_generation; a generation below the expected one would raise.
Fenced(current, expected) == IF current = expected THEN expected + 1 ELSE current

FencePrincipal(w) ==
    LET intent == work[w].intent IN
    /\ Doing(w, "renewed") /\ intent.kind = "principal" /\ generation[intent.target] >= intent.generation
    /\ generation' = [generation EXCEPT ![intent.target] = Fenced(@, intent.generation)]
    /\ Moves(w, "applied")
    /\ UNCHANGED <<tokens, ledger, inbox, acked, available, placement, locals, retired>>

ConfirmAbsence(w) ==
    /\ Doing(w, "renewed") /\ work[w].intent.kind = "none"
    /\ Moves(w, "applied")
    /\ NoEffects /\ UNCHANGED <<ledger, inbox, acked>>

\* complete: without the claim the outcome is left to whoever took it over.
Complete(w) ==
    /\ Doing(w, "applied") /\ Holds(w)
    /\ Leaves(w, "completed")
    /\ Rests(w)
    /\ NoEffects /\ UNCHANGED <<inbox, acked>>

\* A step raises: an uncertain mapping, a lost claim, a busy database.
Fails(w) ==
    /\ work[w] # None
    /\ LeavesRetryable(w)
    /\ Rests(w)
    /\ NoEffects /\ UNCHANGED <<inbox, acked>>

\* The process dies.
Dies(w) ==
    /\ work[w] # None
    /\ Rests(w)
    /\ NoEffects /\ UNCHANGED <<ledger, inbox, acked>>

\* What happens to the tokens issued, failures left out.
CallbackSteps ==
    \/ \E s \in Sessions, u \in Subjects, p \in PlatformPrincipals : Login(s, u, p)
    \/ \E u \in Subjects, p \in PlatformPrincipals \cup {None} : Relink(u, p)
    \/ MappingsChangeCurrentness
    \/ \E c \in Callbacks : TokenExpires(c) \/ Lapse(c) \/ AcknowledgeAgain(c)
    \/ \E w \in Workers, c \in Callbacks :
          DeliverToken(w, c) \/ Handle(w, c) \/ ReconcileFrozen(w, c) \/ ResolveUnprepared(w, c)
    \/ \E w \in Workers :
          \/ KeepIntent(w) \/ Resolve(w) \/ LeaveUnresolved(w) \/ ReadGeneration(w) \/ Freeze(w)
          \/ Release(w) \/ Store(w) \/ Acknowledge(w)
          \/ Renew(w) \/ RetireSession(w) \/ RetireBinding(w) \/ FencePrincipal(w) \/ ConfirmAbsence(w)
          \/ Complete(w) \/ Dies(w)

CallbackNext ==
    \/ \E c \in Callbacks, sid \in Sessions \cup {None}, sub \in Subjects \cup {None} : Issue(c, sid, sub)
    \/ CallbackSteps
    \/ \E w \in Workers : Fails(w)

CallbackSpec == CallbackInit /\ [][CallbackNext]_callbackVars

-----------------------------------------------------------------------------
\* The effect of a callback is in the authority.
Ended(intent) ==
    /\ intent.kind = "sid" => intent.target \in retired
    /\ intent.kind = "principal" => generation[intent.target] > intent.generation

\* A logout answered with 200 is not lost, whatever dies or lapses: the ledger has its
\* row, the row has a frozen effect or still names the session it will be found by,
\* and once the row is completed the sessions it named have ended.
AcknowledgedIsOwned ==
    \A c \in acked :
        /\ ledger[c] # None
        /\ ledger[c].intent = None => tokens[c].sid # None /\ ledger[c].status # "completed"
        /\ ledger[c].status = "completed" => Ended(ledger[c].intent)

IsCurrent(s) ==
    s \notin retired /\ locals[s].generation = generation[locals[s].principal]

\* The logout of c, as it was frozen, names s: by its own id, or by the generation
\* its principal had.
Names(c, s) ==
    /\ ledger[c] # None
    /\ IF tokens[c] # None /\ tokens[c].sid # None THEN tokens[c].sid = s /\ ledger[c].intent = SidEffect(s)
       ELSE ledger[c].intent = PrincipalEffect(locals[s].principal, locals[s].generation)

\* No session ends but by a logout that names it: a worker that was taken over and applies
\* its effect late, a replay and a token whose session is unknown never reach a session
\* that began after the logout took effect, or another session of its subject.
OnlyNamedSessionsEnd ==
    \A s \in Sessions :
        locals[s] # None /\ ~IsCurrent(s) => \E c \in Callbacks : Names(c, s)
=============================================================================
