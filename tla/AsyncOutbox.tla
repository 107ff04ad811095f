----------------------------- MODULE AsyncOutbox -----------------------------
(***************************************************************************)
(* The outbox ledger of src/jlmirror_async/outbox.py: immutable messages,  *)
(* mutable dispatch state, leased claims.  Every public method runs under  *)
(* one RLock and is one action here.  `observed_at` is read by the caller  *)
(* before it queues for the lock, so it may lag the clock.                 *)
(*                                                                         *)
(* Dispatchers keep the OutboxClaim objects they were given (claims) and   *)
(* may present any of them at any time, after a crash of their peers or    *)
(* long after the lease ran out, with any receipt.  The broker is external *)
(* and not modelled: a receipt is an id and a time, nothing in it names a  *)
(* message or a claim, and the ledger never asks the broker.               *)
(*                                                                         *)
(* `reports` is a history variable: the settlements the ledger accepted,   *)
(* that is, what the callers that did not get InvalidTransition were told. *)
(***************************************************************************)
EXTENDS Absent, Naturals, FiniteSets

CONSTANTS
    Owners,        \* dispatcher identities (owner_id)
    MessageIds,    \* outbox identities (producer_message_scope, message_id)
    Contents,      \* immutable meanings a producer may commit under an identity
    ReceiptIds,    \* the receipts a caller may pass, of whatever delivery
    MaxClock,      \* bound on the clock
    MaxLag,        \* bound on how far observed_at may lag the clock
    MaxAttempts    \* bound on the claims issued for one record

ASSUME OutboxConstants ==
    /\ None \notin Owners /\ None \notin Nat
    /\ None \notin ReceiptIds
    /\ MaxClock \in Nat /\ MaxLag \in Nat /\ MaxAttempts \in Nat

VARIABLES
    by_id,      \* _by_id: record id -> entry; ids are 1, 2, ... without gaps
    next_id,    \* _next_id
    claims,     \* every OutboxClaim handed out; its holder may present it later
    reports,    \* history: the settlements callers were told are done
    clock       \* real time, read by callers

vars == <<by_id, next_id, claims, reports, clock>>

Messages == [id : MessageIds, content : Contents]

DispatchStates == {"pending", "claimed", "published", "quarantined"}

ErrorClasses == {"publication_outcome_ambiguous", "dispatcher_claim_expired",
                 "released", "quarantine_reason"}

Entries == [message : Messages, state : DispatchStates,
            claim_owner : Owners \cup {None}, claim_generation : Nat,
            claim_expires_at : Nat \cup {None}, attempt_count : Nat,
            last_error_class : ErrorClasses \cup {None},
            publication_receipt : ReceiptIds \cup {None}]

OutboxClaims == [record_id : Nat, owner_id : Owners, claim_generation : Nat,
                 claim_expires_at : Nat, message : Messages]

\* The states no call leaves again
FinalStates == {"published", "quarantined"}

Reports == [claim : OutboxClaims, state : FinalStates \cup {"pending"},
            receipt : ReceiptIds \cup {None}]

Records == 1 .. (next_id - 1)

\* observed_at values a caller that is now entering the lock may carry
ObservedAt == {t \in 0 .. clock : clock - t <= MaxLag}

NewEntry(m) ==
    [message |-> m, state |-> "pending", claim_owner |-> None,
     claim_generation |-> 0, claim_expires_at |-> None, attempt_count |-> 0,
     last_error_class |-> None, publication_receipt |-> None]

-----------------------------------------------------------------------------
Expired(e) == [e EXCEPT !.state = "pending",
                        !.claim_owner = None,
                        !.claim_expires_at = None,
                        !.last_error_class = "dispatcher_claim_expired"]

IsLapsed(e, now) ==
    e.state = "claimed" /\ e.claim_expires_at # None /\ e.claim_expires_at <= now

\* Mutant form: expiry that never happens.
ExpireNothing(now) == [r \in Records |-> by_id[r]]

\* _expire_claims_locked: lapsed claims return to pending, and say why
ExpireClaims(now) ==
    [r \in Records |-> IF IsLapsed(by_id[r], now) THEN Expired(by_id[r]) ELSE by_id[r]]

\* Mutant form: a fence that asks for the owner and not for the generation.
IsClaimOfOwner(ledger, c) ==
    /\ c.record_id \in DOMAIN ledger
    /\ ledger[c.record_id].state = "claimed"
    /\ ledger[c.record_id].claim_owner = c.owner_id
    /\ ledger[c.record_id].claim_expires_at = c.claim_expires_at

\* _require_current_claim, evaluated on the ledger after expiry
IsCurrentClaim(ledger, c) ==
    /\ c.record_id \in DOMAIN ledger
    /\ ledger[c.record_id].state = "claimed"
    /\ ledger[c.record_id].claim_owner = c.owner_id
    /\ ledger[c.record_id].claim_generation = c.claim_generation
    /\ ledger[c.record_id].claim_expires_at = c.claim_expires_at

\* Mutant form: the settled entry keeps its owner.
SettleKeepsOwner(e, state, error, receipt) ==
    [e EXCEPT !.state = state,
              !.last_error_class = error,
              !.publication_receipt = receipt]

\* What mark_published, mark_publication_ambiguous, quarantine and release_claim
\* assign to the claimed entry; only mark_published records a receipt.
Settled(e, state, error, receipt) ==
    [e EXCEPT !.state = state,
              !.claim_owner = None,
              !.claim_expires_at = None,
              !.last_error_class = error,
              !.publication_receipt = receipt]

SettleClaim(ledger, c, state, error, receipt) ==
    [ledger EXCEPT ![c.record_id] = Settled(ledger[c.record_id], state, error, receipt)]

-----------------------------------------------------------------------------
Init ==
    /\ by_id = [r \in {} |-> None]
    /\ next_id = 1
    /\ claims = {}
    /\ reports = {}
    /\ clock = 0

Extended(m) == [r \in 1 .. next_id |-> IF r = next_id THEN NewEntry(m) ELSE by_id[r]]

\* append_committed: create, or observe the record of the same identity.  Reuse
\* of an identity for another meaning raises and changes nothing.
AppendCommitted(m) ==
    /\ \A r \in Records : by_id[r].message.id # m.id
    /\ by_id' = Extended(m)
    /\ next_id' = next_id + 1
    /\ UNCHANGED <<claims, reports, clock>>

Claimed(e, o, expires) ==
    [e EXCEPT !.state = "claimed",
              !.claim_owner = o,
              !.claim_generation = e.claim_generation + 1,
              !.claim_expires_at = expires,
              !.attempt_count = e.attempt_count + 1]

\* claim_next: the pending record of least id, after expiring lapsed claims
ClaimNext(o, now, expires) ==
    LET ledger == ExpireClaims(now)
        pending == {r \in Records : ledger[r].state = "pending"}
    IN  /\ expires > now
        /\ \E r \in pending :
              /\ \A q \in pending : r <= q
              /\ ledger[r].attempt_count < MaxAttempts
              /\ by_id' = [ledger EXCEPT ![r] = Claimed(ledger[r], o, expires)]
              /\ claims' = claims \cup
                    {[record_id |-> r, owner_id |-> o,
                      claim_generation |-> ledger[r].claim_generation + 1,
                      claim_expires_at |-> expires, message |-> ledger[r].message]}
        /\ UNCHANGED <<next_id, reports, clock>>

\* claim_next with nothing pending, pending_messages(observed_at), and every
\* call refused by _require_current_claim: only the expiry takes effect.
ExpireOnly(now) ==
    /\ by_id' = ExpireClaims(now)
    /\ by_id' # by_id
    /\ UNCHANGED <<next_id, claims, reports, clock>>

\* The call returns: what its caller knows from now on.
Report(c, state, receipt) ==
    reports' = reports \cup {[claim |-> c, state |-> state, receipt |-> receipt]}

\* mark_published: any receipt settles a current claim, its type is all that is looked at
MarkPublished(c, receipt, now) ==
    LET ledger == ExpireClaims(now)
    IN  /\ IsCurrentClaim(ledger, c)
        /\ by_id' = SettleClaim(ledger, c, "published", None, receipt)
        /\ Report(c, "published", receipt)
        /\ UNCHANGED <<next_id, claims, clock>>

\* The outcome at the broker is unknown: the record is offered again as it is.
MarkPublicationAmbiguous(c, now) ==
    LET ledger == ExpireClaims(now)
    IN  /\ IsCurrentClaim(ledger, c)
        /\ by_id' = SettleClaim(ledger, c, "pending", "publication_outcome_ambiguous",
                                ledger[c.record_id].publication_receipt)
        /\ Report(c, "pending", None)
        /\ UNCHANGED <<next_id, claims, clock>>

Quarantine(c, now) ==
    LET ledger == ExpireClaims(now)
    IN  /\ IsCurrentClaim(ledger, c)
        /\ by_id' = SettleClaim(ledger, c, "quarantined", "quarantine_reason",
                                ledger[c.record_id].publication_receipt)
        /\ Report(c, "quarantined", None)
        /\ UNCHANGED <<next_id, claims, clock>>

ReleaseClaim(c, now) ==
    LET ledger == ExpireClaims(now)
    IN  /\ IsCurrentClaim(ledger, c)
        /\ by_id' = SettleClaim(ledger, c, "pending", "released",
                                ledger[c.record_id].publication_receipt)
        /\ Report(c, "pending", None)
        /\ UNCHANGED <<next_id, claims, clock>>

Tick ==
    /\ clock < MaxClock
    /\ clock' = clock + 1
    /\ UNCHANGED <<by_id, next_id, claims, reports>>

AppendMessage == \E m \in Messages : AppendCommitted(m)

\* Leases end within the clock's bound, so that each one can be seen to lapse.
Claim == \E o \in Owners, now \in ObservedAt, expires \in 1 .. MaxClock :
            ClaimNext(o, now, expires)

Expire == \E now \in ObservedAt : ExpireOnly(now)

Acknowledge == \E c \in claims, receipt \in ReceiptIds, now \in ObservedAt :
                  MarkPublished(c, receipt, now)

Ambiguous == \E c \in claims, now \in ObservedAt : MarkPublicationAmbiguous(c, now)

Poison == \E c \in claims, now \in ObservedAt : Quarantine(c, now)

Release == \E c \in claims, now \in ObservedAt : ReleaseClaim(c, now)

Next == AppendMessage \/ Claim \/ Expire \/ Acknowledge \/ Ambiguous \/ Poison \/ Release
        \/ Tick

Spec == Init /\ [][Next]_vars

\* Time passes, and some dispatcher keeps calling claim_next or
\* pending_messages, each of which runs the expiry first.  Nothing is assumed of
\* the dispatcher that holds a claim.
OutboxFairness == WF_vars(Tick) /\ WF_vars(Expire)

FairSpec == Spec /\ OutboxFairness

-----------------------------------------------------------------------------
\* Every variable has the shape the dataclasses give it; record ids are dense.
TypeOK ==
    /\ next_id \in Nat \ {0}
    /\ by_id \in [Records -> Entries]
    /\ claims \subseteq OutboxClaims
    /\ reports \subseteq Reports
    /\ clock \in 0 .. MaxClock

\* No two claims were ever handed out for one record under one generation: a
\* holder whose lease lapsed can never be mistaken for its successor, whatever
\* expiries, releases and ambiguous outcomes lie between them.
GenerationsUnique ==
    \A c, d \in claims :
        c.record_id = d.record_id /\ c.claim_generation = d.claim_generation => c = d

\* What the ledger told a dispatcher stays true, and the ledger says nothing a
\* dispatcher did not: no claim is settled twice; a record whose publication or
\* quarantine was acknowledged keeps that outcome and that receipt, and is not
\* claimed again; a record is final only because the holder of its last claim
\* reported it so, whoever held it before (_require_current_claim).  So neither
\* expiry nor an ambiguous publication ever counts as success, and a holder
\* whose claim was ended by either decides nothing for its successor.
SettledByLastHolder ==
    /\ \A s, t \in reports : s.claim = t.claim => s = t
    /\ \A s \in reports : s.state \in FinalStates =>
          LET entry == by_id[s.claim.record_id]
          IN  /\ entry.state = s.state
              /\ entry.claim_generation = s.claim.claim_generation
              /\ s.state = "published" => entry.publication_receipt = s.receipt
    /\ \A r \in Records : by_id[r].state \in FinalStates =>
          \E s \in reports : s.claim.record_id = r /\ s.state = by_id[r].state

\* A dispatcher that dies while it holds a claim does not keep the record: every
\* claimed record leaves that claim.
ClaimsAreReleased ==
    \A r \in 1 .. Cardinality(MessageIds) :
        (r \in Records /\ by_id[r].state = "claimed")
            ~> (r \in Records /\ by_id[r].state # "claimed")

SQL == INSTANCE Wave2Guards

\* The PostgreSQL dispatch table takes every step of the ledger: its rows meet the
\* CHECK constraints and its update guard lets the change through, in one update
\* or as the expiry followed by another.
DispatchGuardAccepts ==
    [][\A r \in Records :
         /\ SQL!DispatchRowAllowed(by_id'[r])
         /\ \/ SQL!DispatchUpdateAllowed(by_id[r], by_id'[r])
            \/ /\ by_id[r].state = "claimed"
               /\ SQL!DispatchUpdateAllowed(by_id[r], Expired(by_id[r]))
               /\ SQL!DispatchUpdateAllowed(Expired(by_id[r]), by_id'[r])]_vars
=============================================================================
