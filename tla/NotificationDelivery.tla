------------------------ MODULE NotificationDelivery ------------------------
(***************************************************************************)
(* One notification intent of notification.* (sql/notification/001) with   *)
(* the dispatchers of apps/g9-notification-delivery/worker.py, the callback *)
(* boundary and the maintenance calls that reconcile and retry.             *)
(*                                                                         *)
(* Every SQL function is one READ COMMITTED transaction.  Those that end   *)
(* with g9_refresh_projection are two steps: one that takes the row lock,  *)
(* writes and computes the projection from what is committed and its own   *)
(* writes, and Commit, which publishes both.  What the functions reject    *)
(* with an exception changes nothing and is left out.  A lease lapses at   *)
(* any time, and so does the backoff of a retry.  The four reads of a      *)
(* refresh are taken as one.                                               *)
(*                                                                         *)
(* The visibility requirement of an intent, the alert it belongs to and    *)
(* the authority of its creator are left out; intents share no row.        *)
(***************************************************************************)
EXTENDS Absent, Naturals, FiniteSetsExt

CONSTANTS
    Workers,       \* executor ids of the dispatchers
    MaxAttempts,   \* notification_intent.max_attempts
    Answers,       \* what adapter.send may come to: a state, and whether it names a message
    Callbacks      \* what the provider may report, by the attempt whose message ref it names

VARIABLES
    outbox,        \* notification_dispatch_outbox, by attempt number
    attempts,      \* notification_attempt, by attempt number
    evidence,      \* notification_provider_evidence: callback -> its place by observed_at
    inbox,         \* notification_callback_inbox: callback -> state
    projection,    \* notification_projection
    inflight,      \* transactions that wrote and did not commit yet
    workers,       \* what each dispatcher is at
    sends          \* attempt number -> calls of adapter.send

notificationVars ==
    <<outbox, attempts, evidence, inbox, projection, inflight, workers, sends>>

Attempts == 1 .. MaxAttempts
Outcomes == {"sent", "provider_accepted", "delivered", "failed", "unknown"}
EvidenceKinds == {"provider_accepted", "delivered", "external_read_observed", "failed", "unknown"}

OutboxRows ==
    [state : {"admitted", "processing", "succeeded", "failed", "reconciliation_required"},
     executor : Workers \cup {None}, lapsed : BOOLEAN]

\* bound: the provider's message reference is known
AttemptRows == [state : Outcomes \cup {"dispatching"}, bound : BOOLEAN]

\* latest: number of the latest attempt, 0 when there is none
Projections == [state : Outcomes \cup {"dispatching"}, latest : Attempts \cup {0}]

\* What a transaction has written: rows of attempt number row, or a callback, or only the
\* projection.  by is the dispatcher that waits for it.
Transactions ==
    [by : Workers \cup {None}, row : Attempts \cup {None}, outbox : OutboxRows \cup {None},
     attempt : AttemptRows \cup {None}, callback : Callbacks \cup {None}, proj : Projections]

WorkerStates ==
    [phase : {"idle", "candidate", "waiting", "sending", "sent"}, row : Attempts \cup {None},
     outcome : AttemptRows \cup {None}]

ASSUME NotificationConstants ==
    /\ MaxAttempts \in 1 .. 3
    /\ Answers \subseteq [state : Outcomes, bound : BOOLEAN]
    /\ [state |-> "unknown", bound |-> FALSE] \in Answers
    /\ Callbacks \subseteq [attempt : Attempts, kind : EvidenceKinds]
    /\ None \notin Workers /\ None \notin Attempts /\ None \notin Callbacks
    /\ None \notin OutboxRows /\ None \notin AttemptRows

Admitted == [state |-> "admitted", executor |-> None, lapsed |-> FALSE]
Idle == [phase |-> "idle", row |-> None, outcome |-> None]

\* A dispatch row whose claim is over
Released(row, state) == [state |-> state, executor |-> None, lapsed |-> FALSE]

-----------------------------------------------------------------------------
(* g9_refresh_projection *)

Latest(rows) == Max({n \in Attempts : rows[n] # None} \cup {0})

KindsOf(facts) == {c.kind : c \in DOMAIN facts}

LatestKind(facts) ==
    IF DOMAIN facts = {} THEN None
    ELSE (CHOOSE c \in DOMAIN facts : \A d \in DOMAIN facts : facts[d] <= facts[c]).kind

\* The facts and c, observed now.
Observed(facts, c) ==
    [d \in DOMAIN facts \cup {c} |-> IF d = c THEN Cardinality(DOMAIN evidence) + 1 ELSE facts[d]]

\* Mutant form: that the recipient read it proves the delivery.
ReadProvesDelivery(facts) ==
    "delivered" \in KindsOf(facts) \/ "external_read_observed" \in KindsOf(facts)

DeliveryProven(facts) == "delivered" \in KindsOf(facts)

DeliveryState(rows, facts) ==
    IF DeliveryProven(facts) THEN "delivered"
    ELSE IF "provider_accepted" \in KindsOf(facts) THEN "provider_accepted"
    ELSE IF LatestKind(facts) \in {"failed", "unknown"} THEN LatestKind(facts)
    ELSE IF Latest(rows) # 0 THEN rows[Latest(rows)].state
    ELSE "unknown"

Projected(rows, facts) == [state |-> DeliveryState(rows, facts), latest |-> Latest(rows)]

RetryRequired(p) ==
    p.state \in {"failed", "unknown"} /\ p.latest # 0 /\ p.latest < MaxAttempts

\* The evidence other transactions can see.
Visible == [c \in {d \in DOMAIN evidence : \A t \in inflight : t.callback # d} |-> evidence[c]]

-----------------------------------------------------------------------------
\* g9_create_intent: the intent, its first dispatch and its projection.
NotificationInit ==
    /\ outbox = [n \in Attempts |-> IF n = 1 THEN Admitted ELSE None]
    /\ attempts = [n \in Attempts |-> None]
    /\ evidence = [c \in {} |-> 0]
    /\ inbox = [c \in Callbacks |-> None]
    /\ projection = Projected(attempts, evidence)
    /\ inflight = {}
    /\ workers = [w \in Workers |-> Idle]
    /\ sends = [n \in Attempts |-> 0]

Locked(n) == \E t \in inflight : t.row = n

\* A transaction on the rows of attempt n, with its row lock.
Begin(by, n, row, attempt) ==
    /\ ~ Locked(n)
    /\ inflight' = inflight \cup
           {[by |-> by, row |-> n, outbox |-> row, attempt |-> attempt, callback |-> None,
             proj |-> Projected([attempts EXCEPT ![n] = attempt], Visible)]}
    /\ UNCHANGED <<outbox, attempts, evidence, inbox, projection, sends>>

\* The transaction's writes become visible; the upsert of the projection overwrites
\* whatever was committed since it was computed.
Commit(t) ==
    /\ outbox' = IF t.row = None THEN outbox ELSE [outbox EXCEPT ![t.row] = t.outbox]
    /\ attempts' = IF t.row = None THEN attempts ELSE [attempts EXCEPT ![t.row] = t.attempt]
    /\ inbox' = IF t.callback = None THEN inbox
                                     ELSE [inbox EXCEPT ![t.callback] = "processed"]
    /\ projection' = t.proj
    /\ inflight' = inflight \ {t}
    /\ workers' = IF t.by = None THEN workers ELSE [workers EXCEPT ![t.by] =
           IF t.outbox.state = "processing"
           THEN [phase |-> "sending", row |-> t.row, outcome |-> None] ELSE Idle]
    /\ UNCHANGED <<evidence, sends>>

-----------------------------------------------------------------------------
(* The dispatcher: dispatch_next and dispatch *)

\* g9_next_dispatch_candidate
NextCandidate(w, n) ==
    /\ workers[w].phase = "idle"
    /\ outbox[n] = Admitted
    /\ workers' = [workers EXCEPT ![w] = [phase |-> "candidate", row |-> n, outcome |-> None]]
    /\ UNCHANGED <<outbox, attempts, evidence, inbox, projection, inflight, sends>>

\* g9_claim_dispatch of an admitted row
Claim(w) ==
    LET n == workers[w].row IN
    /\ workers[w].phase = "candidate"
    /\ outbox[n] = Admitted
    /\ Begin(w, n, [state |-> "processing", executor |-> w, lapsed |-> FALSE],
             [state |-> "dispatching", bound |-> FALSE])
    /\ workers' = [workers EXCEPT ![w].phase = "waiting"]

\* g9_claim_dispatch of a row whose lease ran out
ClaimLapsed(w) ==
    LET n == workers[w].row IN
    /\ workers[w].phase = "candidate"
    /\ ~ Locked(n)
    /\ outbox[n].state = "processing" /\ outbox[n].lapsed
    /\ outbox' = [outbox EXCEPT ![n] = Released(outbox[n], "reconciliation_required")]
    /\ workers' = [workers EXCEPT ![w] = Idle]
    /\ UNCHANGED <<attempts, evidence, inbox, projection, inflight, sends>>

\* g9_claim_dispatch of a row in another state.  The duplicate of a claim in progress is
\* answered with state "processing", which dispatch takes for its own.
ClaimDuplicate(w) ==
    LET n == workers[w].row IN
    /\ workers[w].phase = "candidate"
    /\ ~ Locked(n)
    /\ outbox[n] # Admitted /\ ~ (outbox[n].state = "processing" /\ outbox[n].lapsed)
    /\ workers' = [workers EXCEPT ![w] =
           IF outbox[n].state = "processing"
           THEN [phase |-> "sending", row |-> n, outcome |-> None] ELSE Idle]
    /\ UNCHANGED <<outbox, attempts, evidence, inbox, projection, inflight, sends>>

\* adapter.send, with its answer or an exception, which is "unknown"
Send(w, outcome) ==
    /\ workers[w].phase = "sending"
    /\ sends' = [sends EXCEPT ![workers[w].row] = sends[workers[w].row] + 1]
    /\ workers' = [workers EXCEPT ![w].phase = "sent", ![w].outcome = outcome]
    /\ UNCHANGED <<outbox, attempts, evidence, inbox, projection, inflight>>

\* Mutant form: who sent the message may say how it went.
AnyCompletion(w, n) == attempts[n] # None

\* The checks of g9_complete_dispatch on the claim and the attempt, and of the trigger
\* g9_attempt_guard on the attempt
CurrentClaim(w, n) ==
    /\ outbox[n].state = "processing" /\ outbox[n].executor = w /\ ~ outbox[n].lapsed
    /\ attempts[n].state = "dispatching"

DispatchVerdict(outcome) ==
    IF outcome.state \in {"failed", "unknown"} THEN "failed" ELSE "succeeded"

\* g9_complete_dispatch
Complete(w) ==
    LET n == workers[w].row
        outcome == workers[w].outcome IN
    /\ workers[w].phase = "sent"
    /\ CurrentClaim(w, n)
    /\ Begin(w, n, Released(outbox[n], DispatchVerdict(outcome)), outcome)
    /\ workers' = [workers EXCEPT ![w].phase = "waiting"]

\* g9_complete_dispatch raises g9.dispatch_claim_lost: the outcome is lost with it.
CompleteRefused(w) ==
    /\ workers[w].phase = "sent"
    /\ ~ Locked(workers[w].row)
    /\ ~ CurrentClaim(w, workers[w].row)
    /\ workers' = [workers EXCEPT ![w] = Idle]
    /\ UNCHANGED <<outbox, attempts, evidence, inbox, projection, inflight, sends>>

WorkerDies(w) ==
    /\ workers[w].phase \in {"candidate", "sending", "sent"}
    /\ workers' = [workers EXCEPT ![w] = Idle]
    /\ UNCHANGED <<outbox, attempts, evidence, inbox, projection, inflight, sends>>

LeaseLapses(n) ==
    /\ outbox[n] # None /\ outbox[n].state = "processing" /\ ~ outbox[n].lapsed
    /\ outbox' = [outbox EXCEPT ![n].lapsed = TRUE]
    /\ UNCHANGED <<attempts, evidence, inbox, projection, inflight, workers, sends>>

-----------------------------------------------------------------------------
(* Maintenance *)

\* g9_reconcile_dispatch_claim
Reconcile(n) ==
    /\ outbox[n] # None /\ outbox[n].state = "reconciliation_required"
    /\ Begin(None, n, Released(outbox[n], "failed"),
             IF attempts[n].state = "dispatching" THEN [attempts[n] EXCEPT !.state = "unknown"]
                                                  ELSE attempts[n])
    /\ UNCHANGED workers

RetryDue(facts) == RetryRequired(projection) /\ ~ DeliveryProven(facts)

\* g9_schedule_retry of the latest attempt; a row that is there already stays.
ScheduleRetry ==
    LET n == Latest(attempts) IN
    /\ n # 0 /\ n < MaxAttempts
    /\ RetryDue(Visible)
    /\ outbox[n + 1] = None
    /\ outbox' = [outbox EXCEPT ![n + 1] = Admitted]
    /\ UNCHANGED <<attempts, evidence, inbox, projection, inflight, workers, sends>>

\* g9_schedule_retry on a projection that missed the delivery; the advisory lock admits
\* one call at a time.
RetryAlreadyProven ==
    /\ Latest(attempts) \in 1 .. MaxAttempts - 1
    /\ RetryRequired(projection) /\ DeliveryProven(Visible)
    /\ \A t \in inflight : t.row # None \/ t.callback # None
    /\ inflight' = inflight \cup
           {[by |-> None, row |-> None, outbox |-> None, attempt |-> None, callback |-> None,
             proj |-> Projected(attempts, Visible)]}
    /\ UNCHANGED <<outbox, attempts, evidence, inbox, projection, workers, sends>>

-----------------------------------------------------------------------------
(* g9_record_provider_callback *)

\* The callback is in no inbox row, and no other delivery of it holds the unique key.
IsNew(c) == inbox[c] = None /\ \A t \in inflight : t.callback # c

\* An attempt has the message reference the callback names.
BoundToAttempt(c) == attempts[c.attempt] # None /\ attempts[c.attempt].bound

RecordCallback(c) ==
    /\ sends[c.attempt] > 0
    /\ IsNew(c)
    /\ BoundToAttempt(c)
    /\ evidence' = Observed(evidence, c)
    /\ inflight' = inflight \cup
           {[by |-> None, row |-> None, outbox |-> None, attempt |-> None, callback |-> c,
             proj |-> Projected(attempts, Observed(Visible, c))]}
    /\ UNCHANGED <<outbox, attempts, inbox, projection, workers, sends>>

QuarantineCallback(c) ==
    /\ sends[c.attempt] > 0
    /\ IsNew(c)
    /\ ~ BoundToAttempt(c)
    /\ inbox' = [inbox EXCEPT ![c] = "quarantined"]
    /\ UNCHANGED <<outbox, attempts, evidence, projection, inflight, workers, sends>>

-----------------------------------------------------------------------------
NotificationNext ==
    \/ \E t \in inflight : Commit(t)
    \/ \E w \in Workers :
          \/ \E n \in Attempts : NextCandidate(w, n)
          \/ Claim(w) \/ ClaimLapsed(w) \/ ClaimDuplicate(w)
          \/ \E answer \in Answers : Send(w, answer)
          \/ Complete(w) \/ CompleteRefused(w) \/ WorkerDies(w)
    \/ \E n \in Attempts : LeaseLapses(n) \/ Reconcile(n)
    \/ ScheduleRetry \/ RetryAlreadyProven
    \/ \E c \in Callbacks : RecordCallback(c) \/ QuarantineCallback(c)

NotificationSpec == NotificationInit /\ [][NotificationNext]_notificationVars
-----------------------------------------------------------------------------
(* Properties *)

Settled(attempt) == attempt # None /\ attempt.state # "dispatching"

\* An attempt with an outcome is history: neither the answer of a dispatcher that lost its
\* claim nor a second dispatcher's answer nor reconciliation rewrites it.
OutcomeIsFinal ==
    [][\A n \in Attempts : Settled(attempts[n]) => attempts'[n] = attempts[n]]_notificationVars

\* Whatever the order of callbacks, completions and projection writes, nothing is shown as
\* delivered that neither the provider nor the adapter reported delivered: that the
\* recipient read the message is not enough.
NeverInventsDelivery ==
    projection.state = "delivered" =>
        \/ \E c \in DOMAIN evidence : c.kind = "delivered"
        \/ \E n \in Attempts : attempts[n] # None /\ attempts[n].state = "delivered"

(* What the authorization document says of the dispatch and the code does not do *)

\* implementation/g9-notification-delivery-authorization/AUTHORIZATION.md:229: dispatch at
\* least once does not duplicate the effect of a logical attempt.
SentOncePerAttempt == \A n \in Attempts : sends[n] <= 1
=============================================================================
