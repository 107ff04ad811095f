----------------------------- MODULE TicketSync -----------------------------
(***************************************************************************)
(* The synchronisation of one incident with an external ticket system:     *)
(* itsm.incident_sync_outbox and itsm.incident_provider_link               *)
(* (sql/itsm/001_incident.sql) with the workers of apps/g10-itsm/worker.py *)
(* and the maintenance calls that reconcile and retry.                     *)
(*                                                                         *)
(* Each SQL function takes the row, or the advisory lock of the incident,  *)
(* before it reads what it decides on: it is one step.  What it rejects    *)
(* with an exception changes nothing.  Claims and the backoff of a retry   *)
(* expire at any time.  The incident's own lifecycle, assignment and       *)
(* comments share nothing with its synchronisation and are left out.       *)
(***************************************************************************)
EXTENDS Naturals, Absent

CONSTANTS
    SyncWorkers,   \* executor ids
    MaxSyncAttempts, \* the retry budget, three in the code
    MaxSyncerDeaths  \* bound on the deaths of workers

ASSUME TicketSyncConstants ==
    /\ MaxSyncAttempts \in Nat \ {0}
    /\ MaxSyncerDeaths \in Nat
    /\ None \notin SyncWorkers \cup Nat

VARIABLES
    rows,          \* incident_sync_outbox, by attempt number
    link,          \* incident_provider_link: the ticket the incident is linked to
    tickets,       \* the external tickets, named by the identity they were asked for with
    syncers,       \* what each worker is at
    syncerDeaths

ticketVars == <<rows, link, tickets, syncers, syncerDeaths>>

Attempts == 1 .. MaxSyncAttempts
Outcomes == {"linked", "failed", "unknown"}
OpenStates == {"pending", "dispatching", "reconciliation_required"}

Rows ==
    [state : {"none"} \cup OpenStates \cup Outcomes, executor : SyncWorkers \cup {None},
     expired : BOOLEAN]

\* ticket: what the adapter answered with "linked"
Syncers ==
    [phase : {"idle", "candidate", "calling", "answered"}, row : Attempts \cup {None},
     outcome : Outcomes \cup {None}, ticket : Attempts \cup {None}]

NoRow == [state |-> "none", executor |-> None, expired |-> FALSE]
PendingRow == [state |-> "pending", executor |-> None, expired |-> FALSE]
IdleSyncer == [phase |-> "idle", row |-> None, outcome |-> None, ticket |-> None]

\* sync_identity: a retry takes over the identity of the first attempt.
SyncIdentity(n) == 1

TicketInit ==
    /\ rows = [n \in Attempts |-> IF n = 1 THEN PendingRow ELSE NoRow]
    /\ link = None
    /\ tickets = {}
    /\ syncers = [w \in SyncWorkers |-> IdleSyncer]
    /\ syncerDeaths = 0

-----------------------------------------------------------------------------
(* ITSMSyncWorker.sync_next *)

ExpiredClaim(n) == rows[n].state = "dispatching" /\ rows[n].expired

\* g10_next_sync_candidate: expired claims come first
TakeSync(w, n) ==
    /\ syncers[w].phase = "idle"
    /\ \/ ExpiredClaim(n)
       \/ rows[n].state = "pending" /\ \A m \in Attempts : ~ ExpiredClaim(m)
    /\ syncers' = [syncers EXCEPT ![w] =
           [phase |-> "candidate", row |-> n, outcome |-> None, ticket |-> None]]
    /\ UNCHANGED <<rows, link, tickets, syncerDeaths>>

ToReconcile(n) == [state |-> "reconciliation_required", executor |-> None, expired |-> FALSE]

\* g10_claim_sync of a claim that expired
ClaimExpired(w) ==
    LET n == syncers[w].row IN
    /\ syncers[w].phase = "candidate"
    /\ ExpiredClaim(n)
    /\ rows' = [rows EXCEPT ![n] = ToReconcile(n)]
    /\ syncers' = [syncers EXCEPT ![w] = IdleSyncer]
    /\ UNCHANGED <<link, tickets, syncerDeaths>>

\* g10_claim_sync of a pending row
ClaimPending(w) ==
    LET n == syncers[w].row IN
    /\ syncers[w].phase = "candidate"
    /\ rows[n].state = "pending"
    /\ rows' = [rows EXCEPT ![n] =
           [state |-> "dispatching", executor |-> w, expired |-> FALSE]]
    /\ syncers' = [syncers EXCEPT ![w] =
           [phase |-> "calling", row |-> n, outcome |-> None, ticket |-> None]]
    /\ UNCHANGED <<link, tickets, syncerDeaths>>

\* g10_claim_sync of any other row.  The duplicate of a claim in progress is answered
\* "dispatching", which sync_next takes for its own claim.
ClaimDuplicate(w) ==
    LET n == syncers[w].row IN
    /\ syncers[w].phase = "candidate"
    /\ rows[n].state # "pending" /\ ~ ExpiredClaim(n)
    /\ syncers' = [syncers EXCEPT ![w] =
           IF rows[n].state = "dispatching"
           THEN [phase |-> "calling", row |-> n, outcome |-> None, ticket |-> None]
           ELSE IdleSyncer]
    /\ UNCHANGED <<rows, link, tickets, syncerDeaths>>

\* The adapter created or found the ticket of the identity and says so.
AdapterLinks(w) ==
    LET t == SyncIdentity(syncers[w].row) IN
    /\ syncers[w].phase = "calling"
    /\ tickets' = tickets \cup {t}
    /\ syncers' = [syncers EXCEPT ![w] =
           [phase |-> "answered", row |-> syncers[w].row, outcome |-> "linked", ticket |-> t]]
    /\ UNCHANGED <<rows, link, syncerDeaths>>

\* The adapter fails, or raises, with or without an effect on the ticket system.
AdapterFails(w, outcome, created) ==
    /\ syncers[w].phase = "calling"
    /\ tickets' = IF created THEN tickets \cup {SyncIdentity(syncers[w].row)} ELSE tickets
    /\ syncers' = [syncers EXCEPT ![w] =
           [phase |-> "answered", row |-> syncers[w].row, outcome |-> outcome, ticket |-> None]]
    /\ UNCHANGED <<rows, link, syncerDeaths>>

\* Mutant form: whoever has an answer completes.
AnyHolder(w, n) == TRUE

HoldsClaim(w, n) ==
    rows[n].state = "dispatching" /\ rows[n].executor = w /\ ~ rows[n].expired

\* The link is written once; a second ticket is an equivalence conflict.
LinkAccepts(outcome, ticket) == outcome = "linked" => link \in {None, ticket}

LinkAfter(outcome, ticket) == IF outcome = "linked" THEN ticket ELSE link

\* g10_complete_sync
CompleteSync(w) ==
    LET n == syncers[w].row
        outcome == syncers[w].outcome IN
    /\ syncers[w].phase = "answered"
    /\ HoldsClaim(w, n)
    /\ LinkAccepts(outcome, syncers[w].ticket)
    /\ rows' = [rows EXCEPT ![n] = [state |-> outcome, executor |-> None, expired |-> FALSE]]
    /\ link' = LinkAfter(outcome, syncers[w].ticket)
    /\ syncers' = [syncers EXCEPT ![w] = IdleSyncer]
    /\ UNCHANGED <<tickets, syncerDeaths>>

\* g10_complete_sync raises, or answers a duplicate
CompleteRefused(w) ==
    /\ syncers[w].phase = "answered"
    /\ ~ (HoldsClaim(w, syncers[w].row)
          /\ LinkAccepts(syncers[w].outcome, syncers[w].ticket))
    /\ syncers' = [syncers EXCEPT ![w] = IdleSyncer]
    /\ UNCHANGED <<rows, link, tickets, syncerDeaths>>

SyncerDies(w) ==
    /\ syncerDeaths < MaxSyncerDeaths
    /\ syncers[w].phase # "idle"
    /\ syncerDeaths' = syncerDeaths + 1
    /\ syncers' = [syncers EXCEPT ![w] = IdleSyncer]
    /\ UNCHANGED <<rows, link, tickets>>

ClaimExpires(n) ==
    /\ rows[n].state = "dispatching" /\ ~ rows[n].expired
    /\ rows' = [rows EXCEPT ![n] =
           [state |-> "dispatching", executor |-> rows[n].executor, expired |-> TRUE]]
    /\ UNCHANGED <<link, tickets, syncers, syncerDeaths>>

-----------------------------------------------------------------------------
(* Maintenance *)

\* g10_reconcile_sync
ReconcileSync(n) ==
    /\ rows[n].state = "reconciliation_required"
    /\ rows' = [rows EXCEPT ![n] = [state |-> "unknown", executor |-> None, expired |-> FALSE]]
    /\ UNCHANGED <<link, tickets, syncers, syncerDeaths>>

IsLatest(n) ==
    /\ rows[n].state # "none"
    /\ \A m \in Attempts : m > n => rows[m].state = "none"

\* Mutant form: a claim in progress may be retried too.
RetryUnlessLinked(n) == link = None /\ rows[n].state # "linked"

RetryDue(n) == link = None /\ rows[n].state \in {"failed", "unknown"}

\* g10_schedule_sync_retry after attempt n
ScheduleSyncRetry(n) ==
    /\ IsLatest(n)
    /\ RetryDue(n)
    /\ n < MaxSyncAttempts
    /\ rows' = [rows EXCEPT ![n + 1] = PendingRow]
    /\ UNCHANGED <<link, tickets, syncers, syncerDeaths>>

-----------------------------------------------------------------------------
SyncerStep(w) ==
    \/ \E n \in Attempts : TakeSync(w, n)
    \/ ClaimExpired(w) \/ ClaimPending(w) \/ ClaimDuplicate(w)
    \/ AdapterLinks(w)
    \/ \E outcome \in {"failed", "unknown"}, created \in BOOLEAN :
          AdapterFails(w, outcome, created)
    \/ CompleteSync(w) \/ CompleteRefused(w)

TicketNext ==
    \/ \E w \in SyncWorkers : SyncerStep(w) \/ SyncerDies(w)
    \/ \E n \in Attempts : ClaimExpires(n) \/ ReconcileSync(n) \/ ScheduleSyncRetry(n)

TicketSpec == TicketInit /\ [][TicketNext]_ticketVars

-----------------------------------------------------------------------------
(* Properties *)

\* Rows, link, tickets and workers keep their types; a row has an executor exactly while
\* it is dispatching, as the CHECK of the table demands, and a worker at work has a row.
TicketTypeOK ==
    /\ rows \in [Attempts -> Rows]
    /\ \A n \in Attempts : rows[n].executor # None <=> rows[n].state = "dispatching"
    /\ link \in Attempts \cup {None}
    /\ tickets \subseteq Attempts
    /\ syncers \in [SyncWorkers -> Syncers]
    /\ \A w \in SyncWorkers :
          /\ syncers[w].phase # "idle" => syncers[w].row \in Attempts
          /\ syncers[w].phase = "answered" => syncers[w].outcome \in Outcomes
    /\ syncerDeaths \in 0 .. MaxSyncerDeaths

\* Attempts come one after the other: every row before the latest came to an
\* outcome that leaves something to retry, whatever expired, died or was answered late.
OneOpenSync ==
    \A n, m \in Attempts :
        n < m /\ rows[m].state # "none" => rows[n].state \in {"failed", "unknown"}

\* The provider link and the row that won it are written together and there is one such
\* row: a linked incident is never tried again, an unlinked one never shown as linked.
LinkedRowHasLink == (\E n \in Attempts : rows[n].state = "linked") <=> link # None

\* However often the adapter is asked, by claims that expired, duplicates taken for claims
\* or retries, the incident has at most one external ticket, and no link to another.
OneTicketPerIncident ==
    /\ \A s, t \in tickets : s = t
    /\ link # None => link \in tickets

\* An outcome stays: no late answer or reconciliation overwrites it, and the link of the
\* incident is never changed.
SyncOutcomeIsFinal ==
    [][/\ \A n \in Attempts : rows[n].state \in Outcomes => rows'[n] = rows[n]
       /\ link # None => link' = link]_ticketVars
=============================================================================
