-------------------------- MODULE IncidentResponse --------------------------
(***************************************************************************)
(* Incident response: apps/g11-incident-response (service.py, worker.py)   *)
(* over incident_response.* (sql/incident_response/001 and 002), for the    *)
(* deliveries of one application error, all of one deduplication bucket.    *)
(*                                                                         *)
(* Every SQL function is one READ COMMITTED transaction of its own.        *)
(* g11_complete_action is two steps, since what it decides about the event *)
(* it decides on what other transactions had committed.  What a policy     *)
(* asks for is any number of actions.  g11_record_action_attempt has no    *)
(* caller and is left out.                                                 *)
(***************************************************************************)
EXTENDS Naturals, Sequences, FiniteSetsExt, SequencesExt, Absent

CONSTANTS
    EventDeliveries,    \* calls of ingest_event: the event and its replays
    Workers,       \* replicas of the worker
    MaxActions,    \* actions one policy asks for
    Results,       \* what an adapter may answer
    MaxDeaths      \* bound on the deaths of processes

VARIABLES
    dedupe,        \* whether a dedupe_entry of the bucket is in force
    ingests,       \* what each delivery is at
    events,        \* application_error_event: delivery that stored it -> status
    requests,      \* action_request in the order of created_at
    workers,       \* what each worker is at
    deaths

responseVars == <<dedupe, ingests, events, requests, workers, deaths>>

SettledStatuses == {"linked", "failed", "skipped", "unknown"}

ASSUME ResponseConstants ==
    /\ MaxActions \in Nat \ {0}
    /\ None \notin Workers
    /\ Results \subseteq SettledStatuses
    /\ MaxDeaths \in Nat

Requests ==
    [event : EventDeliveries, status : {"pending", "dispatching"} \cup SettledStatuses,
     attempts : Nat, by : Workers \cup {None}]

\* left: the actions still to be enqueued
Ingests ==
    [phase : {"new", "claimed", "stored", "enqueuing", "accepted", "deduplicated", "dead"},
     left : 0 .. MaxActions]

\* read: the attempts of the candidate as it was read.  verdict and done: what the open
\* transaction of g11_complete_action sets the request to, and whether it ends the event.
WorkerStates ==
    [phase : {"idle", "candidate", "executing", "completing"}, request : Nat, read : Nat,
     verdict : {"pending", None} \cup SettledStatuses, done : BOOLEAN]

Idle == [phase |-> "idle", request |-> 0, read |-> 0, verdict |-> None, done |-> FALSE]

ResponseInit ==
    /\ dedupe = FALSE
    /\ ingests = [d \in EventDeliveries |-> [phase |-> "new", left |-> 0]]
    /\ events = [d \in EventDeliveries |-> None]
    /\ requests = <<>>
    /\ workers = [w \in Workers |-> Idle]
    /\ deaths = 0

-----------------------------------------------------------------------------
(* ingest_event *)

\* g11_claim_dedupe
ClaimDedupe(d) ==
    /\ ingests[d].phase = "new"
    /\ ingests' = [ingests EXCEPT ![d].phase = IF dedupe THEN "deduplicated" ELSE "claimed"]
    /\ dedupe' = TRUE
    /\ UNCHANGED <<deaths, events, requests, workers>>

\* The five minutes of the entry are over.
DedupeExpires ==
    /\ dedupe
    /\ dedupe' = FALSE
    /\ UNCHANGED <<deaths, ingests, events, requests, workers>>

\* g11_store_event
StoreEvent(d) ==
    /\ ingests[d].phase = "claimed"
    /\ events' = [events EXCEPT ![d] = "received"]
    /\ ingests' = [ingests EXCEPT ![d].phase = "stored"]
    /\ UNCHANGED <<deaths, dedupe, requests, workers>>

\* get_policy and evaluate_policy
EvaluatePolicy(d, n) ==
    /\ ingests[d].phase = "stored"
    /\ ingests' = [ingests EXCEPT ![d] =
           [phase |-> IF n = 0 THEN "accepted" ELSE "enqueuing", left |-> n]]
    /\ UNCHANGED <<deaths, dedupe, events, requests, workers>>

\* g11_enqueue_action
EnqueueAction(d) ==
    /\ ingests[d].phase = "enqueuing"
    /\ requests' = Append(requests,
           [event |-> d, status |-> "pending", attempts |-> 0, by |-> None])
    /\ ingests' = [ingests EXCEPT ![d] =
           [phase |-> IF ingests[d].left = 1 THEN "accepted" ELSE "enqueuing",
            left |-> ingests[d].left - 1]]
    /\ UNCHANGED <<deaths, dedupe, events, workers>>

IngestDies(d) ==
    /\ deaths < MaxDeaths
    /\ deaths' = deaths + 1
    /\ ingests[d].phase \in {"claimed", "stored", "enqueuing"}
    /\ ingests' = [ingests EXCEPT ![d] = [phase |-> "dead", left |-> 0]]
    /\ UNCHANGED <<dedupe, events, requests, workers>>

-----------------------------------------------------------------------------
(* IncidentResponseWorker.process_next *)

\* Mutant form: what was attempted once is not found again.
NeverAttempted == {r \in DOMAIN requests :
    requests[r].status = "pending" /\ requests[r].attempts = 0}

Pending == {r \in DOMAIN requests : requests[r].status = "pending"}

\* The row is being written by g11_complete_action.
Locked(r) == \E w \in Workers : workers[w].phase = "completing" /\ workers[w].request = r

\* g11_next_pending_action
TakeCandidate(w) ==
    /\ workers[w].phase = "idle"
    /\ \E r \in Pending :
          /\ \A other \in Pending : r <= other
          /\ workers' = [workers EXCEPT ![w] =
                 [Idle EXCEPT !.phase = "candidate", !.request = r, !.read = requests[r].attempts]]
    /\ UNCHANGED <<deaths, dedupe, ingests, events, requests>>

\* Mutant form: whatever is not settled may be claimed.
ClaimUnsettled(r) == requests[r].status \notin SettledStatuses

Claimable(r) == requests[r].status = "pending"

\* g11_claim_action; on a conflict the worker polls again
ClaimAction(w) ==
    LET r == workers[w].request IN
    /\ workers[w].phase = "candidate"
    /\ ~ Locked(r)
    /\ IF Claimable(r)
       THEN /\ requests' = [requests EXCEPT ![r] =
                   [requests[r] EXCEPT !.status = "dispatching", !.by = w,
                                       !.attempts = requests[r].attempts + 1]]
            /\ workers' = [workers EXCEPT ![w].phase = "executing"]
       ELSE /\ workers' = [workers EXCEPT ![w] = Idle]
            /\ UNCHANGED requests
    /\ UNCHANGED <<deaths, dedupe, ingests, events>>

\* What an exception of the adapter makes of the request
VerdictOfException(read) == IF read + 1 < 3 THEN "pending" ELSE "failed"

\* The subquery of g11_complete_action on the requests of the event, which sees the
\* transaction's own write and what others have committed
AllActionsDone(r, verdict) ==
    /\ verdict \in SettledStatuses
    /\ \A other \in DOMAIN requests \ {r} :
          requests[other].event = requests[r].event => requests[other].status \in SettledStatuses

\* g11_complete_action up to its commit
BeginCompletion(w, verdict) ==
    LET r == workers[w].request IN
    /\ workers[w].phase = "executing"
    /\ requests[r].by = w /\ requests[r].status = "dispatching"
    /\ workers' = [workers EXCEPT ![w] =
           [workers[w] EXCEPT !.phase = "completing", !.verdict = verdict,
                              !.done = AllActionsDone(r, verdict)]]
    /\ UNCHANGED <<deaths, dedupe, ingests, events, requests>>

\* create_ticket or send_notification answers, or there is no adapter for the action
AdapterAnswers(w) == \E verdict \in Results : BeginCompletion(w, verdict)

\* The adapter raises.
AdapterRaises(w) == BeginCompletion(w, VerdictOfException(workers[w].read))

CommitCompletion(w) ==
    LET r == workers[w].request IN
    /\ workers[w].phase = "completing"
    /\ requests' = [requests EXCEPT ![r].status = workers[w].verdict]
    /\ events' = IF workers[w].done THEN [events EXCEPT ![requests[r].event] = "processed"]
                                    ELSE events
    /\ workers' = [workers EXCEPT ![w] = Idle]
    /\ UNCHANGED <<deaths, dedupe, ingests>>

\* The worker dies, or the database refuses it and it goes on with its next poll.
WorkerDies(w) ==
    /\ deaths < MaxDeaths
    /\ deaths' = deaths + 1
    /\ workers[w].phase # "idle"
    /\ workers' = [workers EXCEPT ![w] = Idle]
    /\ UNCHANGED <<dedupe, ingests, events, requests>>

-----------------------------------------------------------------------------
IngestStep(d) ==
    \/ ClaimDedupe(d) \/ StoreEvent(d) \/ EnqueueAction(d)
    \/ \E n \in 0 .. MaxActions : EvaluatePolicy(d, n)

WorkerStep(w) ==
    \/ TakeCandidate(w) \/ ClaimAction(w)
    \/ AdapterAnswers(w) \/ AdapterRaises(w) \/ CommitCompletion(w)

ResponseNext ==
    \/ \E d \in EventDeliveries : IngestStep(d) \/ IngestDies(d)
    \/ DedupeExpires
    \/ \E w \in Workers : WorkerStep(w) \/ WorkerDies(w)

ResponseSpec == ResponseInit /\ [][ResponseNext]_responseVars

\* The loop of runtime_entry polls for ever and survives every exception; a worker that
\* died is started again.
ResponseFairness == \A w \in Workers : WF_responseVars(WorkerStep(w))
ResponseFairSpec == ResponseSpec /\ ResponseFairness

-----------------------------------------------------------------------------
(* Properties *)

At(w, r) == workers[w].phase \in {"executing", "completing"} /\ workers[w].request = r

\* However stale the candidates are that two workers hold, a request is executed by one
\* worker at a time, and its row says by which, so that the completion is never refused.
OneExecutor ==
    \A w \in Workers, r \in DOMAIN requests :
        At(w, r) => /\ requests[r].status = "dispatching" /\ requests[r].by = w
                    /\ \A other \in Workers \ {w} : ~ At(other, r)

\* The retries of a request end, though workers decide on the attempts they read before
\* others retried it: each worker may exceed the two retries once.
AttemptsAreBounded ==
    \A r \in DOMAIN requests : requests[r].attempts <= 2 + Cardinality(Workers)

\* The worker that claimed the request is not at it any more: claims are not taken over.
Orphaned(r) == requests[r].status = "dispatching" /\ ~ At(requests[r].by, r)

\* Every request comes to an outcome, whatever becomes of the adapter and of the other
\* workers, unless its own worker dies on the way.
RequestsSettle ==
    \A r \in 1 .. MaxActions * Cardinality(EventDeliveries) :
        r \in DOMAIN requests ~>
            r \in DOMAIN requests /\ (requests[r].status \in SettledStatuses \/ Orphaned(r))

(* What the sources say of the queue and the code does not do *)

RequestsOf(d) == {r \in DOMAIN requests : requests[r].event = d}

\* sql/incident_response/001_incident_response.sql:323, "update parent event status if all
\* actions done": once the last action is done, the event is processed.
DoneMeansProcessed ==
    \A d \in EventDeliveries :
        /\ RequestsOf(d) # {}
        /\ \A r \in RequestsOf(d) : requests[r].status \in SettledStatuses
        => events[d] = "processed"
=============================================================================
