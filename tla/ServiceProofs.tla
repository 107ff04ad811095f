--------------------------- MODULE ServiceProofs ----------------------------
(***************************************************************************)
(* Proofs about the ticket synchronisation and about the incident          *)
(* response, for any workers, any retry budget, any actions and any number *)
(* of deaths.                                                              *)
(*                                                                         *)
(* The properties the runs check of the tickets are inductive once the     *)
(* workers are part of them: an answer "linked" that a worker carries      *)
(* names the one ticket there is (AnswersAreTickets). A request of the     *)
(* incident response has one executor as the row names whoever claimed it  *)
(* (ExecutorIsNamed).                                                      *)
(***************************************************************************)
EXTENDS TicketSync, IncidentResponse, SequenceTheorems, TLAPS

-----------------------------------------------------------------------------
(* The synchronisation of tickets *)

\* The ticket of the first identity is the only one, and answers and link name it.
AnswersAreTickets ==
    /\ tickets \subseteq {1}
    /\ link # None => link = 1 /\ 1 \in tickets
    /\ \A w \in SyncWorkers :
          syncers[w].phase = "answered" /\ syncers[w].outcome = "linked" =>
              syncers[w].ticket = 1 /\ 1 \in tickets

IInv == TicketTypeOK /\ OneOpenSync /\ LinkedRowHasLink /\ AnswersAreTickets

-----------------------------------------------------------------------------
\* The first attempt and the first ticket.
LEMMA FirstAttempt == 1 \in Attempts /\ 1 # None
  BY TicketSyncConstants DEF Attempts

\* The incident starts with one pending attempt.
LEMMA InitIInv == TicketInit => IInv
<1> SUFFICES ASSUME TicketInit PROVE IInv
  OBVIOUS
<1>1. PendingRow \in Rows /\ NoRow \in Rows
  BY DEF PendingRow, NoRow, Rows, OpenStates
<1>2. IdleSyncer \in Syncers
  BY DEF IdleSyncer, Syncers
<1>3. rows \in [Attempts -> Rows] /\ syncers \in [SyncWorkers -> Syncers]
  BY <1>1, <1>2 DEF TicketInit
<1>4. TicketTypeOK
  <2>1. \A n \in Attempts : rows[n].executor # None <=> rows[n].state = "dispatching"
    BY DEF TicketInit, PendingRow, NoRow
  <2>2. \A w \in SyncWorkers : syncers[w].phase = "idle"
    BY DEF TicketInit, IdleSyncer
  <2>3. link \in Attempts \cup {None} /\ tickets \subseteq Attempts /\ syncerDeaths \in 0 .. MaxSyncerDeaths
    BY TicketSyncConstants DEF TicketInit
  <2> QED  BY <1>3, <2>1, <2>2, <2>3 DEF TicketTypeOK
<1>5. OneOpenSync /\ LinkedRowHasLink
  BY <1>3 DEF TicketInit, OneOpenSync, LinkedRowHasLink, PendingRow, NoRow, Attempts
<1>6. AnswersAreTickets
  BY DEF TicketInit, AnswersAreTickets, IdleSyncer
<1> QED  BY <1>4, <1>5, <1>6 DEF IInv

-----------------------------------------------------------------------------
(* What the steps do to the rows: each changes one, in one of three ways *)

\* Row n takes a state that is not "linked" and was open before.
Reopened(n, s) ==
    /\ rows[n].state \in OpenStates
    /\ s \in OpenStates \cup {"failed", "unknown"}
    /\ rows'[n].state = s
    /\ \A m \in Attempts \ {n} : rows'[m] = rows[m]
    /\ link' = link

\* A step that moves an open row to another state without linking keeps the order.
LEMMA ReopenedKeeps ==
    ASSUME IInv, NEW n \in Attempts, NEW s, Reopened(n, s)
    PROVE  OneOpenSync' /\ LinkedRowHasLink'
<1> USE DEF IInv, TicketTypeOK
<1>1. ~ \E m \in Attempts : n < m /\ rows[m].state # "none"
  BY DEF OneOpenSync, Reopened, OpenStates
<1>2. \A m \in Attempts : rows[m].state # "none" <=> rows'[m].state # "none"
  BY DEF Reopened, OpenStates
<1>3. \A m \in Attempts : rows[m].state = "linked" <=> rows'[m].state = "linked"
  BY DEF Reopened, OpenStates
<1>4. OneOpenSync'
  <2> SUFFICES ASSUME NEW k \in Attempts, NEW m \in Attempts,
                      k < m, rows'[m].state # "none"
               PROVE  rows'[k].state \in {"failed", "unknown"}
    BY DEF OneOpenSync
  <2>1. rows[m].state # "none"
    BY <1>2
  <2>2. k # n
    BY <1>1, <2>1
  <2> QED  BY <2>1, <2>2 DEF OneOpenSync, Reopened
<1>5. LinkedRowHasLink'
  BY <1>3 DEF LinkedRowHasLink, Reopened
<1> QED  BY <1>4, <1>5

\* What a worker may become in a step that neither answers nor touches tickets.
WorksOn(r) ==
    /\ r \in Syncers
    /\ r.phase # "answered"
    /\ r.phase # "idle" => r.row \in Attempts

SyncersOK ==
    /\ syncers \in [SyncWorkers -> Syncers]
    /\ \A w \in SyncWorkers :
          /\ syncers[w].phase # "idle" => syncers[w].row \in Attempts
          /\ syncers[w].phase = "answered" => syncers[w].outcome \in Outcomes

\* A worker that becomes idle, or takes a row without an answer, answers nothing.
LEMMA SyncerKeeps ==
    ASSUME IInv, NEW w \in SyncWorkers, NEW r, WorksOn(r),
           syncers' = [syncers EXCEPT ![w] = r], tickets' = tickets, link' = link
    PROVE  AnswersAreTickets' /\ SyncersOK'
<1>1. syncers \in [SyncWorkers -> Syncers] /\ r \in Syncers
  BY DEF IInv, TicketTypeOK, WorksOn
<1>2. syncers'[w] = r /\ \A v \in SyncWorkers \ {w} : syncers'[v] = syncers[v]
  BY <1>1
<1>3. AnswersAreTickets'
  BY <1>2 DEF IInv, AnswersAreTickets, WorksOn
<1>4. SyncersOK'
  BY <1>1, <1>2 DEF IInv, TicketTypeOK, SyncersOK, WorksOn
<1> QED  BY <1>3, <1>4

-----------------------------------------------------------------------------
\* Taking a candidate touches nothing but the worker.
LEMMA TakeSyncKeeps ==
    ASSUME IInv, NEW w \in SyncWorkers, NEW n \in Attempts, TakeSync(w, n)
    PROVE  IInv'
<1> DEFINE r == [phase |-> "candidate", row |-> n, outcome |-> None, ticket |-> None]
<1>1. WorksOn(r)
  BY DEF Syncers, WorksOn
<1>2. syncers' = [syncers EXCEPT ![w] = r] /\ UNCHANGED <<rows, link, tickets, syncerDeaths>>
  BY DEF TakeSync
<1> HIDE DEF r
<1>3. AnswersAreTickets' /\ SyncersOK'
  BY <1>1, <1>2, SyncerKeeps
<1> QED
  BY <1>2, <1>3 DEF IInv, TicketTypeOK, SyncersOK, OneOpenSync, LinkedRowHasLink

\* A step that changes one open row and its worker keeps the invariant.
LEMMA RowStepKeeps ==
    ASSUME IInv, NEW w \in SyncWorkers, NEW r, WorksOn(r),
           NEW n \in Attempts, NEW q \in Rows, Reopened(n, q.state),
           q.executor # None <=> q.state = "dispatching",
           rows' = [rows EXCEPT ![n] = q], syncers' = [syncers EXCEPT ![w] = r],
           UNCHANGED <<link, tickets, syncerDeaths>>
    PROVE  IInv'
<1>1. OneOpenSync' /\ LinkedRowHasLink'
  BY ReopenedKeeps
<1>2. AnswersAreTickets' /\ SyncersOK'
  BY SyncerKeeps
<1>3. rows' \in [Attempts -> Rows]
  BY DEF IInv, TicketTypeOK
<1>4. \A m \in Attempts : rows'[m].executor # None <=> rows'[m].state = "dispatching"
  BY DEF IInv, TicketTypeOK
<1> QED  BY <1>1, <1>2, <1>3, <1>4 DEF IInv, TicketTypeOK, SyncersOK

\* A worker whose call is over is idle.
LEMMA IdleWorks == WorksOn(IdleSyncer)
  BY DEF IdleSyncer, Syncers, WorksOn

-----------------------------------------------------------------------------
(* The steps of a worker *)

\* The discovery of an expired claim.
LEMMA ClaimExpiredKeeps ==
    ASSUME IInv, NEW w \in SyncWorkers, ClaimExpired(w)
    PROVE  IInv'
<1> DEFINE n == syncers[w].row
           q == ToReconcile(n)
<1>1. n \in Attempts
  BY DEF ClaimExpired, IInv, TicketTypeOK
<1>2. q \in Rows /\ q.state = "reconciliation_required" /\ q.executor = None
  BY DEF ToReconcile, Rows, OpenStates
<1>3. /\ rows' = [rows EXCEPT ![n] = q] /\ rows[n].state = "dispatching"
      /\ syncers' = [syncers EXCEPT ![w] = IdleSyncer]
      /\ UNCHANGED <<link, tickets, syncerDeaths>>
  BY DEF ClaimExpired, ExpiredClaim
<1> HIDE DEF n, q
<1>4. Reopened(n, q.state)
  BY <1>1, <1>2, <1>3 DEF Reopened, OpenStates, IInv, TicketTypeOK
<1> QED  BY <1>1, <1>2, <1>3, <1>4, IdleWorks, RowStepKeeps

\* A claim.
LEMMA ClaimPendingKeeps ==
    ASSUME IInv, NEW w \in SyncWorkers, ClaimPending(w)
    PROVE  IInv'
<1> DEFINE n == syncers[w].row
           q == [state |-> "dispatching", executor |-> w, expired |-> FALSE]
           r == [phase |-> "calling", row |-> n, outcome |-> None, ticket |-> None]
<1>1. n \in Attempts
  BY DEF ClaimPending, IInv, TicketTypeOK
<1>2. q \in Rows /\ q.state = "dispatching" /\ q.executor # None
  BY TicketSyncConstants DEF Rows, OpenStates
<1>3. WorksOn(r)
  BY <1>1 DEF Syncers, WorksOn
<1>4. /\ rows' = [rows EXCEPT ![n] = q] /\ rows[n].state = "pending"
      /\ syncers' = [syncers EXCEPT ![w] = r]
      /\ UNCHANGED <<link, tickets, syncerDeaths>>
  BY DEF ClaimPending
<1> HIDE DEF n, q, r
<1>5. Reopened(n, q.state)
  BY <1>1, <1>2, <1>4 DEF Reopened, OpenStates, IInv, TicketTypeOK
<1> QED  BY <1>1, <1>2, <1>3, <1>4, <1>5, RowStepKeeps

\* A step of a worker alone: no row, link or ticket changes and it answers nothing.
LEMMA WorkerOnlyKeeps ==
    ASSUME IInv, NEW w \in SyncWorkers, NEW r, WorksOn(r),
           syncers' = [syncers EXCEPT ![w] = r], UNCHANGED <<rows, link, tickets>>,
           syncerDeaths' \in 0 .. MaxSyncerDeaths
    PROVE  IInv'
<1>1. AnswersAreTickets' /\ SyncersOK'
  BY SyncerKeeps
<1> QED
  BY <1>1 DEF IInv, TicketTypeOK, SyncersOK, OneOpenSync, LinkedRowHasLink

\* The answer of the adapter: a ticket of the one identity, or none.
LEMMA AnswerKeeps ==
    ASSUME IInv, NEW w \in SyncWorkers, NEW n \in Attempts, NEW outcome \in Outcomes,
           NEW t \in Attempts \cup {None}, outcome = "linked" => t = 1 /\ 1 \in tickets',
           tickets' \in {tickets, tickets \cup {1}},
           syncers' = [syncers EXCEPT ![w] =
               [phase |-> "answered", row |-> n, outcome |-> outcome, ticket |-> t]],
           UNCHANGED <<rows, link, syncerDeaths>>
    PROVE  IInv'
<1> DEFINE r == [phase |-> "answered", row |-> n, outcome |-> outcome, ticket |-> t]
<1>1. r \in Syncers
  BY DEF Syncers
<1>2. /\ r.phase = "answered" /\ r.row \in Attempts /\ r.outcome \in Outcomes
      /\ r.outcome = "linked" => r.ticket = 1 /\ 1 \in tickets'
  OBVIOUS
<1>3. syncers' = [syncers EXCEPT ![w] = r]
  OBVIOUS
<1> HIDE DEF r
<1>4. syncers'[w] = r /\ \A v \in SyncWorkers \ {w} : syncers'[v] = syncers[v]
  BY <1>3 DEF IInv, TicketTypeOK
<1>5. AnswersAreTickets'
  BY <1>2, <1>4 DEF IInv, AnswersAreTickets
<1>6. SyncersOK'
  BY <1>1, <1>2, <1>3, <1>4 DEF IInv, TicketTypeOK, SyncersOK
<1>7. tickets' \subseteq Attempts
  BY FirstAttempt DEF IInv, TicketTypeOK
<1> QED
  BY <1>5, <1>6, <1>7 DEF IInv, TicketTypeOK, SyncersOK, OneOpenSync, LinkedRowHasLink

\* A completion: the row comes to its outcome and a link is the ticket of the answer.
LEMMA CompleteKeeps ==
    ASSUME IInv, NEW w \in SyncWorkers, CompleteSync(w)
    PROVE  IInv'
<1> DEFINE n == syncers[w].row
           o == syncers[w].outcome
           q == [state |-> o, executor |-> None, expired |-> FALSE]
<1>1. n \in Attempts /\ o \in Outcomes
  BY DEF CompleteSync, IInv, TicketTypeOK
<1>2. q \in Rows /\ q.state = o /\ q.executor = None
  BY <1>1 DEF Rows
<1>3. /\ rows' = [rows EXCEPT ![n] = q] /\ rows[n].state = "dispatching"
      /\ syncers' = [syncers EXCEPT ![w] = IdleSyncer]
      /\ UNCHANGED <<tickets, syncerDeaths>>
  BY DEF CompleteSync, HoldsClaim
<1>4. /\ o = "linked" => link' = 1 /\ 1 \in tickets
      /\ o # "linked" => link' = link
  BY DEF CompleteSync, LinkAfter, IInv, AnswersAreTickets
<1> HIDE DEF n, o, q
<1>5. CASE o # "linked"
  <2>1. Reopened(n, q.state)
    BY <1>1, <1>2, <1>3, <1>4, <1>5 DEF Reopened, OpenStates, Outcomes, IInv, TicketTypeOK
  <2>2. link' = link /\ o # "dispatching"
    BY <1>1, <1>4, <1>5 DEF Outcomes
  <2> QED  BY <1>1, <1>2, <1>3, <2>1, <2>2, IdleWorks, RowStepKeeps
<1>6. CASE o = "linked"
  <2>1. rows'[n] = q /\ \A m \in Attempts \ {n} : rows'[m] = rows[m]
    BY <1>1, <1>3 DEF IInv, TicketTypeOK
  <2>2. OneOpenSync'
    <3>1. ~ \E m \in Attempts : n < m /\ rows[m].state # "none"
      BY <1>1, <1>3 DEF IInv, OneOpenSync
    <3> SUFFICES ASSUME NEW k \in Attempts, NEW m \in Attempts,
                        k < m, rows'[m].state # "none"
                 PROVE  rows'[k].state \in {"failed", "unknown"}
      BY DEF OneOpenSync
    <3>2. rows[m].state # "none"
      BY <1>3, <2>1
    <3>3. k # n
      BY <3>1, <3>2
    <3> QED  BY <2>1, <3>2, <3>3 DEF IInv, OneOpenSync
  <2>3. LinkedRowHasLink'
    BY <1>1, <1>2, <1>4, <1>6, <2>1, FirstAttempt DEF LinkedRowHasLink
  <2>4. SyncersOK' /\ AnswersAreTickets'
    <3>1. syncers' \in [SyncWorkers -> Syncers] /\ syncers'[w] = IdleSyncer
          /\ \A v \in SyncWorkers \ {w} : syncers'[v] = syncers[v]
      BY <1>3, IdleWorks DEF WorksOn, IInv, TicketTypeOK
    <3>2. IdleSyncer.phase = "idle"
      BY DEF IdleSyncer
    <3> QED
      BY <1>3, <1>4, <1>6, <3>1, <3>2 DEF SyncersOK, AnswersAreTickets, IInv, TicketTypeOK
  <2>5. rows' \in [Attempts -> Rows]
    BY <1>1, <1>2, <1>3 DEF IInv, TicketTypeOK
  <2>6. \A m \in Attempts : rows'[m].executor # None <=> rows'[m].state = "dispatching"
    BY <1>2, <1>6, <2>1 DEF IInv, TicketTypeOK
  <2>7. TicketTypeOK'
    BY <1>3, <1>4, <1>6, <2>4, <2>5, <2>6, FirstAttempt DEF TicketTypeOK, SyncersOK, IInv
  <2> QED  BY <2>2, <2>3, <2>4, <2>7 DEF IInv
<1> QED  BY <1>5, <1>6

-----------------------------------------------------------------------------
(* Time and maintenance *)

\* A step that changes one open row alone.
LEMMA RowOnlyKeeps ==
    ASSUME IInv, NEW n \in Attempts, NEW q \in Rows, Reopened(n, q.state),
           q.executor # None <=> q.state = "dispatching",
           rows' = [rows EXCEPT ![n] = q], UNCHANGED <<link, tickets, syncers, syncerDeaths>>
    PROVE  IInv'
<1>1. OneOpenSync' /\ LinkedRowHasLink'
  BY ReopenedKeeps
<1>2. rows' \in [Attempts -> Rows]
  BY DEF IInv, TicketTypeOK
<1>3. \A m \in Attempts : rows'[m].executor # None <=> rows'[m].state = "dispatching"
  BY DEF IInv, TicketTypeOK
<1> QED  BY <1>1, <1>2, <1>3 DEF IInv, TicketTypeOK, AnswersAreTickets

\* A claim that lapses stays a claim.
LEMMA ExpiryKeeps ==
    ASSUME IInv, NEW n \in Attempts, ClaimExpires(n)
    PROVE  IInv'
<1> DEFINE q == [state |-> "dispatching", executor |-> rows[n].executor, expired |-> TRUE]
<1>1. rows[n].executor \in SyncWorkers /\ rows[n].executor # None
  BY DEF ClaimExpires, IInv, TicketTypeOK, Rows
<1>2. q \in Rows /\ q.state = "dispatching" /\ q.executor # None
  BY <1>1 DEF Rows, OpenStates
<1>3. /\ rows' = [rows EXCEPT ![n] = q] /\ rows[n].state = "dispatching"
      /\ UNCHANGED <<link, tickets, syncers, syncerDeaths>>
  BY DEF ClaimExpires
<1> HIDE DEF q
<1>4. Reopened(n, q.state)
  BY <1>2, <1>3 DEF Reopened, OpenStates, IInv, TicketTypeOK
<1> QED  BY <1>2, <1>3, <1>4, RowOnlyKeeps

\* A reconciliation.
LEMMA ReconcileKeeps ==
    ASSUME IInv, NEW n \in Attempts, ReconcileSync(n)
    PROVE  IInv'
<1> DEFINE q == [state |-> "unknown", executor |-> None, expired |-> FALSE]
<1>1. q \in Rows /\ q.state = "unknown" /\ q.executor = None
  BY DEF Rows, Outcomes
<1>2. /\ rows' = [rows EXCEPT ![n] = q] /\ rows[n].state = "reconciliation_required"
      /\ UNCHANGED <<link, tickets, syncers, syncerDeaths>>
  BY DEF ReconcileSync
<1> HIDE DEF q
<1>3. Reopened(n, q.state)
  BY <1>1, <1>2 DEF Reopened, OpenStates, IInv, TicketTypeOK
<1> QED  BY <1>1, <1>2, <1>3, RowOnlyKeeps

\* A retry: the next row, after rows that all came to an outcome to retry.
LEMMA RetryKeeps ==
    ASSUME IInv, NEW n \in Attempts, ScheduleSyncRetry(n)
    PROVE  IInv'
<1>1. n + 1 \in Attempts
  BY TicketSyncConstants DEF ScheduleSyncRetry, Attempts
<1>2. PendingRow \in Rows /\ PendingRow.state = "pending" /\ PendingRow.executor = None
  BY DEF PendingRow, Rows, OpenStates
<1>3. /\ rows' = [rows EXCEPT ![n + 1] = PendingRow]
      /\ rows[n].state \in {"failed", "unknown"} /\ link = None
      /\ \A m \in Attempts : m > n => rows[m].state = "none"
      /\ UNCHANGED <<link, tickets, syncers, syncerDeaths>>
  BY DEF ScheduleSyncRetry, RetryDue, IsLatest
<1>4. rows'[n + 1] = PendingRow /\ \A m \in Attempts \ {n + 1} : rows'[m] = rows[m]
  BY <1>1, <1>3 DEF IInv, TicketTypeOK
<1>5. TicketTypeOK'
  <2>1. rows' \in [Attempts -> Rows]
    BY <1>1, <1>2, <1>3 DEF IInv, TicketTypeOK
  <2>2. \A m \in Attempts : rows'[m].executor # None <=> rows'[m].state = "dispatching"
    BY <1>2, <1>4 DEF IInv, TicketTypeOK
  <2> QED  BY <1>3, <2>1, <2>2 DEF IInv, TicketTypeOK
<1>6. OneOpenSync'
  <2> SUFFICES ASSUME NEW k \in Attempts, NEW m \in Attempts,
                      k < m, rows'[m].state # "none"
               PROVE  rows'[k].state \in {"failed", "unknown"}
    BY DEF OneOpenSync
  <2>0. k \in Nat /\ m \in Nat /\ n \in Nat
    BY DEF Attempts
  <2>1. m <= n + 1
    BY <1>3, <1>4, <2>0
  <2>2. k # n + 1 /\ k <= n
    BY <2>0, <2>1
  <2>3. CASE k = n
    BY <1>3, <1>4, <2>2, <2>3
  <2>4. CASE k < n
    <3>1. rows[n].state # "none"
      BY <1>3
    <3> QED  BY <1>4, <2>2, <2>4, <3>1 DEF IInv, OneOpenSync
  <2> QED  BY <2>0, <2>2, <2>3, <2>4
<1>7. LinkedRowHasLink'
  BY <1>2, <1>3, <1>4 DEF IInv, LinkedRowHasLink
<1> QED  BY <1>3, <1>5, <1>6, <1>7 DEF IInv, AnswersAreTickets

-----------------------------------------------------------------------------
\* Every step of a worker keeps the invariant.
LEMMA SyncerStepKeeps ==
    ASSUME IInv, NEW w \in SyncWorkers, SyncerStep(w)
    PROVE  IInv'
<1>1. ASSUME NEW n \in Attempts, TakeSync(w, n) PROVE IInv'
  BY <1>1, TakeSyncKeeps
<1>2. CASE ClaimExpired(w)
  BY <1>2, ClaimExpiredKeeps
<1>3. CASE ClaimPending(w)
  BY <1>3, ClaimPendingKeeps
<1>4. CASE ClaimDuplicate(w)
  <2> DEFINE n == syncers[w].row
             r == [phase |-> "calling", row |-> n, outcome |-> None, ticket |-> None]
  <2>1. n \in Attempts
    BY <1>4 DEF ClaimDuplicate, IInv, TicketTypeOK
  <2>2. WorksOn(r) /\ WorksOn(IdleSyncer)
    BY <2>1, IdleWorks DEF Syncers, WorksOn
  <2>3. /\ \/ syncers' = [syncers EXCEPT ![w] = r]
           \/ syncers' = [syncers EXCEPT ![w] = IdleSyncer]
        /\ UNCHANGED <<rows, link, tickets, syncerDeaths>>
    BY <1>4 DEF ClaimDuplicate
  <2>4. syncerDeaths' \in 0 .. MaxSyncerDeaths
    BY <2>3 DEF IInv, TicketTypeOK
  <2> HIDE DEF r
  <2> QED  BY <2>2, <2>3, <2>4, WorkerOnlyKeeps
<1>5. CASE AdapterLinks(w)
  <2>1. syncers[w].row \in Attempts
    BY <1>5 DEF AdapterLinks, IInv, TicketTypeOK
  <2>2. "linked" \in Outcomes
    BY DEF Outcomes
  <2>3. /\ tickets' = tickets \cup {1} /\ UNCHANGED <<rows, link, syncerDeaths>>
        /\ syncers' = [syncers EXCEPT ![w] =
               [phase |-> "answered", row |-> syncers[w].row, outcome |-> "linked",
                ticket |-> 1]]
    BY <1>5 DEF AdapterLinks, SyncIdentity
  <2> QED  BY <2>1, <2>2, <2>3, FirstAttempt, AnswerKeeps
<1>6. ASSUME NEW o \in {"failed", "unknown"}, NEW c \in BOOLEAN, AdapterFails(w, o, c)
      PROVE  IInv'
  <2>1. syncers[w].row \in Attempts
    BY <1>6 DEF AdapterFails, IInv, TicketTypeOK
  <2>2. o \in Outcomes /\ o # "linked"
    BY <1>6 DEF Outcomes
  <2>3. /\ tickets' \in {tickets, tickets \cup {1}} /\ UNCHANGED <<rows, link, syncerDeaths>>
        /\ syncers' = [syncers EXCEPT ![w] =
               [phase |-> "answered", row |-> syncers[w].row, outcome |-> o, ticket |-> None]]
    BY <1>6 DEF AdapterFails, SyncIdentity
  <2> QED  BY <2>1, <2>2, <2>3, AnswerKeeps
<1>7. CASE CompleteSync(w)
  BY <1>7, CompleteKeeps
<1>8. CASE CompleteRefused(w)
  <2>1. syncers' = [syncers EXCEPT ![w] = IdleSyncer] /\ UNCHANGED <<rows, link, tickets, syncerDeaths>>
    BY <1>8 DEF CompleteRefused
  <2>2. syncerDeaths' \in 0 .. MaxSyncerDeaths
    BY <2>1 DEF IInv, TicketTypeOK
  <2> QED  BY <2>1, <2>2, IdleWorks, WorkerOnlyKeeps
<1> QED  BY <1>1, <1>2, <1>3, <1>4, <1>5, <1>6, <1>7, <1>8 DEF SyncerStep

\* Every step keeps the invariant.
LEMMA NextIInv == IInv /\ [TicketNext]_ticketVars => IInv'
<1> SUFFICES ASSUME IInv, [TicketNext]_ticketVars PROVE IInv'
  OBVIOUS
<1>1. ASSUME NEW w \in SyncWorkers, SyncerStep(w) PROVE IInv'
  BY <1>1, SyncerStepKeeps
<1>2. ASSUME NEW w \in SyncWorkers, SyncerDies(w) PROVE IInv'
  <2>1. /\ syncers' = [syncers EXCEPT ![w] = IdleSyncer]
        /\ UNCHANGED <<rows, link, tickets>>
    BY <1>2 DEF SyncerDies
  <2>2. syncerDeaths' \in 0 .. MaxSyncerDeaths
    BY <1>2, TicketSyncConstants DEF SyncerDies, IInv, TicketTypeOK
  <2> QED  BY <2>1, <2>2, IdleWorks, WorkerOnlyKeeps
<1>3. ASSUME NEW n \in Attempts, ClaimExpires(n) \/ ReconcileSync(n) \/ ScheduleSyncRetry(n)
      PROVE  IInv'
  BY <1>3, ExpiryKeeps, ReconcileKeeps, RetryKeeps
<1>4. CASE UNCHANGED ticketVars
  BY <1>4 DEF ticketVars, IInv, TicketTypeOK, OneOpenSync, LinkedRowHasLink, AnswersAreTickets
<1> QED  BY <1>1, <1>2, <1>3, <1>4 DEF TicketNext

\* The properties of the run follow from the invariant.
LEMMA IInvImplies == IInv => OneTicketPerIncident
  BY DEF IInv, AnswersAreTickets, OneTicketPerIncident

-----------------------------------------------------------------------------
\* The synchronisation keeps its types for any workers and retry budget: the CHECK that
\* ties the executor of a row to its state never fails.
THEOREM TicketTypeCorrect == TicketSpec => []TicketTypeOK
<1>1. TicketInit => IInv
  BY InitIInv
<1>2. IInv /\ [TicketNext]_ticketVars => IInv'
  BY NextIInv
<1>3. IInv => TicketTypeOK
  BY DEF IInv
<1> QED  BY <1>1, <1>2, <1>3, PTL DEF TicketSpec

\* At most one attempt at a time, however claims expire, workers die and answers are late.
THEOREM OneOpenSyncHolds == TicketSpec => []OneOpenSync
<1>1. TicketInit => IInv
  BY InitIInv
<1>2. IInv /\ [TicketNext]_ticketVars => IInv'
  BY NextIInv
<1>3. IInv => OneOpenSync
  BY DEF IInv
<1> QED  BY <1>1, <1>2, <1>3, PTL DEF TicketSpec

\* The incident is linked exactly when one of its attempts says so.
THEOREM LinkedRowHasLinkHolds == TicketSpec => []LinkedRowHasLink
<1>1. TicketInit => IInv
  BY InitIInv
<1>2. IInv /\ [TicketNext]_ticketVars => IInv'
  BY NextIInv
<1>3. IInv => LinkedRowHasLink
  BY DEF IInv
<1> QED  BY <1>1, <1>2, <1>3, PTL DEF TicketSpec

\* Retries, duplicates and expired claims come to one external ticket.
THEOREM OneTicketHolds == TicketSpec => []OneTicketPerIncident
<1>1. TicketInit => IInv
  BY InitIInv
<1>2. IInv /\ [TicketNext]_ticketVars => IInv'
  BY NextIInv
<1> QED  BY <1>1, <1>2, IInvImplies, PTL DEF TicketSpec

\* The part of SyncOutcomeIsFinal that a step must satisfy.
OutcomesStay ==
    /\ \A n \in Attempts : rows[n].state \in Outcomes => rows'[n] = rows[n]
    /\ link # None => link' = link

\* No step overwrites an outcome or the link.
LEMMA StepKeepsOutcomes == IInv /\ [TicketNext]_ticketVars => [OutcomesStay]_ticketVars
<1> SUFFICES ASSUME IInv, TicketNext PROVE OutcomesStay
  BY DEF OutcomesStay
<1>1. rows \in [Attempts -> Rows]
  BY DEF IInv, TicketTypeOK
<1>2. ASSUME NEW w \in SyncWorkers, SyncerStep(w) \/ SyncerDies(w) PROVE OutcomesStay
  <2>1. CASE ClaimExpired(w)
    BY <1>1, <2>1 DEF ClaimExpired, ExpiredClaim, OutcomesStay, Outcomes
  <2>2. CASE ClaimPending(w)
    BY <1>1, <2>2 DEF ClaimPending, OutcomesStay, Outcomes
  <2>3. CASE CompleteSync(w)
    <3>1. \A n \in Attempts : rows[n].state \in Outcomes => rows'[n] = rows[n]
      BY <1>1, <2>3 DEF CompleteSync, HoldsClaim, Outcomes
    <3>2. link # None => link' = link
      BY <2>3 DEF CompleteSync, LinkAccepts, LinkAfter
    <3> QED  BY <3>1, <3>2 DEF OutcomesStay
  <2>4. CASE UNCHANGED <<rows, link>>
    BY <2>4 DEF OutcomesStay
  <2> QED
    BY <1>2, <2>1, <2>2, <2>3, <2>4
       DEF SyncerStep, SyncerDies, TakeSync, ClaimDuplicate, AdapterLinks, AdapterFails,
           CompleteRefused
<1>3. ASSUME NEW n \in Attempts, ClaimExpires(n) \/ ReconcileSync(n) \/ ScheduleSyncRetry(n)
      PROVE  OutcomesStay
  <2>1. CASE ClaimExpires(n)
    BY <1>1, <2>1 DEF ClaimExpires, OutcomesStay, Outcomes
  <2>2. CASE ReconcileSync(n)
    BY <1>1, <2>2 DEF ReconcileSync, OutcomesStay, Outcomes
  <2>3. CASE ScheduleSyncRetry(n)
    <3>1. n + 1 \in Attempts => rows[n + 1].state = "none"
      BY <2>3 DEF ScheduleSyncRetry, IsLatest, Attempts
    <3>2. rows' = [rows EXCEPT ![n + 1] = PendingRow] /\ link' = link
      BY <2>3 DEF ScheduleSyncRetry
    <3> QED  BY <1>1, <3>1, <3>2 DEF OutcomesStay, Outcomes
  <2> QED  BY <1>3, <2>1, <2>2, <2>3
<1> QED  BY <1>2, <1>3 DEF TicketNext

\* Late answers, duplicates and reconciliation never change an outcome or the link.
THEOREM SyncOutcomeFinal == TicketSpec => SyncOutcomeIsFinal
<1>1. TicketInit => IInv
  BY InitIInv
<1>2. IInv /\ [TicketNext]_ticketVars => IInv'
  BY NextIInv
<1>3. IInv /\ [TicketNext]_ticketVars => [OutcomesStay]_ticketVars
  BY StepKeepsOutcomes
<1>4. TicketSpec => [][OutcomesStay]_ticketVars
  BY <1>1, <1>2, <1>3, PTL DEF TicketSpec
<1> QED  BY <1>4 DEF SyncOutcomeIsFinal, OutcomesStay

-----------------------------------------------------------------------------
(* The response to an application error *)

ResponseTyped ==
    /\ requests \in Seq(Requests)
    /\ workers \in [Workers -> WorkerStates]

\* A worker that is at a request is at one there is, and a completion that is open sets it to
\* something a request can be.
WorkersAtRequests ==
    \A w \in Workers :
        /\ workers[w].phase # "idle" => workers[w].request \in DOMAIN requests
        /\ workers[w].phase = "completing" =>
              workers[w].verdict \in {"pending"} \cup SettledStatuses

\* Who is at a request is named by its row; that nobody else is follows.
ExecutorIsNamed ==
    \A w \in Workers :
        workers[w].phase \in {"executing", "completing"} =>
            /\ requests[workers[w].request].status = "dispatching"
            /\ requests[workers[w].request].by = w

ResponseInvariant == ResponseTyped /\ WorkersAtRequests /\ ExecutorIsNamed

\* At first nothing was asked for.
LEMMA ResponseInitially == ResponseInit => ResponseInvariant
<1> SUFFICES ASSUME ResponseInit PROVE ResponseInvariant
  OBVIOUS
<1>1. Idle \in WorkerStates /\ Idle.phase = "idle"
  BY DEF Idle, WorkerStates
<1> QED
  BY <1>1, EmptySeq
  DEF ResponseInit, ResponseInvariant, ResponseTyped, WorkersAtRequests, ExecutorIsNamed

\* The row of a request.
LEMMA RowsAreRequests ==
    ASSUME requests \in Seq(Requests), NEW r \in DOMAIN requests
    PROVE  requests[r] \in Requests /\ DOMAIN requests = 1 .. Len(requests) /\ Len(requests) \in Nat
<1>1. DOMAIN requests = 1 .. Len(requests) /\ Len(requests) \in Nat
  BY LenProperties
<1> QED  BY <1>1, ElementOfSeq

\* A row that is written keeps the sequence.
LEMMA WritingKeepsTypes ==
    ASSUME requests \in Seq(Requests), NEW r \in DOMAIN requests, NEW row \in Requests,
           requests' = [requests EXCEPT ![r] = row]
    PROVE  /\ requests' \in Seq(Requests) /\ DOMAIN requests' = DOMAIN requests
           /\ requests'[r] = row
           /\ \A other \in DOMAIN requests : other # r => requests'[other] = requests[other]
<1>1. DOMAIN requests = 1 .. Len(requests)
  BY RowsAreRequests
<1>2. requests' \in Seq(Requests)
  BY <1>1, ExceptSeq
<1> QED  BY <1>2

\* An action is enqueued behind the others.
LEMMA EnqueueKeeps ==
    ASSUME ResponseInvariant, NEW d \in EventDeliveries, EnqueueAction(d)
    PROVE  ResponseInvariant'
<1> USE DEF ResponseInvariant
<1> DEFINE row == [event |-> d, status |-> "pending", attempts |-> 0, by |-> None]
<1>1. row \in Requests /\ requests \in Seq(Requests)
  BY DEF Requests, ResponseTyped
<1>2. requests' = Append(requests, row) /\ UNCHANGED workers
  BY DEF EnqueueAction
<1> HIDE DEF row
<1>3. /\ requests' \in Seq(Requests)
      /\ DOMAIN requests \subseteq DOMAIN requests'
      /\ \A r \in DOMAIN requests : requests'[r] = requests[r]
  <2>1. /\ requests' \in Seq(Requests) /\ Len(requests') = Len(requests) + 1
        /\ \A r \in 1 .. Len(requests) : requests'[r] = requests[r]
    BY <1>1, <1>2, AppendProperties
  <2>2. /\ DOMAIN requests = 1 .. Len(requests) /\ Len(requests) \in Nat
        /\ DOMAIN requests' = 1 .. Len(requests')
    BY <1>1, <2>1, LenProperties
  <2> QED  BY <2>1, <2>2
<1> QED
  BY <1>2, <1>3 DEF ResponseTyped, WorkersAtRequests, ExecutorIsNamed

\* A step of one worker that writes no row.
LEMMA WorkerMoves ==
    \A w \in Workers : \A state \in WorkerStates :
        /\ ResponseInvariant /\ UNCHANGED requests
        /\ workers' = [workers EXCEPT ![w] = state]
        /\ state.phase # "idle" => state.request \in DOMAIN requests
        /\ state.phase = "completing" => state.verdict \in {"pending"} \cup SettledStatuses
        /\ state.phase \in {"executing", "completing"} =>
              /\ requests[state.request].status = "dispatching"
              /\ requests[state.request].by = w
        => ResponseInvariant'
  BY DEF ResponseInvariant, ResponseTyped, WorkersAtRequests, ExecutorIsNamed

\* A worker gives up what it was at.
LEMMA IdlingKeeps ==
    ASSUME ResponseInvariant, NEW w \in Workers, UNCHANGED requests,
           workers' = [workers EXCEPT ![w] = Idle]
    PROVE  ResponseInvariant'
<1>1. Idle \in WorkerStates /\ Idle.phase = "idle"
  BY DEF Idle, WorkerStates
<1> QED  BY <1>1, WorkerMoves

\* The oldest pending request, as it is read.
LEMMA CandidateKeeps ==
    ASSUME ResponseInvariant, NEW w \in Workers, TakeCandidate(w)
    PROVE  ResponseInvariant'
<1>1. PICK r \in Pending :
          workers' = [workers EXCEPT ![w] =
              [Idle EXCEPT !.phase = "candidate", !.request = r, !.read = requests[r].attempts]]
  BY DEF TakeCandidate
<1> DEFINE state == [Idle EXCEPT !.phase = "candidate", !.request = r,
                                 !.read = requests[r].attempts]
<1>2. r \in DOMAIN requests /\ requests[r] \in Requests /\ r \in Nat
  BY RowsAreRequests DEF Pending, ResponseInvariant, ResponseTyped
<1>3. state \in WorkerStates /\ state.phase = "candidate" /\ state.request = r
  BY <1>2 DEF Idle, WorkerStates, Requests
<1>4. UNCHANGED requests /\ workers' = [workers EXCEPT ![w] = state]
  BY <1>1 DEF TakeCandidate
<1> HIDE DEF state
<1> QED  BY <1>2, <1>3, <1>4, WorkerMoves

\* What a claim writes is a request, dispatching and named for its worker.
LEMMA ClaimedRequest ==
    \A request \in Requests, w \in Workers :
       LET row == [request EXCEPT !.status = "dispatching", !.by = w,
                                  !.attempts = request.attempts + 1]
       IN  row \in Requests /\ row.status = "dispatching" /\ row.by = w
<1> SUFFICES ASSUME NEW request \in Requests, NEW w \in Workers,
                    NEW row, row = [request EXCEPT !.status = "dispatching", !.by = w,
                                                   !.attempts = request.attempts + 1]
             PROVE  row \in Requests /\ row.status = "dispatching" /\ row.by = w
  OBVIOUS
<1>1. request.attempts + 1 \in Nat
  BY DEF Requests
<1> DEFINE attempts == request.attempts + 1
<1>2. row = [event |-> request.event, status |-> "dispatching", attempts |-> attempts, by |-> w]
  BY DEF Requests
<1> HIDE DEF attempts
<1>3. attempts \in Nat /\ request.event \in EventDeliveries
  BY <1>1 DEF Requests, attempts
<1> QED  BY <1>2, <1>3 DEF Requests

\* A claim takes a pending request, which nobody is at; or the worker polls again.
LEMMA ClaimKeepsResponse ==
    ASSUME ResponseInvariant, NEW w \in Workers, ClaimAction(w)
    PROVE  ResponseInvariant'
<1> USE DEF ResponseInvariant
<1> DEFINE r == workers[w].request
           row == [requests[r] EXCEPT !.status = "dispatching", !.by = w,
                                      !.attempts = requests[r].attempts + 1]
<1>1. /\ workers[w].phase = "candidate" /\ r \in DOMAIN requests /\ requests[r] \in Requests
      /\ requests \in Seq(Requests)
  BY RowsAreRequests DEF ClaimAction, WorkersAtRequests, ResponseTyped
<1>2. CASE Claimable(r)
  <2>1. row \in Requests /\ row.status = "dispatching" /\ row.by = w
    BY <1>1, ClaimedRequest
  <2>2. requests' = [requests EXCEPT ![r] = row] /\ workers' = [workers EXCEPT ![w].phase = "executing"]
    BY <1>2 DEF ClaimAction
  <2>3. \A other \in Workers :
           workers[other].phase \in {"executing", "completing"} => workers[other].request # r
    BY <1>2 DEF Claimable, ExecutorIsNamed
  <2> HIDE DEF row
  <2>4. /\ requests' \in Seq(Requests) /\ DOMAIN requests' = DOMAIN requests
        /\ requests'[r] = row
        /\ \A other \in DOMAIN requests : other # r => requests'[other] = requests[other]
    BY <1>1, <2>1, <2>2, WritingKeepsTypes
  <2>5. /\ workers'[w] \in WorkerStates /\ workers'[w].phase = "executing"
        /\ workers'[w].request = r
        /\ \A other \in Workers : other # w => workers'[other] = workers[other]
        /\ workers' \in [Workers -> WorkerStates]
    BY <2>2 DEF ResponseTyped, WorkerStates
  <2> HIDE DEF r
  <2> QED
    BY <1>1, <2>1, <2>3, <2>4, <2>5 DEF ResponseTyped, WorkersAtRequests, ExecutorIsNamed
<1>3. CASE ~Claimable(r)
  BY <1>3, IdlingKeeps DEF ClaimAction
<1> QED  BY <1>2, <1>3

\* A completion is begun by the worker the row names.
LEMMA BeginKeeps ==
    ASSUME ResponseInvariant, NEW w \in Workers, NEW verdict \in {"pending"} \cup SettledStatuses,
           BeginCompletion(w, verdict)
    PROVE  ResponseInvariant'
<1> DEFINE r == workers[w].request
           state == [workers[w] EXCEPT !.phase = "completing", !.verdict = verdict,
                                       !.done = AllActionsDone(r, verdict)]
<1>1. /\ workers[w].phase = "executing" /\ requests[r].by = w
      /\ requests[r].status = "dispatching" /\ UNCHANGED requests
      /\ workers' = [workers EXCEPT ![w] = state]
  BY DEF BeginCompletion
<1>2. workers[w] \in WorkerStates /\ r \in DOMAIN requests
  BY <1>1 DEF ResponseInvariant, ResponseTyped, WorkersAtRequests
<1>3. AllActionsDone(r, verdict) \in BOOLEAN
  BY DEF AllActionsDone
<1>4. /\ state \in WorkerStates /\ state.phase = "completing" /\ state.request = r
      /\ state.verdict = verdict
  BY <1>2, <1>3 DEF WorkerStates
<1> HIDE DEF state
<1> QED  BY <1>1, <1>2, <1>4, WorkerMoves

\* The completion commits and its worker is idle again; nobody else is at the request.
LEMMA CommitKeeps ==
    ASSUME ResponseInvariant, NEW w \in Workers, CommitCompletion(w)
    PROVE  ResponseInvariant'
<1> USE DEF ResponseInvariant
<1> DEFINE r == workers[w].request
           row == [requests[r] EXCEPT !.status = workers[w].verdict]
<1>1. /\ workers[w].phase = "completing" /\ r \in DOMAIN requests /\ requests[r] \in Requests
      /\ workers[w].verdict \in {"pending"} \cup SettledStatuses /\ requests[r].by = w
      /\ requests \in Seq(Requests)
  BY RowsAreRequests DEF CommitCompletion, WorkersAtRequests, ResponseTyped, ExecutorIsNamed
<1>2. row \in Requests
  BY <1>1 DEF Requests
<1>3. requests' = [requests EXCEPT ![r] = row] /\ workers' = [workers EXCEPT ![w] = Idle]
  BY <1>1 DEF CommitCompletion
<1>4. \A other \in Workers \ {w} :
         workers[other].phase \in {"executing", "completing"} => workers[other].request # r
  BY <1>1 DEF ExecutorIsNamed
<1>5. Idle \in WorkerStates /\ Idle.phase = "idle"
  BY DEF Idle, WorkerStates
<1> HIDE DEF row
<1>6. /\ requests' \in Seq(Requests) /\ DOMAIN requests' = DOMAIN requests
      /\ \A other \in DOMAIN requests : other # r => requests'[other] = requests[other]
  BY <1>1, <1>2, <1>3, WritingKeepsTypes
<1>7. /\ workers'[w] = Idle /\ workers' \in [Workers -> WorkerStates]
      /\ \A other \in Workers : other # w => workers'[other] = workers[other]
  BY <1>3, <1>5 DEF ResponseTyped
<1> HIDE DEF r
<1> QED
  BY <1>4, <1>5, <1>6, <1>7 DEF ResponseTyped, WorkersAtRequests, ExecutorIsNamed

\* Every step keeps the invariant.
LEMMA ResponseStepKeeps == ResponseInvariant /\ [ResponseNext]_responseVars => ResponseInvariant'
<1> SUFFICES ASSUME ResponseInvariant, [ResponseNext]_responseVars PROVE ResponseInvariant'
  OBVIOUS
<1>1. ASSUME UNCHANGED <<requests, workers>> PROVE ResponseInvariant'
  BY <1>1 DEF ResponseInvariant, ResponseTyped, WorkersAtRequests, ExecutorIsNamed
<1>2. ASSUME NEW d \in EventDeliveries, IngestStep(d) \/ IngestDies(d) PROVE ResponseInvariant'
  BY <1>1, <1>2, EnqueueKeeps DEF IngestStep, IngestDies, ClaimDedupe, StoreEvent, EvaluatePolicy
<1>3. ASSUME NEW w \in Workers, WorkerDies(w) PROVE ResponseInvariant'
  BY <1>3, IdlingKeeps DEF WorkerDies
<1>4. ASSUME NEW w \in Workers, AdapterAnswers(w) \/ AdapterRaises(w) PROVE ResponseInvariant'
  <2>1. CASE AdapterAnswers(w)
    BY <2>1, BeginKeeps, ResponseConstants DEF AdapterAnswers
  <2>2. CASE AdapterRaises(w)
    <3>1. VerdictOfException(workers[w].read) \in {"pending"} \cup SettledStatuses
      BY DEF VerdictOfException, SettledStatuses
    <3> QED  BY <2>2, <3>1, BeginKeeps DEF AdapterRaises
  <2> QED  BY <1>4, <2>1, <2>2
<1>5. ASSUME NEW w \in Workers, WorkerStep(w) PROVE ResponseInvariant'
  BY <1>4, <1>5, CandidateKeeps, ClaimKeepsResponse, CommitKeeps DEF WorkerStep
<1> QED
  BY <1>1, <1>2, <1>3, <1>5 DEF ResponseNext, responseVars, DedupeExpires

\* However stale the candidates of the workers are, and whoever dies, a request is executed by one
\* worker at a time and its row names that worker (g11_claim_action).
THEOREM ResponseOneExecutor == ResponseSpec => []OneExecutor
<1>1. ResponseInvariant => OneExecutor
  BY DEF ResponseInvariant, ExecutorIsNamed, OneExecutor, At
<1> QED  BY <1>1, ResponseInitially, ResponseStepKeeps, PTL DEF ResponseSpec

=============================================================================
