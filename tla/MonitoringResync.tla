-------------------------- MODULE MonitoringResync --------------------------
(***************************************************************************)
(* The transport from monitoring to alerting: consumers of                 *)
(* apps/g6-monitoring-alerting-transport/consumer.py over the guarded      *)
(* functions of sql/integration/002_monitoring_alerting_consumer.sql.      *)
(*                                                                         *)
(* A message stands for one transition of one health projection, which     *)
(* the trigger of sql/integration/001 publishes in the transaction that    *)
(* writes the revision: the message of a revision can be delivered from    *)
(* then on, at any time, in any order, any number of times, to any         *)
(* consumer.  A consumer admits it, claims its receipt and completes it,   *)
(* in three transactions; the last holds the receipt and reads the source  *)
(* and the projection one after the other.  A consumer may stop at any     *)
(* point: it died, its execution authority was refused, or a call raised.  *)
(*                                                                         *)
(* What validates an envelope, and the generations of a source, which      *)
(* nothing changes once it is active, are left out.                        *)
(***************************************************************************)
EXTENDS Absent, Naturals

CONSTANTS
    Consumers,       \* processes with an executor_id of their own
    MaxTransition    \* bound on the transitions of the projection

Messages == 1 .. MaxTransition

VARIABLES
    owner,           \* the health projection: its revision, and whether its evidence is current
    sourceCurrent,   \* operational_evidence_state of the source
    inboxRows,       \* async_consumer_inbox, by message
    consumers        \* what each consumer is at

resyncVars == <<owner, sourceCurrent, inboxRows, consumers>>

SettledStates == {"completed", "reconciliation_required"}
InboxRows == [state : {"admitted", "processing"} \cup SettledStates, executor : Consumers \cup {None},
              generation : Nat, lapsed : BOOLEAN, result : Messages \cup {None}]
ConsumerStages == {"waiting", "admitted", "claimed", "reading"}
ConsumerStates == [stage : ConsumerStages, message : Messages \cup {None}, generation : Nat]

ASSUME ResyncConstants == MaxTransition \in Nat /\ None \notin Messages /\ None \notin InboxRows

Waiting == [stage |-> "waiting", message |-> None, generation |-> 0]

ResyncInit ==
    /\ owner = [revision |-> 0, current |-> FALSE]
    /\ sourceCurrent = TRUE
    /\ inboxRows = [m \in Messages |-> None]
    /\ consumers = [c \in Consumers |-> Waiting]

\* A transaction that completes a receipt holds its row.
Held(m) == \E c \in Consumers : consumers[c].stage = "reading" /\ consumers[c].message = m

Turns(c, stage, message, generation) ==
    consumers' = [consumers EXCEPT ![c] =
        [stage |-> stage, message |-> message, generation |-> generation]]

Stops(c) == consumers' = [consumers EXCEPT ![c] = Waiting]

\* The row is over: completed with the revision it read, or for reconciliation.
Settles(m, state, result) ==
    inboxRows' = [inboxRows EXCEPT ![m] =
        [@ EXCEPT !.state = state, !.executor = None, !.lapsed = FALSE, !.result = result]]

-----------------------------------------------------------------------------

\* recompute_health_projection: the next revision, its transition and its message.
OwnerMoves(current) ==
    /\ owner.revision < MaxTransition
    /\ owner' = [revision |-> owner.revision + 1, current |-> current]
    /\ UNCHANGED <<sourceCurrent, inboxRows, consumers>>

SourceTurns ==
    /\ sourceCurrent' = ~sourceCurrent
    /\ UNCHANGED <<owner, inboxRows, consumers>>

\* claim_expires_at of a claim passes.
ReceiptLapses(m) ==
    /\ inboxRows[m] # None
    /\ inboxRows[m].state = "processing" /\ ~inboxRows[m].lapsed
    /\ inboxRows' = [inboxRows EXCEPT ![m].lapsed = TRUE]
    /\ UNCHANGED <<owner, sourceCurrent, consumers>>

\* consume: the receipt is created or observed; only one that is admitted goes on.
Admit(c, m) ==
    /\ consumers[c] = Waiting
    /\ m <= owner.revision
    /\ ~Held(m)
    /\ inboxRows' =
          IF inboxRows[m] = None
          THEN [inboxRows EXCEPT ![m] =
                   [state |-> "admitted", executor |-> None, generation |-> 0, lapsed |-> FALSE,
                    result |-> None]]
          ELSE inboxRows
    /\ IF inboxRows'[m].state = "admitted" THEN Turns(c, "admitted", m, 0) ELSE UNCHANGED consumers
    /\ UNCHANGED <<owner, sourceCurrent>>

\* g6_claim_monitoring_alerting_receipt.  A receipt another consumer is processing is
\* answered as processing, and the gateway takes its generation for its own claim.
ClaimReceipt(c) ==
    LET m == consumers[c].message  row == inboxRows[m] IN
    /\ consumers[c].stage = "admitted"
    /\ ~Held(m)
    /\ \/ /\ row.state = "admitted"
          /\ inboxRows' = [inboxRows EXCEPT ![m] =
                [row EXCEPT !.state = "processing", !.executor = c,
                            !.generation = row.generation + 1]]
          /\ Turns(c, "claimed", m, row.generation + 1)
       \/ /\ row.state = "processing" /\ ~row.lapsed
          /\ Turns(c, "claimed", m, row.generation)
          /\ UNCHANGED inboxRows
       \/ /\ row.state = "processing" /\ row.lapsed
          /\ Settles(m, "reconciliation_required", None)
          /\ Stops(c)
       \/ /\ row.state \in SettledStates
          /\ Stops(c)
          /\ UNCHANGED inboxRows
    /\ UNCHANGED <<owner, sourceCurrent>>

\* Mutant form: whoever names the generation completes it.
IsCurrentByGeneration(c) ==
    LET row == inboxRows[consumers[c].message] IN row.generation = consumers[c].generation

IsCurrent(c) ==
    LET row == inboxRows[consumers[c].message] IN
    /\ row.state = "processing"
    /\ row.executor = c
    /\ row.generation = consumers[c].generation

\* g6_complete_monitoring_alerting_resync, up to the read of the source: the receipt is
\* locked, the claim is the caller's and is not over, and the source is current.
ReadSource(c) ==
    LET m == consumers[c].message IN
    /\ consumers[c].stage = "claimed"
    /\ ~Held(m)
    /\ \/ /\ ~IsCurrent(c)
          /\ Stops(c)
          /\ UNCHANGED inboxRows
       \/ /\ IsCurrent(c)
          /\ inboxRows[m].lapsed \/ ~sourceCurrent
          /\ Settles(m, "reconciliation_required", None)
          /\ Stops(c)
       \/ /\ IsCurrent(c)
          /\ ~inboxRows[m].lapsed /\ sourceCurrent
          /\ Turns(c, "reading", m, consumers[c].generation)
          /\ UNCHANGED inboxRows
    /\ UNCHANGED <<owner, sourceCurrent>>

\* g6_complete_monitoring_alerting_resync, from the read of the projection on.
ReadProjection(c) ==
    LET m == consumers[c].message IN
    /\ consumers[c].stage = "reading"
    /\ IF owner.current /\ m <= owner.revision
       THEN Settles(m, "completed", owner.revision)
       ELSE Settles(m, "reconciliation_required", None)
    /\ Stops(c)
    /\ UNCHANGED <<owner, sourceCurrent>>

ConsumerStops(c) ==
    /\ consumers[c] # Waiting
    /\ Stops(c)
    /\ UNCHANGED <<owner, sourceCurrent, inboxRows>>

-----------------------------------------------------------------------------

ConsumerStep(c) == ClaimReceipt(c) \/ ReadSource(c) \/ ReadProjection(c)

ResyncNext ==
    \/ \E current \in BOOLEAN : OwnerMoves(current)
    \/ SourceTurns
    \/ \E m \in Messages : ReceiptLapses(m)
    \/ \E c \in Consumers :
          ConsumerStep(c) \/ ConsumerStops(c) \/ \E m \in Messages : Admit(c, m)

\* Every message is delivered again and again to every consumer, each goes on with what
\* it has, and a lease that is not given up lapses.
ResyncFairness ==
    /\ \A c \in Consumers : WF_resyncVars(ConsumerStep(c))
    /\ \A c \in Consumers, m \in Messages : SF_resyncVars(Admit(c, m))
    /\ \A m \in Messages : WF_resyncVars(ReceiptLapses(m))

ResyncSpec == ResyncInit /\ [][ResyncNext]_resyncVars /\ ResyncFairness

-----------------------------------------------------------------------------

ResyncTypeOK ==
    /\ owner \in [revision : Messages \cup {0}, current : BOOLEAN]
    /\ sourceCurrent \in BOOLEAN
    /\ inboxRows \in [Messages -> InboxRows \cup {None}]
    /\ consumers \in [Consumers -> ConsumerStates]

\* A receipt that is completed or left for reconciliation stays as it is: no consumer that
\* is late, or that took the claim of another for its own, settles it again.
SettledReceiptIsFinal ==
    [][\A m \in Messages :
          inboxRows[m] # None /\ inboxRows[m].state \in SettledStates =>
              inboxRows'[m] = inboxRows[m]]_inboxRows

\* A receipt is claimed once, its reader is the consumer that claimed it, and it is read
\* at the revision of its message or above.
OneClaimPerReceipt ==
    /\ \A m \in Messages :
          inboxRows[m] # None =>
              /\ inboxRows[m].generation <= 1
              /\ inboxRows[m].result # None => inboxRows[m].result >= m
    /\ \A c \in Consumers :
          consumers[c].stage = "reading" =>
              /\ inboxRows[consumers[c].message].state = "processing"
              /\ inboxRows[consumers[c].message].executor = c

\* A claim whose lease lapsed is left for reconciliation (RUNBOOK.md of g6).
LapsedIsReconciled ==
    \A m \in Messages :
        inboxRows[m] # None /\ inboxRows[m].lapsed ~>
            inboxRows[m] # None /\ inboxRows[m].state # "processing"
=============================================================================
