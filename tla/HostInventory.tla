---------------------------- MODULE HostInventory ----------------------------
(* The durable side of one monitored Zabbix source: its first validation   *)
(* and the polls of its host inventory (sql/wave4/003 to 019).             *)
(*                                                                         *)
(* An inventory operation is enqueued, claimed and completed in three      *)
(* transactions.  A claim takes the next poll generation of the source and *)
(* only the operation of the newest claim is applied.  Polls happen under  *)
(* a runtime admission that is kept in an UNLOGGED table: a crash of the   *)
(* database truncates it and only recovery, which moves to a later epoch,  *)
(* puts one back.  Every completion decides under the locks of its source  *)
(* and its operation, so each transaction is one action.                   *)
(*                                                                         *)
(* Left out: tenants, provider identities, the contents of hosts, the      *)
(* configuration and scope revisions of the source, which nothing in the   *)
(* repository changes after its creation, and timestamps.                  *)
EXTENDS Absent, Naturals, FiniteSets

CONSTANTS
    Hosts,          \* the hosts of the provider
    InventoryOps,   \* operations of kind host_inventory_sync
    HostEpochs      \* bound: the poll epochs recovery may move to

ASSUME HostEpochsAssumption == HostEpochs \subseteq Nat /\ None \notin Nat

VARIABLES
    validation,      \* state of the operation validation_and_initial_sync
    sourceEvidence,  \* operational_evidence_state of the source
    hostPoll,        \* host_inventory_poll_epoch and _generation of the source
    hostAdmission,   \* epoch of the runtime admission, None when there is no row
    inventories,     \* the inventory operations
    resources        \* the resource of each host, None before it was first seen

inventoryVars == <<validation, sourceEvidence, hostPoll, hostAdmission, inventories, resources>>

\* What a read of the provider amounts to
Outcomes == {"current", "incomplete", "unavailable"}

\* A host inventory as the worker reports it: when the provider cannot be read it names none.
HostReads == {read \in [outcome : Outcomes, hosts : SUBSET Hosts] :
                 read.outcome = "unavailable" => read.hosts = {}}

\* No poll, read or resource is the absent one.
ASSUME HostNoneAssumption ==
    /\ None \notin [epoch : Nat, generation : Nat]
    /\ None \notin HostReads
    /\ None \notin [presence : {"present", "removed"}, evidence : Outcomes]

\* State of an operation whose read had an outcome
Settled(outcome) == IF outcome = "current" THEN "succeeded" ELSE "reconciliation_required"

NextPoll(poll) == [poll EXCEPT !.generation = @ + 1]

\* poll: what the claim took.  read: the snapshot evidence of an operation that was applied.
Unasked == [state |-> "absent", poll |-> None, read |-> None]

InventoryInit ==
    /\ validation = "pending"
    /\ sourceEvidence = "reconciliation_required"
    /\ hostPoll = [epoch |-> 1, generation |-> 0]
    /\ hostAdmission = None
    /\ inventories = [i \in InventoryOps |-> Unasked]
    /\ resources = [h \in Hosts |-> None]
-----------------------------------------------------------------------------
\* claim_zabbix_initial_validation: attempt_count = 0, so it is claimed once and never again
ClaimValidation ==
    /\ validation = "pending"
    /\ validation' = "running"
    /\ UNCHANGED <<sourceEvidence, hostPoll, hostAdmission, inventories, resources>>

\* complete_zabbix_initial_validation
CompleteValidation(outcome) ==
    /\ validation = "running"
    /\ validation' = Settled(outcome)
    /\ sourceEvidence' = outcome
    /\ UNCHANGED <<hostPoll, hostAdmission, inventories, resources>>

\* The evidence of the validation says succeeded and current; that the source is current
\* now is not asked.
ValidatedCurrent == validation = "succeeded"

\* enqueue_zabbix_host_inventory_sync
EnqueueInventory(i) ==
    /\ inventories[i].state = "absent"
    /\ ValidatedCurrent
    /\ inventories' = [inventories EXCEPT ![i].state = "pending"]
    /\ UNCHANGED <<validation, sourceEvidence, hostPoll, hostAdmission, resources>>

\* claim_zabbix_host_inventory: without an admission for the epoch the trigger on the poll
\* generation refuses the update of the source
ClaimInventory(i) ==
    /\ inventories[i].state = "pending"
    /\ ValidatedCurrent
    /\ hostAdmission = hostPoll.epoch
    /\ hostPoll' = NextPoll(hostPoll)
    /\ inventories' = [inventories EXCEPT ![i].state = "running", ![i].poll = hostPoll']
    /\ UNCHANGED <<validation, sourceEvidence, hostAdmission, resources>>

\* Mutant form: the generation of the poll is not compared.
AdmittedEpoch(poll) == poll.epoch = hostPoll.epoch /\ hostAdmission = hostPoll.epoch

\* No recovery and no later claim came between the claim and its completion.
CurrentPoll(poll) == poll = hostPoll /\ hostAdmission = hostPoll.epoch

\* complete_zabbix_host_inventory for an operation that lost its poll
RetireInventory(i) ==
    /\ inventories[i].state = "running"
    /\ ~ CurrentPoll(inventories[i].poll)
    /\ inventories' = [inventories EXCEPT ![i].state = "reconciliation_required"]
    /\ UNCHANGED <<validation, sourceEvidence, hostPoll, hostAdmission, resources>>

\* The resource of h after a read.  Only a complete read proves that a host is gone.
Observed(h, read) ==
    CASE h \in read.hosts -> [presence |-> "present", evidence |-> read.outcome]
      [] h \notin read.hosts /\ (resources[h] = None \/ resources[h].presence = "removed") ->
            resources[h]
      [] OTHER -> [presence |-> IF read.outcome = "current" THEN "removed" ELSE "present",
                   evidence |-> read.outcome]

\* complete_zabbix_host_inventory for the operation of the newest poll
ApplyInventory(i, read) ==
    /\ inventories[i].state = "running"
    /\ CurrentPoll(inventories[i].poll)
    /\ inventories' = [inventories EXCEPT ![i].state = Settled(read.outcome), ![i].read = read]
    /\ resources' = [h \in Hosts |-> Observed(h, read)]
    /\ sourceEvidence' = read.outcome
    /\ UNCHANGED <<validation, hostPoll, hostAdmission>>

\* reestablish_zabbix_host_inventory_poll_epoch: compare and swap of the epoch, the
\* generation stays.  Operations that run are left to be retired by their completion.
RecoverInventory(successor) ==
    /\ successor > hostPoll.epoch
    /\ hostPoll' = [hostPoll EXCEPT !.epoch = successor]
    /\ hostAdmission' = successor
    /\ UNCHANGED <<validation, sourceEvidence, inventories, resources>>

\* The steps of the source and its inventory, but for crashes
InventoryStep ==
    \/ ClaimValidation
    \/ \E outcome \in Outcomes : CompleteValidation(outcome)
    \/ \E i \in InventoryOps :
          \/ EnqueueInventory(i) \/ ClaimInventory(i) \/ RetireInventory(i)
          \/ \E read \in HostReads : ApplyInventory(i, read)
    \/ \E successor \in HostEpochs : RecoverInventory(successor)
=============================================================================
