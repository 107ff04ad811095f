--------------------------- MODULE ReplayRecovery ---------------------------
(***************************************************************************)
(* The replay and redrive authority of the identity harness across a whole *)
(* database restore: replay_recovery_conformance_runner.py with its final  *)
(* layers (boundary, capability, provider and transition hardening).       *)
(*                                                                         *)
(* The database is what a restore rolls back; the recovery witness (a      *)
(* sealed file) and the effect provider survive it.  An assertion is       *)
(* consumed through the port: the witness is read first and the database   *)
(* is asked afterwards, in another process.  A redrive is claimed, sent to *)
(* the provider, and completed or reconciled from a probe.  An operator    *)
(* seals a boundary, may restore an older dump, and recovers from the      *)
(* witness; it may die between any two of these steps.                     *)
(***************************************************************************)
EXTENDS Naturals, FiniteSets, Absent

CONSTANTS
    Assertions,     \* the (client, jti) pairs
    Prints,         \* fingerprints an assertion may be presented with
    Ops,            \* redrive operation ids
    MaxRecoveryEpoch,   \* bound: recovery epochs
    MaxClaims       \* bound: claims of redrive operations (each has its token)

ASSUME ReplayConstants ==
    /\ MaxRecoveryEpoch \in Nat /\ MaxClaims \in Nat
    /\ None \notin Nat \cup Prints /\ None \notin [print : Prints, epoch : Nat]

VARIABLES
    db,         \* [epoch, open, used, redrive]: fence row and the two tables
    witness,    \* [epoch, open, used, outcomes]: the sealed continuity file
    effect,     \* provider: operation -> capability whose effect it holds, or None
    fence,      \* provider: operation -> capability it fenced as absent, or None
    dump,       \* the database dump an operator could restore
    callers,    \* consumes that passed the witness and have not asked the database
    issued,     \* capabilities handed to workers by claims
    wins,       \* assertion -> how many consumes of it were answered WIN
    step,       \* the operator: idle, draining (capture), bound, rebuilt, reopened
    todo,       \* outcomes the running recovery has not restored yet
    restored    \* a dump was restored since the boundary was sealed

dbVars == <<db, dump>>
providerVars == <<effect, fence>>
operatorVars == <<step, todo, restored>>
replayVars == <<db, witness, effect, fence, dump, callers, issued, wins, step, todo, restored>>

RecoveryEpochs == 1..MaxRecoveryEpoch
Capabilities == [op : Ops, gen : 1..MaxClaims, token : 1..MaxClaims]
RowStates == {"prepared", "attempting", "reconciliation_required", "completed"}
\* "rev" is the provider record the row was settled from.
RedriveRows == [state : RowStates, epoch : RecoveryEpochs, gen : 0..MaxClaims,
                token : 1..MaxClaims \cup {None}, rev : Capabilities \cup {None}]
UsedRows == [print : Prints, epoch : RecoveryEpochs]
Databases == [epoch : RecoveryEpochs, open : BOOLEAN,
              used : [Assertions -> UsedRows \cup {None}],
              redrive : [Ops -> RedriveRows \cup {None}]]
\* A witnessed outcome is the canonical provider status of an operation.
Statuses == [kind : {"CONFIRMED", "ABSENT"}, cap : Capabilities] \cup {[kind |-> None, cap |-> None]}

\* No capability, row or status is the absence of one.
ASSUME ReplayNoneAssumption ==
    LET caps == [op : Ops, gen : Nat, token : Nat] IN
    /\ None \notin caps
    /\ None \notin [state : RowStates, epoch : Nat, gen : Nat, token : Nat \cup {None},
                   rev : caps \cup {None}]
    /\ None \notin [kind : {"CONFIRMED", "ABSENT"}, cap : caps]

ReplayTypeOK ==
    /\ db \in Databases /\ dump \in Databases
    /\ witness \in [epoch : RecoveryEpochs, open : BOOLEAN, used : [Assertions -> Prints \cup {None}],
                    outcomes : [Ops -> Statuses \cup {None}]]
    /\ effect \in [Ops -> Capabilities \cup {None}]
    /\ fence \in [Ops -> Capabilities \cup {None}]
    /\ callers \subseteq [a : Assertions, print : Prints, epoch : RecoveryEpochs]
    /\ issued \subseteq Capabilities
    /\ wins \in [Assertions -> Nat]
    /\ step \in {"idle", "draining", "bound", "rebuilt", "reopened"}
    /\ todo \subseteq Ops /\ restored \in BOOLEAN

FreshDb == [epoch |-> 1, open |-> TRUE, used |-> [a \in Assertions |-> None],
            redrive |-> [o \in Ops |-> None]]

ReplayInit ==
    /\ db = FreshDb /\ dump = FreshDb
    /\ witness = [epoch |-> 1, open |-> TRUE, used |-> [a \in Assertions |-> None],
                  outcomes |-> [o \in Ops |-> None]]
    /\ effect = [o \in Ops |-> None] /\ fence = [o \in Ops |-> None]
    /\ callers = {} /\ issued = {} /\ wins = [a \in Assertions |-> 0]
    /\ step = "idle" /\ todo = {} /\ restored = FALSE

-----------------------------------------------------------------------------
\* Consuming an assertion.

\* consume, first half: require_admission reads the witness file.
\* Bound: one caller at a time is between its two reads.
Admit(a, p) ==
    /\ witness.open /\ callers = {}
    /\ callers' = {[a |-> a, print |-> p, epoch |-> witness.epoch]}
    /\ UNCHANGED <<db, witness, effect, fence, dump, issued, wins, step, todo, restored>>

\* consume_private_jwt, under the shared admission barrier.
ConsumeAnswer(c) ==
    LET prior == db.used[c.a] IN
    CASE ~(db.open /\ db.epoch = c.epoch) -> "BLOCKED"
      [] OTHER -> IF prior = None THEN "WIN"
                  ELSE IF prior.epoch # c.epoch THEN "BLOCKED"
                  ELSE IF prior.print = c.print THEN "OBSERVE" ELSE "CONFLICT"

Consume(c) ==
    /\ c \in callers
    /\ callers' = callers \ {c}
    /\ IF ConsumeAnswer(c) = "WIN"
       THEN /\ db' = [db EXCEPT !.used[c.a] = [print |-> c.print, epoch |-> c.epoch]]
            /\ wins' = [wins EXCEPT ![c.a] = @ + 1]
       ELSE UNCHANGED <<db, wins>>
    /\ UNCHANGED <<witness, effect, fence, dump, issued, step, todo, restored>>

-----------------------------------------------------------------------------
\* Redriving an operation.

SetRow(o, row) == db' = [db EXCEPT !.redrive[o] = row]
NoSeal == UNCHANGED <<witness, dump, callers, wins, step, todo, restored>>

\* prepare_redrive; the caller names the epoch it believes current.
Prepare(o) ==
    /\ db.redrive[o] = None
    /\ SetRow(o, [state |-> "prepared", epoch |-> db.epoch, gen |-> 0, token |-> None, rev |-> None])
    /\ NoSeal /\ UNCHANGED <<effect, fence, issued>>

\* claim_redrive: the gate of the database alone is asked, never the witness.
Claim(o) ==
    LET row == db.redrive[o]
        token == Cardinality(issued) + 1
    IN  /\ row # None /\ db.open /\ row.state = "prepared" /\ row.epoch = db.epoch
        /\ token <= MaxClaims
        /\ SetRow(o, [row EXCEPT !.state = "attempting", !.gen = @ + 1, !.token = token, !.rev = None])
        /\ issued' = issued \cup {[op |-> o, gen |-> row.gen + 1, token |-> token]}
        /\ NoSeal /\ UNCHANGED <<effect, fence>>

\* POST /send of the hardened provider; late and repeated sends included.  An
\* answer that is not WIN changes nothing.
Send(c) ==
    /\ c \in issued /\ effect[c.op] = None
    /\ fence[c.op] # None => fence[c.op].gen < c.gen
    /\ effect' = [effect EXCEPT ![c.op] = c]
    /\ NoSeal /\ UNCHANGED <<db, issued, fence>>

\* POST /probe: an operation without effect and without fence is fenced.
Probe(c) ==
    /\ c \in issued /\ effect[c.op] = None /\ fence[c.op] = None
    /\ fence' = [fence EXCEPT ![c.op] = c]
    /\ NoSeal /\ UNCHANGED <<db, issued, effect>>

\* Row of c's operation while it is in state s at c's generation (the token is
\* not compared).
At(c, s) ==
    LET row == db.redrive[c.op] IN row # None /\ row.state = s /\ row.gen = c.gen

\* complete_after_provider by the worker whose send was answered WIN or OBSERVE.
Complete(c) ==
    /\ c \in issued /\ effect[c.op] = c /\ At(c, "attempting")
    /\ SetRow(c.op, [db.redrive[c.op] EXCEPT !.state = "completed", !.token = None, !.rev = c])
    /\ NoSeal /\ UNCHANGED <<effect, fence, issued>>

MarkAmbiguous(c) ==
    /\ c \in issued /\ At(c, "attempting")
    /\ SetRow(c.op, [db.redrive[c.op] EXCEPT !.state = "reconciliation_required"])
    /\ NoSeal /\ UNCHANGED <<effect, fence, issued>>

\* Mutant form: absence is answered to whoever asks once something was fenced.
AnswersToAnyFence(c) ==
    (IF effect[c.op] # None THEN {[kind |-> "CONFIRMED", cap |-> effect[c.op]]} ELSE {})
    \cup (IF fence[c.op] # None THEN {[kind |-> "ABSENT", cap |-> c]} ELSE {})

\* What probes of c have answered, now or earlier: an effect of the operation is
\* confirmed to whoever asks; absence is answered to the fenced capability only.
Answers(c) ==
    (IF effect[c.op] # None THEN {[kind |-> "CONFIRMED", cap |-> effect[c.op]]} ELSE {})
    \cup (IF fence[c.op] = c THEN {[kind |-> "ABSENT", cap |-> c]} ELSE {})

\* Row as reconcile_provider_outcome leaves it.
Settled(row, answer) ==
    [row EXCEPT !.state = IF answer.kind = "CONFIRMED" THEN "completed" ELSE "prepared",
                !.token = None, !.rev = answer.cap]

\* A redriver applies an answer it holds, however old.
Reconcile(c, answer) ==
    /\ c \in issued /\ answer \in Answers(c) /\ At(c, "reconciliation_required")
    /\ SetRow(c.op, Settled(db.redrive[c.op], answer))
    /\ NoSeal /\ UNCHANGED <<effect, fence, issued>>

-----------------------------------------------------------------------------
\* The operator.  Discipline of the harness: one operator, epochs in sequence, a
\* boundary sealed from an admitting witness, one restore per sealed boundary.

IssuedOps == {o \in Ops : db.redrive[o] # None /\ db.redrive[o].gen > 0}
Unresolved == {o \in Ops : db.redrive[o] # None
                           /\ db.redrive[o].state \in {"attempting", "reconciliation_required"}}

\* canonicalize_provider_outcome: a later effect supersedes the fence.  The other
\* order raises.
Contradictory(o) == effect[o] # None /\ fence[o] # None /\ effect[o].gen <= fence[o].gen
Canonical(o) ==
    IF effect[o] # None THEN [kind |-> "CONFIRMED", cap |-> effect[o]]
    ELSE IF fence[o] # None THEN [kind |-> "ABSENT", cap |-> fence[o]]
    ELSE [kind |-> None, cap |-> None]

\* whole_database_dump.
TakeDump ==
    /\ dump # db /\ dump' = db
    /\ UNCHANGED <<db, witness, effect, fence, callers, issued, wins, step, todo, restored>>

\* close_admission_and_drain at the start of a capture.
Drain ==
    /\ step = "idle" /\ witness.open /\ witness.epoch < MaxRecoveryEpoch
    /\ db' = [db EXCEPT !.open = FALSE]
    /\ step' = "draining"
    /\ UNCHANGED <<witness, effect, fence, dump, callers, issued, wins, todo, restored>>

\* resolve_provider_capability_exact on an unresolved row, when nothing raises: the
\* probe of the row's own capability answers with that capability.  A row already
\* ambiguous is probed only once the provider holds a record of it.
Resolve(o) ==
    LET row == db.redrive[o]
        c == [op |-> o, gen |-> row.gen, token |-> row.token]
        fenced == IF effect[o] = None /\ fence[o] = None THEN [fence EXCEPT ![o] = c] ELSE fence
        answer == IF effect[o] # None THEN [kind |-> "CONFIRMED", cap |-> effect[o]]
                  ELSE [kind |-> "ABSENT", cap |-> fenced[o]]
    IN  /\ step = "draining" /\ o \in Unresolved
        /\ row.state = "reconciliation_required" => ~Contradictory(o) /\ Canonical(o).cap = c
        /\ answer.cap = c
        /\ fence' = fenced
        /\ SetRow(o, Settled(row, answer))
        /\ NoSeal /\ UNCHANGED <<effect, issued>>

\* The rest of capture_recovery_boundary_exact: the final checks of every issued
\* operation (and of those the caller named), then the witness is sealed.  The
\* outcomes are read here: no capability is in flight, so none has moved since
\* its operation was resolved.
Seal(named) ==
    LET ops == IssuedOps \cup named IN
    /\ step = "draining" /\ Unresolved = {} /\ ~db.open
    /\ \A o \in ops :
          /\ ~Contradictory(o)
          /\ db.redrive[o] # None =>
                /\ db.redrive[o].state = "completed" => effect[o] # None
                /\ db.redrive[o].state = "prepared" => effect[o] = None
    /\ witness' = [epoch |-> witness.epoch + 1, open |-> FALSE,
                   used |-> [a \in Assertions |-> IF db.used[a] = None THEN None ELSE db.used[a].print],
                   outcomes |-> [o \in Ops |-> IF o \in ops THEN Canonical(o) ELSE None]]
    /\ step' = "idle" /\ restored' = FALSE
    /\ UNCHANGED <<db, effect, fence, dump, callers, issued, wins, todo>>

\* restore_entire_database: the database is recreated from a dump, its gate included.
Restore ==
    /\ step = "idle" /\ ~witness.open /\ ~restored
    /\ db' = dump
    /\ restored' = TRUE
    /\ UNCHANGED <<witness, effect, fence, dump, callers, issued, wins, step, todo>>

\* _enter_recovery_quarantine_retryable: the gate is closed before the witness is
\* read, then bound to its epoch.  Bindings are validated after it.
EnterQuarantine ==
    /\ step = "idle"
    /\ db' = [db EXCEPT !.open = FALSE, !.epoch = witness.epoch]
    /\ step' = "bound"
    /\ UNCHANGED <<witness, effect, fence, dump, callers, issued, wins, todo, restored>>

\* validate_consumed_restore_exact and _validate_restored_redrive_capabilities.
Validated ==
    /\ \A a \in Assertions :
          witness.used[a] # None /\ db.used[a] # None => db.used[a].print = witness.used[a]
    /\ \A o \in IssuedOps : witness.outcomes[o] # None
    /\ \A o \in Unresolved : witness.outcomes[o] # None =>
          LET cap == witness.outcomes[o].cap IN
          cap # None /\ cap.gen = db.redrive[o].gen /\ cap.token = db.redrive[o].token

\* Mutant form: identities lost with the restore are not inserted again.
RestoreConsumedRowsLeft ==
    /\ step = "bound" /\ Validated
    /\ db' = [db EXCEPT !.used = [a \in Assertions |->
                IF witness.used[a] = None \/ @[a] = None THEN @[a]
                ELSE [print |-> witness.used[a], epoch |-> db.epoch]]]
    /\ step' = "rebuilt"
    /\ todo' = {o \in Ops : witness.outcomes[o] # None}
    /\ UNCHANGED <<witness, effect, fence, dump, callers, issued, wins, restored>>

\* The checks, then _restore_consumed: witnessed identities come back at the new
\* epoch.
RestoreConsumed ==
    /\ step = "bound" /\ Validated
    /\ db' = [db EXCEPT !.used = [a \in Assertions |->
                IF witness.used[a] = None THEN @[a]
                ELSE [print |-> witness.used[a], epoch |-> db.epoch]]]
    /\ step' = "rebuilt"
    /\ todo' = {o \in Ops : witness.outcomes[o] # None}
    /\ UNCHANGED <<witness, effect, fence, dump, callers, issued, wins, restored>>

\* The row _restore_provider_outcomes leaves for an operation; Restorable says
\* that nothing raises on the way.
Rehydrated(o) ==
    LET status == witness.outcomes[o]
        row == db.redrive[o]
    IN  IF row = None
        THEN IF status.cap = None THEN None
             ELSE Settled([state |-> "prepared", epoch |-> db.epoch, gen |-> status.cap.gen,
                           token |-> None, rev |-> None], status)
        ELSE IF o \in Unresolved THEN [Settled(row, status) EXCEPT !.epoch = db.epoch]
        ELSE [row EXCEPT !.epoch = db.epoch]

\* A fresh probe of the captured capability still says what was captured.
StillHolds(o, status) ==
    IF status.kind = "CONFIRMED" THEN effect[o] = status.cap
    ELSE effect[o] = None /\ fence[o] = status.cap

Restorable(o) ==
    LET status == witness.outcomes[o]
        row == db.redrive[o]
        captured == status.cap # None
    IN  /\ row = None /\ captured => StillHolds(o, status)
        /\ row # None =>
             /\ captured => status.cap.gen = row.gen
             /\ o \in Unresolved => captured /\ status.cap.token = row.token /\ StillHolds(o, status)
             /\ row.state = "completed" =>
                  status.kind = "CONFIRMED" /\ row.rev = status.cap /\ StillHolds(o, status)
             /\ row.state = "prepared" /\ status.kind = "ABSENT" =>
                  row.rev = status.cap /\ StillHolds(o, status)

\* One pass of the loop; what workers do between its statements either makes it
\* raise or leaves a row it would have left at once.
RestoreOutcome(o) ==
    /\ step = "rebuilt" /\ o \in todo /\ Restorable(o)
    /\ SetRow(o, Rehydrated(o))
    /\ todo' = todo \ {o}
    /\ UNCHANGED <<witness, effect, fence, dump, callers, issued, wins, step, restored>>

\* open_after_reconciliation: the witness is published before the database opens.
OpenWitness ==
    /\ step = "rebuilt" /\ todo = {} /\ Unresolved = {}
    /\ witness' = [witness EXCEPT !.open = TRUE]
    /\ step' = "reopened"
    /\ UNCHANGED <<db, effect, fence, dump, callers, issued, wins, todo, restored>>

OpenDatabase ==
    /\ step = "reopened"
    /\ db' = [db EXCEPT !.open = TRUE]
    /\ step' = "idle"
    /\ UNCHANGED <<witness, effect, fence, dump, callers, issued, wins, todo, restored>>

\* The operator dies, or a check raises; what it committed stays.
OperatorStops ==
    /\ step # "idle"
    /\ step' = "idle" /\ todo' = {}
    /\ UNCHANGED <<db, witness, effect, fence, dump, callers, issued, wins, restored>>

ReplayNext ==
    \/ \E a \in Assertions, p \in Prints : Admit(a, p)
    \/ \E c \in callers : Consume(c)
    \/ \E o \in Ops : Prepare(o) \/ Claim(o) \/ Resolve(o) \/ RestoreOutcome(o)
    \/ \E c \in issued : Send(c) \/ Probe(c) \/ Complete(c) \/ MarkAmbiguous(c)
    \/ \E c \in issued : \E answer \in Answers(c) : Reconcile(c, answer)
    \/ TakeDump \/ Drain \/ Restore \/ EnterQuarantine \/ RestoreConsumed
    \/ \E named \in SUBSET Ops : Seal(named)
    \/ OpenWitness \/ OpenDatabase \/ OperatorStops

ReplaySpec == ReplayInit /\ [][ReplayNext]_replayVars

-----------------------------------------------------------------------------
\* Both authorities admit callers at one epoch.
Serving == db.open /\ witness.open /\ db.epoch = witness.epoch

\* While the database and the witness admit at the same epoch, every assertion any
\* consume ever won is in the replay table, whatever dump was restored and however
\* often the operator died: no later consume can win it again (whole_restore_nonresurrection).
ConsumedStaysConsumed ==
    Serving => \A a \in Assertions : wins[a] > 0 => db.used[a] # None

\* While both admit, an effect the provider holds is accounted for by the row of its
\* operation at the same generation, in flight or completed: a row lost with the
\* restore is never taken for "no effect" and no later attempt is prepared over it.
EffectIsAccountedFor ==
    Serving => \A o \in Ops : effect[o] # None =>
        /\ db.redrive[o] # None
        /\ db.redrive[o].gen = effect[o].gen
        /\ db.redrive[o].state # "prepared"

\* "stale_epoch_callers_fenced=true whole_restore_nonresurrection=true" (the runner's
\* own summary lines): no assertion is ever won twice.  It fails: a caller that
\* read the witness before the boundary was sealed asks the restored database.
OneWinPerAssertion == \A a \in Assertions : wins[a] <= 1
=============================================================================
