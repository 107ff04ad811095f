-------------------------- MODULE AsyncOutboxProofs --------------------------
(***************************************************************************)
(* Proofs about the outbox ledger, for any owners, identities, contents    *)
(* and bounds: type correctness, that a claim generation names one claim,  *)
(* that records are settled by the holders of their last claims and stay   *)
(* so, and that the PostgreSQL table takes every step of the ledger.       *)
(*                                                                         *)
(* Uniqueness is not inductive alone: ClaimsBounded adds that no claim in  *)
(* circulation is ahead of its record's generation, which is what makes    *)
(* the next generation fresh.  Nor is SettledByLastHolder:                 *)
(* OpenClaimsUnreported adds that no report is about the claim a record    *)
(* is held under, so that whoever settles it is the first to do so.        *)
(***************************************************************************)
EXTENDS AsyncOutbox, TLAPS

\* Every claim in circulation names an existing record and its message, and a
\* generation that record has already reached.
ClaimsBounded ==
    \A c \in claims :
        /\ c.record_id \in Records
        /\ c.claim_generation <= by_id[c.record_id].claim_generation
        /\ c.message = by_id[c.record_id].message

IInv == TypeOK /\ ClaimsBounded /\ GenerationsUnique

\* ExpireClaims keeps the shape of the ledger and touches neither the message
\* nor the claim generation of any record.
LEMMA ExpireClaimsShape ==
    ASSUME TypeOK, NEW now
    PROVE  /\ ExpireClaims(now) \in [Records -> Entries]
           /\ \A r \in Records :
                /\ ExpireClaims(now)[r].claim_generation = by_id[r].claim_generation
                /\ ExpireClaims(now)[r].message = by_id[r].message
<1>1. \A r \in Records : by_id[r] \in Entries
  BY DEF TypeOK
<1>2. \A r \in Records : Expired(by_id[r]) \in Entries
  BY <1>1 DEF Expired, Entries, DispatchStates, ErrorClasses
<1>3. \A r \in Records :
        /\ Expired(by_id[r]).claim_generation = by_id[r].claim_generation
        /\ Expired(by_id[r]).message = by_id[r].message
  BY <1>1 DEF Expired, Entries
<1>4. \A r \in Records :
        ExpireClaims(now)[r] = IF IsLapsed(by_id[r], now) THEN Expired(by_id[r]) ELSE by_id[r]
  BY DEF ExpireClaims
<1> QED  BY <1>1, <1>2, <1>3, <1>4 DEF ExpireClaims

\* A claimed entry keeps its shape and message and advances its generation.
LEMMA ClaimedShape ==
    ASSUME NEW e \in Entries, NEW o \in Owners, NEW expires \in Nat
    PROVE  /\ Claimed(e, o, expires) \in Entries
           /\ Claimed(e, o, expires).claim_generation = e.claim_generation + 1
           /\ Claimed(e, o, expires).message = e.message
<1>1. e.claim_generation + 1 \in Nat /\ e.attempt_count + 1 \in Nat
  BY DEF Entries
<1>2. \A generation, attempts \in Nat :
        [e EXCEPT !.state = "claimed", !.claim_owner = o, !.claim_generation = generation,
                  !.claim_expires_at = expires, !.attempt_count = attempts] \in Entries
  BY DEF Entries, DispatchStates
<1>3. Claimed(e, o, expires) \in Entries
  BY <1>1, <1>2 DEF Claimed
<1>4. /\ Claimed(e, o, expires).claim_generation = e.claim_generation + 1
      /\ Claimed(e, o, expires).message = e.message
  BY DEF Claimed, Entries
<1> QED  BY <1>3, <1>4

\* Settling a current claim keeps the shape of the ledger, its messages and its
\* generations.
LEMMA SettleClaimShape ==
    ASSUME NEW ledger \in [Records -> Entries], NEW c, IsCurrentClaim(ledger, c),
           NEW state \in DispatchStates, NEW error \in ErrorClasses \cup {None},
           NEW receipt \in ReceiptIds \cup {None}
    PROVE  /\ SettleClaim(ledger, c, state, error, receipt) \in [Records -> Entries]
           /\ \A r \in Records :
                /\ SettleClaim(ledger, c, state, error, receipt)[r].claim_generation
                     = ledger[r].claim_generation
                /\ SettleClaim(ledger, c, state, error, receipt)[r].message = ledger[r].message
<1> DEFINE new == SettleClaim(ledger, c, state, error, receipt)
           entry == Settled(ledger[c.record_id], state, error, receipt)
<1>1. c.record_id \in Records
  BY DEF IsCurrentClaim
<1>2. ledger[c.record_id] \in Entries
  BY <1>1
<1>3. /\ entry \in Entries
      /\ entry.claim_generation = ledger[c.record_id].claim_generation
      /\ entry.message = ledger[c.record_id].message
  BY <1>2 DEF Entries, Settled
<1>4. new = [ledger EXCEPT ![c.record_id] = entry]
  BY DEF SettleClaim
<1> HIDE DEF entry, new
<1>5. new \in [Records -> Entries]
  BY <1>1, <1>3, <1>4
<1>6. \A r \in Records : new[r] = IF r = c.record_id THEN entry ELSE ledger[r]
  BY <1>1, <1>4
<1> QED  BY <1>3, <1>5, <1>6 DEF new

\* The ledger starts empty.
LEMMA InitIInv == Init => IInv
  BY OutboxConstants DEF Init, IInv, TypeOK, ClaimsBounded, GenerationsUnique, Records

\* A step that replaces the ledger by one of the same shape, messages and
\* generations, and leaves claims and ids alone, preserves the invariant.
LEMMA SameGenerationsPreserve ==
    ASSUME IInv, UNCHANGED <<next_id, claims>>,
           by_id' \in [Records -> Entries],
           \A r \in Records : /\ by_id'[r].claim_generation = by_id[r].claim_generation
                              /\ by_id'[r].message = by_id[r].message,
           reports' \subseteq Reports, clock' \in 0 .. MaxClock
    PROVE  IInv'
<1>1. Records' = Records
  BY DEF Records
<1> QED  BY <1>1 DEF IInv, TypeOK, ClaimsBounded, GenerationsUnique

\* Every call that settles a claim preserves the invariant.
LEMMA SettlePreserves ==
    ASSUME IInv, NEW c \in claims, NEW now,
           IsCurrentClaim(ExpireClaims(now), c),
           NEW state \in FinalStates \cup {"pending"}, NEW error \in ErrorClasses \cup {None},
           NEW receipt \in ReceiptIds \cup {None}, NEW reported \in ReceiptIds \cup {None},
           by_id' = SettleClaim(ExpireClaims(now), c, state, error, receipt),
           Report(c, state, reported), UNCHANGED <<next_id, claims, clock>>
    PROVE  IInv'
<1>1. TypeOK
  BY DEF IInv
<1>2. /\ ExpireClaims(now) \in [Records -> Entries]
      /\ \A r \in Records :
            /\ ExpireClaims(now)[r].claim_generation = by_id[r].claim_generation
            /\ ExpireClaims(now)[r].message = by_id[r].message
  BY <1>1, ExpireClaimsShape
<1>3. /\ by_id' \in [Records -> Entries]
      /\ \A r \in Records :
            /\ by_id'[r].claim_generation = ExpireClaims(now)[r].claim_generation
            /\ by_id'[r].message = ExpireClaims(now)[r].message
  <2> DEFINE ledger == ExpireClaims(now)
  <2>1. ledger \in [Records -> Entries] /\ IsCurrentClaim(ledger, c) /\ state \in DispatchStates
    BY <1>2 DEF FinalStates, DispatchStates
  <2> HIDE DEF ledger
  <2>2. /\ SettleClaim(ledger, c, state, error, receipt) \in [Records -> Entries]
        /\ \A r \in Records :
             /\ SettleClaim(ledger, c, state, error, receipt)[r].claim_generation
                  = ledger[r].claim_generation
             /\ SettleClaim(ledger, c, state, error, receipt)[r].message = ledger[r].message
    BY <2>1, SettleClaimShape
  <2> QED  BY <2>2 DEF ledger
<1>4. reports' \subseteq Reports /\ clock' \in 0 .. MaxClock
  BY <1>1 DEF TypeOK, Report, Reports
<1> QED  BY <1>2, <1>3, <1>4, SameGenerationsPreserve

\* claim_next hands out the successor of the record's generation.
LEMMA ClaimNextPreserves ==
    ASSUME IInv, NEW o \in Owners, NEW now, NEW expires \in Nat, ClaimNext(o, now, expires)
    PROVE  IInv'
<1> DEFINE ledger == ExpireClaims(now)
<1>1. TypeOK /\ ClaimsBounded /\ GenerationsUnique
  BY DEF IInv
<1>2. /\ ledger \in [Records -> Entries]
      /\ \A r \in Records : /\ ledger[r].claim_generation = by_id[r].claim_generation
                            /\ ledger[r].message = by_id[r].message
  BY <1>1, ExpireClaimsShape
<1> DEFINE entry(r) == Claimed(ledger[r], o, expires)
           claim(r) == [record_id |-> r, owner_id |-> o,
                        claim_generation |-> ledger[r].claim_generation + 1,
                        claim_expires_at |-> expires, message |-> ledger[r].message]
<1> HIDE DEF ledger
<1>3. PICK r \in Records : /\ by_id' = [ledger EXCEPT ![r] = entry(r)]
                           /\ claims' = claims \cup {claim(r)}
  BY DEF ClaimNext, ledger
<1>4. ledger[r] \in Entries
  BY <1>2
<1>5. /\ entry(r) \in Entries
      /\ entry(r).claim_generation = by_id[r].claim_generation + 1
      /\ entry(r).message = by_id[r].message
  BY <1>2, <1>4, ClaimedShape
<1>6. r \in Nat
  BY <1>1 DEF Records, TypeOK
<1>7. /\ claim(r) \in OutboxClaims
      /\ claim(r).record_id = r
      /\ claim(r).claim_generation = by_id[r].claim_generation + 1
      /\ claim(r).message = by_id[r].message
  BY <1>2, <1>4, <1>6 DEF OutboxClaims, Entries
<1>8. UNCHANGED <<next_id, reports, clock>> /\ Records' = Records
  BY DEF ClaimNext, Records
<1> HIDE DEF entry, claim
<1>9. by_id' \in [Records -> Entries]
  BY <1>2, <1>3, <1>5
<1>10. \A q \in Records : by_id'[q] = IF q = r THEN entry(r) ELSE ledger[q]
  BY <1>2, <1>3
<1>11. TypeOK'
  BY <1>1, <1>3, <1>7, <1>8, <1>9 DEF TypeOK
<1>12. \A q \in Records : by_id[q].claim_generation \in Nat
  BY <1>1 DEF TypeOK, Entries
<1>13. ClaimsBounded'
  <2> SUFFICES ASSUME NEW c \in claims'
               PROVE  /\ c.record_id \in Records
                      /\ c.claim_generation <= by_id'[c.record_id].claim_generation
                      /\ c.message = by_id'[c.record_id].message
    BY <1>8 DEF ClaimsBounded
  <2>1. CASE c \in claims
    <3>1. /\ c.record_id \in Records
          /\ c.claim_generation <= by_id[c.record_id].claim_generation
          /\ c.message = by_id[c.record_id].message
      BY <1>1, <2>1 DEF ClaimsBounded
    <3>2. c.claim_generation \in Nat
      BY <1>1, <2>1 DEF TypeOK, OutboxClaims
    <3> QED  BY <1>2, <1>5, <1>10, <1>12, <3>1, <3>2
  <2>2. CASE c = claim(r)
    BY <1>5, <1>7, <1>10, <1>12, <2>2
  <2> QED  BY <1>3, <2>1, <2>2
<1>14. GenerationsUnique'
  <2>1. \A c \in claims : c.record_id = r => c.claim_generation # claim(r).claim_generation
    <3> SUFFICES ASSUME NEW c \in claims, c.record_id = r
                 PROVE  c.claim_generation # by_id[r].claim_generation + 1
      BY <1>7
    <3>1. c.claim_generation <= by_id[r].claim_generation
      BY <1>1 DEF ClaimsBounded
    <3>2. c.claim_generation \in Nat
      BY <1>1 DEF TypeOK, OutboxClaims
    <3> QED  BY <1>12, <3>1, <3>2
  <2> QED  BY <1>1, <1>3, <1>7, <2>1 DEF GenerationsUnique
<1> QED  BY <1>11, <1>13, <1>14 DEF IInv

\* append_committed adds a record no claim knows.
LEMMA AppendPreserves ==
    ASSUME IInv, NEW m \in Messages, AppendCommitted(m)
    PROVE  IInv'
<1>1. TypeOK /\ ClaimsBounded /\ GenerationsUnique
  BY DEF IInv
<1>2. Records' = 1 .. next_id /\ Records \subseteq Records' /\ next_id \notin Records
  BY <1>1 DEF AppendCommitted, Records, TypeOK
<1>3. NewEntry(m) \in Entries
  BY DEF NewEntry, Entries, DispatchStates
<1>4. \A r \in Records' : by_id'[r] = IF r = next_id THEN NewEntry(m) ELSE by_id[r]
  BY <1>2 DEF AppendCommitted, Extended
<1>5. \A r \in Records' : r # next_id => r \in Records
  BY <1>1 DEF AppendCommitted, Records, TypeOK
<1>6. by_id' \in [Records' -> Entries]
  BY <1>1, <1>2, <1>3, <1>5 DEF AppendCommitted, Extended, TypeOK
<1>7. TypeOK'
  BY <1>1, <1>6 DEF AppendCommitted, TypeOK
<1>8. ClaimsBounded'
  BY <1>1, <1>2, <1>4 DEF AppendCommitted, ClaimsBounded
<1> QED  BY <1>1, <1>7, <1>8 DEF IInv, GenerationsUnique, AppendCommitted

\* IInv is inductive.
LEMMA NextIInv == IInv /\ [Next]_vars => IInv'
<1> SUFFICES ASSUME IInv, [Next]_vars PROVE IInv'
  OBVIOUS
<1> USE OutboxConstants
<1>t. TypeOK
  BY DEF IInv
<1>b. reports \subseteq Reports /\ clock \in 0 .. MaxClock
  BY <1>t DEF TypeOK
<1>0. /\ by_id \in [Records -> Entries]
      /\ \A c \in claims : c \in OutboxClaims
  BY <1>t DEF TypeOK
<1>1. CASE AppendMessage
  BY <1>1, AppendPreserves DEF AppendMessage
<1>2. CASE Claim
  <2>1. PICK o \in Owners, now \in ObservedAt, expires \in 1 .. MaxClock : ClaimNext(o, now, expires)
    BY <1>2 DEF Claim
  <2> QED  BY <2>1, ClaimNextPreserves
<1>3. CASE Expire
  <2>1. PICK now \in ObservedAt : ExpireOnly(now)
    BY <1>3 DEF Expire
  <2>2. /\ ExpireClaims(now) \in [Records -> Entries]
        /\ \A r \in Records :
              /\ ExpireClaims(now)[r].claim_generation = by_id[r].claim_generation
              /\ ExpireClaims(now)[r].message = by_id[r].message
    BY <1>t, ExpireClaimsShape
  <2> QED  BY <1>b, <2>1, <2>2, SameGenerationsPreserve DEF ExpireOnly
<1>4. CASE Acknowledge
  <2>1. PICK c \in claims, receipt \in ReceiptIds, now \in ObservedAt : MarkPublished(c, receipt, now)
    BY <1>4 DEF Acknowledge
  <2>2. "published" \in FinalStates
    BY DEF FinalStates
  <2> QED  BY <2>1, <2>2, SettlePreserves DEF MarkPublished
<1>s. ASSUME NEW c, NEW now, IsCurrentClaim(ExpireClaims(now), c)
      PROVE  ExpireClaims(now)[c.record_id].publication_receipt \in ReceiptIds \cup {None}
  <2>1. ExpireClaims(now) \in [Records -> Entries] /\ c.record_id \in Records
    BY <1>t, <1>s, ExpireClaimsShape DEF IsCurrentClaim
  <2> QED  BY <2>1 DEF Entries
<1>5. CASE Ambiguous
  <2>1. PICK c \in claims, now \in ObservedAt : MarkPublicationAmbiguous(c, now)
    BY <1>5 DEF Ambiguous
  <2>2. "publication_outcome_ambiguous" \in ErrorClasses
    BY DEF ErrorClasses
  <2> QED  BY <1>s, <2>1, <2>2, SettlePreserves DEF MarkPublicationAmbiguous
<1>6. CASE Poison
  <2>1. PICK c \in claims, now \in ObservedAt : Quarantine(c, now)
    BY <1>6 DEF Poison
  <2>2. "quarantined" \in FinalStates /\ "quarantine_reason" \in ErrorClasses
    BY DEF FinalStates, ErrorClasses
  <2> QED  BY <1>s, <2>1, <2>2, SettlePreserves DEF Quarantine
<1>7. CASE Release
  <2>1. PICK c \in claims, now \in ObservedAt : ReleaseClaim(c, now)
    BY <1>7 DEF Release
  <2>2. "released" \in ErrorClasses
    BY DEF ErrorClasses
  <2> QED  BY <1>s, <2>1, <2>2, SettlePreserves DEF ReleaseClaim
<1>8. CASE Tick
  <2>1. clock' \in 0 .. MaxClock
    BY <1>8, <1>b DEF Tick
  <2> QED  BY <1>0, <1>8, <1>b, <2>1, SameGenerationsPreserve DEF Tick
<1>9. CASE UNCHANGED vars
  BY <1>0, <1>b, <1>9, SameGenerationsPreserve DEF vars
<1> QED  BY <1>1, <1>2, <1>3, <1>4, <1>5, <1>6, <1>7, <1>8, <1>9 DEF Next

\* Every reachable ledger has the shape the dataclasses give it.
THEOREM OutboxTypeCorrect == Spec => []TypeOK
<1>1. IInv => TypeOK
  BY DEF IInv
<1> QED  BY InitIInv, NextIInv, <1>1, PTL DEF Spec

\* claim_next never hands out the same generation of a record twice, so the fence
\* in _require_current_claim tells every two holders apart.
THEOREM OutboxGenerationsUnique == Spec => []GenerationsUnique
<1>1. IInv => GenerationsUnique
  BY DEF IInv
<1> QED  BY InitIInv, NextIInv, <1>1, PTL DEF Spec

-----------------------------------------------------------------------------
\* What settles a record, and for how long.  The claim a record is held under has not been
\* reported yet, so its holder is the first to report it.
OpenClaimsUnreported ==
    \A s \in reports :
        /\ s.claim \in claims
        /\ by_id[s.claim.record_id].state = "claimed"
             => s.claim.claim_generation # by_id[s.claim.record_id].claim_generation

SettledInv == SettledByLastHolder /\ OpenClaimsUnreported

\* An entry that no report is about in this step: final ones stay, others may lapse or be claimed
\* under a new generation.
KeptOrReopened(old, new) ==
    \/ new = old
    \/ /\ old.state \notin FinalStates
       /\ new.state = "pending"
    \/ /\ old.state \notin FinalStates
       /\ new.state = "claimed"
       /\ new.claim_generation > old.claim_generation

\* Expiry touches claimed records only, and leaves them pending.
LEMMA ExpiryReopens ==
    ASSUME TypeOK, NEW now, NEW r \in Records
    PROVE  /\ KeptOrReopened(by_id[r], ExpireClaims(now)[r])
           /\ ExpireClaims(now)[r].state # "pending" => ExpireClaims(now)[r] = by_id[r]
<1>1. by_id[r] \in Entries
  BY DEF TypeOK
<1>2. Expired(by_id[r]).state = "pending"
  BY <1>1 DEF Expired, Entries
<1>3. IsLapsed(by_id[r], now) => by_id[r].state \notin FinalStates
  BY DEF IsLapsed, FinalStates
<1> QED  BY <1>2, <1>3 DEF ExpireClaims, KeptOrReopened

\* A settlement writes one entry, of the state and with the receipt it is given.
LEMMA SettledEntry ==
    ASSUME NEW ledger \in [Records -> Entries], NEW c, IsCurrentClaim(ledger, c),
           NEW state, NEW error, NEW receipt
    PROVE  /\ c.record_id \in Records
           /\ \A r \in Records : r # c.record_id =>
                 SettleClaim(ledger, c, state, error, receipt)[r] = ledger[r]
           /\ SettleClaim(ledger, c, state, error, receipt)[c.record_id].state = state
           /\ SettleClaim(ledger, c, state, error, receipt)[c.record_id].publication_receipt = receipt
           /\ SettleClaim(ledger, c, state, error, receipt)[c.record_id].claim_generation
                 = c.claim_generation
<1> DEFINE entry == Settled(ledger[c.record_id], state, error, receipt)
<1>1. c.record_id \in Records /\ ledger[c.record_id] \in Entries
  BY DEF IsCurrentClaim
<1>2. /\ entry.state = state /\ entry.publication_receipt = receipt
      /\ entry.claim_generation = ledger[c.record_id].claim_generation
  BY <1>1 DEF Settled, Entries
<1>3. SettleClaim(ledger, c, state, error, receipt) = [ledger EXCEPT ![c.record_id] = entry]
  BY DEF SettleClaim
<1>4. ledger[c.record_id].claim_generation = c.claim_generation
  BY DEF IsCurrentClaim
<1> HIDE DEF entry
<1> QED  BY <1>1, <1>2, <1>3, <1>4

\* A step that reports nothing leaves what was reported in force.
LEMMA SilentStepKeeps ==
    ASSUME IInv, SettledInv, reports' = reports, claims \subseteq claims',
           Records \subseteq Records',
           \A r \in Records : KeptOrReopened(by_id[r], by_id'[r]),
           \A r \in Records' \ Records : by_id'[r].state = "pending"
    PROVE  SettledInv'
<1>1. \A s \in reports : /\ s.claim \in claims /\ s.claim \in OutboxClaims
                         /\ s.claim.record_id \in Records
                         /\ s.claim.claim_generation \in Nat
                         /\ s.claim.claim_generation <= by_id[s.claim.record_id].claim_generation
  BY DEF SettledInv, OpenClaimsUnreported, IInv, TypeOK, ClaimsBounded, OutboxClaims
<1>2. \A r \in Records : by_id[r].claim_generation \in Nat
  BY DEF IInv, TypeOK, Entries
<1>3. OpenClaimsUnreported'
  <2> SUFFICES ASSUME NEW s \in reports, by_id'[s.claim.record_id].state = "claimed"
               PROVE  s.claim.claim_generation # by_id'[s.claim.record_id].claim_generation
    BY <1>1 DEF OpenClaimsUnreported
  <2> DEFINE r == s.claim.record_id
  <2>1. CASE by_id'[r] = by_id[r]
    BY <2>1 DEF SettledInv, OpenClaimsUnreported
  <2>2. CASE by_id'[r].claim_generation > by_id[r].claim_generation
    <3>1. r \in Records /\ s.claim.claim_generation <= by_id[r].claim_generation
      BY <1>1
    <3>2. s.claim.claim_generation \in Nat /\ by_id[r].claim_generation \in Nat
      BY <1>1, <1>2
    <3>3. s.claim.claim_generation = by_id'[r].claim_generation => FALSE
      BY <2>2, <3>1, <3>2
    <3> QED  BY <3>3
  <2> QED  BY <1>1, <2>1, <2>2 DEF KeptOrReopened
<1>4. \A r \in Records : by_id[r].state \in FinalStates => by_id'[r] = by_id[r]
  BY DEF KeptOrReopened
<1>5. \A r \in Records' : by_id'[r].state \in FinalStates => r \in Records /\ by_id'[r] = by_id[r]
  BY DEF KeptOrReopened, FinalStates
<1>6. SettledByLastHolder'
  BY <1>1, <1>4, <1>5 DEF SettledInv, SettledByLastHolder
<1> QED  BY <1>3, <1>6 DEF SettledInv

\* A holder that settles its claim is the first to report it, and the record was not final before.
LEMMA ReportedStepKeeps ==
    ASSUME IInv, SettledInv, NEW c \in claims, NEW now, IsCurrentClaim(ExpireClaims(now), c),
           NEW state \in FinalStates \cup {"pending"}, NEW error, NEW receipt, NEW reported,
           state = "published" => reported = receipt,
           by_id' = SettleClaim(ExpireClaims(now), c, state, error, receipt),
           Report(c, state, reported), UNCHANGED <<next_id, claims, clock>>
    PROVE  SettledInv'
<1> DEFINE ledger == ExpireClaims(now)
           report == [claim |-> c, state |-> state, receipt |-> reported]
<1>1. TypeOK /\ Records' = Records
  BY DEF IInv, Records
<1>2. /\ ledger \in [Records -> Entries] /\ IsCurrentClaim(ledger, c)
      /\ \A r \in Records : /\ KeptOrReopened(by_id[r], ledger[r])
                            /\ ledger[r].state # "pending" => ledger[r] = by_id[r]
  BY <1>1, ExpireClaimsShape, ExpiryReopens
<1>3. by_id' = SettleClaim(ledger, c, state, error, receipt)
  OBVIOUS
<1> HIDE DEF ledger
<1>4. /\ c.record_id \in Records
      /\ \A r \in Records : r # c.record_id => by_id'[r] = ledger[r]
      /\ by_id'[c.record_id].state = state
      /\ by_id'[c.record_id].publication_receipt = receipt
      /\ by_id'[c.record_id].claim_generation = c.claim_generation
  BY <1>2, <1>3, SettledEntry
<1>5. /\ by_id[c.record_id].state = "claimed"
      /\ by_id[c.record_id].claim_generation = c.claim_generation
  BY <1>2, <1>4 DEF IsCurrentClaim
<1>6. /\ reports' = reports \cup {report}
      /\ report.claim = c /\ report.state = state /\ report.receipt = reported
  BY DEF Report
<1> HIDE DEF report
<1>7. \A s \in reports : s.claim \in claims /\ s.claim # c
  BY <1>5 DEF SettledInv, OpenClaimsUnreported
<1>8. \A s \in reports : s.state \in FinalStates => s.claim.record_id # c.record_id
  BY <1>5 DEF SettledInv, SettledByLastHolder, FinalStates
<1>9. \A s \in reports : s.claim.record_id \in Records
  BY <1>7 DEF IInv, ClaimsBounded
<1>10. \A r \in Records : r # c.record_id /\ by_id[r].state \in FinalStates => by_id'[r] = by_id[r]
  BY <1>2, <1>4 DEF KeptOrReopened
<1>11. \A r \in Records : r # c.record_id /\ by_id'[r].state # "pending" => by_id'[r] = by_id[r]
  BY <1>2, <1>4
<1>12. OpenClaimsUnreported'
  BY <1>4, <1>6, <1>7, <1>9, <1>11 DEF SettledInv, OpenClaimsUnreported, FinalStates
<1>13. \A s, t \in reports' : s.claim = t.claim => s = t
  BY <1>6, <1>7 DEF SettledInv, SettledByLastHolder
<1>14. \A s \in reports' : s.state \in FinalStates =>
          /\ by_id'[s.claim.record_id].state = s.state
          /\ by_id'[s.claim.record_id].claim_generation = s.claim.claim_generation
          /\ s.state = "published" => by_id'[s.claim.record_id].publication_receipt = s.receipt
  <2>1. CASE state \in FinalStates
    BY <1>4, <1>6, <1>8, <1>9, <1>10 DEF SettledInv, SettledByLastHolder
  <2>2. CASE state \notin FinalStates
    BY <1>6, <1>8, <1>9, <1>10, <2>2 DEF SettledInv, SettledByLastHolder
  <2> QED  BY <2>1, <2>2
<1>15. \A r \in Records : by_id'[r].state \in FinalStates =>
          \E s \in reports' : s.claim.record_id = r /\ s.state = by_id'[r].state
  BY <1>4, <1>6, <1>11 DEF SettledInv, SettledByLastHolder, FinalStates
<1> QED  BY <1>1, <1>12, <1>13, <1>14, <1>15 DEF SettledInv, SettledByLastHolder

\* Every step keeps what dispatchers were told.
LEMMA StepKeepsSettled == IInv /\ SettledInv /\ [Next]_vars => SettledInv'
<1> SUFFICES ASSUME IInv, SettledInv, [Next]_vars PROVE SettledInv'
  OBVIOUS
<1>t. TypeOK
  BY DEF IInv
<1>1. CASE AppendMessage
  <2>1. PICK m \in Messages : AppendCommitted(m)
    BY <1>1 DEF AppendMessage
  <2>2. /\ Records' = 1 .. next_id /\ Records \subseteq Records' /\ next_id \notin Records
        /\ \A r \in Records' : r # next_id => r \in Records
    BY <1>t, <2>1 DEF AppendCommitted, Records, TypeOK
  <2>3. \A r \in Records' : by_id'[r] = IF r = next_id THEN NewEntry(m) ELSE by_id[r]
    BY <2>1, <2>2 DEF AppendCommitted, Extended
  <2>4. NewEntry(m).state = "pending"
    BY DEF NewEntry
  <2>5. \A r \in Records : KeptOrReopened(by_id[r], by_id'[r])
    BY <2>2, <2>3 DEF KeptOrReopened
  <2> QED  BY <2>1, <2>2, <2>3, <2>4, <2>5, SilentStepKeeps DEF AppendCommitted
<1>2. CASE Claim
  <2>1. PICK o \in Owners, now \in ObservedAt, expires \in 1 .. MaxClock : ClaimNext(o, now, expires)
    BY <1>2 DEF Claim
  <2> DEFINE ledger == ExpireClaims(now)
  <2>2. /\ ledger \in [Records -> Entries]
        /\ \A r \in Records : /\ KeptOrReopened(by_id[r], ledger[r])
                              /\ ledger[r].claim_generation = by_id[r].claim_generation
    BY <1>t, ExpireClaimsShape, ExpiryReopens
  <2> HIDE DEF ledger
  <2>3. PICK r \in Records : /\ ledger[r].state = "pending"
                             /\ by_id' = [ledger EXCEPT ![r] = Claimed(ledger[r], o, expires)]
    BY <2>1 DEF ClaimNext, ledger
  <2> DEFINE new == Claimed(ledger[r], o, expires)
  <2>4. ledger[r] \in Entries /\ ledger[r].claim_generation \in Nat
    BY <2>2 DEF Entries
  <2>5. new.state = "claimed" /\ new.claim_generation = ledger[r].claim_generation + 1
    BY <2>4 DEF Claimed, Entries
  <2>6. new.claim_generation > ledger[r].claim_generation
    BY <2>4, <2>5
  <2> HIDE DEF new
  <2>7. \A q \in Records : by_id'[q] = IF q = r THEN new ELSE ledger[q]
    BY <2>2, <2>3 DEF new
  <2>8. by_id[r].state \notin FinalStates
    BY <2>2, <2>3 DEF KeptOrReopened, FinalStates
  <2>9. \A q \in Records : KeptOrReopened(by_id[q], by_id'[q])
    BY <2>2, <2>5, <2>6, <2>7, <2>8 DEF KeptOrReopened
  <2>10. Records' = Records /\ reports' = reports /\ claims \subseteq claims'
    BY <2>1 DEF ClaimNext, Records
  <2> QED  BY <2>9, <2>10, SilentStepKeeps
<1>3. CASE Expire
  <2>1. PICK now \in ObservedAt : ExpireOnly(now)
    BY <1>3 DEF Expire
  <2>2. \A r \in Records : KeptOrReopened(by_id[r], by_id'[r])
    BY <1>t, <2>1, ExpiryReopens DEF ExpireOnly
  <2>3. Records' = Records /\ reports' = reports /\ claims' = claims
    BY <2>1 DEF ExpireOnly, Records
  <2> QED  BY <2>2, <2>3, SilentStepKeeps
<1>4. CASE Acknowledge
  <2>1. PICK c \in claims, receipt \in ReceiptIds, now \in ObservedAt : MarkPublished(c, receipt, now)
    BY <1>4 DEF Acknowledge
  <2>2. "published" \in FinalStates
    BY DEF FinalStates
  <2> QED  BY <2>1, <2>2, ReportedStepKeeps DEF MarkPublished
<1>5. CASE Ambiguous
  <2>1. PICK c \in claims, now \in ObservedAt : MarkPublicationAmbiguous(c, now)
    BY <1>5 DEF Ambiguous
  <2> QED  BY <2>1, ReportedStepKeeps DEF MarkPublicationAmbiguous
<1>6. CASE Poison
  <2>1. PICK c \in claims, now \in ObservedAt : Quarantine(c, now)
    BY <1>6 DEF Poison
  <2>2. "quarantined" \in FinalStates
    BY DEF FinalStates
  <2> QED  BY <2>1, <2>2, ReportedStepKeeps DEF Quarantine
<1>7. CASE Release
  <2>1. PICK c \in claims, now \in ObservedAt : ReleaseClaim(c, now)
    BY <1>7 DEF Release
  <2> QED  BY <2>1, ReportedStepKeeps DEF ReleaseClaim
<1>8. CASE Tick \/ UNCHANGED vars
  <2>1. UNCHANGED <<by_id, next_id, claims, reports>>
    BY <1>8 DEF Tick, vars
  <2>2. Records' = Records /\ \A r \in Records : KeptOrReopened(by_id[r], by_id'[r])
    BY <2>1 DEF Records, KeptOrReopened
  <2> QED  BY <2>1, <2>2, SilentStepKeeps
<1> QED  BY <1>1, <1>2, <1>3, <1>4, <1>5, <1>6, <1>7, <1>8 DEF Next

\* What the ledger told a dispatcher stays true, and a record is final only because the holder of
\* its last claim reported it so (_require_current_claim): a holder that lapsed, released or was
\* unsure decides nothing for its successor.
THEOREM OutboxSettledByLastHolder == Spec => []SettledByLastHolder
<1>1. Init => SettledInv
  BY DEF Init, SettledInv, SettledByLastHolder, OpenClaimsUnreported, Records
<1>2. SettledInv => SettledByLastHolder
  BY DEF SettledInv
<1> QED  BY InitIInv, NextIInv, <1>1, <1>2, StepKeepsSettled, PTL DEF Spec

-----------------------------------------------------------------------------
\* The guard of the dispatch table: its rows meet the constraints, and each entry becomes one the
\* table takes in its place.
RowsAllowed == \A r \in Records : SQL!DispatchRowAllowed(by_id[r])

Accepted(old, new) ==
    /\ SQL!DispatchRowAllowed(new)
    /\ \/ SQL!DispatchUpdateAllowed(old, new)
       \/ /\ old.state = "claimed"
          /\ SQL!DispatchUpdateAllowed(old, Expired(old))
          /\ SQL!DispatchUpdateAllowed(Expired(old), new)

LEMMA NothingAccepted ==
    ASSUME NEW e \in Entries, SQL!DispatchRowAllowed(e)
    PROVE  Accepted(e, e)
<1>1. e.state \in DispatchStates
  BY DEF Entries
<1> QED  BY <1>1 DEF Accepted, SQL!DispatchUpdateAllowed, SQL!SameCounters, DispatchStates

LEMMA ExpiryAccepted ==
    ASSUME NEW e \in Entries, e.state = "claimed"
    PROVE  Accepted(e, Expired(e))
<1>1. /\ Expired(e).state = "pending" /\ Expired(e).claim_owner = None
      /\ Expired(e).claim_expires_at = None
      /\ Expired(e).claim_generation = e.claim_generation /\ Expired(e).attempt_count = e.attempt_count
  BY DEF Expired, Entries
<1> QED  BY <1>1 DEF Accepted, SQL!DispatchRowAllowed, SQL!DispatchUpdateAllowed, SQL!SameCounters

\* A claim takes a pending entry, or one whose lease it finds lapsed.
LEMMA ClaimAccepted ==
    ASSUME NEW e \in Entries, NEW x \in {e, Expired(e)}, x.state = "pending",
           x # e => e.state = "claimed", NEW o \in Owners, NEW expires \in Nat
    PROVE  Accepted(e, Claimed(x, o, expires))
<1>1. x \in Entries
  BY DEF Expired, Entries, DispatchStates, ErrorClasses
<1> DEFINE new == Claimed(x, o, expires)
<1>2. /\ new.state = "claimed" /\ new.claim_owner = o /\ new.claim_expires_at = expires
      /\ new.claim_generation = x.claim_generation + 1 /\ new.attempt_count = x.attempt_count + 1
  BY <1>1 DEF Claimed, Entries
<1> HIDE DEF new
<1>3. SQL!DispatchRowAllowed(new)
  BY <1>2, OutboxConstants DEF SQL!DispatchRowAllowed
<1>4. SQL!DispatchUpdateAllowed(x, new)
  BY <1>2 DEF SQL!DispatchUpdateAllowed
<1>5. x # e => SQL!DispatchUpdateAllowed(e, Expired(e))
  BY ExpiryAccepted DEF Accepted, SQL!DispatchUpdateAllowed, Expired, Entries, SQL!SameCounters
<1>6. Accepted(e, new)
  <2>1. CASE x = e
    BY <1>3, <1>4, <2>1 DEF Accepted
  <2>2. CASE x # e
    BY <1>3, <1>4, <1>5, <2>2 DEF Accepted
  <2> QED  BY <2>1, <2>2
<1> QED  BY <1>6 DEF new

LEMMA SettleAccepted ==
    ASSUME NEW e \in Entries, e.state = "claimed",
           NEW state \in {"pending", "published", "quarantined"}, NEW error, NEW receipt,
           state = "published" => receipt # None
    PROVE  Accepted(e, Settled(e, state, error, receipt))
<1> DEFINE new == Settled(e, state, error, receipt)
<1>1. /\ new.state = state /\ new.claim_owner = None /\ new.claim_expires_at = None
      /\ new.publication_receipt = receipt
      /\ new.claim_generation = e.claim_generation /\ new.attempt_count = e.attempt_count
  BY DEF Settled, Entries
<1> HIDE DEF new
<1>2. Accepted(e, new)
  BY <1>1 DEF Accepted, SQL!DispatchRowAllowed, SQL!DispatchUpdateAllowed, SQL!SameCounters
<1> QED  BY <1>2 DEF new

\* What the expiry at the head of a call leaves of each entry.
LEMMA ExpiredLedgerAccepted ==
    ASSUME TypeOK, RowsAllowed, NEW now, NEW r \in Records
    PROVE  /\ Accepted(by_id[r], ExpireClaims(now)[r])
           /\ ExpireClaims(now)[r] \in {by_id[r], Expired(by_id[r])}
           /\ ExpireClaims(now)[r] # by_id[r] => by_id[r].state = "claimed"
           /\ ExpireClaims(now)[r].state = "claimed" => ExpireClaims(now)[r] = by_id[r]
<1>1. by_id[r] \in Entries /\ SQL!DispatchRowAllowed(by_id[r])
  BY DEF TypeOK, RowsAllowed
<1>2. Expired(by_id[r]).state = "pending"
  BY <1>1 DEF Expired, Entries
<1>3. ExpireClaims(now)[r] = IF IsLapsed(by_id[r], now) THEN Expired(by_id[r]) ELSE by_id[r]
  BY DEF ExpireClaims
<1>4. IsLapsed(by_id[r], now) => by_id[r].state = "claimed"
  BY DEF IsLapsed
<1> QED  BY <1>1, <1>2, <1>3, <1>4, NothingAccepted, ExpiryAccepted

LEMMA SettlingAccepted ==
    ASSUME TypeOK, RowsAllowed, NEW c, NEW now, IsCurrentClaim(ExpireClaims(now), c),
           NEW state \in {"pending", "published", "quarantined"}, NEW error, NEW receipt,
           state = "published" => receipt # None,
           by_id' = SettleClaim(ExpireClaims(now), c, state, error, receipt)
    PROVE  \A r \in Records : Accepted(by_id[r], by_id'[r])
<1> DEFINE ledger == ExpireClaims(now)
           entry == Settled(ledger[c.record_id], state, error, receipt)
<1>1. /\ \A r \in Records : Accepted(by_id[r], ledger[r])
      /\ \A r \in Records : ledger[r].state = "claimed" => ledger[r] = by_id[r]
  BY ExpiredLedgerAccepted
<1>2. c.record_id \in Records /\ ledger[c.record_id].state = "claimed"
  BY DEF IsCurrentClaim, ExpireClaims
<1>3. ledger[c.record_id] = by_id[c.record_id] /\ by_id[c.record_id] \in Entries
  BY <1>1, <1>2 DEF TypeOK
<1>4. Accepted(by_id[c.record_id], entry)
  BY <1>2, <1>3, SettleAccepted
<1>5. ledger \in [Records -> Entries] /\ by_id' = [ledger EXCEPT ![c.record_id] = entry]
  BY ExpireClaimsShape DEF SettleClaim
<1> HIDE DEF ledger, entry
<1>6. \A r \in Records : by_id'[r] = IF r = c.record_id THEN entry ELSE ledger[r]
  BY <1>2, <1>5
<1> QED  BY <1>1, <1>4, <1>6

\* Every step is one the table takes, row by row.
LEMMA StepAccepted ==
    ASSUME IInv, RowsAllowed, [Next]_vars
    PROVE  \A r \in Records : Accepted(by_id[r], by_id'[r])
<1>t. TypeOK
  BY DEF IInv
<1>0. \A r \in Records : Accepted(by_id[r], by_id[r])
  BY <1>t, NothingAccepted DEF RowsAllowed, TypeOK
<1>1. CASE AppendMessage
  <2>1. PICK m \in Messages : AppendCommitted(m)
    BY <1>1 DEF AppendMessage
  <2>2. \A r \in Records : r \in 1 .. next_id /\ r # next_id
    BY <1>t DEF Records, TypeOK
  <2>3. \A r \in Records : by_id'[r] = by_id[r]
    BY <2>1, <2>2 DEF AppendCommitted, Extended
  <2> QED  BY <1>0, <2>3
<1>2. CASE Claim
  <2>1. PICK o \in Owners, now \in ObservedAt, expires \in 1 .. MaxClock : ClaimNext(o, now, expires)
    BY <1>2 DEF Claim
  <2> DEFINE ledger == ExpireClaims(now)
  <2>2. \A r \in Records : /\ Accepted(by_id[r], ledger[r])
                           /\ ledger[r] \in {by_id[r], Expired(by_id[r])}
                           /\ ledger[r] # by_id[r] => by_id[r].state = "claimed"
    BY <1>t, ExpiredLedgerAccepted
  <2>3. ledger \in [Records -> Entries] /\ \A r \in Records : by_id[r] \in Entries
    BY <1>t, ExpireClaimsShape DEF TypeOK
  <2> HIDE DEF ledger
  <2>4. PICK r \in Records : /\ ledger[r].state = "pending"
                             /\ by_id' = [ledger EXCEPT ![r] = Claimed(ledger[r], o, expires)]
    BY <2>1 DEF ClaimNext, ledger
  <2>5. expires \in Nat
    BY OutboxConstants
  <2>6. Accepted(by_id[r], Claimed(ledger[r], o, expires))
    BY <2>2, <2>3, <2>4, <2>5, ClaimAccepted
  <2>7. \A q \in Records : by_id'[q] = IF q = r THEN Claimed(ledger[r], o, expires) ELSE ledger[q]
    BY <2>3, <2>4
  <2> QED  BY <2>2, <2>6, <2>7
<1>3. CASE Expire
  BY <1>3, <1>t, ExpiredLedgerAccepted DEF Expire, ExpireOnly
<1>4. CASE Acknowledge
  <2>1. PICK c \in claims, receipt \in ReceiptIds, now \in ObservedAt : MarkPublished(c, receipt, now)
    BY <1>4 DEF Acknowledge
  <2>2. receipt # None
    BY OutboxConstants
  <2> QED  BY <1>t, <2>1, <2>2, SettlingAccepted DEF MarkPublished
<1>5. CASE Ambiguous
  BY <1>5, <1>t, SettlingAccepted DEF Ambiguous, MarkPublicationAmbiguous
<1>6. CASE Poison
  BY <1>6, <1>t, SettlingAccepted DEF Poison, Quarantine
<1>7. CASE Release
  BY <1>7, <1>t, SettlingAccepted DEF Release, ReleaseClaim
<1>8. CASE Tick \/ UNCHANGED vars
  BY <1>0, <1>8 DEF Tick, vars
<1> QED  BY <1>1, <1>2, <1>3, <1>4, <1>5, <1>6, <1>7, <1>8 DEF Next

\* A record that is appended meets the constraints as well.
LEMMA StepKeepsRows == IInv /\ RowsAllowed /\ [Next]_vars => RowsAllowed'
<1> SUFFICES ASSUME IInv, RowsAllowed, [Next]_vars PROVE RowsAllowed'
  OBVIOUS
<1>1. \A r \in Records : SQL!DispatchRowAllowed(by_id'[r])
  BY StepAccepted DEF Accepted
<1>2. CASE AppendMessage
  <2>1. PICK m \in Messages : AppendCommitted(m)
    BY <1>2 DEF AppendMessage
  <2>2. Records' = 1 .. next_id /\ \A r \in Records' : r # next_id => r \in Records
    BY <2>1 DEF AppendCommitted, Records, IInv, TypeOK
  <2>3. next_id \in Records' => by_id'[next_id] = NewEntry(m)
    BY <2>1, <2>2 DEF AppendCommitted, Extended
  <2>4. SQL!DispatchRowAllowed(NewEntry(m))
    BY DEF SQL!DispatchRowAllowed, NewEntry
  <2> QED  BY <1>1, <2>2, <2>3, <2>4 DEF RowsAllowed
<1>3. CASE ~AppendMessage
  <2>1. next_id' = next_id
    BY <1>3 DEF Next, Claim, ClaimNext, Expire, ExpireOnly, Acknowledge,
        MarkPublished, Ambiguous, MarkPublicationAmbiguous, Poison, Quarantine, Release, ReleaseClaim,
        Tick, vars
  <2> QED  BY <1>1, <2>1 DEF RowsAllowed, Records
<1> QED  BY <1>2, <1>3

\* The dispatch table of PostgreSQL takes every step of the ledger, whatever lapses at the head of
\* a call (wave2_guard_outbox_dispatch_update).
THEOREM OutboxGuardAccepts == Spec => DispatchGuardAccepts
<1>1. Init => RowsAllowed
  BY DEF Init, RowsAllowed, Records
<1>2. IInv /\ RowsAllowed /\ [Next]_vars =>
        [\A r \in Records :
         /\ SQL!DispatchRowAllowed(by_id'[r])
         /\ \/ SQL!DispatchUpdateAllowed(by_id[r], by_id'[r])
            \/ /\ by_id[r].state = "claimed"
               /\ SQL!DispatchUpdateAllowed(by_id[r], Expired(by_id[r]))
               /\ SQL!DispatchUpdateAllowed(Expired(by_id[r]), by_id'[r])]_vars
  BY StepAccepted DEF Accepted
<1> QED  BY InitIInv, NextIInv, <1>1, <1>2, StepKeepsRows, PTL DEF Spec, DispatchGuardAccepts

=============================================================================
