--------------------------- MODULE AriOutboxProofs ---------------------------
(***************************************************************************)
(* What holds of AriOutbox for any events, partitions, materializers,      *)
(* budgets, delays and faults.                                             *)
(***************************************************************************)
EXTENDS AriOutbox, FiniteSetTheorems, TLAPS

\* Tokens are handed out in order, so that a new one is nobody's.
TokensBounded == \A e \in Event : event[e].claimToken <= claims

\* A claim has been counted as an attempt.
ClaimsCounted == \A e \in Event : event[e].status = "CLAIMED" => event[e].attemptCount > 0

\* What a materializer holds: a token and events once it has claimed, all of them committed,
\* and a snapshot of committed events that contains them.
HolderOK(w) ==
    LET m == materializer[w]
    IN  /\ m.pc \in {"claimed", "snapshot", "covered"} => m.token # 0 /\ m.batch # {}
        /\ \A e \in m.batch : Visible(e)
        /\ m.pc \in {"snapshot", "covered"} => /\ m.batch \subseteq m.snapshot
                                              /\ \A e \in m.snapshot : Visible(e)
Held == \A w \in Worker : HolderOK(w)

\* So that the place of a delivery in the queue is a number.
DeliveriesFinite == IsFiniteSet(delivery)

Inv == /\ TypeOK /\ DeliveriesFinite /\ TokensBounded /\ ClaimsCounted /\ Held
       /\ ClaimsConsistent /\ ResolvedOnce /\ DeadAfterLastAttempt /\ MergedIsInSnapshot

-----------------------------------------------------------------------------
(* Rows and batches.                                                       *)

LEMMA IdleType ==
    /\ Idle \in MaterializerState
    /\ Idle.pc = "idle" /\ Idle.token = 0 /\ Idle.batch = {}
BY DEF Idle, MaterializerState

LEMMA InitInv == Init => Inv
<1> SUFFICES ASSUME Init PROVE Inv
  OBVIOUS
<1>1. NoEvent \in EventRow
  BY OutboxAssumption DEF OutboxAssumption, NoEvent, EventRow, EventStatus
<1>2. TypeOK
  BY <1>1, IdleType, OutboxAssumption DEF Init, TypeOK, OutboxAssumption
<1>3. \A e \in Event : /\ event[e].status = "ABSENT" /\ event[e].claimToken = 0
                       /\ event[e].claimExpiresAt = 0 /\ event[e].deliveryId = 0
  BY DEF Init, NoEvent
<1>4. TokensBounded /\ ClaimsCounted /\ ClaimsConsistent
  BY <1>3 DEF Init, TokensBounded, ClaimsCounted, ClaimsConsistent
<1>5. Held
  BY IdleType DEF Init, Held, HolderOK
<1>6. ResolvedOnce /\ DeadAfterLastAttempt /\ MergedIsInSnapshot
  BY <1>3 DEF Init, ResolvedOnce, DeadAfterLastAttempt, MergedIsInSnapshot
<1>7. DeliveriesFinite
  BY FS_EmptySet DEF Init, DeliveriesFinite
<1> QED
  BY <1>2, <1>4, <1>5, <1>6, <1>7 DEF Inv

\* What giving a claim back makes of a row.
LEMMA Released ==
    ASSUME NEW row \in EventRow, NEW now \in Nat, row.attemptCount > 0
    PROVE  /\ ReleasedRow(row, now) \in EventRow
           /\ ReleasedRow(row, now).status =
                IF row.attemptCount < MaxAttempts THEN "PENDING" ELSE "DEAD"
           /\ ReleasedRow(row, now).claimToken = 0
           /\ ReleasedRow(row, now).claimExpiresAt = 0
           /\ ReleasedRow(row, now).deliveryId = row.deliveryId
           /\ ReleasedRow(row, now).attemptCount = row.attemptCount
           /\ row.attemptCount < MaxAttempts \/ row.attemptCount = MaxAttempts
<1>1. row.attemptCount \in 1..MaxAttempts
  BY OutboxAssumption DEF EventRow, OutboxAssumption
<1>2. now + RetryDelayMs[row.attemptCount] \in Nat
  BY <1>1, OutboxAssumption DEF OutboxAssumption
<1>3. CASE row.attemptCount >= MaxAttempts
  <2>1. row.attemptCount = MaxAttempts /\ ~(row.attemptCount < MaxAttempts)
    BY <1>1, <1>3, OutboxAssumption DEF OutboxAssumption
  <2> QED
    BY <1>3, <2>1 DEF ReleasedRow, EventRow, EventStatus
<1>4. CASE ~(row.attemptCount >= MaxAttempts)
  <2>1. row.attemptCount < MaxAttempts
    BY <1>1, <1>4, OutboxAssumption DEF OutboxAssumption
  <2> QED
    BY <1>2, <1>4, <2>1 DEF ReleasedRow, EventRow, EventStatus
<1> QED
  BY <1>3, <1>4

\* A batch holds ready events of one partition and one sync mode.
LEMMA Batches ==
    ASSUME NEW now, NEW seed \in ReadySeed(now)
    PROVE  /\ BatchOf(seed, now) \subseteq Event
           /\ \A e \in BatchOf(seed, now) :
                /\ Ready(e, now)
                /\ PartitionOf[e] = PartitionOf[seed]
                /\ (e \in FullSync) <=> (seed \in FullSync)
<1>1. seed \in Event /\ Ready(seed, now)
  BY DEF ReadySeed, FirstOf
<1> QED
  BY <1>1 DEF BatchOf, FirstOf

-----------------------------------------------------------------------------
(* What a step does to the rows: it produces an event, releases claims,    *)
(* claims a batch, creates a delivery, or leaves the rows alone.           *)

Produces ==
    \E e \in Event :
        /\ event[e].status \in {"ABSENT", "UNCOMMITTED"}
        /\ event'[e] \in EventRow /\ event'[e].status \in {"UNCOMMITTED", "PENDING"}
        /\ event'[e].claimToken = event[e].claimToken
        /\ event'[e].claimExpiresAt = event[e].claimExpiresAt
        /\ event'[e].deliveryId = event[e].deliveryId
        /\ event'[e].attemptCount = event[e].attemptCount
        /\ \A f \in Event \ {e} : event'[f] = event[f]

Releases ==
    \E R \in SUBSET Event, now \in Nat :
        /\ \A e \in R : event[e].status = "CLAIMED"
        /\ event' = [e \in Event |-> IF e \in R THEN ReleasedRow(event[e], now) ELSE event[e]]

Claims ==
    \E batch \in SUBSET Event :
        /\ \A e \in batch : event[e].status = "PENDING" /\ event[e].attemptCount < MaxAttempts
        /\ \A e, f \in batch : /\ PartitionOf[e] = PartitionOf[f]
                               /\ (e \in FullSync) <=> (f \in FullSync)
        /\ \A e \in batch : /\ event'[e].status = "CLAIMED"
                            /\ event'[e].claimToken = claims + 1
                            /\ event'[e].claimExpiresAt # 0
                            /\ event'[e].attemptCount > 0
                            /\ event'[e].attemptCount = event[e].attemptCount + 1
                            /\ event'[e].deliveryId = event[e].deliveryId
        /\ \A e \in Event \ batch : event'[e] = event[e]
        /\ claims' = claims + 1

Creates(w) ==
    LET m == materializer[w]
        d == [id |-> m.token, queuedAt |-> m.materializedAt, place |-> Cardinality(delivery) + 1,
              merged |-> m.batch, superseded |-> m.superseded, snapshot |-> m.snapshot]
    IN  /\ m.pc = "covered"
        /\ \A e \in m.batch : event[e].status = "CLAIMED" /\ event[e].claimToken = m.token
        /\ \A e \in m.superseded : event[e].status = "PENDING"
        /\ delivery' = delivery \cup {d}
        /\ \A e \in m.batch : event'[e].status = "MERGED"
        /\ \A e \in m.superseded : event'[e].status = "SUPERSEDED"
        /\ \A e \in m.batch \cup m.superseded : /\ event'[e].deliveryId = m.token
                                               /\ event'[e].claimToken = 0
                                               /\ event'[e].claimExpiresAt = 0
                                               /\ event'[e].attemptCount = event[e].attemptCount
        /\ \A e \in Event \ (m.batch \cup m.superseded) : event'[e] = event[e]

Rest == event' = event /\ delivery' = delivery /\ claims' = claims

\* What a step does to the materializers: only one of them moves.
Moves ==
    \/ materializer' = materializer
    \/ \E w \in Worker : /\ \A u \in Worker \ {w} : materializer'[u] = materializer[u]
                        /\ HolderOK(w)'

\* Every step is of one of these kinds, and keeps the types.
StepOfKind ==
    \/ Produces /\ delivery' = delivery /\ claims' = claims
    \/ Releases /\ delivery' = delivery /\ claims' = claims
    \/ Claims /\ delivery' = delivery
    \/ (\E w \in Worker : Creates(w)) /\ claims' = claims
    \/ Rest

LEMMA ProduceStep ==
    ASSUME TypeOK, NEW e \in Event, BeginChange(e) \/ CommitChange(e)
    PROVE  TypeOK' /\ StepOfKind /\ Moves
<1>1. CASE BeginChange(e)
  <2>1. PICK delayMs \in Nat :
          event' = [event EXCEPT ![e] = [@ EXCEPT !.status = "UNCOMMITTED", !.createdAt = clock,
                                                  !.availableAt = clock + delayMs]]
    BY <1>1, OutboxAssumption DEF BeginChange, OutboxAssumption
  <2>2. event[e] \in EventRow /\ clock \in Nat /\ clock + delayMs \in Nat
    BY DEF TypeOK
  <2>3. event'[e] = [event[e] EXCEPT !.status = "UNCOMMITTED", !.createdAt = clock,
                                     !.availableAt = clock + delayMs]
    BY <2>1 DEF TypeOK
  <2>4. /\ event'[e] \in EventRow /\ event'[e].status = "UNCOMMITTED"
        /\ event'[e].claimToken = event[e].claimToken
        /\ event'[e].claimExpiresAt = event[e].claimExpiresAt
        /\ event'[e].deliveryId = event[e].deliveryId
        /\ event'[e].attemptCount = event[e].attemptCount
    BY <2>2, <2>3 DEF EventRow, EventStatus
  <2>5. /\ event' \in [Event -> EventRow]
        /\ \A f \in Event \ {e} : event'[f] = event[f]
    BY <2>1, <2>3, <2>4 DEF TypeOK
  <2>6. Produces
    BY <1>1, <2>4, <2>5 DEF Produces, BeginChange
  <2> QED
    BY <1>1, <2>5, <2>6 DEF BeginChange, TypeOK, StepOfKind, Moves
<1>2. CASE CommitChange(e)
  <2>1. /\ event'[e] \in EventRow /\ event'[e].status = "PENDING"
        /\ event'[e].claimToken = event[e].claimToken
        /\ event'[e].claimExpiresAt = event[e].claimExpiresAt
        /\ event'[e].deliveryId = event[e].deliveryId
        /\ event'[e].attemptCount = event[e].attemptCount
    BY <1>2 DEF CommitChange, TypeOK, EventRow, EventStatus
  <2>2. /\ event' \in [Event -> EventRow]
        /\ \A f \in Event \ {e} : event'[f] = event[f]
    BY <1>2, <2>1 DEF CommitChange, TypeOK
  <2>3. Produces
    BY <1>2, <2>1, <2>2 DEF Produces, CommitChange
  <2> QED
    BY <1>2, <2>2, <2>3 DEF CommitChange, TypeOK, StepOfKind, Moves
<1> QED
  BY <1>1, <1>2

\* Rows that are released stay rows.
LEMMA ReleaseType ==
    ASSUME TypeOK, ClaimsCounted, Releases
    PROVE  event' \in [Event -> EventRow]
<1>1. PICK R \in SUBSET Event, now \in Nat :
        /\ \A e \in R : event[e].status = "CLAIMED"
        /\ event' = [e \in Event |-> IF e \in R THEN ReleasedRow(event[e], now) ELSE event[e]]
  BY DEF Releases
<1>2. \A e \in R : ReleasedRow(event[e], now) \in EventRow
  BY <1>1, Released DEF TypeOK, ClaimsCounted
<1> QED
  BY <1>1, <1>2 DEF TypeOK

\* What has been committed stays committed.
LEMMA VisibleStays ==
    ASSUME TypeOK, ClaimsCounted, StepOfKind, NEW e \in Event, Visible(e)
    PROVE  Visible(e)'
<1>1. CASE Produces
  BY <1>1 DEF Produces, Visible
<1>2. CASE Releases
  <2>1. PICK R \in SUBSET Event, now \in Nat :
          /\ \A f \in R : event[f].status = "CLAIMED"
          /\ event' = [f \in Event |-> IF f \in R THEN ReleasedRow(event[f], now) ELSE event[f]]
    BY <1>2 DEF Releases
  <2>2. CASE e \in R
    <3>1. /\ event'[e] = ReleasedRow(event[e], now)
          /\ event[e] \in EventRow /\ event[e].attemptCount > 0
      BY <2>1, <2>2 DEF TypeOK, ClaimsCounted
    <3> QED
      BY <3>1, Released DEF Visible
  <2>3. CASE e \notin R
    BY <2>1, <2>3 DEF Visible
  <2> QED
    BY <2>2, <2>3
<1>3. CASE Claims
  BY <1>3 DEF Claims, Visible
<1>4. CASE \E w \in Worker : Creates(w)
  <2>1. PICK w \in Worker : Creates(w)
    BY <1>4
  <2> QED
    BY <2>1 DEF Creates, Visible
<1>5. CASE Rest
  BY <1>5 DEF Rest, Visible
<1> QED
  BY <1>1, <1>2, <1>3, <1>4, <1>5 DEF StepOfKind

\* A materializer that becomes idle holds nothing.
LEMMA IdleMove ==
    ASSUME TypeOK, NEW w \in Worker, materializer' = [materializer EXCEPT ![w] = Idle]
    PROVE  Moves /\ materializer' \in [Worker -> MaterializerState]
<1>1. materializer'[w] = Idle /\ \A u \in Worker \ {w} : materializer'[u] = materializer[u]
  BY DEF TypeOK
<1>2. HolderOK(w)'
  BY <1>1, IdleType DEF HolderOK
<1> QED
  BY <1>1, <1>2, IdleType DEF Moves, TypeOK

\* A materializer that only goes on to a state in which it reads nothing keeps what it holds.
LEMMA PcMove ==
    ASSUME TypeOK, ClaimsCounted, Held, StepOfKind, NEW w \in Worker,
           NEW pc \in {"recovered", "failed"},
           materializer' = [materializer EXCEPT ![w].pc = pc]
    PROVE  Moves /\ materializer' \in [Worker -> MaterializerState]
<1>1. /\ materializer'[w].pc = pc /\ materializer'[w].batch = materializer[w].batch
      /\ materializer' \in [Worker -> MaterializerState]
      /\ \A u \in Worker \ {w} : materializer'[u] = materializer[u]
  BY DEF TypeOK, MaterializerState
<1>2. \A e \in materializer[w].batch : e \in Event /\ Visible(e)
  BY DEF Held, HolderOK, TypeOK, MaterializerState
<1>3. \A e \in materializer'[w].batch : Visible(e)'
  BY <1>1, <1>2, VisibleStays
<1>4. HolderOK(w)'
  BY <1>1, <1>3 DEF HolderOK
<1> QED
  BY <1>1, <1>4 DEF Moves

LEMMA RecoverStep ==
    ASSUME TypeOK, ClaimsCounted, Held, NEW w \in Worker, RecoverStaleClaims(w)
    PROVE  TypeOK' /\ StepOfKind /\ Moves
<1> DEFINE now == materializer[w].startedAt
           expired == {e \in Event : /\ event[e].status = "CLAIMED"
                                     /\ event[e].claimExpiresAt <= now}
           recovered == FirstOf(expired, ClaimLimit, ByExpiry)
<1>1. recovered \subseteq expired
  BY DEF FirstOf
<1>2. now \in Nat
  BY DEF TypeOK, MaterializerState
<1>3. /\ event' = [e \in Event |-> IF e \in recovered THEN ReleasedRow(event[e], now)
                                                       ELSE event[e]]
      /\ materializer' = [materializer EXCEPT ![w].pc = "recovered"]
      /\ UNCHANGED <<clock, delivery, claims, faults>>
  BY DEF RecoverStaleClaims
<1> HIDE DEF recovered, now
<1>4. Releases /\ StepOfKind
  BY <1>1, <1>2, <1>3 DEF Releases, StepOfKind
<1>5. Moves /\ materializer' \in [Worker -> MaterializerState]
  BY <1>3, <1>4, PcMove
<1> QED
  BY <1>3, <1>4, <1>5, ReleaseType DEF TypeOK

LEMMA FailStep ==
    ASSUME TypeOK, ClaimsCounted, NEW w \in Worker, FailClaimedBatch(w)
    PROVE  TypeOK' /\ StepOfKind /\ Moves
<1>1. /\ materializer[w].batch \in SUBSET Event /\ clock \in Nat
      /\ \A e \in materializer[w].batch : event[e].status = "CLAIMED"
  BY DEF FailClaimedBatch, MayFail, TypeOK, MaterializerState
<1>2. Releases
  BY <1>1 DEF Releases, FailClaimedBatch
<1>3. Moves /\ materializer' \in [Worker -> MaterializerState]
  BY IdleMove DEF FailClaimedBatch
<1> QED
  BY <1>2, <1>3, ReleaseType DEF FailClaimedBatch, TypeOK, StepOfKind

LEMMA ClaimStep ==
    ASSUME TypeOK, NEW w \in Worker, ClaimNextBatch(w)
    PROVE  TypeOK' /\ StepOfKind /\ Moves
<1>1. PICK seed \in ReadySeed(materializer[w].startedAt) :
        LET now == materializer[w].startedAt
            batch == BatchOf(seed, now)
        IN  /\ claims' = claims + 1 /\ batch # {}
            /\ event' = [e \in Event |->
                 IF e \in batch
                 THEN [event[e] EXCEPT !.status = "CLAIMED", !.attemptCount = @ + 1,
                                       !.claimToken = claims + 1, !.claimExpiresAt = ClaimExpiry(now)]
                 ELSE event[e]]
            /\ materializer' = [materializer EXCEPT ![w] =
                 [@ EXCEPT !.pc = "claimed", !.token = claims + 1, !.batch = batch]]
            /\ UNCHANGED <<clock, delivery, faults>>
  BY DEF ClaimNextBatch
<1>2. /\ materializer[w].startedAt \in Nat /\ claims \in Nat /\ claims + 1 \in Nat
      /\ materializer[w] \in MaterializerState
  BY DEF TypeOK, MaterializerState
<1>3. PICK batch \in (SUBSET Event) \ {{}}, expiry \in Nat \ {0} :
        /\ \A e \in batch : event[e].status = "PENDING" /\ event[e].attemptCount < MaxAttempts
        /\ \A e, f \in batch : /\ PartitionOf[e] = PartitionOf[f]
                               /\ (e \in FullSync) <=> (f \in FullSync)
        /\ event' = [e \in Event |->
             IF e \in batch
             THEN [event[e] EXCEPT !.status = "CLAIMED", !.attemptCount = @ + 1,
                                   !.claimToken = claims + 1, !.claimExpiresAt = expiry]
             ELSE event[e]]
        /\ materializer' = [materializer EXCEPT ![w] =
             [@ EXCEPT !.pc = "claimed", !.token = claims + 1, !.batch = batch]]
        /\ UNCHANGED <<clock, delivery, faults>> /\ claims' = claims + 1
  <2>1. ClaimExpiry(materializer[w].startedAt) \in Nat \ {0}
    BY <1>2, OutboxAssumption DEF ClaimExpiry, OutboxAssumption
  <2>2. /\ BatchOf(seed, materializer[w].startedAt) \in SUBSET Event
        /\ \A e \in BatchOf(seed, materializer[w].startedAt) :
             /\ event[e].status = "PENDING" /\ event[e].attemptCount < MaxAttempts
             /\ PartitionOf[e] = PartitionOf[seed]
             /\ (e \in FullSync) <=> (seed \in FullSync)
    BY Batches DEF Ready
  <2> QED
    BY <1>1, <2>1, <2>2, Zenon
<1>4. ASSUME NEW e \in batch
      PROVE  /\ event'[e] \in EventRow /\ event'[e].status = "CLAIMED"
             /\ event'[e].claimToken = claims + 1 /\ event'[e].claimExpiresAt # 0
             /\ event'[e].attemptCount = event[e].attemptCount + 1
             /\ event'[e].attemptCount > 0 /\ event'[e].deliveryId = event[e].deliveryId
  <2>1. e \in Event /\ event[e] \in EventRow /\ event[e].attemptCount < MaxAttempts
    BY <1>3 DEF TypeOK
  <2>2. PICK n \in 1..MaxAttempts : n = event[e].attemptCount + 1
    BY <2>1, OutboxAssumption DEF EventRow, OutboxAssumption
  <2>3. n \in 0..MaxAttempts /\ n > 0 /\ expiry \in Nat /\ expiry # 0
    BY <2>2, OutboxAssumption DEF OutboxAssumption
  <2>4. event'[e] = [event[e] EXCEPT !.status = "CLAIMED", !.attemptCount = n,
                                     !.claimToken = claims + 1, !.claimExpiresAt = expiry]
    BY <1>3, <2>1, <2>2 DEF EventRow
  <2>5. event'[e].attemptCount = n
    BY <2>1, <2>4 DEF EventRow
  <2> QED
    BY <1>2, <2>1, <2>2, <2>3, <2>4, <2>5 DEF EventRow, EventStatus
<1>5. \A e \in Event \ batch : event'[e] = event[e]
  BY <1>3
<1>6. event' \in [Event -> EventRow]
  <2>1. \A e \in Event : event'[e] \in EventRow
    BY <1>4, <1>5 DEF TypeOK
  <2>2. event' = [e \in Event |-> event'[e]]
    BY <1>3
  <2> QED
    BY <2>1, <2>2
<1>7. Claims
  BY <1>3, <1>4, <1>5 DEF Claims
<1>8. /\ materializer'[w] = [materializer[w] EXCEPT !.pc = "claimed", !.token = claims + 1,
                                                   !.batch = batch]
      /\ \A u \in Worker \ {w} : materializer'[u] = materializer[u]
  BY <1>3 DEF TypeOK
<1>9. /\ materializer'[w] \in MaterializerState
      /\ materializer'[w].pc = "claimed" /\ materializer'[w].token = claims + 1
      /\ materializer'[w].batch = batch
  <2>1. batch \in SUBSET Event
    OBVIOUS
  <2> QED
    BY <1>2, <1>8, <2>1 DEF MaterializerState
<1>10. HolderOK(w)'
  <2>1. claims + 1 # 0
    BY <1>2
  <2> QED
    BY <1>4, <1>9, <2>1 DEF HolderOK, Visible
<1>11. materializer' \in [Worker -> MaterializerState]
  BY <1>3, <1>9 DEF TypeOK
<1>12. StepOfKind /\ Moves
  BY <1>3, <1>7, <1>8, <1>10 DEF StepOfKind, Moves
<1> QED
  BY <1>2, <1>3, <1>6, <1>11, <1>12 DEF TypeOK

\* The row that event e gets once it is resolved with delivery `id'.
IsResolved(row, e, status, id) ==
    /\ row \in EventRow /\ row.status = status /\ row.deliveryId = id
    /\ row.claimToken = 0 /\ row.claimExpiresAt = 0
    /\ row.attemptCount = event[e].attemptCount

LEMMA ResolvedRow ==
    ASSUME NEW e \in Event, event[e] \in EventRow, NEW status \in EventStatus, NEW id \in Nat
    PROVE  IsResolved([event[e] EXCEPT !.status = status, !.deliveryId = id, !.claimToken = 0,
                                       !.claimExpiresAt = 0], e, status, id)
BY DEF IsResolved, EventRow

LEMMA CreateStep ==
    ASSUME TypeOK, DeliveriesFinite, NEW w \in Worker, CreateFencedDelivery(w)
    PROVE  TypeOK' /\ StepOfKind /\ Moves /\ DeliveriesFinite'
<1> DEFINE row(m) == [id |-> m.token, queuedAt |-> m.materializedAt,
                      place |-> Cardinality(delivery) + 1, merged |-> m.batch,
                      superseded |-> m.superseded, snapshot |-> m.snapshot]
           resolved(e, m) ==
             CASE e \in m.batch -> [event[e] EXCEPT !.status = "MERGED", !.deliveryId = m.token,
                                                    !.claimToken = 0, !.claimExpiresAt = 0]
               [] e \in m.superseded -> [event[e] EXCEPT !.status = "SUPERSEDED",
                                                         !.deliveryId = m.token,
                                                         !.claimToken = 0, !.claimExpiresAt = 0]
               [] OTHER -> event[e]
<1>1. /\ materializer[w].pc = "covered" /\ ClaimHolds(w) /\ StillPending(w)
      /\ delivery' = delivery \cup {row(materializer[w])}
      /\ event' = [e \in Event |-> resolved(e, materializer[w])]
      /\ materializer' = [materializer EXCEPT ![w] = Idle]
      /\ UNCHANGED <<clock, claims, faults>>
  BY DEF CreateFencedDelivery
<1>2. PICK m \in MaterializerState :
        /\ m = materializer[w] /\ m.pc = "covered" /\ ClaimHolds(w) /\ StillPending(w)
        /\ delivery' = delivery \cup {row(m)}
        /\ \A e \in Event : event'[e] = resolved(e, m)
        /\ event' = [e \in Event |-> event'[e]]
        /\ materializer' = [materializer EXCEPT ![w] = Idle]
        /\ UNCHANGED <<clock, claims, faults>>
  <2>1. materializer[w] \in MaterializerState
    BY DEF TypeOK
  <2> HIDE DEF row, resolved
  <2>2. event' = [e \in Event |-> event'[e]]
    BY <1>1
  <2>3. \A e \in Event : event'[e] = resolved(e, materializer[w])
    BY <1>1
  <2> QED
    BY <1>1, <2>1, <2>2, <2>3
<1>3. /\ m.token \in Nat /\ m.materializedAt \in Nat /\ m.batch \subseteq Event
      /\ m.superseded \subseteq Event /\ m.snapshot \subseteq Event
  BY DEF MaterializerState
<1>4. /\ \A e \in m.batch : event[e].status = "CLAIMED" /\ event[e].claimToken = m.token
      /\ \A e \in m.superseded : event[e].status = "PENDING"
  BY <1>2 DEF ClaimHolds, StillPending
<1>5. Cardinality(delivery) + 1 \in Nat
  BY FS_CardinalityType DEF DeliveriesFinite
<1>6. row(m) \in DeliveryRow
  BY <1>3, <1>5 DEF DeliveryRow
<1>7. DeliveriesFinite'
  BY <1>2, FS_AddElement DEF DeliveriesFinite
<1>8. m.token \in Nat
  BY <1>3
<1>9. ASSUME NEW e \in m.batch
      PROVE  IsResolved(event'[e], e, "MERGED", m.token)
  <2>1. e \in Event /\ event[e] \in EventRow /\ e \notin m.superseded
    BY <1>3, <1>4 DEF TypeOK
  <2>2. event'[e] = [event[e] EXCEPT !.status = "MERGED", !.deliveryId = m.token,
                                     !.claimToken = 0, !.claimExpiresAt = 0]
    BY <1>2, <2>1
  <2>3. "MERGED" \in EventStatus
    BY DEF EventStatus
  <2>4. IsResolved([event[e] EXCEPT !.status = "MERGED", !.deliveryId = m.token,
                                    !.claimToken = 0, !.claimExpiresAt = 0], e, "MERGED", m.token)
    BY <1>8, <2>1, <2>3, ResolvedRow, Zenon
  <2> QED
    BY <2>2, <2>4, Zenon
<1>10. ASSUME NEW e \in m.superseded
       PROVE  IsResolved(event'[e], e, "SUPERSEDED", m.token)
  <2>1. e \in Event /\ event[e] \in EventRow /\ e \notin m.batch
    BY <1>3, <1>4 DEF TypeOK
  <2>2. event'[e] = [event[e] EXCEPT !.status = "SUPERSEDED", !.deliveryId = m.token,
                                     !.claimToken = 0, !.claimExpiresAt = 0]
    BY <1>2, <2>1
  <2>3. "SUPERSEDED" \in EventStatus
    BY DEF EventStatus
  <2>4. IsResolved([event[e] EXCEPT !.status = "SUPERSEDED", !.deliveryId = m.token,
                                    !.claimToken = 0, !.claimExpiresAt = 0], e, "SUPERSEDED", m.token)
    BY <1>8, <2>1, <2>3, ResolvedRow, Zenon
  <2> QED
    BY <2>2, <2>4, Zenon
<1>11. \A e \in Event \ (m.batch \cup m.superseded) : event'[e] = event[e]
  BY <1>2
<1>12. event' \in [Event -> EventRow]
  <2>1. \A e \in Event : event'[e] \in EventRow
    BY <1>9, <1>10, <1>11 DEF TypeOK, IsResolved
  <2>2. event' = [e \in Event |-> event'[e]]
    BY <1>2
  <2> QED
    BY <2>1, <2>2
<1>13. Creates(w)
  <2>1. /\ \A e \in m.batch : event'[e].status = "MERGED"
        /\ \A e \in m.superseded : event'[e].status = "SUPERSEDED"
        /\ \A e \in m.batch \cup m.superseded : /\ event'[e].deliveryId = m.token
                                               /\ event'[e].claimToken = 0
                                               /\ event'[e].claimExpiresAt = 0
                                               /\ event'[e].attemptCount = event[e].attemptCount
    BY <1>9, <1>10 DEF IsResolved
  <2>2. m = materializer[w] /\ m.pc = "covered" /\ delivery' = delivery \cup {row(m)}
    BY <1>2
  <2> QED
    BY <1>4, <1>11, <2>1, <2>2 DEF Creates
<1>14. Moves /\ materializer' \in [Worker -> MaterializerState]
  BY <1>2, IdleMove
<1>15. delivery' \subseteq DeliveryRow
  BY <1>2, <1>6 DEF TypeOK
<1> QED
  BY <1>2, <1>7, <1>12, <1>13, <1>14, <1>15 DEF TypeOK, StepOfKind

LEMMA StartStep ==
    ASSUME TypeOK, NEW w \in Worker, StartCycle(w)
    PROVE  TypeOK' /\ StepOfKind /\ Moves
<1>1. PICK idle \in MaterializerState : idle = Idle /\ idle.batch = {}
  BY IdleType
<1>2. clock \in Nat
  BY DEF TypeOK
<1>3. /\ materializer'[w] = [idle EXCEPT !.pc = "started", !.startedAt = clock]
      /\ \A u \in Worker \ {w} : materializer'[u] = materializer[u]
      /\ materializer' = [u \in Worker |-> materializer'[u]]
  BY <1>1 DEF StartCycle, TypeOK
<1>4. /\ materializer'[w] \in MaterializerState
      /\ materializer'[w].pc = "started" /\ materializer'[w].batch = {}
  BY <1>1, <1>2, <1>3 DEF MaterializerState
<1>5. materializer' \in [Worker -> MaterializerState]
  <2>1. \A u \in Worker : materializer'[u] \in MaterializerState
    BY <1>3, <1>4 DEF TypeOK
  <2> QED
    BY <1>3, <2>1
<1>6. HolderOK(w)'
  BY <1>4 DEF HolderOK
<1> QED
  BY <1>3, <1>5, <1>6 DEF StartCycle, TypeOK, StepOfKind, Rest, Moves

\* The snapshot is read of the batch's own partitions, so that it holds the batch.
LEMMA SnapshotStep ==
    ASSUME TypeOK, Held, NEW w \in Worker, ReadSnapshot(w)
    PROVE  TypeOK' /\ StepOfKind /\ Moves
<1>1. PICK m \in MaterializerState : m = materializer[w]
  BY DEF TypeOK
<1>2. /\ m.batch \subseteq Event /\ m.batch # {} /\ m.token # 0
      /\ \A e \in m.batch : Visible(e)
  BY <1>1 DEF ReadSnapshot, Held, HolderOK, MaterializerState
<1>3. PICK snapshot \in SUBSET Event : snapshot = SnapshotOf(w)
  BY DEF SnapshotOf
<1>4. m.batch \subseteq snapshot /\ \A e \in snapshot : Visible(e)
  BY <1>1, <1>2, <1>3 DEF SnapshotOf
<1>5. /\ materializer'[w] = [m EXCEPT !.pc = "snapshot", !.snapshot = snapshot]
      /\ \A u \in Worker \ {w} : materializer'[u] = materializer[u]
      /\ materializer' = [u \in Worker |-> materializer'[u]]
  BY <1>1, <1>3 DEF ReadSnapshot, TypeOK
<1>6. /\ materializer'[w] \in MaterializerState /\ materializer'[w].token = m.token
      /\ materializer'[w].batch = m.batch /\ materializer'[w].snapshot = snapshot
  BY <1>5 DEF MaterializerState
<1>7. materializer' \in [Worker -> MaterializerState]
  <2>1. \A u \in Worker : materializer'[u] \in MaterializerState
    BY <1>5, <1>6 DEF TypeOK
  <2> QED
    BY <1>5, <2>1
<1>8. event' = event
  BY DEF ReadSnapshot
<1>9. HolderOK(w)'
  BY <1>2, <1>4, <1>6, <1>8 DEF HolderOK, Visible
<1> QED
  BY <1>5, <1>7, <1>9 DEF ReadSnapshot, TypeOK, StepOfKind, Rest, Moves

LEMMA CoveredStep ==
    ASSUME TypeOK, Held, NEW w \in Worker, ReadCovered(w)
    PROVE  TypeOK' /\ StepOfKind /\ Moves
<1>1. PICK m \in MaterializerState : m = materializer[w]
  BY DEF TypeOK
<1>2. /\ m.batch \subseteq m.snapshot /\ m.batch # {} /\ m.token # 0
      /\ \A e \in m.batch \cup m.snapshot : Visible(e)
  BY <1>1 DEF ReadCovered, Held, HolderOK
<1>3. PICK superseded \in SUBSET Event : superseded = CoveredPendingIncrementals(w)
  BY OutboxAssumption DEF CoveredPendingIncrementals, OutboxAssumption
<1>4. clock \in Nat
  BY DEF TypeOK
<1>5. /\ materializer'[w] = [m EXCEPT !.pc = "covered", !.superseded = superseded,
                                      !.materializedAt = clock]
      /\ \A u \in Worker \ {w} : materializer'[u] = materializer[u]
      /\ materializer' = [u \in Worker |-> materializer'[u]]
  BY <1>1, <1>3 DEF ReadCovered, TypeOK
<1>6. /\ materializer'[w] \in MaterializerState /\ materializer'[w].token = m.token
      /\ materializer'[w].batch = m.batch /\ materializer'[w].snapshot = m.snapshot
  BY <1>4, <1>5 DEF MaterializerState
<1>7. materializer' \in [Worker -> MaterializerState]
  <2>1. \A u \in Worker : materializer'[u] \in MaterializerState
    BY <1>5, <1>6 DEF TypeOK
  <2> QED
    BY <1>5, <2>1
<1>8. event' = event
  BY DEF ReadCovered
<1>9. HolderOK(w)'
  BY <1>2, <1>6, <1>8 DEF HolderOK, Visible
<1> QED
  BY <1>5, <1>7, <1>9 DEF ReadCovered, TypeOK, StepOfKind, Rest, Moves

\* Steps that end a cycle without touching a row.
LEMMA EndStep ==
    ASSUME TypeOK, NEW w \in Worker,
           ClaimsNothing(w) \/ DeliveryReused(w) \/ ReleaseFails(w) \/ Crash(w)
    PROVE  TypeOK' /\ StepOfKind /\ Moves
<1>1. /\ materializer' = [materializer EXCEPT ![w] = Idle]
      /\ UNCHANGED <<clock, event, delivery, claims>>
  BY DEF ClaimsNothing, DeliveryReused, ReleaseFails, Crash
<1>2. faults' \in 0..MaxFaults
  BY OutboxAssumption DEF ClaimsNothing, DeliveryReused, ReleaseFails, Crash, TypeOK,
                          OutboxAssumption
<1> QED
  BY <1>1, <1>2, IdleMove DEF TypeOK, StepOfKind, Rest

LEMMA FailureStep ==
    ASSUME TypeOK, ClaimsCounted, Held, NEW w \in Worker,
           DeliveryRejected(w) \/ MaterializationFails(w)
    PROVE  TypeOK' /\ StepOfKind /\ Moves
<1>1. /\ materializer' = [materializer EXCEPT ![w].pc = "failed"]
      /\ UNCHANGED <<clock, event, delivery, claims>>
  BY DEF DeliveryRejected, MaterializationFails
<1>2. faults' \in 0..MaxFaults
  BY OutboxAssumption DEF DeliveryRejected, MaterializationFails, TypeOK, OutboxAssumption
<1>3. StepOfKind
  BY <1>1 DEF StepOfKind, Rest
<1> QED
  BY <1>1, <1>2, <1>3, PcMove DEF TypeOK

\* Every step.
LEMMA StepKinds ==
    ASSUME TypeOK, DeliveriesFinite, ClaimsCounted, Held, [Next]_vars
    PROVE  TypeOK' /\ DeliveriesFinite' /\ StepOfKind /\ Moves
<1>1. ASSUME NEW e \in Event, BeginChange(e) \/ CommitChange(e)
      PROVE  TypeOK' /\ StepOfKind /\ Moves /\ delivery' = delivery
  BY <1>1, ProduceStep DEF BeginChange, CommitChange
<1>2. ASSUME NEW w \in Worker, MaterializeStep(w) \/ MaterializationFails(w) \/ Crash(w),
             ~CreateFencedDelivery(w)
      PROVE  TypeOK' /\ StepOfKind /\ Moves /\ delivery' = delivery
  <2>1. CASE StartCycle(w)
    BY <2>1, StartStep DEF StartCycle
  <2>2. CASE RecoverStaleClaims(w)
    BY <2>2, RecoverStep DEF RecoverStaleClaims
  <2>3. CASE ClaimNextBatch(w)
    BY <2>3, ClaimStep DEF ClaimNextBatch
  <2>4. CASE ReadSnapshot(w)
    BY <2>4, SnapshotStep DEF ReadSnapshot
  <2>5. CASE ReadCovered(w)
    BY <2>5, CoveredStep DEF ReadCovered
  <2>6. CASE FailClaimedBatch(w)
    BY <2>6, FailStep DEF FailClaimedBatch
  <2>7. CASE ClaimsNothing(w) \/ DeliveryReused(w) \/ ReleaseFails(w) \/ Crash(w)
    BY <2>7, EndStep DEF ClaimsNothing, DeliveryReused, ReleaseFails, Crash
  <2>8. CASE DeliveryRejected(w) \/ MaterializationFails(w)
    BY <2>8, FailureStep DEF DeliveryRejected, MaterializationFails
  <2> QED
    BY <1>2, <2>1, <2>2, <2>3, <2>4, <2>5, <2>6, <2>7, <2>8 DEF MaterializeStep
<1>3. ASSUME Tick \/ UNCHANGED vars
      PROVE  TypeOK' /\ StepOfKind /\ Moves /\ delivery' = delivery
  BY <1>3 DEF Tick, vars, TypeOK, StepOfKind, Rest, Moves
<1>4. ASSUME NEW w \in Worker, CreateFencedDelivery(w)
      PROVE  TypeOK' /\ DeliveriesFinite' /\ StepOfKind /\ Moves
  BY <1>4, CreateStep
<1>5. CASE delivery' = delivery
  <2>1. DeliveriesFinite'
    BY <1>5 DEF DeliveriesFinite
  <2> QED
    BY <1>1, <1>2, <1>3, <1>4, <2>1 DEF Next
<1> QED
  BY <1>1, <1>2, <1>3, <1>4, <1>5 DEF Next

-----------------------------------------------------------------------------
(* Every kind of step preserves the parts of the invariant.                *)

\* Row by row, what giving claims back does.
LEMMA ReleasedRows ==
    ASSUME TypeOK, ClaimsCounted, Releases, NEW e \in Event
    PROVE  \/ event'[e] = event[e]
           \/ /\ event[e].status = "CLAIMED"
              /\ event'[e].status =
                   IF event[e].attemptCount < MaxAttempts THEN "PENDING" ELSE "DEAD"
              /\ event'[e].claimToken = 0 /\ event'[e].claimExpiresAt = 0
              /\ event'[e].deliveryId = event[e].deliveryId
              /\ event'[e].attemptCount = event[e].attemptCount
              /\ event[e].attemptCount < MaxAttempts \/ event[e].attemptCount = MaxAttempts
<1>1. PICK R \in SUBSET Event, now \in Nat :
        /\ \A f \in R : event[f].status = "CLAIMED"
        /\ event' = [f \in Event |-> IF f \in R THEN ReleasedRow(event[f], now) ELSE event[f]]
  BY DEF Releases
<1>2. CASE e \in R
  <2>1. /\ event'[e] = ReleasedRow(event[e], now) /\ event[e].status = "CLAIMED"
        /\ event[e] \in EventRow /\ event[e].attemptCount > 0
    BY <1>1, <1>2 DEF TypeOK, ClaimsCounted
  <2> QED
    BY <2>1, Released
<1>3. CASE e \notin R
  BY <1>1, <1>3
<1> QED
  BY <1>2, <1>3

LEMMA HeldStep ==
    ASSUME TypeOK, ClaimsCounted, Held, StepOfKind, Moves
    PROVE  Held'
<1> SUFFICES ASSUME NEW w \in Worker PROVE HolderOK(w)'
  BY DEF Held
<1>1. CASE materializer'[w] = materializer[w]
  <2>1. \A e \in materializer[w].batch \cup materializer[w].snapshot :
          e \in Event /\ (Visible(e) => Visible(e)')
    BY VisibleStays DEF TypeOK, MaterializerState
  <2> QED
    BY <1>1, <2>1 DEF Held, HolderOK
<1>2. CASE materializer'[w] # materializer[w]
  BY <1>2 DEF Moves
<1> QED
  BY <1>1, <1>2

LEMMA CountsStep ==
    ASSUME TypeOK, TokensBounded, ClaimsCounted, StepOfKind
    PROVE  TokensBounded' /\ ClaimsCounted'
<1>1. claims \in Nat /\ \A e \in Event : event[e].claimToken \in Nat
  BY DEF TypeOK, EventRow
<1>2. CASE Produces /\ claims' = claims
  BY <1>1, <1>2 DEF Produces, TokensBounded, ClaimsCounted
<1>3. CASE Releases /\ claims' = claims
  BY <1>1, <1>3, ReleasedRows DEF TokensBounded, ClaimsCounted
<1>4. CASE Claims
  BY <1>1, <1>4 DEF Claims, TokensBounded, ClaimsCounted
<1>5. CASE (\E w \in Worker : Creates(w)) /\ claims' = claims
  <2>1. PICK w \in Worker : Creates(w)
    BY <1>5
  <2> QED
    BY <1>1, <1>5, <2>1 DEF Creates, TokensBounded, ClaimsCounted
<1>6. CASE Rest
  BY <1>6 DEF Rest, TokensBounded, ClaimsCounted
<1> QED
  BY <1>2, <1>3, <1>4, <1>5, <1>6 DEF StepOfKind

LEMMA ConsistentStep ==
    ASSUME TypeOK, TokensBounded, ClaimsCounted, ClaimsConsistent, StepOfKind
    PROVE  ClaimsConsistent'
<1>1. claims \in Nat /\ \A e \in Event : event[e].claimToken \in Nat
  BY DEF TypeOK, EventRow
<1>2. CASE Produces
  BY <1>2 DEF Produces, ClaimsConsistent
<1>3. CASE Releases
  BY <1>3, ReleasedRows DEF ClaimsConsistent
<1>4. CASE Claims
  <2>1. claims + 1 # 0 /\ \A e \in Event : event[e].claimToken # claims + 1
    BY <1>1 DEF TokensBounded
  <2> QED
    BY <1>4, <2>1 DEF Claims, ClaimsConsistent
<1>5. CASE \E w \in Worker : Creates(w)
  <2>1. PICK w \in Worker : Creates(w)
    BY <1>5
  <2> QED
    BY <2>1 DEF Creates, ClaimsConsistent
<1>6. CASE Rest
  BY <1>6 DEF Rest, ClaimsConsistent
<1> QED
  BY <1>2, <1>3, <1>4, <1>5, <1>6 DEF StepOfKind

\* A step after which no event is resolved that was not keeps deliveries and rows in agreement.
LEMMA NothingResolved ==
    ASSUME TypeOK, ResolvedOnce, delivery' = delivery,
           \A e \in Event :
              /\ event'[e].deliveryId = event[e].deliveryId
              /\ (event'[e].status = "MERGED") <=> (event[e].status = "MERGED")
              /\ (event'[e].status = "SUPERSEDED") <=> (event[e].status = "SUPERSEDED")
    PROVE  ResolvedOnce'
<1>1. \A d \in delivery : d.merged \cup d.superseded \subseteq Event
  BY DEF TypeOK, DeliveryRow
<1> QED
  BY <1>1 DEF ResolvedOnce

LEMMA ResolvedStep ==
    ASSUME TypeOK, ClaimsCounted, Held, ResolvedOnce, StepOfKind
    PROVE  ResolvedOnce'
<1>1. CASE Produces /\ delivery' = delivery
  BY <1>1, NothingResolved DEF Produces
<1>2. CASE Releases /\ delivery' = delivery
  BY <1>2, ReleasedRows, NothingResolved
<1>3. CASE Claims /\ delivery' = delivery
  BY <1>3, NothingResolved DEF Claims
<1>4. ASSUME NEW w \in Worker, Creates(w)
      PROVE  ResolvedOnce'
  <2>1. PICK m \in MaterializerState : m = materializer[w]
    BY DEF TypeOK
  <2>2. PICK d : /\ d.id = m.token /\ d.merged = m.batch /\ d.superseded = m.superseded
                 /\ delivery' = delivery \cup {d}
    BY <1>4, <2>1 DEF Creates
  <2>3. m.token # 0 /\ m.batch \subseteq Event /\ m.superseded \subseteq Event
    BY <1>4, <2>1 DEF Creates, Held, HolderOK, MaterializerState
  <2>4. /\ \A e \in m.batch : event[e].status = "CLAIMED" /\ event'[e].status = "MERGED"
        /\ \A e \in m.superseded : /\ event[e].status = "PENDING"
                                    /\ event'[e].status = "SUPERSEDED"
        /\ \A e \in m.batch \cup m.superseded : event'[e].deliveryId = m.token
        /\ \A e \in Event \ (m.batch \cup m.superseded) : event'[e] = event[e]
    BY <1>4, <2>1 DEF Creates
  <2>5. ASSUME NEW e \in Event
        PROVE  /\ (event'[e].status = "MERGED") <=> (\E c \in delivery' : e \in c.merged)
               /\ (event'[e].status = "SUPERSEDED") <=>
                    (\E c \in delivery' : e \in c.superseded)
               /\ event'[e].deliveryId # 0 <=> event'[e].status \in {"MERGED", "SUPERSEDED"}
    <3>1. CASE e \in m.batch
      BY <2>2, <2>3, <2>4, <3>1 DEF ResolvedOnce
    <3>2. CASE e \in m.superseded
      BY <2>2, <2>3, <2>4, <3>2 DEF ResolvedOnce
    <3>3. CASE e \notin m.batch \cup m.superseded
      BY <2>2, <2>4, <3>3 DEF ResolvedOnce
    <3> QED
      BY <3>1, <3>2, <3>3
  <2>6. ASSUME NEW c \in delivery', NEW e \in c.merged \cup c.superseded
        PROVE  event'[e].deliveryId = c.id
    <3>1. CASE c = d
      BY <2>2, <2>4, <3>1
    <3>2. CASE c \in delivery
      <4>1. e \in Event
        BY <3>2 DEF TypeOK, DeliveryRow
      <4>2. event[e].status \in {"MERGED", "SUPERSEDED"} /\ event[e].deliveryId = c.id
        BY <3>2, <4>1 DEF ResolvedOnce
      <4>3. e \notin m.batch \cup m.superseded
        BY <2>4, <4>2
      <4> QED
        BY <2>4, <4>1, <4>2, <4>3
    <3> QED
      BY <2>2, <3>1, <3>2
  <2> QED
    BY <2>5, <2>6 DEF ResolvedOnce
<1>5. CASE Rest
  BY <1>5 DEF Rest, ResolvedOnce
<1> QED
  BY <1>1, <1>2, <1>3, <1>4, <1>5 DEF StepOfKind

LEMMA DeadStep ==
    ASSUME TypeOK, ClaimsCounted, DeadAfterLastAttempt, StepOfKind
    PROVE  DeadAfterLastAttempt'
<1>1. CASE Produces
  BY <1>1 DEF Produces, DeadAfterLastAttempt
<1>2. CASE Releases
  BY <1>2, ReleasedRows DEF DeadAfterLastAttempt
<1>3. CASE Claims
  BY <1>3 DEF Claims, DeadAfterLastAttempt
<1>4. CASE \E w \in Worker : Creates(w)
  <2>1. PICK w \in Worker : Creates(w)
    BY <1>4
  <2> QED
    BY <2>1 DEF Creates, DeadAfterLastAttempt
<1>5. CASE Rest
  BY <1>5 DEF Rest, DeadAfterLastAttempt
<1> QED
  BY <1>1, <1>2, <1>3, <1>4, <1>5 DEF StepOfKind

LEMMA SnapshotKept ==
    ASSUME Held, MergedIsInSnapshot, StepOfKind
    PROVE  MergedIsInSnapshot'
<1>1. CASE delivery' = delivery
  BY <1>1 DEF MergedIsInSnapshot
<1>2. ASSUME NEW w \in Worker, Creates(w)
      PROVE  MergedIsInSnapshot'
  BY <1>2 DEF Creates, Held, HolderOK, MergedIsInSnapshot
<1> QED
  BY <1>1, <1>2 DEF StepOfKind, Rest

LEMMA NextInv ==
    ASSUME Inv, [Next]_vars
    PROVE  Inv'
<1>1. TypeOK' /\ DeliveriesFinite' /\ StepOfKind /\ Moves
  BY StepKinds DEF Inv
<1>2. Held' /\ TokensBounded' /\ ClaimsCounted' /\ ClaimsConsistent'
  BY <1>1, HeldStep, CountsStep, ConsistentStep DEF Inv
<1>3. ResolvedOnce' /\ DeadAfterLastAttempt' /\ MergedIsInSnapshot'
  BY <1>1, ResolvedStep, DeadStep, SnapshotKept DEF Inv
<1> QED
  BY <1>1, <1>2, <1>3 DEF Inv

LEMMA Invariance == Spec => []Inv
<1>1. Inv /\ [Next]_vars => Inv'
  BY NextInv
<1> QED
  BY <1>1, InitInv, PTL DEF Spec

-----------------------------------------------------------------------------
(* The theorems.                                                           *)

\* Rows, deliveries and materializers keep their types: no null instant is read as a
\* time and no attempt is counted past the maximum.
THEOREM Types == Spec => []TypeOK
<1>1. Inv => TypeOK
  BY DEF Inv
<1> QED
  BY <1>1, Invariance, PTL

\* claimNextBatch's tokens: a CLAIMED row has a token and an expiry and no other row has
\* either, and a token covers one partition and one sync mode.
THEOREM TokensAgree == Spec => []ClaimsConsistent
<1>1. Inv => ClaimsConsistent
  BY DEF Inv
<1> QED
  BY <1>1, Invariance, PTL

\* createFencedDelivery: no event is in two deliveries, and its row and the delivery name
\* each other, however claims expire, are recovered and are taken again.
THEOREM OneDelivery == Spec => []ResolvedOnce
<1>1. Inv => ResolvedOnce
  BY DEF Inv
<1> QED
  BY <1>1, Invariance, PTL

\* An event is DEAD only once its last permitted attempt was spent.
THEOREM DeadLast == Spec => []DeadAfterLastAttempt
<1>1. Inv => DeadAfterLastAttempt
  BY DEF Inv
<1> QED
  BY <1>1, Invariance, PTL

\* The snapshot a delivery carries was read after the changes it was made for were committed.
THEOREM MergedSeen == Spec => []MergedIsInSnapshot
<1>1. Inv => MergedIsInSnapshot
  BY DEF Inv
<1> QED
  BY <1>1, Invariance, PTL

\* An event is merged only under the claim its row still carries: the token fence of
\* createFencedDelivery.
THEOREM Fenced == Spec => FencedMaterialization
<1>1. ASSUME Inv, [Next]_vars
      PROVE  [\A e \in Event :
                event[e].status # "MERGED" /\ event'[e].status = "MERGED" =>
                   event[e].status = "CLAIMED" /\ event[e].claimToken = event'[e].deliveryId]_vars
  <2> SUFFICES ASSUME NEW e \in Event, event[e].status # "MERGED", event'[e].status = "MERGED"
               PROVE  event[e].status = "CLAIMED" /\ event[e].claimToken = event'[e].deliveryId
    OBVIOUS
  <2>1. StepOfKind
    BY <1>1, StepKinds DEF Inv
  <2>2. ~(Produces \/ Claims \/ Rest)
    BY DEF Produces, Claims, Rest
  <2>3. ~Releases
    BY <1>1, ReleasedRows DEF Inv
  <2>4. PICK w \in Worker : Creates(w)
    BY <2>1, <2>2, <2>3 DEF StepOfKind
  <2> QED
    BY <2>4 DEF Creates
<1> QED
  BY <1>1, Invariance, PTL DEF Spec, FencedMaterialization

-----------------------------------------------------------------------------
(* The refinement: what the steps are to ChangeOutbox.                     *)

OutState == [e \in Event |-> OutboxState(e)]
OutTries == [e \in Event |-> event[e].attemptCount]
OutMessages == {Message(d) : d \in delivery}

LEMMA OutInit == Init => Outbox!OutboxInit
<1> SUFFICES ASSUME Init PROVE Outbox!OutboxInit
  OBVIOUS
<1>1. \A e \in Event : OutboxState(e) = "NONE" /\ event[e].attemptCount = 0
  BY DEF Init, NoEvent, OutboxState, Visible
<1>2. delivery = {}
  BY DEF Init
<1> QED
  BY <1>1, <1>2 DEF Outbox!OutboxInit

\* The state of a change is its row's status once it is committed.
LEMMA OutStates ==
    ASSUME TypeOK, NEW e \in Event
    PROVE  /\ event[e].status \in Resolved \cup {"PENDING", "CLAIMED"} =>
                OutboxState(e) = event[e].status
           /\ event[e].status \in {"ABSENT", "UNCOMMITTED"} => OutboxState(e) = "NONE"
           /\ Visible(e) => OutboxState(e) # "NONE"
BY DEF TypeOK, EventRow, EventStatus, OutboxState, Visible, Resolved

\* Deliveries and rows that do not change leave the outbox as it is.
LEMMA OutSame ==
    ASSUME event' = event, delivery' = delivery
    PROVE  UNCHANGED Outbox!outboxVars
<1>1. OutState' = OutState /\ OutTries' = OutTries /\ OutMessages' = OutMessages
  BY DEF OutState, OutTries, OutMessages, OutboxState, Visible, Message
<1> QED
  BY <1>1 DEF Outbox!outboxVars, OutState, OutTries, OutMessages

LEMMA OutProduces ==
    ASSUME TypeOK, TypeOK', Produces, delivery' = delivery
    PROVE  [Outbox!OutboxNext]_(Outbox!outboxVars)
<1>1. PICK e \in Event :
        /\ event[e].status \in {"ABSENT", "UNCOMMITTED"}
        /\ event'[e].status \in {"UNCOMMITTED", "PENDING"}
        /\ event'[e].attemptCount = event[e].attemptCount
        /\ \A f \in Event \ {e} : event'[f] = event[f]
  BY DEF Produces
<1>2. \A f \in Event \ {e} : OutboxState(f)' = OutboxState(f)
  BY <1>1 DEF OutboxState, Visible
<1>3. OutboxState(e) = "NONE" /\ OutboxState(e)' \in {"NONE", "PENDING"}
  BY <1>1 DEF OutboxState, Visible
<1>4. OutTries' = OutTries /\ OutMessages' = OutMessages
  BY <1>1 DEF OutTries, OutMessages, Message
<1>5. CASE OutboxState(e)' = "NONE"
  <2>1. OutState' = OutState
    BY <1>2, <1>3, <1>5 DEF OutState
  <2> QED
    BY <1>4, <2>1 DEF Outbox!outboxVars, OutState, OutTries, OutMessages
<1>6. CASE OutboxState(e)' = "PENDING"
  <2>1. Outbox!Commit(e)
    BY <1>2, <1>3, <1>4, <1>6
    DEF Outbox!Commit, Outbox!Becomes, OutTries, OutMessages
  <2> QED
    BY <2>1 DEF Outbox!OutboxNext
<1> QED
  BY <1>3, <1>5, <1>6

LEMMA OutReleases ==
    ASSUME TypeOK, ClaimsCounted, TypeOK', Releases, delivery' = delivery
    PROVE  Outbox!OutboxNext
<1>1. PICK R \in SUBSET Event :
        R = {e \in Event : event[e].status = "CLAIMED" /\ event'[e].status # "CLAIMED"}
  OBVIOUS
<1>2. \A e \in Event : event'[e].attemptCount = event[e].attemptCount
  BY ReleasedRows
<1>3. ASSUME NEW e \in R
      PROVE  /\ OutboxState(e) = "CLAIMED"
             /\ OutboxState(e)' = IF event[e].attemptCount < MaxAttempts THEN "PENDING"
                                  ELSE "DEAD"
  BY <1>1, <1>3, ReleasedRows DEF OutboxState, Visible
<1>4. ASSUME NEW e \in Event \ R
      PROVE  OutboxState(e)' = OutboxState(e)
  BY <1>1, <1>4, ReleasedRows DEF OutboxState, Visible
<1>5. OutMessages' = OutMessages
  BY DEF OutMessages, Message
<1>6. Outbox!GiveBack(R)
  BY <1>1, <1>2, <1>3, <1>4, <1>5 DEF Outbox!GiveBack, Outbox!Are, OutMessages
<1> QED
  BY <1>6 DEF Outbox!OutboxNext

LEMMA OutClaims ==
    ASSUME TypeOK, TypeOK', Claims, delivery' = delivery
    PROVE  Outbox!OutboxNext
<1>1. PICK batch \in SUBSET Event :
        /\ \A e \in batch : /\ event[e].status = "PENDING"
                            /\ event[e].attemptCount < MaxAttempts
                            /\ event'[e].status = "CLAIMED"
                            /\ event'[e].attemptCount = event[e].attemptCount + 1
        /\ \A e \in Event \ batch : event'[e] = event[e]
  BY DEF Claims
<1>2. \A e \in batch : OutboxState(e) = "PENDING" /\ OutboxState(e)' = "CLAIMED"
  BY <1>1 DEF OutboxState, Visible
<1>3. \A e \in Event \ batch : OutboxState(e)' = OutboxState(e)
  BY <1>1 DEF OutboxState, Visible
<1>4. OutMessages' = OutMessages
  BY DEF OutMessages, Message
<1>5. Outbox!Claim(batch)
  BY <1>1, <1>2, <1>3, <1>4 DEF Outbox!Claim, Outbox!Are, Outbox!Becomes, OutMessages
<1> QED
  BY <1>5 DEF Outbox!OutboxNext

LEMMA OutCreates ==
    ASSUME TypeOK, Held, TypeOK', NEW w \in Worker, Creates(w)
    PROVE  Outbox!OutboxNext
<1>1. PICK m \in MaterializerState : m = materializer[w]
  BY DEF TypeOK
<1>2. PICK d : /\ d.merged = m.batch /\ d.superseded = m.superseded /\ d.snapshot = m.snapshot
               /\ delivery' = delivery \cup {d}
  BY <1>1 DEF Creates
<1>3. /\ m.batch # {} /\ m.batch \subseteq m.snapshot
      /\ \A e \in m.snapshot : Visible(e)
  BY <1>1 DEF Creates, Held, HolderOK
<1>4. /\ m.batch \subseteq Event /\ m.superseded \subseteq Event /\ m.snapshot \subseteq Event
  BY DEF MaterializerState
<1>5. /\ \A e \in m.batch : event[e].status = "CLAIMED" /\ event'[e].status = "MERGED"
      /\ \A e \in m.superseded : event[e].status = "PENDING" /\ event'[e].status = "SUPERSEDED"
      /\ \A e \in m.batch \cup m.superseded : event'[e].attemptCount = event[e].attemptCount
      /\ \A e \in Event \ (m.batch \cup m.superseded) : event'[e] = event[e]
  BY <1>1 DEF Creates
<1>6. \A e \in m.batch : OutboxState(e) = "CLAIMED" /\ OutboxState(e)' = "MERGED"
  BY <1>5 DEF OutboxState, Visible
<1>7. \A e \in m.superseded : OutboxState(e) = "PENDING" /\ OutboxState(e)' = "SUPERSEDED"
  BY <1>5 DEF OutboxState, Visible
<1>8. \A e \in Event \ (m.batch \cup m.superseded) : OutboxState(e)' = OutboxState(e)
  BY <1>5 DEF OutboxState, Visible
<1>9. \A e \in m.snapshot : OutboxState(e) # "NONE"
  BY <1>3, <1>4, OutStates
<1>10. OutTries' = OutTries
  BY <1>5 DEF OutTries
<1>11. OutMessages' = OutMessages \cup
         {[carries |-> m.batch, supersedes |-> m.superseded, values |-> m.snapshot]}
  BY <1>2 DEF OutMessages, Message
<1>12. m.snapshot \subseteq Outbox!Committed
  BY <1>4, <1>9 DEF Outbox!Committed
<1>13. Outbox!Send(m.batch, m.superseded, m.snapshot)
  BY <1>3, <1>4, <1>6, <1>7, <1>8, <1>10, <1>11, <1>12
  DEF Outbox!Send, Outbox!Are, OutTries, OutMessages
<1> QED
  BY <1>4, <1>13 DEF Outbox!OutboxNext

LEMMA OutStep ==
    ASSUME Inv, [Next]_vars
    PROVE  [Outbox!OutboxNext]_(Outbox!outboxVars)
<1>1. TypeOK' /\ StepOfKind
  BY StepKinds DEF Inv
<1>2. CASE Produces /\ delivery' = delivery
  BY <1>1, <1>2, OutProduces DEF Inv
<1>3. CASE Releases /\ delivery' = delivery
  BY <1>1, <1>3, OutReleases DEF Inv
<1>4. CASE Claims /\ delivery' = delivery
  BY <1>1, <1>4, OutClaims DEF Inv
<1>5. CASE \E w \in Worker : Creates(w)
  BY <1>1, <1>5, OutCreates DEF Inv
<1>6. CASE Rest
  BY <1>6, OutSame DEF Rest
<1> QED
  BY <1>1, <1>2, <1>3, <1>4, <1>5, <1>6 DEF StepOfKind

\* materializeNext keeps the promise of an outbox: whatever crashes, expires or is recovered
\* meanwhile, a committed change is claimed within its budget and leaves once, and the
\* message that takes it carries values read after its commit.
THEOREM Refinement == Spec => ImplementsOutbox
<1>1. Inv /\ [Next]_vars => [Outbox!OutboxNext]_(Outbox!outboxVars)
  BY OutStep
<1> QED
  BY <1>1, OutInit, Invariance, PTL DEF Spec, ImplementsOutbox, Outbox!OutboxSpec
=============================================================================
