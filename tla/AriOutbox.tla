----------------------------- MODULE AriOutbox -----------------------------
(***************************************************************************)
(* The materialization half of the Channex ARI outbound pipeline           *)
(* (src/src/pms/outbound): a domain transaction that changes availability  *)
(* or rates also inserts a DistributionOutboxEvent; a materializer claims  *)
(* a batch of ready events of one partition, reads a snapshot of the       *)
(* canonical state, and turns the batch into one delivery row, fenced by   *)
(* the claim token.                                                        *)
(*                                                                         *)
(* A delivery's snapshot is the set of changes committed when it was read: *)
(* a change is named by its event.  All events of a partition are taken to *)
(* touch the same dates, so two snapshots of a partition are comparable.   *)
(* An operator named X_Y is X with one plausible bug, Y: the specification *)
(* never uses it, and the README says which property refuses it.           *)
(***************************************************************************)
EXTENDS Integers, FiniteSets

CONSTANTS
    Event,          \* outbox events, numbered in creation order
    Worker,         \* materializer processes
    PartitionOf,    \* PartitionOf[e]: property and message kind of event e
    FullSync,       \* the FULL events; the others are INCREMENTAL
    InsideHorizon,  \* the INCREMENTAL events a Full Sync of their partition covers
    CoalesceMs,     \* delays a producer may ask for (0..60 s, 30 s by default)
    MaxAttempts,    \* CHANNEX_ARI_OUTBOX_MAX_MATERIALIZATION_ATTEMPTS
    LeaseMs,        \* claim lease
    RetryDelayMs,   \* RetryDelayMs[n]: capped exponential delay after attempt n
    ClaimLimit,     \* selectionLimit: events per claim and per recovery
    MaxFaults       \* bound: crashes and failed materializations in one behaviour

ASSUME OutboxAssumption ==
    /\ Event \subseteq Nat \ {0}
    /\ FullSync \subseteq Event /\ InsideHorizon \subseteq Event
    /\ CoalesceMs \subseteq Nat
    /\ MaxAttempts \in Nat \ {0} /\ LeaseMs \in Nat \ {0}
    /\ RetryDelayMs \in [1..MaxAttempts -> Nat]
    /\ ClaimLimit \in Nat \ {0} /\ MaxFaults \in Nat

VARIABLES
    clock,        \* wall clock every process reads
    event,        \* DistributionOutboxEvent rows
    delivery,     \* ChannexAriDelivery rows as the materializer inserts them
    materializer, \* local state of each materializer
    claims,       \* claim tokens handed out so far
    faults        \* faults so far, at most MaxFaults

vars == <<clock, event, delivery, materializer, claims, faults>>

-----------------------------------------------------------------------------
EventStatus == {"ABSENT", "UNCOMMITTED", "PENDING", "CLAIMED", "MERGED", "SUPERSEDED", "DEAD"}

\* 0 stands for a null instant, token or delivery id.
EventRow == [status: EventStatus, createdAt: Nat, availableAt: Nat, attemptCount: 0..MaxAttempts,
             claimToken: Nat, claimExpiresAt: Nat, deliveryId: Nat]
NoEvent == [status |-> "ABSENT", createdAt |-> 0, availableAt |-> 0, attemptCount |-> 0,
            claimToken |-> 0, claimExpiresAt |-> 0, deliveryId |-> 0]

\* `id' is the token of the claim the delivery was made of.
DeliveryRow == [id: Nat, queuedAt: Nat, place: Nat, merged: SUBSET Event,
                superseded: SUBSET Event, snapshot: SUBSET Event]

MaterializerState ==
    [pc: {"idle", "started", "recovered", "claimed", "snapshot", "covered", "failed"},
     startedAt: Nat, token: Nat, batch: SUBSET Event, snapshot: SUBSET Event,
     superseded: SUBSET Event, materializedAt: Nat]
Idle == [pc |-> "idle", startedAt |-> 0, token |-> 0, batch |-> {}, snapshot |-> {},
         superseded |-> {}, materializedAt |-> 0]

TypeOK ==
    /\ clock \in Nat \ {0}
    /\ event \in [Event -> EventRow]
    /\ delivery \subseteq DeliveryRow
    /\ materializer \in [Worker -> MaterializerState]
    /\ claims \in Nat
    /\ faults \in 0..MaxFaults

Init ==
    /\ clock = 1
    /\ event = [e \in Event |-> NoEvent]
    /\ delivery = {}
    /\ materializer = [w \in Worker |-> Idle]
    /\ claims = 0
    /\ faults = 0

Resolved == {"MERGED", "SUPERSEDED", "DEAD"}
Visible(e) == event[e].status \notin {"ABSENT", "UNCOMMITTED"}

\* The n first elements of S in the order `before'.
FirstOf(S, n, before(_, _)) ==
    {e \in S : Cardinality({f \in S : before(f, e)}) < n}

-----------------------------------------------------------------------------
(* Producers: the change and its event are inserted in one transaction,    *)
(* and createdAt is the insert's, not the commit's.                        *)

BeginChange(e) ==
    /\ event[e].status = "ABSENT"
    /\ \A f \in Event : f < e => event[f].status # "ABSENT"
    /\ \E delayMs \in IF e \in FullSync THEN {0} ELSE CoalesceMs :
         event' = [event EXCEPT ![e] = [@ EXCEPT !.status = "UNCOMMITTED", !.createdAt = clock,
                                                 !.availableAt = clock + delayMs]]
    /\ UNCHANGED <<clock, delivery, materializer, claims, faults>>

CommitChange(e) ==
    /\ event[e].status = "UNCOMMITTED"
    /\ event' = [event EXCEPT ![e].status = "PENDING"]
    /\ UNCHANGED <<clock, delivery, materializer, claims, faults>>

-----------------------------------------------------------------------------
(* What the queries and policies compute.                                  *)

Ready(e, now) ==
    /\ event[e].status = "PENDING"
    /\ event[e].availableAt <= now
    /\ event[e].attemptCount < MaxAttempts

ByCreation(e, f) ==
    \/ event[e].createdAt < event[f].createdAt
    \/ event[e].createdAt = event[f].createdAt /\ e < f

ByAvailability(e, f) ==
    \/ event[e].availableAt < event[f].availableAt
    \/ event[e].availableAt = event[f].availableAt /\ ByCreation(e, f)

ByExpiry(e, f) ==
    \/ event[e].claimExpiresAt < event[f].claimExpiresAt
    \/ event[e].claimExpiresAt = event[f].claimExpiresAt /\ e < f

\* Full Syncs first, then the event available for longest; at most one seed.
ReadySeed(now) ==
    LET ready == {e \in Event : Ready(e, now)}
        first == IF ready \cap FullSync # {} THEN ready \cap FullSync ELSE ready
    IN  FirstOf(first, 1, ByAvailability)

\* A FULL event has its correlation id for itself among the events of its kind.
BatchOf_AnyMode(seed, now) ==
    FirstOf({e \in Event : Ready(e, now) /\ PartitionOf[e] = PartitionOf[seed]},
            ClaimLimit, ByCreation)
BatchOf(seed, now) ==
    IF seed \in FullSync THEN {seed}
    ELSE FirstOf({e \in Event \ FullSync : /\ Ready(e, now)
                                           /\ PartitionOf[e] = PartitionOf[seed]},
                 ClaimLimit, ByCreation)

\* Given back: PENDING again after a delay, DEAD once the attempts are used up.
ReleasedRow_Forever(row, now) ==
    [row EXCEPT !.status = "PENDING", !.availableAt = now + RetryDelayMs[row.attemptCount],
                !.claimToken = 0, !.claimExpiresAt = 0]
ReleasedRow_Early(row, now) ==
    IF row.attemptCount >= MaxAttempts - 1
    THEN [row EXCEPT !.status = "DEAD", !.claimToken = 0, !.claimExpiresAt = 0]
    ELSE [row EXCEPT !.status = "PENDING", !.availableAt = now + RetryDelayMs[row.attemptCount],
                     !.claimToken = 0, !.claimExpiresAt = 0]
ReleasedRow(row, now) ==
    IF row.attemptCount >= MaxAttempts
    THEN [row EXCEPT !.status = "DEAD", !.claimToken = 0, !.claimExpiresAt = 0]
    ELSE [row EXCEPT !.status = "PENDING", !.availableAt = now + RetryDelayMs[row.attemptCount],
                     !.claimToken = 0, !.claimExpiresAt = 0]

-----------------------------------------------------------------------------
(* One materializeNext of worker w.                                        *)

\* The one instant recovery and claim are judged at.
StartCycle(w) ==
    /\ materializer[w].pc = "idle"
    /\ materializer' = [materializer EXCEPT ![w] =
         [Idle EXCEPT !.pc = "started", !.startedAt = clock]]
    /\ UNCHANGED <<clock, event, delivery, claims, faults>>

\* A bounded number of expired claims is given back.
RecoverStaleClaims(w) ==
    LET now == materializer[w].startedAt
        expired == {e \in Event : /\ event[e].status = "CLAIMED"
                                  /\ event[e].claimExpiresAt <= now}
        recovered == FirstOf(expired, ClaimLimit, ByExpiry)
    IN  /\ materializer[w].pc = "started"
        /\ event' = [e \in Event |-> IF e \in recovered THEN ReleasedRow(event[e], now)
                                                        ELSE event[e]]
        /\ materializer' = [materializer EXCEPT ![w].pc = "recovered"]
        /\ UNCHANGED <<clock, delivery, claims, faults>>

ClaimExpiry_Past(now) == now - LeaseMs
ClaimExpiry(now) == now + LeaseMs

ClaimNextBatch(w) ==
    \E seed \in ReadySeed(materializer[w].startedAt) :
        LET now == materializer[w].startedAt
            batch == BatchOf(seed, now)
        IN  /\ materializer[w].pc = "recovered"
            /\ seed \in batch
            /\ claims' = claims + 1
            /\ event' = [e \in Event |->
                 IF e \in batch
                 THEN [event[e] EXCEPT !.status = "CLAIMED", !.attemptCount = @ + 1,
                                       !.claimToken = claims + 1, !.claimExpiresAt = ClaimExpiry(now)]
                 ELSE event[e]]
            /\ materializer' = [materializer EXCEPT ![w] =
                 [@ EXCEPT !.pc = "claimed", !.token = claims + 1, !.batch = batch]]
            /\ UNCHANGED <<clock, delivery, faults>>

\* Nothing is ready, or the batch lacks its seed and the claim throws.
ClaimsNothing(w) ==
    LET now == materializer[w].startedAt
    IN  /\ materializer[w].pc = "recovered"
        /\ \A seed \in ReadySeed(now) : seed \notin BatchOf(seed, now)
        /\ materializer' = [materializer EXCEPT ![w] = Idle]
        /\ UNCHANGED <<clock, event, delivery, claims, faults>>

\* The canonical state of the batch's partition, as committed when it is read.
SnapshotOf_CycleStart(w) ==
    {e \in Event : /\ Visible(e) /\ event[e].createdAt < materializer[w].startedAt
                   /\ \E b \in materializer[w].batch : PartitionOf[e] = PartitionOf[b]}
SnapshotOf(w) ==
    {e \in Event : /\ Visible(e)
                   /\ \E b \in materializer[w].batch : PartitionOf[e] = PartitionOf[b]}

ReadSnapshot(w) ==
    /\ materializer[w].pc = "claimed"
    /\ materializer' = [materializer EXCEPT ![w] =
         [@ EXCEPT !.pc = "snapshot", !.snapshot = SnapshotOf(w)]]
    /\ UNCHANGED <<clock, event, delivery, claims, faults>>

\* The pending events a Full Sync makes superfluous, judged by their createdAt
\* against the start of the cycle.
CoveredPendingIncrementals(w) ==
    {e \in InsideHorizon \ FullSync :
        /\ event[e].status = "PENDING"
        /\ event[e].createdAt <= materializer[w].startedAt
        /\ \E b \in materializer[w].batch \cap FullSync : PartitionOf[e] = PartitionOf[b]}

ReadCovered(w) ==
    /\ materializer[w].pc = "snapshot"
    /\ materializer' = [materializer EXCEPT ![w] =
         [@ EXCEPT !.pc = "covered", !.superseded = CoveredPendingIncrementals(w),
                   !.materializedAt = clock]]
    /\ UNCHANGED <<clock, event, delivery, claims, faults>>

ClaimHolds_Unfenced(w) ==
    \A e \in materializer[w].batch : event[e].status # "DEAD"
ClaimHolds_AnyToken(w) ==
    \A e \in materializer[w].batch : event[e].status = "CLAIMED"
ClaimHolds(w) ==
    \A e \in materializer[w].batch :
        /\ event[e].status = "CLAIMED"
        /\ event[e].claimToken = materializer[w].token
        /\ materializer[w].materializedAt < event[e].claimExpiresAt

StillPending(w) == \A e \in materializer[w].superseded : event[e].status = "PENDING"

\* The batch was already made into the very same delivery, under a later claim.
Persisted(w) ==
    \E d \in delivery : /\ materializer[w].batch \subseteq d.merged
                        /\ materializer[w].superseded \subseteq d.superseded
                        /\ materializer[w].snapshot = d.snapshot

\* One transaction: the delivery row, its events MERGED and SUPERSEDED, the claim cleared.
CreateFencedDelivery(w) ==
    LET m == materializer[w]
        resolved(e, status) == [event[e] EXCEPT !.status = status, !.deliveryId = m.token,
                                                !.claimToken = 0, !.claimExpiresAt = 0]
    IN  /\ m.pc = "covered"
        /\ ClaimHolds(w) /\ StillPending(w)
        /\ delivery' = delivery \cup
             {[id |-> m.token, queuedAt |-> m.materializedAt, place |-> Cardinality(delivery) + 1,
               merged |-> m.batch, superseded |-> m.superseded, snapshot |-> m.snapshot]}
        /\ event' = [e \in Event |-> CASE e \in m.batch -> resolved(e, "MERGED")
                                       [] e \in m.superseded -> resolved(e, "SUPERSEDED")
                                       [] OTHER -> event[e]]
        /\ materializer' = [materializer EXCEPT ![w] = Idle]
        /\ UNCHANGED <<clock, claims, faults>>

DeliveryReused(w) ==
    /\ materializer[w].pc = "covered"
    /\ ~(ClaimHolds(w) /\ StillPending(w)) /\ Persisted(w)
    /\ materializer' = [materializer EXCEPT ![w] = Idle]
    /\ UNCHANGED <<clock, event, delivery, claims, faults>>

DeliveryRejected(w) ==
    /\ materializer[w].pc = "covered"
    /\ ~(ClaimHolds(w) /\ StillPending(w)) /\ ~Persisted(w)
    /\ materializer' = [materializer EXCEPT ![w].pc = "failed"]
    /\ UNCHANGED <<clock, event, delivery, claims, faults>>

\* Planning, mapping, the snapshot or a query throws.
MaterializationFails(w) ==
    /\ materializer[w].pc \in {"claimed", "snapshot", "covered"}
    /\ faults < MaxFaults
    /\ faults' = faults + 1
    /\ materializer' = [materializer EXCEPT ![w].pc = "failed"]
    /\ UNCHANGED <<clock, event, delivery, claims>>

MayFail(w) ==
    \A e \in materializer[w].batch :
        /\ event[e].status = "CLAIMED"
        /\ event[e].claimToken = materializer[w].token
        /\ clock < event[e].claimExpiresAt

\* The whole batch is given back, or nothing and stale recovery has to do it.
FailClaimedBatch(w) ==
    /\ materializer[w].pc = "failed"
    /\ MayFail(w)
    /\ event' = [e \in Event |-> IF e \in materializer[w].batch THEN ReleasedRow(event[e], clock)
                                                               ELSE event[e]]
    /\ materializer' = [materializer EXCEPT ![w] = Idle]
    /\ UNCHANGED <<clock, delivery, claims, faults>>

ReleaseFails(w) ==
    /\ materializer[w].pc = "failed"
    /\ ~MayFail(w)
    /\ materializer' = [materializer EXCEPT ![w] = Idle]
    /\ UNCHANGED <<clock, event, delivery, claims, faults>>

Crash(w) ==
    /\ materializer[w].pc # "idle"
    /\ faults < MaxFaults
    /\ faults' = faults + 1
    /\ materializer' = [materializer EXCEPT ![w] = Idle]
    /\ UNCHANGED <<clock, event, delivery, claims>>

\* Past the last instant a query compares with the clock it need not run on.
Tick ==
    /\ \E e \in Event : clock < event[e].availableAt \/ clock < event[e].claimExpiresAt
    /\ clock' = clock + 1
    /\ UNCHANGED <<event, delivery, materializer, claims, faults>>

MaterializeStep(w) ==
    \/ StartCycle(w) \/ RecoverStaleClaims(w) \/ ClaimNextBatch(w) \/ ClaimsNothing(w)
    \/ ReadSnapshot(w) \/ ReadCovered(w)
    \/ CreateFencedDelivery(w) \/ DeliveryReused(w) \/ DeliveryRejected(w)
    \/ FailClaimedBatch(w) \/ ReleaseFails(w)

Next ==
    \/ \E e \in Event : BeginChange(e) \/ CommitChange(e)
    \/ \E w \in Worker : MaterializeStep(w) \/ MaterializationFails(w) \/ Crash(w)
    \/ Tick

Spec == Init /\ [][Next]_vars

\* Every materializer's loop runs on and time passes.
Fairness == (\A w \in Worker : WF_vars(MaterializeStep(w))) /\ WF_vars(Tick)

FairSpec == Spec /\ Fairness

-----------------------------------------------------------------------------
(* Properties.                                                             *)

\* A claim, its rows and its holder agree: a CLAIMED event has a token and an
\* expiry, any other has neither, and the events of one token share partition
\* and sync mode (a Full Sync never merges with increments).
ClaimsConsistent ==
    /\ \A e \in Event : /\ (event[e].status = "CLAIMED") <=> (event[e].claimToken # 0)
                        /\ (event[e].status = "CLAIMED") <=> (event[e].claimExpiresAt # 0)
    /\ \A e, f \in Event :
         event[e].claimToken # 0 /\ event[e].claimToken = event[f].claimToken =>
            /\ PartitionOf[e] = PartitionOf[f]
            /\ (e \in FullSync) <=> (f \in FullSync)

\* An event is resolved with its delivery and with one only: MERGED or SUPERSEDED
\* exactly when the delivery its row names lists it so, whoever else claimed,
\* recovered or superseded it in between.
ResolvedOnce ==
    /\ \A e \in Event :
         /\ (event[e].status = "MERGED") <=> (\E d \in delivery : e \in d.merged)
         /\ (event[e].status = "SUPERSEDED") <=> (\E d \in delivery : e \in d.superseded)
         /\ event[e].deliveryId # 0 <=> event[e].status \in {"MERGED", "SUPERSEDED"}
    /\ \A d \in delivery : \A e \in d.merged \cup d.superseded : event[e].deliveryId = d.id

\* An event is merged only by the materializer whose claim it still carries.
FencedMaterialization ==
    [][\A e \in Event :
         event[e].status # "MERGED" /\ event'[e].status = "MERGED" =>
            event[e].status = "CLAIMED" /\ event[e].claimToken = event'[e].deliveryId]_vars

\* Every change a delivery was made for is in the snapshot it carries.
MergedIsInSnapshot == \A d \in delivery : d.merged \subseteq d.snapshot

\* Of two deliveries of a partition the one dispatched later carries at least
\* the changes of the other: Channex ends with the latest canonical state.
DispatchedBefore(c, d) ==
    c.queuedAt < d.queuedAt \/ (c.queuedAt = d.queuedAt /\ c.place < d.place)
SnapshotOrder ==
    \A c, d \in delivery :
        /\ \E e \in c.merged, f \in d.merged : PartitionOf[e] = PartitionOf[f]
        /\ DispatchedBefore(c, d)
        => c.snapshot \subseteq d.snapshot

\* A superseded change is in the snapshot of the Full Sync that superseded it.
SupersededIsInSnapshot == \A d \in delivery : d.superseded \subseteq d.snapshot

\* The seed of a claim is among the events claimed, as the claim asserts.
SeedInBatch == \A seed \in ReadySeed(clock) : seed \in BatchOf(seed, clock)

\* The outbox as ChangeOutbox sees it.
OutboxState(e) == IF Visible(e) THEN event[e].status ELSE "NONE"
Message(d) == [carries |-> d.merged, supersedes |-> d.superseded, values |-> d.snapshot]
Outbox == INSTANCE ChangeOutbox WITH
    Change <- Event, MaxTries <- MaxAttempts,
    state <- [e \in Event |-> OutboxState(e)],
    tries <- [e \in Event |-> event[e].attemptCount],
    messages <- {Message(d) : d \in delivery}

\* The materialization implements the outbox: every committed event is tried within its
\* budget and leaves once, merged with what it changed, superseded or dead.
ImplementsOutbox == Outbox!OutboxSpec

\* An event dies only after its last permitted materialization attempt.
DeadAfterLastAttempt ==
    \A e \in Event : event[e].status = "DEAD" => event[e].attemptCount = MaxAttempts

\* Every committed event is resolved in the end, through crashes, failed
\* materializations, supersession and expired claims.
EventuallyResolved ==
    \A e \in Event : (event[e].status = "PENDING") ~> (event[e].status \in Resolved)
=============================================================================
