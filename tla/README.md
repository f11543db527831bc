# Pin&Go backend: TLA+ models and proofs

Pin&Go is a property-management backend (Node, TypeScript, Prisma over PostgreSQL; the
code is in `src/src`). Almost all of it is request handling over one database; what is
hard about it is a number of *durable pipelines*: rows that worker processes claim
under a lease, act on through an unreliable external API (Channex, TTLock, Stripe,
Expo, SMTP), and complete under a fencing token. Six of them are modelled, each in a
module of its own:

    domain transaction --insert--> DistributionOutboxEvent          Channex
                                        |   AriOutbox                  | revisions
               materializer: claim, snapshot, fenced insert            v
                                        v                          BookingFeed
                               ChannexAriDelivery                 ingest, then acknowledge
                                        |   AriDispatch                |
               dispatcher: select, recover, claim, send, complete      v
                                        v                         Reservation rows
                                     Channex                           |
                                                    +------------------+------------------+
                                                    |                                     |
                                            GuestAccessFence                  ReservationModification
                                      claim, call the lock, settle          preview, confirm, pay, apply
                                                    v                                     v
                                                 TTLock                                Stripe

They meet in the `Reservation` rows: a revision or a modification that moves a stay starts
an ARI event for its nights and re-evaluates the guest's access. The sixth, `JourneyIntent`,
turns what those rows say into coordination intents (E4) whose owner runtime (E5) evaluates
the guest's access, before `GuestAccessFence` provisions it.

## Contents

| file | what it is |
|---|---|
| `AriDispatch.tla` | the dispatch half: deliveries, attempts, leases, pacing, the HTTP exchange |
| `DeliveryLifecycle.tla` | abstract: what the pipeline promises of one delivery |
| `AriDispatchProofs.tla`, `AriDispatchPacing.tla`, `AriDispatchLifecycle.tla` | theorems about `AriDispatch` |
| `AriOutbox.tla` | the materialization half: outbox events, claims, snapshots, supersession |
| `ChangeOutbox.tla` | abstract: a committed change is tried within a budget and leaves once |
| `AriOutboxProofs.tla` | theorems about `AriOutbox` |
| `BookingFeed.tla` | fetching, ingesting and acknowledging the revisions of a channel booking |
| `RevisionMirror.tla` | abstract: forward only, acknowledged only when applied |
| `BookingFeedProofs.tla` | theorems about `BookingFeed` |
| `GuestAccessFence.tla` | provisioning a door passcode: fence (E14), physical call, reconciliation (E15) |
| `GuestAccessFenceProofs.tla` | theorems about `GuestAccessFence` |
| `ReservationModification.tla` | a guest's change of dates, its payment and its application |
| `PaidChange.tla` | abstract: no night twice, a change at most once and only when paid |
| `ReservationModificationProofs.tla` | theorems about `ReservationModification` |
| `JourneyIntent.tla` | the intents of a Guest Journey: materialization (E4), the owner runtime (E5) |
| `IntentLedger.tla` | abstract: one intent in force, attempts opened in order and closed once |
| `JourneyIntentProofs.tla` | theorems about `JourneyIntent` |
| `MC*.tla`, `*.cfg` | the instances TLC checks |
| `PROJECT.json` | runs, the definition-to-source map, hazards, findings, theorems |

`tlc -config AriDispatchPair.cfg MCAriDispatch.tla` checks an instance, `tlapm
AriDispatchProofs.tla` the proofs of a module.

## 1. Inventory of the system

State is a set of database tables; operations are the functions named; "hard" says what
interleaves or fails.

**Channex ARI materialization** (`pms/outbound/channex-ari-outbox-*.ts`,
`channex-ari-fenced-delivery.service.ts`). State: `DistributionOutboxEvent` (status,
availableAt, attemptCount, claim token and expiry), the delivery rows it inserts.
Operations: recover stale claims, claim a batch, read the snapshot, find what a Full Sync
supersedes, insert the delivery and resolve its events in one fenced transaction, release
a failed batch. Hard: claims that expire under a slow materializer; the snapshot is read
outside both transactions; producers commit at any moment. Correct when every event is
resolved once and its change is in a snapshot that is dispatched, in order.

**Channex ARI dispatch** (`channex-ari-dispatch.*`, `-job-selection.*`,
`-selected-batch-runner.*`, `-delivery-executor.*`, `-attempt-completion.*`,
`-lifecycle.policy.ts`, `workers/channex-ari-dispatch.worker.ts`). State:
`ChannexAriDelivery`, `ChannexAriDeliveryAttempt`, `ChannexAriPropertyState`, and each
process's batch. Operations: selection, stale-lease recovery, preflight and credentials,
claim, send, completion. Hard: replicas contending for a row, leases expiring around a
request in flight, lost answers, retries, the rate limit. Correct when each attempt is
accounted for once, only the lease holder sends and completes, pauses and spacing hold,
and every delivery is settled.

**ARI producers, snapshots, mapping, HTTP client, process** supply the inputs above: the
domain transaction that inserts an event, the rendering of a snapshot, the answer
classes, and the timer that runs one materialization and one dispatch cycle per tick. A
tick is skipped while the previous one still runs.

**Channex booking feed and webhook queue** (`pms/ingest`, `workers/pms-webhook-recovery`,
`workers/channex-global-feed`). State: `WebhookEventIngest`, the audit entries of each
revision, the feed's advisory lock. Operations: receive, scan, release stale, claim, fetch,
classify, ingest, audit, acknowledge. Hard: a crash between ingest and acknowledgement,
two workers with the same revision, revisions redelivered or out of order. Correct when
no revision is acknowledged before it is applied and an older one never overwrites a
newer.

**Reservation ingestion** (`services/ingest.service.ts`, `reservation.reconcile`):
normalises a booking into reservation rows; the guard against older revisions and the
refusal of a late cancellation are where it goes wrong.

**Guest journey coordination** (`services/guest-journey-*.ts`). State:
`GuestJourneyCoordinationIntent`, its `...IntentAttempt` rows, immutable audit entries.
Operations: a coordination cycle derives intents from a reservation's evidence, supersedes
and reactivates them; an owner runtime claims, recovers, executes and completes them. Hard:
the evidence changes under both; leases expire under a slow owner; all instants are those of
the tick that began the cycle. Correct when one evaluation is active at most, a live claim is
left to its owner, an attempt's outcome is final, and evidence that stays is evaluated.

**Guest access fences** (`src/e14`, `src/e15`). A provisioning claim admits one
TTLock call per reservation; an ambiguous call (sent, answer lost) is reconciled by
reading the provider's inventory before the fence is re-armed. Correct when a reservation
never has two live passcodes and is not blocked for ever.

**Reservation modification** (`services/guest-reservation-modification*.ts`,
`availability.service.ts`, `stripe-financial-event-ledger.service.ts`,
`manual-reservation-date-change.service.ts`). State: `ReservationModification`,
`StripeEventLog`, the stay and money columns of `Reservation`. Operations: preview,
confirm, create a Checkout, handle its payment, apply. Hard: confirmations race each
other, other bookings and the clock; Stripe delivers events again, also while one is being
handled. Correct when a paid modification is applied once, an unpaid one never, and no
night is given twice. **Stay-time proposals** reuse the same rows for early check-in and
late check-out.

**Mobile access credentials** (`src/guest-mobile`): provision, revoke, recover after
ambiguous answers. **Damage case payments**: one charge per case through authorization,
execution and webhooks. **Direct booking and refunds**: the same over Stripe sessions.

**Cleaning operations, messaging and push delivery, Pin AI, OTA onboarding, APMS, sales
voice, locks and devices, authentication, routes and dashboards**: secondary to the above
or dominated by I/O; PROJECT.json says of each why it is left out.

## 2. `AriDispatch`

### State

| variable | code |
|---|---|
| `delivery` | `ChannexAriDelivery`: status, attemptCount, nextAttemptAt, lease token and expiry, queuedAt |
| `attempt` | `ChannexAriDeliveryAttempt`, keyed by delivery and attempt number |
| `propertyState` | `ChannexAriPropertyState`: pausedUntil, the next allowed instant of each kind, lastFullSyncCompletedAt |
| `worker` | what a process holds between transactions: the rest of the batch, the job, the instants it read, its lease, the evidence of its answer |
| `wire`, `channex`, `applied` | requests under way; the delivery whose values Channex holds; which were ever applied |
| `clock` | the wall clock, one for all processes |

A lease token is random in the code and is compared only with the token of the row; the
model names it by the attempt number it was granted for, which is as unique. 0 stands for
null.

### Actions

One action is one transaction, query or HTTP event. The transactions of the pipeline run
at `Serializable` isolation, so a transaction that commits is one step; one that loses a
conflict is retried where the code retries (`channex-ari-dispatch.service.ts:225`, on
P2034) and fails where it does not, which is `ActionFails` or `SelectedActionFails`.

| action | code |
|---|---|
| `Enqueue` | the delivery row a producer's transaction leaves behind |
| `ReadDispatchSelection` | two bounded scans, then the policy's ordering, one action per partition and limit |
| `RecoverStaleDeliveryLease`, `RecoverRejected` | the recovery transaction, judged again at its own instant |
| `ReadClaimPreflight`, `ResolveCredentials` | what happens between selection and claim |
| `ClaimDelivery`, `ClaimRejected` | the claim, at an instant read before its transaction; a claim whose attempt count is not the expected one commits and is dropped by the batch runner |
| `SendHttpRequest`, `LeaseBudgetInsufficient` | the executor's check that the lease covers the timeout and the completion reserve |
| `ChannexResponds`, `NoResponse`, `ChannexHandlesUnanswered` | the answer classes; a timeout after which the request was, was not or is yet to be handled |
| `CompleteSuccess`, `CompleteTerminal`, `CompleteRetryable`, `CompletionRejected` | the completion transaction at the instant the answer was read |
| `Crash`, `ActionFails`, `SelectedActionFails`, `Tick` | a process dies; one step throws and the batch goes on; time passes |

The selection reads its two scans and the pauses at one instant in the model and in three
queries in the code; it only proposes, and each transaction judges its row again.

Abstracted: payload bytes, hashes and task ids, error texts, the token's randomness, the
clock skew between hosts. A 2xx without a task id counts as success in the model as in
the code (`channex-ari-lifecycle.policy.ts`).

`DeliveryLifecycle` is the promise: a delivery is accepted once, tried at most
`MaxTries` times, has one holder, and is `SENT` only if Channex applied its values, while
Channex may apply a try's values at any moment after it began (at least once). The
mapping takes READY and RETRY_WAIT to PENDING and `applied` to the effects; the property
`ImplementsLifecycle` is the refinement.

### Runs

Instants are scaled: a lease of 2 units, timeout plus reserve of 1, spacing and minimum
pause of 1, a Retry-After of 2, which any answer may carry. What matters is their order (the reserve fits the lease
once it is fresh and no longer after a unit has passed; a Retry-After outlives a pause
and a lease), and each comparison in the code goes both ways in these instances.

| run | instance | question |
|---|---|---|
| `dispatch_contention` | 1 delivery, 2 workers, 2 attempts, 2 faults, 157,498 states | do leases, fences, the ledger and the spacing of claims hold under every interleaving; is the lifecycle implemented; is everything settled |
| `dispatch_pair` | a correlated FULL pair, 1 worker, 2 attempts, 1 fault, 2.7 million states | verdicts, pauses and the Full Sync mark over two partitions of one property |

Why the bounds suffice: with two attempts there is one that may be retried and one that
exhausts the budget; a lease is contended by its holder and one other process; two faults
let a recovery itself be interrupted. Deadlock is not checked because the system rests
once all deliveries are settled. The clock stops at the last instant some row still
mentions (`Deadlines`): past it no comparison changes.

`dispatch_contention` assumes fairness: `WF` of every worker's loop, of the HTTP client's
timeout and of time. The loop is a `setInterval` whose tick is skipped only while the
previous one runs, and `catch` keeps it alive (`channex-ari-dispatch.worker.ts:109`);
axios is given a timeout; a killed process is restarted by its host and begins again
with an empty batch, which is what `Crash` leaves. Nothing obliges a producer, Channex or
a fault to act; faults are bounded, since a failure that repeats for ever (credentials
that never resolve) settles nothing and no one promises otherwise.

## 3. `AriOutbox`

### State

| variable | code |
|---|---|
| `event` | `DistributionOutboxEvent`: status, createdAt, availableAt, attemptCount, claim token and expiry, deliveryId |
| `delivery` | the rows the materializer inserts: queuedAt, the events merged and superseded, the snapshot |
| `materializer` | what one `materializeNext` holds between its transactions |
| `claims` | the claim tokens handed out, as a counter: they are random and unique in the code |

A snapshot is the *set of changes* committed when it was read, one change per event.
This is all that a question of loss or order needs; dates and values are left out, and
all events of a partition are taken to touch the same dates. An event has an UNCOMMITTED
phase since `createdAt` is given at the insert and the row is seen only at the commit.

### Actions

`BeginChange`, `CommitChange` (the producer's transaction); `StartCycle`,
`RecoverStaleClaims`,
`ClaimNextBatch`, `ClaimsNothing`, `ReadSnapshot`, `ReadCovered`, then one of
`CreateFencedDelivery`, `DeliveryReused`, `DeliveryRejected` and, after a rejection or a
`MaterializationFails`, `FailClaimedBatch` or `ReleaseFails`: one cycle of
`materializeNext`. Recovery and claim are judged at the instant the cycle started, which
others may have overtaken. A cycle that throws before its claim leaves nothing behind, as
`Crash` does. `Tick` as above.

### Runs

| run | instance | question |
|---|---|---|
| `outbox_contention` | 2 increments, 2 materializers, 2 attempts, 1 fault, 2.3 million states | is every event resolved once, by the holder of its claim |
| `outbox_full` | 3 events, the second a Full Sync, 1 materializer, 1 fault, 598 thousand states | do claims stay consistent, are merged changes in their snapshot, is `ChangeOutbox` implemented, is every committed event resolved |
| `outbox_seed_race` | 2 increments, claim limit 1, coalescing delays 0 and 2 | finding: the asserted seed is not in the batch |

`ChangeOutbox` is what an outbox promises, with no rows, tokens or clock: a committed change is
claimed at most so many times, and leaves once, carried by a message, superseded by one while it
waits, or dead after its last try; a message carries only changes that are claimed, and its values
show them and nothing that was not committed. `ImplementsOutbox` maps a row to its status once it
is committed, and a delivery to what it merges, supersedes and shows. That a superseded change is
among the values is not promised: it is not so (section 8).

Two materializers, and two events so that a batch can lose one of its members to a
recovery, are the least for the races of the fence; three events are the least in which
a Full Sync has increments on both sides. `outbox_full` assumes the fairness of the loop
and of time, as above; `EventuallyResolved` starts from PENDING, since nothing obliges a
producer to commit. These two runs have a claim limit no smaller than the number of events: below it,
the seed assertion described next fires and liveness fails.

## 4. `GuestAccessFence`

### State and actions

| variable | code |
|---|---|
| `grant` | `AccessGrant`: status, recoveryOperation (`op`), lease token, attempt count, nextAt, the exhausted mark, the passcode id, E15's absence marker |
| `plan` | `customPasscodePlan` in the grant's payload |
| `reservation` | what the fence reads of `Reservation`: live, the release state of the access, the stay's window |
| `proc`, `moved` | a process in its tick; whether its grant was written since it scanned it (`updatedAt`) |
| `call`, `pending`, `live` | physical calls, requests the provider has not settled, passcodes the lock accepts |
| `rearms`, `absences` | history, for the properties only |

`StartTick` and `NextPhase` follow the reservation worker's tick, which reads the clock
once. `RepairRelease`, `RecoverActive`, `RecoverPending`, `Claim`, `ClaimRefused`,
`CheckReadiness`, `PreBoundaryFailure`, `Begin`, `Finish`, `PhysicalTimeout` and
`ReleaseAccess` are the steps of the E14 fence, each one transaction under the
reservation's row lock (E14.1). From `Begin` on, the physical call is a process of its
own, since the fence gives up on it after `PhysicalMs` and it goes on: `CallRefused`,
`SendTimed`, `PlanNew`, `PlanFound`, `SendCustom`, `ResumePlan`, `Answered`,
`IncompleteAnswer`, `CallErrs`, `Persist`, `Cleanup`; `ProviderSettles` is TTLock.
`ScanAmbiguous`, `ReadInventory` and `Reconcile` are one grant of E15's cycle: the row, the
provider's inventory, and one conditional write under E15.1's reservation fence, whose
outcomes (late success, adoption, manual review, absence, re-arm) are operators of
`Reconcile`. `Reevaluate`, `ReservationChanges`, `Crash` and `Advance` are the world.

A passcode is named by the call that made it, its digits by a candidate number; guest
messages, audit intents and `lastError` are left out. Saving a plan as READY and reading the
budget are part of the step that plans (`PlanNew`): nobody else reads the plan between them.

### Runs

In the code a lease lasts 5 minutes, a call is given up after 30 s, an advisory
transaction after 60 s, two absent readings are at least 60 s apart, a tick polls every
10 s and 7 attempts are allowed. The instances keep the order of these durations. A
reading's instant is its *tick's* start, so two readings outlast a lost call only if
`AbsenceMinMs > EffectMs + TickMs`; that is how `guest_owner` is set, and with the two
equal `FirstRearmSafe` fails. Nothing in the code bounds how long a tick lasts or how late
the provider settles a request, so the instance assumes what the durations above suggest
and the code does not ensure. What the code does ensure, `FirstRearmAfterTwoAbsences`, is
proved without it (section 9).

| run | instance | question |
|---|---|---|
| `guest_pair` | 2 replicas, 2 grants with different windows, no gateway, 2 claims, 1 fault, symmetry of replicas, 3.4 million states | is there ever a second passcode, or a second fence held |
| `guest_owner` | the ACCESS owner, a gateway (custom codes, saved plan), re-arming, 3 claims, 1 fault, 1.1 million states | is the first re-arm safe; does a released guest have a working passcode; is the budget kept |

Two grants of one reservation have different windows, since a second one is made only for
changed dates. Only safety is stated: a quarantined grant is meant to wait for a person.

`OneCredential` excepts states in which a grant that was active is FAILED (`Overwritten`). The
proof attempt found why: an incomplete answer sets FAILED without a condition
(`ttlock.brain.ts:181`), also on a grant that E15 has meanwhile made active with the passcode of
an earlier call. Such a grant is FAILED and IDLE, which no sibling check counts as blocking, while its
passcode still works; when the requirement was withdrawn after the release and the dates then
changed, a sibling is provisioned beside it. That takes three faults; `guest_pair` has one.

What the model shows besides: a quarantined grant whose sibling was released is never
settled, only re-read; a call that returns after E15 adopted its passcode deletes it on a
lock without gateway (`docs/channex-airbnb-access-v1.md:48` says an adopted credential
stays), which is why `ReleasedCredentialWorks` is checked on a lock with one; the "never
chooses another PIN" of `guest-passcode-provision.service.ts:30` is broken by the
duplicate branch when the first request lands late; an incomplete answer makes a grant
FAILED that was adopted before, which lets a sibling be provisioned (above).

## 5. `BookingFeed`

### State and actions

| variable | code |
|---|---|
| `published`, `acked` | the channel: revisions inserted, revisions off its feed |
| `event` | `WebhookEventIngest`: status, the revision it names, attempts, whether the claim is older than the stale limit |
| `reservation` | revision, `externalUpdatedAt`, cancelled, the refused-cancellation mark, payment state, amount, and whether `reconcileReservation` ran for it |
| `audit`, `ackAudit` | the two immutable audit entries of a revision |
| `worker`, `lease` | a process in its batch or run; the feed's advisory lock |
| `started` | the stay has begun |

`Tick`, `ReleaseStale`, `ClaimEvent`, `FetchForEvent` are the webhook recovery worker;
`AcquireLease`, `FetchFeed` the feed worker. Both then take their revisions oldest first:
`Classify` (outside any transaction), then `RejectCancellation`, `MarkSuperseded` or
`Ingest` (the transaction of `upsertReservation`, its guard included), `Reconcile`,
`Recheck`, `RecordPersisted`, `Acknowledge` or `AcknowledgeFails`, `RecordAcknowledged`.
`StepFails` and `Crash` may strike between any two. Time is not counted: a claimed event
may be stale at any moment (`Age`).

`RevisionMirror` is the promise: the applied instant only moves forward and a revision is
acknowledged only at or behind it.

### Runs

| run | instance | question |
|---|---|---|
| `feed_two` | a worker of each kind, 3 revisions, one a cancellation, 1 event, 1 fault, one price, 536 thousand states | is the mirror implemented; is what was acknowledged recorded and applied; does every event end |
| `feed_race` | 2 revisions, prices that change, payment collected by the channel, no fault | finding: an older revision overwrites a newer one |

Three revisions are the least for one to be overtaken while another is ingested; one
event suffices because the feed worker is the second actor. `FairSpec` assumes that the
intervals of both workers keep firing (`setInterval`, errors caught) and that a claimed
event grows old; no crash, error or webhook is ever required.

One price and no collected payment make the upsert's guard effective. `MirrorsForward` and
`AckedIsApplied` need that; common bookings do not meet it, and `feed_race` shows what
follows. `TypeOK`, `AckedIsRecorded` and `EventResolved` do not look at the guard, and the
first two are proved for all data.

What the model shows besides: after a failed acknowledgement the entry FAILED stays, so
the later SUCCESS is refused and throws; an error between the commit and
`reconcileReservation` is retried, found unchanged, and acknowledged without access or
cleaning having followed (`AckedIsReconciled` does not hold); a second revision of the
same instant is taken for the first and acknowledged unread; the claim does not look at
the attempts again, so they may exceed the limit by one per worker less one; a run takes
the oldest revisions only, so ones that always fail keep newer ones out.

## 6. `ReservationModification`

### State and actions

| variable | code |
|---|---|
| `reservation` | `Reservation`: nights, active, begun, amount collected, `updatedAt` as a version |
| `change` | `ReservationModification`: status, the stay and version it was quoted on, checkoutExpiresAt, the stored session, the payment evidence |
| `request`, `checkout` | a confirm and a checkout request between their reads and writes |
| `session`, `answered` | Stripe: the Checkout and the events it has seen answered |
| `ledger` | `StripeEventLog`: absent, in progress, failed, processed |
| `handler` | webhook deliveries being handled |
| `cleared` | a booking or a host's move between its check and its commit: the version read |

`Preview`, `Confirm`, `ConfirmRefused`, `ConfirmAgain`, `RequestChecks` and `RequestApplies`
are the confirm route: the quote and its availability are read without a lock, the confirmation is a
transaction under the reservation's row lock. `RetrieveCheckout`, `StartCheckout`,
`CheckDates`, `PriceChanged`, `CreateSession`, `PersistSession` are the checkout route.
`Deliver`, `Reclaim`, `DeliverDuplicate` are the ledger's claim, which is a read and a
conditional write when the row has an error; `ReadChange`, `BeginProcessing`,
`RereadChange`, `PersistEvidence`, `HandlerChecks`, `HandlerApplies`, `MarkProcessed`,
`MarkFailed` the handler. `Apply` is the serializable transaction both routes end in.
`CheckBooking` and `Book` are a direct booking's ingest, `CheckMove` and `HostMoves` the
host's change of a manual reservation, `CommitRefused` the commit that PostgreSQL refuses,
`OtherWrite` a cancellation, the stay's beginning, or any write that moves `updatedAt`.

The three transactions that give a stay its nights are two steps each, the check and the
commit. All three are serializable, so what one of them read and another wrote is found out
at the commit: the commit asks for the stays again (`~Occupied`), and for the rows it locks
or compares. The holds it does not ask for again. A confirmation, which makes them, runs in
a transaction with no isolation level (`guest-reservation-modification.service.ts:1249`), so
at READ COMMITTED, and serializable transactions take no notice of it. The instant of the
check is the one of the commit's hold comparison as well. Stripe is external: it creates one session for an idempotency key, and
delivers an event until it is answered.

Abstracted: all reservations are of one property; a night is an element of a set and
costs one unit; bookings from channels, which no availability check refuses, are left
out, with blocked dates, turnover holds, in-stay extensions and stay-time variants. The
instant an apply compares with is that of its check (the code reads it just before). A
replayed request is `ConfirmAgain`.

`PaidChange` is the promise: the nights of two reservations never meet, a change is
applied at most once and, when it costs more, only once paid, and what was collected is
the first price and the changes.

### Run

`change_three` (0.85 million states): r1 stays nights 1–2; one change adds night 3, for
money, another moves it to nights 4–5. r2 is booked later for nights 3–4 and then gives
them up for night 5, where the host may move r3. So two changes race within a reservation,
each competes with a booking, and one with another reservation's change and a host's
move; two deliveries of an event may be handled at once, with one fault. A window of 2 units of which at least 1 must be left
makes a Checkout possible at one instant and impossible at the next, and the horizon is
one past the deadline. There is no liveness to state: every step is a guest's, a host's or
Stripe's, and the cases below are stuck by design of the code.

What the model shows besides, without a run: nights promised to a guest who is paying
can be given away (`HoldsRespected` does not hold; section 8); a process that dies between
the ledger's
claim and its mark leaves a row that answers every later delivery as a duplicate in
progress, and the payment is never handled; a duplicate answered 2xx while the first
delivery is still being handled tells Stripe to stop, so when that one fails nobody
retries it (`FailedIsRetried` does not hold; the ledger's test "failed financial event can
be reclaimed on Stripe retry" supposes a retry); a paid change whose event is not yet
handled is expired by a later confirmation and its payment refused
(`PaidNotExpired` does not hold), as is an asynchronous payment that settles after the
deadline; two paid changes of two reservations on overlapping nights each find the other
APPLYING and block each other for ever; no code moves a change on from
HOST_APPROVAL_REQUIRED, which blocks every later one; an APPLYING change that can no
longer be applied holds its nights for ever; cancelling a reservation does not end its
pending change.

## 7. `JourneyIntent`

### State and actions

| variable | code |
|---|---|
| `evidence` | the fingerprint of all that the evaluator reads of the reservation |
| `intent` | `GuestJourneyCoordinationIntent`: status, claimCount, lease token and expiry, nextActionAt |
| `attempt` | `GuestJourneyCoordinationIntentAttempt`: outcome and token, by intent and number |
| `audit` | the materializations recorded |
| `e4` | the coordination transaction between its reads and its writes: the cycle's instant, the fingerprint and the statuses read |
| `worker` | an owner process between claim, handler and completion |

`E4Read` and `E4Apply` are the coordination transaction, which runs at READ COMMITTED under an
advisory lock per reservation: what it read may be out of date when it writes, and only the
conditions of its updates protect an owner. `E4Conflicts` and `E4Fails` are its rollbacks.
`Claim` and `ClaimExhausts` are the owner's selection and claim, recovery of a stale lease
included, `ExecuteHandler` the evaluation, `Complete` and `CompleteThrows` the completion; claim
and completion are SERIALIZABLE, one step each. `ChangeEvidence` is everyone else who writes
what the evaluator reads, the readiness that the handler itself persists among it.

The key of an intent holds the evidence fingerprint, so an intent is named by the evidence it
was made of; two required fingerprints are two intents of one pair of type and engine. An
instant is kept as its distance from the present and falls with `Tick`, down to `Past`, before
which nothing is judged. Both cycles use the instant at which their tick began
(`reservation.worker.ts:3045`), so a claim may be judged late; it may then be born expired, as
in the code.

`IntentLedger` is the promise: one intent is in force at most, and its attempts, at most
`MaxClaims`, are numbered from one, opened in order, each under a new token and once those
before it are closed, and closed once; an intent that succeeded or exhausted them never
comes back. PENDING and RETRYABLE intents are open there, absent and superseded ones out.

Abstracted: one reservation, whose journey exists; E4's evidence is read in one step; an
attempt's own expiry is not kept, since its token identifies the claim; the owner's audit
entries, whose ids collide exactly when the attempt rows do; the selection's filter, which the
claim asks again. A claim that throws or refuses changes nothing and is no action.

### Runs

| run | instance | question |
|---|---|---|
| `journey_owner` | 2 fingerprints that require an evaluation and 1 that is eligible, 3 changes, 1 owner process that may die, 2 claims, 342 thousand states | is one intent active at most; are live claims left alone; do the attempts make the ledger of `IntentLedger`; is evidence that stays evaluated |
| `journey_reclaim` | 1 such fingerprint, 2 changes | finding: the reactivated intent's next attempt number is taken |

Three fingerprints let an intent be superseded, replaced and reactivated; three changes are
the least after which a transition is repeated (`E4Conflicts`). Two claims are a retry and a
last attempt. A lease of one unit and instants up to one unit old make every comparison go
both ways. The proofs below hold for any number of processes; with two of them the same
instance has 4.5 million states and the safety properties were checked there once. Deadlock
is not checked: once the evidence rests and its intent is settled nothing needs to happen.

`IntentSettled` assumes `WF` of each cycle's step and of time, since both cycles run in a loop
that catches their errors; the two `SF` say that E4's transaction is not aborted every time
(`E4Fails` may strike at any read, and a reservation is selected again on a later round of the
cursor) and that time passes even when the bound on a cycle's age suspends it again and again.
A process may die at every claim: the budget then ends in EXHAUSTED. Two escapes are part of
the property because the code needs them, and both are in section 8: an intent claimed in an
earlier life, and a transition that E4 made before.

What the model shows besides: superseding a CLAIMED intent whose lease ran out leaves its attempt
IN_FLIGHT for ever; an intent that ended SUCCEEDED or EXHAUSTED is not created anew when its
evidence comes back, and WAITING_FOR_EVIDENCE waits for a *change* of evidence.

## 8. What the code does that its documents, tests or assertions deny

Each with a run that finds it:

* **The seed assertion fails with no race** (`outbox_seed_race`). The seed is the event
  available for longest, the batch the oldest-created ones up to the limit. Where
  coalescing delays differ and more than a limit is ready, the claim throws
  `CHANNEX_ARI_OUTBOX_CLAIM_SEED_RACE`, writes nothing, and every later cycle does the
  same.
* **The upsert's guard is bypassed** (`feed_race`). It is skipped when the stored payment
  state is PAID or the price differs; with two workers an older revision then overwrites
  a newer one, which the certification document rules out.
* **A reactivated intent cannot be claimed** (`journey_reclaim`). The reactivation sets its
  attempt count to 0, but the attempts of its earlier life stay: the next claim creates
  attempt 1 again and violates the unique index on intent and number, on every cycle. The
  action recorded is "E4 safely reactivated an exact superseded intent after its evidence
  became current again".

And without one, each an operator of its module that does not hold:

* **A retry overwrites newer values** (`NeverOverwriteNewer` of `AriDispatch`). Eligibility
  looks at one delivery at a time: one that waits for its retry is overtaken by a newer one
  of its property and kind, then sent after it.
  `docs/channex-outbound-ari-certification-v1.md:389` says newer values supersede older
  unsent ones.
* **Requests are not spaced** (`RequestSpacing`). The spacing runs from the claim instants
  (which `ClaimSpacing` shows to be right); the requests of two replicas leave whenever each
  gets to it, even together.
* **Two materializers cross** (`SnapshotOrder` of `AriOutbox` with two of them). Each reads its
  snapshot and then takes `queuedAt`; the later `queuedAt` can belong to the older snapshot.
* **A second re-arm needs one absence** (`RearmAfterTwoAbsences` of `GuestAccessFence`). The
  absence marker keeps its count over a re-arm, so the first absent reading of the next
  ambiguity is taken for the second. The test "E15 requires repeated stable absence separated
  in time" states the rule, for a marker that starts empty.
* **A persisted revision is never acknowledged** (`PersistedIsAcked` of `BookingFeed`). Its
  acknowledgement fails, a newer revision overtakes it, and the audit entry of the
  supersession conflicts with the one already written.
* **E4 cannot make the same transition twice** (`E4NeverStuck` of `JourneyIntent`). The id of
  its audit entry is a digest of the reservation, the evidence and what was written, its start
  is not part of it, and entries are immutable: superseding and reactivating the same intents
  at the same evidence once more conflicts with the first time and rolls back, on every cycle.
* **A late commit is superseded unseen** (`SupersededIsInSnapshot`). The Full Sync supersedes
  by `createdAt`, which precedes the commit; a change that commits after the snapshot was
  read is marked superseded and sent by no one.
* **A promise of nights is not seen** (`HoldsRespected` of `ReservationModification`). A host's
  move, say, finds its night free; a guest's change of another reservation that wants it is
  confirmed at READ COMMITTED and the guest pays; the move, serializable, commits. The charge
  is taken and the change can no longer be applied. The holds that
  `availability.service.ts:111` reads are meant to prevent it. The same goes for a booking,
  for another change being applied, and for two previews that are both confirmed. No night
  is given twice for all that: `ImplementsPaidChange` holds.
* `AckedIsReconciled`, `FailedIsRetried`, `PaidNotExpired`: see sections 5 and 6.

## 9. What is proved

For every value of the constants, under each module's named assumptions.

**`AriDispatch`** (`AriDispatchProofs`, `AriDispatchPacing`, `AriDispatchLifecycle`), for any finite set of deliveries,
any set of workers, properties and kinds, any number of attempts and faults and any timing
that meets `DeliveryAssumption` (ids are positive numbers and the maps are total) and
`TimingAssumption` (durations are natural numbers, leases and the minimum pause are not
zero, the reserve fits into a lease):

| theorem | states |
|---|---|
| `IndInvHolds` | `[]IndInv`, the inductive invariant |
| `TypeCorrect` | `[]TypeOK` |
| `LedgerHolds` | `[]AttemptLedger`: attempts are numbered without gaps, the open one is the last of a PROCESSING delivery and is its token's |
| `WorkerLeaseHolds` | `[]WorkerLease`: a worker past its claim has an attempt of its own and loses its lease only by expiry |
| `SendsUnderOwnLeaseHolds` | a request leaves only for the attempt that holds the lease |
| `FencedCompletionHolds` | an attempt is closed by its own worker in time or by recovery, and never changes afterwards |
| `VerdictHolds` | a delivery's verdict is the outcome of its last attempt |
| `PauseHolds` | while a rate-limited retry waits, its property is paused at least until then |
| `SpacingHolds` | two attempts of one property and kind begin a spacing apart |
| `FullSyncHolds` | a property shows a completed Full Sync when both deliveries of a pair were sent |
| `LifecycleRefinement` | the specification implements `DeliveryLifecycle` |

`IndInv` is `TypeOK /\ AttemptLedger /\ WorkerLease`. The parts need one another. A claim
opens attempt `attemptCount + 1`, and that this row was absent is the ledger's; that no
other worker carries the new token is the lease's, since the tokens carried for a row are
at most its attempt count. A completion closes the row's last attempt; that this is the
worker's own follows from the equality of tokens and, by the ledger, of the token and the
attempt count. That a request goes out under a live lease needs the second half of
`WorkerLease`: a token taken from a worker was taken after its expiry, while the guard of
`SendHttpRequest` says it has not expired. The two action properties then follow from
`IndInv` and one step. The proof has a lemma per action (or family of actions alike), each
split by the conjuncts the action disturbs, a lemma on the worker records a batch resumes
with, and combines them for `Next`.

`AriDispatchPacing` builds on `IndInv`. Every step is one of three kinds as far as attempts go:
it *settles* one, *opens* one, or is *quiet*; the verdict and the pause follow by these
kinds, and the spacing from `SlotInv`: the next allowed instant of a property and kind is a
spacing past the last attempt of it, although the claim is judged at an instant read before
its transaction. `FullSyncHolds` needs that a SENT delivery changes no more (only a success makes one,
and a success looks at the sibling in the same transaction), and one assumption more,
`SiblingAssumption`: the sibling of a sibling is the delivery itself, of the same property. The
code finds siblings by organization, property, provider and correlation
(`attempt-completion.service.ts:81`), which is symmetric.

`AriDispatchLifecycle` shows each step to be one of the abstract lifecycle, or none. Two facts
about the world outside the database are added to `IndInv` as `EffectInv`: a request on the wire
belongs to an attempt begun, which makes its late effect one the lifecycle allows; and a worker
answered with a 2xx has its delivery among those applied, since Channex applies before it
answers, which makes SENT true when it is written.

**`AriOutbox`** (`AriOutboxProofs`): `Types`, `TokensAgree` (`ClaimsConsistent`), `OneDelivery`
(`ResolvedOnce`), `DeadLast`, `MergedSeen` (`MergedIsInSnapshot`), `Fenced`
(`FencedMaterialization`) and `Refinement` (`ImplementsOutbox`), for any events, partitions, materializers, leases, budgets, delays and
faults that meet `OutboxAssumption`. The invariant adds to these `TokensBounded` (a new token is
nobody's), `ClaimsCounted` (a claimed row has an attempt to its name, so that giving it back has a
delay to look up) and `Held`: a materializer that has claimed has a token and a batch that is not
empty, its batch was committed, and a snapshot it holds contains the batch and committed changes
only. Every step is of one of five kinds as far as
rows go: it produces an event, releases claims, claims a batch, creates a delivery, or leaves them
alone. `StepKinds` proves that, and each part of the invariant is then preserved kind by kind.
No part mentions the time of the recheck: an expired claim that nobody has recovered could still
be made into a delivery without harm to them, since the token is the fence. `Held` is what makes a
snapshot read under a claim that has since been lost harmless. For `Refinement` each kind is a step
of `ChangeOutbox` or none: a claim counts its try, a release gives back what has tries left and
buries the rest, a creation is a `Send`, whose values `Held` shows to be of committed changes.
`DeadLast` follows from it too, since only `GiveBack` makes a change dead.

**`BookingFeed`** (`BookingFeedProofs`), for any workers, events, revisions, prices and
payments:

| theorem | states |
|---|---|
| `Types` | `[]TypeOK` |
| `AcknowledgedIsRecorded` | `[]AckedIsRecorded`: nothing is acknowledged without an audit entry that says it was persisted or superseded |
| `RolledBackOnlyPastGuard` | `RolledBackPastGuard`: the reservation goes back in time only where the guard compares nothing, since it is PAID or the older revision has another price |

The second adds to typing that a worker about to acknowledge, or that just has, has the
entry (`Backed`); entries that accept a revision never change. The third says that the two
bypasses `feed_race` goes through are the only ones. Two lemmas, `MirrorWhereGuarded` (the
specification implements `RevisionMirror`) and `AppliedWhereGuarded` (`AckedIsApplied`), are
conditional: they assume that nothing is collected and that there is one price
(`GuardEffective`), the second also that no two revisions share an instant. The code ensures
neither, so they are not listed as results; they say that the bypasses, and equal instants,
are all that stands between the code and what its document promises.

In `Types`, what is not obvious is the bound on an event's attempts. The claim does not look at
them again, so an event may be claimed beyond its limit, by every recovery worker but one. The
invariant `Limited` counts: while attempts are past the limit, they and the recovery workers
still to claim what they scanned earlier are together at most `MaxAttempts` and one per worker
less one. It assumes `BoundAssumption`: finitely many workers, limits of at least one (both
configurations enforce that).

**`GuestAccessFence`** (`GuestAccessFenceProofs`), for any finite set of grants, any replicas,
codes, budget, durations and faults that meet `FenceAssumption`, either kind of lock and either
owner:

| theorem | states |
|---|---|
| `Invariant` | `[]Inv`, the inductive invariant |
| `Types` | `[]TypeOK` |
| `OneFence` | `[]OneFenceHeld`: one grant at most is claimed, executing or active |
| `Budget` | `[]CallsWithinBudget`: no more physical calls than attempts |
| `NoSecondCredential` | `[]OneCredential`, if re-arming is off (the default of the deployment) |
| `CredentialWorks` | `[]ReleasedCredentialWorks`, on a lock with a gateway |
| `FirstRearmObserved` | a grant's first re-arm follows two absent readings of its present ambiguity |

A lemma, `FirstRearmWhereOutlasted`, adds `[]FirstRearmSafe` if `AbsenceMinMs > EffectMs + TickMs`,
which the code does not ensure; with the two sides equal TLC refutes it. Each hypothesis of a
theorem is one of `guest_pair` or `guest_owner`, and each is needed: on a lock without gateway a call that returns late deletes the
passcode that E15 adopted (`ttlock.brain.ts:299`). The invariant is in four parts.
*Fences*: `OneFenceHeld` alone is not inductive, since a call outlives its fence and activates the
grant when it returns. `OneEngaged` therefore counts a grant with such a call as engaged, and
`CallsFenced` says its fence is not IDLE, so that a sibling's claim finds it blocking; giving back a
claim restores the fence found (`FenceKept`), which must not be IDLE over a call either.
*Calls*: `Counted` relates the calls made to the attempts, one fewer while a claim is undecided.
*Passcodes*: a call is *hot* while it may still create a passcode or has one on the lock. `OneHot`
says there is one at most and that no claim starts beside it, as long as no grant was re-armed or
only once after readings that outlast its calls (`Sheltered`); `Standing` says that a lock with a gateway
loses none. *Time*: `Timely`, `MarkersCover` and `AbsenceFinal` say that a reading which finds nothing
`AbsenceMinMs` after the marker finds what is final: the marker bears the start of a tick, no call of
the grant began later than `TickMs` after it, and its effect comes within `EffectMs`. Every step is of one of
nine kinds (`Kinds`: what happens to a row, an adoption, a re-arm, a claim, a beginning, a tick,
a reading, time, a call), and each part is preserved kind by kind. `FirstRearmObserved` adds
`AbsencesCover`: a marker that counts one stands for one reading, and a process that has read
nothing, its row unmoved, has added another.

**`ReservationModification`** (`ReservationModificationProofs`): `Types`, `OneChangeAtATime`,
`QuotesStand`, `OneDelivery` and `Refinement` (the specification implements
`PaidChange`), for any reservations, changes, nights and handlers that meet
`ChangeAssumption`. The invariant is `WebhookInv` (typing, what a claim under way says of
the ledger, that evidence is of a paid session, one handler per event), `Previewed` (a
request whose version is still the row's has read the stay as it is), `Stayed`, `OneActive`
and `QuoteStands`. The last two need one another: a confirmation that expires rivals keeps
both; an apply moves the stay, which would break a rival's quote were there one. That a
later write of the stay is seen by a confirmation rests on every such write moving the
version, which is `Previewed`'s reason. `Refinement` needs no
more about a check than that the commit finds the stays free: a stale hold costs the guest
the change, not another guest the night.

**`JourneyIntent`** (`JourneyIntentProofs`): `Types`, `OneActive`, `ClaimsBacked`, `LivePreserved`,
`OutcomesKept`, `LedgerKept` (it implements `IntentLedger`) and `OneAttemptAtATime`, for any evidence, any number of owner processes, any budget, lease and
delays, under `JourneyAssumption`. The invariant is `TypeOK`, `HandlerSaid` (a worker completes
with what its handler said), `E4Covers`, `OneActiveIntent` and `ClaimHasAttempt`. `E4Covers` is
the reason one intent is active at most although E4 decides on old reads: nobody but E4
activates an intent, so every intent active when it writes was active when it read, and was
therefore superseded or blocks its replacement. `LivePreserved` follows from one step and the
fact that E4's instant lies in the past; `OutcomesKept` from the guards of claim and completion,
since only attempts in flight, and numbers never used, are written. `LedgerKept` needs one
invariant more, `Numbered`: the attempts before the one under way are closed, and a RETRYABLE
intent has closed its last one and has budget left. Without it a retry could open an attempt
past a gap, and an intent that waits for its retry could be exhausted with nothing in flight.
E4's writing maps to the one decision of the ledger by `E4Covers` and `OneActiveIntent`, a claim
to a beginning or, of a stale lease, to a take-over, a completion to a closing, and every other
step to none. The refinement implies `OutcomesFinal`, which no run checks on its own.

Every safety and action property of a passing run has its theorem but three, `FirstRearmSafe`,
`MirrorsForward` and `AckedIsApplied`: those hold under conditions the code does not ensure, and
have conditional lemmas. Only model-checked: `EventuallySettled`, `EventuallyResolved`,
`EventResolved` and `IntentSettled`, liveness under fairness, which is out of the prover's reach.

## 10. Variants


An operator `X_Y` in a module is `X` with one plausible bug, which the specification
never uses; it records what the properties are sensitive to:

| variant | bug | refused by |
|---|---|---|
| `OwnRequest_BeforeClaim` | the request is numbered by the count before the claim | `TypeOK` |
| `ReleasedRow_KeepsToken` | the token is not cleared | `AttemptLedger` |
| `Stale_AnyProcessing` | recovery ignores the expiry | `SendsUnderOwnLease` |
| `MayComplete_AnyToken` | completion does not compare tokens | `FencedCompletion` |
| `ClassifyAttempt_AnyAnswer` | any server answer counts as success | `ImplementsLifecycle` |
| `Exhausted_OneMore`, `Exhausted_OneLess` | off by one at the last attempt | `EventuallySettled`, `VerdictMatchesLastAttempt` |
| `laterDate_LastWins` | the last pause written wins | `PauseCoversRetry` |
| `HasSentCorrelatedFullSyncSibling_AnyStatus` | the sibling need not be sent | `FullSyncRecorded` |
| `Eligible_NotThrottled` | the claim ignores the spacing | `ClaimSpacing` |
| `ClaimExpiry_Past` | the lease is subtracted | `TypeOK` |
| `ClaimHolds_Unfenced` | the insert trusts its batch | `ResolvedOnce` |
| `ClaimHolds_AnyToken` | the insert does not compare tokens | `FencedMaterialization` |
| `ReleasedRow_Early`, `ReleasedRow_Forever` (outbox) | dead one attempt early; never dead | `ImplementsOutbox`, `EventuallyResolved` |
| `BatchOf_AnyMode` | Full Syncs and increments share a batch | `ClaimsConsistent` |
| `SnapshotOf_CycleStart` | a stale snapshot | `MergedIsInSnapshot` |
| `Quarantined_KeepsLease` | a quarantined grant keeps its token | `TypeOK` |
| `FailAmbiguous_Retried` | a call of unknown outcome is retried | `OneCredential` |
| `SiblingsClear_Unchecked` | a claim ignores the reservation's other grants | `OneFenceHeld` |
| `Observations_Unseparated` | absent readings need no time between them | `FirstRearmSafe` |
| `AfterLostPersist_Deletes` | a lost conditional save deletes the passcode on every lock | `ReleasedCredentialWorks` |
| `BudgetLeft_OneMore` | off by one at the last attempt | `CallsWithinBudget` |
| `EndRun_KeepsLock` | the feed's lock is not released | `TypeOK` |
| `RejectedRow_Silent` | a refused cancellation leaves no mark | `AckedIsApplied` |
| `Refused_OnlySuccess` | a conflicting entry of a failure does not stop the acknowledgement | `AckedIsRecorded` |
| `Unchanged_SameOnly` | the guard lets older revisions through | `MirrorsForward` |
| `Dies_OnlyFailed` | an exhausted stale event does not die | `EventResolved` |
| `Deadline_Unset` | a change awaiting payment gets no deadline | `TypeOK` |
| `ActiveStatuses_Unpaid` | a change being paid does not count as active | `OneActive` |
| `Fresh_AnyVersion` | the confirmation does not compare versions | `QuoteStands` |
| `Reclaimable_Unfinished` | a retry may claim an event in progress | `OneHandlerPerEvent` |
| `Applicable_Unchecked` | the apply does not look at availability again | `ImplementsPaidChange` |
| `Wanted_Unblocked` | an obsolete intent that stays does not block its replacement | `OneActiveIntent` |
| `Superseded_AnyLease` | the supersession compares the status only | `LiveClaimsPreserved` |
| `NumberTaken_Upserted` | the attempt row is upserted | `ImplementsLedger` |
| `Claimable_Unrecovered` | a stale lease is left alone | `IntentSettled` |

## 11. Not modelled, and the plan

Left out of the modules: wall-clock skew between replicas; the starvation of other
properties when a paused property's backlog fills a scan; failures that never stop; date
arithmetic and value rendering; of a modification, what section 6 names. PROJECT.json says
of every component left out why.

Next, in this order:

1. `AriPipeline`: the two halves of the ARI pipeline in one tick, a delivery carrying its
   snapshot, with the abstract specification of an outbox (every committed change is
   applied, or its event dead).
2. The other owner runtimes (communications, compliance, financial), which repeat the
   protocol of `JourneyIntent` with handlers that do have side effects.
3. `DamagePayment`, `MobileCredential`, the stay-time variants of a modification.

Not proved: liveness, and that the fence of the guest's access implements an abstract
specification; its theorems state its invariants and actions one by one.
