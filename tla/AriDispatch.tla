---------------------------- MODULE AriDispatch ----------------------------
(***************************************************************************)
(* The dispatch half of the Channex ARI outbound pipeline                  *)
(* (src/src/pms/outbound): worker processes select due deliveries, claim   *)
(* them under a lease, POST the stored payload to Channex, and record the  *)
(* outcome of the attempt.                                                 *)
(*                                                                         *)
(* The rows of ChannexAriDelivery, ChannexAriDeliveryAttempt and           *)
(* ChannexAriPropertyState are `delivery', `attempt' and `propertyState';  *)
(* each database transaction of the code runs at Serializable isolation    *)
(* and is one step here.  What a worker read before a transaction (the     *)
(* selected actions, the claim instant, the completion instant, its lease) *)
(* is kept in `worker', so another process can act in between.             *)
(*                                                                         *)
(* An operator named X_Y is X with one plausible bug, Y: the specification *)
(* never uses it, and the README says which property refuses it.           *)
(***************************************************************************)
EXTENDS Integers, FiniteSets

CONSTANTS
    Delivery,       \* delivery ids, numbered in creation order (createdAt, id)
    Worker,         \* dispatch worker processes
    Property,       \* rental properties
    Kind,           \* message kinds: AVAILABILITY, RATES_RESTRICTIONS
    PropertyOf,     \* PropertyOf[d] is the property of delivery d
    KindOf,         \* KindOf[d] is the message kind of delivery d
    Sibling,        \* correlated FULL delivery of the other kind; d itself if d is INCREMENTAL
    MaxAttempts,    \* CHANNEX_ARI_MAX_ATTEMPTS
    LeaseMs,        \* lease granted by a claim
    BudgetMs,       \* HTTP timeout plus completion reserve
    SpacingMs,      \* CHANNEX_ARI_MIN_SAME_KIND_SPACING_MS
    MinPauseMs,     \* CHANNEX_ARI_MIN_RATE_LIMIT_PAUSE_MS
    BackoffMs,      \* BackoffMs[n]: capped exponential delay after attempt n
    JitterMs,       \* CHANNEX_ARI_JITTER_MS, added to every retry delay
    RetryAfterMs,   \* values a Retry-After header can carry (0: absent)
    SelectionLimit, \* actions per batch
    ScanLimit,      \* candidate rows each selection query takes
    MaxFaults       \* bound: crashes, failed actions and abandoned requests in one behaviour

ASSUME DeliveryAssumption ==
    /\ Delivery \subseteq Nat \ {0} /\ IsFiniteSet(Delivery)
    /\ PropertyOf \in [Delivery -> Property]
    /\ KindOf \in [Delivery -> Kind]
    /\ Sibling \in [Delivery -> Delivery]

\* Siblings are of one property and correlation, so each is the other's.
ASSUME SiblingAssumption ==
    \A d \in Delivery : Sibling[Sibling[d]] = d /\ PropertyOf[Sibling[d]] = PropertyOf[d]

ASSUME TimingAssumption ==
    /\ MaxAttempts \in Nat \ {0}
    /\ LeaseMs \in Nat \ {0}
    /\ BudgetMs \in Nat /\ BudgetMs <= LeaseMs
    /\ SpacingMs \in Nat
    /\ MinPauseMs \in Nat \ {0}
    /\ BackoffMs \in [1..MaxAttempts -> Nat]
    /\ JitterMs \in Nat
    /\ RetryAfterMs \subseteq Nat
    /\ SelectionLimit \in Nat /\ ScanLimit \in Nat /\ MaxFaults \in Nat

VARIABLES
    clock,          \* wall clock every process reads
    delivery,       \* ChannexAriDelivery rows
    attempt,        \* ChannexAriDeliveryAttempt rows, by delivery and attempt number
    propertyState,  \* ChannexAriPropertyState rows
    worker,         \* local state of each worker process
    wire,           \* requests sent to Channex and not yet handled by it
    channex,        \* the delivery whose values Channex holds, per property and kind
    applied,        \* history: deliveries Channex has applied at least once
    faults          \* faults so far, at most MaxFaults

vars == <<clock, delivery, attempt, propertyState, worker, wire, channex, applied, faults>>

-----------------------------------------------------------------------------
(* Rows and local states.  0 stands for a null instant, token or row id.   *)

DeliveryStatus == {"ABSENT", "READY", "PROCESSING", "RETRY_WAIT", "SENT", "DEAD"}
Terminal == {"SENT", "DEAD"}
Waiting == {"READY", "RETRY_WAIT"}

DeliveryRow == [status: DeliveryStatus, attemptCount: 0..MaxAttempts, nextAttemptAt: Nat,
                leaseToken: 0..MaxAttempts, leaseExpiresAt: Nat, queuedAt: Nat]

AttemptOutcome == {"ABSENT", "IN_FLIGHT", "SUCCESS", "RETRYABLE_FAILURE",
                   "TERMINAL_FAILURE", "UNKNOWN_AFTER_LEASE"}
AttemptRow == [outcome: AttemptOutcome, startedAt: Nat]

PropertyRow == [pausedUntil: Nat, nextAllowedAt: [Kind -> Nat], lastFullSyncCompletedAt: Nat]

\* What the HTTP client reports: a response class, or no response at all.
HttpResponse == {"2xx", "2xx_WARNINGS", "429", "5xx", "4xx"}
Evidence == [result: HttpResponse \cup {"NO_RESPONSE"}, retryAfterMs: RetryAfterMs \cup {0}]
NoEvidence == [result |-> "NO_RESPONSE", retryAfterMs |-> 0]

\* One selected action: RECOVER_STALE_LEASE or CLAIM, in its place in the batch.
Action == [rank: Nat, recover: BOOLEAN, delivery: Delivery, attemptCount: 0..MaxAttempts]

WorkerState == [pc: {"idle", "batch", "preflight", "claiming", "claimed", "waiting", "answered"},
                todo: SUBSET Action, job: Delivery \cup {0}, expectedAttempt: Nat,
                now: Nat, leaseToken: 0..MaxAttempts, leaseExpiresAt: Nat, evidence: Evidence]
Idle == [pc |-> "idle", todo |-> {}, job |-> 0, expectedAttempt |-> 0,
         now |-> 0, leaseToken |-> 0, leaseExpiresAt |-> 0, evidence |-> NoEvidence]

Request == [delivery: Delivery, attempt: 1..MaxAttempts]

TypeOK ==
    /\ clock \in Nat \ {0}
    /\ delivery \in [Delivery -> DeliveryRow]
    /\ attempt \in [Delivery -> [1..MaxAttempts -> AttemptRow]]
    /\ propertyState \in [Property -> PropertyRow]
    /\ worker \in [Worker -> WorkerState]
    /\ wire \subseteq Request
    /\ channex \in [Property \X Kind -> Delivery \cup {0}]
    /\ applied \subseteq Delivery
    /\ faults \in 0..MaxFaults

Init ==
    /\ clock = 1
    /\ delivery = [d \in Delivery |->
                     [status |-> "ABSENT", attemptCount |-> 0, nextAttemptAt |-> 0,
                      leaseToken |-> 0, leaseExpiresAt |-> 0, queuedAt |-> 0]]
    /\ attempt = [d \in Delivery |-> [n \in 1..MaxAttempts |->
                     [outcome |-> "ABSENT", startedAt |-> 0]]]
    /\ propertyState = [p \in Property |->
                     [pausedUntil |-> 0, nextAllowedAt |-> [k \in Kind |-> 0],
                      lastFullSyncCompletedAt |-> 0]]
    /\ worker = [w \in Worker |-> Idle]
    /\ wire = {}
    /\ channex = [pk \in Property \X Kind |-> 0]
    /\ applied = {}
    /\ faults = 0

-----------------------------------------------------------------------------
(* What the policies compute.                                              *)

Partition(d) == <<PropertyOf[d], KindOf[d]>>

MaxMs(a, b) == IF a >= b THEN a ELSE b

\* The later of two instants; a null one (0) never wins.
laterDate_LastWins(a, b) == b
laterDate(a, b) == IF a >= b THEN a ELSE b

\* 5xx and lost answers are retried, a clean 2xx succeeds, all else is final.
ClassifyAttempt_AnyAnswer(result) ==
    CASE result \in {"2xx", "5xx"} -> "SUCCESS"
      [] result \in {"429", "NO_RESPONSE"} -> "RETRYABLE"
      [] OTHER -> "TERMINAL"
ClassifyAttempt(result) ==
    CASE result = "2xx" -> "SUCCESS"
      [] result \in {"429", "5xx", "NO_RESPONSE"} -> "RETRYABLE"
      [] OTHER -> "TERMINAL"

Exhausted_OneMore(n) == n > MaxAttempts
Exhausted_OneLess(n) == n >= MaxAttempts - 1
Exhausted(n) == n >= MaxAttempts

GetRetryDelayMs(n, retryAfterMs) ==
    MaxMs(MinPauseMs, MaxMs(retryAfterMs, BackoffMs[n])) + JitterMs

PropertyPause(now, requestedMs, retryAfterMs) ==
    now + MaxMs(MinPauseMs, MaxMs(requestedMs, retryAfterMs))

Eligible_NotThrottled(d, now) ==
    /\ delivery[d].status \in Waiting
    /\ delivery[d].attemptCount < MaxAttempts
    /\ delivery[d].nextAttemptAt <= now
    /\ propertyState[PropertyOf[d]].pausedUntil <= now
Eligible(d, now) ==
    /\ delivery[d].status \in Waiting
    /\ delivery[d].attemptCount < MaxAttempts
    /\ delivery[d].nextAttemptAt <= now
    /\ propertyState[PropertyOf[d]].pausedUntil <= now
    /\ propertyState[PropertyOf[d]].nextAllowedAt[KindOf[d]] <= now

Stale_AnyProcessing(d, now) == delivery[d].status = "PROCESSING"
Stale(d, now) == delivery[d].status = "PROCESSING" /\ delivery[d].leaseExpiresAt <= now

-----------------------------------------------------------------------------
(* Selection: two bounded scans, then one action per partition, recoveries *)
(* first, oldest first, at most SelectionLimit.                            *)

ReadyAt(d) ==
    IF delivery[d].status = "PROCESSING" THEN delivery[d].leaseExpiresAt
                                         ELSE delivery[d].nextAttemptAt

Earlier(a, b) ==
    \/ ReadyAt(a) < ReadyAt(b)
    \/ /\ ReadyAt(a) = ReadyAt(b)
       /\ \/ delivery[a].queuedAt < delivery[b].queuedAt
          \/ delivery[a].queuedAt = delivery[b].queuedAt /\ a < b

Scan(S) == {d \in S : Cardinality({e \in S : Earlier(e, d)}) < ScanLimit}

Selectable(now) ==
    LET stale == Scan({d \in Delivery : Stale(d, now)})
        claimable == Scan({d \in Delivery : /\ delivery[d].status \in Waiting
                                            /\ delivery[d].attemptCount < MaxAttempts
                                            /\ delivery[d].nextAttemptAt <= now})
    IN  stale \cup {d \in claimable : Eligible(d, now)}

Before(a, b) ==
    LET priority(d) == IF delivery[d].status = "PROCESSING" THEN 0 ELSE 1
    IN  \/ priority(a) < priority(b)
        \/ priority(a) = priority(b) /\ Earlier(a, b)

SelectedActions(now) ==
    LET candidates == Selectable(now)
        heads == {d \in candidates :
                    \A e \in candidates : Partition(e) = Partition(d) => ~Before(e, d)}
        rank(d) == Cardinality({e \in heads : Before(e, d)})
    IN  {[rank |-> rank(d), recover |-> delivery[d].status = "PROCESSING",
          delivery |-> d, attemptCount |-> delivery[d].attemptCount] :
             d \in {h \in heads : rank(h) < SelectionLimit}}

-----------------------------------------------------------------------------
(* The producer: a fenced materialization inserts a READY delivery.        *)

Enqueue(d) ==
    /\ delivery[d].status = "ABSENT"
    /\ \A e \in Delivery : e < d => delivery[e].status # "ABSENT"
    /\ delivery' = [delivery EXCEPT ![d] = [@ EXCEPT !.status = "READY",
                                                     !.nextAttemptAt = clock,
                                                     !.queuedAt = clock]]
    /\ UNCHANGED <<clock, attempt, propertyState, worker, wire, channex, applied, faults>>

-----------------------------------------------------------------------------
(* One dispatch cycle of worker w: read a selection, then run its actions  *)
(* one after the other.  An action that throws is recorded as FAILED and   *)
(* the batch goes on with the next one.                                    *)

Resume(todo) == [Idle EXCEPT !.pc = IF todo = {} THEN "idle" ELSE "batch", !.todo = todo]

GoOn(w) == worker' = [worker EXCEPT ![w] = Resume(worker[w].todo)]

IsNextAction(w, a) ==
    /\ worker[w].pc = "batch"
    /\ a \in worker[w].todo
    /\ \A b \in worker[w].todo : a.rank <= b.rank

ReadDispatchSelection(w) ==
    /\ worker[w].pc = "idle"
    /\ SelectedActions(clock) # {}
    /\ worker' = [worker EXCEPT ![w] = Resume(SelectedActions(clock))]
    /\ UNCHANGED <<clock, delivery, attempt, propertyState, wire, channex, applied, faults>>

\* A delivery given back or settled: the lease is cleared with the status.
ReleasedRow_KeepsToken(row, status, nextAttemptAt) ==
    [row EXCEPT !.status = status, !.nextAttemptAt = nextAttemptAt, !.leaseExpiresAt = 0]
ReleasedRow(row, status, nextAttemptAt) ==
    [row EXCEPT !.status = status, !.nextAttemptAt = nextAttemptAt,
                !.leaseToken = 0, !.leaseExpiresAt = 0]

\* An expired lease is retired: the attempt is UNKNOWN_AFTER_LEASE, the delivery
\* waits for its next attempt or dies with its last one, the property is paused.
RecoverStaleDeliveryLease(w) ==
    \E a \in worker[w].todo :
        LET d == a.delivery
            n == delivery[d].attemptCount
            p == PropertyOf[d]
            delayMs == GetRetryDelayMs(n, 0)
        IN  /\ IsNextAction(w, a) /\ a.recover
            /\ Stale(d, clock)
            /\ attempt[d][n].outcome = "IN_FLIGHT"
            /\ delivery' = [delivery EXCEPT ![d] =
                 IF Exhausted(n) THEN ReleasedRow(@, "DEAD", 0)
                                 ELSE ReleasedRow(@, "RETRY_WAIT", clock + delayMs)]
            /\ attempt' = [attempt EXCEPT ![d][n].outcome = "UNKNOWN_AFTER_LEASE"]
            /\ propertyState' = [propertyState EXCEPT ![p].pausedUntil =
                 laterDate(@, PropertyPause(clock, IF Exhausted(n) THEN 0 ELSE delayMs, 0))]
            /\ worker' = [worker EXCEPT ![w] = Resume(@.todo \ {a})]
            /\ UNCHANGED <<clock, wire, channex, applied, faults>>

RecoverRejected(w) ==
    \E a \in worker[w].todo :
        /\ IsNextAction(w, a) /\ a.recover
        /\ ~Stale(a.delivery, clock)
        /\ worker' = [worker EXCEPT ![w] = Resume(@.todo \ {a})]
        /\ UNCHANGED <<clock, delivery, attempt, propertyState, wire, channex, applied, faults>>

PreflightPasses(a) ==
    /\ delivery[a.delivery].attemptCount = a.attemptCount
    /\ delivery[a.delivery].status \in Waiting
    /\ delivery[a.delivery].leaseToken = 0

ReadClaimPreflight(w) ==
    \E a \in worker[w].todo :
        /\ IsNextAction(w, a) /\ ~a.recover
        /\ worker' = [worker EXCEPT ![w] =
             IF PreflightPasses(a)
             THEN [Idle EXCEPT !.pc = "preflight", !.todo = worker[w].todo \ {a},
                               !.job = a.delivery, !.expectedAttempt = a.attemptCount + 1]
             ELSE Resume(@.todo \ {a})]
        /\ UNCHANGED <<clock, delivery, attempt, propertyState, wire, channex, applied, faults>>

\* Credentials are resolved; only then is the claim instant read.
ResolveCredentials(w) ==
    /\ worker[w].pc = "preflight"
    /\ worker' = [worker EXCEPT ![w] = [@ EXCEPT !.pc = "claiming", !.now = clock]]
    /\ UNCHANGED <<clock, delivery, attempt, propertyState, wire, channex, applied, faults>>

\* The claim transaction judges eligibility at the instant read before it.  When
\* the row moved on since the preflight the claim stands but the batch drops it.
ClaimDelivery(w) ==
    LET d == worker[w].job
        n == delivery[d].attemptCount + 1
        now == worker[w].now
    IN  /\ worker[w].pc = "claiming"
        /\ Eligible(d, now)
        /\ delivery' = [delivery EXCEPT ![d] =
             [@ EXCEPT !.status = "PROCESSING", !.attemptCount = n, !.nextAttemptAt = 0,
                       !.leaseToken = n, !.leaseExpiresAt = now + LeaseMs]]
        /\ attempt' = [attempt EXCEPT ![d][n] = [outcome |-> "IN_FLIGHT", startedAt |-> now]]
        /\ propertyState' = [propertyState EXCEPT
             ![PropertyOf[d]].nextAllowedAt[KindOf[d]] = now + SpacingMs]
        /\ worker' = [worker EXCEPT ![w] =
             IF n = @.expectedAttempt
             THEN [@ EXCEPT !.pc = "claimed", !.leaseToken = n, !.leaseExpiresAt = now + LeaseMs]
             ELSE Resume(@.todo)]
        /\ UNCHANGED <<clock, wire, channex, applied, faults>>

ClaimRejected(w) ==
    /\ worker[w].pc = "claiming"
    /\ ~Eligible(worker[w].job, worker[w].now)
    /\ GoOn(w)
    /\ UNCHANGED <<clock, delivery, attempt, propertyState, wire, channex, applied, faults>>

\* The request of the attempt a worker holds.
OwnRequest_BeforeClaim(w) ==
    [delivery |-> worker[w].job, attempt |-> worker[w].expectedAttempt - 1]
OwnRequest(w) == [delivery |-> worker[w].job, attempt |-> worker[w].leaseToken]

\* The request leaves only while the lease still covers timeout plus reserve.
SendHttpRequest(w) ==
    /\ worker[w].pc = "claimed"
    /\ clock < worker[w].leaseExpiresAt
    /\ worker[w].leaseExpiresAt - clock >= BudgetMs
    /\ wire' = wire \cup {OwnRequest(w)}
    /\ worker' = [worker EXCEPT ![w] = [@ EXCEPT !.pc = "waiting", !.now = clock]]
    /\ UNCHANGED <<clock, delivery, attempt, propertyState, channex, applied, faults>>

LeaseBudgetInsufficient(w) ==
    /\ worker[w].pc = "claimed"
    /\ \/ clock >= worker[w].leaseExpiresAt
       \/ worker[w].leaseExpiresAt - clock < BudgetMs
    /\ GoOn(w)
    /\ UNCHANGED <<clock, delivery, attempt, propertyState, wire, channex, applied, faults>>

-----------------------------------------------------------------------------
(* Channex and the network.  A request is handled at most once; a 5xx or a *)
(* warning answer says nothing of whether its values were stored.  A client *)
(* that gave up knows nothing at all: the request was never handled, it was *)
(* and the answer is lost, or Channex has yet to handle it.                 *)

Apply(d) ==
    /\ channex' = [channex EXCEPT ![Partition(d)] = d]
    /\ applied' = applied \cup {d}

Stores(result) ==
    CASE result = "2xx" -> {TRUE}
      [] result \in {"4xx", "429"} -> {FALSE}
      [] OTHER -> BOOLEAN

Answer(w, evidence) ==
    worker' = [worker EXCEPT ![w] = [@ EXCEPT !.pc = "answered", !.now = clock,
                                              !.evidence = evidence]]

ChannexResponds(w) ==
    /\ worker[w].pc = "waiting"
    /\ \E result \in HttpResponse :
         \E retryAfterMs \in RetryAfterMs \cup {0}, stored \in Stores(result) :
               /\ Answer(w, [result |-> result, retryAfterMs |-> retryAfterMs])
               /\ IF stored THEN Apply(worker[w].job) ELSE UNCHANGED <<channex, applied>>
    /\ wire' = wire \ {OwnRequest(w)}
    /\ UNCHANGED <<clock, delivery, attempt, propertyState, faults>>

\* The axios timeout, a refused or reset connection.
NoResponse(w) ==
    /\ worker[w].pc = "waiting"
    /\ Answer(w, NoEvidence)
    /\ \/ /\ wire' = wire \ {OwnRequest(w)}
          /\ UNCHANGED <<channex, applied, faults>>
       \/ /\ wire' = wire \ {OwnRequest(w)}
          /\ Apply(worker[w].job)
          /\ UNCHANGED faults
       \/ /\ faults < MaxFaults
          /\ faults' = faults + 1
          /\ UNCHANGED <<wire, channex, applied>>
    /\ UNCHANGED <<clock, delivery, attempt, propertyState>>

ChannexHandlesUnanswered(r) ==
    /\ r \in wire
    /\ \A w \in Worker : worker[w].pc = "waiting" => r # OwnRequest(w)
    /\ wire' = wire \ {r}
    /\ Apply(r.delivery)
    /\ UNCHANGED <<clock, delivery, attempt, propertyState, worker, faults>>

-----------------------------------------------------------------------------
(* The completion transaction, at the instant the answer was read.         *)

MayComplete_AnyToken(w) ==
    LET d == worker[w].job
    IN  /\ worker[w].now < worker[w].leaseExpiresAt
        /\ delivery[d].status = "PROCESSING"
        /\ worker[w].now < delivery[d].leaseExpiresAt
        /\ attempt[d][delivery[d].attemptCount].outcome = "IN_FLIGHT"
MayComplete(w) ==
    LET d == worker[w].job
    IN  /\ worker[w].now < worker[w].leaseExpiresAt
        /\ delivery[d].status = "PROCESSING"
        /\ worker[w].now < delivery[d].leaseExpiresAt
        /\ delivery[d].leaseToken = worker[w].leaseToken
        /\ attempt[d][delivery[d].attemptCount].outcome = "IN_FLIGHT"

Completing(w, retryClass) ==
    /\ worker[w].pc = "answered"
    /\ MayComplete(w)
    /\ ClassifyAttempt(worker[w].evidence.result) = retryClass

\* A correlated FULL sibling of the other message kind has been sent.
HasSentCorrelatedFullSyncSibling_AnyStatus(d) ==
    Sibling[d] # d /\ delivery[Sibling[d]].status # "ABSENT"
HasSentCorrelatedFullSyncSibling(d) == Sibling[d] # d /\ delivery[Sibling[d]].status = "SENT"

\* What every completion does: the delivery row, the attempt row, and the worker goes on.
Complete(w, status, nextAttemptAt, outcome) ==
    LET d == worker[w].job
    IN  /\ delivery' = [delivery EXCEPT ![d] = ReleasedRow(@, status, nextAttemptAt)]
        /\ attempt' = [attempt EXCEPT ![d][delivery[d].attemptCount].outcome = outcome]
        /\ GoOn(w)
        /\ UNCHANGED <<clock, wire, channex, applied, faults>>

CompleteSuccess(w) ==
    LET d == worker[w].job
    IN  /\ Completing(w, "SUCCESS")
        /\ Complete(w, "SENT", 0, "SUCCESS")
        /\ propertyState' = IF HasSentCorrelatedFullSyncSibling(d)
             THEN [propertyState EXCEPT
                     ![PropertyOf[d]].lastFullSyncCompletedAt = worker[w].now]
             ELSE propertyState

CompleteTerminal(w) ==
    /\ Completing(w, "TERMINAL")
    /\ Complete(w, "DEAD", 0, "TERMINAL_FAILURE")
    /\ UNCHANGED propertyState

CompleteRetryable(w) ==
    LET d == worker[w].job
        n == delivery[d].attemptCount
        now == worker[w].now
        retryAfterMs == worker[w].evidence.retryAfterMs
        delayMs == GetRetryDelayMs(n, retryAfterMs)
    IN  /\ Completing(w, "RETRYABLE")
        /\ IF Exhausted(n) THEN Complete(w, "DEAD", 0, "RETRYABLE_FAILURE")
                           ELSE Complete(w, "RETRY_WAIT", now + delayMs, "RETRYABLE_FAILURE")
        /\ propertyState' = [propertyState EXCEPT
             ![PropertyOf[d]].pausedUntil = laterDate(@, PropertyPause(now, delayMs, retryAfterMs))]

CompletionRejected(w) ==
    /\ worker[w].pc = "answered"
    /\ ~MayComplete(w)
    /\ GoOn(w)
    /\ UNCHANGED <<clock, delivery, attempt, propertyState, wire, channex, applied, faults>>

-----------------------------------------------------------------------------
(* Faults and time.                                                        *)

\* The process dies; what it sent stays on the wire, what it claimed stays leased.
Crash(w) ==
    /\ worker[w].pc # "idle"
    /\ faults < MaxFaults
    /\ faults' = faults + 1
    /\ worker' = [worker EXCEPT ![w] = Idle]
    /\ UNCHANGED <<clock, delivery, attempt, propertyState, wire, channex, applied>>

\* Credentials cannot be resolved, or a claim, a send or a completion throws.
ActionFails(w) ==
    /\ worker[w].pc \in {"preflight", "claiming", "claimed", "answered"}
    /\ faults < MaxFaults
    /\ faults' = faults + 1
    /\ GoOn(w)
    /\ UNCHANGED <<clock, delivery, attempt, propertyState, wire, channex, applied>>

\* A recovery or a preflight throws (its transaction or query fails).
SelectedActionFails(w) ==
    \E a \in worker[w].todo :
        /\ IsNextAction(w, a)
        /\ faults < MaxFaults
        /\ faults' = faults + 1
        /\ worker' = [worker EXCEPT ![w] = Resume(@.todo \ {a})]
        /\ UNCHANGED <<clock, delivery, attempt, propertyState, wire, channex, applied>>

\* The instants a query or a transaction compares with the clock.  Past the last
\* of them no comparison changes any more, so the clock need not run on.
Deadlines ==
    {delivery[d].nextAttemptAt : d \in Delivery}
      \cup {delivery[d].leaseExpiresAt : d \in Delivery}
      \cup {propertyState[p].pausedUntil : p \in Property}
      \cup {propertyState[p].nextAllowedAt[k] : p \in Property, k \in Kind}

Tick ==
    /\ \E t \in Deadlines : clock < t
    /\ clock' = clock + 1
    /\ UNCHANGED <<delivery, attempt, propertyState, worker, wire, channex, applied, faults>>

Completes(w) ==
    CompleteSuccess(w) \/ CompleteTerminal(w) \/ CompleteRetryable(w) \/ CompletionRejected(w)

DispatchStep(w) ==
    \/ ReadDispatchSelection(w)
    \/ RecoverStaleDeliveryLease(w) \/ RecoverRejected(w)
    \/ ReadClaimPreflight(w) \/ ResolveCredentials(w)
    \/ ClaimDelivery(w) \/ ClaimRejected(w)
    \/ SendHttpRequest(w) \/ LeaseBudgetInsufficient(w)
    \/ Completes(w)

Next ==
    \/ \E d \in Delivery : Enqueue(d)
    \/ \E w \in Worker : \/ DispatchStep(w)
                         \/ ChannexResponds(w) \/ NoResponse(w)
                         \/ Crash(w) \/ ActionFails(w) \/ SelectedActionFails(w)
    \/ \E r \in wire : ChannexHandlesUnanswered(r)
    \/ Tick

Spec == Init /\ [][Next]_vars

\* Each worker's loop runs on, its HTTP client gives up at its timeout, and time
\* passes.  Nothing obliges a producer, Channex or a fault to act.
Fairness ==
    /\ \A w \in Worker : WF_vars(DispatchStep(w)) /\ WF_vars(NoResponse(w))
    /\ WF_vars(Tick)

FairSpec == Spec /\ Fairness

-----------------------------------------------------------------------------
(* Properties.                                                             *)

\* The attempt rows of a delivery are exactly 1..attemptCount, and the one in
\* flight is the last of a PROCESSING delivery, whose lease token is its own:
\* no interleaving of claims, completions, recoveries and crashes loses an
\* attempt, leaves a settled delivery with an open one, or opens two.
AttemptLedger ==
    \A d \in Delivery :
        /\ (delivery[d].status = "PROCESSING") <=> (delivery[d].leaseToken # 0)
        /\ delivery[d].leaseToken \in {0, delivery[d].attemptCount}
        /\ \A n \in 1..MaxAttempts :
             /\ (attempt[d][n].outcome # "ABSENT") <=> (n <= delivery[d].attemptCount)
             /\ (attempt[d][n].outcome = "IN_FLIGHT") <=> (delivery[d].leaseToken = n)

\* A worker past its claim carries an attempt of its own: nobody else carries it,
\* it knows the lease's expiry as the row has it, and it has lost the lease only
\* if that expiry has passed.
WorkerLease ==
    /\ \A w \in Worker :
         /\ worker[w].pc \notin {"idle", "batch"} => worker[w].job \in Delivery
         /\ worker[w].pc \in {"claimed", "waiting", "answered"} <=> worker[w].leaseToken # 0
         /\ worker[w].leaseToken # 0 =>
              LET row == delivery[worker[w].job]
              IN  /\ worker[w].leaseToken <= row.attemptCount
                  /\ \/ /\ row.leaseToken = worker[w].leaseToken
                        /\ row.leaseExpiresAt = worker[w].leaseExpiresAt
                     \/ /\ row.leaseToken # worker[w].leaseToken
                        /\ worker[w].leaseExpiresAt <= clock
    /\ \A v, w \in Worker :
         v # w /\ worker[v].leaseToken # 0 /\ worker[v].job = worker[w].job
            => worker[v].leaseToken # worker[w].leaseToken

\* A delivery ends as its last attempt did: SENT by a success, DEAD by a terminal
\* answer or because its last permitted attempt failed or was never heard of.
VerdictMatchesLastAttempt ==
    \A d \in Delivery : delivery[d].status \in Terminal =>
        LET last == attempt[d][delivery[d].attemptCount].outcome
        IN  /\ delivery[d].status = "SENT" => last = "SUCCESS"
            /\ delivery[d].status = "DEAD" =>
                 \/ last = "TERMINAL_FAILURE"
                 \/ /\ delivery[d].attemptCount = MaxAttempts
                    /\ last \in {"RETRYABLE_FAILURE", "UNKNOWN_AFTER_LEASE"}

\* No delivery of a property becomes due for its retry while that property's
\* pause is still to outlive the retry instant: later pauses, stale recoveries
\* and Retry-After never shorten the pause a waiting retry was given.
PauseCoversRetry ==
    \A d \in Delivery : delivery[d].status = "RETRY_WAIT" =>
        /\ delivery[d].nextAttemptAt > 0
        /\ propertyState[PropertyOf[d]].pausedUntil >= delivery[d].nextAttemptAt

\* Two attempts in one partition start at least SpacingMs apart, whichever
\* workers claimed them and however stale the instant each claim was judged at.
ClaimSpacing ==
    \A d, e \in Delivery : Partition(d) = Partition(e) =>
        \A n, m \in 1..MaxAttempts :
            /\ <<d, n>> # <<e, m>>
            /\ attempt[d][n].outcome # "ABSENT"
            /\ attempt[e][m].outcome # "ABSENT"
            => \/ attempt[d][n].startedAt >= attempt[e][m].startedAt + SpacingMs
               \/ attempt[e][m].startedAt >= attempt[d][n].startedAt + SpacingMs

\* A request goes out only for the attempt that holds the delivery's lease at
\* that moment: recovery cannot have taken it away from a slow worker before.
SendsUnderOwnLease ==
    [][\A r \in wire' \ wire : /\ delivery[r.delivery].leaseToken = r.attempt
                               /\ attempt[r.delivery][r.attempt].outcome = "IN_FLIGHT"]_vars

\* An attempt is given an outcome other than UNKNOWN_AFTER_LEASE only by the
\* worker that holds it and read its answer before the lease ran out; a recorded
\* outcome never changes, whatever late completion arrives.
FencedCompletion ==
    [][\A d \in Delivery, n \in 1..MaxAttempts :
         LET old == attempt[d][n].outcome
             new == attempt'[d][n].outcome
         IN  old # new =>
               \/ old = "ABSENT" /\ new = "IN_FLIGHT"
               \/ old = "IN_FLIGHT" /\ new = "UNKNOWN_AFTER_LEASE"
               \/ /\ old = "IN_FLIGHT"
                  /\ \E w \in Worker : /\ worker[w].pc = "answered"
                                       /\ worker[w].job = d /\ worker[w].leaseToken = n
                                       /\ worker[w].now < delivery[d].leaseExpiresAt
                                       /\ new # "UNKNOWN_AFTER_LEASE"]_vars

\* A property shows a completed Full Sync exactly when both deliveries of one
\* correlated FULL pair were sent, in whichever order and by whichever workers.
FullSyncRecorded ==
    \A p \in Property :
        (propertyState[p].lastFullSyncCompletedAt # 0) <=>
            \E d \in Delivery : /\ PropertyOf[d] = p /\ Sibling[d] # d
                                /\ delivery[d].status = "SENT"
                                /\ delivery[Sibling[d]].status = "SENT"

\* Dispatch implements the lifecycle: READY and RETRY_WAIT are PENDING there.
LifecycleStatus(d) ==
    CASE delivery[d].status \in Waiting -> "PENDING"
      [] delivery[d].status = "PROCESSING" -> "TRYING"
      [] OTHER -> delivery[d].status
Lifecycle == INSTANCE DeliveryLifecycle WITH
    MaxTries <- MaxAttempts,
    status <- [d \in Delivery |-> LifecycleStatus(d)],
    tries <- [d \in Delivery |-> delivery[d].attemptCount],
    effect <- applied

ImplementsLifecycle == Lifecycle!LifecycleSpec

\* Every enqueued delivery is settled in the end, through crashes, lost answers,
\* pauses and stale leases.
EventuallySettled ==
    \A d \in Delivery :
        (delivery[d].status # "ABSENT") ~> (delivery[d].status \in Terminal)

\* Channex is never taken back from a newer delivery of a property and kind to
\* an older one: "newer values supersede older unsent values".
NeverOverwriteNewer ==
    [][\A pk \in Property \X Kind : channex'[pk] >= channex[pk]]_vars

\* Requests of one property and kind are SpacingMs apart when they leave.
RequestSpacing ==
    [][\A v, w \in Worker :
         /\ worker[w].pc = "claimed" /\ worker'[w].pc = "waiting"
         /\ v # w /\ worker[v].pc = "waiting"
         /\ Partition(worker[v].job) = Partition(worker[w].job)
         => worker'[w].now >= worker[v].now + SpacingMs]_vars
=============================================================================
