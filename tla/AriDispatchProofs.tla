-------------------------- MODULE AriDispatchProofs --------------------------
(***************************************************************************)
(* What holds of AriDispatch for every set of deliveries, workers and      *)
(* properties and every value of its timing constants.                     *)
(***************************************************************************)
EXTENDS AriDispatch, FiniteSetTheorems, TLAPS

-----------------------------------------------------------------------------
(* Types of what the actions compute.                                      *)

LEMMA DelayType ==
    ASSUME NEW n \in 1..MaxAttempts, NEW ra \in Nat
    PROVE  /\ GetRetryDelayMs(n, ra) \in Nat
           /\ GetRetryDelayMs(n, ra) >= MinPauseMs
  <1>1. BackoffMs[n] \in Nat
    BY TimingAssumption
  <1>2. MaxMs(ra, BackoffMs[n]) \in Nat
    BY <1>1 DEF MaxMs
  <1>3. MaxMs(MinPauseMs, MaxMs(ra, BackoffMs[n])) \in Nat
        /\ MaxMs(MinPauseMs, MaxMs(ra, BackoffMs[n])) >= MinPauseMs
    BY TimingAssumption, <1>2 DEF MaxMs
  <1> QED
    BY TimingAssumption, <1>3 DEF GetRetryDelayMs

LEMMA PauseType ==
    ASSUME NEW now \in Nat, NEW requested \in Nat, NEW ra \in Nat
    PROVE  /\ PropertyPause(now, requested, ra) \in Nat
           /\ PropertyPause(now, requested, ra) >= now + requested
  BY TimingAssumption DEF PropertyPause, MaxMs

LEMMA LaterType ==
    ASSUME NEW a \in Nat, NEW b \in Nat
    PROVE  laterDate(a, b) \in Nat /\ laterDate(a, b) >= a /\ laterDate(a, b) >= b
  BY DEF laterDate

LEMMA ReleasedType ==
    ASSUME NEW row \in DeliveryRow, NEW status \in DeliveryStatus, NEW next \in Nat
    PROVE  /\ ReleasedRow(row, status, next) \in DeliveryRow
           /\ ReleasedRow(row, status, next).status = status
           /\ ReleasedRow(row, status, next).nextAttemptAt = next
           /\ ReleasedRow(row, status, next).leaseToken = 0
           /\ ReleasedRow(row, status, next).attemptCount = row.attemptCount
  <1>1. 0 \in 0..MaxAttempts
    BY TimingAssumption
  <1>2. ReleasedRow(row, status, next) \in DeliveryRow
    BY <1>1, Zenon DEF ReleasedRow, DeliveryRow
  <1> QED
    BY <1>2 DEF ReleasedRow, DeliveryRow

LEMMA IdleType ==
    /\ Idle \in WorkerState
    /\ Idle.leaseToken = 0 /\ Idle.pc = "idle" /\ Idle.todo = {}
  BY TimingAssumption DEF Idle, NoEvidence, Evidence, WorkerState

LEMMA ResumeType ==
    ASSUME NEW todo \in SUBSET Action
    PROVE  /\ Resume(todo) \in WorkerState
           /\ Resume(todo).leaseToken = 0
           /\ Resume(todo).pc \in {"idle", "batch"}
  <1>1. (IF todo = {} THEN "idle" ELSE "batch") \in {"idle", "batch"}
    OBVIOUS
  <1>2. Resume(todo) \in WorkerState
    BY <1>1, IdleType, Zenon DEF Resume, WorkerState
  <1> QED
    BY <1>1, <1>2, IdleType DEF Resume, WorkerState

LEMMA SelectedType ==
    ASSUME TypeOK, NEW now \in Nat
    PROVE  SelectedActions(now) \in SUBSET Action
  <1> DEFINE candidates == Selectable(now)
             heads == {d \in candidates :
                        \A e \in candidates : Partition(e) = Partition(d) => ~Before(e, d)}
             rank(d) == Cardinality({e \in heads : Before(e, d)})
  <1>1. heads \subseteq Delivery
    BY DEF Selectable, Scan
  <1>2. ASSUME NEW d \in Delivery
        PROVE  rank(d) \in Nat
    <2>1. IsFiniteSet({e \in heads : Before(e, d)})
      BY DeliveryAssumption, <1>1, FS_Subset
    <2> QED
      BY <2>1, FS_CardinalityType
  <1>3. ASSUME NEW d \in heads
        PROVE  [rank |-> rank(d), recover |-> delivery[d].status = "PROCESSING",
                delivery |-> d, attemptCount |-> delivery[d].attemptCount] \in Action
    <2>1. d \in Delivery
      BY <1>1
    <2>2. delivery[d].attemptCount \in 0..MaxAttempts
      BY <2>1 DEF TypeOK, DeliveryRow
    <2> QED
      BY <1>2, <2>1, <2>2 DEF Action
  <1> HIDE DEF rank, heads, candidates
  <1>4. {[rank |-> rank(d), recover |-> delivery[d].status = "PROCESSING",
          delivery |-> d, attemptCount |-> delivery[d].attemptCount] :
             d \in {h \in heads : rank(h) < SelectionLimit}} \in SUBSET Action
    BY <1>3
  <1> QED
    BY <1>4 DEF SelectedActions, rank, heads, candidates

-----------------------------------------------------------------------------
(* Type correctness is inductive together with the ledger and the leases:  *)
(* the back-off of attempt 0 does not exist, and only the ledger says that *)
(* a PROCESSING delivery has an attempt.                                   *)

IndInv == TypeOK /\ AttemptLedger /\ WorkerLease

LEMMA RowTypes ==
    ASSUME TypeOK
    PROVE  /\ \A d \in Delivery : /\ delivery[d] \in DeliveryRow
                                  /\ delivery[d].status \in DeliveryStatus
                                  /\ delivery[d].attemptCount \in 0..MaxAttempts
                                  /\ delivery[d].nextAttemptAt \in Nat
                                  /\ delivery[d].leaseToken \in 0..MaxAttempts
                                  /\ delivery[d].leaseExpiresAt \in Nat
           /\ \A d \in Delivery, n \in 1..MaxAttempts :
                /\ attempt[d][n] \in AttemptRow
                /\ attempt[d][n].outcome \in AttemptOutcome
                /\ attempt[d][n].startedAt \in Nat
           /\ \A p \in Property : /\ propertyState[p] \in PropertyRow
                                  /\ propertyState[p].pausedUntil \in Nat
                                  /\ propertyState[p].nextAllowedAt \in [Kind -> Nat]
           /\ \A w \in Worker : /\ worker[w] \in WorkerState
                                /\ worker[w].todo \in SUBSET Action
                                /\ worker[w].job \in Delivery \cup {0}
                                /\ worker[w].now \in Nat
                                /\ worker[w].expectedAttempt \in Nat
                                /\ worker[w].leaseToken \in 0..MaxAttempts
                                /\ worker[w].leaseExpiresAt \in Nat
                                /\ worker[w].evidence \in Evidence
                                /\ worker[w].evidence.retryAfterMs \in Nat
  <1>1. \A d \in Delivery : delivery[d] \in DeliveryRow
    BY DEF TypeOK
  <1>2. \A d \in Delivery, n \in 1..MaxAttempts : attempt[d][n] \in AttemptRow
    BY DEF TypeOK
  <1>3. \A p \in Property : propertyState[p] \in PropertyRow
    BY DEF TypeOK
  <1>4. \A w \in Worker : worker[w] \in WorkerState
    BY DEF TypeOK
  <1>5. \A x \in Evidence : x.retryAfterMs \in Nat
    <2>1. \A y \in RetryAfterMs \cup {0} : y \in Nat
      BY TimingAssumption
    <2> QED
      BY <2>1, Zenon DEF Evidence
  <1>6. \A r \in DeliveryRow : /\ r.status \in DeliveryStatus
                               /\ r.attemptCount \in 0..MaxAttempts
                               /\ r.nextAttemptAt \in Nat
                               /\ r.leaseToken \in 0..MaxAttempts
                               /\ r.leaseExpiresAt \in Nat
    BY Zenon DEF DeliveryRow
  <1>7. \A r \in AttemptRow : r.outcome \in AttemptOutcome /\ r.startedAt \in Nat
    BY Zenon DEF AttemptRow
  <1>8. \A r \in PropertyRow : r.pausedUntil \in Nat /\ r.nextAllowedAt \in [Kind -> Nat]
    BY Zenon DEF PropertyRow
  <1>9. \A r \in WorkerState : /\ r.todo \in SUBSET Action
                               /\ r.job \in Delivery \cup {0}
                               /\ r.now \in Nat
                               /\ r.expectedAttempt \in Nat
                               /\ r.leaseToken \in 0..MaxAttempts
                               /\ r.leaseExpiresAt \in Nat
                               /\ r.evidence \in Evidence
    BY Zenon DEF WorkerState
  <1> QED
    BY <1>1, <1>2, <1>3, <1>4, <1>5, <1>6, <1>7, <1>8, <1>9, Zenon

\* Only a delivery row, only an attempt row, only a property row changed.
LEMMA DeliveryUpdate ==
    ASSUME TypeOK, NEW d \in Delivery, NEW row \in DeliveryRow,
           delivery' = [delivery EXCEPT ![d] = row]
    PROVE  delivery' \in [Delivery -> DeliveryRow]
  BY DEF TypeOK

LEMMA WorkerUpdate ==
    ASSUME TypeOK, NEW w \in Worker, NEW state \in WorkerState,
           worker' = [worker EXCEPT ![w] = state]
    PROVE  worker' \in [Worker -> WorkerState]
  BY DEF TypeOK

LEMMA OutcomeUpdate ==
    ASSUME TypeOK, NEW d \in Delivery, NEW n \in 1..MaxAttempts, NEW outcome \in AttemptOutcome,
           attempt' = [attempt EXCEPT ![d][n].outcome = outcome]
    PROVE  attempt' \in [Delivery -> [1..MaxAttempts -> AttemptRow]]
  <1>1. [attempt[d][n] EXCEPT !.outcome = outcome] \in AttemptRow
    BY RowTypes, Zenon DEF AttemptRow
  <1> QED
    BY <1>1 DEF TypeOK

LEMMA PauseUpdate ==
    ASSUME TypeOK, NEW p \in Property, NEW until \in Nat,
           propertyState' = [propertyState EXCEPT ![p].pausedUntil = laterDate(@, until)]
    PROVE  propertyState' \in [Property -> PropertyRow]
  <1>1. laterDate(propertyState[p].pausedUntil, until) \in Nat
    BY RowTypes, LaterType
  <1>2. [propertyState[p] EXCEPT !.pausedUntil = laterDate(@, until)] \in PropertyRow
    BY <1>1, RowTypes, Zenon DEF PropertyRow
  <1> QED
    BY <1>2 DEF TypeOK

LEMMA GoOnType ==
    ASSUME TypeOK, NEW w \in Worker, GoOn(w)
    PROVE  worker' \in [Worker -> WorkerState]
  BY RowTypes, ResumeType, WorkerUpdate DEF GoOn

LEMMA EnqueueType ==
    ASSUME TypeOK, NEW d \in Delivery, Enqueue(d)
    PROVE  TypeOK'
  <1>1. [delivery[d] EXCEPT !.status = "READY", !.nextAttemptAt = clock, !.queuedAt = clock]
          \in DeliveryRow
    <2>1. clock \in Nat /\ "READY" \in DeliveryStatus
      BY DEF TypeOK, DeliveryStatus
    <2> QED
      BY <2>1, RowTypes, Zenon DEF DeliveryRow
  <1> QED
    BY <1>1, DeliveryUpdate DEF Enqueue, TypeOK

\* A worker reads the selection, drops an action or gives one up: only its state changes.
LEMMA WorkerOnlyType ==
    ASSUME TypeOK, NEW w \in Worker, NEW state \in WorkerState,
           worker' = [worker EXCEPT ![w] = state],
           UNCHANGED <<clock, delivery, attempt, propertyState, wire, channex, applied>>,
           faults' \in 0..MaxFaults
    PROVE  TypeOK'
  BY WorkerUpdate DEF TypeOK

LEMMA TodoType ==
    ASSUME TypeOK, NEW w \in Worker, NEW a
    PROVE  /\ worker[w].todo \in SUBSET Action
           /\ worker[w].todo \ {a} \in SUBSET Action
           /\ Resume(worker[w].todo) \in WorkerState
           /\ Resume(worker[w].todo \ {a}) \in WorkerState
  BY RowTypes, ResumeType

LEMMA ActionType ==
    ASSUME TypeOK, NEW w \in Worker, NEW a \in worker[w].todo
    PROVE  a.delivery \in Delivery /\ a.attemptCount \in 0..MaxAttempts
  <1>1. a \in Action
    BY RowTypes
  <1> QED
    BY <1>1, Zenon DEF Action

LEMMA FaultType ==
    ASSUME TypeOK, faults < MaxFaults, faults' = faults + 1
    PROVE  faults' \in 0..MaxFaults
  BY TimingAssumption DEF TypeOK

\* The states a worker goes through between its selection and its completion.
PreflightState(w, a) ==
    [Idle EXCEPT !.pc = "preflight", !.todo = worker[w].todo \ {a},
                 !.job = a.delivery, !.expectedAttempt = a.attemptCount + 1]

LEMMA PreflightType ==
    ASSUME TypeOK, NEW w \in Worker, NEW a \in worker[w].todo
    PROVE  /\ PreflightState(w, a) \in WorkerState
           /\ PreflightState(w, a).pc = "preflight"
           /\ PreflightState(w, a).job \in Delivery
           /\ PreflightState(w, a).leaseToken = 0
  <1>1. a.delivery \in Delivery \cup {0} /\ a.attemptCount + 1 \in Nat
    BY ActionType
  <1>2. "preflight" \in {"idle", "batch", "preflight", "claiming", "claimed", "waiting", "answered"}
    OBVIOUS
  <1>3. PreflightState(w, a) \in WorkerState
    BY <1>1, <1>2, TodoType, IdleType, Zenon DEF PreflightState, WorkerState
  <1> QED
    BY <1>3, ActionType DEF PreflightState, Idle

LEMMA StateEdits ==
    ASSUME NEW s \in WorkerState, NEW t \in Nat, NEW n \in 0..MaxAttempts, NEW x \in Nat,
           NEW e \in Evidence
    PROVE  /\ [s EXCEPT !.pc = "claiming", !.now = t] \in WorkerState
           /\ [s EXCEPT !.pc = "claimed", !.leaseToken = n, !.leaseExpiresAt = x] \in WorkerState
           /\ [s EXCEPT !.pc = "waiting", !.now = t] \in WorkerState
           /\ [s EXCEPT !.pc = "answered", !.now = t, !.evidence = e] \in WorkerState
  <1> DEFINE PCs == {"idle", "batch", "preflight", "claiming", "claimed", "waiting", "answered"}
  <1>1. "claiming" \in PCs /\ "claimed" \in PCs /\ "waiting" \in PCs /\ "answered" \in PCs
    OBVIOUS
  <1>2. [s EXCEPT !.pc = "claiming", !.now = t] \in WorkerState
    BY <1>1, Zenon DEF WorkerState
  <1>3. [s EXCEPT !.pc = "claimed", !.leaseToken = n, !.leaseExpiresAt = x] \in WorkerState
    BY <1>1, Zenon DEF WorkerState
  <1>4. [s EXCEPT !.pc = "waiting", !.now = t] \in WorkerState
    BY <1>1, Zenon DEF WorkerState
  <1>5. [s EXCEPT !.pc = "answered", !.now = t, !.evidence = e] \in WorkerState
    BY <1>1, Zenon DEF WorkerState
  <1> QED
    BY <1>2, <1>3, <1>4, <1>5

LEMMA RecoverType ==
    ASSUME TypeOK, AttemptLedger, NEW w \in Worker, RecoverStaleDeliveryLease(w)
    PROVE  TypeOK'
  <1>1. PICK a \in worker[w].todo :
          LET d == a.delivery
              n == delivery[d].attemptCount
              p == PropertyOf[d]
              delayMs == GetRetryDelayMs(n, 0)
          IN  /\ delivery[d].status = "PROCESSING"
              /\ delivery' = [delivery EXCEPT ![d] =
                   IF Exhausted(n) THEN ReleasedRow(@, "DEAD", 0)
                                   ELSE ReleasedRow(@, "RETRY_WAIT", clock + delayMs)]
              /\ attempt' = [attempt EXCEPT ![d][n].outcome = "UNKNOWN_AFTER_LEASE"]
              /\ propertyState' = [propertyState EXCEPT ![p].pausedUntil =
                   laterDate(@, PropertyPause(clock, IF Exhausted(n) THEN 0 ELSE delayMs, 0))]
              /\ worker' = [worker EXCEPT ![w] = Resume(@.todo \ {a})]
              /\ UNCHANGED <<clock, wire, channex, applied, faults>>
    BY DEF RecoverStaleDeliveryLease, Stale
  <1> DEFINE d == a.delivery
             n == delivery[d].attemptCount
             delayMs == GetRetryDelayMs(n, 0)
             pause == PropertyPause(clock, IF Exhausted(n) THEN 0 ELSE delayMs, 0)
             row == IF Exhausted(n) THEN ReleasedRow(delivery[d], "DEAD", 0)
                                    ELSE ReleasedRow(delivery[d], "RETRY_WAIT", clock + delayMs)
  <1>2. d \in Delivery /\ PropertyOf[d] \in Property /\ clock \in Nat
    BY DeliveryAssumption, ActionType DEF TypeOK
  <1>3. n \in 1..MaxAttempts
    <2>1. n \in 0..MaxAttempts
      BY <1>2, RowTypes
    <2>2. delivery[d].leaseToken # 0 /\ delivery[d].leaseToken \in {0, n}
      BY <1>1, <1>2, Zenon DEF AttemptLedger
    <2> QED
      BY <2>1, <2>2
  <1>4. delayMs \in Nat
    BY <1>3, DelayType
  <1>5. row \in DeliveryRow
    <2>1. "DEAD" \in DeliveryStatus /\ "RETRY_WAIT" \in DeliveryStatus /\ clock + delayMs \in Nat
      BY <1>2, <1>4 DEF DeliveryStatus
    <2> QED
      BY <1>2, <2>1, RowTypes, ReleasedType
  <1>6. delivery' \in [Delivery -> DeliveryRow]
    BY <1>1, <1>2, <1>5, DeliveryUpdate
  <1>7. attempt' \in [Delivery -> [1..MaxAttempts -> AttemptRow]]
    BY <1>1, <1>2, <1>3, OutcomeUpdate DEF AttemptOutcome
  <1>8. pause \in Nat
    BY <1>2, <1>4, PauseType
  <1>9. propertyState' \in [Property -> PropertyRow]
    BY <1>1, <1>2, <1>8, PauseUpdate
  <1>10. worker' \in [Worker -> WorkerState]
    BY <1>1, TodoType, WorkerUpdate
  <1> QED
    BY <1>1, <1>6, <1>7, <1>9, <1>10 DEF TypeOK

\* A claim finds its delivery and numbers an attempt that is still permitted.
LEMMA ClaimNumber ==
    ASSUME TypeOK, WorkerLease, NEW w \in Worker, ClaimDelivery(w)
    PROVE  /\ worker[w].job \in Delivery
           /\ delivery[worker[w].job].attemptCount + 1 \in 1..MaxAttempts
  <1>1. worker[w].job \in Delivery
    BY DEF ClaimDelivery, WorkerLease
  <1>2. delivery[worker[w].job].attemptCount \in 0..MaxAttempts
    BY <1>1, RowTypes
  <1>3. delivery[worker[w].job].attemptCount < MaxAttempts
    BY DEF ClaimDelivery, Eligible
  <1> QED
    BY TimingAssumption, <1>1, <1>2, <1>3

LEMMA ClaimType ==
    ASSUME TypeOK, WorkerLease, NEW w \in Worker, ClaimDelivery(w)
    PROVE  TypeOK'
  <1> DEFINE d == worker[w].job
             n == delivery[d].attemptCount + 1
             now == worker[w].now
             row == [delivery[d] EXCEPT !.status = "PROCESSING", !.attemptCount = n,
                       !.nextAttemptAt = 0, !.leaseToken = n, !.leaseExpiresAt = now + LeaseMs]
             state == IF n = worker[w].expectedAttempt
                      THEN [worker[w] EXCEPT !.pc = "claimed", !.leaseToken = n,
                                             !.leaseExpiresAt = now + LeaseMs]
                      ELSE Resume(worker[w].todo)
  <1>1. d \in Delivery
    BY ClaimNumber
  <1>2. n \in 1..MaxAttempts
    BY ClaimNumber
  <1>3. now \in Nat /\ now + LeaseMs \in Nat /\ now + SpacingMs \in Nat
    BY TimingAssumption, RowTypes
  <1>4. row \in DeliveryRow
    <2>1. "PROCESSING" \in DeliveryStatus /\ 0 \in Nat /\ n \in 0..MaxAttempts
      BY <1>2 DEF DeliveryStatus
    <2> QED
      BY <1>1, <1>3, <2>1, RowTypes, Zenon DEF DeliveryRow
  <1>5. delivery' \in [Delivery -> DeliveryRow]
    BY <1>1, <1>4, DeliveryUpdate DEF ClaimDelivery
  <1>6. attempt' \in [Delivery -> [1..MaxAttempts -> AttemptRow]]
    <2>1. [outcome |-> "IN_FLIGHT", startedAt |-> now] \in AttemptRow
      BY <1>3 DEF AttemptRow, AttemptOutcome
    <2> QED
      BY <1>1, <1>2, <2>1 DEF ClaimDelivery, TypeOK
  <1>7. propertyState' \in [Property -> PropertyRow]
    <2> DEFINE p == PropertyOf[d]
               nextAllowedAt == [propertyState[p].nextAllowedAt EXCEPT ![KindOf[d]] = now + SpacingMs]
    <2>1. p \in Property /\ KindOf[d] \in Kind
      BY DeliveryAssumption, <1>1
    <2>2. nextAllowedAt \in [Kind -> Nat]
      BY <1>3, <2>1, RowTypes
    <2>3. [propertyState[p] EXCEPT !.nextAllowedAt = nextAllowedAt] \in PropertyRow
      <3> HIDE DEF nextAllowedAt
      <3>1. propertyState[p] \in PropertyRow
        BY <2>1, RowTypes
      <3> QED
        BY <2>2, <3>1, Zenon DEF PropertyRow
    <2>4. propertyState' = [propertyState EXCEPT ![p] =
                              [propertyState[p] EXCEPT !.nextAllowedAt = nextAllowedAt]]
      BY <2>1 DEF ClaimDelivery
    <2> QED
      BY <2>1, <2>3, <2>4 DEF TypeOK
  <1>8. state \in WorkerState
    <2>1. n \in 0..MaxAttempts /\ NoEvidence \in Evidence
      BY <1>2 DEF NoEvidence, Evidence
    <2>2. worker[w] \in WorkerState /\ Resume(worker[w].todo) \in WorkerState
      BY RowTypes, ResumeType
    <2>3. [worker[w] EXCEPT !.pc = "claimed", !.leaseToken = n, !.leaseExpiresAt = now + LeaseMs]
            \in WorkerState
      <3> HIDE DEF n, now
      <3> QED
        BY <1>3, <2>1, <2>2, StateEdits
    <2> QED
      BY <2>2, <2>3
  <1>9. worker' \in [Worker -> WorkerState]
    BY <1>8, WorkerUpdate DEF ClaimDelivery
  <1> QED
    BY <1>5, <1>6, <1>7, <1>9 DEF ClaimDelivery, TypeOK

LEMMA RequestType ==
    ASSUME TypeOK, WorkerLease, NEW w \in Worker, worker[w].pc \in {"claimed", "waiting", "answered"}
    PROVE  /\ worker[w].job \in Delivery
           /\ worker[w].leaseToken \in 1..MaxAttempts
           /\ OwnRequest(w) \in Request
  <1>1. worker[w].job \in Delivery /\ worker[w].leaseToken # 0
    BY Zenon DEF WorkerLease
  <1>2. worker[w].leaseToken \in 0..MaxAttempts
    BY RowTypes
  <1> QED
    BY <1>1, <1>2 DEF OwnRequest, Request

LEMMA SendType ==
    ASSUME TypeOK, WorkerLease, NEW w \in Worker, SendHttpRequest(w)
    PROVE  TypeOK'
  <1>1. OwnRequest(w) \in Request
    BY RequestType DEF SendHttpRequest
  <1>2. worker' \in [Worker -> WorkerState]
    <2>1. clock \in Nat /\ NoEvidence \in Evidence /\ 0 \in 0..MaxAttempts
      BY TimingAssumption DEF TypeOK, NoEvidence, Evidence
    <2> QED
      BY <2>1, RowTypes, StateEdits, WorkerUpdate DEF SendHttpRequest
  <1> QED
    BY <1>1, <1>2 DEF SendHttpRequest, TypeOK

LEMMA ApplyType ==
    ASSUME TypeOK, NEW d \in Delivery, Apply(d)
    PROVE  channex' \in [Property \X Kind -> Delivery \cup {0}] /\ applied' \subseteq Delivery
  <1>1. Partition(d) \in Property \X Kind
    BY DeliveryAssumption DEF Partition
  <1> QED
    BY <1>1 DEF Apply, TypeOK

LEMMA AnswerType ==
    ASSUME TypeOK, NEW w \in Worker, NEW evidence \in Evidence, Answer(w, evidence)
    PROVE  worker' \in [Worker -> WorkerState]
  <1>1. clock \in Nat /\ 0 \in 0..MaxAttempts
    BY TimingAssumption DEF TypeOK
  <1> QED
    BY <1>1, RowTypes, StateEdits, WorkerUpdate DEF Answer

LEMMA RespondsType ==
    ASSUME TypeOK, WorkerLease, NEW w \in Worker, ChannexResponds(w)
    PROVE  TypeOK'
  <1>1. PICK result \in HttpResponse :
          \E retryAfterMs \in RetryAfterMs \cup {0}, stored \in Stores(result) :
                /\ Answer(w, [result |-> result, retryAfterMs |-> retryAfterMs])
                /\ IF stored THEN Apply(worker[w].job) ELSE UNCHANGED <<channex, applied>>
    BY DEF ChannexResponds
  <1>2. PICK retryAfterMs \in RetryAfterMs \cup {0}, stored \in Stores(result) :
                /\ Answer(w, [result |-> result, retryAfterMs |-> retryAfterMs])
                /\ IF stored THEN Apply(worker[w].job) ELSE UNCHANGED <<channex, applied>>
    BY <1>1
  <1>3. [result |-> result, retryAfterMs |-> retryAfterMs] \in Evidence
    BY DEF Evidence
  <1>4. worker' \in [Worker -> WorkerState]
    BY <1>2, <1>3, AnswerType
  <1>5. channex' \in [Property \X Kind -> Delivery \cup {0}] /\ applied' \subseteq Delivery
    <2>1. worker[w].job \in Delivery
      BY RequestType DEF ChannexResponds
    <2>2. CASE stored
      BY <1>2, <2>1, <2>2, ApplyType
    <2>3. CASE ~stored
      BY <1>2, <2>3 DEF TypeOK
    <2> QED
      BY <2>2, <2>3
  <1> QED
    BY <1>4, <1>5 DEF ChannexResponds, TypeOK

LEMMA NoResponseType ==
    ASSUME TypeOK, WorkerLease, NEW w \in Worker, NoResponse(w)
    PROVE  TypeOK'
  <1>1. worker' \in [Worker -> WorkerState]
    BY AnswerType DEF NoResponse, NoEvidence, Evidence
  <1>2. wire' \subseteq Request
    BY DEF NoResponse, TypeOK
  <1>3. channex' \in [Property \X Kind -> Delivery \cup {0}] /\ applied' \subseteq Delivery
    <2>1. worker[w].job \in Delivery
      BY RequestType DEF NoResponse
    <2> QED
      BY <2>1, ApplyType DEF NoResponse, TypeOK
  <1>4. faults' \in 0..MaxFaults
    BY FaultType DEF NoResponse, TypeOK
  <1> QED
    BY <1>1, <1>2, <1>3, <1>4 DEF NoResponse, TypeOK

LEMMA HandlesType ==
    ASSUME TypeOK, NEW r \in wire, ChannexHandlesUnanswered(r)
    PROVE  TypeOK'
  <1>1. r \in Request
    BY DEF TypeOK
  <1>2. r.delivery \in Delivery
    BY <1>1, Zenon DEF Request
  <1> QED
    BY <1>2, ApplyType DEF ChannexHandlesUnanswered, TypeOK

\* The row a completion finds: its delivery is PROCESSING and has an attempt.
LEMMA CompletingRow ==
    ASSUME TypeOK, AttemptLedger, WorkerLease, NEW w \in Worker,
           worker[w].pc = "answered", MayComplete(w)
    PROVE  /\ worker[w].job \in Delivery
           /\ worker[w].leaseToken \in 1..MaxAttempts
           /\ delivery[worker[w].job].status = "PROCESSING"
           /\ delivery[worker[w].job].attemptCount \in 1..MaxAttempts
           /\ delivery[worker[w].job].leaseToken = worker[w].leaseToken
           /\ delivery[worker[w].job].attemptCount = worker[w].leaseToken
  <1>1. worker[w].job \in Delivery /\ worker[w].leaseToken \in 1..MaxAttempts
    BY RequestType
  <1>2. /\ delivery[worker[w].job].status = "PROCESSING"
        /\ delivery[worker[w].job].leaseToken = worker[w].leaseToken
    BY DEF MayComplete
  <1>3. delivery[worker[w].job].leaseToken \in {0, delivery[worker[w].job].attemptCount}
    BY <1>1, Zenon DEF AttemptLedger
  <1> QED
    BY <1>1, <1>2, <1>3

LEMMA CompleteType ==
    ASSUME TypeOK, AttemptLedger, WorkerLease, NEW w \in Worker,
           worker[w].pc = "answered", MayComplete(w),
           NEW status \in DeliveryStatus, NEW next \in Nat, NEW outcome \in AttemptOutcome,
           Complete(w, status, next, outcome),
           propertyState' \in [Property -> PropertyRow]
    PROVE  TypeOK'
  <1> DEFINE d == worker[w].job
             n == delivery[d].attemptCount
  <1>1. d \in Delivery /\ n \in 1..MaxAttempts
    BY CompletingRow
  <1>2. delivery' \in [Delivery -> DeliveryRow]
    <2>1. ReleasedRow(delivery[d], status, next) \in DeliveryRow
      BY <1>1, RowTypes, ReleasedType
    <2> QED
      BY <1>1, <2>1, DeliveryUpdate DEF Complete
  <1>3. attempt' \in [Delivery -> [1..MaxAttempts -> AttemptRow]]
    BY <1>1, OutcomeUpdate DEF Complete
  <1>4. worker' \in [Worker -> WorkerState]
    BY GoOnType DEF Complete
  <1> QED
    BY <1>2, <1>3, <1>4 DEF Complete, TypeOK

LEMMA SuccessType ==
    ASSUME TypeOK, AttemptLedger, WorkerLease, NEW w \in Worker, CompleteSuccess(w)
    PROVE  TypeOK'
  <1>1. worker[w].pc = "answered" /\ MayComplete(w) /\ Complete(w, "SENT", 0, "SUCCESS")
    BY DEF CompleteSuccess, Completing
  <1>2. propertyState' \in [Property -> PropertyRow]
    <2> DEFINE p == PropertyOf[worker[w].job]
    <2>1. p \in Property /\ worker[w].now \in Nat
      BY DeliveryAssumption, <1>1, CompletingRow, RowTypes
    <2>2. [propertyState[p] EXCEPT !.lastFullSyncCompletedAt = worker[w].now] \in PropertyRow
      BY <2>1, RowTypes, Zenon DEF PropertyRow
    <2> QED
      BY <2>1, <2>2 DEF CompleteSuccess, TypeOK
  <1>3. "SENT" \in DeliveryStatus /\ "SUCCESS" \in AttemptOutcome
    BY DEF DeliveryStatus, AttemptOutcome
  <1> QED
    BY <1>1, <1>2, <1>3, CompleteType

LEMMA TerminalType ==
    ASSUME TypeOK, AttemptLedger, WorkerLease, NEW w \in Worker, CompleteTerminal(w)
    PROVE  TypeOK'
  <1>1. worker[w].pc = "answered" /\ MayComplete(w) /\ Complete(w, "DEAD", 0, "TERMINAL_FAILURE")
    BY DEF CompleteTerminal, Completing
  <1>2. propertyState' \in [Property -> PropertyRow]
    BY DEF CompleteTerminal, TypeOK
  <1>3. "DEAD" \in DeliveryStatus /\ "TERMINAL_FAILURE" \in AttemptOutcome
    BY DEF DeliveryStatus, AttemptOutcome
  <1> QED
    BY <1>1, <1>2, <1>3, CompleteType

LEMMA RetryableType ==
    ASSUME TypeOK, AttemptLedger, WorkerLease, NEW w \in Worker, CompleteRetryable(w)
    PROVE  TypeOK'
  <1> DEFINE d == worker[w].job
             n == delivery[d].attemptCount
             now == worker[w].now
             retryAfterMs == worker[w].evidence.retryAfterMs
             delayMs == GetRetryDelayMs(n, retryAfterMs)
             pause == PropertyPause(now, delayMs, retryAfterMs)
  <1>1. worker[w].pc = "answered" /\ MayComplete(w)
    BY DEF CompleteRetryable, Completing
  <1>2. /\ d \in Delivery /\ n \in 1..MaxAttempts /\ PropertyOf[d] \in Property
        /\ now \in Nat /\ retryAfterMs \in Nat
    BY DeliveryAssumption, <1>1, CompletingRow, RowTypes
  <1>3. delayMs \in Nat
    BY <1>2, DelayType
  <1>4. pause \in Nat /\ now + delayMs \in Nat
    <2>1. now + delayMs \in Nat
      BY <1>2, <1>3
    <2>2. \A x, y, z \in Nat : PropertyPause(x, y, z) \in Nat
      BY PauseType
    <2>3. pause \in Nat
      BY <1>2, <1>3, <2>2, Zenon
    <2> QED
      BY <2>1, <2>3
  <1>5. propertyState' \in [Property -> PropertyRow]
    <2>1. propertyState' = [propertyState EXCEPT ![PropertyOf[d]].pausedUntil = laterDate(@, pause)]
      BY DEF CompleteRetryable
    <2> QED
      BY <1>2, <1>4, <2>1, PauseUpdate
  <1>6. /\ "DEAD" \in DeliveryStatus /\ "RETRY_WAIT" \in DeliveryStatus
        /\ "RETRYABLE_FAILURE" \in AttemptOutcome
    BY DEF DeliveryStatus, AttemptOutcome
  <1>7. \/ Complete(w, "DEAD", 0, "RETRYABLE_FAILURE")
        \/ Complete(w, "RETRY_WAIT", now + delayMs, "RETRYABLE_FAILURE")
    BY DEF CompleteRetryable
  <1> QED
    BY <1>1, <1>4, <1>5, <1>6, <1>7, CompleteType

LEMMA TypeStep ==
    ASSUME IndInv, [Next]_vars
    PROVE  TypeOK'
  <1> USE DEF IndInv
  <1>1. ASSUME NEW d \in Delivery, Enqueue(d) PROVE TypeOK'
    BY <1>1, EnqueueType
  <1>2. ASSUME NEW w \in Worker, ReadDispatchSelection(w) PROVE TypeOK'
    <2>1. Resume(SelectedActions(clock)) \in WorkerState
      <3>1. clock \in Nat
        BY DEF TypeOK
      <3> QED
        BY <3>1, SelectedType, ResumeType
    <2> QED
      BY <1>2, <2>1, WorkerOnlyType DEF ReadDispatchSelection, TypeOK
  <1>3. ASSUME NEW w \in Worker, RecoverStaleDeliveryLease(w) PROVE TypeOK'
    BY <1>3, RecoverType
  <1>4. ASSUME NEW w \in Worker, RecoverRejected(w) PROVE TypeOK'
    BY <1>4, TodoType, WorkerOnlyType DEF RecoverRejected, TypeOK
  <1>5. ASSUME NEW w \in Worker, ReadClaimPreflight(w) PROVE TypeOK'
    <2>1. PICK a \in worker[w].todo :
            worker' = [worker EXCEPT ![w] = IF PreflightPasses(a) THEN PreflightState(w, a)
                                            ELSE Resume(worker[w].todo \ {a})]
      BY <1>5 DEF ReadClaimPreflight, PreflightState
    <2> QED
      BY <1>5, <2>1, TodoType, PreflightType, WorkerOnlyType DEF ReadClaimPreflight, TypeOK
  <1>6. ASSUME NEW w \in Worker, ResolveCredentials(w) PROVE TypeOK'
    <2>1. [worker[w] EXCEPT !.pc = "claiming", !.now = clock] \in WorkerState
      <3>1. clock \in Nat /\ NoEvidence \in Evidence /\ 0 \in 0..MaxAttempts
        BY TimingAssumption DEF TypeOK, NoEvidence, Evidence
      <3> QED
        BY <3>1, RowTypes, StateEdits
    <2> QED
      BY <1>6, <2>1, WorkerOnlyType DEF ResolveCredentials, TypeOK
  <1>7. ASSUME NEW w \in Worker, ClaimDelivery(w) PROVE TypeOK'
    BY <1>7, ClaimType
  <1>8. ASSUME NEW w \in Worker, GoOn(w), faults' \in 0..MaxFaults,
               UNCHANGED <<clock, delivery, attempt, propertyState, wire, channex, applied>>
        PROVE TypeOK'
    BY <1>8, TodoType, WorkerOnlyType DEF GoOn
  <1>9. ASSUME NEW w \in Worker, ClaimRejected(w) PROVE TypeOK'
    BY <1>8, <1>9 DEF ClaimRejected, TypeOK
  <1>10. ASSUME NEW w \in Worker, SendHttpRequest(w) PROVE TypeOK'
    BY <1>10, SendType
  <1>11. ASSUME NEW w \in Worker, LeaseBudgetInsufficient(w) PROVE TypeOK'
    BY <1>8, <1>11 DEF LeaseBudgetInsufficient, TypeOK
  <1>12. ASSUME NEW w \in Worker, Completes(w) PROVE TypeOK'
    BY <1>8, <1>12, SuccessType, TerminalType, RetryableType DEF Completes, CompletionRejected, TypeOK
  <1>13. ASSUME NEW w \in Worker, ChannexResponds(w) PROVE TypeOK'
    BY <1>13, RespondsType
  <1>14. ASSUME NEW w \in Worker, NoResponse(w) PROVE TypeOK'
    BY <1>14, NoResponseType
  <1>15. ASSUME NEW w \in Worker, Crash(w) PROVE TypeOK'
    BY <1>15, IdleType, FaultType, WorkerOnlyType DEF Crash
  <1>16. ASSUME NEW w \in Worker, ActionFails(w) PROVE TypeOK'
    BY <1>8, <1>16, FaultType DEF ActionFails
  <1>20. ASSUME NEW w \in Worker, SelectedActionFails(w) PROVE TypeOK'
    BY <1>20, TodoType, FaultType, WorkerOnlyType DEF SelectedActionFails
  <1>17. ASSUME NEW r \in wire, ChannexHandlesUnanswered(r) PROVE TypeOK'
    BY <1>17, HandlesType
  <1>18. CASE Tick
    BY <1>18 DEF Tick, TypeOK
  <1>19. CASE UNCHANGED vars
    BY <1>19 DEF vars, TypeOK
  <1> QED
    BY <1>1, <1>2, <1>3, <1>4, <1>5, <1>6, <1>7, <1>9, <1>10, <1>11, <1>12, <1>13, <1>14,
       <1>15, <1>16, <1>17, <1>18, <1>19, <1>20 DEF Next, DispatchStep

-----------------------------------------------------------------------------
(* The ledger: a claim opens the next attempt, and whatever releases the   *)
(* delivery closes the one that is open.                                   *)

LEMMA LedgerFrame ==
    ASSUME AttemptLedger, UNCHANGED <<delivery, attempt>>
    PROVE  AttemptLedger'
  BY DEF AttemptLedger

\* What a release does to the row, and a verdict to the attempt, field by field.
LEMMA ReleaseEffect ==
    ASSUME TypeOK, NEW d \in Delivery, NEW status \in DeliveryStatus, NEW next \in Nat,
           delivery' = [delivery EXCEPT ![d] = ReleasedRow(delivery[d], status, next)]
    PROVE  /\ delivery'[d].status = status
           /\ delivery'[d].nextAttemptAt = next
           /\ delivery'[d].leaseToken = 0
           /\ delivery'[d].attemptCount = delivery[d].attemptCount
           /\ \A e \in Delivery \ {d} : delivery'[e] = delivery[e]
  <1>1. delivery[d] \in DeliveryRow
    BY RowTypes
  <1>2. delivery'[d] = ReleasedRow(delivery[d], status, next)
    BY DEF TypeOK
  <1>3. \A e \in Delivery \ {d} : delivery'[e] = delivery[e]
    BY DEF TypeOK
  <1>4. /\ ReleasedRow(delivery[d], status, next).status = status
        /\ ReleasedRow(delivery[d], status, next).nextAttemptAt = next
        /\ ReleasedRow(delivery[d], status, next).leaseToken = 0
        /\ ReleasedRow(delivery[d], status, next).attemptCount = delivery[d].attemptCount
    BY <1>1, ReleasedType
  <1> QED
    BY <1>2, <1>3, <1>4, Zenon

SetsOutcome(d, n, outcome) == attempt' = [attempt EXCEPT ![d][n].outcome = outcome]

LEMMA OutcomeEffect ==
    ASSUME TypeOK, NEW d \in Delivery, NEW n \in 1..MaxAttempts, NEW outcome \in AttemptOutcome,
           SetsOutcome(d, n, outcome)
    PROVE  \A e \in Delivery, m \in 1..MaxAttempts :
             /\ attempt'[e][m].outcome =
                  IF e = d /\ m = n THEN outcome ELSE attempt[e][m].outcome
             /\ attempt'[e][m].startedAt = attempt[e][m].startedAt
  <1> DEFINE row == [attempt[d][n] EXCEPT !.outcome = outcome]
  <1>1. row.outcome = outcome /\ row.startedAt = attempt[d][n].startedAt
    <2>1. attempt[d][n] \in AttemptRow
      BY RowTypes
    <2> QED
      BY <2>1 DEF AttemptRow
  <1>2. attempt' = [attempt EXCEPT ![d] = [attempt[d] EXCEPT ![n] = row]]
    BY DEF SetsOutcome
  <1> HIDE DEF row
  <1>3. \A e \in Delivery \ {d} : attempt'[e] = attempt[e]
    BY <1>2 DEF TypeOK
  <1>4. \A m \in 1..MaxAttempts : attempt'[d][m] = IF m = n THEN row ELSE attempt[d][m]
    <2>1. attempt'[d] = [attempt[d] EXCEPT ![n] = row]
      BY <1>2 DEF TypeOK
    <2>2. attempt[d] \in [1..MaxAttempts -> AttemptRow]
      BY DEF TypeOK
    <2> QED
      BY <2>1, <2>2
  <1> QED
    BY <1>1, <1>3, <1>4

LEMMA LedgerRelease ==
    ASSUME TypeOK, AttemptLedger, NEW d \in Delivery,
           delivery[d].leaseToken # 0,
           delivery'[d].status # "PROCESSING",
           delivery'[d].leaseToken = 0,
           delivery'[d].attemptCount = delivery[d].attemptCount,
           \A e \in Delivery \ {d} : delivery'[e] = delivery[e],
           NEW outcome \in AttemptOutcome \ {"ABSENT", "IN_FLIGHT"},
           \A e \in Delivery, m \in 1..MaxAttempts :
             attempt'[e][m].outcome = IF e = d /\ m = delivery[d].attemptCount
                                      THEN outcome ELSE attempt[e][m].outcome
    PROVE  AttemptLedger'
  <1> DEFINE n == delivery[d].attemptCount
  <1>1. n \in 1..MaxAttempts /\ delivery[d].leaseToken = n
    <2>1. n \in 0..MaxAttempts
      BY RowTypes
    <2>2. delivery[d].leaseToken \in {0, n}
      BY Zenon DEF AttemptLedger
    <2> QED
      BY <2>1, <2>2
  <1>2. \A m \in 1..MaxAttempts :
          /\ (attempt[d][m].outcome # "ABSENT") <=> (m <= n)
          /\ (attempt[d][m].outcome = "IN_FLIGHT") <=> (n = m)
    BY <1>1 DEF AttemptLedger
  <1>3. \A m \in 1..MaxAttempts :
          /\ (attempt'[d][m].outcome # "ABSENT") <=> (m <= delivery'[d].attemptCount)
          /\ (attempt'[d][m].outcome = "IN_FLIGHT") <=> (delivery'[d].leaseToken = m)
    BY <1>1, <1>2
  <1>4. ASSUME NEW e \in Delivery
        PROVE  /\ (delivery'[e].status = "PROCESSING") <=> (delivery'[e].leaseToken # 0)
               /\ delivery'[e].leaseToken \in {0, delivery'[e].attemptCount}
               /\ \A m \in 1..MaxAttempts :
                    /\ (attempt'[e][m].outcome # "ABSENT") <=> (m <= delivery'[e].attemptCount)
                    /\ (attempt'[e][m].outcome = "IN_FLIGHT") <=> (delivery'[e].leaseToken = m)
    <2>1. CASE e = d
      BY <1>3, <2>1
    <2>2. CASE e # d
      BY <2>2 DEF AttemptLedger
    <2> QED
      BY <2>1, <2>2
  <1> QED
    BY <1>4, Zenon DEF AttemptLedger

LEMMA LedgerClaim ==
    ASSUME TypeOK, AttemptLedger, WorkerLease, NEW w \in Worker, ClaimDelivery(w)
    PROVE  AttemptLedger'
  <1> DEFINE d == worker[w].job
             n == delivery[d].attemptCount + 1
  <1>1. d \in Delivery
    BY ClaimNumber
  <1>2. n \in 1..MaxAttempts
    BY ClaimNumber
  <1>3. delivery[d].leaseToken = 0
    BY <1>1 DEF ClaimDelivery, Eligible, Waiting, AttemptLedger
  <1>4. /\ delivery'[d].status = "PROCESSING"
        /\ delivery'[d].leaseToken = n
        /\ delivery'[d].attemptCount = n
    <2> HIDE DEF n
    <2>1. delivery[d] \in DeliveryRow
      BY <1>1, RowTypes
    <2>2. delivery'[d] = [delivery[d] EXCEPT !.status = "PROCESSING", !.attemptCount = n,
                            !.nextAttemptAt = 0, !.leaseToken = n,
                            !.leaseExpiresAt = worker[w].now + LeaseMs]
      BY <1>1 DEF ClaimDelivery, TypeOK, n
    <2> QED
      BY <2>1, <2>2 DEF DeliveryRow
  <1>5. \A e \in Delivery \ {d} : delivery'[e] = delivery[e] /\ attempt'[e] = attempt[e]
    BY DEF ClaimDelivery, TypeOK
  <1>6. \A m \in 1..MaxAttempts :
          attempt'[d][m].outcome = IF m = n THEN "IN_FLIGHT" ELSE attempt[d][m].outcome
    BY <1>1, <1>2 DEF ClaimDelivery, TypeOK
  <1>7. \A m \in 1..MaxAttempts :
          /\ (attempt[d][m].outcome # "ABSENT") <=> (m <= n - 1)
          /\ attempt[d][m].outcome # "IN_FLIGHT"
    <2>1. delivery[d].attemptCount \in Nat
      BY <1>1, RowTypes
    <2> QED
      BY <1>1, <1>3, <2>1 DEF AttemptLedger
  <1>8. \A m \in 1..MaxAttempts :
          /\ (attempt'[d][m].outcome # "ABSENT") <=> (m <= delivery'[d].attemptCount)
          /\ (attempt'[d][m].outcome = "IN_FLIGHT") <=> (delivery'[d].leaseToken = m)
    <2> HIDE DEF n
    <2> QED
      BY <1>2, <1>4, <1>6, <1>7
  <1>9. ASSUME NEW e \in Delivery
        PROVE  /\ (delivery'[e].status = "PROCESSING") <=> (delivery'[e].leaseToken # 0)
               /\ delivery'[e].leaseToken \in {0, delivery'[e].attemptCount}
               /\ \A m \in 1..MaxAttempts :
                    /\ (attempt'[e][m].outcome # "ABSENT") <=> (m <= delivery'[e].attemptCount)
                    /\ (attempt'[e][m].outcome = "IN_FLIGHT") <=> (delivery'[e].leaseToken = m)
    <2>1. CASE e = d
      BY <1>2, <1>4, <1>8, <2>1
    <2>2. CASE e # d
      BY <1>5, <2>2 DEF AttemptLedger
    <2> QED
      BY <2>1, <2>2
  <1> QED
    BY <1>9, Zenon DEF AttemptLedger

\* Every release of a delivery has this shape: the open attempt is closed with
\* `outcome', the lease goes with the status, nothing else in the rows moves.
Releases(d, outcome) ==
    /\ delivery[d].leaseToken # 0
    /\ delivery'[d].status # "PROCESSING"
    /\ delivery'[d].leaseToken = 0
    /\ delivery'[d].attemptCount = delivery[d].attemptCount
    /\ \A e \in Delivery \ {d} : delivery'[e] = delivery[e]
    /\ \A e \in Delivery, m \in 1..MaxAttempts :
         /\ attempt'[e][m].outcome = IF e = d /\ m = delivery[d].attemptCount
                                     THEN outcome ELSE attempt[e][m].outcome
         /\ attempt'[e][m].startedAt = attempt[e][m].startedAt

LEMMA RecoverReleases ==
    ASSUME TypeOK, AttemptLedger, NEW w \in Worker, RecoverStaleDeliveryLease(w)
    PROVE  \E a \in worker[w].todo :
             /\ a.delivery \in Delivery
             /\ Stale(a.delivery, clock)
             /\ Releases(a.delivery, "UNKNOWN_AFTER_LEASE")
             /\ worker' = [worker EXCEPT ![w] = Resume(worker[w].todo \ {a})]
             /\ clock' = clock
  <1>1. PICK a \in worker[w].todo :
          LET d == a.delivery
              n == delivery[d].attemptCount
              delayMs == GetRetryDelayMs(n, 0)
          IN  /\ Stale(d, clock)
              /\ delivery' = [delivery EXCEPT ![d] =
                   IF Exhausted(n) THEN ReleasedRow(@, "DEAD", 0)
                                   ELSE ReleasedRow(@, "RETRY_WAIT", clock + delayMs)]
              /\ attempt' = [attempt EXCEPT ![d][n].outcome = "UNKNOWN_AFTER_LEASE"]
              /\ worker' = [worker EXCEPT ![w] = Resume(worker[w].todo \ {a})]
              /\ clock' = clock
    BY DEF RecoverStaleDeliveryLease
  <1> DEFINE d == a.delivery
             n == delivery[d].attemptCount
             retryAt == clock + GetRetryDelayMs(n, 0)
  <1>2. d \in Delivery
    BY ActionType
  <1>3. delivery[d].leaseToken # 0
    BY <1>1, <1>2 DEF Stale, AttemptLedger
  <1>4. n \in 1..MaxAttempts
    <2>1. n \in 0..MaxAttempts
      BY <1>2, RowTypes
    <2>2. delivery[d].leaseToken \in {0, n}
      BY <1>2, Zenon DEF AttemptLedger
    <2> QED
      BY <1>3, <2>1, <2>2
  <1>5. \/ delivery' = [delivery EXCEPT ![d] = ReleasedRow(delivery[d], "DEAD", 0)]
        \/ delivery' = [delivery EXCEPT ![d] = ReleasedRow(delivery[d], "RETRY_WAIT", retryAt)]
    BY <1>1
  <1>6. /\ delivery'[d].status # "PROCESSING"
        /\ delivery'[d].leaseToken = 0
        /\ delivery'[d].attemptCount = delivery[d].attemptCount
        /\ \A e \in Delivery \ {d} : delivery'[e] = delivery[e]
    <2> HIDE DEF retryAt
    <2>1. "DEAD" \in DeliveryStatus /\ "RETRY_WAIT" \in DeliveryStatus
      BY DEF DeliveryStatus
    <2>2. retryAt \in Nat
      <3>1. GetRetryDelayMs(n, 0) \in Nat /\ clock \in Nat
        BY <1>4, DelayType DEF TypeOK
      <3> QED
        BY <3>1 DEF retryAt
    <2>3. CASE delivery' = [delivery EXCEPT ![d] = ReleasedRow(delivery[d], "DEAD", 0)]
      BY <1>2, <2>1, <2>3, ReleaseEffect
    <2>4. CASE delivery' = [delivery EXCEPT ![d] = ReleasedRow(delivery[d], "RETRY_WAIT", retryAt)]
      BY <1>2, <2>1, <2>2, <2>4, ReleaseEffect
    <2> QED
      BY <1>5, <2>3, <2>4
  <1>7. "UNKNOWN_AFTER_LEASE" \in AttemptOutcome
    BY DEF AttemptOutcome
  <1>8. \A e \in Delivery, m \in 1..MaxAttempts :
          /\ attempt'[e][m].outcome = IF e = d /\ m = n THEN "UNKNOWN_AFTER_LEASE"
                                                      ELSE attempt[e][m].outcome
          /\ attempt'[e][m].startedAt = attempt[e][m].startedAt
    <2>1. PICK k \in 1..MaxAttempts : k = n
      BY <1>4
    <2>2. SetsOutcome(d, k, "UNKNOWN_AFTER_LEASE")
      BY <1>1, <2>1 DEF SetsOutcome
    <2>3. \A e \in Delivery, m \in 1..MaxAttempts :
            /\ attempt'[e][m].outcome = IF e = d /\ m = k THEN "UNKNOWN_AFTER_LEASE"
                                                        ELSE attempt[e][m].outcome
            /\ attempt'[e][m].startedAt = attempt[e][m].startedAt
      BY <1>2, <1>7, <2>2, OutcomeEffect
    <2> QED
      BY <2>1, <2>3
  <1>9. Releases(d, "UNKNOWN_AFTER_LEASE")
    BY <1>3, <1>6, <1>8 DEF Releases
  <1> QED
    BY <1>1, <1>2, <1>9

LEMMA CompleteReleases ==
    ASSUME TypeOK, AttemptLedger, WorkerLease, NEW w \in Worker,
           worker[w].pc = "answered", MayComplete(w),
           NEW status \in DeliveryStatus \ {"PROCESSING"}, NEW next \in Nat,
           NEW outcome \in AttemptOutcome, Complete(w, status, next, outcome)
    PROVE  Releases(worker[w].job, outcome) /\ GoOn(w) /\ clock' = clock
  <1> DEFINE d == worker[w].job
  <1>1. /\ d \in Delivery /\ delivery[d].attemptCount \in 1..MaxAttempts
        /\ delivery[d].leaseToken # 0
    BY CompletingRow
  <1>2. status \in DeliveryStatus
    OBVIOUS
  <1>3. delivery' = [delivery EXCEPT ![d] = ReleasedRow(delivery[d], status, next)]
    BY DEF Complete
  <1>4. attempt' = [attempt EXCEPT ![d][delivery[d].attemptCount].outcome = outcome]
    BY DEF Complete
  <1>5. /\ delivery'[d].status = status
        /\ delivery'[d].leaseToken = 0
        /\ delivery'[d].attemptCount = delivery[d].attemptCount
        /\ \A e \in Delivery \ {d} : delivery'[e] = delivery[e]
    <2> HIDE DEF d
    <2> QED
      BY <1>1, <1>2, <1>3, ReleaseEffect
  <1>6. \A e \in Delivery, m \in 1..MaxAttempts :
          /\ attempt'[e][m].outcome = IF e = d /\ m = delivery[d].attemptCount
                                      THEN outcome ELSE attempt[e][m].outcome
          /\ attempt'[e][m].startedAt = attempt[e][m].startedAt
    <2>1. PICK k \in 1..MaxAttempts : k = delivery[d].attemptCount
      BY <1>1
    <2>2. PICK c \in Delivery : c = d
      BY <1>1
    <2>3. SetsOutcome(c, k, outcome)
      BY <1>4, <2>1, <2>2 DEF SetsOutcome
    <2>4. \A e \in Delivery, m \in 1..MaxAttempts :
            /\ attempt'[e][m].outcome = IF e = c /\ m = k THEN outcome ELSE attempt[e][m].outcome
            /\ attempt'[e][m].startedAt = attempt[e][m].startedAt
      BY <2>3, OutcomeEffect
    <2> QED
      BY <2>1, <2>2, <2>4
  <1>7. Releases(d, outcome)
    BY <1>1, <1>5, <1>6 DEF Releases
  <1> QED
    BY <1>7 DEF Complete

\* The three verdicts of a completion.
LEMMA VerdictReleases ==
    ASSUME TypeOK, AttemptLedger, WorkerLease, NEW w \in Worker,
           CompleteSuccess(w) \/ CompleteTerminal(w) \/ CompleteRetryable(w)
    PROVE  /\ worker[w].pc = "answered" /\ MayComplete(w)
           /\ \E outcome \in {"SUCCESS", "TERMINAL_FAILURE", "RETRYABLE_FAILURE"} :
                Releases(worker[w].job, outcome)
           /\ GoOn(w) /\ clock' = clock
  <1>1. worker[w].pc = "answered" /\ MayComplete(w)
    BY DEF CompleteSuccess, CompleteTerminal, CompleteRetryable, Completing
  <1>2. /\ "SENT" \in DeliveryStatus \ {"PROCESSING"} /\ "DEAD" \in DeliveryStatus \ {"PROCESSING"}
        /\ "RETRY_WAIT" \in DeliveryStatus \ {"PROCESSING"}
        /\ "SUCCESS" \in AttemptOutcome /\ "TERMINAL_FAILURE" \in AttemptOutcome
        /\ "RETRYABLE_FAILURE" \in AttemptOutcome
    BY DEF DeliveryStatus, AttemptOutcome
  <1>3. CASE CompleteSuccess(w)
    BY <1>1, <1>2, <1>3, CompleteReleases DEF CompleteSuccess
  <1>4. CASE CompleteTerminal(w)
    BY <1>1, <1>2, <1>4, CompleteReleases DEF CompleteTerminal
  <1>5. CASE CompleteRetryable(w)
    <2> DEFINE retryAt == worker[w].now
                 + GetRetryDelayMs(delivery[worker[w].job].attemptCount,
                                   worker[w].evidence.retryAfterMs)
    <2>1. retryAt \in Nat
      <3>1. /\ delivery[worker[w].job].attemptCount \in 1..MaxAttempts
            /\ worker[w].now \in Nat /\ worker[w].evidence.retryAfterMs \in Nat
        BY <1>1, CompletingRow, RowTypes
      <3> QED
        BY <3>1, DelayType
    <2>2. \/ Complete(w, "DEAD", 0, "RETRYABLE_FAILURE")
          \/ Complete(w, "RETRY_WAIT", retryAt, "RETRYABLE_FAILURE")
      BY <1>5 DEF CompleteRetryable
    <2> HIDE DEF retryAt
    <2> QED
      BY <1>1, <1>2, <2>1, <2>2, CompleteReleases
  <1> QED
    BY <1>3, <1>4, <1>5

LEMMA LedgerStep ==
    ASSUME IndInv, [Next]_vars
    PROVE  AttemptLedger'
  <1> USE DEF IndInv
  <1>1. ASSUME NEW d \in Delivery, Enqueue(d) PROVE AttemptLedger'
    <2>1. /\ delivery'[d].status = "READY"
          /\ delivery'[d].leaseToken = delivery[d].leaseToken
          /\ delivery'[d].attemptCount = delivery[d].attemptCount
      <3>1. delivery[d] \in DeliveryRow
        BY RowTypes
      <3>2. delivery'[d] = [delivery[d] EXCEPT !.status = "READY", !.nextAttemptAt = clock,
                                               !.queuedAt = clock]
        BY <1>1 DEF Enqueue, TypeOK
      <3> QED
        BY <3>1, <3>2 DEF DeliveryRow
    <2>2. \A e \in Delivery \ {d} : delivery'[e] = delivery[e]
      BY <1>1 DEF Enqueue, TypeOK
    <2>3. delivery[d].status = "ABSENT" /\ attempt' = attempt
      BY <1>1 DEF Enqueue
    <2> QED
      BY <2>1, <2>2, <2>3 DEF AttemptLedger
  <1>2. ASSUME NEW w \in Worker, RecoverStaleDeliveryLease(w) PROVE AttemptLedger'
    <2>1. PICK d \in Delivery : Releases(d, "UNKNOWN_AFTER_LEASE")
      BY <1>2, RecoverReleases
    <2>2. "UNKNOWN_AFTER_LEASE" \in AttemptOutcome \ {"ABSENT", "IN_FLIGHT"}
      BY DEF AttemptOutcome
    <2> QED
      BY <2>1, <2>2, LedgerRelease DEF Releases
  <1>3. ASSUME NEW w \in Worker, ClaimDelivery(w) PROVE AttemptLedger'
    BY <1>3, LedgerClaim
  <1>4. ASSUME NEW w \in Worker,
               CompleteSuccess(w) \/ CompleteTerminal(w) \/ CompleteRetryable(w)
        PROVE AttemptLedger'
    <2>1. PICK outcome \in {"SUCCESS", "TERMINAL_FAILURE", "RETRYABLE_FAILURE"} :
            Releases(worker[w].job, outcome)
      BY <1>4, VerdictReleases
    <2>2. worker[w].job \in Delivery
      BY <1>4, VerdictReleases, CompletingRow
    <2>3. outcome \in AttemptOutcome \ {"ABSENT", "IN_FLIGHT"}
      BY DEF AttemptOutcome
    <2> QED
      BY <2>1, <2>2, <2>3, LedgerRelease DEF Releases
  <1>5. ASSUME UNCHANGED <<delivery, attempt>> PROVE AttemptLedger'
    BY <1>5, LedgerFrame
  <1>6. ASSUME NEW w \in Worker,
               \/ ReadDispatchSelection(w) \/ RecoverRejected(w) \/ ReadClaimPreflight(w)
               \/ ResolveCredentials(w) \/ ClaimRejected(w) \/ SendHttpRequest(w)
               \/ LeaseBudgetInsufficient(w) \/ CompletionRejected(w)
               \/ ChannexResponds(w) \/ NoResponse(w) \/ Crash(w) \/ ActionFails(w)
               \/ SelectedActionFails(w)
        PROVE UNCHANGED <<delivery, attempt>>
    BY <1>6 DEF ReadDispatchSelection, RecoverRejected, ReadClaimPreflight, ResolveCredentials,
       ClaimRejected, SendHttpRequest, LeaseBudgetInsufficient, CompletionRejected,
       ChannexResponds, NoResponse, Crash, ActionFails, SelectedActionFails
  <1>7. ASSUME NEW r \in wire, ChannexHandlesUnanswered(r) PROVE UNCHANGED <<delivery, attempt>>
    BY <1>7 DEF ChannexHandlesUnanswered
  <1>8. Tick \/ UNCHANGED vars => UNCHANGED <<delivery, attempt>>
    BY DEF Tick, vars
  <1> QED
    BY <1>1, <1>2, <1>3, <1>4, <1>5, <1>6, <1>7, <1>8 DEF Next, DispatchStep, Completes

-----------------------------------------------------------------------------
(* The leases.  A worker that lost its lease lost it by expiry, so a later *)
(* claim of the same delivery, which takes a higher attempt number, leaves *)
(* it outside; and no two workers ever hold the same number.               *)

LeaseOf(w) ==
    /\ worker[w].pc \notin {"idle", "batch"} => worker[w].job \in Delivery
    /\ worker[w].pc \in {"claimed", "waiting", "answered"} <=> worker[w].leaseToken # 0
    /\ worker[w].leaseToken # 0 =>
         LET row == delivery[worker[w].job]
         IN  /\ worker[w].leaseToken <= row.attemptCount
             /\ \/ /\ row.leaseToken = worker[w].leaseToken
                   /\ row.leaseExpiresAt = worker[w].leaseExpiresAt
                \/ /\ row.leaseToken # worker[w].leaseToken
                   /\ worker[w].leaseExpiresAt <= clock

Apart(v, w) ==
    v # w /\ worker[v].leaseToken # 0 /\ worker[v].job = worker[w].job
       => worker[v].leaseToken # worker[w].leaseToken

LEMMA LeaseParts ==
    WorkerLease <=> (\A w \in Worker : LeaseOf(w)) /\ (\A v, w \in Worker : Apart(v, w))
  BY DEF WorkerLease, LeaseOf, Apart

LEMMA LeasePartsNext ==
    ASSUME \A w \in Worker : LeaseOf(w)', \A v, w \in Worker : Apart(v, w)'
    PROVE  WorkerLease'
  BY DEF WorkerLease, LeaseOf, Apart

\* One worker moved, to the state `worker'[w]'; the others did not.
OnlyMoves(w) == \A v \in Worker \ {w} : worker'[v] = worker[v]

LEMMA MovesOnly ==
    ASSUME TypeOK, NEW w \in Worker, NEW state, worker' = [worker EXCEPT ![w] = state]
    PROVE  OnlyMoves(w) /\ worker'[w] = state
  BY DEF TypeOK, OnlyMoves

\* The moving worker holds no lease afterwards.
LEMMA LeaseForget ==
    ASSUME WorkerLease, NEW w \in Worker, OnlyMoves(w),
           worker'[w].leaseToken = 0,
           worker'[w].pc \notin {"claimed", "waiting", "answered"},
           worker'[w].pc \notin {"idle", "batch"} => worker'[w].job \in Delivery,
           clock' = clock,
           \A v \in Worker \ {w} : worker[v].leaseToken # 0 =>
             LET old == delivery[worker[v].job]
                 new == delivery'[worker[v].job]
             IN  /\ new.attemptCount = old.attemptCount
                 /\ \/ new = old
                    \/ /\ new.leaseToken # worker[v].leaseToken
                       /\ worker[v].leaseExpiresAt <= clock
    PROVE  WorkerLease'
  <1>1. ASSUME NEW v \in Worker PROVE LeaseOf(v)'
    <2>1. CASE v = w
      BY <2>1 DEF LeaseOf
    <2>2. CASE v # w
      <3>1. worker'[v] = worker[v] /\ LeaseOf(v)
        BY <2>2, LeaseParts DEF OnlyMoves
      <3> QED
        BY <2>2, <3>1 DEF LeaseOf
    <2> QED
      BY <2>1, <2>2
  <1>2. ASSUME NEW v \in Worker, NEW u \in Worker PROVE Apart(v, u)'
    <2>1. CASE v # w /\ u # w
      <3>1. worker'[v] = worker[v] /\ worker'[u] = worker[u] /\ Apart(v, u)
        BY <2>1, LeaseParts DEF OnlyMoves
      <3> QED
        BY <3>1 DEF Apart
    <2>2. CASE v = w \/ u = w
      BY <2>2 DEF Apart
    <2> QED
      BY <2>1, <2>2
  <1> QED
    BY <1>1, <1>2, LeasePartsNext

\* The moving worker keeps the lease it holds.
LEMMA LeaseKeep ==
    ASSUME WorkerLease, NEW w \in Worker, OnlyMoves(w),
           worker[w].leaseToken # 0,
           worker'[w].leaseToken = worker[w].leaseToken,
           worker'[w].leaseExpiresAt = worker[w].leaseExpiresAt,
           worker'[w].job = worker[w].job,
           worker'[w].pc \in {"claimed", "waiting", "answered"},
           UNCHANGED <<clock, delivery>>
    PROVE  WorkerLease'
  <1>1. worker[w].job \in Delivery
    BY DEF WorkerLease
  <1>2. ASSUME NEW v \in Worker PROVE LeaseOf(v)'
    <2>1. LeaseOf(v)
      BY LeaseParts
    <2>2. CASE v = w
      BY <1>1, <2>1, <2>2 DEF LeaseOf
    <2>3. CASE v # w
      BY <2>1, <2>3 DEF LeaseOf, OnlyMoves
    <2> QED
      BY <2>2, <2>3
  <1>3. ASSUME NEW v \in Worker, NEW u \in Worker PROVE Apart(v, u)'
    <2>1. Apart(v, u)
      BY LeaseParts
    <2>2. /\ worker'[v].leaseToken = worker[v].leaseToken /\ worker'[u].leaseToken = worker[u].leaseToken
          /\ worker'[v].job = worker[v].job /\ worker'[u].job = worker[u].job
      BY DEF OnlyMoves
    <2> QED
      BY <2>1, <2>2 DEF Apart
  <1> QED
    BY <1>2, <1>3, LeasePartsNext

\* No worker moves, time may pass, a row that nobody holds may be queued.
LEMMA LeaseIdle ==
    ASSUME TypeOK, WorkerLease, worker' = worker, clock' \in Nat, clock <= clock',
           \A d \in Delivery : /\ delivery'[d].attemptCount = delivery[d].attemptCount
                               /\ delivery'[d].leaseToken = delivery[d].leaseToken
                               /\ delivery'[d].leaseExpiresAt = delivery[d].leaseExpiresAt
    PROVE  WorkerLease'
  <1>1. ASSUME NEW w \in Worker PROVE LeaseOf(w)'
    <2>1. LeaseOf(w)
      BY LeaseParts
    <2>2. worker[w].leaseExpiresAt \in Nat /\ clock \in Nat
      BY RowTypes DEF TypeOK
    <2>3. worker[w].leaseExpiresAt <= clock => worker[w].leaseExpiresAt <= clock'
      BY <2>2
    <2>4. worker[w].leaseToken # 0 => worker[w].job \in Delivery
      BY <2>1 DEF LeaseOf
    <2> QED
      BY <2>1, <2>3, <2>4 DEF LeaseOf
  <1>2. ASSUME NEW v \in Worker, NEW w \in Worker PROVE Apart(v, w)'
    <2>1. Apart(v, w)
      BY LeaseParts
    <2> QED
      BY <2>1 DEF Apart
  <1> QED
    BY <1>1, <1>2, LeasePartsNext

\* What a claim does to the row and to the claiming worker.
LEMMA ClaimEffect ==
    ASSUME TypeOK, WorkerLease, NEW w \in Worker, ClaimDelivery(w)
    PROVE  LET d == worker[w].job
               n == delivery[d].attemptCount + 1
               expiry == worker[w].now + LeaseMs
           IN  /\ delivery'[d].attemptCount = n
               /\ delivery'[d].leaseToken = n
               /\ delivery'[d].leaseExpiresAt = expiry
               /\ \A e \in Delivery \ {d} : delivery'[e] = delivery[e]
               /\ OnlyMoves(w)
               /\ \/ /\ worker'[w].pc = "claimed" /\ worker'[w].job = d
                     /\ worker'[w].leaseToken = n
                     /\ worker'[w].leaseExpiresAt = expiry
                  \/ /\ worker'[w].pc \in {"idle", "batch"}
                     /\ worker'[w].leaseToken = 0
  <1> DEFINE d == worker[w].job
             n == delivery[d].attemptCount + 1
             expiry == worker[w].now + LeaseMs
             row == [delivery[d] EXCEPT !.status = "PROCESSING", !.attemptCount = n,
                       !.nextAttemptAt = 0, !.leaseToken = n, !.leaseExpiresAt = expiry]
             holding == [worker[w] EXCEPT !.pc = "claimed", !.leaseToken = n,
                                          !.leaseExpiresAt = expiry]
             state == IF n = worker[w].expectedAttempt THEN holding ELSE Resume(worker[w].todo)
  <1>1. d \in Delivery
    BY ClaimNumber
  <1>2. delivery' = [delivery EXCEPT ![d] = row] /\ worker' = [worker EXCEPT ![w] = state]
    BY DEF ClaimDelivery
  <1>3. row.attemptCount = n /\ row.leaseToken = n /\ row.leaseExpiresAt = expiry
    <2>1. delivery[d] \in DeliveryRow
      BY <1>1, RowTypes
    <2> HIDE DEF n, expiry
    <2> QED
      BY <2>1 DEF DeliveryRow
  <1>4. /\ holding.pc = "claimed" /\ holding.job = d
        /\ holding.leaseToken = n /\ holding.leaseExpiresAt = expiry
    <2>1. worker[w] \in WorkerState
      BY RowTypes
    <2> HIDE DEF n, expiry
    <2> QED
      BY <2>1 DEF WorkerState
  <1>5. Resume(worker[w].todo).leaseToken = 0 /\ Resume(worker[w].todo).pc \in {"idle", "batch"}
    BY TodoType, ResumeType
  <1>6. delivery'[d] = row /\ \A e \in Delivery \ {d} : delivery'[e] = delivery[e]
    <2> HIDE DEF row
    <2> QED
      BY <1>1, <1>2 DEF TypeOK
  <1>7. OnlyMoves(w) /\ worker'[w] = state
    <2> HIDE DEF state
    <2> QED
      BY <1>2 DEF TypeOK, OnlyMoves
  <1> HIDE DEF row, holding
  <1> QED
    BY <1>3, <1>4, <1>5, <1>6, <1>7

LEMMA LeaseClaim ==
    ASSUME TypeOK, AttemptLedger, WorkerLease, NEW w \in Worker, ClaimDelivery(w)
    PROVE  WorkerLease'
  <1> DEFINE d == worker[w].job
             n == delivery[d].attemptCount + 1
  <1>1. d \in Delivery /\ n \in 1..MaxAttempts /\ delivery[d].attemptCount \in Nat
    BY ClaimNumber, RowTypes
  <1>2. delivery[d].leaseToken = 0 /\ clock' = clock
    BY <1>1 DEF ClaimDelivery, Eligible, Waiting, AttemptLedger
  <1>3. /\ delivery'[d].attemptCount = n /\ delivery'[d].leaseToken = n
        /\ \A e \in Delivery \ {d} : delivery'[e] = delivery[e]
        /\ OnlyMoves(w)
    BY ClaimEffect
  <1>4. ASSUME NEW v \in Worker \ {w}, worker[v].leaseToken # 0, worker[v].job = d
        PROVE  /\ worker[v].leaseToken < n
               /\ worker[v].leaseExpiresAt <= clock
    <2>1. LeaseOf(v)
      BY LeaseParts
    <2>2. worker[v].leaseToken <= delivery[d].attemptCount
      BY <1>4, <2>1 DEF LeaseOf
    <2>3. worker[v].leaseExpiresAt <= clock
      BY <1>2, <1>4, <2>1 DEF LeaseOf
    <2>4. worker[v].leaseToken \in Nat
      BY RowTypes
    <2> QED
      BY <1>1, <2>2, <2>3, <2>4
  <1>5. ASSUME NEW v \in Worker \ {w} PROVE LeaseOf(v)'
    <2>1. LeaseOf(v) /\ worker'[v] = worker[v]
      BY <1>3, LeaseParts DEF OnlyMoves
    <2>2. CASE worker[v].leaseToken # 0 /\ worker[v].job = d
      <3>1. worker[v].leaseToken < n /\ worker[v].leaseExpiresAt <= clock
        BY <1>4, <2>2
      <3>2. worker[v].leaseToken \in Nat
        BY RowTypes
      <3>3. worker[v].leaseToken <= n /\ n # worker[v].leaseToken
        BY <1>1, <3>1, <3>2
      <3> HIDE DEF n
      <3> QED
        BY <1>2, <1>3, <2>1, <2>2, <3>1, <3>3 DEF LeaseOf
    <2>3. CASE worker[v].leaseToken = 0
      BY <2>1, <2>3 DEF LeaseOf
    <2>4. CASE worker[v].leaseToken # 0 /\ worker[v].job # d
      <3>1. worker[v].job \in Delivery \ {d}
        BY <2>1, <2>4 DEF LeaseOf
      <3> QED
        BY <1>2, <1>3, <2>1, <2>4, <3>1 DEF LeaseOf
    <2> QED
      BY <2>2, <2>3, <2>4
  <1>6. \/ /\ worker'[w].pc = "claimed" /\ worker'[w].job = d
           /\ worker'[w].leaseToken = n
           /\ worker'[w].leaseExpiresAt = delivery'[d].leaseExpiresAt
        \/ /\ worker'[w].pc \in {"idle", "batch"}
           /\ worker'[w].leaseToken = 0
    BY ClaimEffect
  <1>7. LeaseOf(w)'
    <2>1. n # 0 /\ n <= n
      BY <1>1
    <2> HIDE DEF n
    <2> QED
      BY <1>1, <1>3, <1>6, <2>1 DEF LeaseOf
  <1>8. ASSUME NEW v \in Worker, NEW u \in Worker PROVE Apart(v, u)'
    <2>1. CASE v # w /\ u # w
      <3>1. worker'[v] = worker[v] /\ worker'[u] = worker[u] /\ Apart(v, u)
        BY <1>3, <2>1, LeaseParts DEF OnlyMoves
      <3> QED
        BY <3>1 DEF Apart
    <2>2. ASSUME NEW x \in Worker \ {w}, worker[x].leaseToken # 0, worker[x].job = d
          PROVE  worker[x].leaseToken # n
      <3>1. worker[x].leaseToken < n /\ worker[x].leaseToken \in Nat
        BY <1>4, <2>2, RowTypes
      <3> QED
        BY <1>1, <3>1
    <2>3. \A x \in Worker \ {w} : worker'[x] = worker[x]
      BY <1>3 DEF OnlyMoves
    <2>4. CASE v = w
      <3> HIDE DEF n
      <3> QED
        BY <1>1, <1>6, <2>2, <2>3, <2>4 DEF Apart
    <2>5. CASE u = w
      <3>1. n # 0
        BY <1>1
      <3> HIDE DEF n
      <3> QED
        BY <1>1, <1>6, <2>2, <2>3, <2>5, <3>1 DEF Apart
    <2> QED
      BY <2>1, <2>4, <2>5
  <1> QED
    BY <1>5, <1>7, <1>8, LeasePartsNext

\* After a step that ends with the worker going on, it holds no lease.
LEMMA GoesOn ==
    ASSUME TypeOK, NEW w \in Worker, NEW todo \in SUBSET Action,
           worker' = [worker EXCEPT ![w] = Resume(todo)]
    PROVE  /\ OnlyMoves(w)
           /\ worker'[w].leaseToken = 0
           /\ worker'[w].pc \in {"idle", "batch"}
  <1>1. OnlyMoves(w) /\ worker'[w] = Resume(todo)
    BY MovesOnly
  <1> QED
    BY <1>1, ResumeType

LEMMA GoesOnFrame ==
    ASSUME TypeOK, WorkerLease, NEW w \in Worker, NEW todo \in SUBSET Action,
           worker' = [worker EXCEPT ![w] = Resume(todo)], UNCHANGED <<clock, delivery>>
    PROVE  WorkerLease'
  <1>1. /\ OnlyMoves(w) /\ worker'[w].leaseToken = 0
        /\ worker'[w].pc \in {"idle", "batch"}
    BY GoesOn
  <1> QED
    BY <1>1, LeaseForget

LEMMA DropsAction ==
    ASSUME TypeOK, NEW w \in Worker, NEW a,
           worker' = [worker EXCEPT ![w] = Resume(worker[w].todo \ {a})]
    PROVE  \E todo \in SUBSET Action : worker' = [worker EXCEPT ![w] = Resume(todo)]
  BY TodoType

LEMMA LeaseRecover ==
    ASSUME TypeOK, AttemptLedger, WorkerLease, NEW w \in Worker, RecoverStaleDeliveryLease(w)
    PROVE  WorkerLease'
  <1>1. PICK a \in worker[w].todo :
          /\ a.delivery \in Delivery
          /\ Stale(a.delivery, clock)
          /\ Releases(a.delivery, "UNKNOWN_AFTER_LEASE")
          /\ worker' = [worker EXCEPT ![w] = Resume(worker[w].todo \ {a})]
          /\ clock' = clock
    BY RecoverReleases
  <1>2. /\ OnlyMoves(w) /\ worker'[w].leaseToken = 0
        /\ worker'[w].pc \in {"idle", "batch"}
    BY <1>1, DropsAction, GoesOn
  <1>3. ASSUME NEW v \in Worker \ {w}, worker[v].leaseToken # 0
        PROVE  LET old == delivery[worker[v].job]
                   new == delivery'[worker[v].job]
               IN  /\ new.attemptCount = old.attemptCount
                   /\ \/ new = old
                      \/ /\ new.leaseToken # worker[v].leaseToken
                         /\ worker[v].leaseExpiresAt <= clock
    <2>1. LeaseOf(v)
      BY LeaseParts
    <2>2. worker[v].job \in Delivery
      BY <1>3, <2>1 DEF LeaseOf
    <2> QED
      BY <1>1, <1>3, <2>1, <2>2 DEF LeaseOf, Releases, Stale
  <1> QED
    BY <1>1, <1>2, <1>3, LeaseForget

LEMMA LeaseVerdict ==
    ASSUME TypeOK, AttemptLedger, WorkerLease, NEW w \in Worker,
           CompleteSuccess(w) \/ CompleteTerminal(w) \/ CompleteRetryable(w)
    PROVE  WorkerLease'
  <1> DEFINE d == worker[w].job
  <1>1. PICK outcome : Releases(d, outcome)
    BY VerdictReleases
  <1>2. /\ GoOn(w) /\ clock' = clock
        /\ worker[w].pc = "answered" /\ MayComplete(w)
    BY VerdictReleases
  <1>3. /\ OnlyMoves(w) /\ worker'[w].leaseToken = 0
        /\ worker'[w].pc \in {"idle", "batch"}
    BY <1>2, TodoType, GoesOn DEF GoOn
  <1>4. /\ d \in Delivery /\ delivery[d].leaseToken = worker[w].leaseToken
        /\ worker[w].leaseToken # 0
    BY <1>2, CompletingRow
  <1>5. ASSUME NEW v \in Worker \ {w}, worker[v].leaseToken # 0
        PROVE  LET old == delivery[worker[v].job]
                   new == delivery'[worker[v].job]
               IN  /\ new.attemptCount = old.attemptCount
                   /\ \/ new = old
                      \/ /\ new.leaseToken # worker[v].leaseToken
                         /\ worker[v].leaseExpiresAt <= clock
    <2>1. LeaseOf(v) /\ Apart(v, w)
      BY LeaseParts
    <2>2. worker[v].job \in Delivery
      BY <1>5, <2>1 DEF LeaseOf
    <2> QED
      BY <1>1, <1>4, <1>5, <2>1, <2>2 DEF LeaseOf, Apart, Releases
  <1> QED
    BY <1>2, <1>3, <1>5, LeaseForget

LEMMA LeaseSend ==
    ASSUME TypeOK, WorkerLease, NEW w \in Worker, NEW state \in WorkerState,
           worker[w].pc \in {"claimed", "waiting", "answered"},
           state.pc \in {"claimed", "waiting", "answered"},
           state.job = worker[w].job, state.leaseToken = worker[w].leaseToken,
           state.leaseExpiresAt = worker[w].leaseExpiresAt,
           worker' = [worker EXCEPT ![w] = state], UNCHANGED <<clock, delivery>>
    PROVE  WorkerLease'
  <1>1. OnlyMoves(w) /\ worker'[w] = state
    BY MovesOnly
  <1>2. worker[w].leaseToken # 0
    BY DEF WorkerLease
  <1> QED
    BY <1>1, <1>2, LeaseKeep

LEMMA LeaseStep ==
    ASSUME IndInv, [Next]_vars
    PROVE  WorkerLease'
  <1> USE DEF IndInv
  <1>0. clock \in Nat /\ \A w \in Worker : worker[w] \in WorkerState
    BY RowTypes DEF TypeOK
  <1>1. ASSUME NEW d \in Delivery, Enqueue(d) PROVE WorkerLease'
    <2>1. /\ delivery'[d].leaseExpiresAt = delivery[d].leaseExpiresAt
          /\ delivery'[d].leaseToken = delivery[d].leaseToken
          /\ delivery'[d].attemptCount = delivery[d].attemptCount
      <3>1. delivery[d] \in DeliveryRow
        BY RowTypes
      <3>2. delivery'[d] = [delivery[d] EXCEPT !.status = "READY", !.nextAttemptAt = clock,
                                               !.queuedAt = clock]
        BY <1>1 DEF Enqueue, TypeOK
      <3> QED
        BY <3>1, <3>2 DEF DeliveryRow
    <2>2. \A e \in Delivery \ {d} : delivery'[e] = delivery[e]
      BY <1>1 DEF Enqueue, TypeOK
    <2>3. worker' = worker /\ clock' = clock
      BY <1>1 DEF Enqueue
    <2> QED
      BY <1>0, <2>1, <2>2, <2>3, LeaseIdle
  <1>2. ASSUME NEW w \in Worker, ReadDispatchSelection(w) PROVE WorkerLease'
    BY <1>0, <1>2, SelectedType, GoesOnFrame DEF ReadDispatchSelection
  <1>3. ASSUME NEW w \in Worker, RecoverStaleDeliveryLease(w) PROVE WorkerLease'
    BY <1>3, LeaseRecover
  <1>4. ASSUME NEW w \in Worker, RecoverRejected(w) PROVE WorkerLease'
    BY <1>4, DropsAction, GoesOnFrame DEF RecoverRejected
  <1>5. ASSUME NEW w \in Worker, ReadClaimPreflight(w) PROVE WorkerLease'
    <2>1. PICK a \in worker[w].todo :
            worker' = [worker EXCEPT ![w] = IF PreflightPasses(a) THEN PreflightState(w, a)
                                            ELSE Resume(worker[w].todo \ {a})]
      BY <1>5 DEF ReadClaimPreflight, PreflightState
    <2>2. UNCHANGED <<clock, delivery>>
      BY <1>5 DEF ReadClaimPreflight
    <2>3. CASE PreflightPasses(a)
      <3>1. OnlyMoves(w) /\ worker'[w] = PreflightState(w, a)
        BY <2>1, <2>3, MovesOnly
      <3> QED
        BY <2>2, <3>1, PreflightType, LeaseForget
    <2>4. CASE ~PreflightPasses(a)
      BY <2>1, <2>2, <2>4, DropsAction, GoesOnFrame
    <2> QED
      BY <2>3, <2>4
  <1>6. ASSUME NEW w \in Worker, ResolveCredentials(w) PROVE WorkerLease'
    <2> DEFINE state == [worker[w] EXCEPT !.pc = "claiming", !.now = clock]
    <2>1. OnlyMoves(w) /\ worker'[w] = state
      <3> HIDE DEF state
      <3>1. worker' = [worker EXCEPT ![w] = state]
        BY <1>6 DEF ResolveCredentials, state
      <3> QED
        BY <3>1, MovesOnly
    <2>2. state.pc = "claiming" /\ state.job = worker[w].job /\ state.leaseToken = worker[w].leaseToken
      BY <1>0 DEF WorkerState
    <2>3. worker[w].job \in Delivery /\ worker[w].leaseToken = 0 /\ UNCHANGED <<clock, delivery>>
      BY <1>6 DEF ResolveCredentials, WorkerLease
    <2> HIDE DEF state
    <2> QED
      BY <2>1, <2>2, <2>3, LeaseForget
  <1>7. ASSUME NEW w \in Worker, ClaimDelivery(w) PROVE WorkerLease'
    BY <1>7, LeaseClaim
  <1>8. ASSUME NEW w \in Worker, GoOn(w), UNCHANGED <<clock, delivery>> PROVE WorkerLease'
    BY <1>8, TodoType, GoesOnFrame DEF GoOn
  <1>9. ASSUME NEW w \in Worker, ClaimRejected(w) \/ LeaseBudgetInsufficient(w)
                                   \/ CompletionRejected(w) \/ ActionFails(w)
        PROVE WorkerLease'
    BY <1>8, <1>9 DEF ClaimRejected, LeaseBudgetInsufficient, CompletionRejected, ActionFails
  <1>10. ASSUME NEW w \in Worker, SendHttpRequest(w) PROVE WorkerLease'
    <2> DEFINE state == [worker[w] EXCEPT !.pc = "waiting", !.now = clock]
    <2>1. /\ state \in WorkerState /\ state.pc = "waiting" /\ state.job = worker[w].job
          /\ state.leaseToken = worker[w].leaseToken
          /\ state.leaseExpiresAt = worker[w].leaseExpiresAt
      <3>1. worker[w] \in WorkerState /\ 0 \in 0..MaxAttempts /\ NoEvidence \in Evidence
        BY <1>0, TimingAssumption DEF NoEvidence, Evidence
      <3>2. state \in WorkerState
        BY <1>0, <3>1, StateEdits
      <3> QED
        BY <3>1, <3>2 DEF WorkerState
    <2>2. /\ worker' = [worker EXCEPT ![w] = state] /\ worker[w].pc = "claimed"
          /\ UNCHANGED <<clock, delivery>>
      BY <1>10 DEF SendHttpRequest
    <2> HIDE DEF state
    <2> QED
      BY <2>1, <2>2, LeaseSend
  <1>11. ASSUME NEW w \in Worker, CompleteSuccess(w) \/ CompleteTerminal(w) \/ CompleteRetryable(w)
         PROVE WorkerLease'
    BY <1>11, LeaseVerdict
  <1>12. ASSUME NEW w \in Worker, NEW e \in Evidence, worker[w].pc = "waiting", Answer(w, e),
                UNCHANGED <<clock, delivery>>
         PROVE WorkerLease'
    <2> DEFINE state == [worker[w] EXCEPT !.pc = "answered", !.now = clock, !.evidence = e]
    <2>1. /\ state \in WorkerState /\ state.pc = "answered" /\ state.job = worker[w].job
          /\ state.leaseToken = worker[w].leaseToken
          /\ state.leaseExpiresAt = worker[w].leaseExpiresAt
      <3>1. worker[w] \in WorkerState /\ 0 \in 0..MaxAttempts
        BY <1>0, TimingAssumption
      <3>2. state \in WorkerState
        BY <1>0, <3>1, StateEdits
      <3> QED
        BY <3>1, <3>2 DEF WorkerState
    <2>2. worker' = [worker EXCEPT ![w] = state]
      BY <1>12 DEF Answer
    <2> HIDE DEF state
    <2> QED
      BY <1>12, <2>1, <2>2, LeaseSend
  <1>13. ASSUME NEW w \in Worker, ChannexResponds(w) PROVE WorkerLease'
    <2>1. PICK result \in HttpResponse :
            \E retryAfterMs \in RetryAfterMs \cup {0} :
               Answer(w, [result |-> result, retryAfterMs |-> retryAfterMs])
      BY <1>13 DEF ChannexResponds
    <2>2. PICK retryAfterMs \in RetryAfterMs \cup {0} :
               Answer(w, [result |-> result, retryAfterMs |-> retryAfterMs])
      BY <2>1
    <2>3. [result |-> result, retryAfterMs |-> retryAfterMs] \in Evidence
      BY DEF Evidence
    <2>4. worker[w].pc = "waiting" /\ UNCHANGED <<clock, delivery>>
      BY <1>13 DEF ChannexResponds
    <2> QED
      BY <1>12, <2>2, <2>3, <2>4
  <1>14. ASSUME NEW w \in Worker, NoResponse(w) PROVE WorkerLease'
    <2>1. NoEvidence \in Evidence
      BY DEF NoEvidence, Evidence
    <2> QED
      BY <1>12, <1>14, <2>1 DEF NoResponse
  <1>15. ASSUME NEW w \in Worker, Crash(w) PROVE WorkerLease'
    <2>1. OnlyMoves(w) /\ worker'[w] = Idle /\ UNCHANGED <<clock, delivery>>
      BY <1>15, MovesOnly DEF Crash
    <2> QED
      BY <2>1, IdleType, LeaseForget
  <1>19. ASSUME NEW w \in Worker, SelectedActionFails(w) PROVE WorkerLease'
    BY <1>19, DropsAction, GoesOnFrame DEF SelectedActionFails
  <1>16. ASSUME NEW r \in wire, ChannexHandlesUnanswered(r) PROVE WorkerLease'
    BY <1>0, <1>16, LeaseIdle DEF ChannexHandlesUnanswered
  <1>17. CASE Tick
    BY <1>0, <1>17, LeaseIdle DEF Tick
  <1>18. CASE UNCHANGED vars
    BY <1>0, <1>18, LeaseIdle DEF vars
  <1> QED
    BY <1>1, <1>2, <1>3, <1>4, <1>5, <1>6, <1>7, <1>9, <1>10, <1>11, <1>13, <1>14, <1>15,
       <1>16, <1>17, <1>18, <1>19 DEF Next, DispatchStep, Completes

-----------------------------------------------------------------------------
(* Theorems.                                                               *)

LEMMA InitIndInv ==
    ASSUME Init
    PROVE  IndInv
  <1>1. 0 \in 0..MaxAttempts /\ 0 \in Nat /\ 0 \in 0..MaxFaults /\ 1 \in Nat \ {0}
    BY TimingAssumption
  <1>2. TypeOK
    <2>1. [status |-> "ABSENT", attemptCount |-> 0, nextAttemptAt |-> 0, leaseToken |-> 0,
           leaseExpiresAt |-> 0, queuedAt |-> 0] \in DeliveryRow
      BY <1>1 DEF DeliveryRow, DeliveryStatus
    <2>2. [outcome |-> "ABSENT", startedAt |-> 0] \in AttemptRow
      BY DEF AttemptRow, AttemptOutcome
    <2>3. [pausedUntil |-> 0, nextAllowedAt |-> [k \in Kind |-> 0],
           lastFullSyncCompletedAt |-> 0] \in PropertyRow
      BY DEF PropertyRow
    <2> QED
      BY <1>1, <2>1, <2>2, <2>3, IdleType DEF Init, TypeOK
  <1>3. AttemptLedger
    BY TimingAssumption DEF Init, AttemptLedger
  <1>4. WorkerLease
    BY IdleType DEF Init, WorkerLease
  <1> QED
    BY <1>2, <1>3, <1>4 DEF IndInv

\* Every reachable state is well typed, has an exact attempt ledger, and lets a
\* worker lose its lease only by expiry: the three facts hold together only.
THEOREM IndInvHolds == Spec => []IndInv
  <1>1. IndInv /\ [Next]_vars => IndInv'
    BY TypeStep, LedgerStep, LeaseStep DEF IndInv
  <1> QED
    BY <1>1, InitIndInv, PTL DEF Spec

\* Type correctness of the dispatch half of the pipeline.
THEOREM TypeCorrect == Spec => []TypeOK
  BY IndInvHolds, PTL DEF IndInv

\* No interleaving loses an attempt, leaves one open or opens two.
THEOREM LedgerHolds == Spec => []AttemptLedger
  BY IndInvHolds, PTL DEF IndInv

\* A worker past its claim holds its own attempt, and loses it only by expiry.
THEOREM WorkerLeaseHolds == Spec => []WorkerLease
  BY IndInvHolds, PTL DEF IndInv

-----------------------------------------------------------------------------
(* Action properties.  Both need the invariant: a worker that is past its  *)
(* claim and before its lease's expiry still holds the lease, and the      *)
(* attempt the lease names is the one in flight.                           *)

\* What is sent is the sender's own attempt, in flight under its own lease.
LEMMA SendHolds ==
    ASSUME IndInv, NEW w \in Worker, SendHttpRequest(w)
    PROVE  /\ worker[w].job \in Delivery
           /\ worker[w].leaseToken \in 1..MaxAttempts
           /\ delivery[worker[w].job].leaseToken = worker[w].leaseToken
           /\ attempt[worker[w].job][worker[w].leaseToken].outcome = "IN_FLIGHT"
  <1> USE DEF IndInv
  <1>1. worker[w].pc = "claimed" /\ clock < worker[w].leaseExpiresAt
    BY DEF SendHttpRequest
  <1>2. worker[w].job \in Delivery /\ worker[w].leaseToken \in 1..MaxAttempts
    BY <1>1, RequestType
  <1>3. LeaseOf(w)
    BY LeaseParts
  <1>4. clock \in Nat /\ worker[w].leaseExpiresAt \in Nat
    BY RowTypes DEF TypeOK
  <1>5. delivery[worker[w].job].leaseToken = worker[w].leaseToken
    <2>1. worker[w].leaseToken # 0
      BY <1>2
    <2> QED
      BY <1>1, <1>3, <1>4, <2>1 DEF LeaseOf
  <1>6. attempt[worker[w].job][worker[w].leaseToken].outcome = "IN_FLIGHT"
    BY <1>2, <1>5, Zenon DEF AttemptLedger
  <1> QED
    BY <1>2, <1>5, <1>6

SentUnderLease(r) ==
    /\ delivery[r.delivery].leaseToken = r.attempt
    /\ attempt[r.delivery][r.attempt].outcome = "IN_FLIGHT"

LEMMA SendStep ==
    ASSUME IndInv, [Next]_vars
    PROVE  \A r \in wire' \ wire : SentUnderLease(r)
  <1>1. ASSUME NEW w \in Worker, SendHttpRequest(w)
        PROVE  \A r \in wire' \ wire : SentUnderLease(r)
    <2>1. \A r \in wire' \ wire : r = OwnRequest(w)
      BY <1>1 DEF SendHttpRequest
    <2>2. OwnRequest(w).delivery = worker[w].job /\ OwnRequest(w).attempt = worker[w].leaseToken
      BY DEF OwnRequest
    <2>3. SentUnderLease(OwnRequest(w))
      BY <1>1, <2>2, SendHolds DEF SentUnderLease
    <2> QED
      BY <2>1, <2>3, Zenon
  <1>2. ASSUME wire' \subseteq wire PROVE \A r \in wire' \ wire : SentUnderLease(r)
    BY <1>2
  <1>3. ASSUME NEW w \in Worker,
               \/ ReadDispatchSelection(w) \/ RecoverStaleDeliveryLease(w) \/ RecoverRejected(w)
               \/ ReadClaimPreflight(w) \/ ResolveCredentials(w) \/ ClaimDelivery(w)
               \/ ClaimRejected(w) \/ LeaseBudgetInsufficient(w) \/ Crash(w)
               \/ ActionFails(w) \/ SelectedActionFails(w)
        PROVE  wire' \subseteq wire
    BY <1>3 DEF ReadDispatchSelection, RecoverStaleDeliveryLease, RecoverRejected,
       ReadClaimPreflight, ResolveCredentials, ClaimDelivery, ClaimRejected,
       LeaseBudgetInsufficient, Crash, ActionFails, SelectedActionFails
  <1>4. ASSUME NEW w \in Worker, Completes(w) PROVE wire' \subseteq wire
    BY <1>4 DEF Completes, CompleteSuccess, CompleteTerminal, CompleteRetryable, Complete,
       CompletionRejected
  <1>5. ASSUME NEW w \in Worker, ChannexResponds(w) \/ NoResponse(w) PROVE wire' \subseteq wire
    BY <1>5 DEF ChannexResponds, NoResponse
  <1>6. ASSUME NEW r \in wire, ChannexHandlesUnanswered(r) PROVE wire' \subseteq wire
    BY <1>6 DEF ChannexHandlesUnanswered
  <1>7. ASSUME NEW d \in Delivery, Enqueue(d) PROVE wire' \subseteq wire
    BY <1>7 DEF Enqueue
  <1>8. Tick \/ UNCHANGED vars => wire' \subseteq wire
    BY DEF Tick, vars
  <1> QED
    BY <1>1, <1>2, <1>3, <1>4, <1>5, <1>6, <1>7, <1>8 DEF Next, DispatchStep

\* What one step may do to the outcome of attempt n of delivery d.
OutcomeMove(d, n) ==
    LET old == attempt[d][n].outcome
        new == attempt'[d][n].outcome
    IN  old # new =>
          \/ old = "ABSENT" /\ new = "IN_FLIGHT"
          \/ old = "IN_FLIGHT" /\ new = "UNKNOWN_AFTER_LEASE"
          \/ /\ old = "IN_FLIGHT"
             /\ \E w \in Worker : /\ worker[w].pc = "answered"
                                  /\ worker[w].job = d /\ worker[w].leaseToken = n
                                  /\ worker[w].now < delivery[d].leaseExpiresAt
                                  /\ new # "UNKNOWN_AFTER_LEASE"

\* A claim touches one attempt only, and that one was absent.
LEMMA ClaimOpens ==
    ASSUME IndInv, NEW w \in Worker, ClaimDelivery(w),
           NEW d \in Delivery, NEW n \in 1..MaxAttempts
    PROVE  OutcomeMove(d, n)
  <1> USE DEF IndInv
  <1> DEFINE c == worker[w].job
             k == delivery[c].attemptCount + 1
  <1>1. c \in Delivery /\ k \in 1..MaxAttempts
    BY ClaimNumber
  <1>2. attempt' = [attempt EXCEPT ![c][k] = [outcome |-> "IN_FLIGHT",
                                             startedAt |-> worker[w].now]]
    BY DEF ClaimDelivery
  <1>3. ~(k <= delivery[c].attemptCount)
    BY <1>1, RowTypes
  <1>4. attempt[c][k].outcome = "ABSENT"
    <2> HIDE DEF k, c
    <2> QED
      BY <1>1, <1>3, Zenon DEF AttemptLedger
  <1> HIDE DEF k, c
  <1>5. CASE d = c /\ n = k
    <2>1. attempt'[c][k].outcome = "IN_FLIGHT"
      BY <1>1, <1>2 DEF TypeOK
    <2> QED
      BY <1>4, <1>5, <2>1 DEF OutcomeMove
  <1>6. CASE ~(d = c /\ n = k)
    <2>1. attempt'[d][n] = attempt[d][n]
      BY <1>1, <1>2, <1>6 DEF TypeOK
    <2> QED
      BY <2>1 DEF OutcomeMove
  <1> QED
    BY <1>5, <1>6

\* A release closes the attempt in flight and touches no other.
LEMMA ReleaseCloses ==
    ASSUME IndInv, NEW c \in Delivery, NEW outcome, Releases(c, outcome),
           NEW d \in Delivery, NEW n \in 1..MaxAttempts,
           attempt[d][n].outcome # attempt'[d][n].outcome
    PROVE  /\ d = c /\ n = delivery[c].attemptCount
           /\ attempt[d][n].outcome = "IN_FLIGHT"
           /\ attempt'[d][n].outcome = outcome
  <1>1. d = c /\ n = delivery[c].attemptCount /\ attempt'[d][n].outcome = outcome
    BY Zenon DEF Releases
  <1>2. delivery[c].leaseToken = delivery[c].attemptCount
    BY DEF Releases, IndInv, AttemptLedger
  <1>3. attempt[d][n].outcome = "IN_FLIGHT"
    BY <1>1, <1>2, Zenon DEF IndInv, AttemptLedger
  <1> QED
    BY <1>1, <1>3

LEMMA VerdictMove ==
    ASSUME IndInv, NEW w \in Worker,
           CompleteSuccess(w) \/ CompleteTerminal(w) \/ CompleteRetryable(w),
           NEW d \in Delivery, NEW n \in 1..MaxAttempts
    PROVE  OutcomeMove(d, n)
  <1> USE DEF IndInv
  <1>1. PICK outcome \in {"SUCCESS", "TERMINAL_FAILURE", "RETRYABLE_FAILURE"} :
          Releases(worker[w].job, outcome)
    BY VerdictReleases
  <1>2. worker[w].pc = "answered" /\ MayComplete(w)
    BY VerdictReleases
  <1>3. /\ worker[w].job \in Delivery
        /\ delivery[worker[w].job].attemptCount = worker[w].leaseToken
    BY <1>2, CompletingRow
  <1>4. worker[w].now < delivery[worker[w].job].leaseExpiresAt
    BY <1>2 DEF MayComplete
  <1>5. CASE attempt[d][n].outcome # attempt'[d][n].outcome
    <2>1. /\ d = worker[w].job /\ n = delivery[worker[w].job].attemptCount
          /\ attempt[d][n].outcome = "IN_FLIGHT"
          /\ attempt'[d][n].outcome = outcome
      BY <1>1, <1>3, <1>5, ReleaseCloses
    <2> QED
      BY <1>2, <1>3, <1>4, <2>1 DEF OutcomeMove
  <1> QED
    BY <1>5 DEF OutcomeMove

LEMMA OutcomeStep ==
    ASSUME IndInv, [Next]_vars
    PROVE  \A d \in Delivery, n \in 1..MaxAttempts : OutcomeMove(d, n)
  <1> SUFFICES ASSUME NEW d \in Delivery, NEW n \in 1..MaxAttempts PROVE OutcomeMove(d, n)
    OBVIOUS
  <1>1. ASSUME NEW w \in Worker, ClaimDelivery(w) PROVE OutcomeMove(d, n)
    BY <1>1, ClaimOpens
  <1>2. ASSUME NEW w \in Worker, RecoverStaleDeliveryLease(w) PROVE OutcomeMove(d, n)
    <2>1. PICK c \in Delivery : Releases(c, "UNKNOWN_AFTER_LEASE")
      BY <1>2, RecoverReleases DEF IndInv
    <2> QED
      BY <2>1, ReleaseCloses DEF OutcomeMove
  <1>3. ASSUME NEW w \in Worker,
               CompleteSuccess(w) \/ CompleteTerminal(w) \/ CompleteRetryable(w)
        PROVE  OutcomeMove(d, n)
    BY <1>3, VerdictMove
  <1>4. ASSUME attempt' = attempt PROVE OutcomeMove(d, n)
    BY <1>4 DEF OutcomeMove
  <1>5. ASSUME NEW w \in Worker,
               \/ ReadDispatchSelection(w) \/ RecoverRejected(w) \/ ReadClaimPreflight(w)
               \/ ResolveCredentials(w) \/ ClaimRejected(w) \/ SendHttpRequest(w)
               \/ LeaseBudgetInsufficient(w) \/ CompletionRejected(w)
               \/ ChannexResponds(w) \/ NoResponse(w) \/ Crash(w) \/ ActionFails(w)
               \/ SelectedActionFails(w)
        PROVE  attempt' = attempt
    BY <1>5 DEF ReadDispatchSelection, RecoverRejected, ReadClaimPreflight, ResolveCredentials,
       ClaimRejected, SendHttpRequest, LeaseBudgetInsufficient, CompletionRejected,
       ChannexResponds, NoResponse, Crash, ActionFails, SelectedActionFails
  <1>6. ASSUME NEW r \in wire, ChannexHandlesUnanswered(r) PROVE attempt' = attempt
    BY <1>6 DEF ChannexHandlesUnanswered
  <1>7. ASSUME NEW c \in Delivery, Enqueue(c) PROVE attempt' = attempt
    BY <1>7 DEF Enqueue
  <1>8. Tick \/ UNCHANGED vars => attempt' = attempt
    BY DEF Tick, vars
  <1> QED
    BY <1>1, <1>2, <1>3, <1>4, <1>5, <1>6, <1>7, <1>8 DEF Next, DispatchStep, Completes

\* A request goes out only for the attempt that holds the delivery's lease and
\* is in flight: recovery cannot have taken it from a slow worker before.
THEOREM SendsUnderOwnLeaseHolds == Spec => SendsUnderOwnLease
  <1>1. IndInv /\ [Next]_vars =>
          [\A r \in wire' \ wire : /\ delivery[r.delivery].leaseToken = r.attempt
                                   /\ attempt[r.delivery][r.attempt].outcome = "IN_FLIGHT"]_vars
    BY SendStep DEF SentUnderLease
  <1> QED
    BY <1>1, IndInvHolds, PTL DEF Spec, SendsUnderOwnLease

\* An attempt in flight is closed by its own worker before its lease runs out, or
\* by recovery as UNKNOWN_AFTER_LEASE, and a recorded outcome never changes.
THEOREM FencedCompletionHolds == Spec => FencedCompletion
  <1>1. IndInv /\ [Next]_vars =>
          [\A d \in Delivery, n \in 1..MaxAttempts : OutcomeMove(d, n)]_vars
    BY OutcomeStep
  <1> QED
    BY <1>1, IndInvHolds, PTL DEF Spec, FencedCompletion, OutcomeMove
=============================================================================
