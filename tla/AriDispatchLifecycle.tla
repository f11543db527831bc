------------------------ MODULE AriDispatchLifecycle ------------------------
(***************************************************************************)
(* That AriDispatch implements DeliveryLifecycle for every value of its    *)
(* constants: a delivery is tried at most MaxAttempts times, by one holder *)
(* at a time, and settled once, as SENT only if Channex has applied it.    *)
(***************************************************************************)
EXTENDS AriDispatchPacing

\* A request on the wire is of an attempt that was begun.
RequestsBegun == \A r \in wire : delivery[r.delivery].attemptCount > 0

\* A worker that was answered with a clean 2xx has its delivery among those applied.
AnswerApplied(w) ==
    worker[w].pc = "answered" /\ worker[w].evidence.result = "2xx" => worker[w].job \in applied
AnswersApplied == \A w \in Worker : AnswerApplied(w)

EffectInv == RequestsBegun /\ AnswersApplied

-----------------------------------------------------------------------------
(* Requests and answers.                                                   *)

LEMMA RequestBegun ==
    ASSUME IndInv, NEW w \in Worker, worker[w].pc \in {"claimed", "waiting", "answered"}
    PROVE  worker[w].job \in Delivery /\ delivery[worker[w].job].attemptCount > 0
  <1> USE DEF IndInv
  <1>1. worker[w].job \in Delivery /\ worker[w].leaseToken \in 1..MaxAttempts
    BY RequestType
  <1>2. LeaseOf(w)
    BY LeaseParts
  <1>3. worker[w].leaseToken # 0 /\ delivery[worker[w].job].attemptCount \in Nat
    BY <1>1, RowTypes
  <1>4. worker[w].leaseToken <= delivery[worker[w].job].attemptCount
    BY <1>2, <1>3 DEF LeaseOf
  <1> QED
    BY <1>1, <1>3, <1>4

\* Attempt counts only grow.
LEMMA CountsGrow ==
    ASSUME IndInv, [Next]_vars, NEW d \in Delivery, delivery[d].attemptCount > 0
    PROVE  delivery'[d].attemptCount > 0
  <1> USE DEF IndInv
  <1>1. CASE delivery' = delivery
    BY <1>1
  <1>2. ASSUME NEW c \in Delivery, Enqueue(c) PROVE delivery'[d].attemptCount > 0
    <2>1. delivery[c] \in DeliveryRow
      BY RowTypes
    <2>2. delivery'[c] = [delivery[c] EXCEPT !.status = "READY", !.nextAttemptAt = clock,
                                             !.queuedAt = clock]
      BY <1>2 DEF Enqueue, TypeOK
    <2>3. delivery'[c].attemptCount = delivery[c].attemptCount
      BY <2>1, <2>2 DEF DeliveryRow
    <2>4. d # c => delivery'[d] = delivery[d]
      BY <1>2 DEF Enqueue, TypeOK
    <2> QED
      BY <2>3, <2>4
  <1>3. ASSUME NEW w \in Worker, ClaimDelivery(w) PROVE delivery'[d].attemptCount > 0
    <2>1. /\ delivery'[worker[w].job].attemptCount = delivery[worker[w].job].attemptCount + 1
          /\ \A e \in Delivery \ {worker[w].job} : delivery'[e] = delivery[e]
      BY <1>3, ClaimEffect
    <2>2. CASE d = worker[w].job
      <3>1. delivery[d].attemptCount \in Nat
        BY RowTypes
      <3> QED
        BY <2>1, <2>2, <3>1
    <2>3. CASE d # worker[w].job
      BY <2>1, <2>3
    <2> QED
      BY <2>2, <2>3
  <1>4. ASSUME NEW c \in Delivery, NEW outcome, Releases(c, outcome)
        PROVE  delivery'[d].attemptCount > 0
    BY <1>4 DEF Releases
  <1>5. ASSUME NEW w \in Worker, RecoverStaleDeliveryLease(w)
        PROVE  delivery'[d].attemptCount > 0
    BY <1>4, <1>5, RecoverReleases
  <1>6. ASSUME NEW w \in Worker, CompleteSuccess(w) \/ CompleteTerminal(w) \/ CompleteRetryable(w)
        PROVE  delivery'[d].attemptCount > 0
    <2>1. worker[w].job \in Delivery
      BY <1>6, VerdictReleases, CompletingRow
    <2> QED
      BY <1>4, <1>6, <2>1, VerdictReleases
  <1>7. ASSUME NEW w \in Worker,
               \/ ReadDispatchSelection(w) \/ RecoverRejected(w) \/ ReadClaimPreflight(w)
               \/ ResolveCredentials(w) \/ ClaimRejected(w) \/ SendHttpRequest(w)
               \/ LeaseBudgetInsufficient(w) \/ CompletionRejected(w)
               \/ ChannexResponds(w) \/ NoResponse(w) \/ Crash(w) \/ ActionFails(w)
               \/ SelectedActionFails(w)
        PROVE  delivery' = delivery
    BY <1>7 DEF ReadDispatchSelection, RecoverRejected, ReadClaimPreflight, ResolveCredentials,
       ClaimRejected, SendHttpRequest, LeaseBudgetInsufficient, CompletionRejected,
       ChannexResponds, NoResponse, Crash, ActionFails, SelectedActionFails
  <1>8. ASSUME NEW r \in wire, ChannexHandlesUnanswered(r) PROVE delivery' = delivery
    BY <1>8 DEF ChannexHandlesUnanswered
  <1>9. Tick \/ UNCHANGED vars => delivery' = delivery
    BY DEF Tick, vars
  <1> QED
    BY <1>1, <1>2, <1>3, <1>5, <1>6, <1>7, <1>8, <1>9 DEF Next, DispatchStep, Completes

LEMMA RequestsStep ==
    ASSUME IndInv, [Next]_vars, RequestsBegun
    PROVE  RequestsBegun'
  <1> SUFFICES ASSUME NEW r \in wire' PROVE delivery'[r.delivery].attemptCount > 0
    BY DEF RequestsBegun
  <1>1. wire \subseteq Request
    BY DEF IndInv, TypeOK
  <1>2. CASE r \in wire
    <2>1. r.delivery \in Delivery /\ delivery[r.delivery].attemptCount > 0
      BY <1>1, <1>2 DEF Request, RequestsBegun
    <2> QED
      BY <2>1, CountsGrow
  <1>3. CASE r \notin wire
    <2>1. SentUnderLease(r)
      BY <1>3, SendStep
    <2>2. r \in Request
      BY TypeStep DEF IndInv, TypeOK
    <2>3. r.delivery \in Delivery /\ r.attempt \in 1..MaxAttempts
      BY <2>2 DEF Request
    <2>4. r.attempt <= delivery[r.delivery].attemptCount
      BY <2>1, <2>3, Zenon DEF IndInv, AttemptLedger, SentUnderLease
    <2>5. delivery[r.delivery].attemptCount \in Nat
      BY <2>3, RowTypes DEF IndInv
    <2>6. delivery[r.delivery].attemptCount > 0
      BY <2>3, <2>4, <2>5
    <2> QED
      BY <2>3, <2>6, CountsGrow
  <1> QED
    BY <1>2, <1>3

\* A worker that moves to anything but a 2xx answer, or stays, keeps AnswersApplied.
LEMMA AnswersKept ==
    ASSUME AnswersApplied, applied \subseteq applied',
           \/ worker' = worker
           \/ \E w \in Worker : OnlyMoves(w) /\ AnswerApplied(w)'
    PROVE  AnswersApplied'
  <1> SUFFICES ASSUME NEW v \in Worker PROVE AnswerApplied(v)'
    BY DEF AnswersApplied
  <1>1. AnswerApplied(v)
    BY DEF AnswersApplied
  <1> QED
    BY <1>1 DEF OnlyMoves, AnswerApplied

LEMMA AnswerMove ==
    ASSUME IndInv, NEW w \in Worker, NEW e \in Evidence, Answer(w, e)
    PROVE  /\ OnlyMoves(w) /\ worker'[w].job = worker[w].job
           /\ worker'[w].evidence = e
  <1> DEFINE state == [worker[w] EXCEPT !.pc = "answered", !.now = clock, !.evidence = e]
  <1>1. worker[w] \in WorkerState
    BY RowTypes DEF IndInv
  <1>2. state.job = worker[w].job /\ state.evidence = e
    BY <1>1 DEF WorkerState
  <1>3. worker' = [worker EXCEPT ![w] = state]
    BY DEF Answer
  <1> HIDE DEF state
  <1>4. OnlyMoves(w) /\ worker'[w] = state
    BY <1>3, MovesOnly DEF IndInv
  <1> QED
    BY <1>2, <1>4

\* ChannexResponds applies the values before it answers 2xx.
LEMMA AnswersStep ==
    ASSUME IndInv, [Next]_vars, AnswersApplied
    PROVE  AnswersApplied'
  <1> USE DEF IndInv
  <1>0. \A w \in Worker : worker[w] \in WorkerState
    BY RowTypes
  <1>1. ASSUME NEW w \in Worker, OnlyMoves(w), worker'[w].pc # "answered", applied' = applied
        PROVE  AnswersApplied'
    BY <1>1, AnswersKept DEF AnswerApplied
  <1>2. ASSUME NEW w \in Worker, NEW todo \in SUBSET Action,
               worker' = [worker EXCEPT ![w] = Resume(todo)], applied' = applied
        PROVE  AnswersApplied'
    BY <1>1, <1>2, GoesOn
  <1>3. ASSUME NEW w \in Worker, GoOn(w), applied' = applied PROVE AnswersApplied'
    BY <1>2, <1>3, TodoType DEF GoOn
  <1>4. ASSUME NEW w \in Worker, NEW a, applied' = applied,
               worker' = [worker EXCEPT ![w] = Resume(worker[w].todo \ {a})]
        PROVE  AnswersApplied'
    BY <1>2, <1>4, DropsAction
  <1>5. ASSUME NEW w \in Worker, ReadDispatchSelection(w) PROVE AnswersApplied'
    <2>1. clock \in Nat
      BY DEF TypeOK
    <2> QED
      BY <1>2, <1>5, <2>1, SelectedType DEF ReadDispatchSelection
  <1>6. ASSUME NEW w \in Worker,
               RecoverStaleDeliveryLease(w) \/ RecoverRejected(w) \/ SelectedActionFails(w)
        PROVE  AnswersApplied'
    BY <1>4, <1>6 DEF RecoverStaleDeliveryLease, RecoverRejected, SelectedActionFails
  <1>7. ASSUME NEW w \in Worker, ReadClaimPreflight(w) PROVE AnswersApplied'
    <2>1. PICK a \in worker[w].todo :
            worker' = [worker EXCEPT ![w] = IF PreflightPasses(a) THEN PreflightState(w, a)
                                            ELSE Resume(worker[w].todo \ {a})]
      BY <1>7 DEF ReadClaimPreflight, PreflightState
    <2>2. applied' = applied
      BY <1>7 DEF ReadClaimPreflight
    <2>3. CASE PreflightPasses(a)
      <3>1. OnlyMoves(w) /\ worker'[w] = PreflightState(w, a)
        BY <2>1, <2>3, MovesOnly
      <3> QED
        BY <1>1, <2>2, <3>1, PreflightType
    <2>4. CASE ~PreflightPasses(a)
      BY <1>4, <2>1, <2>2, <2>4
    <2> QED
      BY <2>3, <2>4
  <1>8. ASSUME NEW w \in Worker, ResolveCredentials(w) PROVE AnswersApplied'
    <2> DEFINE state == [worker[w] EXCEPT !.pc = "claiming", !.now = clock]
    <2>1. worker' = [worker EXCEPT ![w] = state] /\ applied' = applied
      BY <1>8 DEF ResolveCredentials
    <2>2. state.pc # "answered"
      BY <1>0 DEF WorkerState
    <2> HIDE DEF state
    <2> QED
      BY <1>1, <2>1, <2>2, MovesOnly
  <1>9. ASSUME NEW w \in Worker, ClaimDelivery(w) PROVE AnswersApplied'
    <2>1. OnlyMoves(w) /\ worker'[w].pc # "answered"
      BY <1>9, ClaimEffect
    <2> QED
      BY <1>1, <1>9, <2>1 DEF ClaimDelivery
  <1>10. ASSUME NEW w \in Worker, ClaimRejected(w) \/ LeaseBudgetInsufficient(w) \/ ActionFails(w)
         PROVE  AnswersApplied'
    BY <1>3, <1>10 DEF ClaimRejected, LeaseBudgetInsufficient, ActionFails
  <1>11. ASSUME NEW w \in Worker, Completes(w) PROVE AnswersApplied'
    BY <1>3, <1>11 DEF Completes, CompleteSuccess, CompleteTerminal, CompleteRetryable,
                      CompletionRejected, Complete
  <1>12. ASSUME NEW w \in Worker, SendHttpRequest(w) PROVE AnswersApplied'
    <2> DEFINE state == [worker[w] EXCEPT !.pc = "waiting", !.now = clock]
    <2>1. worker' = [worker EXCEPT ![w] = state] /\ applied' = applied
      BY <1>12 DEF SendHttpRequest
    <2>2. state.pc # "answered"
      BY <1>0 DEF WorkerState
    <2> HIDE DEF state
    <2> QED
      BY <1>1, <2>1, <2>2, MovesOnly
  <1>13. ASSUME NEW w \in Worker, ChannexResponds(w) PROVE AnswersApplied'
    <2>1. PICK result \in HttpResponse :
            \E retryAfterMs \in RetryAfterMs \cup {0}, stored \in Stores(result) :
               /\ Answer(w, [result |-> result, retryAfterMs |-> retryAfterMs])
               /\ IF stored THEN Apply(worker[w].job) ELSE UNCHANGED <<channex, applied>>
      BY <1>13 DEF ChannexResponds
    <2>2. PICK retryAfterMs \in RetryAfterMs \cup {0}, stored \in Stores(result) :
               /\ Answer(w, [result |-> result, retryAfterMs |-> retryAfterMs])
               /\ IF stored THEN Apply(worker[w].job) ELSE UNCHANGED <<channex, applied>>
      BY <2>1
    <2> DEFINE answer == [result |-> result, retryAfterMs |-> retryAfterMs]
    <2>3. answer \in Evidence /\ answer.result = result
      BY DEF Evidence
    <2> HIDE DEF answer
    <2>4. Answer(w, answer)
      BY <2>2 DEF answer
    <2>5. OnlyMoves(w) /\ worker'[w].job = worker[w].job /\ worker'[w].evidence = answer
      BY <2>3, <2>4, AnswerMove
    <2>6. applied \subseteq applied'
      BY <2>2 DEF Apply
    <2>7. result = "2xx" => worker[w].job \in applied'
      BY <2>2 DEF Apply, Stores
    <2> QED
      BY <2>3, <2>5, <2>6, <2>7, AnswersKept DEF AnswerApplied
  <1>14. ASSUME NEW w \in Worker, NoResponse(w) PROVE AnswersApplied'
    <2>1. NoEvidence \in Evidence /\ NoEvidence.result # "2xx"
      BY DEF NoEvidence, Evidence
    <2>2. OnlyMoves(w) /\ worker'[w].evidence = NoEvidence
      BY <1>14, <2>1, AnswerMove DEF NoResponse
    <2>3. applied \subseteq applied'
      BY <1>14 DEF NoResponse, Apply
    <2> QED
      BY <2>1, <2>2, <2>3, AnswersKept DEF AnswerApplied
  <1>15. ASSUME NEW w \in Worker, Crash(w) PROVE AnswersApplied'
    <2>1. OnlyMoves(w) /\ worker'[w] = Idle /\ applied' = applied
      BY <1>15, MovesOnly DEF Crash
    <2> QED
      BY <1>1, <2>1, IdleType
  <1>16. ASSUME worker' = worker, applied \subseteq applied' PROVE AnswersApplied'
    BY <1>16, AnswersKept
  <1>17. ASSUME NEW r \in wire, ChannexHandlesUnanswered(r) PROVE AnswersApplied'
    BY <1>16, <1>17 DEF ChannexHandlesUnanswered, Apply
  <1>18. ASSUME NEW d \in Delivery, Enqueue(d) PROVE AnswersApplied'
    BY <1>16, <1>18 DEF Enqueue
  <1>19. CASE Tick \/ UNCHANGED vars
    BY <1>16, <1>19 DEF Tick, vars
  <1> QED
    BY <1>5, <1>6, <1>7, <1>8, <1>9, <1>10, <1>11, <1>12, <1>13, <1>14, <1>15, <1>17, <1>18,
       <1>19 DEF Next, DispatchStep

LEMMA EffectInvHolds == Spec => []EffectInv
  <1>1. Init => EffectInv
    BY IdleType DEF Init, EffectInv, RequestsBegun, AnswersApplied, AnswerApplied
  <1>2. IndInv /\ EffectInv /\ [Next]_vars => EffectInv'
    BY RequestsStep, AnswersStep DEF EffectInv
  <1> QED
    BY <1>1, <1>2, IndInvHolds, PTL DEF Spec

-----------------------------------------------------------------------------
(* The steps of the abstract lifecycle.                                    *)

ShownStatus == [d \in Delivery |-> LifecycleStatus(d)]
ShownTries == [d \in Delivery |-> delivery[d].attemptCount]
ShownVars == <<ShownStatus, ShownTries, applied>>

LEMMA SameVars == UNCHANGED ShownVars => UNCHANGED Lifecycle!lifecycleVars
  BY DEF Lifecycle!lifecycleVars, ShownVars, ShownStatus, ShownTries

LEMMA ShownInit == Init => Lifecycle!LifecycleInit
  <1> SUFFICES ASSUME Init PROVE Lifecycle!LifecycleInit
    OBVIOUS
  <1>1. \A d \in Delivery : delivery[d].status = "ABSENT" /\ delivery[d].attemptCount = 0
    BY DEF Init
  <1>2. \A d \in Delivery : LifecycleStatus(d) = "ABSENT"
    BY <1>1 DEF LifecycleStatus, Waiting
  <1> QED
    BY <1>1, <1>2 DEF Init, Lifecycle!LifecycleInit

\* What the abstraction shows of one row that moved, the others staying.
LEMMA ShownMove ==
    ASSUME NEW d \in Delivery, \A e \in Delivery \ {d} : delivery'[e] = delivery[e],
           NEW status, LifecycleStatus(d)' = status
    PROVE  /\ ShownStatus' = [ShownStatus EXCEPT ![d] = status]
           /\ ShownTries' = [ShownTries EXCEPT ![d] = delivery'[d].attemptCount]
  <1>1. \A e \in Delivery \ {d} : LifecycleStatus(e)' = LifecycleStatus(e)
    BY DEF LifecycleStatus
  <1> HIDE DEF LifecycleStatus
  <1> QED
    BY <1>1 DEF ShownStatus, ShownTries

LEMMA ShownSame ==
    ASSUME delivery' = delivery
    PROVE  ShownStatus' = ShownStatus /\ ShownTries' = ShownTries
  BY DEF ShownStatus, ShownTries, LifecycleStatus

LEMMA ShownValues ==
    ASSUME NEW d \in Delivery
    PROVE  /\ ShownStatus[d] = LifecycleStatus(d) /\ ShownTries[d] = delivery[d].attemptCount
           /\ delivery[d].status \in Waiting => LifecycleStatus(d) = "PENDING"
           /\ delivery[d].status = "PROCESSING" => LifecycleStatus(d) = "TRYING"
           /\ delivery[d].status \in {"ABSENT", "SENT", "DEAD"} =>
                LifecycleStatus(d) = delivery[d].status
  BY DEF ShownStatus, ShownTries, LifecycleStatus, Waiting

LEMMA ShownValuesNext ==
    ASSUME NEW d \in Delivery
    PROVE  /\ delivery'[d].status \in Waiting => LifecycleStatus(d)' = "PENDING"
           /\ delivery'[d].status = "PROCESSING" => LifecycleStatus(d)' = "TRYING"
           /\ delivery'[d].status \in {"ABSENT", "SENT", "DEAD"} =>
                LifecycleStatus(d)' = delivery'[d].status
  BY DEF LifecycleStatus, Waiting

LEMMA ShownAccept ==
    ASSUME IndInv, NEW d \in Delivery, Enqueue(d)
    PROVE  Lifecycle!LifecycleNext
  <1>1. delivery[d] \in DeliveryRow /\ delivery[d].status = "ABSENT"
    BY RowTypes DEF IndInv, Enqueue
  <1>2. delivery'[d] = [delivery[d] EXCEPT !.status = "READY", !.nextAttemptAt = clock,
                                           !.queuedAt = clock]
    BY DEF Enqueue, IndInv, TypeOK
  <1>3. delivery'[d].status = "READY" /\ delivery'[d].attemptCount = delivery[d].attemptCount
    BY <1>1, <1>2 DEF DeliveryRow
  <1>4. \A e \in Delivery \ {d} : delivery'[e] = delivery[e]
    BY DEF Enqueue, IndInv, TypeOK
  <1>5. LifecycleStatus(d)' = "PENDING"
    BY <1>3, ShownValuesNext DEF Waiting
  <1>6. /\ ShownStatus[d] = "ABSENT"
        /\ ShownStatus' = [ShownStatus EXCEPT ![d] = "PENDING"]
        /\ ShownTries' = [ShownTries EXCEPT ![d] = ShownTries[d]]
    BY <1>1, <1>3, <1>4, <1>5, ShownMove, ShownValues
  <1>7. ShownTries' = ShownTries
    BY <1>6 DEF ShownTries
  <1>8. applied' = applied
    BY DEF Enqueue
  <1>9. Lifecycle!Accept(d)
    BY <1>6, <1>7, <1>8 DEF Lifecycle!Accept, ShownStatus, ShownTries
  <1> QED
    BY <1>9 DEF Lifecycle!LifecycleNext

LEMMA ShownTry ==
    ASSUME IndInv, NEW w \in Worker, ClaimDelivery(w)
    PROVE  Lifecycle!LifecycleNext
  <1> USE DEF IndInv
  <1>1. PICK d \in Delivery : d = worker[w].job
    BY ClaimNumber
  <1>2. /\ delivery'[d].attemptCount = delivery[d].attemptCount + 1
        /\ \A e \in Delivery \ {d} : delivery'[e] = delivery[e]
    BY <1>1, ClaimEffect
  <1>3. delivery[d].status \in Waiting /\ delivery[d].attemptCount < MaxAttempts
    BY <1>1 DEF ClaimDelivery, Eligible
  <1>4. delivery'[d].status = "PROCESSING"
    <2>1. delivery[d] \in DeliveryRow
      BY RowTypes
    <2>2. PICK n \in 1..MaxAttempts, now \in Nat :
            n = delivery[d].attemptCount + 1 /\ now = worker[w].now
      BY <1>1, ClaimNumber, RowTypes
    <2>3. delivery'[d] = [delivery[d] EXCEPT !.status = "PROCESSING", !.attemptCount = n,
                            !.nextAttemptAt = 0, !.leaseToken = n,
                            !.leaseExpiresAt = now + LeaseMs]
      BY <1>1, <2>2 DEF ClaimDelivery, TypeOK
    <2> QED
      BY <2>1, <2>3 DEF DeliveryRow
  <1>5. LifecycleStatus(d)' = "TRYING"
    BY <1>4, ShownValuesNext
  <1>6. /\ ShownStatus[d] = "PENDING" /\ ShownTries[d] < MaxAttempts
        /\ ShownStatus' = [ShownStatus EXCEPT ![d] = "TRYING"]
        /\ ShownTries' = [ShownTries EXCEPT ![d] = ShownTries[d] + 1]
    BY <1>2, <1>3, <1>5, ShownMove, ShownValues
  <1>7. applied' = applied
    BY DEF ClaimDelivery
  <1>8. Lifecycle!Try(d)
    BY <1>6, <1>7 DEF Lifecycle!Try, ShownStatus, ShownTries
  <1> QED
    BY <1>8 DEF Lifecycle!LifecycleNext

\* What is released is given back with attempts left, dead, or sent and applied.
LEMMA ShownRelease ==
    ASSUME IndInv, NEW d \in Delivery, NEW outcome, Releases(d, outcome), applied' = applied,
           \/ delivery'[d].status = "RETRY_WAIT" /\ delivery[d].attemptCount < MaxAttempts
           \/ delivery'[d].status = "DEAD"
           \/ delivery'[d].status = "SENT" /\ d \in applied
    PROVE  Lifecycle!LifecycleNext
  <1>1. /\ delivery[d].status = "PROCESSING"
        /\ delivery'[d].attemptCount = delivery[d].attemptCount
        /\ \A e \in Delivery \ {d} : delivery'[e] = delivery[e]
    BY DEF Releases, IndInv, AttemptLedger
  <1>2. ShownStatus[d] = "TRYING" /\ ShownTries[d] = delivery[d].attemptCount
    BY <1>1, ShownValues
  <1>3. ShownTries' = ShownTries
    <2>1. ShownTries' = [ShownTries EXCEPT ![d] = ShownTries[d]]
      BY <1>1, <1>2, ShownMove
    <2> QED
      BY <2>1 DEF ShownTries
  <1>4. CASE delivery'[d].status = "RETRY_WAIT" /\ delivery[d].attemptCount < MaxAttempts
    <2>1. LifecycleStatus(d)' = "PENDING"
      BY <1>4, ShownValuesNext DEF Waiting
    <2>2. ShownStatus' = [ShownStatus EXCEPT ![d] = "PENDING"]
      BY <1>1, <2>1, ShownMove
    <2>3. Lifecycle!GiveBack(d)
      BY <1>2, <1>3, <1>4, <2>2 DEF Lifecycle!GiveBack, ShownStatus, ShownTries
    <2> QED
      BY <2>3 DEF Lifecycle!LifecycleNext
  <1>5. CASE delivery'[d].status \in {"SENT", "DEAD"}
    <2>1. LifecycleStatus(d)' = delivery'[d].status
      BY <1>5, ShownValuesNext
    <2>2. ShownStatus' = [ShownStatus EXCEPT ![d] = delivery'[d].status]
      BY <1>1, <2>1, ShownMove
    <2>3. Lifecycle!Settle(d)
      BY <1>2, <1>3, <1>5, <2>2 DEF Lifecycle!Settle, ShownStatus, ShownTries
    <2> QED
      BY <2>3 DEF Lifecycle!LifecycleNext
  <1> QED
    BY <1>4, <1>5

LEMMA ShownRecover ==
    ASSUME IndInv, NEW w \in Worker, RecoverStaleDeliveryLease(w)
    PROVE  Lifecycle!LifecycleNext
  <1> USE DEF IndInv
  <1>1. PICK a \in worker[w].todo :
          /\ a.delivery \in Delivery /\ Releases(a.delivery, "UNKNOWN_AFTER_LEASE")
    BY RecoverReleases
  <1>2. PICK d \in Delivery :
          LET n == delivery[d].attemptCount
              delayMs == GetRetryDelayMs(n, 0)
          IN  /\ Stale(d, clock)
              /\ delivery' = [delivery EXCEPT ![d] =
                   IF Exhausted(n) THEN ReleasedRow(@, "DEAD", 0)
                                   ELSE ReleasedRow(@, "RETRY_WAIT", clock + delayMs)]
    BY ActionType DEF RecoverStaleDeliveryLease
  <1> DEFINE n == delivery[d].attemptCount
             retryAt == clock + GetRetryDelayMs(n, 0)
  <1>3. n \in 1..MaxAttempts /\ clock \in Nat
    <2>1. delivery[d].leaseToken # 0 /\ delivery[d].leaseToken \in {0, n}
      BY <1>2, Zenon DEF AttemptLedger, Stale
    <2> QED
      BY <2>1, RowTypes DEF TypeOK
  <1>4. retryAt \in Nat
    <2>1. GetRetryDelayMs(n, 0) \in Nat
      BY <1>3, DelayType
    <2> QED
      BY <1>3, <2>1
  <1>5. "DEAD" \in DeliveryStatus /\ "RETRY_WAIT" \in DeliveryStatus
    BY DEF DeliveryStatus
  <1>6. \/ delivery'[d].status = "DEAD"
        \/ delivery'[d].status = "RETRY_WAIT" /\ delivery[d].attemptCount < MaxAttempts
    <2>1. CASE Exhausted(n)
      <3>1. delivery' = [delivery EXCEPT ![d] = ReleasedRow(delivery[d], "DEAD", 0)]
        BY <1>2, <2>1
      <3> QED
        BY <1>5, <3>1, ReleaseEffect
    <2>2. CASE ~Exhausted(n)
      <3>1. delivery' = [delivery EXCEPT ![d] = ReleasedRow(delivery[d], "RETRY_WAIT", retryAt)]
        BY <1>2, <2>2
      <3>2. n < MaxAttempts
        BY <1>3, <2>2, TimingAssumption DEF Exhausted
      <3> HIDE DEF retryAt
      <3> QED
        BY <1>4, <1>5, <3>1, <3>2, ReleaseEffect
    <2> QED
      BY <2>1, <2>2
  <1>7. a.delivery = d
    <2>1. delivery[d].status = "PROCESSING"
      BY <1>2 DEF Stale
    <2> QED
      BY <1>1, <1>6, <2>1 DEF Releases
  <1>8. applied' = applied
    BY DEF RecoverStaleDeliveryLease
  <1> QED
    BY <1>1, <1>6, <1>7, <1>8, ShownRelease

LEMMA ShownVerdict ==
    ASSUME IndInv, EffectInv, NEW w \in Worker,
           CompleteSuccess(w) \/ CompleteTerminal(w) \/ CompleteRetryable(w)
    PROVE  Lifecycle!LifecycleNext
  <1> USE DEF IndInv
  <1>1. /\ worker[w].pc = "answered" /\ MayComplete(w) /\ applied' = applied
        /\ \E outcome \in {"SUCCESS", "TERMINAL_FAILURE", "RETRYABLE_FAILURE"} :
             Releases(worker[w].job, outcome)
    BY VerdictReleases DEF CompleteSuccess, CompleteTerminal, CompleteRetryable, Complete
  <1>2. PICK d \in Delivery : d = worker[w].job /\ delivery[d].attemptCount \in 1..MaxAttempts
    BY <1>1, CompletingRow
  <1>3. "SENT" \in DeliveryStatus /\ "DEAD" \in DeliveryStatus /\ "RETRY_WAIT" \in DeliveryStatus
    BY DEF DeliveryStatus
  <1>4. ASSUME NEW status \in DeliveryStatus, NEW next \in Nat, NEW outcome,
               Complete(w, status, next, outcome)
        PROVE  delivery'[d].status = status
    <2>1. delivery' = [delivery EXCEPT ![d] = ReleasedRow(delivery[d], status, next)]
      BY <1>2, <1>4 DEF Complete
    <2> QED
      BY <2>1, ReleaseEffect
  <1>5. CASE CompleteSuccess(w)
    <2>1. delivery'[d].status = "SENT"
      BY <1>3, <1>4, <1>5 DEF CompleteSuccess
    <2>2. worker[w].evidence.result = "2xx"
      BY <1>5 DEF CompleteSuccess, Completing, ClassifyAttempt
    <2>3. d \in applied
      BY <1>1, <1>2, <2>2 DEF EffectInv, AnswersApplied, AnswerApplied
    <2> QED
      BY <1>1, <1>2, <2>1, <2>3, ShownRelease
  <1>6. CASE CompleteTerminal(w)
    <2>1. delivery'[d].status = "DEAD"
      BY <1>3, <1>4, <1>6 DEF CompleteTerminal
    <2> QED
      BY <1>1, <1>2, <2>1, ShownRelease
  <1>7. CASE CompleteRetryable(w)
    <2> DEFINE retryAt == worker[w].now
                 + GetRetryDelayMs(delivery[d].attemptCount, worker[w].evidence.retryAfterMs)
    <2>1. retryAt \in Nat
      <3>1. worker[w].now \in Nat /\ worker[w].evidence.retryAfterMs \in Nat
        BY RowTypes
      <3> QED
        BY <1>2, <3>1, DelayType
    <2>2. IF Exhausted(delivery[d].attemptCount)
          THEN Complete(w, "DEAD", 0, "RETRYABLE_FAILURE")
          ELSE Complete(w, "RETRY_WAIT", retryAt, "RETRYABLE_FAILURE")
      BY <1>2, <1>7 DEF CompleteRetryable
    <2> HIDE DEF retryAt
    <2>3. \/ delivery'[d].status = "DEAD"
          \/ delivery'[d].status = "RETRY_WAIT" /\ delivery[d].attemptCount < MaxAttempts
      <3>1. CASE Exhausted(delivery[d].attemptCount)
        BY <1>3, <1>4, <2>2, <3>1
      <3>2. CASE ~Exhausted(delivery[d].attemptCount)
        <4>1. delivery[d].attemptCount < MaxAttempts
          BY <1>2, <3>2, TimingAssumption DEF Exhausted
        <4> QED
          BY <1>3, <1>4, <2>1, <2>2, <3>2, <4>1
      <3> QED
        BY <3>1, <3>2
    <2> QED
      BY <1>1, <1>2, <2>3, ShownRelease
  <1> QED
    BY <1>5, <1>6, <1>7

LEMMA ShownApply ==
    ASSUME NEW d \in Delivery, delivery[d].attemptCount > 0, delivery' = delivery, Apply(d)
    PROVE  Lifecycle!LifecycleNext
  <1>1. ShownTries[d] > 0
    BY ShownValues
  <1>2. Lifecycle!TakeEffect(d)
    BY <1>1, ShownSame DEF Lifecycle!TakeEffect, Apply, ShownStatus, ShownTries
  <1> QED
    BY <1>2 DEF Lifecycle!LifecycleNext

LEMMA ShownStep ==
    ASSUME IndInv, EffectInv, [Next]_vars
    PROVE  [Lifecycle!LifecycleNext]_ShownVars
  <1> USE DEF IndInv
  <1>1. ASSUME delivery' = delivery, applied' = applied PROVE UNCHANGED ShownVars
    BY <1>1, ShownSame DEF ShownVars
  <1>2. ASSUME NEW w \in Worker, ChannexResponds(w) \/ NoResponse(w)
        PROVE  [Lifecycle!LifecycleNext]_ShownVars
    <2>1. /\ delivery' = delivery /\ worker[w].pc = "waiting"
          /\ Apply(worker[w].job) \/ applied' = applied
      BY <1>2 DEF ChannexResponds, NoResponse
    <2>2. worker[w].job \in Delivery /\ delivery[worker[w].job].attemptCount > 0
      BY <2>1, RequestBegun
    <2> QED
      BY <1>1, <2>1, <2>2, ShownApply
  <1>3. ASSUME NEW r \in wire, ChannexHandlesUnanswered(r)
        PROVE  [Lifecycle!LifecycleNext]_ShownVars
    <2>1. r \in Request
      BY DEF TypeOK
    <2>2. r.delivery \in Delivery /\ delivery[r.delivery].attemptCount > 0
      BY <2>1 DEF Request, EffectInv, RequestsBegun
    <2> QED
      BY <1>3, <2>2, ShownApply DEF ChannexHandlesUnanswered
  <1>4. ASSUME NEW w \in Worker,
               \/ ReadDispatchSelection(w) \/ RecoverRejected(w) \/ ReadClaimPreflight(w)
               \/ ResolveCredentials(w) \/ ClaimRejected(w) \/ SendHttpRequest(w)
               \/ LeaseBudgetInsufficient(w) \/ CompletionRejected(w) \/ Crash(w)
               \/ ActionFails(w) \/ SelectedActionFails(w)
        PROVE  UNCHANGED ShownVars
    BY <1>1, <1>4 DEF ReadDispatchSelection, RecoverRejected, ReadClaimPreflight,
       ResolveCredentials, ClaimRejected, SendHttpRequest, LeaseBudgetInsufficient,
       CompletionRejected, Crash, ActionFails, SelectedActionFails
  <1>5. Tick \/ UNCHANGED vars => UNCHANGED ShownVars
    BY <1>1 DEF Tick, vars
  <1> QED
    BY <1>2, <1>3, <1>4, <1>5, ShownAccept, ShownTry, ShownRecover, ShownVerdict
    DEF Next, DispatchStep, Completes

\* The dispatcher keeps the promise DeliveryLifecycle states of every delivery, through
\* crashes, lost answers, stale leases and late completions.
THEOREM LifecycleRefinement == Spec => ImplementsLifecycle
  <1>1. IndInv /\ EffectInv /\ [Next]_vars => [Lifecycle!LifecycleNext]_(Lifecycle!lifecycleVars)
    BY ShownStep, SameVars
  <1> QED
    BY <1>1, ShownInit, IndInvHolds, EffectInvHolds, PTL
    DEF Spec, ImplementsLifecycle, Lifecycle!LifecycleSpec
=============================================================================
