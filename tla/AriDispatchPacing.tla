------------------------- MODULE AriDispatchPacing -------------------------
(***************************************************************************)
(* Verdicts, pauses and spacing of AriDispatch, for every value of its      *)
(* constants, on top of the inductive invariant of AriDispatchProofs.       *)
(***************************************************************************)
EXTENDS AriDispatchProofs

-----------------------------------------------------------------------------
(* What a step leaves of the property rows.                                *)

PausedUntil(d) == propertyState[PropertyOf[d]].pausedUntil
NextAllowedAt(d) == propertyState[PropertyOf[d]].nextAllowedAt[KindOf[d]]

\* Pauses only grow, and the slots of the message kinds stay.
Pauses ==
    \A d \in Delivery : /\ PausedUntil(d)' \in Nat /\ PausedUntil(d) \in Nat
                        /\ PausedUntil(d)' >= PausedUntil(d)
                        /\ NextAllowedAt(d)' = NextAllowedAt(d)

LEMMA PausesKept ==
    ASSUME TypeOK, UNCHANGED propertyState
    PROVE  Pauses
  <1>1. \A d \in Delivery : PropertyOf[d] \in Property
    BY DeliveryAssumption
  <1>2. \A d \in Delivery : PausedUntil(d) \in Nat
    BY <1>1, RowTypes DEF PausedUntil
  <1> QED
    BY <1>2 DEF Pauses, PausedUntil, NextAllowedAt

LEMMA PausesLater ==
    ASSUME TypeOK, NEW c \in Delivery, NEW until \in Nat,
           propertyState' = [propertyState EXCEPT ![PropertyOf[c]].pausedUntil = laterDate(@, until)]
    PROVE  Pauses /\ PausedUntil(c)' >= until
  <1> DEFINE p == PropertyOf[c]
             row == [propertyState[p] EXCEPT !.pausedUntil = laterDate(@, until)]
  <1>1. \A d \in Delivery : PropertyOf[d] \in Property
    BY DeliveryAssumption
  <1>2. propertyState \in [Property -> PropertyRow]
    BY DEF TypeOK
  <1>3. /\ propertyState[p].pausedUntil \in Nat
        /\ propertyState[p] \in PropertyRow
    BY <1>1, RowTypes
  <1>4. /\ laterDate(propertyState[p].pausedUntil, until) \in Nat
        /\ laterDate(propertyState[p].pausedUntil, until) >= propertyState[p].pausedUntil
        /\ laterDate(propertyState[p].pausedUntil, until) >= until
    BY <1>3, LaterType
  <1>5. /\ row.pausedUntil = laterDate(propertyState[p].pausedUntil, until)
        /\ row.nextAllowedAt = propertyState[p].nextAllowedAt
    BY <1>3 DEF PropertyRow
  <1>6. /\ propertyState'[p] = row
        /\ \A q \in Property : q # p => propertyState'[q] = propertyState[q]
    BY <1>1, <1>2
  <1> HIDE DEF row
  <1>7. ASSUME NEW d \in Delivery
        PROVE  /\ PausedUntil(d)' \in Nat /\ PausedUntil(d) \in Nat
               /\ PausedUntil(d)' >= PausedUntil(d) /\ NextAllowedAt(d)' = NextAllowedAt(d)
    <2>1. propertyState[PropertyOf[d]].pausedUntil \in Nat
      BY <1>1, RowTypes
    <2>2. CASE PropertyOf[d] = p
      BY <1>4, <1>5, <1>6, <2>1, <2>2 DEF PausedUntil, NextAllowedAt
    <2>3. CASE PropertyOf[d] # p
      BY <1>1, <1>6, <2>1, <2>3 DEF PausedUntil, NextAllowedAt
    <2> QED
      BY <2>2, <2>3
  <1> QED
    BY <1>4, <1>5, <1>6, <1>7 DEF Pauses, PausedUntil

-----------------------------------------------------------------------------
(* Releases: what becomes of the delivery, its attempt and its property.   *)

\* What ends as `status' after its attempt n got `outcome'.
Verdict(status, outcome, n) ==
    \/ status = "SENT" /\ outcome = "SUCCESS"
    \/ status = "DEAD" /\ outcome = "TERMINAL_FAILURE"
    \/ /\ status = "DEAD" /\ n = MaxAttempts
       /\ outcome \in {"RETRYABLE_FAILURE", "UNKNOWN_AFTER_LEASE"}
    \/ status = "RETRY_WAIT" /\ outcome \in {"RETRYABLE_FAILURE", "UNKNOWN_AFTER_LEASE"}

ReleasedTo(d, status, next) ==
    delivery' = [delivery EXCEPT ![d] = ReleasedRow(delivery[d], status, next)]
EndsAs(d, status, next) ==
    delivery'[d].status = status /\ delivery'[d].nextAttemptAt = next

LEMMA ReleasedEnds ==
    ASSUME TypeOK, NEW d \in Delivery, NEW status \in DeliveryStatus, NEW next \in Nat,
           ReleasedTo(d, status, next)
    PROVE  EndsAs(d, status, next)
  <1>1. delivery' = [delivery EXCEPT ![d] = ReleasedRow(delivery[d], status, next)]
    BY DEF ReleasedTo
  <1>2. delivery'[d] = ReleasedRow(delivery[d], status, next)
    BY <1>1 DEF TypeOK
  <1>3. delivery[d] \in DeliveryRow
    BY RowTypes
  <1>4. /\ ReleasedRow(delivery[d], status, next).status = status
        /\ ReleasedRow(delivery[d], status, next).nextAttemptAt = next
    BY <1>3, ReleasedType
  <1> QED
    BY <1>2, <1>4, Zenon DEF EndsAs

Settles(d, status, next, outcome) ==
    /\ Releases(d, outcome)
    /\ delivery[d].attemptCount \in 1..MaxAttempts
    /\ EndsAs(d, status, next)
    /\ Verdict(status, outcome, delivery[d].attemptCount)
    /\ Pauses
    /\ status = "RETRY_WAIT" => next > 0 /\ PausedUntil(d)' >= next

Settled == \E d \in Delivery, status \in DeliveryStatus, next \in Nat, outcome \in AttemptOutcome :
             Settles(d, status, next, outcome)

LEMMA LastAttempt ==
    ASSUME NEW n \in 1..MaxAttempts, Exhausted(n)
    PROVE  n = MaxAttempts
  BY TimingAssumption DEF Exhausted

LEMMA RecoverSettles ==
    ASSUME IndInv, NEW w \in Worker, RecoverStaleDeliveryLease(w)
    PROVE  Settled
  <1> USE DEF IndInv
  <1>1. PICK d \in Delivery :
          LET n == delivery[d].attemptCount
              delayMs == GetRetryDelayMs(n, 0)
          IN  /\ Stale(d, clock)
              /\ delivery' = [delivery EXCEPT ![d] =
                   IF Exhausted(n) THEN ReleasedRow(@, "DEAD", 0)
                                   ELSE ReleasedRow(@, "RETRY_WAIT", clock + delayMs)]
              /\ attempt' = [attempt EXCEPT ![d][n].outcome = "UNKNOWN_AFTER_LEASE"]
              /\ propertyState' = [propertyState EXCEPT ![PropertyOf[d]].pausedUntil =
                   laterDate(@, PropertyPause(clock, IF Exhausted(n) THEN 0 ELSE delayMs, 0))]
    BY ActionType DEF RecoverStaleDeliveryLease
  <1> DEFINE n == delivery[d].attemptCount
             delayMs == GetRetryDelayMs(n, 0)
             retryAt == clock + delayMs
             until == PropertyPause(clock, IF Exhausted(n) THEN 0 ELSE delayMs, 0)
  <1>2. d \in Delivery /\ clock \in Nat
    BY DEF TypeOK
  <1>3. n \in 1..MaxAttempts /\ delivery[d].leaseToken # 0
    <2>1. n \in 0..MaxAttempts
      BY <1>2, RowTypes
    <2>2. delivery[d].leaseToken # 0 /\ delivery[d].leaseToken \in {0, n}
      BY <1>1, <1>2, Zenon DEF AttemptLedger, Stale
    <2> QED
      BY <2>1, <2>2
  <1>4. delayMs \in Nat /\ delayMs >= MinPauseMs /\ MinPauseMs \in Nat \ {0}
    BY <1>3, DelayType, TimingAssumption
  <1>5. until \in Nat /\ (~Exhausted(n) => until >= retryAt)
    <2>1. CASE Exhausted(n)
      BY <1>2, <2>1, PauseType
    <2>2. CASE ~Exhausted(n)
      BY <1>2, <1>4, <2>2, PauseType
    <2> QED
      BY <2>1, <2>2
  <1>6. Pauses /\ PausedUntil(d)' >= until /\ PausedUntil(d)' \in Nat
    <2>1. Pauses /\ PausedUntil(d)' >= until
      BY <1>1, <1>2, <1>5, PausesLater
    <2> QED
      BY <1>2, <2>1 DEF Pauses
  <1>7. "DEAD" \in DeliveryStatus /\ "RETRY_WAIT" \in DeliveryStatus
        /\ "UNKNOWN_AFTER_LEASE" \in AttemptOutcome
    BY DEF DeliveryStatus, AttemptOutcome
  <1>8. Releases(d, "UNKNOWN_AFTER_LEASE")
    <2>1. PICK b \in worker[w].todo : b.delivery \in Delivery
                                      /\ Releases(b.delivery, "UNKNOWN_AFTER_LEASE")
      BY RecoverReleases
    <2>2. CASE b.delivery = d
      BY <2>1, <2>2
    <2>3. CASE b.delivery # d
      <3>1. delivery'[d] = delivery[d]
        BY <1>2, <2>1, <2>3 DEF Releases
      <3>2. delivery'[d].leaseToken = 0
        <4>1. CASE Exhausted(n)
          <5>1. delivery' = [delivery EXCEPT ![d] = ReleasedRow(delivery[d], "DEAD", 0)]
            BY <1>1, <4>1
          <5> QED
            BY <1>7, <5>1, ReleaseEffect
        <4>2. CASE ~Exhausted(n)
          <5>1. delivery' = [delivery EXCEPT ![d] = ReleasedRow(delivery[d], "RETRY_WAIT", retryAt)]
            BY <1>1, <4>2
          <5>2. retryAt \in Nat
            BY <1>2, <1>4
          <5> HIDE DEF retryAt
          <5> QED
            BY <1>7, <5>1, <5>2, ReleaseEffect
        <4> QED
          BY <4>1, <4>2
      <3> QED
        BY <1>3, <3>1, <3>2
    <2> QED
      BY <2>2, <2>3
  <1> HIDE DEF until, delayMs
  <1>9. CASE Exhausted(n)
    <2>1. delivery' = [delivery EXCEPT ![d] = ReleasedRow(delivery[d], "DEAD", 0)]
      BY <1>1, <1>9
    <2>2. EndsAs(d, "DEAD", 0)
      BY <1>7, <2>1, ReleasedEnds DEF ReleasedTo
    <2>3. Verdict("DEAD", "UNKNOWN_AFTER_LEASE", n)
      BY <1>3, <1>9, LastAttempt DEF Verdict
    <2>4. Settles(d, "DEAD", 0, "UNKNOWN_AFTER_LEASE")
      BY <1>3, <1>6, <1>8, <2>2, <2>3 DEF Settles
    <2> QED
      BY <1>2, <1>7, <2>4 DEF Settled
  <1>10. CASE ~Exhausted(n)
    <2>1. retryAt \in Nat /\ retryAt > 0 /\ PausedUntil(d)' >= retryAt
      BY <1>2, <1>4, <1>5, <1>6, <1>10
    <2>2. delivery' = [delivery EXCEPT ![d] = ReleasedRow(delivery[d], "RETRY_WAIT", retryAt)]
      BY <1>1, <1>10 DEF delayMs
    <2> HIDE DEF retryAt
    <2>3. EndsAs(d, "RETRY_WAIT", retryAt)
      BY <1>7, <2>1, <2>2, ReleasedEnds DEF ReleasedTo
    <2>4. Settles(d, "RETRY_WAIT", retryAt, "UNKNOWN_AFTER_LEASE")
      BY <1>3, <1>6, <1>8, <2>1, <2>3 DEF Settles, Verdict
    <2> QED
      BY <1>2, <1>7, <2>1, <2>4 DEF Settled
  <1> QED
    BY <1>9, <1>10

\* The completions share the rows' part; each has its own verdict and pause.
LEMMA CompleteSettles ==
    ASSUME IndInv, NEW w \in Worker, worker[w].pc = "answered", MayComplete(w),
           NEW d \in Delivery, d = worker[w].job,
           NEW status \in DeliveryStatus \ {"PROCESSING"}, NEW next \in Nat,
           NEW outcome \in AttemptOutcome, Complete(w, status, next, outcome),
           Verdict(status, outcome, delivery[d].attemptCount), Pauses,
           status = "RETRY_WAIT" => next > 0 /\ PausedUntil(d)' >= next
    PROVE  Settled
  <1> USE DEF IndInv
  <1>1. delivery[d].attemptCount \in 1..MaxAttempts
    BY CompletingRow
  <1>2. Releases(d, outcome)
    BY CompleteReleases
  <1>3. ReleasedTo(d, status, next)
    BY DEF Complete, ReleasedTo
  <1>4. EndsAs(d, status, next)
    BY <1>3, ReleasedEnds
  <1>5. Settles(d, status, next, outcome)
    BY <1>1, <1>2, <1>4 DEF Settles
  <1> QED
    BY <1>5 DEF Settled

LEMMA CompletionStatus ==
    /\ {"SENT", "DEAD", "RETRY_WAIT"} \subseteq DeliveryStatus \ {"PROCESSING"}
    /\ {"SUCCESS", "TERMINAL_FAILURE", "RETRYABLE_FAILURE"} \subseteq AttemptOutcome
  BY DEF DeliveryStatus, AttemptOutcome

LEMMA SuccessSettles ==
    ASSUME IndInv, NEW w \in Worker, CompleteSuccess(w)
    PROVE  Settled
  <1> USE DEF IndInv
  <1>1. worker[w].pc = "answered" /\ MayComplete(w)
    BY DEF CompleteSuccess, Completing
  <1>2. PICK d \in Delivery : d = worker[w].job
    BY <1>1, CompletingRow
  <1>3. propertyState' = propertyState \/
        propertyState' = [propertyState EXCEPT ![PropertyOf[d]].lastFullSyncCompletedAt = worker[w].now]
    BY <1>2 DEF CompleteSuccess
  <1>4. Pauses
    <2>1. CASE propertyState' = propertyState
      BY <2>1, PausesKept
    <2>2. CASE propertyState' =
                 [propertyState EXCEPT ![PropertyOf[d]].lastFullSyncCompletedAt = worker[w].now]
      <3>1. propertyState \in [Property -> PropertyRow]
        BY DEF TypeOK
      <3>2. \A q \in Property : /\ propertyState'[q].pausedUntil = propertyState[q].pausedUntil
                                /\ propertyState'[q].nextAllowedAt = propertyState[q].nextAllowedAt
        BY <2>2, <3>1 DEF PropertyRow
      <3>3. \A e \in Delivery : PropertyOf[e] \in Property
        BY DeliveryAssumption
      <3>4. \A e \in Delivery : PausedUntil(e) \in Nat
        BY <3>3, RowTypes DEF PausedUntil
      <3> QED
        BY <3>2, <3>3, <3>4 DEF Pauses, PausedUntil, NextAllowedAt
    <2> QED
      BY <1>3, <2>1, <2>2
  <1>5. Complete(w, "SENT", 0, "SUCCESS")
    BY DEF CompleteSuccess
  <1> QED
    BY <1>1, <1>2, <1>4, <1>5, CompleteSettles, CompletionStatus DEF Verdict

LEMMA TerminalSettles ==
    ASSUME IndInv, NEW w \in Worker, CompleteTerminal(w)
    PROVE  Settled
  <1>1. worker[w].pc = "answered" /\ MayComplete(w)
    BY DEF CompleteTerminal, Completing
  <1>2. Pauses
    BY PausesKept DEF CompleteTerminal, IndInv
  <1>3. Complete(w, "DEAD", 0, "TERMINAL_FAILURE")
    BY DEF CompleteTerminal
  <1>4. PICK d \in Delivery : d = worker[w].job
    BY <1>1, CompletingRow DEF IndInv
  <1> QED
    BY <1>1, <1>2, <1>3, <1>4, CompleteSettles, CompletionStatus DEF Verdict

LEMMA RetryableSettles ==
    ASSUME IndInv, NEW w \in Worker, CompleteRetryable(w)
    PROVE  Settled
  <1> USE DEF IndInv
  <1>1. worker[w].pc = "answered" /\ MayComplete(w)
    BY DEF CompleteRetryable, Completing
  <1>2. PICK d \in Delivery : d = worker[w].job
    BY <1>1, CompletingRow
  <1> DEFINE n == delivery[d].attemptCount
             now == worker[w].now
             retryAfterMs == worker[w].evidence.retryAfterMs
             delayMs == GetRetryDelayMs(n, retryAfterMs)
             retryAt == now + delayMs
             until == PropertyPause(now, delayMs, retryAfterMs)
  <1>3. n \in 1..MaxAttempts /\ now \in Nat /\ retryAfterMs \in Nat
    BY <1>1, <1>2, CompletingRow, RowTypes
  <1>4. delayMs \in Nat /\ delayMs >= MinPauseMs /\ MinPauseMs \in Nat \ {0}
    BY <1>3, DelayType, TimingAssumption
  <1>5. until \in Nat /\ until >= now + delayMs
    <2>1. \A x, y, z \in Nat : PropertyPause(x, y, z) \in Nat /\ PropertyPause(x, y, z) >= x + y
      BY PauseType
    <2> QED
      BY <1>3, <1>4, <2>1, Zenon
  <1>6. propertyState' = [propertyState EXCEPT ![PropertyOf[d]].pausedUntil = laterDate(@, until)]
    BY <1>2 DEF CompleteRetryable
  <1>7. Pauses /\ PausedUntil(d)' >= until /\ PausedUntil(d)' \in Nat
    <2> HIDE DEF until
    <2>1. Pauses /\ PausedUntil(d)' >= until
      BY <1>5, <1>6, PausesLater
    <2> QED
      BY <2>1 DEF Pauses
  <1>8. IF Exhausted(n) THEN Complete(w, "DEAD", 0, "RETRYABLE_FAILURE")
                        ELSE Complete(w, "RETRY_WAIT", retryAt, "RETRYABLE_FAILURE")
    BY <1>2 DEF CompleteRetryable
  <1>9. retryAt \in Nat /\ retryAt > 0 /\ PausedUntil(d)' >= retryAt
    <2> HIDE DEF until, delayMs
    <2> QED
      BY <1>3, <1>4, <1>5, <1>7
  <1> HIDE DEF retryAt
  <1>10. CASE Exhausted(n)
    <2>1. Verdict("DEAD", "RETRYABLE_FAILURE", n)
      BY <1>3, <1>10, LastAttempt DEF Verdict
    <2> QED
      BY <1>1, <1>2, <1>7, <1>8, <1>10, <2>1, CompleteSettles, CompletionStatus
  <1>11. CASE ~Exhausted(n)
    <2>1. Verdict("RETRY_WAIT", "RETRYABLE_FAILURE", n)
      BY DEF Verdict
    <2> QED
      BY <1>1, <1>2, <1>7, <1>8, <1>9, <1>11, <2>1, CompleteSettles, CompletionStatus
  <1> QED
    BY <1>10, <1>11

-----------------------------------------------------------------------------
(* A claim, and what every other step leaves of the rows.                  *)

Started(d, n) == attempt[d][n].outcome # "ABSENT"
StartedAt(d, n) == attempt[d][n].startedAt

\* A claim opens attempt n of c at the instant `now', when its slot is free, and
\* moves the slot of its partition, and no other, to SpacingMs later.
Opens(c, n, now) ==
    /\ delivery'[c].status = "PROCESSING"
    /\ \A e \in Delivery \ {c} : delivery'[e] = delivery[e]
    /\ \A e \in Delivery, m \in 1..MaxAttempts :
         IF e = c /\ m = n
         THEN ~Started(e, m) /\ StartedAt(e, m)' = now
         ELSE (Started(e, m)' <=> Started(e, m)) /\ StartedAt(e, m)' = StartedAt(e, m)
    /\ \A e \in Delivery \ {c}, m \in 1..MaxAttempts : attempt'[e][m] = attempt[e][m]
    /\ NextAllowedAt(c) <= now
    /\ \A e \in Delivery :
         /\ PausedUntil(e)' = PausedUntil(e)
         /\ NextAllowedAt(e)' = IF Partition(e) = Partition(c) THEN now + SpacingMs
                                                                ELSE NextAllowedAt(e)

Opened == \E c \in Delivery, n \in 1..MaxAttempts, now \in Nat : Opens(c, n, now)

LEMMA ClaimOpensSlot ==
    ASSUME IndInv, NEW w \in Worker, ClaimDelivery(w)
    PROVE  Opened
  <1> USE DEF IndInv
  <1>1. PICK c \in Delivery, n \in 1..MaxAttempts, now \in Nat :
          c = worker[w].job /\ n = delivery[c].attemptCount + 1 /\ now = worker[w].now
    BY ClaimNumber, RowTypes
  <1> DEFINE p == PropertyOf[c]
             k == KindOf[c]
             slots == [propertyState[p].nextAllowedAt EXCEPT ![k] = now + SpacingMs]
             row == [propertyState[p] EXCEPT !.nextAllowedAt = slots]
             opened == [outcome |-> "IN_FLIGHT", startedAt |-> now]
  <1>2. p \in Property /\ k \in Kind
    BY DeliveryAssumption
  <1>3. delivery'[c].status = "PROCESSING"
    <2>1. delivery[c] \in DeliveryRow
      BY RowTypes
    <2>2. delivery'[c] = [delivery[c] EXCEPT !.status = "PROCESSING", !.attemptCount = n,
                            !.nextAttemptAt = 0, !.leaseToken = n,
                            !.leaseExpiresAt = now + LeaseMs]
      BY <1>1 DEF ClaimDelivery, TypeOK
    <2> QED
      BY <2>1, <2>2 DEF DeliveryRow
  <1>4. \A e \in Delivery \ {c} : delivery'[e] = delivery[e] /\ attempt'[e] = attempt[e]
    BY <1>1 DEF ClaimDelivery, TypeOK
  <1>5. \A m \in 1..MaxAttempts : attempt'[c][m] = IF m = n THEN opened ELSE attempt[c][m]
    BY <1>1 DEF ClaimDelivery, TypeOK
  <1>6. ~Started(c, n)
    <2>1. delivery[c].attemptCount \in Nat
      BY RowTypes
    <2>2. (attempt[c][n].outcome # "ABSENT") <=> (n <= delivery[c].attemptCount)
      BY Zenon DEF AttemptLedger
    <2> QED
      BY <1>1, <2>1, <2>2 DEF Started
  <1>7. opened.outcome # "ABSENT" /\ opened.startedAt = now
    OBVIOUS
  <1>8. \A e \in Delivery, m \in 1..MaxAttempts :
          IF e = c /\ m = n
          THEN ~Started(e, m) /\ StartedAt(e, m)' = now
          ELSE (Started(e, m)' <=> Started(e, m)) /\ StartedAt(e, m)' = StartedAt(e, m)
    <2> HIDE DEF opened
    <2> QED
      BY <1>4, <1>5, <1>6, <1>7 DEF Started, StartedAt
  <1>9. NextAllowedAt(c) <= now
    BY <1>1 DEF ClaimDelivery, Eligible, NextAllowedAt
  <1>10. /\ propertyState'[p] = row
         /\ \A q \in Property : q # p => propertyState'[q] = propertyState[q]
    <2>1. propertyState' = [propertyState EXCEPT ![p] = row]
      BY <1>1, <1>2 DEF ClaimDelivery
    <2> HIDE DEF row
    <2> QED
      BY <1>2, <2>1 DEF TypeOK
  <1>11. /\ row.pausedUntil = propertyState[p].pausedUntil
         /\ row.nextAllowedAt = slots
    <2>1. propertyState[p] \in PropertyRow
      BY <1>2, RowTypes
    <2> HIDE DEF slots
    <2> QED
      BY <2>1 DEF PropertyRow
  <1>12. \A j \in Kind : slots[j] = IF j = k THEN now + SpacingMs
                                             ELSE propertyState[p].nextAllowedAt[j]
    BY <1>2, RowTypes
  <1>13. \A e \in Delivery :
           /\ PausedUntil(e)' = PausedUntil(e)
           /\ NextAllowedAt(e)' = IF Partition(e) = Partition(c) THEN now + SpacingMs
                                                                  ELSE NextAllowedAt(e)
    <2> HIDE DEF row, slots
    <2> SUFFICES ASSUME NEW e \in Delivery
                 PROVE  /\ PausedUntil(e)' = PausedUntil(e)
                        /\ NextAllowedAt(e)' = IF Partition(e) = Partition(c)
                                               THEN now + SpacingMs ELSE NextAllowedAt(e)
      OBVIOUS
    <2>1. PropertyOf[e] \in Property /\ KindOf[e] \in Kind
      BY DeliveryAssumption
    <2>2. Partition(e) = Partition(c) <=> (PropertyOf[e] = p /\ KindOf[e] = k)
      BY DEF Partition
    <2>3. CASE PropertyOf[e] = p
      BY <1>10, <1>11, <1>12, <2>1, <2>2, <2>3 DEF PausedUntil, NextAllowedAt
    <2>4. CASE PropertyOf[e] # p
      BY <1>10, <2>1, <2>2, <2>4 DEF PausedUntil, NextAllowedAt
    <2> QED
      BY <2>3, <2>4
  <1> HIDE DEF opened
  <1>14. Opens(c, n, now)
    BY <1>3, <1>4, <1>8, <1>9, <1>13, Zenon DEF Opens
  <1> QED
    BY <1>14 DEF Opened

\* Every other step keeps the attempts and the property rows, and each delivery
\* too but one that a producer may just have queued.
Quiet ==
    /\ UNCHANGED <<attempt, propertyState>>
    /\ \A d \in Delivery : delivery'[d] = delivery[d] \/ delivery'[d].status = "READY"

LEMMA EnqueueQuiet ==
    ASSUME TypeOK, NEW d \in Delivery, Enqueue(d)
    PROVE  Quiet
  <1>1. delivery'[d].status = "READY"
    <2>1. delivery[d] \in DeliveryRow
      BY RowTypes
    <2>2. delivery'[d] = [delivery[d] EXCEPT !.status = "READY", !.nextAttemptAt = clock,
                                             !.queuedAt = clock]
      BY DEF Enqueue, TypeOK
    <2> QED
      BY <2>1, <2>2 DEF DeliveryRow
  <1>2. \A e \in Delivery \ {d} : delivery'[e] = delivery[e]
    BY DEF Enqueue, TypeOK
  <1> QED
    BY <1>1, <1>2 DEF Quiet, Enqueue

LEMMA StepKinds ==
    ASSUME IndInv, [Next]_vars
    PROVE  Settled \/ Opened \/ Quiet
  <1>1. ASSUME NEW d \in Delivery, Enqueue(d) PROVE Quiet
    BY <1>1, EnqueueQuiet DEF IndInv
  <1>2. ASSUME UNCHANGED <<delivery, attempt, propertyState>> PROVE Quiet
    BY <1>2 DEF Quiet
  <1>3. ASSUME NEW w \in Worker,
               \/ ReadDispatchSelection(w) \/ RecoverRejected(w) \/ ReadClaimPreflight(w)
               \/ ResolveCredentials(w) \/ ClaimRejected(w) \/ SendHttpRequest(w)
               \/ LeaseBudgetInsufficient(w) \/ CompletionRejected(w)
               \/ ChannexResponds(w) \/ NoResponse(w) \/ Crash(w) \/ ActionFails(w)
               \/ SelectedActionFails(w)
        PROVE UNCHANGED <<delivery, attempt, propertyState>>
    BY <1>3 DEF ReadDispatchSelection, RecoverRejected, ReadClaimPreflight, ResolveCredentials,
       ClaimRejected, SendHttpRequest, LeaseBudgetInsufficient, CompletionRejected,
       ChannexResponds, NoResponse, Crash, ActionFails, SelectedActionFails
  <1>4. ASSUME NEW r \in wire, ChannexHandlesUnanswered(r)
        PROVE UNCHANGED <<delivery, attempt, propertyState>>
    BY <1>4 DEF ChannexHandlesUnanswered
  <1>5. Tick \/ UNCHANGED vars => UNCHANGED <<delivery, attempt, propertyState>>
    BY DEF Tick, vars
  <1>6. ASSUME NEW w \in Worker, ClaimDelivery(w) PROVE Opened
    BY <1>6, ClaimOpensSlot
  <1>7. ASSUME NEW w \in Worker,
               \/ RecoverStaleDeliveryLease(w)
               \/ CompleteSuccess(w) \/ CompleteTerminal(w) \/ CompleteRetryable(w)
        PROVE Settled
    BY <1>7, RecoverSettles, SuccessSettles, TerminalSettles, RetryableSettles
  <1> QED
    BY <1>1, <1>2, <1>3, <1>4, <1>5, <1>6, <1>7 DEF Next, DispatchStep, Completes

-----------------------------------------------------------------------------
(* The three invariants, one delivery (or pair of deliveries) at a time.   *)

VerdictOf(d) == delivery[d].status \in Terminal =>
    /\ delivery[d].attemptCount \in 1..MaxAttempts
    /\ Verdict(delivery[d].status, attempt[d][delivery[d].attemptCount].outcome,
               delivery[d].attemptCount)

CoveredRetry(d) == delivery[d].status = "RETRY_WAIT" =>
    delivery[d].nextAttemptAt > 0 /\ PausedUntil(d) >= delivery[d].nextAttemptAt

LEMMA VerdictStep ==
    ASSUME IndInv, [Next]_vars, \A d \in Delivery : VerdictOf(d), NEW d \in Delivery
    PROVE  VerdictOf(d)'
  <1> USE DEF IndInv
  <1>1. VerdictOf(d)
    OBVIOUS
  <1>2. ASSUME NEW c \in Delivery, NEW status \in DeliveryStatus, NEW next \in Nat,
               NEW outcome \in AttemptOutcome, Settles(c, status, next, outcome)
        PROVE  VerdictOf(d)'
    <2>1. Releases(c, outcome) /\ delivery[c].attemptCount \in 1..MaxAttempts
      BY <1>2 DEF Settles
    <2>2. CASE d = c
      <3>1. delivery'[c].status = status
        BY <1>2 DEF Settles, EndsAs
      <3>2. delivery'[c].attemptCount = delivery[c].attemptCount
        BY <2>1 DEF Releases
      <3>3. attempt'[c][delivery[c].attemptCount].outcome = outcome
        BY <2>1 DEF Releases
      <3>4. Verdict(status, outcome, delivery[c].attemptCount)
        BY <1>2 DEF Settles
      <3> QED
        BY <2>1, <2>2, <3>1, <3>2, <3>3, <3>4, Zenon DEF VerdictOf, Verdict
    <2>3. CASE d # c
      <3>1. delivery'[d] = delivery[d]
        BY <2>1, <2>3 DEF Releases
      <3>2. \A m \in 1..MaxAttempts : attempt'[d][m].outcome = attempt[d][m].outcome
        BY <2>1, <2>3 DEF Releases
      <3> QED
        BY <1>1, <3>1, <3>2 DEF VerdictOf, Verdict
    <2> QED
      BY <2>2, <2>3
  <1>3. ASSUME NEW c \in Delivery, NEW n \in 1..MaxAttempts, NEW now \in Nat, Opens(c, n, now)
        PROVE  VerdictOf(d)'
    <2>1. CASE d = c
      BY <1>3, <2>1 DEF Opens, VerdictOf, Terminal
    <2>2. CASE d # c
      <3>1. delivery'[d] = delivery[d]
        BY <1>3, <2>2 DEF Opens
      <3>2. \A m \in 1..MaxAttempts : attempt'[d][m] = attempt[d][m]
        BY <1>3, <2>2 DEF Opens
      <3> QED
        BY <1>1, <3>1, <3>2 DEF VerdictOf, Verdict
    <2> QED
      BY <2>1, <2>2
  <1>4. ASSUME Quiet PROVE VerdictOf(d)'
    BY <1>1, <1>4 DEF Quiet, VerdictOf, Verdict, Terminal
  <1> QED
    BY <1>2, <1>3, <1>4, StepKinds DEF Settled, Opened

LEMMA PauseStep ==
    ASSUME IndInv, [Next]_vars, \A d \in Delivery : CoveredRetry(d), NEW d \in Delivery
    PROVE  CoveredRetry(d)'
  <1> USE DEF IndInv
  <1>1. CoveredRetry(d) /\ delivery[d].nextAttemptAt \in Nat
    BY RowTypes
  <1>2. ASSUME NEW c \in Delivery, NEW status \in DeliveryStatus, NEW next \in Nat,
               NEW outcome \in AttemptOutcome, Settles(c, status, next, outcome)
        PROVE  CoveredRetry(d)'
    <2>1. CASE d = c
      BY <1>2, <2>1 DEF Settles, EndsAs, CoveredRetry
    <2>2. CASE d # c
      <3>1. delivery'[d] = delivery[d]
        BY <1>2, <2>2 DEF Settles, Releases
      <3>2. PausedUntil(d)' \in Nat /\ PausedUntil(d) \in Nat /\ PausedUntil(d)' >= PausedUntil(d)
        BY <1>2 DEF Settles, Pauses
      <3> QED
        BY <1>1, <3>1, <3>2 DEF CoveredRetry
    <2> QED
      BY <2>1, <2>2
  <1>3. ASSUME NEW c \in Delivery, NEW n \in 1..MaxAttempts, NEW now \in Nat, Opens(c, n, now)
        PROVE  CoveredRetry(d)'
    <2>1. CASE d = c
      BY <1>3, <2>1 DEF Opens, CoveredRetry
    <2>2. CASE d # c
      <3>1. delivery'[d] = delivery[d] /\ PausedUntil(d)' = PausedUntil(d)
        BY <1>3, <2>2 DEF Opens
      <3> QED
        BY <1>1, <3>1 DEF CoveredRetry
    <2> QED
      BY <2>1, <2>2
  <1>4. ASSUME Quiet PROVE CoveredRetry(d)'
    BY <1>1, <1>4 DEF Quiet, CoveredRetry, PausedUntil
  <1> QED
    BY <1>2, <1>3, <1>4, StepKinds DEF Settled, Opened

\* Every started attempt lies a spacing before the next slot of its partition.
Spaced == \A d \in Delivery, n \in 1..MaxAttempts :
            Started(d, n) => StartedAt(d, n) + SpacingMs <= NextAllowedAt(d)

Apart2(d, n, e, m) ==
    \/ StartedAt(d, n) >= StartedAt(e, m) + SpacingMs
    \/ StartedAt(e, m) >= StartedAt(d, n) + SpacingMs

PairsApart ==
    \A d, e \in Delivery, n, m \in 1..MaxAttempts :
        Partition(d) = Partition(e) /\ <<d, n>> # <<e, m>> /\ Started(d, n) /\ Started(e, m)
           => Apart2(d, n, e, m)

SlotInv == IndInv /\ Spaced /\ PairsApart

\* Steps that neither start an attempt nor move a slot.
LEMMA SlotFrame ==
    ASSUME Spaced, PairsApart,
           \A e \in Delivery, m \in 1..MaxAttempts :
             (Started(e, m)' <=> Started(e, m)) /\ StartedAt(e, m)' = StartedAt(e, m),
           \A e \in Delivery : NextAllowedAt(e)' = NextAllowedAt(e)
    PROVE  Spaced' /\ PairsApart'
  <1>1. Spaced'
    BY DEF Spaced
  <1>2. PairsApart'
    BY DEF PairsApart, Apart2, Partition
  <1> QED
    BY <1>1, <1>2

LEMMA SlotClaim ==
    ASSUME TypeOK, Spaced, PairsApart,
           NEW c \in Delivery, NEW k \in 1..MaxAttempts, NEW now \in Nat, Opens(c, k, now)
    PROVE  Spaced' /\ PairsApart'
  <1>1. \A e \in Delivery, m \in 1..MaxAttempts : StartedAt(e, m) \in Nat
    BY RowTypes DEF StartedAt
  <1>2. \A e \in Delivery : NextAllowedAt(e) \in Nat
    BY RowTypes, DeliveryAssumption DEF NextAllowedAt
  <1>3. \A e \in Delivery, m \in 1..MaxAttempts :
          IF e = c /\ m = k
          THEN ~Started(e, m) /\ StartedAt(e, m)' = now
          ELSE (Started(e, m)' <=> Started(e, m)) /\ StartedAt(e, m)' = StartedAt(e, m)
    BY DEF Opens
  <1>4. NextAllowedAt(c) <= now
    BY DEF Opens
  <1>5. \A e \in Delivery : NextAllowedAt(e)' = IF Partition(e) = Partition(c)
                                                THEN now + SpacingMs ELSE NextAllowedAt(e)
    BY DEF Opens
  <1>6. SpacingMs \in Nat
    BY TimingAssumption
  <1>7. \A e \in Delivery : Partition(e) = Partition(c) => NextAllowedAt(e) = NextAllowedAt(c)
    BY DEF Partition, NextAllowedAt
  \* What had started in the partition of c lies a spacing before this claim.
  <1>8. ASSUME NEW e \in Delivery, NEW m \in 1..MaxAttempts,
               Partition(e) = Partition(c), Started(e, m)
        PROVE  StartedAt(e, m) + SpacingMs <= now
    <2>1. StartedAt(e, m) + SpacingMs <= NextAllowedAt(e) /\ NextAllowedAt(e) = NextAllowedAt(c)
      BY <1>7, <1>8 DEF Spaced
    <2> QED
      BY <1>1, <1>2, <1>4, <1>6, <2>1
  <1>9. Spaced'
    <2> SUFFICES ASSUME NEW e \in Delivery, NEW m \in 1..MaxAttempts, Started(e, m)'
                 PROVE  StartedAt(e, m)' + SpacingMs <= NextAllowedAt(e)'
      BY DEF Spaced
    <2>1. CASE e = c /\ m = k
      BY <1>3, <1>5, <1>6, <2>1
    <2>2. CASE ~(e = c /\ m = k)
      <3>1. Started(e, m) /\ StartedAt(e, m)' = StartedAt(e, m)
        BY <1>3, <2>2
      <3>2. CASE Partition(e) = Partition(c)
        <4>1. StartedAt(e, m) + SpacingMs <= now
          BY <1>8, <3>1, <3>2
        <4> QED
          BY <1>1, <1>5, <1>6, <3>1, <3>2, <4>1
      <3>3. CASE Partition(e) # Partition(c)
        BY <1>5, <3>1, <3>3 DEF Spaced
      <3> QED
        BY <3>2, <3>3
    <2> QED
      BY <2>1, <2>2
  <1>10. PairsApart'
    <2> SUFFICES ASSUME NEW d \in Delivery, NEW e \in Delivery,
                        NEW n \in 1..MaxAttempts, NEW m \in 1..MaxAttempts,
                        Partition(d) = Partition(e), <<d, n>> # <<e, m>>,
                        Started(d, n)', Started(e, m)'
                 PROVE  Apart2(d, n, e, m)'
      BY DEF PairsApart, Partition
    <2>1. CASE d = c /\ n = k
      <3>1. StartedAt(d, n)' = now /\ Started(e, m) /\ StartedAt(e, m)' = StartedAt(e, m)
        BY <1>3, <2>1
      <3> QED
        BY <1>8, <2>1, <3>1 DEF Apart2
    <2>2. CASE e = c /\ m = k
      <3>1. StartedAt(e, m)' = now /\ Started(d, n) /\ StartedAt(d, n)' = StartedAt(d, n)
        BY <1>3, <2>2
      <3> QED
        BY <1>8, <2>2, <3>1 DEF Apart2
    <2>3. CASE ~(d = c /\ n = k) /\ ~(e = c /\ m = k)
      <3>1. /\ Started(d, n) /\ StartedAt(d, n)' = StartedAt(d, n)
            /\ Started(e, m) /\ StartedAt(e, m)' = StartedAt(e, m)
        BY <1>3, <2>3
      <3>2. Apart2(d, n, e, m)
        BY <3>1, Zenon DEF PairsApart
      <3> QED
        BY <3>1, <3>2 DEF Apart2
    <2> QED
      BY <2>1, <2>2, <2>3
  <1> QED
    BY <1>9, <1>10

LEMMA SlotStep ==
    ASSUME SlotInv, [Next]_vars
    PROVE  Spaced' /\ PairsApart'
  <1> USE DEF SlotInv
  <1>1. ASSUME NEW c \in Delivery, NEW status \in DeliveryStatus, NEW next \in Nat,
               NEW outcome \in AttemptOutcome, Settles(c, status, next, outcome)
        PROVE  Spaced' /\ PairsApart'
    <2>1. Releases(c, outcome) /\ Pauses /\ delivery[c].attemptCount \in 1..MaxAttempts
      BY <1>1 DEF Settles
    <2>2. \A e \in Delivery : NextAllowedAt(e)' = NextAllowedAt(e)
      BY <2>1 DEF Pauses
    <2>3. \A e \in Delivery, m \in 1..MaxAttempts :
            (Started(e, m)' <=> Started(e, m)) /\ StartedAt(e, m)' = StartedAt(e, m)
      <3>1. outcome # "ABSENT"
        BY <1>1 DEF Settles, Verdict
      <3>2. Started(c, delivery[c].attemptCount)
        BY <2>1 DEF Started, IndInv, AttemptLedger
      <3> QED
        BY <2>1, <3>1, <3>2 DEF Releases, Started, StartedAt
    <2> QED
      BY <2>2, <2>3, SlotFrame
  <1>2. ASSUME NEW c \in Delivery, NEW n \in 1..MaxAttempts, NEW now \in Nat, Opens(c, n, now)
        PROVE  Spaced' /\ PairsApart'
    BY <1>2, SlotClaim DEF IndInv
  <1>3. ASSUME Quiet PROVE Spaced' /\ PairsApart'
    <2>1. \A e \in Delivery : NextAllowedAt(e)' = NextAllowedAt(e)
      BY <1>3 DEF Quiet, NextAllowedAt
    <2>2. \A e \in Delivery, m \in 1..MaxAttempts :
            (Started(e, m)' <=> Started(e, m)) /\ StartedAt(e, m)' = StartedAt(e, m)
      BY <1>3 DEF Quiet, Started, StartedAt
    <2> QED
      BY <2>1, <2>2, SlotFrame
  <1> QED
    BY <1>1, <1>2, <1>3, StepKinds DEF Settled, Opened

-----------------------------------------------------------------------------
(* Full Syncs: what each step leaves of the sent deliveries and of the      *)
(* instants at which the properties' Full Syncs were completed.             *)

Sent(d) == delivery[d].status = "SENT"
FullSyncAt(p) == propertyState[p].lastFullSyncCompletedAt

\* The instant at which a worker read its answer is a real one.
AnswersRead == \A w \in Worker : worker[w].pc = "answered" => worker[w].now # 0

FullSyncInv == IndInv /\ AnswersRead /\ FullSyncRecorded

SyncsKept ==
    /\ \A d \in Delivery : Sent(d)' <=> Sent(d)
    /\ \A p \in Property : FullSyncAt(p)' = FullSyncAt(p)

LEMMA PauseKeepsSyncs ==
    ASSUME TypeOK, NEW p \in Property, NEW until,
           propertyState' = [propertyState EXCEPT ![p].pausedUntil = until]
    PROVE  \A q \in Property : FullSyncAt(q)' = FullSyncAt(q)
  <1>1. propertyState[p] \in PropertyRow
    BY RowTypes
  <1>2. [propertyState[p] EXCEPT !.pausedUntil = until].lastFullSyncCompletedAt = FullSyncAt(p)
    BY <1>1 DEF PropertyRow, FullSyncAt
  <1> QED
    BY <1>2 DEF TypeOK, FullSyncAt

LEMMA SlotKeepsSyncs ==
    ASSUME TypeOK, NEW p \in Property, NEW k, NEW at,
           propertyState' = [propertyState EXCEPT ![p].nextAllowedAt[k] = at]
    PROVE  \A q \in Property : FullSyncAt(q)' = FullSyncAt(q)
  <1>1. propertyState[p] \in PropertyRow
    BY RowTypes
  <1>2. [propertyState[p] EXCEPT !.nextAllowedAt[k] = at].lastFullSyncCompletedAt = FullSyncAt(p)
    BY <1>1 DEF PropertyRow, FullSyncAt
  <1> QED
    BY <1>2 DEF TypeOK, FullSyncAt

\* One delivery moves from a status to another, neither of them SENT.
LEMMA MoveKeepsSent ==
    ASSUME TypeOK, NEW d \in Delivery, ~Sent(d), ~Sent(d)',
           \A e \in Delivery \ {d} : delivery'[e] = delivery[e]
    PROVE  \A e \in Delivery : Sent(e)' <=> Sent(e)
  BY DEF Sent

LEMMA EnqueueSyncs ==
    ASSUME TypeOK, NEW d \in Delivery, Enqueue(d)
    PROVE  SyncsKept
  <1>1. delivery'[d].status = "READY" /\ ~Sent(d)
    <2>1. delivery[d] \in DeliveryRow
      BY RowTypes
    <2>2. delivery'[d] = [delivery[d] EXCEPT !.status = "READY", !.nextAttemptAt = clock,
                                             !.queuedAt = clock]
      BY DEF Enqueue, TypeOK
    <2> QED
      BY <2>1, <2>2 DEF DeliveryRow, Enqueue, Sent
  <1>2. \A e \in Delivery \ {d} : delivery'[e] = delivery[e]
    BY DEF Enqueue, TypeOK
  <1>3. ~Sent(d)'
    BY <1>1 DEF Sent
  <1>4. \A p \in Property : FullSyncAt(p)' = FullSyncAt(p)
    BY DEF Enqueue, FullSyncAt
  <1> QED
    BY <1>1, <1>2, <1>3, <1>4, MoveKeepsSent DEF SyncsKept

LEMMA ClaimSyncs ==
    ASSUME IndInv, NEW w \in Worker, ClaimDelivery(w)
    PROVE  SyncsKept
  <1>1. PICK d \in Delivery : d = worker[w].job
    BY DEF ClaimDelivery, IndInv, WorkerLease
  <1>2. delivery[d].status \in Waiting /\ ~Sent(d)
    BY <1>1 DEF ClaimDelivery, Eligible, Waiting, Sent
  <1>3. delivery'[d].status = "PROCESSING" /\ \A e \in Delivery \ {d} : delivery'[e] = delivery[e]
    <2>1. PICK n : delivery' = [delivery EXCEPT ![d] =
             [delivery[d] EXCEPT !.status = "PROCESSING", !.attemptCount = n, !.nextAttemptAt = 0,
                                 !.leaseToken = n, !.leaseExpiresAt = worker[w].now + LeaseMs]]
      BY <1>1 DEF ClaimDelivery
    <2> DEFINE row == [delivery[d] EXCEPT !.status = "PROCESSING", !.attemptCount = n,
                         !.nextAttemptAt = 0, !.leaseToken = n,
                         !.leaseExpiresAt = worker[w].now + LeaseMs]
    <2>2. row.status = "PROCESSING"
      <3>1. delivery[d] \in DeliveryRow
        BY <1>1, RowTypes DEF IndInv
      <3> QED
        BY <3>1 DEF DeliveryRow
    <2>3. delivery' = [delivery EXCEPT ![d] = row]
      BY <2>1
    <2> HIDE DEF row
    <2>4. delivery \in [Delivery -> DeliveryRow]
      BY DEF IndInv, TypeOK
    <2> QED
      BY <1>1, <2>2, <2>3, <2>4
  <1>4. ~Sent(d)'
    BY <1>3 DEF Sent
  <1>5. \A p \in Property : FullSyncAt(p)' = FullSyncAt(p)
    <2>1. propertyState' = [propertyState EXCEPT
             ![PropertyOf[d]].nextAllowedAt[KindOf[d]] = worker[w].now + SpacingMs]
      BY <1>1 DEF ClaimDelivery
    <2>2. TypeOK /\ PropertyOf[d] \in Property
      BY DeliveryAssumption DEF IndInv
    <2> QED
      BY <2>1, <2>2, SlotKeepsSyncs
  <1> QED
    BY <1>1, <1>2, <1>3, <1>4, <1>5, MoveKeepsSent DEF SyncsKept, IndInv

\* A release of delivery d to a status other than SENT, with a later pause or none.
LEMMA ReleaseSyncs ==
    ASSUME IndInv, NEW d \in Delivery, delivery[d].status = "PROCESSING",
           NEW status, status # "SENT", NEW next, ReleasedTo(d, status, next),
           \/ UNCHANGED propertyState
           \/ \E until :
                propertyState' = [propertyState EXCEPT ![PropertyOf[d]].pausedUntil = until]
    PROVE  SyncsKept
  <1>1. delivery'[d] = ReleasedRow(delivery[d], status, next) /\ delivery[d] \in DeliveryRow
    BY RowTypes DEF ReleasedTo, IndInv, TypeOK
  <1>2. ~Sent(d) /\ ~Sent(d)'
    BY <1>1 DEF ReleasedRow, DeliveryRow, Sent
  <1>3. \A e \in Delivery \ {d} : delivery'[e] = delivery[e]
    BY DEF ReleasedTo, IndInv, TypeOK
  <1>4. \A p \in Property : FullSyncAt(p)' = FullSyncAt(p)
    <2>1. PropertyOf[d] \in Property
      BY DeliveryAssumption
    <2> QED
      BY <2>1, PauseKeepsSyncs DEF IndInv, FullSyncAt
  <1> QED
    BY <1>2, <1>3, <1>4, MoveKeepsSent DEF SyncsKept, IndInv

\* Every step but a success leaves the sent deliveries and the Full Syncs alone.
LEMMA OtherSyncs ==
    ASSUME IndInv, [Next]_vars, \A w \in Worker : ~CompleteSuccess(w)
    PROVE  SyncsKept
  <1>1. ASSUME UNCHANGED <<delivery, propertyState>> PROVE SyncsKept
    BY <1>1 DEF SyncsKept, Sent, FullSyncAt
  <1>2. ASSUME NEW w \in Worker,
               \/ ReadDispatchSelection(w) \/ RecoverRejected(w) \/ ReadClaimPreflight(w)
               \/ ResolveCredentials(w) \/ ClaimRejected(w) \/ SendHttpRequest(w)
               \/ LeaseBudgetInsufficient(w) \/ CompletionRejected(w)
               \/ ChannexResponds(w) \/ NoResponse(w) \/ Crash(w) \/ ActionFails(w)
               \/ SelectedActionFails(w)
        PROVE UNCHANGED <<delivery, propertyState>>
    BY <1>2 DEF ReadDispatchSelection, RecoverRejected, ReadClaimPreflight, ResolveCredentials,
       ClaimRejected, SendHttpRequest, LeaseBudgetInsufficient, CompletionRejected,
       ChannexResponds, NoResponse, Crash, ActionFails, SelectedActionFails
  <1>3. ASSUME NEW r \in wire, ChannexHandlesUnanswered(r)
        PROVE UNCHANGED <<delivery, propertyState>>
    BY <1>3 DEF ChannexHandlesUnanswered
  <1>4. Tick \/ UNCHANGED vars => UNCHANGED <<delivery, propertyState>>
    BY DEF Tick, vars
  <1>5. ASSUME NEW d \in Delivery, Enqueue(d) PROVE SyncsKept
    BY <1>5, EnqueueSyncs DEF IndInv
  <1>6. ASSUME NEW w \in Worker, ClaimDelivery(w) PROVE SyncsKept
    BY <1>6, ClaimSyncs
  <1>7. ASSUME NEW w \in Worker, RecoverStaleDeliveryLease(w) PROVE SyncsKept
    <2>1. PICK a \in worker[w].todo :
            LET d == a.delivery
                n == delivery[d].attemptCount
                delayMs == GetRetryDelayMs(n, 0)
            IN  /\ Stale(d, clock)
                /\ delivery' = [delivery EXCEPT ![d] =
                     IF Exhausted(n) THEN ReleasedRow(@, "DEAD", 0)
                                     ELSE ReleasedRow(@, "RETRY_WAIT", clock + delayMs)]
                /\ propertyState' = [propertyState EXCEPT ![PropertyOf[d]].pausedUntil =
                     laterDate(@, PropertyPause(clock, IF Exhausted(n) THEN 0 ELSE delayMs, 0))]
      BY <1>7 DEF RecoverStaleDeliveryLease
    <2> DEFINE d == a.delivery
               n == delivery[d].attemptCount
    <2>2. d \in Delivery
      BY ActionType DEF IndInv
    <2>3. \/ ReleasedTo(d, "DEAD", 0)
          \/ ReleasedTo(d, "RETRY_WAIT", clock + GetRetryDelayMs(n, 0))
      BY <2>1 DEF ReleasedTo
    <2>4. \E until : propertyState' = [propertyState EXCEPT ![PropertyOf[d]].pausedUntil = until]
      BY <2>1
    <2>5. delivery[d].status = "PROCESSING"
      BY <2>1 DEF Stale
    <2> QED
      BY <2>2, <2>3, <2>4, <2>5, ReleaseSyncs
  <1>8. ASSUME NEW w \in Worker, CompleteTerminal(w) PROVE SyncsKept
    <2>1. worker[w].job \in Delivery /\ delivery[worker[w].job].status = "PROCESSING"
      BY <1>8, CompletingRow DEF CompleteTerminal, Completing, MayComplete, IndInv
    <2>2. ReleasedTo(worker[w].job, "DEAD", 0) /\ UNCHANGED propertyState
      BY <1>8 DEF CompleteTerminal, Complete, ReleasedTo
    <2> QED
      BY <2>1, <2>2, ReleaseSyncs
  <1>9. ASSUME NEW w \in Worker, CompleteRetryable(w) PROVE SyncsKept
    <2> DEFINE d == worker[w].job
    <2>1. d \in Delivery /\ delivery[d].status = "PROCESSING"
      BY <1>9, CompletingRow DEF CompleteRetryable, Completing, MayComplete, IndInv
    <2>2. \E next : ReleasedTo(d, "DEAD", next) \/ ReleasedTo(d, "RETRY_WAIT", next)
      BY <1>9 DEF CompleteRetryable, Complete, ReleasedTo
    <2>3. \E until : propertyState' = [propertyState EXCEPT ![PropertyOf[d]].pausedUntil = until]
      BY <1>9 DEF CompleteRetryable
    <2> QED
      BY <2>1, <2>2, <2>3, ReleaseSyncs
  <1> QED
    BY <1>1, <1>2, <1>3, <1>4, <1>5, <1>6, <1>7, <1>8, <1>9 DEF Next, DispatchStep, Completes

\* A success sends its delivery, and completes the property's Full Sync exactly
\* when the correlated sibling had been sent before.
LEMMA SuccessSyncs ==
    ASSUME IndInv, AnswersRead, NEW w \in Worker, CompleteSuccess(w)
    PROVE  LET d == worker[w].job
               p == PropertyOf[d]
           IN  /\ d \in Delivery /\ ~Sent(d)
               /\ \A e \in Delivery : Sent(e)' <=> (Sent(e) \/ e = d)
               /\ \A q \in Property :
                    IF q = p /\ Sibling[d] # d /\ Sent(Sibling[d])
                    THEN FullSyncAt(q)' # 0 ELSE FullSyncAt(q)' = FullSyncAt(q)
  <1> DEFINE d == worker[w].job
             p == PropertyOf[d]
  <1>1. d \in Delivery /\ delivery[d].status = "PROCESSING" /\ worker[w].now # 0
    BY CompletingRow DEF CompleteSuccess, Completing, MayComplete, AnswersRead, IndInv
  <1>2. p \in Property /\ propertyState[p] \in PropertyRow /\ delivery[d] \in DeliveryRow
    BY <1>1, DeliveryAssumption, RowTypes DEF IndInv
  <1>3. ~Sent(d)
    BY <1>1 DEF Sent
  <1>4. \A e \in Delivery : Sent(e)' <=> (Sent(e) \/ e = d)
    <2>1. delivery' = [delivery EXCEPT ![d] = ReleasedRow(delivery[d], "SENT", 0)]
      BY DEF CompleteSuccess, Complete
    <2>2. ReleasedRow(delivery[d], "SENT", 0).status = "SENT"
      BY <1>2 DEF ReleasedRow, DeliveryRow
    <2> QED
      BY <1>1, <2>1, <2>2 DEF Sent, IndInv, TypeOK
  <1>5. ASSUME NEW q \in Property
        PROVE  IF q = p /\ Sibling[d] # d /\ Sent(Sibling[d])
               THEN FullSyncAt(q)' # 0 ELSE FullSyncAt(q)' = FullSyncAt(q)
    <2>1. CASE HasSentCorrelatedFullSyncSibling(d)
      <3>1. propertyState' = [propertyState EXCEPT ![p].lastFullSyncCompletedAt = worker[w].now]
        BY <2>1 DEF CompleteSuccess
      <3>2. [propertyState[p] EXCEPT !.lastFullSyncCompletedAt = worker[w].now]
              .lastFullSyncCompletedAt = worker[w].now
        BY <1>2 DEF PropertyRow
      <3>3. FullSyncAt(q)' = IF q = p THEN worker[w].now ELSE FullSyncAt(q)
        BY <1>2, <3>1, <3>2 DEF FullSyncAt, IndInv, TypeOK
      <3> QED
        BY <1>1, <2>1, <3>3 DEF HasSentCorrelatedFullSyncSibling, Sent
    <2>2. CASE ~HasSentCorrelatedFullSyncSibling(d)
      <3>1. UNCHANGED propertyState
        BY <2>2 DEF CompleteSuccess
      <3> QED
        BY <2>2, <3>1 DEF HasSentCorrelatedFullSyncSibling, Sent, FullSyncAt
    <2> QED
      BY <2>1, <2>2
  <1> QED
    BY <1>1, <1>3, <1>4, <1>5

\* A worker is answered only by ChannexResponds or NoResponse, at the clock's instant.
LEMMA AnswersReadStep ==
    ASSUME IndInv, [Next]_vars, AnswersRead
    PROVE  AnswersRead'
  <1> USE DEF IndInv
  <1>0. (\A w \in Worker : worker[w] \in WorkerState) /\ clock # 0 /\ clock \in Nat
    BY RowTypes DEF TypeOK
  <1>1. ASSUME NEW w \in Worker, OnlyMoves(w),
               worker'[w].pc = "answered" => worker'[w].now # 0
        PROVE  AnswersRead'
    BY <1>1 DEF AnswersRead, OnlyMoves
  <1>2. ASSUME NEW w \in Worker, NEW todo \in SUBSET Action,
               worker' = [worker EXCEPT ![w] = Resume(todo)]
        PROVE  AnswersRead'
    BY <1>1, <1>2, GoesOn
  <1>3. ASSUME NEW w \in Worker, GoOn(w) PROVE AnswersRead'
    BY <1>2, <1>3, TodoType DEF GoOn
  <1>4. ASSUME NEW w \in Worker, NEW a,
               worker' = [worker EXCEPT ![w] = Resume(worker[w].todo \ {a})]
        PROVE  AnswersRead'
    BY <1>2, <1>4, DropsAction
  <1>5. ASSUME NEW w \in Worker, ReadDispatchSelection(w) PROVE AnswersRead'
    BY <1>0, <1>2, <1>5, SelectedType DEF ReadDispatchSelection
  <1>6. ASSUME NEW w \in Worker,
               RecoverStaleDeliveryLease(w) \/ RecoverRejected(w) \/ SelectedActionFails(w)
        PROVE  AnswersRead'
    BY <1>4, <1>6 DEF RecoverStaleDeliveryLease, RecoverRejected, SelectedActionFails
  <1>7. ASSUME NEW w \in Worker, ReadClaimPreflight(w) PROVE AnswersRead'
    <2>1. PICK a \in worker[w].todo :
            worker' = [worker EXCEPT ![w] = IF PreflightPasses(a) THEN PreflightState(w, a)
                                            ELSE Resume(worker[w].todo \ {a})]
      BY <1>7 DEF ReadClaimPreflight, PreflightState
    <2>2. CASE PreflightPasses(a)
      <3>1. OnlyMoves(w) /\ worker'[w] = PreflightState(w, a)
        BY <2>1, <2>2, MovesOnly
      <3> QED
        BY <1>1, <3>1, PreflightType
    <2>3. CASE ~PreflightPasses(a)
      BY <1>4, <2>1, <2>3
    <2> QED
      BY <2>2, <2>3
  <1>8. ASSUME NEW w \in Worker, ResolveCredentials(w) PROVE AnswersRead'
    <2> DEFINE state == [worker[w] EXCEPT !.pc = "claiming", !.now = clock]
    <2>1. worker' = [worker EXCEPT ![w] = state]
      BY <1>8 DEF ResolveCredentials
    <2>2. state.pc # "answered"
      BY <1>0 DEF WorkerState
    <2> HIDE DEF state
    <2> QED
      BY <1>1, <2>1, <2>2, MovesOnly
  <1>9. ASSUME NEW w \in Worker, ClaimDelivery(w) PROVE AnswersRead'
    BY <1>1, <1>9, ClaimEffect
  <1>10. ASSUME NEW w \in Worker, ClaimRejected(w) \/ LeaseBudgetInsufficient(w) \/ ActionFails(w)
         PROVE  AnswersRead'
    BY <1>3, <1>10 DEF ClaimRejected, LeaseBudgetInsufficient, ActionFails
  <1>11. ASSUME NEW w \in Worker, Completes(w) PROVE AnswersRead'
    BY <1>3, <1>11 DEF Completes, CompleteSuccess, CompleteTerminal, CompleteRetryable,
                      CompletionRejected, Complete
  <1>12. ASSUME NEW w \in Worker, SendHttpRequest(w) PROVE AnswersRead'
    <2> DEFINE state == [worker[w] EXCEPT !.pc = "waiting", !.now = clock]
    <2>1. worker' = [worker EXCEPT ![w] = state]
      BY <1>12 DEF SendHttpRequest
    <2>2. state.pc # "answered"
      BY <1>0 DEF WorkerState
    <2> HIDE DEF state
    <2> QED
      BY <1>1, <2>1, <2>2, MovesOnly
  <1>13. ASSUME NEW w \in Worker, ChannexResponds(w) \/ NoResponse(w) PROVE AnswersRead'
    <2>1. PICK e : Answer(w, e)
      BY <1>13 DEF ChannexResponds, NoResponse
    <2> DEFINE state == [worker[w] EXCEPT !.pc = "answered", !.now = clock, !.evidence = e]
    <2>2. worker' = [worker EXCEPT ![w] = state]
      BY <2>1 DEF Answer
    <2>3. state.now = clock
      BY <1>0 DEF WorkerState
    <2> HIDE DEF state
    <2> QED
      BY <1>0, <1>1, <2>2, <2>3, MovesOnly
  <1>14. ASSUME NEW w \in Worker, Crash(w) PROVE AnswersRead'
    <2>1. OnlyMoves(w) /\ worker'[w] = Idle
      BY <1>14, MovesOnly DEF Crash
    <2> QED
      BY <1>1, <2>1, IdleType
  <1>15. ASSUME worker' = worker PROVE AnswersRead'
    BY <1>15 DEF AnswersRead
  <1>16. ASSUME NEW r \in wire, ChannexHandlesUnanswered(r) PROVE AnswersRead'
    BY <1>15, <1>16 DEF ChannexHandlesUnanswered
  <1>17. ASSUME NEW d \in Delivery, Enqueue(d) PROVE AnswersRead'
    BY <1>15, <1>17 DEF Enqueue
  <1>18. CASE Tick \/ UNCHANGED vars
    BY <1>15, <1>18 DEF Tick, vars
  <1> QED
    BY <1>5, <1>6, <1>7, <1>8, <1>9, <1>10, <1>11, <1>12, <1>13, <1>14, <1>16, <1>17, <1>18
    DEF Next, DispatchStep

LEMMA FullSyncStep ==
    ASSUME FullSyncInv, [Next]_vars
    PROVE  FullSyncRecorded'
  <1> USE DEF FullSyncInv
  <1> DEFINE Complete2(d) == Sibling[d] # d /\ Sent(d) /\ Sent(Sibling[d])
  <1>1. \A p \in Property : (FullSyncAt(p) # 0) <=>
                              \E d \in Delivery : PropertyOf[d] = p /\ Complete2(d)
    BY DEF FullSyncRecorded, FullSyncAt, Sent
  <1>2. SUFFICES \A p \in Property : (FullSyncAt(p)' # 0) <=>
                   \E d \in Delivery : PropertyOf[d] = p /\ Complete2(d)'
    BY DEF FullSyncRecorded, FullSyncAt, Sent
  <1>3. \A d \in Delivery : Sibling[d] \in Delivery
    BY DeliveryAssumption
  <1>4. CASE \A w \in Worker : ~CompleteSuccess(w)
    <2>1. SyncsKept
      BY <1>4, OtherSyncs
    <2> QED
      BY <1>1, <1>3, <2>1 DEF SyncsKept
  <1>5. CASE \E w \in Worker : CompleteSuccess(w)
    <2>1. PICK w \in Worker : CompleteSuccess(w)
      BY <1>5
    <2> DEFINE c == worker[w].job
    <2>2. /\ c \in Delivery /\ ~Sent(c)
          /\ \A e \in Delivery : Sent(e)' <=> (Sent(e) \/ e = c)
          /\ \A q \in Property :
               IF q = PropertyOf[c] /\ Sibling[c] # c /\ Sent(Sibling[c])
               THEN FullSyncAt(q)' # 0 ELSE FullSyncAt(q)' = FullSyncAt(q)
      BY <2>1, SuccessSyncs
    <2> HIDE DEF c
    \* The pairs that the success completes are that of its delivery and its sibling's.
    <2>3. \A d \in Delivery :
            Complete2(d)' <=> \/ Complete2(d)
                              \/ /\ d = c \/ d = Sibling[c]
                                 /\ Sibling[c] # c /\ Sent(Sibling[c])
      BY <1>3, <2>2, SiblingAssumption
    <2> QED
      BY <1>1, <1>3, <2>2, <2>3, SiblingAssumption
  <1> QED
    BY <1>4, <1>5

-----------------------------------------------------------------------------
(* The theorems.                                                           *)

\* A delivery ends as its last attempt did: SENT by a success, DEAD by a terminal
\* answer or because its last permitted attempt failed or was never heard of.
THEOREM VerdictHolds == Spec => []VerdictMatchesLastAttempt
  <1> DEFINE Verdicts == \A d \in Delivery : VerdictOf(d)
  <1>1. Init => Verdicts
    BY DEF Init, VerdictOf, Terminal
  <1>2. IndInv /\ Verdicts /\ [Next]_vars => Verdicts'
    BY VerdictStep
  <1>3. Verdicts => VerdictMatchesLastAttempt
    BY Zenon DEF VerdictOf, Verdict, VerdictMatchesLastAttempt
  <1> QED
    BY <1>1, <1>2, <1>3, IndInvHolds, PTL DEF Spec

\* No pause is ever shorter than the wait of a delivery that was told to retry.
THEOREM PauseHolds == Spec => []PauseCoversRetry
  <1> DEFINE Covered == \A d \in Delivery : CoveredRetry(d)
  <1>1. Init => Covered
    BY DEF Init, CoveredRetry
  <1>2. IndInv /\ Covered /\ [Next]_vars => Covered'
    BY PauseStep
  <1>3. Covered => PauseCoversRetry
    BY DEF CoveredRetry, PauseCoversRetry, PausedUntil
  <1> QED
    BY <1>1, <1>2, <1>3, IndInvHolds, PTL DEF Spec

\* Two attempts in one partition start at least SpacingMs apart, whichever
\* workers claimed them and however old the instant each claim was judged at.
THEOREM SpacingHolds == Spec => []ClaimSpacing
  <1>1. Init => Spaced /\ PairsApart
    <2>1. Init => \A d \in Delivery, n \in 1..MaxAttempts : ~Started(d, n)
      BY DEF Init, Started
    <2> QED
      BY <2>1 DEF Spaced, PairsApart
  <1>2. SlotInv /\ [Next]_vars => Spaced' /\ PairsApart'
    BY SlotStep
  <1>3. PairsApart => ClaimSpacing
    BY DEF PairsApart, Apart2, Started, StartedAt, ClaimSpacing
  <1> QED
    BY <1>1, <1>2, <1>3, IndInvHolds, PTL DEF Spec, SlotInv

\* A property shows a completed Full Sync exactly when both deliveries of one
\* correlated FULL pair were sent, in whichever order, by whichever workers and
\* through whichever crashes: the completion that finds the sibling SENT writes it.
THEOREM FullSyncHolds == Spec => []FullSyncRecorded
  <1>1. Init => AnswersRead /\ FullSyncRecorded
    BY IdleType DEF Init, AnswersRead, FullSyncRecorded
  <1>2. FullSyncInv /\ [Next]_vars => AnswersRead' /\ FullSyncRecorded'
    BY AnswersReadStep, FullSyncStep DEF FullSyncInv
  <1> QED
    BY <1>1, <1>2, IndInvHolds, PTL DEF Spec, FullSyncInv
=============================================================================
