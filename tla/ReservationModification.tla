----------------------- MODULE ReservationModification -----------------------
(***************************************************************************)
(* A guest changes the dates of a direct booking: preview, confirmation,   *)
(* Stripe Checkout, the payment webhook behind its event ledger, and the   *)
(* transaction that applies the change                                     *)
(* (services/guest-reservation-modification*.ts, availability.service.ts,  *)
(* stripe-financial-event-ledger.service.ts, webhooks/stripe.webhook.ts).  *)
(*                                                                         *)
(* All reservations are on one property.  Each change is one client        *)
(* request, which may be sent again.  Stripe is external: an open Checkout *)
(* is paid at once, paid later (an asynchronous method) or expires, and    *)
(* the event of a payment is delivered until it is answered with a 2xx,    *)
(* also while an earlier delivery is still being handled.                  *)
(***************************************************************************)
EXTENDS Integers, FiniteSets, FiniteSetsExt

CONSTANTS
    Reservations,
    Changes,         \* the ReservationModification rows there may be
    Of,              \* [Changes -> Reservations]
    Proposed,        \* [Changes -> sets of nights]: a night costs one unit
    FirstStay,       \* [Reservations -> sets of nights]
    Booked,          \* reservations booked from the start; others may follow
    Manual,          \* reservations of the host's own, paid outside
    MoveTo,          \* [Manual -> sets of nights]: where the host may move one
    Handlers,        \* webhook deliveries under way at once
    WindowMs,        \* checkoutExpiresAt - confirmedAt: 60 minutes
    MinWindowMs,     \* what must be left of it to open a Checkout: 30 minutes
    MaxClock,        \* bound: the horizon
    MaxFaults        \* bound: crashes, failing steps, other writes of a reservation

ASSUME ChangeAssumption ==
    /\ Booked \subseteq Reservations /\ Manual \subseteq Reservations
    /\ Changes # {} /\ Of \in [Changes -> Reservations \ Manual]
    /\ \A m \in Changes : IsFiniteSet(Proposed[m]) /\ Proposed[m] # {}
    /\ \A r \in Reservations : IsFiniteSet(FirstStay[r]) /\ FirstStay[r] # {}
    /\ \A r \in Manual : IsFiniteSet(MoveTo[r]) /\ MoveTo[r] # {}
    /\ \A r, s \in Booked : r # s => FirstStay[r] \cap FirstStay[s] = {}
    /\ MinWindowMs \in Nat /\ WindowMs \in Nat /\ MinWindowMs < WindowMs
    /\ MaxClock \in Nat /\ MaxFaults \in Nat

VARIABLES
    clock,
    reservation,     \* Reservation: stay, active, begun, collected, version (updatedAt)
    change,          \* ReservationModification
    request,         \* the confirm request of each change
    checkout,        \* the checkout request of each change
    session,         \* its Stripe Checkout session
    ledger,          \* StripeEventLog: the event of its payment
    answered,        \* events Stripe has seen answered with a 2xx
    handler,         \* webhook deliveries being handled
    cleared,         \* bookings and moves checked and not committed: the version read
    faults

vars == <<clock, reservation, change, request, checkout, session, ledger, answered, handler,
          cleared, faults>>

NoChange == [status |-> "NONE", from |-> {}, base |-> 0, expires |-> 0, stored |-> FALSE,
             evidence |-> FALSE]
NoRequest == [pc |-> "none", version |-> 0, stay |-> {}]
Idle == [pc |-> "idle", of |-> CHOOSE m \in Changes : TRUE]
Uncleared == -1
Price(r, nights) == IF r \in Manual THEN 0 ELSE Cardinality(nights)

Init ==
    /\ clock = 0
    /\ reservation = [r \in Reservations |->
         [stay |-> IF r \in Booked THEN FirstStay[r] ELSE {}, active |-> r \in Booked,
          begun |-> FALSE, version |-> 0,
          collected |-> IF r \in Booked THEN Price(r, FirstStay[r]) ELSE 0]]
    /\ change = [m \in Changes |-> NoChange]
    /\ request = [m \in Changes |-> NoRequest]
    /\ checkout = [m \in Changes |-> "none"]
    /\ session = [m \in Changes |-> "none"]
    /\ ledger = [m \in Changes |-> "none"]
    /\ answered = {}
    /\ handler = [h \in Handlers |-> Idle]
    /\ cleared = [r \in Reservations |-> Uncleared]
    /\ faults = 0

-----------------------------------------------------------------------------
(* Rows and dates.                                                         *)

ActiveStatuses_Unpaid == {"AWAITING_PAYMENT", "HOST_APPROVAL_REQUIRED", "APPLYING"}
ActiveStatuses == {"AWAITING_PAYMENT", "PAYMENT_PROCESSING", "HOST_APPROVAL_REQUIRED", "APPLYING"}
Active(m) == change[m].status \in ActiveStatuses
Lapsed(m) == change[m].status = "AWAITING_PAYMENT" /\ change[m].expires <= clock

\* The nights a change holds while it is paid for and applied.
Holds(m) ==
    \/ change[m].status \in {"APPLYING", "PAYMENT_PROCESSING"}
    \/ change[m].status = "AWAITING_PAYMENT" /\ change[m].expires > clock

\* checkPropertyAvailability and assertProposedDatesAvailable: other reservations'
\* stays and other changes' holds, the reservation's own included.
Occupied(nights, r) ==
    \E s \in Reservations \ {r} : reservation[s].active /\ reservation[s].stay \cap nights # {}
Unheld(nights, except) ==
    \A m \in Changes \ except : Holds(m) => Proposed[m] \cap nights = {}
Available(nights, r, except) == ~Occupied(nights, r) /\ Unheld(nights, except)

Stay(m) == reservation[Of[m]].stay
Charge(m) == Max({0, Cardinality(Proposed[m]) - Cardinality(change[m].from)})
Modifiable(r) == reservation[r].active /\ ~reservation[r].begun
Version(m) == reservation[Of[m]].version
\* Every write of a reservation but the stay's beginning moves its updatedAt.
SetRow(r, row) == reservation' = [reservation EXCEPT ![r] = row]
Touched(r) == [reservation[r] EXCEPT !.version = @ + 1]
SetStatus(m, status) == change' = [change EXCEPT ![m].status = status]

-----------------------------------------------------------------------------
(* getGuestReservationModificationPreview and                              *)
(* confirmGuestReservationModification.                                    *)

Preview(m) ==
    /\ request[m].pc = "none" /\ change[m].status = "NONE"
    /\ Modifiable(Of[m]) /\ Proposed[m] # Stay(m)
    /\ Available(Proposed[m], Of[m], {})
    /\ request' = [request EXCEPT
         ![m] = [pc |-> "previewed", version |-> Version(m), stay |-> Stay(m)]]
    /\ UNCHANGED <<clock, reservation, change, checkout, session, ledger, answered, handler,
                   cleared, faults>>

\* getGuestReservationModificationInitialStatus; a reduction is refunded, or not, by
\* the terms the guest once accepted.
InitialStatuses(m) ==
    LET difference == Cardinality(Proposed[m]) - Cardinality(request[m].stay) IN
    IF difference > 0 THEN {"AWAITING_PAYMENT"}
    ELSE IF difference = 0 THEN {"APPLYING"}
    ELSE {"APPLYING", "HOST_APPROVAL_REQUIRED"}

\* One transaction under the reservation's row lock.  It expires lapsed changes of
\* the reservation and is rolled back when another change is active.
Fresh_AnyVersion(m) == Modifiable(Of[m])
Fresh(m) == Modifiable(Of[m]) /\ Version(m) = request[m].version
Deadline_Unset(status) == 0
Deadline(status) == IF status = "AWAITING_PAYMENT" THEN clock + WindowMs ELSE 0
Rivals(m) == {n \in Changes \ {m} : Of[n] = Of[m]}
Confirm(m) ==
    /\ request[m].pc = "previewed"
    /\ Fresh(m) /\ \A n \in Rivals(m) : Active(n) => Lapsed(n)
    /\ \E status \in InitialStatuses(m) :
         /\ change' = [n \in Changes |->
              IF n = m
              THEN [NoChange EXCEPT !.status = status, !.from = request[m].stay,
                                    !.base = request[m].version,
                                    !.expires = Deadline(status)]
              ELSE IF n \in Rivals(m) /\ Lapsed(n) THEN [change[n] EXCEPT !.status = "EXPIRED"]
              ELSE change[n]]
         /\ request' = [request EXCEPT
              ![m] = [NoRequest EXCEPT !.pc = IF status = "APPLYING" THEN "apply" ELSE "none"]]
    /\ UNCHANGED <<clock, reservation, checkout, session, ledger, answered, handler,
                   cleared, faults>>
ConfirmRefused(m) ==
    /\ request[m].pc = "previewed"
    /\ ~(Fresh(m) /\ \A n \in Rivals(m) : Active(n) => Lapsed(n))
    /\ request' = [request EXCEPT ![m] = NoRequest]
    /\ UNCHANGED <<clock, reservation, change, checkout, session, ledger, answered, handler,
                   cleared, faults>>
\* The same client request again: the row it made is applied when it waits for that.
ConfirmAgain(m) ==
    /\ request[m].pc = "none" /\ change[m].status = "APPLYING"
    /\ request' = [request EXCEPT ![m].pc = "apply"]
    /\ UNCHANGED <<clock, reservation, change, checkout, session, ledger, answered, handler,
                   cleared, faults>>

-----------------------------------------------------------------------------
(* applyGuestReservationModification: one serializable transaction, and    *)
(* reconcileReservation after it.  It checks and commits in two steps: the *)
(* rows it locks and the stays it read are as it read them when it         *)
(* commits, or PostgreSQL refuses the commit (every transaction that gives *)
(* a stay nights is serializable); the instant and the holds are those of  *)
(* the check, for a confirmation, READ COMMITTED, is seen by no one.       *)

Applicable_Unchecked(m) ==
    /\ change[m].status = "APPLYING"
    /\ reservation[Of[m]].active /\ Stay(m) = change[m].from
    /\ Charge(m) > 0 => change[m].evidence
Applicable(m) ==
    /\ change[m].status = "APPLYING"
    /\ reservation[Of[m]].active /\ Stay(m) = change[m].from
    /\ Charge(m) > 0 => change[m].evidence
    /\ ~Occupied(Proposed[m], Of[m])
ApplyChecked(m) == Applicable(m) /\ Modifiable(Of[m]) /\ Unheld(Proposed[m], {m})
Apply(m) ==
    /\ Applicable(m)
    /\ SetRow(Of[m], [Touched(Of[m]) EXCEPT !.stay = Proposed[m], !.collected = @ + Charge(m)])
    /\ SetStatus(m, "APPLIED")
ApplyOrFail(m) == Apply(m) \/ (~Applicable(m) /\ UNCHANGED <<reservation, change>>)

\* A change applied before is answered as it is.
RequestChecks(m) ==
    /\ request[m].pc = "apply"
    /\ request' = [request EXCEPT ![m].pc = IF ApplyChecked(m) THEN "checked" ELSE "none"]
    /\ UNCHANGED <<clock, reservation, change, checkout, session, ledger, answered, handler,
                   cleared, faults>>
RequestApplies(m) ==
    /\ request[m].pc = "checked"
    /\ ApplyOrFail(m)
    /\ request' = [request EXCEPT ![m].pc = "none"]
    /\ UNCHANGED <<clock, checkout, session, ledger, answered, handler, cleared, faults>>

-----------------------------------------------------------------------------
(* createGuestReservationModificationCheckout.                             *)

SetCheckout(m, pc) == checkout' = [checkout EXCEPT ![m] = pc]
\* The Checkout made before is returned; one that expired expires the change.
RetrieveCheckout(m) ==
    /\ checkout[m] = "none" /\ change[m].stored
    /\ session[m] = "expired" /\ change[m].status = "AWAITING_PAYMENT"
    /\ SetStatus(m, "EXPIRED")
    /\ UNCHANGED <<clock, reservation, request, checkout, session, ledger, answered, handler,
                   cleared, faults>>
WindowOpen(m) == change[m].expires > clock + MinWindowMs
StartCheckout(m) ==
    /\ checkout[m] = "none" /\ ~change[m].stored /\ change[m].status = "AWAITING_PAYMENT"
    /\ \/ /\ ~WindowOpen(m) /\ SetStatus(m, "EXPIRED") /\ UNCHANGED checkout
       \/ /\ WindowOpen(m) /\ Modifiable(Of[m]) /\ Version(m) = change[m].base
          /\ SetCheckout(m, "checked") /\ UNCHANGED change
    /\ UNCHANGED <<clock, reservation, request, session, ledger, answered, handler,
                   cleared, faults>>
CheckDates(m) ==
    /\ checkout[m] = "checked"
    /\ SetCheckout(m, IF Available(Proposed[m], Of[m], {m}) THEN "available" ELSE "none")
    /\ UNCHANGED <<clock, reservation, change, request, session, ledger, answered, handler,
                   cleared, faults>>
\* The price is not the confirmed one any more.
PriceChanged(m) ==
    /\ checkout[m] = "available" /\ faults < MaxFaults /\ faults' = faults + 1
    /\ IF change[m].status = "AWAITING_PAYMENT" /\ ~change[m].stored
       THEN SetStatus(m, "EXPIRED") ELSE UNCHANGED change
    /\ SetCheckout(m, "none")
    /\ UNCHANGED <<clock, reservation, request, session, ledger, answered, handler, cleared>>
\* Stripe makes one session for one idempotency key, and none that expires too soon.
CreateSession(m) ==
    /\ checkout[m] = "available"
    /\ IF change[m].expires >= clock + MinWindowMs
       THEN /\ session' = [session EXCEPT ![m] = IF @ = "none" THEN "open" ELSE @]
            /\ SetCheckout(m, "created")
       ELSE SetCheckout(m, "none") /\ UNCHANGED session
    /\ UNCHANGED <<clock, reservation, change, request, ledger, answered, handler, cleared, faults>>
\* Only a change still awaiting its payment gets the session, and the guest its link.
PersistSession(m) ==
    /\ checkout[m] = "created"
    /\ change' = [change EXCEPT ![m].stored = @ \/ change[m].status = "AWAITING_PAYMENT"]
    /\ SetCheckout(m, "none")
    /\ UNCHANGED <<clock, reservation, request, session, ledger, answered, handler,
                   cleared, faults>>

-----------------------------------------------------------------------------
(* Stripe, external.                                                       *)

SetSession(m, status) == session' = [session EXCEPT ![m] = status]
Stripe == UNCHANGED <<clock, reservation, change, request, checkout, ledger, answered, handler,
                      cleared, faults>>
Pay(m) ==
    /\ session[m] = "open" /\ change[m].stored /\ clock < change[m].expires
    /\ SetSession(m, "paid") \/ SetSession(m, "pending")
    /\ Stripe
Settle(m) ==
    /\ session[m] = "pending"
    /\ SetSession(m, "paid") \/ SetSession(m, "failed")
    /\ Stripe
SessionExpires(m) ==
    /\ session[m] = "open" /\ clock >= change[m].expires
    /\ SetSession(m, "expired")
    /\ Stripe

-----------------------------------------------------------------------------
(* The webhook: claimStripeFinancialEvent, then                            *)
(* handleGuestReservationModificationCheckoutPaid.                         *)

Claimed(m) == ledger' = [ledger EXCEPT ![m] = "progress"]
\* The event's row is created, or it was found with the error of a delivery before.
Deliver(h, m) ==
    /\ handler[h].pc = "idle" /\ session[m] = "paid" /\ m \notin answered
    /\ \/ /\ ledger[m] = "none" /\ Claimed(m)
          /\ handler' = [handler EXCEPT ![h] = [pc |-> "read", of |-> m]]
       \/ /\ ledger[m] = "failed" /\ UNCHANGED ledger
          /\ handler' = [handler EXCEPT ![h] = [pc |-> "reclaim", of |-> m]]
    /\ UNCHANGED <<clock, reservation, change, request, checkout, session, answered,
                   cleared, faults>>
Reclaimable_Unfinished(m) == ledger[m] # "processed"
Reclaimable(m) == ledger[m] = "failed"
Reclaim(h) ==
    /\ handler[h].pc = "reclaim"
    /\ LET m == handler[h].of IN
       IF Reclaimable(m)
       THEN Claimed(m) /\ handler' = [handler EXCEPT ![h].pc = "read"] /\ UNCHANGED answered
       ELSE /\ answered' = answered \cup {m} /\ handler' = [handler EXCEPT ![h] = Idle]
            /\ UNCHANGED ledger
    /\ UNCHANGED <<clock, reservation, change, request, checkout, session, cleared, faults>>
\* DUPLICATE_PROCESSED, DUPLICATE_IN_PROGRESS: answered with a 2xx.
DeliverDuplicate(m) ==
    /\ session[m] = "paid" /\ m \notin answered /\ ledger[m] \in {"progress", "processed"}
    /\ answered' = answered \cup {m}
    /\ UNCHANGED <<clock, reservation, change, request, checkout, session, ledger, handler,
                   cleared, faults>>

Goto(h, pc) == handler' = [handler EXCEPT ![h].pc = pc]
Handling == UNCHANGED <<clock, request, checkout, session, cleared>>
\* What a status leads to; a change that is over takes no payment.
Follow(h, status) ==
    Goto(h, CASE status \in {"APPLYING", "APPLIED"} -> "apply"
              [] status = "PAYMENT_PROCESSING" -> "evidence"
              [] OTHER -> "failing")
ReadChange(h) ==
    /\ handler[h].pc = "read"
    /\ LET status == change[handler[h].of].status IN
       IF status = "AWAITING_PAYMENT" THEN Goto(h, "begin") ELSE Follow(h, status)
    /\ Handling /\ UNCHANGED <<reservation, change, ledger, answered, faults>>
BeginProcessing(h) ==
    /\ handler[h].pc = "begin"
    /\ LET m == handler[h].of IN
       IF change[m].status = "AWAITING_PAYMENT" /\ change[m].stored
       THEN SetStatus(m, "PAYMENT_PROCESSING") ELSE UNCHANGED change
    /\ Goto(h, "reread")
    /\ Handling /\ UNCHANGED <<reservation, ledger, answered, faults>>
RereadChange(h) ==
    /\ handler[h].pc = "reread"
    /\ Follow(h, change[handler[h].of].status)
    /\ Handling /\ UNCHANGED <<reservation, change, ledger, answered, faults>>
PersistEvidence(h) ==
    /\ handler[h].pc = "evidence"
    /\ LET m == handler[h].of
           current == change[m].status = "PAYMENT_PROCESSING" /\ change[m].stored IN
       /\ change' = IF current
                    THEN [change EXCEPT ![m].status = "APPLYING", ![m].evidence = TRUE]
                    ELSE change
       /\ Goto(h, IF current THEN "apply" ELSE "failing")
    /\ Handling /\ UNCHANGED <<reservation, ledger, answered, faults>>
HandlerChecks(h) ==
    /\ handler[h].pc = "apply"
    /\ LET m == handler[h].of IN
       Goto(h, IF change[m].status = "APPLIED" THEN "mark"
               ELSE IF ApplyChecked(m) THEN "checked" ELSE "failing")
    /\ Handling /\ UNCHANGED <<reservation, change, ledger, answered, faults>>
HandlerApplies(h) ==
    /\ handler[h].pc = "checked"
    /\ LET m == handler[h].of IN
       ApplyOrFail(m) /\ Goto(h, IF Applicable(m) THEN "mark" ELSE "failing")
    /\ Handling /\ UNCHANGED <<ledger, answered, faults>>
\* Reconciled, the event is marked processed, and Stripe has its answer.
MarkProcessed(h) ==
    /\ handler[h].pc = "mark"
    /\ ledger' = [ledger EXCEPT ![handler[h].of] = "processed"]
    /\ answered' = answered \cup {handler[h].of}
    /\ handler' = [handler EXCEPT ![h] = Idle]
    /\ Handling /\ UNCHANGED <<reservation, change, faults>>
MarkFailed(h) ==
    /\ handler[h].pc = "failing"
    /\ ledger' = [ledger EXCEPT ![handler[h].of] = "failed"]
    /\ handler' = [handler EXCEPT ![h] = Idle]
    /\ Handling /\ UNCHANGED <<reservation, change, answered, faults>>
\* A query, Stripe or the reconciliation fails; the process dies.
StepFails(h) ==
    /\ handler[h].pc \notin {"idle", "reclaim", "failing"} /\ faults < MaxFaults /\ faults' = faults + 1
    /\ Goto(h, "failing")
    /\ Handling /\ UNCHANGED <<reservation, change, ledger, answered>>
Crash(h) ==
    /\ handler[h].pc # "idle" /\ faults < MaxFaults /\ faults' = faults + 1
    /\ handler' = [handler EXCEPT ![h] = Idle]
    /\ Handling /\ UNCHANGED <<reservation, change, ledger, answered>>

-----------------------------------------------------------------------------
(* Around it: another booking, a cancellation, a write that only moves     *)
(* updatedAt, the stay's beginning, time.                                  *)

World == UNCHANGED <<change, request, checkout, session, ledger, answered, handler>>
\* runIngestTransaction, serializable: assertDirectBookingIngestAvailability, and the
\* commit, which finds the stays it read (of the holds it cannot know).
Clear(r) == cleared' = [cleared EXCEPT ![r] = reservation[r].version]
Unclear(r) == cleared' = [cleared EXCEPT ![r] = Uncleared]
CheckBooking(r) ==
    /\ r \notin Booked /\ reservation[r].stay = {} /\ cleared[r] = Uncleared
    /\ Available(FirstStay[r], r, {}) /\ Clear(r)
    /\ World /\ UNCHANGED <<clock, reservation, faults>>
Book(r) ==
    /\ r \notin Booked /\ reservation[r].stay = {} /\ cleared[r] = reservation[r].version
    /\ ~Occupied(FirstStay[r], r)
    /\ SetRow(r, [Touched(r) EXCEPT !.stay = FirstStay[r], !.active = TRUE,
                                    !.collected = Price(r, FirstStay[r])])
    /\ Unclear(r) /\ World /\ UNCHANGED <<clock, faults>>
\* changeManualReservationDatesByHost: what it reads before its transaction only
\* refuses more; the update compares updatedAt.
CheckMove(r) ==
    /\ r \in Manual /\ Modifiable(r) /\ reservation[r].stay # MoveTo[r]
    /\ cleared[r] = Uncleared /\ Available(MoveTo[r], r, {}) /\ Clear(r)
    /\ World /\ UNCHANGED <<clock, reservation, faults>>
HostMoves(r) ==
    /\ r \in Manual /\ reservation[r].active /\ cleared[r] = reservation[r].version
    /\ ~Occupied(MoveTo[r], r)
    /\ SetRow(r, [Touched(r) EXCEPT !.stay = MoveTo[r]])
    /\ Unclear(r) /\ World /\ UNCHANGED <<clock, faults>>
\* The commit is refused; the transaction is run again or given up.
CommitRefused(r) ==
    /\ cleared[r] # Uncleared /\ Unclear(r)
    /\ World /\ UNCHANGED <<clock, reservation, faults>>
OtherWrite(r) ==
    /\ reservation[r].active /\ faults < MaxFaults /\ faults' = faults + 1
    /\ \/ SetRow(r, Touched(r))
       \/ SetRow(r, [Touched(r) EXCEPT !.active = FALSE])
       \/ ~reservation[r].begun /\ SetRow(r, [reservation[r] EXCEPT !.begun = TRUE])
    /\ World /\ UNCHANGED <<clock, cleared>>
Tick ==
    /\ clock < MaxClock /\ clock' = clock + 1
    /\ World /\ UNCHANGED <<reservation, cleared, faults>>

Guest(m) ==
    \/ Preview(m) \/ Confirm(m) \/ ConfirmRefused(m) \/ ConfirmAgain(m)
    \/ RequestChecks(m) \/ RequestApplies(m)
    \/ RetrieveCheckout(m) \/ StartCheckout(m) \/ CheckDates(m) \/ PriceChanged(m)
    \/ CreateSession(m) \/ PersistSession(m) \/ Pay(m) \/ Settle(m) \/ SessionExpires(m)
    \/ DeliverDuplicate(m)
Webhook(h) ==
    \/ \E m \in Changes : Deliver(h, m)
    \/ Reclaim(h) \/ ReadChange(h) \/ BeginProcessing(h) \/ RereadChange(h) \/ PersistEvidence(h)
    \/ HandlerChecks(h) \/ HandlerApplies(h) \/ MarkProcessed(h) \/ MarkFailed(h)
    \/ StepFails(h) \/ Crash(h)
Ingest(r) == CheckBooking(r) \/ Book(r) \/ CheckMove(r) \/ HostMoves(r) \/ CommitRefused(r)

Next ==
    \/ \E m \in Changes : Guest(m)
    \/ \E h \in Handlers : Webhook(h)
    \/ \E r \in Reservations : Ingest(r) \/ OtherWrite(r)
    \/ Tick

Spec == Init /\ [][Next]_vars

-----------------------------------------------------------------------------
(* Properties.                                                             *)

Statuses == {"NONE", "AWAITING_PAYMENT", "PAYMENT_PROCESSING", "HOST_APPROVAL_REQUIRED",
             "APPLYING", "APPLIED", "EXPIRED"}
\* The rows are of their types; a change that waits for a payment has a deadline, and
\* only what was paid at Stripe has payment evidence (ReservationModification).
TypeOK ==
    /\ clock \in 0 .. MaxClock /\ faults \in 0 .. MaxFaults
    /\ \A m \in Changes :
         /\ change[m].status \in Statuses
         /\ change[m].status = "AWAITING_PAYMENT" => change[m].expires > 0
         /\ change[m].evidence => session[m] = "paid"
         /\ ledger[m] \in {"none", "progress", "failed", "processed"}
    /\ \A r \in Reservations : cleared[r] \in Nat \cup {Uncleared}
    /\ answered \subseteq {m \in Changes : ledger[m] # "none"}

\* A reservation has at most one change under way, whichever requests race and
\* whichever deadlines pass (ACTIVE_RESERVATION_MODIFICATION_EXISTS).
OneActive ==
    \A m, n \in Changes : Active(m) /\ Active(n) /\ Of[m] = Of[n] => m = n

\* What a change quotes and charges for is the stay as it is, from its confirmation
\* until it is applied or over: no price is taken against dates that moved.
QuoteStands ==
    \A m \in Changes : Active(m) => change[m].from = Stay(m)

\* The ledger admits one delivery of an event at a time to the handler, whichever
\* retries find the same failed row (claimStripeFinancialEvent).
Handled(h) == handler[h].pc \notin {"idle", "reclaim"}
OneHandlerPerEvent ==
    \A g, h \in Handlers :
      Handled(g) /\ Handled(h) /\ handler[g].of = handler[h].of => g = h

\* The promise: no night twice, and each change at most once and only when paid.
Promise == INSTANCE PaidChange WITH
    stay <- [r \in Reservations |-> IF reservation[r].active THEN reservation[r].stay ELSE {}],
    collected <- [r \in Reservations |-> reservation[r].collected],
    paid <- {m \in Changes : session[m] = "paid"},
    applied <- {m \in Changes : change[m].status = "APPLIED"}
ImplementsPaidChange == Promise!Spec

\* An event whose handling failed is still to be delivered again.
FailedIsRetried == \A m \in Changes : ledger[m] = "failed" => m \notin answered

\* Nights promised to a guest who is paying for them, or whose payment is being applied,
\* are not given to anyone else's stay meanwhile.
HoldsRespected ==
    [][\A m \in Changes : Holds(m) /\ Holds(m)' /\ ~Occupied(Proposed[m], Of[m])
                          => ~Occupied(Proposed[m], Of[m])']_vars

\* What was paid is never left behind by a change that expired.
PaidNotExpired == \A m \in Changes : session[m] = "paid" => change[m].status # "EXPIRED"
=============================================================================
