-------------------- MODULE ReservationModificationProofs --------------------
(***************************************************************************)
(* What holds of ReservationModification for every set of reservations,    *)
(* changes and deliveries, wherever the changes lie.                       *)
(***************************************************************************)
EXTENDS ReservationModification, FiniteSetTheorems, TLAPS

Stays == {{}} \cup {FirstStay[r] : r \in Reservations} \cup {Proposed[m] : m \in Changes}
              \cup {MoveTo[r] : r \in Manual}
ReservationRow == [stay: Stays, active: BOOLEAN, begun: BOOLEAN, version: Nat, collected: Nat]
ChangeRow == [status: Statuses, from: Stays, base: Nat, expires: Nat, stored: BOOLEAN,
              evidence: BOOLEAN]
RequestRow == [pc: {"none", "previewed", "apply", "checked"}, version: Nat, stay: Stays]
HandlerRow == [pc: {"idle", "reclaim", "read", "begin", "reread", "evidence", "apply",
                    "checked", "mark", "failing"},
               of: Changes]
Sessions == {"none", "open", "paid", "pending", "failed", "expired"}

Typed ==
    /\ clock \in 0 .. MaxClock /\ faults \in 0 .. MaxFaults
    /\ reservation \in [Reservations -> ReservationRow]
    /\ change \in [Changes -> ChangeRow]
    /\ request \in [Changes -> RequestRow]
    /\ checkout \in [Changes -> {"none", "checked", "available", "created"}]
    /\ session \in [Changes -> Sessions]
    /\ ledger \in [Changes -> {"none", "progress", "failed", "processed"}]
    /\ answered \subseteq Changes
    /\ handler \in [Handlers -> HandlerRow]
    /\ cleared \in [Reservations -> Nat \cup {Uncleared}]

LEMMA StayFinite == \A S \in Stays : IsFiniteSet(S) /\ Cardinality(S) \in Nat
  BY ChangeAssumption, FS_EmptySet, FS_CardinalityType DEF Stays

LEMMA MaxZero == \A k \in Int : Max({0, k}) \in Nat /\ (k <= 0 => Max({0, k}) = 0)
  <1> SUFFICES ASSUME NEW k \in Int
               PROVE  Max({0, k}) \in Nat /\ (k <= 0 => Max({0, k}) = 0)
    OBVIOUS
  <1>1. CASE k <= 0
    <2>1. \A x \in {0, k} : (\A y \in {0, k} : x >= y) => x = 0
      BY <1>1
    <2>2. 0 \in {0, k} /\ \A y \in {0, k} : 0 >= y
      BY <1>1
    <2> QED
      BY <2>1, <2>2 DEF Max
  <1>2. CASE k > 0
    <2>1. k \in {0, k} /\ \A y \in {0, k} : k >= y
      BY <1>2
    <2>2. Max({0, k}) \in {0, k}
      BY <2>1 DEF Max
    <2> QED
      BY <1>2, <2>2
  <1> QED
    BY <1>1, <1>2

LEMMA MaxPositive == \A k \in Int : k > 0 => Max({0, k}) = k
  <1> SUFFICES ASSUME NEW k \in Int, k > 0
               PROVE  Max({0, k}) = k
    OBVIOUS
  <1>1. k \in {0, k} /\ \A y \in {0, k} : k >= y
    OBVIOUS
  <1>2. \A x \in {0, k} : (\A y \in {0, k} : x >= y) => x = k
    OBVIOUS
  <1> QED
    BY <1>1, <1>2 DEF Max

LEMMA ChargeType == Typed => \A m \in Changes : Charge(m) \in Nat
  <1> SUFFICES ASSUME Typed, NEW m \in Changes
               PROVE  Charge(m) \in Nat
    OBVIOUS
  <1>1. Cardinality(Proposed[m]) \in Nat /\ Cardinality(change[m].from) \in Nat
    BY StayFinite DEF Typed, ChangeRow, Stays
  <1> QED
    BY <1>1, MaxZero DEF Charge

LEMMA PriceType ==
    \A r \in Reservations : FirstStay[r] \in Stays /\ Price(r, FirstStay[r]) \in Nat
  BY StayFinite DEF Stays, Price

LEMMA RowTypes == NoRequest \in RequestRow /\ NoChange \in ChangeRow /\ Idle \in HandlerRow
  BY ChangeAssumption
  DEF NoRequest, RequestRow, NoChange, ChangeRow, Idle, HandlerRow, Stays, Statuses

LEMMA InitTyped == Init => Typed
  <1> SUFFICES ASSUME Init PROVE Typed
    OBVIOUS
  <1>1. reservation \in [Reservations -> ReservationRow]
    BY PriceType DEF Init, ReservationRow, Stays
  <1> QED
    BY <1>1, RowTypes, ChangeAssumption DEF Init, Typed, Sessions

\* Writing one row.
LEMMA SetRowTyped ==
    ASSUME Typed, NEW r \in Reservations, NEW row \in ReservationRow, SetRow(r, row)
    PROVE  reservation' \in [Reservations -> ReservationRow]
  BY DEF Typed, SetRow

LEMMA TouchedRow ==
    ASSUME Typed, NEW r \in Reservations
    PROVE  /\ Touched(r) \in ReservationRow
           /\ Touched(r).version = reservation[r].version + 1
           /\ Touched(r).stay = reservation[r].stay
           /\ Touched(r).active = reservation[r].active
           /\ Touched(r).begun = reservation[r].begun
           /\ Touched(r).collected = reservation[r].collected
  BY DEF Typed, ReservationRow, Touched

LEMMA SetStatusTyped ==
    ASSUME Typed, NEW m \in Changes, NEW status \in Statuses, SetStatus(m, status)
    PROVE  change' \in [Changes -> ChangeRow]
  BY DEF Typed, ChangeRow, SetStatus

LEMMA AppliedRow ==
    ASSUME Typed, NEW m \in Changes
    PROVE  [Touched(Of[m]) EXCEPT !.stay = Proposed[m], !.collected = @ + Charge(m)]
             \in ReservationRow
  <1> DEFINE old == Touched(Of[m])
             sum == old.collected + Charge(m)
  <1>1. Of[m] \in Reservations /\ Proposed[m] \in Stays /\ Charge(m) \in Nat
    BY ChangeAssumption, ChargeType DEF Stays
  <1>2. old \in ReservationRow /\ sum \in Nat
    BY <1>1, TouchedRow DEF ReservationRow
  <1> HIDE DEF old
  <1>3. [old EXCEPT !.stay = Proposed[m], !.collected = sum] \in ReservationRow
    <2> HIDE DEF sum
    <2> QED
      BY <1>1, <1>2 DEF ReservationRow
  <1> QED
    BY <1>3 DEF old

LEMMA ApplyTyped ==
    ASSUME Typed, NEW m \in Changes, ApplyOrFail(m)
    PROVE  reservation' \in [Reservations -> ReservationRow] /\ change' \in [Changes -> ChangeRow]
  <1>1. CASE UNCHANGED <<reservation, change>>
    BY <1>1 DEF Typed
  <1>2. CASE Apply(m)
    <2>1. Of[m] \in Reservations
      BY ChangeAssumption
    <2>3. reservation' \in [Reservations -> ReservationRow]
      BY <1>2, <2>1, AppliedRow, SetRowTyped DEF Apply
    <2>4. change' \in [Changes -> ChangeRow]
      BY <1>2, SetStatusTyped DEF Apply, Statuses
    <2> QED
      BY <2>3, <2>4
  <1> QED
    BY <1>1, <1>2 DEF ApplyOrFail

\* A booking or a move is checked or not.
LEMMA ClearTyped ==
    ASSUME Typed, NEW r \in Reservations, Clear(r) \/ Unclear(r)
    PROVE  cleared' \in [Reservations -> Nat \cup {Uncleared}]
  <1>1. reservation[r].version \in Nat
    BY DEF Typed, ReservationRow
  <1> QED
    BY <1>1 DEF Typed, Clear, Unclear

LEMMA NextTyped == Typed /\ [Next]_vars => Typed'
  <1> SUFFICES ASSUME Typed, [Next]_vars
               PROVE  Typed'
    OBVIOUS
  <1> USE ChangeAssumption
  <1>1. ASSUME NEW m \in Changes, Preview(m) PROVE Typed'
    <2> DEFINE row == [pc |-> "previewed", version |-> Version(m), stay |-> Stay(m)]
    <2>1. row \in RequestRow
      BY DEF Typed, RequestRow, ReservationRow, Version, Stay
    <2> QED
      BY <1>1, <2>1 DEF Preview, Typed
  <1>2. ASSUME NEW m \in Changes, Confirm(m) PROVE Typed'
    <2>1. PICK status \in InitialStatuses(m) :
            /\ change' = [n \in Changes |->
                 IF n = m
                 THEN [NoChange EXCEPT !.status = status, !.from = request[m].stay,
                                       !.base = request[m].version,
                                       !.expires = Deadline(status)]
                 ELSE IF n \in Rivals(m) /\ Lapsed(n)
                      THEN [change[n] EXCEPT !.status = "EXPIRED"]
                 ELSE change[n]]
            /\ request' = [request EXCEPT
                 ![m] = [NoRequest EXCEPT !.pc = IF status = "APPLYING" THEN "apply" ELSE "none"]]
      BY <1>2 DEF Confirm
    <2>2. status \in Statuses /\ Deadline(status) \in Nat
      BY DEF InitialStatuses, Statuses, Deadline, Typed
    <2>3. [NoChange EXCEPT !.status = status, !.from = request[m].stay,
                           !.base = request[m].version,
                           !.expires = Deadline(status)] \in ChangeRow
      BY <2>2, RowTypes DEF Typed, ChangeRow, RequestRow, NoChange
    <2>4. \A n \in Changes : [change[n] EXCEPT !.status = "EXPIRED"] \in ChangeRow
      BY DEF Typed, ChangeRow, Statuses
    <2>5. change' \in [Changes -> ChangeRow]
      BY <2>1, <2>3, <2>4 DEF Typed
    <2>6. request' \in [Changes -> RequestRow]
      BY <2>1, RowTypes DEF Typed, RequestRow, NoRequest
    <2> QED
      BY <1>2, <2>5, <2>6 DEF Confirm, Typed
  <1>3. ASSUME NEW m \in Changes, ConfirmRefused(m) \/ ConfirmAgain(m) PROVE Typed'
    <2>1. request[m] \in RequestRow /\ request \in [Changes -> RequestRow]
      BY DEF Typed
    <2>2. [request[m] EXCEPT !.pc = "apply"] \in RequestRow
      BY <2>1 DEF RequestRow
    <2>3. \/ request' = [request EXCEPT ![m] = NoRequest]
          \/ request' = [request EXCEPT ![m] = [request[m] EXCEPT !.pc = "apply"]]
      BY <1>3, <2>1 DEF ConfirmRefused, ConfirmAgain
    <2>4. request' \in [Changes -> RequestRow]
      BY <2>1, <2>2, <2>3, RowTypes
    <2> QED
      BY <1>3, <2>4 DEF ConfirmRefused, ConfirmAgain, Typed
  <1>22. ASSUME NEW m \in Changes, RequestChecks(m) PROVE Typed'
    <2>1. request[m] \in RequestRow /\ request \in [Changes -> RequestRow]
      BY DEF Typed
    <2>2. /\ [request[m] EXCEPT !.pc = "checked"] \in RequestRow
          /\ [request[m] EXCEPT !.pc = "none"] \in RequestRow
      BY <2>1 DEF RequestRow
    <2>3. \/ request' = [request EXCEPT ![m] = [request[m] EXCEPT !.pc = "checked"]]
          \/ request' = [request EXCEPT ![m] = [request[m] EXCEPT !.pc = "none"]]
      BY <1>22, <2>1 DEF RequestChecks
    <2>4. request' \in [Changes -> RequestRow]
      BY <2>1, <2>2, <2>3
    <2> QED
      BY <1>22, <2>4 DEF RequestChecks, Typed
  <1>4. ASSUME NEW m \in Changes, RequestApplies(m) PROVE Typed'
    <2>1. reservation' \in [Reservations -> ReservationRow] /\ change' \in [Changes -> ChangeRow]
      BY <1>4, ApplyTyped DEF RequestApplies, Typed
    <2> QED
      BY <1>4, <2>1, RowTypes DEF RequestApplies, Typed, RequestRow
  <1>5. ASSUME NEW m \in Changes,
               \/ RetrieveCheckout(m) \/ StartCheckout(m) \/ CheckDates(m)
               \/ CreateSession(m) \/ PersistSession(m)
        PROVE  Typed'
    <2>1. CASE RetrieveCheckout(m)
      BY <2>1, SetStatusTyped DEF RetrieveCheckout, Typed, Statuses
    <2>2. CASE StartCheckout(m)
      BY <2>2, SetStatusTyped DEF StartCheckout, SetCheckout, Typed, Statuses
    <2>3. CASE CheckDates(m)
      BY <2>3 DEF CheckDates, SetCheckout, Typed
    <2>4. CASE CreateSession(m)
      BY <2>4 DEF CreateSession, SetCheckout, Typed, Sessions
    <2>5. CASE PersistSession(m)
      <3>1. change' \in [Changes -> ChangeRow]
        <4> DEFINE stored == change[m].stored \/ change[m].status = "AWAITING_PAYMENT"
        <4>1. [change[m] EXCEPT !.stored = stored] \in ChangeRow
          <5>1. change[m] \in ChangeRow /\ stored \in BOOLEAN
            BY DEF Typed, ChangeRow
          <5> HIDE DEF stored
          <5> QED
            BY <5>1 DEF ChangeRow
        <4>2. change' = [change EXCEPT ![m] = [change[m] EXCEPT !.stored = stored]]
          BY <2>5 DEF PersistSession, Typed, ChangeRow
        <4> QED
          BY <4>1, <4>2 DEF Typed
      <3> QED
        BY <2>5, <3>1 DEF PersistSession, SetCheckout, Typed
    <2> QED
      BY <1>5, <2>1, <2>2, <2>3, <2>4, <2>5
  <1>6. ASSUME NEW m \in Changes, PriceChanged(m) PROVE Typed'
    <2>1. change' \in [Changes -> ChangeRow]
      BY <1>6, SetStatusTyped DEF PriceChanged, Statuses, Typed
    <2>2. checkout' \in [Changes -> {"none", "checked", "available", "created"}]
      BY <1>6 DEF PriceChanged, SetCheckout, Typed
    <2>3. faults' \in 0 .. MaxFaults
      BY <1>6 DEF PriceChanged, Typed
    <2> QED
      BY <1>6, <2>1, <2>2, <2>3 DEF PriceChanged, Typed
  <1>7. ASSUME NEW m \in Changes, Pay(m) \/ Settle(m) \/ SessionExpires(m) PROVE Typed'
    BY <1>7 DEF Pay, Settle, SessionExpires, Stripe, SetSession, Typed, Sessions
  <1>8. ASSUME NEW m \in Changes, DeliverDuplicate(m) PROVE Typed'
    BY <1>8 DEF DeliverDuplicate, Typed
  <1>9. ASSUME NEW h \in Handlers, NEW m \in Changes, Deliver(h, m) PROVE Typed'
    <2>1. \A pc \in {"read", "reclaim"} : [pc |-> pc, of |-> m] \in HandlerRow
      BY DEF HandlerRow
    <2>2. handler' \in [Handlers -> HandlerRow]
      BY <1>9, <2>1 DEF Deliver, Typed
    <2> QED
      BY <1>9, <2>2 DEF Deliver, Claimed, Typed
  <1>10. ASSUME NEW h \in Handlers, Reclaim(h) PROVE Typed'
    BY <1>10, RowTypes DEF Reclaim, Claimed, Typed, HandlerRow
  <1>11. ASSUME NEW h \in Handlers, ReadChange(h) \/ RereadChange(h) PROVE Typed'
    BY <1>11 DEF ReadChange, RereadChange, Follow, Goto, Handling, Typed, HandlerRow
  <1>12. ASSUME NEW h \in Handlers, BeginProcessing(h) PROVE Typed'
    <2>1. handler[h].of \in Changes
      BY DEF Typed, HandlerRow
    <2>2. change' \in [Changes -> ChangeRow]
      BY <1>12, <2>1, SetStatusTyped DEF BeginProcessing, Typed, Statuses
    <2> QED
      BY <1>12, <2>2 DEF BeginProcessing, Goto, Handling, Typed, HandlerRow
  <1>21. ASSUME NEW h \in Handlers, PersistEvidence(h) PROVE Typed'
    <2>1. handler[h].of \in Changes
      BY DEF Typed, HandlerRow
    <2>2. change' \in [Changes -> ChangeRow]
      BY <1>21, <2>1 DEF PersistEvidence, Typed, ChangeRow, Statuses
    <2>3. handler' \in [Handlers -> HandlerRow]
      BY <1>21 DEF PersistEvidence, Goto, Typed, HandlerRow
    <2> QED
      BY <1>21, <2>2, <2>3 DEF PersistEvidence, Handling, Typed
  <1>23. ASSUME NEW h \in Handlers, HandlerChecks(h) PROVE Typed'
    BY <1>23 DEF HandlerChecks, Goto, Handling, Typed, HandlerRow
  <1>13. ASSUME NEW h \in Handlers, HandlerApplies(h) PROVE Typed'
    <2>1. handler[h].of \in Changes
      BY DEF Typed, HandlerRow
    <2>2. reservation' \in [Reservations -> ReservationRow] /\ change' \in [Changes -> ChangeRow]
      BY <1>13, <2>1, ApplyTyped DEF HandlerApplies, Typed
    <2> QED
      BY <1>13, <2>2 DEF HandlerApplies, Goto, Handling, Typed, HandlerRow
  <1>14. ASSUME NEW h \in Handlers, MarkProcessed(h) \/ MarkFailed(h) PROVE Typed'
    BY <1>14, RowTypes DEF MarkProcessed, MarkFailed, Handling, Typed, HandlerRow
  <1>15. ASSUME NEW h \in Handlers, StepFails(h) \/ Crash(h) PROVE Typed'
    BY <1>15, RowTypes DEF StepFails, Crash, Goto, Handling, Typed, HandlerRow
  <1>16. ASSUME NEW r \in Reservations, Book(r) PROVE Typed'
    <2>1. [Touched(r) EXCEPT !.stay = FirstStay[r], !.active = TRUE,
                             !.collected = Price(r, FirstStay[r])] \in ReservationRow
      <3>1. Touched(r) \in ReservationRow
        BY TouchedRow
      <3> QED
        BY <3>1, PriceType DEF ReservationRow
    <2>2. reservation' \in [Reservations -> ReservationRow]
      BY <1>16, <2>1, SetRowTyped DEF Book
    <2>3. cleared' \in [Reservations -> Nat \cup {Uncleared}]
      BY <1>16, ClearTyped DEF Book
    <2> QED
      BY <1>16, <2>2, <2>3 DEF Book, World, Typed
  <1>24. ASSUME NEW r \in Reservations, CheckBooking(r) \/ CheckMove(r) \/ CommitRefused(r)
         PROVE  Typed'
    <2>1. cleared' \in [Reservations -> Nat \cup {Uncleared}]
      BY <1>24, ClearTyped DEF CheckBooking, CheckMove, CommitRefused
    <2> QED
      BY <1>24, <2>1 DEF CheckBooking, CheckMove, CommitRefused, World, Typed
  <1>17. ASSUME NEW r \in Reservations, HostMoves(r) PROVE Typed'
    <2>1. [Touched(r) EXCEPT !.stay = MoveTo[r]] \in ReservationRow
      BY <1>17, TouchedRow DEF ReservationRow, Stays, HostMoves
    <2>2. reservation' \in [Reservations -> ReservationRow]
      BY <1>17, <2>1, SetRowTyped DEF HostMoves
    <2>3. cleared' \in [Reservations -> Nat \cup {Uncleared}]
      BY <1>17, ClearTyped DEF HostMoves
    <2> QED
      BY <1>17, <2>2, <2>3 DEF HostMoves, World, Typed
  <1>18. ASSUME NEW r \in Reservations, OtherWrite(r) PROVE Typed'
    <2>1. [Touched(r) EXCEPT !.active = FALSE] \in ReservationRow
      <3>1. Touched(r) \in ReservationRow
        BY TouchedRow
      <3> QED
        BY <3>1 DEF ReservationRow
    <2>3. [reservation[r] EXCEPT !.begun = TRUE] \in ReservationRow
      <3>1. reservation[r] \in ReservationRow
        BY DEF Typed
      <3> QED
        BY <3>1 DEF ReservationRow
    <2>2. reservation' \in [Reservations -> ReservationRow]
      BY <1>18, <2>1, <2>3, TouchedRow, SetRowTyped DEF OtherWrite
    <2> QED
      BY <1>18, <2>2 DEF OtherWrite, World, Typed
  <1>19. CASE Tick
    BY <1>19 DEF Tick, World, Typed
  <1>20. CASE UNCHANGED vars
    BY <1>20 DEF vars, Typed
  <1> QED
    BY <1>1, <1>2, <1>3, <1>4, <1>5, <1>6, <1>7, <1>8, <1>9, <1>10, <1>11, <1>12, <1>13, <1>14,
       <1>15, <1>16, <1>17, <1>18, <1>19, <1>20, <1>21, <1>22, <1>23, <1>24
    DEF Next, Guest, Webhook, Ingest

-----------------------------------------------------------------------------
(* The webhook's side: the ledger, the deliveries and what was paid.       *)

\* A delivery is handled while its event's row says so, of a Checkout that was paid;
\* only an event with a row is answered.
Held ==
    /\ \A h \in Handlers : /\ handler[h].pc # "idle" => session[handler[h].of] = "paid"
                           /\ handler[h].pc = "reclaim" => ledger[handler[h].of] # "none"
                           /\ Handled(h) => ledger[handler[h].of] = "progress"
    /\ \A m \in answered : ledger[m] # "none"
\* What has evidence was paid; what awaits its payment has a deadline.
Evident ==
    \A m \in Changes : /\ change[m].evidence => session[m] = "paid"
                       /\ change[m].status = "AWAITING_PAYMENT" => change[m].expires > 0

WebhookInv == Typed /\ Held /\ Evident /\ OneHandlerPerEvent

LEMMA InitWebhook == Init => Held /\ Evident /\ OneHandlerPerEvent
  BY DEF Init, Held, Evident, OneHandlerPerEvent, Handled, Idle, NoChange

\* A change keeps its evidence and its deadline.
EvidenceKept ==
    \A m \in Changes : /\ change'[m].evidence => change[m].evidence \/ session[m] = "paid"
                       /\ change'[m].status = "AWAITING_PAYMENT"
                            => change'[m].expires > 0
SessionsKept == \A m \in Changes : session[m] = "paid" => session'[m] = "paid"

LEMMA EvidentStep ==
    ASSUME Evident, EvidenceKept, SessionsKept
    PROVE  Evident'
  BY DEF Evident, EvidenceKept, SessionsKept

LEMMA StatusKept ==
    ASSUME Typed, Evident, NEW m \in Changes, NEW status, status # "AWAITING_PAYMENT",
           SetStatus(m, status)
    PROVE  EvidenceKept
  BY DEF Typed, Evident, EvidenceKept, SetStatus, ChangeRow

LEMMA NextEvident == WebhookInv /\ [Next]_vars => Evident'
  <1> SUFFICES ASSUME WebhookInv, [Next]_vars
               PROVE  EvidenceKept /\ SessionsKept
    BY EvidentStep DEF WebhookInv
  <1> USE DEF WebhookInv
  <1> USE ChangeAssumption
  <1>1. ASSUME UNCHANGED change PROVE EvidenceKept
    BY <1>1 DEF EvidenceKept, Evident
  <1>2. ASSUME UNCHANGED session PROVE SessionsKept
    BY <1>2 DEF SessionsKept
  <1>3. ASSUME NEW m \in Changes, Preview(m) \/ ConfirmRefused(m) \/ ConfirmAgain(m)
        PROVE  EvidenceKept /\ SessionsKept
    BY <1>1, <1>2, <1>3 DEF Preview, ConfirmRefused, ConfirmAgain
  <1>4. ASSUME NEW m \in Changes, Confirm(m) PROVE EvidenceKept /\ SessionsKept
    <2>1. PICK status \in InitialStatuses(m) :
            change' = [n \in Changes |->
              IF n = m
              THEN [NoChange EXCEPT !.status = status, !.from = request[m].stay,
                                    !.base = request[m].version,
                                    !.expires = Deadline(status)]
              ELSE IF n \in Rivals(m) /\ Lapsed(n)
                   THEN [change[n] EXCEPT !.status = "EXPIRED"]
              ELSE change[n]]
      BY <1>4 DEF Confirm
    <2>2. status = "AWAITING_PAYMENT" => Deadline(status) > 0
      BY DEF Deadline, Typed
    <2>3. /\ change'[m].evidence = FALSE /\ change'[m].status = status
          /\ change'[m].expires = Deadline(status)
      BY <2>1 DEF NoChange
    <2>4. ASSUME NEW n \in Changes \ {m}
          PROVE  \/ change'[n] = change[n]
                 \/ /\ change'[n].evidence = change[n].evidence
                    /\ change'[n].status = "EXPIRED"
      BY <2>1 DEF Typed, ChangeRow
    <2>5. EvidenceKept
      BY <2>2, <2>3, <2>4 DEF EvidenceKept, Evident
    <2> QED
      BY <1>2, <1>4, <2>5 DEF Confirm
  <1>5. ASSUME NEW m \in Changes, ApplyOrFail(m) PROVE EvidenceKept
    BY <1>1, <1>5, StatusKept DEF ApplyOrFail, Apply
  <1>6. ASSUME NEW m \in Changes, RequestChecks(m) \/ RequestApplies(m)
        PROVE  EvidenceKept /\ SessionsKept
    BY <1>1, <1>2, <1>5, <1>6 DEF RequestChecks, RequestApplies
  <1>7. ASSUME NEW m \in Changes,
               RetrieveCheckout(m) \/ StartCheckout(m) \/ CheckDates(m) \/ PriceChanged(m)
        PROVE  EvidenceKept /\ SessionsKept
    BY <1>1, <1>2, <1>7, StatusKept DEF RetrieveCheckout, StartCheckout, CheckDates, PriceChanged
  <1>8. ASSUME NEW m \in Changes, CreateSession(m) PROVE EvidenceKept /\ SessionsKept
    BY <1>1, <1>8 DEF CreateSession, SessionsKept, Typed
  <1>9. ASSUME NEW m \in Changes, PersistSession(m) PROVE EvidenceKept /\ SessionsKept
    <2>1. EvidenceKept
      BY <1>9 DEF PersistSession, EvidenceKept, Evident, Typed, ChangeRow
    <2> QED
      BY <1>2, <1>9, <2>1 DEF PersistSession
  <1>10. ASSUME NEW m \in Changes, Pay(m) \/ Settle(m) \/ SessionExpires(m)
         PROVE  EvidenceKept /\ SessionsKept
    BY <1>1, <1>10 DEF Pay, Settle, SessionExpires, Stripe, SetSession, SessionsKept, Typed
  <1>11. ASSUME NEW m \in Changes, DeliverDuplicate(m) \/ (\E h \in Handlers : Deliver(h, m))
         PROVE  EvidenceKept /\ SessionsKept
    BY <1>1, <1>2, <1>11 DEF DeliverDuplicate, Deliver
  <1>12. ASSUME NEW h \in Handlers,
                \/ Reclaim(h) \/ ReadChange(h) \/ RereadChange(h) \/ MarkProcessed(h)
                \/ HandlerChecks(h) \/ MarkFailed(h) \/ StepFails(h) \/ Crash(h)
         PROVE  EvidenceKept /\ SessionsKept
    BY <1>1, <1>2, <1>12
    DEF Reclaim, ReadChange, RereadChange, HandlerChecks, MarkProcessed, MarkFailed, StepFails,
        Crash, Handling
  <1>13. ASSUME NEW h \in Handlers, BeginProcessing(h) PROVE EvidenceKept /\ SessionsKept
    <2>1. handler[h].of \in Changes
      BY DEF Typed, HandlerRow
    <2> QED
      BY <1>1, <1>2, <1>13, <2>1, StatusKept DEF BeginProcessing, Handling
  <1>14. ASSUME NEW h \in Handlers, PersistEvidence(h) PROVE EvidenceKept /\ SessionsKept
    <2>1. handler[h].of \in Changes /\ session[handler[h].of] = "paid"
      BY <1>14 DEF Typed, HandlerRow, Held, PersistEvidence
    <2>2. EvidenceKept
      BY <1>14, <2>1 DEF PersistEvidence, EvidenceKept, Evident, Typed, ChangeRow
    <2> QED
      BY <1>2, <1>14, <2>2 DEF PersistEvidence, Handling
  <1>15. ASSUME NEW h \in Handlers, HandlerApplies(h) PROVE EvidenceKept /\ SessionsKept
    <2>1. handler[h].of \in Changes
      BY DEF Typed, HandlerRow
    <2> QED
      BY <1>1, <1>2, <1>5, <1>15, <2>1 DEF HandlerApplies, Handling
  <1>16. ASSUME NEW r \in Reservations, Ingest(r) \/ OtherWrite(r)
         PROVE  EvidenceKept /\ SessionsKept
    BY <1>1, <1>2, <1>16
    DEF Ingest, CheckBooking, Book, CheckMove, HostMoves, CommitRefused, OtherWrite, World
  <1>17. CASE Tick
    BY <1>1, <1>2, <1>17 DEF Tick, World
  <1>18. CASE UNCHANGED vars
    BY <1>1, <1>2, <1>18 DEF vars
  <1> QED
    BY <1>3, <1>4, <1>6, <1>7, <1>8, <1>9, <1>10, <1>11, <1>12, <1>13, <1>14, <1>15, <1>16, <1>17,
       <1>18
    DEF Next, Guest, Webhook

LEMMA NextHeld == WebhookInv /\ [Next]_vars => Held' /\ OneHandlerPerEvent'
  <1> SUFFICES ASSUME WebhookInv, [Next]_vars
               PROVE  Held' /\ OneHandlerPerEvent'
    OBVIOUS
  <1> USE DEF WebhookInv
  <1>1. ASSUME UNCHANGED <<ledger, answered, handler>>, SessionsKept
        PROVE  Held' /\ OneHandlerPerEvent'
    BY <1>1 DEF Held, OneHandlerPerEvent, Handled, SessionsKept, Typed, HandlerRow
  <1>2. ASSUME UNCHANGED session PROVE SessionsKept
    BY <1>2 DEF SessionsKept
  <1>3. ASSUME NEW m \in Changes,
               \/ Preview(m) \/ Confirm(m) \/ ConfirmRefused(m) \/ ConfirmAgain(m)
               \/ RequestChecks(m) \/ RequestApplies(m) \/ RetrieveCheckout(m)
               \/ StartCheckout(m) \/ CheckDates(m) \/ PriceChanged(m) \/ PersistSession(m)
        PROVE  Held' /\ OneHandlerPerEvent'
    BY <1>1, <1>2, <1>3
    DEF Preview, Confirm, ConfirmRefused, ConfirmAgain, RequestChecks, RequestApplies,
        RetrieveCheckout, StartCheckout, CheckDates, PriceChanged, PersistSession
  <1>4. ASSUME NEW m \in Changes,
               CreateSession(m) \/ Pay(m) \/ Settle(m) \/ SessionExpires(m)
        PROVE  Held' /\ OneHandlerPerEvent'
    <2>1. SessionsKept
      BY <1>4 DEF CreateSession, Pay, Settle, SessionExpires, SetSession, SessionsKept, Typed
    <2> QED
      BY <1>1, <1>4, <2>1 DEF CreateSession, Pay, Settle, SessionExpires, Stripe
  <1>5. ASSUME NEW m \in Changes, DeliverDuplicate(m) PROVE Held' /\ OneHandlerPerEvent'
    BY <1>5 DEF DeliverDuplicate, Held, OneHandlerPerEvent, Handled
  <1>6. ASSUME NEW h \in Handlers, NEW m \in Changes, Deliver(h, m)
        PROVE  Held' /\ OneHandlerPerEvent'
    <2>1. CASE ledger[m] = "none"
      <3>1. /\ handler' = [handler EXCEPT ![h] = [pc |-> "read", of |-> m]]
            /\ ledger' = [ledger EXCEPT ![m] = "progress"]
        BY <1>6, <2>1 DEF Deliver, Claimed
      <3>2. \A g \in Handlers : Handled(g) => handler[g].of # m
        BY <2>1 DEF Held
      <3>3. \A g \in Handlers \ {h} : handler'[g] = handler[g]
        BY <3>1 DEF Typed
      <3>4. handler'[h] = [pc |-> "read", of |-> m]
        BY <3>1 DEF Typed
      <3>5. ledger'[m] = "progress" /\ \A n \in Changes \ {m} : ledger'[n] = ledger[n]
        BY <3>1 DEF Typed
      <3>6. Held'
        BY <1>6, <3>3, <3>4, <3>5 DEF Deliver, Held, Handled, Typed, HandlerRow
      <3>7. OneHandlerPerEvent'
        BY <3>2, <3>3, <3>4 DEF OneHandlerPerEvent, Handled
      <3> QED
        BY <3>6, <3>7
    <2>2. CASE ledger[m] = "failed"
      <3>1. /\ handler' = [handler EXCEPT ![h] = [pc |-> "reclaim", of |-> m]]
            /\ UNCHANGED ledger
        BY <1>6, <2>2 DEF Deliver
      <3> QED
        BY <1>6, <2>2, <3>1 DEF Deliver, Held, OneHandlerPerEvent, Handled, Typed
    <2> QED
      BY <1>6, <2>1, <2>2 DEF Deliver
  <1>7. ASSUME NEW h \in Handlers, Reclaim(h) PROVE Held' /\ OneHandlerPerEvent'
    <2> DEFINE m == handler[h].of
    <2>1. m \in Changes /\ session[m] = "paid" /\ UNCHANGED session
      BY <1>7 DEF Reclaim, Held, Typed, HandlerRow
    <2>2. CASE Reclaimable(m)
      <3>1. \A g \in Handlers : Handled(g) => handler[g].of # m
        BY <2>2 DEF Reclaimable, Held
      <3>2. /\ ledger'[m] = "progress" /\ \A n \in Changes \ {m} : ledger'[n] = ledger[n]
            /\ UNCHANGED answered
        BY <1>7, <2>1, <2>2 DEF Reclaim, Claimed, Typed
      <3>3. /\ handler'[h].pc = "read" /\ handler'[h].of = m
            /\ \A g \in Handlers \ {h} : handler'[g] = handler[g]
        BY <1>7, <2>2 DEF Reclaim, Typed, HandlerRow
      <3>4. Held'
        BY <2>1, <3>2, <3>3 DEF Held, Handled, Typed, HandlerRow
      <3>5. OneHandlerPerEvent'
        BY <3>1, <3>3 DEF OneHandlerPerEvent, Handled
      <3> QED
        BY <3>4, <3>5
    <2>3. CASE ~Reclaimable(m)
      <3>1. ledger[m] # "none"
        BY <1>7 DEF Reclaim, Held
      <3>2. /\ handler'[h].pc = "idle" /\ \A g \in Handlers \ {h} : handler'[g] = handler[g]
            /\ UNCHANGED ledger /\ answered' = answered \cup {m}
        BY <1>7, <2>3 DEF Reclaim, Typed, Idle
      <3> QED
        BY <2>1, <3>1, <3>2 DEF Held, OneHandlerPerEvent, Handled
    <2> QED
      BY <2>2, <2>3
  <1>8. ASSUME NEW h \in Handlers, NEW pc, pc # "idle", Goto(h, pc),
               pc \notin {"idle", "reclaim"}, Handled(h), UNCHANGED <<session, ledger, answered>>
        PROVE  Held' /\ OneHandlerPerEvent'
    <2>1. /\ handler'[h].pc = pc /\ handler'[h].of = handler[h].of
          /\ \A g \in Handlers \ {h} : handler'[g] = handler[g]
      BY <1>8 DEF Goto, Typed, HandlerRow
    <2> QED
      BY <1>8, <2>1 DEF Held, OneHandlerPerEvent, Handled
  <1>9. ASSUME NEW h \in Handlers,
               \/ ReadChange(h) \/ BeginProcessing(h) \/ RereadChange(h) \/ PersistEvidence(h)
               \/ HandlerChecks(h) \/ HandlerApplies(h) \/ StepFails(h)
        PROVE  Held' /\ OneHandlerPerEvent'
    <2>1. Handled(h) /\ UNCHANGED <<session, ledger, answered>>
      BY <1>9 DEF ReadChange, BeginProcessing, RereadChange, PersistEvidence, HandlerChecks,
                  HandlerApplies, StepFails, Handling, Handled
    <2>2. \E pc \in {"begin", "reread", "evidence", "apply", "checked", "mark", "failing"} :
            Goto(h, pc)
      BY <1>9 DEF ReadChange, BeginProcessing, RereadChange, PersistEvidence, HandlerChecks,
                  HandlerApplies, StepFails, Follow
    <2> QED
      BY <1>8, <2>1, <2>2
  <1>10. ASSUME NEW h \in Handlers, MarkProcessed(h) \/ MarkFailed(h)
         PROVE  Held' /\ OneHandlerPerEvent'
    <2> DEFINE m == handler[h].of
    <2>1. m \in Changes /\ Handled(h) /\ UNCHANGED session
      BY <1>10 DEF MarkProcessed, MarkFailed, Handled, Handling, Typed, HandlerRow
    <2>2. \A g \in Handlers \ {h} : Handled(g) => handler[g].of # m
      BY <2>1 DEF OneHandlerPerEvent
    <2>3. /\ handler'[h].pc = "idle" /\ \A g \in Handlers \ {h} : handler'[g] = handler[g]
          /\ ledger'[m] # "none" /\ \A n \in Changes \ {m} : ledger'[n] = ledger[n]
          /\ answered' \subseteq answered \cup {m}
      BY <1>10, <2>1 DEF MarkProcessed, MarkFailed, Typed, Idle
    <2>4. Held'
      BY <2>1, <2>2, <2>3 DEF Held, Handled, Typed, HandlerRow
    <2> QED
      BY <2>3, <2>4 DEF OneHandlerPerEvent, Handled
  <1>11. ASSUME NEW h \in Handlers, Crash(h) PROVE Held' /\ OneHandlerPerEvent'
    <2>1. /\ handler'[h].pc = "idle" /\ \A g \in Handlers \ {h} : handler'[g] = handler[g]
      BY <1>11 DEF Crash, Typed, Idle
    <2> QED
      BY <1>11, <2>1 DEF Crash, Handling, Held, OneHandlerPerEvent, Handled
  <1>12. ASSUME NEW r \in Reservations, Ingest(r) \/ OtherWrite(r)
         PROVE  Held' /\ OneHandlerPerEvent'
    BY <1>1, <1>2, <1>12
    DEF Ingest, CheckBooking, Book, CheckMove, HostMoves, CommitRefused, OtherWrite, World
  <1>13. CASE Tick
    BY <1>1, <1>2, <1>13 DEF Tick, World
  <1>14. CASE UNCHANGED vars
    BY <1>1, <1>2, <1>14 DEF vars
  <1> QED
    BY <1>3, <1>4, <1>5, <1>6, <1>7, <1>9, <1>10, <1>11, <1>12, <1>13, <1>14
    DEF Next, Guest, Webhook

-----------------------------------------------------------------------------
(* The reservation's side: what is quoted, and one change at a time.       *)

\* A request under way is of a change that has no row yet.  Its version is not later
\* than the row's, and as long as it is the row's the stay it read is the stay.
Previewed ==
    \A m \in Changes : request[m].pc = "previewed" =>
      /\ change[m].status = "NONE" /\ Stay(m) # {}
      /\ request[m].version <= Version(m)
      /\ request[m].version = Version(m) => request[m].stay = Stay(m)
\* A reservation without nights was never booked, and has no change.
Stayed ==
    /\ \A r \in Reservations :
         reservation[r].stay = {} => ~reservation[r].active /\ reservation[r].collected = 0
    /\ \A m \in Changes : Active(m) => Stay(m) # {}

Inv == WebhookInv /\ Previewed /\ Stayed /\ OneActive /\ QuoteStands
StayInv == Previewed /\ Stayed /\ OneActive /\ QuoteStands

LEMMA InitStay == Init => StayInv
  <1> SUFFICES ASSUME Init PROVE StayInv
    OBVIOUS
  <1>1. \A m \in Changes : ~Active(m) /\ request[m].pc # "previewed"
    BY DEF Init, Active, ActiveStatuses, NoChange, NoRequest
  <1>2. \A r \in Reservations :
          reservation[r].stay = {} => ~reservation[r].active /\ reservation[r].collected = 0
    BY ChangeAssumption DEF Init
  <1> QED
    BY <1>1, <1>2 DEF StayInv, Previewed, Stayed, OneActive, QuoteStands

\* Nothing becomes active or starts to read, and no stay moves.
NothingStarts ==
    /\ \A m \in Changes : /\ Active(m)' => Active(m) /\ change'[m].from = change[m].from
                          /\ change[m].status = "NONE" => change'[m].status = "NONE"
    /\ \A m \in Changes : request'[m].pc = "previewed" => request'[m] = request[m]
NothingMoves == UNCHANGED reservation

LEMMA QuietStep ==
    ASSUME Inv, NothingStarts, NothingMoves
    PROVE  StayInv'
  <1> USE DEF Inv
  <1>1. \A m \in Changes : Stay(m)' = Stay(m) /\ Version(m)' = Version(m)
    BY DEF NothingMoves, Stay, Version
  <1>2. Previewed'
    BY <1>1 DEF Previewed, NothingStarts
  <1>3. Stayed'
    BY <1>1 DEF Stayed, NothingStarts, NothingMoves
  <1>4. OneActive'
    BY DEF OneActive, NothingStarts
  <1>5. QuoteStands'
    BY <1>1 DEF QuoteStands, NothingStarts
  <1> QED
    BY <1>2, <1>3, <1>4, <1>5 DEF StayInv

LEMMA SetStatusStarts ==
    ASSUME Typed, NEW m \in Changes, NEW status, SetStatus(m, status),
           change[m].status # "NONE", status \in ActiveStatuses => Active(m)
    PROVE  \A n \in Changes : /\ Active(n)' => Active(n) /\ change'[n].from = change[n].from
                              /\ change[n].status = "NONE" => change'[n].status = "NONE"
  <1>1. /\ change'[m].status = status /\ change'[m].from = change[m].from
        /\ \A n \in Changes \ {m} : change'[n] = change[n]
    BY DEF Typed, ChangeRow, SetStatus
  <1> QED
    BY <1>1 DEF Active

\* One row of a reservation is written, and no change starts.
LEMMA RowStep ==
    ASSUME Inv, NothingStarts, NEW r \in Reservations, NEW row \in ReservationRow, SetRow(r, row),
           row.version >= reservation[r].version,
           row.version = reservation[r].version => row.stay = reservation[r].stay,
           row.stay = {} => ~row.active /\ row.collected = 0,
           reservation[r].stay # {} => row.stay # {},
           \A m \in Changes : Of[m] = r /\ Active(m)' => row.stay = Stay(m)
    PROVE  StayInv'
  <1> USE DEF Inv
  <1> USE ChangeAssumption
  <1>1. reservation'[r] = row /\ \A s \in Reservations \ {r} : reservation'[s] = reservation[s]
    BY DEF SetRow, WebhookInv, Typed
  <1>2. \A m \in Changes : Of[m] \in Reservations
    OBVIOUS
  <1>3. \A m \in Changes : Active(m)' => Stay(m)' = Stay(m)
    BY <1>1, <1>2 DEF Stay
  <1>4. Previewed'
    <2> SUFFICES ASSUME NEW m \in Changes, request'[m].pc = "previewed"
                 PROVE  /\ change'[m].status = "NONE" /\ Stay(m)' # {}
                        /\ request'[m].version <= Version(m)'
                        /\ request'[m].version = Version(m)' => request'[m].stay = Stay(m)'
      BY DEF Previewed
    <2>1. request'[m] = request[m] /\ change'[m].status = "NONE"
      BY DEF NothingStarts, Previewed
    <2>2. CASE Of[m] = r
      <3>1. Stay(m)' = row.stay /\ Version(m)' = row.version
        BY <1>1, <2>2 DEF Stay, Version
      <3>2. request[m].version \in Nat /\ row.version \in Nat /\ reservation[r].version \in Nat
        BY DEF WebhookInv, Typed, RequestRow, ReservationRow
      <3> QED
        BY <2>1, <2>2, <3>1, <3>2 DEF Previewed, Stay, Version
    <2>3. CASE Of[m] # r
      BY <1>1, <1>2, <2>1, <2>3 DEF Previewed, Stay, Version
    <2> QED
      BY <2>2, <2>3
  <1>5. Stayed'
    <2>1. \A m \in Changes : Active(m)' => Stay(m)' # {}
      BY <1>3 DEF Stayed, NothingStarts
    <2> QED
      BY <1>1, <2>1 DEF Stayed
  <1>6. OneActive'
    BY DEF OneActive, NothingStarts
  <1>7. QuoteStands'
    BY <1>3 DEF QuoteStands, NothingStarts
  <1> QED
    BY <1>4, <1>5, <1>6, <1>7 DEF StayInv

LEMMA ApplyStep ==
    ASSUME Inv, NEW m \in Changes, ApplyOrFail(m),
           \A n \in Changes : request'[n].pc = "previewed" => request'[n] = request[n]
    PROVE  StayInv'
  <1> USE DEF Inv, WebhookInv
  <1> USE ChangeAssumption
  <1>1. CASE UNCHANGED <<reservation, change>>
    BY <1>1, QuietStep DEF NothingStarts, NothingMoves, Active
  <1>2. CASE Apply(m)
    <2> DEFINE row == [Touched(Of[m]) EXCEPT !.stay = Proposed[m], !.collected = @ + Charge(m)]
    <2>1. Of[m] \in Reservations
      OBVIOUS
    <2>2. row \in ReservationRow
      BY <2>1, AppliedRow
    <2>3. row.version = reservation[Of[m]].version + 1 /\ row.stay = Proposed[m]
      BY <2>1, TouchedRow DEF ReservationRow
    <2>4. row.stay # {} /\ reservation[Of[m]].version \in Nat
      BY <2>1, <2>3 DEF Typed, ReservationRow
    <2>5. NothingStarts
      BY <1>2, SetStatusStarts DEF Apply, NothingStarts, Applicable, ActiveStatuses
    <2>6. \A n \in Changes : Of[n] = Of[m] => ~Active(n)'
      <3>1. change'[m].status = "APPLIED"
        BY <1>2 DEF Apply, SetStatus, Typed, ChangeRow
      <3>2. Active(m) /\ ~Active(m)'
        BY <1>2, <3>1 DEF Apply, Applicable, Active, ActiveStatuses
      <3> QED
        BY <2>5, <3>2 DEF OneActive, NothingStarts
    <2>7. SetRow(Of[m], row)
      BY <1>2 DEF Apply
    <2> HIDE DEF row
    <2> QED
      BY <2>1, <2>2, <2>3, <2>4, <2>5, <2>6, <2>7, RowStep
  <1> QED
    BY <1>1, <1>2 DEF ApplyOrFail

LEMMA ConfirmStep ==
    ASSUME Inv, NEW m \in Changes, Confirm(m)
    PROVE  StayInv'
  <1> USE DEF Inv, WebhookInv
  <1> USE ChangeAssumption
  <1>1. PICK status \in InitialStatuses(m) :
          /\ change' = [n \in Changes |->
               IF n = m
               THEN [NoChange EXCEPT !.status = status, !.from = request[m].stay,
                                     !.base = request[m].version,
                                     !.expires = Deadline(status)]
               ELSE IF n \in Rivals(m) /\ Lapsed(n)
                    THEN [change[n] EXCEPT !.status = "EXPIRED"]
               ELSE change[n]]
          /\ request' = [request EXCEPT
               ![m] = [NoRequest EXCEPT !.pc = IF status = "APPLYING" THEN "apply" ELSE "none"]]
    BY DEF Confirm
  <1>2. /\ change'[m].from = request[m].stay /\ change'[m].status = status
        /\ request'[m].pc # "previewed" /\ UNCHANGED reservation
        /\ \A n \in Changes \ {m} : request'[n] = request[n]
    BY <1>1 DEF NoChange, NoRequest, Confirm, Typed
  <1>3. ASSUME NEW n \in Changes \ {m}
        PROVE  /\ change'[n] = change[n] \/ change'[n].status = "EXPIRED"
               /\ n \in Rivals(m) /\ Lapsed(n) => change'[n].status = "EXPIRED"
               /\ change[n].status = "NONE" => change'[n] = change[n]
    BY <1>1 DEF Typed, ChangeRow, Lapsed
  <1>4. \A n \in Rivals(m) : ~Active(n)'
    BY <1>3 DEF Confirm, Rivals, Active, ActiveStatuses
  <1>5. /\ Stay(m)' = Stay(m) /\ Stay(m) # {} /\ request[m].stay = Stay(m)
        /\ \A n \in Changes : Stay(n)' = Stay(n) /\ Version(n)' = Version(n)
    BY <1>2 DEF Confirm, Fresh, Previewed, Stay, Version
  <1>6. \A n \in Changes \ {m} : Active(n)' => Active(n) /\ change'[n] = change[n]
    BY <1>3 DEF Active, ActiveStatuses
  <1>7. Previewed'
    BY <1>2, <1>3, <1>5 DEF Previewed
  <1>8. Stayed'
    BY <1>2, <1>5, <1>6 DEF Stayed
  <1>9. OneActive'
    BY <1>4, <1>6 DEF OneActive, Rivals
  <1>10. QuoteStands'
    BY <1>2, <1>5, <1>6 DEF QuoteStands
  <1> QED
    BY <1>7, <1>8, <1>9, <1>10 DEF StayInv

LEMMA NextStay == Inv /\ [Next]_vars => StayInv'
  <1> SUFFICES ASSUME Inv, [Next]_vars
               PROVE  StayInv'
    OBVIOUS
  <1> USE DEF Inv, WebhookInv
  <1> USE ChangeAssumption
  <1>1. ASSUME UNCHANGED change, UNCHANGED request PROVE NothingStarts
    BY <1>1 DEF NothingStarts, Active
  <1>2. ASSUME UNCHANGED change, UNCHANGED request, UNCHANGED reservation PROVE StayInv'
    BY <1>1, <1>2, QuietStep DEF NothingMoves
  <1>3. ASSUME NEW m \in Changes, Preview(m) PROVE StayInv'
    <2>1. /\ request'[m] = [pc |-> "previewed", version |-> Version(m), stay |-> Stay(m)]
          /\ \A n \in Changes \ {m} : request'[n] = request[n]
          /\ UNCHANGED <<change, reservation>> /\ change[m].status = "NONE"
      BY <1>3 DEF Preview, Typed
    <2>2. Stay(m) # {}
      BY <1>3 DEF Preview, Modifiable, Stayed, Stay
    <2>3. \A n \in Changes : Stay(n)' = Stay(n) /\ Version(n)' = Version(n)
      BY <2>1 DEF Stay, Version
    <2>4. Version(m) \in Nat
      BY DEF Version, Typed, ReservationRow
    <2>5. Previewed'
      BY <2>1, <2>2, <2>3, <2>4 DEF Previewed
    <2>6. Stayed' /\ OneActive' /\ QuoteStands'
      BY <2>1, <2>3 DEF Stayed, OneActive, QuoteStands, Active
    <2> QED
      BY <2>5, <2>6 DEF StayInv
  <1>4. ASSUME NEW m \in Changes, Confirm(m) PROVE StayInv'
    BY <1>4, ConfirmStep
  <1>5. ASSUME NEW m \in Changes, ConfirmRefused(m) \/ ConfirmAgain(m) PROVE StayInv'
    <2>1. /\ request'[m].pc # "previewed" /\ \A n \in Changes \ {m} : request'[n] = request[n]
          /\ UNCHANGED <<change, reservation>>
      BY <1>5 DEF ConfirmRefused, ConfirmAgain, Typed, RequestRow, NoRequest
    <2> QED
      BY <2>1, QuietStep DEF NothingStarts, NothingMoves, Active
  <1>6. ASSUME NEW m \in Changes, RequestChecks(m) \/ RequestApplies(m) PROVE StayInv'
    <2>1. /\ request'[m].pc # "previewed" /\ \A n \in Changes \ {m} : request'[n] = request[n]
      BY <1>6 DEF RequestChecks, RequestApplies, Typed, RequestRow
    <2>2. CASE RequestApplies(m)
      BY <2>1, <2>2, ApplyStep DEF RequestApplies
    <2>3. CASE RequestChecks(m)
      BY <2>1, <2>3, QuietStep DEF RequestChecks, NothingStarts, NothingMoves, Active
    <2> QED
      BY <1>6, <2>2, <2>3
  <1>7. ASSUME NEW m \in Changes, NEW status, SetStatus(m, status), change[m].status # "NONE",
               status \in ActiveStatuses => Active(m), UNCHANGED <<request, reservation>>
        PROVE  StayInv'
    BY <1>7, SetStatusStarts, QuietStep DEF NothingStarts, NothingMoves
  <1>8. ASSUME NEW m \in Changes,
               RetrieveCheckout(m) \/ StartCheckout(m) \/ CheckDates(m) \/ PriceChanged(m)
        PROVE  StayInv'
    BY <1>2, <1>7, <1>8
    DEF RetrieveCheckout, StartCheckout, CheckDates, PriceChanged, ActiveStatuses
  <1>9. ASSUME NEW m \in Changes, PersistSession(m) PROVE StayInv'
    <2>1. \A n \in Changes : change'[n].status = change[n].status /\ change'[n].from = change[n].from
      BY <1>9 DEF PersistSession, Typed, ChangeRow
    <2> QED
      BY <1>9, <2>1, QuietStep DEF PersistSession, NothingStarts, NothingMoves, Active
  <1>10. ASSUME NEW m \in Changes,
                \/ CreateSession(m) \/ Pay(m) \/ Settle(m) \/ SessionExpires(m)
                \/ DeliverDuplicate(m) \/ (\E h \in Handlers : Deliver(h, m))
         PROVE  StayInv'
    BY <1>2, <1>10
    DEF CreateSession, Pay, Settle, SessionExpires, Stripe, DeliverDuplicate, Deliver
  <1>11. ASSUME NEW h \in Handlers,
                \/ Reclaim(h) \/ ReadChange(h) \/ RereadChange(h) \/ MarkProcessed(h)
                \/ HandlerChecks(h) \/ MarkFailed(h) \/ StepFails(h) \/ Crash(h)
         PROVE  StayInv'
    BY <1>2, <1>11
    DEF Reclaim, ReadChange, RereadChange, HandlerChecks, MarkProcessed, MarkFailed, StepFails,
        Crash, Handling
  <1>12. ASSUME NEW h \in Handlers, BeginProcessing(h) PROVE StayInv'
    <2>1. handler[h].of \in Changes
      BY DEF Typed, HandlerRow
    <2> QED
      BY <1>2, <1>7, <1>12, <2>1 DEF BeginProcessing, Handling, Active, ActiveStatuses
  <1>13. ASSUME NEW h \in Handlers, PersistEvidence(h) PROVE StayInv'
    <2> DEFINE m == handler[h].of
    <2>1. m \in Changes
      BY DEF Typed, HandlerRow
    <2>2. \A n \in Changes : \/ change'[n] = change[n]
                             \/ /\ change[n].status = "PAYMENT_PROCESSING"
                                /\ change'[n].from = change[n].from
      BY <1>13, <2>1 DEF PersistEvidence, Typed, ChangeRow
    <2> QED
      BY <1>13, <2>2, QuietStep
      DEF PersistEvidence, Handling, NothingStarts, NothingMoves, Active, ActiveStatuses
  <1>14. ASSUME NEW h \in Handlers, HandlerApplies(h) PROVE StayInv'
    <2>1. handler[h].of \in Changes
      BY DEF Typed, HandlerRow
    <2> QED
      BY <1>2, <1>14, <2>1, ApplyStep DEF HandlerApplies, Handling
  <1>15. ASSUME NEW r \in Reservations, Book(r) PROVE StayInv'
    <2> DEFINE row == [Touched(r) EXCEPT !.stay = FirstStay[r], !.active = TRUE,
                                        !.collected = Price(r, FirstStay[r])]
    <2>1. /\ row \in ReservationRow /\ row.stay = FirstStay[r]
          /\ row.version = reservation[r].version + 1 /\ reservation[r].version \in Nat
      <3>1. /\ Touched(r) \in ReservationRow /\ FirstStay[r] \in Stays
            /\ Price(r, FirstStay[r]) \in Nat
            /\ Touched(r).version = reservation[r].version + 1
        BY PriceType, TouchedRow
      <3>2. reservation[r].version \in Nat
        BY DEF ReservationRow, Typed
      <3>3. row \in ReservationRow /\ row.stay = FirstStay[r] /\ row.version = Touched(r).version
        BY <3>1 DEF ReservationRow
      <3> QED
        BY <3>1, <3>2, <3>3
    <2>2. FirstStay[r] # {} /\ reservation[r].stay = {} /\ SetRow(r, row)
      BY <1>15 DEF Book
    <2>3. NothingStarts
      BY <1>1, <1>15 DEF Book, World
    <2>4. \A m \in Changes : Of[m] = r => ~Active(m)'
      BY <2>2, <2>3 DEF Stayed, Stay, NothingStarts
    <2> HIDE DEF row
    <2> QED
      BY <2>1, <2>2, <2>3, <2>4, RowStep
  <1>16. ASSUME NEW r \in Reservations, HostMoves(r) PROVE StayInv'
    <2> DEFINE row == [Touched(r) EXCEPT !.stay = MoveTo[r]]
    <2>1. /\ row \in ReservationRow /\ row.stay = MoveTo[r] /\ MoveTo[r] # {}
          /\ row.version = reservation[r].version + 1 /\ reservation[r].version \in Nat
      <3>1. /\ Touched(r) \in ReservationRow
            /\ Touched(r).version = reservation[r].version + 1
        BY TouchedRow
      <3>2. reservation[r].version \in Nat
        BY DEF ReservationRow, Typed
      <3>3. MoveTo[r] \in Stays /\ MoveTo[r] # {}
        BY <1>16 DEF HostMoves, Stays
      <3>4. row \in ReservationRow /\ row.stay = MoveTo[r] /\ row.version = Touched(r).version
        BY <3>1, <3>3 DEF ReservationRow
      <3> QED
        BY <3>1, <3>2, <3>3, <3>4
    <2>2. SetRow(r, row) /\ \A m \in Changes : Of[m] # r
      BY <1>16 DEF HostMoves
    <2>4. reservation[r].stay # {}
      BY <1>16 DEF HostMoves, Stayed
    <2>3. NothingStarts
      BY <1>1, <1>16 DEF HostMoves, World
    <2> HIDE DEF row
    <2> QED
      BY <2>1, <2>2, <2>3, RowStep
  <1>20. ASSUME NEW r \in Reservations, CheckBooking(r) \/ CheckMove(r) \/ CommitRefused(r)
         PROVE  StayInv'
    BY <1>2, <1>20 DEF CheckBooking, CheckMove, CommitRefused, World
  <1>17. ASSUME NEW r \in Reservations, OtherWrite(r) PROVE StayInv'
    <2>1. NothingStarts
      BY <1>1, <1>17 DEF OtherWrite, World
    <2>2. /\ reservation[r].active /\ reservation[r].version \in Nat
          /\ reservation[r] \in ReservationRow /\ reservation[r].stay # {}
      BY <1>17 DEF OtherWrite, Typed, ReservationRow, Stayed
    <2>3. PICK row : /\ SetRow(r, row) /\ row \in ReservationRow
                     /\ row.stay = reservation[r].stay /\ row.version >= reservation[r].version
      <3>1. CASE SetRow(r, Touched(r))
        BY <2>2, <3>1, TouchedRow
      <3>2. CASE SetRow(r, [Touched(r) EXCEPT !.active = FALSE])
        <4> DEFINE new == [Touched(r) EXCEPT !.active = FALSE]
        <4>1. /\ new \in ReservationRow /\ new.stay = reservation[r].stay
              /\ new.version = reservation[r].version + 1
          BY TouchedRow DEF ReservationRow
        <4>2. SetRow(r, new)
          BY <3>2
        <4> HIDE DEF new
        <4> QED
          BY <2>2, <4>1, <4>2
      <3>3. CASE SetRow(r, [reservation[r] EXCEPT !.begun = TRUE])
        <4> DEFINE new == [reservation[r] EXCEPT !.begun = TRUE]
        <4>1. /\ new \in ReservationRow /\ new.stay = reservation[r].stay
              /\ new.version = reservation[r].version
          BY <2>2 DEF ReservationRow
        <4>2. SetRow(r, new)
          BY <3>3
        <4> HIDE DEF new
        <4> QED
          BY <2>2, <4>1, <4>2
      <3> QED
        BY <1>17, <3>1, <3>2, <3>3 DEF OtherWrite
    <2>4. \A m \in Changes : Of[m] = r => row.stay = Stay(m)
      BY <2>3 DEF Stay
    <2> QED
      BY <2>1, <2>2, <2>3, <2>4, RowStep
  <1>18. CASE Tick
    BY <1>2, <1>18 DEF Tick, World
  <1>19. CASE UNCHANGED vars
    BY <1>2, <1>19 DEF vars
  <1> QED
    BY <1>3, <1>4, <1>5, <1>6, <1>8, <1>9, <1>10, <1>11, <1>12, <1>13, <1>14, <1>15, <1>16, <1>17,
       <1>18, <1>19, <1>20
    DEF Next, Guest, Webhook, Ingest

-----------------------------------------------------------------------------
(* The theorems.                                                           *)

\* The invariant the results below rest on: types, the webhook's side, the stays.
THEOREM Invariance == Spec => []Inv
  <1>1. Init => Inv
    BY InitTyped, InitWebhook, InitStay DEF Inv, WebhookInv, StayInv
  <1>2. Inv /\ [Next]_vars => Inv'
    BY NextTyped, NextHeld, NextEvident, NextStay DEF Inv, WebhookInv, StayInv
  <1> QED
    BY <1>1, <1>2, PTL DEF Spec

\* Rows are of their types, with deadlines and evidence where they belong.
THEOREM Types == Spec => []TypeOK
  <1>1. Inv => TypeOK
    BY DEF Inv, WebhookInv, Typed, Held, Evident, TypeOK, ChangeRow
  <1> QED
    BY <1>1, Invariance, PTL

\* A reservation has one change under way.
THEOREM OneChangeAtATime == Spec => []OneActive
  <1>1. Inv => OneActive
    BY DEF Inv
  <1> QED
    BY <1>1, Invariance, PTL

\* A change under way quotes the stay as it is.
THEOREM QuotesStand == Spec => []QuoteStands
  <1>1. Inv => QuoteStands
    BY DEF Inv
  <1> QED
    BY <1>1, Invariance, PTL

\* An event has one delivery being handled.
THEOREM OneDelivery == Spec => []OneHandlerPerEvent
  <1>1. Inv => OneHandlerPerEvent
    BY DEF Inv, WebhookInv
  <1> QED
    BY <1>1, Invariance, PTL

-----------------------------------------------------------------------------
(* The refinement.                                                         *)

Shown(r) == IF reservation[r].active THEN reservation[r].stay ELSE {}
ShownStay == [r \in Reservations |-> Shown(r)]
ShownCollected == [r \in Reservations |-> reservation[r].collected]
ShownPaid == {m \in Changes : session[m] = "paid"}
ShownApplied == {m \in Changes : change[m].status = "APPLIED"}
ShownVars == <<ShownStay, ShownCollected, ShownPaid, ShownApplied>>

LEMMA SameVars == UNCHANGED ShownVars => UNCHANGED Promise!vars
  BY DEF Promise!vars, ShownVars, ShownStay, Shown, ShownCollected, ShownPaid, ShownApplied

\* What keeps the applied changes.
LEMMA AppliedKept ==
    ASSUME Typed, NEW m \in Changes, NEW status, SetStatus(m, status), status # "APPLIED",
           change[m].status # "APPLIED"
    PROVE  UNCHANGED ShownApplied
  BY DEF Typed, ChangeRow, SetStatus, ShownApplied

LEMMA ChangesKept ==
    ASSUME \A m \in Changes : change'[m].status = "APPLIED" <=> change[m].status = "APPLIED"
    PROVE  UNCHANGED ShownApplied
  BY DEF ShownApplied

LEMMA Shows ==
    ASSUME Typed, UNCHANGED reservation
    PROVE  UNCHANGED ShownStay /\ UNCHANGED ShownCollected
  BY DEF ShownStay, Shown, ShownCollected

LEMMA FreeIs ==
    ASSUME NEW r \in Reservations, NEW nights, ~Occupied(nights, r)
    PROVE  Promise!Free(nights, r)
  BY DEF Occupied, Promise!Free

LEMMA ShownRow ==
    ASSUME Typed, NEW r \in Reservations, NEW row \in ReservationRow, SetRow(r, row)
    PROVE  /\ ShownStay' = [ShownStay EXCEPT ![r] = IF row.active THEN row.stay ELSE {}]
           /\ ShownCollected' = [ShownCollected EXCEPT ![r] = row.collected]
  BY DEF Typed, SetRow, ShownStay, Shown, ShownCollected

LEMMA MaxIs == \A k : Promise!Max({0, k}) = Max({0, k})
  BY DEF Max, Promise!Max

LEMMA CardinalityIs == \A S : Promise!Cardinality(S) = Cardinality(S)
  BY DEF Cardinality, Promise!Cardinality

LEMMA ShownApply ==
    ASSUME NEW m \in Changes,
           m \notin ShownApplied, ShownStay[Of[m]] # {}, Promise!Free(Proposed[m], Of[m]),
           Promise!Difference(m) > 0 => m \in ShownPaid,
           ShownApplied' = ShownApplied \cup {m},
           ShownStay' = [ShownStay EXCEPT ![Of[m]] = Proposed[m]],
           ShownCollected' = [ShownCollected EXCEPT
             ![Of[m]] = @ + Max({0, Promise!Difference(m)})],
           UNCHANGED ShownPaid
    PROVE  Promise!Apply(m)
  BY MaxIs DEF Promise!Apply, ShownStay, Shown, ShownCollected, ShownPaid, ShownApplied

LEMMA ApplyShows ==
    ASSUME Inv, NEW m \in Changes, ApplyOrFail(m), UNCHANGED session
    PROVE  Promise!Apply(m) \/ UNCHANGED ShownVars
  <1> USE DEF Inv, WebhookInv
  <1>1. CASE UNCHANGED <<reservation, change>>
    BY <1>1 DEF ShownVars, ShownStay, Shown, ShownCollected, ShownPaid, ShownApplied
  <1>2. CASE Apply(m)
    <2> DEFINE row == [Touched(Of[m]) EXCEPT !.stay = Proposed[m], !.collected = @ + Charge(m)]
    <2>1. Of[m] \in Reservations /\ reservation[Of[m]] \in ReservationRow
      BY ChangeAssumption DEF Typed
    <2>2. /\ row \in ReservationRow /\ row.stay = Proposed[m]
          /\ row.active = reservation[Of[m]].active
          /\ row.collected = reservation[Of[m]].collected + Charge(m)
      BY <2>1, AppliedRow, TouchedRow DEF ReservationRow
    <2>3. SetRow(Of[m], row)
      BY <1>2 DEF Apply
    <2>4. /\ reservation[Of[m]].active /\ reservation[Of[m]].stay = change[m].from
          /\ change[m].status = "APPLYING" /\ ~Occupied(Proposed[m], Of[m])
          /\ Charge(m) > 0 => session[m] = "paid"
      BY <1>2 DEF Apply, Applicable, Stay, Evident
    <2> HIDE DEF row
    <2>5. /\ ShownStay' = [ShownStay EXCEPT ![Of[m]] = Proposed[m]]
          /\ ShownCollected' = [ShownCollected EXCEPT
               ![Of[m]] = reservation[Of[m]].collected + Charge(m)]
      BY <2>1, <2>2, <2>3, <2>4, ShownRow
    <2>6. ShownStay[Of[m]] = change[m].from /\ ShownStay[Of[m]] # {}
      BY <2>1, <2>4 DEF ShownStay, Shown, Stayed
    <2>7. Promise!Difference(m) = Cardinality(Proposed[m]) - Cardinality(change[m].from)
      BY <2>1, <2>4, CardinalityIs DEF Promise!Difference
    <2>8. Charge(m) = Max({0, Promise!Difference(m)})
      BY <2>7 DEF Charge
    <2>9. Promise!Difference(m) > 0 => session[m] = "paid"
      <3>1. Cardinality(Proposed[m]) \in Nat /\ Cardinality(change[m].from) \in Nat
        BY StayFinite DEF Typed, ChangeRow, Stays
      <3>2. Promise!Difference(m) > 0 => Charge(m) > 0
        BY <2>7, <2>8, <3>1, MaxZero, MaxPositive
      <3> QED
        BY <2>4, <3>2
    <2>10. ShownApplied' = ShownApplied \cup {m} /\ m \notin ShownApplied
      BY <1>2, <2>4 DEF Apply, ShownApplied, SetStatus, Typed, ChangeRow
    <2>11. Promise!Free(Proposed[m], Of[m])
      BY <2>1, <2>4, FreeIs
    <2>12. UNCHANGED ShownPaid
      BY DEF ShownPaid
    <2>13. ShownCollected' = [ShownCollected EXCEPT
             ![Of[m]] = @ + Max({0, Promise!Difference(m)})]
      BY <2>1, <2>5, <2>8 DEF ShownCollected
    <2>14. m \in ShownPaid <=> session[m] = "paid"
      BY DEF ShownPaid
    <2> QED
      BY <2>5, <2>6, <2>9, <2>10, <2>11, <2>12, <2>13, <2>14, ShownApply
  <1> QED
    BY <1>1, <1>2 DEF ApplyOrFail

LEMMA ShownInit == Init => Promise!Init
  <1> SUFFICES ASSUME Init PROVE Promise!Init
    OBVIOUS
  <1>1. \A r \in Reservations :
          /\ Shown(r) = IF r \in Booked THEN FirstStay[r] ELSE {}
          /\ reservation[r].collected = IF r \in Booked THEN Price(r, FirstStay[r]) ELSE 0
    BY DEF Init, Shown
  <1>2. ShownStay = [r \in Reservations |-> IF r \in Booked THEN FirstStay[r] ELSE {}]
    BY <1>1 DEF ShownStay
  <1>3. \A r \in Reservations : Promise!Price(r, FirstStay[r]) = Price(r, FirstStay[r])
    BY CardinalityIs DEF Price, Promise!Price
  <1>4. ShownCollected =
          [r \in Reservations |-> IF r \in Booked THEN Promise!Price(r, FirstStay[r]) ELSE 0]
    BY <1>1, <1>3 DEF ShownCollected
  <1>5. ShownPaid = {} /\ ShownApplied = {}
    BY DEF Init, NoChange, ShownPaid, ShownApplied
  <1> QED
    BY <1>2, <1>4, <1>5
    DEF Promise!Init, ShownStay, Shown, ShownCollected, ShownPaid, ShownApplied

LEMMA ShownBook ==
    ASSUME Inv, NEW r \in Reservations, Book(r)
    PROVE  Promise!Book(r)
  <1> USE DEF Inv, WebhookInv
  <1> DEFINE row == [Touched(r) EXCEPT !.stay = FirstStay[r], !.active = TRUE,
                                      !.collected = Price(r, FirstStay[r])]
  <1>1. /\ row \in ReservationRow /\ row.stay = FirstStay[r] /\ row.active
        /\ row.collected = Price(r, FirstStay[r])
    BY PriceType, TouchedRow DEF ReservationRow
  <1>2. SetRow(r, row) /\ r \notin Booked /\ ~Occupied(FirstStay[r], r)
    BY DEF Book
  <1> HIDE DEF row
  <1>3. /\ ShownStay' = [ShownStay EXCEPT ![r] = FirstStay[r]]
        /\ ShownCollected' = [ShownCollected EXCEPT ![r] = Price(r, FirstStay[r])]
    BY <1>1, <1>2, ShownRow
  <1>4. ShownStay[r] = {} /\ ShownCollected[r] = 0
    BY DEF Book, Stayed, ShownStay, Shown, ShownCollected
  <1>5. Promise!Free(FirstStay[r], r) /\ Promise!Price(r, FirstStay[r]) = Price(r, FirstStay[r])
    BY <1>2, FreeIs, CardinalityIs DEF Price, Promise!Price
  <1>6. UNCHANGED <<ShownPaid, ShownApplied>>
    BY DEF Book, World, ShownPaid, ShownApplied
  <1> QED
    BY <1>2, <1>3, <1>4, <1>5, <1>6
    DEF Promise!Book, ShownStay, Shown, ShownCollected, ShownPaid, ShownApplied

LEMMA ShownMove ==
    ASSUME Inv, NEW r \in Reservations, HostMoves(r)
    PROVE  Promise!Move(r)
  <1> USE DEF Inv, WebhookInv
  <1> DEFINE row == [Touched(r) EXCEPT !.stay = MoveTo[r]]
  <1>1. /\ row \in ReservationRow /\ row.stay = MoveTo[r] /\ row.active
        /\ row.collected = reservation[r].collected
    BY TouchedRow DEF ReservationRow, HostMoves, Stays
  <1>2. SetRow(r, row) /\ r \in Manual /\ ~Occupied(MoveTo[r], r)
    BY DEF HostMoves
  <1> HIDE DEF row
  <1>3. /\ ShownStay' = [ShownStay EXCEPT ![r] = MoveTo[r]]
        /\ ShownCollected' = [ShownCollected EXCEPT ![r] = reservation[r].collected]
    BY <1>1, <1>2, ShownRow
  <1>4. ShownStay[r] # {} /\ ShownCollected' = ShownCollected
    BY <1>3 DEF HostMoves, Stayed, ShownStay, Shown, ShownCollected
  <1>5. Promise!Free(MoveTo[r], r)
    BY <1>2, FreeIs
  <1>6. UNCHANGED <<ShownPaid, ShownApplied>>
    BY DEF HostMoves, World, ShownPaid, ShownApplied
  <1> QED
    BY <1>2, <1>3, <1>4, <1>5, <1>6
    DEF Promise!Move, ShownStay, Shown, ShownCollected, ShownPaid, ShownApplied

LEMMA ShownWrite ==
    ASSUME Inv, NEW r \in Reservations, OtherWrite(r)
    PROVE  Promise!Cancel(r) \/ UNCHANGED ShownVars
  <1> USE DEF Inv, WebhookInv
  <1>1. reservation[r] \in ReservationRow /\ UNCHANGED <<ShownPaid, ShownApplied>>
    BY DEF Typed, OtherWrite, World, ShownPaid, ShownApplied
  <1>2. PICK row : /\ SetRow(r, row) /\ row \in ReservationRow
                   /\ row.collected = reservation[r].collected
                   /\ \/ ~row.active
                      \/ row.active = reservation[r].active /\ row.stay = reservation[r].stay
    <2>1. CASE SetRow(r, Touched(r))
      BY <2>1, TouchedRow
    <2>2. CASE SetRow(r, [Touched(r) EXCEPT !.active = FALSE])
      <3> DEFINE new == [Touched(r) EXCEPT !.active = FALSE]
      <3>1. new \in ReservationRow /\ new.collected = reservation[r].collected /\ ~new.active
        BY TouchedRow DEF ReservationRow
      <3>2. SetRow(r, new)
        BY <2>2
      <3> HIDE DEF new
      <3> QED
        BY <3>1, <3>2
    <2>3. CASE SetRow(r, [reservation[r] EXCEPT !.begun = TRUE])
      <3> DEFINE new == [reservation[r] EXCEPT !.begun = TRUE]
      <3>1. /\ new \in ReservationRow /\ new.collected = reservation[r].collected
            /\ new.active = reservation[r].active /\ new.stay = reservation[r].stay
        BY <1>1 DEF ReservationRow
      <3>2. SetRow(r, new)
        BY <2>3
      <3> HIDE DEF new
      <3> QED
        BY <3>1, <3>2
    <2> QED
      BY <2>1, <2>2, <2>3 DEF OtherWrite
  <1>3. ShownCollected' = ShownCollected
    BY <1>2, ShownRow DEF ShownCollected
  <1>4. CASE ~row.active
    <2>1. ShownStay' = [ShownStay EXCEPT ![r] = {}]
      BY <1>2, <1>4, ShownRow
    <2> QED
      BY <1>1, <1>3, <2>1
      DEF Promise!Cancel, ShownStay, Shown, ShownCollected, ShownPaid, ShownApplied
  <1>5. CASE row.active = reservation[r].active /\ row.stay = reservation[r].stay
    <2>1. ShownStay' = ShownStay
      <3>1. reservation'[r] = row /\ \A s \in Reservations \ {r} : reservation'[s] = reservation[s]
        BY <1>2 DEF SetRow, Typed
      <3>2. \A s \in Reservations : Shown(s)' = Shown(s)
        BY <1>5, <3>1 DEF Shown
      <3> QED
        BY <3>2 DEF ShownStay
    <2> QED
      BY <1>1, <1>3, <2>1 DEF ShownVars
  <1> QED
    BY <1>2, <1>4, <1>5

LEMMA ShownStep == Inv /\ [Next]_vars => [Promise!Next]_ShownVars
  <1> SUFFICES ASSUME Inv, [Next]_vars
               PROVE  [Promise!Next]_ShownVars
    OBVIOUS
  <1> USE DEF Inv, WebhookInv
  <1>1. ASSUME UNCHANGED <<reservation, session>>, UNCHANGED ShownApplied
        PROVE  UNCHANGED ShownVars
    BY <1>1, Shows DEF ShownVars, ShownPaid
  <1>2. ASSUME UNCHANGED change PROVE UNCHANGED ShownApplied
    BY <1>2 DEF ShownApplied
  <1>3. ASSUME NEW m \in Changes,
               Preview(m) \/ ConfirmRefused(m) \/ ConfirmAgain(m) \/ RequestChecks(m)
        PROVE  UNCHANGED ShownVars
    BY <1>1, <1>2, <1>3 DEF Preview, ConfirmRefused, ConfirmAgain, RequestChecks
  <1>4. ASSUME NEW m \in Changes, Confirm(m) PROVE UNCHANGED ShownVars
    <2>1. change[m].status = "NONE"
      BY <1>4 DEF Confirm, Previewed
    <2>2. PICK status \in InitialStatuses(m) :
            change' = [n \in Changes |->
              IF n = m
              THEN [NoChange EXCEPT !.status = status, !.from = request[m].stay,
                                    !.base = request[m].version,
                                    !.expires = Deadline(status)]
              ELSE IF n \in Rivals(m) /\ Lapsed(n)
                   THEN [change[n] EXCEPT !.status = "EXPIRED"]
              ELSE change[n]]
      BY <1>4 DEF Confirm
    <2>3. change'[m].status = status /\ status # "APPLIED"
      BY <2>2 DEF NoChange, InitialStatuses
    <2>4. ASSUME NEW n \in Changes \ {m}
          PROVE  change'[n].status = "APPLIED" <=> change[n].status = "APPLIED"
      BY <2>2 DEF Typed, ChangeRow, Lapsed
    <2>5. UNCHANGED ShownApplied
      BY <2>1, <2>3, <2>4, ChangesKept
    <2> QED
      BY <1>1, <1>4, <2>5 DEF Confirm
  <1>5. ASSUME NEW m \in Changes, RequestApplies(m) PROVE [Promise!Next]_ShownVars
    BY <1>1, <1>2, <1>5, ApplyShows DEF RequestApplies, Promise!Next
  <1>6. ASSUME NEW m \in Changes,
               RetrieveCheckout(m) \/ StartCheckout(m) \/ CheckDates(m) \/ PriceChanged(m)
        PROVE  UNCHANGED ShownVars
    BY <1>1, <1>2, <1>6, AppliedKept
    DEF RetrieveCheckout, StartCheckout, CheckDates, PriceChanged
  <1>7. ASSUME NEW m \in Changes, PersistSession(m) PROVE UNCHANGED ShownVars
    <2>1. UNCHANGED ShownApplied
      BY <1>7, ChangesKept DEF PersistSession, Typed, ChangeRow
    <2> QED
      BY <1>1, <1>7, <2>1 DEF PersistSession
  <1>8. ASSUME NEW m \in Changes,
               CreateSession(m) \/ Pay(m) \/ Settle(m) \/ SessionExpires(m)
        PROVE  [Promise!Next]_ShownVars
    <2>1. UNCHANGED <<reservation, change>>
      BY <1>8 DEF CreateSession, Pay, Settle, SessionExpires, Stripe
    <2>2. \/ session[m] # "paid" /\ (\A n \in Changes \ {m} : session'[n] = session[n])
          \/ UNCHANGED session
      BY <1>8 DEF CreateSession, Pay, Settle, SessionExpires, SetSession, Typed
    <2>3. UNCHANGED ShownPaid \/ (ShownPaid' = ShownPaid \cup {m} /\ m \notin ShownPaid)
      BY <2>2 DEF ShownPaid
    <2>4. UNCHANGED <<ShownStay, ShownCollected, ShownApplied>>
      BY <1>2, <2>1, Shows
    <2>5. CASE UNCHANGED ShownPaid
      BY <2>4, <2>5 DEF ShownVars
    <2>6. CASE ShownPaid' = ShownPaid \cup {m} /\ m \notin ShownPaid
      <3>1. Promise!Pay(m)
        BY <2>4, <2>6
        DEF Promise!Pay, ShownStay, Shown, ShownCollected, ShownPaid, ShownApplied
      <3> QED
        BY <3>1 DEF Promise!Next
    <2> QED
      BY <2>3, <2>5, <2>6
  <1>9. ASSUME NEW m \in Changes, DeliverDuplicate(m) \/ (\E h \in Handlers : Deliver(h, m))
        PROVE  UNCHANGED ShownVars
    BY <1>1, <1>2, <1>9 DEF DeliverDuplicate, Deliver
  <1>10. ASSUME NEW h \in Handlers,
                \/ Reclaim(h) \/ ReadChange(h) \/ RereadChange(h) \/ MarkProcessed(h)
                \/ HandlerChecks(h) \/ MarkFailed(h) \/ StepFails(h) \/ Crash(h)
         PROVE  UNCHANGED ShownVars
    BY <1>1, <1>2, <1>10
    DEF Reclaim, ReadChange, RereadChange, HandlerChecks, MarkProcessed, MarkFailed, StepFails,
        Crash, Handling
  <1>11. ASSUME NEW h \in Handlers, BeginProcessing(h) PROVE UNCHANGED ShownVars
    <2>1. handler[h].of \in Changes
      BY DEF Typed, HandlerRow
    <2> QED
      BY <1>1, <1>2, <1>11, <2>1, AppliedKept DEF BeginProcessing, Handling
  <1>12. ASSUME NEW h \in Handlers, PersistEvidence(h) PROVE UNCHANGED ShownVars
    <2>1. handler[h].of \in Changes
      BY DEF Typed, HandlerRow
    <2>2. \A n \in Changes : change'[n].status = "APPLIED" <=> change[n].status = "APPLIED"
      BY <1>12, <2>1 DEF PersistEvidence, Typed, ChangeRow
    <2> QED
      BY <1>1, <1>12, <2>2, ChangesKept DEF PersistEvidence, Handling
  <1>13. ASSUME NEW h \in Handlers, HandlerApplies(h) PROVE [Promise!Next]_ShownVars
    <2>1. handler[h].of \in Changes
      BY DEF Typed, HandlerRow
    <2> QED
      BY <1>1, <1>2, <1>13, <2>1, ApplyShows DEF HandlerApplies, Handling, Promise!Next
  <1>16. ASSUME NEW r \in Reservations, CheckBooking(r) \/ CheckMove(r) \/ CommitRefused(r)
         PROVE  UNCHANGED ShownVars
    BY <1>1, <1>2, <1>16 DEF CheckBooking, CheckMove, CommitRefused, World
  <1>14. ASSUME NEW r \in Reservations, Book(r) \/ HostMoves(r) \/ OtherWrite(r)
         PROVE  [Promise!Next]_ShownVars
    BY <1>14, ShownBook, ShownMove, ShownWrite DEF Promise!Next
  <1>15. CASE Tick \/ UNCHANGED vars
    BY <1>1, <1>2, <1>15 DEF Tick, World, vars
  <1> QED
    BY <1>3, <1>4, <1>5, <1>6, <1>7, <1>8, <1>9, <1>10, <1>11, <1>12, <1>13, <1>14, <1>15,
       <1>16
    DEF Next, Guest, Webhook, Ingest

\* No night twice; a change at most once, and only when what it costs was paid.
THEOREM Refinement == Spec => ImplementsPaidChange
  <1>1. Inv /\ [Next]_vars => [Promise!Next]_(Promise!vars)
    BY ShownStep, SameVars
  <1> QED
    BY <1>1, ShownInit, Invariance, PTL DEF Spec, ImplementsPaidChange, Promise!Spec

=============================================================================
