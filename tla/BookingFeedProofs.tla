------------------------- MODULE BookingFeedProofs -------------------------
(***************************************************************************)
(* What holds of BookingFeed for every set of revisions, events and         *)
(* workers.  The theorems, in the later sections, assume nothing of the     *)
(* data: Types, AcknowledgedIsRecorded and RolledBackOnlyPastGuard.  The    *)
(* lemmas MirrorWhereGuarded and AppliedWhereGuarded say what the guard of  *)
(* the ingesting transaction is worth where it compares like with like      *)
(* (GuardEffective), which the code does not ensure: prices do change and   *)
(* payments are collected, and then NeverRolledBack fails.                  *)
(***************************************************************************)
EXTENDS BookingFeed, FiniteSetTheorems, TLAPS

\* The payment state that the guard recomputes is the stored one, and the price never
\* changes: what the run feed_two assumes, and common bookings do not meet.
GuardEffective == Collected = FALSE /\ \A r, s \in Revisions : Amount[r] = Amount[s]

WorkerRow == [pc: Steps, queue: SUBSET Events, stale: SUBSET Events, event: Events \cup {0},
              todo: SUBSET Revisions, rev: Revisions \cup {0}, changed: BOOLEAN]
EventRow == [status: {"NONE", "PENDING", "PROCESSING", "PROCESSED", "FAILED", "DEAD"},
             about: Revisions \cup {0}, attempts: Nat, aged: BOOLEAN]
ReservationRow == [rev: Revisions \cup {0}, at: Nat, cancelled: BOOLEAN, rejected: BOOLEAN,
                   paid: BOOLEAN, amount: Nat, reconciled: BOOLEAN]
AuditStatus == {"NONE", "FAILED", "SKIPPED", "SUCCESS"}

Typed ==
    /\ published \subseteq Revisions /\ acked \subseteq published
    /\ event \in [Events -> EventRow]
    /\ reservation \in ReservationRow
    /\ audit \in [Revisions -> AuditStatus]
    /\ worker \in [Workers -> WorkerRow]

\* Workers handle revisions that were published, and so do the events that name one.
Handling == {"reject", "supersede", "ingest", "commit", "recheck", "record", "ack", "acked"}
Fetched ==
    /\ \A e \in Events : event[e].about \in published \cup {0}
    /\ \A w \in Workers : /\ worker[w].todo \subseteq published
                          /\ worker[w].pc \in Handling => worker[w].rev \in published
                          /\ worker[w].pc = "fetch" /\ w \in Recoverers
                               => worker[w].event \in Events

\* No reservation has an instant, and an existing one is as the guard expects it.
Priced ==
    /\ ~Exists => reservation.at = 0
    /\ Exists => ~reservation.paid /\ \A r \in Revisions : reservation.amount = Amount[r]

\* A worker that is past its classification or its ingestion, or that has
\* acknowledged, has the reservation at its revision or past it.
Ahead ==
    /\ \A w \in Workers :
         /\ worker[w].pc = "supersede" => At[worker[w].rev] < reservation.at
         /\ worker[w].pc \in {"commit", "recheck", "record", "ack"}
              => At[worker[w].rev] <= reservation.at
    /\ \A r \in acked : At[r] <= reservation.at

Inv == Typed /\ Fetched /\ Priced /\ Ahead

-----------------------------------------------------------------------------
(* What the steps that end a revision, an event or a run do.               *)

Quiet == {"idle", "batch", "read"}
\* Worker w is left with a row that handles no revision.
Rests(w) ==
    \E row \in WorkerRow : /\ row.pc \in Quiet /\ row.todo \subseteq worker[w].todo
                           /\ worker' = [worker EXCEPT ![w] = row]
EventsKept ==
    /\ event' \in [Events -> EventRow]
    /\ \A e \in Events : event'[e].about = event[e].about

LEMMA IdleType == Idle \in WorkerRow /\ Idle.pc = "idle" /\ Idle.todo = {}
  BY DEF Idle, WorkerRow, Steps

LEMMA SetEventKeeps ==
    ASSUME Typed, NEW e, NEW status \in {"PENDING", "PROCESSED", "FAILED"}, SetEvent(e, status)
    PROVE  EventsKept
  <1>1. ASSUME NEW row \in EventRow
        PROVE  /\ [row EXCEPT !.status = status, !.aged = FALSE] \in EventRow
               /\ [row EXCEPT !.status = status, !.aged = FALSE].about = row.about
    BY DEF EventRow
  <1>2. \A row \in EventRow :
            [row EXCEPT !.status = status, !.aged = FALSE]
              = [[row EXCEPT !.status = status] EXCEPT !.aged = FALSE]
    BY DEF EventRow
  <1>3. event \in [Events -> EventRow]
    BY DEF Typed
  <1>4. /\ event' \in [Events -> EventRow]
        /\ \A d \in Events : event'[d] = IF d = e THEN [event[d] EXCEPT !.status = status,
                                                                      !.aged = FALSE]
                                         ELSE event[d]
    <2>1. CASE e \in Events
      BY <1>1, <1>2, <1>3, <2>1 DEF SetEvent
    <2>2. CASE e \notin Events
      BY <1>3, <2>2 DEF SetEvent
    <2> QED
      BY <2>1, <2>2
  <1> QED
    BY <1>1, <1>3, <1>4 DEF EventsKept

LEMMA LeaveRests ==
    ASSUME Typed, NEW w \in Workers, NEW e, Leave(w, e)
    PROVE  Rests(w)
  <1> DEFINE rest == worker[w].queue \ {e}
             row == IF rest = {} THEN Idle
                    ELSE [Idle EXCEPT !.pc = "batch", !.queue = rest,
                                      !.stale = worker[w].stale \cap rest]
  <1>1. worker[w] \in WorkerRow
    BY DEF Typed
  <1>2. row \in WorkerRow /\ row.pc \in Quiet /\ row.todo = {}
    BY <1>1 DEF Idle, WorkerRow, Steps, Quiet
  <1>3. worker' = [worker EXCEPT ![w] = row]
    BY DEF Leave
  <1> QED
    BY <1>2, <1>3 DEF Rests

LEMMA EndRunRests ==
    ASSUME NEW w \in Workers, EndRun(w)
    PROVE  Rests(w)
  BY IdleType DEF EndRun, Rests, Quiet

LEMMA AdvanceRests ==
    ASSUME Typed, NEW w \in Workers, Advance(w)
    PROVE  Rests(w) /\ EventsKept
  <1>1. CASE worker[w].todo # {}
    <2> DEFINE row == [worker[w] EXCEPT !.pc = "read", !.rev = 0, !.changed = FALSE]
    <2>1. row \in WorkerRow /\ row.pc \in Quiet /\ row.todo = worker[w].todo
      BY DEF Typed, WorkerRow, Steps, Quiet
    <2>2. worker' = [worker EXCEPT ![w] = row] /\ UNCHANGED event
      BY <1>1 DEF Advance, Typed
    <2> QED
      BY <2>1, <2>2 DEF Rests, EventsKept, Typed
  <1>2. CASE worker[w].todo = {} /\ w \in Recoverers
    BY <1>2, LeaveRests, SetEventKeeps DEF Advance
  <1>3. CASE worker[w].todo = {} /\ w \notin Recoverers
    BY <1>3, EndRunRests DEF Advance, EventsKept, Typed
  <1> QED
    BY <1>1, <1>2, <1>3

LEMMA ThrowsRests ==
    ASSUME Typed, NEW w \in Workers, Throws(w)
    PROVE  Rests(w) /\ EventsKept
  BY LeaveRests, SetEventKeeps, AdvanceRests DEF Throws

\* A step that only puts a worker to rest, moves events and writes audit entries.
LEMMA RestStep ==
    ASSUME Inv, NEW w \in Workers, Rests(w), EventsKept,
           UNCHANGED <<published, acked, reservation>>, audit' \in [Revisions -> AuditStatus]
    PROVE  Inv'
  <1>1. PICK row \in WorkerRow : /\ row.pc \in Quiet /\ row.todo \subseteq worker[w].todo
                                 /\ worker' = [worker EXCEPT ![w] = row]
    BY DEF Rests
  <1>2. /\ worker' \in [Workers -> WorkerRow]
        /\ worker'[w] = row /\ \A v \in Workers : v # w => worker'[v] = worker[v]
    BY <1>1 DEF Inv, Typed
  <1>3. row.pc \notin Handling /\ row.pc # "fetch"
    BY <1>1 DEF Quiet, Handling
  <1>4. Typed'
    BY <1>2 DEF Inv, Typed, EventsKept
  <1>5. Fetched'
    BY <1>1, <1>2, <1>3 DEF Inv, Typed, Fetched, EventsKept
  <1>6. Priced'
    BY DEF Inv, Priced, Exists
  <1>7. Ahead'
    BY <1>1, <1>2 DEF Inv, Ahead, Quiet
  <1> QED
    BY <1>4, <1>5, <1>6, <1>7 DEF Inv

\* A step that moves a worker on to handle the same revision.
LEMMA GoOnStep ==
    ASSUME Inv, NEW w \in Workers, NEW pc \in Steps, Goto(w, pc), UNCHANGED event,
           pc = "fetch" => w \notin Recoverers,
           UNCHANGED <<published, acked, reservation>>, audit' \in [Revisions -> AuditStatus],
           pc \in Handling => worker[w].rev \in published,
           pc = "supersede" => At[worker[w].rev] < reservation.at,
           pc \in {"commit", "recheck", "record", "ack"} => At[worker[w].rev] <= reservation.at
    PROVE  Inv'
  <1> DEFINE row == [worker[w] EXCEPT !.pc = pc]
  <1>1. row \in WorkerRow /\ row.pc = pc /\ row.todo = worker[w].todo /\ row.rev = worker[w].rev
    BY DEF Inv, Typed, WorkerRow
  <1>2. worker' = [worker EXCEPT ![w] = row] /\ UNCHANGED event
    BY DEF Goto
  <1> HIDE DEF row
  <1>3. /\ worker' \in [Workers -> WorkerRow]
        /\ worker'[w] = row /\ \A v \in Workers : v # w => worker'[v] = worker[v]
    BY <1>1, <1>2 DEF Inv, Typed
  <1>4. Typed'
    BY <1>2, <1>3 DEF Inv, Typed
  <1>5. Fetched'
    BY <1>1, <1>2, <1>3 DEF Inv, Typed, Fetched
  <1>6. Priced'
    BY DEF Inv, Priced, Exists
  <1>7. Ahead'
    BY <1>1, <1>3 DEF Inv, Ahead
  <1> QED
    BY <1>4, <1>5, <1>6, <1>7 DEF Inv

-----------------------------------------------------------------------------
(* The invariant, action by action.                                        *)

LEMMA InitInv == Init => Inv
  <1> SUFFICES ASSUME Init PROVE Inv
    OBVIOUS
  <1>1. Typed
    BY IdleType DEF Init, Typed, EventRow, ReservationRow, NoReservation, AuditStatus, Unnamed
  <1>2. Fetched /\ Priced /\ Ahead
    BY IdleType DEF Init, Fetched, Priced, Ahead, Exists, NoReservation, Handling, Unnamed
  <1> QED
    BY <1>1, <1>2 DEF Inv

LEMMA RecordedType ==
    ASSUME Typed, NEW r, NEW status \in AuditStatus
    PROVE  Recorded(audit, r, status) \in [Revisions -> AuditStatus]
  BY DEF Typed, Recorded

LEMMA EnvironmentInv ==
    ASSUME Inv, \/ \E r \in Revisions : Publish(r)
                \/ \E e \in Events : Receive(e) \/ Age(e)
                \/ StayStarts
    PROVE  Inv'
  <1>1. CASE \E r \in Revisions : Publish(r)
    BY <1>1 DEF Publish, Inv, Typed, Fetched, Priced, Ahead, Exists
  <1>2. CASE \E e \in Events : Receive(e)
    <2>1. event' \in [Events -> EventRow]
          /\ \A e \in Events : event'[e].about \in published \cup {0}
      BY <1>2 DEF Receive, Inv, Typed, Fetched, EventRow, Unnamed
    <2> QED
      BY <1>2, <2>1 DEF Receive, Inv, Typed, Fetched, Priced, Ahead, Exists
  <1>3. CASE \E e \in Events : Age(e)
    <2>1. EventsKept
      <3> PICK e \in Events : event' = [event EXCEPT ![e].aged = TRUE]
        BY <1>3 DEF Age
      <3> QED
        BY DEF Inv, Typed, EventsKept, EventRow
    <2> QED
      BY <1>3, <2>1 DEF Age, EventsKept, Inv, Typed, Fetched, Priced, Ahead, Exists
  <1>4. CASE StayStarts
    BY <1>4 DEF StayStarts, Inv, Typed, Fetched, Priced, Ahead, Exists
  <1> QED
    BY <1>1, <1>2, <1>3, <1>4

\* The scan ends some events and leaves the others, and what they are about, as they are.
LEMMA TickEvents ==
    ASSUME Typed, NEW w \in Workers, Tick(w)
    PROVE  EventsKept /\ \A e \in Events : event'[e].attempts = event[e].attempts
  <1>1. ASSUME NEW row \in EventRow
        PROVE  /\ [row EXCEPT !.status = "DEAD", !.aged = FALSE] \in EventRow
               /\ [row EXCEPT !.status = "DEAD", !.aged = FALSE].about = row.about
               /\ [row EXCEPT !.status = "DEAD", !.aged = FALSE].attempts = row.attempts
    BY DEF EventRow
  <1>2. \A e \in Events : event[e] \in EventRow
    BY DEF Typed
  <1>3. event' = [e \in Events |->
                   IF Dies(e) THEN [event[e] EXCEPT !.status = "DEAD", !.aged = FALSE]
                              ELSE event[e]]
    BY DEF Tick
  <1>4. ASSUME NEW e \in Events
        PROVE  /\ event'[e] \in EventRow /\ event'[e].about = event[e].about
               /\ event'[e].attempts = event[e].attempts
    <2>1. \/ event'[e] = [event[e] EXCEPT !.status = "DEAD", !.aged = FALSE]
          \/ event'[e] = event[e]
      BY <1>3
    <2> QED
      BY <1>1, <1>2, <2>1
  <1>5. event' = [e \in Events |-> event'[e]]
    BY <1>3
  <1>6. event' \in [Events -> EventRow]
    BY <1>4, <1>5
  <1> QED
    BY <1>4, <1>6 DEF EventsKept

LEMMA TickInv == ASSUME Inv, NEW w \in Workers, Tick(w) PROVE Inv'
  <1>1. EventsKept
    BY TickEvents DEF Inv
  <1>2. Rests(w)
    <2> DEFINE scan == {e \in Events : Recoverable(e) /\ Retryable(e)}
               row == IF scan = {} THEN Idle
                      ELSE [Idle EXCEPT !.pc = "batch", !.queue = scan,
                                        !.stale = {e \in scan : Stale(e)}]
    <2>1. row \in WorkerRow /\ row.pc \in Quiet /\ row.todo = {}
      BY DEF Idle, WorkerRow, Steps, Quiet
    <2>2. worker' = [worker EXCEPT ![w] = row]
      BY DEF Tick
    <2> QED
      BY <2>1, <2>2 DEF Rests
  <1> QED
    BY <1>1, <1>2, RestStep DEF Tick, Inv, Typed

LEMMA ReleaseStaleInv == ASSUME Inv, NEW w \in Workers, ReleaseStale(w) PROVE Inv'
  <1>1. PICK e \in worker[w].stale : /\ IsNextEvent(w, e) /\ worker[w].pc = "batch"
            /\ IF Stale(e) /\ Retryable(e)
               THEN /\ SetEvent(e, "FAILED")
                    /\ worker' = [worker EXCEPT ![w].stale = @ \ {e}]
               ELSE Leave(w, e) /\ UNCHANGED event
    BY DEF ReleaseStale
  <1>2. CASE Stale(e) /\ Retryable(e)
    <2> DEFINE row == [worker[w] EXCEPT !.stale = @ \ {e}]
    <2>1. row \in WorkerRow /\ row.pc \in Quiet /\ row.todo = worker[w].todo
      BY <1>1 DEF Inv, Typed, WorkerRow, Quiet
    <2>2. worker' = [worker EXCEPT ![w] = row]
      BY <1>1, <1>2
    <2>3. Rests(w) /\ EventsKept
      BY <1>1, <1>2, <2>1, <2>2, SetEventKeeps DEF Rests, Inv
    <2> QED
      BY <2>3, RestStep DEF ReleaseStale, Inv, Typed
  <1>3. CASE ~(Stale(e) /\ Retryable(e))
    <2>1. Rests(w) /\ EventsKept
      BY <1>1, <1>3, LeaveRests DEF EventsKept, Inv, Typed
    <2> QED
      BY <2>1, RestStep DEF ReleaseStale, Inv, Typed
  <1> QED
    BY <1>2, <1>3

LEMMA ClaimEventInv == ASSUME Inv, NEW w \in Workers, ClaimEvent(w) PROVE Inv'
  <1>1. PICK e \in worker[w].queue \ worker[w].stale : /\ worker[w].pc = "batch"
            /\ IF Claimable(e)
               THEN /\ event' = [event EXCEPT ![e].status = "PROCESSING", ![e].attempts = @ + 1,
                                              ![e].aged = FALSE]
                    /\ worker' = [worker EXCEPT ![w].pc = "fetch", ![w].event = e]
               ELSE Leave(w, e) /\ UNCHANGED event
    BY DEF ClaimEvent
  <1>2. CASE Claimable(e)
    <2> DEFINE row == [worker[w] EXCEPT !.pc = "fetch", !.event = e]
    <2>1. e \in Events
      BY <1>1 DEF Inv, Typed, WorkerRow
    <2>2. row \in WorkerRow /\ row.pc = "fetch" /\ row.todo = worker[w].todo /\ row.event = e
      BY <2>1 DEF Inv, Typed, WorkerRow, Steps
    <2>3. worker' = [worker EXCEPT ![w] = row]
      BY <1>1, <1>2 DEF Inv, Typed
    <2>4. EventsKept
      BY <1>1, <1>2, <2>1 DEF Inv, Typed, EventsKept, EventRow
    <2> HIDE DEF row
    <2>5. /\ worker' \in [Workers -> WorkerRow]
          /\ worker'[w] = row /\ \A v \in Workers : v # w => worker'[v] = worker[v]
      BY <2>2, <2>3 DEF Inv, Typed
    <2>6. UNCHANGED <<published, acked, reservation, audit>>
      BY DEF ClaimEvent
    <2>7. Typed'
      BY <2>4, <2>5, <2>6 DEF Inv, Typed, EventsKept
    <2>8. Fetched'
      BY <2>1, <2>2, <2>4, <2>5, <2>6 DEF Inv, Fetched, EventsKept, Handling
    <2>9. Priced' /\ Ahead'
      BY <2>2, <2>5, <2>6 DEF Inv, Priced, Ahead, Exists
    <2> QED
      BY <2>7, <2>8, <2>9 DEF Inv
  <1>3. CASE ~Claimable(e)
    <2>1. Rests(w) /\ EventsKept
      BY <1>1, <1>3, LeaveRests DEF EventsKept, Inv, Typed
    <2> QED
      BY <2>1, RestStep DEF ClaimEvent, Inv, Typed
  <1> QED
    BY <1>2, <1>3

\* What a fetch hands to worker w was published.
LEMMA FetchStep ==
    ASSUME Inv, NEW w \in Workers, NEW todo \in SUBSET published,
           worker' = [worker EXCEPT ![w].pc = "read", ![w].todo = todo], UNCHANGED event,
           UNCHANGED <<published, acked, reservation, audit>>
    PROVE  Inv'
  <1> DEFINE row == [worker[w] EXCEPT !.pc = "read", !.todo = todo]
  <1>1. row \in WorkerRow /\ row.pc = "read" /\ row.todo = todo
    BY DEF Inv, Typed, WorkerRow, Steps
  <1>2. worker' = [worker EXCEPT ![w] = row]
    BY DEF Inv, Typed
  <1> HIDE DEF row
  <1>3. /\ worker' \in [Workers -> WorkerRow]
        /\ worker'[w] = row /\ \A v \in Workers : v # w => worker'[v] = worker[v]
    BY <1>1, <1>2 DEF Inv, Typed
  <1>4. Typed'
    BY <1>3 DEF Inv, Typed
  <1>5. Fetched'
    BY <1>1, <1>3 DEF Inv, Typed, Fetched, Handling
  <1>6. Priced'
    BY DEF Inv, Priced, Exists
  <1>7. Ahead'
    BY <1>1, <1>3 DEF Inv, Ahead
  <1> QED
    BY <1>4, <1>5, <1>6, <1>7 DEF Inv

LEMMA FetchForEventInv == ASSUME Inv, NEW w \in Workers, FetchForEvent(w) PROVE Inv'
  <1> DEFINE e == worker[w].event
             todo == IF event[e].about # Unnamed THEN {event[e].about} ELSE Feed
  <1>1. CASE todo = {}
    <2>1. SetEvent(e, "PROCESSED") /\ Leave(w, e)
      BY <1>1 DEF FetchForEvent
    <2>2. Rests(w) /\ EventsKept
      BY <2>1, LeaveRests, SetEventKeeps DEF Inv
    <2> QED
      BY <2>2, RestStep DEF FetchForEvent, Inv, Typed
  <1>2. CASE todo # {}
    <2>1. e \in Events
      BY DEF FetchForEvent, Inv, Fetched
    <2>2. todo \subseteq published
      BY <2>1 DEF Inv, Typed, Fetched, EventRow, Unnamed, Feed
    <2>3. /\ worker' = [worker EXCEPT ![w].pc = "read", ![w].todo = todo]
          /\ UNCHANGED event /\ UNCHANGED <<published, acked, reservation, audit>>
      BY <1>2 DEF FetchForEvent
    <2> HIDE DEF todo
    <2> QED
      BY <2>2, <2>3, FetchStep
  <1> QED
    BY <1>1, <1>2

LEMMA AcquireLeaseInv == ASSUME Inv, NEW w \in Feeders, AcquireLease(w) PROVE Inv'
  <1>1. w \in Workers /\ w \notin Recoverers
    BY RevisionAssumption DEF Workers
  <1>2. Goto(w, "fetch") /\ UNCHANGED event /\ "fetch" \in Steps /\ "fetch" \notin Handling
    BY DEF AcquireLease, Steps, Handling
  <1> QED
    BY <1>1, <1>2, GoOnStep DEF AcquireLease, Inv, Typed

LEMMA FetchFeedInv == ASSUME Inv, NEW w \in Workers, FetchFeed(w) PROVE Inv'
  <1> DEFINE todo == Selected(Feed)
  <1>1. CASE todo = {}
    <2>1. EndRun(w) /\ UNCHANGED event
      BY <1>1 DEF FetchFeed
    <2>2. Rests(w) /\ EventsKept
      BY <2>1, EndRunRests DEF EventsKept, Inv, Typed
    <2> QED
      BY <2>2, RestStep DEF FetchFeed, Inv, Typed
  <1>2. CASE todo # {}
    <2>1. todo \subseteq published
      BY DEF Selected, Feed
    <2>2. /\ worker' = [worker EXCEPT ![w].pc = "read", ![w].todo = todo]
          /\ UNCHANGED event /\ UNCHANGED <<published, acked, reservation, audit>>
      BY <1>2 DEF FetchFeed
    <2> QED
      BY <2>1, <2>2, FetchStep
  <1> QED
    BY <1>1, <1>2

LEMMA ClassifyInv == ASSUME Inv, NEW w \in Workers, Classify(w) PROVE Inv'
  <1>1. PICK r \in worker[w].todo :
          worker' = [worker EXCEPT ![w].pc = Action(r), ![w].rev = r, ![w].todo = @ \ {r}]
    BY DEF Classify
  <1> DEFINE row == [worker[w] EXCEPT !.pc = Action(r), !.rev = r, !.todo = @ \ {r}]
  <1>2. r \in published /\ r \in Revisions
    BY DEF Inv, Typed, Fetched
  <1>3. Action(r) \in {"reject", "supersede", "ack", "ingest"}
    BY DEF Action
  <1>4. row \in WorkerRow /\ row.pc = Action(r) /\ row.todo \subseteq worker[w].todo /\ row.rev = r
    BY <1>2, <1>3 DEF Inv, Typed, WorkerRow, Steps
  <1>5. worker' = [worker EXCEPT ![w] = row] /\ UNCHANGED event
    BY <1>1 DEF Classify, Inv, Typed
  <1> HIDE DEF row
  <1>6. /\ worker' \in [Workers -> WorkerRow]
        /\ worker'[w] = row /\ \A v \in Workers : v # w => worker'[v] = worker[v]
    BY <1>4, <1>5 DEF Inv, Typed
  <1>7. UNCHANGED <<published, acked, reservation, audit>>
    BY DEF Classify
  <1>8. Typed'
    BY <1>5, <1>6, <1>7 DEF Inv, Typed
  <1>9. Fetched'
    BY <1>2, <1>3, <1>4, <1>5, <1>6, <1>7 DEF Inv, Fetched
  <1>10. Priced'
    BY <1>7 DEF Inv, Priced, Exists
  <1>11. /\ Action(r) = "supersede" => At[r] < reservation.at
         /\ Action(r) = "ack" => At[r] <= reservation.at
    BY <1>2, RevisionAssumption DEF Action, Inv, Typed, ReservationRow
  <1>12. Ahead'
    BY <1>3, <1>4, <1>6, <1>7, <1>11 DEF Inv, Ahead
  <1> QED
    BY <1>8, <1>9, <1>10, <1>12 DEF Inv

LEMMA RejectCancellationInv == ASSUME Inv, NEW w \in Workers, RejectCancellation(w) PROVE Inv'
  BY ThrowsRests, RestStep, RecordedType DEF RejectCancellation, Inv, AuditStatus

LEMMA MarkSupersededInv == ASSUME Inv, NEW w \in Workers, MarkSuperseded(w) PROVE Inv'
  <1>1. audit' \in [Revisions -> AuditStatus] /\ UNCHANGED <<published, acked, reservation>>
    BY RecordedType DEF MarkSuperseded, Inv, AuditStatus
  <1>2. CASE Throws(w)
    BY <1>1, <1>2, ThrowsRests, RestStep DEF Inv
  <1>3. CASE GoOn(w, "ack")
    <2>1. worker[w].rev \in published /\ At[worker[w].rev] < reservation.at
      BY DEF MarkSuperseded, Inv, Fetched, Ahead, Handling
    <2>2. At[worker[w].rev] \in Nat /\ reservation.at \in Nat
      BY <2>1, RevisionAssumption DEF Inv, Typed, ReservationRow
    <2> QED
      BY <1>1, <1>3, <2>1, <2>2, GoOnStep DEF GoOn, Steps
  <1> QED
    BY <1>2, <1>3 DEF MarkSuperseded

\* The ingesting transaction only moves the reservation forward.
LEMMA IngestForward ==
    ASSUME Inv, GuardEffective, NEW w \in Workers, Ingest(w)
    PROVE  /\ reservation' \in ReservationRow /\ reservation'.rev # 0
           /\ ~reservation'.paid /\ \A r \in Revisions : reservation'.amount = Amount[r]
           /\ worker[w].rev \in published /\ At[worker[w].rev] <= reservation'.at
           /\ \/ reservation' = reservation
              \/ /\ reservation'.at = At[worker[w].rev]
                 /\ reservation.at < reservation'.at
  <1> DEFINE r == worker[w].rev
             cancel == r \in Cancels
             new == [rev |-> r, at |-> At[r], cancelled |-> cancel, rejected |-> FALSE,
                     paid |-> Collected, amount |-> Amount[r], reconciled |-> FALSE]
  <1>1. r \in published /\ r \in Revisions /\ r # 0
    BY RevisionAssumption DEF Ingest, Inv, Typed, Fetched, Handling
  <1>2. At[r] \in Nat \ {0} /\ Amount[r] \in Nat /\ reservation \in ReservationRow
    BY <1>1, RevisionAssumption DEF Inv, Typed
  <1>4. CASE Exists /\ Unchanged(r) /\ UNCHANGED reservation
    BY <1>1, <1>2, <1>4 DEF Inv, Priced, Exists, Unchanged
  <1>5. ASSUME ~Unchanged(r) PROVE At[r] > reservation.at
    BY <1>1, <1>2, <1>5 DEF Unchanged, Inv, Priced, ReservationRow
  <1>6. CASE Exists /\ ~Unchanged(r) /\ reservation' = RejectedRow(r)
    <2>1. /\ reservation' \in ReservationRow /\ reservation'.at = At[r]
          /\ reservation'.rev = reservation.rev /\ reservation'.paid = reservation.paid
          /\ reservation'.amount = reservation.amount
      BY <1>2, <1>6 DEF RejectedRow, ReservationRow
    <2>2. reservation.at \in Nat
      BY <1>2 DEF ReservationRow
    <2> QED
      BY <1>1, <1>2, <1>5, <1>6, <2>1, <2>2 DEF Inv, Priced, Exists
  <1>7. CASE (~Exists \/ ~Unchanged(r)) /\ reservation' = new
    <2>1. At[r] > reservation.at
      BY <1>2, <1>5, <1>7 DEF Inv, Priced
    <2>2. cancel \in BOOLEAN
      OBVIOUS
    <2> HIDE DEF cancel
    <2>3. new \in ReservationRow /\ new.rev = r /\ new.at = At[r] /\ ~new.paid
          /\ new.amount = Amount[r]
      BY <1>1, <1>2, <2>2, RevisionAssumption DEF ReservationRow, GuardEffective
    <2>4. \A s \in Revisions : Amount[r] = Amount[s]
      BY <1>1 DEF GuardEffective
    <2>5. reservation.at \in Nat
      BY <1>2 DEF ReservationRow
    <2> HIDE DEF new
    <2> QED
      BY <1>1, <1>2, <1>7, <2>1, <2>3, <2>4, <2>5
  <1> QED
    BY <1>4, <1>6, <1>7 DEF Ingest

LEMMA IngestInv == ASSUME Inv, GuardEffective, NEW w \in Workers, Ingest(w) PROVE Inv'
  <1>1. PICK changed \in BOOLEAN :
          worker' = [worker EXCEPT ![w].pc = "commit", ![w].changed = changed]
    BY DEF Ingest
  <1> DEFINE row == [worker[w] EXCEPT !.pc = "commit", !.changed = changed]
  <1>2. row \in WorkerRow /\ row.pc = "commit" /\ row.todo = worker[w].todo /\ row.rev = worker[w].rev
    BY DEF Inv, Typed, WorkerRow, Steps
  <1>3. worker' = [worker EXCEPT ![w] = row]
    BY <1>1 DEF Inv, Typed
  <1> HIDE DEF row
  <1>4. /\ worker' \in [Workers -> WorkerRow]
        /\ worker'[w] = row /\ \A v \in Workers : v # w => worker'[v] = worker[v]
    BY <1>2, <1>3 DEF Inv, Typed
  <1>5. UNCHANGED <<published, acked, event, audit>>
    BY DEF Ingest
  <1>6. Typed'
    BY <1>4, <1>5, IngestForward DEF Inv, Typed
  <1>7. Fetched'
    BY <1>2, <1>4, <1>5, IngestForward DEF Inv, Fetched, Handling
  <1>8. Priced'
    BY IngestForward DEF Priced, Exists
  <1>9. reservation.at <= reservation'.at /\ reservation.at \in Nat /\ reservation'.at \in Nat
    <2>1. reservation.at \in Nat
      BY DEF Inv, Typed, ReservationRow
    <2>2. reservation'.at \in Nat
      BY <1>6 DEF Typed, ReservationRow
    <2>3. reservation'.at = reservation.at \/ reservation.at < reservation'.at
      BY IngestForward
    <2> QED
      BY <2>1, <2>2, <2>3
  <1>10. \A r \in published : At[r] \in Nat
    BY RevisionAssumption DEF Inv, Typed
  <1>11. ASSUME NEW v \in Workers
         PROVE  /\ worker'[v].pc = "supersede" => At[worker'[v].rev] < reservation'.at
                /\ worker'[v].pc \in {"commit", "recheck", "record", "ack"}
                     => At[worker'[v].rev] <= reservation'.at
    <2>1. CASE v = w
      BY <1>2, <1>4, <2>1, IngestForward
    <2>2. CASE v # w /\ worker[v].pc \in {"supersede", "commit", "recheck", "record", "ack"}
      <3>1. worker[v].rev \in published
        BY <2>2 DEF Inv, Fetched, Handling
      <3> QED
        BY <1>4, <1>9, <1>10, <2>2, <3>1 DEF Inv, Ahead
    <2>3. CASE v # w /\ worker[v].pc \notin {"supersede", "commit", "recheck", "record", "ack"}
      BY <1>4, <2>3
    <2> QED
      BY <2>1, <2>2, <2>3
  <1>12. \A r \in acked : At[r] <= reservation'.at
    BY <1>9, <1>10 DEF Inv, Typed, Ahead
  <1>13. Ahead'
    BY <1>5, <1>11, <1>12 DEF Ahead
  <1> QED
    BY <1>6, <1>7, <1>8, <1>13 DEF Inv

LEMMA ReconcileInv == ASSUME Inv, NEW w \in Workers, Reconcile(w) PROVE Inv'
  <1> DEFINE row == [worker[w] EXCEPT !.pc = "recheck"]
  <1>1. /\ reservation' \in ReservationRow /\ reservation'.at = reservation.at
        /\ reservation'.rev = reservation.rev /\ reservation'.paid = reservation.paid
        /\ reservation'.amount = reservation.amount
    BY DEF Reconcile, Inv, Typed, ReservationRow, WorkerRow
  <1>2. row \in WorkerRow /\ row.pc = "recheck" /\ row.todo = worker[w].todo /\ row.rev = worker[w].rev
    BY DEF Inv, Typed, WorkerRow, Steps
  <1>3. worker' = [worker EXCEPT ![w] = row] /\ UNCHANGED <<published, acked, event, audit>>
    BY DEF Reconcile, GoOn, Goto
  <1>4. worker[w].rev \in published /\ At[worker[w].rev] <= reservation.at
    BY DEF Reconcile, Inv, Fetched, Ahead, Handling
  <1> HIDE DEF row
  <1>5. /\ worker' \in [Workers -> WorkerRow]
        /\ worker'[w] = row /\ \A v \in Workers : v # w => worker'[v] = worker[v]
    BY <1>2, <1>3 DEF Inv, Typed
  <1>6. Typed'
    BY <1>1, <1>3, <1>5 DEF Inv, Typed
  <1>7. Fetched'
    BY <1>2, <1>3, <1>4, <1>5 DEF Inv, Fetched
  <1>8. Priced'
    BY <1>1 DEF Inv, Priced, Exists
  <1>9. Ahead'
    BY <1>1, <1>2, <1>3, <1>4, <1>5 DEF Inv, Ahead
  <1> QED
    BY <1>6, <1>7, <1>8, <1>9 DEF Inv

LEMMA RecheckInv == ASSUME Inv, NEW w \in Workers, Recheck(w) PROVE Inv'
  <1> DEFINE pc == IF CancellationRejected(worker[w].rev) THEN "reject" ELSE "record"
  <1>1. worker[w].rev \in published /\ At[worker[w].rev] <= reservation.at
    BY DEF Recheck, Inv, Fetched, Ahead, Handling
  <1>2. pc \in {"reject", "record"} /\ Goto(w, pc) /\ UNCHANGED event
    BY DEF Recheck, GoOn
  <1>3. UNCHANGED <<published, acked, reservation>> /\ audit' \in [Revisions -> AuditStatus]
    BY DEF Recheck, Inv, Typed
  <1> HIDE DEF pc
  <1>4. pc \in Steps /\ pc # "fetch" /\ pc # "supersede"
    BY <1>2 DEF Steps
  <1> QED
    BY <1>1, <1>2, <1>3, <1>4, GoOnStep

LEMMA RecordPersistedInv == ASSUME Inv, NEW w \in Workers, RecordPersisted(w) PROVE Inv'
  <1>1. audit' \in [Revisions -> AuditStatus] /\ UNCHANGED <<published, acked, reservation>>
    BY RecordedType DEF RecordPersisted, Inv, AuditStatus
  <1>2. CASE Throws(w)
    BY <1>1, <1>2, ThrowsRests, RestStep DEF Inv
  <1>3. CASE GoOn(w, "ack")
    <2>1. worker[w].rev \in published /\ At[worker[w].rev] <= reservation.at
      BY DEF RecordPersisted, Inv, Fetched, Ahead, Handling
    <2> QED
      BY <1>1, <1>3, <2>1, GoOnStep DEF GoOn, Steps
  <1> QED
    BY <1>2, <1>3 DEF RecordPersisted

\* What an acknowledgement adds is a revision that the reservation has reached.
LEMMA AckedReached ==
    ASSUME Inv, NEW w \in Workers, worker[w].pc = "ack"
    PROVE  worker[w].rev \in published /\ At[worker[w].rev] <= reservation.at
  BY DEF Inv, Fetched, Ahead, Handling

\* A worker that called the channel goes on or rests; its revision may be acknowledged.
LEMMA AckStep ==
    ASSUME Inv, NEW w \in Workers, worker[w].pc = "ack", NEW row \in WorkerRow,
           row.pc \in Quiet \cup {"acked"}, row.todo \subseteq worker[w].todo,
           row.pc = "acked" => row.rev = worker[w].rev,
           worker' = [worker EXCEPT ![w] = row], EventsKept,
           acked' \in {acked, acked \cup {worker[w].rev}},
           UNCHANGED <<published, reservation, audit>>
    PROVE  Inv'
  <1>1. /\ worker' \in [Workers -> WorkerRow]
        /\ worker'[w] = row /\ \A v \in Workers : v # w => worker'[v] = worker[v]
    BY DEF Inv, Typed
  <1>2. worker[w].rev \in published /\ At[worker[w].rev] <= reservation.at
    BY AckedReached
  <1>3. Typed'
    BY <1>1, <1>2 DEF Inv, Typed, EventsKept
  <1>4. Fetched'
    BY <1>1, <1>2 DEF Inv, Typed, Fetched, EventsKept, Quiet, Handling
  <1>5. Priced'
    BY DEF Inv, Priced, Exists
  <1>6. Ahead'
    BY <1>1, <1>2 DEF Inv, Ahead, Quiet
  <1> QED
    BY <1>3, <1>4, <1>5, <1>6 DEF Inv

LEMMA AcknowledgeInv == ASSUME Inv, NEW w \in Workers, Acknowledge(w) PROVE Inv'
  <1> DEFINE row == [worker[w] EXCEPT !.pc = "acked"]
  <1>1. row \in WorkerRow /\ row.pc = "acked" /\ row.todo = worker[w].todo /\ row.rev = worker[w].rev
    BY DEF Inv, Typed, WorkerRow, Steps
  <1>2. worker' = [worker EXCEPT ![w] = row] /\ UNCHANGED event
    BY DEF Acknowledge, GoOn, Goto
  <1>3. EventsKept
    BY <1>2 DEF Inv, Typed, EventsKept
  <1> HIDE DEF row
  <1> QED
    BY <1>1, <1>2, <1>3, AckStep DEF Acknowledge

LEMMA AcknowledgeFailsInv == ASSUME Inv, NEW w \in Workers, AcknowledgeFails(w) PROVE Inv'
  <1>1. Rests(w) /\ EventsKept
    BY ThrowsRests DEF AcknowledgeFails, Inv
  <1>2. PICK row \in WorkerRow : /\ row.pc \in Quiet /\ row.todo \subseteq worker[w].todo
                                 /\ worker' = [worker EXCEPT ![w] = row]
    BY <1>1 DEF Rests
  <1>3. row.pc # "acked"
    BY <1>2 DEF Quiet
  <1> QED
    BY <1>1, <1>2, <1>3, AckStep DEF AcknowledgeFails

LEMMA RecordAcknowledgedInv == ASSUME Inv, NEW w \in Workers, RecordAcknowledged(w) PROVE Inv'
  <1>1. Rests(w) /\ EventsKept
    BY ThrowsRests, AdvanceRests DEF RecordAcknowledged, Inv
  <1> QED
    BY <1>1, RestStep DEF RecordAcknowledged, Inv, Typed

LEMMA StepFailsInv == ASSUME Inv, NEW w \in Workers, StepFails(w) PROVE Inv'
  <1>1. Rests(w) /\ EventsKept
    BY ThrowsRests, EndRunRests DEF StepFails, Inv, Typed, EventsKept
  <1> QED
    BY <1>1, RestStep DEF StepFails, Inv, Typed

LEMMA CrashInv == ASSUME Inv, NEW w \in Workers, Crash(w) PROVE Inv'
  <1>1. Rests(w) /\ EventsKept
    BY EndRunRests DEF Crash, Inv, Typed, EventsKept
  <1> QED
    BY <1>1, RestStep DEF Crash, Inv, Typed

LEMMA NextInv == ASSUME Inv, GuardEffective, [Next]_vars PROVE Inv'
  <1>1. CASE \/ \E r \in Revisions : Publish(r)
             \/ \E e \in Events : Receive(e) \/ Age(e)
             \/ StayStarts
    BY <1>1, EnvironmentInv
  <1>2. CASE \E w \in Recoverers : Recover(w)
    BY <1>2, TickInv, ReleaseStaleInv, ClaimEventInv, FetchForEventInv DEF Recover, Workers
  <1>3. CASE \E w \in Feeders : RunFeed(w)
    BY <1>3, AcquireLeaseInv, FetchFeedInv DEF RunFeed, Workers
  <1>4. CASE \E w \in Workers : Revise(w)
    BY <1>4, ClassifyInv, RejectCancellationInv, MarkSupersededInv, IngestInv, ReconcileInv,
       RecheckInv, RecordPersistedInv, AcknowledgeInv, RecordAcknowledgedInv DEF Revise
  <1>5. CASE \E w \in Workers : AcknowledgeFails(w) \/ StepFails(w) \/ Crash(w)
    BY <1>5, AcknowledgeFailsInv, StepFailsInv, CrashInv
  <1>6. CASE UNCHANGED vars
    BY <1>6 DEF vars, Inv, Typed, Fetched, Priced, Ahead, Exists
  <1> QED
    BY <1>1, <1>2, <1>3, <1>4, <1>5, <1>6 DEF Next

\* Where the guard is effective every behaviour satisfies the invariant.
LEMMA Invariance == ASSUME GuardEffective PROVE Spec => []Inv
  <1>1. Init => Inv
    BY InitInv
  <1>2. Inv /\ [Next]_vars => Inv'
    BY NextInv
  <1> QED
    BY <1>1, <1>2, PTL DEF Spec

-----------------------------------------------------------------------------
(* The refinement of RevisionMirror.                                       *)

LEMMA MirrorStep ==
    ASSUME Inv, GuardEffective, [Next]_vars
    PROVE  [Mirror!Next]_<<published, reservation.at, acked>>
  <1> DEFINE mirrored == <<published, reservation.at, acked>>
  <1>1. CASE \E r \in Revisions : Publish(r)
    BY <1>1 DEF Publish, Mirror!Next, Mirror!Publish
  <1>2. CASE \/ \E e \in Events : Receive(e) \/ Age(e)
             \/ StayStarts
             \/ \E w \in Recoverers : Recover(w)
             \/ \E w \in Feeders : RunFeed(w)
             \/ \E w \in Workers : StepFails(w) \/ Crash(w)
             \/ UNCHANGED vars
    BY <1>2 DEF Receive, Age, StayStarts, Recover, Tick, ReleaseStale, ClaimEvent, FetchForEvent,
       RunFeed, AcquireLease, FetchFeed, StepFails, Crash, vars
  <1>3. ASSUME NEW w \in Workers, Ingest(w) PROVE [Mirror!Next]_mirrored
    <2>1. UNCHANGED <<published, acked>>
      BY <1>3 DEF Ingest
    <2>2. worker[w].rev \in published /\ worker[w].rev \in Revisions
      BY <1>3, IngestForward DEF Inv, Typed
    <2>3. CASE reservation' = reservation
      BY <2>1, <2>3
    <2>4. CASE reservation'.at = At[worker[w].rev] /\ reservation.at < reservation'.at
      <3>1. Mirror!Apply(worker[w].rev)
        BY <2>1, <2>2, <2>4, RevisionAssumption DEF Mirror!Apply, Inv, Typed, ReservationRow
      <3> QED
        BY <2>2, <3>1 DEF Mirror!Next
    <2> QED
      BY <1>3, <2>3, <2>4, IngestForward
  <1>4. ASSUME NEW w \in Workers, Acknowledge(w) \/ AcknowledgeFails(w)
        PROVE  [Mirror!Next]_mirrored
    <2>1. worker[w].rev \in published /\ At[worker[w].rev] <= reservation.at
          /\ worker[w].rev \in Revisions
      BY <1>4, AckedReached DEF Acknowledge, AcknowledgeFails, Inv, Typed
    <2>2. acked' \in {acked, acked \cup {worker[w].rev}} /\ UNCHANGED <<published, reservation>>
      BY <1>4 DEF Acknowledge, AcknowledgeFails
    <2>3. CASE acked' = acked
      BY <2>2, <2>3
    <2>4. CASE acked' = acked \cup {worker[w].rev}
      <3>1. Mirror!Acknowledge(worker[w].rev)
        BY <2>1, <2>2, <2>4 DEF Mirror!Acknowledge
      <3> QED
        BY <2>1, <3>1 DEF Mirror!Next
    <2> QED
      BY <2>2, <2>3, <2>4
  <1>5. ASSUME NEW w \in Workers, Reconcile(w) PROVE [Mirror!Next]_mirrored
    BY <1>5 DEF Reconcile, Inv, Typed, ReservationRow
  <1>6. ASSUME NEW w \in Workers,
               \/ Classify(w) \/ RejectCancellation(w) \/ MarkSuperseded(w) \/ Recheck(w)
               \/ RecordPersisted(w) \/ RecordAcknowledged(w)
        PROVE  [Mirror!Next]_mirrored
    BY <1>6 DEF Classify, RejectCancellation, MarkSuperseded, Recheck, RecordPersisted,
       RecordAcknowledged
  <1> QED
    BY <1>1, <1>2, <1>3, <1>4, <1>5, <1>6 DEF Next, Revise

\* Only where the guard is effective, the ingestion implements the mirror: the
\* reservation only moves forward, whichever workers ingest at once, and nothing
\* is acknowledged that the reservation has not reached.
LEMMA MirrorWhereGuarded == ASSUME GuardEffective PROVE Spec => MirrorsForward
  <1>1. Init => Mirror!Init
    BY DEF Init, Mirror!Init, NoReservation
  <1>2. Inv /\ [Next]_vars => [Mirror!Next]_<<published, reservation.at, acked>>
    BY MirrorStep
  <1> QED
    BY <1>1, <1>2, Invariance, PTL DEF Spec, MirrorsForward, Mirror!Spec

-----------------------------------------------------------------------------
(* What an acknowledgement says of the reservation.                        *)

Distinct == \A r, s \in Revisions : At[r] = At[s] => r = s

Holds(r) == reservation.rev = r /\ (reservation.cancelled <=> r \in Cancels)

\* The reservation is what one revision says, or keeps what it was with a rejected
\* cancellation's instant; what was recorded or acknowledged, or is about to be,
\* is held by a reservation that is at its instant.
Faithful ==
    /\ Exists => \/ reservation.rejected /\ \E c \in Cancels : At[c] = reservation.at
                 \/ reservation.at = At[reservation.rev] /\ Holds(reservation.rev)
    /\ \A r \in acked : reservation.at = At[r] => Holds(r)
    /\ \A r \in Revisions : audit[r] = "SUCCESS" =>
         At[r] <= reservation.at /\ (reservation.at = At[r] => Holds(r))
    /\ \A w \in Workers : worker[w].pc \in {"record", "ack"} /\ reservation.at = At[worker[w].rev]
                            => Holds(worker[w].rev)

\* A step that leaves the reservation and the recorded successes alone, and that
\* brings no worker to a record or an acknowledgement.
LEMMA KeepsFaithful ==
    ASSUME Inv, Faithful, NEW w \in Workers,
           UNCHANGED <<reservation.at, reservation.rev, reservation.cancelled, reservation.rejected>>,
           \A r \in acked' : r \in acked \/ (worker[w].pc = "ack" /\ r = worker[w].rev),
           \A r \in Revisions : audit'[r] = "SUCCESS" => audit[r] = "SUCCESS",
           \A v \in Workers : worker'[v].pc \in {"record", "ack"} =>
             \/ worker'[v] = worker[v]
             \/ v = w /\ (reservation.at = At[worker'[v].rev] => Holds(worker'[v].rev))
    PROVE  Faithful'
  BY DEF Faithful, Exists, Holds

\* The steps that record a revision as persisted or acknowledge it.
Concluding == {"record", "ack", "acked"}

\* A worker that rests, that scans or that fetches comes to none of them.
LEMMA RestingWorkers ==
    ASSUME Typed, NEW w \in Workers, Rests(w)
    PROVE  \A v \in Workers : worker'[v].pc \in Concluding => worker'[v] = worker[v]
  BY DEF Rests, Typed, Quiet, Concluding

LEMMA MovedWorkers ==
    ASSUME Typed, NEW w \in Workers, NEW pc, Goto(w, pc)
    PROVE  /\ \A v \in Workers : v # w => worker'[v] = worker[v]
           /\ worker'[w].pc = pc /\ worker'[w].rev = worker[w].rev
  BY DEF Goto, Typed, WorkerRow

LEMMA RecoverBrings ==
    ASSUME Typed, NEW w \in Recoverers, Recover(w)
    PROVE  /\ UNCHANGED <<reservation, acked, audit>>
           /\ \A v \in Workers : worker'[v].pc \in Concluding => worker'[v] = worker[v]
  <1>1. w \in Workers /\ worker[w] \in WorkerRow /\ UNCHANGED <<reservation, acked, audit>>
    BY DEF Workers, Typed, Recover, Tick, ReleaseStale, ClaimEvent, FetchForEvent
  <1>2. \A v \in Workers : v # w => worker'[v] = worker[v]
    BY DEF Workers, Typed, Recover, Tick, ReleaseStale, ClaimEvent, FetchForEvent, Leave
  <1>3. worker'[w].pc \notin Concluding
    <2>1. ASSUME NEW e, Leave(w, e) PROVE worker'[w].pc \notin Concluding
      BY <1>1, <2>1, LeaveRests DEF Rests, Quiet, Typed, Concluding
    <2>2. CASE Tick(w)
      BY <1>1, <2>2 DEF Tick, Idle, Typed, Concluding
    <2>3. CASE ReleaseStale(w)
      <3>1. PICK e : \/ worker[w].pc = "batch" /\ worker' = [worker EXCEPT ![w].stale = @ \ {e}]
                     \/ Leave(w, e)
        BY <2>3 DEF ReleaseStale
      <3> QED
        BY <1>1, <2>1, <3>1 DEF Typed, WorkerRow, Concluding
    <2>4. CASE ClaimEvent(w)
      <3>1. PICK e : \/ worker' = [worker EXCEPT ![w].pc = "fetch", ![w].event = e]
                     \/ Leave(w, e)
        BY <2>4 DEF ClaimEvent
      <3> QED
        BY <1>1, <2>1, <3>1 DEF Typed, WorkerRow, Concluding
    <2>5. CASE FetchForEvent(w)
      <3>1. \/ \E todo : worker' = [worker EXCEPT ![w].pc = "read", ![w].todo = todo]
            \/ \E e : Leave(w, e)
        BY <2>5 DEF FetchForEvent
      <3> QED
        BY <1>1, <2>1, <3>1 DEF Typed, WorkerRow, Concluding
    <2> QED
      BY <2>2, <2>3, <2>4, <2>5 DEF Recover
  <1> QED
    BY <1>1, <1>2, <1>3

LEMMA RunFeedBrings ==
    ASSUME Typed, NEW w \in Feeders, RunFeed(w)
    PROVE  /\ UNCHANGED <<reservation, acked, audit>>
           /\ \A v \in Workers : worker'[v].pc \in Concluding => worker'[v] = worker[v]
  <1>1. w \in Workers /\ worker[w] \in WorkerRow /\ UNCHANGED <<reservation, acked, audit>>
    BY DEF Workers, Typed, RunFeed, AcquireLease, FetchFeed
  <1>2. \A v \in Workers : v # w => worker'[v] = worker[v]
    BY DEF Workers, Typed, RunFeed, AcquireLease, FetchFeed, EndRun, Goto
  <1>3. worker'[w].pc \notin Concluding
    BY <1>1 DEF Typed, RunFeed, AcquireLease, FetchFeed, EndRun, Goto, Idle, WorkerRow, Concluding
  <1> QED
    BY <1>1, <1>2, <1>3

LEMMA RecordedOther ==
    ASSUME Inv, NEW r, NEW status, status # "SUCCESS"
    PROVE  \A s \in Revisions : Recorded(audit, r, status)[s] = "SUCCESS" => audit[s] = "SUCCESS"
  BY DEF Recorded, Inv, Typed

LEMMA EnvironmentFaithful ==
    ASSUME Inv, Faithful, \/ \E r \in Revisions : Publish(r)
                          \/ \E e \in Events : Receive(e) \/ Age(e)
                          \/ StayStarts
    PROVE  Faithful'
  BY DEF Publish, Receive, Age, StayStarts, Faithful, Exists, Holds

LEMMA RecoverFaithful ==
    ASSUME Inv, Faithful, NEW w \in Recoverers, Recover(w)
    PROVE  Faithful'
  BY RecoverBrings, KeepsFaithful DEF Inv, Workers, Concluding

LEMMA RunFeedFaithful ==
    ASSUME Inv, Faithful, NEW w \in Feeders, RunFeed(w)
    PROVE  Faithful'
  BY RunFeedBrings, KeepsFaithful DEF Inv, Workers, Concluding

LEMMA ClassifyFaithful == ASSUME Inv, Faithful, NEW w \in Workers, Classify(w) PROVE Faithful'
  <1>1. PICK r \in worker[w].todo :
          worker' = [worker EXCEPT ![w].pc = Action(r), ![w].rev = r, ![w].todo = @ \ {r}]
    BY DEF Classify
  <1>2. r \in Revisions
    BY DEF Inv, Typed, Fetched
  <1>3. /\ \A v \in Workers : v # w => worker'[v] = worker[v]
        /\ worker'[w].pc = Action(r) /\ worker'[w].rev = r
    BY <1>1 DEF Inv, Typed, WorkerRow
  <1>4. Action(r) \in {"record", "ack"} => audit[r] = "SUCCESS"
    BY DEF Action
  <1>5. Action(r) \in {"record", "ack"} /\ reservation.at = At[r] => Holds(r)
    BY <1>2, <1>4 DEF Faithful
  <1>6. UNCHANGED <<reservation, acked, audit>>
    BY DEF Classify
  <1> QED
    BY <1>3, <1>5, <1>6, KeepsFaithful

LEMMA RejectCancellationFaithful ==
    ASSUME Inv, Faithful, NEW w \in Workers, RejectCancellation(w) PROVE Faithful'
  <1>1. Rests(w)
    BY ThrowsRests DEF RejectCancellation, Inv
  <1>2. \A r \in Revisions : audit'[r] = "SUCCESS" => audit[r] = "SUCCESS"
    BY RecordedOther DEF RejectCancellation
  <1>3. UNCHANGED <<reservation, acked>>
    BY DEF RejectCancellation
  <1> QED
    BY <1>1, <1>2, <1>3, RestingWorkers, KeepsFaithful DEF Concluding, Inv

LEMMA MarkSupersededFaithful ==
    ASSUME Inv, Faithful, NEW w \in Workers, MarkSuperseded(w) PROVE Faithful'
  <1>1. \A r \in Revisions : audit'[r] = "SUCCESS" => audit[r] = "SUCCESS"
    BY RecordedOther DEF MarkSuperseded
  <1>2. UNCHANGED <<reservation, acked>>
    BY DEF MarkSuperseded
  <1>3. CASE Throws(w)
    BY <1>1, <1>2, <1>3, ThrowsRests, RestingWorkers, KeepsFaithful DEF Concluding, Inv
  <1>4. CASE GoOn(w, "ack")
    <2>1. worker[w].rev \in published /\ At[worker[w].rev] < reservation.at
      BY DEF MarkSuperseded, Inv, Fetched, Ahead, Handling
    <2>2. At[worker[w].rev] \in Nat /\ reservation.at \in Nat
      BY <2>1, RevisionAssumption DEF Inv, Typed, ReservationRow
    <2>3. reservation.at # At[worker[w].rev]
      BY <2>1, <2>2
    <2> QED
      BY <1>1, <1>2, <1>4, <2>3, MovedWorkers, KeepsFaithful DEF Inv, GoOn
  <1> QED
    BY <1>3, <1>4 DEF MarkSuperseded

LEMMA IngestFaithful ==
    ASSUME Inv, Faithful, GuardEffective, NEW w \in Workers, Ingest(w)
    PROVE  Faithful'
  <1> DEFINE r == worker[w].rev
  <1>1. UNCHANGED <<acked, audit>>
    BY DEF Ingest
  <1>2. /\ \A v \in Workers : v # w => worker'[v] = worker[v]
        /\ worker'[w].pc = "commit"
    BY DEF Ingest, Inv, Typed, WorkerRow
  <1>3. CASE reservation' = reservation
    BY <1>1, <1>2, <1>3, KeepsFaithful
  <1>4. CASE reservation'.at = At[r] /\ reservation.at < reservation'.at
    <2>1. reservation.at \in Nat /\ reservation'.at \in Nat /\ \A s \in Revisions : At[s] \in Nat
      BY <1>4, IngestForward, RevisionAssumption DEF Inv, Typed, ReservationRow
    <2>2. \A s \in acked : reservation'.at # At[s]
      BY <1>4, <2>1 DEF Inv, Typed, Ahead
    <2>3. \A s \in Revisions : audit[s] = "SUCCESS" =>
            At[s] <= reservation'.at /\ reservation'.at # At[s]
      BY <1>4, <2>1 DEF Faithful
    <2>4. ASSUME NEW v \in Workers, worker'[v].pc \in {"record", "ack"}
          PROVE  reservation'.at # At[worker'[v].rev]
      <3>1. worker'[v] = worker[v]
        BY <1>2, <2>4
      <3>2. worker[v].rev \in Revisions /\ At[worker[v].rev] <= reservation.at
        BY <2>4, <3>1 DEF Inv, Typed, Fetched, Ahead, Handling
      <3> QED
        BY <1>4, <2>1, <3>1, <3>2
    <2>5. \/ reservation'.rejected /\ \E c \in Cancels : At[c] = reservation'.at
          \/ reservation'.at = At[reservation'.rev] /\ Holds(reservation.rev)'
      <3>1. CASE reservation' = RejectedRow(r) /\ r \in Cancels
        BY <3>1 DEF RejectedRow, Inv, Typed, ReservationRow
      <3>2. CASE reservation' = [rev |-> r, at |-> At[r], cancelled |-> r \in Cancels,
                                 rejected |-> FALSE, paid |-> Collected, amount |-> Amount[r],
                                 reconciled |-> FALSE]
        <4>1. /\ reservation'.rev = r /\ reservation'.at = At[r]
              /\ reservation'.cancelled <=> r \in Cancels
          BY <3>2
        <4> QED
          BY <4>1 DEF Holds
      <3> QED
        BY <1>4, <2>1, <3>1, <3>2 DEF Ingest
    <2> QED
      BY <1>1, <2>2, <2>3, <2>4, <2>5 DEF Faithful, Exists, Holds
  <1> QED
    BY <1>3, <1>4, IngestForward

LEMMA ReconcileFaithful == ASSUME Inv, Faithful, NEW w \in Workers, Reconcile(w) PROVE Faithful'
  <1>1. UNCHANGED <<reservation.at, reservation.rev, reservation.cancelled, reservation.rejected>>
    BY DEF Reconcile, Inv, Typed, ReservationRow
  <1>2. UNCHANGED <<acked, audit>> /\ Goto(w, "recheck")
    BY DEF Reconcile, GoOn
  <1> QED
    BY <1>1, <1>2, MovedWorkers, KeepsFaithful DEF Inv

LEMMA RecheckFaithful ==
    ASSUME Inv, Faithful, Distinct, NEW w \in Workers, Recheck(w)
    PROVE  Faithful'
  <1> DEFINE r == worker[w].rev
             pc == IF CancellationRejected(r) THEN "reject" ELSE "record"
  <1>1. UNCHANGED <<reservation, acked, audit>> /\ Goto(w, pc)
    BY DEF Recheck, GoOn
  <1>2. r \in Revisions /\ At[r] <= reservation.at
    BY DEF Recheck, Inv, Typed, Fetched, Ahead, Handling
  <1>3. ASSUME pc = "record", reservation.at = At[r] PROVE Holds(r)
    <2>1. Exists
      BY <1>2, <1>3, RevisionAssumption DEF Inv, Priced
    <2>2. CASE reservation.rejected /\ \E c \in Cancels : At[c] = reservation.at
      BY <1>2, <1>3, <2>2, RevisionAssumption DEF Distinct, CancellationRejected
    <2>3. CASE reservation.at = At[reservation.rev] /\ Holds(reservation.rev)
      BY <1>2, <1>3, <2>1, <2>3 DEF Distinct, Exists, Inv, Typed, ReservationRow
    <2> QED
      BY <2>1, <2>2, <2>3 DEF Faithful
  <1> HIDE DEF pc
  <1>4. pc # "ack"
    BY DEF pc
  <1> QED
    BY <1>1, <1>3, <1>4, MovedWorkers, KeepsFaithful DEF Inv

LEMMA RecordPersistedFaithful ==
    ASSUME Inv, Faithful, NEW w \in Workers, RecordPersisted(w)
    PROVE  Faithful'
  <1> DEFINE r == worker[w].rev
  <1>1. UNCHANGED <<reservation, acked>>
    BY DEF RecordPersisted
  <1>2. At[r] <= reservation.at /\ (reservation.at = At[r] => Holds(r))
    BY DEF RecordPersisted, Faithful, Inv, Ahead
  <1>3. CASE Throws(w) /\ Refused(audit, r)
    <2>1. audit' = audit
      BY <1>3 DEF RecordPersisted, Recorded, Refused
    <2> QED
      BY <1>1, <1>3, <2>1, ThrowsRests, RestingWorkers, KeepsFaithful DEF Concluding, Inv
  <1>4. CASE GoOn(w, "ack")
    <2>1. /\ \A v \in Workers : v # w => worker'[v] = worker[v]
          /\ worker'[w].pc = "ack" /\ worker'[w].rev = r
      BY <1>4, MovedWorkers DEF Inv, GoOn
    <2>2. \A s \in Revisions : audit'[s] = "SUCCESS" => audit[s] = "SUCCESS" \/ s = r
      BY DEF RecordPersisted, Recorded, Inv, Typed
    <2> QED
      BY <1>1, <1>2, <2>1, <2>2 DEF Faithful, Exists, Holds
  <1> QED
    BY <1>3, <1>4 DEF RecordPersisted

LEMMA AcknowledgeFaithful == ASSUME Inv, Faithful, NEW w \in Workers, Acknowledge(w) PROVE Faithful'
  <1>1. UNCHANGED <<reservation, audit>> /\ worker[w].pc = "ack" /\ Goto(w, "acked")
        /\ acked' = acked \cup {worker[w].rev}
    BY DEF Acknowledge, GoOn
  <1> QED
    BY <1>1, MovedWorkers, KeepsFaithful DEF Inv

LEMMA EndingFaithful ==
    ASSUME Inv, Faithful, NEW w \in Workers,
           AcknowledgeFails(w) \/ RecordAcknowledged(w) \/ StepFails(w) \/ Crash(w)
    PROVE  Faithful'
  <1>1. Rests(w)
    BY ThrowsRests, AdvanceRests, EndRunRests
       DEF AcknowledgeFails, RecordAcknowledged, StepFails, Crash, Inv
  <1>2. UNCHANGED <<reservation, audit>>
    BY DEF AcknowledgeFails, RecordAcknowledged, StepFails, Crash
  <1>3. \A r \in acked' : r \in acked \/ (worker[w].pc = "ack" /\ r = worker[w].rev)
    BY DEF AcknowledgeFails, RecordAcknowledged, StepFails, Crash
  <1> QED
    BY <1>1, <1>2, <1>3, RestingWorkers, KeepsFaithful DEF Concluding, Inv

LEMMA NextFaithful ==
    ASSUME Inv, Faithful, GuardEffective, Distinct, [Next]_vars
    PROVE  Faithful'
  <1>1. CASE \/ \E r \in Revisions : Publish(r)
             \/ \E e \in Events : Receive(e) \/ Age(e)
             \/ StayStarts
    BY <1>1, EnvironmentFaithful
  <1>2. CASE \E w \in Recoverers : Recover(w)
    BY <1>2, RecoverFaithful
  <1>3. CASE \E w \in Feeders : RunFeed(w)
    BY <1>3, RunFeedFaithful
  <1>4. CASE \E w \in Workers : Revise(w)
    <2> PICK w \in Workers : Revise(w)
      BY <1>4
    <2>1. CASE RecordAcknowledged(w)
      BY <2>1, EndingFaithful
    <2>2. CASE ~RecordAcknowledged(w)
      BY <2>2, ClassifyFaithful, RejectCancellationFaithful, MarkSupersededFaithful,
         IngestFaithful, ReconcileFaithful, RecheckFaithful, RecordPersistedFaithful,
         AcknowledgeFaithful DEF Revise
    <2> QED
      BY <2>1, <2>2
  <1>5. CASE \E w \in Workers : AcknowledgeFails(w) \/ StepFails(w) \/ Crash(w)
    BY <1>5, EndingFaithful
  <1>6. CASE UNCHANGED vars
    BY <1>6 DEF vars, Faithful, Exists, Holds
  <1> QED
    BY <1>1, <1>2, <1>3, <1>4, <1>5, <1>6 DEF Next

\* Only where the guard is effective and no two revisions share their instant, whatever
\* was acknowledged and the reservation is at is what the reservation says:
\* no cancellation is acknowledged that was not applied.
LEMMA AppliedWhereGuarded ==
    ASSUME GuardEffective, Distinct
    PROVE  Spec => []AckedIsApplied
  <1>1. Init => Faithful
    BY DEF Init, Faithful, Exists, NoReservation, Idle
  <1>2. Inv /\ Faithful /\ [Next]_vars => Faithful'
    BY NextFaithful
  <1>3. Faithful => AckedIsApplied
    BY DEF Faithful, AckedIsApplied, Holds
  <1> QED
    BY <1>1, <1>2, <1>3, Invariance, PTL DEF Spec

-----------------------------------------------------------------------------
(* Types and limits: what holds of every revision, price and guard.  The    *)
(* claims an event may still get beyond its limit are those of the workers  *)
(* that scanned it before it was exhausted and wait to come to it.          *)

Waits(row, e) == e \in row.queue /\ (row.pc = "batch" \/ row.event # e)
Waiting(e) == {w \in Recoverers : Waits(worker[w], e)}

Limited(e) ==
    \/ event[e].attempts < MaxAttempts
    \/ event[e].attempts + Cardinality(Waiting(e)) <= MaxAttempts + Cardinality(Recoverers) - 1

Locked ==
    /\ lease \subseteq Feeders /\ \A v, w \in lease : v = w
    /\ \A w \in Feeders : w \in lease <=> worker[w].pc # "idle"

TypeInv ==
    /\ Typed /\ Fetched /\ Locked
    /\ reservation.rev \in published \cup {0} /\ faults \in 0 .. MaxFaults
    /\ \A e \in Events : Limited(e)

LEMMA WaitingFinite ==
    ASSUME NEW e
    PROVE  /\ IsFiniteSet(Waiting(e)) /\ Cardinality(Waiting(e)) \in Nat
           /\ Cardinality(Recoverers) \in Nat
           /\ \A w \in Recoverers \ Waiting(e) : Cardinality(Waiting(e)) <= Cardinality(Recoverers) - 1
  <1>1. IsFiniteSet(Recoverers) /\ Cardinality(Recoverers) \in Nat
    BY BoundAssumption, FS_CardinalityType
  <1>2. Waiting(e) \subseteq Recoverers
    BY DEF Waiting
  <1>3. IsFiniteSet(Waiting(e)) /\ Cardinality(Waiting(e)) \in Nat
    BY <1>1, <1>2, FS_Subset, FS_CardinalityType
  <1>4. ASSUME NEW w \in Recoverers \ Waiting(e)
        PROVE  Cardinality(Waiting(e)) <= Cardinality(Recoverers) - 1
    <2>1. Waiting(e) \subseteq Recoverers \ {w}
      BY <1>2
    <2>2. /\ IsFiniteSet(Recoverers \ {w})
          /\ Cardinality(Recoverers \ {w}) = Cardinality(Recoverers) - 1
      BY <1>1, FS_RemoveElement
    <2> QED
      BY <2>1, <2>2, FS_Subset
  <1> QED
    BY <1>1, <1>3, <1>4

\* Fewer workers wait for an event whose attempts stay.
LEMMA LimitKept ==
    ASSUME Typed, NEW e \in Events, Limited(e), event'[e].attempts = event[e].attempts,
           event[e].attempts < MaxAttempts \/ Waiting(e)' \subseteq Waiting(e)
    PROVE  Limited(e)'
  <1>1. CASE event[e].attempts < MaxAttempts
    BY <1>1 DEF Limited
  <1>2. CASE ~(event[e].attempts < MaxAttempts)
    <2>1. Waiting(e)' \subseteq Waiting(e)
      BY <1>2
    <2>2. IsFiniteSet(Waiting(e)) /\ Cardinality(Waiting(e)) \in Nat /\ Cardinality(Recoverers) \in Nat
      BY WaitingFinite
    <2>3. IsFiniteSet(Waiting(e)') /\ Cardinality(Waiting(e)') <= Cardinality(Waiting(e))
          /\ Cardinality(Waiting(e)') \in Nat
      BY <2>1, <2>2, FS_Subset, FS_CardinalityType
    <2>4. event[e].attempts \in Nat
      BY DEF Typed, EventRow
    <2>5. event[e].attempts + Cardinality(Waiting(e)) <= MaxAttempts + Cardinality(Recoverers) - 1
      BY <1>2 DEF Limited
    <2>6. event[e].attempts + Cardinality(Waiting(e)') <= MaxAttempts + Cardinality(Recoverers) - 1
      BY <2>2, <2>3, <2>4, <2>5, BoundAssumption
    <2> QED
      BY <2>6 DEF Limited
  <1> QED
    BY <1>1, <1>2

\* A step of worker w that leaves it with `row': its lock follows, and it waits for
\* no event that it did not wait for, unless it scanned the event just now.
Moves(w, row) ==
    /\ row \in WorkerRow /\ worker' = [worker EXCEPT ![w] = row]
    /\ row.todo \subseteq published
    /\ row.pc \in Handling => row.rev \in published
    /\ row.pc = "fetch" /\ w \in Recoverers => row.event \in Events
    /\ IF w \in Feeders
       THEN lease' = IF row.pc = "idle" THEN lease \ {w} ELSE lease \cup {w}
       ELSE lease' \ {w} = lease \ {w} /\ lease' \subseteq lease
    /\ w \in Feeders => worker[w].pc # "idle" \/ lease = {}
    /\ w \in Recoverers => \A e \in Events : Waits(row, e) =>
         Waits(worker[w], e) \/ event[e].attempts < MaxAttempts

EventsStay ==
    /\ EventsKept
    /\ \A e \in Events : event'[e].attempts = event[e].attempts

\* What any step of a worker does to the rest.
Around ==
    /\ published' = published /\ acked' \subseteq published
    /\ audit' \in [Revisions -> AuditStatus]
    /\ reservation' \in ReservationRow /\ reservation'.rev \in published \cup {0}
    /\ faults' \in 0 .. MaxFaults

LEMMA MovedTypes ==
    ASSUME TypeInv, NEW w \in Workers, NEW row, Moves(w, row), EventsKept, Around
    PROVE  Typed' /\ Fetched' /\ Locked' /\ reservation'.rev \in published' \cup {0}
           /\ faults' \in 0 .. MaxFaults
  <1>1. /\ worker' \in [Workers -> WorkerRow]
        /\ worker'[w] = row /\ \A v \in Workers : v # w => worker'[v] = worker[v]
    BY DEF TypeInv, Typed, Moves
  <1>2. Typed'
    BY <1>1 DEF TypeInv, Typed, EventsKept, Around
  <1>3. Fetched'
    BY <1>1 DEF TypeInv, Fetched, EventsKept, Around, Moves
  <1>4. Locked'
    <2>1. w \notin Feeders => lease' = lease
      <3> SUFFICES ASSUME w \notin Feeders PROVE lease' = lease
        OBVIOUS
      <3>1. lease' \ {w} = lease \ {w} /\ lease' \subseteq lease
        BY DEF Moves
      <3>2. w \notin lease
        BY DEF TypeInv, Locked
      <3> QED
        BY <3>1, <3>2
    <2>2. Feeders \subseteq Workers
      BY DEF Workers
    <2>3. CASE w \notin Feeders
      BY <1>1, <2>1, <2>2, <2>3 DEF TypeInv, Locked
    <2>4. CASE w \in Feeders
      <3>1. lease' = IF row.pc = "idle" THEN lease \ {w} ELSE lease \cup {w}
        BY <2>4 DEF Moves
      <3>2. lease \subseteq {w}  \/ lease' = lease \ {w}
        BY <2>4, <3>1 DEF Moves, TypeInv, Locked
      <3>3. (lease' \subseteq Feeders) /\ \A v, u \in lease' : v = u
        BY <2>4, <3>1, <3>2 DEF TypeInv, Locked
      <3>4. \A v \in Feeders : v \in lease' <=> worker'[v].pc # "idle"
        BY <1>1, <2>2, <2>4, <3>1 DEF TypeInv, Locked
      <3> QED
        BY <3>3, <3>4 DEF Locked
    <2> QED
      BY <2>3, <2>4
  <1> QED
    BY <1>2, <1>3, <1>4 DEF Around

LEMMA MoveTypes ==
    ASSUME TypeInv, NEW w \in Workers, NEW row, Moves(w, row), EventsStay, Around
    PROVE  TypeInv'
  <1>1. /\ Typed' /\ Fetched' /\ Locked' /\ reservation'.rev \in published' \cup {0}
        /\ faults' \in 0 .. MaxFaults
    BY MovedTypes DEF EventsStay
  <1>2. worker'[w] = row /\ \A v \in Workers : v # w => worker'[v] = worker[v]
    BY DEF TypeInv, Typed, Moves
  <1>3. ASSUME NEW e \in Events PROVE Limited(e)'
    <2>1. Waiting(e)' = {v \in Recoverers : Waits(worker'[v], e)}
      BY DEF Waiting, Waits
    <2>2. event[e].attempts < MaxAttempts \/ Waiting(e)' \subseteq Waiting(e)
      BY <1>2, <2>1 DEF Waiting, Moves, Workers
    <2> QED
      BY <2>2, LimitKept DEF TypeInv, EventsStay
  <1> QED
    BY <1>1, <1>3 DEF TypeInv

LEMMA SetEventStays ==
    ASSUME Typed, NEW e, NEW status \in {"PENDING", "PROCESSED", "FAILED"}, SetEvent(e, status)
    PROVE  EventsStay
  <1>1. EventsKept
    BY SetEventKeeps
  <1>2. \A f \in Events : event'[f].attempts = event[f].attempts
    BY DEF Typed, SetEvent, EventRow
  <1> QED
    BY <1>1, <1>2 DEF EventsStay

LEMMA LeaveMoves ==
    ASSUME TypeInv, NEW w \in Recoverers, NEW e, Leave(w, e), lease' = lease,
           worker[w].pc = "batch" \/ (worker[w].pc # "idle" /\ e = worker[w].event)
    PROVE  \E row : Moves(w, row)
  <1> DEFINE rest == worker[w].queue \ {e}
             row == IF rest = {} THEN Idle
                    ELSE [Idle EXCEPT !.pc = "batch", !.queue = rest,
                                      !.stale = worker[w].stale \cap rest]
  <1>1. worker[w] \in WorkerRow /\ w \notin Feeders
    BY RevisionAssumption DEF TypeInv, Typed, Workers
  <1>2. row \in WorkerRow /\ row.pc \in Quiet /\ row.todo = {} /\ row.queue \subseteq rest
    BY <1>1 DEF Idle, WorkerRow, Steps, Quiet
  <1>3. worker' = [worker EXCEPT ![w] = row]
    BY DEF Leave
  <1>4. row.pc \notin Handling /\ row.pc # "fetch"
    BY <1>2 DEF Quiet, Handling
  <1>5. ASSUME NEW f \in Events, Waits(row, f) PROVE Waits(worker[w], f)
    <2>1. f \in worker[w].queue /\ f # e
      BY <1>2, <1>5 DEF Waits
    <2> QED
      BY <2>1 DEF Waits
  <1> HIDE DEF row
  <1> QED
    BY <1>1, <1>2, <1>3, <1>4, <1>5 DEF Moves

LEMMA EndRunMoves ==
    ASSUME TypeInv, NEW w \in Workers, worker[w].pc # "idle", EndRun(w)
    PROVE  Moves(w, Idle)
  <1>1. Idle \in WorkerRow /\ Idle.pc = "idle" /\ Idle.todo = {} /\ Idle.queue = {}
    BY IdleType DEF Idle
  <1>2. Idle.pc \notin Handling
    BY <1>1 DEF Handling
  <1>3. \A e \in Events : ~Waits(Idle, e)
    BY <1>1 DEF Waits
  <1> QED
    BY <1>1, <1>2, <1>3 DEF Moves, EndRun

\* A worker that stays with its event, at another step of it.
LEMMA StayMoves ==
    ASSUME TypeInv, NEW w \in Workers, NEW row \in WorkerRow, worker' = [worker EXCEPT ![w] = row],
           lease' = lease, worker[w].pc \notin {"idle", "batch"}, row.pc \notin {"idle", "batch"},
           row.queue = worker[w].queue, row.event = worker[w].event,
           row.todo \subseteq published, row.pc \in Handling => row.rev \in published,
           row.pc # "fetch"
    PROVE  Moves(w, row)
  <1>1. w \in Feeders => w \in lease
    BY DEF TypeInv, Locked
  <1>2. w \in Feeders => lease = lease \cup {w}
    BY <1>1
  <1> QED
    BY <1>2 DEF Moves, Waits

LEMMA AdvanceMoves ==
    ASSUME TypeInv, NEW w \in Workers, worker[w].pc \notin {"idle", "batch"}, Advance(w)
    PROVE  (\E row : Moves(w, row)) /\ EventsStay
  <1>0. Typed /\ (UNCHANGED event => EventsStay)
    BY DEF TypeInv, Typed, EventsStay, EventsKept
  <1>1. CASE worker[w].todo # {}
    <2> DEFINE row == [worker[w] EXCEPT !.pc = "read", !.rev = 0, !.changed = FALSE]
    <2>1. /\ row \in WorkerRow /\ row.pc = "read" /\ row.todo = worker[w].todo
          /\ row.queue = worker[w].queue /\ row.event = worker[w].event
      <3>1. worker[w] \in WorkerRow
        BY DEF TypeInv, Typed
      <3>2. "read" \in Steps
        BY DEF Steps
      <3> QED
        BY <3>1, <3>2 DEF WorkerRow
    <2>2. worker' = [worker EXCEPT ![w] = row] /\ UNCHANGED <<event, lease>>
      BY <1>1 DEF Advance, TypeInv, Typed
    <2>3. row.todo \subseteq published /\ row.pc \notin Handling
      BY <2>1 DEF TypeInv, Fetched, Handling
    <2> HIDE DEF row
    <2> QED
      BY <1>0, <2>1, <2>2, <2>3, StayMoves
  <1>2. CASE worker[w].todo = {} /\ w \in Recoverers
    BY <1>0, <1>2, LeaveMoves, SetEventStays DEF Advance
  <1>3. CASE worker[w].todo = {} /\ w \notin Recoverers
    BY <1>0, <1>3, EndRunMoves DEF Advance
  <1> QED
    BY <1>1, <1>2, <1>3

LEMMA ThrowsMoves ==
    ASSUME TypeInv, NEW w \in Workers, worker[w].pc \notin {"idle", "batch"}, Throws(w)
    PROVE  (\E row : Moves(w, row)) /\ EventsStay
  <1>1. CASE w \in Recoverers
    BY <1>1, LeaveMoves, SetEventStays DEF Throws, TypeInv
  <1>2. CASE w \notin Recoverers
    BY <1>2, AdvanceMoves DEF Throws
  <1> QED
    BY <1>1, <1>2

LEMMA GoOnMoves ==
    ASSUME TypeInv, NEW w \in Workers, worker[w].pc \notin {"idle", "batch"},
           NEW pc \in Handling, GoOn(w, pc), worker[w].rev \in published
    PROVE  (\E row : Moves(w, row)) /\ EventsStay
  <1> DEFINE row == [worker[w] EXCEPT !.pc = pc]
  <1>1. pc \in Steps /\ pc \notin {"idle", "batch", "fetch"}
    BY DEF Handling, Steps
  <1>2. /\ row \in WorkerRow /\ row.pc = pc /\ row.todo = worker[w].todo
        /\ row.queue = worker[w].queue /\ row.event = worker[w].event /\ row.rev = worker[w].rev
    BY <1>1 DEF TypeInv, Typed, WorkerRow
  <1>3. worker' = [worker EXCEPT ![w] = row] /\ UNCHANGED <<event, lease>>
    BY DEF GoOn, Goto
  <1>4. row.todo \subseteq published
    BY <1>2 DEF TypeInv, Fetched
  <1> HIDE DEF row
  <1>5. Moves(w, row)
    BY <1>1, <1>2, <1>3, <1>4, StayMoves
  <1>6. EventsStay
    BY <1>3 DEF TypeInv, Typed, EventsStay, EventsKept
  <1> QED
    BY <1>5, <1>6

LEMMA AroundStays ==
    ASSUME TypeInv, UNCHANGED <<published, reservation>>, acked' \subseteq published,
           audit' \in [Revisions -> AuditStatus], faults' \in 0 .. MaxFaults
    PROVE  Around
  BY DEF TypeInv, Typed, Around

LEMMA HandledRevision ==
    ASSUME TypeInv, NEW w \in Workers, worker[w].pc \in Handling
    PROVE  worker[w].rev \in published /\ worker[w].pc \notin {"idle", "batch"}
  BY DEF TypeInv, Fetched, Handling

LEMMA TickTypes == ASSUME TypeInv, NEW w \in Recoverers, Tick(w) PROVE TypeInv'
  <1> DEFINE scan == {e \in Events : Recoverable(e) /\ Retryable(e)}
             row == IF scan = {} THEN Idle
                    ELSE [Idle EXCEPT !.pc = "batch", !.queue = scan,
                                      !.stale = {e \in scan : Stale(e)}]
  <1>1. w \in Workers /\ w \notin Feeders
    BY RevisionAssumption DEF Workers
  <1>2. row \in WorkerRow /\ row.pc \in Quiet /\ row.todo = {} /\ row.queue \subseteq scan
    BY DEF Idle, WorkerRow, Steps, Quiet
  <1>3. worker' = [worker EXCEPT ![w] = row] /\ lease' = lease
    BY DEF Tick
  <1>4. \A e \in Events : Waits(row, e) => event[e].attempts < MaxAttempts
    BY <1>2 DEF Waits, Retryable
  <1>5. row.pc \notin Handling /\ row.pc # "fetch"
    BY <1>2 DEF Quiet, Handling
  <1> HIDE DEF row
  <1>6. Moves(w, row)
    BY <1>1, <1>2, <1>3, <1>4, <1>5 DEF Moves
  <1>7. EventsStay
    <2>1. EventsKept
      BY <1>1, TickEvents DEF TypeInv
    <2>2. \A e \in Events : event'[e].attempts = event[e].attempts
      BY <1>1, TickEvents DEF TypeInv
    <2> QED
      BY <2>1, <2>2 DEF EventsStay
  <1>8. Around
    BY AroundStays DEF Tick, TypeInv, Typed
  <1> QED
    BY <1>1, <1>6, <1>7, <1>8, MoveTypes

LEMMA ReleaseStaleTypes == ASSUME TypeInv, NEW w \in Recoverers, ReleaseStale(w) PROVE TypeInv'
  <1>1. PICK e \in worker[w].stale : /\ IsNextEvent(w, e) /\ worker[w].pc = "batch"
            /\ IF Stale(e) /\ Retryable(e)
               THEN /\ SetEvent(e, "FAILED")
                    /\ worker' = [worker EXCEPT ![w].stale = @ \ {e}]
               ELSE Leave(w, e) /\ UNCHANGED event
    BY DEF ReleaseStale
  <1>2. w \in Workers /\ w \notin Feeders /\ lease' = lease /\ worker[w] \in WorkerRow
    BY RevisionAssumption DEF Workers, ReleaseStale, TypeInv, Typed
  <1>3. Around
    BY AroundStays DEF ReleaseStale, TypeInv, Typed
  <1>4. CASE Stale(e) /\ Retryable(e)
    <2> DEFINE row == [worker[w] EXCEPT !.stale = @ \ {e}]
    <2>1. /\ row \in WorkerRow /\ row.pc = "batch" /\ row.todo = worker[w].todo
          /\ row.queue = worker[w].queue
      BY <1>1, <1>2 DEF WorkerRow
    <2>2. worker' = [worker EXCEPT ![w] = row] /\ SetEvent(e, "FAILED")
      BY <1>1, <1>4
    <2>3. row.todo \subseteq published /\ row.pc \notin Handling
      BY <1>2, <2>1 DEF TypeInv, Fetched, Handling
    <2> HIDE DEF row
    <2>4. \A f \in Events : Waits(row, f) => Waits(worker[w], f)
      BY <1>1, <2>1 DEF Waits
    <2>5. Moves(w, row)
      BY <1>2, <2>1, <2>2, <2>3, <2>4 DEF Moves
    <2> QED
      BY <1>2, <1>3, <2>2, <2>5, SetEventStays, MoveTypes DEF TypeInv
  <1>5. CASE ~(Stale(e) /\ Retryable(e))
    <2>1. Leave(w, e) /\ UNCHANGED event
      BY <1>1, <1>5
    <2>2. EventsStay
      BY <2>1 DEF EventsStay, EventsKept, TypeInv, Typed
    <2> QED
      BY <1>1, <1>2, <1>3, <2>1, <2>2, LeaveMoves, MoveTypes
  <1> QED
    BY <1>4, <1>5

\* A claim takes one of the waiting workers away, and the first to exhaust the event
\* is not waiting for it.
LEMMA ClaimEventTypes == ASSUME TypeInv, NEW w \in Recoverers, ClaimEvent(w) PROVE TypeInv'
  <1>1. PICK e \in worker[w].queue \ worker[w].stale : /\ worker[w].pc = "batch"
            /\ IF Claimable(e)
               THEN /\ event' = [event EXCEPT ![e].status = "PROCESSING", ![e].attempts = @ + 1,
                                              ![e].aged = FALSE]
                    /\ worker' = [worker EXCEPT ![w].pc = "fetch", ![w].event = e]
               ELSE Leave(w, e) /\ UNCHANGED event
    BY DEF ClaimEvent
  <1>2. /\ w \in Workers /\ w \notin Feeders /\ lease' = lease /\ worker[w] \in WorkerRow
        /\ e \in Events
    BY RevisionAssumption DEF Workers, ClaimEvent, TypeInv, Typed, WorkerRow
  <1>3. Around
    BY AroundStays DEF ClaimEvent, TypeInv, Typed
  <1>4. CASE Claimable(e)
    <2> DEFINE row == [worker[w] EXCEPT !.pc = "fetch", !.event = e]
    <2>1. /\ row \in WorkerRow /\ row.pc = "fetch" /\ row.todo = worker[w].todo /\ row.event = e
          /\ row.queue = worker[w].queue
      BY <1>2 DEF WorkerRow, Steps
    <2>2. worker' = [worker EXCEPT ![w] = row]
      BY <1>1, <1>4 DEF TypeInv, Typed
    <2>3. row.todo \subseteq published /\ row.pc \notin Handling
      BY <1>2, <2>1 DEF TypeInv, Fetched, Handling
    <2> HIDE DEF row
    <2>4. \A f \in Events : Waits(row, f) => Waits(worker[w], f) /\ f # e
      BY <1>1, <2>1 DEF Waits
    <2>5. Moves(w, row)
      BY <1>2, <2>1, <2>2, <2>3, <2>4 DEF Moves
    <2>6. event[e] \in EventRow
      BY <1>2 DEF TypeInv, Typed
    <2>7. /\ event' \in [Events -> EventRow]
          /\ event'[e].about = event[e].about /\ event'[e].attempts = event[e].attempts + 1
          /\ \A f \in Events \ {e} : event'[f] = event[f]
      BY <1>1, <1>2, <1>4, <2>6 DEF TypeInv, Typed, EventRow
    <2>8. EventsKept
      BY <2>7 DEF EventsKept
    <2>9. /\ Typed' /\ Fetched' /\ Locked' /\ reservation'.rev \in published' \cup {0}
          /\ faults' \in 0 .. MaxFaults
      BY <1>2, <1>3, <2>5, <2>8, MovedTypes
    <2>10. worker'[w] = row /\ \A v \in Workers : v # w => worker'[v] = worker[v]
      BY <1>2, <2>2 DEF TypeInv, Typed
    <2>11. ASSUME NEW f \in Events
           PROVE  Waiting(f)' = Waiting(f) \ {w} \/ (f # e /\ Waiting(f)' \subseteq Waiting(f))
      <3>1. Waiting(f)' = {v \in Recoverers : Waits(worker'[v], f)}
        BY DEF Waiting, Waits
      <3>2. Recoverers \subseteq Workers
        BY DEF Workers
      <3> QED
        BY <2>4, <2>10, <3>1, <3>2 DEF Waiting
    <2>12. ASSUME NEW f \in Events, f # e PROVE Limited(f)'
      <3>1. Waiting(f)' \subseteq Waiting(f)
        BY <2>11
      <3>2. event'[f].attempts = event[f].attempts
        BY <2>7, <2>12
      <3>3. Limited(f) /\ Typed
        BY DEF TypeInv
      <3> QED
        BY <3>1, <3>2, <3>3, LimitKept
    <2>13. Limited(e)'
      <3>1. Waiting(e)' = Waiting(e) \ {w} /\ w \in Waiting(e)
        BY <1>1, <1>2, <2>11 DEF Waiting, Waits
      <3>2. /\ IsFiniteSet(Waiting(e)) /\ Cardinality(Waiting(e)) \in Nat
            /\ Cardinality(Recoverers) \in Nat /\ IsFiniteSet(Recoverers)
        BY WaitingFinite, BoundAssumption
      <3>3. Cardinality(Waiting(e)') = Cardinality(Waiting(e)) - 1
        BY <3>1, <3>2, FS_RemoveElement
      <3>4. Cardinality(Waiting(e)) <= Cardinality(Recoverers)
        <4>1. Waiting(e) \subseteq Recoverers
          BY DEF Waiting
        <4> QED
          BY <3>2, <4>1, FS_Subset
      <3>5. event[e].attempts \in Nat
        BY <2>6 DEF EventRow
      <3>6. Limited(e)
        BY <1>2 DEF TypeInv
      <3>7. event[e].attempts + 1 + Cardinality(Waiting(e)')
              <= MaxAttempts + Cardinality(Recoverers) - 1
        BY <3>2, <3>3, <3>4, <3>5, <3>6, BoundAssumption DEF Limited
      <3> QED
        BY <2>7, <3>7 DEF Limited
    <2> QED
      BY <2>9, <2>12, <2>13 DEF TypeInv
  <1>5. CASE ~Claimable(e)
    <2>1. Leave(w, e) /\ UNCHANGED event
      BY <1>1, <1>5
    <2>2. EventsStay
      BY <2>1 DEF EventsStay, EventsKept, TypeInv, Typed
    <2> QED
      BY <1>1, <1>2, <1>3, <2>1, <2>2, LeaveMoves, MoveTypes
  <1> QED
    BY <1>4, <1>5

LEMMA FetchForEventTypes == ASSUME TypeInv, NEW w \in Recoverers, FetchForEvent(w) PROVE TypeInv'
  <1> DEFINE todo == IF event[worker[w].event].about # Unnamed
                     THEN {event[worker[w].event].about} ELSE Feed
  <1>1. /\ w \in Workers /\ w \notin Feeders /\ lease' = lease /\ worker[w] \in WorkerRow
        /\ worker[w].pc = "fetch"
    BY RevisionAssumption DEF Workers, FetchForEvent, TypeInv, Typed
  <1>2. Around
    BY AroundStays DEF FetchForEvent, TypeInv, Typed
  <1>3. CASE todo = {}
    <2>1. SetEvent(worker[w].event, "PROCESSED") /\ Leave(w, worker[w].event)
      BY <1>3 DEF FetchForEvent
    <2> QED
      BY <1>1, <1>2, <2>1, LeaveMoves, SetEventStays, MoveTypes DEF TypeInv
  <1>4. CASE todo # {}
    <2> DEFINE row == [worker[w] EXCEPT !.pc = "read", !.todo = todo]
    <2>1. worker[w].event \in Events
      BY <1>1 DEF TypeInv, Fetched
    <2>2. todo \subseteq published /\ todo \subseteq Revisions
      BY <2>1 DEF TypeInv, Typed, Fetched, Unnamed, Feed
    <2>3. worker' = [worker EXCEPT ![w].pc = "read", ![w].todo = todo] /\ UNCHANGED event
      BY <1>4 DEF FetchForEvent
    <2>4. worker' = [worker EXCEPT ![w] = row] /\ UNCHANGED event
      BY <2>3 DEF TypeInv, Typed
    <2> HIDE DEF todo
    <2>5. /\ row \in WorkerRow /\ row.pc = "read" /\ row.todo = todo
          /\ row.queue = worker[w].queue /\ row.event = worker[w].event
      BY <1>1, <2>2 DEF WorkerRow, Steps
    <2>6. row.pc \notin Handling
      BY <2>5 DEF Handling
    <2> HIDE DEF row
    <2>7. Moves(w, row)
      BY <1>1, <2>2, <2>4, <2>5, <2>6, StayMoves
    <2>8. EventsStay
      BY <2>4 DEF EventsStay, EventsKept, TypeInv, Typed
    <2> QED
      BY <1>1, <1>2, <2>7, <2>8, MoveTypes
  <1> QED
    BY <1>3, <1>4

LEMMA AcquireLeaseTypes == ASSUME TypeInv, NEW w \in Feeders, AcquireLease(w) PROVE TypeInv'
  <1> DEFINE row == [worker[w] EXCEPT !.pc = "fetch"]
  <1>1. w \in Workers /\ w \notin Recoverers /\ worker[w] \in WorkerRow
    BY RevisionAssumption DEF Workers, TypeInv, Typed
  <1>2. /\ row \in WorkerRow /\ row.pc = "fetch" /\ row.todo = worker[w].todo
    BY <1>1 DEF WorkerRow, Steps
  <1>3. worker' = [worker EXCEPT ![w] = row] /\ UNCHANGED event
    BY DEF AcquireLease, Goto
  <1>4. row.todo \subseteq published /\ row.pc \notin Handling
    BY <1>1, <1>2 DEF TypeInv, Fetched, Handling
  <1> HIDE DEF row
  <1>5. lease = {} /\ lease' = lease \cup {w}
    BY DEF AcquireLease
  <1>6. Moves(w, row)
    BY <1>1, <1>2, <1>3, <1>4, <1>5 DEF Moves
  <1>7. EventsStay
    BY <1>3 DEF EventsStay, EventsKept, TypeInv, Typed
  <1>8. Around
    BY AroundStays DEF AcquireLease, TypeInv, Typed
  <1> QED
    BY <1>1, <1>6, <1>7, <1>8, MoveTypes

LEMMA FetchFeedTypes == ASSUME TypeInv, NEW w \in Feeders, FetchFeed(w) PROVE TypeInv'
  <1> DEFINE todo == Selected(Feed)
  <1>1. /\ w \in Workers /\ w \notin Recoverers /\ worker[w] \in WorkerRow
        /\ worker[w].pc = "fetch" /\ UNCHANGED event
    BY RevisionAssumption DEF Workers, FetchFeed, TypeInv, Typed
  <1>2. Around
    BY AroundStays DEF FetchFeed, TypeInv, Typed
  <1>3. EventsStay
    BY <1>1 DEF EventsStay, EventsKept, TypeInv, Typed
  <1>4. CASE todo = {}
    <2>1. EndRun(w)
      BY <1>4 DEF FetchFeed
    <2> QED
      BY <1>1, <1>2, <1>3, <2>1, EndRunMoves, MoveTypes
  <1>5. CASE todo # {}
    <2> DEFINE row == [worker[w] EXCEPT !.pc = "read", !.todo = todo]
    <2>1. todo \subseteq published /\ todo \subseteq Revisions
      BY DEF Selected, Feed, TypeInv, Typed
    <2>2. worker' = [worker EXCEPT ![w].pc = "read", ![w].todo = todo] /\ lease' = lease
      BY <1>5 DEF FetchFeed
    <2>3. worker' = [worker EXCEPT ![w] = row]
      BY <2>2 DEF TypeInv, Typed
    <2> HIDE DEF todo
    <2>4. /\ row \in WorkerRow /\ row.pc = "read" /\ row.todo = todo
          /\ row.queue = worker[w].queue /\ row.event = worker[w].event
      BY <1>1, <2>1 DEF WorkerRow, Steps
    <2>5. row.pc \notin Handling
      BY <2>4 DEF Handling
    <2> HIDE DEF row
    <2>6. Moves(w, row)
      BY <1>1, <2>1, <2>2, <2>3, <2>4, <2>5, StayMoves
    <2> QED
      BY <1>1, <1>2, <1>3, <2>6, MoveTypes
  <1> QED
    BY <1>4, <1>5

LEMMA ClassifyTypes == ASSUME TypeInv, NEW w \in Workers, Classify(w) PROVE TypeInv'
  <1>1. PICK r \in worker[w].todo :
          worker' = [worker EXCEPT ![w].pc = Action(r), ![w].rev = r, ![w].todo = @ \ {r}]
    BY DEF Classify
  <1> DEFINE row == [worker[w] EXCEPT !.pc = Action(r), !.rev = r, !.todo = @ \ {r}]
  <1>2. r \in published /\ r \in Revisions /\ worker[w].todo \subseteq published
    BY DEF TypeInv, Typed, Fetched
  <1>3. Action(r) \in {"reject", "supersede", "ack", "ingest"}
    BY DEF Action
  <1>4. /\ row \in WorkerRow /\ row.pc = Action(r) /\ row.todo \subseteq worker[w].todo
        /\ row.rev = r /\ row.queue = worker[w].queue /\ row.event = worker[w].event
    BY <1>2, <1>3 DEF TypeInv, Typed, WorkerRow, Steps
  <1>5. worker' = [worker EXCEPT ![w] = row]
    BY <1>1 DEF TypeInv, Typed
  <1> HIDE DEF row
  <1>6. lease' = lease /\ UNCHANGED event /\ worker[w].pc = "read"
    BY DEF Classify
  <1>7. Moves(w, row)
    BY <1>2, <1>3, <1>4, <1>5, <1>6, StayMoves
  <1>8. EventsStay
    BY <1>6 DEF EventsStay, EventsKept, TypeInv, Typed
  <1>9. Around
    BY AroundStays DEF Classify, TypeInv, Typed
  <1> QED
    BY <1>7, <1>8, <1>9, MoveTypes

\* What the ingesting transaction makes of the row, whatever its guard does.
LEMMA IngestedRow ==
    ASSUME TypeInv, NEW w \in Workers, Ingest(w)
    PROVE  reservation' \in ReservationRow /\ reservation'.rev \in published \cup {0}
  <1> DEFINE r == worker[w].rev
             cancel == r \in Cancels
             new == [rev |-> r, at |-> At[r], cancelled |-> cancel, rejected |-> FALSE,
                     paid |-> Collected, amount |-> Amount[r], reconciled |-> FALSE]
  <1>1. r \in published /\ r \in Revisions /\ reservation \in ReservationRow
    BY HandledRevision DEF Ingest, Handling, TypeInv, Typed
  <1>2. At[r] \in Nat /\ Amount[r] \in Nat /\ Collected \in BOOLEAN
    BY <1>1, RevisionAssumption
  <1>3. CASE UNCHANGED reservation
    BY <1>1, <1>3 DEF TypeInv
  <1>4. CASE reservation' = RejectedRow(r)
    <2>1. RejectedRow(r) \in ReservationRow /\ RejectedRow(r).rev = reservation.rev
      BY <1>1, <1>2 DEF RejectedRow, ReservationRow
    <2> QED
      BY <1>4, <2>1 DEF TypeInv
  <1>5. CASE reservation' = new
    <2>1. cancel \in BOOLEAN
      OBVIOUS
    <2> HIDE DEF cancel
    <2>2. new \in ReservationRow /\ new.rev = r
      BY <1>1, <1>2, <2>1 DEF ReservationRow
    <2> QED
      BY <1>1, <1>5, <2>2
  <1> QED
    BY <1>3, <1>4, <1>5 DEF Ingest

LEMMA IngestTypes == ASSUME TypeInv, NEW w \in Workers, Ingest(w) PROVE TypeInv'
  <1>1. PICK changed \in BOOLEAN :
          worker' = [worker EXCEPT ![w].pc = "commit", ![w].changed = changed]
    BY DEF Ingest
  <1> DEFINE row == [worker[w] EXCEPT !.pc = "commit", !.changed = changed]
  <1>2. /\ row \in WorkerRow /\ row.pc = "commit" /\ row.todo = worker[w].todo
        /\ row.rev = worker[w].rev /\ row.queue = worker[w].queue /\ row.event = worker[w].event
    BY DEF TypeInv, Typed, WorkerRow, Steps
  <1>3. worker' = [worker EXCEPT ![w] = row]
    BY <1>1 DEF TypeInv, Typed
  <1> HIDE DEF row
  <1>4. worker[w].rev \in published /\ worker[w].pc = "ingest" /\ worker[w].todo \subseteq published
    BY HandledRevision DEF Ingest, Handling, TypeInv, Fetched
  <1>5. lease' = lease /\ UNCHANGED <<event, published, acked, audit, faults>>
    BY DEF Ingest
  <1>6. Moves(w, row)
    BY <1>2, <1>3, <1>4, <1>5, StayMoves
  <1>7. EventsStay
    BY <1>5 DEF EventsStay, EventsKept, TypeInv, Typed
  <1>8. Around
    BY <1>5, IngestedRow DEF Around, TypeInv, Typed
  <1> QED
    BY <1>6, <1>7, <1>8, MoveTypes

LEMMA ReconcileTypes == ASSUME TypeInv, NEW w \in Workers, Reconcile(w) PROVE TypeInv'
  <1>1. worker[w].rev \in published /\ worker[w].pc = "commit"
    BY HandledRevision DEF Reconcile, Handling
  <1>2. (\E row : Moves(w, row)) /\ EventsStay
    BY <1>1, GoOnMoves DEF Reconcile, Handling
  <1>3. reservation' \in ReservationRow /\ reservation'.rev = reservation.rev
    BY DEF Reconcile, TypeInv, Typed, ReservationRow, WorkerRow
  <1>4. Around
    BY <1>3 DEF Reconcile, GoOn, Around, TypeInv, Typed
  <1> QED
    BY <1>2, <1>4, MoveTypes

LEMMA AuditTypes ==
    ASSUME TypeInv, NEW r, NEW status \in AuditStatus
    PROVE  Recorded(audit, r, status) \in [Revisions -> AuditStatus]
  BY RecordedType DEF TypeInv

\* The steps that record or acknowledge a revision, and then go on or throw.
LEMMA RecordTypes ==
    ASSUME TypeInv, NEW w \in Workers,
           \/ RejectCancellation(w) \/ MarkSuperseded(w) \/ Recheck(w) \/ RecordPersisted(w)
    PROVE  TypeInv'
  <1>1. worker[w].pc \in Handling
    BY DEF RejectCancellation, MarkSuperseded, Recheck, RecordPersisted, Handling
  <1>2. \/ Throws(w) \/ GoOn(w, "ack")
        \/ GoOn(w, IF CancellationRejected(worker[w].rev) THEN "reject" ELSE "record")
    BY DEF RejectCancellation, MarkSuperseded, Recheck, RecordPersisted
  <1>3. Throws(w) \/ \E pc \in Handling : GoOn(w, pc)
    BY <1>2 DEF Handling
  <1>4. (\E row : Moves(w, row)) /\ EventsStay
    BY <1>1, <1>3, ThrowsMoves, GoOnMoves, HandledRevision
  <1>5. UNCHANGED <<published, reservation, acked>>
        /\ audit' \in [Revisions -> AuditStatus]
    BY AuditTypes DEF RejectCancellation, MarkSuperseded, Recheck, RecordPersisted,
       TypeInv, Typed, AuditStatus
  <1>6. faults' = faults
    BY DEF RejectCancellation, MarkSuperseded, Recheck, RecordPersisted
  <1>7. Around
    BY <1>5, <1>6, AroundStays DEF TypeInv, Typed
  <1> QED
    BY <1>4, <1>7, MoveTypes

LEMMA AcknowledgeTypes ==
    ASSUME TypeInv, NEW w \in Workers,
           \/ Acknowledge(w) \/ AcknowledgeFails(w) \/ RecordAcknowledged(w)
    PROVE  TypeInv'
  <1>1. worker[w].pc \in Handling
    BY DEF Acknowledge, AcknowledgeFails, RecordAcknowledged, Handling
  <1>2. Throws(w) \/ Advance(w) \/ \E pc \in Handling : GoOn(w, pc)
    BY DEF Acknowledge, AcknowledgeFails, RecordAcknowledged, Handling
  <1>3. (\E row : Moves(w, row)) /\ EventsStay
    BY <1>1, <1>2, ThrowsMoves, AdvanceMoves, GoOnMoves, HandledRevision
  <1>4. UNCHANGED <<published, reservation, audit>> /\ acked' \subseteq published
    BY <1>1, HandledRevision DEF Acknowledge, AcknowledgeFails, RecordAcknowledged, TypeInv, Typed
  <1>5. faults' \in 0 .. MaxFaults
    BY BoundAssumption DEF Acknowledge, AcknowledgeFails, RecordAcknowledged, TypeInv
  <1>6. Around
    BY <1>4, <1>5, AroundStays DEF TypeInv, Typed
  <1> QED
    BY <1>3, <1>6, MoveTypes

LEMMA FailTypes ==
    ASSUME TypeInv, NEW w \in Workers, StepFails(w) \/ Crash(w)
    PROVE  TypeInv'
  <1>1. faults' \in 0 .. MaxFaults
    BY BoundAssumption DEF StepFails, Crash, TypeInv
  <1>2. Around
    BY <1>1, AroundStays DEF StepFails, Crash, TypeInv, Typed
  <1>3. UNCHANGED event => EventsStay
    BY DEF EventsStay, EventsKept, TypeInv, Typed
  <1>4. (\E row : Moves(w, row)) /\ EventsStay
    <2>1. CASE EndRun(w) /\ UNCHANGED event
      <3>1. worker[w].pc # "idle"
        BY DEF StepFails, Crash
      <3> QED
        BY <1>3, <2>1, <3>1, EndRunMoves
    <2>2. CASE StepFails(w) /\ Throws(w)
      <3>1. worker[w].pc \notin {"idle", "batch"}
        BY <2>2 DEF StepFails
      <3> QED
        BY <2>2, <3>1, ThrowsMoves
    <2> QED
      BY <2>1, <2>2 DEF StepFails, Crash
  <1> QED
    BY <1>2, <1>4, MoveTypes

LEMMA EnvironmentTypes ==
    ASSUME TypeInv, \/ \E r \in Revisions : Publish(r)
                    \/ \E e \in Events : Receive(e) \/ Age(e)
                    \/ StayStarts
    PROVE  TypeInv'
  <1>1. UNCHANGED <<worker, lease, faults, reservation, acked, audit>>
    BY DEF Publish, Receive, Age, StayStarts
  <1>2. /\ published \subseteq published' /\ published' \subseteq Revisions
        /\ event' \in [Events -> EventRow]
        /\ \A e \in Events : /\ event'[e].attempts = event[e].attempts
                             /\ event'[e].about \in published' \cup {0}
    <2>1. CASE \E r \in Revisions : Publish(r)
      BY <2>1 DEF Publish, TypeInv, Typed, Fetched
    <2>2. CASE \E e \in Events : Receive(e)
      <3>1. PICK e \in Events, about \in published \cup {Unnamed} :
              event' = [event EXCEPT ![e].status = "PENDING", ![e].about = about]
        BY <2>2 DEF Receive
      <3>2. published' = published
        BY <2>2 DEF Receive
      <3>3. about \in published \cup {0} /\ published \subseteq Revisions
        BY DEF Unnamed, TypeInv, Typed
      <3>4. event \in [Events -> EventRow] /\ event[e] \in EventRow
        BY DEF TypeInv, Typed
      <3> DEFINE row == [event[e] EXCEPT !.status = "PENDING", !.about = about]
      <3>5. row \in EventRow /\ row.about = about /\ row.attempts = event[e].attempts
        BY <3>3, <3>4 DEF EventRow
      <3>6. event' = [event EXCEPT ![e] = row]
        BY <3>1, <3>4
      <3> HIDE DEF row
      <3>7. /\ event' \in [Events -> EventRow] /\ event'[e] = row
            /\ \A f \in Events \ {e} : event'[f] = event[f]
        BY <3>4, <3>5, <3>6
      <3> QED
        BY <3>2, <3>3, <3>5, <3>7 DEF TypeInv, Typed, Fetched
    <2>3. CASE \E e \in Events : Age(e)
      <3>1. PICK e \in Events : event' = [event EXCEPT ![e].aged = TRUE]
        BY <2>3 DEF Age
      <3>2. published' = published
        BY <2>3 DEF Age
      <3>3. event \in [Events -> EventRow] /\ event[e] \in EventRow
        BY DEF TypeInv, Typed
      <3> DEFINE row == [event[e] EXCEPT !.aged = TRUE]
      <3>4. row \in EventRow /\ row.about = event[e].about /\ row.attempts = event[e].attempts
        BY <3>3 DEF EventRow
      <3>5. event' = [event EXCEPT ![e] = row]
        BY <3>1, <3>3
      <3> HIDE DEF row
      <3>6. /\ event' \in [Events -> EventRow] /\ event'[e] = row
            /\ \A f \in Events \ {e} : event'[f] = event[f]
        BY <3>3, <3>4, <3>5
      <3> QED
        BY <3>2, <3>4, <3>6, <2>3 DEF Age, TypeInv, Typed, Fetched
    <2>4. CASE StayStarts
      BY <2>4 DEF StayStarts, TypeInv, Typed, Fetched
    <2> QED
      BY <2>1, <2>2, <2>3, <2>4
  <1>3. Typed' /\ Fetched' /\ Locked'
    BY <1>1, <1>2 DEF TypeInv, Typed, Fetched, Locked
  <1>4. \A e \in Events : Waiting(e)' = Waiting(e)
    BY <1>1 DEF Waiting, Waits
  <1>5. \A e \in Events : Limited(e)'
    BY <1>2, <1>4, LimitKept DEF TypeInv
  <1> QED
    BY <1>1, <1>2, <1>3, <1>5 DEF TypeInv

LEMMA NextTypes == ASSUME TypeInv, [Next]_vars PROVE TypeInv'
  <1>1. CASE \/ \E r \in Revisions : Publish(r)
             \/ \E e \in Events : Receive(e) \/ Age(e)
             \/ StayStarts
    BY <1>1, EnvironmentTypes
  <1>2. CASE \E w \in Recoverers : Recover(w)
    BY <1>2, TickTypes, ReleaseStaleTypes, ClaimEventTypes, FetchForEventTypes DEF Recover
  <1>3. CASE \E w \in Feeders : RunFeed(w)
    BY <1>3, AcquireLeaseTypes, FetchFeedTypes DEF RunFeed
  <1>4. CASE \E w \in Workers : Revise(w)
    BY <1>4, ClassifyTypes, IngestTypes, ReconcileTypes, RecordTypes, AcknowledgeTypes DEF Revise
  <1>5. CASE \E w \in Workers : AcknowledgeFails(w) \/ StepFails(w) \/ Crash(w)
    BY <1>5, AcknowledgeTypes, FailTypes
  <1>6. CASE UNCHANGED vars
    <2>1. Typed' /\ Fetched' /\ Locked'
      BY <1>6 DEF vars, TypeInv, Typed, Fetched, Locked
    <2>2. \A e \in Events : Limited(e)'
      BY <1>6 DEF vars, TypeInv, Limited, Waiting, Waits
    <2> QED
      BY <1>6, <2>1, <2>2 DEF vars, TypeInv
  <1> QED
    BY <1>1, <1>2, <1>3, <1>4, <1>5, <1>6 DEF Next

LEMMA InitTypes == Init => TypeInv
  <1> SUFFICES ASSUME Init PROVE TypeInv
    OBVIOUS
  <1>1. Typed
    BY IdleType DEF Init, Typed, EventRow, ReservationRow, NoReservation, AuditStatus, Unnamed
  <1>2. Fetched /\ Locked
    BY IdleType DEF Init, Fetched, Locked, Handling, Unnamed, Workers
  <1>3. \A e \in Events : Limited(e)
    BY BoundAssumption DEF Init, Limited
  <1> QED
    BY <1>1, <1>2, <1>3, BoundAssumption DEF Init, TypeInv, NoReservation

\* Whatever the prices and the guard, and however many workers there are: one feed
\* run holds the lock, no row names a revision that was not published, and an event
\* is claimed beyond its limit at most once by each of the other recovery workers,
\* those that had scanned it before.
THEOREM Types == Spec => []TypeOK
  <1>1. Init => TypeInv
    BY InitTypes
  <1>2. TypeInv /\ [Next]_vars => TypeInv'
    BY NextTypes
  <1>3. TypeInv => TypeOK
    <2> SUFFICES ASSUME TypeInv PROVE TypeOK
      OBVIOUS
    <2>1. ASSUME NEW e \in Events
          PROVE  event[e].attempts <= MaxAttempts + Cardinality(Recoverers) - 1
      <3>1. event[e].attempts \in Nat /\ Limited(e)
        BY DEF TypeInv, Typed, EventRow
      <3>2. Cardinality(Waiting(e)) \in Nat /\ Cardinality(Recoverers) \in Nat
        BY WaitingFinite
      <3> QED
        BY <3>1, <3>2, BoundAssumption DEF Limited
    <2>2. Cardinality(lease) <= 1
      <3>1. CASE lease = {}
        BY <3>1, FS_EmptySet
      <3>2. ASSUME NEW w \in lease PROVE Cardinality(lease) <= 1
        <4>1. lease = {w}
          BY DEF TypeInv, Locked
        <4>2. Cardinality({w}) = 1
          BY FS_Singleton
        <4> QED
          BY <4>1, <4>2
      <3> QED
        BY <3>1, <3>2
    <2> QED
      BY <2>1, <2>2 DEF TypeInv, Typed, Locked, TypeOK, WorkerRow
  <1> QED
    BY <1>1, <1>2, <1>3, PTL DEF Spec

-----------------------------------------------------------------------------
(* What holds of an acknowledgement and of the way back, whatever the      *)
(* prices and the guard.                                                   *)

Acknowledging == {"ack", "acked"}
Accepted == {"SUCCESS", "SKIPPED"}

\* What is acknowledged, or about to be, has its audit entry.
Backed ==
    /\ AckedIsRecorded
    /\ \A w \in Workers : worker[w].pc \in Acknowledging => audit[worker[w].rev] \in Accepted

\* Audit entries stay; a step acknowledges what its worker was about to, and brings to
\* the acknowledgement only a worker whose revision has its entry.
LEMMA KeepsBacked ==
    ASSUME TypeInv, Backed, NEW w \in Workers,
           \A r \in acked' : r \in acked \/ (worker[w].pc = "ack" /\ r = worker[w].rev),
           \A r \in Revisions : audit[r] \in Accepted => audit'[r] = audit[r],
           \A v \in Workers : worker'[v].pc \in Acknowledging =>
             worker'[v] = worker[v] \/ audit'[worker'[v].rev] \in Accepted
    PROVE  Backed'
  <1>1. ASSUME NEW v \in Workers, worker[v].pc \in Acknowledging
        PROVE  worker[v].rev \in Revisions /\ audit'[worker[v].rev] \in Accepted
    <2>1. worker[v].rev \in Revisions
      BY <1>1 DEF TypeInv, Typed, Fetched, Handling, Acknowledging
    <2> QED
      BY <1>1, <2>1 DEF Backed
  <1>2. ASSUME NEW v \in Workers, worker'[v].pc \in Acknowledging
        PROVE  audit'[worker'[v].rev] \in Accepted
    BY <1>1, <1>2
  <1>3. ASSUME NEW r \in acked' PROVE audit'[r] \in Accepted
    <2>1. CASE r \in acked
      BY <2>1 DEF Backed, AckedIsRecorded, Accepted, TypeInv, Typed
    <2>2. CASE worker[w].pc = "ack" /\ r = worker[w].rev
      BY <1>1, <2>2 DEF Acknowledging
    <2> QED
      BY <1>3, <2>1, <2>2
  <1> QED
    BY <1>2, <1>3 DEF Backed, AckedIsRecorded, Accepted

LEMMA RecordedStays ==
    ASSUME Typed, NEW r, NEW status
    PROVE  \A s \in Revisions : audit[s] \in Accepted => Recorded(audit, r, status)[s] = audit[s]
  BY DEF Typed, Recorded, Accepted

\* An entry that was not refused is the one that was written.
LEMMA RecordBacks ==
    ASSUME TypeInv, Backed, NEW w \in Workers, NEW status \in Accepted,
           worker[w].pc \in Handling, UNCHANGED acked,
           audit' = Recorded(audit, worker[w].rev, status),
           IF Refused(audit, worker[w].rev) THEN Throws(w) ELSE GoOn(w, "ack")
    PROVE  Backed'
  <1>1. worker[w].rev \in Revisions
    BY HandledRevision DEF TypeInv, Typed
  <1>2. \A r \in Revisions : audit[r] \in Accepted => audit'[r] = audit[r]
    BY RecordedStays DEF TypeInv
  <1>3. CASE Throws(w)
    BY <1>2, <1>3, ThrowsRests, RestingWorkers, KeepsBacked DEF TypeInv, Acknowledging, Concluding
  <1>4. CASE ~Refused(audit, worker[w].rev) /\ GoOn(w, "ack")
    <2>1. audit'[worker[w].rev] = status
      BY <1>1, <1>4 DEF Refused, Recorded, TypeInv, Typed
    <2>2. /\ \A v \in Workers : v # w => worker'[v] = worker[v]
          /\ worker'[w].rev = worker[w].rev
      BY <1>4, MovedWorkers DEF GoOn, TypeInv
    <2> QED
      BY <1>2, <2>1, <2>2, KeepsBacked
  <1> QED
    BY <1>3, <1>4

LEMMA ReviseBacked == ASSUME TypeInv, Backed, NEW w \in Workers, Revise(w) PROVE Backed'
  <1>1. CASE Classify(w)
    <2>1. PICK r \in worker[w].todo :
            worker' = [worker EXCEPT ![w].pc = Action(r), ![w].rev = r, ![w].todo = @ \ {r}]
      BY <1>1 DEF Classify
    <2>2. /\ \A v \in Workers : v # w => worker'[v] = worker[v]
          /\ worker'[w].pc = Action(r) /\ worker'[w].rev = r
      BY <2>1 DEF TypeInv, Typed, WorkerRow
    <2>3. Action(r) \in Acknowledging => audit[r] = "SUCCESS"
      BY DEF Action, Acknowledging
    <2>4. UNCHANGED <<acked, audit>>
      BY <1>1 DEF Classify
    <2> QED
      BY <2>2, <2>3, <2>4, KeepsBacked DEF Accepted
  <1>2. CASE RejectCancellation(w)
    <2>1. Rests(w) /\ UNCHANGED acked
      BY <1>2, ThrowsRests DEF RejectCancellation, TypeInv
    <2>2. \A r \in Revisions : audit[r] \in Accepted => audit'[r] = audit[r]
      BY <1>2, RecordedStays DEF RejectCancellation, TypeInv
    <2> QED
      BY <2>1, <2>2, RestingWorkers, KeepsBacked DEF TypeInv, Acknowledging, Concluding
  <1>3. CASE MarkSuperseded(w)
    BY <1>3, RecordBacks DEF MarkSuperseded, Accepted, Handling
  <1>4. CASE Ingest(w)
    <2>1. /\ \A v \in Workers : v # w => worker'[v] = worker[v]
          /\ worker'[w].pc = "commit" /\ UNCHANGED <<acked, audit>>
      BY <1>4 DEF Ingest, TypeInv, Typed, WorkerRow
    <2> QED
      BY <2>1, KeepsBacked DEF Acknowledging
  <1>5. CASE Reconcile(w) \/ Recheck(w)
    <2>1. \E pc \in {"recheck", "reject", "record"} : Goto(w, pc) /\ UNCHANGED <<acked, audit>>
      BY <1>5 DEF Reconcile, Recheck, GoOn
    <2> QED
      BY <2>1, MovedWorkers, KeepsBacked DEF TypeInv, Acknowledging
  <1>6. CASE RecordPersisted(w)
    BY <1>6, RecordBacks DEF RecordPersisted, Accepted, Handling
  <1>7. CASE Acknowledge(w)
    <2>1. /\ worker[w].pc = "ack" /\ Goto(w, "acked") /\ UNCHANGED audit
          /\ acked' = acked \cup {worker[w].rev}
      BY <1>7 DEF Acknowledge, GoOn
    <2>2. audit[worker[w].rev] \in Accepted
      BY <2>1 DEF Backed, Acknowledging
    <2> QED
      BY <2>1, <2>2, MovedWorkers, KeepsBacked DEF TypeInv
  <1>8. CASE RecordAcknowledged(w)
    <2>1. Rests(w) /\ UNCHANGED <<acked, audit>>
      BY <1>8, ThrowsRests, AdvanceRests DEF RecordAcknowledged, TypeInv
    <2> QED
      BY <2>1, RestingWorkers, KeepsBacked DEF TypeInv, Acknowledging, Concluding
  <1> QED
    BY <1>1, <1>2, <1>3, <1>4, <1>5, <1>6, <1>7, <1>8 DEF Revise

LEMMA NextBacked == ASSUME TypeInv, Backed, [Next]_vars PROVE Backed'
  <1>1. CASE \/ \E r \in Revisions : Publish(r)
             \/ \E e \in Events : Receive(e) \/ Age(e)
             \/ StayStarts \/ UNCHANGED vars
    BY <1>1 DEF Publish, Receive, Age, StayStarts, vars, Backed, AckedIsRecorded
  <1>2. CASE \E w \in Recoverers : Recover(w)
    BY <1>2, RecoverBrings, KeepsBacked DEF TypeInv, Workers, Acknowledging, Concluding
  <1>3. CASE \E w \in Feeders : RunFeed(w)
    BY <1>3, RunFeedBrings, KeepsBacked DEF TypeInv, Workers, Acknowledging, Concluding
  <1>4. CASE \E w \in Workers : Revise(w)
    BY <1>4, ReviseBacked
  <1>5. ASSUME NEW w \in Workers, AcknowledgeFails(w) \/ StepFails(w) \/ Crash(w)
        PROVE  Backed'
    <2>1. Rests(w) /\ UNCHANGED audit
      BY <1>5, ThrowsRests, EndRunRests DEF AcknowledgeFails, StepFails, Crash, TypeInv
    <2>2. \A r \in acked' : r \in acked \/ (worker[w].pc = "ack" /\ r = worker[w].rev)
      BY <1>5 DEF AcknowledgeFails, StepFails, Crash
    <2> QED
      BY <2>1, <2>2, RestingWorkers, KeepsBacked DEF TypeInv, Acknowledging, Concluding
  <1> QED
    BY <1>1, <1>2, <1>3, <1>4, <1>5 DEF Next

LEMMA TypesHold == Spec => []TypeInv
  BY InitTypes, NextTypes, PTL DEF Spec

\* Whatever the prices, the payments and the instants, and however many workers there
\* are: nothing is acknowledged that has no audit entry saying that it was persisted or
\* superseded.
THEOREM AcknowledgedIsRecorded == Spec => []AckedIsRecorded
  <1>1. Init => Backed
    BY DEF Init, Backed, AckedIsRecorded, Idle, Acknowledging
  <1>2. TypeInv /\ Backed /\ [Next]_vars => Backed'
    BY NextBacked
  <1>3. Backed => AckedIsRecorded
    BY DEF Backed
  <1> QED
    BY <1>1, <1>2, <1>3, TypesHold, PTL DEF Spec

\* No reservation has no instant.
Instant == ~Exists => reservation.at = 0

LEMMA RollbackStep ==
    ASSUME TypeInv, Instant, [Next]_vars
    PROVE  /\ Instant'
           /\ reservation'.at < reservation.at =>
                \/ reservation.paid
                \/ \E r \in published : At[r] = reservation'.at /\ Amount[r] # reservation.amount
  <1>1. CASE UNCHANGED reservation
    BY <1>1 DEF Instant, Exists, TypeInv, Typed, ReservationRow
  <1>2. ASSUME NEW w \in Workers, Reconcile(w)
        PROVE  reservation'.at = reservation.at /\ reservation'.rev = reservation.rev
    BY <1>2 DEF Reconcile, TypeInv, Typed, ReservationRow
  <1>3. ASSUME NEW w \in Workers, Ingest(w), ~UNCHANGED reservation
        PROVE  /\ reservation'.rev # 0
               /\ reservation'.at < reservation.at =>
                    \/ reservation.paid
                    \/ \E r \in published : At[r] = reservation'.at /\ Amount[r] # reservation.amount
    <2> DEFINE r == worker[w].rev
    <2>1. r \in published /\ r \in Revisions /\ r # 0 /\ At[r] \in Nat \ {0}
      BY <1>3, HandledRevision, RevisionAssumption DEF Ingest, Handling, TypeInv, Typed
    <2>2. reservation.at \in Nat /\ reservation \in ReservationRow
      BY DEF TypeInv, Typed, ReservationRow
    <2>3. reservation'.at = At[r] /\ reservation'.rev # 0
      <3>1. CASE Exists /\ reservation' = RejectedRow(r)
        BY <2>1, <2>2, <3>1 DEF RejectedRow, ReservationRow, Exists
      <3>2. CASE reservation' = [rev |-> r, at |-> At[r], cancelled |-> r \in Cancels,
                                 rejected |-> FALSE, paid |-> Collected, amount |-> Amount[r],
                                 reconciled |-> FALSE]
        BY <2>1, <3>2
      <3> QED
        BY <1>3, <3>1, <3>2 DEF Ingest
    <2>4. CASE ~Exists
      BY <2>1, <2>2, <2>3, <2>4 DEF Instant
    <2>5. CASE ~Unchanged(r)
      BY <2>1, <2>2, <2>3, <2>5 DEF Unchanged
    <2> QED
      BY <1>3, <2>3, <2>4, <2>5 DEF Ingest
  <1>4. ASSUME NEW w \in Workers, Ingest(w) \/ Reconcile(w)
        PROVE  /\ Instant'
               /\ reservation'.at < reservation.at =>
                    \/ reservation.paid
                    \/ \E r \in published : At[r] = reservation'.at /\ Amount[r] # reservation.amount
    <2>1. reservation.at \in Nat
      BY DEF TypeInv, Typed, ReservationRow
    <2> QED
      BY <1>1, <1>2, <1>3, <1>4, <2>1 DEF Instant, Exists
  <1>5. CASE \/ \E r \in Revisions : Publish(r)
             \/ \E e \in Events : Receive(e) \/ Age(e)
             \/ StayStarts \/ UNCHANGED vars
    BY <1>1, <1>5 DEF Publish, Receive, Age, StayStarts, vars
  <1>6. CASE \/ \E w \in Recoverers : Recover(w)
             \/ \E w \in Feeders : RunFeed(w)
    BY <1>1, <1>6, RecoverBrings, RunFeedBrings DEF TypeInv
  <1>7. CASE \E w \in Workers : AcknowledgeFails(w) \/ StepFails(w) \/ Crash(w)
    BY <1>1, <1>7 DEF AcknowledgeFails, StepFails, Crash
  <1>8. ASSUME NEW w \in Workers, Revise(w)
        PROVE  UNCHANGED reservation \/ Ingest(w) \/ Reconcile(w)
    BY <1>8 DEF Revise, Classify, RejectCancellation, MarkSuperseded, Recheck, RecordPersisted,
       Acknowledge, RecordAcknowledged
  <1> QED
    BY <1>1, <1>4, <1>5, <1>6, <1>7, <1>8 DEF Next

\* The reservation goes back in time only where the guard compares nothing: it is PAID,
\* or the older revision has another price.
THEOREM RolledBackOnlyPastGuard == Spec => RolledBackPastGuard
  <1>1. Init => Instant
    BY DEF Init, Instant, NoReservation
  <1>2. /\ TypeInv /\ Instant /\ [Next]_vars => Instant'
        /\ TypeInv /\ Instant /\ [Next]_vars =>
             [reservation'.at < reservation.at =>
                \/ reservation.paid
                \/ \E r \in published : At[r] = reservation'.at /\ Amount[r] # reservation.amount]_vars
    BY RollbackStep
  <1> QED
    BY <1>1, <1>2, TypesHold, PTL DEF Spec, RolledBackPastGuard
=============================================================================
