----------------------------- MODULE BookingFeed -----------------------------
(***************************************************************************)
(* Ingesting the revisions of one channel booking: the webhook recovery    *)
(* worker and the global feed worker fetch revisions, classify them        *)
(* against the reservation, ingest them, record an audit entry and         *)
(* acknowledge them (src/src/pms/ingest, services/ingest.service.ts,       *)
(* apms/audit-persistence.service.ts and the two workers).                 *)
(*                                                                         *)
(* Between the classification and the transaction that ingests, between    *)
(* the commit and the audit, and between the acknowledgement and its audit *)
(* other workers act and processes die.  Delays are not timed: a claimed   *)
(* event may go stale at any moment.  The channel is external.             *)
(***************************************************************************)
EXTENDS Integers, FiniteSets

CONSTANTS
    Revisions,       \* numbered in the order in which the channel publishes them
    At,              \* insertedAt of each revision
    Cancels,         \* the revisions that cancel the booking
    Amount,          \* the total amount of each revision
    Collected,       \* the channel collects the payment: the ingested state is PAID
    Events,          \* webhook events, numbered in the order of receipt
    Recoverers,      \* processes of the webhook recovery worker
    Feeders,         \* processes of the global feed worker
    MaxAttempts,     \* PMS_WEBHOOK_RECOVERY_MAX_ATTEMPTS
    MaxPerRun,       \* CHANNEX_GLOBAL_FEED_MAX_REVISIONS_PER_RUN
    MaxFaults        \* bound: crashes and failing steps

Unnamed == 0
Workers == Recoverers \cup Feeders

ASSUME RevisionAssumption ==
    /\ Revisions \subseteq Nat \ {0} /\ Events \subseteq Nat \ {0}
    /\ At \in [Revisions -> Nat \ {0}]
    /\ \A r, s \in Revisions : r < s => At[r] <= At[s]
    /\ Cancels \subseteq Revisions /\ Amount \in [Revisions -> Nat] /\ Collected \in BOOLEAN
    /\ Recoverers \cap Feeders = {}

ASSUME BoundAssumption ==
    /\ IsFiniteSet(Recoverers)
    /\ MaxAttempts \in Nat \ {0} /\ MaxPerRun \in Nat \ {0} /\ MaxFaults \in Nat

VARIABLES
    published,       \* revisions the channel has published
    acked,           \* revisions it has seen acknowledged; the feed holds the others
    event,           \* WebhookEventIngest rows
    reservation,     \* the Reservation row of the booking
    audit,           \* the ":persisted" entry of each revision
    ackAudit,        \* its ":ack" entry
    worker,          \* where each process is
    lease,           \* holder of the global feed's advisory lock, {} or {w}
    started,         \* the stay has begun
    faults

vars == <<published, acked, event, reservation, audit, ackAudit, worker, lease, started, faults>>

NoReservation ==
    [rev |-> 0, at |-> 0, cancelled |-> FALSE, rejected |-> FALSE, paid |-> FALSE,
     amount |-> 0, reconciled |-> TRUE]
Idle == [pc |-> "idle", queue |-> {}, stale |-> {}, event |-> 0, todo |-> {}, rev |-> 0,
         changed |-> FALSE]

Init ==
    /\ published = {} /\ acked = {}
    /\ event = [e \in Events |-> [status |-> "NONE", about |-> Unnamed, attempts |-> 0, aged |-> FALSE]]
    /\ reservation = NoReservation
    /\ audit = [r \in Revisions |-> "NONE"]
    /\ ackAudit = [r \in Revisions |-> "NONE"]
    /\ worker = [w \in Workers |-> Idle]
    /\ lease = {} /\ started = FALSE /\ faults = 0

Feed == published \ acked
\* selectOldestRevisions: the oldest ones, up to the budget of a run.
Selected(S) == {r \in S : Cardinality({s \in S : s < r}) < MaxPerRun}
Exists == reservation.rev # 0

-----------------------------------------------------------------------------
(* The channel and its webhooks; the stay; ageing of claimed events.       *)

Publish(r) ==
    /\ r \notin published /\ \A s \in Revisions : s < r => s \in published
    /\ published' = published \cup {r}
    /\ UNCHANGED <<acked, event, reservation, audit, ackAudit, worker, lease, started, faults>>
\* A webhook names a revision, or only the property.
Receive(e) ==
    /\ event[e].status = "NONE" /\ published # {}
    /\ \E about \in published \cup {Unnamed} :
         event' = [event EXCEPT ![e].status = "PENDING", ![e].about = about]
    /\ UNCHANGED <<published, acked, reservation, audit, ackAudit, worker, lease, started, faults>>
StayStarts ==
    /\ ~started /\ started' = TRUE
    /\ UNCHANGED <<published, acked, event, reservation, audit, ackAudit, worker, lease, faults>>
Age(e) ==
    /\ event[e].status = "PROCESSING" /\ ~event[e].aged
    /\ event' = [event EXCEPT ![e].aged = TRUE]
    /\ UNCHANGED <<published, acked, reservation, audit, ackAudit, worker, lease, started, faults>>

-----------------------------------------------------------------------------
(* The recovery worker's tick: exhausted events die, the others are         *)
(* scanned, released when stale, claimed and processed one after another.   *)

SetEvent(e, status) ==
    event' = [event EXCEPT ![e].status = status, ![e].aged = FALSE]
Goto(w, pc) == worker' = [worker EXCEPT ![w].pc = pc]
Stale(e) == event[e].status = "PROCESSING" /\ event[e].aged
Recoverable(e) == event[e].status \in {"PENDING", "FAILED"} \/ Stale(e)
Retryable(e) == event[e].attempts < MaxAttempts
Dies_OnlyFailed(e) == event[e].attempts >= MaxAttempts /\ event[e].status = "FAILED"
Dies(e) == event[e].attempts >= MaxAttempts /\ (event[e].status = "FAILED" \/ Stale(e))

Tick(w) ==
    /\ worker[w].pc = "idle"
    /\ event' = [e \in Events |->
                   IF Dies(e) THEN [event[e] EXCEPT !.status = "DEAD", !.aged = FALSE]
                              ELSE event[e]]
    /\ LET scan == {e \in Events : Recoverable(e) /\ Retryable(e)} IN
       worker' = [worker EXCEPT ![w] =
                    IF scan = {} THEN Idle
                    ELSE [Idle EXCEPT !.pc = "batch", !.queue = scan,
                                      !.stale = {e \in scan : Stale(e)}]]
    /\ UNCHANGED <<published, acked, reservation, audit, ackAudit, lease, started, faults>>

IsNextEvent(w, e) == e \in worker[w].queue /\ \A f \in worker[w].queue : e <= f
\* Done with event e: on to the next one of the batch.
Leave(w, e) ==
    LET rest == worker[w].queue \ {e} IN
    worker' = [worker EXCEPT ![w] =
                 IF rest = {} THEN Idle
                 ELSE [Idle EXCEPT !.pc = "batch", !.queue = rest,
                                   !.stale = worker[w].stale \cap rest]]

ReleaseStale(w) ==
    /\ worker[w].pc = "batch"
    /\ \E e \in worker[w].stale :
         /\ IsNextEvent(w, e)
         /\ IF Stale(e) /\ Retryable(e)
            THEN /\ SetEvent(e, "FAILED")
                 /\ worker' = [worker EXCEPT ![w].stale = @ \ {e}]
            ELSE Leave(w, e) /\ UNCHANGED event
    /\ UNCHANGED <<published, acked, reservation, audit, ackAudit, lease, started, faults>>

\* The claim does not look at the attempts again, nor at when the event was scanned.
Claimable(e) == event[e].status \in {"PENDING", "FAILED"}
ClaimEvent(w) ==
    /\ worker[w].pc = "batch"
    /\ \E e \in worker[w].queue \ worker[w].stale :
         /\ IsNextEvent(w, e)
         /\ IF Claimable(e)
            THEN /\ event' = [event EXCEPT ![e].status = "PROCESSING", ![e].attempts = @ + 1,
                                           ![e].aged = FALSE]
                 /\ worker' = [worker EXCEPT ![w].pc = "fetch", ![w].event = e]
            ELSE Leave(w, e) /\ UNCHANGED event
    /\ UNCHANGED <<published, acked, reservation, audit, ackAudit, lease, started, faults>>

\* getRevisions: the named revision, acknowledged or not, or what the feed holds.
\* An empty feed ends the event as processed (dispatchPmsWebhookEventById).
FetchForEvent(w) ==
    /\ w \in Recoverers /\ worker[w].pc = "fetch"
    /\ LET e == worker[w].event
           todo == IF event[e].about # Unnamed THEN {event[e].about} ELSE Feed IN
       IF todo = {}
       THEN SetEvent(e, "PROCESSED") /\ Leave(w, e)
       ELSE /\ worker' = [worker EXCEPT ![w].pc = "read", ![w].todo = todo]
            /\ UNCHANGED event
    /\ UNCHANGED <<published, acked, reservation, audit, ackAudit, lease, started, faults>>

-----------------------------------------------------------------------------
(* The global feed worker's run, under an advisory lock.                   *)

\* The run is over, or its process died: the session's lock is free.
EndRun_KeepsLock(w) == worker' = [worker EXCEPT ![w] = Idle] /\ UNCHANGED lease
EndRun(w) == worker' = [worker EXCEPT ![w] = Idle] /\ lease' = lease \ {w}
AcquireLease(w) ==
    /\ worker[w].pc = "idle" /\ lease = {}
    /\ lease' = {w} /\ Goto(w, "fetch")
    /\ UNCHANGED <<published, acked, event, reservation, audit, ackAudit, started, faults>>
FetchFeed(w) ==
    /\ w \in Feeders /\ worker[w].pc = "fetch"
    /\ LET todo == Selected(Feed) IN
       IF todo = {}
       THEN EndRun(w)
       ELSE /\ worker' = [worker EXCEPT ![w].pc = "read", ![w].todo = todo]
            /\ UNCHANGED lease
    /\ UNCHANGED <<published, acked, event, reservation, audit, ackAudit, started, faults>>

-----------------------------------------------------------------------------
(* One revision: persistChannexBookingRevision, then its acknowledgement.  *)

\* What follows a revision: the next one, or the end of the event or of the run.
Advance(w) ==
    IF worker[w].todo # {}
    THEN /\ worker' = [worker EXCEPT ![w].pc = "read", ![w].rev = 0, ![w].changed = FALSE]
         /\ UNCHANGED <<event, lease>>
    ELSE IF w \in Recoverers
    THEN SetEvent(worker[w].event, "PROCESSED") /\ Leave(w, worker[w].event) /\ UNCHANGED lease
    ELSE EndRun(w) /\ UNCHANGED event
\* A step throws: the event has failed, or the feed goes on with its next revision.
Throws(w) ==
    IF w \in Recoverers
    THEN SetEvent(worker[w].event, "FAILED") /\ Leave(w, worker[w].event) /\ UNCHANGED lease
    ELSE Advance(w)
GoOn(w, pc) == Goto(w, pc) /\ UNCHANGED <<event, lease>>

\* persistAuditEntry: an entry is immutable, and a later one that differs from it
\* throws.  Every entry carries its own start time, so a second one always differs.
Recorded(entries, r, status) ==
    IF entries[r] = "NONE" THEN [entries EXCEPT ![r] = status] ELSE entries
Refused_OnlySuccess(entries, r) == entries[r] = "SUCCESS"
Refused(entries, r) == entries[r] # "NONE"

\* classifyChannexRevisionLifecycle.
CancellationRejected(r) == r \in Cancels /\ reservation.rejected
Action(r) ==
    IF CancellationRejected(r) THEN "reject"
    ELSE IF Exists /\ At[r] < reservation.at THEN "supersede"
    ELSE IF Exists /\ At[r] = reservation.at /\ audit[r] = "SUCCESS" THEN "ack"
    ELSE "ingest"
\* The oldest of the revisions fetched (sortChannexRevisionsOldestFirst).
Classify(w) ==
    /\ worker[w].pc = "read"
    /\ \E r \in worker[w].todo :
         /\ \A s \in worker[w].todo : r <= s
         /\ worker' = [worker EXCEPT ![w].pc = Action(r), ![w].rev = r, ![w].todo = @ \ {r}]
    /\ UNCHANGED <<published, acked, event, reservation, audit, ackAudit, lease, started, faults>>

RejectCancellation(w) ==
    /\ worker[w].pc = "reject"
    /\ audit' = Recorded(audit, worker[w].rev, "FAILED")
    /\ Throws(w)
    /\ UNCHANGED <<published, acked, reservation, ackAudit, started, faults>>
MarkSuperseded(w) ==
    /\ worker[w].pc = "supersede"
    /\ audit' = Recorded(audit, worker[w].rev, "SKIPPED")
    /\ IF Refused(audit, worker[w].rev) THEN Throws(w) ELSE GoOn(w, "ack")
    /\ UNCHANGED <<published, acked, reservation, ackAudit, started, faults>>

\* upsertReservation.  The payment state is computed again from fields that the raw
\* booking does not have at that level, so it comes out as NONE.
Unchanged_SameOnly(r) ==
    ~reservation.paid /\ reservation.amount = Amount[r] /\ At[r] = reservation.at
Unchanged(r) ==
    /\ ~reservation.paid
    /\ reservation.amount = Amount[r]
    /\ At[r] <= reservation.at
\* A cancellation after the stay began: the row keeps its state, and says so.
RejectedRow_Silent(r) == [reservation EXCEPT !.at = At[r]]
RejectedRow(r) == [reservation EXCEPT !.at = At[r], !.rejected = TRUE]
Ingest(w) ==
    /\ worker[w].pc = "ingest"
    /\ LET r == worker[w].rev  cancel == r \in Cancels IN
       \/ /\ Exists /\ Unchanged(r)
          /\ worker' = [worker EXCEPT ![w].pc = "commit", ![w].changed = FALSE]
          /\ UNCHANGED reservation
       \/ /\ Exists /\ ~Unchanged(r) /\ cancel /\ started
          /\ worker' = [worker EXCEPT ![w].pc = "commit", ![w].changed = FALSE]
          /\ reservation' = RejectedRow(r)
       \/ /\ ~Exists \/ (~Unchanged(r) /\ ~(cancel /\ started))
          /\ worker' = [worker EXCEPT ![w].pc = "commit", ![w].changed = TRUE]
          /\ reservation' = [rev |-> r, at |-> At[r], cancelled |-> cancel, rejected |-> FALSE,
                             paid |-> Collected, amount |-> Amount[r], reconciled |-> FALSE]
    /\ UNCHANGED <<published, acked, event, audit, ackAudit, lease, started, faults>>
\* After the commit: access and cleaning follow, when the row changed.
Reconcile(w) ==
    /\ worker[w].pc = "commit"
    /\ reservation' = [reservation EXCEPT !.reconciled = @ \/ worker[w].changed]
    /\ GoOn(w, "recheck")
    /\ UNCHANGED <<published, acked, audit, ackAudit, started, faults>>
Recheck(w) ==
    /\ worker[w].pc = "recheck"
    /\ GoOn(w, IF CancellationRejected(worker[w].rev) THEN "reject" ELSE "record")
    /\ UNCHANGED <<published, acked, reservation, audit, ackAudit, started, faults>>
RecordPersisted(w) ==
    /\ worker[w].pc = "record"
    /\ audit' = Recorded(audit, worker[w].rev, "SUCCESS")
    /\ IF Refused(audit, worker[w].rev) THEN Throws(w) ELSE GoOn(w, "ack")
    /\ UNCHANGED <<published, acked, reservation, ackAudit, started, faults>>

\* acknowledgeRevision: the call, or its failure, recorded without regard to a
\* refusal; the channel may have seen a call whose answer was lost.
Acknowledge(w) ==
    /\ worker[w].pc = "ack"
    /\ acked' = acked \cup {worker[w].rev}
    /\ GoOn(w, "acked")
    /\ UNCHANGED <<published, reservation, audit, ackAudit, started, faults>>
AcknowledgeFails(w) ==
    /\ worker[w].pc = "ack" /\ faults < MaxFaults /\ faults' = faults + 1
    /\ acked' \in {acked, acked \cup {worker[w].rev}}
    /\ ackAudit' = Recorded(ackAudit, worker[w].rev, "FAILED")
    /\ Throws(w)
    /\ UNCHANGED <<published, reservation, audit, started>>
RecordAcknowledged(w) ==
    /\ worker[w].pc = "acked"
    /\ ackAudit' = Recorded(ackAudit, worker[w].rev, "SUCCESS")
    /\ IF Refused(ackAudit, worker[w].rev) THEN Throws(w) ELSE Advance(w)
    /\ UNCHANGED <<published, acked, reservation, audit, started, faults>>

\* A database or network error in any of these steps; a process that dies.
StepFails(w) ==
    /\ worker[w].pc \in {"fetch", "read", "ingest", "commit", "recheck", "record", "supersede", "acked"}
    /\ faults < MaxFaults /\ faults' = faults + 1
    /\ IF worker[w].pc = "fetch" /\ w \in Feeders
       THEN EndRun(w) /\ UNCHANGED event
       ELSE Throws(w)
    /\ UNCHANGED <<published, acked, reservation, audit, ackAudit, started>>
Crash(w) ==
    /\ worker[w].pc # "idle" /\ faults < MaxFaults /\ faults' = faults + 1
    /\ EndRun(w)
    /\ UNCHANGED <<published, acked, event, reservation, audit, ackAudit, started>>

-----------------------------------------------------------------------------
Revise(w) ==
    \/ Classify(w) \/ RejectCancellation(w) \/ MarkSuperseded(w) \/ Ingest(w)
    \/ Reconcile(w) \/ Recheck(w) \/ RecordPersisted(w) \/ Acknowledge(w)
    \/ RecordAcknowledged(w)
Recover(w) ==
    Tick(w) \/ ReleaseStale(w) \/ ClaimEvent(w) \/ FetchForEvent(w)
RunFeed(w) == AcquireLease(w) \/ FetchFeed(w)

Next ==
    \/ \E r \in Revisions : Publish(r)
    \/ \E e \in Events : Receive(e) \/ Age(e)
    \/ StayStarts
    \/ \E w \in Recoverers : Recover(w)
    \/ \E w \in Feeders : RunFeed(w)
    \/ \E w \in Workers : Revise(w) \/ AcknowledgeFails(w) \/ StepFails(w) \/ Crash(w)

Spec == Init /\ [][Next]_vars

\* The workers' intervals keep firing, claimed events grow old, and the channel
\* delivers what it publishes; errors and crashes are never required.
FairSpec ==
    /\ Spec
    /\ \A w \in Recoverers : WF_vars(Recover(w) \/ Revise(w))
    /\ \A w \in Feeders : WF_vars(RunFeed(w) \/ Revise(w))
    /\ \A e \in Events : WF_vars(Age(e))

-----------------------------------------------------------------------------
(* Properties.                                                             *)

Steps == {"idle", "batch", "fetch", "read", "reject", "supersede", "ingest", "commit",
          "recheck", "record", "ack", "acked"}
\* Rows and processes are of their types; only a worker in a run holds the feed's
\* lock, and the attempts outgrow their limit only by claims of batches already scanned.
TypeOK ==
    /\ published \subseteq Revisions /\ acked \subseteq published
    /\ \A e \in Events : event[e].attempts <= MaxAttempts + Cardinality(Recoverers) - 1
    /\ reservation.rev \in {0} \cup published
    /\ \A w \in Workers : worker[w].pc \in Steps
    /\ \A w \in Feeders : w \in lease <=> worker[w].pc # "idle"
    /\ Cardinality(lease) <= 1 /\ faults \in 0 .. MaxFaults

\* The reservation follows the revisions forward in time, and a revision is
\* acknowledged only once the reservation is at it or past it
\* ("a revision older than Reservation.externalUpdatedAt cannot overwrite current
\* reservation state"; "ACK is sent only after Pin&Go has persisted the revision").
Mirror == INSTANCE RevisionMirror WITH applied <- reservation.at
MirrorsForward == Mirror!Spec

\* A revision that was acknowledged and that the reservation is at is what the
\* reservation says: no cancellation is acknowledged that was not applied.
AckedIsApplied ==
    \A r \in acked :
      reservation.at = At[r] => (reservation.cancelled <=> r \in Cancels) /\ reservation.rev = r

\* An older revision never overwrites a newer one, whichever workers ingest them.
NeverRolledBack == [][reservation'.at >= reservation.at]_vars

\* The guard of the ingesting transaction can only be passed backwards where it compares
\* nothing: the stored payment state is PAID, or the older revision has another price.
RolledBackPastGuard ==
    [][reservation'.at < reservation.at =>
         \/ reservation.paid
         \/ \E r \in published : At[r] = reservation'.at /\ Amount[r] # reservation.amount]_vars

\* A revision is acknowledged only once its audit entry says that it was persisted, or
\* skipped as superseded, whichever workers handle it and wherever one dies
\* ("ACK is sent only after Pin&Go has persisted the revision").
AckedIsRecorded == \A r \in acked : audit[r] \in {"SUCCESS", "SKIPPED"}

\* An acknowledged revision the reservation is at has been carried over to guest
\* access and cleaning (reconcileReservation).
AckedIsReconciled ==
    \A r \in acked : reservation.rev = r /\ reservation.at = At[r] => reservation.reconciled

\* A webhook event is processed or declared dead in the end.
EventResolved ==
    \A e \in Events : event[e].status = "PENDING" ~> event[e].status \in {"PROCESSED", "DEAD"}

\* A revision recorded as persisted is acknowledged in the end
\* ("an already persisted revision can still complete ACK recovery").
PersistedIsAcked ==
    \A r \in Revisions : audit[r] = "SUCCESS" ~> r \in acked
=============================================================================
