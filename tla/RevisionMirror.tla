--------------------------- MODULE RevisionMirror ---------------------------
(* What the booking ingestion promises of one booking (documented in       *)
(* src/docs/channex-staging-booking-lifecycle-certification.md): the       *)
(* reservation moves through the published revisions forward in time only,  *)
(* and a revision is acknowledged to the channel when the reservation is    *)
(* at that revision or at a newer one.                                     *)
EXTENDS Naturals

CONSTANTS Revisions, At    \* At[r]: when the channel inserted revision r

VARIABLES published, applied, acked

Init == published = {} /\ applied = 0 /\ acked = {}

Publish(r) ==
    /\ r \notin published
    /\ published' = published \cup {r}
    /\ UNCHANGED <<applied, acked>>

Apply(r) ==
    /\ r \in published /\ At[r] > applied
    /\ applied' = At[r]
    /\ UNCHANGED <<published, acked>>

Acknowledge(r) ==
    /\ r \in published /\ At[r] <= applied
    /\ acked' = acked \cup {r}
    /\ UNCHANGED <<published, applied>>

Next == \E r \in Revisions : Publish(r) \/ Apply(r) \/ Acknowledge(r)

Spec == Init /\ [][Next]_<<published, applied, acked>>
=============================================================================
