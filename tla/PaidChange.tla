----------------------------- MODULE PaidChange -----------------------------
(* What changing a stay online promises, without requests, Checkouts or    *)
(* webhooks: the nights of a property are never promised twice, a change   *)
(* takes effect once and only when what it costs more was paid, and what   *)
(* was collected for a stay is its first price and the changes made to it. *)
EXTENDS Integers, FiniteSets, FiniteSetsExt

CONSTANTS
    Reservations, Changes,
    Of,              \* the reservation a change is of
    Proposed,        \* the nights it proposes; a night costs one unit
    FirstStay,       \* the nights each reservation is first booked for
    Booked,          \* the reservations booked from the start
    Manual, MoveTo   \* those of the host's own, paid outside, and where they may go

VARIABLES stay, collected, paid, applied

vars == <<stay, collected, paid, applied>>

Free(nights, r) == \A s \in Reservations \ {r} : stay[s] \cap nights = {}
Difference(m) == Cardinality(Proposed[m]) - Cardinality(stay[Of[m]])

Price(r, nights) == IF r \in Manual THEN 0 ELSE Cardinality(nights)

Init ==
    /\ stay = [r \in Reservations |-> IF r \in Booked THEN FirstStay[r] ELSE {}]
    /\ collected = [r \in Reservations |-> IF r \in Booked THEN Price(r, FirstStay[r]) ELSE 0]
    /\ paid = {} /\ applied = {}

Book(r) ==
    /\ r \notin Booked /\ collected[r] = 0 /\ stay[r] = {} /\ Free(FirstStay[r], r)
    /\ stay' = [stay EXCEPT ![r] = FirstStay[r]]
    /\ collected' = [collected EXCEPT ![r] = Price(r, FirstStay[r])]
    /\ UNCHANGED <<paid, applied>>
Cancel(r) ==
    /\ stay' = [stay EXCEPT ![r] = {}]
    /\ UNCHANGED <<collected, paid, applied>>
Move(r) ==
    /\ r \in Manual /\ stay[r] # {} /\ Free(MoveTo[r], r)
    /\ stay' = [stay EXCEPT ![r] = MoveTo[r]]
    /\ UNCHANGED <<collected, paid, applied>>
Pay(m) ==
    /\ m \notin paid
    /\ paid' = paid \cup {m}
    /\ UNCHANGED <<stay, collected, applied>>
Apply(m) ==
    /\ m \notin applied /\ stay[Of[m]] # {} /\ Free(Proposed[m], Of[m])
    /\ Difference(m) > 0 => m \in paid
    /\ applied' = applied \cup {m}
    /\ stay' = [stay EXCEPT ![Of[m]] = Proposed[m]]
    /\ collected' = [collected EXCEPT ![Of[m]] = @ + Max({0, Difference(m)})]
    /\ UNCHANGED paid

Next ==
    \/ \E r \in Reservations : Book(r) \/ Move(r) \/ Cancel(r)
    \/ \E m \in Changes : Pay(m) \/ Apply(m)

Spec == Init /\ [][Next]_vars
=============================================================================
