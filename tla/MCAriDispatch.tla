--------------------------- MODULE MCAriDispatch ---------------------------
(* Small instances of AriDispatch for TLC. *)
EXTENDS AriDispatch, TLC

\* One property and kind, n deliveries queued behind one another.
OnePropertyOf == [d \in Delivery |-> "villa"]
OneKindOf == [d \in Delivery |-> "AVAILABILITY"]
NoSibling == [d \in Delivery |-> d]

\* A correlated FULL pair: delivery 1 is AVAILABILITY, delivery 2 its sibling.
PairKindOf == [d \in Delivery |-> IF d = 1 THEN "AVAILABILITY" ELSE "RATES"]
PairSibling == [d \in Delivery |-> IF d = 1 THEN 2 ELSE IF d = 2 THEN 1 ELSE d]

\* min(1 hour, 60 s * 2^(n-1)), the hour scaled down to 4.
CappedBackoff == [n \in 1..MaxAttempts |-> IF 2^(n - 1) > 4 THEN 4 ELSE 2^(n - 1)]

WorkerSymmetry == Permutations(Worker)
=============================================================================
