---------------------------- MODULE MCAriOutbox ----------------------------
(* Small instances of AriOutbox for TLC. *)
EXTENDS AriOutbox, TLC

OnePartition == [e \in Event |-> "villa availability"]

\* min(1 hour, 60 s * 2^(n-1)), the hour scaled down to 2.
CappedDelay == [n \in 1..MaxAttempts |-> IF n > 1 THEN 2 ELSE 1]

WorkerSymmetry == Permutations(Worker)
=============================================================================
