--------------------------- MODULE MCJourneyIntent ---------------------------
(* Instances of JourneyIntent for TLC.                                      *)
EXTENDS JourneyIntent

CappedRetry == [n \in 1..MaxClaims |-> 1]
=============================================================================
