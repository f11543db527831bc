---------------------------- MODULE MCGuestAccess ----------------------------
(* Instances of GuestAccessFence for TLC.                                   *)
EXTENDS GuestAccessFence, TLC

CONSTANTS g1, g2, p1, p2

OneWindow == [g \in Grants |-> "stay"]
\* The second grant was made for other dates.
TwoWindows == (g1 :> "stay" @@ g2 :> "changed")
ProcSymmetry == Permutations(Procs)
=============================================================================
