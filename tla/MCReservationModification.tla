---------------------- MODULE MCReservationModification ----------------------
(* Instances of ReservationModification for TLC.                           *)
EXTENDS ReservationModification, TLC

CONSTANTS r1, r2, r3, m1, m2, m3, h1, h2

\* r1 stays the first two nights: m1 adds the third, for money; m2 moves it to the fourth
\* and fifth.  The later booking r2 is for the third and fourth; its m3 leaves it the
\* fifth, where the host may move r3.
OfThree == (m1 :> r1 @@ m2 :> r1 @@ m3 :> r2)
ProposedThree == (m1 :> {1, 2, 3} @@ m2 :> {4, 5} @@ m3 :> {5})
StayThree == (r1 :> {1, 2} @@ r2 :> {3, 4} @@ r3 :> {6})
MoveFifth == (r3 :> {5})
HandlerSymmetry == Permutations(Handlers)
=============================================================================
