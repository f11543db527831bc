---------------------------- MODULE MCBookingFeed ----------------------------
(* Instances of BookingFeed for TLC.                                       *)
EXTENDS BookingFeed, TLC

\* One second between revisions, and a pair that shares its second.
OneByOne == [r \in Revisions |-> r]
SameSecond == [r \in Revisions |-> 1]
\* The price changes with every revision, or never.
Repriced == [r \in Revisions |-> r]
SamePrice == [r \in Revisions |-> 1]
=============================================================================
