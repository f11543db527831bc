------------------------- MODULE DeliveryLifecycle -------------------------
(***************************************************************************)
(* What the outbound pipeline promises of a delivery, without saying how:  *)
(* it is accepted once, tried at most MaxTries times, never by two holders *)
(* at once, and settled once, as SENT only if the channel has applied its  *)
(* values.  The channel may apply the values of a try at any moment after  *)
(* the try began, again and again, even when the delivery is settled: the  *)
(* promise is at-least-once.                                               *)
(***************************************************************************)
EXTENDS Naturals

CONSTANTS Delivery, MaxTries

VARIABLES
    status, \* ABSENT, PENDING, TRYING, SENT or DEAD
    tries,  \* tries begun so far
    effect  \* deliveries whose values the channel has applied

lifecycleVars == <<status, tries, effect>>

LifecycleInit ==
    /\ status = [d \in Delivery |-> "ABSENT"]
    /\ tries = [d \in Delivery |-> 0]
    /\ effect = {}

Accept(d) ==
    /\ status[d] = "ABSENT"
    /\ status' = [status EXCEPT ![d] = "PENDING"]
    /\ UNCHANGED <<tries, effect>>

Try(d) ==
    /\ status[d] = "PENDING"
    /\ tries[d] < MaxTries
    /\ status' = [status EXCEPT ![d] = "TRYING"]
    /\ tries' = [tries EXCEPT ![d] = @ + 1]
    /\ UNCHANGED effect

\* A failed or abandoned try gives the delivery back while tries are left.
GiveBack(d) ==
    /\ status[d] = "TRYING"
    /\ tries[d] < MaxTries
    /\ status' = [status EXCEPT ![d] = "PENDING"]
    /\ UNCHANGED <<tries, effect>>

Settle(d) ==
    /\ status[d] = "TRYING"
    /\ \/ status' = [status EXCEPT ![d] = "DEAD"]
       \/ d \in effect /\ status' = [status EXCEPT ![d] = "SENT"]
    /\ UNCHANGED <<tries, effect>>

TakeEffect(d) ==
    /\ tries[d] > 0
    /\ effect' = effect \cup {d}
    /\ UNCHANGED <<status, tries>>

LifecycleNext ==
    \E d \in Delivery : Accept(d) \/ Try(d) \/ GiveBack(d) \/ Settle(d) \/ TakeEffect(d)

LifecycleSpec == LifecycleInit /\ [][LifecycleNext]_lifecycleVars
=============================================================================
