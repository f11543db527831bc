---------------------------- MODULE IntentLedger ----------------------------
(* What coordinating intents promises, without transactions, leases or     *)
(* processes: one intent is in force at most, and its attempts make a      *)
(* ledger.  They are numbered from one and opened in order, each under a   *)
(* token of its own and once those before it are closed; each is closed    *)
(* once; there are MaxClaims at most, and an intent ends with success or   *)
(* with its last attempt.                                                  *)
EXTENDS Integers

CONSTANTS Required, MaxClaims

VARIABLES
    stage,    \* out, open, claimed, waiting or ended, of each intent
    attempt,  \* the ledger: outcome and token, by intent and number
    tokens    \* tokens given so far

ledgerVars == <<stage, attempt, tokens>>

InForce == {i \in Required : stage[i] \in {"open", "claimed", "waiting"}}
Unused(i, n) == attempt[i][n].outcome = "NONE"
Running(i, n) == attempt[i][n].outcome = "IN_FLIGHT"
Opened == [outcome |-> "IN_FLIGHT", token |-> tokens + 1]
Moves(i, to) == stage' = [stage EXCEPT ![i] = to]

LedgerInit ==
    /\ stage = [i \in Required |-> "out"]
    /\ attempt = [i \in Required |-> [n \in 1..MaxClaims |-> [outcome |-> "NONE", token |-> 0]]]
    /\ tokens = 0

\* Intents go out of force, one comes into force when none is left.
Decide ==
    /\ \E gone \in SUBSET InForce, new \in SUBSET {i \in Required : stage[i] = "out"} :
         /\ \A i, j \in (InForce \ gone) \cup new : i = j
         /\ stage' = [i \in Required |-> IF i \in gone THEN "out"
                                         ELSE IF i \in new THEN "open" ELSE stage[i]]
    /\ UNCHANGED <<attempt, tokens>>

Begin(i, n) ==
    /\ stage[i] = "open" /\ Unused(i, n)
    /\ \A k \in 1 .. n - 1 : ~Unused(i, k) /\ ~Running(i, k)
    /\ attempt' = [attempt EXCEPT ![i] = [@ EXCEPT ![n] = Opened]]
    /\ tokens' = tokens + 1
    /\ Moves(i, "claimed")

\* The attempt that is running is given up, and the next one opened.
TakeOver(i, n) ==
    /\ stage[i] = "claimed" /\ Running(i, n) /\ n < MaxClaims /\ Unused(i, n + 1)
    /\ attempt' = [attempt EXCEPT ![i] = [@ EXCEPT ![n].outcome = "LEASE_EXPIRED",
                                                   ![n + 1] = Opened]]
    /\ tokens' = tokens + 1
    /\ UNCHANGED stage

GiveUp(i) ==
    /\ stage[i] = "claimed" /\ Running(i, MaxClaims)
    /\ attempt' = [attempt EXCEPT ![i] = [@ EXCEPT ![MaxClaims].outcome = "LEASE_EXPIRED"]]
    /\ Moves(i, "ended")
    /\ UNCHANGED tokens

Close(i, n, outcome, to) ==
    /\ stage[i] = "claimed" /\ Running(i, n)
    /\ attempt' = [attempt EXCEPT ![i] = [@ EXCEPT ![n].outcome = outcome]]
    /\ Moves(i, to)
    /\ UNCHANGED tokens

LedgerNext ==
    \/ Decide
    \/ \E i \in Required :
         \/ GiveUp(i)
         \/ \E n \in 1..MaxClaims :
              \/ Begin(i, n) \/ TakeOver(i, n)
              \/ Close(i, n, "SUCCEEDED", "ended")
              \/ Close(i, n, "WAITING_FOR_EVIDENCE", "waiting")
              \/ n < MaxClaims /\ Close(i, n, "RETRYABLE", "open")
              \/ n = MaxClaims /\ Close(i, n, "EXHAUSTED", "ended")

LedgerSpec == LedgerInit /\ [][LedgerNext]_ledgerVars
=============================================================================
