---------------------------- MODULE ChangeOutbox ----------------------------
(***************************************************************************)
(* What a transactional outbox promises of the changes of a domain,        *)
(* without saying how: a change that is committed is claimed at most       *)
(* MaxTries times and leaves the outbox once: with a message whose values  *)
(* were read after it was committed, or together with changes that are     *)
(* claimed and carry values for it, or dead after its last try.  A         *)
(* message takes nothing that was given back meanwhile.                    *)
(***************************************************************************)
EXTENDS Naturals

CONSTANTS Change, MaxTries

VARIABLES
    state,   \* NONE before the commit, then PENDING, CLAIMED, MERGED, SUPERSEDED or DEAD
    tries,   \* claims so far
    messages \* what each message carries and supersedes, and the changes its values show

outboxVars == <<state, tries, messages>>

OutboxInit ==
    /\ state = [c \in Change |-> "NONE"]
    /\ tries = [c \in Change |-> 0]
    /\ messages = {}

Committed == {c \in Change : state[c] # "NONE"}
Are(S, which) == \A c \in S : state[c] = which
Becomes(S, which) == [c \in Change |-> IF c \in S THEN which ELSE state[c]]

Commit(c) ==
    /\ state[c] = "NONE"
    /\ state' = Becomes({c}, "PENDING")
    /\ UNCHANGED <<tries, messages>>

Claim(S) ==
    /\ Are(S, "PENDING")
    /\ \A c \in S : tries[c] < MaxTries
    /\ state' = Becomes(S, "CLAIMED")
    /\ tries' = [c \in Change |-> IF c \in S THEN tries[c] + 1 ELSE tries[c]]
    /\ UNCHANGED messages

\* Claims that failed or were abandoned: those with tries left wait again.
GiveBack(S) ==
    /\ Are(S, "CLAIMED")
    /\ state' = [c \in Change |->
                   IF c \in S THEN IF tries[c] < MaxTries THEN "PENDING" ELSE "DEAD"
                   ELSE state[c]]
    /\ UNCHANGED <<tries, messages>>

Send(S, superseded, values) ==
    /\ S # {} /\ Are(S, "CLAIMED") /\ Are(superseded, "PENDING")
    /\ S \subseteq values /\ values \subseteq Committed
    /\ state' = [c \in Change |-> IF c \in S THEN "MERGED"
                                  ELSE IF c \in superseded THEN "SUPERSEDED" ELSE state[c]]
    /\ messages' = messages \cup
         {[carries |-> S, supersedes |-> superseded, values |-> values]}
    /\ UNCHANGED tries

OutboxNext ==
    \/ \E c \in Change : Commit(c)
    \/ \E S \in SUBSET Change :
         \/ Claim(S) \/ GiveBack(S)
         \/ \E superseded, values \in SUBSET Change : Send(S, superseded, values)

OutboxSpec == OutboxInit /\ [][OutboxNext]_outboxVars
=============================================================================
