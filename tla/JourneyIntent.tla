---------------------------- MODULE JourneyIntent ----------------------------
(***************************************************************************)
(* The coordination intents of one reservation's Guest Journey             *)
(* (src/src/services): the coordination cycle (E4) reads the evidence of   *)
(* the reservation and its active intents, supersedes the intents that the *)
(* evidence no longer asks for, and creates or reactivates the one it does *)
(* ask for; the owner runtime (E5) claims an intent under a lease, runs    *)
(* the ACCESS evaluation handler and completes it, leaving a row for every *)
(* attempt.                                                                *)
(*                                                                         *)
(* Evidence is the fingerprint of all that the evaluator looks at, and the *)
(* key of an intent is made of it, so an intent is named by the evidence   *)
(* it was created from.  The intents modelled are the ACCESS evaluations,  *)
(* one pair of type and engine.  An instant is its distance from the       *)
(* present: it falls by one with every Tick, down to Past, which also      *)
(* stands for null; no transaction is judged at an instant before Past.    *)
(* An operator named X_Y is X with one plausible bug, Y: the specification *)
(* never uses it, and the README says which property refuses it.           *)
(***************************************************************************)
EXTENDS Integers

CONSTANTS
    Evidence,   \* evidence fingerprints the reservation goes through
    Required,   \* those whose evaluation requires an ACCESS evaluation
    Eligible,   \* those that satisfy ACCESS eligibility
    Worker,     \* owner runtime processes
    MaxClaims,  \* claim budget of an intent
    LeaseMs,    \* lease of a claim
    RetryMs,    \* RetryMs[n]: capped exponential delay after attempt n
    MaxAge,     \* bound: how long a cycle's instant may be in use
    MaxChanges  \* bound: changes of the evidence in one behaviour

ASSUME JourneyAssumption ==
    /\ Required \subseteq Evidence /\ Eligible \subseteq Evidence \ Required
    /\ MaxClaims \in Nat \ {0} /\ LeaseMs \in Nat \ {0}
    /\ RetryMs \in [1..MaxClaims -> Nat]
    /\ MaxAge \in Nat /\ MaxChanges \in Nat

VARIABLES
    evidence,  \* fingerprint of what the database says of the reservation
    intent,    \* GuestJourneyCoordinationIntent rows, by the evidence they were made of
    attempt,   \* GuestJourneyCoordinationIntentAttempt rows, by intent and number
    audit,     \* audit entries of materializations
    e4,        \* the coordination transaction, one at a time under its advisory lock
    worker,    \* local state of each owner runtime process
    tokens,    \* lease tokens that claimed, as a counter: they are random in the code
    changes    \* changes of the evidence so far, at most MaxChanges

vars == <<evidence, intent, attempt, audit, e4, worker, tokens, changes>>

-----------------------------------------------------------------------------
Past == -MaxAge
Instant == {t \in Int : t >= Past}
Earlier(t) == IF t > Past THEN t - 1 ELSE Past

IntentStatus == {"ABSENT", "PENDING", "CLAIMED", "WAITING_FOR_EVIDENCE", "RETRYABLE",
                 "SUCCEEDED", "EXHAUSTED", "SUPERSEDED"}
ActiveStatuses == {"PENDING", "CLAIMED", "WAITING_FOR_EVIDENCE", "RETRYABLE"}
Kinds == {"SUCCEEDED", "WAITING_FOR_EVIDENCE", "RETRYABLE"}

\* Token 0 is null.
IntentRow == [status: IntentStatus, claimCount: 0..MaxClaims, leaseToken: Nat,
              leaseExpiresAt: Instant, nextActionAt: Instant]
AttemptRow == [outcome: {"NONE", "IN_FLIGHT", "LEASE_EXPIRED", "EXHAUSTED"} \cup Kinds, token: Nat]
AuditRow == [at: SUBSET Evidence, created: SUBSET Required, reactivated: SUBSET Required,
             superseded: SUBSET Required]

\* `seen' holds the fingerprint that was read, `was' the statuses.
E4State == [pc: {"idle", "read"}, now: Past..0, seen: SUBSET Evidence,
            was: [Required -> IntentStatus], live: SUBSET Required]
WorkerState == [pc: {"idle", "claimed", "executed"}, now: Past..0,
                intent: SUBSET Required, number: 0..MaxClaims, token: Nat,
                completion: Kinds \cup {"NONE"}]

NoIntent == [status |-> "ABSENT", claimCount |-> 0, leaseToken |-> 0,
             leaseExpiresAt |-> Past, nextActionAt |-> Past]
NoAttempt == [outcome |-> "NONE", token |-> 0]
E4Idle == [pc |-> "idle", now |-> Past, seen |-> {}, was |-> [i \in Required |-> "ABSENT"],
           live |-> {}]
Idle == [pc |-> "idle", now |-> Past, intent |-> {}, number |-> 0, token |-> 0,
         completion |-> "NONE"]

\* Every row and local state is of its kind.
TypeOK ==
    /\ evidence \in Evidence
    /\ intent \in [Required -> IntentRow]
    /\ attempt \in [Required -> [1..MaxClaims -> AttemptRow]]
    /\ audit \subseteq AuditRow
    /\ e4 \in E4State
    /\ worker \in [Worker -> WorkerState]
    /\ tokens \in Nat
    /\ changes \in 0..MaxChanges

Init ==
    /\ evidence \in Evidence
    /\ intent = [i \in Required |-> NoIntent]
    /\ attempt = [i \in Required |-> [n \in 1..MaxClaims |-> NoAttempt]]
    /\ audit = {}
    /\ e4 = E4Idle
    /\ worker = [w \in Worker |-> Idle]
    /\ tokens = 0
    /\ changes = 0

Active(i) == intent[i].status \in ActiveStatuses

-----------------------------------------------------------------------------
(* E4: one transaction at READ COMMITTED, judged at the instant its cycle   *)
(* began: earlier reservations and the advisory lock leave it behind.       *)

\* Active claims that E4 must leave to their worker.
LiveClaims(now) ==
    {i \in Required : intent[i].status = "CLAIMED" /\ intent[i].leaseExpiresAt > now}

E4Read ==
    /\ e4.pc = "idle"
    /\ \E now \in Past..0 :
         e4' = [pc |-> "read", now |-> now, seen |-> {evidence},
                was |-> [i \in Required |-> intent[i].status], live |-> LiveClaims(now)]
    /\ UNCHANGED <<evidence, intent, attempt, audit, worker, tokens, changes>>

Obsolete == {i \in Required : e4.was[i] \in ActiveStatuses} \ e4.seen

\* Bug: the update checks the status it read and forgets the lease.
Superseded_AnyLease == {i \in Obsolete \ e4.live : intent[i].status = e4.was[i]}

\* The update of an obsolete intent that is not live finds it as it was read.
Superseded ==
    {i \in Obsolete \ e4.live :
        /\ intent[i].status = e4.was[i]
        /\ e4.was[i] = "CLAIMED" => intent[i].leaseExpiresAt <= e4.now}

\* An obsolete intent that is not superseded blocks its pair's replacement.
\* Bug: it does not.
Wanted_Unblocked == {i \in Required \cap e4.seen : e4.was[i] \notin ActiveStatuses}
Wanted ==
    IF Obsolete \subseteq Superseded
    THEN {i \in Required \cap e4.seen : e4.was[i] \notin ActiveStatuses} ELSE {}

\* What a materialization writes; without its time it is the identity of its audit entry.
Writes(seen, superseded, wanted) ==
    [at |-> seen, superseded |-> superseded,
     created |-> {i \in wanted : intent[i].status = "ABSENT"},
     reactivated |-> {i \in wanted : intent[i].status = "SUPERSEDED"}]
Nothing(m) == m.superseded = {} /\ m.created = {} /\ m.reactivated = {}

SupersededRow(row) ==
    [row EXCEPT !.status = "SUPERSEDED", !.leaseToken = 0, !.leaseExpiresAt = Past,
                !.nextActionAt = Past]

\* A new row, and what a reactivation makes of an old one.
PendingRow(now) == [status |-> "PENDING", claimCount |-> 0, leaseToken |-> 0,
                    leaseExpiresAt |-> Past, nextActionAt |-> now]

E4Apply ==
    /\ e4.pc = "read"
    /\ LET m == Writes(e4.seen, Superseded, Wanted)
       IN  /\ Nothing(m) \/ m \notin audit
           /\ intent' = [i \in Required |->
                           IF i \in m.superseded THEN SupersededRow(intent[i])
                           ELSE IF i \in m.created \cup m.reactivated
                                THEN PendingRow(e4.now)
                                ELSE intent[i]]
           /\ audit' = IF Nothing(m) THEN audit ELSE audit \cup {m}
    /\ e4' = E4Idle
    /\ UNCHANGED <<evidence, attempt, worker, tokens, changes>>

\* The audit entry exists, with an earlier start: it conflicts and E4 rolls back.
E4Conflicts ==
    /\ e4.pc = "read"
    /\ LET m == Writes(e4.seen, Superseded, Wanted) IN ~Nothing(m) /\ m \in audit
    /\ e4' = E4Idle
    /\ UNCHANGED <<evidence, intent, attempt, audit, worker, tokens, changes>>

-----------------------------------------------------------------------------
(* E5: selection, claim and completion, the last two in SERIALIZABLE       *)
(* transactions.                                                           *)

\* Bug: a claim whose lease ran out is left alone.
Claimable_Unrecovered(i, now) ==
    intent[i].status \in {"PENDING", "RETRYABLE"} /\ intent[i].nextActionAt <= now
Claimable(i, now) ==
    \/ intent[i].status \in {"PENDING", "RETRYABLE"} /\ intent[i].nextActionAt <= now
    \/ intent[i].status = "CLAIMED" /\ intent[i].leaseExpiresAt <= now

Finish(w) == worker' = [worker EXCEPT ![w] = Idle]

InFlight(i, n, token) == attempt[i][n] = [outcome |-> "IN_FLIGHT", token |-> token]
Stale(i) == intent[i].status = "CLAIMED"
EvidenceMissing(i) == Stale(i) /\ ~InFlight(i, intent[i].claimCount, intent[i].leaseToken)
Spent(i) == intent[i].claimCount >= MaxClaims
Next1(i) == intent[i].claimCount + 1
\* Bug: the attempt row is upserted.
NumberTaken_Upserted(i) == FALSE
NumberTaken(i) == ~Spent(i) /\ attempt[i][Next1(i)].outcome # "NONE"

\* The attempts of i once the claim has closed the one of a stale lease.
Closed(i) ==
    [n \in 1..MaxClaims |->
        IF Stale(i) /\ n = intent[i].claimCount
        THEN [attempt[i][n] EXCEPT !.outcome = "LEASE_EXPIRED"] ELSE attempt[i][n]]

\* The instant is that of the cycle, read before its selection; the claim asks again
\* all that the selection asked.  One that throws (the evidence of the stale attempt is
\* missing, or the number of the new one is taken) or refuses changes nothing.
Claim(w, i) ==
    /\ worker[w].pc = "idle"
    /\ ~EvidenceMissing(i) /\ ~Spent(i) /\ ~NumberTaken(i)
    /\ tokens' = tokens + 1
    /\ \E now \in Past..0 :
         /\ Claimable(i, now)
         /\ intent' = [intent EXCEPT ![i] =
                         [status |-> "CLAIMED", claimCount |-> Next1(i), leaseToken |-> tokens + 1,
                          leaseExpiresAt |-> now + LeaseMs, nextActionAt |-> Past]]
    /\ attempt' = [attempt EXCEPT ![i] =
                    [Closed(i) EXCEPT ![Next1(i)] =
                        [outcome |-> "IN_FLIGHT", token |-> tokens + 1]]]
    /\ worker' = [worker EXCEPT ![w] = [pc |-> "claimed", now |-> Past, intent |-> {i},
                                        number |-> Next1(i), token |-> tokens + 1,
                                        completion |-> "NONE"]]
    /\ UNCHANGED <<evidence, audit, e4, changes>>

ExhaustedRow(row) == [row EXCEPT !.status = "EXHAUSTED", !.leaseToken = 0,
                                 !.leaseExpiresAt = Past, !.nextActionAt = Past]

\* The lease of the last attempt ran out.
ClaimExhausts(w, i) ==
    /\ worker[w].pc = "idle"
    /\ ~EvidenceMissing(i) /\ Spent(i)
    /\ \E now \in Past..0 : Claimable(i, now)
    /\ intent' = [intent EXCEPT ![i] = ExhaustedRow(intent[i])]
    /\ attempt' = [attempt EXCEPT ![i] = Closed(i)]
    /\ UNCHANGED <<evidence, audit, e4, worker, tokens, changes>>

\* The handler evaluates the evidence of the moment, or throws; then the clock is read.
ExecuteHandler(w) ==
    /\ worker[w].pc = "claimed"
    /\ \E kind \in {IF evidence \in Eligible THEN "SUCCEEDED" ELSE "WAITING_FOR_EVIDENCE",
                    "RETRYABLE"} :
         worker' = [worker EXCEPT ![w] = [worker[w] EXCEPT !.pc = "executed", !.now = 0,
                                                           !.completion = kind]]
    /\ UNCHANGED <<evidence, intent, attempt, audit, e4, tokens, changes>>

HoldsClaim(w, i) ==
    /\ intent[i].status = "CLAIMED"
    /\ intent[i].claimCount = worker[w].number
    /\ intent[i].leaseToken = worker[w].token
    /\ intent[i].leaseExpiresAt > worker[w].now
    /\ InFlight(i, worker[w].number, worker[w].token)

Verdict(kind, n) == IF kind = "RETRYABLE" /\ n >= MaxClaims THEN "EXHAUSTED" ELSE kind

CompletedRow(row, verdict, now) ==
    [status |-> verdict, claimCount |-> row.claimCount, leaseToken |-> 0,
     leaseExpiresAt |-> Past,
     nextActionAt |-> IF verdict = "RETRYABLE" THEN now + RetryMs[row.claimCount] ELSE Past]

Complete(w, i) ==
    /\ worker[w].pc = "executed" /\ worker[w].intent = {i}
    /\ HoldsClaim(w, i)
    /\ LET n == intent[i].claimCount
           verdict == Verdict(worker[w].completion, n)
       IN  /\ intent' = [intent EXCEPT ![i] = CompletedRow(intent[i], verdict, worker[w].now)]
           /\ attempt' = [attempt EXCEPT ![i] =
                            [attempt[i] EXCEPT ![n] = [outcome |-> verdict,
                                                       token |-> worker[w].token]]]
    /\ Finish(w)
    /\ UNCHANGED <<evidence, audit, e4, tokens, changes>>

CompleteThrows(w, i) ==
    /\ worker[w].pc = "executed" /\ worker[w].intent = {i}
    /\ ~HoldsClaim(w, i)
    /\ Finish(w)
    /\ UNCHANGED <<evidence, intent, attempt, audit, e4, tokens, changes>>

-----------------------------------------------------------------------------
(* The environment.                                                        *)

ChangeEvidence ==
    /\ changes < MaxChanges
    /\ changes' = changes + 1
    /\ evidence' \in Evidence \ {evidence}
    /\ UNCHANGED <<intent, attempt, audit, e4, worker, tokens>>

\* A worker's process dies, or its transaction aborts and its error is counted.
WorkerFails(w) ==
    /\ worker[w].pc # "idle"
    /\ Finish(w)
    /\ UNCHANGED <<evidence, intent, attempt, audit, e4, tokens, changes>>

E4Fails ==
    /\ e4.pc # "idle"
    /\ e4' = E4Idle
    /\ UNCHANGED <<evidence, intent, attempt, audit, worker, tokens, changes>>

Tick ==
    /\ e4.pc = "idle" \/ e4.now > Past
    /\ \A w \in Worker : worker[w].pc = "executed" => worker[w].now > Past
    /\ intent' = [i \in Required |->
                    [intent[i] EXCEPT !.leaseExpiresAt = Earlier(intent[i].leaseExpiresAt),
                                      !.nextActionAt = Earlier(intent[i].nextActionAt)]]
    /\ e4' = [e4 EXCEPT !.now = Earlier(e4.now)]
    /\ worker' = [w \in Worker |-> [worker[w] EXCEPT !.now = Earlier(worker[w].now)]]
    /\ UNCHANGED <<evidence, attempt, audit, tokens, changes>>

Next ==
    \/ E4Read \/ E4Apply \/ E4Conflicts \/ E4Fails
    \/ \E w \in Worker, i \in Required :
          \/ Claim(w, i) \/ ClaimExhausts(w, i) \/ Complete(w, i) \/ CompleteThrows(w, i)
    \/ \E w \in Worker : ExecuteHandler(w) \/ WorkerFails(w)
    \/ ChangeEvidence \/ Tick

Spec == Init /\ [][Next]_vars

\* The loops of both cycles go on and time passes; evidence and faults owe nothing.
Fairness ==
    /\ WF_vars(E4Read) /\ SF_vars(E4Apply \/ E4Conflicts)
    /\ \A w \in Worker :
         /\ WF_vars(\E i \in Required : Claim(w, i) \/ ClaimExhausts(w, i))
         /\ WF_vars(ExecuteHandler(w))
         /\ WF_vars(\E i \in Required : Complete(w, i) \/ CompleteThrows(w, i))
    /\ SF_vars(Tick)
FairSpec == Spec /\ Fairness

-----------------------------------------------------------------------------
(* Properties.                                                             *)

\* A reservation has one active ACCESS evaluation at most: an intent replaces another
\* only once that one is superseded, whoever claims or completes it while E4 decides.
OneActiveIntent == \A i, j \in Required : Active(i) /\ Active(j) => i = j

\* A claimed intent has the attempt its lease was opened with, in flight: recovery and
\* completion find their evidence, and a worker's claim is the row's while it lasts.
ClaimHasAttempt ==
    \A i \in Required :
        intent[i].status = "CLAIMED" =>
            intent[i].claimCount > 0 /\ InFlight(i, intent[i].claimCount, intent[i].leaseToken)

\* E4 takes no intent from a worker whose lease has time left, although it decides on
\* statuses read before and at an instant of its own.
LiveClaimsPreserved ==
    [][\A i \in Required :
         i \in LiveClaims(0) => intent'[i].status # "SUPERSEDED"]_vars

\* The outcome recorded for an attempt is never rewritten, by a late worker, a recovery
\* or a later life of the intent.
OutcomesFinal ==
    [][\A i \in Required, n \in 1..MaxClaims :
         attempt[i][n].outcome \notin {"NONE", "IN_FLIGHT"} => attempt'[i][n] = attempt[i][n]]_vars

\* The coordination implements the ledger of attempts: a claim opens the next attempt
\* when those before it are closed, a recovery closes the stale one, and neither a late
\* worker nor a later life of the intent rewrites what is closed.
Stage(i) ==
    CASE intent[i].status \in {"ABSENT", "SUPERSEDED"} -> "out"
      [] intent[i].status \in {"PENDING", "RETRYABLE"} -> "open"
      [] intent[i].status = "CLAIMED" -> "claimed"
      [] intent[i].status = "WAITING_FOR_EVIDENCE" -> "waiting"
      [] OTHER -> "ended"
Ledger == INSTANCE IntentLedger WITH stage <- [i \in Required |-> Stage(i)]
ImplementsLedger == Ledger!LedgerSpec

\* A reactivated intent can be claimed again.
ReactivatedIsClaimable ==
    \A i \in Required : intent[i].status \in {"PENDING", "RETRYABLE"} => ~NumberTaken(i)

\* E4 can always record what it has to write.
E4Stuck(e) ==
    LET active == {i \in Required : Active(i)}
        m == Writes({e}, active \ {e}, (Required \cap {e}) \ active)
    IN  ~Nothing(m) /\ m \in audit
E4NeverStuck == \A e \in Evidence : ~E4Stuck(e)

\* Evidence that stays has its intent settled in the end and for good, unless the intent
\* had been claimed in an earlier life or E4 had made the same transition before.
Settled(e) == intent[e].status \in {"WAITING_FOR_EVIDENCE", "SUCCEEDED", "EXHAUSTED"}
IntentSettled ==
    \A e \in Required :
        <>[](evidence = e) => <>[](Settled(e) \/ NumberTaken(e) \/ E4Stuck(e))
=============================================================================
