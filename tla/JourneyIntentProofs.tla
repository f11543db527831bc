------------------------ MODULE JourneyIntentProofs ------------------------
(***************************************************************************)
(* What holds of JourneyIntent for every set of evidence, any number of    *)
(* owner processes, any budget, lease and delays, and any bounds.          *)
(***************************************************************************)
EXTENDS JourneyIntent, TLAPS

\* What E4 decides on is out of date in one direction only: an intent that is active
\* was active when E4 read it, since nobody else activates one.
E4Covers ==
    e4.pc = "read" =>
        /\ \E e \in Evidence : e4.seen = {e}
        /\ \A i \in Required : Active(i) => e4.was[i] \in ActiveStatuses

\* A worker completes with what its handler said.
HandlerSaid == \A w \in Worker : worker[w].pc = "executed" => worker[w].completion \in Kinds

Inv == TypeOK /\ HandlerSaid /\ E4Covers /\ OneActiveIntent /\ ClaimHasAttempt

\* The instants at which transactions are judged lie in the recent past.
LEMMA Instants ==
    /\ Past \in Int /\ Past <= 0 /\ Past \in Instant /\ Past..0 \subseteq Instant
    /\ 0 \in Past..0
    /\ \A t \in Instant : Earlier(t) \in Instant /\ Earlier(t) <= t
    /\ \A t \in Past..0 : Earlier(t) \in Past..0
BY JourneyAssumption DEF JourneyAssumption, Past, Instant, Earlier

LEMMA InitInv == Init => Inv
<1> SUFFICES ASSUME Init PROVE Inv
  OBVIOUS
<1>1. TypeOK
  BY Instants, JourneyAssumption
  DEF Init, TypeOK, JourneyAssumption, NoIntent, IntentRow, IntentStatus, NoAttempt, AttemptRow,
      E4Idle, E4State, Idle, WorkerState
<1>2. \A i \in Required : ~Active(i) /\ intent[i].status # "CLAIMED"
  BY DEF Init, Active, ActiveStatuses, NoIntent
<1>3. E4Covers
  BY DEF Init, E4Covers, E4Idle
<1>4. HandlerSaid
  BY DEF Init, HandlerSaid, Idle
<1> QED
  BY <1>1, <1>2, <1>3, <1>4 DEF Inv, OneActiveIntent, ClaimHasAttempt

-----------------------------------------------------------------------------
(* Types.                                                                  *)

\* The rows that the actions write are rows.
LEMMA Rows ==
    /\ \A row \in IntentRow : SupersededRow(row) \in IntentRow /\ ExhaustedRow(row) \in IntentRow
    /\ \A now \in Past..0 : PendingRow(now) \in IntentRow
    /\ \A row \in IntentRow, verdict \in Kinds \cup {"EXHAUSTED"}, now \in Past..0 :
         row.claimCount > 0 => CompletedRow(row, verdict, now) \in IntentRow
    /\ \A kind \in Kinds, n \in Nat : Verdict(kind, n) \in Kinds \cup {"EXHAUSTED"}
<1>1. \A row \in IntentRow : SupersededRow(row) \in IntentRow /\ ExhaustedRow(row) \in IntentRow
  <2>1. ASSUME NEW row \in IntentRow, NEW status \in IntentStatus
        PROVE  [row EXCEPT !.status = status, !.leaseToken = 0, !.leaseExpiresAt = Past,
                           !.nextActionAt = Past] \in IntentRow
    BY Instants DEF IntentRow
  <2> QED
    BY <2>1 DEF SupersededRow, ExhaustedRow, IntentStatus
<1>2. \A now \in Past..0 : PendingRow(now) \in IntentRow
  BY Instants, JourneyAssumption
  DEF PendingRow, NoIntent, IntentRow, IntentStatus, JourneyAssumption
<1>3. ASSUME NEW row \in IntentRow, NEW verdict \in Kinds \cup {"EXHAUSTED"}, NEW now \in Past..0,
             row.claimCount > 0
      PROVE  CompletedRow(row, verdict, now) \in IntentRow
  <2>1. row.claimCount \in 1..MaxClaims
    BY <1>3, JourneyAssumption DEF IntentRow, JourneyAssumption
  <2>2. now + RetryMs[row.claimCount] \in Instant
    <3>1. RetryMs[row.claimCount] \in Nat
      BY <2>1, JourneyAssumption DEF JourneyAssumption
    <3>2. Past \in Int /\ now \in Int /\ now >= Past
      BY Instants
    <3> QED
      BY <3>1, <3>2 DEF Instant
  <2>3. verdict \in IntentStatus
    BY DEF Kinds, IntentStatus
  <2> QED
    BY <2>1, <2>2, <2>3, Instants DEF CompletedRow, IntentRow
<1>4. \A kind \in Kinds, n \in Nat : Verdict(kind, n) \in Kinds \cup {"EXHAUSTED"}
  BY DEF Verdict
<1> QED
  BY <1>1, <1>2, <1>3, <1>4

\* A claim closes nothing but the attempt of the stale lease.
LEMMA ClosedType ==
    ASSUME TypeOK, NEW i \in Required
    PROVE  /\ Closed(i) \in [1..MaxClaims -> AttemptRow]
           /\ \A n \in 1..MaxClaims :
                ~(Stale(i) /\ n = intent[i].claimCount) => Closed(i)[n] = attempt[i][n]
<1>1. attempt[i] \in [1..MaxClaims -> AttemptRow]
  BY DEF TypeOK
<1>2. \A row \in AttemptRow : [row EXCEPT !.outcome = "LEASE_EXPIRED"] \in AttemptRow
  BY DEF AttemptRow
<1> QED
  BY <1>1, <1>2 DEF Closed

LEMMA NextNumber ==
    ASSUME TypeOK, NEW i \in Required, ~Spent(i)
    PROVE  Next1(i) \in 1..MaxClaims /\ Next1(i) # intent[i].claimCount
BY JourneyAssumption DEF TypeOK, IntentRow, Spent, Next1, JourneyAssumption

LEMMA TypeStep == Inv /\ [Next]_vars => TypeOK'
<1> SUFFICES ASSUME Inv, [Next]_vars PROVE TypeOK'
  OBVIOUS
<1> USE Instants
<1>0. TypeOK /\ ClaimHasAttempt /\ HandlerSaid
  BY DEF Inv
<1>1. CASE E4Read
  <2>1. e4' \in E4State
    BY <1>0, <1>1 DEF E4Read, E4State, TypeOK, IntentRow, LiveClaims
  <2> QED
    BY <1>0, <1>1, <2>1 DEF E4Read, TypeOK
<1>2. CASE E4Apply
  <2> DEFINE m == Writes(e4.seen, Superseded, Wanted)
  <2>1. m \in AuditRow
    BY <1>0 DEF Writes, AuditRow, Superseded, Obsolete, Wanted, TypeOK, E4State
  <2>2. intent' \in [Required -> IntentRow]
    BY <1>0, <1>2, Rows DEF E4Apply, TypeOK, E4State
  <2>3. audit' \subseteq AuditRow
    <3> HIDE DEF m
    <3>1. audit' = audit \/ audit' = audit \cup {m}
      BY <1>2 DEF E4Apply, m
    <3> QED
      BY <1>0, <2>1, <3>1 DEF TypeOK
  <2>4. e4' \in E4State
    BY <1>2 DEF E4Apply, E4Idle, E4State, IntentStatus
  <2> QED
    BY <1>0, <1>2, <2>2, <2>3, <2>4 DEF E4Apply, TypeOK
<1>3. CASE E4Conflicts \/ E4Fails
  <2>1. e4' \in E4State
    BY <1>3 DEF E4Conflicts, E4Fails, E4Idle, E4State, IntentStatus
  <2> QED
    BY <1>0, <1>3, <2>1 DEF E4Conflicts, E4Fails, TypeOK
<1>4. ASSUME NEW w \in Worker, NEW i \in Required, Claim(w, i) PROVE TypeOK'
  <2>1. Next1(i) \in 1..MaxClaims /\ tokens + 1 \in Nat
    BY <1>0, <1>4, NextNumber DEF Claim, TypeOK
  <2>2. intent' \in [Required -> IntentRow]
    <3>1. PICK now \in Past..0 :
            intent' = [intent EXCEPT ![i] =
                        [status |-> "CLAIMED", claimCount |-> Next1(i), leaseToken |-> tokens + 1,
                         leaseExpiresAt |-> now + LeaseMs, nextActionAt |-> Past]]
      BY <1>4 DEF Claim
    <3>2. now + LeaseMs \in Instant
      BY JourneyAssumption DEF Instant, JourneyAssumption
    <3>3. [status |-> "CLAIMED", claimCount |-> Next1(i), leaseToken |-> tokens + 1,
           leaseExpiresAt |-> now + LeaseMs, nextActionAt |-> Past] \in IntentRow
      BY <2>1, <3>2, JourneyAssumption DEF IntentRow, IntentStatus, JourneyAssumption
    <3> QED
      BY <1>0, <3>1, <3>3 DEF TypeOK
  <2>3. attempt' \in [Required -> [1..MaxClaims -> AttemptRow]]
    <3> DEFINE opened == [outcome |-> "IN_FLIGHT", token |-> tokens + 1]
               rows == [Closed(i) EXCEPT ![Next1(i)] = opened]
    <3>1. opened \in AttemptRow
      BY <2>1 DEF AttemptRow
    <3>2. rows \in [1..MaxClaims -> AttemptRow]
      BY <1>0, <3>1, ClosedType
    <3>3. attempt' = [attempt EXCEPT ![i] = rows]
      BY <1>4 DEF Claim
    <3> HIDE DEF rows
    <3> QED
      BY <1>0, <3>2, <3>3 DEF TypeOK
  <2>4. worker' \in [Worker -> WorkerState]
    <3> DEFINE holder == [pc |-> "claimed", now |-> Past, intent |-> {i}, number |-> Next1(i),
                          token |-> tokens + 1, completion |-> "NONE"]
    <3>1. Next1(i) \in 0..MaxClaims /\ {i} \in SUBSET Required
      BY <2>1, JourneyAssumption DEF JourneyAssumption
    <3>2. holder \in WorkerState
      BY <2>1, <3>1 DEF WorkerState
    <3>3. worker' = [worker EXCEPT ![w] = holder]
      BY <1>4 DEF Claim
    <3> HIDE DEF holder
    <3> QED
      BY <1>0, <3>2, <3>3 DEF TypeOK
  <2> QED
    BY <1>0, <1>4, <2>1, <2>2, <2>3, <2>4 DEF Claim, TypeOK
<1>5. ASSUME NEW w \in Worker, NEW i \in Required, ClaimExhausts(w, i) PROVE TypeOK'
  <2>1. intent' \in [Required -> IntentRow]
    BY <1>0, <1>5, Rows DEF ClaimExhausts, TypeOK
  <2>2. attempt' \in [Required -> [1..MaxClaims -> AttemptRow]]
    BY <1>0, <1>5, ClosedType DEF ClaimExhausts, TypeOK
  <2> QED
    BY <1>0, <1>5, <2>1, <2>2 DEF ClaimExhausts, TypeOK
<1>6. ASSUME NEW w \in Worker, NEW i \in Required, Complete(w, i) PROVE TypeOK'
  <2> DEFINE n == intent[i].claimCount
             verdict == Verdict(worker[w].completion, n)
  <2>1. n \in 1..MaxClaims /\ n > 0 /\ worker[w] \in WorkerState /\ intent[i] \in IntentRow
    BY <1>0, <1>6, JourneyAssumption
    DEF Complete, HoldsClaim, ClaimHasAttempt, TypeOK, IntentRow, JourneyAssumption
  <2>2. verdict \in Kinds \cup {"EXHAUSTED"}
    BY <1>0, <1>6, <2>1, Rows DEF Complete, HandlerSaid
  <2>3. CompletedRow(intent[i], verdict, worker[w].now) \in IntentRow
    <3>1. worker[w].now \in Past..0
      BY <2>1 DEF WorkerState
    <3> HIDE DEF verdict
    <3> QED
      BY <2>1, <2>2, <3>1, Rows
  <2>4. [outcome |-> verdict, token |-> worker[w].token] \in AttemptRow
    BY <2>1, <2>2 DEF AttemptRow, WorkerState
  <2>5. worker' \in [Worker -> WorkerState]
    BY <1>0, <1>6, JourneyAssumption
    DEF Complete, Finish, TypeOK, Idle, WorkerState, JourneyAssumption
  <2>6. /\ intent' = [intent EXCEPT ![i] = CompletedRow(intent[i], verdict, worker[w].now)]
        /\ attempt' = [attempt EXCEPT ![i] =
                         [attempt[i] EXCEPT ![n] = [outcome |-> verdict,
                                                    token |-> worker[w].token]]]
        /\ UNCHANGED <<evidence, audit, e4, tokens, changes>>
    BY <1>6 DEF Complete
  <2> HIDE DEF verdict, n
  <2>7. intent' \in [Required -> IntentRow]
    BY <1>0, <2>3, <2>6 DEF TypeOK
  <2>8. attempt' \in [Required -> [1..MaxClaims -> AttemptRow]]
    BY <1>0, <2>1, <2>4, <2>6 DEF TypeOK
  <2> QED
    BY <1>0, <2>5, <2>6, <2>7, <2>8 DEF TypeOK
<1>7. ASSUME NEW w \in Worker, ExecuteHandler(w) \/ WorkerFails(w)
                                \/ \E i \in Required : CompleteThrows(w, i)
      PROVE TypeOK'
  <2>1. Idle \in WorkerState
    BY JourneyAssumption, Instants DEF Idle, WorkerState, JourneyAssumption
  <2>2. \A kind \in Kinds : [worker[w] EXCEPT !.pc = "executed", !.now = 0,
                                              !.completion = kind] \in WorkerState
    BY <1>0, Instants DEF TypeOK, WorkerState
  <2>3. CASE ExecuteHandler(w)
    BY <1>0, <2>2, <2>3 DEF ExecuteHandler, TypeOK, Kinds
  <2>4. CASE WorkerFails(w) \/ \E i \in Required : CompleteThrows(w, i)
    BY <1>0, <2>1, <2>4 DEF WorkerFails, CompleteThrows, Finish, TypeOK
  <2> QED
    BY <1>7, <2>3, <2>4
<1>8. CASE ChangeEvidence
  BY <1>0, <1>8, JourneyAssumption DEF ChangeEvidence, TypeOK, JourneyAssumption
<1>9. CASE Tick
  <2>1. intent' \in [Required -> IntentRow]
    BY <1>0, <1>9 DEF Tick, TypeOK, IntentRow
  <2>2. e4' \in E4State
    BY <1>0, <1>9 DEF Tick, TypeOK, E4State
  <2>3. worker' \in [Worker -> WorkerState]
    <3>1. ASSUME NEW w \in Worker
          PROVE  [worker[w] EXCEPT !.now = Earlier(worker[w].now)] \in WorkerState
      <4>1. worker[w] \in WorkerState
        BY <1>0 DEF TypeOK
      <4>2. Earlier(worker[w].now) \in Past..0
        BY <4>1, Instants DEF WorkerState
      <4> QED
        BY <4>1, <4>2 DEF WorkerState
    <3> QED
      BY <1>9, <3>1 DEF Tick
  <2> QED
    BY <1>0, <1>9, <2>1, <2>2, <2>3 DEF Tick, TypeOK
<1>10. CASE UNCHANGED vars
  BY <1>0, <1>10 DEF vars, TypeOK
<1> QED
  BY <1>1, <1>2, <1>3, <1>4, <1>5, <1>6, <1>7, <1>8, <1>9, <1>10 DEF Next

-----------------------------------------------------------------------------
(* What E4 decides on, and what workers hold.                              *)

\* A step of any other kind leaves the claims of the intents and what E4 read alone.
Elsewhere ==
    /\ \A i \in Required : /\ intent'[i].status = intent[i].status
                           /\ intent'[i].claimCount = intent[i].claimCount
                           /\ intent'[i].leaseToken = intent[i].leaseToken
    /\ e4'.pc = e4.pc /\ e4'.was = e4.was /\ e4'.seen = e4.seen

\* Only E4 activates an intent; a worker changes one row, that of an active intent.
LEMMA WorkerStep ==
    ASSUME TypeOK, NEW w \in Worker, NEW i \in Required,
           Claim(w, i) \/ ClaimExhausts(w, i) \/ Complete(w, i)
    PROVE  /\ Active(i) /\ intent'[i].status # "SUPERSEDED"
           /\ \A j \in Required \ {i} : intent'[j] = intent[j] /\ attempt'[j] = attempt[j]
           /\ e4' = e4
<1>1. CASE Claim(w, i)
  BY <1>1 DEF Claim, Claimable, Active, ActiveStatuses, TypeOK
<1>2. CASE ClaimExhausts(w, i)
  BY <1>2 DEF ClaimExhausts, Claimable, Active, ActiveStatuses, ExhaustedRow, TypeOK, IntentRow
<1>3. CASE Complete(w, i)
  <2>1. Verdict(worker[w].completion, intent[i].claimCount) # "SUPERSEDED"
    BY <1>3 DEF Verdict, TypeOK, WorkerState, Kinds
  <2> QED
    BY <1>3, <2>1 DEF Complete, HoldsClaim, Active, ActiveStatuses, CompletedRow, TypeOK
<1> QED
  BY <1>1, <1>2, <1>3

\* What a materialization does: it supersedes obsolete intents as they were read, and
\* adds one only if none of them is left.
LEMMA ApplyStep ==
    ASSUME TypeOK, E4Apply
    PROVE  LET m == Writes(e4.seen, Superseded, Wanted)
           IN  /\ \A i \in m.superseded : /\ i \in Superseded
                                          /\ intent'[i].status = "SUPERSEDED"
               /\ \A i \in (m.created \cup m.reactivated) \ m.superseded :
                     /\ i \in Wanted /\ intent'[i].status = "PENDING"
               /\ \A i \in Required \ (m.superseded \cup m.created \cup m.reactivated) :
                     intent'[i] = intent[i]
               /\ m.superseded = Superseded
               /\ e4'.pc = "idle" /\ attempt' = attempt
<1> DEFINE m == Writes(e4.seen, Superseded, Wanted)
<1>1. /\ intent' = [i \in Required |->
                       IF i \in m.superseded THEN SupersededRow(intent[i])
                       ELSE IF i \in m.created \cup m.reactivated THEN PendingRow(e4.now)
                       ELSE intent[i]]
      /\ e4' = E4Idle /\ attempt' = attempt
  BY DEF E4Apply
<1>2. /\ m.superseded = Superseded
      /\ m.created \cup m.reactivated \subseteq Wanted
      /\ Superseded \subseteq Required /\ Wanted \subseteq Required
  BY DEF Writes, Superseded, Obsolete, Wanted
<1>3. \A row \in IntentRow : SupersededRow(row).status = "SUPERSEDED"
  BY DEF IntentRow, SupersededRow
<1>4. \A i \in Required : intent[i] \in IntentRow
  BY DEF TypeOK
<1>5. PendingRow(e4.now).status = "PENDING" /\ E4Idle.pc = "idle"
  BY DEF PendingRow, E4Idle
<1> HIDE DEF m
<1>6. /\ \A i \in m.superseded : i \in Superseded /\ intent'[i].status = "SUPERSEDED"
      /\ \A i \in (m.created \cup m.reactivated) \ m.superseded :
            i \in Wanted /\ intent'[i].status = "PENDING"
      /\ \A i \in Required \ (m.superseded \cup m.created \cup m.reactivated) :
            intent'[i] = intent[i]
  BY <1>1, <1>2, <1>3, <1>4, <1>5
<1> QED
  BY <1>1, <1>2, <1>5, <1>6 DEF m

LEMMA OthersStep ==
    ASSUME TypeOK, [Next]_vars, ~E4Apply, ~E4Read, ~E4Conflicts, ~E4Fails,
           ~\E w \in Worker, i \in Required :
               Claim(w, i) \/ ClaimExhausts(w, i) \/ Complete(w, i)
    PROVE  Elsewhere /\ attempt' = attempt
<1>1. CASE Tick
  BY <1>1 DEF Tick, Elsewhere, TypeOK, IntentRow, E4State
<1>2. CASE UNCHANGED vars
  BY <1>2 DEF vars, Elsewhere
<1> QED
  BY <1>1, <1>2 DEF Next, CompleteThrows, ExecuteHandler, WorkerFails, ChangeEvidence, Elsewhere

LEMMA HandlerStep == Inv /\ [Next]_vars => HandlerSaid'
<1> SUFFICES ASSUME Inv, [Next]_vars, NEW v \in Worker, worker'[v].pc = "executed"
             PROVE  worker'[v].completion \in Kinds
  BY DEF HandlerSaid
<1>0. TypeOK /\ HandlerSaid
  BY DEF Inv
<1>1. CASE \E w \in Worker : ExecuteHandler(w)
  BY <1>0, <1>1 DEF ExecuteHandler, TypeOK, WorkerState, HandlerSaid, Kinds
<1>2. ASSUME NEW w \in Worker,
             Finish(w) \/ \E i \in Required : Claim(w, i)
      PROVE  worker'[v].completion \in Kinds
  <2>1. CASE Finish(w)
    BY <1>0, <2>1 DEF Finish, TypeOK, Idle, HandlerSaid
  <2>2. CASE \E i \in Required : Claim(w, i)
    BY <1>0, <2>2 DEF Claim, TypeOK, Idle, HandlerSaid
  <2> QED
    BY <1>2, <2>1, <2>2
<1>3. CASE Tick
  BY <1>0, <1>3 DEF Tick, TypeOK, WorkerState, HandlerSaid
<1>4. CASE worker' = worker
  BY <1>0, <1>4 DEF HandlerSaid
<1> QED
  BY <1>1, <1>2, <1>3, <1>4 DEF Next, vars, E4Read, E4Apply, E4Conflicts, E4Fails, ClaimExhausts,
     ChangeEvidence, Complete, CompleteThrows, WorkerFails

LEMMA CoversStep == Inv /\ [Next]_vars => E4Covers'
<1> SUFFICES ASSUME Inv, [Next]_vars PROVE E4Covers'
  OBVIOUS
<1>0. TypeOK /\ E4Covers
  BY DEF Inv
<1>1. CASE E4Read
  BY <1>0, <1>1 DEF E4Read, E4Covers, Active, TypeOK
<1>2. CASE E4Apply \/ E4Conflicts \/ E4Fails
  BY <1>2 DEF E4Apply, E4Conflicts, E4Fails, E4Covers, E4Idle
<1>3. ASSUME NEW w \in Worker, NEW i \in Required,
             Claim(w, i) \/ ClaimExhausts(w, i) \/ Complete(w, i)
      PROVE  E4Covers'
  BY <1>0, <1>3, WorkerStep DEF E4Covers, Active
<1>4. CASE Elsewhere
  BY <1>0, <1>4 DEF Elsewhere, E4Covers, Active
<1> QED
  BY <1>0, <1>1, <1>2, <1>3, <1>4, OthersStep

\* A step that is not E4's writing activates nothing.
LEMMA NothingActivated ==
    ASSUME TypeOK, [Next]_vars, ~E4Apply
    PROVE  \A i \in Required : Active(i)' => Active(i)
<1>1. ASSUME NEW w \in Worker, NEW i \in Required,
             Claim(w, i) \/ ClaimExhausts(w, i) \/ Complete(w, i)
      PROVE  \A j \in Required : Active(j)' => Active(j)
  BY <1>1, WorkerStep DEF Active
<1>2. CASE E4Read \/ E4Conflicts \/ E4Fails
  BY <1>2 DEF E4Read, E4Conflicts, E4Fails, Active
<1>3. CASE Elsewhere
  BY <1>3 DEF Elsewhere, Active
<1> QED
  BY <1>1, <1>2, <1>3, OthersStep

LEMMA OneActiveStep == Inv /\ [Next]_vars => OneActiveIntent'
<1> SUFFICES ASSUME Inv, [Next]_vars PROVE OneActiveIntent'
  OBVIOUS
<1>0. TypeOK /\ E4Covers /\ OneActiveIntent
  BY DEF Inv
<1>1. CASE E4Apply
  <2> DEFINE m == Writes(e4.seen, Superseded, Wanted)
             added == (m.created \cup m.reactivated) \ m.superseded
  <2>1. /\ \A i \in m.superseded : ~Active(i)'
        /\ \A i \in Required : Active(i)' => Active(i) \/ i \in added
        /\ added \subseteq Wanted /\ m.superseded = Superseded
    BY <1>0, <1>1, ApplyStep DEF Active, ActiveStatuses
  <2> HIDE DEF added, m
  <2>2. CASE Wanted = {}
    BY <1>0, <2>1, <2>2 DEF OneActiveIntent
  <2>3. CASE Wanted # {}
    <3>1. /\ Obsolete \subseteq Superseded
          /\ Wanted \subseteq e4.seen
          /\ \A i \in Wanted : e4.was[i] \notin ActiveStatuses
      BY <2>3 DEF Wanted
    <3>2. PICK e \in Evidence : e4.seen = {e}
      BY <1>0, <1>1 DEF E4Covers, E4Apply
    <3>3. ASSUME NEW j \in Required, Active(j)' PROVE j = e
      <4>1. CASE j \in added
        BY <2>1, <3>1, <3>2, <4>1
      <4>2. CASE j \notin added
        <5>1. e4.was[j] \in ActiveStatuses
          BY <1>0, <1>1, <2>1, <3>3, <4>2 DEF E4Covers, E4Apply
        <5>2. j \notin Superseded
          BY <2>1, <3>3
        <5> QED
          BY <3>1, <3>2, <5>1, <5>2 DEF Obsolete
      <4> QED
        BY <4>1, <4>2
    <3> QED
      BY <3>3 DEF OneActiveIntent
  <2> QED
    BY <2>2, <2>3
<1>2. CASE ~E4Apply
  BY <1>0, <1>2, NothingActivated DEF OneActiveIntent
<1> QED
  BY <1>1, <1>2

LEMMA ClaimStep == Inv /\ [Next]_vars => ClaimHasAttempt'
<1> SUFFICES ASSUME Inv, [Next]_vars, NEW j \in Required, intent'[j].status = "CLAIMED"
             PROVE  /\ intent'[j].claimCount > 0
                    /\ InFlight(j, intent[j].claimCount, intent[j].leaseToken)'
  BY DEF ClaimHasAttempt
<1>0. TypeOK /\ ClaimHasAttempt /\ HandlerSaid
  BY DEF Inv
<1>1. CASE E4Apply
  <2>1. intent'[j] = intent[j] /\ attempt' = attempt
    BY <1>0, <1>1, ApplyStep
  <2> QED
    BY <1>0, <2>1 DEF ClaimHasAttempt, InFlight
<1>2. CASE E4Read \/ E4Conflicts \/ E4Fails
  BY <1>0, <1>2 DEF E4Read, E4Conflicts, E4Fails, ClaimHasAttempt, InFlight
<1>3. ASSUME NEW w \in Worker, NEW i \in Required,
             Claim(w, i) \/ ClaimExhausts(w, i) \/ Complete(w, i)
      PROVE  /\ intent'[j].claimCount > 0
             /\ InFlight(j, intent[j].claimCount, intent[j].leaseToken)'
  <2>1. CASE j # i
    <3>1. intent'[j] = intent[j] /\ attempt'[j] = attempt[j]
      BY <1>0, <1>3, <2>1, WorkerStep
    <3> QED
      BY <1>0, <3>1 DEF ClaimHasAttempt, InFlight
  <2>2. CASE j = i /\ Claim(w, i)
    <3>1. Next1(i) \in 1..MaxClaims /\ Closed(i) \in [1..MaxClaims -> AttemptRow]
      BY <1>0, <2>2, NextNumber, ClosedType DEF Claim
    <3>2. intent'[i].claimCount = Next1(i) /\ intent'[i].leaseToken = tokens + 1
      BY <1>0, <2>2 DEF Claim, TypeOK
    <3>3. attempt'[i][Next1(i)] = [outcome |-> "IN_FLIGHT", token |-> tokens + 1]
      BY <1>0, <2>2, <3>1 DEF Claim, TypeOK
    <3> QED
      BY <2>2, <3>1, <3>2, <3>3 DEF InFlight
  <2>3. CASE j = i /\ ClaimExhausts(w, i)
    BY <1>0, <2>3 DEF ClaimExhausts, ExhaustedRow, TypeOK, IntentRow
  <2>4. CASE j = i /\ Complete(w, i)
    <3>1. intent'[i].status = Verdict(worker[w].completion, intent[i].claimCount)
      BY <1>0, <2>4 DEF Complete, CompletedRow, TypeOK
    <3>2. Verdict(worker[w].completion, intent[i].claimCount) # "CLAIMED"
      BY <1>0, <2>4 DEF Verdict, Complete, HandlerSaid, Kinds
    <3> QED
      BY <2>4, <3>1, <3>2
  <2> QED
    BY <1>3, <2>1, <2>2, <2>3, <2>4
<1>4. CASE Elsewhere /\ attempt' = attempt
  BY <1>0, <1>4 DEF Elsewhere, ClaimHasAttempt, InFlight
<1> QED
  BY <1>0, <1>1, <1>2, <1>3, <1>4, OthersStep

LEMMA InvStep == Inv /\ [Next]_vars => Inv'
BY TypeStep, HandlerStep, CoversStep, OneActiveStep, ClaimStep DEF Inv

LEMMA Invariant == Spec => []Inv
<1>1. Init => Inv
  BY InitInv
<1>2. Inv /\ [Next]_vars => Inv'
  BY InvStep
<1> QED
  BY <1>1, <1>2, PTL DEF Spec

-----------------------------------------------------------------------------
(* The theorems.                                                           *)

\* Every row and local state is of its kind.
THEOREM Types == Spec => []TypeOK
<1>1. Inv => TypeOK
  BY DEF Inv
<1> QED
  BY <1>1, Invariant, PTL

\* A reservation has one active ACCESS evaluation at most, however E4 and any number of
\* owner processes interleave.
THEOREM OneActive == Spec => []OneActiveIntent
<1>1. Inv => OneActiveIntent
  BY DEF Inv
<1> QED
  BY <1>1, Invariant, PTL

\* A claimed intent has the attempt its lease was opened with, in flight: neither
\* recovery nor a timely completion fails for want of evidence.
THEOREM ClaimsBacked == Spec => []ClaimHasAttempt
<1>1. Inv => ClaimHasAttempt
  BY DEF Inv
<1> QED
  BY <1>1, Invariant, PTL

\* E4 supersedes no intent whose lease has time left.
THEOREM LivePreserved == Spec => LiveClaimsPreserved
<1>1. Inv /\ [Next]_vars =>
        [\A i \in Required : i \in LiveClaims(0) => intent'[i].status # "SUPERSEDED"]_vars
  <2> SUFFICES ASSUME Inv, [Next]_vars, NEW i \in Required, i \in LiveClaims(0),
                      intent'[i].status = "SUPERSEDED"
               PROVE  FALSE
    OBVIOUS
  <2>0. TypeOK /\ intent[i].status = "CLAIMED" /\ intent[i].leaseExpiresAt > 0
    BY DEF Inv, LiveClaims
  <2>1. CASE E4Apply
    <3>1. i \in Superseded
      BY <2>0, <2>1, ApplyStep
    <3>2. intent[i].leaseExpiresAt <= e4.now
      BY <2>0, <3>1 DEF Superseded
    <3>3. e4.now \in Past..0 /\ intent[i].leaseExpiresAt \in Int
      BY <2>0 DEF TypeOK, E4State, IntentRow, Instant
    <3> QED
      BY <2>0, <3>2, <3>3, Instants
  <2>2. CASE E4Read \/ E4Conflicts \/ E4Fails
    BY <2>0, <2>2 DEF E4Read, E4Conflicts, E4Fails
  <2>3. ASSUME NEW w \in Worker, NEW j \in Required,
               Claim(w, j) \/ ClaimExhausts(w, j) \/ Complete(w, j)
        PROVE  FALSE
    BY <2>0, <2>3, WorkerStep
  <2>4. CASE Elsewhere
    BY <2>0, <2>4 DEF Elsewhere
  <2> QED
    BY <2>0, <2>1, <2>2, <2>3, <2>4, OthersStep
<1> QED
  BY <1>1, Invariant, PTL DEF Spec, LiveClaimsPreserved

LEMMA FinalStep ==
    Inv /\ [Next]_vars =>
      \A i \in Required, n \in 1..MaxClaims :
        attempt[i][n].outcome \notin {"NONE", "IN_FLIGHT"} => attempt'[i][n] = attempt[i][n]
<1> SUFFICES ASSUME Inv, [Next]_vars, NEW i \in Required, NEW n \in 1..MaxClaims,
                    attempt[i][n].outcome \notin {"NONE", "IN_FLIGHT"}
             PROVE  attempt'[i][n] = attempt[i][n]
  OBVIOUS
<1>0. TypeOK
  BY DEF Inv
<1>1. CASE E4Apply
  BY <1>0, <1>1, ApplyStep
<1>2. CASE E4Read \/ E4Conflicts \/ E4Fails
  BY <1>2 DEF E4Read, E4Conflicts, E4Fails
<1>3. ASSUME NEW w \in Worker, NEW j \in Required,
             Claim(w, j) \/ ClaimExhausts(w, j) \/ Complete(w, j)
      PROVE  attempt'[i][n] = attempt[i][n]
  <2>1. CASE i # j
    BY <1>0, <1>3, <2>1, WorkerStep
  <2>2. CASE i = j /\ (Claim(w, j) \/ ClaimExhausts(w, j))
    <3>1. ~(Stale(i) /\ n = intent[i].claimCount)
      BY <2>2 DEF Claim, ClaimExhausts, EvidenceMissing, InFlight
    <3>2. Closed(i)[n] = attempt[i][n] /\ Closed(i) \in [1..MaxClaims -> AttemptRow]
      BY <1>0, <3>1, ClosedType
    <3>3. CASE Claim(w, i)
      <4>1. n # Next1(i)
        BY <3>3 DEF Claim, NumberTaken
      <4> QED
        BY <1>0, <3>2, <3>3, <4>1 DEF Claim, TypeOK
    <3>4. CASE ClaimExhausts(w, i)
      BY <1>0, <3>2, <3>4 DEF ClaimExhausts, TypeOK
    <3> QED
      BY <2>2, <3>3, <3>4
  <2>3. CASE i = j /\ Complete(w, j)
    <3>1. n # intent[i].claimCount
      BY <2>3 DEF Complete, HoldsClaim, InFlight
    <3> QED
      BY <1>0, <2>3, <3>1 DEF Complete, TypeOK
  <2> QED
    BY <1>3, <2>1, <2>2, <2>3
<1>4. CASE attempt' = attempt
  BY <1>4
<1> QED
  BY <1>0, <1>1, <1>2, <1>3, <1>4, OthersStep

\* The outcome recorded for an attempt is never rewritten.
THEOREM OutcomesKept == Spec => OutcomesFinal
<1>1. Inv /\ [Next]_vars =>
        [\A i \in Required, n \in 1..MaxClaims :
           attempt[i][n].outcome \notin {"NONE", "IN_FLIGHT"} =>
             attempt'[i][n] = attempt[i][n]]_vars
  BY FinalStep
<1> QED
  BY <1>1, Invariant, PTL DEF Spec, OutcomesFinal

-----------------------------------------------------------------------------
(* The ledger of attempts.                                                 *)

OutcomeGiven(i, k) == attempt[i][k].outcome \notin {"NONE", "IN_FLIGHT"}

\* The attempts before the one under way are closed, and an intent that waits for its
\* retry has closed its last one and has budget left.
Numbered ==
    \A i \in Required :
        /\ intent[i].status = "PENDING" => intent[i].claimCount = 0
        /\ intent[i].status \in {"CLAIMED", "RETRYABLE"} =>
             \A k \in 1..MaxClaims : k < intent[i].claimCount => OutcomeGiven(i, k)
        /\ intent[i].status = "RETRYABLE" =>
             /\ intent[i].claimCount \in 1..MaxClaims /\ intent[i].claimCount < MaxClaims
             /\ OutcomeGiven(i, intent[i].claimCount)

\* What a claim does: it opens the next number, and closes the stale attempt before it.
LEMMA ClaimEffect ==
    ASSUME Inv, NEW w \in Worker, NEW i \in Required, Claim(w, i)
    PROVE  /\ intent[i].status \in {"PENDING", "RETRYABLE", "CLAIMED"}
           /\ Next1(i) \in 1..MaxClaims /\ Next1(i) = intent[i].claimCount + 1
           /\ intent[i].claimCount \in Nat /\ tokens' = tokens + 1
           /\ attempt[i][Next1(i)].outcome = "NONE"
           /\ intent'[i].status = "CLAIMED" /\ intent'[i].claimCount = Next1(i)
           /\ Closed(i) \in [1..MaxClaims -> AttemptRow]
           /\ attempt' = [attempt EXCEPT ![i] =
                           [Closed(i) EXCEPT ![Next1(i)] =
                              [outcome |-> "IN_FLIGHT", token |-> tokens + 1]]]
           /\ intent[i].status = "CLAIMED" =>
                /\ intent[i].claimCount \in 1..MaxClaims
                /\ attempt[i][intent[i].claimCount].outcome = "IN_FLIGHT"
<1>0. TypeOK /\ ClaimHasAttempt
  BY DEF Inv
<1>1. ~Spent(i) /\ ~NumberTaken(i) /\ ~EvidenceMissing(i)
  BY DEF Claim
<1>2. /\ Next1(i) \in 1..MaxClaims /\ Next1(i) = intent[i].claimCount + 1
      /\ intent[i].claimCount \in 0..MaxClaims /\ intent[i].claimCount \in Nat
      /\ MaxClaims \in Nat
  BY <1>0, <1>1, NextNumber, JourneyAssumption DEF TypeOK, IntentRow, Next1, JourneyAssumption
<1>3. attempt[i][Next1(i)].outcome = "NONE"
  BY <1>1 DEF NumberTaken
<1>4. intent[i].status \in {"PENDING", "RETRYABLE", "CLAIMED"}
  BY DEF Claim, Claimable
<1>5. intent'[i].status = "CLAIMED" /\ intent'[i].claimCount = Next1(i)
  BY <1>0 DEF Claim, TypeOK
<1>6. Closed(i) \in [1..MaxClaims -> AttemptRow]
  BY <1>0, ClosedType
<1>7. /\ attempt' = [attempt EXCEPT ![i] = [Closed(i) EXCEPT ![Next1(i)] =
                              [outcome |-> "IN_FLIGHT", token |-> tokens + 1]]]
      /\ tokens' = tokens + 1
  BY DEF Claim
<1>8. ASSUME intent[i].status = "CLAIMED"
      PROVE  /\ intent[i].claimCount \in 1..MaxClaims
             /\ attempt[i][intent[i].claimCount].outcome = "IN_FLIGHT"
  <2>1. /\ intent[i].claimCount > 0
        /\ attempt[i][intent[i].claimCount]
              = [outcome |-> "IN_FLIGHT", token |-> intent[i].leaseToken]
    BY <1>0, <1>8 DEF ClaimHasAttempt, InFlight
  <2>2. intent[i].claimCount \in 1..MaxClaims
    BY <1>2, <2>1
  <2> QED
    BY <2>1, <2>2
<1> QED
  BY <1>2, <1>3, <1>4, <1>5, <1>6, <1>7, <1>8

\* The attempts after a claim, one by one.
LEMMA ClaimAttempts ==
    ASSUME Inv, NEW w \in Worker, NEW i \in Required, Claim(w, i), NEW k \in 1..MaxClaims
    PROVE  /\ k = Next1(i) => attempt'[i][k].outcome = "IN_FLIGHT"
           /\ k # Next1(i) /\ intent[i].status = "CLAIMED" /\ k = intent[i].claimCount
                => attempt'[i][k].outcome = "LEASE_EXPIRED"
           /\ k # Next1(i) /\ ~(intent[i].status = "CLAIMED" /\ k = intent[i].claimCount)
                => attempt'[i][k] = attempt[i][k]
<1>1. attempt \in [Required -> [1..MaxClaims -> AttemptRow]]
  BY DEF Inv, TypeOK
<1>2. attempt'[i] = [Closed(i) EXCEPT ![Next1(i)] =
                        [outcome |-> "IN_FLIGHT", token |-> tokens + 1]]
  BY <1>1, ClaimEffect
<1>3. Closed(i) \in [1..MaxClaims -> AttemptRow]
  BY ClaimEffect
<1>4. CASE k = Next1(i)
  BY <1>2, <1>3, <1>4
<1>5. CASE k # Next1(i) /\ intent[i].status = "CLAIMED" /\ k = intent[i].claimCount
  <2>1. attempt'[i][k] = Closed(i)[k]
    BY <1>2, <1>3, <1>5
  <2>2. Closed(i)[k] = [attempt[i][k] EXCEPT !.outcome = "LEASE_EXPIRED"]
    BY <1>5 DEF Closed, Stale
  <2>3. attempt[i][k] \in AttemptRow
    BY <1>1
  <2>4. [attempt[i][k] EXCEPT !.outcome = "LEASE_EXPIRED"].outcome = "LEASE_EXPIRED"
    BY <2>3 DEF AttemptRow
  <2> QED
    BY <1>5, <2>1, <2>2, <2>4
<1>6. CASE k # Next1(i) /\ ~(intent[i].status = "CLAIMED" /\ k = intent[i].claimCount)
  <2>1. attempt'[i][k] = Closed(i)[k]
    BY <1>2, <1>3, <1>6
  <2>2. Closed(i)[k] = attempt[i][k]
    BY <1>6 DEF Closed, Stale
  <2> QED
    BY <1>6, <2>1, <2>2
<1> QED
  BY <1>4, <1>5, <1>6

\* What a completion does: it closes the attempt under way with its verdict.
LEMMA CompleteEffect ==
    ASSUME Inv, NEW w \in Worker, NEW i \in Required, Complete(w, i)
    PROVE  \E n \in 1..MaxClaims, verdict \in Kinds \cup {"EXHAUSTED"} :
              /\ n = intent[i].claimCount /\ intent[i].status = "CLAIMED"
              /\ attempt[i][n].outcome = "IN_FLIGHT" /\ tokens' = tokens
              /\ verdict = "RETRYABLE" => n < MaxClaims
              /\ verdict = "EXHAUSTED" => n = MaxClaims
              /\ intent'[i].status = verdict /\ intent'[i].claimCount = n
              /\ attempt' = [attempt EXCEPT ![i] =
                              [attempt[i] EXCEPT ![n] =
                                 [outcome |-> verdict, token |-> attempt[i][n].token]]]
<1> DEFINE n == intent[i].claimCount
           verdict == Verdict(worker[w].completion, n)
<1>0. TypeOK /\ HandlerSaid /\ ClaimHasAttempt
  BY DEF Inv
<1>1. /\ intent[i].status = "CLAIMED" /\ n = worker[w].number
      /\ attempt[i][n] = [outcome |-> "IN_FLIGHT", token |-> worker[w].token]
  BY DEF Complete, HoldsClaim, InFlight
<1>2. n \in 1..MaxClaims /\ MaxClaims \in Nat
  BY <1>0, <1>1, JourneyAssumption DEF TypeOK, IntentRow, ClaimHasAttempt, JourneyAssumption
<1>3. worker[w].completion \in Kinds
  BY <1>0 DEF HandlerSaid, Complete
<1>4. /\ verdict \in Kinds \cup {"EXHAUSTED"}
      /\ verdict = "RETRYABLE" => n < MaxClaims
      /\ verdict = "EXHAUSTED" => n = MaxClaims
  <2> HIDE DEF n
  <2>1. n \in Int /\ n <= MaxClaims
    BY <1>2
  <2> QED
    BY <1>2, <1>3, <2>1 DEF Verdict, Kinds
<1>5. /\ intent' = [intent EXCEPT ![i] = CompletedRow(intent[i], verdict, worker[w].now)]
      /\ attempt' = [attempt EXCEPT ![i] = [attempt[i] EXCEPT ![n] =
                        [outcome |-> verdict, token |-> worker[w].token]]]
      /\ tokens' = tokens
  BY DEF Complete
<1> HIDE DEF verdict
<1>6. intent'[i].status = verdict /\ intent'[i].claimCount = n
  BY <1>0, <1>5 DEF TypeOK, CompletedRow
<1>7. worker[w].token = attempt[i][n].token /\ attempt[i][n].outcome = "IN_FLIGHT"
  BY <1>1
<1>8. attempt' = [attempt EXCEPT ![i] = [attempt[i] EXCEPT ![n] =
                    [outcome |-> verdict, token |-> attempt[i][n].token]]]
  BY <1>5, <1>7
<1> QED
  <2>1. n = intent[i].claimCount
    OBVIOUS
  <2> HIDE DEF n
  <2> QED
    BY <1>1, <1>2, <1>4, <1>5, <1>6, <1>7, <1>8, <2>1

LEMMA NumberedStep == Inv /\ Numbered /\ [Next]_vars => Numbered'
<1> DEFINE Ok(j) ==
      /\ intent[j].status = "PENDING" => intent[j].claimCount = 0
      /\ intent[j].status \in {"CLAIMED", "RETRYABLE"} =>
           \A k \in 1..MaxClaims : k < intent[j].claimCount => OutcomeGiven(j, k)
      /\ intent[j].status = "RETRYABLE" =>
           /\ intent[j].claimCount \in 1..MaxClaims /\ intent[j].claimCount < MaxClaims
           /\ OutcomeGiven(j, intent[j].claimCount)
<1> SUFFICES ASSUME Inv, Numbered, [Next]_vars, NEW j \in Required PROVE Ok(j)'
  BY DEF Numbered
<1>0. TypeOK /\ Ok(j) /\ MaxClaims \in Nat
  BY JourneyAssumption DEF Inv, Numbered, JourneyAssumption
<1>1. ASSUME intent'[j].status = intent[j].status, intent'[j].claimCount = intent[j].claimCount,
             attempt'[j] = attempt[j]
      PROVE  Ok(j)'
  BY <1>0, <1>1 DEF OutcomeGiven
<1>2. CASE E4Apply
  <2>1. \/ intent'[j] = intent[j] \/ intent'[j] = PendingRow(e4.now)
        \/ intent'[j] = SupersededRow(intent[j])
    BY <1>2 DEF E4Apply
  <2>2. attempt' = attempt
    BY <1>2 DEF E4Apply
  <2>3. intent[j] \in IntentRow
    BY <1>0 DEF TypeOK
  <2>4. SupersededRow(intent[j]).status = "SUPERSEDED"
    BY <2>3 DEF SupersededRow, IntentRow
  <2>5. PendingRow(e4.now).status = "PENDING" /\ PendingRow(e4.now).claimCount = 0
    BY DEF PendingRow
  <2> QED
    <3>1. CASE intent'[j] = intent[j]
      BY <1>1, <2>2, <3>1
    <3>2. CASE intent'[j] # intent[j]
      BY <2>1, <2>4, <2>5, <3>2
    <3> QED
      BY <3>1, <3>2
<1>3. CASE E4Read \/ E4Conflicts \/ E4Fails
  BY <1>1, <1>3 DEF E4Read, E4Conflicts, E4Fails
<1>4. CASE Elsewhere /\ attempt' = attempt
  BY <1>1, <1>4 DEF Elsewhere
<1>5. ASSUME NEW w \in Worker, NEW i \in Required,
             Claim(w, i) \/ ClaimExhausts(w, i) \/ Complete(w, i)
      PROVE  Ok(j)'
  <2>1. CASE j # i
    BY <1>0, <1>1, <1>5, <2>1, WorkerStep
  <2>2. CASE j = i /\ Claim(w, i)
    <3>1. intent'[j].status = "CLAIMED" /\ intent'[j].claimCount = intent[j].claimCount + 1
      BY <2>2, ClaimEffect
    <3>2. ASSUME NEW k \in 1..MaxClaims, k < intent[j].claimCount + 1
          PROVE  attempt'[j][k].outcome \notin {"NONE", "IN_FLIGHT"}
      <4>0. /\ Next1(j) = intent[j].claimCount + 1 /\ intent[j].claimCount \in Nat
            /\ intent[j].status \in {"PENDING", "RETRYABLE", "CLAIMED"}
        BY <2>2, ClaimEffect
      <4>1. k # Next1(j) /\ k <= intent[j].claimCount
        BY <3>2, <4>0
      <4>2. CASE intent[j].status = "CLAIMED" /\ k = intent[j].claimCount
        BY <2>2, <4>1, <4>2, ClaimAttempts
      <4>3. CASE ~(intent[j].status = "CLAIMED" /\ k = intent[j].claimCount)
        <5>1. attempt'[j][k] = attempt[j][k]
          BY <2>2, <4>1, <4>3, ClaimAttempts
        <5>2. intent[j].status # "PENDING"
          BY <1>0, <4>1
        <5>3. k < intent[j].claimCount \/ k = intent[j].claimCount
          BY <4>0, <4>1
        <5>4. OutcomeGiven(j, k)
          BY <1>0, <4>0, <4>3, <5>2, <5>3
        <5> QED
          BY <5>1, <5>4 DEF OutcomeGiven
      <4> QED
        BY <4>2, <4>3
    <3> QED
      BY <3>1, <3>2 DEF OutcomeGiven
  <2>3. CASE j = i /\ ClaimExhausts(w, i)
    <3>1. intent'[j].status = "EXHAUSTED"
      BY <1>0, <2>3 DEF ClaimExhausts, ExhaustedRow, TypeOK, IntentRow
    <3> QED
      BY <3>1
  <2>4. CASE j = i /\ Complete(w, i)
    <3>1. PICK n \in 1..MaxClaims, verdict \in Kinds \cup {"EXHAUSTED"} :
              /\ n = intent[i].claimCount /\ intent[i].status = "CLAIMED"
              /\ verdict = "RETRYABLE" => n < MaxClaims
              /\ intent'[i].status = verdict /\ intent'[i].claimCount = n
              /\ attempt' = [attempt EXCEPT ![i] =
                              [attempt[i] EXCEPT ![n] =
                                 [outcome |-> verdict, token |-> attempt[i][n].token]]]
      BY <2>4, CompleteEffect
    <3>2. verdict \notin {"NONE", "IN_FLIGHT", "PENDING", "CLAIMED"}
      BY DEF Kinds
    <3>3. attempt'[i] = [attempt[i] EXCEPT ![n] = [outcome |-> verdict,
                                                   token |-> attempt[i][n].token]]
      BY <1>0, <3>1 DEF TypeOK
    <3>4. attempt[i] \in [1..MaxClaims -> AttemptRow]
      BY <1>0 DEF TypeOK
    <3>5. /\ attempt'[i][n].outcome = verdict
          /\ \A k \in 1..MaxClaims : k # n => attempt'[i][k] = attempt[i][k]
      <4>1. PICK row : row = [outcome |-> verdict, token |-> attempt[i][n].token]
        OBVIOUS
      <4>2. attempt'[i] = [attempt[i] EXCEPT ![n] = row]
        BY <3>3, <4>1
      <4>3. /\ attempt'[i][n] = row
            /\ \A k \in 1..MaxClaims : k # n => attempt'[i][k] = attempt[i][k]
        BY <3>4, <4>2
      <4> QED
        BY <4>1, <4>3
    <3>6. \A k \in 1..MaxClaims : k < n => OutcomeGiven(j, k)
      BY <1>0, <2>4, <3>1
    <3>7. \A k \in 1..MaxClaims : k < n => OutcomeGiven(j, k)'
      BY <2>4, <3>5, <3>6 DEF OutcomeGiven
    <3>8. OutcomeGiven(j, n)'
      BY <2>4, <3>2, <3>5 DEF OutcomeGiven
    <3> QED
      BY <2>4, <3>1, <3>2, <3>7, <3>8
  <2> QED
    BY <1>5, <2>1, <2>2, <2>3, <2>4
<1> QED
  <2> HIDE DEF Ok
  <2> QED
    BY <1>0, <1>2, <1>3, <1>4, <1>5, OthersStep

Stages == [i \in Required |-> Stage(i)]

\* An intent that moves alone moves alone in the ledger.
LEMMA StageMoves ==
    ASSUME NEW i \in Required, \A j \in Required \ {i} : intent'[j] = intent[j]
    PROVE  Stages' = [Stages EXCEPT ![i] = Stage(i)']
<1>1. \A j \in Required \ {i} : Stage(j)' = Stage(j)
  BY DEF Stage
<1> HIDE DEF Stage
<1> QED
  BY <1>1 DEF Stages

LEMMA StagesKept ==
    ASSUME \A j \in Required : intent'[j].status = intent[j].status
    PROVE  Stages' = Stages
<1>1. \A j \in Required : Stage(j)' = Stage(j)
  BY DEF Stage
<1> QED
  BY <1>1 DEF Stages

LEMMA LedgerBegins == Init => Ledger!LedgerInit
<1> SUFFICES ASSUME Init PROVE Ledger!LedgerInit
  OBVIOUS
<1>1. \A i \in Required : Stage(i) = "out"
  BY DEF Init, Stage, NoIntent
<1>2. Stages = [i \in Required |-> "out"]
  BY <1>1 DEF Stages
<1> QED
  BY <1>2 DEF Init, NoAttempt, Ledger!LedgerInit, Stages

\* E4's writing is the decision of the ledger: what it supersedes goes out of force, and
\* what it creates or reactivates is then alone in force.
LEMMA DecideStep ==
    ASSUME Inv, [Next]_vars, E4Apply
    PROVE  Ledger!Decide
<1> DEFINE m == Writes(e4.seen, Superseded, Wanted)
           new == (m.created \cup m.reactivated) \ m.superseded
           gone == m.superseded
<1>0. TypeOK /\ OneActiveIntent'
  BY OneActiveStep DEF Inv
<1>1. /\ \A i \in gone : i \in Superseded /\ intent'[i].status = "SUPERSEDED"
      /\ \A i \in new : i \in Wanted /\ intent'[i].status = "PENDING"
      /\ \A i \in Required \ (gone \cup new) : intent'[i] = intent[i]
      /\ attempt' = attempt
  BY <1>0, ApplyStep
<1>2. tokens' = tokens
  BY DEF E4Apply
<1>3. \A i \in new : i \in Required /\ intent[i].status \in {"ABSENT", "SUPERSEDED"}
  BY DEF Writes, Wanted
<1>4. \A i \in Superseded : i \in Required /\ intent[i].status \in ActiveStatuses
  BY DEF Superseded, Obsolete
<1> HIDE DEF m, new, gone
<1>5. ASSUME NEW i \in Required
      PROVE  /\ i \in gone => Stage(i) \in {"open", "claimed", "waiting"} /\ Stage(i)' = "out"
             /\ i \in new => Stage(i) = "out" /\ Stage(i)' = "open" /\ i \notin gone
             /\ i \notin gone \cup new => Stage(i)' = Stage(i)
             /\ Stage(i)' \in {"open", "claimed", "waiting"} => Active(i)'
  <2>1. ASSUME i \in gone
        PROVE  Stage(i) \in {"open", "claimed", "waiting"} /\ Stage(i)' = "out"
    BY <1>1, <1>4, <2>1 DEF Stage, ActiveStatuses
  <2>2. ASSUME i \in new
        PROVE  Stage(i) = "out" /\ Stage(i)' = "open" /\ i \notin gone
    BY <1>1, <1>3, <2>2 DEF Stage
  <2>3. ASSUME i \notin gone \cup new PROVE Stage(i)' = Stage(i)
    BY <1>1, <2>3 DEF Stage
  <2>4. ASSUME Stage(i)' \in {"open", "claimed", "waiting"} PROVE Active(i)'
    BY <2>4 DEF Stage, Active, ActiveStatuses
  <2> QED
    BY <2>1, <2>2, <2>3, <2>4
<1>6. gone \subseteq Required /\ new \subseteq Required
  BY <1>1, <1>3, <1>4
<1>7. Stages' = [i \in Required |-> IF i \in gone THEN "out"
                                    ELSE IF i \in new THEN "open" ELSE Stages[i]]
  BY <1>5 DEF Stages
<1>8. gone \in SUBSET Ledger!InForce /\ new \in SUBSET {i \in Required : Stages[i] = "out"}
  BY <1>5, <1>6 DEF Ledger!InForce, Stages
<1>9. \A i, j \in (Ledger!InForce \ gone) \cup new : i = j
  <2> SUFFICES ASSUME NEW i \in (Ledger!InForce \ gone) \cup new PROVE i \in Required /\ Active(i)'
    BY <1>0 DEF OneActiveIntent
  <2>1. /\ i \in Required
        /\ \/ i \in new
           \/ i \notin gone /\ Stage(i) \in {"open", "claimed", "waiting"}
    <3>1. CASE i \in new
      BY <1>6, <3>1
    <3>2. CASE i \in Ledger!InForce \ gone
      <4>1. i \in Required /\ Stages[i] \in {"open", "claimed", "waiting"}
        BY <3>2 DEF Ledger!InForce, Stages
      <4> QED
        BY <3>2, <4>1 DEF Stages
    <3> QED
      BY <3>1, <3>2
  <2> QED
    BY <1>5, <2>1
<1> QED
  BY <1>1, <1>2, <1>7, <1>8, <1>9 DEF Ledger!Decide, Stages

LEMMA ClosedRow ==
    ASSUME NEW row \in AttemptRow, NEW outcome
    PROVE  [row EXCEPT !.outcome = outcome] = [outcome |-> outcome, token |-> row.token]
BY DEF AttemptRow

\* A claim is a beginning, or takes a stale attempt over.
LEMMA ClaimInLedger ==
    ASSUME Inv, Numbered, NEW w \in Worker, NEW i \in Required, Claim(w, i)
    PROVE  Ledger!LedgerNext
<1> DEFINE n == Next1(i)
           c == intent[i].claimCount
           opened == [outcome |-> "IN_FLIGHT", token |-> tokens + 1]
<1>0. TypeOK /\ attempt[i] \in [1..MaxClaims -> AttemptRow]
  BY DEF Inv, TypeOK
<1>1. /\ intent[i].status \in {"PENDING", "RETRYABLE", "CLAIMED"}
      /\ n \in 1..MaxClaims /\ n = c + 1 /\ c \in Nat /\ tokens' = tokens + 1
      /\ attempt[i][n].outcome = "NONE" /\ intent'[i].status = "CLAIMED"
      /\ attempt' = [attempt EXCEPT ![i] = [Closed(i) EXCEPT ![n] = opened]]
      /\ intent[i].status = "CLAIMED" => c \in 1..MaxClaims /\ attempt[i][c].outcome = "IN_FLIGHT"
  BY ClaimEffect
<1>2. \A j \in Required \ {i} : intent'[j] = intent[j]
  BY <1>0, WorkerStep
<1>3. Stages' = [Stages EXCEPT ![i] = "claimed"]
  BY <1>1, <1>2, StageMoves DEF Stage
<1>4. CASE intent[i].status # "CLAIMED"
  <2>1. Closed(i) = attempt[i]
    BY <1>0, <1>4 DEF Closed, Stale
  <2>2. \A k \in 1 .. n - 1 : attempt[i][k].outcome \notin {"NONE", "IN_FLIGHT"}
    <3> SUFFICES ASSUME NEW k \in 1 .. n - 1
                 PROVE  attempt[i][k].outcome \notin {"NONE", "IN_FLIGHT"}
      OBVIOUS
    <3>0. n \in Int /\ n <= MaxClaims /\ MaxClaims \in Nat
      BY <1>1, JourneyAssumption DEF JourneyAssumption
    <3>1. k \in 1..MaxClaims /\ (k < c \/ k = c)
      <4>1. k \in Int /\ 1 <= k /\ k <= n - 1
        BY <3>0
      <4>2. n = c + 1 /\ c \in Nat
        BY <1>1
      <4> HIDE DEF n, c
      <4> QED
        BY <3>0, <4>1, <4>2
    <3>2. intent[i].status = "RETRYABLE"
      BY <1>1, <1>4, <3>1 DEF Numbered
    <3>3. OutcomeGiven(i, k)
      BY <3>1, <3>2 DEF Numbered
    <3> QED
      BY <3>3 DEF OutcomeGiven
  <2>3. Stages[i] = "open"
    BY <1>1, <1>4 DEF Stages, Stage
  <2> HIDE DEF n, c, opened
  <2>4. opened = Ledger!Opened
    BY DEF Ledger!Opened, opened
  <2>5. Ledger!Begin(i, n)
    BY <1>1, <1>3, <2>1, <2>2, <2>3, <2>4
    DEF Ledger!Begin, Ledger!Unused, Ledger!Running, Ledger!Moves, Stages
  <2> QED
    BY <1>1, <2>5 DEF Ledger!LedgerNext
<1>5. CASE intent[i].status = "CLAIMED"
  <2>1. Closed(i) = [attempt[i] EXCEPT ![c] = [attempt[i][c] EXCEPT !.outcome = "LEASE_EXPIRED"]]
    BY <1>0, <1>1, <1>5 DEF Closed, Stale
  <2>2. Stages[i] = "claimed" /\ Stages = [j \in Required |-> Stages[j]]
    BY <1>5 DEF Stages, Stage
  <2> HIDE DEF n, c, opened
  <2>3. opened = Ledger!Opened
    BY DEF Ledger!Opened, opened
  <2>4. Stages' = Stages
    BY <1>3, <2>2
  <2>5. c \in 1..MaxClaims /\ c < MaxClaims /\ c + 1 = n
    BY <1>1, <1>5, JourneyAssumption DEF JourneyAssumption
  <2>6. attempt' = [attempt EXCEPT ![i] =
                     [attempt[i] EXCEPT ![c] = [attempt[i][c] EXCEPT !.outcome = "LEASE_EXPIRED"],
                                        ![n] = opened]]
    BY <1>1, <2>1
  <2>7. Ledger!TakeOver(i, c)
    BY <1>1, <1>5, <2>2, <2>3, <2>4, <2>5, <2>6
    DEF Ledger!TakeOver, Ledger!Unused, Ledger!Running, Stages
  <2> QED
    BY <2>5, <2>7 DEF Ledger!LedgerNext
<1> QED
  BY <1>4, <1>5

\* Only the lease of a last attempt is ever given up.
LEMMA ExhaustsInLedger ==
    ASSUME Inv, Numbered, NEW w \in Worker, NEW i \in Required, ClaimExhausts(w, i)
    PROVE  Ledger!LedgerNext
<1>0. /\ TypeOK /\ ClaimHasAttempt /\ attempt[i] \in [1..MaxClaims -> AttemptRow]
      /\ MaxClaims \in Nat \ {0} /\ intent[i].claimCount \in 0..MaxClaims
  BY JourneyAssumption DEF Inv, TypeOK, IntentRow, JourneyAssumption
<1>1. intent[i].status = "CLAIMED" /\ intent[i].claimCount = MaxClaims
  <2>1. intent[i].claimCount = MaxClaims
    BY <1>0 DEF ClaimExhausts, Spent
  <2>2. intent[i].status \in {"PENDING", "RETRYABLE", "CLAIMED"}
    BY DEF ClaimExhausts, Claimable
  <2>3. intent[i].status # "PENDING" /\ intent[i].status # "RETRYABLE"
    BY <1>0, <2>1 DEF Numbered
  <2> QED
    BY <2>1, <2>2, <2>3
<1>2. attempt[i][MaxClaims].outcome = "IN_FLIGHT"
  <2>1. InFlight(i, MaxClaims, intent[i].leaseToken)
    BY <1>0, <1>1 DEF ClaimHasAttempt
  <2> QED
    BY <2>1 DEF InFlight
<1>3. Closed(i) = [attempt[i] EXCEPT ![MaxClaims] =
                     [attempt[i][MaxClaims] EXCEPT !.outcome = "LEASE_EXPIRED"]]
  BY <1>0, <1>1 DEF Closed, Stale
<1>4. /\ attempt' = [attempt EXCEPT ![i] = Closed(i)] /\ tokens' = tokens
      /\ intent' = [intent EXCEPT ![i] = ExhaustedRow(intent[i])]
  BY DEF ClaimExhausts
<1>5. intent'[i].status = "EXHAUSTED" /\ \A j \in Required \ {i} : intent'[j] = intent[j]
  BY <1>0, <1>4 DEF ExhaustedRow, TypeOK, IntentRow
<1>6. Stages' = [Stages EXCEPT ![i] = "ended"]
  <2>1. Stage(i)' = "ended"
    BY <1>5 DEF Stage
  <2> QED
    BY <1>5, <2>1, StageMoves
<1>7. Stages[i] = "claimed"
  BY <1>1 DEF Stages, Stage
<1>8. Ledger!GiveUp(i)
  BY <1>2, <1>3, <1>4, <1>6, <1>7
  DEF Ledger!GiveUp, Ledger!Running, Ledger!Moves, Stages
<1> QED
  BY <1>8 DEF Ledger!LedgerNext

\* A completion closes the attempt under way.
LEMMA CompleteInLedger ==
    ASSUME Inv, NEW w \in Worker, NEW i \in Required, Complete(w, i)
    PROVE  Ledger!LedgerNext
<1>0. TypeOK /\ attempt[i] \in [1..MaxClaims -> AttemptRow]
  BY DEF Inv, TypeOK
<1>1. PICK n \in 1..MaxClaims, verdict \in Kinds \cup {"EXHAUSTED"} :
        /\ n = intent[i].claimCount /\ intent[i].status = "CLAIMED"
        /\ attempt[i][n].outcome = "IN_FLIGHT" /\ tokens' = tokens
        /\ verdict = "RETRYABLE" => n < MaxClaims
        /\ verdict = "EXHAUSTED" => n = MaxClaims
        /\ intent'[i].status = verdict /\ intent'[i].claimCount = n
        /\ attempt' = [attempt EXCEPT ![i] =
                        [attempt[i] EXCEPT ![n] =
                           [outcome |-> verdict, token |-> attempt[i][n].token]]]
  BY CompleteEffect
<1>2. \A j \in Required \ {i} : intent'[j] = intent[j]
  BY <1>0, WorkerStep
<1>3. [attempt[i][n] EXCEPT !.outcome = verdict]
        = [outcome |-> verdict, token |-> attempt[i][n].token]
  BY <1>0, ClosedRow
<1>4. attempt' = [attempt EXCEPT ![i] =
                   [attempt[i] EXCEPT ![n] = [attempt[i][n] EXCEPT !.outcome = verdict]]]
  BY <1>1, <1>3
<1>5. Stages[i] = "claimed"
  BY <1>1 DEF Stages, Stage
<1>6. ASSUME NEW to, Stage(i)' = to PROVE Ledger!Close(i, n, verdict, to)
  <2>1. Stages' = [Stages EXCEPT ![i] = to]
    BY <1>2, <1>6, StageMoves
  <2> QED
    BY <1>1, <1>4, <1>5, <2>1
    DEF Ledger!Close, Ledger!Running, Ledger!Moves, Stages
<1>7. CASE verdict = "SUCCEEDED"
  <2>1. Stage(i)' = "ended"
    BY <1>1, <1>7 DEF Stage
  <2>2. Ledger!Close(i, n, verdict, "ended")
    BY <1>6, <2>1
  <2> QED
    BY <1>7, <2>2 DEF Ledger!LedgerNext
<1>8. CASE verdict = "WAITING_FOR_EVIDENCE"
  <2>1. Stage(i)' = "waiting"
    BY <1>1, <1>8 DEF Stage
  <2>2. Ledger!Close(i, n, verdict, "waiting")
    BY <1>6, <2>1
  <2> QED
    BY <1>8, <2>2 DEF Ledger!LedgerNext
<1>9. CASE verdict = "RETRYABLE"
  <2>1. Stage(i)' = "open"
    BY <1>1, <1>9 DEF Stage
  <2>2. Ledger!Close(i, n, verdict, "open")
    BY <1>6, <2>1
  <2> QED
    BY <1>1, <1>9, <2>2 DEF Ledger!LedgerNext
<1>10. CASE verdict = "EXHAUSTED"
  <2>1. Stage(i)' = "ended"
    BY <1>1, <1>10 DEF Stage
  <2>2. Ledger!Close(i, n, verdict, "ended")
    BY <1>6, <2>1
  <2> QED
    BY <1>1, <1>10, <2>2 DEF Ledger!LedgerNext
<1> QED
  BY <1>7, <1>8, <1>9, <1>10 DEF Kinds

\* Every other step leaves the ledger as it is.
LEMMA LedgerRests ==
    ASSUME \A i \in Required : intent'[i].status = intent[i].status,
           attempt' = attempt, tokens' = tokens
    PROVE  UNCHANGED Ledger!ledgerVars
<1>1. Stages' = Stages
  BY StagesKept
<1> QED
  BY <1>1 DEF Ledger!ledgerVars, Stages

LEMMA LedgerStep ==
    ASSUME Inv, Numbered, [Next]_vars
    PROVE  [Ledger!LedgerNext]_(Ledger!ledgerVars)
<1>0. TypeOK
  BY DEF Inv
<1>1. CASE E4Apply
  BY <1>1, DecideStep DEF Ledger!LedgerNext
<1>2. CASE E4Read \/ E4Conflicts \/ E4Fails
  <2>1. intent' = intent /\ attempt' = attempt /\ tokens' = tokens
    BY <1>2 DEF E4Read, E4Conflicts, E4Fails
  <2> QED
    BY <2>1, LedgerRests
<1>3. ASSUME NEW w \in Worker, NEW i \in Required,
             Claim(w, i) \/ ClaimExhausts(w, i) \/ Complete(w, i)
      PROVE  Ledger!LedgerNext
  BY <1>3, ClaimInLedger, ExhaustsInLedger, CompleteInLedger
<1>4. CASE ~(\/ E4Apply \/ E4Read \/ E4Conflicts \/ E4Fails
             \/ \E w \in Worker, i \in Required :
                   Claim(w, i) \/ ClaimExhausts(w, i) \/ Complete(w, i))
  <2>1. Elsewhere /\ attempt' = attempt
    BY <1>0, <1>4, OthersStep
  <2>2. tokens' = tokens
    BY <1>4 DEF Next, CompleteThrows, ExecuteHandler, WorkerFails, ChangeEvidence, Tick, vars
  <2> QED
    BY <2>1, <2>2, LedgerRests DEF Elsewhere
<1> QED
  BY <1>1, <1>2, <1>3, <1>4

\* The coordination implements the ledger of attempts: one intent in force at most, each
\* attempt opened in order once those before it are closed, and closed once.
THEOREM LedgerKept == Spec => ImplementsLedger
<1>1. Init => Numbered
  BY DEF Init, NoIntent, Numbered
<1>2. Inv /\ Numbered /\ [Next]_vars => Numbered'
  BY NumberedStep
<1>3. Inv /\ Numbered /\ [Next]_vars => [Ledger!LedgerNext]_(Ledger!ledgerVars)
  BY LedgerStep
<1> QED
  BY <1>1, <1>2, <1>3, LedgerBegins, Invariant, PTL
  DEF Spec, ImplementsLedger, Ledger!LedgerSpec

\* An attempt is opened only once those before it are closed: never two at a time.
AttemptsInOrder ==
    \A i \in Required, n \in 1..MaxClaims :
        attempt[i][n].outcome # "NONE" =>
            \A k \in 1..MaxClaims : k < n => OutcomeGiven(i, k)

LEMMA OrderStep ==
    ASSUME Inv, Numbered, AttemptsInOrder, [Next]_vars
    PROVE  AttemptsInOrder'
<1> SUFFICES ASSUME NEW j \in Required, NEW n \in 1..MaxClaims, attempt'[j][n].outcome # "NONE",
                    NEW k \in 1..MaxClaims, k < n
             PROVE  attempt'[j][k].outcome \notin {"NONE", "IN_FLIGHT"}
  BY DEF AttemptsInOrder, OutcomeGiven
<1>0. TypeOK
  BY DEF Inv
<1>1. CASE attempt[j][n].outcome # "NONE"
  <2>1. attempt[j][k].outcome \notin {"NONE", "IN_FLIGHT"}
    BY <1>1 DEF AttemptsInOrder, OutcomeGiven
  <2>2. attempt'[j][k] = attempt[j][k]
    BY <2>1, FinalStep
  <2> QED
    BY <2>1, <2>2
<1>2. ASSUME NEW w \in Worker, NEW i \in Required, Claim(w, i), attempt[j][n].outcome = "NONE"
      PROVE  attempt'[j][k].outcome \notin {"NONE", "IN_FLIGHT"}
  <2>1. j = i
    <3> SUFFICES ASSUME j # i PROVE FALSE
      OBVIOUS
    <3>1. attempt'[j] = attempt[j]
      BY <1>0, <1>2, WorkerStep
    <3> QED
      BY <1>2, <3>1
  <2>2. n = Next1(i)
    <3> SUFFICES ASSUME n # Next1(i) PROVE FALSE
      OBVIOUS
    <3>1. ~(intent[i].status = "CLAIMED" /\ n = intent[i].claimCount)
      BY <1>2, <2>1, ClaimEffect
    <3>2. attempt'[i][n] = attempt[i][n]
      BY <1>2, <3>1, ClaimAttempts
    <3> QED
      BY <1>2, <2>1, <3>2
  <2>3. intent'[j].status = "CLAIMED" /\ intent'[j].claimCount = n
    BY <1>2, <2>1, <2>2, ClaimEffect
  <2>4. Numbered'
    BY NumberedStep
  <2> QED
    BY <2>3, <2>4 DEF Numbered, OutcomeGiven
<1>3. ASSUME NEW w \in Worker, NEW i \in Required, ClaimExhausts(w, i) \/ Complete(w, i),
             attempt[j][n].outcome = "NONE"
      PROVE  FALSE
  <2>1. j = i
    <3> SUFFICES ASSUME j # i PROVE FALSE
      OBVIOUS
    <3>1. attempt'[j] = attempt[j]
      BY <1>0, <1>3, WorkerStep
    <3> QED
      BY <1>3, <3>1
  <2>2. CASE ClaimExhausts(w, i)
    <3>1. ~(Stale(i) /\ n = intent[i].claimCount)
      BY <1>3, <2>1, <2>2 DEF ClaimExhausts, EvidenceMissing, InFlight
    <3>2. Closed(i)[n] = attempt[i][n]
      BY <1>0, <3>1, ClosedType
    <3>3. attempt'[i] = Closed(i)
      BY <1>0, <2>2 DEF ClaimExhausts, TypeOK
    <3> QED
      BY <1>3, <2>1, <3>2, <3>3
  <2>3. CASE Complete(w, i)
    <3>1. n # intent[i].claimCount
      BY <1>3, <2>1, <2>3 DEF Complete, HoldsClaim, InFlight
    <3>2. attempt'[i][n] = attempt[i][n]
      BY <1>0, <2>3, <3>1 DEF Complete, TypeOK
    <3> QED
      BY <1>3, <2>1, <3>2
  <2> QED
    BY <1>3, <2>2, <2>3
<1>4. CASE attempt' = attempt
  BY <1>1, <1>4
<1>5. CASE E4Apply \/ E4Read \/ E4Conflicts \/ E4Fails
  BY <1>4, <1>5 DEF E4Apply, E4Read, E4Conflicts, E4Fails
<1>6. CASE ~(\/ E4Apply \/ E4Read \/ E4Conflicts \/ E4Fails
             \/ \E w \in Worker, i \in Required :
                   Claim(w, i) \/ ClaimExhausts(w, i) \/ Complete(w, i))
  BY <1>0, <1>4, <1>6, OthersStep
<1> QED
  BY <1>1, <1>2, <1>3, <1>5, <1>6

\* An attempt is opened only once those before it are closed, so that an intent never has
\* two attempts in flight, superseded and recovered claims included.
THEOREM OneAttemptAtATime == Spec => []AttemptsInOrder
<1>1. Init => Numbered /\ AttemptsInOrder
  BY DEF Init, NoIntent, NoAttempt, Numbered, AttemptsInOrder
<1>2. Inv /\ Numbered /\ AttemptsInOrder /\ [Next]_vars => Numbered' /\ AttemptsInOrder'
  BY NumberedStep, OrderStep
<1> QED
  BY <1>1, <1>2, Invariant, PTL DEF Spec
=============================================================================
