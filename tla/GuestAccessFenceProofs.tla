----------------------- MODULE GuestAccessFenceProofs -----------------------
(***************************************************************************)
(* What holds of GuestAccessFence for any grants, worker processes,        *)
(* budgets, durations and faults.                                          *)
(***************************************************************************)
EXTENDS GuestAccessFence, FiniteSetTheorems, TLAPS

-----------------------------------------------------------------------------
(* The rows.                                                               *)

MarkerStates == {"none", "VERIFYING", "RECONCILED", "MANUAL_REVIEW", "ABSENCE", "CONFIRMED",
                 "REARMED"}
Marker == [state: MarkerStates, count: Nat, at: Nat, seen: SUBSET Tokens]
GrantRow == [status: Statuses, op: FenceStates, token: 0 .. MaxClaims,
             attempts: 0 .. MaxAttempts, nextAt: Nat, exhausted: BOOLEAN,
             pwd: 0 .. MaxClaims, marker: Marker]
PlanRow == [state: {"none", "READY", "SUBMITTED", "CONFIRMED"}, code: Nat, at: Nat,
            rejected: SUBSET Nat]
ReservationRow == [live: BOOLEAN, release: {"ELIGIBLE", "BLOCKED", "RELEASED"},
                   window: Windows]
Phases == {"recover", "provision", "reconcile"}
Fence == [op: FenceStates, attempts: 0 .. MaxAttempts, nextAt: Nat]
ProcState == [pc: {"idle", "claimed", "ready", "waiting", "succeeded", "scanned", "read",
                   "partial"} \cup Phases,
              now: Nat, g: Grants, token: 0 .. MaxClaims, prev: Fence, window: Windows,
              inventory: SUBSET Tokens]
UnsettledPcs == {"begun", "planned", "duplicate", "rejected"}
CallPcs == UnsettledPcs \cup {"none", "sent", "got", "ok", "retry", "failed", "ended", "cleanup"}
CallRow == [pc: CallPcs, grant: Grants, owner: Procs, at: Nat, code: Nat, pass: 0 .. MaxClaims]

Rows ==
    /\ clock \in Nat /\ claims \in 0 .. MaxClaims /\ faults \in 0 .. MaxFaults
    /\ grant \in [Grants -> GrantRow]
    /\ plan \in [Grants -> PlanRow]
    /\ reservation \in ReservationRow
    /\ proc \in [Procs -> ProcState]
    /\ moved \subseteq Procs
    /\ call \in [Tokens -> CallRow]
    /\ pending \subseteq Tokens /\ live \subseteq Tokens
    /\ rearms \in [Grants -> Nat]
    /\ absences \in [Grants -> Nat]

-----------------------------------------------------------------------------
(* The invariant.                                                          *)

\* A call that may still make its grant active; one that may still create a passcode, or has.
Alive(t) == call[t].pc \in UnsettledPcs \cup {"sent", "got"}
Hot(t) == t \in live \/ Unsettled(t)
Of(t, g) == call[t].grant = g

\* The tokens given out, and calls only for those.
Given ==
    /\ \A g \in Grants : grant[g].token <= claims /\ grant[g].pwd <= claims
    /\ \A p \in Procs : /\ proc[p].token <= claims
                        /\ proc[p].pc \in {"claimed", "ready", "waiting"} => proc[p].token # NoToken
    /\ \A t \in Tokens : call[t].pc # "none" => t <= claims
    /\ \A t \in live \cup pending : call[t].pc # "none"
    /\ \A t \in Tokens : call[t].pass <= claims
    /\ \A t \in Tokens : call[t].pc = "got" => call[t].pass # NoToken
    /\ \A p \in Procs : \A t \in proc[p].inventory : t <= claims

\* A fence names a lease exactly while one is held.
Leased == \A g \in Grants : (grant[g].token # NoToken) <=> (grant[g].op \in {"CLAIMED", "EXECUTING"})

\* What the provider has settled stays so, and what was not sent has left nothing.
Settled ==
    /\ live \cap pending = {}
    /\ \A t \in Tokens : call[t].pc \in UnsettledPcs \cup {"none", "retry"}
                           => t \notin live /\ t \notin pending

\* A process that has claimed and not begun keeps the fence it found.
Claiming(p) == proc[p].pc \in {"claimed", "ready"} /\ Holds(p, "CLAIMED")
Found0(p) ==
    Claiming(p) =>
      LET g == proc[p].g IN
      /\ proc[p].prev.op \in {"IDLE", "RETRYABLE"}
      /\ proc[p].prev.attempts = grant[g].attempts - 1
      /\ proc[p].prev.op = "IDLE" => \A t \in Tokens : Alive(t) => ~Of(t, g)
FenceKept == \A p \in Procs : Found0(p)

\* The call of a claim that has not begun does not exist yet.
Fresh == \A g \in Grants : grant[g].op = "CLAIMED" => call[grant[g].token].pc = "none"

\* A call that may still activate its grant has a fence that bars the siblings.
CallsFenced ==
    \A t \in Tokens : Alive(t) /\ grant[call[t].grant].status = "PENDING"
                        => grant[call[t].grant].op # "IDLE"

\* An active grant has a passcode; one that failed before is fenced for ever.
ActiveHasPasscode == \A g \in Grants : grant[g].status = "ACTIVE" => grant[g].pwd # NoToken
FailedFenced ==
    \A g \in Grants : grant[g].status = "FAILED" /\ grant[g].pwd = NoToken
                        => grant[g].op # "IDLE"

\* At most one grant is engaged: active, under a lease, or with a call that may activate it.
Engaged(g) ==
    \/ grant[g].status = "ACTIVE" \/ grant[g].op \in {"CLAIMED", "EXECUTING"}
    \/ grant[g].status = "PENDING" /\ \E t \in Tokens : Alive(t) /\ Of(t, g)
OneEngaged == \A g, h \in Grants : Engaged(g) /\ Engaged(h) => g = h

FenceInv == /\ Rows /\ Given /\ Leased /\ Settled /\ FenceKept /\ Fresh
            /\ CallsFenced /\ ActiveHasPasscode /\ FailedFenced /\ OneEngaged

\* Calls and attempts.
CallsOf(g) == {t \in Tokens : call[t].pc # "none" /\ call[t].grant = g}
Counted ==
    \A g \in Grants :
      /\ Cardinality(CallsOf(g)) <= MaxAttempts
      /\ grant[g].status = "PENDING" /\ grant[g].op # "CLAIMED"
           => Cardinality(CallsOf(g)) <= grant[g].attempts
      /\ grant[g].status = "PENDING" /\ grant[g].op = "CLAIMED"
           => Cardinality(CallsOf(g)) < grant[g].attempts

\* On a lock with a gateway no passcode is ever deleted.
Standing ==
    /\ \A t \in Tokens : call[t].pc # "cleanup" /\ (call[t].pc = "got" => call[t].pass \in live)
    /\ \A p \in Procs : proc[p].inventory \subseteq live
    /\ \A g \in Grants : grant[g].status = "ACTIVE" => grant[g].pwd \in live
Undeleted == Custom => Standing

\* A tick lasts TickMs at most, an execution's effect comes within EffectMs.
Timely ==
    /\ \A p \in Procs : proc[p].pc # "idle" => proc[p].now <= clock /\ clock <= proc[p].now + TickMs
    /\ \A t \in Tokens : call[t].pc # "none" => call[t].at <= clock
    /\ \A t \in Tokens : Unsettled(t) => clock <= call[t].at + EffectMs

\* Until its first re-arm a grant's marker is of its present ambiguity, which began after
\* its last call did.
Marked0(g) ==
    rearms[g] = 0 =>
      /\ RearmEnabled => grant[g].marker.count <= 1
      /\ grant[g].status = "PENDING" /\ grant[g].marker.state # "none" =>
           /\ grant[g].op = "AMBIGUOUS"
           /\ \A t \in Tokens : call[t].pc # "none" /\ Of(t, g)
                                  => call[t].at <= grant[g].marker.at + TickMs
MarkersCover == \A g \in Grants : Marked0(g)
RearmCounted == ~RearmEnabled => \A g \in Grants : rearms[g] = 0

\* A reading that finds nothing, AbsenceMinMs after the marker, finds what is final.
Outlasts == AbsenceMinMs > EffectMs + TickMs
Conclusive(p) ==
    LET g == proc[p].g IN
    /\ proc[p].pc = "read" /\ p \notin moved /\ proc[p].inventory = {}
    /\ grant[g].status = "PENDING" /\ grant[g].op = "AMBIGUOUS"
    /\ rearms[g] = 0 /\ Outlasts
    /\ grant[g].marker.state # "none" /\ proc[p].now - grant[g].marker.at >= AbsenceMinMs
AbsenceFinal ==
    \A p \in Procs : Conclusive(p) => \A t \in Tokens : Of(t, proc[p].g) => ~Hot(t)

\* While no grant was re-armed but once, after readings that outlast its calls, and none
\* that was active was marked failed, one call at most may have made or may make a passcode.
Sheltered ==
    /\ \A g \in Grants : ~Overwritten(g)
    /\ \A g \in Grants : rearms[g] = 0 \/ (rearms[g] <= 1 /\ Outlasts)
HotFenced ==
    /\ \A t, u \in Tokens : Hot(t) /\ Hot(u) => t = u
    /\ \A g \in Grants, t \in Tokens : grant[g].op = "CLAIMED" => ~Hot(t)
    /\ \A g \in Grants, t \in Tokens :
         grant[g].op = "EXECUTING" /\ Hot(t) => t = grant[g].token
    /\ \A g \in Grants, t \in Tokens :
         grant[g].status = "PENDING" /\ grant[g].op \in {"IDLE", "RETRYABLE"} /\ Hot(t)
           => ~Of(t, g)
OneHot == Sheltered => HotFenced

Inv == /\ FenceInv /\ Counted /\ Undeleted /\ Timely /\ MarkersCover /\ RearmCounted
       /\ AbsenceFinal /\ OneHot

-----------------------------------------------------------------------------
(* Values.                                                                 *)

LEMMA Positive == NoToken = 0 /\ \A t \in Tokens : t \in Nat /\ t # NoToken /\ t \in 0 .. MaxClaims
  BY FenceAssumption DEF NoToken, Tokens, FenceAssumption

LEMMA Zero == NoToken = 0 /\ 0 \in 0 .. MaxClaims /\ 0 \in 0 .. MaxAttempts /\ 0 \in Nat
  BY FenceAssumption DEF FenceAssumption, NoToken

LEMMA FaultCounted ==
    ASSUME faults \in 0 .. MaxFaults, faults < MaxFaults, faults' = faults + 1
    PROVE  faults' \in 0 .. MaxFaults
  BY FenceAssumption DEF FenceAssumption

LEMMA SomeGrant == (CHOOSE g \in Grants : TRUE) \in Grants
  BY FenceAssumption DEF FenceAssumption

LEMMA SomeProc == (CHOOSE p \in Procs : TRUE) \in Procs
  BY FenceAssumption DEF FenceAssumption

LEMMA SomeWindow == (CHOOSE w \in Windows : TRUE) \in Windows
  BY FenceAssumption DEF FenceAssumption, Windows

LEMMA RestingType ==
    ASSUME NEW at \in Nat
    PROVE  /\ Resting(at) \in ProcState
           /\ Resting(at).pc = "idle" /\ Resting(at).now = at
           /\ Resting(at).token = NoToken /\ Resting(at).inventory = {}
  <1>1. [op |-> "IDLE", attempts |-> 0, nextAt |-> 0] \in Fence
    BY FenceAssumption DEF FenceAssumption, Fence, FenceStates
  <1>2. NoToken \in 0 .. MaxClaims
    BY FenceAssumption DEF FenceAssumption, NoToken
  <1> QED
    BY <1>1, <1>2, SomeGrant, SomeWindow DEF Resting, ProcState

LEMMA NoCallType == NoCall \in CallRow /\ NoCall.pc = "none" /\ NoCall.pass = NoToken
  BY SomeGrant, SomeProc, FenceAssumption
  DEF NoCall, CallRow, CallPcs, UnsettledPcs, FenceAssumption, NoToken

LEMMA NoMarkerType == NoMarker \in Marker /\ NoMarker.state = "none" /\ NoMarker.count = 0
  BY DEF NoMarker, Marker, MarkerStates

LEMMA LeastOfTwo == ASSUME NEW a \in Nat, NEW b \in Nat PROVE Min({a, b}) \in {a, b}
  <1>1. CASE a <= b
    <2> QED
      BY <1>1 DEF Min
  <1>2. CASE b <= a
    <2> QED
      BY <1>2 DEF Min
  <1> QED
    BY <1>1, <1>2

LEMMA GreatestOfTwo ==
    ASSUME NEW a \in Nat, NEW b \in Nat
    PROVE  Max({a, b}) \in {a, b} /\ Max({a, b}) >= a /\ Max({a, b}) >= b
  <1>1. \E x \in {a, b} : \A y \in {a, b} : x >= y
    BY a >= b \/ b >= a
  <1> QED
    BY <1>1 DEF Max

LEMMA LeastOfSome == ASSUME NEW S \in SUBSET Nat, S # {} PROVE Min(S) \in S
  <1> DEFINE Less == OpToRel(<, Nat)
  <1>1. IsWellFoundedOn(Less, Nat)
    BY NatLessThanWellFounded
  <1>2. \A x, y \in Nat : ~(<<y, x>> \in Less) => x <= y
    BY DEF OpToRel
  <1> HIDE DEF Less
  <1>3. \E x \in S : \A y \in S : ~(<<y, x>> \in Less)
    BY <1>1, WFMin
  <1>4. \E x \in S : \A y \in S : x <= y
    BY <1>2, <1>3
  <1> QED
    BY <1>4, Zenon DEF Min

-----------------------------------------------------------------------------
(* What the fence writes.                                                  *)

LEMMA ClearedRow ==
    ASSUME NEW r \in GrantRow
    PROVE  /\ Cleared(r) \in GrantRow
           /\ Cleared(r).op = "IDLE" /\ Cleared(r).token = NoToken
           /\ Cleared(r).status = r.status /\ Cleared(r).pwd = r.pwd
           /\ Cleared(r).marker = r.marker /\ Cleared(r).attempts = 0
  BY Zero DEF Cleared, GrantRow, FenceStates

LEMMA QuarantinedRow ==
    ASSUME NEW r \in GrantRow
    PROVE  /\ Quarantined(r) \in GrantRow
           /\ Quarantined(r).op = "AMBIGUOUS" /\ Quarantined(r).token = NoToken
           /\ Quarantined(r).status = r.status /\ Quarantined(r).pwd = r.pwd
           /\ Quarantined(r).marker = r.marker /\ Quarantined(r).attempts = r.attempts
  BY Zero DEF Quarantined, GrantRow, FenceStates

LEMMA ExhaustedRow ==
    ASSUME NEW r \in GrantRow
    PROVE  /\ Exhausted(r) \in GrantRow
           /\ Exhausted(r).op = "EXHAUSTED" /\ Exhausted(r).token = NoToken
           /\ Exhausted(r).status = r.status /\ Exhausted(r).pwd = r.pwd
           /\ Exhausted(r).marker = r.marker /\ Exhausted(r).attempts = r.attempts
  BY Zero DEF Exhausted, GrantRow, FenceStates

LEMMA BackedOffRow ==
    ASSUME NEW r \in GrantRow, NEW now \in Nat
    PROVE  /\ BackedOff(r, now) \in GrantRow
           /\ BackedOff(r, now).op \in {"RETRYABLE", "EXHAUSTED"}
           /\ ~BudgetLeft(r) => BackedOff(r, now).op = "EXHAUSTED"
           /\ BackedOff(r, now).token = NoToken
           /\ BackedOff(r, now).status = r.status /\ BackedOff(r, now).pwd = r.pwd
           /\ BackedOff(r, now).marker = r.marker /\ BackedOff(r, now).attempts = r.attempts
  <1>1. CASE BudgetLeft(r)
    <2>1. now + RetryMs \in Nat
      BY FenceAssumption DEF FenceAssumption
    <2> QED
      BY <1>1, <2>1, Zero DEF BackedOff, GrantRow, FenceStates
  <1>2. CASE ~BudgetLeft(r)
    BY <1>2, ExhaustedRow DEF BackedOff
  <1> QED
    BY <1>1, <1>2

\* A write changes one row and overtakes whoever has read it.
LEMMA WriteChanges ==
    ASSUME Rows, NEW g \in Grants, NEW r \in GrantRow, NEW writers, WriteBy(writers, g, r)
    PROVE  /\ grant' \in [Grants -> GrantRow] /\ absences' \in [Grants -> Nat]
           /\ moved' \subseteq Procs
           /\ grant'[g] = r /\ \A h \in Grants \ {g} : grant'[h] = grant[h]
           /\ \A p \in Procs \ writers :
                p \notin moved' => p \notin moved /\ (proc[p].pc = "read" => proc[p].g # g)
  <1>1. grant' \in [Grants -> GrantRow] /\ grant'[g] = r
        /\ \A h \in Grants \ {g} : grant'[h] = grant[h]
    BY DEF Rows, WriteBy
  <1>2. absences' \in [Grants -> Nat]
    BY DEF Rows, WriteBy
  <1>3. moved' = (moved \cup Overtaken(g)) \ writers /\ Overtaken(g) \subseteq Procs
    BY DEF WriteBy, Overtaken
  <1> QED
    BY <1>1, <1>2, <1>3 DEF Rows, Overtaken

LEMMA NothingWritten ==
    ASSUME Rows, NoWrite
    PROVE  /\ grant' \in [Grants -> GrantRow] /\ absences' \in [Grants -> Nat]
           /\ moved' \subseteq Procs /\ grant' = grant /\ moved' = moved
  BY DEF Rows, NoWrite

-----------------------------------------------------------------------------
(* The kinds of steps.                                                     *)

OthersKept(g) == \A h \in Grants \ {g} : grant'[h] = grant[h]
\* What becomes of the processes when none claims, begins a tick or reads the inventory.
ProcKept(q) ==
    /\ proc'[q].token \in {proc[q].token, NoToken}
    /\ proc'[q].inventory \subseteq proc[q].inventory
    /\ proc'[q].pc \in {"claimed", "ready"} =>
         /\ proc[q].pc \in {"claimed", "ready"} /\ proc'[q].g = proc[q].g
         /\ proc'[q].token = proc[q].token /\ proc'[q].prev = proc[q].prev
    /\ proc'[q].pc = "waiting" => proc[q].pc = "waiting" /\ proc'[q].token = proc[q].token
    /\ proc'[q].pc # "idle" => proc[q].pc # "idle" /\ proc'[q].now = proc[q].now
    /\ proc'[q].pc = "read" => proc'[q] = proc[q]
Unread(q) ==
    proc'[q].pc = "read" /\ q \notin moved' =>
      q \notin moved /\ grant'[proc'[q].g] = grant[proc'[q].g]
ProcsKept == \A q \in Procs : ProcKept(q) /\ Unread(q)

\* Calls that end, settling nothing.
CallsEnd ==
    /\ pending' = pending /\ live' = live
    /\ \A t \in Tokens :
         \/ call'[t] = call[t]
         \/ /\ call[t].pc # "none" /\ call'[t].pc = "ended" /\ call'[t].pass = NoToken
            /\ call'[t].grant = call[t].grant /\ call'[t].at = call[t].at

\* A fence is barred, opened for another try, given back, or cleared.
Barred(g) ==
    /\ grant'[g].status = grant[g].status /\ grant'[g].attempts = grant[g].attempts
    /\ grant'[g].pwd = grant[g].pwd /\ grant'[g].marker = grant[g].marker
    /\ grant'[g].token = NoToken
    /\ \/ grant'[g].op = "AMBIGUOUS"
       \/ grant'[g].op = "EXHAUSTED" /\ grant[g].op # "AMBIGUOUS"
Retried(g) ==
    /\ grant[g].status = "PENDING" /\ grant'[g].op = "RETRYABLE" /\ grant'[g].token = NoToken
    /\ grant'[g].status = grant[g].status /\ grant'[g].attempts = grant[g].attempts
    /\ grant'[g].pwd = grant[g].pwd /\ grant'[g].marker = grant[g].marker
    /\ \/ grant[g].op = "CLAIMED"
       \/ grant[g].op = "EXECUTING" /\ call[grant[g].token].pc = "retry"
Restored(g, p) ==
    /\ Claiming(p) /\ proc[p].g = g /\ grant[g].status = "PENDING"
    /\ grant'[g].op = proc[p].prev.op /\ grant'[g].attempts = proc[p].prev.attempts
    /\ grant'[g].token = NoToken /\ grant'[g].status = grant[g].status
    /\ grant'[g].pwd = grant[g].pwd /\ grant'[g].marker = grant[g].marker
ClearedNow(g) ==
    /\ grant[g].status = "ACTIVE" /\ grant'[g].op = "IDLE" /\ grant'[g].token = NoToken
    /\ grant'[g].status = grant[g].status
    /\ grant'[g].pwd = grant[g].pwd /\ grant'[g].marker = grant[g].marker
\* E15 marks what it has seen: a process whose row is unmoved has read no passcode, or
\* the count begins anew.
ReadAbsent(p) ==
    /\ proc[p].pc = "read" /\ p \notin moved /\ proc[p].inventory = {}
    /\ grant[proc[p].g].status = "PENDING" /\ grant[proc[p].g].op = "AMBIGUOUS"
MarkedNow(g) ==
    /\ grant[g].op = "AMBIGUOUS" /\ grant'[g].op = "AMBIGUOUS"
    /\ grant'[g].token = grant[g].token /\ grant'[g].status = grant[g].status
    /\ grant'[g].attempts = grant[g].attempts /\ grant'[g].pwd = grant[g].pwd
    /\ \E p \in Procs :
         /\ proc[p].pc # "idle" /\ grant'[g].marker.at = proc[p].now
         /\ grant'[g].marker.count = 0 \/ (ReadAbsent(p) /\ proc[p].g = g)
    /\ RearmEnabled => grant'[g].marker.count <= 1

\* A process settles a fence, or does something else that leaves calls and rows alone.
RowStep ==
    /\ Rows' /\ ProcsKept /\ CallsEnd
    /\ clock' = clock /\ claims' = claims /\ rearms' = rearms
    /\ \/ grant' = grant
       \/ \E g \in Grants :
            /\ OthersKept(g)
            /\ \/ Barred(g) \/ Retried(g) \/ ClearedNow(g) \/ MarkedNow(g)
               \/ \E p \in Procs : Restored(g, p)

LEMMA BackKeeps ==
    ASSUME Rows, NEW p \in Procs, NEW pc \in Phases, Back(p, pc)
    PROVE  /\ proc' \in [Procs -> ProcState]
           /\ \A q \in Procs \ {p} : proc'[q] = proc[q]
           /\ proc'[p].pc = pc /\ proc'[p].now = proc[p].now
           /\ proc'[p].token = NoToken /\ proc'[p].inventory = {}
  <1>1. proc[p] \in ProcState /\ proc[p].now \in Nat
    BY DEF Rows, ProcState
  <1>2. Resting(proc[p].now) \in ProcState
    BY <1>1, RestingType
  <1>3. [Resting(proc[p].now) EXCEPT !.pc = pc] \in ProcState
        /\ [Resting(proc[p].now) EXCEPT !.pc = pc].pc = pc
        /\ [Resting(proc[p].now) EXCEPT !.pc = pc].now = Resting(proc[p].now).now
        /\ [Resting(proc[p].now) EXCEPT !.pc = pc].token = Resting(proc[p].now).token
        /\ [Resting(proc[p].now) EXCEPT !.pc = pc].inventory = Resting(proc[p].now).inventory
    BY <1>2 DEF ProcState, Phases
  <1> QED
    BY <1>1, <1>3, RestingType DEF Back, Rows

LEMMA GotoKeeps ==
    ASSUME Rows, NEW p \in Procs, NEW pc \in {"ready", "waiting", "succeeded", "scanned"},
           Goto(p, pc)
    PROVE  /\ proc' \in [Procs -> ProcState]
           /\ \A q \in Procs \ {p} : proc'[q] = proc[q]
           /\ proc'[p].pc = pc /\ proc'[p].now = proc[p].now /\ proc'[p].g = proc[p].g
           /\ proc'[p].token = proc[p].token /\ proc'[p].prev = proc[p].prev
           /\ proc'[p].inventory = proc[p].inventory
  BY DEF Goto, Rows, ProcState

\* A process that goes back to a phase of its tick has given up what it held.
LEMMA BackKept ==
    ASSUME Rows, NEW p \in Procs, NEW pc \in Phases, Back(p, pc), proc[p].pc # "idle"
    PROVE  \A q \in Procs : ProcKept(q)
  BY BackKeeps DEF ProcKept, Phases

LEMMA SameKept == proc' = proc => \A q \in Procs : ProcKept(q)
  BY DEF ProcKept

LEMMA WriteUnread ==
    ASSUME Rows, NEW g \in Grants, NEW r \in GrantRow, NEW writers, WriteBy(writers, g, r),
           \A q \in Procs : proc'[q].pc = "read" => q \notin writers /\ proc'[q] = proc[q]
    PROVE  \A q \in Procs : Unread(q)
  <1> SUFFICES ASSUME NEW q \in Procs, proc'[q].pc = "read", q \notin moved'
               PROVE  q \notin moved /\ grant'[proc'[q].g] = grant[proc'[q].g]
    BY DEF Unread
  <1>1. proc[q].g \in Grants
    BY DEF Rows, ProcState
  <1> QED
    BY <1>1, WriteChanges

LEMMA NoWriteUnread == NoWrite => \A q \in Procs : Unread(q)
  BY DEF NoWrite, Unread

LEMMA NoCallChange ==
    ASSUME Rows, UNCHANGED <<call, pending, live>>
    PROVE  CallsEnd
  BY DEF CallsEnd

-----------------------------------------------------------------------------
(* Recovery.                                                               *)

LEMMA RecoverActiveKind ==
    ASSUME Inv, NEW p \in Procs, NEW g \in Grants, RecoverActive(p, g)
    PROVE  RowStep
  <1> USE DEF Inv, FenceInv
  <1>1. grant[g] \in GrantRow
    BY DEF Rows
  <1>2. PICK r \in GrantRow :
             /\ Write(g, r)
             /\ r = Quarantined(grant[g]) \/ (r = Cleared(grant[g]) /\ grant[g].status = "ACTIVE")
    BY <1>1, QuarantinedRow, ClearedRow DEF RecoverActive
  <1>3. Rows'
    BY <1>2, WriteChanges DEF RecoverActive, Rows, Write
  <1>4. ProcsKept
    BY <1>2, SameKept, WriteUnread DEF RecoverActive, ProcsKept, Write
  <1>5. Barred(g) \/ ClearedNow(g)
    BY <1>1, <1>2, WriteChanges, QuarantinedRow, ClearedRow DEF Write, Barred, ClearedNow
  <1> QED
    BY <1>2, <1>3, <1>4, <1>5, NoCallChange, WriteChanges
    DEF RowStep, OthersKept, RecoverActive, Write

LEMMA RecoverPendingKind ==
    ASSUME Inv, NEW p \in Procs, NEW g \in Grants, RecoverPending(p, g)
    PROVE  RowStep
  <1> USE DEF Inv, FenceInv
  <1>1. grant[g] \in GrantRow /\ proc[p].now \in Nat
    BY DEF Rows, ProcState
  <1>2. PICK r \in GrantRow :
             /\ Write(g, r)
             /\ \/ r = Quarantined(grant[g])
                \/ r = BackedOff(grant[g], proc[p].now) /\ grant[g].op = "CLAIMED"
    BY <1>1, QuarantinedRow, BackedOffRow DEF RecoverPending
  <1>3. Rows'
    BY <1>2, WriteChanges DEF RecoverPending, Rows, Write
  <1>4. ProcsKept
    BY <1>2, SameKept, WriteUnread DEF RecoverPending, ProcsKept, Write
  <1>5. Barred(g) \/ Retried(g)
    <2>1. grant'[g] = r
      BY <1>2, WriteChanges DEF Write
    <2>2. grant[g].status = "PENDING"
      BY DEF RecoverPending
    <2>3. CASE r = Quarantined(grant[g])
      BY <1>1, <2>1, <2>3, QuarantinedRow DEF Barred
    <2>4. CASE r = BackedOff(grant[g], proc[p].now) /\ grant[g].op = "CLAIMED"
      <3>1. /\ r.op \in {"RETRYABLE", "EXHAUSTED"} /\ r.token = NoToken
            /\ r.status = grant[g].status /\ r.pwd = grant[g].pwd
            /\ r.marker = grant[g].marker /\ r.attempts = grant[g].attempts
        BY <1>1, <2>4, BackedOffRow
      <3> QED
        BY <2>1, <2>2, <2>4, <3>1 DEF Barred, Retried
    <2> QED
      BY <1>2, <2>3, <2>4
  <1> QED
    BY <1>2, <1>3, <1>4, <1>5, NoCallChange, WriteChanges
    DEF RowStep, OthersKept, RecoverPending, Write

LEMMA RepairReleaseKind ==
    ASSUME Inv, NEW p \in Procs, NEW g \in Grants, RepairRelease(p, g)
    PROVE  RowStep
  <1> USE DEF Inv, FenceInv
  <1>1. reservation' \in ReservationRow
    BY DEF RepairRelease, Rows, ReservationRow
  <1>2. Rows'
    BY <1>1, NothingWritten DEF RepairRelease, Rows
  <1>3. ProcsKept
    BY SameKept, NoWriteUnread DEF RepairRelease, ProcsKept
  <1> QED
    BY <1>2, <1>3, NoCallChange, NothingWritten DEF RowStep, RepairRelease

-----------------------------------------------------------------------------
(* The fence.                                                              *)

LEMMA ClaimRefusedKind ==
    ASSUME Inv, NEW p \in Procs, NEW g \in Grants, ClaimRefused(p, g)
    PROVE  RowStep
  <1> USE DEF Inv, FenceInv
  <1>1. grant[g] \in GrantRow
    BY DEF Rows
  <1>2. PICK r \in GrantRow :
             /\ Write(g, r)
             /\ \/ r = Quarantined(grant[g])
                \/ r = Exhausted(grant[g]) /\ grant[g].op # "AMBIGUOUS"
    BY <1>1, QuarantinedRow, ExhaustedRow DEF ClaimRefused, Due
  <1>3. Rows'
    BY <1>2, WriteChanges DEF ClaimRefused, Rows, Write
  <1>4. ProcsKept
    BY <1>2, SameKept, WriteUnread DEF ClaimRefused, ProcsKept, Write
  <1>5. Barred(g)
    BY <1>1, <1>2, WriteChanges, QuarantinedRow, ExhaustedRow DEF Write, Barred
  <1> QED
    BY <1>2, <1>3, <1>4, <1>5, NoCallChange, WriteChanges
    DEF RowStep, OthersKept, ClaimRefused, Write

\* What a process writes when it gives its claim back.
LEMMA RestoredRow ==
    ASSUME Rows, NEW p \in Procs, RestoreFence(p), proc[p].pc \in {"claimed", "ready"}
    PROVE  \/ NoWrite
           \/ \E r \in GrantRow :
                /\ Write(proc[p].g, r) /\ Claiming(p) /\ grant[proc[p].g].status = "PENDING"
                /\ r.op = proc[p].prev.op /\ r.attempts = proc[p].prev.attempts
                /\ r.token = NoToken
                /\ r.status = grant[proc[p].g].status /\ r.pwd = grant[proc[p].g].pwd
                /\ r.marker = grant[proc[p].g].marker
  <1> DEFINE g == proc[p].g
             r == [grant[g] EXCEPT !.op = proc[p].prev.op, !.token = NoToken,
                     !.attempts = proc[p].prev.attempts, !.nextAt = proc[p].prev.nextAt]
  <1>1. g \in Grants /\ proc[p].prev \in Fence
    BY DEF Rows, ProcState
  <1>2. grant[g] \in GrantRow
    BY <1>1 DEF Rows
  <1>3. r \in GrantRow /\ r.op = proc[p].prev.op /\ r.attempts = proc[p].prev.attempts
        /\ r.token = NoToken /\ r.status = grant[g].status /\ r.pwd = grant[g].pwd
        /\ r.marker = grant[g].marker
    BY <1>1, <1>2, Zero DEF GrantRow, Fence
  <1>4. CASE Holds(p, "CLAIMED") /\ grant[g].status = "PENDING"
    <2>1. Write(g, r)
      BY <1>4 DEF RestoreFence
    <2> QED
      BY <1>3, <1>4, <2>1 DEF Claiming
  <1>5. CASE ~(Holds(p, "CLAIMED") /\ grant[g].status = "PENDING")
    BY <1>5 DEF RestoreFence
  <1> QED
    BY <1>4, <1>5

\* A process goes back to its tick, giving its claim back if it still has it.
LEMMA GivesBack ==
    ASSUME Rows, NEW p \in Procs, RestoreFence(p), Back(p, "provision"),
           proc[p].pc \in {"claimed", "ready"}
    PROVE  /\ ProcsKept
           /\ proc' \in [Procs -> ProcState] /\ grant' \in [Grants -> GrantRow]
           /\ absences' \in [Grants -> Nat] /\ moved' \subseteq Procs
           /\ grant' = grant \/ (proc[p].g \in Grants /\ OthersKept(proc[p].g)
                                   /\ Restored(proc[p].g, p))
  <1>1. \A q \in Procs : ProcKept(q)
    BY BackKept DEF Phases
  <1>2. \A q \in Procs : proc'[q].pc = "read" => proc'[q] = proc[q]
    BY <1>1 DEF ProcKept
  <1>3. proc' \in [Procs -> ProcState] /\ proc[p].g \in Grants
    BY BackKeeps DEF Phases, Rows, ProcState
  <1>4. CASE NoWrite
    BY <1>1, <1>3, <1>4, NothingWritten, NoWriteUnread DEF ProcsKept
  <1>5. ASSUME NEW r \in GrantRow, Write(proc[p].g, r), Claiming(p),
               grant[proc[p].g].status = "PENDING",
               r.op = proc[p].prev.op, r.attempts = proc[p].prev.attempts, r.token = NoToken,
               r.status = grant[proc[p].g].status, r.pwd = grant[proc[p].g].pwd,
               r.marker = grant[proc[p].g].marker
        PROVE  /\ ProcsKept
               /\ grant' \in [Grants -> GrantRow]
               /\ absences' \in [Grants -> Nat] /\ moved' \subseteq Procs
               /\ OthersKept(proc[p].g) /\ Restored(proc[p].g, p)
    <2>1. \A q \in Procs : Unread(q)
      BY <1>2, <1>3, <1>5, WriteUnread DEF Write
    <2> QED
      BY <1>1, <1>3, <1>5, <2>1, WriteChanges DEF Write, ProcsKept, OthersKept, Restored
  <1> QED
    BY <1>3, <1>4, <1>5, RestoredRow

LEMMA CheckReadinessKind ==
    ASSUME Inv, NEW p \in Procs, CheckReadiness(p)
    PROVE  RowStep
  <1> USE DEF Inv, FenceInv
  <1>1. reservation' \in ReservationRow /\ faults' \in 0 .. MaxFaults
    BY FenceAssumption DEF CheckReadiness, Rows, ReservationRow, Evaluated, FenceAssumption
  <1>2. CASE Goto(p, "ready") /\ NoWrite
    <2>1. Rows'
      BY <1>1, <1>2, GotoKeeps, NothingWritten DEF CheckReadiness, Rows
    <2>2. ProcsKept
      BY <1>2, GotoKeeps, NoWriteUnread DEF ProcsKept, ProcKept, CheckReadiness
    <2> QED
      BY <1>2, <2>1, <2>2, NoCallChange, NothingWritten DEF RowStep, CheckReadiness
  <1>3. CASE Back(p, "provision") /\ RestoreFence(p)
    <2>1. proc[p].pc = "claimed"
      BY DEF CheckReadiness
    <2>2. Rows'
      BY <1>1, <1>3, <2>1, GivesBack DEF CheckReadiness, Rows
    <2> QED
      BY <1>3, <2>1, <2>2, GivesBack, NoCallChange DEF RowStep, CheckReadiness, Rows
  <1> QED
    BY <1>2, <1>3 DEF CheckReadiness

LEMMA PreBoundaryFailureKind ==
    ASSUME Inv, NEW p \in Procs, PreBoundaryFailure(p)
    PROVE  RowStep
  <1> USE DEF Inv, FenceInv
  <1> DEFINE g == proc[p].g
  <1>1. g \in Grants /\ grant[g] \in GrantRow /\ clock \in Nat
    BY DEF Rows, ProcState
  <1>2. proc[p].pc \in {"claimed", "ready"} /\ Back(p, "provision") /\ faults' \in 0 .. MaxFaults
    BY FenceAssumption DEF PreBoundaryFailure, Rows, FenceAssumption
  <1>3. \A q \in Procs : ProcKept(q)
    BY <1>2, BackKept DEF Phases
  <1>4. proc' \in [Procs -> ProcState]
    BY <1>2, BackKeeps DEF Phases
  <1>5. \A q \in Procs : proc'[q].pc = "read" => proc'[q] = proc[q]
    BY <1>3 DEF ProcKept
  <1>6. CASE NoWrite
    <2>1. Rows'
      BY <1>2, <1>4, <1>6, NothingWritten DEF PreBoundaryFailure, Rows
    <2> QED
      BY <1>3, <1>6, <2>1, NoCallChange, NothingWritten, NoWriteUnread
      DEF RowStep, PreBoundaryFailure, ProcsKept
  <1>7. CASE /\ Holds(p, "CLAIMED") /\ grant[g].status = "PENDING"
             /\ Write(g, BackedOff(grant[g], clock))
    <2>1. BackedOff(grant[g], clock) \in GrantRow
      BY <1>1, BackedOffRow
    <2>2. Rows'
      BY <1>1, <1>2, <1>4, <1>7, <2>1, WriteChanges DEF PreBoundaryFailure, Rows, Write
    <2>3. ProcsKept
      BY <1>1, <1>3, <1>5, <1>7, <2>1, WriteUnread DEF Write, ProcsKept
    <2>4. OthersKept(g) /\ (Barred(g) \/ Retried(g))
      BY <1>1, <1>7, <2>1, WriteChanges, BackedOffRow
      DEF Write, OthersKept, Barred, Retried, Holds
    <2> QED
      BY <1>1, <2>2, <2>3, <2>4, NoCallChange DEF RowStep, PreBoundaryFailure
  <1> QED
    BY <1>6, <1>7 DEF PreBoundaryFailure

\* The boundary is not crossed.
LEMMA BeginRefusedKind ==
    ASSUME Inv, NEW p \in Procs, Begin(p), ~MayBegin(p)
    PROVE  RowStep
  <1> USE DEF Inv, FenceInv
  <1>1. proc[p].pc = "ready" /\ RestoreFence(p) /\ Back(p, "provision") /\ UNCHANGED call
    BY DEF Begin
  <1>2. Rows'
    BY <1>1, GivesBack DEF Begin, Rows
  <1> QED
    BY <1>1, <1>2, GivesBack, NoCallChange DEF RowStep, Begin, Rows

\* A fence that holds an execution is quarantined, or nothing is written.
LEMMA FailsAmbiguous ==
    ASSUME Rows, NEW p \in Procs, FailAmbiguous(p)
    PROVE  \/ NoWrite
           \/ /\ Write(proc[p].g, Quarantined(grant[proc[p].g]))
              /\ Quarantined(grant[proc[p].g]) \in GrantRow
  <1>1. grant[proc[p].g] \in GrantRow
    BY DEF Rows, ProcState
  <1> QED
    BY <1>1, QuarantinedRow DEF FailAmbiguous

LEMMA FailsRetryable ==
    ASSUME Rows, NEW p \in Procs, FailRetryable(p), call[proc[p].token].pc = "retry"
    PROVE  \/ NoWrite
           \/ \E r \in GrantRow :
                Write(proc[p].g, r) /\ (Write(proc[p].g, r) => Barred(proc[p].g) \/ Retried(proc[p].g))
  <1> DEFINE g == proc[p].g
  <1>1. g \in Grants /\ grant[g] \in GrantRow /\ clock \in Nat
    BY DEF Rows, ProcState
  <1>2. CASE ~Holds(p, "EXECUTING")
    BY <1>2 DEF FailRetryable
  <1>3. CASE Holds(p, "EXECUTING") /\ (grant[g].status = "PENDING" \/ ~BudgetLeft(grant[g]))
    <2>1. Write(g, BackedOff(grant[g], clock)) /\ BackedOff(grant[g], clock) \in GrantRow
      BY <1>1, <1>3, BackedOffRow DEF FailRetryable
    <2>2. grant'[g] = BackedOff(grant[g], clock)
      BY <1>1, <2>1, WriteChanges DEF Write
    <2>3. Barred(g) \/ Retried(g)
      BY <1>1, <1>3, <2>2, BackedOffRow DEF Barred, Retried, Holds
    <2> QED
      BY <2>1, <2>3
  <1>4. CASE /\ Holds(p, "EXECUTING")
             /\ ~(grant[g].status = "PENDING" \/ ~BudgetLeft(grant[g]))
    <2>1. Write(g, Quarantined(grant[g])) /\ Quarantined(grant[g]) \in GrantRow
      BY <1>1, <1>4, QuarantinedRow DEF FailRetryable
    <2>2. grant'[g] = Quarantined(grant[g])
      BY <1>1, <2>1, WriteChanges DEF Write
    <2>3. Barred(g)
      BY <1>1, <2>2, QuarantinedRow DEF Barred
    <2> QED
      BY <2>1, <2>3
  <1> QED
    BY <1>2, <1>3, <1>4

\* The end of a fence's wait: what is written, where the process goes.
LEMMA FinishParts ==
    ASSUME Inv, NEW p \in Procs, Finish(p)
    PROVE  /\ \/ Goto(p, "succeeded")
              \/ Back(p, "provision")
           /\ \/ NoWrite
              \/ \E r \in GrantRow :
                   /\ Write(proc[p].g, r)
                   /\ Barred(proc[p].g) \/ Retried(proc[p].g) \/ ClearedNow(proc[p].g)
  <1> USE DEF Inv, FenceInv
  <1> DEFINE g == proc[p].g
             result == call[proc[p].token].pc
  <1>1. g \in Grants /\ grant[g] \in GrantRow
    BY DEF Rows, ProcState
  <1>2. CASE result = "ok" /\ Evidence(g)
    <2>1. Goto(p, "succeeded")
      BY <1>2 DEF Finish
    <2>2. ASSUME Write(g, Cleared(grant[g])) PROVE Cleared(grant[g]) \in GrantRow /\ ClearedNow(g)
      <3>1. Cleared(grant[g]) \in GrantRow
        BY <1>1, ClearedRow
      <3>2. grant'[g] = Cleared(grant[g])
        BY <1>1, <2>2, <3>1, WriteChanges DEF Write
      <3> QED
        BY <1>1, <1>2, <3>1, <3>2, ClearedRow DEF ClearedNow, Evidence
    <2> QED
      BY <1>2, <2>1, <2>2 DEF Finish
  <1>3. CASE FailAmbiguous(p) /\ Back(p, "provision")
    <2>1. ASSUME Write(g, Quarantined(grant[g])), Quarantined(grant[g]) \in GrantRow
          PROVE  Barred(g)
      <3>1. grant'[g] = Quarantined(grant[g])
        BY <1>1, <2>1, WriteChanges DEF Write
      <3> QED
        BY <1>1, <3>1, QuarantinedRow DEF Barred
    <2> QED
      BY <1>3, <2>1, FailsAmbiguous
  <1>4. CASE result = "retry" /\ FailRetryable(p) /\ Back(p, "provision")
    BY <1>4, FailsRetryable
  <1> QED
    BY <1>2, <1>3, <1>4 DEF Finish

LEMMA EndedCalls ==
    ASSUME Rows, NEW t \in Tokens, call[t].pc # "none", Ended(t, "ended"),
           UNCHANGED <<pending, live>>
    PROVE  call' \in [Tokens -> CallRow] /\ CallsEnd
  <1>1. call[t] \in CallRow /\ call \in [Tokens -> CallRow]
    BY DEF Rows
  <1>2. /\ call'[t] = [call[t] EXCEPT !.pc = "ended", !.pass = NoToken]
        /\ \A u \in Tokens \ {t} : call'[u] = call[u]
        /\ call' = [u \in Tokens |-> call'[u]]
    BY <1>1 DEF Ended
  <1>3. "ended" \in CallPcs /\ NoToken \in 0 .. MaxClaims
    BY Zero DEF CallPcs
  <1>4. /\ call'[t] \in CallRow /\ call'[t].pc = "ended" /\ call'[t].pass = NoToken
        /\ call'[t].grant = call[t].grant /\ call'[t].at = call[t].at
    BY <1>1, <1>2, <1>3 DEF CallRow
  <1>5. call' \in [Tokens -> CallRow]
    <2>1. \A u \in Tokens : call'[u] \in CallRow
      BY <1>1, <1>2, <1>4
    <2> QED
      BY <1>2, <2>1
  <1> QED
    BY <1>2, <1>4, <1>5 DEF CallsEnd

LEMMA FinishKind ==
    ASSUME Inv, NEW p \in Procs, Finish(p)
    PROVE  RowStep
  <1> USE DEF Inv, FenceInv
  <1>1. proc[p].pc = "waiting" /\ proc[p].g \in Grants
    BY DEF Finish, Rows, ProcState
  <1>2. proc[p].token \in Tokens
    BY <1>1, FenceAssumption DEF Given, Rows, ProcState, Tokens, NoToken, FenceAssumption
  <1>3. call' \in [Tokens -> CallRow] /\ CallsEnd
    <2>1. call[proc[p].token].pc \in {"ok", "retry", "failed"}
      BY DEF Finish
    <2> QED
      BY <1>2, <2>1, EndedCalls DEF Finish
  <1>4. /\ proc' \in [Procs -> ProcState] /\ \A q \in Procs : ProcKept(q)
        /\ \A q \in Procs : proc'[q].pc = "read" => proc'[q] = proc[q]
    <2>1. CASE Goto(p, "succeeded")
      BY <1>1, <2>1, GotoKeeps DEF ProcKept
    <2>2. CASE Back(p, "provision")
      BY <1>1, <2>2, BackKeeps, BackKept DEF Phases, ProcKept
    <2> QED
      BY <2>1, <2>2, FinishParts
  <1>5. CASE NoWrite
    <2>1. Rows'
      BY <1>3, <1>4, <1>5, NothingWritten DEF Finish, Rows
    <2> QED
      BY <1>3, <1>4, <1>5, <2>1, NothingWritten, NoWriteUnread DEF RowStep, Finish, ProcsKept
  <1>6. ASSUME NEW r \in GrantRow, Write(proc[p].g, r),
               Barred(proc[p].g) \/ Retried(proc[p].g) \/ ClearedNow(proc[p].g)
        PROVE  RowStep
    <2>1. Rows'
      BY <1>1, <1>3, <1>4, <1>6, WriteChanges DEF Finish, Rows, Write
    <2>2. ProcsKept
      BY <1>1, <1>4, <1>6, WriteUnread DEF Write, ProcsKept
    <2>3. OthersKept(proc[p].g)
      BY <1>1, <1>6, WriteChanges DEF Write, OthersKept
    <2> QED
      BY <1>1, <1>3, <1>6, <2>1, <2>2, <2>3 DEF RowStep, Finish
  <1> QED
    BY <1>5, <1>6, FinishParts

LEMMA PhysicalTimeoutKind ==
    ASSUME Inv, NEW p \in Procs, PhysicalTimeout(p)
    PROVE  RowStep
  <1> USE DEF Inv, FenceInv
  <1> DEFINE g == proc[p].g
  <1>1. proc[p].pc = "waiting" /\ g \in Grants /\ grant[g] \in GrantRow
    BY DEF PhysicalTimeout, Rows, ProcState
  <1>2. /\ proc' \in [Procs -> ProcState] /\ \A q \in Procs : ProcKept(q)
        /\ \A q \in Procs : proc'[q].pc = "read" => proc'[q] = proc[q]
    BY <1>1, BackKeeps, BackKept DEF Phases, ProcKept, PhysicalTimeout
  <1>3. CASE NoWrite
    <2>1. Rows'
      BY <1>2, <1>3, NothingWritten DEF PhysicalTimeout, Rows
    <2> QED
      BY <1>2, <1>3, <2>1, NoCallChange, NothingWritten, NoWriteUnread
      DEF RowStep, PhysicalTimeout, ProcsKept
  <1>4. CASE Write(g, Quarantined(grant[g])) /\ Quarantined(grant[g]) \in GrantRow
    <2>1. Rows'
      BY <1>1, <1>2, <1>4, WriteChanges DEF PhysicalTimeout, Rows, Write
    <2>2. ProcsKept
      BY <1>1, <1>2, <1>4, WriteUnread DEF Write, ProcsKept
    <2>3. OthersKept(g) /\ Barred(g)
      BY <1>1, <1>4, WriteChanges, QuarantinedRow DEF Write, OthersKept, Barred
    <2> QED
      BY <1>1, <2>1, <2>2, <2>3, NoCallChange DEF RowStep, PhysicalTimeout
  <1> QED
    BY <1>3, <1>4, FailsAmbiguous DEF PhysicalTimeout

LEMMA ReleaseAccessKind ==
    ASSUME Inv, NEW p \in Procs, ReleaseAccess(p)
    PROVE  RowStep
  <1> USE DEF Inv, FenceInv
  <1> DEFINE g == proc[p].g
  <1>1. proc[p].pc = "succeeded" /\ g \in Grants /\ grant[g] \in GrantRow
    BY DEF ReleaseAccess, Rows, ProcState
  <1>2. /\ proc' \in [Procs -> ProcState] /\ \A q \in Procs : ProcKept(q)
        /\ \A q \in Procs : proc'[q].pc = "read" => proc'[q] = proc[q]
    BY <1>1, BackKeeps, BackKept DEF Phases, ProcKept, ReleaseAccess
  <1>3. reservation' \in ReservationRow
    BY DEF ReleaseAccess, Rows, ReservationRow
  <1>4. CASE NoWrite
    <2>1. Rows'
      BY <1>2, <1>3, <1>4, NothingWritten DEF ReleaseAccess, Rows
    <2> QED
      BY <1>2, <1>4, <2>1, NoCallChange, NothingWritten, NoWriteUnread
      DEF RowStep, ReleaseAccess, ProcsKept
  <1>5. CASE Write(g, Quarantined(grant[g]))
    <2>1. Quarantined(grant[g]) \in GrantRow
      BY <1>1, QuarantinedRow
    <2>2. Rows'
      BY <1>1, <1>2, <1>3, <1>5, <2>1, WriteChanges DEF ReleaseAccess, Rows, Write
    <2>3. ProcsKept
      BY <1>1, <1>2, <1>5, <2>1, WriteUnread DEF Write, ProcsKept
    <2>4. OthersKept(g) /\ Barred(g)
      BY <1>1, <1>5, <2>1, WriteChanges, QuarantinedRow DEF Write, OthersKept, Barred
    <2> QED
      BY <1>1, <2>2, <2>3, <2>4, NoCallChange DEF RowStep, ReleaseAccess
  <1> QED
    BY <1>4, <1>5 DEF ReleaseAccess

-----------------------------------------------------------------------------
(* Steps that leave the rows alone.                                        *)

LEMMA NextPhaseKind ==
    ASSUME Inv, NEW p \in Procs, NextPhase(p)
    PROVE  RowStep
  <1> USE DEF Inv, FenceInv
  <1>1. proc[p].pc \in Phases /\ proc[p] \in ProcState
    BY DEF NextPhase, Phases, Rows
  <1>2. /\ \A q \in Procs \ {p} : proc'[q] = proc[q]
        /\ \/ proc'[p] = [proc[p] EXCEPT !.pc = "provision"]
           \/ proc'[p] = [proc[p] EXCEPT !.pc = "reconcile"]
           \/ proc'[p] = Resting(0)
    BY DEF NextPhase, Rows
  <1>3. proc'[p] \in ProcState /\ ProcKept(p)
    <2>1. CASE proc'[p] = Resting(0)
      BY <2>1, RestingType DEF ProcKept
    <2>2. CASE proc'[p] = [proc[p] EXCEPT !.pc = "provision"]
      BY <1>1, <2>2 DEF ProcState, Phases, ProcKept
    <2>3. CASE proc'[p] = [proc[p] EXCEPT !.pc = "reconcile"]
      BY <1>1, <2>3 DEF ProcState, Phases, ProcKept
    <2> QED
      BY <1>2, <2>1, <2>2, <2>3
  <1>4. proc' \in [Procs -> ProcState]
    BY <1>2, <1>3 DEF NextPhase, Rows
  <1>5. Rows'
    BY <1>4 DEF NextPhase, Rows
  <1>6. ProcsKept
    BY <1>2, <1>3 DEF NextPhase, ProcsKept, ProcKept, Unread
  <1> QED
    BY <1>5, <1>6, NoCallChange DEF RowStep, NextPhase

LEMMA ScanAmbiguousKind ==
    ASSUME Inv, NEW p \in Procs, NEW g \in Grants, ScanAmbiguous(p, g)
    PROVE  RowStep
  <1> USE DEF Inv, FenceInv
  <1>1. /\ proc' \in [Procs -> ProcState] /\ \A q \in Procs \ {p} : proc'[q] = proc[q]
        /\ proc'[p].pc = "scanned" /\ proc'[p].now = proc[p].now
        /\ proc'[p].token = proc[p].token /\ proc'[p].inventory = proc[p].inventory
    <2>1. proc[p] \in ProcState /\ proc \in [Procs -> ProcState]
      BY DEF Rows
    <2>2. /\ proc'[p] = [proc[p] EXCEPT !.pc = "scanned", !.g = g]
          /\ \A q \in Procs \ {p} : proc'[q] = proc[q]
          /\ proc' = [q \in Procs |-> proc'[q]]
      BY <2>1 DEF ScanAmbiguous
    <2>3. /\ proc'[p] \in ProcState /\ proc'[p].pc = "scanned" /\ proc'[p].now = proc[p].now
          /\ proc'[p].token = proc[p].token /\ proc'[p].inventory = proc[p].inventory
      BY <2>1, <2>2 DEF ProcState
    <2>4. \A q \in Procs : proc'[q] \in ProcState
      BY <2>1, <2>2, <2>3
    <2> QED
      BY <2>2, <2>3, <2>4
  <1>2. Rows'
    BY <1>1 DEF ScanAmbiguous, Rows
  <1>3. ProcsKept
    BY <1>1 DEF ScanAmbiguous, ProcsKept, ProcKept, Unread
  <1> QED
    BY <1>2, <1>3, NoCallChange DEF RowStep, ScanAmbiguous

LEMMA CrashKind ==
    ASSUME Inv, NEW p \in Procs, Crash(p)
    PROVE  RowStep
  <1> USE DEF Inv, FenceInv
  <1>1. /\ proc' \in [Procs -> ProcState] /\ \A q \in Procs \ {p} : proc'[q] = proc[q]
        /\ proc'[p].pc = "idle" /\ proc'[p].token = NoToken /\ proc'[p].inventory = {}
    BY RestingType, Zero DEF Crash, Rows
  <1>2. call' \in [Tokens -> CallRow] /\ CallsEnd
    <2>1. \A t \in Tokens : [call[t] EXCEPT !.pc = "ended", !.pass = NoToken] \in CallRow
      BY Zero DEF Rows, CallRow, CallPcs
    <2>2. call' \in [Tokens -> CallRow]
      BY <2>1 DEF Crash, Rows
    <2>3. \A t \in Tokens :
             \/ call'[t] = call[t]
             \/ /\ call[t].pc # "none"
                /\ call'[t] = [call[t] EXCEPT !.pc = "ended", !.pass = NoToken]
      BY DEF Crash
    <2>4. \A row \in CallRow :
             LET ended == [row EXCEPT !.pc = "ended", !.pass = NoToken] IN
             /\ ended.pc = "ended" /\ ended.pass = NoToken
             /\ ended.grant = row.grant /\ ended.at = row.at
      BY DEF CallRow
    <2>5. \A t \in Tokens : call[t] \in CallRow
      BY DEF Rows
    <2>6. pending' = pending /\ live' = live
      BY DEF Crash
    <2> QED
      <3> SUFFICES ASSUME NEW t \in Tokens
                   PROVE  \/ call'[t] = call[t]
                          \/ /\ call[t].pc # "none" /\ call'[t].pc = "ended"
                             /\ call'[t].pass = NoToken
                             /\ call'[t].grant = call[t].grant /\ call'[t].at = call[t].at
        BY <2>2, <2>6 DEF CallsEnd
      <3>1. call[t] \in CallRow
        BY <2>5
      <3> QED
        BY <2>3, <2>4, <3>1
  <1>3. Rows'
    <2>1. faults' \in 0 .. MaxFaults
      BY FaultCounted DEF Crash, Rows
    <2>2. moved' \subseteq Procs
      BY DEF Crash, Rows
    <2> QED
      BY <1>1, <1>2, <2>1, <2>2 DEF Crash, Rows
  <1>4. ProcsKept
    BY <1>1 DEF Crash, ProcsKept, ProcKept, Unread
  <1> QED
    BY <1>2, <1>3, <1>4 DEF RowStep, Crash

LEMMA WorldKind ==
    ASSUME Inv, Reevaluate \/ ReservationChanges
    PROVE  RowStep
  <1> USE DEF Inv, FenceInv
  <1>1. reservation' \in ReservationRow /\ faults' \in 0 .. MaxFaults
    <2>1. reservation \in ReservationRow
      BY DEF Rows
    <2>2. CASE Reevaluate
      BY <2>1, <2>2 DEF Reevaluate, ReservationRow, Evaluated, Rows
    <2>3. CASE ReservationChanges
      <3>1. faults' \in 0 .. MaxFaults
        BY <2>3, FenceAssumption DEF ReservationChanges, Rows, FenceAssumption
      <3> QED
        BY <2>1, <2>3, <3>1 DEF ReservationChanges, ReservationRow
    <2> QED
      BY <2>2, <2>3
  <1>2. NoWrite /\ UNCHANGED <<clock, plan, proc, call, pending, live, claims, rearms>>
    BY DEF Reevaluate, ReservationChanges
  <1>3. Rows'
    BY <1>1, <1>2, NothingWritten DEF Rows
  <1> QED
    BY <1>2, <1>3, SameKept, NoWriteUnread, NoCallChange, NothingWritten DEF RowStep, ProcsKept

LEMMA StutterKind ==
    ASSUME Inv, UNCHANGED vars
    PROVE  RowStep
  <1> USE DEF Inv, FenceInv
  <1> QED
    BY SameKept, NoCallChange DEF RowStep, ProcsKept, Unread, Rows, vars

-----------------------------------------------------------------------------
(* Reconciliation.                                                         *)

\* E15 adopts a passcode it found, or opens the fence for another try.
AdoptStep ==
    /\ Rows' /\ ProcsKept
    /\ UNCHANGED <<call, pending, live, clock, claims, rearms>>
    /\ \E p \in Procs : \E g \in Grants :
         /\ OthersKept(g) /\ grant[g].op = "AMBIGUOUS" /\ SiblingsClear(g)
         /\ grant'[g].status = "ACTIVE" /\ grant'[g].op = "IDLE" /\ grant'[g].token = NoToken
         /\ grant'[g].marker.count = 0
         /\ \/ grant[g].status = "ACTIVE" /\ grant'[g].pwd = grant[g].pwd
            \/ grant[g].status = "PENDING" /\ grant'[g].pwd \in proc[p].inventory
RearmStep ==
    /\ Rows' /\ ProcsKept
    /\ UNCHANGED <<call, pending, live, clock, claims>>
    /\ \E p \in Procs : \E g \in Grants :
         /\ OthersKept(g) /\ SiblingsClear(g) /\ RearmEnabled
         /\ grant[g].status = "PENDING" /\ grant'[g].status = "PENDING"
         /\ grant[g].op = "AMBIGUOUS" /\ grant'[g].op = "RETRYABLE"
         /\ grant'[g].token = grant[g].token /\ grant'[g].attempts = grant[g].attempts
         /\ grant'[g].pwd = grant[g].pwd
         /\ rearms' = [rearms EXCEPT ![g] = @ + 1]
         /\ proc[p].g = g
         /\ rearms[g] = 0 /\ Outlasts => Conclusive(p)
         /\ rearms[g] = 0 =>
              ReadAbsent(p) /\ grant[g].marker.state # "none" /\ grant[g].marker.count >= 1

LEMMA CountType ==
    ASSUME NEW marker \in Marker, NEW inventory, NEW now \in Nat
    PROVE  /\ Observations(marker, inventory, now) \in Nat
           /\ marker.count <= 1 /\ Observations(marker, inventory, now) >= 2
                => marker.state # "none" /\ marker.count >= 1 /\ now - marker.at >= AbsenceMinMs
  <1> DEFINE previous == IF marker.state # "none" /\ marker.seen = inventory
                         THEN marker.count ELSE 0
  <1>1. previous \in Nat /\ previous \in {0, marker.count} /\ (marker.count <= 1 => previous <= 1)
    BY DEF Marker
  <1>2. CASE marker.state # "none" /\ now - marker.at >= AbsenceMinMs
    <2>1. Observations(marker, inventory, now) = previous + 1
      BY <1>2 DEF Observations
    <2> QED
      BY <1>1, <1>2, <2>1
  <1>3. CASE ~(marker.state # "none" /\ now - marker.at >= AbsenceMinMs)
    <2>1. Observations(marker, inventory, now) = Max({previous, 1})
      BY <1>3 DEF Observations
    <2>2. Max({previous, 1}) \in {previous, 1}
      BY <1>1, GreatestOfTwo
    <2> QED
      BY <1>1, <1>3, <2>1, <2>2
  <1> QED
    BY <1>2, <1>3

LEMMA MarkedRow ==
    ASSUME Rows, NEW p \in Procs, NEW r \in GrantRow, NEW state \in MarkerStates,
           NEW count \in Nat
    PROVE  /\ Marked(r, state, count, p) \in GrantRow
           /\ Marked(r, state, count, p).op = r.op /\ Marked(r, state, count, p).token = r.token
           /\ Marked(r, state, count, p).status = r.status
           /\ Marked(r, state, count, p).attempts = r.attempts
           /\ Marked(r, state, count, p).pwd = r.pwd
           /\ Marked(r, state, count, p).marker.at = proc[p].now
           /\ Marked(r, state, count, p).marker.count = count
  <1>1. [state |-> state, count |-> count, at |-> proc[p].now, seen |-> proc[p].inventory] \in Marker
    BY DEF Rows, ProcState, Marker
  <1> QED
    BY <1>1 DEF Marked, GrantRow

\* The end of a grant's turn.
LEMMA PutParts ==
    ASSUME Rows, NEW p \in Procs, NEW r \in GrantRow, Put(p, r), Back(p, "reconcile"),
           proc[p].pc \in {"read", "partial"}
    PROVE  /\ proc' \in [Procs -> ProcState] /\ grant' \in [Grants -> GrantRow]
           /\ absences' \in [Grants -> Nat] /\ moved' \subseteq Procs
           /\ ProcsKept /\ OthersKept(proc[p].g) /\ grant'[proc[p].g] = r
  <1>1. proc[p].g \in Grants
    BY DEF Rows, ProcState
  <1>2. proc' \in [Procs -> ProcState] /\ proc'[p].pc = "reconcile"
        /\ \A q \in Procs \ {p} : proc'[q] = proc[q]
    BY BackKeeps DEF Phases
  <1>3. \A q \in Procs : ProcKept(q)
    BY BackKept DEF Phases
  <1>4. \A q \in Procs : Unread(q)
    BY <1>1, <1>2, WriteUnread DEF Put
  <1> QED
    BY <1>1, <1>2, <1>3, <1>4, WriteChanges DEF Put, ProcsKept, OthersKept

LEMMA LeaveParts ==
    ASSUME Rows, NEW p \in Procs, Leave(p), Back(p, "reconcile"), proc[p].pc \in {"read", "partial"}
    PROVE  /\ proc' \in [Procs -> ProcState] /\ grant' \in [Grants -> GrantRow]
           /\ absences' \in [Grants -> Nat] /\ moved' \subseteq Procs
           /\ ProcsKept /\ grant' = grant
  <1>1. proc' \in [Procs -> ProcState] /\ proc'[p].pc = "reconcile"
        /\ \A q \in Procs \ {p} : proc'[q] = proc[q]
    BY BackKeeps DEF Phases
  <1>2. \A q \in Procs : ProcKept(q)
    BY BackKept DEF Phases
  <1>3. \A q \in Procs : Unread(q)
    BY <1>1 DEF Leave, Unread
  <1> QED
    BY <1>1, <1>2, <1>3 DEF Leave, ProcsKept, Rows

LEMMA LeaveKind ==
    ASSUME Inv, NEW p \in Procs, Reconcile(p), Leave(p), UNCHANGED <<reservation, rearms>>
    PROVE  RowStep
  <1> USE DEF Inv, FenceInv
  <1>1. proc[p].pc \in {"read", "partial"} /\ Back(p, "reconcile")
        /\ UNCHANGED <<clock, plan, call, pending, live, claims, faults>>
    BY DEF Reconcile
  <1>2. Rows'
    BY <1>1, LeaveParts DEF Rows
  <1> QED
    BY <1>1, <1>2, LeaveParts, NoCallChange DEF RowStep

LEMMA MarkKind ==
    ASSUME Inv, NEW p \in Procs, Reconcile(p), NEW state \in MarkerStates, NEW count \in Nat,
           Put(p, Marked(grant[proc[p].g], state, count, p)), Unmoved(p),
           RearmEnabled => count <= 1, UNCHANGED <<reservation, rearms>>,
           count = 0 \/ ReadAbsent(p)
    PROVE  RowStep
  <1> USE DEF Inv, FenceInv
  <1> DEFINE g == proc[p].g
             r == Marked(grant[g], state, count, p)
  <1>1. proc[p].pc \in {"read", "partial"} /\ Back(p, "reconcile")
        /\ UNCHANGED <<clock, plan, call, pending, live, claims, faults>>
    BY DEF Reconcile
  <1>2. g \in Grants /\ grant[g] \in GrantRow
    BY DEF Rows, ProcState
  <1>3. r \in GrantRow
    BY <1>2, MarkedRow
  <1>4. ProcsKept /\ OthersKept(g) /\ grant'[g] = r
    BY <1>1, <1>3, PutParts
  <1>5. Rows'
    BY <1>1, <1>3, PutParts DEF Rows
  <1>6. MarkedNow(g)
    BY <1>1, <1>2, <1>4, MarkedRow DEF MarkedNow, Unmoved
  <1> QED
    BY <1>1, <1>2, <1>4, <1>5, <1>6, NoCallChange DEF RowStep

LEMMA AdoptKind ==
    ASSUME Inv, NEW p \in Procs, Reconcile(p), NEW status, NEW pwd \in 0 .. MaxClaims,
           Unmoved(p), Adopt(p, grant[proc[p].g], status, pwd), UNCHANGED rearms,
           grant[proc[p].g].status = status,
           \/ status = "ACTIVE" /\ pwd = grant[proc[p].g].pwd
           \/ status = "PENDING" /\ pwd \in proc[p].inventory
    PROVE  RowStep \/ AdoptStep
  <1> USE DEF Inv, FenceInv
  <1> DEFINE g == proc[p].g
             adopted == [Cleared(grant[g]) EXCEPT !.status = "ACTIVE", !.pwd = pwd]
             r == Marked(adopted, "RECONCILED", 0, p)
  <1>1. proc[p].pc \in {"read", "partial"} /\ Back(p, "reconcile")
        /\ UNCHANGED <<clock, plan, call, pending, live, claims, faults>>
    BY DEF Reconcile
  <1>2. g \in Grants /\ grant[g] \in GrantRow
    BY DEF Rows, ProcState
  <1>3. CASE ~OnlyCanonical(g, status)
    BY <1>3, LeaveKind DEF Adopt
  <1>4. CASE OnlyCanonical(g, status)
    <2>1. Put(p, r) /\ reservation' = [reservation EXCEPT !.release = "RELEASED"]
      BY <1>4 DEF Adopt
    <2>2. adopted \in GrantRow /\ adopted.status = "ACTIVE" /\ adopted.op = "IDLE"
          /\ adopted.token = NoToken /\ adopted.pwd = pwd
      <3>1. Cleared(grant[g]) \in GrantRow /\ Cleared(grant[g]).op = "IDLE"
            /\ Cleared(grant[g]).token = NoToken
        BY <1>2, ClearedRow
      <3> QED
        BY <3>1 DEF GrantRow, Statuses
    <2> HIDE DEF adopted
    <2>3. r \in GrantRow /\ r.status = "ACTIVE" /\ r.op = "IDLE" /\ r.token = NoToken
          /\ r.pwd = pwd /\ r.marker.count = 0
      <3>1. "RECONCILED" \in MarkerStates
        BY DEF MarkerStates
      <3> QED
        BY <2>2, <3>1, Zero, MarkedRow
    <2>4. ProcsKept /\ OthersKept(g) /\ grant'[g] = r
      BY <1>1, <2>1, <2>3, PutParts
    <2>5. reservation' \in ReservationRow
      BY <2>1 DEF Rows, ReservationRow
    <2>6. Rows'
      BY <1>1, <2>1, <2>3, <2>5, PutParts DEF Rows
    <2>7. SiblingsClear(g) /\ grant[g].op = "AMBIGUOUS"
      BY <1>4 DEF OnlyCanonical, Unmoved
    <2> QED
      BY <1>1, <1>2, <2>3, <2>4, <2>6, <2>7 DEF AdoptStep
  <1> QED
    BY <1>3, <1>4

LEMMA RearmKind ==
    ASSUME Inv, NEW p \in Procs, Reconcile(p), Rearm(p, grant[proc[p].g])
    PROVE  RowStep \/ RearmStep
  <1> USE DEF Inv, FenceInv
  <1> DEFINE g == proc[p].g
             again == [grant[g] EXCEPT !.op = "RETRYABLE", !.nextAt = proc[p].now,
                                       !.exhausted = FALSE]
             count == Count(p, grant[g])
             r == Marked(again, "REARMED", count, p)
  <1>1. proc[p].pc \in {"read", "partial"} /\ Back(p, "reconcile")
        /\ UNCHANGED <<clock, plan, call, pending, live, claims, faults>>
    BY DEF Reconcile
  <1>2. g \in Grants /\ grant[g] \in GrantRow /\ proc[p].now \in Nat
        /\ grant[g].marker \in Marker
    BY DEF Rows, ProcState, GrantRow
  <1>3. Unmoved(p) /\ proc[p].pc = "read" /\ grant[g].status = "PENDING"
        /\ proc[p].inventory = {} /\ count >= 2 /\ RearmEnabled /\ reservation' = reservation
    BY DEF Rearm, Absent
  <1>4. CASE ~OnlyCanonical(g, "PENDING")
    BY <1>4, LeaveKind DEF Rearm
  <1>5. CASE OnlyCanonical(g, "PENDING")
    <2>1. Put(p, r) /\ rearms' = [rearms EXCEPT ![g] = @ + 1]
      BY <1>5 DEF Rearm
    <2>2. again \in GrantRow /\ again.op = "RETRYABLE" /\ again.status = grant[g].status
          /\ again.token = grant[g].token /\ again.attempts = grant[g].attempts
          /\ again.pwd = grant[g].pwd
      BY <1>2 DEF GrantRow, FenceStates
    <2>3. /\ count \in Nat
          /\ grant[g].marker.count <= 1 =>
               /\ grant[g].marker.state # "none" /\ grant[g].marker.count >= 1
               /\ proc[p].now - grant[g].marker.at >= AbsenceMinMs
      BY <1>2, <1>3, CountType DEF Count
    <2> HIDE DEF again, count
    <2>4. r \in GrantRow /\ r.op = "RETRYABLE" /\ r.status = grant[g].status
          /\ r.token = grant[g].token /\ r.attempts = grant[g].attempts /\ r.pwd = grant[g].pwd
      <3>1. "REARMED" \in MarkerStates /\ count \in Nat
        BY <2>3 DEF MarkerStates
      <3> QED
        BY <2>2, <3>1, MarkedRow
    <2>5. ProcsKept /\ OthersKept(g) /\ grant'[g] = r
      BY <1>1, <2>1, <2>4, PutParts
    <2>6. rearms' \in [Grants -> Nat]
      BY <1>2, <2>1 DEF Rows
    <2>7. Rows'
      BY <1>1, <1>3, <2>1, <2>4, <2>6, PutParts DEF Rows
    <2>8. SiblingsClear(g) /\ grant[g].op = "AMBIGUOUS" /\ p \notin moved
      BY <1>3, <1>5 DEF OnlyCanonical, Unmoved
    <2>9. rearms[g] = 0 /\ Outlasts => Conclusive(p)
      BY <1>2, <1>3, <2>3, <2>8 DEF MarkersCover, Marked0, Conclusive
    <2>10. rearms[g] = 0 =>
             ReadAbsent(p) /\ grant[g].marker.state # "none" /\ grant[g].marker.count >= 1
      BY <1>2, <1>3, <2>3, <2>8 DEF MarkersCover, Marked0, ReadAbsent
    <2> QED
      BY <1>1, <1>2, <1>3, <2>1, <2>4, <2>5, <2>7, <2>8, <2>9, <2>10 DEF RearmStep
  <1> QED
    BY <1>4, <1>5

LEMMA ReconcileKind ==
    ASSUME Inv, NEW p \in Procs, Reconcile(p)
    PROVE  RowStep \/ AdoptStep \/ RearmStep
  <1> USE DEF Inv, FenceInv
  <1> DEFINE g == proc[p].g
             r == grant[g]
  <1>1. g \in Grants /\ r \in GrantRow /\ proc[p].now \in Nat /\ r.marker \in Marker
        /\ proc[p].inventory \subseteq Tokens
    BY DEF Rows, ProcState, GrantRow
  <1>2. CASE RaceLost(p)
    BY <1>2, LeaveKind DEF RaceLost
  <1>3. CASE VerifyLater(p, r)
    BY <1>3, MarkKind, Zero DEF VerifyLater, MarkerStates
  <1>4. CASE ManualReview(p, r)
    BY <1>4, MarkKind, Zero DEF ManualReview, MarkerStates
  <1>5. CASE ObserveAbsence(p, r)
    <2> DEFINE count == Count(p, r)
    <2>1. count \in Nat
      BY <1>1, CountType DEF Count
    <2>2. PICK state \in {"ABSENCE", "CONFIRMED"} :
               /\ Put(p, Marked(r, state, count, p)) /\ Unmoved(p)
               /\ count < 2 \/ ~RearmEnabled
               /\ UNCHANGED <<reservation, rearms>>
      BY <1>5 DEF ObserveAbsence, Absent
    <2>3. state \in MarkerStates /\ (RearmEnabled => count <= 1)
      BY <2>1, <2>2 DEF MarkerStates
    <2>4. ReadAbsent(p)
      BY <1>5 DEF ObserveAbsence, Absent, Unmoved, ReadAbsent
    <2> HIDE DEF count
    <2> QED
      BY <2>1, <2>2, <2>3, <2>4, MarkKind
  <1>6. CASE ReconcileLateSuccess(p, r)
    <2>1. Unmoved(p) /\ r.status = "ACTIVE" /\ Adopt(p, r, "ACTIVE", r.pwd) /\ UNCHANGED rearms
      BY <1>6 DEF ReconcileLateSuccess
    <2>2. r.pwd \in 0 .. MaxClaims
      BY <1>1 DEF GrantRow
    <2> QED
      BY <2>1, <2>2, AdoptKind
  <1>7. CASE AdoptProviderPresent(p, r)
    <2>1. PICK t \in Tokens : /\ Exact(proc[p].inventory, g) = {t}
                              /\ Adopt(p, r, "PENDING", t)
      BY <1>7 DEF AdoptProviderPresent
    <2>2. Unmoved(p) /\ r.status = "PENDING" /\ UNCHANGED rearms
      BY <1>7 DEF AdoptProviderPresent
    <2>3. t \in proc[p].inventory /\ t \in 0 .. MaxClaims
      BY <2>1, Positive DEF Exact
    <2> QED
      BY <2>1, <2>2, <2>3, AdoptKind
  <1>8. CASE Rearm(p, r)
    BY <1>8, RearmKind
  <1> QED
    BY <1>2, <1>3, <1>4, <1>5, <1>6, <1>7, <1>8 DEF Reconcile

-----------------------------------------------------------------------------
(* The physical calls.                                                     *)

\* One call goes on.
Turned(t) ==
    /\ call' \in [Tokens -> CallRow] /\ call[t].pc # "none"
    /\ \A u \in Tokens \ {t} : call'[u] = call[u]
    /\ call'[t].pc # "none" /\ call'[t].grant = call[t].grant /\ call'[t].at = call[t].at
    /\ call'[t].pass \in {NoToken, call[t].pass} \cup live
    /\ call'[t].pc = "got" => call'[t].pass # NoToken
    /\ call'[t].pc = "got" => call'[t] = call[t] \/ call'[t].pass \in live
\* Its grant is marked failed, or becomes active with its passcode.
Failed(t) ==
    LET g == call[t].grant IN
    /\ OthersKept(g) /\ Alive(t) /\ ~Custom
    /\ grant'[g].status = "FAILED" /\ grant'[g].pwd = grant[g].pwd
    /\ grant'[g].op = grant[g].op /\ grant'[g].token = grant[g].token
    /\ grant'[g].attempts = grant[g].attempts /\ grant'[g].marker = grant[g].marker
Activated(t) ==
    LET g == call[t].grant IN
    /\ OthersKept(g) /\ call[t].pc = "got" /\ grant[g].status = "PENDING"
    /\ grant'[g].status = "ACTIVE" /\ grant'[g].pwd = call[t].pass
    /\ grant'[g].op = grant[g].op /\ grant'[g].token = grant[g].token
    /\ grant'[g].attempts = grant[g].attempts /\ grant'[g].marker = grant[g].marker
CallStep(t) ==
    /\ Rows' /\ Turned(t)
    /\ UNCHANGED <<proc, clock, claims, rearms>>
    /\ \A q \in Procs : Unread(q)
    /\ call'[t].pc \in UnsettledPcs \cup {"sent", "got"} => Alive(t)
    /\ Settled'
    /\ \A u \in Tokens : (Unsettled(u)' => Unsettled(u)) /\ (Hot(u)' => Hot(u))
    /\ live' \cup pending' \subseteq live \cup pending \cup {t}
    /\ Custom /\ call[t].pc # "cleanup" => live \subseteq live' /\ call'[t].pc # "cleanup"
    /\ grant' = grant \/ Failed(t) \/ Activated(t)

LEMMA EndedTurns ==
    ASSUME Rows, NEW t \in Tokens, NEW result \in CallPcs \ {"none", "got"}, call[t].pc # "none",
           Ended(t, result)
    PROVE  Turned(t) /\ call'[t].pc = result
  <1> DEFINE row == [call[t] EXCEPT !.pc = result,
                                    !.pass = IF result = "cleanup" THEN @ ELSE NoToken]
  <1>1. call[t] \in CallRow
    BY DEF Rows
  <1>2. row \in CallRow /\ row.pc = result /\ row.grant = call[t].grant /\ row.at = call[t].at
        /\ row.pass \in {NoToken, call[t].pass}
    BY <1>1, Zero DEF CallRow
  <1>3. call'[t] = row /\ (\A u \in Tokens \ {t} : call'[u] = call[u])
        /\ call' \in [Tokens -> CallRow]
    BY <1>2 DEF Ended, Rows
  <1> QED
    BY <1>2, <1>3 DEF Turned

\* A row that is written back as it was.
LEMMA SameWritten ==
    ASSUME Rows, NEW g \in Grants, NoWrite \/ Write(g, grant[g]), proc' = proc
    PROVE  /\ grant' = grant /\ grant' \in [Grants -> GrantRow]
           /\ absences' \in [Grants -> Nat] /\ moved' \subseteq Procs
           /\ \A q \in Procs : Unread(q)
  <1>1. CASE NoWrite
    BY <1>1, NothingWritten, NoWriteUnread
  <1>2. CASE Write(g, grant[g])
    <2>1. grant[g] \in GrantRow
      BY DEF Rows
    <2>2. grant' = grant
      BY <1>2 DEF Write, WriteBy, Rows
    <2>3. \A q \in Procs : Unread(q)
      BY <1>2, <2>1, WriteUnread DEF Write
    <2> QED
      BY <1>2, <2>1, <2>2, <2>3, WriteChanges DEF Write
  <1> QED
    BY <1>1, <1>2

\* A call that ends, or is refused, and settles nothing with the provider.
LEMMA CallStops ==
    ASSUME Inv, NEW t \in Tokens, Ended(t, "failed") \/ Ended(t, "retry"),
           NoWrite \/ Write(call[t].grant, grant[call[t].grant]),
           call[t].pc # "none", call[t].pc \in UnsettledPcs \/ Ended(t, "failed"),
           CallOnly, UNCHANGED <<pending, live>>,
           plan' \in [Grants -> PlanRow], faults' \in 0 .. MaxFaults
    PROVE  CallStep(t)
  <1> USE DEF Inv, FenceInv
  <1>1. call[t] \in CallRow /\ call[t].grant \in Grants
    BY DEF Rows, CallRow
  <1>2. Turned(t) /\ call'[t].pc \in {"failed", "retry"}
        /\ (call'[t].pc = "retry" => call[t].pc \in UnsettledPcs)
    <2>1. "failed" \in CallPcs \ {"none", "got"} /\ "retry" \in CallPcs \ {"none", "got"}
      BY DEF CallPcs
    <2>2. CASE Ended(t, "failed")
      BY <2>1, <2>2, EndedTurns
    <2>3. CASE Ended(t, "retry") /\ call[t].pc \in UnsettledPcs
      BY <2>1, <2>3, EndedTurns
    <2> QED
      BY <2>2, <2>3
  <1>3. Rows' /\ grant' = grant /\ \A q \in Procs : Unread(q)
    BY <1>1, <1>2, SameWritten DEF Rows, CallOnly, Turned
  <1>4. \A u \in Tokens : (Unsettled(u)' => Unsettled(u)) /\ (Hot(u)' => Hot(u))
    BY <1>2 DEF Unsettled, Hot, Turned
  <1>5. Settled'
    BY <1>2 DEF Settled, Turned, UnsettledPcs
  <1> QED
    BY <1>2, <1>3, <1>4, <1>5 DEF CallStep, CallOnly, UnsettledPcs

LEMMA CallRefusedKind ==
    ASSUME Inv, NEW t \in Tokens, CallRefused(t)
    PROVE  CallStep(t)
  <1> USE DEF Inv, FenceInv
  <1>1. faults' \in 0 .. MaxFaults /\ plan' \in [Grants -> PlanRow]
    BY FaultCounted DEF CallRefused, Rows
  <1> QED
    BY <1>1, CallStops DEF CallRefused, UnsettledPcs

LEMMA CallErrsKind ==
    ASSUME Inv, NEW t \in Tokens, CallErrs(t)
    PROVE  CallStep(t)
  <1> USE DEF Inv, FenceInv
  <1> QED
    BY CallStops DEF CallErrs, Rows

\* The request leaves for the provider.
LEMMA CallSent ==
    ASSUME Inv, NEW t \in Tokens, call[t].pc \in UnsettledPcs,
           Ended(t, "sent"), pending' = pending \cup {t},
           NoWrite \/ Write(call[t].grant, grant[call[t].grant]),
           CallOnly, UNCHANGED <<live, faults>>, plan' \in [Grants -> PlanRow]
    PROVE  CallStep(t)
  <1> USE DEF Inv, FenceInv
  <1>1. call[t] \in CallRow /\ call[t].grant \in Grants
    BY DEF Rows, CallRow
  <1>2. Turned(t) /\ call'[t].pc = "sent"
    BY EndedTurns DEF CallPcs, UnsettledPcs
  <1>3. Rows' /\ grant' = grant /\ \A q \in Procs : Unread(q)
    BY <1>1, <1>2, SameWritten DEF Rows, CallOnly, Turned
  <1>4. \A u \in Tokens : (Unsettled(u)' => Unsettled(u)) /\ (Hot(u)' => Hot(u))
    BY <1>2 DEF Unsettled, Hot, Turned, UnsettledPcs
  <1>5. Settled'
    BY <1>2 DEF Settled, Turned, UnsettledPcs
  <1> QED
    BY <1>2, <1>3, <1>4, <1>5 DEF CallStep, CallOnly, UnsettledPcs, Alive

LEMMA SendTimedKind ==
    ASSUME Inv, NEW t \in Tokens, SendTimed(t)
    PROVE  CallStep(t)
  <1> USE DEF Inv, FenceInv
  <1> QED
    BY CallSent DEF SendTimed, MayCall, UnsettledPcs, Rows

LEMMA SendCustomKind ==
    ASSUME Inv, NEW t \in Tokens, SendCustom(t)
    PROVE  CallStep(t)
  <1> USE DEF Inv, FenceInv
  <1> DEFINE g == call[t].grant
  <1>1. g \in Grants /\ call[t].pc = "planned" /\ call[t].code \in Nat /\ clock \in Nat
        /\ plan[g] \in PlanRow
    BY DEF SendCustom, Rows, CallRow
  <1>2. CASE grant[g].status = "PENDING" /\ grant[g].pwd = NoToken
    <2>1. plan' = [plan EXCEPT ![g] = [@ EXCEPT !.state = "SUBMITTED", !.code = CodeOf(t), !.at = clock]]
          /\ Write(g, grant[g]) /\ Ended(t, "sent") /\ pending' = pending \cup {t}
      BY <1>2 DEF SendCustom
    <2>2. [plan[g] EXCEPT !.state = "SUBMITTED", !.code = CodeOf(t), !.at = clock] \in PlanRow
      BY <1>1 DEF PlanRow, CodeOf
    <2>3. plan' \in [Grants -> PlanRow]
      BY <1>1, <2>1, <2>2 DEF Rows
    <2> QED
      BY <1>1, <2>1, <2>3, CallSent DEF SendCustom, UnsettledPcs
  <1>3. CASE ~(grant[g].status = "PENDING" /\ grant[g].pwd = NoToken)
    BY <1>1, <1>3, CallStops DEF SendCustom, Rows
  <1> QED
    BY <1>2, <1>3

\* A candidate is chosen.
LEMMA CallPlanned ==
    ASSUME Inv, NEW t \in Tokens, NEW code \in Nat, call[t].pc \in UnsettledPcs,
           call' = [call EXCEPT ![t].pc = "planned", ![t].code = code],
           NoWrite \/ Write(call[t].grant, grant[call[t].grant]),
           CallOnly, UNCHANGED <<pending, live, faults>>, plan' \in [Grants -> PlanRow]
    PROVE  CallStep(t)
  <1> USE DEF Inv, FenceInv
  <1>1. call[t] \in CallRow /\ call[t].grant \in Grants /\ call[t].pc # "none"
    BY DEF Rows, CallRow, UnsettledPcs
  <1>2. Turned(t) /\ call'[t].pc = "planned"
    <2> DEFINE row == [call[t] EXCEPT !.pc = "planned", !.code = code]
    <2>1. row \in CallRow /\ row.pc = "planned" /\ row.grant = call[t].grant
          /\ row.at = call[t].at /\ row.pass = call[t].pass
      BY <1>1 DEF CallRow, CallPcs, UnsettledPcs
    <2>2. call'[t] = row /\ (\A u \in Tokens \ {t} : call'[u] = call[u])
          /\ call' \in [Tokens -> CallRow]
      BY <2>1 DEF Rows
    <2> QED
      BY <1>1, <2>1, <2>2 DEF Turned
  <1>3. Rows' /\ grant' = grant /\ \A q \in Procs : Unread(q)
    BY <1>1, <1>2, SameWritten DEF Rows, CallOnly, Turned
  <1>4. \A u \in Tokens : (Unsettled(u)' => Unsettled(u)) /\ (Hot(u)' => Hot(u))
    BY <1>2 DEF Unsettled, Hot, Turned, UnsettledPcs
  <1>5. Settled'
    BY <1>2 DEF Settled, Turned, UnsettledPcs
  <1> QED
    BY <1>2, <1>3, <1>4, <1>5 DEF CallStep, CallOnly, UnsettledPcs, Alive

LEMMA PlanNewKind ==
    ASSUME Inv, NEW t \in Tokens, PlanNew(t)
    PROVE  CallStep(t)
  <1> USE DEF Inv, FenceInv
  <1> DEFINE g == call[t].grant
             free == {c \in Codes : Free(c, g)}
             code == IF plan[g].code \in free THEN plan[g].code ELSE Min(free)
  <1>1. call[t].pc = "begun"
    BY DEF PlanNew, MayCall
  <1>2. CASE free = {}
    <2>1. Ended(t, "retry")
      BY <1>2 DEF PlanNew, Choose
    <2> QED
      BY <1>1, <2>1, CallStops DEF PlanNew, UnsettledPcs, Rows
  <1>3. CASE free # {}
    <2>1. call' = [call EXCEPT ![t].pc = "planned", ![t].code = code]
      BY <1>3 DEF PlanNew, Choose
    <2>2. free \in SUBSET Nat
      BY FenceAssumption DEF FenceAssumption
    <2> HIDE DEF free
    <2>3. code \in Nat
      BY <1>3, <2>2, LeastOfSome
    <2> HIDE DEF code
    <2> QED
      BY <1>1, <2>1, <2>3, CallPlanned DEF PlanNew, UnsettledPcs, Rows
  <1> QED
    BY <1>2, <1>3

LEMMA ResumePlanKind ==
    ASSUME Inv, NEW t \in Tokens, ResumePlan(t)
    PROVE  CallStep(t)
  <1> USE DEF Inv, FenceInv
  <1> DEFINE g == call[t].grant
             left == {c \in Codes \ {CodeOf(t)} : Free(c, g)}
             rejected == IF call[t].pc = "duplicate" THEN plan[g].rejected \cup {CodeOf(t)}
                         ELSE plan[g].rejected
             row == [plan[g] EXCEPT !.state = "READY", !.rejected = rejected]
  <1>1. call[t].pc \in {"duplicate", "rejected"}
    BY DEF ResumePlan
  <1>2. g \in Grants /\ call[t].code \in Nat /\ plan[g] \in PlanRow
    BY DEF Rows, CallRow
  <1>3. CASE ~(grant[g].status = "PENDING" /\ grant[g].pwd = NoToken)
    <2>1. Ended(t, "failed") /\ NoWrite /\ UNCHANGED plan
      BY <1>3 DEF ResumePlan
    <2> QED
      BY <1>1, <2>1, CallStops DEF ResumePlan, Rows
  <1>4. CASE grant[g].status = "PENDING" /\ grant[g].pwd = NoToken
    <2>1. /\ plan' = [plan EXCEPT ![g].state = "READY",
                            ![g].rejected = IF call[t].pc = "duplicate" THEN @ \cup {CodeOf(t)} ELSE @]
          /\ Write(g, grant[g])
          /\ IF call[t].pc = "rejected" \/ left = {} THEN Ended(t, "retry")
             ELSE call' = [call EXCEPT ![t].pc = "planned", ![t].code = Min(left)]
          /\ CallOnly /\ UNCHANGED <<pending, live, faults>>
      BY <1>4 DEF ResumePlan
    <2>2. row \in PlanRow
      BY <1>2 DEF PlanRow, CodeOf
    <2>3. plan' \in [Grants -> PlanRow]
      <3>1. plan'[g] = row /\ \A h \in Grants \ {g} : plan'[h] = plan[h]
        BY <1>2, <2>1 DEF Rows
      <3>2. plan' = [h \in Grants |-> plan'[h]]
        BY <2>1 DEF Rows
      <3> HIDE DEF row
      <3> QED
        BY <1>2, <2>2, <3>1, <3>2 DEF Rows
    <2>4. CASE Ended(t, "retry")
      BY <1>1, <2>1, <2>3, <2>4, CallStops DEF Rows, UnsettledPcs
    <2>5. CASE left # {} /\ call' = [call EXCEPT ![t].pc = "planned", ![t].code = Min(left)]
      <3>1. left \in SUBSET Nat
        BY FenceAssumption DEF FenceAssumption
      <3> HIDE DEF left
      <3>2. Min(left) \in Nat
        BY <2>5, <3>1, LeastOfSome
      <3> QED
        BY <1>1, <2>1, <2>3, <2>5, <3>2, CallPlanned DEF UnsettledPcs
    <2> QED
      BY <2>1, <2>4, <2>5
  <1> QED
    BY <1>3, <1>4

\* A passcode is learned: its own call's, or the plan's.
LEMMA CallGot ==
    ASSUME Inv, NEW t \in Tokens, NEW pass \in live, Alive(t),
           call' = [call EXCEPT ![t].pc = "got", ![t].pass = pass],
           NoWrite \/ Write(call[t].grant, grant[call[t].grant]),
           CallOnly, UNCHANGED <<pending, live, faults>>, plan' \in [Grants -> PlanRow]
    PROVE  CallStep(t)
  <1> USE DEF Inv, FenceInv
  <1>1. call[t] \in CallRow /\ call[t].grant \in Grants /\ call[t].pc # "none"
    BY DEF Rows, CallRow, UnsettledPcs, Alive
  <1>2. Turned(t) /\ call'[t].pc = "got"
    <2> DEFINE row == [call[t] EXCEPT !.pc = "got", !.pass = pass]
    <2>1. pass \in 0 .. MaxClaims /\ pass # NoToken
      BY Positive DEF Rows
    <2>2. row \in CallRow /\ row.pc = "got" /\ row.grant = call[t].grant
          /\ row.at = call[t].at /\ row.pass = pass
      BY <1>1, <2>1 DEF CallRow, CallPcs
    <2>3. call'[t] = row /\ (\A u \in Tokens \ {t} : call'[u] = call[u])
          /\ call' \in [Tokens -> CallRow]
      BY <2>2 DEF Rows
    <2> QED
      BY <1>1, <2>1, <2>2, <2>3 DEF Turned
  <1>3. Rows' /\ grant' = grant /\ \A q \in Procs : Unread(q)
    BY <1>1, <1>2, SameWritten DEF Rows, CallOnly, Turned
  <1>4. \A u \in Tokens : (Unsettled(u)' => Unsettled(u)) /\ (Hot(u)' => Hot(u))
    BY <1>2 DEF Unsettled, Hot, Turned, UnsettledPcs
  <1>5. Settled'
    BY <1>2 DEF Settled, Turned, UnsettledPcs
  <1> QED
    BY <1>2, <1>3, <1>4, <1>5 DEF CallStep, CallOnly, UnsettledPcs, Alive

LEMMA PlanFoundKind ==
    ASSUME Inv, NEW t \in Tokens, PlanFound(t)
    PROVE  CallStep(t)
  <1> USE DEF Inv, FenceInv
  <1> DEFINE g == call[t].grant
             row == [plan[g] EXCEPT !.state = "CONFIRMED"]
  <1>1. call[t].pc = "begun" /\ g \in Grants /\ plan[g] \in PlanRow
    BY DEF PlanFound, MayCall, Rows, CallRow
  <1>2. CASE /\ Cardinality(Found(t)) = 1
             /\ plan' = [plan EXCEPT ![g].state = "CONFIRMED"]
             /\ call' = [call EXCEPT ![t].pc = "got", ![t].pass = CHOOSE u \in Found(t) : TRUE]
             /\ Write(g, grant[g])
    <2>1. Found(t) # {}
      BY <1>2, FS_EmptySet
    <2>2. (CHOOSE u \in Found(t) : TRUE) \in Found(t)
      BY <2>1
    <2>3. (CHOOSE u \in Found(t) : TRUE) \in live
      BY <2>2 DEF Found
    <2>4. row \in PlanRow
      BY <1>1 DEF PlanRow
    <2>5. plan' \in [Grants -> PlanRow]
      BY <1>1, <1>2, <2>4 DEF Rows
    <2> QED
      BY <1>1, <1>2, <2>3, <2>5, CallGot DEF PlanFound, Alive, UnsettledPcs
  <1>3. CASE Ended(t, "failed") /\ UNCHANGED plan /\ NoWrite
    BY <1>1, <1>3, CallStops DEF PlanFound, Rows
  <1> QED
    BY <1>2, <1>3 DEF PlanFound

LEMMA AnsweredKind ==
    ASSUME Inv, NEW t \in Tokens, Answered(t)
    PROVE  CallStep(t)
  <1> USE DEF Inv, FenceInv
  <1> DEFINE g == call[t].grant
             row == [plan[g] EXCEPT !.state = "CONFIRMED"]
  <1>1. t \in live /\ Alive(t) /\ g \in Grants /\ plan[g] \in PlanRow
    BY DEF Answered, Alive, Rows, CallRow
  <1>2. row \in PlanRow
    BY <1>1 DEF PlanRow
  <1>3. plan' \in [Grants -> PlanRow]
    BY <1>1, <1>2 DEF Answered, Rows
  <1>4. NoWrite \/ Write(g, grant[g])
    BY DEF Answered
  <1> QED
    BY <1>1, <1>3, <1>4, CallGot DEF Answered

LEMMA ProviderSettlesKind ==
    ASSUME Inv, NEW t \in Tokens, ProviderSettles(t)
    PROVE  CallStep(t)
  <1> USE DEF Inv, FenceInv
  <1>1. /\ call[t] \in CallRow /\ call[t].grant \in Grants /\ call[t].pc # "none"
        /\ t \in pending /\ pending' = pending \ {t}
        /\ NoWrite /\ CallOnly /\ UNCHANGED plan
    BY DEF Rows, CallRow, Given, ProviderSettles
  <1>2. faults' \in 0 .. MaxFaults
    BY FaultCounted DEF ProviderSettles, Rows
  <1>3. CASE UNCHANGED call /\ (live' = live \cup {t} \/ live' = live)
    <2>1. Turned(t)
      BY <1>1, <1>3 DEF Turned, Rows, Given
    <2>2. Rows' /\ grant' = grant /\ \A q \in Procs : Unread(q)
      BY <1>1, <1>2, <1>3, SameWritten DEF Rows, CallOnly
    <2>3. \A u \in Tokens : (Unsettled(u)' => Unsettled(u)) /\ (Hot(u)' => Hot(u))
      BY <1>1, <1>3 DEF Unsettled, Hot
    <2>4. Settled'
      BY <1>1, <1>3 DEF Settled
    <2> QED
      BY <1>1, <1>3, <2>1, <2>2, <2>3, <2>4 DEF CallStep, CallOnly, Alive
  <1>4. CASE /\ Ended(t, "duplicate") \/ Ended(t, "rejected")
             /\ call[t].pc = "sent" /\ UNCHANGED live
    <2>1. Turned(t) /\ call'[t].pc \in {"duplicate", "rejected"}
      <3>1. "duplicate" \in CallPcs \ {"none", "got"} /\ "rejected" \in CallPcs \ {"none", "got"}
        BY DEF CallPcs, UnsettledPcs
      <3> QED
        BY <1>1, <1>4, <3>1, EndedTurns
    <2>2. Rows' /\ grant' = grant /\ \A q \in Procs : Unread(q)
      BY <1>1, <1>2, <1>4, <2>1, SameWritten DEF Rows, CallOnly, Turned
    <2>3. \A u \in Tokens : (Unsettled(u)' => Unsettled(u)) /\ (Hot(u)' => Hot(u))
      BY <1>1, <1>4, <2>1 DEF Unsettled, Hot, Turned
    <2>4. Settled'
      BY <1>1, <1>4, <2>1 DEF Settled, Turned
    <2> QED
      BY <1>1, <1>4, <2>1, <2>2, <2>3, <2>4 DEF CallStep, CallOnly, Alive
  <1> QED
    BY <1>3, <1>4 DEF ProviderSettles

LEMMA IncompleteAnswerKind ==
    ASSUME Inv, NEW t \in Tokens, IncompleteAnswer(t)
    PROVE  CallStep(t)
  <1> USE DEF Inv, FenceInv
  <1> DEFINE g == call[t].grant
             r == [grant[g] EXCEPT !.status = "FAILED"]
  <1>1. call[t].pc = "sent" /\ g \in Grants /\ grant[g] \in GrantRow
    BY DEF IncompleteAnswer, Rows, CallRow
  <1>2. r \in GrantRow /\ r.status = "FAILED" /\ r.pwd = grant[g].pwd /\ r.op = grant[g].op
        /\ r.token = grant[g].token /\ r.attempts = grant[g].attempts
        /\ r.marker = grant[g].marker
    BY <1>1 DEF GrantRow, Statuses
  <1>3. Write(g, r) /\ Ended(t, "failed") /\ CallOnly /\ UNCHANGED <<plan, pending, live>>
        /\ faults' \in 0 .. MaxFaults
    BY FaultCounted DEF IncompleteAnswer, Rows
  <1>4. Turned(t) /\ call'[t].pc = "failed"
    BY <1>1, <1>3, EndedTurns DEF CallPcs
  <1> HIDE DEF r
  <1>5. \A q \in Procs : Unread(q)
    BY <1>1, <1>2, <1>3, WriteUnread DEF Write, CallOnly
  <1>6. Rows'
    BY <1>1, <1>2, <1>3, <1>4, WriteChanges DEF Write, Rows, CallOnly, Turned
  <1>7. Failed(t)
    BY <1>1, <1>2, <1>3, WriteChanges DEF Write, OthersKept, Failed, Alive, IncompleteAnswer
  <1>8. \A u \in Tokens : (Unsettled(u)' => Unsettled(u)) /\ (Hot(u)' => Hot(u))
    BY <1>3, <1>4 DEF Unsettled, Hot, Turned
  <1>9. Settled'
    BY <1>3, <1>4 DEF Settled, Turned, UnsettledPcs
  <1> QED
    BY <1>3, <1>4, <1>5, <1>6, <1>7, <1>8, <1>9 DEF CallStep, CallOnly, UnsettledPcs

LEMMA PersistKind ==
    ASSUME Inv, NEW t \in Tokens, Persist(t)
    PROVE  CallStep(t)
  <1> USE DEF Inv, FenceInv
  <1> DEFINE g == call[t].grant
             r == [grant[g] EXCEPT !.status = "ACTIVE", !.pwd = call[t].pass]
  <1>1. call[t].pc = "got" /\ g \in Grants /\ grant[g] \in GrantRow
        /\ call[t].pass \in 0 .. MaxClaims /\ CallOnly /\ UNCHANGED <<plan, pending, live>>
    BY DEF Persist, Rows, CallRow
  <1>2. faults' \in 0 .. MaxFaults
    BY FaultCounted DEF Persist, Rows
  <1>3. CASE Write(g, r) /\ Ended(t, "ok") /\ grant[g].status = "PENDING"
    <2>1. r \in GrantRow /\ r.status = "ACTIVE" /\ r.pwd = call[t].pass /\ r.op = grant[g].op
          /\ r.token = grant[g].token /\ r.attempts = grant[g].attempts
          /\ r.marker = grant[g].marker
      BY <1>1 DEF GrantRow, Statuses
    <2>2. Turned(t) /\ call'[t].pc = "ok"
      BY <1>1, <1>3, EndedTurns DEF CallPcs
    <2> HIDE DEF r
    <2>3. \A q \in Procs : Unread(q)
      BY <1>1, <1>3, <2>1, WriteUnread DEF Write, CallOnly
    <2>4. Rows'
      BY <1>1, <1>2, <1>3, <2>1, <2>2, WriteChanges DEF Write, Rows, CallOnly, Turned
    <2>5. Activated(t)
      BY <1>1, <1>3, <2>1, WriteChanges DEF Write, OthersKept, Activated
    <2>6. \A u \in Tokens : (Unsettled(u)' => Unsettled(u)) /\ (Hot(u)' => Hot(u))
      BY <1>1, <2>2 DEF Unsettled, Hot, Turned
    <2>7. Settled'
      BY <1>1, <2>2 DEF Settled, Turned, UnsettledPcs
    <2> QED
      BY <1>1, <2>2, <2>3, <2>4, <2>5, <2>6, <2>7 DEF CallStep, CallOnly, UnsettledPcs
  <1>4. CASE Ended(t, "failed") /\ NoWrite
    BY <1>1, <1>2, <1>4, CallStops DEF Rows
  <1>5. CASE Ended(t, "cleanup") /\ NoWrite /\ ~Custom
    <2>1. Turned(t) /\ call'[t].pc = "cleanup"
      BY <1>1, <1>5, EndedTurns DEF CallPcs
    <2>2. Rows' /\ grant' = grant /\ \A q \in Procs : Unread(q)
      BY <1>1, <1>2, <1>5, <2>1, SameWritten DEF Rows, CallOnly, Turned
    <2>3. \A u \in Tokens : (Unsettled(u)' => Unsettled(u)) /\ (Hot(u)' => Hot(u))
      BY <1>1, <2>1 DEF Unsettled, Hot, Turned
    <2>4. Settled'
      BY <1>1, <2>1 DEF Settled, Turned, UnsettledPcs
    <2> QED
      BY <1>1, <1>5, <2>1, <2>2, <2>3, <2>4 DEF CallStep, CallOnly, UnsettledPcs
  <1> QED
    BY <1>3, <1>4, <1>5 DEF Persist, AfterLostPersist

LEMMA CleanupKind ==
    ASSUME Inv, NEW t \in Tokens, Cleanup(t)
    PROVE  CallStep(t)
  <1> USE DEF Inv, FenceInv
  <1>1. /\ call[t].pc = "cleanup" /\ call[t].grant \in Grants
        /\ Ended(t, "failed") /\ NoWrite /\ CallOnly /\ UNCHANGED <<plan, pending>>
        /\ live' \subseteq live
    BY DEF Cleanup, Rows, CallRow
  <1>2. faults' \in 0 .. MaxFaults
    BY FaultCounted DEF Cleanup, Rows
  <1>3. Turned(t) /\ call'[t].pc = "failed"
    BY <1>1, EndedTurns DEF CallPcs
  <1>4. Rows' /\ grant' = grant /\ \A q \in Procs : Unread(q)
    BY <1>1, <1>2, <1>3, SameWritten DEF Rows, CallOnly, Turned
  <1>5. \A u \in Tokens : (Unsettled(u)' => Unsettled(u)) /\ (Hot(u)' => Hot(u))
    BY <1>1, <1>3 DEF Unsettled, Hot, Turned
  <1>6. Settled'
    BY <1>1, <1>3 DEF Settled, Turned, UnsettledPcs
  <1> QED
    BY <1>1, <1>3, <1>4, <1>5, <1>6 DEF CallStep, CallOnly, UnsettledPcs

LEMMA CallsKind ==
    ASSUME Inv, NEW t \in Tokens, Calls(t)
    PROVE  CallStep(t)
  BY CallRefusedKind, SendTimedKind, PlanNewKind, PlanFoundKind, SendCustomKind,
     ProviderSettlesKind, ResumePlanKind, AnsweredKind, IncompleteAnswerKind, CallErrsKind,
     PersistKind, CleanupKind
  DEF Calls

-----------------------------------------------------------------------------
(* A claim, an execution, a tick, a reading, time.                         *)

ClaimStep ==
    /\ Rows' /\ UNCHANGED <<call, pending, live, clock, rearms>>
    /\ claims' = claims + 1 /\ claims + 1 \in Tokens
    /\ \E p \in Procs : \E g \in Grants :
         /\ OthersKept(g) /\ SiblingsClear(g)
         /\ grant[g].status = "PENDING" /\ grant'[g].status = "PENDING"
         /\ grant[g].op \in {"IDLE", "RETRYABLE"} /\ grant'[g].op = "CLAIMED"
         /\ grant'[g].token = claims + 1 /\ grant'[g].attempts = grant[g].attempts + 1
         /\ grant'[g].pwd = grant[g].pwd /\ grant'[g].marker = grant[g].marker
         /\ \A q \in Procs \ {p} : proc'[q] = proc[q]
         /\ proc[p].pc # "idle" /\ proc'[p].pc = "claimed" /\ proc'[p].now = proc[p].now
         /\ proc'[p].g = g /\ proc'[p].token = claims + 1
         /\ proc'[p].inventory = proc[p].inventory
         /\ proc'[p].prev.op = grant[g].op /\ proc'[p].prev.attempts = grant[g].attempts
    /\ \A q \in Procs : Unread(q)

LEMMA ClaimKind ==
    ASSUME Inv, NEW p \in Procs, NEW g \in Grants, Claim(p, g)
    PROVE  ClaimStep
  <1> USE DEF Inv, FenceInv
  <1> DEFINE t == claims + 1
             r == [grant[g] EXCEPT !.op = "CLAIMED", !.token = t, !.attempts = @ + 1,
                                   !.nextAt = FenceNow(p) + LeaseMs, !.exhausted = FALSE]
             prev == [op |-> grant[g].op, attempts |-> grant[g].attempts,
                      nextAt |-> grant[g].nextAt]
             state == [proc[p] EXCEPT !.pc = "claimed", !.g = g, !.token = t,
                                      !.window = reservation.window, !.prev = prev]
  <1>1. /\ grant[g] \in GrantRow /\ proc[p] \in ProcState /\ FenceNow(p) + LeaseMs \in Nat
        /\ grant[g].attempts \in 0 .. MaxAttempts /\ grant[g].attempts < MaxAttempts
        /\ reservation.window \in Windows /\ t \in Tokens
    <2>1. FenceNow(p) \in Nat
      BY DEF Rows, ProcState, FenceNow
    <2>2. FenceNow(p) + LeaseMs \in Nat
      BY <2>1, FenceAssumption DEF FenceAssumption
    <2>3. claims \in 0 .. MaxClaims /\ claims < MaxClaims
      BY DEF Claim, Rows
    <2>4. t \in Tokens
      BY <2>3, FenceAssumption DEF Tokens, FenceAssumption
    <2>5. grant[g] \in GrantRow /\ grant[g].attempts < MaxAttempts
      BY DEF Claim, BudgetLeft, Rows
    <2>6. reservation.window \in Windows
      BY DEF Rows, ReservationRow
    <2> QED
      BY <2>2, <2>4, <2>5, <2>6 DEF Rows, GrantRow
  <1>2. t \in 0 .. MaxClaims /\ claims' = t /\ t \in 0 .. MaxClaims
    BY <1>1, Positive DEF Claim
  <1>3. grant[g].attempts + 1 \in 0 .. MaxAttempts
    BY <1>1, FenceAssumption DEF FenceAssumption
  <1> HIDE DEF t
  <1>4. r \in GrantRow /\ r.op = "CLAIMED" /\ r.token = t /\ r.status = grant[g].status
        /\ r.attempts = grant[g].attempts + 1 /\ r.pwd = grant[g].pwd
        /\ r.marker = grant[g].marker
    BY <1>1, <1>2, <1>3 DEF GrantRow, FenceStates
  <1>5. prev \in Fence /\ prev.op = grant[g].op /\ prev.attempts = grant[g].attempts
    BY <1>1 DEF GrantRow, Fence
  <1>6. Write(g, r) /\ proc' = [proc EXCEPT ![p] = state]
    BY DEF Claim, t
  <1> HIDE DEF r, prev
  <1>7. state \in ProcState /\ state.pc = "claimed" /\ state.g = g /\ state.token = t
        /\ state.prev = prev /\ state.now = proc[p].now /\ state.inventory = proc[p].inventory
    BY <1>1, <1>2, <1>5 DEF ProcState
  <1> HIDE DEF state
  <1>8. proc' \in [Procs -> ProcState] /\ proc'[p] = state
        /\ \A q \in Procs \ {p} : proc'[q] = proc[q]
    BY <1>6, <1>7 DEF Rows
  <1>9. \A q \in Procs : Unread(q)
    BY <1>4, <1>6, <1>7, <1>8, WriteUnread DEF Write
  <1>10. Rows'
    BY <1>2, <1>4, <1>6, <1>8, WriteChanges DEF Claim, Rows, Write
  <1>11. OthersKept(g) /\ grant'[g] = r
    BY <1>4, <1>6, WriteChanges DEF Write, OthersKept
  <1>12. grant[g].status = "PENDING" /\ grant[g].op \in {"IDLE", "RETRYABLE"}
         /\ SiblingsClear(g) /\ proc[p].pc = "provision"
    BY DEF Claim, Target, Due
  <1>13. UNCHANGED <<call, pending, live, clock, rearms>> /\ t = claims + 1
    BY DEF Claim, t
  <1> QED
    BY <1>1, <1>2, <1>4, <1>5, <1>7, <1>8, <1>9, <1>10, <1>11, <1>12, <1>13 DEF ClaimStep

BeginStep ==
    /\ Rows' /\ UNCHANGED <<pending, live, clock, claims, rearms>>
    /\ \E p \in Procs : \E g \in Grants : \E t \in Tokens :
         /\ Claiming(p) /\ proc[p].g = g /\ proc[p].token = t
         /\ OthersKept(g)
         /\ grant[g].status = "PENDING" /\ grant'[g].status = "PENDING"
         /\ grant[g].op = "CLAIMED" /\ grant'[g].op = "EXECUTING"
         /\ grant[g].token = t /\ grant'[g].token = t
         /\ grant'[g].attempts = grant[g].attempts
         /\ grant'[g].pwd = grant[g].pwd /\ grant'[g].marker = grant[g].marker
         /\ call[t].pc = "none" /\ call'[t].pc = "begun" /\ call'[t].grant = g
         /\ call'[t].at = clock /\ call'[t].pass = NoToken
         /\ \A u \in Tokens \ {t} : call'[u] = call[u]
         /\ \A q \in Procs \ {p} : proc'[q] = proc[q]
         /\ proc'[p].pc = "waiting" /\ proc'[p].now = proc[p].now
         /\ proc'[p].token = t /\ proc'[p].inventory = proc[p].inventory
    /\ \A q \in Procs : Unread(q)

LEMMA BeginKind ==
    ASSUME Inv, NEW p \in Procs, Begin(p), MayBegin(p)
    PROVE  BeginStep
  <1> USE DEF Inv, FenceInv
  <1> DEFINE g == proc[p].g
             t == proc[p].token
             r == [grant[g] EXCEPT !.op = "EXECUTING", !.nextAt = FenceNow(p) + LeaseMs]
             begun == [NoCall EXCEPT !.pc = "begun", !.grant = g, !.owner = p, !.at = clock]
  <1>1. /\ proc[p].pc = "ready" /\ Write(g, r) /\ call' = [call EXCEPT ![t] = begun]
        /\ Goto(p, "waiting")
        /\ UNCHANGED <<clock, plan, reservation, pending, live, claims, rearms, faults>>
    BY DEF Begin
  <1>2. g \in Grants /\ grant[g] \in GrantRow /\ clock \in Nat
        /\ t \in 0 .. MaxClaims /\ t # NoToken
    BY <1>1 DEF Rows, ProcState, Given
  <1>3. t \in Tokens
    BY <1>2, FenceAssumption DEF Tokens, NoToken, FenceAssumption
  <1>4. FenceNow(p) + LeaseMs \in Nat
    <2>1. FenceNow(p) \in Nat
      BY DEF Rows, ProcState, FenceNow
    <2> QED
      BY <2>1, FenceAssumption DEF FenceAssumption
  <1>5. r \in GrantRow /\ r.op = "EXECUTING" /\ r.token = grant[g].token
        /\ r.status = grant[g].status /\ r.attempts = grant[g].attempts
        /\ r.pwd = grant[g].pwd /\ r.marker = grant[g].marker
    BY <1>2, <1>4 DEF GrantRow, FenceStates
  <1>6. begun \in CallRow /\ begun.pc = "begun" /\ begun.grant = g /\ begun.at = clock
        /\ begun.pass = NoToken
    BY <1>2, NoCallType DEF CallRow, CallPcs, UnsettledPcs
  <1> HIDE DEF r, begun
  <1>7. call' \in [Tokens -> CallRow] /\ call'[t] = begun
        /\ \A u \in Tokens \ {t} : call'[u] = call[u]
    BY <1>1, <1>3, <1>6 DEF Rows
  <1>8. proc' \in [Procs -> ProcState] /\ proc'[p].pc = "waiting"
        /\ proc'[p].now = proc[p].now /\ proc'[p].token = t
        /\ proc'[p].inventory = proc[p].inventory
        /\ \A q \in Procs \ {p} : proc'[q] = proc[q]
    BY <1>1, GotoKeeps
  <1>9. \A q \in Procs : Unread(q)
    BY <1>1, <1>2, <1>5, <1>8, WriteUnread DEF Write
  <1>10. Rows'
    BY <1>1, <1>2, <1>5, <1>7, <1>8, WriteChanges DEF Rows, Write
  <1>11. OthersKept(g) /\ grant'[g] = r
    BY <1>1, <1>2, <1>5, WriteChanges DEF Write, OthersKept
  <1>12. Claiming(p) /\ grant[g].status = "PENDING" /\ grant[g].op = "CLAIMED"
         /\ grant[g].token = t
    BY <1>1 DEF MayBegin, Holds, Claiming
  <1>13. call[t].pc = "none"
    BY <1>2, <1>12 DEF Fresh
  <1> QED
    BY <1>1, <1>2, <1>3, <1>5, <1>6, <1>7, <1>8, <1>9, <1>10, <1>11, <1>12, <1>13 DEF BeginStep

\* A process begins its tick, or reads the provider's inventory.
TickStep ==
    /\ Rows' /\ UNCHANGED <<grant, call, pending, live, clock, claims, rearms, moved>>
    /\ \E p \in Procs :
         /\ \A q \in Procs \ {p} : proc'[q] = proc[q]
         /\ proc'[p].pc = "recover" /\ proc'[p].now = clock
         /\ proc'[p].token = NoToken /\ proc'[p].inventory = {}
Raised(g) == absences'[g] >= 1 /\ (absences[g] >= 1 => absences'[g] >= 2)
ReadStep ==
    /\ Rows' /\ UNCHANGED <<grant, call, pending, live, clock, claims, rearms, moved>>
    /\ \E p \in Procs :
         /\ \A q \in Procs \ {p} : proc'[q] = proc[q]
         /\ proc[p].pc = "scanned" /\ proc'[p].pc \in {"read", "partial"}
         /\ proc'[p].now = proc[p].now /\ proc'[p].token = proc[p].token
         /\ proc'[p].g = proc[p].g /\ proc'[p].inventory = live
         /\ proc'[p].pc = "read" /\ live = {} /\ p \notin moved => Raised(proc[p].g)

LEMMA StartTickKind ==
    ASSUME Inv, NEW p \in Procs, StartTick(p)
    PROVE  TickStep
  <1> USE DEF Inv, FenceInv
  <1> DEFINE state == [Resting(clock) EXCEPT !.pc = "recover"]
  <1>1. state \in ProcState /\ state.pc = "recover" /\ state.now = clock
        /\ state.token = NoToken /\ state.inventory = {}
    <2>1. /\ Resting(clock) \in ProcState /\ Resting(clock).now = clock
          /\ Resting(clock).token = NoToken /\ Resting(clock).inventory = {}
      BY RestingType DEF Rows
    <2> QED
      BY <2>1 DEF ProcState, Phases
  <1>2. proc' = [proc EXCEPT ![p] = state]
    BY DEF StartTick
  <1> HIDE DEF state
  <1>3. proc' \in [Procs -> ProcState] /\ proc'[p] = state
        /\ \A q \in Procs \ {p} : proc'[q] = proc[q]
    BY <1>1, <1>2 DEF Rows
  <1>4. Rows'
    BY <1>3 DEF StartTick, Rows
  <1> QED
    BY <1>1, <1>3, <1>4 DEF TickStep, StartTick

LEMMA ReadInventoryKind ==
    ASSUME Inv, NEW p \in Procs, ReadInventory(p)
    PROVE  RowStep \/ ReadStep
  <1> USE DEF Inv, FenceInv
  <1>1. proc[p].pc = "scanned" /\ proc[p] \in ProcState /\ proc[p].g \in Grants
        /\ UNCHANGED <<clock, grant, plan, reservation, call, pending, live, claims, rearms>>
    BY DEF ReadInventory, Rows, ProcState
  <1>2. faults' \in 0 .. MaxFaults
    BY FaultCounted DEF ReadInventory, Rows
  <1>3. CASE \E pc \in {"read", "partial"} :
               /\ proc' = [proc EXCEPT ![p].pc = pc, ![p].inventory = live]
               /\ moved' = moved /\ absences' \in [Grants -> Nat]
               /\ pc = "read" /\ live = {} /\ p \notin moved => Raised(proc[p].g)
    <2>1. PICK pc \in {"read", "partial"} :
               /\ proc' = [proc EXCEPT ![p].pc = pc, ![p].inventory = live]
               /\ moved' = moved /\ absences' \in [Grants -> Nat]
               /\ pc = "read" /\ live = {} /\ p \notin moved => Raised(proc[p].g)
      BY <1>3
    <2>2. proc' \in [Procs -> ProcState]
          /\ proc'[p].pc = pc /\ proc'[p].inventory = live /\ proc'[p].now = proc[p].now
          /\ proc'[p].token = proc[p].token /\ proc'[p].g = proc[p].g
          /\ \A q \in Procs \ {p} : proc'[q] = proc[q]
      BY <1>1, <2>1 DEF Rows, ProcState
    <2>3. Rows'
      BY <1>1, <1>2, <2>1, <2>2 DEF Rows
    <2> QED
      BY <1>1, <2>1, <2>2, <2>3 DEF ReadStep
  <1>4. CASE Back(p, "reconcile") /\ moved' = moved \ {p} /\ UNCHANGED absences
    <2>1. /\ proc' \in [Procs -> ProcState] /\ proc'[p].pc = "reconcile"
          /\ \A q \in Procs \ {p} : proc'[q] = proc[q]
      BY <1>4, BackKeeps DEF Phases
    <2>2. Rows'
      BY <1>1, <1>2, <1>4, <2>1 DEF Rows
    <2>3. \A q \in Procs : ProcKept(q)
      BY <1>1, <1>4, BackKept DEF Phases
    <2>4. \A q \in Procs : Unread(q)
      <3>1. grant' = grant /\ \A q \in Procs \ {p} : q \notin moved' => q \notin moved
        BY <1>1, <1>4
      <3>2. \A q \in Procs : proc'[q].pc = "read" => q # p
        BY <2>1
      <3> QED
        BY <3>1, <3>2 DEF Unread
    <2> QED
      BY <1>1, <2>2, <2>3, <2>4, NoCallChange DEF RowStep, ProcsKept
  <1>5. /\ Min({2, absences[proc[p].g] + 1}) \in Nat
        /\ Min({2, absences[proc[p].g] + 1}) >= 1
        /\ absences[proc[p].g] >= 1 => Min({2, absences[proc[p].g] + 1}) >= 2
    <2>1. absences[proc[p].g] \in Nat
      BY <1>1 DEF Rows
    <2>2. Min({2, absences[proc[p].g] + 1}) \in {2, absences[proc[p].g] + 1}
      BY <2>1, LeastOfTwo
    <2> QED
      BY <2>1, <2>2
  <1>6. [absences EXCEPT ![proc[p].g] = Min({2, @ + 1})] \in [Grants -> Nat]
    BY <1>1, <1>5 DEF Rows
  <1>7. absences \in [Grants -> Nat]
    BY DEF Rows
  <1>8. CASE /\ proc' = [proc EXCEPT ![p].pc = "read", ![p].inventory = live]
             /\ absences' = IF live = {} /\ p \notin moved
                            THEN [absences EXCEPT ![proc[p].g] = Min({2, @ + 1})] ELSE absences
             /\ moved' = moved
    <2>1. absences' \in [Grants -> Nat]
      BY <1>6, <1>7, <1>8
    <2>2. live = {} /\ p \notin moved => Raised(proc[p].g)
      BY <1>1, <1>5, <1>7, <1>8 DEF Raised
    <2> QED
      BY <1>3, <1>8, <2>1, <2>2
  <1>9. CASE /\ proc' = [proc EXCEPT ![p].pc = "partial", ![p].inventory = live]
             /\ UNCHANGED <<moved, absences>>
    BY <1>3, <1>7, <1>9
  <1> QED
    BY <1>4, <1>8, <1>9 DEF ReadInventory

AdvanceStep ==
    /\ Rows' /\ clock < MaxClock /\ clock' = clock + 1
    /\ UNCHANGED <<grant, proc, call, pending, live, claims, rearms, moved>>
    /\ \A t \in Tokens : Unsettled(t) => clock < call[t].at + EffectMs
    /\ \A p \in Procs : proc[p].pc # "idle" => clock < proc[p].now + TickMs

LEMMA AdvanceKind ==
    ASSUME Inv, Advance
    PROVE  AdvanceStep
  <1> USE DEF Inv, FenceInv
  <1>1. Rows'
    BY NothingWritten DEF Advance, Rows
  <1> QED
    BY <1>1 DEF Advance, AdvanceStep, NoWrite

-----------------------------------------------------------------------------
(* A process's step keeps the invariant.                                   *)

RowChange(g) ==
    \/ grant'[g] = grant[g] \/ Barred(g) \/ Retried(g) \/ ClearedNow(g) \/ MarkedNow(g)
    \/ \E p \in Procs : Restored(g, p)

LEMMA RowChanges ==
    ASSUME Inv, RowStep, NEW g \in Grants
    PROVE  /\ RowChange(g)
           /\ grant'[g].status = grant[g].status /\ grant'[g].pwd = grant[g].pwd
           /\ grant'[g].op \in {"CLAIMED", "EXECUTING"} => grant'[g] = grant[g]
           /\ grant[g].status # "ACTIVE" /\ grant'[g].op = "IDLE"
                => grant'[g] = grant[g] \/ \E p \in Procs : Restored(g, p) /\ proc[p].prev.op = "IDLE"
  <1> USE DEF Inv, FenceInv
  <1>1. RowChange(g)
    BY DEF RowStep, RowChange, OthersKept
  <1>2. \A p \in Procs : Restored(g, p) =>
           grant'[g].op = proc[p].prev.op /\ proc[p].prev.op \in {"IDLE", "RETRYABLE"}
    BY DEF Restored, FenceKept, Found0
  <1> QED
    BY <1>1, <1>2 DEF RowChange, Barred, Retried, ClearedNow, MarkedNow, Restored

LEMMA RowCalls ==
    ASSUME Inv, RowStep, NEW t \in Tokens
    PROVE  /\ (Alive(t)' => Alive(t)) /\ (Unsettled(t)' => Unsettled(t)) /\ (Hot(t)' => Hot(t))
           /\ call'[t].pc = "none" <=> call[t].pc = "none"
           /\ call'[t].grant = call[t].grant /\ call'[t].at = call[t].at
           /\ call'[t] = call[t] \/ (call'[t].pc = "ended" /\ call'[t].pass = NoToken)
  <1>1. \/ call'[t] = call[t]
        \/ /\ call[t].pc # "none" /\ call'[t].pc = "ended" /\ call'[t].pass = NoToken
           /\ call'[t].grant = call[t].grant /\ call'[t].at = call[t].at
    BY DEF RowStep, CallsEnd
  <1>2. pending' = pending /\ live' = live
    BY DEF RowStep, CallsEnd
  <1>3. /\ call'[t].pc = "none" <=> call[t].pc = "none"
        /\ call'[t].grant = call[t].grant /\ call'[t].at = call[t].at
        /\ call'[t] = call[t] \/ (call'[t].pc = "ended" /\ call'[t].pass = NoToken)
    BY <1>1
  <1>4. (Alive(t)' => Alive(t)) /\ (Unsettled(t)' => Unsettled(t))
    BY <1>2, <1>3 DEF Alive, Unsettled, UnsettledPcs
  <1> QED
    BY <1>2, <1>3, <1>4 DEF Hot

LEMMA RowGiven == ASSUME Inv, RowStep PROVE Given'
  <1> USE DEF Inv, FenceInv
  <1>1. claims' = claims /\ claims \in Nat /\ live' = live /\ pending' = pending
    BY FenceAssumption DEF RowStep, Rows, FenceAssumption, CallsEnd
  <1>2. ASSUME NEW g \in Grants PROVE grant'[g].token <= claims /\ grant'[g].pwd <= claims
    <2>1. grant'[g].token \in {NoToken, grant[g].token} /\ grant'[g].pwd = grant[g].pwd
      BY RowChanges DEF RowChange, Barred, Retried, ClearedNow, MarkedNow, Restored
    <2> QED
      BY <1>1, <2>1, Zero DEF Given
  <1>3. ASSUME NEW p \in Procs
        PROVE  /\ proc'[p].token <= claims
               /\ proc'[p].pc \in {"claimed", "ready", "waiting"} => proc'[p].token # NoToken
               /\ \A t \in proc'[p].inventory : t <= claims
    <2>1. ProcKept(p)
      BY DEF RowStep, ProcsKept
    <2> QED
      BY <1>1, <2>1, Zero DEF ProcKept, Given
  <1>4. ASSUME NEW t \in Tokens
        PROVE  /\ call'[t].pc # "none" => t <= claims
               /\ t \in live \cup pending => call'[t].pc # "none"
               /\ call'[t].pass <= claims
               /\ call'[t].pc = "got" => call'[t].pass # NoToken
    BY <1>1, RowCalls, Zero DEF Given
  <1>5. live \cup pending \subseteq Tokens
    BY DEF Rows
  <1> QED
    BY <1>1, <1>2, <1>3, <1>4, <1>5 DEF Given

LEMMA RowFence ==
    ASSUME Inv, RowStep
    PROVE  FenceInv'
  <1> USE DEF Inv, FenceInv
  <1>1. Rows' /\ Given'
    BY RowGiven DEF RowStep
  <1>2. Leased'
    <2> SUFFICES ASSUME NEW g \in Grants
                 PROVE  (grant'[g].token # NoToken) <=> (grant'[g].op \in {"CLAIMED", "EXECUTING"})
      BY DEF Leased
    <2>1. grant'[g] = grant[g]
            \/ (grant'[g].token = NoToken /\ grant'[g].op \notin {"CLAIMED", "EXECUTING"})
            \/ MarkedNow(g)
      <3>1. \A p \in Procs : Restored(g, p) => proc[p].prev.op \in {"IDLE", "RETRYABLE"}
        BY DEF Restored, FenceKept, Found0
      <3> QED
        BY <3>1, RowChanges DEF RowChange, Barred, Retried, ClearedNow, Restored
    <2> QED
      BY <2>1 DEF MarkedNow, Leased
  <1>3. Settled'
    <2>1. live' = live /\ pending' = pending
      BY DEF RowStep, CallsEnd
    <2>2. \A t \in Tokens : call'[t].pc = call[t].pc \/ call'[t].pc = "ended"
      BY RowCalls
    <2> QED
      BY <2>1, <2>2 DEF Settled, UnsettledPcs
  <1>4. FenceKept'
    <2> SUFFICES ASSUME NEW p \in Procs, Claiming(p)'
                 PROVE  LET g == proc'[p].g IN
                        /\ proc'[p].prev.op \in {"IDLE", "RETRYABLE"}
                        /\ proc'[p].prev.attempts = grant'[g].attempts - 1
                        /\ proc'[p].prev.op = "IDLE" =>
                             \A t \in Tokens : Alive(t)' => call'[t].grant # g
      BY DEF FenceKept, Found0, Of
    <2>1. /\ proc[p].pc \in {"claimed", "ready"} /\ proc'[p].g = proc[p].g
          /\ proc'[p].token = proc[p].token /\ proc'[p].prev = proc[p].prev
          /\ proc[p].g \in Grants
      BY DEF Claiming, RowStep, ProcsKept, ProcKept, Rows, ProcState
    <2>2. grant'[proc[p].g] = grant[proc[p].g]
      BY <2>1, RowChanges DEF Claiming, Holds
    <2>3. Claiming(p)
      BY <2>1, <2>2 DEF Claiming, Holds
    <2>4. \A t \in Tokens : (Alive(t)' => Alive(t)) /\ call'[t].grant = call[t].grant
      BY RowCalls
    <2> QED
      BY <2>1, <2>2, <2>3, <2>4 DEF FenceKept, Found0, Of
  <1>5. Fresh'
    <2> SUFFICES ASSUME NEW g \in Grants, grant'[g].op = "CLAIMED"
                 PROVE  call'[grant'[g].token].pc = "none"
      BY DEF Fresh
    <2>1. grant'[g] = grant[g] /\ grant[g].op = "CLAIMED"
      BY RowChanges
    <2>2. grant[g].token \in Tokens
      <3>1. grant[g].token # NoToken
        BY <2>1 DEF Leased
      <3>2. grant[g].token \in 0 .. MaxClaims
        BY DEF Rows, GrantRow
      <3> QED
        BY <3>1, <3>2, FenceAssumption DEF Tokens, NoToken, FenceAssumption
    <2> QED
      BY <2>1, <2>2, RowCalls DEF Fresh
  <1>6. CallsFenced'
    <2> SUFFICES ASSUME NEW t \in Tokens, Alive(t)', grant'[call'[t].grant].status = "PENDING"
                 PROVE  grant'[call'[t].grant].op # "IDLE"
      BY DEF CallsFenced
    <2>1. Alive(t) /\ call'[t].grant = call[t].grant /\ call[t].grant \in Grants
      BY RowCalls DEF Rows, CallRow
    <2>2. grant[call[t].grant].status = "PENDING" /\ grant[call[t].grant].op # "IDLE"
      BY <2>1, RowChanges DEF CallsFenced
    <2>3. \A p \in Procs : Restored(call[t].grant, p) => proc[p].prev.op # "IDLE"
      BY <2>1 DEF Restored, FenceKept, Found0, Of
    <2> QED
      BY <2>1, <2>2, <2>3, RowChanges
  <1>7. ActiveHasPasscode'
    BY RowChanges DEF ActiveHasPasscode
  <1>8. FailedFenced'
    <2> SUFFICES ASSUME NEW g \in Grants, grant'[g].status = "FAILED", grant'[g].pwd = NoToken
                 PROVE  grant'[g].op # "IDLE"
      BY DEF FailedFenced
    <2>1. grant[g].status = "FAILED" /\ grant[g].op # "IDLE"
      BY RowChanges DEF FailedFenced
    <2>2. \A p \in Procs : ~Restored(g, p)
      BY <2>1 DEF Restored
    <2> QED
      BY <2>1, <2>2, RowChanges
  <1>9. OneEngaged'
    <2>1. ASSUME NEW g \in Grants, Engaged(g)' PROVE Engaged(g)
      BY <2>1, RowChanges, RowCalls DEF Engaged, Of
    <2> QED
      BY <2>1 DEF OneEngaged
  <1> QED
    BY <1>1, <1>2, <1>3, <1>4, <1>5, <1>6, <1>7, <1>8, <1>9

LEMMA CallsFinite ==
    ASSUME NEW g \in Grants
    PROVE  IsFiniteSet(CallsOf(g)) /\ Cardinality(CallsOf(g)) \in Nat
  <1>1. IsFiniteSet(Tokens)
    BY FS_Interval, FenceAssumption DEF Tokens, FenceAssumption
  <1>2. IsFiniteSet(CallsOf(g))
    BY <1>1, FS_Subset DEF CallsOf
  <1> QED
    BY <1>2, FS_CardinalityType

LEMMA RowCounted == ASSUME Inv, RowStep PROVE Counted'
  <1> USE DEF Inv, FenceInv
  <1> SUFFICES ASSUME NEW g \in Grants
               PROVE  /\ Cardinality(CallsOf(g)') <= MaxAttempts
                      /\ grant'[g].status = "PENDING" /\ grant'[g].op # "CLAIMED"
                           => Cardinality(CallsOf(g)') <= grant'[g].attempts
                      /\ grant'[g].status = "PENDING" /\ grant'[g].op = "CLAIMED"
                           => Cardinality(CallsOf(g)') < grant'[g].attempts
    BY DEF Counted
  <1>1. CallsOf(g)' = CallsOf(g)
    BY RowCalls DEF CallsOf
  <1>2. Cardinality(CallsOf(g)) \in Nat /\ grant[g].attempts \in Nat
    BY CallsFinite, FenceAssumption DEF Rows, GrantRow, FenceAssumption
  <1>3. CASE grant'[g] = grant[g]
    BY <1>1, <1>3 DEF Counted
  <1>4. CASE grant'[g].attempts = grant[g].attempts /\ grant'[g].status = grant[g].status
             /\ grant'[g].op # "CLAIMED"
    BY <1>1, <1>2, <1>4 DEF Counted
  <1>5. CASE ClearedNow(g)
    BY <1>1, <1>5 DEF Counted, ClearedNow
  <1>6. ASSUME NEW p \in Procs, Restored(g, p)
        PROVE  /\ Cardinality(CallsOf(g)') <= MaxAttempts
               /\ grant'[g].status = "PENDING" => Cardinality(CallsOf(g)') <= grant'[g].attempts
               /\ grant'[g].op # "CLAIMED"
    <2>1. grant[g].op = "CLAIMED" /\ grant[g].status = "PENDING" /\ grant'[g].op # "CLAIMED"
          /\ grant'[g].attempts = grant[g].attempts - 1
      BY <1>6 DEF Restored, Claiming, Holds, FenceKept, Found0
    <2> QED
      BY <1>1, <1>2, <2>1 DEF Counted
  <1>7. RowChange(g) => \/ grant'[g] = grant[g]
                        \/ /\ grant'[g].attempts = grant[g].attempts
                           /\ grant'[g].status = grant[g].status /\ grant'[g].op # "CLAIMED"
                        \/ ClearedNow(g)
                        \/ \E p \in Procs : Restored(g, p)
    BY DEF RowChange, Barred, Retried, MarkedNow
  <1> QED
    BY <1>3, <1>4, <1>5, <1>6, <1>7, RowChanges

LEMMA RowUndeleted == ASSUME Inv, RowStep PROVE Undeleted'
  <1> USE DEF Inv, FenceInv
  <1> SUFFICES ASSUME Custom PROVE Standing'
    BY DEF Undeleted
  <1>1. Standing /\ live' = live
    BY DEF Undeleted, RowStep, CallsEnd
  <1>2. \A t \in Tokens : call'[t].pc # "cleanup" /\ (call'[t].pc = "got" => call'[t].pass \in live)
    BY <1>1, RowCalls DEF Standing
  <1>3. \A p \in Procs : proc'[p].inventory \subseteq live
    BY <1>1 DEF Standing, RowStep, ProcsKept, ProcKept
  <1>4. \A g \in Grants : grant'[g].status = "ACTIVE" => grant'[g].pwd \in live
    BY <1>1, RowChanges DEF Standing
  <1> QED
    BY <1>1, <1>2, <1>3, <1>4 DEF Standing

LEMMA RowTimely == ASSUME Inv, RowStep PROVE Timely'
  <1> USE DEF Inv, FenceInv
  <1>1. clock' = clock
    BY DEF RowStep
  <1>2. ASSUME NEW p \in Procs, proc'[p].pc # "idle"
        PROVE  proc'[p].now <= clock /\ clock <= proc'[p].now + TickMs
    BY <1>2 DEF RowStep, ProcsKept, ProcKept, Timely
  <1>3. ASSUME NEW t \in Tokens
        PROVE  /\ call'[t].pc # "none" => call'[t].at <= clock
               /\ Unsettled(t)' => clock <= call'[t].at + EffectMs
    BY RowCalls DEF Timely
  <1> QED
    BY <1>1, <1>2, <1>3 DEF Timely

LEMMA RowMarkers == ASSUME Inv, RowStep PROVE MarkersCover'
  <1> USE DEF Inv, FenceInv
  <1> SUFFICES ASSUME NEW g \in Grants, rearms'[g] = 0
               PROVE  /\ RearmEnabled => grant'[g].marker.count <= 1
                      /\ grant'[g].status = "PENDING" /\ grant'[g].marker.state # "none" =>
                           /\ grant'[g].op = "AMBIGUOUS"
                           /\ \A t \in Tokens : call'[t].pc # "none" /\ call'[t].grant = g
                                                  => call'[t].at <= grant'[g].marker.at + TickMs
    BY DEF MarkersCover, Marked0, Of
  <1>1. rearms[g] = 0
    BY DEF RowStep
  <1>2. \A t \in Tokens : /\ (call'[t].pc = "none" <=> call[t].pc = "none")
                          /\ call'[t].grant = call[t].grant /\ call'[t].at = call[t].at
    BY RowCalls
  <1>3. CASE grant'[g].marker = grant[g].marker
             /\ (grant'[g].op = grant[g].op \/ grant[g].op # "AMBIGUOUS"
                   \/ grant'[g].op = "AMBIGUOUS" \/ grant[g].status # "PENDING")
    BY <1>1, <1>2, <1>3, RowChanges DEF MarkersCover, Marked0, Of
  <1>4. CASE MarkedNow(g)
    <2>1. PICK p \in Procs : proc[p].pc # "idle" /\ grant'[g].marker.at = proc[p].now
      BY <1>4 DEF MarkedNow
    <2>2. clock \in Nat /\ clock <= grant'[g].marker.at + TickMs /\ grant'[g].marker.at \in Nat
      BY <2>1 DEF Timely, Rows, ProcState
    <2>3. \A t \in Tokens : call'[t].at \in Nat /\ (call'[t].pc # "none" => call'[t].at <= clock)
      BY <1>2 DEF Timely, Rows, CallRow
    <2>4. \A t \in Tokens : call'[t].pc # "none" => call'[t].at <= grant'[g].marker.at + TickMs
      BY <2>2, <2>3, FenceAssumption DEF FenceAssumption
    <2> QED
      BY <1>4, <2>4 DEF MarkedNow
  <1>5. grant'[g] = grant[g] \/ MarkedNow(g)
          \/ (grant'[g].marker = grant[g].marker
                /\ (grant'[g].op = "AMBIGUOUS" \/ grant[g].op # "AMBIGUOUS"
                      \/ grant[g].status # "PENDING"))
    BY RowChanges DEF RowChange, Barred, Retried, ClearedNow, Restored, Claiming, Holds
  <1> QED
    BY <1>3, <1>4, <1>5

LEMMA RowAbsence == ASSUME Inv, RowStep PROVE AbsenceFinal'
  <1> USE DEF Inv, FenceInv
  <1> SUFFICES ASSUME NEW p \in Procs, Conclusive(p)', NEW t \in Tokens,
                      call'[t].grant = proc'[p].g
               PROVE  ~Hot(t)'
    BY DEF AbsenceFinal, Of
  <1>1. proc'[p] = proc[p] /\ p \notin moved /\ grant'[proc[p].g] = grant[proc[p].g]
    BY DEF Conclusive, RowStep, ProcsKept, ProcKept, Unread
  <1>2. rearms' = rearms
    BY DEF RowStep
  <1>3. Conclusive(p)
    BY <1>1, <1>2 DEF Conclusive
  <1> QED
    BY <1>1, <1>3, RowCalls DEF AbsenceFinal, Of

LEMMA RowHot == ASSUME Inv, RowStep PROVE OneHot'
  <1> USE DEF Inv, FenceInv
  <1> SUFFICES ASSUME Sheltered' PROVE HotFenced'
    BY DEF OneHot
  <1>1. HotFenced
    BY RowChanges DEF OneHot, Sheltered, Overwritten, RowStep
  <1>2. \A t \in Tokens : (Hot(t)' => Hot(t)) /\ call'[t].grant = call[t].grant
    BY RowCalls
  <1>3. \A g \in Grants : grant'[g].op \in {"CLAIMED", "EXECUTING"} => grant'[g] = grant[g]
    BY RowChanges
  <1>4. ASSUME NEW g \in Grants, NEW t \in Tokens, grant'[g].status = "PENDING",
               grant'[g].op \in {"IDLE", "RETRYABLE"}, Hot(t)
        PROVE  call[t].grant # g
    <2>1. CASE grant'[g] = grant[g]
      BY <1>1, <1>4, <2>1 DEF HotFenced, Of
    <2>2. CASE grant[g].op = "CLAIMED"
      BY <1>1, <1>4, <2>2 DEF HotFenced
    <2>3. CASE Retried(g) /\ grant[g].op = "EXECUTING"
      <3>1. t = grant[g].token /\ call[t].pc = "retry"
        BY <1>1, <1>4, <2>3 DEF HotFenced, Retried
      <3>2. ~Hot(t)
        BY <3>1 DEF Hot, Unsettled, Settled, UnsettledPcs
      <3> QED
        BY <1>4, <3>2
    <2> QED
      BY <1>4, <2>1, <2>2, <2>3, RowChanges
      DEF RowChange, Barred, Retried, ClearedNow, MarkedNow, Restored, Claiming, Holds
  <1> QED
    BY <1>1, <1>2, <1>3, <1>4 DEF HotFenced, Of

LEMMA RowStepKeeps == ASSUME Inv, RowStep PROVE Inv'
  BY RowFence, RowCounted, RowUndeleted, RowTimely, RowMarkers, RowAbsence, RowHot
  DEF Inv, RowStep, RearmCounted

-----------------------------------------------------------------------------
(* A tick's start, a reading and time keep the invariant.                  *)

\* What depends on the grants and their calls alone.
LEMMA GrantsKept ==
    ASSUME Inv, UNCHANGED <<grant, call, pending, live, claims, rearms>>
    PROVE  /\ Leased' /\ Settled' /\ Fresh' /\ CallsFenced' /\ ActiveHasPasscode'
           /\ FailedFenced' /\ OneEngaged' /\ Counted' /\ MarkersCover' /\ RearmCounted'
           /\ OneHot'
  <1> USE DEF Inv, FenceInv
  <1>1. Leased' /\ Settled' /\ Fresh' /\ ActiveHasPasscode' /\ FailedFenced'
    BY DEF Leased, Settled, Fresh, ActiveHasPasscode, FailedFenced
  <1>2. CallsFenced' /\ OneEngaged'
    BY DEF CallsFenced, OneEngaged, Engaged, Alive, Of
  <1>3. Counted'
    BY DEF Counted, CallsOf
  <1>4. MarkersCover' /\ RearmCounted'
    BY DEF MarkersCover, Marked0, RearmCounted, Of
  <1>5. OneHot'
    BY DEF OneHot, Sheltered, Overwritten, HotFenced, Hot, Unsettled, Of
  <1> QED
    BY <1>1, <1>2, <1>3, <1>4, <1>5

\* A process that neither claims nor has read leaves the claims and the readings alone.
LEMMA OthersClaims ==
    ASSUME Inv, UNCHANGED <<grant, call>>, NEW p \in Procs,
           \A q \in Procs \ {p} : proc'[q] = proc[q], proc'[p].pc \notin {"claimed", "ready"}
    PROVE  FenceKept'
  <1> USE DEF Inv, FenceInv
  <1>1. ASSUME NEW q \in Procs, Claiming(q)'
        PROVE  q # p /\ proc'[q] = proc[q] /\ Claiming(q)
    BY <1>1 DEF Claiming, Holds
  <1> QED
    BY <1>1 DEF FenceKept, Found0, Alive, Of

LEMMA TickStepKeeps == ASSUME Inv, TickStep PROVE Inv'
  <1> USE DEF Inv, FenceInv
  <1>1. PICK p \in Procs :
             /\ \A q \in Procs \ {p} : proc'[q] = proc[q]
             /\ proc'[p].pc = "recover" /\ proc'[p].now = clock
             /\ proc'[p].token = NoToken /\ proc'[p].inventory = {}
    BY DEF TickStep
  <1>2. Rows' /\ UNCHANGED <<grant, call, pending, live, clock, claims, rearms, moved>>
    BY DEF TickStep
  <1>3. Given'
    <2>1. ASSUME NEW q \in Procs
          PROVE  /\ proc'[q].token <= claims
                 /\ proc'[q].pc \in {"claimed", "ready", "waiting"} => proc'[q].token # NoToken
                 /\ \A t \in proc'[q].inventory : t <= claims
      <3>1. CASE q = p
        <4>1. NoToken <= claims
          BY Zero DEF Rows
        <4> QED
          BY <1>1, <3>1, <4>1
      <3>2. CASE q # p
        BY <1>1, <3>2 DEF Given
      <3> QED
        BY <3>1, <3>2
    <2>2. /\ grant' = grant /\ call' = call /\ pending' = pending /\ live' = live
          /\ claims' = claims
      BY <1>2
    <2> QED
      BY <2>1, <2>2 DEF Given
  <1>4. FenceKept'
    BY <1>1, <1>2, OthersClaims
  <1>5. Undeleted'
    BY <1>1, <1>2 DEF Undeleted, Standing
  <1>6. Timely'
    <2>1. clock <= clock + TickMs /\ clock <= clock
      BY FenceAssumption DEF Rows, FenceAssumption
    <2> QED
      BY <1>1, <1>2, <2>1 DEF Timely, Unsettled
  <1>7. AbsenceFinal'
    <2> SUFFICES ASSUME NEW q \in Procs, Conclusive(q)', NEW t \in Tokens,
                        call'[t].grant = proc'[q].g
                 PROVE  ~Hot(t)'
      BY DEF AbsenceFinal, Of
    <2>1. proc'[q] = proc[q]
      BY <1>1 DEF Conclusive
    <2>2. Conclusive(q)
      BY <1>2, <2>1 DEF Conclusive
    <2> QED
      BY <1>2, <2>1, <2>2 DEF AbsenceFinal, Of, Hot, Unsettled
  <1> QED
    BY <1>2, <1>3, <1>4, <1>5, <1>6, <1>7, GrantsKept

LEMMA AdvanceStepKeeps == ASSUME Inv, AdvanceStep PROVE Inv'
  <1> USE DEF Inv, FenceInv
  <1>1. Rows' /\ clock' = clock + 1 /\ clock \in Nat
        /\ UNCHANGED <<grant, proc, call, pending, live, claims, rearms, moved>>
    BY DEF AdvanceStep, Rows
  <1>2. Given'
    BY <1>1 DEF Given
  <1>3. FenceKept'
    BY <1>1 DEF FenceKept, Found0, Claiming, Holds, Alive, Of
  <1>4. Undeleted'
    BY <1>1 DEF Undeleted, Standing
  <1>5. Timely'
    <2>1. ASSUME NEW p \in Procs, proc[p].pc # "idle"
          PROVE  proc[p].now <= clock + 1 /\ clock + 1 <= proc[p].now + TickMs
      <3>1. clock < proc[p].now + TickMs /\ proc[p].now <= clock /\ proc[p].now \in Nat
        BY <2>1 DEF AdvanceStep, Timely, Rows, ProcState
      <3> QED
        BY <1>1, <3>1, FenceAssumption DEF FenceAssumption
    <2>2. ASSUME NEW t \in Tokens, call[t].pc # "none"
          PROVE  call[t].at <= clock + 1
      <3>1. call[t].at <= clock /\ call[t].at \in Nat
        BY <2>2 DEF Timely, Rows, CallRow
      <3> QED
        BY <1>1, <3>1
    <2>3. ASSUME NEW t \in Tokens, Unsettled(t)
          PROVE  clock + 1 <= call[t].at + EffectMs
      <3>1. clock < call[t].at + EffectMs /\ call[t].at \in Nat
        BY <2>3 DEF AdvanceStep, Rows, CallRow
      <3> QED
        BY <1>1, <3>1, FenceAssumption DEF FenceAssumption
    <2> QED
      BY <1>1, <2>1, <2>2, <2>3 DEF Timely, Unsettled
  <1>6. AbsenceFinal'
    BY <1>1 DEF AbsenceFinal, Conclusive, Hot, Unsettled, Of
  <1> QED
    BY <1>1, <1>2, <1>3, <1>4, <1>5, <1>6, GrantsKept

\* A reading later than the effect of every call of its grant finds what is final.
LEMMA ReadStepKeeps == ASSUME Inv, ReadStep PROVE Inv'
  <1> USE DEF Inv, FenceInv
  <1>1. PICK p \in Procs :
             /\ \A q \in Procs \ {p} : proc'[q] = proc[q]
             /\ proc[p].pc = "scanned" /\ proc'[p].pc \in {"read", "partial"}
             /\ proc'[p].now = proc[p].now /\ proc'[p].token = proc[p].token
             /\ proc'[p].g = proc[p].g /\ proc'[p].inventory = live
    BY DEF ReadStep
  <1>2. Rows' /\ UNCHANGED <<grant, call, pending, live, clock, claims, rearms, moved>>
    BY DEF ReadStep
  <1>3. Given'
    <2>1. \A t \in live : t <= claims
      BY DEF Given, Rows
    <2> QED
      BY <1>1, <1>2, <2>1, Zero DEF Given, Rows
  <1>4. FenceKept'
    BY <1>1, <1>2, OthersClaims
  <1>5. Undeleted'
    BY <1>1, <1>2 DEF Undeleted, Standing
  <1>6. Timely'
    BY <1>1, <1>2 DEF Timely, Unsettled
  <1>7. AbsenceFinal'
    <2> SUFFICES ASSUME NEW q \in Procs, Conclusive(q)', NEW t \in Tokens,
                        call'[t].grant = proc'[q].g
                 PROVE  ~Hot(t)'
      BY DEF AbsenceFinal, Of
    <2>1. CASE q # p
      <3>1. proc'[q] = proc[q]
        BY <1>1, <2>1
      <3>2. Conclusive(q)
        BY <1>2, <3>1 DEF Conclusive
      <3> QED
        BY <1>2, <3>1, <3>2 DEF AbsenceFinal, Of, Hot, Unsettled
    <2>2. CASE q = p
      <3> DEFINE g == proc[p].g
      <3>1. /\ live = {} /\ g \in Grants /\ grant[g].status = "PENDING" /\ rearms[g] = 0
            /\ grant[g].marker.state # "none" /\ Outlasts
            /\ proc[p].now - grant[g].marker.at >= AbsenceMinMs
        BY <1>1, <1>2, <2>2 DEF Conclusive, Rows, ProcState
      <3>2. CASE call[t].pc = "none"
        BY <1>2, <3>1, <3>2 DEF Hot, Unsettled, Given, UnsettledPcs
      <3>3. CASE call[t].pc # "none"
        <4>1. call[t].grant = g
          BY <1>1, <1>2, <2>2
        <4>2. call[t].at <= grant[g].marker.at + TickMs
          BY <3>1, <3>3, <4>1 DEF MarkersCover, Marked0, Of
        <4>3. proc[p].now <= clock
          BY <1>1 DEF Timely
        <4>4. call[t].at \in Nat /\ grant[g].marker.at \in Nat /\ proc[p].now \in Nat
              /\ clock \in Nat
          BY <3>1 DEF Rows, CallRow, GrantRow, Marker, ProcState
        <4>5. ~(clock <= call[t].at + EffectMs)
          BY <3>1, <4>2, <4>3, <4>4, FenceAssumption DEF Outlasts, FenceAssumption
        <4>6. ~Unsettled(t)
          BY <4>5 DEF Timely
        <4> QED
          BY <1>2, <3>1, <4>6 DEF Hot, Unsettled
      <3> QED
        BY <3>2, <3>3
    <2> QED
      BY <2>1, <2>2
  <1> QED
    BY <1>2, <1>3, <1>4, <1>5, <1>6, <1>7, GrantsKept

-----------------------------------------------------------------------------
(* Reconciliation keeps the invariant.                                     *)

\* A grant whose siblings are clear is the only one that can be engaged.
LEMMA SiblingsUnengaged ==
    ASSUME Inv, NEW g \in Grants, SiblingsClear(g), NEW h \in Grants \ {g}
    PROVE  ~Engaged(h) /\ grant[h].op = "IDLE" /\ grant[h].status # "ACTIVE"
  <1> USE DEF Inv, FenceInv
  <1>1. grant[h].op = "IDLE" /\ grant[h].status # "ACTIVE"
    BY DEF SiblingsClear, Blocking
  <1>2. \A t \in Tokens : Alive(t) /\ Of(t, h) => grant[h].status # "PENDING"
    BY <1>1 DEF CallsFenced, Of
  <1> QED
    BY <1>1, <1>2 DEF Engaged

\* While the calls stay as they are.
LEMMA CallsKept ==
    ASSUME Inv, ProcsKept, Rows', UNCHANGED <<call, pending, live, clock>>
    PROVE  Settled' /\ Timely'
  <1> USE DEF Inv, FenceInv
  <1>1. Settled'
    BY DEF Settled
  <1>2. Timely'
    BY DEF Timely, Unsettled, ProcsKept, ProcKept
  <1> QED
    BY <1>1, <1>2

LEMMA AdoptStepKeeps == ASSUME Inv, AdoptStep PROVE Inv'
  <1> USE DEF Inv, FenceInv
  <1>1. Rows' /\ ProcsKept /\ UNCHANGED <<call, pending, live, clock, claims, rearms>>
    BY DEF AdoptStep
  <1>2. PICK p \in Procs, g \in Grants :
             /\ OthersKept(g) /\ grant[g].op = "AMBIGUOUS" /\ SiblingsClear(g)
             /\ grant'[g].status = "ACTIVE" /\ grant'[g].op = "IDLE" /\ grant'[g].token = NoToken
             /\ grant'[g].marker.count = 0
             /\ \/ grant[g].status = "ACTIVE" /\ grant'[g].pwd = grant[g].pwd
                \/ grant[g].status = "PENDING" /\ grant'[g].pwd \in proc[p].inventory
    BY DEF AdoptStep
  <1>3. \A h \in Grants \ {g} : grant'[h] = grant[h]
    BY <1>2 DEF OthersKept
  <1>4. Given'
    <2>1. proc[p].inventory \subseteq Tokens
      BY DEF Rows, ProcState
    <2>2. claims \in Nat /\ \A h \in Grants : grant'[h].token <= claims /\ grant'[h].pwd <= claims
      BY <1>2, <1>3, <2>1, Zero DEF Given, Rows
    <2>3. \A q \in Procs :
             /\ proc'[q].token <= claims
             /\ proc'[q].pc \in {"claimed", "ready", "waiting"} => proc'[q].token # NoToken
             /\ \A t \in proc'[q].inventory : t <= claims
      BY <1>1, <2>2, Zero DEF Given, ProcsKept, ProcKept
    <2> QED
      BY <1>1, <2>2, <2>3 DEF Given
  <1>5. Leased'
    BY <1>2, <1>3 DEF Leased
  <1>6. Settled' /\ Timely'
    BY <1>1, CallsKept
  <1>7. FenceKept'
    <2> SUFFICES ASSUME NEW q \in Procs, Claiming(q)' PROVE Found0(q)'
      BY DEF FenceKept, Found0
    <2>1. /\ proc[q].pc \in {"claimed", "ready"} /\ proc'[q].g = proc[q].g
          /\ proc'[q].token = proc[q].token /\ proc'[q].prev = proc[q].prev
          /\ proc[q].g \in Grants
      BY <1>1 DEF Claiming, ProcsKept, ProcKept, Rows, ProcState
    <2>2. grant'[proc[q].g] = grant[proc[q].g]
      BY <1>2, <1>3, <2>1 DEF Claiming, Holds
    <2>3. Claiming(q)
      BY <2>1, <2>2 DEF Claiming, Holds
    <2> QED
      BY <1>1, <2>1, <2>2, <2>3 DEF FenceKept, Found0, Of, Alive
  <1>8. Fresh' /\ CallsFenced' /\ FailedFenced'
    <2>1. Fresh'
      BY <1>1, <1>2, <1>3 DEF Fresh
    <2>2. CallsFenced'
      BY <1>1, <1>2, <1>3 DEF CallsFenced, Alive, Rows, CallRow
    <2>3. FailedFenced'
      BY <1>2, <1>3 DEF FailedFenced
    <2> QED
      BY <2>1, <2>2, <2>3
  <1>9. ActiveHasPasscode'
    <2>1. proc[p].inventory \subseteq Tokens
      BY DEF Rows, ProcState
    <2> QED
      BY <1>2, <1>3, <2>1, Positive DEF ActiveHasPasscode
  <1>10. OneEngaged'
    <2>1. ASSUME NEW h \in Grants \ {g} PROVE ~Engaged(h)'
      <3>1. ~Engaged(h)
        BY <1>2, SiblingsUnengaged
      <3> QED
        BY <1>1, <1>3, <3>1 DEF Engaged, Of, Alive
    <2> QED
      BY <2>1 DEF OneEngaged
  <1>11. Counted'
    BY <1>1, <1>2, <1>3 DEF Counted, CallsOf
  <1>12. Undeleted'
    <2> SUFFICES ASSUME Custom PROVE Standing'
      BY DEF Undeleted
    <2>1. Standing
      BY DEF Undeleted
    <2>2. \A h \in Grants : grant'[h].status = "ACTIVE" => grant'[h].pwd \in live
      BY <1>2, <1>3, <2>1 DEF Standing
    <2>3. \A q \in Procs : proc'[q].inventory \subseteq live
      BY <1>1, <2>1 DEF Standing, ProcsKept, ProcKept
    <2> QED
      BY <1>1, <2>1, <2>2, <2>3 DEF Standing
  <1>13. MarkersCover' /\ RearmCounted'
    <2>1. ASSUME NEW h \in Grants PROVE Marked0(h)'
      BY <1>1, <1>2, <1>3 DEF MarkersCover, Marked0, Of
    <2> QED
      BY <1>1, <2>1 DEF MarkersCover, RearmCounted
  <1>14. AbsenceFinal'
    <2> SUFFICES ASSUME NEW q \in Procs, Conclusive(q)', NEW t \in Tokens,
                        call'[t].grant = proc'[q].g
                 PROVE  ~Hot(t)'
      BY DEF AbsenceFinal, Of
    <2>1. proc'[q] = proc[q] /\ q \notin moved /\ grant'[proc[q].g] = grant[proc[q].g]
      BY <1>1 DEF Conclusive, ProcsKept, ProcKept, Unread
    <2>2. Conclusive(q)
      BY <1>1, <2>1 DEF Conclusive
    <2> QED
      BY <1>1, <2>1, <2>2 DEF AbsenceFinal, Of, Hot, Unsettled
  <1>15. OneHot'
    <2> SUFFICES ASSUME Sheltered' PROVE HotFenced'
      BY DEF OneHot
    <2>1. HotFenced
      BY <1>1, <1>2, <1>3 DEF OneHot, Sheltered, Overwritten
    <2>2. \A t \in Tokens : Hot(t)' <=> Hot(t)
      BY <1>1 DEF Hot, Unsettled
    <2> QED
      BY <1>1, <1>2, <1>3, <2>1, <2>2 DEF HotFenced, Of
  <1> QED
    BY <1>1, <1>4, <1>5, <1>6, <1>7, <1>8, <1>9, <1>10, <1>11, <1>12, <1>13, <1>14, <1>15

LEMMA RearmStepKeeps == ASSUME Inv, RearmStep PROVE Inv'
  <1> USE DEF Inv, FenceInv
  <1>1. Rows' /\ ProcsKept /\ UNCHANGED <<call, pending, live, clock, claims>>
    BY DEF RearmStep
  <1>2. PICK p \in Procs, g \in Grants :
             /\ OthersKept(g) /\ RearmEnabled
             /\ grant[g].status = "PENDING" /\ grant'[g].status = "PENDING"
             /\ grant[g].op = "AMBIGUOUS" /\ grant'[g].op = "RETRYABLE"
             /\ grant'[g].token = grant[g].token /\ grant'[g].attempts = grant[g].attempts
             /\ grant'[g].pwd = grant[g].pwd
             /\ rearms' = [rearms EXCEPT ![g] = @ + 1]
             /\ proc[p].g = g
             /\ rearms[g] = 0 /\ Outlasts => Conclusive(p)
    BY DEF RearmStep
  <1>3. \A h \in Grants \ {g} : grant'[h] = grant[h] /\ rearms'[h] = rearms[h]
    BY <1>2 DEF OthersKept, Rows
  <1>4. rearms[g] \in Nat /\ rearms'[g] = rearms[g] + 1
    BY <1>2 DEF Rows
  <1>5. Given'
    <2>1. \A q \in Procs :
             /\ proc'[q].token <= claims
             /\ proc'[q].pc \in {"claimed", "ready", "waiting"} => proc'[q].token # NoToken
             /\ \A t \in proc'[q].inventory : t <= claims
      BY <1>1, Zero DEF Given, ProcsKept, ProcKept, Rows
    <2>2. \A h \in Grants : grant'[h].token <= claims /\ grant'[h].pwd <= claims
      BY <1>2, <1>3 DEF Given
    <2> QED
      BY <1>1, <2>1, <2>2 DEF Given
  <1>6. Leased'
    BY <1>2, <1>3 DEF Leased
  <1>7. Settled' /\ Timely'
    BY <1>1, CallsKept
  <1>8. FenceKept'
    <2> SUFFICES ASSUME NEW q \in Procs, Claiming(q)' PROVE Found0(q)'
      BY DEF FenceKept, Found0
    <2>1. /\ proc[q].pc \in {"claimed", "ready"} /\ proc'[q].g = proc[q].g
          /\ proc'[q].token = proc[q].token /\ proc'[q].prev = proc[q].prev
          /\ proc[q].g \in Grants
      BY <1>1 DEF Claiming, ProcsKept, ProcKept, Rows, ProcState
    <2>2. grant'[proc[q].g] = grant[proc[q].g]
      BY <1>2, <1>3, <2>1 DEF Claiming, Holds
    <2>3. Claiming(q)
      BY <2>1, <2>2 DEF Claiming, Holds
    <2> QED
      BY <1>1, <2>1, <2>2, <2>3 DEF FenceKept, Found0, Of, Alive
  <1>9. Fresh' /\ CallsFenced' /\ FailedFenced' /\ ActiveHasPasscode'
    <2>1. Fresh'
      BY <1>1, <1>2, <1>3 DEF Fresh
    <2>2. CallsFenced'
      BY <1>1, <1>2, <1>3 DEF CallsFenced, Alive, Rows, CallRow
    <2>3. FailedFenced' /\ ActiveHasPasscode'
      BY <1>2, <1>3 DEF FailedFenced, ActiveHasPasscode
    <2> QED
      BY <2>1, <2>2, <2>3
  <1>10. OneEngaged'
    <2>1. ASSUME NEW h \in Grants, Engaged(h)' PROVE Engaged(h)
      BY <1>1, <1>2, <1>3, <2>1 DEF Engaged, Of, Alive
    <2> QED
      BY <2>1 DEF OneEngaged
  <1>11. Counted'
    BY <1>1, <1>2, <1>3 DEF Counted, CallsOf
  <1>12. Undeleted'
    BY <1>1, <1>2, <1>3 DEF Undeleted, Standing, ProcsKept, ProcKept
  <1>13. MarkersCover' /\ RearmCounted'
    <2>1. ASSUME NEW h \in Grants PROVE Marked0(h)'
      BY <1>1, <1>3, <1>4 DEF MarkersCover, Marked0, Of
    <2> QED
      BY <1>2, <2>1 DEF MarkersCover, RearmCounted
  <1>14. AbsenceFinal'
    <2> SUFFICES ASSUME NEW q \in Procs, Conclusive(q)', NEW t \in Tokens,
                        call'[t].grant = proc'[q].g
                 PROVE  ~Hot(t)'
      BY DEF AbsenceFinal, Of
    <2>1. proc'[q] = proc[q] /\ q \notin moved /\ grant'[proc[q].g] = grant[proc[q].g]
          /\ proc[q].g \in Grants
      BY <1>1 DEF Conclusive, ProcsKept, ProcKept, Unread, Rows, ProcState
    <2>2. rearms[proc[q].g] = 0
      BY <1>3, <1>4, <2>1 DEF Conclusive
    <2>3. Conclusive(q)
      BY <1>1, <2>1, <2>2 DEF Conclusive
    <2> QED
      BY <1>1, <2>1, <2>3 DEF AbsenceFinal, Of, Hot, Unsettled
  <1>15. OneHot'
    <2> SUFFICES ASSUME Sheltered' PROVE HotFenced'
      BY DEF OneHot
    <2>1. rearms[g] = 0 /\ Outlasts
      BY <1>4 DEF Sheltered
    <2>2. HotFenced
      BY <1>2, <1>3, <2>1 DEF OneHot, Sheltered, Overwritten
    <2>3. \A t \in Tokens : Hot(t)' <=> Hot(t)
      BY <1>1 DEF Hot, Unsettled
    <2>4. \A t \in Tokens : Of(t, g) => ~Hot(t)
      BY <1>2, <2>1 DEF AbsenceFinal
    <2> QED
      BY <1>1, <1>2, <1>3, <2>2, <2>3, <2>4 DEF HotFenced, Of
  <1> QED
    BY <1>1, <1>5, <1>6, <1>7, <1>8, <1>9, <1>10, <1>11, <1>12, <1>13, <1>14, <1>15

-----------------------------------------------------------------------------
(* A claim keeps the invariant.                                            *)

LEMMA TokenGiven ==
    ASSUME Inv, NEW g \in Grants, grant[g].op \in {"CLAIMED", "EXECUTING"}
    PROVE  grant[g].token \in Tokens
  <1> USE DEF Inv, FenceInv
  <1> QED
    BY FenceAssumption DEF Leased, Rows, GrantRow, Tokens, NoToken, FenceAssumption

\* No call can have left a passcode behind when a claim finds its siblings clear.
LEMMA NothingHot ==
    ASSUME Inv, Sheltered, NEW g \in Grants, SiblingsClear(g), grant[g].status = "PENDING",
           grant[g].op \in {"IDLE", "RETRYABLE"}, NEW t \in Tokens
    PROVE  ~Hot(t)
  <1> USE DEF Inv, FenceInv
  <1> DEFINE h == call[t].grant
  <1>1. HotFenced /\ h \in Grants
    BY DEF OneHot, Rows, CallRow
  <1>2. CASE h = g
    BY <1>1, <1>2 DEF HotFenced, Of
  <1>3. CASE h # g
    <2>1. grant[h].op = "IDLE" /\ grant[h].status # "ACTIVE"
      BY <1>1, <1>3, SiblingsUnengaged
    <2>2. grant[h].status # "FAILED"
      BY <1>1, <2>1 DEF FailedFenced, Sheltered, Overwritten
    <2>3. grant[h].status = "PENDING"
      BY <1>1, <2>1, <2>2 DEF Rows, GrantRow, Statuses
    <2> QED
      BY <1>1, <2>1, <2>3 DEF HotFenced, Of
  <1> QED
    BY <1>2, <1>3

LEMMA ClaimStepKeeps == ASSUME Inv, ClaimStep PROVE Inv'
  <1> USE DEF Inv, FenceInv
  <1>1. Rows' /\ UNCHANGED <<call, pending, live, clock, rearms>>
        /\ claims' = claims + 1 /\ claims + 1 \in Tokens /\ claims \in Nat
        /\ \A q \in Procs : Unread(q)
    BY FenceAssumption DEF ClaimStep, Rows, FenceAssumption
  <1>2. PICK p \in Procs, g \in Grants :
             /\ OthersKept(g) /\ SiblingsClear(g)
             /\ grant[g].status = "PENDING" /\ grant'[g].status = "PENDING"
             /\ grant[g].op \in {"IDLE", "RETRYABLE"} /\ grant'[g].op = "CLAIMED"
             /\ grant'[g].token = claims + 1 /\ grant'[g].attempts = grant[g].attempts + 1
             /\ grant'[g].pwd = grant[g].pwd /\ grant'[g].marker = grant[g].marker
             /\ \A q \in Procs \ {p} : proc'[q] = proc[q]
             /\ proc[p].pc # "idle" /\ proc'[p].pc = "claimed" /\ proc'[p].now = proc[p].now
             /\ proc'[p].g = g /\ proc'[p].token = claims + 1
             /\ proc'[p].inventory = proc[p].inventory
             /\ proc'[p].prev.op = grant[g].op /\ proc'[p].prev.attempts = grant[g].attempts
    BY DEF ClaimStep
  <1>3. \A h \in Grants \ {g} : grant'[h] = grant[h]
    BY <1>2 DEF OthersKept
  <1>4. \A n \in Int : n <= claims => n <= claims + 1
    BY <1>1
  <1>5. Given'
    <2>1. \A h \in Grants : grant'[h].token <= claims + 1 /\ grant'[h].pwd <= claims + 1
      <3> SUFFICES ASSUME NEW h \in Grants
                   PROVE  grant'[h].token <= claims + 1 /\ grant'[h].pwd <= claims + 1
        OBVIOUS
      <3>1. grant[h].token <= claims + 1 /\ grant[h].pwd <= claims + 1
        BY <1>4 DEF Given, Rows, GrantRow
      <3>2. claims + 1 <= claims + 1
        BY <1>1
      <3> QED
        BY <1>2, <1>3, <3>1, <3>2
    <2>2. \A q \in Procs :
             /\ proc'[q].token <= claims + 1
             /\ proc'[q].pc \in {"claimed", "ready", "waiting"} => proc'[q].token # NoToken
             /\ \A t \in proc'[q].inventory : t <= claims + 1
      <3> SUFFICES ASSUME NEW q \in Procs
                   PROVE  /\ proc'[q].token <= claims + 1
                          /\ proc'[q].pc \in {"claimed", "ready", "waiting"}
                               => proc'[q].token # NoToken
                          /\ \A t \in proc'[q].inventory : t <= claims + 1
        OBVIOUS
      <3>1. proc[q].token <= claims + 1 /\ \A t \in proc[q].inventory : t <= claims + 1
        <4>1. proc[q].token \in Int /\ \A t \in proc[q].inventory : t \in Int
          BY DEF Rows, ProcState, Tokens
        <4> QED
          BY <1>4, <4>1 DEF Given
      <3>2. claims + 1 <= claims + 1 /\ claims + 1 # NoToken
        BY <1>1 DEF NoToken
      <3> QED
        BY <1>2, <3>1, <3>2 DEF Given
    <2>3. \A t \in Tokens : /\ call[t].pc # "none" => t <= claims + 1
                            /\ call[t].pass <= claims + 1
      <3>1. ASSUME NEW t \in Tokens PROVE t \in Int /\ call[t].pass \in Int
        <4>1. call[t] \in CallRow
          BY DEF Rows
        <4>2. call[t].pass \in 0 .. MaxClaims
          BY <4>1 DEF CallRow
        <4> QED
          BY <4>2 DEF Tokens
      <3> QED
        BY <1>4, <3>1 DEF Given
    <2> QED
      BY <1>1, <2>1, <2>2, <2>3 DEF Given
  <1>6. Leased'
    <2>1. grant'[g].token # NoToken
      BY <1>1, <1>2 DEF NoToken
    <2> QED
      BY <1>2, <1>3, <2>1 DEF Leased
  <1>7. Settled'
    BY <1>1 DEF Settled
  <1>8. FenceKept'
    <2> SUFFICES ASSUME NEW q \in Procs, Claiming(q)' PROVE Found0(q)'
      BY DEF FenceKept, Found0
    <2>1. CASE q = p
      <3>1. \A t \in Tokens : Alive(t) /\ Of(t, g) => grant[g].op # "IDLE"
        BY <1>2 DEF CallsFenced, Of
      <3>2. grant[g].attempts \in Nat
        BY FenceAssumption DEF Rows, GrantRow, FenceAssumption
      <3>3. /\ proc'[q].g = g /\ proc'[q].prev.op \in {"IDLE", "RETRYABLE"}
            /\ proc'[q].prev.attempts = grant'[g].attempts - 1
        <4>1. proc'[q].prev.attempts = grant[g].attempts /\ proc'[q].prev.op = grant[g].op
              /\ proc'[q].g = g
          BY <1>2, <2>1
        <4>2. grant'[g].attempts = grant[g].attempts + 1 /\ grant[g].op \in {"IDLE", "RETRYABLE"}
          BY <1>2
        <4>3. proc'[q].prev.attempts = grant'[g].attempts - 1
          BY <3>2, <4>1, <4>2
        <4> QED
          BY <4>1, <4>2, <4>3
      <3>4. proc'[q].prev.op = "IDLE" => \A t \in Tokens : Alive(t)' => call'[t].grant # g
        BY <1>1, <1>2, <2>1, <3>1 DEF Alive, Of
      <3> QED
        BY <3>3, <3>4 DEF Found0, Of
    <2>2. CASE q # p
      <3>1. proc'[q] = proc[q] /\ proc[q].g \in Grants
        BY <1>2, <2>2 DEF Rows, ProcState
      <3>2. proc[q].token # claims + 1
        <4>1. proc[q].token <= claims /\ proc[q].token \in Int
          BY DEF Given, Rows, ProcState
        <4> QED
          BY <1>1, <4>1
      <3>3. proc[q].g # g
        BY <1>2, <3>1, <3>2 DEF Claiming, Holds
      <3>4. grant'[proc[q].g] = grant[proc[q].g]
        BY <1>3, <3>1, <3>3
      <3>5. Claiming(q)
        BY <3>1, <3>4 DEF Claiming, Holds
      <3> QED
        BY <1>1, <3>1, <3>4, <3>5 DEF FenceKept, Found0, Of, Alive
    <2> QED
      BY <2>1, <2>2
  <1>9. Fresh'
    <2>1. call[claims + 1].pc = "none"
      BY <1>1 DEF Given
    <2> QED
      BY <1>1, <1>2, <1>3, <2>1 DEF Fresh
  <1>10. CallsFenced' /\ FailedFenced' /\ ActiveHasPasscode'
    <2>1. CallsFenced'
      BY <1>1, <1>2, <1>3 DEF CallsFenced, Alive, Rows, CallRow
    <2>2. FailedFenced' /\ ActiveHasPasscode'
      BY <1>2, <1>3 DEF FailedFenced, ActiveHasPasscode
    <2> QED
      BY <2>1, <2>2
  <1>11. OneEngaged'
    <2>1. ASSUME NEW h \in Grants \ {g} PROVE ~Engaged(h)'
      <3>1. ~Engaged(h)
        BY <1>2, SiblingsUnengaged
      <3> QED
        BY <1>1, <1>3, <3>1 DEF Engaged, Of, Alive
    <2> QED
      BY <2>1 DEF OneEngaged
  <1>12. Counted'
    <2> SUFFICES ASSUME NEW h \in Grants
                 PROVE  /\ Cardinality(CallsOf(h)) <= MaxAttempts
                        /\ grant'[h].status = "PENDING" /\ grant'[h].op # "CLAIMED"
                             => Cardinality(CallsOf(h)) <= grant'[h].attempts
                        /\ grant'[h].status = "PENDING" /\ grant'[h].op = "CLAIMED"
                             => Cardinality(CallsOf(h)) < grant'[h].attempts
      BY <1>1 DEF Counted, CallsOf
    <2>1. CASE h # g
      BY <1>3, <2>1 DEF Counted
    <2>2. CASE h = g
      <3>1. Cardinality(CallsOf(g)) <= grant[g].attempts /\ Cardinality(CallsOf(g)) <= MaxAttempts
        BY <1>2 DEF Counted
      <3>2. Cardinality(CallsOf(g)) \in Nat /\ grant[g].attempts \in Nat
        BY CallsFinite, FenceAssumption DEF Rows, GrantRow, FenceAssumption
      <3>3. Cardinality(CallsOf(g)) < grant[g].attempts + 1
        BY <3>1, <3>2
      <3> QED
        BY <1>2, <2>2, <3>1, <3>3
    <2> QED
      BY <2>1, <2>2
  <1>13. Undeleted'
    BY <1>1, <1>2, <1>3 DEF Undeleted, Standing
  <1>14. Timely'
    BY <1>1, <1>2 DEF Timely, Unsettled
  <1>15. MarkersCover' /\ RearmCounted'
    <2>1. ASSUME NEW h \in Grants PROVE Marked0(h)'
      BY <1>1, <1>2, <1>3 DEF MarkersCover, Marked0, Of
    <2> QED
      BY <1>1, <2>1 DEF MarkersCover, RearmCounted
  <1>16. AbsenceFinal'
    <2> SUFFICES ASSUME NEW q \in Procs, Conclusive(q)', NEW t \in Tokens,
                        call'[t].grant = proc'[q].g
                 PROVE  ~Hot(t)'
      BY DEF AbsenceFinal, Of
    <2>1. proc'[q] = proc[q]
      BY <1>2 DEF Conclusive
    <2>2. q \notin moved /\ grant'[proc[q].g] = grant[proc[q].g]
      BY <1>1, <2>1 DEF Conclusive, Unread
    <2>3. Conclusive(q)
      BY <1>1, <2>1, <2>2 DEF Conclusive
    <2> QED
      BY <1>1, <2>1, <2>3 DEF AbsenceFinal, Of, Hot, Unsettled
  <1>17. OneHot'
    <2> SUFFICES ASSUME Sheltered' PROVE HotFenced'
      BY DEF OneHot
    <2>1. Sheltered
      BY <1>1, <1>2, <1>3 DEF Sheltered, Overwritten
    <2>2. \A t \in Tokens : ~Hot(t)
      BY <1>2, <2>1, NothingHot
    <2>3. \A t \in Tokens : ~Hot(t)'
      BY <1>1, <2>2 DEF Hot, Unsettled
    <2> QED
      BY <2>3 DEF HotFenced
  <1> QED
    BY <1>1, <1>5, <1>6, <1>7, <1>8, <1>9, <1>10, <1>11, <1>12, <1>13, <1>14, <1>15, <1>16, <1>17

-----------------------------------------------------------------------------
(* The start of an execution keeps the invariant.                          *)

LEMMA BeginStepKeeps == ASSUME Inv, BeginStep PROVE Inv'
  <1> USE DEF Inv, FenceInv
  <1>1. Rows' /\ UNCHANGED <<pending, live, clock, claims, rearms>>
        /\ \A q \in Procs : Unread(q)
    BY DEF BeginStep
  <1>2. PICK p \in Procs, g \in Grants, t \in Tokens :
             /\ Claiming(p) /\ proc[p].g = g /\ proc[p].token = t
             /\ OthersKept(g)
             /\ grant[g].status = "PENDING" /\ grant'[g].status = "PENDING"
             /\ grant[g].op = "CLAIMED" /\ grant'[g].op = "EXECUTING"
             /\ grant[g].token = t /\ grant'[g].token = t
             /\ grant'[g].attempts = grant[g].attempts
             /\ grant'[g].pwd = grant[g].pwd /\ grant'[g].marker = grant[g].marker
             /\ call[t].pc = "none" /\ call'[t].pc = "begun" /\ call'[t].grant = g
             /\ call'[t].at = clock /\ call'[t].pass = NoToken
             /\ \A u \in Tokens \ {t} : call'[u] = call[u]
             /\ \A q \in Procs \ {p} : proc'[q] = proc[q]
             /\ proc'[p].pc = "waiting" /\ proc'[p].now = proc[p].now
             /\ proc'[p].token = t /\ proc'[p].inventory = proc[p].inventory
    BY DEF BeginStep
  <1>3. \A h \in Grants \ {g} : grant'[h] = grant[h]
    BY <1>2 DEF OthersKept
  <1>4. t # NoToken /\ t <= claims /\ NoToken <= claims
    <2>1. t <= claims
      BY <1>2 DEF Given
    <2>2. claims \in Nat
      BY DEF Rows
    <2> QED
      BY <2>1, <2>2, Positive, Zero
  <1>5. Engaged(g) /\ \A h \in Grants \ {g} : grant[h].op \notin {"CLAIMED", "EXECUTING"}
    BY <1>2 DEF Engaged, OneEngaged
  <1>6. Given'
    <2>1. \A h \in Grants : grant'[h].token <= claims /\ grant'[h].pwd <= claims
      BY <1>2, <1>3 DEF Given
    <2>2. \A q \in Procs :
             /\ proc'[q].token <= claims
             /\ proc'[q].pc \in {"claimed", "ready", "waiting"} => proc'[q].token # NoToken
             /\ \A u \in proc'[q].inventory : u <= claims
      BY <1>2, <1>4 DEF Given
    <2>3. \A u \in Tokens : /\ call'[u].pc # "none" => u <= claims
                            /\ call'[u].pass <= claims
                            /\ call'[u].pc = "got" => call'[u].pass # NoToken
      BY <1>2, <1>4 DEF Given
    <2>4. \A u \in live \cup pending : call'[u].pc # "none"
      BY <1>2 DEF Given, Rows
    <2> QED
      BY <1>1, <2>1, <2>2, <2>3, <2>4 DEF Given
  <1>7. Leased'
    BY <1>2, <1>3, <1>4 DEF Leased
  <1>8. Settled'
    BY <1>1, <1>2 DEF Settled
  <1>9. FenceKept'
    <2> SUFFICES ASSUME NEW q \in Procs, Claiming(q)' PROVE Found0(q)'
      BY DEF FenceKept, Found0
    <2>1. q # p /\ proc'[q] = proc[q] /\ proc[q].g \in Grants
      BY <1>2 DEF Claiming, Rows, ProcState
    <2>2. proc[q].g # g
      BY <1>2, <2>1 DEF Claiming, Holds
    <2>3. grant'[proc[q].g] = grant[proc[q].g]
      BY <1>3, <2>1, <2>2
    <2>4. Claiming(q)
      BY <2>1, <2>3 DEF Claiming, Holds
    <2>5. ASSUME NEW u \in Tokens, call'[u].grant = proc[q].g
          PROVE  call'[u] = call[u]
      BY <1>2, <2>2, <2>5
    <2> QED
      BY <2>1, <2>3, <2>4, <2>5 DEF FenceKept, Found0, Of, Alive
  <1>10. Fresh'
    BY <1>2, <1>3, <1>5 DEF Fresh
  <1>11. CallsFenced'
    <2> SUFFICES ASSUME NEW u \in Tokens, Alive(u)', grant'[call'[u].grant].status = "PENDING"
                 PROVE  grant'[call'[u].grant].op # "IDLE"
      BY DEF CallsFenced
    <2>1. CASE u = t
      BY <1>2, <2>1
    <2>2. CASE u # t
      <3>1. call'[u] = call[u] /\ call[u].grant \in Grants
        BY <1>2, <2>2 DEF Rows, CallRow
      <3> QED
        BY <1>2, <1>3, <3>1 DEF CallsFenced, Alive
    <2> QED
      BY <2>1, <2>2
  <1>12. FailedFenced' /\ ActiveHasPasscode'
    BY <1>2, <1>3 DEF FailedFenced, ActiveHasPasscode
  <1>13. OneEngaged'
    <2>1. ASSUME NEW h \in Grants \ {g}, Engaged(h)' PROVE Engaged(h)
      BY <1>2, <1>3, <2>1 DEF Engaged, Of, Alive
    <2> QED
      BY <1>5, <2>1 DEF OneEngaged
  <1>14. Counted'
    <2>1. ASSUME NEW h \in Grants \ {g} PROVE CallsOf(h)' = CallsOf(h)
      BY <1>2 DEF CallsOf
    <2>2. CallsOf(g)' = CallsOf(g) \cup {t} /\ t \notin CallsOf(g)
      BY <1>2 DEF CallsOf
    <2>3. Cardinality(CallsOf(g)') = Cardinality(CallsOf(g)) + 1
      BY <2>2, CallsFinite, FS_AddElement
    <2>4. Cardinality(CallsOf(g)') <= grant[g].attempts /\ grant[g].attempts <= MaxAttempts
      <3>1. Cardinality(CallsOf(g)) < grant[g].attempts
        BY <1>2 DEF Counted
      <3>2. Cardinality(CallsOf(g)) \in Nat /\ grant[g].attempts \in 0 .. MaxAttempts
            /\ MaxAttempts \in Nat
        BY CallsFinite, FenceAssumption DEF Rows, GrantRow, FenceAssumption
      <3> QED
        BY <2>3, <3>1, <3>2
    <2>5. Cardinality(CallsOf(g)') <= MaxAttempts
      <3>1. Cardinality(CallsOf(g)) \in Nat /\ grant[g].attempts \in Nat /\ MaxAttempts \in Nat
        BY CallsFinite, FenceAssumption DEF Rows, GrantRow, FenceAssumption
      <3> QED
        BY <2>3, <2>4, <3>1
    <2> QED
      BY <1>2, <1>3, <2>1, <2>4, <2>5 DEF Counted
  <1>15. Undeleted'
    BY <1>1, <1>2, <1>3 DEF Undeleted, Standing
  <1>16. Timely'
    <2>1. clock <= clock /\ clock <= clock + EffectMs
      BY FenceAssumption DEF Rows, FenceAssumption
    <2>2. \A u \in Tokens \ {t} : Unsettled(u)' <=> Unsettled(u)
      BY <1>1, <1>2 DEF Unsettled
    <2>3. \A u \in Tokens : /\ call'[u].pc # "none" => call'[u].at <= clock
                            /\ Unsettled(u)' => clock <= call'[u].at + EffectMs
      BY <1>2, <2>1, <2>2 DEF Timely
    <2>4. \A q \in Procs : proc'[q].pc # "idle" =>
             proc'[q].now <= clock /\ clock <= proc'[q].now + TickMs
      BY <1>2 DEF Timely, Claiming
    <2> QED
      BY <1>1, <2>3, <2>4 DEF Timely
  <1>17. MarkersCover' /\ RearmCounted'
    <2>1. Marked0(g)'
      BY <1>1, <1>2 DEF MarkersCover, Marked0
    <2>2. ASSUME NEW h \in Grants \ {g} PROVE Marked0(h)'
      BY <1>1, <1>2, <1>3 DEF MarkersCover, Marked0, Of
    <2> QED
      BY <1>1, <2>1, <2>2 DEF MarkersCover, RearmCounted
  <1>18. AbsenceFinal'
    <2> SUFFICES ASSUME NEW q \in Procs, Conclusive(q)', NEW u \in Tokens,
                        call'[u].grant = proc'[q].g
                 PROVE  ~Hot(u)'
      BY DEF AbsenceFinal, Of
    <2>1. proc'[q] = proc[q]
      BY <1>2 DEF Conclusive
    <2>2. q \notin moved /\ grant'[proc[q].g] = grant[proc[q].g]
      BY <1>1, <2>1 DEF Conclusive, Unread
    <2>3. Conclusive(q)
      BY <1>1, <2>1, <2>2 DEF Conclusive
    <2>4. u # t /\ call'[u] = call[u]
      BY <1>2, <2>1 DEF Conclusive
    <2> QED
      BY <1>1, <2>1, <2>3, <2>4 DEF AbsenceFinal, Of, Hot, Unsettled
  <1>19. OneHot'
    <2> SUFFICES ASSUME Sheltered' PROVE HotFenced'
      BY DEF OneHot
    <2>1. HotFenced
      BY <1>1, <1>2, <1>3 DEF OneHot, Sheltered, Overwritten
    <2>2. \A u \in Tokens : ~Hot(u)
      BY <1>2, <2>1 DEF HotFenced
    <2>3. \A u \in Tokens : Hot(u)' => u = t
      BY <1>1, <1>2, <2>2 DEF Hot, Unsettled
    <2> QED
      BY <1>2, <1>3, <1>5, <2>3 DEF HotFenced, Of
  <1> QED
    BY <1>1, <1>6, <1>7, <1>8, <1>9, <1>10, <1>11, <1>12, <1>13, <1>14, <1>15, <1>16, <1>17,
       <1>18, <1>19

-----------------------------------------------------------------------------
(* A call's step keeps the invariant.                                      *)

\* Of its grant only the status and the passcode change.
LEMMA CallGrants ==
    ASSUME Inv, NEW t \in Tokens, CallStep(t), NEW g \in Grants
    PROVE  /\ grant'[g].op = grant[g].op /\ grant'[g].token = grant[g].token
           /\ grant'[g].attempts = grant[g].attempts /\ grant'[g].marker = grant[g].marker
           /\ \/ grant'[g].status = grant[g].status /\ grant'[g].pwd = grant[g].pwd
              \/ /\ g = call[t].grant /\ Alive(t) /\ grant'[g].status = "FAILED"
                 /\ grant'[g].pwd = grant[g].pwd /\ ~Custom
              \/ /\ g = call[t].grant /\ call[t].pc = "got" /\ grant[g].status = "PENDING"
                 /\ grant'[g].status = "ACTIVE" /\ grant'[g].pwd = call[t].pass
  BY DEF CallStep, Failed, Activated, OthersKept

LEMMA CallCalls ==
    ASSUME Inv, NEW t \in Tokens, CallStep(t), NEW u \in Tokens
    PROVE  /\ (Alive(u)' => Alive(u)) /\ (Unsettled(u)' => Unsettled(u)) /\ (Hot(u)' => Hot(u))
           /\ call'[u].pc = "none" <=> call[u].pc = "none"
           /\ call'[u].grant = call[u].grant /\ call'[u].at = call[u].at
  <1>1. CASE u = t
    BY <1>1 DEF CallStep, Turned, Alive
  <1>2. CASE u # t
    BY <1>2 DEF CallStep, Turned, Alive
  <1> QED
    BY <1>1, <1>2

LEMMA CallStepKeeps == ASSUME Inv, NEW t \in Tokens, CallStep(t) PROVE Inv'
  <1> USE DEF Inv, FenceInv
  <1>1. Rows' /\ UNCHANGED <<proc, clock, claims, rearms>> /\ Settled'
        /\ \A q \in Procs : Unread(q)
    BY DEF CallStep
  <1>2. Given'
    <2>1. claims \in Nat /\ call[t].pc # "none" /\ NoToken <= claims
      BY Zero DEF Rows, CallStep, Turned
    <2>2. \A g \in Grants : grant'[g].token <= claims /\ grant'[g].pwd <= claims
      BY CallGrants DEF Given
    <2>3. \A u \in live : u <= claims
      BY DEF Given, Rows
    <2>4. \A u \in Tokens : /\ call'[u].pc # "none" => u <= claims
                            /\ call'[u].pass <= claims
                            /\ call'[u].pc = "got" => call'[u].pass # NoToken
      <3>1. \A u \in Tokens \ {t} : call'[u] = call[u]
        BY DEF CallStep, Turned
      <3>2. call'[t].pass <= claims /\ t <= claims
        BY <2>1, <2>3 DEF CallStep, Turned, Given
      <3>3. call'[t].pc = "got" => call'[t].pass # NoToken
        BY DEF CallStep, Turned
      <3> QED
        BY <3>1, <3>2, <3>3 DEF Given
    <2>5. \A u \in live' \cup pending' : call'[u].pc # "none"
      <3>1. live' \cup pending' \subseteq live \cup pending \cup {t}
        BY DEF CallStep
      <3>2. live \cup pending \subseteq Tokens
        BY DEF Rows
      <3> QED
        BY <2>1, <3>1, <3>2, CallCalls DEF Given
    <2> QED
      BY <1>1, <2>2, <2>4, <2>5 DEF Given
  <1>3. Leased'
    BY CallGrants DEF Leased
  <1>4. FenceKept'
    <2> SUFFICES ASSUME NEW q \in Procs, Claiming(q)' PROVE Found0(q)'
      BY DEF FenceKept, Found0
    <2>1. proc'[q] = proc[q] /\ proc[q].g \in Grants
      BY <1>1 DEF Rows, ProcState
    <2>2. Claiming(q) /\ grant'[proc[q].g].attempts = grant[proc[q].g].attempts
      BY <2>1, CallGrants DEF Claiming, Holds
    <2>3. \A u \in Tokens : (Alive(u)' => Alive(u)) /\ call'[u].grant = call[u].grant
      BY CallCalls
    <2> QED
      BY <2>1, <2>2, <2>3 DEF FenceKept, Found0, Of
  <1>5. Fresh'
    <2> SUFFICES ASSUME NEW g \in Grants, grant'[g].op = "CLAIMED"
                 PROVE  call'[grant'[g].token].pc = "none"
      BY DEF Fresh
    <2>1. grant[g].op = "CLAIMED" /\ grant'[g].token = grant[g].token
      BY CallGrants
    <2>2. grant[g].token \in Tokens
      BY <2>1, TokenGiven
    <2> QED
      BY <2>1, <2>2, CallCalls DEF Fresh
  <1>6. CallsFenced'
    <2> SUFFICES ASSUME NEW u \in Tokens, Alive(u)', grant'[call'[u].grant].status = "PENDING"
                 PROVE  grant'[call'[u].grant].op # "IDLE"
      BY DEF CallsFenced
    <2>1. Alive(u) /\ call'[u].grant = call[u].grant /\ call[u].grant \in Grants
      BY CallCalls DEF Rows, CallRow
    <2> QED
      BY <2>1, CallGrants DEF CallsFenced
  <1>7. ActiveHasPasscode'
    BY CallGrants DEF ActiveHasPasscode, Given
  <1>8. FailedFenced'
    <2> SUFFICES ASSUME NEW g \in Grants, grant'[g].status = "FAILED", grant'[g].pwd = NoToken
                 PROVE  grant'[g].op # "IDLE"
      BY DEF FailedFenced
    <2>1. CASE grant[g].status = "FAILED"
      BY <2>1, CallGrants DEF FailedFenced
    <2>2. CASE grant[g].status # "FAILED"
      <3>1. g = call[t].grant /\ Alive(t) /\ grant[g].pwd = NoToken /\ grant'[g].op = grant[g].op
        BY <2>2, CallGrants
      <3>2. grant[g].status = "PENDING"
        BY <2>2, <3>1 DEF ActiveHasPasscode, Rows, GrantRow, Statuses
      <3> QED
        BY <3>1, <3>2 DEF CallsFenced
    <2> QED
      BY <2>1, <2>2
  <1>9. OneEngaged'
    <2>1. ASSUME NEW g \in Grants, Engaged(g)' PROVE Engaged(g)
      <3>1. CASE grant[g].status = "PENDING" /\ grant'[g].status = "ACTIVE"
        <4>1. g = call[t].grant /\ call[t].pc = "got"
          BY <3>1, CallGrants
        <4> QED
          BY <3>1, <4>1 DEF Engaged, Alive, Of
      <3>2. CASE ~(grant[g].status = "PENDING" /\ grant'[g].status = "ACTIVE")
        BY <2>1, <3>2, CallGrants, CallCalls DEF Engaged, Of
      <3> QED
        BY <3>1, <3>2
    <2> QED
      BY <2>1 DEF OneEngaged
  <1>10. Counted'
    <2>1. ASSUME NEW g \in Grants PROVE CallsOf(g)' = CallsOf(g)
      BY CallCalls DEF CallsOf
    <2> QED
      BY <2>1, CallGrants DEF Counted
  <1>11. Undeleted'
    <2> SUFFICES ASSUME Custom PROVE Standing'
      BY DEF Undeleted
    <2>1. Standing /\ live \subseteq live' /\ call'[t].pc # "cleanup"
      BY DEF Undeleted, Standing, CallStep
    <2>2. \A u \in Tokens \ {t} : call'[u] = call[u]
      BY DEF CallStep, Turned
    <2>3. call'[t].pc = "got" => call'[t].pass \in live
      BY <2>1 DEF CallStep, Turned, Standing
    <2>4. \A g \in Grants : grant'[g].status = "ACTIVE" => grant'[g].pwd \in live
      BY <2>1, CallGrants DEF Standing
    <2> QED
      BY <1>1, <2>1, <2>2, <2>3, <2>4 DEF Standing
  <1>12. Timely'
    BY <1>1, CallCalls DEF Timely
  <1>13. MarkersCover' /\ RearmCounted'
    <2>1. ASSUME NEW g \in Grants PROVE Marked0(g)'
      <3>1. \A u \in Tokens : /\ (call'[u].pc = "none" <=> call[u].pc = "none")
                              /\ call'[u].grant = call[u].grant /\ call'[u].at = call[u].at
        BY CallCalls
      <3>2. grant'[g].status = "PENDING" => grant[g].status = "PENDING"
        BY CallGrants
      <3> QED
        BY <1>1, <3>1, <3>2, CallGrants DEF MarkersCover, Marked0, Of
    <2> QED
      BY <1>1, <2>1 DEF MarkersCover, RearmCounted
  <1>14. AbsenceFinal'
    <2> SUFFICES ASSUME NEW q \in Procs, Conclusive(q)', NEW u \in Tokens,
                        call'[u].grant = proc'[q].g
                 PROVE  ~Hot(u)'
      BY DEF AbsenceFinal, Of
    <2>1. proc'[q] = proc[q] /\ q \notin moved /\ grant'[proc[q].g] = grant[proc[q].g]
      BY <1>1 DEF Conclusive, Unread
    <2>2. Conclusive(q)
      BY <1>1, <2>1 DEF Conclusive
    <2> QED
      BY <2>1, <2>2, CallCalls DEF AbsenceFinal, Of
  <1>15. OneHot'
    <2> SUFFICES ASSUME Sheltered' PROVE HotFenced'
      BY DEF OneHot
    <2>1. Sheltered
      <3>1. \A g \in Grants : Overwritten(g) => Overwritten(g)'
        BY CallGrants DEF Overwritten
      <3> QED
        BY <1>1, <3>1 DEF Sheltered
    <2>2. \A g \in Grants : grant'[g].status = "PENDING" => grant[g].status = "PENDING"
      BY CallGrants
    <2>3. \A u \in Tokens : (Hot(u)' => Hot(u)) /\ call'[u].grant = call[u].grant
      BY CallCalls
    <2>4. \A g \in Grants : grant'[g].op = grant[g].op /\ grant'[g].token = grant[g].token
      BY CallGrants
    <2> QED
      BY <2>1, <2>2, <2>3, <2>4 DEF OneHot, HotFenced, Of
  <1> QED
    BY <1>1, <1>2, <1>3, <1>4, <1>5, <1>6, <1>7, <1>8, <1>9, <1>10, <1>11, <1>12, <1>13,
       <1>14, <1>15

-----------------------------------------------------------------------------
(* Every step is of one of these kinds.                                    *)

LEMMA Kinds ==
    ASSUME Inv, [Next]_vars
    PROVE  \/ RowStep \/ AdoptStep \/ RearmStep \/ ClaimStep \/ BeginStep
           \/ TickStep \/ ReadStep \/ AdvanceStep
           \/ \E t \in Tokens : CallStep(t)
  <1>1. CASE UNCHANGED vars
    BY <1>1, StutterKind
  <1>2. ASSUME NEW p \in Procs, Worker(p)
        PROVE  \/ RowStep \/ AdoptStep \/ RearmStep \/ ClaimStep \/ BeginStep
               \/ TickStep \/ ReadStep
    <2>1. CASE \E g \in Grants :
                 \/ RepairRelease(p, g) \/ RecoverActive(p, g) \/ RecoverPending(p, g)
                 \/ Claim(p, g) \/ ClaimRefused(p, g) \/ ScanAmbiguous(p, g)
      BY <2>1, RepairReleaseKind, RecoverActiveKind, RecoverPendingKind, ClaimKind,
         ClaimRefusedKind, ScanAmbiguousKind
    <2>2. CASE \/ StartTick(p) \/ NextPhase(p) \/ CheckReadiness(p) \/ PreBoundaryFailure(p)
               \/ Begin(p) \/ Finish(p) \/ PhysicalTimeout(p) \/ ReleaseAccess(p)
               \/ ReadInventory(p) \/ Reconcile(p) \/ Crash(p)
      BY <2>2, StartTickKind, NextPhaseKind, CheckReadinessKind, PreBoundaryFailureKind,
         BeginKind, BeginRefusedKind, FinishKind, PhysicalTimeoutKind, ReleaseAccessKind,
         ReadInventoryKind, ReconcileKind, CrashKind
    <2> QED
      BY <1>2, <2>1, <2>2 DEF Worker
  <1>3. ASSUME NEW t \in Tokens, Calls(t) PROVE CallStep(t)
    BY <1>3, CallsKind
  <1>4. CASE Reevaluate \/ ReservationChanges
    BY <1>4, WorldKind
  <1>5. CASE Advance
    BY <1>5, AdvanceKind
  <1> QED
    BY <1>1, <1>2, <1>3, <1>4, <1>5 DEF Next

LEMMA Starts == Init => Inv /\ clock <= MaxClock
  <1> SUFFICES ASSUME Init PROVE Inv /\ clock <= MaxClock
    OBVIOUS
  <1>1. Rows
    <2>1. [status |-> "PENDING", op |-> "IDLE", token |-> NoToken, attempts |-> 0,
           nextAt |-> 0, exhausted |-> FALSE, pwd |-> NoToken, marker |-> NoMarker] \in GrantRow
      BY Zero, NoMarkerType DEF GrantRow, Statuses, FenceStates
    <2>2. grant \in [Grants -> GrantRow]
      BY <2>1 DEF Init
    <2>3. NoPlan \in PlanRow
      BY DEF NoPlan, PlanRow
    <2>4. plan \in [Grants -> PlanRow]
      BY <2>3 DEF Init
    <2>5. reservation \in ReservationRow
      BY DEF Init, ReservationRow
    <2>6. proc \in [Procs -> ProcState]
      BY Zero, RestingType DEF Init
    <2>7. call \in [Tokens -> CallRow]
      BY NoCallType DEF Init
    <2>8. claims \in 0 .. MaxClaims /\ faults \in 0 .. MaxFaults /\ clock \in Nat
      BY FenceAssumption DEF Init, FenceAssumption
    <2>9. rearms \in [Grants -> Nat] /\ absences \in [Grants -> Nat]
          /\ moved \subseteq Procs /\ pending \subseteq Tokens /\ live \subseteq Tokens
      BY DEF Init
    <2> QED
      BY <2>2, <2>4, <2>5, <2>6, <2>7, <2>8, <2>9 DEF Rows
  <1>2. \A g \in Grants :
           /\ grant[g].status = "PENDING" /\ grant[g].op = "IDLE"
           /\ grant[g].token = NoToken /\ grant[g].attempts = 0 /\ grant[g].pwd = NoToken
           /\ grant[g].marker = NoMarker /\ rearms[g] = 0
    BY DEF Init
  <1>3. \A p \in Procs : proc[p].pc = "idle" /\ proc[p].token = NoToken /\ proc[p].inventory = {}
    BY Zero, RestingType DEF Init
  <1>4. \A t \in Tokens : call[t].pc = "none" /\ call[t].pass = NoToken
    BY NoCallType DEF Init
  <1>5. live = {} /\ pending = {} /\ claims = 0 /\ clock = 0 /\ NoToken = 0
    BY DEF Init, NoToken
  <1>6. \A t \in Tokens : ~Alive(t) /\ ~Unsettled(t) /\ ~Hot(t)
    BY <1>4, <1>5 DEF Alive, Unsettled, Hot, UnsettledPcs
  <1>7. \A p \in Procs : ~Claiming(p)
    BY <1>3 DEF Claiming
  <1>8. Given
    BY <1>2, <1>3, <1>4, <1>5 DEF Given
  <1>9. Leased /\ Settled /\ FenceKept /\ Fresh
    BY <1>2, <1>5, <1>7 DEF Leased, Settled, FenceKept, Found0, Fresh
  <1>10. CallsFenced /\ ActiveHasPasscode /\ FailedFenced /\ OneEngaged
    BY <1>2, <1>6 DEF CallsFenced, ActiveHasPasscode, FailedFenced, OneEngaged, Engaged
  <1>11. Counted
    <2>1. \A g \in Grants : CallsOf(g) = {}
      BY <1>4 DEF CallsOf
    <2>2. Cardinality({}) = 0
      BY FS_EmptySet
    <2>3. 0 <= MaxAttempts
      BY FenceAssumption DEF FenceAssumption
    <2> QED
      BY <1>2, <2>1, <2>2, <2>3 DEF Counted
  <1>12. Undeleted
    BY <1>2, <1>3, <1>4 DEF Undeleted, Standing
  <1>13. Timely
    BY <1>3, <1>4, <1>6 DEF Timely
  <1>14. MarkersCover /\ RearmCounted
    BY <1>2, NoMarkerType DEF MarkersCover, Marked0, RearmCounted
  <1>15. AbsenceFinal /\ OneHot
    BY <1>2, <1>6 DEF AbsenceFinal, OneHot, HotFenced
  <1>16. clock <= MaxClock
    BY <1>5, FenceAssumption DEF FenceAssumption
  <1> QED
    BY <1>1, <1>8, <1>9, <1>10, <1>11, <1>12, <1>13, <1>14, <1>15, <1>16 DEF Inv, FenceInv

LEMMA Steps == (Inv /\ clock <= MaxClock) /\ [Next]_vars => (Inv /\ clock <= MaxClock)'
  <1> SUFFICES ASSUME Inv, clock <= MaxClock, [Next]_vars
               PROVE  Inv' /\ clock' <= MaxClock
    OBVIOUS
  <1>1. Inv'
    BY Kinds, RowStepKeeps, AdoptStepKeeps, RearmStepKeeps, ClaimStepKeeps, BeginStepKeeps,
       TickStepKeeps, ReadStepKeeps, AdvanceStepKeeps, CallStepKeeps
  <1>2. ASSUME AdvanceStep PROVE clock' <= MaxClock
    BY <1>2, FenceAssumption DEF AdvanceStep, Inv, FenceInv, Rows, FenceAssumption
  <1>3. ASSUME ~AdvanceStep PROVE clock' <= MaxClock
    <2>1. clock' = clock
      BY <1>3, Kinds
      DEF RowStep, AdoptStep, RearmStep, ClaimStep, BeginStep, TickStep, ReadStep, CallStep
    <2> QED
      BY <2>1
  <1> QED
    BY <1>1, <1>2, <1>3

-----------------------------------------------------------------------------
(* What holds of every behaviour.                                          *)

\* The inductive invariant, of every behaviour.
THEOREM Invariant == Spec => [](Inv /\ clock <= MaxClock)
  BY Starts, Steps, PTL DEF Spec

\* The rows, processes and calls are of their types, and a fence names a lease exactly
\* while one is held (AccessGrant.recoveryOperation).
THEOREM Types == Spec => []TypeOK
  <1>1. Inv /\ clock <= MaxClock => TypeOK
    <2> SUFFICES ASSUME Inv, clock <= MaxClock PROVE TypeOK
      OBVIOUS
    <2> USE DEF Inv, FenceInv
    <2>1. clock \in 0 .. MaxClock /\ claims \in 0 .. MaxClaims /\ faults \in 0 .. MaxFaults
      BY FenceAssumption DEF Rows, FenceAssumption
    <2>2. ASSUME NEW g \in Grants
          PROVE  /\ grant[g].status \in Statuses /\ grant[g].op \in FenceStates
                 /\ grant[g].token \in 0 .. claims /\ grant[g].attempts \in 0 .. MaxAttempts
                 /\ grant[g].pwd \in 0 .. claims
      <3>1. grant[g] \in GrantRow /\ claims \in Nat
        BY FenceAssumption DEF Rows, FenceAssumption
      <3>2. grant[g].token \in 0 .. MaxClaims /\ grant[g].pwd \in 0 .. MaxClaims
        BY <3>1 DEF GrantRow
      <3>3. grant[g].token <= claims /\ grant[g].pwd <= claims
        BY DEF Given
      <3>4. grant[g].token \in 0 .. claims /\ grant[g].pwd \in 0 .. claims
        BY <3>1, <3>2, <3>3
      <3> QED
        BY <3>1, <3>4 DEF GrantRow
    <2>3. reservation.release \in {"ELIGIBLE", "BLOCKED", "RELEASED"}
      BY DEF Rows, ReservationRow
    <2> QED
      BY <2>1, <2>2, <2>3 DEF TypeOK, Rows, Leased
  <1> QED
    BY <1>1, Invariant, PTL

\* A set whose members are all the same has one at most.
LEMMA AtMostOne ==
    ASSUME NEW S, \A x, y \in S : x = y
    PROVE  IsFiniteSet(S) /\ Cardinality(S) <= 1
  <1>1. CASE S = {}
    BY <1>1, FS_EmptySet
  <1>2. CASE S # {}
    <2>1. PICK x \in S : TRUE
      BY <1>2
    <2>2. S = {x}
      BY <2>1
    <2>3. IsFiniteSet({x}) /\ Cardinality({x}) = 1
      BY FS_Singleton
    <2> QED
      BY <2>2, <2>3
  <1> QED
    BY <1>1, <1>2

\* Of a reservation's grants at most one is claimed, executing or active at a time, in
\* whichever order replicas claim, lose and repair them (the claim checks the siblings
\* under the reservation's row lock, E15 when it adopts).
THEOREM OneFence == Spec => []OneFenceHeld
  <1>1. Inv => OneFenceHeld
    <2> SUFFICES ASSUME Inv PROVE OneFenceHeld
      OBVIOUS
    <2> DEFINE held == {g \in Grants : grant[g].status = "ACTIVE"
                                         \/ grant[g].op \in {"CLAIMED", "EXECUTING"}}
    <2>1. \A g, h \in held : g = h
      BY DEF Inv, FenceInv, OneEngaged, Engaged
    <2>2. Cardinality(held) <= 1
      BY <2>1, AtMostOne
    <2> QED
      BY <2>2 DEF OneFenceHeld
  <1> QED
    BY <1>1, Invariant, PTL

\* A grant never has more physical calls than its attempt budget: an attempt is refunded
\* only for a claim that did not call, and E15's re-arm keeps the count.
THEOREM Budget == Spec => []CallsWithinBudget
  <1>1. Inv => CallsWithinBudget
    BY DEF Inv, Counted, CallsOf, CallsWithinBudget
  <1> QED
    BY <1>1, Invariant, PTL

\* Without re-arming the lock never accepts two passcodes for one stay, whatever happens to
\* processes and calls and however late a call's effect comes: the fence replays no call
\* whose outcome is unknown (RearmEnabled off is the deployment's default).
THEOREM NoSecondCredential ==
    ASSUME ~RearmEnabled
    PROVE  Spec => []OneCredential
  <1>1. Inv => OneCredential
    <2> SUFFICES ASSUME Inv, \A g \in Grants : ~Overwritten(g) PROVE Cardinality(live) <= 1
      BY DEF OneCredential
    <2> USE DEF Inv, FenceInv
    <2>1. HotFenced
      BY DEF RearmCounted, OneHot, Sheltered
    <2>2. live \subseteq Tokens
      BY DEF Rows
    <2>3. \A t, u \in live : t = u
      BY <2>1, <2>2 DEF HotFenced, Hot
    <2> QED
      BY <2>3, AtMostOne
  <1> QED
    BY <1>1, Invariant, PTL

\* With re-arming the same holds up to the first re-arm of each grant only if two readings
\* AbsenceMinMs apart outlast a tick and the latest effect of an execution.  The code bounds
\* neither; FirstRearmObserved is what it ensures.
LEMMA FirstRearmWhereOutlasted ==
    ASSUME Outlasts
    PROVE  Spec => []FirstRearmSafe
  <1>1. Inv => FirstRearmSafe
    <2> SUFFICES ASSUME Inv, \A g \in Grants : rearms[g] <= 1, \A g \in Grants : ~Overwritten(g)
                 PROVE  Cardinality(live) <= 1
      BY DEF FirstRearmSafe, OneCredential
    <2> USE DEF Inv, FenceInv
    <2>1. HotFenced
      BY DEF OneHot, Sheltered
    <2>2. live \subseteq Tokens
      BY DEF Rows
    <2>3. \A t, u \in live : t = u
      BY <2>1, <2>2 DEF HotFenced, Hot
    <2> QED
      BY <2>3, AtMostOne
  <1> QED
    BY <1>1, Invariant, PTL

\* On a lock with a gateway an active grant names a passcode that the lock accepts: nothing
\* deletes one whose grant another writer has activated meanwhile.
THEOREM CredentialWorks ==
    ASSUME Custom
    PROVE  Spec => []ReleasedCredentialWorks
  <1>1. Inv => ReleasedCredentialWorks
    BY DEF Inv, Undeleted, Standing, ReleasedCredentialWorks, Evidence
  <1> QED
    BY <1>1, Invariant, PTL

-----------------------------------------------------------------------------
(* The readings behind a first re-arm.                                     *)

\* Readings of an ambiguity that lasts are not forgotten.
Kept(g) ==
    /\ absences[g] >= 1 => absences'[g] >= 1
    /\ absences[g] >= 2 => absences'[g] >= 2
Remembered ==
    \A g \in Grants : grant[g].op = "AMBIGUOUS" /\ grant'[g].op = "AMBIGUOUS" => Kept(g)

LEMMA WriteRemembers ==
    ASSUME Rows, NEW g \in Grants, NEW r, NEW writers, WriteBy(writers, g, r)
    PROVE  Remembered
  BY DEF WriteBy, Remembered, Kept, Rows

LEMMA WriteOneRemembers ==
    ASSUME Rows, NEW g \in Grants, NEW r, Write(g, r)
    PROVE  Remembered
  BY WriteRemembers DEF Write

LEMMA SameRemembers ==
    ASSUME absences' = absences
    PROVE  Remembered
  BY DEF Remembered, Kept

LEMMA NoWriteRemembers ==
    ASSUME NoWrite
    PROVE  Remembered
  BY SameRemembers DEF NoWrite

LEMMA RestoreRemembers ==
    ASSUME Rows, NEW p \in Procs, RestoreFence(p) \/ FailAmbiguous(p) \/ FailRetryable(p)
    PROVE  Remembered
  <1>1. proc[p].g \in Grants
    BY DEF Rows, ProcState
  <1>2. CASE RestoreFence(p)
    BY <1>1, <1>2, WriteOneRemembers, NoWriteRemembers DEF RestoreFence
  <1>3. CASE FailAmbiguous(p)
    BY <1>1, <1>3, WriteOneRemembers, NoWriteRemembers DEF FailAmbiguous
  <1>4. CASE FailRetryable(p)
    BY <1>1, <1>4, WriteOneRemembers, NoWriteRemembers DEF FailRetryable
  <1> QED
    BY <1>2, <1>3, <1>4

LEMMA FenceRemembers ==
    ASSUME Rows, NEW p \in Procs,
           \/ \E g \in Grants : \/ RepairRelease(p, g) \/ RecoverActive(p, g)
                                \/ RecoverPending(p, g) \/ Claim(p, g) \/ ClaimRefused(p, g)
                                \/ ScanAmbiguous(p, g)
           \/ StartTick(p) \/ NextPhase(p) \/ CheckReadiness(p) \/ PreBoundaryFailure(p)
           \/ Begin(p) \/ Finish(p) \/ PhysicalTimeout(p) \/ ReleaseAccess(p) \/ Crash(p)
    PROVE  Remembered
  <1>1. proc[p].g \in Grants
    BY DEF Rows, ProcState
  <1>2. ASSUME NEW g \in Grants, RepairRelease(p, g) \/ ScanAmbiguous(p, g)
        PROVE  Remembered
    BY <1>2, SameRemembers, NoWriteRemembers DEF RepairRelease, ScanAmbiguous
  <1>3. ASSUME NEW g \in Grants, RecoverActive(p, g) PROVE Remembered
    BY <1>3, WriteOneRemembers DEF RecoverActive
  <1>4. ASSUME NEW g \in Grants, RecoverPending(p, g) PROVE Remembered
    BY <1>4, WriteOneRemembers DEF RecoverPending
  <1>5. ASSUME NEW g \in Grants, Claim(p, g) PROVE Remembered
    BY <1>5, WriteOneRemembers DEF Claim
  <1>6. ASSUME NEW g \in Grants, ClaimRefused(p, g) PROVE Remembered
    BY <1>6, WriteOneRemembers DEF ClaimRefused
  <1>7. CASE StartTick(p) \/ NextPhase(p) \/ Crash(p)
    BY <1>7, SameRemembers DEF StartTick, NextPhase, Crash
  <1>8. CASE CheckReadiness(p)
    BY <1>8, NoWriteRemembers, RestoreRemembers DEF CheckReadiness
  <1>9. CASE PreBoundaryFailure(p)
    BY <1>1, <1>9, NoWriteRemembers, WriteOneRemembers DEF PreBoundaryFailure
  <1>10. CASE Begin(p)
    BY <1>1, <1>10, RestoreRemembers, WriteOneRemembers DEF Begin
  <1>11. CASE Finish(p)
    BY <1>1, <1>11, RestoreRemembers, NoWriteRemembers, WriteOneRemembers DEF Finish
  <1>12. CASE PhysicalTimeout(p)
    BY <1>12, RestoreRemembers DEF PhysicalTimeout
  <1>13. CASE ReleaseAccess(p)
    BY <1>1, <1>13, NoWriteRemembers, WriteOneRemembers DEF ReleaseAccess
  <1> QED
    BY <1>2, <1>3, <1>4, <1>5, <1>6, <1>7, <1>8, <1>9, <1>10, <1>11, <1>12, <1>13

LEMMA ReconcileRemembers ==
    ASSUME Rows, NEW p \in Procs, Reconcile(p)
    PROVE  Remembered
  <1>1. proc[p].g \in Grants
    BY DEF Rows, ProcState
  <1>2. ASSUME NEW r, Put(p, r) PROVE Remembered
    BY <1>1, <1>2, WriteRemembers DEF Put
  <1>3. ASSUME Leave(p) PROVE Remembered
    BY <1>3, SameRemembers DEF Leave
  <1>4. ASSUME NEW r, NEW status, NEW pwd, Adopt(p, r, status, pwd) PROVE Remembered
    BY <1>2, <1>3, <1>4 DEF Adopt
  <1> DEFINE r == grant[proc[p].g]
  <1> HIDE DEF r
  <1>5. \/ RaceLost(p) \/ VerifyLater(p, r) \/ ReconcileLateSuccess(p, r)
        \/ AdoptProviderPresent(p, r) \/ ManualReview(p, r) \/ ObserveAbsence(p, r)
        \/ Rearm(p, r)
    BY DEF Reconcile, r
  <1>6. CASE RaceLost(p)
    BY <1>3, <1>6 DEF RaceLost
  <1>7. CASE VerifyLater(p, r) \/ ManualReview(p, r) \/ ObserveAbsence(p, r)
    BY <1>2, <1>7 DEF VerifyLater, ManualReview, ObserveAbsence
  <1>8. CASE ReconcileLateSuccess(p, r)
    BY <1>4, <1>8 DEF ReconcileLateSuccess
  <1>9. CASE AdoptProviderPresent(p, r)
    BY <1>4, <1>9 DEF AdoptProviderPresent
  <1>10. CASE Rearm(p, r)
    BY <1>2, <1>3, <1>10 DEF Rearm
  <1> QED
    BY <1>5, <1>6, <1>7, <1>8, <1>9, <1>10

LEMMA ReadRemembers ==
    ASSUME Rows, NEW p \in Procs, ReadInventory(p)
    PROVE  Remembered
  <1> DEFINE g == proc[p].g
  <1>1. g \in Grants /\ absences[g] \in Nat
    BY DEF Rows, ProcState
  <1>2. Min({2, absences[g] + 1}) \in {2, absences[g] + 1}
    BY <1>1, LeastOfTwo
  <1>3. absences' = absences \/ absences' = [absences EXCEPT ![g] = Min({2, @ + 1})]
    BY DEF ReadInventory
  <1>4. CASE absences' = [absences EXCEPT ![g] = Min({2, @ + 1})]
    BY <1>1, <1>2, <1>4 DEF Rows, Remembered, Kept
  <1> QED
    BY <1>3, <1>4, SameRemembers

LEMMA CallRemembers ==
    ASSUME Rows, NEW t \in Tokens, Calls(t)
    PROVE  Remembered
  <1>1. call[t].grant \in Grants
    BY DEF Rows, CallRow
  <1>2. CASE CallRefused(t) \/ SendTimed(t) \/ PlanNew(t) \/ ProviderSettles(t) \/ CallErrs(t)
             \/ Cleanup(t)
    BY <1>2, NoWriteRemembers
    DEF CallRefused, SendTimed, PlanNew, ProviderSettles, CallErrs, Cleanup
  <1>3. CASE PlanFound(t)
    BY <1>1, <1>3, NoWriteRemembers, WriteOneRemembers DEF PlanFound
  <1>4. CASE SendCustom(t)
    BY <1>1, <1>4, NoWriteRemembers, WriteOneRemembers DEF SendCustom
  <1>5. CASE ResumePlan(t)
    BY <1>1, <1>5, NoWriteRemembers, WriteOneRemembers DEF ResumePlan
  <1>6. CASE Answered(t)
    BY <1>1, <1>6, NoWriteRemembers, WriteOneRemembers DEF Answered
  <1>7. CASE IncompleteAnswer(t)
    BY <1>1, <1>7, WriteOneRemembers DEF IncompleteAnswer
  <1>8. CASE Persist(t)
    BY <1>1, <1>8, NoWriteRemembers, WriteOneRemembers DEF Persist
  <1> QED
    BY <1>2, <1>3, <1>4, <1>5, <1>6, <1>7, <1>8 DEF Calls

LEMMA StepRemembers ==
    ASSUME Rows, [Next]_vars
    PROVE  Remembered
  <1>1. CASE UNCHANGED vars
    BY <1>1, SameRemembers DEF vars
  <1>2. ASSUME NEW p \in Procs, Worker(p) PROVE Remembered
    BY <1>2, FenceRemembers, ReconcileRemembers, ReadRemembers DEF Worker
  <1>3. ASSUME NEW t \in Tokens, Calls(t) PROVE Remembered
    BY <1>3, CallRemembers
  <1>4. CASE Reevaluate \/ ReservationChanges \/ Advance
    BY <1>4, NoWriteRemembers DEF Reevaluate, ReservationChanges, Advance
  <1> QED
    BY <1>1, <1>2, <1>3, <1>4 DEF Next

\* Until a grant's first re-arm its count stands for readings of its present ambiguity, and
\* a process that has read no passcode has added one to those the marker counts.
Observed(g) ==
    rearms[g] = 0 /\ RearmEnabled /\ grant[g].status = "PENDING"
      /\ grant[g].marker.state # "none" /\ grant[g].marker.count >= 1
      => absences[g] >= 1
Looked(p) ==
    LET g == proc[p].g IN
    rearms[g] = 0 /\ RearmEnabled /\ ReadAbsent(p) =>
      /\ absences[g] >= 1
      /\ grant[g].marker.state # "none" /\ grant[g].marker.count >= 1 => absences[g] >= 2
AbsencesCover == (\A g \in Grants : Observed(g)) /\ (\A p \in Procs : Looked(p))

\* What a step does to a marker, and to a process that has read the inventory.
LEMMA MarkerChanges ==
    ASSUME Inv, [Next]_vars, NEW g \in Grants, grant'[g].status = "PENDING", rearms'[g] = 0
    PROVE  /\ grant[g].status = "PENDING" /\ rearms[g] = 0
           /\ grant'[g].marker = grant[g].marker \/ MarkedNow(g)
  <1>1. rearms[g] \in Nat
    BY DEF Inv, FenceInv, Rows
  <1>2. CASE RowStep
    <2>1. RowChange(g) /\ grant'[g].status = grant[g].status /\ rearms' = rearms
      BY <1>2, RowChanges DEF RowStep
    <2> QED
      BY <2>1 DEF RowChange, Barred, Retried, ClearedNow, Restored
  <1>3. CASE AdoptStep
    BY <1>3 DEF AdoptStep, OthersKept
  <1>4. CASE RearmStep
    <2>1. PICK h \in Grants : OthersKept(h) /\ rearms' = [rearms EXCEPT ![h] = @ + 1]
      BY <1>4 DEF RearmStep
    <2>2. h # g
      BY <1>1, <2>1 DEF Inv, FenceInv, Rows
    <2> QED
      BY <2>1, <2>2 DEF OthersKept
  <1>5. CASE ClaimStep \/ BeginStep
    BY <1>5 DEF ClaimStep, BeginStep, OthersKept
  <1>6. CASE TickStep \/ ReadStep \/ AdvanceStep
    BY <1>6 DEF TickStep, ReadStep, AdvanceStep
  <1>7. ASSUME NEW t \in Tokens, CallStep(t)
        PROVE  /\ grant[g].status = "PENDING" /\ rearms[g] = 0
               /\ grant'[g].marker = grant[g].marker
    BY <1>7 DEF CallStep, Failed, Activated, OthersKept
  <1> QED
    BY <1>2, <1>3, <1>4, <1>5, <1>6, <1>7, Kinds

LEMMA ReaderChanges ==
    ASSUME Inv, [Next]_vars, NEW q \in Procs, proc'[q].pc = "read", q \notin moved'
    PROVE  \/ /\ proc'[q] = proc[q] /\ q \notin moved
              /\ grant'[proc[q].g] = grant[proc[q].g]
           \/ /\ proc'[q].g = proc[q].g /\ proc'[q].inventory = live /\ q \notin moved
              /\ grant' = grant /\ rearms' = rearms
              /\ live = {} => Raised(proc[q].g)
  <1>1. CASE RowStep \/ AdoptStep \/ RearmStep
    <2>1. ProcKept(q) /\ Unread(q)
      BY <1>1 DEF RowStep, AdoptStep, RearmStep, ProcsKept
    <2> QED
      BY <2>1 DEF ProcKept, Unread
  <1>2. CASE ClaimStep \/ BeginStep
    <2>1. proc'[q] = proc[q] /\ Unread(q)
      BY <1>2 DEF ClaimStep, BeginStep
    <2> QED
      BY <2>1 DEF Unread
  <1>3. CASE TickStep
    BY <1>3 DEF TickStep
  <1>4. CASE ReadStep
    BY <1>4 DEF ReadStep
  <1>5. CASE AdvanceStep
    BY <1>5 DEF AdvanceStep
  <1>6. ASSUME NEW t \in Tokens, CallStep(t)
        PROVE  proc'[q] = proc[q] /\ q \notin moved /\ grant'[proc[q].g] = grant[proc[q].g]
    BY <1>6 DEF CallStep, Unread
  <1> QED
    BY <1>1, <1>2, <1>3, <1>4, <1>5, <1>6, Kinds

LEMMA AbsencesStep ==
    ASSUME Inv, Inv', AbsencesCover, [Next]_vars
    PROVE  AbsencesCover'
  <1>1. Remembered /\ Rows /\ Rows'
    BY StepRemembers DEF Inv, FenceInv
  <1>2. ASSUME NEW g \in Grants, rearms'[g] = 0, RearmEnabled, grant'[g].status = "PENDING",
               grant'[g].marker.state # "none", grant'[g].marker.count >= 1
        PROVE  absences'[g] >= 1
    <2>1. /\ grant[g].status = "PENDING" /\ rearms[g] = 0
          /\ grant'[g].marker = grant[g].marker \/ MarkedNow(g)
      BY <1>2, MarkerChanges
    <2>2. grant'[g].op = "AMBIGUOUS"
      BY <1>2 DEF Inv, MarkersCover, Marked0
    <2>3. CASE grant'[g].marker = grant[g].marker
      <3>1. grant[g].op = "AMBIGUOUS"
        BY <1>2, <2>1, <2>3 DEF Inv, MarkersCover, Marked0
      <3>2. absences[g] >= 1
        BY <1>2, <2>1, <2>3 DEF AbsencesCover, Observed
      <3> QED
        BY <1>1, <2>2, <3>1, <3>2 DEF Remembered, Kept
    <2>4. CASE MarkedNow(g)
      <3>1. PICK p \in Procs : ReadAbsent(p) /\ proc[p].g = g
        BY <1>2, <2>4 DEF MarkedNow
      <3>2. absences[g] >= 1
        BY <1>2, <2>1, <3>1 DEF AbsencesCover, Looked
      <3> QED
        BY <1>1, <2>2, <2>4, <3>2 DEF Remembered, Kept, MarkedNow
    <2> QED
      BY <2>1, <2>3, <2>4
  <1>3. ASSUME NEW q \in Procs, rearms'[proc'[q].g] = 0, RearmEnabled, ReadAbsent(q)'
        PROVE  /\ absences'[proc'[q].g] >= 1
               /\ grant'[proc'[q].g].marker.state # "none" /\ grant'[proc'[q].g].marker.count >= 1
                    => absences'[proc'[q].g] >= 2
    <2>1. proc'[q].pc = "read" /\ q \notin moved' /\ proc'[q].inventory = {}
          /\ grant'[proc'[q].g].status = "PENDING" /\ grant'[proc'[q].g].op = "AMBIGUOUS"
      BY <1>3 DEF ReadAbsent
    <2>2. PICK g \in Grants : proc[q].g = g
      BY <1>1 DEF Rows, ProcState
    <2>3. CASE proc'[q] = proc[q] /\ q \notin moved /\ grant'[g] = grant[g]
      <3>1. ReadAbsent(q) /\ rearms[g] = 0
        BY <1>3, <2>1, <2>2, <2>3, MarkerChanges DEF ReadAbsent
      <3>2. /\ absences[g] >= 1
            /\ grant[g].marker.state # "none" /\ grant[g].marker.count >= 1 => absences[g] >= 2
        BY <1>3, <2>2, <3>1 DEF AbsencesCover, Looked
      <3>3. Kept(g)
        BY <1>1, <2>1, <2>2, <2>3 DEF Remembered
      <3> QED
        BY <2>2, <2>3, <3>2, <3>3 DEF Kept
    <2>4. CASE /\ proc'[q].g = g /\ proc'[q].inventory = live
               /\ grant' = grant /\ rearms' = rearms
               /\ live = {} => Raised(g)
      <3>1. Raised(g)
        BY <2>1, <2>4
      <3>2. grant[g].marker.state # "none" /\ grant[g].marker.count >= 1 => absences[g] >= 1
        BY <1>3, <2>1, <2>4 DEF AbsencesCover, Observed
      <3> QED
        BY <2>4, <3>1, <3>2 DEF Raised
    <2> QED
      BY <2>1, <2>2, <2>3, <2>4, ReaderChanges
  <1> QED
    BY <1>2, <1>3 DEF AbsencesCover, Observed, Looked

\* A grant is re-armed for the first time only after its present ambiguity was read as
\* absent twice, whichever processes read it and whichever of them lost their races (the
\* marker's count starts empty then, as the E15 test of repeated absence supposes).
THEOREM FirstRearmObserved == Spec => FirstRearmAfterTwoAbsences
  <1> DEFINE Known == Inv /\ clock <= MaxClock /\ AbsencesCover
  <1>1. Init => Known
    <2> SUFFICES ASSUME Init PROVE AbsencesCover
      BY Starts DEF Known
    <2>1. \A g \in Grants : grant[g].marker = NoMarker
      BY DEF Init
    <2>2. \A p \in Procs : proc[p].pc = "idle"
      BY RestingType, Zero DEF Init
    <2> QED
      BY <2>1, <2>2, NoMarkerType DEF AbsencesCover, Observed, Looked, ReadAbsent
  <1>2. Known /\ [Next]_vars => Known'
    BY Steps, AbsencesStep
  <1>3. Known /\ [Next]_vars =>
          [\A g \in Grants : rearms[g] = 0 /\ rearms'[g] > rearms[g] => absences[g] >= 2]_vars
    <2> SUFFICES ASSUME Known, [Next]_vars, NEW g \in Grants, rearms[g] = 0, rearms'[g] > rearms[g]
                 PROVE  absences[g] >= 2
      OBVIOUS
    <2>1. rearms' # rearms
      BY DEF Inv, FenceInv, Rows
    <2>2. RearmStep
      BY <2>1, Kinds
      DEF RowStep, AdoptStep, ClaimStep, BeginStep, TickStep, ReadStep, AdvanceStep, CallStep
    <2>3. PICK p \in Procs, h \in Grants :
                /\ rearms' = [rearms EXCEPT ![h] = @ + 1] /\ proc[p].g = h /\ RearmEnabled
                /\ rearms[h] = 0 =>
                     ReadAbsent(p) /\ grant[h].marker.state # "none" /\ grant[h].marker.count >= 1
      BY <2>2 DEF RearmStep
    <2>4. h = g
      BY <2>3 DEF Inv, FenceInv, Rows
    <2> QED
      BY <2>3, <2>4 DEF AbsencesCover, Looked
  <1> QED
    BY <1>1, <1>2, <1>3, PTL DEF Spec, FirstRearmAfterTwoAbsences
=============================================================================
