-------------------------- MODULE GuestAccessFence --------------------------
(***************************************************************************)
(* Provisioning a guest's door passcode: the E14 admission fence, the     *)
(* physical call to the lock provider behind it, and the E15 cycle that    *)
(* settles the calls nobody saw the end of (src/src/e14, src/src/e15,      *)
(* services/ttlock/ttlock.brain.ts, guest-passcode-provision.service.ts).  *)
(*                                                                         *)
(* One reservation on one lock.  Every process runs the worker's tick:     *)
(* stale fences are recovered, a grant is claimed and its passcode is      *)
(* created behind a time limit the call may outlive, and ambiguous grants  *)
(* are compared with the provider's inventory.  A tick reads the clock     *)
(* once, when it starts.  The provider is external: a request it has       *)
(* received creates a passcode within EffectMs of the start of the         *)
(* execution, or never.                                                    *)
(***************************************************************************)
EXTENDS Integers, FiniteSets, FiniteSetsExt

CONSTANTS
    Grants,          \* the passcode grants of the reservation
    Procs,           \* the worker processes (replicas)
    WindowOf,        \* [Grants -> stay windows]: startsAt and endsAt of a grant
    Codes,           \* candidate codes of a custom passcode, in order of preference
    Custom,          \* the lock has a gateway: custom passcodes with a saved plan
    AccessOwner,     \* the guest journey's ACCESS owner provisions, not the legacy worker
    E15Enabled,      \* the reconciliation cycle runs
    RearmEnabled,    \* it may re-arm a grant after a confirmed absence
    MaxAttempts,     \* 7 in the code
    LeaseMs, RetryMs, PhysicalMs, LockMs, AbsenceMinMs,
    EffectMs,        \* how late after its start an execution may still create a passcode
    TickMs,          \* bound: how long a tick may last
    MaxClock,        \* bound: the horizon
    MaxClaims,       \* bound: claims ever made
    MaxFaults        \* bound: crashes, failed writes, failed cleanups, requirements
                     \* withdrawn by the guest, cancellations and window changes

ASSUME FenceAssumption ==
    /\ Grants # {} /\ Procs # {} /\ IsFiniteSet(Grants)
    /\ Codes \subseteq Nat
    /\ Custom \in BOOLEAN /\ AccessOwner \in BOOLEAN
    /\ E15Enabled \in BOOLEAN /\ RearmEnabled \in BOOLEAN
    /\ MaxAttempts \in Nat
    /\ LeaseMs \in Nat /\ RetryMs \in Nat /\ PhysicalMs \in Nat /\ LockMs \in Nat
    /\ AbsenceMinMs \in Nat /\ EffectMs \in Nat /\ TickMs \in Nat
    /\ MaxClock \in Nat /\ MaxClaims \in Nat /\ MaxFaults \in Nat

NoToken == 0
Tokens == 1 .. MaxClaims
Windows == {WindowOf[g] : g \in Grants}

VARIABLES
    clock,
    grant,           \* the AccessGrant rows
    plan,            \* customPasscodePlan of each grant's payload
    reservation,     \* the Reservation row
    proc,            \* where each process is in its tick
    moved,           \* processes whose grant was written since they scanned it
    call,            \* the physical calls, one for each claim that began executing
    pending,         \* calls whose request the provider has not settled
    live,            \* passcodes the lock accepts, named by the call that made them
    claims,          \* claims made so far (the lease tokens given out)
    rearms,          \* history: re-arms of each grant
    absences,        \* history: absent readings in each grant's present ambiguity (to 2)
    faults

vars == <<clock, grant, plan, reservation, proc, moved, call, pending, live,
          claims, rearms, absences, faults>>

FenceStates == {"IDLE", "RETRYABLE", "CLAIMED", "EXECUTING", "AMBIGUOUS", "EXHAUSTED"}
NoMarker == [state |-> "none", count |-> 0, at |-> 0, seen |-> {}]
NoPlan == [state |-> "none", code |-> 0, at |-> 0, rejected |-> {}]
NoCall == [pc |-> "none", grant |-> CHOOSE g \in Grants : TRUE, owner |-> CHOOSE p \in Procs : TRUE,
           at |-> 0, code |-> 0, pass |-> 0]
Resting(at) == [pc |-> "idle", now |-> at, g |-> CHOOSE g \in Grants : TRUE,
                token |-> NoToken, prev |-> [op |-> "IDLE", attempts |-> 0, nextAt |-> 0],
                window |-> CHOOSE w \in Windows : TRUE, inventory |-> {}]

Init ==
    /\ clock = 0
    /\ grant = [g \in Grants |->
                  [status |-> "PENDING", op |-> "IDLE", token |-> NoToken, attempts |-> 0,
                   nextAt |-> 0, exhausted |-> FALSE, pwd |-> NoToken, marker |-> NoMarker]]
    /\ plan = [g \in Grants |-> NoPlan]
    /\ reservation \in [live : {TRUE}, release : {"ELIGIBLE"}, window : Windows]
    /\ proc = [p \in Procs |-> Resting(0)]
    /\ moved = {}
    /\ call = [t \in Tokens |-> NoCall]
    /\ pending = {} /\ live = {} /\ claims = 0 /\ faults = 0
    /\ rearms = [g \in Grants |-> 0]
    /\ absences = [g \in Grants |-> 0]

-----------------------------------------------------------------------------
(* The rows.                                                               *)

Canonical(g) == grant[g].status = "PENDING" /\ WindowOf[g] = reservation.window
Evidence(g) == grant[g].status = "ACTIVE" /\ grant[g].pwd # NoToken
Eligible == reservation.live /\ reservation.release = "ELIGIBLE"

ProvisioningSatisfied ==
    reservation.release = "RELEASED"
      /\ \E g \in Grants : Evidence(g) /\ WindowOf[g] = reservation.window

Cleared(r) == [r EXCEPT !.op = "IDLE", !.token = NoToken, !.attempts = 0, !.nextAt = 0,
                        !.exhausted = FALSE]
Quarantined_KeepsLease(r) == [r EXCEPT !.op = "AMBIGUOUS", !.nextAt = 0, !.exhausted = TRUE]
Quarantined(r) == [r EXCEPT !.op = "AMBIGUOUS", !.token = NoToken, !.nextAt = 0,
                            !.exhausted = TRUE]
Exhausted(r) == [r EXCEPT !.op = "EXHAUSTED", !.token = NoToken, !.nextAt = 0,
                          !.exhausted = TRUE]
BudgetLeft_OneMore(r) == r.attempts <= MaxAttempts
BudgetLeft(r) == r.attempts < MaxAttempts
\* calculateGuestAccessProvisionRetryAt: no delay is left after the last attempt.
BackedOff(r, now) ==
    IF BudgetLeft(r)
    THEN [r EXCEPT !.op = "RETRYABLE", !.token = NoToken, !.nextAt = now + RetryMs,
                   !.exhausted = FALSE]
    ELSE Exhausted(r)

\* Every write of the row moves its updatedAt on, which E15's writes compare.
Overtaken(g) == {p \in Procs : proc[p].pc \in {"scanned", "read", "partial"} /\ proc[p].g = g}
WriteBy(writers, g, r) ==
    /\ grant' = [grant EXCEPT ![g] = r]
    /\ moved' = (moved \cup Overtaken(g)) \ writers
    /\ absences' = IF r.op = "AMBIGUOUS" /\ grant[g].op = "AMBIGUOUS" THEN absences
                   ELSE [absences EXCEPT ![g] = 0]
Write(g, r) == WriteBy({}, g, r)
NoWrite == UNCHANGED <<grant, moved, absences>>

\* blockingSiblingReason, and isBlockingSibling in E15.
Blocking(g) == grant[g].status = "ACTIVE" \/ grant[g].exhausted \/ grant[g].op # "IDLE"
SiblingsClear_Unchecked(g) == TRUE
SiblingsClear(g) == \A h \in Grants \ {g} : ~Blocking(h)

Goto(p, pc) == proc' = [proc EXCEPT ![p].pc = pc]
Ended(t, result) ==
    call' = [call EXCEPT ![t].pc = result,
                         ![t].pass = IF result = "cleanup" THEN @ ELSE NoToken]
Back(p, pc) == proc' = [proc EXCEPT ![p] = [Resting(@.now) EXCEPT !.pc = pc]]

-----------------------------------------------------------------------------
(* A tick and its phases, in the worker's order.                           *)

StartTick(p) ==
    /\ proc[p].pc = "idle"
    /\ proc' = [proc EXCEPT ![p] = [Resting(clock) EXCEPT !.pc = "recover"]]
    /\ UNCHANGED <<clock, grant, plan, reservation, moved, call, pending, live, claims,
                   rearms, absences, faults>>

NextPhase(p) ==
    /\ proc[p].pc \in {"recover", "provision", "reconcile"}
    /\ proc' = [proc EXCEPT ![p] =
                  CASE @.pc = "recover" -> [@ EXCEPT !.pc = "provision"]
                    [] @.pc = "provision" -> [@ EXCEPT !.pc = "reconcile"]
                    [] OTHER -> Resting(0)]
    /\ UNCHANGED <<clock, grant, plan, reservation, moved, call, pending, live, claims,
                   rearms, absences, faults>>

\* processGuestAccessReleaseRepairs: an active grant with its evidence is released.
RepairRelease(p, g) ==
    /\ proc[p].pc = "recover"
    /\ Evidence(g) /\ reservation.live /\ reservation.release # "RELEASED"
    /\ reservation' = [reservation EXCEPT !.release = "RELEASED"]
    /\ NoWrite
    /\ UNCHANGED <<clock, plan, proc, call, pending, live, claims, rearms, faults>>

\* recoverStaleGuestAccessProvisioningFences, one grant of its loop.
LeaseOver(g, now) == grant[g].nextAt <= now
RecoverActive(p, g) ==
    /\ proc[p].pc = "recover"
    /\ grant[g].status = "ACTIVE" /\ grant[g].op # "IDLE"
    /\ IF Evidence(g) /\ ~E15Enabled
       THEN Write(g, Cleared(grant[g]))
       ELSE /\ ~(grant[g].op = "AMBIGUOUS" /\ grant[g].nextAt = 0)
            /\ Write(g, Quarantined(grant[g]))
    /\ UNCHANGED <<clock, plan, reservation, proc, call, pending, live, claims, rearms, faults>>
RecoverPending(p, g) ==
    /\ proc[p].pc = "recover"
    /\ grant[g].status = "PENDING" /\ LeaseOver(g, proc[p].now)
    /\ \/ /\ grant[g].op = "CLAIMED"
          /\ Write(g, BackedOff(grant[g], proc[p].now))
       \/ /\ grant[g].op = "EXECUTING"
          /\ Write(g, Quarantined(grant[g]))
    /\ UNCHANGED <<clock, plan, reservation, proc, call, pending, live, claims, rearms, faults>>

-----------------------------------------------------------------------------
(* executeGuestAccessProvisioningWithFence.                                *)

\* The access owner hands its tick's time down, the legacy worker reads the clock.
FenceNow(p) == IF AccessOwner THEN proc[p].now ELSE clock
\* selectGuestAccessReservationTarget; the owner takes canonical grants only.
Target(g) ==
    /\ grant[g].status = "PENDING"
    /\ Canonical(g) \/ (~AccessOwner /\ \A h \in Grants : ~Canonical(h))
Due(g, now) ==
    /\ ~grant[g].exhausted
    /\ grant[g].op = "IDLE" \/ (grant[g].op = "RETRYABLE" /\ grant[g].nextAt <= now)

\* claimGuestAccessProvisioning, one transaction under the reservation's row lock.
Claim(p, g) ==
    /\ proc[p].pc = "provision"
    /\ Target(g) /\ Eligible /\ SiblingsClear(g)
    /\ {h \in Grants : Canonical(h)} = {g}
    /\ Due(g, FenceNow(p)) /\ BudgetLeft(grant[g])
    /\ claims < MaxClaims
    /\ LET t == claims + 1 IN
       /\ claims' = t
       /\ Write(g, [grant[g] EXCEPT !.op = "CLAIMED", !.token = t, !.attempts = @ + 1,
                                    !.nextAt = FenceNow(p) + LeaseMs, !.exhausted = FALSE])
       /\ proc' = [proc EXCEPT ![p] =
                     [@ EXCEPT !.pc = "claimed", !.g = g, !.token = t, !.window = reservation.window,
                               !.prev = [op |-> grant[g].op, attempts |-> grant[g].attempts,
                                         nextAt |-> grant[g].nextAt]]]
    /\ UNCHANGED <<clock, plan, reservation, call, pending, live, rearms, faults>>

\* The canonical set is not exactly one grant, or the attempts are used up.
ClaimRefused(p, g) ==
    /\ proc[p].pc = "provision"
    /\ Target(g) /\ Eligible /\ SiblingsClear(g)
    /\ \/ /\ Cardinality({h \in Grants : Canonical(h)}) # 1
          /\ Write(g, Quarantined(grant[g]))
       \/ /\ {h \in Grants : Canonical(h)} = {g}
          /\ Due(g, FenceNow(p)) /\ ~BudgetLeft(grant[g])
          /\ Write(g, Exhausted(grant[g]))
    /\ UNCHANGED <<clock, plan, reservation, proc, call, pending, live, claims, rearms, faults>>

Holds(p, op) == grant[proc[p].g].op = op /\ grant[proc[p].g].token = proc[p].token
\* releaseGuestAccessProvisioningForEvidence: the fence as it was before the claim.
RestoreFence(p) ==
    LET g == proc[p].g IN
    IF Holds(p, "CLAIMED") /\ grant[g].status = "PENDING"
    THEN Write(g, [grant[g] EXCEPT !.op = proc[p].prev.op, !.token = NoToken,
                     !.attempts = proc[p].prev.attempts, !.nextAt = proc[p].prev.nextAt])
    ELSE NoWrite

\* evaluateGuestAccessReadiness decides and persists the release status.
Evaluated(ready) ==
    [reservation EXCEPT !.release = IF ~ready THEN "BLOCKED"
                                    ELSE IF @ = "RELEASED" THEN @ ELSE "ELIGIBLE"]
CheckReadiness(p) ==
    /\ proc[p].pc = "claimed"
    /\ \E ready \in BOOLEAN :
         /\ ready => reservation.live
         /\ reservation' = Evaluated(ready)
         /\ \/ ready /\ Goto(p, "ready") /\ NoWrite /\ UNCHANGED faults
            \/ /\ ~ready /\ Back(p, "provision") /\ RestoreFence(p)
               /\ IF reservation.live THEN faults < MaxFaults /\ faults' = faults + 1
                  ELSE UNCHANGED faults
    /\ UNCHANGED <<clock, plan, call, pending, live, claims, rearms>>

\* completeGuestAccessProvisioningPreBoundaryFailure: a step before the boundary threw.
PreBoundaryFailure(p) ==
    /\ proc[p].pc \in {"claimed", "ready"}
    /\ faults < MaxFaults /\ faults' = faults + 1
    /\ IF Holds(p, "CLAIMED") /\ grant[proc[p].g].status = "PENDING"
       THEN Write(proc[p].g, BackedOff(grant[proc[p].g], clock))
       ELSE NoWrite
    /\ Back(p, "provision")
    /\ UNCHANGED <<clock, plan, reservation, call, pending, live, claims, rearms>>

\* beginGuestAccessProvisioningExecution, and the start of the physical call.
MayBegin(p) ==
    LET g == proc[p].g IN
    /\ Holds(p, "CLAIMED") /\ grant[g].status = "PENDING"
    /\ grant[g].nextAt > FenceNow(p) /\ Eligible
Begin(p) ==
    /\ proc[p].pc = "ready"
    /\ LET g == proc[p].g  t == proc[p].token IN
       IF MayBegin(p)
       THEN /\ Write(g, [grant[g] EXCEPT !.op = "EXECUTING", !.nextAt = FenceNow(p) + LeaseMs])
            /\ call' = [call EXCEPT ![t] = [NoCall EXCEPT !.pc = "begun", !.grant = g,
                                                          !.owner = p, !.at = clock]]
            /\ Goto(p, "waiting")
       ELSE /\ RestoreFence(p) /\ Back(p, "provision") /\ UNCHANGED call
    /\ UNCHANGED <<clock, plan, reservation, pending, live, claims, rearms, faults>>

\* completeGuestAccessProvisioningFailure.
FailAmbiguous_Retried(p) ==
    IF Holds(p, "EXECUTING") THEN Write(proc[p].g, BackedOff(grant[proc[p].g], clock)) ELSE NoWrite
FailAmbiguous(p) ==
    IF Holds(p, "EXECUTING") THEN Write(proc[p].g, Quarantined(grant[proc[p].g])) ELSE NoWrite
FailRetryable(p) ==
    LET g == proc[p].g IN
    IF Holds(p, "EXECUTING")
    THEN Write(g, IF grant[g].status = "PENDING" \/ ~BudgetLeft(grant[g])
                  THEN BackedOff(grant[g], clock) ELSE Quarantined(grant[g]))
    ELSE NoWrite

\* completeGuestAccessProvisioningSuccess: durable evidence, and the fence if still held.
Finish(p) ==
    /\ proc[p].pc = "waiting"
    /\ LET g == proc[p].g  result == call[proc[p].token].pc IN
       \/ /\ result = "ok" /\ Evidence(g)
          /\ IF Holds(p, "EXECUTING") THEN Write(g, Cleared(grant[g])) ELSE NoWrite
          /\ Goto(p, "succeeded")
       \/ /\ result = "ok" /\ ~Evidence(g)
          /\ FailAmbiguous(p) /\ Back(p, "provision")
       \/ /\ result = "retry"
          /\ FailRetryable(p) /\ Back(p, "provision")
       \/ /\ result = "failed"
          /\ FailAmbiguous(p) /\ Back(p, "provision")
    /\ Ended(proc[p].token, "ended")
    /\ UNCHANGED <<clock, plan, reservation, pending, live, claims, rearms, faults>>

\* withPhysicalTimeout gives up waiting; the call itself goes on.
PhysicalTimeout(p) ==
    /\ proc[p].pc = "waiting"
    /\ call[proc[p].token].pc \notin {"ok", "retry", "failed"}
    /\ clock >= call[proc[p].token].at + PhysicalMs
    /\ FailAmbiguous(p) /\ Back(p, "provision")
    /\ UNCHANGED <<clock, plan, reservation, call, pending, live, claims, rearms, faults>>

\* The caller releases the reservation: the owner compares the row it loaded and
\* quarantines the grant when that fails, the legacy worker writes by id.
ReleaseAccess(p) ==
    /\ proc[p].pc = "succeeded"
    /\ IF ~AccessOwner \/ (Eligible /\ reservation.window = proc[p].window)
       THEN /\ reservation' = [reservation EXCEPT !.release = "RELEASED"] /\ NoWrite
       ELSE /\ UNCHANGED reservation
            /\ IF Evidence(proc[p].g) /\ ~ProvisioningSatisfied
               THEN Write(proc[p].g, Quarantined(grant[proc[p].g])) ELSE NoWrite
    /\ Back(p, "provision")
    /\ UNCHANGED <<clock, plan, call, pending, live, claims, rearms, faults>>

-----------------------------------------------------------------------------
(* activateGrant: the physical call, which goes on after the fence has      *)
(* given up on it.                                                         *)

CodeOf(t) == call[t].code
SameStay(t, g) == WindowOf[call[t].grant] = WindowOf[g]
\* pg_try_advisory_xact_lock, held until its transaction's own time limit.
LockBusy(t) ==
    \E u \in Tokens \ {t} : call[u].pc \in {"planned", "sent", "got"} /\ clock < call[u].at + LockMs
CallAllowed(t) ==
    LET g == call[t].grant IN
    grant[g].status = "PENDING" /\ grant[g].pwd = NoToken /\ reservation.live
CallOnly == UNCHANGED <<clock, reservation, proc, claims, rearms>>

\* Before anything is sent: the lock, the grant's row, the readiness, the gateway.
CallRefused(t) ==
    /\ call[t].pc = "begun"
    /\ \/ LockBusy(t) /\ Ended(t, "retry") /\ UNCHANGED faults
       \/ ~LockBusy(t) /\ ~CallAllowed(t) /\ Ended(t, "failed") /\ UNCHANGED faults
       \/ /\ ~LockBusy(t) /\ CallAllowed(t) /\ Ended(t, "retry")    \* gateway or inventory unknown
          /\ faults < MaxFaults /\ faults' = faults + 1
    /\ NoWrite /\ CallOnly /\ UNCHANGED <<plan, pending, live>>
MayCall(t) == call[t].pc = "begun" /\ ~LockBusy(t) /\ CallAllowed(t)

\* A lock without a gateway: the provider generates the code.
SendTimed(t) ==
    /\ ~Custom /\ MayCall(t)
    /\ Ended(t, "sent") /\ pending' = pending \cup {t}
    /\ NoWrite /\ CallOnly /\ UNCHANGED <<plan, live, faults>>

Free(code, g) == code \notin plan[g].rejected /\ \A u \in live : CodeOf(u) # code
\* The plan's own code while it is free, otherwise the preferred free candidate.
Choose(t, g) ==
    LET free == {c \in Codes : Free(c, g)} IN
    IF free = {} THEN Ended(t, "retry")
    ELSE call' = [call EXCEPT ![t].pc = "planned",
                              ![t].code = IF plan[g].code \in free THEN plan[g].code ELSE Min(free)]
\* A custom passcode: the inventory is read and a candidate is chosen.
PlanNew(t) ==
    /\ Custom /\ MayCall(t)
    /\ LET g == call[t].grant IN
       \/ plan[g].state \in {"none", "READY"}
       \/ /\ plan[g].state = "SUBMITTED"      \* re-armed after a confirmed absence
          /\ grant[g].marker.state = "REARMED" /\ grant[g].marker.at > plan[g].at
          /\ live = {}
    /\ Choose(t, call[t].grant)
    /\ NoWrite /\ CallOnly /\ UNCHANGED <<plan, pending, live, faults>>

\* A plan that was submitted before: its own passcode is found, or the call gives up.
Found(t) ==
    LET g == call[t].grant IN {u \in live : CodeOf(u) = plan[g].code /\ SameStay(u, g)}
PlanFound(t) ==
    /\ Custom /\ MayCall(t)
    /\ LET g == call[t].grant IN
       /\ plan[g].state \in {"SUBMITTED", "CONFIRMED"}
       /\ \/ /\ Cardinality(Found(t)) = 1
             /\ plan' = [plan EXCEPT ![g].state = "CONFIRMED"]
             /\ call' = [call EXCEPT ![t].pc = "got", ![t].pass = CHOOSE u \in Found(t) : TRUE]
             /\ Write(g, grant[g])
          \/ /\ Cardinality(Found(t)) # 1
             /\ ~(/\ plan[g].state = "SUBMITTED" /\ grant[g].marker.state = "REARMED"
                  /\ grant[g].marker.at > plan[g].at /\ live = {})
             /\ Ended(t, "failed") /\ UNCHANGED plan /\ NoWrite
    /\ CallOnly /\ UNCHANGED <<pending, live, faults>>

\* savePlan, conditional on the grant, then the request.
SendCustom(t) ==
    /\ call[t].pc = "planned"
    /\ LET g == call[t].grant IN
       IF grant[g].status = "PENDING" /\ grant[g].pwd = NoToken
       THEN /\ plan' = [plan EXCEPT ![g] = [@ EXCEPT !.state = "SUBMITTED", !.code = CodeOf(t), !.at = clock]]
            /\ Write(g, grant[g])
            /\ Ended(t, "sent") /\ pending' = pending \cup {t}
       ELSE Ended(t, "failed") /\ NoWrite /\ UNCHANGED <<plan, pending>>
    /\ CallOnly /\ UNCHANGED <<live, faults>>

\* The provider settles a request: a passcode, nothing, or for a custom code a
\* refusal: the code exists already, here or for a guest of another reservation
\* (a fault), or the gateway could not be reached (a fault).
Taken(t) == \E u \in live : CodeOf(u) = CodeOf(t)
ProviderSettles(t) ==
    /\ t \in pending
    /\ pending' = pending \ {t}
    /\ \/ (~Custom \/ ~Taken(t)) /\ live' = live \cup {t} /\ UNCHANGED <<call, faults>>
       \/ UNCHANGED <<live, call, faults>>
       \/ /\ Custom /\ call[t].pc = "sent" /\ UNCHANGED live
          /\ \/ Taken(t) /\ Ended(t, "duplicate") /\ UNCHANGED faults
             \/ /\ faults < MaxFaults /\ faults' = faults + 1
                /\ Ended(t, "duplicate") \/ Ended(t, "rejected")
    /\ NoWrite /\ CallOnly /\ UNCHANGED plan

\* A refused request left nothing: the plan is ready again, for the next free
\* candidate or for a later call.
ResumePlan(t) ==
    /\ call[t].pc \in {"duplicate", "rejected"}
    /\ LET g == call[t].grant
           left == {c \in Codes \ {CodeOf(t)} : Free(c, g)} IN
       IF grant[g].status = "PENDING" /\ grant[g].pwd = NoToken
       THEN /\ plan' = [plan EXCEPT ![g].state = "READY",
                            ![g].rejected = IF call[t].pc = "duplicate" THEN @ \cup {CodeOf(t)} ELSE @]
            /\ Write(g, grant[g])
            /\ IF call[t].pc = "rejected" \/ left = {} THEN Ended(t, "retry")
               ELSE call' = [call EXCEPT ![t].pc = "planned", ![t].code = Min(left)]
       ELSE Ended(t, "failed") /\ NoWrite /\ UNCHANGED plan
    /\ CallOnly /\ UNCHANGED <<pending, live, faults>>

\* The answer arrives, or the request ends in an error that says nothing.
Answered(t) ==
    /\ call[t].pc = "sent" /\ t \in live
    /\ call' = [call EXCEPT ![t].pc = "got", ![t].pass = t]
    /\ LET g == call[t].grant IN
       IF Custom /\ grant[g].status = "PENDING" /\ grant[g].pwd = NoToken
       THEN plan' = [plan EXCEPT ![g].state = "CONFIRMED"] /\ Write(g, grant[g])
       ELSE UNCHANGED plan /\ NoWrite
    /\ CallOnly /\ UNCHANGED <<pending, live, faults>>
\* An answer without a usable code marks the grant failed, whatever it is by now.
IncompleteAnswer(t) ==
    /\ ~Custom /\ call[t].pc = "sent" /\ faults < MaxFaults /\ faults' = faults + 1
    /\ Write(call[t].grant, [grant[call[t].grant] EXCEPT !.status = "FAILED"])
    /\ Ended(t, "failed") /\ CallOnly /\ UNCHANGED <<plan, pending, live>>
CallErrs(t) ==
    /\ call[t].pc = "sent"
    /\ Ended(t, "failed")
    /\ NoWrite /\ CallOnly /\ UNCHANGED <<plan, pending, live, faults>>

\* The grant becomes active with the passcode and its code, in one transaction.
\* When that fails the passcode of a gateway-less lock is deleted again.
AfterLostPersist_Deletes == "cleanup"
AfterLostPersist == IF Custom THEN "failed" ELSE "cleanup"
Persist(t) ==
    /\ call[t].pc = "got"
    /\ LET g == call[t].grant IN
       \/ /\ grant[g].status = "PENDING" /\ grant[g].pwd = NoToken
          /\ Write(g, [grant[g] EXCEPT !.status = "ACTIVE", !.pwd = call[t].pass])
          /\ Ended(t, "ok") /\ UNCHANGED faults
       \/ /\ IF grant[g].status = "PENDING" /\ grant[g].pwd = NoToken
             THEN faults < MaxFaults /\ faults' = faults + 1    \* the write itself fails
             ELSE UNCHANGED faults
          /\ Ended(t, AfterLostPersist) /\ NoWrite
    /\ CallOnly /\ UNCHANGED <<plan, pending, live>>
Cleanup(t) ==
    /\ call[t].pc = "cleanup"
    /\ \/ live' = live \ {call[t].pass} /\ UNCHANGED faults
       \/ faults < MaxFaults /\ faults' = faults + 1 /\ UNCHANGED live
    /\ Ended(t, "failed")
    /\ NoWrite /\ CallOnly /\ UNCHANGED <<plan, pending>>

-----------------------------------------------------------------------------
(* runGuestAccessAmbiguityReconciliationCycle, one grant of its loop: the   *)
(* row, then the provider's inventory, then one conditional write.         *)

ScanAmbiguous(p, g) ==
    /\ E15Enabled /\ proc[p].pc = "reconcile"
    /\ grant[g].op = "AMBIGUOUS" /\ grant[g].status \in {"PENDING", "ACTIVE"} /\ Eligible
    /\ proc' = [proc EXCEPT ![p].pc = "scanned", ![p].g = g]
    /\ UNCHANGED <<clock, grant, plan, reservation, moved, call, pending, live, claims,
                   rearms, absences, faults>>

Exact(inventory, g) == {t \in inventory : SameStay(t, g)}
ReadInventory(p) ==
    /\ proc[p].pc = "scanned"
    /\ \/ /\ proc' = [proc EXCEPT ![p].pc = "read", ![p].inventory = live]
          /\ absences' = IF live = {} /\ p \notin moved
                         THEN [absences EXCEPT ![proc[p].g] = Min({2, @ + 1})] ELSE absences
          /\ UNCHANGED <<moved, faults>>
       \/ /\ faults < MaxFaults /\ faults' = faults + 1      \* not every page was read
          /\ proc' = [proc EXCEPT ![p].pc = "partial", ![p].inventory = live]
          /\ UNCHANGED <<moved, absences>>
       \/ /\ faults < MaxFaults /\ faults' = faults + 1      \* the read failed
          /\ Back(p, "reconcile") /\ moved' = moved \ {p} /\ UNCHANGED absences
    /\ UNCHANGED <<clock, grant, plan, reservation, call, pending, live, claims, rearms>>

Marked(r, state, count, p) ==
    [r EXCEPT !.marker = [state |-> state, count |-> count, at |-> proc[p].now,
                          seen |-> proc[p].inventory]]
\* nextAbsenceMarker.
Observations_Unseparated(marker, inventory, now) ==
    1 + IF marker.state # "none" /\ marker.seen = inventory THEN marker.count ELSE 0
Observations(marker, inventory, now) ==
    LET previous == IF marker.state # "none" /\ marker.seen = inventory THEN marker.count ELSE 0
        separated == marker.state # "none" /\ now - marker.at >= AbsenceMinMs
    IN  IF separated THEN previous + 1 ELSE Max({previous, 1})

\* E15's writes compare the row's version, and its transactions the siblings too.
Unmoved(p) == p \notin moved /\ grant[proc[p].g].op = "AMBIGUOUS"
OnlyCanonical(g, status) ==
    /\ {h \in Grants : grant[h].status = status /\ WindowOf[h] = reservation.window} = {g}
    /\ SiblingsClear(g) /\ Eligible

\* The end of one grant's turn: with its write, or without one.
Put(p, r) == WriteBy({p}, proc[p].g, r)
Leave(p) == UNCHANGED <<grant, absences>> /\ moved' = moved \ {p}

\* decideGuestAccessE15Reconciliation, and what follows from each decision.
RaceLost(p) ==
    ~Unmoved(p) /\ Leave(p) /\ UNCHANGED <<reservation, rearms>>
VerifyLater(p, r) ==
    /\ Unmoved(p) /\ proc[p].pc = "partial"
    /\ Put(p, Marked(r, "VERIFYING", 0, p)) /\ UNCHANGED <<reservation, rearms>>
Adopt(p, r, status, pwd) ==
    IF OnlyCanonical(proc[p].g, status)
    THEN /\ Put(p, Marked([Cleared(r) EXCEPT !.status = "ACTIVE", !.pwd = pwd], "RECONCILED", 0, p))
         /\ reservation' = [reservation EXCEPT !.release = "RELEASED"]
    ELSE Leave(p) /\ UNCHANGED reservation
ReconcileLateSuccess(p, r) ==
    /\ Unmoved(p) /\ proc[p].pc = "read" /\ r.status = "ACTIVE"
    /\ r.pwd # NoToken /\ Exact(proc[p].inventory, proc[p].g) = {r.pwd}
    /\ Adopt(p, r, "ACTIVE", r.pwd) /\ UNCHANGED rearms
AdoptProviderPresent(p, r) ==
    /\ Unmoved(p) /\ proc[p].pc = "read" /\ r.status = "PENDING"
    /\ \E t \in Tokens :
         /\ Exact(proc[p].inventory, proc[p].g) = {t}
         /\ Adopt(p, r, "PENDING", t)
    /\ UNCHANGED rearms
ManualReview(p, r) ==
    /\ Unmoved(p) /\ proc[p].pc = "read"
    /\ LET exact == Exact(proc[p].inventory, proc[p].g) IN
       \/ r.status = "ACTIVE" /\ ~(r.pwd # NoToken /\ exact = {r.pwd})
       \/ r.status = "PENDING" /\ proc[p].inventory # {} /\ Cardinality(exact) # 1
    /\ Put(p, Marked(r, "MANUAL_REVIEW", 0, p)) /\ UNCHANGED <<reservation, rearms>>
Absent(p, r) ==
    Unmoved(p) /\ proc[p].pc = "read" /\ r.status = "PENDING" /\ proc[p].inventory = {}
Count(p, r) == Observations(r.marker, proc[p].inventory, proc[p].now)
ObserveAbsence(p, r) ==
    /\ Absent(p, r) /\ (Count(p, r) < 2 \/ ~RearmEnabled)
    /\ Put(p, Marked(r, IF Count(p, r) < 2 THEN "ABSENCE" ELSE "CONFIRMED", Count(p, r), p))
    /\ UNCHANGED <<reservation, rearms>>
Rearm(p, r) ==
    /\ Absent(p, r) /\ Count(p, r) >= 2 /\ RearmEnabled
    /\ IF OnlyCanonical(proc[p].g, "PENDING")
       THEN /\ Put(p, Marked([r EXCEPT !.op = "RETRYABLE", !.nextAt = proc[p].now,
                                       !.exhausted = FALSE], "REARMED", Count(p, r), p))
            /\ rearms' = [rearms EXCEPT ![proc[p].g] = @ + 1]
       ELSE Leave(p) /\ UNCHANGED rearms
    /\ UNCHANGED reservation
Reconcile(p) ==
    /\ proc[p].pc \in {"read", "partial"}
    /\ LET r == grant[proc[p].g] IN
       \/ RaceLost(p)
       \/ VerifyLater(p, r)
       \/ ReconcileLateSuccess(p, r)
       \/ AdoptProviderPresent(p, r)
       \/ ManualReview(p, r)
       \/ ObserveAbsence(p, r)
       \/ Rearm(p, r)
    /\ Back(p, "reconcile")
    /\ UNCHANGED <<clock, plan, call, pending, live, claims, faults>>

-----------------------------------------------------------------------------
(* Around the fence: readiness evaluated elsewhere, a cancellation, a       *)
(* change of dates, a process that dies, time.                             *)

Reevaluate ==
    /\ reservation.release = "BLOCKED" /\ reservation.live
    /\ reservation' = Evaluated(TRUE)
    /\ NoWrite
    /\ UNCHANGED <<clock, plan, proc, call, pending, live, claims, rearms, faults>>
ReservationChanges ==
    /\ faults < MaxFaults /\ faults' = faults + 1
    /\ \/ reservation.live /\ reservation' = [reservation EXCEPT !.live = FALSE]
       \/ \E w \in Windows \ {reservation.window} :
            reservation' = [reservation EXCEPT !.window = w]
    /\ NoWrite
    /\ UNCHANGED <<clock, plan, proc, call, pending, live, claims, rearms>>
Crash(p) ==
    /\ faults < MaxFaults /\ faults' = faults + 1
    /\ proc[p].pc # "idle"
    /\ proc' = [proc EXCEPT ![p] = Resting(0)]
    /\ moved' = moved \ {p}
    /\ call' = [t \in Tokens |-> IF call[t].pc # "none" /\ call[t].owner = p
                                 THEN [call[t] EXCEPT !.pc = "ended", !.pass = NoToken]
                                 ELSE call[t]]
    /\ UNCHANGED <<clock, grant, plan, reservation, pending, live, claims, rearms, absences>>

Unsettled(t) == t \in pending \/ call[t].pc \in {"begun", "planned", "duplicate", "rejected"}
Advance ==
    /\ clock < MaxClock /\ clock' = clock + 1
    /\ \A t \in Tokens : Unsettled(t) => clock < call[t].at + EffectMs
    /\ \A p \in Procs : proc[p].pc # "idle" => clock < proc[p].now + TickMs
    /\ NoWrite
    /\ UNCHANGED <<plan, reservation, proc, call, pending, live, claims, rearms, faults>>

Worker(p) ==
    \/ StartTick(p) \/ NextPhase(p) \/ CheckReadiness(p) \/ PreBoundaryFailure(p)
    \/ Begin(p) \/ Finish(p) \/ PhysicalTimeout(p) \/ ReleaseAccess(p)
    \/ ReadInventory(p) \/ Reconcile(p) \/ Crash(p)
    \/ \E g \in Grants :
         \/ RepairRelease(p, g) \/ RecoverActive(p, g) \/ RecoverPending(p, g)
         \/ Claim(p, g) \/ ClaimRefused(p, g) \/ ScanAmbiguous(p, g)
Calls(t) ==
    \/ CallRefused(t) \/ SendTimed(t) \/ PlanNew(t) \/ PlanFound(t) \/ SendCustom(t)
    \/ ProviderSettles(t) \/ ResumePlan(t) \/ Answered(t) \/ IncompleteAnswer(t)
    \/ CallErrs(t) \/ Persist(t) \/ Cleanup(t)

Next ==
    \/ \E p \in Procs : Worker(p)
    \/ \E t \in Tokens : Calls(t)
    \/ Reevaluate \/ ReservationChanges \/ Advance

Spec == Init /\ [][Next]_vars

-----------------------------------------------------------------------------
(* Properties.                                                             *)

Statuses == {"PENDING", "ACTIVE", "FAILED"}
\* The rows, processes and calls are of their types, and a fence names a lease exactly
\* while one is held (AccessGrant.recoveryOperation).
TypeOK ==
    /\ clock \in 0 .. MaxClock /\ claims \in 0 .. MaxClaims /\ faults \in 0 .. MaxFaults
    /\ \A g \in Grants :
         /\ grant[g].status \in Statuses /\ grant[g].op \in FenceStates
         /\ grant[g].token \in 0 .. claims /\ grant[g].attempts \in 0 .. MaxAttempts
         /\ (grant[g].token # NoToken) <=> (grant[g].op \in {"CLAIMED", "EXECUTING"})
         /\ grant[g].pwd \in 0 .. claims
    /\ reservation.release \in {"ELIGIBLE", "BLOCKED", "RELEASED"}
    /\ moved \subseteq Procs /\ pending \subseteq Tokens /\ live \subseteq Tokens

\* An incomplete answer made an active grant FAILED.
Overwritten(g) == grant[g].status = "FAILED" /\ grant[g].pwd # NoToken

\* The lock never accepts two passcodes made for one stay, however calls were lost,
\* retried or taken over: the fence replays no call whose outcome is unknown.  (A grant
\* that was active and is FAILED no longer fences its siblings, though its passcode works.)
OneCredential == (\A g \in Grants : ~Overwritten(g)) => Cardinality(live) <= 1

\* The same up to the first re-arm of a grant: two absent readings AbsenceMinMs apart
\* outlast whatever the abandoned call could still create.
FirstRearmSafe == (\A g \in Grants : rearms[g] <= 1) => OneCredential

\* Of a reservation's grants at most one is claimed, executing or active at a time:
\* siblings are checked under the reservation's row lock (E14.1).
OneFenceHeld ==
    Cardinality({g \in Grants : grant[g].status = "ACTIVE"
                                   \/ grant[g].op \in {"CLAIMED", "EXECUTING"}}) <= 1

\* A grant never has more physical calls than its attempt budget, although claims
\* given back before the boundary refund their attempt and E15's re-arm opens another
\* round (recoveryAttemptCount is kept by it).
CallsWithinBudget ==
    \A g \in Grants :
      Cardinality({t \in Tokens : call[t].pc # "none" /\ call[t].grant = g}) <= MaxAttempts

\* When the guest's access is released, the active grant names a passcode that the
\* lock accepts.
ReleasedCredentialWorks ==
    reservation.release = "RELEASED" =>
      \A g \in Grants : Evidence(g) => grant[g].pwd \in live

\* A grant is re-armed only after its present ambiguity was read as absent twice.
RearmAfterTwoAbsences ==
    [][\A g \in Grants : rearms'[g] > rearms[g] => absences[g] >= 2]_vars

\* The same of the first time a grant is re-armed, while readings by several processes
\* come in any order and lose their races.
FirstRearmAfterTwoAbsences ==
    [][\A g \in Grants :
         rearms[g] = 0 /\ rearms'[g] > rearms[g] => absences[g] >= 2]_vars

=============================================================================
