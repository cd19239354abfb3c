--------------------------- MODULE OutputKeepalive ---------------------------
(***************************************************************************)
(* The keepalive of the managed Lighting+Video lease.  The Enable that     *)
(* committed the lease arms a run; the run's worker renews the lease; any  *)
(* boundary (a failed renewal, Standby, a closed window, a Relinquish)     *)
(* captures the run, denies the physical outputs outside every lock and    *)
(* only then gives the lease back.                                         *)
(*                                                                         *)
(* Every action is one section of the code under operation_serial, one     *)
(* registry call or one physical port.  Flows interleave between actions.  *)
(* An Enable is named by its durable issuance number, which is also the    *)
(* id of the run it arms.                                                  *)
(***************************************************************************)
EXTENDS Integers

CONSTANTS
    MaxEnables,   \* bound: Enable commits
    MaxCalls,     \* bound: boundaries and Relinquish calls
    MaxReplays,   \* bound: replays of an Enable
    Faults        \* which of FaultKind may happen

FaultKind == {"lapse",      \* the lease reaches its deadline
              "request",    \* a later request overtakes a clock already read
              "admission",  \* a committed Enable cannot be proved for admission
              "spawn",      \* the worker thread cannot be started
              "worker",     \* the worker panics
              "join",       \* the worker is not joined in time
              "port"}       \* a physical retirement or the marker fails

ASSUME KeepaliveConstants ==
    /\ MaxEnables \in Nat
    /\ MaxCalls \in Nat
    /\ MaxReplays \in Nat
    /\ Faults \subseteq FaultKind

VARIABLES
    \* the registry, and the outputs of which Enable are lit
    issued, lease, phase, renewed, lit,
    \* the manager
    slot, cur, run, attempt, boundary, report, claimed,
    permit, proof, deferred, highest,
    \* the worker slot
    active, reaping, outer,
    \* the flows
    pc, planOf, planRun, planAttempt, failed, newer, tries,
    asked, after, rounds, calls, replays

registryVars == <<issued, lease, phase, renewed, lit>>
faultVars == <<attempt, boundary, report, claimed, permit, proof>>
managerVars == <<slot, cur, run, faultVars, deferred, highest>>
slotVars == <<active, reaping, outer>>
planVars == <<planOf, planRun, planAttempt>>
callVars == <<asked, after, rounds, calls, replays>>
vars == <<registryVars, managerVars, slotVars, pc, planVars, failed, newer,
          tries, callVars>>

Enable == 1 .. MaxEnables
NoEnable == 0

\* Enable and Standby exclude each other (OutputRoleOrdering) and are one lane.
Lane == <<"lane", 0>>
Window == <<"window", 0>>
Manual == <<"manual", 0>>
Nobody == <<"nobody", 0>>
Worker(r) == <<"worker", r>>
Caller == {Lane, Window, Manual}
Flow == Caller \cup {Worker(r) : r \in Enable}

Init ==
    /\ issued = 0 /\ lease = NoEnable /\ phase = "none" /\ renewed = FALSE
    /\ lit = NoEnable
    /\ slot = "idle" /\ cur = NoEnable /\ run = NoEnable
    /\ attempt = 0 /\ boundary = "none" /\ report = "none" /\ claimed = FALSE
    /\ permit = Nobody /\ proof = Nobody
    /\ deferred = NoEnable /\ highest = NoEnable
    /\ active = NoEnable /\ reaping = {} /\ outer = {}
    /\ pc = [f \in Flow |-> "rest"]
    /\ planOf = [f \in Flow |-> NoEnable]
    /\ planRun = [f \in Flow |-> NoEnable]
    /\ planAttempt = [f \in Flow |-> 0]
    /\ failed = {}
    /\ newer = [f \in Flow |-> NoEnable]
    /\ tries = [f \in Flow |-> 0]
    /\ asked = NoEnable /\ after = "end" /\ rounds = 0
    /\ calls = 0 /\ replays = 0

----------------------------------------------------------------------------
(* The registry                                                            *)

\* A call presents a clock read earlier; a later request may have overtaken it.
Overtaken == IF "request" \in Faults THEN BOOLEAN ELSE {FALSE}

\* The exact authority of Enable e is active and not past its deadline.
Current(e) == lease = e /\ phase = "active"

\* A call that meets the expired lease publishes it as orphaned.
Refused(e, overtaken) ==
    /\ overtaken \/ ~Current(e)
    /\ phase' = IF ~overtaken /\ lease = e /\ phase = "due" THEN "orphaned" ELSE phase
    /\ UNCHANGED <<issued, lease, renewed, lit>>

Released(e, overtaken) ==
    /\ ~overtaken /\ Current(e)
    /\ lease' = NoEnable /\ phase' = "none" /\ renewed' = FALSE
    /\ UNCHANGED <<issued, lit>>

\* The durable receipt still names the generation of a held lease.
Evidence(e) == lease = e /\ phase \in {"active", "due"} /\ ~renewed

\* The 60 s pass without a renewal; then any use of the lease orphans it.
Lapse ==
    /\ "lapse" \in Faults
    /\ \/ phase = "active" /\ phase' = "due"
       \/ phase = "due" /\ phase' = "orphaned"
    /\ UNCHANGED <<issued, lease, renewed, lit, managerVars, slotVars, pc,
                   planVars, failed, newer, tries, callVars>>

----------------------------------------------------------------------------
(* Helpers on the manager and on a flow                                    *)

Quiet == permit = Nobody /\ proof = Nobody
Clean == slot = "faulted" /\ report = "clean"

GoTo(f, place) == pc' = [pc EXCEPT ![f] = place]

\* A flow that ends forgets its plan and its token.
Forgets(f) ==
    /\ planOf' = [planOf EXCEPT ![f] = NoEnable]
    /\ planRun' = [planRun EXCEPT ![f] = NoEnable]
    /\ planAttempt' = [planAttempt EXCEPT ![f] = 0]
    /\ failed' = failed \ {f}
    /\ newer' = [newer EXCEPT ![f] = NoEnable]
    /\ tries' = [tries EXCEPT ![f] = 0]

Ends(f) == GoTo(f, "rest") /\ Forgets(f)
KeepsPlan == UNCHANGED <<planVars, failed, newer, tries>>

\* A finished release or proof: a conflicting Enable proves itself once more.
Readmits(f) == f = Lane /\ after = "readmit"
Succeeds(f) == GoTo(f, IF Readmits(f) THEN "readmit" ELSE "rest") /\ Forgets(f)

TakesPlan(f, e, r, a) ==
    /\ GoTo(f, "claim")
    /\ planOf' = [planOf EXCEPT ![f] = e]
    /\ planRun' = [planRun EXCEPT ![f] = r]
    /\ planAttempt' = [planAttempt EXCEPT ![f] = a]
    /\ UNCHANGED <<failed, newer, tries>>

TakesCurrentPlan(f) == TakesPlan(f, cur, run, attempt)

\* A new fail-stop pass of the present run; every exported token is fenced.
Faulting(a, b) ==
    /\ slot' = "faulting" /\ attempt' = a /\ boundary' = b
    /\ report' = "none" /\ claimed' = FALSE
    /\ permit' = Nobody /\ proof' = Nobody
    /\ UNCHANGED <<cur, run>>

Captures(b) == Faulting(1, b) /\ UNCHANGED <<deferred, highest>>
Retries == Faulting(attempt + 1, boundary) /\ UNCHANGED <<deferred, highest>>

Arms(e) ==
    /\ slot' = "armed" /\ cur' = e /\ run' = e /\ highest' = e
    /\ attempt' = 0 /\ boundary' = "none" /\ report' = "none" /\ claimed' = FALSE
    /\ permit' = Nobody /\ proof' = Nobody
    /\ deferred' = NoEnable

GoesIdle ==
    /\ slot' = "idle" /\ cur' = NoEnable /\ run' = NoEnable
    /\ attempt' = 0 /\ boundary' = "none" /\ report' = "none" /\ claimed' = FALSE
    /\ permit' = Nobody /\ proof' = Nobody
    /\ UNCHANGED <<deferred, highest>>

----------------------------------------------------------------------------
(* Enable: commit, admission and the cleanup of an unadmitted commit       *)

\* A flow whose fail-stop has fenced the outputs and not yet dropped its ports;
\* a worker drops them when all that follows its fail-stop is done.
Tearing(f) ==
    \/ pc[f] = "complete"
    \/ /\ f \notin Caller /\ pc[f] \notin {"rest", "sleep", "renew"}
       /\ pc[f] \in {"claim", "cancel", "deny"} => planRun[f] # f[2]

\* The candidate commits with its durable receipt: the lease is acquired, or
\* recovered once expired, and the outputs are lit.
Commit ==
    /\ pc[Lane] = "rest" /\ issued < MaxEnables
    /\ phase # "active"
    /\ \A f \in Flow : ~Tearing(f)
    /\ issued' = issued + 1
    /\ lease' = issued' /\ phase' = "active" /\ renewed' = FALSE
    /\ lit' = issued' /\ asked' = issued'
    /\ after' = "end"
    /\ GoTo(Lane, "admit")
    /\ UNCHANGED <<managerVars, slotVars, planVars, failed, newer, tries, rounds, calls,
                   replays>>

\* The same request again, answered from its durable receipt.
Replay(e) ==
    /\ pc[Lane] = "rest" /\ replays < MaxReplays
    /\ e <= issued
    /\ replays' = replays + 1
    /\ asked' = e /\ after' = "end"
    /\ GoTo(Lane, "replay")
    /\ UNCHANGED <<registryVars, managerVars, slotVars, planVars, failed, newer,
                   tries, rounds, calls>>

Admitting == pc[Lane] \in {"admit", "replay", "readmit"}

AdmissionFails ==
    /\ Admitting
    /\ ~Evidence(asked) \/ "admission" \in Faults
    /\ IF pc[Lane] = "admit"
       THEN GoTo(Lane, "cleanup") /\ KeepsPlan
       ELSE Ends(Lane)
    /\ UNCHANGED <<registryVars, managerVars, slotVars, callVars>>

\* What an admission obtained is used the first time and dropped the second.
Obtains(step) == IF pc[Lane] = "readmit" THEN Ends(Lane) ELSE step

AwaitsRelease == Ends(Lane) /\ UNCHANGED <<managerVars, after>>

AdmitIdle ==
    /\ slot = "idle"
    /\ IF asked <= highest \/ deferred # NoEnable
       THEN AwaitsRelease
       ELSE /\ Arms(asked)
            /\ GoTo(Lane, "spawn")
            /\ planRun' = [planRun EXCEPT ![Lane] = asked]
            /\ after' = "end"
            /\ UNCHANGED <<planOf, planAttempt, failed, newer, tries>>

\* Mutant: a replay takes the permit although the denial failed.
AdmitSameUndenied ==
    /\ slot # "idle" /\ cur = asked
    /\ \/ slot = "armed" /\ AwaitsRelease
       \/ slot = "faulting" /\ Obtains(TakesCurrentPlan(Lane)) /\ UNCHANGED managerVars
       \/ slot = "faulted" /\ deferred # NoEnable /\ AwaitsRelease
       \/ /\ slot = "faulted" /\ deferred = NoEnable /\ Quiet
          /\ permit' = Lane
          /\ Obtains(GoTo(Lane, "permit") /\ KeepsPlan)
          /\ UNCHANGED <<slot, cur, run, attempt, boundary, report, claimed, proof,
                         deferred, highest>>
    /\ UNCHANGED after

AdmitSame ==
    /\ slot # "idle" /\ cur = asked
    /\ \/ slot = "armed" /\ AwaitsRelease
       \/ slot = "faulting" /\ Obtains(TakesCurrentPlan(Lane)) /\ UNCHANGED managerVars
       \/ slot = "faulted" /\ deferred # NoEnable /\ AwaitsRelease
       \/ /\ slot = "faulted" /\ deferred = NoEnable /\ report = "failed"
          /\ Retries
          /\ Obtains(TakesPlan(Lane, cur, run, attempt + 1))
       \/ Clean /\ deferred = NoEnable /\ ~Quiet /\ AwaitsRelease
       \/ /\ Clean /\ deferred = NoEnable /\ Quiet
          /\ permit' = Lane
          /\ Obtains(GoTo(Lane, "permit") /\ KeepsPlan)
          /\ UNCHANGED <<slot, cur, run, attempt, boundary, report, claimed, proof,
                         deferred, highest>>
    /\ UNCHANGED after

\* The newest conflicting Enable is kept until the present run is released.
Defers ==
    IF asked > deferred THEN deferred' = asked /\ highest' = asked
                        ELSE UNCHANGED <<deferred, highest>>

StaleConflict ==
    IF deferred = NoEnable THEN asked <= highest ELSE asked < deferred

AdmitConflict ==
    /\ slot # "idle" /\ cur # asked
    /\ IF StaleConflict
       THEN AwaitsRelease
       ELSE /\ Defers
            /\ \/ /\ slot = "armed" /\ Faulting(1, "automatic")
                  /\ Obtains(TakesPlan(Lane, cur, run, 1))
               \/ /\ slot = "faulting" /\ Obtains(TakesCurrentPlan(Lane))
                  /\ UNCHANGED <<slot, cur, run, faultVars>>
               \/ /\ slot = "faulted" /\ report = "failed"
                  /\ Faulting(attempt + 1, boundary)
                  /\ Obtains(TakesPlan(Lane, cur, run, attempt + 1))
               \/ /\ Clean
                  /\ IF Quiet THEN Obtains(GoTo(Lane, "prepare") /\ KeepsPlan) ELSE Ends(Lane)
                  /\ UNCHANGED <<slot, cur, run, faultVars>>
            /\ after' = IF pc[Lane] = "readmit" THEN after ELSE "readmit"

Admit ==
    /\ Admitting /\ Evidence(asked)
    /\ AdmitIdle \/ AdmitSame \/ AdmitConflict
    /\ UNCHANGED <<registryVars, slotVars, asked, rounds, calls, replays>>

\* The fenced run gives its id to the cleanup, which cancels its worker.  The
\* Enable being cleaned up was never admitted, so it is newer than every other.
Cleanup ==
    /\ pc[Lane] = "cleanup"
    /\ slot' = "faulting" /\ cur' = asked
    /\ run' = IF slot = "idle" THEN asked ELSE run
    /\ attempt' = 1 /\ boundary' = "automatic"
    /\ report' = "none" /\ claimed' = FALSE
    /\ permit' = Nobody /\ proof' = Nobody
    /\ deferred' = NoEnable /\ highest' = asked
    /\ TakesPlan(Lane, asked, run', 1)
    /\ UNCHANGED <<registryVars, slotVars, callVars>>

\* The permit an admission obtained is spent in a later section.
SpendPermit ==
    /\ pc[Lane] = "permit"
    /\ IF permit = Lane /\ deferred = NoEnable
       THEN \E overtaken \in Overtaken :
              \/ /\ Released(cur, overtaken)
                 /\ GoesIdle /\ Ends(Lane)
              \/ /\ Refused(cur, overtaken)
                 /\ permit' = Nobody
                 /\ GoTo(Lane, "prepare") /\ KeepsPlan
                 /\ UNCHANGED <<slot, cur, run, attempt, boundary, report, claimed,
                                proof, deferred, highest>>
       ELSE Ends(Lane) /\ UNCHANGED <<registryVars, managerVars>>
    /\ UNCHANGED <<slotVars, callVars>>

----------------------------------------------------------------------------
(* The fail-stop: claim the plan, cancel, deny, complete                   *)

Boundary == UNCHANGED <<registryVars, slotVars, callVars>>

\* Mutant: the plan's gate is not claimed.
ClaimAgain(f) ==
    /\ pc[f] = "claim"
    /\ IF slot = "faulting" /\ cur = planOf[f] /\ attempt = planAttempt[f]
       THEN /\ claimed' = TRUE
            /\ GoTo(f, "cancel") /\ failed' = failed \ {f}
            /\ UNCHANGED <<planVars, newer, tries>>
       ELSE Ends(f) /\ UNCHANGED claimed
    /\ UNCHANGED <<registryVars, slot, cur, run, attempt, boundary, report, permit,
                   proof, deferred, highest, slotVars, callVars>>

\* One of the flows that hold the plan executes it; a fenced plan is stale.
Claim(f) ==
    /\ pc[f] = "claim"
    /\ IF /\ slot = "faulting" /\ ~claimed
          /\ cur = planOf[f] /\ attempt = planAttempt[f]
       THEN /\ claimed' = TRUE
            /\ GoTo(f, "cancel") /\ failed' = failed \ {f}
            /\ UNCHANGED <<planVars, newer, tries>>
       ELSE Ends(f) /\ UNCHANGED claimed
    /\ UNCHANGED <<registryVars, slot, cur, run, attempt, boundary, report, permit,
                   proof, deferred, highest, slotVars, callVars>>

AtRest(r) == pc[Worker(r)] = "rest"

\* CancelRenewal.  A worker hands its own thread over; anyone else takes the
\* worker out of the slot, cancels it and joins it.  A worker that panicked
\* under the monitor of a caller finds itself in the slot as another thread.
Cancel(f) ==
    /\ pc[f] = "cancel"
    /\ LET self == f = Worker(planRun[f]) IN
       \/ /\ active # planRun[f]
          /\ GoTo(f, "deny") /\ UNCHANGED <<slotVars, failed>>
       \/ /\ active = planRun[f] /\ ~self
          /\ active' = NoEnable /\ outer' = {}
          /\ GoTo(f, "join") /\ UNCHANGED <<reaping, failed>>
       \/ /\ active = planRun[f] /\ self /\ active \notin outer
          /\ active' = NoEnable
          /\ GoTo(f, "deny") /\ UNCHANGED <<reaping, outer, failed>>
       \/ /\ active = planRun[f] /\ self /\ active \in outer
          /\ failed' = failed \cup {f}
          /\ GoTo(f, "deny") /\ UNCHANGED slotVars
    /\ UNCHANGED <<registryVars, managerVars, planVars, newer, tries, callVars>>

\* The join is bounded; a worker that outlasts it is left to a later reaper.
Join(f) ==
    /\ pc[f] = "join"
    /\ GoTo(f, "deny")
    /\ \/ AtRest(planRun[f]) /\ UNCHANGED <<reaping, failed>>
       \/ /\ ~AtRest(planRun[f]) /\ "join" \in Faults
          /\ reaping' = reaping \cup {planRun[f]}
          /\ failed' = failed \cup {f}
    /\ UNCHANGED <<registryVars, managerVars, active, outer, planVars, newer, tries,
                   callVars>>

\* Blackout, failure fence, DMX, Spout and native outputs, Standby marker: all
\* are attempted whatever fails.
Deny(f) ==
    /\ pc[f] = "deny"
    /\ GoTo(f, "complete")
    /\ \/ lit' = NoEnable /\ UNCHANGED failed
       \/ /\ "port" \in Faults
          /\ lit' \in {lit, NoEnable} /\ failed' = failed \cup {f}
    /\ UNCHANGED <<issued, lease, phase, renewed, managerVars, slotVars, planVars,
                   newer, tries, callVars>>

\* The pass is recorded unless a cleanup has fenced its plan meanwhile.
Complete(f) ==
    /\ pc[f] = "complete"
    /\ IF slot = "faulting" /\ cur = planOf[f] /\ attempt = planAttempt[f]
       THEN /\ slot' = "faulted"
            /\ report' = IF f \in failed THEN "failed" ELSE "clean"
            /\ IF f = Manual /\ rounds = 2
               THEN Ends(f)
               ELSE /\ GoTo(f, IF f = Manual THEN "manual" ELSE "release")
                    /\ KeepsPlan
       ELSE Ends(f) /\ UNCHANGED <<slot, report>>
    /\ UNCHANGED <<registryVars, cur, run, attempt, boundary, claimed, permit, proof,
                   deferred, highest, slotVars, callVars>>

----------------------------------------------------------------------------
(* After a clean fail-stop: release the lease, or prove the newer Enable   *)

\* A worker reads the identity of its run again, a caller kept that of its plan.
Owns(f) == run = planRun[f] /\ (f \in Caller => cur = planOf[f])

\* Mutant: a refused compare-and-swap clears the run as well.
ReleaseOrForget(f, overtaken) ==
    \/ /\ Released(cur, overtaken)
       /\ GoesIdle /\ Succeeds(f)
    \/ /\ Refused(cur, overtaken)
       /\ GoesIdle /\ Ends(f)

\* The permit, the compare-and-swap and its completion are one section.
ReleaseOrPrepare(f, overtaken) ==
    \/ /\ Released(cur, overtaken)
       /\ GoesIdle /\ Succeeds(f)
    \/ /\ Refused(cur, overtaken)
       /\ GoTo(f, "prepare")
       /\ UNCHANGED <<managerVars, planVars, failed, newer, tries>>

\* Mutant: the report of the fail-stop is not read.
ReleaseUnread(f) ==
    /\ pc[f] = "release"
    /\ IF deferred = NoEnable /\ slot = "faulted" /\ Owns(f) /\ boundary = "automatic" /\ Quiet
       THEN \E overtaken \in Overtaken : ReleaseOrPrepare(f, overtaken)
       ELSE Ends(f) /\ UNCHANGED <<registryVars, managerVars>>
    /\ UNCHANGED <<slotVars, callVars>>

Release(f) ==
    /\ pc[f] = "release"
    /\ IF deferred = NoEnable /\ Clean /\ Owns(f) /\ boundary = "automatic" /\ Quiet
       THEN \E overtaken \in Overtaken : ReleaseOrPrepare(f, overtaken)
       ELSE Ends(f) /\ UNCHANGED <<registryVars, managerVars>>
    /\ UNCHANGED <<slotVars, callVars>>

Prepare(f) ==
    /\ pc[f] = "prepare"
    /\ IF deferred # NoEnable /\ Clean /\ cur # deferred /\ Quiet
       THEN /\ proof' = f
            /\ GoTo(f, "prove") /\ newer' = [newer EXCEPT ![f] = deferred]
            /\ UNCHANGED <<planVars, failed, tries>>
       ELSE Ends(f) /\ UNCHANGED proof
    /\ UNCHANGED <<registryVars, slot, cur, run, attempt, boundary, report, claimed,
                   permit, deferred, highest, slotVars, callVars>>

\* The registry proves, outside the manager, that the newer Enable is current.
Prove(f) ==
    /\ pc[f] = "prove"
    /\ \E overtaken \in Overtaken :
         IF ~overtaken /\ Current(newer[f]) /\ ~renewed
         THEN GoTo(f, "proven") /\ UNCHANGED registryVars
         ELSE GoTo(f, "refused") /\ Refused(newer[f], overtaken)
    /\ UNCHANGED <<managerVars, slotVars, planVars, failed, newer, tries, callVars>>

\* A stale proof is tried once more when the manager allows it.
TriesAgain(f) ==
    IF tries[f] = 0 /\ deferred # NoEnable /\ Clean /\ permit = Nobody /\ proof \in {f, Nobody}
    THEN /\ GoTo(f, "prepare") /\ tries' = [tries EXCEPT ![f] = 1]
         /\ UNCHANGED <<planVars, failed, newer>>
    ELSE Ends(f)

\* Mutant: a proof arms its Enable although a newer one was deferred meanwhile.
FinishProofLate(f) ==
    /\ pc[f] \in {"proven", "refused"}
    /\ \/ /\ proof = f /\ pc[f] = "proven"
          /\ Arms(newer[f])
          /\ GoTo(f, "spawn") /\ planRun' = [planRun EXCEPT ![f] = newer[f]]
          /\ planOf' = [planOf EXCEPT ![f] = NoEnable]
          /\ planAttempt' = [planAttempt EXCEPT ![f] = 0]
          /\ newer' = [newer EXCEPT ![f] = NoEnable]
          /\ tries' = [tries EXCEPT ![f] = 0]
          /\ UNCHANGED failed
       \/ /\ ~(proof = f /\ pc[f] = "proven")
          /\ proof' = IF proof = f THEN Nobody ELSE proof
          /\ IF proof = f /\ deferred = newer[f] THEN Ends(f) ELSE TriesAgain(f)
          /\ UNCHANGED <<slot, cur, run, attempt, boundary, report, claimed, permit,
                         deferred, highest>>
    /\ UNCHANGED <<registryVars, slotVars, callVars>>

FinishProof(f) ==
    /\ pc[f] \in {"proven", "refused"}
    /\ \/ /\ proof = f /\ deferred = newer[f] /\ pc[f] = "proven"
          /\ Arms(newer[f])
          /\ GoTo(f, "spawn") /\ planRun' = [planRun EXCEPT ![f] = newer[f]]
          /\ planOf' = [planOf EXCEPT ![f] = NoEnable]
          /\ planAttempt' = [planAttempt EXCEPT ![f] = 0]
          /\ newer' = [newer EXCEPT ![f] = NoEnable]
          /\ tries' = [tries EXCEPT ![f] = 0]
          /\ UNCHANGED failed
       \/ /\ ~(proof = f /\ deferred = newer[f] /\ pc[f] = "proven")
          /\ proof' = IF proof = f THEN Nobody ELSE proof
          /\ IF proof = f /\ deferred = newer[f] THEN Ends(f) ELSE TriesAgain(f)
          /\ UNCHANGED <<slot, cur, run, attempt, boundary, report, claimed, permit,
                         deferred, highest>>
    /\ UNCHANGED <<registryVars, slotVars, callVars>>

----------------------------------------------------------------------------
(* The worker                                                              *)

Reaped == reaping' = {r \in reaping : ~AtRest(r)}

\* Finished workers are reaped; one that is not blocks its successor.
Spawn(f) ==
    /\ pc[f] = "spawn"
    /\ slot = "armed" /\ run = planRun[f]
    /\ active # NoEnable => AtRest(active)
    /\ \A r \in reaping : AtRest(r)
    /\ active' = run /\ Reaped
    /\ outer' = IF f \in Caller THEN {run} ELSE {}
    /\ pc' = [pc EXCEPT ![f] = IF Readmits(f) THEN "readmit" ELSE "rest",
                        ![Worker(run)] = "sleep"]
    /\ Forgets(f)
    /\ UNCHANGED <<registryVars, managerVars, callVars>>

\* The run was fenced meanwhile, a thread is in the way, or the system has none.
SpawnFails(f) ==
    /\ pc[f] = "spawn"
    /\ \/ ~(slot = "armed" /\ run = planRun[f])
       \/ active # NoEnable /\ ~AtRest(active)
       \/ \E r \in reaping : ~AtRest(r)
       \/ "spawn" \in Faults
    /\ IF active # NoEnable /\ AtRest(active)
       THEN active' = NoEnable /\ outer' = {}
       ELSE UNCHANGED <<active, outer>>
    /\ Reaped
    /\ GoTo(f, "unspawned")
    /\ UNCHANGED <<registryVars, managerVars, planVars, failed, newer, tries,
                   callVars>>

\* Mutant: a worker that could not be started is not recorded.
UnspawnedSilently(f) ==
    /\ pc[f] = "unspawned"
    /\ Ends(f) /\ after' = IF f = Lane THEN "end" ELSE after
    /\ UNCHANGED <<registryVars, managerVars, slotVars, asked, rounds, calls, replays>>

Unspawned(f) ==
    /\ pc[f] = "unspawned"
    /\ IF slot = "armed" /\ run = planRun[f]
       THEN Captures("automatic") /\ TakesPlan(f, cur, run, 1)
       ELSE Ends(f) /\ UNCHANGED managerVars
    /\ after' = IF f = Lane THEN "end" ELSE after
    /\ UNCHANGED <<registryVars, slotVars, asked, rounds, calls, replays>>

WorkerWakes(r) ==
    /\ pc[Worker(r)] = "sleep" /\ active = r
    /\ GoTo(Worker(r), "renew")
    /\ UNCHANGED <<registryVars, managerVars, slotVars, planVars, failed, newer,
                   tries, callVars>>

WorkerCancelled(r) ==
    /\ pc[Worker(r)] = "sleep" /\ active # r
    /\ Ends(Worker(r))
    /\ UNCHANGED <<registryVars, managerVars, slotVars, callVars>>

\* A run that is no longer armed ends its worker; a refused renewal is a
\* boundary whose fail-stop the worker runs on its own thread, as itself.
WorkerRenews(r) ==
    /\ pc[Worker(r)] = "renew"
    /\ \/ /\ ~(slot = "armed" /\ run = r)
          /\ Ends(Worker(r)) /\ UNCHANGED <<registryVars, managerVars, outer>>
       \/ /\ slot = "armed" /\ run = r
          /\ \E overtaken \in Overtaken :
               \/ /\ ~overtaken /\ Current(cur)
                  /\ renewed' = TRUE
                  /\ GoTo(Worker(r), "sleep")
                  /\ UNCHANGED <<issued, lease, phase, lit, managerVars, outer, planVars,
                                 failed, newer, tries>>
               \/ /\ Refused(cur, overtaken)
                  /\ Captures("automatic") /\ TakesPlan(Worker(r), cur, run, 1)
                  /\ outer' = outer \ {r}
    /\ UNCHANGED <<active, reaping, callVars>>

\* The monitor around the loop turns a panic of an armed run into its fail-stop.
WorkerFails(r) ==
    /\ "worker" \in Faults
    /\ pc[Worker(r)] \in {"sleep", "renew"}
    /\ IF slot = "armed" /\ run = r
       THEN Captures("automatic") /\ TakesPlan(Worker(r), cur, run, 1)
       ELSE Ends(Worker(r)) /\ UNCHANGED managerVars
    /\ UNCHANGED <<registryVars, slotVars, callVars>>

----------------------------------------------------------------------------
(* Boundaries of the application and the user's Relinquish                 *)

\* Standby and replacement run in the lane, a closed window and exit beside it.
StartBoundary(f) ==
    /\ f \in {Lane, Window} /\ pc[f] = "rest" /\ calls < MaxCalls
    /\ \/ slot = "armed" /\ Captures("automatic") /\ TakesPlan(f, cur, run, 1)
       \/ slot = "faulting" /\ TakesCurrentPlan(f) /\ UNCHANGED managerVars
    /\ calls' = calls + 1
    /\ after' = IF f = Lane THEN "end" ELSE after
    /\ UNCHANGED <<registryVars, slotVars, asked, rounds, replays>>

Relinquish ==
    /\ pc[Manual] = "rest" /\ calls < MaxCalls
    /\ calls' = calls + 1 /\ rounds' = 0
    /\ GoTo(Manual, "manual")
    /\ UNCHANGED <<registryVars, managerVars, slotVars, planVars, failed, newer,
                   tries, asked, after, replays>>

\* Two decisions: deny first, then release.  A run that an automatic boundary
\* fenced is not released here.
DecideRelinquish ==
    /\ pc[Manual] = "manual"
    /\ rounds' = rounds + 1
    /\ \/ /\ slot = "armed"
          /\ Captures("relinquish") /\ TakesPlan(Manual, cur, run, 1)
          /\ UNCHANGED registryVars
       \/ /\ slot = "faulting"
          /\ TakesCurrentPlan(Manual) /\ UNCHANGED <<registryVars, managerVars>>
       \/ /\ slot = "faulted" /\ boundary = "relinquish" /\ report = "failed"
          /\ Retries /\ TakesPlan(Manual, cur, run, attempt + 1)
          /\ UNCHANGED registryVars
       \/ /\ Clean /\ boundary = "relinquish" /\ deferred = NoEnable /\ Quiet
          /\ \E overtaken \in Overtaken : ReleaseOrPrepare(Manual, overtaken)
       \/ /\ \/ slot = "idle"
             \/ slot = "faulted" /\ boundary # "relinquish"
             \/ Clean /\ (deferred # NoEnable \/ ~Quiet)
          /\ Ends(Manual) /\ UNCHANGED <<registryVars, managerVars>>
    /\ UNCHANGED <<slotVars, asked, after, calls, replays>>

----------------------------------------------------------------------------
\* Every flow has returned; a worker may be between two renewals.
Resting ==
    /\ \A f \in Caller : pc[f] = "rest"
    /\ \A r \in Enable : pc[Worker(r)] \in {"rest", "sleep"}

Stays == Resting /\ UNCHANGED vars

LaneNext ==
    \/ Commit
    \/ \E e \in Enable : Replay(e)
    \/ AdmissionFails
    \/ Admit
    \/ Cleanup
    \/ SpendPermit

FlowNext(f) ==
    \/ Claim(f)
    \/ Cancel(f)
    \/ Join(f)
    \/ Deny(f)
    \/ Complete(f)
    \/ Release(f)
    \/ Prepare(f)
    \/ Prove(f)
    \/ FinishProof(f)
    \/ Spawn(f)
    \/ SpawnFails(f)
    \/ Unspawned(f)
    \/ StartBoundary(f)

WorkerNext(r) ==
    \/ WorkerWakes(r)
    \/ WorkerCancelled(r)
    \/ WorkerRenews(r)
    \/ WorkerFails(r)

Next ==
    \/ Lapse
    \/ LaneNext
    \/ \E f \in Flow : FlowNext(f)
    \/ \E r \in Enable : WorkerNext(r)
    \/ Relinquish
    \/ DecideRelinquish
    \/ Stays

Spec == Init /\ [][Next]_vars

----------------------------------------------------------------------------
(* Properties                                                              *)

Place == {"rest", "admit", "replay", "readmit", "cleanup", "permit", "claim",
          "cancel", "join", "deny", "complete", "release", "prepare", "prove",
          "proven", "refused", "spawn", "unspawned", "sleep", "renew", "manual"}

\* Every variable has its type (the structures of the manager, the worker slot
\* and the registry's record of the Both lease).
KeepaliveTypeOK ==
    /\ issued \in 0 .. MaxEnables /\ lease \in Enable \cup {NoEnable}
    /\ phase \in {"none", "active", "due", "orphaned"} /\ renewed \in BOOLEAN
    /\ lit \in Enable \cup {NoEnable}
    /\ slot \in {"idle", "armed", "faulting", "faulted"}
    /\ cur \in Enable \cup {NoEnable} /\ run \in Enable \cup {NoEnable}
    /\ attempt \in Nat /\ boundary \in {"none", "automatic", "relinquish"}
    /\ report \in {"none", "clean", "failed"} /\ claimed \in BOOLEAN
    /\ permit \in {Lane, Nobody} /\ proof \in Flow \cup {Nobody}
    /\ deferred \in Enable \cup {NoEnable} /\ highest \in Enable \cup {NoEnable}
    /\ active \in Enable \cup {NoEnable}
    /\ reaping \subseteq Enable /\ outer \subseteq Enable
    /\ pc \in [Flow -> Place]
    /\ planOf \in [Flow -> Enable \cup {NoEnable}]
    /\ planRun \in [Flow -> Enable \cup {NoEnable}]
    /\ planAttempt \in [Flow -> Nat]
    /\ failed \subseteq Flow
    /\ newer \in [Flow -> Enable \cup {NoEnable}]
    /\ tries \in [Flow -> 0 .. 1]
    /\ asked \in Enable \cup {NoEnable} /\ after \in {"end", "readmit"}
    /\ rounds \in 0 .. 2 /\ calls \in 0 .. MaxCalls
    /\ replays \in 0 .. MaxReplays

\* Safety: a lease is given back only when the outputs of the Enable that holds
\* it are dark.  Boundaries deny outside the locks and race with new commits,
\* stale plans and the registry's compare-and-swap.
DarkWhenReleased ==
    [][lease # NoEnable /\ lease' = NoEnable => lit # lease]_vars

\* Safety: an armed run is that of the newest Enable the manager accepted, and
\* the Enable it keeps for later is newer than the run it waits for: a stale
\* replay or a stale proof never brings an older authority back.
NewestWins ==
    [][/\ highest' >= highest
       /\ slot' = "armed" => cur' = highest' /\ deferred' = NoEnable
       /\ deferred' # NoEnable => deferred' = highest' /\ deferred' > cur']_vars

\* Safety: an armed run has its worker, or a flow that is about to start it or
\* to fence it: no lease is kept alive by nobody.
ArmedIsSupervised ==
    slot = "armed" =>
        \/ active = run /\ pc[Worker(run)] \in {"sleep", "renew"}
        \/ \E f \in Flow : pc[f] \in {"spawn", "unspawned"} /\ planRun[f] = run

\* Safety: with no run in the manager, a live lease is in the hands of the
\* Enable that is still being admitted.
IdleOwnsNothing ==
    slot = "idle" /\ phase = "active" =>
        lease = asked /\ pc[Lane] \in {"admit", "cleanup"}

\* Safety: one flow executes the present fail-stop, although every boundary
\* that meets it is given its plan.
FailStopOnce ==
    \A f, g \in Flow :
        /\ {pc[f], pc[g]} \subseteq {"cancel", "join", "deny", "complete"}
        /\ planOf[f] = planOf[g] /\ planAttempt[f] = planAttempt[g]
        => f = g

\* Safety: what gives the lease back or retires the run, a permit or a proof,
\* exists only after a clean fail-stop, and never both at once.
TokenNeedsCleanDenial ==
    permit # Nobody \/ proof # Nobody =>
        Clean /\ (permit = Nobody \/ proof = Nobody)

\* What the release path says of a newer Enable the manager kept while the old
\* run was released: it is proven at once, it never waits for another Enable.
DeferredIsProven ==
    Resting /\ Clean /\ deferred # NoEnable => ~Current(deferred)
=============================================================================
