--------------------------- MODULE OutputOwnership ---------------------------
(***************************************************************************)
(* The output ownership gate of the engine, and those who pass it.  A      *)
(* physical operation holds a lease of the gate: a frame a permit, a       *)
(* constructor a creation lease, a worker that releases its device a       *)
(* teardown lease, a fault a failure fence.  A role change or a project    *)
(* swap reserves the gate, waits until the old outputs are gone and no     *)
(* lease is out, and makes it Ready again.  The machine's role is durable: *)
(* Standby is written before a change, the new role when it is prepared.   *)
(*                                                                         *)
(* One thread at a time holds output_ownership_transition: pc is its step. *)
(* Workers, the lighting frames, the fail-stop of the keepalive and the    *)
(* creation of a Display run beside it.                                     *)
(***************************************************************************)
EXTENDS Integers

CONSTANTS
    Worker,         \* output routes and Displays, each with its thread
    Targets,        \* roles that are asked for
    Boots,          \* roles the marker may have at the first start
    MaxEpoch,       \* bound: nothing new begins in this epoch
    MaxCrashes      \* bound: how often the process dies

Role == {"Standby", "Lighting", "Video", "Both"}

ASSUME OwnershipConstants ==
    /\ Targets \subseteq Role /\ Boots \subseteq Role
    /\ MaxEpoch \in Nat /\ MaxCrashes \in Nat

Lit == {"Lighting", "Both"}
Shown == {"Video", "Both"}

VARIABLES
    \* OutputOwnershipGateState
    state, effective, desired, persisted, epoch, active,
    \* the engine's own copy of the role it has senders for
    engineRole,
    \* the role on disk; the role whose outputs were last prepared to the end,
    \* and not reserved again since; the last write of the marker has failed
    marker, earned, lost,
    \* the thread with the lock: its step, errand, role, reserved epoch,
    \* what it holds, and the roles before a swap
    pc, kind, target, reserved, owns, before,
    failstop,
    \* project_transaction_active, which a Display that is shown sets
    publishing,
    \* the epoch of the lighting permit that is out, or -1
    light,
    \* the workers, the epochs they were admitted in, their stop signals,
    \* and those with a failure fence because they did not stop in time
    phase, born, stop, late,
    crashes

gateVars == <<state, effective, desired, persisted, epoch, active>>
diskVars == <<marker, earned, lost>>
lockVars == <<pc, kind, target, reserved, owns, before>>
workerVars == <<phase, born, stop, late>>
vars == <<gateVars, engineRole, diskVars, lockVars, failstop, publishing, light,
          workerVars, crashes>>

-----------------------------------------------------------------------------
(* The gate *)

\* A permit, a creation, teardown or failure lease is out and will be dropped.
Held ==
    \/ light # -1
    \/ late # {}
    \/ owns = "fence"
    \/ failstop # "idle"
    \/ \E w \in Worker :
        phase[w] \in {"opening", "hidden", "showing", "overdue", "abandoned",
                      "sending", "closing"}

\* The lease of a Display was forgotten: nobody will ever drop it.
Forgotten == \E w \in Worker : phase[w] = "leaked"

\* in_flight # 0
Busy == Held \/ Forgotten

\* acquire: the gate is open for an operation that a role of S allows.
Open(S) == state = "Ready" /\ ~active /\ effective \in S

\* Mutant: the last lease leaves the fence.
DropFenced == UNCHANGED gateVars

\* The last lease lifts the fence of a failed gate.  Taken with the leases
\* of the next state.
Drop ==
    /\ active' = (active /\ (state = "Failed" => Busy'))
    /\ UNCHANGED <<state, effective, desired, persisted, epoch>>

\* begin_failure_fence: the lease it returns is among those of the next state.
Fence ==
    /\ state' = "Failed" /\ effective' = "Standby"
    /\ epoch' = epoch + 1 /\ active' = TRUE
    /\ UNCHANGED <<desired, persisted>>

\* fail_locked and the mark_ operations: fenced as long as a lease is out.
FailAs(role, recorded) ==
    /\ state' = "Failed" /\ effective' = "Standby"
    /\ desired' = role /\ persisted' = recorded
    /\ active' = Busy'
    /\ UNCHANGED epoch

\* A failure fence whose lease is dropped at once.
FenceAndDrop ==
    /\ state' = "Failed" /\ effective' = "Standby"
    /\ epoch' = epoch + 1 /\ active' = Busy'
    /\ UNCHANGED <<desired, persisted>>

\* ready and project_swap_disarmed
Reopen(now, wanted, recorded) ==
    /\ state' = "Ready" /\ effective' = now
    /\ desired' = wanted /\ persisted' = recorded
    /\ active' = FALSE
    /\ UNCHANGED epoch

-----------------------------------------------------------------------------
(* The workers *)

\* In a registry, where a stop signal and a join find them.
Registered == {w \in Worker : phase[w] \in {"up", "sending", "closing"}}

Signal == stop' = [w \in Worker |-> stop[w] \/ w \in Registered]

Moves(w, now) == phase' = [phase EXCEPT ![w] = now]

\* A frame is sent under a permit.
Acquire(w) ==
    /\ phase[w] = "up" /\ ~stop[w] /\ Open(Shown)
    /\ Moves(w, "sending")
    /\ UNCHANGED <<gateVars, engineRole, diskVars, lockVars, failstop, publishing, light,
                   born, stop, late, crashes>>

Sent(w) ==
    /\ phase[w] = "sending"
    /\ Moves(w, "up")
    /\ UNCHANGED late
    /\ UNCHANGED <<engineRole, diskVars, lockVars, failstop, publishing, light, born, stop, crashes>>
    /\ Drop

\* The send fails: the fence is raised before the permit is gone, and its
\* lease stays with the worker until it is joined.
SendFails(w) ==
    /\ phase[w] = "sending" /\ ~stop[w] /\ epoch < MaxEpoch
    /\ Moves(w, "closing")
    /\ Fence
    /\ UNCHANGED <<engineRole, diskVars, lockVars, failstop, publishing, light, born, stop, late, crashes>>

\* No permit, and nobody asked it to stop.  A worker that was just published
\* first waits for its role to complete, but not for ever.
Refused(w) ==
    /\ phase[w] = "up" /\ ~stop[w] /\ ~Open(Shown)
    /\ Moves(w, "closing")
    /\ Fence
    /\ UNCHANGED <<engineRole, diskVars, lockVars, failstop, publishing, light, born, stop, late, crashes>>

\* Its stop signal: the device is released under a teardown lease, which a
\* gate that is not fenced does not give.
Stops(w) ==
    /\ phase[w] = "up" /\ stop[w]
    /\ Moves(w, "closing")
    /\ IF active /\ state \in {"Transitioning", "Activating", "Failed"}
       THEN UNCHANGED gateVars
       ELSE Fence
    /\ UNCHANGED <<engineRole, diskVars, lockVars, failstop, publishing, light, born, stop, late, crashes>>

\* A constructor that nobody waits for any more comes to its end.
AbandonedEnds(w) ==
    /\ phase[w] = "abandoned"
    /\ Moves(w, "absent")
    /\ UNCHANGED <<engineRole, diskVars, lockVars, failstop, publishing, light, born, stop, late, crashes>>
    /\ Drop

\* Those who join workers: a stop, a cleanup and the fail-stop.
Joining == pc \in {"stop", "clear", "unwind"} \/ failstop = "fenced"

Join(w) ==
    /\ Joining /\ phase[w] = "closing"
    /\ Moves(w, "absent")
    /\ late' = late \ {w}
    /\ UNCHANGED <<engineRole, diskVars, lockVars, failstop, publishing, light, born, stop, crashes>>
    /\ Drop

\* A worker does not stop in time: a failure fence stays with its route.
NotJoined(w) ==
    /\ w \in Registered
    /\ stop' = [stop EXCEPT ![w] = TRUE]
    /\ late' = late \union {w}
    /\ IF w \in late THEN UNCHANGED gateVars ELSE Fence
    /\ UNCHANGED <<engineRole, diskVars, kind, target, reserved, owns, before, failstop,
                   publishing, light, phase, born, crashes>>

JoinTimesOut(w) ==
    /\ \/ pc \in {"clear", "unwind"} /\ w \notin late /\ UNCHANGED pc
       \/ failstop = "fenced" /\ w \notin late /\ UNCHANGED pc
       \/ pc = "stop" /\ pc' = IF kind = "swap" THEN "unwind" ELSE "failed"
    /\ NotJoined(w)

\* One DMX frame.
Light ==
    /\ light = -1 /\ Open(Lit)
    /\ light' = epoch
    /\ UNCHANGED <<gateVars, engineRole, diskVars, lockVars, failstop, publishing, workerVars, crashes>>

Unlight ==
    /\ light # -1
    /\ light' = -1
    /\ UNCHANGED late
    /\ UNCHANGED <<engineRole, diskVars, lockVars, failstop, publishing, phase, born, stop, crashes>>
    /\ Drop

-----------------------------------------------------------------------------
(* A Display that is added: its lease is taken, admitted and published      *)
(* under the lock; its window is built and shown without it.                *)

AddDisplay(w) ==
    /\ pc = "idle" /\ ~publishing /\ phase[w] = "absent" /\ Open(Shown)
    /\ Moves(w, "hidden")
    /\ born' = [born EXCEPT ![w] = epoch]
    /\ stop' = [stop EXCEPT ![w] = FALSE]
    /\ UNCHANGED <<gateVars, engineRole, diskVars, lockVars, failstop, publishing,
                   light, late, crashes>>

\* The Display is given up.  Where its window is gone the project transaction
\* ends too, even one that another Display began; where the retirement is not
\* acknowledged the lease is forgotten and the transaction stays.
Withdrawn(w) ==
    \/ Moves(w, "absent") /\ publishing' = FALSE
    \/ Moves(w, "leaked") /\ UNCHANGED publishing

\* Its hidden shell is built: only now the project transaction is reserved,
\* if nothing changed meanwhile.
AdmitDisplay(w) ==
    /\ pc = "idle" /\ phase[w] = "hidden"
    /\ IF epoch = born[w] /\ ~publishing
       THEN Moves(w, "showing") /\ publishing' = TRUE
       ELSE Withdrawn(w)
    /\ UNCHANGED <<engineRole, diskVars, lockVars, failstop, light, born, stop, late, crashes>>
    /\ Drop

\* publish: refused unless the gate is still open in the epoch of the lease.
\* A terminal receipt that is not recorded leaves the transaction active.
PublishDisplay(w) ==
    /\ pc = "idle" /\ phase[w] = "showing"
    /\ IF publishing /\ Open(Shown) /\ epoch = born[w]
       THEN Moves(w, "up") /\ publishing' \in BOOLEAN
       ELSE Withdrawn(w)
    /\ UNCHANGED <<engineRole, diskVars, lockVars, failstop, light, born, stop, late, crashes>>
    /\ Drop

\* A phase fails, or exceeds its deadline and is left to its reaper.
AddingFails(w) ==
    /\ phase[w] \in {"hidden", "showing"}
    /\ Withdrawn(w) \/ (Moves(w, "overdue") /\ UNCHANGED publishing)
    /\ UNCHANGED <<engineRole, diskVars, lockVars, failstop, light, born, stop, late, crashes>>
    /\ Drop

\* The late cleanup of the reaper, whatever has changed since.
Reaped(w) ==
    /\ phase[w] = "overdue"
    /\ \E end \in {"absent", "leaked"} : Moves(w, end)
    /\ UNCHANGED <<engineRole, diskVars, lockVars, failstop, publishing, light,
                   born, stop, late, crashes>>
    /\ Drop

-----------------------------------------------------------------------------
(* The thread with the lock *)

Goes(step) == pc' = step /\ UNCHANGED <<kind, target, reserved, owns, before>>
Holding(lease, step) == pc' = step /\ owns' = lease /\ UNCHANGED <<kind, target, reserved, before>>

\* The lock is given back.
Ends ==
    /\ pc' = "idle" /\ kind' = "none" /\ target' = "Standby"
    /\ reserved' = -1 /\ owns' = "nothing" /\ before' = <<"Standby", "Standby">>

Is(step) == pc = step
Beside == <<failstop, publishing, light, crashes>>

Begin(errand, role, step) ==
    /\ Is("idle") /\ epoch < MaxEpoch
    /\ pc' = step /\ kind' = errand /\ target' = role
    /\ UNCHANGED <<reserved, owns, before>>
    /\ UNCHANGED <<gateVars, engineRole, diskVars, Beside, workerVars>>

\* Refused while a project transaction is active: a Display that is shown, not
\* one whose shell is being built nor one that is overdue.
BeginRole(r) == ~publishing /\ Begin("role", r, "harvest")
BeginSync == Begin("sync", "Standby", "write")
BeginSwap == ~publishing /\ Begin("swap", desired, "harvest")

\* harvest_finished_outputs: workers that have ended are joined.
Harvest ==
    /\ Is("harvest")
    /\ phase' = [w \in Worker |-> IF phase[w] = "closing" THEN "absent" ELSE phase[w]]
    /\ late' = {w \in late : phase[w] # "closing"}
    /\ Goes(IF kind = "role" THEN "write" ELSE "reserve")
    /\ UNCHANGED <<engineRole, diskVars, Beside, born, stop>>
    /\ Drop

\* The marker is written, or the write fails and leaves it.
Writes(role) == marker' = role /\ lost' = FALSE /\ UNCHANGED earned
Unwritten == lost' = TRUE /\ UNCHANGED <<marker, earned>>

WriteStandby ==
    /\ Is("write")
    /\ \/ Writes("Standby") /\ Goes("record")
       \/ Unwritten /\ Goes("failed")
    /\ UNCHANGED <<gateVars, engineRole, Beside, workerVars>>

RecordStandby ==
    /\ Is("record")
    /\ persisted' = "Standby"
    /\ Goes(IF kind = "role" THEN "reserve" ELSE "harvest")
    /\ UNCHANGED <<state, effective, desired, epoch, active>>
    /\ UNCHANGED <<engineRole, diskVars, Beside, workerVars>>

\* reserve_retirement: closes the gate and signals the workers at once.
Reserve ==
    /\ Is("reserve")
    /\ IF active
       THEN /\ IF kind = "swap" THEN Ends ELSE Goes("failed")
            /\ UNCHANGED <<gateVars, stop, earned>>
       ELSE /\ state' = "Transitioning" /\ effective' = "Standby"
            /\ desired' = target /\ epoch' = epoch + 1 /\ active' = TRUE
            /\ UNCHANGED persisted
            /\ Signal
            /\ pc' = IF kind = "swap" THEN "inputs" ELSE "fence"
            /\ owns' = "retirement" /\ reserved' = epoch + 1
            /\ before' = <<desired, persisted>>
            /\ earned' = IF kind = "swap" THEN earned ELSE "Standby"
            /\ UNCHANGED <<kind, target>>
    /\ UNCHANGED <<engineRole, marker, lost, Beside, phase, born, late>>

\* A swap retires the project's inputs first; if that fails it still joins
\* the outputs, and then gives up.
RetireInputs ==
    /\ Is("inputs")
    /\ \E step \in {"fence", "unwind"} : Goes(step)
    /\ UNCHANGED <<gateVars, engineRole, diskVars, Beside, workerVars>>

\* fence_output_ownership: the engine drops its senders.  Its answer may be
\* late, whatever it did; a swap retires the outputs even then.
FenceEngine ==
    /\ Is("fence")
    /\ \/ engineRole' = "Standby" /\ Goes("stop")
       \/ /\ engineRole' \in {engineRole, "Standby"}
          /\ Goes(IF kind = "swap" THEN "unwind" ELSE "failed")
    /\ UNCHANGED <<gateVars, diskVars, Beside, workerVars>>

\* Mutant: the reservation drains without the workers being joined.
StoppedUnjoined ==
    /\ Is("stop")
    /\ Goes("drain")
    /\ UNCHANGED <<gateVars, engineRole, diskVars, Beside, workerVars>>

Stopped ==
    /\ Is("stop") /\ Registered = {}
    /\ Goes("drain")
    /\ UNCHANGED <<gateVars, engineRole, diskVars, Beside, workerVars>>

\* finish_retirement: someone else's fence is left alone, the last lease is
\* waited for, and in the end a timeout fails the change.
Superseded ==
    ~(active /\ state = "Transitioning" /\ epoch = reserved /\ desired = target)

GivesUp == IF kind = "swap" THEN "abort" ELSE "failed"

Drain ==
    /\ Is("drain")
    /\ UNCHANGED <<engineRole, diskVars, Beside, workerVars>>
    /\ \/ Superseded /\ Holding("nothing", GivesUp) /\ UNCHANGED gateVars
       \/ /\ ~Superseded /\ ~Busy
          /\ pc' = IF kind = "swap" THEN "publish" ELSE "prepare"
          /\ owns' = "transition"
          /\ UNCHANGED <<kind, target, reserved, before, gateVars>>
       \/ ~Superseded /\ Busy /\ Holding("nothing", GivesUp) /\ FailAs(target, persisted)

\* prepare_output_ownership_role compares the gate and asks the engine, which
\* compares nothing: it opens the senders of the role, fails and drops them,
\* or answers too late.
AskEngine ==
    /\ Is("prepare")
    /\ Goes(IF state = "Transitioning" /\ desired = target THEN "ask" ELSE "failed")
    /\ UNCHANGED <<gateVars, engineRole, diskVars, Beside, workerVars>>

Prepare ==
    /\ Is("ask")
    /\ \/ engineRole' = target /\ Goes(IF target \in Shown THEN "activate" ELSE "start")
       \/ engineRole' \in {target, "Standby"} /\ Goes("failed")
    /\ UNCHANGED <<gateVars, diskVars, Beside, workerVars>>

\* begin_activation
Activate ==
    /\ Is("activate")
    /\ IF active /\ state = "Transitioning" /\ desired = target
       THEN state' = "Activating" /\ Goes("start")
       ELSE UNCHANGED state /\ Goes("failed")
    /\ UNCHANGED <<effective, desired, persisted, epoch, active>>
    /\ UNCHANGED <<engineRole, diskVars, Beside, workerVars>>

\* The activation that was admitted for this change still stands.
Activated == active /\ state = "Activating" /\ epoch = reserved /\ desired = target

\* Routes are opened one by one: a creation lease, the device, publication.
OpenRoute(w) ==
    /\ Is("start") /\ target \in Shown /\ phase[w] = "absent" /\ ~\E v \in Worker : phase[v] = "opening"
    /\ IF Activated
       THEN /\ Moves(w, "opening") /\ born' = [born EXCEPT ![w] = epoch]
            /\ stop' = [stop EXCEPT ![w] = FALSE]
            /\ UNCHANGED lockVars
       ELSE UNCHANGED <<phase, born, stop>> /\ Goes("failed")
    /\ UNCHANGED <<gateVars, engineRole, diskVars, Beside, late>>

PublishRoute(w) ==
    /\ Is("start") /\ phase[w] = "opening"
    /\ IF Activated
       THEN Moves(w, "up") /\ UNCHANGED lockVars
       ELSE Moves(w, "absent") /\ Goes("failed")
    /\ UNCHANGED <<engineRole, diskVars, Beside, born, stop, late>>
    /\ Drop

\* The device does not open, or not in time, and is then left to its thread.
OpeningFails(w) ==
    /\ Is("start") /\ phase[w] = "opening"
    /\ UNCHANGED <<engineRole, diskVars, Beside, born, stop, late>>
    /\ Goes("failed")
    /\ \E end \in {"absent", "abandoned"} : Moves(w, end)
    /\ FenceAndDrop

Started ==
    /\ Is("start") /\ ~\E w \in Worker : phase[w] = "opening"
    /\ Goes("prepared")
    /\ earned' = target
    /\ UNCHANGED <<gateVars, engineRole, marker, lost, Beside, workerVars>>

\* Mutant: the role is recorded before its outputs are prepared.
WriteTargetFirst ==
    /\ Is("start")
    /\ \/ Writes(target) /\ UNCHANGED lockVars
       \/ Unwritten /\ Goes("failed")
    /\ UNCHANGED <<gateVars, engineRole, Beside, workerVars>>

\* persist_output_ownership_target_after_preparation
WriteTarget ==
    /\ Is("prepared")
    /\ \/ Writes(target) /\ Goes("recordTarget")
       \/ Unwritten /\ Goes("failed")
    /\ UNCHANGED <<gateVars, engineRole, Beside, workerVars>>

\* update_persisted_role
RecordTarget ==
    /\ Is("recordTarget")
    /\ IF active THEN persisted' = target /\ Goes("complete")
                 ELSE UNCHANGED persisted /\ Goes("failed")
    /\ UNCHANGED <<state, effective, desired, epoch, active>>
    /\ UNCHANGED <<engineRole, diskVars, Beside, workerVars>>

\* Mutant: the completion does not ask whether it is still fenced.
CompleteUnfenced ==
    /\ Is("complete")
    /\ UNCHANGED <<engineRole, diskVars, Beside, workerVars>>
    /\ IF ~Busy
       THEN Ends /\ Reopen(target, target, persisted)
       ELSE Holding("nothing", "failed") /\ FailAs(target, persisted)

\* complete: neither the state nor the epoch is compared with the reservation.
Complete ==
    /\ Is("complete")
    /\ UNCHANGED <<engineRole, diskVars, Beside, workerVars>>
    /\ IF active /\ ~Busy
       THEN Ends /\ Reopen(target, target, persisted)
       ELSE Holding("nothing", "failed") /\ FailAs(target, persisted)

-----------------------------------------------------------------------------
(* The end of a swap *)

\* publish_project_snapshot_with_runtime_reset_admission
PublishSnapshot ==
    /\ Is("publish")
    /\ \E step \in {"disarm", "abort"} : Goes(step)
    /\ UNCHANGED <<gateVars, engineRole, diskVars, Beside, workerVars>>

\* complete_project_swap_disarmed
Disarm ==
    /\ Is("disarm")
    /\ UNCHANGED <<engineRole, diskVars, Beside, workerVars>>
    /\ Ends
    /\ IF active /\ state \in {"Transitioning", "Activating"} /\ ~Busy
       THEN Reopen("Standby", before[1], before[2])
       ELSE FailAs(target, persisted)

\* What could be joined is joined.
Unwound ==
    /\ Is("unwind") /\ Registered \subseteq late
    /\ Goes("abort")
    /\ UNCHANGED <<gateVars, engineRole, diskVars, Beside, workerVars>>

\* The reservation fails; one that was superseded is left alone.
Abort ==
    /\ Is("abort")
    /\ UNCHANGED <<engineRole, diskVars, Beside, workerVars>>
    /\ Ends
    /\ IF owns = "nothing" THEN UNCHANGED gateVars ELSE FailAs(target, persisted)

-----------------------------------------------------------------------------
(* A role change that fails: fail_output_ownership_transition_with_cleanup *)

\* A reservation is failed first; without a transition a fence is raised.
GiveBack ==
    /\ Is("failed") /\ owns = "retirement"
    /\ UNCHANGED <<engineRole, diskVars, Beside, workerVars>>
    /\ Holding("nothing", "failed")
    /\ FailAs(target, persisted)

FenceFailure ==
    /\ Is("failed") /\ owns # "retirement"
    /\ IF owns = "nothing" THEN Fence /\ Holding("fence", "cleanup")
                           ELSE UNCHANGED gateVars /\ Goes("cleanup")
    /\ UNCHANGED <<engineRole, diskVars, Beside, workerVars>>

\* The engine is fenced, or does not answer; the workers are stopped anyway.
Cleanup ==
    /\ Is("cleanup")
    /\ Signal
    /\ engineRole' \in {engineRole, "Standby"}
    /\ Goes("clear")
    /\ UNCHANGED <<gateVars, diskVars, Beside, phase, born, late>>

Cleared ==
    /\ Is("clear") /\ Registered \subseteq late
    /\ Goes("fail")
    /\ UNCHANGED <<gateVars, engineRole, diskVars, Beside, workerVars>>

FailTransition ==
    /\ Is("fail")
    /\ UNCHANGED <<engineRole, diskVars, Beside, workerVars>>
    /\ Holding(IF owns = "transition" THEN "nothing" ELSE owns, "deny")
    /\ IF owns = "transition" THEN FailAs(target, persisted) ELSE UNCHANGED gateVars

WriteDenial ==
    /\ Is("deny")
    /\ \/ Writes("Standby") /\ Goes("mark")
       \/ Unwritten /\ Goes("markLost")
    /\ UNCHANGED <<gateVars, engineRole, Beside, workerVars>>

\* mark_durable_standby_failure, or mark_transition_failure
Mark ==
    /\ pc \in {"mark", "markLost"}
    /\ UNCHANGED <<engineRole, diskVars, Beside, workerVars>>
    /\ Goes("release")
    /\ IF pc = "mark" THEN FailAs(target, "Standby") ELSE FailAs(desired, persisted)

ReleaseLock ==
    /\ Is("release")
    /\ Ends
    /\ UNCHANGED <<engineRole, diskVars, Beside, workerVars>>
    /\ Drop

-----------------------------------------------------------------------------
(* The fail-stop of the keepalive does not take the lock. *)

FailStopGoes(step) == failstop' = step /\ UNCHANGED <<publishing, light, crashes>>

FailStop ==
    /\ failstop = "idle" /\ epoch < MaxEpoch
    /\ FailStopGoes("fenced")
    /\ Fence /\ Signal
    /\ UNCHANGED <<engineRole, diskVars, lockVars, phase, born, late>>

FailStopRetires ==
    /\ failstop = "fenced" /\ Registered \subseteq late
    /\ FailStopGoes("retired")
    /\ engineRole' \in {engineRole, "Standby"}
    /\ UNCHANGED <<gateVars, diskVars, lockVars, workerVars>>

FailStopWrites ==
    /\ failstop = "retired"
    /\ \/ Writes("Standby") /\ FailStopGoes("written")
       \/ Unwritten /\ FailStopGoes("unwritten")
    /\ UNCHANGED <<gateVars, engineRole, lockVars, workerVars>>

FailStopMarks ==
    /\ failstop \in {"written", "unwritten"}
    /\ UNCHANGED <<engineRole, diskVars, lockVars, workerVars>>
    /\ FailStopGoes("marked")
    /\ FailAs(desired, IF failstop = "written" THEN "Standby" ELSE persisted)

FailStopEnds ==
    /\ failstop = "marked"
    /\ FailStopGoes("idle")
    /\ UNCHANGED <<engineRole, diskVars, lockVars, workerVars>>
    /\ Drop

-----------------------------------------------------------------------------
(* The process *)

\* What the marker tells at a start: the role it names is only the wish, and
\* a file that cannot be read tells nothing.
Told == {[wish |-> marker, known |-> marker], [wish |-> "Standby", known |-> "none"]}

Init ==
    /\ marker \in Boots /\ earned = marker /\ crashes = 0
    /\ state = "Failed" /\ effective = "Standby"
    /\ epoch = 0 /\ active = FALSE
    /\ engineRole = "Standby" /\ lost = FALSE
    /\ pc = "idle" /\ kind = "none" /\ target = "Standby"
    /\ reserved = -1 /\ owns = "nothing" /\ before = <<"Standby", "Standby">>
    /\ failstop = "idle" /\ publishing = FALSE /\ light = -1
    /\ phase = [w \in Worker |-> "absent"] /\ born = [w \in Worker |-> -1]
    /\ stop = [w \in Worker |-> FALSE] /\ late = {}
    /\ \E told \in Told : desired = told.wish /\ persisted = told.known

\* startup_denied: nothing of the process survives but the marker.
Crash ==
    /\ crashes < MaxCrashes
    /\ crashes' = crashes + 1
    /\ UNCHANGED <<marker, earned>>
    /\ state' = "Failed" /\ effective' = "Standby"
    /\ epoch' = 0 /\ active' = FALSE
    /\ engineRole' = "Standby" /\ lost' = FALSE
    /\ pc' = "idle" /\ kind' = "none" /\ target' = "Standby"
    /\ reserved' = -1 /\ owns' = "nothing" /\ before' = <<"Standby", "Standby">>
    /\ failstop' = "idle" /\ publishing' = FALSE /\ light' = -1
    /\ phase' = [w \in Worker |-> "absent"] /\ born' = [w \in Worker |-> -1]
    /\ stop' = [w \in Worker |-> FALSE] /\ late' = {}
    /\ \E told \in Told : desired' = told.wish /\ persisted' = told.known

WorkerNext ==
    \E w \in Worker :
        \/ Acquire(w) \/ Sent(w) \/ SendFails(w) \/ Refused(w) \/ Stops(w)
        \/ AbandonedEnds(w) \/ Join(w) \/ JoinTimesOut(w)
        \/ AddDisplay(w) \/ AdmitDisplay(w) \/ PublishDisplay(w)
        \/ AddingFails(w) \/ Reaped(w)

LightNext == Light \/ Unlight

LockNext ==
    \/ \E r \in Targets : BeginRole(r)
    \/ BeginSync \/ BeginSwap
    \/ Harvest \/ WriteStandby \/ RecordStandby \/ Reserve \/ RetireInputs
    \/ FenceEngine \/ Stopped \/ Drain \/ AskEngine \/ Prepare \/ Activate
    \/ \E w \in Worker : OpenRoute(w) \/ PublishRoute(w) \/ OpeningFails(w)
    \/ Started \/ WriteTarget \/ RecordTarget \/ Complete
    \/ PublishSnapshot \/ Disarm \/ Unwound \/ Abort
    \/ GiveBack \/ FenceFailure \/ Cleanup \/ Cleared \/ FailTransition
    \/ WriteDenial \/ Mark \/ ReleaseLock

FailStopNext ==
    FailStop \/ FailStopRetires \/ FailStopWrites \/ FailStopMarks \/ FailStopEnds

Next == WorkerNext \/ LightNext \/ LockNext \/ FailStopNext \/ Crash

Spec == Init /\ [][Next]_vars

-----------------------------------------------------------------------------
(* Properties *)

OwnershipTypeOK ==
    /\ state \in {"Ready", "Transitioning", "Activating", "Failed"}
    /\ {effective, desired, engineRole, marker, earned, target} \subseteq Role
    /\ persisted \in Role \union {"none"}
    /\ epoch \in Nat /\ {active, lost, publishing} \subseteq BOOLEAN
    /\ reserved \in -1 .. epoch /\ light \in -1 .. epoch
    /\ owns \in {"nothing", "retirement", "transition", "fence"}
    /\ late \subseteq Registered

\* A gate that failed is fenced exactly as long as a lease is out: it is not
\* left shut when the last holder is done, and not opened to a later change
\* while a device is still being released.  Where a lease was forgotten nobody
\* lifts the fence and no change passes until the restart.  A gate that is
\* changing is fenced by the thread that reserved this very epoch.
FencedWhileHeld ==
    /\ state = "Ready" => ~active
    /\ state \in {"Transitioning", "Activating"} =>
          active /\ owns \in {"retirement", "transition"} /\ reserved = epoch
    /\ state = "Failed" => (active <=> Held \/ Forgotten)

\* An open gate has no output of an earlier epoch behind it: no worker, no
\* lease, no frame, and the engine's senders are those of the role.
ReadyIsQuiet ==
    state = "Ready" =>
        /\ \A w \in Worker : phase[w] # "absent" => born[w] = epoch
        /\ light \in {-1, epoch}
        /\ engineRole = effective

\* The gate opens from a reservation alone, in the epoch that was reserved:
\* a fault raised meanwhile keeps it shut, although the completion looks
\* neither at the state nor at the epoch.
ReadyIsUnfaulted ==
    [][(state # "Ready" /\ state' = "Ready") =>
           /\ state \in {"Transitioning", "Activating"}
           /\ epoch = reserved]_vars

\* A role that a restart would propose was prepared to its end since the last
\* change was reserved, whatever failed or crashed.
MarkerIsEarned == marker # "Standby" => marker = earned

\* The gate tells the truth about the file as soon as nobody is changing it.
MemoryAgrees ==
    (pc = "idle" /\ failstop = "idle" /\ ~lost) => persisted \in {marker, "none"}

\* A role that is armed or proposed is one whose outputs are really there.
MarkerIsTrue == MarkerIsEarned /\ MemoryAgrees

=============================================================================
