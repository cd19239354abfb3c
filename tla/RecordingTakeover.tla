------------------------- MODULE RecordingTakeover --------------------------
(***************************************************************************)
(* Take Over on the other PC while a Primary records: the takeover receipt *)
(* that tells the Primary's takes to stop, and the recorder thread that    *)
(* continues their recording once every predecessor take is known to have  *)
(* ended (its lease says so) or to have gone quiet.                        *)
(*                                                                         *)
(* The recorder polls; one poll retries the receipt, reads the clock, then *)
(* each watched lease, decides, and acts under the recorder lock.  When    *)
(* SuccessorFaults holds, this PC's folder operations may fail.            *)
(***************************************************************************)
EXTENDS RecordingLease

CONSTANTS
    ClearAfter,         \* RECORDING_LEASE_CLEAR_AFTER
    StartAttempts,      \* TAKEOVER_START_ATTEMPTS
    SuccessorFaults     \* whether this PC's folder operations may fail

ASSUME TakeoverConstants ==
    /\ ClearAfter \in Nat
    /\ ClearAfter > LeaseTtl
    /\ StartAttempts \in Nat
    /\ SuccessorFaults \in BOOLEAN

VARIABLES
    plan,       \* the TakeoverPlan, with when its receipt was written
    watch,      \* the PredecessorWatch of each watched session
    recorder    \* the recorder thread and the takeover status it reports

takeoverVars == <<plan, watch, recorder>>
vars == <<leaseVars, takeoverVars>>

Unseen == [state |-> "unseen"]

\* What one poll makes of one watched session.
PredecessorState == {"unseen", "recording", "unknown", "quiet", "ended"}

\* `rivals` is history: the takes whose lease stood "recording" when Take Over
\* came to it, read or not; so are the instant of the receipt and whether it
\* took a retry.
PlanState == [folder : Folder \cup {NoFolder}, superseded : SUBSET Session,
              predecessors : SUBSET Take, watched : SUBSET Session,
              written : Instant, retried : BOOLEAN, rivals : SUBSET Take]
WatchState == [last : LeaseRecord \cup {Absent, Unseen}, since : Instant]
RecorderState == [pc : {"standby", "reading", "receipt", "sleeping", "probing",
                        "decided", "exited"},
                  status : {"idle", "pending", "blocked", "started", "failed",
                            "cancelled"},
                  now : Nat, unread : SUBSET Session,
                  seen : [Session -> PredecessorState],
                  step : {"none", "wait", "start", "cancel"},
                  attempts : Nat,
                  current : BOOLEAN]    \* no finish and no cancel since it was armed

NothingSeen == [s \in Session |-> "unseen"]

TypeOK ==
    /\ LeaseTypeOK
    /\ plan \in PlanState
    /\ recorder.pc # "standby" \/ recorder.status # "idle" => plan.folder \in Folder
    /\ watch \in [Session -> WatchState]
    /\ recorder \in RecorderState

Init ==
    /\ LeaseInit
    /\ plan = [folder |-> NoFolder, superseded |-> {}, predecessors |-> {},
               watched |-> {}, written |-> Never, retried |-> FALSE, rivals |-> {}]
    /\ watch = [s \in Session |-> [last |-> Unseen, since |-> Never]]
    /\ recorder = [pc |-> "standby", status |-> "idle", now |-> 0, unread |-> {},
                   seen |-> NothingSeen, step |-> "none", attempts |-> 0,
                   current |-> FALSE]

PrimaryOnly == UNCHANGED takeoverVars
SuccessorOnly == UNCHANGED <<clock, sync, home, leases, fence, worker, take>>

-----------------------------------------------------------------------------
(* arm_takeover_recording. *)

\* The followed session and any other this Standby saw active in its folder.
TakeOver(f, sessions) ==
    /\ recorder.pc = "standby"
    /\ sessions # {}
    /\ \A s \in sessions : home[s] = f
    /\ plan' = [plan EXCEPT !.folder = f, !.superseded = sessions]
    /\ recorder' = [recorder EXCEPT !.pc = "reading", !.unread = sessions]
    /\ SuccessorOnly
    /\ UNCHANGED <<receipts, watch>>

\* recording_predecessors: a lease still recording names a predecessor take,
\* and one that cannot be read is watched.
Predecessors(s) ==
    IF leases[s].state = "recording" THEN {leases[s].take} ELSE {}

Reads(s) ==
    plan' = [plan EXCEPT !.predecessors = @ \cup Predecessors(s),
                         !.watched = @ \cup IF Predecessors(s) # {} THEN {s} ELSE {},
                         !.rivals = @ \cup Predecessors(s)]

\* A mutant of FailsToRead: a lease that cannot be read is taken for none.
TakesForAbsent(s) == plan' = [plan EXCEPT !.rivals = @ \cup Predecessors(s)]

FailsToRead(s) ==
    plan' = [plan EXCEPT !.watched = @ \cup {s}, !.rivals = @ \cup Predecessors(s)]

ReadPredecessor(s) ==
    /\ recorder.pc = "reading"
    /\ s \in recorder.unread
    /\ Reads(s) \/ (SuccessorFaults /\ FailsToRead(s))
    /\ recorder' = [recorder EXCEPT !.unread = @ \ {s},
                        !.pc = IF recorder.unread = {s} THEN "receipt" ELSE @]
    /\ SuccessorOnly
    /\ UNCHANGED <<receipts, watch>>

\* What follows write_takeover: a recorder thread, if anything was recording,
\* unless it cannot be armed or the thread does not start.
Armed ==
    IF plan.predecessors # {}
    THEN \/ recorder' = [recorder EXCEPT !.pc = "sleeping", !.status = "pending",
                                         !.current = TRUE]
         \/ recorder' = [recorder EXCEPT !.pc = "exited", !.status = "failed"]
    ELSE recorder' = [recorder EXCEPT !.pc = "exited",
                          !.status = IF plan.watched = {} THEN "idle" ELSE "failed"]

PlanReceipt == [folder |-> plan.folder, supersedes |-> plan.superseded]

WriteReceipt ==
    /\ receipts' = receipts \cup {PlanReceipt}
    /\ plan' = [plan EXCEPT !.written = clock, !.retried = (recorder.pc = "sleeping")]

\* The write fails; a receipt that was complete may stay where it cannot be
\* removed either.
ReceiptFails ==
    /\ SuccessorFaults
    /\ UNCHANGED receipts \/ receipts' = receipts \cup {PlanReceipt}
    /\ UNCHANGED plan

Arm ==
    /\ recorder.pc = "receipt"
    /\ WriteReceipt \/ ReceiptFails
    /\ Armed
    /\ SuccessorOnly
    /\ UNCHANGED watch

-----------------------------------------------------------------------------
(* run_takeover_recorder. *)

\* A poll: retry the receipt until it is written, then read the clock.
Poll ==
    /\ recorder.pc = "sleeping"
    /\ IF plan.written = Never
       THEN WriteReceipt \/ ReceiptFails
       ELSE UNCHANGED <<receipts, plan>>
    /\ recorder' = [recorder EXCEPT !.pc = "probing", !.now = clock,
                        !.unread = plan.watched,
                        !.seen = NothingSeen]
    /\ SuccessorOnly
    /\ UNCHANGED watch

\* A mutant of ReadLease: a lease unchanged for the lease TTL is quiet.
ReadLeaseHasty(s) ==
    /\ recorder.pc = "probing"
    /\ s \in recorder.unread
    /\ LET since == IF leases[s] # watch[s].last THEN recorder.now ELSE watch[s].since
       IN  /\ watch' = [watch EXCEPT ![s] = [last |-> leases[s], since |-> since]]
           /\ recorder' = [recorder EXCEPT !.unread = @ \ {s},
                  !.seen[s] = IF recorder.now - since >= LeaseTtl
                              THEN "quiet" ELSE "recording"]
    /\ SuccessorOnly
    /\ UNCHANGED <<receipts, plan>>

\* PredecessorWatch::observe of one lease, at the instant the poll read.
ReadLease(s) ==
    /\ recorder.pc = "probing"
    /\ s \in recorder.unread
    /\ LET changed == leases[s] # watch[s].last
           since == IF changed THEN recorder.now ELSE watch[s].since
       IN  IF leases[s].state = "ended"
           THEN /\ recorder' = [recorder EXCEPT !.unread = @ \ {s},
                                                !.seen[s] = "ended"]
                /\ UNCHANGED watch
           ELSE /\ watch' = [watch EXCEPT ![s] = [last |-> leases[s], since |-> since]]
                /\ recorder' = [recorder EXCEPT !.unread = @ \ {s},
                       !.seen[s] = IF recorder.now - since >= ClearAfter
                                   THEN "quiet" ELSE "recording"]
    /\ SuccessorOnly
    /\ UNCHANGED <<receipts, plan>>

LeaseUnreadable(s) ==
    /\ SuccessorFaults
    /\ recorder.pc = "probing"
    /\ s \in recorder.unread
    /\ recorder' = [recorder EXCEPT !.unread = @ \ {s}, !.seen[s] = "unknown"]
    /\ SuccessorOnly
    /\ UNCHANGED <<receipts, plan, watch>>

\* PredecessorProbe::observe combines the leases: the least settled wins;
\* a quiet one counts as ended only once the receipt is written.
Settled ==
    \A s \in plan.watched :
        \/ recorder.seen[s] = "ended"
        \/ recorder.seen[s] = "quiet" /\ plan.written # Never

\* decide: standing by again, a recording here or another project cancels;
\* without a folder or an admission the takeover waits whatever it saw.
Decide(step) ==
    /\ recorder.pc = "probing"
    /\ recorder.unread = {}
    /\ step = "start" => Settled
    /\ recorder' = [recorder EXCEPT !.pc = "decided", !.step = step, !.now = 0,
                        !.seen = IF step = "start" THEN @ ELSE NothingSeen]
    /\ SuccessorOnly
    /\ UNCHANGED <<receipts, plan, watch>>

\* The decision is acted on under the recorder lock, unless it was cancelled.
Acts(step) ==
    /\ recorder.pc = "decided"
    /\ recorder.step = step
    /\ recorder.current
    /\ SuccessorOnly
    /\ UNCHANGED <<receipts, plan, watch>>

Wait ==
    /\ Acts("wait")
    /\ \E status \in {"pending", "blocked"} :
         recorder' = [recorder EXCEPT !.pc = "sleeping", !.status = status,
                                      !.step = "none"]

\* TakeoverRecorder::finish, by the thread itself: its generation is over.
Finish(status) ==
    recorder' = [recorder EXCEPT !.pc = "exited", !.status = status, !.current = FALSE]

CancelItself == Acts("cancel") /\ Finish("cancelled")

\* A mutant of StartTakeover: the generation is not compared under the lock.
StartThoughCancelled ==
    /\ recorder.pc = "decided"
    /\ recorder.step = "start"
    /\ Finish("started")
    /\ SuccessorOnly
    /\ UNCHANGED <<receipts, plan, watch>>

StartTakeover == Acts("start") /\ Finish("started")

\* start_takeover_take is refused: retried on later polls, then Failed.
StartRefused ==
    /\ Acts("start")
    /\ IF recorder.attempts < StartAttempts
       THEN recorder' = [recorder EXCEPT !.pc = "sleeping", !.status = "pending",
                                         !.attempts = @ + 1]
       ELSE Finish("failed")

\* cancel_pending, from the operator; the thread finds out when it next acts.
CancelPending ==
    /\ recorder.status \in {"pending", "blocked"}
    /\ recorder' = [recorder EXCEPT !.status = "cancelled", !.current = FALSE]
    /\ SuccessorOnly
    /\ UNCHANGED <<receipts, plan, watch>>

FindsItselfCancelled ==
    /\ recorder.pc = "decided"
    /\ ~recorder.current
    /\ recorder' = [recorder EXCEPT !.pc = "exited"]
    /\ SuccessorOnly
    /\ UNCHANGED <<receipts, plan, watch>>

-----------------------------------------------------------------------------
RecorderStep ==
    \/ \E f \in Folder, sessions \in SUBSET Session : TakeOver(f, sessions)
    \/ Arm \/ Poll \/ Wait \/ CancelItself \/ StartTakeover \/ StartRefused
    \/ CancelPending \/ FindsItselfCancelled
    \/ \E s \in Session : ReadPredecessor(s) \/ ReadLease(s) \/ LeaseUnreadable(s)
    \/ \E step \in {"wait", "start", "cancel"} : Decide(step)

Next == (LeaseNext /\ PrimaryOnly) \/ RecorderStep

Spec == Init /\ [][Next]_vars

-----------------------------------------------------------------------------
Starting == recorder.pc = "decided" /\ recorder.step = "start"
Started == recorder.status = "started"

(* The plan of record: the two machines never record the same program at   *)
(* once.  A take that recorded at Take Over does not once the takeover     *)
(* take runs.                                                              *)
NeverBothRecord == Started => \A t \in plan.rivals : ~Records(t)

(* The same, where the receipt was written by Take Over itself and no      *)
(* renewal of the take passed over an unreadable receipt: however slow     *)
(* either machine is and whatever other folder operations fail.            *)
ArmedNeverBothRecord ==
    Started /\ ~plan.retried =>
        \A t \in plan.rivals : ~fence[t].missed => ~Records(t)

(* What the takeover relies on when it starts on a quiet lease: if the     *)
(* receipt was written by Take Over itself, a take that stayed in that     *)
(* session and passed over no receipt is fenced when the recorder decides  *)
(* to start and ever after, even if its PC only slept.                     *)
QuietMeansFenced ==
    (Starting \/ Started) /\ plan.written # Never /\ ~plan.retried
    => \A s \in plan.watched, t \in plan.rivals :
          recorder.seen[s] = "quiet" /\ fence[t].bindings = {s} /\ ~fence[t].missed
          => ~Records(t)

(* "Never silent: the old Primary may have been recording" (the comment    *)
(* where arm_takeover_recording starts no recorder): a Take Over reports   *)
(* that there was nothing to continue only if no lease stood "recording"   *)
(* when it came to read it.                                                *)
NeverSilent ==
    recorder.pc = "exited" /\ recorder.status = "idle" => plan.rivals = {}

(* A cancelled takeover is not revived: not by the poll that was running   *)
(* when the operator cancelled, whatever it had decided by then.           *)
CancelledStaysCancelled ==
    [][recorder.status = "cancelled" => recorder'.status = "cancelled"]_vars

-----------------------------------------------------------------------------
(* The inductive invariant behind QuietMeansFenced, part by part.          *)

\* A take is bound to one of the sessions it was ever bound to, if to any.
BoundIsBinding ==
    \A t \in Take :
        IF fence[t].bound = NoSession THEN fence[t].bindings = {}
        ELSE fence[t].bound \in fence[t].bindings

\* The session a renewal looks at is the bound one; ending visits bindings.
TargetIsBinding ==
    \A t \in Take :
        /\ worker[t].pc \in {"search", "write"} =>
             worker[t].target = fence[t].bound /\ fence[t].bound # NoSession
        /\ worker[t].pc \in {"endRead", "endWrite"} =>
             worker[t].unended \subseteq fence[t].bindings
        /\ worker[t].pc = "endWrite" => worker[t].target \in fence[t].bindings

\* A lease names a take that was bound to its session.
LeaseOfBinding ==
    \A s \in Session :
        leases[s].state # "absent" => s \in fence[leases[s].take].bindings

\* No recorded instant lies ahead of the clock.
NoFuture ==
    /\ \A t \in Take : fence[t].renewed <= clock /\ worker[t].now <= clock
    /\ plan.written <= clock
    /\ recorder.now <= clock

\* The plan names sessions of its folder and takes that were bound.
PlanAgrees ==
    /\ \A s \in plan.superseded : home[s] = plan.folder /\ home[s] # NoFolder
    /\ plan.watched \subseteq plan.superseded
    /\ recorder.pc = "reading" => recorder.unread \subseteq plan.superseded
    /\ plan.predecessors \subseteq plan.rivals
    /\ \A t \in plan.rivals : fence[t].bindings # {}
    /\ plan.written # Never => PlanReceipt \in receipts

\* Nothing is written or watched before Take Over arms.
NothingBeforeArm ==
    /\ recorder.pc = "standby" => plan.watched = {} /\ plan.rivals = {}
    /\ recorder.pc \in {"standby", "reading", "receipt"} =>
         /\ plan.written = Never
         /\ recorder.seen = NothingSeen
         /\ \A s \in Session : watch[s].last = Unseen

\* A steady take is not renewed with an instant after a receipt it can read.
PredecessorsCalm ==
    plan.written # Never =>
        \A t \in plan.rivals, s \in plan.superseded :
            fence[t].bindings = {s} /\ ~fence[t].missed =>
                /\ fence[t].renewed <= plan.written
                /\ worker[t].pc \in {"write", "ack"} => worker[t].now <= plan.written

\* Every watch that counts started after the receipt.
WatchedSinceReceipt ==
    plan.written # Never /\ ~plan.retried =>
        /\ recorder.pc = "probing" => recorder.now >= plan.written
        /\ \A s \in Session :
             /\ watch[s].last = Unseen \/ watch[s].since >= plan.written
             /\ recorder.seen[s] = "quiet" => clock >= plan.written + ClearAfter

TakeoverInv ==
    /\ TypeOK
    /\ BoundIsBinding
    /\ TargetIsBinding
    /\ LeaseOfBinding
    /\ NoFuture
    /\ PlanAgrees
    /\ NothingBeforeArm
    /\ PredecessorsCalm
    /\ WatchedSinceReceipt

\* The inductive invariant behind EndedMeansOver.
StoppedInv ==
    /\ EndedMeansOver
    /\ \A t \in Take :
         worker[t].pc \in {"endRead", "endWrite"} => take[t].loop \in {"ending", "done"}
=============================================================================
