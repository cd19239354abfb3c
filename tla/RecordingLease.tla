--------------------------- MODULE RecordingLease ---------------------------
(***************************************************************************)
(* The recording lease of a Standby-sync Primary: the frame loop of each   *)
(* take, the fence it consults before every frame, the worker thread that  *)
(* renews the lease file in the sync folder, and the sync folder itself.   *)
(* The other PC is in RecordingTakeover.                                   *)
(*                                                                         *)
(* Time is read from one clock in units of the renewal interval: the code  *)
(* never compares clocks of two PCs, so one clock loses nothing as long as *)
(* every interval is measured on one PC.  Each file operation is one step, *)
(* taken an arbitrary time after the step before it: a slow share, a       *)
(* stalled thread and a sleeping PC all look like this.  When FolderFaults *)
(* holds, any operation of the Primary on the sync folder may also fail.   *)
(***************************************************************************)
EXTENDS Integers, FiniteSets

CONSTANTS
    Folder,         \* sync folders the operator may choose
    NoFolder,       \* the home of a session that was never started
    MaxSession,     \* bound: sync sessions the Primary starts
    Take,           \* the takes of the Primary, numbered in starting order
    MaxStarts,      \* bound: sync sessions and takes started, together
    LeaseTtl,       \* RECORDING_LEASE_TTL
    SplitAfter,     \* SPLIT_BRAIN_FENCE_AFTER
    JoinWait,       \* LEASE_WORKER_JOIN_WAIT
    OtherPrimary,   \* whether another Primary may share the sync folder
    FolderFaults,   \* whether the Primary's folder operations may fail
    MaxClock        \* bound: the last instant considered

ASSUME LeaseConstants ==
    /\ MaxSession \in Nat
    /\ Take \subseteq Nat
    /\ MaxStarts \in Nat
    /\ NoFolder \notin Folder
    /\ LeaseTtl \in Nat
    /\ SplitAfter \in Nat
    /\ JoinWait \in Nat
    /\ OtherPrimary \in BOOLEAN
    /\ FolderFaults \in BOOLEAN
    /\ MaxClock \in Nat

VARIABLES
    clock,      \* Instant::now()
    sync,       \* Standby sync of the Primary: role, session, split brain
    home,       \* the sync folder of every session started so far
    leases,     \* the recording lease file of each session
    receipts,   \* the takeover receipts in the sync folders
    fence,      \* the RecordingLeaseFence of each take
    worker,     \* the thread renewing the lease of each take
    take        \* the frame loop of each take

leaseVars == <<clock, sync, home, leases, receipts, fence, worker, take>>

Session == 1..MaxSession
NoSession == 0
Never == -1
Instant == Nat \cup {Never}

LeaseRecord == [take : Take, sequence : Nat, state : {"recording", "ended"}]
Absent == [state |-> "absent"]
Receipt == [folder : Folder, supersedes : SUBSET Session]

\* What one renewal learns about split brain; "unknown" is a busy sync lock.
SplitView == {"yes", "no", "unknown"}

\* The last two are history, kept for the properties and read by no action:
\* the instant of the present binding, and whether a renewal ever passed over
\* a receipt that names the take.
FenceState == [bound : Session \cup {NoSession}, bindings : SUBSET Session,
               renewed : Instant, failed : BOOLEAN, splitSince : Instant,
               sequence : Nat, revoked : BOOLEAN,
               since : Instant, missed : BOOLEAN]
WorkerState == [pc : {"none", "observed", "search", "write", "ack", "rested",
                      "endRead", "endWrite", "exited"},
                now : Nat, primary : Session \cup {NoSession}, split : SplitView,
                target : Session \cup {NoSession}, sequence : Nat,
                unended : SUBSET Session]
NoWorker == [pc |-> "none", now |-> 0, primary |-> NoSession, split |-> "no",
             target |-> NoSession, sequence |-> 0, unended |-> {}]
TakeState == [loop : {"idle", "starting", "opening", "recording", "ending",
                      "done", "refused", "unspawned"},
              joinBy : Nat]

LeaseTypeOK ==
    /\ clock \in Nat
    /\ sync \in [role : {"off", "primary", "standby"},
                 session : Session \cup {NoSession}, split : BOOLEAN]
    /\ home \in [Session -> Folder \cup {NoFolder}]
    /\ leases \in [Session -> LeaseRecord \cup {Absent}]
    /\ receipts \in SUBSET Receipt
    /\ fence \in [Take -> FenceState]
    /\ worker \in [Take -> WorkerState]
    /\ take \in [Take -> TakeState]

LeaseInit ==
    /\ clock = 0
    /\ sync = [role |-> "off", session |-> NoSession, split |-> FALSE]
    /\ home = [s \in Session |-> NoFolder]
    /\ leases = [s \in Session |-> Absent]
    /\ receipts = {}
    /\ fence = [t \in Take |->
                 [bound |-> NoSession, bindings |-> {}, renewed |-> Never,
                  failed |-> FALSE, splitSince |-> Never, sequence |-> 0,
                  revoked |-> FALSE, since |-> Never, missed |-> FALSE]]
    /\ worker = [t \in Take |-> NoWorker]
    /\ take = [t \in Take |-> [loop |-> "idle", joinBy |-> 0]]

-----------------------------------------------------------------------------
(* The fence. *)

\* RecordingLeaseFence::check at instant `now`.
FencePasses(t, now) ==
    /\ ~fence[t].revoked
    /\ fence[t].bound # NoSession =>
         /\ fence[t].renewed # Never
         /\ now - fence[t].renewed <= LeaseTtl

\* The take records: its frame loop runs and the fence lets the next frame in.
Records(t) == take[t].loop = "recording" /\ FencePasses(t, clock)

\* takeover_superseding: a receipt in folder f names a session of the take.
SupersededIn(f, t) ==
    \E r \in receipts : r.folder = f /\ r.supersedes \cap fence[t].bindings # {}

CurrentFolder(t) == home[worker[t].target]
EarlierFolders(t) == {home[s] : s \in fence[t].bindings} \ {CurrentFolder(t)}

\* RecordingLeaseFence::superseded over every folder the take was bound in.
Superseded(t) ==
    \E f \in EarlierFolders(t) \cup {CurrentFolder(t)} : SupersededIn(f, t)

-----------------------------------------------------------------------------
(* Standby sync on the Primary, and the passage of time. *)

Tick ==
    /\ clock < MaxClock
    /\ clock' = clock + 1
    /\ UNCHANGED <<sync, home, leases, receipts, fence, worker, take>>

StartsLeft ==
    Cardinality({s \in Session : home[s] # NoFolder})
      + Cardinality({t \in Take : take[t].loop # "idle"}) < MaxStarts

\* start_standby_sync as Primary: a fresh session in the chosen folder.
StartSync(f) ==
    \E s \in Session :
        /\ StartsLeft
        /\ home[s] = NoFolder
        /\ \A r \in Session : r < s => home[r] # NoFolder
        /\ home' = [home EXCEPT ![s] = f]
        /\ sync' = [role |-> "primary", session |-> s, split |-> FALSE]
        /\ UNCHANGED <<clock, leases, receipts, fence, worker, take>>

\* start_standby_sync as Standby.
BecomeStandby ==
    /\ sync.role # "standby"
    /\ sync' = [role |-> "standby", session |-> NoSession, split |-> FALSE]
    /\ UNCHANGED <<clock, home, leases, receipts, fence, worker, take>>

\* stop_standby_sync, or a project replacement; the last status stays.
StopSync ==
    /\ sync.role # "off"
    /\ sync' = [sync EXCEPT !.role = "off"]
    /\ UNCHANGED <<clock, home, leases, receipts, fence, worker, take>>

\* The Primary's sync worker starts or stops seeing a second active session.
SplitBrain ==
    /\ OtherPrimary
    /\ sync.role = "primary"
    /\ sync' = [sync EXCEPT !.split = ~@]
    /\ UNCHANGED <<clock, home, leases, receipts, fence, worker, take>>

-----------------------------------------------------------------------------
(* One renewal: observe, bind, look for a takeover, write, note the write. *)
(* The recorder thread makes the first one, the lease worker the others.   *)

\* lease_observation, after Instant::now(): the sync lock may be busy.
Observe(t) ==
    \E view \in {<<NoSession, "unknown">>,
                 <<IF sync.role = "primary" THEN sync.session ELSE NoSession,
                   IF sync.role # "off" /\ sync.split THEN "yes" ELSE "no">>} :
        worker' = [worker EXCEPT ![t] =
            [worker[t] EXCEPT !.pc = "observed", !.now = clock,
                      !.primary = view[1], !.split = view[2]]]

\* begin_video_output_recording: admitted, and the last recorder has finished.
StartTake(t) ==
    /\ StartsLeft
    /\ take[t].loop = "idle"
    /\ \A u \in Take : u < t => take[u].loop \in {"done", "refused", "unspawned"}
    /\ sync.role # "standby"
    /\ ~sync.split
    /\ take' = [take EXCEPT ![t].loop = "starting"]
    /\ Observe(t)
    /\ UNCHANGED <<clock, sync, home, leases, receipts, fence>>

\* The worker's next renewal: an interval has passed and stop is not set.
Wake(t) ==
    /\ worker[t].pc = "rested"
    /\ take[t].loop \in {"opening", "recording"}
    /\ clock > worker[t].now
    /\ Observe(t)
    /\ UNCHANGED <<clock, sync, home, leases, receipts, fence, take>>

\* The renewal is over; only the instant it began is remembered.
Rest(t) == worker' = [worker EXCEPT ![t] = [NoWorker EXCEPT !.pc = "rested",
                                                            !.now = worker[t].now]]

\* When the split-brain timer of the take started, given this observation.
SplitSince(t) ==
    CASE worker[t].split = "no" -> Never
      [] worker[t].split = "yes" /\ fence[t].splitSince = Never -> worker[t].now
      [] OTHER -> fence[t].splitSince

SplitFences(t) ==
    worker[t].split = "yes" /\ worker[t].now - SplitSince(t) >= SplitAfter

AlreadyRevoked(t) ==
    /\ worker[t].pc = "observed"
    /\ fence[t].revoked
    /\ Rest(t)
    /\ UNCHANGED <<clock, sync, home, leases, receipts, fence, take>>

SplitRevokes(t) ==
    /\ worker[t].pc = "observed"
    /\ ~fence[t].revoked
    /\ SplitFences(t)
    /\ fence' = [fence EXCEPT ![t] =
           [fence[t] EXCEPT !.splitSince = SplitSince(t), !.revoked = TRUE]]
    /\ Rest(t)
    /\ UNCHANGED <<clock, sync, home, leases, receipts, take>>

\* The split-brain check passed: the renewal goes on to bind.
MayBind(t) ==
    /\ worker[t].pc = "observed"
    /\ ~fence[t].revoked
    /\ ~SplitFences(t)

Rebinds(t) == worker[t].primary # NoSession /\ worker[t].primary # fence[t].bound

\* The locked part is over; the renewal of session s goes to the folder.
Search(t, s) ==
    worker' = [worker EXCEPT ![t] =
        [NoWorker EXCEPT !.pc = "search", !.now = worker[t].now, !.target = s,
                         !.sequence = fence[t].sequence + 1]]

\* Binding counts as a renewal.
Bind(t) ==
    /\ MayBind(t)
    /\ Rebinds(t)
    /\ fence' = [fence EXCEPT ![t] =
           [fence[t] EXCEPT !.splitSince = SplitSince(t), !.bound = worker[t].primary,
                     !.bindings = @ \cup {worker[t].primary},
                     !.renewed = worker[t].now, !.since = worker[t].now,
                     !.sequence = @ + 1]]
    /\ Search(t, worker[t].primary)
    /\ UNCHANGED <<clock, sync, home, leases, receipts, take>>

\* A mutant of KeepBinding: the lock is taken without looking at the revocation.
KeepBindingThoughRevoked(t) ==
    /\ worker[t].pc = "observed"
    /\ fence[t].bound # NoSession
    /\ fence' = [fence EXCEPT ![t].sequence = @ + 1]
    /\ Search(t, fence[t].bound)
    /\ UNCHANGED <<clock, sync, home, leases, receipts, take>>

\* The take stays bound as it is, whatever became of Standby sync since.
KeepBinding(t) ==
    /\ MayBind(t)
    /\ ~Rebinds(t)
    /\ fence[t].bound # NoSession
    /\ fence' = [fence EXCEPT ![t] =
           [fence[t] EXCEPT !.splitSince = SplitSince(t), !.sequence = @ + 1]]
    /\ Search(t, fence[t].bound)
    /\ UNCHANGED <<clock, sync, home, leases, receipts, take>>

\* No Primary session and none before: there is no lease to renew.
StayUnbound(t) ==
    /\ MayBind(t)
    /\ ~Rebinds(t)
    /\ fence[t].bound = NoSession
    /\ fence' = [fence EXCEPT ![t].splitSince = SplitSince(t)]
    /\ Rest(t)
    /\ UNCHANGED <<clock, sync, home, leases, receipts, take>>

\* A mutant of RenewalFails: a renewal that failed counts as one.
RenewalFailsRenewing(t) ==
    /\ FolderFaults
    /\ worker[t].pc \in {"search", "write"}
    /\ fence' = [fence EXCEPT ![t].failed = TRUE, ![t].renewed = worker[t].now]
    /\ Rest(t)
    /\ UNCHANGED <<clock, sync, home, leases, receipts, take>>

\* A folder operation fails: the lease stays unrenewed and the reason is kept.
RenewalFails(t) ==
    /\ FolderFaults
    /\ worker[t].pc \in {"search", "write"}
    /\ fence' = [fence EXCEPT ![t].failed = TRUE]
    /\ Rest(t)
    /\ UNCHANGED <<clock, sync, home, leases, receipts, take>>

\* superseded: a receipt names the take.
FindTakeover(t) ==
    /\ worker[t].pc = "search"
    /\ Superseded(t)
    /\ fence' = [fence EXCEPT ![t].revoked = TRUE]
    /\ Rest(t)
    /\ UNCHANGED <<clock, sync, home, leases, receipts, take>>

\* A mutant of FindNoTakeover: the receipts are not consulted.
WriteWithoutSearch(t) ==
    /\ worker[t].pc = "search"
    /\ worker' = [worker EXCEPT ![t].pc = "write"]
    /\ UNCHANGED <<clock, sync, home, leases, receipts, fence, take>>

\* None does, or each that does is skipped: a receipt that cannot be read or
\* parsed is passed over in any folder, an earlier folder is best effort.
FindNoTakeover(t) ==
    /\ worker[t].pc = "search"
    /\ Superseded(t) => FolderFaults
    /\ fence' = [fence EXCEPT ![t].missed = @ \/ Superseded(t)]
    /\ worker' = [worker EXCEPT ![t].pc = "write"]
    /\ UNCHANGED <<clock, sync, home, leases, receipts, take>>

\* write_lease: an atomic replacement of the lease file.
WriteLease(t) ==
    /\ worker[t].pc = "write"
    /\ leases' = [leases EXCEPT ![worker[t].target] =
           [take |-> t, sequence |-> worker[t].sequence, state |-> "recording"]]
    /\ worker' = [worker EXCEPT ![t] = [NoWorker EXCEPT !.pc = "ack",
                                                        !.now = worker[t].now]]
    /\ UNCHANGED <<clock, sync, home, receipts, fence, take>>

\* The write is noted as a renewal at the instant the renewal began.
NoteRenewal(t) ==
    /\ worker[t].pc = "ack"
    /\ fence' = [fence EXCEPT ![t] =
           [fence[t] EXCEPT !.renewed = worker[t].now, !.failed = FALSE]]
    /\ Rest(t)
    /\ UNCHANGED <<clock, sync, home, leases, receipts, take>>

-----------------------------------------------------------------------------
(* The frame loop, and the end of the lease. *)

\* A mutant of KeeperStarts: the fence is checked at a later Instant::now().
KeeperChecksLate(t) ==
    /\ take[t].loop = "starting"
    /\ worker[t].pc = "rested"
    /\ take' = [take EXCEPT ![t].loop =
           IF FencePasses(t, clock) /\ (fence[t].bound # NoSession => ~fence[t].failed)
           THEN "opening" ELSE "refused"]
    /\ UNCHANGED <<clock, sync, home, leases, receipts, fence, worker>>

\* What the keeper makes of its first renewal, at the instant that one began.
Admitted(t) ==
    /\ FencePasses(t, worker[t].now)
    /\ fence[t].bound # NoSession => ~fence[t].failed

\* RecordingLeaseKeeper::start after its first renewal: a take that is admitted
\* is refused after all where the thread that renews its lease does not start.
KeeperStarts(t) ==
    /\ take[t].loop = "starting"
    /\ worker[t].pc = "rested"
    /\ \E loop \in IF Admitted(t) THEN {"opening", "unspawned"} ELSE {"refused"} :
          take' = [take EXCEPT ![t].loop = loop]
    /\ UNCHANGED <<clock, sync, home, leases, receipts, fence, worker>>

\* The encoder and the renderer run: the frame loop begins.
OpenEncoder(t) ==
    /\ take[t].loop = "opening"
    /\ take' = [take EXCEPT ![t].loop = "recording"]
    /\ UNCHANGED <<clock, sync, home, leases, receipts, fence, worker>>

\* Drop of the keeper: operator stop, fault, fence or ownership ended the loop.
EndTake(t) ==
    /\ take[t].loop \in {"opening", "recording"}
    /\ take' = [take EXCEPT ![t] = [loop |-> "ending", joinBy |-> clock + JoinWait]]
    /\ UNCHANGED <<clock, sync, home, leases, receipts, fence, worker>>

\* The recorder joins the lease worker, or leaves it behind at the deadline.
FinishTake(t) ==
    /\ take[t].loop = "ending"
    /\ worker[t].pc = "exited" \/ clock >= take[t].joinBy
    /\ take' = [take EXCEPT ![t] = [loop |-> "done", joinBy |-> 0]]
    /\ UNCHANGED <<clock, sync, home, leases, receipts, fence, worker>>

\* A mutant of BeginEnd: the worker ends the lease without being stopped.
BeginEndUnasked(t) ==
    /\ worker[t].pc = "rested"
    /\ worker' = [worker EXCEPT ![t].pc = "endRead",
                                ![t].sequence = fence[t].sequence + 1,
                                ![t].unended = fence[t].bindings]
    /\ UNCHANGED <<clock, sync, home, leases, receipts, fence, take>>

\* The worker sees stop and turns to ending every lease it ever renewed.
BeginEnd(t) ==
    /\ worker[t].pc = "rested"
    /\ take[t].loop \in {"ending", "done"}
    /\ fence' = [fence EXCEPT ![t].sequence = @ + 1]
    /\ worker' = [worker EXCEPT ![t] =
           [NoWorker EXCEPT !.pc = "endRead", !.sequence = fence[t].sequence + 1,
                            !.unended = fence[t].bindings]]
    /\ UNCHANGED <<clock, sync, home, leases, receipts, take>>

\* write_ended reads first; a lease of another take is left alone.
ReadEnding(t, s) ==
    /\ worker[t].pc = "endRead"
    /\ s \in worker[t].unended
    /\ \/ /\ leases[s].state # "absent" /\ leases[s].take # t
          /\ worker' = [worker EXCEPT ![t].unended = @ \ {s}]
       \/ /\ \/ leases[s].state = "absent"
             \/ leases[s].state # "absent" /\ leases[s].take = t
             \/ FolderFaults
          /\ worker' = [worker EXCEPT ![t] =
                 [worker[t] EXCEPT !.pc = "endWrite", !.target = s]]
    /\ UNCHANGED <<clock, sync, home, leases, receipts, fence, take>>

\* ... then writes, best effort.
WriteEnded(t) ==
    /\ worker[t].pc = "endWrite"
    /\ \/ leases' = [leases EXCEPT ![worker[t].target] =
              [take |-> t, sequence |-> worker[t].sequence, state |-> "ended"]]
       \/ FolderFaults /\ UNCHANGED leases
    /\ worker' = [worker EXCEPT ![t] =
           [worker[t] EXCEPT !.pc = "endRead", !.target = NoSession,
                     !.unended = @ \ {worker[t].target}]]
    /\ UNCHANGED <<clock, sync, home, receipts, fence, take>>

WorkerExits(t) ==
    /\ worker[t].pc = "endRead"
    /\ worker[t].unended = {}
    /\ worker' = [worker EXCEPT ![t] = [NoWorker EXCEPT !.pc = "exited"]]
    /\ UNCHANGED <<clock, sync, home, leases, receipts, fence, take>>

-----------------------------------------------------------------------------
SyncStep == BecomeStandby \/ StopSync \/ SplitBrain \/ \E f \in Folder : StartSync(f)

RenewStep(t) ==
    \/ AlreadyRevoked(t) \/ SplitRevokes(t) \/ Bind(t) \/ KeepBinding(t)
    \/ StayUnbound(t) \/ RenewalFails(t) \/ FindTakeover(t) \/ FindNoTakeover(t)
    \/ WriteLease(t) \/ NoteRenewal(t)

EndStep(t) ==
    \/ BeginEnd(t) \/ WriteEnded(t) \/ WorkerExits(t)
    \/ \E s \in Session : ReadEnding(t, s)

TakeStep(t) ==
    \/ StartTake(t) \/ KeeperStarts(t) \/ OpenEncoder(t) \/ EndTake(t) \/ FinishTake(t)

LeaseNext ==
    \/ Tick \/ SyncStep
    \/ \E t \in Take : Wake(t) \/ RenewStep(t) \/ EndStep(t) \/ TakeStep(t)

\* Any other PC writes a takeover receipt: the environment of LeaseSpec.
ReceiptAppears(f, sessions) ==
    /\ sessions # {}
    /\ \A s \in sessions : home[s] = f
    /\ receipts' = receipts \cup {[folder |-> f, supersedes |-> sessions]}
    /\ UNCHANGED <<clock, sync, home, leases, fence, worker, take>>

LeaseSpec ==
    LeaseInit /\ [][\/ LeaseNext
                    \/ \E f \in Folder, sessions \in SUBSET Session :
                          ReceiptAppears(f, sessions)]_leaseVars

-----------------------------------------------------------------------------
(* An ended lease is the truth: the take it names runs no frame loop any   *)
(* more (the worker writes it only after the keeper was dropped), however  *)
(* late a detached worker writes it.                                       *)
EndedMeansOver ==
    \A s \in Session :
        leases[s].state = "ended" => take[leases[s].take].loop \in {"ending", "done"}

(* A take that RecordingLeaseKeeper::start refuses for what its first      *)
(* renewal found left no lease behind.  Only a take whose renewing thread  *)
(* did not start ("unspawned") does: start returns its error without       *)
(* ending the lease, and the other PC waits for a take that never was.     *)
RefusedLeavesNoLease ==
    \A s \in Session, t \in Take :
        take[t].loop = "refused" /\ leases[s].state # "absent"
        => leases[s].take # t

(* The lease file of session s says that take t records, or an earlier take *)
(* whose worker was left behind wrote there since (write_ended, write_lease *)
(* without a lock).                                                        *)
Named(s, t) ==
    /\ leases[s].state # "absent"
    /\ \/ leases[s].take = t /\ leases[s].state = "recording"
       \/ leases[s].take < t

(* A take that still records when the TTL of its binding has passed has its *)
(* own "recording" lease in that session's folder, so that Take Over there *)
(* finds it: frames go on past the TTL only on a renewal that was written. *)
(* The one thing that may stand in its place until the next renewal is the *)
(* late write of an earlier take.                                          *)
BoundTakeIsVisible ==
    \A t \in Take :
        /\ Records(t)
        /\ fence[t].bound # NoSession
        /\ clock - fence[t].since > LeaseTtl
        => Named(fence[t].bound, t)

(* A superseded take does not come back: once its fence is revoked, no     *)
(* later renewal un-revokes it, and whatever its worker still writes to a  *)
(* lease file says that the take ended.                                    *)
RevokedStaysRevoked ==
    [][\A t \in Take :
         fence[t].revoked =>
           /\ fence'[t].revoked
           /\ \A s \in Session :
                leases'[s] # leases[s] /\ leases'[s].state = "recording"
                => leases'[s].take # t]_leaseVars
=============================================================================
