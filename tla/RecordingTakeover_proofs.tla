---------------------- MODULE RecordingTakeover_proofs ----------------------
(***************************************************************************)
(* Theorems about RecordingLease and RecordingTakeover, for every value of *)
(* their constants: what the Primary's takes and leases keep whatever      *)
(* receipts appear, what a takeover that starts may rely on, and that the  *)
(* other PC is one of the environments LeaseSpec allows.                   *)
(***************************************************************************)
EXTENDS RecordingTakeover, TLAPS

-----------------------------------------------------------------------------
(* Types of the Primary. *)

\* The initial state of the Primary is well typed.
LEMMA LeaseInitType == LeaseInit => LeaseTypeOK
<1> SUFFICES ASSUME LeaseInit  PROVE LeaseTypeOK
  OBVIOUS
<1>1. fence \in [Take -> FenceState]
  BY DEF LeaseInit, FenceState, NoSession, Instant, Never
<1>2. worker \in [Take -> WorkerState]
  BY DEF LeaseInit, WorkerState, NoWorker, NoSession, SplitView
<1>3. take \in [Take -> TakeState]
  BY DEF LeaseInit, TakeState
<1> QED  BY <1>1, <1>2, <1>3 DEF LeaseInit, LeaseTypeOK, NoSession

\* What the variables hold for one take is well typed.
LEMMA ThreadTypes ==
  ASSUME LeaseTypeOK, NEW t \in Take
  PROVE  fence[t] \in FenceState /\ worker[t] \in WorkerState /\ take[t] \in TakeState
  BY DEF LeaseTypeOK

\* Time and Standby sync keep the types.
LEMMA SyncStepType ==
  ASSUME LeaseTypeOK, Tick \/ SyncStep
  PROVE  LeaseTypeOK'
<1>1. CASE Tick
  BY <1>1 DEF Tick, LeaseTypeOK
<1>2. CASE BecomeStandby
  BY <1>2 DEF BecomeStandby, LeaseTypeOK, NoSession
<1>3. CASE StopSync
  BY <1>3 DEF StopSync, LeaseTypeOK
<1>4. CASE SplitBrain
  BY <1>4 DEF SplitBrain, LeaseTypeOK
<1>5. CASE \E f \in Folder : StartSync(f)
  BY <1>5 DEF StartSync, LeaseTypeOK
<1> QED  BY <1>1, <1>2, <1>3, <1>4, <1>5 DEF SyncStep

\* An observation only fills the worker's view of Standby sync.
LEMMA ObserveType ==
  ASSUME LeaseTypeOK, NEW t \in Take, Observe(t)
  PROVE  worker' \in [Take -> WorkerState]
<1>1. PICK view \in {<<NoSession, "unknown">>,
                     <<IF sync.role = "primary" THEN sync.session ELSE NoSession,
                       IF sync.role # "off" /\ sync.split THEN "yes" ELSE "no">>} :
        worker' = [worker EXCEPT ![t] =
            [worker[t] EXCEPT !.pc = "observed", !.now = clock,
                      !.primary = view[1], !.split = view[2]]]
  BY DEF Observe
<1>2. view[1] \in Session \cup {NoSession} /\ view[2] \in SplitView
  BY DEF LeaseTypeOK, SplitView
<1>3. clock \in Nat /\ worker[t] \in WorkerState
  BY DEF LeaseTypeOK
<1>4. [worker[t] EXCEPT !.pc = "observed", !.now = clock,
                        !.primary = view[1], !.split = view[2]] \in WorkerState
  BY <1>2, <1>3 DEF WorkerState
<1> QED  BY <1>1, <1>4 DEF LeaseTypeOK

\* A renewal that is over leaves a well-typed worker.
LEMMA RestType ==
  ASSUME LeaseTypeOK, NEW t \in Take, Rest(t)
  PROVE  worker' \in [Take -> WorkerState]
  BY DEF Rest, LeaseTypeOK, WorkerState, NoWorker, SplitView, NoSession

\* So does one that goes on to the folder.
LEMMA SearchType ==
  ASSUME LeaseTypeOK, NEW t \in Take, NEW s \in Session, Search(t, s)
  PROVE  worker' \in [Take -> WorkerState]
<1>1. fence[t].sequence + 1 \in Nat /\ worker[t].now \in Nat
  BY ThreadTypes DEF FenceState, WorkerState
<1>2. [NoWorker EXCEPT !.pc = "search", !.now = worker[t].now, !.target = s,
                       !.sequence = fence[t].sequence + 1] \in WorkerState
  BY <1>1 DEF WorkerState, NoWorker, SplitView, NoSession
<1> QED  BY <1>2 DEF Search, LeaseTypeOK

\* The split-brain timer holds an instant or nothing.
LEMMA SplitSinceType ==
  ASSUME LeaseTypeOK, NEW t \in Take
  PROVE  SplitSince(t) \in Instant
  BY DEF LeaseTypeOK, FenceState, WorkerState, Instant, Never, SplitSince

\* Every step of a renewal keeps the types.
LEMMA RenewStepType ==
  ASSUME LeaseTypeOK, NEW t \in Take, Wake(t) \/ RenewStep(t)
  PROVE  LeaseTypeOK'
<1>1. CASE Wake(t)
  <2>1. worker' \in [Take -> WorkerState]
    BY <1>1, ObserveType DEF Wake
  <2> QED  BY <1>1, <2>1 DEF Wake, LeaseTypeOK
<1>2. CASE AlreadyRevoked(t)
  <2>1. worker' \in [Take -> WorkerState]
    BY <1>2, RestType DEF AlreadyRevoked
  <2> QED  BY <1>2, <2>1 DEF AlreadyRevoked, LeaseTypeOK
<1>3. CASE SplitRevokes(t)
  <2>1. worker' \in [Take -> WorkerState]
    BY <1>3, RestType DEF SplitRevokes
  <2>2. fence' \in [Take -> FenceState]
    <3>1. [fence[t] EXCEPT !.splitSince = SplitSince(t), !.revoked = TRUE] \in FenceState
      BY SplitSinceType, ThreadTypes DEF FenceState
    <3> QED  BY <1>3, <3>1 DEF SplitRevokes, LeaseTypeOK
  <2> QED  BY <1>3, <2>1, <2>2 DEF SplitRevokes, LeaseTypeOK
<1>4. CASE Bind(t)
  <2>1. worker[t].primary \in Session
    BY <1>4, ThreadTypes DEF Bind, Rebinds, WorkerState
  <2>2. worker' \in [Take -> WorkerState]
    BY <1>4, <2>1, SearchType DEF Bind
  <2>3. fence' \in [Take -> FenceState]
    <3>1. worker[t].now \in Instant /\ fence[t].sequence + 1 \in Nat
      BY ThreadTypes DEF FenceState, WorkerState, Instant
    <3>2. [fence[t] EXCEPT !.splitSince = SplitSince(t), !.bound = worker[t].primary,
                          !.bindings = @ \cup {worker[t].primary},
                          !.renewed = worker[t].now, !.since = worker[t].now,
                          !.sequence = @ + 1] \in FenceState
      BY <2>1, <3>1, SplitSinceType, ThreadTypes DEF FenceState
    <3> QED  BY <1>4, <3>1, <3>2 DEF Bind, LeaseTypeOK
  <2> QED  BY <1>4, <2>1, <2>2, <2>3 DEF Bind, LeaseTypeOK
<1>5. CASE KeepBinding(t)
  <2>1. fence[t].bound \in Session
    BY <1>5, ThreadTypes DEF KeepBinding, FenceState
  <2>2. worker' \in [Take -> WorkerState]
    BY <1>5, <2>1, SearchType DEF KeepBinding
  <2>3. fence' \in [Take -> FenceState]
    <3>1. fence[t].sequence + 1 \in Nat
      BY ThreadTypes DEF FenceState
    <3>2. [fence[t] EXCEPT !.splitSince = SplitSince(t), !.sequence = @ + 1] \in FenceState
      BY <3>1, SplitSinceType, ThreadTypes DEF FenceState
    <3> QED  BY <1>5, <3>1, <3>2 DEF KeepBinding, LeaseTypeOK
  <2> QED  BY <1>5, <2>1, <2>2, <2>3 DEF KeepBinding, LeaseTypeOK
<1>6. CASE StayUnbound(t)
  <2>1. worker' \in [Take -> WorkerState]
    BY <1>6, RestType DEF StayUnbound
  <2>2. fence' \in [Take -> FenceState]
    <3>1. [fence[t] EXCEPT !.splitSince = SplitSince(t)] \in FenceState
      BY SplitSinceType, ThreadTypes DEF FenceState
    <3> QED  BY <1>6, <3>1 DEF StayUnbound, LeaseTypeOK
  <2> QED  BY <1>6, <2>1, <2>2 DEF StayUnbound, LeaseTypeOK
<1>7. CASE RenewalFails(t)
  <2>1. worker' \in [Take -> WorkerState]
    BY <1>7, RestType DEF RenewalFails
  <2>2. fence' \in [Take -> FenceState]
    <3>1. [fence[t] EXCEPT !.failed = TRUE] \in FenceState
      BY ThreadTypes DEF FenceState
    <3> QED  BY <1>7, <3>1 DEF RenewalFails, LeaseTypeOK
  <2> QED  BY <1>7, <2>1, <2>2 DEF RenewalFails, LeaseTypeOK
<1>8. CASE FindTakeover(t)
  <2>1. worker' \in [Take -> WorkerState]
    BY <1>8, RestType DEF FindTakeover
  <2>2. fence' \in [Take -> FenceState]
    <3>1. [fence[t] EXCEPT !.revoked = TRUE] \in FenceState
      BY ThreadTypes DEF FenceState
    <3> QED  BY <1>8, <3>1 DEF FindTakeover, LeaseTypeOK
  <2> QED  BY <1>8, <2>1, <2>2 DEF FindTakeover, LeaseTypeOK
<1>9. CASE FindNoTakeover(t)
  <2>1. worker' \in [Take -> WorkerState]
    <3>1. [worker[t] EXCEPT !.pc = "write"] \in WorkerState
      BY ThreadTypes DEF WorkerState
    <3> QED  BY <1>9, <3>1 DEF FindNoTakeover, LeaseTypeOK
  <2>2. fence' \in [Take -> FenceState]
    <3>1. (fence[t].missed \/ Superseded(t)) \in BOOLEAN
      OBVIOUS
    <3>2. [fence[t] EXCEPT !.missed = @ \/ Superseded(t)] \in FenceState
      BY <3>1, ThreadTypes DEF FenceState
    <3> QED  BY <1>9, <3>2 DEF FindNoTakeover, LeaseTypeOK
  <2> QED  BY <1>9, <2>1, <2>2 DEF FindNoTakeover, LeaseTypeOK
<1>10. CASE WriteLease(t)
  <2>1. worker' \in [Take -> WorkerState]
    BY <1>10 DEF WriteLease, LeaseTypeOK, WorkerState, NoWorker, SplitView, NoSession
  <2>2. leases' \in [Session -> LeaseRecord \cup {Absent}]
    BY <1>10, ThreadTypes DEF WriteLease, LeaseTypeOK, WorkerState, LeaseRecord
  <2> QED  BY <1>10, <2>1, <2>2 DEF WriteLease, LeaseTypeOK
<1>11. CASE NoteRenewal(t)
  <2>1. worker' \in [Take -> WorkerState]
    BY <1>11, RestType DEF NoteRenewal
  <2>2. fence' \in [Take -> FenceState]
    <3>1. [fence[t] EXCEPT !.renewed = worker[t].now, !.failed = FALSE] \in FenceState
      BY ThreadTypes DEF FenceState, WorkerState, Instant
    <3> QED  BY <1>11, <3>1 DEF NoteRenewal, LeaseTypeOK
  <2> QED  BY <1>11, <2>1, <2>2 DEF NoteRenewal, LeaseTypeOK
<1> QED  BY <1>1, <1>2, <1>3, <1>4, <1>5, <1>6, <1>7, <1>8, <1>9, <1>10, <1>11
     DEF RenewStep

\* So do the frame loop and the end of the lease.
LEMMA TakeStepType ==
  ASSUME LeaseTypeOK, NEW t \in Take, TakeStep(t) \/ EndStep(t)
  PROVE  LeaseTypeOK'
<1>1. CASE StartTake(t)
  <2>1. worker' \in [Take -> WorkerState]
    BY <1>1, ObserveType DEF StartTake
  <2>2. take' \in [Take -> TakeState]
    BY <1>1 DEF StartTake, LeaseTypeOK, TakeState
  <2> QED  BY <1>1, <2>1, <2>2 DEF StartTake, LeaseTypeOK
<1>2. CASE KeeperStarts(t)
  <2>1. PICK loop \in {"opening", "unspawned", "refused"} :
           take' = [take EXCEPT ![t].loop = loop]
    BY <1>2 DEF KeeperStarts
  <2>2. take' \in [Take -> TakeState]
    BY <2>1 DEF LeaseTypeOK, TakeState
  <2> QED  BY <1>2, <2>2 DEF KeeperStarts, LeaseTypeOK
<1>3. CASE OpenEncoder(t)
  <2>1. take' \in [Take -> TakeState]
    BY <1>3 DEF OpenEncoder, LeaseTypeOK, TakeState
  <2> QED  BY <1>3, <2>1 DEF OpenEncoder, LeaseTypeOK
<1>4. CASE EndTake(t)
  <2>1. take' \in [Take -> TakeState]
    BY <1>4, LeaseConstants DEF EndTake, LeaseTypeOK, TakeState
  <2> QED  BY <1>4, <2>1 DEF EndTake, LeaseTypeOK
<1>5. CASE FinishTake(t)
  <2>1. take' \in [Take -> TakeState]
    BY <1>5 DEF FinishTake, LeaseTypeOK, TakeState
  <2> QED  BY <1>5, <2>1 DEF FinishTake, LeaseTypeOK
<1>6. CASE BeginEnd(t)
  <2>1. fence[t].sequence + 1 \in Nat /\ fence[t].bindings \in SUBSET Session
    BY ThreadTypes DEF FenceState
  <2>2. fence' \in [Take -> FenceState]
    <3>1. [fence[t] EXCEPT !.sequence = @ + 1] \in FenceState
      BY <2>1, ThreadTypes DEF FenceState
    <3> QED  BY <1>6, <3>1 DEF BeginEnd, LeaseTypeOK
  <2>3. worker' \in [Take -> WorkerState]
    <3>1. [NoWorker EXCEPT !.pc = "endRead", !.sequence = fence[t].sequence + 1,
                             !.unended = fence[t].bindings] \in WorkerState
      BY <2>1 DEF WorkerState, NoWorker, SplitView, NoSession
    <3> QED  BY <1>6, <3>1 DEF BeginEnd, LeaseTypeOK
  <2> QED  BY <1>6, <2>1, <2>2, <2>3 DEF BeginEnd, LeaseTypeOK
<1>7. ASSUME NEW s \in Session, ReadEnding(t, s)  PROVE LeaseTypeOK'
  <2>1. [worker[t] EXCEPT !.unended = @ \ {s}] \in WorkerState
    BY ThreadTypes DEF WorkerState
  <2>2. [worker[t] EXCEPT !.pc = "endWrite", !.target = s] \in WorkerState
    BY ThreadTypes DEF WorkerState
  <2> QED  BY <1>7, <2>1, <2>2 DEF ReadEnding, LeaseTypeOK
<1>8. CASE WriteEnded(t)
  <2>1. [worker[t] EXCEPT !.pc = "endRead", !.target = NoSession,
                          !.unended = @ \ {worker[t].target}] \in WorkerState
    BY ThreadTypes DEF WorkerState
  <2>2. worker' = [worker EXCEPT ![t] =
           [worker[t] EXCEPT !.pc = "endRead", !.target = NoSession,
                             !.unended = @ \ {worker[t].target}]]
    BY <1>8 DEF WriteEnded
  <2>3. worker' \in [Take -> WorkerState]
    BY <2>1, <2>2 DEF LeaseTypeOK
  <2>4. leases' \in [Session -> LeaseRecord \cup {Absent}]
    BY <1>8, ThreadTypes DEF WriteEnded, LeaseTypeOK, WorkerState, LeaseRecord
  <2> QED  BY <1>8, <2>3, <2>4 DEF WriteEnded, LeaseTypeOK
<1>9. CASE WorkerExits(t)
  <2>1. worker' \in [Take -> WorkerState]
    BY <1>9 DEF WorkerExits, LeaseTypeOK, WorkerState, NoWorker, SplitView, NoSession
  <2> QED  BY <1>9, <2>1 DEF WorkerExits, LeaseTypeOK
<1> QED  BY <1>1, <1>2, <1>3, <1>4, <1>5, <1>6, <1>7, <1>8, <1>9 DEF TakeStep, EndStep

\* Every step of the Primary keeps the types.
LEMMA LeaseNextType ==
  ASSUME LeaseTypeOK, LeaseNext
  PROVE  LeaseTypeOK'
  BY SyncStepType, RenewStepType, TakeStepType DEF LeaseNext

-----------------------------------------------------------------------------
(* Types of the other PC. *)

\* The initial state of both PCs is well typed.
LEMMA InitType == Init => TypeOK
  BY LeaseInitType, TakeoverConstants
     DEF Init, TypeOK, PlanState, Instant, Never, WatchState, RecorderState,
         NothingSeen, PredecessorState

\* Every step of the other PC keeps the types.
LEMMA RecorderStepType ==
  ASSUME TypeOK, RecorderStep
  PROVE  TypeOK'
<1> USE DEF TypeOK, LeaseTypeOK, SuccessorOnly, PlanState, RecorderState
<1>1. ASSUME NEW f \in Folder, NEW sessions \in SUBSET Session, TakeOver(f, sessions)
      PROVE  TypeOK'
  BY <1>1 DEF TakeOver
<1>2. ASSUME NEW s \in Session, ReadPredecessor(s)  PROVE TypeOK'
  <2>1. Predecessors(s) \subseteq Take
    BY DEF Predecessors, LeaseRecord, Absent
  <2>2. plan' \in PlanState /\ plan'.folder = plan.folder
    <3>1. \E w \in SUBSET Session, p \in SUBSET Take :
             plan' = [plan EXCEPT !.predecessors = p, !.watched = w,
                                  !.rivals = plan.rivals \cup Predecessors(s)]
      <4>1. CASE Reads(s)
        <5>1. plan' = [plan EXCEPT
                         !.predecessors = plan.predecessors \cup Predecessors(s),
                         !.watched = plan.watched \cup IF Predecessors(s) # {} THEN {s} ELSE {},
                         !.rivals = plan.rivals \cup Predecessors(s)]
          BY <4>1 DEF Reads
        <5>2. plan.predecessors \cup Predecessors(s) \in SUBSET Take
          BY <2>1
        <5>3. plan.watched \cup (IF Predecessors(s) # {} THEN {s} ELSE {}) \in SUBSET Session
          OBVIOUS
        <5> QED  BY <5>1, <5>2, <5>3
      <4>2. CASE FailsToRead(s)
        <5>1. plan' = [plan EXCEPT !.predecessors = plan.predecessors,
                         !.watched = plan.watched \cup {s},
                         !.rivals = plan.rivals \cup Predecessors(s)]
          BY <4>2 DEF FailsToRead
        <5>2. plan.watched \cup {s} \in SUBSET Session
          OBVIOUS
        <5> QED  BY <5>1, <5>2
      <4> QED  BY <1>2, <4>1, <4>2 DEF ReadPredecessor
    <3>2. PICK w \in SUBSET Session, p \in SUBSET Take :
             plan' = [plan EXCEPT !.predecessors = p, !.watched = w,
                                  !.rivals = plan.rivals \cup Predecessors(s)]
      BY <3>1
    <3>3. plan.rivals \cup Predecessors(s) \in SUBSET Take
      BY <2>1
    <3> HIDE DEF RecorderState
    <3> QED  BY <3>2, <3>3
  <2>3. recorder' \in RecorderState /\ recorder.pc = "reading"
    BY <1>2 DEF ReadPredecessor
  <2> QED  BY <1>2, <2>2, <2>3 DEF ReadPredecessor
<1>3. ASSUME WriteReceipt \/ ReceiptFails, plan.folder \in Folder
      PROVE  receipts' \in SUBSET Receipt /\ plan' \in PlanState /\ plan'.folder = plan.folder
  <2>1. PlanReceipt \in Receipt
    BY <1>3 DEF Receipt, PlanReceipt
  <2>2. receipts' \in SUBSET Receipt
    BY <1>3, <2>1 DEF WriteReceipt, ReceiptFails
  <2>3. clock \in Instant /\ (recorder.pc = "sleeping") \in BOOLEAN
    BY DEF Instant
  <2>4. \/ plan' = [plan EXCEPT !.written = clock, !.retried = (recorder.pc = "sleeping")]
        \/ plan' = plan
    BY <1>3 DEF WriteReceipt, ReceiptFails
  <2>5. plan' \in PlanState /\ plan'.folder = plan.folder
    <3> HIDE DEF RecorderState
    <3> QED  BY <2>3, <2>4
  <2> QED  BY <2>2, <2>5
<1>4. CASE Arm
  <2>1. recorder' \in RecorderState
    <3>1. \/ recorder' = [recorder EXCEPT !.pc = "sleeping", !.status = "pending",
                                          !.current = TRUE]
          \/ recorder' = [recorder EXCEPT !.pc = "exited", !.status = "failed"]
          \/ recorder' = [recorder EXCEPT !.pc = "exited", !.status = "idle"]
      BY <1>4 DEF Arm, Armed
    <3>2. CASE recorder' = [recorder EXCEPT !.pc = "sleeping", !.status = "pending",
                                            !.current = TRUE]
      BY <3>2
    <3>3. CASE recorder' = [recorder EXCEPT !.pc = "exited", !.status = "failed"]
      BY <3>3
    <3>4. CASE recorder' = [recorder EXCEPT !.pc = "exited", !.status = "idle"]
      BY <3>4
    <3> QED  BY <3>1, <3>2, <3>3, <3>4
  <2> QED  BY <1>3, <1>4, <2>1 DEF Arm
<1>5. CASE Poll
  <2>1. recorder' \in RecorderState
    BY <1>5 DEF Poll, NothingSeen, PredecessorState
  <2> QED  BY <1>3, <1>5, <2>1 DEF Poll
<1>6. ASSUME NEW s \in Session, ReadLease(s)  PROVE TypeOK'
  <2>1. \A state \in PredecessorState :
           [recorder EXCEPT !.unread = @ \ {s}, !.seen[s] = state] \in RecorderState
    OBVIOUS
  <2>2. \E state \in PredecessorState :
           recorder' = [recorder EXCEPT !.unread = @ \ {s}, !.seen[s] = state]
    BY <1>6 DEF ReadLease, PredecessorState
  <2>3. watch' \in [Session -> WatchState]
    <3>1. recorder.now \in Instant /\ watch[s].since \in Instant /\ leases[s] \in LeaseRecord \cup {Absent, Unseen}
      BY DEF Instant, WatchState
    <3> QED  BY <1>6, <3>1 DEF ReadLease, WatchState
  <2> QED  BY <1>6, <2>1, <2>2, <2>3 DEF ReadLease
<1>7. ASSUME NEW s \in Session, LeaseUnreadable(s)  PROVE TypeOK'
  <2>1. [recorder EXCEPT !.unread = @ \ {s}, !.seen[s] = "unknown"] \in RecorderState
    BY DEF PredecessorState
  <2> QED  BY <1>7, <2>1 DEF LeaseUnreadable
<1>8. ASSUME NEW step \in {"wait", "start", "cancel"}, Decide(step)  PROVE TypeOK'
  BY <1>8 DEF Decide, NothingSeen, PredecessorState
<1>9. CASE Wait
  BY <1>9 DEF Wait, Acts
<1>13. ASSUME NEW status \in {"started", "failed", "cancelled"}, Finish(status)
       PROVE  recorder' \in RecorderState
  BY <1>13 DEF Finish
<1>10. CASE CancelItself \/ StartTakeover
  BY <1>10, <1>13 DEF CancelItself, StartTakeover, Acts
<1>11. CASE CancelPending \/ FindsItselfCancelled
  <2>1. CASE CancelPending
    BY <2>1 DEF CancelPending
  <2>2. CASE FindsItselfCancelled
    BY <2>2 DEF FindsItselfCancelled
  <2> QED  BY <1>11, <2>1, <2>2
<1>12. CASE StartRefused
  <2>1. CASE recorder.attempts < StartAttempts
    <3>1. recorder.attempts + 1 \in Nat
      OBVIOUS
    <3>2. recorder' = [recorder EXCEPT !.pc = "sleeping", !.status = "pending",
                                       !.attempts = recorder.attempts + 1]
      BY <1>12, <2>1 DEF StartRefused
    <3>3. recorder' \in RecorderState
      BY <3>1, <3>2
    <3> QED  BY <1>12, <3>3 DEF StartRefused, Acts
  <2>2. CASE ~(recorder.attempts < StartAttempts)
    BY <1>12, <1>13, <2>2 DEF StartRefused, Acts
  <2> QED  BY <2>1, <2>2
<1> QED  BY <1>1, <1>2, <1>4, <1>5, <1>6, <1>7, <1>8, <1>9, <1>10, <1>11, <1>12
     DEF RecorderStep

\* The other PC writes nothing of the Primary's but receipts.
LEMMA RecorderLeavesPrimary ==
  ASSUME RecorderStep
  PROVE  UNCHANGED <<clock, sync, home, leases, fence, worker, take>>
  BY DEF RecorderStep, TakeOver, ReadPredecessor, Arm, Poll, ReadLease,
     LeaseUnreadable, Decide, Acts, Wait, CancelItself, StartTakeover, StartRefused,
     CancelPending, FindsItselfCancelled, SuccessorOnly

(* Every state of the Primary, of the sync folder and of the takeover      *)
(* recorder has its type: in particular no instant but Never is negative   *)
(* and every thread is at one of its program points.                       *)
THEOREM TypeCorrect == Spec => []TypeOK
<1>1. Init => TypeOK
  BY InitType
<1>2. TypeOK /\ [Next]_vars => TypeOK'
  <2>1. CASE UNCHANGED vars
    BY <2>1 DEF vars, leaseVars, takeoverVars, TypeOK, LeaseTypeOK
  <2>2. ASSUME TypeOK, LeaseNext, PrimaryOnly  PROVE TypeOK'
    BY <2>2, LeaseNextType DEF TypeOK, PrimaryOnly, takeoverVars
  <2> QED  BY <2>1, <2>2, RecorderStepType DEF Next
<1> QED  BY <1>1, <1>2, PTL DEF Spec

-----------------------------------------------------------------------------
(* An ended lease is the truth. *)

\* A worker turns to ending a lease only when its take is over.
LEMMA StoppedInductive ==
  ASSUME TypeOK, StoppedInv, [Next]_vars
  PROVE  StoppedInv'
<1> USE DEF StoppedInv, EndedMeansOver, TypeOK, LeaseTypeOK, WorkerState, LeaseRecord, Absent
<1>1. CASE UNCHANGED vars
  BY <1>1 DEF vars, leaseVars
<1>2. CASE RecorderStep
  BY <1>2, RecorderLeavesPrimary
<1>3. CASE Tick \/ SyncStep
  BY <1>3 DEF Tick, SyncStep, BecomeStandby, StopSync, SplitBrain, StartSync
<1>4. ASSUME NEW t \in Take, TakeStep(t) \/ Wake(t)  PROVE StoppedInv'
  <2> USE DEF TakeState
  <2>1. CASE StartTake(t)
    BY <2>1 DEF StartTake, Observe
  <2>2. CASE Wake(t)
    BY <2>2 DEF Wake, Observe
  \* The frame loop moves on: nothing it had ended starts again.
  <2>3. ASSUME UNCHANGED <<leases, worker>>,
               \A u \in Take : take[u].loop \in {"ending", "done"}
                               => take'[u].loop \in {"ending", "done"}
        PROVE  StoppedInv'
    BY <2>3
  <2>4. CASE KeeperStarts(t)
    BY <2>3, <2>4 DEF KeeperStarts
  <2>5. CASE OpenEncoder(t)
    BY <2>3, <2>5 DEF OpenEncoder
  <2>6. CASE EndTake(t)
    BY <2>3, <2>6 DEF EndTake
  <2>7. CASE FinishTake(t)
    BY <2>3, <2>7 DEF FinishTake
  <2> QED  BY <1>4, <2>1, <2>2, <2>4, <2>5, <2>6, <2>7 DEF TakeStep
<1>5. ASSUME NEW t \in Take, RenewStep(t)  PROVE StoppedInv'
  <2>1. CASE WriteLease(t)
    BY <2>1 DEF WriteLease, NoWorker
  <2>2. CASE \/ AlreadyRevoked(t) \/ SplitRevokes(t) \/ StayUnbound(t) \/ RenewalFails(t)
             \/ FindTakeover(t) \/ NoteRenewal(t)
    <3>1. UNCHANGED <<leases, take>> /\ Rest(t)
      BY <2>2 DEF AlreadyRevoked, SplitRevokes, StayUnbound, RenewalFails,
         FindTakeover,
         NoteRenewal
    <3> QED  BY <3>1 DEF Rest, NoWorker
  <2>3. CASE Bind(t) \/ KeepBinding(t)
    <3>1. UNCHANGED <<leases, take>> /\ \E s \in Session \cup {NoSession} : Search(t, s)
      BY <2>3, ThreadTypes DEF Bind, KeepBinding, FenceState
    <3> QED  BY <3>1 DEF Search, NoWorker
  <2>4. CASE FindNoTakeover(t)
    BY <2>4 DEF FindNoTakeover
  <2> QED  BY <1>5, <2>1, <2>2, <2>3, <2>4 DEF RenewStep
<1>6. ASSUME NEW t \in Take, BeginEnd(t) \/ WorkerExits(t)  PROVE StoppedInv'
  BY <1>6 DEF BeginEnd, WorkerExits, NoWorker
<1>7. ASSUME NEW t \in Take, NEW s \in Session, ReadEnding(t, s)  PROVE StoppedInv'
  BY <1>7 DEF ReadEnding
<1>8. ASSUME NEW t \in Take, WriteEnded(t)  PROVE StoppedInv'
  BY <1>8 DEF WriteEnded
<1> QED  BY <1>1, <1>2, <1>3, <1>4, <1>5, <1>6, <1>7, <1>8 DEF Next, LeaseNext,
            EndStep

(* Whatever a take was bound to and however late its worker ends it, a     *)
(* lease that says "ended" names a take whose frame loop is over, so a     *)
(* takeover that starts on it does not record beside that take.            *)
THEOREM EndedIsOver == Spec => []EndedMeansOver
<1>1. Init => StoppedInv
  BY DEF Init, LeaseInit, StoppedInv, EndedMeansOver, Absent, NoWorker
<1>2. TypeOK /\ StoppedInv /\ [Next]_vars => StoppedInv'
  BY StoppedInductive
<1>3. StoppedInv => EndedMeansOver
  BY DEF StoppedInv
<1> QED  BY <1>1, <1>2, <1>3, TypeCorrect, PTL DEF Spec

-----------------------------------------------------------------------------
(* A quiet lease after the receipt. *)

\* Before Take Over there is nothing to agree with.
LEMMA TakeoverInvInit == Init => TakeoverInv
<1> SUFFICES ASSUME Init  PROVE TakeoverInv
  OBVIOUS
<1>1. BoundIsBinding /\ TargetIsBinding /\ LeaseOfBinding
  BY DEF Init, LeaseInit, BoundIsBinding, TargetIsBinding, LeaseOfBinding,
     NoWorker, Absent
<1>2. NoFuture /\ PlanAgrees /\ NothingBeforeArm
  BY DEF Init, LeaseInit, NoFuture, PlanAgrees, NothingBeforeArm, NoWorker, Never
<1>3. PredecessorsCalm /\ WatchedSinceReceipt
  BY DEF Init, PredecessorsCalm, WatchedSinceReceipt
<1> QED  BY <1>1, <1>2, <1>3, InitType DEF TakeoverInv

\* The parts of the invariant that speak of the other PC survive any step
\* of the Primary: homes, receipts and bindings are never taken back.
LEMMA PrimaryKeeps ==
  ASSUME TypeOK, LeaseNext
  PROVE  /\ clock' \in Nat /\ clock <= clock'
         /\ receipts' = receipts
         /\ \A s \in Session : home[s] # NoFolder => home'[s] = home[s]
         /\ \A t \in Take : fence[t].bindings \subseteq fence'[t].bindings
<1> USE DEF TypeOK, LeaseTypeOK
<1>1. CASE Tick
  BY <1>1 DEF Tick
<1>2. CASE SyncStep
  BY <1>2 DEF SyncStep, BecomeStandby, StopSync, SplitBrain, StartSync
<1>3. ASSUME NEW t \in Take, Wake(t) \/ TakeStep(t) \/ EndStep(t)
      PROVE  /\ UNCHANGED <<clock, receipts, home>>
             /\ \A u \in Take : fence[u].bindings \subseteq fence'[u].bindings
  <2>1. CASE BeginEnd(t)
    BY <2>1 DEF BeginEnd, FenceState
  <2>2. CASE ~BeginEnd(t)
    BY <1>3, <2>2 DEF Wake, TakeStep, StartTake, KeeperStarts, OpenEncoder, EndTake,
       FinishTake, EndStep, ReadEnding, WriteEnded, WorkerExits
  <2> QED  BY <2>1, <2>2
<1>4. ASSUME NEW t \in Take, RenewStep(t)
      PROVE  /\ UNCHANGED <<clock, receipts, home>>
             /\ \A u \in Take : fence[u].bindings \subseteq fence'[u].bindings
  <2>1. CASE SplitRevokes(t)
    BY <2>1 DEF SplitRevokes, FenceState
  <2>2. CASE Bind(t)
    BY <2>2 DEF Bind, FenceState
  <2>3. CASE KeepBinding(t)
    BY <2>3 DEF KeepBinding, FenceState
  <2>4. CASE StayUnbound(t)
    BY <2>4 DEF StayUnbound, FenceState
  <2>6. CASE RenewalFails(t)
    BY <2>6 DEF RenewalFails, FenceState
  <2>8. CASE FindTakeover(t)
    BY <2>8 DEF FindTakeover, FenceState
  <2>7. CASE NoteRenewal(t)
    BY <2>7 DEF NoteRenewal, FenceState
  <2>9. CASE FindNoTakeover(t)
    BY <2>9 DEF FindNoTakeover, FenceState
  <2>5. CASE AlreadyRevoked(t) \/ WriteLease(t)
    BY <2>5 DEF AlreadyRevoked, WriteLease
  <2> QED  BY <1>4, <2>1, <2>2, <2>3, <2>4, <2>5, <2>6, <2>7, <2>8, <2>9 DEF RenewStep
<1> QED  BY <1>1, <1>2, <1>3, <1>4 DEF LeaseNext

\* What only the other PC writes is not the Primary's to change.
LEMMA SuccessorPartsKept ==
  ASSUME TakeoverInv, LeaseNext, PrimaryOnly
  PROVE  PlanAgrees' /\ NothingBeforeArm' /\ WatchedSinceReceipt'
<1> USE PrimaryKeeps DEF TakeoverInv, TypeOK, PrimaryOnly, takeoverVars, PlanState
<1>1. PlanAgrees'
  BY DEF PlanAgrees, PlanReceipt
<1>2. NothingBeforeArm'
  BY DEF NothingBeforeArm
<1>3. WatchedSinceReceipt'
  BY TakeoverConstants DEF WatchedSinceReceipt, Instant, Never, LeaseTypeOK
<1> QED  BY <1>1, <1>2, <1>3

\* The parts that speak of the Primary.
PrimaryParts == BoundIsBinding /\ TargetIsBinding /\ LeaseOfBinding /\ NoFuture /\ PredecessorsCalm

\* Time and Standby sync leave the takes as they are.
LEMMA ClockStepKeeps ==
  ASSUME TakeoverInv, PrimaryOnly, Tick \/ SyncStep
  PROVE  PrimaryParts'
<1>1. /\ UNCHANGED <<leases, fence, worker, plan, recorder>>
      /\ clock \in Nat /\ clock' \in Nat /\ clock <= clock'
  BY DEF Tick, SyncStep, BecomeStandby, StopSync, SplitBrain, StartSync, PrimaryOnly,
     takeoverVars, TakeoverInv, TypeOK, LeaseTypeOK
<1>2. BoundIsBinding' /\ TargetIsBinding' /\ LeaseOfBinding' /\ PredecessorsCalm'
  BY <1>1 DEF TakeoverInv, BoundIsBinding, TargetIsBinding, LeaseOfBinding,
     PredecessorsCalm
<1>3. NoFuture'
  BY <1>1 DEF TakeoverInv, NoFuture, TypeOK, LeaseTypeOK, FenceState, WorkerState,
     Instant, Never, PlanState, RecorderState
<1> QED  BY <1>2, <1>3 DEF PrimaryParts

\* The frame loop renews nothing.
LEMMA LoopStepKeeps ==
  ASSUME TakeoverInv, PrimaryOnly, NEW t \in Take,
         KeeperStarts(t) \/ OpenEncoder(t) \/ EndTake(t) \/ FinishTake(t)
  PROVE  PrimaryParts'
<1>1. UNCHANGED <<clock, leases, fence, worker, plan, recorder>>
  BY DEF KeeperStarts, OpenEncoder, EndTake, FinishTake, PrimaryOnly, takeoverVars
<1> QED  BY <1>1 DEF PrimaryParts, TakeoverInv, BoundIsBinding, TargetIsBinding,
     LeaseOfBinding, NoFuture, PredecessorsCalm

\* A renewal looks at what the take is bound to, and sees the receipt.
LEMMA WorkerStepKeeps ==
  ASSUME TakeoverInv, PrimaryOnly, NEW t \in Take,
         StartTake(t) \/ Wake(t) \/ RenewStep(t) \/ EndStep(t)
  PROVE  PrimaryParts'
<1> USE DEF PrimaryParts
<1>1. CASE Wake(t)
  <2>1. BoundIsBinding' /\ TargetIsBinding'
    BY <1>1 DEF TakeoverInv, TypeOK, LeaseTypeOK, FenceState, WorkerState,
       PrimaryOnly, takeoverVars,
       Wake, Observe, BoundIsBinding, TargetIsBinding, NoSession
  <2>2. LeaseOfBinding'
    BY <1>1 DEF TakeoverInv, TypeOK, LeaseTypeOK, FenceState, WorkerState,
       PrimaryOnly, takeoverVars,
       Wake, Observe, LeaseOfBinding, TargetIsBinding
  <2>3. NoFuture'
    BY <1>1 DEF TakeoverInv, TypeOK, LeaseTypeOK, FenceState, WorkerState,
       PrimaryOnly, takeoverVars,
       Wake, Observe, NoFuture
  <2>4. PredecessorsCalm'
    BY <1>1, SMTT(60) DEF TakeoverInv, TypeOK, LeaseTypeOK, FenceState,
       WorkerState, PrimaryOnly, takeoverVars,
       Wake, Observe, PredecessorsCalm, NoFuture,
       TargetIsBinding, PlanAgrees, NoSession, Never, Instant, PlanState
  <2> QED  BY <2>1, <2>2, <2>3, <2>4
<1>2. CASE StartTake(t)
  <2>1. BoundIsBinding' /\ TargetIsBinding'
    BY <1>2 DEF TakeoverInv, TypeOK, LeaseTypeOK, FenceState, WorkerState,
       PrimaryOnly, takeoverVars,
       StartTake, Observe, BoundIsBinding, TargetIsBinding, NoSession
  <2>2. LeaseOfBinding'
    BY <1>2 DEF TakeoverInv, TypeOK, LeaseTypeOK, FenceState, WorkerState,
       PrimaryOnly, takeoverVars,
       StartTake, Observe, LeaseOfBinding, TargetIsBinding
  <2>3. NoFuture'
    BY <1>2 DEF TakeoverInv, TypeOK, LeaseTypeOK, FenceState, WorkerState,
       PrimaryOnly, takeoverVars,
       StartTake, Observe, NoFuture
  <2>4. PredecessorsCalm'
    BY <1>2, SMTT(60) DEF TakeoverInv, TypeOK, LeaseTypeOK, FenceState,
       WorkerState, PrimaryOnly, takeoverVars,
       StartTake, Observe, PredecessorsCalm, NoFuture,
       TargetIsBinding, PlanAgrees, NoSession, Never, Instant, PlanState
  <2> QED  BY <2>1, <2>2, <2>3, <2>4
<1>3. CASE AlreadyRevoked(t)
  <2>1. BoundIsBinding' /\ TargetIsBinding'
    BY <1>3 DEF TakeoverInv, TypeOK, LeaseTypeOK, FenceState, WorkerState,
       PrimaryOnly, takeoverVars,
       AlreadyRevoked, Rest, NoWorker, BoundIsBinding, TargetIsBinding, NoSession
  <2>2. LeaseOfBinding'
    BY <1>3 DEF TakeoverInv, TypeOK, LeaseTypeOK, FenceState, WorkerState,
       PrimaryOnly, takeoverVars,
       AlreadyRevoked, Rest, NoWorker, LeaseOfBinding, TargetIsBinding
  <2>3. NoFuture'
    BY <1>3 DEF TakeoverInv, TypeOK, LeaseTypeOK, FenceState, WorkerState,
       PrimaryOnly, takeoverVars,
       AlreadyRevoked, Rest, NoWorker, NoFuture
  <2>4. PredecessorsCalm'
    BY <1>3, SMTT(60) DEF TakeoverInv, TypeOK, LeaseTypeOK, FenceState,
       WorkerState, PrimaryOnly, takeoverVars,
       AlreadyRevoked, Rest, NoWorker, PredecessorsCalm, NoFuture,
       TargetIsBinding, PlanAgrees, NoSession, Never, Instant, PlanState
  <2> QED  BY <2>1, <2>2, <2>3, <2>4
<1>4. CASE SplitRevokes(t)
  <2>1. BoundIsBinding' /\ TargetIsBinding'
    BY <1>4 DEF TakeoverInv, TypeOK, LeaseTypeOK, FenceState, WorkerState,
       PrimaryOnly, takeoverVars,
       SplitRevokes, Rest, NoWorker, BoundIsBinding, TargetIsBinding, NoSession
  <2>2. LeaseOfBinding'
    BY <1>4 DEF TakeoverInv, TypeOK, LeaseTypeOK, FenceState, WorkerState,
       PrimaryOnly, takeoverVars,
       SplitRevokes, Rest, NoWorker, LeaseOfBinding, TargetIsBinding
  <2>3. NoFuture'
    BY <1>4 DEF TakeoverInv, TypeOK, LeaseTypeOK, FenceState, WorkerState,
       PrimaryOnly, takeoverVars,
       SplitRevokes, Rest, NoWorker, NoFuture
  <2>4. PredecessorsCalm'
    BY <1>4, SMTT(60) DEF TakeoverInv, TypeOK, LeaseTypeOK, FenceState,
       WorkerState, PrimaryOnly, takeoverVars,
       SplitRevokes, Rest, NoWorker, PredecessorsCalm, NoFuture,
       TargetIsBinding, PlanAgrees, NoSession, Never, Instant, PlanState
  <2> QED  BY <2>1, <2>2, <2>3, <2>4
<1>5. CASE Bind(t)
  <2>1. /\ fence' = [fence EXCEPT ![t] =
               [fence[t] EXCEPT !.splitSince = SplitSince(t), !.bound = worker[t].primary,
                                !.bindings = @ \cup {worker[t].primary},
                                !.renewed = worker[t].now, !.since = worker[t].now,
                                !.sequence = @ + 1]]
        /\ worker[t].primary # NoSession
        /\ worker[t].primary # fence[t].bound
        /\ worker' = [worker EXCEPT ![t] =
               [NoWorker EXCEPT !.pc = "search", !.now = worker[t].now,
                                !.target = worker[t].primary,
                                !.sequence = fence[t].sequence + 1]]
        /\ UNCHANGED <<clock, plan, leases>>
    BY <1>5 DEF Bind, Rebinds, Search, PrimaryOnly, takeoverVars
  <2>2. /\ \A u \in Take \ {t} : fence'[u] = fence[u] /\ worker'[u] = worker[u]
        /\ fence'[t].bound = worker[t].primary
        /\ fence'[t].bindings = fence[t].bindings \cup {worker[t].primary}
        /\ fence'[t].renewed = worker[t].now
        /\ worker'[t].pc = "search"
        /\ worker'[t].target = worker[t].primary
        /\ worker'[t].now = worker[t].now
    BY <2>1 DEF NoWorker, TakeoverInv, TypeOK, LeaseTypeOK, FenceState, WorkerState
  <2>3. BoundIsBinding' /\ TargetIsBinding' /\ LeaseOfBinding'
    BY <2>1, <2>2 DEF TakeoverInv, BoundIsBinding, TargetIsBinding, LeaseOfBinding,
       TypeOK, LeaseTypeOK, LeaseRecord, Absent
  <2>4. NoFuture'
    BY <1>5, <2>1, <2>2 DEF TakeoverInv, NoFuture, PrimaryOnly, takeoverVars
  \* A predecessor was bound before: one that re-binds is not steady any more.
  <2>5. \A s \in Session : t \in plan.rivals => fence'[t].bindings # {s}
    BY <2>1, <2>2 DEF TakeoverInv, PlanAgrees, BoundIsBinding, NoSession
  <2>6. PredecessorsCalm'
    BY <2>1, <2>2, <2>5 DEF TakeoverInv, PredecessorsCalm, TypeOK, PlanState
  <2> QED  BY <2>3, <2>4, <2>6
<1>6. CASE KeepBinding(t)
  <2>1. BoundIsBinding' /\ TargetIsBinding'
    BY <1>6 DEF TakeoverInv, TypeOK, LeaseTypeOK, FenceState, WorkerState,
       PrimaryOnly, takeoverVars,
       KeepBinding, Search, NoWorker, BoundIsBinding, TargetIsBinding, NoSession
  <2>2. LeaseOfBinding'
    BY <1>6 DEF TakeoverInv, TypeOK, LeaseTypeOK, FenceState, WorkerState,
       PrimaryOnly, takeoverVars,
       KeepBinding, Search, NoWorker, LeaseOfBinding, TargetIsBinding
  <2>3. NoFuture'
    BY <1>6 DEF TakeoverInv, TypeOK, LeaseTypeOK, FenceState, WorkerState,
       PrimaryOnly, takeoverVars,
       KeepBinding, Search, NoWorker, NoFuture
  <2>4. PredecessorsCalm'
    BY <1>6, SMTT(60) DEF TakeoverInv, TypeOK, LeaseTypeOK, FenceState,
       WorkerState, PrimaryOnly, takeoverVars,
       KeepBinding, Search, NoWorker, PredecessorsCalm, NoFuture,
       TargetIsBinding, PlanAgrees, NoSession, Never, Instant, PlanState
  <2> QED  BY <2>1, <2>2, <2>3, <2>4
<1>7. CASE StayUnbound(t)
  <2>1. BoundIsBinding' /\ TargetIsBinding'
    BY <1>7 DEF TakeoverInv, TypeOK, LeaseTypeOK, FenceState, WorkerState,
       PrimaryOnly, takeoverVars,
       StayUnbound, Rest, NoWorker, BoundIsBinding, TargetIsBinding, NoSession
  <2>2. LeaseOfBinding'
    BY <1>7 DEF TakeoverInv, TypeOK, LeaseTypeOK, FenceState, WorkerState,
       PrimaryOnly, takeoverVars,
       StayUnbound, Rest, NoWorker, LeaseOfBinding, TargetIsBinding
  <2>3. NoFuture'
    BY <1>7 DEF TakeoverInv, TypeOK, LeaseTypeOK, FenceState, WorkerState,
       PrimaryOnly, takeoverVars,
       StayUnbound, Rest, NoWorker, NoFuture
  <2>4. PredecessorsCalm'
    BY <1>7, SMTT(60) DEF TakeoverInv, TypeOK, LeaseTypeOK, FenceState,
       WorkerState, PrimaryOnly, takeoverVars,
       StayUnbound, Rest, NoWorker, PredecessorsCalm, NoFuture,
       TargetIsBinding, PlanAgrees, NoSession, Never, Instant, PlanState
  <2> QED  BY <2>1, <2>2, <2>3, <2>4
<1>8. CASE RenewalFails(t)
  <2>1. BoundIsBinding' /\ TargetIsBinding'
    BY <1>8 DEF TakeoverInv, TypeOK, LeaseTypeOK, FenceState, WorkerState,
       PrimaryOnly, takeoverVars,
       RenewalFails, Rest, NoWorker, BoundIsBinding, TargetIsBinding, NoSession
  <2>2. LeaseOfBinding'
    BY <1>8 DEF TakeoverInv, TypeOK, LeaseTypeOK, FenceState, WorkerState,
       PrimaryOnly, takeoverVars,
       RenewalFails, Rest, NoWorker, LeaseOfBinding, TargetIsBinding
  <2>3. NoFuture'
    BY <1>8 DEF TakeoverInv, TypeOK, LeaseTypeOK, FenceState, WorkerState,
       PrimaryOnly, takeoverVars,
       RenewalFails, Rest, NoWorker, NoFuture
  <2>4. PredecessorsCalm'
    BY <1>8, SMTT(60) DEF TakeoverInv, TypeOK, LeaseTypeOK, FenceState,
       WorkerState, PrimaryOnly, takeoverVars,
       RenewalFails, Rest, NoWorker, PredecessorsCalm, NoFuture,
       TargetIsBinding, PlanAgrees, NoSession, Never, Instant, PlanState
  <2> QED  BY <2>1, <2>2, <2>3, <2>4
<1>9. CASE FindTakeover(t)
  <2>1. BoundIsBinding' /\ TargetIsBinding'
    BY <1>9 DEF TakeoverInv, TypeOK, LeaseTypeOK, FenceState, WorkerState,
       PrimaryOnly, takeoverVars,
       FindTakeover, Rest, NoWorker, BoundIsBinding, TargetIsBinding, NoSession
  <2>2. LeaseOfBinding'
    BY <1>9 DEF TakeoverInv, TypeOK, LeaseTypeOK, FenceState, WorkerState,
       PrimaryOnly, takeoverVars,
       FindTakeover, Rest, NoWorker, LeaseOfBinding, TargetIsBinding
  <2>3. NoFuture'
    BY <1>9 DEF TakeoverInv, TypeOK, LeaseTypeOK, FenceState, WorkerState,
       PrimaryOnly, takeoverVars,
       FindTakeover, Rest, NoWorker, NoFuture
  <2>4. PredecessorsCalm'
    BY <1>9, SMTT(60) DEF TakeoverInv, TypeOK, LeaseTypeOK, FenceState,
       WorkerState, PrimaryOnly, takeoverVars,
       FindTakeover, Rest, NoWorker, PredecessorsCalm, NoFuture,
       TargetIsBinding, PlanAgrees, NoSession, Never, Instant, PlanState
  <2> QED  BY <2>1, <2>2, <2>3, <2>4
<1>10. CASE FindNoTakeover(t)
  <2>1. /\ worker' = [worker EXCEPT ![t].pc = "write"]
        /\ worker[t].pc = "search"
        /\ fence' = [fence EXCEPT ![t].missed = @ \/ Superseded(t)]
        /\ UNCHANGED <<clock, leases, plan, recorder>>
    BY <1>10 DEF FindNoTakeover, PrimaryOnly, takeoverVars
  <2>2. /\ \A u \in Take \ {t} : worker'[u] = worker[u] /\ fence'[u] = fence[u]
        /\ worker'[t].pc = "write"
        /\ worker'[t].target = worker[t].target
        /\ worker'[t].now = worker[t].now
    BY <2>1 DEF TakeoverInv, TypeOK, LeaseTypeOK, FenceState, WorkerState
  <2>6. fence'[t] = [fence[t] EXCEPT !.missed = fence[t].missed \/ Superseded(t)]
    BY <2>1 DEF TakeoverInv, TypeOK, LeaseTypeOK
  <2>7. /\ fence'[t].bound = fence[t].bound
        /\ fence'[t].bindings = fence[t].bindings
        /\ fence'[t].renewed = fence[t].renewed
    BY <2>6, ThreadTypes DEF TakeoverInv, TypeOK, FenceState
  <2>8. fence'[t].missed = (fence[t].missed \/ Superseded(t))
    BY <2>6, ThreadTypes DEF TakeoverInv, TypeOK, FenceState
  <2>3. BoundIsBinding' /\ TargetIsBinding' /\ LeaseOfBinding' /\ NoFuture'
    BY <2>1, <2>2, <2>7 DEF TakeoverInv, BoundIsBinding, TargetIsBinding,
       LeaseOfBinding, NoFuture, TypeOK, LeaseTypeOK, LeaseRecord, Absent
  \* The receipt names the one session of a steady take, which passes it over.
  <2>4. ASSUME plan.written # Never, NEW s \in plan.superseded, fence[t].bindings = {s}
        PROVE  fence'[t].missed
    <3>1. worker[t].target = s
      BY <2>1, <2>4 DEF TakeoverInv, TargetIsBinding, BoundIsBinding
    <3>2. [folder |-> home[s], supersedes |-> plan.superseded] \in receipts
      BY <2>4 DEF TakeoverInv, PlanAgrees, PlanReceipt
    <3>3. SupersededIn(CurrentFolder(t), t)
      BY <2>4, <3>1, <3>2 DEF SupersededIn, CurrentFolder
    <3> QED  BY <2>8, <3>3 DEF Superseded
  <2>5. PredecessorsCalm'
    BY <2>1, <2>2, <2>4, <2>7, <2>8 DEF TakeoverInv, PredecessorsCalm
  <2> QED  BY <2>3, <2>5
<1>11. CASE WriteLease(t)
  <2>1. /\ worker[t].pc = "write" /\ worker'[t].pc = "ack"
        /\ worker'[t].now = worker[t].now
        /\ \A u \in Take \ {t} : worker'[u] = worker[u]
        /\ UNCHANGED <<clock, fence, plan, recorder>>
    BY <1>11 DEF WriteLease, NoWorker, TakeoverInv, TypeOK, LeaseTypeOK,
       FenceState, WorkerState, PrimaryOnly, takeoverVars
  <2>2. \A s \in Session :
           \/ leases'[s] = leases[s]
           \/ s = worker[t].target /\ leases'[s].take = t
    <3>1. leases' = [leases EXCEPT ![worker[t].target] =
             [take |-> t, sequence |-> worker[t].sequence, state |-> "recording"]]
      BY <1>11 DEF WriteLease
    <3>2. leases = [s \in Session |-> leases[s]]
      BY DEF TakeoverInv, TypeOK, LeaseTypeOK
    <3> QED  BY <3>1, <3>2
  <2>3. BoundIsBinding' /\ TargetIsBinding'
    BY <2>1 DEF TakeoverInv, BoundIsBinding, TargetIsBinding
  <2>5. NoFuture' /\ PredecessorsCalm'
    BY <2>1 DEF TakeoverInv, NoFuture, PredecessorsCalm, TypeOK, PlanState
  <2>4. LeaseOfBinding'
    BY <2>1, <2>2 DEF TakeoverInv, TargetIsBinding, BoundIsBinding, LeaseOfBinding
  <2> QED  BY <2>3, <2>4, <2>5
<1>12. CASE NoteRenewal(t)
  <2>1. BoundIsBinding' /\ TargetIsBinding'
    BY <1>12 DEF TakeoverInv, TypeOK, LeaseTypeOK, FenceState, WorkerState,
       PrimaryOnly, takeoverVars,
       NoteRenewal, Rest, NoWorker, BoundIsBinding, TargetIsBinding, NoSession
  <2>2. LeaseOfBinding'
    BY <1>12 DEF TakeoverInv, TypeOK, LeaseTypeOK, FenceState, WorkerState,
       PrimaryOnly, takeoverVars,
       NoteRenewal, Rest, NoWorker, LeaseOfBinding, TargetIsBinding
  <2>3. NoFuture'
    BY <1>12 DEF TakeoverInv, TypeOK, LeaseTypeOK, FenceState, WorkerState,
       PrimaryOnly, takeoverVars,
       NoteRenewal, Rest, NoWorker, NoFuture
  <2>4. PredecessorsCalm'
    BY <1>12, SMTT(60) DEF TakeoverInv, TypeOK, LeaseTypeOK, FenceState,
       WorkerState, PrimaryOnly, takeoverVars,
       NoteRenewal, Rest, NoWorker, PredecessorsCalm, NoFuture,
       TargetIsBinding, PlanAgrees, NoSession, Never, Instant, PlanState
  <2> QED  BY <2>1, <2>2, <2>3, <2>4
<1>13. CASE BeginEnd(t)
  <2>1. BoundIsBinding' /\ TargetIsBinding'
    BY <1>13 DEF TakeoverInv, TypeOK, LeaseTypeOK, FenceState, WorkerState,
       PrimaryOnly, takeoverVars,
       BeginEnd, NoWorker, BoundIsBinding, TargetIsBinding, NoSession
  <2>2. LeaseOfBinding'
    BY <1>13 DEF TakeoverInv, TypeOK, LeaseTypeOK, FenceState, WorkerState,
       PrimaryOnly, takeoverVars,
       BeginEnd, NoWorker, LeaseOfBinding, TargetIsBinding
  <2>3. NoFuture'
    BY <1>13 DEF TakeoverInv, TypeOK, LeaseTypeOK, FenceState, WorkerState,
       PrimaryOnly, takeoverVars,
       BeginEnd, NoWorker, NoFuture
  <2>4. PredecessorsCalm'
    BY <1>13, SMTT(60) DEF TakeoverInv, TypeOK, LeaseTypeOK, FenceState,
       WorkerState, PrimaryOnly, takeoverVars,
       BeginEnd, NoWorker, PredecessorsCalm, NoFuture,
       TargetIsBinding, PlanAgrees, NoSession, Never, Instant, PlanState
  <2> QED  BY <2>1, <2>2, <2>3, <2>4
<1>14. ASSUME NEW s \in Session, ReadEnding(t, s)  PROVE PrimaryParts'
  <2>4. \/ worker' = [worker EXCEPT ![t] = [worker[t] EXCEPT !.unended = @ \ {s}]]
        \/ worker' = [worker EXCEPT ![t] =
                         [worker[t] EXCEPT !.pc = "endWrite", !.target = s]]
    BY <1>14 DEF ReadEnding
  <2>1. /\ \A u \in Take \ {t} : worker'[u] = worker[u]
        /\ worker'[t].pc \in {"endRead", "endWrite"}
        /\ worker'[t].pc = "endWrite" => worker'[t].target \in worker[t].unended
        /\ worker'[t].unended \subseteq worker[t].unended
        /\ worker'[t].now = worker[t].now
        /\ UNCHANGED <<clock, fence, leases, plan, recorder>>
    <3> USE DEF TakeoverInv, TypeOK, LeaseTypeOK, WorkerState
    <3>1. /\ UNCHANGED <<clock, fence, leases, plan, recorder>>
          /\ s \in worker[t].unended /\ worker[t].pc = "endRead"
      BY <1>14 DEF ReadEnding, PrimaryOnly, takeoverVars
    <3>2. CASE worker' = [worker EXCEPT ![t] = [worker[t] EXCEPT !.unended = @ \ {s}]]
      BY <3>1, <3>2
    <3>3. CASE worker' = [worker EXCEPT ![t] =
                             [worker[t] EXCEPT !.pc = "endWrite", !.target = s]]
      BY <3>1, <3>3
    <3> QED  BY <2>4, <3>2, <3>3
  <2>2. BoundIsBinding' /\ TargetIsBinding' /\ LeaseOfBinding'
    BY <1>14, <2>1 DEF ReadEnding, TakeoverInv, BoundIsBinding, TargetIsBinding,
       LeaseOfBinding
  <2>3. NoFuture' /\ PredecessorsCalm'
    BY <2>1 DEF TakeoverInv, NoFuture, PredecessorsCalm, TypeOK, PlanState
  <2> QED  BY <2>2, <2>3
<1>15. CASE WriteEnded(t)
  <2>6. worker' = [worker EXCEPT ![t] =
           [worker[t] EXCEPT !.pc = "endRead", !.target = NoSession,
                             !.unended = @ \ {worker[t].target}]]
    BY <1>15 DEF WriteEnded
  <2>1. /\ \A u \in Take \ {t} : worker'[u] = worker[u]
        /\ worker'[t].pc = "endRead"
        /\ worker'[t].unended \subseteq worker[t].unended
        /\ worker'[t].now = worker[t].now
        /\ UNCHANGED <<clock, fence, plan, recorder>>
    BY <1>15, <2>6 DEF WriteEnded, TakeoverInv, TypeOK, LeaseTypeOK, FenceState,
       WorkerState, PrimaryOnly, takeoverVars
  <2>2. \A s \in Session :
           \/ leases'[s] = leases[s]
           \/ s = worker[t].target /\ leases'[s].take = t
    <3>1. CASE leases' = [leases EXCEPT ![worker[t].target] =
             [take |-> t, sequence |-> worker[t].sequence, state |-> "ended"]]
      <4>1. leases = [s \in Session |-> leases[s]]
        BY DEF TakeoverInv, TypeOK, LeaseTypeOK
      <4> QED  BY <3>1, <4>1
    <3>2. CASE UNCHANGED leases
      BY <3>2
    <3> QED  BY <1>15, <3>1, <3>2 DEF WriteEnded
  <2>3. BoundIsBinding' /\ TargetIsBinding'
    BY <1>15, <2>1 DEF WriteEnded, TakeoverInv, BoundIsBinding, TargetIsBinding
  <2>4. LeaseOfBinding'
    BY <1>15, <2>1, <2>2 DEF WriteEnded, TakeoverInv, TargetIsBinding, LeaseOfBinding
  <2>5. NoFuture' /\ PredecessorsCalm'
    BY <2>1 DEF TakeoverInv, NoFuture, PredecessorsCalm, TypeOK, PlanState
  <2> QED  BY <2>3, <2>4, <2>5
<1>16. CASE WorkerExits(t)
  <2>1. BoundIsBinding' /\ TargetIsBinding'
    BY <1>16 DEF TakeoverInv, TypeOK, LeaseTypeOK, FenceState, WorkerState,
       PrimaryOnly, takeoverVars,
       WorkerExits, NoWorker, BoundIsBinding, TargetIsBinding, NoSession
  <2>2. LeaseOfBinding'
    BY <1>16 DEF TakeoverInv, TypeOK, LeaseTypeOK, FenceState, WorkerState,
       PrimaryOnly, takeoverVars,
       WorkerExits, NoWorker, LeaseOfBinding, TargetIsBinding
  <2>3. NoFuture'
    BY <1>16 DEF TakeoverInv, TypeOK, LeaseTypeOK, FenceState, WorkerState,
       PrimaryOnly, takeoverVars,
       WorkerExits, NoWorker, NoFuture
  <2>4. PredecessorsCalm'
    BY <1>16, SMTT(60) DEF TakeoverInv, TypeOK, LeaseTypeOK, FenceState,
       WorkerState, PrimaryOnly, takeoverVars,
       WorkerExits, NoWorker, PredecessorsCalm, NoFuture,
       TargetIsBinding, PlanAgrees, NoSession, Never, Instant, PlanState
  <2> QED  BY <2>1, <2>2, <2>3, <2>4
<1> QED  BY <1>1, <1>2, <1>3, <1>4, <1>5, <1>6, <1>7, <1>8, <1>9, <1>10, <1>11,
            <1>12, <1>13, <1>14, <1>15, <1>16
     DEF RenewStep, EndStep

\* The parts a step of the recorder may disturb.
RecorderParts == NoFuture /\ PlanAgrees /\ NothingBeforeArm /\ PredecessorsCalm
                 /\ WatchedSinceReceipt

\* The recorder watches and decides only after what it wrote.
LEMMA RecorderStepKeeps ==
  ASSUME TakeoverInv, TypeOK', RecorderStep
  PROVE  TakeoverInv'
<1>1. UNCHANGED <<clock, home, leases, fence, worker>>
  BY RecorderLeavesPrimary
<1>2. BoundIsBinding' /\ TargetIsBinding' /\ LeaseOfBinding'
  BY <1>1 DEF TakeoverInv, BoundIsBinding, TargetIsBinding, LeaseOfBinding
<1> USE DEF RecorderParts
<1>3. ASSUME NEW f \in Folder, NEW sessions \in SUBSET Session, TakeOver(f, sessions)
      PROVE  RecorderParts'
  BY <1>1, <1>3, LeaseConstants DEF TakeOver, TakeoverInv, TypeOK, PlanState,
     RecorderState, NoFuture,
     PlanAgrees, NothingBeforeArm, PredecessorsCalm, WatchedSinceReceipt
<1>4. ASSUME NEW s \in Session, ReadPredecessor(s)  PROVE RecorderParts'
  <2>1. \A t \in Predecessors(s) : fence[t].bindings # {}
    BY DEF TakeoverInv, LeaseOfBinding, Predecessors
  <2>2. /\ plan'.folder = plan.folder /\ plan'.superseded = plan.superseded
        /\ plan'.written = Never
        /\ plan'.watched \subseteq plan.watched \cup {s}
        /\ plan'.predecessors \subseteq plan.predecessors \cup Predecessors(s)
        /\ plan'.rivals = plan.rivals \cup Predecessors(s)
        /\ s \in recorder.unread
        /\ UNCHANGED <<receipts, watch>>
        /\ recorder'.pc \in {"reading", "receipt"}
        /\ recorder'.unread \subseteq recorder.unread
        /\ recorder'.now = recorder.now /\ recorder'.seen = recorder.seen
        /\ recorder.pc = "reading"
    <3>1. plan \in PlanState /\ recorder \in RecorderState /\ plan.written = Never
      BY <1>4 DEF ReadPredecessor, TakeoverInv, NothingBeforeArm, TypeOK
    <3>2. CASE Reads(s)
      BY <1>4, <3>1, <3>2, SMTT(30) DEF Reads, ReadPredecessor, PlanState, RecorderState
    <3>3. CASE FailsToRead(s)
      BY <1>4, <3>1, <3>3, SMTT(30) DEF FailsToRead, ReadPredecessor, PlanState,
         RecorderState
    <3> QED  BY <1>4, <3>2, <3>3 DEF ReadPredecessor
  <2>3. NoFuture' /\ NothingBeforeArm' /\ PredecessorsCalm' /\ WatchedSinceReceipt'
    BY <1>1, <2>2 DEF TakeoverInv, TypeOK, LeaseTypeOK, NoFuture, NothingBeforeArm,
       PredecessorsCalm,
       WatchedSinceReceipt, Never
  <2>4. PlanAgrees'
    BY <1>1, <2>1, <2>2 DEF TakeoverInv, PlanAgrees
  <2> QED  BY <2>3, <2>4
<1>5. ASSUME Arm  PROVE RecorderParts'
  <2>1. /\ recorder.seen = NothingSeen /\ recorder'.seen = NothingSeen
        /\ \A s \in Session : watch'[s].last = Unseen
        /\ recorder'.now = recorder.now
        /\ recorder'.pc \in {"sleeping", "exited"}
    <3>1. /\ recorder.seen = NothingSeen
          /\ \A s \in Session : watch'[s].last = Unseen
      BY <1>5 DEF Arm, TakeoverInv, NothingBeforeArm
    <3>2. recorder \in RecorderState
      BY DEF TakeoverInv, TypeOK
    <3>3. /\ recorder'.seen = recorder.seen /\ recorder'.now = recorder.now
          /\ recorder'.pc \in {"sleeping", "exited"}
      <4>1. CASE plan.predecessors # {}
        BY <1>5, <3>2, <4>1 DEF Arm, Armed, RecorderState
      <4>2. CASE plan.predecessors = {}
        BY <1>5, <3>2, <4>2 DEF Arm, Armed, RecorderState
      <4> QED  BY <4>1, <4>2
    <3> QED  BY <3>1, <3>3
  <2>2. plan'.written = clock \/ UNCHANGED plan
    BY <1>5 DEF Arm, WriteReceipt, ReceiptFails, TakeoverInv, TypeOK, PlanState
  <2>3. /\ UNCHANGED <<plan.folder, plan.superseded, plan.watched, plan.predecessors,
                       plan.rivals>>
        /\ receipts \subseteq receipts'
        /\ plan'.written # Never => PlanReceipt \in receipts'
        /\ plan'.written = clock \/ plan'.written = Never
    BY <1>5 DEF Arm, WriteReceipt, ReceiptFails, TakeoverInv, TypeOK, PlanState,
       NothingBeforeArm
  <2>7. PlanReceipt' = PlanReceipt
    BY <2>3 DEF PlanReceipt
  <2>4. NoFuture' /\ PlanAgrees' /\ NothingBeforeArm'
    BY <1>1, <2>1, <2>3, <2>7 DEF TakeoverInv, TypeOK, LeaseTypeOK, NoFuture,
       PlanAgrees, NothingBeforeArm, Never
  <2>5. PredecessorsCalm'
    BY <1>1, <2>3 DEF TakeoverInv, NoFuture, PredecessorsCalm, TypeOK, PlanState
  <2>6. WatchedSinceReceipt'
    BY <2>1 DEF WatchedSinceReceipt, NothingSeen
  <2> QED  BY <2>4, <2>5, <2>6
<1>6. ASSUME Poll  PROVE RecorderParts'
  <2>1. /\ recorder'.seen = NothingSeen /\ recorder'.pc = "probing"
        /\ recorder'.now = clock
        /\ UNCHANGED watch
    BY <1>6 DEF Poll, TakeoverInv, TypeOK, RecorderState
  <2>2. /\ UNCHANGED <<plan.folder, plan.superseded, plan.watched, plan.predecessors,
                       plan.rivals>>
        /\ receipts \subseteq receipts'
        /\ plan'.written # Never =>
             \/ plan'.written = clock /\ plan'.retried /\ PlanReceipt \in receipts'
             \/ plan.written # Never /\ UNCHANGED plan
    BY <1>6 DEF Poll, WriteReceipt, ReceiptFails, TakeoverInv, TypeOK, PlanState
  <2>7. PlanReceipt' = PlanReceipt
    BY <2>2 DEF PlanReceipt
  <2>3. NoFuture' /\ NothingBeforeArm'
    BY <1>1, <2>1, <2>2 DEF TakeoverInv, TypeOK, LeaseTypeOK, NoFuture,
       NothingBeforeArm, Never
  <2>4. PlanAgrees'
    BY <1>1, <2>1, <2>2, <2>7 DEF TakeoverInv, PlanAgrees
  <2>5. PredecessorsCalm'
    BY <1>1, <2>2 DEF TakeoverInv, NoFuture, PredecessorsCalm, TypeOK, PlanState
  <2>6. WatchedSinceReceipt'
    BY <1>1, <2>1, <2>2 DEF TakeoverInv, NoFuture, WatchedSinceReceipt, NothingSeen,
       TypeOK, LeaseTypeOK, PlanState
  <2> QED  BY <2>3, <2>4, <2>5, <2>6
<1>7. ASSUME NEW s \in Session, ReadLease(s)  PROVE RecorderParts'
  <2>6. CASE leases[s].state = "ended"
    <3>1. /\ recorder' = [recorder EXCEPT !.unread = @ \ {s}, !.seen[s] = "ended"]
          /\ UNCHANGED <<plan, receipts, watch>>
      BY <1>7, <2>6 DEF ReadLease
    <3>2. /\ recorder'.pc = recorder.pc /\ recorder'.now = recorder.now
          /\ \A r \in Session : recorder'.seen[r] = "quiet" => recorder.seen[r] = "quiet"
      BY <3>1 DEF TakeoverInv, TypeOK, RecorderState
    <3> QED  BY <1>1, <1>7, <3>1, <3>2 DEF ReadLease, TakeoverInv, NoFuture,
                PlanAgrees, PlanReceipt,
             NothingBeforeArm, PredecessorsCalm, WatchedSinceReceipt
  <2> SUFFICES ASSUME leases[s].state # "ended"  PROVE RecorderParts'
    BY <2>6
  <2> DEFINE since == IF leases[s] # watch[s].last THEN recorder.now ELSE watch[s].since
             state == IF recorder.now - since >= ClearAfter THEN "quiet" ELSE "recording"
  <2>7. /\ recorder' = [recorder EXCEPT !.unread = @ \ {s}, !.seen[s] = state]
        /\ watch' = [watch EXCEPT ![s] = [last |-> leases[s], since |-> since]]
        /\ recorder.pc = "probing"
        /\ UNCHANGED <<plan, receipts>>
    BY <1>7 DEF ReadLease
  <2>9. state = "quiet" => recorder.now - since >= ClearAfter
    OBVIOUS
  <2>10. since = recorder.now \/ (leases[s] = watch[s].last /\ since = watch[s].since)
    OBVIOUS
  <2> HIDE DEF state, since
  <2>8. /\ recorder'.pc = "probing" /\ recorder'.now = recorder.now
        /\ recorder'.seen = [recorder.seen EXCEPT ![s] = state]
        /\ recorder.seen \in [Session -> PredecessorState]
        /\ watch \in [Session -> WatchState]
    BY <2>7 DEF TakeoverInv, TypeOK, RecorderState
  <2>1. /\ recorder.pc = "probing" /\ recorder'.pc = "probing"
        /\ recorder'.now = recorder.now
        /\ UNCHANGED <<plan, receipts>>
        /\ \A r \in Session \ {s} : recorder'.seen[r] = recorder.seen[r] /\ watch'[r] = watch[r]
    BY <2>7, <2>8
  <2>2. /\ \/ watch'[s].since = recorder.now
           \/ leases[s] = watch[s].last /\ watch'[s].since = watch[s].since
        /\ recorder'.seen[s] = "quiet" => recorder.now - watch'[s].since >= ClearAfter
                                          /\ watch'[s].last = leases[s]
    BY <2>7, <2>8, <2>9, <2>10
  <2>3. NoFuture' /\ PlanAgrees' /\ NothingBeforeArm' /\ PredecessorsCalm'
    BY <1>1, <2>1 DEF TakeoverInv, NoFuture, PlanAgrees, PlanReceipt,
       NothingBeforeArm, PredecessorsCalm
  <2>4. leases[s] # Unseen
    BY DEF TakeoverInv, TypeOK, LeaseTypeOK, LeaseRecord, Absent, Unseen
  <2>5. WatchedSinceReceipt'
    <3> SUFFICES ASSUME plan.written # Never, ~plan.retried  PROVE WatchedSinceReceipt'
      BY <2>1 DEF WatchedSinceReceipt
    <3>1. /\ plan.written \in Nat /\ recorder.now \in Nat /\ clock \in Nat
          /\ watch[s].since \in Int /\ watch'[s].since \in Int
          /\ recorder.now >= plan.written /\ recorder.now <= clock
          /\ watch[s].last = Unseen \/ watch[s].since >= plan.written
      BY <2>1 DEF TakeoverInv, TypeOK, LeaseTypeOK, PlanState, RecorderState,
         WatchState, Instant,
         Never, NoFuture, WatchedSinceReceipt
    <3>2. watch'[s].last = Unseen \/ watch'[s].since >= plan.written
      BY <2>2, <2>4, <3>1
    <3>3. recorder'.seen[s] = "quiet" => clock >= plan.written + ClearAfter
      BY <2>2, <2>4, <3>1, <3>2, TakeoverConstants
    <3> QED  BY <1>1, <2>1, <3>1, <3>2, <3>3 DEF TakeoverInv, WatchedSinceReceipt
  <2> QED  BY <2>3, <2>5
<1>8. ASSUME NEW s \in Session, LeaseUnreadable(s)  PROVE RecorderParts'
  <2>1. /\ recorder.pc = "probing" /\ recorder'.pc = "probing"
        /\ recorder'.now = recorder.now
        /\ UNCHANGED <<plan, receipts, watch>>
        /\ \A r \in Session : recorder'.seen[r] = "quiet" => recorder.seen[r] = "quiet"
    BY <1>8 DEF LeaseUnreadable, TakeoverInv, TypeOK, RecorderState
  <2> QED  BY <1>1, <2>1 DEF TakeoverInv, NoFuture, PlanAgrees, PlanReceipt,
           NothingBeforeArm,
           PredecessorsCalm, WatchedSinceReceipt
<1>9. ASSUME \/ \E step \in {"wait", "start", "cancel"} : Decide(step)
             \/ Wait \/ CancelItself \/ StartTakeover \/ StartRefused \/ CancelPending
             \/ FindsItselfCancelled
      PROVE  RecorderParts'
  <2> DEFINE Quieter == /\ \/ /\ recorder'.pc \in {"decided", "sleeping", "exited"}
                              /\ recorder'.now = 0 \/ recorder'.now = recorder.now
                           \/ /\ recorder'.pc = recorder.pc /\ recorder'.now = recorder.now
                              /\ recorder'.seen = recorder.seen
                              /\ recorder'.unread = recorder.unread
                        /\ UNCHANGED <<plan, receipts, watch>>
                        /\ \A r \in Session : recorder'.seen[r] = "quiet"
                                              => recorder.seen[r] = "quiet"
  <2>1. Quieter
    <3> USE DEF TakeoverInv, TypeOK, RecorderState
    <3>1. ASSUME NEW step \in {"wait", "start", "cancel"}, Decide(step)  PROVE Quieter
      BY <3>1 DEF Decide, NothingSeen
    <3>2. CASE Wait
      BY <3>2 DEF Wait, Acts
    <3>3. CASE CancelItself \/ StartTakeover \/ FindsItselfCancelled
      BY <3>3 DEF CancelItself, StartTakeover, FindsItselfCancelled, Acts, Finish
    <3>5. CASE CancelPending
      BY <3>5 DEF CancelPending
    <3>4. CASE StartRefused
      <4>1. UNCHANGED <<plan, receipts, watch>>
        BY <3>4 DEF StartRefused, Acts
      <4>2. CASE recorder.attempts < StartAttempts
        <5>1. recorder' = [recorder EXCEPT !.pc = "sleeping", !.status = "pending",
                                           !.attempts = recorder.attempts + 1]
          BY <3>4, <4>2 DEF StartRefused
        <5> QED  BY <4>1, <5>1
      <4>3. CASE ~(recorder.attempts < StartAttempts)
        BY <3>4, <4>1, <4>3 DEF StartRefused, Finish
      <4> QED  BY <4>2, <4>3
    <3> QED  BY <1>9, <3>1, <3>2, <3>3, <3>4, <3>5
  <2>3. recorder.now \in Nat /\ clock \in Nat
    BY DEF TakeoverInv, TypeOK, LeaseTypeOK, RecorderState
  <2>4. NoFuture'
    BY <1>1, <2>1, <2>3 DEF TakeoverInv, NoFuture
  <2>5. PlanAgrees' /\ NothingBeforeArm'
    BY <1>1, <2>1 DEF TakeoverInv, PlanAgrees, PlanReceipt, NothingBeforeArm
  <2>6. PredecessorsCalm'
    BY <1>1, <2>1 DEF TakeoverInv, PredecessorsCalm
  <2>7. WatchedSinceReceipt'
    BY <1>1, <2>1 DEF TakeoverInv, WatchedSinceReceipt
  <2> QED  BY <2>4, <2>5, <2>6, <2>7
<1>10. RecorderParts'
  <2>1. CASE \E f \in Folder, sessions \in SUBSET Session : TakeOver(f, sessions)
    BY <1>3, <2>1
  <2>2. CASE \E s \in Session : ReadPredecessor(s) \/ ReadLease(s) \/ LeaseUnreadable(s)
    BY <1>4, <1>7, <1>8, <2>2
  <2> HIDE DEF RecorderParts
  <2> QED  BY <1>5, <1>6, <1>9, <2>1, <2>2 DEF RecorderStep
<1> QED  BY <1>2, <1>10 DEF TakeoverInv

\* Every step of the two PCs keeps the invariant.
LEMMA TakeoverInvInductive ==
  ASSUME TakeoverInv, TypeOK', [Next]_vars
  PROVE  TakeoverInv'
<1>1. CASE UNCHANGED vars
  BY <1>1 DEF vars, leaseVars, takeoverVars, TakeoverInv, TypeOK, LeaseTypeOK,
     BoundIsBinding,
     TargetIsBinding, LeaseOfBinding, NoFuture, PlanAgrees, PlanReceipt,
     NothingBeforeArm, PredecessorsCalm, WatchedSinceReceipt
<1>2. CASE LeaseNext /\ PrimaryOnly
  <2>1. PrimaryParts'
    BY <1>2, ClockStepKeeps, LoopStepKeeps, WorkerStepKeeps DEF LeaseNext, TakeStep
  <2> QED  BY <1>2, <2>1, SuccessorPartsKept DEF TakeoverInv, PrimaryParts
<1> QED  BY <1>1, <1>2, RecorderStepKeeps DEF Next

\* The argument, from the parts of the invariant.
LEMMA QuietFences == TakeoverInv => QuietMeansFenced
<1> SUFFICES ASSUME TakeoverInv, plan.written # Never, ~plan.retried,
                    NEW s \in plan.watched, NEW t \in plan.rivals,
                    recorder.seen[s] = "quiet", fence[t].bindings = {s},
                    ~fence[t].missed
             PROVE  ~Records(t)
  BY DEF QuietMeansFenced
<1>1. s \in Session /\ s \in plan.superseded /\ t \in Take
  BY DEF TakeoverInv, TypeOK, PlanState, PlanAgrees
<1>2. clock >= plan.written + ClearAfter
  BY <1>1 DEF TakeoverInv, WatchedSinceReceipt
<1>3. fence[t].renewed <= plan.written /\ fence[t].bound # NoSession
  BY <1>1 DEF TakeoverInv, PredecessorsCalm, BoundIsBinding
<1>4. fence[t].renewed \in Int /\ plan.written \in Int /\ clock \in Int
  BY <1>1 DEF TakeoverInv, TypeOK, LeaseTypeOK, FenceState, PlanState, Instant, Never
<1> QED  BY <1>2, <1>3, <1>4, LeaseConstants, TakeoverConstants DEF Records,
            FencePasses

(* If the receipt was written by Take Over itself, then once the recorder  *)
(* has seen the lease of a watched session quiet for ClearAfter, a take    *)
(* that stayed in that session is fenced for good, because its last        *)
(* renewal began before the receipt was written: for any number of takes,  *)
(* sessions and folders, any ClearAfter > LeaseTtl and any fault but one,  *)
(* a renewal of that take that passed over a receipt it could not read     *)
(* (takeover_superseding skips it and the renewal goes on).                *)
THEOREM QuietIsFenced == Spec => []QuietMeansFenced
<1>1. TakeoverInv /\ TypeOK' /\ [Next]_vars => TakeoverInv'
  BY TakeoverInvInductive
<1> QED  BY <1>1, QuietFences, TakeoverInvInit, TypeCorrect, PTL DEF Spec

-----------------------------------------------------------------------------
(* The Primary alone: LeaseSpec, where any other PC may write receipts.    *)

\* No lease file names the take.
Unnamed(t) ==
    \A s \in Session : leases[s].state # "absent" => leases[s].take # t

\* The renewal of the take was not told to stop.
Writes(t) == worker[t].pc \in {"search", "write"}

\* Until the keeper has decided, only a renewal that went well names the take.
FirstRenewal(t) ==
    /\ take[t].loop = "idle" =>
         /\ worker[t].pc = "none" /\ Unnamed(t)
         /\ fence[t].bound = NoSession /\ ~fence[t].revoked /\ ~fence[t].failed
    /\ take[t].loop = "starting" =>
         /\ worker[t].pc \in {"observed", "search", "write", "ack", "rested"}
         /\ worker[t].pc = "observed" =>
              fence[t].bound = NoSession /\ ~fence[t].revoked /\ ~fence[t].failed
         /\ worker[t].pc = "ack" => ~fence[t].revoked
         /\ \/ Unnamed(t)
            \/ worker[t].pc = "ack"
            \/ /\ worker[t].pc = "rested"
               /\ ~fence[t].revoked /\ ~fence[t].failed
               /\ fence[t].renewed = worker[t].now
    /\ take[t].loop = "refused" => worker[t].pc = "rested" /\ Unnamed(t)
    /\ take[t].loop = "unspawned" => worker[t].pc = "rested"

\* A renewal that may still write is not revoked and goes to the bound session.
WritesWhereBound(t) ==
    Writes(t) => /\ ~fence[t].revoked
                 /\ worker[t].target = fence[t].bound
                 /\ fence[t].bound # NoSession

\* The take has not ended.
Runs(t) == take[t].loop \in {"starting", "opening", "recording"}

\* A renewal that was written, noted or not, left the take's lease in place.
WrittenIsNamed(t) ==
    Runs(t) /\ fence[t].bound # NoSession =>
        /\ worker[t].pc = "ack" => Named(fence[t].bound, t)
        /\ fence[t].renewed > fence[t].since => Named(fence[t].bound, t)

\* Ending a lease is for a take that has ended.
EndsEnded(t) ==
    worker[t].pc \in {"endRead", "endWrite", "exited"} => take[t].loop \in {"ending", "done"}

ThreadInv(t) ==
    FirstRenewal(t) /\ WritesWhereBound(t) /\ WrittenIsNamed(t) /\ EndsEnded(t)

\* One take at a time: a take begins when the earlier ones are over for good.
OneAtATime ==
    \A t, u \in Take :
        u < t /\ take[t].loop # "idle" => take[u].loop \in {"done", "refused", "unspawned"}

LeaseInv == LeaseTypeOK /\ OneAtATime /\ \A t \in Take : ThreadInv(t)

\* A lease that names an earlier take, or a later one once this one is over,
\* leaves what is known of this one alone.
LEMMA OthersKeep ==
  ASSUME LeaseTypeOK, NEW t \in Take, ThreadInv(t),
         fence'[t] = fence[t], worker'[t] = worker[t], take'[t] = take[t],
         \A s \in Session :
            \/ leases'[s] = leases[s]
            \/ /\ leases'[s].state # "absent" /\ leases'[s].take # t
               /\ leases'[s].take < t \/ ~Runs(t)
  PROVE  ThreadInv(t)'
<1>1. Unnamed(t) => Unnamed(t)'
  BY DEF Unnamed
<1>2. \A s \in Session : Runs(t) /\ Named(s, t) => Named(s, t)'
  BY DEF Named
<1>3. fence[t].bound \in Session \cup {NoSession}
  BY ThreadTypes DEF FenceState
<1>4. FirstRenewal(t)'
  BY <1>1, Zenon DEF ThreadInv, FirstRenewal
<1>5. WritesWhereBound(t)' /\ EndsEnded(t)'
  BY DEF ThreadInv, WritesWhereBound, Writes, EndsEnded
<1>6. WrittenIsNamed(t)'
  <2> SUFFICES ASSUME Runs(t)', fence'[t].bound # NoSession,
                      worker'[t].pc = "ack" \/ fence'[t].renewed > fence'[t].since
               PROVE  Named(fence[t].bound, t)'
    BY DEF WrittenIsNamed
  <2>1. Runs(t) /\ Named(fence[t].bound, t)
    BY DEF ThreadInv, WrittenIsNamed, Runs
  <2> QED  BY <1>2, <1>3, <2>1
<1> QED  BY <1>4, <1>5, <1>6 DEF ThreadInv

\* A step of one thread writes its own fence, worker, take and lease files.
LEMMA OwnStep ==
  ASSUME LeaseTypeOK, NEW t \in Take,
         Wake(t) \/ RenewStep(t) \/ EndStep(t) \/ TakeStep(t)
  PROVE  /\ \A u \in Take \ {t} : /\ fence'[u] = fence[u]
                                  /\ worker'[u] = worker[u]
                                  /\ take'[u] = take[u]
         /\ \A s \in Session :
               \/ leases'[s] = leases[s]
               \/ leases'[s].state # "absent" /\ leases'[s].take = t
<1> USE DEF LeaseTypeOK
<1>1. CASE Wake(t)
  BY <1>1 DEF Wake, Observe
<1>2. CASE RenewStep(t)
  BY <1>2 DEF RenewStep, AlreadyRevoked, SplitRevokes, Bind, KeepBinding, StayUnbound,
     RenewalFails, FindTakeover, FindNoTakeover, WriteLease, NoteRenewal, Rest, Search
<1>3. CASE EndStep(t)
  <2>1. CASE WriteEnded(t)
    BY <2>1 DEF WriteEnded
  <2>2. CASE BeginEnd(t) \/ WorkerExits(t) \/ \E s \in Session : ReadEnding(t, s)
    BY <2>2 DEF BeginEnd, WorkerExits, ReadEnding
  <2> QED  BY <1>3, <2>1, <2>2 DEF EndStep
<1>4. CASE TakeStep(t)
  BY <1>4 DEF TakeStep, StartTake, Observe, KeeperStarts, OpenEncoder, EndTake,
     FinishTake
<1> QED  BY <1>1, <1>2, <1>3, <1>4

\* The thread's own step: what it writes, and what the keeper makes of it.
LEMMA OwnRenewalKeeps ==
  ASSUME LeaseTypeOK, NEW t \in Take, FirstRenewal(t), WritesWhereBound(t),
         Wake(t) \/ RenewStep(t) \/ EndStep(t) \/ TakeStep(t)
  PROVE  FirstRenewal(t)' /\ WritesWhereBound(t)'
<1>0. /\ fence[t] \in FenceState /\ worker[t] \in WorkerState
      /\ take[t] \in TakeState
  BY ThreadTypes
<1>1. UNCHANGED leases => (Unnamed(t) => Unnamed(t)')
  BY DEF Unnamed
<1> USE DEF LeaseTypeOK, WritesWhereBound, Writes
\* The keeper's own observation, and the worker's.
<1>2. CASE StartTake(t)
  BY <1>0, <1>1, <1>2 DEF StartTake, Observe, FirstRenewal, TakeState
<1>3. CASE Wake(t)
  BY <1>0, <1>1, <1>3 DEF Wake, Observe, FirstRenewal, TakeState
<1>4. CASE AlreadyRevoked(t)
  BY <1>0, <1>1, <1>4 DEF AlreadyRevoked, Rest, NoWorker, FirstRenewal, TakeState
<1>5. CASE SplitRevokes(t)
  BY <1>0, <1>1, <1>5 DEF SplitRevokes, Rest, NoWorker, FirstRenewal, TakeState,
     FenceState
<1>6. CASE Bind(t)
  BY <1>0, <1>1, <1>6 DEF Bind, MayBind, Rebinds, Search, NoWorker, FirstRenewal,
     TakeState, FenceState
<1>7. CASE KeepBinding(t)
  BY <1>0, <1>1, <1>7 DEF KeepBinding, MayBind, Search, NoWorker, FirstRenewal,
     TakeState, FenceState
<1>8. CASE StayUnbound(t)
  <2>1. /\ worker'[t].pc = "rested" /\ worker[t].pc = "observed"
        /\ UNCHANGED <<leases, take>>
        /\ fence[t].bound = NoSession /\ fence'[t].bound = NoSession
        /\ fence'[t].revoked = fence[t].revoked
        /\ fence'[t].failed = fence[t].failed
    BY <1>0, <1>8 DEF StayUnbound, MayBind, Rest, NoWorker, FenceState
  <2> QED  BY <1>1, <2>1 DEF FirstRenewal
<1>9. CASE RenewalFails(t)
  BY <1>0, <1>1, <1>9 DEF RenewalFails, Rest, NoWorker, FirstRenewal, TakeState,
     FenceState
<1>10. CASE FindTakeover(t)
  BY <1>0, <1>1, <1>10 DEF FindTakeover, Rest, NoWorker, FirstRenewal, TakeState,
     FenceState
<1>11. CASE FindNoTakeover(t)
  BY <1>0, <1>1, <1>11 DEF FindNoTakeover, FirstRenewal, TakeState, WorkerState
<1>12. CASE WriteLease(t)
  BY <1>0, <1>12 DEF WriteLease, NoWorker, FirstRenewal, TakeState, WorkerState
<1>13. CASE NoteRenewal(t)
  BY <1>0, <1>1, <1>13 DEF NoteRenewal, Rest, NoWorker, FirstRenewal, TakeState,
     FenceState
\* The keeper admits the take, unless its first renewal went wrong.
<1>14. CASE KeeperStarts(t)
  <2>1. worker[t].now - worker[t].now = 0 /\ 0 <= LeaseTtl
    BY <1>0, LeaseConstants DEF WorkerState
  <2>2. /\ ~fence[t].revoked /\ ~fence[t].failed
        /\ fence[t].renewed = worker[t].now
        => FencePasses(t, worker[t].now)
    BY <1>0, <2>1 DEF FencePasses, WorkerState, Never
  <2>4. PICK loop \in IF Admitted(t) THEN {"opening", "unspawned"} ELSE {"refused"} :
           take' = [take EXCEPT ![t].loop = loop]
    BY <1>14 DEF KeeperStarts
  <2>5. take'[t].loop = loop
    BY <1>0, <2>4 DEF TakeState
  <2>3. take'[t].loop \in {"opening", "unspawned", "refused"}
        /\ (take'[t].loop = "refused" =>
              ~ (/\ FencePasses(t, worker[t].now)
                 /\ fence[t].bound # NoSession => ~fence[t].failed))
    BY <2>4, <2>5 DEF Admitted
  <2> QED  BY <1>0, <1>1, <1>14, <2>2, <2>3 DEF KeeperStarts, FirstRenewal
<1>15. CASE OpenEncoder(t) \/ EndTake(t) \/ FinishTake(t)
  BY <1>0, <1>1, <1>15 DEF OpenEncoder, EndTake, FinishTake, FirstRenewal, TakeState
\* The worker ends its leases only after the take had begun.
<1>16. ASSUME take'[t] = take[t],
              take[t].loop \notin {"idle", "starting", "refused", "unspawned"},
              worker'[t].pc \in {"endRead", "endWrite", "exited"}
       PROVE  FirstRenewal(t)' /\ WritesWhereBound(t)'
  BY <1>16 DEF FirstRenewal
<1>17. CASE BeginEnd(t)
  BY <1>0, <1>16, <1>17 DEF BeginEnd, NoWorker
<1>18. CASE WorkerExits(t) \/ WriteEnded(t)
  <2>1. take' = take /\ worker[t].pc \in {"endRead", "endWrite"}
    BY <1>18 DEF WorkerExits, WriteEnded
  <2>2. CASE WorkerExits(t)
    BY <1>16, <2>1, <2>2 DEF WorkerExits, FirstRenewal, NoWorker
  <2>3. CASE WriteEnded(t)
    <3>1. worker'[t] = [worker[t] EXCEPT !.pc = "endRead", !.target = NoSession,
                                         !.unended = @ \ {worker[t].target}]
      BY <2>3 DEF WriteEnded
    <3>2. worker'[t].pc = "endRead"
      BY <1>0, <3>1 DEF WorkerState
    <3> QED  BY <1>16, <2>1, <3>2 DEF FirstRenewal
  <2> QED  BY <1>18, <2>2, <2>3
<1>19. ASSUME NEW s \in Session, ReadEnding(t, s)
       PROVE  FirstRenewal(t)' /\ WritesWhereBound(t)'
  <2>1. take'[t] = take[t] /\ worker[t].pc = "endRead"
    BY <1>19 DEF ReadEnding
  <2>2. \/ worker' = [worker EXCEPT ![t].unended = @ \ {s}]
        \/ worker' = [worker EXCEPT ![t] =
              [worker[t] EXCEPT !.pc = "endWrite", !.target = s]]
    BY <1>19 DEF ReadEnding
  <2>3. \/ worker'[t] = [worker[t] EXCEPT !.unended = @ \ {s}]
        \/ worker'[t] = [worker[t] EXCEPT !.pc = "endWrite", !.target = s]
    BY <2>2
  <2>4. worker'[t].pc \in {"endRead", "endWrite"}
    BY <1>0, <2>1, <2>3 DEF WorkerState
  <2> QED  BY <1>16, <2>1, <2>4 DEF FirstRenewal
<1> QED
  BY <1>2, <1>3, <1>4, <1>5, <1>6, <1>7, <1>8, <1>9, <1>10, <1>11, <1>12, <1>13,
     <1>14, <1>15, <1>17, <1>18, <1>19 DEF RenewStep, EndStep, TakeStep

\* ... and what it has written, while the take runs.
LEMMA OwnWritingKeeps ==
  ASSUME LeaseTypeOK, NEW t \in Take, ThreadInv(t),
         Wake(t) \/ RenewStep(t) \/ EndStep(t) \/ TakeStep(t)
  PROVE  WrittenIsNamed(t)' /\ EndsEnded(t)'
<1>0. /\ fence[t] \in FenceState /\ worker[t] \in WorkerState
      /\ take[t] \in TakeState
  BY ThreadTypes
<1> USE DEF LeaseTypeOK
\* A step that writes no lease, renews and binds nothing.
<1>1. ASSUME UNCHANGED leases, fence'[t].bound = fence[t].bound,
             fence'[t].renewed = fence[t].renewed, fence'[t].since = fence[t].since,
             Runs(t)' => Runs(t), worker'[t].pc = "ack" => worker[t].pc = "ack"
      PROVE  WrittenIsNamed(t)'
  <2>1. Named(fence[t].bound, t) => Named(fence[t].bound, t)'
    BY <1>1 DEF Named
  <2> QED  BY <1>1, <2>1 DEF ThreadInv, WrittenIsNamed
\* A step of the renewal: the worker ends nothing.
<1>2. ASSUME take' = take, worker'[t].pc \notin {"endRead", "endWrite", "exited"}
      PROVE  EndsEnded(t)'
  BY <1>2 DEF EndsEnded
<1>3. CASE Wake(t)
  <2>1. /\ UNCHANGED <<leases, fence, take>> /\ worker'[t].pc = "observed"
    BY <1>0, <1>3 DEF Wake, Observe, WorkerState
  <2> QED  BY <1>1, <1>2, <2>1 DEF Runs
<1>4. CASE AlreadyRevoked(t) \/ SplitRevokes(t) \/ StayUnbound(t) \/ RenewalFails(t)
           \/ FindTakeover(t)
  <2>1. UNCHANGED <<leases, take>> /\ worker'[t].pc = "rested"
    BY <1>0, <1>4 DEF AlreadyRevoked, SplitRevokes, StayUnbound, RenewalFails,
       FindTakeover, Rest, NoWorker
  <2>2. /\ fence'[t].bound = fence[t].bound /\ fence'[t].renewed = fence[t].renewed
        /\ fence'[t].since = fence[t].since
    <3>1. CASE AlreadyRevoked(t)
      BY <3>1 DEF AlreadyRevoked
    <3>2. CASE SplitRevokes(t)
      BY <1>0, <3>2 DEF SplitRevokes, FenceState
    <3>3. CASE StayUnbound(t)
      BY <1>0, <3>3 DEF StayUnbound, FenceState
    <3>4. CASE RenewalFails(t)
      BY <1>0, <3>4 DEF RenewalFails, FenceState
    <3>5. CASE FindTakeover(t)
      BY <1>0, <3>5 DEF FindTakeover, FenceState
    <3> QED  BY <1>4, <3>1, <3>2, <3>3, <3>4, <3>5
  <2> QED  BY <1>1, <1>2, <2>1, <2>2 DEF Runs
<1>5. CASE Bind(t)
  <2>1. UNCHANGED <<leases, take>> /\ worker'[t].pc = "search"
    BY <1>5 DEF Bind, Search, NoWorker
  <2>2. fence'[t].renewed = worker[t].now /\ fence'[t].since = worker[t].now
    BY <1>0, <1>5 DEF Bind, FenceState
  <2>3. worker[t].now \in Nat
    BY <1>0 DEF WorkerState
  <2> QED  BY <1>2, <2>1, <2>2, <2>3 DEF WrittenIsNamed
<1>6. CASE KeepBinding(t)
  <2>1. UNCHANGED <<leases, take>> /\ worker'[t].pc = "search"
    BY <1>6 DEF KeepBinding, Search, NoWorker
  <2>2. /\ fence'[t].bound = fence[t].bound /\ fence'[t].renewed = fence[t].renewed
        /\ fence'[t].since = fence[t].since
    BY <1>0, <1>6 DEF KeepBinding, FenceState
  <2> QED  BY <1>1, <1>2, <2>1, <2>2 DEF Runs
<1>7. CASE FindNoTakeover(t)
  <2>1. UNCHANGED <<leases, take>> /\ worker'[t].pc = "write"
    BY <1>0, <1>7 DEF FindNoTakeover, WorkerState
  <2>2. /\ fence'[t].bound = fence[t].bound /\ fence'[t].renewed = fence[t].renewed
        /\ fence'[t].since = fence[t].since
    BY <1>0, <1>7 DEF FindNoTakeover, FenceState
  <2> QED  BY <1>1, <1>2, <2>1, <2>2 DEF Runs
\* The lease is written where the take is bound, and noted afterwards.
<1>8. CASE WriteLease(t)
  <2>1. /\ UNCHANGED <<fence, take>> /\ worker'[t].pc = "ack"
        /\ worker[t].target = fence[t].bound /\ fence[t].bound \in Session
        /\ leases' = [leases EXCEPT ![worker[t].target] =
              [take |-> t, sequence |-> worker[t].sequence, state |-> "recording"]]
    BY <1>0, <1>8 DEF WriteLease, NoWorker, ThreadInv, WritesWhereBound, Writes,
       FenceState
  <2>2. Named(fence[t].bound, t)'
    BY <2>1 DEF Named
  <2> QED  BY <1>2, <2>1, <2>2 DEF WrittenIsNamed
<1>9. CASE NoteRenewal(t)
  <2>1. UNCHANGED <<leases, take>> /\ worker'[t].pc = "rested" /\ worker[t].pc = "ack"
    BY <1>9 DEF NoteRenewal, Rest, NoWorker
  <2>2. fence'[t].bound = fence[t].bound
    BY <1>0, <1>9 DEF NoteRenewal, FenceState
  <2>3. Named(fence[t].bound, t) => Named(fence[t].bound, t)'
    BY <2>1, <2>2 DEF Named
  <2> QED  BY <1>2, <2>1, <2>2, <2>3 DEF ThreadInv, WrittenIsNamed, Runs
<1>10. CASE StartTake(t)
  <2>1. fence' = fence /\ take[t].loop = "idle" /\ worker'[t].pc = "observed"
    BY <1>0, <1>10 DEF StartTake, Observe, WorkerState
  <2>2. fence[t].bound = NoSession
    BY <2>1 DEF ThreadInv, FirstRenewal
  <2> QED  BY <2>1, <2>2 DEF WrittenIsNamed, EndsEnded
<1>11. CASE KeeperStarts(t) \/ OpenEncoder(t) \/ EndTake(t) \/ FinishTake(t)
  <2>1. UNCHANGED <<leases, fence, worker>>
    BY <1>11 DEF KeeperStarts, OpenEncoder, EndTake, FinishTake
  <2>2. /\ Runs(t)' => Runs(t)
        /\ take[t].loop \in {"ending", "done"} => take'[t].loop \in {"ending", "done"}
    BY <1>0, <1>11 DEF KeeperStarts, OpenEncoder, EndTake, FinishTake, Runs, TakeState
  <2>3. EndsEnded(t)'
    BY <2>1, <2>2 DEF ThreadInv, EndsEnded
  <2> QED  BY <1>1, <2>1, <2>2, <2>3
\* The end of the lease is written for a take that has ended.
<1>12. CASE EndStep(t)
  <2>1. take' = take /\ take[t].loop \in {"ending", "done"}
    BY <1>12 DEF EndStep, BeginEnd, WriteEnded, WorkerExits, ReadEnding, ThreadInv,
       EndsEnded
  <2> QED  BY <2>1 DEF WrittenIsNamed, EndsEnded, Runs
<1> QED
  BY <1>3, <1>4, <1>5, <1>6, <1>7, <1>8, <1>9, <1>10, <1>11, <1>12 DEF RenewStep, TakeStep

\* So the thread's own step keeps all that is known of it.
LEMMA OwnKeeps ==
  ASSUME LeaseTypeOK, NEW t \in Take, ThreadInv(t),
         Wake(t) \/ RenewStep(t) \/ EndStep(t) \/ TakeStep(t)
  PROVE  ThreadInv(t)'
  BY OwnRenewalKeeps, OwnWritingKeeps DEF ThreadInv

\* No take has begun and no lease is written.
LEMMA LeaseInvInit == LeaseInit => LeaseInv
<1> SUFFICES ASSUME LeaseInit  PROVE LeaseInv
  OBVIOUS
<1>1. ASSUME NEW t \in Take  PROVE ThreadInv(t)
  BY DEF LeaseInit, ThreadInv, FirstRenewal, Unnamed, WritesWhereBound, Writes,
     WrittenIsNamed, Runs, EndsEnded, NoWorker, Absent
<1>2. OneAtATime
  BY DEF LeaseInit, OneAtATime
<1> QED  BY <1>1, <1>2, LeaseInitType DEF LeaseInv

\* The receipt of another PC changes nothing the Primary keeps.
ReceiptsOnly ==
    \E f \in Folder, sessions \in SUBSET Session : ReceiptAppears(f, sessions)

\* Only a take that begins leaves "idle", and one that is over stays over.
LEMMA LoopStep ==
  ASSUME LeaseTypeOK, NEW t \in Take,
         Wake(t) \/ RenewStep(t) \/ EndStep(t) \/ TakeStep(t)
  PROVE  /\ take[t].loop \in {"done", "refused", "unspawned"} => take'[t] = take[t]
         /\ take[t].loop = "idle" /\ take'[t].loop # "idle" => StartTake(t)
<1> USE DEF LeaseTypeOK, TakeState
<1>1. CASE Wake(t) \/ RenewStep(t) \/ EndStep(t)
  <2>1. take' = take
    BY <1>1 DEF Wake, RenewStep, AlreadyRevoked, SplitRevokes, Bind, KeepBinding,
       StayUnbound, RenewalFails, FindTakeover, FindNoTakeover, WriteLease,
       NoteRenewal, EndStep, BeginEnd, WriteEnded, WorkerExits, ReadEnding
  <2> QED  BY <2>1
<1>2. CASE TakeStep(t)
  BY <1>2 DEF TakeStep, StartTake, KeeperStarts, OpenEncoder, EndTake, FinishTake
<1> QED  BY <1>1, <1>2

\* A thread that writes a lease belongs to a take that has begun, so no
\* earlier take still runs.
LEMMA WriterFollows ==
  ASSUME LeaseInv, NEW t \in Take, NEW u \in Take \ {t},
         Wake(t) \/ RenewStep(t) \/ EndStep(t) \/ TakeStep(t)
  PROVE  \/ UNCHANGED leases
         \/ t < u
         \/ ~Runs(u)
<1>1. CASE UNCHANGED leases
  BY <1>1
<1>2. CASE ~UNCHANGED leases
  <2>1. worker[t].pc \in {"write", "endWrite"}
    BY <1>2 DEF Wake, RenewStep, AlreadyRevoked, SplitRevokes, Bind, KeepBinding,
       StayUnbound, RenewalFails, FindTakeover, FindNoTakeover, WriteLease,
       NoteRenewal, EndStep, BeginEnd, WriteEnded, WorkerExits, ReadEnding,
       TakeStep, StartTake, KeeperStarts, OpenEncoder, EndTake, FinishTake
  <2>2. take[t].loop # "idle"
    BY <2>1 DEF LeaseInv, ThreadInv, FirstRenewal
  <2>3. t \in Nat /\ u \in Nat /\ t # u
    BY LeaseConstants
  <2>4. u < t => take[u].loop \in {"done", "refused", "unspawned"}
    BY <2>2 DEF LeaseInv, OneAtATime
  <2> QED  BY <2>3, <2>4 DEF Runs
<1> QED  BY <1>1, <1>2

\* Every step of the Primary or of its environment keeps the invariant.
LEMMA LeaseInvInductive ==
  ASSUME LeaseInv, LeaseNext \/ ReceiptsOnly \/ UNCHANGED leaseVars
  PROVE  LeaseInv'
<1>1. LeaseTypeOK'
  <2>1. CASE LeaseNext
    BY <2>1, LeaseNextType DEF LeaseInv
  <2>2. CASE ReceiptsOnly
    BY <2>2 DEF ReceiptsOnly, ReceiptAppears, LeaseInv, LeaseTypeOK, Receipt
  <2>3. CASE UNCHANGED leaseVars
    BY <2>3 DEF leaseVars, LeaseInv, LeaseTypeOK
  <2> QED  BY <2>1, <2>2, <2>3
<1>2. CASE Tick \/ SyncStep \/ ReceiptsOnly \/ UNCHANGED leaseVars
  <2>1. UNCHANGED <<leases, fence, worker, take>>
    BY <1>2 DEF Tick, SyncStep, BecomeStandby, StopSync, SplitBrain, StartSync,
       ReceiptsOnly, ReceiptAppears, leaseVars
  <2>2. OneAtATime'
    BY <2>1 DEF LeaseInv, OneAtATime
  <2>3. ASSUME NEW t \in Take  PROVE ThreadInv(t)'
    BY <2>1, OthersKeep DEF LeaseInv
  <2> QED  BY <1>1, <2>2, <2>3 DEF LeaseInv
<1>3. ASSUME NEW t \in Take, Wake(t) \/ RenewStep(t) \/ EndStep(t) \/ TakeStep(t)
      PROVE  LeaseInv'
  <2>1. ThreadInv(t)'
    BY <1>3, OwnKeeps DEF LeaseInv
  <2>2. ASSUME NEW u \in Take, u # t  PROVE ThreadInv(u)'
    <3>1. fence'[u] = fence[u] /\ worker'[u] = worker[u] /\ take'[u] = take[u]
      BY <1>3, <2>2, OwnStep DEF LeaseInv
    <3>2. \A s \in Session :
             \/ leases'[s] = leases[s]
             \/ leases'[s].state # "absent" /\ leases'[s].take = t
      BY <1>3, OwnStep DEF LeaseInv
    <3>3. UNCHANGED leases \/ t < u \/ ~Runs(u)
      BY <1>3, <2>2, WriterFollows
    <3>4. \A s \in Session :
             \/ leases'[s] = leases[s]
             \/ /\ leases'[s].state # "absent" /\ leases'[s].take # u
                /\ leases'[s].take < u \/ ~Runs(u)
      BY <2>2, <3>2, <3>3
    <3> QED  BY <3>1, <3>4, OthersKeep DEF LeaseInv
  <2>3. OneAtATime'
    <3> SUFFICES ASSUME NEW a \in Take, NEW b \in Take, b < a, take'[a].loop # "idle"
                 PROVE  take'[b].loop \in {"done", "refused", "unspawned"}
      BY DEF OneAtATime
    <3>1. \A u \in Take \ {t} : take'[u] = take[u]
      BY <1>3, OwnStep DEF LeaseInv
    <3>2. /\ take[t].loop \in {"done", "refused", "unspawned"} => take'[t] = take[t]
          /\ take[t].loop = "idle" /\ take'[t].loop # "idle" => StartTake(t)
      BY <1>3, LoopStep DEF LeaseInv
    <3>3. a # b
      BY LeaseConstants
    <3>4. CASE take[a].loop # "idle"
      <4>1. take[b].loop \in {"done", "refused", "unspawned"}
        BY <3>4 DEF LeaseInv, OneAtATime
      <4> QED  BY <3>1, <3>2, <4>1
    <3>5. CASE take[a].loop = "idle"
      <4>1. a = t /\ StartTake(t)
        BY <3>1, <3>2, <3>5
      <4> QED  BY <3>1, <3>3, <4>1 DEF StartTake
    <3> QED  BY <3>4, <3>5
  <2> QED  BY <1>1, <2>1, <2>2, <2>3 DEF LeaseInv
<1> QED  BY <1>2, <1>3 DEF LeaseNext

\* Every reachable state of the Primary is sound, whatever receipts appear.
THEOREM LeaseSound == LeaseSpec => []LeaseInv
<1>1. LeaseInv /\ [LeaseNext \/ ReceiptsOnly]_leaseVars => LeaseInv'
  BY LeaseInvInductive
<1> QED  BY <1>1, LeaseInvInit, PTL DEF LeaseSpec, ReceiptsOnly

(* RecordingLeaseKeeper::start refuses a take for what its first renewal   *)
(* found only when that renewal wrote no lease: the fence it judges by is  *)
(* the one that renewal set, at the very instant that renewal began.  Not  *)
(* so where its thread does not start: that lease stays (see "unspawned"). *)
THEOREM RefusalIsClean == LeaseSpec => []RefusedLeavesNoLease
<1>1. LeaseInv => RefusedLeavesNoLease
  BY DEF LeaseInv, ThreadInv, FirstRenewal, Unnamed, RefusedLeavesNoLease
<1> QED  BY <1>1, LeaseSound, PTL

(* Whatever Standby sync and the folder do, and however many takes came    *)
(* before, a take that still records when the TTL of its binding has       *)
(* passed is named by the "recording" lease of that session, unless an     *)
(* earlier take's worker, left behind, wrote there since.                  *)
THEOREM BoundIsVisible == LeaseSpec => []BoundTakeIsVisible
<1>1. ASSUME LeaseInv, NEW t \in Take, Records(t), fence[t].bound # NoSession,
             clock - fence[t].since > LeaseTtl
      PROVE  Named(fence[t].bound, t)
  <2>1. /\ clock \in Nat /\ LeaseTtl \in Nat
        /\ fence[t].renewed \in Int /\ fence[t].since \in Int
    BY <1>1, ThreadTypes, LeaseConstants DEF LeaseInv, LeaseTypeOK, FenceState,
       Instant, Never
  <2>2. clock - fence[t].renewed <= LeaseTtl
    BY <1>1 DEF Records, FencePasses
  <2>3. fence[t].renewed > fence[t].since
    BY <1>1, <2>1, <2>2
  <2> QED  BY <1>1, <2>3 DEF LeaseInv, ThreadInv, WrittenIsNamed, Runs, Records
<1>2. LeaseInv => BoundTakeIsVisible
  BY <1>1 DEF BoundTakeIsVisible
<1> QED  BY <1>2, LeaseSound, PTL

\* A revoked fence stays so, and its thread is past the last lease it writes.
LEMMA RevokedStep ==
  ASSUME LeaseInv, [LeaseNext \/ ReceiptsOnly]_leaseVars,
         NEW t \in Take, fence[t].revoked
  PROVE  /\ fence'[t].revoked
         /\ \A s \in Session :
              leases'[s] # leases[s] /\ leases'[s].state = "recording"
              => leases'[s].take # t
<1> USE DEF LeaseInv, LeaseTypeOK
<1>1. CASE Tick \/ SyncStep \/ ReceiptsOnly \/ UNCHANGED leaseVars
  BY <1>1 DEF Tick, SyncStep, BecomeStandby, StopSync, SplitBrain, StartSync,
     ReceiptsOnly, ReceiptAppears, leaseVars
<1>2. ASSUME NEW u \in Take \ {t},
             Wake(u) \/ RenewStep(u) \/ EndStep(u) \/ TakeStep(u)
      PROVE  /\ fence'[t] = fence[t]
             /\ \A s \in Session : leases'[s] # leases[s] => leases'[s].take # t
  BY <1>2, OwnStep
<1>3. CASE Wake(t) \/ TakeStep(t)
  BY <1>3 DEF Wake, TakeStep, StartTake, Observe, KeeperStarts, OpenEncoder, EndTake,
     FinishTake
<1>4. CASE RenewStep(t)
  <2>1. ~Writes(t)
    BY DEF ThreadInv, WritesWhereBound
  <2>2. AlreadyRevoked(t) \/ NoteRenewal(t)
    BY <1>4, <2>1 DEF RenewStep, Writes, SplitRevokes, Bind, KeepBinding, StayUnbound,
       MayBind, RenewalFails, FindTakeover, FindNoTakeover, WriteLease
  <2>3. fence[t] \in FenceState
    BY ThreadTypes
  <2>4. CASE AlreadyRevoked(t)
    BY <2>4 DEF AlreadyRevoked
  <2>5. CASE NoteRenewal(t)
    <3>1. fence'[t] = [fence[t] EXCEPT !.renewed = worker[t].now, !.failed = FALSE]
      BY <2>5 DEF NoteRenewal
    <3>2. fence'[t].revoked = fence[t].revoked /\ leases' = leases
      BY <2>3, <2>5, <3>1 DEF NoteRenewal, FenceState
    <3> QED  BY <3>2
  <2> QED  BY <2>2, <2>4, <2>5
<1>5. CASE EndStep(t)
  <2>1. CASE WriteEnded(t)
    BY <2>1 DEF WriteEnded
  <2>2. CASE WorkerExits(t) \/ \E s \in Session : ReadEnding(t, s)
    BY <2>2 DEF WorkerExits, ReadEnding
  <2>3. CASE BeginEnd(t)
    <3>1. fence[t] \in FenceState
      BY ThreadTypes
    <3> QED  BY <2>3, <3>1 DEF BeginEnd, FenceState
  <2> QED  BY <1>5, <2>1, <2>2, <2>3 DEF EndStep
<1> QED  BY <1>1, <1>2, <1>3, <1>4, <1>5 DEF LeaseNext

(* A superseded take does not come back: no later renewal clears the       *)
(* revocation, and its worker writes no more than that the take ended.     *)
THEOREM RevocationIsFinal == LeaseSpec => RevokedStaysRevoked
<1>1. LeaseInv /\ [LeaseNext \/ ReceiptsOnly]_leaseVars =>
        [\A t \in Take :
           fence[t].revoked =>
             /\ fence'[t].revoked
             /\ \A s \in Session :
                  leases'[s] # leases[s] /\ leases'[s].state = "recording"
                  => leases'[s].take # t]_leaseVars
  BY RevokedStep
<1> QED  BY <1>1, LeaseSound, PTL DEF LeaseSpec, RevokedStaysRevoked, ReceiptsOnly

-----------------------------------------------------------------------------
(* The two PCs never record the same program.                              *)

\* Take Over names at least one session, and nothing is reported before it.
SupersedesSome ==
    IF recorder.pc = "standby" THEN recorder.status = "idle"
    ELSE plan.superseded # {}

\* A take that recorded was bound to a session whose lease the recorder watches.
PredecessorsWatched ==
    \A t \in plan.rivals : \E s \in plan.watched : s \in fence[t].bindings

\* A session seen to have ended was the session of a take that is over.
SeenEndedIsOver ==
    \A s \in Session : recorder.seen[s] = "ended" =>
        \E t \in Take : s \in fence[t].bindings /\ take[t].loop \in {"ending", "done"}

\* The recorder starts, and has started, only on what it found settled.
StartsSettled ==
    /\ Starting \/ Started => Settled
    /\ Started => recorder.pc = "exited"

SettledInv ==
    SupersedesSome /\ PredecessorsWatched /\ SeenEndedIsOver /\ StartsSettled

\* The Primary only adds to what its takes were bound to; a take over stays so.
LEMMA PrimaryGrows ==
  ASSUME LeaseTypeOK, LeaseNext, NEW t \in Take
  PROVE  /\ fence[t].bindings \subseteq fence'[t].bindings
         /\ take[t].loop \in {"ending", "done"} => take'[t].loop \in {"ending", "done"}
<1> USE DEF LeaseTypeOK
<1>0. fence[t] \in FenceState /\ take[t] \in TakeState
  BY ThreadTypes
<1>1. CASE Tick \/ SyncStep
  BY <1>1 DEF Tick, SyncStep, BecomeStandby, StopSync, SplitBrain, StartSync
<1>2. ASSUME NEW u \in Take \ {t},
             Wake(u) \/ RenewStep(u) \/ EndStep(u) \/ TakeStep(u)
      PROVE  fence'[t] = fence[t] /\ take'[t] = take[t]
  BY <1>2, OwnStep
<1>3. CASE Wake(t) \/ TakeStep(t)
  BY <1>0, <1>3 DEF Wake, TakeStep, StartTake, Observe, KeeperStarts, OpenEncoder,
     EndTake, FinishTake, TakeState
<1>4. CASE RenewStep(t)
  <2>1. take' = take
    BY <1>4 DEF RenewStep, AlreadyRevoked, SplitRevokes, Bind, KeepBinding,
       StayUnbound,
       RenewalFails, FindTakeover, FindNoTakeover, WriteLease, NoteRenewal
  <2>2. CASE Bind(t)
    <3>1. fence'[t].bindings = fence[t].bindings \cup {worker[t].primary}
      BY <1>0, <2>2 DEF Bind, FenceState
    <3> QED  BY <2>1, <3>1
  <2>3. CASE SplitRevokes(t)
    BY <1>0, <2>1, <2>3 DEF SplitRevokes, FenceState
  <2>4. CASE KeepBinding(t)
    BY <1>0, <2>1, <2>4 DEF KeepBinding, FenceState
  <2>5. CASE StayUnbound(t)
    BY <1>0, <2>1, <2>5 DEF StayUnbound, FenceState
  <2>6. CASE RenewalFails(t) \/ FindTakeover(t)
    BY <1>0, <2>1, <2>6 DEF RenewalFails, FindTakeover, FenceState
  <2>7. CASE NoteRenewal(t)
    BY <1>0, <2>1, <2>7 DEF NoteRenewal, FenceState
  <2>9. CASE FindNoTakeover(t)
    BY <1>0, <2>1, <2>9 DEF FindNoTakeover, FenceState
  <2>8. CASE AlreadyRevoked(t) \/ WriteLease(t)
    BY <2>1, <2>8 DEF AlreadyRevoked, WriteLease
  <2> QED  BY <1>4, <2>2, <2>3, <2>4, <2>5, <2>6, <2>7, <2>8, <2>9 DEF RenewStep
<1>5. CASE EndStep(t)
  <2>1. take' = take
    BY <1>5 DEF EndStep, BeginEnd, WriteEnded, WorkerExits, ReadEnding
  <2>2. CASE BeginEnd(t)
    BY <1>0, <2>1, <2>2 DEF BeginEnd, FenceState
  <2>3. CASE ~BeginEnd(t)
    BY <1>5, <2>1, <2>3 DEF EndStep, WriteEnded, WorkerExits, ReadEnding
  <2> QED  BY <2>2, <2>3
<1> QED  BY <1>1, <1>2, <1>3, <1>4, <1>5 DEF LeaseNext

\* The Primary's steps leave what the recorder saw true.
LEMMA SettledPrimary ==
  ASSUME TakeoverInv, SettledInv, LeaseNext, PrimaryOnly
  PROVE  SettledInv'
<1>1. UNCHANGED <<plan, watch, recorder>>
  BY DEF PrimaryOnly, takeoverVars
<1>2. SupersedesSome' /\ StartsSettled'
  BY <1>1 DEF SettledInv, SupersedesSome, StartsSettled, Settled, Starting, Started
<1>3. LeaseTypeOK /\ plan.rivals \subseteq Take
  BY DEF TakeoverInv, TypeOK, PlanState
<1>4. PredecessorsWatched' /\ SeenEndedIsOver'
  BY <1>1, <1>3, PrimaryGrows DEF SettledInv, PredecessorsWatched, SeenEndedIsOver
<1> QED  BY <1>2, <1>4 DEF SettledInv

\* The recorder's own steps: what it names, sees and decides on.
LEMMA SettledRecorder ==
  ASSUME TakeoverInv, StoppedInv, SettledInv, RecorderStep
  PROVE  SettledInv'
<1>1. UNCHANGED <<clock, home, leases, fence, worker, take>>
  BY RecorderLeavesPrimary
<1>2. /\ plan \in PlanState /\ recorder \in RecorderState
      /\ leases \in [Session -> LeaseRecord \cup {Absent}]
  BY DEF TakeoverInv, TypeOK, LeaseTypeOK
<1> USE DEF SettledInv, SupersedesSome, PredecessorsWatched, SeenEndedIsOver,
            StartsSettled, Starting, Started, Settled
<1>3. ASSUME NEW f \in Folder, NEW sessions \in SUBSET Session, TakeOver(f, sessions)
      PROVE  SettledInv'
  BY <1>1, <1>2, <1>3 DEF TakeOver, PlanState, RecorderState
<1>4. ASSUME NEW s \in Session, ReadPredecessor(s)
      PROVE  SettledInv'
  <2>1. /\ recorder'.seen = recorder.seen /\ recorder'.status = recorder.status
        /\ recorder.pc = "reading" /\ recorder'.pc \in {"reading", "receipt"}
    BY <1>2, <1>4 DEF ReadPredecessor, RecorderState
  <2>2. /\ plan'.superseded = plan.superseded
        /\ plan.watched \subseteq plan'.watched
        /\ plan'.rivals = plan.rivals \cup Predecessors(s)
        /\ Predecessors(s) # {} => s \in plan'.watched
    <3>1. CASE Reads(s)
      BY <1>2, <3>1 DEF Reads, PlanState
    <3>2. CASE FailsToRead(s)
      BY <1>2, <3>2 DEF FailsToRead, PlanState
    <3> QED  BY <1>4, <3>1, <3>2 DEF ReadPredecessor
  <2>3. \A t \in Predecessors(s) : s \in fence[t].bindings
    BY DEF TakeoverInv, LeaseOfBinding, Predecessors
  <2> QED  BY <1>1, <2>1, <2>2, <2>3
<1>5. CASE Arm
  <2>1. /\ plan'.superseded = plan.superseded /\ plan'.watched = plan.watched
        /\ plan'.rivals = plan.rivals
    BY <1>2, <1>5 DEF Arm, WriteReceipt, ReceiptFails, PlanState
  <2>2. /\ recorder'.seen = recorder.seen
        /\ recorder'.pc \in {"sleeping", "exited"}
        /\ recorder'.status \in {"pending", "idle", "failed"}
        /\ recorder.pc = "receipt"
    BY <1>2, <1>5 DEF Arm, Armed, RecorderState
  <2> QED  BY <1>1, <2>1, <2>2
<1>6. CASE Poll
  <2>1. /\ plan'.superseded = plan.superseded /\ plan'.watched = plan.watched
        /\ plan'.rivals = plan.rivals
    BY <1>2, <1>6 DEF Poll, WriteReceipt, ReceiptFails, PlanState
  <2>2. /\ recorder'.seen = NothingSeen /\ recorder'.pc = "probing"
        /\ recorder'.status = recorder.status /\ recorder.pc = "sleeping"
    BY <1>2, <1>6 DEF Poll, RecorderState
  <2> QED  BY <1>1, <2>1, <2>2 DEF NothingSeen
<1>7. ASSUME NEW s \in Session, ReadLease(s) \/ LeaseUnreadable(s)
      PROVE  SettledInv'
  <2>1. /\ plan' = plan /\ recorder'.pc = "probing" /\ recorder.pc = "probing"
        /\ recorder'.status = recorder.status
    BY <1>2, <1>7 DEF ReadLease, LeaseUnreadable, RecorderState
  <2>2. PICK saw \in {"quiet", "recording", "unknown", "ended"} :
           /\ recorder' = [recorder EXCEPT !.unread = @ \ {s}, !.seen[s] = saw]
           /\ saw = "ended" => leases[s].state = "ended"
    <3>1. CASE ReadLease(s) /\ leases[s].state = "ended"
      BY <3>1 DEF ReadLease
    <3>2. CASE ReadLease(s) /\ leases[s].state # "ended"
      <4> DEFINE since == IF leases[s] # watch[s].last THEN recorder.now
                          ELSE watch[s].since
      <4>1. recorder' = [recorder EXCEPT !.unread = @ \ {s},
                           !.seen[s] = IF recorder.now - since >= ClearAfter
                                       THEN "quiet" ELSE "recording"]
        BY <3>2 DEF ReadLease
      <4> QED  BY <4>1
    <3>3. CASE LeaseUnreadable(s)
      BY <3>3 DEF LeaseUnreadable
    <3> QED  BY <1>7, <3>1, <3>2, <3>3
  <2>3. /\ \A x \in Session : x # s => recorder'.seen[x] = recorder.seen[x]
        /\ recorder'.seen[s] = "ended" => leases[s].state = "ended"
    BY <1>2, <2>2 DEF RecorderState
  <2>4. leases[s].state = "ended" =>
          \E t \in Take : s \in fence[t].bindings /\ take[t].loop \in {"ending", "done"}
    <3> SUFFICES ASSUME leases[s].state = "ended"
                 PROVE  \E t \in Take : /\ s \in fence[t].bindings
                                        /\ take[t].loop \in {"ending", "done"}
      OBVIOUS
    <3>1. leases[s].take \in Take
      BY <1>2 DEF LeaseRecord, Absent
    <3>2. s \in fence[leases[s].take].bindings
      BY DEF TakeoverInv, LeaseOfBinding
    <3>3. take[leases[s].take].loop \in {"ending", "done"}
      BY DEF StoppedInv, EndedMeansOver
    <3> QED  BY <3>1, <3>2, <3>3
  <2> QED  BY <1>1, <2>1, <2>3, <2>4
<1>8. ASSUME NEW step \in {"wait", "start", "cancel"}, Decide(step)
      PROVE  SettledInv'
  <2>1. /\ plan' = plan /\ recorder.pc = "probing" /\ recorder'.pc = "decided"
        /\ recorder'.step = step /\ recorder'.status = recorder.status
        /\ recorder'.seen = IF step = "start" THEN recorder.seen ELSE NothingSeen
        /\ step = "start" => Settled
    BY <1>2, <1>8 DEF Decide, RecorderState
  <2>2. CASE step = "start"
    BY <1>1, <2>1, <2>2
  <2>3. CASE step # "start"
    BY <1>1, <2>1, <2>3 DEF NothingSeen
  <2> QED  BY <2>2, <2>3
<1>9. CASE Wait \/ CancelItself \/ StartTakeover \/ StartRefused
  <2>1. /\ plan' = plan /\ recorder'.seen = recorder.seen
        /\ recorder'.pc \in {"sleeping", "exited"}
        /\ recorder'.status = "started" => Starting /\ recorder'.pc = "exited"
    BY <1>2, <1>9 DEF Wait, CancelItself, StartTakeover, StartRefused, Acts, Finish,
       RecorderState
  <2>2. recorder.pc # "standby"
    BY <1>2, <1>9 DEF Wait, CancelItself, StartTakeover, StartRefused, Acts
  <2> QED  BY <1>1, <2>1, <2>2
<1>10. CASE CancelPending
  <2>1. /\ plan' = plan /\ recorder'.seen = recorder.seen /\ recorder'.pc = recorder.pc
        /\ recorder'.step = recorder.step /\ recorder'.status = "cancelled"
        /\ recorder.status \in {"pending", "blocked"}
    BY <1>2, <1>10 DEF CancelPending, RecorderState
  <2> QED  BY <1>1, <2>1
<1>11. CASE FindsItselfCancelled
  <2>1. /\ plan' = plan /\ recorder'.seen = recorder.seen /\ recorder'.pc = "exited"
        /\ recorder'.status = recorder.status /\ recorder.pc = "decided"
    BY <1>2, <1>11 DEF FindsItselfCancelled, RecorderState
  <2> QED  BY <1>1, <2>1
<1> QED  BY <1>3, <1>4, <1>5, <1>6, <1>7, <1>8, <1>9, <1>10, <1>11 DEF RecorderStep

\* Every step of either PC keeps what the takeover relies on.
LEMMA SettledInductive ==
  ASSUME TakeoverInv, StoppedInv, SettledInv, [Next]_vars
  PROVE  SettledInv'
<1>1. CASE UNCHANGED vars
  BY <1>1 DEF vars, leaseVars, takeoverVars, SettledInv, SupersedesSome,
     PredecessorsWatched, SeenEndedIsOver, StartsSettled, Settled, Starting, Started
<1> QED  BY <1>1, SettledPrimary, SettledRecorder DEF Next

\* Nothing was seen or started yet.
LEMMA SettledInit == Init => SettledInv
  BY DEF Init, LeaseInit, SettledInv, SupersedesSome, PredecessorsWatched,
     SeenEndedIsOver,
     StartsSettled, Settled, Starting, Started, NothingSeen

\* Every reachable state of the two PCs has all three invariants.
THEOREM SettledAlways == Spec => [](TakeoverInv /\ StoppedInv /\ SettledInv)
<1>1. Init => TakeoverInv /\ StoppedInv /\ SettledInv
  BY TakeoverInvInit, SettledInit
     DEF Init, LeaseInit, StoppedInv, EndedMeansOver, Absent, NoWorker
<1>2. TypeOK' /\ TakeoverInv /\ StoppedInv /\ SettledInv /\ [Next]_vars
        => TakeoverInv' /\ StoppedInv' /\ SettledInv'
  BY TakeoverInvInductive, StoppedInductive, SettledInductive DEF TakeoverInv
<1> QED  BY <1>1, <1>2, TypeCorrect, PTL DEF Spec

(* If Take Over itself wrote the receipt, a take that stayed in one        *)
(* session, shared it with no other take and passed over no receipt does   *)
(* not record once the takeover take has started: its lease said "ended",  *)
(* or was quiet.                                                           *)
SteadyNeverBoth ==
    ~plan.retried /\ Started =>
        \A t \in plan.rivals, s \in Session :
            /\ fence[t].bindings = {s} /\ ~fence[t].missed
            /\ \A u \in Take \ {t} : s \notin fence[u].bindings
            => ~Records(t)

\* An ended lease was the take's own; a quiet one was fenced.
LEMMA SettledIsSafe ==
  ASSUME TakeoverInv, SettledInv, QuietMeansFenced
  PROVE  SteadyNeverBoth
<1> SUFFICES ASSUME ~plan.retried, Started, NEW t \in plan.rivals,
                    NEW s \in Session, fence[t].bindings = {s}, ~fence[t].missed,
                    \A u \in Take \ {t} : s \notin fence[u].bindings
             PROVE  ~Records(t)
  BY DEF SteadyNeverBoth
<1>1. s \in plan.watched
  BY DEF SettledInv, PredecessorsWatched
<1>2. CASE recorder.seen[s] = "ended"
  <2>1. take[t].loop \in {"ending", "done"}
    BY <1>2 DEF SettledInv, SeenEndedIsOver
  <2> QED  BY <2>1 DEF Records
<1>3. CASE recorder.seen[s] = "quiet" /\ plan.written # Never
  BY <1>1, <1>3 DEF QuietMeansFenced
<1> QED  BY <1>1, <1>2, <1>3 DEF SettledInv, StartsSettled, Settled

(* A take that alone was bound to its one session never records beside the *)
(* takeover take, if Take Over itself wrote the receipt and no renewal of  *)
(* the take passed over a receipt it could not read: however many takes,   *)
(* sessions and folders there are, whatever else fails and however slow    *)
(* either PC is (decide starts only on Settled leases).  Neither condition *)
(* can go: a late receipt breaks it (TakeoverLateReceipt), and so does a   *)
(* take that skips the receipt (takeover_superseding).                     *)
THEOREM SteadyTakesNeverBoth == Spec => []SteadyNeverBoth
<1>1. TakeoverInv /\ SettledInv => SteadyNeverBoth
  BY QuietFences, SettledIsSafe
<1> QED  BY <1>1, SettledAlways, PTL

(* With one take in one session the plan of record holds of every take     *)
(* that stood recording at Take Over, read or not, under the same two      *)
(* conditions.                                                             *)
THEOREM NeverBothWhenArmed ==
  ASSUME MaxSession = 1, \A t, u \in Take : t = u
  PROVE  Spec => []ArmedNeverBothRecord
<1>1. TakeoverInv /\ SettledInv => ArmedNeverBothRecord
  <2> SUFFICES ASSUME TakeoverInv, SettledInv, ~plan.retried, Started,
                      NEW t \in plan.rivals, ~fence[t].missed
               PROVE  ~Records(t)
    BY DEF ArmedNeverBothRecord
  <2>1. t \in Take /\ fence[t].bindings # {} /\ fence[t].bindings \subseteq Session
    BY DEF TakeoverInv, TypeOK, LeaseTypeOK, PlanState, PlanAgrees, FenceState
  <2>2. Session = {1}
    BY DEF Session
  <2>3. fence[t].bindings = {1} /\ 1 \in Session
    BY <2>1, <2>2
  <2>4. SteadyNeverBoth
    BY QuietFences, SettledIsSafe
  <2> QED  BY <2>1, <2>3, <2>4 DEF SteadyNeverBoth
<1> QED  BY <1>1, SettledAlways, PTL

\* The status the recorder reports fits the point its thread is at.
StatusFits ==
    /\ recorder.pc \in {"standby", "reading", "receipt"} => recorder.status = "idle"
    /\ recorder.pc \in {"sleeping", "probing", "decided"} =>
         recorder.status \in {"pending", "blocked", "cancelled"}
    /\ recorder.status \in {"pending", "blocked"} =>
         recorder.pc \in {"sleeping", "probing", "decided"}
    /\ recorder.pc = "exited" /\ recorder.status = "idle" => plan.watched = {}

\* A waiting takeover is of the current generation, a cancelled one is not.
WaitsIfCurrent ==
    /\ recorder.status = "cancelled" => ~recorder.current
    /\ recorder.status \in {"pending", "blocked"} => recorder.current

\* Every step of the recorder keeps that, and revives nothing.
LEMMA StatusStep ==
  ASSUME TypeOK, StatusFits, WaitsIfCurrent, RecorderStep
  PROVE  /\ StatusFits' /\ WaitsIfCurrent'
         /\ recorder.status = "cancelled" => recorder'.status = "cancelled"
<1> DEFINE Kept == /\ StatusFits' /\ WaitsIfCurrent'
                   /\ recorder.status = "cancelled" => recorder'.status = "cancelled"
<1>0. recorder \in RecorderState /\ plan \in PlanState
  BY DEF TypeOK
\* The thread goes on; what it reports is as it was.
<1>1. ASSUME recorder'.status = recorder.status, recorder'.current = recorder.current,
             \/ {recorder.pc, recorder'.pc} \subseteq {"standby", "reading", "receipt"}
             \/ {recorder.pc, recorder'.pc} \subseteq {"sleeping", "probing", "decided"}
             \/ recorder.pc \in {"exited"} /\ recorder'.pc = recorder.pc
                /\ plan'.watched = plan.watched
      PROVE  Kept
  BY <1>1 DEF StatusFits, WaitsIfCurrent
<1>2. ASSUME NEW f \in Folder, NEW sessions \in SUBSET Session, TakeOver(f, sessions)
      PROVE  Kept
  BY <1>0, <1>1, <1>2 DEF TakeOver, RecorderState
<1>3. ASSUME NEW s \in Session, ReadPredecessor(s) \/ ReadLease(s) \/ LeaseUnreadable(s)
      PROVE  Kept
  <2>1. /\ recorder'.status = recorder.status /\ recorder'.current = recorder.current
        /\ \/ {recorder.pc, recorder'.pc} \subseteq {"reading", "receipt"}
           \/ {recorder.pc, recorder'.pc} \subseteq {"probing"}
    BY <1>0, <1>3 DEF ReadPredecessor, ReadLease, LeaseUnreadable, RecorderState
  <2> QED  BY <1>1, <2>1
<1>4. CASE Poll \/ \E step \in {"wait", "start", "cancel"} : Decide(step)
  <2>1. /\ recorder'.status = recorder.status /\ recorder'.current = recorder.current
        /\ {recorder.pc, recorder'.pc} \subseteq {"sleeping", "probing", "decided"}
    BY <1>0, <1>4 DEF Poll, Decide, RecorderState
  <2> QED  BY <1>1, <2>1
<1>5. CASE Arm
  <2>1. /\ recorder.pc = "receipt" /\ recorder.status = "idle"
        /\ plan'.watched = plan.watched
    BY <1>0, <1>5 DEF Arm, WriteReceipt, ReceiptFails, StatusFits, PlanState
  <2>2. \/ recorder' = [recorder EXCEPT !.pc = "sleeping", !.status = "pending",
                                        !.current = TRUE]
        \/ recorder' = [recorder EXCEPT !.pc = "exited", !.status = "failed"]
        \/ /\ recorder' = [recorder EXCEPT !.pc = "exited", !.status = "idle"]
           /\ plan.watched = {}
    BY <1>5 DEF Arm, Armed
  <2>3. CASE recorder' = [recorder EXCEPT !.pc = "sleeping", !.status = "pending",
                                         !.current = TRUE]
    <3>1. recorder'.pc = "sleeping" /\ recorder'.status = "pending"
      BY <1>0, <2>3 DEF RecorderState
    <3>2. recorder'.current
      BY <1>0, <2>3 DEF RecorderState
    <3> QED  BY <2>1, <3>1, <3>2 DEF StatusFits, WaitsIfCurrent
  <2>4. CASE \/ recorder' = [recorder EXCEPT !.pc = "exited", !.status = "failed"]
             \/ /\ recorder' = [recorder EXCEPT !.pc = "exited", !.status = "idle"]
                /\ plan.watched = {}
    <3>1. recorder'.pc = "exited"
          /\ (recorder'.status = "failed" \/ (recorder'.status = "idle" /\ plan.watched = {}))
      BY <1>0, <2>4 DEF RecorderState
    <3> QED  BY <2>1, <3>1 DEF StatusFits, WaitsIfCurrent
  <2> QED  BY <2>2, <2>3, <2>4
\* The thread acts only as long as its generation is the current one.
<1>6. CASE Wait \/ StartTakeover \/ StartRefused
  <2>1. recorder.current /\ recorder.pc = "decided"
    BY <1>6 DEF Wait, StartTakeover, StartRefused, Acts
  <2>2. \/ /\ recorder'.pc = "sleeping" /\ recorder'.status \in {"pending", "blocked"}
           /\ recorder'.current = recorder.current
        \/ recorder'.pc = "exited" /\ recorder'.status \in {"started", "failed"}
    BY <1>0, <1>6 DEF Wait, StartTakeover, StartRefused, Finish, RecorderState
  <2>3. recorder.status # "cancelled"
    BY <2>1 DEF WaitsIfCurrent
  <2> QED  BY <2>1, <2>2, <2>3 DEF StatusFits, WaitsIfCurrent
<1>7. CASE CancelItself
  <2>1. /\ recorder' = [recorder EXCEPT !.pc = "exited", !.status = "cancelled",
                                        !.current = FALSE]
    BY <1>7 DEF CancelItself, Finish
  <2>2. recorder'.pc = "exited" /\ recorder'.status = "cancelled"
    BY <1>0, <2>1 DEF RecorderState
  <2>3. ~recorder'.current
    BY <1>0, <2>1 DEF RecorderState
  <2> QED  BY <2>2, <2>3 DEF StatusFits, WaitsIfCurrent
<1>8. CASE CancelPending
  <2>1. /\ recorder' = [recorder EXCEPT !.status = "cancelled", !.current = FALSE]
        /\ recorder.status \in {"pending", "blocked"}
    BY <1>8 DEF CancelPending
  <2>2. recorder'.pc = recorder.pc /\ recorder'.status = "cancelled"
    BY <1>0, <2>1 DEF RecorderState
  <2>3. ~recorder'.current
    BY <1>0, <2>1 DEF RecorderState
  <2> QED  BY <2>1, <2>2, <2>3 DEF StatusFits, WaitsIfCurrent
<1>9. CASE FindsItselfCancelled
  <2>1. ~recorder.current /\ recorder.pc = "decided"
    BY <1>9 DEF FindsItselfCancelled
  <2>2. recorder.status \notin {"pending", "blocked", "idle"}
    BY <2>1 DEF WaitsIfCurrent, StatusFits
  <2>3. /\ recorder'.pc = "exited" /\ recorder'.status = recorder.status
        /\ recorder'.current = recorder.current
    BY <1>0, <1>9 DEF FindsItselfCancelled, RecorderState
  <2> QED  BY <2>2, <2>3 DEF StatusFits, WaitsIfCurrent
<1> QED  BY <1>2, <1>3, <1>4, <1>5, <1>6, <1>7, <1>8, <1>9 DEF RecorderStep

(* A takeover the operator cancelled stays cancelled: the thread compares  *)
(* its generation under the recorder lock before it acts on a decision, in *)
(* whatever poll the cancel found it.                                      *)
THEOREM CancelIsFinal == Spec => CancelledStaysCancelled
<1>1. Init => StatusFits /\ WaitsIfCurrent
  BY DEF Init, StatusFits, WaitsIfCurrent
<1>2. TypeOK /\ StatusFits /\ WaitsIfCurrent /\ [Next]_vars
        => StatusFits' /\ WaitsIfCurrent'
  BY StatusStep DEF Next, PrimaryOnly, takeoverVars, vars, StatusFits, WaitsIfCurrent
<1>3. TypeOK /\ StatusFits /\ WaitsIfCurrent /\ [Next]_vars
        => [recorder.status = "cancelled" => recorder'.status = "cancelled"]_vars
  BY StatusStep DEF Next, PrimaryOnly, takeoverVars, vars
<1> QED  BY <1>1, <1>2, <1>3, TypeCorrect, PTL DEF Spec, CancelledStaysCancelled

(* Never silent: a Take Over that reports nothing to continue found no     *)
(* lease that said "recording", readable or not.                           *)
THEOREM IdleMeansNoRival == Spec => []NeverSilent
<1>1. Init => StatusFits /\ WaitsIfCurrent
  BY DEF Init, StatusFits, WaitsIfCurrent
<1>2. TypeOK /\ StatusFits /\ WaitsIfCurrent /\ [Next]_vars
        => StatusFits' /\ WaitsIfCurrent'
  BY StatusStep DEF Next, PrimaryOnly, takeoverVars, vars, StatusFits, WaitsIfCurrent
<1>3. SettledInv /\ StatusFits => NeverSilent
  BY DEF SettledInv, PredecessorsWatched, NeverSilent, StatusFits
<1> QED  BY <1>1, <1>2, <1>3, SettledAlways, TypeCorrect, PTL DEF Spec

\* A recorder thread's step leaves the Primary alone but for a receipt.
LEMMA RecorderIsEnvironment ==
  ASSUME TypeOK, PlanAgrees, SupersedesSome, RecorderStep
  PROVE  ReceiptsOnly \/ UNCHANGED leaseVars
<1>1. UNCHANGED <<clock, sync, home, leases, fence, worker, take>>
  BY RecorderLeavesPrimary
<1>2. CASE UNCHANGED receipts
  BY <1>1, <1>2 DEF leaseVars
<1>3. CASE receipts' # receipts
  <2>1. (WriteReceipt \/ ReceiptFails) /\ recorder.pc # "standby"
    BY <1>3 DEF RecorderStep, TakeOver, ReadPredecessor, Arm, Poll, ReadLease,
       LeaseUnreadable, Decide, Acts, Wait, CancelItself, StartTakeover, StartRefused,
       CancelPending, FindsItselfCancelled
  <2>5. receipts' = receipts \cup {PlanReceipt}
    BY <1>3, <2>1 DEF WriteReceipt, ReceiptFails
  <2>2. plan.folder \in Folder /\ plan.superseded \in SUBSET Session
    BY <2>1 DEF TypeOK, PlanState
  <2>3. /\ plan.superseded # {}
        /\ \A s \in plan.superseded : home[s] = plan.folder
    BY <2>1 DEF SupersedesSome, PlanAgrees
  <2>4. ReceiptAppears(plan.folder, plan.superseded)
    BY <1>1, <2>3, <2>5 DEF ReceiptAppears, PlanReceipt
  <2> QED  BY <2>2, <2>4 DEF ReceiptsOnly
<1> QED  BY <1>2, <1>3

(* The other PC is one of the environments LeaseSpec allows: what is       *)
(* proved of the Primary alone holds beside a Take Over.                   *)
THEOREM TakeoverIsEnvironment == Spec => LeaseSpec
<1>1. Init => LeaseInit
  BY DEF Init
<1>2. TakeoverInv /\ SettledInv /\ [Next]_vars
        => [LeaseNext \/ ReceiptsOnly]_leaseVars
  BY RecorderIsEnvironment DEF TakeoverInv, SettledInv, Next, vars
<1> QED  BY <1>1, <1>2, SettledAlways, PTL DEF Spec, LeaseSpec, ReceiptsOnly
=============================================================================
