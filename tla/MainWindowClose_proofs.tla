---------------------- MODULE MainWindowClose_proofs ----------------------
(***************************************************************************)
(* Safety proofs for MainWindowClose: for either memory, with or without   *)
(* a worker that starts, and for any number of windows and quits, the      *)
(* process exits only after its outputs were stopped, and an exit that was *)
(* held back is requested again, or, where the memory delayed a store or   *)
(* no worker started, can still be asked for.                              *)
(*                                                                         *)
(* The atomics are reasoned about through Ended: some thread has stored    *)
(* that the shutdown is finished, whether or not others see it yet.  A     *)
(* store that becomes visible changes what is seen, never what was stored. *)
(***************************************************************************)
EXTENDS MainWindowClose, SequenceTheorems, TLAPS

----------------------------------------------------------------------------
(* The inductive invariant                                                 *)

\* The values of phase and exit_held that a thread has stored.
Value == {"held", "finished"}

EventTyped ==
    /\ event \in [pc : EventPc, cause : Cause]
    /\ event.pc = "idle" => event.cause = "exit"
    /\ event.pc = "begin" => event.cause \in {"exit", "destroyed"}
    /\ event.pc = "spawn" => event.cause \in {"begun exit", "destroyed"}
    /\ event.pc = "boundary" => event.cause = "exit"
    /\ event.pc \in {"hold", "store", "recheck"} => event.cause # "destroyed"

SharedTyped ==
    /\ memory \in Memory
    /\ phase \in {"idle", "running", "finished"}
    /\ stores \in [Thread -> Seq(Value)]
    /\ worker \in WorkerPc

CountsTyped ==
    /\ panes \in 0 .. MaxPanes
    /\ requests \in Nat
    /\ quits \in 0 .. MaxQuits

FlagsTyped ==
    /\ exitHeld \in BOOLEAN /\ mainOpen \in BOOLEAN
    /\ heldBack \in BOOLEAN /\ exited \in BOOLEAN /\ blocked \in BOOLEAN

\* The shutdown was finished by a thread, whoever can see it.
Ended ==
    phase = "finished" \/ \E t \in Thread : Contains(stores[t], "finished")

\* The event loop began the shutdown and has not started its worker.
Beginning == event.pc = "spawn" \/ event.cause = "begun exit"

\* There is no worker before the shutdown is begun, and nobody finishes it
\* before Standby was tried or the worker could not be started.
OneShutdown ==
    /\ phase = "idle" => worker = "none" /\ ~Ended
    /\ Beginning => phase = "running" /\ worker = "none" /\ ~Ended
    /\ worker \in {"standby", "finish"} => phase = "running" /\ ~Ended
    /\ worker = "none" => phase = "idle" \/ Beginning
    /\ worker \in {"load", "windows", "request", "over"} =>
          PhaseSeenBy("worker") = "finished"

\* An exit that looks at a shutdown for the second time met one that was begun,
\* and one that may end the process met one that was finished.
LateExits ==
    /\ event.cause \in {"late exit", "late destroyed"} => phase # "idle"
    /\ event.pc = "boundary" => worker \notin {"none", "standby", "finish"}

\* On a strong memory an exit held back is announced before it is held, and the
\* worker that has not read the announcement is still to read it.
HeldIsAnnounced ==
    memory = "strong" =>
        /\ \A t \in Thread : stores[t] = <<>>
        /\ \/ heldBack
           \/ event.pc = "recheck"
           \/ event.pc = "spawn" /\ event.cause = "begun exit"
           => exitHeld
        /\ heldBack => worker \notin {"none", "windows", "over"}

\* Where nobody is left to request an exit again, everybody sees that the
\* shutdown is finished, and a window or another exit is left.
StaysAskable ==
    /\ phase = "idle" => mainOpen \/ (event.pc = "begin" /\ event.cause = "destroyed")
    /\ event.cause = "begun exit" => mainOpen
    /\ worker \in {"over", "failed"} => PhaseSeenBy("event loop") = "finished"
    /\ heldBack => worker # "none"
    /\ heldBack /\ worker \in {"over", "failed"} => AskedAgain

\* The inductive invariant.
Sound ==
    /\ EventTyped
    /\ SharedTyped
    /\ CountsTyped
    /\ FlagsTyped
    /\ OneShutdown
    /\ LateExits
    /\ HeldIsAnnounced
    /\ StaysAskable
    /\ ExitFollowsStandby

----------------------------------------------------------------------------
(* Sequences of stores                                                     *)

\* No store is pending in an empty sequence.
LEMMA NothingPending == \A x : ~Contains(<<>>, x)
BY DEF Contains

\* A store joins those that are pending.
LEMMA AppendContains ==
    ASSUME NEW s \in Seq(Value), NEW x \in Value
    PROVE  /\ Append(s, x) \in Seq(Value)
           /\ \A e : Contains(Append(s, x), e) <=> Contains(s, e) \/ x = e
<1>1. /\ Append(s, x) \in Seq(Value) /\ Len(Append(s, x)) = Len(s) + 1
      /\ \A i \in 1 .. Len(s) : Append(s, x)[i] = s[i]
      /\ Append(s, x)[Len(s) + 1] = x
  BY AppendProperties
<1>2. Len(s) \in Nat
  BY LenProperties
<1>3. ASSUME NEW e, Contains(Append(s, x), e) PROVE Contains(s, e) \/ x = e
  <2>1. PICK i \in 1 .. Len(s) + 1 : Append(s, x)[i] = e
    BY <1>1, <1>3 DEF Contains
  <2>2. i \in 1 .. Len(s) \/ i = Len(s) + 1
    BY <1>2
  <2> QED
    BY <1>1, <2>1, <2>2 DEF Contains
<1>4. ASSUME NEW e, Contains(s, e) PROVE Contains(Append(s, x), e)
  <2>1. PICK i \in 1 .. Len(s) : s[i] = e
    BY <1>4 DEF Contains
  <2>2. i \in 1 .. Len(Append(s, x)) /\ Append(s, x)[i] = e
    BY <1>1, <1>2, <2>1
  <2> QED
    BY <2>2 DEF Contains
<1>5. Contains(Append(s, x), x)
  BY <1>1, <1>2 DEF Contains
<1> QED
  BY <1>1, <1>3, <1>4, <1>5

\* The oldest store leaves, the others stay pending.
LEMMA TailContains ==
    ASSUME NEW s \in Seq(Value), s # <<>>
    PROVE  /\ Tail(s) \in Seq(Value) /\ Head(s) \in Value
           /\ \A e : Contains(s, e) <=> Head(s) = e \/ Contains(Tail(s), e)
<1>1. /\ Tail(s) \in Seq(Value) /\ Head(s) \in Value
      /\ Len(Tail(s)) = Len(s) - 1
      /\ \A i \in 1 .. Len(Tail(s)) : Tail(s)[i] = s[i + 1]
      /\ Head(s) = s[1]
  BY HeadTailProperties
<1>2. Len(s) \in Nat /\ Len(s) > 0
  BY LenProperties, EmptySeq
<1>3. ASSUME NEW e, Contains(s, e) PROVE Head(s) = e \/ Contains(Tail(s), e)
  <2>1. PICK i \in 1 .. Len(s) : s[i] = e
    BY <1>3 DEF Contains
  <2>2. CASE i = 1
    BY <1>1, <2>1, <2>2
  <2>3. CASE i # 1
    <3>1. i - 1 \in 1 .. Len(Tail(s)) /\ (i - 1) + 1 = i
      BY <1>1, <1>2, <2>3
    <3>2. Tail(s)[i - 1] = e
      BY <1>1, <2>1, <3>1
    <3> QED
      BY <3>1, <3>2 DEF Contains
  <2> QED
    BY <2>2, <2>3
<1>4. ASSUME NEW e, Contains(Tail(s), e) PROVE Contains(s, e)
  <2>1. PICK i \in 1 .. Len(Tail(s)) : Tail(s)[i] = e
    BY <1>4 DEF Contains
  <2>2. i + 1 \in 1 .. Len(s)
    BY <1>1, <1>2
  <2> QED
    BY <1>1, <2>1, <2>2 DEF Contains
<1>5. Contains(s, Head(s))
  BY <1>1, <1>2 DEF Contains
<1> QED
  BY <1>1, <1>3, <1>4, <1>5

\* What a store changes, whether it is visible at once or later.
LEMMA StoreEffect ==
    ASSUME SharedTyped, NEW t \in Thread, NEW x \in Value, Store(t, x)
    PROVE  /\ memory' = memory
           /\ phase' \in {"idle", "running", "finished"}
           /\ phase # "idle" => phase' # "idle"
           /\ x = "held" => phase' = phase
           /\ x = "finished" => phase' \in {phase, "finished"}
           /\ stores' \in [Thread -> Seq(Value)]
           /\ memory = "strong" => stores' = stores
           /\ memory = "strong" => exitHeld' = (exitHeld \/ x = "held")
           /\ Ended' <=> Ended \/ x = "finished"
           /\ \A u \in Thread :
                 /\ PhaseSeenBy(u) = "finished" => PhaseSeenBy(u)' = "finished"
                 /\ u = t /\ x = "finished" => PhaseSeenBy(u)' = "finished"
<1> USE DEF SharedTyped
<1>1. CASE memory = "weak"
  <2>1. /\ stores' = [stores EXCEPT ![t] = Append(stores[t], x)]
        /\ UNCHANGED <<memory, phase, exitHeld>>
    BY <1>1 DEF Store
  <2>2. /\ stores' \in [Thread -> Seq(Value)]
        /\ \A u \in Thread, e \in Value :
              Contains(stores'[u], e) <=> Contains(stores[u], e) \/ (u = t /\ x = e)
    BY <2>1, AppendContains
  <2> QED
    BY <1>1, <2>1, <2>2 DEF Ended, PhaseSeenBy, Value
<1>2. CASE memory # "weak"
  <2>1. /\ phase' = IF x = "finished" THEN "finished" ELSE phase
        /\ exitHeld' = (exitHeld \/ x = "held")
        /\ UNCHANGED <<memory, stores>>
    BY <1>2 DEF Store
  <2> QED
    BY <1>2, <2>1 DEF Ended, PhaseSeenBy, Value
<1> QED
  BY <1>1, <1>2

\* A store that becomes visible was stored before.
LEMMA VisibleEffect ==
    ASSUME SharedTyped, NEW t \in Thread, BecomesVisible(t)
    PROVE  /\ stores[t] # <<>>
           /\ phase' \in {phase, "finished"}
           /\ ~Ended => phase' = phase
           /\ stores' \in [Thread -> Seq(Value)]
           /\ Ended' <=> Ended
           /\ \A u \in Thread :
                 PhaseSeenBy(u) = "finished" => PhaseSeenBy(u)' = "finished"
<1> USE DEF SharedTyped
<1>1. /\ stores[t] # <<>> /\ stores[t] \in Seq(Value)
      /\ stores' = [stores EXCEPT ![t] = Tail(stores[t])]
      /\ phase' = IF Head(stores[t]) = "finished" THEN "finished" ELSE phase
  BY DEF BecomesVisible
<1>2. /\ Tail(stores[t]) \in Seq(Value)
      /\ \A e : Contains(stores[t], e) <=>
                   Head(stores[t]) = e \/ Contains(Tail(stores[t]), e)
  BY <1>1, TailContains
<1>3. /\ stores' \in [Thread -> Seq(Value)]
      /\ stores'[t] = Tail(stores[t])
      /\ \A u \in Thread : u # t => stores'[u] = stores[u]
  BY <1>1, <1>2
<1> QED
  BY <1>1, <1>2, <1>3 DEF Ended, PhaseSeenBy

\* Where the event loop goes on when an exit was not held.
LEMMA PassedEffect ==
    ASSUME EventTyped, event.pc \in {"hold", "recheck"}, Passed
    PROVE  /\ EventTyped'
           /\ event'.pc \in {"begin", "boundary", "spawn", "idle"}
           /\ event'.pc = "boundary" => event.cause = "late exit"
           /\ event'.pc = "spawn" => event.cause = "begun exit"
           /\ event'.cause \in {"exit", "begun exit"}
           /\ event'.cause = "begun exit" <=> event.cause = "begun exit"
           /\ event.cause \in {"exit", "late exit"} =>
                 event'.pc # "idle" /\ event'.cause = "exit"
<1> USE DEF EventTyped, EventPc, Cause
<1>1. event.cause \in {"exit", "late exit", "begun exit", "late destroyed"}
  OBVIOUS
<1>2. CASE event.cause = "exit"
  <2>1. event' = [pc |-> "begin", cause |-> "exit"]
    BY <1>2 DEF Passed
  <2> QED
    BY <1>2, <2>1
<1>3. CASE event.cause = "late exit"
  <2>1. event' = [pc |-> "boundary", cause |-> "exit"]
    BY <1>3 DEF Passed
  <2> QED
    BY <1>3, <2>1
<1>4. CASE event.cause = "begun exit"
  <2>1. event' = [pc |-> "spawn", cause |-> "begun exit"]
    BY <1>4 DEF Passed
  <2> QED
    BY <1>4, <2>1
<1>5. CASE event.cause = "late destroyed"
  <2>1. event' = [pc |-> "idle", cause |-> "exit"]
    BY <1>5 DEF Passed
  <2> QED
    BY <1>5, <2>1
<1> QED
  BY <1>1, <1>2, <1>3, <1>4, <1>5

\* The first look at the phase.
LEMMA HoldExitEffect ==
    ASSUME EventTyped, HoldExit
    PROVE  /\ EventTyped'
           /\ \/ /\ PhaseSeenBy("event loop") = "running"
                 /\ event'.pc = "store" /\ event'.cause = event.cause
              \/ /\ PhaseSeenBy("event loop") # "running"
                 /\ event'.pc \in {"begin", "boundary", "spawn", "idle"}
                 /\ event'.pc = "boundary" => event.cause = "late exit"
                 /\ event'.cause \in {"exit", "begun exit"}
                 /\ event'.pc = "spawn" \/ event'.cause = "begun exit"
                       => event.cause = "begun exit"
           /\ event'.cause = "begun exit" => event.cause = "begun exit"
           /\ event.cause \in {"exit", "late exit"} =>
                 event'.pc # "idle" /\ event'.cause \in {"exit", "late exit"}
<1>1. CASE PhaseSeenBy("event loop") = "running"
  <2>1. event.pc = "hold" /\ event' = [pc |-> "store", cause |-> event.cause]
    BY <1>1 DEF HoldExit, Go
  <2> QED
    BY <1>1, <2>1 DEF EventTyped, EventPc
<1>2. CASE PhaseSeenBy("event loop") # "running"
  BY <1>2, PassedEffect DEF HoldExit
<1> QED
  BY <1>1, <1>2

\* Where it goes on when the exit is held.
LEMMA HeldEffect ==
    ASSUME EventTyped, event.pc = "recheck", Held
    PROVE  /\ EventTyped'
           /\ event'.pc \in {"spawn", "idle"}
           /\ event'.pc = "spawn" => event.cause = "begun exit"
           /\ event'.cause \in {"exit", "begun exit"}
           /\ event'.cause = "begun exit" <=> event.cause = "begun exit"
           /\ heldBack' => heldBack \/ event.cause \in {"exit", "late exit"}
<1> USE DEF EventTyped, EventPc, Cause
<1>1. CASE event.cause = "begun exit"
  <2>1. event' = [pc |-> "spawn", cause |-> "begun exit"]
    BY <1>1 DEF Held, Go
  <2> QED
    BY <1>1, <2>1 DEF Held
<1>2. CASE event.cause # "begun exit"
  <2>1. event' = [pc |-> "idle", cause |-> "exit"]
    BY <1>2 DEF Held, Go
  <2> QED
    BY <1>2, <2>1 DEF Held
<1> QED
  BY <1>1, <1>2

\* The step that may begin the shutdown.
LEMMA BeginEffect ==
    ASSUME EventTyped, Begin
    PROVE  /\ EventTyped'
           /\ stores["event loop"] = <<>>
           /\ phase = "idle" =>
                 /\ phase' = "running"
                 /\ event'.pc \in {"hold", "spawn"}
                 /\ event'.cause \in {"begun exit", "destroyed"}
                 /\ event'.pc = "spawn" => event'.cause = "destroyed"
                 /\ event'.pc = "hold" => event'.cause = "begun exit"
                 /\ event'.cause = "begun exit" => event.cause = "exit"
           /\ phase # "idle" =>
                 /\ phase' = phase
                 /\ event'.pc = "hold"
                 /\ event'.cause \in {"late exit", "late destroyed"}
                 /\ event.cause = "exit" => event'.cause = "late exit"
           /\ Ended' <=> Ended
           /\ UNCHANGED <<memory, exitHeld, stores, worker, heldBack>>
<1> USE DEF EventTyped, EventPc, Cause
<1>1. /\ event.pc = "begin" /\ stores["event loop"] = <<>>
      /\ UNCHANGED <<memory, exitHeld, stores, worker, heldBack>>
  BY DEF Begin, Fenced
<1>2. CASE phase = "idle" /\ event.cause = "exit"
  <2>1. phase' = "running" /\ event' = [pc |-> "hold", cause |-> "begun exit"]
    BY <1>2 DEF Begin, Go
  <2> QED
    BY <1>1, <1>2, <2>1 DEF Ended
<1>3. CASE phase = "idle" /\ event.cause # "exit"
  <2>1. phase' = "running" /\ event' = [pc |-> "spawn", cause |-> "destroyed"]
    BY <1>3 DEF Begin, Go
  <2> QED
    BY <1>1, <1>3, <2>1 DEF Ended
<1>4. CASE phase # "idle" /\ event.cause = "exit"
  <2>1. phase' = phase /\ event' = [pc |-> "hold", cause |-> "late exit"]
    BY <1>4 DEF Begin, Go
  <2> QED
    BY <1>1, <1>4, <2>1 DEF Ended
<1>5. CASE phase # "idle" /\ event.cause # "exit"
  <2>1. phase' = phase /\ event' = [pc |-> "hold", cause |-> "late destroyed"]
    BY <1>5 DEF Begin, Go
  <2> QED
    BY <1>1, <1>5, <2>1 DEF Ended
<1> QED
  BY <1>2, <1>3, <1>4, <1>5

----------------------------------------------------------------------------
(* The steps                                                               *)

\* What the event loop is doing fits the event it does it for.
LEMMA EventStaysTyped ==
    ASSUME EventTyped, [Next]_vars
    PROVE  EventTyped'
<1> USE DEF EventTyped, EventPc, Cause, shutdown, windows, ending
<1>1. CASE DestroyPane \/ Quit \/ StandbyEnds \/ FinishStore \/ FinishLoad
          \/ NoWindowRemains \/ RequestExit
          \/ (\E t \in Thread : BecomesVisible(t)) \/ UNCHANGED vars
  BY <1>1 DEF DestroyPane, Quit, StandbyEnds, FinishStore, FinishLoad,
         NoWindowRemains, RequestExit, BecomesVisible, vars
<1>2. CASE DestroyMain
  BY <1>2 DEF DestroyMain, Idle, Go
<1>3. CASE ExitRequested
  BY <1>3 DEF ExitRequested, Idle, Go
<1>4. CASE HoldExit
  BY <1>4, HoldExitEffect DEF HoldExit
<1>5. CASE HoldStore
  BY <1>5 DEF HoldStore, Go
<1>6. CASE HoldRecheck
  BY <1>6, PassedEffect, HeldEffect DEF HoldRecheck
<1>7. CASE Begin
  BY <1>7, BeginEffect DEF Begin
<1>8. CASE Spawn
  BY <1>8 DEF Spawn, ReturnTrue, Go
<1>9. CASE SpawnFails
  BY <1>9 DEF SpawnFails, ReturnTrue, Go
<1>10. CASE Boundary
  BY <1>10 DEF Boundary, Go
<1> QED
  BY <1>1, <1>2, <1>3, <1>4, <1>5, <1>6, <1>7, <1>8, <1>9, <1>10 DEF Next,
         EventStep, WorkerStep

\* The atomics, the pending stores and the worker keep their types.
LEMMA SharedStaysTyped ==
    ASSUME SharedTyped, [Next]_vars
    PROVE  SharedTyped'
<1> USE DEF SharedTyped, WorkerPc, shutdown, windows, ending
<1>1. CASE DestroyMain \/ DestroyPane \/ Quit \/ ExitRequested \/ HoldExit
          \/ HoldRecheck \/ Boundary \/ UNCHANGED vars
  BY <1>1 DEF DestroyMain, DestroyPane, Quit, ExitRequested, HoldExit,
         HoldRecheck, Boundary, vars
<1>2. CASE HoldStore
  BY <1>2, StoreEffect DEF HoldStore, Go, Thread, Value
<1>3. CASE Begin
  BY <1>3, BeginEffect DEF Begin
<1>4. CASE Spawn
  BY <1>4 DEF Spawn, ReturnTrue, Go
<1>5. CASE SpawnFails
  BY <1>5, StoreEffect DEF SpawnFails, ReturnTrue, Go, Thread, Value
<1>6. CASE StandbyEnds
  BY <1>6 DEF StandbyEnds
<1>7. CASE FinishStore
  BY <1>7, StoreEffect DEF FinishStore, Thread, Value
<1>8. CASE FinishLoad
  BY <1>8 DEF FinishLoad
<1>9. CASE NoWindowRemains
  BY <1>9 DEF NoWindowRemains
<1>10. CASE RequestExit
  BY <1>10 DEF RequestExit
<1>11. ASSUME NEW t \in Thread, BecomesVisible(t) PROVE SharedTyped'
  BY <1>11, VisibleEffect DEF BecomesVisible
<1> QED
  BY <1>1, <1>2, <1>3, <1>4, <1>5, <1>6, <1>7, <1>8, <1>9, <1>10,
         <1>11 DEF Next, EventStep, WorkerStep

\* The windows and quits stay within their bounds.
LEMMA CountsStayTyped ==
    ASSUME CountsTyped, [Next]_vars
    PROVE  CountsTyped'
<1> USE CloseConstants DEF CountsTyped, shutdown, windows, ending
<1>1. CASE HoldExit \/ HoldStore \/ HoldRecheck \/ Begin \/ Spawn
          \/ SpawnFails \/ Boundary \/ StandbyEnds \/ FinishStore
          \/ FinishLoad \/ NoWindowRemains
          \/ (\E t \in Thread : BecomesVisible(t)) \/ UNCHANGED vars
  BY <1>1 DEF HoldExit, HoldStore, HoldRecheck, Begin, Spawn, SpawnFails,
         Boundary, StandbyEnds, FinishStore, FinishLoad, NoWindowRemains,
         BecomesVisible, vars
<1>2. CASE DestroyMain
  BY <1>2 DEF DestroyMain, Idle, Go
<1>3. CASE DestroyPane
  BY <1>3 DEF DestroyPane, Idle
<1>4. CASE Quit
  BY <1>4 DEF Quit
<1>5. CASE ExitRequested
  BY <1>5 DEF ExitRequested, Idle, Go
<1>6. CASE RequestExit
  BY <1>6 DEF RequestExit
<1> QED
  BY <1>1, <1>2, <1>3, <1>4, <1>5, <1>6 DEF Next, EventStep, WorkerStep

\* The flags are Booleans.
LEMMA FlagsStayTyped ==
    ASSUME FlagsTyped, [Next]_vars
    PROVE  FlagsTyped'
<1> USE DEF FlagsTyped, shutdown, windows, ending
<1>1. CASE DestroyPane \/ Quit \/ ExitRequested \/ HoldExit \/ Begin
          \/ StandbyEnds \/ FinishLoad \/ NoWindowRemains \/ UNCHANGED vars
  BY <1>1 DEF DestroyPane, Quit, ExitRequested, HoldExit, Begin, StandbyEnds,
         FinishLoad, NoWindowRemains, vars
<1>2. CASE DestroyMain
  BY <1>2 DEF DestroyMain, Idle, Go
<1>3. CASE HoldStore
  BY <1>3 DEF HoldStore, Go, Store
<1>4. CASE HoldRecheck
  BY <1>4 DEF HoldRecheck, Held, Go, Passed
<1>5. CASE Spawn
  BY <1>5 DEF Spawn, ReturnTrue, Go
<1>6. CASE SpawnFails
  BY <1>6 DEF SpawnFails, ReturnTrue, Go, Store
<1>7. CASE Boundary
  BY <1>7 DEF Boundary, Go
<1>8. CASE FinishStore
  BY <1>8 DEF FinishStore, Store
<1>9. CASE RequestExit
  BY <1>9 DEF RequestExit
<1>10. ASSUME NEW t \in Thread, BecomesVisible(t) PROVE FlagsTyped'
  BY <1>10 DEF BecomesVisible
<1> QED
  BY <1>1, <1>2, <1>3, <1>4, <1>5, <1>6, <1>7, <1>8, <1>9, <1>10 DEF Next,
         EventStep, WorkerStep

\* The shutdown is begun once, by the event loop, and finished once.
LEMMA OneShutdownStays ==
    ASSUME EventTyped, SharedTyped, OneShutdown, [Next]_vars
    PROVE  OneShutdown'
<1> USE DEF OneShutdown, EventTyped, SharedTyped, Beginning, Thread, Value,
       shutdown, windows, ending
<1>1. CASE DestroyPane \/ Quit \/ UNCHANGED vars
  BY <1>1 DEF DestroyPane, Quit, vars, Ended, PhaseSeenBy
<1>2. CASE DestroyMain
  BY <1>2 DEF DestroyMain, Idle, Go, Ended, PhaseSeenBy
<1>3. CASE ExitRequested
  BY <1>3 DEF ExitRequested, Idle, Go, Ended, PhaseSeenBy
<1>4. CASE HoldExit
  BY <1>4, HoldExitEffect DEF HoldExit, Ended, PhaseSeenBy
<1>5. CASE HoldStore
  BY <1>5, StoreEffect DEF HoldStore, Go
<1>6. CASE HoldRecheck
  BY <1>6, PassedEffect, HeldEffect DEF HoldRecheck, Ended, PhaseSeenBy
<1>7. CASE Begin
  BY <1>7, BeginEffect DEF Begin, PhaseSeenBy
<1>8. CASE Spawn
  BY <1>8 DEF Spawn, ReturnTrue, Go, Ended, PhaseSeenBy
<1>9. CASE SpawnFails
  BY <1>9, StoreEffect DEF SpawnFails, ReturnTrue, Go
<1>10. CASE Boundary
  BY <1>10 DEF Boundary, Go, Ended, PhaseSeenBy
<1>11. CASE StandbyEnds
  BY <1>11 DEF StandbyEnds, Ended, PhaseSeenBy
<1>12. CASE FinishStore
  BY <1>12, StoreEffect DEF FinishStore
<1>13. CASE FinishLoad
  BY <1>13 DEF FinishLoad, Ended, PhaseSeenBy
<1>14. CASE NoWindowRemains
  BY <1>14 DEF NoWindowRemains, Ended, PhaseSeenBy
<1>15. CASE RequestExit
  BY <1>15 DEF RequestExit, Ended, PhaseSeenBy
<1>16. ASSUME NEW t \in Thread, BecomesVisible(t) PROVE OneShutdown'
  BY <1>16, VisibleEffect DEF BecomesVisible
<1> QED
  BY <1>1, <1>2, <1>3, <1>4, <1>5, <1>6, <1>7, <1>8, <1>9, <1>10, <1>11,
         <1>12, <1>13, <1>14, <1>15, <1>16 DEF Next, EventStep, WorkerStep

\* An exit ends the process only when it met the end of the shutdown.
LEMMA LateExitsStay ==
    ASSUME EventTyped, SharedTyped, OneShutdown, LateExits, [Next]_vars
    PROVE  LateExits'
<1> USE DEF LateExits, EventTyped, SharedTyped, OneShutdown, Beginning,
       Thread, Value, shutdown, windows, ending
<1>1. CASE DestroyPane \/ Quit \/ UNCHANGED vars
  BY <1>1 DEF DestroyPane, Quit, vars
<1>2. CASE DestroyMain
  BY <1>2 DEF DestroyMain, Idle, Go
<1>3. CASE ExitRequested
  BY <1>3 DEF ExitRequested, Idle, Go
<1>4. CASE HoldExit
  BY <1>4, HoldExitEffect DEF HoldExit, PhaseSeenBy, Ended
<1>5. CASE HoldStore
  BY <1>5, StoreEffect DEF HoldStore, Go
<1>6. CASE HoldRecheck
  BY <1>6, PassedEffect, HeldEffect DEF HoldRecheck, PhaseSeenBy, Ended
<1>7. CASE Begin
  BY <1>7, BeginEffect DEF Begin
<1>8. CASE Spawn
  BY <1>8 DEF Spawn, ReturnTrue, Go
<1>9. CASE SpawnFails
  BY <1>9, StoreEffect DEF SpawnFails, ReturnTrue, Go
<1>10. CASE Boundary
  BY <1>10 DEF Boundary, Go
<1>11. CASE StandbyEnds
  BY <1>11 DEF StandbyEnds
<1>12. CASE FinishStore
  BY <1>12, StoreEffect DEF FinishStore
<1>13. CASE FinishLoad
  BY <1>13 DEF FinishLoad
<1>14. CASE NoWindowRemains
  BY <1>14 DEF NoWindowRemains
<1>15. CASE RequestExit
  BY <1>15 DEF RequestExit
<1>16. ASSUME NEW t \in Thread, BecomesVisible(t) PROVE LateExits'
  BY <1>16, VisibleEffect DEF BecomesVisible
<1> QED
  BY <1>1, <1>2, <1>3, <1>4, <1>5, <1>6, <1>7, <1>8, <1>9, <1>10, <1>11,
         <1>12, <1>13, <1>14, <1>15, <1>16 DEF Next, EventStep, WorkerStep

\* An exit is announced before it is held back, and read after Standby.
LEMMA HeldStaysAnnounced ==
    ASSUME EventTyped, SharedTyped, FlagsTyped, OneShutdown, HeldIsAnnounced,
           [Next]_vars
    PROVE  HeldIsAnnounced'
<1> USE NothingPending DEF HeldIsAnnounced, EventTyped, SharedTyped,
       OneShutdown, Beginning, Thread, Value, shutdown, windows, ending
<1>1. CASE DestroyPane \/ Quit \/ UNCHANGED vars
  BY <1>1 DEF DestroyPane, Quit, vars
<1>2. CASE DestroyMain
  BY <1>2 DEF DestroyMain, Idle, Go
<1>3. CASE ExitRequested
  BY <1>3 DEF ExitRequested, Idle, Go
<1>4. CASE HoldExit
  BY <1>4, HoldExitEffect DEF HoldExit, PhaseSeenBy, Ended, HeldSeenBy
<1>5. CASE HoldStore
  BY <1>5, StoreEffect DEF HoldStore, Go
<1>6. CASE HoldRecheck
  BY <1>6, PassedEffect, HeldEffect DEF HoldRecheck, PhaseSeenBy, Ended,
         HeldSeenBy
<1>7. CASE Begin
  BY <1>7, BeginEffect DEF Begin
<1>8. CASE Spawn
  BY <1>8 DEF Spawn, ReturnTrue, Go, PhaseSeenBy, Ended, HeldSeenBy
<1>9. CASE SpawnFails
  BY <1>9, StoreEffect DEF SpawnFails, ReturnTrue, Go
<1>10. CASE Boundary
  BY <1>10 DEF Boundary, Go
<1>11. CASE StandbyEnds
  BY <1>11 DEF StandbyEnds
<1>12. CASE FinishStore
  BY <1>12, StoreEffect DEF FinishStore
<1>13. CASE FinishLoad
  BY <1>13 DEF FinishLoad, PhaseSeenBy, Ended, HeldSeenBy
<1>14. CASE NoWindowRemains
  BY <1>14 DEF NoWindowRemains
<1>15. CASE RequestExit
  BY <1>15 DEF RequestExit
<1>16. ASSUME NEW t \in Thread, BecomesVisible(t) PROVE HeldIsAnnounced'
  BY <1>16, VisibleEffect DEF BecomesVisible
<1> QED
  BY <1>1, <1>2, <1>3, <1>4, <1>5, <1>6, <1>7, <1>8, <1>9, <1>10, <1>11,
         <1>12, <1>13, <1>14, <1>15, <1>16 DEF Next, EventStep, WorkerStep

\* The last window that closes asks for an exit.
LEMMA LastWindowAsks ==
    ASSUME CountsTyped, DestroyMain \/ DestroyPane \/ Quit \/ UNCHANGED vars
    PROVE  AskedAgain \/ DestroyMain => AskedAgain'
<1> USE DEF shutdown, windows, ending
<1>1. panes \in Nat /\ requests \in Nat
  BY CloseConstants DEF CountsTyped
<1>2. CASE DestroyMain
  <2>1. panes' = panes /\ (panes = 0 => requests' = requests + 1)
    BY <1>2 DEF DestroyMain
  <2>2. panes' > 0 \/ requests' > 0
    BY <1>1, <2>1
  <2> QED
    BY <2>2, Zenon DEF AskedAgain
<1>3. CASE DestroyPane
  <2>1. CASE panes = 1 /\ ~mainOpen
    <3>1. requests' = requests + 1
      BY <1>3, <2>1, Zenon DEF DestroyPane
    <3>2. requests' > 0
      BY <1>1, <3>1
    <3> QED
      BY <3>2, Zenon DEF AskedAgain
  <2>2. CASE mainOpen
    BY <1>3, <2>2, Zenon DEF DestroyPane, AskedAgain
  <2>3. CASE panes # 1
    <3>1. panes > 0 /\ panes' = panes - 1
      BY <1>3, Zenon DEF DestroyPane
    <3>2. panes' > 0
      BY <1>1, <2>3, <3>1
    <3> QED
      BY <3>2, Zenon DEF AskedAgain
  <2> QED
    BY <2>1, <2>2, <2>3, Zenon
<1>4. CASE Quit
  <2>1. requests' = requests + 1
    BY <1>4 DEF Quit
  <2>2. requests' > 0
    BY <1>1, <2>1
  <2> QED
    BY <2>2, Zenon DEF AskedAgain
<1>5. CASE UNCHANGED vars /\ ~DestroyMain
  BY <1>5 DEF vars, AskedAgain
<1> QED
  BY <1>2, <1>3, <1>4, <1>5

\* An exit that nobody will request again leaves a window or another exit.
LEMMA StaysAskableStep ==
    ASSUME EventTyped, SharedTyped, CountsTyped, FlagsTyped, OneShutdown,
           StaysAskable, [Next]_vars
    PROVE  StaysAskable'
<1> USE DEF StaysAskable, AskedAgain, EventTyped, SharedTyped, CountsTyped,
       OneShutdown, Beginning, Thread, Value, shutdown, windows, ending
<1>1. CASE DestroyPane \/ Quit \/ UNCHANGED vars
  <2>1. UNCHANGED <<phase, stores, event, worker, mainOpen, heldBack>>
    BY <1>1 DEF DestroyPane, Quit, vars
  <2>2. AskedAgain => AskedAgain'
    BY <1>1, LastWindowAsks
  <2> HIDE DEF AskedAgain
  <2> QED
    BY <2>1, <2>2 DEF PhaseSeenBy
<1>2. CASE DestroyMain
  <2>1. /\ UNCHANGED <<phase, stores, worker, heldBack>>
        /\ event' = [pc |-> "begin", cause |-> "destroyed"]
    BY <1>2 DEF DestroyMain, Go
  <2>2. AskedAgain'
    BY <1>2, LastWindowAsks
  <2> HIDE DEF AskedAgain
  <2> QED
    BY <2>1, <2>2 DEF PhaseSeenBy
<1>3. CASE ExitRequested
  BY <1>3 DEF ExitRequested, Idle, Go, PhaseSeenBy
<1>4. CASE HoldExit
  BY <1>4, HoldExitEffect DEF HoldExit, PhaseSeenBy
<1>5. CASE HoldStore
  BY <1>5, StoreEffect DEF HoldStore, Go
<1>6. CASE HoldRecheck
  BY <1>6, PassedEffect, HeldEffect DEF HoldRecheck, PhaseSeenBy, Ended
<1>7. CASE Begin
  BY <1>7, BeginEffect DEF Begin, PhaseSeenBy
<1>8. CASE Spawn
  BY <1>8 DEF Spawn, ReturnTrue, Go, PhaseSeenBy
<1>9. CASE SpawnFails
  BY <1>9, StoreEffect DEF SpawnFails, ReturnTrue, Go
<1>10. CASE Boundary
  BY <1>10 DEF Boundary, Go, PhaseSeenBy
<1>11. CASE StandbyEnds \/ FinishLoad
  BY <1>11 DEF StandbyEnds, FinishLoad, PhaseSeenBy
<1>12. CASE FinishStore
  BY <1>12, StoreEffect DEF FinishStore
<1>13. CASE NoWindowRemains \/ RequestExit
  BY <1>13, NothingPending DEF NoWindowRemains, RequestExit, Fenced, PhaseSeenBy
<1>14. ASSUME NEW t \in Thread, BecomesVisible(t) PROVE StaysAskable'
  BY <1>14, VisibleEffect DEF BecomesVisible
<1> QED
  BY <1>1, <1>2, <1>3, <1>4, <1>5, <1>6, <1>7, <1>8, <1>9, <1>10, <1>11,
         <1>12, <1>13, <1>14 DEF Next, EventStep, WorkerStep

\* The boundary that ends the process follows the end of the shutdown.
LEMMA ExitStaysLast ==
    ASSUME LateExits, ExitFollowsStandby, [Next]_vars
    PROVE  ExitFollowsStandby'
<1> USE DEF ExitFollowsStandby, LateExits, shutdown, windows, ending
<1>1. CASE DestroyMain \/ DestroyPane \/ Quit \/ ExitRequested \/ HoldExit
          \/ HoldStore \/ HoldRecheck \/ Begin
          \/ (\E t \in Thread : BecomesVisible(t)) \/ UNCHANGED vars
  BY <1>1 DEF DestroyMain, DestroyPane, Quit, ExitRequested, HoldExit,
         HoldStore, HoldRecheck, Begin, BecomesVisible, vars
<1>2. CASE Spawn
  <2>1. ~exited \/ UNCHANGED vars
    BY DEF Next
  <2> QED
    BY <1>2, <2>1 DEF Spawn, ReturnTrue, Go, vars
<1>3. CASE SpawnFails
  BY <1>3 DEF SpawnFails, ReturnTrue, Go
<1>4. CASE Boundary
  BY <1>4 DEF Boundary, Go
<1>5. CASE StandbyEnds
  BY <1>5 DEF StandbyEnds
<1>6. CASE FinishStore
  BY <1>6 DEF FinishStore
<1>7. CASE FinishLoad
  BY <1>7 DEF FinishLoad
<1>8. CASE NoWindowRemains
  BY <1>8 DEF NoWindowRemains
<1>9. CASE RequestExit
  BY <1>9 DEF RequestExit
<1> QED
  BY <1>1, <1>2, <1>3, <1>4, <1>5, <1>6, <1>7, <1>8, <1>9 DEF Next, EventStep,
         WorkerStep

----------------------------------------------------------------------------
(* The invariant and the theorems                                          *)

\* The first state is sound.
LEMMA InitSound == Init => Sound
<1> SUFFICES ASSUME Init PROVE Sound
  OBVIOUS
<1> USE CloseConstants DEF Init
<1>1. event.pc = "idle" /\ event.cause = "exit"
  OBVIOUS
<1>2. EventTyped
  BY <1>1 DEF EventTyped, EventPc, Cause
<1>3. stores \in [Thread -> Seq(Value)]
  <2>1. <<>> \in Seq(Value)
    BY EmptySeq
  <2> QED
    BY <2>1
<1>4. SharedTyped /\ CountsTyped
  BY <1>3 DEF SharedTyped, CountsTyped, WorkerPc
<1>5. FlagsTyped
  BY DEF FlagsTyped
<1>6. ~Ended /\ ~Beginning
  BY <1>1, NothingPending DEF Ended, Beginning
<1>7. OneShutdown /\ LateExits
  BY <1>1, <1>6 DEF OneShutdown, LateExits
<1>8. HeldIsAnnounced /\ StaysAskable /\ ExitFollowsStandby
  BY <1>1 DEF HeldIsAnnounced, StaysAskable, ExitFollowsStandby
<1> QED
  BY <1>2, <1>4, <1>5, <1>7, <1>8 DEF Sound

\* Every step keeps a sound state sound.
LEMMA StepSound == Sound /\ [Next]_vars => Sound'
<1> SUFFICES ASSUME Sound, [Next]_vars PROVE Sound'
  OBVIOUS
<1>1. /\ EventTyped /\ SharedTyped /\ CountsTyped /\ FlagsTyped
      /\ OneShutdown /\ LateExits /\ HeldIsAnnounced /\ StaysAskable
      /\ ExitFollowsStandby
  BY DEF Sound
<1>2. EventTyped' /\ SharedTyped' /\ CountsTyped' /\ FlagsTyped'
  BY <1>1, EventStaysTyped, SharedStaysTyped, CountsStayTyped, FlagsStayTyped
<1>3. OneShutdown' /\ LateExits'
  BY <1>1, OneShutdownStays, LateExitsStay
<1>4. HeldIsAnnounced' /\ StaysAskable' /\ ExitFollowsStandby'
  BY <1>1, HeldStaysAnnounced, StaysAskableStep, ExitStaysLast
<1> QED
  BY <1>2, <1>3, <1>4 DEF Sound

\* Every reachable state is sound, whatever is assumed of the threads' progress.
THEOREM SoundAlways == Spec => []Sound
  BY InitSound, StepSound, PTL DEF Spec

\* Every value is one the code can have, and the phase follows the worker:
\* idle without it, finished from its finish on.
THEOREM TypeCorrect == Spec => []CloseTypeOK
<1>1. Sound => CloseTypeOK
  <2> SUFFICES ASSUME Sound PROVE CloseTypeOK
    OBVIOUS
  <2>1. phase \in {"idle", "running", "finished"} /\ worker \in WorkerPc
    BY DEF Sound, SharedTyped
  <2>2. stores \in [Thread -> Seq({"held", "finished"})] /\ memory \in Memory
    BY DEF Sound, SharedTyped, Value
  <2>3. event \in [pc : EventPc, cause : Cause]
    BY DEF Sound, EventTyped
  <2>4. panes \in 0 .. MaxPanes /\ requests \in Nat /\ quits \in 0 .. MaxQuits
    BY DEF Sound, CountsTyped
  <2>5. /\ exitHeld \in BOOLEAN /\ mainOpen \in BOOLEAN /\ heldBack \in BOOLEAN
        /\ {exited, blocked} \subseteq BOOLEAN
    BY Zenon DEF Sound, FlagsTyped
  <2>6. /\ phase = "idle" => worker = "none"
        /\ worker \in {"load", "windows", "request", "over"} =>
              PhaseSeenBy("worker") = "finished"
    BY DEF Sound, OneShutdown
  <2> QED
    BY <2>1, <2>2, <2>3, <2>4, <2>5, <2>6, Zenon DEF CloseTypeOK
<1> QED
  BY <1>1, SoundAlways, PTL

\* The process exits only after its outputs were stopped or nobody could be
\* started to stop them, on either memory (the exit branch of the event loop).
THEOREM ExitAlwaysFollows == Spec => []ExitFollowsStandby
<1>1. Sound => ExitFollowsStandby
  BY DEF Sound
<1> QED
  BY <1>1, SoundAlways, PTL

\* An exit that was held back has a worker that is still to request it again;
\* where a store was delayed, as Release and Acquire allow, or no worker was
\* started, it has at least a window or another exit that is on its way
\* (MainWindowCloseShutdown::hold_exit, finish).
THEOREM HeldExitsReturn == Spec => []NoExitForgotten
<1>1. Sound => NoExitForgotten
  BY CloseConstants DEF Sound, SharedTyped, HeldIsAnnounced, StaysAskable, NoExitForgotten,
         HeldIsHonoured, WorkerPc
<1> QED
  BY <1>1, SoundAlways, PTL
=============================================================================
