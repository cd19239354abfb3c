--------------------------- MODULE MainWindowClose ---------------------------
(***************************************************************************)
(* Closing the main window stops the outputs on a worker thread, and an    *)
(* exit requested meanwhile is held until the worker is done, which then   *)
(* requests it again.  The event loop and the worker share two atomics and *)
(* no lock: phase and exit_held.                                           *)
(*                                                                         *)
(* Their stores are Release and their loads Acquire, so that on x86-64 a   *)
(* store may become visible to the other thread after a later load of the  *)
(* same thread: stores holds what a thread has stored and nobody else can  *)
(* see yet.  With a strong memory every store is visible at once.          *)
(***************************************************************************)
EXTENDS Integers, Sequences, SequencesExt

CONSTANTS
    Memory,         \* memories considered: strong, weak (stores may be delayed)
    SpawnMayFail,   \* whether the worker thread may fail to start
    MaxPanes,       \* windows besides the main window at start
    MaxQuits        \* bound: exits requested by the user

ASSUME CloseConstants ==
    /\ Memory \subseteq {"strong", "weak"}
    /\ SpawnMayFail \in BOOLEAN
    /\ MaxPanes \in Nat
    /\ MaxQuits \in Nat

VARIABLES
    memory,     \* the memory this process runs on
    phase,      \* MainWindowCloseShutdown.phase, as other threads see it
    exitHeld,   \* MainWindowCloseShutdown.exit_held, as other threads see it
    stores,     \* stores of each thread that are not visible yet, oldest first
    event,      \* what the event loop is doing, and for which event
    worker,     \* what the shutdown worker is doing
    mainOpen,   \* whether the main window exists
    panes,      \* how many other windows exist
    requests,   \* ExitRequested events not handled yet
    quits,      \* exits the user has requested
    heldBack,   \* an exit was prevented and not requested again since
    exited,     \* the process has exited
    blocked     \* the managed output could not be released for an exit

shutdown == <<memory, phase, exitHeld, stores>>
windows == <<mainOpen, panes>>
ending == <<exited, blocked>>
vars == <<shutdown, event, worker, windows, requests, quits, heldBack, ending>>

Thread == {"event loop", "worker"}

\* Why the event loop runs a step: an exit, its second look at a shutdown it
\* did not begin, the shutdown it began, or the destroyed main window.
Cause == {"exit", "late exit", "begun exit", "destroyed", "late destroyed"}

EventPc == {"idle", "hold", "store", "recheck", "begin", "spawn", "finish",
            "boundary"}

WorkerPc == {"none", "standby", "finish", "load", "windows", "request", "over",
             "failed"}

Init ==
    /\ memory \in Memory
    /\ phase = "idle"
    /\ exitHeld = FALSE
    /\ stores = [t \in Thread |-> <<>>]
    /\ event = [pc |-> "idle", cause |-> "exit"]
    /\ worker = "none"
    /\ mainOpen = TRUE
    /\ panes \in 0..MaxPanes
    /\ requests = 0
    /\ quits = 0
    /\ heldBack = FALSE
    /\ exited = FALSE
    /\ blocked = FALSE

----------------------------------------------------------------------------
(* The atomics                                                             *)

PhaseSeenBy(t) == IF Contains(stores[t], "finished") THEN "finished" ELSE phase
HeldSeenBy(t) == Contains(stores[t], "held") \/ exitHeld

Store(t, what) ==
    /\ UNCHANGED memory
    /\ IF memory = "weak"
       THEN /\ stores' = [stores EXCEPT ![t] = Append(stores[t], what)]
            /\ UNCHANGED <<phase, exitHeld>>
       ELSE /\ phase' = IF what = "finished" THEN "finished" ELSE phase
            /\ exitHeld' = (exitHeld \/ what = "held")
            /\ UNCHANGED stores

BecomesVisible(t) ==
    /\ stores[t] # <<>>
    /\ stores' = [stores EXCEPT ![t] = Tail(stores[t])]
    /\ phase' = IF Head(stores[t]) = "finished" THEN "finished" ELSE phase
    /\ exitHeld' = (exitHeld \/ Head(stores[t]) = "held")
    /\ UNCHANGED <<memory, event, worker, windows, requests, quits, heldBack,
                   ending>>

\* A read-modify-write, a lock, a send or a thread start waits for earlier stores.
Fenced(t) == stores[t] = <<>>

----------------------------------------------------------------------------
(* Events                                                                  *)

Idle == event.pc = "idle"
Go(pc, cause) == event' = [pc |-> pc, cause |-> cause]

DestroyMain ==
    /\ Idle
    /\ mainOpen
    /\ mainOpen' = FALSE
    /\ requests' = IF panes = 0 THEN requests + 1 ELSE requests
    /\ Go("begin", "destroyed")
    /\ UNCHANGED <<shutdown, worker, panes, quits, heldBack, ending>>

\* Closing the last window raises ExitRequested.
DestroyPane ==
    /\ Idle
    /\ panes > 0
    /\ panes' = panes - 1
    /\ requests' = IF panes = 1 /\ ~mainOpen THEN requests + 1 ELSE requests
    /\ UNCHANGED <<shutdown, event, worker, mainOpen, quits, heldBack, ending>>

Quit ==
    /\ quits < MaxQuits
    /\ quits' = quits + 1
    /\ requests' = requests + 1
    /\ UNCHANGED <<shutdown, event, worker, windows, heldBack, ending>>

ExitRequested ==
    /\ Idle
    /\ requests > 0
    /\ requests' = requests - 1
    /\ Go("hold", "exit")
    /\ UNCHANGED <<shutdown, worker, windows, quits, heldBack, ending>>

\* Mutant: an exit goes on without the shutdown of the outputs.
PassedStraight ==
    event' = CASE event.cause \in {"exit", "late exit"} ->
                    [pc |-> "boundary", cause |-> "exit"]
               [] event.cause = "begun exit" ->
                    [pc |-> "spawn", cause |-> "begun exit"]
               [] OTHER -> [pc |-> "idle", cause |-> "exit"]

\* hold_exit returned false.
Passed ==
    event' = CASE event.cause = "exit" ->
                    [pc |-> "begin", cause |-> "exit"]
               [] event.cause = "late exit" ->
                    [pc |-> "boundary", cause |-> "exit"]
               [] event.cause = "begun exit" ->
                    [pc |-> "spawn", cause |-> "begun exit"]
               [] OTHER -> [pc |-> "idle", cause |-> "exit"]

\* hold_exit returned true; the destroyed window does not look at it.
Held ==
    /\ IF event.cause = "begun exit" THEN Go("spawn", "begun exit")
       ELSE Go("idle", "exit")
    /\ heldBack' = (heldBack \/ event.cause \in {"exit", "late exit"})

HoldExit ==
    /\ event.pc = "hold"
    /\ IF PhaseSeenBy("event loop") = "running" THEN Go("store", event.cause)
       ELSE Passed
    /\ UNCHANGED <<shutdown, worker, windows, requests, quits, heldBack, ending>>

HoldStore ==
    /\ event.pc = "store"
    /\ Store("event loop", "held")
    /\ Go("recheck", event.cause)
    /\ UNCHANGED <<worker, windows, requests, quits, heldBack, ending>>

\* Mutant: the phase is not looked at again.
HoldUnchecked ==
    /\ event.pc = "recheck"
    /\ Held
    /\ UNCHANGED <<shutdown, worker, windows, requests, quits, ending>>

HoldRecheck ==
    /\ event.pc = "recheck"
    /\ IF PhaseSeenBy("event loop") = "running" THEN Held
       ELSE Passed /\ UNCHANGED heldBack
    /\ UNCHANGED <<shutdown, worker, windows, requests, quits, ending>>

Begin ==
    /\ event.pc = "begin"
    /\ Fenced("event loop")
    /\ IF phase = "idle"
       THEN /\ phase' = "running"
            /\ IF event.cause = "exit" THEN Go("hold", "begun exit")
               ELSE Go("spawn", "destroyed")
       ELSE /\ UNCHANGED phase
            /\ IF event.cause = "exit" THEN Go("hold", "late exit")
               ELSE Go("hold", "late destroyed")
    /\ UNCHANGED <<memory, exitHeld, stores, worker, windows, requests, quits, heldBack,
                   ending>>

\* begin_shutdown returns true whether or not the worker starts.
ReturnTrue ==
    /\ Go("idle", "exit")
    /\ heldBack' = (heldBack \/ event.cause = "begun exit")

Spawn ==
    /\ event.pc = "spawn"
    /\ Fenced("event loop")
    /\ worker' = "standby"
    /\ ReturnTrue
    /\ UNCHANGED <<shutdown, windows, requests, quits, ending>>

\* Mutant: the shutdown is not finished when its worker cannot start.
SpawnFailsRunning ==
    /\ SpawnMayFail
    /\ event.pc = "spawn"
    /\ worker' = "failed"
    /\ ReturnTrue
    /\ UNCHANGED <<shutdown, windows, requests, quits, ending>>

\* finish, whose answer nobody looks at.
SpawnFails ==
    /\ SpawnMayFail
    /\ event.pc = "spawn"
    /\ worker' = "failed"
    /\ Store("event loop", "finished")
    /\ ReturnTrue
    /\ UNCHANGED <<windows, requests, quits, ending>>

\* execute_current_boundary, the last thing before the process may exit, which
\* prevents the exit if the managed output cannot be released.
Boundary ==
    /\ event.pc = "boundary"
    /\ \/ exited' = TRUE /\ UNCHANGED blocked
       \/ blocked' = TRUE /\ UNCHANGED exited
    /\ Go("idle", "exit")
    /\ UNCHANGED <<shutdown, worker, windows, requests, quits, heldBack>>

----------------------------------------------------------------------------
(* The worker                                                              *)

\* Standby is applied, or fails: either way the shutdown goes on.
StandbyEnds ==
    /\ worker = "standby"
    /\ worker' = "finish"
    /\ UNCHANGED <<shutdown, event, windows, requests, quits, heldBack, ending>>

FinishStore ==
    /\ worker = "finish"
    /\ Store("worker", "finished")
    /\ worker' = "load"
    /\ UNCHANGED <<event, windows, requests, quits, heldBack, ending>>

FinishLoad ==
    /\ worker = "load"
    /\ worker' = IF HeldSeenBy("worker") THEN "request" ELSE "windows"
    /\ UNCHANGED <<shutdown, event, windows, requests, quits, heldBack, ending>>

NoWindowRemains ==
    /\ worker = "windows"
    /\ Fenced("worker")
    /\ worker' = IF mainOpen \/ panes > 0 THEN "over" ELSE "request"
    /\ UNCHANGED <<shutdown, event, windows, requests, quits, heldBack, ending>>

\* app.exit sends an event to the event loop.
RequestExit ==
    /\ worker = "request"
    /\ Fenced("worker")
    /\ worker' = "over"
    /\ requests' = requests + 1
    /\ heldBack' = FALSE
    /\ UNCHANGED <<shutdown, event, windows, quits, ending>>

----------------------------------------------------------------------------

EventStep ==
    \/ ExitRequested
    \/ HoldExit
    \/ HoldStore
    \/ HoldRecheck
    \/ Begin
    \/ Spawn
    \/ SpawnFails
    \/ Boundary

WorkerStep ==
    \/ StandbyEnds
    \/ FinishStore
    \/ FinishLoad
    \/ NoWindowRemains
    \/ RequestExit

Next ==
    /\ ~exited
    /\ \/ DestroyMain
       \/ DestroyPane
       \/ Quit
       \/ EventStep
       \/ WorkerStep
       \/ \E t \in Thread : BecomesVisible(t)

Spec == Init /\ [][Next]_vars

\* The event loop keeps dispatching, the worker keeps running (every wait of
\* its Standby transition is bounded) and a store does not stay invisible.
FairSpec ==
    /\ Spec
    /\ WF_vars(~exited /\ EventStep)
    /\ WF_vars(~exited /\ WorkerStep)
    /\ \A t \in Thread : WF_vars(~exited /\ BecomesVisible(t))

----------------------------------------------------------------------------
(* Properties                                                              *)

\* Every value is one the code can have, and the phase follows the one worker
\* there is: idle without it, finished from its finish on.
CloseTypeOK ==
    /\ phase \in {"idle", "running", "finished"}
    /\ exitHeld \in BOOLEAN
    /\ stores \in [Thread -> Seq({"held", "finished"})]
    /\ event \in [pc : EventPc, cause : Cause]
    /\ worker \in WorkerPc
    /\ mainOpen \in BOOLEAN
    /\ panes \in 0..MaxPanes
    /\ requests \in Nat
    /\ quits \in 0..MaxQuits
    /\ heldBack \in BOOLEAN
    /\ {exited, blocked} \subseteq BOOLEAN
    /\ memory \in Memory
    /\ phase = "idle" => worker = "none"
    /\ worker \in {"load", "windows", "request", "over"} =>
           PhaseSeenBy("worker") = "finished"

\* An exit that was prevented because the outputs are being stopped is
\* requested again when they are: somebody is still there to do it.
HeldIsHonoured == heldBack => worker \notin {"none", "over", "failed"}

\* An exit that was prevented can be asked for again: a window is open, or
\* another exit is on its way, which the shutdown no longer holds back.
AskedAgain ==
    \/ mainOpen \/ panes > 0 \/ requests > 0
    \/ event.pc # "idle" /\ event.cause \in {"exit", "late exit"}
    \/ exited \/ blocked

\* The worker honours every exit that was held back, where stores are visible
\* at once.  Release and Acquire do not promise that, and the worker may not
\* start at all: then an exit may be forgotten, but never by a process that has
\* no window left and no other exit on its way.
NoExitForgotten ==
    HeldIsHonoured \/ ((memory = "weak" \/ worker = "failed") /\ AskedAgain)

\* The process exits only after its outputs have been stopped, whichever of the
\* two ways led to the exit, unless nobody could be started to stop them.
ExitFollowsStandby == exited => worker \notin {"none", "standby", "finish"}

\* A process without windows, which nobody could operate, exits, whatever was
\* held and however late it was seen, unless its managed output stays in use.
WindowlessExits == ~mainOpen /\ panes = 0 ~> exited \/ blocked

=============================================================================
