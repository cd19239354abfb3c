----------------------- MODULE OutputOwnership_proofs -----------------------
(***************************************************************************)
(* Proofs about OutputOwnership for any set of workers, any roles and any  *)
(* number of epochs and crashes.  The properties of the module follow from *)
(* one another only with what is added here: which lease the thread with   *)
(* the lock holds at each step (Control), that its role is the one the     *)
(* gate was reserved for (Reserved), that nothing but the new workers is   *)
(* behind a gate that has drained (Drained), and whose writes the marker   *)
(* and the memory of it can miss (MarkerKept, MemoryKept).                 *)
(***************************************************************************)
EXTENDS OutputOwnership, TLAPS

(***************************************************************************)
(* The inductive invariant                                                 *)
(***************************************************************************)

Phase == {"absent", "opening", "hidden", "showing", "overdue", "abandoned",
          "up", "sending", "closing", "leaked"}

Step == {"idle", "harvest", "write", "record", "reserve", "inputs", "fence",
         "stop", "drain", "prepare", "ask", "activate", "start", "prepared",
         "recordTarget", "complete", "publish", "disarm", "unwind", "abort",
         "failed", "cleanup", "clear", "fail", "deny", "mark", "markLost",
         "release"}

Errand == {"none", "role", "sync", "swap"}
FailStopStep == {"idle", "fenced", "retired", "written", "unwritten", "marked"}

\* The type invariant part by part, and what it leaves out: the steps, the
\* errands and the functions over the workers.
GateTyped ==
    /\ state \in {"Ready", "Transitioning", "Activating", "Failed"}
    /\ effective \in Role /\ desired \in Role
    /\ persisted \in Role \union {"none"}
    /\ epoch \in Nat

ActiveTyped == active \in BOOLEAN

LockTyped ==
    /\ pc \in Step /\ kind \in Errand /\ target \in Role
    /\ reserved \in Int /\ -1 <= reserved /\ reserved <= epoch
    /\ owns \in {"nothing", "retirement", "transition", "fence"}
    /\ before \in Role \X (Role \union {"none"})

RestTyped ==
    /\ engineRole \in Role /\ marker \in Role /\ earned \in Role /\ lost \in BOOLEAN
    /\ publishing \in BOOLEAN
    /\ failstop \in FailStopStep
    /\ light \in Int /\ -1 <= light /\ light <= epoch

WorkersTyped ==
    /\ phase \in [Worker -> Phase]
    /\ born \in [Worker -> Int]
    /\ stop \in [Worker -> BOOLEAN]
    /\ late \subseteq Registered

Typed == GateTyped /\ ActiveTyped /\ LockTyped /\ RestTyped /\ WorkersTyped

\* What the thread with the lock holds at each of its steps.
Control ==
    /\ pc # "idle" => kind # "none"
    /\ pc \in {"idle", "harvest", "write", "record", "reserve"} => owns = "nothing"
    /\ pc \in {"inputs", "fence", "stop", "drain", "unwind"} => owns = "retirement"
    /\ pc \in {"prepare", "ask", "activate", "start", "prepared", "recordTarget",
               "complete", "publish", "disarm"} => owns = "transition"
    /\ pc \in {"cleanup", "clear", "fail"} => owns \in {"fence", "transition"}
    /\ pc = "abort" => owns # "fence"
    /\ pc = "failed" => owns # "fence"
    /\ pc \in {"deny", "mark", "markLost", "release"} => owns \in {"nothing", "fence"}
    /\ pc \in {"prepare", "ask", "activate", "start", "prepared", "recordTarget",
               "complete", "record", "write"} => kind # "swap"
    /\ pc \in {"publish", "disarm", "inputs", "unwind", "abort"} => kind = "swap"
    /\ pc \in {"failed", "cleanup", "clear", "fail", "deny", "mark", "markLost",
               "release"} => kind # "swap"

Reserving == state \in {"Transitioning", "Activating"}

\* A gate under reservation was reserved by the thread with the lock, for its
\* target; nobody whose lease is out can find it open.
Reserved ==
    /\ Reserving => active /\ desired = target
    /\ state = "Activating" => owns = "transition"
    /\ state = "Ready" => ~active /\ owns = "nothing"
    /\ failstop # "idle" => state = "Failed" /\ active

\* A fenced gate is the reservation of the thread with the lock, or has failed
\* while a lease is out; and a failed one with a lease out is fenced.
FenceIsOwned ==
    active =>
        \/ /\ state \in {"Transitioning", "Activating"}
           /\ owns \in {"retirement", "transition"} /\ reserved = epoch
        \/ state = "Failed" /\ Busy

HeldIsFenced == state = "Failed" /\ Busy => active

\* What is behind the gate between its drain and its opening.
Drained ==
    /\ pc = "drain" => Registered = {}
    /\ Reserving /\ owns = "transition" =>
          /\ light = -1
          /\ \A w \in Worker : phase[w] # "absent" => born[w] = epoch

\* The senders of the engine while the change goes well.
Sending ==
    /\ pc \in {"stop", "drain", "publish", "disarm"} => engineRole = "Standby"
    /\ Reserving /\ pc \in {"activate", "start", "prepared", "recordTarget", "complete"} =>
          engineRole = target

\* The marker stays Standby from the first write of a change to the last.
MarkerKept ==
    /\ MarkerIsEarned
    /\ (pc \in {"record", "reserve", "fence", "stop", "drain", "prepare", "ask",
                "activate", "start", "prepared"} /\ kind # "swap")
           \/ (pc = "harvest" /\ kind = "sync")
       => marker = "Standby"
    /\ pc = "prepared" => earned = target

\* The steps at which the marker may have been written and not yet recorded.
Unsettled == pc \in {"record", "recordTarget", "complete", "failed", "cleanup",
                     "clear", "fail", "deny", "mark"}

\* What the gate remembers of the marker, with everybody who may be between
\* a write and its record.
MemoryKept ==
    /\ (~lost /\ failstop # "written" /\ ~Unsettled) => persisted \in {marker, "none"}
    /\ (failstop = "written" /\ ~lost) =>
          \/ marker = "Standby"
          \/ pc \in {"recordTarget", "complete", "failed", "cleanup", "clear", "fail", "deny"}
    /\ pc = "mark" => marker = "Standby"
    /\ (Reserving /\ pc \in {"recordTarget", "complete"}) => marker = target
    /\ (Reserving /\ pc = "complete") => persisted = target
    /\ (Reserving /\ kind = "swap") => before[2] = persisted

Sound ==
    /\ Typed /\ Control /\ FenceIsOwned /\ HeldIsFenced /\ Reserved
    /\ Drained /\ ReadyIsQuiet /\ Sending /\ MarkerKept /\ MemoryKept

-----------------------------------------------------------------------------
(* Typing *)

\* Whether a lease is out is a fact: it may be stored in the gate.
LEMMA BusyIsBoolean == Busy \in BOOLEAN /\ Busy' \in BOOLEAN
  BY DEF Busy, Held, Forgotten

\* What a start may learn from the marker.
LEMMA ToldByMarker ==
    ASSUME NEW told \in Told
    PROVE  told.wish \in {marker, "Standby"} /\ told.known \in {marker, "none"}
  BY DEF Told

\* The parts give the type invariant of the module.
LEMMA TypedImpliesTypeOK == Typed => OwnershipTypeOK
  BY DEF Typed, GateTyped, ActiveTyped, LockTyped, RestTyped, WorkersTyped,
         OwnershipTypeOK, Role

\* Every operation of the gate leaves roles in it and an epoch.
LEMMA GateTypedStep ==
    ASSUME Typed, [Next]_vars
    PROVE  GateTyped'
<1> USE DEF gateVars, Typed, GateTyped, LockTyped, Role
<1>1. ASSUME NEW w \in Worker, Acquire(w) \/ AddDisplay(w) \/ OpenRoute(w)
    PROVE  GateTyped'
  BY <1>1 DEF Acquire, AddDisplay, OpenRoute, Begin
<1>2. ASSUME NEW w \in Worker, Sent(w) PROVE GateTyped'
  BY <1>2, OwnershipConstants DEF Sent, Moves, Drop
<1>3. ASSUME NEW w \in Worker, SendFails(w) PROVE GateTyped'
  BY <1>3, OwnershipConstants DEF SendFails, Moves, Fence
<1>4. ASSUME NEW w \in Worker, Refused(w) PROVE GateTyped'
  BY <1>4, OwnershipConstants DEF Refused, Moves, Fence, Open
<1>5. ASSUME NEW w \in Worker, Stops(w) PROVE GateTyped'
  BY <1>5, OwnershipConstants DEF Stops, Moves, Fence
<1>6. ASSUME NEW w \in Worker, AbandonedEnds(w) PROVE GateTyped'
  BY <1>6, OwnershipConstants DEF AbandonedEnds, Moves, Drop
<1>7. ASSUME NEW w \in Worker, Join(w) PROVE GateTyped'
  BY <1>7, OwnershipConstants DEF Join, Joining, Moves, Drop
<1>8. ASSUME NEW w \in Worker, JoinTimesOut(w) PROVE GateTyped'
  BY <1>8, OwnershipConstants DEF JoinTimesOut, NotJoined, Fence, Registered
<1>9. ASSUME NEW w \in Worker, PublishDisplay(w) PROVE GateTyped'
  BY <1>9, OwnershipConstants DEF PublishDisplay, Withdrawn, Open, Moves, Drop
<1>10. ASSUME NEW w \in Worker, AddingFails(w) \/ AdmitDisplay(w) \/ Reaped(w)
    PROVE  GateTyped'
  BY <1>10, OwnershipConstants DEF AddingFails, AdmitDisplay, Reaped, Withdrawn,
         Moves, Drop
<1>11. ASSUME NEW w \in Worker, PublishRoute(w) PROVE GateTyped'
  BY <1>11, OwnershipConstants DEF PublishRoute, Is, Goes, Moves, Activated,
         Beside, Drop
<1>12. ASSUME NEW w \in Worker, OpeningFails(w) PROVE GateTyped'
  BY <1>12, OwnershipConstants DEF OpeningFails, Is, Goes, Moves, Beside,
         FenceAndDrop
<1>13. CASE Light \/ (\E r \in Targets : BeginRole(r)) \/ BeginSync
            \/ BeginSwap \/ WriteStandby \/ RetireInputs \/ FenceEngine
            \/ Stopped \/ AskEngine \/ Prepare \/ Started \/ WriteTarget
            \/ PublishSnapshot \/ Unwound \/ Cleanup \/ Cleared \/ WriteDenial
            \/ FailStopRetires \/ FailStopWrites \/ UNCHANGED vars
  BY <1>13 DEF Light, BeginRole, BeginSync, BeginSwap, WriteStandby,
         RetireInputs, FenceEngine, Stopped, AskEngine, Prepare, Started,
         WriteTarget, PublishSnapshot, Unwound, Cleanup, Cleared,
         WriteDenial, FailStopRetires, FailStopWrites, vars, Begin
<1>14. CASE Unlight
  BY <1>14, OwnershipConstants DEF Unlight, Drop
<1>15. CASE Harvest
  BY <1>15, OwnershipConstants DEF Harvest, Is, Goes, Beside, Drop
<1>16. CASE RecordStandby
  BY <1>16, OwnershipConstants DEF RecordStandby, Is, Goes, Beside
<1>17. CASE Reserve
  BY <1>17, OwnershipConstants DEF Reserve, Is, Goes, Ends, Signal,
         Registered, Beside
<1>18. CASE Drain
  BY <1>18, OwnershipConstants DEF Drain, Is, Goes, Holding, Superseded,
         GivesUp, FailAs, Beside
<1>19. CASE Activate
  BY <1>19, OwnershipConstants DEF Activate, Is, Goes, Beside
<1>20. CASE RecordTarget
  BY <1>20, OwnershipConstants DEF RecordTarget, Is, Goes, Beside
<1>21. CASE Complete
  BY <1>21, OwnershipConstants DEF Complete, Is, Ends, Holding, Reopen,
         FailAs, Beside
<1>22. CASE Disarm
  BY <1>22, OwnershipConstants DEF Disarm, Is, Ends, Reopen, FailAs, Beside
<1>23. CASE Abort
  BY <1>23, OwnershipConstants DEF Abort, Is, Ends, FailAs, Beside
<1>24. CASE GiveBack
  BY <1>24, OwnershipConstants DEF GiveBack, Is, Holding, FailAs, Beside
<1>25. CASE FenceFailure
  BY <1>25, OwnershipConstants DEF FenceFailure, Is, Goes, Holding, Fence,
         Beside
<1>26. CASE FailTransition
  BY <1>26, OwnershipConstants DEF FailTransition, Is, Holding, FailAs, Beside
<1>27. CASE Mark
  BY <1>27, OwnershipConstants DEF Mark, Goes, FailAs, Beside
<1>28. CASE ReleaseLock
  BY <1>28, OwnershipConstants DEF ReleaseLock, Is, Ends, Beside, Drop
<1>29. CASE FailStop
  BY <1>29, OwnershipConstants DEF FailStop, FailStopGoes, Fence, Signal,
         Registered
<1>30. CASE FailStopMarks
  BY <1>30, OwnershipConstants DEF FailStopMarks, FailStopGoes, FailAs
<1>31. CASE FailStopEnds
  BY <1>31, OwnershipConstants DEF FailStopEnds, FailStopGoes, Drop
<1>32. CASE Crash
  <2>1. PICK told \in Told : desired' = told.wish /\ persisted' = told.known
    BY <1>32 DEF Crash
  <2>2. marker \in Role
    BY DEF RestTyped
  <2>3. desired' \in Role /\ persisted' \in Role \union {"none"}
    BY <2>1, <2>2, ToldByMarker
  <2>4. state' = "Failed" /\ effective' = "Standby" /\ epoch' = 0
    BY <1>32 DEF Crash
  <2>5. QED
    BY <2>3, <2>4
<1> QED
  BY <1>1, <1>2, <1>3, <1>4, <1>5, <1>6, <1>7, <1>8, <1>9, <1>10, <1>11,
         <1>12, <1>13, <1>14, <1>15, <1>16, <1>17, <1>18, <1>19, <1>20,
         <1>21, <1>22, <1>23, <1>24, <1>25, <1>26, <1>27, <1>28, <1>29,
         <1>30, <1>31, <1>32 DEF Next, WorkerNext, LightNext, LockNext,
         FailStopNext

\* The fence stays a truth value, where it is set to whether a lease is out too.
LEMMA ActiveTypedStep ==
    ASSUME Typed, [Next]_vars
    PROVE  ActiveTyped'
<1> USE DEF gateVars, Typed, ActiveTyped
<1>1. ASSUME NEW w \in Worker, Acquire(w) \/ AddDisplay(w) \/ OpenRoute(w)
    PROVE  ActiveTyped'
  BY <1>1 DEF Acquire, AddDisplay, OpenRoute, Begin
<1>2. ASSUME NEW w \in Worker, Sent(w) PROVE ActiveTyped'
  BY <1>2, BusyIsBoolean, Zenon DEF Sent, Moves, Drop
<1>3. ASSUME NEW w \in Worker, SendFails(w) PROVE ActiveTyped'
  BY <1>3, BusyIsBoolean, Zenon DEF SendFails, Moves, Fence
<1>4. ASSUME NEW w \in Worker, Refused(w) PROVE ActiveTyped'
  BY <1>4, BusyIsBoolean, Zenon DEF Refused, Moves, Fence, Open
<1>5. ASSUME NEW w \in Worker, Stops(w) PROVE ActiveTyped'
  BY <1>5, BusyIsBoolean, Zenon DEF Stops, Moves, Fence
<1>6. ASSUME NEW w \in Worker, AbandonedEnds(w) PROVE ActiveTyped'
  BY <1>6, BusyIsBoolean, Zenon DEF AbandonedEnds, Moves, Drop
<1>7. ASSUME NEW w \in Worker, Join(w) PROVE ActiveTyped'
  BY <1>7, BusyIsBoolean, Zenon DEF Join, Joining, Moves, Drop
<1>8. ASSUME NEW w \in Worker, JoinTimesOut(w) PROVE ActiveTyped'
  BY <1>8, BusyIsBoolean, Zenon DEF JoinTimesOut, NotJoined, Fence, Registered
<1>9. ASSUME NEW w \in Worker, PublishDisplay(w) PROVE ActiveTyped'
  BY <1>9, BusyIsBoolean, Zenon DEF PublishDisplay, Withdrawn, Open, Moves, Drop
<1>10. ASSUME NEW w \in Worker, AddingFails(w) \/ AdmitDisplay(w) \/ Reaped(w)
    PROVE  ActiveTyped'
  BY <1>10, BusyIsBoolean, Zenon DEF AddingFails, AdmitDisplay, Reaped,
         Withdrawn, Moves, Drop
<1>11. ASSUME NEW w \in Worker, PublishRoute(w) PROVE ActiveTyped'
  BY <1>11, BusyIsBoolean, Zenon DEF PublishRoute, Is, Goes, Moves,
         Activated, Beside, Drop
<1>12. ASSUME NEW w \in Worker, OpeningFails(w) PROVE ActiveTyped'
  BY <1>12, BusyIsBoolean, Zenon DEF OpeningFails, Is, Goes, Moves, Beside,
         FenceAndDrop
<1>13. CASE Light \/ (\E r \in Targets : BeginRole(r)) \/ BeginSync
            \/ BeginSwap \/ WriteStandby \/ RetireInputs \/ FenceEngine
            \/ Stopped \/ AskEngine \/ Prepare \/ Started \/ WriteTarget
            \/ PublishSnapshot \/ Unwound \/ Cleanup \/ Cleared \/ WriteDenial
            \/ FailStopRetires \/ FailStopWrites \/ UNCHANGED vars
  BY <1>13 DEF Light, BeginRole, BeginSync, BeginSwap, WriteStandby,
         RetireInputs, FenceEngine, Stopped, AskEngine, Prepare, Started,
         WriteTarget, PublishSnapshot, Unwound, Cleanup, Cleared,
         WriteDenial, FailStopRetires, FailStopWrites, vars, Begin
<1>14. CASE Unlight
  BY <1>14, BusyIsBoolean, Zenon DEF Unlight, Drop
<1>15. CASE Harvest
  BY <1>15, BusyIsBoolean, Zenon DEF Harvest, Is, Goes, Beside, Drop
<1>16. CASE RecordStandby
  BY <1>16, BusyIsBoolean, Zenon DEF RecordStandby, Is, Goes, Beside
<1>17. CASE Reserve
  BY <1>17, BusyIsBoolean, Zenon DEF Reserve, Is, Goes, Ends, Signal,
         Registered, Beside
<1>18. CASE Drain
  BY <1>18, BusyIsBoolean, Zenon DEF Drain, Is, Goes, Holding, Superseded,
         GivesUp, FailAs, Beside
<1>19. CASE Activate
  BY <1>19, BusyIsBoolean, Zenon DEF Activate, Is, Goes, Beside
<1>20. CASE RecordTarget
  BY <1>20, BusyIsBoolean, Zenon DEF RecordTarget, Is, Goes, Beside
<1>21. CASE Complete
  BY <1>21, BusyIsBoolean, Zenon DEF Complete, Is, Ends, Holding, Reopen,
         FailAs, Beside
<1>22. CASE Disarm
  BY <1>22, BusyIsBoolean, Zenon DEF Disarm, Is, Ends, Reopen, FailAs, Beside
<1>23. CASE Abort
  BY <1>23, BusyIsBoolean, Zenon DEF Abort, Is, Ends, FailAs, Beside
<1>24. CASE GiveBack
  BY <1>24, BusyIsBoolean, Zenon DEF GiveBack, Is, Holding, FailAs, Beside
<1>25. CASE FenceFailure
  BY <1>25, BusyIsBoolean, Zenon DEF FenceFailure, Is, Goes, Holding, Fence,
         Beside
<1>26. CASE FailTransition
  BY <1>26, BusyIsBoolean, Zenon DEF FailTransition, Is, Holding, FailAs,
         Beside
<1>27. CASE Mark
  BY <1>27, BusyIsBoolean, Zenon DEF Mark, Goes, FailAs, Beside
<1>28. CASE ReleaseLock
  BY <1>28, BusyIsBoolean, Zenon DEF ReleaseLock, Is, Ends, Beside, Drop
<1>29. CASE FailStop
  BY <1>29, BusyIsBoolean, Zenon DEF FailStop, FailStopGoes, Fence, Signal,
         Registered
<1>30. CASE FailStopMarks
  BY <1>30, BusyIsBoolean, Zenon DEF FailStopMarks, FailStopGoes, FailAs
<1>31. CASE FailStopEnds
  BY <1>31, BusyIsBoolean, Zenon DEF FailStopEnds, FailStopGoes, Drop
<1>32. CASE Crash
  BY <1>32, BusyIsBoolean, Zenon DEF Crash, Told
<1> QED
  BY <1>1, <1>2, <1>3, <1>4, <1>5, <1>6, <1>7, <1>8, <1>9, <1>10, <1>11,
         <1>12, <1>13, <1>14, <1>15, <1>16, <1>17, <1>18, <1>19, <1>20,
         <1>21, <1>22, <1>23, <1>24, <1>25, <1>26, <1>27, <1>28, <1>29,
         <1>30, <1>31, <1>32 DEF Next, WorkerNext, LightNext, LockNext,
         FailStopNext

\* The thread with the lock takes roles, errands and epochs from the gate.
LEMMA LockTypedStep ==
    ASSUME Typed, [Next]_vars
    PROVE  LockTyped'
<1> USE DEF gateVars, lockVars, Typed, LockTyped, GateTyped, Step, Errand,
       Role
<1>1. ASSUME NEW w \in Worker, Acquire(w) \/ Sent(w) \/ SendFails(w)
          \/ Refused(w) \/ Stops(w) \/ AbandonedEnds(w) \/ Join(w)
          \/ AddDisplay(w) \/ AdmitDisplay(w)
          \/ PublishDisplay(w) \/ AddingFails(w) \/ Reaped(w)
    PROVE  LockTyped'
  BY <1>1 DEF Acquire, Sent, SendFails, Refused, Stops, AbandonedEnds, Join,
         AddDisplay, PublishDisplay, AddingFails, AdmitDisplay, Reaped,
         Withdrawn, Drop, Fence, FailAs
<1>2. ASSUME NEW w \in Worker, JoinTimesOut(w) PROVE LockTyped'
  BY <1>2, OwnershipConstants DEF JoinTimesOut, NotJoined, Fence, Registered
<1>3. ASSUME NEW w \in Worker, OpenRoute(w) PROVE LockTyped'
  BY <1>3, OwnershipConstants DEF OpenRoute, Is, Goes, Moves, Activated,
         Beside
<1>4. ASSUME NEW w \in Worker, PublishRoute(w) PROVE LockTyped'
  BY <1>4, OwnershipConstants DEF PublishRoute, Is, Goes, Moves, Activated,
         Beside, Drop
<1>5. ASSUME NEW w \in Worker, OpeningFails(w) PROVE LockTyped'
  BY <1>5, OwnershipConstants DEF OpeningFails, Is, Goes, Moves, Beside,
         FenceAndDrop
<1>6. CASE Light \/ Unlight \/ FailStop \/ FailStopRetires \/ FailStopWrites
            \/ FailStopMarks \/ FailStopEnds \/ UNCHANGED vars
  BY <1>6 DEF Light, Unlight, FailStop, FailStopRetires, FailStopWrites,
         FailStopMarks, FailStopEnds, vars, Drop, Fence, FailAs
<1>7. ASSUME NEW r \in Targets, BeginRole(r) PROVE LockTyped'
  BY <1>7, OwnershipConstants DEF BeginRole, Begin, Is, Beside
<1>8. CASE BeginSync
  BY <1>8, OwnershipConstants DEF BeginSync, Begin, Is, Beside
<1>9. CASE BeginSwap
  BY <1>9, OwnershipConstants DEF BeginSwap, Begin, Is, Beside
<1>10. CASE Harvest
  BY <1>10, OwnershipConstants DEF Harvest, Is, Goes, Beside, Drop
<1>11. CASE WriteStandby
  BY <1>11, OwnershipConstants DEF WriteStandby, Is, Goes, Writes, Unwritten,
         Beside
<1>12. CASE RecordStandby
  BY <1>12, OwnershipConstants DEF RecordStandby, Is, Goes, Beside
<1>13. CASE Reserve
  BY <1>13, OwnershipConstants DEF Reserve, Is, Goes, Ends, Signal,
         Registered, Beside
<1>14. CASE RetireInputs
  BY <1>14, OwnershipConstants DEF RetireInputs, Is, Goes, Beside
<1>15. CASE FenceEngine
  BY <1>15, OwnershipConstants DEF FenceEngine, Is, Goes, Beside
<1>16. CASE Stopped
  BY <1>16, OwnershipConstants DEF Stopped, Is, Goes, Beside
<1>17. CASE Drain
  BY <1>17, OwnershipConstants DEF Drain, Is, Goes, Holding, Superseded,
         GivesUp, FailAs, Beside
<1>18. CASE AskEngine
  BY <1>18, OwnershipConstants DEF AskEngine, Is, Goes, Beside
<1>19. CASE Prepare
  BY <1>19, OwnershipConstants DEF Prepare, Is, Goes, Beside
<1>20. CASE Activate
  BY <1>20, OwnershipConstants DEF Activate, Is, Goes, Beside
<1>21. CASE Started
  BY <1>21, OwnershipConstants DEF Started, Is, Goes, Beside
<1>22. CASE WriteTarget
  BY <1>22, OwnershipConstants DEF WriteTarget, Is, Goes, Writes, Unwritten,
         Beside
<1>23. CASE RecordTarget
  BY <1>23, OwnershipConstants DEF RecordTarget, Is, Goes, Beside
<1>24. CASE Complete
  BY <1>24, OwnershipConstants DEF Complete, Is, Ends, Holding, Reopen,
         FailAs, Beside
<1>25. CASE PublishSnapshot
  BY <1>25, OwnershipConstants DEF PublishSnapshot, Is, Goes, Beside
<1>26. CASE Disarm
  BY <1>26, OwnershipConstants DEF Disarm, Is, Ends, Reopen, FailAs, Beside
<1>27. CASE Unwound
  BY <1>27, OwnershipConstants DEF Unwound, Is, Goes, Beside
<1>28. CASE Abort
  BY <1>28, OwnershipConstants DEF Abort, Is, Ends, FailAs, Beside
<1>29. CASE GiveBack
  BY <1>29, OwnershipConstants DEF GiveBack, Is, Holding, FailAs, Beside
<1>30. CASE FenceFailure
  BY <1>30, OwnershipConstants DEF FenceFailure, Is, Goes, Holding, Fence,
         Beside
<1>31. CASE Cleanup
  BY <1>31, OwnershipConstants DEF Cleanup, Is, Goes, Signal, Registered,
         Beside
<1>32. CASE Cleared
  BY <1>32, OwnershipConstants DEF Cleared, Is, Goes, Beside
<1>33. CASE FailTransition
  BY <1>33, OwnershipConstants DEF FailTransition, Is, Holding, FailAs, Beside
<1>34. CASE WriteDenial
  BY <1>34, OwnershipConstants DEF WriteDenial, Is, Goes, Writes, Unwritten,
         Beside
<1>35. CASE Mark
  BY <1>35, OwnershipConstants DEF Mark, Goes, FailAs, Beside
<1>36. CASE ReleaseLock
  BY <1>36, OwnershipConstants DEF ReleaseLock, Is, Ends, Beside, Drop
<1>37. CASE Crash
  BY <1>37, OwnershipConstants DEF Crash, Told
<1> QED
  BY <1>1, <1>2, <1>3, <1>4, <1>5, <1>6, <1>7, <1>8, <1>9, <1>10, <1>11,
         <1>12, <1>13, <1>14, <1>15, <1>16, <1>17, <1>18, <1>19, <1>20,
         <1>21, <1>22, <1>23, <1>24, <1>25, <1>26, <1>27, <1>28, <1>29,
         <1>30, <1>31, <1>32, <1>33, <1>34, <1>35, <1>36, <1>37 DEF Next,
         WorkerNext, LightNext, LockNext, FailStopNext

\* The engine, the disk, the fail-stop and the lighting permit.
LEMMA RestTypedStep ==
    ASSUME Typed, [Next]_vars
    PROVE  RestTyped'
<1> USE DEF gateVars, diskVars, Typed, RestTyped, GateTyped, LockTyped,
       FailStopStep, Role
<1>1. ASSUME NEW w \in Worker, Acquire(w) PROVE RestTyped'
  BY <1>1 DEF Acquire, Moves, Open
<1>2. ASSUME NEW w \in Worker, Sent(w) PROVE RestTyped'
  BY <1>2 DEF Sent, Moves, Drop
<1>3. ASSUME NEW w \in Worker, SendFails(w) PROVE RestTyped'
  BY <1>3 DEF SendFails, Moves, Fence
<1>4. ASSUME NEW w \in Worker, Refused(w) PROVE RestTyped'
  BY <1>4 DEF Refused, Moves, Fence, Open
<1>5. ASSUME NEW w \in Worker, Stops(w) PROVE RestTyped'
  BY <1>5 DEF Stops, Moves, Fence
<1>6. ASSUME NEW w \in Worker, AbandonedEnds(w) PROVE RestTyped'
  BY <1>6 DEF AbandonedEnds, Moves, Drop
<1>7. ASSUME NEW w \in Worker, Join(w) PROVE RestTyped'
  BY <1>7 DEF Join, Joining, Moves, Drop
<1>8. ASSUME NEW w \in Worker, JoinTimesOut(w) PROVE RestTyped'
  BY <1>8 DEF JoinTimesOut, NotJoined, Fence, Registered
<1>9. ASSUME NEW w \in Worker, AddDisplay(w) PROVE RestTyped'
  BY <1>9 DEF AddDisplay, Open, Moves
<1>10. ASSUME NEW w \in Worker, PublishDisplay(w) PROVE RestTyped'
  BY <1>10 DEF PublishDisplay, Withdrawn, Open, Moves, Drop
<1>11. ASSUME NEW w \in Worker, AddingFails(w) \/ AdmitDisplay(w) \/ Reaped(w)
    PROVE  RestTyped'
  <2>1. epoch' = epoch /\ UNCHANGED <<engineRole, diskVars, failstop, light>>
    BY <1>11 DEF AddingFails, AdmitDisplay, Reaped, Drop
  <2>2. publishing' \in BOOLEAN
    <3>1. publishing' = publishing \/ publishing' = TRUE \/ publishing' = FALSE
      BY <1>11, Zenon DEF AddingFails, AdmitDisplay, Reaped, Withdrawn
    <3>2. QED
      BY <3>1, Zenon
  <2>3. QED
    BY <2>1, <2>2
<1>12. ASSUME NEW w \in Worker, OpenRoute(w) PROVE RestTyped'
  BY <1>12 DEF OpenRoute, Is, Goes, Moves, Activated, Beside
<1>13. ASSUME NEW w \in Worker, PublishRoute(w) PROVE RestTyped'
  BY <1>13 DEF PublishRoute, Is, Goes, Moves, Activated, Beside, Drop
<1>14. ASSUME NEW w \in Worker, OpeningFails(w) PROVE RestTyped'
  BY <1>14 DEF OpeningFails, Is, Goes, Moves, Beside, FenceAndDrop
<1>15. CASE UNCHANGED vars
  BY <1>15 DEF vars
<1>16. CASE Light
  BY <1>16 DEF Light, Open
<1>17. CASE Unlight
  BY <1>17 DEF Unlight, Drop
<1>18. ASSUME NEW r \in Targets, BeginRole(r) PROVE RestTyped'
  BY <1>18 DEF BeginRole, Begin, Is, Beside
<1>19. CASE BeginSync
  BY <1>19 DEF BeginSync, Begin, Is, Beside
<1>20. CASE BeginSwap
  BY <1>20 DEF BeginSwap, Begin, Is, Beside
<1>21. CASE Harvest
  BY <1>21 DEF Harvest, Is, Goes, Beside, Drop
<1>22. CASE WriteStandby
  BY <1>22 DEF WriteStandby, Is, Goes, Writes, Unwritten, Beside
<1>23. CASE RecordStandby
  BY <1>23 DEF RecordStandby, Is, Goes, Beside
<1>24. CASE Reserve
  BY <1>24 DEF Reserve, Is, Goes, Ends, Signal, Registered, Beside
<1>25. CASE RetireInputs
  BY <1>25 DEF RetireInputs, Is, Goes, Beside
<1>26. CASE FenceEngine
  BY <1>26 DEF FenceEngine, Is, Goes, Beside
<1>27. CASE Stopped
  BY <1>27 DEF Stopped, Is, Goes, Beside
<1>28. CASE Drain
  BY <1>28 DEF Drain, Is, Goes, Holding, Superseded, GivesUp, FailAs, Beside
<1>29. CASE AskEngine
  BY <1>29 DEF AskEngine, Is, Goes, Beside
<1>30. CASE Prepare
  BY <1>30 DEF Prepare, Is, Goes, Beside
<1>31. CASE Activate
  BY <1>31 DEF Activate, Is, Goes, Beside
<1>32. CASE Started
  BY <1>32 DEF Started, Is, Goes, Beside
<1>33. CASE WriteTarget
  BY <1>33 DEF WriteTarget, Is, Goes, Writes, Unwritten, Beside
<1>34. CASE RecordTarget
  BY <1>34 DEF RecordTarget, Is, Goes, Beside
<1>35. CASE Complete
  BY <1>35 DEF Complete, Is, Ends, Holding, Reopen, FailAs, Beside
<1>36. CASE PublishSnapshot
  BY <1>36 DEF PublishSnapshot, Is, Goes, Beside
<1>37. CASE Disarm
  BY <1>37 DEF Disarm, Is, Ends, Reopen, FailAs, Beside
<1>38. CASE Unwound
  BY <1>38 DEF Unwound, Is, Goes, Beside
<1>39. CASE Abort
  BY <1>39 DEF Abort, Is, Ends, FailAs, Beside
<1>40. CASE GiveBack
  BY <1>40 DEF GiveBack, Is, Holding, FailAs, Beside
<1>41. CASE FenceFailure
  BY <1>41 DEF FenceFailure, Is, Goes, Holding, Fence, Beside
<1>42. CASE Cleanup
  BY <1>42 DEF Cleanup, Is, Goes, Signal, Registered, Beside
<1>43. CASE Cleared
  BY <1>43 DEF Cleared, Is, Goes, Beside
<1>44. CASE FailTransition
  BY <1>44 DEF FailTransition, Is, Holding, FailAs, Beside
<1>45. CASE WriteDenial
  BY <1>45 DEF WriteDenial, Is, Goes, Writes, Unwritten, Beside
<1>46. CASE Mark
  BY <1>46 DEF Mark, Goes, FailAs, Beside
<1>47. CASE ReleaseLock
  BY <1>47 DEF ReleaseLock, Is, Ends, Beside, Drop
<1>48. CASE FailStop
  BY <1>48 DEF FailStop, FailStopGoes, Fence, Signal, Registered
<1>49. CASE FailStopRetires
  BY <1>49 DEF FailStopRetires, FailStopGoes, Registered
<1>50. CASE FailStopWrites
  BY <1>50 DEF FailStopWrites, FailStopGoes, Writes, Unwritten
<1>51. CASE FailStopMarks
  BY <1>51 DEF FailStopMarks, FailStopGoes, FailAs
<1>52. CASE FailStopEnds
  BY <1>52 DEF FailStopEnds, FailStopGoes, Drop
<1>53. CASE Crash
  <2>1. /\ engineRole' = "Standby" /\ marker' = marker /\ earned' = earned
        /\ lost' = FALSE /\ failstop' = "idle" /\ light' = -1 /\ epoch' = 0
        /\ publishing' = FALSE
    BY <1>53 DEF Crash
  <2>2. lost' \in BOOLEAN /\ publishing' \in BOOLEAN
    BY <2>1, Zenon
  <2>3. marker' \in Role /\ earned' \in Role
    BY <2>1
  <2>4. engineRole' \in Role /\ failstop' \in FailStopStep
    BY <2>1
  <2>5. light' \in Int /\ -1 <= light' /\ light' <= epoch'
    BY <2>1
  <2>6. QED
    BY <2>2, <2>3, <2>4, <2>5 DEF RestTyped
<1> QED
  BY <1>1, <1>2, <1>3, <1>4, <1>5, <1>6, <1>7, <1>8, <1>9, <1>10, <1>11,
         <1>12, <1>13, <1>14, <1>15, <1>16, <1>17, <1>18, <1>19, <1>20,
         <1>21, <1>22, <1>23, <1>24, <1>25, <1>26, <1>27, <1>28, <1>29,
         <1>30, <1>31, <1>32, <1>33, <1>34, <1>35, <1>36, <1>37, <1>38,
         <1>39, <1>40, <1>41, <1>42, <1>43, <1>44, <1>45, <1>46, <1>47,
         <1>48, <1>49, <1>50, <1>51, <1>52, <1>53 DEF Next, WorkerNext,
         LightNext, LockNext, FailStopNext

\* The workers; a failure fence that stays stays with one a join can find.
LEMMA WorkersTypedStep ==
    ASSUME Typed, [Next]_vars
    PROVE  WorkersTyped'
<1> USE DEF workerVars, Typed, WorkersTyped, GateTyped, Registered, Phase
<1>1. ASSUME NEW w \in Worker, Acquire(w) PROVE WorkersTyped'
  BY <1>1 DEF Acquire, Moves, Open
<1>2. ASSUME NEW w \in Worker, Sent(w) PROVE WorkersTyped'
  BY <1>2 DEF Sent, Moves, Drop
<1>3. ASSUME NEW w \in Worker, SendFails(w) PROVE WorkersTyped'
  BY <1>3 DEF SendFails, Moves, Fence
<1>4. ASSUME NEW w \in Worker, Refused(w) PROVE WorkersTyped'
  BY <1>4 DEF Refused, Moves, Fence, Open
<1>5. ASSUME NEW w \in Worker, Stops(w) PROVE WorkersTyped'
  BY <1>5 DEF Stops, Moves, Fence
<1>6. ASSUME NEW w \in Worker, AbandonedEnds(w) PROVE WorkersTyped'
  BY <1>6 DEF AbandonedEnds, Moves, Drop
<1>7. ASSUME NEW w \in Worker, Join(w) PROVE WorkersTyped'
  BY <1>7 DEF Join, Joining, Moves, Drop
<1>8. ASSUME NEW w \in Worker, JoinTimesOut(w) PROVE WorkersTyped'
  BY <1>8 DEF JoinTimesOut, NotJoined, Fence, Registered
<1>9. ASSUME NEW w \in Worker, AddDisplay(w) PROVE WorkersTyped'
  BY <1>9 DEF AddDisplay, Open, Moves
<1>10. ASSUME NEW w \in Worker, PublishDisplay(w) PROVE WorkersTyped'
  BY <1>10 DEF PublishDisplay, Withdrawn, Open, Moves, Drop
<1>11. ASSUME NEW w \in Worker, AddingFails(w) \/ AdmitDisplay(w) \/ Reaped(w)
    PROVE  WorkersTyped'
  BY <1>11 DEF AddingFails, AdmitDisplay, Reaped, Withdrawn, Moves, Drop
<1>12. ASSUME NEW w \in Worker, OpenRoute(w) PROVE WorkersTyped'
  <2>1. CASE Activated
    <3>1. /\ phase[w] = "absent" /\ phase' = [phase EXCEPT ![w] = "opening"]
          /\ born' = [born EXCEPT ![w] = epoch]
          /\ stop' = [stop EXCEPT ![w] = FALSE] /\ late' = late
      BY <1>12, <2>1 DEF OpenRoute, Moves
    <3>2. QED
      BY <3>1
  <2>2. CASE ~Activated
    BY <1>12, <2>2 DEF OpenRoute
  <2>3. QED
    BY <2>1, <2>2
<1>13. ASSUME NEW w \in Worker, PublishRoute(w) PROVE WorkersTyped'
  BY <1>13 DEF PublishRoute, Is, Goes, Moves, Activated, Beside, Drop
<1>14. ASSUME NEW w \in Worker, OpeningFails(w) PROVE WorkersTyped'
  BY <1>14 DEF OpeningFails, Is, Goes, Moves, Beside, FenceAndDrop
<1>15. CASE Light \/ (\E r \in Targets : BeginRole(r)) \/ BeginSync
            \/ BeginSwap \/ WriteStandby \/ RecordStandby \/ RetireInputs
            \/ FenceEngine \/ Stopped \/ Drain \/ AskEngine \/ Prepare
            \/ Activate \/ Started \/ WriteTarget \/ RecordTarget \/ Complete
            \/ PublishSnapshot \/ Disarm \/ Unwound \/ Abort \/ GiveBack
            \/ FenceFailure \/ Cleared \/ FailTransition \/ WriteDenial
            \/ Mark \/ ReleaseLock \/ FailStopRetires \/ FailStopWrites
            \/ FailStopMarks \/ FailStopEnds \/ UNCHANGED vars
  BY <1>15 DEF Light, BeginRole, BeginSync, BeginSwap, WriteStandby,
         RecordStandby, RetireInputs, FenceEngine, Stopped, Drain, AskEngine,
         Prepare, Activate, Started, WriteTarget, RecordTarget, Complete,
         PublishSnapshot, Disarm, Unwound, Abort, GiveBack, FenceFailure,
         Cleared, FailTransition, WriteDenial, Mark, ReleaseLock,
         FailStopRetires, FailStopWrites, FailStopMarks, FailStopEnds, vars,
         Begin, Beside
<1>16. CASE Unlight
  BY <1>16 DEF Unlight, Drop
<1>17. CASE Harvest
  BY <1>17 DEF Harvest, Is, Goes, Beside, Drop
<1>18. CASE Reserve
  BY <1>18 DEF Reserve, Is, Goes, Ends, Signal, Registered, Beside
<1>19. CASE Cleanup
  BY <1>19 DEF Cleanup, Is, Goes, Signal, Registered, Beside
<1>20. CASE FailStop
  BY <1>20 DEF FailStop, FailStopGoes, Fence, Signal, Registered
<1>21. CASE Crash
  BY <1>21 DEF Crash, Told
<1> QED
  BY <1>1, <1>2, <1>3, <1>4, <1>5, <1>6, <1>7, <1>8, <1>9, <1>10, <1>11,
         <1>12, <1>13, <1>14, <1>15, <1>16, <1>17, <1>18, <1>19, <1>20,
         <1>21 DEF Next, WorkerNext, LightNext, LockNext, FailStopNext

-----------------------------------------------------------------------------
(* The invariant part by part, action by action *)

\* Only the thread with the lock moves through its steps, and takes and drops
\* its lease where a step ends.
LEMMA ControlStep ==
    ASSUME Typed, Control, [Next]_vars
    PROVE  Control'
<1> USE DEF lockVars, Typed, LockTyped, Step, Errand, Control
<1>1. ASSUME NEW w \in Worker, Acquire(w) \/ Sent(w) \/ SendFails(w)
          \/ Refused(w) \/ Stops(w) \/ AbandonedEnds(w) \/ Join(w)
          \/ AddDisplay(w) \/ AdmitDisplay(w)
          \/ PublishDisplay(w) \/ AddingFails(w) \/ Reaped(w)
    PROVE  Control'
  BY <1>1 DEF Acquire, Sent, SendFails, Refused, Stops, AbandonedEnds, Join,
         AddDisplay, PublishDisplay, AddingFails, AdmitDisplay, Reaped,
         Withdrawn
<1>2. ASSUME NEW w \in Worker, JoinTimesOut(w) PROVE Control'
  BY <1>2 DEF JoinTimesOut, NotJoined, Fence, Registered
<1>3. ASSUME NEW w \in Worker, OpenRoute(w) PROVE Control'
  BY <1>3 DEF OpenRoute, Is, Goes, Moves, Activated, Beside
<1>4. ASSUME NEW w \in Worker, PublishRoute(w) PROVE Control'
  BY <1>4 DEF PublishRoute, Is, Goes, Moves, Activated, Beside, Drop
<1>5. ASSUME NEW w \in Worker, OpeningFails(w) PROVE Control'
  BY <1>5 DEF OpeningFails, Is, Goes, Moves, Beside, FenceAndDrop
<1>6. CASE Light \/ Unlight \/ FailStop \/ FailStopRetires \/ FailStopWrites
            \/ FailStopMarks \/ FailStopEnds \/ UNCHANGED vars
  BY <1>6 DEF Light, Unlight, FailStop, FailStopRetires, FailStopWrites,
         FailStopMarks, FailStopEnds, vars
<1>7. ASSUME NEW r \in Targets, BeginRole(r) PROVE Control'
  BY <1>7 DEF BeginRole, Begin, Is, Beside
<1>8. CASE BeginSync
  BY <1>8 DEF BeginSync, Begin, Is, Beside
<1>9. CASE BeginSwap
  BY <1>9 DEF BeginSwap, Begin, Is, Beside
<1>10. CASE Harvest
  BY <1>10 DEF Harvest, Is, Goes, Beside, Drop
<1>11. CASE WriteStandby
  BY <1>11 DEF WriteStandby, Is, Goes, Writes, Unwritten, Beside
<1>12. CASE RecordStandby
  BY <1>12 DEF RecordStandby, Is, Goes, Beside
<1>13. CASE Reserve
  BY <1>13 DEF Reserve, Is, Goes, Ends, Signal, Registered, Beside
<1>14. CASE RetireInputs
  BY <1>14 DEF RetireInputs, Is, Goes, Beside
<1>15. CASE FenceEngine
  BY <1>15 DEF FenceEngine, Is, Goes, Beside
<1>16. CASE Stopped
  BY <1>16 DEF Stopped, Is, Goes, Beside
<1>17. CASE Drain
  BY <1>17 DEF Drain, Is, Goes, Holding, Superseded, GivesUp, FailAs, Beside
<1>18. CASE AskEngine
  BY <1>18 DEF AskEngine, Is, Goes, Beside
<1>19. CASE Prepare
  BY <1>19 DEF Prepare, Is, Goes, Beside
<1>20. CASE Activate
  BY <1>20 DEF Activate, Is, Goes, Beside
<1>21. CASE Started
  BY <1>21 DEF Started, Is, Goes, Beside
<1>22. CASE WriteTarget
  BY <1>22 DEF WriteTarget, Is, Goes, Writes, Unwritten, Beside
<1>23. CASE RecordTarget
  BY <1>23 DEF RecordTarget, Is, Goes, Beside
<1>24. CASE Complete
  BY <1>24 DEF Complete, Is, Ends, Holding, Reopen, FailAs, Beside
<1>25. CASE PublishSnapshot
  BY <1>25 DEF PublishSnapshot, Is, Goes, Beside
<1>26. CASE Disarm
  BY <1>26 DEF Disarm, Is, Ends, Reopen, FailAs, Beside
<1>27. CASE Unwound
  BY <1>27 DEF Unwound, Is, Goes, Beside
<1>28. CASE Abort
  BY <1>28 DEF Abort, Is, Ends, FailAs, Beside
<1>29. CASE GiveBack
  BY <1>29 DEF GiveBack, Is, Holding, FailAs, Beside
<1>30. CASE FenceFailure
  BY <1>30 DEF FenceFailure, Is, Goes, Holding, Fence, Beside
<1>31. CASE Cleanup
  BY <1>31 DEF Cleanup, Is, Goes, Signal, Registered, Beside
<1>32. CASE Cleared
  BY <1>32 DEF Cleared, Is, Goes, Beside
<1>33. CASE FailTransition
  BY <1>33 DEF FailTransition, Is, Holding, FailAs, Beside
<1>34. CASE WriteDenial
  BY <1>34 DEF WriteDenial, Is, Goes, Writes, Unwritten, Beside
<1>35. CASE Mark
  BY <1>35 DEF Mark, Goes, FailAs, Beside
<1>36. CASE ReleaseLock
  BY <1>36 DEF ReleaseLock, Is, Ends, Beside, Drop
<1>37. CASE Crash
  BY <1>37 DEF Crash, Told
<1> QED
  BY <1>1, <1>2, <1>3, <1>4, <1>5, <1>6, <1>7, <1>8, <1>9, <1>10, <1>11,
         <1>12, <1>13, <1>14, <1>15, <1>16, <1>17, <1>18, <1>19, <1>20,
         <1>21, <1>22, <1>23, <1>24, <1>25, <1>26, <1>27, <1>28, <1>29,
         <1>30, <1>31, <1>32, <1>33, <1>34, <1>35, <1>36, <1>37 DEF Next,
         WorkerNext, LightNext, LockNext, FailStopNext

\* Whoever raises the fence holds a lease, whoever drops the last lease lifts
\* it, and the thread with the lock gives its reservation up last.
LEMMA FenceStep ==
    ASSUME Typed, Control, Reserved, FenceIsOwned, [Next]_vars
    PROVE  FenceIsOwned'
<1> USE DEF gateVars, diskVars, lockVars, workerVars, Typed, GateTyped,
       LockTyped, RestTyped, WorkersTyped, Registered, Control, Reserved,
       Reserving, FenceIsOwned
<1>1. ASSUME NEW w \in Worker, Acquire(w) PROVE FenceIsOwned'
  BY <1>1 DEF Acquire, Moves, Open, Busy, Held, Forgotten
<1>2. ASSUME NEW w \in Worker, Sent(w) PROVE FenceIsOwned'
  BY <1>2 DEF Sent, Moves, Drop
<1>3. ASSUME NEW w \in Worker, SendFails(w) PROVE FenceIsOwned'
  BY <1>3 DEF SendFails, Moves, Fence, Busy, Held, Forgotten
<1>4. ASSUME NEW w \in Worker, Refused(w) PROVE FenceIsOwned'
  BY <1>4 DEF Refused, Moves, Fence, Open, Busy, Held, Forgotten
<1>5. ASSUME NEW w \in Worker, Stops(w) PROVE FenceIsOwned'
  BY <1>5 DEF Stops, Moves, Fence, Busy, Held, Forgotten
<1>6. ASSUME NEW w \in Worker, AbandonedEnds(w) PROVE FenceIsOwned'
  BY <1>6 DEF AbandonedEnds, Moves, Drop
<1>7. ASSUME NEW w \in Worker, Join(w) PROVE FenceIsOwned'
  BY <1>7 DEF Join, Joining, Moves, Drop
<1>8. ASSUME NEW w \in Worker, JoinTimesOut(w) PROVE FenceIsOwned'
  BY <1>8 DEF JoinTimesOut, NotJoined, Fence, Registered, Busy, Held, Forgotten
<1>9. ASSUME NEW w \in Worker, AddDisplay(w) PROVE FenceIsOwned'
  BY <1>9 DEF AddDisplay, Open, Moves, Busy, Held, Forgotten
<1>10. ASSUME NEW w \in Worker, PublishDisplay(w) PROVE FenceIsOwned'
  BY <1>10 DEF PublishDisplay, Withdrawn, Open, Moves, Drop
<1>11. ASSUME NEW w \in Worker, AddingFails(w) \/ AdmitDisplay(w) \/ Reaped(w)
    PROVE  FenceIsOwned'
  BY <1>11 DEF AddingFails, AdmitDisplay, Reaped, Withdrawn, Moves, Drop
<1>12. ASSUME NEW w \in Worker, OpenRoute(w) PROVE FenceIsOwned'
  BY <1>12 DEF OpenRoute, Is, Goes, Moves, Activated, Beside, Busy, Held,
         Forgotten
<1>13. ASSUME NEW w \in Worker, PublishRoute(w) PROVE FenceIsOwned'
  BY <1>13 DEF PublishRoute, Is, Goes, Moves, Activated, Beside, Drop
<1>14. ASSUME NEW w \in Worker, OpeningFails(w) PROVE FenceIsOwned'
  BY <1>14 DEF OpeningFails, Is, Goes, Moves, Beside, FenceAndDrop
<1>15. CASE (\E r \in Targets : BeginRole(r)) \/ BeginSync \/ BeginSwap
            \/ WriteStandby \/ RetireInputs \/ FenceEngine \/ Stopped
            \/ AskEngine \/ Prepare \/ Started \/ WriteTarget
            \/ PublishSnapshot \/ Unwound \/ Cleared \/ WriteDenial
            \/ UNCHANGED vars
  BY <1>15 DEF BeginRole, BeginSync, BeginSwap, WriteStandby, RetireInputs,
         FenceEngine, Stopped, AskEngine, Prepare, Started, WriteTarget,
         PublishSnapshot, Unwound, Cleared, WriteDenial, vars, Busy, Held,
         Forgotten, Begin, Beside, Is, Goes
<1>16. CASE Light
  BY <1>16 DEF Light, Open, Busy, Held, Forgotten
<1>17. CASE Unlight
  BY <1>17 DEF Unlight, Drop
<1>18. CASE Harvest
  BY <1>18 DEF Harvest, Is, Goes, Beside, Drop
<1>19. CASE RecordStandby
  BY <1>19 DEF RecordStandby, Is, Goes, Beside, Busy, Held, Forgotten
<1>20. CASE Reserve
  BY <1>20 DEF Reserve, Is, Goes, Ends, Signal, Registered, Beside, Busy, Held,
         Forgotten
<1>21. CASE Drain
  BY <1>21 DEF Drain, Is, Goes, Holding, Superseded, GivesUp, FailAs, Beside,
         Busy, Held, Forgotten
<1>22. CASE Activate
  BY <1>22 DEF Activate, Is, Goes, Beside, Busy, Held, Forgotten
<1>23. CASE RecordTarget
  BY <1>23 DEF RecordTarget, Is, Goes, Beside, Busy, Held, Forgotten
<1>24. CASE Complete
  BY <1>24 DEF Complete, Is, Ends, Holding, Reopen, FailAs, Beside, Busy, Held,
         Forgotten
<1>25. CASE Disarm
  BY <1>25 DEF Disarm, Is, Ends, Reopen, FailAs, Beside, Busy, Held, Forgotten
<1>26. CASE Abort
  BY <1>26 DEF Abort, Is, Ends, FailAs, Beside, Busy, Held, Forgotten
<1>27. CASE GiveBack
  BY <1>27 DEF GiveBack, Is, Holding, FailAs, Beside
<1>28. CASE FenceFailure
  BY <1>28 DEF FenceFailure, Is, Goes, Holding, Fence, Beside, Busy, Held,
         Forgotten
<1>29. CASE Cleanup
  BY <1>29 DEF Cleanup, Is, Goes, Signal, Registered, Beside, Busy, Held,
         Forgotten
<1>30. CASE FailTransition
  BY <1>30 DEF FailTransition, Is, Holding, FailAs, Beside, Busy, Held,
         Forgotten
<1>31. CASE Mark
  BY <1>31 DEF Mark, Goes, FailAs, Beside
<1>32. CASE ReleaseLock
  BY <1>32 DEF ReleaseLock, Is, Ends, Beside, Drop
<1>33. CASE FailStop
  BY <1>33 DEF FailStop, FailStopGoes, Fence, Signal, Registered, Busy, Held,
         Forgotten
<1>34. CASE FailStopRetires
  BY <1>34 DEF FailStopRetires, FailStopGoes, Registered, Busy, Held, Forgotten
<1>35. CASE FailStopWrites
  BY <1>35 DEF FailStopWrites, FailStopGoes, Writes, Unwritten, Busy, Held,
         Forgotten
<1>36. CASE FailStopMarks
  BY <1>36 DEF FailStopMarks, FailStopGoes, FailAs
<1>37. CASE FailStopEnds
  BY <1>37 DEF FailStopEnds, FailStopGoes, Drop
<1>38. CASE Crash
  BY <1>38 DEF Crash, Told
<1> QED
  BY <1>1, <1>2, <1>3, <1>4, <1>5, <1>6, <1>7, <1>8, <1>9, <1>10, <1>11,
         <1>12, <1>13, <1>14, <1>15, <1>16, <1>17, <1>18, <1>19, <1>20,
         <1>21, <1>22, <1>23, <1>24, <1>25, <1>26, <1>27, <1>28, <1>29,
         <1>30, <1>31, <1>32, <1>33, <1>34, <1>35, <1>36, <1>37,
         <1>38 DEF Next, WorkerNext, LightNext, LockNext, FailStopNext

\* A lease is only taken of a gate that is open, reserved or fenced, and a
\* fence stays until the last of them is dropped.
LEMMA HeldStep ==
    ASSUME Typed, Control, Reserved, HeldIsFenced, [Next]_vars
    PROVE  HeldIsFenced'
<1> USE DEF gateVars, diskVars, lockVars, workerVars, Typed, GateTyped,
       LockTyped, RestTyped, WorkersTyped, Registered, Control, Reserved,
       Reserving, HeldIsFenced
<1>1. ASSUME NEW w \in Worker, Acquire(w) PROVE HeldIsFenced'
  BY <1>1 DEF Acquire, Moves, Open, Busy, Held, Forgotten
<1>2. ASSUME NEW w \in Worker, Sent(w) PROVE HeldIsFenced'
  BY <1>2 DEF Sent, Moves, Drop, Busy, Held, Forgotten
<1>3. ASSUME NEW w \in Worker, SendFails(w) PROVE HeldIsFenced'
  BY <1>3 DEF SendFails, Moves, Fence, Busy, Held, Forgotten
<1>4. ASSUME NEW w \in Worker, Refused(w) PROVE HeldIsFenced'
  BY <1>4 DEF Refused, Moves, Fence, Open, Busy, Held, Forgotten
<1>5. ASSUME NEW w \in Worker, Stops(w) PROVE HeldIsFenced'
  BY <1>5 DEF Stops, Moves, Fence, Busy, Held, Forgotten
<1>6. ASSUME NEW w \in Worker, AbandonedEnds(w) PROVE HeldIsFenced'
  BY <1>6 DEF AbandonedEnds, Moves, Drop, Busy, Held, Forgotten
<1>7. ASSUME NEW w \in Worker, Join(w) PROVE HeldIsFenced'
  BY <1>7 DEF Join, Joining, Moves, Drop, Busy, Held, Forgotten
<1>8. ASSUME NEW w \in Worker, JoinTimesOut(w) PROVE HeldIsFenced'
  BY <1>8 DEF JoinTimesOut, NotJoined, Fence, Registered, Busy, Held, Forgotten
<1>9. ASSUME NEW w \in Worker, AddDisplay(w) PROVE HeldIsFenced'
  BY <1>9 DEF AddDisplay, Open, Moves, Busy, Held, Forgotten
<1>10. ASSUME NEW w \in Worker, PublishDisplay(w) PROVE HeldIsFenced'
  BY <1>10 DEF PublishDisplay, Withdrawn, Open, Moves, Drop, Busy, Held,
         Forgotten
<1>11. ASSUME NEW w \in Worker, AddingFails(w) \/ AdmitDisplay(w) \/ Reaped(w)
    PROVE  HeldIsFenced'
  BY <1>11 DEF AddingFails, AdmitDisplay, Reaped, Withdrawn, Moves, Drop, Busy,
         Held, Forgotten
<1>12. ASSUME NEW w \in Worker, OpenRoute(w) PROVE HeldIsFenced'
  BY <1>12 DEF OpenRoute, Is, Goes, Moves, Activated, Beside, Busy, Held,
         Forgotten
<1>13. ASSUME NEW w \in Worker, PublishRoute(w) PROVE HeldIsFenced'
  BY <1>13 DEF PublishRoute, Is, Goes, Moves, Activated, Beside, Drop, Busy,
         Held, Forgotten
<1>14. ASSUME NEW w \in Worker, OpeningFails(w) PROVE HeldIsFenced'
  BY <1>14 DEF OpeningFails, Is, Goes, Moves, Beside, FenceAndDrop, Busy, Held,
         Forgotten
<1>15. CASE (\E r \in Targets : BeginRole(r)) \/ BeginSync \/ BeginSwap
            \/ WriteStandby \/ RetireInputs \/ FenceEngine \/ Stopped
            \/ AskEngine \/ Prepare \/ Started \/ WriteTarget
            \/ PublishSnapshot \/ Unwound \/ Cleared \/ WriteDenial
            \/ UNCHANGED vars
  BY <1>15 DEF BeginRole, BeginSync, BeginSwap, WriteStandby, RetireInputs,
         FenceEngine, Stopped, AskEngine, Prepare, Started, WriteTarget,
         PublishSnapshot, Unwound, Cleared, WriteDenial, vars, Busy, Held,
         Forgotten, Begin, Beside, Is, Goes
<1>16. CASE Light
  BY <1>16 DEF Light, Open, Busy, Held, Forgotten
<1>17. CASE Unlight
  BY <1>17 DEF Unlight, Drop, Busy, Held, Forgotten
<1>18. CASE Harvest
  BY <1>18 DEF Harvest, Is, Goes, Beside, Drop, Busy, Held, Forgotten
<1>19. CASE RecordStandby
  BY <1>19 DEF RecordStandby, Is, Goes, Beside, Busy, Held, Forgotten
<1>20. CASE Reserve
  BY <1>20 DEF Reserve, Is, Goes, Ends, Signal, Registered, Beside, Busy, Held,
         Forgotten
<1>21. CASE Drain
  BY <1>21 DEF Drain, Is, Goes, Holding, Superseded, GivesUp, FailAs, Beside,
         Busy, Held, Forgotten
<1>22. CASE Activate
  BY <1>22 DEF Activate, Is, Goes, Beside, Busy, Held, Forgotten
<1>23. CASE RecordTarget
  BY <1>23 DEF RecordTarget, Is, Goes, Beside, Busy, Held, Forgotten
<1>24. CASE Complete
  BY <1>24 DEF Complete, Is, Ends, Holding, Reopen, FailAs, Beside, Busy, Held,
         Forgotten
<1>25. CASE Disarm
  BY <1>25 DEF Disarm, Is, Ends, Reopen, FailAs, Beside, Busy, Held, Forgotten
<1>26. CASE Abort
  BY <1>26 DEF Abort, Is, Ends, FailAs, Beside, Busy, Held, Forgotten
<1>27. CASE GiveBack
  BY <1>27 DEF GiveBack, Is, Holding, FailAs, Beside, Busy, Held, Forgotten
<1>28. CASE FenceFailure
  BY <1>28 DEF FenceFailure, Is, Goes, Holding, Fence, Beside, Busy, Held,
         Forgotten
<1>29. CASE Cleanup
  BY <1>29 DEF Cleanup, Is, Goes, Signal, Registered, Beside, Busy, Held,
         Forgotten
<1>30. CASE FailTransition
  BY <1>30 DEF FailTransition, Is, Holding, FailAs, Beside, Busy, Held,
         Forgotten
<1>31. CASE Mark
  BY <1>31 DEF Mark, Goes, FailAs, Beside, Busy, Held, Forgotten
<1>32. CASE ReleaseLock
  BY <1>32 DEF ReleaseLock, Is, Ends, Beside, Drop, Busy, Held, Forgotten
<1>33. CASE FailStop
  BY <1>33 DEF FailStop, FailStopGoes, Fence, Signal, Registered, Busy, Held,
         Forgotten
<1>34. CASE FailStopRetires
  BY <1>34 DEF FailStopRetires, FailStopGoes, Registered, Busy, Held, Forgotten
<1>35. CASE FailStopWrites
  BY <1>35 DEF FailStopWrites, FailStopGoes, Writes, Unwritten, Busy, Held,
         Forgotten
<1>36. CASE FailStopMarks
  BY <1>36 DEF FailStopMarks, FailStopGoes, FailAs, Busy, Held, Forgotten
<1>37. CASE FailStopEnds
  BY <1>37 DEF FailStopEnds, FailStopGoes, Drop, Busy, Held, Forgotten
<1>38. CASE Crash
  BY <1>38 DEF Crash, Told, Busy, Held, Forgotten
<1> QED
  BY <1>1, <1>2, <1>3, <1>4, <1>5, <1>6, <1>7, <1>8, <1>9, <1>10, <1>11,
         <1>12, <1>13, <1>14, <1>15, <1>16, <1>17, <1>18, <1>19, <1>20,
         <1>21, <1>22, <1>23, <1>24, <1>25, <1>26, <1>27, <1>28, <1>29,
         <1>30, <1>31, <1>32, <1>33, <1>34, <1>35, <1>36, <1>37,
         <1>38 DEF Next, WorkerNext, LightNext, LockNext, FailStopNext

\* A reservation starts from an unfenced gate, and any fault ends it.
LEMMA ReservedStep ==
    ASSUME Typed, Control, FenceIsOwned, Reserved, [Next]_vars
    PROVE  Reserved'
<1> USE DEF gateVars, diskVars, lockVars, workerVars, Typed, GateTyped,
       LockTyped, RestTyped, WorkersTyped, Registered, Control, Reserving,
       FenceIsOwned, Reserved
<1>1. ASSUME NEW w \in Worker, Acquire(w) \/ AddDisplay(w)
    PROVE  Reserved'
  BY <1>1 DEF Acquire, AddDisplay, Begin, Beside, Is, Goes, FailStopGoes
<1>2. ASSUME NEW w \in Worker, Sent(w) PROVE Reserved'
  BY <1>2 DEF Sent, Moves, Drop, Busy, Held, Forgotten
<1>3. ASSUME NEW w \in Worker, SendFails(w) PROVE Reserved'
  BY <1>3 DEF SendFails, Moves, Fence
<1>4. ASSUME NEW w \in Worker, Refused(w) PROVE Reserved'
  BY <1>4 DEF Refused, Moves, Fence, Open
<1>5. ASSUME NEW w \in Worker, Stops(w) PROVE Reserved'
  BY <1>5 DEF Stops, Moves, Fence
<1>6. ASSUME NEW w \in Worker, AbandonedEnds(w) PROVE Reserved'
  BY <1>6 DEF AbandonedEnds, Moves, Drop, Busy, Held, Forgotten
<1>7. ASSUME NEW w \in Worker, Join(w) PROVE Reserved'
  BY <1>7 DEF Join, Joining, Moves, Drop, Busy, Held, Forgotten
<1>8. ASSUME NEW w \in Worker, JoinTimesOut(w) PROVE Reserved'
  BY <1>8 DEF JoinTimesOut, NotJoined, Fence, Registered
<1>9. ASSUME NEW w \in Worker, PublishDisplay(w) PROVE Reserved'
  BY <1>9 DEF PublishDisplay, Withdrawn, Open, Moves, Drop, Busy, Held,
         Forgotten
<1>10. ASSUME NEW w \in Worker, AddingFails(w) \/ AdmitDisplay(w) \/ Reaped(w)
    PROVE  Reserved'
  BY <1>10 DEF AddingFails, AdmitDisplay, Reaped, Withdrawn, Moves, Drop, Busy,
         Held, Forgotten
<1>11. ASSUME NEW w \in Worker, OpenRoute(w) PROVE Reserved'
  BY <1>11 DEF OpenRoute, Is, Goes, Moves, Activated, Beside
<1>12. ASSUME NEW w \in Worker, PublishRoute(w) PROVE Reserved'
  BY <1>12 DEF PublishRoute, Is, Goes, Moves, Activated, Beside, Drop, Busy,
         Held, Forgotten
<1>13. ASSUME NEW w \in Worker, OpeningFails(w) PROVE Reserved'
  BY <1>13 DEF OpeningFails, Is, Goes, Moves, Beside, FenceAndDrop, Busy, Held,
         Forgotten
<1>14. CASE Light \/ (\E r \in Targets : BeginRole(r)) \/ BeginSync
            \/ BeginSwap \/ WriteStandby \/ RetireInputs \/ FenceEngine
            \/ Stopped \/ AskEngine \/ Prepare \/ Started \/ WriteTarget
            \/ PublishSnapshot \/ Unwound \/ Cleanup \/ Cleared \/ WriteDenial
            \/ FailStopRetires \/ FailStopWrites \/ UNCHANGED vars
  BY <1>14 DEF Light, BeginRole, BeginSync, BeginSwap, WriteStandby,
         RetireInputs, FenceEngine, Stopped, AskEngine, Prepare, Started,
         WriteTarget, PublishSnapshot, Unwound, Cleanup, Cleared,
         WriteDenial, FailStopRetires, FailStopWrites, vars, Begin, Beside,
         Is, Goes, FailStopGoes
<1>15. CASE Unlight
  BY <1>15 DEF Unlight, Drop, Busy, Held, Forgotten
<1>16. CASE Harvest
  BY <1>16 DEF Harvest, Is, Goes, Beside, Drop, Busy, Held, Forgotten
<1>17. CASE RecordStandby
  BY <1>17 DEF RecordStandby, Is, Goes, Beside
<1>18. CASE Reserve
  BY <1>18 DEF Reserve, Is, Goes, Ends, Signal, Registered, Beside
<1>19. CASE Drain
  BY <1>19 DEF Drain, Is, Goes, Holding, Superseded, GivesUp, FailAs, Beside,
         Busy, Held, Forgotten
<1>20. CASE Activate
  BY <1>20 DEF Activate, Is, Goes, Beside
<1>21. CASE RecordTarget
  BY <1>21 DEF RecordTarget, Is, Goes, Beside
<1>22. CASE Complete
  BY <1>22 DEF Complete, Is, Ends, Holding, Reopen, FailAs, Beside, Busy, Held,
         Forgotten
<1>23. CASE Disarm
  BY <1>23 DEF Disarm, Is, Ends, Reopen, FailAs, Beside, Busy, Held, Forgotten
<1>24. CASE Abort
  BY <1>24 DEF Abort, Is, Ends, FailAs, Beside, Busy, Held, Forgotten
<1>25. CASE GiveBack
  BY <1>25 DEF GiveBack, Is, Holding, FailAs, Beside, Busy, Held, Forgotten
<1>26. CASE FenceFailure
  BY <1>26 DEF FenceFailure, Is, Goes, Holding, Fence, Beside
<1>27. CASE FailTransition
  BY <1>27 DEF FailTransition, Is, Holding, FailAs, Beside, Busy, Held,
         Forgotten
<1>28. CASE Mark
  BY <1>28 DEF Mark, Goes, FailAs, Beside, Busy, Held, Forgotten
<1>29. CASE ReleaseLock
  BY <1>29 DEF ReleaseLock, Is, Ends, Beside, Drop, Busy, Held, Forgotten
<1>30. CASE FailStop
  BY <1>30 DEF FailStop, FailStopGoes, Fence, Signal, Registered, Busy, Held,
         Forgotten
<1>31. CASE FailStopMarks
  BY <1>31 DEF FailStopMarks, FailStopGoes, FailAs, Busy, Held, Forgotten
<1>32. CASE FailStopEnds
  BY <1>32 DEF FailStopEnds, FailStopGoes, Drop, Busy, Held, Forgotten
<1>33. CASE Crash
  BY <1>33 DEF Crash, Told
<1> QED
  BY <1>1, <1>2, <1>3, <1>4, <1>5, <1>6, <1>7, <1>8, <1>9, <1>10, <1>11,
         <1>12, <1>13, <1>14, <1>15, <1>16, <1>17, <1>18, <1>19, <1>20,
         <1>21, <1>22, <1>23, <1>24, <1>25, <1>26, <1>27, <1>28, <1>29,
         <1>30, <1>31, <1>32, <1>33 DEF Next, WorkerNext, LightNext,
         LockNext, FailStopNext

\* After the drain only routes of this epoch are opened, and no frame is sent.
LEMMA DrainedStep ==
    ASSUME Typed, Control, FenceIsOwned, Reserved, Drained, [Next]_vars
    PROVE  Drained'
<1> USE DEF gateVars, diskVars, lockVars, workerVars, Typed, GateTyped,
       LockTyped, RestTyped, WorkersTyped, Registered, Control, Reserving,
       FenceIsOwned, Reserved, Drained
<1>1. ASSUME NEW w \in Worker, Acquire(w) PROVE Drained'
  BY <1>1 DEF Acquire, Moves, Open
<1>2. ASSUME NEW w \in Worker, Sent(w) PROVE Drained'
  BY <1>2 DEF Sent, Moves, Drop
<1>3. ASSUME NEW w \in Worker, SendFails(w) PROVE Drained'
  BY <1>3 DEF SendFails, Moves, Fence
<1>4. ASSUME NEW w \in Worker, Refused(w) PROVE Drained'
  BY <1>4 DEF Refused, Moves, Fence, Open
<1>5. ASSUME NEW w \in Worker, Stops(w) PROVE Drained'
  BY <1>5 DEF Stops, Moves, Fence
<1>6. ASSUME NEW w \in Worker, AbandonedEnds(w) PROVE Drained'
  BY <1>6 DEF AbandonedEnds, Moves, Drop
<1>7. ASSUME NEW w \in Worker, Join(w) PROVE Drained'
  BY <1>7 DEF Join, Joining, Moves, Drop
<1>8. ASSUME NEW w \in Worker, JoinTimesOut(w) PROVE Drained'
  BY <1>8 DEF JoinTimesOut, NotJoined, Fence, Registered
<1>9. ASSUME NEW w \in Worker, AddDisplay(w) PROVE Drained'
  BY <1>9 DEF AddDisplay, Open, Moves
<1>10. ASSUME NEW w \in Worker, PublishDisplay(w) PROVE Drained'
  BY <1>10 DEF PublishDisplay, Withdrawn, Open, Moves, Drop
<1>11. ASSUME NEW w \in Worker, AddingFails(w) \/ AdmitDisplay(w) \/ Reaped(w)
    PROVE  Drained'
  BY <1>11 DEF AddingFails, AdmitDisplay, Reaped, Withdrawn, Moves, Drop
<1>12. ASSUME NEW w \in Worker, OpenRoute(w) PROVE Drained'
  BY <1>12 DEF OpenRoute, Is, Goes, Moves, Activated, Beside
<1>13. ASSUME NEW w \in Worker, PublishRoute(w) PROVE Drained'
  BY <1>13 DEF PublishRoute, Is, Goes, Moves, Activated, Beside, Drop
<1>14. ASSUME NEW w \in Worker, OpeningFails(w) PROVE Drained'
  BY <1>14 DEF OpeningFails, Is, Goes, Moves, Beside, FenceAndDrop
<1>15. CASE (\E r \in Targets : BeginRole(r)) \/ BeginSync \/ BeginSwap
            \/ WriteStandby \/ RecordStandby \/ RetireInputs \/ FenceEngine
            \/ AskEngine \/ Prepare \/ Started \/ WriteTarget \/ RecordTarget
            \/ PublishSnapshot \/ Unwound \/ Cleanup \/ Cleared \/ WriteDenial
            \/ FailStopRetires \/ FailStopWrites \/ UNCHANGED vars
  BY <1>15 DEF BeginRole, BeginSync, BeginSwap, WriteStandby, RecordStandby,
         RetireInputs, FenceEngine, AskEngine, Prepare, Started, WriteTarget,
         RecordTarget, PublishSnapshot, Unwound, Cleanup, Cleared,
         WriteDenial, FailStopRetires, FailStopWrites, vars, Begin, Beside,
         Is, Goes, Signal, FailStopGoes
<1>16. CASE Light
  BY <1>16 DEF Light, Open
<1>17. CASE Unlight
  BY <1>17 DEF Unlight, Drop
<1>18. CASE Harvest
  BY <1>18 DEF Harvest, Is, Goes, Beside, Drop
<1>19. CASE Reserve
  BY <1>19 DEF Reserve, Is, Goes, Ends, Signal, Registered, Beside
<1>20. CASE Stopped
  BY <1>20 DEF Stopped, Is, Goes, Beside
<1>21. CASE Drain
  <2>1. /\ pc = "drain" /\ pc' # "drain" /\ UNCHANGED <<epoch, light, phase, born>>
        /\ Reserving' /\ owns' = "transition" => ~Busy
    BY <1>21 DEF Drain, Is, Holding, FailAs, Beside, GivesUp, Superseded
  <2>2. ASSUME ~Busy PROVE light = -1 /\ \A w \in Worker : phase[w] = "absent"
    <3>1. \A w \in Worker : phase[w] \notin {"up", "sending", "closing"}
      BY <2>1
    <3>2. \A w \in Worker : phase[w] \in Phase
      OBVIOUS
    <3>3. QED
      BY <2>2, <3>1, <3>2 DEF Busy, Held, Forgotten, Phase
  <2>3. QED
    BY <2>1, <2>2
<1>22. CASE Activate
  BY <1>22 DEF Activate, Is, Goes, Beside
<1>23. CASE Complete
  BY <1>23 DEF Complete, Is, Ends, Holding, Reopen, FailAs, Beside
<1>24. CASE Disarm
  BY <1>24 DEF Disarm, Is, Ends, Reopen, FailAs, Beside
<1>25. CASE Abort
  BY <1>25 DEF Abort, Is, Ends, FailAs, Beside
<1>26. CASE GiveBack
  BY <1>26 DEF GiveBack, Is, Holding, FailAs, Beside
<1>27. CASE FenceFailure
  BY <1>27 DEF FenceFailure, Is, Goes, Holding, Fence, Beside
<1>28. CASE FailTransition
  BY <1>28 DEF FailTransition, Is, Holding, FailAs, Beside
<1>29. CASE Mark
  BY <1>29 DEF Mark, Goes, FailAs, Beside
<1>30. CASE ReleaseLock
  BY <1>30 DEF ReleaseLock, Is, Ends, Beside, Drop
<1>31. CASE FailStop
  BY <1>31 DEF FailStop, FailStopGoes, Fence, Signal, Registered
<1>32. CASE FailStopMarks
  BY <1>32 DEF FailStopMarks, FailStopGoes, FailAs
<1>33. CASE FailStopEnds
  BY <1>33 DEF FailStopEnds, FailStopGoes, Drop
<1>34. CASE Crash
  BY <1>34 DEF Crash, Told
<1> QED
  BY <1>1, <1>2, <1>3, <1>4, <1>5, <1>6, <1>7, <1>8, <1>9, <1>10, <1>11,
         <1>12, <1>13, <1>14, <1>15, <1>16, <1>17, <1>18, <1>19, <1>20,
         <1>21, <1>22, <1>23, <1>24, <1>25, <1>26, <1>27, <1>28, <1>29,
         <1>30, <1>31, <1>32, <1>33, <1>34 DEF Next, WorkerNext, LightNext,
         LockNext, FailStopNext

\* An open gate was drained, and admits only what belongs to its epoch.
LEMMA ReadyStep ==
    ASSUME Typed, Control, FenceIsOwned, Reserved, Drained, Sending,
           ReadyIsQuiet, [Next]_vars
    PROVE  ReadyIsQuiet'
<1> USE DEF gateVars, diskVars, lockVars, workerVars, Typed, GateTyped,
       LockTyped, RestTyped, WorkersTyped, Registered, Control, Reserving,
       FenceIsOwned, Reserved, Drained, Sending, ReadyIsQuiet
<1>1. ASSUME NEW w \in Worker, Acquire(w) PROVE ReadyIsQuiet'
  BY <1>1 DEF Acquire, Moves, Open
<1>2. ASSUME NEW w \in Worker, Sent(w) PROVE ReadyIsQuiet'
  BY <1>2 DEF Sent, Moves, Drop
<1>3. ASSUME NEW w \in Worker, SendFails(w) PROVE ReadyIsQuiet'
  BY <1>3 DEF SendFails, Moves, Fence
<1>4. ASSUME NEW w \in Worker, Refused(w) PROVE ReadyIsQuiet'
  BY <1>4 DEF Refused, Moves, Fence, Open
<1>5. ASSUME NEW w \in Worker, Stops(w) PROVE ReadyIsQuiet'
  BY <1>5 DEF Stops, Moves, Fence
<1>6. ASSUME NEW w \in Worker, AbandonedEnds(w) PROVE ReadyIsQuiet'
  BY <1>6 DEF AbandonedEnds, Moves, Drop
<1>7. ASSUME NEW w \in Worker, Join(w) PROVE ReadyIsQuiet'
  BY <1>7 DEF Join, Joining, Moves, Drop
<1>8. ASSUME NEW w \in Worker, JoinTimesOut(w) PROVE ReadyIsQuiet'
  BY <1>8 DEF JoinTimesOut, NotJoined, Fence, Registered
<1>9. ASSUME NEW w \in Worker, AddDisplay(w) PROVE ReadyIsQuiet'
  BY <1>9 DEF AddDisplay, Open, Moves
<1>10. ASSUME NEW w \in Worker, PublishDisplay(w) PROVE ReadyIsQuiet'
  BY <1>10 DEF PublishDisplay, Withdrawn, Open, Moves, Drop
<1>11. ASSUME NEW w \in Worker, AddingFails(w) \/ AdmitDisplay(w) \/ Reaped(w)
    PROVE  ReadyIsQuiet'
  BY <1>11 DEF AddingFails, AdmitDisplay, Reaped, Withdrawn, Moves, Drop
<1>12. ASSUME NEW w \in Worker, OpenRoute(w) PROVE ReadyIsQuiet'
  BY <1>12 DEF OpenRoute, Is, Goes, Moves, Activated, Beside
<1>13. ASSUME NEW w \in Worker, PublishRoute(w) PROVE ReadyIsQuiet'
  BY <1>13 DEF PublishRoute, Is, Goes, Moves, Activated, Beside, Drop
<1>14. ASSUME NEW w \in Worker, OpeningFails(w) PROVE ReadyIsQuiet'
  BY <1>14 DEF OpeningFails, Is, Goes, Moves, Beside, FenceAndDrop
<1>15. CASE (\E r \in Targets : BeginRole(r)) \/ BeginSync \/ BeginSwap
            \/ WriteStandby \/ RecordStandby \/ RetireInputs \/ Stopped
            \/ AskEngine \/ Started \/ WriteTarget \/ RecordTarget
            \/ PublishSnapshot \/ Unwound \/ Cleared \/ WriteDenial
            \/ FailStopWrites \/ UNCHANGED vars
  BY <1>15 DEF BeginRole, BeginSync, BeginSwap, WriteStandby, RecordStandby,
         RetireInputs, Stopped, AskEngine, Started, WriteTarget,
         RecordTarget, PublishSnapshot, Unwound, Cleared, WriteDenial,
         FailStopWrites, vars, Begin, Beside, Is, Goes, FailStopGoes
<1>16. CASE Light
  BY <1>16 DEF Light, Open
<1>17. CASE Unlight
  BY <1>17 DEF Unlight, Drop
<1>18. CASE Harvest
  BY <1>18 DEF Harvest, Is, Goes, Beside, Drop
<1>19. CASE Reserve
  BY <1>19 DEF Reserve, Is, Goes, Ends, Signal, Registered, Beside
<1>20. CASE FenceEngine
  BY <1>20 DEF FenceEngine, Is, Goes, Beside
<1>21. CASE Drain
  BY <1>21 DEF Drain, Is, Goes, Holding, Superseded, GivesUp, FailAs, Beside
<1>22. CASE Prepare
  BY <1>22 DEF Prepare, Is, Goes, Beside
<1>23. CASE Activate
  BY <1>23 DEF Activate, Is, Goes, Beside
<1>24. CASE Complete
  BY <1>24 DEF Complete, Is, Ends, Holding, Reopen, FailAs, Beside, Busy, Held,
         Forgotten
<1>25. CASE Disarm
  BY <1>25 DEF Disarm, Is, Ends, Reopen, FailAs, Beside, Busy, Held, Forgotten
<1>26. CASE Abort
  BY <1>26 DEF Abort, Is, Ends, FailAs, Beside
<1>27. CASE GiveBack
  BY <1>27 DEF GiveBack, Is, Holding, FailAs, Beside
<1>28. CASE FenceFailure
  BY <1>28 DEF FenceFailure, Is, Goes, Holding, Fence, Beside
<1>29. CASE Cleanup
  BY <1>29 DEF Cleanup, Is, Goes, Signal, Registered, Beside
<1>30. CASE FailTransition
  BY <1>30 DEF FailTransition, Is, Holding, FailAs, Beside
<1>31. CASE Mark
  BY <1>31 DEF Mark, Goes, FailAs, Beside
<1>32. CASE ReleaseLock
  BY <1>32 DEF ReleaseLock, Is, Ends, Beside, Drop
<1>33. CASE FailStop
  BY <1>33 DEF FailStop, FailStopGoes, Fence, Signal, Registered
<1>34. CASE FailStopRetires
  BY <1>34 DEF FailStopRetires, FailStopGoes, Registered
<1>35. CASE FailStopMarks
  BY <1>35 DEF FailStopMarks, FailStopGoes, FailAs
<1>36. CASE FailStopEnds
  BY <1>36 DEF FailStopEnds, FailStopGoes, Drop
<1>37. CASE Crash
  BY <1>37 DEF Crash, Told
<1> QED
  BY <1>1, <1>2, <1>3, <1>4, <1>5, <1>6, <1>7, <1>8, <1>9, <1>10, <1>11,
         <1>12, <1>13, <1>14, <1>15, <1>16, <1>17, <1>18, <1>19, <1>20,
         <1>21, <1>22, <1>23, <1>24, <1>25, <1>26, <1>27, <1>28, <1>29,
         <1>30, <1>31, <1>32, <1>33, <1>34, <1>35, <1>36, <1>37 DEF Next,
         WorkerNext, LightNext, LockNext, FailStopNext

\* The engine is fenced before the drain and asked for the target once.
LEMMA SendingStep ==
    ASSUME Typed, Control, FenceIsOwned, Reserved, Sending, [Next]_vars
    PROVE  Sending'
<1> USE DEF gateVars, diskVars, lockVars, workerVars, Typed, GateTyped,
       LockTyped, RestTyped, WorkersTyped, Registered, Control, Reserving,
       FenceIsOwned, Reserved, Sending
<1>1. ASSUME NEW w \in Worker, Acquire(w) PROVE Sending'
  BY <1>1 DEF Acquire, Moves, Open
<1>2. ASSUME NEW w \in Worker, Sent(w) PROVE Sending'
  BY <1>2 DEF Sent, Moves, Drop
<1>3. ASSUME NEW w \in Worker, SendFails(w) PROVE Sending'
  BY <1>3 DEF SendFails, Moves, Fence
<1>4. ASSUME NEW w \in Worker, Refused(w) PROVE Sending'
  BY <1>4 DEF Refused, Moves, Fence, Open
<1>5. ASSUME NEW w \in Worker, Stops(w) PROVE Sending'
  BY <1>5 DEF Stops, Moves, Fence
<1>6. ASSUME NEW w \in Worker, AbandonedEnds(w) PROVE Sending'
  BY <1>6 DEF AbandonedEnds, Moves, Drop
<1>7. ASSUME NEW w \in Worker, Join(w) PROVE Sending'
  BY <1>7 DEF Join, Joining, Moves, Drop
<1>8. ASSUME NEW w \in Worker, JoinTimesOut(w) PROVE Sending'
  BY <1>8 DEF JoinTimesOut, NotJoined, Fence, Registered
<1>9. ASSUME NEW w \in Worker, AddDisplay(w) PROVE Sending'
  BY <1>9 DEF AddDisplay, Open, Moves
<1>10. ASSUME NEW w \in Worker, PublishDisplay(w) PROVE Sending'
  BY <1>10 DEF PublishDisplay, Withdrawn, Open, Moves, Drop
<1>11. ASSUME NEW w \in Worker, AddingFails(w) \/ AdmitDisplay(w) \/ Reaped(w)
    PROVE  Sending'
  BY <1>11 DEF AddingFails, AdmitDisplay, Reaped, Withdrawn, Moves, Drop
<1>12. ASSUME NEW w \in Worker, OpenRoute(w) PROVE Sending'
  BY <1>12 DEF OpenRoute, Is, Goes, Moves, Activated, Beside
<1>13. ASSUME NEW w \in Worker, PublishRoute(w) PROVE Sending'
  BY <1>13 DEF PublishRoute, Is, Goes, Moves, Activated, Beside, Drop
<1>14. ASSUME NEW w \in Worker, OpeningFails(w) PROVE Sending'
  BY <1>14 DEF OpeningFails, Is, Goes, Moves, Beside, FenceAndDrop
<1>15. CASE (\E r \in Targets : BeginRole(r)) \/ BeginSync \/ BeginSwap
            \/ WriteStandby \/ RecordStandby \/ RetireInputs \/ Stopped
            \/ AskEngine \/ Started \/ WriteTarget \/ RecordTarget
            \/ PublishSnapshot \/ Unwound \/ Cleared \/ WriteDenial
            \/ FailStopWrites \/ UNCHANGED vars
  BY <1>15 DEF BeginRole, BeginSync, BeginSwap, WriteStandby, RecordStandby,
         RetireInputs, Stopped, AskEngine, Started, WriteTarget,
         RecordTarget, PublishSnapshot, Unwound, Cleared, WriteDenial,
         FailStopWrites, vars, Begin, Beside, Is, Goes, FailStopGoes, Writes,
         Unwritten
<1>16. CASE Light
  BY <1>16 DEF Light, Open
<1>17. CASE Unlight
  BY <1>17 DEF Unlight, Drop
<1>18. CASE Harvest
  BY <1>18 DEF Harvest, Is, Goes, Beside, Drop
<1>19. CASE Reserve
  BY <1>19 DEF Reserve, Is, Goes, Ends, Signal, Registered, Beside
<1>20. CASE FenceEngine
  BY <1>20 DEF FenceEngine, Is, Goes, Beside
<1>21. CASE Drain
  BY <1>21 DEF Drain, Is, Goes, Holding, Superseded, GivesUp, FailAs, Beside
<1>22. CASE Prepare
  BY <1>22 DEF Prepare, Is, Goes, Beside
<1>23. CASE Activate
  BY <1>23 DEF Activate, Is, Goes, Beside
<1>24. CASE Complete
  BY <1>24 DEF Complete, Is, Ends, Holding, Reopen, FailAs, Beside, Busy, Held,
         Forgotten
<1>25. CASE Disarm
  BY <1>25 DEF Disarm, Is, Ends, Reopen, FailAs, Beside, Busy, Held, Forgotten
<1>26. CASE Abort
  BY <1>26 DEF Abort, Is, Ends, FailAs, Beside
<1>27. CASE GiveBack
  BY <1>27 DEF GiveBack, Is, Holding, FailAs, Beside
<1>28. CASE FenceFailure
  BY <1>28 DEF FenceFailure, Is, Goes, Holding, Fence, Beside
<1>29. CASE Cleanup
  BY <1>29 DEF Cleanup, Is, Goes, Signal, Registered, Beside
<1>30. CASE FailTransition
  BY <1>30 DEF FailTransition, Is, Holding, FailAs, Beside
<1>31. CASE Mark
  BY <1>31 DEF Mark, Goes, FailAs, Beside
<1>32. CASE ReleaseLock
  BY <1>32 DEF ReleaseLock, Is, Ends, Beside, Drop
<1>33. CASE FailStop
  BY <1>33 DEF FailStop, FailStopGoes, Fence, Signal, Registered
<1>34. CASE FailStopRetires
  BY <1>34 DEF FailStopRetires, FailStopGoes, Registered
<1>35. CASE FailStopMarks
  BY <1>35 DEF FailStopMarks, FailStopGoes, FailAs
<1>36. CASE FailStopEnds
  BY <1>36 DEF FailStopEnds, FailStopGoes, Drop
<1>37. CASE Crash
  BY <1>37 DEF Crash, Told
<1> QED
  BY <1>1, <1>2, <1>3, <1>4, <1>5, <1>6, <1>7, <1>8, <1>9, <1>10, <1>11,
         <1>12, <1>13, <1>14, <1>15, <1>16, <1>17, <1>18, <1>19, <1>20,
         <1>21, <1>22, <1>23, <1>24, <1>25, <1>26, <1>27, <1>28, <1>29,
         <1>30, <1>31, <1>32, <1>33, <1>34, <1>35, <1>36, <1>37 DEF Next,
         WorkerNext, LightNext, LockNext, FailStopNext

\* The marker names a role only between its last write and the next change.
LEMMA MarkerStep ==
    ASSUME Typed, Control, MarkerKept, [Next]_vars
    PROVE  MarkerKept'
<1> USE DEF gateVars, diskVars, lockVars, Typed, GateTyped, LockTyped,
       RestTyped, Control, Reserving, Errand, MarkerKept, MarkerIsEarned
<1>1. ASSUME NEW w \in Worker, Acquire(w) \/ Sent(w) \/ SendFails(w)
          \/ Refused(w) \/ Stops(w) \/ AbandonedEnds(w) \/ Join(w)
          \/ AddDisplay(w) \/ AdmitDisplay(w)
          \/ PublishDisplay(w) \/ AddingFails(w) \/ Reaped(w)
    PROVE  MarkerKept'
  BY <1>1 DEF Acquire, Sent, SendFails, Refused, Stops, AbandonedEnds, Join,
         AddDisplay, PublishDisplay, AddingFails, AdmitDisplay, Reaped,
         Withdrawn
<1>2. ASSUME NEW w \in Worker, JoinTimesOut(w) PROVE MarkerKept'
  BY <1>2 DEF JoinTimesOut, NotJoined, Fence, Registered
<1>3. ASSUME NEW w \in Worker, OpenRoute(w) PROVE MarkerKept'
  BY <1>3 DEF OpenRoute, Is, Goes, Moves, Activated, Beside
<1>4. ASSUME NEW w \in Worker, PublishRoute(w) PROVE MarkerKept'
  BY <1>4 DEF PublishRoute, Is, Goes, Moves, Activated, Beside, Drop
<1>5. ASSUME NEW w \in Worker, OpeningFails(w) PROVE MarkerKept'
  BY <1>5 DEF OpeningFails, Is, Goes, Moves, Beside, FenceAndDrop
<1>6. CASE Light \/ Unlight \/ FailStop \/ FailStopRetires \/ FailStopMarks
            \/ FailStopEnds \/ UNCHANGED vars
  BY <1>6 DEF Light, Unlight, FailStop, FailStopRetires, FailStopMarks,
         FailStopEnds, vars
<1>7. ASSUME NEW r \in Targets, BeginRole(r) PROVE MarkerKept'
  BY <1>7 DEF BeginRole, Begin, Is, Beside
<1>8. CASE BeginSync
  BY <1>8 DEF BeginSync, Begin, Is, Beside
<1>9. CASE BeginSwap
  BY <1>9 DEF BeginSwap, Begin, Is, Beside
<1>10. CASE Harvest
  BY <1>10 DEF Harvest, Is, Goes, Beside, Drop
<1>11. CASE WriteStandby
  BY <1>11 DEF WriteStandby, Is, Goes, Writes, Unwritten, Beside
<1>12. CASE RecordStandby
  BY <1>12 DEF RecordStandby, Is, Goes, Beside
<1>13. CASE Reserve
  BY <1>13 DEF Reserve, Is, Goes, Ends, Signal, Registered, Beside
<1>14. CASE RetireInputs
  BY <1>14 DEF RetireInputs, Is, Goes, Beside
<1>15. CASE FenceEngine
  BY <1>15 DEF FenceEngine, Is, Goes, Beside
<1>16. CASE Stopped
  BY <1>16 DEF Stopped, Is, Goes, Beside
<1>17. CASE Drain
  BY <1>17 DEF Drain, Is, Goes, Holding, Superseded, GivesUp, FailAs, Beside
<1>18. CASE AskEngine
  BY <1>18 DEF AskEngine, Is, Goes, Beside
<1>19. CASE Prepare
  BY <1>19 DEF Prepare, Is, Goes, Beside
<1>20. CASE Activate
  BY <1>20 DEF Activate, Is, Goes, Beside
<1>21. CASE Started
  BY <1>21 DEF Started, Is, Goes, Beside
<1>22. CASE WriteTarget
  BY <1>22 DEF WriteTarget, Is, Goes, Writes, Unwritten, Beside
<1>23. CASE RecordTarget
  BY <1>23 DEF RecordTarget, Is, Goes, Beside
<1>24. CASE Complete
  BY <1>24 DEF Complete, Is, Ends, Holding, Reopen, FailAs, Beside
<1>25. CASE PublishSnapshot
  BY <1>25 DEF PublishSnapshot, Is, Goes, Beside
<1>26. CASE Disarm
  BY <1>26 DEF Disarm, Is, Ends, Reopen, FailAs, Beside
<1>27. CASE Unwound
  BY <1>27 DEF Unwound, Is, Goes, Beside
<1>28. CASE Abort
  BY <1>28 DEF Abort, Is, Ends, FailAs, Beside
<1>29. CASE GiveBack
  BY <1>29 DEF GiveBack, Is, Holding, FailAs, Beside
<1>30. CASE FenceFailure
  BY <1>30 DEF FenceFailure, Is, Goes, Holding, Fence, Beside
<1>31. CASE Cleanup
  BY <1>31 DEF Cleanup, Is, Goes, Signal, Registered, Beside
<1>32. CASE Cleared
  BY <1>32 DEF Cleared, Is, Goes, Beside
<1>33. CASE FailTransition
  BY <1>33 DEF FailTransition, Is, Holding, FailAs, Beside
<1>34. CASE WriteDenial
  BY <1>34 DEF WriteDenial, Is, Goes, Writes, Unwritten, Beside
<1>35. CASE Mark
  BY <1>35 DEF Mark, Goes, FailAs, Beside
<1>36. CASE ReleaseLock
  BY <1>36 DEF ReleaseLock, Is, Ends, Beside, Drop
<1>37. CASE FailStopWrites
  BY <1>37 DEF FailStopWrites, FailStopGoes, Writes, Unwritten
<1>38. CASE Crash
  BY <1>38 DEF Crash, Told
<1> QED
  BY <1>1, <1>2, <1>3, <1>4, <1>5, <1>6, <1>7, <1>8, <1>9, <1>10, <1>11,
         <1>12, <1>13, <1>14, <1>15, <1>16, <1>17, <1>18, <1>19, <1>20,
         <1>21, <1>22, <1>23, <1>24, <1>25, <1>26, <1>27, <1>28, <1>29,
         <1>30, <1>31, <1>32, <1>33, <1>34, <1>35, <1>36, <1>37,
         <1>38 DEF Next, WorkerNext, LightNext, LockNext, FailStopNext

\* Every write of the marker is recorded by whoever made it, or made again,
\* or known to be lost.
LEMMA MemoryStep ==
    ASSUME Typed, Control, FenceIsOwned, Reserved, MarkerKept, MemoryKept, [Next]_vars
    PROVE  MemoryKept'
<1> USE DEF gateVars, diskVars, lockVars, Typed, GateTyped, LockTyped,
       RestTyped, Control, Reserving, FenceIsOwned, Reserved, MarkerKept,
       MemoryKept, Unsettled, workerVars, Registered
<1>1. ASSUME NEW w \in Worker, Acquire(w) \/ AddDisplay(w)
    PROVE  MemoryKept'
  BY <1>1 DEF Acquire, AddDisplay
<1>2. ASSUME NEW w \in Worker, Sent(w) PROVE MemoryKept'
  BY <1>2 DEF Sent, Moves, Drop
<1>3. ASSUME NEW w \in Worker, SendFails(w) PROVE MemoryKept'
  BY <1>3 DEF SendFails, Moves, Fence
<1>4. ASSUME NEW w \in Worker, Refused(w) PROVE MemoryKept'
  BY <1>4 DEF Refused, Moves, Fence, Open
<1>5. ASSUME NEW w \in Worker, Stops(w) PROVE MemoryKept'
  BY <1>5 DEF Stops, Moves, Fence
<1>6. ASSUME NEW w \in Worker, AbandonedEnds(w) PROVE MemoryKept'
  BY <1>6 DEF AbandonedEnds, Moves, Drop
<1>7. ASSUME NEW w \in Worker, Join(w) PROVE MemoryKept'
  BY <1>7 DEF Join, Joining, Moves, Drop
<1>8. ASSUME NEW w \in Worker, JoinTimesOut(w) PROVE MemoryKept'
  BY <1>8 DEF JoinTimesOut, NotJoined, Fence, Registered
<1>9. ASSUME NEW w \in Worker, PublishDisplay(w) PROVE MemoryKept'
  BY <1>9 DEF PublishDisplay, Withdrawn, Open, Moves, Drop
<1>10. ASSUME NEW w \in Worker, AddingFails(w) \/ AdmitDisplay(w) \/ Reaped(w)
    PROVE  MemoryKept'
  BY <1>10 DEF AddingFails, AdmitDisplay, Reaped, Withdrawn, Moves, Drop
<1>11. ASSUME NEW w \in Worker, OpenRoute(w) PROVE MemoryKept'
  BY <1>11 DEF OpenRoute, Is, Goes, Moves, Activated, Beside
<1>12. ASSUME NEW w \in Worker, PublishRoute(w) PROVE MemoryKept'
  BY <1>12 DEF PublishRoute, Is, Goes, Moves, Activated, Beside, Drop
<1>13. ASSUME NEW w \in Worker, OpeningFails(w) PROVE MemoryKept'
  BY <1>13 DEF OpeningFails, Is, Goes, Moves, Beside, FenceAndDrop
<1>14. CASE Light \/ UNCHANGED vars
  BY <1>14 DEF Light, vars
<1>15. CASE Unlight
  BY <1>15 DEF Unlight, Drop
<1>16. ASSUME NEW r \in Targets, BeginRole(r) PROVE MemoryKept'
  BY <1>16 DEF BeginRole, Begin, Is, Beside
<1>17. CASE BeginSync
  BY <1>17 DEF BeginSync, Begin, Is, Beside
<1>18. CASE BeginSwap
  BY <1>18 DEF BeginSwap, Begin, Is, Beside
<1>19. CASE Harvest
  BY <1>19 DEF Harvest, Is, Goes, Beside, Drop
<1>20. CASE WriteStandby
  BY <1>20 DEF WriteStandby, Is, Goes, Writes, Unwritten, Beside
<1>21. CASE RecordStandby
  BY <1>21 DEF RecordStandby, Is, Goes, Beside
<1>22. CASE Reserve
  BY <1>22 DEF Reserve, Is, Goes, Ends, Signal, Registered, Beside
<1>23. CASE RetireInputs
  BY <1>23 DEF RetireInputs, Is, Goes, Beside
<1>24. CASE FenceEngine
  BY <1>24 DEF FenceEngine, Is, Goes, Beside
<1>25. CASE Stopped
  BY <1>25 DEF Stopped, Is, Goes, Beside
<1>26. CASE Drain
  BY <1>26 DEF Drain, Is, Goes, Holding, Superseded, GivesUp, FailAs, Beside
<1>27. CASE AskEngine
  BY <1>27 DEF AskEngine, Is, Goes, Beside
<1>28. CASE Prepare
  BY <1>28 DEF Prepare, Is, Goes, Beside
<1>29. CASE Activate
  BY <1>29 DEF Activate, Is, Goes, Beside
<1>30. CASE Started
  BY <1>30 DEF Started, Is, Goes, Beside
<1>31. CASE WriteTarget
  BY <1>31 DEF WriteTarget, Is, Goes, Writes, Unwritten, Beside
<1>32. CASE RecordTarget
  BY <1>32 DEF RecordTarget, Is, Goes, Beside
<1>33. CASE Complete
  BY <1>33 DEF Complete, Is, Ends, Holding, Reopen, FailAs, Beside, Busy, Held,
         Forgotten
<1>34. CASE PublishSnapshot
  BY <1>34 DEF PublishSnapshot, Is, Goes, Beside
<1>35. CASE Disarm
  BY <1>35 DEF Disarm, Is, Ends, Reopen, FailAs, Beside, Busy, Held, Forgotten
<1>36. CASE Unwound
  BY <1>36 DEF Unwound, Is, Goes, Beside
<1>37. CASE Abort
  BY <1>37 DEF Abort, Is, Ends, FailAs, Beside
<1>38. CASE GiveBack
  BY <1>38 DEF GiveBack, Is, Holding, FailAs, Beside
<1>39. CASE FenceFailure
  BY <1>39 DEF FenceFailure, Is, Goes, Holding, Fence, Beside
<1>40. CASE Cleanup
  BY <1>40 DEF Cleanup, Is, Goes, Signal, Registered, Beside
<1>41. CASE Cleared
  BY <1>41 DEF Cleared, Is, Goes, Beside
<1>42. CASE FailTransition
  BY <1>42 DEF FailTransition, Is, Holding, FailAs, Beside
<1>43. CASE WriteDenial
  BY <1>43 DEF WriteDenial, Is, Goes, Writes, Unwritten, Beside
<1>44. CASE Mark
  BY <1>44 DEF Mark, Goes, FailAs, Beside
<1>45. CASE ReleaseLock
  BY <1>45 DEF ReleaseLock, Is, Ends, Beside, Drop
<1>46. CASE FailStop
  BY <1>46 DEF FailStop, FailStopGoes, Fence, Signal, Registered
<1>47. CASE FailStopRetires
  BY <1>47 DEF FailStopRetires, FailStopGoes, Registered
<1>48. CASE FailStopWrites
  BY <1>48 DEF FailStopWrites, FailStopGoes, Writes, Unwritten
<1>49. CASE FailStopMarks
  BY <1>49 DEF FailStopMarks, FailStopGoes, FailAs
<1>50. CASE FailStopEnds
  BY <1>50 DEF FailStopEnds, FailStopGoes, Drop
<1>51. CASE Crash
  BY <1>51, ToldByMarker DEF Crash
<1> QED
  BY <1>1, <1>2, <1>3, <1>4, <1>5, <1>6, <1>7, <1>8, <1>9, <1>10, <1>11,
         <1>12, <1>13, <1>14, <1>15, <1>16, <1>17, <1>18, <1>19, <1>20,
         <1>21, <1>22, <1>23, <1>24, <1>25, <1>26, <1>27, <1>28, <1>29,
         <1>30, <1>31, <1>32, <1>33, <1>34, <1>35, <1>36, <1>37, <1>38,
         <1>39, <1>40, <1>41, <1>42, <1>43, <1>44, <1>45, <1>46, <1>47,
         <1>48, <1>49, <1>50, <1>51 DEF Next, WorkerNext, LightNext,
         LockNext, FailStopNext

\* Only complete and complete_project_swap_disarmed open the gate.
LEMMA OpeningStep ==
    ASSUME Typed, Control, FenceIsOwned, Reserved, state # "Ready",
           state' = "Ready", [Next]_vars
    PROVE  Reserving /\ epoch = reserved
<1> USE DEF gateVars, Reserving
<1>1. ASSUME NEW w \in Worker, Acquire(w) \/ Sent(w) \/ SendFails(w)
          \/ Refused(w) \/ Stops(w) \/ AbandonedEnds(w) \/ Join(w)
          \/ JoinTimesOut(w) \/ AddDisplay(w) \/ AdmitDisplay(w)
          \/ PublishDisplay(w) \/ AddingFails(w) \/ Reaped(w) \/ OpenRoute(w)
          \/ PublishRoute(w)
          \/ OpeningFails(w)
    PROVE  Reserving /\ epoch = reserved
  BY <1>1 DEF Acquire, Sent, SendFails, Refused, Stops, AbandonedEnds, Join,
         JoinTimesOut, AddDisplay, PublishDisplay, AddingFails, AdmitDisplay,
         Reaped, Withdrawn, OpenRoute, PublishRoute, OpeningFails, Drop, Fence,
         FailAs, FenceAndDrop, NotJoined, Begin
<1>2. CASE Light \/ Unlight \/ (\E r \in Targets : BeginRole(r)) \/ BeginSync
            \/ BeginSwap \/ Harvest \/ WriteStandby \/ RecordStandby
            \/ Reserve \/ RetireInputs \/ FenceEngine \/ Stopped \/ Drain
            \/ AskEngine \/ Prepare \/ Activate \/ Started \/ WriteTarget
            \/ RecordTarget \/ PublishSnapshot \/ Unwound \/ Abort \/ GiveBack
            \/ FenceFailure \/ Cleanup \/ Cleared \/ FailTransition
            \/ WriteDenial \/ Mark \/ ReleaseLock \/ FailStop
            \/ FailStopRetires \/ FailStopWrites \/ FailStopMarks
            \/ FailStopEnds \/ Crash \/ UNCHANGED vars
  BY <1>2 DEF Light, Unlight, BeginRole, BeginSync, BeginSwap, Harvest,
         WriteStandby, RecordStandby, Reserve, RetireInputs, FenceEngine,
         Stopped, Drain, AskEngine, Prepare, Activate, Started, WriteTarget,
         RecordTarget, PublishSnapshot, Unwound, Abort, GiveBack,
         FenceFailure, Cleanup, Cleared, FailTransition, WriteDenial, Mark,
         ReleaseLock, FailStop, FailStopRetires, FailStopWrites,
         FailStopMarks, FailStopEnds, Crash, vars, Drop, Fence, FailAs,
         FenceAndDrop, NotJoined, Begin
<1>3. CASE Complete
  BY <1>3 DEF Complete, Is, Ends, Holding, Reopen, FailAs, Beside, Busy, Held,
         Forgotten, FenceIsOwned, RestTyped, Typed
<1>4. CASE Disarm
  BY <1>4 DEF Disarm, Is, Ends, Reopen, FailAs, Beside, Busy, Held, Forgotten,
         FenceIsOwned, RestTyped, Typed
<1> QED
  BY <1>1, <1>2, <1>3, <1>4 DEF Next, WorkerNext, LightNext, LockNext,
         FailStopNext

-----------------------------------------------------------------------------
(* The theorems *)

\* A process that starts is denied, whatever the marker says.
LEMMA SoundInit == Init => Sound
<1> SUFFICES ASSUME Init PROVE Sound
  OBVIOUS
<1>1. PICK told \in Told : desired = told.wish /\ persisted = told.known
  BY DEF Init
<1>2. marker \in Role
  BY OwnershipConstants DEF Init
<1>3. /\ desired \in Role
      /\ persisted \in Role \union {"none"} /\ persisted \in {marker, "none"}
  BY <1>1, <1>2, ToldByMarker DEF Role
<1>4. Typed
  <2>1. GateTyped
    BY <1>3 DEF Init, GateTyped, Role
  <2>2. ActiveTyped /\ lost \in BOOLEAN /\ publishing \in BOOLEAN
    BY Zenon DEF Init, ActiveTyped
  <2>3. LockTyped
    BY DEF Init, LockTyped, Role, Step, Errand
  <2>4. RestTyped
    BY <1>2, <2>2 DEF Init, RestTyped, Role, FailStopStep
  <2>5. WorkersTyped
    BY DEF Init, WorkersTyped, Phase, Registered
  <2>6. QED
    BY <2>1, <2>2, <2>3, <2>4, <2>5 DEF Typed
<1>5. Control /\ FenceIsOwned /\ HeldIsFenced /\ Reserved
  BY DEF Init, Control, FenceIsOwned, HeldIsFenced, Busy, Held, Forgotten,
         Reserved, Reserving
<1>6. Drained /\ ReadyIsQuiet /\ Sending
  BY DEF Init, Drained, ReadyIsQuiet, Sending, Reserving
<1>7. MarkerKept /\ MemoryKept
  BY <1>3 DEF Init, MarkerKept, MarkerIsEarned, MemoryKept, Reserving, Unsettled
<1>8. QED
  BY <1>4, <1>5, <1>6, <1>7 DEF Sound

\* The invariant is inductive.
LEMMA SoundStep == Sound /\ [Next]_vars => Sound'
<1> SUFFICES ASSUME Sound, [Next]_vars PROVE Sound'
  OBVIOUS
<1> USE DEF Sound
<1>1. Typed'
  BY GateTypedStep, ActiveTypedStep, LockTypedStep, RestTypedStep,
     WorkersTypedStep DEF Typed
<1>2. Control' /\ FenceIsOwned' /\ HeldIsFenced' /\ Reserved'
  BY ControlStep, FenceStep, HeldStep, ReservedStep
<1>3. Drained' /\ Sending' /\ ReadyIsQuiet'
  BY DrainedStep, SendingStep, ReadyStep
<1>4. MarkerKept' /\ MemoryKept'
  BY MarkerStep, MemoryStep
<1>5. QED
  BY <1>1, <1>2, <1>3, <1>4

\* It holds in every reachable state.
LEMMA SoundAlways == Spec => []Sound
  BY SoundInit, SoundStep, PTL DEF Spec

\* Every reachable state of the gate, the disk, the lock and the workers is
\* well typed (OutputOwnershipGateState and its leases).
THEOREM TypeCorrect == Spec => []OwnershipTypeOK
<1>1. Sound => OwnershipTypeOK
  BY TypedImpliesTypeOK DEF Sound
<1>2. QED
  BY <1>1, SoundAlways, PTL

\* A failed gate is fenced exactly as long as a lease is out, for good where one
\* was forgotten; a gate that is changing by the thread that reserved its epoch
\* (release_output_ownership_in_flight, fail_locked).
THEOREM FenceAlwaysHeld == Spec => []FencedWhileHeld
<1>1. Sound => FencedWhileHeld
  <2> SUFFICES ASSUME Sound PROVE FencedWhileHeld
    OBVIOUS
  <2>1. /\ state = "Ready" => ~active
        /\ state \in {"Transitioning", "Activating"} =>
              active /\ owns \in {"retirement", "transition"} /\ reserved = epoch
    BY DEF Sound, Reserved, Reserving, FenceIsOwned
  <2>2. state = "Failed" => (active <=> Busy)
    BY Zenon DEF Sound, FenceIsOwned, HeldIsFenced
  <2>3. QED
    BY <2>1, <2>2, Zenon DEF FencedWhileHeld, Busy
<1>2. QED
  BY <1>1, SoundAlways, PTL

\* Nothing of an earlier epoch is left behind an open gate.
THEOREM ReadyAlwaysQuiet == Spec => []ReadyIsQuiet
<1>1. Sound => ReadyIsQuiet
  BY DEF Sound
<1>2. QED
  BY <1>1, SoundAlways, PTL

\* The gate opens only in the epoch that was reserved, and never past a fault,
\* although complete compares neither: the fence of a failed gate is not left
\* without a lease, and complete refuses while one is out.
THEOREM OpensUnfaulted == Spec => ReadyIsUnfaulted
<1>1. ASSUME Sound, [Next]_vars
      PROVE  state # "Ready" /\ state' = "Ready" => Reserving /\ epoch = reserved
  BY <1>1, OpeningStep DEF Sound
<1>2. QED
  BY <1>1, SoundAlways, PTL DEF ReadyIsUnfaulted, Spec, Reserving

\* A role on disk was prepared to its end since the last change was reserved,
\* and the memory of it agrees when nobody is at work.
THEOREM MarkerAlwaysTrue == Spec => []MarkerIsTrue
<1>1. Sound => MarkerIsTrue
  BY DEF Sound, MarkerKept, MemoryKept, MarkerIsTrue, MemoryAgrees, Unsettled
<1>2. QED
  BY <1>1, SoundAlways, PTL

=============================================================================
