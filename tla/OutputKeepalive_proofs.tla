---------------------- MODULE OutputKeepalive_proofs ----------------------
(***************************************************************************)
(* Safety proofs for OutputKeepalive: for any number of Enables, boundary  *)
(* calls and replays, and for any set of faults, an armed run is that of   *)
(* the newest Enable and has its worker, a fail-stop pass is executed by   *)
(* one flow, a token exists only after a clean denial, and the lease is    *)
(* given back only when its outputs are dark.                              *)
(*                                                                         *)
(* What carries the argument is age: everything a flow keeps from an       *)
(* earlier section (its plan, the run it is to start, its own thread) is   *)
(* at most the newest Enable the manager accepted, and older than the one  *)
(* the manager keeps for later.  So an Enable that is armed next was never *)
(* seen by any plan, and a pass that is begun next was never executed.     *)
(***************************************************************************)
EXTENDS OutputKeepalive, TLAPS

----------------------------------------------------------------------------
(* The inductive invariant                                                 *)

\* A flow that is to start the worker of the run it has just armed.
Starting == {"spawn", "unspawned"}

\* A flow that executes a fail-stop pass it has claimed.
Executing == {"cancel", "join", "deny", "complete"}

RegistryTyped ==
    /\ issued \in 0 .. MaxEnables /\ lease \in Enable \cup {NoEnable}
    /\ phase \in {"none", "active", "due", "orphaned"}
    /\ lit \in Enable \cup {NoEnable}

ManagerTyped ==
    /\ slot \in {"idle", "armed", "faulting", "faulted"}
    /\ cur \in Enable \cup {NoEnable} /\ run \in Enable \cup {NoEnable}
    /\ attempt \in Nat /\ boundary \in {"none", "automatic", "relinquish"}
    /\ report \in {"none", "clean", "failed"}
    /\ permit \in {Lane, Nobody} /\ proof \in Flow \cup {Nobody}
    /\ deferred \in Enable \cup {NoEnable}
    /\ highest \in Enable \cup {NoEnable}

\* The two Boolean variables.
FlagsTyped == renewed \in BOOLEAN /\ claimed \in BOOLEAN

SlotTyped ==
    /\ active \in Enable \cup {NoEnable}
    /\ reaping \subseteq Enable /\ outer \subseteq Enable

PlacesTyped == pc \in [Flow -> Place]

PlansTyped ==
    /\ planOf \in [Flow -> Enable \cup {NoEnable}]
    /\ planRun \in [Flow -> Enable \cup {NoEnable}]
    /\ planAttempt \in [Flow -> Nat]
    /\ failed \subseteq Flow
    /\ newer \in [Flow -> Enable \cup {NoEnable}]
    /\ tries \in [Flow -> 0 .. 1]

\* A Relinquish that decides has a round left.
CallsTyped ==
    /\ asked \in Enable \cup {NoEnable} /\ after \in {"end", "readmit"}
    /\ rounds \in 0 .. 2 /\ calls \in 0 .. MaxCalls
    /\ replays \in 0 .. MaxReplays
    /\ pc[Manual] = "manual" => rounds <= 1

Typed ==
    /\ RegistryTyped
    /\ ManagerTyped
    /\ FlagsTyped
    /\ SlotTyped
    /\ PlacesTyped
    /\ PlansTyped
    /\ CallsTyped

\* The manager's run and the Enables it knows, by age.
Ranked ==
    /\ highest <= issued /\ asked <= issued
    /\ run <= cur /\ cur <= highest
    /\ phase = "active" => lease = issued
    /\ pc[Lane] \in {"admit", "cleanup"} => asked = issued /\ highest < issued
    /\ slot = "idle" => cur = NoEnable /\ deferred = NoEnable
    /\ slot # "idle" => run # NoEnable
    /\ slot = "armed" => cur = highest /\ deferred = NoEnable /\ attempt = 0
    /\ deferred # NoEnable => deferred = highest /\ cur < deferred
    /\ proof # Nobody => deferred # NoEnable

\* What a flow keeps is not newer than what the manager accepted, and older
\* than what it keeps for later.
PlansAreOld ==
    \A f \in Flow :
        /\ planRun[f] <= highest /\ planOf[f] <= highest
        /\ deferred # NoEnable => planRun[f] < deferred /\ planOf[f] < deferred
        /\ pc[f] \in {"claim"} \cup Executing \cup Starting =>
              planRun[f] # NoEnable

\* No plan of a pass still to come, and of an armed run only its start.
PassesAreNew ==
    \A f \in Flow :
        /\ slot # "idle" /\ planOf[f] = cur => planAttempt[f] <= attempt
        /\ slot = "armed" /\ planRun[f] = run => pc[f] \in Starting

\* A worker that runs was spawned for an Enable the manager accepted.
WorkersAreOld ==
    \A r \in Enable :
        pc[Worker(r)] # "rest" =>
            r <= highest /\ (deferred # NoEnable => r < deferred)

\* A run about to be spawned has no worker yet.
StartsAreFresh ==
    \A f \in Flow : pc[f] \in Starting => pc[Worker(planRun[f])] = "rest"

\* It is about to be spawned by one flow.
StartsDiffer ==
    \A f, g \in Flow :
        pc[f] \in Starting /\ pc[g] \in Starting /\ planRun[f] = planRun[g]
            => f = g

\* The gate of a pass is open only while nobody executes the pass.
GateIsOpen ==
    slot = "faulting" /\ ~claimed =>
        \A f \in Flow :
            pc[f] \in Executing => ~(planOf[f] = cur /\ planAttempt[f] = attempt)

\* A denial that reports no failure has darkened the outputs, and nothing
\* lights those of a run that was denied.
DenialIsDark ==
    /\ Clean => lit # cur
    /\ \A f \in Flow : pc[f] = "complete" /\ f \notin failed => lit = NoEnable

\* The inductive invariant.
Sound ==
    /\ Typed
    /\ Ranked
    /\ PlansAreOld
    /\ PassesAreNew
    /\ WorkersAreOld
    /\ StartsAreFresh
    /\ StartsDiffer
    /\ GateIsOpen
    /\ DenialIsDark
    /\ FailStopOnce
    /\ TokenNeedsCleanDenial
    /\ IdleOwnsNothing
    /\ ArmedIsSupervised

----------------------------------------------------------------------------
(* The flows, their places and the parts of the invariant                  *)

\* The lane, the window, the Relinquish and every worker are different flows,
\* and none of them is Nobody.
LEMMA FlowsDiffer ==
    /\ Lane \in Flow /\ Window \in Flow /\ Manual \in Flow
    /\ Lane # Window /\ Lane # Manual /\ Window # Manual
    /\ Nobody \notin Flow
    /\ \A r \in Enable :
          /\ Worker(r) \in Flow
          /\ Worker(r) # Lane /\ Worker(r) # Window /\ Worker(r) # Manual
    /\ \A r, s \in Enable : Worker(r) = Worker(s) => r = s
BY DEF Flow, Caller, Lane, Window, Manual, Nobody, Worker

\* The module's type invariant is the typing of the groups.
LEMMA TypedIsTypeOK == Typed => KeepaliveTypeOK
<1> SUFFICES ASSUME Typed PROVE KeepaliveTypeOK
  OBVIOUS
<1>1. renewed \in BOOLEAN /\ claimed \in BOOLEAN
  BY DEF Typed, FlagsTyped
<1> QED
  BY <1>1, Zenon DEF Typed, RegistryTyped, ManagerTyped, SlotTyped, PlacesTyped,
     PlansTyped,
     CallsTyped, KeepaliveTypeOK

----------------------------------------------------------------------------
(* Types                                                                   *)

\* The registry names Enables that were issued.
LEMMA RegistryStaysTyped ==
    ASSUME RegistryTyped, ManagerTyped, Ranked, [Next]_vars
    PROVE  RegistryTyped'
<1> USE KeepaliveConstants DEF RegistryTyped, Enable, NoEnable, registryVars,
       managerVars, faultVars, slotVars, planVars, callVars
<1>1. CASE AdmissionFails \/ Cleanup \/ Relinquish \/ Admit \/ Stays
          \/ UNCHANGED vars
  BY <1>1 DEF AdmissionFails, Cleanup, Relinquish, Admit, Stays, vars
<1>2. ASSUME NEW e \in Enable, Replay(e) PROVE RegistryTyped'
  BY <1>2 DEF Replay
<1>3. ASSUME NEW f \in Flow, Claim(f) \/ Cancel(f) \/ Join(f) \/ Complete(f)
          \/ Prepare(f) \/ FinishProof(f) \/ Spawn(f) \/ SpawnFails(f)
          \/ Unspawned(f) \/ StartBoundary(f)
     PROVE  RegistryTyped'
  BY <1>3 DEF Claim, Cancel, Join, Complete, Prepare, FinishProof, Spawn,
         SpawnFails, Unspawned, StartBoundary
<1>4. ASSUME NEW r \in Enable, WorkerWakes(r) \/ WorkerCancelled(r)
          \/ WorkerFails(r)
     PROVE  RegistryTyped'
  BY <1>4 DEF WorkerWakes, WorkerCancelled, WorkerFails
<1>5. CASE Lapse
  BY <1>5 DEF Lapse
<1>6. CASE Commit
  BY <1>6 DEF Commit, GoTo
<1>7. CASE SpendPermit
  BY <1>7 DEF SpendPermit, Released, Refused, Current, GoesIdle, KeepsPlan,
         Ends, GoTo, Forgets
<1>8. ASSUME NEW f \in Flow, Deny(f) PROVE RegistryTyped'
  BY <1>8 DEF Deny, GoTo
<1>9. ASSUME NEW f \in Flow, Release(f) PROVE RegistryTyped'
  BY <1>9 DEF Release, ReleaseOrPrepare, Released, Refused, Current, GoesIdle,
         Succeeds, Clean, Quiet, Owns, Ends, GoTo, Forgets
<1>10. ASSUME NEW f \in Flow, Prove(f) PROVE RegistryTyped'
  BY <1>10 DEF Prove, GoTo, Refused, Current
<1>11. ASSUME NEW r \in Enable, WorkerRenews(r) PROVE RegistryTyped'
  BY <1>11 DEF WorkerRenews, Refused, Current, Captures, Faulting, TakesPlan,
         Ends, GoTo, Forgets
<1>12. CASE DecideRelinquish
  BY <1>12 DEF DecideRelinquish, Captures, Retries, Faulting,
         TakesCurrentPlan, TakesPlan, ReleaseOrPrepare, Released, Refused,
         Current, GoesIdle, Succeeds, Clean, Quiet, Ends, GoTo, Forgets
<1> QED
  BY <1>1, <1>2, <1>3, <1>4, <1>5, <1>6, <1>7, <1>8, <1>9, <1>10, <1>11,
         <1>12 DEF Next, LaneNext, FlowNext, WorkerNext, Admit

\* The manager's structures keep their types: every Enable it takes over is one
\* that was asked for, kept for later or proven.
LEMMA ManagerStaysTyped ==
    ASSUME ManagerTyped, CallsTyped, PlansTyped, Ranked, [Next]_vars
    PROVE  ManagerTyped'
<1> USE FlowsDiffer, KeepaliveConstants DEF ManagerTyped, Enable, NoEnable,
       registryVars, managerVars, faultVars, slotVars, planVars, callVars
<1>1. CASE Lapse \/ Commit \/ AdmissionFails \/ Relinquish \/ Stays
          \/ UNCHANGED vars
  BY <1>1 DEF Lapse, Commit, AdmissionFails, Relinquish, Stays, vars
<1>2. ASSUME NEW e \in Enable, Replay(e) PROVE ManagerTyped'
  BY <1>2 DEF Replay
<1>3. ASSUME NEW f \in Flow, Claim(f) \/ Cancel(f) \/ Join(f) \/ Deny(f)
          \/ Prove(f) \/ Spawn(f) \/ SpawnFails(f)
     PROVE  ManagerTyped'
  BY <1>3 DEF Claim, Cancel, Join, Deny, Prove, Spawn, SpawnFails
<1>4. ASSUME NEW r \in Enable, WorkerWakes(r) \/ WorkerCancelled(r)
     PROVE  ManagerTyped'
  BY <1>4 DEF WorkerWakes, WorkerCancelled
<1>5. CASE Admit /\ AdmitIdle
  BY <1>5 DEF AdmitIdle, Admit, Admitting, Evidence, AwaitsRelease, Arms,
         Ends, GoTo, Forgets, CallsTyped, Ranked
<1>6. CASE Admit /\ AdmitSame
  BY <1>6 DEF AdmitSame, Admit, Admitting, Evidence, AwaitsRelease, Obtains,
         KeepsPlan, TakesCurrentPlan, TakesPlan, Retries, Faulting, Clean,
         Quiet, Ends, GoTo, Forgets, CallsTyped, Ranked
<1>7. CASE Admit /\ AdmitConflict
  BY <1>7 DEF AdmitConflict, Admit, Admitting, Evidence, StaleConflict,
         Defers, AwaitsRelease, Obtains, KeepsPlan, TakesCurrentPlan,
         TakesPlan, Faulting, Clean, Quiet, Ends, GoTo, Forgets, CallsTyped,
         Ranked
<1>8. CASE Cleanup
  BY <1>8 DEF Cleanup, TakesPlan, GoTo, CallsTyped, Ranked
<1>9. CASE SpendPermit
  BY <1>9 DEF SpendPermit, Released, Refused, Current, GoesIdle, KeepsPlan,
         Ends, GoTo, Forgets
<1>10. ASSUME NEW f \in Flow, Complete(f) PROVE ManagerTyped'
  BY <1>10 DEF Complete, KeepsPlan, Ends, GoTo, Forgets
<1>11. ASSUME NEW f \in Flow, Release(f) PROVE ManagerTyped'
  BY <1>11 DEF Release, ReleaseOrPrepare, Released, Refused, Current,
         GoesIdle, Succeeds, Clean, Quiet, Owns, Ends, GoTo, Forgets
<1>12. ASSUME NEW f \in Flow, Prepare(f) PROVE ManagerTyped'
  BY <1>12 DEF Prepare, Clean, Quiet, Ends, GoTo, Forgets
<1>13. ASSUME NEW f \in Flow, FinishProof(f) PROVE ManagerTyped'
  BY <1>13 DEF FinishProof, Arms, TriesAgain, Clean, Ends, GoTo, Forgets,
         PlansTyped
<1>14. ASSUME NEW f \in Flow, Unspawned(f) PROVE ManagerTyped'
  BY <1>14 DEF Unspawned, Captures, Faulting, TakesPlan, Ends, GoTo, Forgets
<1>15. ASSUME NEW f \in Flow, StartBoundary(f) PROVE ManagerTyped'
  BY <1>15 DEF StartBoundary, Captures, Faulting, TakesCurrentPlan, TakesPlan,
         GoTo
<1>16. ASSUME NEW r \in Enable, WorkerRenews(r) PROVE ManagerTyped'
  BY <1>16 DEF WorkerRenews, Refused, Current, Captures, Faulting, TakesPlan,
         Ends, GoTo, Forgets
<1>17. ASSUME NEW r \in Enable, WorkerFails(r) PROVE ManagerTyped'
  BY <1>17 DEF WorkerFails, Captures, Faulting, TakesPlan, Ends, GoTo, Forgets
<1>18. CASE DecideRelinquish
  BY <1>18 DEF DecideRelinquish, Captures, Retries, Faulting,
         TakesCurrentPlan, TakesPlan, ReleaseOrPrepare, Released, Refused,
         Current, GoesIdle, Succeeds, Clean, Quiet, Ends, GoTo, Forgets
<1> QED
  BY <1>1, <1>2, <1>3, <1>4, <1>5, <1>6, <1>7, <1>8, <1>9, <1>10, <1>11,
         <1>12, <1>13, <1>14, <1>15, <1>16, <1>17, <1>18 DEF Next, LaneNext,
         FlowNext, WorkerNext, Admit

\* The worker slot holds runs.
LEMMA SlotStaysTyped ==
    ASSUME SlotTyped, ManagerTyped, PlansTyped, PlansAreOld, [Next]_vars
    PROVE  SlotTyped'
<1> USE DEF SlotTyped, Enable, NoEnable, registryVars, managerVars, faultVars,
       slotVars, planVars, callVars
<1>1. CASE Lapse \/ Commit \/ AdmissionFails \/ Cleanup \/ SpendPermit
          \/ Relinquish \/ DecideRelinquish \/ Admit \/ Stays
          \/ UNCHANGED vars
  BY <1>1 DEF Lapse, Commit, AdmissionFails, Cleanup, SpendPermit, Relinquish,
         DecideRelinquish, Admit, Stays, vars
<1>2. ASSUME NEW e \in Enable, Replay(e) PROVE SlotTyped'
  BY <1>2 DEF Replay
<1>3. ASSUME NEW f \in Flow, Claim(f) \/ Deny(f) \/ Complete(f) \/ Release(f)
          \/ Prepare(f) \/ Prove(f) \/ FinishProof(f) \/ Unspawned(f)
          \/ StartBoundary(f)
     PROVE  SlotTyped'
  BY <1>3 DEF Claim, Deny, Complete, Release, Prepare, Prove, FinishProof,
         Unspawned, StartBoundary
<1>4. ASSUME NEW r \in Enable, WorkerWakes(r) \/ WorkerCancelled(r)
          \/ WorkerFails(r)
     PROVE  SlotTyped'
  BY <1>4 DEF WorkerWakes, WorkerCancelled, WorkerFails
<1>5. ASSUME NEW f \in Flow, Cancel(f) PROVE SlotTyped'
  BY <1>5 DEF Cancel, GoTo
<1>6. ASSUME NEW f \in Flow, Join(f) PROVE SlotTyped'
  BY <1>6 DEF Join, GoTo, AtRest, PlansTyped, PlansAreOld, Executing
<1>7. ASSUME NEW f \in Flow, Spawn(f) PROVE SlotTyped'
  BY <1>7 DEF Spawn, Forgets, AtRest, Reaped, ManagerTyped, PlansTyped,
         PlansAreOld, Starting
<1>8. ASSUME NEW f \in Flow, SpawnFails(f) PROVE SlotTyped'
  BY <1>8 DEF SpawnFails, GoTo, AtRest, Reaped
<1>9. ASSUME NEW r \in Enable, WorkerRenews(r) PROVE SlotTyped'
  BY <1>9 DEF WorkerRenews, Refused, Current, Captures, Faulting, TakesPlan,
         Ends, GoTo, Forgets
<1> QED
  BY <1>1, <1>2, <1>3, <1>4, <1>5, <1>6, <1>7, <1>8, <1>9 DEF Next, LaneNext,
         FlowNext, WorkerNext, Admit

\* Every flow stays at one of the places.
LEMMA PlacesStayTyped ==
    ASSUME PlacesTyped, [Next]_vars
    PROVE  PlacesTyped'
<1> USE FlowsDiffer DEF PlacesTyped, Place, registryVars, managerVars,
       faultVars, slotVars, planVars, callVars
<1>1. CASE Lapse \/ Stays \/ UNCHANGED vars
  BY <1>1 DEF Lapse, Stays, vars
<1>2. CASE Commit
  BY <1>2 DEF Commit, GoTo
<1>3. ASSUME NEW e \in Enable, Replay(e) PROVE PlacesTyped'
  BY <1>3 DEF Replay, GoTo
<1>4. CASE AdmissionFails
  BY <1>4 DEF AdmissionFails, Admitting, Evidence, KeepsPlan, Ends, GoTo,
         Forgets
<1>5. CASE Admit /\ AdmitIdle
  BY <1>5 DEF AdmitIdle, Admit, Admitting, Evidence, AwaitsRelease, Arms,
         Ends, GoTo, Forgets
<1>6. CASE Admit /\ AdmitSame
  BY <1>6 DEF AdmitSame, Admit, Admitting, Evidence, AwaitsRelease, Obtains,
         KeepsPlan, TakesCurrentPlan, TakesPlan, Retries, Faulting, Clean,
         Quiet, Ends, GoTo, Forgets
<1>7. CASE Admit /\ AdmitConflict
  BY <1>7 DEF AdmitConflict, Admit, Admitting, Evidence, StaleConflict,
         Defers, AwaitsRelease, Obtains, KeepsPlan, TakesCurrentPlan,
         TakesPlan, Faulting, Clean, Quiet, Ends, GoTo, Forgets
<1>8. CASE Cleanup
  BY <1>8 DEF Cleanup, TakesPlan, GoTo
<1>9. CASE SpendPermit
  BY <1>9 DEF SpendPermit, Released, Refused, Current, GoesIdle, KeepsPlan,
         Ends, GoTo, Forgets
<1>10. ASSUME NEW f \in Flow, Claim(f) PROVE PlacesTyped'
  BY <1>10 DEF Claim, Ends, GoTo, Forgets
<1>11. ASSUME NEW f \in Flow, Cancel(f) PROVE PlacesTyped'
  BY <1>11 DEF Cancel, GoTo
<1>12. ASSUME NEW f \in Flow, Join(f) PROVE PlacesTyped'
  BY <1>12 DEF Join, GoTo, AtRest
<1>13. ASSUME NEW f \in Flow, Deny(f) PROVE PlacesTyped'
  BY <1>13 DEF Deny, GoTo
<1>14. ASSUME NEW f \in Flow, Complete(f) PROVE PlacesTyped'
  BY <1>14 DEF Complete, KeepsPlan, Ends, GoTo, Forgets
<1>15. ASSUME NEW f \in Flow, Release(f) PROVE PlacesTyped'
  BY <1>15 DEF Release, ReleaseOrPrepare, Released, Refused, Current,
         GoesIdle, Succeeds, Clean, Quiet, Owns, Ends, GoTo, Forgets
<1>16. ASSUME NEW f \in Flow, Prepare(f) PROVE PlacesTyped'
  BY <1>16 DEF Prepare, Clean, Quiet, Ends, GoTo, Forgets
<1>17. ASSUME NEW f \in Flow, Prove(f) PROVE PlacesTyped'
  BY <1>17 DEF Prove, GoTo, Refused, Current
<1>18. ASSUME NEW f \in Flow, FinishProof(f) PROVE PlacesTyped'
  BY <1>18 DEF FinishProof, Arms, TriesAgain, Clean, Ends, GoTo, Forgets
<1>19. ASSUME NEW f \in Flow, Spawn(f) PROVE PlacesTyped'
  BY <1>19 DEF Spawn, Forgets, AtRest, Reaped
<1>20. ASSUME NEW f \in Flow, SpawnFails(f) PROVE PlacesTyped'
  BY <1>20 DEF SpawnFails, GoTo, AtRest, Reaped
<1>21. ASSUME NEW f \in Flow, Unspawned(f) PROVE PlacesTyped'
  BY <1>21 DEF Unspawned, Captures, Faulting, TakesPlan, Ends, GoTo, Forgets
<1>22. ASSUME NEW f \in Flow, StartBoundary(f) PROVE PlacesTyped'
  BY <1>22 DEF StartBoundary, Captures, Faulting, TakesCurrentPlan, TakesPlan,
         GoTo
<1>23. ASSUME NEW r \in Enable, WorkerWakes(r) PROVE PlacesTyped'
  BY <1>23 DEF WorkerWakes, GoTo
<1>24. ASSUME NEW r \in Enable, WorkerCancelled(r) PROVE PlacesTyped'
  BY <1>24 DEF WorkerCancelled, Ends, GoTo, Forgets
<1>25. ASSUME NEW r \in Enable, WorkerRenews(r) PROVE PlacesTyped'
  BY <1>25 DEF WorkerRenews, Refused, Current, Captures, Faulting, TakesPlan,
         Ends, GoTo, Forgets
<1>26. ASSUME NEW r \in Enable, WorkerFails(r) PROVE PlacesTyped'
  BY <1>26 DEF WorkerFails, Captures, Faulting, TakesPlan, Ends, GoTo, Forgets
<1>27. CASE Relinquish
  BY <1>27 DEF Relinquish, GoTo
<1>28. CASE DecideRelinquish
  BY <1>28 DEF DecideRelinquish, Captures, Retries, Faulting,
         TakesCurrentPlan, TakesPlan, ReleaseOrPrepare, Released, Refused,
         Current, GoesIdle, Succeeds, Clean, Quiet, Ends, GoTo, Forgets
<1> QED
  BY <1>1, <1>2, <1>3, <1>4, <1>5, <1>6, <1>7, <1>8, <1>9, <1>10, <1>11,
         <1>12, <1>13, <1>14, <1>15, <1>16, <1>17, <1>18, <1>19, <1>20, <1>21,
         <1>22, <1>23, <1>24, <1>25, <1>26, <1>27, <1>28 DEF Next, LaneNext,
         FlowNext, WorkerNext, Admit

\* A plan names Enables, and its pass is a number.
LEMMA PlansStayTyped ==
    ASSUME PlansTyped, ManagerTyped, CallsTyped, [Next]_vars
    PROVE  PlansTyped'
<1> USE FlowsDiffer, KeepaliveConstants DEF PlansTyped, ManagerTyped,
       registryVars, managerVars, faultVars, slotVars, planVars, callVars
<1>1. CASE Lapse \/ Commit \/ Relinquish \/ Stays \/ UNCHANGED vars
  BY <1>1 DEF Lapse, Commit, Relinquish, Stays, vars
<1>2. ASSUME NEW e \in Enable, Replay(e) PROVE PlansTyped'
  BY <1>2 DEF Replay
<1>3. ASSUME NEW f \in Flow, Prove(f) \/ SpawnFails(f)
     PROVE  PlansTyped'
  BY <1>3 DEF Prove, SpawnFails
<1>4. ASSUME NEW r \in Enable, WorkerWakes(r)
     PROVE  PlansTyped'
  BY <1>4 DEF WorkerWakes
<1>5. CASE AdmissionFails
  BY <1>5 DEF AdmissionFails, Admitting, Evidence, KeepsPlan, Ends, GoTo,
         Forgets
<1>6. CASE Admit /\ AdmitIdle
  BY <1>6 DEF AdmitIdle, Admit, Admitting, Evidence, AwaitsRelease, Arms,
         Ends, GoTo, Forgets, CallsTyped
<1>7. CASE Admit /\ AdmitSame
  BY <1>7 DEF AdmitSame, Admit, Admitting, Evidence, AwaitsRelease, Obtains,
         KeepsPlan, TakesCurrentPlan, TakesPlan, Retries, Faulting, Clean,
         Quiet, Ends, GoTo, Forgets
<1>8. CASE Admit /\ AdmitConflict
  BY <1>8 DEF AdmitConflict, Admit, Admitting, Evidence, StaleConflict,
         Defers, AwaitsRelease, Obtains, KeepsPlan, TakesCurrentPlan,
         TakesPlan, Faulting, Clean, Quiet, Ends, GoTo, Forgets
<1>9. CASE Cleanup
  BY <1>9 DEF Cleanup, TakesPlan, GoTo, CallsTyped
<1>10. CASE SpendPermit
  BY <1>10 DEF SpendPermit, Released, Refused, Current, GoesIdle, KeepsPlan,
         Ends, GoTo, Forgets
<1>11. ASSUME NEW f \in Flow, Claim(f) PROVE PlansTyped'
  BY <1>11 DEF Claim, Ends, GoTo, Forgets
<1>12. ASSUME NEW f \in Flow, Cancel(f) PROVE PlansTyped'
  BY <1>12 DEF Cancel, GoTo
<1>13. ASSUME NEW f \in Flow, Join(f) PROVE PlansTyped'
  BY <1>13 DEF Join, GoTo, AtRest
<1>14. ASSUME NEW f \in Flow, Deny(f) PROVE PlansTyped'
  BY <1>14 DEF Deny, GoTo
<1>15. ASSUME NEW f \in Flow, Complete(f) PROVE PlansTyped'
  BY <1>15 DEF Complete, KeepsPlan, Ends, GoTo, Forgets
<1>16. ASSUME NEW f \in Flow, Release(f) PROVE PlansTyped'
  BY <1>16 DEF Release, ReleaseOrPrepare, Released, Refused, Current,
         GoesIdle, Succeeds, Clean, Quiet, Owns, Ends, GoTo, Forgets
<1>17. ASSUME NEW f \in Flow, Prepare(f) PROVE PlansTyped'
  BY <1>17 DEF Prepare, Clean, Quiet, Ends, GoTo, Forgets
<1>18. ASSUME NEW f \in Flow, FinishProof(f) PROVE PlansTyped'
  BY <1>18 DEF FinishProof, Arms, TriesAgain, Clean, Ends, GoTo, Forgets
<1>19. ASSUME NEW f \in Flow, Spawn(f) PROVE PlansTyped'
  BY <1>19 DEF Spawn, Forgets, AtRest, Reaped
<1>20. ASSUME NEW f \in Flow, Unspawned(f) PROVE PlansTyped'
  BY <1>20 DEF Unspawned, Captures, Faulting, TakesPlan, Ends, GoTo, Forgets
<1>21. ASSUME NEW f \in Flow, StartBoundary(f) PROVE PlansTyped'
  BY <1>21 DEF StartBoundary, Captures, Faulting, TakesCurrentPlan, TakesPlan,
         GoTo
<1>22. ASSUME NEW r \in Enable, WorkerCancelled(r) PROVE PlansTyped'
  BY <1>22 DEF WorkerCancelled, Ends, GoTo, Forgets
<1>23. ASSUME NEW r \in Enable, WorkerRenews(r) PROVE PlansTyped'
  BY <1>23 DEF WorkerRenews, Refused, Current, Captures, Faulting, TakesPlan,
         Ends, GoTo, Forgets
<1>24. ASSUME NEW r \in Enable, WorkerFails(r) PROVE PlansTyped'
  BY <1>24 DEF WorkerFails, Captures, Faulting, TakesPlan, Ends, GoTo, Forgets
<1>25. CASE DecideRelinquish
  BY <1>25 DEF DecideRelinquish, Captures, Retries, Faulting,
         TakesCurrentPlan, TakesPlan, ReleaseOrPrepare, Released, Refused,
         Current, GoesIdle, Succeeds, Clean, Quiet, Ends, GoTo, Forgets
<1> QED
  BY <1>1, <1>2, <1>3, <1>4, <1>5, <1>6, <1>7, <1>8, <1>9, <1>10, <1>11,
         <1>12, <1>13, <1>14, <1>15, <1>16, <1>17, <1>18, <1>19, <1>20, <1>21,
         <1>22, <1>23, <1>24, <1>25 DEF Next, LaneNext, FlowNext, WorkerNext,
         Admit

\* The calls stay within their bounds; a Relinquish that returns to decide has
\* spent one of its two rounds.
LEMMA CallsStayTyped ==
    ASSUME CallsTyped, RegistryTyped, PlacesTyped, [Next]_vars
    PROVE  CallsTyped'
<1> USE FlowsDiffer, KeepaliveConstants DEF CallsTyped, PlacesTyped,
       registryVars, managerVars, faultVars, slotVars, planVars, callVars
<1>1. CASE Lapse \/ Stays \/ UNCHANGED vars
  BY <1>1 DEF Lapse, Stays, vars
<1>2. CASE Commit
  BY <1>2 DEF Commit, GoTo, RegistryTyped, Enable, NoEnable
<1>3. ASSUME NEW e \in Enable, Replay(e) PROVE CallsTyped'
  BY <1>3 DEF Replay, GoTo, RegistryTyped, Enable, NoEnable
<1>4. CASE AdmissionFails
  BY <1>4 DEF AdmissionFails, Admitting, Evidence, KeepsPlan, Ends, GoTo,
         Forgets
<1>5. CASE Admit /\ AdmitIdle
  BY <1>5 DEF AdmitIdle, Admit, Admitting, Evidence, AwaitsRelease, Arms,
         Ends, GoTo, Forgets
<1>6. CASE Admit /\ AdmitSame
  BY <1>6 DEF AdmitSame, Admit, Admitting, Evidence, AwaitsRelease, Obtains,
         KeepsPlan, TakesCurrentPlan, TakesPlan, Retries, Faulting, Clean,
         Quiet, Ends, GoTo, Forgets
<1>7. CASE Admit /\ AdmitConflict
  BY <1>7 DEF AdmitConflict, Admit, Admitting, Evidence, StaleConflict,
         Defers, AwaitsRelease, Obtains, KeepsPlan, TakesCurrentPlan,
         TakesPlan, Faulting, Clean, Quiet, Ends, GoTo, Forgets
<1>8. CASE Cleanup
  BY <1>8 DEF Cleanup, TakesPlan, GoTo
<1>9. CASE SpendPermit
  BY <1>9 DEF SpendPermit, Released, Refused, Current, GoesIdle, KeepsPlan,
         Ends, GoTo, Forgets
<1>10. ASSUME NEW f \in Flow, Claim(f) PROVE CallsTyped'
  BY <1>10 DEF Claim, Ends, GoTo, Forgets
<1>11. ASSUME NEW f \in Flow, Cancel(f) PROVE CallsTyped'
  BY <1>11 DEF Cancel, GoTo
<1>12. ASSUME NEW f \in Flow, Join(f) PROVE CallsTyped'
  BY <1>12 DEF Join, GoTo, AtRest
<1>13. ASSUME NEW f \in Flow, Deny(f) PROVE CallsTyped'
  BY <1>13 DEF Deny, GoTo
<1>14. ASSUME NEW f \in Flow, Complete(f) PROVE CallsTyped'
  BY <1>14 DEF Complete, KeepsPlan, Ends, GoTo, Forgets
<1>15. ASSUME NEW f \in Flow, Release(f) PROVE CallsTyped'
  BY <1>15 DEF Release, ReleaseOrPrepare, Released, Refused, Current,
         GoesIdle, Succeeds, Clean, Quiet, Owns, Ends, GoTo, Forgets
<1>16. ASSUME NEW f \in Flow, Prepare(f) PROVE CallsTyped'
  BY <1>16 DEF Prepare, Clean, Quiet, Ends, GoTo, Forgets
<1>17. ASSUME NEW f \in Flow, Prove(f) PROVE CallsTyped'
  BY <1>17 DEF Prove, GoTo, Refused, Current
<1>18. ASSUME NEW f \in Flow, FinishProof(f) PROVE CallsTyped'
  BY <1>18 DEF FinishProof, Arms, TriesAgain, Clean, Ends, GoTo, Forgets
<1>19. ASSUME NEW f \in Flow, Spawn(f) PROVE CallsTyped'
  BY <1>19 DEF Spawn, Forgets, AtRest, Reaped
<1>20. ASSUME NEW f \in Flow, SpawnFails(f) PROVE CallsTyped'
  BY <1>20 DEF SpawnFails, GoTo, AtRest, Reaped
<1>21. ASSUME NEW f \in Flow, Unspawned(f) PROVE CallsTyped'
  BY <1>21 DEF Unspawned, Captures, Faulting, TakesPlan, Ends, GoTo, Forgets
<1>22. ASSUME NEW f \in Flow, StartBoundary(f) PROVE CallsTyped'
  BY <1>22 DEF StartBoundary, Captures, Faulting, TakesCurrentPlan, TakesPlan,
         GoTo
<1>23. ASSUME NEW r \in Enable, WorkerWakes(r) PROVE CallsTyped'
  BY <1>23 DEF WorkerWakes, GoTo
<1>24. ASSUME NEW r \in Enable, WorkerCancelled(r) PROVE CallsTyped'
  BY <1>24 DEF WorkerCancelled, Ends, GoTo, Forgets
<1>25. ASSUME NEW r \in Enable, WorkerRenews(r) PROVE CallsTyped'
  BY <1>25 DEF WorkerRenews, Refused, Current, Captures, Faulting, TakesPlan,
         Ends, GoTo, Forgets
<1>26. ASSUME NEW r \in Enable, WorkerFails(r) PROVE CallsTyped'
  BY <1>26 DEF WorkerFails, Captures, Faulting, TakesPlan, Ends, GoTo, Forgets
<1>27. CASE Relinquish
  BY <1>27 DEF Relinquish, GoTo
<1>28. CASE DecideRelinquish
  BY <1>28 DEF DecideRelinquish, Captures, Retries, Faulting,
         TakesCurrentPlan, TakesPlan, ReleaseOrPrepare, Released, Refused,
         Current, GoesIdle, Succeeds, Clean, Quiet, Ends, GoTo, Forgets
<1> QED
  BY <1>1, <1>2, <1>3, <1>4, <1>5, <1>6, <1>7, <1>8, <1>9, <1>10, <1>11,
         <1>12, <1>13, <1>14, <1>15, <1>16, <1>17, <1>18, <1>19, <1>20, <1>21,
         <1>22, <1>23, <1>24, <1>25, <1>26, <1>27, <1>28 DEF Next, LaneNext,
         FlowNext, WorkerNext, Admit

----------------------------------------------------------------------------
(* The order of Enables                                                    *)

\* The two flags are Booleans.
LEMMA FlagsStayTyped ==
    ASSUME FlagsTyped, PlacesTyped, [Next]_vars
    PROVE  FlagsTyped'
<1> USE DEF FlagsTyped, registryVars, managerVars, faultVars, slotVars,
       planVars, callVars
<1>1. CASE Lapse \/ AdmissionFails \/ Relinquish \/ Stays \/ UNCHANGED vars
  BY <1>1 DEF Lapse, AdmissionFails, Relinquish, Stays, vars
<1>2. ASSUME NEW e \in Enable, Replay(e) PROVE FlagsTyped'
  BY <1>2 DEF Replay
<1>3. ASSUME NEW f \in Flow, Cancel(f) \/ Join(f) \/ Deny(f) \/ Prepare(f)
          \/ Spawn(f) \/ SpawnFails(f)
     PROVE  FlagsTyped'
  BY <1>3 DEF Cancel, Join, Deny, Prepare, Spawn, SpawnFails
<1>4. ASSUME NEW r \in Enable, WorkerWakes(r) \/ WorkerCancelled(r)
     PROVE  FlagsTyped'
  BY <1>4 DEF WorkerWakes, WorkerCancelled
<1>5. CASE Commit
  BY <1>5 DEF Commit, GoTo
<1>6. CASE Admit /\ AdmitIdle
  BY <1>6 DEF AdmitIdle, Admit, Admitting, Evidence, AwaitsRelease, Arms,
         Ends, GoTo, Forgets
<1>7. CASE Admit /\ AdmitSame
  BY <1>7 DEF AdmitSame, Admit, Admitting, Evidence, AwaitsRelease, Obtains,
         KeepsPlan, TakesCurrentPlan, TakesPlan, Retries, Faulting, Clean,
         Quiet, Ends, GoTo, Forgets
<1>8. CASE Admit /\ AdmitConflict
  BY <1>8 DEF AdmitConflict, Admit, Admitting, Evidence, StaleConflict,
         Defers, AwaitsRelease, Obtains, KeepsPlan, TakesCurrentPlan,
         TakesPlan, Faulting, Clean, Quiet, Ends, GoTo, Forgets
<1>9. CASE Cleanup
  BY <1>9 DEF Cleanup, TakesPlan, GoTo
<1>10. CASE SpendPermit
  BY <1>10 DEF SpendPermit, Released, Refused, Current, GoesIdle, KeepsPlan,
         Ends, GoTo, Forgets
<1>11. ASSUME NEW f \in Flow, Claim(f) PROVE FlagsTyped'
  BY <1>11 DEF Claim, Ends, GoTo, Forgets
<1>12. ASSUME NEW f \in Flow, Complete(f) PROVE FlagsTyped'
  BY <1>12 DEF Complete, KeepsPlan, Ends, GoTo, Forgets
<1>13. ASSUME NEW f \in Flow, Release(f) PROVE FlagsTyped'
  BY <1>13 DEF Release, ReleaseOrPrepare, Released, Refused, Current,
         GoesIdle, Succeeds, Clean, Quiet, Owns, Ends, GoTo, Forgets
<1>14. ASSUME NEW f \in Flow, Prove(f) PROVE FlagsTyped'
  BY <1>14 DEF Prove, Refused
<1>15. ASSUME NEW f \in Flow, FinishProof(f) PROVE FlagsTyped'
  BY <1>15 DEF FinishProof, Arms, TriesAgain, Clean, Ends, GoTo, Forgets
<1>16. ASSUME NEW f \in Flow, Unspawned(f) PROVE FlagsTyped'
  BY <1>16 DEF Unspawned, Captures, Faulting, TakesPlan, Ends, GoTo, Forgets
<1>17. ASSUME NEW f \in Flow, StartBoundary(f) PROVE FlagsTyped'
  BY <1>17 DEF StartBoundary, Captures, Faulting, TakesCurrentPlan, TakesPlan,
         GoTo
<1>18. ASSUME NEW r \in Enable, WorkerRenews(r) PROVE FlagsTyped'
  BY <1>18 DEF WorkerRenews, Refused, Current, Captures, Faulting, TakesPlan,
         Ends, GoTo, Forgets
<1>19. ASSUME NEW r \in Enable, WorkerFails(r) PROVE FlagsTyped'
  BY <1>19 DEF WorkerFails, Captures, Faulting, TakesPlan, Ends, GoTo, Forgets
<1>20. CASE DecideRelinquish
  BY <1>20 DEF DecideRelinquish, Captures, Retries, Faulting,
         TakesCurrentPlan, TakesPlan, ReleaseOrPrepare, Released, Refused,
         Current, GoesIdle, Succeeds, Clean, Quiet, Ends, GoTo, Forgets
<1> QED
  BY <1>1, <1>2, <1>3, <1>4, <1>5, <1>6, <1>7, <1>8, <1>9, <1>10, <1>11,
         <1>12, <1>13, <1>14, <1>15, <1>16, <1>17, <1>18, <1>19,
         <1>20 DEF Next, LaneNext, FlowNext, WorkerNext, Admit

\* A run is armed only for an Enable newer than every one accepted before, and
\* an Enable is kept for later only if it is newer still.
LEMMA RankStays ==
    ASSUME RegistryTyped, ManagerTyped, PlacesTyped, PlansTyped, CallsTyped,
           PlansAreOld, Ranked, [Next]_vars
    PROVE  Ranked'
<1> USE FlowsDiffer, KeepaliveConstants DEF Ranked, RegistryTyped,
       ManagerTyped, CallsTyped, PlacesTyped, Enable, NoEnable, registryVars,
       managerVars, faultVars, slotVars, planVars, callVars
<1>1. CASE Stays \/ UNCHANGED vars
  BY <1>1 DEF Stays, vars
<1>2. CASE Lapse
  BY <1>2 DEF Lapse
<1>3. CASE Commit
  BY <1>3 DEF Commit, GoTo
<1>4. ASSUME NEW e \in Enable, Replay(e) PROVE Ranked'
  BY <1>4 DEF Replay, GoTo
<1>5. CASE AdmissionFails
  BY <1>5 DEF AdmissionFails, Admitting, Evidence, KeepsPlan, Ends, GoTo,
         Forgets
<1>6. CASE Admit /\ AdmitIdle
  BY <1>6 DEF AdmitIdle, Admit, Admitting, Evidence, AwaitsRelease, Arms,
         Ends, GoTo, Forgets
<1>7. CASE Admit /\ AdmitSame
  BY <1>7 DEF AdmitSame, Admit, Admitting, Evidence, AwaitsRelease, Obtains,
         KeepsPlan, TakesCurrentPlan, TakesPlan, Retries, Faulting, Clean,
         Quiet, Ends, GoTo, Forgets
<1>8. CASE Admit /\ AdmitConflict
  BY <1>8 DEF AdmitConflict, Admit, Admitting, Evidence, StaleConflict,
         Defers, AwaitsRelease, Obtains, KeepsPlan, TakesCurrentPlan,
         TakesPlan, Faulting, Clean, Quiet, Ends, GoTo, Forgets
<1>9. CASE Cleanup
  BY <1>9 DEF Cleanup, TakesPlan, GoTo
<1>10. CASE SpendPermit
  BY <1>10 DEF SpendPermit, Released, Refused, Current, GoesIdle, KeepsPlan,
         Ends, GoTo, Forgets
<1>11. ASSUME NEW f \in Flow, Claim(f) PROVE Ranked'
  BY <1>11 DEF Claim, Ends, GoTo, Forgets
<1>12. ASSUME NEW f \in Flow, Cancel(f) PROVE Ranked'
  BY <1>12 DEF Cancel, GoTo
<1>13. ASSUME NEW f \in Flow, Join(f) PROVE Ranked'
  BY <1>13 DEF Join, GoTo, AtRest
<1>14. ASSUME NEW f \in Flow, Deny(f) PROVE Ranked'
  BY <1>14 DEF Deny, GoTo
<1>15. ASSUME NEW f \in Flow, Complete(f) PROVE Ranked'
  BY <1>15 DEF Complete, KeepsPlan, Ends, GoTo, Forgets
<1>16. ASSUME NEW f \in Flow, Release(f) PROVE Ranked'
  BY <1>16 DEF Release, ReleaseOrPrepare, Released, Refused, Current,
         GoesIdle, Succeeds, Clean, Quiet, Owns, Ends, GoTo, Forgets
<1>17. ASSUME NEW f \in Flow, Prepare(f) PROVE Ranked'
  BY <1>17 DEF Prepare, Clean, Quiet, Ends, GoTo, Forgets
<1>18. ASSUME NEW f \in Flow, Prove(f) PROVE Ranked'
  BY <1>18 DEF Prove, GoTo, Refused, Current
<1>19. ASSUME NEW f \in Flow, FinishProof(f) PROVE Ranked'
  BY <1>19 DEF FinishProof, Arms, TriesAgain, Clean, Ends, GoTo, Forgets
<1>20. ASSUME NEW f \in Flow, Spawn(f) PROVE Ranked'
  BY <1>20 DEF Spawn, Forgets, AtRest, Reaped
<1>21. ASSUME NEW f \in Flow, SpawnFails(f) PROVE Ranked'
  BY <1>21 DEF SpawnFails, GoTo, AtRest, Reaped
<1>22. ASSUME NEW f \in Flow, Unspawned(f) PROVE Ranked'
  BY <1>22 DEF Unspawned, Captures, Faulting, TakesPlan, Ends, GoTo, Forgets
<1>23. ASSUME NEW f \in Flow, StartBoundary(f) PROVE Ranked'
  BY <1>23 DEF StartBoundary, Captures, Faulting, TakesCurrentPlan, TakesPlan,
         GoTo
<1>24. ASSUME NEW r \in Enable, WorkerWakes(r) PROVE Ranked'
  BY <1>24 DEF WorkerWakes, GoTo
<1>25. ASSUME NEW r \in Enable, WorkerCancelled(r) PROVE Ranked'
  BY <1>25 DEF WorkerCancelled, Ends, GoTo, Forgets
<1>26. ASSUME NEW r \in Enable, WorkerRenews(r) PROVE Ranked'
  BY <1>26 DEF WorkerRenews, Refused, Current, Captures, Faulting, TakesPlan,
         Ends, GoTo, Forgets
<1>27. ASSUME NEW r \in Enable, WorkerFails(r) PROVE Ranked'
  BY <1>27 DEF WorkerFails, Captures, Faulting, TakesPlan, Ends, GoTo, Forgets
<1>28. CASE Relinquish
  BY <1>28 DEF Relinquish, GoTo
<1>29. CASE DecideRelinquish
  BY <1>29 DEF DecideRelinquish, Captures, Retries, Faulting,
         TakesCurrentPlan, TakesPlan, ReleaseOrPrepare, Released, Refused,
         Current, GoesIdle, Succeeds, Clean, Quiet, Ends, GoTo, Forgets
<1> QED
  BY <1>1, <1>2, <1>3, <1>4, <1>5, <1>6, <1>7, <1>8, <1>9, <1>10, <1>11,
         <1>12, <1>13, <1>14, <1>15, <1>16, <1>17, <1>18, <1>19, <1>20, <1>21,
         <1>22, <1>23, <1>24, <1>25, <1>26, <1>27, <1>28, <1>29 DEF Next,
         LaneNext, FlowNext, WorkerNext, Admit

\* What a flow keeps never becomes newer than what the manager accepted.
LEMMA PlansStayOld ==
    ASSUME RegistryTyped, ManagerTyped, PlacesTyped, PlansTyped, CallsTyped,
           Ranked, PlansAreOld, [Next]_vars
    PROVE  PlansAreOld'
<1> USE FlowsDiffer DEF PlansAreOld, Ranked, ManagerTyped, PlacesTyped,
       PlansTyped, Enable, NoEnable, Executing, Starting, registryVars,
       managerVars, faultVars, slotVars, planVars, callVars
<1>1. CASE Lapse \/ Stays \/ UNCHANGED vars
  BY <1>1 DEF Lapse, Stays, vars
<1>2. CASE Commit
  BY <1>2 DEF Commit, GoTo
<1>3. ASSUME NEW e \in Enable, Replay(e) PROVE PlansAreOld'
  BY <1>3 DEF Replay, GoTo
<1>4. CASE AdmissionFails
  BY <1>4 DEF AdmissionFails, Admitting, Evidence, KeepsPlan, Ends, GoTo,
         Forgets
<1>5. CASE Admit /\ AdmitIdle
  BY <1>5 DEF AdmitIdle, Admit, Admitting, Evidence, AwaitsRelease, Arms,
         Ends, GoTo, Forgets, CallsTyped
<1>6. CASE Admit /\ AdmitSame
  BY <1>6 DEF AdmitSame, Admit, Admitting, Evidence, AwaitsRelease, Obtains,
         KeepsPlan, TakesCurrentPlan, TakesPlan, Retries, Faulting, Clean,
         Quiet, Ends, GoTo, Forgets
<1>7. CASE Admit /\ AdmitConflict
  BY <1>7 DEF AdmitConflict, Admit, Admitting, Evidence, StaleConflict,
         Defers, AwaitsRelease, Obtains, KeepsPlan, TakesCurrentPlan,
         TakesPlan, Faulting, Clean, Quiet, Ends, GoTo, Forgets, CallsTyped
<1>8. CASE Cleanup
  BY <1>8 DEF Cleanup, TakesPlan, GoTo, CallsTyped
<1>9. CASE SpendPermit
  BY <1>9 DEF SpendPermit, Released, Refused, Current, GoesIdle, KeepsPlan,
         Ends, GoTo, Forgets
<1>10. ASSUME NEW f \in Flow, Claim(f) PROVE PlansAreOld'
  BY <1>10 DEF Claim, Ends, GoTo, Forgets
<1>11. ASSUME NEW f \in Flow, Cancel(f) PROVE PlansAreOld'
  BY <1>11 DEF Cancel, GoTo
<1>12. ASSUME NEW f \in Flow, Join(f) PROVE PlansAreOld'
  BY <1>12 DEF Join, GoTo, AtRest
<1>13. ASSUME NEW f \in Flow, Deny(f) PROVE PlansAreOld'
  BY <1>13 DEF Deny, GoTo
<1>14. ASSUME NEW f \in Flow, Complete(f) PROVE PlansAreOld'
  BY <1>14 DEF Complete, KeepsPlan, Ends, GoTo, Forgets
<1>15. ASSUME NEW f \in Flow, Release(f) PROVE PlansAreOld'
  BY <1>15 DEF Release, ReleaseOrPrepare, Released, Refused, Current,
         GoesIdle, Succeeds, Clean, Quiet, Owns, Ends, GoTo, Forgets
<1>16. ASSUME NEW f \in Flow, Prepare(f) PROVE PlansAreOld'
  BY <1>16 DEF Prepare, Clean, Quiet, Ends, GoTo, Forgets
<1>17. ASSUME NEW f \in Flow, Prove(f) PROVE PlansAreOld'
  BY <1>17 DEF Prove, GoTo, Refused, Current
<1>18. ASSUME NEW f \in Flow, FinishProof(f) PROVE PlansAreOld'
  BY <1>18 DEF FinishProof, Arms, TriesAgain, Clean, Ends, GoTo, Forgets
<1>19. ASSUME NEW f \in Flow, Spawn(f) PROVE PlansAreOld'
  BY <1>19 DEF Spawn, Forgets, AtRest, Reaped
<1>20. ASSUME NEW f \in Flow, SpawnFails(f) PROVE PlansAreOld'
  BY <1>20 DEF SpawnFails, GoTo, AtRest, Reaped
<1>21. ASSUME NEW f \in Flow, Unspawned(f) PROVE PlansAreOld'
  BY <1>21 DEF Unspawned, Captures, Faulting, TakesPlan, Ends, GoTo, Forgets
<1>22. ASSUME NEW f \in Flow, StartBoundary(f) PROVE PlansAreOld'
  BY <1>22 DEF StartBoundary, Captures, Faulting, TakesCurrentPlan, TakesPlan,
         GoTo
<1>23. ASSUME NEW r \in Enable, WorkerWakes(r) PROVE PlansAreOld'
  BY <1>23 DEF WorkerWakes, GoTo
<1>24. ASSUME NEW r \in Enable, WorkerCancelled(r) PROVE PlansAreOld'
  BY <1>24 DEF WorkerCancelled, Ends, GoTo, Forgets
<1>25. ASSUME NEW r \in Enable, WorkerRenews(r) PROVE PlansAreOld'
  BY <1>25 DEF WorkerRenews, Refused, Current, Captures, Faulting, TakesPlan,
         Ends, GoTo, Forgets
<1>26. ASSUME NEW r \in Enable, WorkerFails(r) PROVE PlansAreOld'
  BY <1>26 DEF WorkerFails, Captures, Faulting, TakesPlan, Ends, GoTo, Forgets
<1>27. CASE Relinquish
  BY <1>27 DEF Relinquish, GoTo
<1>28. CASE DecideRelinquish
  BY <1>28 DEF DecideRelinquish, Captures, Retries, Faulting,
         TakesCurrentPlan, TakesPlan, ReleaseOrPrepare, Released, Refused,
         Current, GoesIdle, Succeeds, Clean, Quiet, Ends, GoTo, Forgets
<1> QED
  BY <1>1, <1>2, <1>3, <1>4, <1>5, <1>6, <1>7, <1>8, <1>9, <1>10, <1>11,
         <1>12, <1>13, <1>14, <1>15, <1>16, <1>17, <1>18, <1>19, <1>20, <1>21,
         <1>22, <1>23, <1>24, <1>25, <1>26, <1>27, <1>28 DEF Next, LaneNext,
         FlowNext, WorkerNext, Admit

----------------------------------------------------------------------------
(* Passes, workers and tokens                                              *)

\* A pass that begins is one that no flow has a plan of.
LEMMA PassesStayNew ==
    ASSUME RegistryTyped, ManagerTyped, PlacesTyped, PlansTyped, CallsTyped,
           Ranked, PlansAreOld, StartsAreFresh, PassesAreNew, [Next]_vars
    PROVE  PassesAreNew'
<1> USE FlowsDiffer DEF PassesAreNew, PlansAreOld, Ranked, ManagerTyped,
       PlacesTyped, PlansTyped, Enable, NoEnable, Starting, registryVars,
       managerVars, faultVars, slotVars, planVars, callVars
<1>1. CASE Lapse \/ Stays \/ UNCHANGED vars
  BY <1>1 DEF Lapse, Stays, vars
<1>2. CASE Commit
  BY <1>2 DEF Commit, GoTo
<1>3. ASSUME NEW e \in Enable, Replay(e) PROVE PassesAreNew'
  BY <1>3 DEF Replay, GoTo
<1>4. CASE AdmissionFails
  BY <1>4 DEF AdmissionFails, Admitting, Evidence, KeepsPlan, Ends, GoTo,
         Forgets
<1>5. CASE Admit /\ AdmitIdle
  BY <1>5 DEF AdmitIdle, Admit, Admitting, Evidence, AwaitsRelease, Arms,
         Ends, GoTo, Forgets, CallsTyped
<1>6. CASE Admit /\ AdmitSame
  BY <1>6 DEF AdmitSame, Admit, Admitting, Evidence, AwaitsRelease, Obtains,
         KeepsPlan, TakesCurrentPlan, TakesPlan, Retries, Faulting, Clean,
         Quiet, Ends, GoTo, Forgets
<1>7. CASE Admit /\ AdmitConflict
  BY <1>7 DEF AdmitConflict, Admit, Admitting, Evidence, StaleConflict,
         Defers, AwaitsRelease, Obtains, KeepsPlan, TakesCurrentPlan,
         TakesPlan, Faulting, Clean, Quiet, Ends, GoTo, Forgets, CallsTyped
<1>8. CASE Cleanup
  BY <1>8 DEF Cleanup, TakesPlan, GoTo, CallsTyped
<1>9. CASE SpendPermit
  BY <1>9 DEF SpendPermit, Released, Refused, Current, GoesIdle, KeepsPlan,
         Ends, GoTo, Forgets
<1>10. ASSUME NEW f \in Flow, Claim(f) PROVE PassesAreNew'
  BY <1>10 DEF Claim, Ends, GoTo, Forgets
<1>11. ASSUME NEW f \in Flow, Cancel(f) PROVE PassesAreNew'
  BY <1>11 DEF Cancel, GoTo
<1>12. ASSUME NEW f \in Flow, Join(f) PROVE PassesAreNew'
  BY <1>12 DEF Join, GoTo, AtRest
<1>13. ASSUME NEW f \in Flow, Deny(f) PROVE PassesAreNew'
  BY <1>13 DEF Deny, GoTo
<1>14. ASSUME NEW f \in Flow, Complete(f) PROVE PassesAreNew'
  BY <1>14 DEF Complete, KeepsPlan, Ends, GoTo, Forgets
<1>15. ASSUME NEW f \in Flow, Release(f) PROVE PassesAreNew'
  BY <1>15 DEF Release, ReleaseOrPrepare, Released, Refused, Current,
         GoesIdle, Succeeds, Clean, Quiet, Owns, Ends, GoTo, Forgets
<1>16. ASSUME NEW f \in Flow, Prepare(f) PROVE PassesAreNew'
  BY <1>16 DEF Prepare, Clean, Quiet, Ends, GoTo, Forgets
<1>17. ASSUME NEW f \in Flow, Prove(f) PROVE PassesAreNew'
  BY <1>17 DEF Prove, GoTo, Refused, Current
<1>18. ASSUME NEW f \in Flow, FinishProof(f) PROVE PassesAreNew'
  BY <1>18 DEF FinishProof, Arms, TriesAgain, Clean, Ends, GoTo, Forgets
<1>19. ASSUME NEW f \in Flow, Spawn(f) PROVE PassesAreNew'
  BY <1>19 DEF Spawn, Forgets, AtRest, Reaped, StartsAreFresh
<1>20. ASSUME NEW f \in Flow, SpawnFails(f) PROVE PassesAreNew'
  BY <1>20 DEF SpawnFails, GoTo, AtRest, Reaped
<1>21. ASSUME NEW f \in Flow, Unspawned(f) PROVE PassesAreNew'
  BY <1>21 DEF Unspawned, Captures, Faulting, TakesPlan, Ends, GoTo, Forgets
<1>22. ASSUME NEW f \in Flow, StartBoundary(f) PROVE PassesAreNew'
  BY <1>22 DEF StartBoundary, Captures, Faulting, TakesCurrentPlan, TakesPlan,
         GoTo
<1>23. ASSUME NEW r \in Enable, WorkerWakes(r) PROVE PassesAreNew'
  BY <1>23 DEF WorkerWakes, GoTo
<1>24. ASSUME NEW r \in Enable, WorkerCancelled(r) PROVE PassesAreNew'
  BY <1>24 DEF WorkerCancelled, Ends, GoTo, Forgets
<1>25. ASSUME NEW r \in Enable, WorkerRenews(r) PROVE PassesAreNew'
  BY <1>25 DEF WorkerRenews, Refused, Current, Captures, Faulting, TakesPlan,
         Ends, GoTo, Forgets
<1>26. ASSUME NEW r \in Enable, WorkerFails(r) PROVE PassesAreNew'
  BY <1>26 DEF WorkerFails, Captures, Faulting, TakesPlan, Ends, GoTo, Forgets
<1>27. CASE Relinquish
  BY <1>27 DEF Relinquish, GoTo
<1>28. CASE DecideRelinquish
  BY <1>28 DEF DecideRelinquish, Captures, Retries, Faulting,
         TakesCurrentPlan, TakesPlan, ReleaseOrPrepare, Released, Refused,
         Current, GoesIdle, Succeeds, Clean, Quiet, Ends, GoTo, Forgets
<1> QED
  BY <1>1, <1>2, <1>3, <1>4, <1>5, <1>6, <1>7, <1>8, <1>9, <1>10, <1>11,
         <1>12, <1>13, <1>14, <1>15, <1>16, <1>17, <1>18, <1>19, <1>20, <1>21,
         <1>22, <1>23, <1>24, <1>25, <1>26, <1>27, <1>28 DEF Next, LaneNext,
         FlowNext, WorkerNext, Admit

\* A worker is started for an Enable the manager accepted.
LEMMA WorkersStayOld ==
    ASSUME RegistryTyped, ManagerTyped, PlacesTyped, PlansTyped, CallsTyped,
           Ranked, PlansAreOld, WorkersAreOld, [Next]_vars
    PROVE  WorkersAreOld'
<1> USE FlowsDiffer DEF WorkersAreOld, Ranked, PlansAreOld, ManagerTyped,
       PlacesTyped, PlansTyped, Enable, NoEnable, Starting, registryVars,
       managerVars, faultVars, slotVars, planVars, callVars
<1>1. CASE Lapse \/ Stays \/ UNCHANGED vars
  BY <1>1 DEF Lapse, Stays, vars
<1>2. CASE Commit
  BY <1>2 DEF Commit, GoTo
<1>3. ASSUME NEW e \in Enable, Replay(e) PROVE WorkersAreOld'
  BY <1>3 DEF Replay, GoTo
<1>4. CASE AdmissionFails
  BY <1>4 DEF AdmissionFails, Admitting, Evidence, KeepsPlan, Ends, GoTo,
         Forgets
<1>5. CASE Admit /\ AdmitIdle
  BY <1>5 DEF AdmitIdle, Admit, Admitting, Evidence, AwaitsRelease, Arms,
         Ends, GoTo, Forgets, CallsTyped
<1>6. CASE Admit /\ AdmitSame
  BY <1>6 DEF AdmitSame, Admit, Admitting, Evidence, AwaitsRelease, Obtains,
         KeepsPlan, TakesCurrentPlan, TakesPlan, Retries, Faulting, Clean,
         Quiet, Ends, GoTo, Forgets
<1>7. CASE Admit /\ AdmitConflict
  BY <1>7 DEF AdmitConflict, Admit, Admitting, Evidence, StaleConflict,
         Defers, AwaitsRelease, Obtains, KeepsPlan, TakesCurrentPlan,
         TakesPlan, Faulting, Clean, Quiet, Ends, GoTo, Forgets, CallsTyped
<1>8. CASE Cleanup
  BY <1>8 DEF Cleanup, TakesPlan, GoTo, CallsTyped
<1>9. CASE SpendPermit
  BY <1>9 DEF SpendPermit, Released, Refused, Current, GoesIdle, KeepsPlan,
         Ends, GoTo, Forgets
<1>10. ASSUME NEW f \in Flow, Claim(f) PROVE WorkersAreOld'
  BY <1>10 DEF Claim, Ends, GoTo, Forgets
<1>11. ASSUME NEW f \in Flow, Cancel(f) PROVE WorkersAreOld'
  BY <1>11 DEF Cancel, GoTo
<1>12. ASSUME NEW f \in Flow, Join(f) PROVE WorkersAreOld'
  BY <1>12 DEF Join, GoTo, AtRest
<1>13. ASSUME NEW f \in Flow, Deny(f) PROVE WorkersAreOld'
  BY <1>13 DEF Deny, GoTo
<1>14. ASSUME NEW f \in Flow, Complete(f) PROVE WorkersAreOld'
  BY <1>14 DEF Complete, KeepsPlan, Ends, GoTo, Forgets
<1>15. ASSUME NEW f \in Flow, Release(f) PROVE WorkersAreOld'
  BY <1>15 DEF Release, ReleaseOrPrepare, Released, Refused, Current,
         GoesIdle, Succeeds, Clean, Quiet, Owns, Ends, GoTo, Forgets
<1>16. ASSUME NEW f \in Flow, Prepare(f) PROVE WorkersAreOld'
  BY <1>16 DEF Prepare, Clean, Quiet, Ends, GoTo, Forgets
<1>17. ASSUME NEW f \in Flow, Prove(f) PROVE WorkersAreOld'
  BY <1>17 DEF Prove, GoTo, Refused, Current
<1>18. ASSUME NEW f \in Flow, FinishProof(f) PROVE WorkersAreOld'
  BY <1>18 DEF FinishProof, Arms, TriesAgain, Clean, Ends, GoTo, Forgets
<1>19. ASSUME NEW f \in Flow, Spawn(f) PROVE WorkersAreOld'
  BY <1>19 DEF Spawn, Forgets, AtRest, Reaped
<1>20. ASSUME NEW f \in Flow, SpawnFails(f) PROVE WorkersAreOld'
  BY <1>20 DEF SpawnFails, GoTo, AtRest, Reaped
<1>21. ASSUME NEW f \in Flow, Unspawned(f) PROVE WorkersAreOld'
  BY <1>21 DEF Unspawned, Captures, Faulting, TakesPlan, Ends, GoTo, Forgets
<1>22. ASSUME NEW f \in Flow, StartBoundary(f) PROVE WorkersAreOld'
  BY <1>22 DEF StartBoundary, Captures, Faulting, TakesCurrentPlan, TakesPlan,
         GoTo
<1>23. ASSUME NEW r \in Enable, WorkerWakes(r) PROVE WorkersAreOld'
  BY <1>23 DEF WorkerWakes, GoTo
<1>24. ASSUME NEW r \in Enable, WorkerCancelled(r) PROVE WorkersAreOld'
  BY <1>24 DEF WorkerCancelled, Ends, GoTo, Forgets
<1>25. ASSUME NEW r \in Enable, WorkerRenews(r) PROVE WorkersAreOld'
  BY <1>25 DEF WorkerRenews, Refused, Current, Captures, Faulting, TakesPlan,
         Ends, GoTo, Forgets
<1>26. ASSUME NEW r \in Enable, WorkerFails(r) PROVE WorkersAreOld'
  BY <1>26 DEF WorkerFails, Captures, Faulting, TakesPlan, Ends, GoTo, Forgets
<1>27. CASE Relinquish
  BY <1>27 DEF Relinquish, GoTo
<1>28. CASE DecideRelinquish
  BY <1>28 DEF DecideRelinquish, Captures, Retries, Faulting,
         TakesCurrentPlan, TakesPlan, ReleaseOrPrepare, Released, Refused,
         Current, GoesIdle, Succeeds, Clean, Quiet, Ends, GoTo, Forgets
<1> QED
  BY <1>1, <1>2, <1>3, <1>4, <1>5, <1>6, <1>7, <1>8, <1>9, <1>10, <1>11,
         <1>12, <1>13, <1>14, <1>15, <1>16, <1>17, <1>18, <1>19, <1>20, <1>21,
         <1>22, <1>23, <1>24, <1>25, <1>26, <1>27, <1>28 DEF Next, LaneNext,
         FlowNext, WorkerNext, Admit

\* A run is newer than every worker when it is armed, and started once.
LEMMA StartsStayFresh ==
    ASSUME RegistryTyped, ManagerTyped, PlacesTyped, PlansTyped, CallsTyped,
           SlotTyped, Ranked, PlansAreOld, WorkersAreOld, StartsDiffer,
           StartsAreFresh, [Next]_vars
    PROVE  StartsAreFresh'
<1> USE FlowsDiffer DEF StartsAreFresh, Ranked, PlansAreOld, ManagerTyped,
       PlacesTyped, PlansTyped, Enable, NoEnable, Starting, registryVars,
       managerVars, faultVars, slotVars, planVars, callVars
<1>1. CASE Lapse \/ Stays \/ UNCHANGED vars
  BY <1>1 DEF Lapse, Stays, vars
<1>2. CASE Commit
  BY <1>2 DEF Commit, GoTo
<1>3. ASSUME NEW e \in Enable, Replay(e) PROVE StartsAreFresh'
  BY <1>3 DEF Replay, GoTo
<1>4. CASE AdmissionFails
  BY <1>4 DEF AdmissionFails, Admitting, Evidence, KeepsPlan, Ends, GoTo,
         Forgets
<1>5. CASE Admit /\ AdmitIdle
  BY <1>5 DEF AdmitIdle, Admit, Admitting, Evidence, AwaitsRelease, Arms,
         Ends, GoTo, Forgets, CallsTyped, WorkersAreOld
<1>6. CASE Admit /\ AdmitSame
  BY <1>6 DEF AdmitSame, Admit, Admitting, Evidence, AwaitsRelease, Obtains,
         KeepsPlan, TakesCurrentPlan, TakesPlan, Retries, Faulting, Clean,
         Quiet, Ends, GoTo, Forgets
<1>7. CASE Admit /\ AdmitConflict
  BY <1>7 DEF AdmitConflict, Admit, Admitting, Evidence, StaleConflict,
         Defers, AwaitsRelease, Obtains, KeepsPlan, TakesCurrentPlan,
         TakesPlan, Faulting, Clean, Quiet, Ends, GoTo, Forgets
<1>8. CASE Cleanup
  BY <1>8 DEF Cleanup, TakesPlan, GoTo
<1>9. CASE SpendPermit
  BY <1>9 DEF SpendPermit, Released, Refused, Current, GoesIdle, KeepsPlan,
         Ends, GoTo, Forgets
<1>10. ASSUME NEW f \in Flow, Claim(f) PROVE StartsAreFresh'
  BY <1>10 DEF Claim, Ends, GoTo, Forgets
<1>11. ASSUME NEW f \in Flow, Cancel(f) PROVE StartsAreFresh'
  BY <1>11 DEF Cancel, GoTo
<1>12. ASSUME NEW f \in Flow, Join(f) PROVE StartsAreFresh'
  BY <1>12 DEF Join, GoTo, AtRest
<1>13. ASSUME NEW f \in Flow, Deny(f) PROVE StartsAreFresh'
  BY <1>13 DEF Deny, GoTo
<1>14. ASSUME NEW f \in Flow, Complete(f) PROVE StartsAreFresh'
  BY <1>14 DEF Complete, KeepsPlan, Ends, GoTo, Forgets
<1>15. ASSUME NEW f \in Flow, Release(f) PROVE StartsAreFresh'
  BY <1>15 DEF Release, ReleaseOrPrepare, Released, Refused, Current,
         GoesIdle, Succeeds, Clean, Quiet, Owns, Ends, GoTo, Forgets
<1>16. ASSUME NEW f \in Flow, Prepare(f) PROVE StartsAreFresh'
  BY <1>16 DEF Prepare, Clean, Quiet, Ends, GoTo, Forgets
<1>17. ASSUME NEW f \in Flow, Prove(f) PROVE StartsAreFresh'
  BY <1>17 DEF Prove, GoTo, Refused, Current
<1>18. ASSUME NEW f \in Flow, FinishProof(f) PROVE StartsAreFresh'
  BY <1>18 DEF FinishProof, Arms, TriesAgain, Clean, Ends, GoTo, Forgets,
         WorkersAreOld
<1>19. ASSUME NEW f \in Flow, Spawn(f) PROVE StartsAreFresh'
  BY <1>19 DEF Spawn, Forgets, AtRest, Reaped, SlotTyped, StartsDiffer
<1>20. ASSUME NEW f \in Flow, SpawnFails(f) PROVE StartsAreFresh'
  BY <1>20 DEF SpawnFails, GoTo, AtRest, Reaped
<1>21. ASSUME NEW f \in Flow, Unspawned(f) PROVE StartsAreFresh'
  BY <1>21 DEF Unspawned, Captures, Faulting, TakesPlan, Ends, GoTo, Forgets
<1>22. ASSUME NEW f \in Flow, StartBoundary(f) PROVE StartsAreFresh'
  BY <1>22 DEF StartBoundary, Captures, Faulting, TakesCurrentPlan, TakesPlan,
         GoTo
<1>23. ASSUME NEW r \in Enable, WorkerWakes(r) PROVE StartsAreFresh'
  BY <1>23 DEF WorkerWakes, GoTo
<1>24. ASSUME NEW r \in Enable, WorkerCancelled(r) PROVE StartsAreFresh'
  BY <1>24 DEF WorkerCancelled, Ends, GoTo, Forgets
<1>25. ASSUME NEW r \in Enable, WorkerRenews(r) PROVE StartsAreFresh'
  BY <1>25 DEF WorkerRenews, Refused, Current, Captures, Faulting, TakesPlan,
         Ends, GoTo, Forgets
<1>26. ASSUME NEW r \in Enable, WorkerFails(r) PROVE StartsAreFresh'
  BY <1>26 DEF WorkerFails, Captures, Faulting, TakesPlan, Ends, GoTo, Forgets
<1>27. CASE Relinquish
  BY <1>27 DEF Relinquish, GoTo
<1>28. CASE DecideRelinquish
  BY <1>28 DEF DecideRelinquish, Captures, Retries, Faulting,
         TakesCurrentPlan, TakesPlan, ReleaseOrPrepare, Released, Refused,
         Current, GoesIdle, Succeeds, Clean, Quiet, Ends, GoTo, Forgets
<1> QED
  BY <1>1, <1>2, <1>3, <1>4, <1>5, <1>6, <1>7, <1>8, <1>9, <1>10, <1>11,
         <1>12, <1>13, <1>14, <1>15, <1>16, <1>17, <1>18, <1>19, <1>20, <1>21,
         <1>22, <1>23, <1>24, <1>25, <1>26, <1>27, <1>28 DEF Next, LaneNext,
         FlowNext, WorkerNext, Admit

\* A run is armed by one flow.
LEMMA StartsStayDifferent ==
    ASSUME RegistryTyped, ManagerTyped, PlacesTyped, PlansTyped, CallsTyped,
           SlotTyped, Ranked, PlansAreOld, StartsDiffer, [Next]_vars
    PROVE  StartsDiffer'
<1> USE FlowsDiffer DEF StartsDiffer, Ranked, PlansAreOld, ManagerTyped,
       PlacesTyped, PlansTyped, Enable, NoEnable, Starting, registryVars,
       managerVars, faultVars, slotVars, planVars, callVars
<1>1. CASE Lapse \/ Stays \/ UNCHANGED vars
  BY <1>1 DEF Lapse, Stays, vars
<1>2. CASE Commit
  BY <1>2 DEF Commit, GoTo
<1>3. ASSUME NEW e \in Enable, Replay(e) PROVE StartsDiffer'
  BY <1>3 DEF Replay, GoTo
<1>4. CASE AdmissionFails
  BY <1>4 DEF AdmissionFails, Admitting, Evidence, KeepsPlan, Ends, GoTo,
         Forgets
<1>5. CASE Admit /\ AdmitIdle
  BY <1>5 DEF AdmitIdle, Admit, Admitting, Evidence, AwaitsRelease, Arms,
         Ends, GoTo, Forgets, CallsTyped
<1>6. CASE Admit /\ AdmitSame
  BY <1>6 DEF AdmitSame, Admit, Admitting, Evidence, AwaitsRelease, Obtains,
         KeepsPlan, TakesCurrentPlan, TakesPlan, Retries, Faulting, Clean,
         Quiet, Ends, GoTo, Forgets
<1>7. CASE Admit /\ AdmitConflict
  BY <1>7 DEF AdmitConflict, Admit, Admitting, Evidence, StaleConflict,
         Defers, AwaitsRelease, Obtains, KeepsPlan, TakesCurrentPlan,
         TakesPlan, Faulting, Clean, Quiet, Ends, GoTo, Forgets
<1>8. CASE Cleanup
  BY <1>8 DEF Cleanup, TakesPlan, GoTo
<1>9. CASE SpendPermit
  BY <1>9 DEF SpendPermit, Released, Refused, Current, GoesIdle, KeepsPlan,
         Ends, GoTo, Forgets
<1>10. ASSUME NEW f \in Flow, Claim(f) PROVE StartsDiffer'
  BY <1>10 DEF Claim, Ends, GoTo, Forgets
<1>11. ASSUME NEW f \in Flow, Cancel(f) PROVE StartsDiffer'
  BY <1>11 DEF Cancel, GoTo
<1>12. ASSUME NEW f \in Flow, Join(f) PROVE StartsDiffer'
  BY <1>12 DEF Join, GoTo, AtRest
<1>13. ASSUME NEW f \in Flow, Deny(f) PROVE StartsDiffer'
  BY <1>13 DEF Deny, GoTo
<1>14. ASSUME NEW f \in Flow, Complete(f) PROVE StartsDiffer'
  BY <1>14 DEF Complete, KeepsPlan, Ends, GoTo, Forgets
<1>15. ASSUME NEW f \in Flow, Release(f) PROVE StartsDiffer'
  BY <1>15 DEF Release, ReleaseOrPrepare, Released, Refused, Current,
         GoesIdle, Succeeds, Clean, Quiet, Owns, Ends, GoTo, Forgets
<1>16. ASSUME NEW f \in Flow, Prepare(f) PROVE StartsDiffer'
  BY <1>16 DEF Prepare, Clean, Quiet, Ends, GoTo, Forgets
<1>17. ASSUME NEW f \in Flow, Prove(f) PROVE StartsDiffer'
  BY <1>17 DEF Prove, GoTo, Refused, Current
<1>18. ASSUME NEW f \in Flow, FinishProof(f) PROVE StartsDiffer'
  BY <1>18 DEF FinishProof, Arms, TriesAgain, Clean, Ends, GoTo, Forgets
<1>19. ASSUME NEW f \in Flow, Spawn(f) PROVE StartsDiffer'
  BY <1>19 DEF Spawn, Forgets, AtRest, Reaped
<1>20. ASSUME NEW f \in Flow, SpawnFails(f) PROVE StartsDiffer'
  BY <1>20 DEF SpawnFails, GoTo, AtRest, Reaped
<1>21. ASSUME NEW f \in Flow, Unspawned(f) PROVE StartsDiffer'
  BY <1>21 DEF Unspawned, Captures, Faulting, TakesPlan, Ends, GoTo, Forgets
<1>22. ASSUME NEW f \in Flow, StartBoundary(f) PROVE StartsDiffer'
  BY <1>22 DEF StartBoundary, Captures, Faulting, TakesCurrentPlan, TakesPlan,
         GoTo
<1>23. ASSUME NEW r \in Enable, WorkerWakes(r) PROVE StartsDiffer'
  BY <1>23 DEF WorkerWakes, GoTo
<1>24. ASSUME NEW r \in Enable, WorkerCancelled(r) PROVE StartsDiffer'
  BY <1>24 DEF WorkerCancelled, Ends, GoTo, Forgets
<1>25. ASSUME NEW r \in Enable, WorkerRenews(r) PROVE StartsDiffer'
  BY <1>25 DEF WorkerRenews, Refused, Current, Captures, Faulting, TakesPlan,
         Ends, GoTo, Forgets
<1>26. ASSUME NEW r \in Enable, WorkerFails(r) PROVE StartsDiffer'
  BY <1>26 DEF WorkerFails, Captures, Faulting, TakesPlan, Ends, GoTo, Forgets
<1>27. CASE Relinquish
  BY <1>27 DEF Relinquish, GoTo
<1>28. CASE DecideRelinquish
  BY <1>28 DEF DecideRelinquish, Captures, Retries, Faulting,
         TakesCurrentPlan, TakesPlan, ReleaseOrPrepare, Released, Refused,
         Current, GoesIdle, Succeeds, Clean, Quiet, Ends, GoTo, Forgets
<1> QED
  BY <1>1, <1>2, <1>3, <1>4, <1>5, <1>6, <1>7, <1>8, <1>9, <1>10, <1>11,
         <1>12, <1>13, <1>14, <1>15, <1>16, <1>17, <1>18, <1>19, <1>20, <1>21,
         <1>22, <1>23, <1>24, <1>25, <1>26, <1>27, <1>28 DEF Next, LaneNext,
         FlowNext, WorkerNext, Admit

\* A pass whose gate is open is executed by nobody.
LEMMA GateStaysOpen ==
    ASSUME RegistryTyped, ManagerTyped, PlacesTyped, PlansTyped, CallsTyped,
           Ranked, PlansAreOld, PassesAreNew, GateIsOpen, [Next]_vars
    PROVE  GateIsOpen'
<1> USE FlowsDiffer DEF GateIsOpen, PassesAreNew, PlansAreOld, Ranked,
       ManagerTyped, PlacesTyped, PlansTyped, Enable, NoEnable, Executing,
       registryVars, managerVars, faultVars, slotVars, planVars, callVars
<1>1. CASE Lapse \/ Stays \/ UNCHANGED vars
  BY <1>1 DEF Lapse, Stays, vars
<1>2. CASE Commit
  BY <1>2 DEF Commit, GoTo
<1>3. ASSUME NEW e \in Enable, Replay(e) PROVE GateIsOpen'
  BY <1>3 DEF Replay, GoTo
<1>4. CASE AdmissionFails
  BY <1>4 DEF AdmissionFails, Admitting, Evidence, KeepsPlan, Ends, GoTo,
         Forgets
<1>5. CASE Admit /\ AdmitIdle
  BY <1>5 DEF AdmitIdle, Admit, Admitting, Evidence, AwaitsRelease, Arms,
         Ends, GoTo, Forgets
<1>6. CASE Admit /\ AdmitSame
  BY <1>6 DEF AdmitSame, Admit, Admitting, Evidence, AwaitsRelease, Obtains,
         KeepsPlan, TakesCurrentPlan, TakesPlan, Retries, Faulting, Clean,
         Quiet, Ends, GoTo, Forgets
<1>7. CASE Admit /\ AdmitConflict
  BY <1>7 DEF AdmitConflict, Admit, Admitting, Evidence, StaleConflict,
         Defers, AwaitsRelease, Obtains, KeepsPlan, TakesCurrentPlan,
         TakesPlan, Faulting, Clean, Quiet, Ends, GoTo, Forgets
<1>8. CASE Cleanup
  BY <1>8 DEF Cleanup, TakesPlan, GoTo, CallsTyped
<1>9. CASE SpendPermit
  BY <1>9 DEF SpendPermit, Released, Refused, Current, GoesIdle, KeepsPlan,
         Ends, GoTo, Forgets
<1>10. ASSUME NEW f \in Flow, Claim(f) PROVE GateIsOpen'
  BY <1>10 DEF Claim, Ends, GoTo, Forgets
<1>11. ASSUME NEW f \in Flow, Cancel(f) PROVE GateIsOpen'
  BY <1>11 DEF Cancel, GoTo
<1>12. ASSUME NEW f \in Flow, Join(f) PROVE GateIsOpen'
  BY <1>12 DEF Join, GoTo, AtRest
<1>13. ASSUME NEW f \in Flow, Deny(f) PROVE GateIsOpen'
  BY <1>13 DEF Deny, GoTo
<1>14. ASSUME NEW f \in Flow, Complete(f) PROVE GateIsOpen'
  BY <1>14 DEF Complete, KeepsPlan, Ends, GoTo, Forgets
<1>15. ASSUME NEW f \in Flow, Release(f) PROVE GateIsOpen'
  BY <1>15 DEF Release, ReleaseOrPrepare, Released, Refused, Current,
         GoesIdle, Succeeds, Clean, Quiet, Owns, Ends, GoTo, Forgets
<1>16. ASSUME NEW f \in Flow, Prepare(f) PROVE GateIsOpen'
  BY <1>16 DEF Prepare, Clean, Quiet, Ends, GoTo, Forgets
<1>17. ASSUME NEW f \in Flow, Prove(f) PROVE GateIsOpen'
  BY <1>17 DEF Prove, GoTo, Refused, Current
<1>18. ASSUME NEW f \in Flow, FinishProof(f) PROVE GateIsOpen'
  BY <1>18 DEF FinishProof, Arms, TriesAgain, Clean, Ends, GoTo, Forgets
<1>19. ASSUME NEW f \in Flow, Spawn(f) PROVE GateIsOpen'
  BY <1>19 DEF Spawn, Forgets, AtRest, Reaped
<1>20. ASSUME NEW f \in Flow, SpawnFails(f) PROVE GateIsOpen'
  BY <1>20 DEF SpawnFails, GoTo, AtRest, Reaped
<1>21. ASSUME NEW f \in Flow, Unspawned(f) PROVE GateIsOpen'
  BY <1>21 DEF Unspawned, Captures, Faulting, TakesPlan, Ends, GoTo, Forgets
<1>22. ASSUME NEW f \in Flow, StartBoundary(f) PROVE GateIsOpen'
  BY <1>22 DEF StartBoundary, Captures, Faulting, TakesCurrentPlan, TakesPlan,
         GoTo
<1>23. ASSUME NEW r \in Enable, WorkerWakes(r) PROVE GateIsOpen'
  BY <1>23 DEF WorkerWakes, GoTo
<1>24. ASSUME NEW r \in Enable, WorkerCancelled(r) PROVE GateIsOpen'
  BY <1>24 DEF WorkerCancelled, Ends, GoTo, Forgets
<1>25. ASSUME NEW r \in Enable, WorkerRenews(r) PROVE GateIsOpen'
  BY <1>25 DEF WorkerRenews, Refused, Current, Captures, Faulting, TakesPlan,
         Ends, GoTo, Forgets
<1>26. ASSUME NEW r \in Enable, WorkerFails(r) PROVE GateIsOpen'
  BY <1>26 DEF WorkerFails, Captures, Faulting, TakesPlan, Ends, GoTo, Forgets
<1>27. CASE Relinquish
  BY <1>27 DEF Relinquish, GoTo
<1>28. CASE DecideRelinquish
  BY <1>28 DEF DecideRelinquish, Captures, Retries, Faulting,
         TakesCurrentPlan, TakesPlan, ReleaseOrPrepare, Released, Refused,
         Current, GoesIdle, Succeeds, Clean, Quiet, Ends, GoTo, Forgets
<1> QED
  BY <1>1, <1>2, <1>3, <1>4, <1>5, <1>6, <1>7, <1>8, <1>9, <1>10, <1>11,
         <1>12, <1>13, <1>14, <1>15, <1>16, <1>17, <1>18, <1>19, <1>20, <1>21,
         <1>22, <1>23, <1>24, <1>25, <1>26, <1>27, <1>28 DEF Next, LaneNext,
         FlowNext, WorkerNext, Admit

\* A pass is claimed by one flow.
LEMMA OnceStays ==
    ASSUME RegistryTyped, ManagerTyped, PlacesTyped, PlansTyped, CallsTyped,
           GateIsOpen, FailStopOnce, [Next]_vars
    PROVE  FailStopOnce'
<1> USE FlowsDiffer DEF FailStopOnce, PlacesTyped, PlansTyped, registryVars,
       managerVars, faultVars, slotVars, planVars, callVars
<1>1. CASE Lapse \/ Stays \/ UNCHANGED vars
  BY <1>1 DEF Lapse, Stays, vars
<1>2. CASE Commit
  BY <1>2 DEF Commit, GoTo
<1>3. ASSUME NEW e \in Enable, Replay(e) PROVE FailStopOnce'
  BY <1>3 DEF Replay, GoTo
<1>4. CASE AdmissionFails
  BY <1>4 DEF AdmissionFails, Admitting, Evidence, KeepsPlan, Ends, GoTo,
         Forgets
<1>5. CASE Admit /\ AdmitIdle
  BY <1>5 DEF AdmitIdle, Admit, Admitting, Evidence, AwaitsRelease, Arms,
         Ends, GoTo, Forgets
<1>6. CASE Admit /\ AdmitSame
  BY <1>6 DEF AdmitSame, Admit, Admitting, Evidence, AwaitsRelease, Obtains,
         KeepsPlan, TakesCurrentPlan, TakesPlan, Retries, Faulting, Clean,
         Quiet, Ends, GoTo, Forgets
<1>7. CASE Admit /\ AdmitConflict
  BY <1>7 DEF AdmitConflict, Admit, Admitting, Evidence, StaleConflict,
         Defers, AwaitsRelease, Obtains, KeepsPlan, TakesCurrentPlan,
         TakesPlan, Faulting, Clean, Quiet, Ends, GoTo, Forgets
<1>8. CASE Cleanup
  BY <1>8 DEF Cleanup, TakesPlan, GoTo
<1>9. CASE SpendPermit
  BY <1>9 DEF SpendPermit, Released, Refused, Current, GoesIdle, KeepsPlan,
         Ends, GoTo, Forgets
<1>10. ASSUME NEW f \in Flow, Claim(f) PROVE FailStopOnce'
  BY <1>10 DEF Claim, Ends, GoTo, Forgets, GateIsOpen, Executing
<1>11. ASSUME NEW f \in Flow, Cancel(f) PROVE FailStopOnce'
  BY <1>11 DEF Cancel, GoTo
<1>12. ASSUME NEW f \in Flow, Join(f) PROVE FailStopOnce'
  BY <1>12 DEF Join, GoTo, AtRest
<1>13. ASSUME NEW f \in Flow, Deny(f) PROVE FailStopOnce'
  BY <1>13 DEF Deny, GoTo
<1>14. ASSUME NEW f \in Flow, Complete(f) PROVE FailStopOnce'
  BY <1>14 DEF Complete, KeepsPlan, Ends, GoTo, Forgets
<1>15. ASSUME NEW f \in Flow, Release(f) PROVE FailStopOnce'
  BY <1>15 DEF Release, ReleaseOrPrepare, Released, Refused, Current,
         GoesIdle, Succeeds, Clean, Quiet, Owns, Ends, GoTo, Forgets
<1>16. ASSUME NEW f \in Flow, Prepare(f) PROVE FailStopOnce'
  BY <1>16 DEF Prepare, Clean, Quiet, Ends, GoTo, Forgets
<1>17. ASSUME NEW f \in Flow, Prove(f) PROVE FailStopOnce'
  BY <1>17 DEF Prove, GoTo, Refused, Current
<1>18. ASSUME NEW f \in Flow, FinishProof(f) PROVE FailStopOnce'
  BY <1>18 DEF FinishProof, Arms, TriesAgain, Clean, Ends, GoTo, Forgets
<1>19. ASSUME NEW f \in Flow, Spawn(f) PROVE FailStopOnce'
  BY <1>19 DEF Spawn, Forgets, AtRest, Reaped
<1>20. ASSUME NEW f \in Flow, SpawnFails(f) PROVE FailStopOnce'
  BY <1>20 DEF SpawnFails, GoTo, AtRest, Reaped
<1>21. ASSUME NEW f \in Flow, Unspawned(f) PROVE FailStopOnce'
  BY <1>21 DEF Unspawned, Captures, Faulting, TakesPlan, Ends, GoTo, Forgets
<1>22. ASSUME NEW f \in Flow, StartBoundary(f) PROVE FailStopOnce'
  BY <1>22 DEF StartBoundary, Captures, Faulting, TakesCurrentPlan, TakesPlan,
         GoTo
<1>23. ASSUME NEW r \in Enable, WorkerWakes(r) PROVE FailStopOnce'
  BY <1>23 DEF WorkerWakes, GoTo
<1>24. ASSUME NEW r \in Enable, WorkerCancelled(r) PROVE FailStopOnce'
  BY <1>24 DEF WorkerCancelled, Ends, GoTo, Forgets
<1>25. ASSUME NEW r \in Enable, WorkerRenews(r) PROVE FailStopOnce'
  BY <1>25 DEF WorkerRenews, Refused, Current, Captures, Faulting, TakesPlan,
         Ends, GoTo, Forgets
<1>26. ASSUME NEW r \in Enable, WorkerFails(r) PROVE FailStopOnce'
  BY <1>26 DEF WorkerFails, Captures, Faulting, TakesPlan, Ends, GoTo, Forgets
<1>27. CASE Relinquish
  BY <1>27 DEF Relinquish, GoTo
<1>28. CASE DecideRelinquish
  BY <1>28 DEF DecideRelinquish, Captures, Retries, Faulting,
         TakesCurrentPlan, TakesPlan, ReleaseOrPrepare, Released, Refused,
         Current, GoesIdle, Succeeds, Clean, Quiet, Ends, GoTo, Forgets
<1> QED
  BY <1>1, <1>2, <1>3, <1>4, <1>5, <1>6, <1>7, <1>8, <1>9, <1>10, <1>11,
         <1>12, <1>13, <1>14, <1>15, <1>16, <1>17, <1>18, <1>19, <1>20, <1>21,
         <1>22, <1>23, <1>24, <1>25, <1>26, <1>27, <1>28 DEF Next, LaneNext,
         FlowNext, WorkerNext, Admit

\* The outputs of a run that was denied stay dark.
LEMMA DenialStaysDark ==
    ASSUME RegistryTyped, ManagerTyped, PlacesTyped, PlansTyped, CallsTyped,
           Ranked, DenialIsDark, [Next]_vars
    PROVE  DenialIsDark'
<1> USE FlowsDiffer DEF DenialIsDark, Clean, Ranked, RegistryTyped,
       ManagerTyped, PlacesTyped, PlansTyped, Enable, NoEnable, registryVars,
       managerVars, faultVars, slotVars, planVars, callVars
<1>1. CASE Lapse \/ Stays \/ UNCHANGED vars
  BY <1>1 DEF Lapse, Stays, vars
<1>2. CASE Commit
  BY <1>2 DEF Commit, GoTo, Tearing
<1>3. ASSUME NEW e \in Enable, Replay(e) PROVE DenialIsDark'
  BY <1>3 DEF Replay, GoTo
<1>4. CASE AdmissionFails
  BY <1>4 DEF AdmissionFails, Admitting, Evidence, KeepsPlan, Ends, GoTo,
         Forgets
<1>5. CASE Admit /\ AdmitIdle
  BY <1>5 DEF AdmitIdle, Admit, Admitting, Evidence, AwaitsRelease, Arms,
         Ends, GoTo, Forgets
<1>6. CASE Admit /\ AdmitSame
  BY <1>6 DEF AdmitSame, Admit, Admitting, Evidence, AwaitsRelease, Obtains,
         KeepsPlan, TakesCurrentPlan, TakesPlan, Retries, Faulting, Quiet,
         Ends, GoTo, Forgets
<1>7. CASE Admit /\ AdmitConflict
  BY <1>7 DEF AdmitConflict, Admit, Admitting, Evidence, StaleConflict,
         Defers, AwaitsRelease, Obtains, KeepsPlan, TakesCurrentPlan,
         TakesPlan, Faulting, Quiet, Ends, GoTo, Forgets
<1>8. CASE Cleanup
  BY <1>8 DEF Cleanup, TakesPlan, GoTo
<1>9. CASE SpendPermit
  BY <1>9 DEF SpendPermit, Released, Refused, Current, GoesIdle, KeepsPlan,
         Ends, GoTo, Forgets
<1>10. ASSUME NEW f \in Flow, Claim(f) PROVE DenialIsDark'
  BY <1>10 DEF Claim, Ends, GoTo, Forgets
<1>11. ASSUME NEW f \in Flow, Cancel(f) PROVE DenialIsDark'
  BY <1>11 DEF Cancel, GoTo
<1>12. ASSUME NEW f \in Flow, Join(f) PROVE DenialIsDark'
  BY <1>12 DEF Join, GoTo, AtRest
<1>13. ASSUME NEW f \in Flow, Deny(f) PROVE DenialIsDark'
  BY <1>13 DEF Deny, GoTo
<1>14. ASSUME NEW f \in Flow, Complete(f) PROVE DenialIsDark'
  BY <1>14 DEF Complete, KeepsPlan, Ends, GoTo, Forgets
<1>15. ASSUME NEW f \in Flow, Release(f) PROVE DenialIsDark'
  BY <1>15 DEF Release, ReleaseOrPrepare, Released, Refused, Current,
         GoesIdle, Succeeds, Quiet, Owns, Ends, GoTo, Forgets
<1>16. ASSUME NEW f \in Flow, Prepare(f) PROVE DenialIsDark'
  BY <1>16 DEF Prepare, Quiet, Ends, GoTo, Forgets
<1>17. ASSUME NEW f \in Flow, Prove(f) PROVE DenialIsDark'
  BY <1>17 DEF Prove, GoTo, Refused, Current
<1>18. ASSUME NEW f \in Flow, FinishProof(f) PROVE DenialIsDark'
  BY <1>18 DEF FinishProof, Arms, TriesAgain, Ends, GoTo, Forgets
<1>19. ASSUME NEW f \in Flow, Spawn(f) PROVE DenialIsDark'
  BY <1>19 DEF Spawn, Forgets, AtRest, Reaped
<1>20. ASSUME NEW f \in Flow, SpawnFails(f) PROVE DenialIsDark'
  BY <1>20 DEF SpawnFails, GoTo, AtRest, Reaped
<1>21. ASSUME NEW f \in Flow, Unspawned(f) PROVE DenialIsDark'
  BY <1>21 DEF Unspawned, Captures, Faulting, TakesPlan, Ends, GoTo, Forgets
<1>22. ASSUME NEW f \in Flow, StartBoundary(f) PROVE DenialIsDark'
  BY <1>22 DEF StartBoundary, Captures, Faulting, TakesCurrentPlan, TakesPlan,
         GoTo
<1>23. ASSUME NEW r \in Enable, WorkerWakes(r) PROVE DenialIsDark'
  BY <1>23 DEF WorkerWakes, GoTo
<1>24. ASSUME NEW r \in Enable, WorkerCancelled(r) PROVE DenialIsDark'
  BY <1>24 DEF WorkerCancelled, Ends, GoTo, Forgets
<1>25. ASSUME NEW r \in Enable, WorkerRenews(r) PROVE DenialIsDark'
  BY <1>25 DEF WorkerRenews, Refused, Current, Captures, Faulting, TakesPlan,
         Ends, GoTo, Forgets
<1>26. ASSUME NEW r \in Enable, WorkerFails(r) PROVE DenialIsDark'
  BY <1>26 DEF WorkerFails, Captures, Faulting, TakesPlan, Ends, GoTo, Forgets
<1>27. CASE Relinquish
  BY <1>27 DEF Relinquish, GoTo
<1>28. CASE DecideRelinquish
  BY <1>28 DEF DecideRelinquish, Captures, Retries, Faulting,
         TakesCurrentPlan, TakesPlan, ReleaseOrPrepare, Released, Refused,
         Current, GoesIdle, Succeeds, Quiet, Ends, GoTo, Forgets
<1> QED
  BY <1>1, <1>2, <1>3, <1>4, <1>5, <1>6, <1>7, <1>8, <1>9, <1>10, <1>11,
         <1>12, <1>13, <1>14, <1>15, <1>16, <1>17, <1>18, <1>19, <1>20, <1>21,
         <1>22, <1>23, <1>24, <1>25, <1>26, <1>27, <1>28 DEF Next, LaneNext,
         FlowNext, WorkerNext, Admit

\* A token is given only after a clean pass and to one flow.
LEMMA TokenStaysClean ==
    ASSUME RegistryTyped, ManagerTyped, PlacesTyped, PlansTyped, CallsTyped,
           TokenNeedsCleanDenial, [Next]_vars
    PROVE  TokenNeedsCleanDenial'
<1> USE FlowsDiffer DEF TokenNeedsCleanDenial, Clean, ManagerTyped,
       registryVars, managerVars, faultVars, slotVars, planVars, callVars
<1>1. CASE Lapse \/ Commit \/ AdmissionFails \/ Relinquish \/ Stays
          \/ UNCHANGED vars
  BY <1>1 DEF Lapse, Commit, AdmissionFails, Relinquish, Stays, vars
<1>2. ASSUME NEW e \in Enable, Replay(e) PROVE TokenNeedsCleanDenial'
  BY <1>2 DEF Replay
<1>3. ASSUME NEW f \in Flow, Claim(f) \/ Cancel(f) \/ Join(f) \/ Deny(f)
          \/ Prove(f) \/ Spawn(f) \/ SpawnFails(f)
     PROVE  TokenNeedsCleanDenial'
  BY <1>3 DEF Claim, Cancel, Join, Deny, Prove, Spawn, SpawnFails
<1>4. ASSUME NEW r \in Enable, WorkerWakes(r) \/ WorkerCancelled(r)
     PROVE  TokenNeedsCleanDenial'
  BY <1>4 DEF WorkerWakes, WorkerCancelled
<1>5. CASE Admit /\ AdmitIdle
  BY <1>5 DEF AdmitIdle, Admit, Admitting, Evidence, AwaitsRelease, Arms,
         Ends, GoTo, Forgets
<1>6. CASE Admit /\ AdmitSame
  BY <1>6 DEF AdmitSame, Admit, Admitting, Evidence, AwaitsRelease, Obtains,
         KeepsPlan, TakesCurrentPlan, TakesPlan, Retries, Faulting, Quiet,
         Ends, GoTo, Forgets
<1>7. CASE Admit /\ AdmitConflict
  BY <1>7 DEF AdmitConflict, Admit, Admitting, Evidence, StaleConflict,
         Defers, AwaitsRelease, Obtains, KeepsPlan, TakesCurrentPlan,
         TakesPlan, Faulting, Quiet, Ends, GoTo, Forgets
<1>8. CASE Cleanup
  BY <1>8 DEF Cleanup, TakesPlan, GoTo
<1>9. CASE SpendPermit
  BY <1>9 DEF SpendPermit, Released, Refused, Current, GoesIdle, KeepsPlan,
         Ends, GoTo, Forgets
<1>10. ASSUME NEW f \in Flow, Complete(f) PROVE TokenNeedsCleanDenial'
  BY <1>10 DEF Complete, KeepsPlan, Ends, GoTo, Forgets
<1>11. ASSUME NEW f \in Flow, Release(f) PROVE TokenNeedsCleanDenial'
  BY <1>11 DEF Release, ReleaseOrPrepare, Released, Refused, Current,
         GoesIdle, Succeeds, Quiet, Owns, Ends, GoTo, Forgets
<1>12. ASSUME NEW f \in Flow, Prepare(f) PROVE TokenNeedsCleanDenial'
  BY <1>12 DEF Prepare, Quiet, Ends, GoTo, Forgets
<1>13. ASSUME NEW f \in Flow, FinishProof(f) PROVE TokenNeedsCleanDenial'
  BY <1>13 DEF FinishProof, Arms, TriesAgain, Ends, GoTo, Forgets
<1>14. ASSUME NEW f \in Flow, Unspawned(f) PROVE TokenNeedsCleanDenial'
  BY <1>14 DEF Unspawned, Captures, Faulting, TakesPlan, Ends, GoTo, Forgets
<1>15. ASSUME NEW f \in Flow, StartBoundary(f) PROVE TokenNeedsCleanDenial'
  BY <1>15 DEF StartBoundary, Captures, Faulting, TakesCurrentPlan, TakesPlan,
         GoTo
<1>16. ASSUME NEW r \in Enable, WorkerRenews(r) PROVE TokenNeedsCleanDenial'
  BY <1>16 DEF WorkerRenews, Refused, Current, Captures, Faulting, TakesPlan,
         Ends, GoTo, Forgets
<1>17. ASSUME NEW r \in Enable, WorkerFails(r) PROVE TokenNeedsCleanDenial'
  BY <1>17 DEF WorkerFails, Captures, Faulting, TakesPlan, Ends, GoTo, Forgets
<1>18. CASE DecideRelinquish
  BY <1>18 DEF DecideRelinquish, Captures, Retries, Faulting,
         TakesCurrentPlan, TakesPlan, ReleaseOrPrepare, Released, Refused,
         Current, GoesIdle, Succeeds, Quiet, Ends, GoTo, Forgets
<1> QED
  BY <1>1, <1>2, <1>3, <1>4, <1>5, <1>6, <1>7, <1>8, <1>9, <1>10, <1>11,
         <1>12, <1>13, <1>14, <1>15, <1>16, <1>17, <1>18 DEF Next, LaneNext,
         FlowNext, WorkerNext, Admit

\* The manager lets go of a run only when the lease is given back.
LEMMA IdleStaysEmpty ==
    ASSUME RegistryTyped, ManagerTyped, PlacesTyped, PlansTyped, CallsTyped,
           Ranked, IdleOwnsNothing, [Next]_vars
    PROVE  IdleOwnsNothing'
<1> USE FlowsDiffer DEF IdleOwnsNothing, Ranked, RegistryTyped, ManagerTyped,
       PlacesTyped, Enable, NoEnable, registryVars, managerVars, faultVars,
       slotVars, planVars, callVars
<1>1. CASE Stays \/ UNCHANGED vars
  BY <1>1 DEF Stays, vars
<1>2. CASE Lapse
  BY <1>2 DEF Lapse
<1>3. CASE Commit
  BY <1>3 DEF Commit, GoTo
<1>4. ASSUME NEW e \in Enable, Replay(e) PROVE IdleOwnsNothing'
  BY <1>4 DEF Replay, GoTo
<1>5. CASE AdmissionFails
  BY <1>5 DEF AdmissionFails, Admitting, Evidence, KeepsPlan, Ends, GoTo,
         Forgets
<1>6. CASE Admit /\ AdmitIdle
  BY <1>6 DEF AdmitIdle, Admit, Admitting, Evidence, AwaitsRelease, Arms,
         Ends, GoTo, Forgets
<1>7. CASE Admit /\ AdmitSame
  BY <1>7 DEF AdmitSame, Admit, Admitting, Evidence, AwaitsRelease, Obtains,
         KeepsPlan, TakesCurrentPlan, TakesPlan, Retries, Faulting, Clean,
         Quiet, Ends, GoTo, Forgets
<1>8. CASE Admit /\ AdmitConflict
  BY <1>8 DEF AdmitConflict, Admit, Admitting, Evidence, StaleConflict,
         Defers, AwaitsRelease, Obtains, KeepsPlan, TakesCurrentPlan,
         TakesPlan, Faulting, Clean, Quiet, Ends, GoTo, Forgets
<1>9. CASE Cleanup
  BY <1>9 DEF Cleanup, TakesPlan, GoTo
<1>10. CASE SpendPermit
  BY <1>10 DEF SpendPermit, Released, Refused, Current, GoesIdle, KeepsPlan,
         Ends, GoTo, Forgets
<1>11. ASSUME NEW f \in Flow, Claim(f) PROVE IdleOwnsNothing'
  BY <1>11 DEF Claim, Ends, GoTo, Forgets
<1>12. ASSUME NEW f \in Flow, Cancel(f) PROVE IdleOwnsNothing'
  BY <1>12 DEF Cancel, GoTo
<1>13. ASSUME NEW f \in Flow, Join(f) PROVE IdleOwnsNothing'
  BY <1>13 DEF Join, GoTo, AtRest
<1>14. ASSUME NEW f \in Flow, Deny(f) PROVE IdleOwnsNothing'
  BY <1>14 DEF Deny, GoTo
<1>15. ASSUME NEW f \in Flow, Complete(f) PROVE IdleOwnsNothing'
  BY <1>15 DEF Complete, KeepsPlan, Ends, GoTo, Forgets
<1>16. ASSUME NEW f \in Flow, Release(f) PROVE IdleOwnsNothing'
  BY <1>16 DEF Release, ReleaseOrPrepare, Released, Refused, Current,
         GoesIdle, Succeeds, Clean, Quiet, Owns, Ends, GoTo, Forgets
<1>17. ASSUME NEW f \in Flow, Prepare(f) PROVE IdleOwnsNothing'
  BY <1>17 DEF Prepare, Clean, Quiet, Ends, GoTo, Forgets
<1>18. ASSUME NEW f \in Flow, Prove(f) PROVE IdleOwnsNothing'
  BY <1>18 DEF Prove, GoTo, Refused, Current
<1>19. ASSUME NEW f \in Flow, FinishProof(f) PROVE IdleOwnsNothing'
  BY <1>19 DEF FinishProof, Arms, TriesAgain, Clean, Ends, GoTo, Forgets
<1>20. ASSUME NEW f \in Flow, Spawn(f) PROVE IdleOwnsNothing'
  BY <1>20 DEF Spawn, Forgets, AtRest, Reaped
<1>21. ASSUME NEW f \in Flow, SpawnFails(f) PROVE IdleOwnsNothing'
  BY <1>21 DEF SpawnFails, GoTo, AtRest, Reaped
<1>22. ASSUME NEW f \in Flow, Unspawned(f) PROVE IdleOwnsNothing'
  BY <1>22 DEF Unspawned, Captures, Faulting, TakesPlan, Ends, GoTo, Forgets
<1>23. ASSUME NEW f \in Flow, StartBoundary(f) PROVE IdleOwnsNothing'
  BY <1>23 DEF StartBoundary, Captures, Faulting, TakesCurrentPlan, TakesPlan,
         GoTo
<1>24. ASSUME NEW r \in Enable, WorkerWakes(r) PROVE IdleOwnsNothing'
  BY <1>24 DEF WorkerWakes, GoTo
<1>25. ASSUME NEW r \in Enable, WorkerCancelled(r) PROVE IdleOwnsNothing'
  BY <1>25 DEF WorkerCancelled, Ends, GoTo, Forgets
<1>26. ASSUME NEW r \in Enable, WorkerRenews(r) PROVE IdleOwnsNothing'
  BY <1>26 DEF WorkerRenews, Refused, Current, Captures, Faulting, TakesPlan,
         Ends, GoTo, Forgets
<1>27. ASSUME NEW r \in Enable, WorkerFails(r) PROVE IdleOwnsNothing'
  BY <1>27 DEF WorkerFails, Captures, Faulting, TakesPlan, Ends, GoTo, Forgets
<1>28. CASE Relinquish
  BY <1>28 DEF Relinquish, GoTo
<1>29. CASE DecideRelinquish
  BY <1>29 DEF DecideRelinquish, Captures, Retries, Faulting,
         TakesCurrentPlan, TakesPlan, ReleaseOrPrepare, Released, Refused,
         Current, GoesIdle, Succeeds, Clean, Quiet, Ends, GoTo, Forgets
<1> QED
  BY <1>1, <1>2, <1>3, <1>4, <1>5, <1>6, <1>7, <1>8, <1>9, <1>10, <1>11,
         <1>12, <1>13, <1>14, <1>15, <1>16, <1>17, <1>18, <1>19, <1>20, <1>21,
         <1>22, <1>23, <1>24, <1>25, <1>26, <1>27, <1>28, <1>29 DEF Next,
         LaneNext, FlowNext, WorkerNext, Admit

\* An armed run keeps its worker, or the flow that starts or fences it.
LEMMA ArmedStaysSupervised ==
    ASSUME RegistryTyped, ManagerTyped, PlacesTyped, PlansTyped, CallsTyped,
           SlotTyped, Ranked, PlansAreOld, PassesAreNew, ArmedIsSupervised,
           [Next]_vars
    PROVE  ArmedIsSupervised'
<1> USE FlowsDiffer DEF ArmedIsSupervised, Ranked, ManagerTyped, SlotTyped,
       PlacesTyped, PlansTyped, Enable, NoEnable, Starting, PassesAreNew,
       registryVars, managerVars, faultVars, slotVars, planVars, callVars
<1>1. CASE Lapse \/ Stays \/ UNCHANGED vars
  BY <1>1 DEF Lapse, Stays, vars
<1>2. CASE Commit
  BY <1>2 DEF Commit, GoTo
<1>3. ASSUME NEW e \in Enable, Replay(e) PROVE ArmedIsSupervised'
  BY <1>3 DEF Replay, GoTo
<1>4. CASE AdmissionFails
  BY <1>4 DEF AdmissionFails, Admitting, Evidence, KeepsPlan, Ends, GoTo,
         Forgets
<1>5. CASE Admit /\ AdmitIdle
  BY <1>5 DEF AdmitIdle, Admit, Admitting, Evidence, AwaitsRelease, Arms,
         Ends, GoTo, Forgets
<1>6. CASE Admit /\ AdmitSame
  BY <1>6 DEF AdmitSame, Admit, Admitting, Evidence, AwaitsRelease, Obtains,
         KeepsPlan, TakesCurrentPlan, TakesPlan, Retries, Faulting, Clean,
         Quiet, Ends, GoTo, Forgets
<1>7. CASE Admit /\ AdmitConflict
  BY <1>7 DEF AdmitConflict, Admit, Admitting, Evidence, StaleConflict,
         Defers, AwaitsRelease, Obtains, KeepsPlan, TakesCurrentPlan,
         TakesPlan, Faulting, Clean, Quiet, Ends, GoTo, Forgets
<1>8. CASE Cleanup
  BY <1>8 DEF Cleanup, TakesPlan, GoTo
<1>9. CASE SpendPermit
  BY <1>9 DEF SpendPermit, Released, Refused, Current, GoesIdle, KeepsPlan,
         Ends, GoTo, Forgets
<1>10. ASSUME NEW f \in Flow, Claim(f) PROVE ArmedIsSupervised'
  BY <1>10 DEF Claim, Ends, GoTo, Forgets
<1>11. ASSUME NEW f \in Flow, Cancel(f) PROVE ArmedIsSupervised'
  BY <1>11 DEF Cancel, GoTo
<1>12. ASSUME NEW f \in Flow, Join(f) PROVE ArmedIsSupervised'
  BY <1>12 DEF Join, GoTo, AtRest
<1>13. ASSUME NEW f \in Flow, Deny(f) PROVE ArmedIsSupervised'
  BY <1>13 DEF Deny, GoTo
<1>14. ASSUME NEW f \in Flow, Complete(f) PROVE ArmedIsSupervised'
  BY <1>14 DEF Complete, KeepsPlan, Ends, GoTo, Forgets
<1>15. ASSUME NEW f \in Flow, Release(f) PROVE ArmedIsSupervised'
  BY <1>15 DEF Release, ReleaseOrPrepare, Released, Refused, Current,
         GoesIdle, Succeeds, Clean, Quiet, Owns, Ends, GoTo, Forgets
<1>16. ASSUME NEW f \in Flow, Prepare(f) PROVE ArmedIsSupervised'
  BY <1>16 DEF Prepare, Clean, Quiet, Ends, GoTo, Forgets
<1>17. ASSUME NEW f \in Flow, Prove(f) PROVE ArmedIsSupervised'
  BY <1>17 DEF Prove, GoTo, Refused, Current
<1>18. ASSUME NEW f \in Flow, FinishProof(f) PROVE ArmedIsSupervised'
  <2>1. CASE proof = f /\ deferred = newer[f] /\ pc[f] = "proven"
    <3>1. pc'[f] = "spawn" /\ planRun'[f] = run'
      BY <1>18, <2>1 DEF FinishProof, Arms, GoTo
    <3> QED
      BY <3>1
  <2>2. CASE ~(proof = f /\ deferred = newer[f] /\ pc[f] = "proven")
    <3>1. UNCHANGED <<slot, run, active>>
      BY <1>18, <2>2 DEF FinishProof
    <3>2. \A g \in Flow : g # f => pc'[g] = pc[g] /\ planRun'[g] = planRun[g]
      BY <1>18, <2>2 DEF FinishProof, TriesAgain, Ends, GoTo, Forgets
    <3> QED
      BY <1>18, <3>1, <3>2 DEF FinishProof
  <2> QED
    BY <2>1, <2>2
<1>19. ASSUME NEW f \in Flow, Spawn(f) PROVE ArmedIsSupervised'
  BY <1>19 DEF Spawn, Forgets, AtRest, Reaped
<1>20. ASSUME NEW f \in Flow, SpawnFails(f) PROVE ArmedIsSupervised'
  BY <1>20 DEF SpawnFails, GoTo, AtRest, Reaped
<1>21. ASSUME NEW f \in Flow, Unspawned(f) PROVE ArmedIsSupervised'
  BY <1>21 DEF Unspawned, Captures, Faulting, TakesPlan, Ends, GoTo, Forgets
<1>22. ASSUME NEW f \in Flow, StartBoundary(f) PROVE ArmedIsSupervised'
  BY <1>22 DEF StartBoundary, Captures, Faulting, TakesCurrentPlan, TakesPlan,
         GoTo
<1>23. ASSUME NEW r \in Enable, WorkerWakes(r) PROVE ArmedIsSupervised'
  BY <1>23 DEF WorkerWakes, GoTo
<1>24. ASSUME NEW r \in Enable, WorkerCancelled(r) PROVE ArmedIsSupervised'
  BY <1>24 DEF WorkerCancelled, Ends, GoTo, Forgets
<1>25. ASSUME NEW r \in Enable, WorkerRenews(r) PROVE ArmedIsSupervised'
  BY <1>25 DEF WorkerRenews, Refused, Current, Captures, Faulting, TakesPlan,
         Ends, GoTo, Forgets
<1>26. ASSUME NEW r \in Enable, WorkerFails(r) PROVE ArmedIsSupervised'
  BY <1>26 DEF WorkerFails, Captures, Faulting, TakesPlan, Ends, GoTo, Forgets
<1>27. CASE Relinquish
  BY <1>27 DEF Relinquish, GoTo
<1>28. CASE DecideRelinquish
  BY <1>28 DEF DecideRelinquish, Captures, Retries, Faulting,
         TakesCurrentPlan, TakesPlan, ReleaseOrPrepare, Released, Refused,
         Current, GoesIdle, Succeeds, Clean, Quiet, Ends, GoTo, Forgets
<1> QED
  BY <1>1, <1>2, <1>3, <1>4, <1>5, <1>6, <1>7, <1>8, <1>9, <1>10, <1>11,
         <1>12, <1>13, <1>14, <1>15, <1>16, <1>17, <1>18, <1>19, <1>20, <1>21,
         <1>22, <1>23, <1>24, <1>25, <1>26, <1>27, <1>28 DEF Next, LaneNext,
         FlowNext, WorkerNext, Admit

----------------------------------------------------------------------------
(* The invariant and the theorems                                          *)

\* The first state is sound.
LEMMA InitSound == Init => Sound
<1> SUFFICES ASSUME Init PROVE Sound
  OBVIOUS
<1> USE FlowsDiffer, KeepaliveConstants DEF Init, NoEnable
<1>1. RegistryTyped /\ SlotTyped /\ PlansTyped
  BY DEF RegistryTyped, SlotTyped, PlansTyped, Enable
<1>2. ManagerTyped
  BY DEF ManagerTyped, Enable
<1>3. PlacesTyped /\ CallsTyped
  BY DEF PlacesTyped, Place, CallsTyped
<1>4. FlagsTyped
  BY DEF FlagsTyped
<1>5. Ranked
  BY DEF Ranked
<1>6. PlansAreOld /\ PassesAreNew
  BY DEF PlansAreOld, PassesAreNew, Executing, Starting
<1>7. WorkersAreOld /\ StartsAreFresh /\ StartsDiffer
  BY DEF WorkersAreOld, StartsAreFresh, StartsDiffer, Starting
<1>8. GateIsOpen /\ DenialIsDark /\ FailStopOnce
  BY DEF GateIsOpen, DenialIsDark, Clean, FailStopOnce
<1>9. TokenNeedsCleanDenial /\ IdleOwnsNothing /\ ArmedIsSupervised
  BY DEF TokenNeedsCleanDenial, IdleOwnsNothing, ArmedIsSupervised
<1> QED
  BY <1>1, <1>2, <1>3, <1>4, <1>5, <1>6, <1>7, <1>8, <1>9 DEF Sound, Typed

\* Every step keeps a sound state sound.
LEMMA StepSound == Sound /\ [Next]_vars => Sound'
<1> SUFFICES ASSUME Sound, [Next]_vars PROVE Sound'
  OBVIOUS
<1>1. /\ RegistryTyped /\ ManagerTyped /\ FlagsTyped /\ SlotTyped
      /\ PlacesTyped /\ PlansTyped /\ CallsTyped
  BY DEF Sound, Typed
<1>2. /\ Ranked /\ PlansAreOld /\ PassesAreNew /\ WorkersAreOld
      /\ StartsAreFresh /\ StartsDiffer /\ GateIsOpen /\ DenialIsDark
      /\ FailStopOnce /\ TokenNeedsCleanDenial /\ IdleOwnsNothing
      /\ ArmedIsSupervised
  BY DEF Sound
<1>3. RegistryTyped' /\ ManagerTyped'
  BY <1>1, <1>2, RegistryStaysTyped, ManagerStaysTyped
<1>4. FlagsTyped' /\ SlotTyped' /\ PlacesTyped'
  BY <1>1, <1>2, FlagsStayTyped, SlotStaysTyped, PlacesStayTyped
<1>5. PlansTyped' /\ CallsTyped'
  BY <1>1, <1>2, PlansStayTyped, CallsStayTyped
<1>6. Ranked' /\ PlansAreOld' /\ PassesAreNew'
  BY <1>1, <1>2, RankStays, PlansStayOld, PassesStayNew
<1>7. WorkersAreOld' /\ StartsAreFresh' /\ StartsDiffer'
  BY <1>1, <1>2, WorkersStayOld, StartsStayFresh, StartsStayDifferent
<1>8. GateIsOpen' /\ FailStopOnce' /\ DenialIsDark'
  BY <1>1, <1>2, GateStaysOpen, OnceStays, DenialStaysDark
<1>9. TokenNeedsCleanDenial' /\ IdleOwnsNothing' /\ ArmedIsSupervised'
  BY <1>1, <1>2, TokenStaysClean, IdleStaysEmpty, ArmedStaysSupervised
<1> QED
  BY <1>3, <1>4, <1>5, <1>6, <1>7, <1>8, <1>9 DEF Sound, Typed

\* Every reachable state is sound.
THEOREM SoundAlways == Spec => []Sound
  BY InitSound, StepSound, PTL DEF Spec

\* Every variable has its type: the manager, the worker slot and the plans
\* name Enables, whatever a flow kept from an earlier section.
THEOREM TypeCorrect == Spec => []KeepaliveTypeOK
<1>1. Sound => KeepaliveTypeOK
  BY TypedIsTypeOK DEF Sound
<1> QED
  BY <1>1, SoundAlways, PTL

\* One flow executes a fail-stop pass, however many boundaries met it and took
\* its plan (claim of FailStopPlan's gate).
THEOREM FailStopsOnce == Spec => []FailStopOnce
<1>1. Sound => FailStopOnce
  BY DEF Sound
<1> QED
  BY <1>1, SoundAlways, PTL

\* A permit or a proof exists only after a fail-stop that reported no failure.
THEOREM TokensNeedDenial == Spec => []TokenNeedsCleanDenial
<1>1. Sound => TokenNeedsCleanDenial
  BY DEF Sound
<1> QED
  BY <1>1, SoundAlways, PTL

\* With no run in the manager, a live lease is that of the Enable in admission.
THEOREM IdleNeverOwns == Spec => []IdleOwnsNothing
<1>1. Sound => IdleOwnsNothing
  BY DEF Sound
<1> QED
  BY <1>1, SoundAlways, PTL

\* An armed run has its worker, or a flow about to start or to fence it.
THEOREM ArmedStaysServed == Spec => []ArmedIsSupervised
<1>1. Sound => ArmedIsSupervised
  BY DEF Sound
<1> QED
  BY <1>1, SoundAlways, PTL

\* A lease that a step gives back is that of a run in the manager whose
\* fail-stop was clean.
LEMMA ReleaseIsClean ==
    ASSUME RegistryTyped, ManagerTyped, Ranked, TokenNeedsCleanDenial,
           [Next]_vars, lease # NoEnable, lease' = NoEnable
    PROVE  Clean /\ lease = cur
<1> USE KeepaliveConstants DEF Enable, NoEnable, registryVars
<1>1. ~Commit
  BY DEF Commit, RegistryTyped
<1>2. ~Lapse /\ ~AdmissionFails /\ ~Admit /\ ~Cleanup /\ ~Relinquish /\ ~Stays
  BY DEF Lapse, AdmissionFails, Admit, Cleanup, Relinquish, Stays, vars
<1>3. ~UNCHANGED vars /\ \A e \in Enable : ~Replay(e)
  BY DEF Replay, vars
<1>4. \A f \in Flow :
         /\ ~Claim(f) /\ ~Cancel(f) /\ ~Join(f) /\ ~Deny(f) /\ ~Complete(f)
         /\ ~Prepare(f) /\ ~FinishProof(f) /\ ~Spawn(f) /\ ~SpawnFails(f)
         /\ ~Unspawned(f) /\ ~StartBoundary(f)
  BY DEF Claim, Cancel, Join, Deny, Complete, Prepare, FinishProof, Spawn,
         SpawnFails, Unspawned, StartBoundary
<1>5. \A f \in Flow : ~Prove(f)
  BY DEF Prove, Refused
<1>6. \A r \in Enable :
         ~WorkerWakes(r) /\ ~WorkerCancelled(r) /\ ~WorkerRenews(r) /\ ~WorkerFails(r)
  BY DEF WorkerWakes, WorkerCancelled, WorkerRenews, Refused, WorkerFails
<1>7. CASE SpendPermit
  <2>1. permit = Lane /\ \E overtaken \in Overtaken : Released(cur, overtaken)
    BY <1>7 DEF SpendPermit, Refused
  <2>2. Lane # Nobody
    BY FlowsDiffer
  <2> QED
    BY <2>1, <2>2 DEF TokenNeedsCleanDenial, Released, Current
<1>8. ASSUME NEW f \in Flow, Release(f) PROVE Clean /\ lease = cur
  BY <1>8 DEF Release, ReleaseOrPrepare, Released, Refused, Current
<1>9. CASE DecideRelinquish
  BY <1>9 DEF DecideRelinquish, ReleaseOrPrepare, Released, Refused, Current
<1> QED
  BY <1>1, <1>2, <1>3, <1>4, <1>5, <1>6, <1>7, <1>8, <1>9
  DEF Next, LaneNext, FlowNext, WorkerNext

\* The lease is given back only when the outputs of its Enable are dark,
\* although the denial runs outside every lock and a port may fail.
THEOREM DarkAlwaysWhenReleased == Spec => DarkWhenReleased
<1>1. ASSUME Sound, [Next]_vars, lease # NoEnable, lease' = NoEnable
      PROVE  lit # lease
  <2>1. Clean /\ lease = cur
    BY <1>1, ReleaseIsClean DEF Sound, Typed
  <2> QED
    BY <1>1, <2>1 DEF Sound, DenialIsDark
<1>2. Sound /\ [Next]_vars =>
         [lease # NoEnable /\ lease' = NoEnable => lit # lease]_vars
  BY <1>1
<1> QED
  BY <1>2, SoundAlways, PTL DEF DarkWhenReleased, Spec

\* The newest Enable the manager accepted is never given up for an older one.
LEMMA HighestGrows ==
    ASSUME RegistryTyped, ManagerTyped, CallsTyped, PlansTyped, Ranked,
           [Next]_vars
    PROVE  highest' >= highest
<1> USE KeepaliveConstants DEF RegistryTyped, ManagerTyped, CallsTyped,
       Ranked, Enable, NoEnable, registryVars, managerVars, faultVars,
       slotVars, planVars, callVars
<1>1. CASE Lapse \/ Commit \/ AdmissionFails \/ Relinquish \/ Stays
          \/ UNCHANGED vars
  BY <1>1 DEF Lapse, Commit, AdmissionFails, Relinquish, Stays, vars
<1>2. ASSUME NEW e \in Enable, Replay(e) PROVE highest' >= highest
  BY <1>2 DEF Replay
<1>3. ASSUME NEW f \in Flow, Claim(f) \/ Cancel(f) \/ Join(f) \/ Deny(f)
          \/ Complete(f) \/ Prepare(f) \/ Prove(f) \/ Spawn(f)
          \/ SpawnFails(f) \/ Unspawned(f) \/ StartBoundary(f)
     PROVE  highest' >= highest
  BY <1>3 DEF Claim, Cancel, Join, Deny, Complete, Prepare, Prove, Spawn,
         SpawnFails, Unspawned, StartBoundary, Captures
<1>4. ASSUME NEW r \in Enable, WorkerWakes(r) \/ WorkerCancelled(r)
          \/ WorkerRenews(r) \/ WorkerFails(r)
     PROVE  highest' >= highest
  BY <1>4 DEF WorkerWakes, WorkerCancelled, WorkerRenews, WorkerFails, Captures
<1>5. CASE Admit /\ AdmitIdle
  BY <1>5 DEF AdmitIdle, Admit, Admitting, Evidence, AwaitsRelease, Arms,
         Ends, GoTo, Forgets
<1>6. CASE Admit /\ AdmitSame
  BY <1>6 DEF AdmitSame, Admit, Admitting, Evidence, AwaitsRelease, Obtains,
         KeepsPlan, TakesCurrentPlan, TakesPlan, Retries, Faulting, Clean,
         Quiet, Ends, GoTo, Forgets
<1>7. CASE Admit /\ AdmitConflict
  BY <1>7 DEF AdmitConflict, Admit, Admitting, Evidence, StaleConflict,
         Defers, AwaitsRelease, Obtains, KeepsPlan, TakesCurrentPlan,
         TakesPlan, Faulting, Clean, Quiet, Ends, GoTo, Forgets
<1>8. CASE Cleanup
  BY <1>8 DEF Cleanup, TakesPlan, GoTo
<1>9. CASE SpendPermit
  BY <1>9 DEF SpendPermit, Released, Refused, Current, GoesIdle, KeepsPlan,
         Ends, GoTo, Forgets
<1>10. ASSUME NEW f \in Flow, Release(f) PROVE highest' >= highest
  BY <1>10 DEF Release, ReleaseOrPrepare, Released, Refused, Current,
         GoesIdle, Succeeds, Clean, Quiet, Owns, Ends, GoTo, Forgets
<1>11. ASSUME NEW f \in Flow, FinishProof(f) PROVE highest' >= highest
  BY <1>11, FlowsDiffer DEF FinishProof, Arms, TriesAgain, Clean, Ends, GoTo, Forgets
<1>12. CASE DecideRelinquish
  BY <1>12 DEF DecideRelinquish, Captures, Retries, Faulting,
         TakesCurrentPlan, TakesPlan, ReleaseOrPrepare, Released, Refused,
         Current, GoesIdle, Succeeds, Clean, Quiet, Ends, GoTo, Forgets
<1> QED
  BY <1>1, <1>2, <1>3, <1>4, <1>5, <1>6, <1>7, <1>8, <1>9, <1>10, <1>11,
         <1>12 DEF Next, LaneNext, FlowNext, WorkerNext, Admit

\* An armed run is that of the newest Enable, and the one kept for later is
\* newer than the run it waits for: no stale replay, proof or plan brings an
\* older authority back.
THEOREM NewestAlwaysWins == Spec => NewestWins
<1>1. ASSUME Sound, [Next]_vars
      PROVE  /\ highest' >= highest
             /\ slot' = "armed" => cur' = highest' /\ deferred' = NoEnable
             /\ deferred' # NoEnable => deferred' = highest' /\ deferred' > cur'
  <2>1. highest' >= highest
    BY <1>1, HighestGrows DEF Sound, Typed
  <2>2. Ranked' /\ ManagerTyped'
    BY <1>1, StepSound DEF Sound, Typed
  <2> QED
    BY <2>1, <2>2, KeepaliveConstants DEF Ranked, ManagerTyped, Enable, NoEnable
<1>2. Sound /\ [Next]_vars =>
         [/\ highest' >= highest
          /\ slot' = "armed" => cur' = highest' /\ deferred' = NoEnable
          /\ deferred' # NoEnable => deferred' = highest' /\ deferred' > cur']_vars
  BY <1>1
<1> QED
  BY <1>2, SoundAlways, PTL DEF NewestWins, Spec
=============================================================================
