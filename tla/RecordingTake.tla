--------------------------- MODULE RecordingTake ---------------------------
(***************************************************************************)
(* One machine's takes: the runtime that starts, stops and reaps the       *)
(* recording worker, the worker with its artifact (RecordingPublication),  *)
(* and the two receipts of every take, TakeStarted and TakeEnded, that the *)
(* next start of the program completes.                                    *)
(*                                                                         *)
(* The runtime lock is held during the bounded wait of a stop, and nowhere *)
(* across another step.  A normal exit is a crash with no worker running:  *)
(* nothing is written at exit.                                             *)
(***************************************************************************)
EXTENDS RecordingPublication

CONSTANTS
    None,       \* no worker, no take
    NoEnd,      \* no end receipt
    Damaged,    \* an end receipt that holds no outcome
    Retained    \* completed takes that pruning leaves (1000 in the program)

ASSUME TakeConstants ==
    /\ Retained \in Nat \ {0}
    /\ None \notin Take

VARIABLES
    boot,       \* startup: listing, ending, pruning, then up
    journal,    \* recording_receipts::JOURNAL: unset, ok, refused
    recovered,  \* takes this startup has ended as interrupted
    slot,       \* VideoRecordingRuntime.worker: the take it runs
    stopper,    \* a stop command: idle, or waiting for the worker
    step,       \* where the worker of each take is
    active,     \* takes whose status says active
    stopped,    \* takes whose stop flag is set
    filmed,     \* takes with a written frame
    reason,     \* the end reason of each take
    started,    \* takes with a TakeStarted file
    ended,      \* the TakeEnded file of each take
    told,       \* the first end receipt of each take, whatever became of it
    failed      \* takes that could not write a receipt, in this session

runtime == <<slot, stopper, active, stopped>>
startup == <<boot, journal, recovered>>
worker == <<step, filmed, reason>>
receipts == <<started, ended, told, failed>>
vars == <<pubVars, startup, runtime, worker, receipts>>

Reason == {"operator_stop", "ownership_revoked", "fault"}
EndReceipt == [reason : Reason \cup {"interrupted_unknown"},
               published : {"yes", "no", "unknown"}]

ASSUME ReceiptConstants == NoEnd # Damaged /\ {NoEnd, Damaged} \cap EndReceipt = {}

Step == {"none", "reserve", "receipt", "setup", "record", "encode", "publish",
         "end", "discard", "return", "returned", "panicEnd", "panicDiscard",
         "panicked", "dead"}

Finished == {"returned", "panicked"}
Alive(t) == step[t] \notin Finished \cup {"none", "dead"}

Init ==
    /\ PubInit
    /\ boot = "listing"
    /\ journal = "unset"
    /\ recovered = {}
    /\ slot = None
    /\ stopper = "idle"
    /\ step = [t \in Take |-> "none"]
    /\ active = {}
    /\ stopped = {}
    /\ filmed = {}
    /\ reason = [t \in Take |-> "fault"]
    /\ started = {}
    /\ ended = [t \in Take |-> NoEnd]
    /\ told = [t \in Take |-> NoEnd]
    /\ failed = {}

----------------------------------------------------------------------------
(* Receipts                                                                *)

\* write_new_receipt of an end receipt: durable, or an error that leaves
\* nothing or, when the removal fails too, a file without an outcome.
Durable(t, end) ==
    /\ ended[t] = NoEnd
    /\ ended' = [ended EXCEPT ![t] = end]
    /\ told' = [told EXCEPT ![t] = IF told[t] = NoEnd THEN end ELSE told[t]]
    /\ UNCHANGED <<started, failed>>

EndNotWritten(t) ==
    /\ \/ UNCHANGED <<ended, told>>
       \/ /\ ended[t] = NoEnd
          /\ ended' = [ended EXCEPT ![t] = Damaged]
          /\ told' = [told EXCEPT ![t] = IF told[t] = NoEnd THEN Damaged ELSE told[t]]
    /\ failed' = failed \cup {t}
    /\ UNCHANGED started

WriteEnd(t, end) == Durable(t, end) \/ EndNotWritten(t)

----------------------------------------------------------------------------
(* Startup: recover_interrupted_takes                                      *)

HasEnd == {t \in Take : ended[t] # NoEnd}
Orphans == started \ HasEnd

\* The journal cannot be read: recording stays refused until a restart.
Refused ==
    /\ boot' = "up"
    /\ journal' = "refused"

List ==
    /\ boot = "listing"
    /\ \/ boot' = "ending" /\ UNCHANGED journal
       \/ Refused
    /\ UNCHANGED <<pubVars, recovered, runtime, worker, receipts>>

\* Mutant: an orphan that cannot be ended is logged and startup goes on.
EndOrphanLogged(t) ==
    /\ boot = "ending"
    /\ t \in Orphans
    /\ WriteEnd(t, [reason |-> "interrupted_unknown", published |-> "unknown"])
    /\ \/ /\ ended'[t] # NoEnd
          /\ recovered' = recovered \cup {t}
          /\ UNCHANGED <<boot, journal>>
       \/ /\ ended'[t] = NoEnd
          /\ boot' = "up"
          /\ journal' = "ok"
          /\ UNCHANGED recovered
    /\ UNCHANGED <<pubVars, runtime, worker>>

\* A failed write is an error unless the file is there all the same.
EndOrphan(t) ==
    /\ boot = "ending"
    /\ t \in Orphans
    /\ WriteEnd(t, [reason |-> "interrupted_unknown", published |-> "unknown"])
    /\ \/ /\ ended'[t] # NoEnd
          /\ recovered' = recovered \cup {t}
          /\ UNCHANGED <<boot, journal>>
       \/ /\ ended'[t] = NoEnd
          /\ Refused
          /\ UNCHANGED recovered
    /\ UNCHANGED <<pubVars, runtime, worker>>

OrphansEnded ==
    /\ boot = "ending"
    /\ Orphans = {}
    /\ boot' = "pruning"
    /\ UNCHANGED <<pubVars, journal, recovered, runtime, worker, receipts>>

LoneEnds == HasEnd \ started
CompletedTakes == (started \cap HasEnd) \ recovered
Oldest(takes) == CHOOSE t \in takes : \A u \in takes : t <= u

RemoveEnd(t) ==
    /\ ended' = [ended EXCEPT ![t] = NoEnd]
    /\ UNCHANGED <<started, told, failed>>

RemoveStart(t) ==
    /\ started' = started \ {t}
    /\ UNCHANGED <<ended, told, failed>>

\* Mutant: the end of a completed take is removed before its start.
PruneEndFirst ==
    /\ boot = "pruning"
    /\ \/ \E t \in LoneEnds : RemoveEnd(t)
       \/ /\ LoneEnds = {}
          /\ Cardinality(CompletedTakes) > Retained
          /\ RemoveEnd(Oldest(CompletedTakes))
    /\ UNCHANGED <<pubVars, startup, runtime, worker>>

\* The start of a completed take goes first and leaves a lone end, which goes
\* before anything else does.
PruneStep ==
    /\ boot = "pruning"
    /\ \/ \E t \in LoneEnds : RemoveEnd(t)
       \/ /\ LoneEnds = {}
          /\ Cardinality(CompletedTakes) > Retained
          /\ RemoveStart(Oldest(CompletedTakes))
    /\ UNCHANGED <<pubVars, startup, runtime, worker>>

\* Pruning is done, or stopped at a file it cannot remove.
Opened ==
    /\ boot = "pruning"
    /\ boot' = "up"
    /\ journal' = "ok"
    /\ recovered' = {}
    /\ UNCHANGED <<pubVars, runtime, worker, receipts>>

----------------------------------------------------------------------------
(* The runtime: start, stop, reap                                          *)

RuntimeUnlocked == boot = "up" /\ stopper = "idle"

\* reap_completed_worker; a panicked worker has not cleared its status.
Reaped(t) ==
    /\ slot' = None
    /\ active' = active \ {t}
    /\ stopped' = stopped \ {t}

Begin(t) ==
    /\ RuntimeUnlocked
    /\ journal = "ok"
    /\ step[t] = "none"
    /\ \A u \in 1..(t - 1) : step[u] # "none"
    /\ \A u \in Take : u = slot => step[u] = "returned"
    /\ active = {}
    /\ slot' = t
    /\ active' = {t}
    /\ step' = [step EXCEPT ![t] = "reserve"]
    /\ Goto(t, "recover")
    /\ stopped' = {}
    /\ UNCHANGED <<files, was, owns, result, ghosts, startup, stopper, filmed,
                   reason, receipts>>
    /\ Same

\* A start that reaps the last worker and starts nothing: that worker panicked,
\* or the thread of the new one cannot be started.
ReapOnly ==
    /\ RuntimeUnlocked
    /\ journal = "ok"
    /\ slot # None
    /\ step[slot] \in Finished
    /\ Reaped(slot)
    /\ UNCHANGED <<pubVars, startup, stopper, worker, receipts>>

Stop ==
    /\ RuntimeUnlocked
    /\ slot # None
    /\ stopped' = stopped \cup {slot}
    /\ stopper' = "waiting"
    /\ UNCHANGED <<pubVars, startup, slot, active, worker, receipts>>

StopSeesEnd ==
    /\ stopper = "waiting"
    /\ step[slot] \in Finished
    /\ Reaped(slot)
    /\ stopper' = "idle"
    /\ UNCHANGED <<pubVars, startup, worker, receipts>>

\* Mutant: a stop that timed out lets the next take start.
StopTimesOutFreeing ==
    /\ stopper = "waiting"
    /\ ~(step[slot] \in Finished)
    /\ stopper' = "idle"
    /\ Reaped(slot)
    /\ UNCHANGED <<pubVars, startup, worker, receipts>>

\* The worker keeps its slot: the next start is refused until it is over.
StopTimesOut ==
    /\ stopper = "waiting"
    /\ ~(step[slot] \in Finished)
    /\ stopper' = "idle"
    /\ UNCHANGED <<pubVars, startup, slot, active, stopped, worker, receipts>>

----------------------------------------------------------------------------
(* The worker                                                              *)

Onto(t, next) == step' = [step EXCEPT ![t] = next]
RuntimeKept == UNCHANGED <<startup, runtime>>

\* RecordingArtifact::reserve, one step of it at a time.
Reserving(t) ==
    /\ step[t] = "reserve"
    /\ \/ Recover(t) \/ RecoverDropOld(t) \/ RecoverPutBack(t)
       \/ RecoverRetire(t) \/ Reserve(t)
    /\ Onto(t, CASE pc'[t] = "reserved" -> "receipt"
                 [] pc'[t] = "over" -> "discard"
                 [] OTHER -> "reserve")
    /\ RuntimeKept /\ UNCHANGED <<filmed, reason, receipts>>

\* No frame is taken before the start receipt is durable.
Receipt(t) ==
    /\ step[t] = "receipt"
    /\ \/ /\ started' = started \cup {t}
          /\ Onto(t, "setup")
          /\ UNCHANGED <<pubVars, failed>>
       \/ /\ \E left \in {{}, {t}} : started' = started \cup left
          /\ failed' = failed \cup {t}
          /\ Abandon(t)
          /\ Onto(t, "discard")
    /\ RuntimeKept /\ UNCHANGED <<filmed, reason, ended, told>>

\* The lease, the encoder and the renderer.
Setup(t) ==
    /\ step[t] = "setup"
    /\ \/ /\ Onto(t, "record")
          /\ UNCHANGED pubVars
       \/ /\ Abandon(t)
          /\ Onto(t, "end")
    /\ RuntimeKept /\ UNCHANGED <<filmed, reason, receipts>>

Frame(t) ==
    /\ step[t] = "record"
    /\ filmed' = filmed \cup {t}
    /\ RuntimeKept /\ UNCHANGED <<pubVars, step, reason, receipts>>

\* The stop flag, the fence or the epoch, an error of the renderer or the pipe.
LeaveLoop(t) ==
    /\ step[t] = "record"
    /\ \E why \in Reason :
          /\ why = "operator_stop" => t \in stopped
          /\ reason' = [reason EXCEPT ![t] = why]
    /\ Onto(t, "encode")
    /\ RuntimeKept /\ UNCHANGED <<pubVars, filmed, receipts>>

\* A take that was revoked or stopped is published when it holds a frame.
Encode(t) ==
    /\ step[t] = "encode"
    /\ \/ /\ t \in filmed
          /\ reason[t] # "fault"
          /\ Encoded(t)
          /\ Onto(t, "publish")
       \/ /\ Abandon(t)
          /\ Onto(t, "end")
    /\ RuntimeKept /\ UNCHANGED <<filmed, reason, receipts>>

Publishing(t) ==
    /\ step[t] = "publish"
    /\ Artifact(t)
    /\ Onto(t, IF pc'[t] = "settled" THEN "end" ELSE "publish")
    /\ RuntimeKept /\ UNCHANGED <<filmed, reason, receipts>>

\* Mutant: the outcome is what ended the take, not what publication returned.
EndByReason(t) ==
    /\ step[t] = "end"
    /\ WriteEnd(t, [reason |-> reason[t],
                    published |-> IF reason[t] = "fault" THEN "no" ELSE "yes"])
    /\ Onto(t, "discard")
    /\ RuntimeKept /\ UNCHANGED <<pubVars, filmed, reason>>

\* TakeJournal::end with what the publication returned.
End(t) ==
    /\ step[t] = "end"
    /\ WriteEnd(t, [reason |-> reason[t],
                    published |-> IF result[t] = "ok" THEN "yes" ELSE "no"])
    /\ Onto(t, "discard")
    /\ RuntimeKept /\ UNCHANGED <<pubVars, filmed, reason>>

\* The locals of a worker that is over, which nothing reads again.
Forgotten(t) ==
    /\ filmed' = filmed \ {t}
    /\ reason' = [reason EXCEPT ![t] = "fault"]

\* Discard the partial if it is still owned, then finish the status.
Finish(t) ==
    /\ step[t] = "discard"
    /\ \/ Discard(t)
       \/ pc[t] = "over" /\ UNCHANGED pubVars
    /\ active' = active \ {t}
    /\ Onto(t, "return")
    /\ Forgotten(t)
    /\ UNCHANGED <<startup, slot, stopper, stopped, receipts>>

Return(t) ==
    /\ step[t] = "return"
    /\ Onto(t, "returned")
    /\ RuntimeKept /\ UNCHANGED <<pubVars, filmed, reason, receipts>>

\* The worker unwinds: first the journal is dropped, then the artifact.
Panic(t) ==
    /\ step[t] \in {"setup", "record", "encode", "publish"}
    /\ Abandon(t)
    /\ Onto(t, "panicEnd")
    /\ RuntimeKept /\ UNCHANGED <<filmed, reason, receipts>>

PanicEnd(t) ==
    /\ step[t] = "panicEnd"
    /\ WriteEnd(t, [reason |-> "fault", published |-> "unknown"])
    /\ Onto(t, "panicDiscard")
    /\ RuntimeKept /\ UNCHANGED <<pubVars, filmed, reason>>

PanicDiscard(t) ==
    /\ step[t] = "panicDiscard"
    /\ Discard(t)
    /\ Onto(t, "panicked")
    /\ Forgotten(t)
    /\ RuntimeKept /\ UNCHANGED receipts

----------------------------------------------------------------------------
(* The machine                                                             *)

Others == OtherProgram /\ UNCHANGED <<startup, runtime, worker, receipts>>

\* A receipt that is being written when the process ends may be damaged.
Torn(t) ==
    \/ step[t] \in {"end", "panicEnd"}
    \/ boot = "ending" /\ t \in Orphans

Crash ==
    /\ PubCrash
    /\ \/ UNCHANGED <<started, ended, told>>
       \/ \E t \in Take :
             /\ step[t] = "receipt"
             /\ started' = started \cup {t}
             /\ UNCHANGED <<ended, told>>
       \/ \E t \in Take :
             /\ Torn(t)
             /\ ended' = [ended EXCEPT ![t] = Damaged]
             /\ told' = [told EXCEPT ![t] = IF told[t] = NoEnd THEN Damaged
                                            ELSE told[t]]
             /\ UNCHANGED started
    /\ boot' = "listing"
    /\ journal' = "unset"
    /\ recovered' = {}
    /\ slot' = None
    /\ stopper' = "idle"
    /\ active' = {}
    /\ stopped' = {}
    /\ filmed' = {}
    /\ step' = [t \in Take |-> IF step[t] = "none" THEN "none" ELSE "dead"]
    /\ reason' = [t \in Take |-> "fault"]
    /\ failed' = {}

Startup == List \/ (\E t \in Take : EndOrphan(t)) \/ OrphansEnded \/ PruneStep \/ Opened

Worker(t) ==
    \/ Reserving(t) \/ Receipt(t) \/ Setup(t) \/ Frame(t) \/ LeaveLoop(t)
    \/ Encode(t) \/ Publishing(t) \/ End(t) \/ Finish(t) \/ Return(t)
    \/ PanicEnd(t) \/ PanicDiscard(t)

Next ==
    \/ Startup
    \/ \E t \in Take : Begin(t) \/ Worker(t) \/ Panic(t)
    \/ ReapOnly \/ Stop \/ StopSeesEnd \/ StopTimesOut
    \/ Others \/ Crash

Spec == Init /\ [][Next]_vars

----------------------------------------------------------------------------
(* Properties                                                              *)

TakeTypeOK ==
    /\ PubTypeOK
    /\ boot \in {"listing", "ending", "pruning", "up"}
    /\ journal \in {"unset", "ok", "refused"}
    /\ recovered \subseteq Take
    /\ slot \in Take \cup {None}
    /\ stopper \in {"idle", "waiting"}
    /\ step \in [Take -> Step]
    /\ active \subseteq Take
    /\ stopped \subseteq Take
    /\ filmed \subseteq Take
    /\ reason \in [Take -> Reason]
    /\ started \subseteq Take
    /\ ended \in [Take -> EndReceipt \cup {NoEnd, Damaged}]
    /\ told \in [Take -> EndReceipt \cup {NoEnd, Damaged}]
    /\ failed \subseteq Take

\* Two workers are never alive at once: a stop that times out keeps the slot,
\* and a panicked worker frees it only when it is reaped.
OneAlive == \A t, u \in Take : Alive(t) /\ Alive(u) => t = u

\* The first end receipt of a take is its last word: while the take is in the
\* journal no later recovery ends it again, whatever startup a crash cut short.
EndIsFinal == \A t \in started : told[t] # NoEnd => ended[t] = told[t]

\* Once startup has opened the journal, every take in it that has no end is the
\* one that is running, or could not write its receipt in this session.
OrphansAreKnown ==
    journal = "ok" => \A t \in Orphans : Alive(t) \/ t \in failed

HasOutcome == {t \in Take : ended[t] \notin {NoEnd, Damaged}}

\* Interrupted is said only of takes whose process ended; yes is said only of
\* takes whose movie has been at the target.
OutcomeIsTrue ==
    \A t \in HasOutcome :
        /\ ended[t].reason = "interrupted_unknown" => step[t] = "dead"
        /\ ended[t].published = "yes" => t \in installed

\* An end receipt that says the take was not published means that the target
\* never held it.  The code does not keep this, see the README: the cleanup
\* after the installation may fail, and the receipt then says no.
PublishedIsHonest ==
    \A t \in HasOutcome : ended[t].published = "no" => t \notin installed

=============================================================================
