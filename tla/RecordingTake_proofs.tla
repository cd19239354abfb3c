------------------------ MODULE RecordingTake_proofs ------------------------
(***************************************************************************)
(* Proofs about RecordingTake for any number of takes, crashes and movies  *)
(* of other programs.  The runtime half needs that the worker which is     *)
(* alive holds the slot (SlotHeld) and which receipts a worker may have    *)
(* written at each of its steps (Receipted).  The publication half needs   *)
(* where the artifact of a worker can be (Matched), so that only one       *)
(* publication or recovery is under way, and what each of its steps knows  *)
(* of the files (Placed, IntentKept).                                      *)
(***************************************************************************)
EXTENDS RecordingTake, TLAPS

-----------------------------------------------------------------------------
(* The inductive invariant: the runtime and the receipts                   *)

\* TakeTypeOK without what it says of the artifacts.
RunTypeOK ==
    /\ boot \in {"listing", "ending", "pruning", "up"}
    /\ journal \in {"unset", "ok", "refused"}
    /\ recovered \subseteq Take
    /\ slot \in Take \cup {None}
    /\ stopper \in {"idle", "waiting"}
    /\ step \in [Take -> Step]
    /\ active \subseteq Take /\ stopped \subseteq Take /\ filmed \subseteq Take
    /\ reason \in [Take -> Reason]
    /\ started \subseteq Take /\ failed \subseteq Take
    /\ ended \in [Take -> EndReceipt \cup {NoEnd, Damaged}]
    /\ told \in [Take -> EndReceipt \cup {NoEnd, Damaged}]

\* The worker that is alive holds the slot; none is before startup is over.
SlotHeld ==
    /\ \A t \in Take : Alive(t) => slot = t
    /\ stopper = "waiting" => slot # None
    /\ boot # "up" => \A t \in Take : step[t] \in {"none", "dead"}
    /\ journal = "ok" => boot = "up"

Unended == {"none", "reserve", "receipt", "setup", "record", "encode", "publish",
            "end", "panicEnd"}

\* What a worker has written at each of its steps.
Receipted ==
    /\ \A t \in Take : step[t] \in {"none", "reserve", "receipt"} => t \notin started
    /\ \A t \in Take : step[t] \in Unended => ended[t] = NoEnd /\ told[t] = NoEnd
    /\ \A t \in Take :
          step[t] \in {"discard", "return", "returned", "panicDiscard", "panicked"} =>
              t \notin Orphans \/ t \in failed
    /\ boot = "pruning" => Orphans = {}

-----------------------------------------------------------------------------
(* The inductive invariant: the artifact and the files                     *)

Recovering == {"recover", "recDropOld", "recPutBack", "recRetire", "reserve"}
Replacing == {"writeIntent", "moveOld", "install", "putBack", "dropOld", "dropIntent"}
PublishPc == {"publish", "installNew", "openOld", "unixInstall", "unixUnlink"}
                 \cup Replacing

\* Where the artifact of a worker is at each of its steps.
Matched ==
    \A t \in Take :
        /\ step[t] = "none" <=> pc[t] = "idle"
        /\ step[t] = "reserve" => pc[t] \in Recovering
        /\ step[t] \in {"receipt", "setup", "record", "encode"} => pc[t] = "reserved"
        /\ step[t] = "publish" => pc[t] \in PublishPc
        /\ step[t] \in {"end", "panicEnd", "panicDiscard"} => pc[t] = "settled"
        /\ step[t] = "discard" => pc[t] \in {"settled", "over"}
        /\ step[t] \in {"return", "returned", "panicked"} => pc[t] = "over"
        /\ step[t] = "dead" => pc[t] = "dead"

\* Publications and recoveries that are under way.
Live(t) == pc[t] \notin {"idle", "over", "dead"}
Single == \A t, u \in Take : Live(t) /\ Live(u) => t = u

\* A publication that returned ok was one.
OkIsInstalled ==
    \A t \in Take :
        (pc[t] \in {"putBack", "dropOld", "dropIntent", "unixUnlink", "settled"} /\ result[t] = "ok")
            => t \in installed

\* A take that is at the target or in a backup was installed, and what another
\* program has not written yet is nowhere.
FilesKnown ==
    /\ target \in Take => target \in installed
    /\ target \notin unused
    /\ \A s \in Take : backup[s] \in Take => backup[s] \in installed
    /\ \A s \in Take : backup[s] \notin unused

BeforeMove == {"idle", "reserved", "publish", "installNew", "openOld", "writeIntent",
               "moveOld", "unixInstall"} \cup Recovering

\* What each step of a publication or a recovery knows of the files.
Placed ==
    \A t \in Take :
        /\ pc[t] \in BeforeMove => backup[t] = Absent
        /\ pc[t] \in BeforeMove \cup {"install", "putBack"} => t \notin installed
        /\ pc[t] \in {"publish", "installNew", "openOld", "writeIntent", "moveOld",
                      "install", "putBack", "unixInstall"} => staging[t] = "complete"
        /\ pc[t] \in {"reserve", "reserved", "publish", "installNew", "openOld"} =>
              intent = NoIntent
        /\ pc[t] \in {"recDropOld", "recPutBack", "recRetire"} \cup Replacing =>
              intent # NoIntent
        /\ pc[t] \in Replacing => intent.take = t
        /\ pc[t] = "openOld" => was[t] # Absent
        /\ pc[t] \in {"writeIntent", "moveOld"} => target = intent.previous
        /\ pc[t] \in {"moveOld", "install", "putBack"} => intent.synced = "yes"
        /\ pc[t] \in {"install", "putBack"} => backup[t] = intent.previous
        /\ pc[t] = "dropOld" => t \in installed
        /\ pc[t] = "dropIntent" => backup[t] = Absent
        /\ pc[t] = "recDropOld" => intent.take \in installed
        /\ pc[t] = "recRetire" => backup[intent.take] = Absent
        /\ pc[t] \in {"installNew", "openOld"} => platform = "windows"
        /\ pc[t] \in {"unixInstall", "unixUnlink"} => platform = "unix"

\* What an intent names: a take that no artifact removes, and a movie that is
\* not wanted any more once that take is installed.
IntentKept ==
    intent # NoIntent =>
        /\ platform = "windows"
        /\ intent.take \notin owns
        /\ intent.previous # intent.take
        /\ intent.previous \notin unused
        /\ intent.take \in installed => intent.previous \notin precious

Published ==
    /\ OkIsInstalled /\ FilesKnown /\ Placed /\ IntentKept
    /\ TakeSurvives /\ NothingLost

Sound ==
    /\ PubTypeOK /\ RunTypeOK /\ SlotHeld /\ Receipted /\ Matched /\ Published
    /\ EndIsFinal /\ OrphansAreKnown /\ OutcomeIsTrue

-----------------------------------------------------------------------------
(* The artifact: what a publication, a recovery, another program or a crash *)
(* does to the files                                                        *)

\* Begin lets the artifact of a take start with recovery.
AtRecovery(t) ==
    /\ pc[t] = "idle"
    /\ Goto(t, "recover")
    /\ UNCHANGED <<files, was, owns, result, ghosts>>
    /\ Same

\* What the machine does to the artifacts and the files.
PubNext ==
    \/ \E t \in Take : \/ Artifact(t) \/ Encoded(t) \/ Abandon(t) \/ Discard(t)
                       \/ AtRecovery(t)
    \/ OtherProgram \/ PubCrash

\* An intent names a take, a movie and whether it is whole.
LEMMA IntentFields ==
    ASSUME PubTypeOK, intent # NoIntent
    PROVE  intent.take \in Take /\ intent.previous \in Movie /\ intent \in Intent
  BY DEF PubTypeOK, Intent

\* Every step leaves movies at the paths, and an intent that names a take.
LEMMA PubTyped ==
    ASSUME PubTypeOK, Placed, [PubNext]_pubVars
    PROVE  PubTypeOK'
<1> USE DEF files, artifact, ghosts, Goto, PubTypeOK, ArtifactPc
<1>1. ASSUME NEW t \in Take, Recover(t) PROVE PubTypeOK'
  BY <1>1, PublicationConstants DEF Recover, Completed, RecoveryFails,
         ArtifactKept, Same
<1>2. ASSUME NEW t \in Take, RecoverDropOld(t) PROVE PubTypeOK'
  BY <1>2, PublicationConstants DEF RecoverDropOld, RecoveryFails, ArtifactKept,
         Same
<1>3. ASSUME NEW t \in Take, RecoverPutBack(t) PROVE PubTypeOK'
  <2>1. intent.take \in Take
    BY <1>3, IntentFields DEF RecoverPutBack, Placed
  <2>2. QED
    BY <1>3, <2>1 DEF RecoverPutBack, RecoveryFails, ArtifactKept, Same
<1>4. ASSUME NEW t \in Take, RecoverRetire(t) PROVE PubTypeOK'
  BY <1>4, PublicationConstants DEF RecoverRetire, RecoveryFails, ArtifactKept,
         Same
<1>5. ASSUME NEW t \in Take, Reserve(t) PROVE PubTypeOK'
  BY <1>5, PublicationConstants DEF Reserve, RecoveryFails, Same
<1>6. ASSUME NEW t \in Take, Encoded(t) PROVE PubTypeOK'
  BY <1>6, PublicationConstants DEF Encoded, ArtifactKept, Same
<1>7. ASSUME NEW t \in Take, Publish(t) PROVE PubTypeOK'
  BY <1>7, PublicationConstants DEF Publish, Fails, ArtifactKept, Same
<1>8. ASSUME NEW t \in Take, InstallNew(t) PROVE PubTypeOK'
  <2>1. ASSUME Installs(t, Absent) PROVE /\ target' \in Movie \cup {Absent}
                                      /\ precious' \subseteq Movie
                                      /\ installed' \subseteq Take
    BY <2>1 DEF Installs, Movie
  <2>2. QED
    BY <1>8, <2>1 DEF InstallNew, Fails, Same
<1>9. ASSUME NEW t \in Take, OpenOld(t) PROVE PubTypeOK'
  <2>1. target' = target /\ intent' \in Intent \cup {NoIntent}
    BY <1>9 DEF OpenOld, Fails, Placed, Intent
  <2>2. QED
    BY <1>9, <2>1 DEF OpenOld, Fails, Same
<1>10. ASSUME NEW t \in Take, WriteIntent(t) PROVE PubTypeOK'
  <2>1. intent' \in Intent \cup {NoIntent}
    BY <1>10, IntentFields DEF WriteIntent, Fails, Placed, Intent, Replacing
  <2>2. QED
    BY <1>10, <2>1 DEF WriteIntent, Fails, ArtifactKept, Same
<1>11. ASSUME NEW t \in Take, MoveOld(t) PROVE PubTypeOK'
  BY <1>11, PublicationConstants DEF MoveOld, Fails, ArtifactKept, Same
<1>12. ASSUME NEW t \in Take, Install(t) PROVE PubTypeOK'
  <2>1. ASSUME Installs(t, backup[t]) PROVE /\ target' \in Movie \cup {Absent}
                                      /\ precious' \subseteq Movie
                                      /\ installed' \subseteq Take
    BY <2>1 DEF Installs, Movie
  <2>2. QED
    BY <1>12, <2>1 DEF Install, ArtifactKept, Same
<1>13. ASSUME NEW t \in Take, PutBack(t) PROVE PubTypeOK'
  BY <1>13, PublicationConstants DEF PutBack, ArtifactKept, Same
<1>14. ASSUME NEW t \in Take, DropOld(t) PROVE PubTypeOK'
  BY <1>14, PublicationConstants DEF DropOld, Fails, ArtifactKept, Same
<1>15. ASSUME NEW t \in Take, DropIntent(t) PROVE PubTypeOK'
  BY <1>15, PublicationConstants DEF DropIntent, Fails, ArtifactKept, Same
<1>16. ASSUME NEW t \in Take, UnixInstall(t) PROVE PubTypeOK'
  <2>1. ASSUME Installs(t, was[t]) PROVE /\ target' \in Movie \cup {Absent}
                                      /\ precious' \subseteq Movie
                                      /\ installed' \subseteq Take
    BY <2>1 DEF Installs, Movie
  <2>2. ASSUME Installs(t, Absent) PROVE /\ target' \in Movie \cup {Absent}
                                         /\ precious' \subseteq Movie
                                         /\ installed' \subseteq Take
    BY <2>2 DEF Installs, Movie
  <2>3. QED
    BY <1>16, <2>1, <2>2 DEF UnixInstall, Fails, Same
<1>17. ASSUME NEW t \in Take, UnixUnlink(t) PROVE PubTypeOK'
  BY <1>17, PublicationConstants DEF UnixUnlink, Fails, ArtifactKept, Same
<1>18. ASSUME NEW t \in Take, Abandon(t) PROVE PubTypeOK'
  BY <1>18, PublicationConstants DEF Abandon, Fails, ArtifactKept, Same
<1>19. ASSUME NEW t \in Take, Discard(t) PROVE PubTypeOK'
  BY <1>19, PublicationConstants DEF Discard, Same
<1>20. ASSUME NEW t \in Take, AtRecovery(t) PROVE PubTypeOK'
  BY <1>20, PublicationConstants DEF AtRecovery, Same
<1>21. CASE OtherProgram
  <2>1. PICK other \in unused :
           /\ unused' = unused \ {other}
           /\ \E new \in {other, Absent} :
                 /\ target' = new
                 /\ precious' = (precious \ {target}) \cup ({new} \ {Absent})
    BY <1>21 DEF OtherProgram
  <2>2. /\ target' \in Movie \cup {Absent} /\ precious' \subseteq Movie
        /\ unused' \subseteq Foreign
    BY <2>1 DEF Movie
  <2>3. QED
    BY <1>21, <2>2 DEF OtherProgram
<1>22. CASE PubCrash
  BY <1>22, PublicationConstants DEF PubCrash
<1>23. CASE UNCHANGED pubVars
  BY <1>23 DEF pubVars
<1> QED
  BY <1>1, <1>2, <1>3, <1>4, <1>5, <1>6, <1>7, <1>8, <1>9, <1>10, <1>11,
         <1>12, <1>13, <1>14, <1>15, <1>16, <1>17, <1>18, <1>19, <1>20, <1>21,
         <1>22, <1>23 DEF PubNext, Artifact

\* OpenOld creates an intent for this take and the movie at the target, or
\* gives up.
LEMMA OpenOldEffect ==
    ASSUME NEW t \in Take, OpenOld(t), PubTypeOK, Placed
    PROVE  \/ /\ pc' = [pc EXCEPT ![t] = "writeIntent"]
              /\ target = was[t] /\ intent = NoIntent
              /\ intent' # NoIntent /\ intent'.take = t
              /\ intent'.previous = target /\ intent'.synced = "no"
              /\ owns' = owns \ {t}
           \/ /\ pc' = [pc EXCEPT ![t] = "settled"]
              /\ UNCHANGED <<intent, owns>>
<1>1. CASE pc' = [pc EXCEPT ![t] = "settled"] /\ UNCHANGED <<intent, owns>>
  BY <1>1
<1>2. CASE /\ pc' = [pc EXCEPT ![t] = "writeIntent"] /\ target = was[t]
           /\ intent' = [take |-> t, previous |-> was[t], synced |-> "no"]
           /\ intent = NoIntent /\ owns' = owns \ {t}
  <2>1. /\ intent'.take = t /\ intent'.previous = target
        /\ intent'.synced = "no"
    BY <1>2
  <2>2. intent' # NoIntent
    BY <2>1, PublicationConstants DEF NoIntent, Movie
  <2>3. QED
    BY <1>2, <2>1, <2>2
<1>3. QED
  BY <1>1, <1>2 DEF OpenOld, Fails, Goto

\* WriteIntent makes the intent whole, or may have, and gives up.
LEMMA WriteIntentEffect ==
    ASSUME NEW t \in Take, WriteIntent(t), PubTypeOK, Placed
    PROVE  /\ intent # NoIntent /\ intent.take = t
           /\ intent' # NoIntent /\ intent'.take = t
           /\ intent'.previous = intent.previous
           /\ \/ pc' = [pc EXCEPT ![t] = "settled"]
              \/ /\ pc' = [pc EXCEPT ![t] = "moveOld"]
                 /\ intent'.synced = "yes"
<1>1. /\ pc[t] = "writeIntent"
      /\ \/ pc' = [pc EXCEPT ![t] = "settled"]
         \/ /\ pc' = [pc EXCEPT ![t] = "moveOld"]
            /\ intent' = [intent EXCEPT !.synced = "yes"]
      /\ \E whole \in {"yes", "no"} : intent' = [intent EXCEPT !.synced = whole]
  BY DEF WriteIntent, Fails, Goto
<1>2. intent # NoIntent /\ intent \in Intent /\ intent.take = t
  BY <1>1, IntentFields DEF Placed, Replacing
<1>3. /\ intent'.take = t /\ intent'.previous = intent.previous
      /\ intent' = [intent EXCEPT !.synced = "yes"] => intent'.synced = "yes"
  BY <1>1, <1>2 DEF Intent
<1>4. intent' # NoIntent
  BY <1>3, PublicationConstants DEF NoIntent, Movie
<1>5. QED
  BY <1>1, <1>2, <1>3, <1>4

\* A publication returns ok only behind its installation.
LEMMA PubOk ==
    ASSUME PubTypeOK, Placed, OkIsInstalled, [PubNext]_pubVars
    PROVE  OkIsInstalled'
<1> USE DEF files, artifact, ghosts, Goto, PubTypeOK, OkIsInstalled, Placed,
       ArtifactPc
<1>1. ASSUME NEW t \in Take, Recover(t) PROVE OkIsInstalled'
  BY <1>1 DEF Recover, Completed, RecoveryFails, ArtifactKept, Same
<1>2. ASSUME NEW t \in Take, RecoverDropOld(t) PROVE OkIsInstalled'
  BY <1>2 DEF RecoverDropOld, RecoveryFails, ArtifactKept, Same
<1>3. ASSUME NEW t \in Take, RecoverPutBack(t) PROVE OkIsInstalled'
  BY <1>3 DEF RecoverPutBack, RecoveryFails, ArtifactKept, Same
<1>4. ASSUME NEW t \in Take, RecoverRetire(t) PROVE OkIsInstalled'
  BY <1>4 DEF RecoverRetire, RecoveryFails, ArtifactKept, Same
<1>5. ASSUME NEW t \in Take, Reserve(t) PROVE OkIsInstalled'
  BY <1>5 DEF Reserve, RecoveryFails, Same
<1>6. ASSUME NEW t \in Take, Encoded(t) PROVE OkIsInstalled'
  BY <1>6 DEF Encoded, ArtifactKept, Same
<1>7. ASSUME NEW t \in Take, Publish(t) PROVE OkIsInstalled'
  BY <1>7 DEF Publish, Fails, ArtifactKept, Same
<1>8. ASSUME NEW t \in Take, InstallNew(t) PROVE OkIsInstalled'
  BY <1>8 DEF InstallNew, Installs, Fails, Same
<1>9. ASSUME NEW t \in Take, OpenOld(t) PROVE OkIsInstalled'
  BY <1>9 DEF OpenOld, Fails, Same
<1>10. ASSUME NEW t \in Take, WriteIntent(t) PROVE OkIsInstalled'
  BY <1>10 DEF WriteIntent, Fails, ArtifactKept, Same
<1>11. ASSUME NEW t \in Take, MoveOld(t) PROVE OkIsInstalled'
  BY <1>11 DEF MoveOld, Fails, ArtifactKept, Same
<1>12. ASSUME NEW t \in Take, Install(t) PROVE OkIsInstalled'
  BY <1>12 DEF Install, Installs, ArtifactKept, Same
<1>13. ASSUME NEW t \in Take, PutBack(t) PROVE OkIsInstalled'
  BY <1>13 DEF PutBack, ArtifactKept, Same
<1>14. ASSUME NEW t \in Take, DropOld(t) PROVE OkIsInstalled'
  BY <1>14 DEF DropOld, Fails, ArtifactKept, Same
<1>15. ASSUME NEW t \in Take, DropIntent(t) PROVE OkIsInstalled'
  BY <1>15 DEF DropIntent, Fails, ArtifactKept, Same
<1>16. ASSUME NEW t \in Take, UnixInstall(t) PROVE OkIsInstalled'
  BY <1>16 DEF UnixInstall, Installs, Fails, Same
<1>17. ASSUME NEW t \in Take, UnixUnlink(t) PROVE OkIsInstalled'
  BY <1>17 DEF UnixUnlink, Fails, ArtifactKept, Same
<1>18. ASSUME NEW t \in Take, Abandon(t) PROVE OkIsInstalled'
  BY <1>18 DEF Abandon, Fails, ArtifactKept, Same
<1>19. ASSUME NEW t \in Take, Discard(t) PROVE OkIsInstalled'
  BY <1>19 DEF Discard, Same
<1>20. ASSUME NEW t \in Take, AtRecovery(t) PROVE OkIsInstalled'
  BY <1>20 DEF AtRecovery, Same
<1>21. CASE OtherProgram
  BY <1>21 DEF OtherProgram
<1>22. CASE PubCrash
  BY <1>22 DEF PubCrash
<1>23. CASE UNCHANGED pubVars
  BY <1>23 DEF pubVars
<1> QED
  BY <1>1, <1>2, <1>3, <1>4, <1>5, <1>6, <1>7, <1>8, <1>9, <1>10, <1>11,
         <1>12, <1>13, <1>14, <1>15, <1>16, <1>17, <1>18, <1>19, <1>20, <1>21,
         <1>22, <1>23 DEF PubNext, Artifact

\* A take comes to the target by its installation, another movie by its program.
LEMMA PubFiles ==
    ASSUME PubTypeOK, Placed, FilesKnown, [PubNext]_pubVars
    PROVE  FilesKnown'
<1> USE DEF files, artifact, ghosts, Goto, PubTypeOK, FilesKnown, Placed,
       Movie
<1>1. ASSUME NEW t \in Take, Recover(t) PROVE FilesKnown'
  BY <1>1, PublicationConstants DEF Recover, Completed, RecoveryFails,
         ArtifactKept, Same
<1>2. ASSUME NEW t \in Take, RecoverDropOld(t) PROVE FilesKnown'
  BY <1>2, PublicationConstants, IntentFields DEF RecoverDropOld, RecoveryFails,
         ArtifactKept, Same
<1>3. ASSUME NEW t \in Take, RecoverPutBack(t) PROVE FilesKnown'
  BY <1>3, PublicationConstants, IntentFields DEF RecoverPutBack, RecoveryFails,
         ArtifactKept, Same
<1>4. ASSUME NEW t \in Take, RecoverRetire(t) PROVE FilesKnown'
  BY <1>4, PublicationConstants DEF RecoverRetire, RecoveryFails, ArtifactKept,
         Same
<1>5. ASSUME NEW t \in Take, Reserve(t) PROVE FilesKnown'
  BY <1>5, PublicationConstants DEF Reserve, RecoveryFails, Same
<1>6. ASSUME NEW t \in Take, Encoded(t) PROVE FilesKnown'
  BY <1>6, PublicationConstants DEF Encoded, ArtifactKept, Same
<1>7. ASSUME NEW t \in Take, Publish(t) PROVE FilesKnown'
  BY <1>7, PublicationConstants DEF Publish, Fails, ArtifactKept, Same
<1>8. ASSUME NEW t \in Take, InstallNew(t) PROVE FilesKnown'
  BY <1>8, PublicationConstants DEF InstallNew, Installs, Fails, Same
<1>9. ASSUME NEW t \in Take, OpenOld(t) PROVE FilesKnown'
  BY <1>9, PublicationConstants DEF OpenOld, Fails, Same
<1>10. ASSUME NEW t \in Take, WriteIntent(t) PROVE FilesKnown'
  BY <1>10, PublicationConstants DEF WriteIntent, Fails, ArtifactKept, Same
<1>11. ASSUME NEW t \in Take, MoveOld(t) PROVE FilesKnown'
  BY <1>11, PublicationConstants DEF MoveOld, Fails, ArtifactKept, Same
<1>12. ASSUME NEW t \in Take, Install(t) PROVE FilesKnown'
  BY <1>12, PublicationConstants DEF Install, Installs, ArtifactKept, Same
<1>13. ASSUME NEW t \in Take, PutBack(t) PROVE FilesKnown'
  BY <1>13, PublicationConstants DEF PutBack, ArtifactKept, Same
<1>14. ASSUME NEW t \in Take, DropOld(t) PROVE FilesKnown'
  BY <1>14, PublicationConstants DEF DropOld, Fails, ArtifactKept, Same
<1>15. ASSUME NEW t \in Take, DropIntent(t) PROVE FilesKnown'
  BY <1>15, PublicationConstants DEF DropIntent, Fails, ArtifactKept, Same
<1>16. ASSUME NEW t \in Take, UnixInstall(t) PROVE FilesKnown'
  BY <1>16, PublicationConstants DEF UnixInstall, Installs, Fails, Same
<1>17. ASSUME NEW t \in Take, UnixUnlink(t) PROVE FilesKnown'
  BY <1>17, PublicationConstants DEF UnixUnlink, Fails, ArtifactKept, Same
<1>18. ASSUME NEW t \in Take, Abandon(t) PROVE FilesKnown'
  BY <1>18, PublicationConstants DEF Abandon, Fails, ArtifactKept, Same
<1>19. ASSUME NEW t \in Take, Discard(t) PROVE FilesKnown'
  BY <1>19, PublicationConstants DEF Discard, Same
<1>20. ASSUME NEW t \in Take, AtRecovery(t) PROVE FilesKnown'
  BY <1>20, PublicationConstants DEF AtRecovery, Same
<1>21. CASE OtherProgram
  BY <1>21, PublicationConstants DEF OtherProgram
<1>22. CASE PubCrash
  BY <1>22, PublicationConstants DEF PubCrash
<1>23. CASE UNCHANGED pubVars
  BY <1>23 DEF pubVars
<1> QED
  BY <1>1, <1>2, <1>3, <1>4, <1>5, <1>6, <1>7, <1>8, <1>9, <1>10, <1>11,
         <1>12, <1>13, <1>14, <1>15, <1>16, <1>17, <1>18, <1>19, <1>20, <1>21,
         <1>22, <1>23 DEF PubNext, Artifact

\* The step of the one artifact that is alive knows the files; a crash leaves none.
LEMMA PubPlaced ==
    ASSUME PubTypeOK, Single, Placed, FilesKnown, IntentKept, [PubNext]_pubVars
    PROVE  Placed'
<1> USE DEF files, artifact, ghosts, Goto, PubTypeOK, Placed, FilesKnown,
       Single, Live, ArtifactPc, Replacing, Recovering, BeforeMove
<1>1. ASSUME NEW t \in Take, Recover(t) PROVE Placed'
  <2>1. /\ UNCHANGED <<files, installed, was, platform>>
        /\ \A s \in Take : s # t => pc'[s] = pc[s]
    BY <1>1 DEF Recover, RecoveryFails, ArtifactKept, Same
  <2>2. /\ pc'[t] \in {"reserve", "over", "recDropOld", "recRetire", "recPutBack"}
        /\ pc[t] = "recover"
        /\ pc'[t] = "reserve" => platform = "unix" \/ intent = NoIntent
        /\ pc'[t] \in {"recDropOld", "recRetire", "recPutBack"} => intent # NoIntent
        /\ pc'[t] = "recDropOld" => target = intent.take
        /\ pc'[t] = "recRetire" => backup[intent.take] = Absent
    BY <1>1 DEF Recover, RecoveryFails, Completed
  <2>3. ASSUME pc'[t] = "reserve" PROVE intent = NoIntent
    BY <2>2, <2>3 DEF IntentKept
  <2>4. ASSUME pc'[t] = "recDropOld" PROVE intent.take \in installed
    BY <2>2, <2>4, IntentFields
  <2>5. QED
    BY <2>1, <2>2, <2>3, <2>4
<1>2. ASSUME NEW t \in Take, RecoverDropOld(t) PROVE Placed'
  BY <1>2, PublicationConstants, IntentFields DEF RecoverDropOld, RecoveryFails,
         ArtifactKept, Same
<1>3. ASSUME NEW t \in Take, RecoverPutBack(t) PROVE Placed'
  BY <1>3, PublicationConstants, IntentFields DEF RecoverPutBack, RecoveryFails,
         ArtifactKept, Same
<1>4. ASSUME NEW t \in Take, RecoverRetire(t) PROVE Placed'
  BY <1>4, PublicationConstants, IntentFields DEF RecoverRetire, RecoveryFails,
         ArtifactKept, Same
<1>5. ASSUME NEW t \in Take, Reserve(t) PROVE Placed'
  BY <1>5, PublicationConstants, IntentFields DEF Reserve, RecoveryFails, Same
<1>6. ASSUME NEW t \in Take, Encoded(t) PROVE Placed'
  BY <1>6, PublicationConstants, IntentFields DEF Encoded, ArtifactKept, Same
<1>7. ASSUME NEW t \in Take, Publish(t) PROVE Placed'
  BY <1>7, PublicationConstants, IntentFields DEF Publish, Fails, ArtifactKept,
         Same
<1>8. ASSUME NEW t \in Take, InstallNew(t) PROVE Placed'
  BY <1>8, PublicationConstants, IntentFields DEF InstallNew, Installs, Fails,
         Same
<1>9. ASSUME NEW t \in Take, OpenOld(t) PROVE Placed'
  BY <1>9, OpenOldEffect DEF OpenOld, Same
<1>10. ASSUME NEW t \in Take, WriteIntent(t) PROVE Placed'
  BY <1>10, WriteIntentEffect DEF WriteIntent, ArtifactKept, Same
<1>11. ASSUME NEW t \in Take, MoveOld(t) PROVE Placed'
  BY <1>11, PublicationConstants, IntentFields DEF MoveOld, Fails, ArtifactKept,
         Same
<1>12. ASSUME NEW t \in Take, Install(t) PROVE Placed'
  BY <1>12, PublicationConstants, IntentFields DEF Install, Installs,
         ArtifactKept, Same
<1>13. ASSUME NEW t \in Take, PutBack(t) PROVE Placed'
  BY <1>13, PublicationConstants, IntentFields DEF PutBack, ArtifactKept, Same
<1>14. ASSUME NEW t \in Take, DropOld(t) PROVE Placed'
  BY <1>14, PublicationConstants, IntentFields DEF DropOld, Fails, ArtifactKept,
         Same
<1>15. ASSUME NEW t \in Take, DropIntent(t) PROVE Placed'
  BY <1>15, PublicationConstants, IntentFields DEF DropIntent, Fails,
         ArtifactKept, Same
<1>16. ASSUME NEW t \in Take, UnixInstall(t) PROVE Placed'
  BY <1>16, PublicationConstants, IntentFields DEF UnixInstall, Installs, Fails,
         Same
<1>17. ASSUME NEW t \in Take, UnixUnlink(t) PROVE Placed'
  BY <1>17, PublicationConstants, IntentFields DEF UnixUnlink, Fails,
         ArtifactKept, Same
<1>18. ASSUME NEW t \in Take, Abandon(t) PROVE Placed'
  BY <1>18, PublicationConstants, IntentFields DEF Abandon, Fails, ArtifactKept,
         Same
<1>19. ASSUME NEW t \in Take, Discard(t) PROVE Placed'
  BY <1>19, PublicationConstants, IntentFields DEF Discard, Same
<1>20. ASSUME NEW t \in Take, AtRecovery(t) PROVE Placed'
  BY <1>20, PublicationConstants, IntentFields DEF AtRecovery, Same
<1>21. CASE OtherProgram
  <2>1. UNCHANGED <<platform, staging, backup, intent, pc, was, owns, result, installed>>
    BY <1>21 DEF OtherProgram
  <2>2. \A s \in Take : pc[s] \notin {"writeIntent", "moveOld"}
    BY <1>21 DEF OtherProgram, TargetLocked, IntentKept
  <2>3. QED
    BY <2>1, <2>2
<1>22. CASE PubCrash
  BY <1>22, PublicationConstants, IntentFields DEF PubCrash
<1>23. CASE UNCHANGED pubVars
  BY <1>23 DEF pubVars
<1> QED
  BY <1>1, <1>2, <1>3, <1>4, <1>5, <1>6, <1>7, <1>8, <1>9, <1>10, <1>11,
         <1>12, <1>13, <1>14, <1>15, <1>16, <1>17, <1>18, <1>19, <1>20, <1>21,
         <1>22, <1>23 DEF PubNext, Artifact

\* What an intent names, nobody writes or wants to keep later.
LEMMA PubIntent ==
    ASSUME PubTypeOK, Single, Placed, FilesKnown, IntentKept, [PubNext]_pubVars
    PROVE  IntentKept'
<1> USE DEF files, artifact, ghosts, Goto, PubTypeOK, Placed, IntentKept,
       FilesKnown, Single, Live, ArtifactPc, Replacing
<1>1. ASSUME NEW t \in Take, Recover(t) PROVE IntentKept'
  BY <1>1, PublicationConstants, IntentFields DEF Recover, Completed,
         RecoveryFails, ArtifactKept, Same
<1>2. ASSUME NEW t \in Take, RecoverDropOld(t) PROVE IntentKept'
  BY <1>2, PublicationConstants, IntentFields DEF RecoverDropOld, RecoveryFails,
         ArtifactKept, Same
<1>3. ASSUME NEW t \in Take, RecoverPutBack(t) PROVE IntentKept'
  BY <1>3, PublicationConstants, IntentFields DEF RecoverPutBack, RecoveryFails,
         ArtifactKept, Same
<1>4. ASSUME NEW t \in Take, RecoverRetire(t) PROVE IntentKept'
  BY <1>4, PublicationConstants, IntentFields DEF RecoverRetire, RecoveryFails,
         ArtifactKept, Same
<1>5. ASSUME NEW t \in Take, Reserve(t) PROVE IntentKept'
  BY <1>5, PublicationConstants, IntentFields DEF Reserve, RecoveryFails, Same
<1>6. ASSUME NEW t \in Take, Encoded(t) PROVE IntentKept'
  BY <1>6, PublicationConstants, IntentFields DEF Encoded, ArtifactKept, Same
<1>7. ASSUME NEW t \in Take, Publish(t) PROVE IntentKept'
  BY <1>7, PublicationConstants, IntentFields DEF Publish, Fails, ArtifactKept,
         Same
<1>8. ASSUME NEW t \in Take, InstallNew(t) PROVE IntentKept'
  BY <1>8, PublicationConstants, IntentFields DEF InstallNew, Installs, Fails,
         Same
<1>9. ASSUME NEW t \in Take, OpenOld(t) PROVE IntentKept'
  <2>1. pc[t] = "openOld" /\ UNCHANGED <<platform, unused, installed, precious>>
    BY <1>9 DEF OpenOld, Same
  <2>2. platform = "windows" /\ t \notin installed
    BY <2>1 DEF BeforeMove
  <2>3. target # t /\ target \notin unused
    BY <2>2
  <2>4. QED
    BY <2>1, <2>2, <2>3, <1>9, OpenOldEffect
<1>10. ASSUME NEW t \in Take, WriteIntent(t) PROVE IntentKept'
  BY <1>10, WriteIntentEffect DEF WriteIntent, ArtifactKept, Same
<1>11. ASSUME NEW t \in Take, MoveOld(t) PROVE IntentKept'
  BY <1>11, PublicationConstants, IntentFields DEF MoveOld, Fails, ArtifactKept,
         Same
<1>12. ASSUME NEW t \in Take, Install(t) PROVE IntentKept'
  BY <1>12, PublicationConstants, IntentFields DEF Install, Installs,
         ArtifactKept, Same
<1>13. ASSUME NEW t \in Take, PutBack(t) PROVE IntentKept'
  BY <1>13, PublicationConstants, IntentFields DEF PutBack, ArtifactKept, Same
<1>14. ASSUME NEW t \in Take, DropOld(t) PROVE IntentKept'
  BY <1>14, PublicationConstants, IntentFields DEF DropOld, Fails, ArtifactKept,
         Same
<1>15. ASSUME NEW t \in Take, DropIntent(t) PROVE IntentKept'
  BY <1>15, PublicationConstants, IntentFields DEF DropIntent, Fails,
         ArtifactKept, Same
<1>16. ASSUME NEW t \in Take, UnixInstall(t) PROVE IntentKept'
  BY <1>16, PublicationConstants, IntentFields DEF UnixInstall, Installs, Fails,
         Same
<1>17. ASSUME NEW t \in Take, UnixUnlink(t) PROVE IntentKept'
  BY <1>17, PublicationConstants, IntentFields DEF UnixUnlink, Fails,
         ArtifactKept, Same
<1>18. ASSUME NEW t \in Take, Abandon(t) PROVE IntentKept'
  BY <1>18, PublicationConstants, IntentFields DEF Abandon, Fails, ArtifactKept,
         Same
<1>19. ASSUME NEW t \in Take, Discard(t) PROVE IntentKept'
  BY <1>19, PublicationConstants, IntentFields DEF Discard, Same
<1>20. ASSUME NEW t \in Take, AtRecovery(t) PROVE IntentKept'
  BY <1>20, PublicationConstants, IntentFields DEF AtRecovery, Same
<1>21. CASE OtherProgram
  BY <1>21, PublicationConstants, IntentFields DEF OtherProgram
<1>22. CASE PubCrash
  BY <1>22, PublicationConstants, IntentFields DEF PubCrash
<1>23. CASE UNCHANGED pubVars
  BY <1>23 DEF pubVars
<1> QED
  BY <1>1, <1>2, <1>3, <1>4, <1>5, <1>6, <1>7, <1>8, <1>9, <1>10, <1>11,
         <1>12, <1>13, <1>14, <1>15, <1>16, <1>17, <1>18, <1>19, <1>20, <1>21,
         <1>22, <1>23 DEF PubNext, Artifact

\* The partial of a take with an intent is removed by its installation alone.
LEMMA PubTake ==
    ASSUME PubTypeOK, Single, Placed, IntentKept, TakeSurvives, [PubNext]_pubVars
    PROVE  TakeSurvives'
<1> USE DEF files, artifact, ghosts, Goto, PubTypeOK, Placed, TakeSurvives,
       IntentKept, Single, Live, ArtifactPc, Replacing
<1>1. ASSUME NEW t \in Take, Recover(t) PROVE TakeSurvives'
  BY <1>1, PublicationConstants, IntentFields DEF Recover, Completed,
         RecoveryFails, ArtifactKept, Same
<1>2. ASSUME NEW t \in Take, RecoverDropOld(t) PROVE TakeSurvives'
  BY <1>2, PublicationConstants, IntentFields DEF RecoverDropOld, RecoveryFails,
         ArtifactKept, Same
<1>3. ASSUME NEW t \in Take, RecoverPutBack(t) PROVE TakeSurvives'
  BY <1>3, PublicationConstants, IntentFields DEF RecoverPutBack, RecoveryFails,
         ArtifactKept, Same
<1>4. ASSUME NEW t \in Take, RecoverRetire(t) PROVE TakeSurvives'
  BY <1>4, PublicationConstants, IntentFields DEF RecoverRetire, RecoveryFails,
         ArtifactKept, Same
<1>5. ASSUME NEW t \in Take, Reserve(t) PROVE TakeSurvives'
  BY <1>5, PublicationConstants, IntentFields DEF Reserve, RecoveryFails, Same
<1>6. ASSUME NEW t \in Take, Encoded(t) PROVE TakeSurvives'
  BY <1>6, PublicationConstants, IntentFields DEF Encoded, ArtifactKept, Same
<1>7. ASSUME NEW t \in Take, Publish(t) PROVE TakeSurvives'
  BY <1>7, PublicationConstants, IntentFields DEF Publish, Fails, ArtifactKept,
         Same
<1>8. ASSUME NEW t \in Take, InstallNew(t) PROVE TakeSurvives'
  BY <1>8, PublicationConstants, IntentFields DEF InstallNew, Installs, Fails,
         Same
<1>9. ASSUME NEW t \in Take, OpenOld(t) PROVE TakeSurvives'
  BY <1>9, OpenOldEffect DEF OpenOld, Same
<1>10. ASSUME NEW t \in Take, WriteIntent(t) PROVE TakeSurvives'
  BY <1>10, WriteIntentEffect DEF WriteIntent, ArtifactKept, Same
<1>11. ASSUME NEW t \in Take, MoveOld(t) PROVE TakeSurvives'
  BY <1>11, PublicationConstants, IntentFields DEF MoveOld, Fails, ArtifactKept,
         Same
<1>12. ASSUME NEW t \in Take, Install(t) PROVE TakeSurvives'
  BY <1>12, PublicationConstants, IntentFields DEF Install, Installs,
         ArtifactKept, Same
<1>13. ASSUME NEW t \in Take, PutBack(t) PROVE TakeSurvives'
  BY <1>13, PublicationConstants, IntentFields DEF PutBack, ArtifactKept, Same
<1>14. ASSUME NEW t \in Take, DropOld(t) PROVE TakeSurvives'
  BY <1>14, PublicationConstants, IntentFields DEF DropOld, Fails, ArtifactKept,
         Same
<1>15. ASSUME NEW t \in Take, DropIntent(t) PROVE TakeSurvives'
  BY <1>15, PublicationConstants, IntentFields DEF DropIntent, Fails,
         ArtifactKept, Same
<1>16. ASSUME NEW t \in Take, UnixInstall(t) PROVE TakeSurvives'
  BY <1>16, PublicationConstants, IntentFields DEF UnixInstall, Installs, Fails,
         Same
<1>17. ASSUME NEW t \in Take, UnixUnlink(t) PROVE TakeSurvives'
  BY <1>17, PublicationConstants, IntentFields DEF UnixUnlink, Fails,
         ArtifactKept, Same
<1>18. ASSUME NEW t \in Take, Abandon(t) PROVE TakeSurvives'
  BY <1>18, PublicationConstants, IntentFields DEF Abandon, Fails, ArtifactKept,
         Same
<1>19. ASSUME NEW t \in Take, Discard(t) PROVE TakeSurvives'
  BY <1>19, PublicationConstants, IntentFields DEF Discard, Same
<1>20. ASSUME NEW t \in Take, AtRecovery(t) PROVE TakeSurvives'
  BY <1>20, PublicationConstants, IntentFields DEF AtRecovery, Same
<1>21. CASE OtherProgram
  BY <1>21, PublicationConstants, IntentFields DEF OtherProgram
<1>22. CASE PubCrash
  BY <1>22, PublicationConstants, IntentFields DEF PubCrash
<1>23. CASE UNCHANGED pubVars
  BY <1>23 DEF pubVars
<1> QED
  BY <1>1, <1>2, <1>3, <1>4, <1>5, <1>6, <1>7, <1>8, <1>9, <1>10, <1>11,
         <1>12, <1>13, <1>14, <1>15, <1>16, <1>17, <1>18, <1>19, <1>20, <1>21,
         <1>22, <1>23 DEF PubNext, Artifact

\* A wanted movie moves between the target and the backup of a whole intent.
LEMMA PubMovies ==
    ASSUME PubTypeOK, Single, Placed, IntentKept, NothingLost, [PubNext]_pubVars
    PROVE  NothingLost'
<1> USE DEF files, artifact, ghosts, Goto, PubTypeOK, Placed, NothingLost,
       Recoverable, IntentKept, Single, Live, ArtifactPc, Replacing
<1>1. ASSUME NEW t \in Take, Recover(t) PROVE NothingLost'
  BY <1>1, PublicationConstants, IntentFields DEF Recover, Completed,
         RecoveryFails, ArtifactKept, Same
<1>2. ASSUME NEW t \in Take, RecoverDropOld(t) PROVE NothingLost'
  BY <1>2, PublicationConstants, IntentFields DEF RecoverDropOld, RecoveryFails,
         ArtifactKept, Same
<1>3. ASSUME NEW t \in Take, RecoverPutBack(t) PROVE NothingLost'
  BY <1>3, PublicationConstants, IntentFields DEF RecoverPutBack, RecoveryFails,
         ArtifactKept, Same
<1>4. ASSUME NEW t \in Take, RecoverRetire(t) PROVE NothingLost'
  BY <1>4, PublicationConstants, IntentFields DEF RecoverRetire, RecoveryFails,
         ArtifactKept, Same
<1>5. ASSUME NEW t \in Take, Reserve(t) PROVE NothingLost'
  BY <1>5, PublicationConstants, IntentFields DEF Reserve, RecoveryFails, Same
<1>6. ASSUME NEW t \in Take, Encoded(t) PROVE NothingLost'
  BY <1>6, PublicationConstants, IntentFields DEF Encoded, ArtifactKept, Same
<1>7. ASSUME NEW t \in Take, Publish(t) PROVE NothingLost'
  BY <1>7, PublicationConstants, IntentFields DEF Publish, Fails, ArtifactKept,
         Same
<1>8. ASSUME NEW t \in Take, InstallNew(t) PROVE NothingLost'
  BY <1>8, PublicationConstants, IntentFields DEF InstallNew, Installs, Fails,
         Same
<1>9. ASSUME NEW t \in Take, OpenOld(t) PROVE NothingLost'
  BY <1>9, OpenOldEffect DEF OpenOld, Same
<1>10. ASSUME NEW t \in Take, WriteIntent(t) PROVE NothingLost'
  BY <1>10, WriteIntentEffect DEF WriteIntent, ArtifactKept, Same
<1>11. ASSUME NEW t \in Take, MoveOld(t) PROVE NothingLost'
  BY <1>11, PublicationConstants, IntentFields DEF MoveOld, Fails, ArtifactKept,
         Same
<1>12. ASSUME NEW t \in Take, Install(t) PROVE NothingLost'
  BY <1>12, PublicationConstants, IntentFields DEF Install, Installs,
         ArtifactKept, Same
<1>13. ASSUME NEW t \in Take, PutBack(t) PROVE NothingLost'
  BY <1>13, PublicationConstants, IntentFields DEF PutBack, ArtifactKept, Same
<1>14. ASSUME NEW t \in Take, DropOld(t) PROVE NothingLost'
  BY <1>14, PublicationConstants, IntentFields DEF DropOld, Fails, ArtifactKept,
         Same
<1>15. ASSUME NEW t \in Take, DropIntent(t) PROVE NothingLost'
  BY <1>15, PublicationConstants, IntentFields DEF DropIntent, Fails,
         ArtifactKept, Same
<1>16. ASSUME NEW t \in Take, UnixInstall(t) PROVE NothingLost'
  BY <1>16, PublicationConstants, IntentFields DEF UnixInstall, Installs, Fails,
         Same
<1>17. ASSUME NEW t \in Take, UnixUnlink(t) PROVE NothingLost'
  BY <1>17, PublicationConstants, IntentFields DEF UnixUnlink, Fails,
         ArtifactKept, Same
<1>18. ASSUME NEW t \in Take, Abandon(t) PROVE NothingLost'
  BY <1>18, PublicationConstants, IntentFields DEF Abandon, Fails, ArtifactKept,
         Same
<1>19. ASSUME NEW t \in Take, Discard(t) PROVE NothingLost'
  BY <1>19, PublicationConstants, IntentFields DEF Discard, Same
<1>20. ASSUME NEW t \in Take, AtRecovery(t) PROVE NothingLost'
  BY <1>20, PublicationConstants, IntentFields DEF AtRecovery, Same
<1>21. CASE OtherProgram
  BY <1>21, PublicationConstants, IntentFields DEF OtherProgram
<1>22. CASE PubCrash
  BY <1>22, PublicationConstants, IntentFields DEF PubCrash
<1>23. CASE UNCHANGED pubVars
  BY <1>23 DEF pubVars
<1> QED
  BY <1>1, <1>2, <1>3, <1>4, <1>5, <1>6, <1>7, <1>8, <1>9, <1>10, <1>11,
         <1>12, <1>13, <1>14, <1>15, <1>16, <1>17, <1>18, <1>19, <1>20, <1>21,
         <1>22, <1>23 DEF PubNext, Artifact

\* Typing of the runtime, the workers and the receipts.
LEMMA RunTyped ==
    ASSUME RunTypeOK, [Next]_vars
    PROVE  RunTypeOK'
<1> USE DEF runtime, startup, worker, receipts, RunTypeOK, Reason, Step,
       EndReceipt
<1>1. ASSUME NEW t \in Take, EndOrphan(t) PROVE RunTypeOK'
  BY <1>1 DEF EndOrphan, WriteEnd, Durable, EndNotWritten, Refused
<1>2. ASSUME NEW t \in Take, Begin(t) PROVE RunTypeOK'
  BY <1>2 DEF Begin, RuntimeUnlocked
<1>3. ASSUME NEW t \in Take, Reserving(t) PROVE RunTypeOK'
  BY <1>3 DEF Reserving, Onto, RuntimeKept
<1>4. ASSUME NEW t \in Take, Receipt(t) PROVE RunTypeOK'
  BY <1>4 DEF Receipt, Onto, RuntimeKept
<1>5. ASSUME NEW t \in Take, Setup(t) PROVE RunTypeOK'
  BY <1>5 DEF Setup, Onto, RuntimeKept
<1>6. ASSUME NEW t \in Take, Frame(t) PROVE RunTypeOK'
  BY <1>6 DEF Frame, RuntimeKept
<1>7. ASSUME NEW t \in Take, LeaveLoop(t) PROVE RunTypeOK'
  BY <1>7 DEF LeaveLoop, Onto, RuntimeKept
<1>8. ASSUME NEW t \in Take, Encode(t) PROVE RunTypeOK'
  BY <1>8 DEF Encode, Onto, RuntimeKept
<1>9. ASSUME NEW t \in Take, Publishing(t) PROVE RunTypeOK'
  BY <1>9 DEF Publishing, Onto, RuntimeKept
<1>10. ASSUME NEW t \in Take, End(t) PROVE RunTypeOK'
  BY <1>10 DEF End, WriteEnd, Durable, EndNotWritten, Onto, RuntimeKept
<1>11. ASSUME NEW t \in Take, Finish(t) PROVE RunTypeOK'
  BY <1>11 DEF Finish, Onto, Forgotten
<1>12. ASSUME NEW t \in Take, Return(t) PROVE RunTypeOK'
  BY <1>12 DEF Return, Onto, RuntimeKept
<1>13. ASSUME NEW t \in Take, PanicEnd(t) PROVE RunTypeOK'
  BY <1>13 DEF PanicEnd, WriteEnd, Durable, EndNotWritten, Onto, RuntimeKept
<1>14. ASSUME NEW t \in Take, PanicDiscard(t) PROVE RunTypeOK'
  BY <1>14 DEF PanicDiscard, Onto, Forgotten, RuntimeKept
<1>15. ASSUME NEW t \in Take, Panic(t) PROVE RunTypeOK'
  BY <1>15 DEF Panic, Onto, RuntimeKept
<1>16. CASE UNCHANGED vars
  BY <1>16 DEF vars
<1>17. CASE List
  BY <1>17 DEF List, Refused
<1>18. CASE OrphansEnded
  BY <1>18 DEF OrphansEnded
<1>19. CASE PruneStep
  BY <1>19 DEF PruneStep, RemoveEnd, RemoveStart
<1>20. CASE Opened
  BY <1>20 DEF Opened
<1>21. CASE ReapOnly
  BY <1>21 DEF ReapOnly, Reaped, RuntimeUnlocked
<1>22. CASE Stop
  BY <1>22 DEF Stop, RuntimeUnlocked
<1>23. CASE StopSeesEnd
  BY <1>23 DEF StopSeesEnd, Reaped
<1>24. CASE StopTimesOut
  BY <1>24 DEF StopTimesOut
<1>25. CASE Others
  BY <1>25 DEF Others
<1>26. CASE Crash
  BY <1>26 DEF Crash
<1> QED
  BY <1>1, <1>2, <1>3, <1>4, <1>5, <1>6, <1>7, <1>8, <1>9, <1>10, <1>11,
         <1>12, <1>13, <1>14, <1>15, <1>16, <1>17, <1>18, <1>19, <1>20, <1>21,
         <1>22, <1>23, <1>24, <1>25, <1>26 DEF Next, Startup, Worker

\* A worker is started into a free slot, and keeps it until it is over.
LEMMA SlotStep ==
    ASSUME RunTypeOK, SlotHeld, [Next]_vars
    PROVE  SlotHeld'
<1> USE DEF runtime, startup, worker, receipts, RunTypeOK, SlotHeld, Alive,
       Finished, Step
<1>1. ASSUME NEW t \in Take, Frame(t)
     PROVE  SlotHeld'
  BY <1>1 DEF Frame, RuntimeKept
<1>2. ASSUME NEW t \in Take, EndOrphan(t) PROVE SlotHeld'
  BY <1>2, TakeConstants DEF EndOrphan, WriteEnd, Durable, EndNotWritten,
         Refused
<1>3. ASSUME NEW t \in Take, Begin(t) PROVE SlotHeld'
  BY <1>3, TakeConstants DEF Begin, RuntimeUnlocked
<1>4. ASSUME NEW t \in Take, Reserving(t) PROVE SlotHeld'
  BY <1>4, TakeConstants DEF Reserving, Onto, RuntimeKept
<1>5. ASSUME NEW t \in Take, Receipt(t) PROVE SlotHeld'
  BY <1>5, TakeConstants DEF Receipt, Onto, RuntimeKept
<1>6. ASSUME NEW t \in Take, Setup(t) PROVE SlotHeld'
  BY <1>6, TakeConstants DEF Setup, Onto, RuntimeKept
<1>7. ASSUME NEW t \in Take, LeaveLoop(t) PROVE SlotHeld'
  BY <1>7, TakeConstants DEF LeaveLoop, Onto, RuntimeKept
<1>8. ASSUME NEW t \in Take, Encode(t) PROVE SlotHeld'
  BY <1>8, TakeConstants DEF Encode, Onto, RuntimeKept
<1>9. ASSUME NEW t \in Take, Publishing(t) PROVE SlotHeld'
  BY <1>9, TakeConstants DEF Publishing, Onto, RuntimeKept
<1>10. ASSUME NEW t \in Take, End(t) PROVE SlotHeld'
  BY <1>10, TakeConstants DEF End, WriteEnd, Durable, EndNotWritten, Onto,
         RuntimeKept
<1>11. ASSUME NEW t \in Take, Finish(t) PROVE SlotHeld'
  BY <1>11, TakeConstants DEF Finish, Onto, Forgotten
<1>12. ASSUME NEW t \in Take, Return(t) PROVE SlotHeld'
  BY <1>12, TakeConstants DEF Return, Onto, RuntimeKept
<1>13. ASSUME NEW t \in Take, PanicEnd(t) PROVE SlotHeld'
  BY <1>13, TakeConstants DEF PanicEnd, WriteEnd, Durable, EndNotWritten, Onto,
         RuntimeKept
<1>14. ASSUME NEW t \in Take, PanicDiscard(t) PROVE SlotHeld'
  BY <1>14, TakeConstants DEF PanicDiscard, Onto, Forgotten, RuntimeKept
<1>15. ASSUME NEW t \in Take, Panic(t) PROVE SlotHeld'
  BY <1>15, TakeConstants DEF Panic, Onto, RuntimeKept
<1>16. CASE UNCHANGED vars
  BY <1>16 DEF vars, RuntimeKept
<1>17. CASE List
  BY <1>17, TakeConstants DEF List, Refused
<1>18. CASE OrphansEnded
  BY <1>18, TakeConstants DEF OrphansEnded
<1>19. CASE PruneStep
  BY <1>19, TakeConstants DEF PruneStep, RemoveEnd, RemoveStart
<1>20. CASE Opened
  BY <1>20, TakeConstants DEF Opened
<1>21. CASE ReapOnly
  BY <1>21, TakeConstants DEF ReapOnly, Reaped, RuntimeUnlocked
<1>22. CASE Stop
  BY <1>22, TakeConstants DEF Stop, RuntimeUnlocked
<1>23. CASE StopSeesEnd
  BY <1>23, TakeConstants DEF StopSeesEnd, Reaped
<1>24. CASE StopTimesOut
  BY <1>24, TakeConstants DEF StopTimesOut
<1>25. CASE Others
  BY <1>25, TakeConstants DEF Others
<1>26. CASE Crash
  BY <1>26, TakeConstants DEF Crash
<1> QED
  BY <1>1, <1>2, <1>3, <1>4, <1>5, <1>6, <1>7, <1>8, <1>9, <1>10, <1>11,
         <1>12, <1>13, <1>14, <1>15, <1>16, <1>17, <1>18, <1>19, <1>20, <1>21,
         <1>22, <1>23, <1>24, <1>25, <1>26 DEF Next, Startup, Worker

\* The machine does to the artifacts what PubNext says.
LEMMA PubFollows ==
    ASSUME Matched, RunTypeOK, [Next]_vars
    PROVE  [PubNext]_pubVars
<1> USE DEF runtime, startup, worker, receipts, pubVars
<1>1. ASSUME NEW t \in Take, EndOrphan(t) \/ Frame(t) \/ LeaveLoop(t)
           \/ End(t) \/ Return(t) \/ PanicEnd(t)
     PROVE  [PubNext]_pubVars
  BY <1>1 DEF EndOrphan, Frame, LeaveLoop, End, Return, PanicEnd
<1>2. ASSUME NEW t \in Take, Begin(t) PROVE [PubNext]_pubVars
  BY <1>2 DEF Begin, RuntimeUnlocked, PubNext, AtRecovery, Matched
<1>3. ASSUME NEW t \in Take, Reserving(t) PROVE [PubNext]_pubVars
  BY <1>3 DEF Reserving, Onto, RuntimeKept, PubNext, Artifact
<1>4. ASSUME NEW t \in Take, Receipt(t) PROVE [PubNext]_pubVars
  BY <1>4 DEF Receipt, Onto, RuntimeKept, PubNext
<1>5. ASSUME NEW t \in Take, Setup(t) PROVE [PubNext]_pubVars
  BY <1>5 DEF Setup, Onto, RuntimeKept, PubNext
<1>6. ASSUME NEW t \in Take, Encode(t) PROVE [PubNext]_pubVars
  BY <1>6 DEF Encode, Onto, RuntimeKept, PubNext
<1>7. ASSUME NEW t \in Take, Publishing(t) PROVE [PubNext]_pubVars
  BY <1>7 DEF Publishing, Onto, RuntimeKept, PubNext
<1>8. ASSUME NEW t \in Take, Finish(t) PROVE [PubNext]_pubVars
  BY <1>8 DEF Finish, Onto, Forgotten, PubNext
<1>9. ASSUME NEW t \in Take, PanicDiscard(t) PROVE [PubNext]_pubVars
  BY <1>9 DEF PanicDiscard, Onto, Forgotten, RuntimeKept, PubNext
<1>10. ASSUME NEW t \in Take, Panic(t) PROVE [PubNext]_pubVars
  BY <1>10 DEF Panic, Onto, RuntimeKept, PubNext
<1>11. CASE List \/ OrphansEnded \/ PruneStep \/ Opened \/ ReapOnly
          \/ Stop \/ StopSeesEnd \/ StopTimesOut \/ UNCHANGED vars
  BY <1>11 DEF List, OrphansEnded, PruneStep, Opened, ReapOnly, Stop,
         StopSeesEnd, StopTimesOut, vars
<1>12. CASE Others
  BY <1>12 DEF Others, PubNext
<1>13. CASE Crash
  BY <1>13 DEF Crash, PubNext
<1> QED
  BY <1>1, <1>2, <1>3, <1>4, <1>5, <1>6, <1>7, <1>8, <1>9, <1>10, <1>11,
         <1>12, <1>13 DEF Next, Startup, Worker

\* A reservation moves its own artifact only, through recovery to its end.
LEMMA ReservingMoves ==
    ASSUME PubTypeOK, NEW t \in Take,
           \/ Recover(t) \/ RecoverDropOld(t) \/ RecoverPutBack(t)
           \/ RecoverRetire(t) \/ Reserve(t)
    PROVE  \E next \in Recovering \cup {"reserved", "over"} :
              /\ pc' = [pc EXCEPT ![t] = next]
              /\ pc[t] \in Recovering
  BY DEF Recover, RecoverDropOld, RecoverPutBack, RecoverRetire, Reserve,
         RecoveryFails, Goto, Recovering

\* A publication moves its own artifact only, until it is settled.
LEMMA PublishingMoves ==
    ASSUME PubTypeOK, NEW t \in Take, Artifact(t), pc[t] \in PublishPc
    PROVE  \E next \in PublishPc \cup {"settled"} : pc' = [pc EXCEPT ![t] = next]
<1> USE DEF PublishPc, Replacing, Goto, Fails
<1>1. CASE Publish(t)
  BY <1>1 DEF Publish
<1>2. CASE InstallNew(t) \/ OpenOld(t) \/ WriteIntent(t) \/ MoveOld(t)
  BY <1>2 DEF InstallNew, OpenOld, WriteIntent, MoveOld
<1>3. CASE Install(t) \/ PutBack(t) \/ DropOld(t) \/ DropIntent(t)
  BY <1>3 DEF Install, PutBack, DropOld, DropIntent
<1>4. CASE UnixInstall(t) \/ UnixUnlink(t)
  BY <1>4 DEF UnixInstall, UnixUnlink
<1>5. CASE \/ Recover(t) \/ RecoverDropOld(t) \/ RecoverPutBack(t)
           \/ RecoverRetire(t) \/ Reserve(t)
  BY <1>5, ReservingMoves DEF Recovering
<1>6. QED
  BY <1>1, <1>2, <1>3, <1>4, <1>5 DEF Artifact

\* A take that was installed is never not installed.
LEMMA InstalledGrows ==
    ASSUME [PubNext]_pubVars
    PROVE  installed \subseteq installed'
<1> USE DEF ghosts
<1>1. ASSUME NEW t \in Take, Artifact(t) PROVE installed \subseteq installed'
  BY <1>1 DEF Artifact, Recover, RecoverDropOld, RecoverPutBack,
     RecoverRetire, Reserve, Publish, InstallNew, OpenOld, WriteIntent,
     MoveOld, Install, PutBack, DropOld, DropIntent, UnixInstall, UnixUnlink,
     Installs
<1>2. ASSUME NEW t \in Take, \/ Encoded(t) \/ Abandon(t) \/ Discard(t)
                             \/ AtRecovery(t)
      PROVE  installed \subseteq installed'
  BY <1>2 DEF Encoded, Abandon, Discard, AtRecovery
<1>3. CASE OtherProgram \/ PubCrash \/ UNCHANGED pubVars
  BY <1>3 DEF OtherProgram, PubCrash, pubVars
<1>4. QED
  BY <1>1, <1>2, <1>3 DEF PubNext

\* WriteEnd leaves an end receipt of this take, or notes that it could not.
LEMMA WriteEndEffect ==
    ASSUME RunTypeOK, NEW t \in Take, NEW end \in EndReceipt, WriteEnd(t, end)
    PROVE  /\ ended'[t] # NoEnd \/ t \in failed'
           /\ \A u \in Take : u # t => ended'[u] = ended[u] /\ told'[u] = told[u]
           /\ started' = started /\ failed \subseteq failed'
  BY ReceiptConstants DEF WriteEnd, Durable, EndNotWritten, RunTypeOK

\* A worker and its artifact move together.
LEMMA MatchedStep ==
    ASSUME PubTypeOK, RunTypeOK, SlotHeld, Matched, [Next]_vars
    PROVE  Matched'
<1> USE DEF runtime, startup, worker, receipts, PubTypeOK, RunTypeOK, Matched,
       Step
<1>1. ASSUME NEW t \in Take, EndOrphan(t) \/ Frame(t)
     PROVE  Matched'
  BY <1>1 DEF EndOrphan, Frame, pubVars, artifact, RuntimeKept
<1>2. ASSUME NEW t \in Take, Begin(t) PROVE Matched'
  BY <1>2 DEF Begin, RuntimeUnlocked, Goto, Recovering
<1>3. ASSUME NEW t \in Take, Reserving(t) PROVE Matched'
  BY <1>3, ReservingMoves DEF Reserving, Onto, RuntimeKept, Recovering
<1>4. ASSUME NEW t \in Take, Receipt(t) PROVE Matched'
  BY <1>4 DEF Receipt, Onto, RuntimeKept, Abandon, Fails, Goto, pubVars,
         artifact
<1>5. ASSUME NEW t \in Take, Setup(t) PROVE Matched'
  BY <1>5 DEF Setup, Onto, RuntimeKept, Abandon, Fails, Goto, pubVars, artifact
<1>6. ASSUME NEW t \in Take, LeaveLoop(t) PROVE Matched'
  BY <1>6 DEF LeaveLoop, Onto, RuntimeKept, pubVars, artifact
<1>7. ASSUME NEW t \in Take, Encode(t) PROVE Matched'
  BY <1>7 DEF Encode, Onto, RuntimeKept, PublishPc, Encoded, Abandon, Fails,
         Goto, pubVars, artifact
<1>8. ASSUME NEW t \in Take, Publishing(t) PROVE Matched'
  BY <1>8, PublishingMoves DEF Publishing, Onto, RuntimeKept, PublishPc,
         Replacing
<1>9. ASSUME NEW t \in Take, End(t) PROVE Matched'
  BY <1>9 DEF End, WriteEnd, Durable, EndNotWritten, Onto, RuntimeKept, pubVars,
         artifact
<1>10. ASSUME NEW t \in Take, Finish(t) PROVE Matched'
  BY <1>10 DEF Finish, Onto, Forgotten, Discard, Goto, pubVars, artifact
<1>11. ASSUME NEW t \in Take, Return(t) PROVE Matched'
  BY <1>11 DEF Return, Onto, RuntimeKept, pubVars, artifact
<1>12. ASSUME NEW t \in Take, PanicEnd(t) PROVE Matched'
  BY <1>12 DEF PanicEnd, WriteEnd, Durable, EndNotWritten, Onto, RuntimeKept,
         pubVars, artifact
<1>13. ASSUME NEW t \in Take, PanicDiscard(t) PROVE Matched'
  BY <1>13 DEF PanicDiscard, Onto, Forgotten, RuntimeKept, Discard, Goto
<1>14. ASSUME NEW t \in Take, Panic(t) PROVE Matched'
  BY <1>14 DEF Panic, Onto, RuntimeKept, Abandon, Fails, Goto
<1>15. CASE List \/ OrphansEnded \/ PruneStep \/ Opened \/ ReapOnly
          \/ Stop \/ StopSeesEnd \/ StopTimesOut \/ UNCHANGED vars
  BY <1>15 DEF List, OrphansEnded, PruneStep, Opened, ReapOnly, Stop,
         StopSeesEnd, StopTimesOut, vars, pubVars, artifact, RuntimeKept
<1>16. CASE Others
  BY <1>16 DEF Others, OtherProgram, artifact
<1>17. CASE Crash
  BY <1>17 DEF Crash, PubCrash
<1> QED
  BY <1>1, <1>2, <1>3, <1>4, <1>5, <1>6, <1>7, <1>8, <1>9, <1>10, <1>11,
         <1>12, <1>13, <1>14, <1>15, <1>16, <1>17 DEF Next, Startup, Worker

\* One worker is alive, so one artifact is.
LEMMA OneArtifact ==
    ASSUME RunTypeOK, SlotHeld, Matched
    PROVE  Single
  BY DEF RunTypeOK, SlotHeld, Matched, Single, Live, Alive, Finished, Step

\* A worker starts its receipt once, and ends it once.
LEMMA ReceiptedStep ==
    ASSUME RunTypeOK, SlotHeld, Receipted, [Next]_vars
    PROVE  Receipted'
<1> USE DEF runtime, startup, worker, receipts, RunTypeOK, Receipted,
       SlotHeld, Step, Unended, HasEnd, Orphans, EndReceipt, Reason
<1>1. ASSUME NEW t \in Take, Frame(t)
     PROVE  Receipted'
  BY <1>1 DEF Frame, RuntimeKept, Refused
<1>2. ASSUME NEW t \in Take, EndOrphan(t) PROVE Receipted'
  BY <1>2, ReceiptConstants DEF EndOrphan, WriteEnd, Durable, EndNotWritten,
         Refused
<1>3. ASSUME NEW t \in Take, Begin(t) PROVE Receipted'
  BY <1>3, ReceiptConstants DEF Begin, RuntimeUnlocked
<1>4. ASSUME NEW t \in Take, Reserving(t) PROVE Receipted'
  BY <1>4, ReceiptConstants DEF Reserving, Onto, RuntimeKept
<1>5. ASSUME NEW t \in Take, Receipt(t) PROVE Receipted'
  BY <1>5, ReceiptConstants DEF Receipt, Onto, RuntimeKept
<1>6. ASSUME NEW t \in Take, Setup(t) PROVE Receipted'
  BY <1>6, ReceiptConstants DEF Setup, Onto, RuntimeKept
<1>7. ASSUME NEW t \in Take, LeaveLoop(t) PROVE Receipted'
  BY <1>7, ReceiptConstants DEF LeaveLoop, Onto, RuntimeKept
<1>8. ASSUME NEW t \in Take, Encode(t) PROVE Receipted'
  BY <1>8, ReceiptConstants DEF Encode, Onto, RuntimeKept
<1>9. ASSUME NEW t \in Take, Publishing(t) PROVE Receipted'
  BY <1>9, ReceiptConstants DEF Publishing, Onto, RuntimeKept
<1>10. ASSUME NEW t \in Take, End(t) PROVE Receipted'
  <2>1. WriteEnd(t, [reason |-> reason[t], published |-> IF result[t] = "ok" THEN "yes" ELSE "no"])
        /\ step' = [step EXCEPT ![t] = "discard"] /\ UNCHANGED boot
        /\ step[t] \in {"end", "panicEnd"}
    BY <1>10 DEF End, Onto, RuntimeKept
  <2>2. [reason |-> reason[t], published |-> IF result[t] = "ok" THEN "yes" ELSE "no"] \in EndReceipt
    OBVIOUS
  <2>3. /\ ended'[t] # NoEnd \/ t \in failed'
        /\ \A u \in Take : u # t => ended'[u] = ended[u] /\ told'[u] = told[u]
        /\ started' = started /\ failed \subseteq failed'
    BY <2>1, <2>2, WriteEndEffect
  <2>4. QED
    BY <2>1, <2>3
<1>11. ASSUME NEW t \in Take, Finish(t) PROVE Receipted'
  BY <1>11, ReceiptConstants DEF Finish, Onto, Forgotten
<1>12. ASSUME NEW t \in Take, Return(t) PROVE Receipted'
  BY <1>12, ReceiptConstants DEF Return, Onto, RuntimeKept
<1>13. ASSUME NEW t \in Take, PanicEnd(t) PROVE Receipted'
  <2>1. WriteEnd(t, [reason |-> "fault", published |-> "unknown"])
        /\ step' = [step EXCEPT ![t] = "panicDiscard"] /\ UNCHANGED boot
        /\ step[t] \in {"end", "panicEnd"}
    BY <1>13 DEF PanicEnd, Onto, RuntimeKept
  <2>2. [reason |-> "fault", published |-> "unknown"] \in EndReceipt
    OBVIOUS
  <2>3. /\ ended'[t] # NoEnd \/ t \in failed'
        /\ \A u \in Take : u # t => ended'[u] = ended[u] /\ told'[u] = told[u]
        /\ started' = started /\ failed \subseteq failed'
    BY <2>1, <2>2, WriteEndEffect
  <2>4. QED
    BY <2>1, <2>3
<1>14. ASSUME NEW t \in Take, PanicDiscard(t) PROVE Receipted'
  BY <1>14, ReceiptConstants DEF PanicDiscard, Onto, Forgotten, RuntimeKept
<1>15. ASSUME NEW t \in Take, Panic(t) PROVE Receipted'
  BY <1>15, ReceiptConstants DEF Panic, Onto, RuntimeKept
<1>16. CASE List \/ Opened \/ ReapOnly \/ Stop \/ StopSeesEnd
          \/ StopTimesOut \/ UNCHANGED vars
  BY <1>16 DEF List, Opened, ReapOnly, Stop, StopSeesEnd, StopTimesOut,
         vars, RuntimeKept, Refused
<1>17. CASE OrphansEnded
  BY <1>17, ReceiptConstants DEF OrphansEnded
<1>18. CASE PruneStep
  BY <1>18, ReceiptConstants DEF PruneStep, RemoveEnd, RemoveStart, LoneEnds
<1>19. CASE Others
  BY <1>19, ReceiptConstants DEF Others
<1>20. CASE Crash
  BY <1>20, ReceiptConstants DEF Crash, Torn
<1> QED
  BY <1>1, <1>2, <1>3, <1>4, <1>5, <1>6, <1>7, <1>8, <1>9, <1>10, <1>11,
         <1>12, <1>13, <1>14, <1>15, <1>16, <1>17, <1>18, <1>19,
         <1>20 DEF Next, Startup, Worker

\* The first end receipt of a take in the journal stays.
LEMMA FinalStep ==
    ASSUME RunTypeOK, SlotHeld, Receipted, EndIsFinal, [Next]_vars
    PROVE  EndIsFinal'
<1> USE DEF runtime, startup, worker, receipts, RunTypeOK, EndIsFinal,
       SlotHeld, Receipted, Step, Unended, HasEnd, Orphans
<1>1. ASSUME NEW t \in Take, Begin(t) \/ Reserving(t) \/ Setup(t) \/ Frame(t)
           \/ LeaveLoop(t) \/ Encode(t) \/ Publishing(t) \/ Finish(t)
           \/ Return(t) \/ PanicDiscard(t) \/ Panic(t)
     PROVE  EndIsFinal'
  BY <1>1 DEF Begin, Reserving, Setup, Frame, LeaveLoop, Encode, Publishing,
         Finish, Return, PanicDiscard, Panic, RuntimeKept, Refused
<1>2. ASSUME NEW t \in Take, EndOrphan(t) PROVE EndIsFinal'
  BY <1>2, ReceiptConstants DEF EndOrphan, WriteEnd, Durable, EndNotWritten,
         Refused
<1>3. ASSUME NEW t \in Take, Receipt(t) PROVE EndIsFinal'
  BY <1>3, ReceiptConstants DEF Receipt, Onto, RuntimeKept
<1>4. ASSUME NEW t \in Take, End(t) PROVE EndIsFinal'
  BY <1>4, ReceiptConstants DEF End, WriteEnd, Durable, EndNotWritten, Onto,
         RuntimeKept
<1>5. ASSUME NEW t \in Take, PanicEnd(t) PROVE EndIsFinal'
  BY <1>5, ReceiptConstants DEF PanicEnd, WriteEnd, Durable, EndNotWritten,
         Onto, RuntimeKept
<1>6. CASE List \/ OrphansEnded \/ Opened \/ ReapOnly \/ Stop
          \/ StopSeesEnd \/ StopTimesOut \/ Others \/ UNCHANGED vars
  BY <1>6 DEF List, OrphansEnded, Opened, ReapOnly, Stop, StopSeesEnd,
         StopTimesOut, Others, vars, RuntimeKept, Refused
<1>7. CASE PruneStep
  BY <1>7, ReceiptConstants DEF PruneStep, RemoveEnd, RemoveStart, LoneEnds
<1>8. CASE Crash
  BY <1>8, ReceiptConstants DEF Crash, Torn
<1> QED
  BY <1>1, <1>2, <1>3, <1>4, <1>5, <1>6, <1>7, <1>8 DEF Next, Startup, Worker

\* A take loses its worker only with its end written, or noted as failed.
LEMMA OrphansStep ==
    ASSUME RunTypeOK, SlotHeld, Receipted, OrphansAreKnown, [Next]_vars
    PROVE  OrphansAreKnown'
<1> USE DEF runtime, startup, worker, receipts, RunTypeOK, OrphansAreKnown,
       SlotHeld, Receipted, Alive, Finished, Step, Unended, HasEnd, Orphans
<1>1. ASSUME NEW t \in Take, Frame(t)
     PROVE  OrphansAreKnown'
  BY <1>1 DEF Frame, RuntimeKept, Refused
<1>2. ASSUME NEW t \in Take, EndOrphan(t) PROVE OrphansAreKnown'
  BY <1>2, ReceiptConstants DEF EndOrphan, WriteEnd, Durable, EndNotWritten,
         Refused
<1>3. ASSUME NEW t \in Take, Begin(t) PROVE OrphansAreKnown'
  BY <1>3, ReceiptConstants DEF Begin, RuntimeUnlocked
<1>4. ASSUME NEW t \in Take, Reserving(t) PROVE OrphansAreKnown'
  BY <1>4, ReceiptConstants DEF Reserving, Onto, RuntimeKept
<1>5. ASSUME NEW t \in Take, Receipt(t) PROVE OrphansAreKnown'
  BY <1>5, ReceiptConstants DEF Receipt, Onto, RuntimeKept
<1>6. ASSUME NEW t \in Take, Setup(t) PROVE OrphansAreKnown'
  BY <1>6, ReceiptConstants DEF Setup, Onto, RuntimeKept
<1>7. ASSUME NEW t \in Take, LeaveLoop(t) PROVE OrphansAreKnown'
  BY <1>7, ReceiptConstants DEF LeaveLoop, Onto, RuntimeKept
<1>8. ASSUME NEW t \in Take, Encode(t) PROVE OrphansAreKnown'
  BY <1>8, ReceiptConstants DEF Encode, Onto, RuntimeKept
<1>9. ASSUME NEW t \in Take, Publishing(t) PROVE OrphansAreKnown'
  BY <1>9, ReceiptConstants DEF Publishing, Onto, RuntimeKept
<1>10. ASSUME NEW t \in Take, End(t) PROVE OrphansAreKnown'
  BY <1>10, ReceiptConstants DEF End, WriteEnd, Durable, EndNotWritten, Onto,
         RuntimeKept
<1>11. ASSUME NEW t \in Take, Finish(t) PROVE OrphansAreKnown'
  BY <1>11, ReceiptConstants DEF Finish, Onto, Forgotten
<1>12. ASSUME NEW t \in Take, Return(t) PROVE OrphansAreKnown'
  BY <1>12, ReceiptConstants DEF Return, Onto, RuntimeKept
<1>13. ASSUME NEW t \in Take, PanicEnd(t) PROVE OrphansAreKnown'
  BY <1>13, ReceiptConstants DEF PanicEnd, WriteEnd, Durable, EndNotWritten,
         Onto, RuntimeKept
<1>14. ASSUME NEW t \in Take, PanicDiscard(t) PROVE OrphansAreKnown'
  BY <1>14, ReceiptConstants DEF PanicDiscard, Onto, Forgotten, RuntimeKept
<1>15. ASSUME NEW t \in Take, Panic(t) PROVE OrphansAreKnown'
  BY <1>15, ReceiptConstants DEF Panic, Onto, RuntimeKept
<1>16. CASE List \/ ReapOnly \/ Stop \/ StopSeesEnd \/ StopTimesOut
          \/ UNCHANGED vars
  BY <1>16 DEF List, ReapOnly, Stop, StopSeesEnd, StopTimesOut, vars,
         RuntimeKept, Refused
<1>17. CASE OrphansEnded
  BY <1>17, ReceiptConstants DEF OrphansEnded
<1>18. CASE PruneStep
  BY <1>18, ReceiptConstants DEF PruneStep, RemoveEnd, RemoveStart, LoneEnds
<1>19. CASE Opened
  BY <1>19, ReceiptConstants DEF Opened
<1>20. CASE Others
  BY <1>20, ReceiptConstants DEF Others
<1>21. CASE Crash
  BY <1>21, ReceiptConstants DEF Crash
<1> QED
  BY <1>1, <1>2, <1>3, <1>4, <1>5, <1>6, <1>7, <1>8, <1>9, <1>10, <1>11,
         <1>12, <1>13, <1>14, <1>15, <1>16, <1>17, <1>18, <1>19, <1>20,
         <1>21 DEF Next, Startup, Worker

\* An outcome is written by the worker, from its publication, or by recovery.
LEMMA OutcomeStep ==
    ASSUME PubTypeOK, RunTypeOK, SlotHeld, Matched, OkIsInstalled, Receipted, [PubNext]_pubVars, OutcomeIsTrue, [Next]_vars
    PROVE  OutcomeIsTrue'
<1> USE DEF runtime, startup, worker, receipts, RunTypeOK, OutcomeIsTrue,
       HasOutcome, SlotHeld, Receipted, Step, Unended, HasEnd, Orphans,
       EndReceipt, Reason
<1>1. ASSUME NEW t \in Take, EndOrphan(t) PROVE OutcomeIsTrue'
  BY <1>1, ReceiptConstants, InstalledGrows DEF EndOrphan, WriteEnd, Durable,
         EndNotWritten, Refused
<1>2. ASSUME NEW t \in Take, Begin(t) PROVE OutcomeIsTrue'
  BY <1>2, ReceiptConstants, InstalledGrows DEF Begin, RuntimeUnlocked
<1>3. ASSUME NEW t \in Take, Reserving(t) PROVE OutcomeIsTrue'
  BY <1>3, ReceiptConstants, InstalledGrows DEF Reserving, Onto, RuntimeKept
<1>4. ASSUME NEW t \in Take, Receipt(t) PROVE OutcomeIsTrue'
  BY <1>4, ReceiptConstants, InstalledGrows DEF Receipt, Onto, RuntimeKept
<1>5. ASSUME NEW t \in Take, Setup(t) PROVE OutcomeIsTrue'
  BY <1>5, ReceiptConstants, InstalledGrows DEF Setup, Onto, RuntimeKept
<1>6. ASSUME NEW t \in Take, Frame(t) PROVE OutcomeIsTrue'
  BY <1>6, ReceiptConstants, InstalledGrows DEF Frame, RuntimeKept
<1>7. ASSUME NEW t \in Take, LeaveLoop(t) PROVE OutcomeIsTrue'
  BY <1>7, ReceiptConstants, InstalledGrows DEF LeaveLoop, Onto, RuntimeKept
<1>8. ASSUME NEW t \in Take, Encode(t) PROVE OutcomeIsTrue'
  BY <1>8, ReceiptConstants, InstalledGrows DEF Encode, Onto, RuntimeKept
<1>9. ASSUME NEW t \in Take, Publishing(t) PROVE OutcomeIsTrue'
  BY <1>9, ReceiptConstants, InstalledGrows DEF Publishing, Onto, RuntimeKept
<1>10. ASSUME NEW t \in Take, End(t) PROVE OutcomeIsTrue'
  BY <1>10, ReceiptConstants, InstalledGrows DEF End, WriteEnd, Durable,
         EndNotWritten, Onto, RuntimeKept, Matched, OkIsInstalled, pubVars,
         ghosts
<1>11. ASSUME NEW t \in Take, Finish(t) PROVE OutcomeIsTrue'
  BY <1>11, ReceiptConstants, InstalledGrows DEF Finish, Onto, Forgotten
<1>12. ASSUME NEW t \in Take, Return(t) PROVE OutcomeIsTrue'
  BY <1>12, ReceiptConstants, InstalledGrows DEF Return, Onto, RuntimeKept
<1>13. ASSUME NEW t \in Take, PanicEnd(t) PROVE OutcomeIsTrue'
  BY <1>13, ReceiptConstants, InstalledGrows DEF PanicEnd, WriteEnd, Durable,
         EndNotWritten, Onto, RuntimeKept, pubVars, ghosts
<1>14. ASSUME NEW t \in Take, PanicDiscard(t) PROVE OutcomeIsTrue'
  BY <1>14, ReceiptConstants, InstalledGrows DEF PanicDiscard, Onto, Forgotten,
         RuntimeKept
<1>15. ASSUME NEW t \in Take, Panic(t) PROVE OutcomeIsTrue'
  BY <1>15, ReceiptConstants, InstalledGrows DEF Panic, Onto, RuntimeKept
<1>16. CASE UNCHANGED vars
  BY <1>16 DEF vars, pubVars, ghosts
<1>17. CASE List
  BY <1>17, ReceiptConstants, InstalledGrows DEF List, Refused
<1>18. CASE OrphansEnded
  BY <1>18, ReceiptConstants, InstalledGrows DEF OrphansEnded
<1>19. CASE PruneStep
  BY <1>19, ReceiptConstants, InstalledGrows DEF PruneStep, RemoveEnd,
         RemoveStart
<1>20. CASE Opened
  BY <1>20, ReceiptConstants, InstalledGrows DEF Opened
<1>21. CASE ReapOnly
  BY <1>21, ReceiptConstants, InstalledGrows DEF ReapOnly, Reaped,
         RuntimeUnlocked
<1>22. CASE Stop
  BY <1>22, ReceiptConstants, InstalledGrows DEF Stop, RuntimeUnlocked
<1>23. CASE StopSeesEnd
  BY <1>23, ReceiptConstants, InstalledGrows DEF StopSeesEnd, Reaped
<1>24. CASE StopTimesOut
  BY <1>24, ReceiptConstants, InstalledGrows DEF StopTimesOut
<1>25. CASE Others
  BY <1>25, ReceiptConstants, InstalledGrows DEF Others
<1>26. CASE Crash
  BY <1>26, ReceiptConstants, InstalledGrows DEF Crash, Torn
<1> QED
  BY <1>1, <1>2, <1>3, <1>4, <1>5, <1>6, <1>7, <1>8, <1>9, <1>10, <1>11,
         <1>12, <1>13, <1>14, <1>15, <1>16, <1>17, <1>18, <1>19, <1>20, <1>21,
         <1>22, <1>23, <1>24, <1>25, <1>26 DEF Next, Startup, Worker

-----------------------------------------------------------------------------
(* The theorems *)

\* Before the first take nothing is at the target, or the old movie.
LEMMA SoundInit == Init => Sound
<1> SUFFICES ASSUME Init PROVE Sound
  OBVIOUS
<1> USE DEF Init, PubInit
<1>1. PubTypeOK /\ RunTypeOK
  BY PublicationConstants, TakeConstants
     DEF PubTypeOK, RunTypeOK, Movie, ArtifactPc, Step, Reason
<1>2. SlotHeld /\ Receipted /\ Matched
  BY TakeConstants DEF SlotHeld, Receipted, Matched, Alive, Finished, Orphans
<1>3. OkIsInstalled /\ FilesKnown /\ Placed
  BY PublicationConstants
     DEF OkIsInstalled, FilesKnown, Placed, Movie, Replacing
<1>4. IntentKept /\ TakeSurvives /\ NothingLost
  BY DEF IntentKept, TakeSurvives, NothingLost
<1>5. EndIsFinal /\ OrphansAreKnown /\ OutcomeIsTrue
  BY DEF EndIsFinal, OrphansAreKnown, OutcomeIsTrue, HasOutcome
<1>6. QED
  BY <1>1, <1>2, <1>3, <1>4, <1>5 DEF Sound, Published

\* The invariant is inductive: the artifacts by what PubNext does to them, the
\* runtime and the receipts by the actions of the machine.
LEMMA SoundStep == Sound /\ [Next]_vars => Sound'
<1> SUFFICES ASSUME Sound, [Next]_vars PROVE Sound'
  OBVIOUS
<1> USE DEF Sound, Published
<1>1. Single /\ [PubNext]_pubVars
  BY OneArtifact, PubFollows
<1>2. PubTypeOK' /\ Placed' /\ FilesKnown' /\ OkIsInstalled'
  BY <1>1, PubTyped, PubPlaced, PubFiles, PubOk
<1>3. IntentKept' /\ TakeSurvives' /\ NothingLost'
  BY <1>1, PubIntent, PubTake, PubMovies
<1>4. RunTypeOK' /\ SlotHeld' /\ Receipted' /\ Matched'
  BY RunTyped, SlotStep, ReceiptedStep, MatchedStep
<1>5. EndIsFinal' /\ OrphansAreKnown' /\ OutcomeIsTrue'
  BY <1>1, FinalStep, OrphansStep, OutcomeStep
<1>6. QED
  BY <1>2, <1>3, <1>4, <1>5

\* It holds in every reachable state.
LEMMA SoundAlways == Spec => []Sound
  BY SoundInit, SoundStep, PTL DEF Spec

\* Every reachable state of the runtime, the workers, the receipts and the
\* files is well typed.
THEOREM TypeCorrect == Spec => []TakeTypeOK
<1>1. Sound => TakeTypeOK
  BY DEF Sound, RunTypeOK, TakeTypeOK
<1>2. QED
  BY <1>1, SoundAlways, PTL

\* On Windows a movie that nobody replaced or removed is at the target or in
\* the backup of a whole intent, after any step of publish, of recover after
\* an interruption, and after any number of crashes.
THEOREM NothingIsLost == Spec => []NothingLost
<1>1. Sound => NothingLost
  BY DEF Sound, Published
<1>2. QED
  BY <1>1, SoundAlways, PTL

\* The take an intent names is complete in its partial or was installed.
THEOREM TakeAlwaysSurvives == Spec => []TakeSurvives
<1>1. Sound => TakeSurvives
  BY DEF Sound, Published
<1>2. QED
  BY <1>1, SoundAlways, PTL

\* VideoRecordingRuntime never has two workers that are alive, although a stop
\* may time out and a worker may panic.
THEOREM OneAliveAlways == Spec => []OneAlive
<1>1. Sound => OneAlive
  BY DEF Sound, SlotHeld, OneAlive
<1>2. QED
  BY <1>1, SoundAlways, PTL

\* No startup ends again a take that has its end receipt in the journal.
THEOREM EndStaysFinal == Spec => []EndIsFinal
<1>1. Sound => EndIsFinal
  BY DEF Sound
<1>2. QED
  BY <1>1, SoundAlways, PTL

\* Once startup is over a take without an end is running or is known to have
\* failed: what the next startup ends as interrupted was interrupted.
THEOREM OrphansAlwaysKnown == Spec => []OrphansAreKnown
<1>1. Sound => OrphansAreKnown
  BY DEF Sound
<1>2. QED
  BY <1>1, SoundAlways, PTL

\* An end receipt says interrupted only of a take whose process died, and
\* published only of a take that was at the target.
THEOREM OutcomeStaysTrue == Spec => []OutcomeIsTrue
<1>1. Sound => OutcomeIsTrue
  BY DEF Sound
<1>2. QED
  BY <1>1, SoundAlways, PTL

=============================================================================
