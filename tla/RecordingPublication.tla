------------------------ MODULE RecordingPublication ------------------------
(***************************************************************************)
(* A take is encoded into a partial file beside its target and becomes the *)
(* target only when it is complete.  On Windows a target that exists is    *)
(* replaced by two renames; the target is absent between them, and a       *)
(* synced intent names the files that recovery needs.  The next take of    *)
(* the same target recovers before it reserves.                            *)
(*                                                                         *)
(* One target, the worst case for recovery.  A file is named by what it    *)
(* holds: a take, the movie that was there before, or what another program *)
(* wrote.  The code tells files apart by identity, length and modification *)
(* time, which a rename keeps.                                             *)
(***************************************************************************)
EXTENDS Naturals, FiniteSets

CONSTANTS
    MaxTakes,   \* bound: takes of this target, in the order they start
    Old,        \* the movie at the target before the first take
    Foreign,    \* what other programs may write to the target
    Absent,     \* no file
    Platforms,  \* platforms considered: windows, unix
    MaxCrashes  \* bound: ends of the process without unwinding

Take == 1..MaxTakes
Movie == Take \cup Foreign \cup {Old}

ASSUME PublicationConstants ==
    /\ MaxTakes \in Nat
    /\ MaxCrashes \in Nat
    /\ Platforms \subseteq {"windows", "unix"}
    /\ Old \notin Take \cup Foreign
    /\ Absent \notin Movie
    /\ Foreign \cap Take = {}

VARIABLES
    platform,   \* the platform this process was built for
    target,     \* the file at the target path
    staging,    \* the partial file of each take
    backup,     \* the file at the backup path of each take
    intent,     \* the recovery intent beside the target
    pc,         \* where the artifact of each take is
    was,        \* RecordingArtifact.target_state: the target as it was reserved
    owns,       \* takes whose artifact still removes its partial when dropped
    result,     \* what the take's publication returned: ok or error
    unused,     \* what other programs have not written yet
    crashes,    \* how often the process has crashed
    precious,   \* movies that nobody has asked to replace
    installed   \* takes whose movie has been at the target

files == <<target, staging, backup, intent>>
artifact == <<pc, was, owns, result>>
ghosts == <<precious, installed>>
pubVars == <<platform, files, artifact, unused, crashes, ghosts>>

NoIntent == [take |-> Absent, previous |-> Absent, synced |-> "no"]
Intent == [take : Take, previous : Movie, synced : {"yes", "no"}]

ArtifactPc == {"idle", "recover", "recDropOld", "recPutBack", "recRetire",
               "reserve", "reserved", "publish", "installNew", "openOld",
               "writeIntent", "moveOld", "install", "putBack", "dropOld",
               "dropIntent", "unixInstall", "unixUnlink", "settled", "over",
               "dead"}

PubInit ==
    /\ platform \in Platforms
    /\ target \in {Absent, Old}
    /\ staging = [t \in Take |-> "absent"]
    /\ backup = [t \in Take |-> Absent]
    /\ intent = NoIntent
    /\ pc = [t \in Take |-> "idle"]
    /\ was = [t \in Take |-> Absent]
    /\ owns = {}
    /\ result = [t \in Take |-> "ok"]
    /\ unused = Foreign
    /\ crashes = 0
    /\ precious = {target} \ {Absent}
    /\ installed = {}

----------------------------------------------------------------------------
Goto(t, label) == pc' = [pc EXCEPT ![t] = label]

\* An error ends the attempt; the artifact is dropped after it.
Fails(t) ==
    /\ Goto(t, "settled")
    /\ result' = [result EXCEPT ![t] = "error"]

ArtifactKept == UNCHANGED <<was, owns>>
Same == UNCHANGED <<platform, unused, crashes>>

----------------------------------------------------------------------------
(* Recovery of an interrupted publication, before a reservation            *)

\* Nothing was reserved: there is no artifact to drop.
RecoveryFails(t) ==
    /\ Goto(t, "over")
    /\ result' = [result EXCEPT ![t] = "ok"]

Completed == target = intent.take

\* Reading the intent and the files it names; every handle may be refused.
Recover(t) ==
    /\ pc[t] = "recover"
    /\ \/ /\ platform = "unix" \/ intent = NoIntent
          /\ Goto(t, "reserve")
          /\ UNCHANGED result
       \/ /\ platform = "windows"
          /\ intent # NoIntent
          /\ RecoveryFails(t)
       \/ /\ platform = "windows"
          /\ intent # NoIntent
          /\ intent.synced = "yes"
          /\ \/ /\ Completed
                /\ backup[intent.take] = intent.previous
                /\ Goto(t, "recDropOld")
             \/ /\ Completed
                /\ backup[intent.take] = Absent
                /\ Goto(t, "recRetire")
             \/ /\ ~Completed
                /\ staging[intent.take] = "complete"
                /\ target = intent.previous
                /\ backup[intent.take] = Absent
                /\ Goto(t, "recRetire")
             \/ /\ ~Completed
                /\ staging[intent.take] = "complete"
                /\ target = Absent
                /\ backup[intent.take] = intent.previous
                /\ Goto(t, "recPutBack")
          \* Recovery that did not find a completed publication ends in an
          \* error even when it restores the previous movie.
          /\ result' = [result EXCEPT ![t] = IF Completed THEN "ok" ELSE "error"]
    /\ ArtifactKept /\ Same /\ UNCHANGED <<files, ghosts>>

RecoverDropOld(t) ==
    /\ pc[t] = "recDropOld"
    /\ \/ /\ backup' = [backup EXCEPT ![intent.take] = Absent]
          /\ Goto(t, "recRetire")
          /\ UNCHANGED result
       \/ /\ RecoveryFails(t)
          /\ UNCHANGED backup
    /\ ArtifactKept /\ Same /\ UNCHANGED <<target, staging, intent, ghosts>>

RecoverPutBack(t) ==
    /\ pc[t] = "recPutBack"
    /\ \/ /\ target = Absent
          /\ target' = backup[intent.take]
          /\ backup' = [backup EXCEPT ![intent.take] = Absent]
          /\ Goto(t, "recRetire")
          /\ UNCHANGED result
       \/ /\ RecoveryFails(t)
          /\ UNCHANGED <<target, backup>>
    /\ ArtifactKept /\ Same /\ UNCHANGED <<staging, intent, ghosts>>

\* The intent is retired last; a recovery that restored reports it and stops.
RecoverRetire(t) ==
    /\ pc[t] = "recRetire"
    /\ \/ /\ intent' = NoIntent
          /\ result[t] = "ok"
          /\ Goto(t, "reserve")
          /\ UNCHANGED result
       \/ /\ intent' = NoIntent
          /\ result[t] = "error"
          /\ RecoveryFails(t)
       \/ /\ RecoveryFails(t)
          /\ UNCHANGED intent
    /\ ArtifactKept /\ Same /\ UNCHANGED <<target, staging, backup, ghosts>>

\* RecordingArtifact::reserve_named after recovery: the target as it is now,
\* and a new partial that nobody else may rename or delete.  A partial that was
\* created and cannot be identified stays behind.
Reserve(t) ==
    /\ pc[t] = "reserve"
    /\ \/ /\ was' = [was EXCEPT ![t] = target]
          /\ staging' = [staging EXCEPT ![t] = "partial"]
          /\ owns' = owns \cup {t}
          /\ Goto(t, "reserved")
          /\ UNCHANGED result
       \/ /\ RecoveryFails(t)
          /\ \E left \in {staging[t], "partial"} :
                staging' = [staging EXCEPT ![t] = left]
          /\ UNCHANGED <<was, owns>>
    /\ Same /\ UNCHANGED <<target, backup, intent, ghosts>>

----------------------------------------------------------------------------
(* The encoder works on the partial                                        *)

\* The encoder has finished the movie; RecordingArtifact::publish follows.
Encoded(t) ==
    /\ pc[t] = "reserved"
    /\ staging' = [staging EXCEPT ![t] = "complete"]
    /\ Goto(t, "publish")
    /\ UNCHANGED <<target, backup, intent, result, ghosts>>
    /\ ArtifactKept /\ Same

\* The take ends without publication: its error, or its panic.
Abandon(t) ==
    /\ pc[t] \in ArtifactPc \ {"idle", "recover", "recDropOld", "recPutBack",
                               "recRetire", "reserve", "settled", "over", "dead"}
    /\ Fails(t)
    /\ ArtifactKept /\ Same /\ UNCHANGED <<files, ghosts>>

----------------------------------------------------------------------------
(* Publication                                                             *)

\* The partial is ours and the target is still what was reserved; the sync
\* or a handle may fail.
Publish(t) ==
    /\ pc[t] = "publish"
    /\ \/ /\ target = was[t]
          /\ Goto(t, CASE platform = "unix" -> "unixInstall"
                       [] platform = "windows" /\ was[t] = Absent -> "installNew"
                       [] OTHER -> "openOld")
          /\ UNCHANGED result
       \/ Fails(t)
    /\ ArtifactKept /\ Same /\ UNCHANGED <<files, ghosts>>

\* What every completed installation does to the set of movies to keep.
Installs(t, replaced) ==
    /\ target' = t
    /\ precious' = (precious \ {replaced}) \cup {t}
    /\ installed' = installed \cup {t}

\* A rename that never replaces: a target created meanwhile stays.
InstallNew(t) ==
    /\ pc[t] = "installNew"
    /\ \/ /\ target = Absent
          /\ Installs(t, Absent)
          /\ staging' = [staging EXCEPT ![t] = "absent"]
          /\ owns' = owns \ {t}
          /\ Goto(t, "settled")
          /\ UNCHANGED result
       \/ /\ Fails(t)
          /\ UNCHANGED <<target, staging, owns, ghosts>>
    /\ Same /\ UNCHANGED <<backup, intent, was>>

\* Mutant: the artifact goes on owning the partial that the intent names.
OpenOldOwning(t) ==
    /\ pc[t] = "openOld"
    /\ \/ /\ target = was[t]
          /\ intent = NoIntent
          /\ intent' = [take |-> t, previous |-> was[t], synced |-> "no"]
          /\ Goto(t, "writeIntent")
          /\ UNCHANGED result
       \/ /\ Fails(t)
          /\ UNCHANGED intent
    /\ ArtifactKept /\ Same /\ UNCHANGED <<target, staging, backup, ghosts>>

\* The target is opened and compared again, now under its lock, and the intent
\* is created.  From here the artifact no longer removes its partial.
OpenOld(t) ==
    /\ pc[t] = "openOld"
    /\ \/ /\ target = was[t]
          /\ intent = NoIntent
          /\ intent' = [take |-> t, previous |-> was[t], synced |-> "no"]
          /\ owns' = owns \ {t}
          /\ Goto(t, "writeIntent")
          /\ UNCHANGED result
       \/ /\ Fails(t)
          /\ UNCHANGED <<intent, owns>>
    /\ Same /\ UNCHANGED <<target, staging, backup, was, ghosts>>

\* Mutant: the movie is moved away before the intent is durable.
WriteIntentLater(t) ==
    /\ pc[t] = "writeIntent"
    /\ \/ /\ Goto(t, "moveOld")
          /\ UNCHANGED result
       \/ Fails(t)
    /\ UNCHANGED intent
    /\ ArtifactKept /\ Same /\ UNCHANGED <<target, staging, backup, ghosts>>

\* A write that fails, or its sync, may have left the intent whole.
WriteIntent(t) ==
    /\ pc[t] = "writeIntent"
    /\ \/ /\ intent' = [intent EXCEPT !.synced = "yes"]
          /\ Goto(t, "moveOld")
          /\ UNCHANGED result
       \/ /\ \E whole \in {"yes", "no"} : intent' = [intent EXCEPT !.synced = whole]
          /\ Fails(t)
    /\ ArtifactKept /\ Same /\ UNCHANGED <<target, staging, backup, ghosts>>

MoveOld(t) ==
    /\ pc[t] = "moveOld"
    /\ \/ /\ backup' = [backup EXCEPT ![t] = target]
          /\ target' = Absent
          /\ Goto(t, "install")
          /\ UNCHANGED result
       \/ /\ Fails(t)
          /\ UNCHANGED <<target, backup>>
    /\ ArtifactKept /\ Same /\ UNCHANGED <<staging, intent, ghosts>>

Install(t) ==
    /\ pc[t] = "install"
    /\ \/ /\ target = Absent
          /\ Installs(t, backup[t])
          /\ staging' = [staging EXCEPT ![t] = "absent"]
          /\ Goto(t, "dropOld")
          /\ UNCHANGED result
       \/ /\ Goto(t, "putBack")
          /\ result' = [result EXCEPT ![t] = "error"]
          /\ UNCHANGED <<target, staging, ghosts>>
    /\ ArtifactKept /\ Same /\ UNCHANGED <<backup, intent>>

PutBack(t) ==
    /\ pc[t] = "putBack"
    /\ \/ /\ target = Absent
          /\ target' = backup[t]
          /\ backup' = [backup EXCEPT ![t] = Absent]
          /\ Goto(t, "dropIntent")
       \/ /\ Goto(t, "settled")
          /\ UNCHANGED <<target, backup>>
    /\ UNCHANGED result
    /\ ArtifactKept /\ Same /\ UNCHANGED <<staging, intent, ghosts>>

DropOld(t) ==
    /\ pc[t] = "dropOld"
    /\ \/ /\ backup' = [backup EXCEPT ![t] = Absent]
          /\ Goto(t, "dropIntent")
          /\ UNCHANGED result
       \/ /\ Fails(t)
          /\ UNCHANGED backup
    /\ ArtifactKept /\ Same /\ UNCHANGED <<target, staging, intent, ghosts>>

DropIntent(t) ==
    /\ pc[t] = "dropIntent"
    /\ \/ /\ intent' = NoIntent
          /\ Goto(t, "settled")
          /\ UNCHANGED result
       \/ /\ Fails(t)
          /\ UNCHANGED intent
    /\ ArtifactKept /\ Same /\ UNCHANGED <<target, staging, backup, ghosts>>

\* Elsewhere a new target is linked, which never replaces, and an existing
\* one is replaced whatever it has become since it was compared.
UnixInstall(t) ==
    /\ pc[t] = "unixInstall"
    /\ \/ /\ was[t] = Absent
          /\ target = Absent
          /\ Installs(t, Absent)
          /\ Goto(t, "unixUnlink")
          /\ owns' = owns \ {t}
          /\ UNCHANGED <<staging, result>>
       \/ /\ was[t] # Absent
          /\ Installs(t, was[t])
          /\ staging' = [staging EXCEPT ![t] = "absent"]
          /\ Goto(t, "settled")
          /\ owns' = owns \ {t}
          /\ UNCHANGED result
       \/ /\ Fails(t)
          /\ UNCHANGED <<target, staging, owns, ghosts>>
    /\ Same /\ UNCHANGED <<backup, intent, was>>

UnixUnlink(t) ==
    /\ pc[t] = "unixUnlink"
    /\ \/ /\ staging' = [staging EXCEPT ![t] = "absent"]
          /\ Goto(t, "settled")
          /\ UNCHANGED result
       \/ /\ Fails(t)
          /\ UNCHANGED staging
    /\ ArtifactKept /\ Same /\ UNCHANGED <<target, backup, intent, ghosts>>

\* RecordingArtifact::discard and its drop: a partial that is still owned is
\* removed, or left where it is when that fails.
Discard(t) ==
    /\ pc[t] = "settled"
    /\ \/ /\ t \in owns
          /\ staging' = [staging EXCEPT ![t] = "absent"]
       \/ UNCHANGED staging
    /\ Goto(t, "over")
    /\ owns' = owns \ {t}
    /\ was' = [was EXCEPT ![t] = Absent]
    /\ result' = [result EXCEPT ![t] = "ok"]
    /\ Same /\ UNCHANGED <<target, backup, intent, ghosts>>

----------------------------------------------------------------------------
(* The rest of the world                                                   *)

\* Handles a publication or a recovery keeps open without sharing writes.
TargetLocked ==
    /\ platform = "windows"
    /\ \E t \in Take :
          \/ pc[t] \in {"recDropOld", "writeIntent", "moveOld", "dropOld",
                        "dropIntent"}
          \/ pc[t] = "recRetire" /\ result[t] = "ok"

\* Another program writes the target, or its user removes the movie there.
OtherProgram ==
    /\ ~TargetLocked
    /\ \E other \in unused :
          /\ unused' = unused \ {other}
          /\ \E new \in {other, Absent} :
                /\ target' = new
                /\ precious' = (precious \ {target}) \cup ({new} \ {Absent})
    /\ UNCHANGED <<platform, staging, backup, intent, artifact, crashes, installed>>

\* The process ends: its handles close and nothing unwinds.
PubCrash ==
    /\ crashes < MaxCrashes
    /\ crashes' = crashes + 1
    /\ pc' = [t \in Take |-> IF pc[t] = "idle" THEN "idle" ELSE "dead"]
    /\ owns' = {}
    /\ was' = [t \in Take |-> Absent]
    /\ result' = [t \in Take |-> "ok"]
    /\ UNCHANGED <<platform, files, unused, ghosts>>

Artifact(t) ==
    \/ Recover(t) \/ RecoverDropOld(t) \/ RecoverPutBack(t) \/ RecoverRetire(t)
    \/ Reserve(t)
    \/ Publish(t) \/ InstallNew(t) \/ OpenOld(t) \/ WriteIntent(t) \/ MoveOld(t)
    \/ Install(t) \/ PutBack(t) \/ DropOld(t) \/ DropIntent(t)
    \/ UnixInstall(t) \/ UnixUnlink(t)

----------------------------------------------------------------------------
(* Properties                                                              *)

PubTypeOK ==
    /\ platform \in Platforms
    /\ target \in Movie \cup {Absent}
    /\ staging \in [Take -> {"absent", "partial", "complete"}]
    /\ backup \in [Take -> Movie \cup {Absent}]
    /\ intent \in Intent \cup {NoIntent}
    /\ pc \in [Take -> ArtifactPc]
    /\ was \in [Take -> Movie \cup {Absent}]
    /\ owns \subseteq Take
    /\ result \in [Take -> {"ok", "error"}]
    /\ unused \subseteq Foreign
    /\ crashes \in 0..MaxCrashes
    /\ precious \subseteq Movie
    /\ installed \subseteq Take

\* The backup that a whole intent names.
Recoverable(movie) ==
    /\ intent # NoIntent
    /\ intent.synced = "yes"
    /\ intent.previous = movie
    /\ backup[intent.take] = movie

\* A movie that nobody has replaced or removed is at the target, or in the
\* backup that a whole intent names: whatever step of a publication or of a
\* recovery the process dies in, and whoever writes the target meanwhile.
NothingLost ==
    platform = "windows" =>
        \A movie \in precious : target = movie \/ Recoverable(movie)

\* While an intent is beside the target its take is not lost either: it is
\* complete in its partial, or it has been at the target.
TakeSurvives ==
    intent # NoIntent =>
        \/ intent.take \in installed
        \/ staging[intent.take] = "complete"

=============================================================================
