--------------------------- MODULE BackupDeletion ---------------------------
(***************************************************************************)
(* Deletion of a managed backup and the journal of its facts.  A request   *)
(* is recorded as prepared, its file is deleted through the handle that    *)
(* was hashed, and the outcome is recorded; the process may die, and any   *)
(* write may fail, between the three.  A prepared fact is unresolved: it   *)
(* protects the backup, and only an operator releases it.  Terminal facts  *)
(* are acknowledged away, and fences then refuse their identities.         *)
(*                                                                         *)
(* A section under the publication lock is as many actions as it has       *)
(* durable effects.  Every file has the bytes its requests name.            *)
(***************************************************************************)
EXTENDS Integers, FiniteSets

CONSTANTS
    Origin,         \* callers with their window and owner
    Deleter,        \* threads that execute deletions
    MaxBackups,     \* bound: backups, the first of which is there at the start
    Named,          \* bound: the ids and backups that callers pair in a request
    MaxCopies,      \* bound: files the user copies back
    MaxProcess,     \* bound: incarnations of the process
    MaxManages,     \* bound: management requests of a process
    Keep,           \* PROJECT_BACKUP_RETENTION
    MaxRecords, MaxManagement, MaxRetired, MaxBatch

ASSUME DeletionConstants ==
    /\ {MaxBackups, MaxCopies, MaxProcess, MaxManages} \subseteq Nat
    /\ Named \subseteq (Nat \ {0}) \X (1 .. MaxBackups)
    /\ {Keep, MaxRecords, MaxManagement, MaxRetired, MaxBatch} \subseteq Nat \ {0}
    /\ MaxManagement > 1 /\ MaxRetired > 2 /\ MaxBatch > 5

Backup == 1 .. MaxBackups
Process == 1 .. MaxProcess
Request ==
    {[who |-> o, id |-> n[1], proc |-> p, backup |-> n[2]] :
        o \in Origin, n \in Named, p \in Process}
Result == [who : Origin, id : 1 .. MaxManages, proc : Process]
Fence == [kind : {"deletion", "management"}, who : Origin, proc : Process]
NoRequest == [who |-> "nobody", id |-> 0, proc |-> 0, backup |-> 0]
Phase == {"prepared", "succeeded", "rejected", "resolved"}

VARIABLES
    \* the directory: each backup's file, those a publication receipt names
    file, published, referenced, owed,
    \* the journal: the facts, the management results, the high-water fences
    fact, results, high,
    \* the process: its incarnation, outcomes it remembers, its requests
    process, known, managed,
    pc, req,
    release, observed, fresh,
    \* how often a request deleted a file
    effects,
    copies

directoryVars == <<file, published, referenced, owed>>
journalVars == <<fact, results, high>>
processVars == <<process, known, managed>>
releaseVars == <<release, observed, fresh>>
vars == <<directoryVars, journalVars, processVars, pc, req, releaseVars, effects, copies>>

Init ==
    /\ file = [b \in Backup |-> IF b = 1 THEN "there" ELSE "absent"] /\ published = 1
    /\ referenced = {} /\ owed = 0
    /\ fact = [r \in Request |-> "none"] /\ results = {}
    /\ high = [f \in Fence |-> 0]
    /\ process = 1 /\ known = {} /\ managed = 0
    /\ pc = [d \in Deleter |-> "idle"] /\ req = [d \in Deleter |-> NoRequest]
    /\ release = NoRequest /\ observed = "absent" /\ fresh = FALSE
    /\ effects = [r \in Request |-> 0]
    /\ copies = 0

----------------------------------------------------------------------------
(* The journal                                                             *)

Facts == {r \in Request : fact[r] # "none"}
Unresolved == {r \in Request : fact[r] = "prepared"}
Terminal == Facts \ Unresolved
Retired == {f \in Fence : high[f] > 0}

Key(r) == <<r.who, r.id>>
FenceOf(r) == [kind |-> "deletion", who |-> r.who, proc |-> r.proc]
ResultFence(m) == [kind |-> "management", who |-> m.who, proc |-> m.proc]

\* An acknowledged identity is refused; so is an id that names another request.
Expired(r) == r.id <= high[FenceOf(r)]
Unknown(r) == ~Expired(r) /\ \A q \in Facts : Key(q) # Key(r)

Protected(b) == \E r \in Unresolved : r.backup = b

\* Every change of the journal makes the snapshot of a release stale.
Writes(phaseOf) == fact' = phaseOf /\ fresh' = FALSE

----------------------------------------------------------------------------
(* Executing a deletion                                                    *)

Locked == \E d \in Deleter : pc[d] \in {"written", "deleted"}

\* The files a deletion or a release has opened exclusively.
Held ==
    {req[d].backup : d \in {d \in Deleter : pc[d] \in {"open", "written"}}}
        \cup (IF observed = "absent" THEN {} ELSE {release.backup})

Leaves(d) ==
    /\ pc' = [pc EXCEPT ![d] = "idle"]
    /\ req' = [req EXCEPT ![d] = NoRequest]

\* The outcome of a flight is remembered under the request's key.
Answers(d) == Leaves(d) /\ known' = known \cup {Key(req[d])}

\* A recorded or expired identity is answered at once, from the journal.
Ask(d, r) ==
    /\ pc[d] = "idle" /\ ~Locked
    /\ r.proc <= process /\ r.backup <= published
    /\ Unknown(r)
    /\ pc' = [pc EXCEPT ![d] = "asked"] /\ req' = [req EXCEPT ![d] = r]
    /\ UNCHANGED <<directoryVars, journalVars, processVars, releaseVars, effects, copies>>

\* One flight per key; one that waited finds the outcome of the other.
Flies(d) ==
    /\ pc[d] = "asked"
    /\ \A c \in Deleter : pc[c] \notin {"idle", "asked"} => Key(req[c]) # Key(req[d])

Replay(d) ==
    /\ Flies(d) /\ Key(req[d]) \in known
    /\ Leaves(d)
    /\ UNCHANGED <<directoryVars, journalVars, processVars, releaseVars, effects, copies>>

\* The fence of this process, the confirmation, and the file opened and hashed.
Open(d) ==
    /\ Flies(d) /\ Key(req[d]) \notin known
    /\ req[d].proc = process
    /\ file[req[d].backup] = "there" /\ req[d].backup \notin Held
    /\ pc' = [pc EXCEPT ![d] = "open"]
    /\ UNCHANGED <<directoryVars, journalVars, processVars, req, releaseVars, effects,
                   copies>>

\* Stale fence, cancelled, changed file, lost owner, full journal, failed write.
Refuse(d) ==
    /\ pc[d] = "open" \/ (Flies(d) /\ Key(req[d]) \notin known)
    /\ Answers(d)
    /\ UNCHANGED <<directoryVars, journalVars, process, managed, releaseVars, effects,
                   copies>>

\* Mutant: the fact is written without asking whether the identity is known.
WriteUnasked(d) ==
    /\ pc[d] = "open" /\ ~Locked
    /\ req[d].backup \notin referenced /\ ~Protected(req[d].backup)
    /\ Cardinality(Facts) < MaxRecords
    /\ Writes([fact EXCEPT ![req[d]] = "prepared"])
    /\ pc' = [pc EXCEPT ![d] = "written"]
    /\ UNCHANGED <<directoryVars, results, high, processVars, req, release, observed, effects,
                   copies>>

\* The unresolved fact is durable before the effect; the lock is kept.
Write(d) ==
    /\ pc[d] = "open" /\ ~Locked
    /\ req[d].backup \notin referenced /\ ~Protected(req[d].backup)
    /\ Cardinality(Facts) < MaxRecords
    /\ Unknown(req[d])
    /\ Writes([fact EXCEPT ![req[d]] = "prepared"])
    /\ pc' = [pc EXCEPT ![d] = "written"]
    /\ UNCHANGED <<directoryVars, results, high, processVars, req, release, observed, effects,
                   copies>>

\* Authority was revoked before the effect.
Reject(d) ==
    /\ pc[d] = "written"
    /\ Writes([fact EXCEPT ![req[d]] = "rejected"])
    /\ Answers(d)
    /\ UNCHANGED <<directoryVars, results, high, process, managed, release, observed,
                   effects, copies>>

Delete(d) ==
    /\ pc[d] = "written"
    /\ file' = [file EXCEPT ![req[d].backup] = "absent"]
    /\ effects' = [effects EXCEPT ![req[d]] = @ + 1]
    /\ pc' = [pc EXCEPT ![d] = "deleted"]
    /\ UNCHANGED <<published, referenced, owed, journalVars, processVars, req,
                   releaseVars, copies>>

\* The effect or the write of its outcome failed: the fact stays prepared.
StaysPrepared(d) ==
    /\ pc[d] \in {"written", "deleted"}
    /\ Answers(d)
    /\ UNCHANGED <<directoryVars, journalVars, process, managed, releaseVars, effects,
                   copies>>

Succeed(d) ==
    /\ pc[d] = "deleted"
    /\ Writes([fact EXCEPT ![req[d]] = "succeeded"])
    /\ Answers(d)
    /\ UNCHANGED <<directoryVars, results, high, process, managed, release, observed,
                   effects, copies>>

\* Outcomes and tombstones of the process expire, or their owner is retired.
Forget ==
    /\ \E k \in known : known' = known \ {k}
    /\ UNCHANGED <<directoryVars, journalVars, process, managed, pc, req, releaseVars,
                   effects, copies>>

----------------------------------------------------------------------------
(* Management of the journal, under the generation the operator saw        *)

CanManage == ~Locked /\ managed < MaxManages

\* Each request leaves a result; clients number theirs upwards.
Manages(remaining, p) ==
    /\ CanManage
    /\ Cardinality(remaining) < MaxManagement
    /\ managed' = managed + 1
    /\ \E o \in Origin :
         results' = remaining \cup {[who |-> o, id |-> managed + 1, proc |-> p]}

\* The high-water mark of a fence once the records of S are retired.
Marks(S, M, f) ==
    {r.id : r \in {r \in S : FenceOf(r) = f}}
        \cup {m.id : m \in {m \in M : ResultFence(m) = f}}

Highest(S, M, f, old) ==
    CHOOSE n \in Marks(S, M, f) \cup {old} : \A k \in Marks(S, M, f) \cup {old} : k <= n

RetiredBy(S, M) == {FenceOf(r) : r \in S} \cup {ResultFence(m) : m \in M}

\* Mutant: there must be room for the new fences beside those compacted.
HasRoomFirst(S, M, C) ==
    Cardinality(Retired \cup RetiredBy(S, M)) <= MaxRetired

\* Fences are compacted first, which makes room for those of the records.
HasRoom(S, M, C) ==
    Cardinality((Retired \ C) \cup RetiredBy(S, M)) <= MaxRetired

\* Terminal facts, results, and fences of earlier processes, in one request.
MayReclaim(S, M, C, p) ==
    /\ S \cup M \cup C # {}
    /\ Cardinality(S) + Cardinality(M) + Cardinality(C) <= MaxBatch
    /\ \A f \in C : f.proc # p
    /\ HasRoom(S, M, C)

\* Mutant: acknowledged identities are not fenced.
RetireNothing(S, M, C) == high' = [f \in Fence |-> IF f \in C THEN 0 ELSE high[f]]

Retire(S, M, C) ==
    high' = [f \in Fence |-> Highest(S, M, f, IF f \in C THEN 0 ELSE high[f])]

\* Acknowledge, CompactRetired and Reclaim are one operation on three sets.
Reclaim(S, M, C) ==
    /\ MayReclaim(S, M, C, process)
    /\ Manages(results \ M, process)
    /\ Retire(S, M, C)
    /\ Writes([r \in Request |-> IF r \in S THEN "none" ELSE fact[r]])
    /\ UNCHANGED <<directoryVars, process, known, pc, req, release, observed, effects,
                   copies>>

\* The operator saw an unresolved fact; its file is opened, or found missing.
Survey(r) ==
    /\ release = NoRequest /\ ~Locked
    /\ fact[r] = "prepared" /\ r.backup \notin Held
    /\ release' = r /\ observed' = file[r.backup] /\ fresh' = TRUE
    /\ UNCHANGED <<directoryVars, journalVars, processVars, pc, req, effects, copies>>

ReleaseUnknownProtection ==
    /\ release # NoRequest /\ fresh
    /\ file[release.backup] = observed
    /\ Manages(results, process)
    /\ Writes([fact EXCEPT ![release] = "resolved"])
    /\ release' = NoRequest /\ observed' = "absent"
    /\ UNCHANGED <<directoryVars, high, process, known, pc, req, effects, copies>>

GiveUpRelease ==
    /\ release # NoRequest
    /\ release' = NoRequest /\ observed' = "absent" /\ fresh' = FALSE
    /\ UNCHANGED <<directoryVars, journalVars, processVars, pc, req, effects, copies>>

----------------------------------------------------------------------------
(* Other users of the directory, and crashes                               *)

Publish ==
    /\ ~Locked /\ published < MaxBackups
    /\ published' = published + 1
    /\ file' = [file EXCEPT ![published'] = "there"]
    /\ referenced' = referenced \cup {published'}
    /\ owed' = owed + 1
    /\ UNCHANGED <<journalVars, processVars, pc, req, releaseVars, effects, copies>>

\* The readable backups beyond the newest Keep, from the newest of them on; the
\* first removal that fails ends the cleanup.
Listed == {b \in Backup : file[b] # "absent" /\ b \notin Held}
Surplus == {b \in Listed : Cardinality({c \in Listed : c > b}) >= Keep} \ referenced

Retain ==
    /\ ~Locked /\ owed > 0
    /\ owed' = owed - 1
    /\ \E last \in Backup :
         file' = [b \in Backup |-> IF b \in Surplus /\ b >= last THEN "absent" ELSE file[b]]
    /\ UNCHANGED <<published, referenced, journalVars, processVars, pc, req, releaseVars,
                   effects, copies>>

\* The receipt of a publication is acknowledged after its cleanup.
AcknowledgePublication(b) ==
    /\ ~Locked /\ owed = 0 /\ b \in referenced
    /\ referenced' = referenced \ {b}
    /\ UNCHANGED <<file, published, owed, journalVars, processVars, pc, req, releaseVars,
                   effects, copies>>

\* delete_project_backup, without a request identity.
DeleteUnjournaled(b) ==
    /\ ~Locked
    /\ b \notin referenced /\ ~Protected(b)
    /\ file[b] # "absent" /\ b \notin Held
    /\ file' = [file EXCEPT ![b] = "absent"]
    /\ UNCHANGED <<published, referenced, owed, journalVars, processVars, pc, req,
                   releaseVars, effects, copies>>

\* The user copies a backup back to a leaf that is gone.
CopyBack(b) ==
    /\ copies < MaxCopies
    /\ b <= published /\ file[b] = "absent"
    /\ file' = [file EXCEPT ![b] = "there"]
    /\ copies' = copies + 1
    /\ UNCHANGED <<published, referenced, owed, journalVars, processVars, pc, req,
                   releaseVars, effects>>

Crash ==
    /\ process < MaxProcess
    /\ process' = process + 1 /\ known' = {} /\ managed' = 0
    /\ pc' = [d \in Deleter |-> "idle"] /\ req' = [d \in Deleter |-> NoRequest]
    /\ release' = NoRequest /\ observed' = "absent" /\ fresh' = FALSE
    /\ owed' = 0
    /\ UNCHANGED <<file, published, referenced, journalVars, effects, copies>>

----------------------------------------------------------------------------
DeleterNext(d) ==
    \/ \E r \in Request : Ask(d, r)
    \/ Replay(d)
    \/ Open(d)
    \/ Refuse(d)
    \/ Write(d)
    \/ Reject(d)
    \/ Delete(d)
    \/ StaysPrepared(d)
    \/ Succeed(d)

ManagementNext ==
    \/ /\ CanManage
       /\ \E S \in SUBSET Terminal, M \in SUBSET results, C \in SUBSET Retired :
            Reclaim(S, M, C)
    \/ \E r \in Request : Survey(r)
    \/ ReleaseUnknownProtection
    \/ GiveUpRelease

Next ==
    \/ \E d \in Deleter : DeleterNext(d)
    \/ Forget
    \/ ManagementNext
    \/ Publish
    \/ Retain
    \/ \E b \in Backup : AcknowledgePublication(b) \/ DeleteUnjournaled(b) \/ CopyBack(b)
    \/ Crash

Spec == Init /\ [][Next]_vars

----------------------------------------------------------------------------
(* Properties                                                              *)

\* Safety: a request deletes at most one file, whatever is retried, copied
\* back, acknowledged, compacted or lost in a crash; a terminal fact is true; and
\* an effect is known by a fact or a fence as long as its request can be retried.
FactsAreTrue ==
    \A r \in Request :
        /\ effects[r] <= 1
        /\ fact[r] = "succeeded" => effects[r] = 1
        /\ fact[r] = "rejected" => effects[r] = 0
        /\ effects[r] = 1 =>
             \/ fact[r] \in {"prepared", "succeeded", "resolved"}
             \/ Expired(r)
             \/ r.proc # process

\* Safety: full tables are never a dead end: an unresolved fact can be released,
\* or one request after a restart makes room for a fact and for a result.
Recoverable ==
    \/ /\ Cardinality(results) < MaxManagement
       /\ Cardinality(Facts) < MaxRecords \/ Unresolved # {}
    \/ \E S \in SUBSET Terminal, M \in SUBSET results, C \in SUBSET Retired :
         /\ MayReclaim(S, M, C, process + 1)
         /\ Cardinality(results \ M) + 1 < MaxManagement
         /\ Cardinality(Facts \ S) < MaxRecords \/ Unresolved # {}

\* What the journal's document says: a prepared record protects its backup from
\* new callers, from the unjournaled deletion and from the retention cleanup.
ProtectedIsKept ==
    [][\A b \in Backup :
         Protected(b) /\ file[b] # "absent" /\ file'[b] = "absent" =>
             \E d \in Deleter : pc[d] = "written" /\ req[d].backup = b]_vars
=============================================================================
