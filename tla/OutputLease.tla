----------------------------- MODULE OutputLease -----------------------------
(***************************************************************************)
(* The registry of output leases: who may drive the lighting and the video *)
(* outputs.  Every operation clones the registry, works on the clone and   *)
(* publishes it whole or drops it, under one lock, so each is one action.  *)
(* A request the registry refuses changes no authority but still records   *)
(* the time it was seen at (Observe).                                      *)
(*                                                                         *)
(* Ids, generations and the clock are u64 in the code and their additions  *)
(* are checked: MaxLease, MaxGeneration and MaxClock stand for the largest *)
(* value, and an operation that would pass it is refused as a whole.       *)
(***************************************************************************)
EXTENDS Integers, FiniteSets

CONSTANTS
    Owner,          \* owners named by requests, of this and of past processes
    ThisProcess,    \* the owners of the running process
    NoOwner,        \* the owner of a lease nobody holds
    Project,        \* project epochs a lease may be bound to
    NoProject,      \* the project of a lease that was never granted
    Ttl,            \* MAX_OUTPUT_LEASE_TTL_MS
    Retention,      \* OUTPUT_LEASE_UNCLAIMED_RETENTION_MS
    Capacity,       \* MAX_OUTPUT_LEASES
    MaxLease,       \* bound: the largest lease id
    MaxGeneration,  \* bound: the largest generation
    MaxClock        \* bound: the largest instant considered

ASSUME RegistryConstants ==
    /\ ThisProcess \subseteq Owner
    /\ NoOwner \notin Owner
    /\ NoProject \notin Project
    /\ Ttl \in Nat \ {0}
    /\ Retention \in Nat \ {0}
    /\ Capacity \in Nat
    /\ MaxLease \in Nat
    /\ MaxGeneration \in Nat
    /\ MaxClock \in Nat

VARIABLES
    leases,     \* the lease records, by id
    index,      \* resource_index: the ids holding each resource
    nextId,     \* next_lease_id
    lastNow     \* last_now_ms: the latest instant any request was seen at

vars == <<leases, index, nextId, lastNow>>

Resource == {"lighting", "video"}
Both == Resource
LeaseId == 1..MaxLease
Instant == 0..MaxClock

Lease == [phase : {"none", "unclaimed", "active", "orphaned"},
          owner : Owner \cup {NoOwner},
          resources : SUBSET Resource,
          project : Project \cup {NoProject},
          generation : 0..MaxGeneration,
          deadline : Nat,
          released : Nat]

\* An id without a record in the registry.
NoLease == [phase |-> "none", owner |-> NoOwner, resources |-> {},
            project |-> NoProject, generation |-> 0, deadline |-> 0,
            released |-> 0]

Init ==
    /\ leases = [id \in LeaseId |-> NoLease]
    /\ index = [r \in Resource |-> {}]
    /\ nextId = 1
    /\ lastNow = 0

----------------------------------------------------------------------------
(* One lease                                                               *)

Recorded(ls) == {id \in LeaseId : ls[id].phase # "none"}
Holding == {id \in LeaseId : leases[id].resources # {}}

Active(id) == leases[id].phase = "active"
Held(id) == leases[id].phase \in {"active", "orphaned"}
ExpiredBy(id, at) == Active(id) /\ at >= leases[id].deadline

Granted(o, R, p, at) ==
    [phase |-> "active", owner |-> o, resources |-> R, project |-> p,
     generation |-> 1, deadline |-> at + Ttl, released |-> 0]

\* Mutant: an orphan keeps the generation of the active lease.
OrphanedQuietly(l) ==
    [l EXCEPT !.phase = "orphaned", !.deadline = 0]

Orphaned(l) ==
    [l EXCEPT !.phase = "orphaned", !.generation = l.generation + 1,
              !.deadline = 0]

Activated(l, o, at) ==
    [l EXCEPT !.phase = "active", !.owner = o,
              !.generation = l.generation + 1, !.deadline = at + Ttl]

Unclaimed(l, at) ==
    [l EXCEPT !.phase = "unclaimed", !.owner = NoOwner, !.resources = {},
              !.generation = l.generation + 1, !.deadline = 0, !.released = at]

\* A request names the generation it saw, and one more must be representable.
AtGeneration(id, g) == leases[id].generation = g /\ g < MaxGeneration

Owns(id, o) == leases[id].owner = o

\* A recovery orphans an active lease that expired before it reactivates it.
BeforeRecovery(id) == IF Active(id) THEN Orphaned(leases[id]) ELSE leases[id]

----------------------------------------------------------------------------
(* Granting                                                                *)

Purged(ls, at) ==
    [id \in LeaseId |->
        IF ls[id].phase = "unclaimed" /\ at >= ls[id].released + Retention
        THEN NoLease
        ELSE ls[id]]

WithIndexed(ix, id, R) ==
    [r \in Resource |-> IF r \in R THEN ix[r] \cup {id} ELSE ix[r]]

WithoutIndexed(ix, id, R) ==
    [r \in Resource |-> IF r \in R THEN ix[r] \ {id} ELSE ix[r]]

\* Mutant: the owner's process is not checked.
AcquireForAnyProcess(ls, ix, o, R, p, at) ==
    /\ Cardinality(Recorded(Purged(ls, at))) < Capacity
    /\ \A r \in R : ix[r] = {}
    /\ nextId \in LeaseId
    /\ leases' = [Purged(ls, at) EXCEPT ![nextId] = Granted(o, R, p, at)]
    /\ index' = WithIndexed(ix, nextId, R)
    /\ nextId' = nextId + 1
    /\ lastNow' = at

\* Mutant: one free output is enough, any and all swapped in resources_overlap.
AcquireUnlessAllHeld(ls, ix, o, R, p, at) ==
    /\ o \in ThisProcess
    /\ Cardinality(Recorded(Purged(ls, at))) < Capacity
    /\ \E r \in R : ix[r] = {}
    /\ nextId \in LeaseId
    /\ leases' = [Purged(ls, at) EXCEPT ![nextId] = Granted(o, R, p, at)]
    /\ index' = WithIndexed(ix, nextId, R)
    /\ nextId' = nextId + 1
    /\ lastNow' = at

\* acquire_inner on the leases and the index a request has reached so far.
AcquireFrom(ls, ix, o, R, p, at) ==
    /\ o \in ThisProcess
    /\ Cardinality(Recorded(Purged(ls, at))) < Capacity
    /\ \A r \in R : ix[r] = {}
    /\ nextId \in LeaseId
    /\ MaxGeneration > 0
    /\ leases' = [Purged(ls, at) EXCEPT ![nextId] = Granted(o, R, p, at)]
    /\ index' = WithIndexed(ix, nextId, R)
    /\ nextId' = nextId + 1
    /\ lastNow' = at

Acquire(o, R, p, at) == AcquireFrom(leases, index, o, R, p, at)

\* Enable, when nothing holds either output.
EnableAcquire(o, p, at) ==
    /\ Holding = {}
    /\ AcquireFrom(leases, index, o, Both, p, at)

----------------------------------------------------------------------------
(* Changing a lease in place                                               *)

ChangeLease(id, l, at) ==
    /\ leases' = [leases EXCEPT ![id] = l]
    /\ lastNow' = at
    /\ UNCHANGED <<index, nextId>>

RecoverInPlace(id, o, at) ==
    /\ o \in ThisProcess
    /\ Holding = {id}
    /\ Owns(id, o)
    /\ ExpiredBy(id, at) \/ leases[id].phase = "orphaned"
    /\ BeforeRecovery(id).generation < MaxGeneration
    /\ ChangeLease(id, Activated(BeforeRecovery(id), o, at), at)

\* Enable, when the one overlapping lease is an orphan of the same scope.
EnableRecover(id, o, p, at) ==
    /\ leases[id].resources = Both
    /\ leases[id].project = p
    /\ RecoverInPlace(id, o, at)

\* authorize_or_recover_display, when the lease has to be recovered.
DisplayRecover(id, o, g, p, at) ==
    /\ AtGeneration(id, g)
    /\ "video" \in leases[id].resources
    /\ leases[id].project = p
    /\ RecoverInPlace(id, o, at)

Renew(id, o, g, at) ==
    /\ AtGeneration(id, g)
    /\ Owns(id, o)
    /\ Active(id)
    /\ ~ExpiredBy(id, at)
    /\ ChangeLease(id, Activated(leases[id], o, at), at)

\* Every use of a lease (a renewal, an authorization, a transfer, a managed
\* release) that meets its deadline publishes the orphan and fails.
FindExpired(id, g, at) ==
    /\ AtGeneration(id, g)
    /\ ExpiredBy(id, at)
    /\ ChangeLease(id, Orphaned(leases[id]), at)

Recover(id, o, g, at) ==
    /\ AtGeneration(id, g)
    /\ Owns(id, o)
    /\ leases[id].phase = "orphaned"
    /\ ChangeLease(id, Activated(leases[id], o, at), at)

\* Mutant: the deadline of the lease is not looked at.
ForceTransferExpired(id, o, g, at) ==
    /\ AtGeneration(id, g)
    /\ o \in ThisProcess
    /\ Held(id)
    /\ ~Owns(id, o)
    /\ ChangeLease(id, Activated(leases[id], o, at), at)

ForceTransfer(id, o, g, at) ==
    /\ AtGeneration(id, g)
    /\ o \in ThisProcess
    /\ Held(id)
    /\ ~ExpiredBy(id, at)
    /\ ~Owns(id, o)
    /\ ChangeLease(id, Activated(leases[id], o, at), at)

----------------------------------------------------------------------------
(* Releasing, replacing, orphaning                                         *)

\* Mutant: the released lease stays in the index.
RelinquishStillIndexed(id, o, g, at) ==
    /\ AtGeneration(id, g)
    /\ Owns(id, o)
    /\ Held(id)
    /\ ChangeLease(id, Unclaimed(leases[id], at), at)

RelinquishOutputLease(id, o, g, at) ==
    /\ AtGeneration(id, g)
    /\ Owns(id, o)
    /\ Held(id)
    /\ leases' = [leases EXCEPT ![id] = Unclaimed(leases[id], at)]
    /\ index' = WithoutIndexed(index, id, leases[id].resources)
    /\ lastNow' = at
    /\ UNCHANGED nextId

\* query_video_authoring_lease rebuilds the index and answers nothing when the
\* published one differs or when two leases share a resource.
IndexVerified ==
    \A r \in Resource :
        /\ index[r] = {id \in LeaseId : r \in leases[id].resources}
        /\ \A i, j \in index[r] : i = j

\* Mutant: any owner may move the lease.
ReplaceAnyonesProject(id, o, g, p, at) ==
    /\ AtGeneration(id, g)
    /\ leases[id].project # p
    /\ Held(id)
    /\ "video" \in leases[id].resources
    /\ IndexVerified
    /\ AcquireFrom([leases EXCEPT ![id] = Unclaimed(leases[id], at)],
                   WithoutIndexed(index, id, leases[id].resources),
                   o, leases[id].resources, p, at)

\* The owner's Video lease moves to another project: the old lease is released
\* and a new one of the same scope granted, in one publication.
ReplacePreviousProject(id, o, g, p, at) ==
    /\ AtGeneration(id, g)
    /\ o \in ThisProcess
    /\ Owns(id, o)
    /\ leases[id].project # p
    /\ Held(id)
    /\ "video" \in leases[id].resources
    /\ IndexVerified
    /\ AcquireFrom([leases EXCEPT ![id] = Unclaimed(leases[id], at)],
                   WithoutIndexed(index, id, leases[id].resources),
                   o, leases[id].resources, p, at)

OrphanAll(ids, at) ==
    /\ \A id \in ids : leases[id].generation < MaxGeneration
    /\ leases' = [id \in LeaseId |->
                    IF id \in ids THEN Orphaned(leases[id]) ELSE leases[id]]
    /\ lastNow' = at
    /\ UNCHANGED <<index, nextId>>

RetireOwner(o, at) ==
    /\ o \in ThisProcess
    /\ OrphanAll({id \in LeaseId : Active(id) /\ Owns(id, o)}, at)

\* The ids and the outputs that a request selects may narrow the leases of the
\* project to any of them, or to none.
ProjectOrphan(p, at) ==
    \E ids \in SUBSET {id \in LeaseId : Active(id) /\ leases[id].project = p} :
        OrphanAll(ids, at)

\* A refused request or a successful authorization.
Observe(at) ==
    /\ lastNow' = at
    /\ UNCHANGED <<leases, index, nextId>>

----------------------------------------------------------------------------

RequestNamed(id, o, g, at) ==
    \/ Renew(id, o, g, at)
    \/ FindExpired(id, g, at)
    \/ Recover(id, o, g, at)
    \/ ForceTransfer(id, o, g, at)
    \/ RelinquishOutputLease(id, o, g, at)
    \/ \E p \in Project :
          \/ DisplayRecover(id, o, g, p, at)
          \/ ReplacePreviousProject(id, o, g, p, at)

RequestFor(o, p, at) ==
    \/ EnableAcquire(o, p, at)
    \/ \E R \in (SUBSET Resource) \ {{}} : Acquire(o, R, p, at)
    \/ \E id \in LeaseId : EnableRecover(id, o, p, at)

\* An instant before lastNow is refused as a clock rollback.
Next ==
    \E at \in lastNow..MaxClock :
        \/ \E id \in LeaseId, o \in Owner, g \in 0..MaxGeneration :
              RequestNamed(id, o, g, at)
        \/ \E o \in Owner, p \in Project : RequestFor(o, p, at)
        \/ \E o \in Owner : RetireOwner(o, at)
        \/ \E p \in Project : ProjectOrphan(p, at)
        \/ Observe(at)

Spec == Init /\ [][Next]_vars

----------------------------------------------------------------------------
(* Properties                                                              *)

\* A record is what its phase says (the snapshots OutputLeaseState builds).
Consistent(l, now) ==
    /\ l \in Lease
    /\ l.phase = "none" => l = NoLease
    /\ l.phase = "unclaimed" => l.owner = NoOwner /\ l.resources = {}
    /\ l.phase \in {"active", "orphaned"} =>
          /\ l.owner \in ThisProcess
          /\ l.project \in Project
          /\ l.resources # {}
          /\ l.deadline <= now + Ttl

\* Only owners of this process hold an output, no deadline lies more than one
\* Ttl after the last request, a released lease holds nothing, and ids at or
\* above next_lease_id are unused.
RegistryTypeOK ==
    /\ leases \in [LeaseId -> Lease]
    /\ index \in [Resource -> SUBSET LeaseId]
    /\ nextId \in 1..(MaxLease + 1)
    /\ lastNow \in Instant
    /\ \A id \in LeaseId :
          /\ Consistent(leases[id], lastNow)
          /\ id >= nextId => leases[id].phase = "none"

\* No output is held by two leases, active or orphaned (resources_overlap).
HeldOnce ==
    \A i, j \in LeaseId :
        i # j => leases[i].resources \cap leases[j].resources = {}

\* resource_index, which alone decides whether an output is free, names exactly
\* the leases that hold it: no operation leaves an output blocked or unguarded.
IndexExact ==
    \A r \in Resource :
        index[r] = {id \in LeaseId : r \in leases[id].resources}

\* What a caller remembers, an id and a generation, never comes to name other
\* authority: a change advances the generation, only a released lease is
\* forgotten, and its id is not granted again (require_generation is the CAS of
\* every lifecycle request).
GenerationsFence ==
    [][\A id \in LeaseId :
        leases'[id] # leases[id] =>
            \/ id = nextId
            \/ /\ leases[id].phase # "none"
               /\ leases'[id].generation > leases[id].generation
            \/ /\ leases[id].phase = "unclaimed"
               /\ leases'[id] = NoLease]_vars

\* Once a request is seen at or after the deadline of an active lease, nothing
\* extends or moves that authority: it is orphaned or released, or the same
\* owner recovers it for the same project and the expiry costs a generation.
ExpiryIsFinal ==
    [][\A id \in LeaseId :
        ExpiredBy(id, lastNow') /\ leases'[id] # leases[id] =>
            \/ leases'[id].phase \in {"orphaned", "unclaimed"}
            \/ /\ leases'[id].owner = leases[id].owner
               /\ leases'[id].project = leases[id].project
               /\ leases'[id].generation = leases[id].generation + 2]_vars

\* The abstract view of a set of lease records: what each output answers to.
Nobody == [grant |-> 0]

AnswerOf(id, l) ==
    [grant |-> id, owner |-> l.owner, project |-> l.project,
     standing |-> IF l.phase = "active" THEN "live" ELSE "lapsed"]

Holders(ls, r) == {id \in LeaseId : r \in ls[id].resources}

AuthorityOf(ls) ==
    [r \in Resource |->
        IF Holders(ls, r) = {} THEN Nobody
        ELSE LET id == CHOOSE i \in Holders(ls, r) : TRUE
             IN  AnswerOf(id, ls[id])]

Abstract == INSTANCE ResourceAuthority
    WITH Grant <- LeaseId,
         authority <- AuthorityOf(leases),
         granted <- 1..(nextId - 1)

\* The registry implements ResourceAuthority: grants are exclusive, move as
\* units, and change owner or project only as it allows.
ImplementsAuthority == Abstract!AuthoritySpec

=============================================================================
