------------------------- MODULE OutputLease_proofs -------------------------
(***************************************************************************)
(* Proofs about OutputLease, for every set of owners and projects and      *)
(* every bound.  The registry is sound when its records are consistent, no *)
(* output is held twice and the index is exact; the three are inductive    *)
(* only together, because the index alone decides what may be granted.     *)
(* Soundness is stated of values rather than variables, so that a request  *)
(* that makes several changes to its candidate before publishing it is     *)
(* proved by chaining the lemmas of its changes.                           *)
(***************************************************************************)
EXTENDS OutputLease, TLAPS

Sound(ls, ix, n, now) ==
    /\ ls \in [LeaseId -> Lease]
    /\ ix \in [Resource -> SUBSET LeaseId]
    /\ n \in 1..(MaxLease + 1)
    /\ now \in Instant
    /\ \A id \in LeaseId : Consistent(ls[id], now)
    /\ \A id \in LeaseId : id >= n => ls[id].phase = "none"
    /\ \A i, j \in LeaseId : i # j => ls[i].resources \cap ls[j].resources = {}
    /\ \A r \in Resource : ix[r] = {id \in LeaseId : r \in ls[id].resources}

SoundRegistry == Sound(leases, index, nextId, lastNow)

(***************************************************************************)
(* One lease                                                               *)
(***************************************************************************)

\* An orphan differs from its lease in phase, generation and deadline only.
LEMMA OrphanedFields ==
    ASSUME NEW l \in Lease, l.generation < MaxGeneration
    PROVE  /\ Orphaned(l) \in Lease
           /\ Orphaned(l).phase = "orphaned"
           /\ Orphaned(l).owner = l.owner
           /\ Orphaned(l).resources = l.resources
           /\ Orphaned(l).project = l.project
           /\ Orphaned(l).generation = l.generation + 1
           /\ Orphaned(l).deadline = 0
<1>1. l.generation + 1 \in 0..MaxGeneration
  BY RegistryConstants DEF Lease
<1>2. QED
  BY <1>1 DEF Orphaned, Lease

\* A renewed, recovered or transferred lease keeps its scope and project.
LEMMA ActivatedFields ==
    ASSUME NEW l \in Lease, l.generation < MaxGeneration,
           NEW o \in Owner, NEW at \in Instant
    PROVE  /\ Activated(l, o, at) \in Lease
           /\ Activated(l, o, at).phase = "active"
           /\ Activated(l, o, at).owner = o
           /\ Activated(l, o, at).resources = l.resources
           /\ Activated(l, o, at).project = l.project
           /\ Activated(l, o, at).generation = l.generation + 1
           /\ Activated(l, o, at).deadline = at + Ttl
<1>1. l.generation + 1 \in 0..MaxGeneration /\ at + Ttl \in Nat
  BY RegistryConstants DEF Lease, Instant
<1>2. QED
  BY <1>1 DEF Activated, Lease

\* A released lease holds nothing.
LEMMA UnclaimedFields ==
    ASSUME NEW l \in Lease, l.generation < MaxGeneration, NEW at \in Instant
    PROVE  /\ Unclaimed(l, at) \in Lease
           /\ Unclaimed(l, at).phase = "unclaimed"
           /\ Unclaimed(l, at).owner = NoOwner
           /\ Unclaimed(l, at).resources = {}
           /\ Unclaimed(l, at).generation = l.generation + 1
           /\ Unclaimed(l, at).released = at
<1>1. l.generation + 1 \in 0..MaxGeneration /\ at \in Nat
  BY RegistryConstants DEF Lease, Instant
<1>2. QED
  BY <1>1 DEF Unclaimed, Lease

\* A grant is a lease of its owner, scope and project at generation 1.
LEMMA GrantedFields ==
    ASSUME NEW o \in Owner, NEW R \in SUBSET Resource, NEW p \in Project,
           NEW at \in Instant, MaxGeneration > 0
    PROVE  /\ Granted(o, R, p, at) \in Lease
           /\ Granted(o, R, p, at).phase = "active"
           /\ Granted(o, R, p, at).owner = o
           /\ Granted(o, R, p, at).resources = R
           /\ Granted(o, R, p, at).project = p
           /\ Granted(o, R, p, at).generation = 1
           /\ Granted(o, R, p, at).deadline = at + Ttl
<1>1. 1 \in 0..MaxGeneration /\ at + Ttl \in Nat /\ 0 \in Nat
  BY RegistryConstants DEF Instant
<1>2. QED
  BY <1>1 DEF Granted, Lease

\* The absent lease is well typed and holds nothing.
LEMMA NoLeaseFields ==
    /\ NoLease \in Lease
    /\ NoLease.phase = "none"
    /\ NoLease.resources = {}
    /\ \A now \in Instant : Consistent(NoLease, now)
<1>1. 0 \in 0..MaxGeneration /\ 0 \in Nat
  BY RegistryConstants
<1>2. /\ NoLease \in Lease
      /\ NoLease.phase = "none"
      /\ NoLease.resources = {}
  BY <1>1 DEF NoLease, Lease
<1>3. QED
  BY <1>2 DEF Consistent

\* Consistency only gets weaker as time is observed to pass.
LEMMA ConsistentLater ==
    ASSUME NEW l, NEW now \in Instant, NEW at \in Instant, now <= at,
           Consistent(l, now)
    PROVE  Consistent(l, at)
  BY RegistryConstants DEF Consistent, Instant, Lease

(***************************************************************************)
(* The changes a request makes to its candidate                            *)
(***************************************************************************)

\* A later observation keeps the registry sound.
LEMMA SoundLater ==
    ASSUME NEW ls, NEW ix, NEW n, NEW now, NEW at \in Instant,
           Sound(ls, ix, n, now), now <= at
    PROVE  Sound(ls, ix, n, at)
<1>1. \A id \in LeaseId : Consistent(ls[id], at)
  BY ConsistentLater DEF Sound
<1>2. QED
  BY <1>1 DEF Sound

\* Leases may change in place as long as each keeps the outputs it holds.
LEMMA SoundInPlace ==
    ASSUME NEW ls, NEW ix, NEW n, NEW now, NEW at \in Instant,
           Sound(ls, ix, n, now),
           NEW new \in [LeaseId -> Lease],
           \A id \in LeaseId : Consistent(new[id], at),
           \A id \in LeaseId : new[id].resources = ls[id].resources,
           \A id \in LeaseId : ls[id].phase = "none" => new[id].phase = "none"
    PROVE  Sound(new, ix, n, at)
<1>1. \A id \in LeaseId : id >= n => new[id].phase = "none"
  BY DEF Sound
<1>2. \A i, j \in LeaseId :
         i # j => new[i].resources \cap new[j].resources = {}
  BY DEF Sound
<1>3. \A r \in Resource : ix[r] = {id \in LeaseId : r \in new[id].resources}
  BY DEF Sound
<1>4. QED
  BY <1>1, <1>2, <1>3 DEF Sound

\* Purging forgets released leases only, which hold nothing.
LEMMA SoundPurged ==
    ASSUME NEW ls, NEW ix, NEW n, NEW at, Sound(ls, ix, n, at)
    PROVE  Sound(Purged(ls, at), ix, n, at)
<1>1. at \in Instant
  BY DEF Sound
<1>2. Purged(ls, at) \in [LeaseId -> Lease]
  BY NoLeaseFields DEF Purged, Sound
<1>3. ASSUME NEW id \in LeaseId
      PROVE  /\ Consistent(Purged(ls, at)[id], at)
             /\ Purged(ls, at)[id].resources = ls[id].resources
             /\ ls[id].phase = "none" => Purged(ls, at)[id].phase = "none"
  BY <1>1, NoLeaseFields DEF Purged, Sound, Consistent
<1>4. QED
  BY <1>1, <1>2, <1>3, SoundInPlace

\* A free set of outputs may be granted under the next id.
LEMMA SoundGranted ==
    ASSUME NEW ls, NEW ix, NEW n, NEW at, Sound(ls, ix, n, at), n \in LeaseId,
           NEW o \in Owner, o \in ThisProcess, NEW p \in Project,
           NEW R \in SUBSET Resource, R # {}, \A r \in R : ix[r] = {},
           MaxGeneration > 0
    PROVE  Sound([ls EXCEPT ![n] = Granted(o, R, p, at)],
                 WithIndexed(ix, n, R), n + 1, at)
<1> DEFINE new == [ls EXCEPT ![n] = Granted(o, R, p, at)]
<1>1. at \in Instant /\ ls \in [LeaseId -> Lease]
  BY DEF Sound
<1>2. /\ Granted(o, R, p, at) \in Lease
      /\ Granted(o, R, p, at).phase = "active"
      /\ Granted(o, R, p, at).owner = o
      /\ Granted(o, R, p, at).resources = R
      /\ Granted(o, R, p, at).project = p
      /\ Granted(o, R, p, at).deadline = at + Ttl
  BY <1>1, GrantedFields
<1>3. new \in [LeaseId -> Lease]
  BY <1>1, <1>2
<1>4. new[n] = Granted(o, R, p, at) /\ \A id \in LeaseId \ {n} : new[id] = ls[id]
  BY <1>1
<1>5. WithIndexed(ix, n, R) \in [Resource -> SUBSET LeaseId]
  BY DEF WithIndexed, Sound
<1>6. n + 1 \in 1..(MaxLease + 1)
  BY RegistryConstants DEF LeaseId
<1>7. Consistent(Granted(o, R, p, at), at)
  BY <1>1, <1>2, RegistryConstants DEF Consistent, Instant
<1>8. \A id \in LeaseId : Consistent(new[id], at)
  BY <1>4, <1>7 DEF Sound
<1>9. \A id \in LeaseId : id >= n + 1 => new[id].phase = "none"
  BY <1>4 DEF Sound, LeaseId
<1>10. ls[n].resources = {}
  <2>1. ls[n].phase = "none" /\ Consistent(ls[n], at)
    BY DEF Sound, LeaseId
  <2>2. ls[n] = NoLease
    BY <2>1 DEF Consistent
  <2>3. QED
    BY <2>2, NoLeaseFields
<1>11. \A id \in LeaseId : ls[id].resources \cap R = {}
  <2>1. SUFFICES ASSUME NEW id \in LeaseId, NEW r \in R, r \in ls[id].resources
                 PROVE  FALSE
    OBVIOUS
  <2>2. id \in ix[r]
    BY <2>1 DEF Sound
  <2>3. QED
    BY <2>2
<1>12. ASSUME NEW i \in LeaseId, NEW j \in LeaseId, i # j
       PROVE  new[i].resources \cap new[j].resources = {}
  <2>1. ls[i].resources \cap ls[j].resources = {}
    BY <1>12 DEF Sound
  <2>2. QED
    BY <1>2, <1>4, <1>11, <1>12, <2>1
<1>13. ASSUME NEW r \in Resource
       PROVE  WithIndexed(ix, n, R)[r] = {id \in LeaseId : r \in new[id].resources}
  <2>1. ix[r] = {id \in LeaseId : r \in ls[id].resources}
    BY DEF Sound
  <2>2. CASE r \in R
    BY <1>2, <1>4, <2>1, <2>2 DEF WithIndexed
  <2>3. CASE r \notin R
    BY <1>2, <1>4, <1>10, <2>1, <2>3 DEF WithIndexed
  <2>4. QED
    BY <2>2, <2>3
<1>14. QED
  BY <1>1, <1>3, <1>5, <1>6, <1>8, <1>9, <1>12, <1>13 DEF Sound

\* A lease gives up its outputs and its place in the index together.
LEMMA SoundReleased ==
    ASSUME NEW ls, NEW ix, NEW n, NEW at, Sound(ls, ix, n, at),
           NEW id \in LeaseId, ls[id].phase # "none",
           ls[id].generation < MaxGeneration
    PROVE  Sound([ls EXCEPT ![id] = Unclaimed(ls[id], at)],
                 WithoutIndexed(ix, id, ls[id].resources), n, at)
<1> DEFINE new == [ls EXCEPT ![id] = Unclaimed(ls[id], at)]
<1>1. at \in Instant /\ ls \in [LeaseId -> Lease]
  BY DEF Sound
<1>2. /\ Unclaimed(ls[id], at) \in Lease
      /\ Unclaimed(ls[id], at).phase = "unclaimed"
      /\ Unclaimed(ls[id], at).owner = NoOwner
      /\ Unclaimed(ls[id], at).resources = {}
  BY <1>1, UnclaimedFields
<1>3. new \in [LeaseId -> Lease]
  BY <1>1, <1>2
<1>4. /\ new[id] = Unclaimed(ls[id], at)
      /\ \A other \in LeaseId \ {id} : new[other] = ls[other]
  BY <1>1
<1>5. WithoutIndexed(ix, id, ls[id].resources) \in [Resource -> SUBSET LeaseId]
  BY DEF WithoutIndexed, Sound
<1>6. Consistent(Unclaimed(ls[id], at), at)
  BY <1>2 DEF Consistent
<1>7. \A other \in LeaseId : Consistent(new[other], at)
  BY <1>4, <1>6 DEF Sound
<1>8. \A other \in LeaseId : other >= n => new[other].phase = "none"
  BY <1>4 DEF Sound
<1>9. ASSUME NEW i \in LeaseId, NEW j \in LeaseId, i # j
      PROVE  new[i].resources \cap new[j].resources = {}
  <2>1. ls[i].resources \cap ls[j].resources = {}
    BY <1>9 DEF Sound
  <2>2. QED
    BY <1>2, <1>4, <2>1
<1>10. ASSUME NEW r \in Resource
       PROVE  WithoutIndexed(ix, id, ls[id].resources)[r]
                = {other \in LeaseId : r \in new[other].resources}
  <2>1. ix[r] = {other \in LeaseId : r \in ls[other].resources}
    BY DEF Sound
  <2>2. QED
    BY <1>2, <1>4, <2>1 DEF WithoutIndexed
<1>11. QED
  BY <1>1, <1>3, <1>5, <1>7, <1>8, <1>9, <1>10 DEF Sound

(***************************************************************************)
(* Every operation keeps the registry sound                                *)
(***************************************************************************)

\* What ChangeLease needs of the lease it writes.
LEMMA ChangeKeepsSound ==
    ASSUME SoundRegistry, NEW at \in Instant, lastNow <= at,
           NEW id \in LeaseId, leases[id].phase # "none",
           NEW l, Consistent(l, at), l.resources = leases[id].resources,
           ChangeLease(id, l, at)
    PROVE  SoundRegistry'
<1>1. leases' = [leases EXCEPT ![id] = l] /\ lastNow' = at
      /\ index' = index /\ nextId' = nextId
  BY DEF ChangeLease
<1>2. l \in Lease
  BY DEF Consistent
<1>3. Sound(leases, index, nextId, at)
  BY SoundLater DEF SoundRegistry
<1>4. leases' \in [LeaseId -> Lease]
  BY <1>1, <1>2 DEF SoundRegistry, Sound
<1>5. leases'[id] = l /\ \A other \in LeaseId \ {id} : leases'[other] = leases[other]
  BY <1>1 DEF SoundRegistry, Sound
<1>6. \A other \in LeaseId : Consistent(leases'[other], at)
  BY <1>3, <1>5 DEF Sound
<1>7. \A other \in LeaseId : /\ leases'[other].resources = leases[other].resources
                             /\ leases[other].phase = "none"
                                  => leases'[other].phase = "none"
  BY <1>5
<1>8. Sound(leases', index, nextId, at)
  BY <1>3, <1>4, <1>6, <1>7, SoundInPlace
<1>9. QED
  BY <1>1, <1>8 DEF SoundRegistry

\* What a grant needs of the candidate it starts from.
LEMMA AcquireKeepsSound ==
    ASSUME NEW ls, NEW ix, NEW at, Sound(ls, ix, nextId, at),
           NEW o \in Owner, NEW p \in Project,
           NEW R \in SUBSET Resource, R # {},
           AcquireFrom(ls, ix, o, R, p, at)
    PROVE  SoundRegistry'
<1>1. Sound(Purged(ls, at), ix, nextId, at)
  BY SoundPurged
<1>2. /\ o \in ThisProcess /\ nextId \in LeaseId /\ MaxGeneration > 0
      /\ \A r \in R : ix[r] = {}
      /\ leases' = [Purged(ls, at) EXCEPT ![nextId] = Granted(o, R, p, at)]
      /\ index' = WithIndexed(ix, nextId, R)
      /\ nextId' = nextId + 1
      /\ lastNow' = at
  BY DEF AcquireFrom
<1>3. Sound(leases', index', nextId + 1, at)
  BY <1>1, <1>2, SoundGranted
<1>4. QED
  BY <1>2, <1>3 DEF SoundRegistry

\* A recovery leaves an active lease of the same owner and scope.
LEMMA RecoverKeepsSound ==
    ASSUME SoundRegistry, NEW at \in Instant, lastNow <= at,
           NEW id \in LeaseId, NEW o \in Owner, RecoverInPlace(id, o, at)
    PROVE  SoundRegistry'
<1>1. leases[id] \in Lease /\ Consistent(leases[id], lastNow)
  BY DEF SoundRegistry, Sound
<1>2. /\ o \in ThisProcess
      /\ Active(id) \/ leases[id].phase = "orphaned"
      /\ BeforeRecovery(id).generation < MaxGeneration
      /\ ChangeLease(id, Activated(BeforeRecovery(id), o, at), at)
  BY DEF RecoverInPlace, ExpiredBy
<1>3. /\ BeforeRecovery(id) \in Lease
      /\ BeforeRecovery(id).resources = leases[id].resources
      /\ BeforeRecovery(id).project = leases[id].project
  <2>1. CASE Active(id)
    <3>1. BeforeRecovery(id) = Orphaned(leases[id])
      BY <2>1 DEF BeforeRecovery
    <3>2. Orphaned(leases[id]).generation = leases[id].generation + 1
      BY DEF Orphaned
    <3>3. leases[id].generation < MaxGeneration
      BY <1>1, <1>2, <3>1, <3>2, RegistryConstants DEF Lease
    <3>4. QED
      BY <1>1, <3>1, <3>3, OrphanedFields
  <2>2. CASE ~Active(id)
    BY <1>1, <2>2 DEF BeforeRecovery
  <2>3. QED
    BY <2>1, <2>2
<1>4. /\ Activated(BeforeRecovery(id), o, at) \in Lease
      /\ Activated(BeforeRecovery(id), o, at).phase = "active"
      /\ Activated(BeforeRecovery(id), o, at).owner = o
      /\ Activated(BeforeRecovery(id), o, at).resources = leases[id].resources
      /\ Activated(BeforeRecovery(id), o, at).project = leases[id].project
      /\ Activated(BeforeRecovery(id), o, at).deadline = at + Ttl
  BY <1>2, <1>3, ActivatedFields
<1>5. leases[id].resources # {} /\ leases[id].project \in Project
      /\ leases[id].phase # "none"
  BY <1>1, <1>2 DEF Consistent, Active
<1>6. Consistent(Activated(BeforeRecovery(id), o, at), at)
  BY <1>2, <1>4, <1>5, RegistryConstants DEF Consistent, Instant
<1>7. QED
  BY <1>2, <1>4, <1>5, <1>6, ChangeKeepsSound

\* Renewal, recovery and transfer: the lease stays held, by its new owner.
LEMMA ActivateKeepsSound ==
    ASSUME SoundRegistry, NEW at \in Instant, lastNow <= at,
           NEW id \in LeaseId, NEW o \in Owner, o \in ThisProcess, Held(id),
           leases[id].generation < MaxGeneration,
           ChangeLease(id, Activated(leases[id], o, at), at)
    PROVE  SoundRegistry'
<1>1. leases[id] \in Lease /\ Consistent(leases[id], lastNow)
  BY DEF SoundRegistry, Sound
<1>2. /\ Activated(leases[id], o, at) \in Lease
      /\ Activated(leases[id], o, at).phase = "active"
      /\ Activated(leases[id], o, at).owner = o
      /\ Activated(leases[id], o, at).resources = leases[id].resources
      /\ Activated(leases[id], o, at).project = leases[id].project
      /\ Activated(leases[id], o, at).deadline = at + Ttl
  BY <1>1, ActivatedFields
<1>3. leases[id].resources # {} /\ leases[id].project \in Project
      /\ leases[id].phase # "none"
  BY <1>1 DEF Consistent, Held
<1>4. Consistent(Activated(leases[id], o, at), at)
  BY <1>2, <1>3, RegistryConstants DEF Consistent, Instant
<1>5. QED
  BY <1>2, <1>3, <1>4, ChangeKeepsSound

\* An active lease becomes an orphan of the same owner and scope.
LEMMA OrphanedConsistent ==
    ASSUME NEW l, NEW now \in Instant, Consistent(l, now),
           l.phase = "active", l.generation < MaxGeneration
    PROVE  /\ Consistent(Orphaned(l), now)
           /\ Orphaned(l).resources = l.resources
           /\ Orphaned(l) \in Lease
<1>1. l \in Lease
  BY DEF Consistent
<1>2. /\ Orphaned(l) \in Lease
      /\ Orphaned(l).phase = "orphaned"
      /\ Orphaned(l).owner = l.owner
      /\ Orphaned(l).resources = l.resources
      /\ Orphaned(l).project = l.project
      /\ Orphaned(l).deadline = 0
  BY <1>1, OrphanedFields
<1>3. QED
  BY <1>2, RegistryConstants DEF Consistent, Instant

\* Retiring an owner or a project orphans each of its leases in place.
LEMMA OrphanAllKeepsSound ==
    ASSUME SoundRegistry, NEW at \in Instant, lastNow <= at,
           NEW ids \in SUBSET LeaseId, \A id \in ids : Active(id),
           OrphanAll(ids, at)
    PROVE  SoundRegistry'
<1>1. Sound(leases, index, nextId, at)
  BY SoundLater DEF SoundRegistry
<1>2. ASSUME NEW id \in ids
      PROVE  /\ Consistent(Orphaned(leases[id]), at)
             /\ Orphaned(leases[id]).resources = leases[id].resources
             /\ Orphaned(leases[id]) \in Lease
  <2>1. Consistent(leases[id], at) /\ leases[id].phase = "active"
        /\ leases[id].generation < MaxGeneration
    BY <1>1 DEF Sound, Active, OrphanAll
  <2>2. QED
    BY <2>1, OrphanedConsistent
<1>3. leases' = [id \in LeaseId |->
                   IF id \in ids THEN Orphaned(leases[id]) ELSE leases[id]]
      /\ lastNow' = at /\ index' = index /\ nextId' = nextId
  BY DEF OrphanAll
<1>4. leases' \in [LeaseId -> Lease]
  BY <1>1, <1>2, <1>3 DEF Sound
<1>5. ASSUME NEW id \in LeaseId
      PROVE  /\ Consistent(leases'[id], at)
             /\ leases'[id].resources = leases[id].resources
             /\ leases[id].phase = "none" => leases'[id].phase = "none"
  BY <1>1, <1>2, <1>3 DEF Sound, Active
<1>6. Sound(leases', index, nextId, at)
  BY <1>1, <1>4, <1>5, SoundInPlace
<1>7. QED
  BY <1>3, <1>6 DEF SoundRegistry

\* A release takes the lease's outputs from its record and from the index alike.
LEMMA RelinquishKeepsSound ==
    ASSUME SoundRegistry, NEW at \in Instant, lastNow <= at,
           NEW id \in LeaseId, NEW o \in Owner, NEW g \in 0..MaxGeneration,
           RelinquishOutputLease(id, o, g, at)
    PROVE  SoundRegistry'
<1>1. Sound(leases, index, nextId, at)
  BY SoundLater DEF SoundRegistry
<1>2. /\ leases[id].phase # "none" /\ leases[id].generation < MaxGeneration
      /\ leases' = [leases EXCEPT ![id] = Unclaimed(leases[id], at)]
      /\ index' = WithoutIndexed(index, id, leases[id].resources)
      /\ lastNow' = at /\ nextId' = nextId
  BY DEF RelinquishOutputLease, AtGeneration, Held
<1>3. QED
  BY <1>1, <1>2, SoundReleased DEF SoundRegistry

\* The old lease is released and its scope granted again: two sound changes.
LEMMA ReplaceKeepsSound ==
    ASSUME SoundRegistry, NEW at \in Instant, lastNow <= at,
           NEW id \in LeaseId, NEW o \in Owner, NEW g \in 0..MaxGeneration,
           NEW p \in Project, ReplacePreviousProject(id, o, g, p, at)
    PROVE  SoundRegistry'
<1> DEFINE ls == [leases EXCEPT ![id] = Unclaimed(leases[id], at)]
           ix == WithoutIndexed(index, id, leases[id].resources)
<1>1. Sound(leases, index, nextId, at)
  BY SoundLater DEF SoundRegistry
<1>2. leases[id].phase # "none" /\ leases[id].generation < MaxGeneration
      /\ AcquireFrom(ls, ix, o, leases[id].resources, p, at)
  BY DEF ReplacePreviousProject, AtGeneration, Held
<1>3. leases[id].resources \in SUBSET Resource /\ leases[id].resources # {}
  BY DEF SoundRegistry, Sound, Lease, ReplacePreviousProject
<1>4. Sound(ls, ix, nextId, at)
  BY <1>1, <1>2, SoundReleased
<1>5. QED
  BY <1>2, <1>3, <1>4, AcquireKeepsSound

\* Every request that names a lease keeps the registry sound.
LEMMA RequestNamedKeepsSound ==
    ASSUME SoundRegistry, NEW at \in Instant, lastNow <= at,
           NEW id \in LeaseId, NEW o \in Owner, NEW g \in 0..MaxGeneration,
           RequestNamed(id, o, g, at)
    PROVE  SoundRegistry'
<1>1. leases[id] \in Lease /\ Consistent(leases[id], lastNow)
  BY DEF SoundRegistry, Sound
<1>2. Held(id) => leases[id].owner \in ThisProcess
  BY <1>1 DEF Consistent, Held
<1>3. CASE Renew(id, o, g, at)
  <2>1. /\ o \in ThisProcess /\ Held(id)
        /\ leases[id].generation < MaxGeneration
        /\ ChangeLease(id, Activated(leases[id], o, at), at)
    BY <1>2, <1>3 DEF Renew, AtGeneration, Owns, Active, Held
  <2>2. QED
    BY <2>1, ActivateKeepsSound
<1>4. CASE FindExpired(id, g, at)
  <2>1. Consistent(leases[id], at) /\ leases[id].phase = "active"
        /\ leases[id].generation < MaxGeneration
        /\ ChangeLease(id, Orphaned(leases[id]), at)
    BY <1>1, <1>4, ConsistentLater
       DEF FindExpired, AtGeneration, ExpiredBy, Active, SoundRegistry, Sound
  <2>2. Consistent(Orphaned(leases[id]), at)
        /\ Orphaned(leases[id]).resources = leases[id].resources
    BY <2>1, OrphanedConsistent
  <2>3. QED
    BY <2>1, <2>2, ChangeKeepsSound
<1>5. CASE Recover(id, o, g, at)
  <2>1. /\ o \in ThisProcess /\ Held(id)
        /\ leases[id].generation < MaxGeneration
        /\ ChangeLease(id, Activated(leases[id], o, at), at)
    BY <1>2, <1>5 DEF Recover, AtGeneration, Owns, Held
  <2>2. QED
    BY <2>1, ActivateKeepsSound
<1>6. CASE ForceTransfer(id, o, g, at)
  <2>1. /\ o \in ThisProcess /\ Held(id)
        /\ leases[id].generation < MaxGeneration
        /\ ChangeLease(id, Activated(leases[id], o, at), at)
    BY <1>6 DEF ForceTransfer, AtGeneration
  <2>2. QED
    BY <2>1, ActivateKeepsSound
<1>7. CASE RelinquishOutputLease(id, o, g, at)
  BY <1>7, RelinquishKeepsSound
<1>8. ASSUME NEW p \in Project, DisplayRecover(id, o, g, p, at)
      PROVE  SoundRegistry'
  BY <1>8, RecoverKeepsSound DEF DisplayRecover
<1>9. ASSUME NEW p \in Project, ReplacePreviousProject(id, o, g, p, at)
      PROVE  SoundRegistry'
  BY <1>9, ReplaceKeepsSound
<1>10. QED
  BY <1>3, <1>4, <1>5, <1>6, <1>7, <1>8, <1>9 DEF RequestNamed

\* Every request for a scope (Enable, Acquire) keeps the registry sound.
LEMMA RequestForKeepsSound ==
    ASSUME SoundRegistry, NEW at \in Instant, lastNow <= at,
           NEW o \in Owner, NEW p \in Project, RequestFor(o, p, at)
    PROVE  SoundRegistry'
<1>1. Sound(leases, index, nextId, at)
  BY SoundLater DEF SoundRegistry
<1>2. CASE EnableAcquire(o, p, at)
  <2>1. AcquireFrom(leases, index, o, Both, p, at)
    BY <1>2 DEF EnableAcquire
  <2>2. Both \in SUBSET Resource /\ Both # {}
    BY DEF Both, Resource
  <2>3. QED
    BY <1>1, <2>1, <2>2, AcquireKeepsSound
<1>3. ASSUME NEW R \in (SUBSET Resource) \ {{}}, Acquire(o, R, p, at)
      PROVE  SoundRegistry'
  <2>1. R \in SUBSET Resource /\ R # {}
    BY <1>3
  <2>2. AcquireFrom(leases, index, o, R, p, at)
    BY <1>3 DEF Acquire
  <2>3. QED
    BY <1>1, <2>1, <2>2, AcquireKeepsSound
<1>4. ASSUME NEW id \in LeaseId, EnableRecover(id, o, p, at)
      PROVE  SoundRegistry'
  BY <1>4, RecoverKeepsSound DEF EnableRecover
<1>5. QED
  BY <1>2, <1>3, <1>4 DEF RequestFor

\* The empty registry is sound.
LEMMA InitSound == Init => SoundRegistry
<1>1. SUFFICES ASSUME Init PROVE SoundRegistry
  OBVIOUS
<1>2. 0 \in Instant /\ 1 \in 1..(MaxLease + 1)
  BY RegistryConstants DEF Instant
<1>3. leases \in [LeaseId -> Lease] /\ \A id \in LeaseId : leases[id] = NoLease
  BY <1>1, NoLeaseFields DEF Init
<1>4. index \in [Resource -> SUBSET LeaseId] /\ \A r \in Resource : index[r] = {}
  BY <1>1 DEF Init
<1>5. QED
  BY <1>1, <1>2, <1>3, <1>4, NoLeaseFields DEF Init, Sound, SoundRegistry

\* Every step keeps the registry sound.
LEMMA NextSound == SoundRegistry /\ [Next]_vars => SoundRegistry'
<1>1. SUFFICES ASSUME SoundRegistry, [Next]_vars PROVE SoundRegistry'
  OBVIOUS
<1>2. CASE UNCHANGED vars
  BY <1>1, <1>2 DEF SoundRegistry, vars
<1>3. CASE Next
  <2>1. PICK at \in lastNow..MaxClock :
           \/ \E id \in LeaseId, o \in Owner, g \in 0..MaxGeneration :
                 RequestNamed(id, o, g, at)
           \/ \E o \in Owner, p \in Project : RequestFor(o, p, at)
           \/ \E o \in Owner : RetireOwner(o, at)
           \/ \E p \in Project : ProjectOrphan(p, at)
           \/ Observe(at)
    BY <1>3 DEF Next
  <2>2. at \in Instant /\ lastNow <= at
    BY <1>1, RegistryConstants DEF SoundRegistry, Sound, Instant
  <2>3. ASSUME NEW o \in Owner, RetireOwner(o, at)
        PROVE  SoundRegistry'
    BY <1>1, <2>2, <2>3, OrphanAllKeepsSound DEF RetireOwner
  <2>4. ASSUME NEW p \in Project, ProjectOrphan(p, at)
        PROVE  SoundRegistry'
    <3>1. PICK ids \in SUBSET LeaseId :
             OrphanAll(ids, at) /\ \A id \in ids : Active(id)
      BY <2>4 DEF ProjectOrphan
    <3>2. QED
      BY <1>1, <2>2, <3>1, OrphanAllKeepsSound
  <2>5. CASE Observe(at)
    BY <1>1, <2>2, <2>5, SoundLater DEF Observe, SoundRegistry
  <2>6. QED
    BY <1>1, <2>1, <2>2, <2>3, <2>4, <2>5, RequestNamedKeepsSound,
       RequestForKeepsSound
<1>4. QED
  BY <1>1, <1>2, <1>3

\* The registry is sound in every reachable state.
THEOREM RegistrySound == Spec => []SoundRegistry
  BY InitSound, NextSound, PTL DEF Spec

\* Every record stays consistent with its phase, and every variable in its type.
THEOREM RegistryTypeCorrect == Spec => []RegistryTypeOK
<1>1. SoundRegistry => RegistryTypeOK
  BY DEF SoundRegistry, Sound, RegistryTypeOK
<1>2. QED
  BY <1>1, RegistrySound, PTL

\* No output is ever held by two leases.
THEOREM NoOutputHeldTwice == Spec => []HeldOnce
<1>1. SoundRegistry => HeldOnce
  BY DEF SoundRegistry, Sound, HeldOnce
<1>2. QED
  BY <1>1, RegistrySound, PTL

\* The index the registry decides by is always the truth about its leases.
THEOREM IndexTruthful == Spec => []IndexExact
<1>1. SoundRegistry => IndexExact
  BY DEF SoundRegistry, Sound, IndexExact
<1>2. QED
  BY <1>1, RegistrySound, PTL

(***************************************************************************)
(* What a change may do to one lease                                       *)
(***************************************************************************)

\* The cases of GenerationsFence and of ExpiryIsFinal for one lease.
Fenced(id) ==
    leases'[id] # leases[id] =>
        \/ id = nextId
        \/ /\ leases[id].phase # "none"
           /\ leases'[id].generation > leases[id].generation
        \/ /\ leases[id].phase = "unclaimed"
           /\ leases'[id] = NoLease

ExpiryHonoured(id) ==
    ExpiredBy(id, lastNow') /\ leases'[id] # leases[id] =>
        \/ leases'[id].phase \in {"orphaned", "unclaimed"}
        \/ /\ leases'[id].owner = leases[id].owner
           /\ leases'[id].project = leases[id].project
           /\ leases'[id].generation = leases[id].generation + 2

\* A change of one lease respects both if the written record does.
LEMMA ChangeRespects ==
    ASSUME SoundRegistry, NEW at, NEW id \in LeaseId, NEW l,
           ChangeLease(id, l, at), leases[id].phase # "none",
           l.generation > leases[id].generation,
           ExpiredBy(id, at) =>
              \/ l.phase = "orphaned"
              \/ /\ l.owner = leases[id].owner
                 /\ l.project = leases[id].project
                 /\ l.generation = leases[id].generation + 2,
           NEW other \in LeaseId
    PROVE  Fenced(other) /\ ExpiryHonoured(other)
<1>1. /\ leases'[id] = l /\ lastNow' = at
      /\ other # id => leases'[other] = leases[other]
  BY DEF ChangeLease, SoundRegistry, Sound
<1>2. QED
  BY <1>1 DEF Fenced, ExpiryHonoured

\* A grant writes only the next id and forgets only released leases.
LEMMA AcquireRespects ==
    ASSUME NEW ls, NEW ix, NEW at, Sound(ls, ix, nextId, at),
           NEW o, NEW p, NEW R, AcquireFrom(ls, ix, o, R, p, at),
           NEW other \in LeaseId
    PROVE  /\ lastNow' = at
           /\ \/ other = nextId /\ ls[other].phase = "none"
              \/ leases'[other] = ls[other]
              \/ /\ ls[other].phase = "unclaimed"
                 /\ at >= ls[other].released + Retention
                 /\ leases'[other] = NoLease
<1>1. lastNow' = at /\ nextId \in LeaseId
      /\ leases' = [Purged(ls, at) EXCEPT ![nextId] = Granted(o, R, p, at)]
  BY DEF AcquireFrom
<1>2. ls[nextId].phase = "none"
  BY <1>1 DEF Sound, LeaseId
<1>3. other # nextId => leases'[other] = Purged(ls, at)[other]
  BY <1>1 DEF Purged
<1>4. \/ Purged(ls, at)[other] = ls[other]
      \/ /\ ls[other].phase = "unclaimed"
         /\ at >= ls[other].released + Retention
         /\ Purged(ls, at)[other] = NoLease
  BY DEF Purged
<1>5. QED
  BY <1>1, <1>2, <1>3, <1>4

\* Orphaning advances every generation it touches and grants nothing.
LEMMA OrphanAllRespects ==
    ASSUME SoundRegistry, NEW at, NEW ids \in SUBSET LeaseId,
           \A id \in ids : Active(id), OrphanAll(ids, at),
           NEW other \in LeaseId
    PROVE  Fenced(other) /\ ExpiryHonoured(other)
<1>1. leases'[other] = IF other \in ids THEN Orphaned(leases[other])
                                        ELSE leases[other]
  BY DEF OrphanAll
<1>2. leases[other] \in Lease
  BY DEF SoundRegistry, Sound
<1>3. CASE other \in ids
  <2>1. leases[other].generation < MaxGeneration /\ leases[other].phase # "none"
    BY <1>3 DEF OrphanAll, Active
  <2>2. /\ Orphaned(leases[other]).phase = "orphaned"
        /\ Orphaned(leases[other]).generation = leases[other].generation + 1
    BY <1>2, <2>1, OrphanedFields
  <2>3. leases[other].generation + 1 > leases[other].generation
    BY <1>2 DEF Lease
  <2>4. QED
    BY <1>1, <1>3, <2>1, <2>2, <2>3 DEF Fenced, ExpiryHonoured
<1>4. CASE other \notin ids
  BY <1>1, <1>4 DEF Fenced, ExpiryHonoured
<1>5. QED
  BY <1>3, <1>4

\* Renewal, recovery and transfer of an unexpired or orphaned lease.
LEMMA ActivateRespects ==
    ASSUME SoundRegistry, NEW at \in Instant, NEW id \in LeaseId,
           NEW o \in Owner, leases[id].phase # "none",
           leases[id].generation < MaxGeneration, ~ExpiredBy(id, at),
           ChangeLease(id, Activated(leases[id], o, at), at),
           NEW other \in LeaseId
    PROVE  Fenced(other) /\ ExpiryHonoured(other)
<1>1. leases[id] \in Lease
  BY DEF SoundRegistry, Sound
<1>2. Activated(leases[id], o, at).generation = leases[id].generation + 1
  BY <1>1, ActivatedFields
<1>3. leases[id].generation + 1 > leases[id].generation
  BY <1>1 DEF Lease
<1>4. QED
  BY <1>2, <1>3, ChangeRespects

\* A recovery in place keeps owner and project; an expired lease pays two
\* generations for it.
LEMMA RecoverRespects ==
    ASSUME SoundRegistry, NEW at \in Instant, NEW id \in LeaseId,
           NEW o \in Owner, RecoverInPlace(id, o, at),
           NEW other \in LeaseId
    PROVE  Fenced(other) /\ ExpiryHonoured(other)
<1>1. leases[id] \in Lease
  BY DEF SoundRegistry, Sound
<1>2. /\ ExpiredBy(id, at) \/ leases[id].phase = "orphaned"
      /\ BeforeRecovery(id).generation < MaxGeneration
      /\ ChangeLease(id, Activated(BeforeRecovery(id), o, at), at)
  BY DEF RecoverInPlace
<1>3. CASE Active(id)
  <2>1. BeforeRecovery(id) = Orphaned(leases[id])
    BY <1>3 DEF BeforeRecovery
  <2>2. Orphaned(leases[id]).generation = leases[id].generation + 1
    BY DEF Orphaned
  <2>3. leases[id].generation < MaxGeneration
    BY <1>1, <1>2, <2>1, <2>2, RegistryConstants DEF Lease
  <2>4. /\ BeforeRecovery(id) \in Lease
        /\ BeforeRecovery(id).generation = leases[id].generation + 1
        /\ BeforeRecovery(id).project = leases[id].project
    BY <1>1, <2>1, <2>3, OrphanedFields
  <2>5. /\ Activated(BeforeRecovery(id), o, at).generation
             = BeforeRecovery(id).generation + 1
        /\ Activated(BeforeRecovery(id), o, at).owner = o
        /\ Activated(BeforeRecovery(id), o, at).project
             = BeforeRecovery(id).project
    BY <1>2, <2>4, ActivatedFields
  <2>6. /\ Activated(BeforeRecovery(id), o, at).generation
             = leases[id].generation + 2
        /\ leases[id].generation + 2 > leases[id].generation
    BY <1>1, <2>4, <2>5 DEF Lease
  <2>7. leases[id].owner = o
    BY DEF RecoverInPlace, Owns
  <2>8. leases[id].phase # "none"
    BY <1>3 DEF Active
  <2>9. QED
    BY <1>2, <2>4, <2>5, <2>6, <2>7, <2>8, ChangeRespects
<1>4. CASE ~Active(id)
  <2>1. /\ BeforeRecovery(id) = leases[id] /\ leases[id].phase = "orphaned"
        /\ ~ExpiredBy(id, at)
    BY <1>2, <1>4 DEF BeforeRecovery, ExpiredBy
  <2>2. QED
    BY <1>2, <2>1, ActivateRespects
<1>5. QED
  BY <1>3, <1>4

\* A release advances the generation of the lease it releases.
LEMMA ReleaseRespects ==
    ASSUME SoundRegistry, NEW at \in Instant, NEW id \in LeaseId,
           leases[id].phase # "none", leases[id].generation < MaxGeneration
    PROVE  /\ Unclaimed(leases[id], at).generation > leases[id].generation
           /\ Unclaimed(leases[id], at).phase = "unclaimed"
           /\ Unclaimed(leases[id], at).released = at
<1>1. leases[id] \in Lease
  BY DEF SoundRegistry, Sound
<1>2. /\ Unclaimed(leases[id], at).generation = leases[id].generation + 1
      /\ Unclaimed(leases[id], at).phase = "unclaimed"
      /\ Unclaimed(leases[id], at).released = at
  BY <1>1, UnclaimedFields
<1>3. QED
  BY <1>1, <1>2 DEF Lease

\* Every request that names a lease respects generations and expiry.
LEMMA RequestNamedRespects ==
    ASSUME SoundRegistry, NEW at \in Instant, lastNow <= at,
           NEW id \in LeaseId, NEW o \in Owner, NEW g \in 0..MaxGeneration,
           RequestNamed(id, o, g, at), NEW other \in LeaseId
    PROVE  Fenced(other) /\ ExpiryHonoured(other)
<1>1. leases[id] \in Lease /\ leases \in [LeaseId -> Lease]
  BY DEF SoundRegistry, Sound
<1>2. CASE Renew(id, o, g, at)
  <2>1. /\ leases[id].phase # "none" /\ leases[id].generation < MaxGeneration
        /\ ~ExpiredBy(id, at)
        /\ ChangeLease(id, Activated(leases[id], o, at), at)
    BY <1>2 DEF Renew, AtGeneration, Active
  <2>2. QED
    BY <2>1, ActivateRespects
<1>3. CASE FindExpired(id, g, at)
  <2>1. /\ leases[id].phase # "none" /\ leases[id].generation < MaxGeneration
        /\ ChangeLease(id, Orphaned(leases[id]), at)
    BY <1>3 DEF FindExpired, AtGeneration, ExpiredBy, Active
  <2>2. /\ Orphaned(leases[id]).phase = "orphaned"
        /\ Orphaned(leases[id]).generation = leases[id].generation + 1
        /\ leases[id].generation + 1 > leases[id].generation
    BY <1>1, <2>1, OrphanedFields DEF Lease
  <2>3. QED
    BY <2>1, <2>2, ChangeRespects
<1>4. CASE Recover(id, o, g, at)
  <2>1. /\ leases[id].phase # "none" /\ leases[id].generation < MaxGeneration
        /\ ~ExpiredBy(id, at)
        /\ ChangeLease(id, Activated(leases[id], o, at), at)
    BY <1>4 DEF Recover, AtGeneration, ExpiredBy, Active
  <2>2. QED
    BY <2>1, ActivateRespects
<1>5. CASE ForceTransfer(id, o, g, at)
  <2>1. /\ leases[id].phase # "none" /\ leases[id].generation < MaxGeneration
        /\ ~ExpiredBy(id, at)
        /\ ChangeLease(id, Activated(leases[id], o, at), at)
    BY <1>5 DEF ForceTransfer, AtGeneration, Held
  <2>2. QED
    BY <2>1, ActivateRespects
<1>6. CASE RelinquishOutputLease(id, o, g, at)
  <2>1. /\ leases[id].phase # "none" /\ leases[id].generation < MaxGeneration
        /\ leases' = [leases EXCEPT ![id] = Unclaimed(leases[id], at)]
    BY <1>6 DEF RelinquishOutputLease, AtGeneration, Held
  <2>2. leases'[other] = IF other = id THEN Unclaimed(leases[id], at)
                                       ELSE leases[other]
    BY <1>1, <2>1
  <2>3. QED
    BY <2>1, <2>2, ReleaseRespects DEF Fenced, ExpiryHonoured
<1>7. ASSUME NEW p \in Project, DisplayRecover(id, o, g, p, at)
      PROVE  Fenced(other) /\ ExpiryHonoured(other)
  BY <1>7, RecoverRespects DEF DisplayRecover
<1>8. ASSUME NEW p \in Project, ReplacePreviousProject(id, o, g, p, at)
      PROVE  Fenced(other) /\ ExpiryHonoured(other)
  <2> DEFINE ls == [leases EXCEPT ![id] = Unclaimed(leases[id], at)]
             ix == WithoutIndexed(index, id, leases[id].resources)
  <2>1. Sound(leases, index, nextId, at)
    BY SoundLater DEF SoundRegistry
  <2>2. leases[id].phase # "none" /\ leases[id].generation < MaxGeneration
        /\ AcquireFrom(ls, ix, o, leases[id].resources, p, at)
    BY <1>8 DEF ReplacePreviousProject, AtGeneration, Held
  <2>3. Sound(ls, ix, nextId, at)
    BY <2>1, <2>2, SoundReleased
  <2>4. \/ other = nextId
        \/ leases'[other] = ls[other]
        \/ /\ ls[other].phase = "unclaimed"
           /\ at >= ls[other].released + Retention
           /\ leases'[other] = NoLease
    BY <2>2, <2>3, AcquireRespects
  <2>5. nextId \in LeaseId /\ nextId # id
    BY <2>2 DEF AcquireFrom, SoundRegistry, Sound, LeaseId
  <2>6. /\ ls[id] = Unclaimed(leases[id], at)
        /\ other # id => ls[other] = leases[other]
    BY <1>1
  <2>7. /\ ls[id].generation > leases[id].generation
        /\ ls[id].phase = "unclaimed"
        /\ ls[id].released = at
    BY <2>2, <2>6, ReleaseRespects
  <2>8. CASE other = id
    <3>1. ~(at >= ls[other].released + Retention)
      BY <2>7, <2>8, RegistryConstants DEF Instant
    <3>2. QED
      BY <2>2, <2>4, <2>5, <2>7, <2>8, <3>1 DEF Fenced, ExpiryHonoured
  <2>9. CASE other # id
    <3>1. other = nextId => ~ExpiredBy(other, lastNow')
      BY DEF SoundRegistry, Sound, ExpiredBy, Active
    <3>2. QED
      BY <2>4, <2>6, <2>9, <3>1, NoLeaseFields
         DEF Fenced, ExpiryHonoured, ExpiredBy, Active
  <2>10. QED
    BY <2>8, <2>9
<1>9. QED
  BY <1>2, <1>3, <1>4, <1>5, <1>6, <1>7, <1>8 DEF RequestNamed

\* A grant alone, by Acquire or by Enable.
LEMMA GrantRespects ==
    ASSUME SoundRegistry, NEW at \in Instant, lastNow <= at,
           NEW o, NEW p, NEW R, AcquireFrom(leases, index, o, R, p, at),
           NEW other \in LeaseId
    PROVE  Fenced(other) /\ ExpiryHonoured(other)
<1>1. Sound(leases, index, nextId, at)
  BY SoundLater DEF SoundRegistry
<1>2. \/ other = nextId /\ leases[other].phase = "none"
      \/ leases'[other] = leases[other]
      \/ leases[other].phase = "unclaimed" /\ leases'[other] = NoLease
  BY <1>1, AcquireRespects
<1>3. QED
  BY <1>2 DEF Fenced, ExpiryHonoured, ExpiredBy, Active

\* Every step of a sound registry respects generations and expiry.
LEMMA NextRespects ==
    ASSUME SoundRegistry, [Next]_vars, NEW other \in LeaseId
    PROVE  Fenced(other) /\ ExpiryHonoured(other)
<1>1. CASE UNCHANGED vars
  BY <1>1 DEF Fenced, ExpiryHonoured, vars
<1>2. CASE Next
  <2>1. PICK at \in lastNow..MaxClock :
           \/ \E id \in LeaseId, o \in Owner, g \in 0..MaxGeneration :
                 RequestNamed(id, o, g, at)
           \/ \E o \in Owner, p \in Project : RequestFor(o, p, at)
           \/ \E o \in Owner : RetireOwner(o, at)
           \/ \E p \in Project : ProjectOrphan(p, at)
           \/ Observe(at)
    BY <1>2 DEF Next
  <2>2. at \in Instant /\ lastNow <= at
    BY RegistryConstants DEF SoundRegistry, Sound, Instant
  <2>3. ASSUME NEW o \in Owner, NEW p \in Project, RequestFor(o, p, at)
        PROVE  Fenced(other) /\ ExpiryHonoured(other)
    <3>1. CASE EnableAcquire(o, p, at)
      BY <2>2, <3>1, GrantRespects DEF EnableAcquire
    <3>2. ASSUME NEW R \in (SUBSET Resource) \ {{}}, Acquire(o, R, p, at)
          PROVE  Fenced(other) /\ ExpiryHonoured(other)
      BY <2>2, <3>2, GrantRespects DEF Acquire
    <3>3. ASSUME NEW id \in LeaseId, EnableRecover(id, o, p, at)
          PROVE  Fenced(other) /\ ExpiryHonoured(other)
      BY <2>2, <3>3, RecoverRespects DEF EnableRecover
    <3>4. QED
      BY <2>3, <3>1, <3>2, <3>3 DEF RequestFor
  <2>4. ASSUME NEW o \in Owner, RetireOwner(o, at)
        PROVE  Fenced(other) /\ ExpiryHonoured(other)
    BY <2>4, OrphanAllRespects DEF RetireOwner
  <2>5. ASSUME NEW p \in Project, ProjectOrphan(p, at)
        PROVE  Fenced(other) /\ ExpiryHonoured(other)
    <3>1. PICK ids \in SUBSET LeaseId :
             OrphanAll(ids, at) /\ \A id \in ids : Active(id)
      BY <2>5 DEF ProjectOrphan
    <3>2. QED
      BY <3>1, OrphanAllRespects
  <2>6. CASE Observe(at)
    BY <2>6 DEF Observe, Fenced, ExpiryHonoured
  <2>7. QED
    BY <2>1, <2>2, <2>3, <2>4, <2>5, <2>6, RequestNamedRespects
<1>3. QED
  BY <1>1, <1>2

\* An id and a generation, once seen, never name other authority.
THEOREM GenerationsAlwaysFence == Spec => GenerationsFence
<1>1. SoundRegistry /\ [Next]_vars =>
        [\A id \in LeaseId :
            leases'[id] # leases[id] =>
                \/ id = nextId
                \/ /\ leases[id].phase # "none"
                   /\ leases'[id].generation > leases[id].generation
                \/ /\ leases[id].phase = "unclaimed"
                   /\ leases'[id] = NoLease]_vars
  BY NextRespects DEF Fenced
<1>2. QED
  BY <1>1, RegistrySound, PTL DEF Spec, GenerationsFence

\* Authority past its deadline is never extended or moved.
THEOREM ExpiryAlwaysFinal == Spec => ExpiryIsFinal
<1>1. SoundRegistry /\ [Next]_vars =>
        [\A id \in LeaseId :
            ExpiredBy(id, lastNow') /\ leases'[id] # leases[id] =>
                \/ leases'[id].phase \in {"orphaned", "unclaimed"}
                \/ /\ leases'[id].owner = leases[id].owner
                   /\ leases'[id].project = leases[id].project
                   /\ leases'[id].generation = leases[id].generation + 2]_vars
  BY NextRespects DEF ExpiryHonoured
<1>2. QED
  BY <1>1, RegistrySound, PTL DEF Spec, ExpiryIsFinal

(***************************************************************************)
(* OutputLease implements ResourceAuthority: every publication of the      *)
(* registry is one abstract step, or leaves what every output answers to   *)
(* as it was.  A sound registry makes the refinement mapping meaningful:   *)
(* because no output is held twice, the lease chosen for it is the lease.  *)
(***************************************************************************)

\* The view of an output shows the one lease that holds it.
LEMMA ViewOfHeld ==
    ASSUME NEW ls, NEW ix, NEW n, NEW now, Sound(ls, ix, n, now),
           NEW id \in LeaseId, NEW r \in ls[id].resources
    PROVE  AuthorityOf(ls)[r] = AnswerOf(id, ls[id])
<1>1. r \in Resource
  BY DEF Sound, Lease
<1>2. Holders(ls, r) = {id}
  BY DEF Sound, Holders
<1>3. (CHOOSE i \in Holders(ls, r) : TRUE) = id
  BY <1>2
<1>4. QED
  BY <1>1, <1>2, <1>3 DEF AuthorityOf

\* The view of a free output is Nobody.
LEMMA ViewOfFree ==
    ASSUME NEW ls, NEW r \in Resource,
           \A id \in LeaseId : r \notin ls[id].resources
    PROVE  AuthorityOf(ls)[r] = Nobody
<1>1. Holders(ls, r) = {}
  BY DEF Holders
<1>2. QED
  BY <1>1 DEF AuthorityOf

\* Nobody is no lease.
LEMMA SomebodyIsNotNobody ==
    \A id \in LeaseId : \A l : AnswerOf(id, l) # Nobody
<1>1. SUFFICES ASSUME NEW id \in LeaseId, NEW l, AnswerOf(id, l) = Nobody
               PROVE  FALSE
  OBVIOUS
<1>2. AnswerOf(id, l).grant = id /\ Nobody.grant = 0
  BY DEF AnswerOf, Nobody
<1>3. QED
  BY <1>1, <1>2 DEF LeaseId

\* What a grant governs in the view is what its lease holds.
LEMMA UnderIsScope ==
    ASSUME SoundRegistry, NEW id \in LeaseId
    PROVE  Abstract!Under(id) = leases[id].resources
<1>1. Sound(leases, index, nextId, lastNow)
  BY DEF SoundRegistry
<1>2. ASSUME NEW r \in leases[id].resources
      PROVE  r \in Abstract!Under(id)
  <2>0. r \in Resource
    BY <1>1 DEF Sound, Lease
  <2>1. AuthorityOf(leases)[r] = AnswerOf(id, leases[id])
    BY <1>1, ViewOfHeld
  <2>2. AnswerOf(id, leases[id]).grant = id
    BY DEF AnswerOf
  <2>3. QED
    BY <2>0, <2>1, <2>2, SomebodyIsNotNobody DEF Abstract!Under
<1>3. ASSUME NEW r \in Abstract!Under(id)
      PROVE  r \in leases[id].resources
  <2>1. r \in Resource /\ AuthorityOf(leases)[r] # Nobody
        /\ AuthorityOf(leases)[r].grant = id
    BY DEF Abstract!Under
  <2>2. PICK h \in LeaseId : r \in leases[h].resources
    BY <2>1, ViewOfFree
  <2>3. AuthorityOf(leases)[r] = AnswerOf(h, leases[h])
    BY <1>1, <2>2, ViewOfHeld
  <2>4. AnswerOf(h, leases[h]).grant = h
    BY DEF AnswerOf
  <2>5. QED
    BY <2>1, <2>2, <2>3, <2>4
<1>4. QED
  BY <1>2, <1>3

\* Orphaning leases lets their grants lapse.
LEMMA LapseStep ==
    ASSUME SoundRegistry, SoundRegistry', NEW ids \in SUBSET LeaseId,
           \A id \in ids : leases[id].generation < MaxGeneration,
           leases' = [id \in LeaseId |->
                        IF id \in ids THEN Orphaned(leases[id]) ELSE leases[id]],
           nextId' = nextId
    PROVE  Abstract!Lapse(ids)
<1> DEFINE lapsed == [r \in Resource |->
                        IF /\ AuthorityOf(leases)[r] # Nobody
                           /\ AuthorityOf(leases)[r].grant \in ids
                        THEN Abstract!Lapsed(AuthorityOf(leases)[r])
                        ELSE AuthorityOf(leases)[r]]
<1>1. ASSUME NEW r \in Resource, NEW id \in LeaseId, r \in leases[id].resources
      PROVE  AuthorityOf(leases')[r] = lapsed[r]
  <2>1. leases[id] \in Lease
    BY DEF SoundRegistry, Sound
  <2>2. AuthorityOf(leases)[r] = AnswerOf(id, leases[id])
    BY <1>1, ViewOfHeld DEF SoundRegistry
  <2>3. AuthorityOf(leases)[r] # Nobody /\ AuthorityOf(leases)[r].grant = id
    BY <2>2, SomebodyIsNotNobody DEF AnswerOf
  <2>4. CASE id \in ids
    <3>1. /\ leases'[id] = Orphaned(leases[id])
          /\ Orphaned(leases[id]).phase = "orphaned"
          /\ Orphaned(leases[id]).owner = leases[id].owner
          /\ Orphaned(leases[id]).project = leases[id].project
          /\ Orphaned(leases[id]).resources = leases[id].resources
      BY <2>1, <2>4, OrphanedFields
    <3>2. AuthorityOf(leases')[r] = AnswerOf(id, leases'[id])
      BY <1>1, <3>1, ViewOfHeld DEF SoundRegistry
    <3>3. AnswerOf(id, leases'[id]) = Abstract!Lapsed(AnswerOf(id, leases[id]))
      <4>1. leases'[id].phase # "active"
        BY <3>1
      <4>2. QED
        BY <3>1, <4>1 DEF AnswerOf, Abstract!Lapsed
    <3>4. QED
      BY <2>2, <2>3, <2>4, <3>2, <3>3
  <2>5. CASE id \notin ids
    <3>1. leases'[id] = leases[id]
      BY <2>5
    <3>2. AuthorityOf(leases')[r] = AnswerOf(id, leases'[id])
      BY <1>1, <3>1, ViewOfHeld DEF SoundRegistry
    <3>3. QED
      BY <2>2, <2>3, <2>5, <3>1, <3>2
  <2>6. QED
    BY <2>4, <2>5
<1>2. ASSUME NEW r \in Resource, \A id \in LeaseId : r \notin leases[id].resources
      PROVE  AuthorityOf(leases')[r] = lapsed[r]
  <2>1. ASSUME NEW id \in LeaseId
        PROVE  leases'[id].resources = leases[id].resources
    BY OrphanedFields DEF SoundRegistry, Sound
  <2>2. AuthorityOf(leases)[r] = Nobody /\ AuthorityOf(leases')[r] = Nobody
    BY <1>2, <2>1, ViewOfFree
  <2>3. QED
    BY <2>2
<1>3. AuthorityOf(leases') = lapsed
  <2>1. \A r \in Resource : AuthorityOf(leases')[r] = lapsed[r]
    BY <1>1, <1>2
  <2>2. QED
    BY <2>1 DEF AuthorityOf
<1>4. QED
  BY <1>3 DEF Abstract!Lapse

\* A lease made active again, or passed on, holds its grant for its owner.
LEMMA HoldStep ==
    ASSUME SoundRegistry, SoundRegistry', NEW at, NEW id \in LeaseId,
           NEW o \in Owner, NEW l, ChangeLease(id, l, at),
           l.phase = "active", l.owner = o, l.project = leases[id].project,
           l.resources = leases[id].resources, l.resources # {}
    PROVE  Abstract!Hold(id, o)
<1> DEFINE scope == leases[id].resources
           held == [r \in Resource |->
                      IF r \in scope
                      THEN Abstract!HeldBy(AuthorityOf(leases)[r], o)
                      ELSE AuthorityOf(leases)[r]]
<1>1. /\ leases'[id] = l /\ nextId' = nextId
      /\ \A other \in LeaseId \ {id} : leases'[other] = leases[other]
  BY DEF ChangeLease, SoundRegistry, Sound
<1>2. Abstract!Under(id) = scope
  BY UnderIsScope
<1>3. ASSUME NEW r \in Resource, NEW h \in LeaseId, r \in leases[h].resources
      PROVE  AuthorityOf(leases')[r] = held[r]
  <2>1. AuthorityOf(leases)[r] = AnswerOf(h, leases[h])
    BY <1>3, ViewOfHeld DEF SoundRegistry
  <2>2. r \in leases'[h].resources
    BY <1>1, <1>3
  <2>3. AuthorityOf(leases')[r] = AnswerOf(h, leases'[h])
    BY <2>2, ViewOfHeld DEF SoundRegistry
  <2>4. CASE h = id
    <3>1. AnswerOf(id, leases'[id])
            = Abstract!HeldBy(AnswerOf(id, leases[id]), o)
      <4>1. leases'[id].phase = "active"
        BY <1>1
      <4>2. QED
        BY <1>1, <4>1 DEF AnswerOf, Abstract!HeldBy
    <3>2. QED
      BY <1>3, <2>1, <2>3, <2>4, <3>1
  <2>5. CASE h # id
    <3>1. r \notin scope
      BY <1>3, <2>5 DEF SoundRegistry, Sound
    <3>2. QED
      BY <1>1, <2>1, <2>3, <2>5, <3>1
  <2>6. QED
    BY <2>4, <2>5
<1>4. ASSUME NEW r \in Resource, \A h \in LeaseId : r \notin leases[h].resources
      PROVE  AuthorityOf(leases')[r] = held[r]
  <2>1. \A h \in LeaseId : leases'[h].resources = leases[h].resources
    BY <1>1
  <2>2. AuthorityOf(leases)[r] = Nobody /\ AuthorityOf(leases')[r] = Nobody
    BY <1>4, <2>1, ViewOfFree
  <2>3. QED
    BY <1>4, <2>2
<1>5. AuthorityOf(leases') = held
  <2>1. \A r \in Resource : AuthorityOf(leases')[r] = held[r]
    BY <1>3, <1>4
  <2>2. QED
    BY <2>1 DEF AuthorityOf
<1>6. scope # {}
  OBVIOUS
<1>7. QED
  BY <1>1, <1>2, <1>5, <1>6 DEF Abstract!Hold

\* A relinquished lease frees every output its grant governed.
LEMMA ReleaseStep ==
    ASSUME SoundRegistry, SoundRegistry', NEW at \in Instant,
           NEW id \in LeaseId, leases[id].resources # {},
           leases[id].generation < MaxGeneration,
           leases' = [leases EXCEPT ![id] = Unclaimed(leases[id], at)],
           nextId' = nextId
    PROVE  Abstract!Release(id)
<1> DEFINE scope == leases[id].resources
           freed == [r \in Resource |->
                       IF r \in scope THEN Nobody ELSE AuthorityOf(leases)[r]]
<1>1. /\ leases'[id].resources = {}
      /\ \A other \in LeaseId \ {id} : leases'[other] = leases[other]
  BY UnclaimedFields DEF SoundRegistry, Sound
<1>2. Abstract!Under(id) = scope
  BY UnderIsScope
<1>3. ASSUME NEW r \in Resource, NEW h \in LeaseId \ {id},
             r \in leases[h].resources
      PROVE  AuthorityOf(leases')[r] = freed[r]
  <2>1. AuthorityOf(leases)[r] = AnswerOf(h, leases[h])
    BY <1>3, ViewOfHeld DEF SoundRegistry
  <2>2. r \in leases'[h].resources
    BY <1>1, <1>3
  <2>3. AuthorityOf(leases')[r] = AnswerOf(h, leases'[h])
    BY <2>2, ViewOfHeld DEF SoundRegistry
  <2>4. r \notin scope
    BY <1>3 DEF SoundRegistry, Sound
  <2>5. QED
    BY <1>1, <2>1, <2>3, <2>4
<1>4. ASSUME NEW r \in Resource,
             \A h \in LeaseId \ {id} : r \notin leases[h].resources
      PROVE  AuthorityOf(leases')[r] = freed[r]
  <2>1. \A h \in LeaseId : r \notin leases'[h].resources
    BY <1>1, <1>4
  <2>2. AuthorityOf(leases')[r] = Nobody
    BY <2>1, ViewOfFree
  <2>3. r \notin scope => AuthorityOf(leases)[r] = Nobody
    BY <1>4, ViewOfFree
  <2>4. QED
    BY <2>2, <2>3
<1>5. AuthorityOf(leases') = freed
  <2>1. \A r \in Resource : AuthorityOf(leases')[r] = freed[r]
    BY <1>3, <1>4
  <2>2. QED
    BY <2>1 DEF AuthorityOf
<1>6. QED
  BY <1>2, <1>5 DEF Abstract!Release

\* The next id was never granted before, and now it is.
LEMMA NextIdFresh ==
    ASSUME SoundRegistry, nextId \in LeaseId, nextId' = nextId + 1
    PROVE  /\ nextId \notin 1..(nextId - 1)
           /\ 1..(nextId' - 1) = (1..(nextId - 1)) \cup {nextId}
  BY DEF LeaseId

\* What the leases look like after a grant from a sound candidate.
LEMMA GrantOutcome ==
    ASSUME NEW ls, NEW ix, NEW at, Sound(ls, ix, nextId, at),
           NEW o \in Owner, NEW p \in Project,
           NEW R \in SUBSET Resource, AcquireFrom(ls, ix, o, R, p, at)
    PROVE  /\ nextId \in LeaseId /\ nextId' = nextId + 1
           /\ AnswerOf(nextId, leases'[nextId])
                = [grant |-> nextId, owner |-> o, project |-> p,
                   standing |-> "live"]
           /\ leases'[nextId].resources = R
           /\ \A id \in LeaseId \ {nextId} :
                 /\ leases'[id].resources = ls[id].resources
                 /\ ls[id].resources # {} => leases'[id] = ls[id]
           /\ \A id \in LeaseId : ls[id].resources \cap R = {}
           /\ ls[nextId].resources = {}
<1>1. /\ nextId \in LeaseId /\ nextId' = nextId + 1 /\ MaxGeneration > 0
      /\ \A r \in R : ix[r] = {}
      /\ leases' = [Purged(ls, at) EXCEPT ![nextId] = Granted(o, R, p, at)]
  BY DEF AcquireFrom
<1>2. at \in Instant /\ ls \in [LeaseId -> Lease]
  BY DEF Sound
<1>3. leases'[nextId] = Granted(o, R, p, at)
  BY <1>1 DEF Purged
<1>4. /\ Granted(o, R, p, at).phase = "active"
      /\ Granted(o, R, p, at).owner = o
      /\ Granted(o, R, p, at).resources = R
      /\ Granted(o, R, p, at).project = p
  BY <1>1, <1>2, GrantedFields
<1>5. AnswerOf(nextId, leases'[nextId])
        = [grant |-> nextId, owner |-> o, project |-> p, standing |-> "live"]
  BY <1>3, <1>4 DEF AnswerOf
<1>6. ASSUME NEW id \in LeaseId \ {nextId}
      PROVE  /\ leases'[id].resources = ls[id].resources
             /\ ls[id].resources # {} => leases'[id] = ls[id]
  <2>1. leases'[id] = Purged(ls, at)[id]
    BY <1>1 DEF Purged
  <2>2. ls[id].phase = "unclaimed" => ls[id].resources = {}
    BY DEF Sound, Consistent
  <2>3. QED
    BY <2>1, <2>2, NoLeaseFields DEF Purged
<1>7. \A id \in LeaseId : ls[id].resources \cap R = {}
  <2>1. SUFFICES ASSUME NEW id \in LeaseId, NEW r \in R, r \in ls[id].resources
                 PROVE  FALSE
    OBVIOUS
  <2>2. id \in ix[r]
    BY <2>1 DEF Sound
  <2>3. QED
    BY <1>1, <2>2
<1>8. ls[nextId].resources = {}
  <2>1. ls[nextId].phase = "none" /\ Consistent(ls[nextId], at)
    BY <1>1 DEF Sound, LeaseId
  <2>2. ls[nextId] = NoLease
    BY <2>1 DEF Consistent
  <2>3. QED
    BY <2>2, NoLeaseFields
<1>9. QED
  BY <1>1, <1>3, <1>4, <1>5, <1>6, <1>7, <1>8

\* Acquire and Enable give free outputs to a fresh grant.
LEMMA GiveStep ==
    ASSUME SoundRegistry, SoundRegistry', NEW at \in Instant, lastNow <= at,
           NEW o \in Owner, NEW p \in Project, NEW R \in SUBSET Resource,
           R # {}, AcquireFrom(leases, index, o, R, p, at)
    PROVE  \E g \in LeaseId : Abstract!Give(R, g, o, p)
<1> DEFINE given == Abstract!GrantTo(R, nextId, o, p)
<1>1. Sound(leases, index, nextId, at)
  BY SoundLater DEF SoundRegistry
<1>2. /\ nextId \in LeaseId /\ nextId' = nextId + 1
      /\ AnswerOf(nextId, leases'[nextId])
           = [grant |-> nextId, owner |-> o, project |-> p, standing |-> "live"]
      /\ leases'[nextId].resources = R
      /\ \A id \in LeaseId \ {nextId} :
            /\ leases'[id].resources = leases[id].resources
            /\ leases[id].resources # {} => leases'[id] = leases[id]
      /\ \A id \in LeaseId : leases[id].resources \cap R = {}
      /\ leases[nextId].resources = {}
  BY <1>1, GrantOutcome
<1>3. \A r \in R : AuthorityOf(leases)[r] = Nobody
  BY <1>2, ViewOfFree
<1>4. ASSUME NEW r \in R
      PROVE  AuthorityOf(leases')[r] = given[r]
  <2>1. AuthorityOf(leases')[r] = AnswerOf(nextId, leases'[nextId])
    BY <1>2, ViewOfHeld DEF SoundRegistry
  <2>2. QED
    BY <1>2, <2>1 DEF Abstract!GrantTo
<1>5. ASSUME NEW r \in Resource, r \notin R, NEW h \in LeaseId,
             r \in leases[h].resources
      PROVE  AuthorityOf(leases')[r] = given[r]
  <2>1. AuthorityOf(leases)[r] = AnswerOf(h, leases[h])
    BY <1>5, ViewOfHeld DEF SoundRegistry
  <2>2. leases'[h] = leases[h]
    BY <1>2, <1>5
  <2>3. AuthorityOf(leases')[r] = AnswerOf(h, leases'[h])
    BY <1>5, <2>2, ViewOfHeld DEF SoundRegistry
  <2>4. QED
    BY <1>5, <2>1, <2>2, <2>3 DEF Abstract!GrantTo
<1>6. ASSUME NEW r \in Resource, r \notin R,
             \A h \in LeaseId : r \notin leases[h].resources
      PROVE  AuthorityOf(leases')[r] = given[r]
  <2>1. \A h \in LeaseId : r \notin leases'[h].resources
    BY <1>2, <1>6
  <2>2. AuthorityOf(leases)[r] = Nobody /\ AuthorityOf(leases')[r] = Nobody
    BY <1>6, <2>1, ViewOfFree
  <2>3. QED
    BY <1>6, <2>2 DEF Abstract!GrantTo
<1>7. AuthorityOf(leases') = given
  <2>1. \A r \in Resource : AuthorityOf(leases')[r] = given[r]
    BY <1>4, <1>5, <1>6
  <2>2. QED
    BY <2>1 DEF AuthorityOf, Abstract!GrantTo
<1>8. Abstract!Give(R, nextId, o, p)
  BY <1>2, <1>3, <1>7, NextIdFresh DEF Abstract!Give
<1>9. QED
  BY <1>2, <1>8

\* A project replacement exchanges the owner's grant for a fresh one.
LEMMA RebindStep ==
    ASSUME SoundRegistry, SoundRegistry', NEW at \in Instant, lastNow <= at,
           NEW id \in LeaseId, NEW o \in Owner, NEW g \in 0..MaxGeneration,
           NEW p \in Project, ReplacePreviousProject(id, o, g, p, at)
    PROVE  \E h \in LeaseId : Abstract!Rebind(id, h, p)
<1> DEFINE ls == [leases EXCEPT ![id] = Unclaimed(leases[id], at)]
           ix == WithoutIndexed(index, id, leases[id].resources)
           scope == leases[id].resources
           given == Abstract!GrantTo(scope, nextId, o, p)
<1>1. Sound(leases, index, nextId, at)
  BY SoundLater DEF SoundRegistry
<1>2. /\ leases[id].phase # "none" /\ leases[id].generation < MaxGeneration
      /\ leases[id].owner = o /\ leases[id].project # p
      /\ "video" \in scope
      /\ AcquireFrom(ls, ix, o, scope, p, at)
  BY DEF ReplacePreviousProject, AtGeneration, Held, Owns
<1>3. Sound(ls, ix, nextId, at)
  BY <1>1, <1>2, SoundReleased
<1>4. scope \in SUBSET Resource
  BY DEF SoundRegistry, Sound, Lease
<1>5. /\ nextId \in LeaseId /\ nextId' = nextId + 1
      /\ AnswerOf(nextId, leases'[nextId])
           = [grant |-> nextId, owner |-> o, project |-> p, standing |-> "live"]
      /\ leases'[nextId].resources = scope
      /\ \A other \in LeaseId \ {nextId} :
            /\ leases'[other].resources = ls[other].resources
            /\ ls[other].resources # {} => leases'[other] = ls[other]
      /\ ls[nextId].resources = {}
  <2> HIDE DEF ls, ix, scope
  <2>1. QED
    BY <1>2, <1>3, <1>4, GrantOutcome
<1>6. /\ ls[id].resources = {}
      /\ \A other \in LeaseId \ {id} : ls[other] = leases[other]
  <2>1. Unclaimed(leases[id], at).resources = {}
    BY <1>2, UnclaimedFields DEF SoundRegistry, Sound
  <2>2. QED
    BY <2>1 DEF SoundRegistry, Sound
<1>7. ASSUME NEW r \in scope
      PROVE  AuthorityOf(leases')[r] = given[r]
  <2>1. AuthorityOf(leases')[r] = AnswerOf(nextId, leases'[nextId])
    BY <1>5, ViewOfHeld DEF SoundRegistry
  <2>2. r \in Resource
    BY <1>4
  <2>3. QED
    BY <1>5, <2>1, <2>2 DEF Abstract!GrantTo
<1>8. ASSUME NEW r \in Resource, r \notin scope, NEW h \in LeaseId,
             r \in leases[h].resources
      PROVE  AuthorityOf(leases')[r] = given[r]
  <2>1. AuthorityOf(leases)[r] = AnswerOf(h, leases[h])
    BY <1>8, ViewOfHeld DEF SoundRegistry
  <2>2. ls[h] = leases[h] /\ ls[h].resources # {} /\ h # nextId
    BY <1>5, <1>6, <1>8
  <2>3. leases'[h] = leases[h]
    BY <1>5, <2>2
  <2>4. AuthorityOf(leases')[r] = AnswerOf(h, leases'[h])
    BY <1>8, <2>3, ViewOfHeld DEF SoundRegistry
  <2>5. QED
    BY <1>8, <2>1, <2>3, <2>4 DEF Abstract!GrantTo
<1>9. ASSUME NEW r \in Resource, r \notin scope,
             \A h \in LeaseId : r \notin leases[h].resources
      PROVE  AuthorityOf(leases')[r] = given[r]
  <2>1. ASSUME NEW h \in LeaseId
        PROVE  r \notin leases'[h].resources
    <3>1. CASE h = nextId
      BY <1>5, <1>9, <3>1
    <3>2. CASE h # nextId
      BY <1>5, <1>6, <1>9, <3>2
    <3>3. QED
      BY <3>1, <3>2
  <2>2. AuthorityOf(leases)[r] = Nobody /\ AuthorityOf(leases')[r] = Nobody
    BY <1>9, <2>1, ViewOfFree
  <2>3. QED
    BY <1>9, <2>2 DEF Abstract!GrantTo
<1>10. AuthorityOf(leases') = given
  <2>1. \A r \in Resource : AuthorityOf(leases')[r] = given[r]
    BY <1>7, <1>8, <1>9
  <2>2. QED
    BY <2>1 DEF AuthorityOf, Abstract!GrantTo
<1>11. Abstract!Under(id) = scope
  BY UnderIsScope
<1>12. /\ AuthorityOf(leases)["video"].owner = o
       /\ AuthorityOf(leases)["video"].project # p
  <2>1. AuthorityOf(leases)["video"] = AnswerOf(id, leases[id])
    BY <1>2, ViewOfHeld DEF SoundRegistry
  <2>2. QED
    BY <1>2, <2>1 DEF AnswerOf
<1>13. Abstract!Rebind(id, nextId, p)
  BY <1>2, <1>5, <1>10, <1>11, <1>12, NextIdFresh DEF Abstract!Rebind
<1>14. QED
  BY <1>5, <1>13

\* Renewal, recovery and transfer of a held lease keep or pass on its grant.
LEMMA ActivateStep ==
    ASSUME SoundRegistry, SoundRegistry', NEW at \in Instant,
           NEW id \in LeaseId, NEW o \in Owner, Held(id),
           leases[id].generation < MaxGeneration,
           ChangeLease(id, Activated(leases[id], o, at), at)
    PROVE  Abstract!Hold(id, o)
<1>1. leases[id] \in Lease /\ leases[id].resources # {}
  BY DEF SoundRegistry, Sound, Consistent, Held
<1>2. /\ Activated(leases[id], o, at).phase = "active"
      /\ Activated(leases[id], o, at).owner = o
      /\ Activated(leases[id], o, at).project = leases[id].project
      /\ Activated(leases[id], o, at).resources = leases[id].resources
  BY <1>1, ActivatedFields
<1>3. QED
  BY <1>1, <1>2, HoldStep

\* A recovery in place is an abstract Hold by the owner.
LEMMA RecoverStep ==
    ASSUME SoundRegistry, SoundRegistry', NEW at \in Instant,
           NEW id \in LeaseId, NEW o \in Owner, RecoverInPlace(id, o, at)
    PROVE  Abstract!Hold(id, o)
<1>1. leases[id] \in Lease /\ Consistent(leases[id], lastNow)
  BY DEF SoundRegistry, Sound
<1>2. /\ Active(id) \/ leases[id].phase = "orphaned"
      /\ BeforeRecovery(id).generation < MaxGeneration
      /\ ChangeLease(id, Activated(BeforeRecovery(id), o, at), at)
  BY DEF RecoverInPlace, ExpiredBy
<1>3. leases[id].resources # {}
  BY <1>1, <1>2 DEF Consistent, Active
<1>4. /\ BeforeRecovery(id) \in Lease
      /\ BeforeRecovery(id).resources = leases[id].resources
      /\ BeforeRecovery(id).project = leases[id].project
  <2>1. CASE Active(id)
    <3>1. BeforeRecovery(id) = Orphaned(leases[id])
      BY <2>1 DEF BeforeRecovery
    <3>2. Orphaned(leases[id]).generation = leases[id].generation + 1
      BY DEF Orphaned
    <3>3. leases[id].generation < MaxGeneration
      BY <1>1, <1>2, <3>1, <3>2, RegistryConstants DEF Lease
    <3>4. QED
      BY <1>1, <3>1, <3>3, OrphanedFields
  <2>2. CASE ~Active(id)
    BY <1>1, <2>2 DEF BeforeRecovery
  <2>3. QED
    BY <2>1, <2>2
<1>5. /\ Activated(BeforeRecovery(id), o, at).phase = "active"
      /\ Activated(BeforeRecovery(id), o, at).owner = o
      /\ Activated(BeforeRecovery(id), o, at).project = leases[id].project
      /\ Activated(BeforeRecovery(id), o, at).resources = leases[id].resources
  BY <1>2, <1>4, ActivatedFields
<1>6. QED
  BY <1>2, <1>3, <1>5, HoldStep

\* One lease found expired lapses alone.
LEMMA FindExpiredStep ==
    ASSUME SoundRegistry, SoundRegistry', NEW at, NEW id \in LeaseId, NEW g,
           FindExpired(id, g, at)
    PROVE  Abstract!Lapse({id})
<1>1. /\ leases[id].generation < MaxGeneration
      /\ leases' = [leases EXCEPT ![id] = Orphaned(leases[id])]
      /\ nextId' = nextId
  BY DEF FindExpired, AtGeneration, ChangeLease
<1>2. leases' = [i \in LeaseId |->
                   IF i \in {id} THEN Orphaned(leases[i]) ELSE leases[i]]
  BY <1>1 DEF SoundRegistry, Sound
<1>3. QED
  BY <1>1, <1>2, LapseStep

\* Every published change is a step of the abstract authority.
LEMMA RequestNamedStep ==
    ASSUME SoundRegistry, SoundRegistry', NEW at \in Instant, lastNow <= at,
           NEW id \in LeaseId, NEW o \in Owner, NEW g \in 0..MaxGeneration,
           RequestNamed(id, o, g, at)
    PROVE  Abstract!AuthorityNext
<1>1. CASE \/ Renew(id, o, g, at)
           \/ Recover(id, o, g, at)
           \/ ForceTransfer(id, o, g, at)
  <2>1. /\ Held(id) /\ leases[id].generation < MaxGeneration
        /\ ChangeLease(id, Activated(leases[id], o, at), at)
    BY <1>1 DEF Renew, Recover, ForceTransfer, AtGeneration, Held, Active
  <2>2. QED
    BY <2>1, ActivateStep DEF Abstract!AuthorityNext
<1>2. CASE FindExpired(id, g, at)
  BY <1>2, FindExpiredStep DEF Abstract!AuthorityNext
<1>3. CASE RelinquishOutputLease(id, o, g, at)
  <2>1. /\ leases[id].resources # {} /\ leases[id].generation < MaxGeneration
        /\ leases' = [leases EXCEPT ![id] = Unclaimed(leases[id], at)]
        /\ nextId' = nextId
    BY <1>3 DEF RelinquishOutputLease, AtGeneration, Held, SoundRegistry,
                Sound, Consistent
  <2>2. QED
    BY <2>1, ReleaseStep DEF Abstract!AuthorityNext
<1>4. ASSUME NEW p \in Project, DisplayRecover(id, o, g, p, at)
      PROVE  Abstract!AuthorityNext
  BY <1>4, RecoverStep DEF DisplayRecover, Abstract!AuthorityNext
<1>5. ASSUME NEW p \in Project, ReplacePreviousProject(id, o, g, p, at)
      PROVE  Abstract!AuthorityNext
  BY <1>5, RebindStep DEF Abstract!AuthorityNext
<1>6. QED
  BY <1>1, <1>2, <1>3, <1>4, <1>5 DEF RequestNamed

\* A request for a scope is an abstract Give or Hold.
LEMMA RequestForStep ==
    ASSUME SoundRegistry, SoundRegistry', NEW at \in Instant, lastNow <= at,
           NEW o \in Owner, NEW p \in Project, RequestFor(o, p, at)
    PROVE  Abstract!AuthorityNext
<1>1. CASE EnableAcquire(o, p, at)
  <2>1. AcquireFrom(leases, index, o, Both, p, at)
    BY <1>1 DEF EnableAcquire
  <2>2. Both \in SUBSET Resource /\ Both # {}
    BY DEF Both, Resource
  <2>3. QED
    BY <2>1, <2>2, GiveStep DEF Abstract!AuthorityNext
<1>2. ASSUME NEW R \in (SUBSET Resource) \ {{}}, Acquire(o, R, p, at)
      PROVE  Abstract!AuthorityNext
  <2>1. R \in SUBSET Resource /\ R # {}
    BY <1>2
  <2>2. AcquireFrom(leases, index, o, R, p, at)
    BY <1>2 DEF Acquire
  <2>3. QED
    BY <2>1, <2>2, GiveStep DEF Abstract!AuthorityNext
<1>3. ASSUME NEW id \in LeaseId, EnableRecover(id, o, p, at)
      PROVE  Abstract!AuthorityNext
  BY <1>3, RecoverStep DEF EnableRecover, Abstract!AuthorityNext
<1>4. QED
  BY <1>1, <1>2, <1>3 DEF RequestFor

\* Orphaning a set of leases is an abstract Lapse.
LEMMA OrphanAllStep ==
    ASSUME SoundRegistry, SoundRegistry', NEW at, NEW ids \in SUBSET LeaseId,
           OrphanAll(ids, at)
    PROVE  Abstract!AuthorityNext
<1>1. Abstract!Lapse(ids)
  BY LapseStep DEF OrphanAll
<1>2. QED
  BY <1>1 DEF Abstract!AuthorityNext

\* Every step of a sound registry is an abstract step or leaves the view alone.
LEMMA NextStep ==
    ASSUME SoundRegistry, SoundRegistry', [Next]_vars
    PROVE  [Abstract!AuthorityNext]_(Abstract!avars)
<1>1. CASE UNCHANGED vars
  BY <1>1 DEF vars, Abstract!avars
<1>2. CASE Next
  <2>1. PICK at \in lastNow..MaxClock :
           \/ \E id \in LeaseId, o \in Owner, g \in 0..MaxGeneration :
                 RequestNamed(id, o, g, at)
           \/ \E o \in Owner, p \in Project : RequestFor(o, p, at)
           \/ \E o \in Owner : RetireOwner(o, at)
           \/ \E p \in Project : ProjectOrphan(p, at)
           \/ Observe(at)
    BY <1>2 DEF Next
  <2>2. at \in Instant /\ lastNow <= at
    BY RegistryConstants DEF SoundRegistry, Sound, Instant
  <2>3. ASSUME NEW o \in Owner, RetireOwner(o, at)
        PROVE  Abstract!AuthorityNext
    BY <2>3, OrphanAllStep DEF RetireOwner
  <2>4. ASSUME NEW p \in Project, ProjectOrphan(p, at)
        PROVE  Abstract!AuthorityNext
    <3>1. PICK ids \in SUBSET LeaseId : OrphanAll(ids, at)
      BY <2>4 DEF ProjectOrphan
    <3>2. QED
      BY <3>1, OrphanAllStep
  <2>5. CASE Observe(at)
    BY <2>5 DEF Observe, Abstract!avars
  <2>6. QED
    BY <2>1, <2>2, <2>3, <2>4, <2>5, RequestNamedStep, RequestForStep
<1>3. QED
  BY <1>1, <1>2

\* The empty registry shows no authority and no grants.
LEMMA InitStep == Init => Abstract!AuthorityInit
<1>1. SUFFICES ASSUME Init PROVE Abstract!AuthorityInit
  OBVIOUS
<1>2. \A id \in LeaseId : leases[id].resources = {}
  BY <1>1, NoLeaseFields DEF Init
<1>3. \A r \in Resource : AuthorityOf(leases)[r] = Nobody
  BY <1>2, ViewOfFree
<1>4. AuthorityOf(leases) = [r \in Resource |-> Nobody]
  BY <1>3 DEF AuthorityOf
<1>5. 1..(nextId - 1) = {}
  BY <1>1 DEF Init
<1>6. QED
  BY <1>4, <1>5 DEF Abstract!AuthorityInit

\* The registry keeps the promises of ResourceAuthority.
THEOREM RegistryImplements == Spec => ImplementsAuthority
<1>1. Init => Abstract!AuthorityInit
  BY InitStep
<1>2. SoundRegistry /\ SoundRegistry' /\ [Next]_vars
        => [Abstract!AuthorityNext]_(Abstract!avars)
  BY NextStep
<1>3. QED
  BY <1>1, <1>2, RegistrySound, PTL
     DEF Spec, ImplementsAuthority, Abstract!AuthoritySpec

=============================================================================
