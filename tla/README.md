# A verification development for Syndocal

Syndocal is a desktop controller for DMX lighting and VJ video: a Rust engine and
a Tauri application, several processes and often two PCs. This directory holds
TLA+ modules translated from its source, TLC configurations that check them on
small instances, and TLAPS proofs of their main properties. Paths below are
relative to the repository; `app` stands for `app/src-tauri/src`.

- [The system](#the-system)
- [Plan](#plan)
- [Recording lease and takeover](#recording-lease-and-takeover)
- [Output lease registry](#output-lease-registry)
- [Output role ordering](#output-role-ordering)
- [Main window close](#main-window-close)
- [Output keepalive](#output-keepalive)
- [Output ownership](#output-ownership)
- [Recording takes and publication](#recording-takes-and-publication)
- [Backup deletion](#backup-deletion)
- [What is proved](#what-is-proved)
- [Findings](#findings)
- [Met while modelling](#met-while-modelling)
- [Not modelled](#not-modelled)

To check a run: `tlc -config <Run>.cfg <its MC module>`; to check the proofs:
`tlapm <module>_proofs.tla`. PROJECT.json lists every run, mutant, hazard,
theorem, and the source lines each definition stands for.

## The system

### Components

| component | state | operations |
|---|---|---|
| Engine (`crates/engine`) | the project, playback, DMX universes; one worker thread owns them | commands in order of arrival, snapshots, output ownership transitions |
| Output ownership (`app/main.rs` 80015-80290, engine) | role (Standby, Lighting, Video, Both), its durable marker, the owners being retired | apply a role: Standby marker first, retire, prepare, commit, target marker |
| Output role ordering (`app/output_role_ordering.rs`) | generation, admitted publications, pending denials, boundary, closed | capture, enter, validate, deny, seal, and two drops |
| Output lease registry (`app/output_lease.rs`) | leases by id, resource index, receipts, last instant | acquire, renew, recover, relinquish, transfer, orphan, replace a project, retire an owner |
| Keepalive (`app/output_lease_keepalive*.rs`) | the one managed run of an enabled output, its fault, a deferred Enable | arm, renew, fail-stop, relinquish, resolve a deferred Enable; a worker thread |
| Output control (`app/control_plane_runtime.rs`) | in-flight requests, retained responses | Enable, Arm, Blackout, Relinquish, with confirmation and replay |
| Project coordinator (`app/main.rs`, `app/project_replacement_control_plane.rs`) | project epoch, revision, transaction in progress | open, new, undo, restore, take over: replace the project behind an output denial |
| Recording (`app/video_recording*.rs`) | the take's worker, renderer and encoder | start, frames, stop with a bounded wait, a reaper for late workers |
| Recording lease (`app/recording_lease.rs`, `app/recording_ownership.rs`) | one lease file per sync session, a fence in each take | bind, renew, search receipts, fence, end |
| Take Over (`app/takeover_recording.rs`, `app/main.rs` 65773-66029) | plan, receipt, recorder thread | arm, poll, watch the predecessor's lease, start, cancel |
| Standby sync (`app/main.rs` 65086-65530) | role, session, folder | start, stop, exchange of snapshots between the PCs |
| Main window close (`app/main_window_close_shutdown.rs`) | two atomics and a worker | begin, hold an exit, finish |
| Receipts, publication, backups (`app/recording_receipts.rs`, `recording_publication.rs`, `project_backup_deletion*.rs`) | journals on disk | write-ahead facts, effects, recovery after a crash |
| Transports and fences (`app/spout_transport.rs`, `ndi_transport.rs`, `physical_output_fence.rs`) | senders, physical fences, watchdogs | publish frames, fence, settle |
| Agent bridge (`app/agent_bridge*.rs`, `agent_authority_service.rs`) | grants, a bounded ledger of requests | admit, execute once, answer |
| ShowClock (`crates/protocol/src/show_clock*.rs`) | peers, clock estimate | admit, sample, schedule |
| Protocols, video, audio, importers, front end | see PROJECT.json | formats, rendering, devices |

### How they interact

An operator, a remote or an agent *enables* outputs: the command captures a
ticket of the role ordering, waits for the domain locks, enters, acquires a lease
from the registry and commits the role in one step, and installs a keepalive run
that renews the lease from its own thread. Entering Standby, replacing the
project, taking over and closing the window are *denials*: each reserves a
boundary in the ordering, fail-stops the managed run, releases its lease, and only
then changes the role. Recording runs in parallel: a take of the Primary PC
publishes a lease in the folder both PCs sync; Take Over on the other PC writes a
receipt there, and starts its own take once the first is ended or quiet.

### Hard behaviour, and what makes each part correct

- **Two PCs and one slow folder.** Neither PC may record while the other does,
  though each may sleep between any two steps, operations on the folder may take
  any time or fail, and workers outlive the takes that started them.
- **A lease table with a second index.** An output is held once; a remembered
  lease never comes to mean other authority; expiry is final.
- **Arming against denying.** A denial overtakes every earlier command, waits for
  those already admitted, is not starved, and finds every Enable whole.
- **Closing.** No exit precedes the stop of the outputs; a held one comes back, or
  can be asked for again.
- **Keepalive.** Renewal, failure, release and a new Enable race; the managed
  lease is renewed, or its outputs are physically denied before it is released.
- **Durable markers and journals.** A crash between two steps leaves Standby, one
  of the two files, or an unresolved fact.

PROJECT.json lists these hazards at their lines with the properties that cover
them; those with a note belong to the modules still planned.

## Plan

1. `RecordingLease`, `RecordingTakeover` - done.
2. `ResourceAuthority` (abstract), `OutputLease` implementing it - done.
3. `OutputRoleOrdering`, `MainWindowClose` - done.
4. `OutputKeepalive`: the managed lease's run, its worker and every flow that
   meets it - done.
5. `RecordingPublication`, `RecordingTake` - done.
6. `BackupDeletion` - done.
7. `OutputOwnership`: the engine's gate and the durable marker - done.

   Every safety property of 1 to 7 that a passing run checks is a theorem. Next:
   `OutputRoleOrdering` and `OutputOwnership` as refinements of one abstract gate
   (denied, then quiet, then a role), so that their theorems compose.
8. `OutputRequests`: at-most-once requests, receipts, eviction, commit failure,
   retries. Theorem: a request takes effect at most once.
9. If it allows: physical output fence, agent bridge ledger, ShowClock admission,
   independent USB DMX.

Composition: `OutputKeepalive` details the `LeaseEnds`, `InstallManaged` and
`Retire` steps of `OutputRoleOrdering`, `OutputOwnership` its `ApplyStandby` and
`CommitRole`; `RecordingTake` extends `RecordingPublication`, `RecordingTakeover`
extends `RecordingLease`. The details are modules of their own because their
product is out of TLC's reach.

## Recording lease and takeover

`RecordingLease` is the Primary PC: takes one after another, each with a frame
loop (`StartTake`, `OpenEncoder`, `EndTake`, `FinishTake`) and a lease worker
(`KeeperStarts`, then a renewal per interval). A renewal is as many actions as it
has operations on the folder, because another thread or the other PC may act
between any two: `Bind`/`KeepBinding`/`StayUnbound`, then
`FindTakeover`/`FindNoTakeover`, then `WriteLease`, then `NoteRenewal`; ending is
`BeginEnd`, `ReadEnding`, `WriteEnded`. `fence` is `FenceState`; `Records(t)` says
that a frame loop is running and its fence passes *now*. Its last two fields are
history: `since`, the instant of the present binding, and `missed`, whether a renewal
ever passed over a receipt that names the take. `FindNoTakeover` may do that where
operations may fail: `takeover_superseding` skips a receipt it cannot read or parse,
and an earlier folder is read best effort. `KeeperStarts` has three ends: the take is
admitted, refused for what its first renewal found, or `unspawned`, when the thread
that would renew its lease does not start. The operator changes sync with `StartSync`, `BecomeStandby`, `StopSync`; `SplitBrain` is another
Primary seen in the folder. `ReceiptAppears` lets any receipt arrive in the
module's own runs.

`RecordingTakeover` extends it with the other PC: `TakeOver` captures the
sessions, `ReadPredecessor` reads their leases or fails to, `Arm` writes the receipt or
fails to and starts the recorder thread, unless that fails, and the thread polls: the
receipt again if it is still missing, `ReadLease` or `LeaseUnreadable`, and `Decide`,
whose step is acted on under the recorder lock (`Wait`, `CancelItself`,
`StartTakeover`, `StartRefused`) if `current` says that the generation is still the
thread's. `CancelPending` is the operator's cancel at any time, which the thread finds
out when it next acts (`FindsItselfCancelled`); a manual recording or Standby here is
`CancelItself`. `rivals` is history: the takes whose lease stood recording when Take
Over came to read it, whether it could or not.

Time is one clock both PCs share (each compares only its own instants: the
protocol never compares clocks); every action may take place at any instant, so a
PC may be arbitrarily slow or asleep. One unit is the renewal interval.

| run | instance | shows |
|---|---|---|
| Lease | two takes, two folders and sessions, three starts, any folder operation fails, the lease worker may not start, another Primary appears, clock 3 | EndedMeansOver, RefusedLeavesNoLease, BoundTakeIsVisible, RevokedStaysRevoked |
| Takeover | one take, one session, the folder operations of both PCs fail, one refused start, clock 2 | NeverSilent, ArmedNeverBothRecord, QuietMeansFenced, CancelledStaysCancelled |
| TakeoverLateReceipt | one take, one session, the receipt written by a retry, clock 3 | NeverBothRecord fails |

| property | about |
|---|---|
| EndedMeansOver | an ended lease names a take whose frame loop is over, however late a worker left behind writes it |
| RefusedLeavesNoLease | a take refused for its first renewal left no lease; an unspawned one does (below) |
| BoundTakeIsVisible | a take that records past the TTL of its binding has its own recording lease in the folder, or the late write of an earlier take stands there |
| RevokedStaysRevoked | no later renewal revives a revoked take or writes that it records |
| NeverSilent | Take Over says that nothing was recording only if no lease was, read or not |
| ArmedNeverBothRecord | the two PCs do not record at once, if Take Over wrote the receipt itself and no renewal passed over it unread |
| QuietMeansFenced | what a start on a quiet lease relies on, under the same two conditions |
| CancelledStaysCancelled | a poll that had decided before the cancel does not revive the takeover |

Neither condition of ArmedNeverBothRecord can go: the first is the finding
TakeoverLateReceipt, the second is what `app/recording_lease.rs:200-207` does, when
the receipt stays unreadable for the old Primary alone.

Bounds: lease, clear and split intervals of 1, 2 and 1 or 2 keep the order of the
code's 3 s, 5 s and 10 s. In Lease a clock of 3 lets a lease be written, expire and
be renewed late; in Takeover a clock of 2 lets a lease be written, be watched for the
clear interval and be called quiet at exactly its end, with every fault on both
sides. The view of Lease (`LeaseView`) leaves out what no action and no property of
that run reads any more: the fence of a take that is over, the history `missed`, and
which receipt names a session where several of one folder do. Two takes are the fewest with a worker left behind. There is one Take Over: a
second one, which supersedes the generation of a waiting one as a cancel does, is
left out.

## Output lease registry

`OutputLease` has one action per request (`Acquire`, `EnableAcquire`,
`EnableRecover`, `DisplayRecover`, `Renew`, `Recover`, `ForceTransfer`,
`RelinquishOutputLease`, `IndexVerified`, `ReplacePreviousProject`, `RetireOwner`,
`ProjectOrphan`) on the lease records, the resource index and the latest instant.
The code clones the registry, changes the clone and publishes it whole under one
lock, so that a request is one step; a refused request still records its instant
(`Observe`), and a renewal that finds the lease expired orphans it (`FindExpired`).
Any owner may send any request with any id, generation and instant; `ProjectOrphan`
orphans any selection of the project's active leases.

`ResourceAuthority` is what the registry promises, without leases, deadlines or an
index: every output answers to at most one grant, a grant changes as a whole, and
its name is never used again. `ImplementsAuthority` is the refinement, checked by
TLC and proved.

Run LeaseRegistry: two owners of this process and one of a past process, two
projects, three ids, generations to 3, a table of two records, clock 3. Two
records are enough to hold both outputs apart and to fill the table; three ids let
a purged record be followed by a new grant; generation 3 is a grant, an orphaning
and a recovery, and the arithmetic limit after it.

| property | about |
|---|---|
| HeldOnce | no output is held by two leases |
| IndexExact | `resource_index` names exactly the holders |
| GenerationsFence | an id and generation, once seen, never name other authority |
| ExpiryIsFinal | authority a request outlived is not extended or moved, except by its owner's recovery at the price of a generation |

Not in the model: receipts and the token bucket of requests (module 8 of the
plan), and the numbering of request origins.

## Output role ordering

`OutputRoleOrdering` models the mutex-protected state of
`output_role_ordering.rs` together with who uses it. A *publisher* runs commands:
`Capture` a ticket, `Enter` after the domain locks (or `TurnedAway`), `Validate`
inside the engine commit, `CommitRole` or `CommitFails`, and for Enable
`InstallManaged` or `InstallFails`. A *denier* runs denials: `Reserve` (which
supersedes all tickets), `Own` when the wait ends, `Retire` or `RetireFails` the
managed output, `ApplyStandby` or `ApplyFails`, `Release`. The closing main window
is a denier that asks once, after `Seal` and `Inspect`; a replacement releases the
boundary without applying Standby; `drain` is the denial of an idle close.
`LeaseEnds` is the keepalive's own fail-stop.

A condition-variable wait is an action that is not enabled yet. The outputs are
abstracted to the role (standby or armed) and the lease's authority: none, leased
by a commit, managed by a run, faulted and retained. An installation ends managed
or cleaned up. Left out are the ends of `app/output_lease_keepalive_integration.rs`
that return an error over a committed Enable and clean nothing up: evidence of the
commit that is refused or stale (486-493, 508-509), which needs the registry to have
changed between the commit and the next statements, and the deferred Enable
(667-679), which is in `OutputKeepalive` and its finding.

Run RoleOrdering: two publishers, a denier of every kind and the closing window,
two generations for three denials, so that a generation runs out.

| property | about |
|---|---|
| OneBoundary | one denial at a time is past its wait |
| OvertakenIsAwaited | no earlier ticket publishes once a denial is past its wait, nor ever after |
| EnableIsWhole | a denial never finds a lease without the run that retires it |
| ClosedStaysDenied | after the window's denial succeeded nothing drives outputs, and nothing will |
| DenialIsServed | every reserved denial gets its turn |

DenialIsServed assumes weak fairness of each admitted command and each reserved
denial: both run on threads whose waits are bounded or end by another such step;
the arrival of commands is not fair. It needs no fairness of the mutex, because
new commands are turned away while a denial is pending.

Replacing the project (`app/main.rs` 59638 stores a registry candidate that was
cloned before an unlock) is safe only as long as no other writer of the registry runs
meanwhile. The ordering excludes the keepalive, which OneBoundary and EnableIsWhole
are about; the project coordinator excludes the others. Neither the clone nor the
coordinator is modelled, so that no property covers this.

## Main window close

`MainWindowClose` models two atomics without a lock: `phase` and `exit_held`. The
event loop handles `ExitRequested` and the destroyed main window in steps that
end at each access of an atomic (`HoldExit`, `HoldStore`, `HoldRecheck`, `Begin`,
`Spawn` or `SpawnFails`, `Boundary`); the worker applies Standby (`StandbyEnds`),
finishes (`FinishStore`, `FinishLoad`), looks for windows and requests the exit.
The stores are Release and the loads Acquire. On x86-64 such a store may become
visible after a later load of the same thread: with a weak `memory`, `stores` holds
a thread's stores until `BecomesVisible`; a read-modify-write, a lock, a send or the
start of a thread waits for them (`Fenced`). With a strong memory every store is
visible at once.

Run Close: both memories, a worker that may not start, two panes and two exits of
the user, enough for windows to close and exits to arrive before, during and after
the shutdown.

| property | about |
|---|---|
| NoExitForgotten | a prevented exit will be requested again by the worker; where the memory is weak or the worker did not start it may be forgotten, but then a window is open or another exit is on its way |
| ExitFollowsStandby | the process exits only after the worker is past Standby |
| WindowlessExits | without windows the process exits, or its managed output blocks it |

WindowlessExits assumes that the event loop and the worker go on and that a store
becomes visible at last: the processor, Tauri and the bounded waits of the Standby
transition give that. No fairness of the user is assumed.

## Output keepalive

`OutputKeepalive` is the manager of the one lease that has both outputs, with its
worker slot, the worker threads and the flows that meet it. An action is one
section under `operation_serial`, one registry call, or one physical port; flows
interleave between them. An Enable is named by its issuance number, which is also
the id of the run it arms. The *lane* is the serial queue of Enable, replay and
Standby: `Commit`, `Admit...` (idle, same run, or a run it conflicts with, when the
Enable is deferred), `Cleanup`, `SpendPermit`, `Boundary`. Beside it run the closing
window, `Relinquish` and the workers (`WorkerWakes`, `WorkerRenews`, `WorkerFails`,
`WorkerCancelled`). Whoever takes the plan of a faulting run may execute it:
`Claim`, `Cancel`, `Join`, `Deny`, `Complete`; then `Release` gives the lease back or
`Prepare` and `Prove` retire the run for a newer Enable, whose worker `Spawn`s.

A clock that is read before a lock is waited for may be older than the last request
the registry saw; the call then fails. It is the nondeterministic `overtaken`,
bounded by what the fault set allows. `Faults` names every other failure: a lease
that lapses, an admission that cannot be proved, a thread that does not start, a
worker that fails or does not end, a port that fails.

Run Keepalive: three Enables (the armed, the deferred and the one that replaces
it), one replay, one boundary or Relinquish beside the workers, all faults.
Deadlock is checked: a state in which every flow rests stays as it is (`Stays`),
any other state without a step would be a flow that waits for ever.

| property | about |
|---|---|
| DarkWhenReleased | a lease is given back only when the outputs of its Enable are dark |
| ArmedIsSupervised | an armed run has its worker, or a flow that starts or fences it |
| IdleOwnsNothing | with no run in the manager a live lease is in the hands of its admission |
| FailStopOnce | one flow executes a fail-stop though all are given its plan |
| TokenNeedsCleanDenial | a permit or a proof exists only after a clean pass, one at a time |
| NewestWins | a stale replay or proof never brings an older Enable back |

Left out: poisoned mutexes, exhausted counters, a clock that goes back, the life
time of receipts, the comparison of window labels, and the reservation of the
worker slot, which is one step with the spawn.

## Output ownership

`OutputOwnership` is the engine's gate (`OutputOwnershipGateState`: the status, the
fence `transition_active`, the leases that are out) and the marker file. A lease is
not a counter but the phase of whoever holds it, and `Busy` says that there is one:
a worker that sends a frame (`Acquire`, `Sent`, `SendFails`), a constructor
(`OpenRoute`, `PublishRoute`, `OpeningFails`, and one left behind by a timeout,
`AbandonedEnds`), a worker that releases its device (`Stops`, `Refused`, until `Join`),
a failure fence for one that does not stop (`JoinTimesOut`), a lighting frame, the
creation of a Display.

A Display is added in phases. `AddDisplay` takes its creation lease under the lock and
drops every lock; its hidden shell is built; `AdmitDisplay` takes the locks again and
only now reserves the project transaction (`publishing`); `PublishDisplay` does so once
more and publishes. A phase that fails or exceeds its deadline (`AddingFails`) is
withdrawn or left to a reaper (`Reaped`), which may drop the lease long after. Role
changes and swaps are refused while `publishing`, so that they may begin while a shell
is being built or after a deadline passed. Where the retirement of a window is not
acknowledged the lease is forgotten (phase `leaked`): it is never dropped.

One thread at a time holds `output_ownership_transition`; `pc` is its step. Three
errands share the steps: a role change (`BeginRole`), the Standby of synchronization
(`BeginSync`) and a project swap (`BeginSwap`): `Harvest`, `WriteStandby`,
`RecordStandby`, `Reserve`, `FenceEngine`, `Stopped`, `Drain`, `Prepare`, `Activate`,
the routes, `Started`, `WriteTarget`, `RecordTarget`, `Complete`; a swap publishes
its snapshot instead and disarms. A failure goes through `GiveBack` or
`FenceFailure`, `Cleanup`, `Cleared`, `FailTransition`, `WriteDenial`, `Mark`. The
fail-stop of the keepalive takes no lock: it raises its fence, signals and joins,
and writes the same marker at any time. Every write may fail; `Crash` keeps the
marker alone, and the next start takes it for a wish or cannot read it (`Told`).
`earned` is history: the role whose outputs were prepared to the end since the last
reservation.

Run Ownership: two outputs, so that one may hang while the other is joined, Standby
and Both as roles, Both as the first marker, three epochs (a change, its failure
and the next change), one crash; the outputs are symmetric. Nothing new begins in
the last epoch, and the model may stop there.

| property | about |
|---|---|
| FencedWhileHeld | a failed gate is fenced exactly while a lease is out or was forgotten, a changing one by the thread that reserved this epoch, an open one never |
| ReadyIsQuiet | an open gate has no worker, lease or frame of an earlier epoch behind it, and the engine's senders are those of its role |
| ReadyIsUnfaulted | the gate opens from the very epoch that was reserved, though `complete_transition` compares neither epoch nor state |
| MarkerIsTrue | the marker names no role but one that was prepared since the last reservation, and the gate agrees with the file once nobody is changing it |

FencedWhileHeld does not say that a fence is lifted: `Held` leases have somebody who
will drop them, a `Forgotten` one has nobody, and the gate then stays shut until the
process restarts. The property is that it is not opened over it.

MarkerIsTrue says less than one might wish: after the fail-stop has written Standby,
a change that is already prepared may still write its role, because nothing is
compared between the two writes. The change then fails to complete and writes
Standby again; only a crash or a failed write in between leaves its role as the
wish of the next start, which arms nothing by itself.

Left out: `begin_transition`, which only tests and an unused command call, the
generation counter, the deletion of a single route, poisoned mutexes. Workers of
Spout, NDI, Syphon and the Displays differ in their devices and are one kind here,
described by `app/spout_transport.rs`.

## Recording takes and publication

`RecordingPublication` is the file side of a take: `Recover` what an earlier take
left, `Reserve`, `Encoded` or `Abandon`, then `Publish`. On Windows an existing target
is replaced by `OpenOld`, `WriteIntent`, `MoveOld`, `Install`, `DropOld`, `DropIntent`
(`PutBack` after a failure), on Unix by `UnixInstall` and `UnixUnlink`. Each is one file
operation, may fail, and may be the last before a crash. Files are named by what
they hold, because the code compares identity, length and time, which a rename
keeps. A reservation that fails may leave its partial. `OtherProgram` writes the target at any time.

`RecordingTake` adds the runtime (`Begin`, `Stop`, `StopTimesOut`, and `ReapOnly`: a start
that reaps a panicked worker, or reaps and cannot start its own), the worker from its reservation to its receipts, a panic at any step, and the startup
that lists, ends and prunes what the journal holds. An exit is a crash without a
worker: nothing is written at exit.

Run RecordingTakes: two takes of one target (the worst case for recovery), both
platforms, two crashes, one foreign file, one completed take retained.

| property | about |
|---|---|
| NothingLost | on Windows a movie that was at the target is there or named by a durable intent |
| TakeSurvives | while an intent exists its take is complete in its partial or has been at the target |
| OneAlive | workers never overlap, whatever a stop gave up waiting for |
| EndIsFinal | the first end receipt of a take is its last word |
| OrphansAreKnown | once the journal is open every take without an end is alive or could not write one |
| OutcomeIsTrue | a receipt says interrupted, or published, only where it is so |

NothingLost is about Windows: on Unix the code documents that another program may
win a race with the rename. An intent that a crash tore blocks later takes of that
target by design. Left out: the reaper that joins a worker after its runtime is
gone, the journal's format, the encoder itself.

## Backup deletion

`BackupDeletion` is the deletion of managed backups with its journal of facts. A
request is asked (`Ask`), recorded as prepared (`Write`), performed (`Delete`), and
recorded as `Succeed` or `Reject`; any write may fail, and the process may die
between. Unresolved facts protect their backup until an operator releases them
(`Survey`, `ReleaseUnknownProtection`). `Retire` and `Reclaim` are the acknowledgement
and compaction of facts, results and fences, each one durable write. Answers are
kept per process and may be forgotten early (`Forget`); publications, the retention
cleanup (`Retain`), the unjournaled deletion and a user who copies a file back act
beside it. A section under the publication lock is as many actions as it has
durable effects; the comparison of generation and digest before a deletion is
"every file has the bytes its requests name".

Run Deletions: a backup under two ids and an id for two backups, two threads, one
restart, one copy. Tables of 2 facts, 2 results and 3 fences (256, 128 and 256 in
the code) fill within a few requests; a batch of 6 (16 in the code) is enough to
name what one compaction of them removes. Three fences are the fewest with which
Recoverable holds: one compaction removes a fact, up to two results and up to three
fences in favour of what they become.

| property | about |
|---|---|
| FactsAreTrue | a request deletes at most once; every fact is true; an effect is known as long as its request may be retried |
| Recoverable | full tables are no dead end: a fact can be released, or one request after a restart makes room |

Left out: claims of the updater, stale project fences (`Refuse` is free), the end of
generations, the older storage format and damaged files, read-only queries; the
journal exists on Windows only.

## What is proved

Every invariant below is proved for all values of the constants that satisfy the
named assumptions; TLC checked it and its strengthening first.

| module | theorems | along |
|---|---|---|
| `RecordingTakeover_proofs` | TypeCorrect, EndedIsOver, QuietIsFenced | `QuietMeansFenced` is not inductive: `TakeoverInv` ties each renewal in progress to the binding it looks at (TargetIsBinding, LeaseOfBinding), says that after the receipt no predecessor that reads it is renewed with a later instant (PredecessorsCalm), and that every watch that counts began after the receipt (WatchedSinceReceipt); EndedMeansOver needs StoppedInv, that a worker ends only a stopped take |
| the same | CancelIsFinal, IdleMeansNoRival | the reported status fits the point the thread is at, and a rival was watched from the moment its lease was come to, read or not |
| the same | SteadyTakesNeverBoth, NeverBothWhenArmed | `SettledInv`: a predecessor was bound to a watched session, an ended session had a take that is over, and a start rests on settled leases |
| the same | RefusalIsClean, BoundIsVisible, RevocationIsFinal | `LeaseInv`, take by take: until the keeper decides only a renewal that went well has written the take's name; a renewal that may still write is not revoked and goes to the bound session; past the TTL of its binding a take that passes its fence was renewed by a write |
| the same | TakeoverIsEnvironment | every step of the other PC is a receipt that `LeaseSpec` allows, or leaves the Primary alone: the theorems about `LeaseSpec` hold beside a Take Over |
| `OutputLease_proofs` | RegistryTypeCorrect, NoOutputHeldTwice, IndexTruthful, GenerationsAlwaysFence, ExpiryAlwaysFinal | exclusion needs the exact index, the index needs that released and unused records hold nothing, and the generation fence needs that ids not granted yet have no record |
| the same | RegistryImplements | each request maps to a grant, a lapse, a holding, a release, a rebinding or a stutter of `ResourceAuthority`, from the invariant above |
| `OutputRoleOrdering_proofs` | OrderingTypeCorrect, BoundaryIsExclusive, OvertakenAlwaysAwaited, EnableAlwaysWhole, ClosedAlwaysDenied | `Sound`: the counters equal the cardinalities of the sets they count, nothing is published past a wait, a committed lease has a command that installs it, and what sealing and inspecting leave behind |
| `OutputKeepalive_proofs` | TypeCorrect, FailStopsOnce, TokensNeedDenial, IdleNeverOwns, ArmedStaysServed, DarkAlwaysWhenReleased, NewestAlwaysWins | age: whatever a flow keeps from an earlier section is at most the newest Enable the manager accepted and older than the one it keeps for later (PlansAreOld, PassesAreNew, WorkersAreOld), so a pass begun next was never executed and a run armed next was in no plan |
| `OutputOwnership_proofs` | TypeCorrect, FenceAlwaysHeld, ReadyAlwaysQuiet, OpensUnfaulted, MarkerAlwaysTrue | which lease the thread with the lock holds at each of its steps (Control), that its role is the reserved one (Reserved), that only the new workers are behind a gate that has drained (Drained), and whose writes the marker and its memory can miss (MarkerKept, MemoryKept) |
| `RecordingTake_proofs` | TypeCorrect, NothingIsLost, TakeAlwaysSurvives | proved of `PubNext` and lifted: where the artifact of a worker can be (Matched), hence one publication or recovery at a time, and what each of its steps knows of the files (Placed, IntentKept) |
| the same | OneAliveAlways, EndStaysFinal, OrphansAlwaysKnown, OutcomeStaysTrue | the worker that is alive holds the slot (SlotHeld), and which receipts a worker may have written at each step (Receipted) |
| `MainWindowClose_proofs` | TypeCorrect, ExitAlwaysFollows, HeldExitsReturn | some thread has *stored* "finished" (Ended): a store that becomes visible changes what is seen, never what was stored, so the two memories are reasoned about alike; and where a held exit may be missed by the worker, it can be asked for again (StaysAskable) |
| `BackupDeletion_proofs` | FactsAlwaysTrue, AlwaysRecoverable | the lock keeps a recorded request, its effect and its outcome together (InHand, OneLock, OfThePast); recoverability counts: the tables stay within their sizes (FactsFit, ResultsFit, FencesFit) and what a request compacts leaves fences for what it removes |

NeverBothWhenArmed has the hypothesis of the run, one take in one session. It cannot
go: with two sessions a take that rebinds passes its fence before it looks for a
receipt, and with two takes a detached worker may end a lease it no longer owns (both
below). SteadyTakesNeverBoth says the same of any number of both, for a take to which
neither happens.

Assumptions: natural bounds (`LeaseConstants`), a clear interval longer than the
lease (`TakeoverConstants`), positive lease and retention times and sentinels that
are no owner or project (`RegistryConstants`), finite sets of threads
(`OrderingConstants`), no end receipt that reads as "none" or "damaged"
(`ReceiptConstants`), at least two results, three fences and a batch of six
(`DeletionConstants`; the code has 128, 256 and 16). The last was found by the proof:
with two fences a journal that is full of fences cannot take the three that one
compaction may leave, so Recoverable is false. TLC evaluates each of them in the runs.

Every invariant and action property of a passing run is a theorem. The type
invariants that no run states (OwnershipTypeOK, TakeTypeOK, KeepaliveTypeOK,
CloseTypeOK, OrderingTypeOK, LeaseTypeOK, TypeOK) are proved as well. What stays with TLC is liveness
(DenialIsServed, WindowlessExits), which the prover cannot reach, and the three
violations.

## Findings

1. **TakeoverLateReceipt** (`app/main.rs:65900`). When the receipt is written by a
   retry, the quiet time already counted began before it existed, and the takeover
   take may start while the old Primary still records. With a receipt written by
   Take Over itself, which the old Primary can read, ArmedNeverBothRecord holds.
2. **KeepaliveStranded** (`app/output_lease_keepalive.rs:3173`). An Enable that commits
   after the lease of the armed run has lapsed is deferred while that run is
   fail-stopped. The flow that finishes the fail-stop is refused its permit because
   an Enable is deferred, and ends instead of proving it: the Enable holds a current
   lease with its outputs denied until another Enable comes.
3. **BackupRetention** (`app/main.rs:64205`). The cleanup after a publication protects
   what publication receipts name and does not read the deletion journal: it
   removes a backup that an unresolved deletion protects.

## Met while modelling

Each of these is a state the modules reach or a step their definitions cite; no run
of its own states them.

- `app/recording_lease.rs:497`: `write_ended` reads the lease and replaces it in two
  steps, from a worker that may have been detached, so that it can overwrite a later
  take's lease until its next renewal, though the comment at 494 says a later take
  is left alone.
- `app/recording_lease.rs:438`: binding to a new session counts as a renewal before
  the search for a receipt, so that a superseded take passes its fence once more
  (RecordingTakeover with two sessions and a timely receipt violates
  NeverBothRecord).
- `app/recording_lease.rs:569-584`: if the thread that renews the lease cannot start, a
  take whose first renewal wrote a recording lease is refused and its lease is not
  ended: the other PC watches a take that never was until it is quiet
  (RefusedLeavesNoLease excepts it).
- `app/recording_lease.rs:200-207`: a receipt that cannot be read or parsed is skipped,
  and the renewal writes and counts. The comment says that the next renewal sees it; as
  long as it stays unreadable on the old Primary both PCs may record
  (ArmedNeverBothRecord excepts such a take, `missed`).
- `app/main.rs:77272` and the other places that forget a creation lease: where the
  retirement of a Display is not acknowledged, a gate that fails afterwards stays
  fenced, and no role change or swap can be reserved until the restart.
- `app/main.rs:77455`: a Display that is given up before it reserved the project
  transaction (its admission may have failed because another one is active) clears
  `project_transaction_active` all the same; a role change may then begin while
  the other Display is being shown (`Withdrawn`).
- `app/main_window_close_shutdown.rs:205`: if the shutdown's worker cannot start, the
  exit held for it is prevented and not requested again (NoExitForgotten shows that it
  can be asked for again).
- `app/main_window_close_shutdown.rs:66`: the two atomics are a store then a load on
  both sides, which Release and Acquire do not order; both threads may miss the
  other's store and forget a held exit while windows are open (HeldIsHonoured fails on
  the weak memory; NoExitForgotten shows that the exit can be asked for again).
- `app/recording_publication.rs:238`: a cleanup that fails after the installation
  makes the end receipt say that the take was not published although the target holds
  it (PublishedIsHonest of `RecordingTake` fails), while
  `app/recording_receipts.rs:96` has None for an unknown outcome.
- `app/output_lease_keepalive_integration.rs:260-318`: the outer monitor's fail-stop
  runs on the worker's own thread with the context of an external boundary, so that
  its cancellation always fails, against the comment at 269.
- `app/output_lease_keepalive_integration.rs:667`: a readmission that meets a permit
  or a plan it did not expect drops it; a permit that was taken then stays issued.
- `app/output_lease_keepalive_runtime.rs:1834`: a worker's clock read that is
  overtaken fail-stops a healthy lease; on the release path it leaves an Enable
  without a worker until the next boundary.

## Not modelled

Modules 8 and 9 of the plan. Beyond them: the engine's numeric playback and
effects, rendering on the GPU, audio, device and wire formats, importers and the
front end, which are data processing without a protocol that a model would tell
apart; and the snapshots the two PCs exchange. PROJECT.json names each part with
its reason.
