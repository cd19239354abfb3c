-------------------------- MODULE MCRecordingLease --------------------------
(***************************************************************************)
(* Small instances of RecordingLease for TLC: the Primary alone, with      *)
(* takeover receipts appearing at any time.  The unit of time is the 1 s   *)
(* renewal interval; the other intervals are shortened to 1 unit.          *)
(***************************************************************************)
EXTENDS RecordingLease, TLC

OneTake == {1}
TwoTakes == {1, 2}
Folders == Permutations(Folder)

-----------------------------------------------------------------------------
(* What tells two states of Lease.cfg apart.  A field is left out where no *)
(* action and no property of that run reads it any more.                   *)

\* The renewals of the take no longer decide anything: its frame loop is over.
LoopOver(t) == take[t].loop \in {"ending", "done", "refused", "unspawned"}

\* `failed` is read when the take starts, `renewed` and `since` while it runs;
\* the history `missed` by no property of the run.  A worker that has ended,
\* or rests behind a take it can no longer renew, consults its fence no more.
FenceView(t) ==
    LET f == fence[t]
        over == LoopOver(t) /\ worker[t].pc # "observed"
        gone == \/ worker[t].pc = "exited"
                \/ take[t].loop \in {"refused", "unspawned"}
    IN  <<f.revoked,
          IF gone THEN <<>> ELSE <<f.bound, f.bindings, f.sequence>>,
          IF over THEN Never ELSE f.splitSince,
          IF LoopOver(t) THEN <<>> ELSE <<f.renewed, f.since>>,
          take[t].loop = "starting" /\ f.failed>>

WorkerView(t) ==
    IF LoopOver(t) /\ worker[t].pc # "observed"
    THEN [worker[t] EXCEPT !.now = 0] ELSE worker[t]

\* A receipt acts through the sessions its folder's receipts name together,
\* and a session of Standby sync only while its role is Primary.
LeaseView ==
    <<clock, home, leases,
      sync.role, sync.split, IF sync.role = "primary" THEN sync.session ELSE NoSession,
      [f \in Folder |-> UNION {r.supersedes : r \in {q \in receipts : q.folder = f}}],
      [t \in Take |-> FenceView(t)], [t \in Take |-> WorkerView(t)], take>>
=============================================================================
