-------------------------- MODULE OutputRoleOrdering --------------------------
(***************************************************************************)
(* Who goes first: a command that arms the outputs (Enable, Arm, the replay *)
(* of an Enable) or one that denies them (entering Standby, replacing the   *)
(* project, closing the main window).  A denial first makes every earlier   *)
(* ticket worthless, then waits until the publications already admitted are *)
(* over, and keeps everybody out until it is done.                          *)
(*                                                                         *)
(* The mutex of OutputRoleOrdering is held within one action only; waiting  *)
(* on its condition variable is an action that is not enabled yet.          *)
(***************************************************************************)
EXTENDS Integers, FiniteSets

CONSTANTS
    Publisher,      \* threads that run arming commands, one after another
    Denier,         \* threads that deny, one denial after another
    Closer,         \* the closing main window, which denies once
    MaxGeneration   \* the largest generation (u64::MAX in the code)

ASSUME OrderingConstants ==
    /\ IsFiniteSet(Publisher)
    /\ IsFiniteSet(Denier)
    /\ Closer \in Denier
    /\ MaxGeneration \in Nat

VARIABLES
    generation, \* State.generation
    active,     \* State.active: publications admitted and not dropped
    pending,    \* State.pending: denials reserved and not dropped
    owned,      \* State.boundary_owned
    closed,     \* State.closed
    command,    \* what each publisher is doing, and its ticket
    denial,     \* what each denial is doing
    window,     \* the main window: open, sealed, inspected
    inflight,   \* what seal returned
    role,       \* whether the engine drives outputs
    authority   \* the lease of Enable and the keepalive run that manages it

ordering == <<generation, active, pending, owned, closed>>
outputs == <<role, authority>>
vars == <<ordering, command, denial, window, inflight, outputs>>

Command == [pc : {"away", "ticketed", "admitted", "validated", "committed"},
            action : {"enable", "arm", "replay"},
            ticket : 0..MaxGeneration]

\* A command that is over has dropped its ticket.
Away == [pc |-> "away", action |-> "arm", ticket |-> 0]

\* at is the generation the denial advanced to; clean becomes FALSE when the
\* managed output could not be released.
Denial == [pc : {"unasked", "waiting", "retiring", "applying", "leaving",
                 "done", "failed"},
           kind : {"standby", "sync", "replacement", "drain"},
           at : 0..MaxGeneration,
           clean : {"yes", "no"}]

Init ==
    /\ generation = 0
    /\ active = 0
    /\ pending = 0
    /\ owned = FALSE
    /\ closed = FALSE
    /\ command = [p \in Publisher |-> Away]
    /\ denial = [d \in Denier |-> [pc |-> "unasked", kind |-> "drain", at |-> 0,
                                  clean |-> "yes"]]
    /\ window = "open"
    /\ inflight = FALSE
    /\ role = "standby"
    /\ authority = "none"

----------------------------------------------------------------------------
(* Arming                                                                  *)

Publishing == {p \in Publisher :
                 command[p].pc \in {"admitted", "validated", "committed"}}

Continue(p, pc) == command' = [command EXCEPT ![p].pc = pc]
GoAway(p) == command' = [command EXCEPT ![p] = Away]

\* Mutant: a reserved denial does not keep new commands out.
AdmitsWhilePending == ~closed

Admits == ~closed /\ pending = 0

Capture(p) ==
    /\ command[p].pc = "away"
    /\ Admits
    /\ \E a \in {"enable", "arm", "replay"} :
          command' = [command EXCEPT ![p] = [pc |-> "ticketed", action |-> a,
                                             ticket |-> generation]]
    /\ UNCHANGED <<ordering, denial, window, inflight, outputs>>

Current(p) == Admits /\ command[p].ticket = generation

\* Mutant: the ticket's generation is not compared.
EnterOnAnyTicket(p) ==
    /\ command[p].pc = "ticketed"
    /\ Admits
    /\ active' = active + 1
    /\ Continue(p, "admitted")
    /\ UNCHANGED <<generation, pending, owned, closed, denial, window,
                   inflight, outputs>>

\* enter, after every domain lock has been dropped.
Enter(p) ==
    /\ command[p].pc = "ticketed"
    /\ Current(p)
    /\ active' = active + 1
    /\ Continue(p, "admitted")
    /\ UNCHANGED <<generation, pending, owned, closed, denial, window,
                   inflight, outputs>>

\* The ticket was superseded, or the command was refused before it entered.
TurnedAway(p) ==
    /\ command[p].pc = "ticketed"
    /\ GoAway(p)
    /\ UNCHANGED <<ordering, denial, window, inflight, outputs>>

\* RolePublication::validate, first thing of the engine commit.
Validate(p) ==
    /\ command[p].pc = "admitted"
    /\ command[p].action # "replay"
    /\ Current(p)
    /\ Continue(p, "validated")
    /\ UNCHANGED <<ordering, denial, window, inflight, outputs>>

\* Enable needs both outputs free or its own orphan; Arm cannot use a lease
\* whose keepalive has failed.
MayCommit(p) ==
    IF command[p].action = "enable"
    THEN authority \in {"none", "faulted"}
    ELSE authority # "faulted"

\* The rest of the engine commit: the role, and Enable's lease with it.
CommitRole(p) ==
    /\ command[p].pc = "validated"
    /\ MayCommit(p)
    /\ role' = "armed"
    /\ authority' = IF command[p].action = "enable" THEN "leased" ELSE authority
    /\ Continue(p, "committed")
    /\ UNCHANGED <<ordering, denial, window, inflight>>

\* A transition that fails half way leaves the outputs denied.
CommitFails(p) ==
    /\ command[p].pc = "validated"
    /\ role' = "standby"
    /\ active' = active - 1
    /\ GoAway(p)
    /\ UNCHANGED <<generation, pending, owned, closed, denial, window,
                   inflight, authority>>

\* Installing the keepalive run of a committed or replayed Enable.
Installing(p) ==
    \/ command[p].pc = "committed" /\ command[p].action = "enable"
    \/ command[p].pc = "admitted" /\ command[p].action = "replay"

Leave(p) ==
    /\ active' = active - 1
    /\ GoAway(p)
    /\ UNCHANGED <<generation, pending, owned, closed, denial, window, inflight>>

InstallManaged(p) ==
    /\ Installing(p)
    /\ authority \in {"leased", "managed"}
    /\ authority' = "managed"
    /\ UNCHANGED role
    /\ Leave(p)

\* Mutant: the error is returned without the fail-stop.
InstallGivesUp(p) ==
    /\ Installing(p)
    /\ command[p].action = "enable" \/ authority = "faulted"
    /\ UNCHANGED outputs
    /\ Leave(p)

\* The fail-stop of an Enable that committed and could not be installed.  Left
\* out: evidence of the commit that is refused or found stale, and a cleanup
\* that awaits or defers to another flow's (OutputKeepalive has that one).
InstallFails(p) ==
    /\ Installing(p)
    /\ command[p].action = "enable" \/ authority = "faulted"
    /\ role' = "standby"
    /\ authority' \in {"none", "faulted"}
    /\ Leave(p)

\* A command that failed before it changed anything, or an Arm that is done.
Finish(p) ==
    /\ command[p].pc = "admitted" \/ command[p].pc = "validated"
         \/ (command[p].pc = "committed" /\ command[p].action = "arm")
    /\ UNCHANGED outputs
    /\ Leave(p)

\* The keepalive run fails or is released without a denial.
LeaseEnds ==
    /\ authority \in {"managed", "faulted"}
    /\ role' = "standby"
    /\ authority' \in {"none", "faulted"}
    /\ UNCHANGED <<ordering, command, denial, window, inflight>>

----------------------------------------------------------------------------
(* Denying                                                                 *)

Waiting == {d \in Denier : denial[d].pc = "waiting"}
Owning == {d \in Denier :
             denial[d].pc \in {"retiring", "applying", "leaving"}}

Proceed(d, pc) == denial' = [denial EXCEPT ![d].pc = pc]

MayDeny(d) ==
    /\ denial[d].pc = "unasked"
         \/ (d # Closer /\ denial[d].pc \in {"done", "failed"})
    /\ d = Closer => window = "inspected"

\* What the closing window's denial does was settled by the inspection.
Asked(d) == IF d = Closer THEN {denial[d].kind}
            ELSE {"standby", "sync", "replacement"}

Reserve(d) ==
    /\ MayDeny(d)
    /\ generation < MaxGeneration
    /\ generation' = generation + 1
    /\ pending' = pending + 1
    /\ \E k \in Asked(d) :
          denial' = [denial EXCEPT ![d] = [pc |-> "waiting", kind |-> k,
                                           at |-> generation + 1,
                                           clean |-> "yes"]]
    /\ UNCHANGED <<active, owned, closed, command, window, inflight, outputs>>

\* No generation is left: the ordering is closed and the denial fails.
ReserveFails(d) ==
    /\ MayDeny(d)
    /\ generation = MaxGeneration
    /\ closed' = TRUE
    /\ Proceed(d, "failed")
    /\ UNCHANGED <<generation, active, pending, owned, command, window,
                   inflight, outputs>>

\* Mutant: the wait looks at publications only.
OwnBeside(d) ==
    /\ denial[d].pc = "waiting"
    /\ active = 0
    /\ owned' = TRUE
    /\ Proceed(d, IF denial[d].kind = "drain" THEN "leaving" ELSE "retiring")
    /\ UNCHANGED <<generation, active, pending, closed, command, window,
                   inflight, outputs>>

\* The wait of deny ends.
Own(d) ==
    /\ denial[d].pc = "waiting"
    /\ active = 0
    /\ ~owned
    /\ owned' = TRUE
    /\ Proceed(d, IF denial[d].kind = "drain" THEN "leaving" ELSE "retiring")
    /\ UNCHANGED <<generation, active, pending, closed, command, window,
                   inflight, outputs>>

AfterRetirement(d) ==
    IF denial[d].kind = "replacement" THEN "leaving" ELSE "applying"

\* execute_current_boundary: nothing is managed, or the managed output is
\* fail-stopped and its lease released.
Retire(d) ==
    /\ denial[d].pc = "retiring"
    /\ authority # "faulted"
    /\ IF authority = "managed"
       THEN role' = "standby" /\ authority' = "none"
       ELSE UNCHANGED outputs
    /\ Proceed(d, AfterRetirement(d))
    /\ UNCHANGED <<ordering, command, window, inflight>>

\* The release fails, or an earlier failure is retained.  The Standby command
\* and the closing window go on and apply Standby, the others give up.
RetireFails(d) ==
    /\ denial[d].pc = "retiring"
    /\ authority \in {"managed", "faulted"}
    /\ role' = IF authority = "managed" THEN "standby" ELSE role
    /\ authority' = "faulted"
    /\ denial' = [denial EXCEPT
                    ![d].clean = "no",
                    ![d].pc = IF denial[d].kind = "standby" THEN "applying"
                              ELSE "leaving"]
    /\ UNCHANGED <<ordering, command, window, inflight>>

ApplyStandby(d) ==
    /\ denial[d].pc = "applying"
    /\ role' = "standby"
    /\ Proceed(d, "leaving")
    /\ UNCHANGED <<ordering, command, window, inflight, authority>>

\* The role change is refused before it starts (a Display publication is
\* active) or fails, which denies the outputs.
ApplyFails(d) ==
    /\ denial[d].pc = "applying"
    /\ role' \in {role, "standby"}
    /\ denial' = [denial EXCEPT ![d].pc = "leaving", ![d].clean = "no"]
    /\ UNCHANGED <<ordering, command, window, inflight, authority>>

\* DenyReservation is dropped.
Release(d) ==
    /\ denial[d].pc = "leaving"
    /\ owned' = FALSE
    /\ pending' = pending - 1
    /\ Proceed(d, IF denial[d].clean = "yes" THEN "done" ELSE "failed")
    /\ UNCHANGED <<generation, active, closed, command, window, inflight,
                   outputs>>

----------------------------------------------------------------------------
(* The main window closes                                                  *)

Seal ==
    /\ window = "open"
    /\ closed' = TRUE
    /\ inflight' = (active # 0)
    /\ window' = "sealed"
    /\ UNCHANGED <<generation, active, pending, owned, command, denial, outputs>>

\* Mutant: a publication in flight when the ordering was sealed is forgotten.
InspectIdleEngine ==
    /\ window = "sealed"
    /\ window' = "inspected"
    /\ \E open \in BOOLEAN :
          denial' = [denial EXCEPT ![Closer].kind =
                       IF open \/ role # "standby" \/ authority # "none"
                       THEN "standby" ELSE "drain"]
    /\ UNCHANGED <<ordering, command, inflight, outputs>>

\* Output windows may be open whatever the role says.
Inspect ==
    /\ window = "sealed"
    /\ window' = "inspected"
    /\ \E open \in BOOLEAN :
          denial' = [denial EXCEPT ![Closer].kind =
                       IF open \/ inflight \/ role # "standby"
                            \/ authority # "none"
                       THEN "standby" ELSE "drain"]
    /\ UNCHANGED <<ordering, command, inflight, outputs>>

----------------------------------------------------------------------------

Publish(p) ==
    \/ Validate(p)
    \/ CommitRole(p)
    \/ CommitFails(p)
    \/ InstallManaged(p)
    \/ InstallFails(p)
    \/ Finish(p)

Deny(d) ==
    \/ Own(d)
    \/ Retire(d)
    \/ RetireFails(d)
    \/ ApplyStandby(d)
    \/ ApplyFails(d)
    \/ Release(d)

Next ==
    \/ \E p \in Publisher :
          Capture(p) \/ Enter(p) \/ TurnedAway(p) \/ Publish(p)
    \/ \E d \in Denier : Reserve(d) \/ ReserveFails(d) \/ Deny(d)
    \/ LeaseEnds
    \/ Seal
    \/ Inspect

Spec == Init /\ [][Next]_vars

\* A command that entered and a denial that was reserved run on a thread that
\* waits for nothing else without a timeout.
FairSpec ==
    /\ Spec
    /\ \A p \in Publisher : WF_vars(Publish(p))
    /\ \A d \in Denier : WF_vars(Deny(d))

----------------------------------------------------------------------------
(* Properties                                                              *)

\* The counters of the ordering count what they are for, so that no wait ends
\* early and none is left waiting for a publication that is over.
OrderingTypeOK ==
    /\ generation \in 0..MaxGeneration
    /\ active = Cardinality(Publishing)
    /\ pending = Cardinality(Waiting \cup Owning)
    /\ owned \in BOOLEAN
    /\ closed \in BOOLEAN
    /\ command \in [Publisher -> Command]
    /\ denial \in [Denier -> Denial]
    /\ window \in {"open", "sealed", "inspected"}
    /\ inflight \in BOOLEAN
    /\ role \in {"standby", "armed"}
    /\ authority \in {"none", "leased", "managed", "faulted"}

\* One denial at a time is past its wait.
OneBoundary ==
    /\ owned = (Owning # {})
    /\ \A d, e \in Owning : d = e

\* A publication that a denial has overtaken is waited for: once a denial is
\* past its wait, and ever after, no earlier ticket publishes.
OvertakenIsAwaited ==
    \A p \in Publishing, d \in Denier :
        denial[d].at > command[p].ticket => d \in Waiting

\* A denial never finds an Enable half done, with its lease committed and no
\* keepalive run that retires it.
EnableIsWhole == Owning # {} => authority # "leased"

\* After the main window's denial is done, nothing drives outputs and nothing
\* will: whatever was being published when the ordering was sealed is undone.
ClosedStaysDenied ==
    denial[Closer].pc = "done" => role = "standby" /\ authority = "none"

\* Every denial gets its turn, however many commands keep coming.
DenialIsServed ==
    \A d \in Denier : d \in Waiting ~> d \notin (Waiting \cup Owning)

=============================================================================
