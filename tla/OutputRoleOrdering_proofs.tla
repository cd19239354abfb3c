---------------------- MODULE OutputRoleOrdering_proofs ----------------------
(***************************************************************************)
(* Proofs about OutputRoleOrdering for any number of publishers, denials   *)
(* and generations.  The invariants of the module follow from one another  *)
(* only with what is added here: that nothing is published past a          *)
(* boundary's wait (Quiet), that a committed lease has a command that will *)
(* install it (LeaseHasOwner), and what sealing leaves behind (Sealed,     *)
(* Closing).                                                               *)
(***************************************************************************)
EXTENDS OutputRoleOrdering, FiniteSetTheorems, TLAPS

PublishingPc == {"admitted", "validated", "committed"}
OwningPc == {"retiring", "applying", "leaving"}

Typed ==
    /\ generation \in 0..MaxGeneration
    /\ active \in Nat
    /\ pending \in Nat
    /\ owned \in BOOLEAN
    /\ closed \in BOOLEAN
    /\ command \in [Publisher -> Command]
    /\ denial \in [Denier -> Denial]
    /\ window \in {"open", "sealed", "inspected"}
    /\ inflight \in BOOLEAN
    /\ role \in {"standby", "armed"}
    /\ authority \in {"none", "leased", "managed", "faulted"}

Counted ==
    /\ active = Cardinality(Publishing)
    /\ pending = Cardinality(Waiting \cup Owning)

Bounded ==
    /\ \A p \in Publisher : command[p].ticket <= generation
    /\ \A d \in Denier : denial[d].at <= generation

Quiet == Owning # {} => Publishing = {}

LeaseHasOwner ==
    authority = "leased" =>
        \E p \in Publisher : /\ command[p].pc = "committed"
                             /\ command[p].action = "enable"

Sealed ==
    /\ window # "open" => closed
    /\ window # "open" /\ ~inflight => Publishing = {}
    /\ window # "inspected" => denial[Closer].pc = "unasked"
    /\ window = "inspected" => denial[Closer].kind \in {"standby", "drain"}

Denied == role = "standby" /\ authority = "none"

Closing ==
    /\ denial[Closer].pc \in OwningPc \cup {"done"} => Publishing = {}
    /\ window = "inspected" /\ denial[Closer].kind = "drain" =>
          Publishing = {} /\ Denied
    /\ denial[Closer].pc = "applying" /\ denial[Closer].clean = "yes" =>
          authority = "none"
    /\ denial[Closer].pc = "leaving" /\ denial[Closer].clean = "yes" => Denied
    /\ denial[Closer].pc = "done" => Denied

Sound ==
    /\ Typed
    /\ Counted
    /\ Bounded
    /\ OneBoundary
    /\ Quiet
    /\ OvertakenIsAwaited
    /\ LeaseHasOwner
    /\ Sealed
    /\ Closing

(***************************************************************************)
(* Moving one command, or one denial                                       *)
(***************************************************************************)

\* Continue changes the place of one command and nothing else of any.
LEMMA ContinueEffect ==
    ASSUME Typed, NEW p \in Publisher,
           NEW pc \in {"away", "ticketed", "admitted", "validated", "committed"},
           Continue(p, pc)
    PROVE  /\ command' \in [Publisher -> Command]
           /\ command'[p].pc = pc
           /\ \A q \in Publisher : q # p => command'[q] = command[q]
           /\ \A q \in Publisher : /\ command'[q].action = command[q].action
                                   /\ command'[q].ticket = command[q].ticket
           /\ Publishing' = IF pc \in PublishingPc THEN Publishing \cup {p}
                            ELSE Publishing \ {p}
<1>1. command' = [command EXCEPT ![p] = [command[p] EXCEPT !.pc = pc]]
  BY DEF Continue
<1>2. command[p] \in Command
  BY DEF Typed
<1>3. /\ command' \in [Publisher -> Command]
      /\ command'[p].pc = pc
      /\ \A q \in Publisher : q # p => command'[q] = command[q]
      /\ \A q \in Publisher : /\ command'[q].action = command[q].action
                              /\ command'[q].ticket = command[q].ticket
  BY <1>1, <1>2 DEF Typed, Command
<1>4. Publishing' = IF pc \in PublishingPc THEN Publishing \cup {p}
                    ELSE Publishing \ {p}
  BY <1>3 DEF Publishing, PublishingPc
<1>5. QED
  BY <1>3, <1>4

\* A command that goes away publishes no more, and takes its ticket along.
LEMMA GoAwayEffect ==
    ASSUME Typed, NEW p \in Publisher, GoAway(p)
    PROVE  /\ command' \in [Publisher -> Command]
           /\ command'[p] = Away
           /\ \A q \in Publisher : q # p => command'[q] = command[q]
           /\ Publishing' = Publishing \ {p}
<1>1. Away \in Command
  BY OrderingConstants DEF Away, Command
<1>2. /\ command' \in [Publisher -> Command]
      /\ command'[p] = Away
      /\ \A q \in Publisher : q # p => command'[q] = command[q]
  BY <1>1 DEF Typed, GoAway
<1>3. Publishing' = Publishing \ {p}
  BY <1>2 DEF Publishing, Away
<1>4. QED
  BY <1>2, <1>3

\* Proceed changes the place of one denial and nothing else of any.
LEMMA ProceedEffect ==
    ASSUME Typed, NEW d \in Denier,
           NEW pc \in {"waiting", "retiring", "applying", "leaving", "done",
                       "failed"},
           Proceed(d, pc)
    PROVE  /\ denial' \in [Denier -> Denial]
           /\ denial'[d].pc = pc
           /\ \A e \in Denier : e # d => denial'[e] = denial[e]
           /\ \A e \in Denier : /\ denial'[e].kind = denial[e].kind
                                /\ denial'[e].at = denial[e].at
                                /\ denial'[e].clean = denial[e].clean
           /\ Owning' = IF pc \in OwningPc THEN Owning \cup {d}
                        ELSE Owning \ {d}
           /\ Waiting' = IF pc = "waiting" THEN Waiting \cup {d}
                         ELSE Waiting \ {d}
<1>1. denial' = [denial EXCEPT ![d] = [denial[d] EXCEPT !.pc = pc]]
  BY DEF Proceed
<1>2. denial[d] \in Denial
  BY DEF Typed
<1>3. /\ denial' \in [Denier -> Denial]
      /\ denial'[d].pc = pc
      /\ \A e \in Denier : e # d => denial'[e] = denial[e]
      /\ \A e \in Denier : /\ denial'[e].kind = denial[e].kind
                           /\ denial'[e].at = denial[e].at
                           /\ denial'[e].clean = denial[e].clean
  BY <1>1, <1>2 DEF Typed, Denial
<1>4. QED
  BY <1>3 DEF Owning, Waiting, OwningPc

\* The sets the counters count are finite.
LEMMA CountedSets ==
    /\ IsFiniteSet(Publishing)
    /\ IsFiniteSet(Waiting \cup Owning)
<1>1. Publishing \subseteq Publisher /\ Waiting \cup Owning \subseteq Denier
  BY DEF Publishing, Waiting, Owning
<1>2. QED
  BY <1>1, OrderingConstants, FS_Subset

\* A counter of zero counts nothing.
LEMMA NoneCounted ==
    ASSUME Counted
    PROVE  /\ active = 0 <=> Publishing = {}
           /\ pending = 0 <=> Waiting \cup Owning = {}
  BY CountedSets, FS_EmptySet DEF Counted

\* What one arriving or leaving element does to a counter.
LEMMA OneMore ==
    ASSUME NEW S, IsFiniteSet(S), NEW x, x \notin S
    PROVE  /\ IsFiniteSet(S \cup {x})
           /\ Cardinality(S \cup {x}) = Cardinality(S) + 1
           /\ Cardinality(S) \in Nat
  BY FS_AddElement, FS_CardinalityType

\* The same when it leaves.
LEMMA OneLess ==
    ASSUME NEW S, IsFiniteSet(S), NEW x \in S
    PROVE  /\ Cardinality(S \ {x}) = Cardinality(S) - 1
           /\ Cardinality(S \ {x}) \in Nat
<1>1. IsFiniteSet(S \ {x})
  BY FS_Subset
<1>2. (S \ {x}) \cup {x} = S
  OBVIOUS
<1>3. QED
  BY <1>1, <1>2, FS_AddElement, FS_CardinalityType

(***************************************************************************)
(* Publishers                                                              *)
(***************************************************************************)

\* What every step of a publisher leaves alone.
PublisherFrame ==
    UNCHANGED <<generation, pending, owned, closed, denial, window, inflight>>

\* The order of publications and denials survives when no command starts to
\* publish and no ticket changes hands.
LEMMA OrderKept ==
    ASSUME Sound, PublisherFrame, Publishing' \subseteq Publishing,
           command' \in [Publisher -> Command],
           \A q \in Publishing' : command'[q].ticket = command[q].ticket,
           \A q \in Publisher : command'[q].ticket <= generation
    PROVE  /\ Bounded'
           /\ OneBoundary'
           /\ Quiet'
           /\ OvertakenIsAwaited'
           /\ Sealed'
<1>1. Waiting' = Waiting /\ Owning' = Owning
  BY DEF PublisherFrame, Waiting, Owning
<1>2. Bounded'
  BY DEF Sound, Bounded, PublisherFrame
<1>3. OneBoundary' /\ Quiet'
  BY <1>1 DEF Sound, OneBoundary, Quiet, PublisherFrame
<1>4. OvertakenIsAwaited'
  <2> SUFFICES ASSUME NEW p \in Publishing', NEW d \in Denier,
                      denial[d].at > command'[p].ticket
               PROVE  d \in Waiting
    BY <1>1 DEF OvertakenIsAwaited, PublisherFrame
  <2> QED
    BY DEF Sound, OvertakenIsAwaited
<1>5. Sealed'
  BY DEF Sound, Sealed, PublisherFrame
<1>6. QED
  BY <1>2, <1>3, <1>4, <1>5

\* A capture hands out a ticket of the current generation.
LEMMA CaptureSound ==
    ASSUME Sound, NEW p \in Publisher, Capture(p)
    PROVE  Sound'
<1>1. PICK a \in {"enable", "arm", "replay"} :
        command' = [command EXCEPT ![p] = [pc |-> "ticketed", action |-> a,
                                           ticket |-> generation]]
  BY DEF Capture
<1>2. /\ command' \in [Publisher -> Command]
      /\ Publishing' = Publishing
      /\ \A q \in Publisher : q # p => command'[q] = command[q]
      /\ \A q \in Publishing : q # p
      /\ command'[p].ticket = generation
  BY <1>1 DEF Sound, Typed, Command, Publishing, Capture
<1>3. PublisherFrame /\ UNCHANGED <<active, role, authority>>
  BY DEF Capture, PublisherFrame, ordering, outputs
<1>4. \A q \in Publisher : command'[q].ticket <= generation
  BY <1>2 DEF Sound, Bounded, Typed
<1>5. \A q \in Publishing' : command'[q].ticket = command[q].ticket
  BY <1>2 DEF Publishing
<1>6. /\ Bounded' /\ OneBoundary' /\ Quiet' /\ OvertakenIsAwaited' /\ Sealed'
  BY <1>2, <1>3, <1>4, <1>5, OrderKept
<1>7. Typed' /\ Counted'
  BY <1>2, <1>3 DEF Sound, Typed, Counted, PublisherFrame, Waiting, Owning
<1>8. LeaseHasOwner'
  BY <1>2, <1>3 DEF Sound, LeaseHasOwner, Capture
<1>9. Closing'
  BY <1>2, <1>3 DEF Sound, Closing, PublisherFrame, Denied
<1>10. QED
  BY <1>6, <1>7, <1>8, <1>9 DEF Sound

\* While a command publishes, the window's denial has not got past its wait.
LEMMA ClosingWhilePublishing ==
    ASSUME Sound, PublisherFrame, Publishing # {}
    PROVE  Closing'
  BY DEF Sound, Closing, PublisherFrame, OwningPc

\* A publishing command goes on publishing, whatever it does to the outputs.
LEMMA StaySound ==
    ASSUME Sound, NEW p \in Publishing, NEW pc \in PublishingPc,
           Continue(p, pc), PublisherFrame, active' = active,
           role' \in {"standby", "armed"},
           authority' \in {"none", "leased", "managed", "faulted"},
           LeaseHasOwner'
    PROVE  Sound'
<1>1. p \in Publisher
  BY DEF Publishing
<1>2. /\ command' \in [Publisher -> Command]
      /\ \A q \in Publisher : command'[q].ticket = command[q].ticket
      /\ Publishing' = Publishing
  BY <1>1, ContinueEffect DEF Sound, PublishingPc
<1>3. /\ Bounded' /\ OneBoundary' /\ Quiet' /\ OvertakenIsAwaited' /\ Sealed'
  <2>1. \A q \in Publisher : command'[q].ticket <= generation
    BY <1>2 DEF Sound, Bounded
  <2>2. \A q \in Publishing' : command'[q].ticket = command[q].ticket
    BY <1>2 DEF Publishing
  <2>3. QED
    BY <1>2, <2>1, <2>2, OrderKept
<1>4. Typed' /\ Counted'
  BY <1>2 DEF Sound, Typed, Counted, PublisherFrame, Waiting, Owning
<1>5. Closing'
  BY ClosingWhilePublishing
<1>6. QED
  BY <1>3, <1>4, <1>5 DEF Sound

\* A publishing command leaves, whatever it does to the outputs.
LEMMA LeaveSound ==
    ASSUME Sound, NEW p \in Publishing, GoAway(p), PublisherFrame,
           active' = active - 1,
           role' \in {"standby", "armed"},
           authority' \in {"none", "leased", "managed", "faulted"},
           LeaseHasOwner'
    PROVE  Sound'
<1>1. p \in Publisher
  BY DEF Publishing
<1>2. /\ command' \in [Publisher -> Command]
      /\ command'[p].ticket = 0
      /\ \A q \in Publisher : q # p => command'[q] = command[q]
      /\ Publishing' = Publishing \ {p}
  BY <1>1, GoAwayEffect DEF Sound, Away
<1>3. /\ Bounded' /\ OneBoundary' /\ Quiet' /\ OvertakenIsAwaited' /\ Sealed'
  <2>1. \A q \in Publisher : command'[q].ticket <= generation
    BY <1>2 DEF Sound, Bounded, Typed
  <2>2. \A q \in Publishing' : command'[q].ticket = command[q].ticket
    BY <1>2 DEF Publishing
  <2>3. QED
    BY <1>2, <2>1, <2>2, OrderKept
<1>4. active' = Cardinality(Publishing') /\ active' \in Nat
  BY <1>2, CountedSets, OneLess DEF Sound, Counted
<1>5. Typed' /\ Counted'
  BY <1>2, <1>4 DEF Sound, Typed, Counted, PublisherFrame, Waiting, Owning
<1>6. Closing'
  BY ClosingWhilePublishing
<1>7. QED
  BY <1>3, <1>5, <1>6 DEF Sound

\* A command enters only when no denial is reserved and nothing is sealed.
LEMMA EnterSound ==
    ASSUME Sound, NEW p \in Publisher, Enter(p)
    PROVE  Sound'
<1>1. /\ PublisherFrame
      /\ Continue(p, "admitted")
      /\ active' = active + 1
      /\ p \notin Publishing
      /\ ~closed
      /\ command[p].ticket = generation
      /\ UNCHANGED <<role, authority>>
  BY DEF Enter, PublisherFrame, outputs, Current, Admits, Publishing
<1>2. /\ command' \in [Publisher -> Command]
      /\ command'[p].pc = "admitted"
      /\ \A q \in Publisher : q # p => command'[q] = command[q]
      /\ \A q \in Publisher : command'[q].ticket = command[q].ticket
      /\ Publishing' = Publishing \cup {p}
  BY <1>1, ContinueEffect DEF Sound, PublishingPc
<1>3. Waiting = {} /\ Owning = {} /\ Waiting' = Waiting /\ Owning' = Owning
  <2>1. pending = 0
    BY DEF Enter, Current, Admits
  <2>2. QED
    BY <1>1, <2>1, NoneCounted DEF Sound, PublisherFrame, Waiting, Owning
<1>4. Typed' /\ Counted'
  <2>1. active' = Cardinality(Publishing') /\ active' \in Nat
    BY <1>1, <1>2, CountedSets, OneMore DEF Sound, Counted
  <2>2. QED
    BY <1>1, <1>2, <1>3, <2>1 DEF Sound, Typed, Counted, PublisherFrame
<1>5. Bounded' /\ OneBoundary' /\ Quiet'
  BY <1>1, <1>2, <1>3 DEF Sound, Bounded, OneBoundary, Quiet, PublisherFrame
<1>6. OvertakenIsAwaited'
  <2> SUFFICES ASSUME NEW q \in Publishing', NEW d \in Denier,
                      denial[d].at > command'[q].ticket
               PROVE  d \in Waiting
    BY <1>1, <1>3 DEF OvertakenIsAwaited, PublisherFrame
  <2>1. q # p
    BY <1>1, <1>2 DEF Sound, Bounded, Typed, Denial, Command
  <2>2. QED
    BY <1>2, <2>1 DEF Sound, OvertakenIsAwaited, Publishing
<1>7. window = "open" /\ denial[Closer].pc = "unasked"
  BY <1>1 DEF Sound, Sealed, Typed
<1>8. Sealed' /\ Closing'
  BY <1>1, <1>7 DEF Sound, Sealed, Closing, PublisherFrame, OwningPc
<1>9. LeaseHasOwner'
  <2> SUFFICES ASSUME authority = "leased"
               PROVE  \E q \in Publisher : /\ command'[q].pc = "committed"
                                           /\ command'[q].action = "enable"
    BY <1>1 DEF LeaseHasOwner
  <2>1. PICK q \in Publisher : /\ command[q].pc = "committed"
                               /\ command[q].action = "enable"
    BY DEF Sound, LeaseHasOwner
  <2>2. q # p
    BY <1>1, <2>1 DEF Publishing
  <2>3. QED
    BY <1>2, <2>1, <2>2
<1>10. QED
  BY <1>4, <1>5, <1>6, <1>8, <1>9 DEF Sound

\* Another command still owns the lease after a step that is not its own.
LEMMA LeaseOwnerRemains ==
    ASSUME Sound, NEW p \in Publisher,
           \A q \in Publisher : q # p => command'[q] = command[q],
           authority' = authority,
           ~(command[p].pc = "committed" /\ command[p].action = "enable")
    PROVE  LeaseHasOwner'
<1> SUFFICES ASSUME authority = "leased"
             PROVE  \E q \in Publisher : /\ command'[q].pc = "committed"
                                         /\ command'[q].action = "enable"
  BY DEF LeaseHasOwner
<1>1. PICK q \in Publisher : /\ command[q].pc = "committed"
                             /\ command[q].action = "enable"
  BY DEF Sound, LeaseHasOwner
<1>2. command'[q] = command[q]
  BY <1>1
<1>3. QED
  BY <1>1, <1>2

\* A command turned away never published.
LEMMA TurnedAwaySound ==
    ASSUME Sound, NEW p \in Publisher, TurnedAway(p)
    PROVE  Sound'
<1>1. /\ PublisherFrame
      /\ GoAway(p)
      /\ p \notin Publishing
      /\ UNCHANGED <<active, role, authority>>
  BY DEF TurnedAway, PublisherFrame, ordering, outputs, Publishing
<1>2. /\ command' \in [Publisher -> Command]
      /\ command'[p].ticket = 0
      /\ \A q \in Publisher : q # p => command'[q] = command[q]
      /\ Publishing' = Publishing
  <2>1. Publishing' = Publishing \ {p}
    BY <1>1, GoAwayEffect DEF Sound
  <2>2. QED
    BY <1>1, <2>1, GoAwayEffect DEF Sound, Away
<1>3. /\ Bounded' /\ OneBoundary' /\ Quiet' /\ OvertakenIsAwaited' /\ Sealed'
  <2>1. \A q \in Publisher : command'[q].ticket <= generation
    BY <1>2 DEF Sound, Bounded, Typed
  <2>2. \A q \in Publishing' : command'[q].ticket = command[q].ticket
    BY <1>1, <1>2 DEF Publishing
  <2>3. QED
    BY <1>1, <1>2, <2>1, <2>2, OrderKept
<1>4. Typed' /\ Counted' /\ Closing'
  BY <1>1, <1>2 DEF Sound, Typed, Counted, Closing, Denied, PublisherFrame,
                    Waiting, Owning
<1>5. LeaseHasOwner'
  BY <1>1, <1>2, LeaseOwnerRemains DEF TurnedAway
<1>6. QED
  BY <1>3, <1>4, <1>5 DEF Sound

\* Every step of a command that publishes keeps the ordering sound.
LEMMA PublishSound ==
    ASSUME Sound, NEW p \in Publisher, Publish(p)
    PROVE  Sound'
<1>1. CASE Validate(p)
  <2>1. /\ PublisherFrame
        /\ Continue(p, "validated")
        /\ p \in Publishing
        /\ UNCHANGED <<active, role, authority>>
    BY <1>1 DEF Validate, PublisherFrame, ordering, outputs, Publishing
  <2>2. LeaseHasOwner'
    BY <1>1, <2>1, ContinueEffect, LeaseOwnerRemains DEF Sound, Validate
  <2>3. QED
    BY <2>1, <2>2, StaySound DEF Sound, Typed, PublishingPc
<1>2. CASE CommitRole(p)
  <2>1. /\ PublisherFrame
        /\ Continue(p, "committed")
        /\ p \in Publishing
        /\ active' = active
        /\ role' = "armed"
    BY <1>2 DEF CommitRole, PublisherFrame, ordering, Publishing
  <2>2. LeaseHasOwner'
    <3>1. CASE command[p].action = "enable"
      BY <2>1, <3>1, ContinueEffect DEF Sound, LeaseHasOwner
    <3>2. CASE command[p].action # "enable"
      <4>1. authority' = authority
        BY <1>2, <3>2 DEF CommitRole
      <4>2. QED
        BY <2>1, <3>2, <4>1, ContinueEffect, LeaseOwnerRemains DEF Sound
    <3>3. QED
      BY <3>1, <3>2
  <2>3. authority' \in {"none", "leased", "managed", "faulted"}
    BY <1>2 DEF CommitRole, Sound, Typed
  <2>4. QED
    BY <2>1, <2>2, <2>3, StaySound DEF PublishingPc
<1>3. CASE CommitFails(p)
  <2>1. /\ PublisherFrame
        /\ GoAway(p)
        /\ p \in Publishing
        /\ active' = active - 1
        /\ role' = "standby"
        /\ authority' = authority
    BY <1>3 DEF CommitFails, PublisherFrame, Publishing
  <2>2. LeaseHasOwner'
    BY <1>3, <2>1, GoAwayEffect, LeaseOwnerRemains DEF Sound, CommitFails
  <2>3. QED
    BY <2>1, <2>2, LeaveSound DEF Sound, Typed
<1>4. CASE InstallManaged(p)
  <2>1. /\ PublisherFrame
        /\ GoAway(p)
        /\ p \in Publishing
        /\ active' = active - 1
        /\ role' = role
        /\ authority' = "managed"
    BY <1>4 DEF InstallManaged, Installing, Leave, PublisherFrame, Publishing
  <2>2. LeaseHasOwner'
    BY <2>1 DEF LeaseHasOwner
  <2>3. QED
    BY <2>1, <2>2, LeaveSound DEF Sound, Typed
<1>5. CASE InstallFails(p)
  <2>1. /\ PublisherFrame
        /\ GoAway(p)
        /\ p \in Publishing
        /\ active' = active - 1
        /\ role' = "standby"
        /\ authority' \in {"none", "faulted"}
    BY <1>5 DEF InstallFails, Installing, Leave, PublisherFrame, Publishing
  <2>2. LeaseHasOwner'
    BY <2>1 DEF LeaseHasOwner
  <2>3. QED
    BY <2>1, <2>2, LeaveSound
<1>6. CASE Finish(p)
  <2>1. /\ PublisherFrame
        /\ GoAway(p)
        /\ p \in Publishing
        /\ active' = active - 1
        /\ UNCHANGED <<role, authority>>
    BY <1>6 DEF Finish, Leave, PublisherFrame, Publishing, outputs
  <2>2. LeaseHasOwner'
    BY <1>6, <2>1, GoAwayEffect, LeaseOwnerRemains DEF Sound, Finish
  <2>3. QED
    BY <2>1, <2>2, LeaveSound DEF Sound, Typed
<1>7. QED
  BY <1>1, <1>2, <1>3, <1>4, <1>5, <1>6 DEF Publish

(***************************************************************************)
(* Denials                                                                 *)
(***************************************************************************)

DenierFrame == UNCHANGED <<active, command, window, inflight>>

\* Commands publish as before when none of them moves.
LEMMA CommandsUnmoved ==
    ASSUME command' = command
    PROVE  Publishing' = Publishing
  BY DEF Publishing

\* A reservation supersedes every ticket and starts to wait.
LEMMA ReserveSound ==
    ASSUME Sound, NEW d \in Denier, Reserve(d)
    PROVE  Sound'
<1>1. /\ DenierFrame
      /\ generation' = generation + 1
      /\ generation + 1 \in 0..MaxGeneration
      /\ pending' = pending + 1
      /\ denial[d].pc \in {"unasked", "done", "failed"}
      /\ d = Closer => window = "inspected" /\ denial[d].pc = "unasked"
      /\ UNCHANGED <<owned, closed, role, authority>>
  BY OrderingConstants DEF Reserve, MayDeny, DenierFrame, outputs, Sound, Typed
<1>2. PICK k \in Asked(d) :
        denial' = [denial EXCEPT ![d] = [pc |-> "waiting", kind |-> k,
                                         at |-> generation + 1,
                                         clean |-> "yes"]]
  BY DEF Reserve
<1>3. /\ denial[d] \in Denial
      /\ k \in {"standby", "sync", "replacement", "drain"}
      /\ d = Closer => k = denial[d].kind
  BY DEF Sound, Typed, Denial, Asked
<1>4. /\ denial' \in [Denier -> Denial]
      /\ denial'[d].pc = "waiting"
      /\ denial'[d].at = generation + 1
      /\ d = Closer => denial'[d].kind = denial[d].kind
      /\ \A e \in Denier : e # d => denial'[e] = denial[e]
  BY <1>1, <1>2, <1>3 DEF Sound, Typed, Denial
<1>5. /\ Waiting' = Waiting \cup {d}
      /\ Owning' = Owning
      /\ d \notin Waiting \cup Owning
      /\ Publishing' = Publishing
  BY <1>1, <1>4, CommandsUnmoved DEF Waiting, Owning, DenierFrame
<1>6. Typed' /\ Counted'
  <2>1. Waiting' \cup Owning' = (Waiting \cup Owning) \cup {d}
    BY <1>5
  <2>2. pending' = Cardinality(Waiting' \cup Owning') /\ pending' \in Nat
    BY <1>1, <1>5, <2>1, CountedSets, OneMore DEF Sound, Counted
  <2>3. QED
    BY <1>1, <1>4, <1>5, <2>2 DEF Sound, Typed, Counted, DenierFrame
<1>7. Bounded'
  BY <1>1, <1>4 DEF Sound, Bounded, Typed, DenierFrame, Command, Denial
<1>8. OneBoundary' /\ Quiet' /\ LeaseHasOwner'
  BY <1>1, <1>5 DEF Sound, OneBoundary, Quiet, LeaseHasOwner, DenierFrame
<1>9. OvertakenIsAwaited'
  BY <1>1, <1>4, <1>5 DEF Sound, OvertakenIsAwaited, DenierFrame
<1>10. Sealed'
  BY <1>1, <1>4, <1>5, OrderingConstants DEF Sound, Sealed, DenierFrame
<1>11. Closing'
  BY <1>1, <1>4, <1>5, OrderingConstants
  DEF Sound, Closing, DenierFrame, OwningPc, Denied
<1>12. QED
  BY <1>6, <1>7, <1>8, <1>9, <1>10, <1>11 DEF Sound

\* A denial that cannot get a generation closes the ordering.
LEMMA ReserveFailsSound ==
    ASSUME Sound, NEW d \in Denier, ReserveFails(d)
    PROVE  Sound'
<1>1. /\ DenierFrame
      /\ denial[d].pc \in {"unasked", "done", "failed"}
      /\ d = Closer => window = "inspected" /\ denial[d].pc = "unasked"
      /\ closed' = TRUE
      /\ Proceed(d, "failed")
      /\ UNCHANGED <<generation, pending, owned, role, authority>>
  BY DEF ReserveFails, MayDeny, DenierFrame, outputs
<1>2. /\ denial' \in [Denier -> Denial]
      /\ denial'[d].pc = "failed"
      /\ \A e \in Denier : e # d => denial'[e] = denial[e]
      /\ \A e \in Denier : /\ denial'[e].kind = denial[e].kind
                           /\ denial'[e].at = denial[e].at
                           /\ denial'[e].clean = denial[e].clean
      /\ Owning' = Owning \ {d}
      /\ Waiting' = Waiting \ {d}
  BY <1>1, ProceedEffect DEF Sound, OwningPc
<1>3. Owning' = Owning /\ Waiting' = Waiting /\ Publishing' = Publishing
  BY <1>1, <1>2, CommandsUnmoved DEF Waiting, Owning, DenierFrame
<1>4. Typed' /\ Counted' /\ Bounded'
  BY <1>1, <1>2, <1>3 DEF Sound, Typed, Counted, Bounded, DenierFrame
<1>5. OneBoundary' /\ Quiet' /\ LeaseHasOwner' /\ OvertakenIsAwaited'
  BY <1>1, <1>2, <1>3
  DEF Sound, OneBoundary, Quiet, LeaseHasOwner, OvertakenIsAwaited, DenierFrame
<1>6. Sealed' /\ Closing'
  BY <1>1, <1>2, <1>3, OrderingConstants
  DEF Sound, Sealed, Closing, DenierFrame, OwningPc, Denied
<1>7. QED
  BY <1>4, <1>5, <1>6 DEF Sound

\* Nothing is published when a denial's wait ends, and no other owns.
LEMMA OwnSound ==
    ASSUME Sound, NEW d \in Denier, Own(d)
    PROVE  Sound'
<1> DEFINE pc == IF denial[d].kind = "drain" THEN "leaving" ELSE "retiring"
<1>1. /\ DenierFrame
      /\ active = 0
      /\ ~owned
      /\ owned' = TRUE
      /\ denial[d].pc = "waiting"
      /\ Proceed(d, pc)
      /\ UNCHANGED <<generation, pending, closed, role, authority>>
  BY DEF Own, DenierFrame, outputs
<1>2. pc \in OwningPc
  BY DEF OwningPc
<1>3. /\ denial' \in [Denier -> Denial]
      /\ denial'[d].pc = pc
      /\ \A e \in Denier : e # d => denial'[e] = denial[e]
      /\ \A e \in Denier : /\ denial'[e].kind = denial[e].kind
                           /\ denial'[e].at = denial[e].at
                           /\ denial'[e].clean = denial[e].clean
      /\ Owning' = Owning \cup {d}
      /\ Waiting' = Waiting \ {d}
  <2>1. pc \in {"waiting", "retiring", "applying", "leaving", "done", "failed"}
    OBVIOUS
  <2>2. pc # "waiting"
    OBVIOUS
  <2> HIDE DEF pc
  <2>3. QED
    BY <1>1, <1>2, <2>1, <2>2, ProceedEffect DEF Sound
<1>4. /\ Publishing = {}
      /\ Publishing' = {}
      /\ Owning = {}
      /\ Owning' = {d}
      /\ Waiting' \cup Owning' = Waiting \cup Owning
  <2>1. Publishing = {}
    BY <1>1, NoneCounted DEF Sound
  <2>2. Owning = {}
    BY <1>1 DEF Sound, OneBoundary
  <2>3. d \in Waiting
    BY <1>1 DEF Waiting
  <2>4. QED
    BY <1>1, <1>3, <2>1, <2>2, <2>3, CommandsUnmoved DEF DenierFrame
<1>5. Typed' /\ Counted' /\ Bounded'
  BY <1>1, <1>3, <1>4 DEF Sound, Typed, Counted, Bounded, DenierFrame
<1>6. OneBoundary' /\ Quiet' /\ LeaseHasOwner' /\ OvertakenIsAwaited'
  BY <1>1, <1>4
  DEF Sound, OneBoundary, Quiet, LeaseHasOwner, OvertakenIsAwaited, DenierFrame
<1>7. d = Closer => window = "inspected"
  BY <1>1 DEF Sound, Sealed
<1>8. Sealed'
  BY <1>1, <1>3, <1>4, <1>7, OrderingConstants DEF Sound, Sealed, DenierFrame
<1>9. Closing'
  <2>1. CASE d = Closer
    BY <1>1, <1>3, <1>4, <1>7, <2>1 DEF Sound, Closing, DenierFrame, Denied
  <2>2. CASE d # Closer
    BY <1>1, <1>3, <1>4, <2>2, OrderingConstants
    DEF Sound, Closing, DenierFrame, Denied
  <2>3. QED
    BY <2>1, <2>2
<1>10. QED
  BY <1>5, <1>6, <1>8, <1>9 DEF Sound

\* A step of the denial that owns the boundary, up to its leaving: the outputs
\* change, but no command publishes and the boundary stays owned.
LEMMA BoundarySound ==
    ASSUME Sound, NEW d \in Owning, DenierFrame,
           UNCHANGED <<generation, pending, owned, closed>>,
           denial' \in [Denier -> Denial],
           denial'[d].pc \in OwningPc,
           \A e \in Denier : e # d => denial'[e] = denial[e],
           denial'[d].kind = denial[d].kind,
           denial'[d].at = denial[d].at,
           role' \in {"standby", "armed"},
           authority' \in {"none", "managed", "faulted"},
           Denied => Denied',
           authority = "none" => authority' = "none",
           d = Closer => (denial'[d].clean = "yes" /\ denial'[d].pc = "applying"
                            => authority' = "none"),
           d = Closer => (denial'[d].clean = "yes" /\ denial'[d].pc = "leaving"
                            => Denied')
    PROVE  Sound'
<1>1. /\ Waiting' = Waiting
      /\ Owning' = Owning
      /\ Publishing' = Publishing
      /\ Publishing = {}
  <2>1. d \in Denier /\ denial[d].pc \in OwningPc
    BY DEF Owning, OwningPc
  <2>2. Publishing = {}
    BY DEF Sound, Quiet
  <2>3. QED
    BY <2>1, <2>2, CommandsUnmoved DEF Waiting, Owning, OwningPc, DenierFrame
<1>2. Typed' /\ Counted' /\ Bounded'
  BY <1>1 DEF Sound, Typed, Counted, Bounded, DenierFrame, Owning
<1>3. OneBoundary' /\ Quiet' /\ LeaseHasOwner' /\ OvertakenIsAwaited'
  BY <1>1
  DEF Sound, OneBoundary, Quiet, LeaseHasOwner, OvertakenIsAwaited, DenierFrame
<1>4. d = Closer => window = "inspected"
  BY DEF Sound, Sealed, Owning
<1>5. Sealed'
  BY <1>1, <1>4, OrderingConstants DEF Sound, Sealed, DenierFrame, Owning
<1>6. Closing'
  <2>1. CASE d = Closer
    BY <1>1, <1>4, <2>1 DEF Sound, Closing, DenierFrame, OwningPc
  <2>2. CASE d # Closer
    BY <1>1, <2>2, OrderingConstants DEF Sound, Closing, DenierFrame
  <2>3. QED
    BY <2>1, <2>2
<1>7. QED
  BY <1>2, <1>3, <1>5, <1>6 DEF Sound

\* The boundary is given up; what the outputs were left in stays.
LEMMA ReleaseSound ==
    ASSUME Sound, NEW d \in Denier, Release(d)
    PROVE  Sound'
<1> DEFINE pc == IF denial[d].clean = "yes" THEN "done" ELSE "failed"
<1>1. /\ DenierFrame
      /\ denial[d].pc = "leaving"
      /\ owned' = FALSE
      /\ pending' = pending - 1
      /\ Proceed(d, pc)
      /\ UNCHANGED <<generation, closed, role, authority>>
  BY DEF Release, DenierFrame, outputs
<1>2. /\ denial' \in [Denier -> Denial]
      /\ denial'[d].pc = pc
      /\ \A e \in Denier : e # d => denial'[e] = denial[e]
      /\ \A e \in Denier : /\ denial'[e].kind = denial[e].kind
                           /\ denial'[e].at = denial[e].at
                           /\ denial'[e].clean = denial[e].clean
      /\ Owning' = Owning \ {d}
      /\ Waiting' = Waiting \ {d}
  <2>1. pc \in {"waiting", "retiring", "applying", "leaving", "done", "failed"}
    OBVIOUS
  <2>2. pc \notin OwningPc /\ pc # "waiting"
    BY DEF OwningPc
  <2> HIDE DEF pc
  <2>3. QED
    BY <1>1, <2>1, <2>2, ProceedEffect DEF Sound
<1>3. /\ d \in Owning
      /\ d \notin Waiting
      /\ Owning = {d}
      /\ Publishing = {}
      /\ Publishing' = {}
  <2>1. d \in Owning /\ d \notin Waiting
    BY <1>1 DEF Owning, Waiting
  <2>2. Owning = {d}
    BY <2>1 DEF Sound, OneBoundary
  <2>3. QED
    BY <1>1, <2>1, <2>2, CommandsUnmoved DEF Sound, Quiet, DenierFrame
<1>4. Typed' /\ Counted' /\ Bounded'
  <2>1. Waiting' \cup Owning' = (Waiting \cup Owning) \ {d}
    BY <1>2, <1>3
  <2>2. pending' = Cardinality(Waiting' \cup Owning') /\ pending' \in Nat
    BY <1>1, <1>3, <2>1, CountedSets, OneLess DEF Sound, Counted
  <2>3. QED
    BY <1>1, <1>2, <1>3, <2>2 DEF Sound, Typed, Counted, Bounded, DenierFrame
<1>5. OneBoundary' /\ Quiet' /\ LeaseHasOwner' /\ OvertakenIsAwaited'
  BY <1>1, <1>2, <1>3
  DEF Sound, OneBoundary, Quiet, LeaseHasOwner, OvertakenIsAwaited, DenierFrame
<1>6. d = Closer => window = "inspected"
  BY <1>1 DEF Sound, Sealed
<1>7. Sealed'
  BY <1>1, <1>2, <1>3, <1>6, OrderingConstants DEF Sound, Sealed, DenierFrame
<1>8. Closing'
  <2>1. CASE d = Closer
    BY <1>1, <1>2, <1>3, <1>6, <2>1
    DEF Sound, Closing, DenierFrame, OwningPc, Denied
  <2>2. CASE d # Closer
    BY <1>1, <1>2, <1>3, <2>2, OrderingConstants
    DEF Sound, Closing, DenierFrame, Denied
  <2>3. QED
    BY <2>1, <2>2
<1>9. QED
  BY <1>4, <1>5, <1>7, <1>8 DEF Sound

\* A boundary never meets a lease that is committed but not installed.
LEMMA OwnedMeansWhole ==
    ASSUME Sound
    PROVE  EnableIsWhole
  BY DEF Sound, Quiet, LeaseHasOwner, EnableIsWhole, Publishing

\* Every step of a denial past its wait keeps the ordering sound.
LEMMA DenySound ==
    ASSUME Sound, NEW d \in Denier, Deny(d)
    PROVE  Sound'
<1>1. /\ denial[d] \in Denial
      /\ role \in {"standby", "armed"}
      /\ authority \in {"none", "leased", "managed", "faulted"}
      /\ denial \in [Denier -> Denial]
  BY DEF Sound, Typed
<1>2. CASE Retire(d)
  <2>1. d \in Owning /\ authority \in {"none", "managed"}
    BY <1>1, <1>2, OwnedMeansWhole DEF Retire, Owning, EnableIsWhole
  <2>2. Proceed(d, AfterRetirement(d)) /\ AfterRetirement(d) \in OwningPc
    BY <1>2 DEF Retire, AfterRetirement, OwningPc
  <2>3. AfterRetirement(d) \in
          {"waiting", "retiring", "applying", "leaving", "done", "failed"}
    BY DEF AfterRetirement
  <2>4. /\ denial' \in [Denier -> Denial]
        /\ denial'[d].pc = AfterRetirement(d)
        /\ \A e \in Denier : e # d => denial'[e] = denial[e]
        /\ denial'[d].kind = denial[d].kind
        /\ denial'[d].at = denial[d].at
    BY <2>2, <2>3, ProceedEffect DEF Sound
  <2>5. DenierFrame /\ UNCHANGED <<generation, pending, owned, closed>>
    BY <1>2 DEF Retire, DenierFrame, ordering
  <2>6. /\ role' \in {"standby", "armed"}
        /\ authority' = "none"
        /\ Denied => Denied'
    BY <1>1, <1>2, <2>1 DEF Retire, outputs, Denied
  <2>7. d = Closer => denial'[d].pc = "applying"
    BY <1>2, <2>4 DEF Sound, Sealed, Retire, AfterRetirement
  <2>8. QED
    BY <2>1, <2>2, <2>4, <2>5, <2>6, <2>7, BoundarySound
<1>3. CASE RetireFails(d)
  <2> DEFINE pc == IF denial[d].kind = "standby" THEN "applying" ELSE "leaving"
  <2>1. d \in Owning
    BY <1>3 DEF RetireFails, Owning
  <2>2. denial' = [denial EXCEPT
                    ![d] = [denial[d] EXCEPT !.clean = "no", !.pc = pc]]
    BY <1>3 DEF RetireFails
  <2>3. /\ denial' \in [Denier -> Denial]
        /\ denial'[d].pc = pc
        /\ denial'[d].clean = "no"
        /\ \A e \in Denier : e # d => denial'[e] = denial[e]
        /\ denial'[d].kind = denial[d].kind
        /\ denial'[d].at = denial[d].at
    BY <1>1, <2>2 DEF Denial
  <2>4. DenierFrame /\ UNCHANGED <<generation, pending, owned, closed>>
    BY <1>3 DEF RetireFails, DenierFrame, ordering
  <2>5. /\ role' \in {"standby", "armed"}
        /\ authority' = "faulted"
        /\ authority # "none"
    BY <1>1, <1>3 DEF RetireFails
  <2>6. pc \in OwningPc
    BY DEF OwningPc
  <2> HIDE DEF pc
  <2>7. QED
    BY <2>1, <2>3, <2>4, <2>5, <2>6, BoundarySound DEF Denied
<1>4. CASE ApplyStandby(d)
  <2>1. d \in Owning
    BY <1>4 DEF ApplyStandby, Owning
  <2>2. Proceed(d, "leaving")
    BY <1>4 DEF ApplyStandby
  <2>3. /\ denial' \in [Denier -> Denial]
        /\ denial'[d].pc = "leaving"
        /\ \A e \in Denier : e # d => denial'[e] = denial[e]
        /\ denial'[d].kind = denial[d].kind
        /\ denial'[d].at = denial[d].at
        /\ denial'[d].clean = denial[d].clean
    BY <2>2, ProceedEffect DEF Sound
  <2>4. DenierFrame /\ UNCHANGED <<generation, pending, owned, closed>>
    BY <1>4 DEF ApplyStandby, DenierFrame, ordering
  <2>5. role' = "standby" /\ authority' = authority
    BY <1>4 DEF ApplyStandby
  <2>6. authority # "leased"
    BY <2>1, OwnedMeansWhole DEF EnableIsWhole
  <2>7. d = Closer /\ denial[d].clean = "yes" => authority = "none"
    BY <1>4 DEF ApplyStandby, Sound, Closing
  <2>8. QED
    BY <1>1, <2>1, <2>3, <2>4, <2>5, <2>6, <2>7, BoundarySound
    DEF Denied, OwningPc
<1>5. CASE ApplyFails(d)
  <2>1. d \in Owning
    BY <1>5 DEF ApplyFails, Owning
  <2>2. denial' = [denial EXCEPT
                    ![d] = [denial[d] EXCEPT !.pc = "leaving", !.clean = "no"]]
    BY <1>5 DEF ApplyFails
  <2>3. /\ denial' \in [Denier -> Denial]
        /\ denial'[d].pc = "leaving"
        /\ denial'[d].clean = "no"
        /\ \A e \in Denier : e # d => denial'[e] = denial[e]
        /\ denial'[d].kind = denial[d].kind
        /\ denial'[d].at = denial[d].at
    BY <1>1, <2>2 DEF Denial
  <2>4. DenierFrame /\ UNCHANGED <<generation, pending, owned, closed>>
    BY <1>5 DEF ApplyFails, DenierFrame, ordering
  <2>5. role' \in {role, "standby"} /\ authority' = authority
    BY <1>5 DEF ApplyFails
  <2>6. authority # "leased"
    BY <2>1, OwnedMeansWhole DEF EnableIsWhole
  <2>7. QED
    BY <1>1, <2>1, <2>3, <2>4, <2>5, <2>6, BoundarySound DEF Denied, OwningPc
<1>6. QED
  BY <1>2, <1>3, <1>4, <1>5, OwnSound, ReleaseSound DEF Deny

(***************************************************************************)
(* The keepalive run and the closing window                                *)
(***************************************************************************)

\* A run that ends by itself only takes outputs away.
LEMMA LeaseEndsSound == Sound /\ LeaseEnds => Sound'
<1> SUFFICES ASSUME Sound, LeaseEnds  PROVE Sound'
  OBVIOUS
<1>1. /\ UNCHANGED <<generation, active, pending, owned, closed, command, denial,
                     window, inflight>>
      /\ authority \in {"managed", "faulted"}
      /\ role' = "standby"
      /\ authority' \in {"none", "faulted"}
  BY DEF LeaseEnds, ordering
<1>2. Publishing' = Publishing /\ Waiting' = Waiting /\ Owning' = Owning
  BY <1>1 DEF Publishing, Waiting, Owning
<1>3. Typed' /\ Counted' /\ Bounded'
  BY <1>1, <1>2 DEF Sound, Typed, Counted, Bounded
<1>4. OneBoundary' /\ Quiet' /\ LeaseHasOwner' /\ OvertakenIsAwaited'
  BY <1>1, <1>2
  DEF Sound, OneBoundary, Quiet, LeaseHasOwner, OvertakenIsAwaited
<1>5. Sealed' /\ Closing'
  BY <1>1, <1>2 DEF Sound, Sealed, Closing, Denied
<1>6. QED
  BY <1>3, <1>4, <1>5 DEF Sound

\* Sealing closes the ordering and reports what is still being published.
LEMMA SealSound == Sound /\ Seal => Sound'
<1> SUFFICES ASSUME Sound, Seal  PROVE Sound'
  OBVIOUS
<1>1. /\ UNCHANGED <<generation, active, pending, owned, command, denial, role,
                     authority>>
      /\ window = "open" /\ window' = "sealed"
      /\ closed' = TRUE
      /\ inflight' = (active # 0)
  BY DEF Seal, outputs
<1>2. Publishing' = Publishing /\ Waiting' = Waiting /\ Owning' = Owning
  BY <1>1 DEF Publishing, Waiting, Owning
<1>3. Typed' /\ Counted' /\ Bounded'
  BY <1>1, <1>2 DEF Sound, Typed, Counted, Bounded
<1>4. OneBoundary' /\ Quiet' /\ LeaseHasOwner' /\ OvertakenIsAwaited'
  BY <1>1, <1>2
  DEF Sound, OneBoundary, Quiet, LeaseHasOwner, OvertakenIsAwaited
<1>5. ~inflight' => Publishing = {}
  BY <1>1, NoneCounted DEF Sound
<1>6. Sealed' /\ Closing'
  BY <1>1, <1>2, <1>5 DEF Sound, Sealed, Closing, Denied, OwningPc
<1>7. QED
  BY <1>3, <1>4, <1>6 DEF Sound

\* An inspection that finds nothing to stop leaves nothing that could start.
LEMMA InspectSound == Sound /\ Inspect => Sound'
<1> SUFFICES ASSUME Sound, Inspect  PROVE Sound'
  OBVIOUS
<1>1. /\ UNCHANGED <<generation, active, pending, owned, closed, command,
                     inflight, role, authority>>
      /\ window = "sealed" /\ window' = "inspected"
  BY DEF Inspect, ordering, outputs
<1>2. PICK kind \in {"standby", "drain"} :
        /\ denial' = [denial EXCEPT ![Closer] =
                        [denial[Closer] EXCEPT !.kind = kind]]
        /\ kind = "drain" => ~inflight /\ Denied
  <2>1. PICK open \in BOOLEAN :
          denial' = [denial EXCEPT ![Closer].kind =
                       IF open \/ inflight \/ role # "standby"
                            \/ authority # "none"
                       THEN "standby" ELSE "drain"]
    BY DEF Inspect
  <2>2. CASE open \/ inflight \/ role # "standby" \/ authority # "none"
    BY <2>1, <2>2
  <2>3. CASE ~(open \/ inflight \/ role # "standby" \/ authority # "none")
    BY <2>1, <2>3 DEF Denied
  <2>4. QED
    BY <2>2, <2>3
<1>3. denial[Closer] \in Denial /\ denial[Closer].pc = "unasked"
  BY <1>1, OrderingConstants DEF Sound, Typed, Sealed
<1>4. /\ denial' \in [Denier -> Denial]
      /\ denial'[Closer].kind = kind
      /\ \A e \in Denier : /\ denial'[e].pc = denial[e].pc
                           /\ denial'[e].at = denial[e].at
                           /\ denial'[e].clean = denial[e].clean
  BY <1>2, <1>3, OrderingConstants DEF Sound, Typed, Denial
<1>5. Publishing' = Publishing /\ Waiting' = Waiting /\ Owning' = Owning
  BY <1>1, <1>4 DEF Publishing, Waiting, Owning
<1>6. Typed' /\ Counted' /\ Bounded'
  BY <1>1, <1>4, <1>5 DEF Sound, Typed, Counted, Bounded
<1>7. OneBoundary' /\ Quiet' /\ LeaseHasOwner' /\ OvertakenIsAwaited'
  BY <1>1, <1>4, <1>5
  DEF Sound, OneBoundary, Quiet, LeaseHasOwner, OvertakenIsAwaited
<1>8. Sealed'
  BY <1>1, <1>2, <1>4, <1>5 DEF Sound, Sealed
<1>9. kind = "drain" => Publishing = {} /\ Denied
  BY <1>1, <1>2 DEF Sound, Sealed
<1>10. Closing'
  <2>1. denial'[Closer].pc = "unasked"
    BY <1>3, <1>4, OrderingConstants
  <2>2. Denied' = Denied
    BY <1>1 DEF Denied
  <2>3. QED
    BY <1>4, <1>5, <1>9, <2>1, <2>2 DEF Closing, OwningPc
<1>11. QED
  BY <1>6, <1>7, <1>8, <1>10 DEF Sound

(***************************************************************************)
(* The specification                                                       *)
(***************************************************************************)

\* Nothing is published, denied or sealed at first.
LEMMA InitSound == Init => Sound
<1> SUFFICES ASSUME Init  PROVE Sound
  OBVIOUS
<1>1. /\ \A p \in Publisher : /\ command[p].pc = "away"
                              /\ command[p].ticket = 0
      /\ command \in [Publisher -> Command]
  BY OrderingConstants DEF Init, Command, Away
<1>2. denial = [d \in Denier |-> [pc |-> "unasked", kind |-> "drain", at |-> 0,
                                  clean |-> "yes"]]
  BY DEF Init
<1>3. /\ \A d \in Denier : denial[d].pc = "unasked" /\ denial[d].at = 0
      /\ denial \in [Denier -> Denial]
  BY <1>2, OrderingConstants DEF Denial
<1>4. Publishing = {} /\ Waiting = {} /\ Owning = {}
  BY <1>1, <1>3 DEF Publishing, Waiting, Owning
<1>5. /\ generation = 0 /\ active = 0 /\ pending = 0
      /\ owned = FALSE /\ closed = FALSE /\ inflight = FALSE
      /\ window = "open" /\ role = "standby" /\ authority = "none"
  BY DEF Init
<1>6. Typed
  <2>1. 0 \in 0..MaxGeneration /\ 0 \in Nat
    BY OrderingConstants
  <2>2. owned \in BOOLEAN /\ closed \in BOOLEAN /\ inflight \in BOOLEAN
    BY <1>5
  <2>3. /\ window \in {"open", "sealed", "inspected"}
        /\ role \in {"standby", "armed"}
        /\ authority \in {"none", "leased", "managed", "faulted"}
    BY <1>5
  <2>4. generation \in 0..MaxGeneration /\ active \in Nat /\ pending \in Nat
    BY <1>5, <2>1
  <2>5. QED
    BY <1>1, <1>3, <2>2, <2>3, <2>4 DEF Typed
<1>7. Counted
  BY <1>4, <1>5, FS_EmptySet DEF Counted
<1>8. Bounded /\ Quiet /\ OvertakenIsAwaited /\ LeaseHasOwner
  BY <1>1, <1>3, <1>4, <1>5
  DEF Bounded, Quiet, OvertakenIsAwaited, LeaseHasOwner
<1>9. OneBoundary
  BY <1>4, <1>5 DEF OneBoundary
<1>10. Sealed /\ Closing
  BY <1>3, <1>5, OrderingConstants DEF Sealed, Closing, OwningPc
<1>11. QED
  BY <1>6, <1>7, <1>8, <1>9, <1>10 DEF Sound

\* Every step keeps the ordering sound.
LEMMA NextSound == Sound /\ [Next]_vars => Sound'
<1> SUFFICES ASSUME Sound, [Next]_vars  PROVE Sound'
  OBVIOUS
<1>1. CASE \E p \in Publisher :
             Capture(p) \/ Enter(p) \/ TurnedAway(p) \/ Publish(p)
  BY <1>1, CaptureSound, EnterSound, TurnedAwaySound, PublishSound
<1>2. CASE \E d \in Denier : Reserve(d) \/ ReserveFails(d) \/ Deny(d)
  BY <1>2, ReserveSound, ReserveFailsSound, DenySound
<1>3. CASE LeaseEnds \/ Seal \/ Inspect
  BY <1>3, LeaseEndsSound, SealSound, InspectSound
<1>4. CASE UNCHANGED vars
  <2>1. /\ UNCHANGED <<generation, active, pending, owned, closed, command,
                       denial, window, inflight, role, authority>>
        /\ Publishing' = Publishing /\ Waiting' = Waiting /\ Owning' = Owning
    BY <1>4 DEF vars, ordering, outputs, Publishing, Waiting, Owning
  <2>2. Typed' /\ Counted' /\ Bounded' /\ OneBoundary' /\ Quiet'
    BY <2>1 DEF Sound, Typed, Counted, Bounded, OneBoundary, Quiet
  <2>3. OvertakenIsAwaited' /\ LeaseHasOwner' /\ Sealed' /\ Closing'
    BY <2>1 DEF Sound, OvertakenIsAwaited, LeaseHasOwner, Sealed, Closing, Denied
  <2>4. QED
    BY <2>2, <2>3 DEF Sound
<1>5. QED
  BY <1>1, <1>2, <1>3, <1>4 DEF Next

\* The inductive invariant holds in every reachable state.
THEOREM OrderingSound == Spec => []Sound
  BY InitSound, NextSound, PTL DEF Spec

\* The state is well typed and the counters of OutputRoleOrdering count the
\* publications admitted and the denials reserved, so no wait ends early.
THEOREM OrderingTypeCorrect == Spec => []OrderingTypeOK
<1>1. Sound => OrderingTypeOK
  BY DEF Sound, Typed, Counted, OrderingTypeOK
<1>2. QED
  BY <1>1, OrderingSound, PTL

\* At most one denial is past its wait, and boundary_owned says whether.
THEOREM BoundaryIsExclusive == Spec => []OneBoundary
<1>1. Sound => OneBoundary
  BY DEF Sound
<1>2. QED
  BY <1>1, OrderingSound, PTL

\* No ticket captured before a denial publishes once that denial's wait is over.
THEOREM OvertakenAlwaysAwaited == Spec => []OvertakenIsAwaited
<1>1. Sound => OvertakenIsAwaited
  BY DEF Sound
<1>2. QED
  BY <1>1, OrderingSound, PTL

\* No denial runs between the commit of an Enable and its installation.
THEOREM EnableAlwaysWhole == Spec => []EnableIsWhole
<1>1. Sound => EnableIsWhole
  BY OwnedMeansWhole
<1>2. QED
  BY <1>1, OrderingSound, PTL

\* After the closing window's denial succeeded, outputs are denied for good.
THEOREM ClosedAlwaysDenied == Spec => []ClosedStaysDenied
<1>1. Sound => ClosedStaysDenied
  BY DEF Sound, Closing, ClosedStaysDenied, Denied
<1>2. QED
  BY <1>1, OrderingSound, PTL

=============================================================================
