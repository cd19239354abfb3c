-------------------------- MODULE ResourceAuthority --------------------------
(***************************************************************************)
(* What the output-lease registry promises, without leases, generations,   *)
(* deadlines or an index: each output answers to at most one grant.  A     *)
(* grant covers one set of outputs, changes as a whole, passes to another  *)
(* owner or project only in the steps below, and its name is never used    *)
(* for a second grant.  A grant that is not live authorizes nothing but    *)
(* still excludes everyone else.                                           *)
(***************************************************************************)
CONSTANTS Resource, Grant, Owner, Project, Nobody

VARIABLES
    authority,  \* what each resource answers to
    granted     \* every grant made so far

avars == <<authority, granted>>

Authority == [grant : Grant, owner : Owner, project : Project,
              standing : {"live", "lapsed"}]

AuthorityTypeOK ==
    /\ authority \in [Resource -> Authority \cup {Nobody}]
    /\ granted \subseteq Grant

AuthorityInit ==
    /\ authority = [r \in Resource |-> Nobody]
    /\ granted = {}

Under(g) == {r \in Resource : authority[r] # Nobody /\ authority[r].grant = g}

GrantTo(R, g, o, p) ==
    [r \in Resource |->
        IF r \in R
        THEN [grant |-> g, owner |-> o, project |-> p, standing |-> "live"]
        ELSE authority[r]]

Give(R, g, o, p) ==
    /\ R # {}
    /\ g \notin granted
    /\ \A r \in R : authority[r] = Nobody
    /\ authority' = GrantTo(R, g, o, p)
    /\ granted' = granted \cup {g}

Lapsed(a) ==
    [grant |-> a.grant, owner |-> a.owner, project |-> a.project,
     standing |-> "lapsed"]

HeldBy(a, o) ==
    [grant |-> a.grant, owner |-> o, project |-> a.project, standing |-> "live"]

\* Some grants lapse together: their holders keep the outputs, unusable.
Lapse(gs) ==
    /\ authority' = [r \in Resource |->
                        IF authority[r] # Nobody /\ authority[r].grant \in gs
                        THEN Lapsed(authority[r])
                        ELSE authority[r]]
    /\ UNCHANGED granted

\* A lapsed grant is revived by its holder, or a grant passes to a new one.
Hold(g, o) ==
    /\ Under(g) # {}
    /\ authority' = [r \in Resource |->
                        IF r \in Under(g)
                        THEN HeldBy(authority[r], o)
                        ELSE authority[r]]
    /\ UNCHANGED granted

Release(g) ==
    /\ Under(g) # {}
    /\ authority' = [r \in Resource |->
                        IF r \in Under(g) THEN Nobody ELSE authority[r]]
    /\ UNCHANGED granted

\* The holder exchanges a grant for one of the same scope in another project.
Rebind(g, h, p) ==
    /\ h \notin granted
    /\ \E r \in Under(g) :
          /\ authority[r].project # p
          /\ authority' = GrantTo(Under(g), h, authority[r].owner, p)
    /\ granted' = granted \cup {h}

AuthorityNext ==
    \/ \E R \in SUBSET Resource, g \in Grant, o \in Owner, p \in Project :
          Give(R, g, o, p)
    \/ \E gs \in SUBSET Grant : Lapse(gs)
    \/ \E g \in Grant, o \in Owner : Hold(g, o)
    \/ \E g \in Grant : Release(g)
    \/ \E g, h \in Grant, p \in Project : Rebind(g, h, p)

AuthoritySpec == AuthorityInit /\ [][AuthorityNext]_avars

=============================================================================
