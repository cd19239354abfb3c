---------------------- MODULE BackupDeletion_proofs ----------------------
(***************************************************************************)
(* Safety proofs for BackupDeletion: for any number of callers, threads,   *)
(* backups, processes and journal records, the facts of the journal are    *)
(* true of what was deleted, and a full journal is never a dead end.       *)
(*                                                                         *)
(* The first rests on the lock: between the record of a request and that   *)
(* of its outcome nobody else writes the journal, and a recorded identity  *)
(* is refused until it is fenced.  The second counts: the tables stay      *)
(* within their sizes, and a request that compacts as many fences as its   *)
(* records leave always fits.                                              *)
(***************************************************************************)
EXTENDS BackupDeletion, FiniteSetTheorems, TLAPS

----------------------------------------------------------------------------
(* The inductive invariant                                                 *)

\* A deletion under the publication lock.
Locking == {"written", "deleted"}

Typed ==
    /\ fact \in [Request -> Phase \cup {"none"}]
    /\ effects \in [Request -> Nat]
    /\ high \in [Fence -> Nat]
    /\ results \subseteq [who : Origin, id : Nat, proc : Nat]
    /\ process \in Nat /\ managed \in Nat
    /\ pc \in [Deleter -> {"idle", "asked", "open", "written", "deleted"}]
    /\ req \in [Deleter -> Request \cup {NoRequest}]
    /\ release \in Request \cup {NoRequest}

\* Nothing in the journal or in the hands of a deletion is of a later process.
OfThePast ==
    /\ \A r \in Request : fact[r] # "none" \/ effects[r] # 0 => r.proc <= process
    /\ \A m \in results : m.proc <= process
    /\ \A f \in Fence : high[f] > 0 => f.proc <= process

\* A deletion executes a request of this process; one that was written down has
\* its unresolved fact, and its effect exactly when it was carried out.
InHand ==
    \A d \in Deleter :
        /\ pc[d] # "idle" => req[d] \in Request /\ req[d].proc <= process
        /\ pc[d] \in {"open"} \cup Locking => req[d].proc = process
        /\ pc[d] \in Locking => fact[req[d]] = "prepared"
        /\ pc[d] = "written" => effects[req[d]] = 0
        /\ pc[d] = "deleted" => effects[req[d]] = 1

\* One deletion has the lock.
OneLock ==
    \A c, d \in Deleter : pc[c] \in Locking /\ pc[d] \in Locking => c = d

\* A release whose snapshot is fresh names an unresolved fact.
FreshIsUnresolved ==
    fresh => release \in Request /\ fact[release] = "prepared"

\* The tables are within their sizes.
FactsFit == IsFiniteSet(Facts) /\ Cardinality(Facts) <= MaxRecords
ResultsFit == IsFiniteSet(results) /\ Cardinality(results) <= MaxManagement
FencesFit == IsFiniteSet(Retired) /\ Cardinality(Retired) <= MaxRetired

\* The inductive invariant.
Sound ==
    /\ Typed
    /\ OfThePast
    /\ InHand
    /\ OneLock
    /\ FreshIsUnresolved
    /\ FactsFit
    /\ ResultsFit
    /\ FencesFit
    /\ FactsAreTrue

----------------------------------------------------------------------------
(* Finite sets of numbers                                                  *)

\* A finite set of numbers has a greatest element: of the sets of what is not
\* below an element, the smallest is that of the greatest.
LEMMA FiniteMaximum ==
    ASSUME NEW X, X \subseteq Nat, IsFiniteSet(X), X # {}
    PROVE  \E n \in X : \A k \in X : k <= n
<1> DEFINE Above(n) == {m \in X : m >= n}
           T == {Above(n) : n \in X}
<1>1. T \subseteq FiniteSubsetsOf(X)
  BY FS_FiniteSubsetsOfFinite
<1>2. T # {}
  OBVIOUS
<1>3. IsWellFoundedOn(StrictSubsetOrdering(X), FiniteSubsetsOf(X))
  BY FS_StrictSubsetOrderingWellFounded
<1>4. \E A \in T : \A B \in T : ~(<<B, A>> \in StrictSubsetOrdering(X))
  <2> HIDE DEF T
  <2> QED
    BY <1>1, <1>2, <1>3, WFMin
<1>5. PICK n \in X : \A B \in T : ~(<<B, Above(n)>> \in StrictSubsetOrdering(X))
  BY <1>4
<1>6. SUFFICES ASSUME NEW k \in X, k > n PROVE FALSE
  BY <1>5
<1>7. Above(k) \subseteq Above(n) /\ Above(k) # Above(n)
  <2>1. n \in Above(n) /\ n \notin Above(k)
    BY <1>6
  <2>2. k \in Nat /\ n \in Nat
    OBVIOUS
  <2>3. \A m \in Nat : m >= k => m >= n
    BY <1>6, <2>2
  <2>4. Above(k) \subseteq Above(n)
    BY <2>3
  <2> QED
    BY <2>1, <2>4
<1>8. <<Above(k), Above(n)>> \in StrictSubsetOrdering(X)
  <2>1. Above(k) \in SUBSET X /\ Above(n) \in SUBSET X
    OBVIOUS
  <2> HIDE DEF Above
  <2> QED
    BY <1>7, <2>1 DEF StrictSubsetOrdering
<1> QED
  BY <1>5, <1>8

\* What a function returns on a finite set is finite and not larger.
LEMMA ImageIsFinite ==
    ASSUME NEW S, IsFiniteSet(S), NEW F, F = [x \in S |-> F[x]]
    PROVE  /\ IsFiniteSet({F[x] : x \in S})
           /\ Cardinality({F[x] : x \in S}) <= Cardinality(S)
<1> DEFINE T == {F[x] : x \in S}
<1>1. F \in Surjection(S, T)
  <2>1. F \in [S -> T]
    OBVIOUS
  <2> QED
    BY <2>1 DEF Surjection
<1> HIDE DEF T
<1>2. IsFiniteSet(T) /\ Cardinality(T) <= Cardinality(S)
  BY <1>1, FS_Surjection
<1> QED
  BY <1>2 DEF T

\* Any finite set has a subset of at most three elements that is all of it when
\* it has no three.
LEMMA PickThree ==
    ASSUME NEW X, IsFiniteSet(X)
    PROVE  \E C \in SUBSET X :
               /\ IsFiniteSet(C) /\ Cardinality(C) <= 3
               /\ Cardinality(C) = 3 \/ C = X
<1>1. CASE X = {}
  BY <1>1, FS_EmptySet
<1>2. ASSUME NEW x \in X, X = {x} PROVE \E C \in SUBSET X :
               /\ IsFiniteSet(C) /\ Cardinality(C) <= 3
               /\ Cardinality(C) = 3 \/ C = X
  BY <1>2, FS_Singleton
<1>3. ASSUME NEW x \in X, NEW y \in X, x # y PROVE \E C \in SUBSET X :
               /\ IsFiniteSet(C) /\ Cardinality(C) <= 3
               /\ Cardinality(C) = 3 \/ C = X
  <2>1. IsFiniteSet({x}) /\ Cardinality({x}) = 1
    BY FS_Singleton
  <2>2. IsFiniteSet({x} \cup {y}) /\ Cardinality({x} \cup {y}) = 2
    <3> DEFINE S == {x}
    <3>1. y \notin S /\ IsFiniteSet(S) /\ Cardinality(S) = 1
      BY <1>3, <2>1
    <3> HIDE DEF S
    <3>2. /\ IsFiniteSet(S \cup {y})
          /\ Cardinality(S \cup {y}) = Cardinality(S) + 1
      BY <3>1, FS_AddElement
    <3> QED
      BY <3>1, <3>2 DEF S
  <2>3. CASE X = {x} \cup {y}
    BY <2>2, <2>3
  <2>4. CASE X # {x} \cup {y}
    <3>1. PICK z \in X : z \notin {x} \cup {y}
      BY <2>4
    <3>2. /\ IsFiniteSet(({x} \cup {y}) \cup {z})
          /\ Cardinality(({x} \cup {y}) \cup {z}) = 3
      <4> DEFINE S == {x} \cup {y}
      <4>1. z \notin S /\ IsFiniteSet(S) /\ Cardinality(S) = 2
        BY <2>2, <3>1
      <4> HIDE DEF S
      <4>2. /\ IsFiniteSet(S \cup {z})
            /\ Cardinality(S \cup {z}) = Cardinality(S) + 1
        BY <4>1, FS_AddElement
      <4> QED
        BY <4>1, <4>2 DEF S
    <3> QED
      BY <3>2
  <2> QED
    BY <2>3, <2>4
<1> QED
  BY <1>1, <1>2, <1>3

----------------------------------------------------------------------------
(* Requests, fences and the high-water marks                               *)

\* The fields of a request, and its fence.
LEMMA RequestFields ==
    /\ \A r \in Request :
          /\ r.who \in Origin /\ r.id \in Nat \ {0} /\ r.proc \in Process
          /\ r.proc \in Nat
          /\ FenceOf(r) \in Fence /\ FenceOf(r).proc = r.proc
    /\ NoRequest \notin Request
<1> USE DeletionConstants DEF Process
<1>1. ASSUME NEW r \in Request
      PROVE  /\ r.who \in Origin /\ r.id \in Nat \ {0} /\ r.proc \in Process
             /\ r.proc \in Nat
  <2>1. PICK o \in Origin, n \in Named, p \in Process :
           r = [who |-> o, id |-> n[1], proc |-> p, backup |-> n[2]]
    BY DEF Request
  <2>2. n[1] \in Nat \ {0}
    OBVIOUS
  <2> QED
    BY <2>1, <2>2
<1>2. \A r \in Request : FenceOf(r) \in Fence /\ FenceOf(r).proc = r.proc
  BY <1>1 DEF FenceOf, Fence
<1>3. NoRequest \notin Request
  BY <1>1 DEF NoRequest
<1> QED
  BY <1>1, <1>2, <1>3

\* The highest mark of a fence is one of its marks, and above them all.
LEMMA HighestOfMarks ==
    ASSUME NEW S, NEW M, NEW f, NEW old \in Nat,
           IsFiniteSet(S), IsFiniteSet(M),
           \A r \in S : r.id \in Nat, \A m \in M : m.id \in Nat
    PROVE  /\ Highest(S, M, f, old) \in Nat
           /\ Highest(S, M, f, old) \in Marks(S, M, f) \cup {old}
           /\ \A k \in Marks(S, M, f) \cup {old} : k <= Highest(S, M, f, old)
<1> DEFINE A == {r \in S : FenceOf(r) = f}
           B == {m \in M : ResultFence(m) = f}
           F == [r \in A |-> r.id]
           G == [m \in B |-> m.id]
           X == Marks(S, M, f) \cup {old}
<1>1. IsFiniteSet(A) /\ IsFiniteSet(B)
  BY FS_Subset
<1>2. IsFiniteSet({F[r] : r \in A}) /\ IsFiniteSet({G[m] : m \in B})
  <2>1. F = [r \in A |-> F[r]] /\ G = [m \in B |-> G[m]]
    OBVIOUS
  <2> HIDE DEF F, G, A, B
  <2> QED
    BY <1>1, <2>1, ImageIsFinite
<1>3. {F[r] : r \in A} = {r.id : r \in A} /\ {G[m] : m \in B} = {m.id : m \in B}
  OBVIOUS
<1>4. X = ({F[r] : r \in A} \cup {G[m] : m \in B}) \cup {old}
  BY <1>3 DEF Marks
<1>5. IsFiniteSet(X)
  <2>1. IsFiniteSet({F[r] : r \in A} \cup {G[m] : m \in B})
    BY <1>2, FS_Union
  <2> QED
    BY <1>4, <2>1, FS_AddElement
<1>6. X \subseteq Nat /\ X # {}
  BY DEF Marks
<1>7. \E n \in X : \A k \in X : k <= n
  <2> HIDE DEF X
  <2> QED
    BY <1>5, <1>6, FiniteMaximum
<1>8. Highest(S, M, f, old) = CHOOSE n \in X : \A k \in X : k <= n
  BY DEF Highest
<1> HIDE DEF X
<1>9. Highest(S, M, f, old) \in X /\ \A k \in X : k <= Highest(S, M, f, old)
  BY <1>7, <1>8
<1> QED
  BY <1>6, <1>9 DEF X

\* Retiring records fences each of them and lowers only compacted fences.
LEMMA RetireEffect ==
    ASSUME Typed, FactsFit, ResultsFit,
           NEW S \in SUBSET Terminal, NEW M \in SUBSET results, NEW C,
           Retire(S, M, C)
    PROVE  /\ high' \in [Fence -> Nat]
           /\ \A r \in S : r.id <= high'[FenceOf(r)]
           /\ \A f \in Fence \ C : high[f] <= high'[f]
           /\ \A f \in Fence :
                 high'[f] > 0 =>
                    (f \notin C /\ high[f] > 0) \/ f \in RetiredBy(S, M)
<1>1. /\ IsFiniteSet(S) /\ \A r \in S : r \in Request /\ r.id \in Nat
  BY FS_Subset, RequestFields DEF FactsFit, Terminal, Facts
<1>2. IsFiniteSet(M) /\ \A m \in M : m.id \in Nat
  BY FS_Subset DEF ResultsFit, Typed
<1> DEFINE Old(f) == IF f \in C THEN 0 ELSE high[f]
<1>3. \A f \in Fence : Old(f) \in Nat /\ high'[f] = Highest(S, M, f, Old(f))
  BY DEF Retire, Typed
<1>4. \A f \in Fence :
         /\ high'[f] \in Nat
         /\ high'[f] \in Marks(S, M, f) \cup {Old(f)}
         /\ \A k \in Marks(S, M, f) \cup {Old(f)} : k <= high'[f]
  <2> HIDE DEF Old
  <2> QED
    BY <1>1, <1>2, <1>3, HighestOfMarks
<1>5. high' \in [Fence -> Nat]
  BY <1>4 DEF Retire
<1>6. ASSUME NEW r \in S PROVE r.id <= high'[FenceOf(r)]
  <2>1. FenceOf(r) \in Fence
    BY <1>1, RequestFields
  <2>2. r.id \in Marks(S, M, FenceOf(r))
    BY DEF Marks
  <2> QED
    BY <1>4, <2>1, <2>2
<1>7. ASSUME NEW f \in Fence \ C PROVE high[f] <= high'[f]
  BY <1>4
<1>8. ASSUME NEW f \in Fence, high'[f] > 0
      PROVE  (f \notin C /\ high[f] > 0) \/ f \in RetiredBy(S, M)
  <2>1. CASE high'[f] = Old(f)
    BY <1>8, <2>1
  <2>2. CASE high'[f] \in Marks(S, M, f)
    BY <2>2 DEF Marks, RetiredBy
  <2> QED
    BY <1>4, <2>1, <2>2
<1> QED
  BY <1>5, <1>6, <1>7, <1>8

----------------------------------------------------------------------------
(* The steps                                                               *)

\* Every variable keeps its type.
LEMMA TypesStay ==
    ASSUME Typed, FactsFit, ResultsFit, InHand, [Next]_vars
    PROVE  Typed'
<1> USE RequestFields DEF Typed, directoryVars, journalVars, processVars,
       releaseVars
<1>1. CASE Forget \/ Publish \/ Retain \/ UNCHANGED vars
  BY <1>1 DEF Forget, Publish, Retain, vars
<1>2. ASSUME NEW b \in Backup, AcknowledgePublication(b)
          \/ DeleteUnjournaled(b) \/ CopyBack(b)
     PROVE  Typed'
  BY <1>2 DEF AcknowledgePublication, DeleteUnjournaled, CopyBack
<1>3. ASSUME NEW d \in Deleter, NEW r \in Request, Ask(d, r)
     PROVE  Typed'
  BY <1>3 DEF Ask
<1>4. ASSUME NEW d \in Deleter, Replay(d) PROVE Typed'
  BY <1>4 DEF Replay, Flies, Leaves
<1>5. ASSUME NEW d \in Deleter, Open(d) PROVE Typed'
  BY <1>5 DEF Open, Flies
<1>6. ASSUME NEW d \in Deleter, Refuse(d) PROVE Typed'
  BY <1>6 DEF Refuse, Flies, Answers, Leaves
<1>7. ASSUME NEW d \in Deleter, Write(d) PROVE Typed'
  BY <1>7 DEF Write, Writes, InHand, Phase, Locking
<1>8. ASSUME NEW d \in Deleter, Reject(d) PROVE Typed'
  BY <1>8 DEF Reject, Writes, Answers, Leaves, InHand, Phase, Locking
<1>9. ASSUME NEW d \in Deleter, Delete(d) PROVE Typed'
  BY <1>9 DEF Delete, InHand, Locking
<1>10. ASSUME NEW d \in Deleter, StaysPrepared(d) PROVE Typed'
  BY <1>10 DEF StaysPrepared, Answers, Leaves
<1>11. ASSUME NEW d \in Deleter, Succeed(d) PROVE Typed'
  BY <1>11 DEF Succeed, Writes, Answers, Leaves, InHand, Phase, Locking
<1>12. ASSUME NEW S \in SUBSET Terminal, NEW M \in SUBSET results,
            NEW C \in SUBSET Retired, CanManage, Reclaim(S, M, C)
     PROVE  Typed'
  <2>1. high' \in [Fence -> Nat]
    BY <1>12, RetireEffect DEF Reclaim
  <2>2. fact' \in [Request -> Phase \cup {"none"}]
    BY <1>12 DEF Reclaim, Writes
  <2>3. PICK o \in Origin :
           results' = (results \ M) \cup {[who |-> o, id |-> managed + 1, proc |-> process]}
    BY <1>12 DEF Reclaim, Manages
  <2>4. results' \subseteq [who : Origin, id : Nat, proc : Nat]
    BY <2>3
  <2>5. managed' \in Nat
    BY <1>12 DEF Reclaim, Manages
  <2> QED
    BY <1>12, <2>1, <2>2, <2>4, <2>5 DEF Reclaim
<1>13. ASSUME NEW r \in Request, Survey(r) PROVE Typed'
  BY <1>13 DEF Survey
<1>14. CASE ReleaseUnknownProtection
  BY <1>14 DEF ReleaseUnknownProtection, Manages, CanManage, Writes, Phase
<1>15. CASE GiveUpRelease
  BY <1>15 DEF GiveUpRelease
<1>16. CASE Crash
  BY <1>16 DEF Crash
<1> QED
  BY <1>1, <1>2, <1>3, <1>4, <1>5, <1>6, <1>7, <1>8, <1>9, <1>10, <1>11,
         <1>12, <1>13, <1>14, <1>15, <1>16 DEF Next, DeleterNext,
         ManagementNext

\* What is recorded stays of this process or of an earlier one.
LEMMA ThePastStays ==
    ASSUME Typed, InHand, FactsFit, ResultsFit, FreshIsUnresolved, OfThePast,
           [Next]_vars
    PROVE  OfThePast'
<1> USE RequestFields DEF Typed, OfThePast, InHand, directoryVars,
       journalVars, processVars, releaseVars
<1>1. CASE Forget \/ GiveUpRelease \/ Publish \/ Retain \/ UNCHANGED vars
  BY <1>1 DEF Forget, GiveUpRelease, Publish, Retain, vars
<1>2. ASSUME NEW d \in Deleter, Replay(d) \/ Open(d) \/ Refuse(d)
          \/ StaysPrepared(d)
     PROVE  OfThePast'
  BY <1>2 DEF Replay, Open, Refuse, StaysPrepared
<1>3. ASSUME NEW r \in Request, Survey(r)
     PROVE  OfThePast'
  BY <1>3 DEF Survey
<1>4. ASSUME NEW b \in Backup, AcknowledgePublication(b)
          \/ DeleteUnjournaled(b) \/ CopyBack(b)
     PROVE  OfThePast'
  BY <1>4 DEF AcknowledgePublication, DeleteUnjournaled, CopyBack
<1>5. ASSUME NEW d \in Deleter, NEW r \in Request, Ask(d, r)
     PROVE  OfThePast'
  BY <1>5 DEF Ask
<1>6. ASSUME NEW d \in Deleter, Write(d) PROVE OfThePast'
  BY <1>6 DEF Write, Writes, Locking
<1>7. ASSUME NEW d \in Deleter, Reject(d) PROVE OfThePast'
  BY <1>7 DEF Reject, Writes, Answers, Leaves, Locking
<1>8. ASSUME NEW d \in Deleter, Delete(d) PROVE OfThePast'
  BY <1>8 DEF Delete, Locking
<1>9. ASSUME NEW d \in Deleter, Succeed(d) PROVE OfThePast'
  BY <1>9 DEF Succeed, Writes, Answers, Leaves, Locking
<1>10. ASSUME NEW S \in SUBSET Terminal, NEW M \in SUBSET results,
            NEW C \in SUBSET Retired, CanManage, Reclaim(S, M, C)
     PROVE  OfThePast'
  <2>1. \A f \in Fence :
           high'[f] > 0 => (f \notin C /\ high[f] > 0) \/ f \in RetiredBy(S, M)
    BY <1>10, RetireEffect DEF Reclaim
  <2>2. \A f \in RetiredBy(S, M) : f.proc <= process
    BY RequestFields DEF RetiredBy, ResultFence, Terminal, Facts
  <2>3. \A r \in Request : fact'[r] # "none" \/ effects'[r] # 0 => r.proc <= process'
    BY <1>10 DEF Reclaim, Writes
  <2>4. PICK o \in Origin :
           results' = (results \ M) \cup {[who |-> o, id |-> managed + 1, proc |-> process]}
    BY <1>10 DEF Reclaim, Manages
  <2>5. \A m \in results' : m.proc <= process'
    BY <1>10, <2>4 DEF Reclaim
  <2>6. \A f \in Fence : high'[f] > 0 => f.proc <= process'
    BY <1>10, <2>1, <2>2 DEF Reclaim
  <2> QED
    BY <2>3, <2>5, <2>6
<1>11. CASE ReleaseUnknownProtection
  BY <1>11 DEF ReleaseUnknownProtection, Manages, CanManage, Writes,
         FreshIsUnresolved
<1>12. CASE Crash
  <2>1. process' = process + 1 /\ UNCHANGED <<fact, effects, results, high>>
    BY <1>12 DEF Crash
  <2>2. \A r \in Request : fact[r] # "none" \/ effects[r] # 0 => r.proc <= process + 1
    BY RequestFields
  <2>3. \A m \in results : m.proc <= process + 1
    OBVIOUS
  <2>4. \A f \in Fence : high[f] > 0 => f.proc <= process + 1
    BY DeletionConstants DEF Fence, Process
  <2> QED
    BY <2>1, <2>2, <2>3, <2>4
<1> QED
  BY <1>1, <1>2, <1>3, <1>4, <1>5, <1>6, <1>7, <1>8, <1>9, <1>10, <1>11,
         <1>12 DEF Next, DeleterNext, ManagementNext

\* A deletion takes the lock only when nobody has it.
LEMMA OneLockStays ==
    ASSUME Typed, OneLock, [Next]_vars
    PROVE  OneLock'
<1> USE DEF Typed, OneLock, Locking, directoryVars, journalVars, processVars,
       releaseVars
<1>1. CASE Forget \/ ReleaseUnknownProtection \/ GiveUpRelease \/ Publish
          \/ Retain \/ UNCHANGED vars
  BY <1>1 DEF Forget, ReleaseUnknownProtection, GiveUpRelease, Publish,
         Retain, vars
<1>2. ASSUME NEW r \in Request, Survey(r)
     PROVE  OneLock'
  BY <1>2 DEF Survey
<1>3. ASSUME NEW b \in Backup, AcknowledgePublication(b)
          \/ DeleteUnjournaled(b) \/ CopyBack(b)
     PROVE  OneLock'
  BY <1>3 DEF AcknowledgePublication, DeleteUnjournaled, CopyBack
<1>4. ASSUME NEW d \in Deleter, NEW r \in Request, Ask(d, r)
     PROVE  OneLock'
  BY <1>4 DEF Ask
<1>5. ASSUME NEW d \in Deleter, Replay(d) PROVE OneLock'
  BY <1>5 DEF Replay, Flies, Leaves
<1>6. ASSUME NEW d \in Deleter, Open(d) PROVE OneLock'
  BY <1>6 DEF Open, Flies
<1>7. ASSUME NEW d \in Deleter, Refuse(d) PROVE OneLock'
  BY <1>7 DEF Refuse, Flies, Answers, Leaves
<1>8. ASSUME NEW d \in Deleter, Write(d) PROVE OneLock'
  BY <1>8 DEF Write, Writes, Locked
<1>9. ASSUME NEW d \in Deleter, Reject(d) PROVE OneLock'
  BY <1>9 DEF Reject, Writes, Answers, Leaves
<1>10. ASSUME NEW d \in Deleter, Delete(d) PROVE OneLock'
  BY <1>10 DEF Delete
<1>11. ASSUME NEW d \in Deleter, StaysPrepared(d) PROVE OneLock'
  BY <1>11 DEF StaysPrepared, Answers, Leaves
<1>12. ASSUME NEW d \in Deleter, Succeed(d) PROVE OneLock'
  BY <1>12 DEF Succeed, Writes, Answers, Leaves
<1>13. ASSUME NEW S \in SUBSET Terminal, NEW M \in SUBSET results,
            NEW C \in SUBSET Retired, CanManage, Reclaim(S, M, C)
     PROVE  OneLock'
  BY <1>13 DEF Reclaim
<1>14. CASE Crash
  BY <1>14 DEF Crash
<1> QED
  BY <1>1, <1>2, <1>3, <1>4, <1>5, <1>6, <1>7, <1>8, <1>9, <1>10, <1>11,
         <1>12, <1>13, <1>14 DEF Next, DeleterNext, ManagementNext

\* Between the record of a request and that of its outcome nobody else writes
\* the journal, and a request is written down only before its effect.
LEMMA HandsStay ==
    ASSUME Typed, OneLock, FactsAreTrue, FreshIsUnresolved, InHand,
           [Next]_vars
    PROVE  InHand'
<1> USE RequestFields DEF Typed, InHand, Locking, directoryVars, journalVars,
       processVars, releaseVars
<1>1. CASE Forget \/ GiveUpRelease \/ Publish \/ Retain \/ UNCHANGED vars
  BY <1>1 DEF Forget, GiveUpRelease, Publish, Retain, vars
<1>2. ASSUME NEW r \in Request, Survey(r)
     PROVE  InHand'
  BY <1>2 DEF Survey
<1>3. ASSUME NEW b \in Backup, AcknowledgePublication(b)
          \/ DeleteUnjournaled(b) \/ CopyBack(b)
     PROVE  InHand'
  BY <1>3 DEF AcknowledgePublication, DeleteUnjournaled, CopyBack
<1>4. ASSUME NEW d \in Deleter, NEW r \in Request, Ask(d, r)
     PROVE  InHand'
  BY <1>4 DEF Ask
<1>5. ASSUME NEW d \in Deleter, Replay(d) PROVE InHand'
  BY <1>5 DEF Replay, Flies, Leaves
<1>6. ASSUME NEW d \in Deleter, Open(d) PROVE InHand'
  BY <1>6 DEF Open, Flies
<1>7. ASSUME NEW d \in Deleter, Refuse(d) PROVE InHand'
  BY <1>7 DEF Refuse, Flies, Answers, Leaves
<1>8. ASSUME NEW d \in Deleter, Write(d) PROVE InHand'
  <2>1. req[d] \in Request /\ req[d].proc = process
    BY <1>8 DEF Write
  <2>2. fact[req[d]] = "none" /\ ~Expired(req[d])
    BY <1>8, <2>1 DEF Write, Unknown, Facts
  <2>3. effects[req[d]] = 0
    <3>1. effects[req[d]] \in Nat /\ effects[req[d]] <= 1
      BY <2>1 DEF FactsAreTrue
    <3>2. effects[req[d]] # 1
      <4> HIDE DEF Typed, InHand
      <4> QED
        BY <2>1, <2>2, Zenon DEF FactsAreTrue
    <3>3. \A n \in Nat : n <= 1 /\ n # 1 => n = 0
      OBVIOUS
    <3> HIDE DEF Typed, InHand, Locking
    <3> QED
      BY <3>1, <3>2, <3>3, Zenon
  <2>4. \A c \in Deleter : pc[c] \notin Locking
    BY <1>8 DEF Write, Locked
  <2> QED
    BY <1>8, <2>1, <2>3, <2>4 DEF Write, Writes
<1>9. ASSUME NEW d \in Deleter, Reject(d) PROVE InHand'
  BY <1>9 DEF Reject, Writes, Answers, Leaves, OneLock
<1>10. ASSUME NEW d \in Deleter, Delete(d) PROVE InHand'
  BY <1>10 DEF Delete, OneLock
<1>11. ASSUME NEW d \in Deleter, StaysPrepared(d) PROVE InHand'
  BY <1>11 DEF StaysPrepared, Answers, Leaves
<1>12. ASSUME NEW d \in Deleter, Succeed(d) PROVE InHand'
  BY <1>12 DEF Succeed, Writes, Answers, Leaves, OneLock
<1>13. ASSUME NEW S \in SUBSET Terminal, NEW M \in SUBSET results,
            NEW C \in SUBSET Retired, CanManage, Reclaim(S, M, C)
     PROVE  InHand'
  BY <1>13 DEF Reclaim, Manages, CanManage, Writes, Locked, Terminal,
         Unresolved
<1>14. CASE ReleaseUnknownProtection
  BY <1>14 DEF ReleaseUnknownProtection, Manages, CanManage, Writes, Locked
<1>15. CASE Crash
  BY <1>15 DEF Crash
<1> QED
  BY <1>1, <1>2, <1>3, <1>4, <1>5, <1>6, <1>7, <1>8, <1>9, <1>10, <1>11,
         <1>12, <1>13, <1>14, <1>15 DEF Next, DeleterNext, ManagementNext

\* A change of the journal makes the snapshot of a release stale.
LEMMA FreshStaysUnresolved ==
    ASSUME Typed, FreshIsUnresolved, [Next]_vars
    PROVE  FreshIsUnresolved'
<1> USE RequestFields DEF FreshIsUnresolved, directoryVars, journalVars,
       processVars, releaseVars
<1>1. CASE Forget \/ Publish \/ Retain \/ UNCHANGED vars
  BY <1>1 DEF Forget, Publish, Retain, vars
<1>2. ASSUME NEW d \in Deleter, Replay(d) \/ Open(d) \/ Refuse(d) \/ Delete(d)
          \/ StaysPrepared(d)
     PROVE  FreshIsUnresolved'
  BY <1>2 DEF Replay, Open, Refuse, Delete, StaysPrepared
<1>3. ASSUME NEW b \in Backup, AcknowledgePublication(b)
          \/ DeleteUnjournaled(b) \/ CopyBack(b)
     PROVE  FreshIsUnresolved'
  BY <1>3 DEF AcknowledgePublication, DeleteUnjournaled, CopyBack
<1>4. ASSUME NEW d \in Deleter, NEW r \in Request, Ask(d, r)
     PROVE  FreshIsUnresolved'
  BY <1>4 DEF Ask
<1>5. ASSUME NEW d \in Deleter, Write(d) PROVE FreshIsUnresolved'
  BY <1>5 DEF Write, Writes
<1>6. ASSUME NEW d \in Deleter, Reject(d) PROVE FreshIsUnresolved'
  BY <1>6 DEF Reject, Writes, Answers, Leaves
<1>7. ASSUME NEW d \in Deleter, Succeed(d) PROVE FreshIsUnresolved'
  BY <1>7 DEF Succeed, Writes, Answers, Leaves
<1>8. ASSUME NEW S \in SUBSET Terminal, NEW M \in SUBSET results,
            NEW C \in SUBSET Retired, CanManage, Reclaim(S, M, C)
     PROVE  FreshIsUnresolved'
  BY <1>8 DEF Reclaim, Manages, CanManage, Writes
<1>9. ASSUME NEW r \in Request, Survey(r) PROVE FreshIsUnresolved'
  BY <1>9 DEF Survey
<1>10. CASE ReleaseUnknownProtection
  BY <1>10 DEF ReleaseUnknownProtection, Manages, CanManage, Writes
<1>11. CASE GiveUpRelease
  BY <1>11 DEF GiveUpRelease
<1>12. CASE Crash
  BY <1>12 DEF Crash
<1> QED
  BY <1>1, <1>2, <1>3, <1>4, <1>5, <1>6, <1>7, <1>8, <1>9, <1>10, <1>11,
         <1>12 DEF Next, DeleterNext, ManagementNext

\* A request deletes at most once, and its fact says whether it did.
LEMMA FactsStayTrue ==
    ASSUME Typed, OfThePast, InHand, OneLock, FactsFit, ResultsFit,
           FreshIsUnresolved, FactsAreTrue, [Next]_vars
    PROVE  FactsAreTrue'
<1> USE RequestFields DEF Typed, FactsAreTrue, InHand, directoryVars,
       journalVars, processVars, releaseVars
<1>1. CASE Forget \/ GiveUpRelease \/ Publish \/ Retain \/ UNCHANGED vars
  BY <1>1 DEF Forget, GiveUpRelease, Publish, Retain, vars, Expired
<1>2. ASSUME NEW d \in Deleter, Replay(d) \/ Open(d) \/ Refuse(d)
          \/ StaysPrepared(d)
     PROVE  FactsAreTrue'
  BY <1>2 DEF Replay, Open, Refuse, StaysPrepared, Expired
<1>3. ASSUME NEW r \in Request, Survey(r)
     PROVE  FactsAreTrue'
  BY <1>3 DEF Survey, Expired
<1>4. ASSUME NEW b \in Backup, AcknowledgePublication(b)
          \/ DeleteUnjournaled(b) \/ CopyBack(b)
     PROVE  FactsAreTrue'
  BY <1>4 DEF AcknowledgePublication, DeleteUnjournaled, CopyBack, Expired
<1>5. ASSUME NEW d \in Deleter, NEW r \in Request, Ask(d, r)
     PROVE  FactsAreTrue'
  BY <1>5 DEF Ask, Expired
<1>6. ASSUME NEW d \in Deleter, Write(d) PROVE FactsAreTrue'
  BY <1>6 DEF Write, Writes, Locking, Expired
<1>7. ASSUME NEW d \in Deleter, Reject(d) PROVE FactsAreTrue'
  BY <1>7 DEF Reject, Writes, Answers, Leaves, Locking, Expired
<1>8. ASSUME NEW d \in Deleter, Delete(d) PROVE FactsAreTrue'
  BY <1>8 DEF Delete, Locking, Expired
<1>9. ASSUME NEW d \in Deleter, Succeed(d) PROVE FactsAreTrue'
  BY <1>9 DEF Succeed, Writes, Answers, Leaves, Locking, Expired
<1>10. ASSUME NEW S \in SUBSET Terminal, NEW M \in SUBSET results,
            NEW C \in SUBSET Retired, CanManage, Reclaim(S, M, C)
     PROVE  FactsAreTrue'
  <2>1. /\ \A r \in S : r.id <= high'[FenceOf(r)]
        /\ \A f \in Fence \ C : high[f] <= high'[f]
        /\ high' \in [Fence -> Nat]
    BY <1>10, RetireEffect DEF Reclaim
  <2>2. \A f \in C : f.proc # process
    BY <1>10 DEF Reclaim, MayReclaim
  <2>3. \A r \in Request : fact'[r] = IF r \in S THEN "none" ELSE fact[r]
    BY <1>10 DEF Reclaim, Writes
  <2>4. effects' = effects /\ process' = process
    BY <1>10 DEF Reclaim
  <2>5. ASSUME NEW r \in Request, effects[r] = 1
        PROVE  \/ fact'[r] \in {"prepared", "succeeded", "resolved"}
               \/ r.id <= high'[FenceOf(r)]
               \/ r.proc # process
    <3>1. CASE r \in S
      BY <2>1, <3>1
    <3>2. CASE r \notin S /\ r.id <= high[FenceOf(r)] /\ r.proc = process
      <4>1. FenceOf(r) \in Fence \ C
        BY <2>2, <3>2, RequestFields
      <4>2. /\ high[FenceOf(r)] \in Nat /\ high'[FenceOf(r)] \in Nat
            /\ high[FenceOf(r)] <= high'[FenceOf(r)] /\ r.id \in Nat
        BY <2>1, <4>1, RequestFields
      <4> QED
        BY <3>2, <4>2
    <3> QED
      BY <2>3, <2>5, <3>1, <3>2 DEF Expired
  <2> QED
    BY <2>3, <2>4, <2>5 DEF Expired
<1>11. CASE ReleaseUnknownProtection
  BY <1>11 DEF ReleaseUnknownProtection, Manages, CanManage, Writes,
         FreshIsUnresolved, Expired
<1>12. CASE Crash
  BY <1>12 DEF Crash, OfThePast, Expired
<1> QED
  BY <1>1, <1>2, <1>3, <1>4, <1>5, <1>6, <1>7, <1>8, <1>9, <1>10, <1>11,
         <1>12 DEF Next, DeleterNext, ManagementNext

----------------------------------------------------------------------------
(* The sizes of the tables                                                 *)

\* One more element.
LEMMA OneMore ==
    ASSUME NEW S, NEW x, IsFiniteSet(S)
    PROVE  /\ IsFiniteSet(S \cup {x})
           /\ Cardinality(S \cup {x}) <= Cardinality(S) + 1
<1>1. Cardinality(S) \in Nat
  BY FS_CardinalityType
<1>2. /\ IsFiniteSet(S \cup {x})
      /\ x \in S => Cardinality(S \cup {x}) = Cardinality(S)
      /\ x \notin S => Cardinality(S \cup {x}) = Cardinality(S) + 1
  BY FS_AddElement
<1>3. \/ Cardinality(S \cup {x}) = Cardinality(S)
      \/ Cardinality(S \cup {x}) = Cardinality(S) + 1
  BY <1>2
<1> QED
  BY <1>1, <1>2, <1>3

\* Only a new record adds to the facts, and only below the limit.
LEMMA FactsStayFit ==
    ASSUME Typed, InHand, FreshIsUnresolved, FactsFit, [Next]_vars
    PROVE  FactsFit'
<1> USE DEF journalVars
<1>1. ASSUME Facts' \subseteq Facts PROVE FactsFit'
  <2>1. IsFiniteSet(Facts) /\ Cardinality(Facts) \in Nat /\ Cardinality(Facts) <= MaxRecords
    BY FS_CardinalityType DEF FactsFit
  <2>2. IsFiniteSet(Facts') /\ Cardinality(Facts') <= Cardinality(Facts)
    BY <1>1, <2>1, FS_Subset
  <2>3. Cardinality(Facts') \in Nat
    BY <2>2, FS_CardinalityType
  <2> QED
    BY <2>1, <2>2, <2>3, DeletionConstants DEF FactsFit
<1>2. CASE fact' = fact
  BY <1>1, <1>2 DEF Facts
<1>3. ASSUME NEW r \in Request, NEW p, fact[r] # "none", fact' = [fact EXCEPT ![r] = p]
      PROVE  FactsFit'
  BY <1>1, <1>3 DEF Facts, Typed
<1>4. ASSUME NEW d \in Deleter, Write(d) PROVE FactsFit'
  <2>1. req[d] \in Request
    BY <1>4 DEF Write, InHand
  <2>2. Facts' = Facts \cup {req[d]}
    BY <1>4, <2>1 DEF Write, Writes, Facts, Typed
  <2>3. IsFiniteSet(Facts) /\ Cardinality(Facts) \in Nat
    BY FS_CardinalityType DEF FactsFit
  <2>4. Cardinality(Facts) < MaxRecords
    BY <1>4 DEF Write
  <2>5. IsFiniteSet(Facts') /\ Cardinality(Facts') <= Cardinality(Facts) + 1
    <3>1. /\ IsFiniteSet(Facts \cup {req[d]})
          /\ Cardinality(Facts \cup {req[d]}) <= Cardinality(Facts) + 1
      BY <2>3, OneMore
    <3> QED
      BY <2>2, <3>1
  <2>6. Cardinality(Facts') \in Nat
    BY <2>5, FS_CardinalityType
  <2> QED
    BY <2>3, <2>4, <2>5, <2>6, DeletionConstants DEF FactsFit
<1>5. ASSUME NEW d \in Deleter, Reject(d) \/ Succeed(d) PROVE FactsFit'
  <2>1. req[d] \in Request /\ fact[req[d]] = "prepared"
    BY <1>5 DEF Reject, Succeed, InHand, Locking
  <2> QED
    BY <1>3, <1>5, <2>1 DEF Reject, Succeed, Writes
<1>6. ASSUME NEW S \in SUBSET Terminal, NEW M \in SUBSET results,
            NEW C \in SUBSET Retired, Reclaim(S, M, C)
      PROVE  FactsFit'
  <2>1. Facts' \subseteq Facts
    BY <1>6 DEF Reclaim, Writes, Facts
  <2> QED
    BY <1>1, <2>1
<1>7. CASE ReleaseUnknownProtection
  <2>1. release \in Request /\ fact[release] = "prepared"
    BY <1>7 DEF ReleaseUnknownProtection, FreshIsUnresolved
  <2> QED
    BY <1>3, <1>7, <2>1 DEF ReleaseUnknownProtection, Writes
<1>8. ASSUME NEW d \in Deleter, NEW r \in Request, Ask(d, r) PROVE FactsFit'
  BY <1>2, <1>8 DEF Ask
<1>9. ASSUME NEW d \in Deleter,
             Replay(d) \/ Open(d) \/ Refuse(d) \/ Delete(d) \/ StaysPrepared(d)
      PROVE  FactsFit'
  BY <1>2, <1>9 DEF Replay, Open, Refuse, Delete, StaysPrepared
<1>10. ASSUME NEW r \in Request, Survey(r) PROVE FactsFit'
  BY <1>2, <1>10 DEF Survey
<1>11. ASSUME NEW b \in Backup,
              AcknowledgePublication(b) \/ DeleteUnjournaled(b) \/ CopyBack(b)
       PROVE  FactsFit'
  BY <1>2, <1>11 DEF AcknowledgePublication, DeleteUnjournaled, CopyBack
<1>12. CASE Forget \/ GiveUpRelease \/ Publish \/ Retain \/ Crash \/ UNCHANGED vars
  BY <1>2, <1>12 DEF Forget, GiveUpRelease, Publish, Retain, Crash, vars
<1> QED
  BY <1>4, <1>5, <1>6, <1>7, <1>8, <1>9, <1>10, <1>11, <1>12
  DEF Next, DeleterNext, ManagementNext

\* A management request leaves one result, and only below the limit.
LEMMA ManagesFits ==
    ASSUME ResultsFit, NEW M, Manages(results \ M, process)
    PROVE  ResultsFit'
<1>1. PICK m : results' = (results \ M) \cup {m}
  BY DEF Manages
<1>2. IsFiniteSet(results \ M)
  BY FS_Difference DEF ResultsFit
<1>3. Cardinality(results \ M) \in Nat /\ Cardinality(results \ M) < MaxManagement
  BY <1>2, FS_CardinalityType DEF Manages
<1>4. IsFiniteSet(results') /\ Cardinality(results') <= Cardinality(results \ M) + 1
  BY <1>1, <1>2, OneMore
<1>5. Cardinality(results') \in Nat
  BY <1>4, FS_CardinalityType
<1> QED
  BY <1>3, <1>4, <1>5, DeletionConstants DEF ResultsFit

\* Records leave at most one fence each.
LEMMA RetiredByIsSmall ==
    ASSUME NEW S, NEW M, IsFiniteSet(S), IsFiniteSet(M)
    PROVE  /\ IsFiniteSet(RetiredBy(S, M))
           /\ Cardinality(RetiredBy(S, M)) \in Nat
           /\ Cardinality(RetiredBy(S, M)) <= Cardinality(S) + Cardinality(M)
<1> DEFINE F == [r \in S |-> FenceOf(r)]
           G == [m \in M |-> ResultFence(m)]
<1>1. RetiredBy(S, M) = {F[r] : r \in S} \cup {G[m] : m \in M}
  BY DEF RetiredBy
<1>2. F = [r \in S |-> F[r]] /\ G = [m \in M |-> G[m]]
  OBVIOUS
<1> HIDE DEF F, G
<1> DEFINE A == {F[r] : r \in S}
           B == {G[m] : m \in M}
<1>3. /\ IsFiniteSet(A) /\ Cardinality(A) <= Cardinality(S)
      /\ IsFiniteSet(B) /\ Cardinality(B) <= Cardinality(M)
  BY <1>2, ImageIsFinite
<1> HIDE DEF A, B
<1>4. /\ IsFiniteSet(A \cup B)
      /\ Cardinality(A \cup B) = Cardinality(A) + Cardinality(B) - Cardinality(A \cap B)
  BY <1>3, FS_Union
<1>5. IsFiniteSet(A \cap B)
  BY <1>3, FS_Intersection
<1>6. /\ Cardinality(A) \in Nat /\ Cardinality(B) \in Nat
      /\ Cardinality(A \cap B) \in Nat /\ Cardinality(A \cup B) \in Nat
      /\ Cardinality(S) \in Nat /\ Cardinality(M) \in Nat
  BY <1>3, <1>4, <1>5, FS_CardinalityType
<1>7. Cardinality(A \cup B) <= Cardinality(S) + Cardinality(M)
  BY <1>3, <1>4, <1>6
<1> QED
  BY <1>1, <1>4, <1>6, <1>7 DEF A, B

\* The results stay within their table.
LEMMA ResultsStayFit ==
    ASSUME ResultsFit, [Next]_vars
    PROVE  ResultsFit'
<1> USE DEF ResultsFit, directoryVars, journalVars, processVars, releaseVars
<1>1. CASE Forget \/ GiveUpRelease \/ Publish \/ Retain \/ Crash
          \/ UNCHANGED vars
  BY <1>1 DEF Forget, GiveUpRelease, Publish, Retain, Crash, vars
<1>2. ASSUME NEW d \in Deleter, Replay(d) \/ Open(d) \/ Refuse(d) \/ Write(d)
          \/ Reject(d) \/ Delete(d) \/ StaysPrepared(d) \/ Succeed(d)
     PROVE  ResultsFit'
  BY <1>2 DEF Replay, Open, Refuse, Write, Reject, Delete, StaysPrepared,
         Succeed
<1>3. ASSUME NEW r \in Request, Survey(r)
     PROVE  ResultsFit'
  BY <1>3 DEF Survey
<1>4. ASSUME NEW b \in Backup, AcknowledgePublication(b)
          \/ DeleteUnjournaled(b) \/ CopyBack(b)
     PROVE  ResultsFit'
  BY <1>4 DEF AcknowledgePublication, DeleteUnjournaled, CopyBack
<1>5. ASSUME NEW d \in Deleter, NEW r \in Request, Ask(d, r)
     PROVE  ResultsFit'
  BY <1>5 DEF Ask
<1>6. ASSUME NEW S \in SUBSET Terminal, NEW M \in SUBSET results,
            NEW C \in SUBSET Retired, CanManage, Reclaim(S, M, C)
     PROVE  ResultsFit'
  <2>1. Manages(results \ M, process)
    BY <1>6 DEF Reclaim
  <2> HIDE DEF ResultsFit
  <2> QED
    BY <2>1, ManagesFits
<1>7. CASE ReleaseUnknownProtection
  <2>1. Manages(results \ {}, process)
    <3>1. results \ {} = results
      OBVIOUS
    <3> QED
      BY <1>7, <3>1 DEF ReleaseUnknownProtection
  <2> HIDE DEF ResultsFit
  <2> QED
    BY <2>1, ManagesFits
<1> QED
  BY <1>1, <1>2, <1>3, <1>4, <1>5, <1>6, <1>7 DEF Next, DeleterNext,
         ManagementNext

\* Fences are compacted to make room for those a request adds.
LEMMA FencesStayFit ==
    ASSUME Typed, FactsFit, ResultsFit, FencesFit, [Next]_vars
    PROVE  FencesFit'
<1> USE DEF FencesFit, Retired, directoryVars, journalVars, processVars,
       releaseVars
<1>1. CASE Forget \/ ReleaseUnknownProtection \/ GiveUpRelease \/ Publish
          \/ Retain \/ Crash \/ UNCHANGED vars
  BY <1>1 DEF Forget, ReleaseUnknownProtection, GiveUpRelease, Publish,
         Retain, Crash, vars
<1>2. ASSUME NEW d \in Deleter, Replay(d) \/ Open(d) \/ Refuse(d) \/ Write(d)
          \/ Reject(d) \/ Delete(d) \/ StaysPrepared(d) \/ Succeed(d)
     PROVE  FencesFit'
  BY <1>2 DEF Replay, Open, Refuse, Write, Reject, Delete, StaysPrepared,
         Succeed
<1>3. ASSUME NEW r \in Request, Survey(r)
     PROVE  FencesFit'
  BY <1>3 DEF Survey
<1>4. ASSUME NEW b \in Backup, AcknowledgePublication(b)
          \/ DeleteUnjournaled(b) \/ CopyBack(b)
     PROVE  FencesFit'
  BY <1>4 DEF AcknowledgePublication, DeleteUnjournaled, CopyBack
<1>5. ASSUME NEW d \in Deleter, NEW r \in Request, Ask(d, r)
     PROVE  FencesFit'
  BY <1>5 DEF Ask
<1>6. ASSUME NEW S \in SUBSET Terminal, NEW M \in SUBSET results,
            NEW C \in SUBSET Retired, CanManage, Reclaim(S, M, C)
     PROVE  FencesFit'
  <2>1. Retired' \subseteq (Retired \ C) \cup RetiredBy(S, M)
    <3>1. \A f \in Fence :
             high'[f] > 0 => (f \notin C /\ high[f] > 0) \/ f \in RetiredBy(S, M)
      BY <1>6, RetireEffect DEF Reclaim
    <3> QED
      BY <3>1
  <2>2. Cardinality((Retired \ C) \cup RetiredBy(S, M)) <= MaxRetired
    BY <1>6 DEF Reclaim, MayReclaim, HasRoom
  <2>3. IsFiniteSet((Retired \ C) \cup RetiredBy(S, M))
    <3>1. IsFiniteSet(S) /\ IsFiniteSet(M)
      BY FS_Subset DEF FactsFit, ResultsFit, Terminal
    <3>2. IsFiniteSet(RetiredBy(S, M))
      BY <3>1, RetiredByIsSmall
    <3>3. IsFiniteSet(Retired \ C)
      BY FS_Difference
    <3> HIDE DEF Retired
    <3> QED
      BY <3>2, <3>3, FS_Union
  <2> HIDE DEF Retired
  <2>4. /\ IsFiniteSet(Retired')
        /\ Cardinality(Retired') <= Cardinality((Retired \ C) \cup RetiredBy(S, M))
    BY <2>1, <2>3, FS_Subset
  <2>5. /\ Cardinality(Retired') \in Nat
        /\ Cardinality((Retired \ C) \cup RetiredBy(S, M)) \in Nat
    BY <2>3, <2>4, FS_CardinalityType
  <2> QED
    BY <2>2, <2>4, <2>5, DeletionConstants
<1> QED
  BY <1>1, <1>2, <1>3, <1>4, <1>5, <1>6 DEF Next, DeleterNext, ManagementNext

----------------------------------------------------------------------------
(* A full journal is never a dead end                                      *)

\* Two results of a full table make room for one and for its reserve.
LEMMA PickResults ==
    ASSUME IsFiniteSet(results), Cardinality(results) \in Nat,
           Cardinality(results) <= MaxManagement
    PROVE  \E M \in SUBSET results :
               /\ IsFiniteSet(M) /\ Cardinality(M) <= 2
               /\ Cardinality(results \ M) + 1 < MaxManagement
               /\ ~(Cardinality(results) < MaxManagement) => M # {}
<1>1. MaxManagement \in Nat /\ MaxManagement > 1
  BY DeletionConstants
<1>2. CASE results = {}
  <2>1. {} \in SUBSET results /\ results \ {} = {}
    BY <1>2
  <2> QED
    BY <1>1, <1>2, <2>1, FS_EmptySet
<1>3. ASSUME NEW m \in results
      PROVE  \E M \in SUBSET results :
               /\ IsFiniteSet(M) /\ Cardinality(M) <= 2
               /\ Cardinality(results \ M) + 1 < MaxManagement
               /\ ~(Cardinality(results) < MaxManagement) => M # {}
  <2>1. IsFiniteSet({m}) /\ Cardinality({m}) = 1
    BY FS_Singleton
  <2>2. /\ IsFiniteSet(results \ {m})
        /\ Cardinality(results \ {m}) = Cardinality(results) - 1
    BY FS_RemoveElement
  <2>3. CASE results \ {m} = {}
    <3>1. Cardinality(results \ {m}) = 0
      BY <2>3, FS_EmptySet
    <3>2. {m} \in SUBSET results /\ {m} # {}
      OBVIOUS
    <3> QED
      BY <1>1, <2>1, <3>1, <3>2
  <2>4. ASSUME NEW n \in results \ {m}
        PROVE  \E M \in SUBSET results :
                 /\ IsFiniteSet(M) /\ Cardinality(M) <= 2
                 /\ Cardinality(results \ M) + 1 < MaxManagement
                 /\ ~(Cardinality(results) < MaxManagement) => M # {}
    <3>1. /\ IsFiniteSet({m} \cup {n}) /\ Cardinality({m} \cup {n}) = 2
      BY <2>1, FS_AddElement
    <3>2. Cardinality((results \ {m}) \ {n}) = Cardinality(results) - 2
      <4>1. Cardinality((results \ {m}) \ {n}) = Cardinality(results \ {m}) - 1
        BY <2>2, FS_RemoveElement
      <4> QED
        BY <2>2, <4>1
    <3>3. (results \ {m}) \ {n} = results \ ({m} \cup {n})
      OBVIOUS
    <3>4. {m} \cup {n} \in SUBSET results /\ {m} \cup {n} # {}
      OBVIOUS
    <3>5. Cardinality(results \ ({m} \cup {n})) + 1 < MaxManagement
      BY <1>1, <3>2, <3>3
    <3> QED
      BY <3>1, <3>4, <3>5
  <2> QED
    BY <2>3, <2>4
<1> QED
  BY <1>2, <1>3

\* A request that compacts three fences, or all there are, has room for the
\* fences of three records.
LEMMA CompactionFits ==
    ASSUME NEW S, NEW M, NEW C \in SUBSET Retired,
           IsFiniteSet(S), IsFiniteSet(M), IsFiniteSet(C),
           Cardinality(S) \in Nat, Cardinality(M) \in Nat,
           Cardinality(S) <= 1, Cardinality(M) <= 2,
           Cardinality(C) = 3 \/ C = Retired,
           IsFiniteSet(Retired), Cardinality(Retired) \in Nat,
           Cardinality(Retired) <= MaxRetired
    PROVE  HasRoom(S, M, C)
<1>1. MaxRetired \in Nat /\ MaxRetired > 2
  BY DeletionConstants
<1>2. /\ IsFiniteSet(RetiredBy(S, M)) /\ Cardinality(RetiredBy(S, M)) \in Nat
      /\ Cardinality(RetiredBy(S, M)) <= 3
  BY RetiredByIsSmall
<1>3. /\ IsFiniteSet(Retired \ C)
      /\ Cardinality(Retired \ C) = Cardinality(Retired) - Cardinality(Retired \cap C)
  BY FS_Difference
<1>4. Retired \cap C = C
  OBVIOUS
<1>5. Cardinality(Retired \ C) \in Nat /\ Cardinality(Retired \ C) + 3 <= MaxRetired
  <2>1. CASE Cardinality(C) = 3
    <3>1. Cardinality(Retired \ C) = Cardinality(Retired) - 3
      BY <1>3, <1>4, <2>1
    <3>2. Cardinality(Retired \ C) \in Nat
      BY <1>3, FS_CardinalityType
    <3> QED
      BY <1>1, <3>1, <3>2
  <2>2. CASE C = Retired
    <3>1. Retired \ C = {}
      BY <2>2
    <3> QED
      BY <1>1, <3>1, FS_EmptySet
  <2> QED
    BY <2>1, <2>2
<1> DEFINE K == Retired \ C
           R == RetiredBy(S, M)
<1> HIDE DEF K, R
<1>6. /\ IsFiniteSet(K \cup R)
      /\ Cardinality(K \cup R) = Cardinality(K) + Cardinality(R) - Cardinality(K \cap R)
  BY <1>2, <1>3, FS_Union DEF K, R
<1>7. Cardinality(K \cap R) \in Nat
  <2>1. IsFiniteSet(K \cap R)
    BY <1>3, FS_Intersection DEF K
  <2> QED
    BY <2>1, FS_CardinalityType
<1>8. Cardinality(K) \in Nat /\ Cardinality(R) \in Nat
      /\ Cardinality(K) + 3 <= MaxRetired /\ Cardinality(R) <= 3
  BY <1>2, <1>5 DEF K, R
<1>9. Cardinality(K \cup R) <= MaxRetired
  BY <1>1, <1>6, <1>7, <1>8
<1> QED
  BY <1>9 DEF HasRoom, K, R

\* One fact, two results and three fences suffice: the fences they leave take
\* the place of those that are compacted.
LEMMA SoundIsRecoverable ==
    ASSUME Typed, OfThePast, FactsFit, ResultsFit, FencesFit
    PROVE  Recoverable
<1> DEFINE Room == Cardinality(results) < MaxManagement
           Free == Cardinality(Facts) < MaxRecords \/ Unresolved # {}
<1>1. CASE Room /\ Free
  BY <1>1 DEF Recoverable
<1>2. CASE ~(Room /\ Free)
  <2>1. /\ IsFiniteSet(results) /\ Cardinality(results) \in Nat
        /\ Cardinality(results) <= MaxManagement
    BY FS_CardinalityType DEF ResultsFit
  <2>2. /\ IsFiniteSet(Facts) /\ Cardinality(Facts) \in Nat
        /\ Cardinality(Facts) <= MaxRecords
    BY FS_CardinalityType DEF FactsFit
  <2>3. /\ IsFiniteSet(Retired) /\ Cardinality(Retired) \in Nat
        /\ Cardinality(Retired) <= MaxRetired
    BY FS_CardinalityType DEF FencesFit
  <2>4. PICK C \in SUBSET Retired :
           /\ IsFiniteSet(C) /\ Cardinality(C) <= 3
           /\ Cardinality(C) = 3 \/ C = Retired
    BY <2>3, PickThree
  <2>5. \E M \in SUBSET results :
           /\ IsFiniteSet(M) /\ Cardinality(M) <= 2
           /\ Cardinality(results \ M) + 1 < MaxManagement
           /\ ~Room => M # {}
    BY <2>1, PickResults
  <2>6. PICK M \in SUBSET results :
           /\ IsFiniteSet(M) /\ Cardinality(M) <= 2
           /\ Cardinality(results \ M) + 1 < MaxManagement
           /\ ~Room => M # {}
    BY <2>5
  <2>7. \E S \in SUBSET Terminal :
           /\ IsFiniteSet(S) /\ Cardinality(S) <= 1
           /\ Cardinality(Facts \ S) < MaxRecords \/ Unresolved # {}
           /\ ~Free => S # {}
    <3>1. CASE Free
      <4>1. {} \in SUBSET Terminal /\ Facts \ {} = Facts
        OBVIOUS
      <4> QED
        BY <3>1, <4>1, FS_EmptySet
    <3>2. CASE ~Free
      <4>1. Unresolved = {} /\ Cardinality(Facts) = MaxRecords
        BY <2>2, <3>2, DeletionConstants
      <4>2. Facts # {}
        BY <2>2, <4>1, FS_EmptySet, DeletionConstants
      <4>3. PICK r \in Facts : TRUE
        BY <4>2
      <4>4. {r} \in SUBSET Terminal
        BY <4>1, <4>3 DEF Terminal
      <4>5. Cardinality(Facts \ {r}) = Cardinality(Facts) - 1
        BY <2>2, <4>3, FS_RemoveElement
      <4>6. IsFiniteSet({r}) /\ Cardinality({r}) = 1
        BY FS_Singleton
      <4>7. Cardinality(Facts \ {r}) < MaxRecords
        BY <2>2, <4>1, <4>5, DeletionConstants
      <4> QED
        BY <4>4, <4>6, <4>7
    <3> QED
      BY <3>1, <3>2
  <2>8. PICK S \in SUBSET Terminal :
           /\ IsFiniteSet(S) /\ Cardinality(S) <= 1
           /\ Cardinality(Facts \ S) < MaxRecords \/ Unresolved # {}
           /\ ~Free => S # {}
    BY <2>7
  <2>9. /\ Cardinality(S) \in Nat /\ Cardinality(M) \in Nat
        /\ Cardinality(C) \in Nat
    BY <2>4, <2>6, <2>8, FS_CardinalityType
  <2>10. S \cup M \cup C # {}
    BY <1>2, <2>6, <2>8
  <2>11. Cardinality(S) + Cardinality(M) + Cardinality(C) <= MaxBatch
    BY <2>4, <2>6, <2>8, <2>9, DeletionConstants
  <2>12. \A f \in C : f.proc # process + 1
    <3>1. \A f \in C : f \in Fence /\ high[f] > 0
      BY DEF Retired
    <3>2. \A f \in C : f.proc \in Nat /\ f.proc <= process
      BY <3>1, DeletionConstants DEF OfThePast, Fence, Process
    <3> QED
      BY <3>2 DEF Typed
  <2>13. HasRoom(S, M, C)
    BY <2>3, <2>4, <2>6, <2>8, <2>9, CompactionFits
  <2>14. MayReclaim(S, M, C, process + 1)
    BY <2>10, <2>11, <2>12, <2>13 DEF MayReclaim
  <2> QED
    BY <2>6, <2>8, <2>14 DEF Recoverable
<1> QED
  BY <1>1, <1>2

----------------------------------------------------------------------------
(* The invariant and the theorems                                          *)

\* The first state is sound.
LEMMA InitSound == Init => Sound
<1> SUFFICES ASSUME Init PROVE Sound
  OBVIOUS
<1> USE DEF Init
<1>1. Typed
  BY RequestFields DEF Typed
<1>2. \A r \in Request : fact[r] = "none" /\ effects[r] = 0
  OBVIOUS
<1>3. \A f \in Fence : high[f] = 0
  OBVIOUS
<1>4. OfThePast
  BY <1>2, <1>3 DEF OfThePast
<1>5. InHand /\ OneLock
  BY DEF InHand, OneLock, Locking
<1>6. FreshIsUnresolved
  BY DEF FreshIsUnresolved
<1>7. Facts = {} /\ results = {} /\ Retired = {}
  BY <1>2, <1>3 DEF Facts, Retired
<1>8. FactsFit /\ ResultsFit /\ FencesFit
  BY <1>7, FS_EmptySet, DeletionConstants DEF FactsFit, ResultsFit, FencesFit
<1>9. FactsAreTrue
  BY <1>2 DEF FactsAreTrue
<1> QED
  BY <1>1, <1>4, <1>5, <1>6, <1>8, <1>9 DEF Sound

\* Every step keeps a sound state sound.
LEMMA StepSound == Sound /\ [Next]_vars => Sound'
<1> SUFFICES ASSUME Sound, [Next]_vars PROVE Sound'
  OBVIOUS
<1>1. /\ Typed /\ OfThePast /\ InHand /\ OneLock /\ FreshIsUnresolved
      /\ FactsFit /\ ResultsFit /\ FencesFit /\ FactsAreTrue
  BY DEF Sound
<1>2. Typed' /\ OfThePast'
  BY <1>1, TypesStay, ThePastStays
<1>3. InHand' /\ OneLock' /\ FreshIsUnresolved'
  BY <1>1, HandsStay, OneLockStays, FreshStaysUnresolved
<1>4. FactsFit' /\ ResultsFit' /\ FencesFit'
  BY <1>1, FactsStayFit, ResultsStayFit, FencesStayFit
<1>5. FactsAreTrue'
  BY <1>1, FactsStayTrue
<1> QED
  BY <1>2, <1>3, <1>4, <1>5 DEF Sound

\* Every reachable state is sound.
THEOREM SoundAlways == Spec => []Sound
  BY InitSound, StepSound, PTL DEF Spec

\* A request deletes at most one file and its terminal fact says whether it
\* did, whatever is retried, acknowledged, compacted or lost in a crash (the
\* deletion under the publication lock and the journal's high-water fences).
THEOREM FactsAlwaysTrue == Spec => []FactsAreTrue
<1>1. Sound => FactsAreTrue
  BY DEF Sound
<1> QED
  BY <1>1, SoundAlways, PTL

\* Whatever fills the journal, an unresolved fact can be released or one
\* request after a restart makes room for a fact and for a result.
THEOREM AlwaysRecoverable == Spec => []Recoverable
<1>1. Sound => Recoverable
  BY SoundIsRecoverable DEF Sound
<1> QED
  BY <1>1, SoundAlways, PTL
=============================================================================
