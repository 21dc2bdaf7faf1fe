------------------------ MODULE SessionLockerProofs ------------------------
(***************************************************************************)
(* For every number of calls, sessions and mutex objects: SessionLocker    *)
(* keeps one call at a time in a session, its reference counts are exact,  *)
(* no entry outlives or leaves behind its users, and it implements the     *)
(* abstract SessionMutex.                                                  *)
(***************************************************************************)
EXTENDS SessionLocker, FiniteSetTheorems, TLAPS

-----------------------------------------------------------------------------
(* The inductive invariant *)

\* How the acquiring goroutine and the call that started it go together.
HelperMatches ==
    \A c \in Calls : /\ helper[c] = "none" <=> pc[c] = "idle"
                     /\ pc[c] \in {"held", "releasing"} => helper[c] = "closed"

\* Between sm.mu.Lock() returning and sm.mu.Unlock(), the mutex is the call's.
OwnsMutex ==
    \A c \in Calls :
        helper[c] \in {"locked", "closed"} /\ pc[c] # "releasing" => owner[sm[c]] = c

\* No mutex object serves two sessions.
OneSessionPerMutex ==
    \A s, t \in Sessions : locks[s] = locks[t] /\ locks[s] # NoMutex => s = t

IInv == /\ TypeOK
        /\ HelperMatches
        /\ OwnsMutex
        /\ OneSessionPerMutex
        /\ EntryOutlivesUsers
        /\ RefCountIsUsers

-----------------------------------------------------------------------------
(* The users of a mutex *)

\* The users of a mutex are finitely many, and none are counted as 0.
LEMMA UsersFinite ==
    ASSUME NEW m \in Mutexes
    PROVE  /\ IsFiniteSet(Users(m))
           /\ Cardinality(Users(m)) \in Nat
           /\ Cardinality(Users(m)) = 0 <=> Users(m) = {}
<1>1. Users(m) \subseteq Calls
  BY DEF Users
<1>2. IsFiniteSet(Users(m))
  BY <1>1, CallsFinite, FS_Subset
<1> QED
  BY <1>2, FS_CardinalityType, FS_EmptySet

\* A mutex whose count is 1 has no user but the one that is counted.
LEMMA OnlyUser ==
    ASSUME NEW m \in Mutexes, NEW c \in Users(m), Cardinality(Users(m)) = 1
    PROVE  Users(m) = {c}
<1>1. IsFiniteSet(Users(m))
  BY UsersFinite
<1>2. /\ IsFiniteSet(Users(m) \ {c})
      /\ Cardinality(Users(m) \ {c}) = 0
  BY <1>1, FS_RemoveElement
<1>3. Users(m) \ {c} = {}
  BY <1>2, FS_EmptySet
<1> QED
  BY <1>3

\* A mutex object that nothing refers to has count 0.
LEMMA UnreferencedCount ==
    ASSUME IInv, NEW m \in Mutexes, Unreferenced(m)
    PROVE  refCount[m] = 0
BY UsersFinite DEF IInv, RefCountIsUsers, Unreferenced

-----------------------------------------------------------------------------
(* The invariant is inductive *)

\* The invariant holds initially.
LEMMA InitIInv == Init => IInv
<1> SUFFICES ASSUME Init PROVE IInv
  OBVIOUS
<1>1. TypeOK
  BY DEF Init, TypeOK, PCs, Helpers
<1>2. HelperMatches /\ OwnsMutex /\ OneSessionPerMutex /\ EntryOutlivesUsers
  BY DEF Init, HelperMatches, OwnsMutex, OneSessionPerMutex, EntryOutlivesUsers, Using
<1>3. RefCountIsUsers
  <2>1. \A m \in Mutexes : Users(m) = {}
    BY DEF Init, Users, Using
  <2> QED
    BY <2>1, UsersFinite DEF Init, RefCountIsUsers
<1> QED
  BY <1>1, <1>2, <1>3 DEF IInv

\* A step that changes neither pc, sm, the table nor the counts keeps the counts exact.
LEMMA SameUsers ==
    ASSUME IInv,
           UNCHANGED <<locks, refCount, sm, sess>>,
           \A d \in Calls : Using(d)' <=> Using(d)
    PROVE  RefCountIsUsers' /\ EntryOutlivesUsers' /\ OneSessionPerMutex'
<1>1. \A m \in Mutexes : Users(m)' = Users(m)
  BY DEF Users
<1> QED
  BY <1>1 DEF IInv, RefCountIsUsers, EntryOutlivesUsers, OneSessionPerMutex

\* Lock's critical section keeps the invariant.
LEMMA LockEnterIInv ==
    ASSUME IInv, NEW c \in Calls, NEW s \in Sessions, LockEnter(c, s)
    PROVE  IInv'
<1>1. PICK m \in Mutexes : LookUp(s, m) /\ sm' = [sm EXCEPT ![c] = m]
  BY DEF LockEnter
<1>2. /\ pc[c] = "idle"
      /\ pc' = [pc EXCEPT ![c] = "waiting"]
      /\ helper' = [helper EXCEPT ![c] = "locking"]
      /\ sess' = [sess EXCEPT ![c] = s]
      /\ UNCHANGED owner
  BY DEF LockEnter
<1>3. refCount[m] \in Nat /\ refCount' = [refCount EXCEPT ![m] = @ + 1]
  BY <1>1, UnreferencedCount DEF LookUp, IInv, TypeOK
<1>4. /\ locks' = [locks EXCEPT ![s] = m]
      /\ \A t \in Sessions : locks[t] = m => t = s
      /\ \A d \in Calls : Using(d) /\ sess[d] = s => sm[d] = m
  <2>1. CASE locks[s] # NoMutex
    BY <1>1, <2>1 DEF LookUp, IInv, TypeOK, OneSessionPerMutex, EntryOutlivesUsers
  <2>2. CASE locks[s] = NoMutex
    BY <1>1, <2>2, NoMutexFresh DEF LookUp, IInv, TypeOK, EntryOutlivesUsers, Unreferenced
  <2> QED
    BY <2>1, <2>2
<1>5. TypeOK'
  <2>1. ctxDone' \in [Calls -> BOOLEAN]
    BY DEF LockEnter, IInv, TypeOK
  <2>2. /\ locks' \in [Sessions -> Mutexes \cup {NoMutex}]
        /\ refCount' \in [Mutexes -> Nat]
        /\ owner' \in [Mutexes -> Calls \cup {NoCall}]
        /\ sess' \in [Calls -> Sessions]
        /\ sm' \in [Calls -> Mutexes]
    BY <1>1, <1>2, <1>3, <1>4 DEF IInv, TypeOK
  <2>3. pc' \in [Calls -> PCs] /\ helper' \in [Calls -> Helpers]
    BY <1>2 DEF IInv, TypeOK, PCs, Helpers
  <2> QED
    BY <2>1, <2>2, <2>3, Zenon DEF TypeOK
<1>6. HelperMatches' /\ OwnsMutex'
  BY <1>1, <1>2 DEF IInv, TypeOK, HelperMatches, OwnsMutex
<1>7. OneSessionPerMutex'
  BY <1>4 DEF IInv, TypeOK, OneSessionPerMutex
<1>8. EntryOutlivesUsers'
  BY <1>1, <1>2, <1>4 DEF IInv, TypeOK, EntryOutlivesUsers, Using
<1>9. RefCountIsUsers'
  <2>1. Users(m)' = Users(m) \cup {c} /\ c \notin Users(m)
    BY <1>1, <1>2 DEF IInv, TypeOK, Users, Using
  <2>2. \A n \in Mutexes \ {m} : Users(n)' = Users(n)
    BY <1>1, <1>2 DEF IInv, TypeOK, Users, Using
  <2>3. Cardinality(Users(m)') = Cardinality(Users(m)) + 1
    BY <2>1, UsersFinite, FS_AddElement
  <2>4. \A n \in Mutexes : refCount'[n] = Cardinality(Users(n)')
    BY <1>3, <2>2, <2>3 DEF IInv, TypeOK, RefCountIsUsers
  <2>5. \A t \in Sessions : locks'[t] # NoMutex => refCount'[locks'[t]] > 0
    <3> SUFFICES ASSUME NEW t \in Sessions, locks'[t] # NoMutex
                 PROVE  refCount'[locks'[t]] > 0
      OBVIOUS
    <3>1. CASE t = s
      BY <3>1, <1>3, <1>4 DEF IInv, TypeOK
    <3>2. CASE t # s
      BY <3>2, <1>3, <1>4 DEF IInv, TypeOK, RefCountIsUsers
    <3> QED
      BY <3>1, <3>2
  <2> QED
    BY <2>4, <2>5 DEF RefCountIsUsers
<1> QED
  BY <1>5, <1>6, <1>7, <1>8, <1>9 DEF IInv

\* Dropping a reference, and the entry with the last one, keeps the invariant.
LEMMA DropRefIInv ==
    ASSUME IInv, NEW c \in Calls, DropRef(c)
    PROVE  IInv'
<1> DEFINE m == sm[c]
<1>1. /\ pc[c] = "releasing"
      /\ refCount' = [refCount EXCEPT ![m] = @ - 1]
      /\ pc' = [pc EXCEPT ![c] = "idle"]
      /\ helper' = [helper EXCEPT ![c] = "none"]
      /\ UNCHANGED <<owner, sess, sm, ctxDone>>
      /\ locks' = IF refCount[m] = 1 THEN [locks EXCEPT ![sess[c]] = NoMutex] ELSE locks
  BY DEF DropRef, LastRef
<1>2. m \in Mutexes /\ c \in Users(m) /\ locks[sess[c]] = m /\ sess[c] \in Sessions
  BY <1>1 DEF IInv, TypeOK, Users, Using, EntryOutlivesUsers
<1>3. /\ refCount[m] \in Nat
      /\ refCount[m] = Cardinality(Users(m))
      /\ refCount[m] # 0
  BY <1>2, UsersFinite DEF IInv, TypeOK, RefCountIsUsers
<1>4. TypeOK'
  BY <1>1, <1>2, <1>3 DEF IInv, TypeOK, PCs, Helpers
<1>5. HelperMatches' /\ OwnsMutex'
  BY <1>1 DEF IInv, TypeOK, HelperMatches, OwnsMutex
<1>6. OneSessionPerMutex'
  BY <1>1 DEF IInv, TypeOK, OneSessionPerMutex
<1>7. EntryOutlivesUsers'
  <2> SUFFICES ASSUME NEW d \in Calls, Using(d)'
               PROVE  locks'[sess'[d]] = sm'[d]
    BY DEF EntryOutlivesUsers
  <2>1. d # c /\ Using(d) /\ sess[d] \in Sessions /\ locks[sess[d]] = sm[d]
    BY <1>1 DEF IInv, TypeOK, Using, EntryOutlivesUsers
  <2>2. CASE refCount[m] = 1
    <3>1. Users(m) = {c}
      BY <1>2, <1>3, <2>2, OnlyUser
    <3>2. sm[d] # m
      BY <2>1, <3>1 DEF Users
    <3>3. sess[d] # sess[c]
      BY <1>2, <2>1, <3>2
    <3> QED
      BY <1>1, <2>1, <2>2, <3>3 DEF IInv, TypeOK
  <2>3. CASE refCount[m] # 1
    BY <1>1, <2>1, <2>3
  <2> QED
    BY <2>2, <2>3
<1>8. RefCountIsUsers'
  <2>1. Users(m)' = Users(m) \ {c}
    BY <1>1 DEF IInv, TypeOK, Users, Using
  <2>2. \A n \in Mutexes \ {m} : Users(n)' = Users(n)
    BY <1>1 DEF IInv, TypeOK, Users, Using
  <2>3. Cardinality(Users(m)') = Cardinality(Users(m)) - 1
    BY <1>2, <2>1, UsersFinite, FS_RemoveElement
  <2>4. \A n \in Mutexes : refCount'[n] = Cardinality(Users(n)')
    BY <1>1, <1>3, <2>2, <2>3 DEF IInv, TypeOK, RefCountIsUsers
  <2>5. \A t \in Sessions : locks'[t] # NoMutex => refCount'[locks'[t]] > 0
    <3> SUFFICES ASSUME NEW t \in Sessions, locks'[t] # NoMutex
                 PROVE  refCount'[locks'[t]] > 0
      OBVIOUS
    <3>1. locks[t] # NoMutex /\ locks'[t] = locks[t] /\ locks[t] \in Mutexes
      BY <1>1, <1>2 DEF IInv, TypeOK
    <3>2. refCount[locks[t]] > 0
      BY <3>1 DEF IInv, RefCountIsUsers
    <3>3. CASE locks[t] = m
      <4>1. t = sess[c]
        BY <3>1, <3>3, <1>2 DEF IInv, OneSessionPerMutex
      <4>2. refCount[m] # 1
        BY <1>1, <1>2, <4>1, <3>1 DEF IInv, TypeOK
      <4> QED
        BY <1>1, <1>2, <1>3, <3>1, <3>3, <4>2 DEF IInv, TypeOK
    <3>4. CASE locks[t] # m
      BY <1>1, <3>1, <3>2, <3>4 DEF IInv, TypeOK
    <3> QED
      BY <3>3, <3>4
  <2> QED
    BY <2>4, <2>5 DEF RefCountIsUsers
<1> QED
  BY <1>4, <1>5, <1>6, <1>7, <1>8 DEF IInv

\* Every step of the specification keeps the invariant.
LEMMA NextIInv == IInv /\ [Next]_vars => IInv'
<1> SUFFICES ASSUME IInv, [Next]_vars PROVE IInv'
  OBVIOUS
<1>1. ASSUME NEW c \in Calls, NEW s \in Sessions, LockEnter(c, s) PROVE IInv'
  BY <1>1, LockEnterIInv
<1>2. ASSUME NEW c \in Calls, AcquireMutex(c) PROVE IInv'
  <2>1. TypeOK' /\ HelperMatches' /\ OwnsMutex'
    BY <1>2, NoCallFresh DEF IInv, TypeOK, HelperMatches, OwnsMutex, AcquireMutex, Helpers, PCs
  <2> QED
    BY <1>2, <2>1, SameUsers DEF AcquireMutex, IInv, Using
<1>3. ASSUME NEW c \in Calls, CloseAcquired(c) PROVE IInv'
  <2>1. TypeOK' /\ HelperMatches' /\ OwnsMutex'
    BY <1>3 DEF IInv, TypeOK, HelperMatches, OwnsMutex, CloseAcquired, Helpers, PCs
  <2> QED
    BY <1>3, <2>1, SameUsers DEF CloseAcquired, IInv, Using
<1>4. ASSUME NEW c \in Calls, LockGranted(c) PROVE IInv'
  <2>1. TypeOK' /\ HelperMatches' /\ OwnsMutex'
    BY <1>4 DEF IInv, TypeOK, HelperMatches, OwnsMutex, LockGranted, Helpers, PCs
  <2>2. \A d \in Calls : Using(d)' <=> Using(d)
    BY <1>4 DEF LockGranted, IInv, TypeOK, Using
  <2> QED
    BY <1>4, <2>1, <2>2, SameUsers DEF LockGranted, IInv
<1>5. ASSUME NEW c \in Calls, LockCancelled(c) PROVE IInv'
  <2>1. TypeOK' /\ HelperMatches' /\ OwnsMutex'
    BY <1>5 DEF IInv, TypeOK, HelperMatches, OwnsMutex, LockCancelled, Helpers, PCs
  <2>2. \A d \in Calls : Using(d)' <=> Using(d)
    BY <1>5 DEF LockCancelled, IInv, TypeOK, Using
  <2> QED
    BY <1>5, <2>1, <2>2, SameUsers DEF LockCancelled, IInv
<1>6. ASSUME NEW c \in Calls, CancelContext(c) PROVE IInv'
  <2>1. TypeOK' /\ HelperMatches' /\ OwnsMutex'
    BY <1>6 DEF IInv, TypeOK, HelperMatches, OwnsMutex, CancelContext
  <2> QED
    BY <1>6, <2>1, SameUsers DEF CancelContext, IInv, Using
<1>7. ASSUME NEW c \in Calls, UnlockMutex(c) \/ CleanupUnlock(c) PROVE IInv'
  <2>1. /\ pc[c] \in {"held", "cancelled"} /\ helper[c] = "closed"
        /\ owner' = [owner EXCEPT ![sm[c]] = NoCall]
        /\ pc' = [pc EXCEPT ![c] = "releasing"]
        /\ UNCHANGED <<locks, refCount, helper, sess, sm, ctxDone>>
    BY <1>7 DEF UnlockMutex, CleanupUnlock, IInv, HelperMatches
  <2>2. TypeOK' /\ HelperMatches'
    BY <2>1 DEF IInv, TypeOK, HelperMatches, PCs
  <2>3. OwnsMutex'
    BY <2>1 DEF IInv, TypeOK, OwnsMutex, HelperMatches
  <2>4. \A d \in Calls : Using(d)' <=> Using(d)
    BY <2>1 DEF IInv, TypeOK, Using
  <2> QED
    BY <2>1, <2>2, <2>3, <2>4, SameUsers DEF IInv
<1>8. ASSUME NEW c \in Calls, DropRef(c) PROVE IInv'
  BY <1>8, DropRefIInv
<1>9. CASE UNCHANGED vars
  <2>1. TypeOK' /\ HelperMatches' /\ OwnsMutex' /\ OneSessionPerMutex'
    BY <1>9 DEF vars, IInv, TypeOK, HelperMatches, OwnsMutex, OneSessionPerMutex
  <2>2. RefCountIsUsers' /\ EntryOutlivesUsers'
    BY <1>9 DEF vars, IInv, RefCountIsUsers, EntryOutlivesUsers, Users, Using
  <2> QED
    BY <2>1, <2>2 DEF IInv
<1> QED
  BY <1>1, <1>2, <1>3, <1>4, <1>5, <1>6, <1>7, <1>8, <1>9 DEF Next, Step

-----------------------------------------------------------------------------
(* The theorems *)

\* The inductive invariant holds throughout, for any constants.
THEOREM InvariantHolds == Spec => []IInv
BY InitIInv, NextIInv, PTL DEF Spec

\* Every variable keeps its type; in particular no reference count goes negative.
THEOREM TypeCorrect == Spec => []TypeOK
<1>1. IInv => TypeOK
  BY DEF IInv
<1> QED
  BY <1>1, InvariantHolds, PTL

\* At most one call of Lock holds a session at any time.
THEOREM MutualExclusionHolds == Spec => []MutualExclusion
<1>1. IInv => MutualExclusion
  BY DEF IInv, MutualExclusion, EntryOutlivesUsers, Using, OwnsMutex, HelperMatches
<1> QED
  BY <1>1, InvariantHolds, PTL

\* The table entry of a session outlives everyone who looked it up.
THEOREM EntryOutlivesUsersHolds == Spec => []EntryOutlivesUsers
<1>1. IInv => EntryOutlivesUsers
  BY DEF IInv
<1> QED
  BY <1>1, InvariantHolds, PTL

\* Reference counts are exact and no unused entry stays in the table.
THEOREM RefCountIsUsersHolds == Spec => []RefCountIsUsers
<1>1. IInv => RefCountIsUsers
  BY DEF IInv
<1> QED
  BY <1>1, InvariantHolds, PTL

\* The table of the lock is exact: types, entries and reference counts together.
THEOREM TableIsExactHolds == Spec => []TableIsExact
<1>1. IInv => TableIsExact
  BY DEF IInv, TableIsExact
<1> QED
  BY <1>1, InvariantHolds, PTL

-----------------------------------------------------------------------------
(* Refinement *)

\* The initial states of the lock are initial states of the abstract mutex.
LEMMA InitRefines == Init => Mutex!Init
BY DEF Init, Mutex!Init

\* When Lock is granted nobody holds the session in the abstract mutex either.
LEMMA GrantIsExclusive ==
    ASSUME IInv, NEW c \in Calls, LockGranted(c)
    PROVE  Mutex!Holders(sess[c]) = {}
BY DEF IInv, LockGranted, Mutex!Holders, EntryOutlivesUsers, Using, OwnsMutex, HelperMatches

\* Every step of the lock is a step of the abstract mutex or leaves it unchanged.
LEMMA NextRefines == IInv /\ [Next]_vars => [Mutex!Next]_(Mutex!vars)
<1> SUFFICES ASSUME IInv, [Next]_vars PROVE [Mutex!Next]_(Mutex!vars)
  OBVIOUS
<1> USE DEF Mutex!vars
<1>1. ASSUME NEW c \in Calls, NEW s \in Sessions, LockEnter(c, s) PROVE Mutex!Request(c, s)
  BY <1>1 DEF LockEnter, Mutex!Request, IInv, TypeOK
<1>2. ASSUME NEW c \in Calls, LockGranted(c) PROVE Mutex!Grant(c)
  BY <1>2, GrantIsExclusive DEF LockGranted, Mutex!Grant, IInv, TypeOK
<1>3. ASSUME NEW c \in Calls, LockCancelled(c) PROVE Mutex!GiveUp(c)
  BY <1>3 DEF LockCancelled, Mutex!GiveUp, IInv, TypeOK
<1>4. ASSUME NEW c \in Calls, UnlockMutex(c) PROVE Mutex!Release(c)
  BY <1>4 DEF UnlockMutex, Mutex!Release, IInv, TypeOK
<1>5. ASSUME NEW c \in Calls, AcquireMutex(c) \/ CloseAcquired(c) \/ CancelContext(c)
      PROVE  UNCHANGED Mutex!vars
  BY <1>5 DEF AcquireMutex, CloseAcquired, CancelContext
<1>6. ASSUME NEW c \in Calls, CleanupUnlock(c) \/ DropRef(c)
      PROVE  UNCHANGED Mutex!vars
  BY <1>6 DEF CleanupUnlock, DropRef, IInv, TypeOK
<1>7. CASE UNCHANGED vars
  BY <1>7 DEF vars
<1> QED
  BY <1>1, <1>2, <1>3, <1>4, <1>5, <1>6, <1>7 DEF Next, Step, Mutex!Next

\* The lock with its goroutines, mutex objects and reference counts implements
\* the abstract per-session mutex.
THEOREM Refinement == Spec => ImplementsSessionMutex
BY InitRefines, NextRefines, InvariantHolds, PTL DEF Spec, ImplementsSessionMutex, Mutex!Spec
=============================================================================
