--------------------------- MODULE SessionLocker ---------------------------
(***************************************************************************)
(* internal/usecase/session_lock.go: the per-session lock that serialises  *)
(* HandleMessage.  A call of Lock looks its session's mutex up in a shared *)
(* table (creating it on first use), counts itself as a user of it, and    *)
(* leaves the blocking sm.mu.Lock() to a goroutine, so that it can return  *)
(* early when its context ends.  A call that returned early leaves a       *)
(* second goroutine behind, which waits for the mutex only to give it back.*)
(* The last user removes the table entry.                                  *)
(*                                                                         *)
(* Every critical section under sl.mu is one action: it neither blocks nor *)
(* calls out, and nothing outside it reads the table or the counts.        *)
(***************************************************************************)
EXTENDS Integers, FiniteSets

CONSTANTS Calls,     \* invocations of Lock (a finished one may be issued again)
          Sessions,  \* session IDs
          Mutexes,   \* heap objects of type sessionMutex
          NoMutex,   \* a missing map entry
          NoCall     \* nobody owns the sync.Mutex

ASSUME CallsFinite == IsFiniteSet(Calls)
ASSUME NoMutexFresh == NoMutex \notin Mutexes
ASSUME NoCallFresh == NoCall \notin Calls

VARIABLES locks,     \* sl.locks: session -> *sessionMutex
          refCount,  \* sm.refCount of every sessionMutex object
          owner,     \* which call's goroutine owns sm.mu
          pc,        \* where Lock and what follows it stand
          helper,    \* the goroutine that runs sm.mu.Lock(); close(acquired)
          sess,      \* Lock's sessionID argument
          sm,        \* the local variable sm of Lock
          ctxDone    \* ctx.Done() is closed

vars == <<locks, refCount, owner, pc, helper, sess, sm, ctxDone>>

(***************************************************************************)
(* pc: "idle"       no call of Lock in progress                            *)
(*     "waiting"    in the select of Lock                                  *)
(*     "held"       Lock returned the unlock function, not yet called      *)
(*     "cancelled"  Lock returned ctx.Err(), cleanup goroutine running     *)
(*     "releasing"  sm.mu unlocked, reference not yet dropped              *)
(***************************************************************************)
PCs == {"idle", "waiting", "held", "cancelled", "releasing"}

\* The acquiring goroutine: not started, blocked in sm.mu.Lock(), past it,
\* and finished with `acquired` closed.
Helpers == {"none", "locking", "locked", "closed"}

Using(c) == pc[c] # "idle"

Users(m) == {c \in Calls : Using(c) /\ sm[c] = m}

\* Allocation yields an object that nothing refers to.
Unreferenced(m) == Users(m) = {} /\ \A s \in Sessions : locks[s] # m

TypeOK == /\ locks \in [Sessions -> Mutexes \cup {NoMutex}]
          /\ refCount \in [Mutexes -> Nat]
          /\ owner \in [Mutexes -> Calls \cup {NoCall}]
          /\ pc \in [Calls -> PCs]
          /\ helper \in [Calls -> Helpers]
          /\ sess \in [Calls -> Sessions]
          /\ sm \in [Calls -> Mutexes]
          /\ ctxDone \in [Calls -> BOOLEAN]

\* sess and sm are meaningless before the first call: any value will do.
Init == /\ locks = [s \in Sessions |-> NoMutex]
        /\ refCount = [m \in Mutexes |-> 0]
        /\ owner = [m \in Mutexes |-> NoCall]
        /\ pc = [c \in Calls |-> "idle"]
        /\ helper = [c \in Calls |-> "none"]
        /\ \E s \in Sessions : sess = [c \in Calls |-> s]
        /\ \E m \in Mutexes : sm = [c \in Calls |-> m]
        /\ ctxDone = [c \in Calls |-> FALSE]

-----------------------------------------------------------------------------
(* Lock *)

\* Mutant: a second user of an entry is not counted.
MutLookUp(s, m) ==
    IF locks[s] # NoMutex
    THEN m = locks[s] /\ UNCHANGED <<locks, refCount>>
    ELSE /\ Unreferenced(m)
         /\ locks' = [locks EXCEPT ![s] = m]
         /\ refCount' = [refCount EXCEPT ![m] = 1]

\* What Lock does with the table: use the entry, or create it.
LookUp(s, m) ==
    IF locks[s] # NoMutex
    THEN /\ m = locks[s]
         /\ refCount' = [refCount EXCEPT ![m] = @ + 1]
         /\ UNCHANGED locks
    ELSE /\ Unreferenced(m)
         /\ locks' = [locks EXCEPT ![s] = m]
         /\ refCount' = [refCount EXCEPT ![m] = 1]

\* Lock is called, possibly with a context that has already ended; the table is
\* consulted under sl.mu and the acquiring goroutine started.
LockEnter(c, s) ==
    /\ pc[c] = "idle"
    /\ \E m \in Mutexes :
          /\ LookUp(s, m)
          /\ sm' = [sm EXCEPT ![c] = m]
    /\ pc' = [pc EXCEPT ![c] = "waiting"]
    /\ helper' = [helper EXCEPT ![c] = "locking"]
    /\ sess' = [sess EXCEPT ![c] = s]
    /\ \E done \in BOOLEAN : ctxDone' = [ctxDone EXCEPT ![c] = done]
    /\ UNCHANGED owner

\* The acquiring goroutine gets sm.mu ...
AcquireMutex(c) ==
    /\ helper[c] = "locking"
    /\ owner[sm[c]] = NoCall
    /\ owner' = [owner EXCEPT ![sm[c]] = c]
    /\ helper' = [helper EXCEPT ![c] = "locked"]
    /\ UNCHANGED <<locks, refCount, pc, sess, sm, ctxDone>>

\* ... and says so.
CloseAcquired(c) ==
    /\ helper[c] = "locked"
    /\ helper' = [helper EXCEPT ![c] = "closed"]
    /\ UNCHANGED <<locks, refCount, owner, pc, sess, sm, ctxDone>>

\* The select of Lock: both cases may be ready, and Go then picks either.
LockGranted(c) ==
    /\ pc[c] = "waiting"
    /\ helper[c] = "closed"
    /\ pc' = [pc EXCEPT ![c] = "held"]
    /\ UNCHANGED <<locks, refCount, owner, helper, sess, sm, ctxDone>>

LockCancelled(c) ==
    /\ pc[c] = "waiting"
    /\ ctxDone[c]
    /\ pc' = [pc EXCEPT ![c] = "cancelled"]
    /\ UNCHANGED <<locks, refCount, owner, helper, sess, sm, ctxDone>>

\* The caller's context is cancelled or times out while Lock blocks.
CancelContext(c) ==
    /\ pc[c] = "waiting"
    /\ ~ctxDone[c]
    /\ ctxDone' = [ctxDone EXCEPT ![c] = TRUE]
    /\ UNCHANGED <<locks, refCount, owner, pc, helper, sess, sm>>

-----------------------------------------------------------------------------
(* Giving the mutex back: the unlock function and the cleanup goroutine *)

\* sm.mu.Unlock() by the caller's unlock function.
UnlockMutex(c) ==
    /\ pc[c] = "held"
    /\ owner' = [owner EXCEPT ![sm[c]] = NoCall]
    /\ pc' = [pc EXCEPT ![c] = "releasing"]
    /\ UNCHANGED <<locks, refCount, helper, sess, sm, ctxDone>>

\* Mutant: the cleanup goroutine only drops the reference.
MutCleanupUnlock(c) ==
    /\ pc[c] = "cancelled"
    /\ helper[c] = "closed"
    /\ pc' = [pc EXCEPT ![c] = "releasing"]
    /\ UNCHANGED <<locks, refCount, owner, helper, sess, sm, ctxDone>>

\* The cleanup goroutine of a cancelled call: <-acquired, then sm.mu.Unlock().
CleanupUnlock(c) ==
    /\ pc[c] = "cancelled"
    /\ helper[c] = "closed"
    /\ owner' = [owner EXCEPT ![sm[c]] = NoCall]
    /\ pc' = [pc EXCEPT ![c] = "releasing"]
    /\ UNCHANGED <<locks, refCount, helper, sess, sm, ctxDone>>

\* Mutants: the entry goes with any reference; the entry never goes.
MutLastRefAny(c) == TRUE
MutLastRefNone(c) == FALSE

\* The reference about to be dropped is the last one.
LastRef(c) == refCount[sm[c]] = 1

\* Under sl.mu: drop the reference, and the table entry with the last one.
DropRef(c) ==
    /\ pc[c] = "releasing"
    /\ refCount' = [refCount EXCEPT ![sm[c]] = @ - 1]
    /\ locks' = IF LastRef(c)
                THEN [locks EXCEPT ![sess[c]] = NoMutex]
                ELSE locks
    /\ pc' = [pc EXCEPT ![c] = "idle"]
    /\ helper' = [helper EXCEPT ![c] = "none"]
    /\ UNCHANGED <<owner, sess, sm, ctxDone>>

-----------------------------------------------------------------------------

Step(c) == \/ AcquireMutex(c)
           \/ CloseAcquired(c)
           \/ LockGranted(c)
           \/ LockCancelled(c)
           \/ UnlockMutex(c)
           \/ CleanupUnlock(c)
           \/ DropRef(c)

Next == \E c \in Calls : \/ \E s \in Sessions : LockEnter(c, s)
                         \/ CancelContext(c)
                         \/ Step(c)

Spec == Init /\ [][Next]_vars

(***************************************************************************)
(* Goroutines that can run do run (weak fairness); sync.Mutex does not     *)
(* starve a waiter (its starvation mode hands the mutex over in FIFO       *)
(* order), hence strong fairness of AcquireMutex; and HandleMessage calls  *)
(* the unlock function (defer unlock()), hence UnlockMutex is among the    *)
(* fair steps.  Nothing obliges anyone to call Lock or to cancel.          *)
(***************************************************************************)
Fairness == \A c \in Calls : /\ WF_vars(CloseAcquired(c))
                             /\ WF_vars(LockGranted(c) \/ LockCancelled(c))
                             /\ WF_vars(UnlockMutex(c))
                             /\ WF_vars(CleanupUnlock(c))
                             /\ WF_vars(DropRef(c))
                             /\ SF_vars(AcquireMutex(c))

FairSpec == Spec /\ Fairness

-----------------------------------------------------------------------------
(* Properties *)

\* Two calls never both hold the lock of one session, although the mutex object
\* behind the session is deleted and recreated while calls come and go (the
\* promise in SessionLocker's doc comment).
MutualExclusion ==
    \A c, d \in Calls : pc[c] = "held" /\ pc[d] = "held" /\ sess[c] = sess[d] => c = d

\* The table entry a call looked up stays in place until that call has dropped
\* its reference: a delete never pulls the mutex from under a holder, a waiter
\* or a cancelled call whose cleanup goroutine has yet to run, which would let a
\* newcomer create a second mutex for the same session.
EntryOutlivesUsers ==
    \A c \in Calls : Using(c) => locks[sess[c]] = sm[c]

\* refCount is the number of calls between looking the mutex up and dropping it,
\* and an entry is in the table only as long as somebody counts: cancelled calls
\* leak no entry once their cleanup has run (ActiveCount's test, for every
\* interleaving).
RefCountIsUsers ==
    /\ \A m \in Mutexes : refCount[m] = Cardinality(Users(m))
    /\ \A s \in Sessions : locks[s] # NoMutex => refCount[locks[s]] > 0

\* The table and the counts of getOrCreate and release are exact for every
\* interleaving of calls, cancellations and helper goroutines.
TableIsExact == TypeOK /\ EntryOutlivesUsers /\ RefCountIsUsers

\* Lock always returns, no waiter being lost behind a cancelled one; and a call
\* that gave up never keeps the mutex: its cleanup goroutine gives it back and the
\* call's entry goes away, also when the cancellation raced a successful acquisition.
LockReturns ==
    \A c \in Calls : pc[c] \in {"waiting", "cancelled"} ~> pc[c] \in {"held", "idle"}

\* The detailed lock implements the abstract one.
Mutex == INSTANCE SessionMutex WITH
            phase <- [c \in Calls |-> CASE pc[c] = "waiting" -> "waiting"
                                        [] pc[c] = "held" -> "holding"
                                        [] OTHER -> "out"],
            of <- sess

\* Every step of Lock, of the unlock function and of the helper goroutines is a
\* step of the abstract per-session mutex, or no step of it.
ImplementsSessionMutex == Mutex!Spec
=============================================================================
