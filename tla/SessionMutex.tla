---------------------------- MODULE SessionMutex ----------------------------
(***************************************************************************)
(* What internal/usecase/session_lock.go promises to HandleMessage: one    *)
(* mutual-exclusion lock per session, taken by calls that may give up      *)
(* when their context is cancelled.  No mutex objects, no reference        *)
(* counts, no helper goroutines: SessionLocker implements this module.     *)
(***************************************************************************)
CONSTANTS Calls, Sessions

VARIABLES phase,  \* where a call stands: out, waiting for its session, or holding it
          of      \* the session a waiting or holding call asked for

vars == <<phase, of>>

Phases == {"out", "waiting", "holding"}

Init == /\ phase = [c \in Calls |-> "out"]
        /\ of \in [Calls -> Sessions]

Holders(s) == {c \in Calls : phase[c] = "holding" /\ of[c] = s}

\* A call asks for the lock of session s.
Request(c, s) == /\ phase[c] = "out"
                 /\ phase' = [phase EXCEPT ![c] = "waiting"]
                 /\ of' = [of EXCEPT ![c] = s]

\* Lock returns the unlock function: nobody else holds the session.
Grant(c) == /\ phase[c] = "waiting"
            /\ Holders(of[c]) = {}
            /\ phase' = [phase EXCEPT ![c] = "holding"]
            /\ UNCHANGED of

\* Lock returns the context's error.
GiveUp(c) == /\ phase[c] = "waiting"
             /\ phase' = [phase EXCEPT ![c] = "out"]
             /\ UNCHANGED of

\* The caller calls the unlock function.
Release(c) == /\ phase[c] = "holding"
              /\ phase' = [phase EXCEPT ![c] = "out"]
              /\ UNCHANGED of

Next == \E c \in Calls : \/ \E s \in Sessions : Request(c, s)
                         \/ Grant(c)
                         \/ GiveUp(c)
                         \/ Release(c)

Spec == Init /\ [][Next]_vars
=============================================================================
