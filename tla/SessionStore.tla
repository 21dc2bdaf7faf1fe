---------------------------- MODULE SessionStore ----------------------------
(***************************************************************************)
(* The session manager: internal/usecase/session.go.  A table of session   *)
(* objects in memory, one JSON file per session, and the reaper that       *)
(* removes sessions nobody used for a day.                                 *)
(*                                                                         *)
(* A session object outlives its place in the table for as long as a       *)
(* request holds it, so objects have names of their own: an object is      *)
(* named after the request whose GetOrCreate made it.  A file is written   *)
(* in two steps, as os.WriteFile does: open and truncate, then write.      *)
(***************************************************************************)
EXTENDS Naturals, FiniteSets

CONSTANTS Sessions,
          Requests,     \* a request belongs to one session and calls GetOrCreate once
          SessionOf,    \* the session of every request
          NoRequest     \* stands for no object and for no request

ASSUME SessionOfRequests == IsFiniteSet(Requests) /\ SessionOf \in [Requests -> Sessions]
ASSUME NoRequestIsNone == NoRequest \notin Requests

VARIABLES sessions,     \* SessionManager.sessions: the object of every session
          msgs,         \* the messages of every object
          old,          \* the objects and the files not updated for maxAge
          file          \* what is on disk for every session

storeVars == <<sessions, msgs, old, file>>

\* The user's message of a request and the answer to it.
Messages == Requests \X {"user", "answer"}

\* A file that does not parse keeps the content that determines its length.
NoFile    == [st |-> "none", msgs |-> {}]
Truncated == [st |-> "torn", msgs |-> {}]
Image(ms) == [st |-> "ok", msgs |-> ms]

StoreInit == /\ sessions = [s \in Sessions |-> NoRequest]
             /\ msgs = [r \in Requests |-> {}]
             /\ old = [objs |-> {}, files |-> {}]
             /\ file = [s \in Sessions |-> NoFile]

\* loadFromDisk: a file that is missing or does not parse is no session.
Loadable(s) == file[s].st = "ok"

\* Mutant: a session in memory is read from its file again.
MutGetOrCreate(r) ==
    LET s == SessionOf[r]
    IN  /\ sessions' = [sessions EXCEPT ![s] = r]
        /\ msgs' = [msgs EXCEPT ![r] = IF Loadable(s) THEN file[s].msgs ELSE {}]
        /\ old' = IF Loadable(s) /\ s \in old.files THEN [old EXCEPT !.objs = @ \cup {r}] ELSE old
        /\ UNCHANGED file

\* GetOrCreate, in one critical section of SessionManager.mu, the read of the file
\* included.  A loaded session is as old as its file, a new one is not.
GetOrCreate(r) ==
    LET s == SessionOf[r]
    IN  /\ \/ /\ sessions[s] # NoRequest
              /\ UNCHANGED <<sessions, msgs, old>>
           \/ /\ sessions[s] = NoRequest
              /\ sessions' = [sessions EXCEPT ![s] = r]
              /\ msgs' = [msgs EXCEPT ![r] = IF Loadable(s) THEN file[s].msgs ELSE {}]
              /\ old' = IF Loadable(s) /\ s \in old.files THEN [old EXCEPT !.objs = @ \cup {r}] ELSE old
        /\ UNCHANGED file

\* AddMessage, on the object itself, in the table or not.
AddMessage(o, m) ==
    /\ msgs' = [msgs EXCEPT ![o] = @ \cup {m}]
    /\ old' = [old EXCEPT !.objs = @ \ {o}]
    /\ UNCHANGED <<sessions, file>>

\* os.WriteFile opens and truncates the file ...
OpenFile(s) == file' = [file EXCEPT ![s] = Truncated]

\* ... and writes its image over whatever another writer has put there since.  What
\* is longer than the image sticks out behind it, and then the file does not parse.
\* Images of different objects may have any length.
Overwrites(s, image) ==
    LET behind == [st |-> "torn", msgs |-> file[s].msgs]
    IN  IF file[s].msgs \subseteq image THEN {Image(image)}
        ELSE IF image \subseteq file[s].msgs THEN {behind}
        ELSE {Image(image), behind}

WriteFile(s, image) ==
    /\ file' \in {[file EXCEPT ![s] = f] : f \in Overwrites(s, image)}
    /\ old' = [old EXCEPT !.files = @ \ {s}]

\* The part of Delete and of the reaper's phase 2 under the lock.
Forget(s) == sessions' = [sessions EXCEPT ![s] = NoRequest]

\* Mutant: the file stays.
MutRemove(s) == file' = file

\* os.Remove, without any lock.
RemoveSession(s) == file' = [file EXCEPT ![s] = NoFile]

\* ReapStaleSessions, phase 1.
Stale == {s \in Sessions : sessions[s] # NoRequest /\ sessions[s] \in old.objs}

\* External: a day without a request.
StoreAges == /\ old' = [objs |-> {sessions[s] : s \in Sessions} \ {NoRequest},
                        files |-> {s \in Sessions : Loadable(s)}]
             /\ UNCHANGED <<sessions, msgs, file>>

\* The process dies; the files stay as they are.
StoreCrash == /\ sessions' = [s \in Sessions |-> NoRequest]
              /\ msgs' = [r \in Requests |-> {}]
              /\ old' = [old EXCEPT !.objs = {}]
              /\ UNCHANGED file
=============================================================================
