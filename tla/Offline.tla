------------------------------- MODULE Offline -------------------------------
(***************************************************************************)
(* The offline queue: internal/usecase/offline.go, with the router's use   *)
(* of it.  A turn that fails while the monitor thinks the network is down  *)
(* is queued as a file and answered by the local model; the monitor drains *)
(* the queue when the network is back.                                     *)
(***************************************************************************)
EXTENDS Naturals, FiniteSets

CONSTANTS Turns,         \* turns whose model call fails
          OfflineBounds  \* bounds: changes of the network, failing file operations, crashes

ASSUME OfflineConstants == OfflineBounds \in [changes : Nat, faults : Nat, crashes : Nat]

VARIABLES net,        \* external: is the network there
          isOnline,   \* OfflineManager.isOnline: what the monitor found
          monitor,    \* the monitor's locals: pc, the files it has yet to read, the messages it holds
          queue,      \* the files: of every turn "none", "empty" (made, not filled) or "full"
          offTurn,    \* where each turn is
          offLedger,  \* history, for every turn: was Enqueue's answer nil, how often Drain returned
                      \* its message, how often os.Remove left its file, how often a crash took it
          offLeft     \* what is left of the bounds

offlineVars == <<net, isOnline, monitor, queue, offTurn, offLedger, offLeft>>

Ticking == [pc |-> "tick", files |-> {}, taken |-> {}]

OfflineInit ==
    /\ net = TRUE /\ isOnline = TRUE
    /\ monitor = Ticking
    /\ queue = [t \in Turns |-> "none"]
    /\ offTurn = [t \in Turns |-> "failed"]
    /\ offLedger = [t \in Turns |-> [accepted |-> FALSE, returned |-> 0, unremoved |-> 0, lost |-> 0]]
    /\ offLeft = OfflineBounds

OfflineSpends(bound) == offLeft[bound] > 0 /\ offLeft' = [offLeft EXCEPT ![bound] = @ - 1]

NetworkChanges ==
    /\ OfflineSpends("changes")
    /\ net' = ~net
    /\ UNCHANGED <<isOnline, monitor, queue, offTurn, offLedger>>

\* The process ends and starts again: the files stay, turns and the drain's messages are
\* gone.  A turn that has not failed yet may do so in the new process.
OfflineCrash ==
    /\ OfflineSpends("crashes")
    /\ isOnline' = TRUE /\ monitor' = Ticking
    /\ offTurn' = [t \in Turns |-> IF offTurn[t] \in {"enqueue", "write", "queued"} THEN "gone" ELSE offTurn[t]]
    /\ offLedger' = [t \in Turns |-> IF t \in monitor.taken THEN [offLedger[t] EXCEPT !.lost = @ + 1] ELSE offLedger[t]]
    /\ UNCHANGED <<net, queue>>

-----------------------------------------------------------------------------
(* Router.handleInner, after the agent's error, and HandleOffline *)

\* An error for the user while the monitor still thinks the network is there.
FallBack(t) ==
    /\ offTurn[t] = "failed"
    /\ offTurn' = [offTurn EXCEPT ![t] = IF isOnline THEN "error" ELSE "enqueue"]
    /\ UNCHANGED <<net, isOnline, monitor, queue, offLedger, offLeft>>

\* Enqueue: os.WriteFile makes the file and then fills it.
EnqueueOpen(t) ==
    /\ offTurn[t] = "enqueue"
    /\ queue' = [queue EXCEPT ![t] = "empty"]
    /\ offTurn' = [offTurn EXCEPT ![t] = "write"]
    /\ UNCHANGED <<net, isOnline, monitor, offLedger, offLeft>>

EnqueueWrite(t) ==
    /\ offTurn[t] = "write"
    /\ queue' = [queue EXCEPT ![t] = IF @ = "empty" THEN "full" ELSE @]
    /\ offTurn' = [offTurn EXCEPT ![t] = "queued"]
    /\ offLedger' = [offLedger EXCEPT ![t].accepted = TRUE]
    /\ UNCHANGED <<net, isOnline, monitor, offLeft>>

\* Enqueue fails: the directory or the file cannot be made, part of the message is written,
\* or all of it and Close fails.  HandleOffline warns and goes on as if it were queued.
EnqueueFails(t) ==
    /\ OfflineSpends("faults")
    /\ \/ offTurn[t] = "enqueue" /\ UNCHANGED queue
       \/ offTurn[t] = "write" /\ \E f \in {queue[t], "full"} :
             queue' = [queue EXCEPT ![t] = IF @ = "empty" THEN f ELSE @]
    /\ offTurn' = [offTurn EXCEPT ![t] = "queued"]
    /\ UNCHANGED <<net, isOnline, monitor, offLedger>>

\* The local model answers, or fails.
LocalAnswer(t, ok) ==
    /\ offTurn[t] = "queued"
    /\ offTurn' = [offTurn EXCEPT ![t] = IF ok THEN "answered" ELSE "failedTwice"]
    /\ UNCHANGED <<net, isOnline, monitor, queue, offLedger, offLeft>>

-----------------------------------------------------------------------------
(* StartMonitor and Sync *)

\* A tick: checkConnectivity, and Sync when the network came back.
Check ==
    /\ monitor.pc = "tick"
    /\ isOnline' = net
    /\ monitor' = [monitor EXCEPT !.pc = IF ~isOnline /\ net THEN "sync" ELSE "tick"]
    /\ UNCHANGED <<net, queue, offTurn, offLedger, offLeft>>

\* Drain reads the directory once; when it cannot, Sync's error is a warning and the files
\* wait for the next outage to end.
DrainList ==
    /\ monitor.pc = "sync"
    /\ \/ /\ monitor' = [monitor EXCEPT !.pc = "drain", !.files = {t \in Turns : queue[t] # "none"}]
          /\ UNCHANGED offLeft
       \/ OfflineSpends("faults") /\ monitor' = [monitor EXCEPT !.pc = "tick"]
    /\ UNCHANGED <<net, isOnline, queue, offTurn, offLedger>>

\* Mutant: the file is removed whether it could be read or not.
MutReadable(t) == TRUE

Readable(t) == queue[t] = "full"

\* The next file, in no particular order here: one that cannot be read or parsed is left
\* where it is, another one's message is taken and the file removed.
DrainFile(t) ==
    /\ monitor.pc = "drain" /\ t \in monitor.files
    /\ queue' = IF Readable(t) THEN [queue EXCEPT ![t] = "none"] ELSE queue
    /\ monitor' = [monitor EXCEPT !.files = @ \ {t}, !.taken = IF queue[t] = "full" THEN @ \cup {t} ELSE @]
    /\ UNCHANGED <<net, isOnline, offTurn, offLedger, offLeft>>

\* ReadFile fails, or os.Remove does, whose error nobody looks at: the message is taken and
\* its file stays for the next drain.
DrainFileFails(t) ==
    /\ monitor.pc = "drain" /\ t \in monitor.files
    /\ OfflineSpends("faults")
    /\ \/ monitor' = [monitor EXCEPT !.files = @ \ {t}] /\ UNCHANGED offLedger
       \/ /\ Readable(t)
          /\ monitor' = [monitor EXCEPT !.files = @ \ {t}, !.taken = @ \cup {t}]
          /\ offLedger' = [offLedger EXCEPT ![t].unremoved = @ + 1]
    /\ UNCHANGED <<net, isOnline, queue, offTurn>>

\* Drain returns what it took; Sync logs how many messages that were, and drops them.
DrainEnds ==
    /\ monitor.pc = "drain" /\ monitor.files = {}
    /\ monitor' = Ticking
    /\ offLedger' = [t \in Turns |->
                        IF t \in monitor.taken THEN [offLedger[t] EXCEPT !.returned = @ + 1] ELSE offLedger[t]]
    /\ UNCHANGED <<net, isOnline, queue, offTurn, offLeft>>

OfflineNext ==
    \/ NetworkChanges \/ OfflineCrash \/ Check \/ DrainList \/ DrainEnds
    \/ \E t \in Turns : \/ FallBack(t) \/ EnqueueOpen(t) \/ EnqueueWrite(t) \/ EnqueueFails(t)
                        \/ DrainFile(t) \/ DrainFileFails(t)
                        \/ \E ok \in BOOLEAN : LocalAnswer(t, ok)

OfflineSpec == OfflineInit /\ [][OfflineNext]_offlineVars

-----------------------------------------------------------------------------
\* Where a message is: in its file, in the hands of a drain, returned or lost with one.
Copies(t) ==
    (IF queue[t] = "full" THEN 1 ELSE 0) + (IF t \in monitor.taken THEN 1 ELSE 0)
    + offLedger[t].returned + offLedger[t].lost

\* A message whose Enqueue succeeded is at one place, and at one more for every os.Remove
\* that failed: drains lose none, whatever they meet in the making, and return none again
\* whose file they removed; only a crash takes what a drain holds.  A message whose Enqueue
\* failed, which the user is not told, is at one place at most.
QueuedIsKept ==
    \A t \in Turns :
        /\ offLedger[t].accepted => Copies(t) = 1 + offLedger[t].unremoved
        /\ Copies(t) \in {offLedger[t].unremoved, 1 + offLedger[t].unremoved}
=============================================================================
