--------------------------- MODULE ProcessManager ---------------------------
(***************************************************************************)
(* Background processes: internal/usecase/process.  The manager keeps a    *)
(* table of processes with the newest part of their output, polls it on    *)
(* behalf of the agent, kills processes, and forgets finished ones.        *)
(*                                                                         *)
(* A step is one critical section of Manager.mu or of a buffer's mutex, or *)
(* one event of the operating system.  Stdout and stderr are handled the   *)
(* same way; one of them is modelled.  A byte is its position in the       *)
(* output, counted from 1.                                                 *)
(***************************************************************************)
EXTENDS Integers, Sequences, FiniteSets

CONSTANTS Procs,            \* the IDs that newID hands out, each of them once
          Agents,
          Pollers,          \* goroutines that call Poll
          Killers,          \* goroutines that call Kill, Remove or Stop
          NoProc, NoAgent,
          MaxSessions,      \* running processes per agent
          OutputBufferMax,  \* capacity of a buffer
          Chunks,           \* sizes of one write of a process
          Workloads         \* bounds: processes, killers, bytes written, descendants

ASSUME ProcessBounds ==
    /\ {MaxSessions, OutputBufferMax} \subseteq Nat
    /\ Chunks \subseteq Nat \ {0}
    /\ IsFiniteSet(Pollers)
    /\ Workloads \subseteq [procs : SUBSET Procs, killers : SUBSET Killers,
                      bytes : Nat, held : SUBSET BOOLEAN]

VARIABLES load,       \* the workload; never changes
          sessions,   \* the IDs in Manager.sessions
          entry,      \* processEntry, one for every process ever started
          stopped,    \* stopCh is closed
          os,         \* external: is the process alive, was it signalled, and does a
                      \* descendant of it hold its output pipe
          buf,        \* its output buffer
          poll, kill, \* the locals of every poller and killer
          delivered,  \* the bytes that polls have returned, one poll after the other
          ended       \* the end-of-process events of every process

vars == <<load, sessions, entry, stopped, os, buf, poll, kill, delivered, ended>>

NoEntry == [status |-> "none", agent |-> NoAgent, index |-> 0, done |-> FALSE, settled |-> FALSE]
NoProcess == [alive |-> FALSE, signalled |-> FALSE, held |-> FALSE]
Quiet   == [pc |-> "idle", proc |-> NoProc, prev |-> 0, out |-> <<>>, next |-> 0]
AtRest  == [pc |-> "idle", op |-> "none", proc |-> NoProc, left |-> {}]

Running(p) == entry[p].status = "running"

-----------------------------------------------------------------------------
(* ringBuffer *)

newRingBuffer == [data |-> <<>>, written |-> 0]

\* Mutant: the oldest bytes are kept instead.
MutNewest(data) == SubSeq(data, 1, OutputBufferMax)

\* The part of the data that stays when it is longer than the capacity.
Newest(data) == SubSeq(data, Len(data) - OutputBufferMax + 1, Len(data))

\* Write, of a chunk of n bytes.
Write(rb, n) ==
    LET data == rb.data \o [i \in 1 .. n |-> rb.written + i]
    IN  [data    |-> IF Len(data) > OutputBufferMax THEN Newest(data) ELSE data,
         written |-> rb.written + n]

Dropped(rb) == rb.written - Len(rb.data)

ReadFrom(rb, offset) ==
    LET localOffset == IF offset < Dropped(rb) THEN 0 ELSE offset - Dropped(rb)
    IN  SubSeq(rb.data, localOffset + 1, Len(rb.data))

-----------------------------------------------------------------------------
Init == /\ load \in Workloads
        /\ sessions = {}
        /\ entry = [p \in Procs |-> NoEntry]
        /\ stopped = FALSE
        /\ os = [p \in Procs |-> NoProcess]
        /\ buf = [p \in Procs |-> newRingBuffer]
        /\ poll = [q \in Pollers |-> Quiet]
        /\ kill = [k \in Killers |-> AtRest]
        /\ delivered = [p \in Procs |-> <<>>]
        /\ ended = [p \in Procs |-> <<>>]

Active(a) == {p \in sessions : Running(p) /\ entry[p].agent = a}

\* Mutant: the limit is checked after it was exceeded.
MutBelowLimit(a) == Cardinality(Active(a)) <= MaxSessions

BelowLimit(a) == Cardinality(Active(a)) < MaxSessions

\* Start, when the command can be started.
Start(p, a) ==
    /\ p \in load.procs /\ entry[p] = NoEntry
    /\ BelowLimit(a)
    /\ sessions' = sessions \cup {p}
    /\ entry' = [entry EXCEPT ![p] = [NoEntry EXCEPT !.status = "running", !.agent = a]]
    /\ \E held \in load.held : os' = [os EXCEPT ![p] = [NoProcess EXCEPT !.alive = TRUE, !.held = held]]
    /\ UNCHANGED <<load, stopped, buf, poll, kill, delivered, ended>>

\* Output arrives in the buffer until cmd.Wait returns: from the process, from a
\* descendant that has its pipe, or what was left in the pipe.
Output(p, n) ==
    /\ entry[p] # NoEntry /\ ~entry[p].done
    /\ buf[p].written + n <= load.bytes
    /\ buf' = [buf EXCEPT ![p] = Write(@, n)]
    /\ UNCHANGED <<load, stopped, sessions, entry, os, poll, kill, delivered, ended>>

\* The process ends, by itself or by the signal.
Exit(p) ==
    /\ os[p].alive
    /\ os' = [os EXCEPT ![p].alive = FALSE]
    /\ UNCHANGED <<load, stopped, sessions, entry, buf, poll, kill, delivered, ended>>

\* A descendant of the process, which no signal reaches, closes the pipe.
Release(p) ==
    /\ os[p].held
    /\ os' = [os EXCEPT ![p].held = FALSE]
    /\ UNCHANGED <<load, stopped, sessions, entry, buf, poll, kill, delivered, ended>>

\* Mutant: done is closed only for a process that nobody kills.
MutWaitReturns(p) ==
    /\ Running(p) /\ ~os[p].alive /\ ~os[p].held /\ ~entry[p].done
    /\ entry' = [entry EXCEPT ![p].done = TRUE]
    /\ UNCHANGED <<load, stopped, sessions, os, buf, poll, kill, delivered, ended>>

\* waitForCompletion: cmd.Wait returns and done is closed.  The output goes to a
\* buffer, not to a file, so Wait also waits for the other end of the pipe.
WaitReturns(p) ==
    /\ entry[p] # NoEntry /\ ~os[p].alive /\ ~os[p].held /\ ~entry[p].done
    /\ entry' = [entry EXCEPT ![p].done = TRUE]
    /\ UNCHANGED <<load, stopped, sessions, os, buf, poll, kill, delivered, ended>>

\* Mutant: the status is not looked at.
MutSettles(p) == TRUE

\* Neither Kill nor Stop was first.
Settles(p) == Running(p)

\* The status follows.
Settle(p) ==
    /\ entry[p].done /\ ~entry[p].settled
    /\ \E status \in {"completed", "failed"} :
         entry' = [entry EXCEPT ![p].settled = TRUE, ![p].status = IF Settles(p) THEN status ELSE @]
    /\ ended' = [ended EXCEPT ![p] = IF Settles(p) THEN Append(@, "completed") ELSE @]
    /\ UNCHANGED <<load, stopped, sessions, os, buf, poll, kill, delivered>>

-----------------------------------------------------------------------------
(* Poll: the index is read and written under Manager.mu, the buffer in between. *)

PollBegin(q, p) ==
    /\ load.bytes > 0
    /\ poll[q].pc = "idle" /\ p \in sessions
    /\ poll' = [poll EXCEPT ![q] = [Quiet EXCEPT !.pc = "read", !.proc = p, !.prev = entry[p].index]]
    /\ UNCHANGED <<load, stopped, sessions, entry, os, buf, kill, delivered, ended>>

PollRead(q) ==
    /\ poll[q].pc = "read"
    /\ poll' = [poll EXCEPT ![q].pc = "total", ![q].out = ReadFrom(buf[poll[q].proc], poll[q].prev)]
    /\ UNCHANGED <<load, stopped, sessions, entry, os, buf, kill, delivered, ended>>

PollTotal(q) ==
    /\ poll[q].pc = "total"
    /\ poll' = [poll EXCEPT ![q].pc = "end", ![q].next = buf[poll[q].proc].written]
    /\ UNCHANGED <<load, stopped, sessions, entry, os, buf, kill, delivered, ended>>

\* Mutant: the index stays.
MutPollIndex(q) == poll[q].prev

PollIndex(q) == poll[q].next

PollEnd(q) ==
    /\ poll[q].pc = "end"
    /\ entry' = [entry EXCEPT ![poll[q].proc].index = PollIndex(q)]
    /\ delivered' = [delivered EXCEPT ![poll[q].proc] = @ \o poll[q].out]
    /\ poll' = [poll EXCEPT ![q] = Quiet]
    /\ UNCHANGED <<load, stopped, sessions, os, buf, kill, ended>>

-----------------------------------------------------------------------------
(* Kill, Remove, Clear, the expiry of finished processes, and Stop *)

\* The status is set first, so that waitForCompletion leaves it alone.
MarkKilled(k, p, op) ==
    /\ p \in sessions /\ Running(p)
    /\ entry' = [entry EXCEPT ![p].status = "killed"]
    /\ kill' = [kill EXCEPT ![k] = [pc |-> "cancel", op |-> op, proc |-> p, left |-> {}]]

Kill(k, p) ==
    /\ kill[k].pc = "idle"
    /\ MarkKilled(k, p, "kill")
    /\ UNCHANGED <<load, stopped, sessions, os, buf, poll, delivered, ended>>

\* Remove looks at the status and lets go of Manager.mu before it calls Kill.
RemoveRunning(k, p) ==
    /\ kill[k].pc = "idle"
    /\ p \in sessions /\ Running(p)
    /\ kill' = [kill EXCEPT ![k] = [AtRest EXCEPT !.pc = "kill", !.op = "remove", !.proc = p]]
    /\ UNCHANGED <<load, stopped, sessions, entry, os, buf, poll, delivered, ended>>

RemoveFinished(p) ==
    /\ p \in sessions /\ ~Running(p)
    /\ sessions' = sessions \ {p}
    /\ UNCHANGED <<load, stopped, entry, os, buf, poll, kill, delivered, ended>>

\* Kill on behalf of Remove; gone or finished meanwhile is an error of both.
RemoveKill(k) ==
    /\ kill[k].pc = "kill"
    /\ \/ MarkKilled(k, kill[k].proc, "remove")
       \/ /\ ~(kill[k].proc \in sessions /\ Running(kill[k].proc))
          /\ kill' = [kill EXCEPT ![k] = AtRest]
          /\ UNCHANGED entry
    /\ UNCHANGED <<load, stopped, sessions, os, buf, poll, delivered, ended>>

\* entry.cancel(): the process is signalled.
Cancel(k) ==
    /\ kill[k].pc = "cancel"
    /\ os' = [os EXCEPT ![kill[k].proc].signalled = TRUE]
    /\ kill' = [kill EXCEPT ![k].pc = "wait"]
    /\ UNCHANGED <<load, stopped, sessions, entry, buf, poll, delivered, ended>>

\* <-entry.done, after which Kill publishes its event, Remove deletes the entry
\* and Stop turns to the next process.
Killed(k) ==
    LET p == kill[k].proc IN
    /\ kill[k].pc = "wait"
    /\ entry[p].done
    /\ ended' = [ended EXCEPT ![p] = IF kill[k].op = "stop" THEN @ ELSE Append(@, "killed")]
    /\ sessions' = IF kill[k].op = "remove" THEN sessions \ {p} ELSE sessions
    /\ kill' = [kill EXCEPT ![k] = IF @.op = "stop" THEN [@ EXCEPT !.pc = "stop"] ELSE AtRest]
    /\ UNCHANGED <<load, stopped, entry, os, buf, poll, delivered>>

Finished == {p \in sessions : ~Running(p)}

Clear ==
    /\ Finished # {}
    /\ sessions' = sessions \ Finished
    /\ UNCHANGED <<load, stopped, entry, os, buf, poll, kill, delivered, ended>>

\* The finished processes whose time is over; the loop ends with Stop.
cleanupExpired(expired) ==
    /\ ~stopped /\ expired # {}
    /\ sessions' = sessions \ expired
    /\ UNCHANGED <<load, stopped, entry, os, buf, poll, kill, delivered, ended>>

\* Stop marks every running process, and then kills them one after the other.
Stop(k) ==
    LET running == {p \in sessions : Running(p)} IN
    /\ kill[k].pc = "idle"
    /\ stopped' = TRUE
    /\ entry' = [p \in Procs |-> IF p \in running THEN [entry[p] EXCEPT !.status = "killed"] ELSE entry[p]]
    /\ kill' = [kill EXCEPT ![k] = [pc |-> "stop", op |-> "stop", proc |-> NoProc, left |-> running]]
    /\ UNCHANGED <<load, sessions, os, buf, poll, delivered, ended>>

StopNext(k) ==
    /\ kill[k].pc = "stop"
    /\ \/ \E p \in kill[k].left :
            kill' = [kill EXCEPT ![k].pc = "cancel", ![k].proc = p, ![k].left = @ \ {p}]
       \/ kill[k].left = {} /\ kill' = [kill EXCEPT ![k] = AtRest]
    /\ UNCHANGED <<load, stopped, sessions, entry, os, buf, poll, delivered, ended>>

-----------------------------------------------------------------------------
PollStep(q) == PollRead(q) \/ PollTotal(q) \/ PollEnd(q)
KillStep(k) == RemoveKill(k) \/ Cancel(k) \/ Killed(k) \/ StopNext(k)

Next == \/ \E p \in Procs, a \in Agents : Start(p, a)
        \/ \E p \in Procs : \/ Exit(p) \/ Release(p) \/ WaitReturns(p) \/ Settle(p) \/ RemoveFinished(p)
                            \/ \E n \in Chunks : Output(p, n)
        \/ \E q \in Pollers : PollStep(q) \/ \E p \in Procs : PollBegin(q, p)
        \/ \E k \in load.killers : KillStep(k) \/ Stop(k) \/ \E p \in Procs : Kill(k, p) \/ RemoveRunning(k, p)
        \/ Clear \/ \E expired \in SUBSET Finished : cleanupExpired(expired)

Spec == Init /\ [][Next]_vars

\* Goroutines run, and a process that is signalled (SIGKILL) ends.
FairSpec == /\ Spec
            /\ \A p \in Procs : /\ WF_vars(os[p].signalled /\ Exit(p))
                                /\ WF_vars(WaitReturns(p)) /\ WF_vars(Settle(p))
            /\ \A k \in Killers : WF_vars(KillStep(k))

\* Moreover, no descendant keeps the output pipe of its ancestor forever.
FairPipeSpec == FairSpec /\ \A p \in Procs : WF_vars(Release(p))

-----------------------------------------------------------------------------
(* Properties *)

\* The buffer holds the newest bytes of the output, in order and without a gap, as
\* many as fit, whatever the sizes of the writes: ReadFrom's arithmetic on dropped
\* bytes rests on this.
BufferIsNewest ==
    \A p \in Procs : LET n == Len(buf[p].data) IN
        /\ n = IF buf[p].written < OutputBufferMax THEN buf[p].written ELSE OutputBufferMax
        /\ \A i \in 1 .. n : buf[p].data[i] = Dropped(buf[p]) + i

\* Polls made one after the other never return a byte twice, and return bytes in
\* the order they were written.
PollsDoNotRepeat ==
    Cardinality(Pollers) = 1 =>
        \A p \in Procs : \A i, j \in DOMAIN delivered[p] : i < j => delivered[p][i] < delivered[p][j]

\* A reader of the output of a process sees what it wrote, in its order and no byte twice.
OutputIsTrue == BufferIsNewest /\ PollsDoNotRepeat

\* A process ends once: its final status never changes, and Kill racing the natural
\* end publishes at most one event ("Only update status and emit completion event if
\* Kill()/Stop() hasn't already set it").
EndsOnce ==
    \A p \in Procs : /\ Len(ended[p]) <= 1
                     /\ ended[p] = <<"completed">> => entry[p].status \in {"completed", "failed"}
                     /\ ended[p] = <<"killed">> => entry[p].status = "killed"

\* No agent has more than MaxSessions running processes in the table, and no live
\* process is out of the manager's reach: it is in the table as running, or somebody
\* is killing it (the table may have forgotten it by then).
NoProcessEscapes ==
    /\ \A a \in Agents : Cardinality(Active(a)) <= MaxSessions
    /\ \A p \in Procs : os[p].alive =>
         \/ p \in sessions /\ Running(p)
         \/ os[p].signalled
         \/ \E k \in Killers : p \in kill[k].left \/ (kill[k].proc = p /\ kill[k].pc = "cancel")

\* Under FairPipeSpec, a process that was marked killed does end, and Kill, Remove
\* and Stop return: no lock is held while they wait, done is closed however the
\* process ends, and Stop gets to every process it marked.
KilledEnds ==
    /\ \A p \in Procs : entry[p].status = "killed" ~> ~os[p].alive
    /\ \A k \in Killers : kill[k].pc # "idle" ~> kill[k].pc = "idle"

\* "Stop ... kills all running processes": every process it marks ends.  Without the
\* assumption on descendants it does not: Stop waits for one process, whose output a
\* descendant holds, before it signals the next.
StopKillsAll ==
    \A p \in Procs, k \in Killers : p \in kill[k].left ~> ~os[p].alive

\* "Poll returns new output since the last poll": the bytes up to the index have been
\* returned, unless the buffer dropped them.  They have not: what is written between
\* ReadFrom and TotalWritten is skipped.
PollIsComplete ==
    \A p \in Procs : \A b \in 1 .. entry[p].index :
        \/ b <= Dropped(buf[p])
        \/ \E i \in DOMAIN delivered[p] : delivered[p][i] = b
=============================================================================
