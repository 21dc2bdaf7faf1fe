------------------------ MODULE ProcessManagerProofs ------------------------
(***************************************************************************)
(* Background processes, for every number of processes, agents, pollers    *)
(* and killers, every capacity of the buffer and every size of a write.    *)
(*                                                                         *)
(* Kill, Remove and Stop race the natural end of a process.  Who marked it *)
(* killed owns its end: OwnersEnd says that there is one owner at most,    *)
(* and that a marked process that is alive is signalled or still owned.    *)
(* EndsOnce and NoProcessEscapes follow from that, and OutputIsTrue from   *)
(* what a buffer and a poll hold between two steps.                        *)
(***************************************************************************)
EXTENDS ProcessManager, FiniteSetTheorems, SequenceTheorems, TLAPS
-----------------------------------------------------------------------------
(* The output buffer *)

Buffers == [data : Seq(Nat), written : Nat]

\* The buffer holds the newest bytes of what was written.
HoldsNewest(rb) ==
    /\ rb \in Buffers
    /\ Len(rb.data) = IF rb.written < OutputBufferMax THEN rb.written ELSE OutputBufferMax
    /\ \A i \in 1 .. Len(rb.data) : rb.data[i] = Dropped(rb) + i

\* Write appends a chunk and drops from the front what does not fit.
LEMMA WriteKeepsNewest ==
    ASSUME NEW rb, HoldsNewest(rb), NEW n \in Nat
    PROVE  HoldsNewest(Write(rb, n)) /\ Write(rb, n).written = rb.written + n
<1> DEFINE chunk == [i \in 1 .. n |-> rb.written + i]
           data  == rb.data \o chunk
           w     == rb.written
           max   == OutputBufferMax
<1>1. /\ max \in Nat /\ w \in Nat /\ rb.data \in Seq(Nat)
      /\ Len(rb.data) = IF w < max THEN w ELSE max
      /\ \A i \in 1 .. Len(rb.data) : rb.data[i] = w - Len(rb.data) + i
  BY ProcessBounds DEF HoldsNewest, Buffers, Dropped
<1>2. chunk \in Seq(Nat) /\ Len(chunk) = n /\ \A i \in 1 .. n : chunk[i] = w + i
  BY <1>1
<1>3. /\ data \in Seq(Nat) /\ Len(data) = Len(rb.data) + n
      /\ \A i \in 1 .. Len(data) : data[i] = w - Len(rb.data) + i
  <2> HIDE DEF chunk, w, max
  <2>1. /\ data \in Seq(Nat) /\ Len(data) = Len(rb.data) + Len(chunk)
        /\ \A i \in 1 .. Len(rb.data) + Len(chunk) :
             data[i] = IF i <= Len(rb.data) THEN rb.data[i] ELSE chunk[i - Len(rb.data)]
    BY <1>1, <1>2, ConcatProperties
  <2> HIDE DEF data
  <2> QED
    BY <1>1, <1>2, <2>1
<1>4. Write(rb, n) = [data |-> IF Len(data) > max THEN Newest(data) ELSE data, written |-> w + n]
  BY DEF Write
<1> HIDE DEF data, chunk, w, max
<1>5. CASE Len(data) > max
  <2>1. Newest(data) = SubSeq(data, Len(data) - max + 1, Len(data))
    BY DEF Newest, max
  <2>2. /\ Newest(data) \in Seq(Nat) /\ Len(Newest(data)) = max
        /\ \A i \in 1 .. max : Newest(data)[i] = data[Len(data) - max + i]
    <3> DEFINE m == Len(data) - max + 1
    <3>1. m \in Int /\ Len(data) \in Int /\ m >= 1 /\ \A i \in m .. Len(data) : data[i] \in Nat
      <4>1. max \in Nat /\ Len(data) \in Nat /\ Len(data) > max
        BY <1>1, <1>3, <1>5
      <4>2. \A i \in 1 .. Len(data) : data[i] \in Nat
        BY <1>3, ElementOfSeq
      <4> QED
        BY <4>1, <4>2
    <3>2. Newest(data) = SubSeq(data, m, Len(data))
      BY <2>1
    <3> HIDE DEF m
    <3>3. /\ Newest(data) \in Seq(Nat)
          /\ Len(Newest(data)) = IF m <= Len(data) THEN Len(data) - m + 1 ELSE 0
          /\ \A i \in 1 .. Len(data) - m + 1 : Newest(data)[i] = data[m + i - 1]
      BY <3>1, <3>2, SubSeqProperties
    <3> DEFINE d == Len(data)
    <3>4. max \in Nat /\ d \in Nat /\ d > max /\ m = d - max + 1
      BY <1>1, <1>3, <1>5 DEF m
    <3> HIDE DEF d
    <3>5. d - m + 1 = max /\ (max # 0 => m <= d) /\ \A i \in 1 .. max : m + i - 1 = d - max + i
      BY <3>4
    <3> QED
      BY <3>3, <3>4, <3>5 DEF d
  <2>3. ASSUME NEW i \in 1 .. max PROVE Newest(data)[i] = w + n - max + i
    <3> DEFINE j == Len(data) - max + i
               l == Len(rb.data)
               d == Len(data)
    <3>1. l \in Nat /\ max \in Nat /\ w \in Nat /\ d = l + n /\ d > max /\ j = d - max + i
      BY <1>1, <1>3, <1>5
    <3>2. Newest(data)[i] = data[j] /\ \A x \in 1 .. d : data[x] = w - l + x
      BY <1>3, <2>2
    <3> HIDE DEF j, l, d
    <3>3. j \in 1 .. d /\ w - l + j = w + n - max + i
      BY <3>1
    <3> QED
      BY <3>2, <3>3
  <2>4. Write(rb, n) = [data |-> Newest(data), written |-> w + n]
    BY <1>4, <1>5
  <2>5. /\ Write(rb, n) \in Buffers
        /\ Write(rb, n).data = Newest(data) /\ Write(rb, n).written = w + n
    BY <1>1, <2>2, <2>4 DEF Buffers
  <2>6. w + n >= max
    BY <1>1, <1>3, <1>5
  <2> HIDE DEF Newest
  <2> QED
    BY <1>1, <2>2, <2>3, <2>5, <2>6, SMTT(30) DEF HoldsNewest, Dropped, max, w
<1>6. CASE Len(data) <= max
  BY <1>1, <1>3, <1>4, <1>6 DEF HoldsNewest, Buffers, Dropped, max, w
<1> QED
  BY <1>1, <1>3, <1>5, <1>6

BufferInv == buf \in [Procs -> Buffers] /\ \A p \in Procs : HoldsNewest(buf[p])

\* Every buffer holds the newest bytes of its output, whatever the sizes of the writes.
THEOREM BufferInvariant == Spec => []BufferInv
<1>1. Init => BufferInv
  BY ProcessBounds DEF Init, BufferInv, HoldsNewest, Buffers, Dropped, newRingBuffer
<1>2. BufferInv /\ [Next]_vars => BufferInv'
  <2> SUFFICES ASSUME BufferInv, [Next]_vars
               PROVE  BufferInv'
    OBVIOUS
  <2>1. ASSUME NEW p \in Procs, NEW n \in Chunks, Output(p, n) PROVE BufferInv'
    <3>1. buf' = [buf EXCEPT ![p] = Write(buf[p], n)] /\ n \in Nat
      BY <2>1, ProcessBounds DEF Output
    <3>2. HoldsNewest(Write(buf[p], n))
      BY <3>1, WriteKeepsNewest DEF BufferInv
    <3> QED
      BY <3>1, <3>2 DEF BufferInv, HoldsNewest
  <2>2. CASE UNCHANGED buf
    BY <2>2 DEF BufferInv
  <2> QED
    BY <2>1, <2>2 DEF Next, vars, Start, Exit, Release, WaitReturns, Settle, RemoveFinished, PollStep, PollRead,
       PollTotal, PollEnd, PollBegin, KillStep, RemoveKill, Cancel, Killed, StopNext, Stop, Kill, RemoveRunning,
       Clear, cleanupExpired
<1> QED
  BY <1>1, <1>2, PTL DEF Spec

\* ReadFrom returns the bytes behind the offset, in their order, as far as the buffer has them.
LEMMA ReadIsNewer ==
    ASSUME NEW rb, HoldsNewest(rb), NEW offset \in Nat
    PROVE  LET out == ReadFrom(rb, offset)
           IN  /\ out \in Seq(Nat)
               /\ \A i \in 1 .. Len(out) : offset < out[i] /\ out[i] <= rb.written
               /\ \A i, j \in 1 .. Len(out) : i < j => out[i] < out[j]
<1> DEFINE l   == Len(rb.data)
           w   == rb.written
           lo  == IF offset < w - l THEN 0 ELSE offset - (w - l)
           m   == lo + 1
           out == SubSeq(rb.data, m, l)
<1>1. l \in Nat /\ w \in Nat /\ l <= w /\ rb.data \in Seq(Nat)
  BY ProcessBounds DEF HoldsNewest, Buffers
<1>2. \A i \in 1 .. l : rb.data[i] = w - l + i
  BY DEF HoldsNewest, Dropped
<1>3. ReadFrom(rb, offset) = out
  BY DEF ReadFrom, Dropped
<1>4. \A i \in 1 .. l : rb.data[i] \in Nat
  BY <1>1, ElementOfSeq
<1> HIDE DEF l, w
<1>5. lo \in Nat /\ w - l + lo >= offset
  BY <1>1
<1> HIDE DEF lo
<1>6. m \in Int /\ l \in Int /\ \A i \in m .. l : rb.data[i] \in Nat
  BY <1>1, <1>4, <1>5
<1>7. /\ out \in Seq(Nat)
      /\ Len(out) = IF m <= l THEN l - m + 1 ELSE 0
      /\ \A i \in 1 .. l - m + 1 : out[i] = rb.data[m + i - 1]
  <2> HIDE DEF m
  <2> QED
    BY <1>6, SubSeqProperties
<1> DEFINE n == Len(out)
<1>8. n \in Nat /\ n <= l /\ \A i \in 1 .. n : m + i - 1 \in 1 .. l /\ out[i] = w - l + (m + i - 1)
  BY <1>1, <1>2, <1>5, <1>7
<1> HIDE DEF out, n
<1>9. \A i \in 1 .. n : out[i] = w - l + lo + i /\ lo + i <= l
  BY <1>1, <1>5, <1>8
<1>10. /\ \A i \in 1 .. n : offset < out[i] /\ out[i] <= w
       /\ \A i, j \in 1 .. n : i < j => out[i] < out[j]
  BY <1>1, <1>5, <1>8, <1>9
<1> QED
  BY <1>3, <1>7, <1>10 DEF n, w

-----------------------------------------------------------------------------
(* How processes end *)

Entries == [status : {"none", "running", "completed", "failed", "killed"}, agent : Agents \cup {NoAgent},
            index : Nat, done : BOOLEAN, settled : BOOLEAN]
Kills   == [pc : {"idle", "kill", "cancel", "wait", "stop"}, op : {"none", "kill", "remove", "stop"},
            proc : Procs \cup {NoProc}, left : SUBSET Procs]

Polls   == [pc : {"idle", "read", "total", "end"}, proc : Procs \cup {NoProc}, prev : Nat, out : Seq(Nat), next : Nat]

ProcTypeOK ==
    /\ load.killers \subseteq Killers /\ load.held \subseteq BOOLEAN
    /\ sessions \subseteq Procs
    /\ entry \in [Procs -> Entries]
    /\ os \in [Procs -> [alive : BOOLEAN, signalled : BOOLEAN, held : BOOLEAN]]
    /\ kill \in [Killers -> Kills]
    /\ ended \in [Procs -> Seq({"completed", "killed"})]
    /\ poll \in [Pollers -> Polls]
    /\ \A q \in Pollers : poll[q].pc # "idle" => poll[q].proc \in Procs

\* Where a process is in its life, and the events of its end so far.
LifeIsTrue ==
    \A p \in Procs :
        /\ Running(p) => p \in sessions
        /\ entry[p].status \in {"none", "running"} => ended[p] = <<>>
        /\ entry[p].status \in {"completed", "failed"} => entry[p].done /\ ended[p] = <<"completed">>
        /\ entry[p].status = "killed" => ended[p] \in {<<>>, <<"killed">>}
        /\ entry[p].status = "none" => ~os[p].alive
        /\ entry[p].done => ~os[p].alive

\* A poll holds the bytes and the positions of a process that was in the table.
LEMMA PollStepType ==
    ASSUME BufferInv, ProcTypeOK,
           \/ \E p \in Procs, n \in Chunks : Output(p, n)
           \/ \E q \in Pollers, p \in Procs : PollBegin(q, p)
           \/ \E q \in Pollers : PollRead(q) \/ PollTotal(q)
    PROVE  poll' \in [Pollers -> Polls] /\ \A q \in Pollers : poll'[q].pc # "idle" => poll'[q].proc \in Procs
<1>0. poll \in [Pollers -> Polls] /\ \A q \in Pollers : poll[q].pc # "idle" => poll[q].proc \in Procs
  BY DEF ProcTypeOK
<1>1. CASE \E p \in Procs, n \in Chunks : Output(p, n)
  BY <1>0, <1>1 DEF Output
<1>2. ASSUME NEW q \in Pollers, NEW p \in Procs, PollBegin(q, p)
      PROVE  poll' \in [Pollers -> Polls] /\ \A r \in Pollers : poll'[r].pc # "idle" => poll'[r].proc \in Procs
  <2>1. entry[p].index \in Nat
    BY DEF ProcTypeOK, Entries
  <2> DEFINE new == [Quiet EXCEPT !.pc = "read", !.proc = p, !.prev = entry[p].index]
  <2>2. poll' = [poll EXCEPT ![q] = new]
    BY <1>2 DEF PollBegin
  <2>3. new \in Polls /\ new.proc = p
    <3> DEFINE none == <<>>
    <3>1. none \in Seq(Nat)
      OBVIOUS
    <3>2. new = [[pc |-> "idle", proc |-> NoProc, prev |-> 0, out |-> none, next |-> 0]
                 EXCEPT !.pc = "read", !.proc = p, !.prev = entry[p].index]
      BY DEF Quiet
    <3> HIDE DEF none, new
    <3> QED
      BY <2>1, <3>1, <3>2 DEF Polls
  <2> HIDE DEF new
  <2> QED
    BY <1>0, <2>2, <2>3
<1>3. ASSUME NEW q \in Pollers, PollRead(q)
      PROVE  poll' \in [Pollers -> Polls] /\ \A r \in Pollers : poll'[r].pc # "idle" => poll'[r].proc \in Procs
  <2> DEFINE out == ReadFrom(buf[poll[q].proc], poll[q].prev)
  <2>1. poll[q].proc \in Procs /\ poll[q].prev \in Nat
    BY <1>0, <1>3 DEF PollRead, Polls
  <2>2. out \in Seq(Nat)
    BY <2>1, ReadIsNewer DEF BufferInv
  <2>3. poll' = [poll EXCEPT ![q].pc = "total", ![q].out = out]
    BY <1>3 DEF PollRead
  <2> HIDE DEF out
  <2> QED
    BY <1>0, <2>1, <2>2, <2>3, ZenonT(30) DEF Polls
<1>4. ASSUME NEW q \in Pollers, PollTotal(q)
      PROVE  poll' \in [Pollers -> Polls] /\ \A r \in Pollers : poll'[r].pc # "idle" => poll'[r].proc \in Procs
  <2>1. poll[q].proc \in Procs /\ buf[poll[q].proc].written \in Nat
    BY <1>0, <1>4 DEF PollTotal, Polls, BufferInv, Buffers
  <2>2. poll' = [poll EXCEPT ![q].pc = "end", ![q].next = buf[poll[q].proc].written]
    BY <1>4 DEF PollTotal
  <2> QED
    BY <1>0, <2>1, <2>2, ZenonT(30) DEF Polls
<1> QED
  BY <1>1, <1>2, <1>3, <1>4

\* A killer that has marked a process and not signalled it yet, and one that has and does
\* not know of its end.
Dooms(k, p) == p \in kill[k].left \/ (kill[k].proc = p /\ kill[k].pc = "cancel")
Owns(k, p)  == Dooms(k, p) \/ (kill[k].proc = p /\ kill[k].pc = "wait")

\* What a killer holds between two steps.
KillersHold ==
    \A k \in Killers :
        /\ kill[k].pc \in {"kill", "cancel", "wait"} => kill[k].proc \in Procs
        /\ kill[k].pc \in {"idle", "kill"} => kill[k].left = {}
        /\ kill[k].left # {} => kill[k].op = "stop"
        /\ kill[k].pc = "wait" => os[kill[k].proc].signalled
        /\ kill[k].pc \in {"cancel", "wait"} => kill[k].proc \notin kill[k].left

\* A marked process has one owner at most, whose event has not been published, and is not
\* forgotten before it is signalled.
OwnersEnd ==
    /\ \A k \in Killers, p \in Procs : Owns(k, p) => entry[p].status = "killed" /\ ended[p] = <<>>
    /\ \A k, l \in Killers, p \in Procs : Owns(k, p) /\ Owns(l, p) => k = l
    /\ \A p \in Procs : os[p].alive /\ entry[p].status = "killed" =>
         os[p].signalled \/ \E k \in Killers : Dooms(k, p)

EndInv == ProcTypeOK /\ LifeIsTrue /\ KillersHold /\ OwnersEnd

\* The invariant of the ends of processes holds at the start and is kept by every step.
THEOREM EndInvariant == Spec => []EndInv
<1>1. Init => EndInv
  <2> SUFFICES ASSUME Init PROVE EndInv
    OBVIOUS
  <2>1. ProcTypeOK
    BY ProcessBounds DEF Init, ProcTypeOK, Entries, Kills, Polls, NoEntry, NoProcess, AtRest, Quiet
  <2>2. LifeIsTrue /\ KillersHold /\ OwnersEnd
    BY DEF Init, LifeIsTrue, KillersHold, OwnersEnd, Owns, Dooms, Running, NoEntry, NoProcess, AtRest
  <2> QED
    BY <2>1, <2>2 DEF EndInv
<1>2. BufferInv /\ EndInv /\ [Next]_vars => EndInv'
  <2> SUFFICES ASSUME BufferInv, EndInv, [Next]_vars
               PROVE  EndInv'
    OBVIOUS
  <2>0. ProcTypeOK
    BY DEF EndInv
  <2>99. ProcTypeOK /\ LifeIsTrue /\ KillersHold /\ OwnersEnd
    BY DEF EndInv
  <2>1. ASSUME NEW p \in Procs, NEW a \in Agents, Start(p, a)
        PROVE  EndInv'
    <3>1. ProcTypeOK'
      <4>1. entry' \in [Procs -> Entries]
        <5>1. entry \in [Procs -> Entries]
          BY <2>0 DEF ProcTypeOK
        <5> QED
          BY <2>0, <2>1, <5>1 DEF Entries, Start, NoEntry, NoProcess, ProcTypeOK
      <4>2. os' \in [Procs -> [alive : BOOLEAN, signalled : BOOLEAN, held : BOOLEAN]]
        <5>1. os \in [Procs -> [alive : BOOLEAN, signalled : BOOLEAN, held : BOOLEAN]]
          BY <2>0 DEF ProcTypeOK
        <5> QED
          <6>1. PICK held \in load.held : os' = [os EXCEPT ![p] = [alive |-> TRUE, signalled |-> FALSE, held |-> held]]
            BY <2>1 DEF Start, NoProcess
          <6>2. held \in BOOLEAN
            BY <2>0 DEF ProcTypeOK
          <6> QED
            BY <5>1, <6>1, <6>2
      <4> QED
        BY <2>0, <2>1, <4>1, <4>2 DEF ProcTypeOK, Start, NoEntry, NoProcess
    <3>2. /\ entry[p].status = "none" /\ p \in sessions' /\ sessions \subseteq sessions'
          /\ \A q \in Procs : q # p => entry'[q] = entry[q]
          /\ entry'[p].status = "running"
          /\ entry'[p].done = FALSE
          /\ \A q \in Procs : q # p => os'[q] = os[q]
          /\ UNCHANGED <<kill, ended>>
      BY <2>0, <2>1 DEF ProcTypeOK, Entries, Start, NoEntry, NoProcess
    <3>3. LifeIsTrue'
      BY <2>99, <3>2 DEF LifeIsTrue, KillersHold, OwnersEnd, Owns, Dooms, Running
    <3>4. KillersHold'
      BY <2>99, <3>2 DEF LifeIsTrue, KillersHold, OwnersEnd, Owns, Dooms, Running
    <3>5. OwnersEnd'
      BY <2>99, <3>2 DEF LifeIsTrue, KillersHold, OwnersEnd, Owns, Dooms, Running
    <3> QED
      BY <3>1, <3>3, <3>4, <3>5 DEF EndInv
  <2>2. ASSUME NEW p \in Procs, Exit(p)
        PROVE  EndInv'
    <3>1. ProcTypeOK'
      <4>1. os' \in [Procs -> [alive : BOOLEAN, signalled : BOOLEAN, held : BOOLEAN]]
        <5>1. os \in [Procs -> [alive : BOOLEAN, signalled : BOOLEAN, held : BOOLEAN]]
          BY <2>0 DEF ProcTypeOK
        <5> QED
          BY <2>0, <2>2, <5>1 DEF Exit
      <4> QED
        BY <2>0, <2>2, <4>1 DEF ProcTypeOK, Exit
    <3>2. /\ \A q \in Procs : q # p => os'[q] = os[q]
          /\ os'[p].alive = FALSE
          /\ os'[p].signalled = os[p].signalled
          /\ UNCHANGED <<sessions, entry, kill, ended>>
      BY <2>0, <2>2 DEF ProcTypeOK, Exit
    <3>3. LifeIsTrue'
      BY <2>99, <3>2 DEF LifeIsTrue, KillersHold, OwnersEnd, Owns, Dooms, Running
    <3>4. KillersHold'
      BY <2>99, <3>2 DEF LifeIsTrue, KillersHold, OwnersEnd, Owns, Dooms, Running
    <3>5. OwnersEnd'
      BY <2>99, <3>2 DEF LifeIsTrue, KillersHold, OwnersEnd, Owns, Dooms, Running
    <3> QED
      BY <3>1, <3>3, <3>4, <3>5 DEF EndInv
  <2>3. ASSUME NEW p \in Procs, Release(p)
        PROVE  EndInv'
    <3>1. ProcTypeOK'
      <4>1. os' \in [Procs -> [alive : BOOLEAN, signalled : BOOLEAN, held : BOOLEAN]]
        <5>1. os \in [Procs -> [alive : BOOLEAN, signalled : BOOLEAN, held : BOOLEAN]]
          BY <2>0 DEF ProcTypeOK
        <5> QED
          BY <2>0, <2>3, <5>1 DEF Release
      <4> QED
        BY <2>0, <2>3, <4>1 DEF ProcTypeOK, Release
    <3>2. /\ \A q \in Procs : q # p => os'[q] = os[q]
          /\ os'[p].alive = os[p].alive
          /\ os'[p].signalled = os[p].signalled
          /\ UNCHANGED <<sessions, entry, kill, ended>>
      BY <2>0, <2>3 DEF ProcTypeOK, Release
    <3>3. LifeIsTrue'
      BY <2>99, <3>2 DEF LifeIsTrue, KillersHold, OwnersEnd, Owns, Dooms, Running
    <3>4. KillersHold'
      BY <2>99, <3>2 DEF LifeIsTrue, KillersHold, OwnersEnd, Owns, Dooms, Running
    <3>5. OwnersEnd'
      BY <2>99, <3>2 DEF LifeIsTrue, KillersHold, OwnersEnd, Owns, Dooms, Running
    <3> QED
      BY <3>1, <3>3, <3>4, <3>5 DEF EndInv
  <2>4. ASSUME NEW p \in Procs, WaitReturns(p)
        PROVE  EndInv'
    <3>1. ProcTypeOK'
      <4>1. entry' \in [Procs -> Entries]
        <5>1. entry \in [Procs -> Entries]
          BY <2>0 DEF ProcTypeOK
        <5> QED
          BY <2>0, <2>4, <5>1 DEF Entries, WaitReturns
      <4> QED
        BY <2>0, <2>4, <4>1 DEF ProcTypeOK, WaitReturns
    <3>2. /\ \A q \in Procs : q # p => entry'[q] = entry[q]
          /\ entry'[p].status = entry[p].status
          /\ entry'[p].done = TRUE
          /\ ~os[p].alive
          /\ UNCHANGED <<sessions, os, kill, ended>>
      BY <2>0, <2>4 DEF ProcTypeOK, Entries, WaitReturns
    <3>3. LifeIsTrue'
      BY <2>99, <3>2 DEF LifeIsTrue, KillersHold, OwnersEnd, Owns, Dooms, Running
    <3>4. KillersHold'
      BY <2>99, <3>2 DEF LifeIsTrue, KillersHold, OwnersEnd, Owns, Dooms, Running
    <3>5. OwnersEnd'
      BY <2>99, <3>2 DEF LifeIsTrue, KillersHold, OwnersEnd, Owns, Dooms, Running
    <3> QED
      BY <3>1, <3>3, <3>4, <3>5 DEF EndInv
  <2>5. ASSUME NEW p \in Procs, Running(p), Settle(p)
        PROVE  EndInv'
    <3>1. ProcTypeOK'
      <4>1. entry' \in [Procs -> Entries]
        <5>1. entry \in [Procs -> Entries]
          BY <2>0 DEF ProcTypeOK
        <5> QED
          BY <2>0, <2>5, <5>1 DEF Entries, Settle, Settles, Running
      <4>2. ended' \in [Procs -> Seq({"completed", "killed"})]
        <5>1. ended \in [Procs -> Seq({"completed", "killed"})]
          BY <2>0 DEF ProcTypeOK
        <5> QED
          BY <2>0, <2>5, <5>1 DEF Settle, Settles, Running
      <4> QED
        BY <2>0, <2>5, <4>1, <4>2 DEF ProcTypeOK, Settle, Settles, Running
    <3>2. /\ \A q \in Procs : q # p => entry'[q] = entry[q] /\ ended'[q] = ended[q]
          /\ entry'[p].done /\ entry[p].done
          /\ entry[p].status = "running" /\ entry'[p].status \in {"completed", "failed"}
          /\ ended'[p] = Append(ended[p], "completed")
          /\ UNCHANGED <<sessions, os, kill>>
      BY <2>0, <2>5 DEF ProcTypeOK, Entries, Settle, Settles, Running
    <3>3. LifeIsTrue'
      BY <2>99, <3>2 DEF LifeIsTrue, KillersHold, OwnersEnd, Owns, Dooms, Running
    <3>4. KillersHold'
      BY <2>99, <3>2 DEF LifeIsTrue, KillersHold, OwnersEnd, Owns, Dooms, Running
    <3>5. OwnersEnd'
      BY <2>99, <3>2 DEF LifeIsTrue, KillersHold, OwnersEnd, Owns, Dooms, Running
    <3> QED
      BY <3>1, <3>3, <3>4, <3>5 DEF EndInv
  <2>6. ASSUME NEW p \in Procs, ~Running(p), Settle(p)
        PROVE  EndInv'
    <3>1. ProcTypeOK'
      <4>1. entry' \in [Procs -> Entries]
        <5>1. entry \in [Procs -> Entries]
          BY <2>0 DEF ProcTypeOK
        <5> QED
          <6>1. PICK status \in {"completed", "failed"} :
                  entry' = [entry EXCEPT ![p].settled = TRUE, ![p].status = IF Settles(p) THEN status ELSE @]
            BY <2>6 DEF Settle
          <6>2. \A q \in Procs : entry'[q] = IF q = p THEN [entry[q] EXCEPT !.settled = TRUE] ELSE entry[q]
            BY <2>6, <5>1, <6>1 DEF Entries, Settles
          <6>3. \A q \in Procs : [entry[q] EXCEPT !.settled = TRUE] \in Entries
            BY <5>1 DEF Entries
          <6> QED
            BY <5>1, <6>1, <6>2, <6>3
      <4>2. ended' \in [Procs -> Seq({"completed", "killed"})]
        <5>1. ended \in [Procs -> Seq({"completed", "killed"})]
          BY <2>0 DEF ProcTypeOK
        <5> QED
          BY <2>0, <2>6, <5>1 DEF Settle, Settles, Running
      <4> QED
        BY <2>0, <2>6, <4>1, <4>2 DEF ProcTypeOK, Settle, Settles, Running
    <3>2. /\ \A q \in Procs : entry'[q].status = entry[q].status /\ entry'[q].done = entry[q].done /\ ended'[q] = ended[q]
          /\ UNCHANGED <<sessions, os, kill>>
      BY <2>0, <2>6 DEF ProcTypeOK, Entries, Settle, Settles, Running
    <3>3. LifeIsTrue'
      BY <2>99, <3>2 DEF LifeIsTrue, KillersHold, OwnersEnd, Owns, Dooms, Running
    <3>4. KillersHold'
      BY <2>99, <3>2 DEF LifeIsTrue, KillersHold, OwnersEnd, Owns, Dooms, Running
    <3>5. OwnersEnd'
      BY <2>99, <3>2 DEF LifeIsTrue, KillersHold, OwnersEnd, Owns, Dooms, Running
    <3> QED
      BY <3>1, <3>3, <3>4, <3>5 DEF EndInv
  <2>7. ASSUME NEW p \in Procs, RemoveFinished(p)
        PROVE  EndInv'
    <3>1. ProcTypeOK'
      <4>1. sessions' \subseteq Procs
        <5>1. sessions \subseteq Procs
          BY <2>0 DEF ProcTypeOK
        <5> QED
          BY <2>0, <2>7, <5>1 DEF RemoveFinished, Running
      <4> QED
        BY <2>0, <2>7, <4>1 DEF ProcTypeOK, RemoveFinished, Running
    <3>2. /\ sessions' = sessions \ {p} /\ ~Running(p)
          /\ UNCHANGED <<entry, os, kill, ended>>
      BY <2>0, <2>7 DEF ProcTypeOK, RemoveFinished, Running
    <3>3. LifeIsTrue'
      BY <2>99, <3>2 DEF LifeIsTrue, KillersHold, OwnersEnd, Owns, Dooms, Running
    <3>4. KillersHold'
      BY <2>99, <3>2 DEF LifeIsTrue, KillersHold, OwnersEnd, Owns, Dooms, Running
    <3>5. OwnersEnd'
      BY <2>99, <3>2 DEF LifeIsTrue, KillersHold, OwnersEnd, Owns, Dooms, Running
    <3> QED
      BY <3>1, <3>3, <3>4, <3>5 DEF EndInv
  <2>8. ASSUME \/ \E p \in Procs, n \in Chunks : Output(p, n)
               \/ \E q \in Pollers, p \in Procs : PollBegin(q, p)
               \/ \E q \in Pollers : PollRead(q) \/ PollTotal(q)
        PROVE  EndInv'
    <3>1. UNCHANGED <<load, sessions, entry, os, kill, ended>>
      BY <2>8 DEF Output, PollBegin, PollRead, PollTotal
    <3>2. poll' \in [Pollers -> Polls] /\ \A q \in Pollers : poll'[q].pc # "idle" => poll'[q].proc \in Procs
      BY <2>0, <2>8, PollStepType
    <3> QED
      BY <2>99, <3>1, <3>2 DEF EndInv, ProcTypeOK, LifeIsTrue, KillersHold, OwnersEnd, Owns, Dooms, Running
  <2>9. ASSUME NEW q \in Pollers, PollEnd(q)
        PROVE  EndInv'
    <3>1. UNCHANGED <<load, sessions, os, kill, ended>>
      BY <2>9 DEF PollEnd
    <3>2. /\ entry' \in [Procs -> Entries]
          /\ \A p \in Procs : entry'[p].status = entry[p].status /\ entry'[p].done = entry[p].done
      <4>1. poll[q].proc \in Procs /\ poll[q].next \in Nat /\ entry' = [entry EXCEPT ![poll[q].proc].index = poll[q].next]
        BY <2>0, <2>9 DEF ProcTypeOK, Polls, PollEnd, PollIndex
      <4>2. entry \in [Procs -> Entries]
        BY <2>0 DEF ProcTypeOK
      <4> QED
        BY <4>1, <4>2 DEF Entries
    <3>3. poll' \in [Pollers -> Polls] /\ \A r \in Pollers : poll'[r].pc # "idle" => poll'[r].proc \in Procs
      BY <2>0, <2>9 DEF ProcTypeOK, Polls, PollEnd, Quiet
    <3>4. LifeIsTrue' /\ KillersHold' /\ OwnersEnd'
      BY <2>99, <3>1, <3>2 DEF LifeIsTrue, KillersHold, OwnersEnd, Owns, Dooms, Running
    <3> QED
      BY <2>0, <3>1, <3>2, <3>3, <3>4 DEF EndInv, ProcTypeOK
  <2>10. ASSUME NEW k \in Killers, NEW p \in Procs, Kill(k, p)
        PROVE  EndInv'
    <3>1. ProcTypeOK'
      <4>1. entry' \in [Procs -> Entries]
        <5>1. entry \in [Procs -> Entries]
          BY <2>0 DEF ProcTypeOK
        <5> QED
          BY <2>0, <2>10, <5>1 DEF Entries, Kill, MarkKilled, Running
      <4>2. kill' \in [Killers -> Kills]
        <5>1. kill \in [Killers -> Kills]
          BY <2>0 DEF ProcTypeOK
        <5> QED
          BY <2>0, <2>10, <5>1 DEF Kills, Kill, MarkKilled, Running
      <4> QED
        BY <2>0, <2>10, <4>1, <4>2 DEF ProcTypeOK, Kill, MarkKilled, Running
    <3>2. /\ kill[k].pc = "idle" /\ Running(p)
          /\ \A q \in Procs : q # p => entry'[q] = entry[q]
          /\ entry'[p].status = "killed"
          /\ entry'[p].done = entry[p].done
          /\ \A l \in Killers : l # k => kill'[l] = kill[l]
          /\ kill'[k].pc = "cancel" /\ kill'[k].op = "kill"
          /\ kill'[k].proc = p /\ kill'[k].left = {}
          /\ UNCHANGED <<sessions, os, ended>>
      BY <2>0, <2>10 DEF ProcTypeOK, Entries, Kills, Kill, MarkKilled, Running
    <3>3. LifeIsTrue'
      BY <2>99, <3>2 DEF LifeIsTrue, KillersHold, OwnersEnd, Owns, Dooms, Running
    <3>4. KillersHold'
      BY <2>99, <3>2 DEF LifeIsTrue, KillersHold, OwnersEnd, Owns, Dooms, Running
    <3>5. OwnersEnd'
      BY <2>99, <3>2 DEF LifeIsTrue, KillersHold, OwnersEnd, Owns, Dooms, Running
    <3> QED
      BY <3>1, <3>3, <3>4, <3>5 DEF EndInv
  <2>11. ASSUME NEW k \in Killers, NEW p \in Procs, RemoveRunning(k, p)
        PROVE  EndInv'
    <3>1. ProcTypeOK'
      <4>1. kill' \in [Killers -> Kills]
        <5>1. kill \in [Killers -> Kills]
          BY <2>0 DEF ProcTypeOK
        <5> QED
          BY <2>0, <2>11, <5>1 DEF Kills, RemoveRunning, AtRest
      <4> QED
        BY <2>0, <2>11, <4>1 DEF ProcTypeOK, RemoveRunning, AtRest
    <3>2. /\ kill[k].pc = "idle"
          /\ \A l \in Killers : l # k => kill'[l] = kill[l]
          /\ kill'[k].pc = "kill" /\ kill'[k].op = "remove"
          /\ kill'[k].proc = p /\ kill'[k].left = {}
          /\ UNCHANGED <<sessions, entry, os, ended>>
      BY <2>0, <2>11 DEF ProcTypeOK, Kills, RemoveRunning, AtRest
    <3>3. LifeIsTrue'
      BY <2>99, <3>2 DEF LifeIsTrue, KillersHold, OwnersEnd, Owns, Dooms, Running
    <3>4. KillersHold'
      BY <2>99, <3>2 DEF LifeIsTrue, KillersHold, OwnersEnd, Owns, Dooms, Running
    <3>5. OwnersEnd'
      BY <2>99, <3>2 DEF LifeIsTrue, KillersHold, OwnersEnd, Owns, Dooms, Running
    <3> QED
      BY <3>1, <3>3, <3>4, <3>5 DEF EndInv
  <2>12. ASSUME NEW k \in Killers, NEW p \in Procs, p = kill[k].proc, kill[k].pc = "kill",
                MarkKilled(k, p, "remove"),
               UNCHANGED <<load, sessions, os, poll, ended>>
        PROVE  EndInv'
    <3>1. ProcTypeOK'
      <4>1. entry' \in [Procs -> Entries]
        <5>1. entry \in [Procs -> Entries]
          BY <2>0 DEF ProcTypeOK
        <5> QED
          BY <2>0, <2>12, <5>1 DEF Entries, MarkKilled, Running
      <4>2. kill' \in [Killers -> Kills]
        <5>1. kill \in [Killers -> Kills]
          BY <2>0 DEF ProcTypeOK
        <5> QED
          BY <2>0, <2>12, <5>1 DEF Kills, MarkKilled, Running
      <4> QED
        BY <2>0, <2>12, <4>1, <4>2 DEF ProcTypeOK, MarkKilled, Running
    <3>2. /\ kill[k].pc = "kill" /\ Running(p)
          /\ \A q \in Procs : q # p => entry'[q] = entry[q]
          /\ entry'[p].status = "killed"
          /\ entry'[p].done = entry[p].done
          /\ \A l \in Killers : l # k => kill'[l] = kill[l]
          /\ kill'[k].pc = "cancel" /\ kill'[k].op = "remove"
          /\ kill'[k].proc = p /\ kill'[k].left = {}
          /\ UNCHANGED <<sessions, os, ended>>
      BY <2>0, <2>12 DEF ProcTypeOK, Entries, Kills, MarkKilled, Running
    <3>3. LifeIsTrue'
      BY <2>99, <3>2 DEF LifeIsTrue, KillersHold, OwnersEnd, Owns, Dooms, Running
    <3>4. KillersHold'
      BY <2>99, <3>2 DEF LifeIsTrue, KillersHold, OwnersEnd, Owns, Dooms, Running
    <3>5. OwnersEnd'
      BY <2>99, <3>2 DEF LifeIsTrue, KillersHold, OwnersEnd, Owns, Dooms, Running
    <3> QED
      BY <3>1, <3>3, <3>4, <3>5 DEF EndInv
  <2>13. ASSUME NEW k \in Killers, kill[k].pc \in {"kill", "stop"}, kill[k].left = {},
                kill' = [kill EXCEPT ![k] = AtRest],
               UNCHANGED <<load, sessions, entry, os, poll, ended>>
        PROVE  EndInv'
    <3>1. ProcTypeOK'
      <4>1. kill' \in [Killers -> Kills]
        <5>1. kill \in [Killers -> Kills]
          BY <2>0 DEF ProcTypeOK
        <5> QED
          BY <2>0, <2>13, <5>1 DEF Kills, AtRest
      <4> QED
        BY <2>0, <2>13, <4>1 DEF ProcTypeOK, AtRest
    <3>2. /\ kill[k].pc \in {"kill", "stop"} /\ kill[k].left = {}
          /\ \A l \in Killers : l # k => kill'[l] = kill[l]
          /\ kill'[k].pc = "idle" /\ kill'[k].op = "none"
          /\ kill'[k].proc = NoProc /\ kill'[k].left = {}
          /\ UNCHANGED <<sessions, entry, os, ended>>
      BY <2>0, <2>13 DEF ProcTypeOK, Kills, AtRest
    <3>3. LifeIsTrue'
      BY <2>99, <3>2 DEF LifeIsTrue, KillersHold, OwnersEnd, Owns, Dooms, Running
    <3>4. KillersHold'
      BY <2>99, <3>2 DEF LifeIsTrue, KillersHold, OwnersEnd, Owns, Dooms, Running
    <3>5. OwnersEnd'
      BY <2>99, <3>2 DEF LifeIsTrue, KillersHold, OwnersEnd, Owns, Dooms, Running
    <3> QED
      BY <3>1, <3>3, <3>4, <3>5 DEF EndInv
  <2>14. ASSUME NEW k \in Killers, NEW p \in Procs, p = kill[k].proc, Cancel(k)
        PROVE  EndInv'
    <3>1. ProcTypeOK'
      <4>1. os' \in [Procs -> [alive : BOOLEAN, signalled : BOOLEAN, held : BOOLEAN]]
        <5>1. os \in [Procs -> [alive : BOOLEAN, signalled : BOOLEAN, held : BOOLEAN]]
          BY <2>0 DEF ProcTypeOK
        <5> QED
          BY <2>0, <2>14, <5>1 DEF Cancel
      <4>2. kill' \in [Killers -> Kills]
        <5>1. kill \in [Killers -> Kills]
          BY <2>0 DEF ProcTypeOK
        <5> QED
          BY <2>0, <2>14, <5>1 DEF Kills, Cancel
      <4> QED
        BY <2>0, <2>14, <4>1, <4>2 DEF ProcTypeOK, Cancel
    <3>2. /\ kill[k].pc = "cancel" /\ kill[k].proc = p
          /\ \A q \in Procs : q # p => os'[q] = os[q]
          /\ os'[p].alive = os[p].alive
          /\ os'[p].signalled = TRUE
          /\ \A l \in Killers : l # k => kill'[l] = kill[l]
          /\ kill'[k].pc = "wait" /\ kill'[k].op = kill[k].op
          /\ kill'[k].proc = p /\ kill'[k].left = kill[k].left
          /\ UNCHANGED <<sessions, entry, ended>>
      BY <2>0, <2>14 DEF ProcTypeOK, Kills, Cancel
    <3>3. LifeIsTrue'
      BY <2>99, <3>2 DEF LifeIsTrue, KillersHold, OwnersEnd, Owns, Dooms, Running
    <3>4. KillersHold'
      BY <2>99, <3>2 DEF LifeIsTrue, KillersHold, OwnersEnd, Owns, Dooms, Running
    <3>5. OwnersEnd'
      BY <2>99, <3>2 DEF LifeIsTrue, KillersHold, OwnersEnd, Owns, Dooms, Running
    <3> QED
      BY <3>1, <3>3, <3>4, <3>5 DEF EndInv
  <2>15. ASSUME NEW k \in Killers, NEW p \in Procs, p = kill[k].proc, kill[k].op = "stop", Killed(k)
        PROVE  EndInv'
    <3>1. ProcTypeOK'
      <4>1. kill' \in [Killers -> Kills]
        <5>1. kill \in [Killers -> Kills]
          BY <2>0 DEF ProcTypeOK
        <5> QED
          BY <2>0, <2>15, <5>1 DEF Kills, Killed
      <4>2. ended' \in [Procs -> Seq({"completed", "killed"})]
        <5>1. ended \in [Procs -> Seq({"completed", "killed"})]
          BY <2>0 DEF ProcTypeOK
        <5> QED
          BY <2>0, <2>15, <5>1 DEF Killed
      <4> QED
        BY <2>0, <2>15, <4>1, <4>2 DEF ProcTypeOK, Killed
    <3>2. /\ kill[k].pc = "wait" /\ kill[k].proc = p
          /\ \A l \in Killers : l # k => kill'[l] = kill[l]
          /\ kill'[k].pc = "stop" /\ kill'[k].op = "stop"
          /\ kill'[k].proc = p /\ kill'[k].left = kill[k].left
          /\ UNCHANGED <<sessions, entry, os, ended>>
      BY <2>0, <2>15 DEF ProcTypeOK, Kills, Killed
    <3>3. LifeIsTrue'
      BY <2>99, <3>2 DEF LifeIsTrue, KillersHold, OwnersEnd, Owns, Dooms, Running
    <3>4. KillersHold'
      BY <2>99, <3>2 DEF LifeIsTrue, KillersHold, OwnersEnd, Owns, Dooms, Running
    <3>5. OwnersEnd'
      BY <2>99, <3>2 DEF LifeIsTrue, KillersHold, OwnersEnd, Owns, Dooms, Running
    <3> QED
      BY <3>1, <3>3, <3>4, <3>5 DEF EndInv
  <2>16. ASSUME NEW k \in Killers, NEW p \in Procs, p = kill[k].proc, kill[k].op # "stop", Killed(k)
        PROVE  EndInv'
    <3>1. ProcTypeOK'
      <4>1. kill' \in [Killers -> Kills]
        <5>1. kill \in [Killers -> Kills]
          BY <2>0 DEF ProcTypeOK
        <5> QED
          BY <2>0, <2>16, <5>1 DEF Kills, Killed, AtRest, KillersHold, OwnersEnd, Owns, Dooms
      <4>2. ended' \in [Procs -> Seq({"completed", "killed"})]
        <5>1. ended \in [Procs -> Seq({"completed", "killed"})]
          BY <2>0 DEF ProcTypeOK
        <5> QED
          BY <2>0, <2>16, <5>1 DEF Killed, AtRest, KillersHold, OwnersEnd, Owns, Dooms
      <4> QED
        BY <2>0, <2>16, <4>1, <4>2 DEF ProcTypeOK, Killed, AtRest, KillersHold, OwnersEnd, Owns, Dooms
    <3>2. /\ kill[k].pc = "wait" /\ kill[k].proc = p /\ kill[k].op # "stop"
          /\ sessions \ {p} \subseteq sessions'
          /\ \A q \in Procs : q # p => ended'[q] = ended[q]
          /\ entry[p].status = "killed" /\ ended'[p] = <<"killed">>
          /\ \A l \in Killers : l # k => kill'[l] = kill[l]
          /\ kill'[k].pc = "idle" /\ kill'[k].op = "none"
          /\ kill'[k].proc = NoProc /\ kill'[k].left = {}
          /\ UNCHANGED <<entry, os>>
      <4>1. entry[p].status = "killed" /\ ended[p] = <<>>
        BY <2>99, <2>16 DEF Killed, OwnersEnd, Owns
      <4>2. ended' = [ended EXCEPT ![p] = Append(ended[p], "killed")] /\ ended \in [Procs -> Seq({"completed", "killed"})]
        BY <2>0, <2>16 DEF Killed, ProcTypeOK
      <4>3. ended'[p] = <<"killed">> /\ \A q \in Procs : q # p => ended'[q] = ended[q]
        BY <4>1, <4>2
      <4> QED
        BY <2>0, <2>16, <4>1, <4>3 DEF ProcTypeOK, Kills, Killed, AtRest
    <3>3. LifeIsTrue'
      <4>1. \A q \in Procs : q # p => (Running(q)' => q \in sessions') /\ entry'[q] = entry[q] /\ ended'[q] = ended[q] /\ os'[q] = os[q]
        BY <2>99, <3>2 DEF LifeIsTrue, Running
      <4>2. ~Running(p)' /\ entry'[p].status = "killed" /\ ended'[p] \in {<<>>, <<"killed">>} /\ entry'[p] = entry[p] /\ os'[p] = os[p]
        BY <3>2 DEF Running
      <4> QED
        BY <2>99, <4>1, <4>2 DEF LifeIsTrue, Running
    <3>4. KillersHold'
      BY <2>99, <3>2 DEF LifeIsTrue, KillersHold, OwnersEnd, Owns, Dooms, Running
    <3>5. OwnersEnd'
      BY <2>99, <3>2 DEF LifeIsTrue, KillersHold, OwnersEnd, Owns, Dooms, Running
    <3> QED
      BY <3>1, <3>3, <3>4, <3>5 DEF EndInv
  <2>17. ASSUME NEW k \in Killers, Stop(k)
        PROVE  EndInv'
    <3>1. ProcTypeOK'
      <4>1. entry' \in [Procs -> Entries]
        <5>1. entry \in [Procs -> Entries]
          BY <2>0 DEF ProcTypeOK
        <5> QED
          BY ZenonT(30), <2>0, <2>17, <5>1 DEF Entries, Stop, Running, ProcTypeOK
      <4>2. kill' \in [Killers -> Kills]
        <5>1. kill \in [Killers -> Kills]
          BY <2>0 DEF ProcTypeOK
        <5> QED
          BY <2>0, <2>17, <5>1 DEF Kills, Stop, Running, ProcTypeOK
      <4> QED
        BY <2>0, <2>17, <4>1, <4>2 DEF ProcTypeOK, Stop, Running
    <3>2. /\ kill[k].pc = "idle"
          /\ \A q \in Procs : Running(q) => entry'[q].status = "killed" /\ entry'[q].done = entry[q].done
          /\ \A q \in Procs : ~Running(q) => entry'[q] = entry[q]
          /\ \A l \in Killers : l # k => kill'[l] = kill[l]
          /\ kill'[k].pc = "stop" /\ kill'[k].op = "stop"
          /\ kill'[k].proc = NoProc /\ kill'[k].left = {p \in sessions : Running(p)}
          /\ UNCHANGED <<sessions, os, ended>>
      <4>1. \A q \in Procs : Running(q) => q \in sessions
        BY <2>99 DEF LifeIsTrue
      <4>2. /\ \A q \in Procs : Running(q) => entry'[q].status = "killed" /\ entry'[q].done = entry[q].done
            /\ \A q \in Procs : ~Running(q) => entry'[q] = entry[q]
        BY <2>0, <2>17, <4>1 DEF ProcTypeOK, Entries, Stop
      <4> QED
        BY <2>0, <2>17, <4>2 DEF ProcTypeOK, Kills, Stop
    <3>3. LifeIsTrue'
      BY <2>99, <3>2 DEF LifeIsTrue, KillersHold, OwnersEnd, Owns, Dooms, Running
    <3>4. KillersHold'
      BY <2>99, <3>2 DEF LifeIsTrue, KillersHold, OwnersEnd, Owns, Dooms, Running
    <3>5. OwnersEnd'
      BY <2>99, <3>2 DEF LifeIsTrue, KillersHold, OwnersEnd, Owns, Dooms, Running
    <3> QED
      BY <3>1, <3>3, <3>4, <3>5 DEF EndInv
  <2>18. ASSUME NEW k \in Killers, NEW p \in kill[k].left, kill[k].pc = "stop",
               kill' = [kill EXCEPT ![k].pc = "cancel", ![k].proc = p, ![k].left = @ \ {p}],
               UNCHANGED <<load, sessions, entry, os, poll, ended>>
        PROVE  EndInv'
    <3>1. ProcTypeOK'
      <4>1. kill' \in [Killers -> Kills]
        <5>1. kill \in [Killers -> Kills]
          BY <2>0 DEF ProcTypeOK
        <5> QED
          BY <2>0, <2>18, <5>1 DEF Kills, Running
      <4> QED
        BY <2>0, <2>18, <4>1 DEF ProcTypeOK, Running
    <3>2. /\ p \in Procs /\ p \in kill[k].left /\ kill[k].pc = "stop"
          /\ \A l \in Killers : l # k => kill'[l] = kill[l]
          /\ kill'[k].pc = "cancel" /\ kill'[k].op = kill[k].op
          /\ kill'[k].proc = p /\ kill'[k].left = kill[k].left \ {p}
          /\ UNCHANGED <<sessions, entry, os, ended>>
      BY <2>0, <2>18 DEF ProcTypeOK, Kills, Running
    <3>3. LifeIsTrue'
      BY <2>99, <3>2 DEF LifeIsTrue, KillersHold, OwnersEnd, Owns, Dooms, Running
    <3>4. KillersHold'
      BY <2>99, <3>2 DEF LifeIsTrue, KillersHold, OwnersEnd, Owns, Dooms, Running
    <3>5. OwnersEnd'
      BY <2>99, <3>2 DEF LifeIsTrue, KillersHold, OwnersEnd, Owns, Dooms, Running
    <3> QED
      BY <3>1, <3>3, <3>4, <3>5 DEF EndInv
  <2>19. ASSUME Clear \/ \E expired \in SUBSET Finished : cleanupExpired(expired)
        PROVE  EndInv'
    <3>1. /\ sessions' \subseteq sessions /\ \A p \in sessions : Running(p) => p \in sessions'
          /\ UNCHANGED <<load, entry, os, kill, ended, poll>>
      BY <2>19 DEF Clear, cleanupExpired, Finished, Running
    <3> QED
      BY <2>99, <3>1 DEF EndInv, ProcTypeOK, LifeIsTrue, KillersHold, OwnersEnd, Owns, Dooms, Running
  <2>20. CASE UNCHANGED vars
    BY <2>99, <2>20 DEF vars, EndInv, ProcTypeOK, LifeIsTrue, KillersHold, OwnersEnd, Owns, Dooms, Running
  <2>21. ASSUME NEW k \in Killers, KillStep(k) PROVE EndInv'
    <3>1. kill[k].pc \in {"kill", "cancel", "wait"} => kill[k].proc \in Procs
      BY <2>99 DEF KillersHold
    <3>2. CASE RemoveKill(k)
      <4>1. kill[k].left = {}
        BY <2>99, <3>2 DEF RemoveKill, KillersHold
      <4> QED
        BY <3>1, <3>2, <4>1, <2>12, <2>13 DEF RemoveKill
    <3>3. CASE Cancel(k)
      BY <3>1, <3>3, <2>14 DEF Cancel
    <3>4. CASE Killed(k)
      BY <3>1, <3>4, <2>15, <2>16 DEF Killed
    <3>5. CASE StopNext(k)
      BY <3>5, <2>13, <2>18 DEF StopNext
    <3> QED
      BY <2>21, <3>2, <3>3, <3>4, <3>5 DEF KillStep
  <2> QED
    <3>1. \A k \in load.killers : k \in Killers
      BY <2>0 DEF ProcTypeOK
    <3> QED
      BY <3>1, <2>1, <2>2, <2>3, <2>4, <2>5, <2>6, <2>7, <2>8, <2>9, <2>10, <2>11, <2>17, <2>19, <2>20, <2>21
      DEF Next, PollStep
<1> QED
  BY <1>1, <1>2, BufferInvariant, PTL DEF Spec

\* EndsOnce, for any number of processes and killers: Kill, Remove, Stop and
\* waitForCompletion publish one event of the end of a process, which agrees with its status.
THEOREM EndsOnceHolds == Spec => []EndsOnce
<1>1. EndInv => EndsOnce
  <2> SUFFICES ASSUME EndInv, NEW p \in Procs
               PROVE  /\ Len(ended[p]) <= 1
                      /\ ended[p] = <<"completed">> => entry[p].status \in {"completed", "failed"}
                      /\ ended[p] = <<"killed">> => entry[p].status = "killed"
    BY DEF EndsOnce
  <2> DEFINE none      == <<>>
             completed == <<"completed">>
             killed    == <<"killed">>
  <2>1. entry[p].status \in {"none", "running", "completed", "failed", "killed"}
    BY DEF EndInv, ProcTypeOK, Entries
  <2>2. /\ entry[p].status \in {"none", "running"} => ended[p] = none
        /\ entry[p].status \in {"completed", "failed"} => ended[p] = completed
        /\ entry[p].status = "killed" => ended[p] \in {none, killed}
    BY DEF EndInv, LifeIsTrue
  <2>3. Len(none) = 0 /\ Len(completed) = 1 /\ Len(killed) = 1 /\ completed[1] = "completed" /\ killed[1] = "killed"
    OBVIOUS
  <2> HIDE DEF none, completed, killed
  <2> SUFFICES /\ Len(ended[p]) <= 1
               /\ ended[p] = completed => entry[p].status \in {"completed", "failed"}
               /\ ended[p] = killed => entry[p].status = "killed"
    BY DEF completed, killed
  <2>4. none # completed /\ none # killed /\ completed # killed
    BY <2>3
  <2>5. ended[p] \in {none, completed, killed}
    BY <2>1, <2>2
  <2>6. Len(ended[p]) <= 1
    <3> DEFINE n == Len(ended[p])
    <3>1. n \in {0, 1}
      BY <2>3, <2>5, Zenon
    <3> HIDE DEF n
    <3>2. n <= 1
      BY <3>1
    <3> QED
      BY <3>2 DEF n
  <2>7. ended[p] = completed => entry[p].status \in {"completed", "failed"}
    BY <2>1, <2>2, <2>4
  <2>8. ended[p] = killed => entry[p].status = "killed"
    BY <2>1, <2>2, <2>4
  <2> QED
    BY <2>6, <2>7, <2>8
<1> QED
  BY <1>1, EndInvariant, PTL

-----------------------------------------------------------------------------
(* The table *)

\* The table is finite, and no agent is over its limit.
TableInv == /\ IsFiniteSet(sessions)
            /\ \A a \in Agents : Cardinality(Active(a)) <= MaxSessions

\* A step that starts nothing makes nobody's processes more.
LEMMA TableShrinks ==
    ASSUME TableInv, sessions' \subseteq sessions,
           \A p \in sessions' : Running(p)' => Running(p) /\ entry'[p].agent = entry[p].agent
    PROVE  TableInv'
<1>1. IsFiniteSet(sessions')
  BY FS_Subset DEF TableInv
<1>2. ASSUME NEW a \in Agents PROVE Cardinality(Active(a)') <= MaxSessions
  <2>1. Active(a)' \in SUBSET Active(a) /\ Active(a) \in SUBSET sessions
    BY DEF Active
  <2>2. IsFiniteSet(Active(a)) /\ IsFiniteSet(Active(a)')
    BY <2>1, FS_Subset DEF TableInv
  <2>3. Cardinality(Active(a)') <= Cardinality(Active(a))
    BY <2>1, <2>2, FS_Subset
  <2>4. Cardinality(Active(a)) \in Nat /\ Cardinality(Active(a)') \in Nat /\ MaxSessions \in Nat
    BY <2>2, FS_CardinalityType, ProcessBounds
  <2>5. Cardinality(Active(a)) <= MaxSessions
    BY DEF TableInv
  <2> QED
    BY <2>3, <2>4, <2>5
<1> QED
  BY <1>1, <1>2 DEF TableInv

\* The table's invariant holds at the start and is kept by every step.
THEOREM TableInvariant == Spec => []TableInv
<1>1. Init => TableInv
  <2> SUFFICES ASSUME Init PROVE TableInv
    OBVIOUS
  <2>1. sessions = {} /\ \A a \in Agents : Active(a) = {}
    BY DEF Init, Active
  <2> QED
    BY <2>1, FS_EmptySet, ProcessBounds DEF TableInv
<1>2. EndInv /\ TableInv /\ [Next]_vars => TableInv'
  <2> SUFFICES ASSUME EndInv, TableInv, [Next]_vars
               PROVE  TableInv'
    OBVIOUS
  <2>0. ProcTypeOK
    BY DEF EndInv
  <2>1. ASSUME NEW p \in Procs, NEW a \in Agents, Start(p, a) PROVE TableInv'
    <3>1. /\ sessions' = sessions \cup {p}
          /\ \A q \in Procs : q # p => entry'[q] = entry[q]
          /\ entry'[p].agent = a /\ ~Running(p)
          /\ Cardinality(Active(a)) < MaxSessions
      BY <2>0, <2>1 DEF Start, NoEntry, Running, BelowLimit, ProcTypeOK, Entries
    <3>2. IsFiniteSet(sessions')
      BY <3>1, FS_AddElement DEF TableInv
    <3>3. ASSUME NEW b \in Agents PROVE Cardinality(Active(b)') <= MaxSessions
      <4>1. IsFiniteSet(Active(b)) /\ Cardinality(Active(b)) \in Nat
        BY FS_Subset, FS_CardinalityType DEF TableInv, Active
      <4>2. CASE b = a
        <5>1. Active(b)' \subseteq Active(a) \cup {p}
          BY <3>1, <4>2, <2>0 DEF Active, Running, ProcTypeOK
        <5>2. /\ IsFiniteSet(Active(a) \cup {p})
              /\ Cardinality(Active(a) \cup {p}) = IF p \in Active(a) THEN Cardinality(Active(a)) ELSE Cardinality(Active(a)) + 1
          BY <4>1, <4>2, FS_AddElement
        <5>3. Cardinality(Active(b)') <= Cardinality(Active(a) \cup {p}) /\ Cardinality(Active(b)') \in Nat
          BY <5>1, <5>2, FS_Subset, FS_CardinalityType
        <5> QED
          BY <3>1, <4>1, <4>2, <5>2, <5>3, ProcessBounds
      <4>3. CASE b # a
        <5>1. Active(b)' \subseteq Active(b)
          BY <3>1, <4>3, <2>0 DEF Active, Running, ProcTypeOK
        <5>2. Cardinality(Active(b)') <= Cardinality(Active(b)) /\ Cardinality(Active(b)') \in Nat
          BY <4>1, <5>1, FS_Subset, FS_CardinalityType
        <5> QED
          BY <4>1, <5>2, ProcessBounds DEF TableInv
      <4> QED
        BY <4>2, <4>3
    <3> QED
      BY <3>2, <3>3 DEF TableInv
  <2>2. ASSUME NEW p \in Procs, WaitReturns(p) \/ Settle(p) PROVE TableInv'
    <3>0. entry \in [Procs -> Entries]
      BY <2>0 DEF ProcTypeOK
    <3>1. CASE WaitReturns(p)
      <4>1. sessions' = sessions /\ \A q \in Procs : entry'[q].agent = entry[q].agent /\ entry'[q].status = entry[q].status
        BY <3>0, <3>1 DEF WaitReturns, Entries
      <4> QED
        BY <2>0, <4>1, TableShrinks DEF ProcTypeOK, Running
    <3>2. CASE Settle(p)
      <4>1. PICK status \in {"completed", "failed"} :
              entry' = [entry EXCEPT ![p].settled = TRUE, ![p].status = IF Settles(p) THEN status ELSE @]
        BY <3>2 DEF Settle
      <4>2. \A q \in Procs : /\ entry'[q].agent = entry[q].agent
                             /\ entry'[q].status = "running" => entry[q].status = "running"
        BY <3>0, <4>1 DEF Entries
      <4> QED
        BY <2>0, <3>2, <4>2, TableShrinks DEF ProcTypeOK, Running, Settle
    <3> QED
      BY <2>2, <3>1, <3>2
  <2>3. ASSUME NEW q \in Pollers, PollEnd(q) PROVE TableInv'
    <3>1. sessions' = sessions /\ \A r \in Procs : /\ entry'[r].agent = entry[r].agent
                                                   /\ Running(r)' => Running(r)
      BY <2>0, <2>3 DEF PollEnd, Running, ProcTypeOK, Entries
    <3> QED
      BY <2>0, <3>1, TableShrinks DEF ProcTypeOK
  <2>4. ASSUME NEW k \in Killers, NEW p, MarkKilled(k, p, "kill") \/ MarkKilled(k, p, "remove"),
               sessions' = sessions
        PROVE TableInv'
    <3>1. \A r \in Procs : /\ entry'[r].agent = entry[r].agent
                           /\ Running(r)' => Running(r)
      <4>1. entry' = [entry EXCEPT ![p].status = "killed"] /\ entry \in [Procs -> Entries] /\ p \in Procs
        BY <2>0, <2>4 DEF MarkKilled, ProcTypeOK
      <4> QED
        BY <4>1 DEF Running, Entries
    <3> QED
      BY <2>0, <2>4, <3>1, TableShrinks DEF ProcTypeOK
  <2>5. ASSUME NEW k \in Killers, Stop(k) PROVE TableInv'
    <3>1. sessions' = sessions /\ \A r \in Procs : /\ entry'[r].agent = entry[r].agent
                                                   /\ Running(r)' => Running(r)
      BY <2>0, <2>5 DEF Stop, Running, ProcTypeOK, Entries
    <3> QED
      BY <2>0, <3>1, TableShrinks DEF ProcTypeOK
  <2>6. CASE sessions' \subseteq sessions /\ UNCHANGED entry
    BY <2>6, TableShrinks DEF Running
  <2>7. ASSUME NEW k \in load.killers, KillStep(k) PROVE TableInv'
    <3>1. k \in Killers
      BY <2>0 DEF ProcTypeOK
    <3> QED
      BY <2>7, <3>1, <2>4, <2>6 DEF KillStep, RemoveKill, Cancel, Killed, StopNext
  <2>8. ASSUME NEW k \in load.killers, Stop(k) \/ \E p \in Procs : Kill(k, p) \/ RemoveRunning(k, p)
        PROVE  TableInv'
    <3>1. k \in Killers
      BY <2>0 DEF ProcTypeOK
    <3> QED
      BY <2>8, <3>1, <2>4, <2>5, <2>6 DEF Kill, RemoveRunning
  <2>9. CASE UNCHANGED vars
    BY <2>6, <2>9 DEF vars
  <2> QED
    BY <2>1, <2>2, <2>3, <2>6, <2>7, <2>8, <2>9
    DEF Next, PollStep, Exit, Release, RemoveFinished, Output, PollRead,
       PollTotal, PollBegin, Clear, cleanupExpired
<1> QED
  BY <1>1, <1>2, EndInvariant, PTL DEF Spec

\* NoProcessEscapes, for any number of processes, agents and killers, and any limit.
THEOREM NoProcessEscapesHolds == Spec => []NoProcessEscapes
<1>1. EndInv /\ TableInv => NoProcessEscapes
  <2> SUFFICES ASSUME EndInv, TableInv, NEW p \in Procs, os[p].alive
               PROVE  \/ p \in sessions /\ Running(p)
                      \/ os[p].signalled
                      \/ \E k \in Killers : p \in kill[k].left \/ (kill[k].proc = p /\ kill[k].pc = "cancel")
    BY DEF NoProcessEscapes, TableInv
  <2>1. entry[p].status \in {"none", "running", "completed", "failed", "killed"}
    BY DEF EndInv, ProcTypeOK, Entries
  <2>2. entry[p].status \in {"running", "killed"} /\ (Running(p) => p \in sessions)
    BY <2>1 DEF EndInv, LifeIsTrue
  <2> QED
    BY <2>2 DEF EndInv, OwnersEnd, Dooms, Running
<1> QED
  BY <1>1, EndInvariant, TableInvariant, PTL

-----------------------------------------------------------------------------
(* Polls *)

Increasing(s) == \A i, j \in 1 .. Len(s) : i < j => s[i] < s[j]
AtMost(s, n)  == \A i \in 1 .. Len(s) : s[i] <= n
Above(s, n)   == \A i \in 1 .. Len(s) : n < s[i]

\* Bytes above all that were returned before continue them.
LEMMA OutputContinues ==
    ASSUME NEW s \in Seq(Nat), NEW t \in Seq(Nat), NEW m \in Nat, NEW n \in Nat, m <= n,
           Increasing(s), AtMost(s, m), Increasing(t), Above(t, m), AtMost(t, n)
    PROVE  s \o t \in Seq(Nat) /\ Increasing(s \o t) /\ AtMost(s \o t, n)
<1> DEFINE u == s \o t
           k == Len(s)
           l == Len(t)
<1>1. /\ u \in Seq(Nat) /\ Len(u) = k + l /\ k \in Nat /\ l \in Nat
      /\ \A i \in 1 .. k + l : u[i] = IF i <= k THEN s[i] ELSE t[i - k]
  BY ConcatProperties, LenProperties
<1>2. (\A i \in 1 .. k : s[i] \in Nat) /\ (\A i \in 1 .. l : t[i] \in Nat)
  BY ElementOfSeq
<1>3. /\ \A i \in 1 .. k : s[i] <= m
      /\ \A i \in 1 .. l : m < t[i] /\ t[i] <= n
      /\ \A i, j \in 1 .. k : i < j => s[i] < s[j]
      /\ \A i, j \in 1 .. l : i < j => t[i] < t[j]
  BY DEF Increasing, AtMost, Above
<1> HIDE DEF u, k, l
<1>4. \A i \in 1 .. k + l : u[i] <= n
  <2> SUFFICES ASSUME NEW i \in 1 .. k + l PROVE u[i] <= n
    OBVIOUS
  <2>1. CASE i <= k
    <3>1. i \in 1 .. k /\ u[i] = s[i]
      BY <1>1, <2>1
    <3>2. s[i] \in Nat /\ s[i] <= m
      BY <1>2, <1>3, <3>1
    <3> QED
      BY <3>1, <3>2
  <2>2. CASE i > k
    <3>1. i - k \in 1 .. l /\ u[i] = t[i - k]
      BY <1>1, <2>2
    <3> QED
      BY <1>3, <3>1
  <2> QED
    BY <1>1, <2>1, <2>2
<1>5. \A i, j \in 1 .. k + l : i < j => u[i] < u[j]
  <2> SUFFICES ASSUME NEW i \in 1 .. k + l, NEW j \in 1 .. k + l, i < j PROVE u[i] < u[j]
    OBVIOUS
  <2>1. CASE j <= k
    <3>1. i \in 1 .. k /\ j \in 1 .. k /\ u[i] = s[i] /\ u[j] = s[j]
      BY <1>1, <2>1, SMTT(30)
    <3> QED
      BY <1>3, <3>1
  <2>2. CASE i <= k /\ j > k
    <3>1. j - k \in 1 .. l /\ u[j] = t[j - k] /\ i \in 1 .. k /\ u[i] = s[i]
      BY <1>1, <2>2
    <3>2. s[i] \in Nat /\ t[j - k] \in Nat /\ s[i] <= m /\ m < t[j - k]
      BY <1>2, <1>3, <3>1
    <3> QED
      BY <3>1, <3>2
  <2>3. CASE i > k
    <3>1. i - k \in 1 .. l /\ j - k \in 1 .. l /\ i - k < j - k /\ u[i] = t[i - k] /\ u[j] = t[j - k]
      BY <1>1, <2>3
    <3> QED
      BY <1>3, <3>1
  <2> QED
    BY <1>1, <2>1, <2>2, <2>3
<1> QED
  BY <1>1, <1>4, <1>5 DEF u, Increasing, AtMost

\* There is one poller.
Alone == \A q, r \in Pollers : q = r

\* What polls have returned goes up to the index of the process, and what a poll holds
\* goes on behind it.
DeliveredIsPast ==
    \A p \in Procs : /\ Increasing(delivered[p]) /\ AtMost(delivered[p], entry[p].index)
                     /\ entry[p].index <= buf[p].written
PollIsNext ==
    \A q \in Pollers : LET p == poll[q].proc IN
        /\ poll[q].pc # "idle" => poll[q].prev = entry[p].index
        /\ poll[q].pc \in {"total", "end"} => Increasing(poll[q].out) /\ Above(poll[q].out, poll[q].prev)
        /\ poll[q].pc = "total" => AtMost(poll[q].out, buf[p].written)
        /\ poll[q].pc = "end" => /\ AtMost(poll[q].out, poll[q].next)
                                 /\ poll[q].prev <= poll[q].next /\ poll[q].next <= buf[p].written

PollInv == /\ delivered \in [Procs -> Seq(Nat)]
           /\ Alone => DeliveredIsPast /\ PollIsNext

\* A larger bound bounds as well.
LEMMA AtMostMore ==
    ASSUME NEW s \in Seq(Nat), NEW m \in Nat, NEW n \in Nat, m <= n, AtMost(s, m)
    PROVE  AtMost(s, n)
<1> SUFFICES ASSUME NEW i \in 1 .. Len(s) PROVE s[i] <= n
  BY DEF AtMost
<1>1. s[i] \in Nat /\ s[i] <= m
  BY ElementOfSeq DEF AtMost
<1> QED
  BY <1>1

\* Steps that are not of a poll keep what polls hold: output only adds to the buffer.
LEMMA PollFrame ==
    ASSUME BufferInv, BufferInv', ProcTypeOK, PollInv, UNCHANGED <<delivered, poll>>,
           \A p \in Procs : entry'[p].index = entry[p].index /\ buf[p].written <= buf'[p].written
    PROVE  PollInv'
<1>1. \A p \in Procs : buf[p].written \in Nat /\ buf'[p].written \in Nat /\ entry[p].index \in Nat
  BY DEF BufferInv, Buffers, ProcTypeOK, Entries
<1>2. SUFFICES ASSUME Alone PROVE DeliveredIsPast' /\ PollIsNext'
  BY DEF PollInv
<1>3. DeliveredIsPast'
  BY <1>1, <1>2 DEF PollInv, DeliveredIsPast
<1>4. ASSUME NEW q \in Pollers, poll[q].pc # "idle"
      PROVE  LET p == poll[q].proc IN
             /\ poll[q].prev = entry'[p].index
             /\ poll[q].pc \in {"total", "end"} => Increasing(poll[q].out) /\ Above(poll[q].out, poll[q].prev)
             /\ poll[q].pc = "total" => AtMost(poll[q].out, buf'[p].written)
             /\ poll[q].pc = "end" => /\ AtMost(poll[q].out, poll[q].next)
                                      /\ poll[q].prev <= poll[q].next /\ poll[q].next <= buf'[p].written
  <2> DEFINE p == poll[q].proc
  <2>1. p \in Procs /\ poll[q].out \in Seq(Nat) /\ poll[q].next \in Nat
    BY <1>4 DEF ProcTypeOK, Polls
  <2>2. /\ poll[q].prev = entry[p].index
        /\ poll[q].pc \in {"total", "end"} => Increasing(poll[q].out) /\ Above(poll[q].out, poll[q].prev)
        /\ poll[q].pc = "total" => AtMost(poll[q].out, buf[p].written)
        /\ poll[q].pc = "end" => /\ AtMost(poll[q].out, poll[q].next)
                                 /\ poll[q].prev <= poll[q].next /\ poll[q].next <= buf[p].written
    BY <1>2, <1>4 DEF PollInv, PollIsNext
  <2>3. poll[q].pc = "total" => AtMost(poll[q].out, buf'[p].written)
    BY <1>1, <2>1, <2>2, AtMostMore
  <2>4. poll[q].pc = "end" => poll[q].next <= buf'[p].written
    BY <1>1, <2>1, <2>2
  <2> QED
    BY <2>1, <2>2, <2>3, <2>4
<1>5. PollIsNext'
  BY <1>4 DEF PollIsNext
<1> QED
  BY <1>3, <1>5

\* The invariant of the polls holds at the start and is kept by every step.
THEOREM PollInvariant == Spec => []PollInv
<1>1. Init => PollInv
  <2> SUFFICES ASSUME Init PROVE PollInv
    OBVIOUS
  <2>1. /\ delivered = [p \in Procs |-> <<>>] /\ \A p \in Procs : entry[p].index = 0 /\ buf[p].written = 0
        /\ \A q \in Pollers : poll[q].pc = "idle"
    BY DEF Init, NoEntry, newRingBuffer, Quiet
  <2>2. delivered \in [Procs -> Seq(Nat)] /\ \A p \in Procs : Len(delivered[p]) = 0
    BY <2>1
  <2>3. DeliveredIsPast
    BY <2>1, <2>2 DEF DeliveredIsPast, Increasing, AtMost
  <2>4. PollIsNext
    BY <2>1 DEF PollIsNext
  <2> QED
    BY <2>2, <2>3, <2>4 DEF PollInv
<1>2. BufferInv /\ BufferInv' /\ EndInv /\ PollInv /\ [Next]_vars => PollInv'
  <2> SUFFICES ASSUME BufferInv, BufferInv', EndInv, PollInv, [Next]_vars
               PROVE  PollInv'
    OBVIOUS
  <2>0. /\ ProcTypeOK /\ entry \in [Procs -> Entries] /\ poll \in [Pollers -> Polls]
        /\ \A p \in Procs : buf[p].written \in Nat /\ entry[p].index \in Nat
        /\ \A q \in Pollers : poll[q].pc # "idle" => poll[q].proc \in Procs
    BY DEF EndInv, ProcTypeOK, BufferInv, Buffers, Entries
  <2>1. ASSUME NEW q \in Pollers, NEW p \in Procs, PollBegin(q, p) PROVE PollInv'
    <3>1. /\ UNCHANGED <<delivered, entry, buf>> /\ \A r \in Pollers : r # q => poll'[r] = poll[r]
          /\ poll'[q].pc = "read" /\ poll'[q].proc = p /\ poll'[q].prev = entry[p].index
      BY <2>0, <2>1 DEF PollBegin, Quiet
    <3>2. Alone => DeliveredIsPast' /\ PollIsNext'
      BY <3>1 DEF PollInv, DeliveredIsPast, PollIsNext, Alone
    <3> QED
      BY <3>1, <3>2 DEF PollInv
  <2>2. ASSUME NEW q \in Pollers, PollRead(q) PROVE PollInv'
    <3> DEFINE p   == poll[q].proc
               out == ReadFrom(buf[p], poll[q].prev)
    <3>1. p \in Procs /\ poll[q].prev \in Nat
      BY <2>0, <2>2 DEF PollRead, Polls
    <3>2. Increasing(out) /\ Above(out, poll[q].prev) /\ AtMost(out, buf[p].written)
      BY <3>1, ReadIsNewer DEF BufferInv, Increasing, Above, AtMost
    <3> HIDE DEF out
    <3>3. /\ UNCHANGED <<delivered, entry, buf>> /\ \A r \in Pollers : r # q => poll'[r] = poll[r]
          /\ poll'[q].pc = "total" /\ poll'[q].proc = p /\ poll'[q].prev = poll[q].prev /\ poll'[q].out = out
      BY <2>0, <2>2 DEF PollRead, Polls, out
    <3>4. Alone => poll[q].prev = entry[p].index
      BY <2>2 DEF PollInv, PollIsNext, PollRead
    <3>5. Alone => DeliveredIsPast' /\ PollIsNext'
      BY <3>2, <3>3, <3>4 DEF PollInv, DeliveredIsPast, PollIsNext, Alone
    <3> QED
      BY <3>3, <3>5 DEF PollInv
  <2>3. ASSUME NEW q \in Pollers, PollTotal(q) PROVE PollInv'
    <3> DEFINE p == poll[q].proc
    <3>1. p \in Procs
      BY <2>0, <2>3 DEF PollTotal
    <3>2. /\ UNCHANGED <<delivered, entry, buf>> /\ \A r \in Pollers : r # q => poll'[r] = poll[r]
          /\ poll'[q].pc = "end" /\ poll'[q].proc = p /\ poll'[q].prev = poll[q].prev /\ poll'[q].out = poll[q].out
          /\ poll'[q].next = buf[p].written
      BY <2>0, <2>3 DEF PollTotal, Polls
    <3>3. Alone => /\ poll[q].prev = entry[p].index /\ entry[p].index <= buf[p].written
                   /\ Increasing(poll[q].out) /\ Above(poll[q].out, poll[q].prev) /\ AtMost(poll[q].out, buf[p].written)
      BY <2>3, <3>1 DEF PollInv, PollIsNext, PollTotal, DeliveredIsPast
    <3>4. buf[p].written <= buf[p].written
      BY <2>0, <3>1
    <3>5. Alone => DeliveredIsPast' /\ PollIsNext'
      BY <3>2, <3>3, <3>4 DEF PollInv, DeliveredIsPast, PollIsNext, Alone
    <3> QED
      BY <3>2, <3>5 DEF PollInv
  <2>4. ASSUME NEW q \in Pollers, PollEnd(q) PROVE PollInv'
    <3> DEFINE p    == poll[q].proc
               out  == poll[q].out
               next == poll[q].next
    <3>1. p \in Procs /\ out \in Seq(Nat) /\ next \in Nat
      BY <2>0, <2>4 DEF PollEnd, Polls
    <3>2. /\ \A o \in Procs : o # p => entry'[o] = entry[o] /\ delivered'[o] = delivered[o]
          /\ entry'[p].index = next /\ delivered'[p] = delivered[p] \o out
          /\ delivered' = [delivered EXCEPT ![p] = delivered[p] \o out]
          /\ poll'[q].pc = "idle" /\ UNCHANGED buf
      BY <2>0, <2>4, <3>1 DEF PollEnd, PollIndex, Polls, Entries, Quiet, PollInv
    <3>3. delivered'[p] \in Seq(Nat)
      BY <3>1, <3>2, ConcatProperties DEF PollInv
    <3>4. delivered' \in [Procs -> Seq(Nat)]
      BY <3>2, <3>3 DEF PollInv
    <3>5. ASSUME Alone PROVE DeliveredIsPast' /\ PollIsNext'
      <4>1. /\ Increasing(delivered[p]) /\ AtMost(delivered[p], entry[p].index)
            /\ Increasing(out) /\ Above(out, entry[p].index) /\ AtMost(out, next)
            /\ entry[p].index <= next /\ next <= buf[p].written
        BY <2>4, <3>1, <3>5 DEF PollInv, DeliveredIsPast, PollIsNext, PollEnd
      <4>2. Increasing(delivered'[p]) /\ AtMost(delivered'[p], next)
        BY <2>0, <3>1, <3>2, <4>1, OutputContinues DEF PollInv
      <4>3. DeliveredIsPast'
        BY <3>2, <3>5, <4>1, <4>2 DEF PollInv, DeliveredIsPast
      <4>4. PollIsNext'
        BY <3>2, <3>5 DEF PollIsNext, Alone
      <4> QED
        BY <4>3, <4>4
    <3> QED
      BY <3>4, <3>5 DEF PollInv, Alone
  <2>5. ASSUME NEW p \in Procs, NEW n \in Chunks, Output(p, n) PROVE PollInv'
    <3>1. buf' = [buf EXCEPT ![p] = Write(buf[p], n)] /\ n \in Nat /\ UNCHANGED <<entry, poll, delivered>>
      BY <2>5, ProcessBounds DEF Output
    <3>2. Write(buf[p], n).written = buf[p].written + n
      BY <3>1, WriteKeepsNewest DEF BufferInv
    <3>3. \A o \in Procs : buf[o].written <= buf'[o].written
      BY <2>0, <3>1, <3>2 DEF BufferInv
    <3> QED
      BY <2>0, <3>1, <3>3, PollFrame
  <2>6. ASSUME UNCHANGED <<buf, poll, delivered>>, \A p \in Procs : entry'[p].index = entry[p].index PROVE PollInv'
    BY <2>0, <2>6, PollFrame
  <2>7. ASSUME NEW p \in Procs, NEW a \in Agents, Start(p, a) PROVE PollInv'
    BY <2>0, <2>6, <2>7 DEF Start, NoEntry
  <2>8. ASSUME NEW p \in Procs, WaitReturns(p) PROVE PollInv'
    BY <2>0, <2>6, <2>8 DEF WaitReturns, Entries
  <2>9. ASSUME NEW p \in Procs, Settle(p) PROVE PollInv'
    BY <2>0, <2>6, <2>9 DEF Settle, Entries
  <2>10. ASSUME NEW k \in load.killers, NEW p, MarkKilled(k, p, "kill") \/ MarkKilled(k, p, "remove"),
                UNCHANGED <<buf, poll, delivered>>
         PROVE  PollInv'
    <3>1. entry' = [entry EXCEPT ![p].status = "killed"]
      BY <2>10 DEF MarkKilled
    <3>2. \A o \in Procs : entry'[o].index = entry[o].index
      BY <2>0, <3>1 DEF Entries
    <3> QED
      BY <2>6, <2>10, <3>2
  <2>11. ASSUME NEW k \in load.killers, Stop(k) PROVE PollInv'
    <3>1. \A o \in Procs : entry'[o].index = entry[o].index
      BY <2>0, <2>11 DEF Stop, Entries
    <3> QED
      BY <2>6, <2>11, <3>1 DEF Stop
  <2>12. CASE UNCHANGED <<entry, buf, poll, delivered>>
    BY <2>6, <2>12
  <2>13. ASSUME NEW k \in load.killers, KillStep(k) \/ \E p \in Procs : Kill(k, p) \/ RemoveRunning(k, p)
         PROVE  PollInv'
    BY <2>10, <2>12, <2>13 DEF KillStep, RemoveKill, Cancel, Killed, StopNext, Kill, RemoveRunning
  <2>14. CASE UNCHANGED vars
    BY <2>12, <2>14 DEF vars
  <2> QED
    BY <2>1, <2>2, <2>3, <2>4, <2>5, <2>7, <2>8, <2>9, <2>11, <2>12, <2>13, <2>14
    DEF Next, PollStep, Exit, Release,
       RemoveFinished, Clear, cleanupExpired
<1> QED
  BY <1>1, <1>2, BufferInvariant, EndInvariant, PTL DEF Spec

\* OutputIsTrue, for any capacity and any sizes of writes: the buffer holds the newest
\* bytes, and polls made one after the other return no byte twice and all in order.
THEOREM OutputIsTrueHolds == Spec => []OutputIsTrue
<1>1. BufferInv => BufferIsNewest
  BY DEF BufferInv, HoldsNewest, BufferIsNewest
<1>2. Cardinality(Pollers) = 1 => Alone
  BY FS_Singleton, ProcessBounds DEF Alone
<1>3. PollInv => PollsDoNotRepeat
  <2> SUFFICES ASSUME PollInv, Alone, NEW p \in Procs, NEW i \in DOMAIN delivered[p],
                      NEW j \in DOMAIN delivered[p], i < j
               PROVE  delivered[p][i] < delivered[p][j]
    BY <1>2 DEF PollsDoNotRepeat
  <2>1. DOMAIN delivered[p] = 1 .. Len(delivered[p])
    BY LenProperties DEF PollInv
  <2> QED
    BY <2>1 DEF PollInv, DeliveredIsPast, Increasing
<1> QED
  BY <1>1, <1>3, BufferInvariant, PollInvariant, PTL DEF OutputIsTrue
=============================================================================
