---------------------------- MODULE RecordsProofs ----------------------------
(***************************************************************************)
(* Proofs about what the program keeps for its users: the notes and        *)
(* canvases, which are files without a lock; long-term memory, whose files *)
(* or rows and index change one after the other; and the transcript of a   *)
(* session, which the turns extend and compress.                           *)
(***************************************************************************)
EXTENDS Documents, Memory, AgentTurn, FiniteSetTheorems, SequenceTheorems, TLAPS

-----------------------------------------------------------------------------
(* Notes and canvases *)

Texts   == Absent \cup {"empty"} \cup {p.content : p \in DocInputs}
Reports == Texts \cup {"none", "refused", "exists", "not found", "limit reached", "listed", "not listed", "failed", "done"}
DocPcs  == {"limit", "stat", "look", "mkdir", "open", "write", "remove", "return"}
DocJobs == [pc : DocPcs, p : DocInputs, report : Reports, before : Texts, met : BOOLEAN]

\* What a call may be doing at each of its steps.
Suits(call) ==
    /\ call.pc \in {"limit", "mkdir"} => call.p.op = "create" /\ call.p.doc.kind = "canvas"
    /\ call.pc = "stat" => Writes(call.p.op)
    /\ call.pc \in {"open", "write"} => call.p.op \in {"create", "update"}
    /\ call.pc = "remove" => call.p.op = "delete"
    /\ call.pc = "look" => ~Writes(call.p.op)

DocTypeOK ==
    /\ docDisk \in [Docs -> Texts]
    /\ DOMAIN docCall = DocCallers
    /\ \A c \in DocCallers : docCall[c] = DocIdle \/ (docCall[c] \in DocJobs /\ Suits(docCall[c]))
    /\ crowded \in BOOLEAN
    /\ halfMade \subseteq Docs

\* What the report of a call says that had the document to itself; was is what it found.
Told(call, now) ==
    LET was == call.before IN
    CASE call.report \in {"refused", "exists", "not found", "limit reached", "listed", "not listed"} -> now = was
      [] call.report = "failed" -> now \in {was, "empty", "dir"}
      [] call.report = "done" ->
            CASE call.p.op = "create" -> was = "none" /\ now = call.p.content
              [] call.p.op = "update" -> was # "none" /\ now = call.p.content
              [] call.p.op = "delete" -> was # "none" /\ now = "none"
              [] OTHER -> now = was
      [] OTHER -> now = was /\ call.report = was

\* How far such a call has come with its document.
Came(call, now) ==
    LET was == call.before IN
    /\ call.pc \in {"limit", "stat", "look"} => now = was
    /\ call.pc = "mkdir" => now = "none" /\ was = "none"
    /\ call.pc = "open" =>
          IF call.p.op = "create" THEN was = "none" /\ now = (IF call.p.doc.kind = "note" THEN "none" ELSE "dir")
          ELSE now = was /\ was # "none"
    /\ call.pc = "write" => now = "empty" /\ (call.p.op = "create" <=> was = "none")
    /\ call.pc = "remove" => now = was /\ was # "none"
    /\ call.pc = "return" => Told(call, now)

Active(c) == docCall[c].pc # "idle"

\* A call that met no other is alone with its document, and it is as the call left it.
AloneIsTrue ==
    \A c \in DocCallers : Active(c) /\ ~docCall[c].met =>
        /\ Came(docCall[c], docDisk[docCall[c].p.doc])
        /\ \A k \in DocCallers : k # c /\ Active(k) => docCall[k].p.doc # docCall[c].p.doc

\* A creation of a canvas; one that passed the limit holds a place for it.
Creates(call) == call.pc # "idle" /\ call.p.op = "create" /\ call.p.doc.kind = "canvas"
Holds(call)   == Creates(call) /\ call.pc \in {"stat", "mkdir", "open", "write"}
Held(calls)   == {d \in Docs : \E c \in DocCallers : Holds(calls[c]) /\ calls[c].p.doc = d}

\* The canvases that count: those that are there and were not left half made, and those
\* that are about to be.
Shown(disk)  == {d \in Docs : d.kind = "canvas" /\ disk[d] \notin Absent}
Counted(disk, half, calls) == (Shown(disk) \ half) \cup Held(calls)

OneCreates ==
    ~crowded => \A c, k \in DocCallers : Creates(docCall[c]) /\ Creates(docCall[k]) => c = k
DirsAreMade ==
    ~crowded => \A d \in Docs : d.kind = "canvas" /\ docDisk[d] = "dir" =>
        d \in halfMade \/ \E c \in DocCallers : Holds(docCall[c]) /\ docCall[c].pc = "open" /\ docCall[c].p.doc = d
CanvasesAreFew == ~crowded => Cardinality(Counted(docDisk, halfMade, docCall)) <= maxCanvasesPerSession

DocsInv == DocTypeOK /\ AloneIsTrue /\ OneCreates /\ DirsAreMade /\ CanvasesAreFew

\* One step of a call, from a to b, that finds x on the disk and leaves y there.
Ends(b, report) == b.pc = "return" /\ b.report = report
DocSteps(a, b, x, y) ==
    \/ a.pc = "limit" /\ y = x /\ (Ends(b, "limit reached") \/ b.pc = "stat")
    \/ /\ a.pc = "stat" /\ y = x
       /\ IF a.p.op = "create"
          THEN IF x # "none" THEN Ends(b, "exists") ELSE b.pc = IF a.p.doc.kind = "note" THEN "open" ELSE "mkdir"
          ELSE IF x = "none" THEN Ends(b, "not found") ELSE b.pc = IF a.p.op = "update" THEN "open" ELSE "remove"
    \/ a.pc = "mkdir" /\ y = (IF x = "none" THEN "dir" ELSE x) /\ b.pc = "open"
    \/ /\ a.pc = "open"
       /\ \/ a.p.doc.kind = "canvas" /\ x = "none" /\ y = x /\ Ends(b, "failed")
          \/ ~(a.p.doc.kind = "canvas" /\ x = "none") /\ y = "empty" /\ b.pc = "write"
          \/ y = x /\ Ends(b, "failed")
    \/ /\ a.pc = "write"
       /\ \/ y = (IF x \notin Absent THEN a.p.content ELSE x) /\ Ends(b, "done")
          \/ y = x /\ Ends(b, "failed")
    \/ a.pc = "remove" /\ y = "none" /\ Ends(b, IF a.p.doc.kind = "note" /\ x = "none" THEN "failed" ELSE "done")
    \/ a.pc = "look" /\ y = x /\ b.pc = "return" /\ b.report \in {"listed", "not listed", "done", "not found", x}

\* A call goes on: it keeps its parameters.
Follows(c) ==
    LET a == docCall[c]
        b == docCall'[c] IN
    /\ a \in DocJobs /\ Suits(a) /\ a.p.doc \in Docs /\ a.p.content \in Texts
    /\ b \in DocJobs /\ b.p = a.p /\ b.before = a.before /\ b.met = a.met
    /\ DOMAIN docCall' = DocCallers /\ \A k \in DocCallers : k # c => docCall'[k] = docCall[k]

DocWorks(c) ==
    LET a == docCall[c]
        b == docCall'[c]
        d == a.p.doc IN
    /\ Follows(c) /\ DocSteps(a, b, docDisk[d], docDisk'[d])
    /\ docDisk' \in [Docs -> Texts] /\ \A e \in Docs : e # d => docDisk'[e] = docDisk[e]
    /\ b.pc # "return" \/ a.pc \notin {"open", "remove"} => halfMade' = halfMade
    /\ a.pc = "open" /\ b.pc = "return" => halfMade' = IF docDisk[d] = "dir" THEN halfMade \cup {d} ELSE halfMade
    /\ a.pc = "remove" => halfMade' = halfMade \ {d}
    /\ a.pc = "limit" /\ b.pc = "stat" => Cardinality(Shown(docDisk)) < maxCanvasesPerSession
    /\ crowded' = crowded

-----------------------------------------------------------------------------

\* A call in progress is typed, and its document is one of the names.
LEMMA JobIs ==
    ASSUME DocTypeOK, NEW c \in DocCallers, Active(c)
    PROVE  LET a == docCall[c]
           IN  a \in DocJobs /\ Suits(a) /\ a.p \in DocInputs /\ a.p.doc \in Docs /\ a.p.content \in Texts
<1>1. docCall[c] \in DocJobs /\ Suits(docCall[c])
  BY DEF DocTypeOK, Active, DocIdle
<1>2. docCall[c].p \in DocInputs
  BY <1>1 DEF DocJobs
<1> QED
  BY <1>1, <1>2, DocConstants DEF Texts

\* A call goes on to its next step.
LEMMA GoDoes ==
    ASSUME DocTypeOK, NEW c \in DocCallers, Active(c), NEW pc \in DocPcs, DocGo(c, pc)
    PROVE  Follows(c) /\ docCall'[c].pc = pc
<1> DEFINE a == docCall[c]
           b == [a EXCEPT !.pc = pc]
<1>1. a \in DocJobs /\ Suits(a) /\ a.p.doc \in Docs /\ a.p.content \in Texts
  BY JobIs
<1>2. b \in DocJobs /\ b.pc = pc /\ b.p = a.p /\ b.before = a.before /\ b.met = a.met
  BY <1>1 DEF DocJobs
<1>3. docCall' = [docCall EXCEPT ![c] = b] /\ DOMAIN docCall = DocCallers
  BY DEF DocGo, DocTypeOK
<1> HIDE DEF b
<1>4. /\ docCall'[c] = b /\ DOMAIN docCall' = DocCallers
      /\ \A k \in DocCallers : k # c => docCall'[k] = docCall[k]
  BY <1>3
<1> QED
  BY <1>1, <1>2, <1>4 DEF Follows

\* A call ends with its report.
LEMMA ReportsDoes ==
    ASSUME DocTypeOK, NEW c \in DocCallers, Active(c), NEW report \in Reports, DocReports(c, report)
    PROVE  Follows(c) /\ Ends(docCall'[c], report)
<1> DEFINE a == docCall[c]
           b == [a EXCEPT !.pc = "return", !.report = report]
<1>1. a \in DocJobs /\ Suits(a) /\ a.p.doc \in Docs /\ a.p.content \in Texts
  BY JobIs
<1>2. /\ b \in DocJobs /\ b.pc = "return" /\ b.report = report
      /\ b.p = a.p /\ b.before = a.before /\ b.met = a.met
  BY <1>1 DEF DocJobs, DocPcs
<1>3. docCall' = [docCall EXCEPT ![c] = b] /\ DOMAIN docCall = DocCallers
  BY DEF DocReports, DocTypeOK
<1> HIDE DEF b
<1>4. /\ docCall'[c] = b /\ DOMAIN docCall' = DocCallers
      /\ \A k \in DocCallers : k # c => docCall'[k] = docCall[k]
  BY <1>3
<1> QED
  BY <1>1, <1>2, <1>4 DEF Follows, Ends

\* Create of a canvas counts the canvases of the session.
LEMMA LimitWorks == ASSUME DocTypeOK, NEW c \in DocCallers, CanvasLimit(c) PROVE DocWorks(c)
<1>1. /\ Active(c) /\ docCall[c].pc = "limit" /\ docDisk' = docDisk /\ halfMade' = halfMade /\ crowded' = crowded
      /\ docDisk \in [Docs -> Texts]
  BY DEF CanvasLimit, DocAt, Active, DocTypeOK
<1>2. Shown(docDisk) = listCanvases
  BY DEF Shown, listCanvases
<1>3. \/ DocGo(c, "stat") /\ ~(Cardinality(Shown(docDisk)) >= maxCanvasesPerSession)
      \/ DocReports(c, "limit reached")
  BY <1>2 DEF CanvasLimit
<1>4. "stat" \in DocPcs /\ "limit reached" \in Reports
  BY DEF DocPcs, Reports
<1>5. Cardinality(Shown(docDisk)) \in Nat /\ maxCanvasesPerSession \in Nat
  BY DocConstants, FS_Subset, FS_CardinalityType DEF Shown
<1>6. CASE DocGo(c, "stat") /\ ~(Cardinality(Shown(docDisk)) >= maxCanvasesPerSession)
  <2>1. Follows(c) /\ docCall'[c].pc = "stat"
    BY <1>1, <1>4, <1>6, GoDoes
  <2> QED
    BY <1>1, <1>5, <1>6, <2>1 DEF DocWorks, DocSteps
<1>7. CASE DocReports(c, "limit reached")
  <2>1. Follows(c) /\ Ends(docCall'[c], "limit reached")
    BY <1>1, <1>4, <1>7, ReportsDoes
  <2> QED
    BY <1>1, <2>1 DEF DocWorks, DocSteps, Ends
<1> QED
  BY <1>3, <1>6, <1>7

\* A write looks whether the document is there.
LEMMA StatWorks == ASSUME DocTypeOK, NEW c \in DocCallers, StatDoc(c) PROVE DocWorks(c)
<1> DEFINE a    == docCall[c]
           d    == a.p.doc
           next == DocBackend(a.p)
<1>1. /\ Active(c) /\ a.pc = "stat" /\ docDisk' = docDisk /\ halfMade' = halfMade /\ crowded' = crowded
      /\ docDisk \in [Docs -> Texts]
  BY DEF StatDoc, DocAt, Active, DocTypeOK
<1>2. a \in DocJobs /\ Suits(a) /\ d \in Docs
  BY <1>1, JobIs
<1>3. d.kind \in {"note", "canvas"} /\ a.p.op \in {"create", "update", "delete"}
  BY <1>1, <1>2, DocConstants DEF Suits, Writes
<1>4. next = IF a.p.op = "create"
             THEN IF docDisk[d] # "none" THEN "exists" ELSE IF d.kind = "note" THEN "open" ELSE "mkdir"
             ELSE IF docDisk[d] = "none" THEN "not found" ELSE IF a.p.op = "update" THEN "open" ELSE "remove"
  BY <1>3 DEF DocBackend, createNote, updateNote, deleteNote, createCanvas, updateCanvas, deleteCanvas
<1> HIDE DEF next
<1>5. IF next \in {"open", "mkdir", "remove"} THEN DocGo(c, next) ELSE DocReports(c, next)
  BY DEF StatDoc, next
<1>6. CASE next \in {"open", "mkdir", "remove"}
  <2>1. next \in DocPcs /\ next # "return"
    BY <1>6 DEF DocPcs
  <2>2. Follows(c) /\ docCall'[c].pc = next
    BY <1>1, <1>5, <1>6, <2>1, GoDoes
  <2>3. DocSteps(a, docCall'[c], docDisk[d], docDisk[d])
    BY <1>1, <1>4, <1>6, <2>2 DEF DocSteps
  <2> QED
    BY <1>1, <2>1, <2>2, <2>3 DEF DocWorks
<1>7. CASE next \in {"exists", "not found"}
  <2>1. next \in Reports
    BY <1>7 DEF Reports
  <2>2. Follows(c) /\ Ends(docCall'[c], next)
    BY <1>1, <1>5, <1>7, <2>1, ReportsDoes
  <2>3. DocSteps(a, docCall'[c], docDisk[d], docDisk[d])
    BY <1>1, <1>4, <1>7, <2>2 DEF DocSteps
  <2> QED
    BY <1>1, <2>2, <2>3 DEF DocWorks, Ends
<1> QED
  BY <1>4, <1>6, <1>7

\* Create of a canvas makes its directory.
LEMMA MakeDirWorks == ASSUME DocTypeOK, NEW c \in DocCallers, MakeDir(c) PROVE DocWorks(c)
<1> DEFINE d == docCall[c].p.doc
<1>1. /\ Active(c) /\ docCall[c].pc = "mkdir" /\ halfMade' = halfMade /\ crowded' = crowded /\ DocGo(c, "open")
      /\ docDisk \in [Docs -> Texts]
      /\ docDisk' = [docDisk EXCEPT ![d] = IF docDisk[d] = "none" THEN "dir" ELSE docDisk[d]]
  BY DEF MakeDir, DocAt, Active, DocTypeOK
<1>2. Follows(c) /\ docCall'[c].pc = "open"
  BY <1>1, GoDoes DEF DocPcs
<1>3. "dir" \in Texts /\ d \in Docs
  BY <1>2 DEF Texts, Absent, Follows
<1>4. docDisk' \in [Docs -> Texts] /\ \A e \in Docs : e # d => docDisk'[e] = docDisk[e]
  BY <1>1, <1>3
<1>5. docDisk'[d] = IF docDisk[d] = "none" THEN "dir" ELSE docDisk[d]
  BY <1>1, <1>3
<1> QED
  BY <1>1, <1>2, <1>4, <1>5 DEF DocWorks, DocSteps

\* WriteFile empties the file first.
LEMMA OpenWorks ==
    ASSUME DocTypeOK, NEW c \in DocCallers, OpenDoc(c) \/ OpenFails(c) PROVE DocWorks(c)
<1> DEFINE d == docCall[c].p.doc
<1>1. Active(c) /\ docCall[c].pc = "open" /\ crowded' = crowded /\ docDisk \in [Docs -> Texts]
  BY DEF OpenDoc, OpenFails, DocAt, Active, DocTypeOK
<1>2. "empty" \in Texts /\ "failed" \in Reports /\ "write" \in DocPcs /\ d \in Docs
  BY <1>1, JobIs DEF Texts, Reports, DocPcs
<1>3. CASE OpenDoc(c) /\ d.kind = "canvas" /\ docDisk[d] = "none"
  <2>1. DocReports(c, "failed") /\ docDisk' = docDisk /\ halfMade' = halfMade
    BY <1>3 DEF OpenDoc
  <2>2. Follows(c) /\ Ends(docCall'[c], "failed")
    BY <1>1, <1>2, <2>1, ReportsDoes
  <2> QED
    BY <1>1, <1>3, <2>1, <2>2 DEF DocWorks, DocSteps, Ends
<1>4. CASE OpenDoc(c) /\ ~(d.kind = "canvas" /\ docDisk[d] = "none")
  <2>1. DocGo(c, "write") /\ docDisk' = [docDisk EXCEPT ![d] = "empty"] /\ halfMade' = halfMade
    BY <1>4 DEF OpenDoc
  <2>2. Follows(c) /\ docCall'[c].pc = "write"
    BY <1>1, <1>2, <2>1, GoDoes
  <2>3. /\ docDisk' \in [Docs -> Texts] /\ docDisk'[d] = "empty"
        /\ \A e \in Docs : e # d => docDisk'[e] = docDisk[e]
    BY <1>1, <1>2, <2>1
  <2> QED
    BY <1>1, <1>4, <2>1, <2>2, <2>3 DEF DocWorks, DocSteps
<1>5. CASE OpenFails(c)
  <2>1. /\ DocReports(c, "failed") /\ docDisk' = docDisk
        /\ halfMade' = IF docDisk[d] = "dir" THEN halfMade \cup {d} ELSE halfMade
    BY <1>5 DEF OpenFails
  <2>2. Follows(c) /\ Ends(docCall'[c], "failed")
    BY <1>1, <1>2, <2>1, ReportsDoes
  <2> QED
    BY <1>1, <2>1, <2>2 DEF DocWorks, DocSteps, Ends
<1> QED
  BY <1>3, <1>4, <1>5

\* WriteFile writes the content, or fails.
LEMMA WriteWorks ==
    ASSUME DocTypeOK, NEW c \in DocCallers, NEW ok \in BOOLEAN, WriteDoc(c, ok) PROVE DocWorks(c)
<1> DEFINE a == docCall[c]
           d == a.p.doc
           r == IF ok THEN "done" ELSE "failed"
<1>1. /\ Active(c) /\ a.pc = "write" /\ crowded' = crowded /\ halfMade' = halfMade /\ DocReports(c, r)
      /\ docDisk' = IF ok /\ docDisk[d] \notin Absent THEN [docDisk EXCEPT ![d] = a.p.content] ELSE docDisk
      /\ docDisk \in [Docs -> Texts]
  BY DEF WriteDoc, DocAt, Active, DocTypeOK
<1>2. r \in Reports /\ d \in Docs /\ a.p.content \in Texts
  BY <1>1, JobIs DEF Reports
<1>3. Follows(c) /\ Ends(docCall'[c], r)
  <2> HIDE DEF r
  <2> QED
    BY <1>1, <1>2, ReportsDoes
<1>4. /\ docDisk' \in [Docs -> Texts] /\ \A e \in Docs : e # d => docDisk'[e] = docDisk[e]
      /\ docDisk'[d] = IF ok /\ docDisk[d] \notin Absent THEN a.p.content ELSE docDisk[d]
  BY <1>1, <1>2
<1>5. DocSteps(a, docCall'[c], docDisk[d], docDisk'[d])
  BY <1>1, <1>3, <1>4 DEF DocSteps
<1>6. a.pc \notin {"open", "remove", "limit"} /\ halfMade' = halfMade /\ crowded' = crowded
  BY <1>1
<1> HIDE DEF r
<1> QED
  BY <1>3, <1>4, <1>5, <1>6 DEF DocWorks

\* Delete removes the file or the directory.
LEMMA RemoveWorks == ASSUME DocTypeOK, NEW c \in DocCallers, RemoveDoc(c) PROVE DocWorks(c)
<1> DEFINE a == docCall[c]
           d == a.p.doc
           r == IF d.kind = "note" /\ docDisk[d] = "none" THEN "failed" ELSE "done"
<1>1. /\ Active(c) /\ a.pc = "remove" /\ crowded' = crowded /\ halfMade' = halfMade \ {d} /\ DocReports(c, r)
      /\ docDisk' = [docDisk EXCEPT ![d] = "none"] /\ docDisk \in [Docs -> Texts]
  BY DEF RemoveDoc, DocAt, Active, DocTypeOK
<1>2. r \in Reports /\ d \in Docs /\ "none" \in Texts
  BY <1>1, JobIs DEF Reports, Texts, Absent
<1>3. Follows(c) /\ Ends(docCall'[c], r)
  <2> HIDE DEF r
  <2> QED
    BY <1>1, <1>2, ReportsDoes
<1>4. /\ docDisk' \in [Docs -> Texts] /\ docDisk'[d] = "none"
      /\ \A e \in Docs : e # d => docDisk'[e] = docDisk[e]
  BY <1>1, <1>2
<1>5. DocSteps(a, docCall'[c], docDisk[d], docDisk'[d])
  BY <1>1, <1>3, <1>4 DEF DocSteps
<1>6. /\ a.pc \notin {"open", "limit"} /\ docCall'[c].pc = "return"
      /\ halfMade' = halfMade \ {d} /\ crowded' = crowded
  BY <1>1, <1>3 DEF Ends
<1> HIDE DEF r
<1> QED
  BY <1>1, <1>3, <1>4, <1>5, <1>6 DEF DocWorks

\* A read or a list reports what is there.
LEMMA LookWorks == ASSUME DocTypeOK, NEW c \in DocCallers, LookAtDoc(c) PROVE DocWorks(c)
<1> DEFINE a    == docCall[c]
           d    == a.p.doc
           text == IF d.kind = "note" THEN readNote(d) ELSE readCanvas(d)
           seen == IF d.kind = "canvas" THEN listCanvases ELSE IF a.p.op = "list" THEN listNotes ELSE searchNotes
           r    == CASE a.p.op \in {"read", "snapshot", "present"} -> text
                     [] a.p.op \in {"list", "search"} -> IF d \in seen THEN "listed" ELSE "not listed"
                     [] OTHER -> "done"
<1>1. /\ Active(c) /\ a.pc = "look" /\ crowded' = crowded /\ halfMade' = halfMade /\ DocReports(c, r)
      /\ docDisk' = docDisk /\ docDisk \in [Docs -> Texts]
  BY DEF LookAtDoc, DocAt, Active, DocTypeOK
<1>2. text \in {"not found", docDisk[d]}
  BY DEF readNote, readCanvas
<1> HIDE DEF text, seen
<1>3. r \in {"listed", "not listed", "done", "not found", docDisk[d]}
  BY <1>2
<1>4. r \in Reports
  BY <1>1, <1>3, JobIs DEF Reports
<1> HIDE DEF r
<1>5. Follows(c) /\ Ends(docCall'[c], r)
  BY <1>1, <1>4, ReportsDoes
<1>6. DocSteps(a, docCall'[c], docDisk[d], docDisk'[d])
  BY <1>1, <1>3, <1>5 DEF DocSteps, Ends
<1> QED
  BY <1>1, <1>5, <1>6 DEF DocWorks

\* A call starts.
DocStarts(c) ==
    LET b == docCall'[c]
        d == b.p.doc IN
    /\ ~Active(c) /\ b \in DocJobs /\ d \in Docs /\ Suits(b)
    /\ b.before = docDisk[d] /\ b.pc \in {"limit", "stat", "look", "return"} /\ (b.pc = "return" => b.report = "refused")
    /\ b.p.op = "create" /\ d.kind = "canvas" => b.pc \in {"limit", "return"}
    /\ ~b.met => \A k \in DocCallers : Active(k) => docCall[k].p.doc # d
    /\ DOMAIN docCall' = DocCallers
    /\ \A k \in DocCallers : k # c =>
          IF Active(k) /\ docCall[k].p.doc = d
          THEN docCall'[k] = [docCall[k] EXCEPT !.met = TRUE] ELSE docCall'[k] = docCall[k]
    /\ crowded' \in BOOLEAN /\ (~crowded' => ~crowded /\ (Creates(b) => \A k \in DocCallers : ~Creates(docCall[k])))
    /\ docDisk' = docDisk /\ halfMade' = halfMade

\* A call begins with parameters of its own.
LEMMA StartWorks ==
    ASSUME DocTypeOK, NEW c \in DocCallers, NEW p \in DocInputs, StartDoc(c, p) PROVE DocStarts(c)
<1> DEFINE ok == Accepted(p)
           b  == [pc |-> IF ~ok THEN "return"
                         ELSE IF p.op = "create" /\ p.doc.kind = "canvas" THEN "limit"
                         ELSE IF Writes(p.op) THEN "stat" ELSE "look",
                  p |-> p, report |-> IF ok THEN "none" ELSE "refused",
                  before |-> docDisk[p.doc], met |-> Busy(p.doc) # {}]
<1>1. p.doc \in Docs
  BY DocConstants
<1>2. docCall' = [k \in DocCallers |-> IF k = c THEN b
                     ELSE IF k \in Busy(p.doc) THEN [docCall[k] EXCEPT !.met = TRUE] ELSE docCall[k]]
  BY DEF StartDoc
<1>3. /\ b.pc \in {"limit", "stat", "look", "return"} /\ b.p = p /\ b.before = docDisk[p.doc]
      /\ (b.pc = "return" => b.report = "refused")
      /\ (p.op = "create" /\ p.doc.kind = "canvas" => b.pc \in {"limit", "return"})
      /\ b.met = (Busy(p.doc) # {}) /\ Suits(b)
  BY DEF Suits, Writes
<1>4. b \in DocJobs
  BY <1>1 DEF DocJobs, DocPcs, Reports, DocTypeOK
<1> HIDE DEF b
<1>5. docCall'[c] = b /\ DOMAIN docCall' = DocCallers
  BY <1>2
<1>6. \A k \in DocCallers : k # c =>
          IF Active(k) /\ docCall[k].p.doc = p.doc
          THEN docCall'[k] = [docCall[k] EXCEPT !.met = TRUE] ELSE docCall'[k] = docCall[k]
  BY <1>2 DEF Busy, Active, DocAt
<1>7. ~b.met => \A k \in DocCallers : Active(k) => docCall[k].p.doc # p.doc
  BY <1>3 DEF Busy, Active, DocAt
<1>8. crowded' \in BOOLEAN /\ (~crowded' => ~crowded /\ (Creates(b) => \A k \in DocCallers : ~Creates(docCall[k])))
  <2>1. crowded' = (crowded \/ (p.op = "create" /\ p.doc.kind = "canvas" /\ Creators # {})) /\ crowded \in BOOLEAN
    BY DEF StartDoc, DocTypeOK
  <2>2. Creates(b) => p.op = "create" /\ p.doc.kind = "canvas"
    BY <1>3 DEF Creates
  <2>3. Creators = {} => \A k \in DocCallers : ~Creates(docCall[k])
    BY DEF Creators, Creates, DocAt
  <2>4. crowded' \in BOOLEAN
    BY <2>1, Zenon
  <2> QED
    BY <2>1, <2>2, <2>3, <2>4
<1>9. ~Active(c) /\ docDisk' = docDisk /\ halfMade' = halfMade
  BY DEF StartDoc, DocAt, Active
<1> QED
  BY <1>1, <1>3, <1>4, <1>5, <1>6, <1>7, <1>8, <1>9 DEF DocStarts

\* A call is over.
DocEnds(c) ==
    /\ docCall'[c] = DocIdle /\ docCall[c].pc = "return" /\ DOMAIN docCall' = DocCallers
    /\ \A k \in DocCallers : k # c => docCall'[k] = docCall[k]
    /\ docDisk' = docDisk /\ halfMade' = halfMade /\ crowded' = crowded

DocStep ==
    \/ \E c \in DocCallers : DocWorks(c) \/ DocStarts(c) \/ DocEnds(c)
    \/ docCall' = docCall /\ docDisk' = docDisk /\ halfMade' = halfMade /\ crowded' = crowded

\* Every step of the notes and canvases is one of these.
LEMMA DocStepIs == ASSUME DocTypeOK, [DocumentsNext]_docVars PROVE DocStep
<1>1. ASSUME NEW c \in DocCallers, ReturnDoc(c) PROVE DocEnds(c)
  BY <1>1 DEF ReturnDoc, DocAt, DocEnds, DocTypeOK
<1>2. CASE UNCHANGED docVars
  BY <1>2 DEF docVars, DocStep
<1>3. CASE DocumentsNext
  BY <1>1, <1>3, LimitWorks, StatWorks, MakeDirWorks, OpenWorks, WriteWorks, RemoveWorks, LookWorks, StartWorks
  DEF DocumentsNext, DocStep
<1> QED
  BY <1>2, <1>3

-----------------------------------------------------------------------------

\* Every step keeps the types.
LEMMA DocTypeStep == ASSUME DocTypeOK, DocStep PROVE DocTypeOK'
<1>1. ASSUME NEW c \in DocCallers, DocWorks(c) PROVE DocTypeOK'
  <2> DEFINE a == docCall[c]
             b == docCall'[c]
  <2>1. Follows(c) /\ DocSteps(a, b, docDisk[a.p.doc], docDisk'[a.p.doc])
    BY <1>1 DEF DocWorks
  <2>2. a \in DocJobs /\ Suits(a) /\ b \in DocJobs /\ b.p = a.p /\ a.p.doc \in Docs
    BY <2>1 DEF Follows
  <2>3. a.p.doc.kind \in {"note", "canvas"}
    BY <2>2, DocConstants
  <2>4. Suits(b)
    BY <2>1, <2>2, <2>3 DEF Suits, DocSteps, Ends, Writes
  <2>5. halfMade' \subseteq Docs
    BY <1>1, <2>2 DEF DocWorks, DocTypeOK
  <2>6. \A k \in DocCallers : docCall'[k] = DocIdle \/ (docCall'[k] \in DocJobs /\ Suits(docCall'[k]))
    BY <2>1, <2>2, <2>4 DEF Follows, DocTypeOK
  <2> QED
    BY <1>1, <2>1, <2>5, <2>6 DEF DocWorks, Follows, DocTypeOK
<1>2. ASSUME NEW c \in DocCallers, DocStarts(c) PROVE DocTypeOK'
  <2>1. ASSUME NEW k \in DocCallers, k # c
        PROVE  docCall'[k] = DocIdle \/ (docCall'[k] \in DocJobs /\ Suits(docCall'[k]))
    <3>1. CASE ~(Active(k) /\ docCall[k].p.doc = docCall'[c].p.doc)
      BY <1>2, <2>1, <3>1 DEF DocStarts, DocTypeOK
    <3>2. CASE Active(k) /\ docCall[k].p.doc = docCall'[c].p.doc
      <4> DEFINE a == docCall[k]
                 b == [a EXCEPT !.met = TRUE]
      <4>1. docCall'[k] = b
        BY <1>2, <2>1, <3>2 DEF DocStarts
      <4>2. a \in DocJobs /\ Suits(a)
        BY <3>2, JobIs
      <4>3. b \in DocJobs /\ b.pc = a.pc /\ b.p = a.p
        BY <4>2 DEF DocJobs
      <4> HIDE DEF b
      <4> QED
        BY <4>1, <4>2, <4>3 DEF Suits
    <3> QED
      BY <3>1, <3>2
  <2> QED
    BY <1>2, <2>1 DEF DocStarts, DocTypeOK
<1>3. ASSUME NEW c \in DocCallers, DocEnds(c) PROVE DocTypeOK'
  BY <1>3 DEF DocEnds, DocTypeOK
<1>4. CASE docCall' = docCall /\ docDisk' = docDisk /\ halfMade' = halfMade /\ crowded' = crowded
  BY <1>4 DEF DocTypeOK
<1> QED
  BY <1>1, <1>2, <1>3, <1>4 DEF DocStep

\* A call that has the document to itself comes on as it should.
LEMMA ComesOn ==
    ASSUME NEW a \in DocJobs, NEW b \in DocJobs, NEW x, NEW y, Suits(a), Came(a, x), DocSteps(a, b, x, y),
           b.p = a.p, b.before = a.before, a.p.doc.kind \in {"note", "canvas"}, a.p.content \notin Absent \cup {"empty"}
    PROVE  Came(b, y)
<1> USE DEF Ends, Came, Suits
<1>1. CASE a.pc = "limit"
  BY <1>1 DEF DocSteps, Told
<1>2. CASE a.pc = "stat"
  BY <1>2 DEF DocSteps, Told, Writes
<1>3. CASE a.pc = "mkdir"
  BY <1>3 DEF DocSteps
<1>4. CASE a.pc = "open"
  <2>1. \/ b.pc = "return" /\ b.report = "failed" /\ y = x
        \/ b.pc = "write" /\ y = "empty"
    BY <1>4 DEF DocSteps
  <2>2. a.p.op \in {"create", "update"}
    BY <1>4
  <2>3. IF a.p.op = "create" THEN a.before = "none" /\ x = (IF a.p.doc.kind = "note" THEN "none" ELSE "dir")
        ELSE x = a.before /\ a.before # "none"
    BY <1>4
  <2>4. CASE b.pc = "write" /\ y = "empty"
    BY <2>2, <2>3, <2>4
  <2>5. CASE b.pc = "return" /\ b.report = "failed" /\ y = x
    <3>1. y \in {b.before, "empty", "dir"}
      BY <2>3, <2>5
    <3>2. Told(b, y)
      BY <2>5, <3>1 DEF Told
    <3> QED
      BY <2>5, <3>2
  <2> QED
    BY <2>1, <2>4, <2>5
<1>5. CASE a.pc = "write"
  BY <1>5 DEF DocSteps, Told, Absent
<1>6. CASE a.pc = "remove"
  BY <1>6 DEF DocSteps, Told
<1>7. CASE a.pc = "look"
  <2>1. y = x /\ x = a.before /\ b.pc = "return" /\ b.report \in {"listed", "not listed", "done", "not found", x}
    BY <1>7 DEF DocSteps
  <2>2. b.p.op \notin {"create", "update", "delete"}
    BY <1>7 DEF Writes
  <2>3. Told(b, y)
    BY <2>1, <2>2 DEF Told
  <2> QED
    BY <2>1, <2>3
<1> QED
  BY <1>1, <1>2, <1>3, <1>4, <1>5, <1>6, <1>7 DEF DocSteps

\* A call that met nobody still knows its document.
LEMMA AloneStep == ASSUME DocTypeOK, AloneIsTrue, DocStep PROVE AloneIsTrue'
<1> SUFFICES ASSUME NEW e \in DocCallers, docCall'[e].pc # "idle", ~docCall'[e].met
             PROVE  /\ Came(docCall'[e], docDisk'[docCall'[e].p.doc])
                    /\ \A k \in DocCallers : k # e /\ docCall'[k].pc # "idle" => docCall'[k].p.doc # docCall'[e].p.doc
  BY DEF AloneIsTrue, Active
<1>1. ASSUME NEW c \in DocCallers, DocWorks(c)
      PROVE  /\ Came(docCall'[e], docDisk'[docCall'[e].p.doc])
             /\ \A k \in DocCallers : k # e /\ docCall'[k].pc # "idle" => docCall'[k].p.doc # docCall'[e].p.doc
  <2> DEFINE a == docCall[c]
             b == docCall'[c]
  <2>1. /\ a \in DocJobs /\ Suits(a) /\ b \in DocJobs /\ b.p = a.p /\ a.p.doc \in Docs /\ b.before = a.before
        /\ b.met = a.met /\ \A k \in DocCallers : k # c => docCall'[k] = docCall[k]
        /\ DocSteps(a, b, docDisk[a.p.doc], docDisk'[a.p.doc])
        /\ \A d \in Docs : d # a.p.doc => docDisk'[d] = docDisk[d]
    BY <1>1 DEF DocWorks, Follows
  <2>2. Active(c)
    BY <2>1 DEF DocJobs, DocPcs, Active
  <2>3. docCall[e].p = docCall'[e].p /\ ~docCall[e].met /\ Active(e)
    BY <2>1, <2>2 DEF Active
  <2>4. /\ Came(docCall[e], docDisk[docCall[e].p.doc])
        /\ \A k \in DocCallers : k # e /\ Active(k) => docCall[k].p.doc # docCall[e].p.doc
    BY <2>3 DEF AloneIsTrue
  <2>5. \A k \in DocCallers : k # e /\ docCall'[k].pc # "idle" => docCall'[k].p.doc # docCall'[e].p.doc
    BY <2>1, <2>2, <2>3, <2>4 DEF Active
  <2>6. CASE e = c
    <3>1. a.p \in DocInputs
      BY <2>1 DEF DocJobs
    <3>2. a.p.content \notin Absent \cup {"empty"} /\ a.p.doc.kind \in {"note", "canvas"}
      BY <2>1, <3>1, DocConstants
    <3> QED
      BY <2>1, <2>4, <2>5, <2>6, <3>2, ComesOn
  <2>7. CASE e # c
    <3>1. docCall'[e] = docCall[e] /\ docCall[e].p.doc # a.p.doc
      BY <2>1, <2>2, <2>4, <2>7
    <3>2. docCall[e].p.doc \in Docs
      BY <2>3, JobIs
    <3> QED
      BY <2>1, <2>4, <2>5, <3>1, <3>2
  <2> QED
    BY <2>6, <2>7
<1>2. ASSUME NEW c \in DocCallers, DocStarts(c)
      PROVE  /\ Came(docCall'[e], docDisk'[docCall'[e].p.doc])
             /\ \A k \in DocCallers : k # e /\ docCall'[k].pc # "idle" => docCall'[k].p.doc # docCall'[e].p.doc
  <2> DEFINE b == docCall'[c]
             d == b.p.doc
  <2>1. /\ b \in DocJobs /\ b.before = docDisk[d] /\ docDisk' = docDisk
        /\ b.pc \in {"limit", "stat", "look", "return"} /\ (b.pc = "return" => b.report = "refused")
        /\ ~b.met => \A k \in DocCallers : Active(k) => docCall[k].p.doc # d
        /\ \A k \in DocCallers : k # c =>
              IF Active(k) /\ docCall[k].p.doc = d
              THEN docCall'[k] = [docCall[k] EXCEPT !.met = TRUE] ELSE docCall'[k] = docCall[k]
    BY <1>2 DEF DocStarts
  <2>2. ASSUME NEW k \in DocCallers, k # c, docCall'[k].pc # "idle"
        PROVE  Active(k) /\ docCall'[k].p = docCall[k].p
    <3>1. Active(k)
      BY <2>1, <2>2 DEF Active
    <3>2. docCall[k] \in DocJobs
      BY <3>1, JobIs
    <3> QED
      BY <2>1, <2>2, <3>1, <3>2 DEF DocJobs
  <2>3. CASE e = c
    BY <2>1, <2>2, <2>3 DEF Came, Told
  <2>4. CASE e # c
    <3>1. Active(e) /\ docCall'[e].p = docCall[e].p
      BY <2>2, <2>4
    <3>2. docCall[e] \in DocJobs
      BY <3>1, JobIs
    <3>3. docCall'[e] = docCall[e] /\ docCall[e].p.doc # d
      BY <2>1, <2>4, <3>1, <3>2 DEF DocJobs
    <3>4. /\ Came(docCall[e], docDisk[docCall[e].p.doc])
          /\ \A k \in DocCallers : k # e /\ Active(k) => docCall[k].p.doc # docCall[e].p.doc
      BY <3>1, <3>3 DEF AloneIsTrue
    <3> QED
      BY <2>1, <2>2, <3>3, <3>4
  <2> QED
    BY <2>3, <2>4
<1>3. ASSUME NEW c \in DocCallers, DocEnds(c)
      PROVE  /\ Came(docCall'[e], docDisk'[docCall'[e].p.doc])
             /\ \A k \in DocCallers : k # e /\ docCall'[k].pc # "idle" => docCall'[k].p.doc # docCall'[e].p.doc
  <2>1. e # c /\ docCall'[e] = docCall[e]
    BY <1>3 DEF DocEnds, DocIdle
  <2>2. \A k \in DocCallers : docCall'[k].pc # "idle" => docCall'[k] = docCall[k]
    BY <1>3 DEF DocEnds, DocIdle
  <2> QED
    BY <1>3, <2>1, <2>2 DEF DocEnds, AloneIsTrue, Active
<1>4. CASE docCall' = docCall /\ docDisk' = docDisk /\ halfMade' = halfMade /\ crowded' = crowded
  BY <1>4 DEF AloneIsTrue, Active
<1> QED
  BY <1>1, <1>2, <1>3, <1>4 DEF DocStep

\* Who creates a canvas after a step did so before it, unless it has just started.
LEMMA CreatesWere ==
    ASSUME DocTypeOK, NEW c \in DocCallers, NEW k \in DocCallers, Creates(docCall'[k]),
           DocWorks(c) \/ (DocStarts(c) /\ k # c) \/ DocEnds(c)
    PROVE  Creates(docCall[k]) /\ docCall[k].p = docCall'[k].p /\ (k # c => docCall'[k].pc = docCall[k].pc)
<1>1. CASE DocWorks(c)
  BY <1>1 DEF DocWorks, Follows, DocJobs, DocPcs, Creates
<1>2. CASE DocStarts(c) /\ k # c
  <2>1. CASE Active(k) /\ docCall[k].p.doc = docCall'[c].p.doc
    <3>1. docCall[k] \in DocJobs
      BY <2>1, JobIs
    <3>2. docCall'[k] = [docCall[k] EXCEPT !.met = TRUE]
      BY <1>2, <2>1 DEF DocStarts
    <3> QED
      BY <3>1, <3>2 DEF DocJobs, Creates
  <2>2. CASE ~(Active(k) /\ docCall[k].p.doc = docCall'[c].p.doc)
    BY <1>2, <2>2 DEF DocStarts
  <2> QED
    BY <2>1, <2>2
<1>3. CASE DocEnds(c)
  BY <1>3 DEF DocEnds, DocIdle, Creates
<1> QED
  BY <1>1, <1>2, <1>3

\* Two creations of canvases overlap only if crowded says so.
LEMMA OneCreatesStep == ASSUME DocTypeOK, OneCreates, DocStep PROVE OneCreates'
<1> SUFFICES ASSUME ~crowded', NEW e \in DocCallers, NEW k \in DocCallers,
                    Creates(docCall'[e]), Creates(docCall'[k])
             PROVE  e = k
  BY DEF OneCreates
<1>1. ASSUME NEW c \in DocCallers, DocWorks(c) \/ DocEnds(c) PROVE e = k
  <2>1. ~crowded
    BY <1>1 DEF DocWorks, DocEnds
  <2> QED
    BY <1>1, <2>1, CreatesWere DEF OneCreates
<1>2. ASSUME NEW c \in DocCallers, DocStarts(c) PROVE e = k
  <2>1. ~crowded /\ (Creates(docCall'[c]) => \A j \in DocCallers : ~Creates(docCall[j]))
    BY <1>2 DEF DocStarts
  <2>2. \A j \in DocCallers : j # c /\ Creates(docCall'[j]) => Creates(docCall[j])
    BY <1>2, CreatesWere
  <2> QED
    BY <2>1, <2>2 DEF OneCreates
<1>3. CASE docCall' = docCall /\ docDisk' = docDisk /\ halfMade' = halfMade /\ crowded' = crowded
  BY <1>3 DEF OneCreates
<1> QED
  BY <1>1, <1>2, <1>3 DEF DocStep

\* What the step of a call does to the document it is about, and to no other.
LEMMA WorkIs ==
    ASSUME DocTypeOK, NEW c \in DocCallers, DocWorks(c)
    PROVE  LET a == docCall[c]
               b == docCall'[c]
               d == a.p.doc
           IN  /\ a \in DocJobs /\ Suits(a) /\ b \in DocJobs /\ b.p = a.p /\ d \in Docs
               /\ d.kind \in {"note", "canvas"} /\ a.p.content \notin Absent \cup {"empty"}
               /\ DocSteps(a, b, docDisk[d], docDisk'[d])
               /\ \A e \in Docs : e # d => docDisk'[e] = docDisk[e]
               /\ \A k \in DocCallers : k # c => docCall'[k] = docCall[k]
               /\ \A e \in Docs : e # d => (e \in halfMade' <=> e \in halfMade)
               /\ d \in halfMade /\ a.pc # "remove" => d \in halfMade'
<1> DEFINE a == docCall[c]
           b == docCall'[c]
           d == a.p.doc
<1>1. /\ a \in DocJobs /\ Suits(a) /\ b \in DocJobs /\ b.p = a.p /\ d \in Docs
      /\ DocSteps(a, b, docDisk[d], docDisk'[d])
      /\ \A e \in Docs : e # d => docDisk'[e] = docDisk[e]
      /\ \A k \in DocCallers : k # c => docCall'[k] = docCall[k]
  BY DEF DocWorks, Follows
<1>2. a.p \in DocInputs
  BY <1>1 DEF DocJobs
<1>3. d.kind \in {"note", "canvas"} /\ a.p.content \notin Absent \cup {"empty"}
  BY <1>1, <1>2, DocConstants
<1>4. \/ halfMade' = halfMade
      \/ a.pc = "open" /\ halfMade' = halfMade \cup {d}
      \/ a.pc = "remove" /\ halfMade' = halfMade \ {d}
  BY DEF DocWorks
<1>5. /\ \A e \in Docs : e # d => (e \in halfMade' <=> e \in halfMade)
      /\ d \in halfMade /\ a.pc # "remove" => d \in halfMade'
  BY <1>4
<1> QED
  BY <1>1, <1>3, <1>5

\* A bare directory is either about to get its file or was left by a failed creation.
LEMMA DirsStep == ASSUME DocTypeOK, DirsAreMade, DocStep PROVE DirsAreMade'
<1> DEFINE Opens(call, d) == Holds(call) /\ call.pc = "open" /\ call.p.doc = d
<1> SUFFICES ASSUME ~crowded', NEW d \in Docs, d.kind = "canvas", docDisk'[d] = "dir"
             PROVE  d \in halfMade' \/ \E k \in DocCallers : Opens(docCall'[k], d)
  BY DEF DirsAreMade
<1>1. ASSUME NEW c \in DocCallers, DocWorks(c)
      PROVE  d \in halfMade' \/ \E k \in DocCallers : Opens(docCall'[k], d)
  <2> DEFINE a == docCall[c]
             b == docCall'[c]
  <2>1. /\ Suits(a) /\ b.p = a.p /\ a.p.doc.kind \in {"note", "canvas"} /\ a.p.content \notin Absent \cup {"empty"}
        /\ DocSteps(a, b, docDisk[a.p.doc], docDisk'[a.p.doc])
        /\ \A e \in Docs : e # a.p.doc => docDisk'[e] = docDisk[e]
        /\ \A k \in DocCallers : k # c => docCall'[k] = docCall[k]
        /\ \A e \in Docs : e # a.p.doc => (e \in halfMade' <=> e \in halfMade)
        /\ a.p.doc \in halfMade /\ a.pc # "remove" => a.p.doc \in halfMade'
    BY <1>1, WorkIs
  <2>2. ~crowded
    BY <1>1 DEF DocWorks
  <2>3. CASE docDisk[d] # "dir"
    <3>1. d = a.p.doc
      BY <2>1, <2>3
    <3>2. a.pc = "mkdir" /\ b.pc = "open"
      BY <2>1, <2>3, <3>1 DEF DocSteps, Absent
    <3>3. Opens(b, d)
      BY <2>1, <3>1, <3>2 DEF Suits, Holds, Creates
    <3> QED
      BY <3>3
  <2>4. CASE docDisk[d] = "dir"
    <3>1. d \in halfMade \/ \E k \in DocCallers : Opens(docCall[k], d)
      BY <2>2, <2>4 DEF DirsAreMade
    <3>2. CASE d \in halfMade
      <4>1. d = a.p.doc => a.pc # "remove"
        BY <2>1 DEF DocSteps
      <4> QED
        BY <2>1, <3>2, <4>1
    <3>3. ASSUME NEW k \in DocCallers, Opens(docCall[k], d)
          PROVE  d \in halfMade' \/ \E j \in DocCallers : Opens(docCall'[j], d)
      <4>1. CASE k # c
        <5>1. docCall'[k] = docCall[k]
          BY <2>1, <4>1
        <5>2. Opens(docCall'[k], d)
          BY <3>3, <5>1
        <5> QED
          BY <5>2
      <4>2. CASE k = c
        <5>1. a.pc = "open" /\ a.p.doc = d
          BY <3>3, <4>2
        <5>2. b.pc = "return"
          BY <2>1, <5>1 DEF DocSteps, Ends
        <5>3. halfMade' = halfMade \cup {d}
          BY <1>1, <2>4, <5>1, <5>2 DEF DocWorks
        <5> QED
          BY <5>3
      <4> QED
        BY <4>1, <4>2
    <3> QED
      BY <3>1, <3>2, <3>3
  <2> QED
    BY <2>3, <2>4
<1>2. ASSUME NEW c \in DocCallers, DocStarts(c) \/ DocEnds(c)
      PROVE  d \in halfMade' \/ \E k \in DocCallers : Opens(docCall'[k], d)
  <2>1. docDisk' = docDisk /\ halfMade' = halfMade /\ ~crowded
    BY <1>2 DEF DocStarts, DocEnds
  <2>2. d \in halfMade \/ \E k \in DocCallers : Opens(docCall[k], d)
    BY <2>1 DEF DirsAreMade
  <2>3. ASSUME NEW k \in DocCallers, Opens(docCall[k], d) PROVE Opens(docCall'[k], d)
    <3>1. Active(k)
      BY <2>3 DEF Active
    <3>2. docCall[k] \in DocJobs
      BY <3>1, JobIs
    <3>3. k # c
      BY <1>2, <2>3 DEF DocStarts, DocEnds, Active
    <3>4. docCall'[k] \in {docCall[k], [docCall[k] EXCEPT !.met = TRUE]}
      BY <1>2, <3>3 DEF DocStarts, DocEnds
    <3>5. docCall'[k].p = docCall[k].p /\ docCall'[k].pc = docCall[k].pc
      BY <3>2, <3>4 DEF DocJobs
    <3> QED
      BY <2>3, <3>5 DEF Holds, Creates
  <2> QED
    BY <2>1, <2>2, <2>3
<1>3. CASE docCall' = docCall /\ docDisk' = docDisk /\ halfMade' = halfMade /\ crowded' = crowded
  BY <1>3 DEF DirsAreMade
<1> QED
  BY <1>1, <1>2, <1>3 DEF DocStep

\* No step but that past the limit adds to the canvases that count.
LEMMA CountedShrinks ==
    ASSUME DocTypeOK, DirsAreMade, ~crowded, NEW c \in DocCallers,
           (DocWorks(c) /\ docCall[c].pc # "limit") \/ DocStarts(c) \/ DocEnds(c)
    PROVE  Counted(docDisk', halfMade', docCall') \subseteq Counted(docDisk, halfMade, docCall)
<1>1. ASSUME NEW d \in Docs, d \in Held(docCall') PROVE d \in Held(docCall)
  <2>1. PICK k \in DocCallers : Holds(docCall'[k]) /\ docCall'[k].p.doc = d
    BY <1>1 DEF Held
  <2>2. ~(DocStarts(c) /\ k = c)
    BY <2>1 DEF DocStarts, Holds, Creates
  <2>3. Creates(docCall[k]) /\ docCall[k].p = docCall'[k].p /\ (k # c => docCall'[k].pc = docCall[k].pc)
    BY <2>1, <2>2, CreatesWere DEF Holds
  <2>4. CASE k # c
    BY <2>1, <2>3, <2>4 DEF Held, Holds
  <2>5. CASE k = c
    <3>1. DocWorks(c) /\ docCall[c].pc # "limit"
      BY <2>1, <2>2, <2>5 DEF DocEnds, DocIdle, Holds, Creates
    <3>2. DocSteps(docCall[c], docCall'[c], docDisk[docCall[c].p.doc], docDisk'[docCall[c].p.doc])
      BY <3>1 DEF DocWorks
    <3>3. docCall[c].pc \in {"stat", "mkdir", "open", "write"}
      BY <2>1, <2>5, <3>1, <3>2 DEF DocSteps, Ends, Holds
    <3> QED
      BY <2>1, <2>3, <2>5, <3>3 DEF Held, Holds
  <2> QED
    BY <2>4, <2>5
<1>2. ASSUME NEW d \in Docs, d \in Shown(docDisk') \ halfMade' PROVE d \in Counted(docDisk, halfMade, docCall)
  <2>1. CASE DocWorks(c)
    <3> DEFINE a == docCall[c]
               b == docCall'[c]
    <3>1. /\ Suits(a) /\ b.p = a.p /\ a.p.content \notin Absent \cup {"empty"}
          /\ DocSteps(a, b, docDisk[a.p.doc], docDisk'[a.p.doc])
          /\ \A e \in Docs : e # a.p.doc => docDisk'[e] = docDisk[e]
          /\ \A e \in Docs : e # a.p.doc => (e \in halfMade' <=> e \in halfMade)
          /\ a.p.doc \in halfMade /\ a.pc # "remove" => a.p.doc \in halfMade'
      BY <2>1, WorkIs
    <3>2. d.kind = "canvas" /\ docDisk'[d] \notin Absent /\ d \notin halfMade'
      BY <1>2 DEF Shown
    <3>3. d = a.p.doc => a.pc # "remove"
      BY <3>1, <3>2 DEF DocSteps, Absent
    <3>4. d \notin halfMade
      BY <3>1, <3>2, <3>3
    <3>5. CASE docDisk[d] \notin Absent
      BY <3>2, <3>4, <3>5 DEF Counted, Shown
    <3>6. CASE docDisk[d] \in Absent
      <4>1. d = a.p.doc
        BY <3>1, <3>2, <3>6
      <4>2. a.pc = "open" /\ docDisk[d] = "dir"
        BY <3>1, <3>2, <3>6, <4>1 DEF DocSteps, Absent
      <4>3. \E k \in DocCallers : Holds(docCall[k]) /\ docCall[k].p.doc = d
        BY <3>2, <3>4, <4>2 DEF DirsAreMade
      <4> QED
        BY <4>3 DEF Counted, Held
    <3> QED
      BY <3>5, <3>6
  <2>2. CASE DocStarts(c) \/ DocEnds(c)
    BY <1>2, <2>2 DEF DocStarts, DocEnds, Counted
  <2> QED
    BY <2>1, <2>2
<1> QED
  BY <1>1, <1>2 DEF Counted, Shown, Held

\* A creation that passes the limit is alone, so that the canvases it saw are all there are.
LEMMA LimitKeeps ==
    ASSUME DocTypeOK, OneCreates, CanvasesAreFew, ~crowded, NEW c \in DocCallers,
           DocWorks(c), docCall[c].pc = "limit"
    PROVE  Cardinality(Counted(docDisk', halfMade', docCall')) <= maxCanvasesPerSession
<1> DEFINE a == docCall[c]
           b == docCall'[c]
           d == a.p.doc
           S == Shown(docDisk)
           T == Counted(docDisk', halfMade', docCall')
<1>1. /\ a \in DocJobs /\ Suits(a) /\ b \in DocJobs /\ b.p = a.p /\ d \in Docs
      /\ DocSteps(a, b, docDisk[d], docDisk'[d])
      /\ \A e \in Docs : e # d => docDisk'[e] = docDisk[e]
      /\ docDisk \in [Docs -> Texts] /\ docDisk' \in [Docs -> Texts]
  BY WorkIs DEF DocTypeOK, DocWorks
<1>2. docDisk'[d] = docDisk[d] /\ b.pc \in {"stat", "return"} /\ halfMade' = halfMade
  BY <1>1 DEF DocSteps, Ends, DocWorks
<1>3. docDisk' = docDisk
  BY <1>1, <1>2
<1>4. Creates(a)
  BY <1>1 DEF Suits, Creates
<1>5. \A k \in DocCallers : Creates(docCall'[k]) => k = c
  <2>1. \A k \in DocCallers : Creates(docCall'[k]) => Creates(docCall[k])
    BY CreatesWere
  <2> QED
    BY <1>4, <2>1 DEF OneCreates
<1>6. IsFiniteSet(S) /\ IsFiniteSet(T) /\ IsFiniteSet(S \cup {d}) /\ IsFiniteSet(Counted(docDisk, halfMade, docCall))
  BY <1>1, DocConstants, FS_Subset DEF Counted, Shown, Held
<1>7. /\ Cardinality(S) \in Nat /\ Cardinality(T) \in Nat /\ Cardinality(S \cup {d}) \in Nat
      /\ Cardinality(Counted(docDisk, halfMade, docCall)) \in Nat /\ maxCanvasesPerSession \in Nat
  BY <1>6, DocConstants, FS_CardinalityType
<1>8. CASE b.pc = "stat"
  <2>1. Cardinality(S) < maxCanvasesPerSession
    BY <1>8 DEF DocWorks
  <2>2. Held(docCall') \subseteq {d}
    BY <1>1, <1>5 DEF Held, Holds
  <2>3. T \subseteq S \cup {d}
    BY <1>3, <2>2 DEF Counted
  <2>4. Cardinality(T) <= Cardinality(S \cup {d})
    BY <1>6, <2>3, FS_Subset
  <2>5. Cardinality(S \cup {d}) <= Cardinality(S) + 1
    <3> HIDE DEF S
    <3>1. Cardinality(S \cup {d}) = IF d \in S THEN Cardinality(S) ELSE Cardinality(S) + 1
      BY <1>6, FS_AddElement
    <3> QED
      BY <1>7, <3>1
  <2>6. Cardinality(T) <= maxCanvasesPerSession
    <3> HIDE DEF S, T
    <3> QED
      BY <1>7, <2>1, <2>4, <2>5
  <2> QED
    BY <2>6
<1>9. CASE b.pc = "return"
  <2>1. Held(docCall') = {}
    BY <1>5, <1>9 DEF Held, Holds
  <2>2. T \subseteq Counted(docDisk, halfMade, docCall)
    BY <1>2, <1>3, <2>1 DEF Counted
  <2>3. Cardinality(T) <= Cardinality(Counted(docDisk, halfMade, docCall))
    BY <1>6, <2>2, FS_Subset
  <2>4. Cardinality(Counted(docDisk, halfMade, docCall)) <= maxCanvasesPerSession
    BY DEF CanvasesAreFew
  <2>5. Cardinality(T) <= maxCanvasesPerSession
    <3> DEFINE n == Cardinality(Counted(docDisk, halfMade, docCall))
    <3> HIDE DEF T, n
    <3> QED
      BY <1>7, <2>3, <2>4
  <2> QED
    BY <2>5
<1> QED
  BY <1>2, <1>8, <1>9

\* The canvases that count stay within their limit while creations do not overlap.
LEMMA FewStep ==
    ASSUME DocTypeOK, OneCreates, DirsAreMade, CanvasesAreFew, DocStep PROVE CanvasesAreFew'
<1> DEFINE S == Counted(docDisk, halfMade, docCall)
           T == Counted(docDisk', halfMade', docCall')
<1> SUFFICES ASSUME ~crowded' PROVE Cardinality(T) <= maxCanvasesPerSession
  BY DEF CanvasesAreFew, Counted, Held, Shown
<1>1. ~crowded
  BY DEF DocStep, DocWorks, DocStarts, DocEnds
<1>2. ASSUME T \subseteq S PROVE Cardinality(T) <= maxCanvasesPerSession
  <2>1. IsFiniteSet(S) /\ Cardinality(S) <= maxCanvasesPerSession
    BY <1>1, DocConstants, FS_Subset DEF Counted, Shown, Held, CanvasesAreFew
  <2>2. Cardinality(T) <= Cardinality(S) /\ IsFiniteSet(T)
    BY <1>2, <2>1, FS_Subset
  <2>3. Cardinality(T) \in Nat /\ Cardinality(S) \in Nat /\ maxCanvasesPerSession \in Nat
    BY <2>1, <2>2, DocConstants, FS_CardinalityType
  <2> HIDE DEF S, T
  <2> QED
    BY <2>1, <2>2, <2>3
<1>3. ASSUME NEW c \in DocCallers, DocWorks(c) \/ DocStarts(c) \/ DocEnds(c)
      PROVE  Cardinality(T) <= maxCanvasesPerSession
  <2>1. CASE DocWorks(c) /\ docCall[c].pc = "limit"
    BY <1>1, <2>1, LimitKeeps
  <2>2. CASE ~(DocWorks(c) /\ docCall[c].pc = "limit")
    BY <1>1, <1>2, <1>3, <2>2, CountedShrinks
  <2> QED
    BY <2>1, <2>2
<1>4. CASE docCall' = docCall /\ docDisk' = docDisk /\ halfMade' = halfMade /\ crowded' = crowded
  BY <1>2, <1>4
<1> QED
  BY <1>3, <1>4 DEF DocStep

\* The invariant holds before anybody calls.
LEMMA DocsInit == DocumentsInit => DocsInv
<1> SUFFICES ASSUME DocumentsInit PROVE DocsInv
  OBVIOUS
<1>1. /\ docDisk = [d \in Docs |-> "none"] /\ crowded = FALSE /\ halfMade = {}
      /\ DOMAIN docCall = DocCallers /\ \A c \in DocCallers : docCall[c] = DocIdle
  BY DEF DocumentsInit
<1>2. DocTypeOK
  BY <1>1 DEF DocTypeOK, Texts, Absent
<1>3. \A c \in DocCallers : docCall[c].pc = "idle"
  BY <1>1 DEF DocIdle
<1>4. AloneIsTrue /\ OneCreates
  BY <1>3 DEF AloneIsTrue, OneCreates, Active, Creates
<1>5. DirsAreMade
  BY <1>1 DEF DirsAreMade
<1>6. Counted(docDisk, halfMade, docCall) = {}
  BY <1>1, <1>3 DEF Counted, Shown, Held, Holds, Creates, Absent
<1>7. CanvasesAreFew
  BY <1>6, DocConstants, FS_EmptySet DEF CanvasesAreFew
<1> QED
  BY <1>2, <1>4, <1>5, <1>7 DEF DocsInv

\* The tools for notes and canvases keep their books: whatever their calls interleave to, a
\* call that met no other is as far with its document as its step says, a bare canvas
\* directory has an owner or was left by a failure, and the canvases that count stay few.
THEOREM DocumentsInvariant == DocumentsSpec => []DocsInv
<1>1. DocsInv /\ [DocumentsNext]_docVars => DocsInv'
  <2> SUFFICES ASSUME DocsInv, [DocumentsNext]_docVars PROVE DocsInv'
    OBVIOUS
  <2>1. DocTypeOK /\ AloneIsTrue /\ OneCreates /\ DirsAreMade /\ CanvasesAreFew
    BY DEF DocsInv
  <2>2. DocStep
    BY <2>1, DocStepIs
  <2> QED
    BY <2>1, <2>2, DocTypeStep, AloneStep, OneCreatesStep, DirsStep, FewStep DEF DocsInv
<1> QED
  BY <1>1, DocsInit, PTL DEF DocumentsSpec

\* A note or canvas is what the user was told: a call that met no other on its document
\* reports and leaves what it should, and the session's canvases stay within their limit
\* unless two were created at once or one came out of a directory a failure had left.
THEOREM DocumentsAreTrueHolds == DocumentsSpec => []DocumentsAreTrue
<1>1. DocsInv => DocumentsAreTrue
  <2> SUFFICES ASSUME DocsInv PROVE DocumentsAreTrue
    OBVIOUS
  <2>1. ASSUME NEW c \in DocCallers, DocAt(c, "return"), ~docCall[c].met PROVE DocTold(c)
    <3>1. Came(docCall[c], docDisk[docCall[c].p.doc])
      BY <2>1 DEF DocsInv, AloneIsTrue, Active, DocAt
    <3> QED
      BY <2>1, <3>1 DEF Came, DocAt, Told, DocTold
  <2>2. ASSUME ~crowded, halfMade = {} PROVE Cardinality(listCanvases) <= maxCanvasesPerSession
    <3> DEFINE S == Counted(docDisk, halfMade, docCall)
    <3>1. listCanvases \subseteq S
      BY <2>2 DEF Counted, Shown, listCanvases
    <3>2. IsFiniteSet(S) /\ Cardinality(S) <= maxCanvasesPerSession
      BY <2>2, DocConstants, FS_Subset DEF Counted, Shown, Held, DocsInv, CanvasesAreFew
    <3>3. Cardinality(listCanvases) <= Cardinality(S) /\ IsFiniteSet(listCanvases)
      BY <3>1, <3>2, FS_Subset
    <3>4. Cardinality(listCanvases) \in Nat /\ Cardinality(S) \in Nat /\ maxCanvasesPerSession \in Nat
      BY <3>2, <3>3, DocConstants, FS_CardinalityType
    <3> HIDE DEF S
    <3> QED
      BY <3>2, <3>3, <3>4
  <2> QED
    BY <2>1, <2>2 DEF DocumentsAreTrue
<1> QED
  BY <1>1, DocumentsInvariant, PTL

-----------------------------------------------------------------------------
(* Memory *)

Early    == {"open", "fill", "embed", "upsert", "write remote"}
Stored   == {"index", "put"}
Deleting == {"find", "unlink", "unindex", "drop", "forget", "drop remote"}
Asking   == {"search", "read", "words", "load", "swap", "nearest", "ask remote"}

Bodies  == [is : {"none", "torn", "plain", "vector", "sealed"}, key : Nat]
Forms   == {f \in Bodies : f.is \notin {"none", "torn"}}
MemJobs == [pc : Early \cup Stored \cup Deleting \cup Asking \cup {"return"}, op : {"store", "delete", "query", "erase"},
            q : {"words", "meaning"}, limit : Nat, id : MemIds \cup {"none"}, todo : SUBSET MemIds, form : Forms,
            rows : SUBSET MemIds, found : SUBSET MemIds, kept : SUBSET MemIds, gone : SUBSET MemIds,
            full : BOOLEAN, told : {"nothing", "ok", "error"}]

\* Every step belongs to one operation and to one provider.
StepFits(call, provider) ==
    /\ call.pc \in Early \cup Stored => call.op = "store"
    /\ call.pc \in Deleting => call.op \in {"delete", "erase"}
    /\ call.pc \in Asking => call.op \in {"query", "erase"}
    /\ call.pc \in {"open", "fill", "index", "find", "unlink", "unindex", "search", "read"} => provider = "markdown"
    /\ call.pc \in {"embed", "upsert", "put", "drop", "forget", "words", "load", "swap", "nearest"} => provider = "vector"
    /\ call.pc \in {"write remote", "drop remote", "ask remote"} => provider = "byterover"
    /\ call.op = "erase" => call.q = "words"

MemTypeOK ==
    /\ memSetup.provider \in {"markdown", "vector", "byterover"}
    /\ body \in [MemIds -> Bodies] /\ vecLoaded \in BOOLEAN /\ encKey \in Nat
    /\ memIndex \subseteq MemIds /\ savedIndex \subseteq MemIds /\ acked \subseteq MemIds
    /\ doomed \subseteq MemIds /\ erased \subseteq MemIds /\ raced \subseteq MemIds
    /\ DOMAIN memCall = MemCallers
    /\ \A c \in MemCallers : memCall[c] = MemIdle \/ (memCall[c] \in MemJobs /\ StepFits(memCall[c], memSetup.provider))

\* Entries whose file or row is, or was, complete: only their deletion takes it away.
KnownIn(rows, begun) == begun \cup {i \in MemIds : rows[i].is \notin {"none", "torn"}}
BareIn(rows)         == {i \in MemIds : rows[i].is = "none"}

\* Entries that a store has still to write.
Waits(call) == IF call.op = "store" THEN (IF call.pc \in Early THEN {call.id} ELSE {}) \cup call.todo ELSE {}

LimitIn(call)  == IF call.limit = 0 THEN DefaultLimit ELSE call.limit
Answered(call) == call.pc = "return" /\ call.told = "ok"

\* What a call knows of the entries, whatever other calls do: rows are the bodies, and begun,
\* stored, over and torn the sets doomed, acked, erased and raced.
StoreTrue(call, rows, begun) ==
    /\ Waits(call) \cap KnownIn(rows, begun) = {}
    /\ call.pc \in Early => call.id \in MemIds \ call.todo
    /\ call.pc \in Stored => call.id \in KnownIn(rows, begun)
    /\ call.pc = "put" => rows[call.id] = call.form \/ call.id \in begun
DeleteTrue(call, rows, begun) ==
    /\ call.pc \in Deleting => call.id \in begun /\ call.todo \subseteq begun
    /\ call.pc \in {"unindex", "forget"} => call.id \in BareIn(rows)
    /\ call.op = "erase" /\ call.pc \in Deleting => call.found \subseteq call.todo \cup {call.id} \cup BareIn(rows)
    /\ call.op = "erase" /\ Answered(call) => call.found \subseteq BareIn(rows)
QueryTrue(call, rows, begun, stored, over, changed) ==
    /\ call.rows \cup call.found \subseteq KnownIn(rows, begun)
    /\ call.op # "store" => call.todo \subseteq KnownIn(rows, begun)
    /\ call.kept \subseteq stored /\ call.gone \subseteq over
    /\ call.pc = "read" /\ call.limit = 0 => call.kept \subseteq call.rows \cup BareIn(rows)
    /\ call.pc \in {"load", "swap", "nearest"} =>
          /\ call.rows \cap call.gone = {}
          /\ call.q = "words" =>
                call.kept \subseteq call.rows \cup BareIn(rows) \/ Cardinality(call.rows) = 2 * LimitIn(call)
    /\ call.op \in {"query", "erase"} /\ (call.pc \in Deleting \/ Answered(call)) /\ call.full /\ call.q = "words" =>
          call.kept \subseteq call.found \cup BareIn(rows)
    /\ call.op = "query" /\ Answered(call) => call.found \cap call.gone \subseteq changed

CallTrue(call, rows, begun, stored, over, changed) ==
    /\ StoreTrue(call, rows, begun)
    /\ DeleteTrue(call, rows, begun)
    /\ QueryTrue(call, rows, begun, stored, over, changed)

CallsAreTrue == \A c \in MemCallers : CallTrue(memCall[c], body, doomed, acked, erased, raced)
WaitsApart == \A c, k \in MemCallers : c # k => Waits(memCall[c]) \cap Waits(memCall[k]) = {}

\* The disk and the index.
BooksAreTrue ==
    /\ acked \cup memIndex \cup savedIndex \subseteq KnownIn(body, doomed)
    /\ \A i \in doomed : body[i].is # "torn"
    /\ StoreIs("markdown") => acked \subseteq BareIn(body) \cup (memIndex \cap savedIndex)
    /\ StoreIs("vector") /\ vecLoaded => (acked \ doomed) \cap Embedded \subseteq memIndex \cup raced
    /\ erased \subseteq doomed \cap BareIn(body)
    /\ StoreIs("vector") => memIndex \cap erased \subseteq raced

MemInv == MemTypeOK /\ CallsAreTrue /\ WaitsApart /\ BooksAreTrue

-----------------------------------------------------------------------------

\* What never goes back while the process runs: an entry that is known stays so, and only its
\* deletion touches its file or row.
MemGrows ==
    /\ memSetup' = memSetup
    /\ acked \subseteq acked' /\ doomed \subseteq doomed' /\ erased \subseteq erased' /\ raced \subseteq raced'
    /\ KnownIn(body, doomed) \subseteq KnownIn(body', doomed')
    /\ \A i \in KnownIn(body, doomed) :
          (body[i].is = "none" => body'[i].is = "none") /\ (i \notin doomed' => body'[i] = body[i])

MemSets ==
    /\ body' \in [MemIds -> Bodies] /\ vecLoaded' \in BOOLEAN /\ encKey' \in Nat
    /\ memIndex' \subseteq MemIds /\ savedIndex' \subseteq MemIds /\ acked' \subseteq MemIds
    /\ doomed' \subseteq MemIds /\ erased' \subseteq MemIds /\ raced' \subseteq MemIds

Alone(c) == DOMAIN memCall' = MemCallers /\ \A k \in MemCallers : k # c => memCall'[k] = memCall[k]

\* What a call knows stays true while others work.
LEMMA CallStays ==
    ASSUME MemGrows, MemTypeOK, BooksAreTrue, NEW k \in MemCallers,
           CallTrue(memCall[k], body, doomed, acked, erased, raced),
           Waits(memCall[k]) \cap KnownIn(body', doomed') = {}
    PROVE  CallTrue(memCall[k], body', doomed', acked', erased', raced')
<1> DEFINE call == memCall[k]
<1>1. /\ acked \subseteq acked' /\ doomed \subseteq doomed' /\ erased \subseteq erased' /\ raced \subseteq raced'
      /\ KnownIn(body, doomed) \subseteq KnownIn(body', doomed')
      /\ \A i \in KnownIn(body, doomed) :
          (body[i].is = "none" => body'[i].is = "none") /\ (i \notin doomed' => body'[i] = body[i])
      /\ acked \subseteq KnownIn(body, doomed) /\ doomed \subseteq MemIds
  BY DEF MemGrows, BooksAreTrue, MemTypeOK
<1>2. BareIn(body) \cap KnownIn(body, doomed) \subseteq BareIn(body')
  BY <1>1 DEF BareIn
<1>3. doomed \subseteq KnownIn(body, doomed)
  BY DEF KnownIn
<1>4. StoreTrue(call, body', doomed')
  <2>1. StoreTrue(call, body, doomed)
    BY DEF CallTrue
  <2>2. /\ call.pc \in Early => call.id \in MemIds \ call.todo
        /\ call.pc \in Stored => call.id \in KnownIn(body, doomed)
        /\ call.pc = "put" => body[call.id] = call.form \/ call.id \in doomed
    BY <2>1 DEF StoreTrue
  <2>3. call.pc = "put" => body'[call.id] = call.form \/ call.id \in doomed'
    BY <1>1, <2>2 DEF Stored
  <2> QED
    BY <1>1, <2>2, <2>3 DEF StoreTrue
<1>5. DeleteTrue(call, body', doomed')
  <2>1. call.found \subseteq KnownIn(body, doomed)
    BY DEF CallTrue, QueryTrue
  <2>2. /\ call.pc \in Deleting => call.id \in doomed' /\ call.todo \subseteq doomed'
        /\ call.pc \in {"unindex", "forget"} => call.id \in BareIn(body')
    BY <1>1, <1>2, <1>3 DEF CallTrue, DeleteTrue, Deleting
  <2>3. call.op = "erase" /\ call.pc \in Deleting => call.found \subseteq call.todo \cup {call.id} \cup BareIn(body')
    BY <1>2, <2>1 DEF CallTrue, DeleteTrue
  <2>4. call.op = "erase" /\ Answered(call) => call.found \subseteq BareIn(body')
    BY <1>2, <2>1 DEF CallTrue, DeleteTrue
  <2> QED
    BY <2>2, <2>3, <2>4 DEF DeleteTrue
<1>6. QueryTrue(call, body', doomed', acked', erased', raced')
  <2>1. call.kept \subseteq acked /\ call.gone \subseteq erased
    BY DEF CallTrue, QueryTrue
  <2>2. call.kept \cap BareIn(body) \subseteq BareIn(body')
    BY <1>1, <1>2, <2>1
  <2>3. /\ call.rows \cup call.found \subseteq KnownIn(body', doomed')
        /\ call.op # "store" => call.todo \subseteq KnownIn(body', doomed')
        /\ call.kept \subseteq acked' /\ call.gone \subseteq erased'
        /\ call.op = "query" /\ Answered(call) => call.found \cap call.gone \subseteq raced'
    BY <1>1 DEF CallTrue, QueryTrue
  <2>4. call.pc = "read" /\ call.limit = 0 => call.kept \subseteq call.rows \cup BareIn(body')
    BY <2>2 DEF CallTrue, QueryTrue
  <2>5. call.pc \in {"load", "swap", "nearest"} =>
          /\ call.rows \cap call.gone = {}
          /\ call.q = "words" =>
                call.kept \subseteq call.rows \cup BareIn(body') \/ Cardinality(call.rows) = 2 * LimitIn(call)
    BY <2>2 DEF CallTrue, QueryTrue
  <2>6. call.op \in {"query", "erase"} /\ (call.pc \in Deleting \/ Answered(call)) /\ call.full /\ call.q = "words" =>
          call.kept \subseteq call.found \cup BareIn(body')
    BY <2>2 DEF CallTrue, QueryTrue
  <2> QED
    BY <2>3, <2>4, <2>5, <2>6 DEF QueryTrue
<1> QED
  BY <1>4, <1>5, <1>6 DEF CallTrue

\* A step of one call keeps the invariant when it is right about that call, the disk and the index.
LEMMA MemFrame ==
    ASSUME MemInv, NEW c \in MemCallers, MemGrows, MemSets, Alone(c),
           memCall'[c] = MemIdle \/ (memCall'[c] \in MemJobs /\ StepFits(memCall'[c], memSetup.provider)),
           KnownIn(body', doomed') \ KnownIn(body, doomed) \subseteq Waits(memCall[c]),
           \A k \in MemCallers : k # c => Waits(memCall'[c]) \cap Waits(memCall[k]) = {},
           CallTrue(memCall'[c], body', doomed', acked', erased', raced'), BooksAreTrue'
    PROVE  MemInv'
<1>1. MemTypeOK /\ CallsAreTrue /\ WaitsApart /\ BooksAreTrue
  BY DEF MemInv
<1>2. MemTypeOK'
  <2>1. memSetup' = memSetup
    BY DEF MemGrows
  <2> QED
    BY <1>1, <2>1 DEF MemTypeOK, MemSets, Alone
<1>3. WaitsApart'
  BY <1>1 DEF WaitsApart, Alone
<1>4. ASSUME NEW k \in MemCallers PROVE CallTrue(memCall'[k], body', doomed', acked', erased', raced')
  <2>1. CASE k = c
    BY <2>1
  <2>2. CASE k # c
    <3>1. CallTrue(memCall[k], body, doomed, acked, erased, raced)
      BY <1>1 DEF CallsAreTrue
    <3>2. Waits(memCall[k]) \cap KnownIn(body, doomed) = {}
      BY <3>1 DEF CallTrue, StoreTrue
    <3>3. Waits(memCall[k]) \cap KnownIn(body', doomed') = {}
      BY <1>1, <2>2, <3>2 DEF WaitsApart
    <3>4. memCall'[k] = memCall[k]
      BY <2>2 DEF Alone
    <3>5. CallTrue(memCall[k], body', doomed', acked', erased', raced')
      BY <1>1, <3>1, <3>3, CallStays
    <3> QED
      BY <3>4, <3>5
  <2> QED
    BY <2>1, <2>2
<1> QED
  BY <1>2, <1>3, <1>4 DEF MemInv, CallsAreTrue

\* A call in progress is typed, and knows what its part of the invariant says.
LEMMA MemJobIs ==
    ASSUME MemInv, NEW c \in MemCallers, memCall[c].pc # "idle"
    PROVE  LET a == memCall[c] IN
           /\ a \in MemJobs /\ StepFits(a, memSetup.provider)
           /\ StoreTrue(a, body, doomed) /\ DeleteTrue(a, body, doomed)
           /\ QueryTrue(a, body, doomed, acked, erased, raced)
           /\ DOMAIN memCall = MemCallers
  BY DEF MemInv, MemTypeOK, MemIdle, CallsAreTrue, CallTrue

\* A call goes on with the next entry, or returns.
Nexts(a, b, told) ==
    /\ b.op = a.op /\ b.q = a.q /\ b.limit = a.limit /\ b.kept = a.kept /\ b.gone = a.gone
    /\ b.rows = a.rows /\ b.found = a.found /\ b.full = a.full /\ b.told = told
    /\ \/ /\ a.todo # {} /\ (a.op = "store" \/ told = "ok")
          /\ b.id \in a.todo /\ b.todo = a.todo \ {b.id}
          /\ b.pc \in IF a.op = "store" THEN {"open", "embed", "write remote"} ELSE {"find", "drop", "drop remote"}
       \/ /\ ~(a.todo # {} /\ (a.op = "store" \/ told = "ok"))
          /\ b.pc = "return" /\ b.id = a.id /\ b.todo = a.todo

\* The first step of each operation, for each provider.
LEMMA FirstIs ==
    ASSUME MemTypeOK
    PROVE  LET p == memSetup.provider IN
           /\ FirstOf("store")  = IF p = "markdown" THEN "open" ELSE IF p = "vector" THEN "embed" ELSE "write remote"
           /\ FirstOf("delete") = IF p = "markdown" THEN "find" ELSE IF p = "vector" THEN "drop" ELSE "drop remote"
           /\ FirstOf("query")  = IF p = "markdown" THEN "search" ELSE IF p = "vector" THEN "words" ELSE "ask remote"
           /\ FirstOf("erase")  = FirstOf("query")
<1>1. memSetup.provider \in {"markdown", "vector", "byterover"}
  BY DEF MemTypeOK
<1>2. CASE memSetup.provider = "markdown"
  BY <1>2 DEF FirstOf
<1>3. CASE memSetup.provider = "vector"
  BY <1>3 DEF FirstOf
<1>4. CASE memSetup.provider = "byterover"
  <2> DEFINE of == [store |-> "write remote", delete |-> "drop remote", query |-> "ask remote", erase |-> "ask remote"]
  <2>1. \A op : FirstOf(op) = of[op]
    <3> HIDE DEF of
    <3> QED
      BY <1>4 DEF FirstOf, of
  <2> QED
    BY <1>4, <2>1
<1> QED
  BY <1>1, <1>2, <1>3, <1>4

\* What going on with the next entry, or returning, leaves of a call.
LEMMA NextDoes ==
    ASSUME MemInv, NEW c \in MemCallers, memCall[c].pc \in Early \cup Stored \cup Deleting,
           NEW told \in {"ok", "error"}, NextEntry(c, told)
    PROVE  LET a == memCall[c]
               b == memCall'[c]
           IN  /\ b \in MemJobs /\ StepFits(b, memSetup.provider) /\ Nexts(a, b, told) /\ Alone(c)
<1> DEFINE a == memCall[c]
           b == memCall'[c]
           p == memSetup.provider
<1>1. /\ a \in MemJobs /\ StepFits(a, p) /\ DOMAIN memCall = MemCallers /\ MemTypeOK
  BY MemJobIs DEF MemInv, Early, Stored, Deleting
<1>2. a.op \in {"store", "delete", "erase"}
  BY <1>1 DEF StepFits
<1>3. p \in {"markdown", "vector", "byterover"}
  BY <1>1 DEF MemTypeOK
<1>4. CASE a.todo # {} /\ (a.op = "store" \/ told = "ok")
  <2>1. PICK i \in a.todo : memCall' = [memCall EXCEPT ![c].id = i, ![c].todo = @ \ {i}, ![c].form = Body("plain"),
                         ![c].told = told, ![c].pc = FirstOf(IF a.op = "store" THEN "store" ELSE "delete")]
    BY <1>4 DEF NextEntry
  <2> DEFINE pc == FirstOf(IF a.op = "store" THEN "store" ELSE "delete")
             r == [a EXCEPT !.id = i, !.todo = @ \ {i}, !.form = Body("plain"), !.told = told, !.pc = pc]
  <2>2. /\ pc \in IF a.op = "store" THEN {"open", "embed", "write remote"} ELSE {"find", "drop", "drop remote"}
        /\ pc \in {"open", "find"} => p = "markdown"
        /\ pc \in {"embed", "drop"} => p = "vector"
        /\ pc \in {"write remote", "drop remote"} => p = "byterover"
    BY <1>1, <1>3, FirstIs
  <2>3. i \in MemIds /\ a.todo \subseteq MemIds
    BY <1>1 DEF MemJobs
  <2>4. Body("plain") \in Forms
    BY DEF Body, Forms, Bodies
  <2> HIDE DEF pc
  <2>5. pc \in Early \cup Deleting
    BY <2>2 DEF Early, Deleting
  <2>6. r \in MemJobs
    BY <1>1, <2>3, <2>4, <2>5 DEF MemJobs
  <2>7. /\ r.op = a.op /\ r.q = a.q /\ r.limit = a.limit /\ r.kept = a.kept /\ r.gone = a.gone
        /\ r.rows = a.rows /\ r.found = a.found /\ r.full = a.full /\ r.told = told
        /\ r.id = i /\ r.todo = a.todo \ {i} /\ r.pc = pc
    BY <1>1 DEF MemJobs
  <2>8. memCall' = [memCall EXCEPT ![c] = r]
    BY <2>1 DEF pc
  <2> HIDE DEF r
  <2>9. b = r /\ Alone(c)
    BY <1>1, <2>8 DEF Alone
  <2>10. Nexts(a, r, told)
    BY <1>4, <2>2, <2>7 DEF Nexts
  <2>11. StepFits(r, p)
    BY <1>1, <1>2, <2>2, <2>7 DEF StepFits, Early, Stored, Deleting, Asking
  <2> QED
    BY <2>6, <2>9, <2>10, <2>11
<1>5. CASE ~(a.todo # {} /\ (a.op = "store" \/ told = "ok"))
  <2> DEFINE r == [a EXCEPT !.pc = "return", !.told = told]
  <2>1. memCall' = [memCall EXCEPT ![c] = r]
    BY <1>5 DEF NextEntry
  <2>2. r \in MemJobs
    BY <1>1 DEF MemJobs
  <2>3. /\ r.op = a.op /\ r.q = a.q /\ r.limit = a.limit /\ r.kept = a.kept /\ r.gone = a.gone
        /\ r.rows = a.rows /\ r.found = a.found /\ r.full = a.full /\ r.told = told
        /\ r.id = a.id /\ r.todo = a.todo /\ r.pc = "return"
    BY <1>1 DEF MemJobs
  <2> HIDE DEF r
  <2>4. b = r /\ Alone(c)
    BY <1>1, <2>1 DEF Alone
  <2>5. Nexts(a, r, told)
    BY <1>5, <2>3 DEF Nexts
  <2>6. StepFits(r, p)
    BY <1>1, <2>3 DEF StepFits, Early, Stored, Deleting, Asking
  <2> QED
    BY <2>2, <2>4, <2>5, <2>6
<1> QED
  BY <1>4, <1>5

\* Ending with an entry keeps the invariant when what was deleted is off the disk.
LEMMA NextStep ==
    ASSUME MemInv, NEW c \in MemCallers, memCall[c].pc \in Early \cup Stored \cup Deleting,
           NEW told \in {"ok", "error"}, NextEntry(c, told), MemGrows, MemSets, BooksAreTrue',
           KnownIn(body', doomed') \ KnownIn(body, doomed) \subseteq
               IF memCall[c].pc \in Early THEN {memCall[c].id} ELSE {},
           told = "ok" /\ memCall[c].op # "store" => memCall[c].id \in BareIn(body')
    PROVE  MemInv'
<1> DEFINE a == memCall[c]
           b == memCall'[c]
           K == KnownIn(body, doomed)
           L == KnownIn(body', doomed')
<1>1. /\ a \in MemJobs /\ StepFits(a, memSetup.provider) /\ StoreTrue(a, body, doomed) /\ DeleteTrue(a, body, doomed)
      /\ QueryTrue(a, body, doomed, acked, erased, raced)
  BY MemJobIs DEF Early, Stored, Deleting
<1>2. b \in MemJobs /\ StepFits(b, memSetup.provider) /\ Nexts(a, b, told) /\ Alone(c)
  BY NextDoes
<1>3. /\ b.op = a.op /\ b.q = a.q /\ b.limit = a.limit /\ b.kept = a.kept /\ b.gone = a.gone
      /\ b.rows = a.rows /\ b.found = a.found /\ b.full = a.full /\ b.told = told
  BY <1>2 DEF Nexts
<1>4. /\ acked \subseteq acked' /\ doomed \subseteq doomed' /\ erased \subseteq erased' /\ raced \subseteq raced'
      /\ K \subseteq L
      /\ \A i \in K : body[i].is = "none" => body'[i].is = "none"
      /\ acked \subseteq K /\ doomed \subseteq K
  BY DEF MemGrows, MemInv, BooksAreTrue, KnownIn
<1>5. K \cap BareIn(body) \subseteq BareIn(body')
  BY <1>4 DEF BareIn
<1>6. a.pc \in Early <=> (a.op = "store" /\ a.pc \notin Stored)
  BY <1>1 DEF StepFits, Early, Stored, Deleting
<1>7. a.op = "store" => a.todo \cap L = {}
  <2>1. a.op = "store" => a.todo \cap K = {}
    BY <1>1 DEF StoreTrue, Waits
  <2>2. a.pc \in Early => a.id \notin a.todo
    BY <1>1 DEF StoreTrue
  <2> QED
    BY <2>1, <2>2
<1>8. Waits(b) \subseteq a.todo /\ (a.op # "store" => Waits(b) = {})
  BY <1>2, <1>3 DEF Nexts, Waits, Early
<1>9. StoreTrue(b, body', doomed')
  <2>1. b.pc \notin Stored /\ (b.pc \in Early => b.id \in a.todo /\ b.todo = a.todo \ {b.id})
    BY <1>2 DEF Nexts, Early, Stored
  <2>2. Waits(b) \cap L = {}
    BY <1>7, <1>8
  <2>3. a.todo \subseteq MemIds
    BY <1>1 DEF MemJobs
  <2> QED
    BY <2>1, <2>2, <2>3 DEF StoreTrue, Stored
<1>10. a.op # "store" => a.pc \in Deleting
  BY <1>6, <1>1 DEF StepFits, Stored
<1>11. b.pc \in Deleting => a.op # "store" /\ a.pc \in Deleting /\ told = "ok" /\ b.id \in a.todo /\ b.todo = a.todo \ {b.id}
  BY <1>2, <1>10 DEF Nexts, Deleting, Stored
<1>12. DeleteTrue(b, body', doomed')
  <2>1. a.op = "erase" => a.found \subseteq a.todo \cup {a.id} \cup BareIn(body)
    BY <1>1, <1>10 DEF DeleteTrue
  <2>2. a.found \subseteq K
    BY <1>1 DEF QueryTrue
  <2>3. a.op = "erase" => a.found \subseteq a.todo \cup {a.id} \cup BareIn(body')
    BY <1>5, <2>1, <2>2
  <2>4. b.pc \in Deleting => b.id \in doomed' /\ b.todo \subseteq doomed'
    BY <1>1, <1>4, <1>11 DEF DeleteTrue
  <2>5. b.pc \notin {"unindex", "forget"}
    BY <1>2 DEF Nexts
  <2>6. b.op = "erase" /\ b.pc \in Deleting => b.found \subseteq b.todo \cup {b.id} \cup BareIn(body')
    BY <1>3, <1>11, <2>3
  <2>7. b.op = "erase" /\ Answered(b) => b.found \subseteq BareIn(body')
    <3>1. SUFFICES ASSUME b.op = "erase", Answered(b) PROVE b.found \subseteq BareIn(body')
      OBVIOUS
    <3>2. told = "ok" /\ a.todo = {}
      BY <1>2, <1>3, <3>1 DEF Answered, Nexts
    <3> QED
      BY <1>3, <2>3, <3>1, <3>2
  <2> QED
    BY <2>4, <2>5, <2>6, <2>7 DEF DeleteTrue
<1>13. QueryTrue(b, body', doomed', acked', erased', raced')
  <2>1. /\ a.rows \cup a.found \subseteq K /\ a.kept \subseteq acked /\ a.gone \subseteq erased
        /\ a.op # "store" => a.todo \subseteq K
    BY <1>1 DEF QueryTrue
  <2>2. b.todo \subseteq a.todo
    BY <1>2 DEF Nexts
  <2>3. /\ b.rows \cup b.found \subseteq L /\ b.kept \subseteq acked' /\ b.gone \subseteq erased'
        /\ b.op # "store" => b.todo \subseteq L
    BY <1>3, <1>4, <2>1, <2>2
  <2>4. b.pc \notin {"read", "load", "swap", "nearest"} /\ a.op # "query"
    BY <1>1, <1>2 DEF Nexts, StepFits, Early, Stored, Deleting
  <2>5. a.op = "erase" /\ a.full /\ a.q = "words" => a.kept \subseteq a.found \cup BareIn(body)
    BY <1>1, <1>10 DEF QueryTrue
  <2>6. a.kept \cap BareIn(body) \subseteq BareIn(body')
    BY <1>4, <1>5, <2>1
  <2>7. b.op \in {"query", "erase"} /\ (b.pc \in Deleting \/ Answered(b)) /\ b.full /\ b.q = "words" =>
          b.kept \subseteq b.found \cup BareIn(body')
    BY <1>3, <2>4, <2>5, <2>6
  <2> QED
    BY <1>3, <2>3, <2>4, <2>7 DEF QueryTrue
<1>14. L \ K \subseteq Waits(a)
  BY <1>6 DEF Waits
<1>15. Waits(b) \subseteq Waits(a)
  BY <1>8 DEF Waits
<1>16. \A k \in MemCallers : k # c => Waits(b) \cap Waits(memCall[k]) = {}
  BY <1>15 DEF MemInv, WaitsApart
<1> QED
  BY <1>2, <1>9, <1>12, <1>13, <1>14, <1>16, MemFrame DEF CallTrue

\* What writing or removing one file or row does to the entries that are known.
LEMMA BodySet ==
    ASSUME MemInv, NEW i \in MemIds, NEW f \in Bodies, body' = [body EXCEPT ![i] = f], doomed' = doomed,
           \/ i \notin KnownIn(body, doomed)
           \/ i \in doomed /\ f.is = "none"
    PROVE  /\ body' \in [MemIds -> Bodies] /\ body'[i] = f /\ \A j \in MemIds : j # i => body'[j] = body[j]
           /\ KnownIn(body, doomed) \subseteq KnownIn(body', doomed')
           /\ KnownIn(body', doomed') \subseteq KnownIn(body, doomed) \cup {i}
           /\ f.is \in {"none", "torn"} => KnownIn(body', doomed') \subseteq KnownIn(body, doomed)
           /\ f.is \notin {"none", "torn"} => i \in KnownIn(body', doomed')
           /\ BareIn(body) \ {i} \subseteq BareIn(body')
           /\ \A j \in KnownIn(body, doomed) :
                (body[j].is = "none" => body'[j].is = "none") /\ (j \notin doomed' => body'[j] = body[j])
<1>1. body \in [MemIds -> Bodies] /\ doomed \subseteq MemIds
  BY DEF MemInv, MemTypeOK
<1>2. body' \in [MemIds -> Bodies] /\ body'[i] = f /\ \A j \in MemIds : j # i => body'[j] = body[j]
  BY <1>1
<1> QED
  BY <1>1, <1>2 DEF KnownIn, BareIn

\* The entry of a call is one that can be stored.
LEMMA EntryIs ==
    ASSUME MemInv, NEW c \in MemCallers, memCall[c].pc \in Early \cup Stored \cup Deleting
    PROVE  LET a == memCall[c] IN
           /\ a.id \in MemIds /\ a.form \in Forms /\ Forms \subseteq Bodies
           /\ a.pc \in Early => a.op = "store" /\ a.id \notin KnownIn(body, doomed) /\ a.id \notin acked
           /\ a.pc \in Stored => a.op = "store" /\ a.id \in KnownIn(body, doomed)
           /\ a.pc \in Deleting => a.op # "store" /\ a.id \in doomed
<1> DEFINE a == memCall[c]
<1>1. /\ a \in MemJobs /\ StepFits(a, memSetup.provider) /\ StoreTrue(a, body, doomed) /\ DeleteTrue(a, body, doomed)
  BY MemJobIs DEF Early, Stored, Deleting
<1>2. doomed \subseteq MemIds /\ acked \subseteq KnownIn(body, doomed)
  BY DEF MemInv, MemTypeOK, BooksAreTrue
<1>3. KnownIn(body, doomed) \subseteq MemIds
  BY <1>2 DEF KnownIn
<1>4. a.form \in Forms /\ Forms \subseteq Bodies
  BY <1>1 DEF MemJobs, Forms
<1>5. CASE a.pc \in Early
  <2>1. a.op = "store" /\ a.id \in MemIds /\ Waits(a) \cap KnownIn(body, doomed) = {}
    BY <1>1, <1>5 DEF StepFits, StoreTrue
  <2>2. a.id \notin KnownIn(body, doomed)
    BY <1>5, <2>1 DEF Waits
  <2> QED
    BY <1>2, <1>4, <1>5, <2>1, <2>2 DEF Early, Stored, Deleting
<1>6. CASE a.pc \in Stored
  BY <1>1, <1>3, <1>4, <1>6 DEF StepFits, StoreTrue, Early, Stored, Deleting
<1>7. CASE a.pc \in Deleting
  BY <1>1, <1>2, <1>4, <1>7 DEF StepFits, DeleteTrue, Early, Stored, Deleting
<1> QED
  BY <1>5, <1>6, <1>7

\* A call comes a step further with the same entry.
SameEntry(a, b) ==
    /\ b.op = a.op /\ b.q = a.q /\ b.limit = a.limit /\ b.kept = a.kept /\ b.gone = a.gone
    /\ b.rows = a.rows /\ b.found = a.found /\ b.full = a.full /\ b.id = a.id /\ b.todo = a.todo

\* A call goes on with the same entry.
LEMMA GoesOn ==
    ASSUME MemInv, NEW c \in MemCallers, memCall[c].pc \in Early \cup Stored \cup Deleting,
           NEW pc \in Early \cup Stored \cup Deleting, NEW form \in Forms,
           \/ memCall' = [memCall EXCEPT ![c].pc = pc, ![c].form = form]
           \/ MemGo(c, pc) /\ form = memCall[c].form
    PROVE  LET b == memCall'[c]
           IN  b \in MemJobs /\ SameEntry(memCall[c], b) /\ b.pc = pc /\ b.form = form /\ Alone(c)
<1> DEFINE a == memCall[c]
           r == [a EXCEPT !.pc = pc, !.form = form]
<1>1. a \in MemJobs /\ DOMAIN memCall = MemCallers
  BY MemJobIs DEF Early, Stored, Deleting
<1>2. r \in MemJobs
  BY <1>1 DEF MemJobs
<1>3. SameEntry(a, r) /\ r.pc = pc /\ r.form = form
  BY <1>1 DEF MemJobs, SameEntry
<1>4. CASE memCall' = [memCall EXCEPT ![c].pc = pc, ![c].form = form]
  <2>1. memCall' = [memCall EXCEPT ![c] = r]
    BY <1>4
  <2> HIDE DEF r
  <2> QED
    BY <1>1, <1>2, <1>3, <2>1 DEF Alone
<1>5. CASE MemGo(c, pc) /\ form = a.form
  <2>1. [a EXCEPT !.pc = pc] = r
    BY <1>1, <1>5 DEF MemJobs
  <2>2. memCall' = [memCall EXCEPT ![c] = r]
    BY <1>5, <2>1 DEF MemGo
  <2> HIDE DEF r
  <2> QED
    BY <1>1, <1>2, <1>3, <2>2 DEF Alone
<1> QED
  BY <1>4, <1>5

\* A step of a store that goes on with its entry keeps the invariant.
LEMMA StoreStep ==
    ASSUME MemInv, NEW c \in MemCallers, memCall[c].pc \in Early, memCall'[c] \in MemJobs,
           StepFits(memCall'[c], memSetup.provider), SameEntry(memCall[c], memCall'[c]), Alone(c),
           MemGrows, MemSets, BooksAreTrue', memCall'[c].pc \in Early \cup Stored,
           KnownIn(body', doomed') \ KnownIn(body, doomed) \subseteq
               IF memCall'[c].pc \in Stored THEN {memCall[c].id} ELSE {},
           memCall'[c].pc \in Stored => memCall[c].id \in KnownIn(body', doomed'),
           memCall'[c].pc = "put" => body'[memCall[c].id] = memCall'[c].form
    PROVE  MemInv'
<1> DEFINE a == memCall[c]
           b == memCall'[c]
           K == KnownIn(body, doomed)
           L == KnownIn(body', doomed')
<1>1. /\ a \in MemJobs /\ StepFits(a, memSetup.provider) /\ StoreTrue(a, body, doomed)
      /\ QueryTrue(a, body, doomed, acked, erased, raced)
  BY MemJobIs DEF Early
<1>2. a.op = "store" /\ a.id \in MemIds \ a.todo /\ Waits(a) \cap K = {}
  BY <1>1 DEF StepFits, StoreTrue
<1>3. /\ b.op = a.op /\ b.q = a.q /\ b.limit = a.limit /\ b.kept = a.kept /\ b.gone = a.gone
      /\ b.rows = a.rows /\ b.found = a.found /\ b.full = a.full /\ b.id = a.id /\ b.todo = a.todo
  BY DEF SameEntry
<1>4. /\ acked \subseteq acked' /\ erased \subseteq erased' /\ K \subseteq L
  BY DEF MemGrows
<1>5. Waits(a) = {a.id} \cup a.todo /\ Waits(b) = (IF b.pc \in Stored THEN {} ELSE {a.id}) \cup a.todo
  BY <1>2, <1>3 DEF Waits, Early, Stored
<1>6. StoreTrue(b, body', doomed')
  <2>1. Waits(b) \cap L = {}
    BY <1>2, <1>5
  <2> QED
    BY <1>2, <1>3, <2>1 DEF StoreTrue, Stored
<1>7. b.pc \notin Deleting \cup {"return", "read", "load", "swap", "nearest", "unindex", "forget"}
  BY DEF Early, Stored, Deleting
<1>8. DeleteTrue(b, body', doomed')
  BY <1>7 DEF DeleteTrue, Answered
<1>9. QueryTrue(b, body', doomed', acked', erased', raced')
  BY <1>1, <1>2, <1>3, <1>4, <1>7 DEF QueryTrue, Answered
<1>10. L \ K \subseteq Waits(a)
  BY <1>5
<1>11. \A k \in MemCallers : k # c => Waits(b) \cap Waits(memCall[k]) = {}
  BY <1>5 DEF MemInv, WaitsApart
<1> QED
  BY <1>6, <1>8, <1>9, <1>10, <1>11, MemFrame DEF CallTrue

\* A step of a deletion that goes on with its entry keeps the invariant.
LEMMA DeleteStep ==
    ASSUME MemInv, NEW c \in MemCallers, memCall[c].pc \in Deleting, memCall'[c] \in MemJobs,
           StepFits(memCall'[c], memSetup.provider), SameEntry(memCall[c], memCall'[c]), Alone(c),
           MemGrows, MemSets, BooksAreTrue', memCall'[c].pc \in Deleting,
           KnownIn(body', doomed') \subseteq KnownIn(body, doomed),
           memCall'[c].pc \in {"unindex", "forget"} => memCall[c].id \in BareIn(body')
    PROVE  MemInv'
<1> DEFINE a == memCall[c]
           b == memCall'[c]
           K == KnownIn(body, doomed)
           L == KnownIn(body', doomed')
<1>1. /\ a \in MemJobs /\ StepFits(a, memSetup.provider) /\ DeleteTrue(a, body, doomed)
      /\ QueryTrue(a, body, doomed, acked, erased, raced)
  BY MemJobIs DEF Deleting
<1>2. a.op \in {"delete", "erase"}
  BY <1>1 DEF StepFits
<1>3. /\ b.op = a.op /\ b.q = a.q /\ b.limit = a.limit /\ b.kept = a.kept /\ b.gone = a.gone
      /\ b.rows = a.rows /\ b.found = a.found /\ b.full = a.full /\ b.id = a.id /\ b.todo = a.todo
  BY DEF SameEntry
<1>4. /\ acked \subseteq acked' /\ erased \subseteq erased' /\ doomed \subseteq doomed' /\ K \subseteq L
      /\ \A i \in K : body[i].is = "none" => body'[i].is = "none"
      /\ acked \subseteq K
  BY DEF MemGrows, MemInv, BooksAreTrue
<1>5. K \cap BareIn(body) \subseteq BareIn(body')
  BY <1>4 DEF BareIn
<1>6. Waits(b) = {}
  BY <1>2, <1>3 DEF Waits
<1>7. b.pc \notin Early \cup Stored \cup {"return", "read", "load", "swap", "nearest"}
  BY DEF Early, Stored, Deleting
<1>8. StoreTrue(b, body', doomed')
  BY <1>6, <1>7 DEF StoreTrue, Stored
<1>9. a.found \subseteq K /\ a.kept \subseteq K
  BY <1>1, <1>4 DEF QueryTrue
<1>10. DeleteTrue(b, body', doomed')
  <2>1. a.op = "erase" => a.found \subseteq a.todo \cup {a.id} \cup BareIn(body')
    BY <1>1, <1>5, <1>9 DEF DeleteTrue
  <2> QED
    BY <1>1, <1>3, <1>4, <1>7, <2>1 DEF DeleteTrue, Answered
<1>11. QueryTrue(b, body', doomed', acked', erased', raced')
  <2>1. a.op = "erase" /\ a.full /\ a.q = "words" => a.kept \subseteq a.found \cup BareIn(body')
    BY <1>1, <1>5, <1>9 DEF QueryTrue
  <2>2. /\ a.rows \cup a.found \subseteq L /\ a.kept \subseteq acked' /\ a.gone \subseteq erased' /\ a.todo \subseteq L
    BY <1>1, <1>2, <1>4 DEF QueryTrue
  <2> QED
    BY <1>2, <1>3, <1>7, <2>1, <2>2 DEF QueryTrue, Answered
<1> QED
  BY <1>6, <1>8, <1>10, <1>11, MemFrame DEF CallTrue

\* Nothing but the bounds and the calls change.
LEMMA StoreRests ==
    ASSUME MemInv, UNCHANGED <<memSetup, memStore, encKey, memSeen>>
    PROVE  MemGrows /\ MemSets /\ BooksAreTrue' /\ KnownIn(body', doomed') = KnownIn(body, doomed)
<1>1. /\ memSetup' = memSetup /\ body' = body /\ memIndex' = memIndex /\ savedIndex' = savedIndex
      /\ vecLoaded' = vecLoaded /\ encKey' = encKey /\ acked' = acked /\ doomed' = doomed /\ erased' = erased
      /\ raced' = raced
  BY DEF memStore, memSeen
<1> QED
  BY <1>1 DEF MemInv, MemTypeOK, MemGrows, MemSets, BooksAreTrue, KnownIn, BareIn, StoreIs, Embedded

\* A failure that leaves the disk and the index alone keeps the invariant.
LEMMA FailStep ==
    ASSUME MemInv, NEW c \in MemCallers, memCall[c].pc \in Early \cup Stored \cup Deleting, NextEntry(c, "error"),
           UNCHANGED <<memSetup, memStore, encKey, memSeen>>
    PROVE  MemInv'
BY NextStep, StoreRests

\* WriteFile makes the file, whose entry nobody knows yet.
LEMMA OpenEntryStep == ASSUME MemInv, NEW c \in MemCallers, OpenEntry(c) PROVE MemInv'
<1> DEFINE a == memCall[c]
           i == a.id
<1>1. /\ a.pc = "open" /\ memSetup' = memSetup /\ memIndex' = memIndex /\ savedIndex' = savedIndex
      /\ vecLoaded' = vecLoaded /\ encKey' = encKey /\ doomed' = doomed /\ raced' = raced
  BY DEF OpenEntry, MemAt
<1>2. a.pc \in Early
  BY <1>1 DEF Early
<1>3. i \in MemIds /\ a.form \in Forms /\ Forms \subseteq Bodies /\ i \notin KnownIn(body, doomed) /\ a.op = "store"
  BY <1>2, EntryIs
<1>4. a \in MemJobs /\ StepFits(a, memSetup.provider)
  BY <1>1, MemJobIs
<1>5. CASE EntryFails(c) /\ UNCHANGED body
  <2>1. NextEntry(c, "error") /\ UNCHANGED <<memSetup, memStore, encKey, memSeen>>
    BY <1>1, <1>5 DEF EntryFails, memStore, memSeen
  <2> QED
    BY <1>2, <2>1, FailStep
<1>6. CASE ~(EntryFails(c) /\ UNCHANGED body)
  <2>1. body' = [body EXCEPT ![i] = Body("torn")] /\ acked' = acked /\ erased' = erased
    BY <1>6 DEF OpenEntry
  <2>2. \E form \in Forms : \/ memCall' = [memCall EXCEPT ![c].pc = "fill", ![c].form = form]
                            \/ MemGo(c, "fill") /\ form = a.form
    <3>1. encKey \in Nat
      BY DEF MemInv, MemTypeOK
    <3>2. Sealed(encKey) \in Forms /\ Body("plain") \in Forms
      BY <3>1 DEF Sealed, Body, Forms, Bodies
    <3>3. (IF memSetup.encrypting THEN Sealed(encKey) ELSE Body("plain")) \in Forms
      BY <3>2
    <3>4. \/ memCall' = [memCall EXCEPT ![c].pc = "fill",
                           ![c].form = IF memSetup.encrypting THEN Sealed(encKey) ELSE Body("plain")]
          \/ MemGo(c, "fill")
      BY <1>6 DEF OpenEntry
    <3> QED
      BY <1>3, <3>3, <3>4
  <2>3. PICK form \in Forms : \/ memCall' = [memCall EXCEPT ![c].pc = "fill", ![c].form = form]
                              \/ MemGo(c, "fill") /\ form = a.form
    BY <2>2
  <2> DEFINE b == memCall'[c]
  <2>4. b \in MemJobs /\ SameEntry(a, b) /\ b.pc = "fill" /\ Alone(c)
    <3>1. "fill" \in Early
      BY DEF Early
    <3> QED
      BY <1>2, <2>3, <3>1, GoesOn
  <2> DEFINE f == Body("torn")
  <2>5. f \in Bodies /\ f.is = "torn" /\ body' = [body EXCEPT ![i] = f]
    BY <2>1 DEF Body, Bodies
  <2> HIDE DEF f
  <2>6. /\ body' \in [MemIds -> Bodies] /\ body'[i].is = "torn" /\ \A j \in MemIds : j # i => body'[j] = body[j]
        /\ KnownIn(body, doomed) = KnownIn(body', doomed')
        /\ BareIn(body) \ {i} \subseteq BareIn(body')
        /\ \A j \in KnownIn(body, doomed) :
              (body[j].is = "none" => body'[j].is = "none") /\ (j \notin doomed' => body'[j] = body[j])
    <3>1. doomed' = doomed /\ i \notin KnownIn(body, doomed) /\ i \in MemIds
      BY <1>1, <1>3
    <3> HIDE DEF i
    <3>2. /\ body' \in [MemIds -> Bodies] /\ body'[i] = f /\ \A j \in MemIds : j # i => body'[j] = body[j]
          /\ KnownIn(body, doomed) \subseteq KnownIn(body', doomed')
          /\ f.is \in {"none", "torn"} => KnownIn(body', doomed') \subseteq KnownIn(body, doomed)
          /\ BareIn(body) \ {i} \subseteq BareIn(body')
          /\ \A j \in KnownIn(body, doomed) :
                (body[j].is = "none" => body'[j].is = "none") /\ (j \notin doomed' => body'[j] = body[j])
      BY <3>1, <2>5, BodySet
    <3> QED
      BY <2>5, <3>2
  <2>7. MemGrows
    BY <1>1, <2>1, <2>6 DEF MemGrows
  <2>8. MemSets
    BY <1>1, <2>1, <2>6 DEF MemSets, MemInv, MemTypeOK
  <2>9. BooksAreTrue'
    <3>1. BooksAreTrue /\ memSetup.provider = "markdown"
      BY <1>1, <1>4 DEF MemInv, StepFits
    <3>2. i \notin acked /\ i \notin doomed /\ i \notin erased
      BY <1>3, <3>1 DEF BooksAreTrue, KnownIn
    <3>3. doomed \subseteq MemIds
      BY DEF MemInv, MemTypeOK
    <3> QED
      BY <1>1, <2>1, <2>6, <3>1, <3>2, <3>3 DEF BooksAreTrue, StoreIs
  <2>10. StepFits(b, memSetup.provider)
    BY <1>1, <1>4, <2>4 DEF StepFits, SameEntry, Early, Stored, Deleting, Asking
  <2>11. "fill" \in Early /\ "fill" \notin Stored
    BY DEF Early, Stored
  <2> QED
    BY <1>2, <2>4, <2>6, <2>7, <2>8, <2>9, <2>10, <2>11, StoreStep
<1> QED
  BY <1>5, <1>6

\* The file is filled, or the row is inserted: the entry is known.
LEMMA WriteEntryStep == ASSUME MemInv, NEW c \in MemCallers, WriteEntry(c) \/ Upsert(c) PROVE MemInv'
<1> DEFINE a  == memCall[c]
           i  == a.id
           pc == IF a.pc = "fill" THEN "index" ELSE "put"
<1>1. /\ a.pc \in {"fill", "upsert"} /\ memSetup' = memSetup /\ memIndex' = memIndex /\ savedIndex' = savedIndex
      /\ vecLoaded' = vecLoaded /\ encKey' = encKey /\ doomed' = doomed /\ raced' = raced
  BY DEF WriteEntry, Upsert, MemAt
<1>2. a.pc \in Early
  BY <1>1 DEF Early
<1>3. /\ i \in MemIds /\ a.form \in Forms /\ Forms \subseteq Bodies /\ i \notin KnownIn(body, doomed) /\ a.op = "store"
      /\ i \notin acked
  BY <1>2, EntryIs
<1>4. a \in MemJobs /\ StepFits(a, memSetup.provider)
  BY <1>1, MemJobIs
<1>5. CASE EntryFails(c) /\ UNCHANGED body
  <2>1. NextEntry(c, "error") /\ UNCHANGED <<memSetup, memStore, encKey, memSeen>>
    BY <1>1, <1>5 DEF EntryFails, memStore, memSeen
  <2> QED
    BY <1>2, <2>1, FailStep
<1>6. CASE ~(EntryFails(c) /\ UNCHANGED body)
  <2> DEFINE b == memCall'[c]
  <2>1. body' = [body EXCEPT ![i] = a.form] /\ MemGo(c, pc) /\ acked' = acked /\ erased' = erased
    BY <1>6 DEF WriteEntry, Upsert, MemAt
  <2>2. pc \in Stored /\ pc \notin Early
    BY DEF Early, Stored
  <2>3. b \in MemJobs /\ SameEntry(a, b) /\ b.pc = pc /\ b.form = a.form /\ Alone(c)
    <3> HIDE DEF pc
    <3> QED
      BY <1>2, <1>3, <2>1, <2>2, GoesOn
  <2>4. a.form.is \notin {"none", "torn"}
    BY <1>3 DEF Forms
  <2>5. /\ body' \in [MemIds -> Bodies] /\ body'[i] = a.form /\ \A j \in MemIds : j # i => body'[j] = body[j]
        /\ KnownIn(body, doomed) \subseteq KnownIn(body', doomed')
        /\ KnownIn(body', doomed') \subseteq KnownIn(body, doomed) \cup {i}
        /\ i \in KnownIn(body', doomed')
        /\ BareIn(body) \ {i} \subseteq BareIn(body')
        /\ \A j \in KnownIn(body, doomed) :
              (body[j].is = "none" => body'[j].is = "none") /\ (j \notin doomed' => body'[j] = body[j])
    <3>1. /\ doomed' = doomed /\ i \in MemIds /\ a.form \in Bodies /\ i \notin KnownIn(body, doomed)
          /\ body' = [body EXCEPT ![i] = a.form]
      BY <1>1, <1>3, <2>1
    <3> HIDE DEF i
    <3> QED
      BY <2>4, <3>1, BodySet
  <2>6. MemGrows
    BY <1>1, <2>1, <2>5 DEF MemGrows
  <2>7. MemSets
    BY <1>1, <2>1, <2>5 DEF MemSets, MemInv, MemTypeOK
  <2>8. BooksAreTrue'
    <3>1. BooksAreTrue
      BY DEF MemInv
    <3>2. i \notin acked /\ i \notin doomed /\ i \notin erased
      BY <1>3, <3>1 DEF BooksAreTrue, KnownIn
    <3>3. doomed \subseteq MemIds /\ acked \subseteq MemIds
      BY DEF MemInv, MemTypeOK
    <3>4. (acked \ doomed) \cap Embedded' \subseteq Embedded
      BY <2>5, <3>2, <3>3 DEF Embedded
    <3> QED
      BY <1>1, <2>1, <2>5, <3>1, <3>2, <3>3, <3>4 DEF BooksAreTrue, StoreIs
  <2>9. StepFits(b, memSetup.provider)
    BY <1>1, <1>4, <2>3 DEF StepFits, SameEntry, Early, Stored, Deleting, Asking
  <2> QED
    BY <1>2, <2>2, <2>3, <2>5, <2>6, <2>7, <2>8, <2>9, StoreStep
<1> QED
  BY <1>5, <1>6

\* The embedding decides the form of the row.
LEMMA EmbedStep == ASSUME MemInv, NEW c \in MemCallers, EmbedEntry(c) PROVE MemInv'
<1> DEFINE a == memCall[c]
           b == memCall'[c]
<1>1. a.pc = "embed" /\ UNCHANGED <<memSetup, memStore, encKey, memSeen>>
  BY DEF EmbedEntry, MemAt
<1>2. a.pc \in Early /\ "upsert" \in Early /\ "upsert" \notin Stored
  BY <1>1 DEF Early, Stored
<1>3. a \in MemJobs /\ StepFits(a, memSetup.provider) /\ a.form \in Forms
  BY <1>1, <1>2, MemJobIs, EntryIs
<1>4. Body("vector") \in Forms
  BY DEF Body, Forms, Bodies
<1>5. \/ memCall' = [memCall EXCEPT ![c].pc = "upsert", ![c].form = Body("vector")]
      \/ MemGo(c, "upsert")
  BY DEF EmbedEntry
<1>6. b \in MemJobs /\ SameEntry(a, b) /\ b.pc = "upsert" /\ Alone(c)
  BY <1>2, <1>3, <1>4, <1>5, GoesOn
<1>7. StepFits(b, memSetup.provider)
  BY <1>1, <1>3, <1>6 DEF StepFits, SameEntry, Early, Stored, Deleting, Asking
<1> QED
  BY <1>1, <1>2, <1>6, <1>7, StoreRests, StoreStep

\* An index that holds less than before may hold any part of it; what is stored is on disk.
LEMMA AddToIndexStep == ASSUME MemInv, NEW c \in MemCallers, AddToIndex(c) PROVE MemInv'
<1> DEFINE a == memCall[c]
           i == a.id
<1>1. /\ a.pc = "index" /\ memSetup' = memSetup /\ body' = body /\ memIndex' = memIndex \cup {i}
      /\ vecLoaded' = vecLoaded /\ encKey' = encKey /\ doomed' = doomed /\ raced' = raced
  BY DEF AddToIndex, MemAt
<1>2. a.pc \in Stored
  BY <1>1 DEF Stored
<1>3. i \in MemIds /\ i \in KnownIn(body, doomed) /\ a.op = "store" /\ a.pc \notin Early
  BY <1>1, <1>2, EntryIs DEF Early
<1>4. memSetup.provider = "markdown" /\ BooksAreTrue /\ MemTypeOK
  BY <1>1, MemJobIs DEF StepFits, MemInv
<1>5. \/ savedIndex' = memIndex' /\ acked' = acked \cup {i} /\ erased' = erased /\ NextEntry(c, "ok")
      \/ savedIndex' = savedIndex /\ acked' = acked /\ erased' = erased /\ NextEntry(c, "error")
  BY <1>3 DEF AddToIndex, EntryDone, EntryFails, Save
<1>6. MemGrows /\ MemSets /\ KnownIn(body', doomed') = KnownIn(body, doomed)
  BY <1>1, <1>3, <1>4, <1>5 DEF MemGrows, MemSets, MemTypeOK
<1>7. BooksAreTrue'
  BY <1>1, <1>3, <1>4, <1>5 DEF BooksAreTrue, StoreIs
<1> QED
  BY <1>2, <1>3, <1>5, <1>6, <1>7, NextStep

\* An entry that the index does not have cannot be deleted.
LEMMA GetFilenameStep == ASSUME MemInv, NEW c \in MemCallers, GetFilename(c) PROVE MemInv'
<1> DEFINE a == memCall[c]
           b == memCall'[c]
<1>1. a.pc = "find" /\ UNCHANGED <<memSetup, memStore, encKey, memSeen>> /\ (MemGo(c, "unlink") \/ NextEntry(c, "error"))
  BY DEF GetFilename, MemAt
<1>2. a.pc \in Deleting /\ "unlink" \in Deleting
  BY <1>1 DEF Deleting
<1>3. CASE NextEntry(c, "error")
  BY <1>1, <1>2, <1>3, FailStep
<1>4. CASE MemGo(c, "unlink")
  <2>1. b \in MemJobs /\ SameEntry(a, b) /\ b.pc = "unlink" /\ Alone(c)
    BY <1>2, <1>4, EntryIs, GoesOn
  <2>2. StepFits(b, memSetup.provider)
    BY <1>1, <2>1, MemJobIs DEF StepFits, SameEntry, Early, Stored, Deleting, Asking
  <2> QED
    BY <1>1, <1>2, <2>1, <2>2, StoreRests, DeleteStep
<1> QED
  BY <1>1, <1>3, <1>4

\* What the disk and the index say when an entry that somebody deletes is removed.
LEMMA DropKeeps ==
    ASSUME MemInv, NEW i \in doomed, body' = [body EXCEPT ![i] = Body("none")],
           UNCHANGED <<memSetup, memIndex, savedIndex, vecLoaded, encKey, doomed, raced, acked>>,
           erased' = erased \/ (erased' = erased \cup {i} /\ ~StoreIs("vector"))
    PROVE  /\ MemGrows /\ MemSets /\ BooksAreTrue' /\ KnownIn(body', doomed') = KnownIn(body, doomed)
           /\ i \in BareIn(body')
<1>1. MemTypeOK /\ BooksAreTrue /\ i \in MemIds
  BY DEF MemInv, MemTypeOK
<1> DEFINE f == Body("none")
<1>2. f \in Bodies /\ f.is = "none" /\ body' = [body EXCEPT ![i] = f]
  BY DEF Body, Bodies
<1> HIDE DEF f
<1>3. /\ body' \in [MemIds -> Bodies] /\ body'[i].is = "none" /\ \A j \in MemIds : j # i => body'[j] = body[j]
      /\ KnownIn(body, doomed) = KnownIn(body', doomed')
      /\ BareIn(body) \ {i} \subseteq BareIn(body')
      /\ \A j \in KnownIn(body, doomed) :
            (body[j].is = "none" => body'[j].is = "none") /\ (j \notin doomed' => body'[j] = body[j])
  BY <1>1, <1>2, BodySet
<1>4. i \in BareIn(body') /\ BareIn(body) \subseteq BareIn(body')
  BY <1>1, <1>3 DEF BareIn
<1>5. MemGrows
  BY <1>3 DEF MemGrows
<1>6. MemSets
  BY <1>1, <1>3 DEF MemSets, MemTypeOK
<1>7. (acked \ doomed) \cap Embedded' \subseteq Embedded
  BY <1>1, <1>3 DEF Embedded, MemTypeOK
<1>8. \A j \in doomed : body'[j].is # "torn"
  BY <1>1, <1>3 DEF BooksAreTrue, MemTypeOK
<1>9. BooksAreTrue'
  BY <1>1, <1>3, <1>4, <1>7, <1>8 DEF BooksAreTrue, StoreIs
<1> QED
  BY <1>3, <1>4, <1>5, <1>6, <1>9

\* The file or the row goes, as somebody asked for it.
LEMMA RemoveFileStep == ASSUME MemInv, NEW c \in MemCallers, RemoveFile(c) \/ DropRow(c) PROVE MemInv'
<1> DEFINE a  == memCall[c]
           b  == memCall'[c]
           i  == a.id
           pc == IF a.pc = "unlink" THEN "unindex" ELSE "forget"
<1>1. /\ a.pc \in {"unlink", "drop"} /\ memSetup' = memSetup /\ memIndex' = memIndex /\ savedIndex' = savedIndex
      /\ vecLoaded' = vecLoaded /\ encKey' = encKey /\ doomed' = doomed /\ raced' = raced
  BY DEF RemoveFile, DropRow, MemAt
<1>2. a.pc \in Deleting /\ pc \in Deleting
  BY <1>1 DEF Deleting
<1>3. \/ body' = [body EXCEPT ![i] = Body("none")] /\ MemGo(c, pc) /\ acked' = acked /\ erased' = erased
      \/ body' = body /\ NextEntry(c, "error") /\ acked' = acked /\ erased' = erased
  BY DEF RemoveFile, DropRow, MemAt, EntryFails
<1>4. CASE body' = body /\ NextEntry(c, "error") /\ acked' = acked /\ erased' = erased
  <2>1. UNCHANGED <<memSetup, memStore, encKey, memSeen>>
    BY <1>1, <1>4 DEF memStore, memSeen
  <2> QED
    BY <1>2, <1>4, <2>1, FailStep
<1>5. CASE body' = [body EXCEPT ![i] = Body("none")] /\ MemGo(c, pc) /\ acked' = acked /\ erased' = erased
  <2>1. i \in doomed /\ a.form \in Forms
    BY <1>2, EntryIs
  <2>2. /\ MemGrows /\ MemSets /\ BooksAreTrue' /\ KnownIn(body', doomed') = KnownIn(body, doomed)
        /\ i \in BareIn(body')
    BY <1>1, <1>5, <2>1, DropKeeps
  <2>3. b \in MemJobs /\ SameEntry(a, b) /\ b.pc = pc /\ b.form = a.form /\ Alone(c)
    <3> HIDE DEF pc
    <3> QED
      BY <1>2, <1>5, <2>1, GoesOn
  <2>4. StepFits(b, memSetup.provider)
    BY <1>1, <2>3, MemJobIs DEF StepFits, SameEntry, Early, Stored, Deleting, Asking
  <2> QED
    BY <1>2, <2>2, <2>3, <2>4, DeleteStep
<1> QED
  BY <1>3, <1>4, <1>5

\* The entry leaves the index after it left the disk.
LEMMA RemoveIndexStep == ASSUME MemInv, NEW c \in MemCallers, RemoveFromIndex(c) \/ RemoveVector(c) PROVE MemInv'
<1> DEFINE a == memCall[c]
           i == a.id
<1>1. /\ a.pc \in {"unindex", "forget"} /\ memSetup' = memSetup /\ body' = body /\ memIndex' = memIndex \ {i}
      /\ vecLoaded' = vecLoaded /\ encKey' = encKey /\ doomed' = doomed /\ raced' = raced
  BY DEF RemoveFromIndex, RemoveVector, MemAt
<1>2. a.pc \in Deleting
  BY <1>1 DEF Deleting
<1>3. i \in doomed /\ i \in MemIds /\ a.op # "store" /\ a.pc \notin Early /\ i \in BareIn(body)
  BY <1>1, <1>2, EntryIs, MemJobIs DEF Early, DeleteTrue
<1>4. BooksAreTrue /\ MemTypeOK /\ StepFits(a, memSetup.provider)
  BY <1>1, MemJobIs DEF MemInv
<1>5. a.pc = "unindex" => memSetup.provider = "markdown"
  BY <1>4 DEF StepFits
<1>6. a.pc = "forget" => memSetup.provider = "vector" /\ savedIndex' = savedIndex
  BY <1>4 DEF StepFits, RemoveFromIndex, RemoveVector, MemAt
<1>7. /\ acked' = acked /\ savedIndex' \in {savedIndex, memIndex'}
      /\ \/ erased' = erased \cup {i} /\ NextEntry(c, "ok")
         \/ erased' = erased /\ NextEntry(c, "error")
  BY <1>3 DEF RemoveFromIndex, RemoveVector, EntryDone, EntryFails, Save
<1>8. MemGrows /\ MemSets /\ KnownIn(body', doomed') = KnownIn(body, doomed)
  BY <1>1, <1>3, <1>4, <1>7 DEF MemGrows, MemSets, MemTypeOK
<1>9. BooksAreTrue'
  <2>1. acked' \cup memIndex' \cup savedIndex' \subseteq KnownIn(body', doomed')
    BY <1>1, <1>4, <1>7, <1>8 DEF BooksAreTrue
  <2>2. StoreIs("markdown") => acked' \subseteq BareIn(body') \cup (memIndex' \cap savedIndex')
    BY <1>1, <1>3, <1>4, <1>7 DEF BooksAreTrue
  <2>3. (acked' \ doomed') \cap Embedded' \subseteq (acked \ doomed) \cap Embedded
    BY <1>1, <1>7 DEF Embedded
  <2>4. StoreIs("vector") /\ vecLoaded' => (acked' \ doomed') \cap Embedded' \subseteq memIndex' \cup raced'
    BY <1>1, <1>3, <1>4, <2>3 DEF BooksAreTrue
  <2>5. erased' \subseteq doomed' \cap BareIn(body')
    BY <1>1, <1>3, <1>4, <1>7 DEF BooksAreTrue
  <2>6. StoreIs("vector") => memIndex' \cap erased' \subseteq raced'
    BY <1>1, <1>4, <1>7 DEF BooksAreTrue
  <2>7. \A j \in doomed' : body'[j].is # "torn"
    BY <1>1, <1>4 DEF BooksAreTrue
  <2> QED
    BY <1>1, <2>1, <2>2, <2>4, <2>5, <2>6, <2>7 DEF BooksAreTrue, StoreIs
<1> QED
  BY <1>1, <1>2, <1>3, <1>7, <1>8, <1>9, NextStep

\* The embedding enters the index; when its row has changed meanwhile, the entry has raced.
LEMMA PutVectorStep == ASSUME MemInv, NEW c \in MemCallers, PutVector(c) PROVE MemInv'
<1> DEFINE a    == memCall[c]
           i    == a.id
           puts == IF a.form.is = "vector" /\ vecLoaded THEN {i} ELSE {}
<1>1. /\ a.pc = "put" /\ memSetup' = memSetup /\ body' = body /\ memIndex' = memIndex \cup puts /\ savedIndex' = savedIndex
      /\ vecLoaded' = vecLoaded /\ encKey' = encKey /\ doomed' = doomed /\ raced' = raced \cup (puts \ Embedded)
  BY DEF PutVector, MemAt
<1>2. a.pc \in Stored
  BY <1>1 DEF Stored
<1>3. i \in MemIds /\ i \in KnownIn(body, doomed) /\ a.op = "store" /\ a.pc \notin Early
  BY <1>1, <1>2, EntryIs DEF Early
<1>4. /\ memSetup.provider = "vector" /\ BooksAreTrue /\ MemTypeOK
      /\ body[i] = a.form \/ i \in doomed
  BY <1>1, MemJobIs DEF StepFits, MemInv, StoreTrue
<1>5. acked' = acked \cup {i} /\ erased' = erased /\ NextEntry(c, "ok")
  BY <1>3 DEF PutVector, EntryDone
<1>6. puts \subseteq {i} /\ (i \notin doomed /\ i \in Embedded /\ vecLoaded => puts = {i})
  BY <1>4 DEF Embedded
<1>7. puts \cap erased \subseteq puts \ Embedded
  BY <1>4 DEF BooksAreTrue, BareIn, Embedded
<1> HIDE DEF puts
<1>8. MemGrows /\ MemSets /\ KnownIn(body', doomed') = KnownIn(body, doomed)
  BY <1>1, <1>3, <1>4, <1>5, <1>6 DEF MemGrows, MemSets, MemTypeOK
<1>9. BooksAreTrue'
  <2>1. acked' \cup memIndex' \cup savedIndex' \subseteq KnownIn(body', doomed')
    BY <1>1, <1>3, <1>4, <1>5, <1>6 DEF BooksAreTrue
  <2>2. Embedded' = Embedded
    BY <1>1 DEF Embedded
  <2>3. vecLoaded' => (acked' \ doomed') \cap Embedded' \subseteq memIndex' \cup raced'
    BY <1>1, <1>4, <1>5, <1>6, <2>2 DEF BooksAreTrue, StoreIs
  <2>4. memIndex' \cap erased' \subseteq raced'
    BY <1>1, <1>4, <1>5, <1>7 DEF BooksAreTrue, StoreIs
  <2> QED
    BY <1>1, <1>4, <1>5, <2>1, <2>3, <2>4 DEF BooksAreTrue, StoreIs
<1> QED
  BY <1>2, <1>3, <1>5, <1>8, <1>9, NextStep

\* ByteRover writes an entry in one step.
LEMMA WriteContextStep == ASSUME MemInv, NEW c \in MemCallers, WriteContext(c) PROVE MemInv'
<1> DEFINE a == memCall[c]
           i == a.id
           f == IF memSetup.encrypting THEN Sealed(encKey) ELSE Body("plain")
<1>1. /\ a.pc = "write remote" /\ memSetup' = memSetup /\ memIndex' = memIndex /\ savedIndex' = savedIndex
      /\ vecLoaded' = vecLoaded /\ encKey' = encKey /\ doomed' = doomed /\ raced' = raced
  BY DEF WriteContext, MemAt
<1>2. a.pc \in Early
  BY <1>1 DEF Early
<1>3. i \in MemIds /\ i \notin KnownIn(body, doomed) /\ a.op = "store"
  BY <1>2, EntryIs
<1>4. memSetup.provider = "byterover" /\ BooksAreTrue /\ MemTypeOK
  BY <1>1, MemJobIs DEF StepFits, MemInv
<1>5. f \in Bodies /\ f.is \notin {"none", "torn"}
  <2>1. encKey \in Nat
    BY <1>4 DEF MemTypeOK
  <2>2. /\ Sealed(encKey) \in Bodies /\ Sealed(encKey).is = "sealed"
        /\ Body("plain") \in Bodies /\ Body("plain").is = "plain"
    BY <2>1 DEF Sealed, Body, Bodies
  <2> QED
    BY <2>2
<1>6. \/ body' = [body EXCEPT ![i] = f] /\ acked' = acked \cup {i} /\ erased' = erased /\ NextEntry(c, "ok")
      \/ body' = body /\ acked' = acked /\ erased' = erased /\ NextEntry(c, "error")
  BY <1>3 DEF WriteContext, EntryDone, EntryFails
<1> HIDE DEF f
<1>7. CASE body' = body /\ acked' = acked /\ erased' = erased /\ NextEntry(c, "error")
  <2>1. UNCHANGED <<memSetup, memStore, encKey, memSeen>>
    BY <1>1, <1>7 DEF memStore, memSeen
  <2> QED
    BY <1>2, <1>7, <2>1, FailStep
<1>8. CASE body' = [body EXCEPT ![i] = f] /\ acked' = acked \cup {i} /\ erased' = erased /\ NextEntry(c, "ok")
  <2>1. /\ body' \in [MemIds -> Bodies] /\ body'[i] = f /\ \A j \in MemIds : j # i => body'[j] = body[j]
        /\ KnownIn(body, doomed) \subseteq KnownIn(body', doomed')
        /\ KnownIn(body', doomed') \subseteq KnownIn(body, doomed) \cup {i}
        /\ i \in KnownIn(body', doomed')
        /\ BareIn(body) \ {i} \subseteq BareIn(body')
        /\ \A j \in KnownIn(body, doomed) :
              (body[j].is = "none" => body'[j].is = "none") /\ (j \notin doomed' => body'[j] = body[j])
    BY <1>1, <1>3, <1>5, <1>8, BodySet
  <2>2. MemGrows
    BY <1>1, <1>8, <2>1 DEF MemGrows
  <2>3. MemSets
    BY <1>1, <1>3, <1>4, <1>8, <2>1 DEF MemSets, MemTypeOK
  <2>4. i \notin doomed /\ i \notin erased
    BY <1>3, <1>4 DEF BooksAreTrue, KnownIn
  <2>5. BooksAreTrue'
    <3>1. acked' \cup memIndex' \cup savedIndex' \subseteq KnownIn(body', doomed')
      BY <1>1, <1>4, <1>8, <2>1 DEF BooksAreTrue
    <3>2. \A j \in doomed' : j # i /\ body'[j].is # "torn"
      BY <1>1, <1>4, <2>1, <2>4 DEF BooksAreTrue, MemTypeOK
    <3>3. erased' \subseteq doomed' \cap BareIn(body')
      BY <1>1, <1>4, <1>8, <2>1, <2>4 DEF BooksAreTrue
    <3>4. memSetup'.provider = "byterover"
      BY <1>1, <1>4
    <3> QED
      BY <3>1, <3>2, <3>3, <3>4 DEF BooksAreTrue, StoreIs
  <2>6. KnownIn(body', doomed') \ KnownIn(body, doomed) \subseteq {i}
    BY <2>1
  <2> QED
    BY <1>2, <1>3, <1>8, <2>2, <2>3, <2>5, <2>6, NextStep
<1> QED
  BY <1>6, <1>7, <1>8

\* ByteRover deletes an entry in one step.
LEMMA DeleteContextStep == ASSUME MemInv, NEW c \in MemCallers, DeleteContext(c) PROVE MemInv'
<1> DEFINE a == memCall[c]
           i == a.id
<1>1. /\ a.pc = "drop remote" /\ memSetup' = memSetup /\ memIndex' = memIndex /\ savedIndex' = savedIndex
      /\ vecLoaded' = vecLoaded /\ encKey' = encKey /\ doomed' = doomed /\ raced' = raced
  BY DEF DeleteContext, MemAt
<1>2. a.pc \in Deleting /\ a.pc \notin Early
  BY <1>1 DEF Deleting, Early
<1>3. i \in doomed /\ a.op # "store"
  BY <1>2, EntryIs
<1>4. memSetup.provider = "byterover"
  BY <1>1, MemJobIs DEF StepFits
<1>5. \/ /\ body' = [body EXCEPT ![i] = Body("none")] /\ acked' = acked /\ erased' = erased \cup {i}
         /\ NextEntry(c, "ok")
      \/ body' = body /\ acked' = acked /\ erased' = erased /\ NextEntry(c, "error")
  BY <1>3 DEF DeleteContext, EntryDone, EntryFails
<1>6. CASE body' = body /\ acked' = acked /\ erased' = erased /\ NextEntry(c, "error")
  <2>1. UNCHANGED <<memSetup, memStore, encKey, memSeen>>
    BY <1>1, <1>6 DEF memStore, memSeen
  <2> QED
    BY <1>2, <1>6, <2>1, FailStep
<1>7. CASE /\ body' = [body EXCEPT ![i] = Body("none")] /\ acked' = acked /\ erased' = erased \cup {i}
           /\ NextEntry(c, "ok")
  <2>1. /\ MemGrows /\ MemSets /\ BooksAreTrue' /\ KnownIn(body', doomed') = KnownIn(body, doomed)
        /\ i \in BareIn(body')
    BY <1>1, <1>3, <1>4, <1>7, DropKeeps DEF StoreIs
  <2> QED
    BY <1>2, <1>7, <2>1, NextStep
<1> QED
  BY <1>5, <1>6, <1>7

\* What a limit leaves of an answer.
LEMMA WithinIs ==
    ASSUME NEW s \in SUBSET MemIds, NEW limit \in Nat, NEW t \in Within(s, limit)
    PROVE  /\ t \subseteq s /\ IsFiniteSet(s) /\ Cardinality(s) \in Nat /\ Cardinality(t) \in Nat
           /\ limit = 0 => t = s
           /\ limit # 0 => t = s \/ (Cardinality(t) = limit /\ Cardinality(s) > limit)
<1>1. IsFiniteSet(s) /\ t \subseteq s
  BY MemoryConstants, FS_Subset DEF Within
<1>2. /\ IsFiniteSet(t) /\ Cardinality(t) <= Cardinality(s) /\ (Cardinality(s) = Cardinality(t) => s = t)
      /\ Cardinality(s) \in Nat /\ Cardinality(t) \in Nat
  BY <1>1, FS_Subset, FS_CardinalityType
<1>3. limit = 0 => t = s
  BY DEF Within
<1>4. limit # 0 => t = s \/ (Cardinality(t) = limit /\ Cardinality(s) > limit)
  <2>1. limit # 0 => Cardinality(t) = IF Cardinality(s) < limit THEN Cardinality(s) ELSE limit
    BY DEF Within
  <2> DEFINE n == Cardinality(s)
             m == Cardinality(t)
  <2>2. n \in Nat /\ m \in Nat /\ (n = m => s = t) /\ (limit # 0 => m = IF n < limit THEN n ELSE limit)
    BY <1>2, <2>1
  <2>3. limit # 0 => t = s \/ (m = limit /\ n > limit)
    <3> HIDE DEF n, m
    <3> QED
      BY <2>2
  <2> QED
    BY <2>3
<1> QED
  BY <1>1, <1>2, <1>3, <1>4

\* Who asks: what it has read, and what the store holds meanwhile.
LEMMA AskerIs ==
    ASSUME MemInv, NEW c \in MemCallers, memCall[c].pc \in Asking
    PROVE  LET a == memCall[c] IN
           /\ a \in MemJobs /\ StepFits(a, memSetup.provider) /\ a.op \in {"query", "erase"} /\ a.op # "store"
           /\ DOMAIN memCall = MemCallers /\ QueryTrue(a, body, doomed, acked, erased, raced)
           /\ BooksAreTrue /\ MemTypeOK
           /\ acked \subseteq Present \cup BareIn(body) /\ Present \subseteq KnownIn(body, doomed)
           /\ Embedded \subseteq Present /\ Present \cap erased = {} /\ Present \subseteq MemIds
           /\ a.kept \subseteq acked /\ a.gone \subseteq erased
           /\ KnownIn(body, doomed) \subseteq MemIds
<1> DEFINE a == memCall[c]
<1>1. /\ a \in MemJobs /\ StepFits(a, memSetup.provider) /\ DOMAIN memCall = MemCallers
      /\ QueryTrue(a, body, doomed, acked, erased, raced) /\ BooksAreTrue /\ MemTypeOK
  BY MemJobIs DEF MemInv, Asking
<1>2. a.op \in {"query", "erase"}
  BY <1>1 DEF StepFits
<1>3. acked \subseteq Present \cup BareIn(body)
  BY <1>1 DEF BooksAreTrue, KnownIn, Present, BareIn, MemTypeOK
<1>4. /\ Present \subseteq KnownIn(body, doomed) /\ Embedded \subseteq Present /\ Present \subseteq MemIds
      /\ KnownIn(body, doomed) \subseteq MemIds
  BY <1>1 DEF KnownIn, Present, Embedded, MemTypeOK
<1>5. Present \cap erased = {}
  BY <1>1 DEF BooksAreTrue, Present, BareIn
<1>6. a.kept \subseteq acked /\ a.gone \subseteq erased
  BY <1>1 DEF QueryTrue
<1> QED
  BY <1>1, <1>2, <1>3, <1>4, <1>5, <1>6

\* A query or an erasure has its answer.
LEMMA FoundStep ==
    ASSUME MemInv, NEW c \in MemCallers, memCall[c].pc \in Asking, NEW answer \in SUBSET KnownIn(body, doomed),
           NEW full \in BOOLEAN, Found(c, answer, full), UNCHANGED <<memSetup, memStore, encKey, acked, erased, raced>>,
           full /\ memCall[c].q = "words" => memCall[c].kept \subseteq answer \cup BareIn(body),
           memCall[c].op = "query" => answer \cap memCall[c].gone \subseteq raced
    PROVE  MemInv'
<1> DEFINE a == memCall[c]
           b == memCall'[c]
           K == KnownIn(body, doomed)
           L == KnownIn(body', doomed')
<1>1. /\ a \in MemJobs /\ StepFits(a, memSetup.provider) /\ a.op \in {"query", "erase"}
      /\ DOMAIN memCall = MemCallers /\ QueryTrue(a, body, doomed, acked, erased, raced)
      /\ BooksAreTrue /\ MemTypeOK /\ K \subseteq MemIds
  BY AskerIs
<1>2. /\ memSetup' = memSetup /\ body' = body /\ memIndex' = memIndex /\ savedIndex' = savedIndex
      /\ vecLoaded' = vecLoaded /\ encKey' = encKey /\ acked' = acked /\ erased' = erased /\ raced' = raced
  BY DEF memStore
<1>3. doomed \subseteq doomed' /\ doomed' \subseteq doomed \cup answer
  BY DEF Found
<1>4. L = K
  BY <1>2, <1>3 DEF KnownIn
<1>5. MemGrows
  BY <1>2, <1>3, <1>4 DEF MemGrows
<1>6. MemSets
  BY <1>1, <1>2, <1>3 DEF MemSets, MemTypeOK
<1>7. BooksAreTrue'
  <2>1. \A j \in doomed' : body'[j].is # "torn"
    BY <1>1, <1>2, <1>3 DEF BooksAreTrue, KnownIn
  <2>2. Embedded' = Embedded /\ acked \ doomed' \subseteq acked \ doomed
    BY <1>2, <1>3 DEF Embedded
  <2>3. StoreIs("vector") /\ vecLoaded => (acked \ doomed') \cap Embedded' \subseteq memIndex \cup raced
    BY <1>1, <2>2 DEF BooksAreTrue
  <2>4. erased \subseteq doomed' \cap BareIn(body)
    BY <1>1, <1>3 DEF BooksAreTrue
  <2> QED
    BY <1>1, <1>2, <1>4, <2>1, <2>3, <2>4 DEF BooksAreTrue, StoreIs
<1>8. CASE a.op = "erase" /\ answer # {}
  <2>1. PICK i \in answer : memCall' = [memCall EXCEPT ![c].pc = FirstOf("delete"), ![c].id = i, ![c].todo = answer \ {i},
                                         ![c].found = answer, ![c].full = full]
    BY <1>8 DEF Found
  <2>2. doomed' = doomed \cup answer
    BY <1>8 DEF Found
  <2> DEFINE pc == FirstOf("delete")
             r  == [a EXCEPT !.pc = pc, !.id = i, !.todo = answer \ {i}, !.found = answer, !.full = full]
  <2>3. pc \in Deleting /\ pc \in {"find", "drop", "drop remote"}
    BY <1>1, FirstIs DEF Deleting
  <2>4. /\ pc = "find" => memSetup.provider = "markdown"
        /\ pc = "drop" => memSetup.provider = "vector"
        /\ pc = "drop remote" => memSetup.provider = "byterover"
    BY <1>1, FirstIs DEF MemTypeOK
  <2> HIDE DEF pc
  <2>5. r \in MemJobs
    BY <1>1, <2>3 DEF MemJobs
  <2>6. /\ r.pc = pc /\ r.id = i /\ r.todo = answer \ {i} /\ r.found = answer /\ r.full = full /\ r.rows = a.rows
        /\ r.op = a.op /\ r.q = a.q /\ r.limit = a.limit /\ r.kept = a.kept /\ r.gone = a.gone
    BY <1>1 DEF MemJobs
  <2>7. memCall' = [memCall EXCEPT ![c] = r]
    BY <2>1 DEF pc
  <2> HIDE DEF r
  <2>8. b = r /\ Alone(c)
    BY <1>1, <2>7 DEF Alone
  <2>9. Waits(r) = {}
    BY <1>8, <2>6 DEF Waits
  <2>10. StoreTrue(r, body', doomed')
    BY <2>3, <2>6, <2>9 DEF StoreTrue, Early, Stored
  <2>11. DeleteTrue(r, body', doomed')
    BY <2>2, <2>3, <2>6 DEF DeleteTrue, Answered
  <2>12. QueryTrue(r, body', doomed', acked', erased', raced')
    <3>1. /\ r.rows \cup r.found \subseteq L /\ r.todo \subseteq L /\ r.kept \subseteq acked' /\ r.gone \subseteq erased'
      BY <1>1, <1>2, <1>4, <2>6 DEF QueryTrue
    <3>2. r.full /\ r.q = "words" => r.kept \subseteq r.found \cup BareIn(body')
      BY <1>2, <2>6
    <3> QED
      BY <1>8, <2>3, <2>6, <3>1, <3>2 DEF QueryTrue, Answered
  <2>13. StepFits(r, memSetup.provider)
    <3>1. r.op = "erase" /\ r.q = "words" /\ r.pc = pc
      BY <1>1, <1>8, <2>6 DEF StepFits
    <3> QED
      BY <2>3, <2>4, <3>1 DEF StepFits, Early, Stored, Asking, Deleting
  <2> QED
    BY <1>4, <1>5, <1>6, <1>7, <2>5, <2>8, <2>9, <2>10, <2>11, <2>12, <2>13, MemFrame DEF CallTrue
<1>9. CASE ~(a.op = "erase" /\ answer # {})
  <2> DEFINE r == [a EXCEPT !.pc = "return", !.found = answer, !.full = full, !.told = "ok"]
  <2>1. memCall' = [memCall EXCEPT ![c] = r] /\ doomed' = doomed
    BY <1>9 DEF Found
  <2>2. r \in MemJobs
    BY <1>1 DEF MemJobs
  <2>3. /\ r.pc = "return" /\ r.todo = a.todo /\ r.found = answer /\ r.full = full /\ r.rows = a.rows
        /\ r.op = a.op /\ r.q = a.q /\ r.limit = a.limit /\ r.kept = a.kept /\ r.gone = a.gone
    BY <1>1 DEF MemJobs
  <2> HIDE DEF r
  <2>4. b = r /\ Alone(c)
    BY <1>1, <2>1 DEF Alone
  <2>5. Waits(r) = {}
    BY <1>1, <2>3 DEF Waits
  <2>6. StoreTrue(r, body', doomed')
    BY <2>3, <2>5 DEF StoreTrue, Early, Stored
  <2>7. DeleteTrue(r, body', doomed')
    BY <1>9, <2>3 DEF DeleteTrue, Deleting
  <2>8. QueryTrue(r, body', doomed', acked', erased', raced')
    <3>1. /\ r.rows \cup r.found \subseteq L /\ r.todo \subseteq L /\ r.kept \subseteq acked' /\ r.gone \subseteq erased'
      BY <1>1, <1>2, <1>4, <2>3 DEF QueryTrue
    <3>2. r.full /\ r.q = "words" => r.kept \subseteq r.found \cup BareIn(body')
      BY <1>2, <2>3
    <3>3. r.op = "query" => r.found \cap r.gone \subseteq raced'
      BY <1>2, <2>3
    <3> QED
      BY <2>3, <3>1, <3>2, <3>3 DEF QueryTrue
  <2>9. StepFits(r, memSetup.provider)
    BY <1>1, <2>3 DEF StepFits, Early, Stored, Deleting, Asking
  <2> QED
    BY <1>4, <1>5, <1>6, <1>7, <2>2, <2>4, <2>5, <2>6, <2>7, <2>8, <2>9, MemFrame DEF CallTrue
<1> QED
  BY <1>8, <1>9

\* A query or an erasure reads on, or gives up.
LEMMA AskStep ==
    ASSUME MemInv, NEW c \in MemCallers, memCall[c].pc \in Asking, memCall'[c] \in MemJobs, Alone(c),
           StepFits(memCall'[c], memSetup.provider), MemGrows, MemSets, BooksAreTrue', body' = body, doomed' = doomed,
           memCall'[c].op = memCall[c].op, memCall'[c].kept = memCall[c].kept, memCall'[c].gone = memCall[c].gone,
           memCall'[c].found = memCall[c].found,
           memCall'[c].rows \cup memCall'[c].todo \subseteq KnownIn(body, doomed),
           LET b == memCall'[c] IN
           \/ b.pc = "return" /\ b.told = "error"
           \/ /\ b.pc \in Asking
              /\ b.pc = "read" /\ b.limit = 0 => b.kept \subseteq b.rows \cup BareIn(body)
              /\ b.pc \in {"load", "swap", "nearest"} =>
                    /\ b.rows \cap b.gone = {}
                    /\ b.q = "words" =>
                          b.kept \subseteq b.rows \cup BareIn(body) \/ Cardinality(b.rows) = 2 * LimitIn(b)
    PROVE  MemInv'
<1> DEFINE a == memCall[c]
           b == memCall'[c]
<1>1. /\ a \in MemJobs /\ a.op \in {"query", "erase"} /\ QueryTrue(a, body, doomed, acked, erased, raced)
  BY AskerIs
<1>2. Waits(b) = {}
  BY <1>1 DEF Waits
<1>3. b.pc \notin Early \cup Stored \cup Deleting /\ ~Answered(b) /\ b.pc \notin {"unindex", "forget"}
  BY DEF Asking, Early, Stored, Deleting, Answered
<1>4. StoreTrue(b, body', doomed') /\ DeleteTrue(b, body', doomed')
  BY <1>2, <1>3 DEF StoreTrue, DeleteTrue, Stored
<1>5. a.found \subseteq KnownIn(body, doomed) /\ a.kept \subseteq acked' /\ a.gone \subseteq erased'
  BY <1>1 DEF QueryTrue, MemGrows
<1>6. QueryTrue(b, body', doomed', acked', erased', raced')
  BY <1>1, <1>3, <1>5 DEF QueryTrue
<1> QED
  BY <1>2, <1>4, <1>6, MemFrame DEF CallTrue

\* The limit of a query to the vector store is positive.
LEMMA LimitIs ==
    ASSUME MemInv, NEW c \in MemCallers, memCall[c].pc \in {"words", "load", "swap", "nearest"}
    PROVE  /\ StoreIs("vector") /\ LimitOf(c) = LimitIn(memCall[c]) /\ LimitIn(memCall[c]) \in Nat \ {0}
           /\ 2 * LimitIn(memCall[c]) \in Nat \ {0}
<1> DEFINE n == LimitIn(memCall[c])
<1>1. memCall[c] \in MemJobs /\ StoreIs("vector")
  BY MemJobIs DEF StepFits, StoreIs
<1>2. n \in Nat \ {0}
  BY <1>1, MemoryConstants DEF LimitIn, MemJobs
<1>3. LimitOf(c) = n
  BY <1>1 DEF LimitIn, LimitOf
<1>4. 2 * n \in Nat \ {0}
  <2> HIDE DEF n
  <2> QED
    BY <1>2
<1> QED
  BY <1>1, <1>2, <1>3, <1>4

\* Without a limit the index has all that is stored and on disk.
LEMMA SearchIndexStep == ASSUME MemInv, NEW c \in MemCallers, SearchIndex(c) PROVE MemInv'
<1> DEFINE a == memCall[c]
           b == memCall'[c]
<1>1. a.pc = "search" /\ a.pc \in Asking /\ UNCHANGED <<memSetup, memStore, encKey, memSeen>>
  BY DEF SearchIndex, MemAt, Asking
<1>2. PICK rows \in Within(memIndex, a.limit) : memCall' = [memCall EXCEPT ![c].pc = "read", ![c].rows = rows]
  BY DEF SearchIndex
<1>3. /\ a \in MemJobs /\ StepFits(a, memSetup.provider) /\ DOMAIN memCall = MemCallers
      /\ QueryTrue(a, body, doomed, acked, erased, raced) /\ BooksAreTrue /\ MemTypeOK /\ a.op # "store"
      /\ KnownIn(body, doomed) \subseteq MemIds
  BY <1>1, AskerIs
<1>4. MemGrows /\ MemSets /\ BooksAreTrue' /\ body' = body /\ doomed' = doomed
  BY <1>1, StoreRests DEF memStore, memSeen
<1>5. rows \subseteq memIndex /\ (a.limit = 0 => rows = memIndex)
  <2>1. memIndex \in SUBSET MemIds /\ a.limit \in Nat
    BY <1>3 DEF MemTypeOK, MemJobs
  <2> QED
    BY <2>1, WithinIs
<1>6. rows \subseteq KnownIn(body, doomed) /\ a.todo \subseteq KnownIn(body, doomed)
  BY <1>3, <1>5 DEF BooksAreTrue, QueryTrue
<1>7. a.kept \subseteq memIndex \cup BareIn(body)
  <2>1. memSetup.provider = "markdown"
    BY <1>1, <1>3 DEF StepFits
  <2> QED
    BY <1>3, <2>1 DEF BooksAreTrue, QueryTrue, StoreIs
<1> DEFINE r == [a EXCEPT !.pc = "read", !.rows = rows]
<1>8. r \in MemJobs
  BY <1>3, <1>6 DEF MemJobs, Asking
<1>9. /\ r.pc = "read" /\ r.rows = rows /\ r.todo = a.todo /\ r.found = a.found
      /\ r.op = a.op /\ r.q = a.q /\ r.limit = a.limit /\ r.kept = a.kept /\ r.gone = a.gone
  BY <1>3 DEF MemJobs
<1>10. memCall' = [memCall EXCEPT ![c] = r]
  BY <1>2
<1> HIDE DEF r
<1>11. b = r /\ Alone(c)
  BY <1>3, <1>10 DEF Alone
<1>12. StepFits(r, memSetup.provider)
  BY <1>1, <1>3, <1>9 DEF StepFits, Early, Stored, Deleting, Asking
<1>13. r.pc \in Asking /\ (r.limit = 0 => r.kept \subseteq r.rows \cup BareIn(body))
  BY <1>5, <1>7, <1>9 DEF Asking
<1> QED
  BY <1>1, <1>4, <1>6, <1>8, <1>9, <1>11, <1>12, <1>13, AskStep

\* An answer that is full has every row that was found.
LEMMA ReadFilesStep == ASSUME MemInv, NEW c \in MemCallers, ReadFiles(c) PROVE MemInv'
<1> DEFINE a == memCall[c]
           answer == {i \in a.rows \cap Present : CanOpen(i)}
           full == a.limit = 0 /\ answer = a.rows
<1>1. /\ a.pc = "read" /\ a.pc \in Asking /\ UNCHANGED <<memSetup, memStore, encKey, acked, erased, raced>>
      /\ Found(c, answer, full)
  BY DEF ReadFiles, MemAt, Asking
<1>2. /\ QueryTrue(a, body, doomed, acked, erased, raced)
      /\ Present \subseteq KnownIn(body, doomed) /\ Present \cap erased = {} /\ a.gone \subseteq erased
  BY <1>1, AskerIs
<1>3. answer \subseteq Present /\ full \in BOOLEAN /\ (full => a.limit = 0 /\ answer = a.rows)
  OBVIOUS
<1> HIDE DEF answer, full
<1>4. full => a.kept \subseteq answer \cup BareIn(body)
  BY <1>1, <1>2, <1>3 DEF QueryTrue
<1>5. answer \cap a.gone \subseteq raced /\ answer \in SUBSET KnownIn(body, doomed)
  BY <1>2, <1>3
<1> QED
  BY <1>1, <1>3, <1>4, <1>5, FoundStep

\* A query that cannot be answered returns an error.
LEMMA QueryFailsStep ==
    ASSUME MemInv, NEW c \in MemCallers, memCall[c].pc \in Asking, QueryFails(c),
           UNCHANGED <<memSetup, memStore, encKey, memSeen>>
    PROVE  MemInv'
<1> DEFINE a == memCall[c]
           r == [a EXCEPT !.pc = "return", !.told = "error"]
<1>1. /\ a \in MemJobs /\ StepFits(a, memSetup.provider) /\ DOMAIN memCall = MemCallers
      /\ QueryTrue(a, body, doomed, acked, erased, raced) /\ a.op # "store"
  BY AskerIs
<1>2. MemGrows /\ MemSets /\ BooksAreTrue' /\ body' = body /\ doomed' = doomed
  BY StoreRests DEF memStore, memSeen
<1>3. r \in MemJobs
  BY <1>1 DEF MemJobs
<1>4. /\ r.pc = "return" /\ r.told = "error" /\ r.rows = a.rows /\ r.todo = a.todo /\ r.found = a.found
      /\ r.op = a.op /\ r.q = a.q /\ r.limit = a.limit /\ r.kept = a.kept /\ r.gone = a.gone
  BY <1>1 DEF MemJobs
<1>5. memCall' = [memCall EXCEPT ![c] = r]
  BY DEF QueryFails
<1> HIDE DEF r
<1>6. memCall'[c] = r /\ Alone(c)
  BY <1>1, <1>5 DEF Alone
<1>7. StepFits(r, memSetup.provider)
  BY <1>1, <1>4 DEF StepFits, Early, Stored, Deleting, Asking
<1>8. r.rows \cup r.todo \subseteq KnownIn(body, doomed)
  BY <1>1, <1>4 DEF QueryTrue
<1> QED
  BY <1>2, <1>3, <1>4, <1>6, <1>7, <1>8, AskStep

\* ByteRover answers with all there is, or fails.
LEMMA AskRemoteStep == ASSUME MemInv, NEW c \in MemCallers, AskRemote(c) PROVE MemInv'
<1> DEFINE a == memCall[c]
           full == a.limit = 0
<1>1. a.pc \in Asking /\ UNCHANGED <<memSetup, memStore, encKey, acked, erased, raced>>
  BY DEF AskRemote, MemAt, Asking
<1>2. PICK rows \in Within(Present, a.limit) :
          \/ Found(c, rows, full)
          \/ QueryFails(c) /\ UNCHANGED doomed
  BY DEF AskRemote
<1>3. /\ a \in MemJobs /\ a.kept \subseteq Present \cup BareIn(body) /\ Present \subseteq MemIds
      /\ Present \subseteq KnownIn(body, doomed) /\ Present \cap erased = {} /\ a.gone \subseteq erased
  BY <1>1, AskerIs
<1>4. rows \subseteq Present /\ (full => rows = Present) /\ full \in BOOLEAN
  <2>1. a.limit \in Nat /\ Present \in SUBSET MemIds
    BY <1>3 DEF MemJobs
  <2> QED
    BY <2>1, WithinIs
<1> HIDE DEF full
<1>5. CASE Found(c, rows, full)
  <2>1. full => a.kept \subseteq rows \cup BareIn(body)
    BY <1>3, <1>4
  <2>2. rows \cap a.gone \subseteq raced /\ rows \in SUBSET KnownIn(body, doomed)
    BY <1>3, <1>4
  <2> QED
    BY <1>1, <1>4, <1>5, <2>1, <2>2, FoundStep
<1>6. CASE QueryFails(c) /\ UNCHANGED doomed
  <2>1. UNCHANGED <<memSetup, memStore, encKey, memSeen>>
    BY <1>1, <1>6 DEF memSeen
  <2> QED
    BY <1>1, <1>6, <2>1, QueryFailsStep
<1> QED
  BY <1>2, <1>5, <1>6

\* The search by words finds all there is, or twice the limit.
LEMMA KeywordStep == ASSUME MemInv, NEW c \in MemCallers, keywordSearch(c) PROVE MemInv'
<1> DEFINE a == memCall[c]
           b == memCall'[c]
           n == 2 * LimitIn(a)
           from == IF a.q = "words" THEN Present ELSE {}
           pc == IF vecLoaded THEN "nearest" ELSE "load"
<1>1. a.pc = "words" /\ a.pc \in Asking /\ UNCHANGED <<memSetup, memStore, encKey, memSeen>>
  BY DEF keywordSearch, MemAt, Asking
<1>2. StoreIs("vector") /\ LimitOf(c) = LimitIn(a) /\ n \in Nat \ {0}
  BY <1>1, LimitIs
<1>3. PICK rows \in Within(from, n) : memCall' = [memCall EXCEPT ![c].rows = rows, ![c].pc = pc]
  BY <1>2 DEF keywordSearch
<1>4. /\ a \in MemJobs /\ StepFits(a, memSetup.provider) /\ DOMAIN memCall = MemCallers
      /\ QueryTrue(a, body, doomed, acked, erased, raced) /\ a.op # "store"
      /\ a.kept \subseteq Present \cup BareIn(body) /\ Present \subseteq MemIds
      /\ Present \subseteq KnownIn(body, doomed) /\ Present \cap erased = {} /\ a.gone \subseteq erased
  BY <1>1, AskerIs
<1>5. MemGrows /\ MemSets /\ BooksAreTrue' /\ body' = body /\ doomed' = doomed
  BY <1>1, StoreRests DEF memStore, memSeen
<1> HIDE DEF n
<1>6. rows \subseteq Present /\ (a.q = "words" => rows = Present \/ Cardinality(rows) = n)
  <2>1. from \in SUBSET MemIds /\ n \in Nat
    BY <1>2, <1>4
  <2>2. rows \subseteq from /\ (rows = from \/ Cardinality(rows) = n)
    BY <1>2, <2>1, WithinIs
  <2> QED
    BY <2>2
<1>7. pc \in {"nearest", "load"}
  OBVIOUS
<1> DEFINE r == [a EXCEPT !.rows = rows, !.pc = pc]
<1> HIDE DEF pc, from
<1>8. r \in MemJobs
  BY <1>4, <1>6, <1>7 DEF MemJobs, Asking
<1>9. /\ r.pc = pc /\ r.rows = rows /\ r.todo = a.todo /\ r.found = a.found
      /\ r.op = a.op /\ r.q = a.q /\ r.limit = a.limit /\ r.kept = a.kept /\ r.gone = a.gone
  BY <1>4 DEF MemJobs
<1>10. memCall' = [memCall EXCEPT ![c] = r]
  BY <1>3
<1> HIDE DEF r
<1>11. b = r /\ Alone(c)
  BY <1>4, <1>10 DEF Alone
<1>12. StepFits(r, memSetup.provider)
  BY <1>1, <1>4, <1>7, <1>9 DEF StepFits, Early, Stored, Deleting, Asking
<1>13. rows \cup a.todo \subseteq KnownIn(body, doomed)
  BY <1>4, <1>6 DEF QueryTrue
<1>14. r.rows \cap r.gone = {}
  BY <1>4, <1>6, <1>9
<1>15. r.q = "words" => r.kept \subseteq r.rows \cup BareIn(body) \/ Cardinality(r.rows) = 2 * LimitIn(r)
  <2>1. n = 2 * LimitIn(r)
    BY <1>9 DEF n, LimitIn
  <2> QED
    BY <1>4, <1>6, <1>9, <2>1
<1>16. r.pc \in Asking /\ r.pc # "read"
  BY <1>7, <1>9 DEF Asking
<1> QED
  BY <1>1, <1>5, <1>8, <1>9, <1>11, <1>12, <1>13, <1>14, <1>15, <1>16, AskStep

\* Without an embedding the answer is cut from the words, and is never full.
LEMMA EmbedFailsStep == ASSUME MemInv, NEW c \in MemCallers, EmbedFails(c) PROVE MemInv'
<1> DEFINE a == memCall[c]
<1>1. /\ a.pc \in {"load", "nearest"} /\ a.pc \in Asking
      /\ UNCHANGED <<memSetup, memStore, encKey, acked, erased, raced>>
  BY DEF EmbedFails, Asking
<1>2. PICK answer \in Within(a.rows, LimitOf(c)) : Found(c, answer, FALSE)
  BY DEF EmbedFails
<1>3. /\ a \in MemJobs /\ QueryTrue(a, body, doomed, acked, erased, raced)
  BY <1>1, AskerIs
<1>4. a.rows \subseteq KnownIn(body, doomed) /\ a.rows \cap a.gone = {}
  BY <1>1, <1>3 DEF QueryTrue
<1>5. answer \subseteq a.rows
  <2>1. a.rows \in SUBSET MemIds
    BY <1>3 DEF MemJobs
  <2>2. LimitOf(c) \in Nat
    BY <1>1, LimitIs
  <2> QED
    BY <2>1, <2>2, WithinIs
<1>6. answer \in SUBSET KnownIn(body, doomed) /\ answer \cap a.gone \subseteq raced
  BY <1>4, <1>5
<1> QED
  BY <1>1, <1>2, <1>6, FoundStep

\* The rows that a load reads are known.
LEMMA LoadStep == ASSUME MemInv, NEW c \in MemCallers, loadFromDB(c) PROVE MemInv'
<1> DEFINE a == memCall[c]
           r == [a EXCEPT !.todo = Embedded, !.pc = "swap"]
<1>1. a.pc = "load" /\ a.pc \in Asking /\ UNCHANGED <<memSetup, memStore, encKey, memSeen>>
  BY DEF loadFromDB, MemAt, Asking
<1>2. /\ a \in MemJobs /\ StepFits(a, memSetup.provider) /\ DOMAIN memCall = MemCallers
      /\ QueryTrue(a, body, doomed, acked, erased, raced) /\ a.op # "store"
      /\ Present \subseteq KnownIn(body, doomed) /\ Embedded \subseteq Present /\ Present \subseteq MemIds
  BY <1>1, AskerIs
<1>3. MemGrows /\ MemSets /\ BooksAreTrue' /\ body' = body /\ doomed' = doomed
  BY <1>1, StoreRests DEF memStore, memSeen
<1>4. r \in MemJobs
  BY <1>2 DEF MemJobs, Asking
<1>5. /\ r.pc = "swap" /\ r.rows = a.rows /\ r.todo = Embedded /\ r.found = a.found
      /\ r.op = a.op /\ r.q = a.q /\ r.limit = a.limit /\ r.kept = a.kept /\ r.gone = a.gone
  BY <1>2 DEF MemJobs
<1>6. memCall' = [memCall EXCEPT ![c] = r]
  BY DEF loadFromDB
<1> HIDE DEF r
<1>7. memCall'[c] = r /\ Alone(c)
  BY <1>2, <1>6 DEF Alone
<1>8. StepFits(r, memSetup.provider)
  BY <1>1, <1>2, <1>5 DEF StepFits, Early, Stored, Deleting, Asking
<1>9. r.rows \cup r.todo \subseteq KnownIn(body, doomed)
  BY <1>2, <1>5 DEF QueryTrue
<1>10. /\ r.rows \cap r.gone = {}
       /\ r.q = "words" => r.kept \subseteq r.rows \cup BareIn(body) \/ Cardinality(r.rows) = 2 * LimitIn(r)
  BY <1>1, <1>2, <1>5 DEF QueryTrue, LimitIn
<1>11. r.pc \in Asking /\ r.pc # "read"
  BY <1>5 DEF Asking
<1> QED
  BY <1>1, <1>3, <1>4, <1>5, <1>7, <1>8, <1>9, <1>10, <1>11, AskStep

\* What changed since the load was read has raced.
LEMMA SwapIndexStep == ASSUME MemInv, NEW c \in MemCallers, SwapIndex(c) PROVE MemInv'
<1> DEFINE a == memCall[c]
           r == [a EXCEPT !.todo = {}, !.pc = "nearest"]
<1>1. /\ a.pc = "swap" /\ a.pc \in Asking /\ memIndex' = a.todo /\ vecLoaded' = TRUE
      /\ raced' = raced \cup (Embedded \ a.todo) \cup (a.todo \ Embedded)
      /\ memCall' = [memCall EXCEPT ![c] = r]
      /\ UNCHANGED <<memSetup, body, savedIndex, encKey, acked, doomed, erased>>
  BY DEF SwapIndex, MemAt, Asking
<1>2. /\ a \in MemJobs /\ StepFits(a, memSetup.provider) /\ DOMAIN memCall = MemCallers
      /\ QueryTrue(a, body, doomed, acked, erased, raced) /\ a.op # "store" /\ BooksAreTrue /\ MemTypeOK
      /\ Present \cap erased = {} /\ Embedded \subseteq Present /\ Present \subseteq MemIds
      /\ KnownIn(body, doomed) \subseteq MemIds
  BY <1>1, AskerIs
<1>3. memSetup.provider = "vector"
  BY <1>1, <1>2 DEF StepFits
<1>4. a.todo \subseteq KnownIn(body, doomed)
  BY <1>2 DEF QueryTrue
<1>5. MemGrows
  BY <1>1 DEF MemGrows
<1>6. MemSets
  BY <1>1, <1>2, <1>4 DEF MemSets, MemTypeOK
<1>7. BooksAreTrue'
  <2>1. acked' \cup memIndex' \cup savedIndex' \subseteq KnownIn(body', doomed')
    BY <1>1, <1>2, <1>4 DEF BooksAreTrue
  <2>2. (\A i \in doomed' : body'[i].is # "torn") /\ erased' \subseteq doomed' \cap BareIn(body')
    BY <1>1, <1>2 DEF BooksAreTrue
  <2>3. (acked' \ doomed') \cap Embedded' \subseteq memIndex' \cup raced'
    BY <1>1 DEF Embedded
  <2>4. memIndex' \cap erased' \subseteq raced'
    BY <1>1, <1>2
  <2>5. memSetup'.provider = "vector"
    BY <1>1, <1>3
  <2> QED
    BY <2>1, <2>2, <2>3, <2>4, <2>5 DEF BooksAreTrue, StoreIs
<1>8. r \in MemJobs
  BY <1>2 DEF MemJobs, Asking
<1>9. /\ r.pc = "nearest" /\ r.rows = a.rows /\ r.todo = {} /\ r.found = a.found
      /\ r.op = a.op /\ r.q = a.q /\ r.limit = a.limit /\ r.kept = a.kept /\ r.gone = a.gone
  BY <1>2 DEF MemJobs
<1> HIDE DEF r
<1>10. memCall'[c] = r /\ Alone(c)
  BY <1>1, <1>2 DEF Alone
<1>11. StepFits(r, memSetup.provider)
  BY <1>1, <1>2, <1>9 DEF StepFits, Early, Stored, Deleting, Asking
<1>12. r.rows \cup r.todo \subseteq KnownIn(body, doomed)
  BY <1>2, <1>9 DEF QueryTrue
<1>13. /\ r.rows \cap r.gone = {}
       /\ r.q = "words" => r.kept \subseteq r.rows \cup BareIn(body) \/ Cardinality(r.rows) = 2 * LimitIn(r)
  BY <1>1, <1>2, <1>9 DEF QueryTrue, LimitIn
<1>14. r.pc \in Asking /\ r.pc # "read"
  BY <1>9 DEF Asking
<1> QED
  BY <1>1, <1>5, <1>6, <1>7, <1>8, <1>9, <1>10, <1>11, <1>12, <1>13, <1>14, AskStep

\* When both lists fit the limit the answer is all of them; twice the limit never fits.
LEMMA VectorSearchStep == ASSUME MemInv, NEW c \in MemCallers, vectorSearch(c) PROVE MemInv'
<1> DEFINE a == memCall[c]
           n == LimitIn(a)
           from == IF memIndex # {} THEN memIndex ELSE Embedded
<1>1. /\ a.pc = "nearest" /\ a.pc \in Asking
      /\ UNCHANGED <<memSetup, memStore, encKey, acked, erased, raced>>
  BY DEF vectorSearch, MemAt, Asking
<1>2. StoreIs("vector") /\ LimitOf(c) = n /\ n \in Nat \ {0} /\ 2 * n \in Nat \ {0}
  BY <1>1, LimitIs
<1>3. PICK near \in Within(from, 2 * n) : \E answer \in Within(a.rows \cup near, n) :
         Found(c, answer, Cardinality(a.rows \cup near) <= n)
  BY <1>2 DEF vectorSearch
<1>4. /\ a \in MemJobs /\ QueryTrue(a, body, doomed, acked, erased, raced) /\ BooksAreTrue /\ MemTypeOK
      /\ Present \subseteq KnownIn(body, doomed) /\ Present \cap erased = {} /\ a.gone \subseteq erased
      /\ Embedded \subseteq Present /\ Present \subseteq MemIds /\ KnownIn(body, doomed) \subseteq MemIds
  BY <1>1, AskerIs
<1>5. near \subseteq from
  <2>1. from \in SUBSET MemIds
    BY <1>4 DEF MemTypeOK
  <2> HIDE DEF from, n
  <2> QED
    BY <1>2, <2>1, WithinIs
<1>6. from \subseteq KnownIn(body, doomed) /\ from \cap a.gone \subseteq raced
  BY <1>2, <1>4 DEF BooksAreTrue
<1>7. a.rows \subseteq KnownIn(body, doomed) /\ a.rows \cap a.gone = {}
  BY <1>1, <1>4 DEF QueryTrue
<1> DEFINE all == a.rows \cup near
           full == Cardinality(all) <= n
<1>8. all \subseteq KnownIn(body, doomed) /\ all \cap a.gone \subseteq raced /\ all \in SUBSET MemIds
  BY <1>4, <1>5, <1>6, <1>7
<1>9. PICK answer \in Within(all, n) : Found(c, answer, full)
  BY <1>3
<1>10. answer \subseteq all /\ (full => answer = all /\ Cardinality(a.rows) # 2 * n) /\ full \in BOOLEAN
  <2> HIDE DEF n
  <2>1. /\ answer \subseteq all /\ IsFiniteSet(all) /\ Cardinality(all) \in Nat
        /\ answer = all \/ Cardinality(all) > n
    <3> HIDE DEF all
    <3> QED
      BY <1>2, <1>8, <1>9, WithinIs
  <2>2. Cardinality(a.rows) <= Cardinality(all) /\ Cardinality(a.rows) \in Nat
    <3>1. a.rows \subseteq all
      OBVIOUS
    <3> HIDE DEF all
    <3> QED
      BY <2>1, <3>1, FS_Subset, FS_CardinalityType
  <2> DEFINE x == Cardinality(a.rows)
             y == Cardinality(all)
  <2>3. x \in Nat /\ y \in Nat /\ x <= y /\ (answer = all \/ y > n) /\ n \in Nat \ {0}
    BY <1>2, <2>1, <2>2
  <2>4. y <= n => answer = all /\ x # 2 * n
    <3> HIDE DEF x, y, all
    <3> QED
      BY <2>3
  <2> QED
    BY <2>1, <2>4
<1> HIDE DEF all, full, n
<1>11. full /\ a.q = "words" => a.kept \subseteq answer \cup BareIn(body)
  <2>1. a.q = "words" => a.kept \subseteq a.rows \cup BareIn(body) \/ Cardinality(a.rows) = 2 * n
    BY <1>1, <1>4 DEF QueryTrue, n
  <2> QED
    BY <1>10, <2>1 DEF all
<1>12. answer \cap a.gone \subseteq raced /\ answer \in SUBSET KnownIn(body, doomed)
  BY <1>8, <1>10
<1> QED
  BY <1>1, <1>9, <1>10, <1>11, <1>12, FoundStep

\* A call that does nothing knows nothing.
LEMMA IdleIs == ASSUME NEW rows, NEW begun, NEW stored, NEW over, NEW changed
                PROVE  CallTrue(MemIdle, rows, begun, stored, over, changed) /\ Waits(MemIdle) = {}
  BY DEF CallTrue, StoreTrue, DeleteTrue, QueryTrue, MemIdle, Waits, Early, Stored, Deleting, Answered

\* A call returns.
LEMMA ReturnsStep == ASSUME MemInv, NEW c \in MemCallers, MemoryReturns(c) PROVE MemInv'
<1>1. /\ memCall[c].pc = "return" /\ memCall' = [memCall EXCEPT ![c] = MemIdle]
      /\ UNCHANGED <<memSetup, memStore, encKey, memSeen>>
  BY DEF MemoryReturns, MemAt
<1>2. memCall'[c] = MemIdle /\ Alone(c)
  BY <1>1, MemJobIs DEF Alone
<1>3. MemGrows /\ MemSets /\ BooksAreTrue' /\ KnownIn(body', doomed') = KnownIn(body, doomed)
  BY <1>1, StoreRests
<1>4. CallTrue(memCall'[c], body', doomed', acked', erased', raced') /\ Waits(memCall'[c]) = {}
  BY <1>2, IdleIs
<1> QED
  BY <1>2, <1>3, <1>4, MemFrame

\* A new key opens and closes nothing on disk.
LEMMA RotateStep == ASSUME MemInv, RotateNow PROVE MemInv'
<1>1. /\ UNCHANGED <<memSetup, body, memIndex, savedIndex, vecLoaded, memCall, acked, doomed, erased, raced>>
      /\ encKey' = encKey + 1
  BY DEF RotateNow, memStore, memSeen
<1>2. encKey' \in Nat
  BY <1>1 DEF MemInv, MemTypeOK
<1> QED
  BY <1>1, <1>2 DEF MemInv, MemTypeOK, CallsAreTrue, WaitsApart, BooksAreTrue, Embedded, StoreIs

\* A start of the process reads index.json, or begins with an empty index of embeddings.
LEMMA RestartStep == ASSUME MemInv, Restart PROVE MemInv'
<1>1. /\ UNCHANGED <<memSetup, body, savedIndex, acked, doomed, erased>> /\ ~StoreIs("byterover")
      /\ encKey' = encKey + 1 /\ vecLoaded' = FALSE /\ raced' = {}
      /\ memIndex' = (IF StoreIs("markdown") THEN savedIndex ELSE {})
      /\ memCall' = [k \in MemCallers |-> MemIdle]
  BY DEF Restart
<1>2. MemTypeOK /\ BooksAreTrue
  BY DEF MemInv
<1>3. MemTypeOK'
  <2>1. encKey' \in Nat /\ memIndex' \subseteq MemIds
    BY <1>1, <1>2 DEF MemTypeOK
  <2>2. DOMAIN memCall' = MemCallers /\ \A k \in MemCallers : memCall'[k] = MemIdle
    BY <1>1
  <2> QED
    BY <1>1, <1>2, <2>1, <2>2 DEF MemTypeOK
<1>4. CallsAreTrue' /\ WaitsApart'
  BY <1>1, IdleIs DEF CallsAreTrue, WaitsApart
<1>5. BooksAreTrue'
  <2>1. acked' \cup memIndex' \cup savedIndex' \subseteq KnownIn(body', doomed')
    BY <1>1, <1>2 DEF BooksAreTrue
  <2>2. (\A i \in doomed' : body'[i].is # "torn") /\ erased' \subseteq doomed' \cap BareIn(body')
    BY <1>1, <1>2 DEF BooksAreTrue
  <2>3. memSetup'.provider = "markdown" => acked' \subseteq BareIn(body') \cup (memIndex' \cap savedIndex')
    BY <1>1, <1>2 DEF BooksAreTrue, StoreIs
  <2>4. memSetup'.provider = "vector" => memIndex' = {}
    BY <1>1 DEF StoreIs
  <2> QED
    BY <1>1, <2>1, <2>2, <2>3, <2>4 DEF BooksAreTrue, StoreIs
<1> QED
  BY <1>3, <1>4, <1>5 DEF MemInv

\* A call begins: a store with entries that nobody else has, a deletion with stored ones.
LEMMA CallMemoryStep == ASSUME MemInv, NEW c \in MemCallers, NEW r \in MemRequests, CallMemory(c, r) PROVE MemInv'
<1> DEFINE a == memCall[c]
           b == memCall'[c]
           p == memSetup.provider
           from == IF r.op = "store" THEN Unused ELSE IF r.op = "delete" THEN acked ELSE {}
           pc == FirstOf(r.op)
<1>1. /\ MemTypeOK /\ BooksAreTrue /\ CallsAreTrue /\ WaitsApart
      /\ DOMAIN memCall = MemCallers /\ acked \subseteq MemIds /\ doomed \subseteq MemIds /\ erased \subseteq MemIds
  BY DEF MemInv, MemTypeOK
<1>2. a = MemIdle /\ Waits(a) = {}
  <2>1. a.pc = "idle"
    BY DEF CallMemory, MemAt
  <2>2. a = MemIdle
    BY <1>1, <2>1 DEF MemTypeOK, MemJobs, Early, Stored, Deleting, Asking
  <2> QED
    BY <2>2, IdleIs
<1>3. /\ r.op \in {"store", "delete", "query", "erase"} /\ r.q \in {"words", "meaning"} /\ r.limit \in Nat
      /\ r.op \in {"store", "delete"} => r.n > 0
      /\ r.op = "erase" => r.q = "words"
  BY MemoryConstants
<1>4. UNCHANGED <<memSetup, body, memIndex, savedIndex, vecLoaded, encKey, acked, erased, raced>>
  BY DEF CallMemory, memStore
<1>5. PICK ids \in SUBSET from :
          /\ Cardinality(ids) = r.n
          /\ \E i \in IF ids = {} THEN {"none"} ELSE ids :
              /\ memCall' = [memCall EXCEPT ![c] = [MemIdle EXCEPT !.pc = pc, !.op = r.op, !.q = r.q,
                               !.limit = r.limit, !.id = i, !.todo = ids \ {i}, !.kept = acked \ doomed, !.gone = erased]]
              /\ doomed' = IF r.op = "delete" THEN doomed \cup ids ELSE doomed
  BY DEF CallMemory
<1>6. PICK i \in IF ids = {} THEN {"none"} ELSE ids :
              /\ memCall' = [memCall EXCEPT ![c] = [MemIdle EXCEPT !.pc = pc, !.op = r.op, !.q = r.q,
                               !.limit = r.limit, !.id = i, !.todo = ids \ {i}, !.kept = acked \ doomed, !.gone = erased]]
              /\ doomed' = IF r.op = "delete" THEN doomed \cup ids ELSE doomed
  BY <1>5
<1>7. r.op \in {"store", "delete"} => ids # {} /\ i \in ids
  <2>1. Cardinality({}) = 0
    BY FS_EmptySet
  <2> QED
    BY <1>3, <1>5, <1>6, <2>1
<1>8. r.op \notin {"store", "delete"} => ids = {}
  BY <1>5
<1>9. r.op = "store" => ids \subseteq Unused
  BY <1>5
<1>10. r.op = "delete" => ids \subseteq acked
  BY <1>5
<1>11. ids \subseteq MemIds
  BY <1>1, <1>3, <1>8, <1>9, <1>10 DEF Unused
<1>12. /\ r.op = "store" => pc \in {"open", "embed", "write remote"}
       /\ r.op = "delete" => pc \in {"find", "drop", "drop remote"}
       /\ r.op \in {"query", "erase"} => pc \in {"search", "words", "ask remote"}
       /\ pc \in {"open", "find", "search"} => p = "markdown"
       /\ pc \in {"embed", "drop", "words"} => p = "vector"
       /\ pc \in {"write remote", "drop remote", "ask remote"} => p = "byterover"
  <2>1. p \in {"markdown", "vector", "byterover"}
    BY <1>1 DEF MemTypeOK
  <2>2. /\ pc = FirstOf("store") \/ r.op # "store"
        /\ pc = FirstOf("delete") \/ r.op # "delete"
        /\ pc = FirstOf("query") \/ r.op \notin {"query", "erase"}
    BY <1>1, FirstIs
  <2> HIDE DEF pc
  <2> QED
    BY <1>1, <1>3, <2>1, <2>2, FirstIs
<1> DEFINE s == [MemIdle EXCEPT !.pc = pc, !.op = r.op, !.q = r.q, !.limit = r.limit, !.id = i,
                               !.todo = ids \ {i}, !.kept = acked \ doomed, !.gone = erased]
<1> HIDE DEF pc
<1>13. /\ s.pc = pc /\ s.op = r.op /\ s.q = r.q /\ s.limit = r.limit /\ s.id = i /\ s.todo = ids \ {i}
       /\ s.kept = acked \ doomed /\ s.gone = erased /\ s.rows = {} /\ s.found = {} /\ s.full = FALSE
       /\ s.told = "nothing" /\ s.form = Body("plain")
  BY DEF MemIdle
<1>14. s \in MemJobs
  <2>1. Body("plain") \in Forms
    BY DEF Body, Forms, Bodies
  <2>2. pc \in Early \cup Stored \cup Deleting \cup Asking
    BY <1>3, <1>12 DEF Early, Deleting, Asking
  <2>3. i \in MemIds \cup {"none"}
    BY <1>6, <1>11
  <2> QED
    BY <1>1, <1>3, <1>11, <2>1, <2>2, <2>3 DEF MemJobs, MemIdle
<1>15. memCall' = [memCall EXCEPT ![c] = s]
  BY <1>6
<1> HIDE DEF s
<1>16. b = s /\ Alone(c)
  BY <1>1, <1>15 DEF Alone
<1>17. StepFits(s, p)
  BY <1>3, <1>12, <1>13 DEF StepFits, Early, Stored, Deleting, Asking
<1> DEFINE K == KnownIn(body, doomed)
           L == KnownIn(body', doomed')
<1>18. doomed \subseteq doomed' /\ doomed' \subseteq doomed \cup ids /\ (r.op = "delete" => ids \subseteq doomed')
  BY <1>6
<1>19. r.op # "delete" => doomed' = doomed
  BY <1>6
<1>20. doomed' \subseteq K
  <2>1. acked \subseteq K /\ doomed \subseteq K
    BY <1>1 DEF BooksAreTrue, KnownIn
  <2> QED
    BY <1>10, <1>18, <1>19, <2>1
<1>21. L = K
  BY <1>4, <1>18, <1>20 DEF KnownIn
<1>22. Waits(s) = (IF r.op = "store" THEN ids ELSE {})
  <2>1. r.op = "store" => s.pc \in Early
    BY <1>12, <1>13 DEF Early
  <2> QED
    BY <1>7, <1>13, <2>1 DEF Waits
<1>23. Waits(s) \cap L = {}
  BY <1>9, <1>21, <1>22 DEF Unused, KnownIn
<1>24. ASSUME NEW k \in MemCallers PROVE Waits(s) \cap Waits(memCall[k]) = {}
  BY <1>9, <1>22 DEF Unused, Waits
<1>25. MemGrows
  BY <1>4, <1>18, <1>21 DEF MemGrows
<1>26. MemSets
  BY <1>1, <1>4, <1>11, <1>18 DEF MemSets, MemTypeOK
<1>27. BooksAreTrue'
  <2>1. \A j \in doomed' : body'[j].is # "torn"
    BY <1>1, <1>4, <1>20 DEF BooksAreTrue, KnownIn
  <2>2. Embedded' = Embedded /\ acked \ doomed' \subseteq acked \ doomed
    BY <1>4, <1>18 DEF Embedded
  <2>3. StoreIs("vector") /\ vecLoaded => (acked \ doomed') \cap Embedded' \subseteq memIndex \cup raced
    BY <1>1, <2>2 DEF BooksAreTrue
  <2>4. erased \subseteq doomed' \cap BareIn(body)
    BY <1>1, <1>18 DEF BooksAreTrue
  <2> QED
    BY <1>1, <1>4, <1>21, <2>1, <2>3, <2>4 DEF BooksAreTrue, StoreIs
<1>28. StoreTrue(s, body', doomed')
  <2>1. s.pc \notin Stored /\ s.pc # "put"
    BY <1>3, <1>12, <1>13 DEF Stored
  <2>2. s.pc \in Early => r.op = "store"
    BY <1>13, <1>17 DEF StepFits
  <2> QED
    BY <1>7, <1>11, <1>13, <1>23, <2>1, <2>2 DEF StoreTrue
<1>29. DeleteTrue(s, body', doomed')
  <2>1. s.pc \in Deleting => r.op = "delete"
    BY <1>3, <1>12, <1>13 DEF Deleting
  <2>2. s.pc \notin {"unindex", "forget"}
    BY <1>3, <1>12, <1>13
  <2> QED
    BY <1>7, <1>13, <1>18, <2>1, <2>2 DEF DeleteTrue
<1>30. QueryTrue(s, body', doomed', acked', erased', raced')
  <2>1. s.op # "store" => s.todo \subseteq L
    BY <1>8, <1>10, <1>1, <1>3, <1>13, <1>21 DEF BooksAreTrue
  <2>2. s.pc \notin {"read", "load", "swap", "nearest"}
    BY <1>3, <1>12, <1>13
  <2> QED
    BY <1>4, <1>13, <2>1, <2>2 DEF QueryTrue
<1> QED
  BY <1>2, <1>14, <1>16, <1>17, <1>21, <1>24, <1>25, <1>26, <1>27, <1>28, <1>29, <1>30, MemFrame DEF CallTrue

\* The invariant holds of an empty store.
LEMMA MemInit == MemoryInit => MemInv
<1> SUFFICES ASSUME MemoryInit PROVE MemInv
  OBVIOUS
<1>1. /\ memSetup \in MemSetups /\ body = [i \in MemIds |-> Body("none")] /\ memIndex = {} /\ savedIndex = {}
      /\ vecLoaded = FALSE /\ encKey = 1 /\ memCall = [k \in MemCallers |-> MemIdle]
      /\ acked = {} /\ doomed = {} /\ erased = {} /\ raced = {}
  BY DEF MemoryInit
<1>2. MemTypeOK
  <2>1. memSetup.provider \in {"markdown", "vector", "byterover"}
    BY <1>1, MemoryConstants
  <2>2. Body("none") \in Bodies
    BY DEF Body, Bodies
  <2> QED
    BY <1>1, <2>1, <2>2 DEF MemTypeOK
<1>3. CallsAreTrue /\ WaitsApart
  BY <1>1, IdleIs DEF CallsAreTrue, WaitsApart
<1>4. BooksAreTrue
  BY <1>1 DEF BooksAreTrue
<1> QED
  BY <1>2, <1>3, <1>4 DEF MemInv

\* Every step of memory keeps the invariant.
LEMMA MemStep == MemInv /\ [MemoryNext]_memVars => MemInv'
<1> SUFFICES ASSUME MemInv, [MemoryNext]_memVars PROVE MemInv'
  OBVIOUS
<1>1. CASE UNCHANGED memVars
  <2>1. UNCHANGED <<memSetup, body, memIndex, savedIndex, vecLoaded, encKey, memCall, acked, doomed, erased, raced>>
    BY <1>1 DEF memVars, memStore, memSeen
  <2> QED
    BY <2>1 DEF MemInv, MemTypeOK, CallsAreTrue, WaitsApart, BooksAreTrue, Embedded, StoreIs
<1>2. ASSUME NEW c \in MemCallers, NEW r \in MemRequests, CallMemory(c, r) PROVE MemInv'
  BY <1>2, CallMemoryStep
<1>3. ASSUME NEW c \in MemCallers,
             \/ OpenEntry(c) \/ WriteEntry(c) \/ AddToIndex(c) \/ GetFilename(c) \/ RemoveFile(c) \/ RemoveFromIndex(c)
             \/ EmbedEntry(c) \/ Upsert(c) \/ PutVector(c) \/ DropRow(c) \/ RemoveVector(c)
             \/ WriteContext(c) \/ DeleteContext(c)
      PROVE  MemInv'
  BY <1>3, OpenEntryStep, WriteEntryStep, AddToIndexStep, GetFilenameStep, RemoveFileStep, RemoveIndexStep,
     EmbedStep, PutVectorStep, WriteContextStep, DeleteContextStep
<1>4. ASSUME NEW c \in MemCallers,
             \/ SearchIndex(c) \/ ReadFiles(c) \/ AskRemote(c) \/ keywordSearch(c) \/ EmbedFails(c) \/ loadFromDB(c)
             \/ SwapIndex(c) \/ vectorSearch(c) \/ MemoryReturns(c)
      PROVE  MemInv'
  BY <1>4, SearchIndexStep, ReadFilesStep, AskRemoteStep, KeywordStep, EmbedFailsStep, LoadStep, SwapIndexStep,
     VectorSearchStep, ReturnsStep
<1>5. ASSUME RotateNow \/ Restart PROVE MemInv'
  BY <1>5, RotateStep, RestartStep
<1> QED
  BY <1>1, <1>2, <1>3, <1>4, <1>5 DEF MemoryNext

\* Memory keeps its invariant: every step belongs to its operation and provider, nobody writes
\* an entry that another call is storing or that is known, what a call remembers of the store
\* stays true while others store and delete, and the disk, the index and the calls agree.
THEOREM MemoryInvariant == MemorySpec => []MemInv
BY MemInit, MemStep, PTL DEF MemorySpec

\* What was stored and is not being deleted is on disk and in the index, a query that was not
\* cut short returns it and names nothing that was gone, and an erasure that saw everything
\* leaves nothing (Store, Query and Delete of the three providers, DeleteAll, DeleteUserData).
THEOREM MemoryIsTrueHolds == MemorySpec => []MemoryIsTrue
<1>1. MemInv => MemoryIsTrue
  <2> SUFFICES ASSUME MemInv PROVE MemoryIsTrue
    OBVIOUS
  <2>1. MemTypeOK /\ BooksAreTrue /\ CallsAreTrue
    BY DEF MemInv
  <2>2. \A i \in acked : i \notin doomed => i \in Present /\ i \notin BareIn(body)
    BY <2>1 DEF BooksAreTrue, KnownIn, Present, BareIn, MemTypeOK
  <2>3. KeptOnDisk
    <3>1. StoreIs("markdown") => acked \subseteq BareIn(body) \cup (memIndex \cap savedIndex)
      BY <2>1 DEF BooksAreTrue
    <3>2. StoreIs("vector") /\ vecLoaded =>
            \A i \in acked \ doomed : body[i].is = "vector" => i \in memIndex \cup raced
      BY <2>1 DEF BooksAreTrue, Embedded, MemTypeOK
    <3> QED
      BY <2>2, <3>1, <3>2 DEF KeptOnDisk
  <2>4. ASSUME NEW c \in MemCallers, Returned(c)
        PROVE  LET a == memCall[c] IN
               /\ Answered(a) /\ a \in MemJobs /\ StepFits(a, memSetup.provider)
               /\ QueryTrue(a, body, doomed, acked, erased, raced) /\ DeleteTrue(a, body, doomed)
    BY <2>4, MemJobIs DEF Returned, MemAt, Answered
  <2>5. AnswersAreTrue
    <3> SUFFICES ASSUME NEW c \in MemCallers, Returned(c), memCall[c].op = "query"
                 PROVE  /\ memCall[c].full /\ memCall[c].q = "words" => memCall[c].kept \ doomed \subseteq memCall[c].found
                        /\ memCall[c].found \cap memCall[c].gone \subseteq raced
      BY DEF AnswersAreTrue
    <3>1. memCall[c].kept \subseteq acked
      BY <2>4 DEF QueryTrue
    <3>2. memCall[c].full /\ memCall[c].q = "words" => memCall[c].kept \subseteq memCall[c].found \cup BareIn(body)
      BY <2>4 DEF QueryTrue
    <3>3. memCall[c].found \cap memCall[c].gone \subseteq raced
      BY <2>4 DEF QueryTrue
    <3> QED
      BY <2>2, <3>1, <3>2, <3>3
  <2>6. ErasuresErase
    <3> SUFFICES ASSUME NEW c \in MemCallers, Returned(c), memCall[c].op = "erase"
                 PROVE  \A i \in (IF memCall[c].full THEN memCall[c].kept ELSE {}) \cup memCall[c].found :
                            body[i].is = "none"
      BY DEF ErasuresErase
    <3>1. memCall[c].q = "words"
      BY <2>4 DEF StepFits
    <3>2. memCall[c].found \subseteq BareIn(body)
      BY <2>4 DEF DeleteTrue
    <3>3. memCall[c].full => memCall[c].kept \subseteq memCall[c].found \cup BareIn(body)
      BY <2>4, <3>1 DEF QueryTrue
    <3> QED
      BY <3>2, <3>3 DEF BareIn
  <2> QED
    BY <2>3, <2>5, <2>6 DEF MemoryIsTrue
<1> QED
  BY <1>1, MemoryInvariant, PTL

-----------------------------------------------------------------------------
(* The turns of a session *)

TurnPcs == {"start", "addUser", "guard", "loop", "compress", "recheck", "summarise", "replace", "rebuild",
            "call", "backoff", "addReply", "shouldCompress", "tools", "addResults", "done"}

\* What a session may hold: the messages that AddMsg and CompressMessages put there.
TurnMessages == [role : Roles, name : {"", Summary.name}, calls : Seq(Turns \X Nat \X Nat),
                 body : Turns \cup {"reply", "result", "summary"}]

TurnLocals == [pc : TurnPcs, stage : {"none", "userAdded", "resultsAdded", "overflow", "final"},
               iter : Nat, attempt : Nat, history : Seq(TurnMessages), reply : Seq(TurnMessages),
               copy : Seq(TurnMessages), filled : SUBSET Nat, next : Nat, ctxDone : BOOLEAN,
               outcome : {"none", "ok", "error"}]

\* What the locals of a turn are at each of its steps.
LocalsFit(l) ==
    /\ l.pc \in {"addReply", "tools", "addResults"} => Len(l.reply) = 1
    /\ l.pc \in {"tools", "addResults"} => l.reply[1].calls # <<>>
    /\ IF l.pc = "addResults" THEN l.next \in DOMAIN l.reply[1].calls ELSE l.next = 1
    /\ l.pc \in {"summarise", "replace"} => Len(l.copy) > KeepRecent

\* The type invariant of the turns.
TurnInv == /\ deps \in Wirings
           /\ msgs \in Seq(TurnMessages)
           /\ turn \in [Turns -> TurnLocals]
           /\ \A t \in Turns : LocalsFit(turn[t])

\* Between the lock that HandleMessage takes and the return of the turn.
Working(t) == turn[t].pc \notin {"start", "done"}

\* With the session lock: who works holds it, and the copy that is being summarised is what
\* the session still holds.
SerialInv == \A t \in Turns : Working(t) => /\ holder = t
                                            /\ turn[t].pc \in {"summarise", "replace"} => turn[t].copy = msgs

\* A turn that has not begun.
LEMMA FreshFits == Fresh \in TurnLocals /\ LocalsFit(Fresh)
  BY EmptySeq DEF Fresh, TurnLocals, TurnPcs, LocalsFit

\* A turn that is over.
LEMMA ReturnFits ==
  ASSUME NEW result \in {"ok", "error"}
  PROVE  LET l == [Fresh EXCEPT !.pc = "done", !.outcome = result] IN l \in TurnLocals /\ LocalsFit(l)
  BY EmptySeq DEF Fresh, TurnLocals, TurnPcs, LocalsFit

\* A step of one turn: the other turns and the wiring stay.
Moves(t) == /\ turn'[t] \in TurnLocals /\ LocalsFit(turn'[t])
            /\ turn' = [turn EXCEPT ![t] = turn'[t]]
            /\ deps' = deps

\* The return of HandleMessage is such a step.
LEMMA Returns ==
  ASSUME TurnInv, NEW t \in Turns, NEW result \in {"ok", "error"}, Return(t, result), deps' = deps
  PROVE  Moves(t)
  BY ReturnFits DEF Return, Moves, TurnInv

\* The messages the agent makes are messages.
LEMMA MessagesMade ==
  ASSUME TurnInv, NEW t \in Turns
  PROVE  /\ Summary \in TurnMessages
         /\ UserMessage(t) \in TurnMessages
         /\ \A n \in Nat : Reply(t, n) \in TurnMessages /\ Len(Reply(t, n).calls) = n
         /\ \A id \in Turns \X Nat \X Nat : executeTool(id) \in TurnMessages
  <1>1. Summary \in TurnMessages
    BY EmptySeq DEF Summary, TurnMessages, Roles
  <1>2. UserMessage(t) \in TurnMessages
    BY EmptySeq DEF UserMessage, TurnMessages, Roles
  <1>3. ASSUME NEW n \in Nat PROVE Reply(t, n) \in TurnMessages /\ Len(Reply(t, n).calls) = n
    <2>1. [k \in 1 .. n |-> <<t, turn[t].iter, k>>] \in Seq(Turns \X Nat \X Nat)
      BY IsASeq DEF TurnInv, TurnLocals
    <2>2. Len([k \in 1 .. n |-> <<t, turn[t].iter, k>>]) = n
      BY <2>1, LenProperties
    <2> QED
      BY <2>1, <2>2 DEF Reply, TurnMessages, Roles
  <1>4. ASSUME NEW id \in Turns \X Nat \X Nat PROVE executeTool(id) \in TurnMessages
    <2>1. <<id>> \in Seq(Turns \X Nat \X Nat)
      OBVIOUS
    <2> QED
      BY <2>1 DEF executeTool, TurnMessages, Roles
  <1> QED
    BY <1>1, <1>2, <1>3, <1>4

\* What follows a compression goes on to the next check, to another call, or ends the turn.
LEMMA AfterCompressMoves ==
  ASSUME TurnInv, NEW t \in Turns, NEW failed \in BOOLEAN, AfterCompress(t, failed), deps' = deps,
         turn[t].pc \in {"compress", "summarise", "replace"}
  PROVE  /\ Moves(t) /\ turn'[t].pc \in {"done", "recheck", "rebuild"}
         /\ IF turn'[t].pc = "done" THEN holder' = IF holder = t THEN NoTurn ELSE holder ELSE UNCHANGED holder
  <1>1. CASE \E result \in {"ok", "error"} : Return(t, result)
    <2>1. PICK result \in {"ok", "error"} : Return(t, result)
      BY <1>1
    <2>2. turn'[t].pc = "done" /\ holder' = IF holder = t THEN NoTurn ELSE holder
      BY <2>1 DEF Return, Fresh, TurnInv
    <2> QED
      BY <2>1, <2>2, Returns
  <1>2. CASE /\ turn' = [turn EXCEPT ![t].pc = IF turn[t].stage \in {"userAdded", "resultsAdded"} THEN "recheck" ELSE "rebuild",
                                     ![t].copy = <<>>]
             /\ UNCHANGED holder
    <2> DEFINE pc == IF turn[t].stage \in {"userAdded", "resultsAdded"} THEN "recheck" ELSE "rebuild"
               l  == [turn[t] EXCEPT !.pc = pc, !.copy = <<>>]
    <2>1. turn' = [turn EXCEPT ![t] = l]
      BY <1>2 DEF TurnInv
    <2>2. turn[t] \in TurnLocals /\ LocalsFit(turn[t])
      BY DEF TurnInv
    <2>3. pc \in {"recheck", "rebuild"}
      OBVIOUS
    <2>4. l \in TurnLocals /\ l.pc = pc /\ LocalsFit(l)
      <3> HIDE DEF pc
      <3> QED
        BY <2>2, <2>3, EmptySeq DEF TurnLocals, LocalsFit, TurnPcs
    <2> HIDE DEF l, pc
    <2>5. turn'[t] = l
      BY <2>1 DEF TurnInv
    <2> QED
      BY <1>2, <2>1, <2>3, <2>4, <2>5 DEF Moves
  <1> QED
    BY <1>1, <1>2 DEF AfterCompress

\* What a step does to the lock, to the session and to the copy of its turn.
SerialMoves(t) ==
    /\ ~At(t, "done")
    /\ \/ turn'[t].pc = "done" /\ holder' = IF holder = t THEN NoTurn ELSE holder
       \/ turn'[t].pc \notin {"start", "done"} /\ Working(t) /\ UNCHANGED holder
       \/ At(t, "start") /\ turn'[t].pc = "start" /\ UNCHANGED holder
       \/ /\ At(t, "start") /\ turn'[t].pc = "addUser"
          /\ deps.locker => holder = NoTurn
          /\ holder' = IF deps.locker THEN t ELSE holder
    /\ Working(t) \/ UNCHANGED msgs
    /\ turn'[t].pc \in {"summarise", "replace"} =>
          /\ UNCHANGED msgs
          /\ \/ turn'[t].copy = msgs
             \/ turn[t].pc \in {"summarise", "replace"} /\ turn'[t].copy = turn[t].copy

\* A step that keeps all this.
Good(t) == Moves(t) /\ msgs' \in Seq(TurnMessages) /\ SerialMoves(t)

\* New locals that fit make a step of one turn.
LEMMA MovesTo ==
  ASSUME TurnInv, NEW t \in Turns, NEW l \in TurnLocals, LocalsFit(l), turn' = [turn EXCEPT ![t] = l], deps' = deps
  PROVE  Moves(t) /\ turn'[t] = l
  BY DEF Moves, TurnInv

\* HandleMessage takes the session lock.
LEMMA EnterGood == ASSUME TurnInv, NEW t \in Turns, Enter(t) PROVE Good(t)
  <1> DEFINE l == [turn[t] EXCEPT !.pc = "addUser"]
  <1>1. turn' = [turn EXCEPT ![t] = l] /\ deps' = deps
    BY DEF TurnInv, Enter
  <1>2. l \in TurnLocals /\ LocalsFit(l)
    <2>1. turn[t] \in TurnLocals /\ LocalsFit(turn[t]) /\ turn[t].pc \in {"start", "addUser", "call"}
      BY DEF TurnInv, Enter, At
    <2> QED
      BY <2>1 DEF TurnLocals, LocalsFit, TurnPcs
  <1>3. msgs' \in Seq(TurnMessages)
    BY MessagesMade, AppendProperties DEF Enter, TurnInv
  <1>4. SerialMoves(t)
    <2>1. turn'[t] = l
      BY <1>1 DEF TurnInv
    <2> QED
      BY <2>1 DEF SerialMoves, Enter, At, Working, TurnInv, TurnLocals
  <1> HIDE DEF l
  <1> QED
    BY <1>1, <1>2, <1>3, <1>4, MovesTo DEF Good

\* The user message is added.
LEMMA AddUserMessageGood == ASSUME TurnInv, NEW t \in Turns, AddUserMessage(t) PROVE Good(t)
  <1> DEFINE l == [turn[t] EXCEPT !.pc = IF deps.guard THEN "guard" ELSE "loop", !.stage = "userAdded"]
  <1>1. turn' = [turn EXCEPT ![t] = l] /\ deps' = deps
    BY DEF TurnInv, AddUserMessage
  <1>2. l \in TurnLocals /\ LocalsFit(l)
    <2>1. turn[t] \in TurnLocals /\ LocalsFit(turn[t]) /\ turn[t].pc \in {"start", "addUser", "call"}
      BY DEF TurnInv, AddUserMessage, At
    <2> QED
      BY <2>1 DEF TurnLocals, LocalsFit, TurnPcs
  <1>3. msgs' \in Seq(TurnMessages)
    BY MessagesMade, AppendProperties DEF AddUserMessage, TurnInv
  <1>4. SerialMoves(t)
    <2>1. turn'[t] = l
      BY <1>1 DEF TurnInv
    <2> QED
      BY <2>1 DEF SerialMoves, AddUserMessage, At, Working, TurnInv, TurnLocals
  <1> HIDE DEF l
  <1> QED
    BY <1>1, <1>2, <1>3, <1>4, MovesTo DEF Good

\* A call fails with an error that is retried.
LEMMA LLMRetryableGood == ASSUME TurnInv, NEW t \in Turns, LLMRetryable(t) PROVE Good(t)
  <1> DEFINE l == [turn[t] EXCEPT !.pc = "backoff"]
  <1>1. turn' = [turn EXCEPT ![t] = l] /\ deps' = deps
    BY DEF TurnInv, LLMRetryable
  <1>2. l \in TurnLocals /\ LocalsFit(l)
    <2>1. turn[t] \in TurnLocals /\ LocalsFit(turn[t]) /\ turn[t].pc \in {"start", "addUser", "call"}
      BY DEF TurnInv, LLMRetryable, At
    <2> QED
      BY <2>1 DEF TurnLocals, LocalsFit, TurnPcs
  <1>3. msgs' \in Seq(TurnMessages)
    BY MessagesMade, AppendProperties DEF LLMRetryable, TurnInv
  <1>4. SerialMoves(t)
    <2>1. turn'[t] = l
      BY <1>1 DEF TurnInv
    <2> QED
      BY <2>1 DEF SerialMoves, LLMRetryable, At, Working, TurnInv, TurnLocals
  <1> HIDE DEF l
  <1> QED
    BY <1>1, <1>2, <1>3, <1>4, MovesTo DEF Good

\* A call fails because the context is too long.
LEMMA LLMOverflowGood == ASSUME TurnInv, NEW t \in Turns, LLMOverflow(t) PROVE Good(t)
  <1> DEFINE l == [turn[t] EXCEPT !.pc = "compress", !.stage = "overflow"]
  <1>1. turn' = [turn EXCEPT ![t] = l] /\ deps' = deps
    BY DEF TurnInv, LLMOverflow
  <1>2. l \in TurnLocals /\ LocalsFit(l)
    <2>1. turn[t] \in TurnLocals /\ LocalsFit(turn[t]) /\ turn[t].pc \in {"start", "addUser", "call"}
      BY DEF TurnInv, LLMOverflow, At
    <2> QED
      BY <2>1 DEF TurnLocals, LocalsFit, TurnPcs
  <1>3. msgs' \in Seq(TurnMessages)
    BY MessagesMade, AppendProperties DEF LLMOverflow, TurnInv
  <1>4. SerialMoves(t)
    <2>1. turn'[t] = l
      BY <1>1 DEF TurnInv
    <2> QED
      BY <2>1 DEF SerialMoves, LLMOverflow, At, Working, TurnInv, TurnLocals
  <1> HIDE DEF l
  <1> QED
    BY <1>1, <1>2, <1>3, <1>4, MovesTo DEF Good

\* The context ends.
LEMMA CancelContextGood == ASSUME TurnInv, NEW t \in Turns, CancelContext(t) PROVE Good(t)
  <1> DEFINE l == [turn[t] EXCEPT !.ctxDone = TRUE]
  <1>1. turn' = [turn EXCEPT ![t] = l] /\ deps' = deps
    BY DEF TurnInv, CancelContext
  <1>2. l \in TurnLocals /\ LocalsFit(l)
    <2>1. turn[t] \in TurnLocals /\ LocalsFit(turn[t])
      BY DEF TurnInv
    <2> QED
      BY <2>1 DEF TurnLocals, LocalsFit
  <1>3. msgs' \in Seq(TurnMessages)
    BY MessagesMade, AppendProperties DEF CancelContext, TurnInv
  <1>4. SerialMoves(t)
    <2>1. turn'[t] = l
      BY <1>1 DEF TurnInv
    <2> QED
      BY <2>1 DEF SerialMoves, CancelContext, At, Working, TurnInv, TurnLocals
  <1> HIDE DEF l
  <1> QED
    BY <1>1, <1>2, <1>3, <1>4, MovesTo DEF Good

\* A turn returns.
LEMMA ReturnGood ==
  ASSUME TurnInv, NEW t \in Turns, NEW result \in {"ok", "error"}, Return(t, result), deps' = deps,
         ~At(t, "done"), msgs' \in Seq(TurnMessages), Working(t) \/ UNCHANGED msgs
  PROVE  Good(t)
  <1>1. turn'[t].pc = "done" /\ holder' = IF holder = t THEN NoTurn ELSE holder
    BY DEF Return, Fresh, TurnInv
  <1> QED
    BY <1>1, Returns DEF Good, SerialMoves

\* A turn goes on, with the lock it has.
LEMMA StepGood ==
  ASSUME TurnInv, NEW t \in Turns, NEW l \in TurnLocals, LocalsFit(l), turn' = [turn EXCEPT ![t] = l],
         deps' = deps,
         UNCHANGED holder, Working(t), l.pc \notin {"start", "done"}, msgs' \in Seq(TurnMessages),
         l.pc \in {"summarise", "replace"} =>
            UNCHANGED msgs /\ (l.copy = msgs \/ (turn[t].pc \in {"summarise", "replace"} /\ l.copy = turn[t].copy))
  PROVE  Good(t)
  BY MovesTo DEF Good, SerialMoves, Working, At

\* The context guard looks at the history.
LEMMA GuardCheckGood == ASSUME TurnInv, NEW t \in Turns, GuardCheck(t) PROVE Good(t)
  <1>1. At(t, "guard") /\ UNCHANGED <<deps, msgs>> /\ msgs' \in Seq(TurnMessages)
    BY DEF GuardCheck, TurnInv
  <1>2. CASE WithinLimit /\ PassGuard(t)
    <2> DEFINE n == IF turn[t].stage = "resultsAdded" THEN turn[t].iter + 1 ELSE turn[t].iter
               l == [turn[t] EXCEPT !.pc = "loop", !.iter = n]
    <2>1. turn' = [turn EXCEPT ![t] = l] /\ UNCHANGED holder
      BY <1>2 DEF TurnInv, PassGuard
    <2>2. turn[t] \in TurnLocals /\ LocalsFit(turn[t]) /\ turn[t].pc = "guard" /\ msgs \in Seq(TurnMessages)
      BY <1>1 DEF TurnInv, At
    <2>3. n \in Nat
      BY <2>2 DEF TurnLocals
    <2>4. l \in TurnLocals /\ LocalsFit(l)
      <3> HIDE DEF n
      <3> QED
        BY <2>2, <2>3 DEF TurnLocals, LocalsFit, TurnPcs
    <2> HIDE DEF n
    <2> QED
      BY <1>1, <2>1, <2>2, <2>4, StepGood DEF Working, TurnLocals
  <1>3. CASE turn' = [turn EXCEPT ![t].pc = "compress"] /\ UNCHANGED holder
    <2> DEFINE l == [turn[t] EXCEPT !.pc = "compress"]
    <2>1. turn' = [turn EXCEPT ![t] = l] /\ UNCHANGED holder
      BY <1>3 DEF TurnInv, PassGuard
    <2>2. turn[t] \in TurnLocals /\ LocalsFit(turn[t]) /\ turn[t].pc = "guard" /\ msgs \in Seq(TurnMessages)
      BY <1>1 DEF TurnInv, At
    <2>3. l \in TurnLocals /\ LocalsFit(l)
      BY <1>3, <2>2 DEF TurnLocals, LocalsFit, TurnPcs
    <2> QED
      BY <1>1, <2>1, <2>2, <2>3, StepGood DEF Working, TurnLocals
  <1>4. CASE Return(t, "error")
    BY <1>1, <1>4, ReturnGood DEF At
  <1> QED
    BY <1>2, <1>3, <1>4 DEF GuardCheck

\* The guard looks again after a compression.
LEMMA GuardRecheckGood == ASSUME TurnInv, NEW t \in Turns, GuardRecheck(t) PROVE Good(t)
  <1>1. At(t, "recheck") /\ UNCHANGED <<deps, msgs>> /\ msgs' \in Seq(TurnMessages)
    BY DEF GuardRecheck, TurnInv
  <1>2. CASE WithinLimit /\ PassGuard(t)
    <2> DEFINE n == IF turn[t].stage = "resultsAdded" THEN turn[t].iter + 1 ELSE turn[t].iter
               l == [turn[t] EXCEPT !.pc = "loop", !.iter = n]
    <2>1. turn' = [turn EXCEPT ![t] = l] /\ UNCHANGED holder
      BY <1>2 DEF TurnInv, PassGuard
    <2>2. turn[t] \in TurnLocals /\ LocalsFit(turn[t]) /\ turn[t].pc = "recheck" /\ msgs \in Seq(TurnMessages)
      BY <1>1 DEF TurnInv, At
    <2>3. n \in Nat
      BY <2>2 DEF TurnLocals
    <2>4. l \in TurnLocals /\ LocalsFit(l)
      <3> HIDE DEF n
      <3> QED
        BY <2>2, <2>3 DEF TurnLocals, LocalsFit, TurnPcs
    <2> HIDE DEF n
    <2> QED
      BY <1>1, <2>1, <2>2, <2>4, StepGood DEF Working, TurnLocals
  <1>3. CASE Return(t, "error")
    BY <1>1, <1>3, ReturnGood DEF At
  <1> QED
    BY <1>2, <1>3 DEF GuardRecheck

\* The compressor copies the session.
LEMMA CompressCopyGood == ASSUME TurnInv, NEW t \in Turns, CompressCopy(t) PROVE Good(t)
  <1>1. At(t, "compress") /\ UNCHANGED <<deps, msgs>> /\ msgs' \in Seq(TurnMessages)
    BY DEF CompressCopy, TurnInv
  <1>2. CASE Len(msgs) <= KeepRecent /\ AfterCompress(t, FALSE)
    BY <1>1, <1>2, AfterCompressMoves DEF Good, SerialMoves, Working, At
  <1>3. CASE Len(msgs) > KeepRecent /\ turn' = [turn EXCEPT ![t].pc = "summarise", ![t].copy = msgs] /\ UNCHANGED holder
    <2> DEFINE l == [turn[t] EXCEPT !.pc = "summarise", !.copy = msgs]
    <2>1. turn' = [turn EXCEPT ![t] = l] /\ UNCHANGED holder
      BY <1>3 DEF TurnInv, PassGuard
    <2>2. turn[t] \in TurnLocals /\ LocalsFit(turn[t]) /\ turn[t].pc = "compress" /\ msgs \in Seq(TurnMessages)
      BY <1>1 DEF TurnInv, At
    <2>3. l \in TurnLocals /\ LocalsFit(l)
      BY <1>3, <2>2 DEF TurnLocals, LocalsFit, TurnPcs
    <2> QED
      BY <1>1, <2>1, <2>2, <2>3, StepGood DEF Working, TurnLocals
  <1> QED
    BY <1>2, <1>3 DEF CompressCopy

\* The summary is made, without the lock of the session object.
LEMMA SummariseGood == ASSUME TurnInv, NEW t \in Turns, Summarise(t) PROVE Good(t)
  <1>1. At(t, "summarise") /\ UNCHANGED <<deps, msgs>> /\ msgs' \in Seq(TurnMessages)
    BY DEF Summarise, TurnInv
  <1>2. CASE \E failed \in BOOLEAN : AfterCompress(t, failed)
    BY <1>1, <1>2, AfterCompressMoves DEF Good, SerialMoves, Working, At
  <1>3. CASE turn' = [turn EXCEPT ![t].pc = "replace"] /\ UNCHANGED holder
    <2> DEFINE l == [turn[t] EXCEPT !.pc = "replace"]
    <2>1. turn' = [turn EXCEPT ![t] = l] /\ UNCHANGED holder
      BY <1>3 DEF TurnInv, PassGuard
    <2>2. turn[t] \in TurnLocals /\ LocalsFit(turn[t]) /\ turn[t].pc = "summarise" /\ msgs \in Seq(TurnMessages)
      BY <1>1 DEF TurnInv, At
    <2>3. l \in TurnLocals /\ LocalsFit(l)
      BY <1>3, <2>2 DEF TurnLocals, LocalsFit, TurnPcs
    <2> QED
      BY <1>1, <2>1, <2>2, <2>3, StepGood DEF Working, TurnLocals
  <1> QED
    BY <1>2, <1>3 DEF Summarise

\* Another iteration begins, or there are no more.
LEMMA LoopHeadGood == ASSUME TurnInv, NEW t \in Turns, LoopHead(t) PROVE Good(t)
  <1>1. At(t, "loop") /\ UNCHANGED <<deps, msgs>> /\ msgs' \in Seq(TurnMessages)
    BY DEF LoopHead, TurnInv
  <1>2. CASE Return(t, "error")
    BY <1>1, <1>2, ReturnGood DEF At
  <1>3. CASE turn' = [turn EXCEPT ![t].pc = "call", ![t].attempt = 0, ![t].history = msgs] /\ UNCHANGED holder
    <2> DEFINE l == [turn[t] EXCEPT !.pc = "call", !.attempt = 0, !.history = msgs]
    <2>1. turn' = [turn EXCEPT ![t] = l] /\ UNCHANGED holder
      BY <1>3 DEF TurnInv, PassGuard
    <2>2. turn[t] \in TurnLocals /\ LocalsFit(turn[t]) /\ turn[t].pc = "loop" /\ msgs \in Seq(TurnMessages)
      BY <1>1 DEF TurnInv, At
    <2>3. l \in TurnLocals /\ LocalsFit(l)
      BY <1>3, <2>2 DEF TurnLocals, LocalsFit, TurnPcs
    <2> QED
      BY <1>1, <2>1, <2>2, <2>3, StepGood DEF Working, TurnLocals
  <1> QED
    BY <1>2, <1>3 DEF LoopHead

\* The history is built again after an overflow.
LEMMA RebuildGood == ASSUME TurnInv, NEW t \in Turns, Rebuild(t) PROVE Good(t)
  <1>1. At(t, "rebuild") /\ UNCHANGED <<deps, msgs>> /\ msgs' \in Seq(TurnMessages)
    BY DEF Rebuild, TurnInv
  <1>2. CASE Return(t, "error")
    BY <1>1, <1>2, ReturnGood DEF At
  <1>3. CASE turn' = [turn EXCEPT ![t].pc = "call", ![t].attempt = @ + 1, ![t].history = msgs] /\ UNCHANGED holder
    <2> DEFINE l == [turn[t] EXCEPT !.pc = "call", !.attempt = @ + 1, !.history = msgs]
    <2>1. turn' = [turn EXCEPT ![t] = l] /\ UNCHANGED holder
      BY <1>3 DEF TurnInv, PassGuard
    <2>2. turn[t] \in TurnLocals /\ LocalsFit(turn[t]) /\ turn[t].pc = "rebuild" /\ msgs \in Seq(TurnMessages)
      BY <1>1 DEF TurnInv, At
    <2>3. l \in TurnLocals /\ LocalsFit(l)
      <3>1. turn[t].attempt + 1 \in Nat
        BY <2>2 DEF TurnLocals
      <3>2. l \in TurnLocals
        BY <2>2, <3>1 DEF TurnLocals, TurnPcs
      <3> QED
        BY <2>2, <3>2 DEF TurnLocals, LocalsFit
    <2> QED
      BY <1>1, <2>1, <2>2, <2>3, StepGood DEF Working, TurnLocals
  <1> QED
    BY <1>2, <1>3 DEF Rebuild

\* The pause before a retry.
LEMMA BackoffGood == ASSUME TurnInv, NEW t \in Turns, Backoff(t) PROVE Good(t)
  <1>1. At(t, "backoff") /\ UNCHANGED <<deps, msgs>> /\ msgs' \in Seq(TurnMessages)
    BY DEF Backoff, TurnInv
  <1>2. CASE Return(t, "error")
    BY <1>1, <1>2, ReturnGood DEF At
  <1>3. CASE turn' = [turn EXCEPT ![t].pc = "call", ![t].attempt = @ + 1] /\ UNCHANGED holder
    <2> DEFINE l == [turn[t] EXCEPT !.pc = "call", !.attempt = @ + 1]
    <2>1. turn' = [turn EXCEPT ![t] = l] /\ UNCHANGED holder
      BY <1>3 DEF TurnInv, PassGuard
    <2>2. turn[t] \in TurnLocals /\ LocalsFit(turn[t]) /\ turn[t].pc = "backoff" /\ msgs \in Seq(TurnMessages)
      BY <1>1 DEF TurnInv, At
    <2>3. l \in TurnLocals /\ LocalsFit(l)
      <3>1. turn[t].attempt + 1 \in Nat
        BY <2>2 DEF TurnLocals
      <3>2. l \in TurnLocals
        BY <2>2, <3>1 DEF TurnLocals, TurnPcs
      <3> QED
        BY <2>2, <3>2 DEF TurnLocals, LocalsFit
    <2> QED
      BY <1>1, <2>1, <2>2, <2>3, StepGood DEF Working, TurnLocals
  <1> QED
    BY <1>2, <1>3 DEF Backoff

\* A call fails for good.
LEMMA LLMFailsGood == ASSUME TurnInv, NEW t \in Turns, LLMFails(t) PROVE Good(t)
  <1>1. At(t, "call") /\ UNCHANGED <<deps, msgs>> /\ msgs' \in Seq(TurnMessages)
    BY DEF LLMFails, TurnInv
  <1>2. CASE Return(t, "error")
    BY <1>1, <1>2, ReturnGood DEF At
  <1> QED
    BY <1>2 DEF LLMFails

\* The lock is not to be had.
LEMMA LockFailsGood == ASSUME TurnInv, NEW t \in Turns, LockFails(t) PROVE Good(t)
  <1>1. At(t, "start") /\ UNCHANGED <<deps, msgs>> /\ msgs' \in Seq(TurnMessages)
    BY DEF LockFails, TurnInv
  <1>2. CASE Return(t, "error")
    BY <1>1, <1>2, ReturnGood DEF At
  <1> QED
    BY <1>2 DEF LockFails

\* A turn ends, perhaps with a compression first.
LEMMA ShouldCompressGood == ASSUME TurnInv, NEW t \in Turns, ShouldCompress(t) PROVE Good(t)
  <1>1. At(t, "shouldCompress") /\ UNCHANGED <<deps, msgs>> /\ msgs' \in Seq(TurnMessages)
    BY DEF ShouldCompress, TurnInv
  <1>2. CASE Return(t, "ok")
    BY <1>1, <1>2, ReturnGood DEF At
  <1>3. CASE turn' = [turn EXCEPT ![t].pc = "compress", ![t].stage = "final"] /\ UNCHANGED holder
    <2> DEFINE l == [turn[t] EXCEPT !.pc = "compress", !.stage = "final"]
    <2>1. turn' = [turn EXCEPT ![t] = l] /\ UNCHANGED holder
      BY <1>3 DEF TurnInv, PassGuard
    <2>2. turn[t] \in TurnLocals /\ LocalsFit(turn[t]) /\ turn[t].pc = "shouldCompress" /\ msgs \in Seq(TurnMessages)
      BY <1>1 DEF TurnInv, At
    <2>3. l \in TurnLocals /\ LocalsFit(l)
      BY <1>3, <2>2 DEF TurnLocals, LocalsFit, TurnPcs
    <2> QED
      BY <1>1, <2>1, <2>2, <2>3, StepGood DEF Working, TurnLocals
  <1> QED
    BY <1>2, <1>3 DEF ShouldCompress

\* CompressMessages keeps the last messages and puts one summary in the place of the
\* others.
LEMMA CompressedIs ==
  ASSUME NEW s \in Seq(TurnMessages), NEW k \in Nat \ {0}, Summary \in TurnMessages
  PROVE  /\ CompressMessages(s, k) \in Seq(TurnMessages)
         /\ Len(s) > k => s = SubSeq(s, 1, Len(s) - k) \o Tail(CompressMessages(s, k))
  <1>1. CASE ~(Len(s) > k)
    <2>1. Len(s) <= k
      BY <1>1, LenProperties
    <2> QED
      BY <1>1, <2>1 DEF CompressMessages
  <1>2. CASE Len(s) > k
    <2> DEFINE r == SubSeq(s, Len(s) - k + 1, Len(s))
    <2>1. Len(s) \in Nat /\ \A i \in 1 .. Len(s) : s[i] \in TurnMessages
      BY LenProperties, ElementOfSeq
    <2>2. r \in Seq(TurnMessages)
      BY <1>2, <2>1, SubSeqProperties
    <2>3. CompressMessages(s, k) = <<Summary>> \o r
      BY <1>2, <2>1 DEF CompressMessages, LastN
    <2>4. <<Summary>> \o r \in Seq(TurnMessages) /\ Tail(<<Summary>> \o r) = r
      <3> HIDE DEF r
      <3> QED
        BY <2>2
    <2>5. SubSeq(s, 1, Len(s) - k) \o r = SubSeq(s, 1, Len(s))
      <3>1. Len(s) - k \in 1 - 1 .. Len(s) /\ 1 \in 1 .. Len(s) + 1 /\ Len(s) \in Len(s) - k .. Len(s)
        BY <1>2, <2>1
      <3> QED
        BY <3>1, ConcatAdjacentSubSeq
    <2> QED
      BY <2>3, <2>4, <2>5, SubSeqFull
  <1> QED
    BY <1>1, <1>2

\* The compressor replaces the messages of the session.
LEMMA ReplaceGood == ASSUME TurnInv, NEW t \in Turns, Replace(t) PROVE Good(t)
  <1>1. At(t, "replace") /\ deps' = deps /\ AfterCompress(t, FALSE)
    BY DEF Replace
  <1>2. msgs' \in Seq(TurnMessages)
    BY CompressedIs, MessagesMade, TurnBounds DEF Replace, TurnInv
  <1> QED
    BY <1>1, <1>2, AfterCompressMoves DEF Good, SerialMoves, Working, At

\* The model answers.
LEMMA LLMRepliesGood == ASSUME TurnInv, NEW t \in Turns, LLMReplies(t) PROVE Good(t)
  <1>1. PICK n \in {0} \cup CallCounts : turn' = [turn EXCEPT ![t].pc = "addReply", ![t].reply = <<Reply(t, n)>>]
    BY DEF LLMReplies
  <1> DEFINE m == Reply(t, n)
             l == [turn[t] EXCEPT !.pc = "addReply", !.reply = <<m>>]
  <1>2. m \in TurnMessages
    BY TurnBounds, MessagesMade
  <1>3. turn[t] \in TurnLocals /\ LocalsFit(turn[t]) /\ turn[t].pc = "call" /\ msgs' \in Seq(TurnMessages) /\ UNCHANGED <<deps, holder>>
    BY DEF TurnInv, LLMReplies, At
  <1>4. turn' = [turn EXCEPT ![t] = l]
    BY <1>1 DEF TurnInv
  <1>5. l \in TurnLocals /\ LocalsFit(l)
    <2> HIDE DEF m
    <2>1. <<m>> \in Seq(TurnMessages) /\ Len(<<m>>) = 1
      BY <1>2
    <2> QED
      BY <1>3, <2>1 DEF TurnLocals, LocalsFit, TurnPcs
  <1> QED
    BY <1>3, <1>4, <1>5, StepGood DEF Working, TurnLocals

\* The answer is added to the session.
LEMMA AddReplyGood == ASSUME TurnInv, NEW t \in Turns, AddReply(t) PROVE Good(t)
  <1>1. turn[t] \in TurnLocals /\ LocalsFit(turn[t]) /\ turn[t].pc = "addReply" /\ deps' = deps
    BY DEF TurnInv, AddReply, At
  <1>2. msgs' \in Seq(TurnMessages)
    <2>1. turn[t].reply \in Seq(TurnMessages) /\ Len(turn[t].reply) = 1
      BY <1>1 DEF TurnLocals, LocalsFit
    <2>2. turn[t].reply[1] \in TurnMessages
      BY <2>1
    <2> QED
      BY <2>2, AppendProperties DEF AddReply, TurnInv
  <1>3. CASE Return(t, "ok")
    BY <1>1, <1>2, <1>3, ReturnGood DEF At, Working
  <1>4. CASE /\ turn' = [turn EXCEPT ![t].pc = IF Calls(t) # <<>> THEN "tools" ELSE "shouldCompress", ![t].filled = {}]
             /\ UNCHANGED holder
    <2> DEFINE pc == IF Calls(t) # <<>> THEN "tools" ELSE "shouldCompress"
               l == [turn[t] EXCEPT !.pc = pc, !.filled = {}]
    <2>1. turn' = [turn EXCEPT ![t] = l]
      BY <1>4 DEF TurnInv
    <2>2. pc \in {"tools", "shouldCompress"} /\ (pc = "tools" => turn[t].reply[1].calls # <<>>)
      BY DEF Calls
    <2>3. l \in TurnLocals /\ LocalsFit(l) /\ l.pc = pc
      <3> HIDE DEF pc
      <3> QED
        BY <1>1, <2>2 DEF TurnLocals, LocalsFit, TurnPcs
    <2> HIDE DEF l, pc
    <2> QED
      BY <1>1, <1>2, <1>4, <2>1, <2>2, <2>3, StepGood DEF Working
  <1> QED
    BY <1>3, <1>4 DEF AddReply

\* A tool call is done, in any order.
LEMMA ToolDoneGood == ASSUME TurnInv, NEW t \in Turns, ToolDone(t) PROVE Good(t)
  <1>1. turn[t] \in TurnLocals /\ LocalsFit(turn[t]) /\ turn[t].pc = "tools" /\ UNCHANGED <<deps, msgs, holder>>
    BY DEF TurnInv, ToolDone, At
  <1>2. Calls(t) \in Seq(Turns \X Nat \X Nat) /\ Len(Calls(t)) \in Nat \ {0} /\ DOMAIN Calls(t) = 1 .. Len(Calls(t))
    <2>1. turn[t].reply \in Seq(TurnMessages) /\ Len(turn[t].reply) = 1 /\ Calls(t) # <<>>
      BY <1>1 DEF TurnLocals, LocalsFit, Calls
    <2>2. turn[t].reply[1] \in TurnMessages
      BY <2>1
    <2>3. Calls(t) \in Seq(Turns \X Nat \X Nat)
      BY <2>2 DEF TurnMessages, Calls
    <2> QED
      BY <2>1, <2>3, LenProperties, EmptySeq
  <1>3. PICK k \in DOMAIN Calls(t) \ turn[t].filled :
           turn' = [turn EXCEPT ![t].filled = @ \cup {k},
                                ![t].pc = IF turn[t].filled \cup {k} = DOMAIN Calls(t) THEN "addResults" ELSE @]
    BY DEF ToolDone
  <1> DEFINE f  == turn[t].filled \cup {k}
             pc == IF f = DOMAIN Calls(t) THEN "addResults" ELSE "tools"
             l  == [turn[t] EXCEPT !.filled = f, !.pc = pc]
  <1>4. turn' = [turn EXCEPT ![t] = l]
    BY <1>1, <1>3 DEF TurnInv
  <1>5. pc \in {"tools", "addResults"} /\ f \in SUBSET Nat
    <2>1. turn[t].filled \in SUBSET Nat
      BY <1>1 DEF TurnLocals
    <2>2. k \in 1 .. Len(Calls(t)) /\ Len(Calls(t)) \in Nat
      BY <1>2
    <2> QED
      BY <2>1, <2>2
  <1>6. 1 \in DOMAIN turn[t].reply[1].calls
    BY <1>2 DEF Calls
  <1>7. l \in TurnLocals /\ LocalsFit(l) /\ l.pc = pc
    <2> HIDE DEF f, pc
    <2> QED
      BY <1>1, <1>5, <1>6 DEF TurnLocals, LocalsFit, TurnPcs
  <1> HIDE DEF l, pc
  <1> QED
    BY <1>1, <1>4, <1>5, <1>7, StepGood DEF Working, TurnInv

\* A result is added, in the order of the calls.
LEMMA AddResultGood == ASSUME TurnInv, NEW t \in Turns, AddResult(t) PROVE Good(t)
  <1>1. turn[t] \in TurnLocals /\ LocalsFit(turn[t]) /\ turn[t].pc = "addResults" /\ UNCHANGED <<deps, holder>>
    BY DEF TurnInv, AddResult, At
  <1>2. Calls(t) \in Seq(Turns \X Nat \X Nat) /\ turn[t].next \in DOMAIN Calls(t)
    <2>1. turn[t].reply \in Seq(TurnMessages) /\ Len(turn[t].reply) = 1 /\ turn[t].next \in DOMAIN Calls(t)
      BY <1>1 DEF TurnLocals, LocalsFit, Calls
    <2>2. turn[t].reply[1] \in TurnMessages
      BY <2>1
    <2> QED
      BY <2>1, <2>2 DEF TurnMessages, Calls
  <1>3. msgs' \in Seq(TurnMessages)
    <2>1. Calls(t)[turn[t].next] \in Turns \X Nat \X Nat
      BY <1>2
    <2> QED
      BY <2>1, MessagesMade, AppendProperties DEF AddResult, TurnInv
  <1>4. CASE turn[t].next = Len(Calls(t))
    <2> DEFINE pc == IF deps.guard THEN "guard" ELSE "loop"
               n  == IF deps.guard THEN turn[t].iter ELSE turn[t].iter + 1
               l  == [turn[t] EXCEPT !.next = 1, !.stage = "resultsAdded", !.pc = pc, !.iter = n]
    <2>1. turn' = [turn EXCEPT ![t] = l]
      BY <1>4 DEF TurnInv, AddResult
    <2>2. pc \in {"guard", "loop"} /\ n \in Nat
      BY <1>1 DEF TurnLocals
    <2>3. l \in TurnLocals /\ LocalsFit(l) /\ l.pc = pc
      <3> HIDE DEF n, pc
      <3> QED
        BY <1>1, <2>2 DEF TurnLocals, LocalsFit, TurnPcs
    <2> HIDE DEF l, pc
    <2> QED
      BY <1>1, <1>3, <2>1, <2>2, <2>3, StepGood DEF Working
  <1>5. CASE turn[t].next # Len(Calls(t))
    <2> DEFINE n == turn[t].next + 1
               l == [turn[t] EXCEPT !.next = n]
    <2>1. turn' = [turn EXCEPT ![t] = l]
      BY <1>5 DEF TurnInv, AddResult
    <2>2. n \in Nat /\ n \in DOMAIN turn[t].reply[1].calls
      <3>1. DOMAIN Calls(t) = 1 .. Len(Calls(t)) /\ Len(Calls(t)) \in Nat
        BY <1>2, LenProperties
      <3>2. turn[t].next \in 1 .. Len(Calls(t))
        BY <1>2, <3>1
      <3>3. n \in Nat /\ n \in 1 .. Len(Calls(t))
        BY <1>5, <3>1, <3>2
      <3> QED
        BY <3>1, <3>3 DEF Calls
    <2>3. l \in TurnLocals /\ LocalsFit(l) /\ l.pc = "addResults"
      <3> HIDE DEF n
      <3> QED
        BY <1>1, <2>2 DEF TurnLocals, LocalsFit
    <2> HIDE DEF l
    <2> QED
      BY <1>1, <1>3, <2>1, <2>3, StepGood DEF Working
  <1> QED
    BY <1>4, <1>5

\* Every step of a turn.
LEMMA TurnStepGood == ASSUME TurnInv, NEW t \in Turns, Step(t) \/ CancelContext(t) PROVE Good(t)
  BY EnterGood, LockFailsGood, AddUserMessageGood, GuardCheckGood, GuardRecheckGood, CompressCopyGood,
     SummariseGood,
     ReplaceGood, LoopHeadGood, LLMRepliesGood, LLMFailsGood, LLMRetryableGood, LLMOverflowGood, RebuildGood, BackoffGood,
     AddReplyGood, ShouldCompressGood, ToolDoneGood, AddResultGood, CancelContextGood DEF Step

\* At the start no turn works.
LEMMA TurnInitGood == ASSUME TurnInit PROVE TurnInv /\ SerialInv
  <1>1. turn \in [Turns -> TurnLocals] /\ \A t \in Turns : LocalsFit(turn[t])
    BY FreshFits DEF TurnInit
  <1>2. SerialInv
    BY DEF TurnInit, SerialInv, Working, Fresh
  <1> QED
    BY <1>1, <1>2, EmptySeq DEF TurnInit, TurnInv

\* Every step keeps the types.
LEMMA TurnInvKept == ASSUME TurnInv, [TurnNext]_turnVars PROVE TurnInv'
  <1>1. CASE UNCHANGED turnVars
    BY <1>1 DEF turnVars, TurnInv
  <1>2. ASSUME NEW t \in Turns, Good(t) PROVE TurnInv'
    <2>1. turn' \in [Turns -> TurnLocals] /\ \A u \in Turns : LocalsFit(turn'[u])
      <3>1. \A u \in Turns : turn'[u] = IF u = t THEN turn'[t] ELSE turn[u]
        BY <1>2 DEF Good, Moves, TurnInv
      <3>2. turn'[t] \in TurnLocals /\ LocalsFit(turn'[t]) /\ turn' = [turn EXCEPT ![t] = turn'[t]]
        BY <1>2 DEF Good, Moves
      <3> QED
        BY <3>1, <3>2 DEF TurnInv
    <2> QED
      BY <1>2, <2>1 DEF TurnInv, Good, Moves
  <1> QED
    BY <1>1, <1>2, TurnStepGood DEF TurnNext, Finished

\* Every step keeps the turns apart, when the session lock is wired.
LEMMA SerialKept ==
  ASSUME TurnInv, SerialInv, [TurnNext]_turnVars, deps.locker = TRUE
  PROVE  SerialInv'
  <1>1. CASE UNCHANGED turnVars
    BY <1>1 DEF turnVars, SerialInv, Working
  <1>2. ASSUME NEW t \in Turns, Good(t), NEW u \in Turns, Working(u)'
        PROVE  (holder = u /\ (turn[u].pc \in {"summarise", "replace"} => turn[u].copy = msgs))'
    <2>1. \A v \in Turns \ {t} : turn'[v] = turn[v]
      BY <1>2 DEF Good, Moves, TurnInv
    <2>2. CASE u # t
      <3>1. Working(u) /\ holder = u /\ u # NoTurn
        BY <1>2, <2>1, <2>2, TurnBounds DEF SerialInv, Working
      <3>2. ~Working(t)
        BY <2>2, <3>1 DEF SerialInv
      <3> QED
        BY <1>2, <2>1, <2>2, <3>1, <3>2 DEF Good, SerialMoves, SerialInv, Working, At
    <2>3. CASE u = t
      BY <1>2, <2>3 DEF Good, SerialMoves, SerialInv, Working
    <2> QED
      BY <2>2, <2>3
  <1>3. ASSUME NEW t \in Turns, Good(t) PROVE SerialInv'
    BY <1>2, <1>3 DEF SerialInv
  <1> QED
    BY <1>1, <1>3, TurnStepGood DEF TurnNext, Finished

\* The messages of a session and the locals of every turn are what the code can make of
\* them, whatever is wired (HandleMessage and the steps it calls).
THEOREM TurnInvariant == TurnSpec => []TurnInv
  BY TurnInitGood, TurnInvKept, PTL DEF TurnSpec

\* A step that ends a replacement replaced what the session held.
LEMMA CompressionStep ==
  ASSUME TurnInv, SerialInv, [TurnNext]_turnVars, NEW t \in Turns, At(t, "replace"), turn'[t].pc # "replace"
  PROVE  msgs = Summarised(t) \o Tail(msgs')
  <1>1. Replace(t)
    <2>1. PICK u \in Turns : Step(u) \/ CancelContext(u)
      BY DEF TurnNext, Finished, turnVars, At
    <2>2. u = t
      BY <2>1, TurnStepGood DEF Good, Moves, TurnInv, At
    <2>3. ~CancelContext(t)
      BY DEF CancelContext, At, TurnInv, TurnLocals
    <2> QED
      BY <2>1, <2>2, <2>3
      DEF Step, At, Enter, LockFails, AddUserMessage, GuardCheck, GuardRecheck, CompressCopy, Summarise,
         LoopHead, LLMReplies, LLMFails, LLMRetryable, LLMOverflow, Rebuild, Backoff, AddReply, ShouldCompress, ToolDone, AddResult
  <1>2. turn[t].copy = msgs /\ Len(msgs) > KeepRecent /\ msgs \in Seq(TurnMessages)
    BY DEF SerialInv, Working, At, TurnInv, LocalsFit
  <1> QED
    BY <1>1, <1>2, CompressedIs, MessagesMade, TurnBounds DEF Replace, Summarised

\* CompressionLosesNothing: when the turns of a session go through the session lock, a
\* compression replaces exactly the messages that were summarised, however many turns and
\* messages there are. The run AgentTurnShipped shows what happens without the lock
\* (Compressor.Compress copies the session, calls the model and then replaces what the
\* session holds by then).
THEOREM CompressionLosesNothingHolds ==
  ASSUME \A w \in Wirings : w.locker = TRUE
  PROVE  TurnSpec => CompressionLosesNothing
  <1> DEFINE Inv == TurnInv /\ SerialInv
  <1>1. TurnInit => Inv
    BY TurnInitGood
  <1>2. Inv /\ [TurnNext]_turnVars => Inv'
    <2>1. TurnInv => deps.locker = TRUE
      BY DEF TurnInv
    <2> QED
      BY <2>1, TurnInvKept, SerialKept
  <1>3. Inv /\ [TurnNext]_turnVars =>
          [\A t \in Turns : At(t, "replace") /\ turn'[t].pc # "replace" => msgs = Summarised(t) \o Tail(msgs')]_turnVars
    BY CompressionStep
  <1> HIDE DEF Inv
  <1> QED
    BY <1>1, <1>2, <1>3, PTL DEF TurnSpec, CompressionLosesNothing

=============================================================================
