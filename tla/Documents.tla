----------------------------- MODULE Documents ------------------------------
(***************************************************************************)
(* The notes and canvas tools: internal/adapter/tool/notes.go, canvas.go   *)
(* and canvas_local.go.  Files without a lock: every operation looks at    *)
(* the disk first and writes afterwards, a write truncates the file before *)
(* it fills it, and a canvas is a directory with a file in it.             *)
(***************************************************************************)
EXTENDS Integers, FiniteSets

CONSTANTS DocCallers,             \* goroutines that execute the tools
          Docs,                   \* names: [kind : {"note", "canvas"}, name]
          DocInputs,              \* the parameters that are tried: operation, document, content,
                                  \* and whether the name and the content are acceptable
          maxCanvasesPerSession,
          DocBounds               \* bounds: calls, failed writes

Absent == {"none", "dir"}

ASSUME DocConstants ==
    /\ IsFiniteSet(Docs) /\ \A d \in Docs : d.kind \in {"note", "canvas"}
    /\ \A p \in DocInputs : p.doc \in Docs /\ p.content \notin Absent \cup {"empty"}
    /\ maxCanvasesPerSession \in Nat
    /\ DocBounds \in [calls : Nat, failures : Nat]

VARIABLES docDisk,      \* "none", "dir" (a canvas directory without its file), "empty", or the content
          panel,     \* the canvas the user was last told to look at, or "hidden"
          docCall,   \* of every caller: its call
          halfMade,  \* the canvases whose creation failed behind the directory
          crowded,   \* two creations of canvases have overlapped
          docLeft    \* what the bounds still allow

docVars == <<docDisk, panel, docCall, halfMade, crowded, docLeft>>

Nothing == [op |-> "none"]
DocIdle == [pc |-> "idle", p |-> Nothing, report |-> "none", before |-> "none", met |-> FALSE]

DocumentsInit ==
    /\ docDisk = [d \in Docs |-> "none"] /\ panel = "hidden"
    /\ docCall = [c \in DocCallers |-> DocIdle]
    /\ halfMade = {} /\ crowded = FALSE
    /\ docLeft = DocBounds

-----------------------------------------------------------------------------
(* What the handlers ask of their parameters before they touch the disk:   *)
(* a valid name, and a content (a query, an expression) that is there, not *)
(* too long and free of blocked patterns.                                  *)

handleCreate(p) == p.named /\ p.filled
handleRead(p)   == p.named
handleUpdate(p) == p.named /\ p.filled
handleDelete(p) == p.named
handleSearch(p) == p.filled

canvasCreate(p)   == p.named /\ p.filled
canvasUpdate(p)   == p.named /\ p.filled
canvasRead(p)     == p.named
canvasPresent(p)  == p.named
canvasSnapshot(p) == p.named
canvasDelete(p)   == p.named
canvasEvalJS(p)   == p.filled

Accepted(p) ==
    IF p.doc.kind = "note"
    THEN CASE p.op = "create" -> handleCreate(p) [] p.op = "read"   -> handleRead(p)
           [] p.op = "update" -> handleUpdate(p) [] p.op = "delete" -> handleDelete(p)
           [] p.op = "search" -> handleSearch(p) [] p.op = "list"   -> TRUE
    ELSE CASE p.op = "create"  -> canvasCreate(p)  [] p.op = "read"     -> canvasRead(p)
           [] p.op = "update"  -> canvasUpdate(p)  [] p.op = "delete"   -> canvasDelete(p)
           [] p.op = "present" -> canvasPresent(p) [] p.op = "snapshot" -> canvasSnapshot(p)
           [] p.op = "eval_js" -> canvasEvalJS(p)  [] p.op \in {"list", "hide"} -> TRUE

-----------------------------------------------------------------------------
(* What the backends do next, having looked at the disk. *)

\* Mutant: the note is not looked for.
MutcreateNote(d) == "open"

createNote(d) == IF docDisk[d] # "none" THEN "exists" ELSE "open"
updateNote(d) == IF docDisk[d] = "none" THEN "not found" ELSE "open"
deleteNote(d) == IF docDisk[d] = "none" THEN "not found" ELSE "remove"
readNote(d)   == IF docDisk[d] = "none" THEN "not found" ELSE docDisk[d]

createCanvas(d) == IF docDisk[d] # "none" THEN "exists" ELSE "mkdir"
updateCanvas(d) == IF docDisk[d] = "none" THEN "not found" ELSE "open"
deleteCanvas(d) == IF docDisk[d] = "none" THEN "not found" ELSE "remove"
readCanvas(d)   == IF docDisk[d] \in Absent THEN "not found" ELSE docDisk[d]

listNotes    == {d \in Docs : d.kind = "note" /\ docDisk[d] # "none"}
listCanvases == {d \in Docs : d.kind = "canvas" /\ docDisk[d] \notin Absent}
searchNotes  == {d \in listNotes : docDisk[d] # "empty"}

DocBackend(p) == IF p.doc.kind = "note"
              THEN CASE p.op = "create" -> createNote(p.doc) [] p.op = "update" -> updateNote(p.doc)
                     [] p.op = "delete" -> deleteNote(p.doc)
              ELSE CASE p.op = "create" -> createCanvas(p.doc) [] p.op = "update" -> updateCanvas(p.doc)
                     [] p.op = "delete" -> deleteCanvas(p.doc)

-----------------------------------------------------------------------------
(* A call, step by step *)

DocAt(c, pc)      == docCall[c].pc = pc
DocGo(c, pc)      == docCall' = [docCall EXCEPT ![c].pc = pc]
DocReports(c, r)  == docCall' = [docCall EXCEPT ![c].pc = "return", ![c].report = r]
Busy(d)           == {c \in DocCallers : ~DocAt(c, "idle") /\ docCall[c].p.doc = d}
Creators          == {c \in DocCallers : ~DocAt(c, "idle") /\ docCall[c].p.op = "create" /\ docCall[c].p.doc.kind = "canvas"}
Writes(op)        == op \in {"create", "update", "delete"}

\* Execute: parameters that are refused have no effect.
StartDoc(c, p) ==
    /\ DocAt(c, "idle") /\ docLeft.calls > 0
    /\ docLeft' = [docLeft EXCEPT !.calls = @ - 1]
    /\ docCall' = [k \in DocCallers |->
         IF k = c THEN [pc |-> IF ~Accepted(p) THEN "return"
                               ELSE IF p.op = "create" /\ p.doc.kind = "canvas" THEN "limit"
                               ELSE IF Writes(p.op) THEN "stat" ELSE "look",
                        p |-> p, report |-> IF Accepted(p) THEN "none" ELSE "refused",
                        before |-> docDisk[p.doc], met |-> Busy(p.doc) # {}]
         ELSE IF k \in Busy(p.doc) THEN [docCall[k] EXCEPT !.met = TRUE] ELSE docCall[k]]
    /\ crowded' = (crowded \/ (p.op = "create" /\ p.doc.kind = "canvas" /\ Creators # {}))
    /\ UNCHANGED <<docDisk, panel, halfMade>>

\* CanvasTool.create counts the session's canvases ...
CanvasLimit(c) ==
    /\ DocAt(c, "limit")
    /\ IF Cardinality(listCanvases) >= maxCanvasesPerSession THEN DocReports(c, "limit reached") ELSE DocGo(c, "stat")
    /\ UNCHANGED <<docDisk, panel, halfMade, crowded, docLeft>>

\* ... and every operation that writes starts with os.Stat.
StatDoc(c) ==
    /\ DocAt(c, "stat")
    /\ LET next == DocBackend(docCall[c].p)
       IN  IF next \in {"open", "mkdir", "remove"} THEN DocGo(c, next) ELSE DocReports(c, next)
    /\ UNCHANGED <<docDisk, panel, halfMade, crowded, docLeft>>

\* MkdirAll, which is content with a directory that is there by now.
MakeDir(c) ==
    /\ DocAt(c, "mkdir")
    /\ docDisk' = [docDisk EXCEPT ![docCall[c].p.doc] = IF @ = "none" THEN "dir" ELSE @]
    /\ DocGo(c, "open")
    /\ UNCHANGED <<panel, halfMade, crowded, docLeft>>

\* WriteFile opens and truncates; there is no file to open when the directory is gone.
OpenDoc(c) ==
    /\ DocAt(c, "open")
    /\ LET d == docCall[c].p.doc
       IN  IF d.kind = "canvas" /\ docDisk[d] = "none" THEN DocReports(c, "failed") /\ UNCHANGED docDisk
           ELSE docDisk' = [docDisk EXCEPT ![d] = "empty"] /\ DocGo(c, "write")
    /\ UNCHANGED <<panel, halfMade, crowded, docLeft>>

\* No room on the disk, and the file could not even be made.
OpenFails(c) ==
    /\ DocAt(c, "open") /\ docLeft.failures > 0
    /\ docLeft' = [docLeft EXCEPT !.failures = @ - 1]
    /\ DocReports(c, "failed")
    /\ LET d == docCall[c].p.doc IN halfMade' = IF docDisk[d] = "dir" THEN halfMade \cup {d} ELSE halfMade
    /\ UNCHANGED <<docDisk, panel, crowded>>

\* The content follows, unless the disk is full; a file that was removed meanwhile keeps
\* nothing of it.  The canvas's metadata is written last, and an error there is ignored.
WriteDoc(c, ok) ==
    /\ DocAt(c, "write") /\ (~ok => docLeft.failures > 0)
    /\ docLeft' = IF ok THEN docLeft ELSE [docLeft EXCEPT !.failures = @ - 1]
    /\ LET p == docCall[c].p
       IN  docDisk' = IF ok /\ docDisk[p.doc] \notin Absent THEN [docDisk EXCEPT ![p.doc] = p.content] ELSE docDisk
    /\ DocReports(c, IF ok THEN "done" ELSE "failed")
    /\ UNCHANGED <<panel, halfMade, crowded>>

\* os.Remove of a note that is gone by now fails; RemoveAll never minds.
RemoveDoc(c) ==
    /\ DocAt(c, "remove")
    /\ LET d == docCall[c].p.doc
       IN  /\ docDisk' = [docDisk EXCEPT ![d] = "none"]
           /\ DocReports(c, IF d.kind = "note" /\ docDisk[d] = "none" THEN "failed" ELSE "done")
           /\ halfMade' = halfMade \ {d}
    /\ UNCHANGED <<panel, crowded, docLeft>>

\* The operations that only look: read, snapshot and present read the file, list and
\* search the directory; hide and eval_js only tell the panel.
LookAtDoc(c) ==
    /\ DocAt(c, "look")
    /\ LET p    == docCall[c].p
           text == IF p.doc.kind = "note" THEN readNote(p.doc) ELSE readCanvas(p.doc)
           seen == IF p.doc.kind = "canvas" THEN listCanvases ELSE IF p.op = "list" THEN listNotes ELSE searchNotes
       IN  /\ DocReports(c, CASE p.op \in {"read", "snapshot", "present"} -> text
                              [] p.op \in {"list", "search"} -> IF p.doc \in seen THEN "listed" ELSE "not listed"
                              [] OTHER -> "done")
           /\ panel' = CASE p.op = "hide" -> "hidden"
                         [] p.op = "present" /\ text # "not found" -> text
                         [] OTHER -> panel
    /\ UNCHANGED <<docDisk, halfMade, crowded, docLeft>>

ReturnDoc(c) ==
    /\ DocAt(c, "return")
    /\ docCall' = [docCall EXCEPT ![c] = DocIdle]
    /\ UNCHANGED <<docDisk, panel, halfMade, crowded, docLeft>>

DocumentsNext == \E c \in DocCallers :
    \/ CanvasLimit(c) \/ StatDoc(c) \/ MakeDir(c) \/ OpenDoc(c) \/ OpenFails(c) \/ RemoveDoc(c)
    \/ LookAtDoc(c) \/ ReturnDoc(c)
    \/ \E p \in DocInputs : StartDoc(c, p)
    \/ \E ok \in BOOLEAN : WriteDoc(c, ok)

DocumentsSpec == DocumentsInit /\ [][DocumentsNext]_docVars

-----------------------------------------------------------------------------
\* What a call that had the document to itself has to say, and to leave: a document is
\* created when there is none, changed and deleted when there is one, and left alone by
\* what is refused.  A write that fails may leave the file empty or the directory bare.
DocTold(c) ==
    LET call == docCall[c]
        d    == call.p.doc
        now  == docDisk[d]
        was  == call.before
    IN  CASE call.report \in {"refused", "exists", "not found", "limit reached", "listed", "not listed"} -> now = was
          [] call.report = "failed" -> now \in {was, "empty", "dir"}
          [] call.report = "done" ->
                CASE call.p.op = "create" -> was = "none" /\ now = call.p.content
                  [] call.p.op = "update" -> was # "none" /\ now = call.p.content
                  [] call.p.op = "delete" -> was # "none" /\ now = "none"
                  [] OTHER -> now = was
          [] OTHER -> now = was /\ call.report = was

\* Calls that meet no other call on their document report and leave what they should,
\* and the canvases stay within their limit unless two were created at once, or one came
\* out of the directory that a failed creation had left.
DocumentsAreTrue ==
    /\ \A c \in DocCallers : DocAt(c, "return") /\ ~docCall[c].met => DocTold(c)
    /\ ~crowded /\ halfMade = {} => Cardinality(listCanvases) <= maxCanvasesPerSession
=============================================================================
