------------------------------- MODULE Memory --------------------------------
(***************************************************************************)
(* Long-term memory: the providers of internal/adapter/memory (markdown    *)
(* files with an index, the SQLite vector store with its index of          *)
(* embeddings in memory, ByteRover), the key of security/encryption.go,    *)
(* and those who use memory: the curator and the gateway store, the        *)
(* gateway and the agent ask, and usecase/privacy.go and security/gdpr.go  *)
(* erase.                                                                  *)
(*                                                                         *)
(* Whoever stores leaves the identifier to the provider, so an entry is    *)
(* stored once and its identifier stands for its content.  A call is one   *)
(* step per lock, file operation or statement that it makes.               *)
(***************************************************************************)
EXTENDS Integers, FiniteSets

CONSTANTS MemCallers,
          MemIds,        \* identifiers generateID may return
          MemSetups,     \* sets of [provider, encrypting]
          MemRequests,   \* what callers ask for: [op, n, q, limit]
          DefaultLimit,  \* 10 in Store.Query of the vector store
          MemBounds      \* bounds to choose from: calls, failures, keys (restarts and rotations)

ASSUME MemoryConstants ==
    /\ IsFiniteSet(MemIds)
    /\ \A s \in MemSetups : s.provider \in {"markdown", "vector", "byterover"} /\ s.encrypting \in BOOLEAN
    /\ \A r \in MemRequests :
           /\ r.op \in {"store", "delete", "query", "erase"} /\ r.q \in {"words", "meaning"}
           /\ r.n \in Nat /\ r.limit \in Nat
           /\ r.op \in {"store", "delete"} => r.n > 0
           /\ r.op = "erase" => r.q = "words"
    /\ DefaultLimit \in Nat \ {0}
    /\ MemBounds \subseteq [calls : Nat, failures : Nat, keys : Nat]

VARIABLES memSetup,
          body,        \* of every entry its file or row: "none", "torn", "plain", "vector" or "sealed" with a key
          memIndex,    \* MemoryIndex.entries or vecIndex.entries
          savedIndex,  \* index.json
          vecLoaded,   \* vecIndex.loaded
          encKey,      \* the key of the encryptor
          memCall,     \* of every caller: its call
          acked,       \* entries whose Store returned without error ...
          doomed,      \* ... entries somebody began to delete ...
          erased,      \* ... and entries whose Delete returned without error
          raced,       \* entries whose row changed between the steps of a load, or of a Store, and the index
          memLeft      \* what the bounds still allow

Body(is)  == [is |-> is, key |-> 0]
Sealed(k) == [is |-> "sealed", key |-> k]

memStore == <<body, memIndex, savedIndex, vecLoaded>>
memSeen == <<acked, doomed, erased, raced>>
memVars == <<memSetup, memStore, encKey, memCall, memSeen, memLeft>>

MemIdle == [pc |-> "idle", op |-> "none", q |-> "words", limit |-> 0, id |-> "none", todo |-> {}, form |-> Body("plain"),
            rows |-> {}, found |-> {}, kept |-> {}, gone |-> {}, full |-> FALSE, told |-> "nothing"]

MemoryInit ==
    /\ memSetup \in MemSetups
    /\ body = [i \in MemIds |-> Body("none")] /\ memIndex = {} /\ savedIndex = {} /\ vecLoaded = FALSE
    /\ encKey = 1
    /\ memCall = [c \in MemCallers |-> MemIdle]
    /\ acked = {} /\ doomed = {} /\ erased = {} /\ raced = {}
    /\ memLeft \in MemBounds

StoreIs(p) == memSetup.provider = p

-----------------------------------------------------------------------------
(* What can be read *)

\* Decrypt passes plain text through and opens only what the present key has closed.
CanOpen(i) == body[i] \in {Body("plain"), Sealed(encKey)}

Present == {i \in MemIds : body[i].is \notin {"none", "torn"}}
Embedded == {i \in MemIds : body[i].is = "vector"}

\* The answers that a limit allows: what ranks first is not modelled.
Within(s, limit) ==
    IF limit = 0 THEN {s}
    ELSE {t \in SUBSET s : Cardinality(t) = IF Cardinality(s) < limit THEN Cardinality(s) ELSE limit}

\* Store.Query of the vector store replaces a limit that is not positive.
LimitOf(c) == IF StoreIs("vector") /\ memCall[c].limit = 0 THEN DefaultLimit ELSE memCall[c].limit

-----------------------------------------------------------------------------
(* A call *)

MemAt(c, pc) == memCall[c].pc = pc
MemGo(c, pc) == memCall' = [memCall EXCEPT ![c].pc = pc]

FirstOf(op) ==
    [markdown  |-> [store |-> "open", delete |-> "find", query |-> "search", erase |-> "search"],
     vector    |-> [store |-> "embed", delete |-> "drop", query |-> "words", erase |-> "words"],
     byterover |-> [store |-> "write remote", delete |-> "drop remote", query |-> "ask remote",
                    erase |-> "ask remote"]][memSetup.provider][op]

Unused == {i \in MemIds : body[i].is = "none" /\ i \notin acked \cup doomed
                             /\ \A c \in MemCallers : i # memCall[c].id /\ i \notin memCall[c].todo}

\* The curator stores the points of a conversation, the gateway one entry; delete names an
\* entry that a query once returned.
CallMemory(c, r) ==
    /\ MemAt(c, "idle") /\ memLeft.calls > 0
    /\ memLeft' = [memLeft EXCEPT !.calls = @ - 1]
    /\ \E ids \in SUBSET (IF r.op = "store" THEN Unused ELSE IF r.op = "delete" THEN acked ELSE {}) :
         /\ Cardinality(ids) = r.n
         /\ \E i \in IF ids = {} THEN {"none"} ELSE ids :
              /\ memCall' = [memCall EXCEPT ![c] = [MemIdle EXCEPT !.pc = FirstOf(r.op), !.op = r.op, !.q = r.q,
                               !.limit = r.limit, !.id = i, !.todo = ids \ {i}, !.kept = acked \ doomed, !.gone = erased]]
              /\ doomed' = IF r.op = "delete" THEN doomed \cup ids ELSE doomed
    /\ UNCHANGED <<memSetup, memStore, encKey, acked, erased, raced>>

\* CurateConversation goes on with the next point, also after a failure; DeleteAll and
\* DeleteUserData go on with the next entry and stop at a failure.
NextEntry(c, told) ==
    LET call == memCall[c] IN
    IF call.todo # {} /\ (call.op = "store" \/ told = "ok")
    THEN \E i \in call.todo :
           memCall' = [memCall EXCEPT ![c].id = i, ![c].todo = @ \ {i}, ![c].form = Body("plain"), ![c].told = told,
                         ![c].pc = FirstOf(IF call.op = "store" THEN "store" ELSE "delete")]
    ELSE memCall' = [memCall EXCEPT ![c].pc = "return", ![c].told = told]

\* The provider's Store or Delete has succeeded.
EntryDone(c) ==
    LET call == memCall[c] IN
    /\ IF call.op = "store" THEN acked' = acked \cup {call.id} /\ UNCHANGED erased
                            ELSE erased' = erased \cup {call.id} /\ UNCHANGED acked
    /\ NextEntry(c, "ok")

MayFail == memLeft.failures > 0 /\ memLeft' = [memLeft EXCEPT !.failures = @ - 1]

EntryFails(c) == MayFail /\ NextEntry(c, "error") /\ UNCHANGED <<acked, erased>>

-----------------------------------------------------------------------------
(* MarkdownMemory.Store: the file, then the index. *)

\* renderEntry keeps the plain text when it cannot encrypt; WriteFile makes the file.
OpenEntry(c) ==
    /\ MemAt(c, "open")
    /\ \/ /\ body' = [body EXCEPT ![memCall[c].id] = Body("torn")]
          /\ \/ /\ memCall' = [memCall EXCEPT ![c].pc = "fill", ![c].form = IF memSetup.encrypting THEN Sealed(encKey) ELSE Body("plain")]
                /\ UNCHANGED memLeft
             \/ memSetup.encrypting /\ MayFail /\ MemGo(c, "fill")
          /\ UNCHANGED <<acked, erased>>
       \/ EntryFails(c) /\ UNCHANGED body
    /\ UNCHANGED <<memSetup, memIndex, savedIndex, vecLoaded, encKey, doomed, raced>>

WriteEntry(c) ==
    /\ MemAt(c, "fill")
    /\ \/ body' = [body EXCEPT ![memCall[c].id] = memCall[c].form] /\ MemGo(c, "index") /\ UNCHANGED <<acked, erased, memLeft>>
       \/ EntryFails(c) /\ UNCHANGED body
    /\ UNCHANGED <<memSetup, memIndex, savedIndex, vecLoaded, encKey, doomed, raced>>

\* Mutant: the index is changed and not saved.
MutSave(entries) == savedIndex

\* MemoryIndex.save: a temporary file and a rename, so all or nothing.
Save(entries) == entries

\* MemoryIndex.Add and Remove, under the lock; a save that fails leaves the change in memory.
AddToIndex(c) ==
    /\ MemAt(c, "index")
    /\ memIndex' = memIndex \cup {memCall[c].id}
    /\ \/ savedIndex' = Save(memIndex') /\ EntryDone(c) /\ UNCHANGED memLeft
       \/ EntryFails(c) /\ UNCHANGED savedIndex
    /\ UNCHANGED <<memSetup, body, vecLoaded, encKey, doomed, raced>>

GetFilename(c) ==
    /\ MemAt(c, "find")
    /\ IF memCall[c].id \in memIndex THEN MemGo(c, "unlink") ELSE NextEntry(c, "error")
    /\ UNCHANGED <<memSetup, memStore, encKey, memSeen, memLeft>>

\* A file that is gone already is no error.
RemoveFile(c) ==
    /\ MemAt(c, "unlink")
    /\ \/ body' = [body EXCEPT ![memCall[c].id] = Body("none")] /\ MemGo(c, "unindex") /\ UNCHANGED <<acked, erased, memLeft>>
       \/ EntryFails(c) /\ UNCHANGED body
    /\ UNCHANGED <<memSetup, memIndex, savedIndex, vecLoaded, encKey, doomed, raced>>

RemoveFromIndex(c) ==
    /\ MemAt(c, "unindex")
    /\ memIndex' = memIndex \ {memCall[c].id}
    /\ \/ savedIndex' = Save(memIndex') /\ EntryDone(c) /\ UNCHANGED memLeft
       \/ EntryFails(c) /\ UNCHANGED savedIndex
    /\ UNCHANGED <<memSetup, body, vecLoaded, encKey, doomed, raced>>

-----------------------------------------------------------------------------
(* The vector store: the row, then the index of embeddings. *)

\* Without an embedding the entry is stored for the search by words.
EmbedEntry(c) ==
    /\ MemAt(c, "embed")
    /\ \/ memCall' = [memCall EXCEPT ![c].pc = "upsert", ![c].form = Body("vector")] /\ UNCHANGED memLeft
       \/ MayFail /\ MemGo(c, "upsert")
    /\ UNCHANGED <<memSetup, memStore, encKey, memSeen>>

Upsert(c) ==
    /\ MemAt(c, "upsert")
    /\ \/ body' = [body EXCEPT ![memCall[c].id] = memCall[c].form] /\ MemGo(c, "put") /\ UNCHANGED <<acked, erased, memLeft>>
       \/ EntryFails(c) /\ UNCHANGED body
    /\ UNCHANGED <<memSetup, memIndex, savedIndex, vecLoaded, encKey, doomed, raced>>

PutVector(c) ==
    /\ MemAt(c, "put")
    /\ LET puts == IF memCall[c].form.is = "vector" /\ vecLoaded THEN {memCall[c].id} ELSE {}
       IN  memIndex' = memIndex \cup puts /\ raced' = raced \cup (puts \ Embedded)
    /\ EntryDone(c)
    /\ UNCHANGED <<memSetup, body, savedIndex, vecLoaded, encKey, doomed, memLeft>>

\* DELETE, which is an error when there is no such row ...
DropRow(c) ==
    /\ MemAt(c, "drop")
    /\ LET i == memCall[c].id IN
       \/ /\ body[i].is # "none" /\ body' = [body EXCEPT ![i] = Body("none")] /\ MemGo(c, "forget")
          /\ UNCHANGED <<acked, erased, memLeft>>
       \/ body[i].is = "none" /\ NextEntry(c, "error") /\ UNCHANGED <<body, acked, erased, memLeft>>
       \/ EntryFails(c) /\ UNCHANGED body
    /\ UNCHANGED <<memSetup, memIndex, savedIndex, vecLoaded, encKey, doomed, raced>>

\* ... and vecIndex.remove.
RemoveVector(c) ==
    /\ MemAt(c, "forget")
    /\ memIndex' = memIndex \ {memCall[c].id}
    /\ EntryDone(c)
    /\ UNCHANGED <<memSetup, body, savedIndex, vecLoaded, encKey, doomed, raced, memLeft>>

-----------------------------------------------------------------------------
(* ByteRover: the client locks for every operation. *)

WriteContext(c) ==
    /\ MemAt(c, "write remote")
    /\ \/ /\ body' = [body EXCEPT ![memCall[c].id] = IF memSetup.encrypting THEN Sealed(encKey) ELSE Body("plain")]
          /\ EntryDone(c) /\ UNCHANGED memLeft
       \/ EntryFails(c) /\ UNCHANGED body
    /\ UNCHANGED <<memSetup, memIndex, savedIndex, vecLoaded, encKey, doomed, raced>>

DeleteContext(c) ==
    /\ MemAt(c, "drop remote")
    /\ \/ body' = [body EXCEPT ![memCall[c].id] = Body("none")] /\ EntryDone(c) /\ UNCHANGED memLeft
       \/ EntryFails(c) /\ UNCHANGED body
    /\ UNCHANGED <<memSetup, memIndex, savedIndex, vecLoaded, encKey, doomed, raced>>

-----------------------------------------------------------------------------
(* Query.  full says that the answer holds everything there was to find.   *)

\* A query returns its answer; an erasure deletes what is in it, which is doomed from here on.
Found(c, answer, full) ==
    LET call == memCall[c] IN
    IF call.op = "erase" /\ answer # {}
    THEN /\ \E i \in answer :
              memCall' = [memCall EXCEPT ![c].pc = FirstOf("delete"), ![c].id = i, ![c].todo = answer \ {i},
                                         ![c].found = answer, ![c].full = full]
         /\ doomed' = doomed \cup answer
    ELSE /\ memCall' = [memCall EXCEPT ![c].pc = "return", ![c].found = answer, ![c].full = full, ![c].told = "ok"]
         /\ UNCHANGED doomed

QueryFails(c) == memCall' = [memCall EXCEPT ![c].pc = "return", ![c].told = "error"]

\* MarkdownMemory.Query: the index is searched under its lock ...
SearchIndex(c) ==
    /\ MemAt(c, "search")
    /\ \E rows \in Within(memIndex, memCall[c].limit) : memCall' = [memCall EXCEPT ![c].pc = "read", ![c].rows = rows]
    /\ UNCHANGED <<memSetup, memStore, encKey, memSeen, memLeft>>

\* ... and the files are read; those that are missing, torn or closed with another key are skipped.
ReadFiles(c) ==
    /\ MemAt(c, "read")
    /\ LET answer == {i \in memCall[c].rows \cap Present : CanOpen(i)}
       IN  Found(c, answer, memCall[c].limit = 0 /\ answer = memCall[c].rows)
    /\ UNCHANGED <<memSetup, memStore, encKey, acked, erased, raced, memLeft>>

\* ByteRoverMemory.Query: one entry that cannot be opened fails all of it.
AskRemote(c) ==
    /\ MemAt(c, "ask remote")
    /\ \E rows \in Within(Present, memCall[c].limit) :
          IF \A i \in rows : CanOpen(i) THEN Found(c, rows, memCall[c].limit = 0)
                                        ELSE QueryFails(c) /\ UNCHANGED doomed
    /\ UNCHANGED <<memSetup, memStore, encKey, acked, erased, raced, memLeft>>

\* hybridSearch: by words in the database (twice the limit) ...
keywordSearch(c) ==
    /\ MemAt(c, "words")
    /\ \E rows \in Within(IF memCall[c].q = "words" THEN Present ELSE {}, 2 * LimitOf(c)) :
          memCall' = [memCall EXCEPT ![c].rows = rows, ![c].pc = IF vecLoaded THEN "nearest" ELSE "load"]
    /\ UNCHANGED <<memSetup, memStore, encKey, memSeen, memLeft>>

\* ... and by embedding.  When the query cannot be embedded the words are all there is.
EmbedFails(c) ==
    /\ memCall[c].pc \in {"load", "nearest"} /\ MayFail
    /\ \E answer \in Within(memCall[c].rows, LimitOf(c)) : Found(c, answer, FALSE)
    /\ UNCHANGED <<memSetup, memStore, encKey, acked, erased, raced>>

\* loadFromDB reads the rows without the lock ...
loadFromDB(c) ==
    /\ MemAt(c, "load")
    /\ memCall' = [memCall EXCEPT ![c].todo = Embedded, ![c].pc = "swap"]
    /\ UNCHANGED <<memSetup, memStore, encKey, memSeen, memLeft>>

\* ... and puts them in the place of whatever is there by then.
SwapIndex(c) ==
    /\ MemAt(c, "swap")
    /\ memIndex' = memCall[c].todo /\ vecLoaded' = TRUE
    /\ raced' = raced \cup (Embedded \ memCall[c].todo) \cup (memCall[c].todo \ Embedded)
    /\ memCall' = [memCall EXCEPT ![c].todo = {}, ![c].pc = "nearest"]
    /\ UNCHANGED <<memSetup, body, savedIndex, encKey, acked, doomed, erased, memLeft>>

\* vecIndex.search, or the database when the index has nothing; both lists are fused.
vectorSearch(c) ==
    /\ MemAt(c, "nearest")
    /\ \E near \in Within(IF memIndex # {} THEN memIndex ELSE Embedded, 2 * LimitOf(c)) :
         \E answer \in Within(memCall[c].rows \cup near, LimitOf(c)) :
            Found(c, answer, Cardinality(memCall[c].rows \cup near) <= LimitOf(c))
    /\ UNCHANGED <<memSetup, memStore, encKey, acked, erased, raced, memLeft>>

MemoryReturns(c) ==
    /\ MemAt(c, "return")
    /\ memCall' = [memCall EXCEPT ![c] = MemIdle]
    /\ UNCHANGED <<memSetup, memStore, encKey, memSeen, memLeft>>

-----------------------------------------------------------------------------
(* The key and the process *)

\* KeyRotator: a random passphrase takes the place of the key; nothing is encrypted again.
RotateNow ==
    /\ memSetup.encrypting /\ memLeft.keys > 0
    /\ encKey' = encKey + 1 /\ memLeft' = [memLeft EXCEPT !.keys = @ - 1]
    /\ UNCHANGED <<memSetup, memStore, memCall, memSeen>>

\* The process ends anywhere and starts again, with a salt of its own: files, rows and
\* index.json are there, what was in memory is not, and the mock of ByteRover is empty.
Restart ==
    /\ memLeft.keys > 0 /\ ~StoreIs("byterover")
    /\ memLeft' = [memLeft EXCEPT !.keys = @ - 1]
    /\ encKey' = encKey + 1
    /\ memIndex' = (IF StoreIs("markdown") THEN savedIndex ELSE {}) /\ vecLoaded' = FALSE
    /\ raced' = {}
    /\ memCall' = [c \in MemCallers |-> MemIdle]
    /\ UNCHANGED <<memSetup, body, savedIndex, acked, doomed, erased>>

MemoryNext ==
    \/ \E c \in MemCallers :
         \/ \E r \in MemRequests : CallMemory(c, r)
         \/ OpenEntry(c) \/ WriteEntry(c) \/ AddToIndex(c) \/ GetFilename(c) \/ RemoveFile(c) \/ RemoveFromIndex(c)
         \/ EmbedEntry(c) \/ Upsert(c) \/ PutVector(c) \/ DropRow(c) \/ RemoveVector(c)
         \/ WriteContext(c) \/ DeleteContext(c)
         \/ SearchIndex(c) \/ ReadFiles(c) \/ AskRemote(c)
         \/ keywordSearch(c) \/ EmbedFails(c) \/ loadFromDB(c) \/ SwapIndex(c) \/ vectorSearch(c)
         \/ MemoryReturns(c)
    \/ RotateNow \/ Restart

MemorySpec == MemoryInit /\ [][MemoryNext]_memVars

-----------------------------------------------------------------------------
(* Properties *)

Returned(c) == MemAt(c, "return") /\ memCall[c].told = "ok"

\* An entry that was stored and that nobody deletes is on disk and in the index, also
\* in the one that the next process reads.
KeptOnDisk ==
    \A i \in acked \ doomed :
        /\ i \in Present
        /\ StoreIs("markdown") => i \in memIndex /\ i \in savedIndex
        /\ StoreIs("vector") /\ vecLoaded /\ body[i].is = "vector" => i \in memIndex \cup raced

\* A query that was not cut by its limit or by what it could not read returns what was
\* stored before it began and was not deleted meanwhile, and no answer names an entry
\* whose deletion was over before it began, unless its row changed while the embeddings
\* were loaded, or between the row and the embedding of its own Store.
AnswersAreTrue ==
    \A c \in MemCallers : LET call == memCall[c] IN
        Returned(c) /\ call.op = "query" =>
            /\ call.full /\ call.q = "words" => call.kept \ doomed \subseteq call.found
            /\ call.found \cap call.gone \subseteq raced

\* An erasure that reports success and saw everything has left nothing of what was
\* stored before it began.
ErasuresErase ==
    \A c \in MemCallers : LET call == memCall[c] IN
        Returned(c) /\ call.op = "erase" =>
            \A i \in (IF call.full THEN call.kept ELSE {}) \cup call.found : body[i].is = "none"

MemoryIsTrue == KeptOnDisk /\ AnswersAreTrue /\ ErasuresErase

\* gdpr.go: "DeleteUserData removes all data associated with the given user ID", and
\* privacy.go's DeleteAll: when they report success, no entry is left that was stored
\* before they began.  The vector store gives them at most DefaultLimit entries, and the
\* markdown store none that was closed with another key.
ErasureIsComplete ==
    \A c \in MemCallers :
        Returned(c) /\ memCall[c].op = "erase" => \A i \in memCall[c].kept : body[i].is = "none"
=============================================================================
