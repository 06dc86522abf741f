------------------------------- MODULE GridFS -------------------------------
(***************************************************************************)
(* GridFS (gridfs/gridfs.py): several tasks or processes that put, get,    *)
(* delete and drop files, each operation a sequence of requests on the     *)
(* collections of files and of chunks.                                     *)
(*                                                                         *)
(* The server carries a request out at once, at any time after it was      *)
(* sent; the caller goes on with the reply, or never: it may give the      *)
(* request up or crash, and the server may then act on it later.           *)
(* Sizes are in units of data; contents are told apart by chunk numbers.   *)
(* A command is one document with all it inserts in it (wirehelper.py:76), *)
(* and the server takes none that is larger than a stored document, but    *)
(* for a little room.                                                      *)
(***************************************************************************)
EXTENDS Integers, FiniteSets

CONSTANTS
    Procs,      \* tasks or processes that use the bucket
    Ids,        \* ObjectIds put() makes
    Sizes,      \* lengths of the files
    ChunkSizes, \* the chunk_size arguments
    Limit,      \* SIZE_LIMIT, also what the server sets for a document
    Overhead,   \* what a chunk's document takes beside its data
    Room,       \* what the server allows a command on top of Limit
    FirstBatch, \* documents in the first reply of an aggregate
    MaxOps,     \* bound: operations
    MaxFaults   \* bound: requests refused or given up

ASSUME SizesAssumption ==
    /\ Sizes \subseteq Nat
    /\ ChunkSizes \subseteq Nat \ {0}
    /\ Limit \in Nat \ {0} /\ FirstBatch \in Nat \ {0}
    /\ Overhead \in Nat /\ Room \in Nat
ASSUME BoundsAssumption == MaxOps \in Nat /\ MaxFaults \in Nat

VARIABLES
    files,   \* ids of the documents in the files collection
    chunks,  \* <<id, n>> of the documents in the chunks collection
    meta,    \* what was put under an id: its size, chunk size, and if with a sha1
    pc,      \* the request each task waits for
    target,  \* the file the task's operation is about
    check,   \* the check_sha1 argument of get
    msg,     \* the request, then its reply
    data,    \* chunk numbers put has sent, or get has read, so far
    outcome, \* how the task's last operation ended
    late,    \* requests given up that the server may still act on
    removed, \* ids whose document was ever deleted, one by one or all
    deleted, \* ids a delete() returned True for
    dropped, \* a drop_all_files() has begun
    ops, faults

srvVars  == <<files, chunks, removed>>
histVars == <<deleted, dropped>>
vars == <<files, chunks, meta, pc, target, check, msg, data, outcome, late, removed,
          deleted, dropped, ops, faults>>

NoId == "none"
ASSUME IdsAssumption == NoId \notin Ids

\* A request or a reply: the file and the chunk numbers it is about, and what is
\* left to the server's cursor.
Message(o, f, s, r) == [op |-> o, id |-> f, ns |-> s, rest |-> r]
NoMsg == Message("none", NoId, {}, {})
Error == Message("error", NoId, {}, {})
Answer(f, s, r) == Message("reply", f, s, r)
Ask(o, f) == Message(o, f, {}, {})
Insert(f, s) == Message("insertChunks", f, s, {})
More(f, r) == Message("getMore", f, {}, r)
IsRequest(m) == m.op \notin {"none", "reply", "error"}

Unused == [size |-> 0, chunk |-> 1, sha1 |-> FALSE]

CeilDiv(a, b) == (a + b - 1) \div b
Least(a, b) == IF a <= b THEN a ELSE b

\* _partial_write_chunks: how many chunks one request carries, by their data.
MaxAmount(chunk) == CeilDiv(Limit, chunk) - 1

Numbers(s, c) == 0 .. CeilDiv(s, c) - 1
NumbersOf(f) == Numbers(meta[f].size, meta[f].chunk)
Stored(f) == {n \in NumbersOf(f) : <<f, n>> \in chunks}

\* The n least of a set of numbers.
Front(s, n) == {i \in s : Cardinality({j \in s : j < i}) < n}

\* The request a task sends, and waits for.
Send(p, m) ==
    /\ pc' = [pc EXCEPT ![p] = m.op]
    /\ msg' = [msg EXCEPT ![p] = m]

Done(p, result) ==
    /\ pc' = [pc EXCEPT ![p] = "idle"]
    /\ msg' = [msg EXCEPT ![p] = NoMsg]
    /\ outcome' = [outcome EXCEPT ![p] = result]

Replied(p, at) == pc[p] = at /\ msg[p].op = "reply"

Begin(p) ==
    /\ pc[p] = "idle"
    /\ ops < MaxOps
    /\ ops' = ops + 1
-----------------------------------------------------------------------------
(* put                                                                     *)

\* No chunks: division by zero.  No room for a single chunk: range() of step 0.
Put(p) ==
    /\ Begin(p)
    /\ \E f \in Ids, s \in Sizes, c \in ChunkSizes, h \in BOOLEAN :
        /\ meta[f] = Unused
        /\ \/ /\ s = 0 \/ MaxAmount(c) = 0
              /\ outcome' = [outcome EXCEPT ![p] = "raised"]
              /\ UNCHANGED <<pc, msg, meta, target>>
           \/ /\ s # 0 /\ MaxAmount(c) # 0
              /\ meta' = [meta EXCEPT ![f] = [size |-> s, chunk |-> c, sha1 |-> h]]
              /\ target' = [target EXCEPT ![p] = f]
              /\ Send(p, Insert(f, Front(Numbers(s, c), MaxAmount(c))))
              /\ UNCHANGED outcome
    /\ data' = [data EXCEPT ![p] = {}]
    /\ UNCHANGED <<srvVars, check, late, histVars, faults>>

\* Mutant: the file document is written with the first group of chunks.
ChunksStoredEarly(p) ==
    /\ Replied(p, "insertChunks")
    /\ data' = [data EXCEPT ![p] = @ \cup msg[p].ns]
    /\ Send(p, Ask("insertFile", target[p]))
    /\ UNCHANGED <<srvVars, meta, target, check, outcome, late, histVars, ops, faults>>

\* The next group of chunks, or the file document after the last one.
ChunksStored(p) ==
    LET f == target[p]
        sent == data[p] \cup msg[p].ns
        rest == NumbersOf(f) \ sent IN
    /\ Replied(p, "insertChunks")
    /\ data' = [data EXCEPT ![p] = sent]
    /\ \/ rest # {} /\ Send(p, Insert(f, Front(rest, MaxAmount(meta[f].chunk))))
       \/ rest = {} /\ Send(p, Ask("insertFile", f))
    /\ UNCHANGED <<srvVars, meta, target, check, outcome, late, histVars, ops, faults>>

FileStored(p) ==
    /\ Replied(p, "insertFile")
    /\ Done(p, "stored")
    /\ UNCHANGED <<srvVars, meta, target, check, data, late, histVars, ops, faults>>
-----------------------------------------------------------------------------
(* get_by_file_id, get_by_filename                                         *)

\* By id, or by a name any file may have and with the sha1 checked.
Get(p) ==
    /\ Begin(p)
    /\ \/ \E f \in Ids, k \in BOOLEAN :
            /\ Send(p, Ask("findFile", f))
            /\ target' = [target EXCEPT ![p] = f]
            /\ check' = [check EXCEPT ![p] = k]
       \/ /\ Send(p, Ask("findName", NoId))
          /\ target' = [target EXCEPT ![p] = NoId]
          /\ check' = [check EXCEPT ![p] = TRUE]
    /\ data' = [data EXCEPT ![p] = {}]
    /\ UNCHANGED <<srvVars, meta, outcome, late, histVars, faults>>

NameFound(p) ==
    LET f == msg[p].id IN
    /\ Replied(p, "findName")
    /\ target' = [target EXCEPT ![p] = f]
    /\ \/ f = NoId /\ Done(p, "notFound")
       \/ f # NoId /\ Send(p, Ask("findFile", f)) /\ UNCHANGED outcome
    /\ UNCHANGED <<srvVars, meta, check, data, late, histVars, ops, faults>>

FileFound(p) ==
    LET f == msg[p].id IN
    /\ Replied(p, "findFile")
    /\ \/ f = NoId /\ Done(p, "notFound")
       \/ f # NoId /\ Send(p, Ask("aggregate", f)) /\ UNCHANGED outcome
    /\ UNCHANGED <<srvVars, meta, target, check, data, late, histVars, ops, faults>>

\* The sha1 of what was read is that of the file only if all of it was read.
Deliver(p, read) ==
    LET f == target[p] IN
    /\ data' = [data EXCEPT ![p] = read]
    /\ Done(p, IF check[p] /\ meta[f].sha1 /\ read # NumbersOf(f)
               THEN "mismatch" ELSE "read")

\* Mutant: the rest of the chunks is not asked for.
ChunksReadOnce(p) ==
    LET r == msg[p] IN
    /\ Replied(p, "aggregate")
    /\ Deliver(p, r.ns)
    /\ UNCHANGED <<srvVars, meta, target, check, late, histVars, ops, faults>>

\* Collection.aggregate: one getMore if the first reply has a cursor.
ChunksRead(p) ==
    LET r == msg[p] IN
    /\ Replied(p, "aggregate")
    /\ \/ r.rest = {} /\ Deliver(p, r.ns)
       \/ /\ r.rest # {}
          /\ data' = [data EXCEPT ![p] = r.ns]
          /\ Send(p, More(target[p], r.rest))
          /\ UNCHANGED outcome
    /\ UNCHANGED <<srvVars, meta, target, check, late, histVars, ops, faults>>

MoreRead(p) ==
    /\ Replied(p, "getMore")
    /\ Deliver(p, data[p] \cup msg[p].ns)
    /\ UNCHANGED <<srvVars, meta, target, check, late, histVars, ops, faults>>
-----------------------------------------------------------------------------
(* delete, drop_all_files                                                  *)

Delete(p) ==
    /\ Begin(p)
    /\ \E f \in Ids :
        /\ target' = [target EXCEPT ![p] = f]
        /\ Send(p, Ask("deleteFile", f))
    /\ UNCHANGED <<srvVars, meta, check, data, outcome, late, histVars, faults>>

\* Mutant: the chunks are left to somebody else.
FileDeletedOnly(p) ==
    /\ Replied(p, "deleteFile")
    /\ Done(p, IF msg[p].id = NoId THEN "notDeleted" ELSE "deleted")
    /\ deleted' = IF msg[p].id = NoId THEN deleted ELSE deleted \cup {target[p]}
    /\ UNCHANGED <<srvVars, meta, target, check, data, late, dropped, ops, faults>>

\* Mutant: the number of deleted documents is not looked at.
FileDeletedBlindly(p) ==
    /\ Replied(p, "deleteFile")
    /\ Send(p, Ask("deleteChunks", target[p]))
    /\ UNCHANGED <<srvVars, meta, target, check, data, outcome, late, histVars, ops, faults>>

FileDeleted(p) ==
    /\ Replied(p, "deleteFile")
    /\ \/ msg[p].id = NoId /\ Done(p, "notDeleted")
       \/ msg[p].id # NoId /\ Send(p, Ask("deleteChunks", target[p])) /\ UNCHANGED outcome
    /\ UNCHANGED <<srvVars, meta, target, check, data, late, histVars, ops, faults>>

ChunksDeleted(p) ==
    /\ Replied(p, "deleteChunks")
    /\ Done(p, "deleted")
    /\ deleted' = deleted \cup {target[p]}
    /\ UNCHANGED <<srvVars, meta, target, check, data, late, dropped, ops, faults>>

DropAllFiles(p) ==
    /\ Begin(p)
    /\ dropped' = TRUE
    /\ target' = [target EXCEPT ![p] = NoId]
    /\ Send(p, Ask("clearChunks", NoId))
    /\ UNCHANGED <<srvVars, meta, check, data, outcome, late, deleted, faults>>

ChunksCleared(p) ==
    /\ Replied(p, "clearChunks")
    /\ Send(p, Ask("clearFiles", NoId))
    /\ UNCHANGED <<srvVars, meta, target, check, data, outcome, late, histVars, ops, faults>>

FilesCleared(p) ==
    /\ Replied(p, "clearFiles")
    /\ Done(p, "dropped")
    /\ UNCHANGED <<srvVars, meta, target, check, data, late, histVars, ops, faults>>

RequestRaises(p) ==
    /\ msg[p].op = "error"
    /\ Done(p, "raised")
    /\ UNCHANGED <<srvVars, meta, target, check, data, late, histVars, ops, faults>>

\* A cancellation, a dead socket or a crash: the operation ends where it is.
GiveUp(p) ==
    /\ pc[p] # "idle"
    /\ faults < MaxFaults
    /\ faults' = faults + 1
    /\ late' \in {late, late \cup {m \in {msg[p]} : IsRequest(m)}}
    /\ Done(p, "raised")
    /\ UNCHANGED <<srvVars, meta, target, check, data, histVars, ops>>
-----------------------------------------------------------------------------
(* The server                                                              *)

\* One reply holds as many chunks as fit, and one if none does.
PerReply(f) ==
    LET k == Limit \div (meta[f].chunk + Overhead) IN IF k = 0 THEN 1 ELSE k

\* What the first insert_many of a put takes; no later one takes more.
FirstGroup(f) ==
    LET n == Least(CeilDiv(meta[f].size, meta[f].chunk), MaxAmount(meta[f].chunk)) IN
    Least(meta[f].size, n * meta[f].chunk) + n * Overhead
TooLarge(f) == FirstGroup(f) > Limit + Room
Accepted(m) == m.op = "insertChunks" => ~TooLarge(m.id)

\* The answer from a cursor over the chunks s that returns n of them.
Batch(f, s, n) == Answer(f, Front(s, n), s \ Front(s, n))

\* What the server may answer to a request.  A deletion answers with what it
\* deleted, which stands for the number.
AnswersTo(m) ==
    CASE m.op = "insertChunks" -> {Answer(m.id, m.ns, {})}
      [] m.op = "findName" ->
            {Answer(f, {}, {}) : f \in IF files = {} THEN {NoId} ELSE files}
      [] m.op \in {"findFile", "deleteFile"} ->
            {Answer(IF m.id \in files THEN m.id ELSE NoId, {}, {})}
      [] m.op = "aggregate" ->
            {Batch(m.id, Stored(m.id), Least(FirstBatch, PerReply(m.id)))}
      [] m.op = "getMore" -> {Batch(m.id, m.rest, PerReply(m.id))}
      [] OTHER -> {Answer(NoId, {}, {})}

\* What a request does to the collections.
Execute(m) ==
    /\ files' = CASE m.op = "insertFile" -> files \cup {m.id}
                  [] m.op = "deleteFile" -> files \ {m.id}
                  [] m.op = "clearFiles" -> {}
                  [] OTHER -> files
    /\ chunks' = CASE m.op = "insertChunks" -> chunks \cup ({m.id} \X m.ns)
                   [] m.op = "deleteChunks" -> {k \in chunks : k[1] # m.id}
                   [] m.op = "clearChunks" -> {}
                   [] OTHER -> chunks
    /\ removed' = removed \cup (files \ files')

Serve(p) ==
    /\ IsRequest(msg[p]) /\ Accepted(msg[p])
    /\ Execute(msg[p])
    /\ \E r \in AnswersTo(msg[p]) : msg' = [msg EXCEPT ![p] = r]
    /\ UNCHANGED <<meta, pc, target, check, data, outcome, late, histVars, ops, faults>>

\* A command that is too large is turned down as a whole.
RefuseLarge(p) ==
    /\ IsRequest(msg[p]) /\ ~Accepted(msg[p])
    /\ msg' = [msg EXCEPT ![p] = Error]
    /\ UNCHANGED <<srvVars, meta, pc, target, check, data, outcome, late, histVars, ops, faults>>

\* A request fails; an ordered insert has stored what comes before the failure.
Refuse(p) ==
    /\ IsRequest(msg[p])
    /\ faults < MaxFaults
    /\ faults' = faults + 1
    /\ \/ UNCHANGED srvVars
       \/ /\ msg[p].op = "insertChunks" /\ Accepted(msg[p])
          /\ \E n \in 1..Cardinality(msg[p].ns)-1 :
                Execute([msg[p] EXCEPT !.ns = Front(@, n)])
    /\ msg' = [msg EXCEPT ![p] = Error]
    /\ UNCHANGED <<meta, pc, target, check, data, outcome, late, histVars, ops>>

ServeLate ==
    \E m \in late :
        /\ Accepted(m)
        /\ late' = late \ {m}
        /\ Execute(m)
        /\ UNCHANGED <<meta, pc, target, check, msg, data, outcome, histVars, ops, faults>>
-----------------------------------------------------------------------------
Init ==
    /\ files = {}
    /\ chunks = {}
    /\ meta = [f \in Ids |-> Unused]
    /\ pc = [p \in Procs |-> "idle"]
    /\ target = [p \in Procs |-> NoId]
    /\ check = [p \in Procs |-> TRUE]
    /\ msg = [p \in Procs |-> NoMsg]
    /\ data = [p \in Procs |-> {}]
    /\ outcome = [p \in Procs |-> "none"]
    /\ late = {}
    /\ removed = {}
    /\ deleted = {}
    /\ dropped = FALSE
    /\ ops = 0
    /\ faults = 0

Next ==
    \/ \E p \in Procs :
        \/ Put(p) \/ ChunksStored(p) \/ FileStored(p)
        \/ Get(p) \/ NameFound(p) \/ FileFound(p) \/ ChunksRead(p) \/ MoreRead(p)
        \/ Delete(p) \/ FileDeleted(p) \/ ChunksDeleted(p)
        \/ DropAllFiles(p) \/ ChunksCleared(p) \/ FilesCleared(p)
        \/ RequestRaises(p) \/ GiveUp(p) \/ Serve(p) \/ RefuseLarge(p) \/ Refuse(p)
    \/ ServeLate

Spec == Init /\ [][Next]_vars
-----------------------------------------------------------------------------
(* Correctness                                                             *)

Requests == {"insertChunks", "insertFile", "findName", "findFile", "aggregate", "getMore",
             "deleteFile", "deleteChunks", "clearChunks", "clearFiles"}
Messages == [op : Requests \cup {"none", "reply", "error"}, id : Ids \cup {NoId},
             ns : SUBSET Nat, rest : SUBSET Nat]

\* Every variable keeps its type (gridfs.py:109-259).
TypeOK ==
    /\ files \subseteq Ids /\ removed \subseteq Ids /\ deleted \subseteq Ids
    /\ \A k \in chunks : k[1] \in Ids /\ k[2] \in NumbersOf(k[1])
    /\ meta \in [Ids -> [size : Sizes \cup {0}, chunk : ChunkSizes \cup {1}, sha1 : BOOLEAN]]
    /\ pc \in [Procs -> Requests \cup {"idle"}]
    /\ target \in [Procs -> Ids \cup {NoId}]
    /\ check \in [Procs -> BOOLEAN]
    /\ msg \in [Procs -> Messages]
    /\ data \in [Procs -> SUBSET Nat]
    /\ outcome \in [Procs -> {"none", "raised", "stored", "notFound", "mismatch", "read",
                             "notDeleted", "deleted", "dropped"}]
    /\ late \subseteq Messages /\ \A m \in late : IsRequest(m)
    /\ dropped \in BOOLEAN
    /\ ops \in 0..MaxOps /\ faults \in 0..MaxFaults

\* A file that can be found has all of its chunks, whatever crashes, is refused
\* or comes late in puts and deletes beside it: put writes the file document
\* last and delete takes it away first.  drop_all_files has the other order
\* (gridfs.py:147-174, 248-250, 258-259).
ListedIsWhole == ~dropped => \A f \in files : Stored(f) = NumbersOf(f)

\* As much as two replies of an aggregate carry.
TwoReplies(f) == Least(FirstBatch, PerReply(f)) + PerReply(f)

\* A get that found its file comes out with all of the data, checked or not,
\* unless the file was deleted or dropped or is larger than two replies; and then
\* it says so, if there is a sha1 and it was asked to check it
\* (gridfs.py:197-211, collection.py:437-447).
ReadIsComplete ==
    \A p \in Procs : outcome[p] \in {"read", "mismatch"} /\ pc[p] = "idle" =>
        LET f == target[p] IN
        \/ data[p] = NumbersOf(f)
        \/ /\ f \in removed \/ dropped \/ Cardinality(NumbersOf(f)) > TwoReplies(f)
           /\ ~(outcome[p] = "read" /\ check[p] /\ meta[f].sha1)

\* After a delete() that returned True there is nothing left of the file, not
\* even of late requests of its put, and never will be (gridfs.py:235-250).
DeletedIsGone == \A f \in deleted : f \notin files /\ Stored(f) = {}

\* Chunks that no file document names belong to an operation under way, to one
\* that a fault ended, or to a put a drop came across: a put whose chunks make too
\* large a message leaves none behind (gridfs.py:91-107, 147-174, 235-259).
NoOrphans ==
    \A k \in chunks :
        \/ k[1] \in files
        \/ \E p \in Procs : target[p] = k[1]
                /\ pc[p] \in {"insertChunks", "insertFile", "deleteFile", "deleteChunks"}
        \/ faults > 0 \/ dropped

\* What each caller is at, as module Bucket has it: its operation, the file that
\* is about, and what it has met there.
Doing(p) ==
    CASE pc[p] = "idle" -> "none"
      [] pc[p] \in {"insertChunks", "insertFile"} -> "put"
      [] pc[p] \in {"deleteFile", "deleteChunks"} -> "delete"
      [] pc[p] \in {"clearChunks", "clearFiles"} -> "drop"
      [] OTHER -> "get"

About(p) ==
    CASE pc[p] = "idle" -> NoId
      [] Replied(p, "findName") -> msg[p].id
      [] OTHER -> target[p]

Looked(p) == \E at \in {"findName", "findFile", "deleteFile"} : Replied(p, at)
MetIt(p) ==
    \/ pc[p] \in {"aggregate", "getMore", "deleteChunks"}
    \/ Replied(p, "insertFile") \/ Replied(p, "clearFiles")
    \/ Looked(p) /\ pc[p] # "findName" /\ msg[p].id # NoId
MissedIt(p) == Looked(p) /\ msg[p].id = NoId

Calls ==
    [p \in Procs |->
        [op |-> Doing(p), id |-> About(p),
         met |-> IF MetIt(p) THEN "there" ELSE IF MissedIt(p) THEN "absent" ELSE "nothing"]]

\* The late requests that make or take away a file document.
Due(o) == IF o = "insertFile" THEN "put" ELSE IF o = "deleteFile" THEN "delete" ELSE "drop"
Owed ==
    {[op |-> Due(m.op), id |-> m.id] :
        m \in {k \in late : k.op \in {"insertFile", "deleteFile", "clearFiles"}}}

B == INSTANCE Bucket WITH
    listed <- files, gone <- removed, call <- Calls, owed <- Owed, result <- outcome

\* GridFS is a bucket of files: whatever its requests interleave with, and
\* however late some are carried out, every result it returns was true of the
\* bucket at one moment of the call (gridfs.py:109-259).
IsBucket == B!BucketSpec

\* "Retrieve a file and its binary data from GridFS by file ID": what a get
\* returns is the data that was put (gridfs.py:182).
ReturnedIsWhole ==
    \A p \in Procs : outcome[p] = "read" /\ pc[p] = "idle" => data[p] = NumbersOf(target[p])
=============================================================================
