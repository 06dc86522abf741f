------------------------------- MODULE Cursor -------------------------------
(***************************************************************************)
(* One Cursor (cursor.py) and the program that iterates over it, with the  *)
(* cursors the server keeps for it.  The documents of the result are       *)
(* numbered 1, 2, ... in the order of the query.                           *)
(*                                                                         *)
(* Each await of a command is two steps, the server's and the caller's.    *)
(* The program may give a command up before or after the server acted on   *)
(* it (cancellation, time limit, dead socket).  A server that acts even    *)
(* later changes nothing: no later command depends on what it did.         *)
(***************************************************************************)
EXTENDS Integers, Sequences

CONSTANTS
    Totals,   \* how many documents may match
    Limits,   \* arguments of limit(), 0 for none
    Batches,  \* arguments of batch_size()
    Room,     \* documents that fit into one reply
    MaxFaults \* bound: commands given up, commands refused, cursors timed out

ASSUME SettingsAssumption ==
    /\ Totals \subseteq Nat /\ Limits \subseteq Nat /\ Batches \subseteq Nat
    /\ Room \in Nat \ {0} /\ MaxFaults \in Nat

VARIABLES
    total,  \* documents that match the filter
    limit,  \* Cursor._limit
    batch,  \* Cursor._batch_size
    bad,    \* the document from_document of Cursor._cls rejects, 0 for none
    id,     \* Cursor._id, NoId before the first reply
    docs,   \* Cursor._docs
    second, \* Cursor._second_iteration
    killed, \* Cursor._killed
    pc,     \* what the program awaits of the cursor
    msg,    \* the command it waits for, then its reply
    got,    \* documents the program has been given
    failed, \* an exception has reached the program
    ended,  \* the last __anext__ raised StopAsyncIteration
    open,   \* cursors open at the server: id -> documents still to return
    nextId, \* source of the server's cursor ids
    faults

settings == <<total, limit, batch, bad>>
objVars  == <<id, docs, second, killed>>
srvVars  == <<open, nextId>>
vars == <<total, limit, batch, bad, id, docs, second, killed, pc, msg, got, failed, ended,
          open, nextId, faults>>

NoId == -1
NoMsg == [op |-> "none"]
Command(o, c) == [op |-> o, id |-> c]
Reply(c, ds) == [op |-> "reply", id |-> c, docs |-> ds]

Least(a, b) == IF a <= b THEN a ELSE b

\* How many documents the query has; limit 0 is no limit.
Size == IF limit = 0 THEN total ELSE Least(total, limit)
-----------------------------------------------------------------------------
(* The program and the Cursor object                                       *)

\* The end of __anext__ with ds in the buffer: popleft or StopAsyncIteration.
Pop(ds) ==
    \/ /\ ds # <<>>
       /\ got' = Append(got, Head(ds))
       /\ docs' = Tail(ds)
       /\ ended' = FALSE
    \/ /\ ds = <<>>
       /\ docs' = <<>>
       /\ ended' = TRUE
       /\ UNCHANGED got

\* from_document takes every document of the reply.
Parses == \A i \in DOMAIN msg.docs : msg.docs[i] # bad

Await(at, m) == pc' = at /\ msg' = m

TakeBuffered ==
    /\ pc = "idle"
    /\ docs # <<>>
    /\ Pop(docs)
    /\ UNCHANGED <<settings, id, second, killed, pc, msg, failed, srvVars, faults>>

Find ==
    /\ pc = "idle"
    /\ docs = <<>>
    /\ id = NoId
    /\ Await("find", Command("find", NoId))
    /\ UNCHANGED <<settings, objVars, got, failed, ended, srvVars, faults>>

\* Mutant: the cursor id is read as a signed number of fewer bits.
FindReturnsSigned ==
    /\ pc = "find" /\ msg.op = "reply" /\ Parses
    /\ id' = -msg.id
    /\ Pop(msg.docs)
    /\ Await("idle", NoMsg)
    /\ UNCHANGED <<settings, second, killed, failed, srvVars, faults>>

\* Mutant: the find is counted as the first of two iterations.
FindReturnsCounted ==
    /\ pc = "find" /\ msg.op = "reply" /\ Parses
    /\ id' = msg.id
    /\ second' = TRUE
    /\ Pop(msg.docs)
    /\ Await("idle", NoMsg)
    /\ UNCHANGED <<settings, killed, failed, srvVars, faults>>

FindReturns ==
    /\ pc = "find" /\ msg.op = "reply" /\ Parses
    /\ id' = msg.id
    /\ Pop(msg.docs)
    /\ Await("idle", NoMsg)
    /\ UNCHANGED <<settings, second, killed, failed, srvVars, faults>>

\* Mutant: the flag is left to the code after the await.
GetMoreUnmarked ==
    /\ pc = "idle"
    /\ docs = <<>>
    /\ id > 0 /\ ~second
    /\ Await("more", Command("getMore", id))
    /\ UNCHANGED <<settings, objVars, got, failed, ended, srvVars, faults>>

GetMore ==
    /\ pc = "idle"
    /\ docs = <<>>
    /\ id > 0 /\ ~second
    /\ second' = TRUE
    /\ Await("more", Command("getMore", id))
    /\ UNCHANGED <<settings, id, docs, killed, got, failed, ended, srvVars, faults>>

\* The cursor id of this reply is not looked at.
MoreReturns ==
    /\ pc = "more" /\ msg.op = "reply" /\ Parses
    /\ Pop(msg.docs)
    /\ Await("idle", NoMsg)
    /\ UNCHANGED <<settings, id, second, killed, failed, srvVars, faults>>

\* The exception of a command leaves the object as it was at the await.
Raised ==
    /\ failed' = TRUE
    /\ ended' = FALSE
    /\ Await(IF pc = "closing" THEN "closed" ELSE "idle", NoMsg)

\* _map_docs raises once the id is kept and before the buffer gets anything:
\* the batch is gone, and the next __anext__ goes on behind it.
BatchRejected ==
    /\ pc \in {"find", "more"} /\ msg.op = "reply" /\ ~Parses
    /\ id' = IF pc = "find" THEN msg.id ELSE id
    /\ Raised
    /\ UNCHANGED <<settings, docs, second, killed, got, srvVars, faults>>

\* close() is over; from tells who called it, __anext__ or the program.
Shut(from) ==
    /\ Await(IF from = "closing" THEN "closed" ELSE "idle", NoMsg)
    /\ ended' = (from = "ending")

\* Mutant: a cursor is only killed while documents are buffered.
CloseBuffered(from) ==
    /\ killed' = TRUE
    /\ \/ /\ ~killed /\ id > 0 /\ limit # 0 /\ docs # <<>>
          /\ Await(from, Command("killCursors", id))
          /\ UNCHANGED <<docs, ended>>
       \/ /\ ~(~killed /\ id > 0 /\ limit # 0 /\ docs # <<>>)
          /\ docs' = IF killed THEN docs ELSE <<>>
          /\ Shut(from)

\* close() up to its first suspension.
CloseCursor(from) ==
    /\ killed' = TRUE
    /\ \/ /\ ~killed /\ id > 0 /\ limit # 0
          /\ Await(from, Command("killCursors", id))
          /\ UNCHANGED <<docs, ended>>
       \/ /\ killed \/ id <= 0 \/ limit = 0
          /\ docs' = IF killed THEN docs ELSE <<>>
          /\ Shut(from)

Finish ==
    /\ pc = "idle"
    /\ docs = <<>>
    /\ id # NoId
    /\ id = 0 \/ second
    /\ CloseCursor("ending")
    /\ UNCHANGED <<settings, id, second, got, failed, srvVars, faults>>

\* async with, or a program that has seen enough.
Close ==
    /\ pc = "idle"
    /\ CloseCursor("closing")
    /\ UNCHANGED <<settings, id, second, got, failed, srvVars, faults>>

KillReturns ==
    /\ pc \in {"ending", "closing"} /\ msg.op = "reply"
    /\ docs' = <<>>
    /\ Shut(pc)
    /\ UNCHANGED <<settings, id, second, killed, got, failed, srvVars, faults>>

CommandRaises ==
    /\ msg.op = "error"
    /\ Raised
    /\ UNCHANGED <<settings, objVars, got, srvVars, faults>>

GiveUp ==
    /\ msg.op # "none"
    /\ faults < MaxFaults
    /\ faults' = faults + 1
    /\ Raised
    /\ UNCHANGED <<settings, objVars, got, srvVars>>
-----------------------------------------------------------------------------
(* The server                                                              *)

Unopened(c) == [d \in DOMAIN open \ {c} |-> open[d]]

\* Cursor c returns at most n of the documents left to it.  It stays open when
\* there are more, and may when the server has not looked past the last one.
Return(c, left, n) ==
    LET k == Least(n, Len(left)) IN
    \/ /\ k = n
       /\ open' = [d \in DOMAIN open \cup {c} |->
                      IF d = c THEN SubSeq(left, k + 1, Len(left)) ELSE open[d]]
       /\ msg' = Reply(c, SubSeq(left, 1, k))
    \/ /\ k = Len(left)
       /\ open' = Unopened(c)
       /\ msg' = Reply(0, left)

ServeFind ==
    /\ msg.op = "find"
    /\ Return(nextId, [i \in 1..Size |-> i], Least(batch, Room))
    /\ nextId' = nextId + 1
    /\ UNCHANGED <<settings, objVars, pc, got, failed, ended, faults>>

\* No batchSize: as much as fits into a reply.
ServeGetMore ==
    /\ msg.op = "getMore"
    /\ \/ msg.id \in DOMAIN open /\ Return(msg.id, open[msg.id], Room)
       \/ msg.id \notin DOMAIN open /\ msg' = [op |-> "error"] /\ UNCHANGED open
    /\ UNCHANGED <<settings, objVars, pc, got, failed, ended, nextId, faults>>

ServeKill ==
    /\ msg.op = "killCursors"
    /\ open' = Unopened(msg.id)
    /\ msg' = Reply(0, <<>>)
    /\ UNCHANGED <<settings, objVars, pc, got, failed, ended, nextId, faults>>

Refuse ==
    /\ msg.op \in {"find", "getMore", "killCursors"}
    /\ faults < MaxFaults
    /\ faults' = faults + 1
    /\ msg' = [op |-> "error"]
    /\ UNCHANGED <<settings, objVars, pc, got, failed, ended, srvVars>>

\* The server ends a cursor that was idle too long.
Expire ==
    /\ faults < MaxFaults
    /\ faults' = faults + 1
    /\ \E c \in DOMAIN open : open' = Unopened(c)
    /\ UNCHANGED <<settings, objVars, pc, msg, got, failed, ended, nextId>>
-----------------------------------------------------------------------------
Init ==
    /\ total \in Totals
    /\ limit \in Limits
    /\ batch \in Batches
    /\ bad \in {0} \cup 1..Size
    /\ id = NoId
    /\ docs = <<>>
    /\ second = FALSE
    /\ killed = FALSE
    /\ pc = "idle"
    /\ msg = NoMsg
    /\ got = <<>>
    /\ failed = FALSE
    /\ ended = FALSE
    /\ open = [c \in {} |-> <<>>]
    /\ nextId = 1
    /\ faults = 0

Next ==
    \/ TakeBuffered \/ Find \/ FindReturns \/ GetMore \/ MoreReturns \/ BatchRejected
    \/ Finish \/ Close \/ KillReturns \/ CommandRaises \/ GiveUp
    \/ ServeFind \/ ServeGetMore \/ ServeKill \/ Refuse \/ Expire

Spec == Init /\ [][Next]_vars
-----------------------------------------------------------------------------
(* Correctness                                                             *)

\* Every variable keeps its type (cursor.py:38-55).
TypeOK ==
    /\ total \in Totals /\ limit \in Limits /\ batch \in Batches /\ bad \in 0..total
    /\ id \in {NoId} \cup Nat
    /\ docs \in Seq(Nat) /\ got \in Seq(Nat)
    /\ pc \in {"idle", "find", "more", "ending", "closing", "closed"}
    /\ msg.op \in {"none", "find", "getMore", "killCursors", "reply", "error"}
    /\ {second, killed, failed, ended} \subseteq BOOLEAN
    /\ nextId \in 1..(MaxFaults + 2)
    /\ DOMAIN open \subseteq 1..nextId
    /\ faults \in 0..MaxFaults

\* The program is given the documents of the result in order and without a
\* repetition, never more than the limit, even if it goes on after commands that
\* failed although the server carried them out.  A gap is a lost batch: it has
\* the document from_document rejected, and the program saw the exception
\* (cursor.py:176-210).
InOrder ==
    LET before(i) == IF i = 1 THEN 0 ELSE got[i - 1] IN
    /\ \A i \in 1..Len(got) : before(i) < got[i] /\ got[i] <= Size /\ got[i] # bad
    /\ \A i \in 1..Len(got) : got[i] # before(i) + 1 => failed /\ bad \in before(i)..got[i]

\* An iteration that ends without an exception has returned everything, when the
\* first batch is not empty by request and two replies can carry the result;
\* there is no third (cursor.py:191-195).
Complete ==
    ended /\ ~failed /\ batch > 0 /\ Size <= Least(batch, Room) + Room => Len(got) = Size

\* With a limit, a cursor that was iterated to its end or closed is not left
\* open at the server, however many documents it had left (cursor.py:212-226).
Released ==
    pc = "closed" \/ (ended /\ pc = "idle" /\ batch > 0) =>
        limit = 0 \/ failed \/ DOMAIN open = {}
=============================================================================
