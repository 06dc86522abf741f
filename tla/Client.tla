------------------------------- MODULE Client -------------------------------
(***************************************************************************)
(* Kover.request and Kover.close (client.py) over the pool of              *)
(* MongoTransport objects (network/transport.py), with the wire as far as  *)
(* request ids and framing go (network/wirehelper.py), the handshake of a  *)
(* fresh connection (hello, then the two SCRAM messages of                 *)
(* network/auth.py) and the server at the other end of each socket.        *)
(*                                                                         *)
(* asyncio is cooperative: a task runs without interruption from one await *)
(* that suspends to the next, so one action is everything a task does      *)
(* between two suspension points.  A suspended task may be cancelled.      *)
(***************************************************************************)
EXTENDS Integers, Sequences, SequencesExt

CONSTANTS
    Tasks,        \* asyncio tasks that call Kover.request
    Conns,        \* the MongoTransport objects _create_connection_pool makes
    NoConn,       \* "no transport"
    RequiresAuth, \* the server lists SASL mechanisms in its hello reply
    WaitModes,    \* values of wait_response callers pass
    Rejectable,   \* phases the server may answer with an error
    MaxCalls,     \* bound: calls of Kover.request, all tasks together
    MaxCancels,   \* bound: task cancellations
    MaxResets     \* bound: sockets that die

Phases == {"hello", "saslStart", "saslContinue", "command"}

ASSUME TasksAssumption == IsFiniteSet(Tasks)
ASSUME ConnsAssumption == NoConn \notin Conns /\ IsFiniteSet(Conns)
ASSUME OwnersAssumption == {"pool", "gone"} \cap Tasks = {}
ASSUME ModesAssumption ==
    /\ RequiresAuth \in BOOLEAN
    /\ WaitModes \subseteq BOOLEAN
    /\ Rejectable \subseteq Phases
ASSUME BoundsAssumption == MaxCalls \in Nat /\ MaxCancels \in Nat /\ MaxResets \in Nat

VARIABLES
    pool,      \* Kover._pool, an unbounded FIFO asyncio.Queue
    getters,   \* the futures of tasks suspended in _pool.get(), oldest first
    pc,        \* where each task is suspended
    wait,      \* the wait_response argument of the task's call
    conn,      \* local variable conn of Kover.request
    phase,     \* which message of the handshake, or the command, is next or out
    rid,       \* local variable rid of MongoTransport.request, 0 when there is none
    outcome,   \* how the task's last call ended: returned or raised
    connected, \* MongoTransport._connected
    alive,     \* the socket is up
    inbox,     \* bytes written to the socket the server has not acted on
    stream,    \* bytes of replies the client has not consumed
    authed,    \* the server takes commands on this connection
    closer,    \* progress of Kover.close
    closing,   \* the transport Kover.close is waiting for
    nextRid,   \* source of fresh request ids
    calls, cancels, resets

poolVars   == <<pool, getters>>
callVars   == <<wait, calls>>
localVars  == <<conn, phase, rid>>
wireVars   == <<inbox, stream>>
sockVars   == <<connected, alive>>
closeVars  == <<closer, closing>>
faultVars  == <<cancels, resets>>
vars == <<pool, getters, pc, wait, conn, phase, rid, outcome, connected, alive,
          inbox, stream, authed, closer, closing, nextRid, calls, cancels, resets>>

Request(r, p)  == [rid |-> r, phase |-> p]
Header(r, ok)  == [kind |-> "header", rid |-> r, ok |-> ok]
Body(r, ok)    == [kind |-> "body", rid |-> r, ok |-> ok]

\* A transport whose connect() has finished and whose handshake has not.
Handshaking(t) == phase[t] # "command"
-----------------------------------------------------------------------------
(* The pool: asyncio.Queue as Kover uses it.                               *)

\* put() and the clean-up of a cancelled get() wake the oldest waiting getter;
\* p is the value of pc the rest of the step leaves behind.
WakeNext(p) ==
    \/ /\ getters = <<>>
       /\ pc' = p
       /\ UNCHANGED getters
    \/ /\ getters # <<>>
       /\ pc' = [p EXCEPT ![Head(getters)] = "woken"]
       /\ getters' = Tail(getters)

\* get_message and _send: a fresh id and the message into the socket.  Bytes
\* written to a dead socket go nowhere; the failure shows at the next await.
\* at is what the task waits for then.
Transmit(t, c, p, at) ==
    /\ phase' = [phase EXCEPT ![t] = p]
    /\ rid' = [rid EXCEPT ![t] = nextRid]
    /\ nextRid' = nextRid + 1
    /\ inbox' = IF alive[c] \/ pc[t] = "connecting"
                THEN [inbox EXCEPT ![c] = Append(@, Request(nextRid, p))]
                ELSE inbox
    /\ pc' = [pc EXCEPT ![t] = at]

\* With wait_response=False a request only awaits the drain.
Await(w) == IF w THEN "header" ELSE "draining"

\* get() on a non-empty queue, then the connected/not connected branch.
Take(t, at) ==
    LET c == Head(pool) IN
    /\ pool # <<>>
    /\ pool' = Tail(pool)
    /\ conn' = [conn EXCEPT ![t] = c]
    /\ \/ /\ connected[c]
          /\ Transmit(t, c, "command", at)
       \/ /\ ~connected[c]
          /\ pc' = [pc EXCEPT ![t] = "connecting"]
          /\ phase' = [phase EXCEPT ![t] = "hello"]
          /\ UNCHANGED <<rid, nextRid, inbox>>

\* Mutant: the local variable is cleared before it is put back.
ReleaseCleared(t, result) ==
    /\ pool' = Append(pool, NoConn)
    /\ conn' = [conn EXCEPT ![t] = NoConn]
    /\ rid' = [rid EXCEPT ![t] = 0]
    /\ outcome' = [outcome EXCEPT ![t] = result]
    /\ WakeNext([pc EXCEPT ![t] = "idle"])

\* Mutant: the transport is put back behind the queue's back.
ReleaseSilently(t, result) ==
    /\ pool' = Append(pool, conn[t])
    /\ conn' = [conn EXCEPT ![t] = NoConn]
    /\ rid' = [rid EXCEPT ![t] = 0]
    /\ outcome' = [outcome EXCEPT ![t] = result]
    /\ pc' = [pc EXCEPT ![t] = "idle"]
    /\ UNCHANGED getters

\* The finally clause: the transport goes back to the queue.
Release(t, result) ==
    /\ pool' = Append(pool, conn[t])
    /\ conn' = [conn EXCEPT ![t] = NoConn]
    /\ rid' = [rid EXCEPT ![t] = 0]
    /\ outcome' = [outcome EXCEPT ![t] = result]
    /\ WakeNext([pc EXCEPT ![t] = "idle"])

\* Mutant: the handshake is inside the try.
LosePutBack(t) == Release(t, "raised")

\* An exception before the try: nobody puts the transport back.
Lose(t) ==
    /\ conn' = [conn EXCEPT ![t] = NoConn]
    /\ rid' = [rid EXCEPT ![t] = 0]
    /\ outcome' = [outcome EXCEPT ![t] = "raised"]
    /\ pc' = [pc EXCEPT ![t] = "idle"]
    /\ UNCHANGED poolVars

\* Mutant: an exception handler puts the transport back and so does finally.
RaiseTwice(t) ==
    /\ \/ /\ ~Handshaking(t)
          /\ pool' = pool \o <<conn[t], conn[t]>>
          /\ conn' = [conn EXCEPT ![t] = NoConn]
          /\ rid' = [rid EXCEPT ![t] = 0]
          /\ outcome' = [outcome EXCEPT ![t] = "raised"]
          /\ WakeNext([pc EXCEPT ![t] = "idle"])
       \/ Handshaking(t) /\ Lose(t)
    /\ phase' = [phase EXCEPT ![t] = "command"]

\* An exception out of MongoTransport.request.
Raise(t) == /\ \/ ~Handshaking(t) /\ Release(t, "raised")
               \/ Handshaking(t) /\ Lose(t)
            /\ phase' = [phase EXCEPT ![t] = "command"]
-----------------------------------------------------------------------------
(* Kover.request                                                           *)

Start(t) ==
    /\ pc[t] = "idle"
    /\ calls < MaxCalls
    /\ calls' = calls + 1
    /\ outcome' = [outcome EXCEPT ![t] = "none"]
    /\ \E w \in WaitModes :
        /\ wait' = [wait EXCEPT ![t] = w]
        /\ \/ Take(t, Await(w)) /\ UNCHANGED getters
           \/ /\ pool = <<>>
              /\ pc' = [pc EXCEPT ![t] = "waiting"]
              /\ getters' = Append(getters, t)
              /\ UNCHANGED <<pool, conn, phase, rid, nextRid, inbox>>
    /\ UNCHANGED <<sockVars, stream, authed, closeVars, faultVars>>

\* A woken getter runs again.  Another task may have taken the transport in
\* the meantime: Queue.get loops and waits at the back.
Resume(t) ==
    /\ pc[t] = "woken"
    /\ \/ Take(t, Await(wait[t])) /\ UNCHANGED getters
       \/ /\ pool = <<>>
          /\ pc' = [pc EXCEPT ![t] = "waiting"]
          /\ getters' = Append(getters, t)
          /\ UNCHANGED <<pool, conn, phase, rid, nextRid, inbox>>
    /\ UNCHANGED <<callVars, outcome, sockVars, stream, authed, closeVars, faultVars>>

Connect(t) ==
    LET c == conn[t] IN
    /\ pc[t] = "connecting"
    /\ connected' = [connected EXCEPT ![c] = TRUE]
    /\ alive' = [alive EXCEPT ![c] = TRUE]
    /\ authed' = [authed EXCEPT ![c] = ~RequiresAuth]
    /\ Transmit(t, c, "hello", "header")
    /\ UNCHANGED <<poolVars, callVars, conn, outcome, stream, closeVars, faultVars>>

ConnectFails(t) ==
    /\ pc[t] = "connecting"
    /\ Raise(t)
    /\ UNCHANGED <<callVars, sockVars, wireVars, authed, closeVars, nextRid, faultVars>>

\* Mutant: verify_rid accepts every header.
ReadAnyHeader(t) ==
    LET c == conn[t] IN
    /\ pc[t] = "header"
    /\ stream[c] # <<>>
    /\ Head(stream[c]).kind = "header"
    /\ stream' = [stream EXCEPT ![c] = Tail(@)]
    /\ pc' = [pc EXCEPT ![t] = "body"]
    /\ UNCHANGED <<poolVars, callVars, localVars, outcome, sockVars, inbox, authed,
                   closeVars, nextRid, faultVars>>

\* _recv(16) and a verify_rid that accepts.
ReadHeader(t) ==
    LET c == conn[t] IN
    /\ pc[t] = "header"
    /\ stream[c] # <<>>
    /\ Head(stream[c]).kind = "header"
    /\ Head(stream[c]).rid = rid[t]
    /\ stream' = [stream EXCEPT ![c] = Tail(@)]
    /\ pc' = [pc EXCEPT ![t] = "body"]
    /\ UNCHANGED <<poolVars, callVars, localVars, outcome, sockVars, inbox, authed,
                   closeVars, nextRid, faultVars>>

\* verify_rid raises AssertionError.  The 16 bytes are gone: a whole header of
\* somebody else, or the front or the rest of a body nobody read.
RejectHeader(t) ==
    LET c == conn[t]
        u == Head(stream[c]) IN
    /\ pc[t] = "header"
    /\ stream[c] # <<>>
    /\ u.kind = "body" \/ u.rid # rid[t]
    /\ \/ stream' = [stream EXCEPT ![c] = Tail(@)]
       \/ u.kind = "body" /\ UNCHANGED stream
    /\ Raise(t)
    /\ UNCHANGED <<callVars, sockVars, inbox, authed, closeVars, nextRid, faultVars>>

\* The message after an accepted handshake reply.
NextPhase(p) ==
    IF p = "hello" /\ RequiresAuth THEN "saslStart"
    ELSE IF p = "saslStart" THEN "saslContinue" ELSE "command"

\* _recv(length - 16) and get_reply; hello and authorize go on at once with
\* the next message, the command's reply is returned or raised.
ReadBody(t) ==
    LET c == conn[t]
        u == Head(stream[c])
        p == NextPhase(phase[t]) IN
    /\ pc[t] = "body"
    /\ stream[c] # <<>>
    /\ stream' = [stream EXCEPT ![c] = Tail(@)]
    /\ \/ /\ ~u.ok
          /\ Raise(t)
          /\ UNCHANGED <<nextRid, inbox>>
       \/ /\ u.ok /\ ~Handshaking(t)
          /\ Release(t, "returned")
          /\ UNCHANGED <<phase, nextRid, inbox>>
       \/ /\ u.ok /\ Handshaking(t)
          /\ Transmit(t, c, p, IF p = "command" THEN Await(wait[t]) ELSE "header")
          /\ UNCHANGED <<poolVars, conn, outcome>>
    /\ UNCHANGED <<callVars, sockVars, authed, closeVars, faultVars>>

\* wait_response=False: request returns {} once the drain is done.
Drained(t) ==
    /\ pc[t] = "draining"
    /\ Release(t, "returned")
    /\ UNCHANGED <<callVars, phase, sockVars, wireVars, authed, closeVars, nextRid, faultVars>>

\* drain or readexactly raises on a dead socket, whatever is still buffered.
SocketFails(t) ==
    /\ pc[t] \in {"header", "body", "draining"}
    /\ ~alive[conn[t]]
    /\ stream' \in {stream, [stream EXCEPT ![conn[t]] = <<>>]}
    /\ Raise(t)
    /\ UNCHANGED <<callVars, sockVars, inbox, authed, closeVars, nextRid, faultVars>>
-----------------------------------------------------------------------------
(* CancelledError at the await the task is suspended in                    *)

CancelGet(t) ==
    /\ cancels < MaxCancels
    /\ cancels' = cancels + 1
    /\ \/ /\ pc[t] = "waiting"
          /\ \E i \in 1..Len(getters) :
                getters[i] = t /\ getters' = RemoveAt(getters, i)
          /\ pc' = [pc EXCEPT ![t] = "idle"]
       \/ /\ pc[t] = "woken" /\ pool # <<>>
          /\ WakeNext([pc EXCEPT ![t] = "idle"])
       \/ /\ pc[t] = "woken" /\ pool = <<>>
          /\ pc' = [pc EXCEPT ![t] = "idle"]
          /\ UNCHANGED getters
    /\ outcome' = [outcome EXCEPT ![t] = "raised"]
    /\ UNCHANGED <<pool, callVars, localVars, sockVars, wireVars, authed, closeVars,
                   nextRid, resets>>

CancelCall(t) ==
    /\ pc[t] \in {"connecting", "header", "body", "draining"}
    /\ cancels < MaxCancels
    /\ cancels' = cancels + 1
    /\ Raise(t)
    /\ UNCHANGED <<callVars, sockVars, wireVars, authed, closeVars, nextRid, resets>>
-----------------------------------------------------------------------------
(* Kover.close                                                             *)

\* The loop of close() up to its next suspension.  get() does not suspend on a
\* non-empty queue and close() of a transport that never connected returns at
\* once, so transports are dropped until one has a socket to wait for.
Sweep ==
    \E n \in 0..Len(pool) :
        /\ \A i \in 1..n : ~connected[pool[i]]
        /\ \/ /\ n = Len(pool)
              /\ pool' = <<>>
              /\ closer' = "closed"
              /\ closing' = NoConn
           \/ /\ n < Len(pool)
              /\ connected[pool[n+1]]
              /\ pool' = SubSeq(pool, n + 2, Len(pool))
              /\ closer' = "closing"
              /\ closing' = pool[n+1]

CloseStart ==
    /\ closer = "open"
    /\ Sweep
    /\ UNCHANGED <<getters, pc, callVars, localVars, outcome, sockVars, wireVars, authed,
                   nextRid, faultVars>>

\* Mutant: the transport is dropped instead of closed.
CloseNextDrops ==
    /\ closer = "closing"
    /\ Sweep
    /\ UNCHANGED <<getters, pc, callVars, localVars, outcome, sockVars, wireVars, authed,
                   nextRid, faultVars>>

\* wait_closed returns.
CloseNext ==
    /\ closer = "closing"
    /\ alive' = [alive EXCEPT ![closing] = FALSE]
    /\ inbox' = [inbox EXCEPT ![closing] = <<>>]
    /\ Sweep
    /\ UNCHANGED <<getters, pc, callVars, localVars, outcome, connected, stream, authed,
                   nextRid, faultVars>>

\* wait_closed raises the error the socket died of; close() ends there.
CloseRaises ==
    /\ closer = "closing"
    /\ ~alive[closing]
    /\ closer' = "failed"
    /\ closing' = NoConn
    /\ UNCHANGED <<poolVars, pc, callVars, localVars, outcome, sockVars, wireVars, authed,
                   nextRid, faultVars>>
-----------------------------------------------------------------------------
(* The other end                                                           *)

\* The server answers the oldest message of a socket.  It takes commands only
\* from a connection it has authenticated.  A reply that is not ok stands for
\* an error document and for whatever hello() or authorize() refuses in a
\* reply (validation, iteration count, nonce, server signature).
Serve(c) ==
    LET m == Head(inbox[c]) IN
    /\ alive[c]
    /\ inbox[c] # <<>>
    /\ inbox' = [inbox EXCEPT ![c] = Tail(@)]
    /\ \E ok \in BOOLEAN :
        /\ ok => m.phase # "command" \/ authed[c]
        /\ ~ok => m.phase \in Rejectable \/ (m.phase = "command" /\ ~authed[c])
        /\ stream' = [stream EXCEPT ![c] = @ \o <<Header(m.rid, ok), Body(m.rid, ok)>>]
        /\ authed' = [authed EXCEPT ![c] = @ \/ (ok /\ m.phase = "saslContinue")]
    /\ UNCHANGED <<poolVars, pc, callVars, localVars, outcome, sockVars, closeVars,
                   nextRid, faultVars>>

\* The socket dies; what was under way in either direction may be lost.
Reset(c) ==
    /\ alive[c]
    /\ resets < MaxResets
    /\ resets' = resets + 1
    /\ alive' = [alive EXCEPT ![c] = FALSE]
    /\ inbox' = [inbox EXCEPT ![c] = <<>>]
    /\ \E n \in 0..Len(stream[c]) :
        stream' = [stream EXCEPT ![c] = SubSeq(@, 1, n)]
    /\ UNCHANGED <<poolVars, pc, callVars, localVars, outcome, connected, authed,
                   closeVars, nextRid, cancels>>
-----------------------------------------------------------------------------
\* _create_connection_pool fills the queue in some order of Conns.
Init ==
    /\ pool \in SetToSeqs(Conns)
    /\ getters = <<>>
    /\ pc = [t \in Tasks |-> "idle"]
    /\ wait = [t \in Tasks |-> TRUE]
    /\ conn = [t \in Tasks |-> NoConn]
    /\ phase = [t \in Tasks |-> "command"]
    /\ rid = [t \in Tasks |-> 0]
    /\ outcome = [t \in Tasks |-> "none"]
    /\ connected = [c \in Conns |-> FALSE]
    /\ alive = [c \in Conns |-> FALSE]
    /\ inbox = [c \in Conns |-> <<>>]
    /\ stream = [c \in Conns |-> <<>>]
    /\ authed = [c \in Conns |-> FALSE]
    /\ closer = "open"
    /\ closing = NoConn
    /\ nextRid = 1
    /\ calls = 0
    /\ cancels = 0
    /\ resets = 0

\* What the event loop runs of a call once it has begun.
TaskStep(t) ==
    \/ Resume(t) \/ Connect(t) \/ ConnectFails(t)
    \/ ReadHeader(t) \/ RejectHeader(t) \/ ReadBody(t)
    \/ Drained(t) \/ SocketFails(t)

Next ==
    \/ \E t \in Tasks : Start(t) \/ TaskStep(t) \/ CancelGet(t) \/ CancelCall(t)
    \/ CloseStart \/ CloseNext \/ CloseRaises
    \/ \E c \in Conns : Serve(c) \/ Reset(c)

Spec == Init /\ [][Next]_vars

\* The loop runs every ready task, the server answers what it received and a
\* close under way goes on.  Nobody has to call, cancel or lose a socket.
Fairness ==
    /\ \A t \in Tasks : WF_vars(TaskStep(t))
    /\ \A c \in Conns : WF_vars(Serve(c))
    /\ WF_vars(CloseNext \/ CloseRaises)

FairSpec == Spec /\ Fairness
-----------------------------------------------------------------------------
(* Correctness                                                             *)

States == {"idle", "waiting", "woken", "connecting", "header", "body", "draining"}
Holding(t) == conn[t] # NoConn
Pooled(c) == \E i \in 1..Len(pool) : pool[i] = c

\* Every variable keeps its type (client.py:38-251, transport.py:22-42).
TypeOK ==
    /\ pool \in Seq(Conns)
    /\ getters \in Seq(Tasks)
    /\ pc \in [Tasks -> States]
    /\ wait \in [Tasks -> BOOLEAN]
    /\ conn \in [Tasks -> Conns \cup {NoConn}]
    /\ phase \in [Tasks -> Phases]
    /\ rid \in [Tasks -> Nat]
    /\ outcome \in [Tasks -> {"none", "returned", "raised"}]
    /\ connected \in [Conns -> BOOLEAN]
    /\ alive \in [Conns -> BOOLEAN]
    /\ inbox \in [Conns -> Seq([rid : Nat, phase : Phases])]
    /\ stream \in [Conns -> Seq([kind : {"header", "body"}, rid : Nat, ok : BOOLEAN])]
    /\ authed \in [Conns -> BOOLEAN]
    /\ closer \in {"open", "closing", "closed", "failed"}
    /\ closing \in Conns \cup {NoConn}
    /\ nextRid \in Nat \ {0}
    /\ calls \in 0..MaxCalls
    /\ cancels \in 0..MaxCancels
    /\ resets \in 0..MaxResets

\* A transport has at most one user: two tasks never hold the same one, a held
\* one is not in the queue, the queue holds it once and close() waits for none
\* of them (client.py:234-251: get and put around every request).
Exclusive ==
    /\ \A t, u \in Tasks : Holding(t) /\ conn[t] = conn[u] => t = u
    /\ \A t \in Tasks : Holding(t) => ~Pooled(conn[t]) /\ conn[t] # closing
    /\ \A i, j \in 1..Len(pool) : pool[i] = pool[j] => i = j
    /\ ~Pooled(closing)

\* After a header that carried the request's own id the next bytes on the
\* stream are the body of that same reply, cancellations, abandoned replies and
\* dying sockets notwithstanding (transport.py:125-128, wirehelper.py:164-168).
BodyIsOwn ==
    \A t \in Tasks :
        pc[t] = "body" /\ stream[conn[t]] # <<>> =>
            /\ Head(stream[conn[t]]).kind = "body"
            /\ Head(stream[conn[t]]).rid = rid[t]

\* No command is on its way to the server over a connection the server has not
\* authenticated: is_connected, which client.py:235 takes for "handshake done",
\* is set before the handshake begins (transport.py:56).
CommandsAreAuthorised ==
    \A c \in Conns : \A i \in 1..Len(inbox[c]) :
        inbox[c][i].phase = "command" => authed[c]

\* While tasks wait in get(), there are at least as many woken getters as idle
\* transports: no transport lies in the pool with every waiter asleep, although
\* woken getters can be overtaken and cancelled (client.py:234 and 251).
NoLostWakeup ==
    getters # <<>> => Len(pool) <= Cardinality({t \in Tasks : pc[t] = "woken"})

\* A transport with bytes of a request nobody waits for any more.
HolderRid(c) == {rid[t] : t \in {u \in Tasks : conn[u] = c}}
Stale(c) ==
    \/ \E i \in 1..Len(inbox[c]) : inbox[c][i].rid \notin HolderRid(c)
    \/ \E i \in 1..Len(stream[c]) : stream[c][i].rid \notin HolderRid(c)

\* Once a reply has been abandoned on a transport, by a cancelled request or by
\* wait_response=False, no later request on it is ever given a reply: it can
\* only raise, and it leaves the next stale reply behind (transport.py:125-130).
StaleNeverAnswers ==
    \A c \in Conns :
        [](Stale(c) => [](\A t \in Tasks : conn[t] = c => pc[t] # "body"))

\* A transport whose socket has died keeps its place in the queue and is never
\* connected anew: no later request on it is given a reply, not even one that
\* was buffered before (transport.py:46, 109-130, client.py:235).
DeadNeverAnswers ==
    \A c \in Conns :
        [](connected[c] /\ ~alive[c] /\ Pooled(c) =>
            [](~alive[c] /\ \A t \in Tasks : conn[t] = c => pc[t] # "body"))

\* A transport the client can still close: in the queue, in close() itself, or
\* with a request that is through the handshake and will put it back.
InReach(c) ==
    Pooled(c) \/ c = closing \/ \E t \in Tasks : conn[t] = c /\ ~Handshaking(t)

\* close() never lets go of a connection that is open.  What it has taken out of
\* the queue is down before it goes on, before it comes back and also when
\* wait_closed raises on it; all it has not come to stays in the queue, and what
\* requests put back meanwhile comes into it.  So when close() comes back the queue
\* is empty and a connection that is still open is one a request holds, or lost in
\* a handshake (client.py:78-89, 250-251, transport.py:183-188).  Its docstring has
\* no such exception.
CloseLeavesOnlyBusy ==
    [][/\ \A c \in Conns : InReach(c) /\ alive'[c] => InReach(c)'
       /\ closer' = "closed" /\ closer # "closed" => pool' = <<>>]_vars

\* Once close() has come back nobody opens a connection any more: all the queue
\* will ever hold is what requests had in use at that time, and a call that finds
\* it empty waits for one of those, or for ever (client.py:88-89, 234-251).
ClosedForGood ==
    [][closer = "closed" =>
        \A t \in Tasks : pc'[t] = "connecting" => pc[t] = "connecting"]_vars

\* The pool is a lease of transports, as module Lease has it.
L == INSTANCE Lease WITH
    Free <- "pool", Gone <- "gone",
    owner <- [c \in Conns |->
        IF Pooled(c) THEN "pool"
        ELSE IF \E t \in Tasks : conn[t] = c THEN CHOOSE t \in Tasks : conn[t] = c
        ELSE "gone"],
    busy <- {t \in Tasks : pc[t] # "idle"},
    proven <- {c \in Conns : connected[c] /\
                 (Pooled(c) \/ \E t \in Tasks : conn[t] = c /\ ~Handshaking(t))}

\* One lease at a time, and only an unfinished handshake loses a transport.
PoolIsLease == L!LeaseSpec

\* In _pool.get(): asleep, or woken and not yet run.
Getting(t) == pc[t] \in {"waiting", "woken"}

\* Out of service: lost in a handshake or taken by close().
Lost(c) == ~Pooled(c) /\ \A t \in Tasks : conn[t] # c

\* Once no newer call begins, every task in _pool.get() gets a transport, as long
\* as one is left in service: one survivor is enough for everybody (client.py:234,
\* 250-251).  While calls keep coming there is no such promise: a task that puts a
\* transport back and calls again at once takes it before the task it woke runs,
\* and that one goes to the back of the queue, time after time.
WaiterServed ==
    <>[][UNCHANGED calls]_vars =>
        \A t \in Tasks : Getting(t) ~> (~Getting(t) \/ \A c \in Conns : Lost(c))
=============================================================================
