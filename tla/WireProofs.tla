----------------------------- MODULE WireProofs -----------------------------
(***************************************************************************)
(* What is on the sockets: the framing of replies survives abandoned       *)
(* requests and dying sockets, and no command is sent before the handshake *)
(* on its connection is complete.                                          *)
(***************************************************************************)
EXTENDS ClientProofs

-----------------------------------------------------------------------------
(* Framing                                                                 *)

\* A header is followed by its own body.
InPairs(s) ==
    \A i \in 1..(Len(s) - 1) :
        s[i].kind = "header" => s[i+1].kind = "body" /\ s[i+1].rid = s[i].rid

\* The sequence does not end between a header and its body.
Whole(s) == s # <<>> => s[Len(s)].kind = "body"

\* A stream is in pairs, and whole while the socket is up.
Framed(c) == InPairs(stream[c]) /\ (alive[c] => Whole(stream[c]))

\* Nothing was sent or received before connect().
Untouched(c) == ~connected[c] => inbox[c] = <<>> /\ stream[c] = <<>> /\ ~alive[c]

\* The body that belongs to an accepted header comes next, or never.
OwnBodyNext(t) ==
    pc[t] = "body" =>
        \/ stream[conn[t]] = <<>> /\ ~alive[conn[t]]
        \/ /\ stream[conn[t]] # <<>>
           /\ stream[conn[t]][1].kind = "body"
           /\ stream[conn[t]][1].rid = rid[t]

InTouch == {"header", "body", "draining"}

\* A task inside connect() has a transport that never connected, and one inside
\* a request has one that did.
ConnectedOK(t) ==
    /\ pc[t] = "connecting" => ~connected[conn[t]] /\ phase[t] = "hello"
    /\ pc[t] \in InTouch => connected[conn[t]]
    /\ pc[t] = "draining" => phase[t] = "command"

WireInv ==
    /\ \A c \in Conns : Framed(c) /\ Untouched(c)
    /\ \A t \in Tasks : OwnBodyNext(t) /\ ConnectedOK(t)

-----------------------------------------------------------------------------
(* Authorisation                                                           *)

Elems(s) == {s[i] : i \in 1..Len(s)}

\* Every request id in use is below the next fresh one.
RidsBelow ==
    /\ \A t \in Tasks : rid[t] < nextRid
    /\ \A c \in Conns : \A m \in Elems(inbox[c]) \cup Elems(stream[c]) : m.rid < nextRid

\* A task's message on its way is of the task's phase, and a reply that accepts
\* the last message of the handshake means that the server has authenticated.
OwnReplies(t) ==
    pc[t] \in InTouch =>
        /\ \A m \in Elems(inbox[conn[t]]) : m.rid = rid[t] => m.phase = phase[t]
        /\ \A m \in Elems(stream[conn[t]]) :
              m.rid = rid[t] /\ m.ok /\ phase[t] = "saslContinue" => authed[conn[t]]

\* A connection is authenticated when its task has got to the command, and at
\* once when the server asks for no credentials.
PhaseAuthorised(t) ==
    pc[t] \in InTouch =>
        /\ phase[t] = "command" => authed[conn[t]]
        /\ ~RequiresAuth => authed[conn[t]]

\* What lies in the queue connected has been through the handshake.
PoolAuthorised == \A c \in Conns : connected[c] /\ Pooled(c) => authed[c]

AuthInv ==
    /\ CommandsAreAuthorised
    /\ RidsBelow
    /\ PoolAuthorised
    /\ \A t \in Tasks : OwnReplies(t) /\ PhaseAuthorised(t)

-----------------------------------------------------------------------------
(* What a step can do to the sockets and to the tasks at them              *)

\* Tasks but t are where they were, or woken.
OthersStill(t) ==
    \A u \in Tasks : u # t =>
        /\ conn'[u] = conn[u] /\ rid'[u] = rid[u] /\ phase'[u] = phase[u]
        /\ pc'[u] = pc[u] \/ (pc[u] = "waiting" /\ pc'[u] = "woken")

\* A task waits for a transport, or gives up waiting.
WaitStep(t) ==
    /\ OthersStill(t)
    /\ pc'[t] \notin InFlight
    /\ rid'[t] = rid[t]
    /\ UNCHANGED <<pool, conn, stream, inbox, alive, connected, authed, nextRid>>

\* A task gets a transport that has to be connected first.
FreshStep(t, c) ==
    /\ OthersStill(t)
    /\ pc'[t] = "connecting" /\ phase'[t] = "hello" /\ conn'[t] = c
    /\ rid'[t] = rid[t]
    /\ ~connected[c] /\ Pooled(c)
    /\ conn[t] = NoConn
    /\ \A u \in Tasks : conn[u] # c
    /\ \A d \in Conns : Pooled(d)' => Pooled(d)
    /\ UNCHANGED <<stream, inbox, alive, connected, authed, nextRid>>

\* A task writes a message of phase p to c.
Written(t, c, p) ==
    /\ OthersStill(t)
    /\ pc'[t] \in InTouch \ {"body"}
    /\ pc'[t] = "draining" => p = "command"
    /\ conn'[t] = c
    /\ phase'[t] = p
    /\ rid'[t] = nextRid
    /\ nextRid' = nextRid + 1
    /\ inbox' = IF alive[c] \/ pc[t] = "connecting"
                THEN [inbox EXCEPT ![c] = Append(@, Request(nextRid, p))]
                ELSE inbox
    /\ \A d \in Conns : Pooled(d)' => Pooled(d)

\* A task gets a connected transport and writes its command.
CommandStep(t, c) ==
    /\ Written(t, c, "command")
    /\ connected[c] /\ Pooled(c)
    /\ pc[t] # "connecting" /\ conn[t] = NoConn
    /\ \A u \in Tasks : conn[u] # c
    /\ UNCHANGED <<stream, alive, connected, authed>>

\* A task has connected and writes hello.
ConnectStep(t, c) ==
    /\ Written(t, c, "hello")
    /\ pc[t] = "connecting" /\ conn[t] = c
    /\ connected' = [connected EXCEPT ![c] = TRUE]
    /\ alive' = [alive EXCEPT ![c] = TRUE]
    /\ authed' = [authed EXCEPT ![c] = ~RequiresAuth]
    /\ stream' = stream

\* A task has read an accepted reply of the handshake and goes on.
ProceedStep(t, c) ==
    /\ Written(t, c, NextPhase(phase[t]))
    /\ pc[t] = "body" /\ conn[t] = c
    /\ Handshaking(t)
    /\ stream[c] # <<>> /\ Head(stream[c]).ok
    /\ stream' = [stream EXCEPT ![c] = Tail(@)]
    /\ UNCHANGED <<alive, connected, authed>>

\* A task reads the header of its own reply.
HeaderStep(t, c) ==
    /\ OthersStill(t)
    /\ pc[t] = "header" /\ pc'[t] = "body" /\ conn[t] = c
    /\ UNCHANGED <<pool, conn, rid, phase, inbox, alive, connected, authed, nextRid>>
    /\ stream[c] # <<>>
    /\ Head(stream[c]).kind = "header"
    /\ Head(stream[c]).rid = rid[t]
    /\ stream' = [stream EXCEPT ![c] = Tail(@)]

\* A call ends; what it has read is gone from the stream.  Only a call that got
\* to its command puts the transport back.
EndStep(t, c) ==
    /\ OthersStill(t)
    /\ pc[t] \in InFlight /\ pc'[t] = "idle" /\ conn[t] = c /\ conn'[t] = NoConn
    /\ rid'[t] = 0
    /\ \/ stream' = stream
       \/ stream[c] # <<>> /\ stream' = [stream EXCEPT ![c] = Tail(@)]
       \/ ~alive[c] /\ stream' = [stream EXCEPT ![c] = <<>>]
    /\ \/ \A d \in Conns : Pooled(d)' => Pooled(d)
       \/ /\ phase[t] = "command" \/ pc[t] = "draining"
          /\ \A d \in Conns : Pooled(d)' => Pooled(d) \/ d = c
    /\ UNCHANGED <<inbox, alive, connected, authed, nextRid>>

\* Nothing happens to the tasks, and transports only leave the queue.
TasksStill ==
    /\ UNCHANGED <<pc, conn, rid, phase, nextRid>>
    /\ \A d \in Conns : Pooled(d)' => Pooled(d)

IdleStep == TasksStill /\ UNCHANGED <<stream, inbox, alive, connected, authed>>

\* A socket goes down.
DownStep(c) ==
    /\ TasksStill
    /\ alive' = [alive EXCEPT ![c] = FALSE]
    /\ inbox' = [inbox EXCEPT ![c] = <<>>]
    /\ \/ stream' = stream
       \/ \E n \in 0..Len(stream[c]) : stream' = [stream EXCEPT ![c] = SubSeq(@, 1, n)]
    /\ UNCHANGED <<connected, authed>>

ServeStep(c) == TasksStill /\ Serve(c)

WireStep ==
    \/ \E t \in Tasks : WaitStep(t)
    \/ \E t \in Tasks, c \in Conns :
            \/ FreshStep(t, c) \/ CommandStep(t, c) \/ ConnectStep(t, c)
            \/ ProceedStep(t, c) \/ HeaderStep(t, c) \/ EndStep(t, c)
    \/ \E c \in Conns : DownStep(c) \/ ServeStep(c)
    \/ IdleStep

\* Taking from the front leaves nothing in the queue that was not there.
LEMMA TailPooled ==
    ASSUME TypeInv, pool # <<>>, pool' = Tail(pool)
    PROVE  /\ Head(pool) \in Conns /\ Pooled(Head(pool))
           /\ \A d \in Conns : Pooled(d)' => Pooled(d)
  <1>1. /\ Len(pool) \in Nat \ {0}
        /\ Head(pool) = pool[1] /\ Head(pool) \in Conns
        /\ Len(pool') = Len(pool) - 1
        /\ \A i \in 1..Len(pool') : pool'[i] = pool[i+1]
    BY HeadTailProperties, LenProperties DEF TypeInv, TypeOK
  <1> QED
    BY <1>1 DEF Pooled

LEMMA AppendPooled ==
    ASSUME TypeInv, NEW c \in Conns, pool' = Append(pool, c)
    PROVE  \A d \in Conns : Pooled(d)' => Pooled(d) \/ d = c
  <1> QED
    BY DEF Pooled

LEMMA SweepPooled ==
    ASSUME TypeInv, Sweep
    PROVE  \A d \in Conns : Pooled(d)' => Pooled(d)
  <1>2. PICK n \in 0..Len(pool) :
          pool' = <<>> \/ (n < Len(pool) /\ pool' = SubSeq(pool, n + 2, Len(pool)))
    BY DEF Sweep
  <1>3. CASE pool' = <<>>
    BY <1>3 DEF Pooled
  <1>4. CASE n < Len(pool) /\ pool' = SubSeq(pool, n + 2, Len(pool))
    <2>2. /\ Len(pool') = IF n + 2 <= Len(pool) THEN Len(pool) - (n+2) + 1 ELSE 0
          /\ \A i \in 1..(Len(pool) - (n+2) + 1) : pool'[i] = pool[(n+2) + i - 1]
      BY <1>4
    <2>3. \A i \in 1..Len(pool') : pool'[i] = pool[n+1+i] /\ n+1+i \in 1..Len(pool)
      BY <2>2
    <2> QED
      BY <2>3 DEF Pooled
  <1> QED
    BY <1>2, <1>3, <1>4

\* The transport a task has just taken was nobody's.
LEMMA TakeWire ==
    ASSUME TypeInv, Exclusive, NEW t \in Tasks, NEW at \in {"header", "draining"},
           pc[t] \in {"idle", "woken"}, Take(t, at),
           UNCHANGED <<stream, alive, connected, authed>>
    PROVE  \E c \in Conns : FreshStep(t, c) \/ CommandStep(t, c)
  <1>1. /\ pool # <<>> /\ pool' = Tail(pool) /\ Head(pool) \in Conns
        /\ conn' = [conn EXCEPT ![t] = Head(pool)]
        /\ \A u \in Tasks : u # t => pc'[u] = pc[u]
    BY TakeFacts
  <1>2. Pooled(Head(pool)) /\ \A d \in Conns : Pooled(d)' => Pooled(d)
    BY <1>1, TailPooled
  <1> PICK c \in Conns : c = Head(pool)
    BY <1>1
  <1>3. \A u \in Tasks : conn[u] # c
    BY <1>2, ConnsAssumption DEF Exclusive, Holding
  <1>7. pc[t] # "connecting" /\ conn[t] = NoConn
    BY DEF TypeInv, HoldOK, InFlight
  <1>4. conn'[t] = c /\ \A u \in Tasks : u # t => conn'[u] = conn[u]
    BY <1>1 DEF TypeInv, TypeOK
  <1>5. CASE connected[c]
    <2>1. /\ phase' = [phase EXCEPT ![t] = "command"]
          /\ rid' = [rid EXCEPT ![t] = nextRid]
          /\ nextRid' = nextRid + 1
          /\ inbox' = IF alive[c] \/ pc[t] = "connecting"
                      THEN [inbox EXCEPT ![c] = Append(@, Request(nextRid, "command"))]
                      ELSE inbox
          /\ pc' = [pc EXCEPT ![t] = at]
      BY <1>5 DEF Take, Transmit
    <2>2. Written(t, c, "command")
      BY <1>1, <1>2, <1>4, <2>1 DEF Written, OthersStill, InTouch, TypeInv, TypeOK
    <2> QED
      BY <1>2, <1>3, <1>5, <1>7, <2>2 DEF CommandStep
  <1>6. CASE ~connected[c]
    <2>1. /\ pc' = [pc EXCEPT ![t] = "connecting"]
          /\ phase' = [phase EXCEPT ![t] = "hello"]
          /\ UNCHANGED <<rid, nextRid, inbox>>
      BY <1>6 DEF Take
    <2>2. FreshStep(t, c)
      BY <1>1, <1>2, <1>3, <1>4, <1>6, <1>7, <2>1 DEF FreshStep, OthersStill, TypeInv, TypeOK
    <2> QED
      BY <2>2
  <1> QED
    BY <1>5, <1>6

LEMMA ReleaseWire ==
    ASSUME TypeInv, NEW t \in Tasks, NEW c \in Conns, c = conn[t], pc[t] \in InFlight,
           phase[t] = "command" \/ pc[t] = "draining", phase' = phase,
           NEW r \in {"returned", "raised"}, Release(t, r),
           \/ stream' = stream
           \/ stream[c] # <<>> /\ stream' = [stream EXCEPT ![c] = Tail(@)]
           \/ ~alive[c] /\ stream' = [stream EXCEPT ![c] = <<>>],
           UNCHANGED <<inbox, alive, connected, authed, nextRid>>
    PROVE  EndStep(t, c)
  <1>1. pc[t] # "waiting"
    BY DEF InFlight
  <1>2. /\ pool' = Append(pool, conn[t])
        /\ conn' = [conn EXCEPT ![t] = NoConn]
        /\ pc'[t] = "idle"
        /\ \A u \in Tasks : u # t => pc'[u] = pc[u]
                                  \/ (pc[u] = "waiting" /\ pc'[u] = "woken")
    BY <1>1, ReleaseFacts
  <1>3. rid' = [rid EXCEPT ![t] = 0]
    BY DEF Release
  <1>4. \A d \in Conns : Pooled(d)' => Pooled(d) \/ d = c
    BY <1>2, AppendPooled
  <1> QED
    BY <1>2, <1>3, <1>4 DEF EndStep, OthersStill, TypeInv, TypeOK

LEMMA RaiseWire ==
    ASSUME TypeInv, NEW t \in Tasks, NEW c \in Conns, c = conn[t], pc[t] \in InFlight,
           Raise(t),
           \/ stream' = stream
           \/ stream[c] # <<>> /\ stream' = [stream EXCEPT ![c] = Tail(@)]
           \/ ~alive[c] /\ stream' = [stream EXCEPT ![c] = <<>>],
           UNCHANGED <<inbox, alive, connected, authed, nextRid>>
    PROVE  EndStep(t, c)
  <1>1. CASE ~Handshaking(t) /\ Release(t, "raised")
    <2>1. phase[t] = "command" /\ phase' = phase
      BY <1>1 DEF Handshaking, Raise, TypeInv, TypeOK
    <2> QED
      BY <1>1, <2>1, ReleaseWire
  <1>2. CASE Lose(t)
    <2>1. \A d \in Conns : Pooled(d)' => Pooled(d)
      BY <1>2 DEF Lose, poolVars, Pooled
    <2> QED
      BY <1>2, <2>1 DEF Lose, Raise, EndStep, OthersStill, TypeInv, TypeOK
  <1> QED
    BY <1>1, <1>2 DEF Raise

\* A task that is about to wait, or gives up waiting.
LEMMA WaitWire ==
    ASSUME TypeInv, NEW t \in Tasks, pc'[t] \notin InFlight,
           \A u \in Tasks : u # t => pc'[u] = pc[u] \/ (pc[u] = "waiting" /\ pc'[u] = "woken"),
           UNCHANGED <<pool, conn, phase, rid, stream, inbox, alive, connected, authed, nextRid>>
    PROVE  WaitStep(t)
  BY DEF WaitStep, OthersStill

LEMMA StartWire ==
    ASSUME TypeInv, Exclusive, NEW t \in Tasks, Start(t) \/ Resume(t)
    PROVE  WireStep
  <1>1. /\ pc[t] \in {"idle", "woken"}
        /\ UNCHANGED <<stream, alive, connected, authed>>
    BY DEF Start, Resume, sockVars
  <1>2. PICK at \in {"header", "draining"} :
          \/ Take(t, at)
          \/ /\ pc' = [pc EXCEPT ![t] = "waiting"]
             /\ UNCHANGED <<pool, conn, phase, rid, nextRid, inbox>>
    <2>1. CASE Start(t)
      <3>1. PICK w \in WaitModes :
              \/ Take(t, Await(w))
              \/ /\ pc' = [pc EXCEPT ![t] = "waiting"]
                 /\ UNCHANGED <<pool, conn, phase, rid, nextRid, inbox>>
        BY <2>1 DEF Start
      <3>2. PICK at \in {"header", "draining"} : at = Await(w)
        BY DEF Await
      <3> QED
        BY <3>1, <3>2
    <2>2. CASE Resume(t)
      <3>1. PICK at \in {"header", "draining"} : at = Await(wait[t])
        BY DEF Await
      <3> QED
        BY <2>2, <3>1 DEF Resume
    <2> QED
      BY <2>1, <2>2
  <1>3. CASE Take(t, at)
    BY <1>1, <1>3, TakeWire DEF WireStep
  <1>4. CASE /\ pc' = [pc EXCEPT ![t] = "waiting"]
             /\ UNCHANGED <<pool, conn, phase, rid, nextRid, inbox>>
    <2>1. WaitStep(t)
      BY <1>1, <1>4, WaitWire DEF InFlight
    <2> QED
      BY <2>1 DEF WireStep
  <1> QED
    BY <1>2, <1>3, <1>4

LEMMA CancelGetWire == ASSUME TypeInv, NEW t \in Tasks, CancelGet(t) PROVE WireStep
  <1>1. UNCHANGED <<pool, conn, phase, rid, stream, inbox, alive, connected, authed, nextRid>>
    BY DEF CancelGet, localVars, wireVars, sockVars
  <1>2. /\ pc'[t] = "idle"
        /\ \A u \in Tasks : u # t => pc'[u] = pc[u] \/ (pc[u] = "waiting" /\ pc'[u] = "woken")
    <2>1. CASE pc' = [pc EXCEPT ![t] = "idle"]
      BY <2>1 DEF TypeInv, TypeOK
    <2>2. CASE pc[t] = "woken" /\ WakeNext([pc EXCEPT ![t] = "idle"])
      <3> DEFINE p == [pc EXCEPT ![t] = "idle"]
      <3>1. /\ p \in [Tasks -> States]
            /\ \A u \in Tasks : pc[u] = "waiting" => p[u] = "waiting"
        BY <2>2 DEF TypeInv, TypeOK, States
      <3>2. \A u \in Tasks : pc'[u] = p[u] \/ (p[u] = "waiting" /\ pc'[u] = "woken")
        BY <2>2, <3>1, WakeNextFacts DEF TypeInv, TypeOK
      <3> QED
        BY <3>2 DEF TypeInv, TypeOK
    <2> QED
      BY <2>1, <2>2 DEF CancelGet
  <1>3. WaitStep(t)
    BY <1>1, <1>2, WaitWire DEF InFlight
  <1> QED
    BY <1>3 DEF WireStep

LEMMA ConnectWire == ASSUME TypeInv, NEW t \in Tasks, Connect(t) PROVE WireStep
  <1>0. pc[t] = "connecting" /\ conn[t] \in Conns
    BY DEF Connect, TypeInv, TypeOK, HoldOK, InFlight
  <1> PICK c \in Conns : c = conn[t]
    BY <1>0
  <1>1. /\ connected' = [connected EXCEPT ![c] = TRUE]
        /\ alive' = [alive EXCEPT ![c] = TRUE]
        /\ authed' = [authed EXCEPT ![c] = ~RequiresAuth]
        /\ UNCHANGED <<pool, conn, stream>>
        /\ phase' = [phase EXCEPT ![t] = "hello"]
        /\ rid' = [rid EXCEPT ![t] = nextRid]
        /\ nextRid' = nextRid + 1
        /\ inbox' = [inbox EXCEPT ![c] = Append(@, Request(nextRid, "hello"))]
        /\ pc' = [pc EXCEPT ![t] = "header"]
    BY DEF Connect, Transmit, poolVars
  <1>2. Written(t, c, "hello")
    BY <1>0, <1>1 DEF Written, OthersStill, InTouch, Pooled, TypeInv, TypeOK
  <1> QED
    BY <1>0, <1>1, <1>2 DEF WireStep, ConnectStep

LEMMA ReadHeaderWire == ASSUME TypeInv, NEW t \in Tasks, ReadHeader(t) PROVE WireStep
  <1>0. pc[t] = "header" /\ conn[t] \in Conns
    BY DEF ReadHeader, TypeInv, TypeOK, HoldOK, InFlight
  <1> PICK c \in Conns : c = conn[t]
    BY <1>0
  <1>1. HeaderStep(t, c)
    BY <1>0 DEF ReadHeader, HeaderStep, OthersStill, TypeInv, TypeOK, poolVars, localVars,
       sockVars
  <1> QED
    BY <1>1 DEF WireStep

LEMMA ReadBodyWire == ASSUME TypeInv, NEW t \in Tasks, ReadBody(t) PROVE WireStep
  <1>0. pc[t] = "body" /\ pc[t] \in InFlight /\ conn[t] \in Conns
    BY DEF ReadBody, TypeInv, TypeOK, HoldOK, InFlight
  <1> PICK c \in Conns : c = conn[t]
    BY <1>0
  <1>1. /\ stream[c] # <<>>
        /\ stream' = [stream EXCEPT ![c] = Tail(@)]
        /\ UNCHANGED <<alive, connected, authed>>
    BY DEF ReadBody, sockVars
  <1>2. CASE Raise(t) /\ UNCHANGED <<nextRid, inbox>>
    BY <1>0, <1>1, <1>2, RaiseWire DEF WireStep
  <1>3. CASE ~Handshaking(t) /\ Release(t, "returned") /\ UNCHANGED <<phase, nextRid, inbox>>
    BY <1>0, <1>1, <1>3, ReleaseWire DEF WireStep, Handshaking
  <1>4. CASE /\ Head(stream[c]).ok /\ Handshaking(t)
             /\ Transmit(t, c, NextPhase(phase[t]),
                         IF NextPhase(phase[t]) = "command" THEN Await(wait[t]) ELSE "header")
             /\ UNCHANGED <<poolVars, conn, outcome>>
    <2>1. PICK p \in Phases : p = NextPhase(phase[t])
      BY DEF NextPhase, Phases
    <2>2. PICK at \in InTouch \ {"body"} :
              /\ at = IF p = "command" THEN Await(wait[t]) ELSE "header"
              /\ at = "draining" => p = "command"
      BY DEF InTouch, Await
    <2>3. Written(t, c, p)
      BY <1>4, <2>1, <2>2 DEF Transmit, Written, OthersStill, Pooled, poolVars, TypeInv, TypeOK
    <2>4. ProceedStep(t, c)
      BY <1>0, <1>1, <1>4, <2>1, <2>3 DEF ProceedStep
    <2> QED
      BY <2>4 DEF WireStep
  <1> QED
    BY <1>2, <1>3, <1>4 DEF ReadBody

LEMMA EndWire ==
    ASSUME TypeInv, NEW t \in Tasks,
           \/ ConnectFails(t) \/ RejectHeader(t) \/ Drained(t) \/ SocketFails(t) \/ CancelCall(t)
    PROVE  WireStep
  <1>0. pc[t] \in InFlight /\ conn[t] \in Conns
    BY DEF ConnectFails, RejectHeader, Drained, SocketFails, CancelCall, TypeInv, TypeOK, HoldOK,
       InFlight
  <1> PICK c \in Conns : c = conn[t]
    BY <1>0
  <1>1. UNCHANGED <<inbox, alive, connected, authed, nextRid>>
    BY DEF ConnectFails, RejectHeader, Drained, SocketFails, CancelCall, wireVars, sockVars
  <1>2. \/ stream' = stream
        \/ stream[c] # <<>> /\ stream' = [stream EXCEPT ![c] = Tail(@)]
        \/ ~alive[c] /\ stream' = [stream EXCEPT ![c] = <<>>]
    BY DEF ConnectFails, RejectHeader, Drained, SocketFails, CancelCall, wireVars
  <1>3. CASE Drained(t)
    <2>1. Release(t, "returned") /\ phase' = phase /\ pc[t] = "draining"
      BY <1>3 DEF Drained
    <2> QED
      BY <1>0, <1>1, <1>2, <2>1, ReleaseWire DEF WireStep
  <1>4. CASE Raise(t)
    BY <1>0, <1>1, <1>2, <1>4, RaiseWire DEF WireStep
  <1> QED
    BY <1>3, <1>4 DEF ConnectFails, RejectHeader, SocketFails, CancelCall

LEMMA NextWire ==
    ASSUME TypeInv, Exclusive, [Next]_vars
    PROVE  WireStep
  <1>1. CASE UNCHANGED vars
    BY <1>1 DEF vars, WireStep, IdleStep, TasksStill, Pooled
  <1>2. CASE CloseStart
    BY <1>2, SweepPooled DEF CloseStart, WireStep, IdleStep, TasksStill, localVars, wireVars,
       sockVars
  <1>3. CASE CloseNext
    <2>1. PICK c \in Conns : c = closing
      BY <1>3 DEF CloseNext, TypeInv, TypeOK, HoldOK
    <2>2. DownStep(c)
      BY <1>3, <2>1, SweepPooled DEF CloseNext, DownStep, TasksStill, localVars
    <2> QED
      BY <2>2 DEF WireStep
  <1>4. CASE CloseRaises
    BY <1>4 DEF CloseRaises, WireStep, IdleStep, TasksStill, Pooled, poolVars, localVars,
       wireVars, sockVars
  <1>5. ASSUME NEW c \in Conns, Serve(c) PROVE WireStep
    BY <1>5 DEF Serve, ServeStep, WireStep, TasksStill, Pooled, poolVars, localVars
  <1>6. ASSUME NEW c \in Conns, Reset(c) PROVE WireStep
    BY <1>6 DEF Reset, DownStep, WireStep, TasksStill, Pooled, poolVars, localVars
  <1> QED
    BY <1>1, <1>2, <1>3, <1>4, <1>5, <1>6, StartWire, CancelGetWire, ConnectWire, ReadHeaderWire,
       ReadBodyWire, EndWire DEF Next, TaskStep

-----------------------------------------------------------------------------
(* Streams                                                                 *)

Units == [kind : {"header", "body"}, rid : Nat, ok : BOOLEAN]

LEMMA StreamsType == TypeInv => \A c \in Conns : stream[c] \in Seq(Units)
  BY DEF TypeInv, TypeOK, Units

LEMMA TailInPairs ==
    ASSUME NEW U, NEW s \in Seq(U), s # <<>>, InPairs(s)
    PROVE  /\ InPairs(Tail(s))
           /\ Whole(s) => Whole(Tail(s))
           /\ s[1].kind = "header" =>
                 \/ Tail(s) = <<>> /\ ~Whole(s)
                 \/ /\ Tail(s) # <<>>
                    /\ Tail(s)[1].kind = "body"
                    /\ Tail(s)[1].rid = s[1].rid
  <1> DEFINE v == Tail(s)
  <1>1. /\ Len(s) \in Nat \ {0}
        /\ Len(v) = Len(s) - 1
        /\ \A i \in 1..Len(v) : v[i] = s[i+1]
        /\ v = <<>> <=> Len(v) = 0
    BY HeadTailProperties, EmptySeq
  <1> HIDE DEF v
  <1>2. InPairs(v)
    <2> SUFFICES ASSUME NEW i \in 1..(Len(v) - 1), v[i].kind = "header"
                 PROVE  v[i+1].kind = "body" /\ v[i+1].rid = v[i].rid
      BY DEF InPairs
    <2>1. i \in 1..Len(v) /\ i+1 \in 1..Len(v) /\ i+1 \in 1..(Len(s) - 1)
      BY <1>1
    <2>2. v[i] = s[i+1] /\ v[i+1] = s[(i+1)+1]
      BY <1>1
    <2> QED
      BY <2>1, <2>2 DEF InPairs
  <1>3. Whole(s) => Whole(v)
    <2> SUFFICES ASSUME Whole(s), v # <<>> PROVE v[Len(v)].kind = "body"
      BY DEF Whole
    <2> QED
      BY <1>1 DEF Whole
  <1>4. ASSUME s[1].kind = "header"
        PROVE  \/ v = <<>> /\ ~Whole(s)
               \/ /\ v # <<>>
                  /\ v[1].kind = "body"
                  /\ v[1].rid = s[1].rid
    <2>1. CASE Len(s) = 1
      BY <1>1, <1>4, <2>1 DEF Whole
    <2>2. CASE Len(s) # 1
      <3>1. 1 \in 1..(Len(s) - 1) /\ 1 \in 1..Len(v) /\ v # <<>>
        BY <1>1, <2>2
      <3>2. v[1] = s[1+1]
        BY <1>1, <3>1
      <3> QED
        BY <1>4, <3>1, <3>2 DEF InPairs
    <2> QED
      BY <2>1, <2>2
  <1> QED
    BY <1>2, <1>3, <1>4 DEF v

LEMMA PrefixInPairs ==
    ASSUME NEW U, NEW s \in Seq(U), InPairs(s), NEW n \in 0..Len(s)
    PROVE  InPairs(SubSeq(s, 1, n))
  <1>1. Len(s) \in Nat /\ \A i \in 1..Len(s) : s[i] \in U
    OBVIOUS
  <1> QED
    BY <1>1 DEF InPairs

\* The first element of a prefix is the first element.
LEMMA PrefixHead ==
    ASSUME NEW U, NEW s \in Seq(U), NEW n \in 0..Len(s)
    PROVE  SubSeq(s, 1, n) = <<>> \/ (SubSeq(s, 1, n)[1] = s[1] /\ s # <<>>)
  <1> QED
    OBVIOUS

LEMMA ReplyInPairs ==
    ASSUME NEW s \in Seq(Units), InPairs(s), Whole(s),
           NEW r \in Nat, NEW ok \in BOOLEAN
    PROVE  LET v == s \o <<Header(r, ok), Body(r, ok)>> IN
           /\ InPairs(v)
           /\ Whole(v)
           /\ s # <<>> => v # <<>> /\ v[1] = s[1]
  <1> DEFINE h == Header(r, ok)
             b == Body(r, ok)
             v == s \o <<h, b>>
             n == Len(s)
  <1>1. h \in Units /\ b \in Units /\ h.kind = "header" /\ b.kind = "body" /\ b.rid = h.rid
    BY DEF Header, Body, Units
  <1> HIDE DEF h, b
  <1>2. n \in Nat /\ (s # <<>> => n # 0)
    OBVIOUS
  <1>4. /\ Len(v) = n + 2
        /\ \A i \in 1..n : v[i] = s[i]
        /\ v[n+1] = h
        /\ v[n+2] = b
    <2> QED
      BY <1>2
  <1> HIDE DEF v, n
  <1>5. Whole(v)
    BY <1>1, <1>2, <1>4 DEF Whole
  <1>6. \A i \in 1..(Len(v) - 1) : v[i].kind = "header" =>
            v[i+1].kind = "body" /\ v[i+1].rid = v[i].rid
    <2> SUFFICES ASSUME NEW i \in 1..(n+1), v[i].kind = "header"
                 PROVE  v[i+1].kind = "body" /\ v[i+1].rid = v[i].rid
      BY <1>2, <1>4
    <2>1. CASE i = n+1
      BY <1>1, <1>2, <1>4, <2>1
    <2>2. CASE i = n
      <3>1. s # <<>> /\ v[i] = s[n]
        BY <1>2, <1>4, <2>2 DEF n
      <3>2. s[n].kind = "body"
        BY <3>1 DEF Whole, n
      <3> QED
        BY <2>2, <3>1, <3>2
    <2>3. CASE i < n
      <3>1. i \in 1..(n-1) /\ i \in 1..n /\ i+1 \in 1..n
        BY <1>2, <2>3
      <3> QED
        BY <1>4, <3>1 DEF InPairs, n
    <2> QED
      BY <1>2, <2>1, <2>2, <2>3
  <1>7. s # <<>> => v # <<>> /\ v[1] = s[1]
    BY <1>2, <1>4
  <1> QED
    BY <1>5, <1>6, <1>7 DEF InPairs, v, h, b

-----------------------------------------------------------------------------
(* The framing is kept                                                     *)

\* Two tasks at the sockets are at different ones.
LEMMA Apart ==
    ASSUME TypeInv, Exclusive, NEW t \in Tasks, NEW u \in Tasks, u # t,
           pc[u] \in InFlight
    PROVE  conn[u] \in Conns /\ conn[u] # conn[t]
  <1>1. conn[u] \in Conns /\ Holding(u)
    BY ConnsAssumption DEF TypeInv, TypeOK, HoldOK, Holding
  <1> QED
    BY <1>1 DEF Exclusive

LEMMA SocketsFramed ==
    ASSUME TypeInv, Exclusive, WireInv, WireStep, NEW d \in Conns
    PROVE  Framed(d)' /\ Untouched(d)'
  <1> PICK s \in Seq(Units) : s = stream[d]
    BY StreamsType
  <1> PICK v : v = stream'[d]
    OBVIOUS
  <1>0. /\ InPairs(s) /\ (alive[d] => Whole(s))
        /\ ~connected[d] => inbox[d] = <<>> /\ s = <<>> /\ ~alive[d]
    BY DEF WireInv, Framed, Untouched
  <1>1. InPairs(<<>>) /\ Whole(<<>>)
    BY DEF InPairs, Whole
  <1> SUFFICES /\ InPairs(v) /\ (alive'[d] => Whole(v))
               /\ ~connected'[d] => inbox'[d] = <<>> /\ v = <<>> /\ ~alive'[d]
    BY DEF Framed, Untouched
  <1>2. CASE /\ v = s \/ v = <<>> \/ (s # <<>> /\ v = Tail(s))
             /\ alive'[d] = alive[d] /\ connected'[d] = connected[d]
             /\ inbox'[d] = inbox[d] \/ connected[d]
    BY <1>0, <1>1, <1>2, TailInPairs
  <1>3. ASSUME NEW t \in Tasks, NEW c \in Conns,
               FreshStep(t, c) \/ HeaderStep(t, c) \/ EndStep(t, c) \/ CommandStep(t, c)
                  \/ ProceedStep(t, c)
        PROVE  /\ v = s \/ v = <<>> \/ (s # <<>> /\ v = Tail(s))
               /\ alive'[d] = alive[d] /\ connected'[d] = connected[d]
               /\ inbox'[d] = inbox[d] \/ connected[d]
    <2>1. /\ v = s \/ v = <<>> \/ (s # <<>> /\ v = Tail(s))
          /\ alive'[d] = alive[d] /\ connected'[d] = connected[d]
      BY <1>3 DEF FreshStep, HeaderStep, EndStep, CommandStep, ProceedStep, TypeInv, TypeOK
    <2>2. CASE CommandStep(t, c) \/ ProceedStep(t, c)
      <3>1. connected[c]
        BY <2>2 DEF CommandStep, ProceedStep, WireInv, ConnectedOK, InTouch
      <3>2. inbox'[d] = inbox[d] \/ d = c
        BY <2>2 DEF CommandStep, ProceedStep, Written, TypeInv, TypeOK
      <3> QED
        BY <2>1, <3>1, <3>2
    <2>3. CASE FreshStep(t, c) \/ HeaderStep(t, c) \/ EndStep(t, c)
      BY <2>1, <2>3 DEF FreshStep, HeaderStep, EndStep
    <2> QED
      BY <1>3, <2>2, <2>3
  <1>4. ASSUME NEW t \in Tasks, NEW c \in Conns, ConnectStep(t, c)
        PROVE  /\ InPairs(v) /\ (alive'[d] => Whole(v))
               /\ ~connected'[d] => inbox'[d] = <<>> /\ v = <<>> /\ ~alive'[d]
    <2>1. CASE d = c
      <3>1. ~connected[c]
        BY <1>4 DEF ConnectStep, WireInv, ConnectedOK
      <3> QED
        BY <1>0, <1>1, <1>4, <2>1, <3>1 DEF ConnectStep, TypeInv, TypeOK
    <2>2. CASE d # c
      BY <1>0, <1>4, <2>2 DEF ConnectStep, Written
    <2> QED
      BY <2>1, <2>2
  <1>5. ASSUME NEW c \in Conns, DownStep(c)
        PROVE  /\ InPairs(v) /\ (alive'[d] => Whole(v))
               /\ ~connected'[d] => inbox'[d] = <<>> /\ v = <<>> /\ ~alive'[d]
    <2>1. CASE d = c
      <3>1. ~alive'[d] /\ inbox'[d] = <<>> /\ connected'[d] = connected[d]
        BY <1>5, <2>1 DEF DownStep, TypeInv, TypeOK
      <3>2. PICK n \in 0..Len(s) : v = s \/ v = SubSeq(s, 1, n)
        <4>1. 0 \in 0..Len(s)
          OBVIOUS
        <4> QED
          BY <1>5, <2>1, <4>1 DEF DownStep, TypeInv, TypeOK
      <3>3. InPairs(v)
        BY <1>0, <3>2, PrefixInPairs
      <3>4. s = <<>> => v = <<>>
        BY <3>2
      <3> QED
        BY <1>0, <3>1, <3>3, <3>4
    <2>2. CASE d # c
      BY <1>0, <1>5, <2>2 DEF DownStep, TypeInv, TypeOK
    <2> QED
      BY <2>1, <2>2
  <1>6. ASSUME NEW c \in Conns, ServeStep(c)
        PROVE  /\ InPairs(v) /\ (alive'[d] => Whole(v))
               /\ ~connected'[d] => inbox'[d] = <<>> /\ v = <<>> /\ ~alive'[d]
    <2>1. CASE d = c
      <3>1. alive[d] /\ alive' = alive /\ connected' = connected
        BY <1>6, <2>1 DEF ServeStep, Serve, sockVars
      <3>2. PICK r \in Nat, ok \in BOOLEAN : v = s \o <<Header(r, ok), Body(r, ok)>>
        <4>1. inbox[d] \in Seq([rid : Nat, phase : Phases]) /\ inbox[d] # <<>>
          BY <1>6, <2>1 DEF ServeStep, Serve, TypeInv, TypeOK
        <4>2. Head(inbox[d]) \in [rid : Nat, phase : Phases]
          BY <4>1, HeadTailProperties
        <4>3. Head(inbox[d]).rid \in Nat
          BY <4>2
        <4> QED
          BY <1>6, <2>1, <4>3 DEF ServeStep, Serve, TypeInv, TypeOK
      <3> QED
        BY <1>0, <3>1, <3>2, ReplyInPairs
    <2>2. CASE d # c
      BY <1>0, <1>6, <2>2 DEF ServeStep, Serve, sockVars
    <2> QED
      BY <2>1, <2>2
  <1>7. CASE IdleStep \/ \E t \in Tasks : WaitStep(t)
    BY <1>0, <1>7 DEF IdleStep, WaitStep
  <1> QED
    BY <1>2, <1>3, <1>4, <1>5, <1>6, <1>7 DEF WireStep

\* A task that did not move keeps its place in its stream.
LEMMA StillInPlace ==
    ASSUME TypeInv, Exclusive, WireInv, NEW u \in Tasks,
           pc[u] \in InFlight, conn'[u] = conn[u], rid'[u] = rid[u], phase'[u] = phase[u],
           pc'[u] = pc[u],
           connected'[conn[u]] = connected[conn[u]],
           \/ stream'[conn[u]] = stream[conn[u]] /\ alive'[conn[u]] = alive[conn[u]]
           \/ /\ ~alive'[conn[u]]
              /\ \/ stream'[conn[u]] = stream[conn[u]]
                 \/ \E n \in 0..Len(stream[conn[u]]) :
                        stream'[conn[u]] = SubSeq(stream[conn[u]], 1, n)
           \/ /\ alive[conn[u]]
              /\ \E r \in Nat, ok \in BOOLEAN :
                    stream'[conn[u]] = stream[conn[u]] \o <<Header(r, ok), Body(r, ok)>>
    PROVE  OwnBodyNext(u)' /\ ConnectedOK(u)'
  <1>1. conn[u] \in Conns
    BY DEF TypeInv, TypeOK, HoldOK
  <1> PICK c \in Conns : c = conn[u]
    BY <1>1
  <1> PICK s \in Seq(Units) : s = stream[c]
    BY StreamsType
  <1> PICK v : v = stream'[c]
    OBVIOUS
  <1>2. ConnectedOK(u)'
    BY DEF WireInv, ConnectedOK
  <1>3. pc[u] = "body" =>
          \/ s = <<>> /\ ~alive[c]
          \/ s # <<>> /\ s[1].kind = "body" /\ s[1].rid = rid[u]
    BY DEF WireInv, OwnBodyNext
  <1>4. SUFFICES ASSUME pc[u] = "body"
                 PROVE  \/ v = <<>> /\ ~alive'[c]
                        \/ v # <<>> /\ v[1].kind = "body" /\ v[1].rid = rid[u]
    BY <1>2 DEF OwnBodyNext
  <1>5. CASE v = s /\ alive'[c] = alive[c]
    BY <1>3, <1>4, <1>5
  <1>6. CASE ~alive'[c] /\ (v = s \/ \E n \in 0..Len(s) : v = SubSeq(s, 1, n))
    <2> QED
      BY <1>3, <1>4, <1>6
  <1>7. CASE alive[c] /\ \E r \in Nat, ok \in BOOLEAN : v = s \o <<Header(r, ok), Body(r, ok)>>
    <2>1. PICK r \in Nat, ok \in BOOLEAN : v = s \o <<Header(r, ok), Body(r, ok)>>
      BY <1>7
    <2> DEFINE w == s \o <<Header(r, ok), Body(r, ok)>>
    <2>3. s # <<>> => w # <<>> /\ w[1] = s[1]
      OBVIOUS
    <2> QED
      BY <1>3, <1>4, <1>7, <2>1, <2>3
  <1> QED
    BY <1>5, <1>6, <1>7

\* The task that makes the step.
LEMMA ActorFramed ==
    ASSUME TypeInv, TypeInv', Exclusive, WireInv, NEW t \in Tasks, NEW c \in Conns,
           \/ FreshStep(t, c) \/ CommandStep(t, c) \/ ConnectStep(t, c)
           \/ ProceedStep(t, c) \/ HeaderStep(t, c) \/ EndStep(t, c)
    PROVE  OwnBodyNext(t)' /\ ConnectedOK(t)'
  <1>1. CASE EndStep(t, c)
    BY <1>1 DEF EndStep, InFlight, InTouch, OwnBodyNext, ConnectedOK
  <1>2. CASE FreshStep(t, c)
    BY <1>2 DEF FreshStep, InTouch, OwnBodyNext, ConnectedOK
  <1>3. CASE CommandStep(t, c) \/ ConnectStep(t, c) \/ ProceedStep(t, c)
    <2>1. /\ pc'[t] \in InTouch \ {"body"} /\ conn'[t] = c
          /\ pc'[t] = "draining" => phase'[t] = "command"
      BY <1>3 DEF CommandStep, ConnectStep, ProceedStep, Written
    <2>2. connected'[c]
      BY <1>3 DEF CommandStep, ConnectStep, ProceedStep, WireInv, ConnectedOK, InTouch, TypeInv,
         TypeOK
    <2> QED
      BY <2>1, <2>2 DEF InTouch, OwnBodyNext, ConnectedOK
  <1>4. CASE HeaderStep(t, c)
    <2>1. PICK s \in Seq(Units) : s = stream[c]
      BY StreamsType
    <2>2. PICK v : v = stream'[c]
      OBVIOUS
    <2>3. /\ s # <<>> /\ Head(s).kind = "header" /\ Head(s).rid = rid[t] /\ v = Tail(s)
          /\ pc[t] = "header" /\ pc'[t] = "body" /\ conn[t] = c /\ conn'[t] = c
          /\ rid'[t] = rid[t] /\ alive' = alive /\ connected' = connected
      BY <1>4, <2>1, <2>2 DEF HeaderStep, TypeInv, TypeOK
    <2>4. Head(s) = s[1] /\ InPairs(s) /\ (alive[c] => Whole(s)) /\ connected[c]
      BY <2>1, <2>3, HeadTailProperties DEF WireInv, Framed, ConnectedOK, InTouch
    <2>5. \/ v = <<>> /\ ~Whole(s)
          \/ v # <<>> /\ v[1].kind = "body" /\ v[1].rid = s[1].rid
      BY <2>3, <2>4, TailInPairs
    <2> QED
      BY <2>2, <2>3, <2>4, <2>5 DEF OwnBodyNext, ConnectedOK
  <1> QED
    BY <1>1, <1>2, <1>3, <1>4

\* A task beside the one that makes the step.
LEMMA OtherFramed ==
    ASSUME TypeInv, Exclusive, WireInv, NEW t \in Tasks, NEW c \in Conns,
           \/ FreshStep(t, c) \/ CommandStep(t, c) \/ ConnectStep(t, c)
           \/ ProceedStep(t, c) \/ HeaderStep(t, c) \/ EndStep(t, c),
           NEW u \in Tasks, u # t
    PROVE  OwnBodyNext(u)' /\ ConnectedOK(u)'
  <1>1. /\ conn'[u] = conn[u] /\ rid'[u] = rid[u] /\ phase'[u] = phase[u]
        /\ pc'[u] = pc[u] \/ (pc[u] = "waiting" /\ pc'[u] = "woken")
    BY DEF FreshStep, CommandStep, ConnectStep, ProceedStep, HeaderStep, EndStep, Written,
       OthersStill
  <1>2. CASE pc[u] \notin InFlight
    BY <1>1, <1>2 DEF InFlight, InTouch, OwnBodyNext, ConnectedOK
  <1>3. CASE pc[u] \in InFlight
    <2>1. conn[u] \in Conns /\ conn[u] # conn[t]
      BY <1>3, Apart
    <2>2. pc'[u] = pc[u]
      BY <1>1, <1>3 DEF InFlight
    <2>3. conn[u] # c
      BY <2>1 DEF FreshStep, CommandStep, ConnectStep, ProceedStep, HeaderStep, EndStep
    <2>4. /\ stream'[conn[u]] = stream[conn[u]] /\ alive'[conn[u]] = alive[conn[u]]
          /\ connected'[conn[u]] = connected[conn[u]]
      BY <2>1, <2>3 DEF FreshStep, CommandStep, ConnectStep, ProceedStep, HeaderStep, EndStep,
         TypeInv, TypeOK
    <2> QED
      BY <1>1, <1>3, <2>2, <2>4, StillInPlace
  <1> QED
    BY <1>2, <1>3

\* Every task while one waits for a transport.
LEMMA WaitFramed ==
    ASSUME TypeInv, Exclusive, WireInv, NEW t \in Tasks, WaitStep(t), NEW u \in Tasks
    PROVE  OwnBodyNext(u)' /\ ConnectedOK(u)'
  <1>1. CASE pc'[u] \notin InFlight
    BY <1>1 DEF InFlight, InTouch, OwnBodyNext, ConnectedOK
  <1>2. CASE pc'[u] \in InFlight
    <2>1. u # t /\ pc'[u] = pc[u]
      BY <1>2 DEF WaitStep, OthersStill, InFlight
    <2> QED
      BY <1>2, <2>1, StillInPlace DEF WaitStep, OthersStill
  <1> QED
    BY <1>1, <1>2

\* Every task while a socket goes down or the server answers.
LEMMA ServedFramed ==
    ASSUME TypeInv, Exclusive, WireInv, NEW u \in Tasks,
           IdleStep \/ \E c \in Conns : DownStep(c) \/ ServeStep(c)
    PROVE  OwnBodyNext(u)' /\ ConnectedOK(u)'
  <1>1. /\ conn'[u] = conn[u] /\ rid'[u] = rid[u] /\ phase'[u] = phase[u] /\ pc'[u] = pc[u]
        /\ connected' = connected
    BY DEF IdleStep, DownStep, ServeStep, Serve, TasksStill, sockVars
  <1>2. CASE pc[u] \notin InFlight
    BY <1>1, <1>2 DEF InFlight, InTouch, OwnBodyNext, ConnectedOK
  <1>3. CASE pc[u] \in InFlight
    <2>1. conn[u] \in Conns
      BY <1>3 DEF TypeInv, TypeOK, HoldOK
    <2> PICK d \in Conns : d = conn[u]
      BY <2>1
    <2>2. CASE stream'[d] = stream[d] /\ alive'[d] = alive[d]
      BY <1>1, <1>3, <2>2, StillInPlace
    <2>3. CASE DownStep(d)
      <3>1. /\ ~alive'[d]
            /\ \/ stream'[d] = stream[d]
               \/ \E n \in 0..Len(stream[d]) : stream'[d] = SubSeq(stream[d], 1, n)
        BY <2>3 DEF DownStep, TypeInv, TypeOK
      <3> QED
        BY <1>1, <1>3, <3>1, StillInPlace
    <2>4. CASE ServeStep(d)
      <3>1. inbox[d] \in Seq([rid : Nat, phase : Phases]) /\ inbox[d] # <<>> /\ alive[d]
        BY <2>4 DEF ServeStep, Serve, TypeInv, TypeOK
      <3>2. Head(inbox[d]) \in [rid : Nat, phase : Phases]
        BY <3>1, HeadTailProperties
      <3>3. Head(inbox[d]).rid \in Nat
        BY <3>2
      <3>4. \E r \in Nat, ok \in BOOLEAN :
                stream'[d] = stream[d] \o <<Header(r, ok), Body(r, ok)>>
        <4>1. DOMAIN stream = Conns
          BY DEF TypeInv, TypeOK
        <4>2. PICK ok \in BOOLEAN :
                stream' = [stream EXCEPT ![d] = @ \o <<Header(Head(inbox[d]).rid, ok),
                                                      Body(Head(inbox[d]).rid, ok)>>]
          BY <2>4 DEF ServeStep, Serve
        <4> QED
          BY <3>3, <4>1, <4>2
      <3> QED
        BY <1>1, <1>3, <3>1, <3>4, StillInPlace
    <2> QED
      BY <2>2, <2>3, <2>4 DEF IdleStep, DownStep, ServeStep, Serve, sockVars, TypeInv, TypeOK
  <1> QED
    BY <1>2, <1>3

LEMMA WireInvStep ==
    ASSUME TypeInv, TypeInv', Exclusive, WireInv, WireStep
    PROVE  WireInv'
  <1>1. \A d \in Conns : Framed(d)' /\ Untouched(d)'
    BY SocketsFramed
  <1>2. ASSUME NEW u \in Tasks PROVE OwnBodyNext(u)' /\ ConnectedOK(u)'
    <2>1. CASE IdleStep \/ \E c \in Conns : DownStep(c) \/ ServeStep(c)
      BY <2>1, ServedFramed
    <2>2. ASSUME NEW t \in Tasks, WaitStep(t)
          PROVE  OwnBodyNext(u)' /\ ConnectedOK(u)'
      BY <2>2, WaitFramed
    <2>3. ASSUME NEW t \in Tasks, NEW c \in Conns,
                 \/ FreshStep(t, c) \/ CommandStep(t, c) \/ ConnectStep(t, c)
                 \/ ProceedStep(t, c) \/ HeaderStep(t, c) \/ EndStep(t, c)
          PROVE  OwnBodyNext(u)' /\ ConnectedOK(u)'
      BY <2>3, ActorFramed, OtherFramed
    <2> QED
      BY <2>1, <2>2, <2>3 DEF WireStep
  <1> QED
    BY <1>1, <1>2 DEF WireInv

LEMMA WireInvInit == Init => WireInv
  <1> SUFFICES ASSUME Init PROVE WireInv
    OBVIOUS
  <1>1. InPairs(<<>>) /\ Whole(<<>>)
    BY DEF InPairs, Whole
  <1> QED
    BY <1>1 DEF Init, WireInv, Framed, Untouched, OwnBodyNext, ConnectedOK, InTouch

LEMMA WireInvBody == TypeInv /\ WireInv => BodyIsOwn
  <1> SUFFICES ASSUME TypeInv, WireInv, NEW t \in Tasks, pc[t] = "body",
                      stream[conn[t]] # <<>>
               PROVE  /\ Head(stream[conn[t]]).kind = "body"
                      /\ Head(stream[conn[t]]).rid = rid[t]
    BY DEF BodyIsOwn
  <1>3. Head(stream[conn[t]]) = stream[conn[t]][1]
    OBVIOUS
  <1> QED
    BY <1>3 DEF WireInv, OwnBodyNext

\* Whatever is abandoned, cancelled or lost, the bytes after an accepted header
\* are the body of that very reply, for any number of tasks, transports and
\* faults (transport.py:125-128, wirehelper.py:164-168).
THEOREM BodyIsOwnCorrect == Spec => []BodyIsOwn
  <1>1. TypeInv /\ Exclusive /\ WireInv /\ [Next]_vars => WireInv'
    BY NextTypeInv, NextWire, WireInvStep
  <1> QED
    BY <1>1, WireInvInit, WireInvBody, TypeCorrect, ExclusiveCorrect, PTL DEF Spec

-----------------------------------------------------------------------------
(* What a step adds to the contents of a socket                            *)

LEMMA ElemsOf ==
    ASSUME NEW U, NEW s \in Seq(U)
    PROVE  /\ Elems(s) \subseteq U
           /\ s # <<>> => Head(s) \in Elems(s) /\ Elems(Tail(s)) \subseteq Elems(s)
           /\ \A n \in 0..Len(s) : Elems(SubSeq(s, 1, n)) \subseteq Elems(s)
           /\ \A e \in U : Elems(Append(s, e)) \subseteq Elems(s) \cup {e}
           /\ \A a, b \in U : Elems(s \o <<a, b>>) \subseteq Elems(s) \cup {a, b}
  <1>1. Len(s) \in Nat /\ \A i \in 1..Len(s) : s[i] \in U
    OBVIOUS
  <1>2. ASSUME s # <<>> PROVE Head(s) \in Elems(s) /\ Elems(Tail(s)) \subseteq Elems(s)
    <2>1. /\ Head(s) = s[1] /\ Len(s) # 0
          /\ Len(Tail(s)) = Len(s) - 1
          /\ \A i \in 1..Len(Tail(s)) : Tail(s)[i] = s[i+1]
      BY <1>2
    <2> QED
      BY <2>1 DEF Elems
  <1>3. ASSUME NEW n \in 0..Len(s) PROVE Elems(SubSeq(s, 1, n)) \subseteq Elems(s)
    <2> QED
      BY DEF Elems
  <1>4. ASSUME NEW e \in U PROVE Elems(Append(s, e)) \subseteq Elems(s) \cup {e}
    <2> QED
      BY <1>1 DEF Elems
  <1>5. ASSUME NEW a \in U, NEW b \in U
        PROVE  Elems(s \o <<a, b>>) \subseteq Elems(s) \cup {a, b}
    <2>1. <<a, b>> \in Seq(U) /\ Len(<<a, b>>) = 2
      OBVIOUS
    <2>2. /\ Len(s \o <<a, b>>) = Len(s) + Len(<<a, b>>)
          /\ \A i \in 1..(Len(s) + Len(<<a, b>>)) :
                (s \o <<a, b>>)[i] = IF i <= Len(s) THEN s[i] ELSE <<a, b>>[i - Len(s)]
      OBVIOUS
    <2> QED
      BY <2>1, <2>2 DEF Elems
  <1>6. Elems(s) \subseteq U
    BY DEF Elems
  <1> QED
    BY <1>2, <1>3, <1>4, <1>5, <1>6

Messages == [rid : Nat, phase : Phases]

LEMMA NoElems == Elems(<<>>) = {}
  BY DEF Elems

\* What a task adds to a socket, and what it leaves of what it can read there.
LEMMA TaskContents ==
    ASSUME TypeInv, NEW t \in Tasks, NEW c \in Conns,
           \/ FreshStep(t, c) \/ CommandStep(t, c) \/ ConnectStep(t, c)
           \/ ProceedStep(t, c) \/ HeaderStep(t, c) \/ EndStep(t, c),
           NEW d \in Conns
    PROVE  /\ Elems(stream'[d]) \subseteq Elems(stream[d])
           /\ \/ Elems(inbox'[d]) \subseteq Elems(inbox[d])
              \/ /\ d = c /\ rid'[t] = nextRid /\ nextRid' = nextRid + 1
                 /\ Elems(inbox'[d]) \subseteq Elems(inbox[d]) \cup {Request(nextRid, phase'[t])}
  <1>1. stream[d] \in Seq(Units) /\ inbox[d] \in Seq(Messages)
    BY StreamsType DEF TypeInv, TypeOK, Messages
  <1>2. stream'[d] = stream[d] \/ stream'[d] = <<>>
          \/ (stream[d] # <<>> /\ stream'[d] = Tail(stream[d]))
    BY DEF FreshStep, CommandStep, ConnectStep, ProceedStep, HeaderStep, EndStep, TypeInv, TypeOK
  <1>3. Elems(stream'[d]) \subseteq Elems(stream[d])
    BY <1>1, <1>2, NoElems, ElemsOf
  <1>4. CASE FreshStep(t, c) \/ HeaderStep(t, c) \/ EndStep(t, c)
    BY <1>3, <1>4 DEF FreshStep, HeaderStep, EndStep
  <1>5. ASSUME NEW p \in Phases, Written(t, c, p)
        PROVE  \/ Elems(inbox'[d]) \subseteq Elems(inbox[d])
               \/ /\ d = c /\ rid'[t] = nextRid /\ nextRid' = nextRid + 1
                  /\ Elems(inbox'[d]) \subseteq
                        Elems(inbox[d]) \cup {Request(nextRid, phase'[t])}
    <2>1. /\ phase'[t] = p /\ rid'[t] = nextRid /\ nextRid' = nextRid + 1
          /\ \/ inbox'[d] = inbox[d]
             \/ d = c /\ inbox'[d] = Append(inbox[d], Request(nextRid, p))
      BY <1>5 DEF Written
    <2>2. Request(nextRid, p) \in Messages
      BY DEF Request, Messages, TypeInv, TypeOK
    <2>3. Elems(Append(inbox[d], Request(nextRid, p)))
            \subseteq Elems(inbox[d]) \cup {Request(nextRid, p)}
      BY <1>1, <2>2, ElemsOf
    <2> QED
      BY <2>1, <2>3
  <1>6. CASE CommandStep(t, c) \/ ConnectStep(t, c) \/ ProceedStep(t, c)
    <2>1. "command" \in Phases /\ "hello" \in Phases /\ NextPhase(phase[t]) \in Phases
      BY DEF NextPhase, Phases
    <2> QED
      BY <1>3, <1>5, <1>6, <2>1 DEF CommandStep, ConnectStep, ProceedStep
  <1> QED
    BY <1>4, <1>6

\* What the rest of the world does to a socket.
LEMMA WorldContents ==
    ASSUME TypeInv, NEW c \in Conns, DownStep(c) \/ ServeStep(c), NEW d \in Conns
    PROVE  /\ Elems(inbox'[d]) \subseteq Elems(inbox[d])
           /\ authed[d] => authed'[d]
           /\ \/ Elems(stream'[d]) \subseteq Elems(stream[d])
              \/ \E m \in Elems(inbox[d]), ok \in BOOLEAN :
                    /\ Elems(stream'[d]) \subseteq
                          Elems(stream[d]) \cup {Header(m.rid, ok), Body(m.rid, ok)}
                    /\ ok /\ m.phase = "saslContinue" => authed'[d]
  <1>1. stream[d] \in Seq(Units) /\ inbox[d] \in Seq(Messages)
    BY StreamsType DEF TypeInv, TypeOK, Messages
  <1>2. CASE DownStep(c)
    <2>1. /\ inbox'[d] = inbox[d] \/ inbox'[d] = <<>>
          /\ authed' = authed
          /\ \/ stream'[d] = stream[d]
             \/ \E n \in 0..Len(stream[d]) : stream'[d] = SubSeq(stream[d], 1, n)
      <3>1. CASE d # c
        BY <1>2, <3>1 DEF DownStep, TypeInv, TypeOK
      <3>2. CASE d = c
        BY <1>2, <3>2 DEF DownStep, TypeInv, TypeOK
      <3> QED
        BY <3>1, <3>2
    <2> QED
      BY <1>1, <2>1, NoElems, ElemsOf
  <1>3. CASE ServeStep(c)
    <2>1. CASE d # c
      BY <1>3, <2>1 DEF ServeStep, Serve
    <2>2. CASE d = c
      <3>1. inbox[d] # <<>>
        BY <1>3, <2>2 DEF ServeStep, Serve
      <3>2. PICK m \in Messages : m = Head(inbox[d])
        BY <1>1, <3>1
      <3>3. m \in Elems(inbox[d]) /\ Elems(Tail(inbox[d])) \subseteq Elems(inbox[d])
        BY <1>1, <3>1, <3>2, ElemsOf
      <3>4. PICK ok \in BOOLEAN :
              /\ inbox'[d] = Tail(inbox[d])
              /\ stream'[d] = stream[d] \o <<Header(m.rid, ok), Body(m.rid, ok)>>
              /\ authed'[d] = (authed[d] \/ (ok /\ m.phase = "saslContinue"))
        BY <1>3, <2>2, <3>2 DEF ServeStep, Serve, TypeInv, TypeOK
      <3>5. Header(m.rid, ok) \in Units /\ Body(m.rid, ok) \in Units
        BY DEF Header, Body, Units, Messages
      <3>6. Elems(stream'[d]) \subseteq
                Elems(stream[d]) \cup {Header(m.rid, ok), Body(m.rid, ok)}
        BY <1>1, <3>4, <3>5, ElemsOf
      <3> QED
        BY <3>3, <3>4, <3>6
    <2> QED
      BY <2>1, <2>2
  <1> QED
    BY <1>2, <1>3

-----------------------------------------------------------------------------
(* Authorisation is kept                                                   *)

TaskStepOn(t, c) ==
    \/ FreshStep(t, c) \/ CommandStep(t, c) \/ ConnectStep(t, c)
    \/ ProceedStep(t, c) \/ HeaderStep(t, c) \/ EndStep(t, c)

\* The next request id is on no message yet.
LEMMA FreshRid ==
    ASSUME TypeInv, RidsBelow, NEW c \in Conns, NEW m \in Elems(inbox[c]) \cup Elems(stream[c])
    PROVE  m.rid \in Nat /\ m.rid < nextRid /\ m.rid # nextRid
  <1>1. stream[c] \in Seq(Units) /\ inbox[c] \in Seq(Messages)
    BY StreamsType DEF TypeInv, TypeOK, Messages
  <1>2. m \in Units \cup Messages
    BY <1>1, ElemsOf
  <1>3. m.rid \in Nat
    BY <1>2 DEF Units, Messages
  <1>4. m.rid < nextRid /\ nextRid \in Nat
    BY DEF RidsBelow, TypeInv, TypeOK
  <1> QED
    BY <1>3, <1>4

\* A connect() finds nothing on its transport, which nobody else can reach.
LEMMA FreshSocket ==
    ASSUME TypeInv, Exclusive, WireInv, NEW t \in Tasks, NEW c \in Conns, ConnectStep(t, c)
    PROVE  /\ Elems(inbox[c]) = {} /\ Elems(stream[c]) = {}
           /\ ~Pooled(c)
  <1>1. ~connected[c]
    BY DEF ConnectStep, WireInv, ConnectedOK
  <1>2. inbox[c] = <<>> /\ stream[c] = <<>>
    BY <1>1 DEF WireInv, Untouched
  <1>3. Holding(t) /\ conn[t] = c
    BY ConnsAssumption DEF ConnectStep, Holding
  <1> QED
    BY <1>2, <1>3, NoElems DEF Exclusive

\* Only connect() takes an authentication back.
LEMMA AuthedStays ==
    ASSUME TypeInv, NEW t \in Tasks, NEW c \in Conns, TaskStepOn(t, c), NEW d \in Conns
    PROVE  authed'[d] = authed[d] \/ (d = c /\ ConnectStep(t, c))
  BY DEF TaskStepOn, FreshStep, CommandStep, ConnectStep, ProceedStep, HeaderStep, EndStep,
     TypeInv, TypeOK

\* A task that writes a command does so on an authenticated connection.
LEMMA WriterAuthorised ==
    ASSUME TypeInv, WireInv, AuthInv, NEW t \in Tasks, NEW c \in Conns,
           CommandStep(t, c) \/ ProceedStep(t, c), phase'[t] = "command"
    PROVE  authed[c]
  <1>1. CASE CommandStep(t, c)
    BY <1>1 DEF CommandStep, AuthInv, PoolAuthorised
  <1>2. CASE ProceedStep(t, c)
    <2>1. /\ pc[t] = "body" /\ conn[t] = c /\ NextPhase(phase[t]) = "command"
          /\ phase[t] # "command" /\ phase[t] \in Phases
          /\ stream[c] # <<>> /\ Head(stream[c]).ok
      BY <1>2 DEF ProceedStep, Written, Handshaking, TypeInv, TypeOK
    <2>2. CASE ~RequiresAuth
      BY <2>1, <2>2 DEF AuthInv, PhaseAuthorised, InTouch
    <2>3. CASE phase[t] = "saslContinue"
      <3>1. stream[c] \in Seq(Units)
        BY StreamsType
      <3>2. Head(stream[c]) = stream[c][1] /\ Head(stream[c]) \in Elems(stream[c])
        BY <2>1, <3>1, ElemsOf
      <3>3. Head(stream[c]).rid = rid[t]
        BY <2>1, <3>2 DEF WireInv, OwnBodyNext
      <3> QED
        BY <2>1, <2>3, <3>2, <3>3 DEF AuthInv, OwnReplies, InTouch
    <2> QED
      BY <2>1, <2>2, <2>3 DEF NextPhase, Phases
  <1> QED
    BY <1>1, <1>2

LEMMA CommandsByElems ==
    ASSUME NEW c \in Conns
    PROVE  (\A i \in 1..Len(inbox[c]) : inbox[c][i].phase = "command" => authed[c])
              <=> (\A m \in Elems(inbox[c]) : m.phase = "command" => authed[c])
  BY DEF Elems

LEMMA TaskCommands ==
    ASSUME TypeInv, Exclusive, WireInv, AuthInv, NEW t \in Tasks, NEW c \in Conns,
           TaskStepOn(t, c), NEW d \in Conns, NEW m \in Elems(inbox'[d]), m.phase = "command"
    PROVE  authed'[d]
  <1>1. m \in Elems(inbox[d]) => authed[d]
    BY CommandsByElems DEF AuthInv, CommandsAreAuthorised
  <1>2. \/ m \in Elems(inbox[d])
        \/ d = c /\ m = Request(nextRid, phase'[t]) /\ Elems(inbox'[d]) # Elems(inbox[d])
    BY TaskContents DEF TaskStepOn
  <1>3. CASE ConnectStep(t, c)
    <2>1. phase'[t] = "hello"
      BY <1>3 DEF ConnectStep, Written
    <2>2. d # c
      BY <1>2, <1>3, <2>1, FreshSocket DEF Request
    <2> QED
      BY <1>1, <1>2, <2>2, AuthedStays
  <1>4. CASE m \in Elems(inbox[d]) /\ ~ConnectStep(t, c)
    BY <1>1, <1>4, AuthedStays
  <1>5. CASE m \notin Elems(inbox[d]) /\ ~ConnectStep(t, c)
    <2>1. CommandStep(t, c) \/ ProceedStep(t, c)
      BY <1>2, <1>5 DEF TaskStepOn, FreshStep, HeaderStep, EndStep
    <2>2. phase'[t] = "command" /\ d = c
      BY <1>2, <1>5 DEF Request
    <2> QED
      BY <1>5, <2>1, <2>2, WriterAuthorised, AuthedStays
  <1> QED
    BY <1>3, <1>4, <1>5

LEMMA TaskPool ==
    ASSUME TypeInv, Exclusive, WireInv, AuthInv, NEW t \in Tasks, NEW c \in Conns,
           TaskStepOn(t, c), NEW d \in Conns, connected'[d], Pooled(d)'
    PROVE  authed'[d]
  <1>1. CASE ConnectStep(t, c)
    <2>1. Pooled(d)
      BY <1>1 DEF ConnectStep, Written
    <2>2. d # c
      BY <1>1, <2>1, FreshSocket
    <2> QED
      BY <1>1, <2>1, <2>2, AuthedStays DEF ConnectStep, AuthInv, PoolAuthorised
  <1>2. CASE EndStep(t, c)
    <2>1. connected[d] /\ authed' = authed
      BY <1>2 DEF EndStep
    <2>2. CASE Pooled(d)
      BY <2>1, <2>2 DEF AuthInv, PoolAuthorised
    <2>3. CASE ~Pooled(d)
      <3>1. /\ d = c /\ conn[t] = c /\ pc[t] \in InFlight
            /\ phase[t] = "command" \/ pc[t] = "draining"
        BY <1>2, <2>3 DEF EndStep
      <3>2. phase[t] = "command" /\ pc[t] \in InTouch
        BY <3>1 DEF WireInv, ConnectedOK, InFlight, InTouch
      <3> QED
        BY <2>1, <3>1, <3>2 DEF AuthInv, PhaseAuthorised
    <2> QED
      BY <2>2, <2>3
  <1>3. CASE FreshStep(t, c) \/ CommandStep(t, c) \/ ProceedStep(t, c) \/ HeaderStep(t, c)
    <2>1. connected' = connected /\ authed' = authed /\ Pooled(d)
      BY <1>3 DEF FreshStep, CommandStep, ProceedStep, HeaderStep, Written, Pooled
    <2> QED
      BY <2>1 DEF AuthInv, PoolAuthorised
  <1> QED
    BY <1>1, <1>2, <1>3 DEF TaskStepOn

\* The task that makes the step.
LEMMA ActorAuthorised ==
    ASSUME TypeInv, TypeInv', Exclusive, WireInv, AuthInv, NEW t \in Tasks, NEW c \in Conns,
           TaskStepOn(t, c)
    PROVE  OwnReplies(t)' /\ PhaseAuthorised(t)'
  <1>1. CASE FreshStep(t, c) \/ EndStep(t, c)
    BY <1>1 DEF FreshStep, EndStep, InTouch, OwnReplies, PhaseAuthorised
  <1>2. CASE HeaderStep(t, c)
    <2>1. /\ conn[t] = c /\ conn' = conn /\ rid' = rid /\ phase' = phase
          /\ pc[t] \in InTouch /\ inbox' = inbox /\ authed' = authed
      BY <1>2 DEF HeaderStep, InTouch
    <2>2. Elems(stream'[c]) \subseteq Elems(stream[c])
      BY <1>2, TaskContents
    <2>3. /\ \A m \in Elems(inbox[c]) : m.rid = rid[t] => m.phase = phase[t]
          /\ \A m \in Elems(stream[c]) :
                m.rid = rid[t] /\ m.ok /\ phase[t] = "saslContinue" => authed[c]
          /\ phase[t] = "command" => authed[c]
          /\ ~RequiresAuth => authed[c]
      BY <2>1 DEF AuthInv, OwnReplies, PhaseAuthorised
    <2> QED
      BY <2>1, <2>2, <2>3 DEF OwnReplies, PhaseAuthorised
  <1>3. CASE CommandStep(t, c) \/ ConnectStep(t, c) \/ ProceedStep(t, c)
    <2>1. conn'[t] = c /\ rid'[t] = nextRid
      BY <1>3 DEF CommandStep, ConnectStep, ProceedStep, Written
    <2>2. \A m \in Elems(inbox'[c]) : m.rid = nextRid => m.phase = phase'[t]
      <3>1. \A m \in Elems(inbox[c]) : m.rid # nextRid
        BY FreshRid DEF AuthInv
      <3>2. Elems(inbox'[c]) \subseteq Elems(inbox[c]) \cup {Request(nextRid, phase'[t])}
        BY <1>3, TaskContents
      <3> QED
        BY <3>1, <3>2 DEF Request
    <2>3. \A m \in Elems(stream'[c]) : m.rid # nextRid
      <3>1. Elems(stream'[c]) \subseteq Elems(stream[c])
        BY <1>3, TaskContents
      <3> QED
        BY <3>1, FreshRid DEF AuthInv
    <2>4. phase'[t] = "command" => authed'[c]
      <3>1. CASE ConnectStep(t, c)
        BY <3>1 DEF ConnectStep, Written
      <3>2. CASE CommandStep(t, c) \/ ProceedStep(t, c)
        <4>1. authed' = authed
          BY <3>2 DEF CommandStep, ProceedStep
        <4> QED
          BY <3>2, <4>1, WriterAuthorised
      <3> QED
        BY <1>3, <3>1, <3>2
    <2>5. ~RequiresAuth => authed'[c]
      <3>1. CASE ConnectStep(t, c)
        BY <3>1 DEF ConnectStep, TypeInv, TypeOK
      <3>2. CASE CommandStep(t, c)
        BY <3>2 DEF CommandStep, AuthInv, PoolAuthorised
      <3>3. CASE ProceedStep(t, c)
        BY <3>3 DEF ProceedStep, AuthInv, PhaseAuthorised, InTouch
      <3> QED
        BY <1>3, <3>1, <3>2, <3>3
    <2> QED
      BY <2>1, <2>2, <2>3, <2>4, <2>5 DEF OwnReplies, PhaseAuthorised
  <1> QED
    BY <1>1, <1>2, <1>3 DEF TaskStepOn

\* A task beside it.
LEMMA OtherAuthorised ==
    ASSUME TypeInv, Exclusive, WireInv, AuthInv, NEW t \in Tasks, NEW c \in Conns,
           TaskStepOn(t, c), NEW u \in Tasks, u # t
    PROVE  OwnReplies(u)' /\ PhaseAuthorised(u)'
  <1>1. /\ conn'[u] = conn[u] /\ rid'[u] = rid[u] /\ phase'[u] = phase[u]
        /\ pc'[u] = pc[u] \/ (pc[u] = "waiting" /\ pc'[u] = "woken")
    BY DEF TaskStepOn, FreshStep, CommandStep, ConnectStep, ProceedStep, HeaderStep, EndStep,
       Written, OthersStill
  <1>2. CASE pc[u] \notin InTouch
    BY <1>1, <1>2 DEF InTouch, OwnReplies, PhaseAuthorised
  <1>3. CASE pc[u] \in InTouch
    <2>1. conn[u] \in Conns /\ conn[u] # conn[t]
      BY <1>3, Apart DEF InTouch, InFlight
    <2>2. conn[u] # c
      BY <2>1 DEF TaskStepOn, FreshStep, CommandStep, ConnectStep, ProceedStep, HeaderStep,
         EndStep
    <2>3. /\ Elems(stream'[conn[u]]) \subseteq Elems(stream[conn[u]])
          /\ Elems(inbox'[conn[u]]) \subseteq Elems(inbox[conn[u]])
      BY <2>1, <2>2, TaskContents DEF TaskStepOn
    <2>4. authed'[conn[u]] = authed[conn[u]]
      BY <2>1, <2>2, AuthedStays
    <2>5. pc'[u] = pc[u]
      BY <1>1, <1>3 DEF InTouch
    <2>6. OwnReplies(u) /\ PhaseAuthorised(u)
      BY DEF AuthInv
    <2> QED
      BY <1>1, <1>3, <2>3, <2>4, <2>5, <2>6 DEF OwnReplies, PhaseAuthorised
  <1> QED
    BY <1>2, <1>3

LEMMA TaskRids ==
    ASSUME TypeInv, AuthInv, NEW t \in Tasks, NEW c \in Conns, TaskStepOn(t, c)
    PROVE  RidsBelow'
  <1>1. /\ nextRid \in Nat /\ 0 < nextRid
        /\ nextRid' = nextRid \/ nextRid' = nextRid + 1
        /\ rid'[t] = rid[t] \/ rid'[t] = 0 \/ (rid'[t] = nextRid /\ nextRid' = nextRid + 1)
        /\ \A u \in Tasks : u # t => rid'[u] = rid[u]
        /\ \A u \in Tasks : rid[u] \in Nat /\ rid[u] < nextRid
    BY DEF TaskStepOn, FreshStep, CommandStep, ConnectStep, ProceedStep, HeaderStep, EndStep,
       Written, OthersStill, TypeInv, TypeOK, AuthInv, RidsBelow
  <1>2. \A u \in Tasks : rid'[u] < nextRid'
    BY <1>1
  <1>3. ASSUME NEW d \in Conns, NEW m \in Elems(inbox'[d]) \cup Elems(stream'[d])
        PROVE  m.rid < nextRid'
    <2>1. \/ m \in Elems(inbox[d]) \cup Elems(stream[d])
          \/ m = Request(nextRid, phase'[t]) /\ nextRid' = nextRid + 1
      BY <1>3, TaskContents DEF TaskStepOn
    <2>2. CASE m \in Elems(inbox[d]) \cup Elems(stream[d])
      <3>1. m.rid \in Nat /\ m.rid < nextRid
        BY <2>2, FreshRid DEF AuthInv
      <3> QED
        BY <1>1, <3>1
    <2>3. CASE m = Request(nextRid, phase'[t]) /\ nextRid' = nextRid + 1
      <3>1. m.rid = nextRid
        BY <2>3 DEF Request
      <3> QED
        BY <1>1, <2>3, <3>1
    <2> QED
      BY <2>1, <2>2, <2>3
  <1> QED
    BY <1>2, <1>3 DEF RidsBelow

\* A task that only waits for a transport touches no socket.
LEMMA WaitAuthorised ==
    ASSUME TypeInv, AuthInv, NEW t \in Tasks, WaitStep(t)
    PROVE  AuthInv'
  <1>1. /\ UNCHANGED <<pool, conn, stream, inbox, alive, connected, authed, nextRid>>
        /\ \A u \in Tasks : rid'[u] = rid[u]
    BY DEF WaitStep, OthersStill
  <1>2. CommandsAreAuthorised' /\ RidsBelow' /\ PoolAuthorised'
    BY <1>1 DEF AuthInv, CommandsAreAuthorised, RidsBelow, PoolAuthorised, Pooled
  <1>3. ASSUME NEW u \in Tasks, pc'[u] \in InTouch
        PROVE  OwnReplies(u)' /\ PhaseAuthorised(u)'
    <2>1. pc[u] = pc'[u] /\ phase'[u] = phase[u]
      BY <1>3 DEF WaitStep, OthersStill, InTouch, InFlight
    <2> QED
      BY <1>1, <2>1, <1>3 DEF AuthInv, OwnReplies, PhaseAuthorised
  <1> QED
    BY <1>2, <1>3 DEF AuthInv, OwnReplies, PhaseAuthorised

\* The server and the network.
LEMMA WorldAuthorised ==
    ASSUME TypeInv, AuthInv, NEW c \in Conns, DownStep(c) \/ ServeStep(c)
    PROVE  AuthInv'
  <1>1. /\ UNCHANGED <<pc, conn, rid, phase, nextRid, connected>>
        /\ \A d \in Conns : Pooled(d)' => Pooled(d)
    BY DEF DownStep, ServeStep, Serve, TasksStill, sockVars
  <1>2. CommandsAreAuthorised'
    <2> SUFFICES ASSUME NEW d \in Conns, NEW i \in 1..Len(inbox'[d]),
                        inbox'[d][i].phase = "command"
                 PROVE  authed'[d]
      BY DEF CommandsAreAuthorised
    <2>1. inbox'[d][i] \in Elems(inbox'[d])
      BY DEF Elems
    <2>2. inbox'[d][i] \in Elems(inbox[d])
      BY <2>1, WorldContents
    <2>3. authed[d]
      BY <2>2, CommandsByElems DEF AuthInv, CommandsAreAuthorised
    <2> QED
      BY <2>3, WorldContents
  <1>3. RidsBelow'
    <2> SUFFICES ASSUME NEW d \in Conns, NEW m \in Elems(inbox'[d]) \cup Elems(stream'[d])
                 PROVE  m.rid < nextRid
      BY <1>1 DEF RidsBelow, AuthInv
    <2>1. \E n \in Elems(inbox[d]) \cup Elems(stream[d]) : m.rid = n.rid
      <3>1. CASE m \in Elems(inbox'[d])
        BY <3>1, WorldContents
      <3>2. CASE m \in Elems(stream'[d]) /\ Elems(stream'[d]) \subseteq Elems(stream[d])
        BY <3>2
      <3>3. ASSUME NEW n \in Elems(inbox[d]), NEW ok \in BOOLEAN, m \in Elems(stream'[d]),
                   Elems(stream'[d]) \subseteq
                      Elems(stream[d]) \cup {Header(n.rid, ok), Body(n.rid, ok)}
            PROVE  m \in Elems(stream[d]) \/ m.rid = n.rid
        BY <3>3 DEF Header, Body
      <3> QED
        BY <3>1, <3>2, <3>3, WorldContents
    <2> QED
      BY <2>1, FreshRid DEF AuthInv
  <1>4. PoolAuthorised'
    BY <1>1, WorldContents DEF AuthInv, PoolAuthorised
  <1>5. ASSUME NEW u \in Tasks, pc[u] \in InTouch
        PROVE  OwnReplies(u)' /\ PhaseAuthorised(u)'
    <2>1. conn[u] \in Conns
      BY <1>5 DEF TypeInv, TypeOK, HoldOK, InTouch, InFlight
    <2> PICK d \in Conns : d = conn[u]
      BY <2>1
    <2>2. /\ \A m \in Elems(inbox[d]) : m.rid = rid[u] => m.phase = phase[u]
          /\ \A m \in Elems(stream[d]) :
                m.rid = rid[u] /\ m.ok /\ phase[u] = "saslContinue" => authed[d]
          /\ phase[u] = "command" => authed[d]
          /\ ~RequiresAuth => authed[d]
      BY <1>5 DEF AuthInv, OwnReplies, PhaseAuthorised
    <2>3. Elems(inbox'[d]) \subseteq Elems(inbox[d]) /\ (authed[d] => authed'[d])
      BY WorldContents
    <2>4. \A m \in Elems(stream'[d]) :
              m.rid = rid[u] /\ m.ok /\ phase[u] = "saslContinue" => authed'[d]
      <3> SUFFICES ASSUME NEW m \in Elems(stream'[d]),
                          m.rid = rid[u], m.ok, phase[u] = "saslContinue"
                   PROVE  authed'[d]
        OBVIOUS
      <3>1. CASE m \in Elems(stream[d])
        BY <2>2, <2>3, <3>1
      <3>2. CASE m \notin Elems(stream[d])
        <4>1. PICK n \in Elems(inbox[d]), ok \in BOOLEAN :
                /\ m = Header(n.rid, ok) \/ m = Body(n.rid, ok)
                /\ ok /\ n.phase = "saslContinue" => authed'[d]
          <5>1. ~(Elems(stream'[d]) \subseteq Elems(stream[d]))
            BY <3>2
          <5>2. PICK n \in Elems(inbox[d]), ok \in BOOLEAN :
                  /\ Elems(stream'[d]) \subseteq
                        Elems(stream[d]) \cup {Header(n.rid, ok), Body(n.rid, ok)}
                  /\ ok /\ n.phase = "saslContinue" => authed'[d]
            BY <5>1, WorldContents
          <5>3. m = Header(n.rid, ok) \/ m = Body(n.rid, ok)
            BY <3>2, <5>2
          <5> QED
            BY <5>2, <5>3
        <4>2. m.rid = n.rid
          BY <4>1 DEF Header, Body
        <4>3. m.ok = ok
          <5>1. Header(n.rid, ok).ok = ok /\ Body(n.rid, ok).ok = ok
            BY Zenon DEF Header, Body
          <5> QED
            BY <4>1, <5>1
        <4> QED
          BY <2>2, <4>1, <4>2, <4>3
      <3> QED
        BY <3>1, <3>2
    <2> QED
      BY <1>1, <2>2, <2>3, <2>4 DEF OwnReplies, PhaseAuthorised
  <1> QED
    BY <1>1, <1>2, <1>3, <1>4, <1>5 DEF AuthInv, OwnReplies, PhaseAuthorised

LEMMA AuthInvStep ==
    ASSUME TypeInv, TypeInv', Exclusive, WireInv, AuthInv, WireStep
    PROVE  AuthInv'
  <1>1. ASSUME NEW t \in Tasks, NEW c \in Conns, TaskStepOn(t, c)
        PROVE  AuthInv'
    <2>1. CommandsAreAuthorised'
      <3> SUFFICES ASSUME NEW d \in Conns, NEW i \in 1..Len(inbox'[d]),
                          inbox'[d][i].phase = "command"
                   PROVE  authed'[d]
        BY DEF CommandsAreAuthorised
      <3>1. inbox'[d][i] \in Elems(inbox'[d])
        BY DEF Elems
      <3> QED
        BY <1>1, <3>1, TaskCommands
    <2>2. PoolAuthorised'
      BY <1>1, TaskPool DEF PoolAuthorised
    <2>3. RidsBelow'
      BY <1>1, TaskRids
    <2>4. \A u \in Tasks : OwnReplies(u)' /\ PhaseAuthorised(u)'
      BY <1>1, ActorAuthorised, OtherAuthorised
    <2> QED
      BY <2>1, <2>2, <2>3, <2>4 DEF AuthInv
  <1>2. CASE IdleStep
    BY <1>2 DEF IdleStep, TasksStill, AuthInv, CommandsAreAuthorised, RidsBelow, PoolAuthorised,
       OwnReplies, PhaseAuthorised
  <1> QED
    BY <1>1, <1>2, WaitAuthorised, WorldAuthorised DEF WireStep, TaskStepOn

LEMMA AuthInvInit == Init => AuthInv
  <1> SUFFICES ASSUME Init PROVE AuthInv
    OBVIOUS
  <1>1. \A c \in Conns : inbox[c] = <<>> /\ stream[c] = <<>> /\ ~connected[c]
    BY DEF Init
  <1>2. \A t \in Tasks : pc[t] \notin InTouch /\ rid[t] < nextRid
    BY DEF Init, InTouch
  <1>3. CommandsAreAuthorised
    BY <1>1 DEF CommandsAreAuthorised
  <1> QED
    BY <1>1, <1>2, <1>3, NoElems DEF AuthInv, RidsBelow, PoolAuthorised, OwnReplies,
       PhaseAuthorised

\* No command reaches the server over a connection that is not through the
\* handshake, although is_connected, which decides whether to skip it, is set
\* before it (client.py:235, transport.py:56).
THEOREM CommandsAuthorisedCorrect == Spec => []CommandsAreAuthorised
  <1>1. TypeInv /\ Exclusive /\ WireInv /\ AuthInv /\ [Next]_vars => WireInv' /\ AuthInv'
    BY NextTypeInv, NextWire, WireInvStep, AuthInvStep
  <1>2. AuthInv => CommandsAreAuthorised
    BY DEF AuthInv
  <1> QED
    BY <1>1, <1>2, WireInvInit, AuthInvInit, TypeCorrect, ExclusiveCorrect, PTL DEF Spec
=============================================================================
