---------------------------- MODULE ClientProofs ----------------------------
(***************************************************************************)
(* Theorems about Client, for every set of tasks, every finite set of      *)
(* transports and every bound.                                             *)
(***************************************************************************)
EXTENDS Client, SequenceTheorems, FiniteSetTheorems, TLAPS

-----------------------------------------------------------------------------
(* Types, who is suspended where, and the queue of waiting getters         *)

InFlight == {"connecting", "header", "body", "draining"}

\* A task has a transport exactly while it is suspended inside connect or a
\* transport's request, and close() while it waits for one.
HoldOK ==
    /\ \A t \in Tasks : pc[t] \in InFlight <=> conn[t] # NoConn
    /\ closer = "closing" <=> closing # NoConn

\* The waiting getters are distinct tasks that do wait.
GettersOK ==
    /\ \A i \in 1..Len(getters) : pc[getters[i]] = "waiting"
    /\ \A i, j \in 1..Len(getters) : getters[i] = getters[j] => i = j

TypeInv == TypeOK /\ HoldOK /\ GettersOK

LEMMA WakeNextFacts ==
    ASSUME getters \in Seq(Tasks), GettersOK,
           NEW p \in [Tasks -> States], WakeNext(p),
           \A t \in Tasks : pc[t] = "waiting" => p[t] = "waiting"
    PROVE  /\ getters' \in Seq(Tasks)
           /\ pc' \in [Tasks -> States]
           /\ \A t \in Tasks : pc'[t] = p[t] \/ (p[t] = "waiting" /\ pc'[t] = "woken")
           /\ GettersOK'
  <1>1. CASE getters = <<>>
    BY <1>1 DEF WakeNext, GettersOK
  <1>2. CASE getters # <<>>
    <2>1. /\ pc' = [p EXCEPT ![Head(getters)] = "woken"]
          /\ getters' = Tail(getters)
      BY <1>2 DEF WakeNext
    <2>2. /\ Len(getters) \in Nat \ {0}
          /\ Head(getters) = getters[1]
          /\ Tail(getters) \in Seq(Tasks)
          /\ Len(Tail(getters)) = Len(getters) - 1
          /\ \A i \in 1..Len(Tail(getters)) : Tail(getters)[i] = getters[i+1]
      BY <1>2
    <2>5. \A i \in 1..Len(getters') :
            /\ getters'[i] = getters[i+1]
            /\ getters[i+1] # getters[1]
            /\ pc[getters[i+1]] = "waiting"
            /\ getters[i+1] \in Tasks
      BY <2>1 DEF GettersOK
    <2>7. \A i \in 1..Len(getters') : pc'[getters'[i]] = "waiting"
      BY <2>1, <2>5
    <2> QED
      BY <2>1, <2>2, <2>7 DEF GettersOK, States
  <1> QED
    BY <1>1, <1>2

LEMMA InitTypeInv == Init => TypeInv
  <1> SUFFICES ASSUME Init PROVE TypeInv
    OBVIOUS
  <1>1. pool \in Seq(Conns)
    <2>1. Cardinality(Conns) \in Nat
      BY ConnsAssumption, FS_CardinalityType
    <2>2. pool \in [1..Cardinality(Conns) -> Conns]
      BY DEF Init, SetToSeqs
    <2> QED
      BY <2>1, <2>2
  <1>2. TypeOK
    BY <1>1, BoundsAssumption DEF Init, TypeOK, States, Phases
  <1>3. HoldOK /\ GettersOK
    BY DEF Init, HoldOK, GettersOK, InFlight
  <1> QED
    BY <1>2, <1>3 DEF TypeInv

-----------------------------------------------------------------------------
(* The building blocks of the actions keep the types                       *)

LEMMA TransmitFacts ==
    ASSUME TypeInv, NEW t \in Tasks, NEW c \in Conns, NEW p \in Phases,
           NEW at \in States, Transmit(t, c, p, at)
    PROVE  /\ phase' = [phase EXCEPT ![t] = p]
           /\ phase' \in [Tasks -> Phases]
           /\ rid' \in [Tasks -> Nat]
           /\ nextRid' \in Nat \ {0}
           /\ inbox' \in [Conns -> Seq([rid : Nat, phase : Phases])]
           /\ pc' \in [Tasks -> States]
           /\ pc'[t] = at
           /\ \A u \in Tasks : u # t => pc'[u] = pc[u]
  <1>1. Append(inbox[c], Request(nextRid, p)) \in Seq([rid : Nat, phase : Phases])
    BY AppendProperties DEF TypeInv, TypeOK, Request
  <1>2. inbox' \in [Conns -> Seq([rid : Nat, phase : Phases])]
    BY <1>1 DEF Transmit, TypeInv, TypeOK
  <1>3. /\ pc' \in [Tasks -> States]
        /\ pc'[t] = at
        /\ \A u \in Tasks : u # t => pc'[u] = pc[u]
    BY DEF Transmit, TypeInv, TypeOK
  <1>4. /\ phase' = [phase EXCEPT ![t] = p]
        /\ phase' \in [Tasks -> Phases]
    BY DEF Transmit, TypeInv, TypeOK
  <1>5. rid' \in [Tasks -> Nat] /\ nextRid' \in Nat \ {0}
    BY DEF Transmit, TypeInv, TypeOK
  <1> QED
    BY <1>2, <1>3, <1>4, <1>5

LEMMA TakeFacts ==
    ASSUME TypeInv, NEW t \in Tasks, NEW at \in {"header", "draining"}, Take(t, at)
    PROVE  /\ pool # <<>>
           /\ Head(pool) \in Conns
           /\ pool' = Tail(pool)
           /\ pool' \in Seq(Conns)
           /\ conn' = [conn EXCEPT ![t] = Head(pool)]
           /\ conn' \in [Tasks -> Conns \cup {NoConn}]
           /\ phase' \in [Tasks -> Phases]
           /\ rid' \in [Tasks -> Nat]
           /\ nextRid' \in Nat \ {0}
           /\ inbox' \in [Conns -> Seq([rid : Nat, phase : Phases])]
           /\ pc' \in [Tasks -> States]
           /\ pc'[t] \in InFlight
           /\ \A u \in Tasks : u # t => pc'[u] = pc[u]
  <1>1. pool # <<>> /\ Head(pool) \in Conns /\ Tail(pool) \in Seq(Conns)
    BY DEF Take, TypeInv, TypeOK
  <1>0. /\ pool' = Tail(pool)
        /\ conn' = [conn EXCEPT ![t] = Head(pool)]
        /\ conn' \in [Tasks -> Conns \cup {NoConn}]
    BY DEF Take, TypeInv, TypeOK
  <1>2. CASE connected[Head(pool)]
    <2> PICK c \in Conns : c = Head(pool)
      BY <1>1
    <2>1. Transmit(t, c, "command", at)
      BY <1>2 DEF Take
    <2>2. "command" \in Phases /\ at \in States
      BY DEF Phases, States
    <2>3. /\ phase' \in [Tasks -> Phases]
          /\ rid' \in [Tasks -> Nat]
          /\ nextRid' \in Nat \ {0}
          /\ inbox' \in [Conns -> Seq([rid : Nat, phase : Phases])]
          /\ pc' \in [Tasks -> States]
          /\ pc'[t] = at
          /\ \A u \in Tasks : u # t => pc'[u] = pc[u]
      BY <2>1, <2>2, TransmitFacts
    <2> QED
      BY <1>1, <1>0, <2>3 DEF InFlight
  <1>3. CASE ~connected[Head(pool)]
    BY <1>1, <1>3 DEF Take, TypeInv, TypeOK, InFlight, States, Phases
  <1> QED
    BY <1>2, <1>3

LEMMA ReleaseFacts ==
    ASSUME TypeInv, NEW t \in Tasks, conn[t] \in Conns, pc[t] # "waiting",
           NEW r \in {"returned", "raised"}, Release(t, r)
    PROVE  /\ pool' = Append(pool, conn[t])
           /\ pool' \in Seq(Conns)
           /\ getters' \in Seq(Tasks)
           /\ GettersOK'
           /\ conn' = [conn EXCEPT ![t] = NoConn]
           /\ conn' \in [Tasks -> Conns \cup {NoConn}]
           /\ rid' \in [Tasks -> Nat]
           /\ outcome' \in [Tasks -> {"none", "returned", "raised"}]
           /\ pc' \in [Tasks -> States]
           /\ pc'[t] = "idle"
           /\ \A u \in Tasks : u # t => pc'[u] = pc[u]
                                     \/ (pc[u] = "waiting" /\ pc'[u] = "woken")
  <1> DEFINE p == [pc EXCEPT ![t] = "idle"]
  <1>1. Append(pool, conn[t]) \in Seq(Conns)
    BY DEF TypeInv, TypeOK
  <1>2. /\ p \in [Tasks -> States]
        /\ \A u \in Tasks : pc[u] = "waiting" => p[u] = "waiting"
    BY DEF TypeInv, TypeOK, States
  <1>3. getters \in Seq(Tasks) /\ GettersOK /\ WakeNext(p)
    BY DEF TypeInv, TypeOK, Release
  <1>4. /\ getters' \in Seq(Tasks)
        /\ pc' \in [Tasks -> States]
        /\ \A u \in Tasks : pc'[u] = p[u] \/ (p[u] = "waiting" /\ pc'[u] = "woken")
        /\ GettersOK'
    BY <1>2, <1>3, WakeNextFacts
  <1> QED
    BY <1>1, <1>4 DEF Release, TypeInv, TypeOK

LEMMA RaiseFacts ==
    ASSUME TypeInv, NEW t \in Tasks, conn[t] \in Conns, pc[t] # "waiting", Raise(t)
    PROVE  /\ pool' \in Seq(Conns)
           /\ getters' \in Seq(Tasks)
           /\ GettersOK'
           /\ conn' = [conn EXCEPT ![t] = NoConn]
           /\ conn' \in [Tasks -> Conns \cup {NoConn}]
           /\ phase' \in [Tasks -> Phases]
           /\ rid' \in [Tasks -> Nat]
           /\ outcome' \in [Tasks -> {"none", "returned", "raised"}]
           /\ pc' \in [Tasks -> States]
           /\ pc'[t] = "idle"
           /\ \A u \in Tasks : u # t => pc'[u] = pc[u]
                                     \/ (pc[u] = "waiting" /\ pc'[u] = "woken")
  <1>1. phase' \in [Tasks -> Phases]
    BY DEF Raise, TypeInv, TypeOK, Phases
  <1>2. CASE Release(t, "raised")
    BY <1>1, <1>2, ReleaseFacts
  <1>3. CASE Lose(t)
    <2>1. /\ pc' = [pc EXCEPT ![t] = "idle"]
          /\ UNCHANGED <<pool, getters>>
      BY <1>3 DEF Lose, poolVars
    <2>3. GettersOK'
      BY <2>1 DEF GettersOK, TypeInv
    <2> QED
      BY <1>1, <1>3, <2>1, <2>3 DEF Lose, TypeInv, TypeOK, States
  <1> QED
    BY <1>2, <1>3 DEF Raise

\* GettersOK survives a step that leaves the queue and every waiting task alone.
LEMMA GettersUnchanged ==
    ASSUME TypeInv, UNCHANGED getters,
           \A t \in Tasks : pc[t] = "waiting" => pc'[t] = "waiting"
    PROVE  GettersOK'
  <1>1. \A i \in 1..Len(getters) : getters[i] \in Tasks
    BY DEF TypeInv, TypeOK
  <1> QED
    BY <1>1 DEF TypeInv, GettersOK

\* A task that finds the queue empty goes to the back of the waiting getters.
LEMMA WaitFacts ==
    ASSUME TypeInv, NEW t \in Tasks, pc[t] \in {"idle", "woken"},
           pc' = [pc EXCEPT ![t] = "waiting"],
           getters' = Append(getters, t)
    PROVE  getters' \in Seq(Tasks) /\ GettersOK'
  <1>1. /\ getters \in Seq(Tasks)
        /\ getters' \in Seq(Tasks)
        /\ Len(getters) \in Nat
        /\ Len(getters') = Len(getters) + 1
        /\ \A i \in 1..Len(getters) : getters'[i] = getters[i]
        /\ getters'[Len(getters) + 1] = t
    BY DEF TypeInv, TypeOK
  <1>3. \A i \in 1..Len(getters') : pc'[getters'[i]] = "waiting"
    BY <1>1 DEF TypeInv, TypeOK, GettersOK
  <1>4. \A i, j \in 1..Len(getters') : getters'[i] = getters'[j] => i = j
    BY DEF TypeInv, GettersOK
  <1> QED
    BY <1>1, <1>3, <1>4 DEF GettersOK

-----------------------------------------------------------------------------
(* Every action keeps the types                                            *)

LEMMA TakeOrWaitType ==
    ASSUME TypeInv, NEW t \in Tasks, NEW at \in {"header", "draining"}, pc[t] \in {"idle", "woken"},
           \/ Take(t, at) /\ UNCHANGED getters
           \/ /\ pool = <<>>
              /\ pc' = [pc EXCEPT ![t] = "waiting"]
              /\ getters' = Append(getters, t)
              /\ UNCHANGED <<pool, conn, phase, rid, nextRid, inbox>>,
           UNCHANGED closeVars
    PROVE  /\ pool' \in Seq(Conns)
           /\ getters' \in Seq(Tasks)
           /\ pc' \in [Tasks -> States]
           /\ conn' \in [Tasks -> Conns \cup {NoConn}]
           /\ phase' \in [Tasks -> Phases]
           /\ rid' \in [Tasks -> Nat]
           /\ nextRid' \in Nat \ {0}
           /\ inbox' \in [Conns -> Seq([rid : Nat, phase : Phases])]
           /\ HoldOK'
           /\ GettersOK'
  <1>1. CASE Take(t, at) /\ UNCHANGED getters
    <2>1. /\ pool' \in Seq(Conns)
          /\ Head(pool) \in Conns
          /\ conn' = [conn EXCEPT ![t] = Head(pool)]
          /\ conn' \in [Tasks -> Conns \cup {NoConn}]
          /\ phase' \in [Tasks -> Phases]
          /\ rid' \in [Tasks -> Nat]
          /\ nextRid' \in Nat \ {0}
          /\ inbox' \in [Conns -> Seq([rid : Nat, phase : Phases])]
          /\ pc' \in [Tasks -> States]
          /\ pc'[t] \in InFlight
          /\ \A u \in Tasks : u # t => pc'[u] = pc[u]
      BY <1>1, TakeFacts
    <2>2. HoldOK'
      BY <2>1, ConnsAssumption DEF HoldOK, TypeInv, closeVars
    <2>3. GettersOK'
      BY <1>1, <2>1, GettersUnchanged
    <2> QED
      BY <1>1, <2>1, <2>2, <2>3 DEF TypeInv, TypeOK
  <1>2. CASE /\ pool = <<>>
             /\ pc' = [pc EXCEPT ![t] = "waiting"]
             /\ getters' = Append(getters, t)
             /\ UNCHANGED <<pool, conn, phase, rid, nextRid, inbox>>
    <2>1. getters' \in Seq(Tasks) /\ GettersOK'
      BY <1>2, WaitFacts
    <2>2. pc' \in [Tasks -> States] /\ HoldOK'
      BY <1>2 DEF HoldOK, TypeInv, TypeOK, States, InFlight, closeVars
    <2> QED
      BY <1>2, <2>1, <2>2 DEF TypeInv, TypeOK
  <1> QED
    BY <1>1, <1>2

LEMMA StartType == ASSUME TypeInv, NEW t \in Tasks, Start(t) PROVE TypeInv'
  <1> PICK w \in WaitModes :
        /\ wait' = [wait EXCEPT ![t] = w]
        /\ \/ Take(t, Await(w)) /\ UNCHANGED getters
           \/ /\ pool = <<>>
              /\ pc' = [pc EXCEPT ![t] = "waiting"]
              /\ getters' = Append(getters, t)
              /\ UNCHANGED <<pool, conn, phase, rid, nextRid, inbox>>
    BY DEF Start
  <1>1. UNCHANGED closeVars /\ pc[t] = "idle"
    BY DEF Start
  <1>2. calls' \in 0..MaxCalls
    BY BoundsAssumption DEF Start, TypeInv, TypeOK
  <1>3. /\ wait' \in [Tasks -> BOOLEAN]
        /\ outcome' \in [Tasks -> {"none", "returned", "raised"}]
    BY ModesAssumption DEF Start, TypeInv, TypeOK
  <1>4. /\ pool' \in Seq(Conns)
        /\ getters' \in Seq(Tasks)
        /\ pc' \in [Tasks -> States]
        /\ conn' \in [Tasks -> Conns \cup {NoConn}]
        /\ phase' \in [Tasks -> Phases]
        /\ rid' \in [Tasks -> Nat]
        /\ nextRid' \in Nat \ {0}
        /\ inbox' \in [Conns -> Seq([rid : Nat, phase : Phases])]
        /\ HoldOK'
        /\ GettersOK'
    <2> DEFINE at == Await(w)
    <2> at \in {"header", "draining"}
      BY DEF Await
    <2> QED
      BY <1>1, TakeOrWaitType
  <1>5. UNCHANGED <<connected, alive, stream, authed, closer, closing, cancels, resets>>
    BY DEF Start, sockVars, closeVars, faultVars
  <1> QED
    BY <1>2, <1>3, <1>4, <1>5 DEF TypeInv, TypeOK

LEMMA ResumeType == ASSUME TypeInv, NEW t \in Tasks, Resume(t) PROVE TypeInv'
  <1>1. UNCHANGED closeVars /\ pc[t] = "woken"
    BY DEF Resume
  <1>2. /\ pool' \in Seq(Conns)
        /\ getters' \in Seq(Tasks)
        /\ pc' \in [Tasks -> States]
        /\ conn' \in [Tasks -> Conns \cup {NoConn}]
        /\ phase' \in [Tasks -> Phases]
        /\ rid' \in [Tasks -> Nat]
        /\ nextRid' \in Nat \ {0}
        /\ inbox' \in [Conns -> Seq([rid : Nat, phase : Phases])]
        /\ HoldOK'
        /\ GettersOK'
    <2> PICK at \in {"header", "draining"} : at = Await(wait[t])
      BY DEF Await
    <2>1. \/ Take(t, at) /\ UNCHANGED getters
          \/ /\ pool = <<>>
             /\ pc' = [pc EXCEPT ![t] = "waiting"]
             /\ getters' = Append(getters, t)
             /\ UNCHANGED <<pool, conn, phase, rid, nextRid, inbox>>
      BY DEF Resume
    <2> QED
      BY <1>1, <2>1, TakeOrWaitType
  <1>3. UNCHANGED <<wait, calls, outcome, connected, alive, stream, authed, closer,
                    closing, cancels, resets>>
    BY DEF Resume, callVars, sockVars, closeVars, faultVars
  <1> QED
    BY <1>2, <1>3 DEF TypeInv, TypeOK

LEMMA ConnectType == ASSUME TypeInv, NEW t \in Tasks, Connect(t) PROVE TypeInv'
  <1>0. pc[t] = "connecting" /\ conn[t] \in Conns
    BY DEF Connect, TypeInv, TypeOK, HoldOK, InFlight
  <1> PICK c \in Conns : c = conn[t]
    BY <1>0
  <1>1. Transmit(t, c, "hello", "header") /\ "hello" \in Phases /\ "header" \in States
    BY DEF Connect, Phases, States
  <1>2. /\ phase' \in [Tasks -> Phases]
        /\ rid' \in [Tasks -> Nat]
        /\ nextRid' \in Nat \ {0}
        /\ inbox' \in [Conns -> Seq([rid : Nat, phase : Phases])]
        /\ pc' \in [Tasks -> States]
        /\ pc'[t] = "header"
        /\ \A u \in Tasks : u # t => pc'[u] = pc[u]
    BY <1>1, TransmitFacts
  <1>3. UNCHANGED <<pool, getters, wait, calls, conn, outcome, stream, closer, closing,
                    cancels, resets>>
    BY DEF Connect, poolVars, callVars, closeVars, faultVars
  <1>4. HoldOK' /\ GettersOK'
    BY <1>0, <1>2, <1>3, GettersUnchanged DEF TypeInv, HoldOK, InFlight
  <1>5. /\ connected' \in [Conns -> BOOLEAN]
        /\ alive' \in [Conns -> BOOLEAN]
        /\ authed' \in [Conns -> BOOLEAN]
    BY DEF Connect, TypeInv, TypeOK
  <1> QED
    BY <1>2, <1>3, <1>4, <1>5 DEF TypeInv, TypeOK

\* What a call that ends leaves of HoldOK.
LEMMA EndHold ==
    ASSUME TypeInv, NEW t \in Tasks, UNCHANGED <<closer, closing>>,
           conn' = [conn EXCEPT ![t] = NoConn],
           pc'[t] = "idle",
           \A u \in Tasks : u # t => pc'[u] = pc[u]
                                   \/ (pc[u] = "waiting" /\ pc'[u] = "woken")
    PROVE  HoldOK'
  BY DEF TypeInv, TypeOK, HoldOK, InFlight

\* A step that raises out of a request and otherwise only consumes bytes.
LEMMA RaiseType ==
    ASSUME TypeInv, NEW t \in Tasks, pc[t] \in InFlight, Raise(t),
           UNCHANGED <<wait, calls, connected, alive, inbox, authed, closer, closing, nextRid>>,
           cancels' \in 0..MaxCancels, resets' \in 0..MaxResets,
           stream' \in [Conns -> Seq([kind : {"header", "body"}, rid : Nat, ok : BOOLEAN])]
    PROVE  TypeInv'
  <1>1. conn[t] \in Conns /\ pc[t] # "waiting"
    BY DEF TypeInv, TypeOK, HoldOK, InFlight
  <1>2. /\ pool' \in Seq(Conns)
        /\ getters' \in Seq(Tasks)
        /\ GettersOK'
        /\ conn' = [conn EXCEPT ![t] = NoConn]
        /\ conn' \in [Tasks -> Conns \cup {NoConn}]
        /\ phase' \in [Tasks -> Phases]
        /\ rid' \in [Tasks -> Nat]
        /\ outcome' \in [Tasks -> {"none", "returned", "raised"}]
        /\ pc' \in [Tasks -> States]
        /\ pc'[t] = "idle"
        /\ \A u \in Tasks : u # t => pc'[u] = pc[u]
                                  \/ (pc[u] = "waiting" /\ pc'[u] = "woken")
    BY <1>1, RaiseFacts
  <1>3. HoldOK'
    BY <1>2, EndHold
  <1> QED
    BY <1>2, <1>3 DEF TypeInv, TypeOK

LEMMA ConnectFailsType == ASSUME TypeInv, NEW t \in Tasks, ConnectFails(t) PROVE TypeInv'
  <1>1. /\ pc[t] \in InFlight
        /\ Raise(t)
        /\ UNCHANGED <<wait, calls, connected, alive, inbox, stream, authed, closer,
                       closing, nextRid, cancels, resets>>
    BY DEF ConnectFails, InFlight, callVars, sockVars, wireVars, closeVars, faultVars
  <1>2. /\ cancels' \in 0..MaxCancels /\ resets' \in 0..MaxResets
        /\ stream' \in [Conns -> Seq([kind : {"header", "body"}, rid : Nat, ok : BOOLEAN])]
    BY <1>1 DEF TypeInv, TypeOK
  <1> QED
    BY <1>1, <1>2, RaiseType

\* Consuming the head of a stream, or all of it, leaves a stream.
LEMMA ConsumeType ==
    ASSUME TypeInv, NEW c \in Conns,
           \/ stream' = stream
           \/ stream[c] # <<>> /\ stream' = [stream EXCEPT ![c] = Tail(@)]
           \/ stream' = [stream EXCEPT ![c] = <<>>]
    PROVE  stream' \in [Conns -> Seq([kind : {"header", "body"}, rid : Nat, ok : BOOLEAN])]
  <1> DEFINE U == [kind : {"header", "body"}, rid : Nat, ok : BOOLEAN]
  <1>1. stream \in [Conns -> Seq(U)]
    BY DEF TypeInv, TypeOK
  <1>2. stream[c] # <<>> => Tail(stream[c]) \in Seq(U)
    BY <1>1
  <1>3. <<>> \in Seq(U)
    OBVIOUS
  <1> HIDE DEF U
  <1>4. stream' \in [Conns -> Seq(U)]
    BY <1>1, <1>2, <1>3
  <1> QED
    BY <1>4 DEF U

LEMMA ReadHeaderType == ASSUME TypeInv, NEW t \in Tasks, ReadHeader(t) PROVE TypeInv'
  <1>0. pc[t] = "header" /\ conn[t] \in Conns
    BY DEF ReadHeader, TypeInv, TypeOK, HoldOK, InFlight
  <1>1. /\ pc' = [pc EXCEPT ![t] = "body"]
        /\ UNCHANGED <<pool, getters, wait, calls, conn, phase, rid, outcome, connected,
                       alive, inbox, authed, closer, closing, nextRid, cancels, resets>>
    BY DEF ReadHeader, poolVars, callVars, localVars, sockVars, closeVars, faultVars
  <1>2. stream' \in [Conns -> Seq([kind : {"header", "body"}, rid : Nat, ok : BOOLEAN])]
    <2> PICK c \in Conns : c = conn[t]
      BY <1>0
    <2>1. stream[c] # <<>> /\ stream' = [stream EXCEPT ![c] = Tail(@)]
      BY DEF ReadHeader
    <2> QED
      BY <2>1, ConsumeType
  <1>3. HoldOK'
    BY <1>0, <1>1 DEF TypeInv, HoldOK, InFlight
  <1>4. GettersOK'
    BY <1>0, <1>1, GettersUnchanged
  <1> QED
    BY <1>1, <1>2, <1>3, <1>4 DEF TypeInv, TypeOK, States

LEMMA RejectHeaderType == ASSUME TypeInv, NEW t \in Tasks, RejectHeader(t) PROVE TypeInv'
  <1>0. pc[t] \in InFlight /\ conn[t] \in Conns
    BY DEF RejectHeader, TypeInv, TypeOK, HoldOK, InFlight
  <1>1. /\ Raise(t)
        /\ UNCHANGED <<wait, calls, connected, alive, inbox, authed, closer, closing,
                       nextRid, cancels, resets>>
    BY DEF RejectHeader, callVars, sockVars, closeVars, faultVars
  <1>2. stream' \in [Conns -> Seq([kind : {"header", "body"}, rid : Nat, ok : BOOLEAN])]
    <2> PICK c \in Conns : c = conn[t]
      BY <1>0
    <2>1. \/ stream' = stream
          \/ stream[c] # <<>> /\ stream' = [stream EXCEPT ![c] = Tail(@)]
      BY DEF RejectHeader
    <2> QED
      BY <2>1, ConsumeType
  <1>3. cancels' \in 0..MaxCancels /\ resets' \in 0..MaxResets
    BY <1>1 DEF TypeInv, TypeOK
  <1> QED
    BY <1>0, <1>1, <1>2, <1>3, RaiseType

LEMMA ReadBodyType == ASSUME TypeInv, NEW t \in Tasks, ReadBody(t) PROVE TypeInv'
  <1>0. pc[t] = "body" /\ pc[t] \in InFlight /\ conn[t] \in Conns
    BY DEF ReadBody, TypeInv, TypeOK, HoldOK, InFlight
  <1> PICK c \in Conns : c = conn[t]
    BY <1>0
  <1>1. UNCHANGED <<wait, calls, connected, alive, authed, closer, closing, cancels, resets>>
    BY DEF ReadBody, callVars, sockVars, closeVars, faultVars
  <1>2. stream' \in [Conns -> Seq([kind : {"header", "body"}, rid : Nat, ok : BOOLEAN])]
    <2>1. stream[c] # <<>> /\ stream' = [stream EXCEPT ![c] = Tail(@)]
      BY DEF ReadBody
    <2> QED
      BY <2>1, ConsumeType
  <1>3. cancels' \in 0..MaxCancels /\ resets' \in 0..MaxResets
    BY <1>1 DEF TypeInv, TypeOK
  <1>4. CASE Raise(t) /\ UNCHANGED <<nextRid, inbox>>
    BY <1>0, <1>1, <1>2, <1>3, <1>4, RaiseType
  <1>5. CASE Release(t, "returned") /\ UNCHANGED <<phase, nextRid, inbox>>
    <2>1. /\ pool' \in Seq(Conns)
          /\ getters' \in Seq(Tasks)
          /\ GettersOK'
          /\ conn' = [conn EXCEPT ![t] = NoConn]
          /\ conn' \in [Tasks -> Conns \cup {NoConn}]
          /\ rid' \in [Tasks -> Nat]
          /\ outcome' \in [Tasks -> {"none", "returned", "raised"}]
          /\ pc' \in [Tasks -> States]
          /\ pc'[t] = "idle"
          /\ \A u \in Tasks : u # t => pc'[u] = pc[u]
                                    \/ (pc[u] = "waiting" /\ pc'[u] = "woken")
      BY <1>0, <1>5, ReleaseFacts
    <2>2. HoldOK'
      BY <1>1, <2>1, EndHold
    <2> QED
      BY <1>1, <1>2, <1>5, <2>1, <2>2 DEF TypeInv, TypeOK
  <1>6. CASE /\ Transmit(t, c, NextPhase(phase[t]),
                         IF NextPhase(phase[t]) = "command" THEN Await(wait[t]) ELSE "header")
             /\ UNCHANGED <<poolVars, conn, outcome>>
    <2>1. PICK p \in Phases : p = NextPhase(phase[t])
      BY DEF NextPhase, Phases
    <2>2. PICK at \in States :
              /\ at = IF p = "command" THEN Await(wait[t]) ELSE "header"
              /\ at \in InFlight
      BY DEF States, Await, InFlight
    <2>3. Transmit(t, c, p, at)
      BY <1>6, <2>1, <2>2
    <2>4. /\ phase' \in [Tasks -> Phases]
          /\ rid' \in [Tasks -> Nat]
          /\ nextRid' \in Nat \ {0}
          /\ inbox' \in [Conns -> Seq([rid : Nat, phase : Phases])]
          /\ pc' \in [Tasks -> States]
          /\ pc'[t] = at
          /\ \A u \in Tasks : u # t => pc'[u] = pc[u]
      BY <2>3, TransmitFacts
    <2>5. HoldOK'
      BY <1>0, <1>1, <1>6, <2>2, <2>4 DEF TypeInv, HoldOK
    <2>6. UNCHANGED <<pool, getters, conn, outcome>>
      BY <1>6 DEF poolVars
    <2>7. GettersOK'
      BY <1>0, <2>4, <2>6, GettersUnchanged
    <2> QED
      BY <1>1, <1>2, <2>4, <2>5, <2>6, <2>7 DEF TypeInv, TypeOK
  <1> QED
    BY <1>4, <1>5, <1>6 DEF ReadBody

LEMMA DrainedType == ASSUME TypeInv, NEW t \in Tasks, Drained(t) PROVE TypeInv'
  <1>1. /\ pc[t] \in InFlight
        /\ Release(t, "returned")
        /\ UNCHANGED <<wait, calls, phase, connected, alive, inbox, stream, authed, closer,
                       closing, nextRid, cancels, resets>>
    BY DEF Drained, InFlight, callVars, sockVars, wireVars, closeVars, faultVars
  <1>2. conn[t] \in Conns /\ pc[t] # "waiting"
    BY <1>1 DEF TypeInv, TypeOK, HoldOK, InFlight
  <1>3. /\ pool' \in Seq(Conns)
        /\ getters' \in Seq(Tasks)
        /\ GettersOK'
        /\ conn' = [conn EXCEPT ![t] = NoConn]
        /\ conn' \in [Tasks -> Conns \cup {NoConn}]
        /\ rid' \in [Tasks -> Nat]
        /\ outcome' \in [Tasks -> {"none", "returned", "raised"}]
        /\ pc' \in [Tasks -> States]
        /\ pc'[t] = "idle"
        /\ \A u \in Tasks : u # t => pc'[u] = pc[u]
                                  \/ (pc[u] = "waiting" /\ pc'[u] = "woken")
    BY <1>1, <1>2, ReleaseFacts
  <1>4. HoldOK'
    BY <1>1, <1>3, EndHold
  <1> QED
    BY <1>1, <1>3, <1>4 DEF TypeInv, TypeOK

LEMMA SocketFailsType == ASSUME TypeInv, NEW t \in Tasks, SocketFails(t) PROVE TypeInv'
  <1>1. /\ pc[t] \in InFlight
        /\ Raise(t)
        /\ UNCHANGED <<wait, calls, connected, alive, inbox, authed, closer, closing,
                       nextRid, cancels, resets>>
    BY DEF SocketFails, InFlight, callVars, sockVars, closeVars, faultVars
  <1>2. stream' \in [Conns -> Seq([kind : {"header", "body"}, rid : Nat, ok : BOOLEAN])]
    <2>1. PICK c \in Conns : c = conn[t]
      BY <1>1 DEF TypeInv, TypeOK, HoldOK
    <2>2. stream' = stream \/ stream' = [stream EXCEPT ![c] = <<>>]
      BY <2>1 DEF SocketFails
    <2> QED
      BY <2>2, ConsumeType
  <1>3. cancels' \in 0..MaxCancels /\ resets' \in 0..MaxResets
    BY <1>1 DEF TypeInv, TypeOK
  <1> QED
    BY <1>1, <1>2, <1>3, RaiseType

LEMMA CancelCallType == ASSUME TypeInv, NEW t \in Tasks, CancelCall(t) PROVE TypeInv'
  <1>1. /\ pc[t] \in InFlight
        /\ Raise(t)
        /\ UNCHANGED <<wait, calls, connected, alive, inbox, stream, authed, closer,
                       closing, nextRid, resets>>
    BY DEF CancelCall, InFlight, callVars, sockVars, wireVars, closeVars
  <1>2. cancels' \in 0..MaxCancels /\ resets' \in 0..MaxResets
    BY BoundsAssumption DEF CancelCall, TypeInv, TypeOK
  <1>3. stream' \in [Conns -> Seq([kind : {"header", "body"}, rid : Nat, ok : BOOLEAN])]
    BY <1>1 DEF TypeInv, TypeOK
  <1> QED
    BY <1>1, <1>2, <1>3, RaiseType

\* What RemoveAt leaves of a sequence.
LEMMA RemoveAtProperties ==
    ASSUME NEW S, NEW s \in Seq(S), NEW i \in 1..Len(s)
    PROVE  /\ RemoveAt(s, i) \in Seq(S)
           /\ Len(RemoveAt(s, i)) = Len(s) - 1
           /\ \A j \in 1..(Len(s)-1) :
                 RemoveAt(s, i)[j] = IF j < i THEN s[j] ELSE s[j+1]
  <1> DEFINE n == Len(s)
             a == SubSeq(s, 1, i-1)
             b == SubSeq(s, i+1, n)
  <1>1. n \in Nat /\ \A j \in 1..n : s[j] \in S
    OBVIOUS
  <1>2. /\ a \in Seq(S)
        /\ Len(a) = i-1
        /\ \A j \in 1..(i-1) : a[j] = s[j]
    <2> QED
      OBVIOUS
  <1>3. /\ b \in Seq(S)
        /\ Len(b) = n-i
        /\ \A j \in 1..(n-i) : b[j] = s[i+j]
    <2> QED
      OBVIOUS
  <1>4. RemoveAt(s, i) = a \o b
    BY DEF RemoveAt
  <1> HIDE DEF n, a, b
  <1>5. /\ a \o b \in Seq(S)
        /\ Len(a \o b) = Len(a) + Len(b)
        /\ \A j \in 1..(Len(a) + Len(b)) :
              (a \o b)[j] = IF j <= Len(a) THEN a[j] ELSE b[j - Len(a)]
    BY <1>2, <1>3, ConcatProperties
  <1>7. Len(a) + Len(b) = n - 1
    BY <1>1, <1>2, <1>3
  <1>8. \A j \in 1..(n-1) : (a \o b)[j] = IF j < i THEN s[j] ELSE s[j+1]
    <2> TAKE j \in 1..(n-1)
    <2>1. CASE j < i
      <3> QED
        BY <1>2, <2>1
    <2>2. CASE ~(j < i)
      <3>1. /\ j - (i-1) \in 1..(n-i)
            /\ i + (j-(i-1)) = j + 1
            /\ ~(j <= i-1)
        BY <1>1, <2>2
      <3>2. (a \o b)[j] = b[j-(i-1)]
        BY <1>2, <1>7, <3>1
      <3> QED
        BY <1>3, <3>1, <3>2
    <2> QED
      BY <2>1, <2>2
  <1> QED
    BY <1>4, <1>5, <1>7, <1>8 DEF n

\* Taking one getter out of the queue keeps the others in it, in their order.
LEMMA RemoveGetter ==
    ASSUME TypeInv, NEW t \in Tasks, NEW i \in 1..Len(getters), getters[i] = t,
           getters' = RemoveAt(getters, i),
           pc' = [pc EXCEPT ![t] = "idle"]
    PROVE  getters' \in Seq(Tasks) /\ GettersOK'
  <1> DEFINE n == Len(getters)
  <1>1. getters \in Seq(Tasks) /\ n \in Nat /\ (\A j \in 1..n : getters[j] \in Tasks)
    BY DEF TypeInv, TypeOK
  <1>4. /\ getters' \in Seq(Tasks)
        /\ Len(getters') = n - 1
        /\ \A j \in 1..(n-1) : getters'[j] = IF j < i THEN getters[j] ELSE getters[j+1]
    BY <1>1, RemoveAtProperties
  <1>6. \A j \in 1..(n-1) : /\ getters'[j] \in Tasks \ {t}
                            /\ pc[getters'[j]] = "waiting"
    BY <1>4 DEF TypeInv, GettersOK
  <1>7. \A j, k \in 1..(n-1) : getters'[j] = getters'[k] => j = k
    BY <1>4 DEF TypeInv, GettersOK
  <1> QED
    BY <1>4, <1>6, <1>7 DEF GettersOK

LEMMA CancelGetType == ASSUME TypeInv, NEW t \in Tasks, CancelGet(t) PROVE TypeInv'
  <1>1. /\ UNCHANGED <<pool, wait, calls, conn, phase, rid, connected, alive, inbox, stream,
                       authed, closer, closing, nextRid, resets>>
        /\ pc[t] \in {"waiting", "woken"}
        /\ outcome' \in [Tasks -> {"none", "returned", "raised"}]
    BY DEF CancelGet, callVars, localVars, sockVars, wireVars, closeVars, TypeInv, TypeOK
  <1>2. cancels' \in 0..MaxCancels
    BY BoundsAssumption DEF CancelGet, TypeInv, TypeOK
  <1>3. CASE /\ pc' = [pc EXCEPT ![t] = "idle"]
             /\ \/ pc[t] = "woken" /\ UNCHANGED getters
                \/ \E i \in 1..Len(getters) :
                        getters[i] = t /\ getters' = RemoveAt(getters, i)
    <2>1. pc' \in [Tasks -> States] /\ HoldOK'
      BY <1>1, <1>3 DEF TypeInv, TypeOK, HoldOK, InFlight, States
    <2>2. CASE pc[t] = "woken" /\ UNCHANGED getters
      <3>2. getters' \in Seq(Tasks) /\ GettersOK'
        BY <1>3, <2>2 DEF TypeInv, TypeOK, GettersOK
      <3> QED
        BY <1>1, <1>2, <2>1, <3>2 DEF TypeInv, TypeOK
    <2>3. CASE \E i \in 1..Len(getters) : getters[i] = t /\ getters' = RemoveAt(getters, i)
      <3>1. getters' \in Seq(Tasks) /\ GettersOK'
        BY <1>3, <2>3, RemoveGetter
      <3> QED
        BY <1>1, <1>2, <2>1, <3>1 DEF TypeInv, TypeOK
    <2> QED
      BY <1>3, <2>2, <2>3
  <1>4. CASE pc[t] = "woken" /\ WakeNext([pc EXCEPT ![t] = "idle"])
    <2> DEFINE p == [pc EXCEPT ![t] = "idle"]
    <2>1. /\ p \in [Tasks -> States]
          /\ \A u \in Tasks : pc[u] = "waiting" => p[u] = "waiting"
      BY <1>4 DEF TypeInv, TypeOK, States
    <2>2. /\ getters' \in Seq(Tasks)
          /\ pc' \in [Tasks -> States]
          /\ \A u \in Tasks : pc'[u] = p[u] \/ (p[u] = "waiting" /\ pc'[u] = "woken")
          /\ GettersOK'
      BY <1>4, <2>1, WakeNextFacts DEF TypeInv, TypeOK
    <2>3. HoldOK'
      BY <1>1, <2>2 DEF TypeInv, HoldOK, InFlight
    <2> QED
      BY <1>1, <1>2, <2>2, <2>3 DEF TypeInv, TypeOK
  <1> QED
    BY <1>3, <1>4 DEF CancelGet

LEMMA SweepType ==
    ASSUME TypeInv, Sweep
    PROVE  /\ pool' \in Seq(Conns)
           /\ closer' \in {"closing", "closed"}
           /\ closing' \in Conns \cup {NoConn}
           /\ closer' = "closing" <=> closing' # NoConn
  <1> PICK n \in 0..Len(pool) :
        \/ /\ n = Len(pool)
           /\ pool' = <<>>
           /\ closer' = "closed"
           /\ closing' = NoConn
        \/ /\ n < Len(pool)
           /\ pool' = SubSeq(pool, n + 2, Len(pool))
           /\ closer' = "closing"
           /\ closing' = pool[n+1]
    BY DEF Sweep
  <1>1. /\ pool \in Seq(Conns)
        /\ Len(pool) \in Nat
        /\ \A i \in 1..Len(pool) : pool[i] \in Conns
    BY DEF TypeInv, TypeOK
  <1>2. n < Len(pool) => pool[n+1] \in Conns
    BY <1>1
  <1>3. SubSeq(pool, n + 2, Len(pool)) \in Seq(Conns)
    <2>1. n + 2 \in Int /\ Len(pool) \in Int /\ \A i \in (n+2)..Len(pool) : pool[i] \in Conns
      BY <1>1
    <2> QED
      BY <2>1
  <1>4. CASE n = Len(pool) /\ pool' = <<>> /\ closer' = "closed" /\ closing' = NoConn
    BY <1>4
  <1>5. CASE /\ n < Len(pool)
             /\ pool' = SubSeq(pool, n + 2, Len(pool))
             /\ closer' = "closing"
             /\ closing' = pool[n+1]
    BY <1>2, <1>3, <1>5, ConnsAssumption
  <1> QED
    BY <1>4, <1>5

LEMMA CloseStartType == ASSUME TypeInv, CloseStart PROVE TypeInv'
  <1>1. UNCHANGED <<getters, pc, wait, calls, conn, phase, rid, outcome, connected, alive,
                    inbox, stream, authed, nextRid, cancels, resets>>
    BY DEF CloseStart, callVars, localVars, sockVars, wireVars, faultVars
  <1>2. /\ pool' \in Seq(Conns)
        /\ closer' \in {"closing", "closed"}
        /\ closing' \in Conns \cup {NoConn}
        /\ closer' = "closing" <=> closing' # NoConn
    BY SweepType DEF CloseStart
  <1> QED
    BY <1>1, <1>2 DEF TypeInv, TypeOK, HoldOK, GettersOK

LEMMA CloseNextType == ASSUME TypeInv, CloseNext PROVE TypeInv'
  <1>1. UNCHANGED <<getters, pc, wait, calls, conn, phase, rid, outcome, connected,
                    stream, authed, nextRid, cancels, resets>>
    BY DEF CloseNext, callVars, localVars, faultVars
  <1>2. /\ pool' \in Seq(Conns)
        /\ closer' \in {"closing", "closed"}
        /\ closing' \in Conns \cup {NoConn}
        /\ closer' = "closing" <=> closing' # NoConn
    BY SweepType DEF CloseNext
  <1>3. /\ alive' \in [Conns -> BOOLEAN]
        /\ inbox' \in [Conns -> Seq([rid : Nat, phase : Phases])]
    <2> DEFINE M == [rid : Nat, phase : Phases]
    <2>1. /\ inbox \in [Conns -> Seq(M)] /\ inbox' = [inbox EXCEPT ![closing] = <<>>]
          /\ alive \in [Conns -> BOOLEAN] /\ alive' = [alive EXCEPT ![closing] = FALSE]
      BY DEF CloseNext, TypeInv, TypeOK
    <2> HIDE DEF M
    <2>3. PICK c \in Conns : c = closing
      BY DEF CloseNext, TypeInv, TypeOK, HoldOK
    <2>2. inbox' \in [Conns -> Seq(M)] /\ alive' \in [Conns -> BOOLEAN]
      BY <2>1, <2>3
    <2> QED
      BY <2>2 DEF M
  <1> QED
    BY <1>1, <1>2, <1>3 DEF TypeInv, TypeOK, HoldOK, GettersOK

LEMMA CloseRaisesType == ASSUME TypeInv, CloseRaises PROVE TypeInv'
  <1>1. UNCHANGED <<pool, getters, pc, wait, calls, conn, phase, rid, outcome, connected,
                    alive, inbox, stream, authed, nextRid, cancels, resets>>
    BY DEF CloseRaises, poolVars, callVars, localVars, sockVars, wireVars, faultVars
  <1>2. closer' = "failed" /\ closing' = NoConn
    BY DEF CloseRaises
  <1> QED
    BY <1>1, <1>2 DEF TypeInv, TypeOK, HoldOK, GettersOK

LEMMA ServeType == ASSUME TypeInv, NEW c \in Conns, Serve(c) PROVE TypeInv'
  <1> DEFINE U == [kind : {"header", "body"}, rid : Nat, ok : BOOLEAN]
             M == [rid : Nat, phase : Phases]
             m == Head(inbox[c])
  <1>1. UNCHANGED <<pool, getters, pc, wait, calls, conn, phase, rid, outcome, connected,
                    alive, closer, closing, nextRid, cancels, resets>>
    BY DEF Serve, poolVars, callVars, localVars, sockVars, closeVars, faultVars
  <1>2. inbox[c] \in Seq(M) /\ inbox[c] # <<>> /\ stream[c] \in Seq(U)
    BY DEF Serve, TypeInv, TypeOK
  <1>3. Tail(inbox[c]) \in Seq(M) /\ m \in M
    BY <1>2, HeadTailProperties
  <1>4. inbox' \in [Conns -> Seq(M)]
    <2> HIDE DEF M, m
    <2>1. inbox \in [Conns -> Seq(M)] /\ inbox' = [inbox EXCEPT ![c] = Tail(@)]
      BY DEF Serve, TypeInv, TypeOK, M
    <2> QED
      BY <1>3, <2>1
  <1>5. PICK ok \in BOOLEAN :
          /\ stream' = [stream EXCEPT ![c] = @ \o <<Header(m.rid, ok), Body(m.rid, ok)>>]
          /\ authed' = [authed EXCEPT ![c] = @ \/ (ok /\ m.phase = "saslContinue")]
    BY DEF Serve
  <1>6. m.rid \in Nat
    BY <1>3
  <1>7. Header(m.rid, ok) \in U /\ Body(m.rid, ok) \in U
    BY <1>6 DEF Header, Body
  <1>8. <<Header(m.rid, ok), Body(m.rid, ok)>> \in Seq(U)
    <2> HIDE DEF U, m
    <2> QED
      BY <1>7
  <1>9. stream' \in [Conns -> Seq(U)]
    <2> DEFINE new == stream[c] \o <<Header(m.rid, ok), Body(m.rid, ok)>>
    <2>1. stream \in [Conns -> Seq(U)]
      BY DEF TypeInv, TypeOK
    <2> HIDE DEF U, m
    <2>2. new \in Seq(U)
      BY <1>2, <1>8
    <2>3. stream' = [stream EXCEPT ![c] = new]
      BY <1>5
    <2> HIDE DEF new
    <2> QED
      BY <2>1, <2>2, <2>3
  <1>10. authed' \in [Conns -> BOOLEAN]
    BY <1>5 DEF TypeInv, TypeOK
  <1> QED
    BY <1>1, <1>4, <1>9, <1>10 DEF TypeInv, TypeOK, HoldOK, GettersOK

LEMMA ResetType == ASSUME TypeInv, NEW c \in Conns, Reset(c) PROVE TypeInv'
  <1> DEFINE U == [kind : {"header", "body"}, rid : Nat, ok : BOOLEAN]
  <1>1. UNCHANGED <<pool, getters, pc, wait, calls, conn, phase, rid, outcome, connected,
                    authed, closer, closing, nextRid, cancels>>
    BY DEF Reset, poolVars, callVars, localVars, closeVars
  <1>2. resets' \in 0..MaxResets
    BY BoundsAssumption DEF Reset, TypeInv, TypeOK
  <1>3. /\ alive' \in [Conns -> BOOLEAN]
        /\ inbox' \in [Conns -> Seq([rid : Nat, phase : Phases])]
    <2> DEFINE M == [rid : Nat, phase : Phases]
    <2>1. /\ inbox \in [Conns -> Seq(M)] /\ inbox' = [inbox EXCEPT ![c] = <<>>]
          /\ alive \in [Conns -> BOOLEAN] /\ alive' = [alive EXCEPT ![c] = FALSE]
      BY DEF Reset, TypeInv, TypeOK
    <2> HIDE DEF M
    <2>2. inbox' \in [Conns -> Seq(M)] /\ alive' \in [Conns -> BOOLEAN]
      BY <2>1
    <2> QED
      BY <2>2 DEF M
  <1>4. PICK n \in 0..Len(stream[c]) : stream' = [stream EXCEPT ![c] = SubSeq(@, 1, n)]
    BY DEF Reset
  <1>5. stream \in [Conns -> Seq(U)]
    BY DEF TypeInv, TypeOK
  <1>6. stream' \in [Conns -> Seq(U)]
    <2> HIDE DEF U
    <2> QED
      BY <1>4, <1>5
  <1> QED
    BY <1>1, <1>2, <1>3, <1>6 DEF TypeInv, TypeOK, HoldOK, GettersOK

LEMMA NextTypeInv == TypeInv /\ [Next]_vars => TypeInv'
  <1> SUFFICES ASSUME TypeInv, [Next]_vars PROVE TypeInv'
    OBVIOUS
  <1>1. CASE UNCHANGED vars
    BY <1>1 DEF vars, TypeInv, TypeOK, HoldOK, GettersOK
  <1>2. CASE \E t \in Tasks : Start(t) \/ TaskStep(t) \/ CancelGet(t) \/ CancelCall(t)
    BY <1>2, StartType, ResumeType, ConnectType, ConnectFailsType, ReadHeaderType,
       RejectHeaderType, ReadBodyType, DrainedType, SocketFailsType, CancelGetType,
       CancelCallType DEF TaskStep
  <1>3. CASE CloseStart \/ CloseNext \/ CloseRaises
    BY <1>3, CloseStartType, CloseNextType, CloseRaisesType
  <1>4. CASE \E c \in Conns : Serve(c) \/ Reset(c)
    BY <1>4, ServeType, ResetType
  <1> QED
    BY <1>1, <1>2, <1>3, <1>4 DEF Next

\* The client's variables keep their types, a task holds a transport exactly
\* while it is inside connect or a request, and the futures in the queue belong
\* to distinct tasks that wait (client.py:234-251).
THEOREM TypeCorrect == Spec => [](TypeInv /\ TypeOK)
  <1>1. TypeInv => TypeOK
    BY DEF TypeInv
  <1> QED
    BY <1>1, InitTypeInv, NextTypeInv, PTL DEF Spec

-----------------------------------------------------------------------------
(* Where transports are: what a step can do to pool, conn and closing      *)

\* A task gets the transport at the front of the queue.
TakeMove(t) ==
    /\ pool # <<>>
    /\ conn[t] = NoConn
    /\ pool' = Tail(pool)
    /\ conn' = [conn EXCEPT ![t] = Head(pool)]
    /\ closing' = closing

\* A task puts its transport back.
PutMove(t) ==
    /\ conn[t] # NoConn
    /\ pool' = Append(pool, conn[t])
    /\ conn' = [conn EXCEPT ![t] = NoConn]
    /\ closing' = closing

\* A task forgets its transport.
DropMove(t) ==
    /\ conn' = [conn EXCEPT ![t] = NoConn]
    /\ UNCHANGED <<pool, closing>>

\* close() goes through the queue, or ends with an exception.
SweepMove == Sweep /\ UNCHANGED conn
FailMove == closing' = NoConn /\ UNCHANGED <<pool, conn>>

Move ==
    \/ \E t \in Tasks : TakeMove(t) \/ PutMove(t) \/ DropMove(t)
    \/ SweepMove \/ FailMove
    \/ UNCHANGED <<pool, conn, closing>>

LEMMA RaiseMove ==
    ASSUME TypeInv, NEW t \in Tasks, pc[t] \in InFlight, Raise(t), closing' = closing
    PROVE  PutMove(t) \/ DropMove(t)
  <1>1. conn[t] # NoConn
    BY DEF TypeInv, HoldOK
  <1>2. CASE Release(t, "raised")
    BY <1>1, <1>2 DEF Release, PutMove
  <1>3. CASE Lose(t)
    BY <1>3 DEF Lose, DropMove, poolVars
  <1> QED
    BY <1>2, <1>3 DEF Raise

LEMMA TakeOrWaitMove ==
    ASSUME TypeInv, NEW t \in Tasks, NEW at \in {"header", "draining"},
           pc[t] \in {"idle", "woken"}, closing' = closing,
           \/ Take(t, at) /\ UNCHANGED getters
           \/ UNCHANGED <<pool, conn>>
    PROVE  TakeMove(t) \/ UNCHANGED <<pool, conn, closing>>
  <1>1. conn[t] = NoConn
    BY DEF TypeInv, HoldOK, InFlight
  <1> QED
    BY <1>1 DEF Take, TakeMove

LEMMA NextMove == TypeInv /\ [Next]_vars => Move
  <1> SUFFICES ASSUME TypeInv, [Next]_vars PROVE Move
    OBVIOUS
  <1>1. CASE UNCHANGED vars
    BY <1>1 DEF vars, Move
  <1>2. ASSUME NEW t \in Tasks, Start(t) PROVE Move
    <2>1. PICK w \in WaitModes :
            \/ Take(t, Await(w)) /\ UNCHANGED getters
            \/ UNCHANGED <<pool, conn>>
      BY <1>2 DEF Start
    <2>2. PICK at \in {"header", "draining"} : at = Await(w)
      BY DEF Await
    <2>3. \/ Take(t, at) /\ UNCHANGED getters
          \/ UNCHANGED <<pool, conn>>
      BY <2>1, <2>2
    <2>4. closing' = closing /\ pc[t] \in {"idle", "woken"}
      BY <1>2 DEF Start, closeVars
    <2> QED
      BY <2>3, <2>4, TakeOrWaitMove DEF Move
  <1>3. ASSUME NEW t \in Tasks, Resume(t) PROVE Move
    <2>1. PICK at \in {"header", "draining"} : at = Await(wait[t])
      BY DEF Await
    <2>2. \/ Take(t, at) /\ UNCHANGED getters
          \/ UNCHANGED <<pool, conn>>
      BY <1>3, <2>1 DEF Resume
    <2>3. closing' = closing /\ pc[t] \in {"idle", "woken"}
      BY <1>3 DEF Resume, closeVars
    <2> QED
      BY <2>2, <2>3, TakeOrWaitMove DEF Move
  <1>4. ASSUME NEW t \in Tasks,
               \/ ConnectFails(t) \/ RejectHeader(t) \/ SocketFails(t) \/ CancelCall(t)
        PROVE  Move
    <2>1. pc[t] \in InFlight /\ Raise(t) /\ closing' = closing
      BY <1>4 DEF ConnectFails, RejectHeader, SocketFails, CancelCall, InFlight, closeVars
    <2> QED
      BY <2>1, RaiseMove DEF Move
  <1>5. ASSUME NEW t \in Tasks, Connect(t) \/ ReadHeader(t) \/ CancelGet(t) PROVE Move
    BY <1>5 DEF Connect, ReadHeader, CancelGet, Move, poolVars, localVars, closeVars
  <1>6. ASSUME NEW t \in Tasks, ReadBody(t) \/ Drained(t) PROVE Move
    <2>1. pc[t] \in InFlight /\ closing' = closing
      BY <1>6 DEF ReadBody, Drained, InFlight, closeVars
    <2>2. conn[t] # NoConn
      BY <2>1 DEF TypeInv, HoldOK
    <2>3. \/ Raise(t)
          \/ Release(t, "returned")
          \/ UNCHANGED <<pool, conn>>
      BY <1>6 DEF ReadBody, Drained, poolVars
    <2>4. CASE Raise(t)
      BY <2>1, <2>4, RaiseMove DEF Move
    <2>5. CASE Release(t, "returned")
      BY <2>1, <2>2, <2>5 DEF Release, PutMove, Move
    <2>6. CASE UNCHANGED <<pool, conn>>
      BY <2>1, <2>6 DEF Move
    <2> QED
      BY <2>3, <2>4, <2>5, <2>6
  <1>7. CASE CloseStart \/ CloseNext \/ CloseRaises
    BY <1>7 DEF CloseStart, CloseNext, CloseRaises, SweepMove, FailMove, Move, localVars,
       poolVars
  <1>8. ASSUME NEW c \in Conns, Serve(c) \/ Reset(c) PROVE Move
    BY <1>8 DEF Serve, Reset, Move, poolVars, localVars, closeVars
  <1> QED
    BY <1>1, <1>2, <1>3, <1>4, <1>5, <1>6, <1>7, <1>8 DEF Next, TaskStep

-----------------------------------------------------------------------------
(* One user per transport                                                  *)

\* Nobody is the user of no transport.
LEMMA NoConnNotPooled == TypeInv => ~Pooled(NoConn)
  BY ConnsAssumption DEF TypeInv, TypeOK, Pooled

LEMMA TakeExclusive ==
    ASSUME TypeInv, Exclusive, NEW t \in Tasks, TakeMove(t)
    PROVE  Exclusive'
  <1>1. /\ Len(pool) \in Nat \ {0}
        /\ Head(pool) = pool[1]
        /\ Len(pool') = Len(pool) - 1
        /\ \A i \in 1..Len(pool') : pool'[i] = pool[i+1]
    BY DEF TakeMove
  <1>2. \A i \in 1..Len(pool) : pool[i] \in Conns
    BY DEF TypeInv, TypeOK
  <1>3. /\ conn' = [conn EXCEPT ![t] = pool[1]]
        /\ closing' = closing
        /\ pool[1] # NoConn
        /\ Pooled(pool[1])
    BY <1>2, ConnsAssumption DEF TakeMove, Pooled
  <1>4. \A i \in 1..Len(pool') : Pooled(pool'[i]) /\ pool'[i] # pool[1]
    <2> TAKE i \in 1..Len(pool')
    <2>1. i + 1 \in 1..Len(pool) /\ i + 1 # 1 /\ 1 \in 1..Len(pool) /\ pool'[i] = pool[i+1]
      BY <1>1
    <2> QED
      BY <2>1 DEF Pooled, Exclusive
  <1>7. \A u, v \in Tasks : Holding(u)' /\ conn'[u] = conn'[v] => u = v
    BY <1>3 DEF Exclusive, Holding
  <1>8. \A u \in Tasks : conn'[u] # NoConn =>
            /\ conn'[u] # closing'
            /\ \A i \in 1..Len(pool') : pool'[i] # conn'[u]
    BY <1>3, <1>4 DEF Exclusive, Holding
  <1>9. \A i, j \in 1..Len(pool') : pool'[i] = pool'[j] => i = j
    BY <1>1 DEF Exclusive
  <1>10. \A i \in 1..Len(pool') : pool'[i] # closing'
    BY <1>3, <1>4 DEF Exclusive
  <1> QED
    BY <1>7, <1>8, <1>9, <1>10 DEF Exclusive, Pooled, Holding

LEMMA PutExclusive ==
    ASSUME TypeInv, Exclusive, NEW t \in Tasks, PutMove(t)
    PROVE  Exclusive'
  <1>1. /\ Len(pool) \in Nat
        /\ Len(pool') = Len(pool) + 1
        /\ \A i \in 1..Len(pool) : pool'[i] = pool[i]
        /\ pool'[Len(pool) + 1] = conn[t]
    BY DEF PutMove
  <1>2. /\ conn'[t] = NoConn
        /\ \A u \in Tasks : u # t => conn'[u] = conn[u]
        /\ closing' = closing
    BY DEF PutMove, TypeInv, TypeOK
  <1>3. Holding(t) /\ conn[t] # closing /\ ~Pooled(conn[t])
    BY DEF PutMove, Exclusive, Holding
  <1>4. \A u, v \in Tasks : Holding(u)' /\ conn'[u] = conn'[v] => u = v
    BY <1>2 DEF Exclusive, Holding
  <1>5. \A u \in Tasks : conn'[u] # NoConn =>
            /\ conn'[u] # closing'
            /\ \A i \in 1..Len(pool') : pool'[i] # conn'[u]
    <2> SUFFICES ASSUME NEW u \in Tasks, conn'[u] # NoConn
                 PROVE  /\ conn'[u] # closing'
                        /\ \A i \in 1..Len(pool') : pool'[i] # conn'[u]
      OBVIOUS
    <2>1. u # t /\ conn'[u] = conn[u] /\ Holding(u)
      BY <1>2 DEF Holding
    <2>2. conn[u] # closing /\ ~Pooled(conn[u]) /\ conn[u] # conn[t]
      BY <2>1 DEF Exclusive
    <2> QED
      BY <1>1, <1>2, <2>2 DEF Pooled
  <1>6. \A i, j \in 1..Len(pool') : pool'[i] = pool'[j] => i = j
    BY <1>1, <1>3 DEF Exclusive, Pooled
  <1>7. \A i \in 1..Len(pool') : pool'[i] # closing'
    BY <1>1, <1>2, <1>3 DEF Exclusive, Pooled
  <1> QED
    BY <1>4, <1>5, <1>6, <1>7 DEF Exclusive, Pooled, Holding

LEMMA DropExclusive ==
    ASSUME TypeInv, Exclusive, NEW t \in Tasks, DropMove(t)
    PROVE  Exclusive'
  BY DEF DropMove, Exclusive, Holding, Pooled

LEMMA SweepExclusive == ASSUME TypeInv, Exclusive, SweepMove PROVE Exclusive'
  <1>2. PICK n \in 0..Len(pool) :
          \/ n = Len(pool) /\ pool' = <<>> /\ closing' = NoConn
          \/ /\ n < Len(pool)
             /\ pool' = SubSeq(pool, n + 2, Len(pool))
             /\ closing' = pool[n+1]
    BY DEF SweepMove, Sweep
  <1>3. conn' = conn
    BY DEF SweepMove
  <1>4. CASE n = Len(pool) /\ pool' = <<>> /\ closing' = NoConn
    BY <1>3, <1>4 DEF Exclusive, Pooled, Holding
  <1>5. CASE /\ n < Len(pool)
             /\ pool' = SubSeq(pool, n + 2, Len(pool))
             /\ closing' = pool[n+1]
    <2>1. Len(pool) \in Nat /\ \A i \in 1..Len(pool) : pool[i] \in Conns
      BY DEF TypeInv, TypeOK
    <2>5. n+1 \in 1..Len(pool)
      BY <1>5
    <2>6. \A i \in 1..Len(pool') : Pooled(pool'[i]) /\ pool'[i] # closing'
      BY <1>5, <2>1, <2>5 DEF Exclusive, Pooled
    <2>7. Pooled(closing')
      BY <1>5 DEF Pooled
    <2>8. \A i, j \in 1..Len(pool') : pool'[i] = pool'[j] => i = j
      BY <1>5 DEF Exclusive
    <2>9. \A u \in Tasks : conn'[u] # NoConn =>
            /\ conn'[u] # closing'
            /\ \A i \in 1..Len(pool') : pool'[i] # conn'[u]
      BY <1>3, <2>6, <2>7 DEF Exclusive, Holding
    <2>10. \A u, v \in Tasks : Holding(u)' /\ conn'[u] = conn'[v] => u = v
      BY <1>3 DEF Exclusive, Holding
    <2> QED
      BY <2>6, <2>8, <2>9, <2>10 DEF Exclusive, Holding, Pooled
  <1> QED
    BY <1>2, <1>4, <1>5

LEMMA FailExclusive == ASSUME TypeInv, Exclusive, FailMove PROVE Exclusive'
  BY NoConnNotPooled DEF FailMove, Exclusive, Holding, Pooled

LEMMA InitExclusive == Init => Exclusive
  <1> SUFFICES ASSUME Init PROVE Exclusive
    OBVIOUS
  <1>1. ~Pooled(NoConn)
    BY InitTypeInv, NoConnNotPooled
  <1>2. \A i, j \in 1..Len(pool) : pool[i] = pool[j] => i = j
    <2>1. /\ pool \in [1..Cardinality(Conns) -> Conns]
          /\ \A i, j \in 1..Cardinality(Conns) : pool[i] = pool[j] => i = j
      BY DEF Init, SetToSeqs
    <2>2. Len(pool) = Cardinality(Conns)
      BY <2>1, ConnsAssumption, FS_CardinalityType
    <2> QED
      BY <2>1, <2>2
  <1> QED
    BY <1>1, <1>2 DEF Init, Exclusive, Holding

\* A transport has at most one user: two tasks never hold the same one, none is
\* both held and in the queue, none is in the queue twice, and close() waits
\* for one that nobody else can get (client.py:84-89 and 234-251).
THEOREM ExclusiveCorrect == Spec => []Exclusive
  <1>1. TypeInv /\ Exclusive /\ [Next]_vars => Exclusive'
    <2> SUFFICES ASSUME TypeInv, Exclusive, [Next]_vars PROVE Exclusive'
      OBVIOUS
    <2>1. Move
      BY NextMove
    <2>2. CASE UNCHANGED <<pool, conn, closing>>
      BY <2>2 DEF Exclusive, Holding, Pooled
    <2> QED
      BY <2>1, <2>2, TakeExclusive, PutExclusive, DropExclusive, SweepExclusive, FailExclusive
         DEF Move
  <1> QED
    BY <1>1, InitExclusive, TypeCorrect, PTL DEF Spec

-----------------------------------------------------------------------------
(* No lost wake-up: what a step can do to the queue, its waiters and those  *)
(* of them that are awake                                                  *)

Woken == {t \in Tasks : pc[t] = "woken"}

\* Nobody waits, or there is nothing to wait beside, after the step.
AtRest == getters' = <<>> \/ pool' = <<>>

\* Somebody waited before; the queue is no longer than it was.
Quiet == getters # <<>> /\ Len(pool') <= Len(pool) /\ Woken' = Woken

\* A woken task gets a transport.
Taken(t) ==
    /\ getters # <<>>
    /\ t \in Woken
    /\ Len(pool') = Len(pool) - 1
    /\ Woken' = Woken \ {t}

\* A transport is put back and u is woken for it.
Given(u) ==
    /\ getters # <<>>
    /\ u \notin Woken
    /\ Len(pool') = Len(pool) + 1
    /\ Woken' = Woken \cup {u}

\* A woken task t is cancelled and u is woken in its place.
Passed(t, u) ==
    /\ getters # <<>>
    /\ t \in Woken
    /\ u \notin Woken
    /\ pool' = pool
    /\ Woken' = (Woken \ {t}) \cup {u}

Turn ==
    \/ AtRest \/ Quiet
    \/ \E t \in Tasks : Taken(t) \/ Given(t)
    \/ \E t, u \in Tasks : Passed(t, u)

LEMMA WakeHead ==
    ASSUME TypeInv, NEW p, WakeNext(p), getters # <<>>
    PROVE  \E u \in Tasks : pc[u] = "waiting" /\ pc' = [p EXCEPT ![u] = "woken"]
  <1>1. Head(getters) = getters[1] /\ 1 \in 1..Len(getters) /\ Head(getters) \in Tasks
    BY DEF TypeInv, TypeOK
  <1>2. pc[getters[1]] = "waiting"
    BY DEF TypeInv, GettersOK
  <1> QED
    BY <1>1, <1>2 DEF WakeNext

LEMMA ReleaseTurn ==
    ASSUME TypeInv, NEW t \in Tasks, pc[t] \in InFlight,
           NEW r \in {"returned", "raised"}, Release(t, r)
    PROVE  Turn
  <1>1. WakeNext([pc EXCEPT ![t] = "idle"]) /\ pool' = Append(pool, conn[t])
    BY DEF Release
  <1>2. CASE getters = <<>>
    BY <1>1, <1>2 DEF WakeNext, Turn, AtRest
  <1>3. CASE getters # <<>>
    <2>1. PICK u \in Tasks :
            pc[u] = "waiting" /\ pc' = [[pc EXCEPT ![t] = "idle"] EXCEPT ![u] = "woken"]
      BY <1>1, <1>3, WakeHead
    <2>2. Len(pool') = Len(pool) + 1
      <3> QED
        BY <1>1
    <2>3. u \notin Woken /\ Woken' = Woken \cup {u}
      BY <2>1 DEF Woken, InFlight, TypeInv, TypeOK
    <2> QED
      BY <1>3, <2>2, <2>3 DEF Turn, Given
  <1> QED
    BY <1>2, <1>3

LEMMA RaiseTurn ==
    ASSUME TypeInv, NEW t \in Tasks, pc[t] \in InFlight, Raise(t)
    PROVE  Turn
  <1>1. CASE Release(t, "raised")
    BY <1>1, ReleaseTurn
  <1>2. CASE Lose(t)
    <2>1. UNCHANGED <<pool, getters>> /\ pc' = [pc EXCEPT ![t] = "idle"]
      BY <1>2 DEF Lose, poolVars
    <2>2. Woken' = Woken
      BY <2>1 DEF Woken, InFlight
    <2> QED
      BY <2>1, <2>2 DEF Turn, AtRest, Quiet
  <1> QED
    BY <1>1, <1>2 DEF Raise

\* A step that moves one task between states in which it is not woken.
LEMMA QuietTurn ==
    ASSUME TypeInv, NEW t \in Tasks, pc[t] # "woken", pc'[t] # "woken",
           \A u \in Tasks : u # t => pc'[u] = pc[u],
           UNCHANGED <<pool, getters>>
    PROVE  Turn
  <1>1. Woken' = Woken
    BY DEF Woken
  <1> QED
    BY <1>1 DEF Turn, AtRest, Quiet

LEMMA TakeTurn ==
    ASSUME TypeInv, NEW t \in Tasks, NEW at \in {"header", "draining"},
           pc[t] \in {"idle", "woken"}, Take(t, at), UNCHANGED getters
    PROVE  Turn
  <1>1. /\ pool # <<>>
        /\ pool' = Tail(pool)
        /\ pc'[t] \in InFlight
        /\ \A u \in Tasks : u # t => pc'[u] = pc[u]
    BY TakeFacts
  <1>2. Len(pool) \in Nat /\ Len(pool') = Len(pool) - 1
    BY <1>1
  <1>3. CASE pc[t] = "woken"
    <2>1. t \in Woken /\ Woken' = Woken \ {t}
      BY <1>1, <1>3 DEF Woken, InFlight
    <2> QED
      BY <1>2, <2>1 DEF Turn, AtRest, Taken
  <1>4. CASE pc[t] = "idle"
    <2>1. Woken' = Woken
      BY <1>1, <1>4 DEF Woken, InFlight
    <2> QED
      BY <1>2, <2>1 DEF Turn, AtRest, Quiet
  <1> QED
    BY <1>3, <1>4

LEMMA CancelGetTurn == ASSUME TypeInv, NEW t \in Tasks, CancelGet(t) PROVE Turn
  <1>1. pool' = pool /\ Len(pool) \in Nat
    BY DEF CancelGet
  <1>2. CASE /\ pc[t] = "waiting"
             /\ \E i \in 1..Len(getters) : getters[i] = t
             /\ pc' = [pc EXCEPT ![t] = "idle"]
    <2>1. Woken' = Woken
      BY <1>2 DEF Woken
    <2>2. getters # <<>>
      BY <1>2
    <2> QED
      BY <1>1, <2>1, <2>2 DEF Turn, Quiet
  <1>3. CASE pc[t] = "woken" /\ WakeNext([pc EXCEPT ![t] = "idle"])
    <2>1. CASE getters = <<>>
      BY <1>3, <2>1 DEF WakeNext, Turn, AtRest
    <2>2. CASE getters # <<>>
      <3>1. PICK u \in Tasks :
              pc[u] = "waiting" /\ pc' = [[pc EXCEPT ![t] = "idle"] EXCEPT ![u] = "woken"]
        BY <1>3, <2>2, WakeHead
      <3>2. t \in Woken /\ u \notin Woken /\ Woken' = (Woken \ {t}) \cup {u}
        BY <1>3, <3>1 DEF Woken, TypeInv, TypeOK
      <3> QED
        BY <1>1, <2>2, <3>2 DEF Turn, Passed
    <2> QED
      BY <2>1, <2>2
  <1>4. CASE pool = <<>>
    BY <1>1, <1>4 DEF Turn, AtRest
  <1> QED
    BY <1>2, <1>3, <1>4 DEF CancelGet

LEMMA SweepShortens == ASSUME TypeInv, Sweep PROVE Len(pool') <= Len(pool)
  <1>2. PICK n \in 0..Len(pool) :
          pool' = <<>> \/ (n < Len(pool) /\ pool' = SubSeq(pool, n + 2, Len(pool)))
    BY DEF Sweep
  <1> QED
    BY <1>2

LEMMA NextTurn == TypeInv /\ [Next]_vars => Turn
  <1> SUFFICES ASSUME TypeInv, [Next]_vars PROVE Turn
    OBVIOUS
  <1>1. CASE UNCHANGED vars
    BY <1>1 DEF vars, Turn, AtRest, Quiet, Woken
  <1>2. ASSUME NEW t \in Tasks, Start(t) PROVE Turn
    <2>1. PICK w \in WaitModes :
            (Take(t, Await(w)) /\ UNCHANGED getters) \/ (pool = <<>> /\ UNCHANGED pool)
      BY <1>2 DEF Start
    <2>2. PICK at \in {"header", "draining"} : at = Await(w)
      BY DEF Await
    <2>3. CASE Take(t, Await(w)) /\ UNCHANGED getters
      <3>1. Take(t, at) /\ pc[t] \in {"idle", "woken"}
        BY <1>2, <2>2, <2>3 DEF Start
      <3> QED
        BY <2>3, <3>1, TakeTurn
    <2> QED
      BY <2>1, <2>3 DEF Turn, AtRest
  <1>3. ASSUME NEW t \in Tasks, Resume(t) PROVE Turn
    <2>1. PICK at \in {"header", "draining"} : at = Await(wait[t])
      BY DEF Await
    <2>2. CASE Take(t, Await(wait[t])) /\ UNCHANGED getters
      <3>1. Take(t, at) /\ pc[t] \in {"idle", "woken"}
        BY <1>3, <2>1, <2>2 DEF Resume
      <3> QED
        BY <2>2, <3>1, TakeTurn
    <2> QED
      BY <1>3, <2>2 DEF Resume, Turn, AtRest
  <1>4. ASSUME NEW t \in Tasks,
               \/ ConnectFails(t) \/ RejectHeader(t) \/ SocketFails(t) \/ CancelCall(t)
        PROVE  Turn
    <2>1. pc[t] \in InFlight /\ Raise(t)
      BY <1>4 DEF ConnectFails, RejectHeader, SocketFails, CancelCall, InFlight
    <2> QED
      BY <2>1, RaiseTurn
  <1>5. ASSUME NEW t \in Tasks, Connect(t) \/ ReadHeader(t) PROVE Turn
    <2>1. /\ pc[t] # "woken" /\ pc'[t] # "woken"
          /\ \A u \in Tasks : u # t => pc'[u] = pc[u]
          /\ UNCHANGED <<pool, getters>>
      BY <1>5 DEF Connect, ReadHeader, Transmit, TypeInv, TypeOK, poolVars
    <2> QED
      BY <2>1, QuietTurn
  <1>6. ASSUME NEW t \in Tasks, ReadBody(t) \/ Drained(t) PROVE Turn
    <2>1. pc[t] \in InFlight
      BY <1>6 DEF ReadBody, Drained, InFlight
    <2>2. CASE Raise(t)
      BY <2>1, <2>2, RaiseTurn
    <2>3. CASE Release(t, "returned")
      BY <2>1, <2>3, ReleaseTurn
    <2>4. CASE /\ UNCHANGED poolVars
               /\ pc' = [pc EXCEPT ![t] = IF NextPhase(phase[t]) = "command"
                                          THEN Await(wait[t]) ELSE "header"]
      <3>1. /\ pc[t] # "woken" /\ pc'[t] # "woken"
            /\ \A u \in Tasks : u # t => pc'[u] = pc[u]
            /\ UNCHANGED <<pool, getters>>
        BY <2>1, <2>4 DEF InFlight, Await, poolVars
      <3> QED
        BY <3>1, QuietTurn
    <2> QED
      BY <1>6, <2>2, <2>3, <2>4 DEF ReadBody, Drained, Transmit
  <1>7. ASSUME NEW t \in Tasks, CancelGet(t) PROVE Turn
    BY <1>7, CancelGetTurn
  <1>8. CASE CloseStart \/ CloseNext
    <2>1. Sweep /\ UNCHANGED <<getters, pc>>
      BY <1>8 DEF CloseStart, CloseNext
    <2> QED
      BY <2>1, SweepShortens DEF Turn, AtRest, Quiet, Woken
  <1>9. CASE CloseRaises
    BY <1>9 DEF CloseRaises, Turn, AtRest, Quiet, Woken, poolVars
  <1>10. ASSUME NEW c \in Conns, Serve(c) \/ Reset(c) PROVE Turn
    BY <1>10 DEF Serve, Reset, Turn, AtRest, Quiet, Woken, poolVars
  <1> QED
    BY <1>1, <1>2, <1>3, <1>4, <1>5, <1>6, <1>7, <1>8, <1>9, <1>10 DEF Next, TaskStep

\* While tasks wait for a transport, at least as many others have been woken as
\* transports lie in the queue, however wakers, woken and cancelled tasks
\* interleave (client.py:234 and 251).
THEOREM NoLostWakeupCorrect == Spec => []NoLostWakeup
  <1>1. Init => NoLostWakeup
    BY DEF Init, NoLostWakeup
  <1>2. TypeInv /\ NoLostWakeup /\ [Next]_vars => NoLostWakeup'
    <2> SUFFICES ASSUME TypeInv, TypeInv', NoLostWakeup, Turn PROVE NoLostWakeup'
      BY NextTurn, NextTypeInv
    <2> DEFINE W == Woken
               W1 == Woken'
    <2>1. /\ NoLostWakeup <=> (getters # <<>> => Len(pool) <= Cardinality(W))
          /\ NoLostWakeup' <=> (getters' # <<>> => Len(pool') <= Cardinality(W1))
      BY DEF NoLostWakeup, Woken
    <2>2. IsFiniteSet(W) /\ IsFiniteSet(W1)
      BY TasksAssumption, FS_Subset DEF Woken
    <2>3. /\ Cardinality(W) \in Nat /\ Cardinality(W1) \in Nat
          /\ Len(pool) \in Nat /\ Len(pool') \in Nat
      BY <2>2, FS_CardinalityType
    <2>4. \A t \in Tasks : IsFiniteSet(W \ {t})
      BY <2>2, FS_RemoveElement
    <2>5. CASE AtRest
      BY <2>1, <2>3, <2>5 DEF AtRest
    <2>6. CASE Quiet
      BY <2>1, <2>3, <2>6 DEF Quiet
    <2>7. ASSUME NEW t \in Tasks, Taken(t) PROVE NoLostWakeup'
      <3>1. Cardinality(W \ {t}) = Cardinality(W) - 1
        BY <2>2, <2>7, FS_RemoveElement DEF Taken
      <3> QED
        BY <2>1, <2>3, <2>7, <3>1 DEF Taken
    <2>8. ASSUME NEW u \in Tasks, Given(u) PROVE NoLostWakeup'
      <3>1. Cardinality(W \cup {u}) = Cardinality(W) + 1
        BY <2>2, <2>8, FS_AddElement DEF Given
      <3> QED
        BY <2>1, <2>3, <2>8, <3>1 DEF Given
    <2>9. ASSUME NEW t \in Tasks, NEW u \in Tasks, Passed(t, u) PROVE NoLostWakeup'
      <3>1. Cardinality(W \ {t}) = Cardinality(W) - 1
        BY <2>2, <2>9, FS_RemoveElement DEF Passed
      <3>2. Cardinality((W \ {t}) \cup {u}) = Cardinality(W \ {t}) + 1
        BY <2>4, <2>9, FS_AddElement DEF Passed
      <3> QED
        BY <2>1, <2>3, <2>9, <3>1, <3>2 DEF Passed
    <2> QED
      BY <2>5, <2>6, <2>7, <2>8, <2>9 DEF Turn
  <1> QED
    BY <1>1, <1>2, TypeCorrect, PTL DEF Spec
=============================================================================
