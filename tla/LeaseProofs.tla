---------------------------- MODULE LeaseProofs ----------------------------
(***************************************************************************)
(* What callers of the pool can rely on.  Client implements Lease: every   *)
(* step is one the lease of transports allows, or none.  An open           *)
(* connection is never let go of, by close() least of all, and a transport *)
(* once left with a stale reply never answers again.                       *)
(***************************************************************************)
EXTENDS WireProofs

-----------------------------------------------------------------------------
(* The refinement mapping, as Client!L has it                              *)

Owner ==
    [c \in Conns |->
        IF Pooled(c) THEN "pool"
        ELSE IF \E t \in Tasks : conn[t] = c THEN CHOOSE t \in Tasks : conn[t] = c
        ELSE "gone"]

Busy == {t \in Tasks : pc[t] # "idle"}

Proven ==
    {c \in Conns : connected[c] /\
        (Pooled(c) \/ \E t \in Tasks : conn[t] = c /\ ~Handshaking(t))}

\* What the mapping says of one transport, without CHOOSE.
OwnerIs(c) ==
    /\ Owner[c] = "pool" <=> Pooled(c)
    /\ \A t \in Tasks : Owner[c] = t <=> conn[t] = c
    /\ Owner[c] \in {"pool", "gone"} \cup Tasks

LEMMA OwnerMeans == TypeInv /\ Exclusive => \A c \in Conns : OwnerIs(c)
  <1> SUFFICES ASSUME TypeInv, Exclusive, NEW c \in Conns PROVE OwnerIs(c)
    OBVIOUS
  <1>1. c # NoConn
    BY ConnsAssumption
  <1>2. CASE Pooled(c)
    <2>1. Owner[c] = "pool"
      BY <1>2 DEF Owner
    <2>2. \A t \in Tasks : conn[t] # c
      BY <1>1, <1>2 DEF Exclusive, Holding
    <2> QED
      BY <1>2, <2>1, <2>2, OwnersAssumption DEF OwnerIs
  <1>3. CASE ~Pooled(c) /\ \E t \in Tasks : conn[t] = c
    <2> DEFINE u == CHOOSE t \in Tasks : conn[t] = c
    <2>1. Owner[c] = u
      BY <1>3 DEF Owner
    <2>2. u \in Tasks /\ conn[u] = c
      BY <1>3
    <2> HIDE DEF u
    <2>3. \A t \in Tasks : conn[t] = c => t = u
      BY <1>1, <2>2 DEF Exclusive, Holding
    <2> QED
      BY <1>3, <2>1, <2>3, OwnersAssumption DEF OwnerIs
  <1>4. CASE ~Pooled(c) /\ ~\E t \in Tasks : conn[t] = c
    <2>1. Owner[c] = "gone"
      BY <1>4 DEF Owner
    <2> QED
      BY <1>4, <2>1, OwnersAssumption DEF OwnerIs
  <1> QED
    BY <1>2, <1>3, <1>4

LEMMA OwnerMeansNext == TypeInv' /\ Exclusive' => (\A c \in Conns : OwnerIs(c))'
  BY OwnerMeans, PTL

\* A transport keeps its owner when it stays where it is.
LEMMA SameOwner ==
    ASSUME TypeInv, Exclusive, TypeInv', Exclusive', NEW d \in Conns,
           Pooled(d)' <=> Pooled(d),
           \A t \in Tasks : conn'[t] = d <=> conn[t] = d
    PROVE  Owner'[d] = Owner[d]
  <1>1. /\ Owner[d] = "pool" <=> Pooled(d)
        /\ \A t \in Tasks : Owner[d] = t <=> conn[t] = d
        /\ Owner[d] \in {"pool", "gone"} \cup Tasks
    BY OwnerMeans DEF OwnerIs
  <1>2. /\ Owner'[d] = "pool" <=> Pooled(d)'
        /\ \A t \in Tasks : Owner'[d] = t <=> conn'[t] = d
        /\ Owner'[d] \in {"pool", "gone"} \cup Tasks
    BY OwnerMeansNext DEF OwnerIs
  <1> QED
    BY <1>1, <1>2

\* The mapping of a step that moves one transport.
LEMMA OneMoves ==
    ASSUME TypeInv, Exclusive, TypeInv', Exclusive', NEW c \in Conns, NEW o, Owner'[c] = o,
           \A d \in Conns : d # c =>
               /\ Pooled(d)' <=> Pooled(d)
               /\ \A t \in Tasks : conn'[t] = d <=> conn[t] = d
    PROVE  Owner' = [Owner EXCEPT ![c] = o]
  <1>1. \A d \in Conns : d # c => Owner'[d] = Owner[d]
    BY SameOwner
  <1>2. /\ Owner = [d \in Conns |-> Owner[d]]
        /\ Owner' = [d \in Conns |-> Owner'[d]]
    BY DEF Owner
  <1> QED
    BY <1>1, <1>2

-----------------------------------------------------------------------------
(* What a call can do to a transport                                       *)

OtherPhases(t) == \A u \in Tasks : u # t => phase'[u] = phase[u]

\* Task t gets c, and has to connect and to authenticate it first, or not.
Granted(t, c) ==
    /\ Pooled(c)
    /\ \A d \in Conns : Pooled(d)' <=> Pooled(d) /\ d # c
    /\ conn[t] = NoConn
    /\ conn' = [conn EXCEPT ![t] = c]
    /\ connected[c] => phase'[t] = "command"
    /\ OtherPhases(t)
    /\ connected' = connected

\* Task t puts c back once the handshake on it is complete.
GaveBack(t, c) ==
    /\ conn[t] = c
    /\ \A d \in Conns : Pooled(d)' <=> Pooled(d) \/ d = c
    /\ conn' = [conn EXCEPT ![t] = NoConn]
    /\ connected[c]
    /\ ~Handshaking(t)
    /\ OtherPhases(t)
    /\ connected' = connected

\* Task t fails in the handshake on c.
Dropped(t, c) ==
    /\ conn[t] = c
    /\ pool' = pool
    /\ conn' = [conn EXCEPT ![t] = NoConn]
    /\ Handshaking(t)
    /\ OtherPhases(t)
    /\ connected' = connected

LEMMA GrantedLease ==
    ASSUME TypeInv, Exclusive, TypeInv', Exclusive', NEW t \in Tasks, NEW c \in Conns,
           Granted(t, c)
    PROVE  /\ Owner[c] = "pool"
           /\ Owner' = [Owner EXCEPT ![c] = t]
           /\ Proven' = Proven
  <1>1. /\ conn'[t] = c
        /\ \A u \in Tasks : u # t => conn'[u] = conn[u]
        /\ \A d \in Conns : d # NoConn
    BY ConnsAssumption DEF Granted, TypeInv, TypeOK
  <1>2. Owner[c] = "pool"
    BY OwnerMeans DEF OwnerIs, Granted
  <1>3. Owner'[c] = t
    BY <1>1, OwnerMeansNext DEF OwnerIs
  <1>4. \A d \in Conns : d # c =>
            /\ Pooled(d)' <=> Pooled(d)
            /\ \A u \in Tasks : conn'[u] = d <=> conn[u] = d
    BY <1>1 DEF Granted
  <1>5. Owner' = [Owner EXCEPT ![c] = t]
    BY <1>3, <1>4, OneMoves
  <1>6. ASSUME NEW d \in Conns PROVE d \in Proven' <=> d \in Proven
    <2>1. CASE d # c
      BY <1>1 DEF Proven, Granted, Handshaking, OtherPhases
    <2>2. CASE d = c
      <3>1. d \in Proven <=> connected[c]
        BY <2>2 DEF Proven, Granted
      <3>2. connected[c] => d \in Proven'
        BY <1>1, <2>2 DEF Proven, Granted, Handshaking
      <3>3. d \in Proven' => connected[c]
        BY <2>2 DEF Proven, Granted
      <3> QED
        BY <3>1, <3>2, <3>3
    <2> QED
      BY <2>1, <2>2
  <1>7. Proven' = Proven
    BY <1>6 DEF Proven
  <1> QED
    BY <1>2, <1>5, <1>7

LEMMA GaveBackLease ==
    ASSUME TypeInv, Exclusive, TypeInv', Exclusive', NEW t \in Tasks, NEW c \in Conns,
           GaveBack(t, c)
    PROVE  /\ Owner[c] = t
           /\ c \in Proven
           /\ Owner' = [Owner EXCEPT ![c] = "pool"]
           /\ Proven' = Proven
  <1>1. /\ conn'[t] = NoConn
        /\ \A u \in Tasks : u # t => conn'[u] = conn[u]
        /\ \A d \in Conns : d # NoConn
    BY ConnsAssumption DEF GaveBack, TypeInv, TypeOK
  <1>2. Owner[c] = t
    BY OwnerMeans DEF OwnerIs, GaveBack
  <1>3. Owner'[c] = "pool"
    BY OwnerMeansNext DEF OwnerIs, GaveBack
  <1>4. \A d \in Conns : d # c =>
            /\ Pooled(d)' <=> Pooled(d)
            /\ \A u \in Tasks : conn'[u] = d <=> conn[u] = d
    BY <1>1 DEF GaveBack
  <1>5. Owner' = [Owner EXCEPT ![c] = "pool"]
    BY <1>3, <1>4, OneMoves
  <1>6. c \in Proven /\ c \in Proven'
    BY DEF Proven, GaveBack
  <1>7. \A d \in Conns : d # c => (d \in Proven' <=> d \in Proven)
    BY <1>1 DEF Proven, GaveBack, Handshaking, OtherPhases
  <1>8. Proven' = Proven
    BY <1>6, <1>7 DEF Proven
  <1> QED
    BY <1>2, <1>5, <1>6, <1>8

LEMMA DroppedLease ==
    ASSUME TypeInv, Exclusive, TypeInv', Exclusive', NEW t \in Tasks, NEW c \in Conns,
           Dropped(t, c)
    PROVE  /\ Owner[c] = t
           /\ c \notin Proven
           /\ Owner' = [Owner EXCEPT ![c] = "gone"]
           /\ Proven' = Proven
  <1>1. /\ conn'[t] = NoConn
        /\ \A u \in Tasks : u # t => conn'[u] = conn[u]
        /\ \A d \in Conns : d # NoConn
        /\ \A d \in Conns : Pooled(d)' <=> Pooled(d)
    BY ConnsAssumption DEF Dropped, TypeInv, TypeOK, Pooled
  <1>2. ~Pooled(c) /\ \A u \in Tasks : conn[u] = c => u = t
    BY <1>1 DEF Dropped, Exclusive, Holding
  <1>3. Owner[c] = t
    BY OwnerMeans DEF OwnerIs, Dropped
  <1>4. Owner'[c] = "gone"
    BY <1>1, <1>2, OwnerMeansNext DEF OwnerIs
  <1>5. \A d \in Conns : d # c =>
            /\ Pooled(d)' <=> Pooled(d)
            /\ \A u \in Tasks : conn'[u] = d <=> conn[u] = d
    BY <1>1 DEF Dropped
  <1>6. Owner' = [Owner EXCEPT ![c] = "gone"]
    BY <1>4, <1>5, OneMoves
  <1>7. c \notin Proven /\ c \notin Proven'
    BY <1>1, <1>2 DEF Proven, Dropped
  <1>8. \A d \in Conns : d # c => (d \in Proven' <=> d \in Proven)
    BY <1>1 DEF Proven, Dropped, Handshaking, OtherPhases
  <1>9. Proven' = Proven
    BY <1>7, <1>8 DEF Proven
  <1> QED
    BY <1>3, <1>6, <1>7, <1>9

LEMMA TailExactly ==
    ASSUME TypeInv, Exclusive, pool # <<>>, pool' = Tail(pool)
    PROVE  \A d \in Conns : Pooled(d)' <=> Pooled(d) /\ d # Head(pool)
  <1> SUFFICES ASSUME NEW d \in Conns PROVE Pooled(d)' <=> Pooled(d) /\ d # Head(pool)
    OBVIOUS
  <1>2. ASSUME Pooled(d)' PROVE Pooled(d) /\ d # Head(pool)
    <2>1. PICK i \in 1..Len(pool') : pool'[i] = d
      BY <1>2 DEF Pooled
    <2>2. i + 1 \in 1..Len(pool) /\ 1 \in 1..Len(pool) /\ i + 1 # 1 /\ pool[i+1] = d
      BY <2>1
    <2> QED
      BY <2>2 DEF Pooled, Exclusive
  <1>3. ASSUME Pooled(d), d # Head(pool) PROVE Pooled(d)'
    <2>1. PICK i \in 1..Len(pool) : pool[i] = d
      BY <1>3 DEF Pooled
    <2>2. i - 1 \in 1..Len(pool') /\ pool'[i-1] = d
      BY <1>3, <2>1
    <2> QED
      BY <2>2 DEF Pooled
  <1> QED
    BY <1>2, <1>3

LEMMA AppendExactly ==
    ASSUME TypeInv, NEW c \in Conns, pool' = Append(pool, c)
    PROVE  \A d \in Conns : Pooled(d)' <=> Pooled(d) \/ d = c
  <1> QED
    BY DEF Pooled

-----------------------------------------------------------------------------
(* Every action maps to a step of the lease or to none                     *)

\* The facts about a step that every case below starts from.
StepInv ==
    /\ TypeInv /\ Exclusive /\ WireInv
    /\ TypeInv' /\ Exclusive'

LEMMA TakeGrants ==
    ASSUME StepInv, NEW t \in Tasks, NEW at \in {"header", "draining"},
           pc[t] \in {"idle", "woken"}, Take(t, at), connected' = connected
    PROVE  /\ \E c \in Conns : Granted(t, c)
           /\ Busy' = Busy \cup {t}
  <1>1. /\ pool # <<>> /\ pool' = Tail(pool) /\ Head(pool) \in Conns
        /\ conn' = [conn EXCEPT ![t] = Head(pool)]
        /\ pc'[t] \in InFlight
        /\ \A u \in Tasks : u # t => pc'[u] = pc[u]
    BY TakeFacts DEF StepInv
  <1>2. Pooled(Head(pool))
    BY <1>1, TailPooled DEF StepInv
  <1>3. \A d \in Conns : Pooled(d)' <=> Pooled(d) /\ d # Head(pool)
    BY <1>1, TailExactly DEF StepInv
  <1>4. conn[t] = NoConn
    BY DEF StepInv, TypeInv, HoldOK, InFlight
  <1>5. /\ OtherPhases(t)
        /\ connected[Head(pool)] => phase'[t] = "command"
    BY DEF Take, Transmit, OtherPhases, StepInv, TypeInv, TypeOK
  <1>6. Granted(t, Head(pool))
    BY <1>1, <1>2, <1>3, <1>4, <1>5 DEF Granted
  <1>7. Busy' = Busy \cup {t}
    BY <1>1 DEF Busy, InFlight
  <1> QED
    BY <1>1, <1>6, <1>7

\* A task that finds the queue empty waits: nothing of the lease changes.
LEMMA WaitIs ==
    ASSUME StepInv, NEW t \in Tasks, pc' = [pc EXCEPT ![t] = "waiting"],
           UNCHANGED <<pool, conn, phase, connected>>
    PROVE  Owner' = Owner /\ Proven' = Proven /\ Busy' = Busy \cup {t}
  <1>1. pc'[t] = "waiting" /\ \A u \in Tasks : u # t => pc'[u] = pc[u]
    BY DEF StepInv, TypeInv, TypeOK
  <1> QED
    BY <1>1 DEF Owner, Proven, Busy, Pooled, Handshaking

LEMMA BeginLease ==
    ASSUME StepInv, NEW t \in Tasks, Start(t)
    PROVE  L!Begin(t)
  <1>1. pc[t] = "idle" /\ connected' = connected
    BY DEF Start, sockVars
  <1>2. t \notin Busy
    BY <1>1 DEF Busy
  <1>3. PICK w \in WaitModes :
          \/ Take(t, Await(w)) /\ UNCHANGED getters
          \/ /\ pc' = [pc EXCEPT ![t] = "waiting"]
             /\ UNCHANGED <<pool, conn, phase>>
    BY DEF Start
  <1>4. CASE Take(t, Await(w))
    <2>1. PICK at \in {"header", "draining"} : at = Await(w)
      BY DEF Await
    <2>2. Take(t, at)
      BY <1>4, <2>1
    <2>3. /\ \E c \in Conns : Granted(t, c)
          /\ Busy' = Busy \cup {t}
      BY <1>1, <2>2, TakeGrants
    <2>4. PICK c \in Conns : Granted(t, c)
      BY <2>3
    <2>5. Owner[c] = "pool" /\ Owner' = [Owner EXCEPT ![c] = t] /\ Proven' = Proven
      BY <2>4, GrantedLease DEF StepInv
    <2> QED
      BY <1>2, <2>3, <2>5 DEF L!Begin, L!Grant, Owner, Busy, Proven
  <1>5. CASE pc' = [pc EXCEPT ![t] = "waiting"] /\ UNCHANGED <<pool, conn, phase>>
    <2>1. Owner' = Owner /\ Proven' = Proven /\ Busy' = Busy \cup {t}
      BY <1>1, <1>5, WaitIs
    <2> QED
      BY <1>2, <2>1 DEF L!Begin, Owner, Busy, Proven
  <1> QED
    BY <1>3, <1>4, <1>5

LEMMA ObtainLease ==
    ASSUME StepInv, NEW t \in Tasks, Resume(t)
    PROVE  L!Obtain(t) \/ UNCHANGED <<Owner, Busy, Proven>>
  <1>1. pc[t] = "woken" /\ connected' = connected
    BY DEF Resume, sockVars
  <1>2. t \in Busy
    BY <1>1 DEF Busy
  <1>3. \/ Take(t, Await(wait[t]))
        \/ /\ pc' = [pc EXCEPT ![t] = "waiting"]
           /\ UNCHANGED <<pool, conn, phase>>
    BY DEF Resume
  <1>4. CASE Take(t, Await(wait[t]))
    <2>1. PICK at \in {"header", "draining"} : at = Await(wait[t])
      BY DEF Await
    <2>2. Take(t, at)
      BY <1>4, <2>1
    <2>3. /\ \E c \in Conns : Granted(t, c)
          /\ Busy' = Busy \cup {t}
      BY <1>1, <2>2, TakeGrants
    <2>4. PICK c \in Conns : Granted(t, c)
      BY <2>3
    <2>5. Owner[c] = "pool" /\ Owner' = [Owner EXCEPT ![c] = t] /\ Proven' = Proven
      BY <2>4, GrantedLease DEF StepInv
    <2>6. \A d \in Conns : Owner[d] # t
      BY <2>4, ConnsAssumption, OwnerMeans DEF OwnerIs, Granted, StepInv
    <2>7. Busy' = Busy
      BY <1>2, <2>3
    <2> QED
      BY <1>2, <2>5, <2>6, <2>7 DEF L!Obtain, L!Grant, L!HoldsNone, L!Holds, Owner, Busy, Proven
  <1>5. CASE pc' = [pc EXCEPT ![t] = "waiting"] /\ UNCHANGED <<pool, conn, phase>>
    <2>1. Owner' = Owner /\ Proven' = Proven /\ Busy' = Busy \cup {t}
      BY <1>1, <1>5, WaitIs
    <2> QED
      BY <1>2, <2>1
  <1> QED
    BY <1>3, <1>4, <1>5

\* The finally clause.
LEMMA ReturnLease ==
    ASSUME StepInv, NEW t \in Tasks, pc[t] \in InFlight, connected[conn[t]], ~Handshaking(t),
           NEW r \in {"returned", "raised"}, Release(t, r),
           OtherPhases(t), connected' = connected
    PROVE  L!Return(t)
  <1>1. conn[t] \in Conns /\ pc[t] # "waiting"
    BY DEF StepInv, TypeInv, TypeOK, HoldOK, InFlight
  <1> PICK c \in Conns : c = conn[t]
    BY <1>1
  <1>2. /\ pool' = Append(pool, c)
        /\ conn' = [conn EXCEPT ![t] = NoConn]
        /\ pc'[t] = "idle"
        /\ \A u \in Tasks : u # t => pc'[u] = pc[u]
                                  \/ (pc[u] = "waiting" /\ pc'[u] = "woken")
    BY <1>1, ReleaseFacts DEF StepInv
  <1>3. \A d \in Conns : Pooled(d)' <=> Pooled(d) \/ d = c
    BY <1>2, AppendExactly DEF StepInv
  <1>4. GaveBack(t, c)
    BY <1>2, <1>3 DEF GaveBack
  <1>5. /\ Owner[c] = t
        /\ c \in Proven
        /\ Owner' = [Owner EXCEPT ![c] = "pool"]
        /\ Proven' = Proven
    BY <1>4, GaveBackLease DEF StepInv
  <1>6. Busy' = Busy \ {t}
    BY <1>2 DEF Busy
  <1> QED
    BY <1>5, <1>6 DEF L!Return, L!Holds, Owner, Busy, Proven

\* An exception: in the handshake the transport is dropped.
LEMMA RaiseLease ==
    ASSUME StepInv, NEW t \in Tasks, pc[t] \in InFlight, Raise(t), connected' = connected
    PROVE  L!Return(t) \/ L!Drop(t)
  <1>1. OtherPhases(t)
    BY DEF Raise, OtherPhases
  <1>2. conn[t] \in Conns
    BY DEF StepInv, TypeInv, TypeOK, HoldOK
  <1>3. CASE ~Handshaking(t) /\ Release(t, "raised")
    <2>1. connected[conn[t]]
      BY <1>3 DEF StepInv, WireInv, ConnectedOK, Handshaking, InFlight, InTouch
    <2> QED
      BY <1>1, <1>3, <2>1, ReturnLease
  <1>4. CASE Handshaking(t) /\ Lose(t)
    <2> PICK c \in Conns : c = conn[t]
      BY <1>2
    <2>1. Dropped(t, c)
      BY <1>1, <1>4 DEF Dropped, Lose, poolVars
    <2>2. /\ Owner[c] = t
          /\ c \notin Proven
          /\ Owner' = [Owner EXCEPT ![c] = "gone"]
          /\ Proven' = Proven
      BY <2>1, DroppedLease DEF StepInv
    <2>3. Busy' = Busy \ {t}
      BY <1>4 DEF Busy, Lose, StepInv, TypeInv, TypeOK
    <2> QED
      BY <2>2, <2>3 DEF L!Drop, L!Holds, Owner, Busy, Proven
  <1> QED
    BY <1>3, <1>4 DEF Raise

\* A task writes the next message of its call: it may have got through the
\* handshake with it.
LEMMA ProceedLease ==
    ASSUME StepInv, NEW t \in Tasks, pc[t] \in InTouch, NEW p \in Phases,
           NEW at \in {"header", "draining"}, Transmit(t, conn[t], p, at),
           Handshaking(t), UNCHANGED <<pool, conn, connected>>
    PROVE  L!Prove(t) \/ UNCHANGED <<Owner, Busy, Proven>>
  <1>1. conn[t] \in Conns /\ connected[conn[t]]
    BY DEF StepInv, TypeInv, TypeOK, HoldOK, InFlight, InTouch, WireInv, ConnectedOK
  <1> PICK c \in Conns : c = conn[t]
    BY <1>1
  <1>2. phase'[t] = p /\ OtherPhases(t)
    BY DEF Transmit, OtherPhases, StepInv, TypeInv, TypeOK
  <1>3. Owner' = Owner
    BY DEF Owner, Pooled
  <1>4. Busy' = Busy
    BY DEF Busy, Transmit, InTouch
  <1>5. ~Pooled(c) /\ \A u \in Tasks : conn[u] = c => u = t
    BY ConnsAssumption DEF StepInv, Exclusive, Holding
  <1>6. c \notin Proven /\ Owner[c] = t
    BY <1>5, OwnerMeans DEF Proven, OwnerIs, StepInv
  <1>7. \A d \in Conns : d # c => (d \in Proven' <=> d \in Proven)
    BY <1>2 DEF Proven, Handshaking, OtherPhases, Pooled
  <1>8. CASE p = "command"
    <2>1. c \in Proven'
      BY <1>1, <1>2, <1>8 DEF Proven, Handshaking
    <2>2. Proven' = Proven \cup {c}
      BY <1>7, <2>1 DEF Proven
    <2> QED
      BY <1>3, <1>4, <2>2 DEF L!Prove, L!Holds, Owner, Busy, Proven
  <1>9. CASE p # "command"
    <2>1. c \notin Proven'
      BY <1>2, <1>5, <1>9 DEF Proven, Handshaking, Pooled
    <2>2. Proven' = Proven
      BY <1>6, <1>7, <2>1 DEF Proven
    <2> QED
      BY <1>3, <1>4, <2>2
  <1> QED
    BY <1>8, <1>9

LEMMA ConnectLease ==
    ASSUME StepInv, NEW t \in Tasks, Connect(t)
    PROVE  UNCHANGED <<Owner, Busy, Proven>>
  <1>1. conn[t] \in Conns /\ ~connected[conn[t]]
    BY DEF Connect, StepInv, TypeInv, TypeOK, WireInv, ConnectedOK
  <1> PICK c \in Conns : c = conn[t]
    BY <1>1
  <1>2. /\ pc[t] = "connecting"
        /\ pc' = [pc EXCEPT ![t] = "header"]
        /\ phase' = [phase EXCEPT ![t] = "hello"]
        /\ connected' = [connected EXCEPT ![c] = TRUE]
        /\ UNCHANGED <<pool, conn>>
    BY DEF Connect, Transmit, poolVars
  <1>3. ~Pooled(c) /\ \A u \in Tasks : conn[u] = c => u = t
    BY ConnsAssumption DEF StepInv, Exclusive, Holding
  <1>4. phase'[t] = "hello" /\ OtherPhases(t)
    BY <1>2 DEF OtherPhases, StepInv, TypeInv, TypeOK
  <1>5. c \notin Proven /\ c \notin Proven'
    BY <1>1, <1>2, <1>3, <1>4 DEF Proven, Handshaking, Pooled
  <1>6. \A d \in Conns : d # c => (d \in Proven' <=> d \in Proven)
    BY <1>2 DEF Proven, Handshaking, Pooled
  <1>7. Proven' = Proven
    BY <1>5, <1>6 DEF Proven
  <1> QED
    BY <1>2, <1>7 DEF Owner, Busy, Pooled

LEMMA ReadBodyLease ==
    ASSUME StepInv, NEW t \in Tasks, ReadBody(t)
    PROVE  L!Return(t) \/ L!Drop(t) \/ L!Prove(t) \/ UNCHANGED <<Owner, Busy, Proven>>
  <1>1. pc[t] \in InTouch /\ pc[t] \in InFlight /\ connected' = connected
    BY DEF ReadBody, InTouch, InFlight, sockVars
  <1>2. connected[conn[t]]
    BY <1>1 DEF StepInv, WireInv, ConnectedOK
  <1>3. CASE Raise(t)
    BY <1>1, <1>3, RaiseLease
  <1>4. CASE ~Handshaking(t) /\ Release(t, "returned") /\ UNCHANGED phase
    BY <1>1, <1>2, <1>4, ReturnLease DEF OtherPhases
  <1>5. CASE /\ Handshaking(t)
             /\ Transmit(t, conn[t], NextPhase(phase[t]),
                         IF NextPhase(phase[t]) = "command" THEN Await(wait[t]) ELSE "header")
             /\ UNCHANGED <<pool, conn>>
    <2>1. PICK p \in Phases : p = NextPhase(phase[t])
      BY DEF NextPhase, Phases
    <2>2. PICK at \in {"header", "draining"} :
            at = IF NextPhase(phase[t]) = "command" THEN Await(wait[t]) ELSE "header"
      BY DEF Await
    <2>3. Transmit(t, conn[t], p, at)
      BY <1>5, <2>1, <2>2
    <2> QED
      BY <1>1, <1>5, <2>3, ProceedLease
  <1>6. \/ Raise(t)
        \/ ~Handshaking(t) /\ Release(t, "returned") /\ UNCHANGED phase
        \/ /\ Handshaking(t)
           /\ Transmit(t, conn[t], NextPhase(phase[t]),
                       IF NextPhase(phase[t]) = "command" THEN Await(wait[t]) ELSE "header")
           /\ UNCHANGED <<pool, conn>>
    BY DEF ReadBody, poolVars
  <1> QED
    BY <1>3, <1>4, <1>5, <1>6

LEMMA DrainedLease ==
    ASSUME StepInv, NEW t \in Tasks, Drained(t)
    PROVE  L!Return(t)
  <1>1. /\ pc[t] = "draining" /\ Release(t, "returned")
        /\ UNCHANGED phase /\ connected' = connected
    BY DEF Drained, sockVars
  <1>2. pc[t] \in InFlight /\ connected[conn[t]] /\ ~Handshaking(t)
    BY <1>1 DEF InFlight, InTouch, StepInv, WireInv, ConnectedOK, Handshaking
  <1> QED
    BY <1>1, <1>2, ReturnLease DEF OtherPhases

LEMMA WithdrawLease ==
    ASSUME StepInv, NEW t \in Tasks, CancelGet(t)
    PROVE  L!Withdraw(t)
  <1>1. pc[t] \in {"waiting", "woken"} /\ UNCHANGED <<pool, conn, phase, connected>>
    BY DEF CancelGet, localVars, sockVars
  <1>2. /\ pc'[t] = "idle"
        /\ \A u \in Tasks : u # t => (pc'[u] = "idle" <=> pc[u] = "idle")
    <2>1. ASSUME WakeNext([pc EXCEPT ![t] = "idle"]), pc[t] = "woken"
          PROVE  /\ pc'[t] = "idle"
                 /\ \A u \in Tasks : u # t => (pc'[u] = "idle" <=> pc[u] = "idle")
      <3>1. CASE getters = <<>>
        BY <2>1, <3>1 DEF WakeNext, StepInv, TypeInv, TypeOK
      <3>2. CASE getters # <<>>
        <4>1. PICK u \in Tasks :
                pc[u] = "waiting" /\ pc' = [[pc EXCEPT ![t] = "idle"] EXCEPT ![u] = "woken"]
          BY <2>1, <3>2, WakeHead DEF StepInv
        <4> QED
          BY <2>1, <4>1 DEF StepInv, TypeInv, TypeOK
      <3> QED
        BY <3>1, <3>2
    <2>2. ASSUME pc' = [pc EXCEPT ![t] = "idle"]
          PROVE  /\ pc'[t] = "idle"
                 /\ \A u \in Tasks : u # t => (pc'[u] = "idle" <=> pc[u] = "idle")
      BY <2>2 DEF StepInv, TypeInv, TypeOK
    <2> QED
      BY <2>1, <2>2 DEF CancelGet
  <1>3. t \in Busy /\ Busy' = Busy \ {t}
    BY <1>1, <1>2 DEF Busy
  <1>4. conn[t] = NoConn
    BY <1>1 DEF StepInv, TypeInv, HoldOK, InFlight
  <1>5. \A d \in Conns : Owner[d] # t
    BY <1>4, ConnsAssumption, OwnerMeans DEF OwnerIs, StepInv
  <1>6. Owner' = Owner /\ Proven' = Proven
    BY <1>1 DEF Owner, Proven, Pooled, Handshaking
  <1> QED
    BY <1>3, <1>5, <1>6 DEF L!Withdraw, L!HoldsNone, L!Holds, Owner, Busy, Proven

\* close() takes transports out of the queue, and nothing else.
LEMMA CloseLease ==
    ASSUME StepInv, Sweep, UNCHANGED <<pc, conn, phase, connected>>
    PROVE  L!Close
  <1> DEFINE S == {c \in Conns : Pooled(c) /\ ~Pooled(c)'}
  <1>1. \A d \in Conns : Pooled(d)' => Pooled(d)
    BY SweepPooled DEF StepInv
  <1>2. S \in SUBSET {c \in Conns : Owner[c] = "pool"}
    BY OwnerMeans DEF OwnerIs, StepInv
  <1>3. ASSUME NEW d \in Conns PROVE Owner'[d] = IF d \in S THEN "gone" ELSE Owner[d]
    <2>1. CASE d \in S
      <3>1. \A t \in Tasks : conn[t] # d
        BY <2>1, ConnsAssumption DEF StepInv, Exclusive, Holding
      <3> QED
        BY <2>1, <3>1 DEF Owner
    <2>2. CASE d \notin S
      <3>1. Pooled(d)' <=> Pooled(d)
        BY <1>1, <2>2
      <3> QED
        BY <3>1, SameOwner DEF StepInv
    <2> QED
      BY <2>1, <2>2
  <1>4. Owner' = [c \in Conns |-> IF c \in S THEN "gone" ELSE Owner[c]]
    <2>1. Owner' = [c \in Conns |-> Owner'[c]]
      BY DEF Owner
    <2> QED
      BY <1>3, <2>1
  <1>5. ASSUME NEW d \in Conns PROVE d \in Proven' <=> d \in Proven /\ d \notin S
    <2>1. d \in S => \A t \in Tasks : conn[t] # d
      BY ConnsAssumption DEF StepInv, Exclusive, Holding
    <2> QED
      BY <1>1, <2>1 DEF Proven, Handshaking
  <1>6. Proven' = Proven \ S
    BY <1>5 DEF Proven
  <1> HIDE DEF S
  <1> QED
    BY <1>2, <1>4, <1>6 DEF L!Close, Owner, Proven

LEMMA StutterLease ==
    ASSUME UNCHANGED <<pool, conn, phase, connected>>,
           \A t \in Tasks : pc'[t] = "idle" <=> pc[t] = "idle"
    PROVE  UNCHANGED <<Owner, Busy, Proven>>
  BY DEF Owner, Busy, Proven, Pooled, Handshaking

LEMMA LeaseStep == StepInv /\ [Next]_vars => [L!LeaseNext]_(L!leaseVars)
  <1> SUFFICES ASSUME StepInv, [Next]_vars
               PROVE  L!LeaseNext \/ UNCHANGED <<Owner, Busy, Proven>>
    BY DEF L!leaseVars, Owner, Busy, Proven
  <1>1. CASE UNCHANGED vars
    BY <1>1, StutterLease DEF vars
  <1>2. ASSUME NEW t \in Tasks, Start(t) PROVE L!LeaseNext
    BY <1>2, BeginLease DEF L!LeaseNext
  <1>3. ASSUME NEW t \in Tasks, Resume(t)
        PROVE  L!LeaseNext \/ UNCHANGED <<Owner, Busy, Proven>>
    BY <1>3, ObtainLease DEF L!LeaseNext
  <1>4. ASSUME NEW t \in Tasks, Connect(t)
        PROVE  UNCHANGED <<Owner, Busy, Proven>>
    BY <1>4, ConnectLease
  <1>5. ASSUME NEW t \in Tasks,
               \/ ConnectFails(t) \/ RejectHeader(t) \/ SocketFails(t) \/ CancelCall(t)
        PROVE  L!LeaseNext
    <2>1. pc[t] \in InFlight /\ Raise(t) /\ connected' = connected
      BY <1>5 DEF ConnectFails, RejectHeader, SocketFails, CancelCall, InFlight, sockVars
    <2> QED
      BY <2>1, RaiseLease DEF L!LeaseNext
  <1>6. ASSUME NEW t \in Tasks, ReadHeader(t)
        PROVE  UNCHANGED <<Owner, Busy, Proven>>
    <2>1. /\ UNCHANGED <<pool, conn, phase, connected>>
          /\ \A u \in Tasks : pc'[u] = "idle" <=> pc[u] = "idle"
      BY <1>6 DEF ReadHeader, poolVars, localVars, sockVars
    <2> QED
      BY <2>1, StutterLease
  <1>7. ASSUME NEW t \in Tasks, ReadBody(t)
        PROVE  L!LeaseNext \/ UNCHANGED <<Owner, Busy, Proven>>
    BY <1>7, ReadBodyLease DEF L!LeaseNext
  <1>8. ASSUME NEW t \in Tasks, Drained(t) PROVE L!LeaseNext
    BY <1>8, DrainedLease DEF L!LeaseNext
  <1>9. ASSUME NEW t \in Tasks, CancelGet(t) PROVE L!LeaseNext
    BY <1>9, WithdrawLease DEF L!LeaseNext
  <1>10. CASE CloseStart \/ CloseNext
    <2>1. Sweep /\ UNCHANGED <<pc, conn, phase, connected>>
      BY <1>10 DEF CloseStart, CloseNext, localVars, sockVars
    <2> QED
      BY <2>1, CloseLease DEF L!LeaseNext
  <1>11. CASE CloseRaises
    BY <1>11, StutterLease DEF CloseRaises, poolVars, localVars, sockVars
  <1>12. ASSUME NEW c \in Conns, Serve(c) \/ Reset(c)
         PROVE  UNCHANGED <<Owner, Busy, Proven>>
    BY <1>12, StutterLease DEF Serve, Reset, poolVars, localVars, sockVars
  <1> QED
    BY <1>1, <1>2, <1>3, <1>4, <1>5, <1>6, <1>7, <1>8, <1>9, <1>10, <1>11, <1>12 DEF Next,
       TaskStep

LEMMA PoolOnceFull == Init => \A c \in Conns : Pooled(c)
  <1> SUFFICES ASSUME Init, NEW c \in Conns PROVE Pooled(c)
    OBVIOUS
  <1> DEFINE D == 1..Cardinality(Conns)
  <1>1. Cardinality(Conns) \in Nat /\ IsFiniteSet(Conns)
    BY ConnsAssumption, FS_CardinalityType
  <1>2. /\ pool \in [D -> Conns]
        /\ \A i, j \in D : pool[i] = pool[j] => i = j
    BY DEF Init, SetToSeqs
  <1>3. pool \in Injection(D, Conns)
    BY <1>2 DEF Injection, IsInjective
  <1>4. Cardinality(D) = Cardinality(Conns)
    BY <1>1, FS_Interval
  <1>5. pool \in Surjection(D, Conns)
    BY <1>1, <1>3, <1>4, FS_Injection
  <1>6. PICK i \in D : pool[i] = c
    BY <1>5 DEF Surjection
  <1>7. Len(pool) = Cardinality(Conns)
    BY <1>1, <1>2
  <1> QED
    BY <1>6, <1>7 DEF Pooled

LEMMA LeaseStart == Init => L!LeaseInit
  <1> SUFFICES ASSUME Init PROVE Owner = [c \in Conns |-> "pool"] /\ Busy = {} /\ Proven = {}
    BY DEF L!LeaseInit, Owner, Busy, Proven
  <1>1. Owner = [c \in Conns |-> "pool"]
    BY PoolOnceFull DEF Owner
  <1>2. Busy = {} /\ Proven = {}
    BY DEF Init, Busy, Proven
  <1> QED
    BY <1>1, <1>2

\* The pool is a lease: one call at a time has a transport, what is given back
\* has been through the handshake, and only a call that fails in the handshake
\* or close() takes one out of service (client.py:78-89 and 234-251).
THEOREM PoolIsLeaseCorrect == Spec => PoolIsLease
  <1>1. TypeInv /\ Exclusive /\ WireInv /\ [Next]_vars => WireInv'
    BY NextTypeInv, NextWire, WireInvStep
  <1>2. /\ TypeInv /\ Exclusive /\ WireInv /\ TypeInv' /\ Exclusive' /\ [Next]_vars
        => [L!LeaseNext]_(L!leaseVars)
    BY LeaseStep DEF StepInv
  <1> QED
    BY <1>1, <1>2, LeaseStart, WireInvInit, TypeCorrect, ExclusiveCorrect, PTL DEF Spec,
       PoolIsLease, L!LeaseSpec

-----------------------------------------------------------------------------
(* close()                                                                 *)

LEMMA SweepEmpties ==
    ASSUME TypeInv, Sweep, closer' = "closed"
    PROVE  pool' = <<>>
  BY DEF Sweep

LEMMA CloserStep ==
    ASSUME [Next]_vars, closer' = "closed", closer # "closed"
    PROVE  (CloseStart \/ CloseNext) /\ Sweep
  <1>1. ASSUME NEW t \in Tasks, Start(t) \/ TaskStep(t) \/ CancelGet(t) \/ CancelCall(t)
        PROVE  FALSE
    BY <1>1 DEF Start, TaskStep, Resume, Connect, ConnectFails, ReadHeader, RejectHeader,
       ReadBody, Drained, SocketFails, CancelGet, CancelCall, closeVars
  <1>2. ASSUME NEW c \in Conns, Serve(c) \/ Reset(c) PROVE FALSE
    BY <1>2 DEF Serve, Reset, closeVars
  <1>3. ~CloseRaises
    BY DEF CloseRaises
  <1>4. ~UNCHANGED vars
    BY DEF vars
  <1> QED
    BY <1>1, <1>2, <1>3, <1>4 DEF Next, CloseStart, CloseNext

LEMMA TakeReach ==
    ASSUME StepInv, NEW t \in Tasks, NEW at \in {"header", "draining"},
           pc[t] \in {"idle", "woken"}, Take(t, at),
           UNCHANGED <<connected, alive, closing>>,
           NEW c \in Conns, InReach(c), alive'[c]
    PROVE  InReach(c)'
  <1>1. PICK d \in Conns : Granted(t, d)
    BY TakeGrants
  <1>2. /\ conn'[t] = d /\ conn[t] # c
        /\ \A u \in Tasks : u # t => conn'[u] = conn[u] /\ phase'[u] = phase[u]
    BY <1>1, ConnsAssumption DEF Granted, OtherPhases, StepInv, TypeInv, TypeOK
  <1>3. CASE c = d
    <2>1. connected[c]
      BY DEF StepInv, WireInv, Untouched
    <2> QED
      BY <1>1, <1>2, <1>3, <2>1 DEF Granted, InReach, Handshaking
  <1>4. CASE c # d
    BY <1>1, <1>2, <1>4 DEF Granted, InReach, Handshaking
  <1> QED
    BY <1>3, <1>4

LEMMA ReleaseReach ==
    ASSUME StepInv, NEW t \in Tasks, pc[t] \in InFlight, NEW r \in {"returned", "raised"},
           Release(t, r), OtherPhases(t), closing' = closing, NEW c \in Conns, InReach(c)
    PROVE  InReach(c)'
  <1>1. conn[t] \in Conns /\ pool' = Append(pool, conn[t])
    BY DEF Release, StepInv, TypeInv, TypeOK, HoldOK
  <1>2. \A d \in Conns : Pooled(d)' <=> Pooled(d) \/ d = conn[t]
    BY <1>1, AppendExactly DEF StepInv
  <1>3. \A u \in Tasks : u # t => conn'[u] = conn[u] /\ phase'[u] = phase[u]
    BY DEF Release, OtherPhases, StepInv, TypeInv, TypeOK
  <1> QED
    BY <1>2, <1>3 DEF InReach, Handshaking

\* What an exception loses was in nobody's reach: its handshake is not over.
LEMMA RaiseReach ==
    ASSUME StepInv, NEW t \in Tasks, pc[t] \in InFlight, Raise(t), closing' = closing,
           NEW c \in Conns, InReach(c)
    PROVE  InReach(c)'
  <1>1. OtherPhases(t)
    BY DEF Raise, OtherPhases
  <1>2. CASE ~Handshaking(t) /\ Release(t, "raised")
    BY <1>1, <1>2, ReleaseReach
  <1>3. CASE Handshaking(t) /\ Lose(t)
    <2>1. /\ pool' = pool
          /\ \A u \in Tasks : u # t => conn'[u] = conn[u] /\ phase'[u] = phase[u]
      BY <1>1, <1>3 DEF Lose, poolVars, OtherPhases, StepInv, TypeInv, TypeOK
    <2> QED
      BY <1>3, <2>1 DEF InReach, Handshaking, Pooled
  <1> QED
    BY <1>2, <1>3 DEF Raise

\* A step of a task inside the handshake, or none, takes nothing out of reach.
LEMMA StayReach ==
    ASSUME NEW c \in Conns, InReach(c), UNCHANGED <<pool, conn, closing>>,
           \A u \in Tasks : ~Handshaking(u) => phase'[u] = phase[u]
    PROVE  InReach(c)'
  BY DEF InReach, Handshaking, Pooled

\* What the loop of close() drops never had a connection.
LEMMA SweepReach ==
    ASSUME StepInv, Sweep, UNCHANGED <<conn, phase>>, NEW c \in Conns, c # closing,
           InReach(c), connected[c]
    PROVE  InReach(c)'
  <1>1. CASE \E u \in Tasks : conn[u] = c /\ ~Handshaking(u)
    BY <1>1 DEF InReach, Handshaking
  <1>2. CASE Pooled(c)
    <2>1. PICK n \in 0..Len(pool) :
            /\ \A i \in 1..n : ~connected[pool[i]]
            /\ \/ n = Len(pool)
               \/ /\ n < Len(pool)
                  /\ pool' = SubSeq(pool, n + 2, Len(pool))
                  /\ closing' = pool[n+1]
      BY DEF Sweep
    <2>2. PICK i \in 1..Len(pool) : pool[i] = c
      BY <1>2 DEF Pooled
    <2>3. i \notin 1..n
      BY <2>1, <2>2
    <2>4. CASE i = n + 1
      BY <2>1, <2>2, <2>4 DEF InReach
    <2>5. CASE i > n + 1
      <3>1. n \in Nat /\ Len(pool) \in Nat /\ pool' = SubSeq(pool, n + 2, Len(pool))
        BY <2>1, <2>2, <2>5
      <3>2. /\ Len(pool') = IF n + 2 <= Len(pool) THEN Len(pool) - (n+2) + 1 ELSE 0
            /\ \A j \in 1..(Len(pool) - (n+2) + 1) : pool'[j] = pool[(n+2) + j - 1]
        BY <3>1
      <3>3. i - (n + 1) \in 1..Len(pool') /\ pool'[i - (n + 1)] = pool[i]
        BY <2>2, <2>5, <3>1, <3>2
      <3> QED
        BY <2>2, <3>3 DEF InReach, Pooled
    <2> QED
      BY <2>1, <2>3, <2>4, <2>5
  <1> QED
    BY <1>1, <1>2 DEF InReach

LEMMA ReachStep ==
    ASSUME StepInv, [Next]_vars, NEW c \in Conns, InReach(c), alive'[c]
    PROVE  InReach(c)'
  <1>1. CASE UNCHANGED vars
    BY <1>1, StayReach DEF vars
  <1>2. ASSUME NEW t \in Tasks, Start(t) \/ Resume(t) PROVE InReach(c)'
    <2>1. /\ pc[t] \in {"idle", "woken"}
          /\ UNCHANGED <<connected, alive, closing>>
          /\ \/ \E w \in BOOLEAN : Take(t, Await(w))
             \/ UNCHANGED <<pool, conn, phase>>
      BY <1>2, ModesAssumption
         DEF Start, Resume, sockVars, closeVars, StepInv, TypeInv, TypeOK
    <2>2. ASSUME NEW w \in BOOLEAN, Take(t, Await(w)) PROVE InReach(c)'
      <3>1. PICK at \in {"header", "draining"} : at = Await(w)
        BY DEF Await
      <3>2. Take(t, at)
        BY <2>2, <3>1
      <3> QED
        BY <2>1, <3>2, TakeReach
    <2>3. CASE UNCHANGED <<pool, conn, phase>>
      BY <2>1, <2>3, StayReach
    <2> QED
      BY <2>1, <2>2, <2>3
  <1>3. ASSUME NEW t \in Tasks, Connect(t) PROVE InReach(c)'
    <2>1. Handshaking(t)
      BY <1>3 DEF Connect, Handshaking, StepInv, WireInv, ConnectedOK
    <2>2. UNCHANGED <<pool, conn, closing>> /\ OtherPhases(t)
      BY <1>3 DEF Connect, Transmit, poolVars, closeVars, OtherPhases, StepInv, TypeInv, TypeOK
    <2> QED
      BY <2>1, <2>2, StayReach DEF OtherPhases
  <1>4. ASSUME NEW t \in Tasks,
               \/ ConnectFails(t) \/ RejectHeader(t) \/ SocketFails(t) \/ CancelCall(t)
        PROVE  InReach(c)'
    <2>1. pc[t] \in InFlight /\ Raise(t) /\ closing' = closing
      BY <1>4 DEF ConnectFails, RejectHeader, SocketFails, CancelCall, InFlight, closeVars
    <2> QED
      BY <2>1, RaiseReach
  <1>5. ASSUME NEW t \in Tasks, ReadHeader(t) \/ CancelGet(t) PROVE InReach(c)'
    <2>1. UNCHANGED <<pool, conn, phase, closing>>
      BY <1>5 DEF ReadHeader, CancelGet, poolVars, localVars, closeVars
    <2> QED
      BY <2>1, StayReach
  <1>6. ASSUME NEW t \in Tasks, ReadBody(t) PROVE InReach(c)'
    <2>1. pc[t] \in InFlight /\ closing' = closing
      BY <1>6 DEF ReadBody, InFlight, closeVars
    <2>2. CASE Raise(t)
      BY <2>1, <2>2, RaiseReach
    <2>3. CASE Release(t, "returned") /\ UNCHANGED phase
      BY <2>1, <2>3, ReleaseReach DEF OtherPhases
    <2>4. ASSUME Handshaking(t), UNCHANGED <<pool, conn>>, NEW p, NEW at,
                 Transmit(t, conn[t], p, at)
          PROVE  InReach(c)'
      <3>1. OtherPhases(t)
        BY <2>4 DEF Transmit, OtherPhases, StepInv, TypeInv, TypeOK
      <3> QED
        BY <2>1, <2>4, <3>1, StayReach DEF OtherPhases
    <2> QED
      BY <1>6, <2>2, <2>3, <2>4 DEF ReadBody, poolVars
  <1>7. ASSUME NEW t \in Tasks, Drained(t) PROVE InReach(c)'
    <2>1. /\ pc[t] \in InFlight /\ closing' = closing
          /\ Release(t, "returned") /\ UNCHANGED phase
      BY <1>7 DEF Drained, InFlight, closeVars
    <2> QED
      BY <2>1, ReleaseReach DEF OtherPhases
  <1>8. CASE CloseStart \/ CloseNext
    <2>1. Sweep /\ UNCHANGED <<conn, phase>>
      BY <1>8 DEF CloseStart, CloseNext, localVars
    <2>2. c # closing /\ alive[c]
      BY <1>8, ConnsAssumption
         DEF CloseStart, CloseNext, sockVars, StepInv, TypeInv, TypeOK, HoldOK
    <2>3. connected[c]
      BY <2>2 DEF StepInv, WireInv, Untouched
    <2> QED
      BY <2>1, <2>2, <2>3, SweepReach
  <1>9. CASE CloseRaises
    <2>1. c # closing /\ UNCHANGED <<pool, conn, phase>>
      BY <1>9 DEF CloseRaises, poolVars, localVars, sockVars
    <2> QED
      BY <2>1 DEF InReach, Handshaking, Pooled
  <1>10. ASSUME NEW d \in Conns, Serve(d) \/ Reset(d) PROVE InReach(c)'
    <2>1. UNCHANGED <<pool, conn, phase, closing>>
      BY <1>10 DEF Serve, Reset, poolVars, localVars, closeVars
    <2> QED
      BY <2>1, StayReach
  <1> QED
    BY <1>1, <1>2, <1>3, <1>4, <1>5, <1>6, <1>7, <1>8, <1>9, <1>10 DEF Next, TaskStep

\* An open connection stays in the queue, in close() or with a request that will
\* put it back, whatever fails, is cancelled or dies: close() is done with none
\* before it is down, and has emptied the queue when it comes back
\* (client.py:78-89, 250-251, transport.py:183-188).
THEOREM CloseLeavesCorrect == Spec => CloseLeavesOnlyBusy
  <1>1. TypeInv /\ Exclusive /\ WireInv /\ [Next]_vars => WireInv'
    BY NextTypeInv, NextWire, WireInvStep
  <1> DEFINE Kept == /\ \A c \in Conns : InReach(c) /\ alive'[c] => InReach(c)'
                     /\ closer' = "closed" /\ closer # "closed" => pool' = <<>>
  <1>2. /\ TypeInv /\ Exclusive /\ WireInv /\ TypeInv' /\ Exclusive' /\ [Next]_vars
        => [Kept]_vars
    <2> SUFFICES ASSUME StepInv, [Next]_vars PROVE Kept
      BY DEF StepInv
    <2>1. \A c \in Conns : InReach(c) /\ alive'[c] => InReach(c)'
      BY ReachStep
    <2>2. closer' = "closed" /\ closer # "closed" => pool' = <<>>
      BY CloserStep, SweepEmpties DEF StepInv
    <2> QED
      BY <2>1, <2>2
  <1> QED
    BY <1>1, <1>2, WireInvInit, TypeCorrect, ExclusiveCorrect, PTL DEF Spec, CloseLeavesOnlyBusy

-----------------------------------------------------------------------------
(* Stale replies                                                           *)

\* Everything under way on a transport, and what of it is not for its user.
Contents(c) == Elems(inbox[c]) \cup Elems(stream[c])
Foreign(c, m) == \A t \in Tasks : conn[t] = c => m.rid # rid[t]

\* A request that has become a reply counts as the header and the body.
Weight(c) == Len(inbox[c]) + Len(inbox[c]) + Len(stream[c])

\* At most the user's one request, or its reply, is under way.
Tidy(c) ==
    /\ \A m \in Contents(c) : ~Foreign(c, m)
    /\ \A t \in Tasks : conn[t] = c =>
        /\ pc[t] \in {"header", "draining"} => Weight(c) <= 2
        /\ pc[t] = "body" => Weight(c) <= 1

\* What comes next is for nobody, and will never be taken for a reply.
Blocked(c) ==
    /\ connected[c]
    /\ \A t \in Tasks : conn[t] = c => pc[t] # "body"
    /\ stream[c] # <<>> => Foreign(c, stream[c][1])
    /\ stream[c] = <<>> /\ inbox[c] # <<>> => Foreign(c, inbox[c][1])
    /\ stream[c] = <<>> /\ inbox[c] = <<>> => ~alive[c]

\* A request is still under way while its task waits at a live socket.
Outstanding(t) ==
    pc[t] \in {"header", "draining"} /\ alive[conn[t]] =>
        \E m \in Contents(conn[t]) : m.rid = rid[t]

StaleInv ==
    /\ \A c \in Conns : Tidy(c) \/ Blocked(c)
    /\ \A t \in Tasks : Outstanding(t)

\* Nothing about d changes.
SameView(d) ==
    /\ inbox'[d] = inbox[d] /\ stream'[d] = stream[d]
    /\ alive'[d] = alive[d] /\ connected'[d] = connected[d]
    /\ \A u \in Tasks : conn'[u] = d <=> conn[u] = d
    /\ \A u \in Tasks : conn[u] = d => rid'[u] = rid[u] /\ pc'[u] = pc[u]

LEMMA SameViewKeeps ==
    ASSUME NEW d \in Conns, SameView(d)
    PROVE  /\ Tidy(d) => Tidy(d)'
           /\ Blocked(d) => Blocked(d)'
           /\ \A u \in Tasks : conn[u] = d /\ Outstanding(u) => Outstanding(u)'
  <1>1. Contents(d)' = Contents(d) /\ Weight(d)' = Weight(d)
    BY DEF SameView, Contents, Weight
  <1>2. \A m : Foreign(d, m)' <=> Foreign(d, m)
    BY DEF SameView, Foreign
  <1>3. Tidy(d) => Tidy(d)'
    BY <1>1, <1>2 DEF SameView, Tidy
  <1>4. Blocked(d) => Blocked(d)'
    BY <1>2 DEF SameView, Blocked
  <1>5. \A u \in Tasks : conn[u] = d /\ Outstanding(u) => Outstanding(u)'
    BY <1>1 DEF SameView, Outstanding
  <1> QED
    BY <1>3, <1>4, <1>5

\* A task's step at c leaves every other transport alone.
LEMMA Elsewhere ==
    ASSUME TypeInv, TypeInv', NEW t \in Tasks, NEW c \in Conns, TaskStepOn(t, c),
           NEW d \in Conns, d # c
    PROVE  SameView(d)
  <1>1. /\ inbox'[d] = inbox[d] /\ stream'[d] = stream[d]
        /\ alive'[d] = alive[d] /\ connected'[d] = connected[d]
    BY DEF TaskStepOn, FreshStep, CommandStep, ConnectStep, ProceedStep, HeaderStep, EndStep,
       Written, TypeInv, TypeOK
  <1>2. conn[t] # d /\ conn'[t] # d
    BY ConnsAssumption DEF TaskStepOn, FreshStep, CommandStep, ConnectStep, ProceedStep,
       HeaderStep, EndStep, Written
  <1>3. OthersStill(t)
    BY DEF TaskStepOn, FreshStep, CommandStep, ConnectStep, ProceedStep, HeaderStep, EndStep,
       Written
  <1>4. \A u \in Tasks : conn[u] = d => pc[u] # "waiting"
    BY ConnsAssumption DEF TypeInv, HoldOK, InFlight
  <1> QED
    BY <1>1, <1>2, <1>3, <1>4 DEF SameView, OthersStill

\* A message of t's goes to the end of what the socket holds, if it is up.
LEMMA WriteAt ==
    ASSUME TypeInv, NEW t \in Tasks, NEW c \in Conns, NEW p \in Phases, Written(t, c, p)
    PROVE  /\ rid'[t] = nextRid /\ conn'[t] = c /\ pc'[t] \in {"header", "draining"}
           /\ Len(inbox'[c]) \in Nat /\ Len(inbox'[c]) <= Len(inbox[c]) + 1
           /\ Elems(inbox'[c]) \subseteq Elems(inbox[c]) \cup {Request(nextRid, p)}
           /\ inbox[c] # <<>> => inbox'[c] # <<>> /\ inbox'[c][1] = inbox[c][1]
           /\ alive[c] \/ pc[t] = "connecting" => Request(nextRid, p) \in Elems(inbox'[c])
           /\ ~(alive[c] \/ pc[t] = "connecting") => inbox'[c] = inbox[c]
  <1> PICK q \in Seq(Messages) : q = inbox[c]
    BY DEF TypeInv, TypeOK, Messages
  <1> PICK m \in Messages : m = Request(nextRid, p)
    BY DEF Request, Messages, TypeInv, TypeOK
  <1>1. rid'[t] = nextRid /\ conn'[t] = c /\ pc'[t] \in {"header", "draining"}
    BY DEF Written, InTouch
  <1>2. inbox'[c] = IF alive[c] \/ pc[t] = "connecting" THEN Append(q, m) ELSE q
    BY DEF Written, TypeInv, TypeOK
  <1>3. /\ Len(q) \in Nat /\ Len(Append(q, m)) = Len(q) + 1
        /\ \A i \in 1..Len(q) : Append(q, m)[i] = q[i]
        /\ Append(q, m)[Len(q) + 1] = m
        /\ Append(q, m) # <<>>
        /\ Elems(Append(q, m)) \subseteq Elems(q) \cup {m}
    BY ElemsOf
  <1>5. m \in Elems(Append(q, m))
    BY DEF Elems
  <1> QED
    BY <1>1, <1>2, <1>3, <1>5

\* The first unit of a stream or message of a socket is part of its contents.
LEMMA Fronts ==
    ASSUME TypeInv, NEW c \in Conns
    PROVE  /\ inbox[c] \in Seq(Messages) /\ stream[c] \in Seq(Units)
           /\ stream[c] # <<>> => stream[c][1] \in Contents(c) /\ Head(stream[c]) = stream[c][1]
           /\ inbox[c] # <<>> => inbox[c][1] \in Contents(c) /\ Head(inbox[c]) = inbox[c][1]
           /\ Len(inbox[c]) \in Nat /\ Len(stream[c]) \in Nat
           /\ Len(stream[c]) = 0 <=> stream[c] = <<>>
           /\ Len(inbox[c]) = 0 <=> inbox[c] = <<>>
  <1>1. inbox[c] \in Seq(Messages) /\ stream[c] \in Seq(Units)
    BY StreamsType DEF TypeInv, TypeOK, Messages
  <1>2. /\ stream[c] # <<>> => Head(stream[c]) = stream[c][1] /\ Head(stream[c]) \in Contents(c)
        /\ inbox[c] # <<>> => Head(inbox[c]) = inbox[c][1] /\ Head(inbox[c]) \in Contents(c)
    BY <1>1, ElemsOf DEF Contents
  <1> QED
    BY <1>1, <1>2

\* A transport that nobody has and that is tidy has nothing under way.
LEMMA TidyAlone ==
    ASSUME TypeInv, NEW c \in Conns, Tidy(c), \A u \in Tasks : conn[u] # c
    PROVE  inbox[c] = <<>> /\ stream[c] = <<>>
  <1>1. \A m \in Contents(c) : FALSE
    BY DEF Tidy, Foreign
  <1> QED
    BY <1>1, Fronts

\* A first message on an empty transport leaves it tidy.
LEMMA FirstWrite ==
    ASSUME TypeInv, NEW t \in Tasks, NEW c \in Conns, NEW p \in Phases, Written(t, c, p),
           inbox[c] = <<>>, stream'[c] = <<>>, \A u \in Tasks : conn'[u] = c => u = t
    PROVE  Tidy(c)'
  <1>1. /\ rid'[t] = nextRid /\ conn'[t] = c /\ pc'[t] \in {"header", "draining"}
        /\ Len(inbox'[c]) \in Nat /\ Len(inbox'[c]) <= Len(inbox[c]) + 1
        /\ Elems(inbox'[c]) \subseteq Elems(inbox[c]) \cup {Request(nextRid, p)}
    BY WriteAt
  <1>2. Contents(c)' \subseteq {Request(nextRid, p)}
    BY <1>1, NoElems DEF Contents
  <1>3. \A m \in Contents(c)' : ~Foreign(c, m)'
    BY <1>1, <1>2 DEF Foreign, Request
  <1>5. Weight(c)' <= 2
    BY <1>1 DEF Weight
  <1> QED
    BY <1>1, <1>3, <1>5 DEF Tidy

LEMMA WriteOutstanding ==
    ASSUME TypeInv, NEW t \in Tasks, NEW c \in Conns, NEW p \in Phases, Written(t, c, p),
           alive'[c] => alive[c] \/ pc[t] = "connecting"
    PROVE  Outstanding(t)'
  <1>1. /\ rid'[t] = nextRid /\ conn'[t] = c
        /\ alive'[c] => Request(nextRid, p) \in Elems(inbox'[c])
    BY WriteAt
  <1>2. Request(nextRid, p).rid = nextRid
    BY DEF Request
  <1> QED
    BY <1>1, <1>2 DEF Outstanding, Contents

\* What the action lemmas show of the transport a step is about.
Watched(c) ==
    /\ Tidy(c) \/ Blocked(c) => (Tidy(c) \/ Blocked(c))'
    /\ Blocked(c) => Blocked(c)'

LEMMA FreshStale ==
    ASSUME TypeInv, WireInv, NEW t \in Tasks, NEW c \in Conns, FreshStep(t, c)
    PROVE  Watched(c) /\ Outstanding(t)'
  <1>1. inbox'[c] = <<>> /\ stream'[c] = <<>> /\ ~connected[c]
    BY DEF FreshStep, WireInv, Untouched
  <1>2. \A u \in Tasks : conn'[u] = c => u = t
    BY DEF FreshStep, OthersStill
  <1>3. Contents(c)' = {} /\ pc'[t] = "connecting"
    BY <1>1, NoElems DEF Contents, FreshStep
  <1>4. Tidy(c)'
    BY <1>2, <1>3 DEF Tidy
  <1> QED
    BY <1>1, <1>3, <1>4 DEF Watched, Blocked, Outstanding

LEMMA CommandStale ==
    ASSUME TypeInv, RidsBelow, NEW t \in Tasks, NEW c \in Conns, CommandStep(t, c)
    PROVE  Watched(c) /\ Outstanding(t)'
  <1>1. /\ Written(t, c, "command") /\ "command" \in Phases
        /\ stream'[c] = stream[c] /\ alive'[c] = alive[c] /\ connected'[c]
        /\ \A u \in Tasks : conn[u] # c
        /\ pc[t] # "connecting"
    BY DEF CommandStep, Phases
  <1>2. \A u \in Tasks : conn'[u] = c => u = t
    BY <1>1 DEF Written, OthersStill
  <1>3. Outstanding(t)'
    BY <1>1, WriteOutstanding
  <1>4. Tidy(c) => Tidy(c)'
    BY <1>1, <1>2, TidyAlone, FirstWrite
  <1>5. ASSUME Blocked(c) PROVE Blocked(c)'
    <2>1. /\ rid'[t] = nextRid /\ pc'[t] # "body"
          /\ inbox[c] # <<>> => inbox'[c] # <<>> /\ inbox'[c][1] = inbox[c][1]
          /\ ~alive[c] => inbox'[c] = inbox[c]
      BY <1>1, WriteAt
    <2>2. \A m \in Contents(c) : Foreign(c, m)'
      BY <1>2, <2>1, FreshRid DEF Foreign, Contents
    <2>3. /\ stream[c] # <<>> => (Foreign(c, stream[c][1]))'
          /\ inbox[c] # <<>> => (Foreign(c, inbox[c][1]))'
      <3>1. /\ stream[c] # <<>> => stream[c][1] \in Contents(c)
            /\ inbox[c] # <<>> => inbox[c][1] \in Contents(c)
        BY Fronts
      <3>2. /\ stream'[c] = stream[c]
            /\ inbox[c] # <<>> => inbox'[c][1] = inbox[c][1]
        BY <1>1, <2>1
      <3>3. \A m \in Contents(c) : \A u \in Tasks : conn'[u] = c => m.rid # rid'[u]
        BY <2>2 DEF Foreign
      <3>4. stream[c] # <<>> =>
              \A u \in Tasks : conn'[u] = c => stream'[c][1].rid # rid'[u]
        BY <3>1, <3>2, <3>3
      <3>5. inbox[c] # <<>> =>
              \A u \in Tasks : conn'[u] = c => inbox'[c][1].rid # rid'[u]
        BY <3>1, <3>2, <3>3
      <3> QED
        BY <3>4, <3>5 DEF Foreign
    <2>4. \A u \in Tasks : conn'[u] = c => pc'[u] # "body"
      BY <1>2, <2>1
    <2>6. stream[c] = <<>> /\ inbox[c] = <<>> => ~alive'[c] /\ inbox'[c] = <<>>
      BY <1>1, <1>5, <2>1 DEF Blocked
    <2> QED
      BY <1>1, <2>1, <2>3, <2>4, <2>6 DEF Blocked
  <1> QED
    BY <1>3, <1>4, <1>5 DEF Watched

LEMMA ConnectStale ==
    ASSUME TypeInv, Exclusive, WireInv, NEW t \in Tasks, NEW c \in Conns, ConnectStep(t, c)
    PROVE  Watched(c) /\ Outstanding(t)'
  <1>1. /\ Written(t, c, "hello") /\ "hello" \in Phases
        /\ stream'[c] = stream[c] /\ pc[t] = "connecting" /\ conn[t] = c
    BY DEF ConnectStep, Phases
  <1>2. ~connected[c]
    BY <1>1 DEF WireInv, ConnectedOK
  <1>3. inbox[c] = <<>> /\ stream[c] = <<>>
    BY <1>2 DEF WireInv, Untouched
  <1>4. \A u \in Tasks : conn'[u] = c => u = t
    BY <1>1, ConnsAssumption DEF Written, OthersStill, Exclusive, Holding
  <1>5. Tidy(c)'
    BY <1>1, <1>3, <1>4, FirstWrite
  <1>6. Outstanding(t)'
    BY <1>1, WriteOutstanding
  <1> QED
    BY <1>2, <1>5, <1>6 DEF Watched, Blocked

LEMMA ProceedStale ==
    ASSUME TypeInv, Exclusive, NEW t \in Tasks, NEW c \in Conns, ProceedStep(t, c)
    PROVE  Watched(c) /\ Outstanding(t)'
  <1>1. PICK p \in Phases : Written(t, c, p)
    BY DEF ProceedStep, NextPhase, Phases
  <1>2. /\ pc[t] = "body" /\ conn[t] = c /\ stream[c] # <<>>
        /\ stream'[c] = Tail(stream[c]) /\ alive'[c] = alive[c]
    BY DEF ProceedStep, TypeInv, TypeOK
  <1>3. ~Blocked(c)
    BY <1>2 DEF Blocked
  <1>4. \A u \in Tasks : conn'[u] = c => u = t
    BY <1>1, <1>2, ConnsAssumption DEF Written, OthersStill, Exclusive, Holding
  <1>5. ASSUME Tidy(c) PROVE Tidy(c)'
    <2>1. Weight(c) <= 1
      BY <1>2, <1>5 DEF Tidy
    <2>2. Len(inbox[c]) = 0 /\ Len(stream[c]) = 1
      <3>1. PICK m \in Nat, n \in Nat : m = Len(inbox[c]) /\ n = Len(stream[c])
        BY Fronts
      <3>2. m + m + n <= 1
        BY <2>1, <3>1 DEF Weight
      <3>3. n # 0
        BY <1>2, <3>1
      <3>4. m = 0 /\ n = 1
        BY <3>2, <3>3
      <3> QED
        BY <3>1, <3>4
    <2>3. Tail(stream[c]) \in Seq(Units) /\ Len(Tail(stream[c])) = 0
      BY <1>2, <2>2, Fronts
    <2>4. inbox[c] = <<>> /\ stream'[c] = <<>>
      BY <1>2, <2>2, <2>3, Fronts, EmptySeq
    <2> QED
      BY <1>1, <1>4, <2>4, FirstWrite
  <1>6. Outstanding(t)'
    BY <1>1, <1>2, WriteOutstanding
  <1> QED
    BY <1>3, <1>5, <1>6 DEF Watched

LEMMA HeaderStale ==
    ASSUME TypeInv, Exclusive, NEW t \in Tasks, NEW c \in Conns, HeaderStep(t, c)
    PROVE  Watched(c) /\ Outstanding(t)'
  <1>1. /\ pc[t] = "header" /\ pc'[t] = "body" /\ conn[t] = c
        /\ stream[c] # <<>> /\ Head(stream[c]).rid = rid[t]
        /\ stream'[c] = Tail(stream[c])
        /\ UNCHANGED <<conn, rid, inbox>>
        /\ OthersStill(t)
    BY DEF HeaderStep, TypeInv, TypeOK
  <1>2. ~Blocked(c)
    BY <1>1 DEF Blocked, Foreign
  <1>3. \A u \in Tasks : conn[u] = c => u = t
    BY <1>1, ConnsAssumption DEF Exclusive, Holding
  <1>4. ASSUME Tidy(c) PROVE Tidy(c)'
    <2>1. Weight(c) <= 2
      BY <1>1, <1>4 DEF Tidy
    <2>2. Len(stream'[c]) = Len(stream[c]) - 1
      BY <1>1
    <2>3. Weight(c)' <= 1
      <3>1. PICK m \in Nat, n \in Nat : m = Len(inbox[c]) /\ n = Len(stream[c])
        BY Fronts
      <3>2. m + m + n <= 2
        BY <2>1, <3>1 DEF Weight
      <3>3. Weight(c)' = m + m + (n - 1)
        BY <1>1, <2>2, <3>1 DEF Weight
      <3>4. m + m + (n - 1) <= 1
        BY <3>2
      <3> QED
        BY <3>3, <3>4
    <2>4. Contents(c)' \subseteq Contents(c)
      BY <1>1, Fronts, ElemsOf DEF Contents
    <2>5. \A m \in Contents(c)' : ~Foreign(c, m)'
      BY <1>1, <1>4, <2>4 DEF Tidy, Foreign
    <2> QED
      BY <1>1, <1>3, <2>3, <2>5 DEF Tidy
  <1> QED
    BY <1>1, <1>2, <1>4 DEF Watched, Outstanding

LEMMA EndStale ==
    ASSUME TypeInv, TypeInv', Exclusive, WireInv, StaleInv,
           NEW t \in Tasks, NEW c \in Conns, EndStep(t, c)
    PROVE  Watched(c) /\ Outstanding(t)'
  <1>1. /\ pc[t] \in InFlight /\ pc'[t] = "idle" /\ conn[t] = c /\ conn'[t] = NoConn
        /\ inbox' = inbox /\ alive' = alive /\ connected' = connected
        /\ OthersStill(t)
        /\ \/ stream'[c] = stream[c]
           \/ stream[c] # <<>> /\ stream'[c] = Tail(stream[c])
           \/ ~alive[c] /\ stream'[c] = <<>>
    BY DEF EndStep, TypeInv, TypeOK
  <1>2. \A u \in Tasks : conn'[u] # c
    BY <1>1, ConnsAssumption DEF OthersStill, Exclusive, Holding
  <1>3. \A m : Foreign(c, m)'
    BY <1>2 DEF Foreign
  <1>4. Contents(c)' = {} => Tidy(c)'
    BY <1>2 DEF Tidy
  <1>5. Contents(c)' = {} <=> inbox'[c] = <<>> /\ stream'[c] = <<>>
    <2>1. inbox'[c] \in Seq(Messages) /\ stream'[c] \in Seq(Units)
      BY DEF TypeInv, TypeOK, Messages, Units
    <2>2. inbox'[c] # <<>> => Head(inbox'[c]) \in Contents(c)'
      BY <2>1, ElemsOf DEF Contents
    <2>3. stream'[c] # <<>> => Head(stream'[c]) \in Contents(c)'
      BY <2>1, ElemsOf DEF Contents
    <2>4. inbox'[c] = <<>> /\ stream'[c] = <<>> => Contents(c)' = {}
      BY NoElems DEF Contents
    <2> QED
      BY <2>2, <2>3, <2>4
  <1>6. Contents(c)' # {} => connected[c]
    <2>1. ASSUME ~connected[c] PROVE Contents(c)' = {}
      <3>1. inbox[c] = <<>> /\ stream[c] = <<>>
        BY <2>1 DEF WireInv, Untouched
      <3> QED
        BY <1>1, <1>5, <3>1
    <2> QED
      BY <2>1
  <1>7. Contents(c)' # {} => Blocked(c)'
    BY <1>1, <1>2, <1>3, <1>5, <1>6 DEF Blocked
  <1>8. ASSUME Blocked(c), Contents(c)' = {}, alive[c] PROVE FALSE
    <2>1. inbox[c] = <<>> /\ stream'[c] = <<>>
      BY <1>1, <1>5, <1>8
    <2>2. stream[c] # <<>> /\ Foreign(c, stream[c][1])
      BY <1>8, <2>1 DEF Blocked
    <2>3. stream'[c] = Tail(stream[c])
      BY <1>1, <1>8, <2>1
    <2>4. pc[t] \in {"header", "draining"}
      BY <1>1, <1>8 DEF Blocked, InFlight, WireInv, ConnectedOK
    <2>5. PICK m \in Contents(c) : m.rid = rid[t]
      BY <1>1, <1>8, <2>4 DEF StaleInv, Outstanding
    <2>6. m \in Elems(stream[c])
      BY <2>1, NoElems DEF Contents
    <2>7. m # stream[c][1]
      BY <1>1, <2>2, <2>5 DEF Foreign
    <2>8. PICK i \in 1..Len(stream[c]) : m = stream[c][i]
      BY <2>6 DEF Elems
    <2>10. Len(Tail(stream[c])) = 0
      BY <2>1, <2>3, EmptySeq
    <2> QED
      BY <2>7, <2>8, <2>10
  <1>9. Blocked(c) => Blocked(c)'
    BY <1>1, <1>2, <1>3, <1>5, <1>8 DEF Blocked
  <1> QED
    BY <1>1, <1>4, <1>7, <1>9 DEF Watched, Outstanding

LEMMA DownStale ==
    ASSUME TypeInv, TypeInv', NEW c \in Conns, DownStep(c)
    PROVE  Watched(c) /\ \A u \in Tasks : conn[u] = c => Outstanding(u)'
  <1>1. /\ inbox'[c] = <<>> /\ ~alive'[c] /\ UNCHANGED <<pc, conn, rid, connected>>
        /\ \/ stream'[c] = stream[c]
           \/ \E n \in 0..Len(stream[c]) : stream'[c] = SubSeq(stream[c], 1, n)
    BY DEF DownStep, TasksStill, TypeInv, TypeOK
  <1> PICK s \in Seq(Units) : s = stream[c]
    BY StreamsType
  <1>2. /\ Elems(stream'[c]) \subseteq Elems(s)
        /\ Len(stream'[c]) \in Nat /\ Len(stream'[c]) <= Len(s)
        /\ stream'[c] # <<>> => s # <<>> /\ stream'[c][1] = s[1]
    <2>2. ASSUME NEW n \in 0..Len(s), stream'[c] = SubSeq(s, 1, n)
          PROVE  /\ Elems(stream'[c]) \subseteq Elems(s)
                 /\ Len(stream'[c]) \in Nat /\ Len(stream'[c]) <= Len(s)
                 /\ stream'[c] # <<>> => s # <<>> /\ stream'[c][1] = s[1]
      <3>1. Elems(stream'[c]) \subseteq Elems(s)
        BY <2>2, ElemsOf
      <3>4. Len(stream'[c]) \in Nat /\ Len(stream'[c]) <= Len(s)
        BY <2>2
      <3>5. stream'[c] # <<>> => s # <<>> /\ stream'[c][1] = s[1]
        BY <2>2
      <3> QED
        BY <3>1, <3>4, <3>5
    <2> QED
      BY <1>1, <2>2
  <1>3. \A m : Foreign(c, m)' <=> Foreign(c, m)
    BY <1>1 DEF Foreign
  <1>4. ASSUME Tidy(c) PROVE Tidy(c)'
    <2>1. Contents(c)' \subseteq Contents(c)
      BY <1>1, <1>2, NoElems DEF Contents
    <2>2. Weight(c)' <= Weight(c) /\ Weight(c) \in Nat /\ Weight(c)' \in Nat
      <3>1. PICK k \in Nat : k = Len(inbox[c])
        BY Fronts
      <3>2. PICK n \in Nat : n = Len(s)
        OBVIOUS
      <3>3. PICK l \in Nat : l = Len(stream'[c]) /\ l <= n
        BY <1>2, <3>2
      <3>4. Len(inbox'[c]) = 0
        BY <1>1
      <3>5. Weight(c) = k + k + n /\ Weight(c)' = 0 + 0 + l
        BY <3>1, <3>2, <3>3, <3>4 DEF Weight
      <3> QED
        BY <3>3, <3>5
    <2>3. \A m \in Contents(c)' : ~Foreign(c, m)'
      BY <1>3, <1>4, <2>1 DEF Tidy
    <2>4. \A u \in Tasks : conn'[u] = c =>
            /\ pc'[u] \in {"header", "draining"} => Weight(c)' <= 2
            /\ pc'[u] = "body" => Weight(c)' <= 1
      BY <1>1, <1>4, <2>2 DEF Tidy
    <2> QED
      BY <2>3, <2>4 DEF Tidy
  <1>5. ASSUME Blocked(c) PROVE Blocked(c)'
    BY <1>1, <1>3, <1>5 DEF Blocked
  <1> QED
    BY <1>1, <1>4, <1>5 DEF Watched, Outstanding

LEMMA ServeStale ==
    ASSUME TypeInv, TypeInv', NEW c \in Conns, ServeStep(c)
    PROVE  /\ Watched(c)
           /\ \A u \in Tasks : conn[u] = c /\ Outstanding(u) => Outstanding(u)'
  <1> PICK q \in Seq(Messages) : q = inbox[c]
    BY DEF TypeInv, TypeOK, Messages
  <1> PICK s \in Seq(Units) : s = stream[c]
    BY StreamsType
  <1>1. q # <<>> /\ alive[c] /\ UNCHANGED <<pc, conn, rid, connected, alive>>
    BY DEF ServeStep, Serve, TasksStill, sockVars
  <1>2. PICK m \in Messages : m = Head(q) /\ m = q[1] /\ m \in Elems(q)
    BY <1>1, ElemsOf
  <1>3. PICK ok \in BOOLEAN :
          /\ inbox'[c] = Tail(q)
          /\ stream'[c] = s \o <<Header(m.rid, ok), Body(m.rid, ok)>>
    <2>1. PICK ok \in BOOLEAN :
            stream' = [stream EXCEPT ![c] =
                          @ \o <<Header(Head(inbox[c]).rid, ok), Body(Head(inbox[c]).rid, ok)>>]
      BY DEF ServeStep, Serve
    <2>2. inbox' = [inbox EXCEPT ![c] = Tail(@)]
      BY DEF ServeStep, Serve
    <2>3. stream'[c] = s \o <<Header(m.rid, ok), Body(m.rid, ok)>>
      BY <1>2, <2>1 DEF TypeInv, TypeOK
    <2>4. inbox'[c] = Tail(q)
      BY <2>2 DEF TypeInv, TypeOK
    <2> QED
      BY <2>3, <2>4
  <1>4. PICK h \in Units, b \in Units :
          /\ h = Header(m.rid, ok) /\ b = Body(m.rid, ok)
          /\ h.rid = m.rid /\ b.rid = m.rid
    <2>1. Header(m.rid, ok) \in Units /\ Body(m.rid, ok) \in Units
      BY DEF Header, Body, Units, Messages
    <2>2. Header(m.rid, ok).rid = m.rid /\ Body(m.rid, ok).rid = m.rid
      BY DEF Header, Body
    <2> QED
      BY <2>1, <2>2
  <1>5. /\ <<h, b>> \in Seq(Units) /\ Len(<<h, b>>) = 2
        /\ stream'[c] = s \o <<h, b>>
    BY <1>3, <1>4
  <1>6. /\ Len(s) \in Nat
        /\ Len(s \o <<h, b>>) = Len(s) + Len(<<h, b>>)
        /\ \A i \in 1..(Len(s) + Len(<<h, b>>)) :
              (s \o <<h, b>>)[i] = IF i <= Len(s) THEN s[i] ELSE <<h, b>>[i - Len(s)]
        /\ s # <<>> => Len(s) # 0
    OBVIOUS
  <1>7. /\ Len(stream'[c]) = Len(s) + 2
        /\ \A i \in 1..Len(s) : stream'[c][i] = s[i]
        /\ stream'[c][Len(s) + 1] = h
    BY <1>5
  <1>8. /\ s # <<>> => stream'[c][1] = s[1]
        /\ s = <<>> => stream'[c][1] = h
        /\ stream'[c] # <<>>
    <2> QED
      BY <1>7
  <1>9. /\ Elems(stream'[c]) \subseteq Elems(s) \cup {h, b}
        /\ Elems(inbox'[c]) \subseteq Elems(q)
    BY <1>1, <1>3, <1>4, ElemsOf
  <1>10. /\ Elems(s) \subseteq Elems(stream'[c])
         /\ h \in Elems(stream'[c])
         /\ Elems(q) \subseteq Elems(inbox'[c]) \cup {m}
    <2>1. h \in Elems(stream'[c]) /\ Elems(s) \subseteq Elems(stream'[c])
      BY <1>6, <1>7, SMTT(30) DEF Elems
    <2>2. Elems(q) \subseteq Elems(inbox'[c]) \cup {m}
      <3>2. ASSUME NEW i \in 1..Len(q), i # 1 PROVE q[i] \in Elems(Tail(q))
        <4>1. i - 1 \in 1..Len(Tail(q)) /\ Tail(q)[i - 1] = q[i]
          BY <3>2
        <4> QED
          BY <4>1 DEF Elems
      <3>3. ASSUME NEW i \in 1..Len(q) PROVE q[i] \in Elems(inbox'[c]) \cup {m}
        BY <1>2, <1>3, <3>2
      <3> QED
        BY <3>3 DEF Elems
    <2> QED
      BY <2>1, <2>2
  <1>11. \A n : Foreign(c, n)' <=> Foreign(c, n)
    BY <1>1 DEF Foreign
  <1>12. ASSUME Tidy(c) PROVE Tidy(c)'
    <2>1. ASSUME NEW n \in Contents(c)' PROVE ~Foreign(c, n)'
      <3>1. PICK o \in Contents(c) : o.rid = n.rid
        BY <1>2, <1>4, <1>9 DEF Contents
      <3> QED
        BY <1>11, <1>12, <3>1 DEF Tidy, Foreign
    <2>2. Weight(c)' = Weight(c)
      <3>1. PICK k \in Nat, n \in Nat : k = Len(q) /\ n = Len(s)
        OBVIOUS
      <3>2. Len(inbox'[c]) = k - 1 /\ Len(stream'[c]) = n + 2
        BY <1>1, <1>3, <3>1
      <3>3. Weight(c) = k + k + n /\ Weight(c)' = (k - 1) + (k - 1) + (n + 2)
        BY <3>1, <3>2 DEF Weight
      <3> QED
        BY <3>3
    <2> QED
      BY <1>1, <1>12, <2>1, <2>2 DEF Tidy
  <1>13. ASSUME Blocked(c) PROVE Blocked(c)'
    <2>1. Foreign(c, stream'[c][1])
      <3>1. CASE s # <<>>
        BY <1>8, <1>13, <3>1 DEF Blocked
      <3>2. CASE s = <<>>
        BY <1>1, <1>2, <1>4, <1>8, <1>13 DEF Blocked, Foreign
      <3> QED
        BY <3>1, <3>2
    <2>2. (Foreign(c, stream[c][1]))'
      BY <1>1, <2>1 DEF Foreign
    <2> QED
      BY <1>1, <1>8, <1>13, <2>2 DEF Blocked
  <1>14. ASSUME NEW u \in Tasks, conn[u] = c, Outstanding(u), pc'[u] \in {"header", "draining"},
                alive'[conn'[u]]
         PROVE  \E n \in Contents(c)' : n.rid = rid'[u]
    <2>1. PICK n \in Contents(c) : n.rid = rid[u]
      BY <1>1, <1>14 DEF Outstanding
    <2>2. CASE n = m
      BY <1>1, <1>4, <1>10, <2>1 DEF Contents
    <2>3. CASE n # m
      BY <1>1, <1>10, <2>1, <2>3 DEF Contents
    <2> QED
      BY <2>2, <2>3
  <1> QED
    BY <1>1, <1>12, <1>13, <1>14 DEF Watched, Outstanding

LEMMA StaleStep ==
    ASSUME TypeInv, TypeInv', Exclusive, WireInv, RidsBelow, StaleInv, WireStep
    PROVE  StaleInv' /\ \A c \in Conns : Watched(c)
  <1>1. \A u \in Tasks : conn[u] \notin Conns => conn[u] = NoConn /\ pc[u] \notin InFlight
    BY DEF TypeInv, TypeOK, HoldOK
  <1>2. ASSUME NEW t \in Tasks, NEW c \in Conns, TaskStepOn(t, c)
        PROVE  StaleInv' /\ \A d \in Conns : Watched(d)
    <2>1. Watched(c) /\ Outstanding(t)'
      BY <1>2, FreshStale, CommandStale, ConnectStale, ProceedStale, HeaderStale, EndStale
         DEF TaskStepOn
    <2>2. \A d \in Conns : d # c => SameView(d)
      BY <1>2, Elsewhere
    <2>3. \A d \in Conns : Watched(d)
      BY <2>1, <2>2, SameViewKeeps DEF Watched
    <2>4. ASSUME NEW u \in Tasks, u # t PROVE Outstanding(u)'
      <3>1. /\ OthersStill(t)
            /\ conn[u] = c => conn[t] = c \/ conn[u] # c
        BY <1>2 DEF TaskStepOn, FreshStep, CommandStep, ConnectStep, ProceedStep, HeaderStep,
           EndStep, Written
      <3>2. CASE conn[u] \in Conns
        <4>1. conn[u] # c
          BY <2>4, <3>1, ConnsAssumption DEF Exclusive, Holding
        <4> QED
          BY <2>2, <3>2, <4>1, SameViewKeeps DEF StaleInv
      <3>3. CASE conn[u] \notin Conns
        BY <1>1, <2>4, <3>1, <3>3 DEF OthersStill, Outstanding, InFlight
      <3> QED
        BY <3>2, <3>3
    <2> QED
      BY <2>1, <2>3, <2>4 DEF StaleInv, Watched
  <1>3. ASSUME \A d \in Conns : SameView(d),
               \A u \in Tasks : conn[u] \notin Conns => pc'[u] \notin {"header", "draining"}
        PROVE  StaleInv' /\ \A d \in Conns : Watched(d)
    <2>1. \A d \in Conns : Watched(d)
      BY <1>3, SameViewKeeps DEF Watched
    <2>2. \A u \in Tasks : Outstanding(u)'
      BY <1>3, SameViewKeeps DEF StaleInv, Outstanding
    <2> QED
      BY <2>1, <2>2 DEF StaleInv, Watched
  <1>4. CASE IdleStep
    <2>1. \A d \in Conns : SameView(d)
      BY <1>4 DEF IdleStep, TasksStill, SameView
    <2> QED
      BY <1>1, <1>3, <1>4, <2>1 DEF IdleStep, TasksStill, InFlight
  <1>5. ASSUME NEW t \in Tasks, WaitStep(t)
        PROVE  StaleInv' /\ \A d \in Conns : Watched(d)
    <2>2. \A d \in Conns : SameView(d)
      BY <1>5, ConnsAssumption DEF WaitStep, OthersStill, SameView, TypeInv, HoldOK, InFlight
    <2>3. \A u \in Tasks : conn[u] \notin Conns => pc'[u] \notin {"header", "draining"}
      BY <1>1, <1>5 DEF WaitStep, OthersStill, InFlight
    <2> QED
      BY <1>3, <2>2, <2>3
  <1>6. ASSUME NEW c \in Conns, DownStep(c) \/ ServeStep(c)
        PROVE  StaleInv' /\ \A d \in Conns : Watched(d)
    <2>1. /\ Watched(c)
          /\ \A u \in Tasks : conn[u] = c /\ Outstanding(u) => Outstanding(u)'
      BY <1>6, DownStale, ServeStale
    <2>2. \A d \in Conns : d # c => SameView(d)
      BY <1>6 DEF DownStep, ServeStep, Serve, TasksStill, SameView, sockVars, TypeInv, TypeOK
    <2>3. \A d \in Conns : Watched(d)
      BY <2>1, <2>2, SameViewKeeps DEF Watched
    <2>4. UNCHANGED <<pc, conn>>
      BY <1>6 DEF DownStep, ServeStep, TasksStill
    <2>5. \A u \in Tasks : Outstanding(u)'
      BY <1>1, <2>1, <2>2, <2>4, SameViewKeeps DEF StaleInv, Outstanding, InFlight
    <2> QED
      BY <2>3, <2>5 DEF StaleInv, Watched
  <1> QED
    BY <1>2, <1>4, <1>5, <1>6 DEF WireStep, TaskStepOn

LEMMA StaleInit == Init => StaleInv
  <1> SUFFICES ASSUME Init PROVE StaleInv
    OBVIOUS
  <1>1. \A c \in Conns : Contents(c) = {}
    BY NoElems DEF Init, Contents
  <1>2. \A t \in Tasks : conn[t] = NoConn /\ pc[t] = "idle"
    BY DEF Init
  <1> QED
    BY <1>1, <1>2 DEF StaleInv, Tidy, Outstanding

LEMMA StaleIsBlocked ==
    ASSUME StaleInv, NEW c \in Conns, Stale(c)
    PROVE  Blocked(c)
  <1>1. PICK m \in Contents(c) : m.rid \notin HolderRid(c)
    BY DEF Stale, Contents, Elems
  <1>2. Foreign(c, m)
    BY <1>1 DEF Foreign, HolderRid
  <1> QED
    BY <1>2 DEF StaleInv, Tidy

StaleContext == TypeInv /\ Exclusive /\ WireInv /\ AuthInv /\ StaleInv

LEMMA StaleContextCorrect == Spec => []StaleContext
  <1>1. Init => StaleContext
    BY InitTypeInv, InitExclusive, WireInvInit, AuthInvInit, StaleInit DEF StaleContext
  <1>2. TypeInv /\ Exclusive /\ TypeInv' /\ WireInv /\ AuthInv /\ StaleInv /\ [Next]_vars
        => WireInv' /\ AuthInv' /\ StaleInv'
    BY NextWire, WireInvStep, AuthInvStep, StaleStep DEF AuthInv
  <1> QED
    BY <1>1, <1>2, TypeCorrect, ExclusiveCorrect, PTL DEF Spec, StaleContext

\* After a reply nobody took, a transport stays in service and answers nobody:
\* every later request on it raises (transport.py:125-130).
THEOREM StaleNeverAnswersCorrect == Spec => StaleNeverAnswers
  <1>1. ASSUME NEW c \in Conns
        PROVE  Spec => [](Stale(c) => [](\A t \in Tasks : conn[t] = c => pc[t] # "body"))
    <2>1. StaleContext /\ StaleContext' /\ [Next]_vars /\ Blocked(c) => Blocked(c)'
      BY NextWire, StaleStep DEF StaleContext, AuthInv, Watched
    <2>2. StaleContext /\ Stale(c) => Blocked(c)
      BY StaleIsBlocked DEF StaleContext
    <2>3. Blocked(c) => \A t \in Tasks : conn[t] = c => pc[t] # "body"
      BY DEF Blocked
    <2> QED
      BY StaleContextCorrect, <2>1, <2>2, <2>3, PTL DEF Spec
  <1> QED
    BY <1>1 DEF StaleNeverAnswers

-----------------------------------------------------------------------------
(* Dead sockets                                                            *)

\* Only connect() brings a socket up, and only it makes a transport connected.
LEMMA SocketsStay ==
    ASSUME TypeInv, WireStep, NEW c \in Conns, \A t \in Tasks : ~ConnectStep(t, c)
    PROVE  connected'[c] = connected[c] /\ (alive'[c] => alive[c])
  <1>1. ASSUME NEW t \in Tasks, NEW d \in Conns, ConnectStep(t, d)
        PROVE  connected'[c] = connected[c] /\ alive'[c] = alive[c]
    BY <1>1 DEF ConnectStep, TypeInv, TypeOK
  <1>2. ASSUME NEW d \in Conns, DownStep(d) \/ ServeStep(d)
        PROVE  connected' = connected /\ (alive'[c] => alive[c])
    BY <1>2 DEF DownStep, ServeStep, Serve, sockVars, TypeInv, TypeOK
  <1>3. ASSUME NEW t \in Tasks, NEW d \in Conns,
               \/ FreshStep(t, d) \/ CommandStep(t, d) \/ ProceedStep(t, d)
               \/ HeaderStep(t, d) \/ EndStep(t, d)
        PROVE  UNCHANGED <<connected, alive>>
    BY <1>3 DEF FreshStep, CommandStep, ProceedStep, HeaderStep, EndStep
  <1>4. ASSUME IdleStep \/ \E t \in Tasks : WaitStep(t) PROVE UNCHANGED <<connected, alive>>
    BY <1>4 DEF IdleStep, WaitStep
  <1> QED
    BY <1>1, <1>2, <1>3, <1>4 DEF WireStep

\* connect() is not called on a transport twice.
LEMMA ConnectsOnce ==
    ASSUME WireInv, NEW c \in Conns, connected[c]
    PROVE  \A t \in Tasks : ~ConnectStep(t, c)
  BY DEF ConnectStep, WireInv, ConnectedOK

\* A transport that lies in the queue with a dead socket answers nobody: there
\* is nothing on it, or what there is was for somebody else.
LEMMA DeadIsBlocked ==
    ASSUME TypeInv, Exclusive, StaleInv, NEW c \in Conns, connected[c], ~alive[c], Pooled(c)
    PROVE  Blocked(c)
  <1>1. \A u \in Tasks : conn[u] # c
    BY ConnsAssumption DEF Exclusive, Holding
  <1>2. Tidy(c) => inbox[c] = <<>> /\ stream[c] = <<>>
    BY <1>1, TidyAlone
  <1> QED
    BY <1>1, <1>2 DEF StaleInv, Blocked

\* A dead transport is lent again and again and answers nobody (transport.py:46
\* and 109-130, client.py:235).
THEOREM DeadNeverAnswersCorrect == Spec => DeadNeverAnswers
  <1>1. ASSUME NEW c \in Conns
        PROVE  Spec => [](connected[c] /\ ~alive[c] /\ Pooled(c) =>
                            [](~alive[c] /\ \A t \in Tasks : conn[t] = c => pc[t] # "body"))
    <2> DEFINE D == Blocked(c) /\ ~alive[c]
    <2>1. StaleContext /\ StaleContext' /\ [Next]_vars /\ D => D'
      BY NextWire, StaleStep, SocketsStay, ConnectsOnce DEF StaleContext, AuthInv, Watched, Blocked
    <2>2. StaleContext /\ connected[c] /\ ~alive[c] /\ Pooled(c) => D
      BY DeadIsBlocked DEF StaleContext
    <2>3. D => ~alive[c] /\ \A t \in Tasks : conn[t] = c => pc[t] # "body"
      BY DEF Blocked
    <2> HIDE DEF D
    <2> QED
      BY StaleContextCorrect, <2>1, <2>2, <2>3, PTL DEF Spec
  <1> QED
    BY <1>1 DEF DeadNeverAnswers

-----------------------------------------------------------------------------
(* After close()                                                           *)

\* What the queue holds when close() has come back was put there by requests.
OnlyUsed == closer = "closed" => \A c \in Conns : Pooled(c) => connected[c]

\* Nobody puts back a transport that is not connected.
LEMMA PutBackConnected ==
    ASSUME TypeInv, WireInv, WireStep, \A c \in Conns : Pooled(c) => connected[c]
    PROVE  \A c \in Conns : Pooled(c)' => connected'[c]
  <1> SUFFICES ASSUME NEW c \in Conns, Pooled(c)' PROVE connected'[c]
    OBVIOUS
  <1>1. connected[c] => connected'[c]
    BY SocketsStay, ConnectsOnce
  <1>2. CASE Pooled(c)
    BY <1>1, <1>2
  <1>3. ASSUME ~Pooled(c) PROVE \E t \in Tasks : EndStep(t, c) /\ phase[t] = "command"
    BY <1>3 DEF WireStep, WaitStep, FreshStep, CommandStep, ConnectStep, ProceedStep,
       HeaderStep, EndStep, DownStep, ServeStep, IdleStep, TasksStill, Written, Pooled, WireInv,
       ConnectedOK
  <1>4. ASSUME NEW t \in Tasks, EndStep(t, c), phase[t] = "command" PROVE connected[c]
    BY <1>4 DEF EndStep, InFlight, InTouch, WireInv, ConnectedOK
  <1> QED
    BY <1>1, <1>2, <1>3, <1>4

LEMMA OnlyUsedStep ==
    ASSUME TypeInv, Exclusive, WireInv, OnlyUsed, [Next]_vars
    PROVE  OnlyUsed'
  <1>1. CASE closer = "closed"
    BY <1>1, NextWire, PutBackConnected DEF OnlyUsed
  <1>2. CASE closer # "closed" /\ closer' = "closed"
    <2>1. pool' = <<>>
      BY <1>2, CloserStep, SweepEmpties
    <2> QED
      BY <2>1 DEF OnlyUsed, Pooled
  <1> QED
    BY <1>1, <1>2 DEF OnlyUsed

\* A call that opens a connection took a transport nobody had connected.
LEMMA OpensFresh ==
    ASSUME TypeInv, WireStep, NEW t \in Tasks, pc'[t] = "connecting", pc[t] # "connecting"
    PROVE  \E c \in Conns : Pooled(c) /\ ~connected[c]
  <1>1. \E c \in Conns : FreshStep(t, c)
    BY DEF WireStep, WaitStep, FreshStep, CommandStep, ConnectStep, ProceedStep, HeaderStep,
       EndStep, DownStep, ServeStep, IdleStep, TasksStill, Written, OthersStill, InFlight, InTouch
  <1> QED
    BY <1>1 DEF FreshStep

\* After close() has come back the calls share what was in use at that time, and
\* none opens a connection (client.py:88-89 and 234-251).
THEOREM ClosedForGoodCorrect == Spec => ClosedForGood
  <1> DEFINE Opens == closer = "closed" =>
                \A t \in Tasks : pc'[t] = "connecting" => pc[t] = "connecting"
  <1>1. Init => OnlyUsed
    BY DEF Init, OnlyUsed
  <1>2. StaleContext /\ OnlyUsed /\ [Next]_vars => OnlyUsed'
    BY OnlyUsedStep DEF StaleContext
  <1>3. StaleContext /\ OnlyUsed /\ [Next]_vars => [Opens]_vars
    BY NextWire, OpensFresh DEF StaleContext, OnlyUsed
  <1> HIDE DEF Opens
  <1>4. Spec => [][Opens]_vars
    BY <1>1, <1>2, <1>3, StaleContextCorrect, PTL DEF Spec
  <1> QED
    BY <1>4 DEF ClosedForGood, Opens
=============================================================================
