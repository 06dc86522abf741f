---------------------------- MODULE CursorProofs ----------------------------
(***************************************************************************)
(* What a Cursor yields and what it leaves open at the server, for results *)
(* of any size and any limit and batch size, whatever commands fail.       *)
(***************************************************************************)
EXTENDS Cursor, SequenceTheorems, TLAPS

-----------------------------------------------------------------------------
(* The shape of every state                                                *)

Settings == total \in Nat /\ limit \in Nat /\ batch \in Nat

\* What the program awaits, and the command or the answer that belongs to it.
Awaited ==
    \/ pc \in {"idle", "closed"} /\ msg.op = "none"
    \/ /\ pc = "find" /\ id = NoId /\ docs = <<>>
       /\ msg.op \in {"find", "reply", "error"}
    \/ /\ pc = "more" /\ id > 0 /\ second /\ docs = <<>>
       /\ (msg.op = "getMore" /\ msg.id = id) \/ msg.op \in {"reply", "error"}
    \/ /\ pc \in {"ending", "closing"} /\ id > 0 /\ killed /\ (pc = "ending" => second)
       /\ (msg.op = "killCursors" /\ msg.id = id) \/ msg.op \in {"reply", "error"}

Shape ==
    /\ Settings
    /\ id \in {NoId} \cup Nat /\ nextId \in Nat \ {0}
    /\ docs \in Seq(Nat) /\ got \in Seq(Nat)
    /\ DOMAIN open \subseteq Nat \ {0}
    /\ \A c \in DOMAIN open : open[c] \in Seq(Nat)
    /\ msg.op = "reply" => msg.id \in Nat /\ msg.docs \in Seq(Nat)
    /\ Awaited

LEMMA SizeNat ==
    ASSUME Settings
    PROVE  Size \in Nat
  BY DEF Settings, Size, Least

\* The reply to a find or a getMore is the front of what is left, and the rest
\* stays with the cursor.
Served(c, left, k) ==
    /\ msg'.op = "reply" /\ msg'.docs \in Seq(Nat)
    /\ Len(msg'.docs) = k /\ \A i \in 1..k : msg'.docs[i] = left[i]
    /\ \A d \in DOMAIN open' \ {c} : d \in DOMAIN open /\ open'[d] = open[d]
    /\ \/ /\ msg'.id = c /\ c \in DOMAIN open'
          /\ open'[c] \in Seq(Nat) /\ Len(open'[c]) = Len(left) - k
          /\ \A i \in 1..Len(left) - k : open'[c][i] = left[k + i]
       \/ msg'.id = 0 /\ k = Len(left) /\ c \notin DOMAIN open'

LEMMA ReturnServed ==
    ASSUME NEW c \in Nat, NEW left \in Seq(Nat), NEW n \in Nat, Return(c, left, n)
    PROVE  \E k \in 0..Len(left) : Served(c, left, k) /\ (msg'.id # 0 => k = n)
  <1> DEFINE k == Least(n, Len(left))
  <1>1. k \in 0..Len(left)
    BY DEF Least
  <1>2. /\ SubSeq(left, 1, k) \in Seq(Nat) /\ Len(SubSeq(left, 1, k)) = k
        /\ \A i \in 1..k : SubSeq(left, 1, k)[i] = left[i]
    BY <1>1
  <1>3. /\ SubSeq(left, k + 1, Len(left)) \in Seq(Nat)
        /\ Len(SubSeq(left, k + 1, Len(left))) = Len(left) - k
        /\ \A i \in 1..Len(left) - k : SubSeq(left, k + 1, Len(left))[i] = left[k + i]
    <2>1. k \in Nat /\ Len(left) \in Nat /\ k <= Len(left)
      BY <1>1
    <2>2. \A i \in k + 1..Len(left) : left[i] \in Nat
      BY <2>1
    <2> DEFINE r == SubSeq(left, k + 1, Len(left))
    <2>3. /\ r \in Seq(Nat) /\ Len(r) = IF k + 1 <= Len(left) THEN Len(left) - (k + 1) + 1 ELSE 0
          /\ \A i \in 1..Len(left) - (k + 1) + 1 : r[i] = left[k + 1 + i - 1]
      <3> HIDE DEF k
      <3> QED
        BY <2>1
    <2> HIDE DEF k, r
    <2>4. Len(r) = Len(left) - k /\ \A i \in 1..Len(left) - k : r[i] = left[k + i]
      BY <2>1, <2>3
    <2> QED
      BY <2>3, <2>4 DEF r
  <1> HIDE DEF k
  <1>5. CASE /\ k = n
             /\ open' = [d \in DOMAIN open \cup {c} |->
                            IF d = c THEN SubSeq(left, k + 1, Len(left)) ELSE open[d]]
             /\ msg' = Reply(c, SubSeq(left, 1, k))
    <2>1. /\ msg'.op = "reply" /\ msg'.id = c /\ msg'.docs = SubSeq(left, 1, k)
          /\ DOMAIN open' = DOMAIN open \cup {c} /\ open'[c] = SubSeq(left, k + 1, Len(left))
          /\ \A d \in DOMAIN open' \ {c} : d \in DOMAIN open /\ open'[d] = open[d]
      BY <1>5 DEF Reply
    <2>2. Served(c, left, k)
      BY <1>2, <1>3, <2>1 DEF Served
    <2> QED
      BY <1>1, <1>5, <2>2
  <1>6. CASE k = Len(left) /\ open' = Unopened(c) /\ msg' = Reply(0, left)
    <2>1. Served(c, left, k) /\ msg'.id = 0
      BY <1>6 DEF Served, Reply, Unopened
    <2> QED
      BY <1>1, <2>1
  <1> QED
    BY <1>5, <1>6 DEF Return, k

LEMMA PopShape ==
    ASSUME got \in Seq(Nat), NEW ds \in Seq(Nat), Pop(ds)
    PROVE  /\ got' \in Seq(Nat) /\ docs' \in Seq(Nat)
           /\ got' \o docs' = got \o ds
           /\ IF ds = <<>> THEN ended' = TRUE /\ docs' = <<>> /\ got' = got ELSE ended' = FALSE
  <1>1. CASE ds # <<>>
    <2>1. Head(ds) \in Nat /\ Tail(ds) \in Seq(Nat) /\ Append(got, Head(ds)) \in Seq(Nat)
      BY <1>1
    <2>2. Append(got, Head(ds)) \o Tail(ds) = got \o ds
      BY <1>1
    <2>3. got' = Append(got, Head(ds)) /\ docs' = Tail(ds) /\ ended' = FALSE
      BY <1>1 DEF Pop
    <2> QED
      BY <1>1, <2>1, <2>3
  <1>2. CASE ds = <<>>
    <2>1. got' = got /\ docs' = <<>> /\ ended' = TRUE
      BY <1>2 DEF Pop
    <2>2. got \o <<>> = got
      OBVIOUS
    <2> QED
      BY <1>2, <2>1
  <1> QED
    BY <1>1, <1>2

LEMMA ShapeInit == Init => Shape
  BY SettingsAssumption DEF Init, Shape, Settings, Awaited, NoMsg

LEMMA CloseShape ==
    ASSUME Shape, pc = "idle", NEW from \in {"ending", "closing"}, CloseCursor(from),
           from = "ending" => id = 0 \/ second,
           UNCHANGED <<settings, id, second, got, open, nextId>>
    PROVE  Shape'
  <1> USE DEF Shape, Settings, settings
  <1>1. CASE ~killed /\ id > 0 /\ limit # 0
    <2>1. /\ pc' = from /\ msg' = Command("killCursors", id) /\ docs' = docs /\ killed' = TRUE
      BY <1>1 DEF CloseCursor, Await, NoId
    <2>2. msg'.op = "killCursors" /\ msg'.id = id
      BY <2>1 DEF Command
    <2>3. Awaited'
      BY <1>1, <2>1, <2>2 DEF Awaited
    <2> QED
      BY <2>1, <2>2, <2>3
  <1>2. CASE ~(~killed /\ id > 0 /\ limit # 0)
    <2>1. /\ pc' \in {"idle", "closed"} /\ msg' = NoMsg
          /\ docs' = IF killed THEN docs ELSE <<>>
      BY <1>2 DEF CloseCursor, Shut, Await
    <2>2. docs' \in Seq(Nat) /\ msg'.op = "none"
      BY <2>1 DEF NoMsg
    <2>3. Awaited'
      BY <2>1, <2>2 DEF Awaited
    <2> QED
      BY <2>2, <2>3
  <1> QED
    BY <1>1, <1>2

LEMMA ShapeStep ==
    ASSUME Shape, [Next]_vars
    PROVE  Shape'
  <1> USE DEF Shape, Settings, settings, Awaited, Await, NoMsg, Command, NoId
  <1>1. CASE TakeBuffered
    BY <1>1, PopShape DEF TakeBuffered, srvVars
  <1>2. CASE Find
    BY <1>2 DEF Find, objVars, srvVars
  <1>3. CASE FindReturns
    BY <1>3, PopShape DEF FindReturns, srvVars
  <1>4. CASE GetMore
    BY <1>4 DEF GetMore, srvVars
  <1>5. CASE MoreReturns
    BY <1>5, PopShape DEF MoreReturns, srvVars
  <1>6. CASE BatchRejected
    BY <1>6 DEF BatchRejected, Raised, srvVars
  <1>7. CASE Finish
    BY <1>7, CloseShape DEF Finish, srvVars
  <1>8. CASE Close
    BY <1>8, CloseShape DEF Close, srvVars
  <1>9. CASE KillReturns
    BY <1>9 DEF KillReturns, Shut, srvVars
  <1>10. CASE CommandRaises \/ GiveUp
    BY <1>10 DEF CommandRaises, GiveUp, Raised, objVars, srvVars
  <1>11. CASE ServeFind
    <2>1. Size \in Nat /\ Least(batch, Room) \in Nat /\ nextId \in Nat
      BY SizeNat, SettingsAssumption DEF Least
    <2>2. [i \in 1..Size |-> i] \in Seq(Nat)
      BY <2>1
    <2>3. \E k \in 0..Len([i \in 1..Size |-> i]) : Served(nextId, [i \in 1..Size |-> i], k)
      <3> HIDE DEF Shape
      <3> QED
        BY <1>11, <2>1, ReturnServed DEF ServeFind
    <2> QED
      BY <1>11, <2>3 DEF ServeFind, Served, objVars
  <1>12. CASE ServeGetMore
    <2>1. CASE msg.id \in DOMAIN open /\ Return(msg.id, open[msg.id], Room)
      <3>1. PICK k \in 0..Len(open[msg.id]) : Served(msg.id, open[msg.id], k)
        BY <2>1, ReturnServed, SettingsAssumption
      <3>2. /\ pc = "more" /\ UNCHANGED <<settings, objVars, pc, got, nextId>>
            /\ msg.id \in Nat \ {0}
        BY <1>12 DEF ServeGetMore
      <3>3. /\ DOMAIN open' \subseteq Nat \ {0} /\ \A c \in DOMAIN open' : open'[c] \in Seq(Nat)
            /\ msg'.op = "reply" /\ msg'.id \in Nat /\ msg'.docs \in Seq(Nat)
        <4>1. /\ DOMAIN open \subseteq Nat \ {0} /\ \A c \in DOMAIN open : open[c] \in Seq(Nat)
          OBVIOUS
        <4>2. /\ msg'.op = "reply" /\ msg'.docs \in Seq(Nat) /\ msg'.id \in {0, msg.id}
              /\ \A c \in DOMAIN open' \ {msg.id} : c \in DOMAIN open /\ open'[c] = open[c]
              /\ msg.id \in DOMAIN open' => open'[msg.id] \in Seq(Nat)
          BY <3>1 DEF Served
        <4> HIDE DEF Shape, Awaited
        <4>3. \A c \in DOMAIN open' : c \in Nat \ {0} /\ open'[c] \in Seq(Nat)
          BY <3>2, <4>1, <4>2
        <4> QED
          BY <3>2, <4>2, <4>3
      <3> QED
        BY <3>2, <3>3 DEF objVars
    <2>2. CASE msg' = [op |-> "error"] /\ UNCHANGED open
      BY <1>12, <2>2 DEF ServeGetMore, objVars
    <2> QED
      BY <1>12, <2>1, <2>2 DEF ServeGetMore
  <1>13. CASE ServeKill
    BY <1>13 DEF ServeKill, Unopened, Reply, objVars
  <1>14. CASE Refuse
    BY <1>14 DEF Refuse, objVars, srvVars
  <1>15. CASE Expire
    BY <1>15 DEF Expire, Unopened, objVars
  <1>16. CASE UNCHANGED vars
    BY <1>16 DEF vars
  <1> QED
    BY <1>1, <1>2, <1>3, <1>4, <1>5, <1>6, <1>7, <1>8, <1>9, <1>10, <1>11, <1>12, <1>13, <1>14,
       <1>15, <1>16 DEF Next

-----------------------------------------------------------------------------
(* What stays open                                                         *)

AtMost(c) == \A d \in DOMAIN open : d = c
NoneOpen == \A d \in DOMAIN open : FALSE
Answered == msg.op = "reply"

\* As long as nothing failed, the one cursor that may be open is the one the
\* object knows, or is about to know; and it is gone once the object is killed
\* or has nothing more to give.
HoldInv ==
    limit # 0 /\ ~failed =>
        /\ IF pc = "find" /\ Answered THEN AtMost(msg.id)
           ELSE IF id = NoId THEN NoneOpen ELSE AtMost(id)
        /\ pc \in {"find", "more"} /\ Answered /\ msg.docs = <<>> /\ batch > 0 => NoneOpen
        /\ pc \in {"ending", "closing"} /\ Answered => NoneOpen
        /\ killed /\ pc \notin {"ending", "closing"} => NoneOpen
        /\ killed => pc \notin {"find", "more"}
                     /\ (pc \in {"idle", "ending"} => id = 0 \/ (second /\ id # NoId))
        /\ pc = "closed" => NoneOpen
        /\ ended /\ pc = "idle" /\ batch > 0 => NoneOpen

\* close() keeps the invariant, whoever calls it.
LEMMA CloseHold ==
    ASSUME Shape, HoldInv, pc = "idle", NEW from \in {"ending", "closing"}, CloseCursor(from),
           from = "ending" => id = 0 \/ (second /\ id # NoId),
           UNCHANGED <<settings, id, second, failed, open>>
    PROVE  HoldInv'
  <1> USE DEF Shape, settings, NoId
  <1> SUFFICES ASSUME limit # 0, ~failed PROVE HoldInv'
    BY DEF HoldInv
  <1>1. CASE ~killed /\ id > 0
    <2>1. pc' = from /\ msg'.op = "killCursors" /\ killed' = TRUE /\ ended' = ended
      BY <1>1 DEF CloseCursor, Await, Command
    <2> QED
      BY <1>1, <2>1 DEF HoldInv, AtMost, Answered
  <1>2. CASE killed \/ id <= 0
    <2>1. /\ pc' = IF from = "closing" THEN "closed" ELSE "idle"
          /\ msg'.op = "none" /\ killed' = TRUE
      BY <1>2 DEF CloseCursor, Shut, Await, NoMsg
    <2>2. NoneOpen
      BY <1>2 DEF HoldInv, AtMost, NoneOpen
    <2> QED
      BY <2>1, <2>2 DEF HoldInv, AtMost, NoneOpen
  <1> QED
    BY <1>1, <1>2

LEMMA HoldStep ==
    ASSUME Shape, HoldInv, [Next]_vars
    PROVE  HoldInv'
  <1> USE DEF Shape, settings, Awaited, NoId
  <1> SUFFICES ASSUME limit' # 0, ~failed' PROVE HoldInv'
    BY DEF HoldInv
  <1>1. CASE TakeBuffered
    BY <1>1, PopShape DEF TakeBuffered, srvVars, HoldInv, AtMost, NoneOpen
  <1>2. CASE Find
    BY <1>2 DEF Find, objVars, srvVars, HoldInv, AtMost, NoneOpen
  <1>3. CASE FindReturns
    <2>1. /\ pc = "find" /\ Answered /\ id' = msg.id /\ pc' = "idle" /\ msg'.op = "none"
          /\ UNCHANGED <<limit, batch, second, killed, failed, open>>
      BY <1>3 DEF FindReturns, Await, NoMsg, srvVars, Answered
    <2>2. ended' => msg.docs = <<>>
      BY <1>3, PopShape DEF FindReturns
    <2> QED
      BY <2>1, <2>2 DEF HoldInv, AtMost, NoneOpen
  <1>4. CASE GetMore
    BY <1>4 DEF GetMore, Await, Command, srvVars, HoldInv, AtMost, Answered
  <1>5. CASE MoreReturns
    <2>1. /\ pc = "more" /\ Answered /\ pc' = "idle" /\ msg'.op = "none"
          /\ UNCHANGED <<limit, batch, id, second, killed, failed, open>>
      BY <1>5 DEF MoreReturns, Await, NoMsg, srvVars, Answered
    <2>2. ended' => msg.docs = <<>>
      BY <1>5, PopShape DEF MoreReturns
    <2> QED
      BY <2>1, <2>2 DEF HoldInv, AtMost, NoneOpen
  <1>6. CASE BatchRejected \/ CommandRaises \/ GiveUp
    BY <1>6 DEF BatchRejected, CommandRaises, GiveUp, Raised
  <1>7. CASE Finish
    BY <1>7, CloseHold DEF Finish, srvVars
  <1>8. CASE Close
    BY <1>8, CloseHold DEF Close, srvVars
  <1>9. CASE KillReturns
    <2>1. /\ pc \in {"ending", "closing"} /\ Answered /\ msg'.op = "none"
          /\ pc' = IF pc = "closing" THEN "closed" ELSE "idle"
          /\ UNCHANGED <<limit, batch, id, second, killed, failed, open>>
      BY <1>9 DEF KillReturns, Shut, Await, NoMsg, srvVars, Answered
    <2> QED
      BY <2>1 DEF HoldInv, AtMost, NoneOpen
  <1>10. CASE ServeFind
    <2>1. Size \in Nat /\ Least(batch, Room) \in Nat /\ (batch > 0 => Least(batch, Room) > 0)
      BY SizeNat, SettingsAssumption DEF Settings, Least
    <2>2. [i \in 1..Size |-> i] \in Seq(Nat)
      BY <2>1
    <2>3. PICK k \in 0..Len([i \in 1..Size |-> i]) :
              /\ Served(nextId, [i \in 1..Size |-> i], k)
              /\ msg'.id # 0 => k = Least(batch, Room)
      <3> HIDE DEF Shape
      <3>1. nextId \in Nat
        BY DEF Shape
      <3> QED
        BY <1>10, <2>1, <3>1, ReturnServed DEF ServeFind
    <2>4. /\ pc = "find" /\ ~Answered /\ id = NoId
          /\ UNCHANGED <<limit, batch, id, second, killed, failed, ended, pc>>
      BY <1>10 DEF ServeFind, objVars, Answered
    <2>5. NoneOpen /\ ~killed
      BY <2>4 DEF HoldInv
    <2>6. Answered' /\ AtMost(msg.id)' /\ (msg'.id = 0 => NoneOpen')
      BY <2>3, <2>5 DEF Served, Answered, AtMost, NoneOpen
    <2>7. msg'.docs = <<>> /\ batch > 0 => NoneOpen'
      <3>1. msg'.docs = <<>> => k = 0
        BY <2>3 DEF Served
      <3> QED
        BY <2>1, <2>3, <2>6, <3>1
    <2> QED
      BY <2>4, <2>6, <2>7 DEF HoldInv
  <1>11. CASE ServeGetMore
    <2>1. CASE msg' = [op |-> "error"] /\ UNCHANGED open
      BY <1>11, <2>1 DEF ServeGetMore, objVars, HoldInv, AtMost, Answered
    <2>2. CASE msg.id \in DOMAIN open /\ Return(msg.id, open[msg.id], Room)
      <3>1. PICK k \in 0..Len(open[msg.id]) :
                Served(msg.id, open[msg.id], k) /\ (msg'.id # 0 => k = Room)
        BY <2>2, ReturnServed, SettingsAssumption
      <3>2. /\ pc = "more" /\ ~Answered /\ msg.id = id /\ id > 0
            /\ UNCHANGED <<limit, batch, id, second, killed, failed, ended, pc>>
        BY <1>11 DEF ServeGetMore, objVars, Answered
      <3>3. AtMost(id) /\ ~killed
        BY <3>2 DEF HoldInv
      <3>4. Answered' /\ AtMost(id)' /\ (msg'.id = 0 => NoneOpen')
        BY <3>1, <3>2, <3>3 DEF Served, Answered, AtMost, NoneOpen
      <3>5. msg'.docs = <<>> => NoneOpen'
        <4>1. msg'.docs = <<>> => k = 0
          BY <3>1 DEF Served
        <4> QED
          BY <3>1, <3>4, <4>1, SettingsAssumption
      <3> QED
        BY <3>2, <3>4, <3>5 DEF HoldInv
    <2> QED
      BY <1>11, <2>1, <2>2 DEF ServeGetMore
  <1>12. CASE ServeKill
    BY <1>12 DEF ServeKill, Unopened, objVars, HoldInv, AtMost, NoneOpen
  <1>13. CASE Refuse
    BY <1>13 DEF Refuse, objVars, srvVars, HoldInv, AtMost, NoneOpen, Answered
  <1>14. CASE Expire
    BY <1>14 DEF Expire, Unopened, objVars, HoldInv, AtMost, NoneOpen
  <1>15. CASE UNCHANGED vars
    BY <1>15 DEF vars, HoldInv, AtMost, NoneOpen, Answered
  <1> QED
    BY <1>1, <1>2, <1>3, <1>4, <1>5, <1>6, <1>7, <1>8, <1>9, <1>10, <1>11, <1>12, <1>13, <1>14,
       <1>15 DEF Next

\* With a limit, a cursor iterated to its end or closed (cursor.py:212) is not
\* left open at the server, for results, limits and batch sizes of any size,
\* unless the program was told that something failed.
THEOREM ReleasedCorrect == Spec => []Released
  <1>1. Init => Shape /\ HoldInv
    BY ShapeInit DEF Init, HoldInv, NoneOpen
  <1>2. Shape /\ HoldInv /\ [Next]_vars => (Shape /\ HoldInv)'
    BY ShapeStep, HoldStep
  <1>3. HoldInv => Released
    BY DEF HoldInv, Released, NoneOpen
  <1> QED
    BY <1>1, <1>2, <1>3, PTL DEF Spec

-----------------------------------------------------------------------------
(* What the program gets                                                   *)

\* InOrder, of any sequence.
Ordered(s) ==
    LET before(i) == IF i = 1 THEN 0 ELSE s[i - 1] IN
    /\ \A i \in 1..Len(s) : before(i) < s[i] /\ s[i] <= Size /\ s[i] # bad
    /\ \A i \in 1..Len(s) : s[i] # before(i) + 1 => failed /\ bad \in before(i)..s[i]

\* The first m documents of the result; what a cursor has left of it, and how
\* many come before that.
First(s, m) == Len(s) = m /\ \A i \in 1..m : s[i] = i
Before(s) == Size - Len(s)
Rest(s) == Len(s) <= Size /\ \A i \in 1..Len(s) : s[i] = Before(s) + i

FindOK ==
    pc = "find" /\ Answered =>
        /\ First(msg.docs, Len(msg.docs)) /\ Len(msg.docs) <= Size
        /\ msg.id \in DOMAIN open => Before(open[msg.id]) = Len(msg.docs)

\* The cursor of the only getMore there will be goes on where the find ended.
NextOK ==
    id \in DOMAIN open /\ ((pc = "idle" /\ ~second) \/ msg.op = "getMore") =>
        \/ First(got \o docs, Before(open[id]))
        \/ failed /\ got = <<>> /\ docs = <<>> /\ bad \in 1..Before(open[id])

MoreOK == pc = "more" /\ Answered /\ Parses => Ordered(got \o msg.docs)

OrderInv ==
    /\ Ordered(got \o docs)
    /\ id = NoId => got = <<>> /\ docs = <<>>
    /\ \A c \in DOMAIN open : Rest(open[c])
    /\ bad \in Nat
    /\ FindOK /\ NextOK /\ MoreOK

LEMMA OrderedPrefix ==
    ASSUME NEW s \in Seq(Nat), NEW t \in Seq(Nat), Ordered(s \o t)
    PROVE  Ordered(s)
  <1>1. /\ Len(s) \in Nat /\ Len(t) \in Nat /\ Len(s \o t) = Len(s) + Len(t)
        /\ \A i \in 1..Len(s) : (s \o t)[i] = s[i]
    OBVIOUS
  <1>2. ASSUME NEW i \in 1..Len(s)
        PROVE  /\ i \in 1..Len(s \o t) /\ (s \o t)[i] = s[i]
               /\ i # 1 => (s \o t)[i - 1] = s[i - 1]
    OBVIOUS
  <1> QED
    BY <1>2 DEF Ordered

\* Without the rejected document, the beginning of the result is in order.
LEMMA FirstOrdered ==
    ASSUME NEW s \in Seq(Nat), NEW m \in Nat, First(s, m), m <= Size, Settings,
           \A i \in 1..m : s[i] # bad
    PROVE  Ordered(s)
  BY SizeNat DEF First, Ordered

\* And so is what a cursor has left, behind a gap the program knows of.
LEMMA GapOrdered ==
    ASSUME NEW s \in Seq(Nat), NEW m \in Nat, Settings, m + Len(s) <= Size,
           \A i \in 1..Len(s) : s[i] = m + i /\ s[i] # bad,
           failed, bad \in 1..m
    PROVE  Ordered(s)
  <1>1. Len(s) \in Nat /\ Size \in Nat
    BY SizeNat
  <1>2. ASSUME NEW i \in 1..Len(s)
        PROVE  /\ s[i] = m + i /\ s[i] <= Size /\ s[i] # bad
               /\ i # 1 => s[i] = s[i - 1] + 1 /\ s[i - 1] < s[i]
               /\ i = 1 => 0 < s[i] /\ bad \in 0..s[i]
    <2>1. i # 1 => i - 1 \in 1..Len(s) /\ s[i - 1] = m + (i - 1)
      OBVIOUS
    <2> QED
      BY <1>1, <2>1
  <1> QED
    BY <1>2 DEF Ordered

LEMMA OrderedStays ==
    ASSUME NEW s, Ordered(s), UNCHANGED settings, failed => failed'
    PROVE  Ordered(s)'
  BY DEF Ordered, settings, Size

\* A step that gives nothing to the program and takes no reply: it may drop the
\* buffer, send a command or end in an exception.
LEMMA QuietOrder ==
    ASSUME Shape, OrderInv, UNCHANGED <<settings, id, got, open>>, failed => failed',
           docs' = docs \/ docs' = <<>>, msg'.op # "reply", second => second',
           pc' = "idle" => second \/ id = NoId \/ id = 0 \/ UNCHANGED <<pc, docs>>,
           msg'.op = "getMore" =>
               docs' = docs /\ ((pc = "idle" /\ ~second) \/ msg.op = "getMore")
    PROVE  OrderInv'
  <1> USE DEF Shape, NoId
  <1>1. Ordered(got' \o docs')
    <2>1. CASE docs' = docs
      BY <2>1 DEF OrderInv
    <2>2. CASE docs' = <<>>
      <3>1. got' \o docs' = got
        BY <2>2, ConcatEmptySeq
      <3> QED
        BY <3>1, OrderedPrefix DEF OrderInv
    <2> QED
      BY <2>1, <2>2
  <1>2. Ordered(got \o docs)' /\ UNCHANGED <<Size, bad>>
    BY <1>1, OrderedStays DEF settings, Size
  <1>3. (\A c \in DOMAIN open : Rest(open[c]))'
    <2> HIDE DEF Shape
    <2> QED
      BY <1>2 DEF OrderInv, Rest, Before
  <1>4. NextOK'
    <2> SUFFICES ASSUME id' \in DOMAIN open', (pc' = "idle" /\ ~second') \/ msg'.op = "getMore"
                 PROVE  NextOK'
      BY DEF NextOK
    <2>1. docs' = docs /\ ((pc = "idle" /\ ~second) \/ msg.op = "getMore")
      OBVIOUS
    <2> QED
      BY <1>2 DEF OrderInv, NextOK, Before
  <1>5. FindOK' /\ MoreOK'
    BY DEF FindOK, MoreOK, Answered
  <1> HIDE DEF Shape
  <1> QED
    BY <1>2, <1>3, <1>4, <1>5 DEF OrderInv

\* The documents of the reply to a find go to the program.
LEMMA FindReturnsOrder ==
    ASSUME Shape, OrderInv, FindReturns
    PROVE  OrderInv'
  <1>1. /\ pc = "find" /\ id = NoId /\ Answered /\ Parses /\ docs = <<>> /\ got = <<>>
        /\ id' = msg.id /\ pc' = "idle" /\ msg'.op = "none" /\ Settings
        /\ UNCHANGED <<settings, second, failed, open>>
        /\ msg.id \in Nat /\ msg.docs \in Seq(Nat)
    BY DEF FindReturns, Await, NoMsg, srvVars, Answered, Shape, Awaited, OrderInv
  <1>2. got' \o docs' = msg.docs
    BY <1>1, PopShape, ConcatEmptySeq DEF FindReturns, Shape
  <1>3. /\ First(msg.docs, Len(msg.docs)) /\ Len(msg.docs) <= Size
        /\ msg.id \in DOMAIN open => Before(open[msg.id]) = Len(msg.docs)
    BY <1>1 DEF OrderInv, FindOK
  <1>4. Ordered(msg.docs)
    BY <1>1, <1>3, FirstOrdered DEF Parses
  <1>5. UNCHANGED <<Size, bad>> /\ Ordered(got \o docs)'
    BY <1>1, <1>2, <1>4 DEF settings, Size, Ordered
  <1>6. (\A c \in DOMAIN open : Rest(open[c]))'
    BY <1>1, <1>5 DEF OrderInv, Rest, Before
  <1>7. NextOK'
    BY <1>1, <1>2, <1>3, <1>5 DEF NextOK, Before
  <1> QED
    BY <1>1, <1>5, <1>6, <1>7 DEF OrderInv, FindOK, MoreOK, NoId

LEMMA MoreReturnsOrder ==
    ASSUME Shape, OrderInv, MoreReturns
    PROVE  OrderInv'
  <1>1. /\ pc = "more" /\ id > 0 /\ Answered /\ Parses /\ second
        /\ pc' = "idle" /\ msg'.op = "none"
        /\ UNCHANGED <<settings, id, second, failed, open>>
        /\ msg.docs \in Seq(Nat)
    BY DEF MoreReturns, Await, NoMsg, srvVars, Answered, Shape, Awaited
  <1>2. got' \o docs' = got \o msg.docs
    BY PopShape DEF MoreReturns, Shape
  <1>3. Ordered(got \o msg.docs)
    BY <1>1 DEF OrderInv, MoreOK
  <1>4. UNCHANGED <<Size, bad>> /\ Ordered(got \o docs)'
    BY <1>1, <1>2, <1>3 DEF settings, Size, Ordered
  <1>5. (\A c \in DOMAIN open : Rest(open[c]))'
    BY <1>1, <1>4 DEF OrderInv, Rest, Before
  <1> QED
    BY <1>1, <1>4, <1>5 DEF OrderInv, FindOK, NextOK, MoreOK, NoId

\* A rejected batch leaves a gap that has the rejected document.
LEMMA RejectedOrder ==
    ASSUME Shape, OrderInv, BatchRejected
    PROVE  OrderInv'
  <1>1. /\ Answered /\ ~Parses /\ msg'.op = "none" /\ pc' = "idle" /\ failed'
        /\ UNCHANGED <<settings, docs, second, got, open>>
        /\ msg.id \in Nat /\ msg.docs \in Seq(Nat)
    BY DEF BatchRejected, Raised, Await, NoMsg, srvVars, Answered, Shape
  <1>2. UNCHANGED <<Size, bad>> /\ Ordered(got \o docs)'
    BY <1>1, OrderedStays DEF OrderInv, settings, Size
  <1>3. (\A c \in DOMAIN open : Rest(open[c]))'
    BY <1>1, <1>2 DEF OrderInv, Rest, Before
  <1>4. NextOK' /\ (id = NoId => got = <<>> /\ docs = <<>>)'
    <2>1. CASE pc = "find"
      <3>1. id' = msg.id /\ id = NoId /\ got = <<>> /\ docs = <<>>
        BY <2>1 DEF BatchRejected, Shape, Awaited, OrderInv
      <3>2. bad \in 1..Len(msg.docs)
        BY <1>1, <2>1 DEF OrderInv, FindOK, First, Parses
      <3>3. msg.id \in DOMAIN open => Before(open[msg.id]) = Len(msg.docs)
        BY <1>1, <2>1 DEF OrderInv, FindOK
      <3> QED
        BY <1>1, <1>2, <3>1, <3>2, <3>3 DEF NextOK, Before
    <2>2. CASE pc = "more"
      BY <1>1, <2>2 DEF BatchRejected, Shape, Awaited, NextOK, OrderInv
    <2> QED
      BY <2>1, <2>2 DEF BatchRejected
  <1> QED
    BY <1>1, <1>2, <1>3, <1>4 DEF OrderInv, FindOK, MoreOK

LEMMA ServeFindOrder ==
    ASSUME Shape, OrderInv, ServeFind
    PROVE  OrderInv'
  <1> DEFINE all == [i \in 1..Size |-> i]
  <1>1. Size \in Nat /\ Least(batch, Room) \in Nat /\ nextId \in Nat
    BY SizeNat, SettingsAssumption DEF Settings, Shape, Least
  <1>2. all \in Seq(Nat) /\ Len(all) = Size /\ \A i \in 1..Size : all[i] = i
    BY <1>1
  <1>3. PICK k \in 0..Len(all) : Served(nextId, all, k)
    BY <1>1, <1>2, ReturnServed DEF ServeFind
  <1> HIDE DEF all
  <1>4. /\ pc = "find" /\ pc' = "find" /\ id = NoId
        /\ UNCHANGED <<settings, id, docs, second, got, failed>>
    BY DEF ServeFind, objVars, Shape, Awaited
  <1>5. UNCHANGED <<Size, bad>> /\ Ordered(got \o docs)'
    BY <1>4, OrderedStays DEF OrderInv, settings, Size
  <1>6. \A c \in DOMAIN open' \ {nextId} : c \in DOMAIN open /\ open'[c] = open[c]
    BY <1>3 DEF Served
  <1>7. nextId \in DOMAIN open' =>
            /\ Len(open'[nextId]) = Size - k
            /\ \A i \in 1..Size - k : open'[nextId][i] = k + i
    <2>1. \A i \in 1..Size - k : k + i \in 1..Size
      BY <1>1, <1>2
    <2> QED
      BY <1>2, <1>3, <2>1 DEF Served
  <1>8. (\A c \in DOMAIN open : Rest(open[c]))'
    <2>1. k \in Nat /\ k <= Size /\ Size - (Size - k) = k
      BY <1>1, <1>2
    <2>2. ASSUME NEW c \in DOMAIN open' PROVE Rest(open[c])'
      <3>1. CASE c = nextId
        BY <1>1, <1>5, <1>7, <2>1, <3>1, SMTT(30) DEF Rest, Before
      <3>2. CASE c # nextId
        BY <1>5, <1>6, <3>2 DEF OrderInv, Rest, Before
      <3> QED
        BY <3>1, <3>2
    <2> QED
      BY <2>2
  <1>9. FindOK'
    <2>1. /\ Len(msg'.docs) = k /\ \A i \in 1..k : msg'.docs[i] = i
      BY <1>1, <1>2, <1>3 DEF Served
    <2>2. msg'.id \in DOMAIN open' => msg'.id = nextId
      <3>1. DOMAIN open' \subseteq Nat \ {0}
        BY <1>1, <1>6 DEF Shape
      <3> QED
        BY <1>3, <3>1 DEF Served
    <2>3. msg'.id \in DOMAIN open' => Before(open[msg.id])' = k
      BY <1>1, <1>2, <1>5, <1>7, <2>2 DEF Before
    <2> QED
      BY <1>1, <1>2, <1>5, <2>1, <2>3 DEF FindOK, First
  <1>10. NextOK' /\ MoreOK'
    <2>1. NoId \notin DOMAIN open' /\ msg'.op = "reply"
      <3>1. NoId \notin DOMAIN open /\ NoId # nextId
        BY <1>1 DEF Shape, NoId
      <3> QED
        BY <1>3, <1>6, <3>1 DEF Served
    <2> QED
      BY <1>4, <2>1 DEF NextOK, MoreOK
  <1> QED
    BY <1>4, <1>5, <1>8, <1>9, <1>10 DEF OrderInv

LEMMA ServeGetMoreOrder ==
    ASSUME Shape, OrderInv, NEW k \in Nat, k <= Len(open[id]),
           id \in DOMAIN open, pc = "more", msg.op = "getMore", Served(id, open[id], k),
           UNCHANGED <<settings, id, docs, second, pc, got, failed>>
    PROVE  OrderInv'
  <1> DEFINE left == open[id]
             m == Before(left)
  <1>1. /\ Size \in Nat /\ left \in Seq(Nat) /\ Len(left) \in Nat /\ Len(left) <= Size
        /\ m \in Nat /\ m + Len(left) = Size /\ \A i \in 1..Len(left) : left[i] = m + i
        /\ id > 0 /\ docs = <<>> /\ got \in Seq(Nat) /\ k <= Len(left)
    <2>1. left \in Seq(Nat) /\ Size \in Nat /\ got \in Seq(Nat)
      BY SizeNat DEF Shape
    <2>2. id > 0 /\ docs = <<>>
      BY DEF Shape, Awaited
    <2>3. Len(left) \in Nat
      OBVIOUS
    <2>4. Len(left) <= Size /\ \A i \in 1..Len(left) : left[i] = m + i
      BY DEF OrderInv, Rest
    <2>5. m = Size - Len(left) /\ k <= Len(left)
      BY DEF Before
    <2> HIDE DEF left, m
    <2> QED
      BY <2>1, <2>2, <2>4, <2>5
  <1>2. /\ msg'.op = "reply" /\ msg'.docs \in Seq(Nat) /\ Len(msg'.docs) = k
        /\ \A i \in 1..k : msg'.docs[i] = m + i
    <2>1. /\ msg'.op = "reply" /\ msg'.docs \in Seq(Nat) /\ Len(msg'.docs) = k
          /\ \A i \in 1..k : msg'.docs[i] = left[i]
      BY DEF Served
    <2> HIDE DEF left, m
    <2>2. \A i \in 1..k : i \in 1..Len(left)
      BY <1>1
    <2> QED
      BY <1>1, <2>1
  <1>3. UNCHANGED <<Size, bad>> /\ Ordered(got \o docs)'
    BY OrderedStays DEF OrderInv, settings, Size
  <1>4. (\A c \in DOMAIN open : Rest(open[c]))'
    <2>1. ASSUME NEW c \in DOMAIN open', c # id PROVE Rest(open[c])'
      BY <1>3, <2>1 DEF Served, OrderInv, Rest, Before
    <2>2. ASSUME id \in DOMAIN open' PROVE Rest(open[id])'
      <3>1. /\ Len(open'[id]) = Len(left) - k
            /\ \A i \in 1..Len(left) - k : open'[id][i] = left[k + i]
        BY <2>2 DEF Served
      <3>2. \A i \in 1..Len(left) - k : k + i \in 1..Len(left) /\ left[k + i] = m + (k + i)
        <4> HIDE DEF left, m
        <4> QED
          BY <1>1
      <3>3. Before(open[id])' = m + k
        BY <1>1, <1>3, <3>1 DEF Before
      <3> HIDE DEF left, m
      <3>4. Len(open'[id]) <= Size'
        BY <1>1, <1>3, <3>1
      <3>5. \A i \in 1..Len(open'[id]) : open'[id][i] = (m + k) + i
        <4>1. \A i \in 1..Len(left) - k : open'[id][i] = m + (k + i)
          BY <3>1, <3>2
        <4> QED
          BY <1>1, <3>1, <4>1
      <3> QED
        BY <3>3, <3>4, <3>5 DEF Rest
    <2> QED
      BY <2>1, <2>2
  <1>5. (\A i \in 1..k : msg'.docs[i] # bad) => Ordered(got \o msg'.docs)
    <2> SUFFICES ASSUME \A i \in 1..k : msg'.docs[i] # bad PROVE Ordered(got \o msg'.docs)
      OBVIOUS
    <2> HIDE DEF left, m
    <2> DEFINE s == got \o msg'.docs
    <2>1. \/ First(got, m) /\ \A i \in 1..m : got[i] # bad
          \/ failed /\ got = <<>> /\ bad \in 1..m
      <3>1. got \o docs = got
        BY <1>1
      <3> QED
        BY <1>1 DEF OrderInv, NextOK, Ordered, First, m, left
    <2>2. CASE First(got, m) /\ \A i \in 1..m : got[i] # bad
      <3>1. /\ s \in Seq(Nat) /\ Len(s) = m + k
            /\ \A i \in 1..m + k : s[i] = IF i <= m THEN got[i] ELSE msg'.docs[i - m]
        <4>1. Len(got) = m /\ Len(msg'.docs) = k
          BY <1>2, <2>2 DEF First
        <4>2. /\ got \o msg'.docs \in Seq(Nat)
              /\ Len(got \o msg'.docs) = Len(got) + Len(msg'.docs)
              /\ \A i \in 1..Len(got) + Len(msg'.docs) :
                    (got \o msg'.docs)[i] =
                        IF i <= Len(got) THEN got[i] ELSE msg'.docs[i - Len(got)]
          <5>1. got \in Seq(Nat) /\ msg'.docs \in Seq(Nat)
            BY <1>1, <1>2
          <5> QED
            BY ONLY <5>1
        <4> QED
          BY <4>1, <4>2
      <3>2. ASSUME NEW i \in 1..m + k PROVE s[i] = i /\ s[i] # bad
        <4>1. CASE i <= m
          BY <2>2, <4>1 DEF First
        <4>2. CASE ~(i <= m)
          <5>1. i - m \in 1..k /\ m + (i - m) = i
            BY <1>1, <4>2
          <5>2. s[i] = msg'.docs[i - m]
            BY <3>1, <4>2
          <5> HIDE DEF s
          <5> QED
            BY <1>2, <5>1, <5>2
        <4> QED
          BY <4>1, <4>2
      <3>3. First(s, m + k) /\ m + k \in Nat /\ m + k <= Size /\ Settings
        BY <1>1, <3>1, <3>2, SMTT(30) DEF First, Shape, left
      <3> HIDE DEF s
      <3>4. Ordered(s)
        BY <3>1, <3>2, <3>3, FirstOrdered
      <3> QED
        BY <3>4 DEF s
    <2>3. CASE failed /\ got = <<>> /\ bad \in 1..m
      <3>1. s = msg'.docs
        BY <2>3
      <3>2. m + Len(msg'.docs) <= Size /\ Settings
        BY <1>1, <1>2 DEF Shape
      <3>3. Ordered(msg'.docs)
        BY <1>1, <1>2, <2>3, <3>2, GapOrdered
      <3> QED
        BY <3>1, <3>3
    <2> QED
      BY <2>1, <2>2, <2>3
  <1>6. MoreOK'
    <2>1. Parses' => \A i \in 1..k : msg'.docs[i] # bad
      BY <1>2, <1>3 DEF Parses
    <2>2. Ordered(got \o msg'.docs) => Ordered(got \o msg.docs)'
      BY <1>3 DEF Ordered
    <2> QED
      BY <1>5, <2>1, <2>2 DEF MoreOK
  <1>7. FindOK' /\ NextOK'
    BY <1>2 DEF FindOK, NextOK
  <1> QED
    BY <1>3, <1>4, <1>6, <1>7 DEF OrderInv

LEMMA OrderStep ==
    ASSUME Shape, OrderInv, [Next]_vars
    PROVE  OrderInv'
  <1> USE DEF NoId, Await, NoMsg, Command, objVars, srvVars
  <1>1. CASE TakeBuffered
    <2>1. /\ got' \o docs' = got \o docs /\ pc = "idle" /\ msg.op = "none"
          /\ id # NoId \/ docs = <<>>
          /\ UNCHANGED <<settings, id, second, pc, msg, failed, open>>
      BY <1>1, PopShape DEF TakeBuffered, Shape, Awaited, OrderInv
    <2>2. id # NoId
      BY <1>1, <2>1 DEF TakeBuffered
    <2>3. UNCHANGED <<Size, bad>> /\ Ordered(got \o docs)'
      BY <2>1 DEF OrderInv, settings, Size, Ordered
    <2>4. (\A c \in DOMAIN open : Rest(open[c]))'
      BY <2>1, <2>3 DEF OrderInv, Rest, Before
    <2>5. NextOK'
      <3>1. docs # <<>> /\ docs \in Seq(Nat)
        BY <1>1 DEF TakeBuffered, Shape
      <3> QED
        BY <2>1, <2>3 DEF OrderInv, NextOK, Before
    <2> QED
      BY <2>1, <2>3, <2>4, <2>5 DEF OrderInv, FindOK, MoreOK
  <1>2. CASE Find
    BY <1>2, QuietOrder DEF Find
  <1>3. CASE GetMore
    BY <1>3, QuietOrder DEF GetMore
  <1>4. CASE Finish \/ Close
    <2>1. /\ pc = "idle" /\ UNCHANGED <<settings, id, second, got, failed, open>>
          /\ docs' = docs \/ docs' = <<>>
          /\ msg'.op \in {"none", "killCursors"}
          /\ pc' = "idle" => id = 0 \/ second
      BY <1>4 DEF Finish, Close, CloseCursor, Shut
    <2> QED
      BY <2>1, QuietOrder
  <1>5. CASE KillReturns
    <2>1. pc \in {"ending", "closing"} /\ (pc = "ending" => second)
      BY <1>5 DEF KillReturns, Shape, Awaited
    <2> QED
      BY <1>5, <2>1, QuietOrder DEF KillReturns, Shut
  <1>6. CASE CommandRaises \/ GiveUp
    <2>1. /\ UNCHANGED <<settings, id, docs, second, got, open>> /\ failed' /\ msg'.op = "none"
          /\ pc' = IF pc = "closing" THEN "closed" ELSE "idle"
          /\ msg.op # "none"
      BY <1>6 DEF CommandRaises, GiveUp, Raised
    <2>2. pc' = "idle" => second \/ id = NoId
      BY <2>1 DEF Shape, Awaited
    <2> QED
      BY <2>1, <2>2, QuietOrder
  <1>7. CASE ServeGetMore
    <2>1. pc = "more" /\ msg.op = "getMore" /\ msg.id = id
      BY <1>7 DEF ServeGetMore, Shape, Awaited
    <2>2. CASE msg' = [op |-> "error"] /\ UNCHANGED open
      BY <1>7, <2>2, QuietOrder DEF ServeGetMore
    <2>3. CASE id \in DOMAIN open /\ Return(id, open[id], Room)
      <3>1. id \in Nat /\ open[id] \in Seq(Nat) /\ Room \in Nat
        BY <2>3, SettingsAssumption DEF Shape
      <3>2. PICK k \in 0..Len(open[id]) : Served(id, open[id], k)
        BY <2>3, <3>1, ReturnServed
      <3>3. k \in Nat /\ k <= Len(open[id])
        OBVIOUS
      <3> QED
        BY <1>7, <2>1, <2>3, <3>2, ServeGetMoreOrder DEF ServeGetMore
    <2> QED
      BY <1>7, <2>1, <2>2, <2>3 DEF ServeGetMore
  \* The cursors the server closes of itself, or is told to.
  <1>8. ASSUME UNCHANGED <<settings, id, docs, second, got, failed, pc>>,
               \A c \in DOMAIN open' : c \in DOMAIN open /\ open'[c] = open[c],
               msg' = msg \/ (msg'.op = "reply" /\ pc \in {"ending", "closing"})
        PROVE  OrderInv'
    <2>1. UNCHANGED <<Size, bad>> /\ Ordered(got \o docs)'
      BY <1>8, OrderedStays DEF OrderInv, settings, Size
    <2>2. (\A c \in DOMAIN open : Rest(open[c]))'
      BY <1>8, <2>1 DEF OrderInv, Rest, Before
    <2>3. CASE msg' = msg
      <3>1. FindOK' /\ NextOK'
        BY <1>8, <2>1 DEF OrderInv, FindOK, NextOK, Before, Answered
      <3>2. MoreOK'
        BY <1>8, <2>1 DEF OrderInv, MoreOK, Parses, Answered, Ordered
      <3> QED
        BY <1>8, <2>1, <2>2, <3>1, <3>2 DEF OrderInv
    <2>4. CASE msg'.op = "reply" /\ pc \in {"ending", "closing"}
      BY <1>8, <2>1, <2>2, <2>4 DEF OrderInv, FindOK, NextOK, MoreOK
    <2> QED
      BY <1>8, <2>3, <2>4
  <1>9. CASE ServeKill
    <2>1. pc \in {"ending", "closing"} /\ msg'.op = "reply"
      BY <1>9 DEF ServeKill, Shape, Awaited, Reply
    <2> QED
      BY <1>8, <1>9, <2>1 DEF ServeKill, Unopened
  <1>10. CASE Refuse
    BY <1>10, QuietOrder DEF Refuse
  <1>11. CASE Expire
    BY <1>8, <1>11 DEF Expire, Unopened
  <1>12. CASE UNCHANGED vars
    BY <1>8, <1>12 DEF vars, settings
  <1> QED
    BY <1>1, <1>2, <1>3, <1>4, <1>5, <1>6, <1>7, <1>9, <1>10, <1>11, <1>12, FindReturnsOrder,
       MoreReturnsOrder, RejectedOrder, ServeFindOrder DEF Next

\* A program that iterates (cursor.py:176-210) is given the documents of the
\* result in order and never twice, for results, limits and batch sizes of any
\* size and however many commands fail; a gap is a batch whose document the
\* class rejected, and the program was told.
THEOREM InOrderCorrect == Spec => []InOrder
  <1>1. Init => Shape /\ OrderInv
    <2> SUFFICES ASSUME Init PROVE OrderInv
      BY ShapeInit
    <2>1. got = <<>> /\ docs = <<>> /\ got \o docs = <<>> /\ Size \in Nat
      BY ShapeInit, SizeNat DEF Init, Shape
    <2>2. Ordered(<<>>) /\ bad \in Nat
      BY DEF Ordered, Init
    <2> QED
      BY <2>2 DEF Init, OrderInv, FindOK, NextOK, MoreOK
  <1>2. Shape /\ OrderInv => InOrder
    BY DEF OrderInv, InOrder, Ordered
  <1>3. Shape /\ OrderInv /\ [Next]_vars => (Shape /\ OrderInv)'
    BY ShapeStep, OrderStep
  <1> QED
    BY <1>1, <1>2, <1>3, PTL DEF Spec

-----------------------------------------------------------------------------
(* The type of every variable                                              *)

Flags == second \in BOOLEAN /\ killed \in BOOLEAN /\ failed \in BOOLEAN /\ ended \in BOOLEAN

\* A find costs a cursor id, and only a find that failed lets another follow.
Bounds ==
    /\ total \in Totals /\ limit \in Limits /\ batch \in Batches /\ bad \in 0..total
    /\ faults \in 0..MaxFaults
    /\ nextId <= faults + (IF id = NoId /\ ~(pc = "find" /\ Answered) THEN 1 ELSE 2)
    /\ \A c \in DOMAIN open : c <= nextId

LEMMA BoundsInit == Init => Flags /\ Bounds
  <1> SUFFICES ASSUME Init PROVE Flags /\ Bounds
    OBVIOUS
  <1>1. total \in Nat /\ Size \in Nat /\ Size <= total
    BY SettingsAssumption DEF Init, Size, Least
  <1>2. bad \in 0..total
    BY <1>1 DEF Init
  <1>3. /\ nextId = 1 /\ faults = 0 /\ msg.op = "none" /\ id = NoId
        /\ DOMAIN open = {}
    BY DEF Init, NoMsg
  <1>4. Bounds
    BY <1>2, SettingsAssumption DEF Init, Bounds
  <1> QED
    BY <1>4 DEF Init, Flags

LEMMA FlagsStep ==
    ASSUME Flags, [Next]_vars
    PROVE  Flags'
  BY DEF Flags, Next, vars, TakeBuffered, Pop, Find, FindReturns, GetMore, MoreReturns,
     BatchRejected, Raised, Finish, Close, CloseCursor, Shut, KillReturns, CommandRaises, GiveUp,
     ServeFind, ServeGetMore, ServeKill, Refuse, Expire, objVars

LEMMA BoundsStep ==
    ASSUME Shape, Bounds, [Next]_vars
    PROVE  Bounds'
  <1> USE SettingsAssumption
      DEF Shape, Awaited, Bounds, Answered, settings, objVars, srvVars, NoId, NoMsg, Await
  \* No find is answered.
  <1>1. ASSUME UNCHANGED <<settings, nextId, faults>>, id' = id \/ id' \in Nat,
               pc = "find" /\ Answered => id' # NoId,
               pc' = "find" => ~Answered' \/ UNCHANGED <<pc, msg, id>>,
               \A c \in DOMAIN open' : c \in DOMAIN open
        PROVE  Bounds'
    BY <1>1
  \* One more fault.
  <1>2. ASSUME UNCHANGED settings, nextId' = nextId, faults' = faults + 1, faults < MaxFaults,
               id' = id, \A c \in DOMAIN open' : c \in DOMAIN open,
               ~Answered' \/ UNCHANGED <<pc, msg>>
        PROVE  Bounds'
    BY <1>2
  <1>3. CASE TakeBuffered
    BY <1>3 DEF TakeBuffered
  <1>4. CASE Find \/ GetMore
    BY <1>4 DEF Find, GetMore
  <1>5. CASE FindReturns \/ MoreReturns
    BY <1>1, <1>5 DEF FindReturns, MoreReturns
  <1>6. CASE BatchRejected
    BY <1>6 DEF BatchRejected
  <1>7. CASE CommandRaises
    BY <1>7 DEF CommandRaises
  <1>8. CASE GiveUp
    BY <1>8 DEF GiveUp
  <1>9. CASE Finish \/ Close
    BY <1>9 DEF Finish, Close, CloseCursor, Shut
  <1>10. CASE KillReturns
    BY <1>10 DEF KillReturns
  <1>11. CASE ServeFind
    <2>1. /\ pc = "find" /\ id = NoId /\ ~Answered /\ nextId' = nextId + 1
          /\ UNCHANGED <<settings, id, faults, pc>>
      BY <1>11 DEF ServeFind
    <2>2. \A c \in DOMAIN open' : c \in DOMAIN open \cup {nextId}
      BY <1>11 DEF ServeFind, Return, Unopened
    <2>3. msg'.op = "reply"
      BY <1>11 DEF ServeFind, Return, Reply
    <2> QED
      BY <2>1, <2>2, <2>3
  <1>12. CASE ServeGetMore
    <2>1. /\ pc = "more" /\ UNCHANGED <<settings, objVars, pc, nextId, faults>>
      BY <1>12 DEF ServeGetMore
    <2>2. \A c \in DOMAIN open' : c \in DOMAIN open
      BY <1>12 DEF ServeGetMore, Return, Unopened
    <2> QED
      BY <2>1, <2>2
  <1>13. CASE ServeKill
    BY <1>13 DEF ServeKill, Unopened
  <1>14. CASE Refuse
    BY <1>14 DEF Refuse
  <1>15. CASE Expire
    BY <1>15 DEF Expire, Unopened
  <1>16. CASE UNCHANGED vars
    BY <1>16 DEF vars
  <1> QED
    BY <1>3, <1>4, <1>5, <1>6, <1>7, <1>8, <1>9, <1>10, <1>11, <1>12, <1>13, <1>14, <1>15, <1>16
       DEF Next

\* Every attribute of a Cursor (cursor.py:38-55) and everything around it keeps
\* its type, for results, limits and batch sizes of any size; a program never
\* sends more finds than there are faults, and one.
THEOREM TypeCorrect == Spec => []TypeOK
  <1>1. Init => Shape /\ Flags /\ Bounds
    BY ShapeInit, BoundsInit
  <1>2. Shape /\ Flags /\ Bounds /\ [Next]_vars => (Shape /\ Flags /\ Bounds)'
    BY ShapeStep, FlagsStep, BoundsStep
  <1>3. Shape /\ Flags /\ Bounds => TypeOK
    BY SettingsAssumption DEF Shape, Flags, Bounds, Awaited, TypeOK
  <1> QED
    BY <1>1, <1>2, <1>3, PTL DEF Spec

-----------------------------------------------------------------------------
(* Nothing is missing                                                      *)

Handed == Len(got) + Len(docs)

\* After n documents the rest fits into a reply, and cursor c has all of it
\* unless it has timed out.
Follows(c, n) == Size <= n + Room /\ (c \in DOMAIN open => Len(open[c]) = Size - n)

WholeInv ==
    ~failed /\ batch > 0 /\ Size <= Least(batch, Room) + Room =>
        /\ ended => Len(got) = Size
        /\ id = NoId => got = <<>> /\ docs = <<>> /\ ~second
        /\ pc = "find" /\ Answered =>
              IF msg.id = 0 THEN Len(msg.docs) = Size
              ELSE msg.docs # <<>> /\ Follows(msg.id, Len(msg.docs))
        /\ pc = "idle" /\ id # NoId =>
              IF id = 0 \/ second THEN Handed = Size ELSE Follows(id, Handed)
        /\ pc = "more" =>
              IF Answered THEN Len(got) + Len(msg.docs) = Size ELSE Follows(id, Len(got))
        /\ pc = "ending" => Len(got) = Size

LEMMA PopHanded ==
    ASSUME got \in Seq(Nat), NEW ds \in Seq(Nat), Pop(ds)
    PROVE  /\ Handed' = Len(got) + Len(ds)
           /\ ended' => ds = <<>> /\ Len(got') = Len(got) + Len(ds)
  <1>1. CASE ds # <<>>
    <2>1. Len(Tail(ds)) = Len(ds) - 1 /\ Len(Append(got, Head(ds))) = Len(got) + 1
      BY <1>1
    <2>2. Len(ds) \in Nat /\ Len(got) \in Nat
      OBVIOUS
    <2>3. got' = Append(got, Head(ds)) /\ docs' = Tail(ds) /\ ended' = FALSE
      BY <1>1 DEF Pop
    <2>4. Handed' = Len(got) + 1 + (Len(ds) - 1)
      BY <2>1, <2>3 DEF Handed
    <2> HIDE DEF Handed
    <2> QED
      BY <2>3, <2>4
  <1>2. CASE ds = <<>>
    BY <1>2 DEF Pop, Handed
  <1> QED
    BY <1>1, <1>2

LEMMA WholeStep ==
    ASSUME Shape, WholeInv, [Next]_vars
    PROVE  WholeInv'
  <1> SUFFICES ASSUME ~failed', batch' > 0, Size' <= Least(batch', Room) + Room PROVE WholeInv'
    BY DEF WholeInv
  <1> USE DEF Awaited, NoId
  <1>0. /\ UNCHANGED <<total, limit, batch>> /\ Size' = Size /\ ~failed
    BY DEF Next, vars, TakeBuffered, Find, FindReturns, GetMore, MoreReturns, BatchRejected,
       Raised, Finish, Close, KillReturns, CommandRaises, GiveUp, ServeFind, ServeGetMore,
       ServeKill, Refuse, Expire, settings, Size
  <1>a. /\ batch > 0 /\ Size <= Least(batch, Room) + Room
        /\ Size \in Nat /\ Room \in Nat \ {0} /\ Least(batch, Room) \in Nat \ {0}
    BY <1>0, SizeNat, SettingsAssumption DEF Shape, Settings, Least
  <1>b. /\ ended => Len(got) = Size
        /\ id = NoId => got = <<>> /\ docs = <<>> /\ ~second
        /\ pc = "find" /\ Answered =>
              IF msg.id = 0 THEN Len(msg.docs) = Size
              ELSE msg.docs # <<>> /\ Follows(msg.id, Len(msg.docs))
        /\ pc = "idle" /\ id # NoId =>
              IF id = 0 \/ second THEN Handed = Size ELSE Follows(id, Handed)
        /\ pc = "more" =>
              IF Answered THEN Len(got) + Len(msg.docs) = Size ELSE Follows(id, Len(got))
        /\ pc = "ending" => Len(got) = Size
    BY <1>0 DEF WholeInv
  <1>c. /\ got \in Seq(Nat) /\ docs \in Seq(Nat) /\ Len(got) \in Nat /\ Len(docs) \in Nat
        /\ docs = <<>> => Handed = Len(got)
        /\ Answered => msg.id \in Nat /\ msg.docs \in Seq(Nat) /\ Len(msg.docs) \in Nat
        /\ id \in {NoId} \cup Nat /\ Awaited
    BY DEF Shape, Handed, Answered
  <1>1. CASE TakeBuffered
    <2>1. /\ docs # <<>> /\ pc = "idle" /\ id # NoId
          /\ UNCHANGED <<id, second, pc, msg, open>>
      BY <1>1, <1>b DEF TakeBuffered, srvVars
    <2>2. Handed' = Handed /\ ~ended'
      BY <1>1, <1>c, PopHanded DEF TakeBuffered, Handed
    <2> QED
      BY <1>0, <2>1, <2>2 DEF WholeInv, Follows
  <1>2. CASE Find
    BY <1>0, <1>2 DEF Find, objVars, Await, Command, WholeInv, Answered
  <1>3. CASE FindReturns
    <2>1. /\ pc = "find" /\ Answered /\ id' = msg.id /\ pc' = "idle" /\ got = <<>>
          /\ UNCHANGED open
      BY <1>3, <1>b, <1>c DEF FindReturns, Await, Answered, srvVars
    <2>2. Handed' = Len(msg.docs) /\ (ended' => msg.docs = <<>> /\ Len(got') = 0)
      BY <1>3, <1>c, <2>1, PopHanded DEF FindReturns
    <2>3. CASE msg.id = 0
      BY <1>0, <2>1, <2>2, <2>3 DEF WholeInv
    <2>4. CASE msg.id # 0
      <3>1. ~second' /\ ~ended'
        BY <1>3, <1>b, <1>c, <2>1, <2>2, <2>4 DEF FindReturns
      <3> QED
        BY <1>0, <1>c, <2>1, <2>2, <3>1 DEF WholeInv, Follows
    <2> QED
      BY <2>3, <2>4
  <1>4. CASE GetMore
    <2>1. /\ pc = "idle" /\ id > 0 /\ ~second /\ second' /\ pc' = "more" /\ ~Answered'
          /\ docs = <<>> /\ UNCHANGED <<id, docs, got, ended, open>>
      BY <1>4 DEF GetMore, Await, Command, Answered, srvVars
    <2> QED
      BY <1>0, <1>c, <2>1 DEF WholeInv, Follows
  <1>5. CASE MoreReturns
    <2>1. /\ pc = "more" /\ Answered /\ id > 0 /\ second /\ pc' = "idle"
          /\ UNCHANGED <<id, second>>
      BY <1>5, <1>c DEF MoreReturns, Await, Answered
    <2>2. Handed' = Size /\ (ended' => Len(got') = Size)
      BY <1>5, <1>b, <1>c, <2>1, PopHanded DEF MoreReturns
    <2> QED
      BY <1>0, <2>1, <2>2 DEF WholeInv
  <1>6. CASE BatchRejected \/ CommandRaises \/ GiveUp
    BY <1>6 DEF BatchRejected, CommandRaises, GiveUp, Raised
  <1>7. CASE Finish
    <2>1. /\ pc = "idle" /\ docs = <<>> /\ id # NoId /\ (id = 0 \/ second)
          /\ pc' \in {"ending", "idle"} /\ docs' = <<>>
          /\ UNCHANGED <<id, second, got>>
      BY <1>7 DEF Finish, CloseCursor, Shut, Await
    <2>2. Len(got) = Size /\ Handed' = Handed
      BY <1>b, <2>1 DEF Handed
    <2> QED
      BY <1>0, <2>1, <2>2 DEF WholeInv
  <1>8. CASE Close
    <2>1. /\ pc' \in {"closing", "closed"} /\ UNCHANGED <<id, second, got>>
          /\ ended' = ended \/ ended' = FALSE
          /\ docs' = docs \/ docs' = <<>>
      BY <1>8 DEF Close, CloseCursor, Shut, Await
    <2> QED
      BY <1>0, <2>1 DEF WholeInv
  <1>9. CASE KillReturns
    <2>1. /\ pc \in {"ending", "closing"} /\ id > 0 /\ docs' = <<>>
          /\ pc' = IF pc = "closing" THEN "closed" ELSE "idle"
          /\ ended' = (pc = "ending") /\ (pc = "ending" => second)
          /\ UNCHANGED <<id, second, got>>
      BY <1>9, <1>c DEF KillReturns, Shut, Await
    <2>2. Handed' = Len(got)
      BY <2>1 DEF Handed
    <2> QED
      BY <1>0, <2>1, <2>2 DEF WholeInv
  <1>10. CASE ServeFind
    <2> DEFINE all == [i \in 1..Size |-> i]
    <2>1. all \in Seq(Nat) /\ Len(all) = Size /\ nextId \in Nat \ {0}
      BY <1>a DEF Shape
    <2>2. PICK k \in 0..Len(all) :
              Served(nextId, all, k) /\ (msg'.id # 0 => k = Least(batch, Room))
      <3>1. Return(nextId, all, Least(batch, Room))
        BY <1>10 DEF ServeFind
      <3> HIDE DEF all
      <3>2. Least(batch, Room) \in Nat
        BY <1>a, SettingsAssumption DEF Shape, Settings, Least
      <3> QED
        BY <2>1, <3>1, <3>2, ReturnServed
    <2> HIDE DEF all
    <2>3. /\ pc = "find" /\ pc' = pc /\ UNCHANGED <<id, docs, second, got, ended>>
          /\ Len(msg'.docs) = k
          /\ IF msg'.id = 0 THEN k = Size
             ELSE msg'.id = nextId /\ k = Least(batch, Room) /\ Len(open'[nextId]) = Size - k
      BY <1>10, <1>c, <2>1, <2>2 DEF ServeFind, objVars, Served
    <2>4. k # 0 => msg'.docs # <<>>
      BY <2>3
    <2>5. IF msg'.id = 0 THEN Len(msg'.docs) = Size
          ELSE msg'.docs # <<>> /\ Follows(msg.id, Len(msg.docs))'
      BY <1>0, <1>a, <2>3 DEF Follows
    <2> QED
      BY <1>0, <2>3, <2>5 DEF WholeInv
  <1>11. CASE ServeGetMore
    <2>1. pc = "more" /\ msg.op = "getMore" /\ msg.id = id /\ id > 0 /\ pc' = pc
          /\ ~Answered /\ UNCHANGED <<id, second, got, ended>>
      BY <1>11, <1>c DEF ServeGetMore, Answered, objVars
    <2>2. CASE msg' = [op |-> "error"] /\ UNCHANGED open
      BY <1>0, <2>1, <2>2 DEF WholeInv, Answered, Follows
    <2>3. CASE id \in DOMAIN open /\ Return(id, open[id], Room)
      <3> DEFINE left == open[id]
      <3>1. left \in Seq(Nat) /\ Len(left) \in Nat
        BY <2>3 DEF Shape
      <3>2. PICK k \in 0..Len(left) : Served(id, left, k) /\ (msg'.id # 0 => k = Room)
        BY <1>a, <1>c, <2>1, <2>3, <3>1, ReturnServed
      <3>3. Len(left) = Size - Len(got) /\ Size <= Len(got) + Room
        BY <1>b, <2>1, <2>3 DEF Follows
      <3> HIDE DEF left
      <3>4. Len(msg'.docs) = k /\ (msg'.id = 0 => k = Len(left)) /\ Answered'
        BY <2>1, <3>2 DEF Served, Answered
      <3>5. Len(got) + Len(msg'.docs) = Size
        BY <1>a, <3>1, <3>2, <3>3, <3>4
      <3> QED
        BY <1>0, <2>1, <3>4, <3>5 DEF WholeInv
    <2> QED
      BY <1>11, <2>1, <2>2, <2>3 DEF ServeGetMore
  \* A cursor may go; nothing else happens to the program.
  <1>12. CASE ServeKill \/ Refuse \/ Expire \/ UNCHANGED vars
    <2>1. /\ UNCHANGED <<id, second, got, docs, ended, pc>>
          /\ \A c \in DOMAIN open' : c \in DOMAIN open /\ open'[c] = open[c]
          /\ \/ UNCHANGED msg
             \/ ~Answered /\ ~Answered'
             \/ pc \in {"ending", "closing"}
      <3>1. CASE ServeKill
        BY <1>c, <3>1 DEF ServeKill, objVars, Unopened
      <3>2. CASE Refuse
        BY <3>2 DEF Refuse, objVars, srvVars, Answered
      <3>3. CASE Expire
        BY <3>3 DEF Expire, objVars, Unopened
      <3> QED
        BY <1>12, <3>1, <3>2, <3>3 DEF vars
    <2>2. Handed' = Handed
      BY <2>1 DEF Handed
    <2> QED
      BY <1>0, <2>1, <2>2 DEF WholeInv, Follows, Answered
  <1> QED
    BY <1>1, <1>2, <1>3, <1>4, <1>5, <1>6, <1>7, <1>8, <1>9, <1>10, <1>11, <1>12 DEF Next

\* An iteration that ends without an exception has given the program the whole
\* result, whenever the first batch is not empty by request and two replies can
\* carry it (cursor.py:191-195), for any size of results, limits and batches.
THEOREM CompleteCorrect == Spec => []Complete
  <1>1. Init => Shape /\ WholeInv
    BY ShapeInit DEF Init, WholeInv
  <1>2. Shape /\ WholeInv /\ [Next]_vars => (Shape /\ WholeInv)'
    BY ShapeStep, WholeStep
  <1>3. WholeInv => Complete
    BY DEF WholeInv, Complete
  <1> QED
    BY <1>1, <1>2, <1>3, PTL DEF Spec
=============================================================================
