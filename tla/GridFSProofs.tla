---------------------------- MODULE GridFSProofs ----------------------------
(***************************************************************************)
(* What a bucket keeps to, for any number of tasks, files, sizes and       *)
(* limits, and whatever is refused, given up or carried out late.          *)
(***************************************************************************)
EXTENDS GridFS, FiniteSetTheorems, TLAPS

-----------------------------------------------------------------------------
(* The inductive invariant                                                 *)

\* A file document names f, or did.
Named(f) == f \in files \cup removed
Used(f) == f \in Ids /\ meta[f] # Unused
Whole(f) == \A n \in NumbersOf(f) : <<f, n>> \in chunks
Empty(f) == \A k \in chunks : k[1] # f

Store ==
    /\ files \subseteq Ids /\ removed \subseteq Ids /\ files \cap removed = {}
    /\ \A f \in files \cup removed : Used(f)
    /\ \A k \in chunks :
        Used(k[1]) /\ k[2] \in NumbersOf(k[1]) /\ k = <<k[1], k[2]>> /\ ~TooLarge(k[1])
    /\ ~dropped => \A f \in files : Whole(f)
    /\ deleted \subseteq removed /\ \A f \in deleted : Empty(f)

\* What a request that the server may carry out asks for: the document of a file
\* comes after all of its chunks, its chunks go after the document.
PutMsg(m) == m.op \in {"insertChunks", "insertFile"}
Sound(m) ==
    /\ PutMsg(m) => Used(m.id) /\ ~Named(m.id)
    /\ m.op = "insertChunks" => m.ns \subseteq NumbersOf(m.id)
    /\ m.op = "insertFile" => dropped \/ Whole(m.id)
    /\ m.op = "deleteChunks" => m.id \in removed
    /\ m.op = "clearChunks" => dropped

\* A file is put once: one task, or one late request, is at it.
Putting(p) == pc[p] \in {"insertChunks", "insertFile"}
Once ==
    /\ \A p, q \in Procs : Putting(p) /\ Putting(q) /\ target[p] = target[q] => p = q
    /\ \A m \in late, p \in Procs : PutMsg(m) /\ Putting(p) => m.id # target[p]
    /\ \A m, k \in late : PutMsg(m) /\ PutMsg(k) /\ m.id = k.id => m = k

\* Where each operation is, with its request, its reply or the error.
Asks(p) == IsRequest(msg[p]) => msg[p].op = pc[p]
Puts(p) ==
    LET f == target[p] IN
    /\ Putting(p) => Used(f) /\ (IsRequest(msg[p]) => msg[p].id = f)
    /\ pc[p] = "insertChunks" =>
        /\ ~Named(f) /\ data[p] \subseteq NumbersOf(f)
        /\ dropped \/ \A n \in data[p] : <<f, n>> \in chunks
        /\ msg[p].op = "reply" =>
             /\ msg[p].ns \subseteq NumbersOf(f)
             /\ dropped \/ \A n \in msg[p].ns : <<f, n>> \in chunks
    /\ pc[p] = "insertFile" /\ msg[p].op = "reply" => Named(f)
Deletes(p) ==
    LET f == target[p] IN
    /\ pc[p] = "deleteFile" =>
        /\ f \in Ids /\ (IsRequest(msg[p]) => msg[p].id = f)
        /\ msg[p].op = "reply" => msg[p].id = NoId \/ (msg[p].id = f /\ f \in removed)
    /\ pc[p] = "deleteChunks" =>
        /\ f \in removed /\ (IsRequest(msg[p]) => msg[p].id = f)
        /\ msg[p].op = "reply" => Empty(f)
    /\ pc[p] \in {"clearChunks", "clearFiles"} => dropped
Finds(p) ==
    LET f == target[p] IN
    /\ pc[p] = "findName" /\ msg[p].op = "reply" => msg[p].id = NoId \/ Named(msg[p].id)
    /\ pc[p] = "findFile" =>
        /\ f \in Ids /\ (IsRequest(msg[p]) => msg[p].id = f)
        /\ msg[p].op = "reply" => msg[p].id = NoId \/ (msg[p].id = f /\ Named(f))

\* What two replies of an aggregate bring.
FirstOf(f) == {n \in NumbersOf(f) : n < Least(FirstBatch, PerReply(f))}
RestOf(f) == NumbersOf(f) \ FirstOf(f)
Gone(f) == f \in removed \/ dropped
Fits(f) == Cardinality(NumbersOf(f)) <= TwoReplies(f)
Reads(p) ==
    LET f == target[p] IN
    /\ pc[p] = "aggregate" =>
        /\ Named(f) /\ (IsRequest(msg[p]) => msg[p].id = f)
        /\ msg[p].op = "reply" =>
            /\ msg[p].ns \subseteq NumbersOf(f) /\ msg[p].rest \subseteq NumbersOf(f)
            /\ Gone(f) \/ (msg[p].ns = FirstOf(f) /\ msg[p].rest = RestOf(f))
    /\ pc[p] = "getMore" =>
        /\ Named(f) /\ data[p] \subseteq NumbersOf(f)
        /\ Gone(f) \/ data[p] = FirstOf(f)
        /\ IsRequest(msg[p]) =>
            /\ msg[p].id = f /\ msg[p].rest \subseteq NumbersOf(f)
            /\ Gone(f) \/ msg[p].rest = RestOf(f)
        /\ msg[p].op = "reply" =>
            msg[p].ns \subseteq NumbersOf(f) /\ (Gone(f) \/ ~Fits(f) \/ msg[p].ns = RestOf(f))
    /\ pc[p] = "idle" /\ outcome[p] \in {"read", "mismatch"} =>
        /\ Named(f) /\ (Gone(f) \/ ~Fits(f) \/ data[p] = NumbersOf(f))
        /\ outcome[p] = "read" /\ check[p] /\ meta[f].sha1 => data[p] = NumbersOf(f)

\* Without a fault, chunks belong to a document, to the put or to a delete, and
\* the one request that fails is the first of a put whose chunks are too large.
KeptBy(p, f) ==
    /\ target[p] = f
    /\ \/ Putting(p) /\ ~Named(f)
       \/ pc[p] = "deleteFile" /\ msg[p].op = "reply" /\ msg[p].id = f
       \/ pc[p] = "deleteChunks"
Kept(f) == f \in files \/ \E p \in Procs : KeptBy(p, f)
Rejected(p) == pc[p] = "insertChunks" /\ TooLarge(target[p])
Tidy ==
    faults = 0 =>
        /\ late = {} /\ \A p \in Procs : msg[p].op = "error" => Rejected(p)
        /\ dropped \/ \A k \in chunks : Kept(k[1])

TaskInv(p) ==
    /\ Asks(p) /\ Puts(p) /\ Deletes(p) /\ Finds(p) /\ Reads(p)
    /\ IsRequest(msg[p]) => Sound(msg[p])
Inv ==
    /\ TypeOK /\ Store /\ Once
    /\ \A m \in late : Sound(m)
    /\ \A p \in Procs : TaskInv(p)
    /\ Tidy
-----------------------------------------------------------------------------
(* Numbers of chunks                                                       *)

\* As many chunks as cover the data, numbered from 0.
LEMMA NumbersAre ==
    ASSUME NEW s \in Nat, NEW c \in Nat \ {0}
    PROVE  /\ CeilDiv(s, c) \in Nat /\ Numbers(s, c) = 0..(CeilDiv(s, c) - 1)
           /\ Numbers(s, c) \subseteq Nat /\ IsFiniteSet(Numbers(s, c))
           /\ Cardinality(Numbers(s, c)) = CeilDiv(s, c)
  <1>1. CeilDiv(s, c) \in Nat
    BY DEF CeilDiv
  <1> DEFINE k == CeilDiv(s, c)
  <1>2. k \in Nat /\ Numbers(s, c) = 0..(k - 1)
    BY <1>1 DEF Numbers
  <1> HIDE DEF k
  <1>3. IsFiniteSet(0..(k - 1)) /\ Cardinality(0..(k - 1)) = k
    BY <1>2, FS_Interval
  <1> QED
    BY <1>2, <1>3 DEF k

\* There may be room for no chunk at all, but not for less.
LEMMA MaxAmountNat ==
    ASSUME NEW c \in Nat \ {0}
    PROVE  MaxAmount(c) \in Nat
  BY SizesAssumption DEF MaxAmount, CeilDiv

\* A set lost an element.
LEMMA Smaller ==
    ASSUME NEW s, IsFiniteSet(s), NEW t, t \subseteq s, NEW x \in s, x \notin t
    PROVE  Cardinality(t) \in Nat /\ Cardinality(s) \in Nat /\ Cardinality(t) < Cardinality(s)
  <1>1. IsFiniteSet(t) /\ Cardinality(t) <= Cardinality(s) /\ Cardinality(t) # Cardinality(s)
    BY FS_Subset
  <1>2. Cardinality(t) \in Nat /\ Cardinality(s) \in Nat
    BY <1>1, FS_CardinalityType
  <1> QED
    BY <1>1, <1>2

\* The n least of a set of at most n numbers are all of them.
LEMMA FrontAll ==
    ASSUME NEW s, s \subseteq Nat, IsFiniteSet(s), NEW n \in Nat, Cardinality(s) <= n
    PROVE  Front(s, n) = s
  <1>1. ASSUME NEW i \in s PROVE Cardinality({j \in s : j < i}) < n
    <2> DEFINE b == {j \in s : j < i}
    <2>1. b \subseteq s /\ i \notin b
      OBVIOUS
    <2> HIDE DEF b
    <2>2. Cardinality(b) \in Nat /\ Cardinality(s) \in Nat /\ Cardinality(b) < Cardinality(s)
      BY <2>1, Smaller
    <2>3. Cardinality(b) < n
      BY <2>2
    <2> QED
      BY <2>3 DEF b
  <1> QED
    BY <1>1 DEF Front

\* The n least of 0 .. k-1 are those below n.
LEMMA FrontOfNumbers ==
    ASSUME NEW k \in Nat, NEW n \in Nat
    PROVE  Front(0..(k - 1), n) = {i \in 0..(k - 1) : i < n}
  <1>1. ASSUME NEW i \in 0..(k - 1) PROVE Cardinality({j \in 0..(k - 1) : j < i}) = i
    <2>1. {j \in 0..(k - 1) : j < i} = 0..(i - 1)
      OBVIOUS
    <2>3. Cardinality(0..(i - 1)) = i
      <3>1. CASE i = 0
        <4> QED
          BY <3>1, FS_EmptySet
      <3>2. CASE i # 0
        <4>1. 0 <= i - 1 /\ (i - 1) - 0 + 1 = i
          BY <3>2
        <4>2. Cardinality(0..(i - 1)) = (i - 1) - 0 + 1
          <5> HIDE <1>1
          <5> DEFINE b == i - 1
          <5>1. b \in Int /\ 0 <= b
            BY <4>1
          <5> HIDE DEF b
          <5>2. Cardinality(0..b) = b - 0 + 1
            BY <5>1, FS_Interval
          <5> QED
            BY <5>2 DEF b
        <4> QED
          BY <4>2
      <3> QED
        BY <3>1, <3>2
    <2> QED
      BY <2>1, <2>3
  <1> QED
    BY <1>1 DEF Front

\* Numbers of the chunks of a file that was put, in a state of the bucket.
LEMMA NumbersOfFile ==
    ASSUME TypeOK, NEW f \in Ids
    PROVE  /\ meta[f].size \in Nat /\ meta[f].chunk \in Nat \ {0}
           /\ PerReply(f) \in Nat /\ Least(FirstBatch, PerReply(f)) \in Nat
           /\ NumbersOf(f) \subseteq Nat /\ IsFiniteSet(NumbersOf(f))
           /\ CeilDiv(meta[f].size, meta[f].chunk) \in Nat
           /\ NumbersOf(f) = 0..(CeilDiv(meta[f].size, meta[f].chunk) - 1)
           /\ Cardinality(NumbersOf(f)) = CeilDiv(meta[f].size, meta[f].chunk)
  <1>1. meta[f].size \in Nat /\ meta[f].chunk \in Nat \ {0}
    <2>1. meta[f] \in [size : Sizes \cup {0}, chunk : ChunkSizes \cup {1}, sha1 : BOOLEAN]
      BY DEF TypeOK
    <2>2. meta[f].size \in Sizes \cup {0} /\ meta[f].chunk \in ChunkSizes \cup {1}
      BY <2>1
    <2>3. \A x \in Sizes : x \in Nat
      BY SizesAssumption
    <2>4. \A x \in ChunkSizes : x \in Nat \ {0}
      BY SizesAssumption
    <2> QED
      BY <2>2, <2>3, <2>4
  <1>2. PerReply(f) \in Nat
    <2> DEFINE d == meta[f].chunk + Overhead
    <2>1. d \in Nat \ {0} /\ Limit \in Nat
      BY <1>1, SizesAssumption
    <2> HIDE DEF d
    <2>2. Limit \div d \in Nat
      BY <2>1
    <2> QED
      BY <2>2 DEF PerReply, d
  <1>3. Least(FirstBatch, PerReply(f)) \in Nat
    BY <1>2, SizesAssumption DEF Least
  <1> QED
    BY <1>1, <1>2, <1>3, NumbersAre DEF NumbersOf

\* The first reply of an aggregate on a whole file.
LEMMA FirstReply ==
    ASSUME TypeOK, NEW f \in Ids
    PROVE  Front(NumbersOf(f), Least(FirstBatch, PerReply(f))) = FirstOf(f)
  BY NumbersOfFile, FrontOfNumbers DEF FirstOf

\* The second reply brings the rest of a file that fits in two.
LEMMA SecondReply ==
    ASSUME TypeOK, NEW f \in Ids, Fits(f)
    PROVE  Front(RestOf(f), PerReply(f)) = RestOf(f)
  <1> DEFINE k == CeilDiv(meta[f].size, meta[f].chunk)
             n == Least(FirstBatch, PerReply(f))
             m == PerReply(f)
  <1>1. /\ k \in Nat /\ n \in Nat /\ m \in Nat /\ k <= n + m
        /\ NumbersOf(f) = 0..(k - 1)
        /\ RestOf(f) = NumbersOf(f) \ {i \in NumbersOf(f) : i < n}
    BY NumbersOfFile DEF Fits, TwoReplies, RestOf, FirstOf
  <1> HIDE DEF k, n, m
  <1>2. RestOf(f) = n..(k - 1)
    BY <1>1
  <1>3. IsFiniteSet(n..(k - 1)) /\ Cardinality(n..(k - 1)) <= m
    <2>1. DEFINE j == k - 1
    <2>2. j \in Int /\ j - n + 1 <= m
      BY <1>1
    <2> HIDE DEF j
    <2>3. IsFiniteSet(n..j) /\ Cardinality(n..j) = IF n > j THEN 0 ELSE j - n + 1
      BY <1>1, <2>2, FS_Interval
    <2>4. Cardinality(n..j) <= m
      BY <1>1, <2>2, <2>3
    <2> QED
      BY <2>3, <2>4 DEF j
  <1>5. Front(n..(k - 1), m) = n..(k - 1)
    BY <1>1, <1>3, FrontAll
  <1> QED
    BY <1>2, <1>5 DEF m

-----------------------------------------------------------------------------
(* What a step does to the tasks it is not about                           *)

\* What any step may do to the collections.
Frame ==
    /\ \A f \in Ids : Used(f) => meta'[f] = meta[f]
    /\ dropped => dropped'
    /\ removed \subseteq removed'
    /\ \A f \in files : f \in files' \/ f \in removed'
    /\ \A k \in chunks : k \in chunks' \/ k[1] \in removed \/ dropped'
    /\ \A f \in removed : Empty(f) => Empty(f)'

\* A file that was put stays as it was put.
LEMMA FrameFile ==
    ASSUME Frame, NEW f \in Ids, Used(f)
    PROVE  /\ Used(f)' /\ (Named(f) => Named(f)')
           /\ NumbersOf(f)' = NumbersOf(f) /\ PerReply(f)' = PerReply(f)
           /\ FirstOf(f)' = FirstOf(f) /\ RestOf(f)' = RestOf(f) /\ Fits(f)' = Fits(f)
           /\ meta'[f] = meta[f] /\ TooLarge(f)' = TooLarge(f)
           /\ Gone(f) => Gone(f)'
           /\ ~Gone(f)' => \A n : <<f, n>> \in chunks => <<f, n>> \in chunks'
  <1>1. meta'[f] = meta[f]
    BY DEF Frame
  <1>2. Used(f)' /\ (Named(f) => Named(f)')
    BY DEF Frame, Used, Named
  <1>3. NumbersOf(f)' = NumbersOf(f) /\ PerReply(f)' = PerReply(f)
    BY <1>1 DEF NumbersOf, PerReply
  <1>7. TooLarge(f)' = TooLarge(f)
    BY <1>1 DEF TooLarge, FirstGroup
  <1>4. FirstOf(f)' = FirstOf(f) /\ RestOf(f)' = RestOf(f) /\ Fits(f)' = Fits(f)
    BY <1>3 DEF FirstOf, RestOf, Fits, TwoReplies
  <1>5. Gone(f) => Gone(f)'
    BY DEF Gone, Frame
  <1>6. ~Gone(f)' => \A n : <<f, n>> \in chunks => <<f, n>> \in chunks'
    BY DEF Gone, Frame
  <1> QED
    BY <1>1, <1>2, <1>3, <1>4, <1>5, <1>6, <1>7

\* Whole and Empty files stay so, unless they go.
LEMMA FrameWhole ==
    ASSUME Frame, NEW f \in Ids, Used(f), Whole(f)
    PROVE  dropped' \/ f \in removed \/ Whole(f)'
  BY FrameFile DEF Whole, Frame

SameTask(q) ==
    /\ pc'[q] = pc[q] /\ target'[q] = target[q] /\ msg'[q] = msg[q]
    /\ data'[q] = data[q] /\ outcome'[q] = outcome[q] /\ check'[q] = check[q]

\* A request that is not carried out stays one that may be, unless it is to put
\* a file that another one has put.
LEMMA SameRequest ==
    ASSUME TypeOK, Store, Frame, NEW m \in Messages, Sound(m),
           PutMsg(m) => ~Named(m.id)'
    PROVE  Sound(m)'
  <1>1. PutMsg(m) => Used(m.id)' /\ NumbersOf(m.id)' = NumbersOf(m.id)
    BY FrameFile DEF Sound, Used
  <1>2. m.op = "insertFile" => dropped' \/ Whole(m.id)'
    <2> SUFFICES ASSUME m.op = "insertFile", ~dropped' PROVE Whole(m.id)'
      OBVIOUS
    <2>1. Used(m.id) /\ m.id \in Ids /\ ~Named(m.id) /\ Whole(m.id)
      BY DEF Sound, PutMsg, Used, Frame
    <2> QED
      BY <2>1, FrameWhole DEF Named
  <1> QED
    BY <1>1, <1>2 DEF Sound, PutMsg, Frame

LEMMA SameTaskKept ==
    ASSUME TypeOK, Store, Frame, NEW q \in Procs, SameTask(q), TaskInv(q),
           Putting(q) /\ ~Named(target[q]) => ~Named(target[q])'
    PROVE  TaskInv(q)'
  <1> USE DEF SameTask
  <1>0. msg[q] \in Messages
    BY DEF TypeOK
  <1>1. Asks(q)'
    BY DEF TaskInv, Asks
  <1>2. Puts(q)'
    <2> SUFFICES ASSUME Putting(q) PROVE Puts(q)'
      BY DEF Puts, Putting
    <2>1. Used(target[q]) /\ target[q] \in Ids
      BY DEF TaskInv, Puts, Used
    <2>2. Used(target[q])' /\ NumbersOf(target[q])' = NumbersOf(target[q])
      BY <2>1, FrameFile
    <2>4. ~Named(target[q]) /\ ~dropped' =>
              ~dropped /\ \A n : <<target[q], n>> \in chunks => <<target[q], n>> \in chunks'
      BY DEF Frame, Named
    <2>5. Named(target[q]) => Named(target[q])'
      BY <2>1, FrameFile
    <2> QED
      BY <2>2, <2>4, <2>5 DEF TaskInv, Puts
  <1>3. Deletes(q)'
    BY DEF TaskInv, Deletes, Frame
  <1>4. Finds(q)'
    <2>1. \A f : Named(f) => Named(f)'
      BY DEF Named, Frame
    <2> QED
      BY <2>1 DEF TaskInv, Finds
  <1>5. Reads(q)'
    <2> DEFINE f == target[q]
    <2> SUFFICES ASSUME Named(f) PROVE Reads(q)'
      BY DEF TaskInv, Reads
    <2>1. f \in Ids /\ Used(f)
      BY DEF Named, Store
    <2>2. /\ Named(f)' /\ NumbersOf(f)' = NumbersOf(f)
          /\ FirstOf(f)' = FirstOf(f) /\ RestOf(f)' = RestOf(f) /\ Fits(f)' = Fits(f)
          /\ meta'[f] = meta[f] /\ (Gone(f) => Gone(f)')
      BY <2>1, FrameFile
    <2> QED
      BY <2>2 DEF TaskInv, Reads
  <1>6. (IsRequest(msg[q]) => Sound(msg[q]))'
    <2>1. IsRequest(msg[q]) /\ PutMsg(msg[q]) => Putting(q) /\ msg[q].id = target[q]
      BY DEF TaskInv, Asks, Puts, Putting, PutMsg
    <2>2. IsRequest(msg[q]) => Sound(msg[q])'
      BY <1>0, <2>1, SameRequest DEF Sound, TaskInv
    <2> QED
      BY <2>2
  <1> QED
    BY <1>1, <1>2, <1>3, <1>4, <1>5, <1>6 DEF TaskInv

-----------------------------------------------------------------------------
(* A request is carried out                                                *)

\* What it does to the collections.
LEMMA ExecuteStep ==
    ASSUME TypeOK, Store, NEW m \in Messages, Sound(m), Accepted(m), Execute(m),
           UNCHANGED <<meta, deleted, dropped>>
    PROVE  /\ Frame /\ Store'
           /\ \A f : Named(f)' => Named(f) \/ (m.op = "insertFile" /\ f = m.id)
           /\ \A k \in chunks' : k \in chunks \/ (m.op = "insertChunks" /\ k[1] = m.id)
  <1> USE DEF Execute
  <1>1. m.op = "insertFile" => m.id \in Ids /\ m.id \notin files \cup removed
    BY DEF Sound, PutMsg, Used, Named
  <1>4. Frame
    <2>1. \A k \in chunks : k \in chunks' \/ k[1] \in removed \/ dropped'
      BY DEF Sound
    <2>2. ASSUME NEW f \in removed, Empty(f) PROVE Empty(f)'
      BY <2>2 DEF Empty, Sound, PutMsg, Named
    <2> QED
      BY <2>1, <2>2 DEF Frame
  <1>5. \A f : Named(f)' => Named(f) \/ (m.op = "insertFile" /\ f = m.id)
    BY DEF Named
  <1>7. Store'
    <2>1. files' \subseteq Ids /\ removed' \subseteq Ids /\ files' \cap removed' = {}
      BY <1>1 DEF Store
    <2>2. \A f : /\ Used(f)' = Used(f) /\ NumbersOf(f)' = NumbersOf(f)
                 /\ TooLarge(f)' = TooLarge(f)
      BY DEF Used, NumbersOf, TooLarge, FirstGroup
    <2>3. \A f \in files' \cup removed' : Used(f)'
      BY <2>2 DEF Store, Sound, PutMsg
    <2>4. \A k \in chunks' : /\ Used(k[1])' /\ k[2] \in NumbersOf(k[1])'
                             /\ k = <<k[1], k[2]>> /\ ~TooLarge(k[1])'
      BY <2>2 DEF Store, Sound, PutMsg, Accepted
    <2>5. ASSUME ~dropped', NEW f \in files' PROVE Whole(f)'
      <3>1. f \notin removed /\ Used(f) /\ f \in Ids
        BY <2>1, <2>2, <2>3
      <3>2. Whole(f)
        BY <2>5 DEF Store, Sound
      <3> QED
        BY <1>4, <2>5, <3>1, <3>2, FrameWhole
    <2>6. deleted' \subseteq removed' /\ \A f \in deleted' : Empty(f)'
      BY <1>4 DEF Store, Frame
    <2> QED
      BY <2>1, <2>3, <2>4, <2>5, <2>6 DEF Store
  <1> QED
    BY <1>4, <1>5, <1>7

\* What it does to the tasks that did not send it, and to the requests that are
\* still to come.
LEMMA ExecuteOthers ==
    ASSUME Inv, NEW m \in Messages, Sound(m), Accepted(m), Execute(m),
           UNCHANGED <<meta, deleted, dropped>>,
           \A k \in late' : k \in late /\ (PutMsg(m) /\ PutMsg(k) => m.id # k.id)
    PROVE  /\ \A k \in late' : Sound(k)'
           /\ \A q \in Procs : SameTask(q) /\ (PutMsg(m) /\ Putting(q) => m.id # target[q])
                => TaskInv(q)'
  <1>1. TypeOK /\ Store
    BY DEF Inv
  <1>2. Frame /\ \A f : Named(f)' => Named(f) \/ (m.op = "insertFile" /\ f = m.id)
    BY <1>1, ExecuteStep
  <1>3. ASSUME NEW k \in late' PROVE Sound(k)'
    <2>1. k \in Messages /\ Sound(k) /\ (PutMsg(m) /\ PutMsg(k) => m.id # k.id)
      BY DEF Inv, TypeOK
    <2>2. PutMsg(k) => ~Named(k.id)'
      BY <1>2, <2>1 DEF Sound, PutMsg
    <2> QED
      BY <1>1, <1>2, <2>1, <2>2, SameRequest
  <1>4. ASSUME NEW q \in Procs, SameTask(q), PutMsg(m) /\ Putting(q) => m.id # target[q]
        PROVE  TaskInv(q)'
    <2>1. Putting(q) /\ ~Named(target[q]) => ~Named(target[q])'
      BY <1>2, <1>4 DEF PutMsg, SameTask
    <2>2. TaskInv(q)
      BY DEF Inv
    <2> QED
      BY <1>1, <1>2, <1>4, <2>1, <2>2, SameTaskKept
  <1> QED
    BY <1>3, <1>4

\* Requests and tasks as before, or less of them.
LEMMA OnceKept ==
    ASSUME Once, late' \subseteq late, UNCHANGED <<pc, target>>
    PROVE  Once'
  BY DEF Once, Putting

LEMMA ServeLateStep ==
    ASSUME Inv, ServeLate
    PROVE  Inv'
  <1> PICK m \in late :
        /\ late' = late \ {m}
        /\ Accepted(m) /\ Execute(m)
        /\ UNCHANGED <<meta, pc, target, check, msg, data, outcome, histVars, ops, faults>>
    BY DEF ServeLate
  <1> USE DEF histVars
  <1>1. TypeOK /\ Store /\ Once /\ m \in Messages /\ Sound(m)
    BY DEF Inv, TypeOK
  <1>2. Frame /\ Store'
    BY <1>1, ExecuteStep
  <1>3. \A q \in Procs : SameTask(q) /\ (PutMsg(m) /\ Putting(q) => m.id # target[q])
    BY <1>1 DEF SameTask, Once
  <1>4. \A k \in late' : k \in late /\ (PutMsg(m) /\ PutMsg(k) => m.id # k.id)
    BY <1>1 DEF Once
  <1>5. (\A k \in late' : Sound(k)') /\ \A q \in Procs : TaskInv(q)'
    BY <1>1, <1>3, <1>4, ExecuteOthers
  <1>6. Once'
    BY <1>1, OnceKept
  <1>7. TypeOK'
    <2> QED
      BY <1>1, <1>2 DEF TypeOK, Store, Used
  <1>8. Tidy'
    BY DEF Inv, Tidy
  <1> QED
    BY <1>2, <1>5, <1>6, <1>7, <1>8 DEF Inv

-----------------------------------------------------------------------------
(* A task goes on                                                          *)

\* Only what the task is at is to be looked at.
LEMMA TaskStep ==
    ASSUME Inv, NEW p \in Procs, \A q \in Procs \ {p} : SameTask(q),
           UNCHANGED <<files, chunks, removed>>,
           \A f \in Ids : Used(f) => meta'[f] = meta[f], dropped => dropped',
           \A f \in deleted' : f \in deleted \/ (f \in removed /\ Empty(f)),
           \A m \in late' : m \in late \/ (m = msg[p] /\ IsRequest(m) /\ pc'[p] = "idle"),
           pc'[p] \in {"insertChunks", "insertFile"} =>
             (Putting(p) /\ target'[p] = target[p]) \/ (target'[p] \in Ids /\ ~Used(target'[p])),
           TypeOK', TaskInv(p)',
           faults' = 0 => faults = 0 /\ late' = late /\ (msg'[p].op = "error" => Rejected(p)'),
           faults' = 0 /\ ~dropped' =>
             \A f \in Ids \ files : ~Empty(f) /\ KeptBy(p, f) => KeptBy(p, f)'
    PROVE  Inv'
  <1>1. TypeOK /\ Store /\ Once
    BY DEF Inv
  <1>2. Frame
    BY DEF Frame, Empty
  <1>3. \A f : Named(f)' = Named(f)
    BY DEF Named
  <1>4. \A q \in Procs : TaskInv(q)'
    <2>1. ASSUME NEW q \in Procs, q # p PROVE TaskInv(q)'
      <3>1. SameTask(q) /\ (~Named(target[q]) => ~Named(target[q])')
        BY <2>1 DEF SameTask, Named
      <3> QED
        BY <1>2, <3>1, SameTaskKept DEF Inv
    <2> QED
      BY <2>1
  <1>5. \A m \in late' : Sound(m)'
    <2>1. ASSUME NEW m \in late' PROVE m \in Messages /\ Sound(m)
      BY DEF Inv, TypeOK, TaskInv
    <2>2. ASSUME NEW m \in late' PROVE PutMsg(m) => ~Named(m.id)'
      BY <1>3, <2>1 DEF Sound
    <2> QED
      BY <1>1, <1>2, <2>1, <2>2, SameRequest
  <1>6. Store'
    <2>1. \A f \in Ids : Used(f) => /\ Used(f)' /\ NumbersOf(f)' = NumbersOf(f)
                                    /\ TooLarge(f)' = TooLarge(f)
      BY <1>2, FrameFile
    <2>2. \A f \in Ids : Used(f) /\ Whole(f) => Whole(f)'
      BY <2>1 DEF Whole
    <2>4. \A f : Empty(f) => Empty(f)'
      BY DEF Empty
    <2>5. ~dropped' => \A f \in files' : Whole(f)'
      BY <1>1, <2>2 DEF Store
    <2>6. \A k \in chunks' : /\ Used(k[1])' /\ k[2] \in NumbersOf(k[1])'
                             /\ k = <<k[1], k[2]>> /\ ~TooLarge(k[1])'
      BY <1>1, <2>1 DEF Store, Used
    <2>7. deleted' \subseteq removed' /\ \A f \in deleted' : Empty(f)'
      BY <1>1, <2>4 DEF Store
    <2> QED
      BY <1>1, <2>1, <2>5, <2>6, <2>7 DEF Store
  <1>7. Once'
    <2>1. \A q \in Procs : Putting(q) => Used(target[q])
      BY DEF Inv, TaskInv, Puts
    <2>2. \A m \in late : PutMsg(m) => Used(m.id)
      BY DEF Inv, Sound
    <2>3. \A q \in Procs \ {p} : Putting(q)' = Putting(q) /\ target'[q] = target[q]
      BY DEF SameTask, Putting
    <2>4. IsRequest(msg[p]) /\ PutMsg(msg[p]) => Putting(p) /\ msg[p].id = target[p]
      BY DEF Inv, TaskInv, Asks, Puts, PutMsg, Putting
    <2>5. Putting(p)' => \/ Putting(p) /\ target'[p] = target[p]
                         \/ ~Used(target'[p])
      BY DEF Putting
    <2>6. pc'[p] = "idle" => ~Putting(p)'
      BY DEF Putting
    <2>7. ASSUME NEW q \in Procs, NEW r \in Procs, Putting(q)', Putting(r)',
                 target'[q] = target'[r]
          PROVE  q = r
      BY <1>1, <2>1, <2>3, <2>5, <2>7 DEF Once
    <2>8. ASSUME NEW m \in late', NEW q \in Procs, PutMsg(m), Putting(q)'
          PROVE  m.id # target'[q]
      BY <1>1, <2>2, <2>3, <2>4, <2>5, <2>6, <2>8 DEF Once
    <2>9. ASSUME NEW m \in late', NEW k \in late', PutMsg(m), PutMsg(k), m.id = k.id
          PROVE  m = k
      BY <1>1, <2>4, <2>9 DEF Once
    <2> QED
      BY <2>7, <2>8, <2>9 DEF Once
  <1>8. Tidy'
    <2> SUFFICES ASSUME faults' = 0 PROVE Tidy'
      BY DEF Tidy
    <2>1. late' = {} /\ \A q \in Procs : msg'[q].op = "error" => Rejected(q)'
      <3>1. ASSUME NEW q \in Procs \ {p}, msg'[q].op = "error" PROVE Rejected(q)'
        <4>1. SameTask(q) /\ Rejected(q)
          BY <3>1 DEF Inv, Tidy, SameTask
        <4>2. target[q] \in Ids /\ Used(target[q])
          BY <4>1 DEF Rejected, Inv, TaskInv, Puts, Putting, Used
        <4>3. \A f \in Ids : Used(f) => TooLarge(f)' = TooLarge(f)
          BY <1>2, FrameFile
        <4> QED
          BY <4>1, <4>2, <4>3 DEF Rejected, SameTask
      <3> QED
        BY <3>1 DEF Inv, Tidy
    <2>2. ASSUME ~dropped', NEW k \in chunks' PROVE Kept(k[1])'
      <3>1. Kept(k[1]) /\ k[1] \in Ids
        BY <2>2 DEF Inv, Tidy, Store, Used
      <3>3. ASSUME k[1] \notin files, NEW q \in Procs, KeptBy(q, k[1]) PROVE KeptBy(q, k[1])'
        <4>1. CASE q = p
          BY <2>2, <3>1, <3>3, <4>1 DEF Empty
        <4>2. CASE q # p
          BY <1>3, <3>3, <4>2 DEF KeptBy, SameTask, Putting
        <4> QED
          BY <4>1, <4>2
      <3> QED
        BY <3>1, <3>3 DEF Kept
    <2> QED
      BY <2>1, <2>2 DEF Tidy
  <1> QED
    BY <1>4, <1>5, <1>6, <1>7, <1>8 DEF Inv

-----------------------------------------------------------------------------
(* Every step of a task                                                    *)

\* A request or a reply is one.
LEMMA MessageType ==
    ASSUME NEW o \in Requests \cup {"none", "reply", "error"}, NEW f \in Ids \cup {NoId},
           NEW s \in SUBSET Nat, NEW r \in SUBSET Nat
    PROVE  Message(o, f, s, r) \in Messages
  BY DEF Message, Messages

\* The least of a set are in it.
LEMMA FrontIn ==
    ASSUME NEW s, NEW n
    PROVE  Front(s, n) \subseteq s
  BY DEF Front

\* The next group of chunks, or the document of a file that has all of them.
LEMMA ChunksStoredStep ==
    ASSUME Inv, NEW p \in Procs, ChunksStored(p)
    PROVE  Inv'
  <1> USE DEF ChunksStored, Send, Ask, Insert, More, Replied, srvVars, histVars
  <1>1. TypeOK /\ Store /\ TaskInv(p) /\ msg[p] \in Messages
    BY DEF Inv, TypeOK
  <1> DEFINE f == target[p]
             all == data[p] \cup msg[p].ns
             rest == NumbersOf(f) \ all
             group == Front(rest, MaxAmount(meta[f].chunk))
  <1>a. /\ f \in Ids /\ Used(f) /\ ~Named(f) /\ all \subseteq NumbersOf(f)
        /\ dropped \/ \A n \in all : <<f, n>> \in chunks
    BY <1>1 DEF TaskInv, Puts, Putting, Used
  <1>b. /\ NumbersOf(f) \subseteq Nat /\ IsFiniteSet(NumbersOf(f))
        /\ meta[f].chunk \in Nat \ {0} /\ MaxAmount(meta[f].chunk) \in Nat
    BY <1>1, <1>a, NumbersOfFile, MaxAmountNat
  <1>c. group \subseteq rest /\ rest \subseteq NumbersOf(f)
    BY FrontIn
  <1>d. \/ /\ rest # {} /\ pc'[p] = "insertChunks"
           /\ msg'[p] = Message("insertChunks", f, group, {})
        \/ /\ rest = {} /\ pc'[p] = "insertFile"
           /\ msg'[p] = Message("insertFile", f, {}, {})
    <2>1. CASE rest # {}
      <3>1. msg'[p] = Message("insertChunks", f, group, {})
        BY <1>1, <2>1 DEF TypeOK
      <3>2. pc'[p] = Message("insertChunks", f, group, {}).op
        BY <1>1, <2>1 DEF TypeOK
      <3> QED
        BY <2>1, <3>1, <3>2 DEF Message
    <2>2. CASE rest = {}
      <3>1. msg'[p] = Message("insertFile", f, {}, {})
        BY <1>1, <2>2 DEF TypeOK
      <3>2. pc'[p] = Message("insertFile", f, {}, {}).op
        BY <1>1, <2>2 DEF TypeOK
      <3> QED
        BY <2>2, <3>1, <3>2 DEF Message
    <2> QED
      BY <2>1, <2>2
  <1>g. NumbersOf(f)' = NumbersOf(f) /\ Used(f)' /\ ~Named(f)'
    BY <1>a DEF NumbersOf, Used, Named
  <1>2. TypeOK'
    <2>1. pc' \in [Procs -> Requests \cup {"idle"}] /\ target' \in [Procs -> Ids \cup {NoId}]
      BY <1>1 DEF TypeOK, Requests, Message
    <2>2. msg' \in [Procs -> Messages]
      <3>1. msg'[p] \in Messages
        <4>1. group \in SUBSET Nat /\ {} \in SUBSET Nat
          BY <1>b, <1>c
        <4> HIDE DEF f, all, rest, group
        <4> QED
          BY <1>a, <1>d, <4>1, MessageType DEF Requests
      <3> QED
        BY <1>1, <3>1 DEF TypeOK
    <2>3. data' \in [Procs -> SUBSET Nat]
      BY <1>1, <1>a, <1>b DEF TypeOK
    <2>5. \A k \in chunks' : k[1] \in Ids /\ k[2] \in NumbersOf(k[1])'
      BY <1>1 DEF TypeOK, NumbersOf
    <2> QED
      BY <1>1, <2>1, <2>2, <2>3, <2>5 DEF TypeOK
  <1>3. \A q \in Procs \ {p} : SameTask(q)
    BY <1>1 DEF TypeOK, SameTask
  <1>4. TaskInv(p)'
    <2>1. Asks(p)'
      BY <1>1 DEF TypeOK, Asks
    <2>2. Puts(p)'
      BY <1>a, <1>d, <1>g DEF Puts, Message
    <2>3. Deletes(p)'
      BY <1>1 DEF TypeOK, Deletes, Message
    <2>4. Finds(p)'
      BY <1>1 DEF TypeOK, Finds, Message
    <2>5. Reads(p)'
      BY <1>1 DEF TypeOK, Reads, Message
    <2>6. (IsRequest(msg[p]) => Sound(msg[p]))'
      <3>1. rest = {} => NumbersOf(f) \subseteq all
        OBVIOUS
      <3> HIDE DEF all, rest, group
      <3>2. rest = {} => dropped \/ Whole(f)'
        BY <1>a, <1>g, <3>1 DEF Whole
      <3> QED
        BY <1>c, <1>d, <1>g, <3>2 DEF Sound, Message
    <2> QED
      BY <2>1, <2>2, <2>3, <2>4, <2>5, <2>6 DEF TaskInv
  <1>5. /\ faults' = 0 => faults = 0 /\ late' = late /\ msg'[p].op # "error"
        /\ pc'[p] \in {"insertChunks", "insertFile"} =>
           (Putting(p) /\ target'[p] = target[p]) \/ (target'[p] \in Ids /\ ~Used(target'[p]))
    BY <1>1 DEF TypeOK, Message, Putting
  <1>8. faults' = 0 /\ ~dropped' =>
          \A g \in Ids \ files : ~Empty(g) /\ KeptBy(p, g) => KeptBy(p, g)'
    BY <1>1 DEF TypeOK, KeptBy, Putting, Named, Message
  <1> QED
    BY <1>2, <1>3, <1>4, <1>5, <1>8, TaskStep

\* The document is stored, or was: the put is no longer at it.
LEMMA FileStoredStep ==
    ASSUME Inv, NEW p \in Procs, FileStored(p)
    PROVE  Inv'
  <1> USE DEF FileStored, Done, NoMsg, Error, Replied, srvVars, histVars
  <1>1. TypeOK /\ Store /\ TaskInv(p) /\ msg[p] \in Messages
    BY DEF Inv, TypeOK
  <1>2. TypeOK'
    BY <1>1 DEF TypeOK, NumbersOf, Messages, Message
  <1>3. \A q \in Procs \ {p} : SameTask(q)
    BY DEF SameTask
  <1>4. TaskInv(p)'
    BY <1>1 DEF TypeOK, TaskInv, Asks, Puts, Deletes, Finds, Reads, IsRequest, Message, Putting
  <1>5. /\ faults' = 0 => faults = 0 /\ late' = late /\ msg'[p].op # "error"
        /\ pc'[p] \in {"insertChunks", "insertFile"} =>
           (Putting(p) /\ target'[p] = target[p]) \/ (target'[p] \in Ids /\ ~Used(target'[p]))
    BY <1>1 DEF TypeOK, Message
  <1>7. faults' = 0 /\ ~dropped' =>
          \A f \in Ids \ files : ~Empty(f) /\ KeptBy(p, f) => KeptBy(p, f)'
    BY <1>1 DEF KeptBy, TaskInv, Puts
  <1> QED
    BY <1>2, <1>3, <1>4, <1>5, <1>7, TaskStep

\* The file with the name is a document, or was.
LEMMA NameFoundStep ==
    ASSUME Inv, NEW p \in Procs, NameFound(p)
    PROVE  Inv'
  <1> USE DEF NameFound, Send, Ask, Insert, More, Done, NoMsg, Error, Replied, srvVars, histVars
  <1>1. TypeOK /\ Store /\ TaskInv(p) /\ msg[p] \in Messages
    BY DEF Inv, TypeOK
  <1>2. TypeOK'
    <2>1. pc' \in [Procs -> Requests \cup {"idle"}] /\ target' \in [Procs -> Ids \cup {NoId}]
      BY <1>1 DEF TypeOK, Requests, Messages, Message
    <2>2. msg' \in [Procs -> Messages]
      <3>1. msg'[p] \in Messages
        BY <1>1 DEF TypeOK, Requests, Messages, Message
      <3> QED
        BY <1>1, <3>1 DEF TypeOK
    <2>5. \A k \in chunks' : k[1] \in Ids /\ k[2] \in NumbersOf(k[1])'
      BY <1>1 DEF TypeOK, NumbersOf
    <2> QED
      BY <1>1, <2>1, <2>2, <2>5 DEF TypeOK
  <1>3. \A q \in Procs \ {p} : SameTask(q)
    BY <1>1 DEF TypeOK, SameTask
  <1>4. TaskInv(p)'
    <2>1. Asks(p)'
      BY <1>1 DEF TypeOK, Asks, IsRequest, Message
    <2>2. Puts(p)'
      BY <1>1 DEF TypeOK, Puts, Message, Putting
    <2>3. Deletes(p)'
      BY <1>1 DEF TypeOK, Deletes, Message
    <2>4. Finds(p)'
      BY <1>1 DEF TypeOK, TaskInv, Finds, Message, Named
    <2>5. Reads(p)'
      BY <1>1 DEF TypeOK, Reads, Message
    <2>6. (IsRequest(msg[p]) => Sound(msg[p]))'
      BY <1>1 DEF TypeOK, Sound, PutMsg, Message
    <2> QED
      BY <2>1, <2>2, <2>3, <2>4, <2>5, <2>6 DEF TaskInv
  <1>5. /\ faults' = 0 => faults = 0 /\ late' = late /\ msg'[p].op # "error"
        /\ pc'[p] \in {"insertChunks", "insertFile"} =>
           (Putting(p) /\ target'[p] = target[p]) \/ (target'[p] \in Ids /\ ~Used(target'[p]))
    BY <1>1 DEF TypeOK, Message
  <1>7. faults' = 0 /\ ~dropped' =>
          \A f \in Ids \ files : ~Empty(f) /\ KeptBy(p, f) => KeptBy(p, f)'
    BY DEF KeptBy, Putting
  <1> QED
    BY <1>2, <1>3, <1>4, <1>5, <1>7, TaskStep

\* Its chunks are asked for, if there is a document.
LEMMA FileFoundStep ==
    ASSUME Inv, NEW p \in Procs, FileFound(p)
    PROVE  Inv'
  <1> USE DEF FileFound, Send, Ask, Insert, More, Done, NoMsg, Error, Replied, srvVars, histVars
  <1>1. TypeOK /\ Store /\ TaskInv(p) /\ msg[p] \in Messages
    BY DEF Inv, TypeOK
  <1>2. TypeOK'
    <2>1. pc' \in [Procs -> Requests \cup {"idle"}] /\ target' \in [Procs -> Ids \cup {NoId}]
      BY <1>1 DEF TypeOK, Requests, Message
    <2>2. msg' \in [Procs -> Messages]
      <3>1. msg'[p] \in Messages
        BY <1>1 DEF TypeOK, Requests, Messages, Message
      <3> QED
        BY <1>1, <3>1 DEF TypeOK
    <2>5. \A k \in chunks' : k[1] \in Ids /\ k[2] \in NumbersOf(k[1])'
      BY <1>1 DEF TypeOK, NumbersOf
    <2> QED
      BY <1>1, <2>1, <2>2, <2>5 DEF TypeOK
  <1>3. \A q \in Procs \ {p} : SameTask(q)
    BY <1>1 DEF TypeOK, SameTask
  <1>4. TaskInv(p)'
    <2>1. Asks(p)'
      BY <1>1 DEF TypeOK, Asks, IsRequest, Message
    <2>2. Puts(p)'
      BY <1>1 DEF TypeOK, Puts, Message, Putting
    <2>3. Deletes(p)'
      BY <1>1 DEF TypeOK, Deletes, Message
    <2>4. Finds(p)'
      BY <1>1 DEF TypeOK, Finds, Message
    <2>5. Reads(p)'
      BY <1>1 DEF TypeOK, TaskInv, Finds, Reads, Message, Named
    <2>6. (IsRequest(msg[p]) => Sound(msg[p]))'
      BY <1>1 DEF TypeOK, Sound, PutMsg, Message
    <2> QED
      BY <2>1, <2>2, <2>3, <2>4, <2>5, <2>6 DEF TaskInv
  <1>5. /\ faults' = 0 => faults = 0 /\ late' = late /\ msg'[p].op # "error"
        /\ pc'[p] \in {"insertChunks", "insertFile"} =>
           (Putting(p) /\ target'[p] = target[p]) \/ (target'[p] \in Ids /\ ~Used(target'[p]))
    BY <1>1 DEF TypeOK, Message
  <1>7. faults' = 0 /\ ~dropped' =>
          \A f \in Ids \ files : ~Empty(f) /\ KeptBy(p, f) => KeptBy(p, f)'
    BY DEF KeptBy, Putting
  <1> QED
    BY <1>2, <1>3, <1>4, <1>5, <1>7, TaskStep

\* The first reply is all of the file, or the rest is asked for.
LEMMA ChunksReadStep ==
    ASSUME Inv, NEW p \in Procs, ChunksRead(p)
    PROVE  Inv'
  <1> USE DEF ChunksRead, Send, Ask, Insert, More, Done, NoMsg, Error, Replied, Deliver,
    srvVars, histVars
  <1>1. TypeOK /\ Store /\ TaskInv(p) /\ msg[p] \in Messages
    BY DEF Inv, TypeOK
  <1> DEFINE f == target[p]
  <1>a. Named(f) /\ f \in Ids
    BY <1>1 DEF TaskInv, Reads, Named, Store
  <1>b. /\ NumbersOf(f) \subseteq Nat /\ Named(f)' /\ Gone(f)' = Gone(f)
        /\ NumbersOf(f)' = NumbersOf(f) /\ FirstOf(f)' = FirstOf(f)
        /\ RestOf(f)' = RestOf(f) /\ Fits(f)' = Fits(f)
    BY <1>1, <1>a, NumbersOfFile DEF Named, Gone, NumbersOf, FirstOf, RestOf, Fits, PerReply,
       TwoReplies
  <1>c. FirstOf(f) \cup RestOf(f) = NumbersOf(f) /\ (RestOf(f) = {} => FirstOf(f) = NumbersOf(f))
    BY DEF FirstOf, RestOf
  <1>d. \/ /\ msg[p].rest = {} /\ pc'[p] = "idle" /\ msg'[p].op = "none"
        \/ /\ msg[p].rest # {} /\ pc'[p] = "getMore"
           /\ msg'[p] = Message("getMore", f, {}, msg[p].rest)
    <2>1. CASE msg[p].rest = {}
      BY <1>1, <2>1 DEF TypeOK, Message
    <2>2. CASE msg[p].rest # {}
      <3>1. msg'[p] = Message("getMore", f, {}, msg[p].rest)
        BY <1>1, <2>2 DEF TypeOK
      <3>2. pc'[p] = Message("getMore", f, {}, msg[p].rest).op
        BY <1>1, <2>2 DEF TypeOK
      <3> QED
        BY <2>2, <3>1, <3>2 DEF Message
    <2> QED
      BY <2>1, <2>2
  <1>e. data'[p] = msg[p].ns /\ pc[p] = "aggregate" /\ msg[p].op = "reply" /\ target' = target
    BY <1>1 DEF TypeOK
  <1>f. pc'[p] = "idle" /\ outcome'[p] = "read" /\ check[p] /\ meta[f].sha1
          => data'[p] = NumbersOf(f)
    <2>1. CASE msg[p].rest = {}
      BY <1>1, <1>e, <2>1 DEF TypeOK
    <2>2. CASE msg[p].rest # {}
      BY <1>d, <2>2
    <2> QED
      BY <2>1, <2>2
  <1>2. TypeOK'
    <2>1. pc' \in [Procs -> Requests \cup {"idle"}] /\ target' \in [Procs -> Ids \cup {NoId}]
      BY <1>1 DEF TypeOK, Requests, Message
    <2>2. msg' \in [Procs -> Messages]
      <3>1. msg'[p] \in Messages
        BY <1>1 DEF TypeOK, Requests, Messages, Message
      <3> QED
        BY <1>1, <3>1 DEF TypeOK
    <2>3. data' \in [Procs -> SUBSET Nat]
      BY <1>1 DEF TypeOK, Messages
    <2>5. \A k \in chunks' : k[1] \in Ids /\ k[2] \in NumbersOf(k[1])'
      BY <1>1 DEF TypeOK, NumbersOf
    <2> QED
      BY <1>1, <2>1, <2>2, <2>3, <2>5 DEF TypeOK
  <1>3. \A q \in Procs \ {p} : SameTask(q)
    BY <1>1 DEF TypeOK, SameTask
  <1>4. TaskInv(p)'
    <2>1. Asks(p)'
      BY <1>1 DEF TypeOK, Asks, IsRequest, Message
    <2>2. Puts(p)'
      BY <1>1 DEF TypeOK, Puts, Message, Putting
    <2>3. Deletes(p)'
      BY <1>1 DEF TypeOK, Deletes, Message
    <2>4. Finds(p)'
      BY <1>1 DEF TypeOK, Finds, Message
    <2>5. Reads(p)'
      <3>1. meta' = meta /\ check' = check
        OBVIOUS
      <3> HIDE DEF ChunksRead, Deliver
      <3> QED
        BY <1>1, <1>b, <1>c, <1>d, <1>e, <1>f, <3>1 DEF TaskInv, Reads, Message
    <2>6. (IsRequest(msg[p]) => Sound(msg[p]))'
      BY <1>1 DEF TypeOK, Sound, PutMsg, Message
    <2> QED
      BY <2>1, <2>2, <2>3, <2>4, <2>5, <2>6 DEF TaskInv
  <1>5. /\ faults' = 0 => faults = 0 /\ late' = late /\ msg'[p].op # "error"
        /\ pc'[p] \in {"insertChunks", "insertFile"} =>
           (Putting(p) /\ target'[p] = target[p]) \/ (target'[p] \in Ids /\ ~Used(target'[p]))
    BY <1>1 DEF TypeOK, Message
  <1>7. faults' = 0 /\ ~dropped' =>
          \A g \in Ids \ files : ~Empty(g) /\ KeptBy(p, g) => KeptBy(p, g)'
    BY <1>a DEF KeptBy
  <1> QED
    BY <1>2, <1>3, <1>4, <1>5, <1>7, TaskStep

\* The second reply brings the rest of a file that fits.
LEMMA MoreReadStep ==
    ASSUME Inv, NEW p \in Procs, MoreRead(p)
    PROVE  Inv'
  <1> USE DEF MoreRead, Done, NoMsg, Error, Replied, Deliver, srvVars, histVars
  <1>1. TypeOK /\ Store /\ TaskInv(p) /\ msg[p] \in Messages
    BY DEF Inv, TypeOK
  <1> DEFINE f == target[p]
  <1>a. Named(f) /\ f \in Ids
    BY <1>1 DEF TaskInv, Reads, Named, Store
  <1>b. /\ NumbersOf(f) \subseteq Nat /\ Named(f)' /\ Gone(f)' = Gone(f)
        /\ NumbersOf(f)' = NumbersOf(f) /\ FirstOf(f)' = FirstOf(f)
        /\ RestOf(f)' = RestOf(f) /\ Fits(f)' = Fits(f)
    BY <1>1, <1>a, NumbersOfFile DEF Named, Gone, NumbersOf, FirstOf, RestOf, Fits, PerReply,
       TwoReplies
  <1>c. FirstOf(f) \cup RestOf(f) = NumbersOf(f) /\ (RestOf(f) = {} => FirstOf(f) = NumbersOf(f))
    BY DEF FirstOf, RestOf
  <1>d. pc'[p] = "idle" /\ msg'[p].op = "none" /\ data'[p] = data[p] \cup msg[p].ns
    BY <1>1 DEF TypeOK, Message
  <1>e. outcome'[p] = "read" /\ check[p] /\ meta[f].sha1 => data'[p] = NumbersOf(f)
    BY <1>1, <1>d DEF TypeOK
  <1>2. TypeOK'
    BY <1>1 DEF TypeOK, NumbersOf, Messages, Message
  <1>3. \A q \in Procs \ {p} : SameTask(q)
    BY DEF SameTask
  <1>4. TaskInv(p)'
    <2>1. Asks(p)'
      BY DEF Asks, IsRequest, Message
    <2>2. Puts(p)'
      BY DEF Puts, Putting
    <2>3. Deletes(p)'
      BY DEF Deletes
    <2>4. Finds(p)'
      BY DEF Finds
    <2>5. Reads(p)'
      <3>1. meta' = meta /\ check' = check /\ target' = target
            /\ pc[p] = "getMore" /\ msg[p].op = "reply"
        OBVIOUS
      <3> HIDE DEF MoreRead, Deliver
      <3> QED
        BY <1>1, <1>b, <1>c, <1>d, <1>e, <3>1 DEF TaskInv, Reads
    <2>6. (IsRequest(msg[p]) => Sound(msg[p]))'
      BY DEF Sound, PutMsg, Message
    <2> QED
      BY <2>1, <2>2, <2>3, <2>4, <2>5, <2>6 DEF TaskInv
  <1>5. /\ faults' = 0 => faults = 0 /\ late' = late /\ msg'[p].op # "error"
        /\ pc'[p] \in {"insertChunks", "insertFile"} =>
           (Putting(p) /\ target'[p] = target[p]) \/ (target'[p] \in Ids /\ ~Used(target'[p]))
    BY DEF Message
  <1>7. faults' = 0 /\ ~dropped' =>
          \A g \in Ids \ files : ~Empty(g) /\ KeptBy(p, g) => KeptBy(p, g)'
    BY <1>a DEF KeptBy
  <1> QED
    BY <1>2, <1>3, <1>4, <1>5, <1>7, TaskStep

\* The chunks go once the document has gone.
LEMMA FileDeletedStep ==
    ASSUME Inv, NEW p \in Procs, FileDeleted(p)
    PROVE  Inv'
  <1> USE DEF FileDeleted, Send, Ask, Insert, More, Done, NoMsg, Error, Replied, srvVars, histVars
  <1>1. TypeOK /\ Store /\ TaskInv(p) /\ msg[p] \in Messages
    BY DEF Inv, TypeOK
  <1>2. TypeOK'
    <2>1. pc' \in [Procs -> Requests \cup {"idle"}] /\ target' \in [Procs -> Ids \cup {NoId}]
      BY <1>1 DEF TypeOK, Requests, Message
    <2>2. msg' \in [Procs -> Messages]
      <3>1. msg'[p] \in Messages
        BY <1>1 DEF TypeOK, Requests, Messages, Message
      <3> QED
        BY <1>1, <3>1 DEF TypeOK
    <2>5. \A k \in chunks' : k[1] \in Ids /\ k[2] \in NumbersOf(k[1])'
      BY <1>1 DEF TypeOK, NumbersOf
    <2> QED
      BY <1>1, <2>1, <2>2, <2>5 DEF TypeOK
  <1>3. \A q \in Procs \ {p} : SameTask(q)
    BY <1>1 DEF TypeOK, SameTask
  <1>4. TaskInv(p)'
    <2>1. Asks(p)'
      BY <1>1 DEF TypeOK, Asks, IsRequest, Message
    <2>2. Puts(p)'
      BY <1>1 DEF TypeOK, Puts, Message, Putting
    <2>3. Deletes(p)'
      BY <1>1 DEF TypeOK, TaskInv, Deletes, Message
    <2>4. Finds(p)'
      BY <1>1 DEF TypeOK, Finds, Message
    <2>5. Reads(p)'
      BY <1>1 DEF TypeOK, Reads, Message
    <2>6. (IsRequest(msg[p]) => Sound(msg[p]))'
      BY <1>1 DEF TypeOK, TaskInv, Sound, PutMsg, Message, Deletes
    <2> QED
      BY <2>1, <2>2, <2>3, <2>4, <2>5, <2>6 DEF TaskInv
  <1>5. /\ faults' = 0 => faults = 0 /\ late' = late /\ msg'[p].op # "error"
        /\ pc'[p] \in {"insertChunks", "insertFile"} =>
           (Putting(p) /\ target'[p] = target[p]) \/ (target'[p] \in Ids /\ ~Used(target'[p]))
    BY <1>1 DEF TypeOK, Message
  <1>7. faults' = 0 /\ ~dropped' =>
          \A f \in Ids \ files : ~Empty(f) /\ KeptBy(p, f) => KeptBy(p, f)'
    BY <1>1, IdsAssumption DEF TypeOK, KeptBy, Putting, Message
  <1> QED
    BY <1>2, <1>3, <1>4, <1>5, <1>7, TaskStep

\* There are no chunks left.
LEMMA ChunksDeletedStep ==
    ASSUME Inv, NEW p \in Procs, ChunksDeleted(p)
    PROVE  Inv'
  <1> USE DEF ChunksDeleted, Done, NoMsg, Error, Replied, srvVars, histVars
  <1>1. TypeOK /\ Store /\ TaskInv(p) /\ msg[p] \in Messages
    BY DEF Inv, TypeOK
  <1>2. TypeOK'
    <2>2. msg' \in [Procs -> Messages]
      <3>1. msg'[p] \in Messages
        BY <1>1 DEF Messages, Message
      <3> QED
        BY <1>1, <3>1 DEF TypeOK
    <2>5. \A k \in chunks' : k[1] \in Ids /\ k[2] \in NumbersOf(k[1])'
      BY <1>1 DEF TypeOK, NumbersOf
    <2>6. /\ late' \subseteq Messages /\ \A m \in late' : IsRequest(m)
          /\ deleted' \subseteq Ids /\ dropped' \in BOOLEAN /\ check' \in [Procs -> BOOLEAN]
          /\ ops' \in 0..MaxOps /\ faults' \in 0..MaxFaults
      BY <1>1 DEF TypeOK, TaskInv, Deletes
    <2> QED
      BY <1>1, <2>2, <2>5, <2>6 DEF TypeOK
  <1>3. \A q \in Procs \ {p} : SameTask(q)
    BY DEF SameTask
  <1>4. TaskInv(p)'
    BY <1>1 DEF TypeOK, TaskInv, Asks, Puts, Deletes, Finds, Reads, IsRequest, Message, Putting
  <1>5. /\ faults' = 0 => faults = 0 /\ late' = late /\ msg'[p].op # "error"
        /\ pc'[p] \in {"insertChunks", "insertFile"} =>
           (Putting(p) /\ target'[p] = target[p]) \/ (target'[p] \in Ids /\ ~Used(target'[p]))
    BY DEF Message
  <1>7. \A f \in deleted' : f \in deleted \/ (f \in removed /\ Empty(f))
    BY <1>1 DEF TaskInv, Deletes
  <1>8. faults' = 0 /\ ~dropped' =>
          \A f \in Ids \ files : ~Empty(f) /\ KeptBy(p, f) => KeptBy(p, f)'
    BY <1>1 DEF KeptBy, TaskInv, Deletes
  <1> QED
    BY <1>2, <1>3, <1>4, <1>5, <1>7, <1>8, TaskStep

\* The documents follow the chunks.
LEMMA ChunksClearedStep ==
    ASSUME Inv, NEW p \in Procs, ChunksCleared(p)
    PROVE  Inv'
  <1> USE DEF ChunksCleared, Send, Ask, Insert, More, Replied, srvVars, histVars
  <1>1. TypeOK /\ Store /\ TaskInv(p) /\ msg[p] \in Messages
    BY DEF Inv, TypeOK
  <1>2. TypeOK'
    BY <1>1 DEF TypeOK, NumbersOf, Requests, Messages, Message
  <1>3. \A q \in Procs \ {p} : SameTask(q)
    BY DEF SameTask
  <1>4. TaskInv(p)'
    <2>1. Asks(p)'
      BY <1>1 DEF TypeOK, Asks
    <2>2. Puts(p)'
      BY DEF Puts, Message, Putting
    <2>3. Deletes(p)'
      BY <1>1 DEF TaskInv, Deletes, Message
    <2>4. Finds(p)'
      BY DEF Finds, Message
    <2>5. Reads(p)'
      BY DEF Reads, Message
    <2>6. (IsRequest(msg[p]) => Sound(msg[p]))'
      BY DEF Sound, PutMsg, Message
    <2> QED
      BY <2>1, <2>2, <2>3, <2>4, <2>5, <2>6 DEF TaskInv
  <1>5. /\ faults' = 0 => faults = 0 /\ late' = late /\ msg'[p].op # "error"
        /\ pc'[p] \in {"insertChunks", "insertFile"} =>
           (Putting(p) /\ target'[p] = target[p]) \/ (target'[p] \in Ids /\ ~Used(target'[p]))
    BY DEF Message
  <1>7. faults' = 0 /\ ~dropped' =>
          \A f \in Ids \ files : ~Empty(f) /\ KeptBy(p, f) => KeptBy(p, f)'
    BY DEF KeptBy, Putting
  <1> QED
    BY <1>2, <1>3, <1>4, <1>5, <1>7, TaskStep

\* The bucket was dropped.
LEMMA FilesClearedStep ==
    ASSUME Inv, NEW p \in Procs, FilesCleared(p)
    PROVE  Inv'
  <1> USE DEF FilesCleared, Done, NoMsg, Error, Replied, srvVars, histVars
  <1>1. TypeOK /\ Store /\ TaskInv(p) /\ msg[p] \in Messages
    BY DEF Inv, TypeOK
  <1>2. TypeOK'
    BY <1>1 DEF TypeOK, NumbersOf, Messages, Message
  <1>3. \A q \in Procs \ {p} : SameTask(q)
    BY DEF SameTask
  <1>4. TaskInv(p)'
    BY <1>1 DEF TypeOK, TaskInv, Asks, Puts, Deletes, Finds, Reads, IsRequest, Message, Putting
  <1>5. /\ faults' = 0 => faults = 0 /\ late' = late /\ msg'[p].op # "error"
        /\ pc'[p] \in {"insertChunks", "insertFile"} =>
           (Putting(p) /\ target'[p] = target[p]) \/ (target'[p] \in Ids /\ ~Used(target'[p]))
    BY DEF Message
  <1>7. faults' = 0 /\ ~dropped' =>
          \A f \in Ids \ files : ~Empty(f) /\ KeptBy(p, f) => KeptBy(p, f)'
    BY DEF KeptBy, Putting
  <1> QED
    BY <1>2, <1>3, <1>4, <1>5, <1>7, TaskStep

\* An error ends the operation.
LEMMA RequestRaisesStep ==
    ASSUME Inv, NEW p \in Procs, RequestRaises(p)
    PROVE  Inv'
  <1> USE DEF RequestRaises, Done, NoMsg, Error, srvVars, histVars
  <1>1. TypeOK /\ Store /\ TaskInv(p) /\ msg[p] \in Messages
    BY DEF Inv, TypeOK
  <1>2. TypeOK'
    BY <1>1 DEF TypeOK, NumbersOf, Messages, Message
  <1>3. \A q \in Procs \ {p} : SameTask(q)
    BY DEF SameTask
  <1>4. TaskInv(p)'
    BY <1>1 DEF TypeOK, TaskInv, Asks, Puts, Deletes, Finds, Reads, IsRequest, Message, Putting
  <1>5. /\ faults' = 0 => faults = 0 /\ late' = late /\ msg'[p].op # "error"
        /\ pc'[p] \in {"insertChunks", "insertFile"} =>
           (Putting(p) /\ target'[p] = target[p]) \/ (target'[p] \in Ids /\ ~Used(target'[p]))
    BY <1>1 DEF TypeOK, Message
  <1>7. faults' = 0 /\ ~dropped' =>
          \A f \in Ids \ files : ~Empty(f) /\ KeptBy(p, f) => KeptBy(p, f)'
    <2>1. faults = 0 => TooLarge(target[p])
      BY DEF Inv, Tidy, Rejected
    <2>2. TooLarge(target[p]) => Empty(target[p])
      BY <1>1 DEF Store, Empty
    <2> QED
      BY <2>1, <2>2 DEF KeptBy
  <1> QED
    BY <1>2, <1>3, <1>4, <1>5, <1>7, TaskStep

\* The request may be carried out late.
LEMMA GiveUpStep ==
    ASSUME Inv, NEW p \in Procs, GiveUp(p)
    PROVE  Inv'
  <1> USE DEF GiveUp, Done, NoMsg, Error, srvVars, histVars
  <1>1. TypeOK /\ Store /\ TaskInv(p) /\ msg[p] \in Messages
    BY DEF Inv, TypeOK
  <1>2. TypeOK'
    <2>2. msg' \in [Procs -> Messages]
      <3>1. msg'[p] \in Messages
        BY <1>1 DEF Messages, Message
      <3> QED
        BY <1>1, <3>1 DEF TypeOK
    <2>5. \A k \in chunks' : k[1] \in Ids /\ k[2] \in NumbersOf(k[1])'
      BY <1>1 DEF TypeOK, NumbersOf
    <2>6. /\ late' \subseteq Messages /\ \A m \in late' : IsRequest(m)
          /\ deleted' \subseteq Ids /\ dropped' \in BOOLEAN /\ check' \in [Procs -> BOOLEAN]
          /\ ops' \in 0..MaxOps /\ faults' \in 0..MaxFaults
      BY <1>1, BoundsAssumption DEF TypeOK
    <2> QED
      BY <1>1, <2>2, <2>5, <2>6 DEF TypeOK
  <1>3. \A q \in Procs \ {p} : SameTask(q)
    BY DEF SameTask
  <1>4. TaskInv(p)'
    BY <1>1 DEF TypeOK, TaskInv, Asks, Puts, Deletes, Finds, Reads, IsRequest, Message, Putting
  <1>5. /\ faults' = 0 => faults = 0 /\ late' = late /\ msg'[p].op # "error"
        /\ pc'[p] \in {"insertChunks", "insertFile"} =>
           (Putting(p) /\ target'[p] = target[p]) \/ (target'[p] \in Ids /\ ~Used(target'[p]))
    BY <1>1 DEF TypeOK, Message
  <1>7. \A m \in late' : m \in late \/ (m = msg[p] /\ IsRequest(m) /\ pc'[p] = "idle")
    BY <1>1 DEF TypeOK
  <1> QED
    BY <1>2, <1>3, <1>4, <1>5, <1>7, TaskStep

\* A put of nothing, or with no room for a chunk, raises; the others send the
\* first group.
PutRaises(p) ==
    /\ Begin(p)
    /\ outcome' = [outcome EXCEPT ![p] = "raised"]
    /\ data' = [data EXCEPT ![p] = {}]
    /\ UNCHANGED <<pc, msg, meta, target, srvVars, check, late, histVars, faults>>
PutSends(p, f, s, c, h) ==
    /\ Begin(p)
    /\ meta[f] = Unused /\ s # 0
    /\ meta' = [meta EXCEPT ![f] = [size |-> s, chunk |-> c, sha1 |-> h]]
    /\ target' = [target EXCEPT ![p] = f]
    /\ Send(p, Insert(f, Front(Numbers(s, c), MaxAmount(c))))
    /\ data' = [data EXCEPT ![p] = {}]
    /\ UNCHANGED <<outcome, srvVars, check, late, histVars, faults>>

LEMMA PutCases ==
    ASSUME NEW p \in Procs, Put(p)
    PROVE  \/ PutRaises(p)
           \/ \E f \in Ids, s \in Sizes, c \in ChunkSizes, h \in BOOLEAN : PutSends(p, f, s, c, h)
  BY DEF Put, PutRaises, PutSends

\* Nothing is put.
LEMMA PutRaisesStep ==
    ASSUME Inv, NEW p \in Procs, PutRaises(p)
    PROVE  Inv'
  <1> USE DEF PutRaises, Begin, srvVars, histVars
  <1>1. TypeOK /\ Store /\ TaskInv(p) /\ msg[p] \in Messages
    BY DEF Inv, TypeOK
  <1>2. TypeOK'
    BY <1>1, BoundsAssumption DEF TypeOK, NumbersOf
  <1>3. \A q \in Procs \ {p} : SameTask(q)
    BY DEF SameTask
  <1>4. TaskInv(p)'
    <2>1. Asks(p)'
      BY <1>1 DEF TaskInv, Asks
    <2>2. Puts(p)'
      BY DEF Puts, Putting
    <2>3. Deletes(p)'
      BY DEF Deletes
    <2>4. Finds(p)'
      BY DEF Finds
    <2>5. Reads(p)'
      BY <1>1 DEF TypeOK, Reads
    <2>6. (IsRequest(msg[p]) => Sound(msg[p]))'
      BY <1>1 DEF TaskInv, Sound, PutMsg, Asks
    <2> QED
      BY <2>1, <2>2, <2>3, <2>4, <2>5, <2>6 DEF TaskInv
  <1>7. faults' = 0 => faults = 0 /\ late' = late /\ msg'[p].op # "error"
    BY DEF Inv, Tidy, Rejected
  <1>9. faults' = 0 /\ ~dropped' =>
          \A f \in Ids \ files : ~Empty(f) /\ KeptBy(p, f) => KeptBy(p, f)'
    BY DEF KeptBy, Putting
  <1> QED
    BY <1>2, <1>3, <1>4, <1>7, <1>9, TaskStep

\* The first group of chunks, of a file nothing else is at.
LEMMA PutSendsStep ==
    ASSUME Inv, NEW p \in Procs, NEW f \in Ids, NEW s \in Sizes, NEW c \in ChunkSizes,
           NEW h \in BOOLEAN, PutSends(p, f, s, c, h)
    PROVE  Inv'
  <1> USE DEF PutSends, Send, Ask, Insert, More, Begin, srvVars, histVars
  <1>1. TypeOK /\ Store /\ TaskInv(p) /\ msg[p] \in Messages
    BY DEF Inv, TypeOK
  <1> DEFINE group == Front(Numbers(s, c), MaxAmount(c))
  <1>a. ~Used(f) /\ ~Named(f)
    BY <1>1 DEF Used, Named, Store
  <1>b. /\ s \in Nat /\ c \in Nat \ {0} /\ MaxAmount(c) \in Nat
        /\ Numbers(s, c) \subseteq Nat /\ IsFiniteSet(Numbers(s, c))
    BY SizesAssumption, NumbersAre, MaxAmountNat
  <1>c. group \subseteq Numbers(s, c)
    BY FrontIn
  <1>d. /\ pc'[p] = "insertChunks" /\ target'[p] = f /\ data'[p] = {}
        /\ msg'[p] = Message("insertChunks", f, group, {})
    <2>1. msg'[p] = Message("insertChunks", f, group, {})
      BY <1>1 DEF TypeOK
    <2>2. pc'[p] = Message("insertChunks", f, group, {}).op
      BY <1>1 DEF TypeOK
    <2>3. target'[p] = f /\ data'[p] = {}
      BY <1>1 DEF TypeOK
    <2> QED
      BY <2>1, <2>2, <2>3 DEF Message
  <1>e. meta'[f] = [size |-> s, chunk |-> c, sha1 |-> h]
        /\ \A g \in Ids \ {f} : meta'[g] = meta[g]
    BY <1>1 DEF TypeOK
  <1>g. NumbersOf(f)' = Numbers(s, c) /\ Used(f)' /\ ~Named(f)'
    <2>1. meta'[f].size = s /\ meta'[f].chunk = c /\ Unused.size = 0
      BY <1>e DEF Unused
    <2> QED
      BY <1>a, <2>1 DEF NumbersOf, Used, Named
  <1>2. TypeOK'
    <2>1. pc' \in [Procs -> Requests \cup {"idle"}] /\ target' \in [Procs -> Ids \cup {NoId}]
      BY <1>1 DEF TypeOK, Requests, Message
    <2>2. msg' \in [Procs -> Messages]
      <3>1. msg'[p] \in Messages
        BY <1>1, <1>b, <1>c DEF Requests, Messages, Message
      <3> QED
        BY <1>1, <3>1 DEF TypeOK
    <2>5. \A k \in chunks' : k[1] \in Ids /\ k[2] \in NumbersOf(k[1])'
      <3>1. \A k \in chunks : k[1] \in Ids /\ k[1] # f /\ k[2] \in NumbersOf(k[1])
        BY <1>1 DEF Store, Used
      <3> QED
        BY <3>1 DEF NumbersOf
    <2>6. /\ late' \subseteq Messages /\ \A m \in late' : IsRequest(m)
          /\ deleted' \subseteq Ids /\ dropped' \in BOOLEAN /\ check' \in [Procs -> BOOLEAN]
          /\ ops' \in 0..MaxOps /\ faults' \in 0..MaxFaults
      BY <1>1, BoundsAssumption DEF TypeOK
    <2> QED
      <3> QED
        BY <1>1, <2>1, <2>2, <2>5, <2>6 DEF TypeOK
  <1>3. \A q \in Procs \ {p} : SameTask(q)
    BY DEF SameTask
  <1>4. TaskInv(p)'
    <2>1. Asks(p)'
      BY <1>d DEF Asks
    <2>2. Puts(p)'
      BY <1>d, <1>g DEF Puts, Message
    <2>3. Deletes(p)'
      BY <1>d DEF Deletes
    <2>4. Finds(p)'
      BY <1>d DEF Finds
    <2>5. Reads(p)'
      BY <1>d DEF Reads
    <2>6. (IsRequest(msg[p]) => Sound(msg[p]))'
      BY <1>c, <1>d, <1>g DEF Sound, Message
    <2> QED
      BY <2>1, <2>2, <2>3, <2>4, <2>5, <2>6 DEF TaskInv
  <1>6. faults' = 0 => faults = 0 /\ late' = late /\ msg'[p].op # "error"
    BY <1>d
  <1>7. pc'[p] \in {"insertChunks", "insertFile"} =>
           (Putting(p) /\ target'[p] = target[p]) \/ (target'[p] \in Ids /\ ~Used(target'[p]))
    BY <1>a, <1>d
  <1>9. \A g \in Ids : Used(g) => meta'[g] = meta[g]
    BY <1>a
  <1>10. faults' = 0 /\ ~dropped' =>
          \A g \in Ids \ files : ~Empty(g) /\ KeptBy(p, g) => KeptBy(p, g)'
    BY DEF KeptBy, Putting
  <1> QED
    BY <1>2, <1>3, <1>4, <1>6, <1>7, <1>9, <1>10, TaskStep

\* A read starts with the document.
LEMMA GetStep ==
    ASSUME Inv, NEW p \in Procs, Get(p)
    PROVE  Inv'
  <1> USE DEF Get, Send, Ask, Insert, More, Begin, srvVars, histVars
  <1>1. TypeOK /\ Store /\ TaskInv(p) /\ msg[p] \in Messages
    BY DEF Inv, TypeOK
  <1>2. TypeOK'
    <2>1. pc' \in [Procs -> Requests \cup {"idle"}] /\ target' \in [Procs -> Ids \cup {NoId}]
      <3>1. \E f \in Ids \cup {NoId}, o \in {"findFile", "findName"} :
               target' = [target EXCEPT ![p] = f] /\ pc' = [pc EXCEPT ![p] = o]
        BY DEF Message
      <3> QED
        BY <1>1, <3>1 DEF TypeOK, Requests
    <2>2. msg' \in [Procs -> Messages]
      <3>2. \A f \in Ids \cup {NoId}, o \in {"findFile", "findName"} :
              Message(o, f, {}, {}) \in Messages
        BY DEF Message, Messages, Requests
      <3> QED
        BY <1>1, <3>2 DEF TypeOK
    <2>5. \A k \in chunks' : k[1] \in Ids /\ k[2] \in NumbersOf(k[1])'
      BY <1>1 DEF TypeOK, NumbersOf
    <2>6. /\ late' \subseteq Messages /\ \A m \in late' : IsRequest(m)
          /\ deleted' \subseteq Ids /\ dropped' \in BOOLEAN /\ check' \in [Procs -> BOOLEAN]
          /\ ops' \in 0..MaxOps /\ faults' \in 0..MaxFaults
      <3>1. ops' \in 0..MaxOps
        BY <1>1, BoundsAssumption DEF TypeOK
      <3> QED
        BY <1>1, <3>1 DEF TypeOK
    <2> QED
      BY <1>1, <2>1, <2>2, <2>5, <2>6 DEF TypeOK
  <1>3. \A q \in Procs \ {p} : SameTask(q)
    BY <1>1 DEF TypeOK, SameTask
  <1>4. TaskInv(p)'
    <2>1. Asks(p)'
      BY <1>1 DEF TypeOK, Asks
    <2>2. Puts(p)'
      BY <1>1 DEF TypeOK, Puts, Message, Putting
    <2>3. Deletes(p)'
      BY <1>1 DEF TypeOK, Deletes, Message
    <2>4. Finds(p)'
      BY <1>1 DEF TypeOK, Finds, Message
    <2>5. Reads(p)'
      BY <1>1 DEF TypeOK, Reads, Message
    <2>6. (IsRequest(msg[p]) => Sound(msg[p]))'
      BY <1>1 DEF TypeOK, Sound, PutMsg, Message
    <2> QED
      BY <2>1, <2>2, <2>3, <2>4, <2>5, <2>6 DEF TaskInv
  <1>5. /\ faults' = 0 => faults = 0 /\ late' = late /\ msg'[p].op # "error"
        /\ pc'[p] \in {"insertChunks", "insertFile"} =>
           (Putting(p) /\ target'[p] = target[p]) \/ (target'[p] \in Ids /\ ~Used(target'[p]))
    BY <1>1 DEF TypeOK, Message
  <1>7. faults' = 0 /\ ~dropped' =>
          \A f \in Ids \ files : ~Empty(f) /\ KeptBy(p, f) => KeptBy(p, f)'
    BY DEF KeptBy, Putting
  <1> QED
    BY <1>2, <1>3, <1>4, <1>5, <1>7, TaskStep

\* A deletion starts with the document.
LEMMA DeleteStep ==
    ASSUME Inv, NEW p \in Procs, Delete(p)
    PROVE  Inv'
  <1> USE DEF Delete, Send, Ask, Insert, More, Begin, srvVars, histVars
  <1>1. TypeOK /\ Store /\ TaskInv(p) /\ msg[p] \in Messages
    BY DEF Inv, TypeOK
  <1>2. TypeOK'
    <2>1. pc' \in [Procs -> Requests \cup {"idle"}] /\ target' \in [Procs -> Ids \cup {NoId}]
      BY <1>1 DEF TypeOK, Requests, Message
    <2>2. msg' \in [Procs -> Messages]
      <3>2. \A f \in Ids : Message("deleteFile", f, {}, {}) \in Messages
        BY DEF Message, Messages, Requests
      <3> QED
        BY <1>1, <3>2 DEF TypeOK
    <2>5. \A k \in chunks' : k[1] \in Ids /\ k[2] \in NumbersOf(k[1])'
      BY <1>1 DEF TypeOK, NumbersOf
    <2>6. /\ late' \subseteq Messages /\ \A m \in late' : IsRequest(m)
          /\ deleted' \subseteq Ids /\ dropped' \in BOOLEAN /\ check' \in [Procs -> BOOLEAN]
          /\ ops' \in 0..MaxOps /\ faults' \in 0..MaxFaults
      BY <1>1, BoundsAssumption DEF TypeOK
    <2> QED
      BY <1>1, <2>1, <2>2, <2>5, <2>6 DEF TypeOK
  <1>3. \A q \in Procs \ {p} : SameTask(q)
    BY DEF SameTask
  <1>4. TaskInv(p)'
    <2>1. Asks(p)'
      BY <1>1 DEF TypeOK, Asks
    <2>2. Puts(p)'
      BY DEF Puts, Message, Putting
    <2>3. Deletes(p)'
      BY <1>1 DEF TypeOK, Deletes, Message
    <2>4. Finds(p)'
      BY DEF Finds, Message
    <2>5. Reads(p)'
      BY <1>1 DEF TypeOK, Reads, Message
    <2>6. (IsRequest(msg[p]) => Sound(msg[p]))'
      BY <1>1 DEF TypeOK, Sound, PutMsg, Message
    <2> QED
      BY <2>1, <2>2, <2>3, <2>4, <2>5, <2>6 DEF TaskInv
  <1>5. /\ faults' = 0 => faults = 0 /\ late' = late /\ msg'[p].op # "error"
        /\ pc'[p] \in {"insertChunks", "insertFile"} =>
           (Putting(p) /\ target'[p] = target[p]) \/ (target'[p] \in Ids /\ ~Used(target'[p]))
    BY <1>1 DEF TypeOK, Message
  <1>7. faults' = 0 /\ ~dropped' =>
          \A f \in Ids \ files : ~Empty(f) /\ KeptBy(p, f) => KeptBy(p, f)'
    BY DEF KeptBy, Putting
  <1> QED
    BY <1>2, <1>3, <1>4, <1>5, <1>7, TaskStep

\* From here on nothing is whole.
LEMMA DropAllFilesStep ==
    ASSUME Inv, NEW p \in Procs, DropAllFiles(p)
    PROVE  Inv'
  <1> USE DEF DropAllFiles, Send, Ask, Insert, More, Begin, srvVars, histVars
  <1>1. TypeOK /\ Store /\ TaskInv(p) /\ msg[p] \in Messages
    BY DEF Inv, TypeOK
  <1>2. TypeOK'
    <2>1. pc' \in [Procs -> Requests \cup {"idle"}] /\ target' \in [Procs -> Ids \cup {NoId}]
      BY <1>1 DEF TypeOK, Requests, Message
    <2>2. msg' \in [Procs -> Messages]
      <3>1. msg'[p] \in Messages
        BY <1>1 DEF Requests, Messages, Message
      <3> QED
        BY <1>1, <3>1 DEF TypeOK
    <2>5. \A k \in chunks' : k[1] \in Ids /\ k[2] \in NumbersOf(k[1])'
      BY <1>1 DEF TypeOK, NumbersOf
    <2>6. /\ late' \subseteq Messages /\ \A m \in late' : IsRequest(m)
          /\ deleted' \subseteq Ids /\ dropped' \in BOOLEAN /\ check' \in [Procs -> BOOLEAN]
          /\ ops' \in 0..MaxOps /\ faults' \in 0..MaxFaults
      BY <1>1, BoundsAssumption DEF TypeOK
    <2> QED
      BY <1>1, <2>1, <2>2, <2>5, <2>6 DEF TypeOK
  <1>3. \A q \in Procs \ {p} : SameTask(q)
    BY DEF SameTask
  <1>4. TaskInv(p)'
    <2>1. Asks(p)'
      BY <1>1 DEF TypeOK, Asks
    <2>2. Puts(p)'
      BY DEF Puts, Message, Putting
    <2>3. Deletes(p)'
      BY DEF Deletes, Message
    <2>4. Finds(p)'
      BY DEF Finds, Message
    <2>5. Reads(p)'
      BY <1>1 DEF TypeOK, Reads, Message
    <2>6. (IsRequest(msg[p]) => Sound(msg[p]))'
      BY <1>1 DEF TypeOK, Sound, PutMsg, Message
    <2> QED
      BY <2>1, <2>2, <2>3, <2>4, <2>5, <2>6 DEF TaskInv
  <1>5. /\ faults' = 0 => faults = 0 /\ late' = late /\ msg'[p].op # "error"
        /\ pc'[p] \in {"insertChunks", "insertFile"} =>
           (Putting(p) /\ target'[p] = target[p]) \/ (target'[p] \in Ids /\ ~Used(target'[p]))
    BY <1>1 DEF TypeOK, Message
  <1> QED
    BY <1>2, <1>3, <1>4, <1>5, TaskStep

-----------------------------------------------------------------------------
(* The server                                                              *)

\* The reply to each request.
LEMMA ServeStep ==
    ASSUME Inv, NEW p \in Procs, Serve(p)
    PROVE  Inv'
  <1> DEFINE m == msg[p]
             f == target[p]
  <1>1. TypeOK /\ Store /\ Once /\ TaskInv(p) /\ m \in Messages /\ Sound(m) /\ pc[p] = m.op
    BY DEF Inv, TypeOK, TaskInv, Asks, Serve
  <1>2. /\ IsRequest(m) /\ Accepted(m) /\ Execute(m)
        /\ UNCHANGED <<meta, pc, target, check, data, outcome, late, histVars, ops, faults>>
    BY DEF Serve
  <1>3. PICK r \in AnswersTo(m) : msg' = [msg EXCEPT ![p] = r]
    BY DEF Serve
  <1>4. /\ Frame /\ Store'
        /\ \A g : Named(g)' => Named(g) \/ (m.op = "insertFile" /\ g = m.id)
        /\ \A k \in chunks' : k \in chunks \/ (m.op = "insertChunks" /\ k[1] = m.id)
    BY <1>1, <1>2, ExecuteStep DEF histVars
  <1>5. msg'[p] = r /\ \A q \in Procs \ {p} : SameTask(q)
    BY <1>1, <1>2, <1>3 DEF TypeOK, SameTask
  <1>6. PutMsg(m) => Putting(p) /\ m.id = f
    BY <1>1, <1>2 DEF PutMsg, Putting, TaskInv, Puts
  <1>7. \A q \in Procs \ {p} : TaskInv(q)'
    <2>1. \A q \in Procs \ {p} : PutMsg(m) /\ Putting(q) => m.id # target[q]
      BY <1>1, <1>6 DEF Once
    <2>2. \A k \in late' : k \in late /\ (PutMsg(m) /\ PutMsg(k) => m.id # k.id)
      BY <1>1, <1>2, <1>6 DEF Once
    <2> QED
      BY <1>1, <1>2, <1>5, <2>1, <2>2, ExecuteOthers DEF histVars
  <1>8. \A k \in late' : Sound(k)'
    <2>1. \A k \in late' : k \in late /\ (PutMsg(m) /\ PutMsg(k) => m.id # k.id)
      BY <1>1, <1>2, <1>6 DEF Once
    <2> QED
      BY <1>1, <1>2, <2>1, ExecuteOthers DEF histVars
  <1>9. /\ r.op = "reply"
        /\ m.op = "insertChunks" => r = Answer(m.id, m.ns, {})
        /\ m.op = "findName" => r.id = NoId \/ r.id \in files
        /\ m.op \in {"findFile", "deleteFile"} =>
             \/ m.id \in files /\ r.id = m.id
             \/ m.id \notin files /\ r.id = NoId
        /\ m.op = "aggregate" =>
             r = Batch(m.id, Stored(m.id), Least(FirstBatch, PerReply(m.id)))
        /\ m.op = "getMore" => r = Batch(m.id, m.rest, PerReply(m.id))
    <2>1. CASE m.op = "insertChunks"
      BY <2>1 DEF AnswersTo, Answer, Message
    <2>2. CASE m.op = "findName"
      BY <2>2 DEF AnswersTo, Answer, Message
    <2>3. CASE m.op \in {"findFile", "deleteFile"}
      BY <2>3 DEF AnswersTo, Answer, Message
    <2>4. CASE m.op = "aggregate"
      BY DEF AnswersTo, Answer, Message, Batch
    <2>5. CASE m.op = "getMore"
      BY DEF AnswersTo, Answer, Message, Batch
    <2>6. CASE m.op \notin {"insertChunks", "findName", "findFile", "deleteFile", "aggregate",
                            "getMore"}
      BY <2>6 DEF AnswersTo, Answer, Message
    <2> QED
      BY <2>1, <2>2, <2>3, <2>4, <2>5, <2>6
  <1>10. r \in Messages
    <2>1. \A o \in Ids \cup {NoId}, s \in SUBSET Nat, t \in SUBSET Nat :
            Answer(o, s, t) \in Messages
      BY MessageType DEF Answer
    <2>2. m.id \in Ids \cup {NoId} /\ m.ns \in SUBSET Nat /\ m.rest \in SUBSET Nat
          /\ files \subseteq Ids
      BY <1>1 DEF Messages, TypeOK
    <2>4. CASE m.op = "insertChunks"
      BY <1>9, <2>1, <2>2, <2>4
    <2>5. CASE m.op \in {"aggregate", "getMore"}
      <3>1. m.id \in Ids
        BY <1>1, <1>2, <2>5 DEF TaskInv, Reads, Named, Store
      <3>2. NumbersOf(m.id) \subseteq Nat
        BY <1>1, <3>1, NumbersOfFile
      <3>3. Stored(m.id) \in SUBSET Nat
        BY <3>2 DEF Stored
      <3>4. \A s \in SUBSET Nat : \A n : Batch(m.id, s, n) \in Messages
        <4>1. \A s \in SUBSET Nat : \A n :
                  Front(s, n) \in SUBSET Nat /\ s \ Front(s, n) \in SUBSET Nat
          BY FrontIn
        <4> QED
          BY <2>1, <2>2, <4>1 DEF Batch
      <3> QED
        BY <1>9, <2>2, <2>5, <3>3, <3>4
    <2>6. CASE m.op \notin {"insertChunks", "aggregate", "getMore"}
      <3>1. \E g \in Ids \cup {NoId} : r = Answer(g, {}, {})
        BY <2>2, <2>6 DEF AnswersTo
      <3> QED
        BY <2>1, <3>1
    <2> QED
      BY <2>4, <2>5, <2>6
  <1>11. TypeOK'
    <2>1. \A k \in chunks' : k[1] \in Ids /\ k[2] \in NumbersOf(k[1])'
      BY <1>4 DEF Store, Used
    <2>2. msg' \in [Procs -> Messages]
      BY <1>1, <1>3, <1>10 DEF TypeOK
    <2>3. files' \subseteq Ids /\ removed' \subseteq Ids
      BY <1>4 DEF Store
    <2> QED
      BY <1>1, <1>2, <2>1, <2>2, <2>3 DEF TypeOK, histVars
  <1>12. Asks(p)' /\ (IsRequest(msg[p]) => Sound(msg[p]))'
    BY <1>5, <1>9 DEF Asks, IsRequest
  <1>13. Puts(p)'
    <2> SUFFICES ASSUME Putting(p) PROVE Puts(p)'
      BY <1>2 DEF Puts, Putting
    <2>1. f \in Ids /\ Used(f) /\ m.id = f
      BY <1>1, <1>2 DEF TaskInv, Puts, Used
    <2>2. Used(f)' /\ NumbersOf(f)' = NumbersOf(f)
      BY <1>2, <1>4, <2>1, FrameFile
    <2>3. CASE m.op = "insertChunks"
      <3>1. ~Named(f) /\ ~Named(f)'
        BY <1>1, <1>2, <1>4, <2>3 DEF TaskInv, Puts
      <3>2. chunks' = chunks \cup ({f} \X m.ns)
        BY <1>2, <2>1, <2>3 DEF Execute
      <3>3. r.ns = m.ns /\ m.ns \subseteq NumbersOf(f)
        BY <1>1, <1>9, <2>1, <2>3 DEF Answer, Message, Sound
      <3>4. data[p] \subseteq NumbersOf(f) /\ (dropped \/ \A n \in data[p] : <<f, n>> \in chunks)
        BY <1>1, <2>3 DEF TaskInv, Puts
      <3> QED
        BY <1>1, <1>2, <1>5, <1>9, <2>2, <2>3, <3>1, <3>2, <3>3, <3>4 DEF Puts, IsRequest,
           histVars
    <2>4. CASE m.op = "insertFile"
      <3>1. Named(f)'
        BY <1>2, <2>1, <2>4 DEF Execute, Named
      <3> QED
        BY <1>1, <1>2, <1>5, <1>9, <2>2, <2>4, <3>1 DEF Puts, IsRequest
    <2> QED
      BY <1>1, <2>3, <2>4 DEF Putting
  <1>14. Deletes(p)'
    <2>1. CASE m.op = "deleteFile"
      <3>1. f \in Ids /\ m.id = f
        BY <1>1, <1>2, <2>1 DEF TaskInv, Deletes
      <3>2. m.id \in files => m.id \in removed'
        BY <1>2, <2>1 DEF Execute
      <3> QED
        BY <1>1, <1>2, <1>5, <1>9, <2>1, <3>1, <3>2 DEF Deletes, IsRequest
    <2>2. CASE m.op = "deleteChunks"
      <3>1. f \in removed /\ m.id = f
        BY <1>1, <1>2, <2>2 DEF TaskInv, Deletes
      <3>2. Empty(f)' /\ f \in removed'
        BY <1>2, <2>2, <3>1 DEF Execute, Empty
      <3> QED
        BY <1>1, <1>2, <1>5, <1>9, <2>2, <3>2 DEF Deletes, IsRequest
    <2>3. CASE m.op \notin {"deleteFile", "deleteChunks"}
      BY <1>1, <1>2, <2>3 DEF TaskInv, Deletes, histVars
    <2> QED
      BY <2>1, <2>2, <2>3
  <1>15. Finds(p)'
    <2>1. CASE m.op = "findName"
      <3>1. files' = files
        BY <1>2, <2>1 DEF Execute
      <3> QED
        BY <1>1, <1>2, <1>5, <1>9, <2>1, <3>1 DEF Finds, Named
    <2>2. CASE m.op = "findFile"
      <3>1. files' = files
        BY <1>2, <2>2 DEF Execute
      <3>2. f \in Ids /\ m.id = f
        BY <1>1, <1>2, <2>2 DEF TaskInv, Finds
      <3> QED
        BY <1>1, <1>2, <1>5, <1>9, <3>1, <3>2 DEF Finds, Named, IsRequest
    <2>3. CASE m.op \notin {"findName", "findFile"}
      BY <1>1, <1>2, <2>3 DEF Finds
    <2> QED
      BY <2>1, <2>2, <2>3
  <1>16. Reads(p)'
    <2> SUFFICES ASSUME m.op \in {"aggregate", "getMore"} PROVE Reads(p)'
      BY <1>1, <1>2 DEF Reads, Messages, Requests
    <2>1. Named(f) /\ f \in Ids /\ Used(f) /\ m.id = f
      BY <1>1, <1>2 DEF TaskInv, Reads, Named, Store
    <2>2. /\ Named(f)' /\ NumbersOf(f)' = NumbersOf(f) /\ FirstOf(f)' = FirstOf(f)
          /\ RestOf(f)' = RestOf(f) /\ Fits(f)' = Fits(f) /\ (Gone(f) => Gone(f)')
      BY <1>2, <1>4, <2>1, FrameFile
    <2>3. CASE m.op = "aggregate"
      <3>1. r.ns = Front(Stored(f), Least(FirstBatch, PerReply(f))) /\ r.rest = Stored(f) \ r.ns
        BY <1>9, <2>1, <2>3 DEF Batch, Answer, Message
      <3>2. Stored(f) \subseteq NumbersOf(f)
        BY DEF Stored
      <3>3. r.ns \subseteq NumbersOf(f) /\ r.rest \subseteq NumbersOf(f)
        BY <3>1, <3>2, FrontIn
      <3>4. ASSUME ~Gone(f) PROVE r.ns = FirstOf(f) /\ r.rest = RestOf(f)
        <4>1. Whole(f)
          BY <1>1, <2>1, <3>4 DEF Gone, Named, Store
        <4>2. Stored(f) = NumbersOf(f)
          BY <4>1 DEF Stored, Whole
        <4> QED
          BY <1>1, <2>1, <3>1, <4>2, FirstReply DEF RestOf
      <3> QED
        BY <1>1, <1>2, <1>5, <1>9, <2>2, <2>3, <3>3, <3>4 DEF Reads, IsRequest
    <2>4. CASE m.op = "getMore"
      <3>1. r.ns = Front(m.rest, PerReply(f))
        BY <1>9, <2>1, <2>4 DEF Batch, Answer, Message
      <3>2. /\ data[p] \subseteq NumbersOf(f) /\ (Gone(f) \/ data[p] = FirstOf(f))
            /\ m.rest \subseteq NumbersOf(f) /\ (Gone(f) \/ m.rest = RestOf(f))
        BY <1>1, <1>2, <2>4 DEF TaskInv, Reads
      <3>3. r.ns \subseteq NumbersOf(f)
        BY <3>1, <3>2, FrontIn
      <3>4. Gone(f) \/ ~Fits(f) \/ r.ns = RestOf(f)
        BY <1>1, <2>1, <3>1, <3>2, SecondReply
      <3> QED
        BY <1>1, <1>2, <1>5, <1>9, <2>2, <2>4, <3>2, <3>3, <3>4 DEF Reads, IsRequest
    <2> QED
      BY <2>3, <2>4
  <1>17. Once'
    BY <1>1, <1>2, OnceKept
  <1>18. Tidy'
    <2> SUFFICES ASSUME faults = 0 PROVE Tidy'
      BY <1>2 DEF Tidy
    <2>1. late' = {} /\ \A q \in Procs : msg'[q].op = "error" => Rejected(q)'
      <3>1. \A g : TooLarge(g)' = TooLarge(g)
        BY <1>2 DEF TooLarge, FirstGroup
      <3> QED
        BY <1>2, <1>5, <1>9, <3>1 DEF Inv, Tidy, SameTask, Rejected
    <2>2. ASSUME ~dropped, NEW k \in chunks' PROVE Kept(k[1])'
      <3> DEFINE g == k[1]
      <3>1. CASE k \notin chunks
        <4>1. m.op = "insertChunks" /\ g = f /\ Putting(p) /\ ~Named(g)
          BY <1>1, <1>4, <1>6, <3>1 DEF PutMsg, TaskInv, Puts
        <4>2. KeptBy(p, g)'
          BY <1>2, <1>4, <4>1 DEF KeptBy, Putting
        <4> QED
          BY <4>2 DEF Kept
      <3>2. CASE k \in chunks /\ g \in files
        <4>1. m.op # "clearFiles"
          BY <1>1, <2>2 DEF TaskInv, Deletes
        <4>2. CASE g \in files'
          BY <4>2 DEF Kept
        <4>3. CASE g \notin files'
          <5>1. m.op = "deleteFile" /\ m.id = g
            BY <1>2, <3>2, <4>1, <4>3 DEF Execute
          <5>2. f = g /\ r.id = g
            BY <1>1, <1>2, <1>9, <3>2, <5>1 DEF TaskInv, Deletes
          <5>3. KeptBy(p, g)'
            BY <1>1, <1>2, <1>5, <1>9, <5>1, <5>2 DEF KeptBy
          <5> QED
            BY <5>3 DEF Kept
        <4> QED
          BY <4>2, <4>3
      <3>3. ASSUME k \in chunks, g \notin files PROVE Kept(g)'
        <4>1. PICK q \in Procs : KeptBy(q, g)
          BY <2>2, <3>3 DEF Inv, Tidy, Kept
        <4>2. CASE g \in files'
          BY <4>2 DEF Kept
        <4>3. CASE g \notin files'
          <5>1. Putting(q) /\ ~Named(g) => ~Named(g)'
            <6>1. m.op = "insertFile" => m.id \in files'
              BY <1>2 DEF Execute
            <6> QED
              BY <1>4, <4>3, <6>1
          <5>2. KeptBy(q, g)'
            <6>1. CASE q = p
              BY <1>1, <1>2, <4>1, <5>1, <6>1 DEF KeptBy, Putting
            <6>2. CASE q # p
              BY <1>5, <4>1, <5>1, <6>2 DEF KeptBy, Putting, SameTask
            <6> QED
              BY <6>1, <6>2
          <5> QED
            BY <5>2 DEF Kept
        <4> QED
          BY <4>2, <4>3
      <3> QED
        BY <3>1, <3>2, <3>3
    <2> QED
      BY <1>2, <2>1, <2>2 DEF Tidy, histVars
  <1> QED
    BY <1>4, <1>7, <1>8, <1>11, <1>12, <1>13, <1>14, <1>15, <1>16, <1>17, <1>18 DEF Inv, TaskInv

\* A task that gets an error is where it was.
LEMMA ErrorKept ==
    ASSUME TypeOK, Store, Frame, NEW p \in Procs, TaskInv(p),
           pc'[p] = pc[p], target'[p] = target[p], data'[p] = data[p],
           outcome'[p] = outcome[p], msg'[p] = Error, IsRequest(msg[p]),
           Putting(p) /\ ~Named(target[p]) => ~Named(target[p])'
    PROVE  TaskInv(p)'
  <1>1. msg'[p].op = "error" /\ pc[p] # "idle"
    <2>1. msg'[p].op = "error"
      BY DEF Error, Message
    <2>2. pc[p] = msg[p].op /\ msg[p].op \in Requests
      BY DEF TaskInv, Asks, IsRequest, TypeOK, Messages
    <2> QED
      BY <2>1, <2>2 DEF Requests
  <1>2. Asks(p)' /\ (IsRequest(msg[p]) => Sound(msg[p]))'
    BY <1>1 DEF Asks, IsRequest
  <1>3. Puts(p)'
    <2> SUFFICES ASSUME Putting(p) PROVE Puts(p)'
      BY DEF Puts, Putting
    <2>1. target[p] \in Ids /\ Used(target[p])
      BY DEF TaskInv, Puts, Used
    <2>2. Used(target[p])' /\ NumbersOf(target[p])' = NumbersOf(target[p])
      BY <2>1, FrameFile
    <2>3. ~Named(target[p]) /\ ~dropped' =>
              ~dropped /\ \A n : <<target[p], n>> \in chunks => <<target[p], n>> \in chunks'
      BY DEF Frame, Named
    <2> QED
      BY <1>1, <2>2, <2>3 DEF TaskInv, Puts, IsRequest
  <1>4. Deletes(p)'
    BY <1>1 DEF TaskInv, Deletes, Frame, IsRequest
  <1>5. Finds(p)'
    BY <1>1 DEF TaskInv, Finds, IsRequest
  <1>6. Reads(p)'
    <2> SUFFICES ASSUME Named(target[p]) PROVE Reads(p)'
      BY DEF TaskInv, Reads
    <2>1. target[p] \in Ids /\ Used(target[p])
      BY DEF Named, Store
    <2>2. /\ Named(target[p])' /\ NumbersOf(target[p])' = NumbersOf(target[p])
          /\ FirstOf(target[p])' = FirstOf(target[p]) /\ (Gone(target[p]) => Gone(target[p])')
      BY <2>1, FrameFile
    <2> QED
      BY <1>1, <2>2 DEF TaskInv, Reads, IsRequest
  <1> QED
    BY <1>2, <1>3, <1>4, <1>5, <1>6 DEF TaskInv

\* A request fails; some of its chunks may be there.
LEMMA RefuseStep ==
    ASSUME Inv, NEW p \in Procs, Refuse(p)
    PROVE  Inv'
  <1> DEFINE m == msg[p]
  <1>1. TypeOK /\ Store /\ Once /\ TaskInv(p) /\ m \in Messages /\ Sound(m) /\ pc[p] = m.op
    BY DEF Inv, TypeOK, TaskInv, Asks, Refuse
  <1>2. /\ IsRequest(m) /\ faults' = faults + 1 /\ faults < MaxFaults
        /\ msg' = [msg EXCEPT ![p] = Error]
        /\ UNCHANGED <<meta, pc, target, check, data, outcome, late, histVars, ops>>
    BY DEF Refuse
  <1>3. msg'[p] = Error /\ \A q \in Procs \ {p} : SameTask(q)
    BY <1>1, <1>2 DEF TypeOK, SameTask
  <1>4. msg' \in [Procs -> Messages] /\ faults' \in 0..MaxFaults /\ faults' # 0
    <2>1. Error \in Messages
      BY MessageType DEF Error
    <2>2. faults' \in 0..MaxFaults /\ faults' # 0
      BY <1>1, <1>2, BoundsAssumption DEF TypeOK
    <2> QED
      BY <1>1, <1>2, <2>1, <2>2 DEF TypeOK
  <1>5. Tidy'
    BY <1>4 DEF Tidy
  <1>6. Once'
    BY <1>1, <1>2, OnceKept
  <1>7. CASE UNCHANGED srvVars
    <2>1. TypeOK'
      BY <1>1, <1>2, <1>4, <1>7 DEF TypeOK, srvVars, histVars, NumbersOf
    <2>2. Frame /\ \A g : Named(g)' = Named(g)
      BY <1>2, <1>7 DEF Frame, srvVars, histVars, Empty, Named
    <2>3. TaskInv(p)'
      BY <1>1, <1>2, <1>3, <2>2, ErrorKept
    <2> QED
      BY <1>2, <1>3, <1>4, <1>7, <2>1, <2>3, TaskStep DEF srvVars, histVars, Putting
  <1>8. ASSUME m.op = "insertChunks", Accepted(m), NEW n \in 1..Cardinality(m.ns)-1,
               Execute([m EXCEPT !.ns = Front(@, n)])
        PROVE  Inv'
    <2> DEFINE part == [m EXCEPT !.ns = Front(@, n)]
    <2>1. /\ part.op = "insertChunks" /\ part.id = m.id
          /\ part.ns = Front(m.ns, n) /\ part.rest = m.rest
      BY <1>8
    <2>2. Front(m.ns, n) \subseteq m.ns
      BY FrontIn
    <2>3. part \in Messages
      BY <1>1, <2>2 DEF Messages
    <2>4. Execute(part) /\ Accepted(part)
      BY <1>8, <2>1 DEF Accepted
    <2> HIDE DEF part
    <2>5. Sound(part)
      BY <1>1, <1>8, <2>1, <2>2 DEF Sound, PutMsg
    <2>6. Frame /\ Store' /\ \A g : Named(g)' => Named(g)
      BY <1>1, <1>2, <2>1, <2>3, <2>4, <2>5, ExecuteStep DEF histVars
    <2>7. Putting(p) /\ m.id = target[p] /\ PutMsg(m)
      BY <1>1, <1>2, <1>8 DEF Putting, TaskInv, Puts, PutMsg
    <2>8. \A q \in Procs \ {p} : PutMsg(part) /\ Putting(q) => part.id # target[q]
      BY <1>1, <2>1, <2>7 DEF Once
    <2>9. \A k \in late' : k \in late /\ (PutMsg(part) /\ PutMsg(k) => part.id # k.id)
      BY <1>1, <1>2, <2>1, <2>7 DEF Once
    <2>10. /\ \A k \in late' : Sound(k)'
           /\ \A q \in Procs \ {p} : TaskInv(q)'
      BY <1>2, <1>3, <2>3, <2>4, <2>5, <2>8, <2>9, ExecuteOthers DEF histVars
    <2>11. TaskInv(p)'
      <3> QED
        BY <1>1, <1>2, <1>3, <2>6, ErrorKept
    <2>12. TypeOK'
      <3>1. \A k \in chunks' : k[1] \in Ids /\ k[2] \in NumbersOf(k[1])'
        BY <2>6 DEF Store, Used
      <3>2. files' \subseteq Ids /\ removed' \subseteq Ids
        BY <2>6 DEF Store
      <3> QED
        BY <1>1, <1>2, <1>4, <3>1, <3>2 DEF TypeOK, histVars
    <2> QED
      BY <1>5, <1>6, <2>6, <2>10, <2>11, <2>12 DEF Inv
  <1> QED
    BY <1>7, <1>8 DEF Refuse

\* A command that is too large has done nothing.
LEMMA RefuseLargeStep ==
    ASSUME Inv, NEW p \in Procs, RefuseLarge(p)
    PROVE  Inv'
  <1> USE DEF RefuseLarge, srvVars, histVars
  <1>1. TypeOK /\ Store /\ TaskInv(p) /\ msg[p] \in Messages /\ pc[p] = msg[p].op
    BY DEF Inv, TypeOK, TaskInv, Asks
  <1>2. msg'[p] = Error /\ \A q \in Procs \ {p} : SameTask(q)
    BY <1>1 DEF TypeOK, SameTask
  <1>3. TypeOK'
    <2>1. Error \in Messages
      BY MessageType DEF Error
    <2> QED
      BY <1>1, <2>1 DEF TypeOK, NumbersOf
  <1>4. Frame /\ \A g : Named(g)' = Named(g)
    BY DEF Frame, Empty, Named
  <1>5. TaskInv(p)'
    BY <1>1, <1>2, <1>4, ErrorKept
  <1>6. Rejected(p)'
    <2>1. msg[p].op = "insertChunks" /\ TooLarge(msg[p].id)
      BY DEF Accepted
    <2>2. msg[p].id = target[p]
      BY <1>1, <2>1 DEF TaskInv, Puts, Putting
    <2>3. TooLarge(target[p])' = TooLarge(target[p])
      BY DEF TooLarge, FirstGroup
    <2> QED
      BY <1>1, <2>1, <2>2, <2>3 DEF Rejected
  <1>7. faults' = 0 /\ ~dropped' =>
          \A f \in Ids \ files : ~Empty(f) /\ KeptBy(p, f) => KeptBy(p, f)'
    BY <1>1, <1>4, <1>6 DEF KeptBy, Rejected, Putting
  <1> QED
    BY <1>2, <1>3, <1>5, <1>6, <1>7, TaskStep DEF Putting

-----------------------------------------------------------------------------
(* The theorems                                                            *)

\* Nothing is there, and every task is idle.
LEMMA InitInv == Init => Inv
  <1> SUFFICES ASSUME Init PROVE Inv
    OBVIOUS
  <1>1. TypeOK
    <2>1. meta \in [Ids -> [size : Sizes \cup {0}, chunk : ChunkSizes \cup {1}, sha1 : BOOLEAN]]
      BY DEF Init, Unused
    <2>2. msg \in [Procs -> Messages]
      <3>1. NoMsg \in Messages
        BY MessageType DEF NoMsg
      <3> QED
        BY <3>1 DEF Init
    <2>3. ops \in 0..MaxOps /\ faults \in 0..MaxFaults
      BY BoundsAssumption DEF Init
    <2> QED
      BY <2>1, <2>2, <2>3 DEF Init, TypeOK
  <1>2. Store
    BY DEF Init, Store
  <1>3. Once
    BY DEF Init, Once, Putting
  <1>4. \A p \in Procs : TaskInv(p)
    BY DEF Init, TaskInv, Asks, Puts, Deletes, Finds, Reads, Putting, IsRequest, NoMsg, Message
  <1>5. Tidy
    BY DEF Init, Tidy, NoMsg, Message
  <1> QED
    BY <1>1, <1>2, <1>3, <1>4, <1>5 DEF Inv, Init

\* Each step of a task or of the server keeps it.
LEMMA NextInv == Inv /\ [Next]_vars => Inv'
  <1> SUFFICES ASSUME Inv, [Next]_vars PROVE Inv'
    OBVIOUS
  <1>1. ASSUME NEW p \in Procs, Put(p) PROVE Inv'
    <2>1. CASE PutRaises(p)
      BY <2>1, PutRaisesStep
    <2>2. ASSUME NEW f \in Ids, NEW s \in Sizes, NEW c \in ChunkSizes, NEW h \in BOOLEAN,
                 PutSends(p, f, s, c, h)
          PROVE  Inv'
      BY <2>2, PutSendsStep
    <2> QED
      BY <1>1, <2>1, <2>2, PutCases
  <1>2. ASSUME NEW p \in Procs, ChunksStored(p) \/ FileStored(p) PROVE Inv'
    BY <1>2, ChunksStoredStep, FileStoredStep
  <1>3. ASSUME NEW p \in Procs, Get(p) \/ NameFound(p) \/ FileFound(p) PROVE Inv'
    BY <1>3, GetStep, NameFoundStep, FileFoundStep
  <1>4. ASSUME NEW p \in Procs, ChunksRead(p) \/ MoreRead(p) PROVE Inv'
    BY <1>4, ChunksReadStep, MoreReadStep
  <1>5. ASSUME NEW p \in Procs, Delete(p) \/ FileDeleted(p) \/ ChunksDeleted(p) PROVE Inv'
    BY <1>5, DeleteStep, FileDeletedStep, ChunksDeletedStep
  <1>6. ASSUME NEW p \in Procs, DropAllFiles(p) \/ ChunksCleared(p) \/ FilesCleared(p)
        PROVE  Inv'
    BY <1>6, DropAllFilesStep, ChunksClearedStep, FilesClearedStep
  <1>7. ASSUME NEW p \in Procs,
               RequestRaises(p) \/ GiveUp(p) \/ Serve(p) \/ RefuseLarge(p) \/ Refuse(p)
        PROVE  Inv'
    BY <1>7, RequestRaisesStep, GiveUpStep, ServeStep, RefuseLargeStep, RefuseStep
  <1>8. CASE ServeLate
    BY <1>8, ServeLateStep
  <1>9. CASE UNCHANGED vars
    <2> USE <1>9 DEF vars
    <2>1. TypeOK /\ Store /\ Once
      BY DEF Inv
    <2>2. TypeOK'
      BY <2>1 DEF TypeOK, NumbersOf
    <2>3. Frame /\ \A f : Named(f)' = Named(f)
      BY DEF Frame, Empty, Named
    <2>4. \A q \in Procs : SameTask(q) /\ (~Named(target[q]) => ~Named(target[q])')
      BY DEF SameTask, Named
    <2>5. \A q \in Procs : TaskInv(q)'
      BY <2>3, <2>4, SameTaskKept DEF Inv
    <2>6. \A m \in late' : Sound(m)'
      <3>1. \A m \in late' : m \in Messages /\ Sound(m) /\ (PutMsg(m) => ~Named(m.id)')
        BY <2>3 DEF Inv, TypeOK, Sound
      <3> QED
        BY <2>1, <2>3, <3>1, SameRequest
    <2>7. Store'
      BY <2>1 DEF Store, Used, Whole, Empty, NumbersOf, TooLarge, FirstGroup
    <2>8. Once'
      BY <2>1, OnceKept
    <2>9. Tidy'
      BY DEF Inv, Tidy, Kept, KeptBy, Named, Putting, Rejected, TooLarge, FirstGroup
    <2> QED
      BY <2>2, <2>5, <2>6, <2>7, <2>8, <2>9 DEF Inv
  <1> QED
    BY <1>1, <1>2, <1>3, <1>4, <1>5, <1>6, <1>7, <1>8, <1>9 DEF Next

\* Every variable keeps its type (gridfs.py:109-259).
THEOREM TypeCorrect == Spec => []TypeOK
  <1>1. Inv => TypeOK
    BY DEF Inv
  <1> QED
    BY InitInv, NextInv, <1>1, PTL DEF Spec

\* A file that can be found has all of its chunks, as long as nothing is dropped
\* (gridfs.py:147-174, 248-250).
THEOREM ListedIsWholeCorrect == Spec => []ListedIsWhole
  <1>1. Inv => ListedIsWhole
    BY DEF Inv, Store, ListedIsWhole, Whole, Stored
  <1> QED
    BY InitInv, NextInv, <1>1, PTL DEF Spec

\* Of a file that delete() returned True for nothing is left, and nothing comes
\* back (gridfs.py:235-250).
THEOREM DeletedIsGoneCorrect == Spec => []DeletedIsGone
  <1>1. Inv => DeletedIsGone
    BY DEF Inv, Store, DeletedIsGone, Empty, Stored
  <1> QED
    BY InitInv, NextInv, <1>1, PTL DEF Spec

\* A get that found its file returns all of the data, of a file that two replies
\* carry and that nobody deletes, and where it does not a sha1 that it checks tells
\* (gridfs.py:197-211, collection.py:437-447).
THEOREM ReadIsCompleteCorrect == Spec => []ReadIsComplete
  <1>1. Inv => ReadIsComplete
    <2> SUFFICES ASSUME Inv, NEW p \in Procs, outcome[p] \in {"read", "mismatch"}, pc[p] = "idle"
                 PROVE  \/ data[p] = NumbersOf(target[p])
                        \/ /\ \/ target[p] \in removed \/ dropped
                              \/ Cardinality(NumbersOf(target[p])) > TwoReplies(target[p])
                           /\ ~(outcome[p] = "read" /\ check[p] /\ meta[target[p]].sha1)
      BY DEF ReadIsComplete
    <2>1. /\ Named(target[p])
          /\ Gone(target[p]) \/ ~Fits(target[p]) \/ data[p] = NumbersOf(target[p])
          /\ outcome[p] = "read" /\ check[p] /\ meta[target[p]].sha1
               => data[p] = NumbersOf(target[p])
      BY DEF Inv, TaskInv, Reads
    <2>2. target[p] \in Ids
      BY <2>1 DEF Inv, Named, Store
    <2>3. Cardinality(NumbersOf(target[p])) \in Nat /\ TwoReplies(target[p]) \in Nat
      BY <2>2, NumbersOfFile DEF Inv, TwoReplies
    <2> QED
      BY <2>1, <2>3 DEF Gone, Fits
  <1> QED
    BY InitInv, NextInv, <1>1, PTL DEF Spec

\* Where nothing failed and nothing was dropped, chunks without a document belong
\* to a put or a delete under way; a put whose chunks are too large leaves none
\* (gridfs.py:91-107, 147-174, 235-259).
THEOREM NoOrphansCorrect == Spec => []NoOrphans
  <1>1. Inv => NoOrphans
    <2> SUFFICES ASSUME Inv, NEW k \in chunks, faults = 0, ~dropped
                 PROVE  \/ k[1] \in files
                        \/ \E p \in Procs : target[p] = k[1]
                             /\ pc[p] \in {"insertChunks", "insertFile",
                                       "deleteFile", "deleteChunks"}
      BY DEF NoOrphans, Inv, TypeOK
    <2> QED
      BY DEF Inv, Tidy, Kept, KeptBy, Putting
  <1> QED
    BY InitInv, NextInv, <1>1, PTL DEF Spec

-----------------------------------------------------------------------------
(* GridFS implements Bucket                                                *)

\* Requests that are about no file in particular name none.
Nameless == {"findName", "clearChunks", "clearFiles"}
Lasting == {"insertFile", "deleteFile", "clearFiles"}
Plain(m) ==
    /\ m.op \in Lasting => m = Ask(m.op, m.id)
    /\ m.op = "clearFiles" => m.id = NoId
Orderly ==
    /\ \A p \in Procs :
        /\ pc[p] \in Nameless => target[p] = NoId
        /\ pc[p] = "idle" => msg[p] = NoMsg
        /\ Plain(msg[p])
    /\ \A m \in late : Plain(m)

Others(p) == \A q \in Procs \ {p} : SameTask(q)

LEMMA OrderlyTask ==
    ASSUME Orderly, NEW p \in Procs, Others(p),
           pc'[p] \in Nameless => target'[p] = NoId,
           pc'[p] = "idle" => msg'[p] = NoMsg,
           Plain(msg'[p]), \A m \in late' : m \in late \/ m = msg[p]
    PROVE  Orderly'
  BY DEF Orderly, Others, SameTask

\* Steps of one task leave the others alone.
LEMMA TaskAlone ==
    ASSUME NEW p \in Procs, TypeOK,
           \/ Put(p) \/ ChunksStored(p) \/ FileStored(p)
           \/ Get(p) \/ NameFound(p) \/ FileFound(p) \/ ChunksRead(p) \/ MoreRead(p)
           \/ Delete(p) \/ FileDeleted(p) \/ ChunksDeleted(p)
           \/ DropAllFiles(p) \/ ChunksCleared(p) \/ FilesCleared(p)
           \/ RequestRaises(p) \/ GiveUp(p) \/ Serve(p) \/ RefuseLarge(p) \/ Refuse(p)
    PROVE  Others(p)
  <1> USE DEF Others, SameTask, Send, Done
  <1>1. ASSUME Put(p) \/ ChunksStored(p) \/ FileStored(p) \/ Get(p) PROVE Others(p)
    BY <1>1 DEF TypeOK, Put, ChunksStored, FileStored, Get
  <1>2. ASSUME NameFound(p) \/ FileFound(p) PROVE Others(p)
    BY <1>2 DEF TypeOK, NameFound, FileFound
  <1>3. ASSUME ChunksRead(p) \/ MoreRead(p) PROVE Others(p)
    BY <1>3 DEF TypeOK, ChunksRead, MoreRead, Deliver
  <1>4. ASSUME Delete(p) \/ FileDeleted(p) \/ ChunksDeleted(p) PROVE Others(p)
    BY <1>4 DEF TypeOK, Delete, FileDeleted, ChunksDeleted
  <1>5. ASSUME DropAllFiles(p) \/ ChunksCleared(p) \/ FilesCleared(p) PROVE Others(p)
    BY <1>5 DEF TypeOK, DropAllFiles, ChunksCleared, FilesCleared
  <1>6. ASSUME RequestRaises(p) \/ GiveUp(p) PROVE Others(p)
    BY <1>6 DEF TypeOK, RequestRaises, GiveUp
  <1>7. ASSUME Serve(p) \/ RefuseLarge(p) \/ Refuse(p) PROVE Others(p)
    BY <1>7 DEF TypeOK, Serve, RefuseLarge, Refuse
  <1> QED
    BY <1>1, <1>2, <1>3, <1>4, <1>5, <1>6, <1>7

\* A task ends, or asks for what a reply has led it to.
LEMMA EndOrAsk ==
    ASSUME NEW p \in Procs, TypeOK,
           \/ \E x : Done(p, x)
           \/ \E o \in {"findFile", "aggregate", "deleteChunks"} : \E f : Send(p, Ask(o, f))
           \/ \E f, s : Send(p, More(f, s))
    PROVE  /\ pc'[p] \in Nameless => target'[p] = NoId
           /\ pc'[p] = "idle" => msg'[p] = NoMsg
           /\ Plain(msg'[p])
  <1> USE DEF Plain, Lasting, Nameless
  <1>1. NoMsg.op = "none"
    BY DEF NoMsg, Message
  <1>2. ASSUME NEW x, Done(p, x) PROVE pc'[p] = "idle" /\ msg'[p] = NoMsg
    BY <1>2 DEF TypeOK, Done
  <1>3. ASSUME NEW o \in {"findFile", "aggregate", "deleteChunks"}, NEW f, Send(p, Ask(o, f))
        PROVE  pc'[p] = o /\ msg'[p].op = o
    BY <1>3 DEF TypeOK, Send, Ask, Message
  <1>4. ASSUME NEW f, NEW s, Send(p, More(f, s))
        PROVE  pc'[p] = "getMore" /\ msg'[p].op = "getMore"
    BY <1>4 DEF TypeOK, Send, More, Message
  <1> QED
    BY <1>1, <1>2, <1>3, <1>4

LEMMA OrderlyStep == Inv /\ Orderly /\ [Next]_vars => Orderly'
  <1> SUFFICES ASSUME Inv, Orderly, [Next]_vars PROVE Orderly'
    OBVIOUS
  <1>0. TypeOK
    BY DEF Inv
  <1> USE DEF Plain, Lasting, Nameless
  <1>1. ASSUME NEW p \in Procs,
               \/ Put(p) \/ ChunksStored(p) \/ FileStored(p) \/ Get(p)
               \/ NameFound(p) \/ FileFound(p) \/ ChunksRead(p) \/ MoreRead(p)
        PROVE  Orderly'
    <2>1. /\ pc'[p] \in Nameless => target'[p] = NoId
          /\ pc'[p] = "idle" => msg'[p] = NoMsg
          /\ Plain(msg'[p])
          /\ late' = late
      <3>1. CASE Put(p)
        BY <1>0, <3>1 DEF TypeOK, Put, Send, Insert, Message, Orderly
      <3>2. CASE ChunksStored(p)
        <4>1. /\ late' = late /\ target' = target
              /\ \/ \E s : Send(p, Insert(target[p], s))
                 \/ Send(p, Ask("insertFile", target[p]))
          BY <3>2 DEF ChunksStored
        <4>2. CASE Send(p, Ask("insertFile", target[p]))
          BY <1>0, <4>1, <4>2 DEF TypeOK, Send, Ask, Message
        <4>3. ASSUME NEW s, Send(p, Insert(target[p], s))
              PROVE  pc'[p] = "insertChunks" /\ msg'[p].op = "insertChunks"
          BY <1>0, <4>3 DEF TypeOK, Send, Insert, Message
        <4> QED
          BY <4>1, <4>2, <4>3
      <3>3. CASE FileStored(p)
        BY <1>0, <3>3 DEF TypeOK, FileStored, Done, NoMsg, Message
      <3>4. CASE Get(p)
        BY <1>0, <3>4 DEF TypeOK, Get, Send, Ask, Message
      <3>5. CASE NameFound(p) \/ FileFound(p)
        BY <1>0, <3>5, EndOrAsk DEF NameFound, FileFound
      <3>6. CASE ChunksRead(p) \/ MoreRead(p)
        BY <1>0, <3>6, EndOrAsk DEF ChunksRead, MoreRead, Deliver
      <3> QED
        BY <1>1, <3>1, <3>2, <3>3, <3>4, <3>5, <3>6
    <2> QED
      BY <1>0, <1>1, <2>1, TaskAlone, OrderlyTask
  <1>2. ASSUME NEW p \in Procs,
               \/ Delete(p) \/ FileDeleted(p) \/ ChunksDeleted(p)
               \/ DropAllFiles(p) \/ ChunksCleared(p) \/ FilesCleared(p)
               \/ RequestRaises(p) \/ GiveUp(p)
        PROVE  Orderly'
    <2>1. /\ pc'[p] \in Nameless => target'[p] = NoId
          /\ pc'[p] = "idle" => msg'[p] = NoMsg
          /\ Plain(msg'[p])
          /\ \A m \in late' : m \in late \/ m = msg[p]
      <3>1. CASE Delete(p)
        BY <1>0, <3>1 DEF TypeOK, Delete, Send, Ask, Message
      <3>2. CASE FileDeleted(p) \/ ChunksDeleted(p)
        BY <1>0, <3>2, EndOrAsk DEF FileDeleted, ChunksDeleted
      <3>4. CASE DropAllFiles(p)
        BY <1>0, <3>4 DEF TypeOK, DropAllFiles, Send, Ask, Message
      <3>5. CASE ChunksCleared(p)
        BY <1>0, <3>5 DEF TypeOK, ChunksCleared, Replied, Send, Ask, Message, Orderly
      <3>6. CASE FilesCleared(p)
        BY <1>0, <3>6 DEF TypeOK, FilesCleared, Done, NoMsg, Message
      <3>3. CASE RequestRaises(p) \/ GiveUp(p)
        <4>1. Done(p, "raised") /\ \A m \in late' : m \in late \/ m = msg[p]
          BY <3>3 DEF RequestRaises, GiveUp
        <4> QED
          BY <1>0, <4>1, EndOrAsk
      <3> QED
        BY <1>2, <3>1, <3>2, <3>3, <3>4, <3>5, <3>6
    <2> QED
      BY <1>0, <1>2, <2>1, TaskAlone, OrderlyTask
  <1>3. ASSUME NEW p \in Procs, Serve(p) \/ RefuseLarge(p) \/ Refuse(p) PROVE Orderly'
    <2>1. /\ UNCHANGED <<pc, target, late>> /\ pc[p] # "idle"
          /\ msg'[p].op \in {"reply", "error"}
      <3>0. pc[p] # "idle"
        BY <1>3 DEF Serve, RefuseLarge, Refuse, Orderly, IsRequest, NoMsg, Message
      <3>1. CASE Serve(p)
        <4>1. PICK r \in AnswersTo(msg[p]) : msg' = [msg EXCEPT ![p] = r]
          BY <3>1 DEF Serve
        <4>2. r.op = "reply"
          BY DEF AnswersTo, Batch, Answer, Message
        <4> QED
          BY <1>0, <3>0, <3>1, <4>1, <4>2 DEF TypeOK, Serve
      <3>2. CASE RefuseLarge(p) \/ Refuse(p)
        BY <1>0, <3>0, <3>2 DEF TypeOK, RefuseLarge, Refuse, Error, Message
      <3> QED
        BY <1>3, <3>1, <3>2
    <2> QED
      BY <1>0, <1>3, <2>1, TaskAlone, OrderlyTask DEF Orderly
  <1>4. CASE ServeLate
    BY <1>4 DEF ServeLate, Orderly
  <1>5. CASE UNCHANGED vars
    BY <1>5 DEF vars, Orderly
  <1> QED
    BY <1>1, <1>2, <1>3, <1>4, <1>5 DEF Next

LEMMA OrderlyInit == Init => Orderly
  BY DEF Init, Orderly, Plain, Lasting, NoMsg, Message

\* What the mapping makes of each place an operation can be at.
At(p, o, f, s) == Calls[p] = [op |-> o, id |-> f, met |-> s]
Table(p) ==
    LET f == target[p]
        i == msg[p].id
        answered == msg[p].op = "reply" IN
    /\ pc[p] = "idle" => At(p, "none", NoId, "nothing")
    /\ pc[p] = "insertChunks" => At(p, "put", f, "nothing")
    /\ pc[p] = "insertFile" /\ ~answered => At(p, "put", f, "nothing")
    /\ pc[p] = "insertFile" /\ answered => At(p, "put", f, "there")
    /\ pc[p] \in {"findName", "findFile"} /\ ~answered => At(p, "get", f, "nothing")
    /\ pc[p] = "findName" /\ answered /\ i = NoId => At(p, "get", NoId, "absent")
    /\ pc[p] = "findName" /\ answered /\ i # NoId => At(p, "get", i, "nothing")
    /\ pc[p] = "findFile" /\ answered /\ i = NoId => At(p, "get", f, "absent")
    /\ pc[p] = "findFile" /\ answered /\ i # NoId => At(p, "get", f, "there")
    /\ pc[p] \in {"aggregate", "getMore"} => At(p, "get", f, "there")
    /\ pc[p] = "deleteFile" /\ ~answered => At(p, "delete", f, "nothing")
    /\ pc[p] = "deleteFile" /\ answered /\ i = NoId => At(p, "delete", f, "absent")
    /\ pc[p] = "deleteFile" /\ answered /\ i # NoId => At(p, "delete", f, "there")
    /\ pc[p] = "deleteChunks" => At(p, "delete", f, "there")
    /\ pc[p] = "clearChunks" => At(p, "drop", f, "nothing")
    /\ pc[p] = "clearFiles" /\ ~answered => At(p, "drop", f, "nothing")
    /\ pc[p] = "clearFiles" /\ answered => At(p, "drop", f, "there")

LEMMA TableHolds == \A p \in Procs : Table(p)
  <1> SUFFICES ASSUME NEW p \in Procs PROVE Table(p)
    OBVIOUS
  <1>1. Calls[p] = [op |-> Doing(p), id |-> About(p),
                    met |-> IF MetIt(p) THEN "there"
                            ELSE IF MissedIt(p) THEN "absent" ELSE "nothing"]
    BY DEF Calls
  <1>2. ASSUME pc[p] \in {"idle", "insertChunks", "insertFile", "clearChunks", "clearFiles",
                          "aggregate", "getMore", "deleteChunks"}
        PROVE  Table(p)
    BY <1>1 DEF Table, At, Doing, About, MetIt, MissedIt, Looked, Replied
  <1>3. ASSUME pc[p] \in {"findName", "findFile", "deleteFile"} PROVE Table(p)
    BY <1>1 DEF Table, At, Doing, About, MetIt, MissedIt, Looked, Replied
  <1> QED
    BY <1>2, <1>3 DEF Table

LEMMA TableNext == (\A p \in Procs : Table(p))'
  BY TableHolds, PTL

\* A step of one task changes its own call only.
LEMMA OneCall ==
    ASSUME NEW p \in Procs, Others(p), NEW c, Calls'[p] = c
    PROVE  Calls' = [Calls EXCEPT ![p] = c]
  <1>1. \A q \in Procs : q # p => Calls'[q] = Calls[q]
    BY DEF Others, SameTask, Calls, Doing, About, MetIt, MissedIt, Looked, Replied
  <1>2. Calls = [q \in Procs |-> Calls[q]] /\ Calls' = [q \in Procs |-> Calls'[q]]
    BY DEF Calls
  <1> QED
    BY <1>1, <1>2

\* Steps within a call.
LEMMA QuietCall ==
    ASSUME NEW p \in Procs, Others(p), Calls'[p] = Calls[p],
           UNCHANGED <<files, removed, late, outcome>>
    PROVE  UNCHANGED B!bucketVars
  <1>1. Calls' = [Calls EXCEPT ![p] = Calls[p]]
    BY OneCall
  <1>2. Calls' = Calls
    BY <1>1 DEF Calls
  <1> QED
    BY <1>2 DEF B!bucketVars, Owed

\* What a place tells of its call.
LEMMA AtBears ==
    ASSUME NEW p \in Procs, NEW o, NEW f, NEW s, At(p, o, f, s), NEW r
    PROVE  B!Bears(Calls[p], r) <=> B!Bears([op |-> o, id |-> f, met |-> s], r)
  BY DEF At

\* A call comes back with a result that it met.
LEMMA ReturnCall ==
    ASSUME NEW p \in Procs, Others(p), NEW r, B!Bears(Calls[p], r),
           r \in {"stored", "read", "mismatch", "notFound", "deleted", "notDeleted", "dropped"},
           pc'[p] = "idle", outcome' = [outcome EXCEPT ![p] = r],
           UNCHANGED <<files, removed, late>>
    PROVE  B!Return(p)
  <1>1. Calls'[p] = B!NoCall
    BY TableNext DEF Table, At, B!NoCall, B!Call
  <1>2. Calls' = [Calls EXCEPT ![p] = B!NoCall]
    BY <1>1, OneCall
  <1>3. Owed' = Owed
    BY DEF Owed
  <1> QED
    BY <1>2, <1>3 DEF B!Return

\* A call begins.
LEMMA BeginCall ==
    ASSUME NEW p \in Procs, Others(p), pc[p] = "idle",
           NEW o \in {"put", "get", "delete", "drop"}, NEW f \in Ids \cup {NoId},
           o = "put" => f \in Ids /\ B!Unheard(f),
           o = "delete" => f \in Ids,
           o = "drop" => f = NoId,
           (At(p, o, f, "nothing"))',
           UNCHANGED <<files, removed, late, outcome>>
    PROVE  B!Begin(p)
  <1>1. Calls[p] = B!NoCall
    BY TableHolds DEF Table, At, B!NoCall, B!Call
  <1>2. Calls' = [Calls EXCEPT ![p] = B!Call(o, f, "nothing")]
    BY OneCall DEF At, B!Call
  <1>3. Owed' = Owed
    BY DEF Owed
  <1> QED
    BY <1>1, <1>2, <1>3 DEF B!Begin

\* A put that has nothing to store raises; else it is about a new file.
LEMMA PutBucket ==
    ASSUME Inv, Orderly, NEW p \in Procs, Put(p)
    PROVE  B!Begin(p) \/ B!Reject(p)
  <1>0. TypeOK /\ Others(p)
    BY TaskAlone DEF Inv
  <1>1. CASE PutRaises(p)
    <2>1. Calls[p] = B!NoCall /\ Calls'[p] = B!NoCall
      BY <1>1, TableHolds, TableNext DEF PutRaises, Begin, Table, At, B!NoCall, B!Call
    <2>2. Calls' = [Calls EXCEPT ![p] = B!NoCall]
      BY <1>0, <2>1, OneCall
    <2>3. Calls' = Calls /\ Owed' = Owed
      BY <1>1, <2>1, <2>2 DEF PutRaises, Calls, Owed
    <2> QED
      BY <1>1, <2>1, <2>3 DEF PutRaises, srvVars, B!Reject
  <1>2. ASSUME NEW f \in Ids, NEW s \in Sizes, NEW c \in ChunkSizes, NEW h \in BOOLEAN,
               PutSends(p, f, s, c, h)
        PROVE  B!Begin(p)
    <2>1. /\ pc[p] = "idle" /\ pc'[p] = "insertChunks" /\ target'[p] = f /\ meta[f] = Unused
          /\ UNCHANGED <<files, removed, late, outcome>>
      BY <1>0, <1>2 DEF PutSends, Begin, Send, Insert, Message, srvVars, TypeOK
    <2>2. B!Unheard(f)
      <3>1. f \notin files \cup removed
        BY <2>1 DEF Inv, Store, Used
      <3>2. [op |-> "put", id |-> f] \notin Owed
        <4>1. ASSUME NEW m \in late, m.op = "insertFile" PROVE m.id # f
          BY <2>1, <4>1 DEF Inv, Sound, PutMsg, Used
        <4>2. ASSUME NEW m \in late, m.op \in {"deleteFile", "clearFiles"} PROVE Due(m.op) # "put"
          BY <4>2 DEF Due
        <4> QED
          BY <4>1, <4>2 DEF Owed
      <3>3. ASSUME NEW q \in Procs, Calls[q].op = "put" PROVE Calls[q].id # f
        <4>1. Calls[q].op = Doing(q) /\ Calls[q].id = About(q)
          BY DEF Calls
        <4>2. Putting(q)
          BY <3>3, <4>1 DEF Doing, Putting
        <4>3. Calls[q].id = target[q] /\ Used(target[q])
          BY <4>1, <4>2 DEF About, Replied, Putting, Inv, TaskInv, Puts
        <4> QED
          BY <2>1, <4>3 DEF Used
      <3> QED
        BY <3>1, <3>2, <3>3 DEF B!Unheard, B!Work
    <2>3. (At(p, "put", f, "nothing"))'
      BY <2>1, TableNext DEF Table
    <2> QED
      BY <1>0, <2>1, <2>2, <2>3, BeginCall
  <1> QED
    BY <1>1, <1>2, PutCases

LEMMA GetBucket ==
    ASSUME Inv, Orderly, NEW p \in Procs, Get(p)
    PROVE  B!Begin(p)
  <1>0. TypeOK /\ Others(p)
    BY TaskAlone DEF Inv
  <1>1. pc[p] = "idle" /\ UNCHANGED <<files, removed, late, outcome>>
    BY DEF Get, Begin, srvVars
  <1>2. PICK f \in Ids \cup {NoId} :
          target'[p] = f /\ pc'[p] \in {"findFile", "findName"} /\ msg'[p].op # "reply"
    BY <1>0 DEF Get, Send, Ask, Message, TypeOK
  <1>3. (At(p, "get", f, "nothing"))'
    BY <1>2, TableNext DEF Table
  <1> QED
    BY <1>0, <1>1, <1>3, BeginCall

LEMMA DeleteBucket ==
    ASSUME Inv, Orderly, NEW p \in Procs, Delete(p)
    PROVE  B!Begin(p)
  <1>0. TypeOK /\ Others(p)
    BY TaskAlone DEF Inv
  <1>1. pc[p] = "idle" /\ UNCHANGED <<files, removed, late, outcome>>
    BY DEF Delete, Begin, srvVars
  <1>2. PICK f \in Ids : target'[p] = f /\ pc'[p] = "deleteFile" /\ msg'[p].op # "reply"
    BY <1>0 DEF Delete, Send, Ask, Message, TypeOK
  <1>3. (At(p, "delete", f, "nothing"))'
    BY <1>2, TableNext DEF Table
  <1> QED
    BY <1>0, <1>1, <1>3, BeginCall

LEMMA DropBucket ==
    ASSUME Inv, Orderly, NEW p \in Procs, DropAllFiles(p)
    PROVE  B!Begin(p)
  <1>0. TypeOK /\ Others(p)
    BY TaskAlone DEF Inv
  <1>1. /\ pc[p] = "idle" /\ UNCHANGED <<files, removed, late, outcome>>
        /\ target'[p] = NoId /\ pc'[p] = "clearChunks"
    BY <1>0 DEF DropAllFiles, Begin, Send, Ask, Message, srvVars, TypeOK
  <1>2. (At(p, "drop", NoId, "nothing"))'
    BY <1>1, TableNext DEF Table
  <1> QED
    BY <1>0, <1>1, <1>2, BeginCall

\* What the tasks do with the replies: they go on within the call, or return.
LEMMA PutGoesOn ==
    ASSUME Inv, Orderly, NEW p \in Procs, ChunksStored(p) \/ FileStored(p)
    PROVE  B!Return(p) \/ UNCHANGED B!bucketVars
  <1>0. TypeOK /\ Others(p)
    BY TaskAlone DEF Inv
  <1>1. CASE ChunksStored(p)
    <2>1. /\ pc[p] = "insertChunks" /\ target' = target
          /\ UNCHANGED <<files, removed, late, outcome>>
          /\ \/ \E s : Send(p, Insert(target[p], s))
             \/ Send(p, Ask("insertFile", target[p]))
      BY <1>1 DEF ChunksStored, Replied, srvVars
    <2>3. ASSUME NEW s, Send(p, Insert(target[p], s)) PROVE pc'[p] = "insertChunks"
      BY <1>0, <2>3 DEF TypeOK, Send, Insert, Message
    <2>4. \/ pc'[p] = "insertChunks"
          \/ pc'[p] = "insertFile" /\ msg'[p].op # "reply"
      BY <1>0, <2>1, <2>3 DEF TypeOK, Send, Ask, Message
    <2>5. Calls'[p] = Calls[p]
      BY <2>1, <2>4, TableHolds, TableNext DEF Table, At
    <2> QED
      BY <1>0, <2>1, <2>5, QuietCall
  <1>2. CASE FileStored(p)
    <2>1. /\ pc'[p] = "idle" /\ outcome' = [outcome EXCEPT ![p] = "stored"]
          /\ UNCHANGED <<files, removed, late>>
      BY <1>0, <1>2 DEF FileStored, Done, srvVars, TypeOK
    <2>2. B!Bears(Calls[p], "stored")
      <3>1. At(p, "put", target[p], "there")
        BY <1>2, TableHolds DEF FileStored, Replied, Table
      <3>2. \A i : B!Bears([op |-> "put", id |-> i, met |-> "there"], "stored")
        BY DEF B!Bears
      <3> QED
        BY <3>1, <3>2, AtBears
    <2> QED
      BY <1>0, <2>1, <2>2, ReturnCall
  <1> QED
    BY <1>1, <1>2

LEMMA FindGoesOn ==
    ASSUME Inv, Orderly, NEW p \in Procs, NameFound(p) \/ FileFound(p)
    PROVE  B!Return(p) \/ UNCHANGED B!bucketVars
  <1>0. TypeOK /\ Others(p)
    BY TaskAlone DEF Inv
  <1>1. /\ pc[p] \in {"findName", "findFile"} /\ msg[p].op = "reply"
        /\ UNCHANGED <<files, removed, late>>
    BY DEF NameFound, FileFound, Replied, srvVars
  <1>2. CASE msg[p].id = NoId
    <2>1. pc'[p] = "idle" /\ outcome' = [outcome EXCEPT ![p] = "notFound"]
      BY <1>0, <1>2 DEF NameFound, FileFound, Done, TypeOK
    <2>2. B!Bears(Calls[p], "notFound")
      <3>1. PICK f : At(p, "get", f, "absent")
        BY <1>1, <1>2, TableHolds DEF Table
      <3>2. B!Bears([op |-> "get", id |-> f, met |-> "absent"], "notFound")
        BY DEF B!Bears
      <3> QED
        BY <3>1, <3>2, AtBears
    <2> QED
      BY <1>0, <1>1, <2>1, <2>2, ReturnCall
  <1>3. CASE msg[p].id # NoId
    <2>1. /\ outcome' = outcome
          /\ \/ pc[p] = "findName" /\ pc'[p] = "findFile" /\ msg'[p].op # "reply"
                /\ target'[p] = msg[p].id
             \/ pc[p] = "findFile" /\ pc'[p] = "aggregate" /\ target' = target
      BY <1>0, <1>3 DEF NameFound, FileFound, Replied, Send, Ask, Message, TypeOK
    <2>2. Calls'[p] = Calls[p]
      <3>1. PICK f, s : At(p, "get", f, s) /\ (At(p, "get", f, s))'
        <4>1. CASE pc[p] = "findName"
          BY <1>1, <1>3, <2>1, <4>1, TableHolds, TableNext DEF Table
        <4>2. CASE pc[p] = "findFile"
          BY <1>1, <1>3, <2>1, <4>2, TableHolds, TableNext DEF Table
        <4> QED
          BY <1>1, <4>1, <4>2
      <3> QED
        BY <3>1 DEF At
    <2> QED
      BY <1>0, <1>1, <2>1, <2>2, QuietCall
  <1> QED
    BY <1>2, <1>3

LEMMA ReadGoesOn ==
    ASSUME Inv, Orderly, NEW p \in Procs, ChunksRead(p) \/ MoreRead(p)
    PROVE  B!Return(p) \/ UNCHANGED B!bucketVars
  <1>0. TypeOK /\ Others(p)
    BY TaskAlone DEF Inv
  <1>1. /\ pc[p] \in {"aggregate", "getMore"} /\ target' = target
        /\ UNCHANGED <<files, removed, late>>
    BY DEF ChunksRead, MoreRead, Replied, srvVars
  <1>2. ASSUME NEW d, Deliver(p, d) PROVE B!Return(p)
    <2>1. PICK r \in {"read", "mismatch"} :
            pc'[p] = "idle" /\ outcome' = [outcome EXCEPT ![p] = r]
      BY <1>0, <1>2 DEF Deliver, Done, TypeOK
    <2>2. B!Bears(Calls[p], r)
      <3>1. At(p, "get", target[p], "there")
        BY <1>1, TableHolds DEF Table
      <3>2. \A i : B!Bears([op |-> "get", id |-> i, met |-> "there"], r)
        BY DEF B!Bears
      <3> QED
        BY <3>1, <3>2, AtBears
    <2> QED
      BY <1>0, <1>1, <2>1, <2>2, ReturnCall
  <1>3. ASSUME Send(p, More(target[p], msg[p].rest)), outcome' = outcome
        PROVE  UNCHANGED B!bucketVars
    <2>1. pc'[p] = "getMore"
      BY <1>0, <1>3 DEF Send, More, Message, TypeOK
    <2>2. Calls'[p] = Calls[p]
      BY <1>1, <2>1, TableHolds, TableNext DEF Table, At
    <2> QED
      BY <1>0, <1>1, <1>3, <2>2, QuietCall
  <1> QED
    BY <1>2, <1>3 DEF ChunksRead, MoreRead

LEMMA DeleteGoesOn ==
    ASSUME Inv, Orderly, NEW p \in Procs, FileDeleted(p) \/ ChunksDeleted(p)
    PROVE  B!Return(p) \/ UNCHANGED B!bucketVars
  <1>0. TypeOK /\ Others(p)
    BY TaskAlone DEF Inv
  <1>1. UNCHANGED <<files, removed, late, target>>
    BY DEF FileDeleted, ChunksDeleted, srvVars
  <1>2. CASE FileDeleted(p) /\ msg[p].id # NoId
    <2>1. pc[p] = "deleteFile" /\ msg[p].op = "reply" /\ pc'[p] = "deleteChunks" /\ outcome' = outcome
      BY <1>0, <1>2 DEF FileDeleted, Replied, Send, Ask, Message, TypeOK
    <2>2. Calls'[p] = Calls[p]
      BY <1>1, <1>2, <2>1, TableHolds, TableNext DEF Table, At
    <2> QED
      BY <1>0, <1>1, <2>1, <2>2, QuietCall
  <1>3. CASE FileDeleted(p) /\ msg[p].id = NoId
    <2>1. pc'[p] = "idle" /\ outcome' = [outcome EXCEPT ![p] = "notDeleted"]
      BY <1>0, <1>3 DEF FileDeleted, Done, TypeOK
    <2>2. B!Bears(Calls[p], "notDeleted")
      <3>1. At(p, "delete", target[p], "absent")
        BY <1>3, TableHolds DEF FileDeleted, Replied, Table
      <3>2. \A i : B!Bears([op |-> "delete", id |-> i, met |-> "absent"], "notDeleted")
        BY DEF B!Bears
      <3> QED
        BY <3>1, <3>2, AtBears
    <2> QED
      BY <1>0, <1>1, <2>1, <2>2, ReturnCall
  <1>4. CASE ChunksDeleted(p)
    <2>1. pc'[p] = "idle" /\ outcome' = [outcome EXCEPT ![p] = "deleted"]
      BY <1>0, <1>4 DEF ChunksDeleted, Done, TypeOK
    <2>2. B!Bears(Calls[p], "deleted")
      <3>1. At(p, "delete", target[p], "there")
        BY <1>4, TableHolds DEF ChunksDeleted, Replied, Table
      <3>2. \A i : B!Bears([op |-> "delete", id |-> i, met |-> "there"], "deleted")
        BY DEF B!Bears
      <3> QED
        BY <3>1, <3>2, AtBears
    <2> QED
      BY <1>0, <1>1, <2>1, <2>2, ReturnCall
  <1> QED
    BY <1>2, <1>3, <1>4

LEMMA DropGoesOn ==
    ASSUME Inv, Orderly, NEW p \in Procs, ChunksCleared(p) \/ FilesCleared(p)
    PROVE  B!Return(p) \/ UNCHANGED B!bucketVars
  <1>0. TypeOK /\ Others(p)
    BY TaskAlone DEF Inv
  <1>1. UNCHANGED <<files, removed, late, target>>
    BY DEF ChunksCleared, FilesCleared, srvVars
  <1>2. CASE ChunksCleared(p)
    <2>1. /\ pc[p] = "clearChunks" /\ pc'[p] = "clearFiles" /\ msg'[p].op # "reply"
          /\ outcome' = outcome
      BY <1>0, <1>2 DEF ChunksCleared, Replied, Send, Ask, Message, TypeOK
    <2>2. Calls'[p] = Calls[p]
      BY <1>1, <2>1, TableHolds, TableNext DEF Table, At
    <2> QED
      BY <1>0, <1>1, <2>1, <2>2, QuietCall
  <1>3. CASE FilesCleared(p)
    <2>1. pc'[p] = "idle" /\ outcome' = [outcome EXCEPT ![p] = "dropped"]
      BY <1>0, <1>3 DEF FilesCleared, Done, TypeOK
    <2>2. B!Bears(Calls[p], "dropped")
      <3>1. At(p, "drop", target[p], "there")
        BY <1>3, TableHolds DEF FilesCleared, Replied, Table
      <3>2. \A i : B!Bears([op |-> "drop", id |-> i, met |-> "there"], "dropped")
        BY DEF B!Bears
      <3> QED
        BY <3>1, <3>2, AtBears
    <2> QED
      BY <1>0, <1>1, <2>1, <2>2, ReturnCall
  <1> QED
    BY <1>2, <1>3

\* A call raises, and may leave its request behind.
LEMMA OwedMore ==
    ASSUME NEW m, late' = late \cup {m}
    PROVE  Owed' = Owed \cup {B!Work(Due(k.op), k.id) : k \in {j \in {m} : j.op \in Lasting}}
  BY DEF Owed, B!Work, Lasting

LEMMA RaiseBucket ==
    ASSUME Inv, Orderly, NEW p \in Procs, RequestRaises(p) \/ GiveUp(p)
    PROVE  B!Raise(p)
  <1>0. TypeOK /\ Others(p)
    BY TaskAlone DEF Inv
  <1>1. /\ pc[p] # "idle" /\ pc'[p] = "idle" /\ outcome' = [outcome EXCEPT ![p] = "raised"]
        /\ UNCHANGED <<files, removed>>
    BY <1>0 DEF RequestRaises, GiveUp, Done, srvVars, TypeOK, Orderly, NoMsg, Message
  <1>2. Calls[p].op # "none"
    <2>1. Doing(p) # "none"
      BY <1>1 DEF Doing
    <2> QED
      BY <2>1 DEF Calls
  <1>3. Calls' = [Calls EXCEPT ![p] = B!NoCall]
    <2>1. Calls'[p] = B!NoCall
      BY <1>1, TableNext DEF Table, At, B!NoCall, B!Call
    <2> QED
      BY <1>0, <2>1, OneCall
  <1>4. Owed' \in {Owed, Owed \cup B!Left(Calls[p])}
    <2>1. CASE late' = late
      BY <2>1 DEF Owed
    <2>2. CASE late' = late \cup {msg[p]} /\ msg[p].op \notin Lasting
      BY <2>2, OwedMore
    <2>3. ASSUME late' = late \cup {msg[p]}, msg[p].op \in Lasting, IsRequest(msg[p])
          PROVE  Owed' = Owed \cup B!Left(Calls[p])
      <3>1. msg[p].op = pc[p] /\ msg[p].id = target[p]
        BY <2>3 DEF Inv, TaskInv, Asks, Puts, Putting, Deletes, Orderly, Plain, Lasting, Nameless
      <3>2. At(p, Due(msg[p].op), msg[p].id, "nothing")
        BY <2>3, <3>1, TableHolds DEF Table, Due, Lasting
      <3>3. B!Left(Calls[p]) = {B!Work(Due(msg[p].op), msg[p].id)}
        <4>1. PICK d \in {"put", "delete", "drop"} : d = Due(msg[p].op)
          BY DEF Due
        <4>2. Calls[p].op = d /\ Calls[p].id = msg[p].id /\ Calls[p].met = "nothing"
          BY <3>2, <4>1 DEF At
        <4>3. {"put", "delete", "drop"} \cap {d} = {d}
          OBVIOUS
        <4> QED
          BY <4>3
      <3>4. Owed' = Owed \cup {B!Work(Due(msg[p].op), msg[p].id)}
        BY <2>3, OwedMore
      <3> QED
        BY <3>3, <3>4
    <2>4. late' = late \/ (late' = late \cup {msg[p]} /\ IsRequest(msg[p]))
      <3>1. CASE GiveUp(p)
        <4>1. {m \in {msg[p]} : IsRequest(m)} = IF IsRequest(msg[p]) THEN {msg[p]} ELSE {}
          OBVIOUS
        <4> QED
          BY <3>1 DEF GiveUp
      <3>2. CASE RequestRaises(p)
        BY <3>2 DEF RequestRaises
      <3> QED
        BY <3>1, <3>2
    <2> QED
      BY <2>1, <2>2, <2>3, <2>4
  <1> QED
    BY <1>1, <1>2, <1>3, <1>4 DEF B!Raise

\* The server carries a request out: the call meets the bucket, or looks for a
\* name, or nothing that counts happens.
LEMMA MeetCall ==
    ASSUME NEW p \in Procs, Others(p), NEW o \in {"put", "get", "delete", "drop"}, NEW f,
           NEW s \in {"there", "absent"},
           s = "there" <=> o \in {"put", "drop"} \/ f \in files,
           o = "get" /\ f = NoId => files = {},
           At(p, o, f, "nothing"), (At(p, o, f, s))', B!Effect(o, f),
           UNCHANGED <<late, outcome>>
    PROVE  B!Meet(p)
  <1>1. Calls[p].op = o /\ Calls[p].id = f /\ Calls[p].met = "nothing"
    BY DEF At
  <1>2. Calls' = [Calls EXCEPT ![p] = B!Call(o, f, s)]
    BY OneCall DEF At, B!Call
  <1>3. Owed' = Owed
    BY DEF Owed
  <1> QED
    BY <1>1, <1>2, <1>3 DEF B!Meet

LEMMA ServeBucket ==
    ASSUME Inv, Orderly, NEW p \in Procs, Serve(p)
    PROVE  B!Meet(p) \/ B!Resolve(p) \/ UNCHANGED B!bucketVars
  <1>0. TypeOK /\ Others(p)
    BY TaskAlone DEF Inv
  <1> DEFINE m == msg[p]
             f == target[p]
  <1>1. /\ IsRequest(m) /\ m.op = pc[p] /\ m.op \in Requests /\ pc'[p] = pc[p] /\ target'[p] = f
        /\ Execute(m) /\ UNCHANGED <<late, outcome>>
    BY DEF Serve, Inv, TaskInv, Asks, TypeOK, Messages
  <1>2. PICK r \in AnswersTo(m) : msg' = [msg EXCEPT ![p] = r]
    BY DEF Serve
  <1>3. msg'[p] = r /\ msg[p].op # "reply"
    BY <1>0, <1>1, <1>2 DEF TypeOK, Requests
  <1> HIDE DEF m
  <1>4. CASE m.op = "insertFile"
    <2>1. m.id = f /\ f \notin files \cup removed
      BY <1>1, <1>4 DEF m, Inv, TaskInv, Puts, Putting, Sound, PutMsg, Named
    <2>2. B!Effect("put", f)
      BY <1>1, <1>4, <2>1 DEF Execute, B!Effect
    <2>3. r.op = "reply"
      BY <1>4 DEF AnswersTo, Answer, Message
    <2>4. At(p, "put", f, "nothing") /\ (At(p, "put", f, "there"))'
      BY <1>1, <1>3, <1>4, <2>3, TableHolds, TableNext DEF Table
    <2> QED
      BY <1>0, <1>1, <2>2, <2>4, MeetCall
  <1>5. CASE m.op \in {"findFile", "deleteFile"}
    <2>0. PICK o, s : /\ o = IF m.op = "findFile" THEN "get" ELSE "delete"
                      /\ s = IF f \in files THEN "there" ELSE "absent"
      OBVIOUS
    <2>1. m.id = f /\ f \in Ids
      BY <1>1, <1>5 DEF m, Inv, TaskInv, Deletes, Finds
    <2>2. B!Effect(o, f)
      BY <1>1, <1>5, <2>0, <2>1 DEF Execute, B!Effect
    <2>3. r.op = "reply" /\ r.id = IF f \in files THEN f ELSE NoId
      BY <1>5, <2>1 DEF AnswersTo, Answer, Message
    <2>4. f # NoId
      BY <2>1, IdsAssumption
    <2>5. At(p, o, f, "nothing")
      BY <2>0, <1>1, <1>3, <1>5, TableHolds DEF Table
    <2>6. (At(p, o, f, s))'
      BY <1>1, <1>3, <1>5, <2>0, <2>3, <2>4, TableNext DEF Table
    <2>7. /\ o \in {"put", "get", "delete", "drop"} /\ s \in {"there", "absent"}
          /\ s = "there" <=> o \in {"put", "drop"} \/ f \in files
          /\ o = "get" /\ f = NoId => files = {}
      BY <2>0, <2>4
    <2> QED
      BY <1>0, <1>1, <2>2, <2>5, <2>6, <2>7, MeetCall
  <1>6. CASE m.op = "clearFiles"
    <2>1. B!Effect("drop", f)
      BY <1>1, <1>6 DEF Execute, B!Effect
    <2>2. r.op = "reply"
      BY <1>6 DEF AnswersTo, Answer, Message
    <2>3. At(p, "drop", f, "nothing") /\ (At(p, "drop", f, "there"))'
      BY <1>1, <1>3, <1>6, <2>2, TableHolds, TableNext DEF Table
    <2> QED
      BY <1>0, <1>1, <2>1, <2>3, MeetCall
  <1>7. CASE m.op = "findName"
    <2>1. f = NoId /\ UNCHANGED <<files, removed>> /\ NoId \notin files
      BY <1>0, <1>1, <1>7, IdsAssumption DEF Orderly, Nameless, Execute, TypeOK
    <2>2. At(p, "get", NoId, "nothing")
      BY <1>1, <1>3, <1>7, <2>1, TableHolds DEF Table
    <2>3. r.op = "reply" /\ r.id \in IF files = {} THEN {NoId} ELSE files
      BY <1>7 DEF AnswersTo, Answer, Message
    <2>4. CASE files = {}
      <3>1. (At(p, "get", NoId, "absent"))'
        BY <1>1, <1>3, <1>7, <2>3, <2>4, TableNext DEF Table
      <3>2. B!Effect("get", NoId)
        BY <2>1 DEF B!Effect
      <3> QED
        BY <1>0, <1>1, <2>2, <2>4, <3>1, <3>2, MeetCall
    <2>5. CASE files # {}
      <3>1. r.id \in files /\ r.id # NoId
        BY <2>1, <2>3, <2>5
      <3>2. (At(p, "get", r.id, "nothing"))'
        BY <1>1, <1>3, <1>7, <2>3, <3>1, TableNext DEF Table
      <3>3. Calls' = [Calls EXCEPT ![p] = B!Call("get", r.id, "nothing")]
        BY <1>0, <3>2, OneCall DEF At, B!Call
      <3>4. Owed' = Owed
        BY <1>1 DEF Owed
      <3> QED
        BY <1>1, <2>1, <2>2, <3>1, <3>3, <3>4 DEF At, B!Call, B!Resolve
    <2> QED
      BY <2>4, <2>5
  <1>8. CASE m.op \in {"insertChunks", "aggregate", "getMore", "deleteChunks", "clearChunks"}
    <2>1. UNCHANGED <<files, removed>>
      BY <1>1, <1>8 DEF Execute
    <2>2. PICK o, s : At(p, o, f, s) /\ (At(p, o, f, s))'
      <3>1. CASE m.op \in {"insertChunks", "clearChunks"}
        BY <1>1, <3>1, TableHolds, TableNext DEF Table
      <3>2. CASE m.op \in {"aggregate", "getMore", "deleteChunks"}
        BY <1>1, <3>2, TableHolds, TableNext DEF Table
      <3> QED
        BY <1>8, <3>1, <3>2
    <2>3. Calls'[p] = Calls[p]
      BY <1>1, <2>2 DEF At
    <2> QED
      BY <1>0, <1>1, <2>1, <2>3, QuietCall
  <1> QED
    BY <1>1, <1>4, <1>5, <1>6, <1>7, <1>8 DEF Requests

\* A request that fails has done nothing to the documents of the files.
LEMMA RefuseBucket ==
    ASSUME Inv, Orderly, NEW p \in Procs, RefuseLarge(p) \/ Refuse(p)
    PROVE  UNCHANGED B!bucketVars
  <1>0. TypeOK /\ Others(p)
    BY TaskAlone DEF Inv
  <1>1. /\ msg[p].op \notin {"reply", "error"} /\ msg'[p].op = "error"
        /\ UNCHANGED <<pc, target, late, outcome>>
    BY <1>0 DEF RefuseLarge, Refuse, IsRequest, Error, Message, TypeOK
  <1>2. UNCHANGED <<files, removed>>
    <2>1. ASSUME NEW k, k.op = "insertChunks", Execute(k) PROVE UNCHANGED <<files, removed>>
      BY <2>1 DEF Execute
    <2>2. ASSUME msg[p].op = "insertChunks", NEW n,
                 Execute([msg[p] EXCEPT !.ns = Front(@, n)])
          PROVE  UNCHANGED <<files, removed>>
      <3>1. [msg[p] EXCEPT !.ns = Front(@, n)].op = "insertChunks"
        BY <2>2
      <3> QED
        BY <2>1, <2>2, <3>1
    <2> QED
      BY <2>2 DEF RefuseLarge, Refuse, srvVars
  <1>3. Calls'[p] = Calls[p]
    BY <1>1 DEF Calls, Doing, About, MetIt, MissedIt, Looked, Replied
  <1> QED
    BY <1>0, <1>1, <1>2, <1>3, QuietCall

\* A request that comes late is what the call that raised has left.
LEMMA LateBucket ==
    ASSUME Inv, Orderly, ServeLate
    PROVE  B!Late \/ UNCHANGED B!bucketVars
  <1>1. PICK m \in late :
          late' = late \ {m} /\ Execute(m) /\ UNCHANGED <<pc, target, msg, outcome>>
    BY DEF ServeLate
  <1>2. Calls' = Calls
    BY <1>1 DEF Calls, Doing, About, MetIt, MissedIt, Looked, Replied
  <1>3. CASE m.op \notin Lasting
    <2>1. UNCHANGED <<files, removed>>
      BY <1>1, <1>3 DEF Execute, Lasting
    <2>2. Owed' = Owed
      BY <1>1, <1>3 DEF Owed, Lasting
    <2> QED
      BY <1>1, <1>2, <2>1, <2>2 DEF B!bucketVars
  <1>4. CASE m.op \in Lasting
    <2> DEFINE w == [op |-> Due(m.op), id |-> m.id]
    <2>1. w \in Owed
      BY <1>4 DEF Owed, Lasting
    <2>2. ASSUME NEW k \in late, k.op \in Lasting, [op |-> Due(k.op), id |-> k.id] = w
          PROVE  k = m
      <3>1. Due(k.op) = Due(m.op) /\ k.id = m.id
        BY <2>2
      <3>2. k.op = m.op
        BY <1>4, <2>2 DEF Due, Lasting
      <3> QED
        BY <2>2, <3>2 DEF Orderly, Plain
    <2>3. Owed' = Owed \ {w}
      BY <1>1, <2>2 DEF Owed, Lasting
    <2>4. B!Effect(w.op, w.id)
      <3>1. CASE m.op = "insertFile"
        <4>1. m.id \notin files \cup removed
          BY <3>1 DEF Inv, Sound, PutMsg, Named
        <4> QED
          BY <1>1, <3>1, <4>1 DEF Execute, B!Effect, Due
      <3>2. CASE m.op = "deleteFile"
        BY <1>1, <3>2 DEF Execute, B!Effect, Due
      <3>3. CASE m.op = "clearFiles"
        BY <1>1, <3>3 DEF Execute, B!Effect, Due
      <3> QED
        BY <1>4, <3>1, <3>2, <3>3 DEF Lasting
    <2> HIDE DEF w
    <2> QED
      BY <1>1, <1>2, <2>1, <2>3, <2>4 DEF B!Late
  <1> QED
    BY <1>3, <1>4

\* Every step of a task or of the server is one of the bucket, or none.
LEMMA BucketStep == Inv /\ Orderly /\ [Next]_vars => [B!BucketNext]_(B!bucketVars)
  <1> SUFFICES ASSUME Inv, Orderly, [Next]_vars PROVE B!BucketNext \/ UNCHANGED B!bucketVars
    OBVIOUS
  <1>1. ASSUME NEW p \in Procs, Put(p) \/ Get(p) \/ Delete(p) \/ DropAllFiles(p)
        PROVE  B!BucketNext
    BY <1>1, PutBucket, GetBucket, DeleteBucket, DropBucket DEF B!BucketNext
  <1>2. ASSUME NEW p \in Procs,
               \/ ChunksStored(p) \/ FileStored(p) \/ NameFound(p) \/ FileFound(p)
               \/ ChunksRead(p) \/ MoreRead(p) \/ FileDeleted(p) \/ ChunksDeleted(p)
               \/ ChunksCleared(p) \/ FilesCleared(p)
        PROVE  B!BucketNext \/ UNCHANGED B!bucketVars
    BY <1>2, PutGoesOn, FindGoesOn, ReadGoesOn, DeleteGoesOn, DropGoesOn DEF B!BucketNext
  <1>3. ASSUME NEW p \in Procs,
               RequestRaises(p) \/ GiveUp(p) \/ Serve(p) \/ RefuseLarge(p) \/ Refuse(p)
        PROVE  B!BucketNext \/ UNCHANGED B!bucketVars
    BY <1>3, RaiseBucket, ServeBucket, RefuseBucket DEF B!BucketNext
  <1>4. CASE ServeLate
    BY <1>4, LateBucket DEF B!BucketNext
  <1>5. CASE UNCHANGED vars
    BY <1>5 DEF vars, B!bucketVars, Calls, Doing, About, MetIt, MissedIt, Looked, Replied, Owed
  <1> QED
    BY <1>1, <1>2, <1>3, <1>4, <1>5 DEF Next

LEMMA BucketBegins == Init => B!BucketInit
  <1> SUFFICES ASSUME Init PROVE B!BucketInit
    OBVIOUS
  <1>1. \A p \in Procs : Calls[p] = B!NoCall
    BY TableHolds DEF Init, Table, At, B!NoCall, B!Call
  <1>2. Calls = [p \in Procs |-> B!NoCall]
    BY <1>1 DEF Calls
  <1> QED
    BY <1>2 DEF Init, B!BucketInit, Owed

\* GridFS implements Bucket: whatever its requests interleave with, whatever is
\* refused, given up or carried out late, every result was true of the bucket at
\* one moment of the call (gridfs.py:109-259).
THEOREM IsBucketCorrect == Spec => IsBucket
  <1> QED
    BY InitInv, NextInv, OrderlyInit, OrderlyStep, BucketBegins, BucketStep, PTL DEF Spec,
       IsBucket, B!BucketSpec

=============================================================================
