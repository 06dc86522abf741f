-------------------------- MODULE CollectionProofs --------------------------
(***************************************************************************)
(* create_if_not_exists for any number of tasks, calls and contents of the *)
(* server, and the builder's namespaces, however it is used after build(). *)
(***************************************************************************)
EXTENDS Collection, SequenceTheorems, WellFoundedInduction, TLAPS

-----------------------------------------------------------------------------
(* create_if_not_exists                                                    *)

OnTasks(f) == f = [t \in Tasks |-> f[t]]
PerTask ==
    /\ OnTasks(call) /\ OnTasks(pc) /\ OnTasks(msg) /\ OnTasks(reply) /\ OnTasks(last)
    /\ OnTasks(existed) /\ OnTasks(rival)

Ensuring(t) == ~Idle(t) /\ call[t].f = "create_if_not_exists"
There(t) == call[t].ns \in DOMAIN db

\* The collection was not there when it was listed: whoever made it is a rival.
Listed(t) ==
    /\ reply[t].ok /\ reply[t].failed = {}
    /\ reply[t].n # 0 => existed[t]
    /\ reply[t].n = 0 /\ There(t) => rival[t]
Created(t) ==
    /\ reply[t].failed = {}
    /\ IF reply[t].ok THEN existed[t] ELSE rival[t]

EnsureInv(t) ==
    /\ pc[t] \in {"sent", "answered"}
    /\ msg[t].ns = call[t].ns
    /\ \/ msg[t].op = "listCollections" /\ (pc[t] = "answered" => Listed(t))
       \/ msg[t].op = "create" /\ pc[t] = "sent" /\ (There(t) => rival[t])
       \/ msg[t].op = "create" /\ pc[t] = "answered" /\ Created(t)

Outcomes(t) ==
    Idle(t) /\ last[t].f = "create_if_not_exists" =>
        /\ last[t].how = "returned" => existed[t]
        /\ last[t].how = "OperationFailure" => rival[t]

TaskInv(t) == (Ensuring(t) => EnsureInv(t)) /\ Outcomes(t)
RaceInv == PerTask /\ \A t \in Tasks : TaskInv(t)

\* What one task's step leaves alone.
Same(u) ==
    /\ call'[u] = call[u] /\ pc'[u] = pc[u] /\ msg'[u] = msg[u]
    /\ reply'[u] = reply[u] /\ last'[u] = last[u]

LEMMA SameTask ==
    ASSUME NEW u \in Tasks, TaskInv(u), Same(u),
           UNCHANGED <<db, existed, rival>> \/ (\E S : u \notin S /\ Witness(S, db'))
    PROVE  TaskInv(u)'
  <1>1. CASE UNCHANGED <<db, existed, rival>>
    BY <1>1 DEF Same, TaskInv, Ensuring, Idle, EnsureInv, Listed, Created, There, Outcomes
  <1>2. ASSUME NEW S, u \notin S, Witness(S, db') PROVE TaskInv(u)'
    <2>1. /\ existed'[u] = (existed[u] \/ (~Idle(u) /\ call[u].ns \in DOMAIN db'))
          /\ rival'[u] = (rival[u] \/ (~Idle(u) /\ call[u].ns \in DOMAIN db' /\ ~There(u)))
      BY <1>2 DEF Witness, There
    <2> QED
      BY <2>1 DEF Same, TaskInv, Ensuring, Idle, EnsureInv, Listed, Created, There, Outcomes
  <1> QED
    BY <1>1, <1>2

\* A step is right if it is right for the task that takes it.
LEMMA OwnStep ==
    ASSUME RaceInv, NEW t \in Tasks, PerTask', TaskInv(t)',
           \A u \in Tasks \ {t} : Same(u),
           UNCHANGED <<db, existed, rival>> \/ Witness({t}, db')
    PROVE  RaceInv'
  <1>1. ASSUME NEW u \in Tasks, u # t PROVE TaskInv(u)'
    <2> QED
      BY SameTask DEF RaceInv
  <1> QED
    BY <1>1 DEF RaceInv

LEMMA BeginInv ==
    ASSUME RaceInv, NEW t \in Tasks, NEW c, Idle(t), Begin(t, c)
    PROVE  RaceInv'
  <1> USE DEF RaceInv, PerTask, OnTasks, Begin, Idle
  <1>3. ASSUME NEW u \in Tasks, u # t PROVE TaskInv(u)'
    <2>1. Same(u) /\ existed'[u] = existed[u] /\ rival'[u] = rival[u] /\ db' = db
      BY <1>3 DEF Same
    <2> HIDE DEF PerTask, OnTasks, Begin, Idle
    <2> QED
      BY <2>1 DEF Same, TaskInv, Ensuring, Idle, EnsureInv, Listed, There, Created, Outcomes
  <1>4. TaskInv(t)'
    <2>2. CASE c.f = "create_if_not_exists"
      <3>1. FirstCommand(c) = Command("listCollections", c)
        BY <2>2 DEF FirstCommand, FirstOp
      <3>2. msg'[t].ns = c.ns /\ msg'[t].op = "listCollections" /\ pc'[t] = "sent"
        BY <2>2, <3>1 DEF Command
      <3> QED
        BY <3>2 DEF TaskInv, EnsureInv, Outcomes
    <2>3. CASE c.f # "create_if_not_exists"
      BY <2>3 DEF TaskInv, Ensuring, Outcomes
    <2> QED
      BY <2>2, <2>3
  <1> QED
    BY <1>3, <1>4

\* A call that ends ends in one of these ways.
LEMMA EndInv ==
    ASSUME RaceInv, NEW t \in Tasks, NEW how, End(t, how), UNCHANGED <<db, existed, rival>>,
           call[t].f = "create_if_not_exists" =>
               /\ how = "returned" => existed[t]
               /\ how = "OperationFailure" => rival[t]
    PROVE  RaceInv'
  <1> USE DEF RaceInv, PerTask, OnTasks
  <1>1. PerTask' /\ \A u \in Tasks \ {t} : Same(u)
    BY DEF End, Same
  <1>2. last'[t].f = call[t].f /\ last'[t].how = how /\ pc'[t] = "idle"
    BY DEF End, Result
  <1>3. TaskInv(t)'
    BY <1>2 DEF TaskInv, Ensuring, Idle, Outcomes
  <1> QED
    BY <1>1, <1>3, OwnStep

\* The two commands of create_if_not_exists at the server.
LEMMA ServedList ==
    ASSUME NEW d, NEW m, m.op = "listCollections"
    PROVE  Outcome(d, m) = Yes(d, IF m.ns \in DOMAIN d THEN 1 ELSE 0)
  BY DEF Outcome

LEMMA ServedCreate ==
    ASSUME NEW d, NEW m, m.op = "create"
    PROVE  Outcome(d, m) = IF m.ns \in DOMAIN d THEN No(d) ELSE Yes(Put(d, m.ns, NewCollection), 0)
  BY DEF Outcome

LEMMA ServeInv ==
    ASSUME RaceInv, NEW t \in Tasks, Serve(t)
    PROVE  RaceInv'
  <1> USE DEF RaceInv, PerTask, OnTasks
  <1> DEFINE out == Outcome(db, msg[t])
  <1>1. /\ pc[t] = "sent" /\ pc' = [pc EXCEPT ![t] = "answered"]
        /\ db' = out.db /\ reply' = [reply EXCEPT ![t] = out.reply]
        /\ Witness({t}, db') /\ UNCHANGED <<call, msg, last>>
    BY DEF Serve, Answer
  <1>2. PerTask' /\ \A u \in Tasks \ {t} : Same(u)
    BY <1>1 DEF Witness, Same
  <1>3. TaskInv(t)'
    <2>1. /\ existed[t] \/ (~Idle(t) /\ call[t].ns \in DOMAIN db') => existed'[t]
          /\ rival[t] => rival'[t]
      BY <1>1 DEF Witness
    <2>2. pc'[t] = "answered" /\ reply'[t] = out.reply /\ ~Idle(t) /\ ~Idle(t)'
      BY <1>1 DEF Idle
    <2>3. CASE call[t].f # "create_if_not_exists"
      BY <1>1, <2>2, <2>3 DEF TaskInv, Ensuring, Outcomes
    <2>4. CASE call[t].f = "create_if_not_exists" /\ msg[t].op = "listCollections"
      <3>1. out = Yes(db, IF msg[t].ns \in DOMAIN db THEN 1 ELSE 0)
        BY <2>4, ServedList
      <3>2. /\ out.db = db /\ out.reply.ok /\ out.reply.failed = {}
            /\ out.reply.n = IF msg[t].ns \in DOMAIN db THEN 1 ELSE 0
        BY <3>1 DEF Yes, NoReply
      <3>3. msg[t].ns = call[t].ns
        BY <2>2, <2>4 DEF TaskInv, Ensuring, EnsureInv
      <3>4. Listed(t)'
        BY <1>1, <2>1, <2>2, <3>2, <3>3 DEF Listed, There
      <3> QED
        BY <1>1, <2>2, <2>4, <3>3, <3>4 DEF TaskInv, EnsureInv, Outcomes
    <2>5. CASE call[t].f = "create_if_not_exists" /\ msg[t].op # "listCollections"
      <3>1. msg[t].op = "create" /\ (There(t) => rival[t]) /\ msg[t].ns = call[t].ns
        BY <1>1, <2>2, <2>5 DEF TaskInv, Ensuring, EnsureInv
      <3>2. CASE There(t)
        <4>1. out.reply.failed = {} /\ ~out.reply.ok
          BY <3>1, <3>2, ServedCreate DEF There, No, NoReply
        <4>2. Created(t)'
          BY <2>1, <2>2, <3>1, <3>2, <4>1 DEF Created
        <4> QED
          BY <1>1, <2>2, <3>1, <4>2 DEF TaskInv, EnsureInv, Outcomes
      <3>3. CASE ~There(t)
        <4>1. /\ out.reply.failed = {} /\ out.reply.ok
              /\ out.db = Put(db, call[t].ns, NewCollection)
          BY <3>1, <3>3, ServedCreate DEF There, Yes, NoReply
        <4>2. call[t].ns \in DOMAIN db'
          BY <1>1, <4>1 DEF Put
        <4>3. Created(t)'
          BY <2>1, <2>2, <4>1, <4>2 DEF Created
        <4> QED
          BY <1>1, <2>2, <3>1, <4>3 DEF TaskInv, EnsureInv, Outcomes
      <3> QED
        BY <3>2, <3>3
    <2> QED
      BY <2>3, <2>4, <2>5
  <1> QED
    BY <1>1, <1>2, <1>3, OwnStep

LEMMA CreateInv ==
    ASSUME RaceInv, NEW t \in Tasks, Create(t)
    PROVE  RaceInv'
  <1> USE DEF RaceInv, PerTask, OnTasks
  <1>1. PerTask' /\ (\A u \in Tasks \ {t} : Same(u)) /\ UNCHANGED <<db, existed, rival>>
    BY DEF Create, Keep, Same
  <1>2. /\ pc'[t] = "sent" /\ msg'[t] = Command("create", call[t]) /\ call'[t] = call[t]
        /\ ~Idle(t) /\ ~Idle(t)' /\ call[t].f = "create_if_not_exists"
    BY DEF Create, Answered, Idle
  <1>3. There(t) => rival[t]
    BY <1>2 DEF Create, Answered, TaskInv, Ensuring, EnsureInv, Listed
  <1>4. msg'[t].op = "create" /\ msg'[t].ns = call[t].ns
    BY <1>2 DEF Command
  <1>5. TaskInv(t)'
    BY <1>1, <1>2, <1>3, <1>4 DEF TaskInv, EnsureInv, There, Outcomes
  <1> QED
    BY <1>1, <1>5, OwnStep

LEMMA SendInv ==
    ASSUME RaceInv, NEW t \in Tasks, Send(t)
    PROVE  RaceInv'
  <1> USE DEF RaceInv, PerTask, OnTasks
  <1>1. PerTask' /\ (\A u \in Tasks \ {t} : Same(u)) /\ UNCHANGED <<db, existed, rival>>
    BY DEF Send, Same
  <1>2. ~Ensuring(t)
    BY DEF Send, TaskInv, EnsureInv
  <1>3. pc[t] = "queued" /\ pc'[t] = "sent" /\ call' = call
    BY DEF Send
  <1>4. TaskInv(t)'
    BY <1>2, <1>3 DEF TaskInv, Ensuring, Idle, Outcomes
  <1> QED
    BY <1>1, <1>4, OwnStep

\* The ends that come from an answer.
LEMMA AnswerInv ==
    ASSUME RaceInv, NEW t \in Tasks,
           OperationFails(t) \/ NamespaceMissing(t) \/ Return(t) \/ GiveUp(t)
    PROVE  RaceInv'
  <1>1. CASE OperationFails(t)
    <2>1. call[t].f = "create_if_not_exists" => rival[t]
      BY <1>1 DEF OperationFails, Answered, Raises, RaceInv, TaskInv, Ensuring, Idle, EnsureInv,
         Listed, Created
    <2> QED
      BY <1>1, <2>1, EndInv DEF OperationFails, Keep
  <1>2. CASE NamespaceMissing(t)
    BY <1>2, EndInv DEF NamespaceMissing, Keep
  <1>3. CASE Return(t)
    <2>1. call[t].f = "create_if_not_exists" => existed[t]
      BY <1>3 DEF Return, Answered, Raises, RaceInv, TaskInv, Ensuring, Idle, EnsureInv, Listed,
         Created
    <2> QED
      BY <1>3, <2>1, EndInv DEF Return, Keep
  <1>4. CASE GiveUp(t)
    BY <1>4, EndInv DEF GiveUp
  <1> QED
    BY <1>1, <1>2, <1>3, <1>4

LEMMA RaceStep ==
    ASSUME RaceInv, [Next]_vars
    PROVE  RaceInv'
  <1>1. ASSUME NEW t \in Tasks, NEW c \in Calls, Call(t, c) PROVE RaceInv'
    BY <1>1, BeginInv DEF Call
  <1>2. ASSUME NEW t \in Tasks, NEW c \in Calls, CallRefused(t, c) PROVE RaceInv'
    <2> USE DEF RaceInv, PerTask, OnTasks
    <2>1. /\ PerTask' /\ (\A u \in Tasks \ {t} : Same(u))
          /\ UNCHANGED <<db, existed, rival>>
      BY <1>2 DEF CallRefused, Same
    <2>2. last'[t].how = "ValueError" /\ UNCHANGED <<call, pc>> /\ Idle(t)
      BY <1>2 DEF CallRefused, Result
    <2>3. TaskInv(t)'
      BY <2>2 DEF TaskInv, Ensuring, Idle, Outcomes
    <2> QED
      BY <2>1, <2>3, OwnStep
  <1>3. ASSUME NEW t \in Tasks, Insist(t) PROVE RaceInv'
    BY <1>3, BeginInv DEF Insist
  <1>4. ASSUME NEW t \in Tasks, Step(t) \/ Serve(t) \/ GiveUp(t) PROVE RaceInv'
    BY <1>4, SendInv, CreateInv, AnswerInv, ServeInv DEF Step
  <1>5. ASSUME NEW m \in late, ServeLate(m) PROVE RaceInv'
    <2>1. Witness({}, db') /\ UNCHANGED <<call, pc, msg, reply, last>>
      BY <1>5 DEF ServeLate
    <2>2. PerTask'
      BY <2>1 DEF RaceInv, PerTask, OnTasks, Witness
    <2>3. ASSUME NEW u \in Tasks PROVE TaskInv(u)'
      <3>1. Same(u) /\ \E S : u \notin S /\ Witness(S, db')
        BY <2>1 DEF Same
      <3> QED
        BY <3>1, SameTask DEF RaceInv
    <2> QED
      BY <2>2, <2>3 DEF RaceInv
  <1>6. CASE UNCHANGED <<db, taskVars>>
    BY <1>6 DEF taskVars, RaceInv, PerTask, TaskInv, Ensuring, Idle, EnsureInv, Listed, Created,
       There, Outcomes
  <1> QED
    BY <1>1, <1>2, <1>3, <1>4, <1>5, <1>6 DEF Next, AddOperation, vars, taskVars

\* create_if_not_exists (collection.py:56) returns only with a collection that
\* was there during the call, and raises only when another actor created it
\* between its two requests: for any number of tasks, any calls around it,
\* commands given up and commands that arrive late.
THEOREM EnsureOutcomeCorrect == Spec => []EnsureOutcome
  <1>1. Init => RaceInv
    BY DEF Init, RaceInv, PerTask, OnTasks, TaskInv, Ensuring, Idle, Outcomes, Result
  <1>2. RaceInv => EnsureOutcome
    BY DEF RaceInv, TaskInv, Outcomes, EnsureOutcome
  <1>3. RaceInv /\ [Next]_vars => RaceInv'
    BY RaceStep
  <1> QED
    BY <1>1, <1>2, <1>3, PTL DEF Spec

-----------------------------------------------------------------------------
(* The builder                                                             *)

\* Both lists only grow at the end, so an index keeps its meaning: in the
\* builder, in the copy build() made, and in what was encoded.
BuilderInv ==
    /\ namespaces \in Seq(Names)
    /\ operations \in Seq([index : Nat, ns : Names, write : Writes])
    /\ \A i \in DOMAIN operations :
          /\ operations[i].index \in DOMAIN namespaces
          /\ namespaces[operations[i].index] = operations[i].ns

BuiltFrom(info) ==
    /\ info \in Seq(Names)
    /\ Len(info) <= Len(namespaces)
    /\ \A i \in DOMAIN info : info[i] = namespaces[i]

EncodedAs(places) ==
    /\ DOMAIN places \subseteq DOMAIN operations
    /\ \A i \in DOMAIN places : places[i] = operations[i].ns

\* A command is a record with these fields.
IsCommand(m) == {"ws", "places", "ok"} \subseteq DOMAIN m

CommandInv(t) ==
    /\ IsCommand(msg[t])
    /\ pc[t] = "queued" => BuiltFrom(msg[t].info)
    /\ pc[t] = "sent" => EncodedAs(msg[t].places)

NamespaceInv == BuilderInv /\ OnTasks(pc) /\ OnTasks(msg) /\ \A t \in Tasks : CommandInv(t)

LEMMA AddInv ==
    ASSUME BuilderInv, NEW w \in Writes, NEW ns \in Names, Add(w, ns)
    PROVE  /\ BuilderInv'
           /\ \A info : BuiltFrom(info) => BuiltFrom(info)'
           /\ \A places : EncodedAs(places) => EncodedAs(places)'
  <1>1. /\ namespaces' \in Seq(Names)
        /\ Len(namespaces) <= Len(namespaces')
        /\ \A i \in DOMAIN namespaces : i \in DOMAIN namespaces' /\ namespaces'[i] = namespaces[i]
    BY DEF BuilderInv, Add, WithNamespace
  <1>2. IndexOf(ns) \in DOMAIN namespaces' /\ namespaces'[IndexOf(ns)] = ns
    <2>1. \E i \in DOMAIN WithNamespace(ns) : WithNamespace(ns)[i] = ns
      <3>1. CASE \E i \in DOMAIN namespaces : namespaces[i] = ns
        BY <3>1 DEF WithNamespace
      <3>2. CASE ~\E i \in DOMAIN namespaces : namespaces[i] = ns
        <4>1. /\ WithNamespace(ns) = Append(namespaces, ns)
              /\ Len(namespaces) + 1 \in DOMAIN Append(namespaces, ns)
              /\ Append(namespaces, ns)[Len(namespaces) + 1] = ns
          BY <3>2 DEF WithNamespace
        <4> QED
          BY <4>1
      <3> QED
        BY <3>1, <3>2
    <2> QED
      BY <2>1 DEF Add, IndexOf
  <1>3. IndexOf(ns) \in Nat
    BY <1>1, <1>2
  <1> DEFINE e == [index |-> IndexOf(ns), ns |-> ns, write |-> w]
  <1>4. e \in [index : Nat, ns : Names, write : Writes] /\ e.index = IndexOf(ns) /\ e.ns = ns
    BY <1>3
  <1>5. operations' = Append(operations, e)
    BY DEF Add
  <1> HIDE DEF e
  <1>6. /\ operations' \in Seq([index : Nat, ns : Names, write : Writes])
        /\ DOMAIN operations' = DOMAIN operations \cup {Len(operations) + 1}
        /\ \A i \in DOMAIN operations : operations'[i] = operations[i]
        /\ operations'[Len(operations) + 1] = e
    BY <1>4, <1>5 DEF BuilderInv
  <1>7. BuilderInv'
    BY <1>1, <1>2, <1>4, <1>6 DEF BuilderInv
  <1>8. \A info : BuiltFrom(info) => BuiltFrom(info)'
    BY <1>1 DEF BuiltFrom
  <1>9. \A places : EncodedAs(places) => EncodedAs(places)'
    BY <1>6 DEF EncodedAs
  <1> QED
    BY <1>7, <1>8, <1>9

\* What Send encodes.
LEMMA EncodedInv ==
    ASSUME BuilderInv, NEW m, IsCommand(m), BuiltFrom(m.info)
    PROVE  IsCommand(Encoded(m)) /\ EncodedAs(Encoded(m).places)
  <1>1. /\ IsCommand(Encoded(m))
        /\ Encoded(m).places = IF Resolved(m.info) THEN Places(m.info) ELSE <<>>
    BY DEF Encoded, IsCommand
  <1>2. EncodedAs(<<>>)
    BY DEF EncodedAs
  <1>3. CASE Resolved(m.info)
    <2>1. EncodedAs(Places(m.info))
      BY <1>3 DEF Resolved, Places, EncodedAs, BuiltFrom, BuilderInv
    <2> QED
      BY <1>1, <1>3, <2>1
  <1> QED
    BY <1>1, <1>2, <1>3

LEMMA FirstCommandInv ==
    ASSUME BuilderInv, NEW c
    PROVE  /\ IsCommand(FirstCommand(c))
           /\ EncodedAs(FirstCommand(c).places)
           /\ c.f = "bulk_write" => BuiltFrom(FirstCommand(c).info)
  <1>1. \A op, d : IsCommand(Command(op, d)) /\ Command(op, d).places = <<>>
    BY DEF IsCommand, Command
  <1>2. EncodedAs(<<>>)
    BY DEF EncodedAs
  <1>3. CASE c.f = "bulk_write"
    <2>1. FirstCommand(c) = [Command("bulkWrite", c) EXCEPT !.info = namespaces]
      BY <1>3 DEF FirstCommand, Build
    <2>2. /\ IsCommand(FirstCommand(c)) /\ FirstCommand(c).info = namespaces
          /\ FirstCommand(c).places = <<>>
      BY <2>1 DEF IsCommand, Command
    <2> QED
      BY <1>2, <2>2 DEF BuiltFrom, BuilderInv
  <1>4. CASE c.f # "bulk_write"
    <2>1. \E op, d : FirstCommand(c) = Command(op, d)
      BY <1>4 DEF FirstCommand
    <2> QED
      BY <1>1, <1>2, <1>4, <2>1
  <1> QED
    BY <1>3, <1>4

LEMMA NamespaceStep ==
    ASSUME NamespaceInv, [Next]_vars
    PROVE  NamespaceInv'
  <1> USE DEF NamespaceInv, OnTasks
  \* The builder is left alone, and so is every command but one that is right.
  <1>1. ASSUME NEW t \in Tasks, UNCHANGED builderVars,
               OnTasks(pc)', OnTasks(msg)', CommandInv(t)',
               \A u \in Tasks \ {t} : pc'[u] = pc[u] /\ msg'[u] = msg[u]
        PROVE  NamespaceInv'
    BY <1>1 DEF builderVars, BuilderInv, CommandInv, BuiltFrom, EncodedAs
  <1>2. ASSUME NEW t \in Tasks, NEW c, Begin(t, c)
        PROVE  NamespaceInv'
    <2>1. /\ IsCommand(FirstCommand(c)) /\ EncodedAs(FirstCommand(c).places)
          /\ c.f = "bulk_write" => BuiltFrom(FirstCommand(c).info)
      BY FirstCommandInv
    <2>2. CommandInv(t)'
      BY <1>2, <2>1 DEF Begin, CommandInv, BuiltFrom, EncodedAs, builderVars
    <2> QED
      BY <1>1, <1>2, <2>2 DEF Begin
  <1>3. ASSUME NEW t \in Tasks, Send(t)
        PROVE  NamespaceInv'
    <2>1. IsCommand(Encoded(msg[t])) /\ EncodedAs(Encoded(msg[t]).places)
      BY <1>3, EncodedInv DEF Send, CommandInv
    <2>2. CommandInv(t)'
      BY <1>3, <2>1 DEF Send, CommandInv, EncodedAs, builderVars
    <2> QED
      BY <1>1, <1>3, <2>2 DEF Send
  <1>4. ASSUME NEW t \in Tasks, NEW how, End(t, how), UNCHANGED builderVars
        PROVE  NamespaceInv'
    <2>1. IsCommand(NoCommand)
      BY DEF IsCommand, NoCommand, Command
    <2>2. CommandInv(t)'
      BY <1>4, <2>1 DEF End, CommandInv
    <2> QED
      BY <1>1, <1>4, <2>2 DEF End
  <1>5. ASSUME NEW t \in Tasks, Create(t)
        PROVE  NamespaceInv'
    <2>1. IsCommand(Command("create", call[t])) /\ Command("create", call[t]).places = <<>>
      BY DEF IsCommand, Command
    <2>2. CommandInv(t)'
      BY <1>5, <2>1 DEF Create, CommandInv, EncodedAs
    <2> QED
      BY <1>1, <1>5, <2>2 DEF Create, Keep
  <1>6. ASSUME NEW t \in Tasks, Serve(t)
        PROVE  NamespaceInv'
    <2>1. CommandInv(t)'
      BY <1>6 DEF Serve, Answer, CommandInv
    <2> QED
      BY <1>1, <1>6, <2>1 DEF Serve, Answer
  <1>7. CASE UNCHANGED <<builderVars, pc, msg>>
    BY <1>7 DEF builderVars, BuilderInv, CommandInv, BuiltFrom, EncodedAs
  <1>8. ASSUME NEW w \in Writes, NEW ns \in Names, AddOperation(w, ns)
        PROVE  NamespaceInv'
    BY <1>8, AddInv DEF AddOperation, taskVars, CommandInv
  <1>9. ASSUME NEW t \in Tasks, Step(t) \/ GiveUp(t)
        PROVE  NamespaceInv'
    BY <1>3, <1>4, <1>5, <1>9 DEF Step, OperationFails, NamespaceMissing, Return, GiveUp, Keep
  <1>10. ASSUME NEW t \in Tasks, NEW c \in Calls, Call(t, c) \/ CallRefused(t, c)
         PROVE  NamespaceInv'
    BY <1>2, <1>7, <1>10 DEF Call, CallRefused
  <1>11. ASSUME NEW t \in Tasks, Insist(t)
         PROVE  NamespaceInv'
    BY <1>2, <1>11 DEF Insist
  <1>12. ASSUME NEW m \in late, ServeLate(m)
         PROVE  NamespaceInv'
    BY <1>7, <1>12 DEF ServeLate
  <1> QED
    BY <1>6, <1>7, <1>8, <1>9, <1>10, <1>11, <1>12 DEF Next, vars, builderVars

LEMMA NamespaceInit == Init => NamespaceInv
  <1>1. IsCommand(NoCommand)
    BY DEF IsCommand, NoCommand, Command
  <1> QED
    BY <1>1 DEF Init, BuilderInit, NamespaceInv, BuilderInv, OnTasks, CommandInv

\* build() (bulk_write_builder.py:91) hands out the builder's own operations
\* beside a copy of its namespaces.  However many operations are added before
\* and after, and whoever builds, no operation reaches the server under a
\* namespace it was not added for.
THEOREM OwnNamespaceCorrect == Spec => []OwnNamespace
  <1>1. Init => NamespaceInv
    BY NamespaceInit
  <1>2. NamespaceInv => OwnNamespace
    BY DEF NamespaceInv, BuilderInv, CommandInv, BuiltFrom, EncodedAs, OwnNamespace
  <1>3. NamespaceInv /\ [Next]_vars => NamespaceInv'
    BY NamespaceStep
  <1> QED
    BY <1>1, <1>2, <1>3, PTL DEF Spec

-----------------------------------------------------------------------------
(* Commands of several writes                                              *)

\* Induction, for a set.
LEMMA SetInduction ==
    ASSUME NEW T, 0 \in T, \A n \in Nat : n \in T => n + 1 \in T
    PROVE  Nat \subseteq T
  <1> DEFINE out == Nat \ T
  <1> SUFFICES ASSUME out # {} PROVE FALSE
    OBVIOUS
  <1>1. PICK n \in out : \A m \in out : ~(<<m, n>> \in OpToRel(<, Nat))
    <2>1. out \subseteq Nat /\ out # {}
      OBVIOUS
    <2> HIDE DEF out
    <2> QED
      BY <2>1, NatLessThanWellFounded, WFMin
  <1>2. PICK m \in Nat : n = m + 1
    <2> QED
      OBVIOUS
  <1>3. <<m, n>> \in OpToRel(<, Nat)
    BY <1>2 DEF OpToRel
  <1>4. m \notin out
    <2> HIDE DEF out
    <2> QED
      BY <1>1, <1>3
  <1> QED
    BY <1>2, <1>4

\* f[i] is what the first i writes of a command leave.
Applies(f, d, places, ws, ordered) ==
    /\ f[0] = Done(d, 0)
    /\ \A i \in 1..Len(ws) : f[i] = AfterWrite(f[i - 1], places[i], ws[i], i, ordered)

\* The function that ApplyAll defines by recursion exists.
LEMMA ApplyAllDef ==
    ASSUME NEW d, NEW places, NEW ws, Len(ws) \in Nat, NEW ordered
    PROVE  \E f : /\ Applies(f, d, places, ws, ordered)
                  /\ ApplyAll(d, places, ws, ordered) = f[Len(ws)]
  <1> DEFINE Body(g, i) == IF i = 0 THEN Done(d, 0)
                           ELSE AfterWrite(g[i - 1], places[i], ws[i], i, ordered)
             Upto(n) == \E g : g = [i \in 0..n |-> Body(g, i)]
             T == {n \in Nat : Upto(n)}
  <1> DEFINE after[i \in 0..Len(ws)] ==
                 IF i = 0 THEN Done(d, 0)
                 ELSE AfterWrite(after[i - 1], places[i], ws[i], i, ordered)
  <1>4. after = [i \in 0..Len(ws) |-> Body(after, i)]
    OBVIOUS
  <1>5. ApplyAll(d, places, ws, ordered) = after[Len(ws)]
    BY DEF ApplyAll
  <1> HIDE DEF after
  <1>6. Applies(after, d, places, ws, ordered)
    BY <1>4 DEF Applies
  <1> QED
    BY <1>5, <1>6

LEMMA ApplyCases ==
    ASSUME NEW d, NEW ns, NEW w \in Forms, NEW i
    PROVE  \/ \E n : Apply(d, ns, w, i) = Done(d, n)
           \/ \E c, n : Apply(d, ns, w, i) = Done(Put(d, ns, c), n)
           \/ Apply(d, ns, w, i) = Failed(d, i)
  <1>1. w.op \in {"insert", "update", "delete"}
    BY DEF Forms
  <1>2. CASE w.op = "insert"
    BY <1>2 DEF Apply
  <1>3. CASE w.op = "update"
    BY <1>3 DEF Apply
  <1>4. CASE w.op = "delete"
    BY <1>4 DEF Apply
  <1> QED
    BY <1>1, <1>2, <1>3, <1>4

LEMMA ApplyFields ==
    ASSUME NEW d, NEW ns, NEW w \in Forms, NEW i
    PROVE  DOMAIN Apply(d, ns, w, i) = {"db", "n", "failed"}
  BY ApplyCases DEF Done, Failed

LEMMA ApplyFacts ==
    ASSUME NEW d, NEW ns \in Names, NEW w \in Forms, NEW i, DOMAIN d \subseteq Names
    PROVE  /\ DOMAIN Apply(d, ns, w, i).db \subseteq Names
           /\ Apply(d, ns, w, i).failed \subseteq {i}
  <1>1. \A n : DOMAIN Done(d, n).db \subseteq Names /\ Done(d, n).failed = {}
    BY DEF Done
  <1>2. \A c, n : /\ DOMAIN Done(Put(d, ns, c), n).db \subseteq Names
                  /\ Done(Put(d, ns, c), n).failed = {}
    BY DEF Done, Put
  <1>3. DOMAIN Failed(d, i).db \subseteq Names /\ Failed(d, i).failed = {i}
    BY DEF Failed
  <1> QED
    BY <1>1, <1>2, <1>3, ApplyCases

\* A command of writes changes collections that have a name, and only writes of
\* its own fail.
LEMMA ApplyAllFacts ==
    ASSUME NEW d, NEW places, NEW ws \in Seq(Forms), NEW ordered, DOMAIN d \subseteq Names,
           \A i \in DOMAIN ws : places[i] \in Names
    PROVE  LET r == ApplyAll(d, places, ws, ordered)
           IN  DOMAIN r.db \subseteq Names /\ r.failed \subseteq DOMAIN ws
  <1>2. PICK f : /\ Applies(f, d, places, ws, ordered)
                 /\ ApplyAll(d, places, ws, ordered) = f[Len(ws)]
    BY ApplyAllDef
  <1> DEFINE Right(r) == DOMAIN r.db \subseteq Names /\ r.failed \subseteq DOMAIN ws
             T == {n \in Nat : n <= Len(ws) => Right(f[n])}
  <1>3. 0 \in T
    BY <1>2 DEF Applies, Done
  <1>4. ASSUME NEW n \in Nat, n \in T PROVE n + 1 \in T
    <2> SUFFICES ASSUME n + 1 <= Len(ws) PROVE Right(f[n + 1])
      OBVIOUS
    <2>1. n + 1 \in 1..Len(ws) /\ (n + 1) - 1 = n /\ Right(f[n])
      BY <1>4
    <2> DEFINE r == f[n]
               one == Apply(r.db, places[n + 1], ws[n + 1], n + 1)
    <2>2. f[n + 1] = AfterWrite(r, places[n + 1], ws[n + 1], n + 1, ordered)
      BY <1>2 DEF Applies
    <2>3. /\ DOMAIN one.db \subseteq Names /\ one.failed \subseteq {n + 1}
          /\ DOMAIN one = {"db", "n", "failed"}
      <3>1. ws[n + 1] \in Forms /\ places[n + 1] \in Names
        OBVIOUS
      <3> QED
        BY <2>1, <3>1, ApplyFacts, ApplyFields
    <2> HIDE DEF one
    <2> QED
      BY <2>1, <2>2, <2>3 DEF AfterWrite, one
  <1> HIDE DEF T
  <1>5. Len(ws) \in T
    <2>1. Nat \subseteq T
      BY <1>3, <1>4, SetInduction
    <2> QED
      BY <2>1
  <1> QED
    BY <1>2, <1>5 DEF T

-----------------------------------------------------------------------------
(* Types, and what a caller is told of its writes                          *)

Ops == {"listCollections", "create", "collMod", "write", "bulkWrite", "count", "drop",
        "renameCollection", "dropDatabase", "convertToCapped", "createIndexes", "dropIndexes",
        "listIndexes"}

\* What reaches a server.
Sendable(m) ==
    /\ m.op \in Ops /\ m.ns \in Names /\ m.to \in Names /\ m.ws \in Seq(Forms)
    /\ m.op = "bulkWrite" /\ m.ok =>
          \A i \in DOMAIN m.ws : i \in DOMAIN m.places /\ m.places[i] \in Names

\* Everything was applied if and only if nothing failed.
Honest(r) == r.applied = 1..r.total <=> r.failed = {}

Waits(t) ==
    \/ pc[t] = "idle" /\ call[t] = NoCall
    \/ /\ pc[t] = "queued" /\ call[t] \in CallForms /\ call[t].f = "bulk_write"
       /\ msg[t].op = "bulkWrite" /\ msg[t].ns \in Names /\ msg[t].to \in Names
    \/ /\ pc[t] \in {"sent", "answered"} /\ call[t] \in CallForms /\ Sendable(msg[t])
       /\ call[t].f = "bulk_write" <=> msg[t].op = "bulkWrite"
       /\ pc[t] = "answered" /\ reply[t].failed # {} => msg[t].op \in {"write", "bulkWrite"}

Told(t) ==
    LET l == last[t] IN
    /\ Honest(reply[t]) /\ Honest(l.reply)
    /\ l.how = "returned" /\ l.f # "bulk_write" => l.reply.failed = {}
    /\ l.how = "OperationFailure" /\ l.reply.ok => l.reply.failed # {}

Counted == calls \in Nat /\ faults \in Nat /\ calls + faults + Len(operations) <= MaxEvents

TypeInv ==
    /\ NamespaceInv /\ Counted
    /\ OnTasks(call) /\ OnTasks(reply) /\ OnTasks(last)
    /\ DOMAIN db \subseteq Names
    /\ \A m \in late : Sendable(m)
    /\ \A t \in Tasks : Waits(t) /\ Told(t)

LEMMA CountedStep ==
    ASSUME NamespaceInv, Counted, [Next]_vars
    PROVE  Counted'
  <1>2. ASSUME NEW w \in Writes, NEW ns \in Names, AddOperation(w, ns) PROVE Counted'
    <2>1. Len(operations') = Len(operations) + 1
      BY <1>2 DEF AddOperation, Add
    <2> QED
      BY <1>2, <2>1, TasksAssumption DEF AddOperation, Bounded, Counted
  <1>3. ASSUME UNCHANGED operations,
               \/ UNCHANGED <<calls, faults>>
               \/ Bounded /\ calls' = calls + 1 /\ faults' = faults
               \/ Bounded /\ calls' = calls /\ faults' = faults + 1
        PROVE  Counted'
    BY <1>3, TasksAssumption DEF Counted, Bounded
  <1>4. ASSUME NEW t \in Tasks, NEW c \in Calls, Call(t, c) \/ CallRefused(t, c) PROVE Counted'
    BY <1>3, <1>4 DEF Call, CallRefused, Begin, builderVars
  <1>5. ASSUME NEW t \in Tasks, Insist(t) \/ Step(t) \/ Serve(t) PROVE Counted'
    BY <1>3, <1>5 DEF Insist, Begin, Step, Send, OperationFails, Create, NamespaceMissing,
       Return, Keep, Serve, builderVars
  <1>6. ASSUME NEW t \in Tasks, GiveUp(t) PROVE Counted'
    BY <1>3, <1>6 DEF GiveUp, builderVars
  <1>7. ASSUME NEW m \in late, ServeLate(m) PROVE Counted'
    BY <1>3, <1>7 DEF ServeLate, builderVars
  <1> QED
    BY <1>2, <1>3, <1>4, <1>5, <1>6, <1>7 DEF Next, vars

LEMMA WrittenFacts ==
    ASSUME NEW r, NEW ws \in Seq(Forms), NEW ordered, r.failed \subseteq DOMAIN ws
    PROVE  Written(r, ws, ordered).db = r.db /\ Honest(Written(r, ws, ordered).reply)
  <1> DEFINE done == {i \in DOMAIN ws :
                         i \notin r.failed /\ (ordered => \A j \in r.failed : i < j)}
  <1>1. /\ Written(r, ws, ordered).db = r.db
        /\ Written(r, ws, ordered).reply.applied = done
        /\ Written(r, ws, ordered).reply.total = Len(ws)
        /\ Written(r, ws, ordered).reply.failed = r.failed
    BY DEF Written
  <1>3. done = DOMAIN ws <=> r.failed = {}
    OBVIOUS
  <1> HIDE DEF done
  <1> QED
    BY <1>1, <1>3 DEF Honest

\* A command that does not write in the plain sense succeeds or fails as a whole.
LEMMA WholeFacts ==
    ASSUME NEW d, NEW n
    PROVE  /\ Yes(d, n).db = d /\ Honest(Yes(d, n).reply) /\ Yes(d, n).reply.failed = {}
           /\ No(d).db = d /\ Honest(No(d).reply) /\ No(d).reply.failed = {}
  <1>1. 1..0 = {}
    OBVIOUS
  <1> QED
    BY <1>1 DEF Yes, No, NoReply, Honest

LEMMA NoReplyFacts == Honest(NoReply) /\ NoReply.failed = {}
  <1> QED
    BY DEF NoReply, Honest

LEMMA OutcomeFacts ==
    ASSUME NEW d, NEW m, Sendable(m), DOMAIN d \subseteq Names
    PROVE  /\ DOMAIN Outcome(d, m).db \subseteq Names
           /\ Honest(Outcome(d, m).reply)
           /\ Outcome(d, m).reply.failed # {} => m.op \in {"write", "bulkWrite"}
  <1>1. CASE m.op \notin {"write", "bulkWrite"}
    <2>1. \E e, n : /\ DOMAIN e \subseteq Names
                    /\ Outcome(d, m) = Yes(e, n) \/ Outcome(d, m) = No(e)
      <3>1. \A c : DOMAIN Put(d, m.ns, c) \subseteq Names
        BY DEF Put, Sendable
      <3>2. DOMAIN Drop(d, m.ns) \subseteq Names
        BY DEF Drop
      <3>3. \A c : DOMAIN Put(Drop(d, m.ns), m.to, c) \subseteq Names
        BY <3>2 DEF Put, Sendable
      <3>4. DOMAIN << >> \subseteq Names
        OBVIOUS
      <3>5. CASE m.op \in {"listCollections", "create", "collMod", "count", "drop"}
        BY <3>1, <3>2, <3>5 DEF Outcome, Need
      <3>6. CASE m.op \in {"renameCollection", "dropDatabase"}
        BY <3>3, <3>4, <3>6 DEF Outcome
      <3>7. CASE m.op \in {"convertToCapped", "createIndexes", "dropIndexes", "listIndexes"}
        BY <3>1, <3>7 DEF Outcome, Need
      <3> QED
        BY <1>1, <3>5, <3>6, <3>7 DEF Sendable, Ops
    <2> QED
      BY <2>1, WholeFacts
  <1>2. CASE m.op = "write"
    <2> DEFINE ws == [i \in DOMAIN m.ws |-> ToWrite(m.ws[i])]
               places == [i \in DOMAIN ws |-> m.ns]
               r == ApplyAll(d, places, ws, m.flag)
    <2>1. Outcome(d, m) = No(d) \/ Outcome(d, m) = Written(r, ws, m.flag)
      BY <1>2 DEF Outcome
    <2>2. ws \in Seq(Forms)
      <3>1. \A w \in Forms : ToWrite(w) \in Forms
        BY DEF ToWrite, Forms
      <3>2. m.ws \in Seq(Forms)
        BY DEF Sendable
      <3> QED
        BY <3>1, <3>2
    <2>3. \A i \in DOMAIN ws : places[i] \in Names
      BY DEF Sendable
    <2> HIDE DEF ws, places
    <2>4. DOMAIN r.db \subseteq Names /\ r.failed \subseteq DOMAIN ws
      BY <2>2, <2>3, ApplyAllFacts
    <2> HIDE DEF r
    <2>5. Written(r, ws, m.flag).db = r.db /\ Honest(Written(r, ws, m.flag).reply)
      BY <2>2, <2>4, WrittenFacts
    <2>6. No(d).db = d /\ Honest(No(d).reply)
      BY WholeFacts
    <2> QED
      BY <1>2, <2>1, <2>4, <2>5, <2>6
  <1>3. CASE m.op = "bulkWrite"
    <2> DEFINE r == ApplyAll(d, m.places, m.ws, TRUE)
    <2>1. Outcome(d, m) = No(d) \/ (m.ok /\ Outcome(d, m) = Written(r, m.ws, TRUE))
      BY <1>3 DEF Outcome
    <2>2. m.ok => DOMAIN r.db \subseteq Names /\ r.failed \subseteq DOMAIN m.ws
      <3>1. m.ws \in Seq(Forms) /\ (m.ok => \A i \in DOMAIN m.ws : m.places[i] \in Names)
        BY <1>3 DEF Sendable
      <3>2. ASSUME m.ok, NEW o
            PROVE  /\ DOMAIN ApplyAll(d, m.places, m.ws, o).db \subseteq Names
                   /\ ApplyAll(d, m.places, m.ws, o).failed \subseteq DOMAIN m.ws
        BY <3>1, <3>2, ApplyAllFacts
      <3> QED
        BY <3>2
    <2> HIDE DEF r
    <2>3. m.ws \in Seq(Forms)
      BY DEF Sendable
    <2>4. m.ok => /\ Written(r, m.ws, TRUE).db = r.db
                  /\ Honest(Written(r, m.ws, TRUE).reply)
      <3>1. ASSUME m.ok, NEW o
            PROVE  Written(r, m.ws, o).db = r.db /\ Honest(Written(r, m.ws, o).reply)
        BY <2>2, <2>3, <3>1, WrittenFacts
      <3> QED
        BY <3>1
    <2> QED
      BY <1>3, <2>1, <2>2, <2>4, WholeFacts
  <1> QED
    BY <1>1, <1>2, <1>3

LEMMA FirstCommandFacts ==
    ASSUME NEW c \in CallForms
    PROVE  LET m == FirstCommand(c)
           IN  /\ m.ns \in Names /\ m.to \in Names
               /\ c.f = "bulk_write" <=> m.op = "bulkWrite"
               /\ c.f # "bulk_write" => Sendable(m)
  <1>1. c.f \in DOMAIN FirstOp \cup {"bulk_write"} /\ c.ns \in Names /\ c.to \in Names
        /\ c.ws \in Seq(Forms)
    BY DEF CallForms
  <1>2. CASE c.f = "bulk_write"
    BY <1>1, <1>2 DEF FirstCommand, Command
  <1>3. CASE c.f = "clear"
    <2> DEFINE ws == <<DeleteOp("good", 0), DeleteOp("bad", 0)>>
               a == [c EXCEPT !.ws = ws, !.flag = TRUE]
    <2>1. ws \in Seq(Forms)
      BY DEF DeleteOp, Forms
    <2>2. a.ns = c.ns /\ a.to = c.to /\ a.ws = ws
      OBVIOUS
    <2>3. FirstCommand(c) = Command("write", a)
      BY <1>3 DEF FirstCommand
    <2> HIDE DEF a, ws
    <2> QED
      BY <1>1, <1>3, <2>1, <2>2, <2>3 DEF Command, Sendable, Ops
  <1>4. CASE c.f \notin {"bulk_write", "clear"}
    <2>1. FirstCommand(c) = Command(FirstOp[c.f], c)
      BY <1>4 DEF FirstCommand
    <2>2. FirstOp[c.f] \in Ops \ {"bulkWrite"}
      BY <1>1, <1>4 DEF FirstOp, Ops
    <2> QED
      BY <1>1, <1>4, <2>1, <2>2 DEF Command, Sendable
  <1> QED
    BY <1>2, <1>3, <1>4

\* A step is right if it is right for the task that takes it.
LEMMA OwnType ==
    ASSUME TypeInv, NamespaceInv', Counted', NEW t \in Tasks,
           OnTasks(call)', OnTasks(reply)', OnTasks(last)',
           DOMAIN db' \subseteq Names, \A m \in late' : Sendable(m),
           Waits(t)', Told(t)', \A u \in Tasks \ {t} : Same(u)
    PROVE  TypeInv'
  <1>1. ASSUME NEW u \in Tasks, u # t PROVE Waits(u)' /\ Told(u)'
    BY DEF TypeInv, Same, Waits, Told
  <1> QED
    BY <1>1 DEF TypeInv

LEMMA BeginType ==
    ASSUME TypeInv, NamespaceInv', Counted', NEW t \in Tasks, NEW c \in CallForms, Begin(t, c)
    PROVE  TypeInv'
  <1>1. /\ call' = [call EXCEPT ![t] = c] /\ UNCHANGED <<db, reply, last, late>>
        /\ pc' = [pc EXCEPT ![t] = IF c.f = "bulk_write" THEN "queued" ELSE "sent"]
        /\ msg' = [msg EXCEPT ![t] = FirstCommand(c)]
    BY DEF Begin
  <1>2. /\ OnTasks(call)' /\ OnTasks(reply)' /\ OnTasks(last)'
        /\ \A u \in Tasks \ {t} : Same(u)
    BY <1>1 DEF TypeInv, OnTasks, Same
  <1>3. /\ call'[t] = c /\ msg'[t] = FirstCommand(c) /\ UNCHANGED <<last[t], reply[t]>>
        /\ pc'[t] = IF c.f = "bulk_write" THEN "queued" ELSE "sent"
    BY <1>1 DEF TypeInv, NamespaceInv, OnTasks
  <1>4. Waits(t)'
    BY <1>3, FirstCommandFacts DEF Waits
  <1>5. Told(t)'
    BY <1>3 DEF TypeInv, Told
  <1> QED
    BY <1>1, <1>2, <1>4, <1>5, OwnType DEF TypeInv

\* A call that ends tells what its answer says.
LEMMA EndType ==
    ASSUME TypeInv, NamespaceInv', Counted', NEW t \in Tasks, NEW how, End(t, how),
           UNCHANGED db, \A m \in late' : Sendable(m),
           how \in {"OperationFailure", "returned"} => pc[t] = "answered",
           how = "OperationFailure" => Raises(t), how = "returned" => ~Raises(t)
    PROVE  TypeInv'
  <1>1. /\ call' = [call EXCEPT ![t] = NoCall] /\ pc' = [pc EXCEPT ![t] = "idle"]
        /\ msg' = [msg EXCEPT ![t] = NoCommand] /\ reply' = [reply EXCEPT ![t] = NoReply]
        /\ last' = [last EXCEPT ![t] = [Result(call[t], how) EXCEPT !.reply = reply[t]]]
    BY DEF End
  <1>2. /\ OnTasks(call)' /\ OnTasks(reply)' /\ OnTasks(last)'
        /\ \A u \in Tasks \ {t} : Same(u)
    <2> DEFINE l == [Result(call[t], how) EXCEPT !.reply = reply[t]]
    <2>1. last' = [last EXCEPT ![t] = l]
      BY <1>1
    <2>2. /\ call' = [call EXCEPT ![t] = NoCall] /\ pc' = [pc EXCEPT ![t] = "idle"]
          /\ msg' = [msg EXCEPT ![t] = NoCommand] /\ reply' = [reply EXCEPT ![t] = NoReply]
      BY <1>1
    <2> HIDE DEF l
    <2> QED
      BY <2>1, <2>2 DEF TypeInv, NamespaceInv, OnTasks, Same
  <1>3. Waits(t)'
    BY <1>1 DEF TypeInv, NamespaceInv, OnTasks, Waits
  <1>4. /\ last'[t].how = how /\ last'[t].f = call[t].f /\ last'[t].reply = reply[t]
        /\ reply'[t] = NoReply
    BY <1>1 DEF TypeInv, OnTasks, Result
  <1>5. Honest(reply[t])
    BY DEF TypeInv, Told
  <1>6. how = "returned" /\ call[t].f # "bulk_write" => reply[t].failed = {}
    BY DEF TypeInv, Waits, Raises
  <1>7. Told(t)'
    BY <1>4, <1>5, <1>6, NoReplyFacts DEF Told, Raises
  <1> QED
    BY <1>2, <1>3, <1>7, OwnType DEF TypeInv

LEMMA SendType ==
    ASSUME TypeInv, NamespaceInv', Counted', NEW t \in Tasks, Send(t)
    PROVE  TypeInv'
  <1>1. /\ pc[t] = "queued" /\ pc' = [pc EXCEPT ![t] = "sent"]
        /\ msg' = [msg EXCEPT ![t] = Encoded(msg[t])]
        /\ UNCHANGED <<db, call, reply, last, late>>
    BY DEF Send
  <1>2. /\ OnTasks(call)' /\ OnTasks(reply)' /\ OnTasks(last)'
        /\ \A u \in Tasks \ {t} : Same(u)
    BY <1>1 DEF TypeInv, Same
  <1> DEFINE m == msg[t]
  <1>3. /\ call'[t] = call[t] /\ pc'[t] = "sent" /\ msg'[t] = Encoded(m)
        /\ UNCHANGED <<last[t], reply[t]>>
    BY <1>1 DEF NamespaceInv, OnTasks
  <1>4. /\ call[t] \in CallForms /\ call[t].f = "bulk_write"
        /\ m.op = "bulkWrite" /\ m.ns \in Names /\ m.to \in Names
    BY <1>1 DEF TypeInv, Waits
  <1>5. IsCommand(m) /\ m.info \in Seq(Names)
    BY <1>1 DEF TypeInv, NamespaceInv, CommandInv, BuiltFrom
  <1> HIDE DEF m
  <1>6. LET e == Encoded(m) IN
        /\ e.op = m.op /\ e.ns = m.ns /\ e.to = m.to /\ e.ws = BulkWrites
        /\ e.ok = (Resolved(m.info) /\ operations # <<>>)
        /\ e.places = IF Resolved(m.info) THEN Places(m.info) ELSE <<>>
    BY DEF Encoded
  <1>7. BulkWrites \in Seq(Forms) /\ DOMAIN BulkWrites = DOMAIN operations
    <2> DEFINE S == [index : Nat, ns : Names, write : Writes]
    <2>1. operations \in Seq(S)
      BY DEF TypeInv, NamespaceInv, BuilderInv
    <2>2. ASSUME NEW x \in S PROVE AsBulkWriteOp(x.write) \in Forms
      <3>1. x.write \in Forms
        BY CallsAssumption
      <3> HIDE DEF S
      <3> QED
        BY <3>1 DEF AsBulkWriteOp, Forms
    <2> HIDE DEF S
    <2> QED
      BY <2>1, <2>2 DEF BulkWrites
  <1>8. Resolved(m.info) =>
            \A i \in DOMAIN operations : i \in DOMAIN Places(m.info) /\ Places(m.info)[i] \in Names
    BY <1>5 DEF Resolved, Places
  <1>9. Sendable(Encoded(m))
    BY <1>4, <1>6, <1>7, <1>8 DEF Sendable, Ops
  <1>10. Waits(t)'
    BY <1>3, <1>4, <1>6, <1>9 DEF Waits
  <1>11. Told(t)'
    BY <1>3 DEF TypeInv, Told
  <1> QED
    BY <1>1, <1>2, <1>10, <1>11, OwnType DEF TypeInv

LEMMA CreateType ==
    ASSUME TypeInv, NamespaceInv', Counted', NEW t \in Tasks, Create(t)
    PROVE  TypeInv'
  <1>1. /\ pc[t] = "answered" /\ call[t].f = "create_if_not_exists"
        /\ pc' = [pc EXCEPT ![t] = "sent"] /\ reply' = [reply EXCEPT ![t] = NoReply]
        /\ msg' = [msg EXCEPT ![t] = Command("create", call[t])]
        /\ UNCHANGED <<db, call, last, late>>
    BY DEF Create, Keep, Answered
  <1>2. /\ OnTasks(call)' /\ OnTasks(reply)' /\ OnTasks(last)'
        /\ \A u \in Tasks \ {t} : Same(u)
    BY <1>1 DEF TypeInv, OnTasks, Same
  <1>3. /\ call'[t] = call[t] /\ pc'[t] = "sent" /\ last'[t] = last[t]
        /\ msg'[t] = Command("create", call[t]) /\ reply'[t] = NoReply
    BY <1>1 DEF TypeInv, NamespaceInv, OnTasks
  <1>4. call[t] \in CallForms
    BY <1>1 DEF TypeInv, Waits
  <1>5. Sendable(Command("create", call[t])) /\ Command("create", call[t]).op = "create"
    BY <1>4 DEF CallForms, Command, Sendable, Ops
  <1>6. Waits(t)'
    BY <1>1, <1>3, <1>4, <1>5 DEF Waits
  <1>7. Told(t)'
    BY <1>3, NoReplyFacts DEF TypeInv, Told
  <1> QED
    BY <1>1, <1>2, <1>6, <1>7, OwnType DEF TypeInv

LEMMA ServeType ==
    ASSUME TypeInv, NamespaceInv', Counted', NEW t \in Tasks, Serve(t)
    PROVE  TypeInv'
  <1> DEFINE out == Outcome(db, msg[t])
  <1>1. /\ pc[t] = "sent" /\ pc' = [pc EXCEPT ![t] = "answered"]
        /\ db' = out.db /\ reply' = [reply EXCEPT ![t] = out.reply]
        /\ UNCHANGED <<call, msg, last, late>>
    BY DEF Serve, Answer
  <1>2. /\ OnTasks(call)' /\ OnTasks(reply)' /\ OnTasks(last)'
        /\ \A u \in Tasks \ {t} : Same(u)
    BY <1>1 DEF TypeInv, OnTasks, Same
  <1>3. /\ call'[t] = call[t] /\ pc'[t] = "answered" /\ last'[t] = last[t] /\ msg'[t] = msg[t]
        /\ reply'[t] = out.reply
    BY <1>1 DEF TypeInv, NamespaceInv, OnTasks
  <1>4. /\ Sendable(msg[t]) /\ call[t] \in CallForms
        /\ call[t].f = "bulk_write" <=> msg[t].op = "bulkWrite"
    BY <1>1 DEF TypeInv, Waits
  <1>5. /\ DOMAIN out.db \subseteq Names /\ Honest(out.reply)
        /\ out.reply.failed # {} => msg[t].op \in {"write", "bulkWrite"}
    BY <1>4, OutcomeFacts DEF TypeInv
  <1> HIDE DEF out
  <1>6. Waits(t)'
    BY <1>3, <1>4, <1>5 DEF Waits
  <1>7. Told(t)'
    BY <1>3, <1>5 DEF TypeInv, Told
  <1> QED
    BY <1>1, <1>2, <1>5, <1>6, <1>7, OwnType DEF TypeInv

LEMMA TypeStep ==
    ASSUME TypeInv, [Next]_vars
    PROVE  TypeInv'
  <1>1. NamespaceInv' /\ Counted'
    BY NamespaceStep, CountedStep DEF TypeInv
  <1>2. ASSUME NEW t \in Tasks, NEW c \in Calls, Call(t, c) PROVE TypeInv'
    BY <1>1, <1>2, BeginType, CallsAssumption DEF Call
  <1>3. ASSUME NEW t \in Tasks, NEW c \in Calls, CallRefused(t, c) PROVE TypeInv'
    <2>1. /\ last' = [last EXCEPT ![t] = Result(c, "ValueError")]
          /\ UNCHANGED <<db, call, pc, msg, reply, late>>
      BY <1>3 DEF CallRefused
    <2>2. /\ OnTasks(call)' /\ OnTasks(reply)' /\ OnTasks(last)'
          /\ \A u \in Tasks \ {t} : Same(u)
      BY <2>1 DEF TypeInv, OnTasks, Same
    <2>4. Told(t)'
      BY <2>1, NoReplyFacts DEF TypeInv, Told, Result
    <2>5. Waits(t)'
      BY <2>1 DEF TypeInv, Waits
    <2> QED
      BY <1>1, <2>1, <2>2, <2>4, <2>5, OwnType DEF TypeInv
  <1>4. ASSUME NEW t \in Tasks, Insist(t) PROVE TypeInv'
    <2>1. Ensure(Wanted) \in CallForms
      BY TasksAssumption DEF Ensure, CallOf, CallForms, FirstOp
    <2> QED
      BY <1>1, <1>4, <2>1, BeginType DEF Insist
  <1>5. ASSUME NEW t \in Tasks, OperationFails(t) \/ NamespaceMissing(t) \/ Return(t)
        PROVE  TypeInv'
    <2>1. \A m \in late : Sendable(m)
      BY DEF TypeInv
    <2>2. CASE OperationFails(t)
      BY <1>1, <2>1, <2>2, EndType DEF OperationFails, Answered, Keep
    <2>3. CASE NamespaceMissing(t)
      BY <1>1, <2>1, <2>3, EndType DEF NamespaceMissing, Keep
    <2>4. CASE Return(t)
      BY <1>1, <2>1, <2>4, EndType DEF Return, Answered, Keep
    <2> QED
      BY <1>5, <2>2, <2>3, <2>4
  <1>6. ASSUME NEW t \in Tasks, GiveUp(t) PROVE TypeInv'
    <2>1. \A m \in late' : Sendable(m)
      BY <1>6 DEF GiveUp, TypeInv, Waits
    <2> QED
      BY <1>1, <1>6, <2>1, EndType DEF GiveUp
  <1>7. ASSUME NEW t \in Tasks, Step(t) \/ Serve(t) PROVE TypeInv'
    BY <1>1, <1>5, <1>7, SendType, CreateType, ServeType DEF Step
  <1>8. ASSUME UNCHANGED <<call, pc, msg, reply, last>>, DOMAIN db' \subseteq Names,
               late' \subseteq late
        PROVE  TypeInv'
    BY <1>1, <1>8 DEF TypeInv, Waits, Told
  <1>9. ASSUME NEW m \in late, ServeLate(m) PROVE TypeInv'
    <2>1. db' = Outcome(db, m).db /\ late' \subseteq late
          /\ UNCHANGED <<call, pc, msg, reply, last>>
      BY <1>9 DEF ServeLate
    <2>2. DOMAIN db' \subseteq Names
      BY <2>1, OutcomeFacts DEF TypeInv
    <2> QED
      BY <1>8, <2>1, <2>2
  <1>10. CASE UNCHANGED <<db, call, pc, msg, reply, last, late>>
    BY <1>8, <1>10 DEF TypeInv
  <1> QED
    BY <1>2, <1>3, <1>4, <1>6, <1>7, <1>9, <1>10 DEF Next, AddOperation, vars, taskVars

LEMMA TypeInit == Init => TypeInv
  <1> SUFFICES ASSUME Init PROVE TypeInv
    OBVIOUS
  <1>1. NamespaceInv
    BY NamespaceInit
  <1>2. Counted
    BY TasksAssumption DEF Init, BuilderInit, Counted
  <1>3. ASSUME NEW t \in Tasks PROVE Waits(t) /\ Told(t)
    BY NoReplyFacts DEF Init, Waits, Told, Result
  <1> QED
    BY <1>1, <1>2, <1>3, DatabasesAssumption DEF Init, TypeInv, OnTasks

\* A task is in the await its method has come to (collection.py), the server
\* only ever has collections with a name, whatever is written, renamed or
\* arrives late, and no operation of the builder is without its namespace.
THEOREM TypeCorrect == Spec => []TypeOK
  <1>1. TypeInv => TypeOK
    <2> SUFFICES ASSUME TypeInv PROVE TypeOK
      OBVIOUS
    <2>1. NoCall \notin CallForms
      BY DEF NoCall, CallOf, CallForms, FirstOp
    <2>2. ASSUME NEW t \in Tasks
          PROVE  /\ pc[t] \in {"idle", "queued", "sent", "answered"}
                 /\ pc[t] = "queued" => call[t].f = "bulk_write"
                 /\ Idle(t) <=> call[t] = NoCall
      BY <2>1 DEF TypeInv, Waits, Idle
    <2>4. calls + faults + Len(operations) \in 0..MaxEvents
      BY DEF TypeInv, Counted
    <2> QED
      BY <2>2, <2>4 DEF TypeInv, NamespaceInv, BuilderInv, TypeOK
  <1> QED
    BY <1>1, TypeInit, TypeStep, PTL DEF Spec

\* What a caller is told of its writes (transport.py:132) is what happened to
\* them, for commands of any number of writes, ordered or not, on any contents:
\* no error is lost on the way, and none is made up.
THEOREM WritesReportedCorrect == Spec => []WritesReported
  <1>1. TypeInv => WritesReported
    BY DEF TypeInv, Told, Honest, WritesReported
  <1> QED
    BY <1>1, TypeInit, TypeStep, PTL DEF Spec
=============================================================================
