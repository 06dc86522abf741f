----------------------------- MODULE Collection -----------------------------
(***************************************************************************)
(* Tasks that use Collection, Database and Kover methods against one       *)
(* server (collection.py, database.py, client.py, transport.py:132).       *)
(*                                                                         *)
(* A command is two steps, the server's and its caller's.  The caller may  *)
(* give up before or after the server acted on it, and a server may act on *)
(* a command whose caller is gone.  Every other answer is the command's    *)
(* own: that is what Client is about.                                      *)
(***************************************************************************)
EXTENDS BulkWrite

CONSTANTS
    Tasks,
    Stubborn,  \* tasks that repeat create_if_not_exists(Wanted) until it returns
    Wanted,
    Calls,     \* what the other tasks may call
    Writes,    \* the writes a program may add to the builder
    Databases, \* what the server may hold at the beginning
    MaxEvents  \* bound: calls of other tasks, commands given up, operations in the builder

ASSUME TasksAssumption ==
    /\ Stubborn \subseteq Tasks /\ Wanted \in Names
    /\ MaxEvents \in Nat

VARIABLES
    db,     \* the server's database
    call,   \* the call each task is in
    pc,     \* "idle", "queued" for a transport, "sent", or "answered"
    msg,    \* its command
    reply,  \* the server's answer
    last,   \* how its last call ended
    late,   \* commands whose callers are gone and which may still arrive
    calls, faults,
    existed,\* the collection of the call existed at some time since its beginning
    rival   \* another actor created it since its beginning

taskVars == <<call, pc, msg, reply, last, existed, rival>>
vars == <<operations, namespaces, db, call, pc, msg, reply, last, late, calls, faults,
          existed, rival>>

\* ws are writes, to another collection, n a size or a number of indexes, flag
\* drop_target, drop_all or `ordered`.
CallOf(f, ns) == [f |-> f, ns |-> ns, ws |-> <<>>, to |-> ns, n |-> 1, flag |-> FALSE]
NoCall == CallOf("none", Wanted)
Ensure(ns) == CallOf("create_if_not_exists", ns)
\* info is the nsInfo of a bulkWrite, places what its operations refer to, and
\* ok whether they all refer to something.
Command(op, c) == [op |-> op, ns |-> c.ns, ws |-> c.ws, to |-> c.to, flag |-> c.flag,
                   info |-> <<>>, places |-> <<>>, ok |-> TRUE]
NoCommand == Command("none", NoCall)
NoReply == [ok |-> TRUE, n |-> 0, failed |-> {}, applied |-> {}, total |-> 0]
Result(c, how) == [f |-> c.f, ns |-> c.ns, how |-> how, reply |-> NoReply]
-----------------------------------------------------------------------------
(* What each method asks for first                                         *)

FirstOp == [create_if_not_exists |-> "listCollections", with_options |-> "listCollections",
            create_collection |-> "create", set_validator |-> "collMod",
            insert |-> "write", update |-> "write", delete |-> "write", clear |-> "write",
            count |-> "count", drop |-> "drop",
            rename_collection |-> "renameCollection", drop_database |-> "dropDatabase",
            convert_to_capped |-> "convertToCapped", create_indexes |-> "createIndexes",
            drop_indexes |-> "dropIndexes", list_indexes |-> "listIndexes"]

\* What a program calls, with which arguments, and what was there before it.
CallForms == [f : DOMAIN FirstOp \cup {"bulk_write"}, ns : Names, ws : Seq(Forms), to : Names,
              n : Int, flag : BOOLEAN]

ASSUME CallsAssumption == Calls \subseteq CallForms /\ Writes \subseteq Forms
ASSUME DatabasesAssumption == \A d \in Databases : DOMAIN d \subseteq Names

\* ValueError before any request.
LocallyRefused(c) == c.f \in {"convert_to_capped", "create_indexes"} /\ c.n <= 0

FirstCommand(c) ==
    CASE c.f = "clear" -> \* Delete({}, limit=0): one filter per value here
            Command("write", [c EXCEPT !.ws = <<DeleteOp("good", 0), DeleteOp("bad", 0)>>, !.flag = TRUE])
      [] c.f = "bulk_write" -> [Command("bulkWrite", c) EXCEPT !.info = Build]
      [] OTHER -> Command(FirstOp[c.f], c)

Idle(t) == pc[t] = "idle"
Bounded == calls + faults + Len(operations) < MaxEvents

\* The bulk command's namespaces are those at the time of build(); its
\* operations are the builder's, whenever they are encoded.
Begin(t, c) ==
    /\ call' = [call EXCEPT ![t] = c]
    /\ pc' = [pc EXCEPT ![t] = IF c.f = "bulk_write" THEN "queued" ELSE "sent"]
    /\ msg' = [msg EXCEPT ![t] = FirstCommand(c)]
    /\ existed' = [existed EXCEPT ![t] = c.ns \in DOMAIN db]
    /\ rival' = [rival EXCEPT ![t] = FALSE]
    /\ UNCHANGED <<builderVars, db, reply, last, late, faults>>

Call(t, c) ==
    /\ Idle(t) /\ t \notin Stubborn
    /\ Bounded /\ calls' = calls + 1
    /\ ~LocallyRefused(c) /\ Begin(t, c)

CallRefused(t, c) ==
    /\ Idle(t) /\ t \notin Stubborn
    /\ Bounded /\ calls' = calls + 1
    /\ LocallyRefused(c)
    /\ last' = [last EXCEPT ![t] = Result(c, "ValueError")]
    /\ UNCHANGED <<builderVars, db, call, pc, msg, reply, late, faults, existed, rival>>

\* A program that repeats create_if_not_exists until it returns.
Insist(t) ==
    /\ Idle(t) /\ t \in Stubborn /\ last[t].how # "returned"
    /\ Begin(t, Ensure(Wanted)) /\ UNCHANGED calls

\* The transport is there and the bulk command is encoded: nsInfo, then the
\* places and the writes, or what the server will refuse.
Encoded(m) ==
    [m EXCEPT !.ws = BulkWrites, !.ok = Resolved(m.info) /\ operations # <<>>,
              !.places = IF Resolved(m.info) THEN Places(m.info) ELSE <<>>]

Send(t) ==
    /\ pc[t] = "queued"
    /\ pc' = [pc EXCEPT ![t] = "sent"]
    /\ msg' = [msg EXCEPT ![t] = Encoded(@)]
    /\ UNCHANGED <<builderVars, db, call, reply, last, late, calls, faults, existed, rival>>

AddOperation(w, ns) ==
    /\ Bounded /\ Add(w, ns)
    /\ UNCHANGED <<db, taskVars, late, calls, faults>>
-----------------------------------------------------------------------------
(* The server (external)                                                   *)

Yes(d, n) == [db |-> d, reply |-> [NoReply EXCEPT !.n = n]]
No(d) == [db |-> d, reply |-> [NoReply EXCEPT !.ok = FALSE]]
\* A reply to writes; which of them were applied is for the properties only.
Written(r, ws, ordered) ==
    [db |-> r.db, reply |-> [ok |-> TRUE, n |-> r.n, failed |-> r.failed, total |-> Len(ws),
        applied |-> {i \in DOMAIN ws : i \notin r.failed /\ (ordered => \A j \in r.failed : i < j)}]]
Need(d, m, ok) == IF m.ns \in DOMAIN d THEN ok ELSE No(d)

\* What the server does with a command: its new database and its reply.
Outcome(d, m) ==
    CASE m.op = "listCollections" -> Yes(d, IF m.ns \in DOMAIN d THEN 1 ELSE 0)
      [] m.op = "create" -> IF m.ns \in DOMAIN d THEN No(d) ELSE Yes(Put(d, m.ns, NewCollection), 0)
      [] m.op = "collMod" -> Need(d, m, Yes(Put(d, m.ns, [Contents(d, m.ns) EXCEPT !.validator = TRUE]), 0))
      [] m.op = "write" ->
            IF \E i \in DOMAIN m.ws : Refused(m.ws[i]) THEN No(d)
            ELSE LET ws == [i \in DOMAIN m.ws |-> ToWrite(m.ws[i])]
                 IN  Written(ApplyAll(d, [i \in DOMAIN ws |-> m.ns], ws, m.flag), ws, m.flag)
      [] m.op = "bulkWrite" ->
            IF ~m.ok THEN No(d) ELSE Written(ApplyAll(d, m.places, m.ws, TRUE), m.ws, TRUE)
      [] m.op = "count" -> Yes(d, Len(Contents(d, m.ns).docs))
      [] m.op = "drop" -> Yes(Drop(d, m.ns), 0)
      [] m.op = "renameCollection" ->
            IF m.ns \notin DOMAIN d \/ m.to = m.ns \/ (m.to \in DOMAIN d /\ ~m.flag) THEN No(d)
            ELSE Yes(Put(Drop(d, m.ns), m.to, d[m.ns]), 0)
      [] m.op = "dropDatabase" -> Yes(<<>>, 0)
      [] m.op = "convertToCapped" -> Need(d, m, Yes(Put(d, m.ns, [Contents(d, m.ns) EXCEPT !.indexes = {}]), 0))
      [] m.op = "createIndexes" -> Yes(Put(d, m.ns, [Contents(d, m.ns) EXCEPT !.indexes = {"i"}]), 0)
      [] m.op = "dropIndexes" -> \* "*" for drop_all, a name, or null
            Need(d, m, IF m.flag THEN Yes(Put(d, m.ns, [Contents(d, m.ns) EXCEPT !.indexes = {}]), 0) ELSE No(d))
      [] m.op = "listIndexes" -> Need(d, m, Yes(d, Cardinality(Contents(d, m.ns).indexes)))

\* For the properties: what the calls under way have lived through.
Witness(actors, new) ==
    /\ existed' = [u \in Tasks |-> existed[u] \/ (~Idle(u) /\ call[u].ns \in DOMAIN new)]
    /\ rival' = [u \in Tasks |-> rival[u] \/
            (~Idle(u) /\ u \notin actors /\ call[u].ns \in DOMAIN new /\ call[u].ns \notin DOMAIN db)]

Answer(t) == pc[t] = "sent" /\ pc' = [pc EXCEPT ![t] = "answered"]

Serve(t) ==
    /\ Answer(t)
    /\ LET out == Outcome(db, msg[t])
       IN  /\ db' = out.db
           /\ reply' = [reply EXCEPT ![t] = out.reply]
           /\ Witness({t}, out.db)
    /\ UNCHANGED <<builderVars, call, msg, last, late, calls, faults>>

ServeLate(m) ==
    /\ m \in late
    /\ LET out == Outcome(db, m) IN db' = out.db /\ Witness({}, out.db)
    /\ late' = late \ {m}
    /\ UNCHANGED <<builderVars, call, pc, msg, reply, last, calls, faults>>
-----------------------------------------------------------------------------
(* What the caller makes of the answer                                     *)

End(t, how) ==
    /\ last' = [last EXCEPT ![t] = [Result(call[t], how) EXCEPT !.reply = reply[t]]]
    /\ pc' = [pc EXCEPT ![t] = "idle"]
    /\ call' = [call EXCEPT ![t] = NoCall]
    /\ msg' = [msg EXCEPT ![t] = NoCommand]
    /\ reply' = [reply EXCEPT ![t] = NoReply]

\* Mutant: the writeErrors of a reply that is ok are not looked at.
RaisesNotOk(t) == ~reply[t].ok

\* transport.py:132.  bulkWrite has no writeErrors: its reply only counts them.
Raises(t) ==
    \/ ~reply[t].ok
    \/ reply[t].failed # {} /\ msg[t].op = "write"

Answered(t) == pc[t] = "answered"
Keep == UNCHANGED <<builderVars, db, late, calls, faults, existed, rival>>

OperationFails(t) ==
    /\ Answered(t) /\ Raises(t)
    /\ End(t, "OperationFailure")
    /\ Keep

\* Mutant: get_collection instead of create_collection.
CreateNothing(t) ==
    /\ Answered(t) /\ ~Raises(t)
    /\ call[t].f = "create_if_not_exists" /\ msg[t].op = "listCollections" /\ reply[t].n = 0
    /\ End(t, "returned")
    /\ Keep

\* Mutant: the error is taken for a reason to ask again.
CreateAgain(t) ==
    /\ Answered(t)
    /\ call[t].f = "create_if_not_exists" /\ msg[t].op = "listCollections" /\ reply[t].n = 0
    /\ pc' = [pc EXCEPT ![t] = "sent"]
    /\ UNCHANGED <<call, last, msg, reply>>
    /\ Keep

\* create_if_not_exists found nothing: its second request.
Create(t) ==
    /\ Answered(t) /\ ~Raises(t)
    /\ call[t].f = "create_if_not_exists" /\ msg[t].op = "listCollections" /\ reply[t].n = 0
    /\ msg' = [msg EXCEPT ![t] = Command("create", call[t])]
    /\ pc' = [pc EXCEPT ![t] = "sent"]
    /\ reply' = [reply EXCEPT ![t] = NoReply]
    /\ UNCHANGED <<call, last>>
    /\ Keep

NamespaceMissing(t) ==
    /\ Answered(t) /\ ~Raises(t)
    /\ call[t].f = "with_options" /\ reply[t].n = 0
    /\ End(t, "ValueError")
    /\ Keep

Return(t) ==
    /\ Answered(t) /\ ~Raises(t)
    /\ msg[t].op = "listCollections" => reply[t].n # 0
    /\ End(t, "returned")
    /\ Keep

\* Cancellation, a time limit or a dead socket, before or after the server acted.
GiveUp(t) ==
    /\ ~Idle(t) /\ Bounded
    /\ faults' = faults + 1
    /\ \/ UNCHANGED late
       \/ pc[t] = "sent" /\ late' = late \cup {msg[t]}
    /\ End(t, "gave up")
    /\ UNCHANGED <<builderVars, db, calls, existed, rival>>

Init ==
    /\ BuilderInit
    /\ db \in Databases
    /\ call = [t \in Tasks |-> NoCall] /\ pc = [t \in Tasks |-> "idle"]
    /\ msg = [t \in Tasks |-> NoCommand] /\ reply = [t \in Tasks |-> NoReply]
    /\ last = [t \in Tasks |-> Result(NoCall, "none")]
    /\ late = {} /\ calls = 0 /\ faults = 0
    /\ existed = [t \in Tasks |-> FALSE] /\ rival = [t \in Tasks |-> FALSE]

Step(t) == Send(t) \/ OperationFails(t) \/ Create(t) \/ NamespaceMissing(t) \/ Return(t)
Next ==
    \/ \E t \in Tasks :
        \/ \E c \in Calls : Call(t, c) \/ CallRefused(t, c)
        \/ Insist(t)
        \/ Step(t) \/ Serve(t) \/ GiveUp(t)
    \/ \E m \in late : ServeLate(m)
    \/ \E w \in Writes, ns \in Names : AddOperation(w, ns)

Spec == Init /\ [][Next]_vars

\* The loop runs every ready callback, the server answers, and a stubborn task
\* goes on asking.  Answer is the part of Serve that makes it a step of t.
Fairness ==
    \A t \in Tasks :
        WF_vars(Insist(t)) /\ WF_vars(Step(t)) /\ WF_pc(Answer(t))
FairSpec == Spec /\ Fairness
-----------------------------------------------------------------------------
(* Properties                                                              *)

TypeOK ==
    /\ DOMAIN db \subseteq Names
    /\ \A t \in Tasks :
        /\ pc[t] \in {"idle", "queued", "sent", "answered"}
        /\ pc[t] = "queued" => call[t].f = "bulk_write"
        /\ Idle(t) <=> call[t] = NoCall
    /\ \A i \in DOMAIN operations : operations[i].index \in DOMAIN namespaces
    /\ calls + faults + Len(operations) \in 0..MaxEvents

\* create_if_not_exists comes back with a collection that was there at some
\* time during the call, and fails of its own accord only when someone else
\* created the collection between its two requests.
EnsureOutcome ==
    \A t \in Tasks : Idle(t) /\ last[t].f = "create_if_not_exists" =>
        /\ last[t].how = "returned" => existed[t]
        /\ last[t].how = "OperationFailure" => rival[t]

\* Writes report what happened to them: a method of Collection returns only if
\* every write was applied, and raises on a reply to applied writes only if the
\* ones applied, for an ordered command the ones up to the first error, are not
\* all.  bulk_write returns either way; all were applied if and only if its
\* reply counts no error.
WritesReported ==
    \A t \in Tasks : Idle(t) /\ last[t].reply.ok /\ last[t].reply.total > 0 =>
        LET r == last[t].reply
            all == r.applied = 1..r.total
        IN  /\ last[t].how = "returned" /\ last[t].f # "bulk_write" => all
            /\ last[t].how = "returned" /\ last[t].f = "bulk_write" => (all <=> r.failed = {})
            /\ last[t].how = "OperationFailure" => ~all

\* However the builder is used after build(), also while the request waits: an
\* operation that reaches the server applies to the namespace it was added
\* for.  It may not be one the caller of bulk_write meant to send.
OwnNamespace ==
    \A t \in Tasks :
        /\ pc[t] = "queued" => \A i \in DOMAIN operations :
            operations[i].index \in DOMAIN msg[t].info => msg[t].info[operations[i].index] = operations[i].ns
        /\ pc[t] = "sent" /\ msg[t].op = "bulkWrite" /\ msg[t].ok =>
            \A i \in DOMAIN msg[t].places : msg[t].places[i] = operations[i].ns

\* A task that calls create_if_not_exists until it returns comes to have the
\* collection, whatever races it loses.
StubbornGets == \A t \in Stubborn : <>(last[t].how = "returned")
=============================================================================
