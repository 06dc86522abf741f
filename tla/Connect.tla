------------------------------ MODULE Connect ------------------------------
(***************************************************************************)
(* How a client comes to its connections: from_uri and make_client         *)
(* (client.py), the hello and SCRAM exchange of each connection            *)
(* (transport.py, auth.py), the compressor a connection uses               *)
(* (wirehelper.py, compressors.py) and the exceptions made of its replies  *)
(* (wirehelper.py, codes.py), beside elections and changes of users.       *)
(*                                                                         *)
(* Connections are used by one request at a time and a reply is that       *)
(* request's: that is what Client is about.  A secret stands for the keys  *)
(* derived from it; hash, salt and nonce are left out, each connection     *)
(* having its own conversation.                                            *)
(***************************************************************************)
EXTENDS Integers, Sequences, FiniteSets, SequencesExt

CONSTANTS
    Nodes,     \* members of the replica set
    Offers,    \* Offers[n]: the compressors node n takes
    Conns,     \* the transports of the pool
    Probe,     \* the transport from_uri looks around with
    Programs,  \* ways to make a client, as Program below
    Installed, \* the compressors whose modules the client has
    Names,     \* Names[code]: the names in _codes_to_exc_name
    Replies,   \* error replies of commands
    InitialUsers, Edits, \* users the server knows, and what they may become
    None,
    MaxChanges \* bound: elections and changes of users together

ASSUME ConnectAssumption == Probe \notin Conns /\ MaxChanges \in Nat
ASSUME NoneAssumption == None \notin Nodes \cup Programs \cup DOMAIN InitialUsers
ASSUME ProgramsAssumption ==
    \A p \in Programs : p.node \in Nodes /\ IsFiniteSet(ToSet(p.wants))
\* Users have a mechanism to authenticate with.
ASSUME UsersAssumption ==
    /\ \A u \in DOMAIN InitialUsers : InitialUsers[u].mechs # {} /\ InitialUsers[u].count \in Nat
    /\ \A to \in Edits : to.mechs # {}
\* -1 is the code of an exception whose error the table lacks.
ASSUME NamesAssumption == -1 \notin DOMAIN Names /\ \A code \in DOMAIN Names : Names[code] # None

VARIABLES
    primary,   \* the node that is primary, or None
    view,      \* view[n]: whom n takes for the primary
    users,     \* [user, db] |-> [mechs, secret, count]
    elections, edits,
    program,   \* how the client is made, or None
    credentials,
    target,    \* the node of the pool; None before there is a client
    phase,     \* of a transport
    node,      \* it is connected to
    compressor,\* _compressor
    sent,      \* its request, or NoMessage
    answer,    \* the reply to it, or None
    raised,    \* the reply it last raised for, and the exception
    session,   \* whom the server takes it for, or None
    conv,      \* the server's side of the conversation, or None
    knew,      \* whether the node knew the credentials at hello
    out,       \* whether logout was carried out on it
    told       \* what from_uri was told, what was the case, and whether that changed; or None

clientVars == <<program, credentials, target, told>>
serverVars == <<primary, view, users, elections, edits>>
vars == <<clientVars, serverVars, phase, node, compressor, sent, answer, raised, session,
          conv, knew, out>>
All == Conns \cup {Probe}
-----------------------------------------------------------------------------
(* Credentials                                                             *)

\* How a program makes its client: from a URI or with make_client and
\* credentials of its own, of the environment, or of parts of a URI.
Program(how, n, user, password, db, wants) ==
    [how |-> how, node |-> n, user |-> user, password |-> password, db |-> db, wants |-> wants]

Credentials(user, password, db) == [user |-> user, password |-> password, db |-> db]

\* ParsedUri.credentials: the URI's database is not looked at.
FromUri(p) ==
    IF None \in {p.user, p.password} THEN None ELSE Credentials(p.user, p.password, "admin")

FromParts(p) ==
    IF None \in {p.user, p.password} THEN None
    ELSE Credentials(p.user, p.password, IF p.db = None THEN "admin" ELSE p.db)

\* An empty variable is set and yet false.
Unset(v) == v \in {None, ""}
HalfSet(p) == None \in {p.user, p.password} /\ Unset(p.user) # Unset(p.password)
FromEnviron(p) ==
    IF None \in {p.user, p.password} THEN None ELSE Credentials(p.user, p.password, "admin")

CredentialsOf(p) ==
    CASE p.how = "uri" -> FromUri(p)
      [] p.how = "parts" -> FromParts(p)
      [] p.how = "environ" -> FromEnviron(p)
-----------------------------------------------------------------------------
(* Messages                                                                *)

Hello == [op |-> "hello", wants |-> program.wants,
          user |-> IF credentials = None THEN None
                   ELSE [user |-> credentials.user, db |-> credentials.db]]
SaslStart(mech) == [op |-> "saslStart", mech |-> mech,
                    user |-> [user |-> credentials.user, db |-> credentials.db]]
SaslContinue == [op |-> "saslContinue", proof |-> credentials.password]

NoMessage == [req |-> [op |-> "none"], compressor |-> None]

\* get_message: the module of the compressor has to be there.
Packs(c) == compressor[c] \in Installed \cup {None}
Post(c, req) ==
    /\ sent' = [sent EXCEPT ![c] = [req |-> req, compressor |-> compressor'[c]]]
    /\ answer' = [answer EXCEPT ![c] = None]
Finish(c) == sent' = [sent EXCEPT ![c] = NoMessage] /\ answer' = [answer EXCEPT ![c] = None]

\* get_exception: the class and the code.
Exception(name, code) == [name |-> name, code |-> code]

GetExceptionName(code) == IF code \in DOMAIN Names THEN Names[code] ELSE None

\* Mutant: the last of the errors.
GetExceptionLast(reply) ==
    LET r == IF reply.errors = <<>> THEN reply ELSE Last(reply.errors)
        name == GetExceptionName(r.code)
    IN  IF name # None THEN Exception(name, r.code) ELSE Exception("OperationFailure", -1)

GetException(reply) ==
    LET r == IF reply.errors = <<>> THEN reply ELSE reply.errors[1]
        name == GetExceptionName(r.code)
    IN  IF name # None THEN Exception(name, r.code)
        ELSE IF "TransientTransactionError" \in r.labels
        THEN Exception(r.codeName, r.code)
        ELSE Exception("OperationFailure", -1)

\* A reply that raises: not ok, or with writeErrors.
Fails(reply) == ~reply.ok \/ reply.errors # <<>>

\* Not being authorized, and not being primary, are replies of the server below.
ASSUME RepliesAssumption ==
    \A reply \in Replies :
        /\ reply.errors = <<>> => reply.code # -1
        /\ reply.errors = <<>> \/ 1 \in DOMAIN reply.errors
        /\ GetException(reply).code \notin {13, 10107}

Keep(c, reply) == raised' = [raised EXCEPT ![c] = [reply |-> reply, exc |-> GetException(reply)]]
-----------------------------------------------------------------------------
(* The client                                                              *)

Connect(c, n) ==
    /\ phase' = [phase EXCEPT ![c] = "hello"]
    /\ node' = [node EXCEPT ![c] = n]
    /\ compressor' = compressor

\* make_client asks nobody; from_uri connects to the first node of its list.
Make(p) ==
    /\ program = None
    /\ program' = p
    /\ ~(p.how = "environ" /\ HalfSet(p))
    /\ credentials' = CredentialsOf(p)
    /\ IF p.how = "uri"
       THEN /\ Connect(Probe, p.node)
            /\ sent' = [sent EXCEPT ![Probe] = [req |-> Hello', compressor |-> None]]
            /\ UNCHANGED <<target, answer>>
       ELSE target' = p.node /\ UNCHANGED <<phase, node, compressor, sent, answer>>
    /\ UNCHANGED <<serverVars, raised, session, conv, knew, out, told>>

\* CredentialsException: there is no client.
HalfSetRefused(p) ==
    /\ program = None
    /\ p.how = "environ" /\ HalfSet(p)
    /\ program' = p
    /\ UNCHANGED <<serverVars, credentials, target, told, phase, node, compressor, sent,
                   answer, raised, session, conv, knew, out>>

\* A request took a transport that is not connected.
Open(c) ==
    /\ target # None /\ phase[c] = "new"
    /\ Connect(c, target) /\ Post(c, Hello)
    /\ UNCHANGED <<clientVars, serverVars, raised, session, conv, knew, out>>

Answered(c, op) == answer[c] # None /\ sent[c].req.op = op

\* Mutant: the first compressor the client asked for.
SetCompressorFirst(c) ==
    compressor' = [compressor EXCEPT ![c] = IF program.wants = <<>> THEN None ELSE program.wants[1]]

SetCompressor(c) ==
    compressor' = [compressor EXCEPT ![c] =
        IF answer[c].compression = <<>> THEN None ELSE answer[c].compression[1]]

\* Mutant: the node that was asked, whatever it said.
PrimaryOfAsked(reply) == program.node

\* The node from_uri goes on with; None fails its assertion.
PrimaryOf(reply) == IF reply.isPrimary THEN program.node ELSE reply.primary

\* from_uri: the probe is closed, and there is a client or an AssertionError.
Discovered ==
    /\ Answered(Probe, "hello")
    /\ SetCompressor(Probe) /\ Finish(Probe)
    /\ phase' = [phase EXCEPT ![Probe] = IF PrimaryOf(answer[Probe]) = None THEN "failed" ELSE "closed"]
    /\ target' = PrimaryOf(answer[Probe])
    /\ UNCHANGED <<program, credentials, told, serverVars, node, raised, session, conv, knew, out>>

\* No mechanisms: no credentials, or the node does not know them.
NoAuthentication(c) ==
    /\ c \in Conns /\ Answered(c, "hello") /\ answer[c].mechs = {}
    /\ SetCompressor(c) /\ Finish(c)
    /\ phase' = [phase EXCEPT ![c] = "ready"]
    /\ UNCHANGED <<clientVars, serverVars, node, raised, session, conv, knew, out>>

\* authorize with one of the mechanisms, whichever.
Authorize(c) ==
    /\ c \in Conns /\ Answered(c, "hello")
    /\ SetCompressor(c) /\ Packs(c)'
    /\ phase' = [phase EXCEPT ![c] = "sasl"]
    /\ \E mech \in answer[c].mechs : Post(c, SaslStart(mech))
    /\ UNCHANGED <<clientVars, serverVars, node, raised, session, conv, knew, out>>

\* A handshake that raises takes its transport out of the pool.
Lose(c) ==
    /\ phase' = [phase EXCEPT ![c] = "lost"]
    /\ Finish(c)

CannotPack(c) ==
    /\ c \in Conns /\ Answered(c, "hello") /\ answer[c].mechs # {}
    /\ SetCompressor(c) /\ ~Packs(c)'
    /\ Lose(c)
    /\ UNCHANGED <<clientVars, serverVars, node, raised, session, conv, knew, out>>

\* Mutant: what a server uses for SHA-256 is not more than this.
IterationsOfServer == 15000

ITERATIONS == 4096

Continue(c) ==
    /\ Answered(c, "saslStart") /\ ~Fails(answer[c]) /\ answer[c].count > ITERATIONS
    /\ compressor' = compressor
    /\ Post(c, SaslContinue)
    /\ UNCHANGED <<clientVars, serverVars, phase, node, raised, session, conv, knew, out>>

TooFewIterations(c) ==
    /\ Answered(c, "saslStart") /\ ~Fails(answer[c]) /\ answer[c].count <= ITERATIONS
    /\ Lose(c)
    /\ UNCHANGED <<clientVars, serverVars, node, compressor, raised, session, conv, knew, out>>

\* Mutant: the reply's errors are left to the first command.
HandshakeFailsLate(c) ==
    /\ phase[c] = "sasl" /\ answer[c] # None /\ Fails(answer[c])
    /\ phase' = [phase EXCEPT ![c] = "ready"] /\ Finish(c)
    /\ Keep(c, answer[c])
    /\ UNCHANGED <<clientVars, serverVars, node, compressor, session, conv, knew, out>>

HandshakeFails(c) ==
    /\ phase[c] = "sasl" /\ answer[c] # None /\ Fails(answer[c])
    /\ Lose(c) /\ Keep(c, answer[c])
    /\ UNCHANGED <<clientVars, serverVars, node, compressor, session, conv, knew, out>>

\* The server's signature is over the password the client has.
Authenticated(c) ==
    /\ Answered(c, "saslContinue") /\ ~Fails(answer[c])
    /\ answer[c].signature = credentials.password
    /\ phase' = [phase EXCEPT ![c] = "ready"] /\ Finish(c)
    /\ UNCHANGED <<clientVars, serverVars, node, compressor, raised, session, conv, knew, out>>

\* A command of a program: a read, a write, or logout.
Command(c, op) ==
    /\ phase[c] = "ready" /\ sent[c] = NoMessage /\ Packs(c)
    /\ compressor' = compressor
    /\ Post(c, [op |-> op])
    /\ UNCHANGED <<clientVars, serverVars, phase, node, raised, session, conv, knew, out>>

\* Mutant: the reply stays.
ReturnUnread(c) ==
    /\ phase[c] = "ready" /\ answer[c] # None /\ ~Fails(answer[c])
    /\ sent' = [sent EXCEPT ![c] = NoMessage]
    /\ UNCHANGED <<clientVars, serverVars, phase, node, compressor, answer, raised, session, conv,
                   knew, out>>

Return(c) ==
    /\ phase[c] = "ready" /\ answer[c] # None /\ ~Fails(answer[c])
    /\ Finish(c)
    /\ UNCHANGED <<clientVars, serverVars, phase, node, compressor, raised, session, conv, knew, out>>

Raise(c) ==
    /\ phase[c] = "ready" /\ answer[c] # None /\ Fails(answer[c])
    /\ Finish(c) /\ Keep(c, answer[c])
    /\ UNCHANGED <<clientVars, serverVars, phase, node, compressor, session, conv, knew, out>>
-----------------------------------------------------------------------------
(* The server (external)                                                   *)

Ok == [ok |-> TRUE, errors |-> <<>>]
No(code) == [ok |-> FALSE, errors |-> <<>>, code |-> code, labels |-> {}]
Waiting(c, op) == sent[c] # NoMessage /\ answer[c] = None /\ sent[c].req.op = op
Answer(c, reply) == answer' = [answer EXCEPT ![c] = reply]

ServeHello(c) ==
    /\ Waiting(c, "hello")
    /\ LET u == sent[c].req.user
           n == node[c]
       IN  /\ \E agreed \in SetToSeqs(ToSet(sent[c].req.wants) \cap Offers[n]) :
                Answer(c, [ok |-> TRUE, errors |-> <<>>, isPrimary |-> view[n] = n, primary |-> view[n],
                           mechs |-> IF u \in DOMAIN users THEN users[u].mechs ELSE {},
                           compression |-> agreed])
           /\ knew' = [knew EXCEPT ![c] = u \in DOMAIN users]
           /\ told' = IF c = Probe THEN [said |-> view[n], was |-> primary, moved |-> FALSE] ELSE told
    /\ UNCHANGED <<program, credentials, target, serverVars, phase, node, compressor, sent,
                   raised, session, conv, out>>

ServeSasl(c) ==
    /\ \/ /\ Waiting(c, "saslStart")
          /\ LET u == sent[c].req.user
             IN  IF u \in DOMAIN users /\ sent[c].req.mech \in users[u].mechs
                 THEN /\ Answer(c, [ok |-> TRUE, errors |-> <<>>, count |-> users[u].count])
                      /\ conv' = [conv EXCEPT ![c] = [user |-> u, secret |-> users[u].secret]]
                 ELSE Answer(c, No(18)) /\ UNCHANGED conv
          /\ UNCHANGED session
       \/ /\ Waiting(c, "saslContinue")
          /\ IF sent[c].req.proof = conv[c].secret
             THEN /\ Answer(c, [ok |-> TRUE, errors |-> <<>>, signature |-> conv[c].secret])
                  /\ session' = [session EXCEPT ![c] = conv[c].user]
             ELSE Answer(c, No(18)) /\ UNCHANGED session
          /\ UNCHANGED conv
    /\ UNCHANGED <<clientVars, serverVars, phase, node, compressor, sent, raised, knew, out>>

ServeLogout(c) ==
    /\ Waiting(c, "logout")
    /\ Answer(c, Ok)
    /\ session' = [session EXCEPT ![c] = None]
    /\ out' = [out EXCEPT ![c] = TRUE]
    /\ UNCHANGED <<clientVars, serverVars, phase, node, compressor, sent, raised, conv, knew>>

ServeCommand(c) ==
    /\ Waiting(c, "read") \/ Waiting(c, "write")
    /\ IF session[c] = None THEN Answer(c, No(13))
       ELSE IF Waiting(c, "write") /\ primary # node[c] THEN Answer(c, No(10107))
       ELSE \E reply \in Replies \cup {Ok} : Answer(c, reply)
    /\ UNCHANGED <<clientVars, serverVars, phase, node, compressor, sent, raised, session, conv,
                   knew, out>>

Changing == elections + edits < MaxChanges
Others == UNCHANGED <<program, credentials, target, phase, node, compressor, sent, answer,
                      raised, session, conv, knew, out>>

\* A node becomes primary, or the primary steps down; it knows at once, the
\* others, a former primary among them, when they hear of it.
Elect(n) ==
    /\ Changing /\ elections' = elections + 1
    /\ primary' = (IF primary = n THEN None ELSE n)
    /\ view' = [view EXCEPT ![n] = primary']
    /\ told' = IF told = None THEN None ELSE [told EXCEPT !.moved = TRUE]
    /\ UNCHANGED <<users, edits>> /\ Others

Hear(n) ==
    /\ view[n] # primary
    /\ view' = [view EXCEPT ![n] = primary]
    /\ UNCHANGED <<primary, users, elections, edits, told>> /\ Others

\* A user is dropped, or gets another password, or is created.
ChangeUser(u, to) ==
    /\ Changing /\ edits' = edits + 1
    /\ users' = [v \in (DOMAIN users \cup {u}) \ (IF to = None THEN {u} ELSE {}) |->
                    IF v = u THEN to ELSE users[v]]
    /\ UNCHANGED <<primary, view, elections, told>> /\ Others
-----------------------------------------------------------------------------
NotOpen == [c \in All |-> None]

Init ==
    /\ primary \in Nodes /\ view = [n \in Nodes |-> primary]
    /\ users = InitialUsers /\ elections = 0 /\ edits = 0
    /\ program = None /\ credentials = None /\ target = None /\ told = None
    /\ phase = [c \in All |-> "new"] /\ node = NotOpen /\ compressor = NotOpen
    /\ sent = [c \in All |-> NoMessage] /\ answer = NotOpen /\ raised = NotOpen
    /\ session = NotOpen /\ conv = NotOpen
    /\ knew = [c \in All |-> FALSE] /\ out = [c \in All |-> FALSE]

Client(c) ==
    \/ Open(c) \/ NoAuthentication(c) \/ Authorize(c) \/ CannotPack(c)
    \/ Continue(c) \/ TooFewIterations(c) \/ HandshakeFails(c) \/ Authenticated(c)
    \/ \E op \in {"read", "write", "logout"} : Command(c, op)
    \/ Return(c) \/ Raise(c)

Server(c) == ServeHello(c) \/ ServeSasl(c) \/ ServeLogout(c) \/ ServeCommand(c)

Next ==
    \/ \E p \in Programs : Make(p) \/ HalfSetRefused(p)
    \/ Discovered
    \/ \E c \in Conns : Client(c)
    \/ \E c \in All : Server(c)
    \/ \E n \in Nodes : Elect(n) \/ Hear(n)
    \/ \E u \in DOMAIN InitialUsers, to \in Edits \cup {None} : ChangeUser(u, to)

Spec == Init /\ [][Next]_vars
-----------------------------------------------------------------------------
(* Properties                                                              *)

TypeOK ==
    /\ target \in Nodes \cup {None}
    /\ \A c \in All :
        /\ phase[c] \in {"new", "hello", "sasl", "ready", "lost", "closed", "failed"}
        /\ phase[c] = "new" <=> node[c] = None
        /\ phase[c] \in {"new", "lost", "closed", "failed"} => sent[c] = NoMessage
        /\ phase[c] \in {"hello", "sasl"} => sent[c] # NoMessage
        /\ answer[c] # None => sent[c] # NoMessage
    /\ phase[Probe] = "failed" => target = None
    /\ elections + edits \in 0..MaxChanges

Identity == [user |-> credentials.user, db |-> credentials.db]

\* A transport that finished its handshake is the client's user to the server,
\* whatever happened to the user and its password meanwhile; it is nobody only
\* if the server did not know the credentials when it was said hello, or
\* logout took that very transport.  Only then are commands unauthorized.
HandshakeSettles ==
    \A c \in Conns : phase[c] = "ready" =>
        /\ session[c] = IF knew[c] /\ ~out[c] THEN Identity ELSE None
        /\ raised[c] # None /\ raised[c].exc.code = 13 => ~knew[c] \/ out[c]

\* With the password the server has, enough iterations and the modules of what
\* it asks for, a client never loses a transport to a handshake.
GoodCredentialsConnect ==
    /\ credentials # None /\ edits = 0
    /\ Identity \in DOMAIN users /\ users[Identity].secret = credentials.password
    /\ users[Identity].count > 4096
    /\ ToSet(program.wants) \subseteq Installed
    => \A c \in Conns : phase[c] # "lost"

\* from_uri comes to the primary whichever node it asks, and fails only if
\* there is none, provided that node is up to date; and until the next
\* election no write on the pool meets a node that is not primary.
FromUriFindsPrimary ==
    told # None /\ told.said = told.was =>
        /\ phase[Probe] \in {"closed", "failed"} => target = told.was
        /\ ~told.moved => \A c \in Conns : raised[c] # None => raised[c].exc.code # 10107

\* A message is compressed the way the client asked for, has the module for,
\* and the node it goes to takes, which need not be the one from_uri asked.
CompressionAgreed ==
    \A c \in All : sent[c] # NoMessage /\ sent[c].compressor # None =>
        /\ sent[c].req.op # "hello"
        /\ sent[c].compressor \in ToSet(program.wants) \cap Installed \cap Offers[node[c]]

\* An exception has the code of the server's first error, under its name,
\* unless the table lacks the code and the error is not a transient one.
CodesKept ==
    \A c \in All : raised[c] # None =>
        LET reply == raised[c].reply
            exc == raised[c].exc
            codes == IF reply.errors = <<>> THEN <<reply.code>>
                     ELSE [i \in DOMAIN reply.errors |-> reply.errors[i].code]
        IN  /\ exc.code \in {codes[1], -1}
            /\ exc.code = -1 => codes[1] \notin DOMAIN Names
            /\ exc.code = -1 => reply.errors # <<>> \/ "TransientTransactionError" \notin reply.labels
=============================================================================
