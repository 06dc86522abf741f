---------------------------- MODULE ConnectProofs ----------------------------
(***************************************************************************)
(* What a connection comes to, for any replica set, compressors, ways to   *)
(* make a client and tables of codes, beside any number of elections and   *)
(* changes of users: who it is to the server, when it is lost, which node  *)
(* and compressor it uses, and which exceptions it raises.                 *)
(***************************************************************************)
EXTENDS Connect, FiniteSetTheorems, TLAPS

-----------------------------------------------------------------------------
(* The inductive invariant, one part for each question                     *)

OnAll(f) == f = [c \in All |-> f[c]]

\* The variables are functions on the transports, and a transport has a message
\* when its phase says so.
Shape ==
    /\ OnAll(phase) /\ OnAll(node) /\ OnAll(compressor) /\ OnAll(sent) /\ OnAll(answer)
    /\ OnAll(raised) /\ OnAll(session) /\ OnAll(conv) /\ OnAll(knew) /\ OnAll(out)
    /\ knew \in [All -> BOOLEAN] /\ out \in [All -> BOOLEAN]
    /\ primary \in Nodes \cup {None} /\ view \in [Nodes -> Nodes \cup {None}]
    /\ program \in Programs \cup {None}
    /\ target \in Nodes \cup {None}
    /\ elections \in Nat /\ edits \in Nat /\ elections + edits <= MaxChanges

\* There are transports once there is a client, and a client once it is made.
Made ==
    /\ program = None => target = None /\ told = None /\ phase[Probe] = "new"
    /\ target = None => \A c \in Conns : phase[c] = "new"
    /\ \A c \in Conns : phase[c] # "new" => node[c] = target
    /\ phase[Probe] # "new" => node[Probe] = program.node
    /\ phase[Probe] \in {"new", "hello", "closed", "failed"}
    /\ phase[Probe] = "hello" \/ phase[Probe] = "failed" => target = None
    /\ \A c \in Conns : phase[c] \in {"new", "hello", "sasl", "ready", "lost"}

\* How far each transport is.
Fresh(c) ==
    phase[c] = "new" =>
        /\ node[c] = None /\ compressor[c] = None /\ raised[c] = None
        /\ session[c] = None /\ ~knew[c] /\ ~out[c]
Quiet(c) ==
    phase[c] \in {"new", "lost", "closed", "failed"} => sent[c] = NoMessage /\ answer[c] = None
Greeting(c) ==
    phase[c] = "hello" =>
        /\ sent[c] = [req |-> Hello, compressor |-> None]
        /\ compressor[c] = None /\ raised[c] = None /\ session[c] = None /\ ~out[c]
        /\ answer[c] # None =>
             /\ answer[c].mechs # {} <=> knew[c]
             /\ answer[c].compression # <<>> =>
                  answer[c].compression[1] \in ToSet(program.wants) \cap Offers[node[c]]
Conversing(c) ==
    phase[c] = "sasl" =>
        /\ knew[c] /\ ~out[c] /\ raised[c] = None /\ Packs(c)
        /\ \/ /\ sent[c].req.op = "saslStart" /\ sent[c].req.user = Identity
              /\ session[c] = None
              /\ answer[c] # None /\ ~Fails(answer[c]) => conv[c].user = Identity
           \/ /\ sent[c].req.op = "saslContinue" /\ conv[c].user = Identity
              /\ answer[c] # None /\ ~Fails(answer[c]) => session[c] = Identity
Ready(c) ==
    phase[c] = "ready" =>
        /\ session[c] = IF knew[c] /\ ~out[c] THEN Identity ELSE None
        /\ sent[c] = NoMessage \/ sent[c].req.op \in {"read", "write", "logout"}
        /\ sent[c] = NoMessage => answer[c] = None
        /\ answer[c] # None /\ Fails(answer[c]) /\ GetException(answer[c]).code = 13
             => ~knew[c] \/ out[c]
        /\ raised[c] # None /\ raised[c].exc.code = 13 => ~knew[c] \/ out[c]
Known(c) == knew[c] => credentials # None /\ Identity \in DOMAIN InitialUsers
Stage(c) == Known(c) /\ Fresh(c) /\ Quiet(c) /\ Greeting(c) /\ Conversing(c) /\ Ready(c)

UsersKept ==
    /\ DOMAIN users \subseteq DOMAIN InitialUsers
    /\ \A u \in DOMAIN users : users[u].mechs # {}
    /\ edits = 0 => users = InitialUsers

\* The compressor was asked for and is taken, and messages use it.
Compressed(c) ==
    /\ compressor[c] # None => compressor[c] \in ToSet(program.wants) \cap Offers[node[c]]
    /\ sent[c] # NoMessage /\ sent[c].compressor # None =>
         sent[c].compressor = compressor[c] /\ Packs(c) /\ sent[c].req.op # "hello"

\* The replies that can fail, and the exceptions made of them.
Failures == Replies \cup {No(13), No(18), No(10107)}
Exceptions(c) ==
    /\ answer[c] # None /\ Fails(answer[c]) => answer[c] \in Failures
    /\ raised[c] # None =>
         raised[c].reply \in Failures /\ raised[c].exc = GetException(raised[c].reply)

\* The pool's node is the primary of the reply, and stays it until an election.
ToldPrimary == told # None /\ told.said = told.was /\ ~told.moved
Lookout ==
    /\ phase[Probe] = "hello" /\ answer[Probe] # None
         => PrimaryOf(answer[Probe]) \in Nodes \cup {None}
    /\ told # None =>
        /\ told \in [said : Nodes \cup {None}, was : Nodes \cup {None}, moved : BOOLEAN]
        /\ phase[Probe] \in {"hello", "closed", "failed"}
        /\ phase[Probe] = "hello" /\ answer[Probe] # None => PrimaryOf(answer[Probe]) = told.said
        /\ phase[Probe] \in {"closed", "failed"} => target = told.said
        /\ ~told.moved => primary = told.was
    /\ ToldPrimary => \A c \in Conns :
        /\ answer[c] # None /\ Fails(answer[c]) => GetException(answer[c]).code # 10107
        /\ raised[c] # None => raised[c].exc.code # 10107

\* The credentials are good and the compressors there: every step of the handshake goes on.
GoodCredentials ==
    /\ credentials # None /\ edits = 0
    /\ Identity \in DOMAIN users /\ users[Identity].secret = credentials.password
    /\ users[Identity].count > 4096
    /\ ToSet(program.wants) \subseteq Installed
GoesOn(c) ==
    /\ phase[c] # "lost"
    /\ phase[c] = "hello" /\ answer[c] # None => answer[c].mechs \subseteq users[Identity].mechs
    /\ phase[c] = "sasl" =>
        /\ sent[c].req.op = "saslStart" =>
             /\ sent[c].req.mech \in users[Identity].mechs
             /\ answer[c] # None =>
                  /\ ~Fails(answer[c]) /\ answer[c].count = users[Identity].count
                  /\ conv[c].secret = credentials.password
        /\ sent[c].req.op = "saslContinue" =>
             /\ sent[c].req.proof = credentials.password
             /\ conv[c].secret = credentials.password
             /\ answer[c] # None => ~Fails(answer[c])

Base == Shape /\ Made /\ UsersKept /\ (\A c \in All : Stage(c))
Inv ==
    /\ Base
    /\ \A c \in All : Compressed(c) /\ Exceptions(c)
    /\ Lookout
    /\ GoodCredentials => \A c \in Conns : GoesOn(c)

-----------------------------------------------------------------------------
(* A step of one transport                                                 *)

Same(d) ==
    /\ phase'[d] = phase[d] /\ node'[d] = node[d] /\ compressor'[d] = compressor[d]
    /\ sent'[d] = sent[d] /\ answer'[d] = answer[d] /\ raised'[d] = raised[d]
    /\ session'[d] = session[d] /\ conv'[d] = conv[d]
    /\ knew'[d] = knew[d] /\ out'[d] = out[d]

\* A transport that is left alone stays what it is to a client that does.
LEMMA SameTransport ==
    ASSUME NEW d \in All, Same(d), UNCHANGED <<program, credentials>>
    PROVE  /\ Stage(d) => Stage(d)'
           /\ Compressed(d) => Compressed(d)'
           /\ Exceptions(d) => Exceptions(d)'
           /\ GoesOn(d) /\ users' = users => GoesOn(d)'
  <1> USE DEF Same
  <1>1. Stage(d) => Stage(d)'
    BY DEF Stage, Known, Fresh, Quiet, Greeting, Conversing, Ready, Hello, Identity, Packs
  <1>2. Compressed(d) => Compressed(d)'
    BY DEF Compressed, Packs
  <1>3. Exceptions(d) => Exceptions(d)'
    BY DEF Exceptions
  <1>4. GoesOn(d) /\ users' = users => GoesOn(d)'
    BY DEF GoesOn, Identity
  <1> QED
    BY <1>1, <1>2, <1>3, <1>4

\* So only the transport of the step is to be looked at.
LEMMA OneTransport ==
    ASSUME Inv, NEW c \in All, \A d \in All : d # c => Same(d),
           UNCHANGED <<program, credentials, users, edits>>,
           Shape', Made', Stage(c)', Compressed(c)', Exceptions(c)', Lookout',
           GoodCredentials /\ c \in Conns => GoesOn(c)'
    PROVE  Inv'
  <1>1. \A d \in All : Stage(d)' /\ Compressed(d)' /\ Exceptions(d)'
    BY SameTransport DEF Inv, Base
  <1>2. UsersKept'
    BY DEF Inv, Base, UsersKept
  <1>3. GoodCredentials' => GoodCredentials
    BY DEF GoodCredentials, Identity
  <1>4. GoodCredentials => \A d \in Conns : GoesOn(d)'
    BY SameTransport DEF Inv, All
  <1> QED
    BY <1>1, <1>2, <1>3, <1>4 DEF Inv, Base

Raises(c) ==
    /\ answer[c] # None /\ Fails(answer[c])
    /\ raised'[c] = [reply |-> answer[c], exc |-> GetException(answer[c])]

\* A transport of the pool, once it is connected.
LEMMA PoolTransport ==
    ASSUME Inv, NEW c \in Conns, \A d \in All : d # c => Same(d),
           UNCHANGED <<clientVars, serverVars>>, Shape',
           target # None, phase'[c] \in {"hello", "sasl", "ready", "lost"}, node'[c] = target,
           Stage(c)', Compressed(c)', Exceptions(c)',
           ToldPrimary /\ answer'[c] # None /\ answer'[c] # answer[c] /\ Fails(answer'[c])
              => GetException(answer'[c]).code # 10107,
           raised'[c] = raised[c] \/ Raises(c),
           GoodCredentials => GoesOn(c)'
    PROVE  Inv'
  <1>1. Base /\ Lookout /\ c \in All /\ c # Probe /\ Probe \in All
    BY ConnectAssumption DEF Inv, All
  <1>2. Same(Probe) /\ \A d \in Conns : d # c => Same(d)
    BY <1>1 DEF All
  <1>3. Made'
    BY <1>1, <1>2 DEF Base, Made, Same, clientVars
  <1>4. Lookout'
    <2>2. ASSUME ToldPrimary, NEW d \in Conns, raised'[d] # None
          PROVE  raised'[d].exc.code # 10107
      <3>1. CASE raised'[d] = raised[d]
        BY <1>1, <2>2, <3>1 DEF Lookout
      <3>2. CASE d = c /\ Raises(c)
        BY <1>1, <2>2, <3>2 DEF Lookout, Raises
      <3> QED
        BY <1>2, <3>1, <3>2 DEF Same
    <2>3. ToldPrimary' => ToldPrimary
      BY DEF ToldPrimary, clientVars
    <2>4. PrimaryOf(answer[Probe])' = PrimaryOf(answer[Probe])
      BY <1>2 DEF PrimaryOf, Same, clientVars
    <2> QED
      BY <1>1, <1>2, <2>2, <2>3, <2>4 DEF Lookout, Same, clientVars, serverVars
  <1> QED
    BY <1>1, <1>3, <1>4, OneTransport DEF clientVars, serverVars

\* The phase of a transport and the message it has sent.
LEMMA Phases ==
    ASSUME Made, NEW c \in All, Stage(c)
    PROVE  /\ answer[c] # None => sent[c] # NoMessage
           /\ phase[c] = "hello" => sent[c] # NoMessage /\ sent[c].req.op = "hello"
           /\ phase[c] = "sasl" => sent[c] # NoMessage
           /\ sent[c] # NoMessage =>
                /\ sent[c].req.op = "hello" <=> phase[c] = "hello"
                /\ sent[c].req.op \in {"saslStart", "saslContinue"} <=> phase[c] = "sasl"
                /\ sent[c].req.op \in {"read", "write", "logout"} <=> phase[c] = "ready"
  <1>1. phase[c] \in {"new", "lost", "closed", "failed", "hello", "sasl", "ready"}
    BY DEF Made, All
  <1>2. phase[c] = "hello" => sent[c] # NoMessage /\ sent[c].req.op = "hello"
    BY DEF Stage, Greeting, Hello, NoMessage
  <1>3. phase[c] = "sasl" =>
          sent[c] # NoMessage /\ sent[c].req.op \in {"saslStart", "saslContinue"}
    BY DEF Stage, Conversing, NoMessage
  <1> QED
    BY <1>1, <1>2, <1>3 DEF Stage, Quiet, Ready

-----------------------------------------------------------------------------
(* The steps of the client on a transport of the pool                      *)

\* It says hello, uncompressed.
LEMMA OpenInv ==
    ASSUME Inv, NEW c \in Conns, Open(c)
    PROVE  Inv'
  <1>1. /\ Shape /\ Made /\ UsersKept /\ c \in All /\ c # Probe
        /\ Stage(c) /\ Compressed(c) /\ Exceptions(c) /\ (GoodCredentials => GoesOn(c))
    BY ConnectAssumption DEF Inv, Base, All
  <1>2. /\ phase[c] = "new" /\ target # None
    BY DEF Open
  <1>3. /\ phase'[c] = "hello"
        /\ node'[c] = target
        /\ sent'[c] = [req |-> Hello, compressor |-> compressor[c]]
        /\ answer'[c] = None
    BY <1>1 DEF Open, Connect, Post, Shape, OnAll
  <1>4. compressor'[c] = compressor[c] /\ raised'[c] = raised[c] /\ session'[c] = session[c]
        /\ conv'[c] = conv[c] /\ knew'[c] = knew[c] /\ out'[c] = out[c]
    BY DEF Open, Connect
  <1>5. /\ \A d \in All : d # c => Same(d)
        /\ UNCHANGED <<clientVars, serverVars>>
    BY DEF Open, Connect, Post, Same
  <1>6. Shape'
    BY <1>1 DEF Open, Connect, Post, Shape, OnAll, clientVars, serverVars
  <1>7. Stage(c)'
    BY <1>1, <1>2, <1>3, <1>4, <1>5 DEF Stage, Known, Fresh, Quiet, Greeting, Conversing, Ready,
       Hello, clientVars
  <1>8. Compressed(c)'
    BY <1>1, <1>2, <1>3, <1>4 DEF Compressed, Stage, Fresh
  <1>9. Exceptions(c)'
    BY <1>1, <1>3, <1>4 DEF Exceptions
  <1>10. ASSUME GoodCredentials PROVE GoesOn(c)'
    BY <1>3 DEF GoesOn
  <1>11. /\ target # None /\ node'[c] = target /\ phase'[c] \in {"hello", "sasl", "ready", "lost"}
         /\ answer'[c] # None => answer'[c] = answer[c]
    BY <1>2, <1>3
  <1>12. raised'[c] = raised[c] \/ Raises(c)
    BY <1>4
  <1> QED
    BY <1>5, <1>6, <1>7, <1>8, <1>9, <1>10, <1>11, <1>12, PoolTransport

\* The node did not know the user, or was not told one.
LEMMA NoAuthenticationInv ==
    ASSUME Inv, NEW c \in Conns, NoAuthentication(c)
    PROVE  Inv'
  <1>1. /\ Shape /\ Made /\ UsersKept /\ c \in All /\ c # Probe
        /\ Stage(c) /\ Compressed(c) /\ Exceptions(c) /\ (GoodCredentials => GoesOn(c))
    BY ConnectAssumption DEF Inv, Base, All
  <1>2. /\ phase[c] = "hello" /\ answer[c] # None /\ answer[c].mechs = {}
    BY <1>1, Phases DEF NoAuthentication, Answered
  <1>3. /\ phase'[c] = "ready"
        /\ compressor'[c] = IF answer[c].compression = <<>> THEN None ELSE answer[c].compression[1]
        /\ sent'[c] = NoMessage
        /\ answer'[c] = None
    BY <1>1 DEF NoAuthentication, SetCompressor, Finish, Shape, OnAll
  <1>4. node'[c] = node[c] /\ raised'[c] = raised[c] /\ session'[c] = session[c]
        /\ conv'[c] = conv[c] /\ knew'[c] = knew[c] /\ out'[c] = out[c]
    BY DEF NoAuthentication
  <1>5. /\ \A d \in All : d # c => Same(d)
        /\ UNCHANGED <<clientVars, serverVars>>
    BY DEF NoAuthentication, SetCompressor, Finish, Same
  <1>6. Shape'
    BY <1>1 DEF NoAuthentication, SetCompressor, Finish, Shape, OnAll, clientVars, serverVars
  <1>7. Stage(c)'
    BY <1>1, <1>2, <1>3, <1>4 DEF Stage, Known, Fresh, Quiet, Greeting, Conversing, Ready
  <1>8. Compressed(c)'
    BY <1>1, <1>2, <1>3, <1>4, <1>5 DEF Compressed, Stage, Greeting, clientVars
  <1>9. Exceptions(c)'
    BY <1>1, <1>3, <1>4 DEF Exceptions
  <1>10. ASSUME GoodCredentials PROVE GoesOn(c)'
    BY <1>3 DEF GoesOn
  <1>11. /\ target # None /\ node'[c] = target /\ phase'[c] \in {"hello", "sasl", "ready", "lost"}
         /\ answer'[c] # None => answer'[c] = answer[c]
    BY <1>1, <1>2, <1>3, <1>4 DEF Made
  <1>12. raised'[c] = raised[c] \/ Raises(c)
    BY <1>4
  <1> QED
    BY <1>5, <1>6, <1>7, <1>8, <1>9, <1>10, <1>11, <1>12, PoolTransport

\* The node knew the user.
LEMMA AuthorizeInv ==
    ASSUME Inv, NEW c \in Conns, Authorize(c)
    PROVE  Inv'
  <1>1. /\ Shape /\ Made /\ UsersKept /\ c \in All /\ c # Probe
        /\ Stage(c) /\ Compressed(c) /\ Exceptions(c) /\ (GoodCredentials => GoesOn(c))
    BY ConnectAssumption DEF Inv, Base, All
  <1>2. /\ phase[c] = "hello" /\ answer[c] # None
        /\ answer[c].mechs # {}
    BY <1>1, Phases DEF Authorize, Answered
  <1>3. /\ phase'[c] = "sasl"
        /\ compressor'[c] = IF answer[c].compression = <<>> THEN None ELSE answer[c].compression[1]
        /\ \E mech \in answer[c].mechs :
             sent'[c] = [req |-> SaslStart(mech), compressor |-> compressor'[c]]
        /\ answer'[c] = None
        /\ Packs(c)'
    BY <1>1 DEF Authorize, SetCompressor, Post, Shape, OnAll
  <1>4. node'[c] = node[c] /\ raised'[c] = raised[c] /\ session'[c] = session[c]
        /\ conv'[c] = conv[c] /\ knew'[c] = knew[c] /\ out'[c] = out[c]
    BY DEF Authorize
  <1>5. /\ \A d \in All : d # c => Same(d)
        /\ UNCHANGED <<clientVars, serverVars>>
    BY DEF Authorize, SetCompressor, Post, Same
  <1>6. Shape'
    BY <1>1 DEF Authorize, SetCompressor, Post, Shape, OnAll, clientVars, serverVars
  <1>7. Stage(c)'
    BY <1>1, <1>2, <1>3, <1>4, <1>5 DEF Stage, Known, Fresh, Quiet, Greeting, Conversing, Ready,
       Identity, clientVars, SaslStart
  <1>8. Compressed(c)'
    BY <1>1, <1>2, <1>3, <1>4, <1>5 DEF Compressed, Stage, Greeting, clientVars, SaslStart
  <1>9. Exceptions(c)'
    BY <1>1, <1>3, <1>4 DEF Exceptions
  <1>10. ASSUME GoodCredentials PROVE GoesOn(c)'
    BY <1>1, <1>2, <1>3, <1>5, <1>10 DEF GoesOn, Identity, clientVars, serverVars, SaslStart
  <1>11. /\ target # None /\ node'[c] = target /\ phase'[c] \in {"hello", "sasl", "ready", "lost"}
         /\ answer'[c] # None => answer'[c] = answer[c]
    BY <1>1, <1>2, <1>3, <1>4 DEF Made
  <1>12. raised'[c] = raised[c] \/ Raises(c)
    BY <1>4
  <1> QED
    BY <1>5, <1>6, <1>7, <1>8, <1>9, <1>10, <1>11, <1>12, PoolTransport

\* The module of the agreed compressor is missing: it was not installed.
LEMMA CannotPackInv ==
    ASSUME Inv, NEW c \in Conns, CannotPack(c)
    PROVE  Inv'
  <1>1. /\ Shape /\ Made /\ UsersKept /\ c \in All /\ c # Probe
        /\ Stage(c) /\ Compressed(c) /\ Exceptions(c) /\ (GoodCredentials => GoesOn(c))
    BY ConnectAssumption DEF Inv, Base, All
  <1>2. /\ phase[c] = "hello" /\ answer[c] # None
    BY <1>1, Phases DEF CannotPack, Answered
  <1>3. /\ phase'[c] = "lost"
        /\ compressor'[c] = IF answer[c].compression = <<>> THEN None ELSE answer[c].compression[1]
        /\ sent'[c] = NoMessage
        /\ answer'[c] = None
        /\ ~Packs(c)'
    BY <1>1 DEF CannotPack, SetCompressor, Finish, Lose, Shape, OnAll
  <1>4. node'[c] = node[c] /\ raised'[c] = raised[c] /\ session'[c] = session[c]
        /\ conv'[c] = conv[c] /\ knew'[c] = knew[c] /\ out'[c] = out[c]
    BY DEF CannotPack
  <1>5. /\ \A d \in All : d # c => Same(d)
        /\ UNCHANGED <<clientVars, serverVars>>
    BY DEF CannotPack, SetCompressor, Finish, Lose, Same
  <1>6. Shape'
    BY <1>1 DEF CannotPack, SetCompressor, Finish, Lose, Shape, OnAll, clientVars, serverVars
  <1>7. Stage(c)'
    BY <1>1, <1>3, <1>4, <1>5 DEF Stage, Known, Fresh, Quiet, Greeting, Conversing, Ready,
       Identity, clientVars
  <1>8. Compressed(c)'
    BY <1>1, <1>2, <1>3, <1>4, <1>5 DEF Compressed, Stage, Greeting, clientVars
  <1>9. Exceptions(c)'
    BY <1>1, <1>3, <1>4 DEF Exceptions
  <1>10. ASSUME GoodCredentials PROVE GoesOn(c)'
    BY <1>1, <1>2, <1>3, <1>10 DEF GoodCredentials, Stage, Greeting, Packs
  <1>11. /\ target # None /\ node'[c] = target /\ phase'[c] \in {"hello", "sasl", "ready", "lost"}
         /\ answer'[c] # None => answer'[c] = answer[c]
    BY <1>1, <1>2, <1>3, <1>4 DEF Made
  <1>12. raised'[c] = raised[c] \/ Raises(c)
    BY <1>4
  <1> QED
    BY <1>5, <1>6, <1>7, <1>8, <1>9, <1>10, <1>11, <1>12, PoolTransport

\* The conversation is with the user of the credentials.
LEMMA ContinueInv ==
    ASSUME Inv, NEW c \in Conns, Continue(c)
    PROVE  Inv'
  <1>1. /\ Shape /\ Made /\ UsersKept /\ c \in All /\ c # Probe
        /\ Stage(c) /\ Compressed(c) /\ Exceptions(c) /\ (GoodCredentials => GoesOn(c))
    BY ConnectAssumption DEF Inv, Base, All
  <1>2. /\ phase[c] = "sasl" /\ answer[c] # None /\ ~Fails(answer[c])
        /\ sent[c].req.op = "saslStart"
    BY <1>1, Phases DEF Continue, Answered
  <1>3. /\ sent'[c] = [req |-> SaslContinue, compressor |-> compressor[c]]
        /\ answer'[c] = None
    BY <1>1 DEF Continue, Post, Shape, OnAll
  <1>4. phase'[c] = phase[c] /\ node'[c] = node[c] /\ compressor'[c] = compressor[c]
        /\ raised'[c] = raised[c] /\ session'[c] = session[c] /\ conv'[c] = conv[c]
           /\ knew'[c] = knew[c] /\ out'[c] = out[c]
    BY DEF Continue
  <1>5. /\ \A d \in All : d # c => Same(d)
        /\ UNCHANGED <<clientVars, serverVars>>
    BY DEF Continue, Post, Same
  <1>6. Shape'
    BY <1>1 DEF Continue, Post, Shape, OnAll, clientVars, serverVars
  <1>7. Stage(c)'
    BY <1>1, <1>2, <1>3, <1>4, <1>5 DEF Stage, Known, Fresh, Quiet, Greeting, Conversing, Ready,
       Identity, clientVars, SaslContinue, Packs
  <1>8. Compressed(c)'
    BY <1>1, <1>2, <1>3, <1>4, <1>5 DEF Compressed, Stage, Conversing, clientVars, SaslContinue,
       Packs
  <1>9. Exceptions(c)'
    BY <1>1, <1>3, <1>4 DEF Exceptions
  <1>10. ASSUME GoodCredentials PROVE GoesOn(c)'
    BY <1>1, <1>2, <1>3, <1>4, <1>5, <1>10 DEF GoesOn, clientVars, SaslContinue
  <1>11. /\ target # None /\ node'[c] = target /\ phase'[c] \in {"hello", "sasl", "ready", "lost"}
         /\ answer'[c] # None => answer'[c] = answer[c]
    BY <1>1, <1>2, <1>3, <1>4 DEF Made
  <1>12. raised'[c] = raised[c] \/ Raises(c)
    BY <1>4
  <1> QED
    BY <1>5, <1>6, <1>7, <1>8, <1>9, <1>10, <1>11, <1>12, PoolTransport

\* The user is one with few iterations.
LEMMA TooFewIterationsInv ==
    ASSUME Inv, NEW c \in Conns, TooFewIterations(c)
    PROVE  Inv'
  <1>1. /\ Shape /\ Made /\ UsersKept /\ c \in All /\ c # Probe
        /\ Stage(c) /\ Compressed(c) /\ Exceptions(c) /\ (GoodCredentials => GoesOn(c))
    BY ConnectAssumption DEF Inv, Base, All
  <1>2. /\ phase[c] = "sasl" /\ answer[c] # None
        /\ sent[c].req.op = "saslStart" /\ answer[c].count <= ITERATIONS
    BY <1>1, Phases DEF TooFewIterations, Answered
  <1>3. /\ phase'[c] = "lost"
        /\ sent'[c] = NoMessage
        /\ answer'[c] = None
    BY <1>1 DEF TooFewIterations, Lose, Finish, Shape, OnAll
  <1>4. node'[c] = node[c] /\ compressor'[c] = compressor[c] /\ raised'[c] = raised[c]
        /\ session'[c] = session[c] /\ conv'[c] = conv[c] /\ knew'[c] = knew[c]
           /\ out'[c] = out[c]
    BY DEF TooFewIterations
  <1>5. /\ \A d \in All : d # c => Same(d)
        /\ UNCHANGED <<clientVars, serverVars>>
    BY DEF TooFewIterations, Lose, Finish, Same
  <1>6. Shape'
    BY <1>1 DEF TooFewIterations, Lose, Finish, Shape, OnAll, clientVars, serverVars
  <1>7. Stage(c)'
    BY <1>1, <1>2, <1>3, <1>5 DEF Stage, Known, Fresh, Quiet, Greeting, Conversing, Ready,
       Identity, clientVars
  <1>8. Compressed(c)'
    BY <1>1, <1>3, <1>4, <1>5 DEF Compressed, clientVars
  <1>9. Exceptions(c)'
    BY <1>1, <1>3, <1>4 DEF Exceptions
  <1>10. ASSUME GoodCredentials PROVE GoesOn(c)'
    BY <1>1, <1>2, <1>10, UsersAssumption DEF GoodCredentials, GoesOn, ITERATIONS, UsersKept
  <1>11. /\ target # None /\ node'[c] = target /\ phase'[c] \in {"hello", "sasl", "ready", "lost"}
         /\ answer'[c] # None => answer'[c] = answer[c]
    BY <1>1, <1>2, <1>3, <1>4 DEF Made
  <1>12. raised'[c] = raised[c] \/ Raises(c)
    BY <1>4
  <1> QED
    BY <1>5, <1>6, <1>7, <1>8, <1>9, <1>10, <1>11, <1>12, PoolTransport

\* The credentials are not good: the transport is lost.
LEMMA HandshakeFailsInv ==
    ASSUME Inv, NEW c \in Conns, HandshakeFails(c)
    PROVE  Inv'
  <1>1. /\ Shape /\ Made /\ UsersKept /\ c \in All /\ c # Probe
        /\ Stage(c) /\ Compressed(c) /\ Exceptions(c) /\ (GoodCredentials => GoesOn(c))
    BY ConnectAssumption DEF Inv, Base, All
  <1>2. /\ phase[c] = "sasl" /\ answer[c] # None /\ Fails(answer[c])
    BY DEF HandshakeFails
  <1>3. /\ phase'[c] = "lost"
        /\ sent'[c] = NoMessage
        /\ answer'[c] = None
        /\ raised'[c] = [reply |-> answer[c], exc |-> GetException(answer[c])]
    BY <1>1 DEF HandshakeFails, Lose, Finish, Keep, Shape, OnAll
  <1>4. node'[c] = node[c] /\ compressor'[c] = compressor[c] /\ session'[c] = session[c]
        /\ conv'[c] = conv[c] /\ knew'[c] = knew[c] /\ out'[c] = out[c]
    BY DEF HandshakeFails
  <1>5. /\ \A d \in All : d # c => Same(d)
        /\ UNCHANGED <<clientVars, serverVars>>
    BY DEF HandshakeFails, Lose, Finish, Keep, Same
  <1>6. Shape'
    BY <1>1 DEF HandshakeFails, Lose, Finish, Keep, Shape, OnAll, clientVars, serverVars
  <1>7. Stage(c)'
    BY <1>1, <1>2, <1>3, <1>5 DEF Stage, Known, Fresh, Quiet, Greeting, Conversing, Ready,
       Identity, clientVars
  <1>8. Compressed(c)'
    BY <1>1, <1>3, <1>4, <1>5 DEF Compressed, clientVars
  <1>9. Exceptions(c)'
    BY <1>1, <1>2, <1>3 DEF Exceptions
  <1>10. ASSUME GoodCredentials PROVE GoesOn(c)'
    BY <1>1, <1>2, <1>10 DEF GoesOn, Stage, Conversing
  <1>11. /\ target # None /\ node'[c] = target /\ phase'[c] \in {"hello", "sasl", "ready", "lost"}
         /\ answer'[c] # None => answer'[c] = answer[c]
    BY <1>1, <1>2, <1>3, <1>4 DEF Made
  <1>12. raised'[c] = raised[c] \/ Raises(c)
    BY <1>2, <1>3 DEF Raises
  <1> QED
    BY <1>5, <1>6, <1>7, <1>8, <1>9, <1>10, <1>11, <1>12, PoolTransport

\* The server takes the transport for the user.
LEMMA AuthenticatedInv ==
    ASSUME Inv, NEW c \in Conns, Authenticated(c)
    PROVE  Inv'
  <1>1. /\ Shape /\ Made /\ UsersKept /\ c \in All /\ c # Probe
        /\ Stage(c) /\ Compressed(c) /\ Exceptions(c) /\ (GoodCredentials => GoesOn(c))
    BY ConnectAssumption DEF Inv, Base, All
  <1>2. /\ phase[c] = "sasl" /\ answer[c] # None /\ ~Fails(answer[c])
        /\ sent[c].req.op = "saslContinue"
    BY <1>1, Phases DEF Authenticated, Answered
  <1>3. /\ phase'[c] = "ready"
        /\ sent'[c] = NoMessage
        /\ answer'[c] = None
    BY <1>1 DEF Authenticated, Finish, Shape, OnAll
  <1>4. node'[c] = node[c] /\ compressor'[c] = compressor[c] /\ raised'[c] = raised[c]
        /\ session'[c] = session[c] /\ conv'[c] = conv[c] /\ knew'[c] = knew[c]
           /\ out'[c] = out[c]
    BY DEF Authenticated
  <1>5. /\ \A d \in All : d # c => Same(d)
        /\ UNCHANGED <<clientVars, serverVars>>
    BY DEF Authenticated, Finish, Same
  <1>6. Shape'
    BY <1>1 DEF Authenticated, Finish, Shape, OnAll, clientVars, serverVars
  <1>7. Stage(c)'
    BY <1>1, <1>2, <1>3, <1>4, <1>5 DEF Stage, Known, Fresh, Quiet, Greeting, Conversing, Ready,
       Identity, clientVars
  <1>8. Compressed(c)'
    BY <1>1, <1>3, <1>4, <1>5 DEF Compressed, clientVars
  <1>9. Exceptions(c)'
    BY <1>1, <1>3, <1>4 DEF Exceptions
  <1>10. ASSUME GoodCredentials PROVE GoesOn(c)'
    BY <1>3 DEF GoesOn
  <1>11. /\ target # None /\ node'[c] = target /\ phase'[c] \in {"hello", "sasl", "ready", "lost"}
         /\ answer'[c] # None => answer'[c] = answer[c]
    BY <1>1, <1>2, <1>3, <1>4 DEF Made
  <1>12. raised'[c] = raised[c] \/ Raises(c)
    BY <1>4
  <1> QED
    BY <1>5, <1>6, <1>7, <1>8, <1>9, <1>10, <1>11, <1>12, PoolTransport

\* Commands change nothing of the transport.
LEMMA CommandInv ==
    ASSUME Inv, NEW c \in Conns, NEW op \in {"read", "write", "logout"}, Command(c, op)
    PROVE  Inv'
  <1>1. /\ Shape /\ Made /\ UsersKept /\ c \in All /\ c # Probe
        /\ Stage(c) /\ Compressed(c) /\ Exceptions(c) /\ (GoodCredentials => GoesOn(c))
    BY ConnectAssumption DEF Inv, Base, All
  <1>2. /\ phase[c] = "ready" /\ sent[c] = NoMessage /\ Packs(c)
    BY DEF Command
  <1>3. /\ sent'[c] = [req |-> [op |-> op], compressor |-> compressor[c]]
        /\ answer'[c] = None
    BY <1>1 DEF Command, Post, Shape, OnAll
  <1>4. phase'[c] = phase[c] /\ node'[c] = node[c] /\ compressor'[c] = compressor[c]
        /\ raised'[c] = raised[c] /\ session'[c] = session[c] /\ conv'[c] = conv[c]
           /\ knew'[c] = knew[c] /\ out'[c] = out[c]
    BY DEF Command
  <1>5. /\ \A d \in All : d # c => Same(d)
        /\ UNCHANGED <<clientVars, serverVars>>
    BY DEF Command, Post, Same
  <1>6. Shape'
    BY <1>1 DEF Command, Post, Shape, OnAll, clientVars, serverVars
  <1>7. Stage(c)'
    BY <1>1, <1>2, <1>3, <1>4, <1>5 DEF Stage, Known, Fresh, Quiet, Greeting, Conversing, Ready,
       Identity, clientVars
  <1>8. Compressed(c)'
    BY <1>1, <1>2, <1>3, <1>4, <1>5 DEF Compressed, clientVars, Packs
  <1>9. Exceptions(c)'
    BY <1>1, <1>3, <1>4 DEF Exceptions
  <1>10. ASSUME GoodCredentials PROVE GoesOn(c)'
    BY <1>2, <1>4 DEF GoesOn
  <1>11. /\ target # None /\ node'[c] = target /\ phase'[c] \in {"hello", "sasl", "ready", "lost"}
         /\ answer'[c] # None => answer'[c] = answer[c]
    BY <1>1, <1>2, <1>3, <1>4 DEF Made
  <1>12. raised'[c] = raised[c] \/ Raises(c)
    BY <1>4
  <1> QED
    BY <1>5, <1>6, <1>7, <1>8, <1>9, <1>10, <1>11, <1>12, PoolTransport

\* The reply is taken.
LEMMA ReturnInv ==
    ASSUME Inv, NEW c \in Conns, Return(c)
    PROVE  Inv'
  <1>1. /\ Shape /\ Made /\ UsersKept /\ c \in All /\ c # Probe
        /\ Stage(c) /\ Compressed(c) /\ Exceptions(c) /\ (GoodCredentials => GoesOn(c))
    BY ConnectAssumption DEF Inv, Base, All
  <1>2. /\ phase[c] = "ready" /\ answer[c] # None
    BY DEF Return
  <1>3. /\ sent'[c] = NoMessage
        /\ answer'[c] = None
    BY <1>1 DEF Return, Finish, Shape, OnAll
  <1>4. phase'[c] = phase[c] /\ node'[c] = node[c] /\ compressor'[c] = compressor[c]
        /\ raised'[c] = raised[c] /\ session'[c] = session[c] /\ conv'[c] = conv[c]
           /\ knew'[c] = knew[c] /\ out'[c] = out[c]
    BY DEF Return
  <1>5. /\ \A d \in All : d # c => Same(d)
        /\ UNCHANGED <<clientVars, serverVars>>
    BY DEF Return, Finish, Same
  <1>6. Shape'
    BY <1>1 DEF Return, Finish, Shape, OnAll, clientVars, serverVars
  <1>7. Stage(c)'
    BY <1>1, <1>2, <1>3, <1>4, <1>5 DEF Stage, Known, Fresh, Quiet, Greeting, Conversing, Ready,
       Identity, clientVars
  <1>8. Compressed(c)'
    BY <1>1, <1>3, <1>4, <1>5 DEF Compressed, clientVars
  <1>9. Exceptions(c)'
    BY <1>1, <1>3, <1>4 DEF Exceptions
  <1>10. ASSUME GoodCredentials PROVE GoesOn(c)'
    BY <1>2, <1>4 DEF GoesOn
  <1>11. /\ target # None /\ node'[c] = target /\ phase'[c] \in {"hello", "sasl", "ready", "lost"}
         /\ answer'[c] # None => answer'[c] = answer[c]
    BY <1>1, <1>2, <1>3, <1>4 DEF Made
  <1>12. raised'[c] = raised[c] \/ Raises(c)
    BY <1>4
  <1> QED
    BY <1>5, <1>6, <1>7, <1>8, <1>9, <1>10, <1>11, <1>12, PoolTransport

\* The exception is that of the reply.
LEMMA RaiseInv ==
    ASSUME Inv, NEW c \in Conns, Raise(c)
    PROVE  Inv'
  <1>1. /\ Shape /\ Made /\ UsersKept /\ c \in All /\ c # Probe
        /\ Stage(c) /\ Compressed(c) /\ Exceptions(c) /\ (GoodCredentials => GoesOn(c))
    BY ConnectAssumption DEF Inv, Base, All
  <1>2. /\ phase[c] = "ready" /\ answer[c] # None /\ Fails(answer[c])
    BY DEF Raise
  <1>3. /\ sent'[c] = NoMessage
        /\ answer'[c] = None
        /\ raised'[c] = [reply |-> answer[c], exc |-> GetException(answer[c])]
    BY <1>1 DEF Raise, Finish, Keep, Shape, OnAll
  <1>4. phase'[c] = phase[c] /\ node'[c] = node[c] /\ compressor'[c] = compressor[c]
        /\ session'[c] = session[c] /\ conv'[c] = conv[c] /\ knew'[c] = knew[c]
           /\ out'[c] = out[c]
    BY DEF Raise
  <1>5. /\ \A d \in All : d # c => Same(d)
        /\ UNCHANGED <<clientVars, serverVars>>
    BY DEF Raise, Finish, Keep, Same
  <1>6. Shape'
    BY <1>1 DEF Raise, Finish, Keep, Shape, OnAll, clientVars, serverVars
  <1>7. Stage(c)'
    BY <1>1, <1>2, <1>3, <1>4, <1>5 DEF Stage, Known, Fresh, Quiet, Greeting, Conversing, Ready,
       Identity, clientVars
  <1>8. Compressed(c)'
    BY <1>1, <1>3, <1>4, <1>5 DEF Compressed, clientVars
  <1>9. Exceptions(c)'
    BY <1>1, <1>2, <1>3 DEF Exceptions
  <1>10. ASSUME GoodCredentials PROVE GoesOn(c)'
    BY <1>2, <1>4 DEF GoesOn
  <1>11. /\ target # None /\ node'[c] = target /\ phase'[c] \in {"hello", "sasl", "ready", "lost"}
         /\ answer'[c] # None => answer'[c] = answer[c]
    BY <1>1, <1>2, <1>3, <1>4 DEF Made
  <1>12. raised'[c] = raised[c] \/ Raises(c)
    BY <1>2, <1>3 DEF Raises
  <1> QED
    BY <1>5, <1>6, <1>7, <1>8, <1>9, <1>10, <1>11, <1>12, PoolTransport

-----------------------------------------------------------------------------
(* The server's steps                                                      *)

\* What the node takes of the client's list starts with one of both.
LEMMA FirstAgreed ==
    ASSUME NEW S, IsFiniteSet(S), NEW agreed \in SetToSeqs(S), agreed # <<>>
    PROVE  agreed[1] \in S
  <1> DEFINE n == Cardinality(S)
  <1>1. n \in Nat /\ agreed \in [1..n -> S]
    BY FS_CardinalityType DEF SetToSeqs
  <1> HIDE DEF n
  <1> QED
    BY <1>1

\* The answer says whether the node knows the user, and what it and the client
\* can use; from_uri is told whom the node takes for the primary.
LEMMA ServeHelloInv ==
    ASSUME Inv, NEW c \in All, ServeHello(c)
    PROVE  Inv'
  <1>1. /\ Shape /\ Made /\ UsersKept /\ Lookout /\ Probe \in All /\ Probe \notin Conns
        /\ Stage(c) /\ Stage(Probe) /\ Compressed(c) /\ Exceptions(c)
        /\ \A d \in Conns : Fresh(d) /\ Quiet(d)
    BY ConnectAssumption DEF Inv, Base, All, Stage
  <1>2. /\ phase[c] = "hello" /\ answer[c] = None
        /\ sent[c] = [req |-> Hello, compressor |-> None]
        /\ session[c] = None /\ raised[c] = None /\ ~out[c] /\ compressor[c] = None
    BY <1>1, Phases DEF ServeHello, Waiting, Stage, Greeting
  <1>3. /\ sent[c].req.user = Hello.user /\ sent[c].req.wants = program.wants
        /\ program \in Programs
    BY <1>1, <1>2 DEF Hello, Made, Shape, All
  <1>4. PICK agreed \in SetToSeqs(ToSet(program.wants) \cap Offers[node[c]]) :
             answer'[c] = [ok |-> TRUE, errors |-> <<>>, isPrimary |-> view[node[c]] = node[c],
                           primary |-> view[node[c]],
                           mechs |-> IF Hello.user \in DOMAIN users THEN users[Hello.user].mechs
                                     ELSE {},
                           compression |-> agreed]
    <2>1. PICK agreed \in SetToSeqs(ToSet(sent[c].req.wants) \cap Offers[node[c]]) :
               answer' = [answer EXCEPT ![c] =
                   [ok |-> TRUE, errors |-> <<>>, isPrimary |-> view[node[c]] = node[c],
                    primary |-> view[node[c]],
                    mechs |-> IF sent[c].req.user \in DOMAIN users
                              THEN users[sent[c].req.user].mechs ELSE {},
                    compression |-> agreed]]
      BY DEF ServeHello, Answer
    <2>2. c \in DOMAIN answer
      BY <1>1 DEF Shape, OnAll
    <2> QED
      BY <1>3, <2>1, <2>2
  <1>5. agreed # <<>> => agreed[1] \in ToSet(program.wants) \cap Offers[node[c]]
    BY <1>3, FirstAgreed, ProgramsAssumption, FS_Intersection
  <1>6. /\ phase' = phase /\ node' = node /\ compressor' = compressor /\ sent' = sent
        /\ raised' = raised /\ session' = session /\ conv' = conv /\ out' = out
        /\ UNCHANGED <<program, credentials, target, serverVars>>
        /\ knew'[c] = (Hello.user \in DOMAIN users)
    BY <1>1, <1>3 DEF ServeHello, Shape
  <1>7. \A d \in All : d # c => Same(d)
    BY DEF ServeHello, Answer, Same
  <1>8. Shape'
    <2>1. knew' \in [All -> BOOLEAN]
      BY <1>1 DEF ServeHello, Shape
    <2> QED
      BY <1>1, <2>1 DEF ServeHello, Answer, Shape, OnAll, serverVars
  <1>9. Made'
    BY <1>1, <1>2 DEF ServeHello, Made
  <1>10. ~Fails(answer'[c])
    BY <1>4 DEF Fails
  <1>11. Greeting(c)'
    <2>1. answer'[c].mechs # {} <=> knew'[c]
      <3>1. answer'[c].mechs = IF Hello.user \in DOMAIN users THEN users[Hello.user].mechs ELSE {}
        BY <1>4
      <3> QED
        BY <1>1, <1>6, <3>1 DEF UsersKept
    <2>2. answer'[c].compression = agreed
      BY <1>4
    <2>3. Hello' = Hello
      BY <1>6 DEF Hello
    <2> QED
      BY <1>2, <1>5, <1>6, <2>1, <2>2, <2>3 DEF Greeting
  <1>11a. Known(c)'
    BY <1>1, <1>6, NoneAssumption DEF Known, UsersKept, Hello, Identity
  <1>12. Stage(c)'
    BY <1>2, <1>6, <1>11, <1>11a DEF Stage, Fresh, Quiet, Conversing, Ready
  <1>13. Compressed(c)'
    BY <1>2, <1>6 DEF Compressed
  <1>14. Exceptions(c)'
    BY <1>2, <1>6, <1>10 DEF Exceptions
  <1>15. Lookout'
    <2>1. CASE c = Probe
      <3>1. told' = [said |-> view[node[c]], was |-> primary, moved |-> FALSE]
        BY <2>1 DEF ServeHello
      <3>2. \A d \in Conns : answer[d] = None /\ raised[d] = None
        BY <1>1, <1>2, <2>1 DEF Made, Fresh, Quiet
      <3>3. \A d \in Conns : answer'[d] = None /\ raised'[d] = None
        BY <1>1, <1>7, <2>1, <3>2 DEF Same, All
      <3>4. node[c] = program.node /\ node[c] \in Nodes
        BY <1>1, <1>2, <1>3, <2>1, ProgramsAssumption DEF Made
      <3>5. PrimaryOf(answer[Probe])' = view[node[c]]
        <4>1. /\ answer'[c].isPrimary = (view[node[c]] = node[c])
              /\ answer'[c].primary = view[node[c]]
          BY <1>4
        <4> QED
          BY <1>6, <2>1, <3>4, <4>1 DEF PrimaryOf
      <3>6. told' \in [said : Nodes \cup {None}, was : Nodes \cup {None}, moved : BOOLEAN]
        BY <1>1, <3>1, <3>4 DEF Shape
      <3> QED
        BY <1>2, <1>6, <2>1, <3>1, <3>3, <3>5, <3>6 DEF Lookout, serverVars
    <2>2. CASE c # Probe
      <3>1. told' = told /\ Same(Probe)
        BY <1>1, <1>7, <2>2 DEF ServeHello
      <3>2. PrimaryOf(answer[Probe])' = PrimaryOf(answer[Probe])
        BY <1>6, <3>1 DEF PrimaryOf, Same
      <3>3. \A d \in Conns : raised'[d] = raised[d]
                             /\ (answer'[d] = answer[d] \/ ~Fails(answer'[d]))
        BY <1>6, <1>7, <1>10 DEF Same, All
      <3> QED
        BY <1>1, <1>6, <3>1, <3>2, <3>3 DEF Lookout, ToldPrimary, Same, serverVars
    <2> QED
      BY <2>1, <2>2
  <1>16. ASSUME GoodCredentials, c \in Conns PROVE GoesOn(c)'
    <2>1. Hello.user = Identity
      BY <1>16 DEF GoodCredentials, Hello, Identity
    <2>2. answer'[c].mechs = users[Identity].mechs
      BY <1>4, <1>16, <2>1 DEF GoodCredentials
    <2> QED
      BY <1>2, <1>6, <2>2 DEF GoesOn, serverVars, Identity
  <1> QED
    BY <1>6, <1>7, <1>8, <1>9, <1>12, <1>13, <1>14, <1>15, <1>16, OneTransport DEF serverVars

\* A conversation is with a user the server knows, and ends with the session of
\* that user if the proof is over the secret the server has.
LEMMA ServeSaslInv ==
    ASSUME Inv, NEW c \in All, ServeSasl(c)
    PROVE  Inv'
  <1>1. /\ Shape /\ Made /\ UsersKept /\ Lookout /\ Stage(c) /\ Compressed(c) /\ Exceptions(c)
        /\ c \in Conns => (GoodCredentials => GoesOn(c))
    BY DEF Inv, Base
  <1>2. phase[c] = "sasl" /\ answer[c] = None
    BY <1>1, Phases DEF ServeSasl, Waiting
  <1>3. c \in Conns /\ c # Probe /\ target # None /\ node[c] = target
    BY <1>1, <1>2 DEF Made, All
  <1>4. /\ \A d \in All : d # c => Same(d)
        /\ UNCHANGED <<clientVars, serverVars, phase, node, compressor, sent, raised, knew, out>>
    BY <1>1 DEF ServeSasl, Answer, Shape, OnAll, Same
  <1>5. Shape'
    BY <1>1 DEF ServeSasl, Answer, Shape, OnAll, clientVars, serverVars
  <1>6. Conversing(c)
    BY <1>1 DEF Stage
  <1>7. ASSUME sent[c].req.op = "saslStart"
        PROVE  /\ session'[c] = None /\ sent[c].req.user = Identity
               /\ \/ /\ answer'[c] = [ok |-> TRUE, errors |-> <<>>,
                          count |-> users[Identity].count]
                     /\ conv'[c] = [user |-> Identity, secret |-> users[Identity].secret]
                  \/ /\ answer'[c] = No(18)
                     /\ ~(Identity \in DOMAIN users /\ sent[c].req.mech \in users[Identity].mechs)
    <2>1. session[c] = None /\ sent[c].req.user = Identity
      BY <1>2, <1>6, <1>7 DEF Conversing
    <2>2. /\ IF Identity \in DOMAIN users /\ sent[c].req.mech \in users[Identity].mechs
             THEN /\ answer' = [answer EXCEPT ![c] =
                                  [ok |-> TRUE, errors |-> <<>>, count |-> users[Identity].count]]
                  /\ conv' = [conv EXCEPT ![c] =
                                  [user |-> Identity, secret |-> users[Identity].secret]]
             ELSE answer' = [answer EXCEPT ![c] = No(18)]
          /\ session' = session
      BY <1>7, <2>1 DEF ServeSasl, Waiting, Answer
    <2>3. c \in DOMAIN answer /\ c \in DOMAIN conv
      BY <1>1 DEF Shape, OnAll
    <2> QED
      BY <2>1, <2>2, <2>3
  <1>8. ASSUME sent[c].req.op = "saslContinue"
        PROVE  /\ conv'[c] = conv[c] /\ conv[c].user = Identity
               /\ \/ /\ answer'[c] = [ok |-> TRUE, errors |-> <<>>, signature |-> conv[c].secret]
                     /\ session'[c] = Identity
                  \/ /\ answer'[c] = No(18) /\ sent[c].req.proof # conv[c].secret
    BY <1>1, <1>2, <1>6, <1>8 DEF ServeSasl, Waiting, Answer, Shape, OnAll, Conversing
  <1>9. sent[c].req.op = "saslStart" \/ sent[c].req.op = "saslContinue"
    BY <1>2, <1>6 DEF Conversing
  <1>10. Fails(answer'[c]) => answer'[c] = No(18)
    BY <1>7, <1>8, <1>9 DEF Fails
  <1>11. Identity' = Identity /\ Fails(No(18))
    BY <1>4 DEF Identity, clientVars, Fails, No
  <1>12. Conversing(c)'
    BY <1>4, <1>6, <1>7, <1>8, <1>11 DEF Conversing, Packs
  <1>13. Stage(c)'
    BY <1>1, <1>2, <1>4, <1>12 DEF Stage, Known, Identity, clientVars, Fresh, Quiet, Greeting,
       Ready
  <1>14. Compressed(c)' /\ Exceptions(c)'
    BY <1>1, <1>4, <1>10 DEF Compressed, Exceptions, Failures, Packs, clientVars
  <1>15. ASSUME GoodCredentials PROVE GoesOn(c)'
    <2>1. GoesOn(c) /\ users' = users
      BY <1>1, <1>3, <1>4, <1>15 DEF serverVars
    <2>2. CASE sent[c].req.op = "saslStart"
      <3>1. /\ answer'[c] = [ok |-> TRUE, errors |-> <<>>, count |-> users[Identity].count]
            /\ conv'[c] = [user |-> Identity, secret |-> users[Identity].secret]
        BY <1>2, <1>7, <1>15, <2>1, <2>2 DEF GoodCredentials, GoesOn
      <3>2. ~Fails(answer'[c]) /\ answer'[c].count = users[Identity].count
        BY <3>1 DEF Fails
      <3>3. conv'[c].secret = credentials.password
        BY <1>15, <3>1 DEF GoodCredentials
      <3> QED
        BY <1>2, <1>4, <1>11, <2>1, <3>2, <3>3 DEF GoesOn, clientVars
    <2>3. CASE sent[c].req.op = "saslContinue"
      <3>1. answer'[c] = [ok |-> TRUE, errors |-> <<>>, signature |-> conv[c].secret]
        BY <1>2, <1>8, <2>1, <2>3 DEF GoesOn
      <3>2. ~Fails(answer'[c])
        BY <3>1 DEF Fails
      <3> QED
        BY <1>2, <1>4, <1>8, <2>1, <2>3, <3>2 DEF GoesOn, clientVars
    <2> QED
      BY <1>9, <2>2, <2>3
  <1>16. GetException(No(18)).code # 10107
    BY DEF GetException, No, Exception
  <1> QED
    BY <1>2, <1>3, <1>4, <1>5, <1>10, <1>13, <1>14, <1>15, <1>16, PoolTransport

\* logout leaves the transport without a session.
LEMMA ServeLogoutInv ==
    ASSUME Inv, NEW c \in All, ServeLogout(c)
    PROVE  Inv'
  <1>1. /\ Shape /\ Made /\ Stage(c) /\ Compressed(c) /\ Exceptions(c)
        /\ c \in Conns => (GoodCredentials => GoesOn(c))
    BY DEF Inv, Base
  <1>2. phase[c] = "ready" /\ answer[c] = None /\ sent[c] # NoMessage /\ sent[c].req.op = "logout"
    BY <1>1, Phases DEF ServeLogout, Waiting
  <1>3. c \in Conns /\ target # None /\ node[c] = target
    BY <1>1, <1>2 DEF Made, All
  <1>4. /\ \A d \in All : d # c => Same(d)
        /\ UNCHANGED <<clientVars, serverVars, phase, node, compressor, sent, raised, conv, knew>>
        /\ answer'[c] = Ok /\ session'[c] = None /\ out'[c] = TRUE
    BY <1>1 DEF ServeLogout, Answer, Shape, OnAll, Same
  <1>5. Shape'
    BY <1>1 DEF ServeLogout, Answer, Shape, OnAll, clientVars, serverVars
  <1>6. ~Fails(answer'[c])
    BY <1>4 DEF Fails, Ok
  <1>7. Stage(c)'
    BY <1>1, <1>2, <1>4 DEF Stage, Known, Identity, clientVars, Fresh, Quiet, Greeting,
       Conversing, Ready
  <1>8. Compressed(c)' /\ Exceptions(c)'
    BY <1>1, <1>4, <1>6 DEF Compressed, Exceptions, Packs, clientVars
  <1>9. GoodCredentials => GoesOn(c)'
    BY <1>2, <1>4 DEF GoesOn
  <1> QED
    BY <1>2, <1>3, <1>4, <1>5, <1>6, <1>7, <1>8, <1>9, PoolTransport

\* A command is unauthorized only where there is no session, and meets a node
\* that is not primary only after an election.
LEMMA ServeCommandInv ==
    ASSUME Inv, NEW c \in All, ServeCommand(c)
    PROVE  Inv'
  <1>1. /\ Shape /\ Made /\ Lookout /\ Stage(c) /\ Compressed(c) /\ Exceptions(c)
        /\ c \in Conns => (GoodCredentials => GoesOn(c))
    BY DEF Inv, Base
  <1>2. /\ phase[c] = "ready" /\ answer[c] = None /\ sent[c] # NoMessage
        /\ sent[c].req.op \in {"read", "write", "logout"}
    BY <1>1, Phases DEF ServeCommand, Waiting
  <1>3. c \in Conns /\ c # Probe /\ target # None /\ node[c] = target
    BY <1>1, <1>2 DEF Made, All
  <1>4. /\ \A d \in All : d # c => Same(d)
        /\ UNCHANGED <<clientVars, serverVars, phase, node, compressor, sent, raised, session,
                       conv, knew, out>>
    BY <1>1 DEF ServeCommand, Answer, Shape, OnAll, Same
  <1>5. Shape'
    BY <1>1 DEF ServeCommand, Answer, Shape, OnAll, clientVars, serverVars
  <1>6. \/ answer'[c] = No(13) /\ session[c] = None
        \/ answer'[c] = No(10107) /\ session[c] # None /\ primary # node[c]
        \/ answer'[c] \in Replies \cup {Ok}
    BY <1>1 DEF ServeCommand, Answer, Shape, OnAll
  <1>7. /\ ~Fails(Ok)
        /\ GetException(No(13)).code # 10107
        /\ GetException(No(10107)).code # 13
    BY DEF Fails, Ok, No, GetException, Exception
  <1>8. \A reply \in Replies : GetException(reply).code # 13 /\ GetException(reply).code # 10107
    BY RepliesAssumption
  <1>9. Ready(c)'
    <2>1. Ready(c) /\ Identity' = Identity
      BY <1>1, <1>4 DEF Stage, Identity, clientVars
    <2>2. session[c] = None => ~knew[c] \/ out[c]
      BY <1>1, <1>2, NoneAssumption DEF Ready, Stage, Known
    <2> QED
      BY <1>2, <1>4, <1>6, <1>7, <1>8, <2>1, <2>2 DEF Ready
  <1>10. Stage(c)'
    BY <1>1, <1>2, <1>4, <1>9 DEF Stage, Known, Identity, clientVars, Fresh, Quiet, Greeting,
       Conversing
  <1>11. Compressed(c)' /\ Exceptions(c)'
    BY <1>1, <1>4, <1>6, <1>7 DEF Compressed, Exceptions, Failures, Packs, clientVars
  <1>12. GoodCredentials => GoesOn(c)'
    BY <1>2, <1>4 DEF GoesOn
  <1>13. ToldPrimary => primary = node[c]
    BY <1>1, <1>3 DEF Lookout, ToldPrimary, Made
  <1>14. ToldPrimary /\ Fails(answer'[c]) => GetException(answer'[c]).code # 10107
    BY <1>6, <1>7, <1>8, <1>13
  <1> QED
    BY <1>2, <1>3, <1>4, <1>5, <1>10, <1>11, <1>12, <1>14, PoolTransport

-----------------------------------------------------------------------------
(* How the client is made, and what happens elsewhere                      *)

\* Before the client is made no transport is used.
LEMMA Unmade ==
    ASSUME Inv, program = None
    PROVE  /\ \A c \in All : phase[c] = "new" /\ ~knew[c]
           /\ target = None /\ told = None
  BY DEF Inv, Base, Made, Stage, Fresh, All

\* from_uri connects its probe, make_client has its node.
LEMMA MakeInv ==
    ASSUME Inv, NEW p \in Programs, Make(p)
    PROVE  Inv'
  <1>1. /\ Shape /\ Made /\ UsersKept /\ Lookout /\ Probe \in All /\ Probe \notin Conns
        /\ \A c \in All : Stage(c) /\ Compressed(c) /\ Exceptions(c) /\ phase[c] = "new"
           /\ ~knew[c]
        /\ target = None /\ told = None
    BY Unmade, ConnectAssumption DEF Inv, Base, All, Make
  <1>2. \A c \in All : /\ sent[c] = NoMessage /\ answer[c] = None /\ node[c] = None
                       /\ compressor[c] = None /\ raised[c] = None /\ session[c] = None /\ ~out[c]
    BY <1>1 DEF Stage, Quiet, Fresh
  <1>3. /\ program' = p /\ p # None /\ p.node \in Nodes /\ told' = None
        /\ UNCHANGED <<serverVars, compressor, answer, raised, session, conv, knew, out>>
    BY <1>1, NoneAssumption, ProgramsAssumption DEF Make, Connect
  <1>4. \A c \in Conns : phase'[c] = "new" /\ node'[c] = None /\ sent'[c] = NoMessage
    BY <1>1, <1>2 DEF Make, Connect, Shape, OnAll, All
  <1>5. \/ /\ phase'[Probe] = "hello" /\ node'[Probe] = p.node /\ target' = None
           /\ sent'[Probe] = [req |-> Hello', compressor |-> None]
        \/ phase'[Probe] = "new" /\ node'[Probe] = None /\ target' = p.node
           /\ sent'[Probe] = NoMessage
    BY <1>1, <1>2 DEF Make, Connect, Shape, OnAll
  <1>6. Shape'
    BY <1>1, <1>3 DEF Make, Connect, Shape, OnAll, serverVars
  <1>7. Made'
    BY <1>3, <1>4, <1>5 DEF Made
  <1>8. \A c \in Conns : Stage(c)'
    BY <1>1, <1>3, <1>4 DEF Stage, Known, Fresh, Quiet, Greeting, Conversing, Ready, All
  <1>9. Stage(Probe)'
    BY <1>1, <1>3, <1>5 DEF Stage, Known, Fresh, Quiet, Greeting, Conversing, Ready
  <1>10. \A c \in All : Compressed(c)' /\ Exceptions(c)'
    BY <1>2, <1>3, <1>4, <1>5 DEF Compressed, Exceptions, All
  <1>11. Lookout'
    BY <1>1, <1>2, <1>3 DEF Lookout, ToldPrimary
  <1>12. \A c \in Conns : GoesOn(c)'
    BY <1>4 DEF GoesOn
  <1>13. UsersKept'
    BY <1>1, <1>3 DEF UsersKept, serverVars
  <1> QED
    BY <1>6, <1>7, <1>8, <1>9, <1>10, <1>11, <1>12, <1>13 DEF Inv, Base, All

\* A half-set environment makes no client.
LEMMA HalfSetRefusedInv ==
    ASSUME Inv, NEW p \in Programs, HalfSetRefused(p)
    PROVE  Inv'
  <1>1. /\ Shape /\ Made /\ UsersKept
        /\ \A c \in All : Stage(c) /\ Compressed(c) /\ Exceptions(c) /\ phase[c] = "new"
           /\ ~knew[c]
        /\ target = None /\ told = None
    BY Unmade DEF Inv, Base, HalfSetRefused
  <1>2. \A c \in All : sent[c] = NoMessage /\ compressor[c] = None
    BY <1>1 DEF Stage, Quiet, Fresh
  <1>3. /\ program' = p /\ p # None
        /\ UNCHANGED <<serverVars, credentials, target, told, phase, node, compressor, sent,
                       answer, raised, session, conv, knew, out>>
    BY NoneAssumption DEF HalfSetRefused
  <1>4. Shape' /\ Made' /\ UsersKept'
    BY <1>1, <1>3 DEF Shape, Made, UsersKept, serverVars, All
  <1>5. \A c \in All : Stage(c)'
    BY <1>1, <1>3 DEF Stage, Known, Fresh, Quiet, Greeting, Conversing, Ready
  <1>6. \A c \in All : Compressed(c)' /\ Exceptions(c)'
    BY <1>1, <1>2, <1>3 DEF Compressed, Exceptions
  <1>7. Lookout' /\ \A c \in Conns : GoesOn(c)'
    BY <1>1, <1>3 DEF Lookout, ToldPrimary, GoesOn, All
  <1> QED
    BY <1>4, <1>5, <1>6, <1>7 DEF Inv, Base

\* from_uri goes on with the node it was told, or fails.
LEMMA DiscoveredInv ==
    ASSUME Inv, Discovered
    PROVE  Inv'
  <1>1. /\ Shape /\ Made /\ Lookout /\ Probe \in All /\ Probe \notin Conns
        /\ Stage(Probe) /\ Compressed(Probe) /\ Exceptions(Probe)
    BY ConnectAssumption DEF Inv, Base, All
  <1>2. phase[Probe] = "hello" /\ answer[Probe] # None /\ program # None /\ target = None
    BY <1>1, Phases DEF Discovered, Answered, Made
  <1>3. /\ \A d \in All : d # Probe => Same(d)
        /\ UNCHANGED <<program, credentials, told, serverVars>>
        /\ node'[Probe] = node[Probe] /\ raised'[Probe] = raised[Probe]
        /\ session'[Probe] = session[Probe] /\ knew'[Probe] = knew[Probe]
           /\ out'[Probe] = out[Probe]
    BY DEF Discovered, SetCompressor, Finish, Same
  <1>4. /\ phase'[Probe] = IF PrimaryOf(answer[Probe]) = None THEN "failed" ELSE "closed"
        /\ compressor'[Probe] = IF answer[Probe].compression = <<>> THEN None
                                ELSE answer[Probe].compression[1]
        /\ sent'[Probe] = NoMessage /\ answer'[Probe] = None
        /\ target' = PrimaryOf(answer[Probe])
    BY <1>1 DEF Discovered, SetCompressor, Finish, Shape, OnAll
  <1>5. PrimaryOf(answer[Probe]) \in Nodes \cup {None}
    BY <1>1, <1>2 DEF Lookout
  <1>6. Shape'
    BY <1>1, <1>5 DEF Discovered, SetCompressor, Finish, Shape, OnAll, serverVars
  <1>7. Made'
    BY <1>1, <1>2, <1>3, <1>4 DEF Made, Same, All
  <1>8. Stage(Probe)'
    BY <1>1, <1>3, <1>4 DEF Stage, Known, Identity, Fresh, Quiet, Greeting, Conversing, Ready
  <1>9. Compressed(Probe)' /\ Exceptions(Probe)'
    BY <1>1, <1>2, <1>3, <1>4 DEF Compressed, Exceptions, Stage, Greeting
  <1>10. Lookout'
    <2>1. \A d \in Conns : answer'[d] = answer[d] /\ raised'[d] = raised[d]
      BY <1>1, <1>3 DEF Same, All
    <2> QED
      BY <1>1, <1>2, <1>3, <1>4, <2>1 DEF Lookout, ToldPrimary, serverVars
  <1> QED
    BY <1>1, <1>3, <1>6, <1>7, <1>8, <1>9, <1>10, OneTransport DEF serverVars

\* Elections change neither transports nor what was told, but that it moved.
LEMMA ElectionInv ==
    ASSUME Inv, NEW n \in Nodes, Elect(n) \/ Hear(n)
    PROVE  Inv'
  <1>1. /\ Shape /\ Made /\ UsersKept /\ Lookout
        /\ \A c \in All : Stage(c) /\ Compressed(c) /\ Exceptions(c)
    BY DEF Inv, Base
  <1>2. /\ UNCHANGED <<program, credentials, target, users, edits>>
        /\ UNCHANGED <<phase, node, compressor, sent, answer, raised, session, conv, knew, out>>
    BY DEF Elect, Hear, Others
  <1>3. \A c \in All : Same(c)
    BY <1>2 DEF Same
  <1>4. Shape'
    BY <1>1, <1>2, ConnectAssumption DEF Shape, Elect, Hear, Changing
  <1>5. UsersKept'
    BY <1>1, <1>2 DEF UsersKept
  <1>6. told = None => told' = None
    BY DEF Elect, Hear
  <1>7. Made'
    BY <1>1, <1>2, <1>6 DEF Made
  <1>8. Lookout'
    <2>1. PrimaryOf(answer[Probe])' = PrimaryOf(answer[Probe])
      BY <1>2 DEF PrimaryOf
    <2>2. CASE Hear(n)
      BY <1>1, <1>2, <2>1, <2>2 DEF Hear, Lookout, ToldPrimary
    <2>3. CASE Elect(n) /\ told = None
      BY <1>1, <1>2, <2>1, <2>3 DEF Elect, Lookout, ToldPrimary
    <2>4. CASE Elect(n) /\ told # None
      <3>1. told' = [told EXCEPT !.moved = TRUE]
        BY <2>4 DEF Elect
      <3>2. /\ told'.said = told.said /\ told'.was = told.was /\ told'.moved
            /\ told' \in [said : Nodes \cup {None}, was : Nodes \cup {None}, moved : BOOLEAN]
        <4>1. told \in [said : Nodes \cup {None}, was : Nodes \cup {None}, moved : BOOLEAN]
          BY <1>1, <2>4 DEF Lookout
        <4>2. told = [said |-> told.said, was |-> told.was, moved |-> told.moved]
          BY <4>1
        <4>3. told' = [said |-> told.said, was |-> told.was, moved |-> TRUE]
          BY <3>1, <4>2
        <4> QED
          BY <4>1, <4>3
      <3> QED
        BY <1>1, <1>2, <2>1, <2>4, <3>2 DEF Lookout, ToldPrimary
    <2> QED
      BY <2>2, <2>3, <2>4
  <1>9. \A c \in All : Stage(c)' /\ Compressed(c)' /\ Exceptions(c)'
    BY <1>1, <1>2, <1>3, SameTransport
  <1>10. GoodCredentials' => \A c \in Conns : GoesOn(c)'
    BY <1>2, <1>3, SameTransport DEF Inv, GoodCredentials, Identity, All
  <1> QED
    BY <1>4, <1>5, <1>7, <1>8, <1>9, <1>10 DEF Inv, Base

\* A changed user leaves the conversations and sessions there are.
LEMMA ChangeUserInv ==
    ASSUME Inv, NEW u \in DOMAIN InitialUsers, NEW to \in Edits \cup {None}, ChangeUser(u, to)
    PROVE  Inv'
  <1>1. /\ Shape /\ Made /\ UsersKept /\ Lookout
        /\ \A c \in All : Stage(c) /\ Compressed(c) /\ Exceptions(c)
    BY DEF Inv, Base
  <1>2. UNCHANGED <<program, credentials, target, told, phase, node, compressor, sent, answer,
                    raised, session, conv, knew, out, primary, view, elections>>
    BY DEF ChangeUser, Others
  <1>3. \A c \in All : Same(c)
    BY <1>2 DEF Same
  <1>4. edits' = edits + 1 /\ edits' # 0
    BY <1>1 DEF ChangeUser, Shape
  <1>5. Shape'
    BY <1>1, <1>2, ConnectAssumption DEF Shape, ChangeUser, Changing
  <1>6. UsersKept'
    <2>1. DOMAIN users' \subseteq DOMAIN InitialUsers
      BY <1>1 DEF ChangeUser, UsersKept
    <2>2. ASSUME NEW v \in DOMAIN users' PROVE users'[v].mechs # {}
      <3>1. CASE v = u
        BY <3>1, UsersAssumption DEF ChangeUser
      <3>2. CASE v # u
        BY <1>1, <3>2 DEF ChangeUser, UsersKept
      <3> QED
        BY <3>1, <3>2
    <2> QED
      BY <1>4, <2>1, <2>2 DEF UsersKept
  <1>7. Made' /\ Lookout'
    BY <1>1, <1>2 DEF Made, Lookout, ToldPrimary, PrimaryOf
  <1>8. \A c \in All : Stage(c)' /\ Compressed(c)' /\ Exceptions(c)'
    BY <1>1, <1>2, <1>3, SameTransport
  <1>9. ~GoodCredentials'
    BY <1>4 DEF GoodCredentials
  <1> QED
    BY <1>5, <1>6, <1>7, <1>8, <1>9 DEF Inv, Base

-----------------------------------------------------------------------------
(* The theorems                                                            *)

LEMMA StutterInv ==
    ASSUME Inv, UNCHANGED vars
    PROVE  Inv'
  <1>1. /\ \A c \in All : Same(c)
        /\ UNCHANGED <<program, credentials, target, told, primary, view, users, elections,
             edits>>
    BY DEF vars, clientVars, serverVars, Same
  <1>2. Shape' /\ Made' /\ UsersKept'
    BY <1>1 DEF Inv, Base, vars, Shape, Made, UsersKept
  <1>3. \A c \in All : Stage(c)' /\ Compressed(c)' /\ Exceptions(c)'
    BY <1>1, SameTransport DEF Inv, Base
  <1>4. GoodCredentials' => \A c \in Conns : GoesOn(c)'
    BY <1>1, SameTransport DEF Inv, GoodCredentials, Identity, All
  <1>5. Lookout'
    BY <1>1 DEF Inv, vars, Lookout, ToldPrimary, PrimaryOf
  <1> QED
    BY <1>2, <1>3, <1>4, <1>5 DEF Inv, Base

\* Every step keeps the invariant.
LEMMA NextInv == Inv /\ [Next]_vars => Inv'
  <1> SUFFICES ASSUME Inv, [Next]_vars PROVE Inv'
    OBVIOUS
  <1>1. ASSUME NEW p \in Programs, Make(p) \/ HalfSetRefused(p) PROVE Inv'
    BY <1>1, MakeInv, HalfSetRefusedInv
  <1>2. ASSUME NEW c \in Conns, Client(c) PROVE Inv'
    BY <1>2, OpenInv, NoAuthenticationInv, AuthorizeInv, CannotPackInv, ContinueInv,
       TooFewIterationsInv, HandshakeFailsInv, AuthenticatedInv, CommandInv, ReturnInv, RaiseInv
       DEF Client
  <1>3. ASSUME NEW c \in All, Server(c) PROVE Inv'
    BY <1>3, ServeHelloInv, ServeSaslInv, ServeLogoutInv, ServeCommandInv DEF Server
  <1>4. ASSUME NEW n \in Nodes, Elect(n) \/ Hear(n) PROVE Inv'
    BY <1>4, ElectionInv
  <1> QED
    BY <1>1, <1>2, <1>3, <1>4, DiscoveredInv, ChangeUserInv, StutterInv DEF Next

\* It holds before the client is made.
LEMMA InitInv == Init => Inv
  <1> SUFFICES ASSUME Init PROVE Inv
    OBVIOUS
  <1>1. \A c \in All : /\ phase[c] = "new" /\ node[c] = None /\ compressor[c] = None
                       /\ sent[c] = NoMessage /\ answer[c] = None /\ raised[c] = None
                       /\ session[c] = None /\ ~knew[c] /\ ~out[c]
    BY DEF Init, NotOpen
  <1>2. Shape
    BY ConnectAssumption DEF Init, NotOpen, Shape, OnAll
  <1>3. Made /\ Lookout
    BY <1>1 DEF Init, Made, Lookout, All
  <1>4. UsersKept
    BY UsersAssumption DEF Init, UsersKept
  <1>5. \A c \in All : Stage(c) /\ Compressed(c) /\ Exceptions(c)
    BY <1>1 DEF Stage, Known, Fresh, Quiet, Greeting, Conversing, Ready, Compressed, Exceptions
  <1>6. \A c \in Conns : GoesOn(c)
    BY <1>1 DEF GoesOn, All
  <1> QED
    BY <1>2, <1>3, <1>4, <1>5, <1>6 DEF Inv, Base

\* Every transport is in a phase of its life, with the messages of that phase
\* (client.py:234-251, transport.py:44-59).
THEOREM TypeCorrect == Spec => []TypeOK
  <1>1. Inv => TypeOK
    <2> SUFFICES ASSUME Inv PROVE TypeOK
      OBVIOUS
    <2>1. Shape /\ Made /\ \A c \in All : Stage(c)
      BY DEF Inv, Base
    <2>2. \A c \in All : phase[c] = "new" <=> node[c] = None
      BY <2>1, NoneAssumption, ProgramsAssumption DEF Shape, Made, Stage, Fresh, All
    <2>3. ASSUME NEW c \in All
          PROVE  /\ phase[c] \in {"new", "hello", "sasl", "ready", "lost", "closed", "failed"}
                 /\ phase[c] \in {"new", "lost", "closed", "failed"} => sent[c] = NoMessage
                 /\ phase[c] \in {"hello", "sasl"} => sent[c] # NoMessage
                 /\ answer[c] # None => sent[c] # NoMessage
      BY <2>1, Phases DEF Made, Stage, Quiet, All
    <2> QED
      BY <2>1, <2>2, <2>3 DEF TypeOK, Shape, Made
  <1> QED
    BY InitInv, NextInv, <1>1, PTL DEF Spec

\* A connection that finished its handshake is the client's user to the server,
\* whatever happens to that user (transport.py:143-181, auth.py:168-239).
THEOREM HandshakeSettlesCorrect == Spec => []HandshakeSettles
  <1>1. Inv => HandshakeSettles
    BY DEF Inv, Base, Stage, Ready, HandshakeSettles, All
  <1> QED
    BY InitInv, NextInv, <1>1, PTL DEF Spec

\* Good credentials never lose a transport, beside elections, unless the user is
\* changed (auth.py:168-239).
THEOREM GoodCredentialsConnectCorrect == Spec => []GoodCredentialsConnect
  <1>1. Inv => GoodCredentialsConnect
    BY DEF Inv, GoodCredentials, GoesOn, GoodCredentialsConnect
  <1> QED
    BY InitInv, NextInv, <1>1, PTL DEF Spec

\* from_uri comes to the primary if the node it asks is up to date, and writes
\* meet it until the next election (client.py:158-168).
THEOREM FromUriFindsPrimaryCorrect == Spec => []FromUriFindsPrimary
  <1>1. Inv => FromUriFindsPrimary
    BY DEF Inv, Lookout, ToldPrimary, FromUriFindsPrimary
  <1> QED
    BY InitInv, NextInv, <1>1, PTL DEF Spec

\* A message is compressed as the client asked, can and the node takes
\* (transport.py:162-163, wirehelper.py:119-149).
THEOREM CompressionAgreedCorrect == Spec => []CompressionAgreed
  <1>1. Inv => CompressionAgreed
    BY DEF Inv, Compressed, Packs, CompressionAgreed
  <1> QED
    BY InitInv, NextInv, <1>1, PTL DEF Spec

\* The code of an exception is that of the server's first error, unless the
\* table lacks it (wirehelper.py:221-243, codes.py).
THEOREM CodesKeptCorrect == Spec => []CodesKept
  <1>1. ASSUME NEW reply \in Failures, NEW exc, exc = GetException(reply)
        PROVE  LET codes == IF reply.errors = <<>> THEN <<reply.code>>
                            ELSE [i \in DOMAIN reply.errors |-> reply.errors[i].code]
               IN  /\ exc.code \in {codes[1], -1}
                   /\ exc.code = -1 => codes[1] \notin DOMAIN Names
                   /\ exc.code = -1 => reply.errors # <<>>
                                       \/ "TransientTransactionError" \notin reply.labels
    <2> DEFINE r == IF reply.errors = <<>> THEN reply ELSE reply.errors[1]
               codes == IF reply.errors = <<>> THEN <<reply.code>>
                        ELSE [i \in DOMAIN reply.errors |-> reply.errors[i].code]
    <2>1. /\ reply.errors = <<>> => reply.code # -1
          /\ reply.errors = <<>> \/ 1 \in DOMAIN reply.errors
      BY RepliesAssumption DEF Failures, No
    <2>3. \/ exc.code = r.code /\ r.code \in DOMAIN Names
          \/ exc.code = r.code /\ r.code \notin DOMAIN Names
             /\ "TransientTransactionError" \in r.labels
          \/ exc.code = -1 /\ r.code \notin DOMAIN Names
             /\ "TransientTransactionError" \notin r.labels
      BY <1>1, NamesAssumption DEF GetException, GetExceptionName, Exception
    <2> QED
      BY <2>1, <2>3, NamesAssumption
  <1>2. Inv => CodesKept
    BY <1>1 DEF Inv, Exceptions, CodesKept
  <1> QED
    BY InitInv, NextInv, <1>2, PTL DEF Spec
=============================================================================
