-------------------------- MODULE TransactionProofs --------------------------
(***************************************************************************)
(* The promises of Transaction for any number of transactions, commands,   *)
(* seconds and lost replies, whatever the server refuses, drops or delays. *)
(***************************************************************************)
EXTENDS Transaction, TLAPS

-----------------------------------------------------------------------------
(* The inductive invariant                                                 *)

Inner(o) == opDoc[o].kind # "plain"

\* The server took the first command of x: it holds, or held, that transaction.
Began(x) == \E o \in Ops : opTxn[o] = x /\ opDoc[o].kind = "start" /\ opMsg[o] = "ok"

Command(o) ==
    /\ opPc[o] # "new" => opTxn[o] \in Txns /\ block[opTxn[o]] # "outside"
    /\ opPc[o] \in {"new", "queued"} => opMsg[o] = None
    /\ opMsg[o] = None => ~Inner(o)
    /\ opMsg[o] # None => opPc[o] # "new"
    /\ opPc[o] = "returned" => opMsg[o] = "ok" /\ count[opTxn[o]] # 0
    /\ Inner(o) => opDoc[o].n = id[opTxn[o]]
    /\ opDoc[o].kind = "continue" => Began(opTxn[o])
    /\ opMsg[o] # None /\ IsActive(opTxn[o]) => Inner(o)

Object(x) ==
    /\ state[x] = "NONE" <=> block[x] = "outside"
    /\ state[x] = "NONE" => count[x] = 0
    /\ state[x] = "COMMITED" => block[x] = "left"
    /\ IsActive(x) /\ count[x] # 0 => Began(x)
    /\ id[x] = -1 => state[x] = "NONE"
    /\ ender[x] # None => want[x] # None /\ block[x] \in {"calling", "exiting"}
    /\ ender[x] = "sent" /\ endMsg[x] \in {"COMMITED", "ABORTED"} => endMsg[x] = want[x]

\* The server holds what it acknowledged of its transaction, and nothing else.
Acknowledged(o) ==
    Inner(o) /\ opMsg[o] = "ok" =>
        /\ opDoc[o].n <= last
        /\ opDoc[o].n = last /\ status = "active" => o \in pending
        /\ opDoc[o].n = last /\ status = "committed" => o \in durable
Held(o) ==
    /\ Inner(o) /\ opMsg[o] = "ok"
    /\ opDoc[o].n = last /\ Began(opTxn[o])
\* Of the objects that start in one second, the server takes one.
OneBegins == \A x, y \in Txns : Began(x) /\ Began(y) /\ id[x] = id[y] => x = y

Server ==
    /\ \A o \in Ops : Acknowledged(o)
    /\ \A o \in pending : Held(o)
    /\ \A o \in durable : opMsg[o] = "ok"
    /\ OneBegins

\* Without overlap a block has one command under way, and none once it is left.
InTurn ==
    /\ \A o \in Ops : opPc[o] \in {"queued", "sent"} => block[opTxn[o]] = "body"
    /\ \A o, p \in Ops : /\ opPc[o] \in {"queued", "sent"}
                         /\ opPc[p] \in {"queued", "sent"}
                         /\ opTxn[o] = opTxn[p]
                         => o = p
    /\ \A x \in Txns : block[x] \in {"calling", "exiting"} => IsActive(x)

Settled(x) == \A o \in Ops : opPc[o] = "returned" /\ opTxn[o] = x => o \in durable
Settles ==
    \A x \in Txns :
        \/ ender[x] = "sent" /\ want[x] = "COMMITED" /\ endMsg[x] = "ok"
        \/ block[x] = "left" /\ state[x] = "COMMITED"
        => Settled(x)

\* Only __aexit__ ends the transaction, and only once.
EndsOnce ==
    /\ \A x \in Txns :
        /\ block[x] # "calling"
        /\ want[x] # None => Began(x) /\ block[x] \in {"exiting", "left"}
        /\ want[x] = "COMMITED" => state[x] # "ABORTED"
        /\ endMsg[x] \in {"COMMITED", "ABORTED"} => endMsg[x] = want[x]
    /\ \A o \in durable : Inner(o) => want[opTxn[o]] = "COMMITED"

\* A block that lets exceptions out commits only what all went well.
LetsOut ==
    /\ \A x \in Txns :
        /\ block[x] = "body" /\ ~raised[x] => IsActive(x)
        /\ want[x] = "COMMITED" =>
             \A o \in Ops : opPc[o] # "new" /\ opTxn[o] = x => opPc[o] = "returned"
    /\ \A o \in Ops :
        /\ opPc[o] = "queued" => IsActive(opTxn[o])
        /\ opMsg[o] # None => Inner(o)
        /\ opPc[o] = "raised" => raised[opTxn[o]]
    /\ \A o \in durable, p \in Ops : opPc[p] # "new" /\ opTxn[p] = opTxn[o] => p \in durable

Base == TypeOK /\ (\A o \in Ops : Command(o)) /\ (\A x \in Txns : Object(x)) /\ Server
Inv ==
    /\ Base
    /\ ~Overlap => InTurn /\ Settles
    /\ caller \subseteq {"catch"} => EndsOnce
    /\ caller = {} => LetsOut

-----------------------------------------------------------------------------
(* One lemma for each action                                               *)

\* A second passes.
LEMMA TickInv ==
    ASSUME Inv, Tick
    PROVE  Inv'
  <1> USE DEF Tick, txnVars, endVars, opVars, srvVars, envVars
  <1>1. Base
    BY DEF Inv
  <1>2. TypeOK'
    BY <1>1, BoundsAssumption DEF Base, TypeOK
  <1>3. \A y \in Txns : Began(y) <=> Began(y)'
    BY DEF Began
  <1>4. ASSUME NEW p \in Ops PROVE Command(p)'
    BY <1>1, <1>3 DEF Base, Command, Inner, IsActive
  <1>5. ASSUME NEW y \in Txns PROVE Object(y)'
    BY <1>1, <1>3 DEF Base, Object, IsActive
  <1>6. \A p \in Ops : Acknowledged(p)'
    BY <1>1 DEF Base, Server, Acknowledged, Inner
  <1>7. \A p \in pending' : Held(p)'
    BY <1>1, <1>3 DEF Base, TypeOK, Server, Held, Command, Inner
  <1>9. OneBegins'
    BY <1>1, <1>3 DEF Base, Server, OneBegins
  <1>10. ASSUME ~Overlap PROVE InTurn'
    BY <1>10 DEF Inv, InTurn, IsActive
  <1>11. ASSUME ~Overlap PROVE Settles'
    BY <1>11 DEF Inv, Settles, Settled
  <1>12. ASSUME caller \subseteq {"catch"} PROVE EndsOnce'
    BY <1>3, <1>12 DEF Inv, EndsOnce, Inner
  <1>13. ASSUME caller = {} PROVE LetsOut'
    BY <1>13 DEF Inv, LetsOut, Inner, IsActive
  <1> QED
    BY <1>2, <1>4, <1>5, <1>6, <1>7, <1>9, <1>10, <1>11, <1>12, <1>13 DEF Inv, Base, Server,
       Overlap

\* The server drops the open transaction: nothing is pending, nothing more takes effect.
LEMMA ExpireInv ==
    ASSUME Inv, Expire
    PROVE  Inv'
  <1> USE DEF Expire, txnVars, endVars, opVars, srvVars, envVars
  <1>1. Base
    BY DEF Inv
  <1>2. TypeOK'
    BY <1>1 DEF Base, TypeOK
  <1>3. \A y \in Txns : Began(y) <=> Began(y)'
    BY DEF Began
  <1>4. ASSUME NEW p \in Ops PROVE Command(p)'
    BY <1>1, <1>3 DEF Base, Command, Inner, IsActive
  <1>5. ASSUME NEW y \in Txns PROVE Object(y)'
    BY <1>1, <1>3 DEF Base, Object, IsActive
  <1>6. \A p \in Ops : Acknowledged(p)'
    BY <1>1 DEF Base, Server, Acknowledged, Inner
  <1>9. OneBegins'
    BY <1>1, <1>3 DEF Base, Server, OneBegins
  <1>10. ASSUME ~Overlap PROVE InTurn'
    BY <1>10 DEF Inv, InTurn, IsActive
  <1>11. ASSUME ~Overlap PROVE Settles'
    BY <1>11 DEF Inv, Settles, Settled
  <1>12. ASSUME caller \subseteq {"catch"} PROVE EndsOnce'
    BY <1>3, <1>12 DEF Inv, EndsOnce, Inner
  <1>13. ASSUME caller = {} PROVE LetsOut'
    BY <1>13 DEF Inv, LetsOut, Inner, IsActive
  <1> QED
    BY <1>2, <1>4, <1>5, <1>6, <1>9, <1>10, <1>11, <1>12, <1>13 DEF Inv, Base, Server, Overlap

\* An object is entered once, before any command names it.
LEMMA EnterInv ==
    ASSUME Inv, NEW x \in Txns, Enter(x)
    PROVE  Inv'
  <1> USE DEF Enter, Begin, IsEnded, txnVars, endVars, opVars, srvVars, envVars
  <1>1. Base
    BY DEF Inv
  <1>2. TypeOK'
    BY <1>1 DEF Base, TypeOK, TxnStates
  <1>3. \A y \in Txns : Began(y) <=> Began(y)'
    BY DEF Began
  <1>4. ASSUME NEW p \in Ops PROVE Command(p)'
    BY <1>1, <1>3 DEF Base, TypeOK, Command, Object, Inner, IsActive, TxnStates
  <1>5. ASSUME NEW y \in Txns PROVE Object(y)'
    BY <1>1, <1>3 DEF Base, TypeOK, Object, IsActive, TxnStates
  <1>6. \A p \in Ops : Acknowledged(p)'
    BY <1>1 DEF Base, Server, Acknowledged, Inner
  <1>7. \A p \in pending' : Held(p)'
    BY <1>1, <1>3 DEF Base, TypeOK, Server, Held, Command, Inner
  <1>9. OneBegins'
    <2>1. ~Began(x)
      BY <1>1 DEF Base, TypeOK, Object, Command, Began, IsActive, TxnStates, None
    <2> QED
      BY <1>1, <1>3, <2>1 DEF Base, Server, OneBegins
  <1>10. ASSUME ~Overlap PROVE InTurn'
    BY <1>10 DEF Inv, InTurn
  <1>11. ASSUME ~Overlap PROVE Settles'
    BY <1>11 DEF Inv, Settles, Settled
  <1>12. ASSUME caller \subseteq {"catch"} PROVE EndsOnce'
    <2>1. EndsOnce /\ block[x] = "outside"
      BY <1>12 DEF Inv, Base, TypeOK, Object, IsActive, TxnStates
    <2>5. \A y \in Txns : Began(y) => Began(y)'
      BY <1>3
    <2> QED
      BY <2>1, <2>5 DEF EndsOnce, Inner
  <1>13. ASSUME caller = {} PROVE LetsOut'
    BY <1>13 DEF Inv, Base, TypeOK, LetsOut, Inner, IsActive
  <1> QED
    BY <1>2, <1>4, <1>5, <1>6, <1>7, <1>9, <1>10, <1>11, <1>12, <1>13 DEF Inv, Base, Server,
       Overlap

\* A command is queued in a body that has no other under way.
LEMMA IssueInv ==
    ASSUME Inv, NEW o \in Ops, NEW x \in Txns, Issue(o, x)
    PROVE  Inv'
  <1> USE DEF Issue, Unfinished, OpsOf, txnVars, endVars, opVars, srvVars, envVars
  <1>1. Base
    BY DEF Inv
  <1>2. TypeOK'
    BY <1>1 DEF Base, TypeOK
  <1>3. \A y \in Txns : Began(y) <=> Began(y)'
    BY <1>1 DEF Base, Began, Command, None
  <1>4. ASSUME NEW p \in Ops PROVE Command(p)'
    BY <1>1, <1>3 DEF Base, TypeOK, Command, Inner, IsActive
  <1>5. ASSUME NEW y \in Txns PROVE Object(y)'
    BY <1>1, <1>3 DEF Base, Object, IsActive
  <1>6. \A p \in Ops : Acknowledged(p)'
    BY <1>1 DEF Base, Server, Acknowledged, Inner
  <1>7. \A p \in pending' : Held(p)'
    BY <1>1, <1>3 DEF Base, TypeOK, Server, Held, Command, Inner
  <1>9. OneBegins'
    BY <1>1, <1>3 DEF Base, Server, OneBegins
  <1>10. ASSUME ~Overlap PROVE InTurn'
    BY <1>10 DEF Inv, Base, TypeOK, InTurn, IsActive
  <1>11. ASSUME ~Overlap PROVE Settles'
    BY <1>11 DEF Inv, Settles, Settled
  <1>12. ASSUME caller \subseteq {"catch"} PROVE EndsOnce'
    BY <1>3, <1>12 DEF Inv, Base, EndsOnce, Command, Inner
  <1>13. ASSUME caller = {} PROVE LetsOut'
    BY <1>12, <1>13, SMTT(30)
    DEF Inv, Base, TypeOK, LetsOut, EndsOnce, Server, Inner, IsActive, None
  <1> QED
    BY <1>2, <1>4, <1>5, <1>6, <1>7, <1>9, <1>10, <1>11, <1>12, <1>13 DEF Inv, Base, Server,
       Overlap

\* The document is made now: it starts the transaction, continues it or, once the
\* object is ended, is a plain one.
LEMMA SendInv ==
    ASSUME Inv, NEW o \in Ops, Send(o)
    PROVE  Inv'
  <1> USE DEF Send, txnVars, endVars, opVars, srvVars, envVars
  <1>1. Base
    BY DEF Inv
  <1>2. TypeOK'
    BY <1>1, BoundsAssumption DEF Base, TypeOK, Object, Command, Within, Plain
  <1>3. \A y \in Txns : Began(y) <=> Began(y)'
    BY <1>1 DEF Base, Began, Command, None
  <1>4. ASSUME NEW p \in Ops PROVE Command(p)'
    BY <1>1, <1>3 DEF Base, TypeOK, Command, Object, Inner, IsActive, Within, Plain, None
  <1>5. ASSUME NEW y \in Txns PROVE Object(y)'
    BY <1>1, <1>3 DEF Base, Object, IsActive
  <1>6. \A p \in Ops : Acknowledged(p)'
    BY <1>1 DEF Base, TypeOK, Server, Acknowledged, Inner
  <1>7. \A p \in pending' : Held(p)'
    BY <1>1, <1>3 DEF Base, TypeOK, Server, Held, Command, Inner
  <1>8. \A p \in durable' : opMsg'[p] = "ok"
    BY <1>1 DEF Base, Server, Command, None
  <1>9. OneBegins'
    BY <1>1, <1>3 DEF Base, Server, OneBegins
  <1>10. ASSUME ~Overlap PROVE InTurn'
    BY <1>10 DEF Inv, InTurn, IsActive
  <1>11. ASSUME ~Overlap PROVE Settles'
    BY <1>11 DEF Inv, Settles, Settled
  <1>12. ASSUME caller \subseteq {"catch"} PROVE EndsOnce'
    BY <1>3, <1>12 DEF Inv, Base, EndsOnce, Command, Server, Inner, None
  <1>13. ASSUME caller = {} PROVE LetsOut'
    BY <1>13 DEF Inv, Base, TypeOK, LetsOut, Inner, IsActive, Within
  <1> QED
    BY <1>2, <1>4, <1>5, <1>6, <1>7, <1>8, <1>9, <1>10, <1>11, <1>12, <1>13 DEF Inv, Base,
       Server, Overlap

\* The first command that returns shows that the server began the transaction.
LEMMA OpReturnsInv ==
    ASSUME Inv, NEW o \in Ops, OpReturns(o)
    PROVE  Inv'
  <1> USE DEF OpReturns, txnVars, endVars, opVars, srvVars, envVars
  <1>1. Base
    BY DEF Inv
  <1>2. TypeOK'
    BY <1>1 DEF Base, TypeOK, Command
  <1>3. \A y \in Txns : Began(y) <=> Began(y)'
    BY DEF Began
  <1>4. ASSUME NEW p \in Ops PROVE Command(p)'
    BY <1>1, <1>3 DEF Base, TypeOK, Command, Inner, IsActive
  <1>5. ASSUME NEW y \in Txns PROVE Object(y)'
    BY <1>1 DEF Base, TypeOK, Command, Object, Began, Inner, IsActive, None
  <1>6. \A p \in Ops : Acknowledged(p)'
    BY <1>1 DEF Base, Server, Acknowledged, Inner
  <1>7. \A p \in pending' : Held(p)'
    BY <1>1, <1>3 DEF Base, TypeOK, Server, Held, Command, Inner
  <1>9. OneBegins'
    BY <1>1, <1>3 DEF Base, Server, OneBegins
  <1>10. ASSUME ~Overlap PROVE InTurn'
    BY <1>10 DEF Inv, InTurn, IsActive
  <1>11. ASSUME ~Overlap PROVE Settles'
    BY <1>11 DEF Inv, Base, Settles, Settled, InTurn, Command, Object, None
  <1>12. ASSUME caller \subseteq {"catch"} PROVE EndsOnce'
    BY <1>3, <1>12 DEF Inv, EndsOnce, Inner
  <1>13. ASSUME caller = {} PROVE LetsOut'
    BY <1>13 DEF Inv, LetsOut, Inner, IsActive
  <1> QED
    BY <1>2, <1>4, <1>5, <1>6, <1>7, <1>9, <1>10, <1>11, <1>12, <1>13 DEF Inv, Base, Server,
       Overlap

\* A refused command ends the object; no other command of it is under way.
LEMMA OpRaisesInv ==
    ASSUME Inv, NEW o \in Ops, OpRaises(o)
    PROVE  Inv'
  <1> USE DEF OpRaises, Throw, End, IsEnded, txnVars, endVars, opVars, srvVars, envVars
  <1>1. Base
    BY DEF Inv
  <1>2. TypeOK'
    <2>1. state' \in [Txns -> TxnStates]
      BY <1>1 DEF Base, TypeOK, TxnStates
    <2>2. raised' \in [Txns -> BOOLEAN]
      BY <1>1 DEF Base, TypeOK
    <2> QED
      BY <1>1, <2>1, <2>2 DEF Base, TypeOK
  <1>3. \A y \in Txns : Began(y) <=> Began(y)'
    BY DEF Began
  <1>4. ASSUME NEW p \in Ops PROVE Command(p)'
    BY <1>1, <1>3 DEF Base, Command, Inner, IsActive
  <1>5. ASSUME NEW y \in Txns PROVE Object(y)'
    BY <1>1, <1>3 DEF Base, Command, Object, IsActive
  <1>6. \A p \in Ops : Acknowledged(p)'
    BY <1>1 DEF Base, Server, Acknowledged, Inner
  <1>7. \A p \in pending' : Held(p)'
    BY <1>1, <1>3 DEF Base, TypeOK, Server, Held, Command, Inner
  <1>9. OneBegins'
    BY <1>1, <1>3 DEF Base, Server, OneBegins
  <1>10. ASSUME ~Overlap PROVE InTurn'
    BY <1>10 DEF Inv, InTurn, IsActive
  <1>11. ASSUME ~Overlap PROVE Settles'
    BY <1>11 DEF Inv, Settles, Settled
  <1>12. ASSUME caller \subseteq {"catch"} PROVE EndsOnce'
    BY <1>3, <1>12 DEF Inv, EndsOnce, InTurn, Inner, Overlap, None
  <1>13. ASSUME caller = {} PROVE LetsOut'
    BY <1>13 DEF Inv, Base, TypeOK, LetsOut, InTurn, Command, Inner, IsActive, Overlap, Catch
  <1> QED
    BY <1>2, <1>4, <1>5, <1>6, <1>7, <1>9, <1>10, <1>11, <1>12, <1>13 DEF Inv, Base, Server,
       Overlap

\* The command is given up, its message stays where it is.
LEMMA GiveUpOpInv ==
    ASSUME Inv, NEW o \in Ops, GiveUpOp(o)
    PROVE  Inv'
  <1> USE DEF GiveUpOp, Throw, txnVars, endVars, opVars, srvVars, envVars
  <1>1. Base
    BY DEF Inv
  <1>2. TypeOK'
    <2>2. raised' \in [Txns -> BOOLEAN]
      BY <1>1 DEF Base, TypeOK
    <2> QED
      BY <1>1, <2>2, BoundsAssumption DEF Base, TypeOK
  <1>3. \A y \in Txns : Began(y) <=> Began(y)'
    BY DEF Began
  <1>4. ASSUME NEW p \in Ops PROVE Command(p)'
    BY <1>1, <1>3 DEF Base, Command, Inner, IsActive
  <1>5. ASSUME NEW y \in Txns PROVE Object(y)'
    BY <1>1, <1>3 DEF Base, Object, IsActive
  <1>6. \A p \in Ops : Acknowledged(p)'
    BY <1>1 DEF Base, Server, Acknowledged, Inner
  <1>7. \A p \in pending' : Held(p)'
    BY <1>1, <1>3 DEF Base, TypeOK, Server, Held, Command, Inner
  <1>9. OneBegins'
    BY <1>1, <1>3 DEF Base, Server, OneBegins
  <1>10. ASSUME ~Overlap PROVE InTurn'
    BY <1>10 DEF Inv, InTurn, IsActive
  <1>11. ASSUME ~Overlap PROVE Settles'
    BY <1>11 DEF Inv, Settles, Settled
  <1>12. ASSUME caller \subseteq {"catch"} PROVE EndsOnce'
    BY <1>3, <1>12 DEF Inv, EndsOnce, Inner
  <1>13. ASSUME caller = {} PROVE LetsOut'
    BY <1>12, <1>13 DEF Inv, Base, TypeOK, LetsOut, EndsOnce, Command, Acknowledged, Held,
       OneBegins, Inner, IsActive, Catch
  <1> QED
    BY <1>2, <1>4, <1>5, <1>6, <1>7, <1>9, <1>10, <1>11, <1>12, <1>13 DEF Inv, Base, Server,
       Overlap

\* What is committed has only commands that returned, if exceptions leave the block.
LEMMA ExitInv ==
    ASSUME Inv, NEW x \in Txns, Exit(x)
    PROVE  Inv'
  <1> USE DEF Exit, End, IsEnded, Unfinished, OpsOf, txnVars, endVars, opVars, srvVars, envVars
  <1>1. Base
    BY DEF Inv
  <1>2. TypeOK'
    <2>1. state' \in [Txns -> TxnStates]
      BY <1>1 DEF Base, TypeOK, TxnStates
    <2>2. raised' \in [Txns -> BOOLEAN]
      BY <1>1 DEF Base, TypeOK
    <2> QED
      BY <1>1, <2>1, <2>2 DEF Base, TypeOK
  <1>3. \A y \in Txns : Began(y) <=> Began(y)'
    BY DEF Began
  <1>4. ASSUME NEW p \in Ops PROVE Command(p)'
    BY <1>1, <1>3 DEF Base, TypeOK, Command, Inner, IsActive
  <1>5. ASSUME NEW y \in Txns PROVE Object(y)'
    BY <1>1, <1>3 DEF Base, TypeOK, Object, IsActive, None
  <1>6. \A p \in Ops : Acknowledged(p)'
    BY <1>1 DEF Base, Server, Acknowledged, Inner
  <1>7. \A p \in pending' : Held(p)'
    BY <1>1, <1>3 DEF Base, TypeOK, Server, Held, Command, Inner
  <1>9. OneBegins'
    BY <1>1, <1>3 DEF Base, Server, OneBegins
  <1>10. ASSUME ~Overlap PROVE InTurn'
    BY <1>10 DEF Inv, Base, TypeOK, InTurn, Command, IsActive
  <1>11. ASSUME ~Overlap PROVE Settles'
    BY <1>11 DEF Inv, Base, TypeOK, Settles, Settled, Command, Object, IsActive, TxnStates
  <1>12. ASSUME caller \subseteq {"catch"} PROVE EndsOnce'
    BY <1>3, <1>12 DEF Inv, Base, TypeOK, EndsOnce, Command, Object, Inner, IsActive, None
  <1>13. ASSUME caller = {} PROVE LetsOut'
    <2>1. LetsOut /\ InTurn /\ EndsOnce
      BY <1>13 DEF Inv, Overlap
    <2>2. \A p \in Ops : opPc[p] \in {"queued", "sent"} => opTxn[p] # x
      BY <1>13 DEF Overlap
    <2>3. \A y \in Txns : block'[y] = "body" =>
            y # x /\ block[y] = "body" /\ IsActive(y)' = IsActive(y)
      BY <1>1 DEF Base, TypeOK, IsActive
    <2>4. \A p \in Ops : opPc[p] = "queued" => IsActive(opTxn[p])'
      BY <1>1, <2>1, <2>2 DEF Base, TypeOK, LetsOut, IsActive, Command
    <2>5. ASSUME NEW y \in Txns, want'[y] = "COMMITED", NEW p \in Ops, opPc[p] # "new",
                   opTxn[p] = y
          PROVE  opPc[p] = "returned"
      <3>1. CASE want[y] = "COMMITED"
        BY <2>1, <2>5, <3>1 DEF LetsOut
      <3>2. CASE want[y] # "COMMITED"
        <4>1. y = x /\ ~raised[x]
          BY <1>1, <2>5, <3>2 DEF Base, TypeOK
        <4>2. opPc[p] # "raised"
          BY <2>1, <2>5, <4>1 DEF LetsOut
        <4> QED
          BY <1>1, <2>2, <2>5, <4>1, <4>2 DEF Base, TypeOK
      <3> QED
        BY <3>1, <3>2
    <2> QED
      BY <2>1, <2>3, <2>4, <2>5 DEF LetsOut, Inner
  <1> QED
    BY <1>2, <1>4, <1>5, <1>6, <1>7, <1>9, <1>10, <1>11, <1>12, <1>13 DEF Inv, Base, Server,
       Overlap

\* The block asks for the end itself.
LEMMA CallInv ==
    ASSUME Inv, NEW x \in Txns, Call(x)
    PROVE  Inv'
  <1> USE DEF Call, Unfinished, OpsOf, txnVars, endVars, opVars, srvVars, envVars
  <1>1. Base
    BY DEF Inv
  <1>2. TypeOK'
    BY <1>1 DEF Base, TypeOK
  <1>3. \A y \in Txns : Began(y) <=> Began(y)'
    BY DEF Began
  <1>4. ASSUME NEW p \in Ops PROVE Command(p)'
    BY <1>1, <1>3 DEF Base, Command, Inner, IsActive
  <1>5. ASSUME NEW y \in Txns PROVE Object(y)'
    BY <1>1, <1>3 DEF Base, TypeOK, Object, IsActive, None
  <1>6. \A p \in Ops : Acknowledged(p)'
    BY <1>1 DEF Base, Server, Acknowledged, Inner
  <1>7. \A p \in pending' : Held(p)'
    BY <1>1, <1>3 DEF Base, TypeOK, Server, Held, Command, Inner
  <1>9. OneBegins'
    BY <1>1, <1>3 DEF Base, Server, OneBegins
  <1>10. ASSUME ~Overlap PROVE InTurn'
    BY <1>10 DEF Inv, InTurn, IsActive
  <1>11. ASSUME ~Overlap PROVE Settles'
    BY <1>11 DEF Inv, Base, TypeOK, Settles, Settled
  <1>12. ASSUME caller \subseteq {"catch"} PROVE EndsOnce'
    BY <1>12 DEF Explicit
  <1>13. ASSUME caller = {} PROVE LetsOut'
    BY <1>1, <1>12, <1>13 DEF Base, TypeOK, EndsOnce
  <1> QED
    BY <1>2, <1>4, <1>5, <1>6, <1>7, <1>9, <1>10, <1>11, <1>12, <1>13 DEF Inv, Base, Server,
       Overlap

\* The message of the end asks for what the object wants.
LEMMA SendEndInv ==
    ASSUME Inv, NEW x \in Txns, SendEnd(x)
    PROVE  Inv'
  <1> USE DEF SendEnd, txnVars, endVars, opVars, srvVars, envVars
  <1>1. Base
    BY DEF Inv
  <1>2. TypeOK'
    BY <1>1 DEF Base, TypeOK
  <1>3. \A y \in Txns : Began(y) <=> Began(y)'
    BY DEF Began
  <1>4. ASSUME NEW p \in Ops PROVE Command(p)'
    BY <1>1, <1>3 DEF Base, Command, Inner, IsActive
  <1>5. ASSUME NEW y \in Txns PROVE Object(y)'
    BY <1>1, <1>3 DEF Base, TypeOK, Object, IsActive, None
  <1>6. \A p \in Ops : Acknowledged(p)'
    BY <1>1 DEF Base, Server, Acknowledged, Inner
  <1>7. \A p \in pending' : Held(p)'
    BY <1>1, <1>3 DEF Base, TypeOK, Server, Held, Command, Inner
  <1>9. OneBegins'
    BY <1>1, <1>3 DEF Base, Server, OneBegins
  <1>10. ASSUME ~Overlap PROVE InTurn'
    BY <1>10 DEF Inv, InTurn, IsActive
  <1>11. ASSUME ~Overlap PROVE Settles'
    BY <1>11 DEF Inv, Base, TypeOK, Settles, Settled
  <1>12. ASSUME caller \subseteq {"catch"} PROVE EndsOnce'
    BY <1>3, <1>12 DEF Inv, EndsOnce, Inner
  <1>13. ASSUME caller = {} PROVE LetsOut'
    BY <1>13 DEF Inv, LetsOut, Inner, IsActive
  <1> QED
    BY <1>2, <1>4, <1>5, <1>6, <1>7, <1>9, <1>10, <1>11, <1>12, <1>13 DEF Inv, Base, Server,
       Overlap

\* The end is acknowledged: __aexit__ then marks the object.
LEMMA EndReturnsInv ==
    ASSUME Inv, NEW x \in Txns, EndReturns(x)
    PROVE  Inv'
  <1> USE DEF EndReturns, End, IsEnded, txnVars, endVars, opVars, srvVars, envVars
  <1>1. Base
    BY DEF Inv
  <1>2. TypeOK'
    <2>1. state' \in [Txns -> TxnStates]
      BY <1>1 DEF Base, TypeOK, TxnStates, Object, None
    <2> QED
      BY <1>1, <2>1 DEF Base, TypeOK
  <1>3. \A y \in Txns : Began(y) <=> Began(y)'
    BY DEF Began
  <1>4. ASSUME NEW p \in Ops PROVE Command(p)'
    BY <1>1, <1>3 DEF Base, TypeOK, Command, Object, Inner, IsActive
  <1>5. ASSUME NEW y \in Txns PROVE Object(y)'
    BY <1>1, <1>3 DEF Base, TypeOK, Object, IsActive
  <1>6. \A p \in Ops : Acknowledged(p)'
    BY <1>1 DEF Base, Server, Acknowledged, Inner
  <1>7. \A p \in pending' : Held(p)'
    BY <1>1, <1>3 DEF Base, TypeOK, Server, Held, Command, Inner
  <1>9. OneBegins'
    BY <1>1, <1>3 DEF Base, Server, OneBegins
  <1>10. ASSUME ~Overlap PROVE InTurn'
    BY <1>10 DEF Inv, Base, TypeOK, InTurn, Command, IsActive
  <1>11. ASSUME ~Overlap PROVE Settles'
    BY <1>11 DEF Inv, Base, TypeOK, Settles, Settled, Object
  <1>12. ASSUME caller \subseteq {"catch"} PROVE EndsOnce'
    BY <1>3, <1>12 DEF Inv, Base, TypeOK, EndsOnce, Inner
  <1>13. ASSUME caller = {} PROVE LetsOut'
    BY <1>13 DEF Inv, Base, TypeOK, LetsOut, InTurn, Command, Object, Server, Inner, IsActive,
       Overlap
  <1> QED
    BY <1>2, <1>4, <1>5, <1>6, <1>7, <1>9, <1>10, <1>11, <1>12, <1>13 DEF Inv, Base, Server,
       Overlap

\* The end is refused: the object keeps its state.
LEMMA EndRaisesInv ==
    ASSUME Inv, NEW x \in Txns, EndRaises(x)
    PROVE  Inv'
  <1> USE DEF EndRaises, EndFails, Throw, txnVars, endVars, opVars, srvVars, envVars
  <1>1. Base
    BY DEF Inv
  <1>2. TypeOK'
    <2> QED
      BY <1>1 DEF Base, TypeOK
  <1>3. \A y \in Txns : Began(y) <=> Began(y)'
    BY DEF Began
  <1>4. ASSUME NEW p \in Ops PROVE Command(p)'
    BY <1>1, <1>3 DEF Base, TypeOK, Command, Inner, IsActive
  <1>5. ASSUME NEW y \in Txns PROVE Object(y)'
    BY <1>1, <1>3 DEF Base, TypeOK, Object, IsActive
  <1>6. \A p \in Ops : Acknowledged(p)'
    BY <1>1 DEF Base, Server, Acknowledged, Inner
  <1>7. \A p \in pending' : Held(p)'
    BY <1>1, <1>3 DEF Base, TypeOK, Server, Held, Command, Inner
  <1>9. OneBegins'
    BY <1>1, <1>3 DEF Base, Server, OneBegins
  <1>10. ASSUME ~Overlap PROVE InTurn'
    BY <1>10 DEF Inv, Base, TypeOK, InTurn, Command, IsActive
  <1>11. ASSUME ~Overlap PROVE Settles'
    BY <1>11 DEF Inv, Base, Settles, Settled, Object
  <1>12. ASSUME caller \subseteq {"catch"} PROVE EndsOnce'
    BY <1>3, <1>12 DEF Inv, Base, TypeOK, EndsOnce, Inner
  <1>13. ASSUME caller = {} PROVE LetsOut'
    BY <1>13 DEF Inv, Base, TypeOK, LetsOut, EndsOnce, Inner, IsActive
  <1> QED
    BY <1>2, <1>4, <1>5, <1>6, <1>7, <1>9, <1>10, <1>11, <1>12, <1>13 DEF Inv, Base, Server,
       Overlap

\* The end is given up, its message stays where it is.
LEMMA GiveUpEndInv ==
    ASSUME Inv, NEW x \in Txns, GiveUpEnd(x)
    PROVE  Inv'
  <1> USE DEF GiveUpEnd, EndFails, Throw, txnVars, endVars, opVars, srvVars, envVars
  <1>1. Base
    BY DEF Inv
  <1>2. TypeOK'
    <2>2. raised' \in [Txns -> BOOLEAN]
      BY <1>1 DEF Base, TypeOK
    <2> QED
      BY <1>1, <2>2, BoundsAssumption DEF Base, TypeOK
  <1>3. \A y \in Txns : Began(y) <=> Began(y)'
    BY DEF Began
  <1>4. ASSUME NEW p \in Ops PROVE Command(p)'
    BY <1>1, <1>3 DEF Base, TypeOK, Command, Inner, IsActive
  <1>5. ASSUME NEW y \in Txns PROVE Object(y)'
    BY <1>1, <1>3 DEF Base, TypeOK, Object, IsActive, None
  <1>6. \A p \in Ops : Acknowledged(p)'
    BY <1>1 DEF Base, Server, Acknowledged, Inner
  <1>7. \A p \in pending' : Held(p)'
    BY <1>1, <1>3 DEF Base, TypeOK, Server, Held, Command, Inner
  <1>9. OneBegins'
    BY <1>1, <1>3 DEF Base, Server, OneBegins
  <1>10. ASSUME ~Overlap PROVE InTurn'
    BY <1>10 DEF Inv, Base, TypeOK, InTurn, Command, IsActive
  <1>11. ASSUME ~Overlap PROVE Settles'
    BY <1>11 DEF Inv, Base, Settles, Settled, Object, None
  <1>12. ASSUME caller \subseteq {"catch"} PROVE EndsOnce'
    BY <1>3, <1>12 DEF Inv, Base, TypeOK, EndsOnce, Inner
  <1>13. ASSUME caller = {} PROVE LetsOut'
    BY <1>13 DEF Inv, Base, TypeOK, LetsOut, EndsOnce, Inner, IsActive
  <1> QED
    BY <1>2, <1>4, <1>5, <1>6, <1>7, <1>9, <1>10, <1>11, <1>12, <1>13 DEF Inv, Base, Server,
       Overlap

\* A transaction begins with a number above every number in use, and takes commands
\* of the object that began it only.
LEMMA ServeOpInv ==
    ASSUME Inv, NEW o \in Ops, ServeOp(o)
    PROVE  Inv'
  <1> USE DEF ServeOp, Reply, txnVars, endVars, opVars, srvVars, envVars
  <1>1. Base
    BY DEF Inv
  <1>2. TypeOK'
    BY <1>1 DEF Base, TypeOK
  <1>3. \A y \in Txns : Began(y) => Began(y)'
    BY <1>1 DEF Base, TypeOK, Began
  <1>4. ASSUME NEW p \in Ops PROVE Command(p)'
    BY <1>1, <1>3 DEF Base, TypeOK, Command, Inner, IsActive, None
  <1>5. ASSUME NEW y \in Txns PROVE Object(y)'
    BY <1>1, <1>3 DEF Base, Object, IsActive
  <1>6. \A p \in Ops : Acknowledged(p)'
    BY <1>1 DEF Base, TypeOK, Server, Acknowledged, Inner
  <1>7. \A p \in pending' : Held(p)'
    <2>1. \A p \in pending : Inner(p) /\ opMsg[p] = "ok" /\ opDoc[p].n = last
                            /\ opTxn[p] \in Txns /\ Began(opTxn[p])
      BY <1>1 DEF Base, TypeOK, Server, Held, Command
    <2>2. ASSUME opMsg'[o] = "ok", opDoc[o].kind = "start" PROVE Began(opTxn[o])'
      BY <2>2 DEF Began
    <2>3. opTxn[o] \in Txns
      BY <1>1 DEF Base, Command, None
    <2>4. opDoc[o].kind = "continue" => Began(opTxn[o])'
      BY <1>1, <1>3, <2>3 DEF Base, Command
    <2>5. ASSUME NEW p \in pending', p # o PROVE Held(p)'
      <3> QED
        BY <1>1, <1>3, <2>1, <2>5 DEF Base, TypeOK, Held, Inner
    <2>6. ASSUME o \in pending' PROVE Held(o)'
      <3>1. o \notin pending
        BY <2>1
      <3>2. opMsg'[o] = "ok" /\ Inner(o) /\ opDoc[o].n = last'
        BY <1>1, <2>6, <3>1 DEF Base, TypeOK, Inner
      <3>3. Began(opTxn[o])'
        BY <2>2, <2>4, <3>2 DEF Inner
      <3> QED
        BY <3>2, <3>3 DEF Held, Inner
    <2> QED
      BY <2>5, <2>6
  <1>8. \A p \in durable' : opMsg'[p] = "ok"
    BY <1>1 DEF Base, TypeOK, Server
  <1>9. OneBegins'
    <2>1. \A y \in Txns : Began(y) => id[y] <= last
      BY <1>1 DEF Base, Began, Server, Acknowledged, Inner, Command
    <2>2. \A y \in Txns : Began(y)' /\ ~Began(y) =>
            y = opTxn[o] /\ opDoc[o].kind = "start" /\ opMsg'[o] = "ok"
      BY <1>1 DEF Base, TypeOK, Began
    <2>3. opDoc[o].kind = "start" /\ opMsg'[o] = "ok" =>
            opDoc[o].n = id[opTxn[o]] /\ last < opDoc[o].n
      BY <1>1 DEF Base, TypeOK, Command, Inner
    <2>4. last \in Nat /\ \A y \in Txns : id[y] \in Int
      BY <1>1 DEF Base, TypeOK
    <2> QED
      BY <1>1, <2>1, <2>2, <2>3, <2>4 DEF Base, Server, OneBegins
  <1>10. ASSUME ~Overlap PROVE InTurn'
    BY <1>10 DEF Inv, InTurn, IsActive
  <1>11. ASSUME ~Overlap PROVE Settles'
    BY <1>11 DEF Inv, Settles, Settled
  <1>12. ASSUME caller \subseteq {"catch"} PROVE EndsOnce'
    BY <1>3, <1>12 DEF Inv, EndsOnce, Inner
  <1>13. ASSUME caller = {} PROVE LetsOut'
    BY <1>13 DEF Inv, Base, TypeOK, LetsOut, Inner, IsActive, None
  <1> QED
    BY <1>2, <1>4, <1>5, <1>6, <1>7, <1>8, <1>9, <1>10, <1>11, <1>12, <1>13 DEF Inv, Base,
       Server, Overlap

\* What takes effect is the transaction of the object that asks, if one of its
\* commands began it.
LEMMA ServeEndInv ==
    ASSUME Inv, NEW x \in Txns, ServeEnd(x)
    PROVE  Inv'
  <1> USE DEF ServeEnd, txnVars, endVars, opVars, srvVars, envVars
  <1>1. Base
    BY DEF Inv
  <1>2. TypeOK'
    BY <1>1 DEF Base, TypeOK
  <1>3. \A y \in Txns : Began(y) <=> Began(y)'
    BY DEF Began
  <1>4. ASSUME NEW p \in Ops PROVE Command(p)'
    BY <1>1, <1>3 DEF Base, Command, Inner, IsActive
  <1>5. ASSUME NEW y \in Txns PROVE Object(y)'
    BY <1>1, <1>3 DEF Base, TypeOK, Object, IsActive
  <1>6. \A p \in Ops : Acknowledged(p)'
    BY <1>1 DEF Base, Server, Acknowledged, Inner
  <1>7. \A p \in pending' : Held(p)'
    BY <1>1, <1>3 DEF Base, TypeOK, Server, Held, Command, Inner
  <1>8. \A p \in durable' : opMsg'[p] = "ok"
    BY <1>1 DEF Base, Server, Held
  <1>9. OneBegins'
    BY <1>1, <1>3 DEF Base, Server, OneBegins
  <1>10. ASSUME ~Overlap PROVE InTurn'
    BY <1>10 DEF Inv, InTurn, IsActive
  <1>11. ASSUME ~Overlap PROVE Settles'
    BY <1>11 DEF Inv, Base, TypeOK, Settles, Settled, InTurn, Command, Object, Server,
       Acknowledged, None
  <1>12. ASSUME caller \subseteq {"catch"} PROVE EndsOnce'
    BY <1>1, <1>3, <1>12 DEF Inv, Base, TypeOK, EndsOnce, Command, Server, Held, OneBegins,
       Inner, None
  <1>13. ASSUME caller = {} PROVE LetsOut'
    BY <1>12, <1>13 DEF Inv, Base, TypeOK, LetsOut, EndsOnce, Command, Server, Acknowledged,
       Held, Inner, IsActive
  <1> QED
    BY <1>2, <1>4, <1>5, <1>6, <1>7, <1>8, <1>9, <1>10, <1>11, <1>12, <1>13 DEF Inv, Base,
       Server, Overlap

-----------------------------------------------------------------------------
(* The theorems                                                            *)

\* So does a step that changes nothing.
LEMMA StutterInv ==
    ASSUME Inv, UNCHANGED vars
    PROVE  Inv'
  BY DEF vars, Inv, Base, TypeOK, Command, Object, Began, Server, Acknowledged, Held, OneBegins,
     Inner, IsActive, InTurn, Settles, Settled, EndsOnce, LetsOut, Overlap

\* Every step keeps the invariant.
LEMMA NextInv == Inv /\ [Next]_vars => Inv'
  BY TickInv, ExpireInv, EnterInv, IssueInv, SendInv, OpReturnsInv, OpRaisesInv, GiveUpOpInv,
     ExitInv, CallInv, SendEndInv, EndReturnsInv, EndRaisesInv, GiveUpEndInv, ServeOpInv,
     ServeEndInv, StutterInv DEF Next, ClientStep, OpStep

\* It holds when the session starts.
LEMMA InitInv == Init => Inv
  <1> SUFFICES ASSUME Init PROVE Inv
    OBVIOUS
  <1>1. TypeOK
    BY BoundsAssumption DEF Init, TypeOK, TxnStates, Plain
  <1>2. (\A o \in Ops : Command(o)) /\ (\A x \in Txns : ~Began(x))
    BY DEF Init, Command, Began, Inner, Plain
  <1>3. \A x \in Txns : Object(x)
    BY DEF Init, Object
  <1>4. Server
    BY <1>2 DEF Init, Server, Acknowledged, OneBegins, None
  <1>5. InTurn /\ Settles /\ EndsOnce /\ LetsOut
    BY DEF Init, InTurn, Settles, EndsOnce, LetsOut
  <1> QED
    BY <1>1, <1>2, <1>3, <1>4, <1>5 DEF Inv, Base

\* Every variable of the session keeps its type (transaction.py:39-69).
THEOREM TypeCorrect == Spec => []TypeOK
  <1>1. Inv => TypeOK
    BY DEF Inv, Base
  <1> QED
    BY InitInv, NextInv, <1>1, PTL DEF Spec

\* The server's transaction holds the commands of one Transaction object, even
\* of several that start in the same second (transaction.py:59 and 119-128).
THEOREM NoMixingCorrect == Spec => []NoMixing
  <1>1. Inv => NoMixing
    BY DEF Inv, Base, TypeOK, Server, Held, OneBegins, Command, NoMixing
  <1> QED
    BY InitInv, NextInv, <1>1, PTL DEF Spec

\* Where commands follow one another, a block that is left with COMMITED has had
\* its effect, whatever replies were lost (transaction.py:109-116).
THEOREM CommittedIsDurableCorrect == Spec => []CommittedIsDurable
  <1>1. Inv => CommittedIsDurable
    BY DEF Inv, CommittedIsDurable, Settles, Settled, OpsOf
  <1> QED
    BY InitInv, NextInv, <1>1, PTL DEF Spec

\* ABORTED is never said of a transaction that took effect, if only __aexit__
\* ends it and commands follow one another (transaction.py:61-69 and 109-116).
THEOREM AbortedHasNoEffectCorrect == Spec => []AbortedHasNoEffect
  <1>1. Inv => AbortedHasNoEffect
    BY DEF Inv, AbortedHasNoEffect, EndsOnce, OpsOf, Inner
  <1> QED
    BY InitInv, NextInv, <1>1, PTL DEF Spec

\* A block that lets exceptions out takes effect as a whole or not at all
\* (README.md:176).
THEOREM AllOrNothingCorrect == Spec => []AllOrNothing
  <1>1. Inv => AllOrNothing
    <2> SUFFICES ASSUME Inv, caller = {}, NEW x \in Txns, NEW o \in OpsOf(x) \cap durable
                 PROVE  OpsOf(x) \subseteq durable
      BY DEF AllOrNothing
    <2> QED
      BY DEF Inv, LetsOut, OpsOf
  <1> QED
    BY InitInv, NextInv, <1>1, PTL DEF Spec
=============================================================================
