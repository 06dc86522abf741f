----------------------------- MODULE Transaction -----------------------------
(***************************************************************************)
(* The transactions of one session: Transaction (transaction.py) used as   *)
(* an async context manager, the part of MongoTransport.request that puts  *)
(* a command into a transaction and settles its reply                      *)
(* (network/transport.py:117-141), and the transaction the server keeps    *)
(* for the session.                                                        *)
(*                                                                         *)
(* A command is queued while its task waits for a transport, then sent; the *)
(* server may act on it at any later time, or never.  The caller may give  *)
(* up a command at both places (cancellation, time limit, dead socket)     *)
(* without knowing what the server did or will do.                         *)
(***************************************************************************)
EXTENDS Integers, FiniteSets

CONSTANTS
    Txns,      \* Transaction objects of the session
    Ops,       \* commands the blocks run
    Callers,   \* the kinds of program that use the transactions, see caller
    MaxClock,  \* bound: seconds that pass
    MaxGiveUps \* bound: commands the caller gives up

Habits == {"catch", "overlap", "explicit"}

ASSUME CallersAssumption == Callers \subseteq SUBSET Habits
ASSUME BoundsAssumption == MaxClock \in Nat \ {0} /\ MaxGiveUps \in Nat

VARIABLES
    caller,    \* habits of the program: a block handles the exception of a
               \* command and goes on ("catch"); it runs commands concurrently
               \* and may leave them behind ("overlap"); it calls commit() and
               \* abort() itself ("explicit")
    state,     \* Transaction.state
    count,     \* Transaction.action_count
    id,        \* Transaction.id, the txnNumber
    block,     \* where the async with block of the transaction stands
    raised,    \* an exception is on its way out of the block
    want,      \* local variable state of __aexit__, or the command of an explicit call
    ender,     \* the commitTransaction/abortTransaction command under way
    endMsg,    \* its message, then its reply
    opPc,      \* progress of each command at the caller
    opTxn,     \* the transaction argument of the command
    opDoc,     \* what apply_to put into the command's document
    opMsg,     \* its message, then its reply
    clock,     \* time.time() in whole seconds
    giveUps,
    last,      \* the session's highest txnNumber at the server
    status,    \* the state of that transaction at the server
    pending,   \* writes of that transaction
    durable    \* writes that took effect

Catch    == "catch" \in caller
Overlap  == "overlap" \in caller
Explicit == "explicit" \in caller

txnVars  == <<caller, state, count, id, block>>
endVars  == <<want, ender, endMsg>>
opVars   == <<opPc, opTxn, opDoc, opMsg>>
srvVars  == <<last, status, pending, durable>>
envVars  == <<clock, giveUps>>
vars == <<caller, state, count, id, block, raised, want, ender, endMsg, opPc, opTxn, opDoc, opMsg,
          clock, giveUps, last, status, pending, durable>>

None == "none"
\* The document of a command outside any transaction, and inside one.
Plain == [kind |-> "plain", n |-> 0]
Within(n, first) == [kind |-> IF first THEN "start" ELSE "continue", n |-> n]

IsActive(x) == state[x] = "STARTED"
IsEnded(x) == state[x] \in {"COMMITED", "ABORTED"}

\* end(): the first end counts.
End(x, s) == state' = IF IsEnded(x) THEN state ELSE [state EXCEPT ![x] = s]

OpsOf(x) == {o \in Ops : opPc[o] # "new" /\ opTxn[o] = x}
Unfinished(x) == {o \in OpsOf(x) : opPc[o] \in {"queued", "sent"}}
-----------------------------------------------------------------------------
(* The block                                                               *)

Tick ==
    /\ clock < MaxClock
    /\ clock' = clock + 1
    /\ UNCHANGED <<txnVars, raised, endVars, opVars, srvVars, giveUps>>

\* Mutant: start() sets a number below every number in use.
BeginUnnumbered(x) ==
    /\ state' = [state EXCEPT ![x] = "STARTED"]
    /\ id' = [id EXCEPT ![x] = 0]

\* start()
Begin(x) ==
    /\ state' = [state EXCEPT ![x] = "STARTED"]
    /\ id' = [id EXCEPT ![x] = clock]

\* __aenter__.  Blocks of one session follow one another.
Enter(x) ==
    /\ ~IsActive(x) /\ ~IsEnded(x)
    /\ \A y \in Txns : block[y] \notin {"body", "calling", "exiting"}
    /\ Begin(x)
    /\ block' = [block EXCEPT ![x] = "body"]
    /\ UNCHANGED <<caller, count, raised, endVars, opVars, srvVars, envVars>>

\* The block awaits a command with transaction=x.
Issue(o, x) ==
    /\ opPc[o] = "new"
    /\ block[x] = "body"
    /\ ~raised[x]
    /\ Overlap \/ Unfinished(x) = {}
    /\ opPc' = [opPc EXCEPT ![o] = "queued"]
    /\ opTxn' = [opTxn EXCEPT ![o] = x]
    /\ UNCHANGED <<txnVars, raised, endVars, opDoc, opMsg, srvVars, envVars>>

\* Mutant: the session counts the actions, not the transaction.
SendSessionCount(o) ==
    LET x == opTxn[o]
        first == \A p \in Ops : opPc[p] # "returned" IN
    /\ opPc[o] = "queued"
    /\ opPc' = [opPc EXCEPT ![o] = "sent"]
    /\ opDoc' = [opDoc EXCEPT ![o] = IF IsActive(x) THEN Within(id[x], first) ELSE Plain]
    /\ opMsg' = [opMsg EXCEPT ![o] = "request"]
    /\ UNCHANGED <<txnVars, raised, endVars, opTxn, srvVars, envVars>>

\* The transport is there: is_active is read and apply_to runs only now.
Send(o) ==
    LET x == opTxn[o] IN
    /\ opPc[o] = "queued"
    /\ opPc' = [opPc EXCEPT ![o] = "sent"]
    /\ opDoc' = [opDoc EXCEPT ![o] = IF IsActive(x) THEN Within(id[x], count[x] = 0) ELSE Plain]
    /\ opMsg' = [opMsg EXCEPT ![o] = "request"]
    /\ UNCHANGED <<txnVars, raised, endVars, opTxn, srvVars, envVars>>

\* An exception in the block: handled there, or on its way out.
Throw(x) == \/ raised' = [raised EXCEPT ![x] = TRUE]
            \/ Catch /\ UNCHANGED raised

OpReturns(o) ==
    LET x == opTxn[o] IN
    /\ opPc[o] = "sent" /\ opMsg[o] = "ok"
    /\ opPc' = [opPc EXCEPT ![o] = "returned"]
    /\ count' = [count EXCEPT ![x] = @ + 1]
    /\ UNCHANGED <<caller, state, id, block, raised, endVars, opTxn, opDoc, opMsg, srvVars, envVars>>

OpRaises(o) ==
    LET x == opTxn[o] IN
    /\ opPc[o] = "sent" /\ opMsg[o] = "error"
    /\ opPc' = [opPc EXCEPT ![o] = "raised"]
    /\ End(x, "ABORTED")
    /\ Throw(x)
    /\ UNCHANGED <<caller, count, id, block, endVars, opTxn, opDoc, opMsg, srvVars, envVars>>

\* No reply for the caller: nothing of the transaction changes.
GiveUpOp(o) ==
    /\ opPc[o] \in {"queued", "sent"}
    /\ giveUps < MaxGiveUps
    /\ giveUps' = giveUps + 1
    /\ opPc' = [opPc EXCEPT ![o] = "raised"]
    /\ Throw(opTxn[o])
    /\ UNCHANGED <<txnVars, endVars, opTxn, opDoc, opMsg, srvVars, clock>>

\* Mutant: __aexit__ commits whatever happened in the block.
ExitCommits(x) ==
    /\ block[x] = "body"
    /\ Overlap \/ Unfinished(x) = {}
    /\ \/ /\ count[x] # 0 /\ IsActive(x)
          /\ want' = [want EXCEPT ![x] = "COMMITED"]
          /\ ender' = [ender EXCEPT ![x] = "queued"]
          /\ block' = [block EXCEPT ![x] = "exiting"]
          /\ UNCHANGED state
       \/ /\ count[x] = 0 \/ ~IsActive(x)
          /\ End(x, "COMMITED")
          /\ block' = [block EXCEPT ![x] = "left"]
          /\ UNCHANGED <<want, ender>>
    /\ UNCHANGED <<caller, count, id, raised, endMsg, opVars, srvVars, envVars>>

\* Mutant: a transaction of one action is taken for an empty one.
ExitOffByOne(x) ==
    \E exc \in BOOLEAN :
        LET s == IF exc THEN "ABORTED" ELSE "COMMITED" IN
        /\ block[x] = "body"
        /\ raised[x] => exc
        /\ Overlap \/ Unfinished(x) = {}
        /\ \/ /\ count[x] > 1 /\ IsActive(x)
              /\ want' = [want EXCEPT ![x] = s]
              /\ ender' = [ender EXCEPT ![x] = "queued"]
              /\ block' = [block EXCEPT ![x] = "exiting"]
              /\ UNCHANGED state
           \/ /\ count[x] <= 1 \/ ~IsActive(x)
              /\ End(x, s)
              /\ block' = [block EXCEPT ![x] = "left"]
              /\ UNCHANGED <<want, ender>>
        /\ UNCHANGED <<caller, count, id, raised, endMsg, opVars, srvVars, envVars>>

\* __aexit__ up to its first suspension, after an exception (exc) or without.
Exit(x) ==
    \E exc \in BOOLEAN :
        LET s == IF exc THEN "ABORTED" ELSE "COMMITED" IN
        /\ block[x] = "body"
        /\ raised[x] => exc
        /\ Overlap \/ Unfinished(x) = {}
        /\ \/ /\ count[x] # 0 /\ IsActive(x)
              /\ want' = [want EXCEPT ![x] = s]
              /\ ender' = [ender EXCEPT ![x] = "queued"]
              /\ block' = [block EXCEPT ![x] = "exiting"]
              /\ UNCHANGED state
           \/ /\ count[x] = 0 \/ ~IsActive(x)
              /\ End(x, s)
              /\ block' = [block EXCEPT ![x] = "left"]
              /\ UNCHANGED <<want, ender>>
        /\ UNCHANGED <<caller, count, id, raised, endMsg, opVars, srvVars, envVars>>

\* The block calls commit() or abort() of an active transaction itself.
Call(x) ==
    /\ Explicit
    /\ block[x] = "body"
    /\ ~raised[x]
    /\ IsActive(x)
    /\ Overlap \/ Unfinished(x) = {}
    /\ \E s \in {"COMMITED", "ABORTED"} : want' = [want EXCEPT ![x] = s]
    /\ ender' = [ender EXCEPT ![x] = "queued"]
    /\ block' = [block EXCEPT ![x] = "calling"]
    /\ UNCHANGED <<caller, state, count, id, raised, endMsg, opVars, srvVars, envVars>>

SendEnd(x) ==
    /\ ender[x] = "queued"
    /\ ender' = [ender EXCEPT ![x] = "sent"]
    /\ endMsg' = [endMsg EXCEPT ![x] = want[x]]
    /\ UNCHANGED <<txnVars, raised, want, opVars, srvVars, envVars>>

\* commit() or abort() returns; only __aexit__ then calls end().
EndReturns(x) ==
    /\ ender[x] = "sent" /\ endMsg[x] = "ok"
    /\ ender' = [ender EXCEPT ![x] = None]
    /\ \/ /\ block[x] = "exiting"
          /\ End(x, want[x])
          /\ block' = [block EXCEPT ![x] = "left"]
       \/ /\ block[x] = "calling"
          /\ block' = [block EXCEPT ![x] = "body"]
          /\ UNCHANGED state
    /\ UNCHANGED <<caller, count, id, raised, want, endMsg, opVars, srvVars, envVars>>

\* Mutant: a commit that fails in __aexit__ marks the transaction aborted.
EndFailsAborted(x) ==
    /\ ender' = [ender EXCEPT ![x] = None]
    /\ \/ /\ block[x] = "exiting"
          /\ block' = [block EXCEPT ![x] = "left"]
          /\ End(x, "ABORTED")
          /\ UNCHANGED raised
       \/ /\ block[x] = "calling"
          /\ block' = [block EXCEPT ![x] = "body"]
          /\ Throw(x)
          /\ UNCHANGED state
    /\ UNCHANGED <<caller, count, id, want, endMsg, opVars, srvVars, clock>>

\* The command's exception leaves __aexit__ before end(), or is the block's.
EndFails(x) ==
    /\ ender' = [ender EXCEPT ![x] = None]
    /\ \/ /\ block[x] = "exiting"
          /\ block' = [block EXCEPT ![x] = "left"]
          /\ UNCHANGED raised
       \/ /\ block[x] = "calling"
          /\ block' = [block EXCEPT ![x] = "body"]
          /\ Throw(x)
    /\ UNCHANGED <<caller, state, count, id, want, endMsg, opVars, srvVars, clock>>

EndRaises(x) ==
    /\ ender[x] = "sent" /\ endMsg[x] = "error"
    /\ EndFails(x)
    /\ UNCHANGED giveUps

GiveUpEnd(x) ==
    /\ ender[x] \in {"queued", "sent"}
    /\ giveUps < MaxGiveUps
    /\ giveUps' = giveUps + 1
    /\ EndFails(x)
-----------------------------------------------------------------------------
(* The server                                                              *)

Reply(o, r) == opMsg' = [opMsg EXCEPT ![o] = r]

\* A statement of a transaction that fails takes the transaction with it.
ServeOp(o) ==
    LET d == opDoc[o] IN
    /\ opMsg[o] = "request"
    /\ \/ /\ d.kind = "plain"
          /\ \/ Reply(o, "ok") /\ durable' = durable \cup {o}
             \/ Reply(o, "error") /\ UNCHANGED durable
          /\ UNCHANGED <<last, status, pending>>
       \/ /\ d.kind = "start" /\ d.n > last
          /\ last' = d.n
          /\ \/ Reply(o, "ok") /\ status' = "active" /\ pending' = {o}
             \/ Reply(o, "error") /\ status' = "aborted" /\ pending' = {}
          /\ UNCHANGED durable
       \/ /\ d.kind = "continue" /\ d.n = last /\ status = "active"
          /\ \/ Reply(o, "ok") /\ pending' = pending \cup {o} /\ UNCHANGED status
             \/ Reply(o, "error") /\ status' = "aborted" /\ pending' = {}
          /\ UNCHANGED <<last, durable>>
       \/ /\ \/ d.kind = "start" /\ d.n <= last
             \/ d.kind = "continue" /\ (d.n # last \/ status # "active")
          /\ Reply(o, "error")
          /\ UNCHANGED srvVars
    /\ UNCHANGED <<txnVars, raised, endVars, opPc, opTxn, opDoc, envVars>>

\* commitTransaction or abortTransaction; a commit may be sent again.
ServeEnd(x) ==
    LET open == id[x] = last /\ status = "active" IN
    /\ \/ /\ endMsg[x] = "COMMITED" /\ open
          /\ \/ /\ endMsg' = [endMsg EXCEPT ![x] = "ok"]
                /\ status' = "committed"
                /\ durable' = durable \cup pending
             \/ /\ endMsg' = [endMsg EXCEPT ![x] = "error"]
                /\ status' = "aborted"
                /\ UNCHANGED durable
          /\ pending' = {}
       \/ /\ endMsg[x] = "COMMITED" /\ ~open
          /\ endMsg' = [endMsg EXCEPT ![x] =
                            IF id[x] = last /\ status = "committed" THEN "ok" ELSE "error"]
          /\ UNCHANGED <<status, pending, durable>>
       \/ /\ endMsg[x] = "ABORTED"
          /\ endMsg' = [endMsg EXCEPT ![x] = IF open THEN "ok" ELSE "error"]
          /\ status' = IF open THEN "aborted" ELSE status
          /\ pending' = IF open THEN {} ELSE pending
          /\ UNCHANGED durable
    /\ UNCHANGED <<txnVars, raised, want, ender, opVars, last, envVars>>

\* The server ends a transaction that was left open too long.
Expire ==
    /\ status = "active"
    /\ status' = "aborted"
    /\ pending' = {}
    /\ UNCHANGED <<txnVars, raised, endVars, opVars, last, durable, envVars>>
-----------------------------------------------------------------------------
Init ==
    /\ caller \in Callers
    /\ state = [x \in Txns |-> "NONE"]
    /\ count = [x \in Txns |-> 0]
    /\ id = [x \in Txns |-> -1]
    /\ block = [x \in Txns |-> "outside"]
    /\ raised = [x \in Txns |-> FALSE]
    /\ want = [x \in Txns |-> None]
    /\ ender = [x \in Txns |-> None]
    /\ endMsg = [x \in Txns |-> None]
    /\ opPc = [o \in Ops |-> "new"]
    /\ opTxn = [o \in Ops |-> None]
    /\ opDoc = [o \in Ops |-> Plain]
    /\ opMsg = [o \in Ops |-> None]
    /\ clock = 1
    /\ giveUps = 0
    /\ last = 0
    /\ status = None
    /\ pending = {}
    /\ durable = {}

ClientStep(x) ==
    \/ SendEnd(x) \/ EndReturns(x) \/ EndRaises(x) \/ GiveUpEnd(x)

OpStep(o) == Send(o) \/ OpReturns(o) \/ OpRaises(o) \/ GiveUpOp(o)

Next ==
    \/ Tick \/ Expire
    \/ \E x \in Txns : Enter(x) \/ Exit(x) \/ Call(x) \/ ClientStep(x) \/ ServeEnd(x)
    \/ \E o \in Ops, x \in Txns : Issue(o, x)
    \/ \E o \in Ops : OpStep(o) \/ ServeOp(o)

Spec == Init /\ [][Next]_vars

\* Tasks that can run do, and the server answers what reached it.
Fairness ==
    /\ \A x \in Txns : WF_vars(ClientStep(x)) /\ WF_vars(ServeEnd(x))
    /\ \A o \in Ops : WF_vars(OpStep(o)) /\ WF_vars(ServeOp(o))

FairSpec == Spec /\ Fairness
-----------------------------------------------------------------------------
(* Correctness                                                             *)

TxnStates == {"NONE", "STARTED", "COMMITED", "ABORTED"}

\* Every variable keeps its type (transaction.py:38-69).
TypeOK ==
    /\ caller \in Callers
    /\ state \in [Txns -> TxnStates]
    /\ count \in [Txns -> Nat]
    /\ id \in [Txns -> {-1} \cup 1..MaxClock]
    /\ block \in [Txns -> {"outside", "body", "calling", "exiting", "left"}]
    /\ raised \in [Txns -> BOOLEAN]
    /\ want \in [Txns -> {None, "COMMITED", "ABORTED"}]
    /\ ender \in [Txns -> {None, "queued", "sent"}]
    /\ endMsg \in [Txns -> {None, "COMMITED", "ABORTED", "ok", "error"}]
    /\ opPc \in [Ops -> {"new", "queued", "sent", "returned", "raised"}]
    /\ opTxn \in [Ops -> Txns \cup {None}]
    /\ opDoc \in [Ops -> [kind : {"plain", "start", "continue"}, n : 0..MaxClock]]
    /\ opMsg \in [Ops -> {None, "request", "ok", "error"}]
    /\ clock \in 1..MaxClock
    /\ giveUps \in 0..MaxGiveUps
    /\ last \in 0..MaxClock
    /\ status \in {None, "active", "committed", "aborted"}
    /\ pending \subseteq Ops
    /\ durable \subseteq Ops

\* The effects a transaction has: all of its commands or none.  A block that
\* runs one command after the other and lets exceptions out is atomic whatever
\* is refused, lost, late or begun in the same second (README.md:176).
AllOrNothing ==
    caller = {} => \A x \in Txns : OpsOf(x) \cap durable \in {{}, OpsOf(x)}

\* COMMITED means that every command of the block that returned took effect,
\* even where the block handles some failures (transaction.py:109-116).
CommittedIsDurable ==
    ~Overlap => \A x \in Txns : block[x] = "left" /\ state[x] = "COMMITED" =>
        {o \in OpsOf(x) : opPc[o] = "returned"} \subseteq durable

\* ABORTED means that nothing sent as part of the transaction took effect, not
\* even a command whose reply was lost (transaction.py:61-69 and 109-116).
AbortedHasNoEffect ==
    caller \subseteq {"catch"} => \A x \in Txns : state[x] = "ABORTED" =>
        {o \in OpsOf(x) : opDoc[o].kind # "plain"} \cap durable = {}

\* A server transaction holds the commands of one Transaction object, though
\* objects that start in the same second carry the same number
\* (transaction.py:59 and 121-126).
NoMixing == \A o, p \in pending : opTxn[o] = opTxn[p]

\* Every command of a block takes effect as part of its transaction, if at all
\* (README.md:176, "ACID transactions for operations that require atomicity").
NoEffectOutside ==
    \A x \in Txns : \A o \in OpsOf(x) : o \in durable => opDoc[o].kind # "plain"

\* The server still holds a transaction of x, or what it takes for one.
OpenAtServer(x) == id[x] = last /\ status = "active"

\* When a block is left and the object says COMMITED or ABORTED, the server does
\* not hold the transaction open: it was committed "on successful exit" and, "if
\* an exception occurs", aborted (README.md:185-186, transaction.py:109-116).
LeftIsSettled ==
    [][\A x \in Txns : block[x] # "left" /\ block'[x] = "left" /\ IsEnded(x)'
          => ~OpenAtServer(x)']_vars
=============================================================================
