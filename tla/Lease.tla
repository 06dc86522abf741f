-------------------------------- MODULE Lease --------------------------------
(***************************************************************************)
(* What the connection pool of client.py promises: a transport is leased   *)
(* to one call at a time, a call that gives it back has finished the       *)
(* handshake on it, and only a transport whose handshake was never         *)
(* finished can fall out of the pool through a failing call.               *)
(***************************************************************************)
\* Free and Gone are two owners that are not tasks.
CONSTANTS Tasks, Conns, Free, Gone

VARIABLES
    owner,  \* who has each transport: a task, the pool, or nobody any more
    busy,   \* tasks with a call under way
    proven  \* transports that finished the handshake and are still in use

leaseVars == <<owner, busy, proven>>

Holds(t, c) == owner[c] = t
HoldsNone(t) == \A c \in Conns : ~Holds(t, c)

Grant(t) == \E c \in Conns : owner[c] = Free /\ owner' = [owner EXCEPT ![c] = t]

\* A call begins; it may get a transport at once.
Begin(t) ==
    /\ t \notin busy
    /\ busy' = busy \cup {t}
    /\ Grant(t) \/ UNCHANGED owner
    /\ UNCHANGED proven

\* A waiting call gets a transport.
Obtain(t) ==
    /\ t \in busy
    /\ HoldsNone(t)
    /\ Grant(t)
    /\ UNCHANGED <<busy, proven>>

\* The handshake on a leased transport is complete.
Prove(t) ==
    \E c \in Conns :
        /\ Holds(t, c)
        /\ proven' = proven \cup {c}
        /\ UNCHANGED <<owner, busy>>

\* A call ends, whatever its result, and the transport is free again.
Return(t) ==
    \E c \in proven :
        /\ Holds(t, c)
        /\ owner' = [owner EXCEPT ![c] = Free]
        /\ busy' = busy \ {t}
        /\ UNCHANGED proven

\* A call fails on a transport that never got through the handshake.
Drop(t) ==
    \E c \in Conns \ proven :
        /\ Holds(t, c)
        /\ owner' = [owner EXCEPT ![c] = Gone]
        /\ busy' = busy \ {t}
        /\ UNCHANGED proven

\* A call is cancelled before it gets a transport.
Withdraw(t) ==
    /\ t \in busy
    /\ HoldsNone(t)
    /\ busy' = busy \ {t}
    /\ UNCHANGED <<owner, proven>>

\* The client closes free transports.
Close ==
    \E S \in SUBSET {c \in Conns : owner[c] = Free} :
        /\ owner' = [c \in Conns |-> IF c \in S THEN Gone ELSE owner[c]]
        /\ proven' = proven \ S
        /\ UNCHANGED busy

LeaseInit ==
    /\ owner = [c \in Conns |-> Free]
    /\ busy = {}
    /\ proven = {}

LeaseNext ==
    \/ \E t \in Tasks :
        Begin(t) \/ Obtain(t) \/ Prove(t) \/ Return(t) \/ Drop(t) \/ Withdraw(t)
    \/ Close

LeaseSpec == LeaseInit /\ [][LeaseNext]_leaseVars
=============================================================================
