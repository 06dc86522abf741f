----------------------------- MODULE MCConnect -----------------------------
(* Two nodes that take different compressors, users in two databases, and  *)
(* the ways to make a client, for TLC.                                     *)
EXTENDS Connect, TLC

CONSTANTS n1, n2

User(name, db) == [user |-> name, db |-> db]
Known(secret, count) == [mechs |-> {"SCRAM-SHA-1", "SCRAM-SHA-256"}, secret |-> secret, count |-> count]

MCUsers == (User("ann", "admin") :> Known("old", 15000)) @@ (User("ann", "app") :> Known("old", 4096))
MCEdits == {Known("new", 15000)}

MCOffers == [n \in Nodes |-> IF n = n1 THEN {"zlib", "zstd"} ELSE {"zstd"}]
MCNames == (13 :> "Unauthorized") @@ (18 :> "AuthenticationFailed")
    @@ (10107 :> "NotWritablePrimary") @@ (121 :> "DocumentValidationFailure")

\* The table lacks 100000; a reply with writeErrors has no code of its own.
Refusal(code, labels, errors) ==
    [ok |-> errors # <<>>, code |-> code, codeName |-> "NoName", labels |-> labels, errors |-> errors]
WriteError(code) == [code |-> code, labels |-> {}]
MCReplies == {Refusal(100000, {"TransientTransactionError"}, <<>>),
              Refusal(None, {}, <<WriteError(100000), WriteError(121)>>)}

MCPrograms ==
    {Program("uri", n, "ann", p, "app", <<"zlib", "zstd">>) : n \in Nodes, p \in {"old", "new"}}
    \cup {Program("parts", n2, "ann", "old", db, <<"snappy">>) : db \in {None, "app"}}
    \cup {Program("environ", n1, u, p, None, <<>>) : u \in {"ann", "", None}, p \in {"old", None}}

\* The transports of a pool are all alike.
Symmetry == Permutations(Conns)
=============================================================================
