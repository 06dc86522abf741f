---------------------------- MODULE MCCollection ----------------------------
(* The calls and writes of the program, for TLC.                           *)
EXTENDS Collection

A == Wanted
B == CHOOSE n \in Names : n # A

Inserts(ns, ws, ordered) == [CallOf("insert", ns) EXCEPT !.ws = ws, !.flag = ordered]
Good == InsertOp(0, "good")
Bad == InsertOp(0, "bad")
Own == InsertOp(1, "good")

MCWrites == {Own, UpdateOp("good", "bad", TRUE, FALSE), UpdateOp("bad", "good", FALSE, TRUE),
             DeleteOp("good", 0), DeleteOp("bad", 2)}

\* No collection, or one whose validator came after an invalid document.
MCDatabases ==
    {<<>>, [n \in {A} |-> [validator |-> TRUE, indexes |-> {"i"},
                           docs |-> <<[id |-> 0, v |-> "good"], [id |-> 0, v |-> "bad"]>>]]}

MCCalls ==
    {CallOf(f, A) : f \in {"create_if_not_exists", "with_options", "create_collection",
                           "set_validator", "clear", "bulk_write", "count", "drop",
                           "drop_database", "list_indexes"}}
    \cup {Inserts(A, <<Good, Bad, Own>>, TRUE), Inserts(A, <<Bad, Own>>, FALSE)}
    \cup {[CallOf("update", A) EXCEPT !.ws = <<UpdateOp("good", "bad", TRUE, FALSE)>>, !.flag = TRUE]}
    \cup {[CallOf("delete", A) EXCEPT !.ws = <<DeleteOp("good", l)>>, !.flag = TRUE] : l \in {1, 2}}
    \cup {[CallOf("rename_collection", A) EXCEPT !.to = B, !.flag = drop] : drop \in BOOLEAN}
    \cup {[CallOf(f, A) EXCEPT !.n = n] : f \in {"convert_to_capped", "create_indexes"}, n \in {0, 1}}
    \cup {[CallOf("drop_indexes", A) EXCEPT !.flag = all] : all \in BOOLEAN}
=============================================================================
