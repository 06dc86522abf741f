----------------------------- MODULE BulkWrite -----------------------------
(***************************************************************************)
(* Writes: the Update and Delete models (models/operations.py) in both     *)
(* forms they are sent in, what a server makes of a sequence of them, and  *)
(* BulkWriteBuilder (bulk_write_builder.py).                               *)
(*                                                                         *)
(* A database is a function from the names of its collections to their     *)
(* contents.  A document is its _id (0 for one the server chose) and a     *)
(* value; a validator admits the value "good".  A filter is a value.  The  *)
(* value stands for the document as it is sent: insert_one and insert_many *)
(* put a field id in (collection.py:143, 186), add_insert not.             *)
(*                                                                         *)
(* build() returns the builder's own list of operations and a copy of its  *)
(* namespaces.  The list is encoded when the request has its transport,    *)
(* so what is added in between goes out too.                               *)
(***************************************************************************)
EXTENDS Integers, Sequences, FiniteSets

CONSTANTS Names \* names of collections

\* What a program says: insert a document; Update(q, u, multi, upsert);
\* Delete(q, limit).
InsertOp(id, v) == [op |-> "insert", id |-> id, v |-> v, q |-> v, multi |-> FALSE,
                    upsert |-> FALSE, limit |-> 0]
UpdateOp(q, v, multi, upsert) ==
    [op |-> "update", id |-> 0, v |-> v, q |-> q, multi |-> multi, upsert |-> upsert, limit |-> 0]
DeleteOp(q, limit) == [op |-> "delete", id |-> 0, v |-> q, q |-> q, multi |-> FALSE,
                       upsert |-> FALSE, limit |-> limit]

\* All there are; v and q are what a validator and a filter tell apart.
Forms == [op : {"insert", "update", "delete"}, id : Nat, v : {"good", "bad"}, q : {"good", "bad"},
          multi : BOOLEAN, upsert : BOOLEAN, limit : Int]

\* to_dict; a server only takes the limits 0 and 1.
ToWrite(w) == [w EXCEPT !.multi = IF w.op = "delete" THEN w.limit = 0 ELSE @]
Refused(w) == w.op = "delete" /\ w.limit \notin {0, 1}

\* as_bulk_write_op has no upsert, and any limit but 1 is `multi`.
AsBulkWriteOp(w) == [w EXCEPT !.multi = IF w.op = "delete" THEN w.limit # 1 ELSE @,
                              !.upsert = FALSE]

-----------------------------------------------------------------------------
(* The server (external)                                                   *)

NewCollection == [validator |-> FALSE, docs |-> <<>>, indexes |-> {}]
Put(db, ns, c) == [n \in DOMAIN db \cup {ns} |-> IF n = ns THEN c ELSE db[n]]
Drop(db, ns) == [n \in DOMAIN db \ {ns} |-> db[n]]
Contents(db, ns) == IF ns \in DOMAIN db THEN db[ns] ELSE NewCollection

\* The places an update or a delete applies to: every match, or the first.
Hits(docs, w) ==
    LET match == {i \in DOMAIN docs : docs[i].v = w.q}
    IN  IF w.multi THEN match ELSE {i \in match : \A j \in match : i <= j}

Insert(c, id, v) == [c EXCEPT !.docs = Append(@, [id |-> id, v |-> v])]
Done(db, n) == [db |-> db, n |-> n, failed |-> {}]
Failed(db, i) == [db |-> db, n |-> 0, failed |-> {i}]

\* One write in the namespace ns, the i-th of its command.  Level "moderate":
\* the validator does not look at documents that were invalid before.
Apply(db, ns, w, i) ==
    LET c == Contents(db, ns)
        hits == Hits(c.docs, w)
        rest == SelectSeq([k \in DOMAIN c.docs |-> [at |-> k, doc |-> c.docs[k]]],
                          LAMBDA e : e.at \notin hits)
        invalid == c.validator /\ w.v = "bad"
        taken == w.id # 0 /\ \E k \in DOMAIN c.docs : c.docs[k].id = w.id
    IN  CASE w.op = "insert" ->
                IF invalid \/ taken THEN Failed(db, i)
                ELSE Done(Put(db, ns, Insert(c, w.id, w.v)), 1)
          [] w.op = "update" /\ hits = {} ->
                IF ~w.upsert THEN Done(db, 0)
                ELSE IF invalid THEN Failed(db, i)
                ELSE Done(Put(db, ns, Insert(c, 0, w.v)), 0)
          [] w.op = "update" /\ hits # {} ->
                IF invalid /\ w.q # "bad" THEN Failed(db, i)
                ELSE Done(Put(db, ns, [c EXCEPT !.docs =
                        [k \in DOMAIN @ |-> IF k \in hits THEN [@[k] EXCEPT !.v = w.v] ELSE @[k]]]),
                          IF w.v = w.q THEN 0 ELSE Cardinality(hits))
          [] w.op = "delete" ->
                IF hits = {} THEN Done(db, 0)
                ELSE Done(Put(db, ns, [c EXCEPT !.docs = [k \in DOMAIN rest |-> rest[k].doc]]),
                          Cardinality(hits))

\* The i-th write of a command, after the others gave r; an ordered command
\* stops at an error.
AfterWrite(r, ns, w, i, ordered) ==
    IF ordered /\ r.failed # {} THEN r
    ELSE LET one == Apply(r.db, ns, w, i)
         IN  [one EXCEPT !.n = @ + r.n, !.failed = @ \cup r.failed]

\* The writes of one command, in order.
ApplyAll(db, places, ws, ordered) ==
    LET after[i \in 0..Len(ws)] ==
            IF i = 0 THEN Done(db, 0)
            ELSE AfterWrite(after[i - 1], places[i], ws[i], i, ordered)
    IN  after[Len(ws)]
-----------------------------------------------------------------------------
(* The builder                                                             *)

VARIABLES
    operations, \* _operations: index of the namespace, the write; ns is what it was added with
    namespaces  \* _namespaces

builderVars == <<operations, namespaces>>

\* Mutant: a new namespace goes to the front of the list.
WithNamespaceFirst(ns) ==
    IF \E i \in DOMAIN namespaces : namespaces[i] = ns THEN namespaces ELSE <<ns>> \o namespaces

\* _get_ns_idx; sequences begin at 1 here.
WithNamespace(ns) ==
    IF \E i \in DOMAIN namespaces : namespaces[i] = ns THEN namespaces ELSE Append(namespaces, ns)

IndexOf(ns) == CHOOSE i \in DOMAIN WithNamespace(ns) : WithNamespace(ns)[i] = ns

\* add_insert, one document at a time, add_update and add_delete.
Add(w, ns) ==
    /\ namespaces' = WithNamespace(ns)
    /\ operations' = Append(operations, [index |-> IndexOf(ns), ns |-> ns, write |-> w])

Build == namespaces

\* What goes out for a build whose nsInfo is info: refused as a whole when an
\* index is beyond the namespaces.
Resolved(info) == \A i \in DOMAIN operations : operations[i].index \in DOMAIN info
BulkWrites == [i \in DOMAIN operations |-> AsBulkWriteOp(operations[i].write)]
Places(info) == [i \in DOMAIN operations |-> info[operations[i].index]]

BuilderInit == operations = <<>> /\ namespaces = <<>>
=============================================================================
