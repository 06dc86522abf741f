------------------------------- MODULE Bucket -------------------------------
(***************************************************************************)
(* What a GridFS bucket promises its callers: a file is put at one moment  *)
(* and taken away at one later moment, each for good; and every call that  *)
(* comes back with a result has met the bucket at one moment of its own,   *)
(* between its beginning and its end, that bears the result out.  A call   *)
(* that raises has done so too, or not, or still will.                     *)
(***************************************************************************)
\* NoId stands for the file of a call that is about no file in particular.
CONSTANTS Procs, Ids, NoId

VARIABLES
    listed, \* the files that are there
    gone,   \* the files that were
    call,   \* what each caller is at: the operation, its file, what it met
    owed,   \* what calls that raised may still do
    result  \* how each caller's last call ended

bucketVars == <<listed, gone, call, owed, result>>

Call(o, f, s) == [op |-> o, id |-> f, met |-> s]
NoCall == Call("none", NoId, "nothing")
Work(o, f) == [op |-> o, id |-> f]

\* A put makes an id nobody has used.
Unheard(f) ==
    /\ f \notin listed \cup gone
    /\ Work("put", f) \notin owed
    /\ \A p \in Procs : ~(call[p].op = "put" /\ call[p].id = f)

Begin(p) ==
    /\ call[p] = NoCall
    /\ \E f \in Ids \cup {NoId}, o \in {"put", "get", "delete", "drop"} :
        /\ o = "put" => f \in Ids /\ Unheard(f)
        /\ o = "delete" => f \in Ids
        /\ o = "drop" => f = NoId
        /\ call' = [call EXCEPT ![p] = Call(o, f, "nothing")]
    /\ UNCHANGED <<listed, gone, owed, result>>

\* A call that fails before it asks for anything.
Reject(p) ==
    /\ call[p] = NoCall
    /\ result' = [result EXCEPT ![p] = "raised"]
    /\ UNCHANGED <<listed, gone, call, owed>>

\* What an operation does to the bucket.
Effect(o, f) ==
    \/ /\ o = "put"
       /\ f \notin listed \cup gone
       /\ listed' = listed \cup {f}
       /\ UNCHANGED gone
    \/ /\ o = "delete"
       /\ listed' = listed \ {f}
       /\ gone' = gone \cup (listed \cap {f})
    \/ /\ o = "drop"
       /\ listed' = {}
       /\ gone' = gone \cup listed
    \/ o = "get" /\ UNCHANGED <<listed, gone>>

\* The moment of a call.
Meet(p) ==
    LET o == call[p].op
        f == call[p].id IN
    /\ o # "none"
    /\ call[p].met = "nothing"
    /\ Effect(o, f)
    /\ \E s \in {"there", "absent"} :
        /\ s = "there" <=> o \in {"put", "drop"} \/ f \in listed
        /\ o = "get" /\ f = NoId => listed = {}
        /\ call' = [call EXCEPT ![p] = Call(o, f, s)]
    /\ UNCHANGED <<owed, result>>

\* A get by name settles on one of the files there.
Resolve(p) ==
    /\ call[p] = Call("get", NoId, "nothing")
    /\ \E f \in listed : call' = [call EXCEPT ![p] = Call("get", f, "nothing")]
    /\ UNCHANGED <<listed, gone, owed, result>>

\* The results that what a call met bears out.
Bears(c, r) ==
    \/ c.op = "put" /\ c.met = "there" /\ r = "stored"
    \/ c.op = "get" /\ c.met = "there" /\ r \in {"read", "mismatch"}
    \/ c.op = "get" /\ c.met = "absent" /\ r = "notFound"
    \/ c.op = "delete" /\ c.met = "there" /\ r = "deleted"
    \/ c.op = "delete" /\ c.met = "absent" /\ r = "notDeleted"
    \/ c.op = "drop" /\ c.met = "there" /\ r = "dropped"

Return(p) ==
    /\ \E r \in {"stored", "read", "mismatch", "notFound", "deleted", "notDeleted", "dropped"} :
        /\ Bears(call[p], r)
        /\ result' = [result EXCEPT ![p] = r]
    /\ call' = [call EXCEPT ![p] = NoCall]
    /\ UNCHANGED <<listed, gone, owed>>

\* What a call leaves to be done when it has not had its moment.
Left(c) ==
    {Work(o, c.id) : o \in {"put", "delete", "drop"} \cap
                           (IF c.met = "nothing" THEN {c.op} ELSE {})}

Raise(p) ==
    /\ call[p].op # "none"
    /\ call' = [call EXCEPT ![p] = NoCall]
    /\ result' = [result EXCEPT ![p] = "raised"]
    /\ owed' \in {owed, owed \cup Left(call[p])}
    /\ UNCHANGED <<listed, gone>>

\* The bucket gets round to what a call that raised had asked for.
Late ==
    /\ \E w \in owed : Effect(w.op, w.id) /\ owed' = owed \ {w}
    /\ UNCHANGED <<call, result>>

BucketInit ==
    /\ listed = {}
    /\ gone = {}
    /\ call = [p \in Procs |-> NoCall]
    /\ owed = {}
    /\ result = [p \in Procs |-> "none"]

BucketNext ==
    \/ \E p \in Procs :
        Begin(p) \/ Reject(p) \/ Meet(p) \/ Resolve(p) \/ Return(p) \/ Raise(p)
    \/ Late

BucketSpec == BucketInit /\ [][BucketNext]_bucketVars
=============================================================================
