------------------------------ MODULE Documents ------------------------------
(***************************************************************************)
(* A Document class on its way through a program and a collection: its     *)
(* schema is generated and set as the validator, instances are created,    *)
(* assigned to, inserted and read back, and other programs write too.      *)
(***************************************************************************)
EXTENDS Schema

CONSTANTS
    Classes,   \* name of a class -> its fields, as in Schema
    Samples,   \* name of a class -> the values a program tries for its fields
    MaxStored, \* bound: documents in the collection
    MaxAssigns \* bound: assignments to an instance

ASSUME ClassesAssumption ==
    /\ DOMAIN Classes = DOMAIN Samples
    /\ MaxStored \in Nat /\ MaxAssigns \in Nat

VARIABLES
    class,    \* the class in use
    extraOk,  \* SchemaGenerator.additional_properties
    schema,   \* what generate returned: <<>>, or <<schema>>
    raised,   \* generate raised
    validator,\* the collection's validator: <<>>, or <<schema>>
    doc,      \* an instance of the program: <<>>, or <<Document>>
    assigns,
    stored,   \* the documents of the collection, oldest first
    origin,   \* for each of them, the instance it was made of, <<>> for another program's
    answer    \* of the last insert or read

vars == <<class, extraOk, schema, raised, validator, doc, assigns, stored, origin, answer>>
genVars == <<class, extraOk, schema, raised>>

Cls == Classes[class]
\* An extra field, and the field insert_one adds to a document without it.
Note == "note"
Id == "id"
\* ObjectIds: 1 by the program, 2 the value of Id, the others by the server.
ObjectId(n) == Value("ObjectId", n)
-----------------------------------------------------------------------------
(* The program                                                             *)

GenerateSchema ==
    /\ schema = <<>> /\ ~raised
    /\ IF Generable(Cls)
       THEN schema' = <<Generate(Cls, extraOk)>> /\ UNCHANGED raised
       ELSE raised' = TRUE /\ UNCHANGED schema
    /\ UNCHANGED <<class, extraOk, validator, doc, assigns, stored, origin, answer>>

\* collMod; documents that are there already are not looked at.
SetValidator ==
    /\ schema # <<>> /\ validator = <<>> /\ TakesSchema(schema[1])
    /\ validator' = schema
    /\ UNCHANGED <<genVars, doc, assigns, stored, origin, answer>>

\* Keyword arguments for some of the fields, and perhaps one that is not declared.
Arguments ==
    UNION {[present -> Samples[class]] : present \in
        {DOMAIN Cls \ d : d \in {{}} \cup {{k} : k \in DOMAIN Cls}}}

\* Bound: instances are created while nothing is stored, and other programs
\* write while the program holds none; the two do not meet in the code.
Create ==
    /\ doc = <<>> /\ stored = <<>>
    /\ \E given \in Arguments, more \in {None0, Note :> None} :
        LET new == ParseDocument(Cls, more @@ given)
        IN  new # Bad /\ doc' = <<new>>
    /\ assigns' = 0 /\ answer' = "none"
    /\ UNCHANGED <<genVars, validator, stored, origin>>

\* validate_assignment
Assign(k, v) ==
    LET new == Parse(Cls[k].ann, v)
    IN  /\ doc # <<>> /\ assigns < MaxAssigns
        /\ new # Bad /\ WithinLimits(Cls[k].meta, new)
        /\ doc' = <<[doc[1] EXCEPT !.fields[k] = new]>>
        /\ assigns' = assigns + 1
        /\ UNCHANGED <<genVars, validator, stored, origin, answer>>

WithId ==
    /\ doc # <<>> /\ doc[1].n = 0
    /\ doc' = <<[doc[1] EXCEPT !.n = 1]>>
    /\ UNCHANGED <<genVars, validator, assigns, stored, origin, answer>>

\* What insert_one and insert_many send: to_dict and setdefault("id", ObjectId()).
Insertable(d) == ToDict(Cls, d) @@ Id :> ObjectId(2)

\* The server gives a document without _id one of its own.
AsStored(dict) == Encode(Object(dict @@ "_id" :> ObjectId(3 + Len(stored))))
AsRead(v) == ParseDocument(Cls, v.fields)
Admits(v) == validator # <<>> => Validates(v, validator[1])

Insert ==
    /\ doc # <<>> /\ Len(stored) < MaxStored
    /\ LET dict == Insertable(doc[1])
           new == AsStored(dict)
       IN  IF ~Encodable(Object(dict)) THEN
               answer' = "unencodable" /\ UNCHANGED <<stored, origin>>
           ELSE IF ~Admits(new) THEN
               answer' = "refused" /\ UNCHANGED <<stored, origin>>
           ELSE /\ answer' = "stored"
                /\ stored' = Append(stored, new)
                /\ origin' = Append(origin, doc)
    /\ doc' = <<>>
    /\ UNCHANGED <<genVars, validator, assigns>>

\* Another program stores a dictionary of its own.
PutRaw ==
    /\ doc = <<>> /\ Len(stored) < MaxStored
    /\ \E given \in Arguments, more \in {None0, Note :> None} :
        LET new == AsStored(more @@ given)
        IN  /\ Encodable(Object(given)) /\ Admits(new)
            /\ stored' = Append(stored, new)
            /\ origin' = Append(origin, <<>>)
    /\ UNCHANGED <<genVars, validator, doc, assigns, answer>>

\* find_one(cls=...), once the reply is there: from_document or its exception.
Read ==
    /\ doc = <<>>
    /\ \E i \in DOMAIN stored :
        LET new == AsRead(stored[i])
        IN  IF new = Bad THEN answer' = "unreadable" /\ UNCHANGED doc
            ELSE doc' = <<new>> /\ answer' = "read"
    /\ UNCHANGED <<genVars, validator, assigns, stored, origin>>

\* Collection.clear
Clear ==
    /\ stored # <<>>
    /\ stored' = <<>> /\ origin' = <<>>
    /\ UNCHANGED <<genVars, validator, doc, assigns, answer>>

Init ==
    /\ class \in DOMAIN Classes
    /\ extraOk \in BOOLEAN
    /\ schema = <<>> /\ raised = FALSE /\ validator = <<>>
    /\ doc = <<>> /\ assigns = 0
    /\ stored = <<>> /\ origin = <<>> /\ answer = "none"

Next ==
    \/ GenerateSchema
    \/ SetValidator
    \/ Create
    \/ \E k \in DOMAIN Cls, v \in Samples[class] : Assign(k, v)
    \/ WithId
    \/ Insert
    \/ PutRaw
    \/ Clear
    \/ Read

Spec == Init /\ [][Next]_vars
-----------------------------------------------------------------------------
(* Properties                                                              *)

\* Where the schema and the class disagree by the code:
\*  - a None field of ExcludeIfNone is left out, and yet required;
\*  - unique_items, and a max_items of 0, reach the schema and not pydantic;
\*  - a UUID inside a list or a dict is not made a Binary;
\*  - a default is not validated: the member of an Enum stays a member.
EnforcedMeta(meta) ==
    /\ "unique_items" \notin DOMAIN meta
    /\ "max_items" \in DOMAIN meta => meta["max_items"] # 0

RECURSIVE Plain(_), PlainDocument(_, _)
Plain(v) ==
    /\ v.t # "member"
    /\ v.t \in {"list", "dict"} =>
        \A x \in ValuesOf(v.items) \cup ValuesOf(v.fields) : x.t # "UUID" /\ Plain(x)
PlainDocument(cls, d) ==
    \A k \in DOMAIN cls :
        /\ ~(cls[k].exclude /\ d.fields[k] = None)
        /\ EnforcedMeta(cls[k].meta)
        /\ Plain(d.fields[k])
        /\ cls[k].ann.k = "document" => PlainDocument(cls[k].ann.cls, d.fields[k])

\* What an instance becomes in to_dict, with the _id every stored document
\* has, can be encoded and satisfies the schema generated from its class,
\* whatever was assigned to it and wherever it came from.
DumpAccepted ==
    doc # <<>> /\ schema # <<>> /\ PlainDocument(Cls, doc[1]) =>
        LET dict == Object(ToDict(Cls, doc[1]))
        IN  Encodable(dict) /\ Validates(AsStored(dict.fields), schema[1])

\* Annotations whose schema says less than pydantic asks for: any binData may
\* stand for a UUID or a Binary, any object for a dict with type arguments.
RECURSIVE Exact(_)
Exact(ann) ==
    CASE ann.k = "type" -> ann.t \notin {"UUID", "Binary"}
      [] ann.k = "list" -> Exact(ann.of)
      [] ann.k = "dict" -> FALSE
      [] ann.k = "document" -> \A k \in DOMAIN ann.cls : Exact(ann.cls[k].ann)
      [] ann.k = "union" -> \A i \in DOMAIN ann.args : Exact(ann.args[i])
      [] OTHER -> TRUE

\* Whatever the validator lets any program store, from_document takes: a reader
\* that trusts the validator never meets a document its class refuses.
ValidatedParses ==
    validator # <<>> /\ (\A k \in DOMAIN Cls : Exact(Cls[k].ann)) =>
        \A i \in DOMAIN stored : Validates(stored[i], validator[1]) => AsRead(stored[i]) # Bad

RECURSIVE HasGeneric(_)
HasGeneric(v) == v.t = "Binary0" \/ \E x \in ValuesOf(v.items) \cup ValuesOf(v.fields) : HasGeneric(x)

\* A stored instance reads back as an instance that would be stored the same,
\* after any number of reads, assignments and inserts.  Left out: a Binary of
\* subtype 0, which bson gives back as bytes, and ExcludeIfNone on a field
\* whose default is not None.
RoundTrip ==
    (\A k \in DOMAIN Cls : Cls[k].exclude => Cls[k].default = <<None>>) =>
        \A i \in DOMAIN stored :
            origin[i] # <<>> /\ (\A k \in DOMAIN Cls : ~HasGeneric(origin[i][1].fields[k])) =>
                LET back == AsRead(stored[i])
                    bytes(d) == Encode(Object(Serialize(Cls, d)))
                IN  /\ back # Bad
                    /\ bytes(back) = bytes(origin[i][1])
                    /\ SameDocument(Cls, back, [origin[i][1] EXCEPT !.n = back.n])

\* README.md:95 and :110: a collection that enforces the schema of a class
\* takes instances of the class.
InsertAccepted == [][Insert /\ PlainDocument(Cls, doc[1]) => answer' # "refused"]_vars
=============================================================================
