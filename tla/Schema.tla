------------------------------- MODULE Schema -------------------------------
(***************************************************************************)
(* From annotations to a JSON schema (schema.py, internals/serializers.py, *)
(* metadata/definitions.py), and what Document makes of values.            *)
(*                                                                         *)
(* A class is a function from the alias of a field to its annotation, its  *)
(* metadata, whether it carries ExcludeIfNone, and its default (a sequence *)
(* of at most one value).  The metadata is a function of the arguments     *)
(* given to SchemaMetadata, but for title and description, which ask for   *)
(* nothing; a pattern is the set of strings it matches.  A value is a      *)
(* record of its Python type and its content: n is a number, what a string *)
(* is told apart by and its length, or the _id of a Document (0 for none). *)
(* A value on the wire is written as the value bson decodes it to.         *)
(***************************************************************************)
EXTENDS Integers, Sequences, FiniteSets, TLC

CONSTANT Int32Max \* bound: the largest int that BSON stores in 32 bits
ASSUME WidthAssumption == Int32Max \in Nat

None0 == <<>>   \* no fields, no items, no metadata
Value(t, n) == [t |-> t, n |-> n, items |-> <<>>, fields |-> None0, extra |-> None0]
Array(s) == [Value("list", 0) EXCEPT !.items = s]
Object(f) == [Value("dict", 0) EXCEPT !.fields = f]
Instance(id, f, e) == [Value("Document", id) EXCEPT !.fields = f, !.extra = e]
None == Value("NoneType", 0)
Bad == Value("ValidationError", 0)

\* Numbers are equal across their types.
SameValue(a, b) ==
    \/ a = b
    \/ {a.t, b.t} \subseteq {"int", "Int64", "float"} /\ a.n = b.n

Without(f, keys) == [k \in DOMAIN f \ keys |-> f[k]]
ValuesOf(f) == {f[k] : k \in DOMAIN f}
-----------------------------------------------------------------------------
(* Generation                                                              *)

TypeMap == [str |-> {"string"}, bytes |-> {"binData"}, float |-> {"double"},
            int |-> {"int", "long"}, list |-> {"array"}, NoneType |-> {"null"},
            ObjectId |-> {"objectId"}, bool |-> {"bool"}, datetime |-> {"date"},
            Binary |-> {"binData"}, UUID |-> {"binData"}, Timestamp |-> {"timestamp"},
            Int64 |-> {"long"}]

OrNull(types, optional) == types \cup IF optional THEN {"null"} ELSE {}
TypesOfValues(values) == UNION {TypeMap[v.t] : v \in values}

SerializeSimple(t, optional) == [bsonType |-> OrNull(TypeMap[t], optional)]
SerializeDict(optional) == [bsonType |-> OrNull({"object"}, optional)]
\* The values of a Literal; none of them is a member of an Enum.
SerializeLiteral(values, optional) ==
    [enum |-> values \cup (IF optional THEN {None} ELSE {}),
     bsonType |-> TypesOfValues(values)]
SerializeEnum(values, optional) ==
    [enum |-> values \cup (IF optional THEN {None} ELSE {}),
     bsonType |-> OrNull(TypesOfValues(values), optional)]

NoneAnn == [k |-> "type", t |-> "NoneType"]
OptionalUnion(ann) == \E i \in DOMAIN ann.args : ann.args[i] = NoneAnn

\* The combinations a Union is refused for.
MixedUnion(ann) ==
    LET kinds(k) == {i \in DOMAIN ann.args : ann.args[i].k = k}
        room == IF OptionalUnion(ann) THEN 2 ELSE 1
    IN  \/ \E k \in {"document", "enum", "literal"} : kinds(k) # {} /\ Len(ann.args) # room
        \/ Cardinality(kinds("list")) > 1

RECURSIVE Unsupported(_)
\* generate raises SchemaGenerationException or UnsupportedAnnotation.
Unsupported(ann) ==
    CASE ann.k = "type" -> ann.t \notin DOMAIN TypeMap
      [] ann.k \in {"literal", "enum"} -> \E v \in ann.values : v.t \notin DOMAIN TypeMap
      [] ann.k = "list" -> Unsupported(ann.of)
      [] ann.k = "dict" -> FALSE
      [] ann.k = "document" -> \E k \in DOMAIN ann.cls : Unsupported(ann.cls[k].ann)
      [] ann.k = "union" -> MixedUnion(ann) \/ \E i \in DOMAIN ann.args : Unsupported(ann.args[i])
      [] OTHER -> TRUE

\* Mutant: the types of the last payload win too.
MergePayloadsLast(payloads) ==
    LET Merge[i \in 0..Len(payloads)] == IF i = 0 THEN None0 ELSE payloads[i] @@ Merge[i - 1]
    IN  Merge[Len(payloads)]

\* All types of the payloads; the other keywords of a later payload replace
\* those of an earlier one.
MergePayloads(payloads) ==
    LET Merge[i \in 0..Len(payloads)] ==
            IF i = 0 THEN None0 ELSE Without(payloads[i], {"bsonType"}) @@ Merge[i - 1]
    IN  [bsonType |-> UNION {payloads[i].bsonType : i \in DOMAIN payloads}] @@ Merge[Len(payloads)]

ToCamel == [minimum |-> "minimum", maximum |-> "maximum", min_items |-> "minItems",
            max_items |-> "maxItems", min_length |-> "minLength",
            max_length |-> "maxLength", pattern |-> "pattern", unique_items |-> "uniqueItems"]

\* Mutant: metadata is described and not enforced.
GenerateMetadataNone(meta) == None0

GenerateMetadata(meta) ==
    [k \in {ToCamel[a] : a \in DOMAIN meta} |-> meta[CHOOSE a \in DOMAIN meta : ToCamel[a] = k]]

RECURSIVE GenerateTypeData(_, _, _), GenerateObject(_, _)
GenerateTypeData(ann, optional, additional) ==
    CASE ann.k = "type" -> SerializeSimple(ann.t, optional)
      [] ann.k = "literal" -> SerializeLiteral(ann.values, optional)
      [] ann.k = "enum" -> SerializeEnum(ann.values, optional)
      [] ann.k = "dict" -> SerializeDict(optional)
      [] ann.k = "list" ->
            [bsonType |-> OrNull({"array"}, optional),
             items |-> GenerateTypeData(ann.of, FALSE, additional)]
      [] ann.k = "document" -> GenerateObject(ann.cls, additional)
      [] ann.k = "union" ->
            MergePayloads([i \in DOMAIN ann.args |->
                GenerateTypeData(ann.args[i], OptionalUnion(ann), additional)])

\* generate with child=True, and the first part of generate.
GenerateObject(cls, additional) ==
    [bsonType |-> {"object"},
     required |-> DOMAIN cls \ {"_id"},
     properties |-> [k \in DOMAIN cls |->
        GenerateMetadata(cls[k].meta) @@ GenerateTypeData(cls[k].ann, FALSE, additional)],
     additionalProperties |-> additional]

\* _maybe_add_object_id_signature
AddObjectId(schema) ==
    [schema EXCEPT !.required = @ \cup {"_id"},
                   !.properties = "_id" :> [bsonType |-> {"objectId"}] @@ @]

Generate(cls, additional) ==
    LET schema == GenerateObject(cls, additional)
    IN  IF additional THEN schema ELSE AddObjectId(schema)

Generable(cls) == \A k \in DOMAIN cls : ~Unsupported(cls[k].ann)
-----------------------------------------------------------------------------
(* Pydantic: how a field takes a value                                     *)

\* The conversions of lax mode that this model uses.
Lax == {<<"bool", "int">>, <<"Int64", "int">>, <<"int", "float">>, <<"Int64", "float">>,
        <<"Binary", "bytes">>, <<"Binary", "UUID">>, <<"bytes", "UUID">>}
\* 16 bytes; a uuid and its Binary have the same content.
UuidBytes == 16

Converted(t, v) ==
    CASE t = "UUID" -> IF v.n = UuidBytes THEN [v EXCEPT !.t = "UUID"] ELSE Bad
      [] t = "bytes" -> v
      [] OTHER -> [v EXCEPT !.t = t]

\* SchemaMetadata.__iter__: the limits pydantic is given; no number for no limit.
Either(meta, a, b) ==
    IF a \in DOMAIN meta /\ meta[a] # 0 THEN {meta[a]}
    ELSE IF b \in DOMAIN meta THEN {meta[b]} ELSE {}
Given(meta, a) == IF a \in DOMAIN meta THEN {meta[a]} ELSE {}

LengthOf(v) == IF v.t = "list" THEN Len(v.items) ELSE v.n
WithinLimits(meta, v) ==
    /\ v.t \in {"int", "Int64", "float"} =>
        /\ \A m \in Given(meta, "minimum") : v.n >= m
        /\ \A m \in Given(meta, "maximum") : v.n <= m
    /\ v.t \in {"str", "bytes", "list"} =>
        /\ \A m \in Either(meta, "min_items", "min_length") : LengthOf(v) >= m
        /\ \A m \in Either(meta, "max_items", "max_length") : LengthOf(v) <= m
    /\ v.t = "str" => \A m \in Given(meta, "pattern") : v.n \in m

RECURSIVE Parse(_, _), ParseDocument(_, _)
\* The value a field of this annotation holds when it is given v, or Bad.
Parse(ann, v) ==
    CASE ann.k = "type" ->
            IF v.t = ann.t \/ (ann.t = "Binary" /\ v.t = "Binary0") THEN v
            ELSE IF <<v.t, ann.t>> \in Lax THEN Converted(ann.t, v)
            ELSE Bad
      [] ann.k \in {"literal", "enum"} -> \* use_enum_values: a member gives its value
            LET same == {x \in ann.values :
                    SameValue(x, v) \/ (ann.k = "enum" /\ v.t = "member" /\ x.n = v.n)}
            IN  IF same = {} THEN Bad ELSE CHOOSE x \in same : TRUE
      [] ann.k = "list" ->
            LET items == [i \in DOMAIN v.items |-> Parse(ann.of, v.items[i])]
            IN  IF v.t # "list" \/ Bad \in ValuesOf(items) THEN Bad ELSE Array(items)
      [] ann.k = "dict" ->
            LET fields == [k \in DOMAIN v.fields |-> Parse(ann.of, v.fields[k])]
            IN  IF v.t # "dict" \/ Bad \in ValuesOf(fields) THEN Bad ELSE Object(fields)
      [] ann.k = "document" ->
            IF v.t = "Document" THEN v
            ELSE IF v.t = "dict" THEN ParseDocument(ann.cls, v.fields)
            ELSE Bad
      [] ann.k = "union" ->
            \* smart mode: an arm that takes v as it is, else the first that can
            LET results == [i \in DOMAIN ann.args |-> Parse(ann.args[i], v)]
                usable == {i \in DOMAIN results : results[i] # Bad}
                exact == {i \in usable : results[i] = v}
                least(S) == CHOOSE i \in S : \A j \in S : i <= j
            IN  IF usable = {} THEN Bad
                ELSE results[least(IF exact # {} THEN exact ELSE usable)]
      [] OTHER -> Bad

\* model_validate: declared fields, defaults taken as they are, everything
\* else kept as extra; then model_post_init takes _id out of the extras.
ParseDocument(cls, given) ==
    LET field(k) ==
            IF k \notin DOMAIN given
            THEN IF cls[k].default = <<>> THEN Bad ELSE cls[k].default[1]
            ELSE LET v == Parse(cls[k].ann, given[k])
                 IN  IF v = Bad \/ ~WithinLimits(cls[k].meta, v) THEN Bad ELSE v
        fields == [k \in DOMAIN cls |-> field(k)]
        extra == Without(given, DOMAIN cls)
        id == IF "_id" \in DOMAIN extra THEN extra["_id"].n ELSE 0
    IN  IF Bad \in ValuesOf(fields) THEN Bad ELSE Instance(id, fields, Without(extra, {"_id"}))

-----------------------------------------------------------------------------
(* Document: out of the program and back                                   *)

DumpUuid(v) == IF v.t = "UUID" THEN [v EXCEPT !.t = "Binary"] ELSE v

RECURSIVE Dump(_, _), Serialize(_, _)
\* Mutant: the extra fields are written back.
SerializeExtra(cls, doc) ==
    doc.extra @@ [k \in DOMAIN cls |-> DumpUuid(Dump(cls[k].ann, doc.fields[k]))]

\* model_dump of a value: nested Documents by their own _serialize.
Dump(ann, v) ==
    CASE ann.k = "document" /\ v.t = "Document" -> Object(Serialize(ann.cls, v))
      [] ann.k = "list" /\ v.t = "list" ->
            Array([i \in DOMAIN v.items |-> Dump(ann.of, v.items[i])])
      [] ann.k = "dict" /\ v.t = "dict" ->
            Object([k \in DOMAIN v.fields |-> Dump(ann.of, v.fields[k])])
      [] ann.k = "union" /\ v.t \in {"Document", "list", "dict"} ->
            LET kind == IF v.t = "Document" THEN "document" ELSE v.t
                arms == {i \in DOMAIN ann.args : ann.args[i].k = kind}
            IN  IF arms = {} THEN v ELSE Dump(ann.args[CHOOSE i \in arms : TRUE], v)
      [] OTHER -> v

\* _serialize: without the None fields of ExcludeIfNone, without the extra
\* fields, and with the UUIDs that are values of the document itself as Binary.
Serialize(cls, doc) ==
    LET kept == {k \in DOMAIN cls : ~(cls[k].exclude /\ doc.fields[k] = None)}
    IN  [k \in kept |-> DumpUuid(Dump(cls[k].ann, doc.fields[k]))]

ToDict(cls, doc) ==
    LET dumped == Serialize(cls, doc)
    IN  IF doc.n # 0 THEN dumped @@ "_id" :> Value("ObjectId", doc.n) ELSE dumped

\* Document.__eq__
SameDocument(cls, a, b) ==
    IF a.n # 0 /\ b.n # 0 THEN a.n = b.n ELSE Serialize(cls, a) = Serialize(cls, b)
-----------------------------------------------------------------------------
(* bson and the server                                                     *)

RECURSIVE Encodable(_), Encode(_)
\* bson refuses a native UUID and a member of an Enum.
Encodable(v) ==
    /\ v.t \notin {"UUID", "member", "Document"}
    /\ \A x \in ValuesOf(v.items) \cup ValuesOf(v.fields) : Encodable(x)

\* Integers are stored in 32 bits when they fit; subtype 0 comes back as bytes.
Encode(v) ==
    CASE v.t = "int" /\ v.n > Int32Max -> [v EXCEPT !.t = "Int64"]
      [] v.t = "Binary0" -> [v EXCEPT !.t = "bytes"]
      [] OTHER -> [v EXCEPT !.items = [i \in DOMAIN @ |-> Encode(@[i])],
                            !.fields = [k \in DOMAIN @ |-> Encode(@[k])]]

BsonType == [str |-> "string", bytes |-> "binData", float |-> "double", int |-> "int",
             list |-> "array", dict |-> "object", NoneType |-> "null",
             ObjectId |-> "objectId", bool |-> "bool", datetime |-> "date",
             Binary |-> "binData", Timestamp |-> "timestamp", Int64 |-> "long"]

Limit(s, k) == IF k \in DOMAIN s THEN {s[k]} ELSE {}

RECURSIVE TakesSchema(_), Validates(_, _)
\* The server refuses an empty `required`.
TakesSchema(s) ==
    /\ "required" \in DOMAIN s =>
        s.required # {} /\ \A k \in DOMAIN s.properties : TakesSchema(s.properties[k])
    /\ "items" \in DOMAIN s => TakesSchema(s.items)

\* $jsonSchema with the keywords that are generated.
Validates(v, s) ==
    /\ BsonType[v.t] \in s.bsonType
    /\ "enum" \in DOMAIN s => \E e \in s.enum : SameValue(Encode(e), v)
    /\ v.t \in {"int", "Int64", "float"} =>
        /\ \A m \in Limit(s, "minimum") : v.n >= m
        /\ \A m \in Limit(s, "maximum") : v.n <= m
    /\ v.t = "str" =>
        /\ \A m \in Limit(s, "minLength") : v.n >= m
        /\ \A m \in Limit(s, "maxLength") : v.n <= m
        /\ \A m \in Limit(s, "pattern") : v.n \in m
    /\ v.t = "list" =>
        /\ \A m \in Limit(s, "minItems") : Len(v.items) >= m
        /\ \A m \in Limit(s, "maxItems") : Len(v.items) <= m
        /\ "uniqueItems" \in DOMAIN s =>
            \A i, j \in DOMAIN v.items : i # j => ~SameValue(v.items[i], v.items[j])
        /\ "items" \in DOMAIN s => \A x \in ValuesOf(v.items) : Validates(x, s.items)
    /\ v.t = "dict" /\ "required" \in DOMAIN s =>
        /\ s.required \subseteq DOMAIN v.fields
        /\ \A k \in DOMAIN v.fields :
            IF k \in DOMAIN s.properties THEN Validates(v.fields[k], s.properties[k])
            ELSE s.additionalProperties
=============================================================================
