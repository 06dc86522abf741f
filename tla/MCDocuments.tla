---------------------------- MODULE MCDocuments ----------------------------
(* Classes like those of tests/test_schema.py and examples/schema.py, at    *)
(* most two fields each, with the values a program tries for them.          *)
EXTENDS Documents

Type(t) == [k |-> "type", t |-> t]
Union(s) == [k |-> "union", args |-> s]
Optional(a) == Union(<<a, NoneAnn>>)
List(a) == [k |-> "list", of |-> a]
Doc(c) == [k |-> "document", cls |-> c]
EnumOf(vs) == [k |-> "enum", values |-> vs]
LiteralOf(vs) == [k |-> "literal", values |-> vs]
DictOf(a) == [k |-> "dict", of |-> a]

Field(a) == [ann |-> a, meta |-> None0, exclude |-> FALSE, default |-> <<>>]
Limited(a, m) == [Field(a) EXCEPT !.meta = m]
Default(a, v) == [Field(a) EXCEPT !.default = <<v>>]
Excluded(a) == [Field(a) EXCEPT !.default = <<None>>, !.exclude = TRUE]

Str(n) == Value("str", n)
Num(n) == Value("int", n)
TEnum == {Str(1), Str(2)}
Sub == [name |-> Field(Type("str")), age |-> Limited(Type("int"), [minimum |-> 2])]
SubDict(n, a) == Object([name |-> n, age |-> a])
Empty == [x \in {} |-> Field(NoneAnn)]

MCClasses ==
  [Plain    |-> [a |-> Limited(Optional(Type("int")), [minimum |-> 2]),
                 b |-> Limited(Type("str"), [min_length |-> 1, max_length |-> 2])],
   Patterns |-> [a |-> Limited(Type("str"), [pattern |-> {0, 3}]),
                 b |-> Limited(Type("str"), [pattern |-> {1, 3}, min_length |-> 2])],
   Numbers  |-> [a |-> Field(Union(<<Type("str"), Type("float"), Type("Int64")>>)),
                 b |-> Field(Type("bool"))],
   Enums    |-> [c |-> Field(Optional(EnumOf(TEnum))),
                 d |-> Default(EnumOf(TEnum), Value("member", 1))],
   Literals |-> [f |-> Field(Optional(LiteralOf({Value("bytes", 1), Str(3), Num(3)})))],
   Nested   |-> [a |-> Field(Optional(Doc(Sub))), e |-> Field(Doc(Sub))],
   Lists    |-> [a |-> Limited(List(Union(<<Type("str"), Type("int"), NoneAnn>>)), [max_items |-> 1]),
                 c |-> Field(Union(<<List(Doc(Sub)), Type("int")>>))],
   Bounds   |-> [a |-> Limited(List(Type("int")), [max_items |-> 0])],
   Unique   |-> [b |-> Limited(List(Type("int")), [unique_items |-> 1])],
   Blobs    |-> [d |-> Field(Union(<<Type("UUID"), Type("Binary"), Type("ObjectId")>>)),
                 u |-> Field(Type("UUID"))],
   Uuids    |-> [us |-> Field(List(Type("UUID")))],
   Uuid     |-> [u |-> Field(Type("UUID"))],
   Renamed  |-> [nick |-> [Excluded(Optional(Type("str"))) EXCEPT !.default = <<Str(1)>>]],
   Generic  |-> [b |-> Field(Type("Binary"))],
   Excluded |-> [nick |-> Excluded(Optional(Type("str"))), id |-> Field(Type("int"))],
   Dicts    |-> [m |-> Field(DictOf(Type("int"))), t |-> Field(Optional(Type("datetime")))],
   Mixed    |-> [a |-> Field(Union(<<Doc(Sub), Type("int"), Type("str")>>))],
   Mixed2   |-> [a |-> Field(Union(<<List(Doc(Sub)), List(Type("int"))>>))],
   Typed    |-> [a |-> Field([k |-> "typeddict"]), b |-> Field(Type("dict"))],
   Hollow   |-> [a |-> Field(Doc(Empty))]]

Common == {None, Num(1), Num(3), Num(9), Str(0), Str(1), Str(3)}
Lists2 == {Array(<<>>), Array(<<Num(1)>>), Array(<<Num(1), Num(1)>>), Array(<<Num(3), Str(1)>>)}
Subs == {SubDict(Str(1), Num(3)), SubDict(Str(1), Num(1)), SubDict(Str(1), None),
         Object([name |-> Str(1)]), Object([name |-> Str(1), age |-> Num(2), x |-> None])}
Blobs == {Value("UUID", 16), Value("Binary", 16), Value("Binary", 3), Value("Binary0", 3),
          Value("bytes", 1), ObjectId(7)}

MCSamples ==
  [c \in DOMAIN MCClasses |->
    CASE c \in {"Plain", "Patterns", "Literals", "Excluded", "Renamed"} -> Common \cup {Value("bytes", 1)}
      [] c = "Numbers" -> Common \cup {Value("float", 3), Value("Int64", 3), Value("bool", 1)}
      [] c = "Enums" -> Common \cup {Value("member", 2)}
      [] c \in {"Nested", "Mixed", "Hollow"} -> Subs \cup {None, Num(3), Object(None0)}
      [] c \in {"Lists", "Mixed2"} -> Lists2 \cup {Array(<<SubDict(Str(1), Num(3))>>), Num(3)}
      [] c \in {"Bounds", "Unique"} -> Lists2
      [] c \in {"Blobs", "Generic", "Uuid"} -> Blobs
      [] c = "Uuids" -> Blobs \cup {Array(<<Value("UUID", 16)>>), Array(<<>>), Array(<<Value("Binary", 16)>>)}
      [] OTHER -> {None, Object(None0), Object([x |-> Num(9)]), Object([x |-> Str(1)]), Value("datetime", 5)}]
=============================================================================
