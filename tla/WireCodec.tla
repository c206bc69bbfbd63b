------------------------------- MODULE WireCodec -------------------------------
(***************************************************************************)
(* The functions that src/p2p_pb.cjs generates for every class: encode()   *)
(* writes the own properties of an object as numbered items, decode() reads*)
(* the items back, verify() says whether the properties have the types of  *)
(* the class.  The functions of a class call those of the classes of its   *)
(* fields.                                                                 *)
(*                                                                         *)
(* A JavaScript value is a record: its form (typeof, with "Long", "Bytes"  *)
(* and "Object"), what it `is` (a number; for strings and bytes a number   *)
(* that names the contents; a string given for bytes, which is base64, has *)
(* the name of the bytes), and its own properties.  A property has a list  *)
(* of values, a single one unless it is an array.                          *)
(***************************************************************************)
EXTENDS Naturals, Sequences, SequencesExt, FiniteSetsExt

CONSTANTS
    Schema,  \* for each class its fields: [id, name, type, label] (WireSchema)
    OneOfs,  \* the classes whose fields all belong to one oneof
    Depth,   \* messages nest less deeply
    Limit    \* what fits the two types of numbers: 2^32 and 2^64, or less for TLC

Classes == DOMAIN Schema
ScalarTypes == {"uint64", "uint32", "bool", "string", "bytes"}
IsScalar(f) == f.type \in ScalarTypes
Repeated(f) == f.label = "repeated"
LastId(class) == Max({0} \cup {f.id : f \in Schema[class]})

\* The classes of the messages within a message, and how deeply these nest.
MessageTypes(class) == {f.type : f \in Schema[class]} \cap Classes
Nesting[class \in Classes] == Max({0} \cup {Nesting[type] + 1 : type \in MessageTypes(class)})

(***************************************************************************)
(* What protobuf demands of a schema: a number and a name stand for one    *)
(* field of a class, a member of a oneof is not repeated; and no class     *)
(* contains itself.                                                        *)
(***************************************************************************)
FieldsAreDistinct(class) == \A f, g \in Schema[class] : f.id = g.id \/ f.name = g.name => f = g

ASSUME SchemaAssumption ==
    /\ Depth \in Nat /\ ScalarTypes \cap Classes = {} /\ OneOfs \subseteq Classes
    /\ \A class \in Classes :
        /\ LastId(class) \in Nat /\ Nesting[class] \in 0..(Depth - 1)
        /\ FieldsAreDistinct(class)
        /\ \A f \in Schema[class] :
            /\ f \in [id : 1..LastId(class), name : STRING, type : ScalarTypes \cup Classes,
                      label : {"plain", "repeated", "optional"}]
            /\ f.type \in Classes => Nesting[f.type] < Nesting[class]
            /\ class \in OneOfs => ~Repeated(f)

ASSUME LimitAssumption == Limit \in [{"uint32", "uint64"} -> Nat \ {0}]

-------------------------------------------------------------------------------
Form == {"Number", "Long", "BigInt", "Boolean", "String", "Bytes", "Object"}
Scalar(form, n) == [form |-> form, is |-> n, own |-> {}]
Object(properties) == [form |-> "Object", is |-> 0, own |-> properties]
Property(name, values) == [name |-> name, values |-> values]

\* The values of a property, none when it is absent (or null).
Get(v, name) ==
    LET with == {p \in v.own : p.name = name}
    IN IF with = {} THEN <<>> ELSE (CHOOSE p \in with : TRUE).values

\* Objects, and items on the wire, with at most d levels below the top one.
Level[d \in 0..Depth] ==
    IF d = 0
    THEN [values |-> [form : Form, is : Nat, own : {{}}], packets |-> {<<>>}]
    ELSE [values |-> [form : Form, is : Nat,
                      own : SUBSET [name : STRING, values : Seq(Level[d - 1].values)]],
          packets |-> Seq([id : Nat, scalars : Seq(Nat), items : Level[d - 1].packets])]

Value == Level[Depth].values
Packet == Level[Depth].packets

HasField(class, i) == \E f \in Schema[class] : f.id = i
FieldOf(class, i) == CHOOSE f \in Schema[class] : f.id = i

-------------------------------------------------------------------------------
(* encode() *)

\* What fits is written as it is, and of a larger number the lowest bits.
\* writer.uint64() of a BigInt finds neither a number, a string nor a Long
\* and writes zero bits.
WriteScalar(type, v) ==
    IF v.form = "BigInt" THEN 0
    ELSE IF type \in {"uint32", "uint64"} THEN v.is % Limit[type]
    ELSE IF type = "bool" THEN (IF v.is = 0 THEN 0 ELSE 1) ELSE v.is

\* A mutant: an empty message within a message is not written.
GivenAndNotEmpty(f, v) == SelectSeq(Get(v, f.name), LAMBDA x : IsScalar(f) \/ x.own # {})

Given(f, v) == Get(v, f.name)

\* An item per value, except that a list of numbers is packed into one.
Item(i, scalars, items) == [id |-> i, scalars |-> scalars, items |-> items]
Items(f, inner, values) ==
    IF values # <<>> /\ Repeated(f) /\ f.type = "uint64"
    THEN <<Item(f.id, [k \in DOMAIN values |-> WriteScalar(f.type, values[k])], <<>>)>>
    ELSE [k \in DOMAIN values |->
            IF IsScalar(f) THEN Item(f.id, <<WriteScalar(f.type, values[k])>>, <<>>)
            ELSE Item(f.id, <<>>, inner[f.type].encode[values[k]])]

\* The fields in the order of their numbers.
Encode(class, inner, v) ==
    LET written[i \in 0..LastId(class)] ==
            IF i = 0 THEN <<>>
            ELSE IF HasField(class, i)
            THEN LET f == FieldOf(class, i) IN written[i - 1] \o Items(f, inner, Given(f, v))
            ELSE written[i - 1]
    IN written[LastId(class)]

-------------------------------------------------------------------------------
(* decode() *)

\* A mutant: the reader yields a BigInt for uint64.
ReadBigInt(type, n) ==
    Scalar(CASE type = "uint64" -> "BigInt" [] type = "uint32" -> "Number"
             [] type = "bool" -> "Boolean" [] type = "string" -> "String" [] OTHER -> "Bytes", n)

\* The reader yields a Long for uint64 and a Number for uint32.
ReadScalar(type, n) ==
    Scalar(CASE type = "uint64" -> "Long" [] type = "uint32" -> "Number"
             [] type = "bool" -> "Boolean" [] type = "string" -> "String" [] OTHER -> "Bytes", n)

Elements(f, inner, item) ==
    IF IsScalar(f) THEN [k \in DOMAIN item.scalars |-> ReadScalar(f.type, item.scalars[k])]
    ELSE <<inner[f.type].decode[item.items]>>

\* Of several items of a field the last wins, a repeated field collects them;
\* reader.skipType() goes past a field the class does not have.
Put(fields, f, read) == [fields EXCEPT ![f.name] = IF Repeated(f) THEN @ \o read ELSE read]
ReadItem(class, inner, fields, item) ==
    IF HasField(class, item.id)
    THEN Put(fields, FieldOf(class, item.id), Elements(FieldOf(class, item.id), inner, item))
    ELSE fields

\* The loop over the items, from what the constructor gives.
ReadItems(class, inner, items) ==
    LET read[k \in 0..Len(items)] ==
            IF k = 0 THEN [name \in {f.name : f \in Schema[class]} |-> <<>>]
            ELSE ReadItem(class, inner, read[k - 1], items[k])
    IN read[Len(items)]

\* The constructor makes every repeated field an empty list of its own.
Filled(class, fields) ==
    LET own == {f \in Schema[class] : Repeated(f) \/ fields[f.name] # <<>>}
    IN Object({Property(f.name, fields[f.name]) : f \in own})
Decode(class, inner, items) == Filled(class, ReadItems(class, inner, items))

-------------------------------------------------------------------------------
(* verify() *)

ScalarFits(type, form) ==
    form \in CASE type = "uint64" -> {"Number", "Long"} [] type = "uint32" -> {"Number"}
               [] type = "bool" -> {"Boolean"} [] type = "string" -> {"String"}
               [] OTHER -> {"Bytes", "String"}

\* Of a oneof one field is given at most, and an array only where one belongs.
Verify(class, inner, v) ==
    /\ v.form = "Object"
    /\ class \in OneOfs =>
        \A f, g \in Schema[class] : Get(v, f.name) # <<>> /\ Get(v, g.name) # <<>> => f = g
    /\ \A f \in Schema[class] :
        /\ Repeated(f) \/ Len(Get(v, f.name)) <= 1
        /\ \A k \in 1..Len(Get(v, f.name)) :
            IF IsScalar(f) THEN ScalarFits(f.type, Get(v, f.name)[k].form)
            ELSE inner[f.type].verify[Get(v, f.name)[k]]

-------------------------------------------------------------------------------
(* What the properties compare *)

\* verify() looks at the type of a number only: these fit their fields.
NumberFits(type, n) ==
    (type \in DOMAIN Limit => n < Limit[type]) /\ (type = "bool" => n < 2)
InRange(class, inner, v) ==
    \A f \in Schema[class] : \A k \in 1..Len(Get(v, f.name)) :
        IF IsScalar(f) THEN NumberFits(f.type, Get(v, f.name)[k].is)
        ELSE inner[f.type].inRange[Get(v, f.name)[k]]

\* A reader of a plain field that is absent finds the default of its type in
\* the prototype, the zero, FALSE or empty value; a member of a oneof is null.
Said(class, f, v) ==
    IF Get(v, f.name) = <<>> /\ IsScalar(f) /\ f.label = "plain" /\ class \notin OneOfs
    THEN <<ReadScalar(f.type, 0)>> ELSE Get(v, f.name)

\* Two objects that say the same, whatever the forms of their numbers.
Same(class, inner, v, w) ==
    \A f \in Schema[class] :
        /\ Len(Said(class, f, v)) = Len(Said(class, f, w))
        /\ \A k \in 1..Len(Said(class, f, v)) :
            LET x == Said(class, f, v)[k]
                y == Said(class, f, w)[k]
            IN IF IsScalar(f) THEN x.is = y.is ELSE inner[f.type].same[<<x, y>>]

\* An object with each property given once and lists for repeated fields only;
\* it may have properties that are no fields of its class.
Regular(class, inner, v) ==
    /\ \A p, q \in v.own : p.name = q.name => p = q
    /\ \A p \in v.own : \A f \in Schema[class] : f.name = p.name =>
        /\ Repeated(f) \/ Len(p.values) = 1
        /\ IsScalar(f) \/ \A k \in 1..Len(p.values) : inner[f.type].regular[p.values[k]]

\* Every property of v that is a field of the class has as many values in w.
Conveyed(class, inner, v, w) ==
    \A p \in v.own : \A f \in Schema[class] : f.name = p.name =>
        /\ \E q \in w.own : q.name = p.name /\ Len(q.values) = Len(p.values)
        /\ IsScalar(f) \/ \A k \in 1..Len(p.values) :
            inner[f.type].conveyed[<<p.values[k], Get(w, p.name)[k]>>]

\* Every property of v is a field of the class and has as many values in w.
Reaches(class, inner, v, w) ==
    \A p \in v.own :
        /\ \E q \in w.own : q.name = p.name /\ Len(q.values) = Len(p.values)
        /\ \A f \in Schema[class] : f.name = p.name /\ ~IsScalar(f) =>
            \A k \in 1..Len(p.values) : inner[f.type].reaches[<<p.values[k], Get(w, p.name)[k]>>]

-------------------------------------------------------------------------------
CodecOf(class, inner) ==
    [encode |-> [v \in Value |-> Encode(class, inner, v)],
     decode |-> [items \in Packet |-> Decode(class, inner, items)],
     verify |-> [v \in Value |-> Verify(class, inner, v)],
     inRange |-> [v \in Value |-> InRange(class, inner, v)],
     regular |-> [v \in Value |-> Regular(class, inner, v)],
     same |-> [pair \in Value \X Value |-> Same(class, inner, pair[1], pair[2])],
     conveyed |-> [pair \in Value \X Value |-> Conveyed(class, inner, pair[1], pair[2])],
     reaches |-> [pair \in Value \X Value |-> Reaches(class, inner, pair[1], pair[2])]]

\* Every class with the codecs of the classes of its fields.
Codec[class \in Classes] == CodecOf(class, [type \in MessageTypes(class) |-> Codec[type]])
===============================================================================
