-------------------------------- MODULE MCWire --------------------------------
(* Wire with the classes of src/p2p_pb.cjs: the objects tried of a class are  *)
(* those with no field, with one, with all, with all but one, and with two    *)
(* members of a oneof.                                                        *)
EXTENDS Wire, WireSchema

MCLimit == [uint32 |-> 4, uint64 |-> 8]

Scalars(type) ==
    CASE type = "uint64" ->
            {Scalar("Number", 0), Scalar("Number", 7), Scalar("Long", 7), Scalar("Number", 17)}
      [] type = "uint32" -> {Scalar("Number", 0), Scalar("Number", 3), Scalar("Number", 9)}
      [] type = "bool" -> {Scalar("Boolean", 0), Scalar("Boolean", 1)}
      [] type = "string" -> {Scalar("String", 0), Scalar("String", 1)}
      [] type = "bytes" -> {Scalar("Bytes", 0), Scalar("Bytes", 1), Scalar("String", 1)}

Values(f) ==
    LET one == IF IsScalar(f) THEN Scalars(f.type) ELSE {Object({}), Fullest[f.type]}
    IN {<<v>> : v \in one} \cup IF Repeated(f) THEN {<<>>} ELSE {}

One(f) == Has(f.name, IF IsScalar(f) THEN Typical(f.type) ELSE Fullest[f.type])

Samples(class) ==
    {Object({}), Fullest[class]}
    \cup UNION {{Object({Property(f.name, values)}) : values \in Values(f)} : f \in Schema[class]}
    \cup {Object(Fullest[class].own \ {p}) : p \in Fullest[class].own}
    \cup IF class \in OneOfs THEN {Object({One(f), One(g)}) : f, g \in Schema[class]} ELSE {}

MCObjects == [class \in Classes |-> Samples(class)]
===============================================================================
