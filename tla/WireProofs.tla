------------------------------ MODULE WireProofs ------------------------------
(***************************************************************************)
(* Proofs about Wire: every message arrives as it was sent and can be sent *)
(* on, for every object of every class and every order in which a later    *)
(* version adds a field. Codec and its parts are functions defined by      *)
(* recursion over the nesting of the classes; that they satisfy their      *)
(* equations is proved first, then that they keep to the values and        *)
(* packets of Level, then that reading what is written gives copies of the *)
(* fields, and last, by induction on the nesting, what the copies say. The *)
(* table of the schema enters through SchemaAssumption only.               *)
(***************************************************************************)
EXTENDS Wire, WellFoundedInduction, SequenceTheorems, TLAPS

(***************************************************************************)
(* A set of naturals that is not empty has a least element.                *)
(***************************************************************************)
LEMMA LeastElement ==
    ASSUME NEW T \in SUBSET Nat, T # {}
    PROVE  \E n \in T : \A m \in T : n <= m
<1> DEFINE R == {ss \in Nat \X Nat : ss[1] < ss[2]}
<1>1. IsWellFoundedOn(R, Nat)
  BY NatLessThanWellFounded DEF OpToRel
<1>2. \A m, n \in Nat : m < n => <<m, n>> \in R
  OBVIOUS
<1> HIDE DEF R
<1>3. PICK n \in T : \A m \in T : ~(<<m, n>> \in R)
  BY <1>1, WFMin
<1>4. \A m \in T : ~(m < n)
  BY <1>2, <1>3
<1> QED BY <1>4

(***************************************************************************)
(* Induction on the naturals.                                              *)
(***************************************************************************)
LEMMA SetInduction ==
    ASSUME NEW T, 0 \in T, \A n \in Nat : n \in T => n + 1 \in T
    PROVE  \A n \in Nat : n \in T
<1> SUFFICES ASSUME Nat \ T # {} PROVE FALSE
  OBVIOUS
<1>1. PICK n \in Nat \ T : \A m \in Nat \ T : n <= m
  BY LeastElement
<1>2. n - 1 \in Nat
  BY <1>1
<1>3. n - 1 \in T
  BY <1>1, <1>2
<1> QED BY <1>1, <1>2, <1>3

-------------------------------------------------------------------------------
(* The recursive definitions: levels, and the functions of the classes. *)

(***************************************************************************)
(* There is a class, so there is a level below the top one.                *)
(***************************************************************************)
LEMMA DepthType == Depth \in Nat /\ Depth >= 1
<1>1. PICK class \in Classes : TRUE
  BY ObjectsAssumption
<1>2. Nesting[class] \in 0..(Depth - 1) /\ Depth \in Nat
  BY SchemaAssumption
<1> QED BY <1>2

\* One level of values and packets over those of the level below.
LevelOver(below) ==
    [values |-> [form : Form, is : Nat,
                 own : SUBSET [name : STRING, values : Seq(below.values)]],
     packets |-> Seq([id : Nat, scalars : Seq(Nat), items : below.packets])]
\* The lowest level: no properties, no items.
Level0 == [values |-> [form : Form, is : Nat, own : {{}}], packets |-> {<<>>}]

(***************************************************************************)
(* Level is defined: it satisfies the equations of its recursion.          *)
(***************************************************************************)
LEMMA LevelEquation ==
    /\ Level[0] = Level0
    /\ \A d \in 1..Depth : Level[d] = LevelOver(Level[d - 1])
<1> DEFINE Follows(g, n) == \A d \in 0..n : g[d] = IF d = 0 THEN Level0 ELSE LevelOver(g[d - 1])
           T == {n \in Nat : \E g : Follows(g, n)}
<1>1. 0 \in T
  <2>1. Follows([d \in {0} |-> Level0], 0)
    OBVIOUS
  <2> QED BY <2>1
<1>2. ASSUME NEW n \in Nat, n \in T PROVE n + 1 \in T
  <2>1. PICK g : Follows(g, n)
    BY <1>2
  <2> DEFINE h == [d \in 0..(n + 1) |-> IF d <= n THEN g[d] ELSE LevelOver(g[n])]
  <2>2. ASSUME NEW d \in 0..(n + 1)
        PROVE  h[d] = IF d = 0 THEN Level0 ELSE LevelOver(h[d - 1])
    <3>1. CASE d <= n
      <4>1. d \in 0..n /\ h[d] = g[d] /\ (d # 0 => h[d - 1] = g[d - 1])
        BY <3>1
      <4> QED BY <4>1, <2>1
    <3>2. CASE d = n + 1
      <4>1. h[d] = LevelOver(g[n]) /\ h[d - 1] = g[n] /\ d # 0
        BY <3>2
      <4> QED BY <4>1
    <3> QED BY <3>1, <3>2
  <2>3. Follows(h, n + 1)
    BY <2>2
  <2> HIDE DEF h, Follows
  <2> QED BY <2>3
<1> HIDE DEF T
<1>3. Depth \in T
  BY <1>1, <1>2, SetInduction, DepthType
<1>4. PICK g : Follows(g, Depth)
  BY <1>3 DEF T
<1> DEFINE h == [d \in 0..Depth |-> g[d]]
<1>5. h = [d \in 0..Depth |-> IF d = 0 THEN Level0 ELSE LevelOver(h[d - 1])]
  <2>1. ASSUME NEW d \in 0..Depth PROVE h[d] = IF d = 0 THEN Level0 ELSE LevelOver(h[d - 1])
    <3>1. h[d] = g[d] /\ (d # 0 => h[d - 1] = g[d - 1])
      BY DepthType
    <3>2. g[d] = IF d = 0 THEN Level0 ELSE LevelOver(g[d - 1])
      BY <1>4
    <3> HIDE DEF h
    <3> QED BY <3>1, <3>2
  <2> QED BY <2>1
<1>6. Level = [d \in 0..Depth |-> IF d = 0 THEN Level0 ELSE LevelOver(Level[d - 1])]
  <2> HIDE DEF h
  <2> QED BY <1>5, Zenon DEF Level, Level0, LevelOver
<1>7. \A d \in 0..Depth : Level[d] = IF d = 0 THEN Level0 ELSE LevelOver(Level[d - 1])
  BY <1>6
<1> QED BY <1>7, DepthType

-------------------------------------------------------------------------------
(***************************************************************************)
(* The classes within a class nest less deeply than the class.             *)
(***************************************************************************)
LEMMA NestingType ==
    /\ \A class \in Classes : Nesting[class] \in Nat /\ Nesting[class] + 1 \in 1..Depth
    /\ \A class \in Classes : \A type \in MessageTypes(class) :
        type \in Classes /\ Nesting[type] < Nesting[class]
<1>1. \A class \in Classes : Nesting[class] \in 0..(Depth - 1)
  BY SchemaAssumption
<1>2. \A class \in Classes : \A type \in MessageTypes(class) :
        type \in Classes /\ Nesting[type] < Nesting[class]
  BY SchemaAssumption DEF MessageTypes
<1> QED BY <1>1, <1>2, DepthType

(***************************************************************************)
(* Induction on classes: what holds of a class whenever it holds of the    *)
(* classes of its fields holds of all, for no class contains itself.       *)
(***************************************************************************)
LEMMA ClassInduction ==
    ASSUME NEW T,
           \A class \in Classes : MessageTypes(class) \subseteq T => class \in T
    PROVE  Classes \subseteq T
<1> DEFINE S == {n \in Nat : \A class \in Classes : Nesting[class] < n => class \in T}
<1>1. 0 \in S
  BY NestingType
<1>2. ASSUME NEW n \in Nat, n \in S PROVE n + 1 \in S
  <2> SUFFICES ASSUME NEW class \in Classes, Nesting[class] < n + 1 PROVE class \in T
    OBVIOUS
  <2>1. \A type \in MessageTypes(class) : type \in Classes /\ Nesting[type] < n
    BY NestingType
  <2>2. MessageTypes(class) \subseteq T
    BY <2>1, <1>2
  <2> QED BY <2>2
<1>3. ASSUME NEW class \in Classes PROVE class \in T
  <2> HIDE DEF S
  <2>1. Nesting[class] + 1 \in S
    BY <1>1, <1>2, SetInduction, NestingType
  <2> QED BY <2>1, NestingType DEF S
<1> QED BY <1>3

\* The functions of the classes of the fields.
Inner(class) == [type \in MessageTypes(class) |-> Codec[type]]

(***************************************************************************)
(* Codec is defined: the functions of a class are those that CodecOf makes *)
(* from the functions of the classes of its fields.                        *)
(***************************************************************************)
LEMMA CodecEquation ==
    \A class \in Classes : Codec[class] = CodecOf(class, Inner(class))
<1> DEFINE Of(g, class) == CodecOf(class, [type \in MessageTypes(class) |-> g[type]])
           Follows(g, n) == \A class \in Classes : Nesting[class] < n => g[class] = Of(g, class)
           T == {n \in Nat : \E g : Follows(g, n)}
<1>1. 0 \in T
  BY NestingType
<1>2. ASSUME NEW n \in Nat, n \in T PROVE n + 1 \in T
  <2>1. PICK g : Follows(g, n)
    BY <1>2
  <2> DEFINE h == [class \in Classes |-> IF Nesting[class] < n THEN g[class] ELSE Of(g, class)]
  <2>2. ASSUME NEW class \in Classes, Nesting[class] < n + 1 PROVE h[class] = Of(h, class)
    <3>1. \A type \in MessageTypes(class) : h[type] = g[type]
      BY <2>2, NestingType
    <3>2. [type \in MessageTypes(class) |-> h[type]] = [type \in MessageTypes(class) |-> g[type]]
      BY <3>1
    <3>3. h[class] = Of(g, class)
      BY <2>1
    <3> QED BY <3>2, <3>3
  <2>3. Follows(h, n + 1)
    BY <2>2
  <2> HIDE DEF h, Follows
  <2> QED BY <2>3
<1> HIDE DEF T
<1>3. Depth \in T
  BY <1>1, <1>2, SetInduction, DepthType
<1>4. PICK g : Follows(g, Depth)
  BY <1>3 DEF T
<1> DEFINE h == [class \in Classes |-> g[class]]
<1>5. ASSUME NEW class \in Classes PROVE h[class] = Of(h, class)
  <2>1. Nesting[class] < Depth
    BY NestingType, DepthType
  <2>2. [type \in MessageTypes(class) |-> h[type]] = [type \in MessageTypes(class) |-> g[type]]
    BY NestingType
  <2> QED BY <1>4, <2>1, <2>2
<1>6. h = [class \in Classes |-> Of(h, class)]
  <2> DEFINE k == [class \in Classes |-> Of(h, class)]
  <2>1. \A class \in Classes : h[class] = k[class]
    BY <1>5
  <2> QED BY <2>1
<1>7. Codec = [class \in Classes |-> Of(Codec, class)]
  <2> HIDE DEF h
  <2> QED BY <1>6 DEF Codec
<1> QED BY <1>7 DEF Inner

(***************************************************************************)
(* The functions of a class, applied.                                      *)
(***************************************************************************)
LEMMA CodecFunctions ==
    ASSUME NEW class \in Classes
    PROVE  /\ \A v \in Value :
                /\ Codec[class].encode[v] = Encode(class, Inner(class), v)
                /\ Codec[class].verify[v] = Verify(class, Inner(class), v)
                /\ Codec[class].inRange[v] = InRange(class, Inner(class), v)
                /\ Codec[class].regular[v] = Regular(class, Inner(class), v)
           /\ \A p \in Packet : Codec[class].decode[p] = Decode(class, Inner(class), p)
           /\ \A v, w \in Value :
                /\ Codec[class].same[<<v, w>>] = Same(class, Inner(class), v, w)
                /\ Codec[class].conveyed[<<v, w>>] = Conveyed(class, Inner(class), v, w)
<1>1. Codec[class] = CodecOf(class, Inner(class))
  BY CodecEquation
<1>2. /\ Codec[class].encode = [v \in Value |-> Encode(class, Inner(class), v)]
      /\ Codec[class].decode = [p \in Packet |-> Decode(class, Inner(class), p)]
  BY <1>1 DEF CodecOf
<1>3. /\ Codec[class].verify = [v \in Value |-> Verify(class, Inner(class), v)]
      /\ Codec[class].inRange = [v \in Value |-> InRange(class, Inner(class), v)]
      /\ Codec[class].regular = [v \in Value |-> Regular(class, Inner(class), v)]
  BY <1>1 DEF CodecOf
<1>4. /\ Codec[class].same =
            [pair \in Value \X Value |-> Same(class, Inner(class), pair[1], pair[2])]
      /\ Codec[class].conveyed =
            [pair \in Value \X Value |-> Conveyed(class, Inner(class), pair[1], pair[2])]
  BY <1>1 DEF CodecOf
<1>5. ASSUME NEW v \in Value, NEW w \in Value
      PROVE  /\ Codec[class].same[<<v, w>>] = Same(class, Inner(class), v, w)
             /\ Codec[class].conveyed[<<v, w>>] = Conveyed(class, Inner(class), v, w)
  <2> DEFINE pair == <<v, w>>
  <2>1. pair \in Value \X Value /\ pair[1] = v /\ pair[2] = w
    OBVIOUS
  <2> HIDE DEF pair
  <2>2. /\ Codec[class].same[pair] = Same(class, Inner(class), pair[1], pair[2])
        /\ Codec[class].conveyed[pair] = Conveyed(class, Inner(class), pair[1], pair[2])
    BY <1>4, <2>1, Zenon
  <2> QED BY <2>1, <2>2, Zenon DEF pair
<1>6. ASSUME NEW v \in Value
      PROVE  /\ Codec[class].encode[v] = Encode(class, Inner(class), v)
             /\ Codec[class].verify[v] = Verify(class, Inner(class), v)
             /\ Codec[class].inRange[v] = InRange(class, Inner(class), v)
             /\ Codec[class].regular[v] = Regular(class, Inner(class), v)
  BY <1>2, <1>3, Zenon
<1> QED BY <1>2, <1>5, <1>6, Zenon

-------------------------------------------------------------------------------
\* The items of a packet with at most d levels below the items.
ItemsOver(d) == [id : Nat, scalars : Seq(Nat), items : Level[d].packets]

(***************************************************************************)
(* A level in terms of the level below.                                    *)
(***************************************************************************)
LEMMA LevelParts ==
    ASSUME NEW d \in Nat, d + 1 \in 1..Depth
    PROVE  /\ Level[d + 1].values =
                [form : Form, is : Nat, own : SUBSET [name : STRING, values : Seq(Level[d].values)]]
           /\ Level[d + 1].packets = Seq(ItemsOver(d))
<1>1. Level[d + 1] = LevelOver(Level[d])
  <2>1. (d + 1) - 1 = d
    OBVIOUS
  <2> QED BY <2>1, LevelEquation
<1>2. LevelOver(Level[d]).values =
          [form : Form, is : Nat, own : SUBSET [name : STRING, values : Seq(Level[d].values)]]
  BY DEF LevelOver
<1>3. LevelOver(Level[d]).packets = Seq(ItemsOver(d))
  BY DEF LevelOver, ItemsOver
<1> QED BY <1>1, <1>2, <1>3

(***************************************************************************)
(* Sequences over a larger set.                                            *)
(***************************************************************************)
LEMMA SeqGrows ==
    ASSUME NEW A, NEW B, A \subseteq B
    PROVE  Seq(A) \subseteq Seq(B)
OBVIOUS

(***************************************************************************)
(* A sequence of one.                                                      *)
(***************************************************************************)
LEMMA OneIsSeq ==
    ASSUME NEW S, NEW x \in S
    PROVE  <<x>> \in Seq(S)
OBVIOUS

(***************************************************************************)
(* More below makes more above.                                            *)
(***************************************************************************)
LEMMA OverGrows ==
    ASSUME NEW a, NEW b, a.values \subseteq b.values, a.packets \subseteq b.packets
    PROVE  /\ LevelOver(a).values \subseteq LevelOver(b).values
           /\ LevelOver(a).packets \subseteq LevelOver(b).packets
<1>1. Seq(a.values) \subseteq Seq(b.values)
  BY SeqGrows
<1>2. [name : STRING, values : Seq(a.values)] \subseteq [name : STRING, values : Seq(b.values)]
  BY <1>1
<1>3. LevelOver(a).values \subseteq LevelOver(b).values
  <2> DEFINE P == [name : STRING, values : Seq(a.values)]
             Q == [name : STRING, values : Seq(b.values)]
  <2>1. P \subseteq Q
    BY <1>2
  <2> HIDE DEF P, Q
  <2>2. SUBSET P \subseteq SUBSET Q
    BY <2>1
  <2>3. [form : Form, is : Nat, own : SUBSET P] \subseteq [form : Form, is : Nat, own : SUBSET Q]
    BY <2>2
  <2> QED BY <2>3 DEF LevelOver, P, Q
<1>4. [id : Nat, scalars : Seq(Nat), items : a.packets]
        \subseteq [id : Nat, scalars : Seq(Nat), items : b.packets]
  OBVIOUS
<1>5. LevelOver(a).packets \subseteq LevelOver(b).packets
  BY <1>4, SeqGrows DEF LevelOver
<1> QED BY <1>3, <1>5

(***************************************************************************)
(* Each level contains the one below.                                      *)
(***************************************************************************)
LEMMA LevelStep ==
    \A d \in 1..Depth : /\ Level[d - 1].values \subseteq Level[d].values
                        /\ Level[d - 1].packets \subseteq Level[d].packets
<1> DEFINE Grows(d) == /\ Level[d].values \subseteq Level[d + 1].values
                       /\ Level[d].packets \subseteq Level[d + 1].packets
           T == {d \in Nat : d + 1 \in 1..Depth => Grows(d)}
<1>1. 0 \in T
  <2>1. Level[0] = Level0 /\ Level[0 + 1] = LevelOver(Level[0])
    BY LevelEquation, DepthType
  <2>2. Level[0].values \subseteq Level[0 + 1].values
    BY <2>1 DEF Level0, LevelOver
  <2>3. Level[0].packets \subseteq Level[0 + 1].packets
    BY <2>1 DEF Level0, LevelOver
  <2> QED BY <2>2, <2>3
<1>2. ASSUME NEW d \in Nat, d \in T PROVE d + 1 \in T
  <2> SUFFICES ASSUME (d + 1) + 1 \in 1..Depth PROVE Grows(d + 1)
    OBVIOUS
  <2>1. Grows(d)
    BY <1>2, DepthType
  <2>2. Level[d + 1] = LevelOver(Level[d]) /\ Level[(d + 1) + 1] = LevelOver(Level[d + 1])
    BY LevelEquation, DepthType
  <2> QED BY <2>1, <2>2, OverGrows
<1> HIDE DEF T
<1>3. \A d \in Nat : d \in T
  BY <1>1, <1>2, SetInduction
<1> SUFFICES ASSUME NEW d \in 1..Depth
             PROVE  /\ Level[d - 1].values \subseteq Level[d].values
                    /\ Level[d - 1].packets \subseteq Level[d].packets
  OBVIOUS
<1>4. d - 1 \in Nat /\ (d - 1) + 1 = d
  BY DepthType
<1>5. d - 1 \in T
  BY <1>3, <1>4
<1> QED BY <1>4, <1>5, Zenon DEF T

(***************************************************************************)
(* Each level contains all levels below.                                   *)
(***************************************************************************)
LEMMA LevelGrows ==
    ASSUME NEW d \in 0..Depth, NEW e \in 0..d
    PROVE  Level[e].values \subseteq Level[d].values /\ Level[e].packets \subseteq Level[d].packets
<1> DEFINE Within(k) == /\ Level[e].values \subseteq Level[k].values
                        /\ Level[e].packets \subseteq Level[k].packets
           T == {n \in Nat : e + n <= Depth => Within(e + n)}
<1>1. 0 \in T
  OBVIOUS
<1>2. ASSUME NEW n \in Nat, n \in T PROVE n + 1 \in T
  <2> SUFFICES ASSUME e + (n + 1) <= Depth PROVE Within(e + (n + 1))
    OBVIOUS
  <2>1. e + (n + 1) \in 1..Depth /\ (e + (n + 1)) - 1 = e + n /\ e + n <= Depth
    BY DepthType
  <2>2. Within(e + n)
    BY <1>2, <2>1
  <2>3. /\ Level[e + n].values \subseteq Level[e + (n + 1)].values
        /\ Level[e + n].packets \subseteq Level[e + (n + 1)].packets
    BY LevelStep, <2>1
  <2> QED BY <2>2, <2>3
<1> HIDE DEF T
<1>3. d - e \in Nat /\ e + (d - e) = d /\ d <= Depth
  BY DepthType
<1>4. d - e \in T
  BY <1>1, <1>2, <1>3, SetInduction
<1> QED BY <1>3, <1>4 DEF T

(***************************************************************************)
(* Scalars are values of every level.                                      *)
(***************************************************************************)
LEMMA ScalarType ==
    ASSUME NEW d \in 0..Depth, NEW form \in Form, NEW n \in Nat
    PROVE  Scalar(form, n) \in Level[d].values
<1>1. Scalar(form, n) \in Level[0].values
  BY LevelEquation DEF Level0, Scalar
<1>2. 0 \in 0..d
  BY DepthType
<1> QED BY <1>1, <1>2, LevelGrows

(***************************************************************************)
(* No items are a packet of every level.                                   *)
(***************************************************************************)
LEMMA EmptyPacket ==
    ASSUME NEW d \in 0..Depth
    PROVE  <<>> \in Level[d].packets
<1>1. <<>> \in Level[0].packets
  BY LevelEquation DEF Level0
<1>2. 0 \in 0..d
  BY DepthType
<1> QED BY <1>1, <1>2, LevelGrows

(***************************************************************************)
(* The properties of a value have lists of values.                         *)
(***************************************************************************)
LEMMA ValueParts ==
    ASSUME NEW v \in Value
    PROVE  /\ v.form \in Form /\ v.is \in Nat
           /\ v.own \in SUBSET [name : STRING, values : Seq(Value)]
           /\ \A name : Get(v, name) \in Seq(Value)
<1>1. Depth - 1 \in Nat /\ (Depth - 1) + 1 = Depth /\ Depth \in 1..Depth
  BY DepthType
<1>2. Value = [form : Form, is : Nat,
               own : SUBSET [name : STRING, values : Seq(Level[Depth - 1].values)]]
  BY <1>1, LevelParts DEF Value
<1>3. Level[Depth - 1].values \subseteq Value
  BY <1>1, LevelStep DEF Value
<1>4. Seq(Level[Depth - 1].values) \subseteq Seq(Value)
  BY <1>3, SeqGrows
<1>5. v.form \in Form /\ v.is \in Nat
  BY <1>2
<1>6. v.own \in SUBSET [name : STRING, values : Seq(Level[Depth - 1].values)]
  BY <1>2
<1>7. v.own \in SUBSET [name : STRING, values : Seq(Value)]
  BY <1>4, <1>6
<1>8. ASSUME NEW name PROVE Get(v, name) \in Seq(Value)
  <2> DEFINE with == {p \in v.own : p.name = name}
  <2>1. CASE with = {}
    BY <2>1 DEF Get
  <2>2. CASE with # {}
    <3>1. (CHOOSE p \in with : TRUE) \in with
      BY <2>2
    <3>2. (CHOOSE p \in with : TRUE).values \in Seq(Value)
      BY <3>1, <1>7
    <3> QED BY <2>2, <3>2 DEF Get
  <2> QED BY <2>1, <2>2
<1> QED BY <1>5, <1>7, <1>8

-------------------------------------------------------------------------------
(* What the schema says of a field. *)

(***************************************************************************)
(* The types of a field's parts.                                           *)
(***************************************************************************)
LEMMA FieldType ==
    ASSUME NEW class \in Classes, NEW f \in Schema[class]
    PROVE  /\ f.id \in 1..LastId(class) /\ f.id \in Nat /\ f.name \in STRING
           /\ IsScalar(f) => f.type \in ScalarTypes
           /\ ~IsScalar(f) => f.type \in MessageTypes(class)
           /\ LastId(class) \in Nat
           /\ class \in OneOfs => ~Repeated(f)
<1>1. /\ f \in [id : 1..LastId(class), name : STRING, type : ScalarTypes \cup Classes,
                label : {"plain", "repeated", "optional"}]
      /\ class \in OneOfs => ~Repeated(f)
      /\ LastId(class) \in Nat
  BY SchemaAssumption
<1>2. ~IsScalar(f) => f.type \in MessageTypes(class)
  BY <1>1 DEF IsScalar, MessageTypes
<1> QED BY <1>1, <1>2 DEF IsScalar

(***************************************************************************)
(* A number and a name stand for one field of a class.                     *)
(***************************************************************************)
LEMMA FieldsAreOne ==
    ASSUME NEW class \in Classes, NEW f \in Schema[class], NEW g \in Schema[class],
           f.id = g.id \/ f.name = g.name
    PROVE  f = g
BY SchemaAssumption DEF FieldsAreDistinct

(***************************************************************************)
(* The field found by a number has that number.                            *)
(***************************************************************************)
LEMMA FieldOfId ==
    ASSUME NEW class \in Classes, NEW i, HasField(class, i)
    PROVE  FieldOf(class, i) \in Schema[class] /\ FieldOf(class, i).id = i
BY DEF HasField, FieldOf

(***************************************************************************)
(* A field is found by its number.                                         *)
(***************************************************************************)
LEMMA FieldOfItsId ==
    ASSUME NEW class \in Classes, NEW f \in Schema[class]
    PROVE  HasField(class, f.id) /\ FieldOf(class, f.id) = f
<1>1. HasField(class, f.id)
  BY DEF HasField
<1> QED BY <1>1, FieldOfId, FieldsAreOne

(***************************************************************************)
(* A field that is a message uses the functions of its class.              *)
(***************************************************************************)
LEMMA InnerCodec ==
    ASSUME NEW class \in Classes, NEW f \in Schema[class], ~IsScalar(f)
    PROVE  /\ Inner(class)[f.type] = Codec[f.type]
           /\ f.type \in MessageTypes(class) /\ f.type \in Classes
           /\ Nesting[f.type] + 1 \in 0..Nesting[class]
<1>1. f.type \in MessageTypes(class)
  BY FieldType
<1> QED BY <1>1, NestingType DEF Inner

-------------------------------------------------------------------------------
(* The two loops. *)

\* What encode() has written after the fields numbered up to i.
WritesOn(class, inner, v, written) ==
    /\ written[0] = <<>>
    /\ \A i \in 1..LastId(class) :
        written[i] = IF HasField(class, i)
                     THEN written[i - 1] \o Items(FieldOf(class, i), inner,
                                                  Given(FieldOf(class, i), v))
                     ELSE written[i - 1]

(***************************************************************************)
(* The loop of encode() over the numbers of the fields is defined.         *)
(***************************************************************************)
LEMMA EncodeLoop ==
    ASSUME NEW class \in Classes, NEW inner, NEW v
    PROVE  \E written : /\ WritesOn(class, inner, v, written)
                        /\ Encode(class, inner, v) = written[LastId(class)]
<1> DEFINE n == LastId(class)
           Step(i, before) ==
                IF HasField(class, i)
                THEN before \o Items(FieldOf(class, i), inner, Given(FieldOf(class, i), v))
                ELSE before
           Follows(g, k) == \A i \in 0..k : g[i] = IF i = 0 THEN <<>> ELSE Step(i, g[i - 1])
           T == {k \in Nat : \E g : Follows(g, k)}
<1>0. n \in Nat
  BY SchemaAssumption
<1>1. 0 \in T
  <2>1. Follows([i \in {0} |-> <<>>], 0)
    OBVIOUS
  <2> QED BY <2>1
<1>2. ASSUME NEW k \in Nat, k \in T PROVE k + 1 \in T
  <2>1. PICK g : Follows(g, k)
    BY <1>2
  <2> DEFINE h == [i \in 0..(k + 1) |-> IF i <= k THEN g[i] ELSE Step(k + 1, g[k])]
  <2> HIDE DEF Step
  <2>2. ASSUME NEW i \in 0..(k + 1) PROVE h[i] = IF i = 0 THEN <<>> ELSE Step(i, h[i - 1])
    <3>1. CASE i <= k
      <4>1. i \in 0..k /\ h[i] = g[i] /\ (i # 0 => h[i - 1] = g[i - 1])
        BY <3>1
      <4> QED BY <4>1, <2>1
    <3>2. CASE i = k + 1
      <4>1. h[i] = Step(i, g[k]) /\ h[i - 1] = g[k] /\ i # 0
        BY <3>2
      <4> QED BY <4>1
    <3> QED BY <3>1, <3>2
  <2>3. Follows(h, k + 1)
    BY <2>2
  <2> HIDE DEF h, Follows
  <2> QED BY <2>3
<1> HIDE DEF T
<1>3. n \in T
  BY <1>0, <1>1, <1>2, SetInduction
<1>4. PICK g : Follows(g, n)
  BY <1>3 DEF T
<1> DEFINE h == [i \in 0..n |-> g[i]]
           written == CHOOSE w : w = [i \in 0..n |-> IF i = 0 THEN <<>> ELSE Step(i, w[i - 1])]
<1>5. h = [i \in 0..n |-> IF i = 0 THEN <<>> ELSE Step(i, h[i - 1])]
  <2> HIDE DEF Step
  <2>1. ASSUME NEW i \in 0..n PROVE h[i] = IF i = 0 THEN <<>> ELSE Step(i, h[i - 1])
    BY <1>0, <1>4
  <2> QED BY <2>1
<1>6. written = [i \in 0..n |-> IF i = 0 THEN <<>> ELSE Step(i, written[i - 1])]
  <2> HIDE DEF h, Step
  <2> QED BY <1>5
<1>7. Encode(class, inner, v) = written[n]
  BY DEF Encode
<1>8. WritesOn(class, inner, v, written)
  <2> HIDE DEF written
  <2>1. \A i \in 0..n : written[i] = IF i = 0 THEN <<>> ELSE Step(i, written[i - 1])
    BY <1>6
  <2> QED BY <1>0, <2>1 DEF WritesOn
<1> HIDE DEF written
<1> QED BY <1>7, <1>8

\* What the constructor gives, and what decode() has read after k items.
Blank(class) == [name \in {f.name : f \in Schema[class]} |-> <<>>]
ReadsOn(class, inner, items, read) ==
    /\ read[0] = Blank(class)
    /\ \A k \in 1..Len(items) : read[k] = ReadItem(class, inner, read[k - 1], items[k])

(***************************************************************************)
(* The loop of decode() over the items is defined.                         *)
(***************************************************************************)
LEMMA DecodeLoop ==
    ASSUME NEW class, NEW inner, NEW S, NEW items \in Seq(S)
    PROVE  \E read : /\ ReadsOn(class, inner, items, read)
                     /\ ReadItems(class, inner, items) = read[Len(items)]
<1> DEFINE n == Len(items)
           Step(k, before) == ReadItem(class, inner, before, items[k])
           Follows(g, m) == \A k \in 0..m : g[k] = IF k = 0 THEN Blank(class) ELSE Step(k, g[k - 1])
           T == {m \in Nat : \E g : Follows(g, m)}
<1>0. n \in Nat
  OBVIOUS
<1>1. 0 \in T
  <2>1. Follows([k \in {0} |-> Blank(class)], 0)
    OBVIOUS
  <2> QED BY <2>1
<1>2. ASSUME NEW m \in Nat, m \in T PROVE m + 1 \in T
  <2>1. PICK g : Follows(g, m)
    BY <1>2
  <2> DEFINE h == [k \in 0..(m + 1) |-> IF k <= m THEN g[k] ELSE Step(m + 1, g[m])]
  <2> HIDE DEF Step
  <2>2. ASSUME NEW k \in 0..(m + 1) PROVE h[k] = IF k = 0 THEN Blank(class) ELSE Step(k, h[k - 1])
    <3>1. CASE k <= m
      <4>1. k \in 0..m /\ h[k] = g[k] /\ (k # 0 => h[k - 1] = g[k - 1])
        BY <3>1
      <4> QED BY <4>1, <2>1
    <3>2. CASE k = m + 1
      <4>1. h[k] = Step(k, g[m]) /\ h[k - 1] = g[m] /\ k # 0
        BY <3>2
      <4> QED BY <4>1
    <3> QED BY <3>1, <3>2
  <2>3. Follows(h, m + 1)
    BY <2>2
  <2> HIDE DEF h, Follows
  <2> QED BY <2>3
<1> HIDE DEF T
<1>3. n \in T
  BY <1>0, <1>1, <1>2, SetInduction
<1>4. PICK g : Follows(g, n)
  BY <1>3 DEF T
<1> DEFINE h == [k \in 0..n |-> g[k]]
           read == CHOOSE r : r = [k \in 0..n |-> IF k = 0 THEN Blank(class) ELSE Step(k, r[k - 1])]
<1>5. h = [k \in 0..n |-> IF k = 0 THEN Blank(class) ELSE Step(k, h[k - 1])]
  <2> HIDE DEF Step
  <2>1. ASSUME NEW k \in 0..n PROVE h[k] = IF k = 0 THEN Blank(class) ELSE Step(k, h[k - 1])
    BY <1>0, <1>4
  <2> QED BY <2>1
<1>6. read = [k \in 0..n |-> IF k = 0 THEN Blank(class) ELSE Step(k, read[k - 1])]
  <2> HIDE DEF h, Step
  <2> QED BY <1>5
<1>7. ReadItems(class, inner, items) = read[n]
  BY DEF ReadItems, Blank
<1>8. ReadsOn(class, inner, items, read)
  <2> HIDE DEF read
  <2>1. \A k \in 0..n : read[k] = IF k = 0 THEN Blank(class) ELSE Step(k, read[k - 1])
    BY <1>6
  <2> QED BY <1>0, <2>1 DEF ReadsOn
<1> HIDE DEF read
<1> QED BY <1>7, <1>8

(***************************************************************************)
(* Without items decode() keeps what the constructor gives.                *)
(***************************************************************************)
LEMMA ReadEmpty ==
    ASSUME NEW class, NEW inner
    PROVE  ReadItems(class, inner, <<>>) = Blank(class)
<1>1. <<>> \in Seq({}) /\ Len(<<>>) = 0
  OBVIOUS
<1>2. PICK read : ReadsOn(class, inner, <<>>, read) /\ ReadItems(class, inner, <<>>) = read[0]
  BY <1>1, DecodeLoop
<1> QED BY <1>2 DEF ReadsOn

(***************************************************************************)
(* Reading one item more.                                                  *)
(***************************************************************************)
LEMMA ReadAppend ==
    ASSUME NEW class, NEW inner, NEW S, NEW items \in Seq(S), NEW x \in S
    PROVE  ReadItems(class, inner, Append(items, x)) =
                ReadItem(class, inner, ReadItems(class, inner, items), x)
<1> DEFINE n == Len(items)
           more == Append(items, x)
<1>1. /\ more \in Seq(S) /\ n \in Nat /\ Len(more) = n + 1 /\ more[n + 1] = x
      /\ \A k \in 1..n : more[k] = items[k]
  OBVIOUS
<1> HIDE DEF more
<1>2. PICK read : ReadsOn(class, inner, items, read) /\ ReadItems(class, inner, items) = read[n]
  BY DecodeLoop
<1>3. PICK later : ReadsOn(class, inner, more, later)
                   /\ ReadItems(class, inner, more) = later[n + 1]
  BY <1>1, DecodeLoop
<1> DEFINE T == {k \in Nat : k <= n => later[k] = read[k]}
<1>4. 0 \in T
  BY <1>2, <1>3 DEF ReadsOn
<1>5. ASSUME NEW k \in Nat, k \in T PROVE k + 1 \in T
  <2> SUFFICES ASSUME k + 1 <= n PROVE later[k + 1] = read[k + 1]
    OBVIOUS
  <2>1. k + 1 \in 1..n /\ (k + 1) - 1 = k /\ later[k] = read[k] /\ k + 1 \in 1..(n + 1)
    BY <1>1, <1>5
  <2>2. read[k + 1] = ReadItem(class, inner, read[k], items[k + 1])
    BY <1>2, <2>1 DEF ReadsOn
  <2>3. later[k + 1] = ReadItem(class, inner, later[k], more[k + 1])
    BY <1>1, <1>3, <2>1 DEF ReadsOn
  <2> QED BY <1>1, <2>1, <2>2, <2>3
<1> HIDE DEF T
<1>6. n \in T
  BY <1>1, <1>4, <1>5, SetInduction
<1>7. later[n] = read[n]
  BY <1>1, <1>6 DEF T
<1>8. later[n + 1] = ReadItem(class, inner, later[n], more[n + 1])
  <2>1. n + 1 \in 1..Len(more) /\ (n + 1) - 1 = n
    BY <1>1
  <2> QED BY <1>3, <2>1 DEF ReadsOn
<1> QED BY <1>1, <1>2, <1>3, <1>7, <1>8 DEF more

(***************************************************************************)
(* One more element of a sequence that is being appended.                  *)
(***************************************************************************)
LEMMA OneMore ==
    ASSUME NEW S, NEW p \in Seq(S), NEW t \in Seq(S), NEW n \in Nat, n + 1 <= Len(t)
    PROVE  /\ p \o SubSeq(t, 1, n) \in Seq(S)
           /\ t[n + 1] \in S
           /\ p \o SubSeq(t, 1, n + 1) = Append(p \o SubSeq(t, 1, n), t[n + 1])
<1> DEFINE a == p \o SubSeq(t, 1, n)
           b == p \o SubSeq(t, 1, n + 1)
<1>1. SubSeq(t, 1, n) \in Seq(S) /\ SubSeq(t, 1, n + 1) \in Seq(S) /\ t[n + 1] \in S
  OBVIOUS
<1>2. a \in Seq(S) /\ b \in Seq(S) /\ Append(a, t[n + 1]) \in Seq(S)
  BY <1>1
<1>3. Len(a) = Len(p) + n /\ Len(b) = Len(p) + n + 1
  OBVIOUS
<1>4. ASSUME NEW k \in 1..(Len(p) + n + 1) PROVE b[k] = Append(a, t[n + 1])[k]
  <2>1. CASE k <= Len(p)
    BY <2>1
  <2>2. CASE k > Len(p) /\ k <= Len(p) + n
    BY <2>2
  <2>3. CASE k = Len(p) + n + 1
    BY <2>3
  <2> QED BY <2>1, <2>2, <2>3
<1> HIDE DEF a, b
<1>5. Len(Append(a, t[n + 1])) = Len(p) + n + 1
  <2>1. Len(Append(a, t[n + 1])) = Len(a) + 1
    BY <1>1, <1>2
  <2> QED BY <1>3, <2>1
<1>6. b = Append(a, t[n + 1])
  BY <1>2, <1>3, <1>4, <1>5
<1> QED BY <1>1, <1>2, <1>6 DEF a, b

(***************************************************************************)
(* The first and the last step of appending a sequence.                    *)
(***************************************************************************)
LEMMA NoneOrAll ==
    ASSUME NEW S, NEW p \in Seq(S), NEW t \in Seq(S)
    PROVE  p \o SubSeq(t, 1, 0) = p /\ p \o SubSeq(t, 1, Len(t)) = p \o t
<1>1. SubSeq(t, 1, 0) = <<>> /\ SubSeq(t, 1, Len(t)) = t
  OBVIOUS
<1> QED BY <1>1

(***************************************************************************)
(* What is read from further items depends on what has been read, not on   *)
(* the items it was read from.                                             *)
(***************************************************************************)
LEMMA ReadAlike ==
    ASSUME NEW class, NEW inner, NEW S, NEW p \in Seq(S), NEW q \in Seq(S), NEW t \in Seq(S),
           ReadItems(class, inner, p) = ReadItems(class, inner, q)
    PROVE  ReadItems(class, inner, p \o t) = ReadItems(class, inner, q \o t)
<1> DEFINE P(n) == p \o SubSeq(t, 1, n)
           Q(n) == q \o SubSeq(t, 1, n)
           T == {n \in Nat : n <= Len(t) =>
                    ReadItems(class, inner, P(n)) = ReadItems(class, inner, Q(n))}
<1>1. 0 \in T
  BY NoneOrAll
<1>2. ASSUME NEW n \in Nat, n \in T PROVE n + 1 \in T
  <2> SUFFICES ASSUME n + 1 <= Len(t)
               PROVE  ReadItems(class, inner, P(n + 1)) = ReadItems(class, inner, Q(n + 1))
    OBVIOUS
  <2>1. ReadItems(class, inner, P(n)) = ReadItems(class, inner, Q(n))
    BY <1>2
  <2>2. /\ P(n) \in Seq(S) /\ Q(n) \in Seq(S) /\ t[n + 1] \in S
        /\ P(n + 1) = Append(P(n), t[n + 1]) /\ Q(n + 1) = Append(Q(n), t[n + 1])
    BY OneMore
  <2> HIDE DEF P, Q
  <2>3. ReadItems(class, inner, Append(P(n), t[n + 1])) =
            ReadItem(class, inner, ReadItems(class, inner, P(n)), t[n + 1])
    BY <2>2, ReadAppend
  <2>4. ReadItems(class, inner, Append(Q(n), t[n + 1])) =
            ReadItem(class, inner, ReadItems(class, inner, Q(n)), t[n + 1])
    BY <2>2, ReadAppend
  <2> QED BY <2>1, <2>2, <2>3, <2>4
<1>3. P(Len(t)) = p \o t /\ Q(Len(t)) = q \o t /\ Len(t) \in Nat
  BY NoneOrAll
<1> HIDE DEF T
<1>4. Len(t) \in T
  BY <1>1, <1>2, <1>3, SetInduction
<1>5. ReadItems(class, inner, P(Len(t))) = ReadItems(class, inner, Q(Len(t)))
  BY <1>3, <1>4 DEF T
<1> HIDE DEF P, Q
<1> QED BY <1>3, <1>5

(***************************************************************************)
(* An item of a field that the class does not have changes nothing,        *)
(* wherever it stands: reader.skipType().                                  *)
(***************************************************************************)
LEMMA SkipUnknown ==
    ASSUME NEW class, NEW inner, NEW S, NEW items \in Seq(S), NEW x \in S,
           ~HasField(class, x.id), NEW k \in 1..(Len(items) + 1)
    PROVE  ReadItems(class, inner, InsertAt(items, k, x)) = ReadItems(class, inner, items)
<1> DEFINE p == SubSeq(items, 1, k - 1)
           t == SubSeq(items, k, Len(items))
<1>1. p \in Seq(S) /\ t \in Seq(S) /\ <<x>> \in Seq(S)
  OBVIOUS
<1>2. p \o t = items
  <2>1. 1 \in 1..(Len(items) + 1) /\ k - 1 \in (1 - 1)..Len(items)
        /\ Len(items) \in (k - 1)..Len(items) /\ (k - 1) + 1 = k
    OBVIOUS
  <2>2. SubSeq(items, 1, k - 1) \o SubSeq(items, (k - 1) + 1, Len(items))
            = SubSeq(items, 1, Len(items))
    BY <2>1, ConcatAdjacentSubSeq
  <2> QED BY <2>1, <2>2, SubSeqFull
<1>3. InsertAt(items, k, x) = Append(p, x) \o t
  <2>1. p \o <<x>> = Append(p, x)
    BY <1>1
  <2> QED BY <2>1 DEF InsertAt
<1> DEFINE q == Append(p, x)
<1> HIDE DEF p, t
<1>4. ReadItems(class, inner, q) = ReadItems(class, inner, p)
  BY <1>1, ReadAppend DEF ReadItem
<1>5. q \in Seq(S)
  BY <1>1
<1> HIDE DEF q
<1>6. ReadItems(class, inner, q \o t) = ReadItems(class, inner, p \o t)
  BY <1>1, <1>4, <1>5, ReadAlike
<1> QED BY <1>2, <1>3, <1>6 DEF q

-------------------------------------------------------------------------------
(* What encode() writes and decode() returns. *)

(***************************************************************************)
(* A packet is a sequence of items that hold packets.                      *)
(***************************************************************************)
LEMMA PacketParts ==
    /\ Packet = Seq(ItemsOver(Depth - 1))
    /\ \A item \in ItemsOver(Depth - 1) :
        /\ item.id \in Nat /\ item.scalars \in Seq(Nat) /\ item.items \in Packet
<1>1. Depth - 1 \in Nat /\ (Depth - 1) + 1 = Depth /\ Depth \in 1..Depth
  BY DepthType
<1>2. Packet = Seq(ItemsOver(Depth - 1))
  BY <1>1, LevelParts DEF Packet
<1>3. Level[Depth - 1].packets \subseteq Packet
  BY <1>1, LevelStep DEF Packet
<1> QED BY <1>2, <1>3 DEF ItemsOver

(***************************************************************************)
(* Every level consists of values and packets.                             *)
(***************************************************************************)
LEMMA LevelsWithin ==
    ASSUME NEW d \in 0..Depth
    PROVE  Level[d].values \subseteq Value /\ Level[d].packets \subseteq Packet
<1>1. Depth \in 0..Depth
  BY DepthType
<1> QED BY <1>1, LevelGrows DEF Value, Packet

(***************************************************************************)
(* A scalar is written as a number.                                        *)
(***************************************************************************)
LEMMA WriteScalarType ==
    ASSUME NEW type \in ScalarTypes, NEW v \in Value
    PROVE  WriteScalar(type, v) \in Nat
<1>1. v.is \in Nat
  BY ValueParts
<1>2. CASE type \in {"uint32", "uint64"}
  <2>1. Limit[type] \in Nat \ {0}
    BY <1>2, LimitAssumption
  <2>2. v.is % Limit[type] \in Nat
    BY <1>1, <2>1
  <2> QED BY <1>2, <2>2 DEF WriteScalar
<1> QED BY <1>1, <1>2 DEF WriteScalar

(***************************************************************************)
(* A scalar is read as a value of any level.                               *)
(***************************************************************************)
LEMMA ReadScalarType ==
    ASSUME NEW type, NEW n \in Nat, NEW d \in 0..Depth
    PROVE  ReadScalar(type, n) \in Level[d].values
<1> DEFINE form == CASE type = "uint64" -> "Long" [] type = "uint32" -> "Number"
                     [] type = "bool" -> "Boolean" [] type = "string" -> "String"
                     [] OTHER -> "Bytes"
<1>1. form \in Form
  BY DEF Form
<1>2. ReadScalar(type, n) = Scalar(form, n)
  BY DEF ReadScalar
<1> HIDE DEF form
<1> QED BY <1>1, <1>2, ScalarType

\* The codec of a class keeps to the levels that the nesting of the class allows.
KeepsLevel(class) ==
    /\ \A v \in Value : Codec[class].encode[v] \in Level[Nesting[class] + 1].packets
    /\ \A p \in Packet : Codec[class].decode[p] \in Level[Nesting[class] + 1].values

(***************************************************************************)
(* What the functions of a field's class return is one level below.        *)
(***************************************************************************)
LEMMA InnerKeepsLevel ==
    ASSUME NEW class \in Classes, \A type \in MessageTypes(class) : KeepsLevel(type),
           NEW f \in Schema[class], ~IsScalar(f)
    PROVE  /\ \A v \in Value : Inner(class)[f.type].encode[v] \in Level[Nesting[class]].packets
           /\ \A p \in Packet : Inner(class)[f.type].decode[p] \in Level[Nesting[class]].values
<1>1. /\ Inner(class)[f.type] = Codec[f.type] /\ KeepsLevel(f.type)
      /\ Nesting[f.type] + 1 \in 0..Nesting[class]
  BY InnerCodec
<1>2. Nesting[class] \in 0..Depth
  BY NestingType, DepthType
<1>3. /\ Level[Nesting[f.type] + 1].values \subseteq Level[Nesting[class]].values
      /\ Level[Nesting[f.type] + 1].packets \subseteq Level[Nesting[class]].packets
  BY <1>1, <1>2, LevelGrows
<1> QED BY <1>1, <1>3 DEF KeepsLevel

(***************************************************************************)
(* The items of a field are items of the level of its class.               *)
(***************************************************************************)
LEMMA ItemsType ==
    ASSUME NEW class \in Classes, \A type \in MessageTypes(class) : KeepsLevel(type),
           NEW f \in Schema[class], NEW values \in Seq(Value)
    PROVE  Items(f, Inner(class), values) \in Seq(ItemsOver(Nesting[class]))
<1> DEFINE n == Nesting[class]
           One(k) == IF IsScalar(f) THEN Item(f.id, <<WriteScalar(f.type, values[k])>>, <<>>)
                     ELSE Item(f.id, <<>>, Inner(class)[f.type].encode[values[k]])
<1>1. n \in 0..Depth /\ <<>> \in Level[n].packets /\ f.id \in Nat
  BY NestingType, DepthType, EmptyPacket, FieldType
<1>2. DOMAIN values = 1..Len(values) /\ Len(values) \in Nat
      /\ \A k \in 1..Len(values) : values[k] \in Value
  OBVIOUS
<1>3. CASE values # <<>> /\ Repeated(f) /\ f.type = "uint64"
  <2>1. f.type \in ScalarTypes
    BY <1>3 DEF ScalarTypes
  <2> DEFINE scalars == [k \in DOMAIN values |-> WriteScalar(f.type, values[k])]
  <2>2. scalars \in Seq(Nat)
    BY <1>2, <2>1, WriteScalarType
  <2> HIDE DEF scalars
  <2>3. Item(f.id, scalars, <<>>) \in ItemsOver(n)
    BY <1>1, <2>2 DEF Item, ItemsOver
  <2>4. Items(f, Inner(class), values) = <<Item(f.id, scalars, <<>>)>>
    BY <1>3 DEF Items, scalars
  <2> QED BY <2>3, <2>4
<1>4. CASE ~(values # <<>> /\ Repeated(f) /\ f.type = "uint64")
  <2>1. ASSUME NEW k \in 1..Len(values) PROVE One(k) \in ItemsOver(n)
    <3>1. CASE IsScalar(f)
      <4>1. WriteScalar(f.type, values[k]) \in Nat
        BY <1>2, <3>1, FieldType, WriteScalarType
      <4>2. <<WriteScalar(f.type, values[k])>> \in Seq(Nat)
        BY <4>1
      <4> QED BY <1>1, <3>1, <4>2 DEF Item, ItemsOver
    <3>2. CASE ~IsScalar(f)
      <4>1. Inner(class)[f.type].encode[values[k]] \in Level[n].packets
        BY <1>2, <3>2, InnerKeepsLevel
      <4> QED BY <1>1, <3>2, <4>1 DEF Item, ItemsOver
    <3> QED BY <3>1, <3>2
  <2>2. Items(f, Inner(class), values) = [k \in DOMAIN values |-> One(k)]
    BY <1>4 DEF Items
  <2> HIDE DEF One
  <2>3. [k \in 1..Len(values) |-> One(k)] \in Seq(ItemsOver(n))
    BY <1>2, <2>1
  <2> QED BY <1>2, <2>2, <2>3
<1> QED BY <1>3, <1>4

(***************************************************************************)
(* What is given for a field is a list of values.                          *)
(***************************************************************************)
LEMMA GivenType ==
    ASSUME NEW v \in Value, NEW f
    PROVE  Given(f, v) = Get(v, f.name) /\ Given(f, v) \in Seq(Value)
BY ValueParts DEF Given

(***************************************************************************)
(* What encode() has written is a packet at every turn of its loop.        *)
(***************************************************************************)
LEMMA EncodeType ==
    ASSUME NEW class \in Classes, \A type \in MessageTypes(class) : KeepsLevel(type),
           NEW v \in Value, NEW written, WritesOn(class, Inner(class), v, written)
    PROVE  \A i \in 0..LastId(class) : written[i] \in Seq(ItemsOver(Nesting[class]))
<1> DEFINE n == Nesting[class]
           T == {i \in Nat : i <= LastId(class) => written[i] \in Seq(ItemsOver(n))}
<1>1. 0 \in T
  <2>1. written[0] = <<>> /\ <<>> \in Seq(ItemsOver(n))
    BY EmptySeq DEF WritesOn
  <2> QED BY <2>1
<1>2. ASSUME NEW i \in Nat, i \in T PROVE i + 1 \in T
  <2> SUFFICES ASSUME i + 1 <= LastId(class) PROVE written[i + 1] \in Seq(ItemsOver(n))
    OBVIOUS
  <2>1. i + 1 \in 1..LastId(class) /\ (i + 1) - 1 = i /\ written[i] \in Seq(ItemsOver(n))
    BY <1>2, SchemaAssumption
  <2> DEFINE f == FieldOf(class, i + 1)
  <2>2. CASE HasField(class, i + 1)
    <3>1. f \in Schema[class]
      BY <2>2, FieldOfId
    <3>2. Items(f, Inner(class), Given(f, v)) \in Seq(ItemsOver(n))
      BY <3>1, ItemsType, GivenType
    <3>3. written[i + 1] = written[i] \o Items(f, Inner(class), Given(f, v))
      BY <2>1, <2>2 DEF WritesOn
    <3> HIDE DEF f
    <3> QED BY <2>1, <3>2, <3>3
  <2>3. CASE ~HasField(class, i + 1)
    BY <2>1, <2>3 DEF WritesOn
  <2> QED BY <2>2, <2>3
<1> HIDE DEF T
<1>3. \A i \in Nat : i \in T
  BY <1>1, <1>2, SetInduction
<1> QED BY <1>3, SchemaAssumption DEF T

\* What the loop of decode() keeps: a list of values for every field.
Fields(class, d) == [{f.name : f \in Schema[class]} -> Seq(Level[d].values)]

(***************************************************************************)
(* The elements of an item are values.                                     *)
(***************************************************************************)
LEMMA ElementsType ==
    ASSUME NEW class \in Classes, \A type \in MessageTypes(class) : KeepsLevel(type),
           NEW f \in Schema[class], NEW item \in ItemsOver(Depth - 1)
    PROVE  Elements(f, Inner(class), item) \in Seq(Level[Nesting[class]].values)
<1>1. Nesting[class] \in 0..Depth
  BY NestingType, DepthType
<1>2. item.scalars \in Seq(Nat) /\ item.items \in Packet
  BY PacketParts
<1>3. CASE IsScalar(f)
  <2>1. DOMAIN item.scalars = 1..Len(item.scalars) /\ Len(item.scalars) \in Nat
        /\ \A k \in 1..Len(item.scalars) : item.scalars[k] \in Nat
    BY <1>2
  <2>2. \A k \in 1..Len(item.scalars) :
            ReadScalar(f.type, item.scalars[k]) \in Level[Nesting[class]].values
    BY <1>1, <2>1, ReadScalarType
  <2>3. [k \in 1..Len(item.scalars) |-> ReadScalar(f.type, item.scalars[k])]
            \in Seq(Level[Nesting[class]].values)
    BY <2>1, <2>2
  <2> QED BY <1>3, <2>1, <2>3 DEF Elements
<1>4. CASE ~IsScalar(f)
  <2>1. Inner(class)[f.type].decode[item.items] \in Level[Nesting[class]].values
    BY <1>2, <1>4, InnerKeepsLevel
  <2>2. Elements(f, Inner(class), item) = <<Inner(class)[f.type].decode[item.items]>>
    BY <1>4 DEF Elements
  <2> QED BY <2>1, <2>2, OneIsSeq
<1> QED BY <1>3, <1>4

(***************************************************************************)
(* Reading an item keeps a list of values for every field.                 *)
(***************************************************************************)
LEMMA ReadItemType ==
    ASSUME NEW class \in Classes, \A type \in MessageTypes(class) : KeepsLevel(type),
           NEW fields \in Fields(class, Nesting[class]), NEW item \in ItemsOver(Depth - 1)
    PROVE  ReadItem(class, Inner(class), fields, item) \in Fields(class, Nesting[class])
<1>1. CASE HasField(class, item.id)
  <2> DEFINE f == FieldOf(class, item.id)
             read == Elements(f, Inner(class), item)
  <2>1. f \in Schema[class]
    BY <1>1, FieldOfId
  <2>2. read \in Seq(Level[Nesting[class]].values)
    BY <2>1, ElementsType
  <2>3. ReadItem(class, Inner(class), fields, item) =
            [fields EXCEPT ![f.name] = IF Repeated(f) THEN fields[f.name] \o read ELSE read]
    BY <1>1 DEF ReadItem, Put
  <2>4. f.name \in {g.name : g \in Schema[class]}
    BY <2>1
  <2>5. fields[f.name] \in Seq(Level[Nesting[class]].values)
    BY <2>4 DEF Fields
  <2> HIDE DEF f, read
  <2>6. fields[f.name] \o read \in Seq(Level[Nesting[class]].values)
    BY <2>2, <2>5, ConcatProperties
  <2> QED BY <2>2, <2>3, <2>4, <2>6 DEF Fields
<1>2. CASE ~HasField(class, item.id)
  BY <1>2 DEF ReadItem
<1> QED BY <1>1, <1>2

(***************************************************************************)
(* So does reading a packet.                                               *)
(***************************************************************************)
LEMMA ReadItemsType ==
    ASSUME NEW class \in Classes, \A type \in MessageTypes(class) : KeepsLevel(type),
           NEW p \in Packet
    PROVE  ReadItems(class, Inner(class), p) \in Fields(class, Nesting[class])
<1> DEFINE S == ItemsOver(Depth - 1)
<1>1. p \in Seq(S)
  BY PacketParts
<1>2. PICK read : /\ ReadsOn(class, Inner(class), p, read)
                  /\ ReadItems(class, Inner(class), p) = read[Len(p)]
  BY <1>1, DecodeLoop
<1> DEFINE T == {k \in Nat : k <= Len(p) => read[k] \in Fields(class, Nesting[class])}
<1>3. 0 \in T
  <2>1. <<>> \in Seq(Level[Nesting[class]].values)
    BY EmptySeq
  <2>2. Blank(class) \in Fields(class, Nesting[class])
    BY <2>1 DEF Blank, Fields
  <2> QED BY <1>2, <2>2 DEF ReadsOn
<1>4. ASSUME NEW k \in Nat, k \in T PROVE k + 1 \in T
  <2> SUFFICES ASSUME k + 1 <= Len(p) PROVE read[k + 1] \in Fields(class, Nesting[class])
    OBVIOUS
  <2>1. k + 1 \in 1..Len(p) /\ (k + 1) - 1 = k /\ p[k + 1] \in S
        /\ read[k] \in Fields(class, Nesting[class])
    BY <1>1, <1>4
  <2>2. read[k + 1] = ReadItem(class, Inner(class), read[k], p[k + 1])
    BY <1>2, <2>1 DEF ReadsOn
  <2> QED BY <2>1, <2>2, ReadItemType
<1> HIDE DEF T
<1>5. Len(p) \in T /\ Len(p) \in Nat
  BY <1>1, <1>3, <1>4, SetInduction
<1> QED BY <1>2, <1>5 DEF T

(***************************************************************************)
(* encode() and decode() of every class keep to the levels that its        *)
(* nesting allows.                                                         *)
(***************************************************************************)
LEMMA CodecKeepsLevel ==
    \A class \in Classes : KeepsLevel(class)
<1> DEFINE T == {class \in Classes : KeepsLevel(class)}
<1>1. ASSUME NEW class \in Classes, MessageTypes(class) \subseteq T PROVE KeepsLevel(class)
  <2> DEFINE n == Nesting[class]
  <2>1. \A type \in MessageTypes(class) : KeepsLevel(type)
    BY <1>1
  <2>2. n \in Nat /\ n + 1 \in 1..Depth /\ LastId(class) \in Nat
    BY NestingType, SchemaAssumption
  <2>3. ASSUME NEW v \in Value PROVE Codec[class].encode[v] \in Level[n + 1].packets
    <3>1. PICK written : /\ WritesOn(class, Inner(class), v, written)
                         /\ Encode(class, Inner(class), v) = written[LastId(class)]
      BY EncodeLoop
    <3>2. written[LastId(class)] \in Seq(ItemsOver(n))
      BY <2>1, <2>2, <3>1, EncodeType
    <3> QED BY <2>2, <3>1, <3>2, CodecFunctions, LevelParts
  <2>4. ASSUME NEW p \in Packet PROVE Codec[class].decode[p] \in Level[n + 1].values
    <3> DEFINE fields == ReadItems(class, Inner(class), p)
               Own == {f \in Schema[class] : Repeated(f) \/ fields[f.name] # <<>>}
               own == {Property(f.name, fields[f.name]) : f \in Own}
    <3>1. Codec[class].decode[p] = Object(own)
      BY CodecFunctions DEF Decode, Filled
    <3>2. fields \in Fields(class, n)
      BY <2>1, ReadItemsType
    <3> HIDE DEF fields
    <3>3. ASSUME NEW f \in Schema[class]
          PROVE  Property(f.name, fields[f.name])
                    \in [name : STRING, values : Seq(Level[n].values)]
      <4>1. f.name \in STRING /\ fields[f.name] \in Seq(Level[n].values)
        BY <3>2, FieldType DEF Fields
      <4> QED BY <4>1 DEF Property
    <3>4. own \in SUBSET [name : STRING, values : Seq(Level[n].values)]
      BY <3>3
    <3> HIDE DEF own
    <3>5. Object(own) \in [form : Form, is : Nat,
                           own : SUBSET [name : STRING, values : Seq(Level[n].values)]]
      BY <3>4 DEF Object, Form
    <3> QED BY <2>2, <3>1, <3>5, LevelParts
  <2> QED BY <2>3, <2>4 DEF KeepsLevel
<1> HIDE DEF T
<1>2. \A class \in Classes : MessageTypes(class) \subseteq T => class \in T
  BY <1>1 DEF T
<1>3. Classes \subseteq T
  BY <1>2, ClassInduction
<1> QED BY <1>3 DEF T

(***************************************************************************)
(* encode() returns packets, and decode() values.                          *)
(***************************************************************************)
LEMMA CodecType ==
    ASSUME NEW class \in Classes
    PROVE  /\ \A v \in Value : Codec[class].encode[v] \in Packet
           /\ \A p \in Packet : Codec[class].decode[p] \in Value
<1>1. Nesting[class] + 1 \in 0..Depth
  BY NestingType
<1> QED BY <1>1, CodecKeepsLevel, LevelsWithin DEF KeepsLevel

-------------------------------------------------------------------------------
(* decode() after encode(). *)

\* What becomes of a value of a field, and of all of them.
Copy(f, inner, x) ==
    IF IsScalar(f) THEN ReadScalar(f.type, WriteScalar(f.type, x))
    ELSE inner[f.type].decode[inner[f.type].encode[x]]
Copies(f, inner, values) == [k \in DOMAIN values |-> Copy(f, inner, values[k])]

(***************************************************************************)
(* A copy is a value.                                                      *)
(***************************************************************************)
LEMMA CopyType ==
    ASSUME NEW class \in Classes, NEW f \in Schema[class], NEW x \in Value
    PROVE  Copy(f, Inner(class), x) \in Value
<1>1. CASE IsScalar(f)
  <2>1. WriteScalar(f.type, x) \in Nat
    BY <1>1, FieldType, WriteScalarType
  <2>2. Depth \in 0..Depth
    BY DepthType
  <2> QED BY <1>1, <2>1, <2>2, ReadScalarType DEF Copy, Value
<1>2. CASE ~IsScalar(f)
  BY <1>2, InnerCodec, CodecType DEF Copy
<1> QED BY <1>1, <1>2

(***************************************************************************)
(* There are as many copies as values.                                     *)
(***************************************************************************)
LEMMA CopiesType ==
    ASSUME NEW class \in Classes, NEW f \in Schema[class], NEW values \in Seq(Value)
    PROVE  /\ Copies(f, Inner(class), values) \in Seq(Value)
           /\ Len(Copies(f, Inner(class), values)) = Len(values)
           /\ \A k \in 1..Len(values) : values[k] \in Value
                /\ Copies(f, Inner(class), values)[k] = Copy(f, Inner(class), values[k])
<1>1. DOMAIN values = 1..Len(values) /\ Len(values) \in Nat
      /\ \A k \in 1..Len(values) : values[k] \in Value
  OBVIOUS
<1>2. \A k \in 1..Len(values) : Copy(f, Inner(class), values[k]) \in Value
  BY <1>1, CopyType
<1>3. Copies(f, Inner(class), values) = [k \in 1..Len(values) |-> Copy(f, Inner(class), values[k])]
  BY <1>1 DEF Copies
<1> QED BY <1>1, <1>2, <1>3

\* The item that stands for one value.
ItemOf(f, inner, x) ==
    IF IsScalar(f) THEN Item(f.id, <<WriteScalar(f.type, x)>>, <<>>)
    ELSE Item(f.id, <<>>, inner[f.type].encode[x])

(***************************************************************************)
(* The item written for a value is read as its copy.                       *)
(***************************************************************************)
LEMMA ElementsOfItem ==
    ASSUME NEW f, NEW inner, NEW x
    PROVE  Elements(f, inner, ItemOf(f, inner, x)) = <<Copy(f, inner, x)>>
<1>1. CASE IsScalar(f)
  <2> DEFINE n == WriteScalar(f.type, x)
  <2>1. ItemOf(f, inner, x).scalars = <<n>>
    BY <1>1 DEF ItemOf, Item
  <2>2. Elements(f, inner, ItemOf(f, inner, x)) =
            [k \in DOMAIN <<n>> |-> ReadScalar(f.type, <<n>>[k])]
    BY <1>1, <2>1 DEF Elements
  <2> HIDE DEF n
  <2>3. [k \in DOMAIN <<n>> |-> ReadScalar(f.type, <<n>>[k])] = <<ReadScalar(f.type, n)>>
    OBVIOUS
  <2> QED BY <1>1, <2>2, <2>3 DEF Copy, n
<1>2. CASE ~IsScalar(f)
  BY <1>2 DEF Elements, ItemOf, Item, Copy
<1> QED BY <1>1, <1>2

(***************************************************************************)
(* An item is read into the field that has its number.                     *)
(***************************************************************************)
LEMMA ReadOwnItem ==
    ASSUME NEW class \in Classes, NEW inner, NEW f \in Schema[class], NEW fields,
           NEW item, item.id = f.id
    PROVE  ReadItem(class, inner, fields, item) = Put(fields, f, Elements(f, inner, item))
BY FieldOfItsId DEF ReadItem, Put

(***************************************************************************)
(* The items of a class make a packet.                                     *)
(***************************************************************************)
LEMMA ItemsOverGrows ==
    ASSUME NEW class \in Classes
    PROVE  Seq(ItemsOver(Nesting[class])) \subseteq Packet
<1>1. Depth - 1 \in 0..Depth /\ Nesting[class] \in 0..(Depth - 1)
  BY NestingType, DepthType
<1>2. Level[Nesting[class]].packets \subseteq Level[Depth - 1].packets
  BY <1>1, LevelGrows
<1>3. ItemsOver(Nesting[class]) \subseteq ItemsOver(Depth - 1)
  BY <1>2 DEF ItemsOver
<1> QED BY <1>3, SeqGrows, PacketParts

(***************************************************************************)
(* Reading what encode() writes for one field puts the copies of its       *)
(* values into this field and changes no other, in a list packed into one  *)
(* item, in one item per value, and for a field that is not repeated.      *)
(***************************************************************************)
LEMMA ReadItemsOfField ==
    ASSUME NEW class \in Classes, NEW f \in Schema[class], NEW p \in Packet,
           NEW values \in Seq(Value), Repeated(f) \/ Len(values) <= 1,
           ReadItems(class, Inner(class), p)[f.name] = <<>>
    PROVE  ReadItems(class, Inner(class), p \o Items(f, Inner(class), values)) =
                [ReadItems(class, Inner(class), p)
                    EXCEPT ![f.name] = Copies(f, Inner(class), values)]
<1> DEFINE inner == Inner(class)
           S == ItemsOver(Depth - 1)
           F == ReadItems(class, inner, p)
           C == Copies(f, inner, values)
           t == Items(f, inner, values)
<1>1. F \in Fields(class, Nesting[class])
  BY CodecKeepsLevel, NestingType, ReadItemsType
<1>2. t \in Seq(S) /\ p \in Seq(S)
  <2>1. t \in Seq(ItemsOver(Nesting[class]))
    BY CodecKeepsLevel, NestingType, ItemsType
  <2> QED BY <2>1, ItemsOverGrows, PacketParts
<1>3. f.name \in DOMAIN F
  BY <1>1 DEF Fields
<1>4. C \in Seq(Value) /\ Len(C) = Len(values) /\ Len(values) \in Nat
      /\ \A k \in 1..Len(values) : C[k] = Copy(f, inner, values[k])
  BY CopiesType
<1>5. CASE values # <<>> /\ Repeated(f) /\ f.type = "uint64"
  <2> DEFINE scalars == [k \in DOMAIN values |-> WriteScalar(f.type, values[k])]
             item == Item(f.id, scalars, <<>>)
  <2>1. t = <<item>> /\ item.id = f.id /\ item.scalars = scalars
    BY <1>5 DEF Items, Item
  <2>2. p \o t = Append(p, item) /\ item \in S
    BY <1>2, <2>1
  <2>3. IsScalar(f)
    BY <1>5 DEF IsScalar, ScalarTypes
  <2>4. Elements(f, inner, item) = C
    <3>1. DOMAIN scalars = DOMAIN values
      OBVIOUS
    <3>2. Elements(f, inner, item) = [k \in DOMAIN scalars |-> ReadScalar(f.type, scalars[k])]
      BY <2>1, <2>3 DEF Elements
    <3>3. C = [k \in DOMAIN values |-> ReadScalar(f.type, WriteScalar(f.type, values[k]))]
      BY <2>3 DEF Copies, Copy
    <3> QED BY <3>1, <3>2, <3>3
  <2> HIDE DEF item, F, t, C
  <2>5. ReadItem(class, inner, F, item) = [F EXCEPT ![f.name] = F[f.name] \o C]
    <3>1. ReadItem(class, inner, F, item) = Put(F, f, C)
      BY <2>1, <2>4, ReadOwnItem
    <3> QED BY <1>5, <3>1 DEF Put
  <2>6. F[f.name] = <<>> /\ F[f.name] \o C = C
    BY <1>4, ConcatEmptySeq DEF F
  <2>7. ReadItems(class, inner, Append(p, item)) = ReadItem(class, inner, F, item)
    BY <1>2, <2>2, ReadAppend DEF F
  <2> QED BY <2>2, <2>5, <2>6, <2>7 DEF t, F, C
<1>6. CASE ~(values # <<>> /\ Repeated(f) /\ f.type = "uint64")
  <2>1. t = [k \in DOMAIN values |-> ItemOf(f, inner, values[k])]
    BY <1>6 DEF Items, ItemOf
  <2>2. Len(t) = Len(values) /\ \A k \in 1..Len(values) : t[k] = ItemOf(f, inner, values[k])
    BY <1>4, <2>1
  <2> DEFINE P(n) == p \o SubSeq(t, 1, n)
             T == {n \in Nat : n <= Len(values) =>
                    ReadItems(class, inner, P(n)) = [F EXCEPT ![f.name] = SubSeq(C, 1, n)]}
  <2> HIDE DEF t, C
  <2>3. 0 \in T
    <3>1. P(0) = p /\ SubSeq(C, 1, 0) = <<>>
      BY <1>2, <1>4, NoneOrAll
    <3>2. [F EXCEPT ![f.name] = <<>>] = F
      BY <1>1, <1>3 DEF Fields
    <3> HIDE DEF P
    <3> QED BY <3>1, <3>2
  <2>4. ASSUME NEW n \in Nat, n \in T PROVE n + 1 \in T
    <3> SUFFICES ASSUME n + 1 <= Len(values)
                 PROVE  ReadItems(class, inner, P(n + 1)) =
                            [F EXCEPT ![f.name] = SubSeq(C, 1, n + 1)]
      OBVIOUS
    <3>1. P(n) \in Seq(S) /\ t[n + 1] \in S /\ P(n + 1) = Append(P(n), t[n + 1])
      BY <1>2, <2>2, OneMore
    <3> DEFINE G == [F EXCEPT ![f.name] = SubSeq(C, 1, n)]
    <3>2. ReadItems(class, inner, P(n)) = G
      BY <2>4, <1>4
    <3>3. G[f.name] = SubSeq(C, 1, n) /\ DOMAIN G = DOMAIN F
      BY <1>3
    <3>4. t[n + 1] = ItemOf(f, inner, values[n + 1]) /\ t[n + 1].id = f.id
      BY <2>2 DEF ItemOf, Item
    <3>5. Elements(f, inner, t[n + 1]) = <<C[n + 1]>>
      BY <1>4, <3>4, ElementsOfItem
    <3>6. SubSeq(C, 1, n) \o <<C[n + 1]>> = SubSeq(C, 1, n + 1)
      <4>1. 1 \in 1..Len(C) /\ n + 1 \in 1..Len(C) /\ (n + 1) - 1 = n
        BY <1>4
      <4> QED BY <1>4, <4>1, SubSeqRecursiveSecond
    <3> HIDE DEF P, G
    <3>7. ReadItem(class, inner, G, t[n + 1]) = [G EXCEPT ![f.name] = SubSeq(C, 1, n + 1)]
      <4>1. ReadItem(class, inner, G, t[n + 1]) = Put(G, f, <<C[n + 1]>>)
        BY <3>4, <3>5, ReadOwnItem
      <4>2. CASE Repeated(f)
        BY <3>3, <3>6, <4>1, <4>2 DEF Put
      <4>3. CASE ~Repeated(f)
        <5>1. SubSeq(C, 1, n) = <<>>
          BY <1>4, <4>3, NoneOrAll
        <5>2. SubSeq(C, 1, n + 1) = <<C[n + 1]>>
          <6>1. C[n + 1] \in Value
            BY <1>4
          <6>2. <<>> \o <<C[n + 1]>> = <<C[n + 1]>>
            BY <6>1, OneIsSeq, ConcatEmptySeq
          <6> QED BY <3>6, <5>1, <6>2
        <5> QED BY <4>1, <4>3, <5>2 DEF Put
      <4> QED BY <4>2, <4>3
    <3>8. [G EXCEPT ![f.name] = SubSeq(C, 1, n + 1)] = [F EXCEPT ![f.name] = SubSeq(C, 1, n + 1)]
      BY DEF G
    <3>9. ReadItems(class, inner, Append(P(n), t[n + 1])) = ReadItem(class, inner, G, t[n + 1])
      BY <3>1, <3>2, ReadAppend
    <3> QED BY <3>1, <3>7, <3>8, <3>9
  <2> HIDE DEF T
  <2>5. Len(values) \in T
    BY <1>4, <2>3, <2>4, SetInduction
  <2>6. ReadItems(class, inner, P(Len(values))) = [F EXCEPT ![f.name] = SubSeq(C, 1, Len(values))]
    BY <1>4, <2>5 DEF T
  <2>7. P(Len(values)) = p \o t /\ SubSeq(C, 1, Len(values)) = C
    BY <1>2, <1>4, <2>2, NoneOrAll, SubSeqFull
  <2> HIDE DEF P
  <2> QED BY <2>6, <2>7 DEF t, C
<1> QED BY <1>5, <1>6

(***************************************************************************)
(* What verify() demands, with the functions of the field's classes.       *)
(***************************************************************************)
LEMMA VerifyParts ==
    ASSUME NEW class \in Classes, NEW v \in Value
    PROVE  Codec[class].verify[v] <=>
                /\ v.form = "Object"
                /\ class \in OneOfs =>
                    \A f, g \in Schema[class] :
                        Get(v, f.name) # <<>> /\ Get(v, g.name) # <<>> => f = g
                /\ \A f \in Schema[class] :
                    /\ Repeated(f) \/ Len(Get(v, f.name)) <= 1
                    /\ \A k \in 1..Len(Get(v, f.name)) :
                        IF IsScalar(f) THEN ScalarFits(f.type, Get(v, f.name)[k].form)
                        ELSE Codec[f.type].verify[Get(v, f.name)[k]]
<1>1. Codec[class].verify[v] = Verify(class, Inner(class), v)
  BY CodecFunctions
<1>2. \A f \in Schema[class] : ~IsScalar(f) => Inner(class)[f.type] = Codec[f.type]
  BY InnerCodec
<1> QED BY <1>1, <1>2, Zenon DEF Verify

(***************************************************************************)
(* The same of inRange.                                                    *)
(***************************************************************************)
LEMMA InRangeParts ==
    ASSUME NEW class \in Classes, NEW v \in Value
    PROVE  Codec[class].inRange[v] <=>
                \A f \in Schema[class] : \A k \in 1..Len(Get(v, f.name)) :
                    IF IsScalar(f) THEN NumberFits(f.type, Get(v, f.name)[k].is)
                    ELSE Codec[f.type].inRange[Get(v, f.name)[k]]
<1>1. Codec[class].inRange[v] = InRange(class, Inner(class), v)
  BY CodecFunctions
<1>2. \A f \in Schema[class] : ~IsScalar(f) => Inner(class)[f.type] = Codec[f.type]
  BY InnerCodec
<1> QED BY <1>1, <1>2, Zenon DEF InRange

\* No list is given for a field that is not repeated.
ListsFit(class, v) == \A f \in Schema[class] : Repeated(f) \/ Len(Get(v, f.name)) <= 1

(***************************************************************************)
(* The fields with numbers up to i are read from what is written up to i:  *)
(* no field is read as another.                                            *)
(***************************************************************************)
LEMMA ReadsTheFields ==
    ASSUME NEW class \in Classes, NEW v \in Value, ListsFit(class, v),
           NEW written, WritesOn(class, Inner(class), v, written)
    PROVE  \A i \in 0..LastId(class) : \A f \in Schema[class] :
                ReadItems(class, Inner(class), written[i])[f.name] =
                    IF f.id <= i THEN Copies(f, Inner(class), Get(v, f.name)) ELSE <<>>
<1> DEFINE R(i) == ReadItems(class, Inner(class), written[i])
           C(f) == Copies(f, Inner(class), Get(v, f.name))
           Good(i) == \A f \in Schema[class] : R(i)[f.name] = IF f.id <= i THEN C(f) ELSE <<>>
           T == {i \in Nat : i <= LastId(class) => Good(i)}
<1>1. 0 \in T
  <2>1. R(0) = Blank(class)
    BY ReadEmpty DEF WritesOn
  <2>2. \A f \in Schema[class] : R(0)[f.name] = <<>> /\ ~(f.id <= 0)
    BY <2>1, FieldType DEF Blank
  <2> HIDE DEF R, C
  <2> QED BY <2>2
<1>2. ASSUME NEW i \in Nat, i \in T PROVE i + 1 \in T
  <2> SUFFICES ASSUME i + 1 <= LastId(class) PROVE Good(i + 1)
    OBVIOUS
  <2>1. i + 1 \in 1..LastId(class) /\ (i + 1) - 1 = i /\ i \in 0..LastId(class) /\ Good(i)
    BY <1>2, SchemaAssumption
  <2>2. CASE HasField(class, i + 1)
    <3> DEFINE f == FieldOf(class, i + 1)
    <3>1. f \in Schema[class] /\ f.id = i + 1
      BY <2>2, FieldOfId
    <3>2. written[i + 1] = written[i] \o Items(f, Inner(class), Get(v, f.name))
      BY <2>1, <2>2 DEF WritesOn, Given
    <3> HIDE DEF f
    <3>3. written[i] \in Packet
      <4>1. \A type \in MessageTypes(class) : KeepsLevel(type)
        BY CodecKeepsLevel, NestingType
      <4>2. written[i] \in Seq(ItemsOver(Nesting[class]))
        BY <2>1, <4>1, EncodeType
      <4> QED BY <4>2, ItemsOverGrows
    <3>4. Get(v, f.name) \in Seq(Value) /\ (Repeated(f) \/ Len(Get(v, f.name)) <= 1)
      BY <3>1, ValueParts DEF ListsFit
    <3>5. R(i)[f.name] = <<>>
      BY <2>1, <3>1
    <3>6. R(i + 1) = [R(i) EXCEPT ![f.name] = C(f)]
      BY <3>1, <3>2, <3>3, <3>4, <3>5, ReadItemsOfField
    <3>7. R(i) \in Fields(class, Nesting[class])
      BY <3>3, CodecKeepsLevel, NestingType, ReadItemsType
    <3>8. ASSUME NEW g \in Schema[class]
          PROVE  R(i + 1)[g.name] = IF g.id <= i + 1 THEN C(g) ELSE <<>>
      <4>1. g.name \in DOMAIN R(i) /\ g.id \in Nat
        BY <3>7, FieldType DEF Fields
      <4>2. CASE g = f
        <5>1. R(i + 1)[g.name] = C(f)
          BY <3>6, <4>1, <4>2
        <5> HIDE DEF R, C
        <5> QED BY <3>1, <4>2, <5>1
      <4>3. CASE g # f
        <5>1. g.name # f.name /\ g.id # i + 1
          BY <3>1, <4>3, FieldsAreOne
        <5>2. R(i + 1)[g.name] = R(i)[g.name]
          BY <3>6, <4>1, <5>1
        <5>3. R(i)[g.name] = IF g.id <= i THEN C(g) ELSE <<>>
          BY <2>1
        <5> HIDE DEF R, C
        <5> QED BY <4>1, <5>1, <5>2, <5>3
      <4> QED BY <4>2, <4>3
    <3> HIDE DEF R, C
    <3> QED BY <3>8
  <2>3. CASE ~HasField(class, i + 1)
    <3>1. R(i + 1) = R(i)
      BY <2>1, <2>3 DEF WritesOn
    <3>2. \A f \in Schema[class] : f.id \in Nat /\ f.id # i + 1
      BY <2>3, FieldType DEF HasField
    <3> HIDE DEF R, C
    <3> QED BY <2>1, <3>1, <3>2
  <2> QED BY <2>2, <2>3
<1> HIDE DEF T
<1>3. \A i \in Nat : i \in T
  BY <1>1, <1>2, SetInduction
<1>4. \A i \in 0..LastId(class) : Good(i)
  BY <1>3, SchemaAssumption DEF T
<1> QED BY <1>4

(***************************************************************************)
(* A property of what decode() returns is the field it read.               *)
(***************************************************************************)
LEMMA GetDecoded ==
    ASSUME NEW class \in Classes, NEW inner, NEW p, NEW f \in Schema[class]
    PROVE  Get(Decode(class, inner, p), f.name) = ReadItems(class, inner, p)[f.name]
<1> DEFINE fields == ReadItems(class, inner, p)
           Own == {g \in Schema[class] : Repeated(g) \/ fields[g.name] # <<>>}
           own == {Property(g.name, fields[g.name]) : g \in Own}
           with == {q \in own : q.name = f.name}
<1>1. Get(Decode(class, inner, p), f.name) =
            IF with = {} THEN <<>> ELSE (CHOOSE q \in with : TRUE).values
  BY DEF Get, Decode, Filled, Object
<1> HIDE DEF fields
<1>2. \A q \in with : q.values = fields[f.name]
  BY DEF Property
<1>3. CASE f \in Own
  <2>1. Property(f.name, fields[f.name]) \in with
    BY <1>3 DEF Property
  <2>2. (CHOOSE q \in with : TRUE) \in with
    BY <2>1
  <2> HIDE DEF with
  <2> QED BY <1>1, <1>2, <2>1, <2>2 DEF fields
<1>4. CASE f \notin Own
  <2>1. fields[f.name] = <<>>
    BY <1>4
  <2>2. with # {} => (CHOOSE q \in with : TRUE) \in with
    OBVIOUS
  <2> HIDE DEF with
  <2> QED BY <1>1, <1>2, <2>1, <2>2 DEF fields
<1> QED BY <1>3, <1>4

(***************************************************************************)
(* A field that was read, or is repeated, is an own property.              *)
(***************************************************************************)
LEMMA GivenIsDecoded ==
    ASSUME NEW class \in Classes, NEW inner, NEW p, NEW f \in Schema[class],
           Repeated(f) \/ ReadItems(class, inner, p)[f.name] # <<>>
    PROVE  \E q \in Decode(class, inner, p).own :
                q.name = f.name /\ q.values = ReadItems(class, inner, p)[f.name]
<1> DEFINE fields == ReadItems(class, inner, p)
           Own == {g \in Schema[class] : Repeated(g) \/ fields[g.name] # <<>>}
           q == Property(f.name, fields[f.name])
<1>1. f \in Own
  OBVIOUS
<1>2. q \in {Property(g.name, fields[g.name]) : g \in Own}
  BY <1>1
<1>3. Decode(class, inner, p).own = {Property(g.name, fields[g.name]) : g \in Own}
  BY DEF Decode, Filled, Object
<1>4. q.name = f.name /\ q.values = fields[f.name]
  BY DEF Property
<1> HIDE DEF q
<1> QED BY <1>2, <1>3, <1>4

(***************************************************************************)
(* What an object has become after encode() and decode().                  *)
(***************************************************************************)
LEMMA Returned ==
    ASSUME NEW class \in Classes, NEW v \in Value, ListsFit(class, v)
    PROVE  LET w == Codec[class].decode[Codec[class].encode[v]]
           IN /\ w \in Value /\ w.form = "Object"
              /\ \A f \in Schema[class] :
                    /\ Get(w, f.name) = Copies(f, Inner(class), Get(v, f.name))
                    /\ Repeated(f) \/ Get(w, f.name) # <<>> =>
                        \E q \in w.own : q.name = f.name /\ q.values = Get(w, f.name)
<1> DEFINE p == Codec[class].encode[v]
           w == Codec[class].decode[p]
<1>1. p \in Packet /\ w \in Value
  BY CodecType
<1>2. PICK written : /\ WritesOn(class, Inner(class), v, written)
                     /\ Encode(class, Inner(class), v) = written[LastId(class)]
  BY EncodeLoop
<1>3. p = written[LastId(class)] /\ LastId(class) \in 0..LastId(class)
  BY <1>2, CodecFunctions, SchemaAssumption
<1> HIDE DEF p
<1>4. w = Decode(class, Inner(class), p)
  BY <1>1, CodecFunctions
<1>5. w.form = "Object"
  BY <1>4 DEF Decode, Filled, Object
<1>6. ASSUME NEW f \in Schema[class]
      PROVE  /\ Get(w, f.name) = Copies(f, Inner(class), Get(v, f.name))
             /\ Repeated(f) \/ Get(w, f.name) # <<>> =>
                    \E q \in w.own : q.name = f.name /\ q.values = Get(w, f.name)
  <2>1. f.id <= LastId(class)
    BY FieldType
  <2>2. ReadItems(class, Inner(class), p)[f.name] = Copies(f, Inner(class), Get(v, f.name))
    BY <1>2, <1>3, <2>1, ReadsTheFields
  <2>3. Get(w, f.name) = ReadItems(class, Inner(class), p)[f.name]
    BY <1>4, GetDecoded
  <2>4. Repeated(f) \/ Get(w, f.name) # <<>> =>
            \E q \in w.own : q.name = f.name /\ q.values = Get(w, f.name)
    BY <1>4, <2>3, GivenIsDecoded
  <2> QED BY <2>2, <2>3, <2>4
<1> QED BY <1>1, <1>5, <1>6 DEF p

(***************************************************************************)
(* A scalar comes back with a form that verify() accepts and a number that *)
(* fits, and unchanged when verify() accepted it and it fitted.            *)
(***************************************************************************)
LEMMA ScalarReturned ==
    ASSUME NEW type \in ScalarTypes, NEW x \in Value
    PROVE  LET y == ReadScalar(type, WriteScalar(type, x))
           IN /\ ScalarFits(type, y.form) /\ NumberFits(type, y.is)
              /\ ScalarFits(type, x.form) /\ NumberFits(type, x.is) => y.is = x.is
<1> DEFINE n == WriteScalar(type, x)
           y == ReadScalar(type, n)
<1>1. ScalarFits(type, y.form) /\ y.is = n
  BY DEF ScalarFits, ReadScalar, Scalar, ScalarTypes
<1>2. x.is \in Nat /\ n \in Nat
  BY ValueParts, WriteScalarType
<1>3. NumberFits(type, n)
  <2>1. DOMAIN Limit = {"uint32", "uint64"}
    BY LimitAssumption
  <2>2. CASE type \in {"uint32", "uint64"}
    <3>1. Limit[type] \in Nat \ {0}
      BY <2>2, LimitAssumption
    <3>2. n < Limit[type]
      BY <1>2, <2>2, <3>1 DEF WriteScalar
    <3> QED BY <2>2, <3>2 DEF NumberFits
  <2>3. CASE type = "bool"
    BY <2>1, <2>3 DEF NumberFits, WriteScalar
  <2> QED BY <2>1, <2>2, <2>3 DEF NumberFits
<1>4. ASSUME ScalarFits(type, x.form), NumberFits(type, x.is) PROVE n = x.is
  <2>1. x.form # "BigInt"
    BY <1>4 DEF ScalarFits, ScalarTypes
  <2>2. CASE type \in {"uint32", "uint64"}
    <3>1. Limit[type] \in Nat \ {0} /\ x.is < Limit[type]
      BY <1>4, <2>2, LimitAssumption DEF NumberFits
    <3>2. x.is % Limit[type] = x.is
      BY <1>2, <3>1
    <3> QED BY <2>1, <2>2, <3>2 DEF WriteScalar
  <2>3. CASE type = "bool"
    BY <1>2, <1>4, <2>1, <2>3 DEF NumberFits, WriteScalar
  <2> QED BY <2>1, <2>2, <2>3 DEF WriteScalar
<1> HIDE DEF n
<1>5. NumberFits(type, y.is) /\ (ScalarFits(type, x.form) /\ NumberFits(type, x.is) => y.is = x.is)
  BY <1>1, <1>3, <1>4
<1> QED BY <1>1, <1>5 DEF n

(***************************************************************************)
(* verify() of an object, field by field.                                  *)
(***************************************************************************)
LEMMA FormsFit ==
    ASSUME NEW class \in Classes, NEW v \in Value, Codec[class].verify[v],
           NEW f \in Schema[class]
    PROVE  \A k \in 1..Len(Get(v, f.name)) :
                /\ IsScalar(f) => ScalarFits(f.type, Get(v, f.name)[k].form)
                /\ ~IsScalar(f) => Codec[f.type].verify[Get(v, f.name)[k]]
BY VerifyParts

(***************************************************************************)
(* inRange of an object, field by field.                                   *)
(***************************************************************************)
LEMMA NumbersFit ==
    ASSUME NEW class \in Classes, NEW v \in Value, Codec[class].inRange[v],
           NEW f \in Schema[class]
    PROVE  \A k \in 1..Len(Get(v, f.name)) :
                /\ IsScalar(f) => NumberFits(f.type, Get(v, f.name)[k].is)
                /\ ~IsScalar(f) => Codec[f.type].inRange[Get(v, f.name)[k]]
BY InRangeParts

(***************************************************************************)
(* Objects whose given values say the same say the same: a default stands  *)
(* in for both or for neither.                                             *)
(***************************************************************************)
LEMMA SameIfPairwise ==
    ASSUME NEW class \in Classes, NEW v \in Value, NEW w \in Value,
           \A f \in Schema[class] :
                /\ Len(Get(w, f.name)) = Len(Get(v, f.name))
                /\ \A k \in 1..Len(Get(v, f.name)) :
                    IF IsScalar(f) THEN Get(v, f.name)[k].is = Get(w, f.name)[k].is
                    ELSE Codec[f.type].same[<<Get(v, f.name)[k], Get(w, f.name)[k]>>]
    PROVE  Codec[class].same[<<v, w>>]
<1> DEFINE S(f) == Said(class, f, v)
           W(f) == Said(class, f, w)
<1>1. ASSUME NEW f \in Schema[class]
      PROVE  /\ Len(S(f)) = Len(W(f))
             /\ \A k \in 1..Len(S(f)) :
                    IF IsScalar(f) THEN S(f)[k].is = W(f)[k].is
                    ELSE Codec[f.type].same[<<S(f)[k], W(f)[k]>>]
  <2>1. Get(v, f.name) \in Seq(Value) /\ Get(w, f.name) \in Seq(Value)
    BY ValueParts
  <2>2. Get(v, f.name) = <<>> <=> Get(w, f.name) = <<>>
    BY <2>1
  <2>3. CASE Get(v, f.name) = <<>> /\ IsScalar(f) /\ f.label = "plain" /\ class \notin OneOfs
    <3>1. S(f) = <<ReadScalar(f.type, 0)>> /\ W(f) = <<ReadScalar(f.type, 0)>>
      BY <2>2, <2>3 DEF Said
    <3> HIDE DEF S, W
    <3> QED BY <2>3, <3>1
  <2>4. CASE ~(Get(v, f.name) = <<>> /\ IsScalar(f) /\ f.label = "plain" /\ class \notin OneOfs)
    <3>1. S(f) = Get(v, f.name) /\ W(f) = Get(w, f.name)
      BY <2>2, <2>4 DEF Said
    <3> HIDE DEF S, W
    <3> QED BY <3>1
  <2> QED BY <2>3, <2>4
<1>2. \A f \in Schema[class] : ~IsScalar(f) => Inner(class)[f.type] = Codec[f.type]
  BY InnerCodec
<1>3. Same(class, Inner(class), v, w)
  BY <1>1, <1>2, Zenon DEF Same
<1> QED BY <1>3, CodecFunctions

\* A class whose objects survive encode() and decode().
Faithful(class) ==
    \A v \in Value : Codec[class].verify[v] =>
        LET w == Codec[class].decode[Codec[class].encode[v]]
        IN /\ Codec[class].verify[w] /\ Codec[class].inRange[w]
           /\ Codec[class].inRange[v] => Codec[class].same[<<v, w>>]

(***************************************************************************)
(* A value of a field comes back verified, in range and saying the same.   *)
(***************************************************************************)
LEMMA ValueReturned ==
    ASSUME NEW class \in Classes, \A type \in MessageTypes(class) : Faithful(type),
           NEW f \in Schema[class], NEW x \in Value,
           IsScalar(f) => ScalarFits(f.type, x.form),
           ~IsScalar(f) => Codec[f.type].verify[x]
    PROVE  LET y == Copy(f, Inner(class), x)
           IN /\ IsScalar(f) =>
                    /\ ScalarFits(f.type, y.form) /\ NumberFits(f.type, y.is)
                    /\ NumberFits(f.type, x.is) => x.is = y.is
              /\ ~IsScalar(f) =>
                    /\ Codec[f.type].verify[y] /\ Codec[f.type].inRange[y]
                    /\ Codec[f.type].inRange[x] => Codec[f.type].same[<<x, y>>]
<1> DEFINE y == Copy(f, Inner(class), x)
<1>1. CASE IsScalar(f)
  <2>1. y = ReadScalar(f.type, WriteScalar(f.type, x)) /\ f.type \in ScalarTypes
    BY <1>1, FieldType DEF Copy
  <2> HIDE DEF y
  <2>2. /\ ScalarFits(f.type, y.form) /\ NumberFits(f.type, y.is)
        /\ NumberFits(f.type, x.is) => x.is = y.is
    BY <1>1, <2>1, ScalarReturned
  <2> QED BY <1>1, <2>2 DEF y
<1>2. CASE ~IsScalar(f)
  <2>1. Inner(class)[f.type] = Codec[f.type] /\ Faithful(f.type)
    BY <1>2, InnerCodec
  <2>2. y = Codec[f.type].decode[Codec[f.type].encode[x]]
    BY <1>2, <2>1 DEF Copy
  <2> HIDE DEF y
  <2>3. /\ Codec[f.type].verify[y] /\ Codec[f.type].inRange[y]
        /\ Codec[f.type].inRange[x] => Codec[f.type].same[<<x, y>>]
    BY <1>2, <2>1, <2>2, Zenon DEF Faithful
  <2> QED BY <1>2, <2>3 DEF y
<1> QED BY <1>1, <1>2

(***************************************************************************)
(* Every class is faithful, by induction on the nesting of the classes.    *)
(***************************************************************************)
LEMMA CodecIsFaithful ==
    \A class \in Classes : Faithful(class)
<1> DEFINE T == {class \in Classes : Faithful(class)}
<1>1. ASSUME NEW class \in Classes, MessageTypes(class) \subseteq T,
             NEW v \in Value, Codec[class].verify[v]
      PROVE  LET w == Codec[class].decode[Codec[class].encode[v]]
             IN /\ Codec[class].verify[w] /\ Codec[class].inRange[w]
                /\ Codec[class].inRange[v] => Codec[class].same[<<v, w>>]
  <2> DEFINE w == Codec[class].decode[Codec[class].encode[v]]
             A(f) == Get(v, f.name)
             B(f) == Get(w, f.name)
  <2>1. \A type \in MessageTypes(class) : Faithful(type)
    BY <1>1
  <2>2. /\ w \in Value /\ w.form = "Object"
        /\ \A f \in Schema[class] : B(f) = Copies(f, Inner(class), A(f))
    <3>1. ListsFit(class, v)
      BY <1>1, VerifyParts DEF ListsFit
    <3> QED BY <3>1, Returned
  <2> HIDE DEF w
  <2>3. ASSUME NEW f \in Schema[class]
        PROVE  /\ A(f) \in Seq(Value) /\ B(f) \in Seq(Value) /\ Len(B(f)) = Len(A(f))
               /\ \A k \in 1..Len(A(f)) :
                    A(f)[k] \in Value /\ B(f)[k] = Copy(f, Inner(class), A(f)[k])
    <3>1. A(f) \in Seq(Value)
      BY ValueParts
    <3> HIDE DEF A, B
    <3> QED BY <2>2, <3>1, CopiesType
  <2>4. ASSUME NEW f \in Schema[class], NEW k \in 1..Len(A(f))
        PROVE  /\ IsScalar(f) =>
                    /\ ScalarFits(f.type, B(f)[k].form) /\ NumberFits(f.type, B(f)[k].is)
                    /\ NumberFits(f.type, A(f)[k].is) => A(f)[k].is = B(f)[k].is
               /\ ~IsScalar(f) =>
                    /\ Codec[f.type].verify[B(f)[k]] /\ Codec[f.type].inRange[B(f)[k]]
                    /\ Codec[f.type].inRange[A(f)[k]] =>
                            Codec[f.type].same[<<A(f)[k], B(f)[k]>>]
    <3>1. /\ IsScalar(f) => ScalarFits(f.type, A(f)[k].form)
          /\ ~IsScalar(f) => Codec[f.type].verify[A(f)[k]]
      BY <1>1, FormsFit
    <3>2. A(f)[k] \in Value /\ B(f)[k] = Copy(f, Inner(class), A(f)[k])
      BY <2>3
    <3> HIDE DEF A, B
    <3> QED BY <2>1, <3>1, <3>2, ValueReturned
  <2>5. Codec[class].inRange[w]
    <3>1. \A f \in Schema[class] : \A k \in 1..Len(B(f)) :
            IF IsScalar(f) THEN NumberFits(f.type, B(f)[k].is)
            ELSE Codec[f.type].inRange[B(f)[k]]
      <4> HIDE DEF A, B
      <4> QED BY <2>3, <2>4
    <3> QED BY <2>2, <3>1, InRangeParts
  <2>6. Codec[class].verify[w]
    <3>1. \A f \in Schema[class] : \A k \in 1..Len(B(f)) :
            IF IsScalar(f) THEN ScalarFits(f.type, B(f)[k].form)
            ELSE Codec[f.type].verify[B(f)[k]]
      <4> HIDE DEF A, B
      <4> QED BY <2>3, <2>4
    <3>2. \A f \in Schema[class] : Repeated(f) \/ Len(B(f)) <= 1
      <4>1. \A f \in Schema[class] : Repeated(f) \/ Len(A(f)) <= 1
        BY <1>1, VerifyParts
      <4> HIDE DEF A, B
      <4> QED BY <2>3, <4>1
    <3>3. class \in OneOfs =>
            \A f, g \in Schema[class] : B(f) # <<>> /\ B(g) # <<>> => f = g
      <4>1. class \in OneOfs =>
              \A f, g \in Schema[class] : A(f) # <<>> /\ A(g) # <<>> => f = g
        BY <1>1, VerifyParts
      <4> HIDE DEF A, B
      <4>2. \A f \in Schema[class] : B(f) # <<>> => A(f) # <<>>
        BY <2>3
      <4> QED BY <4>1, <4>2
    <3> QED BY <2>2, <3>1, <3>2, <3>3, VerifyParts
  <2>7. ASSUME Codec[class].inRange[v] PROVE Codec[class].same[<<v, w>>]
    <3>1. \A f \in Schema[class] : \A k \in 1..Len(A(f)) :
            /\ IsScalar(f) => NumberFits(f.type, A(f)[k].is)
            /\ ~IsScalar(f) => Codec[f.type].inRange[A(f)[k]]
      BY <2>7, NumbersFit
    <3>2. \A f \in Schema[class] :
            /\ Len(B(f)) = Len(A(f))
            /\ \A k \in 1..Len(A(f)) :
                IF IsScalar(f) THEN A(f)[k].is = B(f)[k].is
                ELSE Codec[f.type].same[<<A(f)[k], B(f)[k]>>]
      <4> HIDE DEF A, B
      <4> QED BY <2>3, <2>4, <3>1
    <3> QED BY <2>2, <3>2, SameIfPairwise
  <2> QED BY <2>5, <2>6, <2>7 DEF w
<1>2. ASSUME NEW class \in Classes, MessageTypes(class) \subseteq T PROVE Faithful(class)
  BY <1>1, <1>2, Zenon DEF Faithful
<1> HIDE DEF T
<1>3. \A class \in Classes : MessageTypes(class) \subseteq T => class \in T
  BY <1>2 DEF T
<1>4. Classes \subseteq T
  BY <1>3, ClassInduction
<1> QED BY <1>4 DEF T

\* A class whose objects, when all their properties are its fields, lose none.
Conveys(class) ==
    \A v \in Value : Codec[class].regular[v] =>
        Codec[class].conveyed[<<v, Codec[class].decode[Codec[class].encode[v]]>>]

(***************************************************************************)
(* The properties of an object that gives each once.                       *)
(***************************************************************************)
LEMMA RegularParts ==
    ASSUME NEW class \in Classes, NEW v \in Value, Codec[class].regular[v], NEW p \in v.own
    PROVE  /\ p.values \in Seq(Value) /\ Get(v, p.name) = p.values
           /\ \A f \in Schema[class] : f.name = p.name =>
                /\ Repeated(f) \/ Len(p.values) = 1
                /\ ~IsScalar(f) => \A k \in 1..Len(p.values) : Codec[f.type].regular[p.values[k]]
<1>1. Regular(class, Inner(class), v)
  BY CodecFunctions
<1>2. \A f \in Schema[class] : ~IsScalar(f) => Inner(class)[f.type] = Codec[f.type]
  BY InnerCodec
<1>3. \A f \in Schema[class] : f.name = p.name =>
        /\ Repeated(f) \/ Len(p.values) = 1
        /\ ~IsScalar(f) => \A k \in 1..Len(p.values) : Codec[f.type].regular[p.values[k]]
  BY <1>1, <1>2, Zenon DEF Regular
<1>4. p.values \in Seq(Value)
  BY ValueParts
<1>5. Get(v, p.name) = p.values
  <2> DEFINE with == {q \in v.own : q.name = p.name}
  <2>1. with = {p}
    BY <1>1 DEF Regular
  <2>2. (CHOOSE q \in with : TRUE) = p
    BY <2>1
  <2> QED BY <2>1, <2>2 DEF Get
<1> QED BY <1>3, <1>4, <1>5

(***************************************************************************)
(* Such an object has lists for repeated fields only.                      *)
(***************************************************************************)
LEMMA RegularListsFit ==
    ASSUME NEW class \in Classes, NEW v \in Value, Codec[class].regular[v]
    PROVE  ListsFit(class, v)
<1> SUFFICES ASSUME NEW f \in Schema[class] PROVE Repeated(f) \/ Len(Get(v, f.name)) <= 1
  BY DEF ListsFit
<1>1. CASE \E p \in v.own : p.name = f.name
  <2>1. PICK p \in v.own : p.name = f.name
    BY <1>1
  <2>2. /\ Get(v, f.name) = p.values
        /\ Repeated(f) \/ Len(p.values) = 1
    BY <2>1, RegularParts
  <2>3. CASE Len(p.values) = 1
    <3>1. Len(Get(v, f.name)) = 1
      BY <2>2, <2>3
    <3> QED BY <3>1
  <2> QED BY <2>2, <2>3
<1>2. CASE ~\E p \in v.own : p.name = f.name
  <2>1. Get(v, f.name) = <<>>
    BY <1>2 DEF Get
  <2> QED BY <2>1
<1> QED BY <1>1, <1>2

(***************************************************************************)
(* Such an object loses no property that is a field, by induction on the   *)
(* nesting of the classes.                                                 *)
(***************************************************************************)
LEMMA CodecConveys ==
    \A class \in Classes : Conveys(class)
<1> DEFINE T == {class \in Classes : Conveys(class)}
<1>1. ASSUME NEW class \in Classes, MessageTypes(class) \subseteq T,
             NEW v \in Value, Codec[class].regular[v]
      PROVE  Codec[class].conveyed[<<v, Codec[class].decode[Codec[class].encode[v]]>>]
  <2> DEFINE w == Codec[class].decode[Codec[class].encode[v]]
  <2>1. /\ w \in Value
        /\ \A f \in Schema[class] :
            /\ Get(w, f.name) = Copies(f, Inner(class), Get(v, f.name))
            /\ Repeated(f) \/ Get(w, f.name) # <<>> =>
                \E q \in w.own : q.name = f.name /\ q.values = Get(w, f.name)
    BY <1>1, RegularListsFit, Returned
  <2> HIDE DEF w
  <2>2. ASSUME NEW p \in v.own, NEW f \in Schema[class], f.name = p.name
        PROVE  /\ \E q \in w.own : q.name = p.name /\ Len(q.values) = Len(p.values)
               /\ ~IsScalar(f) => \A k \in 1..Len(p.values) :
                    Inner(class)[f.type].conveyed[<<p.values[k], Get(w, p.name)[k]>>]
    <3>1. /\ Repeated(f) \/ Len(p.values) = 1
          /\ ~IsScalar(f) => \A k \in 1..Len(p.values) : Codec[f.type].regular[p.values[k]]
      BY <1>1, <2>2, RegularParts
    <3>2. p.values \in Seq(Value) /\ Get(v, p.name) = p.values
      BY <1>1, RegularParts
    <3>3. Get(w, p.name) = Copies(f, Inner(class), p.values)
      BY <2>1, <2>2, <3>2
    <3>4. /\ Get(w, p.name) \in Seq(Value) /\ Len(Get(w, p.name)) = Len(p.values)
          /\ \A k \in 1..Len(p.values) : p.values[k] \in Value
                /\ Get(w, p.name)[k] = Copy(f, Inner(class), p.values[k])
      BY <3>2, <3>3, CopiesType
    <3>5. \E q \in w.own : q.name = p.name /\ Len(q.values) = Len(p.values)
      <4>1. Repeated(f) \/ Len(Get(w, p.name)) = 1
        BY <3>1, <3>4
      <4>2. Repeated(f) \/ Get(w, p.name) # <<>>
        <5>1. Len(<<>>) # 1
          OBVIOUS
        <5> QED BY <4>1, <5>1, Zenon
      <4>3. \E q \in w.own : q.name = p.name /\ q.values = Get(w, p.name)
        <5>1. Repeated(f) \/ Get(w, f.name) # <<>> =>
                \E q \in w.own : q.name = f.name /\ q.values = Get(w, f.name)
          BY <2>1, SMT
        <5> QED BY <2>2, <4>2, <5>1, Zenon
      <4> QED BY <3>4, <4>3
    <3>6. ASSUME ~IsScalar(f), NEW k \in 1..Len(p.values)
          PROVE  Inner(class)[f.type].conveyed[<<p.values[k], Get(w, p.name)[k]>>]
      <4>1. Inner(class)[f.type] = Codec[f.type] /\ Conveys(f.type)
        BY <1>1, <3>6, InnerCodec
      <4> DEFINE x == p.values[k]
      <4>2. Get(w, p.name)[k] = Codec[f.type].decode[Codec[f.type].encode[x]]
        BY <3>4, <3>6, <4>1 DEF Copy
      <4>3. x \in Value /\ Codec[f.type].regular[x]
        BY <3>1, <3>4, <3>6
      <4> HIDE DEF x
      <4>4. Codec[f.type].conveyed[<<x, Codec[f.type].decode[Codec[f.type].encode[x]]>>]
        BY <4>1, <4>3, Zenon DEF Conveys
      <4> QED BY <4>1, <4>2, <4>4 DEF x
    <3> QED BY <3>5, <3>6
  <2>3. Conveyed(class, Inner(class), v, w)
    BY <2>2, Zenon DEF Conveyed
  <2>4. Codec[class].conveyed[<<v, w>>]
    BY <2>1, <2>3, CodecFunctions
  <2> QED BY <2>4, Zenon DEF w
<1>2. ASSUME NEW class \in Classes, MessageTypes(class) \subseteq T PROVE Conveys(class)
  BY <1>1, <1>2, Zenon DEF Conveys
<1> HIDE DEF T
<1>3. \A class \in Classes : MessageTypes(class) \subseteq T => class \in T
  BY <1>2 DEF T
<1>4. Classes \subseteq T
  BY <1>3, ClassInduction
<1> QED BY <1>4 DEF T

-------------------------------------------------------------------------------
(* The invariant. *)

\* What an object becomes that is encoded and decoded.
ThroughTheWire(class, object) == Codec[class].decode[Codec[class].encode[object]]

\* Whatever a later version has added to the wire, and whether or not verify()
\* would accept the object: what is decoded is what the items that encode()
\* wrote are decoded to.
UnknownFieldsAreSkipped ==
    /\ phase = "travels" => SentCodec.decode[wire] = ThroughTheWire(sent.class, sent.object)
    /\ Arrived => got = ThroughTheWire(sent.class, sent.object)

\* The inductive invariant.  ArrivesAsSent and CanBeSentOn are not inductive:
\* what arrives depends on the wire, which a later version may have extended.
WireInv == TypeOK /\ UnknownFieldsAreSkipped

(***************************************************************************)
(* The initial state is well typed.                                        *)
(***************************************************************************)
LEMMA NothingType ==
    Object({}) \in Value /\ Nothing \in [class : Classes, object : Value] /\ <<>> \in Packet
<1>1. Object({}) \in Value
  <2>1. Depth \in 0..Depth /\ 0 \in Nat /\ "Object" \in Form
    BY DepthType DEF Form
  <2>2. Scalar("Object", 0) \in Level[Depth].values
    BY <2>1, ScalarType
  <2> QED BY <2>2 DEF Scalar, Object, Value
<1>2. <<>> \in Packet
  BY EmptyPacket, DepthType DEF Packet
<1> QED BY <1>1, <1>2, ObjectsAssumption DEF Nothing

(***************************************************************************)
(* The invariant holds at first.                                           *)
(***************************************************************************)
LEMMA InitWireInv == Init => WireInv
BY NothingType DEF Init, WireInv, UnknownFieldsAreSkipped, SentCodec, TypeOK, Arrived

(***************************************************************************)
(* Sending an object establishes what is known of a wire.                  *)
(***************************************************************************)
LEMMA SendWireInv ==
    ASSUME WireInv, NEW class \in Classes, NEW object \in Value, Send(class, object)
    PROVE  WireInv'
<1>1. sent' = [class |-> class, object |-> object] /\ wire' = Codec[class].encode[object]
      /\ phase' = "travels" /\ got' = got
  BY DEF Send
<1>2. TypeOK'
  BY <1>1, CodecType DEF WireInv, UnknownFieldsAreSkipped, SentCodec, TypeOK
<1>3. Codec[sent'.class].decode[wire'] = ThroughTheWire(sent'.class, sent'.object)
  BY <1>1 DEF ThroughTheWire
<1> QED BY <1>1, <1>2, <1>3 DEF WireInv, UnknownFieldsAreSkipped, SentCodec, Arrived

(***************************************************************************)
(* A field that the class does not have leaves the meaning of the wire.    *)
(***************************************************************************)
LEMMA FieldOfALaterVersionWireInv ==
    ASSUME WireInv, FieldOfALaterVersion
    PROVE  WireInv'
<1> DEFINE class == sent.class
           item == Item(LastId(class) + 1, <<1>>, <<>>)
           S == ItemsOver(Depth - 1)
<1>1. /\ phase = "travels" /\ phase' = phase /\ sent' = sent /\ got' = got
      /\ class \in Classes /\ wire \in Packet
      /\ Codec[class].decode[wire] = ThroughTheWire(class, sent.object)
  BY DEF WireInv, UnknownFieldsAreSkipped, SentCodec, TypeOK, FieldOfALaterVersion
<1>2. PICK k \in 1..(Len(wire) + 1) : wire' = InsertAt(wire, k, item)
  BY DEF FieldOfALaterVersion
<1>3. item \in S /\ item.id = LastId(class) + 1
  <2>1. LastId(class) + 1 \in Nat /\ <<1>> \in Seq(Nat) /\ Depth - 1 \in 0..Depth
    BY <1>1, SchemaAssumption, DepthType
  <2> QED BY <2>1, EmptyPacket DEF Item, ItemsOver
<1>4. ~HasField(class, item.id)
  BY <1>1, <1>3, FieldType DEF HasField
<1>5. wire \in Seq(S) /\ Packet = Seq(S)
  BY <1>1, PacketParts
<1> HIDE DEF item
<1>6. wire' \in Packet
  <2>1. SubSeq(wire, 1, k - 1) \in Seq(S) /\ SubSeq(wire, k, Len(wire)) \in Seq(S)
        /\ <<item>> \in Seq(S)
    BY <1>3, <1>5
  <2>2. (SubSeq(wire, 1, k - 1) \o <<item>>) \o SubSeq(wire, k, Len(wire)) \in Seq(S)
    BY <2>1, ConcatProperties
  <2> QED BY <1>2, <1>5, <2>2 DEF InsertAt
<1>7. ReadItems(class, Inner(class), wire') = ReadItems(class, Inner(class), wire)
  BY <1>2, <1>3, <1>4, <1>5, SkipUnknown
<1>8. Codec[class].decode[wire'] = Codec[class].decode[wire]
  <2>1. /\ Codec[class].decode[wire'] = Decode(class, Inner(class), wire')
        /\ Codec[class].decode[wire] = Decode(class, Inner(class), wire)
    BY <1>1, <1>6, CodecFunctions
  <2>2. Decode(class, Inner(class), wire') = Decode(class, Inner(class), wire)
    BY <1>7 DEF Decode
  <2> QED BY <2>1, <2>2
<1> HIDE DEF class
<1> QED BY <1>1, <1>6, <1>8 DEF WireInv, UnknownFieldsAreSkipped, SentCodec, TypeOK, Arrived, class

(***************************************************************************)
(* What arrives is what was sent, encoded and decoded.                     *)
(***************************************************************************)
LEMMA ReceiveWireInv ==
    ASSUME WireInv, Receive
    PROVE  WireInv'
<1>1. /\ phase = "travels" /\ phase' = "arrived" /\ sent' = sent /\ wire' = wire
      /\ got' = Codec[sent.class].decode[wire] /\ TypeOK
      /\ Codec[sent.class].decode[wire] = ThroughTheWire(sent.class, sent.object)
  BY DEF WireInv, UnknownFieldsAreSkipped, SentCodec, Receive
<1>2. got' \in Value
  BY <1>1, CodecType DEF TypeOK
<1> QED BY <1>1, <1>2 DEF WireInv, UnknownFieldsAreSkipped, SentCodec, TypeOK, Arrived

(***************************************************************************)
(* Every step keeps the invariant.                                         *)
(***************************************************************************)
LEMMA NextWireInv == WireInv /\ [Next]_vars => WireInv'
<1> SUFFICES ASSUME WireInv, [Next]_vars PROVE WireInv'
  OBVIOUS
<1>1. CASE SendObject
  <2>1. PICK class \in Classes : \E object \in Objects[class] : Send(class, object)
    BY <1>1 DEF SendObject
  <2>2. PICK object \in Objects[class] : Send(class, object)
    BY <2>1
  <2>3. object \in Value
    BY ObjectsAssumption
  <2> QED BY <2>2, <2>3, SendWireInv
<1>2. CASE Publish
  <2>1. PICK site \in Sites : Send("P2pMessage", Message(site))
    BY <1>2 DEF Publish
  <2>2. "P2pMessage" \in Classes /\ Message(site) \in Value
    BY ObjectsAssumption
  <2> QED BY <2>1, <2>2, SendWireInv
<1>3. CASE FieldOfALaterVersion
  BY <1>3, FieldOfALaterVersionWireInv
<1>4. CASE Receive
  BY <1>4, ReceiveWireInv
<1>5. CASE Handled
  BY <1>5, NothingType DEF Handled, WireInv, UnknownFieldsAreSkipped, SentCodec, TypeOK, Arrived
<1>6. CASE UNCHANGED vars
  BY <1>6 DEF vars, WireInv, UnknownFieldsAreSkipped, SentCodec, TypeOK, Arrived, ThroughTheWire
<1> QED BY <1>1, <1>2, <1>3, <1>4, <1>5, <1>6 DEF Next

(***************************************************************************)
(* The invariant: until it is decoded, the wire is decoded to the same as  *)
(* what encode() wrote, whatever a later version has added to it           *)
(* (handleGossipMessage of src/libp2p-node.js).                            *)
(***************************************************************************)
THEOREM WireInvariant == Spec => []WireInv
<1>1. Init => WireInv
  BY InitWireInv
<1>2. WireInv /\ [Next]_vars => WireInv'
  BY NextWireInv
<1> QED BY <1>1, <1>2, PTL DEF Spec

(***************************************************************************)
(* The state is made of classes, objects and items, for any numbers that   *)
(* fit, any objects and any published messages.                            *)
(***************************************************************************)
THEOREM WireTypesHold == Spec => []TypeOK
<1>1. WireInv => TypeOK
  BY DEF WireInv
<1> QED BY <1>1, WireInvariant, PTL

(***************************************************************************)
(* A field of a later version, wherever it stands on the wire, does not    *)
(* change what decode() returns (the default branch of decode() in         *)
(* src/src/p2p_pb.cjs).                                                    *)
(***************************************************************************)
THEOREM UnknownFieldsDoNotMatter == Spec => []UnknownFieldsAreSkipped
<1>1. WireInv => UnknownFieldsAreSkipped
  BY DEF WireInv
<1> QED BY <1>1, WireInvariant, PTL

(***************************************************************************)
(* Whatever verify() accepts and fits its fields says the same after       *)
(* decode() as before encode(), for every object of every class of         *)
(* src/p2p_pb.cjs, also when a later version of the class has added a      *)
(* field anywhere.                                                         *)
(***************************************************************************)
THEOREM MessagesArriveAsSent == Spec => []ArrivesAsSent
<1>1. WireInv => ArrivesAsSent
  <2> SUFFICES ASSUME WireInv, Arrived, SentCodec.verify[sent.object],
                      SentCodec.inRange[sent.object]
               PROVE  SentCodec.same[<<sent.object, got>>]
    BY DEF ArrivesAsSent
  <2>1. sent.class \in Classes /\ sent.object \in Value
        /\ got = ThroughTheWire(sent.class, sent.object)
    BY DEF WireInv, UnknownFieldsAreSkipped, SentCodec, TypeOK
  <2>2. Faithful(sent.class)
    BY <2>1, CodecIsFaithful
  <2> QED BY <2>1, <2>2, Zenon DEF Faithful, ThroughTheWire, SentCodec
<1> QED BY <1>1, WireInvariant, PTL

(***************************************************************************)
(* What decode() returns for an object that verify() accepts passes        *)
(* verify() itself, its numbers fit, and it can be encoded and decoded     *)
(* again without a loss: relayed blocks and stem transactions.             *)
(***************************************************************************)
THEOREM MessagesCanBeSentOn == Spec => []CanBeSentOn
<1>1. WireInv => CanBeSentOn
  <2> SUFFICES ASSUME WireInv, Arrived, SentCodec.verify[sent.object]
               PROVE  /\ SentCodec.verify[got] /\ SentCodec.inRange[got]
                      /\ SentCodec.same[<<got, SentCodec.decode[SentCodec.encode[got]]>>]
    BY DEF CanBeSentOn
  <2>1. sent.class \in Classes /\ sent.object \in Value /\ got \in Value
        /\ got = ThroughTheWire(sent.class, sent.object)
    BY DEF WireInv, UnknownFieldsAreSkipped, SentCodec, TypeOK
  <2>2. Faithful(sent.class)
    BY <2>1, CodecIsFaithful
  <2>3. SentCodec.verify[got] /\ SentCodec.inRange[got]
    BY <2>1, <2>2, Zenon DEF Faithful, ThroughTheWire, SentCodec
  <2>4. SentCodec.same[<<got, SentCodec.decode[SentCodec.encode[got]]>>]
    BY <2>1, <2>2, <2>3, Zenon DEF Faithful, SentCodec
  <2> QED BY <2>3, <2>4
<1> QED BY <1>1, WireInvariant, PTL

(***************************************************************************)
(* Of every object that is sent, also of one that verify() would refuse,   *)
(* all properties arrive that are fields of their classes, at every depth: *)
(* what gets lost is what the publisher names otherwise than the class.    *)
(***************************************************************************)
THEOREM KnownFieldsArrive == Spec => []OnlyUnknownNamesAreLost
<1>1. WireInv => OnlyUnknownNamesAreLost
  <2> SUFFICES ASSUME WireInv, Arrived, SentCodec.regular[sent.object]
               PROVE  SentCodec.conveyed[<<sent.object, got>>]
    BY DEF OnlyUnknownNamesAreLost
  <2>1. /\ sent.class \in Classes /\ sent.object \in Value
        /\ got = ThroughTheWire(sent.class, sent.object)
    BY DEF WireInv, UnknownFieldsAreSkipped, SentCodec, TypeOK
  <2>2. Conveys(sent.class)
    BY <2>1, CodecConveys
  <2> QED BY <2>1, <2>2, Zenon DEF Conveys, ThroughTheWire, SentCodec
<1> QED BY <1>1, WireInvariant, PTL
===============================================================================
