---------------------------- MODULE FieldsProofs ----------------------------
(***************************************************************************)
(* Theorems about Fields for types of every size, whatever is at the       *)
(* addresses.                                                              *)
(***************************************************************************)
EXTENDS Fields, TLAPS

-----------------------------------------------------------------------------
(***************************************************************************)
(* Conversions of integers.                                                *)
(***************************************************************************)

LEMMA Wraps ==
  ASSUME NEW K \in Nat, K > 0
  PROVE  /\ \A n \in 0..(K - 1) : n % K = n
         /\ \A n \in (-K)..(-1) : n % K = n + K
  OBVIOUS

LEMMA Halves ==
  ASSUME NEW K \in Nat, K % 2 = 0
  PROVE  K \div 2 \in Nat /\ 2 * (K \div 2) = K
  OBVIOUS

LEMMA WidthSizes ==
  ASSUME NEW b \in Widths
  PROVE  /\ Size[b] \in Nat /\ Size[b] > 0
         /\ Size[b] \div 2 \in Nat /\ 2 * (Size[b] \div 2) = Size[b]
         /\ Size[b] <= Size[64] /\ (b # 64 => 2 * Size[b] <= Size[64])
<1>1. Size[b] \in Nat /\ Size[b] > 0 /\ Size[b] % 2 = 0
  BY WidthAssumption
<1>2. Size[b] \div 2 \in Nat /\ 2 * (Size[b] \div 2) = Size[b]
  BY <1>1, Halves
<1>3. b # 64 => 2 * Size[b] <= Size[64]
  BY WidthAssumption DEF Widths
<1>4. Size[b] <= Size[64]
  <2>1. Size[64] \in Nat
    BY WidthAssumption DEF Widths
  <2> QED
    BY <1>1, <1>3, <2>1
<1> QED
  BY <1>1, <1>2, <1>3, <1>4

\* A signed type can hold the value it is given.
LEMMA SignedFits ==
  ASSUME NEW b \in Widths, NEW n \in (-(Size[b] \div 2))..((Size[b] \div 2) - 1)
  PROVE  ToSigned(n, b) = n
<1> DEFINE h == Size[b] \div 2
           K == Size[b]
<1>1. K \in Nat /\ K > 0 /\ h \in Nat /\ 2 * h = K
  BY WidthSizes
<1> HIDE DEF h, K
<1>2. n \in (-h)..(h - 1)
  BY DEF h
<1>3. (n >= 0 => n % K = n) /\ (n < 0 => n % K = n + K)
  BY <1>1, <1>2, Wraps
<1>4. (LET low == n % K IN IF low < h THEN low ELSE low - K) = n
  BY <1>1, <1>2, <1>3
<1> QED
  BY <1>4 DEF ToSigned, ToUnsigned, h, K

\* So does an unsigned one, also if the value was taken for a signed one of 64
\* bits in between.
LEMMA UnsignedFits ==
  ASSUME NEW b \in Widths, NEW n \in 0..(Size[b] - 1)
  PROVE  ToUnsigned(ToSigned(n, 64), b) = n
<1> DEFINE h == Size[64] \div 2
           M == Size[64]
           K == Size[b]
<1>1. /\ M \in Nat /\ M > 0 /\ h \in Nat /\ 2 * h = M /\ K \in Nat /\ K > 0
      /\ K <= M /\ (b # 64 => 2 * K <= M) /\ (b = 64 => K = M)
  BY WidthSizes DEF Widths
<1> HIDE DEF h, M, K
<1>2. n \in 0..(K - 1)
  BY DEF K
<1>3. n % M = n
  BY <1>1, <1>2, Wraps
<1>4. CASE n < h
  <2>1. ToSigned(n, 64) = n
    BY <1>3, <1>4 DEF ToSigned, ToUnsigned, M, h
  <2> QED
    BY <1>1, <1>2, <2>1, Wraps DEF ToUnsigned, K
<1>5. CASE ~(n < h)
  <2>1. b = 64
    BY <1>1, <1>2, <1>5
  <2>2. ToSigned(n, 64) = n - M
    BY <1>3, <1>5 DEF ToSigned, ToUnsigned, M, h
  <2>3. n - M \in (-M)..(-1) /\ (n - M) + M = n
    BY <1>1, <1>2
  <2>4. (n - M) % M = n
    BY <1>1, <2>3, Wraps
  <2> QED
    BY <2>1, <2>2, <2>4 DEF ToUnsigned, M
<1> QED
  BY <1>4, <1>5

-----------------------------------------------------------------------------
(***************************************************************************)
(* The fields made.                                                        *)
(***************************************************************************)

\* Every value of a type, with its field.
Rows ==
  UNION {{[value |-> v, field |-> NewField(type, v)] : v \in ValuesOf(type)} : type \in Types}

FieldInv == made \in Seq(Rows) /\ Len(made) <= 2

LEMMA FieldsInductive == FieldSpec => []FieldInv
<1>1. FieldInit => FieldInv
  BY DEF FieldInit, FieldInv
<1>2. FieldInv /\ [Make \/ Forget]_made => FieldInv'
  <2> SUFFICES ASSUME FieldInv, [Make \/ Forget]_made PROVE FieldInv'
    OBVIOUS
  <2>1. CASE Make
    <3>1. PICK type \in Types : \E v \in ValuesOf(type) :
            made' = Append(made, [value |-> v, field |-> NewField(type, v)])
      BY <2>1 DEF Make
    <3>2. PICK v \in ValuesOf(type) :
            made' = Append(made, [value |-> v, field |-> NewField(type, v)])
      BY <3>1
    <3>3. PICK r \in Rows : made' = Append(made, r)
      BY <3>2 DEF Rows
    <3> QED
      BY <2>1, <3>3 DEF FieldInv, Make
  <2>2. CASE Forget
    BY <2>2 DEF Forget, FieldInv
  <2>3. CASE UNCHANGED made
    BY <2>3 DEF FieldInv
  <2> QED
    BY <2>1, <2>2, <2>3
<1> QED
  BY <1>1, <1>2, PTL DEF FieldSpec

LEMMA TypesApart ==
  /\ DOMAIN SignedBits \cap DOMAIN UnsignedBits = {}
  /\ \A s \in NumericTypes \union {"Bool"} \union {"String"} :
       s \notin AddressTypes /\ s \notin ComplexTypes /\ s \notin EmptyTypes
  /\ \A s \in AddressTypes \union ComplexTypes \union EmptyTypes :
       s \notin NumericTypes /\ s # "Bool" /\ s # "String"
  /\ \A s \in AddressTypes : s \notin ComplexTypes /\ s \notin EmptyTypes
  /\ \A s \in ComplexTypes : s \notin AddressTypes /\ s \notin EmptyTypes
  /\ \A s \in EmptyTypes : s \notin AddressTypes /\ s \notin ComplexTypes
  /\ "Bool" \notin NumericTypes /\ "String" \notin NumericTypes
  /\ "Stringer" \notin ByteTypes \union DeepTypes
  /\ AddressTypes = ByteTypes \union DeepTypes \union {"Stringer"}
  BY DEF SignedBits, UnsignedBits, NumericTypes, AddressTypes, ByteTypes, DeepTypes,
         ComplexTypes, EmptyTypes

LEMMA BitsAreWidths ==
  /\ \A t \in DOMAIN SignedBits : SignedBits[t] \in Widths
  /\ \A t \in DOMAIN UnsignedBits : UnsignedBits[t] \in Widths
  BY DEF SignedBits, UnsignedBits, Widths

\* What is put into a field comes out of it, by kind of type.
LEMMA NumericKept ==
  ASSUME NEW type \in NumericTypes, NEW v \in ValuesOf(type)
  PROVE  /\ Added(NewField(type, v)) = v
         /\ NewField(type, v).integer = ToSigned(v, 64)
         /\ NewField(type, v).string = <<>> /\ NewField(type, v).interface = <<>>
<1>1. /\ NewField(type, v).type = type
      /\ NewField(type, v).integer = ToSigned(v, 64)
      /\ NewField(type, v).string = <<>> /\ NewField(type, v).interface = <<>>
  BY TypesApart DEF NewField
<1>2. CASE type \in DOMAIN SignedBits
  <2> DEFINE b == SignedBits[type]
  <2>1. b \in Widths /\ 64 \in Widths
    BY <1>2, BitsAreWidths DEF Widths
  <2>2. v \in (-(Size[b] \div 2))..((Size[b] \div 2) - 1)
    BY <1>2 DEF ValuesOf
  <2> HIDE DEF b
  <2>3. v \in (-(Size[64] \div 2))..((Size[64] \div 2) - 1)
    <3>1. /\ Size[b] \div 2 \in Nat /\ 2 * (Size[b] \div 2) = Size[b] /\ Size[b] \in Nat
          /\ Size[64] \div 2 \in Nat /\ 2 * (Size[64] \div 2) = Size[64] /\ Size[64] \in Nat
          /\ Size[b] <= Size[64]
      BY <2>1, WidthSizes
    <3> QED
      BY <2>2, <3>1
  <2>4. ToSigned(v, 64) = v /\ ToSigned(v, b) = v
    BY <2>1, <2>2, <2>3, SignedFits
  <2>5. Added(NewField(type, v)) = ToSigned(NewField(type, v).integer, b)
    BY <1>1, <1>2 DEF Added, Converted, b
  <2> QED
    BY <1>1, <2>4, <2>5
<1>3. CASE type \in DOMAIN UnsignedBits
  <2> DEFINE b == UnsignedBits[type]
  <2>1. b \in Widths /\ type \notin DOMAIN SignedBits
    BY <1>3, BitsAreWidths, TypesApart
  <2>2. v \in 0..(Size[b] - 1)
    BY <1>3, <2>1 DEF ValuesOf
  <2>3. Added(NewField(type, v)) = ToUnsigned(NewField(type, v).integer, b)
    BY <1>1, <1>3, <2>1 DEF Added, Converted
  <2> HIDE DEF b
  <2> QED
    BY <1>1, <2>1, <2>2, <2>3, UnsignedFits
<1> QED
  BY <1>1, <1>2, <1>3 DEF NumericTypes

LEMMA BoolKept ==
  ASSUME NEW v \in BOOLEAN
  PROVE  /\ Added(NewField("Bool", v)) = v
         /\ NewField("Bool", v).integer = IF v THEN 1 ELSE 0
         /\ NewField("Bool", v).string = <<>> /\ NewField("Bool", v).interface = <<>>
  BY TypesApart DEF Added, NewField

LEMMA StringKept ==
  ASSUME NEW v
  PROVE  /\ Added(NewField("String", v)) = v
         /\ NewField("String", v).integer = 0
         /\ NewField("String", v).string = <<v>> /\ NewField("String", v).interface = <<>>
  BY TypesApart DEF Added, NewField

LEMMA AddressKept ==
  ASSUME NEW type \in AddressTypes, NEW v
  PROVE  /\ Added(NewField(type, v)) = ContentAt[v]
         /\ NewField(type, v).integer = 0
         /\ NewField(type, v).string = <<>> /\ NewField(type, v).interface = <<v>>
<1>1. type \notin NumericTypes /\ type # "Bool" /\ type # "String"
  BY TypesApart
<1> QED
  BY <1>1 DEF Added, NewField

\* Complex numbers, and the fields that hold nothing.
LEMMA PartsKept ==
  ASSUME NEW type \in ComplexTypes \union EmptyTypes, NEW v \in ValuesOf(type)
  PROVE  /\ Added(NewField(type, v)) = v
         /\ NewField(type, v).integer = 0
         /\ NewField(type, v).string = <<>> /\ NewField(type, v).interface = v
<1>1. type \notin NumericTypes /\ type # "Bool" /\ type # "String" /\ type \notin AddressTypes
  BY TypesApart
<1>2. /\ NewField(type, v).type = type /\ NewField(type, v).integer = 0
      /\ NewField(type, v).string = <<>>
      /\ NewField(type, v).interface = IF type \in ComplexTypes THEN v ELSE <<>>
  BY <1>1 DEF NewField
<1>3. type \notin ComplexTypes => v = <<>>
  BY <1>1 DEF ValuesOf, NumericTypes
<1>4. Added(NewField(type, v)) = NewField(type, v).interface
  BY <1>1, <1>2 DEF Added
<1> QED
  BY <1>2, <1>3, <1>4

\* Of whatever size the types are, an encoder is given the value that the
\* constructor of the field was, unsigned values of the highest bit and negative
\* ones included.
THEOREM FieldsLoseNothing == FieldSpec => []NothingLostInField
<1>1. FieldInv => NothingLostInField
  <2> SUFFICES ASSUME FieldInv, NEW i \in DOMAIN made
               PROVE  Added(made[i].field) =
                        IF made[i].field.type \in AddressTypes
                          THEN ContentAt[made[i].value] ELSE made[i].value
    BY DEF NothingLostInField
  <2>1. made[i] \in Rows
    BY DEF FieldInv
  <2>2. PICK type \in Types : \E v \in ValuesOf(type) :
          made[i] = [value |-> v, field |-> NewField(type, v)]
    BY <2>1 DEF Rows
  <2>3. PICK v \in ValuesOf(type) : made[i] = [value |-> v, field |-> NewField(type, v)]
    BY <2>2
  <2>4. NewField(type, v).type = type
    BY DEF NewField
  <2>5. CASE type \in AddressTypes
    BY <2>3, <2>4, <2>5, AddressKept
  <2>6. CASE type \notin AddressTypes
    <3>1. Added(NewField(type, v)) = v
      <4>1. type = "Bool" => v \in BOOLEAN
        BY TypesApart DEF ValuesOf, NumericTypes
      <4> QED
        BY <2>6, <4>1, NumericKept, BoolKept, StringKept, PartsKept DEF Types
    <3> QED
      BY <2>3, <2>4, <2>6, <3>1
  <2> QED
    BY <2>5, <2>6
<1> QED
  BY <1>1, FieldsInductive, PTL

LEMMA FieldShape ==
  ASSUME NEW type, NEW v
  PROVE  /\ NewField(type, v).type = type
         /\ NewField(type, v) = [type |-> type, integer |-> NewField(type, v).integer,
                                 string |-> NewField(type, v).string,
                                 interface |-> NewField(type, v).interface]
  BY DEF NewField

\* Two fields of one type whose values are compared with == and log as they are.
LEMMA PlainFieldsLogTheSame ==
  ASSUME NEW type \in Types, type \notin AddressTypes, type \notin ComplexTypes,
         NEW v \in ValuesOf(type), NEW u \in ValuesOf(type),
         NEW f, NEW g, f = NewField(type, v), g = NewField(type, u)
  PROVE  Equals(f, g) <=> Added(f) = Added(g)
<1>1. /\ f.type = type /\ g.type = type
      /\ f = [type |-> type, integer |-> f.integer, string |-> f.string,
              interface |-> f.interface]
      /\ g = [type |-> type, integer |-> g.integer, string |-> g.string,
              interface |-> g.interface]
  BY FieldShape, Zenon
<1>2. Equals(f, g) <=> f = g
  BY <1>1, TypesApart DEF Equals
<1>3. CASE type \in NumericTypes
  <2>1. /\ Added(f) = v /\ f.integer = ToSigned(v, 64)
        /\ f.string = <<>> /\ f.interface = <<>>
        /\ Added(g) = u /\ g.integer = ToSigned(u, 64)
        /\ g.string = <<>> /\ g.interface = <<>>
    BY <1>3, NumericKept
  <2> QED
    BY <1>1, <1>2, <2>1
<1>4. CASE type = "Bool"
  <2>1. v \in BOOLEAN /\ u \in BOOLEAN
    BY <1>4, TypesApart DEF ValuesOf, NumericTypes
  <2>2. /\ Added(f) = v /\ f.integer = (IF v THEN 1 ELSE 0)
        /\ f.string = <<>> /\ f.interface = <<>>
        /\ Added(g) = u /\ g.integer = (IF u THEN 1 ELSE 0)
        /\ g.string = <<>> /\ g.interface = <<>>
    BY <1>4, <2>1, BoolKept
  <2> QED
    BY <1>1, <1>2, <2>1, <2>2
<1>5. CASE type = "String"
  <2>1. /\ Added(f) = v /\ f.integer = 0 /\ f.string = <<v>> /\ f.interface = <<>>
        /\ Added(g) = u /\ g.integer = 0 /\ g.string = <<u>> /\ g.interface = <<>>
    BY <1>5, StringKept
  <2> QED
    BY <1>1, <1>2, <2>1
<1>6. CASE type \in EmptyTypes
  <2>1. /\ Added(f) = v /\ f.integer = 0 /\ f.string = <<>> /\ f.interface = v
        /\ Added(g) = u /\ g.integer = 0 /\ g.string = <<>> /\ g.interface = u
    BY <1>6, PartsKept
  <2> QED
    BY <1>1, <1>2, <2>1
<1> QED
  BY <1>3, <1>4, <1>5, <1>6 DEF Types

\* Two complex numbers, which log as they are and are compared part by part.
LEMMA ComplexFieldsCompared ==
  ASSUME NEW type \in ComplexTypes, NEW v \in ValuesOf(type), NEW u \in ValuesOf(type),
         NEW f, NEW g, f = NewField(type, v), g = NewField(type, u)
  PROVE  /\ Equals(f, g) => Added(f) = Added(g) \/ HasPart(f, {"+0", "-0"})
         /\ Added(f) = Added(g) /\ ~HasPart(f, {"NaN"}) => Equals(f, g)
<1>1. v \in Parts \X Parts /\ u \in Parts \X Parts
  BY TypesApart DEF ValuesOf, NumericTypes
<1>2. /\ v = <<v[1], v[2]>> /\ u = <<u[1], u[2]>>
      /\ v[1] \in Parts /\ v[2] \in Parts /\ u[1] \in Parts /\ u[2] \in Parts
  BY <1>1
<1>3. /\ f.type = type /\ g.type = type
      /\ f.interface = v /\ g.interface = u /\ Added(f) = v /\ Added(g) = u
  BY PartsKept, FieldShape
<1>4. Equals(f, g) <=> SameNumber(v[1], u[1]) /\ SameNumber(v[2], u[2])
  <2>1. Equals(f, g) <=> \A i \in 1..2 : SameNumber(v[i], u[i])
    BY <1>3, TypesApart DEF Equals
  <2> QED
    BY <2>1
<1>5. \A x, y \in Parts :
        /\ SameNumber(x, y) => x = y \/ x \in {"+0", "-0"}
        /\ x = y /\ x \notin {"NaN"} => SameNumber(x, y)
  BY DEF SameNumber
<1> QED
  BY <1>2, <1>3, <1>4, <1>5 DEF HasPart

\* Two fields of one type: what Equals says of them and what they log.
LEMMA SameTypeCompared ==
  ASSUME NEW type \in Types, NEW v \in ValuesOf(type), NEW u \in ValuesOf(type),
         NEW f, NEW g, f = NewField(type, v), g = NewField(type, u)
  PROVE  /\ Equals(f, g) => Added(f) = Added(g) \/ HasPart(f, {"+0", "-0"})
         /\ Added(f) = Added(g) /\ type # "Stringer" /\ ~HasPart(f, {"NaN"}) => Equals(f, g)
<1>1. f.type = type /\ g.type = type
  BY FieldShape
<1>2. CASE type \in ByteTypes \union DeepTypes
  <2>1. /\ Added(f) = ContentAt[v] /\ f.interface = <<v>>
        /\ Added(g) = ContentAt[u] /\ g.interface = <<u>>
    BY <1>2, AddressKept, TypesApart
  <2> QED
    BY <1>1, <1>2, <2>1 DEF Equals
<1>3. CASE type = "Stringer"
  <2>1. Equals(f, g) => f = g
    BY <1>1, <1>3, TypesApart DEF Equals
  <2> QED
    BY <1>3, <2>1
<1>4. CASE type \in ComplexTypes
  BY <1>4, ComplexFieldsCompared
<1>5. CASE type \notin AddressTypes /\ type \notin ComplexTypes
  BY <1>5, PlainFieldsLogTheSame
<1> QED
  BY <1>2, <1>3, <1>4, <1>5, TypesApart

\* Of whatever size the types are, two equal fields are the same line of a log, and
\* two scalar fields that are not equal differ in their type or in what they log;
\* but for complex numbers with a zero part, or NaN.
THEOREM EqualFieldsLogTheSame == FieldSpec => []EqualsMeansSameLog
<1>1. FieldInv => EqualsMeansSameLog
  <2> SUFFICES ASSUME FieldInv, Len(made) = 2,
                      NEW f, f = made[1].field, NEW g, g = made[2].field
               PROVE  LET same == f.type = g.type /\ Added(f) = Added(g)
                      IN  /\ Equals(f, g) => same \/ HasPart(f, {"+0", "-0"})
                          /\ same /\ f.type # "Stringer" /\ ~HasPart(f, {"NaN"}) =>
                               Equals(f, g)
    BY DEF EqualsMeansSameLog
  <2>1. made[1] \in Rows /\ made[2] \in Rows
    <3>1. made \in Seq(Rows) /\ 1 \in 1..Len(made) /\ 2 \in 1..Len(made)
      BY DEF FieldInv
    <3> HIDE DEF Rows
    <3> QED
      BY <3>1, SMTT(30)
  <2>2. \A r \in Rows : \E type \in Types : \E v \in ValuesOf(type) :
          r.field = NewField(type, v)
    BY DEF Rows
  <2>3. PICK s \in Types : \E v \in ValuesOf(s) : f = NewField(s, v)
    BY <2>1, <2>2
  <2>4. PICK t \in Types : \E u \in ValuesOf(t) : g = NewField(t, u)
    BY <2>1, <2>2
  <2>5. f.type = s /\ g.type = t
    BY <2>3, <2>4, FieldShape
  <2>6. CASE s = t
    BY <2>3, <2>4, <2>5, <2>6, SameTypeCompared
  <2>7. CASE s # t
    BY <2>5, <2>7 DEF Equals
  <2> QED
    BY <2>6, <2>7
<1> QED
  BY <1>1, FieldsInductive, PTL
=============================================================================
