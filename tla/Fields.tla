------------------------------- MODULE Fields -------------------------------
(***************************************************************************)
(* Fields: the constructors of field.go put a value of any type into the   *)
(* union zapcore.Field, AddTo takes it out again when an entry is encoded, *)
(* and Equals compares two (zapcore/field.go).                             *)
(*                                                                         *)
(* A value of a numeric type is the integer it is, a float that of its     *)
(* bits.  How many values a width has is a parameter, so that TLC can try  *)
(* all of a few.  A complex number has two parts, of which only zeros, NaN *)
(* and others need telling apart.  Of the other types there are pointers,  *)
(* some of them to equal contents.  Keys are all the same.                 *)
(***************************************************************************)
EXTENDS Integers, Sequences

CONSTANTS
  Size,      \* the number of values of 8, 16, 32 and 64 bits
  ContentAt  \* what is at each address

Widths == {8, 16, 32, 64}

ASSUME WidthAssumption ==
  /\ Size \in [Widths -> Nat \ {0}]
  /\ \A b \in Widths : Size[b] % 2 = 0
  /\ \A b, c \in Widths : b < c => 2 * Size[b] <= Size[c]

VARIABLE made  \* the fields made so far, each with the value it was made of

SignedBits ==
  [Int8 |-> 8, Int16 |-> 16, Int32 |-> 32, Int64 |-> 64, Time |-> 64, Duration |-> 64]
UnsignedBits ==
  [Uint8 |-> 8, Uint16 |-> 16, Uint32 |-> 32, Uint64 |-> 64, Uintptr |-> 64,
   Float32 |-> 32, Float64 |-> 64]

NumericTypes == DOMAIN SignedBits \union DOMAIN UnsignedBits
ByteTypes    == {"Binary", "ByteString"}
DeepTypes    == {"ArrayMarshaler", "ObjectMarshaler", "Error", "Reflect"}
AddressTypes == ByteTypes \union DeepTypes \union {"Stringer"}
ComplexTypes == {"Complex64", "Complex128"}
EmptyTypes   == {"Namespace", "Skip"}
Types        == NumericTypes \union AddressTypes \union ComplexTypes
                  \union EmptyTypes \union {"Bool", "String"}

\* The parts of a complex number.
Parts == {"+0", "-0", "1", "NaN"}

ValuesOf(type) ==
  IF type \in DOMAIN SignedBits
    THEN LET half == Size[SignedBits[type]] \div 2 IN (-half)..(half - 1)
  ELSE IF type \in DOMAIN UnsignedBits THEN 0..(Size[UnsignedBits[type]] - 1)
  ELSE IF type = "Bool" THEN BOOLEAN
  ELSE IF type \in ComplexTypes THEN Parts \X Parts
  ELSE IF type = "String" THEN {ContentAt[a] : a \in DOMAIN ContentAt}
  ELSE IF type \in EmptyTypes THEN {<<>>}
  ELSE DOMAIN ContentAt

-----------------------------------------------------------------------------
(***************************************************************************)
(* Go's conversions between integers keep the low bits, and take the       *)
(* highest of them for the sign if the type has one.                       *)
(***************************************************************************)

ToUnsigned(n, bits) == n % Size[bits]
ToSigned(n, bits) ==
  LET low == ToUnsigned(n, bits)
  IN  IF low < Size[bits] \div 2 THEN low ELSE low - Size[bits]

\* The constructors.  <<>> is the empty string and the nil interface.
NewField(type, v) ==
  [type |-> type,
   integer |-> IF type \in NumericTypes THEN ToSigned(v, 64)
               ELSE IF type = "Bool" /\ v THEN 1 ELSE 0,
   string |-> IF type = "String" THEN <<v>> ELSE <<>>,
   interface |-> IF type \in AddressTypes THEN <<v>>
                 ELSE IF type \in ComplexTypes THEN v ELSE <<>>]

\* Mutant of Converted: the conversion to a smaller type is forgotten.
NotConverted(f) ==
  IF f.type \in DOMAIN SignedBits THEN f.integer ELSE ToSigned(f.integer, 32)

\* The conversion of f.Integer back to its type.
Converted(f) ==
  IF f.type \in DOMAIN SignedBits THEN ToSigned(f.integer, SignedBits[f.type])
                                  ELSE ToUnsigned(f.integer, UnsignedBits[f.type])

\* The value that AddTo gives to the encoder; what an interface holds is not
\* looked at before.
Added(f) ==
  IF f.type \in NumericTypes THEN Converted(f)
  ELSE IF f.type = "Bool" THEN f.integer = 1
  ELSE IF f.type = "String" THEN f.string[1]
  ELSE IF f.type \in AddressTypes THEN ContentAt[f.interface[1]]
  ELSE f.interface

\* Mutant of Equals: the type is only looked at for the interface.
EqualsIfSameInteger(f, g) ==
  IF f.type \in ByteTypes \union DeepTypes
    THEN f.type = g.type /\ ContentAt[f.interface[1]] = ContentAt[g.interface[1]]
    ELSE f.integer = g.integer /\ f.interface = g.interface

\* x == y of two floats.
SameNumber(x, y) == "NaN" \notin {x, y} /\ (x = y \/ {x, y} = {"+0", "-0"})

\* Bytes and DeepEqual look at what pointers refer to, == does not, and compares
\* the complex numbers in an interface as numbers.
Equals(f, g) ==
  /\ f.type = g.type
  /\ IF f.type \in ByteTypes \union DeepTypes
       THEN ContentAt[f.interface[1]] = ContentAt[g.interface[1]]
     ELSE IF f.type \in ComplexTypes
       THEN \A i \in 1..2 : SameNumber(f.interface[i], g.interface[i])
     ELSE f = g

-----------------------------------------------------------------------------

FieldInit == made = <<>>

Make ==
  /\ Len(made) < 2
  /\ \E type \in Types : \E v \in ValuesOf(type) :
       made' = Append(made, [value |-> v, field |-> NewField(type, v)])

Forget == Len(made) = 2 /\ made' = <<>>

FieldSpec == FieldInit /\ [][Make \/ Forget]_made

-----------------------------------------------------------------------------
(***************************************************************************)
(* Properties                                                              *)
(***************************************************************************)

\* The union loses nothing: an encoder is given the value that the constructor
\* was, unsigned values of the highest bit and negative ones included.
NothingLostInField ==
  \A i \in DOMAIN made :
    LET type == made[i].field.type  v == made[i].value IN
    Added(made[i].field) = IF type \in AddressTypes THEN ContentAt[v] ELSE v

HasPart(f, parts) ==
  f.type \in ComplexTypes /\ (f.interface[1] \in parts \/ f.interface[2] \in parts)

\* "Equals returns whether two fields are equal" (zapcore/field.go:172): two
\* equal fields are the same line of a log, and two scalar fields that are not
\* equal differ in their type or in what they log.  Complex numbers are compared
\* as numbers: zeros of either sign are equal, and NaN is not.
EqualsMeansSameLog ==
  Len(made) = 2 =>
    LET f == made[1].field  g == made[2].field
        same == f.type = g.type /\ Added(f) = Added(g)
    IN  /\ Equals(f, g) => same \/ HasPart(f, {"+0", "-0"})
        /\ same /\ f.type # "Stringer" /\ ~HasPart(f, {"NaN"}) => Equals(f, g)
=============================================================================
