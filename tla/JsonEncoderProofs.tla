------------------------- MODULE JsonEncoderProofs -------------------------
(***************************************************************************)
(* Theorems about JsonEncoder for every configuration, every bound and all *)
(* lengths of slices: each line is one JSON object, with every value where *)
(* it belongs, unless marshalers open namespaces.                          *)
(***************************************************************************)
EXTENDS JsonEncoder, SetInduction, SequenceTheorems

-----------------------------------------------------------------------------
(***************************************************************************)
(* The reader, token by token.                                             *)
(***************************************************************************)

\* A reader after each token of b.
Readers(d, b, f) ==
  f = [i \in 0..Len(b) |-> IF i = 0 THEN d ELSE Read(f[i - 1], b[i])]

\* There is only one such function: what ReadAll chooses.
LEMMA ReadersUnique ==
  ASSUME NEW d, NEW b \in Seq(Tokens), NEW f, NEW g, Readers(d, b, f), Readers(d, b, g)
  PROVE  f = g
<1> DEFINE S == {n \in Nat : n <= Len(b) => f[n] = g[n]}
<1>1. 0 \in S
  BY DEF Readers
<1>2. \A n \in Nat : n \in S => n + 1 \in S
  <2> SUFFICES ASSUME NEW n \in S, n + 1 <= Len(b) PROVE f[n + 1] = g[n + 1]
    OBVIOUS
  <2>1. f[n] = g[n]
    OBVIOUS
  <2>2. f[n + 1] = Read(f[n + 1 - 1], b[n + 1]) /\ g[n + 1] = Read(g[n + 1 - 1], b[n + 1])
    BY DEF Readers
  <2>3. n + 1 - 1 = n
    OBVIOUS
  <2> QED
    BY <2>1, <2>2, <2>3
<1>3. \A n \in 0..Len(b) : f[n] = g[n]
  <2> HIDE DEF S
  <2>1. Nat \subseteq S
    BY <1>1, <1>2, Induction
  <2> QED
    BY <2>1 DEF S
<1> QED
  BY <1>3 DEF Readers

LEMMA ReadersExist ==
  ASSUME NEW d
  PROVE  \A b \in Seq(Tokens) : \E f : Readers(d, b, f)
<1> DEFINE S == {n \in Nat : \A b \in Seq(Tokens) : Len(b) = n => \E f : Readers(d, b, f)}
<1>1. 0 \in S
  <2> SUFFICES ASSUME NEW b \in Seq(Tokens), Len(b) = 0 PROVE \E f : Readers(d, b, f)
    OBVIOUS
  <2> DEFINE f == [i \in 0..0 |-> d]
  <2>1. f = [i \in 0..Len(b) |-> IF i = 0 THEN d ELSE Read(f[i - 1], b[i])]
    OBVIOUS
  <2> QED
    BY <2>1 DEF Readers
<1>2. \A n \in Nat : n \in S => n + 1 \in S
  <2> SUFFICES ASSUME NEW n \in Nat,
                      \A c \in Seq(Tokens) : Len(c) = n => \E f : Readers(d, c, f),
                      NEW b \in Seq(Tokens), Len(b) = n + 1
               PROVE  \E f : Readers(d, b, f)
    <3>1. \A n \in Nat : n + 1 \in Nat
      OBVIOUS
    <3> QED
      BY <3>1, Zenon
  <2> DEFINE c == SubSeq(b, 1, n)
  <2>1. c \in Seq(Tokens) /\ Len(c) = n /\ \A i \in 1..n : c[i] = b[i]
    BY SubSeqProperties
  <2>2. PICK g : Readers(d, c, g)
    BY <2>1
  <2> HIDE DEF c
  <2> DEFINE f == [i \in 0..n + 1 |-> IF i <= n THEN g[i] ELSE Read(g[n], b[i])]
  <2>3. ASSUME NEW i \in 0..n + 1
        PROVE  f[i] = IF i = 0 THEN d ELSE Read(f[i - 1], b[i])
    <3>1. CASE i = 0
      BY <2>1, <2>2, <3>1 DEF Readers
    <3>2. CASE i \in 1..n
      <4>1. i \in 0..Len(c) /\ i # 0
        BY <2>1, <3>2
      <4>2. g[i] = Read(g[i - 1], c[i])
        BY <2>2, <4>1 DEF Readers
      <4> QED
        BY <2>1, <3>2, <4>2
    <3>3. CASE i = n + 1
      <4>1. f[i] = Read(g[n], b[i])
        BY <3>3
      <4>2. f[i - 1] = g[n]
        BY <3>3
      <4> QED
        BY <3>3, <4>1, <4>2
    <3> QED
      BY <3>1, <3>2, <3>3
  <2>4. f = [i \in 0..Len(b) |-> IF i = 0 THEN d ELSE Read(f[i - 1], b[i])]
    BY <2>3
  <2> QED
    BY <2>4 DEF Readers
<1>3. Nat \subseteq S
  <2> HIDE DEF S
  <2> QED
    BY <1>1, <1>2, Induction
<1> QED
  BY <1>3

LEMMA ReadAllIs ==
  ASSUME NEW d, NEW b \in Seq(Tokens)
  PROVE  \E f : Readers(d, b, f) /\ ReadAll(d, b) = f[Len(b)]
<1>1. PICK g : Readers(d, b, g)
  BY ReadersExist
<1> DEFINE f == CHOOSE f : f = [i \in 0..Len(b) |-> IF i = 0 THEN d ELSE Read(f[i - 1], b[i])]
<1>2. f = [i \in 0..Len(b) |-> IF i = 0 THEN d ELSE Read(f[i - 1], b[i])]
  BY <1>1 DEF Readers
<1>3. ReadAll(d, b) = f[Len(b)]
  BY DEF ReadAll
<1> HIDE DEF f
<1> QED
  BY <1>2, <1>3 DEF Readers

LEMMA ReadNone ==
  ASSUME NEW d
  PROVE  ReadAll(d, <<>>) = d
<1>1. <<>> \in Seq(Tokens) /\ Len(<<>>) = 0
  OBVIOUS
<1>2. PICK f : Readers(d, <<>>, f) /\ ReadAll(d, <<>>) = f[0]
  BY <1>1, ReadAllIs
<1> QED
  BY <1>1, <1>2 DEF Readers

\* One more token.
LEMMA ReadAppend ==
  ASSUME NEW d, NEW b \in Seq(Tokens), NEW t \in Tokens
  PROVE  ReadAll(d, Append(b, t)) = Read(ReadAll(d, b), t)
<1> DEFINE c == Append(b, t)
           n == Len(b)
<1>1. c \in Seq(Tokens) /\ Len(c) = n + 1 /\ n \in Nat /\ c[n + 1] = t
      /\ \A i \in 1..n : c[i] = b[i]
  OBVIOUS
<1> HIDE DEF c
<1>2. PICK f : Readers(d, b, f) /\ ReadAll(d, b) = f[n]
  BY ReadAllIs
<1>3. PICK g : Readers(d, c, g) /\ ReadAll(d, c) = g[n + 1]
  BY <1>1, ReadAllIs
<1> HIDE DEF n
<1> DEFINE h == [i \in 0..n |-> g[i]]
<1>4. h = [i \in 0..n |-> IF i = 0 THEN d ELSE Read(h[i - 1], b[i])]
  <2> SUFFICES ASSUME NEW i \in 0..n
               PROVE  h[i] = IF i = 0 THEN d ELSE Read(h[i - 1], b[i])
    OBVIOUS
  <2>1. g[i] = IF i = 0 THEN d ELSE Read(g[i - 1], c[i])
    BY <1>1, <1>3 DEF Readers
  <2> QED
    BY <1>1, <2>1
<1>5. h = f
  <2> HIDE DEF h
  <2>1. Readers(d, b, h)
    BY <1>4 DEF Readers, n
  <2> QED
    BY <1>2, <2>1, ReadersUnique
<1>6. g[n + 1] = Read(g[n + 1 - 1], c[n + 1])
  BY <1>1, <1>3 DEF Readers
<1>7. g[n + 1 - 1] = f[n]
  BY <1>1, <1>5
<1> QED
  BY <1>1, <1>2, <1>3, <1>6, <1>7 DEF c

\* Reading goes on where it stopped.
LEMMA ReadConcat ==
  ASSUME NEW d, NEW b \in Seq(Tokens)
  PROVE  \A c \in Seq(Tokens) : ReadAll(d, b \o c) = ReadAll(ReadAll(d, b), c)
<1> DEFINE S == {n \in Nat : \A c \in Seq(Tokens) :
                   Len(c) = n => ReadAll(d, b \o c) = ReadAll(ReadAll(d, b), c)}
<1>1. 0 \in S
  <2> SUFFICES ASSUME NEW c \in Seq(Tokens), Len(c) = 0
               PROVE  ReadAll(d, b \o c) = ReadAll(ReadAll(d, b), c)
    OBVIOUS
  <2>1. c = <<>> /\ b \o c = b
    OBVIOUS
  <2> QED
    BY <2>1, ReadNone
<1>2. \A n \in Nat : n \in S => n + 1 \in S
  <2> SUFFICES ASSUME NEW n \in S, NEW c \in Seq(Tokens), Len(c) = n + 1
               PROVE  ReadAll(d, b \o c) = ReadAll(ReadAll(d, b), c)
    OBVIOUS
  <2> DEFINE e == SubSeq(c, 1, n)
             t == c[n + 1]
  <2>1. e \in Seq(Tokens) /\ Len(e) = n /\ t \in Tokens /\ c = Append(e, t)
    BY SubSeqProperties
  <2> HIDE DEF e, t
  <2>2. b \o Append(e, t) = Append(b \o e, t) /\ b \o e \in Seq(Tokens)
    BY <2>1
  <2>3. ReadAll(d, Append(b \o e, t)) = Read(ReadAll(d, b \o e), t)
    BY <2>1, <2>2, ReadAppend
  <2>4. ReadAll(ReadAll(d, b), Append(e, t)) = Read(ReadAll(ReadAll(d, b), e), t)
    BY <2>1, ReadAppend
  <2> QED
    BY <2>1, <2>2, <2>3, <2>4
<1>3. Nat \subseteq S
  <2> HIDE DEF S
  <2> QED
    BY <1>1, <1>2, Induction
<1> QED
  BY <1>3

-----------------------------------------------------------------------------
(***************************************************************************)
(* Where the reader is while the encoder works.                            *)
(***************************************************************************)

Opens == [closing : {"rbrace", "rbracket"}, id : Nat]

\* A reader: what may come next, the open containers, how many have been
\* opened, and the paths of the values so far.
R(need, open, count, leaves) ==
  [need |-> need, open |-> open, opened |-> count, leaves |-> leaves]

Ids(o) == [i \in DOMAIN o |-> o[i].id]

ReaderTypes(b, o, k, p) ==
  /\ b \in Seq(Tokens)
  /\ o \in Seq(Opens) /\ o # <<>>
  /\ k \in Nat
  /\ p \in Seq(Seq(Nat))

\* After the tokens b, a reader that began as d is between two members of an
\* object or elements of an array.  The last token says which is to come, as
\* addElementSeparator assumes.
At(d, b, o, k, p) ==
  /\ ReaderTypes(b, o, k, p)
  /\ \E n \in {"key", "firstKey", "firstValue", "more"} :
       /\ ReadAll(d, b) = R(n, o, k, p)
       /\ \/ /\ b = <<>> /\ Len(o) = 1
             /\ n \in {"key", "firstKey"} /\ Last(o).closing = "rbrace"
          \/ /\ b # <<>> /\ Last(b) = "lbrace"
             /\ n = "firstKey" /\ Last(o).closing = "rbrace"
          \/ /\ b # <<>> /\ Last(b) = "lbracket"
             /\ n = "firstValue" /\ Last(o).closing = "rbracket"
          \/ b # <<>> /\ Last(b) \in {"val", "rbrace", "rbracket"} /\ n = "more"

\* It waits for a value.
Slot(d, b, o, k, p) ==
  /\ ReaderTypes(b, o, k, p)
  /\ b # <<>> /\ Last(b) \in {"colon", "space", "lbracket", "comma"}
  /\ \E n \in {"value", "firstValue"} : ReadAll(d, b) = R(n, o, k, p)

LEMMA LastAppend ==
  ASSUME NEW b \in Seq(Tokens), NEW t \in Tokens
  PROVE  /\ Append(b, t) \in Seq(Tokens) /\ Append(b, t) # <<>>
         /\ Last(Append(b, t)) = t
         /\ b \o <<t>> = Append(b, t)
  BY DEF Last

LEMMA AppendTwo ==
  ASSUME NEW b \in Seq(Tokens), NEW t \in Tokens, NEW u \in Tokens
  PROVE  b \o <<t, u>> = Append(Append(b, t), u)
  OBVIOUS

LEMMA AppendThree ==
  ASSUME NEW b \in Seq(Tokens), NEW t \in Tokens, NEW u \in Tokens, NEW v \in Tokens
  PROVE  b \o <<t, u, v>> = Append(Append(Append(b, t), u), v)
  OBVIOUS

LEMMA TokensAre ==
  /\ "lbrace" \in Tokens /\ "rbrace" \in Tokens /\ "lbracket" \in Tokens /\ "rbracket" \in Tokens
  /\ "colon" \in Tokens /\ "comma" \in Tokens /\ "space" \in Tokens
  /\ "key" \in Tokens /\ "val" \in Tokens
  BY DEF Tokens

LEMMA OpensType ==
  ASSUME NEW o \in Seq(Opens), NEW i \in 1..Len(o)
  PROVE  o[i].closing \in {"rbrace", "rbracket"} /\ o[i].id \in Nat
<1>1. o[i] \in Opens
  BY ElementOfSeq
<1> QED
  BY <1>1 DEF Opens

LEMMA IdsOf ==
  ASSUME NEW o \in Seq(Opens)
  PROVE  Ids(o) \in Seq(Nat) /\ Len(Ids(o)) = Len(o)
<1>1. \A i \in 1..Len(o) : o[i].id \in Nat
  BY OpensType, Zenon
<1>2. Ids(o) = [i \in 1..Len(o) |-> o[i].id] /\ Len(o) \in Nat
  BY DEF Ids
<1> QED
  BY <1>1, <1>2

\* An opening bracket, and what closes it.
Opening(closing) == IF closing = "rbrace" THEN "lbrace" ELSE "lbracket"

\* What each token does to the reader.
LEMMA ReadSpace ==
  ASSUME NEW n, NEW o \in Seq(Opens), NEW k \in Nat, NEW p \in Seq(Seq(Nat))
  PROVE  Read(R(n, o, k, p), "space") = R(n, o, k, p)
  BY DEF Read

LEMMA ReadKey ==
  ASSUME NEW n, NEW o \in Seq(Opens), NEW k \in Nat, NEW p \in Seq(Seq(Nat)),
         n \in {"key", "firstKey"}
  PROVE  Read(R(n, o, k, p), "key") = R("colon", o, k, p)
  BY DEF Read, R

LEMMA ReadColon ==
  ASSUME NEW n, NEW o \in Seq(Opens), NEW k \in Nat, NEW p \in Seq(Seq(Nat))
  PROVE  Read(R("colon", o, k, p), "colon") = R("value", o, k, p)
  BY DEF Read, R

LEMMA ReadVal ==
  ASSUME NEW n, NEW o \in Seq(Opens), NEW k \in Nat, NEW p \in Seq(Seq(Nat)),
         n \in {"value", "firstValue"}
  PROVE  Read(R(n, o, k, p), "val") = R("more", o, k, Append(p, Ids(o)))
  BY DEF Read, R, Path, Ids

LEMMA ReadOpening ==
  ASSUME NEW n, NEW o \in Seq(Opens), NEW k \in Nat, NEW p \in Seq(Seq(Nat)),
         n \in {"value", "firstValue"}, NEW c \in {"rbrace", "rbracket"}
  PROVE  Read(R(n, o, k, p), Opening(c)) =
           R(IF c = "rbrace" THEN "firstKey" ELSE "firstValue",
             Append(o, [closing |-> c, id |-> k]), k + 1, p)
  BY DEF Read, R, Opening

LEMMA ReadComma ==
  ASSUME NEW n, NEW o \in Seq(Opens), NEW k \in Nat, NEW p \in Seq(Seq(Nat))
  PROVE  Read(R("more", o, k, p), "comma") =
           R(IF Last(o).closing = "rbrace" THEN "key" ELSE "value", o, k, p)
  BY DEF Read, R

LEMMA ReadLast ==
  ASSUME NEW n, NEW o \in Seq(Opens), NEW k \in Nat, NEW p \in Seq(Seq(Nat)),
         o # <<>>, Last(o).closing \in {"rbrace", "rbracket"},
         n = "more" \/ n = (IF Last(o).closing = "rbrace" THEN "firstKey" ELSE "firstValue")
  PROVE  Read(R(n, o, k, p), Last(o).closing) =
           R(IF Len(o) = 1 THEN "end" ELSE "more", Front(o), k, p)
  BY DEF Read, R

\* addElementSeparator writes a comma where there must be one.
LEMMA SeparatedReads ==
  ASSUME NEW d, NEW b, NEW o, NEW k, NEW p, At(d, b, o, k, p)
  PROVE  /\ Separated(b) \in Seq(Tokens)
         /\ Last(o).closing = "rbrace" =>
              \E n \in {"key", "firstKey"} : ReadAll(d, Separated(b)) = R(n, o, k, p)
         /\ Last(o).closing = "rbracket" => Slot(d, Separated(b), o, k, p)
<1>1. ReaderTypes(b, o, k, p)
  BY DEF At
<1>2. PICK n :
        /\ ReadAll(d, b) = R(n, o, k, p)
        /\ \/ b = <<>> /\ n \in {"key", "firstKey"} /\ Last(o).closing = "rbrace"
              /\ Len(o) = 1
           \/ b # <<>> /\ Last(b) = "lbrace" /\ n = "firstKey" /\ Last(o).closing = "rbrace"
           \/ b # <<>> /\ Last(b) = "lbracket" /\ n = "firstValue" /\ Last(o).closing = "rbracket"
           \/ b # <<>> /\ Last(b) \in {"val", "rbrace", "rbracket"} /\ n = "more"
  BY DEF At
<1>3. CASE b = <<>> \/ Last(b) \in {"lbrace", "lbracket"}
  <2>1. Separated(b) = b
    BY <1>3 DEF Separated
  <2> QED
    BY <1>1, <1>2, <1>3, <2>1 DEF Slot, ReaderTypes
<1>4. CASE b # <<>> /\ Last(b) \in {"val", "rbrace", "rbracket"}
  <2> DEFINE c == Append(b, "comma")
             e == Append(c, "space")
             m == IF Last(o).closing = "rbrace" THEN "key" ELSE "value"
  <2>1. /\ c \in Seq(Tokens) /\ e \in Seq(Tokens)
        /\ c # <<>> /\ Last(c) = "comma" /\ e # <<>> /\ Last(e) = "space"
    <3>1. b \in Seq(Tokens)
      BY <1>1 DEF ReaderTypes
    <3> QED
      BY <3>1, LastAppend, TokensAre, Zenon
  <2>2. Separated(b) \in {c, e}
    <3>1. b \o <<"comma">> = c /\ b \o <<"comma", "space">> = e
      <4>1. b \in Seq(Tokens)
        BY <1>1 DEF ReaderTypes
      <4> QED
        BY <4>1, LastAppend, AppendTwo, TokensAre
    <3> QED
      BY <1>4, <3>1 DEF Separated
  <2>3. Last(o).closing \in {"rbrace", "rbracket"}
    <3>1. o \in Seq(Opens) /\ Len(o) \in 1..Len(o)
      BY <1>1 DEF ReaderTypes
    <3> QED
      BY <3>1, OpensType DEF Last
  <2>4. ReadAll(d, c) = R(m, o, k, p)
    <3>1. ReadAll(d, c) = Read(R("more", o, k, p), "comma")
      <4>1. b \in Seq(Tokens) /\ ReadAll(d, b) = R("more", o, k, p)
        BY <1>1, <1>2, <1>4 DEF ReaderTypes
      <4> QED
        BY <4>1, ReadAppend, TokensAre, ZenonT(40)
    <3>2. /\ o \in Seq(Opens) /\ k \in Nat /\ p \in Seq(Seq(Nat))
      BY <1>1 DEF ReaderTypes
    <3> HIDE DEF c
    <3> QED
      BY <2>3, <3>1, <3>2, ReadComma
  <2>5. ReadAll(d, e) = R(m, o, k, p)
    <3>1. ReadAll(d, e) = Read(R(m, o, k, p), "space")
      BY <2>1, <2>4, ReadAppend, TokensAre, ZenonT(40)
    <3>2. /\ o \in Seq(Opens) /\ k \in Nat /\ p \in Seq(Seq(Nat))
      BY <1>1 DEF ReaderTypes
    <3> HIDE DEF e, m
    <3> QED
      BY <3>1, <3>2, ReadSpace
  <2> HIDE DEF c, e
  <2> QED
    BY <1>1, <2>1, <2>2, <2>3, <2>4, <2>5 DEF Slot, ReaderTypes
<1> QED
  BY <1>2, <1>3, <1>4

LEMMA SlotSeparated ==
  ASSUME NEW d, NEW b, NEW o, NEW k, NEW p, Slot(d, b, o, k, p)
  PROVE  Separated(b) = b
  BY DEF Slot, Separated

\* addKey
LEMMA WithKeySlot ==
  ASSUME NEW d, NEW b, NEW o, NEW k, NEW p, At(d, b, o, k, p), Last(o).closing = "rbrace"
  PROVE  Slot(d, WithKey(b), o, k, p)
<1>1. ReaderTypes(b, o, k, p)
  BY DEF At
<1>2. /\ Separated(b) \in Seq(Tokens)
      /\ \E n \in {"key", "firstKey"} : ReadAll(d, Separated(b)) = R(n, o, k, p)
  BY SeparatedReads
<1>3. PICK n \in {"key", "firstKey"} : ReadAll(d, Separated(b)) = R(n, o, k, p)
  BY <1>2
<1> DEFINE c == Append(Separated(b), "key")
           e == Append(c, "colon")
           f == Append(e, "space")
<1>4. /\ c \in Seq(Tokens) /\ e \in Seq(Tokens) /\ f \in Seq(Tokens)
      /\ e # <<>> /\ Last(e) = "colon" /\ f # <<>> /\ Last(f) = "space"
  BY <1>2, LastAppend, TokensAre, Zenon
<1>5. WithKey(b) \in {e, f}
  <2>1. /\ Separated(b) \o <<"key", "colon">> = e
        /\ Separated(b) \o <<"key", "colon", "space">> = f
    BY <1>2, AppendTwo, AppendThree, TokensAre
  <2> QED
    BY <2>1 DEF WithKey
<1>6. o \in Seq(Opens) /\ k \in Nat /\ p \in Seq(Seq(Nat))
  BY <1>1 DEF ReaderTypes
<1>7. ReadAll(d, c) = R("colon", o, k, p)
  <2>1. ReadAll(d, c) = Read(R(n, o, k, p), "key")
    BY <1>2, <1>3, ReadAppend, TokensAre
  <2> HIDE DEF c
  <2> QED
    BY <1>6, <2>1, ReadKey
<1> HIDE DEF c
<1>8. ReadAll(d, e) = R("value", o, k, p)
  <2>1. ReadAll(d, e) = Read(R("colon", o, k, p), "colon")
    BY <1>4, <1>7, ReadAppend, TokensAre
  <2> HIDE DEF e
  <2> QED
    BY <1>6, <2>1, ReadColon
<1> HIDE DEF e
<1>9. ReadAll(d, f) = R("value", o, k, p)
  <2>1. ReadAll(d, f) = Read(R("value", o, k, p), "space")
    BY <1>4, <1>8, ReadAppend, TokensAre
  <2> HIDE DEF f
  <2> QED
    BY <1>6, <2>1, ReadSpace
<1> HIDE DEF f
<1> QED
  BY <1>1, <1>4, <1>5, <1>8, <1>9 DEF Slot, ReaderTypes

-----------------------------------------------------------------------------
(***************************************************************************)
(* What the methods of the encoder do to the reader.                       *)
(***************************************************************************)

LEMMA SlotValue ==
  ASSUME NEW d, NEW b, NEW o, NEW k, NEW p, Slot(d, b, o, k, p)
  PROVE  At(d, Append(b, "val"), o, k, Append(p, Ids(o)))
<1> DEFINE c == Append(b, "val")
           q == Append(p, Ids(o))
<1>1. b \in Seq(Tokens) /\ o \in Seq(Opens) /\ o # <<>> /\ k \in Nat /\ p \in Seq(Seq(Nat))
  BY DEF Slot, ReaderTypes
<1>2. PICK n \in {"value", "firstValue"} : ReadAll(d, b) = R(n, o, k, p)
  BY DEF Slot
<1>3. ReadAll(d, c) = Read(R(n, o, k, p), "val")
  BY <1>1, <1>2, ReadAppend, TokensAre
<1>4. Read(R(n, o, k, p), "val") = R("more", o, k, q)
  BY <1>1, <1>2, ReadVal
<1>5. c \in Seq(Tokens) /\ c # <<>> /\ Last(c) = "val"
  BY <1>1, LastAppend, TokensAre, Zenon
<1>6. q \in Seq(Seq(Nat))
  BY <1>1, IdsOf
<1>7. At(d, c, o, k, q)
  <2> HIDE DEF c, q
  <2> QED
    BY <1>1, <1>3, <1>4, <1>5, <1>6 DEF At, ReaderTypes
<1> QED
  BY <1>7

LEMMA SlotOpen ==
  ASSUME NEW d, NEW b, NEW o, NEW k, NEW p, Slot(d, b, o, k, p),
         NEW c \in {"rbrace", "rbracket"}
  PROVE  At(d, Append(b, Opening(c)), Append(o, [closing |-> c, id |-> k]), k + 1, p)
<1> DEFINE e == Append(b, Opening(c))
           q == Append(o, [closing |-> c, id |-> k])
           m == IF c = "rbrace" THEN "firstKey" ELSE "firstValue"
<1>1. b \in Seq(Tokens) /\ o \in Seq(Opens) /\ o # <<>> /\ k \in Nat /\ p \in Seq(Seq(Nat))
  BY DEF Slot, ReaderTypes
<1>2. PICK n \in {"value", "firstValue"} : ReadAll(d, b) = R(n, o, k, p)
  BY DEF Slot
<1>3. Opening(c) \in Tokens
  BY TokensAre DEF Opening
<1>4. ReadAll(d, e) = Read(R(n, o, k, p), Opening(c))
  BY <1>1, <1>2, <1>3, ReadAppend
<1>5. Read(R(n, o, k, p), Opening(c)) = R(m, q, k + 1, p)
  BY <1>1, <1>2, ReadOpening, Zenon
<1>6. e \in Seq(Tokens) /\ e # <<>> /\ Last(e) = Opening(c)
  BY <1>1, <1>3, LastAppend, Zenon
<1>7. q \in Seq(Opens) /\ q # <<>> /\ Last(q).closing = c
  <2>1. [closing |-> c, id |-> k] \in Opens
    BY <1>1 DEF Opens
  <2> QED
    BY <1>1, <2>1 DEF Last
<1>8. At(d, e, q, k + 1, p)
  <2> HIDE DEF e, q
  <2> QED
    BY <1>1, <1>4, <1>5, <1>6, <1>7 DEF At, ReaderTypes, Opening
<1> QED
  BY <1>8

LEMMA LastOpens ==
  ASSUME NEW o \in Seq(Opens), o # <<>>
  PROVE  Last(o).closing \in {"rbrace", "rbracket"}
<1>1. Len(o) \in 1..Len(o)
  OBVIOUS
<1> QED
  BY <1>1, OpensType DEF Last

\* A closing bracket after some token.
LEMMA ReadClosing ==
  ASSUME NEW d, NEW b, NEW o, NEW k, NEW p, At(d, b, o, k, p), b # <<>>
  PROVE  ReadAll(d, Append(b, Last(o).closing)) =
           R(IF Len(o) = 1 THEN "end" ELSE "more", Front(o), k, p)
<1>1. b \in Seq(Tokens) /\ o \in Seq(Opens) /\ o # <<>> /\ k \in Nat /\ p \in Seq(Seq(Nat))
  BY DEF At, ReaderTypes
<1>2. PICK n : /\ ReadAll(d, b) = R(n, o, k, p)
               /\ \/ n \in {"firstKey", "more"} /\ Last(o).closing = "rbrace"
                  \/ n \in {"firstValue", "more"} /\ Last(o).closing = "rbracket"
  <2>1. Last(o).closing \in {"rbrace", "rbracket"}
    BY <1>1, LastOpens
  <2> QED
    BY <2>1 DEF At
<1>3. Last(o).closing \in Tokens
  BY <1>2, TokensAre
<1>4. ReadAll(d, Append(b, Last(o).closing)) = Read(R(n, o, k, p), Last(o).closing)
  BY <1>1, <1>2, <1>3, ReadAppend
<1> QED
  BY <1>1, <1>2, <1>4, ReadLast

LEMMA AtClose ==
  ASSUME NEW d, NEW b, NEW o, NEW k, NEW p, At(d, b, o, k, p), Len(o) > 1
  PROVE  At(d, Append(b, Last(o).closing), Front(o), k, p)
<1>1. b \in Seq(Tokens) /\ o \in Seq(Opens) /\ o # <<>> /\ k \in Nat /\ p \in Seq(Seq(Nat))
  BY DEF At, ReaderTypes
<1>2. ReadAll(d, Append(b, Last(o).closing)) = R("more", Front(o), k, p) /\ b # <<>>
  <2>1. Len(o) \in Nat
    BY <1>1, LenProperties
  <2>2. Len(o) # 1
    <3>1. \A n \in Nat : n > 1 => n # 1
      OBVIOUS
    <3> QED
      BY <2>1, <3>1, Zenon
  <2>3. b # <<>>
    BY <2>2 DEF At
  <2> QED
    BY <2>2, <2>3, ReadClosing
<1>3. Last(o).closing \in {"rbrace", "rbracket"}
  BY <1>1, LastOpens
<1> DEFINE t == Last(o).closing
           c == Append(b, t)
<1>4. c \in Seq(Tokens) /\ c # <<>> /\ Last(c) = t
  <2>1. t \in Tokens
    BY <1>3, TokensAre
  <2> QED
    BY <1>1, <2>1, LastAppend, Zenon
<1>5. Front(o) \in Seq(Opens) /\ Front(o) # <<>>
  <2>1. Len(o) \in Nat
    BY <1>1, LenProperties
  <2>2. Len(o) - 1 \in 1..Len(o) /\ Len(o) - 1 >= 1
    BY <2>1
  <2>3. Len(SubSeq(o, 1, Len(o) - 1)) = Len(o) - 1
    BY <1>1, <2>1, <2>2
  <2>4. SubSeq(o, 1, Len(o) - 1) \in Seq(Opens)
    BY <1>1, <2>1, <2>2
  <2>5. SubSeq(o, 1, Len(o) - 1) # <<>>
    BY <2>2, <2>3
  <2> QED
    BY <2>4, <2>5 DEF Front
<1> HIDE DEF c
<1> QED
  BY <1>1, <1>2, <1>3, <1>4, <1>5 DEF At, ReaderTypes, c

\* Separators and scalars only add tokens, so the fallback of WithEncoded is
\* there exactly when the configuration appends nothing.
LEMMA EncodedIsValue ==
  ASSUME NEW b \in Seq(Tokens)
  PROVE  /\ Separated(b) \in Seq(Tokens) /\ Len(Separated(b)) >= Len(b)
         /\ WithValue(b) = Append(Separated(b), "val")
         /\ WithEncoded(b) = WithValue(b)
<1>1. Separated(b) \in Seq(Tokens) /\ Len(Separated(b)) >= Len(b)
  <2>1. <<"comma">> \in Seq(Tokens) /\ <<"comma", "space">> \in Seq(Tokens)
    BY TokensAre
  <2> QED
    BY <2>1 DEF Separated
<1>2. WithValue(b) = Append(Separated(b), "val")
  BY <1>1, LastAppend, TokensAre DEF WithValue
<1>3. Len(WithValue(b)) # Len(b)
  BY <1>1, <1>2
<1> QED
  BY <1>1, <1>2, <1>3 DEF WithEncoded

LEMMA ValueAt ==
  ASSUME NEW d, NEW b \in Seq(Tokens), NEW o, NEW k, NEW p, Slot(d, Separated(b), o, k, p)
  PROVE  /\ At(d, WithValue(b), o, k, Append(p, Ids(o)))
         /\ At(d, WithEncoded(b), o, k, Append(p, Ids(o)))
<1>1. At(d, Append(Separated(b), "val"), o, k, Append(p, Ids(o)))
  BY SlotValue
<1>2. WithValue(b) = Append(Separated(b), "val") /\ WithEncoded(b) = WithValue(b)
  BY EncodedIsValue
<1> QED
  BY <1>1, <1>2

\* A field that is a scalar.
LEMMA KeyValueAt ==
  ASSUME NEW d, NEW b, NEW o, NEW k, NEW p, At(d, b, o, k, p), Last(o).closing = "rbrace"
  PROVE  /\ At(d, WithValue(WithKey(b)), o, k, Append(p, Ids(o)))
         /\ At(d, WithEncoded(WithKey(b)), o, k, Append(p, Ids(o)))
<1> DEFINE c == WithKey(b)
<1>1. Slot(d, c, o, k, p)
  BY WithKeySlot
<1> HIDE DEF c
<1>2. Separated(c) = c /\ c \in Seq(Tokens)
  BY <1>1, SlotSeparated DEF Slot, ReaderTypes
<1>3. /\ At(d, WithValue(c), o, k, Append(p, Ids(o)))
      /\ At(d, WithEncoded(c), o, k, Append(p, Ids(o)))
  BY <1>1, <1>2, ValueAt
<1> QED
  BY <1>3 DEF c

\* An element that is a scalar.
LEMMA ElementAt ==
  ASSUME NEW d, NEW b, NEW o, NEW k, NEW p, At(d, b, o, k, p), Last(o).closing = "rbracket"
  PROVE  /\ At(d, WithValue(b), o, k, Append(p, Ids(o)))
         /\ At(d, WithEncoded(b), o, k, Append(p, Ids(o)))
<1>1. b \in Seq(Tokens)
  BY DEF At, ReaderTypes
<1>2. Slot(d, Separated(b), o, k, p)
  BY SeparatedReads
<1> QED
  BY <1>1, <1>2, ValueAt

LEMMA ConcatAppend ==
  ASSUME NEW S, NEW b \in Seq(S), NEW c \in Seq(S), NEW t \in S
  PROVE  b \o Append(c, t) = Append(b \o c, t)
  OBVIOUS

LEMMA FrontProperties ==
  ASSUME NEW S, NEW s \in Seq(S), s # <<>>
  PROVE  /\ Front(s) \in Seq(S) /\ Len(Front(s)) = Len(s) - 1
         /\ \A i \in 1..Len(s) - 1 : Front(s)[i] = s[i]
<1> DEFINE n == Len(s) - 1
<1>1. n \in 0..Len(s) /\ 1 \in 1..Len(s) + 1
  OBVIOUS
<1> HIDE DEF n
<1>2. /\ SubSeq(s, 1, n) \in Seq(S)
      /\ Len(SubSeq(s, 1, n)) = n
      /\ \A i \in 1..n : SubSeq(s, 1, n)[i] = s[i]
  BY <1>1
<1> QED
  BY <1>2 DEF Front, n

LEMMA FrontOfOne ==
  ASSUME NEW S, NEW b \in Seq(S), Len(b) = 1
  PROVE  Front(b) = <<>>
  BY DEF Front

LEMMA ValuesType ==
  ASSUME NEW n \in Nat, NEW q \in Seq(Nat)
  PROVE  Values(n, q) \in Seq(Seq(Nat)) /\ Len(Values(n, q)) = n
  BY DEF Values

LEMMA MoreValues ==
  ASSUME NEW p \in Seq(Seq(Nat)), NEW q \in Seq(Nat), NEW n \in Nat
  PROVE  /\ p \o Values(0, q) = p
         /\ Append(p \o Values(n, q), q) = p \o Values(n + 1, q)
<1>1. Values(0, q) = <<>> /\ n + 1 \in Nat
  BY DEF Values
<1>2. Values(n + 1, q) = Append(Values(n, q), q)
  BY DEF Values
<1>3. Values(n, q) \in Seq(Seq(Nat))
  BY ValuesType
<1>4. p \o <<>> = p
  OBVIOUS
<1>5. p \o Append(Values(n, q), q) = Append(p \o Values(n, q), q)
  BY <1>3, ConcatAppend
<1> QED
  BY <1>1, <1>2, <1>4, <1>5

LEMMA FewValues ==
  ASSUME NEW p \in Seq(Seq(Nat)), NEW q \in Seq(Nat)
  PROVE  /\ Append(p, q) = p \o Values(1, q)
         /\ Append(Append(p, q), q) = p \o Values(2, q)
<1>1. p \o Values(0, q) = p
  BY MoreValues
<1>2. Append(p \o Values(0, q), q) = p \o Values(0 + 1, q)
  BY MoreValues
<1>3. Append(p \o Values(1, q), q) = p \o Values(1 + 1, q)
  BY MoreValues
<1>4. 0 + 1 = 1 /\ 1 + 1 = 2
  OBVIOUS
<1> QED
  BY <1>1, <1>2, <1>3, <1>4, Zenon

\* encodeError, but for the causes.
LEMMA ErrorAt ==
  ASSUME NEW d, NEW b, NEW o, NEW k, NEW p, At(d, b, o, k, p), Last(o).closing = "rbrace"
  PROVE  /\ At(d, WithError(b, FALSE), o, k, p \o Values(1, Ids(o)))
         /\ At(d, WithError(b, TRUE), o, k, p \o Values(2, Ids(o)))
<1>1. o \in Seq(Opens) /\ p \in Seq(Seq(Nat))
  BY DEF At, ReaderTypes
<1>2. Ids(o) \in Seq(Nat)
  BY <1>1, IdsOf
<1>3. At(d, WithValue(WithKey(b)), o, k, Append(p, Ids(o)))
  BY KeyValueAt
<1>4. At(d, WithValue(WithKey(WithValue(WithKey(b)))), o, k, Append(Append(p, Ids(o)), Ids(o)))
  BY <1>3, KeyValueAt
<1>5. /\ WithError(b, FALSE) = WithValue(WithKey(b))
      /\ WithError(b, TRUE) = WithValue(WithKey(WithValue(WithKey(b))))
  BY DEF WithError
<1> QED
  BY <1>1, <1>2, <1>3, <1>4, <1>5, FewValues

\* The buffer after each element of a slice.
Slices(b, n, e, f) ==
  f = [i \in 0..n |-> IF i = 0 THEN b
                      ELSE IF e THEN WithEncoded(f[i - 1]) ELSE WithValue(f[i - 1])]

LEMMA SlicesExist ==
  ASSUME NEW b, NEW e
  PROVE  \A n \in Nat : \E f : Slices(b, n, e, f)
<1> DEFINE S == {n \in Nat : \E f : Slices(b, n, e, f)}
<1>1. 0 \in S
  <2> DEFINE f == [i \in 0..0 |-> b]
  <2>1. f = [i \in 0..0 |-> IF i = 0 THEN b
                            ELSE IF e THEN WithEncoded(f[i - 1]) ELSE WithValue(f[i - 1])]
    OBVIOUS
  <2> QED
    BY <2>1 DEF Slices
<1>2. \A n \in Nat : n \in S => n + 1 \in S
  <2> SUFFICES ASSUME NEW n \in Nat, NEW g, Slices(b, n, e, g)
               PROVE  \E f : Slices(b, n + 1, e, f)
    <3>1. \A n \in Nat : n + 1 \in Nat
      OBVIOUS
    <3> QED
      BY <3>1, Zenon
  <2> DEFINE f == [i \in 0..n + 1 |-> IF i <= n THEN g[i]
                                      ELSE IF e THEN WithEncoded(g[n]) ELSE WithValue(g[n])]
  <2>1. ASSUME NEW i \in 0..n + 1
        PROVE  f[i] = IF i = 0 THEN b
                      ELSE IF e THEN WithEncoded(f[i - 1]) ELSE WithValue(f[i - 1])
    <3>1. CASE i = 0
      BY <3>1 DEF Slices
    <3>2. CASE i \in 1..n
      <4>1. g[i] = IF e THEN WithEncoded(g[i - 1]) ELSE WithValue(g[i - 1])
        BY <3>2 DEF Slices
      <4> QED
        BY <3>2, <4>1
    <3>3. CASE i = n + 1
      <4>1. f[i] = (IF e THEN WithEncoded(g[n]) ELSE WithValue(g[n])) /\ f[i - 1] = g[n]
        BY <3>3
      <4> QED
        BY <3>3, <4>1
    <3> QED
      BY <3>1, <3>2, <3>3
  <2>2. f = [i \in 0..n + 1 |-> IF i = 0 THEN b
               ELSE IF e THEN WithEncoded(f[i - 1]) ELSE WithValue(f[i - 1])]
    BY <2>1
  <2> QED
    BY <2>2 DEF Slices
<1>3. Nat \subseteq S
  <2> HIDE DEF S
  <2> QED
    BY <1>1, <1>2, Induction
<1> QED
  BY <1>3

\* A slice has as many values as elements, in its array.
LEMMA ElementsAt ==
  ASSUME NEW d, NEW b, NEW o, NEW k, NEW p, At(d, b, o, k, p), Last(o).closing = "rbracket",
         NEW n \in Nat, NEW e
  PROVE  At(d, Elements(b, n, e), o, k, p \o Values(n, Ids(o)))
<1> DEFINE f == CHOOSE f : f = [i \in 0..n |-> IF i = 0 THEN b
                  ELSE IF e THEN WithEncoded(f[i - 1]) ELSE WithValue(f[i - 1])]
<1>1. f = [i \in 0..n |-> IF i = 0 THEN b
             ELSE IF e THEN WithEncoded(f[i - 1]) ELSE WithValue(f[i - 1])]
  <2>1. \E g : Slices(b, n, e, g)
    BY SlicesExist
  <2> QED
    BY <2>1 DEF Slices
<1>2. Elements(b, n, e) = f[n]
  BY DEF Elements
<1> HIDE DEF f
<1>3. o \in Seq(Opens) /\ p \in Seq(Seq(Nat)) /\ Ids(o) \in Seq(Nat)
  <2>1. o \in Seq(Opens) /\ p \in Seq(Seq(Nat))
    BY DEF At, ReaderTypes
  <2> QED
    BY <2>1, IdsOf
<1> DEFINE S == {i \in Nat : i <= n => At(d, f[i], o, k, p \o Values(i, Ids(o)))}
<1>4. 0 \in S
  <2>1. f[0] = b
    BY <1>1
  <2>2. p \o Values(0, Ids(o)) = p
    BY <1>3, MoreValues
  <2> QED
    BY <2>1, <2>2
<1>5. \A i \in Nat : i \in S => i + 1 \in S
  <2> SUFFICES ASSUME NEW i \in Nat, i + 1 <= n, At(d, f[i], o, k, p \o Values(i, Ids(o)))
               PROVE  At(d, f[i + 1], o, k, p \o Values(i + 1, Ids(o)))
    OBVIOUS
  <2>1. f[i + 1] = IF e THEN WithEncoded(f[i]) ELSE WithValue(f[i])
    <3>1. i + 1 \in 0..n /\ i + 1 # 0 /\ (i + 1) - 1 = i
      OBVIOUS
    <3> QED
      BY <1>1, <3>1
  <2>2. /\ At(d, WithEncoded(f[i]), o, k, Append(p \o Values(i, Ids(o)), Ids(o)))
        /\ At(d, WithValue(f[i]), o, k, Append(p \o Values(i, Ids(o)), Ids(o)))
    BY ElementAt
  <2>3. Append(p \o Values(i, Ids(o)), Ids(o)) = p \o Values(i + 1, Ids(o))
    BY <1>3, MoreValues
  <2> QED
    BY <2>1, <2>2, <2>3
<1>6. Nat \subseteq S
  <2> HIDE DEF S
  <2> QED
    BY <1>4, <1>5, Induction
<1> QED
  BY <1>2, <1>6

\* The namespaces that are open when the entry ends are closed, and the entry.
LEMMA ClosingsEnd ==
  ASSUME NEW d, NEW b, NEW o, NEW k, NEW p, At(d, b, o, k, p), b # <<>>,
         \A i \in 1..Len(o) : o[i].closing = "rbrace"
  PROVE  LET c == b \o Closings(Len(o) - 1) \o <<"rbrace">>
         IN  c \in Seq(Tokens) /\ c # <<>> /\ ReadAll(d, c) = R("end", <<>>, k, p)
<1>1. /\ b \in Seq(Tokens) /\ o \in Seq(Opens) /\ o # <<>> /\ k \in Nat /\ p \in Seq(Seq(Nat))
      /\ Len(o) \in Nat \ {0}
  BY DEF At, ReaderTypes
<1> DEFINE l == Len(o)
           B(i) == b \o Closings(i)
           O(i) == SubSeq(o, 1, l - i)
           S == {i \in Nat : i < l => At(d, B(i), O(i), k, p)}
<1>2. \A i \in Nat : /\ B(i) \in Seq(Tokens) /\ B(i) # <<>>
                     /\ B(i + 1) = Append(B(i), "rbrace")
  <2> TAKE i \in Nat
  <2>1. Closings(i) \in Seq(Tokens) /\ Closings(i + 1) = Append(Closings(i), "rbrace")
    BY DEF Closings, Tokens
  <2>2. "rbrace" \in Tokens
    BY TokensAre
  <2>3. b \o Closings(i) \in Seq(Tokens) /\ b \o Closings(i) # <<>>
    BY <1>1, <2>1
  <2>4. b \o Closings(i + 1) = Append(b \o Closings(i), "rbrace")
    <3>1. b \o Append(Closings(i), "rbrace") = Append(b \o Closings(i), "rbrace")
      BY <1>1, <2>1, <2>2, ConcatAppend, SMTT(30)
    <3> QED
      BY <2>1, <3>1
  <2> QED
    BY <2>3, <2>4
<1>3. 0 \in S
  <2>1. B(0) = b /\ O(0) = o
    BY <1>1 DEF Closings
  <2> QED
    BY <2>1
<1>4. \A i \in Nat : i < l => /\ O(i) \in Seq(Opens) /\ Len(O(i)) = l - i
                              /\ Last(O(i)).closing = "rbrace"
                              /\ Front(O(i)) = O(i + 1)
  <2> TAKE i \in Nat
  <2> HAVE i < l
  <2>1. l - i \in 1..l /\ l - i \in Nat
    BY <1>1
  <2>2. O(i) \in Seq(Opens) /\ Len(O(i)) = l - i /\ \A j \in 1..l - i : O(i)[j] = o[j]
    BY <1>1, <2>1, SubSeqProperties
  <2>3. Last(O(i)).closing = "rbrace"
    BY <2>1, <2>2 DEF Last
  <2>4. Front(O(i)) = O(i + 1)
    BY <1>1, <2>1 DEF Front
  <2> QED
    BY <2>2, <2>3, <2>4
<1> HIDE DEF B, O, l
<1>5. l \in Nat
  BY <1>1 DEF l
<1>6. \A i \in Nat : i \in S => i + 1 \in S
  <2> SUFFICES ASSUME NEW i \in Nat, i + 1 < l, At(d, B(i), O(i), k, p)
               PROVE  At(d, B(i + 1), O(i + 1), k, p)
    BY <1>5
  <2>1. Len(O(i)) > 1 /\ Last(O(i)).closing = "rbrace" /\ Front(O(i)) = O(i + 1)
    BY <1>4, <1>5
  <2>2. At(d, Append(B(i), Last(O(i)).closing), Front(O(i)), k, p)
    BY <2>1, AtClose
  <2> QED
    BY <1>2, <2>1, <2>2
<1>7. Nat \subseteq S
  <2> HIDE DEF S
  <2> QED
    BY <1>3, <1>6, Induction
<1>8. l - 1 \in Nat /\ l - 1 < l
  BY <1>1 DEF l
<1>9. At(d, B(l - 1), O(l - 1), k, p) /\ B(l - 1) # <<>>
  BY <1>2, <1>7, <1>8
<1>10. /\ O(l - 1) \in Seq(Opens) /\ Len(O(l - 1)) = 1
       /\ Last(O(l - 1)).closing = "rbrace" /\ Front(O(l - 1)) = <<>>
  <2>1. /\ O(l - 1) \in Seq(Opens) /\ Len(O(l - 1)) = l - (l - 1)
        /\ Last(O(l - 1)).closing = "rbrace"
    BY <1>4, <1>8
  <2>2. l - (l - 1) = 1
    BY <1>5
  <2> QED
    BY <2>1, <2>2, FrontOfOne
<1>11. ReadAll(d, Append(B(l - 1), "rbrace")) = R("end", <<>>, k, p)
  BY <1>9, <1>10, ReadClosing
<1>12. "rbrace" \in Tokens /\ B(l - 1) \in Seq(Tokens)
  BY <1>2, <1>8, TokensAre
<1>13. /\ Append(B(l - 1), "rbrace") \in Seq(Tokens) /\ Append(B(l - 1), "rbrace") # <<>>
       /\ B(l - 1) \o <<"rbrace">> = Append(B(l - 1), "rbrace")
  BY <1>12, LastAppend
<1> QED
  BY <1>11, <1>13 DEF B, l

-----------------------------------------------------------------------------
(***************************************************************************)
(* The inductive invariant: what a reader has open is what the encoder is  *)
(* inside of.                                                              *)
(***************************************************************************)

Kinds == {"object", "array", "errors", "cause"}

\* Each marshaler is in a container of the one below it; the frame at the bottom
\* is the entry, in its innermost namespace.
PathsOK(st) ==
  /\ st \in Seq([kind : Kinds, path : Seq(Nat)]) /\ st # <<>>
  /\ st[1].kind = "object" /\ st[1].path # <<>>
  /\ \A i \in 1..Len(st) : Len(st[i].path) = Len(st[1].path) + i - 1
  /\ \A i \in 1..Len(st) - 1 : \A j \in 1..Len(st[i].path) :
       st[i + 1].path[j] = st[i].path[j]

\* The object of a cause is only there for the array in it.
CausesOK(st) ==
  \A i \in 1..Len(st) : st[i].kind = "cause" => i < Len(st) /\ st[i + 1].kind = "errors"

ClosingOf(kind) == IF kind \in {"object", "cause"} THEN "rbrace" ELSE "rbracket"

\* The containers on the way to the one the encoder adds to: the entry and its
\* namespaces, which are objects, and the marshalers'.
OpenOf(st) ==
  [i \in 1..Len(Last(st).path) |->
     [closing |-> IF i <= Len(st[1].path) THEN "rbrace"
                  ELSE ClosingOf(st[i - Len(st[1].path) + 1].kind),
      id |-> Last(st).path[i]]]

Entry == [closing |-> "rbrace", id |-> 0]

\* Readers that are in the entry, at the first key or after a comma: those that
\* the tokens of a context may come to.
Begins == {R(n, <<Entry>>, 1, p) : n \in {"key", "firstKey"}, p \in Seq(Seq(Nat))}

\* Those that read what the encoder in use has written.
Readings(ph) == IF ph = "entry" THEN {Start} ELSE Begins

\* Whichever reader reads the tokens b: it has open what the encoder is in, and
\* has seen the values w.
Reads(ds, b, st, k, w) ==
  \A d \in ds : At(d, b, OpenOf(st), k + 1, d.leaves \o w)

EncoderTypes(k, w) == k \in Nat /\ w \in Seq(Seq(Nat))

CoreStack == <<Frame("object", core.path)>>

CoreOK ==
  /\ EncoderTypes(core.opened, core.want)
  /\ PathsOK(CoreStack)
  /\ core.openNamespaces = Len(core.path) - 1
  /\ Reads(Begins, core.buf, CoreStack, core.opened, core.want)

EncoderOK ==
  /\ EncoderTypes(opened, want)
  /\ PathsOK(stack) /\ CausesOK(stack)
  /\ openNamespaces = Len(stack[1].path) - 1
  /\ Reads(Readings(phase), buf, stack, opened, want)

LineOK ==
  line # <<>> => Decoded(line).need = "end" /\ Decoded(line).leaves = lineWant

Inv ==
  /\ config \in Configs
  /\ phase \in {"ready", "with", "entry"}
  /\ work \in 0..MaxWork
  /\ CoreOK
  /\ IF phase = "ready" THEN encoder = <<<<>>, 0, <<>>, <<>>, 0>> ELSE EncoderOK
  /\ LineOK

-----------------------------------------------------------------------------
(***************************************************************************)
(* The containers that are open.                                           *)
(***************************************************************************)

LEMMA OpenOfTypes ==
  ASSUME NEW st, PathsOK(st)
  PROVE  /\ Len(st) \in Nat \ {0}
         /\ \A i \in 1..Len(st) : st[i].kind \in Kinds /\ st[i].path \in Seq(Nat)
         /\ Last(st) = st[Len(st)]
         /\ Len(Last(st).path) = Len(st[1].path) + Len(st) - 1
         /\ Len(st[1].path) \in Nat \ {0}
         /\ OpenOf(st) \in Seq(Opens)
         /\ Len(OpenOf(st)) = Len(Last(st).path)
         /\ Ids(OpenOf(st)) = Last(st).path
<1>1. /\ st \in Seq([kind : Kinds, path : Seq(Nat)])
      /\ Len(st) \in Nat \ {0}
      /\ \A i \in 1..Len(st) : Len(st[i].path) = Len(st[1].path) + i - 1
  BY DEF PathsOK
<1>2. \A i \in 1..Len(st) : st[i].kind \in Kinds /\ st[i].path \in Seq(Nat)
  <2>1. \A i \in 1..Len(st) : st[i] \in [kind : Kinds, path : Seq(Nat)]
    BY <1>1, ElementOfSeq, Zenon
  <2> QED
    BY <2>1
<1>3. Last(st) = st[Len(st)]
  BY DEF Last
<1>4. Len(Last(st).path) = Len(st[1].path) + Len(st) - 1
  BY <1>1, <1>3
<1>5. Len(st[1].path) \in Nat \ {0}
  <2>1. st[1].path \in Seq(Nat)
    BY <1>1, <1>2
  <2> QED
    BY <2>1 DEF PathsOK
<1> DEFINE q == Last(st).path
           o == OpenOf(st)
<1>6. q \in Seq(Nat) /\ Len(q) \in Nat
  BY <1>1, <1>2, <1>3
<1>7. /\ DOMAIN o = 1..Len(q)
      /\ \A i \in 1..Len(q) : o[i].id = q[i] /\ o[i] \in Opens
  <2> SUFFICES ASSUME NEW i \in 1..Len(q)
               PROVE  o[i].id = q[i] /\ o[i] \in Opens
    BY DEF OpenOf
  <2>1. q[i] \in Nat
    BY <1>6
  <2> QED
    BY <2>1 DEF OpenOf, Opens, ClosingOf
<1>8. o \in Seq(Opens) /\ Len(o) = Len(q)
  <2>1. o = [i \in 1..Len(q) |-> o[i]]
    BY <1>7 DEF OpenOf
  <2> HIDE DEF o, q
  <2> QED
    BY <1>6, <1>7, <2>1
<1>9. Ids(o) = q
  <2> HIDE DEF o
  <2>1. Ids(o) = [i \in 1..Len(q) |-> q[i]]
    BY <1>7 DEF Ids
  <2> HIDE DEF q
  <2> QED
    BY <1>6, <2>1
<1> QED
  BY <1>1, <1>2, <1>3, <1>4, <1>5, <1>8, <1>9

\* The last one closes as what the encoder is in does.
LEMMA TopClosing ==
  ASSUME NEW st, PathsOK(st)
  PROVE  Last(OpenOf(st)).closing = ClosingOf(Last(st).kind)
<1> DEFINE l == Len(Last(st).path)
           m == Len(st[1].path)
<1>1. /\ Len(st) \in Nat \ {0} /\ m \in Nat \ {0} /\ l = m + Len(st) - 1
      /\ Len(OpenOf(st)) = l /\ Last(st) = st[Len(st)]
  BY OpenOfTypes
<1>2. l \in 1..l /\ l - m + 1 = Len(st) /\ (l <= m <=> Len(st) = 1)
  <2> DEFINE n == Len(st)
  <2>1. n \in Nat \ {0} /\ m \in Nat \ {0} /\ l = m + n - 1
    BY <1>1
  <2> HIDE DEF l, m, n
  <2>2. l \in 1..l /\ l - m + 1 = n /\ (l <= m <=> n = 1)
    BY <2>1
  <2> QED
    BY <2>2 DEF n
<1>3. Last(OpenOf(st)) = OpenOf(st)[l]
  BY <1>1 DEF Last
<1>4. OpenOf(st)[l].closing = IF l <= m THEN "rbrace" ELSE ClosingOf(st[l - m + 1].kind)
  BY <1>2 DEF OpenOf
<1>5. st[1].kind = "object"
  BY DEF PathsOK
<1> HIDE DEF l, m
<1> QED
  BY <1>1, <1>2, <1>3, <1>4, <1>5 DEF ClosingOf

\* One more marshaler.
LEMMA OpenOfPush ==
  ASSUME NEW st, PathsOK(st), NEW kind \in Kinds, NEW id \in Nat
  PROVE  LET new == Append(st, Frame(kind, Append(Last(st).path, id)))
         IN  /\ PathsOK(new)
             /\ OpenOf(new) = Append(OpenOf(st), [closing |-> ClosingOf(kind), id |-> id])
<1> DEFINE q == Last(st).path
           r == Append(q, id)
           f == Frame(kind, r)
           new == Append(st, f)
           n == Len(st)
           m == Len(st[1].path)
<1>1. /\ n \in Nat \ {0} /\ m \in Nat \ {0}
      /\ \A i \in 1..n : st[i].kind \in Kinds /\ st[i].path \in Seq(Nat)
      /\ Last(st) = st[n]
      /\ Len(q) = m + n - 1
      /\ OpenOf(st) \in Seq(Opens) /\ Len(OpenOf(st)) = Len(q)
  BY OpenOfTypes
<1>2. /\ st \in Seq([kind : Kinds, path : Seq(Nat)])
      /\ st[1].kind = "object" /\ st[1].path # <<>>
      /\ \A i \in 1..n : Len(st[i].path) = m + i - 1
      /\ \A i \in 1..n - 1 : \A j \in 1..Len(st[i].path) : st[i + 1].path[j] = st[i].path[j]
  BY DEF PathsOK
<1>3. q \in Seq(Nat)
  BY <1>1
<1>4. /\ r \in Seq(Nat) /\ Len(r) = Len(q) + 1 /\ r[Len(q) + 1] = id
      /\ \A j \in 1..Len(q) : r[j] = q[j]
  BY <1>3
<1>5. f \in [kind : Kinds, path : Seq(Nat)] /\ f.kind = kind /\ f.path = r
  BY <1>4 DEF Frame
<1> HIDE DEF r, f
<1>6. /\ new \in Seq([kind : Kinds, path : Seq(Nat)]) /\ Len(new) = n + 1
      /\ new[n + 1] = f /\ (\A i \in 1..n : new[i] = st[i])
  BY <1>2, <1>5
<1> HIDE DEF new
<1>7. Last(new) = f /\ new # <<>> /\ new[1] = st[1]
  <2> HIDE DEF n
  <2>1. Last(new) = f
    BY <1>6 DEF Last
  <2>2. new # <<>> /\ new[1] = st[1]
    BY <1>1, <1>6
  <2> QED
    BY <2>1, <2>2
<1>8. PathsOK(new)
  <2>1. ASSUME NEW i \in 1..n + 1 PROVE Len(new[i].path) = Len(new[1].path) + i - 1
    <3>1. CASE i \in 1..n
      BY <1>2, <1>6, <1>7, <3>1
    <3>2. CASE i = n + 1
      BY <1>1, <1>4, <1>5, <1>6, <1>7, <3>2
    <3> QED
      BY <1>1, <3>1, <3>2
  <2>2. ASSUME NEW i \in 1..n, NEW j \in 1..Len(new[i].path)
        PROVE  new[i + 1].path[j] = new[i].path[j]
    <3>1. CASE i \in 1..n - 1
      <4>1. i + 1 \in 1..n
        BY <1>1, <3>1
      <4> QED
        BY <1>2, <1>6, <3>1, <4>1
    <3>2. CASE i = n
      BY <1>1, <1>4, <1>5, <1>6, <3>2
    <3> QED
      BY <1>1, <3>1, <3>2
  <2>3. Len(new) - 1 = n
    BY <1>1, <1>6
  <2> QED
    BY <1>2, <1>6, <1>7, <2>1, <2>2, <2>3 DEF PathsOK
<1>9. OpenOf(new) = Append(OpenOf(st), [closing |-> ClosingOf(kind), id |-> id])
  <2> DEFINE l == Len(q)
             g == [closing |-> ClosingOf(kind), id |-> id]
  <2>1. OpenOf(new) = [i \in 1..l + 1 |->
                         [closing |-> IF i <= m THEN "rbrace"
                                      ELSE ClosingOf(new[i - m + 1].kind),
                          id |-> r[i]]]
    BY <1>4, <1>5, <1>7 DEF OpenOf
  <2>2. OpenOf(st) = [i \in 1..l |->
                         [closing |-> IF i <= m THEN "rbrace"
                                      ELSE ClosingOf(st[i - m + 1].kind),
                          id |-> q[i]]]
    BY DEF OpenOf
  <2> HIDE DEF l, m, n, q
  <2>3. l \in Nat /\ l = m + n - 1
    BY <1>1 DEF l
  <2>4. ASSUME NEW i \in 1..l PROVE OpenOf(new)[i] = OpenOf(st)[i]
    <3>1. ~(i <= m) => i - m + 1 \in 1..n
      BY <1>1, <2>3
    <3>2. ~(i <= m) => new[i - m + 1] = st[i - m + 1]
      BY <1>6, <3>1
    <3>3. i \in 1..l + 1 /\ r[i] = q[i]
      BY <1>4, <2>3 DEF l
    <3> QED
      BY <2>1, <2>2, <3>2, <3>3
  <2>5. OpenOf(new)[l + 1] = g
    <3>1. ~(l + 1 <= m) /\ (l + 1) - m + 1 = n + 1 /\ l + 1 \in 1..l + 1
      BY <1>1, <2>3
    <3>2. r[l + 1] = id
      BY <1>4 DEF l
    <3>3. new[n + 1].kind = kind
      BY <1>5, <1>6
    <3>4. OpenOf(new)[l + 1] =
            [closing |-> IF l + 1 <= m THEN "rbrace" ELSE ClosingOf(new[(l + 1) - m + 1].kind),
             id |-> r[l + 1]]
      BY <2>1, <3>1
    <3> QED
      BY <3>1, <3>2, <3>3, <3>4
  <2>6. OpenOf(new) \in Seq(Opens) /\ Len(OpenOf(new)) = l + 1
    BY <1>4, <1>5, <1>7, <1>8, OpenOfTypes DEF l
  <2>7. OpenOf(st) \in Seq(Opens) /\ Len(OpenOf(st)) = l
    BY <1>1 DEF l
  <2>8. g \in Opens
    BY DEF Opens, ClosingOf
  <2>9. Append(OpenOf(st), g) \in Seq(Opens) /\ Len(Append(OpenOf(st), g)) = l + 1
        /\ Append(OpenOf(st), g)[l + 1] = g
        /\ \A i \in 1..l : Append(OpenOf(st), g)[i] = OpenOf(st)[i]
    BY <2>7, <2>8
  <2> HIDE DEF g
  <2>10. \A i \in 1..l + 1 : OpenOf(new)[i] = Append(OpenOf(st), g)[i]
    BY <2>3, <2>4, <2>5, <2>9
  <2>11. OpenOf(new) = Append(OpenOf(st), g)
    BY <2>6, <2>9, <2>10, SeqEqual
  <2> QED
    BY <2>11 DEF g
<1> QED
  BY <1>8, <1>9 DEF new, f, r

\* One less.
LEMMA OpenOfPop ==
  ASSUME NEW st, PathsOK(st), Len(st) > 1
  PROVE  /\ PathsOK(Front(st)) /\ Front(st)[1] = st[1] /\ Len(Front(st)) = Len(st) - 1
         /\ \A i \in 1..Len(st) - 1 : Front(st)[i] = st[i]
         /\ OpenOf(Front(st)) = Front(OpenOf(st))
         /\ Len(OpenOf(st)) > 1
<1> DEFINE n == Len(st)
           m == Len(st[1].path)
           q == Last(st).path
           new == Front(st)
           l == Len(q)
<1>1. /\ n \in Nat \ {0} /\ m \in Nat \ {0}
      /\ \A i \in 1..n : st[i].kind \in Kinds /\ st[i].path \in Seq(Nat)
      /\ Last(st) = st[n]
      /\ l = m + n - 1
      /\ OpenOf(st) \in Seq(Opens) /\ Len(OpenOf(st)) = l
  BY OpenOfTypes
<1>2. /\ st \in Seq([kind : Kinds, path : Seq(Nat)])
      /\ st[1].kind = "object" /\ st[1].path # <<>>
      /\ \A i \in 1..n : Len(st[i].path) = m + i - 1
      /\ \A i \in 1..n - 1 : \A j \in 1..Len(st[i].path) : st[i + 1].path[j] = st[i].path[j]
  BY DEF PathsOK
<1>3. n > 1
  OBVIOUS
<1> HIDE DEF m, q, l
<1>4. /\ new \in Seq([kind : Kinds, path : Seq(Nat)]) /\ Len(new) = n - 1
      /\ \A i \in 1..n - 1 : new[i] = st[i]
  <2>1. st # <<>>
    BY DEF PathsOK
  <2> QED
    BY <1>2, <2>1, FrontProperties, Zenon
<1> HIDE DEF new, n
<1>5. new # <<>> /\ new[1] = st[1] /\ Last(new) = st[n - 1]
  <2>1. n - 1 \in 1..n - 1 /\ 1 \in 1..n - 1
    BY <1>1, <1>3
  <2>2. new # <<>>
    BY <1>4, <2>1
  <2> QED
    BY <1>4, <2>1, <2>2 DEF Last
<1>6. PathsOK(new)
  <2>1. \A i \in 1..n - 1 : Len(new[i].path) = Len(new[1].path) + i - 1
    <3> TAKE i \in 1..n - 1
    <3>1. i \in 1..n
      BY <1>1
    <3> QED
      BY <1>2, <1>4, <1>5, <3>1 DEF m
  <2>2. ASSUME NEW i \in 1..(n - 1) - 1, NEW j \in 1..Len(new[i].path)
        PROVE  new[i + 1].path[j] = new[i].path[j]
    <3>1. i \in 1..n - 1 /\ i + 1 \in 1..n - 1
      BY <1>1
    <3> QED
      BY <1>2, <1>4, <3>1
  <2> QED
    BY <1>2, <1>4, <1>5, <2>1, <2>2 DEF PathsOK
<1>7. l > 1 /\ l \in Nat /\ Len(st[n - 1].path) = l - 1
  <2>1. n - 1 \in 1..n
    BY <1>1, <1>3
  <2>2. Len(st[n - 1].path) = m + (n - 1) - 1
    BY <1>2, <2>1
  <2>3. l > 1 /\ l \in Nat /\ m + (n - 1) - 1 = l - 1
    BY <1>1, <1>3
  <2> QED
    BY <2>2, <2>3
<1>8. OpenOf(new) = Front(OpenOf(st))
  <2>1. OpenOf(new) \in Seq(Opens) /\ Len(OpenOf(new)) = l - 1
    BY <1>5, <1>6, <1>7, OpenOfTypes
  <2>2. /\ Front(OpenOf(st)) \in Seq(Opens) /\ Len(Front(OpenOf(st))) = l - 1
        /\ \A i \in 1..l - 1 : Front(OpenOf(st))[i] = OpenOf(st)[i]
    <3>1. l - 1 \in 0..l
      BY <1>7
    <3> QED
      BY <1>1, <3>1, SubSeqProperties DEF Front
  <2>3. OpenOf(new) = [i \in 1..l - 1 |->
                         [closing |-> IF i <= m THEN "rbrace"
                                      ELSE ClosingOf(new[i - m + 1].kind),
                          id |-> st[n - 1].path[i]]]
    BY <1>5, <1>7 DEF OpenOf, m
  <2>4. OpenOf(st) = [i \in 1..l |->
                         [closing |-> IF i <= m THEN "rbrace"
                                      ELSE ClosingOf(st[i - m + 1].kind),
                          id |-> q[i]]]
    BY DEF OpenOf, q, l, m
  <2>5. ASSUME NEW i \in 1..l - 1 PROVE OpenOf(new)[i] = OpenOf(st)[i]
    <3>1. ~(i <= m) => i - m + 1 \in 1..n - 1
      BY <1>1, <1>7
    <3>2. ~(i <= m) => new[i - m + 1] = st[i - m + 1]
      BY <1>4, <3>1
    <3>3. i \in 1..l /\ st[n - 1].path[i] = q[i]
      <4>1. n - 1 \in 1..n - 1 /\ (n - 1) + 1 = n /\ i \in 1..l
        BY <1>1, <1>3, <1>7
      <4>2. i \in 1..Len(st[n - 1].path)
        BY <1>7
      <4>3. st[(n - 1) + 1].path[i] = st[n - 1].path[i]
        BY <1>2, <4>1, <4>2
      <4> QED
        BY <1>1, <4>1, <4>3 DEF q
    <3> QED
      BY <2>3, <2>4, <3>2, <3>3
  <2> QED
    BY <2>1, <2>2, <2>5, SeqEqual
<1> QED
  BY <1>1, <1>4, <1>5, <1>6, <1>7, <1>8 DEF new, n

\* Only the entry and its namespaces.
LEMMA OpenOfOne ==
  ASSUME NEW q \in Seq(Nat), q # <<>>
  PROVE  LET st == <<Frame("object", q)>>
         IN  /\ PathsOK(st) /\ CausesOK(st)
             /\ OpenOf(st) = [i \in 1..Len(q) |-> [closing |-> "rbrace", id |-> q[i]]]
<1> DEFINE f == Frame("object", q)
           st == <<f>>
<1>1. f.kind = "object" /\ f.path = q /\ f \in [kind : Kinds, path : Seq(Nat)]
  BY DEF Frame, Kinds
<1> HIDE DEF f
<1>2. st \in Seq([kind : Kinds, path : Seq(Nat)]) /\ Len(st) = 1 /\ st[1] = f /\ st # <<>>
  BY <1>1
<1> HIDE DEF st
<1>3. Len(q) \in Nat \ {0}
  OBVIOUS
<1>4. PathsOK(st)
  BY <1>1, <1>2, <1>3 DEF PathsOK
<1>5. CausesOK(st)
  BY <1>1, <1>2 DEF CausesOK
<1>6. OpenOf(st) = [i \in 1..Len(q) |-> [closing |-> "rbrace", id |-> q[i]]]
  BY <1>1, <1>2, <1>3 DEF OpenOf, Last
<1> QED
  BY <1>4, <1>5, <1>6 DEF st, f

\* One more namespace.
LEMMA OpenOfNamespace ==
  ASSUME NEW q \in Seq(Nat), q # <<>>, NEW id \in Nat
  PROVE  OpenOf(<<Frame("object", Append(q, id))>>) =
           Append(OpenOf(<<Frame("object", q)>>), [closing |-> "rbrace", id |-> id])
<1> DEFINE r == Append(q, id)
<1>1. /\ r \in Seq(Nat) /\ r # <<>> /\ Len(r) = Len(q) + 1
      /\ r[Len(q) + 1] = id /\ \A i \in 1..Len(q) : r[i] = q[i]
  OBVIOUS
<1> HIDE DEF r
<1>2. /\ OpenOf(<<Frame("object", q)>>) = [i \in 1..Len(q) |-> [closing |-> "rbrace", id |-> q[i]]]
      /\ OpenOf(<<Frame("object", r)>>) = [i \in 1..Len(r) |-> [closing |-> "rbrace", id |-> r[i]]]
  BY <1>1, OpenOfOne
<1>3. [i \in 1..Len(r) |-> [closing |-> "rbrace", id |-> r[i]]] =
        Append([i \in 1..Len(q) |-> [closing |-> "rbrace", id |-> q[i]]],
               [closing |-> "rbrace", id |-> id])
  BY <1>1
<1> QED
  BY <1>2, <1>3 DEF r

-----------------------------------------------------------------------------
(***************************************************************************)
(* The header of an entry and its context.                                 *)
(***************************************************************************)

LEMMA KeysCounted ==
  ASSUME NEW K, NEW S, IsFiniteSet(S), NEW x, x \notin S
  PROVE  /\ Cardinality(K \cap S) \in Nat
         /\ Cardinality(K \cap (S \union {x})) =
              IF x \in K THEN Cardinality(K \cap S) + 1 ELSE Cardinality(K \cap S)
<1>1. IsFiniteSet(K \cap S)
  BY FS_Subset
<1>2. Cardinality(K \cap S) \in Nat
  BY <1>1, FS_CardinalityType
<1>3. Cardinality((K \cap S) \union {x}) = Cardinality(K \cap S) + 1
  BY <1>1, FS_AddElement
<1>4. K \cap (S \union {x}) = IF x \in K THEN (K \cap S) \union {x} ELSE K \cap S
  OBVIOUS
<1> QED
  BY <1>2, <1>3, <1>4

\* In the entry, after n values of it.
InEntry(b, n) == b # <<>> /\ At(Start, b, <<Entry>>, 1, Values(n, <<0>>))

LEMMA EntryOpens ==
  InEntry(<<"lbrace">>, 0)
<1>1. <<>> \in Seq(Tokens) /\ <<>> \in Seq(Opens) /\ <<>> \in Seq(Seq(Nat)) /\ 0 \in Nat
  OBVIOUS
<1>2. ReadAll(Start, <<>>) = R("value", <<>>, 0, <<>>)
  BY ReadNone DEF Start, R
<1>3. Opening("rbrace") = "lbrace" /\ "lbrace" \in Tokens
  BY TokensAre DEF Opening
<1>4. ReadAll(Start, Append(<<>>, "lbrace")) = Read(R("value", <<>>, 0, <<>>), "lbrace")
  BY <1>1, <1>2, <1>3, ReadAppend
<1>5. Read(R("value", <<>>, 0, <<>>), Opening("rbrace")) =
        R("firstKey", Append(<<>>, [closing |-> "rbrace", id |-> 0]), 0 + 1, <<>>)
  BY <1>1, ReadOpening
<1>6. /\ Append(<<>>, "lbrace") = <<"lbrace">>
      /\ Append(<<>>, [closing |-> "rbrace", id |-> 0]) = <<Entry>>
      /\ 0 + 1 = 1
  BY DEF Entry
<1>7. ReadAll(Start, <<"lbrace">>) = R("firstKey", <<Entry>>, 1, <<>>)
  BY <1>3, <1>4, <1>5, <1>6
<1>8. Values(0, <<0>>) = <<>>
  BY DEF Values
<1>9. <<Entry>> \in Seq(Opens) /\ <<"lbrace">> \in Seq(Tokens)
  BY <1>3 DEF Entry, Opens
<1>10. /\ <<Entry>> # <<>> /\ Last(<<Entry>>).closing = "rbrace"
       /\ <<"lbrace">> # <<>> /\ Last(<<"lbrace">>) = "lbrace"
  BY DEF Entry, Last
<1> QED
  BY <1>1, <1>7, <1>8, <1>9, <1>10 DEF InEntry, At, ReaderTypes

LEMMA EntryMore ==
  ASSUME NEW b, NEW n \in Nat, InEntry(b, n)
  PROVE  /\ InEntry(WithEncoded(WithKey(b)), n + 1)
         /\ InEntry(WithValue(WithKey(b)), n + 1)
<1>1. At(Start, b, <<Entry>>, 1, Values(n, <<0>>))
  BY DEF InEntry
<1>2. Last(<<Entry>>).closing = "rbrace" /\ <<Entry>> \in Seq(Opens)
  BY DEF Entry, Opens, Last
<1>3. Ids(<<Entry>>) = <<0>>
  BY DEF Ids, Entry
<1>4. /\ At(Start, WithValue(WithKey(b)), <<Entry>>, 1, Append(Values(n, <<0>>), <<0>>))
      /\ At(Start, WithEncoded(WithKey(b)), <<Entry>>, 1, Append(Values(n, <<0>>), <<0>>))
  BY <1>1, <1>2, <1>3, KeyValueAt
<1>5. Append(Values(n, <<0>>), <<0>>) = Values(n + 1, <<0>>)
  BY DEF Values
<1>6. WithKey(b) \in Seq(Tokens)
  BY <1>1, <1>2, WithKeySlot DEF Slot, ReaderTypes
<1>7. WithValue(WithKey(b)) # <<>> /\ WithEncoded(WithKey(b)) # <<>>
  BY <1>6, EncodedIsValue
<1> QED
  BY <1>4, <1>5, <1>7 DEF InEntry

LEMMA HeaderAt ==
  ASSUME config \in Configs
  PROVE  InEntry(Header, Cardinality(config.keys))
<1> DEFINE K    == config.keys
           N(S) == Cardinality(K \cap S)
           b1 == IF "level" \in K THEN WithEncoded(WithKey(<<"lbrace">>)) ELSE <<"lbrace">>
           b2 == IF "time" \in K THEN WithEncoded(WithKey(b1)) ELSE b1
           b3 == IF "msg" \in K THEN WithValue(WithKey(b2)) ELSE b2
           b4 == IF "reqID" \in K THEN WithValue(WithKey(b3)) ELSE b3
           S1 == {} \union {"level"}
           S2 == S1 \union {"time"}
           S3 == S2 \union {"msg"}
           S4 == S3 \union {"reqID"}
<1>1. K \subseteq S4
  BY EncoderAssumption
<1>2. Header = b4
  BY DEF Header
<1>3. /\ IsFiniteSet({}) /\ IsFiniteSet(S1) /\ IsFiniteSet(S2) /\ IsFiniteSet(S3)
      /\ "time" \notin S1 /\ "msg" \notin S2 /\ "reqID" \notin S3
  BY FS_EmptySet, FS_AddElement
<1> HIDE DEF S1
<1>4. N({}) = 0
  BY FS_EmptySet
<1>5. N({}) \in Nat /\ N(S1) = IF "level" \in K THEN N({}) + 1 ELSE N({})
  BY <1>3, KeysCounted DEF S1
<1>6. N(S1) \in Nat /\ N(S2) = IF "time" \in K THEN N(S1) + 1 ELSE N(S1)
  BY <1>3, KeysCounted
<1> HIDE DEF S2
<1>7. N(S2) \in Nat /\ N(S3) = IF "msg" \in K THEN N(S2) + 1 ELSE N(S2)
  BY <1>3, KeysCounted
<1> HIDE DEF S3
<1>8. N(S3) \in Nat /\ N(S4) = IF "reqID" \in K THEN N(S3) + 1 ELSE N(S3)
  BY <1>3, KeysCounted
<1>9. K \cap S4 = K
  BY <1>1
<1> HIDE DEF N, S4, K
<1>10. InEntry(<<"lbrace">>, N({}))
  BY <1>4, EntryOpens
<1>11. InEntry(b1, N(S1))
  BY <1>5, <1>10, EntryMore
<1> HIDE DEF b1
<1>12. InEntry(b2, N(S2))
  BY <1>6, <1>11, EntryMore
<1> HIDE DEF b2
<1>13. InEntry(b3, N(S3))
  BY <1>7, <1>12, EntryMore
<1> HIDE DEF b3
<1>14. InEntry(b4, N(S4))
  BY <1>8, <1>13, EntryMore
<1> QED
  BY <1>2, <1>9, <1>14 DEF N, K

LEMMA ReadingsTypes ==
  ASSUME NEW ph
  PROVE  /\ Readings(ph) # {}
         /\ \A d \in Readings(ph) : d.leaves \in Seq(Seq(Nat))
<1>1. <<>> \in Seq(Seq(Nat))
  OBVIOUS
<1>2. Start.leaves \in Seq(Seq(Nat))
  BY <1>1 DEF Start
<1>3. \A d \in Begins : d.leaves \in Seq(Seq(Nat))
  BY DEF Begins, R
<1>4. \A p \in Seq(Seq(Nat)) : R("key", <<Entry>>, 1, p) \in Begins
  BY DEF Begins
<1>5. Begins # {}
  BY <1>1, <1>4
<1> QED
  BY <1>2, <1>3, <1>5 DEF Readings

LEMMA ReadsTypes ==
  ASSUME NEW ph, NEW b, NEW st, NEW k, NEW w, Reads(Readings(ph), b, st, k, w)
  PROVE  b \in Seq(Tokens)
  BY ReadingsTypes DEF Reads, At, ReaderTypes

\* The context of the core in the entry, after the header.
LEMMA ContextAt ==
  ASSUME config \in Configs, CoreOK
  PROVE  LET w == Values(Cardinality(config.keys), <<0>>) \o core.want
         IN  /\ EncoderTypes(core.opened, w)
             /\ At(Start, WithContext(Header), OpenOf(CoreStack), core.opened + 1, w)
<1> DEFINE n == Cardinality(config.keys)
           h == Values(n, <<0>>)
           w == h \o core.want
           c == core.buf
<1>1. /\ Header # <<>> /\ At(Start, Header, <<Entry>>, 1, h)
  BY HeaderAt DEF InEntry
<1>2. /\ c \in Seq(Tokens) /\ core.opened \in Nat /\ core.want \in Seq(Seq(Nat))
      /\ Reads(Begins, c, CoreStack, core.opened, core.want)
  <2>1. Readings("with") = Begins
    BY DEF Readings
  <2> QED
    BY <2>1, ReadsTypes DEF CoreOK, EncoderTypes
<1>3. h \in Seq(Seq(Nat)) /\ Header \in Seq(Tokens)
  BY <1>1 DEF At, ReaderTypes
<1>4. w \in Seq(Seq(Nat))
  BY <1>2, <1>3
<1>5. CASE c = <<>>
  <2> DEFINE d == R("key", <<Entry>>, 1, <<>>)
  <2>1. d \in Begins
    <3>1. <<>> \in Seq(Seq(Nat))
      OBVIOUS
    <3>2. \A p \in Seq(Seq(Nat)) : R("key", <<Entry>>, 1, p) \in Begins
      BY DEF Begins
    <3> QED
      BY <3>1, <3>2
  <2>2. At(d, <<>>, OpenOf(CoreStack), core.opened + 1, d.leaves \o core.want)
    BY <1>2, <1>5, <2>1 DEF Reads
  <2>3. \E m : ReadAll(d, <<>>) = R(m, OpenOf(CoreStack), core.opened + 1, d.leaves \o core.want)
    BY <2>2 DEF At
  <2>4. ReadAll(d, <<>>) = d
    BY ReadNone
  <2>5. /\ OpenOf(CoreStack) = <<Entry>> /\ core.opened + 1 = 1
        /\ <<>> \o core.want = <<>>
    BY <2>3, <2>4 DEF R
  <2>6. w = h
    <3>1. core.want = <<>>
      BY <1>2, <2>5
    <3>2. h \o <<>> = h
      BY <1>3
    <3> QED
      BY <3>1, <3>2
  <2>7. WithContext(Header) = Header
    BY <1>5 DEF WithContext
  <2> QED
    BY <1>1, <1>2, <1>4, <2>5, <2>6, <2>7 DEF EncoderTypes
<1>6. CASE c # <<>>
  <2>1. WithContext(Header) = Separated(Header) \o c
    BY <1>6 DEF WithContext
  <2>2. /\ Separated(Header) \in Seq(Tokens)
        /\ \E m \in {"key", "firstKey"} : ReadAll(Start, Separated(Header)) = R(m, <<Entry>>, 1, h)
    <3>1. Last(<<Entry>>).closing = "rbrace"
      BY DEF Entry, Last
    <3> QED
      BY <1>1, <3>1, SeparatedReads
  <2>3. PICK m \in {"key", "firstKey"} : ReadAll(Start, Separated(Header)) = R(m, <<Entry>>, 1, h)
    BY <2>2
  <2> DEFINE d == R(m, <<Entry>>, 1, h)
             b == Separated(Header) \o c
  <2>4. d \in Begins /\ d.leaves = h
    BY <1>3 DEF Begins, R
  <2>5. ReadAll(Start, b) = ReadAll(d, c)
    BY <1>2, <2>2, <2>3, ReadConcat
  <2>6. b \in Seq(Tokens) /\ b # <<>> /\ Last(b) = Last(c)
    BY <1>2, <1>6, <2>2 DEF Last
  <2>7. At(d, c, OpenOf(CoreStack), core.opened + 1, w)
    BY <1>2, <2>4 DEF Reads
  <2>8. At(Start, b, OpenOf(CoreStack), core.opened + 1, w)
    <3> HIDE DEF b, d, c, w
    <3> QED
      BY <1>6, <2>5, <2>6, <2>7 DEF At, ReaderTypes
  <2> QED
    BY <1>2, <1>4, <2>1, <2>8 DEF EncoderTypes
<1> QED
  BY <1>5, <1>6

\* The reader of an entry begins before it.
LEMMA EntryNotEmpty ==
  ASSUME NEW b, NEW o, NEW k, NEW p, At(Start, b, o, k, p)
  PROVE  b # <<>>
<1> SUFFICES ASSUME b = <<>> PROVE FALSE
  OBVIOUS
<1>1. PICK n \in {"key", "firstKey"} : ReadAll(Start, <<>>) = R(n, o, k, p)
  BY DEF At
<1>2. ReadAll(Start, <<>>) = Start
  BY ReadNone
<1>3. Start.need = "value" /\ R(n, o, k, p).need = n
  BY DEF Start, R
<1> QED
  BY <1>1, <1>2, <1>3

-----------------------------------------------------------------------------
(***************************************************************************)
(* The steps.                                                              *)
(***************************************************************************)

\* What the encoder does to its buffer, its stack and its count of containers
\* moves every reader along, past the values v.
Moves(b, st, k, c, st2, k2, v) ==
  \A d, p : At(d, b, OpenOf(st), k + 1, p) => At(d, c, OpenOf(st2), k2 + 1, p \o v)

LEMMA ConcatThree ==
  ASSUME NEW x \in Seq(Seq(Nat)), NEW y \in Seq(Seq(Nat)), NEW z \in Seq(Seq(Nat))
  PROVE  (x \o y) \o z = x \o (y \o z)
  BY ConcatAssociative, SMTT(30)

LEMMA MovesReads ==
  ASSUME NEW b, NEW st, NEW k, NEW w \in Seq(Seq(Nat)), NEW ph, Reads(Readings(ph), b, st, k, w),
         NEW c, NEW st2, NEW k2, NEW v \in Seq(Seq(Nat)), Moves(b, st, k, c, st2, k2, v)
  PROVE  Reads(Readings(ph), c, st2, k2, w \o v)
<1> SUFFICES ASSUME NEW d \in Readings(ph)
             PROVE  At(d, c, OpenOf(st2), k2 + 1, d.leaves \o (w \o v))
  BY DEF Reads
<1>1. d.leaves \in Seq(Seq(Nat))
  BY ReadingsTypes
<1>2. At(d, b, OpenOf(st), k + 1, d.leaves \o w)
  BY DEF Reads
<1>3. At(d, c, OpenOf(st2), k2 + 1, (d.leaves \o w) \o v)
  BY <1>2 DEF Moves
<1>4. (d.leaves \o w) \o v = d.leaves \o (w \o v)
  BY <1>1, ConcatThree
<1> QED
  BY <1>3, <1>4

LEMMA EncoderStep ==
  ASSUME Inv, phase # "ready",
         UNCHANGED <<config, core, phase, line, lineWant>>, work' \in 0..MaxWork,
         PathsOK(stack'), CausesOK(stack'),
         openNamespaces' = Len(stack'[1].path) - 1,
         opened' \in Nat,
         NEW v \in Seq(Seq(Nat)), want' = want \o v,
         Moves(buf, stack, opened, buf', stack', opened', v)
  PROVE  Inv'
<1>1. EncoderOK
  BY DEF Inv
<1>2. want \in Seq(Seq(Nat)) /\ Reads(Readings(phase), buf, stack, opened, want)
  BY <1>1 DEF EncoderOK, EncoderTypes
<1>3. Reads(Readings(phase), buf', stack', opened', want')
  BY <1>2, MovesReads
<1>4. want' \in Seq(Seq(Nat))
  BY <1>2
<1>5. EncoderOK'
  BY <1>3, <1>4 DEF EncoderOK, EncoderTypes
<1>6. CoreOK' /\ LineOK'
  BY DEF Inv, CoreOK, CoreStack, LineOK
<1> QED
  BY <1>5, <1>6 DEF Inv

\* The top of the stack is what the reader has open last.
LEMMA TopIs ==
  ASSUME EncoderOK
  PROVE  /\ Len(stack) \in Nat \ {0} /\ stack \in Seq([kind : Kinds, path : Seq(Nat)])
         /\ Top = stack[Len(stack)]
         /\ Top.kind \in {"object", "array", "errors"} /\ Top.path \in Seq(Nat)
         /\ stack[1].kind = "object"
         /\ OpenOf(stack) \in Seq(Opens) /\ Ids(OpenOf(stack)) = Top.path
         /\ Last(OpenOf(stack)).closing = IF Top.kind = "object" THEN "rbrace" ELSE "rbracket"
         /\ opened \in Nat /\ opened + 1 \in Nat /\ want \in Seq(Seq(Nat))
         /\ openNamespaces = Len(stack[1].path) - 1
         /\ PathsOK(stack) /\ CausesOK(stack)
<1>1. PathsOK(stack) /\ CausesOK(stack) /\ opened \in Nat /\ want \in Seq(Seq(Nat))
      /\ openNamespaces = Len(stack[1].path) - 1
  BY DEF EncoderOK, EncoderTypes
<1>2. /\ Len(stack) \in Nat \ {0} /\ Top = stack[Len(stack)]
      /\ OpenOf(stack) \in Seq(Opens) /\ Ids(OpenOf(stack)) = Top.path
      /\ \A i \in 1..Len(stack) : stack[i].kind \in Kinds /\ stack[i].path \in Seq(Nat)
  BY <1>1, OpenOfTypes DEF Top
<1>3. Last(OpenOf(stack)).closing = ClosingOf(Top.kind)
  BY <1>1, TopClosing DEF Top
<1>4. Len(stack) \in 1..Len(stack)
  BY <1>2
<1>5. Top.kind \in Kinds /\ Top.path \in Seq(Nat) /\ Top.kind # "cause"
  BY <1>1, <1>2, <1>4 DEF CausesOK
<1>6. Last(OpenOf(stack)).closing = IF Top.kind = "object" THEN "rbrace" ELSE "rbracket"
  BY <1>3, <1>5 DEF ClosingOf
<1>7. stack \in Seq([kind : Kinds, path : Seq(Nat)]) /\ stack[1].kind = "object"
  BY <1>1 DEF PathsOK
<1>8. opened + 1 \in Nat
  BY <1>1
<1> QED
  BY <1>1, <1>2, <1>5, <1>6, <1>7, <1>8 DEF Kinds

\* addKey in an object, nothing in an array.
LEMMA KeyedSlot ==
  ASSUME EncoderOK, Top.kind # "errors",
         NEW d, NEW p, At(d, buf, OpenOf(stack), opened + 1, p)
  PROVE  Slot(d, Separated(Keyed(buf)), OpenOf(stack), opened + 1, p) /\ Keyed(buf) \in Seq(Tokens)
<1> DEFINE o == OpenOf(stack)
<1>1. Last(o).closing = IF Top.kind = "object" THEN "rbrace" ELSE "rbracket"
  BY TopIs
<1>2. buf \in Seq(Tokens)
  BY DEF At, ReaderTypes
<1> HIDE DEF o
<1>3. CASE InObject
  <2>1. Slot(d, WithKey(buf), o, opened + 1, p)
    BY <1>1, <1>3, WithKeySlot DEF InObject, o
  <2>2. Separated(WithKey(buf)) = WithKey(buf) /\ WithKey(buf) \in Seq(Tokens)
    BY <2>1, SlotSeparated DEF Slot, ReaderTypes
  <2> QED
    BY <1>3, <2>1, <2>2 DEF Keyed, o
<1>4. CASE ~InObject
  <2>1. Slot(d, Separated(buf), o, opened + 1, p)
    BY <1>1, <1>4, SeparatedReads DEF InObject, o
  <2> QED
    BY <1>2, <1>4, <2>1 DEF Keyed, o
<1> QED
  BY <1>3, <1>4

LEMMA ScalarMoves ==
  ASSUME EncoderOK, Top.kind # "errors"
  PROVE  /\ Moves(buf, stack, opened, WithValue(Keyed(buf)), stack, opened, Values(1, Top.path))
         /\ Moves(buf, stack, opened, WithEncoded(Keyed(buf)), stack, opened, Values(1, Top.path))
<1> SUFFICES ASSUME NEW d, NEW p, At(d, buf, OpenOf(stack), opened + 1, p)
             PROVE  /\ At(d, WithValue(Keyed(buf)), OpenOf(stack), opened + 1,
                          p \o Values(1, Top.path))
                    /\ At(d, WithEncoded(Keyed(buf)), OpenOf(stack), opened + 1,
                          p \o Values(1, Top.path))
  BY DEF Moves
<1>1. Slot(d, Separated(Keyed(buf)), OpenOf(stack), opened + 1, p) /\ Keyed(buf) \in Seq(Tokens)
  BY KeyedSlot
<1>2. /\ At(d, WithValue(Keyed(buf)), OpenOf(stack), opened + 1, Append(p, Ids(OpenOf(stack))))
      /\ At(d, WithEncoded(Keyed(buf)), OpenOf(stack), opened + 1, Append(p, Ids(OpenOf(stack))))
  BY <1>1, ValueAt
<1>3. Ids(OpenOf(stack)) = Top.path /\ Top.path \in Seq(Nat)
  BY TopIs
<1>4. p \in Seq(Seq(Nat))
  BY <1>1 DEF Slot, ReaderTypes
<1>5. Append(p, Top.path) = p \o Values(1, Top.path)
  BY <1>3, <1>4, FewValues
<1> QED
  BY <1>2, <1>3, <1>5

LEMMA AddScalarStep ==
  ASSUME Inv, AddScalar \/ AddEncoded \/ AddReflectedFails
  PROVE  Inv'
<1>1. /\ phase # "ready" /\ EncoderOK /\ Top.kind # "errors"
      /\ UNCHANGED <<config, core, phase, line, lineWant>>
      /\ work' \in 0..MaxWork
  BY EncoderAssumption DEF Inv, AddScalar, AddEncoded, AddReflectedFails, Working, Encoding
<1>2. /\ want' = want \o Values(1, Top.path)
      /\ stack' = stack /\ opened' = opened /\ openNamespaces' = openNamespaces
      /\ buf' \in {WithValue(Keyed(buf)), WithEncoded(Keyed(buf))}
  <2>1. AtTopLevel => InObject
    <3>1. AtTopLevel => Top = stack[1]
      BY <1>1, TopIs DEF AtTopLevel
    <3> QED
      BY <1>1, <3>1, TopIs DEF InObject
  <2>2. AtTopLevel => Keyed(buf) = WithKey(buf)
    BY <2>1 DEF Keyed
  <2> QED
    BY <2>2 DEF AddScalar, AddEncoded, AddReflectedFails, Gives
<1>3. Moves(buf, stack, opened, buf', stack', opened', Values(1, Top.path))
  BY <1>1, <1>2, ScalarMoves
<1>4. Values(1, Top.path) \in Seq(Seq(Nat))
  BY <1>1, TopIs, ValuesType
<1>5. /\ PathsOK(stack') /\ CausesOK(stack') /\ openNamespaces' = Len(stack'[1].path) - 1
      /\ opened' \in Nat
  BY <1>1, <1>2, TopIs
<1> QED
  BY <1>1, <1>2, <1>3, <1>4, <1>5, EncoderStep

\* A bracket where a value may be.
LEMMA OpenedAt ==
  ASSUME EncoderOK, NEW d, NEW b, NEW p, NEW k \in Nat, NEW o, Slot(d, b, o, k, p)
  PROVE  /\ At(d, Append(b, "lbrace"), Append(o, [closing |-> "rbrace", id |-> k]), k + 1, p)
         /\ At(d, Append(b, "lbracket"), Append(o, [closing |-> "rbracket", id |-> k]), k + 1, p)
<1>1. Opening("rbrace") = "lbrace" /\ Opening("rbracket") = "lbracket"
  BY DEF Opening
<1>2. At(d, Append(b, Opening("rbrace")), Append(o, [closing |-> "rbrace", id |-> k]), k + 1, p)
  BY SlotOpen
<1>3. At(d, Append(b, Opening("rbracket")), Append(o, [closing |-> "rbracket", id |-> k]), k + 1, p)
  BY SlotOpen
<1> QED
  BY <1>1, <1>2, <1>3

\* Steps that give no values.
LEMMA NoValues ==
  /\ <<>> \in Seq(Seq(Nat))
  /\ \A p \in Seq(Seq(Nat)) : p \o <<>> = p
  OBVIOUS

LEMMA AppendPath ==
  ASSUME NEW q \in Seq(Nat), NEW i \in Nat
  PROVE  Append(q, i) \in Seq(Nat) /\ Append(q, i) # <<>> /\ Len(Append(q, i)) = Len(q) + 1
  BY AppendProperties

LEMMA OpenNamespaceStep ==
  ASSUME Inv, ~NestedNamespaces, OpenNamespace
  PROVE  Inv'
<1>1. /\ phase # "ready" /\ EncoderOK /\ Top.kind # "errors"
      /\ UNCHANGED <<config, core, phase, line, lineWant>>
      /\ work' \in 0..MaxWork
      /\ InObject /\ AtTopLevel
  BY EncoderAssumption DEF Inv, OpenNamespace, Working, Encoding
<1> DEFINE q == Top.path
<1>2. /\ q \in Seq(Nat) /\ opened + 1 \in Nat /\ opened \in Nat /\ Len(stack) = 1
      /\ stack = <<Frame("object", q)>> /\ q # <<>>
      /\ openNamespaces = Len(q) - 1 /\ want \in Seq(Seq(Nat))
  <2>1. /\ q \in Seq(Nat) /\ opened + 1 \in Nat /\ opened \in Nat /\ Len(stack) = 1
        /\ Top = stack[1] /\ Top.kind = "object" /\ want \in Seq(Seq(Nat))
        /\ stack \in Seq([kind : Kinds, path : Seq(Nat)])
        /\ openNamespaces = Len(stack[1].path) - 1
    BY <1>1, TopIs DEF AtTopLevel, InObject
  <2>2. stack[1] \in [kind : Kinds, path : Seq(Nat)]
    <3>1. \A i \in 1..Len(stack) : stack[i] \in [kind : Kinds, path : Seq(Nat)]
      BY <2>1, ElementOfSeq, Zenon
    <3> QED
      BY <2>1, <3>1
  <2>3. stack[1] = Frame("object", q)
    BY <2>1, <2>2 DEF Frame
  <2>4. stack = <<stack[1]>>
    BY <2>1
  <2>5. q # <<>>
    BY <1>1, <2>1, TopIs DEF PathsOK
  <2> QED
    BY <2>1, <2>3, <2>4, <2>5
<1> DEFINE r == Append(q, opened + 1)
<1>3. r \in Seq(Nat) /\ r # <<>> /\ Len(r) = Len(q) + 1
  BY <1>2, AppendPath
<1>4. /\ stack' = <<Frame("object", r)>> /\ openNamespaces' = openNamespaces + 1
      /\ opened' = opened + 1 /\ buf' = Append(WithKey(buf), "lbrace") /\ want' = want
  <2>1. Front(stack) = <<>>
    BY <1>2, FrontOfOne, TopIs, <1>1
  <2>2. stack' = Append(<<>>, Frame("object", r))
    BY <2>1 DEF OpenNamespace, Inner
  <2> HIDE DEF r
  <2>3. \A f : Append(<<>>, f) = <<f>>
    OBVIOUS
  <2> QED
    BY <2>2, <2>3 DEF OpenNamespace
<1> HIDE DEF q
<1>5. OpenOf(stack') = Append(OpenOf(stack), [closing |-> "rbrace", id |-> opened + 1])
  BY <1>2, <1>4, OpenOfNamespace
<1> HIDE DEF r
<1>6. /\ PathsOK(stack') /\ CausesOK(stack')
      /\ stack'[1].path = r /\ openNamespaces' = Len(stack'[1].path) - 1
  <2>1. PathsOK(stack') /\ CausesOK(stack')
    BY <1>3, <1>4, OpenOfOne
  <2>2. stack'[1].path = r
    BY <1>4 DEF Frame
  <2>3. Len(q) \in Nat
    BY <1>2
  <2> QED
    BY <1>2, <1>3, <1>4, <2>1, <2>2, <2>3
<1>7. Moves(buf, stack, opened, buf', stack', opened', <<>>)
  <2> SUFFICES ASSUME NEW d, NEW p, At(d, buf, OpenOf(stack), opened + 1, p)
               PROVE  At(d, buf', OpenOf(stack'), opened' + 1, p \o <<>>)
    BY DEF Moves
  <2>1. Last(OpenOf(stack)).closing = "rbrace"
    BY <1>1, TopIs DEF InObject
  <2>2. Slot(d, WithKey(buf), OpenOf(stack), opened + 1, p)
    BY <2>1, WithKeySlot
  <2>3. p \o <<>> = p
    BY <2>2, NoValues DEF Slot, ReaderTypes
  <2> QED
    BY <1>1, <1>2, <1>4, <1>5, <2>2, <2>3, OpenedAt
<1>8. want' = want \o <<>> /\ opened' \in Nat
  BY <1>2, <1>4, NoValues
<1> QED
  BY <1>1, <1>6, <1>7, <1>8, NoValues, EncoderStep

\* The stack with one more marshaler ...
LEMMA Pushed ==
  ASSUME EncoderOK, NEW kind \in {"object", "array", "errors"}
  PROVE  LET new == Append(stack, Frame(kind, Inner))
         IN  /\ PathsOK(new) /\ CausesOK(new) /\ new[1] = stack[1]
             /\ OpenOf(new) = Append(OpenOf(stack),
                                     [closing |-> ClosingOf(kind), id |-> opened + 1])
<1> DEFINE new == Append(stack, Frame(kind, Inner))
           n == Len(stack)
<1>1. /\ n \in Nat \ {0} /\ stack \in Seq([kind : Kinds, path : Seq(Nat)])
      /\ Top = stack[n] /\ Top.kind # "cause"
      /\ opened + 1 \in Nat /\ PathsOK(stack) /\ CausesOK(stack) /\ Top.path \in Seq(Nat)
  BY TopIs
<1>2. kind \in Kinds /\ Inner = Append(Last(stack).path, opened + 1)
  BY DEF Kinds, Inner, Top
<1>3. /\ PathsOK(new)
      /\ OpenOf(new) = Append(OpenOf(stack), [closing |-> ClosingOf(kind), id |-> opened + 1])
  BY <1>1, <1>2, OpenOfPush
<1>4. Frame(kind, Inner) \in [kind : Kinds, path : Seq(Nat)] /\ Frame(kind, Inner).kind = kind
  <2>1. Inner \in Seq(Nat)
    BY <1>1, AppendPath DEF Inner
  <2> QED
    BY <1>2, <2>1 DEF Frame
<1>5. /\ Len(new) = n + 1 /\ new[n + 1].kind = kind
      /\ \A i \in 1..n : new[i] = stack[i]
  BY <1>1, <1>4, AppendProperties
<1> HIDE DEF new, n
<1>6. ASSUME NEW i \in 1..n + 1, new[i].kind = "cause"
      PROVE  i < n + 1 /\ new[i + 1].kind = "errors"
  <2>1. i \in 1..n /\ new[i] = stack[i]
    BY <1>1, <1>5, <1>6
  <2>2. i < n /\ stack[i + 1].kind = "errors"
    BY <1>1, <1>6, <2>1 DEF CausesOK, n
  <2>3. i + 1 \in 1..n /\ i < n + 1
    BY <1>1, <2>1, <2>2
  <2>4. new[i + 1] = stack[i + 1]
    BY <1>5, <2>3
  <2> QED
    BY <2>2, <2>3, <2>4
<1>7. CausesOK(new)
  BY <1>5, <1>6 DEF CausesOK
<1>8. new[1] = stack[1]
  BY <1>1, <1>5
<1> QED
  BY <1>3, <1>7, <1>8 DEF new

\* ... and with one less.
LEMMA Popped ==
  ASSUME EncoderOK, Len(stack) > 1, stack[Len(stack) - 1].kind # "cause"
  PROVE  /\ PathsOK(Front(stack)) /\ CausesOK(Front(stack)) /\ Front(stack)[1] = stack[1]
         /\ OpenOf(Front(stack)) = Front(OpenOf(stack)) /\ Len(OpenOf(stack)) > 1
<1> DEFINE n == Len(stack)
           new == Front(stack)
<1>1. n \in Nat \ {0} /\ PathsOK(stack) /\ CausesOK(stack)
  BY TopIs
<1>2. /\ PathsOK(new) /\ new[1] = stack[1] /\ Len(new) = n - 1
      /\ \A i \in 1..n - 1 : new[i] = stack[i]
      /\ OpenOf(new) = Front(OpenOf(stack)) /\ Len(OpenOf(stack)) > 1
  BY <1>1, OpenOfPop
<1>3. stack[n - 1].kind # "cause"
  OBVIOUS
<1> HIDE DEF n, new
<1>4. ASSUME NEW i \in 1..n - 1, new[i].kind = "cause"
      PROVE  i < n - 1 /\ new[i + 1].kind = "errors"
  <2>1. i \in 1..n /\ stack[i].kind = "cause"
    BY <1>1, <1>2, <1>4
  <2>2. stack[i + 1].kind = "errors"
    BY <1>1, <2>1 DEF CausesOK, n
  <2>3. i # n - 1
    BY <1>3, <2>1
  <2>4. i + 1 \in 1..n - 1
    BY <1>1, <2>3
  <2> QED
    BY <1>1, <1>2, <2>2, <2>4
<1>5. CausesOK(new)
  BY <1>2, <1>4 DEF CausesOK
<1> QED
  BY <1>2, <1>5 DEF new

LEMMA BeginMarshalStep ==
  ASSUME Inv, BeginMarshal
  PROVE  Inv'
<1>1. /\ phase # "ready" /\ EncoderOK /\ Top.kind # "errors"
      /\ UNCHANGED <<config, core, phase, line, lineWant>>
      /\ work' \in 0..MaxWork
  BY EncoderAssumption DEF Inv, BeginMarshal, Working, Encoding
<1>2. PICK kind \in {"object", "array"} :
        /\ buf' = Append(Separated(Keyed(buf)), IF kind = "object" THEN "lbrace" ELSE "lbracket")
        /\ stack' = Append(stack, Frame(kind, Inner))
  BY DEF BeginMarshal
<1>3. opened' = opened + 1 /\ openNamespaces' = openNamespaces /\ want' = want
  BY DEF BeginMarshal
<1>4. /\ opened \in Nat /\ opened + 1 \in Nat /\ want \in Seq(Seq(Nat))
      /\ openNamespaces = Len(stack[1].path) - 1
  BY <1>1, TopIs
<1>5. /\ PathsOK(stack') /\ CausesOK(stack') /\ stack'[1] = stack[1]
      /\ OpenOf(stack') = Append(OpenOf(stack), [closing |-> ClosingOf(kind), id |-> opened + 1])
  BY <1>1, <1>2, Pushed
<1>6. Moves(buf, stack, opened, buf', stack', opened', <<>>)
  <2> SUFFICES ASSUME NEW d, NEW p, At(d, buf, OpenOf(stack), opened + 1, p)
               PROVE  At(d, buf', OpenOf(stack'), opened' + 1, p \o <<>>)
    BY DEF Moves
  <2> DEFINE b == Separated(Keyed(buf))
             o == OpenOf(stack)
             k == opened + 1
  <2>1. Slot(d, b, o, k, p)
    BY <1>1, KeyedSlot
  <2>2. p \o <<>> = p
    BY <2>1, NoValues DEF Slot, ReaderTypes
  <2>3. k \in Nat
    BY <1>4
  <2> HIDE DEF b, o, k
  <2>4. /\ At(d, Append(b, "lbrace"), Append(o, [closing |-> "rbrace", id |-> k]), k + 1, p)
        /\ At(d, Append(b, "lbracket"), Append(o, [closing |-> "rbracket", id |-> k]), k + 1, p)
    BY <1>1, <2>1, <2>3, OpenedAt
  <2>5. /\ buf' = Append(b, IF kind = "object" THEN "lbrace" ELSE "lbracket")
        /\ OpenOf(stack') = Append(o, [closing |-> ClosingOf(kind), id |-> k])
        /\ opened' + 1 = k + 1
    BY <1>2, <1>3, <1>5 DEF b, o, k
  <2> QED
    BY <1>2, <2>2, <2>4, <2>5 DEF ClosingOf
<1>7. want' = want \o <<>> /\ opened' \in Nat /\ openNamespaces' = Len(stack'[1].path) - 1
  BY <1>3, <1>4, <1>5, NoValues
<1> QED
  BY <1>1, <1>5, <1>6, <1>7, NoValues, EncoderStep

\* The bracket that closes what the encoder is in.
LEMMA ClosedAt ==
  ASSUME EncoderOK, Len(stack) > 1, stack[Len(stack) - 1].kind # "cause",
         NEW d, NEW p, At(d, buf, OpenOf(stack), opened + 1, p)
  PROVE  At(d, Append(buf, IF Top.kind = "object" THEN "rbrace" ELSE "rbracket"),
            OpenOf(Front(stack)), opened + 1, p)
<1>1. /\ OpenOf(Front(stack)) = Front(OpenOf(stack)) /\ Len(OpenOf(stack)) > 1
  BY Popped
<1>2. Last(OpenOf(stack)).closing = IF Top.kind = "object" THEN "rbrace" ELSE "rbracket"
  BY TopIs
<1>3. At(d, Append(buf, Last(OpenOf(stack)).closing), Front(OpenOf(stack)), opened + 1, p)
  BY <1>1, AtClose
<1> QED
  BY <1>1, <1>2, <1>3

LEMMA EndMarshalStep ==
  ASSUME Inv, EndMarshal
  PROVE  Inv'
<1>1. /\ phase # "ready" /\ EncoderOK /\ Top.kind # "errors"
      /\ UNCHANGED <<config, core, phase, line, lineWant>>
      /\ work' \in 0..MaxWork
      /\ stack' = Front(stack) /\ opened' = opened /\ openNamespaces' = openNamespaces
  BY DEF Inv, EndMarshal
<1>2. /\ Len(stack) \in Nat /\ Len(stack) > 1 /\ Top = stack[Len(stack)]
      /\ opened \in Nat /\ want \in Seq(Seq(Nat))
      /\ openNamespaces = Len(stack[1].path) - 1
      /\ PathsOK(stack) /\ CausesOK(stack)
  <2>1. /\ Len(stack) \in Nat \ {0} /\ Top = stack[Len(stack)]
        /\ opened \in Nat /\ want \in Seq(Seq(Nat))
        /\ openNamespaces = Len(stack[1].path) - 1
        /\ PathsOK(stack) /\ CausesOK(stack)
    BY <1>1, TopIs
  <2>2. Len(stack) # 1
    BY DEF EndMarshal, AtTopLevel
  <2>3. \A n \in Nat \ {0} : n # 1 => n > 1
    OBVIOUS
  <2> QED
    BY <2>1, <2>2, <2>3
<1>3. stack[Len(stack) - 1].kind # "cause"
  <2>1. Len(stack) - 1 \in 1..Len(stack) /\ (Len(stack) - 1) + 1 = Len(stack)
    BY <1>2
  <2>2. stack[Len(stack) - 1].kind = "cause" => stack[(Len(stack) - 1) + 1].kind = "errors"
    BY <1>2, <2>1 DEF CausesOK
  <2> QED
    BY <1>1, <1>2, <2>1, <2>2
<1>4. /\ PathsOK(stack') /\ CausesOK(stack') /\ stack'[1] = stack[1]
  BY <1>1, <1>2, <1>3, Popped
<1> DEFINE closed == Append(buf, IF Top.kind = "object" THEN "rbrace" ELSE "rbracket")
<1>5. \A d, p : At(d, buf, OpenOf(stack), opened + 1, p) =>
                  At(d, closed, OpenOf(stack'), opened' + 1, p)
  BY <1>1, <1>2, <1>3, ClosedAt
<1>6. /\ \A d, p : At(d, closed, OpenOf(stack'), opened' + 1, p) => p \in Seq(Seq(Nat))
      /\ openNamespaces' = Len(stack'[1].path) - 1
  BY <1>1, <1>2, <1>4 DEF At, ReaderTypes
<1>7. \/ buf' = closed /\ want' = want
      \/ /\ Len(stack) = 2
         /\ buf' = WithValue(WithKey(closed))
         /\ want' = Append(want, stack[1].path)
  BY DEF EndMarshal, Closing
<1> HIDE DEF closed
<1>8. CASE buf' = closed /\ want' = want
  <2>1. Moves(buf, stack, opened, buf', stack', opened', <<>>)
    <3> SUFFICES ASSUME NEW d, NEW p, At(d, buf, OpenOf(stack), opened + 1, p)
                 PROVE  At(d, buf', OpenOf(stack'), opened' + 1, p \o <<>>)
      BY DEF Moves
    <3>1. p \o <<>> = p
      BY <1>5, <1>6, NoValues
    <3> QED
      BY <1>5, <1>8, <3>1
  <2>2. want' = want \o <<>>
    BY <1>2, <1>8, NoValues
  <2> QED
    BY <1>1, <1>2, <1>4, <1>6, <2>1, <2>2, NoValues, EncoderStep
<1>9. CASE /\ Len(stack) = 2
           /\ buf' = WithValue(WithKey(closed))
           /\ want' = Append(want, stack[1].path)
  <2> DEFINE q == stack[1].path
             o == OpenOf(stack')
  <2>1. Len(stack') = 1 /\ Last(stack') = stack[1]
    <3>1. Len(stack') = 1
      <4>1. Len(stack') = Len(stack) - 1
        BY <1>1, <1>2, OpenOfPop
      <4> QED
        BY <1>9, <4>1
    <3> QED
      BY <1>4, <3>1 DEF Last
  <2>2. Ids(o) = q /\ Last(o).closing = "rbrace" /\ q \in Seq(Nat)
    <3>1. stack[1].kind = "object" /\ stack[1].path \in Seq(Nat)
      <4>1. stack[1].kind = "object"
        BY <1>2 DEF PathsOK
      <4>2. \A i \in 1..Len(stack) : stack[i].path \in Seq(Nat)
        BY <1>2, OpenOfTypes
      <4>3. 1 \in 1..Len(stack)
        BY <1>9
      <4> QED
        BY <4>1, <4>2, <4>3
    <3> QED
      BY <1>4, <2>1, <3>1, OpenOfTypes, TopClosing DEF ClosingOf
  <2> HIDE DEF q, o
  <2>3. Moves(buf, stack, opened, buf', stack', opened', Values(1, q))
    <3> SUFFICES ASSUME NEW d, NEW p, At(d, buf, OpenOf(stack), opened + 1, p)
                 PROVE  At(d, buf', o, opened' + 1, p \o Values(1, q))
      BY DEF Moves, o
    <3>1. At(d, closed, o, opened' + 1, p) /\ p \in Seq(Seq(Nat))
      BY <1>5, <1>6 DEF o
    <3>2. At(d, WithValue(WithKey(closed)), o, opened' + 1, Append(p, Ids(o)))
      BY <2>2, <3>1, KeyValueAt
    <3>3. Append(p, q) = p \o Values(1, q)
      BY <2>2, <3>1, FewValues
    <3> QED
      BY <1>9, <2>2, <3>2, <3>3
  <2>4. want' = want \o Values(1, q) /\ Values(1, q) \in Seq(Seq(Nat))
    BY <1>2, <1>9, <2>2, FewValues, ValuesType DEF q
  <2> QED
    BY <1>1, <1>2, <1>4, <1>6, <2>3, <2>4, EncoderStep
<1> QED
  BY <1>7, <1>8, <1>9

\* A container that is opened last is the current one.
LEMMA OpenedLast ==
  ASSUME NEW o \in Seq(Opens), NEW k \in Nat, NEW c \in {"rbrace", "rbracket"}
  PROVE  LET new == Append(o, [closing |-> c, id |-> k])
         IN  /\ new \in Seq(Opens) /\ Last(new).closing = c /\ Len(new) = Len(o) + 1
             /\ Front(new) = o /\ Ids(new) = Append(Ids(o), k)
<1> DEFINE e == [closing |-> c, id |-> k]
           new == Append(o, e)
<1>1. e \in Opens /\ e.closing = c /\ e.id = k
  BY DEF Opens
<1> HIDE DEF e
<1>2. /\ new \in Seq(Opens) /\ Len(new) = Len(o) + 1 /\ new[Len(o) + 1] = e
      /\ \A i \in 1..Len(o) : new[i] = o[i]
  BY <1>1
<1>3. Last(new) = e
  BY <1>2 DEF Last
<1>4. Front(new) = o
  BY <1>1 DEF Front
<1>5. Ids(new) = Append(Ids(o), k)
  <2>1. Ids(new) \in Seq(Nat) /\ Len(Ids(new)) = Len(new)
    BY <1>2, IdsOf
  <2>2. Ids(o) \in Seq(Nat) /\ Len(Ids(o)) = Len(o)
    BY IdsOf
  <2>3. Append(Ids(o), k) \in Seq(Nat) /\ Len(Append(Ids(o), k)) = Len(o) + 1
        /\ Append(Ids(o), k)[Len(o) + 1] = k
        /\ \A i \in 1..Len(o) : Append(Ids(o), k)[i] = Ids(o)[i]
    BY <2>2, AppendProperties
  <2> HIDE DEF new
  <2>4. \A i \in 1..Len(o) : Ids(new)[i] = new[i].id /\ Ids(o)[i] = o[i].id
    BY <1>2 DEF Ids
  <2>5. Ids(new)[Len(o) + 1] = k
    BY <1>1, <1>2 DEF Ids
  <2>6. \A i \in 1..Len(o) + 1 : Ids(new)[i] = Append(Ids(o), k)[i]
    BY <1>2, <2>3, <2>4, <2>5, SMTT(30)
  <2> QED
    BY <1>2, <2>1, <2>3, <2>6, SeqEqual
<1> QED
  BY <1>1, <1>2, <1>3, <1>4, <1>5 DEF e

LEMMA AddSliceStep ==
  ASSUME Inv, AddSlice
  PROVE  Inv'
<1>1. /\ phase # "ready" /\ EncoderOK /\ Top.kind # "errors"
      /\ UNCHANGED <<config, core, phase, line, lineWant>>
      /\ work' \in 0..MaxWork
  BY EncoderAssumption DEF Inv, AddSlice, Working, Encoding
<1>2. PICK n \in SliceLengths, encoded \in BOOLEAN :
        /\ buf' = Append(Elements(Append(Separated(Keyed(buf)), "lbracket"), n, encoded),
                         "rbracket")
        /\ want' = want \o Values(n, Inner)
  BY DEF AddSlice
<1>3. opened' = opened + 1 /\ openNamespaces' = openNamespaces /\ stack' = stack
  BY DEF AddSlice
<1>4. /\ opened + 1 \in Nat /\ want \in Seq(Seq(Nat)) /\ n \in Nat
      /\ openNamespaces = Len(stack[1].path) - 1
      /\ OpenOf(stack) \in Seq(Opens) /\ Ids(OpenOf(stack)) = Top.path
      /\ PathsOK(stack) /\ CausesOK(stack) /\ Top.path \in Seq(Nat)
  BY <1>1, TopIs, EncoderAssumption
<1>5. Moves(buf, stack, opened, buf', stack', opened', Values(n, Inner))
  <2> SUFFICES ASSUME NEW d, NEW p, At(d, buf, OpenOf(stack), opened + 1, p)
               PROVE  At(d, buf', OpenOf(stack'), opened' + 1, p \o Values(n, Inner))
    BY DEF Moves
  <2> DEFINE b == Separated(Keyed(buf))
             o == OpenOf(stack)
             k == opened + 1
             e == Append(b, "lbracket")
             q == Append(o, [closing |-> "rbracket", id |-> k])
             f == Elements(e, n, encoded)
             v == Values(n, Inner)
  <2>1. Slot(d, b, o, k, p)
    BY <1>1, KeyedSlot
  <2>2. k \in Nat /\ o \in Seq(Opens) /\ Append(Ids(o), k) = Inner /\ Len(o) >= 1
    <3>1. o # <<>>
      BY <2>1 DEF Slot, ReaderTypes
    <3> QED
      BY <1>4, <3>1 DEF Inner
  <2>3. buf' = Append(f, "rbracket") /\ opened' + 1 = k + 1
    BY <1>2, <1>3
  <2> HIDE DEF b, o, k
  <2>4. At(d, e, q, k + 1, p)
    BY <1>1, <2>1, <2>2, OpenedAt
  <2>5. Last(q).closing = "rbracket" /\ Front(q) = o /\ Ids(q) = Inner /\ Len(q) = Len(o) + 1
    BY <2>2, OpenedLast
  <2> HIDE DEF e, q
  <2>6. At(d, f, q, k + 1, p \o v)
    BY <1>4, <2>4, <2>5, ElementsAt
  <2> HIDE DEF f, v
  <2>7. Len(q) > 1
    BY <2>2, <2>5
  <2>8. At(d, Append(f, "rbracket"), o, k + 1, p \o v)
    BY <2>5, <2>6, <2>7, AtClose
  <2> QED
    BY <1>3, <2>3, <2>8 DEF o, v
<1>6. /\ openNamespaces' = Len(stack'[1].path) - 1 /\ opened' \in Nat
      /\ PathsOK(stack') /\ CausesOK(stack')
  BY <1>3, <1>4
<1>7. Values(n, Inner) \in Seq(Seq(Nat))
  BY <1>4, AppendPath, ValuesType DEF Inner
<1> QED
  BY <1>1, <1>2, <1>5, <1>6, <1>7, EncoderStep

\* encodeError's array of causes, and Errors: after the bytes b, in an object.
LEMMA BeginErrorsStep ==
  ASSUME Inv, phase # "ready", InObject, NEW b, NEW n \in Nat, BeginErrors(b, n),
         UNCHANGED <<config, core, phase, line, lineWant>>, work' \in 0..MaxWork,
         Moves(buf, stack, opened, b, stack, opened, Values(n, Top.path))
  PROVE  Inv'
<1>1. EncoderOK
  BY DEF Inv
<1>2. /\ buf' = Append(WithKey(b), "lbracket")
      /\ want' = want \o Values(n, Top.path)
      /\ stack' = Append(stack, Frame("errors", Inner))
      /\ opened' = opened + 1 /\ openNamespaces' = openNamespaces
  BY DEF BeginErrors
<1>3. /\ opened + 1 \in Nat /\ want \in Seq(Seq(Nat)) /\ Top.path \in Seq(Nat)
      /\ openNamespaces = Len(stack[1].path) - 1
      /\ Last(OpenOf(stack)).closing = "rbrace"
  BY <1>1, TopIs DEF InObject
<1>4. /\ PathsOK(stack') /\ CausesOK(stack') /\ stack'[1] = stack[1]
      /\ OpenOf(stack') = Append(OpenOf(stack), [closing |-> "rbracket", id |-> opened + 1])
  BY <1>1, <1>2, Pushed DEF ClosingOf
<1>5. Moves(buf, stack, opened, buf', stack', opened', Values(n, Top.path))
  <2> SUFFICES ASSUME NEW d, NEW p, At(d, buf, OpenOf(stack), opened + 1, p)
               PROVE  At(d, buf', OpenOf(stack'), opened' + 1, p \o Values(n, Top.path))
    BY DEF Moves
  <2> DEFINE o == OpenOf(stack)
             k == opened + 1
             v == Values(n, Top.path)
  <2>1. At(d, b, o, k, p \o v)
    BY DEF Moves
  <2>2. Slot(d, WithKey(b), o, k, p \o v)
    BY <1>3, <2>1, WithKeySlot
  <2>3. At(d, Append(WithKey(b), "lbracket"),
           Append(o, [closing |-> "rbracket", id |-> k]), k + 1, p \o v)
    BY <1>1, <1>3, <2>2, OpenedAt
  <2> QED
    BY <1>2, <1>4, <2>3
<1>6. /\ openNamespaces' = Len(stack'[1].path) - 1 /\ opened' \in Nat
      /\ Values(n, Top.path) \in Seq(Seq(Nat))
  BY <1>2, <1>3, <1>4, ValuesType
<1> QED
  BY <1>2, <1>4, <1>5, <1>6, EncoderStep

LEMMA ErrorMoves ==
  ASSUME EncoderOK, InObject
  PROVE  /\ Moves(buf, stack, opened, WithError(buf, FALSE), stack, opened,
                  Values(1, Top.path))
         /\ Moves(buf, stack, opened, WithError(buf, TRUE), stack, opened,
                  Values(2, Top.path))
<1> SUFFICES ASSUME NEW d, NEW p, At(d, buf, OpenOf(stack), opened + 1, p)
             PROVE  /\ At(d, WithError(buf, FALSE), OpenOf(stack), opened + 1,
                          p \o Values(1, Top.path))
                    /\ At(d, WithError(buf, TRUE), OpenOf(stack), opened + 1,
                          p \o Values(2, Top.path))
  BY DEF Moves
<1>1. Last(OpenOf(stack)).closing = "rbrace" /\ Ids(OpenOf(stack)) = Top.path
  BY TopIs DEF InObject
<1> DEFINE o == OpenOf(stack)
           k == opened + 1
<1>2. Last(o).closing = "rbrace" /\ Ids(o) = Top.path /\ At(d, buf, o, k, p)
  BY <1>1
<1> HIDE DEF o, k
<1>3. /\ At(d, WithError(buf, FALSE), o, k, p \o Values(1, Ids(o)))
      /\ At(d, WithError(buf, TRUE), o, k, p \o Values(2, Ids(o)))
  BY <1>2, ErrorAt
<1> QED
  BY <1>2, <1>3 DEF o, k

LEMMA AddErrorStep ==
  ASSUME Inv, AddError
  PROVE  Inv'
<1>1. /\ phase # "ready" /\ EncoderOK /\ InObject
      /\ UNCHANGED <<config, core, phase, line, lineWant>>
      /\ work' \in 0..MaxWork
  BY EncoderAssumption DEF Inv, AddError, Working, Encoding
<1>2. /\ opened \in Nat /\ Top.path \in Seq(Nat)
      /\ openNamespaces = Len(stack[1].path) - 1
      /\ PathsOK(stack) /\ CausesOK(stack)
  BY <1>1, TopIs
<1>3. /\ Moves(buf, stack, opened, WithError(buf, FALSE), stack, opened, Values(1, Top.path))
      /\ Moves(buf, stack, opened, WithError(buf, TRUE), stack, opened, Values(2, Top.path))
  BY <1>1, ErrorMoves
<1>4. CASE Gives(WithError(buf, FALSE), 1)
  <2>1. /\ buf' = WithError(buf, FALSE) /\ want' = want \o Values(1, Top.path)
        /\ openNamespaces' = openNamespaces /\ stack' = stack /\ opened' = opened
    BY <1>4 DEF Gives
  <2>2. Values(1, Top.path) \in Seq(Seq(Nat))
    BY <1>2, ValuesType
  <2> QED
    BY <1>1, <1>2, <1>3, <2>1, <2>2, EncoderStep
<1>5. CASE Gives(WithError(buf, TRUE), 2)
  <2>1. /\ buf' = WithError(buf, TRUE) /\ want' = want \o Values(2, Top.path)
        /\ openNamespaces' = openNamespaces /\ stack' = stack /\ opened' = opened
    BY <1>5 DEF Gives
  <2>2. Values(2, Top.path) \in Seq(Seq(Nat))
    BY <1>2, ValuesType
  <2> QED
    BY <1>1, <1>2, <1>3, <2>1, <2>2, EncoderStep
<1>6. CASE BeginErrors(WithError(buf, FALSE), 1)
  BY <1>1, <1>3, <1>6, BeginErrorsStep
<1> QED
  BY <1>4, <1>5, <1>6 DEF AddError

LEMMA AddErrorsStep ==
  ASSUME Inv, AddErrors
  PROVE  Inv'
<1>1. /\ phase # "ready" /\ EncoderOK /\ InObject /\ BeginErrors(buf, 0)
      /\ UNCHANGED <<config, core, phase, line, lineWant>>
      /\ work' \in 0..MaxWork
  BY EncoderAssumption DEF Inv, AddErrors, Working, Encoding
<1>2. Moves(buf, stack, opened, buf, stack, opened, Values(0, Top.path))
  <2> SUFFICES ASSUME NEW d, NEW p, At(d, buf, OpenOf(stack), opened + 1, p)
               PROVE  p \o Values(0, Top.path) = p
    BY DEF Moves
  <2>1. p \in Seq(Seq(Nat)) /\ Top.path \in Seq(Nat)
    BY <1>1, TopIs DEF At, ReaderTypes
  <2> QED
    BY <2>1, MoreValues
<1> QED
  BY <1>1, <1>2, BeginErrorsStep

\* An error in an array of errors, before its object is closed.
LEMMA CauseAt ==
  ASSUME EncoderOK, Top.kind = "errors",
         NEW d, NEW p, At(d, buf, OpenOf(stack), opened + 1, p)
  PROVE  LET e == Append(Separated(buf), "lbrace")
             q == Append(OpenOf(stack), [closing |-> "rbrace", id |-> opened + 1])
             m == (opened + 1) + 1
         IN  /\ At(d, WithError(e, FALSE), q, m, p \o Values(1, Inner))
             /\ At(d, WithError(e, TRUE), q, m, p \o Values(2, Inner))
             /\ Last(q).closing = "rbrace" /\ Front(q) = OpenOf(stack) /\ Len(q) > 1
<1> DEFINE o == OpenOf(stack)
           k == opened + 1
           b == Separated(buf)
           e == Append(b, "lbrace")
           q == Append(o, [closing |-> "rbrace", id |-> k])
           i == Inner
<1>1. /\ k \in Nat /\ o \in Seq(Opens) /\ Last(o).closing = "rbracket"
      /\ Append(Ids(o), k) = i /\ At(d, buf, o, k, p)
  BY TopIs DEF Inner
<1>2. Len(o) >= 1
  <2>1. o # <<>>
    BY <1>1 DEF At, ReaderTypes
  <2> QED
    BY <1>1, <2>1
<1> HIDE DEF o, k, i
<1>3. Slot(d, b, o, k, p)
  BY <1>1, SeparatedReads
<1> HIDE DEF b
<1>4. At(d, e, q, k + 1, p)
  BY <1>1, <1>3, OpenedAt
<1>5. Last(q).closing = "rbrace" /\ Front(q) = o /\ Ids(q) = i /\ Len(q) > 1
  <2>1. /\ Last(q).closing = "rbrace" /\ Len(q) = Len(o) + 1
        /\ Front(q) = o /\ Ids(q) = Append(Ids(o), k)
    BY <1>1, OpenedLast
  <2> HIDE DEF q
  <2>2. Len(o) \in Nat
    BY <1>1
  <2> QED
    BY <1>1, <1>2, <2>1, <2>2
<1> HIDE DEF e, q
<1>6. /\ At(d, WithError(e, FALSE), q, k + 1, p \o Values(1, i))
      /\ At(d, WithError(e, TRUE), q, k + 1, p \o Values(2, i))
  BY <1>4, <1>5, ErrorAt
<1> QED
  BY <1>5, <1>6 DEF o, k, i, b, e, q

LEMMA AppendBoth ==
  ASSUME NEW S, NEW s \in Seq(S), NEW x \in S, NEW y \in S
  PROVE  Append(Append(s, x), y) = s \o <<x, y>>
  OBVIOUS

\* A group of errors in an array of errors: its object and the array in it.
LEMMA PushedCause ==
  ASSUME EncoderOK, NEW i \in Nat
  PROVE  LET new == stack \o <<Frame("cause", Inner), Frame("errors", Append(Inner, i))>>
             q   == Append(OpenOf(stack), [closing |-> "rbrace", id |-> opened + 1])
         IN  /\ PathsOK(new) /\ CausesOK(new) /\ new[1] = stack[1]
             /\ OpenOf(new) = Append(q, [closing |-> "rbracket", id |-> i])
<1> DEFINE f == Frame("cause", Inner)
           g == Frame("errors", Append(Inner, i))
           n == Len(stack)
           mid == Append(stack, f)
           new == Append(mid, g)
           F == [kind : Kinds, path : Seq(Nat)]
           q == Append(OpenOf(stack), [closing |-> "rbrace", id |-> opened + 1])
<1>1. /\ n \in Nat \ {0} /\ stack \in Seq(F)
      /\ Top = stack[n] /\ Top.kind # "cause" /\ Top.path \in Seq(Nat)
      /\ opened + 1 \in Nat /\ PathsOK(stack) /\ CausesOK(stack)
  BY TopIs
<1>2. {"cause", "errors"} \subseteq Kinds /\ Inner = Append(Last(stack).path, opened + 1)
  BY DEF Kinds, Inner, Top
<1>3. /\ PathsOK(mid) /\ OpenOf(mid) = q
  <2>1. /\ PathsOK(mid)
        /\ OpenOf(mid) = Append(OpenOf(stack),
                                [closing |-> ClosingOf("cause"), id |-> opened + 1])
    BY <1>1, <1>2, OpenOfPush
  <2> QED
    BY <2>1 DEF ClosingOf
<1>4. /\ f \in F /\ f.kind = "cause" /\ f.path = Inner
      /\ g \in F /\ g.kind = "errors"
  <2>1. Inner \in Seq(Nat)
    BY <1>1, AppendPath DEF Inner
  <2>2. Append(Inner, i) \in Seq(Nat)
    BY <2>1, AppendPath
  <2> QED
    BY <1>2, <2>1, <2>2 DEF Frame
<1> HIDE DEF f, q
<1>5. mid \in Seq(F) /\ Len(mid) = n + 1 /\ mid[n + 1] = f /\ \A j \in 1..n : mid[j] = stack[j]
  BY <1>1, <1>4, AppendProperties
<1>6. Last(mid).path = Inner
  BY <1>4, <1>5 DEF Last
<1>7. PathsOK(new) /\ OpenOf(new) = Append(q, [closing |-> "rbracket", id |-> i])
  <2> HIDE DEF mid
  <2>1. g = Frame("errors", Append(Last(mid).path, i))
    BY <1>6
  <2>2. "errors" \in Kinds
    BY <1>2
  <2>3. /\ PathsOK(new)
        /\ OpenOf(new) = Append(OpenOf(mid), [closing |-> ClosingOf("errors"), id |-> i])
    BY <1>3, <2>1, <2>2, OpenOfPush
  <2> QED
    BY <1>3, <2>3 DEF ClosingOf
<1> HIDE DEF g
<1>8. /\ Len(new) = n + 2 /\ new[n + 2] = g /\ new[n + 1] = f
      /\ \A j \in 1..n : new[j] = stack[j]
  <2> HIDE DEF mid
  <2>1. /\ Len(new) = Len(mid) + 1 /\ new[Len(mid) + 1] = g
        /\ \A j \in 1..Len(mid) : new[j] = mid[j]
    BY <1>4, <1>5, AppendProperties
  <2> QED
    BY <1>1, <1>5, <2>1
<1>9. new = stack \o <<f, g>>
  <2>1. stack \in Seq(F) /\ f \in F /\ g \in F
    BY <1>1, <1>4
  <2> HIDE DEF F
  <2> QED
    BY <2>1, AppendBoth, Zenon
<1> HIDE DEF n, mid, new
<1>10. ASSUME NEW j \in 1..n + 2, new[j].kind = "cause"
       PROVE  j < n + 2 /\ new[j + 1].kind = "errors"
  <2>1. j # n + 2
    BY <1>4, <1>8, <1>10
  <2>2. CASE j = n + 1
    <3>1. n + 1 < n + 2 /\ (n + 1) + 1 = n + 2
      BY <1>1 DEF n
    <3> QED
      BY <1>4, <1>8, <2>2, <3>1
  <2>3. CASE j \in 1..n
    <3>1. j < n /\ stack[j + 1].kind = "errors"
      BY <1>1, <1>8, <1>10, <2>3 DEF CausesOK, n
    <3>2. j + 1 \in 1..n /\ j < n + 2
      BY <1>1, <2>3, <3>1
    <3> QED
      BY <1>8, <3>1, <3>2
  <2> QED
    BY <1>1, <2>1, <2>2, <2>3
<1>11. CausesOK(new) /\ new[1] = stack[1]
  BY <1>1, <1>8, <1>10 DEF CausesOK
<1> QED
  BY <1>7, <1>9, <1>11 DEF f, g, q

LEMMA AppendErrorStep ==
  ASSUME Inv, AppendError
  PROVE  Inv'
<1>1. /\ phase # "ready" /\ EncoderOK /\ Top.kind = "errors"
      /\ UNCHANGED <<config, core, phase, line, lineWant>>
      /\ work' \in 0..MaxWork
      /\ openNamespaces' = openNamespaces
  BY EncoderAssumption DEF Inv, AppendError, Encoding
<1>2. /\ opened \in Nat /\ want \in Seq(Seq(Nat)) /\ Inner \in Seq(Nat)
      /\ openNamespaces = Len(stack[1].path) - 1
      /\ PathsOK(stack) /\ CausesOK(stack)
  BY <1>1, TopIs, AppendPath DEF Inner
<1> DEFINE e == Append(Separated(buf), "lbrace")
           o == OpenOf(stack)
           q == Append(OpenOf(stack), [closing |-> "rbrace", id |-> opened + 1])
           m == (opened + 1) + 1
           V(verbose) == Values(IF verbose THEN 2 ELSE 1, Inner)
<1>3. ASSUME NEW d, NEW p, At(d, buf, o, opened + 1, p)
      PROVE  /\ \A verbose \in BOOLEAN :
                  At(d, WithError(e, verbose), q, m, p \o V(verbose))
             /\ Last(q).closing = "rbrace" /\ Front(q) = o /\ Len(q) > 1
  BY <1>1, <1>3, CauseAt
<1>4. \A verbose \in BOOLEAN : V(verbose) \in Seq(Seq(Nat))
  BY <1>2, ValuesType
<1>5. \/ \E verbose \in BOOLEAN :
           /\ buf' = Append(WithError(e, verbose), "rbrace")
           /\ want' = want \o V(verbose)
           /\ opened' = opened + 1 /\ stack' = stack
      \/ /\ buf' = Append(WithKey(WithError(e, FALSE)), "lbracket")
         /\ want' = Append(want, Inner)
         /\ opened' = opened + 2
         /\ stack' = stack \o <<Frame("cause", Inner), Frame("errors", Append(Inner, opened + 2))>>
  BY DEF AppendError
<1> HIDE DEF e, o, q, V
<1>6. CASE \E verbose \in BOOLEAN :
             /\ buf' = Append(WithError(e, verbose), "rbrace")
             /\ want' = want \o V(verbose)
             /\ opened' = opened + 1 /\ stack' = stack
  <2>1. PICK verbose \in BOOLEAN :
             /\ buf' = Append(WithError(e, verbose), "rbrace")
             /\ want' = want \o V(verbose)
             /\ opened' = opened + 1 /\ stack' = stack
    BY <1>6
  <2>2. Moves(buf, stack, opened, buf', stack', opened', V(verbose))
    <3> SUFFICES ASSUME NEW d, NEW p, At(d, buf, o, opened + 1, p)
                 PROVE  At(d, buf', o, m, p \o V(verbose))
      BY <2>1 DEF Moves, o
    <3> HIDE DEF m
    <3>1. At(d, Append(WithError(e, verbose), "rbrace"), o, m, p \o V(verbose))
      BY <1>3, AtClose
    <3> QED
      BY <2>1, <3>1
  <2>3. PathsOK(stack') /\ CausesOK(stack') /\ openNamespaces' = Len(stack'[1].path) - 1
        /\ opened' \in Nat
    BY <1>1, <1>2, <2>1
  <2> QED
    BY <1>1, <1>4, <2>1, <2>2, <2>3, EncoderStep
<1>7. CASE /\ buf' = Append(WithKey(WithError(e, FALSE)), "lbracket")
           /\ want' = Append(want, Inner)
           /\ opened' = opened + 2
           /\ stack' = stack \o <<Frame("cause", Inner), Frame("errors", Append(Inner, opened + 2))>>
  <2>1. opened + 2 \in Nat /\ m = opened + 2
    BY <1>2
  <2>2. /\ PathsOK(stack') /\ CausesOK(stack') /\ stack'[1] = stack[1]
        /\ OpenOf(stack') = Append(q, [closing |-> "rbracket", id |-> m])
    BY <1>1, <1>7, <2>1, PushedCause DEF q
  <2>3. V(FALSE) = Values(1, Inner)
    BY DEF V
  <2>4. Moves(buf, stack, opened, buf', stack', opened', V(FALSE))
    <3> SUFFICES ASSUME NEW d, NEW p, At(d, buf, o, opened + 1, p)
                 PROVE  At(d, buf', Append(q, [closing |-> "rbracket", id |-> m]), m + 1,
                           p \o V(FALSE))
      BY <1>7, <2>1, <2>2 DEF Moves, o
    <3> HIDE DEF m
    <3>1. At(d, WithError(e, FALSE), q, m, p \o V(FALSE)) /\ Last(q).closing = "rbrace"
      BY <1>3
    <3>2. Slot(d, WithKey(WithError(e, FALSE)), q, m, p \o V(FALSE))
      BY <3>1, WithKeySlot
    <3>3. m \in Nat
      BY <2>1
    <3> QED
      BY <1>1, <1>7, <3>2, <3>3, OpenedAt
  <2>5. want' = want \o V(FALSE)
    BY <1>2, <1>7, <2>3, FewValues
  <2>6. openNamespaces' = Len(stack'[1].path) - 1 /\ opened' \in Nat
    BY <1>1, <1>2, <1>7, <2>1, <2>2
  <2> QED
    BY <1>1, <1>4, <2>2, <2>4, <2>5, <2>6, EncoderStep
<1> QED
  BY <1>5, <1>6, <1>7

LEMMA EndErrorsStep ==
  ASSUME Inv, EndErrors
  PROVE  Inv'
<1> DEFINE n == Len(stack)
           inCause == stack[n - 1].kind = "cause"
<1>1. /\ phase # "ready" /\ EncoderOK /\ Top.kind = "errors"
      /\ UNCHANGED <<config, core, phase, line, lineWant>>
      /\ work' \in 0..MaxWork
      /\ openNamespaces' = openNamespaces /\ opened' = opened /\ want' = want
  BY DEF Inv, EndErrors
<1>2. /\ n \in Nat \ {0} /\ Top = stack[n] /\ stack[1].kind = "object"
      /\ opened \in Nat /\ want \in Seq(Seq(Nat))
      /\ openNamespaces = Len(stack[1].path) - 1
      /\ PathsOK(stack) /\ CausesOK(stack)
  BY <1>1, TopIs
<1>3. n > 1
  BY <1>1, <1>2
<1>4. /\ buf' = buf \o (IF inCause THEN <<"rbracket", "rbrace">> ELSE <<"rbracket">>)
      /\ stack' = IF inCause THEN Front(Front(stack)) ELSE Front(stack)
  BY DEF EndErrors
<1>5. \A d, p : At(d, buf, OpenOf(stack), opened + 1, p) =>
                  p \in Seq(Seq(Nat)) /\ buf \in Seq(Tokens)
  BY DEF At, ReaderTypes
<1>6. \A b \in Seq(Tokens) : /\ b \o <<"rbracket">> = Append(b, "rbracket")
                             /\ b \o <<"rbracket", "rbrace">> =
                                  Append(Append(b, "rbracket"), "rbrace")
  BY AppendTwo, TokensAre
<1>7. CASE ~inCause
  <2>1. /\ PathsOK(stack') /\ CausesOK(stack') /\ stack'[1] = stack[1]
    BY <1>1, <1>3, <1>4, <1>7, Popped
  <2>2. Moves(buf, stack, opened, buf', stack', opened', <<>>)
    <3> SUFFICES ASSUME NEW d, NEW p, At(d, buf, OpenOf(stack), opened + 1, p)
                 PROVE  At(d, buf', OpenOf(stack'), opened' + 1, p \o <<>>)
      BY DEF Moves
    <3>1. At(d, Append(buf, "rbracket"), OpenOf(Front(stack)), opened + 1, p)
      <4>1. (IF Top.kind = "object" THEN "rbrace" ELSE "rbracket") = "rbracket"
        BY <1>1
      <4> QED
        BY <1>1, <1>3, <1>7, <4>1, ClosedAt
    <3>2. p \o <<>> = p /\ buf' = Append(buf, "rbracket")
      BY <1>4, <1>5, <1>6, <1>7, NoValues
    <3> QED
      BY <1>1, <1>4, <1>7, <3>1, <3>2
  <2>3. want' = want \o <<>> /\ opened' \in Nat /\ openNamespaces' = Len(stack'[1].path) - 1
    BY <1>1, <1>2, <2>1, NoValues
  <2> QED
    BY <1>1, <2>1, <2>2, <2>3, NoValues, EncoderStep
<1>8. CASE inCause
  <2> DEFINE mid == Front(stack)
             new == Front(mid)
             o == OpenOf(stack)
  <2>1. /\ PathsOK(mid) /\ mid[1] = stack[1] /\ Len(mid) = n - 1
        /\ \A i \in 1..n - 1 : mid[i] = stack[i]
        /\ OpenOf(mid) = Front(o) /\ Len(o) > 1
    BY <1>2, <1>3, OpenOfPop
  <2>2. n - 1 \in 1..n - 1 /\ n - 1 > 1
    <3>1. n - 1 \in 1..n
      BY <1>2, <1>3
    <3>2. n - 1 # 1
      BY <1>2, <1>8
    <3>3. \A x \in Nat : x > 1 /\ x - 1 # 1 => x - 1 \in 1..x - 1 /\ x - 1 > 1
      OBVIOUS
    <3> QED
      BY <1>2, <1>3, <3>2, <3>3
  <2> HIDE DEF mid
  <2>3. /\ PathsOK(new) /\ new[1] = mid[1] /\ Len(new) = n - 2
        /\ \A i \in 1..n - 2 : new[i] = mid[i]
        /\ OpenOf(new) = Front(OpenOf(mid)) /\ Len(OpenOf(mid)) > 1
    <3>1. Len(mid) > 1 /\ Len(mid) - 1 = n - 2
      BY <1>2, <2>1, <2>2
    <3>2. /\ PathsOK(new) /\ new[1] = mid[1] /\ Len(new) = Len(mid) - 1
          /\ \A i \in 1..Len(mid) - 1 : new[i] = mid[i]
          /\ OpenOf(new) = Front(OpenOf(mid)) /\ Len(OpenOf(mid)) > 1
      BY <2>1, <3>1, OpenOfPop
    <3> QED
      BY <3>1, <3>2
  <2>4. Last(o).closing = "rbracket"
    BY <1>1, TopIs
  <2>5. Last(OpenOf(mid)).closing = "rbrace"
    <3>1. Last(mid) = stack[n - 1]
      BY <2>1, <2>2 DEF Last
    <3> QED
      BY <1>8, <2>1, <3>1, TopClosing DEF ClosingOf
  <2>6. stack' = new
    BY <1>4, <1>8 DEF mid
  <2> HIDE DEF new, o
  <2>7. CausesOK(new)
    <3> SUFFICES ASSUME NEW i \in 1..n - 2, new[i].kind = "cause"
                 PROVE  i < n - 2 /\ new[i + 1].kind = "errors"
      BY <2>3 DEF CausesOK
    <3>1. i \in 1..n /\ i \in 1..n - 1 /\ i + 1 \in 1..n - 1
      BY <1>2
    <3>2. new[i] = stack[i]
      BY <2>1, <2>3, <3>1
    <3>3. stack[i + 1].kind = "errors"
      BY <1>2, <3>1, <3>2 DEF CausesOK
    <3>4. i # n - 2
      <4>1. i = n - 2 => i + 1 = n - 1
        BY <1>2
      <4> QED
        BY <1>8, <3>3, <4>1
    <3>5. i + 1 \in 1..n - 2 /\ i < n - 2
      BY <1>2, <3>1, <3>4
    <3> QED
      BY <2>1, <2>3, <3>1, <3>3, <3>5
  <2>8. Moves(buf, stack, opened, buf', stack', opened', <<>>)
    <3> SUFFICES ASSUME NEW d, NEW p, At(d, buf, o, opened + 1, p)
                 PROVE  At(d, buf', OpenOf(stack'), opened + 1, p \o <<>>)
      BY <1>1 DEF Moves, o
    <3> DEFINE k == opened + 1
    <3>1. At(d, buf, o, k, p)
      OBVIOUS
    <3> HIDE DEF k
    <3>2. At(d, Append(buf, "rbracket"), OpenOf(mid), k, p)
      BY <2>1, <2>4, <3>1, AtClose
    <3>3. At(d, Append(Append(buf, "rbracket"), "rbrace"), OpenOf(new), k, p)
      BY <2>3, <2>5, <3>2, AtClose
    <3>4. p \o <<>> = p /\ buf' = Append(Append(buf, "rbracket"), "rbrace")
      BY <1>4, <1>5, <1>6, <1>8, NoValues DEF o
    <3> QED
      BY <2>6, <3>3, <3>4 DEF k
  <2>9. want' = want \o <<>> /\ opened' \in Nat /\ openNamespaces' = Len(stack'[1].path) - 1
    BY <1>1, <1>2, <2>1, <2>3, <2>6, NoValues
  <2> QED
    BY <1>1, <2>3, <2>6, <2>7, <2>8, <2>9, NoValues, EncoderStep
<1> QED
  BY <1>7, <1>8

\* The encoder of the core is cloned: the clone is where the core's was.
LEMMA WithStep ==
  ASSUME Inv, With
  PROVE  Inv'
<1>1. /\ phase' = "with" /\ config' = config /\ core' = core /\ work' = work
      /\ buf' = core.buf /\ openNamespaces' = core.openNamespaces
      /\ stack' = CoreStack /\ opened' = core.opened
      /\ line' = <<>> /\ want' = Values(0, <<0>>) \o core.want
  BY DEF With, StartFrom, CoreStack, Values
<1>2. CoreOK /\ core.want \in Seq(Seq(Nat))
  BY DEF Inv, CoreOK, EncoderTypes
<1>3. want' = core.want
  <2>1. Values(0, <<0>>) = <<>>
    BY DEF Values
  <2> QED
    BY <1>1, <1>2, <2>1
<1>4. CausesOK(CoreStack) /\ CoreStack[1].path = core.path
  <2>1. Len(CoreStack) = 1 /\ CoreStack[1] = Frame("object", core.path)
    BY DEF CoreStack
  <2>2. CoreStack[1].kind = "object" /\ CoreStack[1].path = core.path
    BY <2>1 DEF Frame
  <2> QED
    BY <2>1, <2>2 DEF CausesOK
<1>5. EncoderOK'
  <2>1. Readings(phase') = Begins
    BY <1>1 DEF Readings
  <2> QED
    BY <1>1, <1>2, <1>3, <1>4, <2>1 DEF CoreOK, EncoderOK, EncoderTypes
<1>6. CoreOK' /\ LineOK'
  BY <1>1, <1>2 DEF CoreOK, CoreStack, LineOK
<1> QED
  BY <1>1, <1>5, <1>6 DEF Inv

\* A stack of one frame is the entry in some namespace of it.
LEMMA BottomIs ==
  ASSUME EncoderOK, AtTopLevel
  PROVE  /\ stack = <<Frame("object", Top.path)>>
         /\ Top.path \in Seq(Nat) /\ Top.path # <<>>
         /\ openNamespaces = Len(Top.path) - 1
<1>1. /\ Top.path \in Seq(Nat) /\ Len(stack) = 1 /\ Top = stack[1] /\ Top.kind = "object"
      /\ stack \in Seq([kind : Kinds, path : Seq(Nat)])
      /\ openNamespaces = Len(stack[1].path) - 1 /\ PathsOK(stack)
  BY TopIs DEF AtTopLevel
<1>2. stack[1] \in [kind : Kinds, path : Seq(Nat)]
  <2>1. \A i \in 1..Len(stack) : stack[i] \in [kind : Kinds, path : Seq(Nat)]
    BY <1>1, ElementOfSeq, Zenon
  <2> QED
    BY <1>1, <2>1
<1>3. stack[1] = Frame("object", Top.path)
  BY <1>1, <1>2 DEF Frame
<1>4. stack = <<stack[1]>>
  BY <1>1
<1>5. Top.path # <<>>
  BY <1>1 DEF PathsOK
<1> QED
  BY <1>1, <1>3, <1>4, <1>5

\* Its context ends where the encoder did.
LEMMA EndWithStep ==
  ASSUME Inv, EndWith
  PROVE  Inv'
<1>1. /\ phase = "with" /\ AtTopLevel /\ EncoderOK
      /\ phase' = "ready" /\ config' = config /\ work' = work
      /\ line' = line /\ lineWant' = lineWant
      /\ encoder' = <<<<>>, 0, <<>>, <<>>, 0>>
  BY DEF Inv, EndWith, Released, encoder
<1>2. core' = [buf |-> buf, openNamespaces |-> openNamespaces, path |-> Top.path,
               want |-> want, opened |-> opened]
  BY DEF EndWith
<1>3. /\ core'.buf = buf /\ core'.openNamespaces = openNamespaces /\ core'.path = Top.path
      /\ core'.want = want /\ core'.opened = opened
  BY <1>2
<1>4. /\ stack = <<Frame("object", Top.path)>> /\ openNamespaces = Len(Top.path) - 1
  BY <1>1, BottomIs
<1>5. CoreStack' = stack
  BY <1>3, <1>4 DEF CoreStack
<1>6. Readings(phase) = Begins
  BY <1>1 DEF Readings
<1>7. CoreOK'
  BY <1>1, <1>3, <1>4, <1>5, <1>6 DEF CoreOK, EncoderOK
<1>8. LineOK'
  BY <1>1 DEF Inv, LineOK
<1> QED
  BY <1>1, <1>7, <1>8 DEF Inv

LEMMA BeginEntryStep ==
  ASSUME Inv, BeginEntry
  PROVE  Inv'
<1> DEFINE w == Values(Cardinality(config.keys), <<0>>) \o core.want
<1>1. /\ phase' = "entry" /\ config' = config /\ core' = core /\ work' = work
      /\ buf' = WithContext(Header) /\ openNamespaces' = core.openNamespaces
      /\ stack' = CoreStack /\ opened' = core.opened
      /\ line' = <<>> /\ want' = w
  BY DEF BeginEntry, StartFrom, CoreStack, Values
<1>2. CoreOK /\ config \in Configs
  BY DEF Inv
<1>3. /\ EncoderTypes(core.opened, w)
      /\ At(Start, WithContext(Header), OpenOf(CoreStack), core.opened + 1, w)
  BY <1>2, ContextAt
<1>4. CausesOK(CoreStack) /\ CoreStack[1].path = core.path
  <2>1. Len(CoreStack) = 1 /\ CoreStack[1] = Frame("object", core.path)
    BY DEF CoreStack
  <2>2. CoreStack[1].kind = "object" /\ CoreStack[1].path = core.path
    BY <2>1 DEF Frame
  <2> QED
    BY <2>1, <2>2 DEF CausesOK
<1> HIDE DEF w
<1>5. Reads(Readings(phase'), buf', stack', opened', want')
  <2>1. Readings(phase') = {Start} /\ Start.leaves = <<>>
    BY <1>1 DEF Readings, Start
  <2>2. <<>> \o w = w
    BY <1>3 DEF EncoderTypes
  <2> QED
    BY <1>1, <1>3, <2>1, <2>2 DEF Reads
<1>6. EncoderOK'
  BY <1>1, <1>2, <1>3, <1>4, <1>5 DEF CoreOK, EncoderOK
<1>7. CoreOK' /\ LineOK'
  BY <1>1, <1>2 DEF CoreOK, CoreStack, LineOK
<1> QED
  BY <1>1, <1>2, <1>6, <1>7 DEF Inv

\* The closed entry.
LEMMA EndEntryStep ==
  ASSUME Inv, EndEntry
  PROVE  Inv'
<1>1. /\ phase = "entry" /\ AtTopLevel /\ EncoderOK
      /\ phase' = "ready" /\ config' = config /\ core' = core /\ work' = work
      /\ line' = buf \o Closings(openNamespaces) \o <<"rbrace">> /\ lineWant' = want
      /\ encoder' = <<<<>>, 0, <<>>, <<>>, 0>>
  BY DEF Inv, EndEntry, Released, encoder
<1> DEFINE o == OpenOf(stack)
           k == opened + 1
<1>2. At(Start, buf, o, k, want)
  <2>1. Readings(phase) = {Start} /\ Start.leaves = <<>>
    BY <1>1 DEF Readings, Start
  <2>2. <<>> \o want = want
    BY <1>1 DEF EncoderOK, EncoderTypes
  <2> QED
    BY <1>1, <2>1, <2>2 DEF EncoderOK, Reads
<1>3. /\ openNamespaces = Len(o) - 1
      /\ \A i \in 1..Len(o) : o[i].closing = "rbrace"
  <2> DEFINE q == Top.path
  <2>1. stack = <<Frame("object", q)>> /\ q \in Seq(Nat) /\ q # <<>> /\ openNamespaces = Len(q) - 1
    BY <1>1, BottomIs
  <2> HIDE DEF q
  <2>2. o = [i \in 1..Len(q) |-> [closing |-> "rbrace", id |-> q[i]]]
    BY <2>1, OpenOfOne
  <2> HIDE DEF o
  <2>3. Len(o) = Len(q)
    BY <2>1, <2>2
  <2> QED
    BY <2>1, <2>2, <2>3
<1> HIDE DEF o, k
<1>4. buf # <<>>
  BY <1>2, EntryNotEmpty
<1>5. ReadAll(Start, line') = R("end", <<>>, k, want)
  <2>1. line' = buf \o Closings(Len(o) - 1) \o <<"rbrace">>
    BY <1>1, <1>3
  <2> QED
    BY <1>2, <1>3, <1>4, <2>1, ClosingsEnd
<1>6. LineOK'
  BY <1>1, <1>5 DEF LineOK, Decoded, R
<1>7. CoreOK'
  BY <1>1 DEF Inv, CoreOK, CoreStack
<1> QED
  BY <1>1, <1>6, <1>7 DEF Inv

LEMMA InvInit ==
  ASSUME Init
  PROVE  Inv
<1>1. /\ core.buf = <<>> /\ core.openNamespaces = 0 /\ core.path = <<0>> /\ core.want = <<>>
      /\ core.opened = 0
  BY DEF Init
<1>2. <<0>> \in Seq(Nat) /\ <<0>> # <<>> /\ Len(<<0>>) = 1
  OBVIOUS
<1>3. PathsOK(CoreStack) /\ OpenOf(CoreStack) = <<Entry>>
  <2>1. CoreStack = <<Frame("object", <<0>>)>>
    BY <1>1 DEF CoreStack
  <2>2. /\ PathsOK(<<Frame("object", <<0>>)>>)
        /\ OpenOf(<<Frame("object", <<0>>)>>) =
             [i \in 1..Len(<<0>>) |-> [closing |-> "rbrace", id |-> <<0>>[i]]]
    BY <1>2, OpenOfOne
  <2>3. [i \in 1..Len(<<0>>) |-> [closing |-> "rbrace", id |-> <<0>>[i]]] = <<Entry>>
    BY DEF Entry
  <2> QED
    BY <2>1, <2>2, <2>3
<1>4. Reads(Begins, <<>>, CoreStack, 0, <<>>)
  <2> SUFFICES ASSUME NEW d \in Begins
               PROVE  At(d, <<>>, <<Entry>>, 1, d.leaves \o <<>>)
    BY <1>3 DEF Reads
  <2>1. PICK n \in {"key", "firstKey"}, p \in Seq(Seq(Nat)) : d = R(n, <<Entry>>, 1, p)
    BY DEF Begins
  <2>2. d.leaves \o <<>> = p
    <3>1. d.leaves = p
      BY <2>1 DEF R
    <3> QED
      BY <2>1, <3>1, NoValues
  <2>3. ReadAll(d, <<>>) = R(n, <<Entry>>, 1, p)
    BY <2>1, ReadNone
  <2>4. /\ <<Entry>> \in Seq(Opens) /\ Len(<<Entry>>) = 1 /\ <<Entry>> # <<>>
        /\ Last(<<Entry>>).closing = "rbrace" /\ <<>> \in Seq(Tokens)
    BY DEF Entry, Opens, Last
  <2> QED
    BY <2>1, <2>2, <2>3, <2>4 DEF At, ReaderTypes
<1>5. CoreOK
  BY <1>1, <1>2, <1>3, <1>4, NoValues DEF CoreOK, EncoderTypes
<1> QED
  BY <1>5, EncoderAssumption DEF Init, Inv, encoder, LineOK

LEMMA InvStutter ==
  ASSUME Inv, UNCHANGED vars
  PROVE  Inv'
<1>1. /\ config' = config /\ core' = core /\ phase' = phase /\ line' = line
      /\ lineWant' = lineWant /\ work' = work /\ encoder' = encoder
      /\ buf' = buf /\ openNamespaces' = openNamespaces /\ stack' = stack /\ want' = want
      /\ opened' = opened
  BY DEF vars, encoder
<1>2. CoreOK' = CoreOK /\ LineOK' = LineOK /\ EncoderOK' = EncoderOK
  BY <1>1 DEF CoreOK, CoreStack, LineOK, EncoderOK
<1> QED
  BY <1>1, <1>2 DEF Inv

-----------------------------------------------------------------------------
(***************************************************************************)
(* The theorems.                                                           *)
(***************************************************************************)

\* Whatever the core and the marshalers add, the reader has open what the encoder
\* is inside of.
THEOREM EncoderInv ==
  ASSUME ~NestedNamespaces
  PROVE  Spec => []Inv
<1>1. Init => Inv
  BY InvInit
<1>2. ASSUME Inv, [Next]_vars
      PROVE  Inv'
  <2>1. CASE With
    BY <1>2, <2>1, WithStep
  <2>2. CASE EndWith
    BY <1>2, <2>2, EndWithStep
  <2>3. CASE BeginEntry
    BY <1>2, <2>3, BeginEntryStep
  <2>4. CASE EndEntry
    BY <1>2, <2>4, EndEntryStep
  <2>5. CASE AddScalar \/ AddEncoded \/ AddReflectedFails
    BY <1>2, <2>5, AddScalarStep
  <2>6. CASE OpenNamespace
    BY <1>2, <2>6, OpenNamespaceStep
  <2>7. CASE BeginMarshal
    BY <1>2, <2>7, BeginMarshalStep
  <2>8. CASE EndMarshal
    BY <1>2, <2>8, EndMarshalStep
  <2>9. CASE AddSlice
    BY <1>2, <2>9, AddSliceStep
  <2>10. CASE AddError
    BY <1>2, <2>10, AddErrorStep
  <2>11. CASE AddErrors
    BY <1>2, <2>11, AddErrorsStep
  <2>12. CASE AppendError
    BY <1>2, <2>12, AppendErrorStep
  <2>13. CASE EndErrors
    BY <1>2, <2>13, EndErrorsStep
  <2>14. CASE UNCHANGED vars
    BY <1>2, <2>14, InvStutter
  <2> QED
    BY <1>2, <2>1, <2>2, <2>3, <2>4, <2>5, <2>6, <2>7, <2>8, <2>9, <2>10, <2>11, <2>12,
       <2>13, <2>14 DEF Next
<1> QED
  BY <1>1, <1>2, PTL DEF Spec

\* "keep JSON valid" (json_encoder.go:236), for every configuration, any number
\* of fields, marshalers inside marshalers and causes of errors: every entry is
\* one JSON object, closed.  Without namespaces opened inside a marshaler:
\* those are closed too late.
THEOREM EntriesAreValidJson ==
  ASSUME ~NestedNamespaces
  PROVE  Spec => []ValidJson
<1>1. Inv => ValidJson
  BY DEF Inv, LineOK, ValidJson
<1> QED
  BY <1>1, EncoderInv, PTL

\* ... and a reader finds in it every value in the container that
\* MapObjectEncoder puts it into, and no other value.
THEOREM EntriesHoldTheSameTree ==
  ASSUME ~NestedNamespaces
  PROVE  Spec => []SameTree
<1>1. Inv => SameTree
  BY DEF Inv, LineOK, SameTree
<1> QED
  BY <1>1, EncoderInv, PTL

\* The types, and that an encoder in the pool is as good as new.
THEOREM EncoderTypesOK ==
  ASSUME ~NestedNamespaces
  PROVE  Spec => []TypeOK
<1>1. ASSUME Inv PROVE TypeOK
  <2>1. CASE phase = "ready"
    <3>1. /\ buf = <<>> /\ openNamespaces = 0 /\ stack = <<>> /\ opened = 0
          /\ encoder = <<<<>>, 0, <<>>, <<>>, 0>>
      BY <1>1, <2>1 DEF Inv, encoder
    <3>2. Range(<<>>) = {}
      BY DEF Range
    <3>3. core.openNamespaces \in Nat
      BY <1>1, OpenOfTypes DEF Inv, CoreOK, CoreStack, Frame
    <3> QED
      BY <1>1, <2>1, <3>1, <3>2, <3>3 DEF Inv, TypeOK
  <2>2. CASE phase # "ready"
    <3>1. EncoderOK
      BY <1>1, <2>2 DEF Inv
    <3>2. /\ opened \in Nat /\ Len(stack) \in Nat \ {0}
          /\ \A i \in 1..Len(stack) : stack[i].kind \in Kinds
          /\ Len(stack[1].path) \in Nat \ {0} /\ openNamespaces = Len(stack[1].path) - 1
          /\ DOMAIN stack = 1..Len(stack) /\ stack # <<>>
      BY <3>1, TopIs, OpenOfTypes, SMTT(30)
    <3>3. core.openNamespaces \in Nat
      BY <1>1, OpenOfTypes DEF Inv, CoreOK, CoreStack, Frame
    <3>4. Range(buf) \subseteq Tokens
      <4>1. buf \in Seq(Tokens)
        BY <3>1, ReadsTypes DEF EncoderOK
      <4> QED
        BY <4>1 DEF Range
    <3> QED
      BY <1>1, <2>2, <3>2, <3>3, <3>4 DEF Inv, TypeOK, Kinds
  <2> QED
    BY <2>1, <2>2
<1> QED
  BY <1>1, EncoderInv, PTL
=============================================================================
