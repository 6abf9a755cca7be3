--------------------------- MODULE RotationProofs ---------------------------
(***************************************************************************)
(* Theorems about Rotation for all sizes of the buffer, of a file and of   *)
(* the data of a Write, for every number of backups and for any number of  *)
(* failed system calls, closed files and killed processes.                 *)
(* First the lemmas about bytes, then the invariant, the safety properties *)
(* and, last, the refinement of LogStream.                                 *)
(***************************************************************************)
EXTENDS Rotation, TLAPS, SequenceTheorems, FiniteSetTheorems

(***************************************************************************)
(* Sequences of bytes.                                                     *)
(***************************************************************************)

LEMMA SeqBasics ==
  ASSUME NEW T, NEW s \in Seq(T)
  PROVE  /\ Len(s) \in Nat /\ DOMAIN s = 1..Len(s) /\ \A i \in 1..Len(s) : s[i] \in T
         /\ Elems(s) \subseteq T
         /\ s # <<>> <=> Len(s) > 0
  BY DEF Elems

LEMMA EmptyBytes == Elems(<<>>) = {} /\ Increasing(<<>>)
  BY DEF Elems, Increasing

LEMMA ConcatParts ==
  ASSUME NEW T, NEW a \in Seq(T), NEW b \in Seq(T), NEW m, m = Len(a), NEW n, n = Len(b)
  PROVE  /\ m \in Nat /\ n \in Nat /\ DOMAIN a = 1..m /\ DOMAIN b = 1..n
         /\ a \o b \in Seq(T) /\ Len(a \o b) = m + n /\ DOMAIN (a \o b) = 1..(m + n)
         /\ \A i \in 1..m : i \in 1..(m + n) /\ (a \o b)[i] = a[i]
         /\ \A i \in 1..n : m + i \in 1..(m + n) /\ (a \o b)[m + i] = b[i]
         /\ \A i \in 1..(m + n) :
              \/ i \in 1..m
              \/ (i - m \in 1..n /\ (a \o b)[i] = b[i - m])
<1> DEFINE c == a \o b
<1>1. /\ c \in Seq(T) /\ Len(c) = m + n
      /\ \A i \in 1..(m + n) : c[i] = IF i <= m THEN a[i] ELSE b[i - m]
  BY ConcatProperties
<1> HIDE DEF c
<1>2. m \in Nat /\ n \in Nat /\ DOMAIN a = 1..m /\ DOMAIN b = 1..n
  BY SeqBasics
<1>3. DOMAIN c = 1..(m + n)
  BY <1>1, SeqBasics
<1>4. ASSUME NEW i \in 1..m PROVE i \in 1..(m + n) /\ c[i] = a[i]
  <2>1. i \in 1..(m + n) /\ i <= m
    BY <1>2
  <2> QED
    BY <1>1, <2>1
<1>5. ASSUME NEW i \in 1..n PROVE m + i \in 1..(m + n) /\ c[m + i] = b[i]
  <2>1. m + i \in 1..(m + n) /\ ~(m + i <= m) /\ (m + i) - m = i
    BY <1>2
  <2>2. c[m + i] = b[(m + i) - m]
    BY <1>1, <2>1
  <2> QED
    BY <2>1, <2>2
<1>6. ASSUME NEW i \in 1..(m + n), ~(i \in 1..m) PROVE i - m \in 1..n /\ c[i] = b[i - m]
  <2>1. i - m \in 1..n /\ ~(i <= m)
    BY <1>2, <1>6
  <2> QED
    BY <1>1, <2>1
<1> QED
  BY <1>1, <1>2, <1>3, <1>4, <1>5, <1>6 DEF c

LEMMA ElemsConcat ==
  ASSUME NEW T, NEW a \in Seq(T), NEW b \in Seq(T)
  PROVE  Elems(a \o b) = Elems(a) \union Elems(b)
<1>1. PICK m, n : m = Len(a) /\ n = Len(b)
  OBVIOUS
<1> DEFINE c == a \o b
<1>2. /\ m \in Nat /\ n \in Nat
      /\ DOMAIN a = 1..m /\ DOMAIN b = 1..n /\ DOMAIN c = 1..(m + n)
      /\ \A i \in 1..m : i \in 1..(m + n) /\ c[i] = a[i]
      /\ \A i \in 1..n : m + i \in 1..(m + n) /\ c[m + i] = b[i]
      /\ \A i \in 1..(m + n) : i \in 1..m \/ (i - m \in 1..n /\ c[i] = b[i - m])
  BY <1>1, ConcatParts, SMTT(30)
<1> HIDE DEF c
<1>3. Elems(c) \subseteq Elems(a) \union Elems(b)
  BY <1>2 DEF Elems
<1>4. Elems(a) \subseteq Elems(c)
  BY <1>2 DEF Elems
<1>5. Elems(b) \subseteq Elems(c)
  <2>1. ASSUME NEW i \in 1..n PROVE b[i] \in Elems(c)
    BY <1>2, <2>1 DEF Elems
  <2> QED
    BY <1>2, <2>1 DEF Elems
<1> QED
  BY <1>3, <1>4, <1>5 DEF c

LEMMA IncreasingConcat ==
  ASSUME NEW T, T \subseteq Int, NEW a \in Seq(T), NEW b \in Seq(T)
  PROVE  Increasing(a \o b) <=> Increasing(a) /\ Increasing(b) /\ Before(a, b)
<1>1. PICK m, n : m = Len(a) /\ n = Len(b)
  OBVIOUS
<1> DEFINE c == a \o b
<1>2. /\ m \in Nat /\ n \in Nat
      /\ DOMAIN a = 1..m /\ DOMAIN b = 1..n /\ DOMAIN c = 1..(m + n)
      /\ \A i \in 1..m : i \in 1..(m + n) /\ c[i] = a[i]
      /\ \A i \in 1..n : m + i \in 1..(m + n) /\ c[m + i] = b[i]
      /\ \A i \in 1..(m + n) : i \in 1..m \/ (i - m \in 1..n /\ c[i] = b[i - m])
  BY <1>1, ConcatParts, SMTT(30)
<1> HIDE DEF c
<1>4. ASSUME Increasing(c) PROVE Increasing(a) /\ Increasing(b) /\ Before(a, b)
  <2>1. Increasing(a)
    BY <1>2, <1>4 DEF Increasing
  <2>2. Increasing(b)
    <3>1. ASSUME NEW i \in 1..n, NEW j \in 1..n, i < j PROVE b[i] < b[j]
      <4>1. m + i < m + j
        BY <1>2, <3>1
      <4>2. c[m + i] < c[m + j]
        BY <1>2, <1>4, <4>1 DEF Increasing
      <4> QED
        BY <1>2, <4>2
    <3> QED
      BY <1>2, <3>1 DEF Increasing
  <2>3. Before(a, b)
    <3>1. ASSUME NEW i \in 1..m, NEW j \in 1..n PROVE a[i] < b[j]
      <4>1. i < m + j
        BY <1>2
      <4>2. c[i] < c[m + j]
        BY <1>2, <1>4, <4>1 DEF Increasing
      <4> QED
        BY <1>2, <4>2
    <3> QED
      BY <1>2, <3>1 DEF Before, Elems
  <2> QED
    BY <2>1, <2>2, <2>3
<1>5. ASSUME Increasing(a), Increasing(b), Before(a, b) PROVE Increasing(c)
  <2>1. ASSUME NEW i \in 1..(m + n), NEW j \in 1..(m + n), i < j
        PROVE  c[i] < c[j]
    <3>1. CASE j \in 1..m
      <4>1. i \in 1..m
        BY <1>2, <2>1, <3>1
      <4>2. a[i] < a[j]
        BY <1>2, <1>5, <2>1, <3>1, <4>1 DEF Increasing
      <4> QED
        BY <1>2, <3>1, <4>1, <4>2
    <3>2. CASE i \in 1..m /\ ~(j \in 1..m)
      <4>1. c[i] = a[i] /\ c[j] = b[j - m] /\ j - m \in 1..n
        BY <1>2, <3>2
      <4>2. a[i] \in Elems(a) /\ b[j - m] \in Elems(b)
        BY <1>2, <3>2, <4>1 DEF Elems
      <4> QED
        BY <1>5, <4>1, <4>2 DEF Before
    <3>3. CASE ~(i \in 1..m)
      <4>1. ~(j \in 1..m)
        BY <1>2, <2>1, <3>3
      <4>2. /\ c[i] = b[i - m] /\ i - m \in 1..n
            /\ c[j] = b[j - m] /\ j - m \in 1..n
        BY <1>2, <3>3, <4>1
      <4>3. i - m < j - m
        BY <1>2, <2>1
      <4> QED
        BY <1>2, <1>5, <4>2, <4>3 DEF Increasing
    <3> QED
      BY <3>1, <3>2, <3>3
  <2> QED
    BY <1>2, <2>1 DEF Increasing
<1> QED
  BY <1>4, <1>5 DEF c

LEMMA Concat ==
  ASSUME NEW a \in Seq(Nat), NEW b \in Seq(Nat)
  PROVE  /\ a \o b \in Seq(Nat) /\ Len(a \o b) = Len(a) + Len(b)
         /\ Elems(a \o b) = Elems(a) \union Elems(b)
         /\ Increasing(a \o b) <=> Increasing(a) /\ Increasing(b) /\ Before(a, b)
<1>1. Nat \subseteq Int
  OBVIOUS
<1>2. a \o b \in Seq(Nat) /\ Len(a \o b) = Len(a) + Len(b)
  BY ConcatProperties
<1>3. Elems(a \o b) = Elems(a) \union Elems(b)
  BY ElemsConcat
<1>4. Increasing(a \o b) <=> Increasing(a) /\ Increasing(b) /\ Before(a, b)
  BY <1>1, IncreasingConcat
<1> QED
  BY <1>2, <1>3, <1>4

LEMMA SplitAt ==
  ASSUME NEW T, NEW s \in Seq(T), NEW m \in 0..Len(s)
  PROVE  /\ SubSeq(s, 1, m) \in Seq(T) /\ Len(SubSeq(s, 1, m)) = m
         /\ DropFirst(s, m) \in Seq(T) /\ Len(DropFirst(s, m)) = Len(s) - m
         /\ SubSeq(s, 1, m) \o DropFirst(s, m) = s
<1>1. Len(s) \in Nat /\ \A i \in 1..Len(s) : s[i] \in T
  BY SeqBasics
<1>2. m \in Int /\ 1 \in Int /\ m + 1 \in Int /\ Len(s) \in Int
  BY <1>1
<1>3. /\ SubSeq(s, 1, m) \in Seq(T) /\ Len(SubSeq(s, 1, m)) = m
      /\ \A i \in 1..m : SubSeq(s, 1, m)[i] = s[i]
  <2>1. \A i \in 1..m : s[i] \in T
    BY <1>1
  <2>2. /\ SubSeq(s, 1, m) \in Seq(T)
        /\ Len(SubSeq(s, 1, m)) = IF 1 <= m THEN m - 1 + 1 ELSE 0
        /\ \A i \in 1..(m - 1 + 1) : SubSeq(s, 1, m)[i] = s[1 + i - 1]
    BY <1>2, <2>1, SubSeqProperties
  <2> QED
    BY <1>2, <2>2
<1> DEFINE d == SubSeq(s, m + 1, Len(s))
<1>4. /\ d \in Seq(T) /\ Len(d) = Len(s) - m
      /\ \A i \in 1..(Len(s) - m) : d[i] = s[m + i]
  <2>1. \A i \in (m + 1)..Len(s) : s[i] \in T
    BY <1>1
  <2>2. /\ d \in Seq(T)
        /\ Len(d) = IF m + 1 <= Len(s) THEN Len(s) - (m + 1) + 1 ELSE 0
        /\ \A i \in 1..(Len(s) - (m + 1) + 1) : d[i] = s[m + 1 + i - 1]
    BY <1>2, <2>1, SubSeqProperties
  <2> QED
    BY <1>1, <2>2
<1> DEFINE a == SubSeq(s, 1, m)
<1> HIDE DEF a, d
<1>5. a \o d = s
  <2>1. /\ a \in Seq(T) /\ Len(a) = m /\ \A i \in 1..m : a[i] = s[i]
    BY <1>3 DEF a
  <2>2. /\ a \o d \in Seq(T) /\ Len(a \o d) = Len(a) + Len(d)
        /\ \A i \in 1..(Len(a) + Len(d)) :
             (a \o d)[i] = IF i <= Len(a) THEN a[i] ELSE d[i - Len(a)]
    BY <1>4, <2>1, ConcatProperties
  <2>3. Len(a \o d) = Len(s)
    BY <1>1, <1>4, <2>1, <2>2
  <2>4. \A i \in 1..Len(s) : (a \o d)[i] = s[i]
    BY <1>1, <1>4, <2>1, <2>2
  <2> QED
    BY <2>2, <2>3, <2>4, SeqEqual
<1> QED
  BY <1>3, <1>4, <1>5 DEF a, d, DropFirst

\* The bytes of one call.
LEMMA NewBytes ==
  ASSUME NEW a \in Nat, NEW n \in Nat
  PROVE  /\ Bytes(a + 1, a + n) \in Seq((a + 1)..(a + n))
         /\ Len(Bytes(a + 1, a + n)) = n
         /\ Increasing(Bytes(a + 1, a + n))
         /\ Elems(Bytes(a + 1, a + n)) = (a + 1)..(a + n)
<1> DEFINE s == [i \in 1..n |-> a + i]
<1>1. Bytes(a + 1, a + n) = s
  <2>1. a + n - (a + 1) + 1 = n
    OBVIOUS
  <2>2. \A i \in 1..n : a + 1 + i - 1 = a + i
    OBVIOUS
  <2> QED
    BY <2>1, <2>2 DEF Bytes
<1>2. s \in Seq((a + 1)..(a + n)) /\ Len(s) = n /\ DOMAIN s = 1..n
  OBVIOUS
<1>3. Increasing(s)
  BY <1>2 DEF Increasing
<1>4. Elems(s) = (a + 1)..(a + n)
  <2>1. ASSUME NEW x \in (a + 1)..(a + n) PROVE x \in Elems(s)
    <3>1. x - a \in 1..n /\ s[x - a] = x
      OBVIOUS
    <3> QED
      BY <1>2, <3>1 DEF Elems
  <2>2. \A i \in 1..n : s[i] \in (a + 1)..(a + n)
    OBVIOUS
  <2> QED
    BY <1>2, <2>1, <2>2 DEF Elems
<1> QED
  BY <1>1, <1>2, <1>3, <1>4

\* Backups of a later second are of a later time.
LEMMA SecondsGrow ==
  ASSUME NEW t \in Nat, NEW u \in Nat
  PROVE  /\ Second(t) \in Int
         /\ t <= u => Second(t) <= Second(u)
  BY RotationAssumption DEF Second

-----------------------------------------------------------------------------
(***************************************************************************)
(* The order of the bytes, as a predicate of the files dd, the links bd to *)
(* the backups, the log file lf and the bytes r that are not yet in a file.*)
(***************************************************************************)

Linked(bd) == {t \in Stamps : bd[t] # 0}
Log(dd, lf) == IF lf = 0 THEN <<>> ELSE dd[lf]

Ordered(dd, bd, lf, r) ==
  /\ \A t \in Linked(bd) : Increasing(dd[bd[t]])
  /\ \A t, u \in Linked(bd) : t < u => Before(dd[bd[t]], dd[bd[u]])
  /\ \A t \in Linked(bd) : Before(dd[bd[t]], Log(dd, lf)) /\ Before(dd[bd[t]], r)
  /\ Increasing(Log(dd, lf)) /\ Increasing(r) /\ Before(Log(dd, lf), r)

\* What FilesOK says, of the file g in use.
Placed(dd, bd, lf, g) ==
  /\ dd \in [Files -> Seq(Nat)] /\ bd \in [Stamps -> 0..MaxFiles]
  /\ lf \in 0..MaxFiles /\ g \in Files
  /\ lf # 0 => g = lf
  /\ \A t \in Linked(bd) :
       /\ bd[t] # lf
       /\ bd[t] = g => \A u \in Linked(bd) : u <= t
       /\ \A u \in Linked(bd) : bd[t] = bd[u] => t = u

LEMMA LinkedFiles ==
  ASSUME NEW bd \in [Stamps -> 0..MaxFiles]
  PROVE  /\ \A t \in Linked(bd) : t \in Stamps /\ t \in Nat /\ bd[t] \in Files
         /\ Linked(bd) \subseteq Stamps
  BY RotationAssumption, SMTT(30) DEF Linked, Files, Stamps

LEMMA StreamParts ==
  ASSUME NEW l \in Seq(Nat), NEW b \in Seq(Nat), NEW q \in Seq(Nat)
  PROVE  /\ b \o q \in Seq(Nat)
         /\ Elems(l \o b \o q) = Elems(l) \union Elems(b \o q)
         /\ Increasing(l \o b \o q) <=>
              Increasing(l) /\ Increasing(b \o q) /\ Before(l, b \o q)
<1>1. b \o q \in Seq(Nat) /\ l \o b \o q = l \o (b \o q)
  BY ConcatProperties, ConcatAssociative, SMTT(60)
<1>2. /\ Elems(l \o (b \o q)) = Elems(l) \union Elems(b \o q)
      /\ Increasing(l \o (b \o q)) <=>
           Increasing(l) /\ Increasing(b \o q) /\ Before(l, b \o q)
  BY <1>1, Concat
<1> QED
  BY <1>1, <1>2

\* x moves from the front of the waiting bytes to the file in use, and what
\* remains may lose some.
LEMMA OrderedFlow ==
  ASSUME NEW dd, NEW bd, NEW lf, NEW g, Placed(dd, bd, lf, g),
         NEW x \in Seq(Nat), NEW y \in Seq(Nat), NEW r \in Seq(Nat),
         Ordered(dd, bd, lf, x \o y),
         Elems(r) \subseteq Elems(y), Increasing(y) => Increasing(r)
  PROVE  Ordered([dd EXCEPT ![g] = @ \o x], bd, lf, r)
<1> DEFINE e == [dd EXCEPT ![g] = @ \o x]
<1>1. /\ dd \in [Files -> Seq(Nat)] /\ g \in Files /\ lf \in 0..MaxFiles
      /\ bd \in [Stamps -> 0..MaxFiles] /\ dd[g] \in Seq(Nat)
  BY DEF Placed
<1>2. e[g] = dd[g] \o x /\ \A h \in Files : h # g => e[h] = dd[h]
  BY <1>1
<1> HIDE DEF e
<1>3. /\ Elems(e[g]) = Elems(dd[g]) \union Elems(x)
      /\ Increasing(e[g]) <=> Increasing(dd[g]) /\ Increasing(x) /\ Before(dd[g], x)
  BY <1>1, <1>2, Concat
<1>4. /\ Elems(x \o y) = Elems(x) \union Elems(y)
      /\ Increasing(x) /\ Increasing(y) /\ Before(x, y)
  <2>1. Increasing(x \o y)
    BY DEF Ordered
  <2> QED
    BY <2>1, Concat
<1>5. \A t \in Linked(bd) : t \in Nat /\ bd[t] \in Files
  BY <1>1, LinkedFiles
<1>6. CASE lf # 0
  <2>1. g = lf /\ \A t \in Linked(bd) : e[bd[t]] = dd[bd[t]]
    BY <1>2, <1>5, <1>6 DEF Placed
  <2>2. Log(e, lf) = e[g] /\ Log(dd, lf) = dd[g]
    BY <1>6, <2>1 DEF Log
  <2>3. Increasing(e[g]) /\ Increasing(r) /\ Before(e[g], r)
    BY <1>3, <1>4, <2>2 DEF Ordered, Before
  <2>4. \A t \in Linked(bd) : Before(e[bd[t]], e[g]) /\ Before(e[bd[t]], r)
    BY <1>3, <1>4, <2>1, <2>2 DEF Ordered, Before
  <2> QED
    BY <2>1, <2>2, <2>3, <2>4 DEF Ordered, e
<1>7. CASE lf = 0
  <2>1. Log(e, lf) = <<>> /\ Log(dd, lf) = <<>>
    BY <1>7 DEF Log
  <2>2. ASSUME NEW t \in Linked(bd)
        PROVE  /\ Before(dd[bd[t]], x) /\ Before(dd[bd[t]], r)
               /\ Before(e[bd[t]], r) /\ Increasing(e[bd[t]])
    <3>1. Increasing(dd[bd[t]]) /\ Before(dd[bd[t]], x \o y)
      BY <2>2 DEF Ordered
    <3>2. Before(dd[bd[t]], x) /\ Before(dd[bd[t]], r)
      BY <1>4, <3>1 DEF Before
    <3>3. Before(x, r)
      BY <1>4 DEF Before
    <3>4. CASE bd[t] = g
      <4>1. Increasing(e[g])
        BY <1>3, <1>4, <3>1, <3>2, <3>4
      <4>2. Before(e[g], r)
        BY <1>3, <3>2, <3>3, <3>4 DEF Before
      <4> QED
        BY <3>2, <3>4, <4>1, <4>2
    <3>5. CASE bd[t] # g
      <4>1. e[bd[t]] = dd[bd[t]]
        BY <1>2, <1>5, <3>5
      <4> QED
        BY <3>1, <3>2, <4>1
    <3> QED
      BY <3>4, <3>5
  <2>3. ASSUME NEW t \in Linked(bd), NEW u \in Linked(bd), t < u
        PROVE  Before(e[bd[t]], e[bd[u]])
    <3>1. t \in Nat /\ u \in Nat /\ bd[t] # g
      BY <1>5, <2>3 DEF Placed
    <3>2. e[bd[t]] = dd[bd[t]] /\ Before(dd[bd[t]], dd[bd[u]])
      BY <1>2, <1>5, <2>3, <3>1 DEF Ordered
    <3>3. CASE bd[u] = g
      BY <1>3, <2>2, <3>2, <3>3 DEF Before
    <3>4. CASE bd[u] # g
      BY <1>2, <1>5, <3>2, <3>4
    <3> QED
      BY <3>3, <3>4
  <2>4. Elems(<<>>) = {} /\ Increasing(<<>>)
    BY EmptyBytes
  <2>5. /\ Increasing(<<>>) /\ Increasing(r) /\ Before(<<>>, r)
        /\ \A t \in Linked(bd) : Before(e[bd[t]], <<>>)
    BY <1>4, <2>4 DEF Before
  <2> QED
    BY <2>1, <2>2, <2>3, <2>5 DEF Ordered, e
<1> QED
  BY <1>6, <1>7

\* Fewer backups, and a log file that is replaced by an empty one or by none.
LEMMA OrderedFewer ==
  ASSUME NEW dd, NEW bd, NEW lf, NEW r, Ordered(dd, bd, lf, r),
         NEW ee, NEW bd2, NEW lf2,
         \A t \in Linked(bd2) : t \in Linked(bd) /\ ee[bd2[t]] = dd[bd[t]],
         Log(ee, lf2) \in {Log(dd, lf), <<>>}
  PROVE  Ordered(ee, bd2, lf2, r)
<1>1. /\ \A t \in Linked(bd2) : Increasing(ee[bd2[t]])
      /\ \A t, u \in Linked(bd2) : t < u => Before(ee[bd2[t]], ee[bd2[u]])
      /\ \A t \in Linked(bd2) : Before(ee[bd2[t]], r)
      /\ Increasing(r)
  BY DEF Ordered
<1>2. CASE Log(ee, lf2) = Log(dd, lf)
  BY <1>1, <1>2 DEF Ordered
<1>3. CASE Log(ee, lf2) = <<>>
  <2>1. Increasing(<<>>) /\ Before(<<>>, r) /\ \A t \in Linked(bd2) : Before(ee[bd2[t]], <<>>)
    BY EmptyBytes DEF Before
  <2> QED
    BY <1>1, <1>3, <2>1 DEF Ordered
<1> QED
  BY <1>2, <1>3

\* The log file becomes the newest backup.
LEMMA OrderedRename ==
  ASSUME NEW dd, NEW bd, NEW lf, NEW g, NEW r, Placed(dd, bd, lf, g), lf # 0,
         Ordered(dd, bd, lf, r),
         NEW t \in Stamps, \A u \in Linked(bd) : u <= t
  PROVE  Ordered(dd, [bd EXCEPT ![t] = lf], 0, r)
<1> DEFINE bd2 == [bd EXCEPT ![t] = lf]
<1>1. bd \in [Stamps -> 0..MaxFiles]
  BY DEF Placed
<1>2. bd2[t] = lf /\ \A u \in Stamps : u # t => bd2[u] = bd[u]
  BY <1>1
<1>3. Linked(bd2) \subseteq Stamps
  BY DEF Linked
<1> HIDE DEF bd2
<1>4. \A u \in Linked(bd2) : u # t => u \in Linked(bd) /\ bd2[u] = bd[u] /\ u < t
  BY <1>2, <1>3 DEF Linked, Stamps
<1>5. Log(dd, lf) = dd[lf] /\ Log(dd, 0) = <<>>
  BY DEF Log
<1>6. /\ \A u \in Linked(bd2) : Increasing(dd[bd2[u]])
      /\ \A u \in Linked(bd2) : Before(dd[bd2[u]], r)
  BY <1>2, <1>4, <1>5 DEF Ordered
<1>7. ASSUME NEW u \in Linked(bd2), NEW v \in Linked(bd2), u < v
      PROVE  Before(dd[bd2[u]], dd[bd2[v]])
  <2>1. u # t
    BY <1>3, <1>4, <1>7 DEF Stamps
  <2>2. CASE v = t
    BY <1>2, <1>4, <1>5, <2>1, <2>2 DEF Ordered
  <2>3. CASE v # t
    BY <1>4, <1>7, <2>1, <2>3 DEF Ordered
  <2> QED
    BY <2>2, <2>3
<1>8. Increasing(<<>>) /\ Before(<<>>, r) /\ \A u \in Linked(bd2) : Before(dd[bd2[u]], <<>>)
  BY EmptyBytes DEF Before
<1> QED
  BY <1>5, <1>6, <1>7, <1>8 DEF Ordered, bd2

\* Bytes later than all others are added to those that wait.
LEMMA OrderedMore ==
  ASSUME NEW dd, NEW bd, NEW lf, NEW r \in Seq(Nat), NEW y \in Seq(Nat), NEW a \in Nat,
         Ordered(dd, bd, lf, r),
         \A t \in Linked(bd) : Elems(dd[bd[t]]) \subseteq 1..a,
         Elems(Log(dd, lf)) \subseteq 1..a, Elems(r) \subseteq 1..a,
         Increasing(y), \A z \in Elems(y) : z \in Nat /\ z > a
  PROVE  Ordered(dd, bd, lf, r \o y)
<1>1. Elems(r \o y) = Elems(r) \union Elems(y)
  BY Concat
<1>2. Before(r, y) /\ Before(Log(dd, lf), y) /\ \A t \in Linked(bd) : Before(dd[bd[t]], y)
  <2>1. \A s : Elems(s) \subseteq 1..a => Before(s, y)
    BY DEF Before
  <2> QED
    BY <2>1
<1>3. Increasing(r \o y)
  BY <1>2, Concat DEF Ordered
<1> QED
  BY <1>1, <1>2, <1>3 DEF Ordered, Before

-----------------------------------------------------------------------------
(***************************************************************************)
(* The bytes that are kept, as a set of the same, of the heap bs and of    *)
(* the number a of the last byte.                                          *)
(***************************************************************************)

InHeap(dd, bd, bs) == UNION {Elems(dd[bd[b.time]]) : b \in bs}
KeptOf(dd, bd, bs, lf, r) == InHeap(dd, bd, bs) \union Elems(Log(dd, lf)) \union Elems(r)

\* B is the last bytes up to a.
IsTail(B, a) == \E lo \in 1..(a + 1) : B = lo..a

Gapless(dd, bd, bs, lf, g, r, a) ==
  /\ IsTail(KeptOf(dd, bd, bs, lf, r), a)
  /\ \A b \in bs : bd[b.time] # 0
  /\ \A b, c \in bs : b # c => Second(b.time) # Second(c.time)
  /\ lf = 0 => \E b \in bs : bd[b.time] = g

LEMMA InHeapMember ==
  ASSUME NEW dd, NEW bd, NEW bs, NEW z
  PROVE  z \in InHeap(dd, bd, bs) <=> \E b \in bs : z \in Elems(dd[bd[b.time]])
  BY DEF InHeap

LEMMA GaplessFlow ==
  ASSUME NEW dd, NEW bd, NEW bs, NEW lf, NEW g, NEW a,
         Placed(dd, bd, lf, g), bs \subseteq [time : Stamps, file : Files],
         NEW x \in Seq(Nat), NEW y \in Seq(Nat),
         Gapless(dd, bd, bs, lf, g, x \o y, a)
  PROVE  Gapless([dd EXCEPT ![g] = @ \o x], bd, bs, lf, g, y, a)
<1> DEFINE e == [dd EXCEPT ![g] = @ \o x]
<1>1. /\ dd \in [Files -> Seq(Nat)] /\ g \in Files /\ lf \in 0..MaxFiles
      /\ bd \in [Stamps -> 0..MaxFiles] /\ dd[g] \in Seq(Nat)
  BY DEF Placed
<1>2. e[g] = dd[g] \o x /\ \A h \in Files : h # g => e[h] = dd[h]
  BY <1>1
<1> HIDE DEF e
<1>3. Elems(e[g]) = Elems(dd[g]) \union Elems(x) /\ Elems(x \o y) = Elems(x) \union Elems(y)
  BY <1>1, <1>2, Concat
<1>4. \A b \in bs : b.time \in Linked(bd) /\ bd[b.time] \in Files
  <2>1. \A b \in bs : b.time \in Stamps /\ bd[b.time] # 0
    BY DEF Gapless
  <2> QED
    BY <1>1, <2>1, LinkedFiles DEF Linked
<1>5. \A b \in bs : bd[b.time] # g => e[bd[b.time]] = dd[bd[b.time]]
  BY <1>2, <1>4
<1>6. KeptOf(e, bd, bs, lf, y) = KeptOf(dd, bd, bs, lf, x \o y)
  <2>1. CASE lf # 0
    <3>1. g = lf /\ Log(e, lf) = e[g] /\ Log(dd, lf) = dd[g]
      BY <2>1 DEF Placed, Log
    <3>2. \A b \in bs : e[bd[b.time]] = dd[bd[b.time]]
      BY <1>4, <1>5, <3>1 DEF Placed
    <3>3. InHeap(e, bd, bs) = InHeap(dd, bd, bs)
      <4>1. \A z : z \in InHeap(e, bd, bs) <=> z \in InHeap(dd, bd, bs)
        BY <3>2, InHeapMember
      <4> QED
        BY <4>1
    <3> QED
      BY <1>3, <3>1, <3>3 DEF KeptOf
  <2>2. CASE lf = 0
    <3>1. Log(e, lf) = <<>> /\ Log(dd, lf) = <<>>
      BY <2>2 DEF Log
    <3>2. PICK c \in bs : bd[c.time] = g
      BY <2>2 DEF Gapless
    <3>3. InHeap(e, bd, bs) = InHeap(dd, bd, bs) \union Elems(x)
      <4>1. ASSUME NEW z \in InHeap(e, bd, bs)
            PROVE  z \in InHeap(dd, bd, bs) \union Elems(x)
        <5>1. PICK b \in bs : z \in Elems(e[bd[b.time]])
          BY <4>1, InHeapMember
        <5>2. z \in Elems(dd[bd[b.time]]) \union Elems(x)
          BY <1>3, <1>5, <5>1
        <5> QED
          BY <5>2, InHeapMember
      <4>2. ASSUME NEW z \in InHeap(dd, bd, bs)
            PROVE  z \in InHeap(e, bd, bs)
        <5>1. PICK b \in bs : z \in Elems(dd[bd[b.time]])
          BY <4>2, InHeapMember
        <5>2. z \in Elems(e[bd[b.time]])
          BY <1>3, <1>5, <5>1
        <5> QED
          BY <5>2, InHeapMember
      <4>3. ASSUME NEW z \in Elems(x) PROVE z \in InHeap(e, bd, bs)
        BY <1>3, <3>2, <4>3, InHeapMember
      <4> QED
        BY <4>1, <4>2, <4>3
    <3> QED
      BY <1>3, <3>1, <3>3 DEF KeptOf
  <2> QED
    BY <2>1, <2>2
<1> QED
  BY <1>6 DEF Gapless, e

LEMMA GaplessMore ==
  ASSUME NEW dd, NEW bd, NEW bs, NEW lf, NEW g, NEW a \in Nat, NEW n \in Nat,
         NEW r \in Seq(Nat), NEW y \in Seq(Nat), Elems(y) = (a + 1)..(a + n),
         Gapless(dd, bd, bs, lf, g, r, a)
  PROVE  Gapless(dd, bd, bs, lf, g, r \o y, a + n)
<1>1. KeptOf(dd, bd, bs, lf, r \o y) = KeptOf(dd, bd, bs, lf, r) \union (a + 1)..(a + n)
  <2>1. Elems(r \o y) = Elems(r) \union (a + 1)..(a + n)
    BY Concat
  <2> QED
    BY <2>1 DEF KeptOf
<1>2. PICK lo \in 1..(a + 1) : KeptOf(dd, bd, bs, lf, r) = lo..a
  BY DEF Gapless, IsTail
<1>3. lo \in 1..(a + n + 1) /\ (lo..a) \union ((a + 1)..(a + n)) = lo..(a + n)
  BY <1>2
<1>4. IsTail(KeptOf(dd, bd, bs, lf, r \o y), a + n)
  BY <1>1, <1>2, <1>3 DEF IsTail
<1> QED
  BY <1>4 DEF Gapless

\* The first empty file, or the log file once it has been renamed, holds nothing.
LEMMA GaplessOpen ==
  ASSUME NEW dd, NEW bd, NEW bs, NEW g, NEW r, NEW a,
         NEW lf \in Files, dd[lf] = <<>>,
         Gapless(dd, bd, bs, 0, g, r, a)
  PROVE  Gapless(dd, bd, bs, lf, lf, r, a)
<1>1. Log(dd, lf) = Log(dd, 0) /\ lf # 0
  BY RotationAssumption DEF Log, Files
<1> QED
  BY <1>1 DEF Gapless, KeptOf

LEMMA GaplessRename ==
  ASSUME NEW dd, NEW bd, NEW bs, NEW lf, NEW g, NEW r, NEW a, NEW k \in Nat,
         Placed(dd, bd, lf, g), lf # 0, bs \subseteq [time : Stamps, file : Files],
         Gapless(dd, bd, bs, lf, g, r, a),
         \A b \in bs : b.time <= k,
         NEW t \in Stamps, k <= t, k = 0 \/ Second(t) # Second(k)
  PROVE  Gapless(dd, [bd EXCEPT ![t] = lf], bs \union {Backup(t, lf)}, 0, g, r, a)
<1> DEFINE bd2 == [bd EXCEPT ![t] = lf]
           bs2 == bs \union {Backup(t, lf)}
<1>1. bd \in [Stamps -> 0..MaxFiles] /\ g = lf /\ t \in Nat /\ Backup(t, lf).time = t
  BY DEF Placed, Stamps, Backup
<1>2. bd2[t] = lf /\ \A u \in Stamps : u # t => bd2[u] = bd[u]
  BY <1>1
<1>3. ASSUME NEW b \in bs
      PROVE  b.time \in Stamps /\ b.time # t /\ Second(b.time) # Second(t)
  <2>1. b.time \in Stamps /\ b.time \in Nat /\ b.time > 0 /\ b.time <= k
    BY <1>3 DEF Stamps
  <2>2. k # 0
    BY <2>1
  <2>3. /\ Second(b.time) \in Int /\ Second(k) \in Int /\ Second(t) \in Int
        /\ Second(b.time) <= Second(k) /\ Second(k) <= Second(t)
    BY <1>1, <2>1, SecondsGrow
  <2>4. Second(b.time) < Second(t)
    BY <2>2, <2>3
  <2> QED
    BY <2>1, <2>3, <2>4
<1> HIDE DEF bd2
<1>4. \A b \in bs : bd2[b.time] = bd[b.time]
  BY <1>2, <1>3
<1>5. Log(dd, lf) = dd[lf] /\ Elems(Log(dd, 0)) = {}
  BY EmptyBytes DEF Log
<1>6. InHeap(dd, bd2, bs2) = InHeap(dd, bd, bs) \union Elems(dd[lf])
  <2>1. ASSUME NEW z \in InHeap(dd, bd2, bs2)
        PROVE  z \in InHeap(dd, bd, bs) \union Elems(dd[lf])
    <3>1. PICK b \in bs2 : z \in Elems(dd[bd2[b.time]])
      BY <2>1, InHeapMember
    <3> QED
      BY <1>1, <1>2, <1>4, <3>1, InHeapMember
  <2>2. ASSUME NEW z \in InHeap(dd, bd, bs) PROVE z \in InHeap(dd, bd2, bs2)
    <3>1. PICK b \in bs : z \in Elems(dd[bd[b.time]])
      BY <2>2, InHeapMember
    <3>2. b \in bs2 /\ z \in Elems(dd[bd2[b.time]])
      BY <1>4, <3>1
    <3> QED
      BY <3>2, InHeapMember
  <2>3. ASSUME NEW z \in Elems(dd[lf]) PROVE z \in InHeap(dd, bd2, bs2)
    <3>1. Backup(t, lf) \in bs2 /\ z \in Elems(dd[bd2[Backup(t, lf).time]])
      BY <1>1, <1>2, <2>3
    <3> QED
      BY <3>1, InHeapMember
  <2> QED
    BY <2>1, <2>2, <2>3
<1>7. KeptOf(dd, bd2, bs2, 0, r) = KeptOf(dd, bd, bs, lf, r)
  BY <1>5, <1>6 DEF KeptOf
<1>8. \A b \in bs2 : bd2[b.time] # 0
  BY <1>1, <1>2, <1>4 DEF Gapless
<1>9. \A b, c \in bs2 : b # c => Second(b.time) # Second(c.time)
  BY <1>1, <1>3 DEF Gapless
<1>10. \E b \in bs2 : bd2[b.time] = g
  BY <1>1, <1>2
<1> QED
  BY <1>7, <1>8, <1>9, <1>10 DEF Gapless, bd2

\* Without the first bytes of an interval an interval is left.
LEMMA CutLow ==
  ASSUME NEW s \in Seq(Nat), Increasing(s), NEW B, NEW a \in Nat, NEW lo \in 1..(a + 1),
         Elems(s) \union B = lo..a, \A x \in Elems(s), y \in B : x < y
  PROVE  IsTail(B, a)
<1>1. PICK n : n = Len(s) /\ n \in Nat /\ DOMAIN s = 1..n /\ (s # <<>> <=> n > 0)
  BY SeqBasics
<1>2. CASE s = <<>>
  BY <1>2, EmptyBytes DEF IsTail
<1>3. CASE s # <<>>
  <2>1. PICK m : m = s[n]
    OBVIOUS
  <2>2. n \in 1..n /\ m \in Elems(s)
    BY <1>1, <1>3, <2>1 DEF Elems
  <2>3. m \in lo..a
    BY <2>2
  <2>4. \A x \in Elems(s) : x <= m
    <3>1. ASSUME NEW i \in 1..n PROVE s[i] <= m
      <4>1. s[i] \in Elems(s)
        BY <1>1 DEF Elems
      <4>2. s[i] \in lo..a
        BY <4>1
      <4>3. CASE i = n
        BY <2>1, <2>3, <4>3
      <4>4. CASE i < n
        <5>1. s[i] < m
          BY <1>1, <2>1, <2>2, <4>4 DEF Increasing
        <5> QED
          BY <2>3, <4>2, <5>1
      <4> QED
        BY <1>1, <4>3, <4>4
    <3> QED
      BY <1>1, <3>1 DEF Elems
  <2>5. B = (m + 1)..a
    <3>1. ASSUME NEW y \in B PROVE y \in (m + 1)..a
      <4>1. y \in lo..a /\ m < y
        BY <2>2
      <4> QED
        BY <2>3, <4>1
    <3>2. ASSUME NEW y \in (m + 1)..a PROVE y \in B
      <4>1. y \in lo..a /\ ~(y <= m)
        BY <2>3
      <4> QED
        BY <2>4, <4>1
    <3> QED
      BY <3>1, <3>2
  <2> QED
    BY <2>3, <2>5 DEF IsTail
<1> QED
  BY <1>2, <1>3

\* The oldest of several backups is dropped from the heap.
LEMMA GaplessRemove ==
  ASSUME NEW dd, NEW bd, NEW bs, NEW g, NEW r, NEW a \in Nat,
         Placed(dd, bd, 0, g), bs \subseteq [time : Stamps, file : Files],
         Ordered(dd, bd, 0, r), Gapless(dd, bd, bs, 0, g, r, a),
         NEW b \in bs, IsOldest(b, bs), NEW c \in bs, b # c,
         NEW bd2, \A t \in Stamps : t # b.time => bd2[t] = bd[t]
  PROVE  Gapless(dd, bd2, bs \ {b}, 0, g, r, a)
<1> DEFINE bs2 == bs \ {b}
           s == dd[bd[b.time]]
<1>1. /\ bd \in [Stamps -> 0..MaxFiles] /\ dd \in [Files -> Seq(Nat)]
  BY DEF Placed
<1>2. \A d \in bs : d.time \in Linked(bd) /\ d.time \in Stamps /\ d.time \in Nat
                    /\ bd[d.time] \in Files
  <2>1. \A d \in bs : d.time \in Stamps /\ bd[d.time] # 0
    BY DEF Gapless
  <2>2. \A d \in bs : d.time \in Linked(bd)
    BY <2>1 DEF Linked
  <2> QED
    BY <1>1, <2>1, <2>2, LinkedFiles
<1>3. ASSUME NEW d \in bs2 PROVE b.time < d.time /\ bd2[d.time] = bd[d.time]
  <2>1. Second(b.time) <= Second(d.time) /\ Second(b.time) # Second(d.time)
    BY <1>3 DEF IsOldest, Gapless
  <2>2. Second(b.time) \in Int /\ Second(d.time) \in Int
        /\ (d.time <= b.time => Second(d.time) <= Second(b.time))
    BY <1>2, <1>3, SecondsGrow
  <2>3. b.time < d.time
    BY <1>2, <1>3, <2>1, <2>2
  <2> QED
    BY <1>2, <1>3, <2>3
<1>4. s \in Seq(Nat) /\ Increasing(s)
  BY <1>1, <1>2 DEF Ordered
<1>5. PICK lo \in 1..(a + 1) : KeptOf(dd, bd, bs, 0, r) = lo..a
  BY DEF Gapless, IsTail
<1>6. \A d \in bs2 : Before(s, dd[bd[d.time]])
  BY <1>2, <1>3 DEF Ordered
<1>7. Before(s, r) /\ Elems(Log(dd, 0)) = {}
  BY <1>2, EmptyBytes DEF Ordered, Log
<1> HIDE DEF s
<1>8. KeptOf(dd, bd, bs, 0, r) = Elems(s) \union KeptOf(dd, bd2, bs2, 0, r)
  <2>1. InHeap(dd, bd, bs) = Elems(s) \union InHeap(dd, bd2, bs2)
    <3>1. ASSUME NEW z \in InHeap(dd, bd, bs)
          PROVE  z \in Elems(s) \union InHeap(dd, bd2, bs2)
      <4>1. PICK d \in bs : z \in Elems(dd[bd[d.time]])
        BY <3>1, InHeapMember
      <4>2. CASE d = b
        BY <4>1, <4>2 DEF s
      <4>3. CASE d # b
        <5>1. d \in bs2 /\ z \in Elems(dd[bd2[d.time]])
          BY <1>3, <4>1, <4>3
        <5> QED
          BY <5>1, InHeapMember
      <4> QED
        BY <4>2, <4>3
    <3>2. ASSUME NEW z \in Elems(s) PROVE z \in InHeap(dd, bd, bs)
      BY <3>2, InHeapMember DEF s
    <3>3. ASSUME NEW z \in InHeap(dd, bd2, bs2) PROVE z \in InHeap(dd, bd, bs)
      <4>1. PICK d \in bs2 : z \in Elems(dd[bd2[d.time]])
        BY <3>3, InHeapMember
      <4>2. d \in bs /\ z \in Elems(dd[bd[d.time]])
        BY <1>3, <4>1
      <4> QED
        BY <4>2, InHeapMember
    <3> QED
      BY <3>1, <3>2, <3>3
  <2> QED
    BY <2>1 DEF KeptOf
<1>9. ASSUME NEW x \in Elems(s), NEW y \in KeptOf(dd, bd2, bs2, 0, r) PROVE x < y
  <2>1. CASE y \in InHeap(dd, bd2, bs2)
    <3>1. PICK d \in bs2 : y \in Elems(dd[bd2[d.time]])
      BY <2>1, InHeapMember
    <3>2. y \in Elems(dd[bd[d.time]])
      BY <1>3, <3>1
    <3> QED
      BY <1>6, <3>2 DEF Before
  <2>2. CASE y \in Elems(r)
    BY <1>7, <2>2 DEF Before
  <2> QED
    BY <1>7, <1>9, <2>1, <2>2 DEF KeptOf
<1>10. IsTail(KeptOf(dd, bd2, bs2, 0, r), a)
  <2>1. PICK B, q : B = KeptOf(dd, bd2, bs2, 0, r) /\ q = s
    OBVIOUS
  <2>2. Elems(q) \union B = lo..a /\ \A x \in Elems(q), y \in B : x < y
    BY <1>5, <1>8, <1>9, <2>1
  <2>3. q \in Seq(Nat) /\ Increasing(q) /\ lo \in 1..(a + 1)
    BY <1>4, <1>5, <2>1
  <2>4. IsTail(B, a)
    BY <2>2, <2>3, CutLow
  <2> QED
    BY <2>1, <2>4
<1>11. \A d \in bs2 : bd2[d.time] # 0
  BY <1>3 DEF Gapless
<1>12. \A d, e \in bs2 : d # e => Second(d.time) # Second(e.time)
  BY DEF Gapless
<1>13. \E d \in bs2 : bd2[d.time] = g
  <2>1. PICK d \in bs : bd[d.time] = g
    BY DEF Gapless
  <2>2. c.time \in Linked(bd) /\ d.time \in Linked(bd) /\ c.time <= d.time
    BY <1>2, <2>1 DEF Placed
  <2>3. c \in bs2 /\ b.time < c.time
    BY <1>3
  <2>4. d # b
    BY <1>2, <2>2, <2>3
  <2> QED
    BY <1>3, <2>1, <2>4
<1> QED
  BY <1>10, <1>11, <1>12, <1>13 DEF Gapless

-----------------------------------------------------------------------------
(***************************************************************************)
(* The inductive invariant: types.                                         *)
(***************************************************************************)

\* Bytes in files, in the buffer and in a call are some that Write was given.
BytesOK ==
  /\ data \in [Files -> Seq(1..accepted)]
  /\ buf \in Seq(1..accepted) /\ Len(buf) <= PerWriteSize
  /\ p \in Seq(1..accepted)
  /\ p # <<>> => op = "write"
  /\ op = "down" => buf = <<>>

StateOK ==
  /\ {written, dirty, synced, fw} \subseteq Nat
  /\ bufErr \in BOOLEAN /\ force \in BOOLEAN /\ tied \in BOOLEAN
  /\ op \in {"idle", "write", "dirty", "rename", "remove", "open", "down"}
  /\ accepted \in 0..MaxBytes /\ clock \in 0..MaxClock
  /\ fails \in 0..MaxFails /\ crashes \in 0..MaxCrashes
  /\ op = "down" => crashes > 0

(***************************************************************************)
(* The inductive invariant: which file is where.                           *)
(***************************************************************************)

\* The file in use is the one at OutputPath.  When there is none, because a
\* rotation is under way or has failed, it is the newest backup, or it was the
\* newest and is removed.
FilesOK ==
  /\ files \in Files /\ logFile \in 0..files /\ f \in 1..files /\ w = f
  /\ bdir \in [Stamps -> 0..files]
  /\ closed \in SUBSET Files
  /\ \A i \in Files : i > files => data[i] = <<>>
  /\ logFile # 0 => f = logFile
  /\ op \in {"remove", "open"} => logFile = 0
  /\ \A t \in BackupFiles :
       /\ t <= clock /\ bdir[t] # logFile
       /\ bdir[t] = f => \A u \in BackupFiles : u <= t
       /\ \A u \in BackupFiles : bdir[t] = bdir[u] => t = u

(***************************************************************************)
(* The inductive invariant: the heap and the backups in the directory.     *)
(***************************************************************************)

Times == {b.time : b \in backups}

\* Backups that the heap has forgotten.
Orphans == BackupFiles \ Times

HeapOK ==
  /\ backups \in SUBSET [time : Stamps, file : Files] /\ IsFiniteSet(backups)
  /\ \A b \in backups : b.time <= clock /\ b.file \in 1..files /\ b.file # logFile
  /\ IF op = "down"
       THEN /\ backups = {}
            /\ Cardinality(BackupFiles) <= MaxBackups + fails + 1
       ELSE /\ Cardinality(Orphans) <= fails
            /\ Cardinality(backups) <= MaxBackups + (IF op = "remove" THEN 1 ELSE 0)
  /\ op = "remove" => Cardinality(backups) > MaxBackups

(***************************************************************************)
(* The inductive invariant: counters and sizes while nothing has failed.   *)
(***************************************************************************)

CountsOK ==
  fails = 0 /\ op # "down" =>
    /\ logFile = 0 => op \in {"remove", "open"}
    /\ written + (IF op = "write" THEN fw ELSE 0) = Len(data[f])
    /\ synced + dirty = written
    /\ Len(data[f]) + Len(buf) + Len(p) < MaxSize + PerWriteSize + MaxLen
    /\ op \in {"idle", "write"} => written < MaxSize

(***************************************************************************)
(* The inductive invariant: the bytes are in order and none is missing.    *)
(***************************************************************************)

OrderOK == Ordered(data, bdir, logFile, buf \o p)

\* No two backups are of one second, and the file in use is in the heap if it
\* is not at OutputPath.
KeptOK ==
  ~bufErr /\ crashes = 0 /\ ~tied =>
    Gapless(data, bdir, backups, logFile, f, buf \o p, accepted)

RInv == BytesOK /\ StateOK /\ FilesOK /\ HeapOK /\ CountsOK /\ OrderOK /\ KeptOK

-----------------------------------------------------------------------------
(***************************************************************************)
(* What the invariant says of types.                                       *)
(***************************************************************************)

LEMMA Sizes ==
  /\ PerWriteSize \in Nat /\ PerWriteSize > 0 /\ MaxSize \in Nat /\ MaxSize > 0
  /\ MaxBackups \in Nat /\ MaxBackups > 0 /\ MaxLen \in Nat /\ MaxFiles \in Nat
  /\ MaxBytes \in Nat /\ MaxClock \in Nat /\ MaxFails \in Nat /\ MaxCrashes \in Nat
  BY RotationAssumption

LEMMA WiderSeq ==
  ASSUME NEW S, NEW T, S \subseteq T, NEW s \in Seq(S)
  PROVE  s \in Seq(T)
<1>1. /\ Len(s) \in Nat /\ s \in [1..Len(s) -> S]
  OBVIOUS
<1>2. s \in [1..Len(s) -> T]
  BY <1>1
<1> QED
  BY <1>1, <1>2

LEMMA Basics ==
  ASSUME BytesOK, StateOK, FilesOK
  PROVE  /\ Placed(data, bdir, logFile, f)
         /\ data \in [Files -> Seq(Nat)] /\ buf \in Seq(Nat) /\ p \in Seq(Nat)
         /\ buf \o p \in Seq(Nat) /\ Len(buf \o p) = Len(buf) + Len(p)
         /\ accepted \in Nat /\ clock \in Nat /\ fails \in Nat /\ crashes \in Nat
         /\ f \in Files /\ files \in Nat /\ Len(buf) \in Nat /\ Len(p) \in Nat
<1>1. accepted \in Nat /\ clock \in Nat /\ fails \in Nat /\ crashes \in Nat
  BY Sizes DEF StateOK
<1>2. f \in Files /\ files \in Nat /\ logFile \in 0..MaxFiles
  BY Sizes DEF FilesOK, Files
<1>3. 1..accepted \subseteq Nat
  BY <1>1
<1>4. buf \in Seq(Nat) /\ p \in Seq(Nat)
  BY <1>3, WiderSeq DEF BytesOK
<1>5. data \in [Files -> Seq(Nat)]
  <2>1. \A i \in Files : data[i] \in Seq(Nat)
    BY <1>3, WiderSeq DEF BytesOK
  <2> QED
    BY <2>1 DEF BytesOK
<1>6. bdir \in [Stamps -> 0..MaxFiles]
  BY <1>2, Sizes DEF FilesOK, Files
<1>7. Linked(bdir) = BackupFiles
  BY DEF Linked, BackupFiles
<1>8. Placed(data, bdir, logFile, f)
  BY <1>2, <1>5, <1>6, <1>7 DEF FilesOK, Placed
<1> QED
  BY <1>1, <1>2, <1>4, <1>5, <1>8, Concat

-----------------------------------------------------------------------------
(***************************************************************************)
(* The steps of Write and Sync that move bytes to the file.                *)
(***************************************************************************)

\* What such a step does: x goes from the front of the waiting bytes to the file
\* in use, y is left, and without an error nothing of it is dropped.
Flow(x, y) ==
  /\ x \in Seq(1..accepted) /\ y \in Seq(1..accepted) /\ buf \o p = x \o y
  /\ data' = [data EXCEPT ![f] = @ \o x]
  /\ buf' \in Seq(1..accepted) /\ Len(buf') <= PerWriteSize
  /\ p' \in Seq(1..accepted) /\ (p' # <<>> => op' = "write")
  /\ Elems(buf' \o p') \subseteq Elems(y) /\ (Increasing(y) => Increasing(buf' \o p'))
  /\ bufErr' \in BOOLEAN /\ (bufErr => bufErr') /\ (~bufErr' => buf' \o p' = y)
  /\ fails' \in 0..MaxFails /\ fails <= fails'
  /\ {op, op'} \subseteq {"idle", "write", "dirty"}
  /\ UNCHANGED <<logFile, bdir, files, closed, f, w, backups, accepted, clock,
                 crashes, tied>>

LEMMA FlowBytes ==
  ASSUME BytesOK, StateOK, FilesOK, NEW x, NEW y, Flow(x, y)
  PROVE  BytesOK' /\ FilesOK' /\ Len(data'[f]) = Len(data[f]) + Len(x)
<1>1. f \in Files /\ data \in [Files -> Seq(1..accepted)] /\ x \in Seq(1..accepted)
  BY Basics DEF BytesOK, Flow
<1>2. /\ data[f] \o x \in Seq(1..accepted)
      /\ Len(data[f] \o x) = Len(data[f]) + Len(x)
  BY <1>1, ConcatProperties
<1>3. /\ data' \in [Files -> Seq(1..accepted)] /\ data'[f] = data[f] \o x
      /\ \A i \in Files : i # f => data'[i] = data[i]
  BY <1>1, <1>2 DEF Flow
<1>4. BytesOK'
  BY <1>3 DEF Flow, BytesOK
<1>5. FilesOK'
  <2>1. \A i \in Files : i > files' => data'[i] = <<>>
    <3>1. ASSUME NEW i \in Files, i > files PROVE data[i] = <<>> /\ i # f
      BY <3>1, Basics DEF FilesOK
    <3> QED
      BY <1>3, <3>1 DEF Flow
  <2>2. op' \notin {"remove", "open"}
    BY DEF Flow
  <2>3. BackupFiles' = BackupFiles
    BY DEF Flow, BackupFiles
  <2> QED
    BY <2>1, <2>2, <2>3 DEF Flow, FilesOK
<1> QED
  BY <1>2, <1>3, <1>4, <1>5

LEMMA FlowHeap ==
  ASSUME StateOK, FilesOK, HeapOK, NEW x, NEW y, Flow(x, y)
  PROVE  HeapOK'
<1>1. BackupFiles' = BackupFiles /\ Times' = Times /\ Orphans' = Orphans
  BY DEF Flow, BackupFiles, Times, Orphans
<1>2. op # "down" /\ op' \notin {"down", "remove"} /\ op # "remove"
  BY DEF Flow
<1>3. fails \in Nat /\ fails' \in Nat
  BY Sizes DEF Flow, StateOK
<1>4. Cardinality(Orphans) \in Nat
  <2>1. IsFiniteSet(Orphans)
    <3>1. IsFiniteSet(1..MaxClock)
      BY Sizes, FS_Interval
    <3> QED
      BY <3>1, FS_Subset DEF Orphans, BackupFiles, Stamps
  <2> QED
    BY <2>1, FS_CardinalityType
<1>5. Cardinality(Orphans)' <= fails'
  BY <1>1, <1>2, <1>3, <1>4 DEF HeapOK, Flow
<1> QED
  BY <1>1, <1>2, <1>5 DEF HeapOK, Flow

LEMMA FlowOrder ==
  ASSUME BytesOK, StateOK, FilesOK, OrderOK, KeptOK, NEW x, NEW y, Flow(x, y),
         backups \subseteq [time : Stamps, file : Files]
  PROVE  OrderOK' /\ KeptOK'
<1>1. Placed(data, bdir, logFile, f) /\ 1..accepted \subseteq Nat
  BY Basics
<1>2. x \in Seq(Nat) /\ y \in Seq(Nat) /\ buf' \in Seq(Nat) /\ p' \in Seq(Nat)
  BY <1>1, WiderSeq DEF Flow
<1>3. PICK r : r = buf' \o p'
  OBVIOUS
<1>4. r \in Seq(Nat) /\ Elems(r) \subseteq Elems(y) /\ (Increasing(y) => Increasing(r))
  BY <1>2, <1>3, Concat DEF Flow
<1>5. OrderOK'
  <2>1. Ordered(data, bdir, logFile, x \o y)
    BY DEF OrderOK, Flow
  <2>2. Ordered([data EXCEPT ![f] = @ \o x], bdir, logFile, r)
    BY <1>1, <1>2, <1>4, <2>1, OrderedFlow
  <2> QED
    BY <1>3, <2>2 DEF OrderOK, Flow
<1>6. KeptOK'
  <2>1. SUFFICES ASSUME ~bufErr', crashes' = 0, ~tied'
                 PROVE  Gapless(data', bdir', backups', logFile', f', buf' \o p', accepted')
    BY DEF KeptOK
  <2>2. buf' \o p' = y /\ ~bufErr /\ crashes = 0 /\ ~tied
    BY <2>1 DEF Flow
  <2>3. Gapless(data, bdir, backups, logFile, f, x \o y, accepted)
    BY <2>2 DEF KeptOK, Flow
  <2>4. Gapless([data EXCEPT ![f] = @ \o x], bdir, backups, logFile, f, y, accepted)
    BY <1>1, <1>2, <2>3, GaplessFlow
  <2> QED
    BY <2>2, <2>4 DEF Flow
<1> QED
  BY <1>5, <1>6

LEMMA FlowKeeps ==
  ASSUME RInv, NEW x, NEW y, Flow(x, y)
  PROVE  /\ BytesOK' /\ FilesOK' /\ HeapOK' /\ OrderOK' /\ KeptOK'
         /\ Len(data'[f]) = Len(data[f]) + Len(x)
<1>1. backups \subseteq [time : Stamps, file : Files]
  BY DEF RInv, HeapOK
<1> QED
  BY <1>1, FlowBytes, FlowHeap, FlowOrder DEF RInv

LEMMA FileWrites ==
  ASSUME StateOK, FilesOK, NEW s \in Seq(1..accepted), NEW m, FileWrite(s, m)
  PROVE  /\ m \in 0..Len(s) /\ data' = [data EXCEPT ![f] = @ \o SubSeq(s, 1, m)]
         /\ SubSeq(s, 1, m) \in Seq(1..accepted) /\ Len(SubSeq(s, 1, m)) = m
         /\ bufErr' \in BOOLEAN /\ fails' \in 0..MaxFails /\ fails <= fails' /\ m \in Nat
<1>1. m \in 0..Len(s) /\ bufErr' \in BOOLEAN /\ fails' \in 0..MaxFails /\ fails <= fails'
  BY Sizes DEF FileWrite, StateOK
<1>2. data' = [data EXCEPT ![f] = @ \o SubSeq(s, 1, m)]
  BY DEF FileWrite, FilesOK
<1>3. m \in Nat
  BY <1>1
<1> QED
  BY <1>1, <1>2, <1>3, SplitAt

\* ... without dropping any, also when it fails.
Moves == \E x, y : Flow(x, y) /\ buf' \o p' = y

LEMMA WriteDirectlyKeeps ==
  ASSUME RInv, WriteDirectly
  PROVE  RInv' /\ Moves
<1>1. PICK m \in 0..Len(p) : FileWrite(p, m) /\ p' = DropFirst(p, m) /\ fw' = fw + m
  BY DEF WriteDirectly
<1>2. BytesOK /\ StateOK /\ FilesOK /\ p \in Seq(1..accepted) /\ buf = <<>> /\ buf' = buf
      /\ op = "write" /\ op' = op /\ ~bufErr
  BY DEF RInv, BytesOK, WriteDirectly, MayBypass, MustFlush
<1>3. PICK x, y : x = SubSeq(p, 1, m) /\ y = DropFirst(p, m)
  OBVIOUS
<1>4. /\ x \in Seq(1..accepted) /\ Len(x) = m
      /\ y \in Seq(1..accepted) /\ Len(y) = Len(p) - m /\ p = x \o y
  BY <1>2, <1>3, SplitAt
<1>5. buf \o p = x \o y /\ buf' \o p' = y
  BY <1>1, <1>2, <1>3, <1>4
<1>6. /\ data' = [data EXCEPT ![f] = @ \o x] /\ bufErr' \in BOOLEAN
      /\ fails' \in 0..MaxFails /\ fails <= fails' /\ m \in Nat
  BY <1>1, <1>2, <1>3, FileWrites
<1>7. Flow(x, y)
  <2>1. UNCHANGED <<logFile, bdir, files, closed, f, w, backups, accepted, clock, crashes, tied>>
    BY DEF WriteDirectly
  <2>2. buf' \in Seq(1..accepted) /\ Len(buf') <= PerWriteSize
    BY <1>2 DEF BytesOK
  <2> QED
    BY <1>1, <1>2, <1>3, <1>4, <1>5, <1>6, <2>1, <2>2 DEF Flow
<1>8. /\ BytesOK' /\ FilesOK' /\ HeapOK' /\ OrderOK' /\ KeptOK'
      /\ Len(data'[f]) = Len(data[f]) + Len(x)
  BY <1>7, FlowKeeps
<1>9. StateOK'
  BY <1>1, <1>2, <1>6, SMTT(30) DEF StateOK, WriteDirectly, counts
<1>10. CountsOK'
  <2>1. SUFFICES ASSUME fails' = 0
                 PROVE  CountsOK'
    BY DEF CountsOK
  <2>2. fails = 0 /\ CountsOK
    BY <1>2, <1>6, <2>1, Sizes DEF RInv, StateOK
  <2>3. /\ logFile' # 0 /\ written + fw = Len(data[f]) /\ synced + dirty = written
        /\ Len(data[f]) + Len(buf) + Len(p) < MaxSize + PerWriteSize + MaxLen
        /\ written < MaxSize
    BY <1>2, <2>2 DEF CountsOK, WriteDirectly
  <2>4. UNCHANGED <<written, dirty, synced, f>>
    BY DEF WriteDirectly, counts
  <2>5. f \in Files /\ data[f] \in Seq(Nat) /\ Len(p) \in Nat /\ Len(buf) \in Nat
    BY <1>2, Basics
  <2>6. Len(data[f]) \in Nat /\ written \in Nat /\ fw \in Nat
    BY <1>2, <2>5 DEF StateOK
  <2>7. Len(data'[f']) = Len(data[f]) + m /\ Len(p') = Len(p) - m
    BY <1>1, <1>3, <1>4, <1>8, <2>4
  <2>8. written' + fw' = Len(data'[f'])
    BY <1>1, <1>6, <2>3, <2>4, <2>6, <2>7, SMTT(30)
  <2>9. Len(data'[f']) + Len(buf') + Len(p') < MaxSize + PerWriteSize + MaxLen
    BY <1>2, <1>6, <2>3, <2>5, <2>6, <2>7, Sizes, SMTT(30)
  <2> QED
    BY <1>2, <2>3, <2>4, <2>8, <2>9 DEF CountsOK
<1>11. Moves
  BY <1>5, <1>7 DEF Moves
<1> QED
  BY <1>8, <1>9, <1>10, <1>11 DEF RInv

LEMMA FillAndFlushKeeps ==
  ASSUME RInv, FillAndFlush
  PROVE  RInv' /\ Moves
<1>1. /\ BytesOK /\ StateOK /\ FilesOK /\ buf \in Seq(1..accepted) /\ p \in Seq(1..accepted)
      /\ Len(buf) <= PerWriteSize /\ op = "write" /\ op' = op /\ ~bufErr /\ Len(p) > Avail
  BY DEF RInv, BytesOK, FillAndFlush, MustFlush
<1>2. Len(buf) \in Nat /\ Len(p) \in Nat /\ Avail \in 0..Len(p)
  BY <1>1, Basics, Sizes DEF Avail
<1>3. PICK k, c, d : k = Avail /\ c = SubSeq(p, 1, k) /\ d = DropFirst(p, k)
  OBVIOUS
<1>4. /\ c \in Seq(1..accepted) /\ Len(c) = k /\ d \in Seq(1..accepted)
      /\ Len(d) = Len(p) - k /\ p = c \o d
  BY <1>1, <1>2, <1>3, SplitAt
<1>5. PICK s : s = buf \o c
  OBVIOUS
<1>6. s \in Seq(1..accepted) /\ Len(s) = PerWriteSize /\ buf \o p = s \o d
  <2>1. s \in Seq(1..accepted) /\ Len(s) = Len(buf) + Len(c)
    BY <1>1, <1>4, <1>5, ConcatProperties
  <2>2. Len(s) = PerWriteSize
    BY <1>2, <1>3, <1>4, <2>1, Sizes DEF Avail
  <2>3. (buf \o c) \o d = buf \o (c \o d)
    BY <1>1, <1>4, ConcatAssociative, SMTT(60)
  <2> QED
    BY <1>4, <1>5, <2>1, <2>2, <2>3
<1>7. PICK m \in 0..Len(s) :
        FileWrite(s, m) /\ buf' = DropFirst(s, m) /\ fw' = fw + m
  BY <1>1, <1>3, <1>5 DEF FillAndFlush, Unflushed
<1>8. PICK x, z, y : x = SubSeq(s, 1, m) /\ z = DropFirst(s, m) /\ y = z \o d
  OBVIOUS
<1>9. /\ x \in Seq(1..accepted) /\ Len(x) = m
      /\ z \in Seq(1..accepted) /\ Len(z) = Len(s) - m /\ s = x \o z
  <2>1. s \in Seq(1..accepted)
    BY <1>6
  <2>2. /\ SubSeq(s, 1, m) \in Seq(1..accepted) /\ Len(SubSeq(s, 1, m)) = m
        /\ DropFirst(s, m) \in Seq(1..accepted) /\ Len(DropFirst(s, m)) = Len(s) - m
        /\ SubSeq(s, 1, m) \o DropFirst(s, m) = s
    BY <2>1, SplitAt
  <2> QED
    BY <1>8, <2>2
<1>10. p' = d /\ buf' = z
  BY <1>3, <1>7, <1>8 DEF FillAndFlush
<1>11. y \in Seq(1..accepted) /\ buf' \o p' = y /\ buf \o p = x \o y
  <2>1. y \in Seq(1..accepted)
    BY <1>4, <1>8, <1>9, ConcatProperties
  <2>2. (x \o z) \o d = x \o (z \o d)
    <3>1. d \in Seq(1..accepted)
      BY <1>4
    <3>2. x \in Seq(1..accepted) /\ z \in Seq(1..accepted)
      BY <1>9
    <3> QED
      BY <3>1, <3>2, ConcatAssociative, SMTT(30)
  <2> QED
    BY <1>6, <1>8, <1>9, <1>10, <2>1, <2>2
<1>12. /\ data' = [data EXCEPT ![f] = @ \o x] /\ bufErr' \in BOOLEAN
       /\ fails' \in 0..MaxFails /\ fails <= fails' /\ m \in Nat
  BY <1>1, <1>6, <1>7, <1>8, FileWrites
<1>13. Len(buf') = PerWriteSize - m /\ Len(buf') <= PerWriteSize /\ Len(p') = Len(p) - k
  BY <1>4, <1>6, <1>9, <1>10, <1>12, Sizes
<1>14. Flow(x, y)
  <2>1. UNCHANGED <<logFile, bdir, files, closed, f, w, backups, accepted, clock, crashes, tied>>
    BY DEF FillAndFlush
  <2> QED
    BY <1>1, <1>4, <1>9, <1>10, <1>11, <1>12, <1>13, <2>1 DEF Flow
<1>15. /\ BytesOK' /\ FilesOK' /\ HeapOK' /\ OrderOK' /\ KeptOK'
       /\ Len(data'[f]) = Len(data[f]) + Len(x)
  BY <1>14, FlowKeeps
<1>16. StateOK'
  <2>1. fw \in Nat /\ fw' = fw + m
    BY <1>1, <1>7 DEF StateOK
  <2>2. fw' \in Nat /\ bufErr' \in BOOLEAN /\ fails' \in 0..MaxFails
    BY <1>12, <2>1
  <2>3. UNCHANGED <<written, dirty, synced, force, tied, op, accepted, clock, crashes>>
    BY <1>1 DEF FillAndFlush, counts
  <2> QED
    BY <1>1, <2>2, <2>3 DEF StateOK
<1>17. CountsOK'
  <2>1. SUFFICES ASSUME fails' = 0
                 PROVE  CountsOK'
    BY DEF CountsOK
  <2>2. fails = 0 /\ CountsOK
    BY <1>1, <1>12, <2>1, Sizes DEF RInv, StateOK
  <2>3. /\ logFile' # 0 /\ written + fw = Len(data[f]) /\ synced + dirty = written
        /\ Len(data[f]) + Len(buf) + Len(p) < MaxSize + PerWriteSize + MaxLen
        /\ written < MaxSize
    BY <1>1, <2>2 DEF CountsOK, FillAndFlush
  <2>4. UNCHANGED <<written, dirty, synced, f>>
    BY DEF FillAndFlush, counts
  <2>5. f \in Files /\ data[f] \in Seq(Nat)
    BY <1>1, Basics
  <2>6. Len(data[f]) \in Nat /\ written \in Nat /\ fw \in Nat
    BY <1>1, <2>5 DEF StateOK
  <2>7. Len(data'[f']) = Len(data[f]) + m
    BY <1>9, <1>15, <2>4
  <2>8. written' + fw' = Len(data'[f'])
    <3>1. fw' = fw + m /\ m \in Nat
      BY <1>7, <1>12
    <3> QED
      BY <3>1, <2>3, <2>4, <2>6, <2>7
  <2>9. Len(data'[f']) + Len(buf') + Len(p') < MaxSize + PerWriteSize + MaxLen
    <3>1. PICK n, b, q : n = Len(data[f]) /\ b = Len(buf) /\ q = Len(p)
      OBVIOUS
    <3>2. n \in Nat /\ b \in Nat /\ q \in Nat /\ m \in Nat /\ k = PerWriteSize - b
      BY <1>2, <1>3, <1>12, <2>6, <3>1 DEF Avail
    <3>3. Len(data'[f']) = n + m /\ Len(buf') = PerWriteSize - m /\ Len(p') = q - k
      BY <1>13, <2>7, <3>1
    <3>4. n + b + q < MaxSize + PerWriteSize + MaxLen
      BY <2>3, <3>1
    <3>5. (n + m) + (PerWriteSize - m) + (q - k) = n + b + q
      BY <3>2, Sizes
    <3> QED
      BY <3>3, <3>4, <3>5
  <2> QED
    BY <1>1, <2>3, <2>4, <2>8, <2>9 DEF CountsOK
<1>18. Moves
  BY <1>11, <1>14 DEF Moves
<1> QED
  BY <1>15, <1>16, <1>17, <1>18 DEF RInv

LEMMA EndOfWriteKeeps ==
  ASSUME RInv, EndOfWrite
  PROVE  RInv'
<1>1. /\ BytesOK /\ StateOK /\ FilesOK /\ buf \in Seq(1..accepted) /\ p \in Seq(1..accepted)
      /\ Len(buf) <= PerWriteSize /\ op = "write" /\ (bufErr \/ Len(p) <= Avail)
      /\ p' = <<>> /\ bufErr' = bufErr /\ fails' = fails /\ data' = data
      /\ written' = written + fw /\ dirty' = dirty + fw /\ fw' = fw /\ synced' = synced
      /\ op' = (IF fw = 0 THEN "idle" ELSE "dirty")
  BY Basics, Sizes DEF RInv, BytesOK, EndOfWrite, MustFlush, envVars, fsVars, Avail
<1>2. Len(buf) \in Nat /\ Len(p) \in Nat /\ data[f] \in Seq(Nat) /\ f \in Files
  BY <1>1, Basics
<1>3. PICK x, y : x = <<>> /\ y = buf \o p
  OBVIOUS
<1>4. /\ x \in Seq(1..accepted) /\ y \in Seq(1..accepted) /\ buf \o p = x \o y
      /\ Len(x) = 0
  <2>1. y \in Seq(1..accepted) /\ x \in Seq(1..accepted) /\ Len(x) = 0
    BY <1>1, <1>3, ConcatProperties
  <2>2. x \o y = y
    BY <1>3, <2>1, ConcatEmptySeq
  <2> QED
    BY <1>3, <2>1, <2>2
<1>5. data' = [data EXCEPT ![f] = @ \o x]
  <2>1. data[f] \o <<>> = data[f]
    BY <1>2, ConcatEmptySeq
  <2> QED
    BY <1>1, <1>2, <1>3, <2>1 DEF BytesOK
<1>6. buf' \in Seq(1..accepted) /\ buf' \o p' = buf'
  <2>1. buf' \in Seq(1..accepted)
    BY <1>1, <1>3, <1>4 DEF EndOfWrite
  <2> QED
    BY <1>1, <2>1, ConcatEmptySeq
<1>7. /\ Elems(buf' \o p') \subseteq Elems(y)
      /\ Increasing(y) => Increasing(buf' \o p')
      /\ ~bufErr => buf' \o p' = y
      /\ Len(buf') <= PerWriteSize /\ Len(buf') <= Len(buf) + Len(p)
  <2>1. /\ Elems(y) = Elems(buf) \union Elems(p) /\ (Increasing(y) => Increasing(buf))
        /\ Len(y) = Len(buf) + Len(p)
    BY <1>1, <1>3, Basics, Concat
  <2>2. CASE bufErr
    BY <1>1, <1>2, <1>6, <2>1, <2>2 DEF EndOfWrite
  <2>3. CASE ~bufErr
    <3>1. buf' = y
      BY <1>3, <2>3 DEF EndOfWrite
    <3>2. Len(y) <= PerWriteSize
      BY <1>1, <1>2, <2>1, <2>3, Sizes DEF Avail
    <3> QED
      BY <1>2, <1>6, <2>1, <2>3, <3>1, <3>2
  <2> QED
    BY <2>2, <2>3
<1>8. Flow(x, y)
  <2>1. UNCHANGED <<logFile, bdir, files, closed, f, w, backups, accepted, clock, crashes, tied>>
    BY DEF EndOfWrite, fsVars, envVars
  <2>2. fails' \in 0..MaxFails /\ fails <= fails' /\ bufErr' \in BOOLEAN
    BY <1>1, Sizes DEF StateOK
  <2>3. {op, op'} \subseteq {"idle", "write", "dirty"} /\ p' \in Seq(1..accepted)
    BY <1>1
  <2> QED
    BY <1>1, <1>4, <1>5, <1>6, <1>7, <2>1, <2>2, <2>3 DEF Flow
<1>9. BytesOK' /\ FilesOK' /\ HeapOK' /\ OrderOK' /\ KeptOK'
  BY <1>8, FlowKeeps
<1>10. StateOK'
  BY <1>1 DEF StateOK, EndOfWrite, envVars
<1>11. CountsOK'
  <2>1. SUFFICES ASSUME fails' = 0
                 PROVE  CountsOK'
    BY DEF CountsOK
  <2>2. /\ logFile' # 0 /\ written + fw = Len(data[f]) /\ synced + dirty = written
        /\ Len(data[f]) + Len(buf) + Len(p) < MaxSize + PerWriteSize + MaxLen
        /\ written < MaxSize /\ f' = f
    BY <1>1, <2>1 DEF RInv, CountsOK, EndOfWrite, fsVars
  <2>3. {written, dirty, synced, fw} \subseteq Nat /\ Len(data[f]) \in Nat
    BY <1>1, <1>2 DEF StateOK
  <2>4. /\ written' = Len(data'[f']) /\ synced' + dirty' = written'
        /\ fw = 0 => written' < MaxSize
    BY <1>1, <2>2, <2>3
  <2>5. data'[f'] = data[f]
    BY <1>1, <2>2
  <2>6. Len(data'[f']) + Len(buf') + Len(p') < MaxSize + PerWriteSize + MaxLen
    <3>1. Len(p') = 0 /\ Len(buf') \in Nat
      BY <1>1, <1>6
    <3> QED
      BY <1>2, <1>7, <2>2, <2>3, <2>5, <3>1, Sizes, SMTT(30)
  <2>7. op' \in {"idle", "dirty"} /\ (op' = "idle" => fw = 0) /\ written' + 0 = written'
    BY <1>1, <2>3
  <2> QED
    BY <2>2, <2>4, <2>6, <2>7 DEF CountsOK
<1> QED
  BY <1>9, <1>10, <1>11 DEF RInv

LEMMA SyncKeeps ==
  ASSUME RInv, Sync
  PROVE  RInv' /\ Moves
<1>1. /\ BytesOK /\ StateOK /\ FilesOK /\ buf \in Seq(1..accepted)
      /\ Len(buf) <= PerWriteSize /\ op = "idle" /\ op' = "dirty" /\ p = <<>> /\ p' = p
  BY DEF RInv, BytesOK, Sync
<1>2. PICK m \in 0..Len(buf) :
        /\ IF bufErr \/ buf = <<>>
             THEN m = 0 /\ UNCHANGED <<data, bufErr, fails>>
             ELSE FileWrite(buf, m)
        /\ buf' = DropFirst(buf, m) /\ fw' = m
        /\ dirty' = dirty + m /\ written' = written + m
  BY DEF Sync, Unflushed
<1>3. PICK x, y : x = SubSeq(buf, 1, m) /\ y = DropFirst(buf, m)
  OBVIOUS
<1>4. /\ x \in Seq(1..accepted) /\ Len(x) = m
      /\ y \in Seq(1..accepted) /\ Len(y) = Len(buf) - m /\ buf = x \o y
  BY <1>1, <1>3, SplitAt
<1>5. buf \o p = x \o y /\ buf' \o p' = y /\ buf' = y
  BY <1>1, <1>2, <1>3, <1>4, ConcatEmptySeq
<1>6. f \in Files /\ data[f] \in Seq(Nat) /\ Len(buf) \in Nat /\ m \in Nat
  BY <1>1, Basics
<1>7. /\ data' = [data EXCEPT ![f] = @ \o x] /\ bufErr' \in BOOLEAN /\ (bufErr => bufErr')
      /\ fails' \in 0..MaxFails /\ fails <= fails'
  <2>1. CASE bufErr \/ buf = <<>>
    <3>1. x = <<>>
      BY <1>2, <1>4, <2>1, SeqBasics
    <3>2. data[f] \o <<>> = data[f]
      BY <1>6, ConcatEmptySeq
    <3>3. [data EXCEPT ![f] = @ \o <<>>] = data
      BY <1>1, <3>2 DEF BytesOK
    <3> QED
      BY <1>1, <1>2, <2>1, <3>1, <3>3, Sizes DEF StateOK
  <2>2. CASE ~(bufErr \/ buf = <<>>)
    BY <1>1, <1>2, <1>3, <2>2, FileWrites
  <2> QED
    BY <2>1, <2>2
<1>8. Flow(x, y)
  <2>1. UNCHANGED <<logFile, bdir, files, closed, f, w, backups, accepted, clock, crashes, tied>>
    BY DEF Sync
  <2>2. Len(buf') <= PerWriteSize
    BY <1>1, <1>4, <1>5, <1>6, Sizes
  <2>3. p' \in Seq(1..accepted)
    BY <1>1
  <2> QED
    BY <1>1, <1>4, <1>5, <1>7, <2>1, <2>2, <2>3 DEF Flow
<1>9. /\ BytesOK' /\ FilesOK' /\ HeapOK' /\ OrderOK' /\ KeptOK'
      /\ Len(data'[f]) = Len(data[f]) + Len(x)
  BY <1>8, FlowKeeps
<1>10. {written, dirty, synced} \subseteq Nat /\ synced' = synced /\ f' = f
       /\ logFile' = logFile /\ Len(data[f]) \in Nat
  BY <1>1, <1>6, SMTT(30) DEF StateOK, Sync
<1>11. StateOK'
  <2>1. /\ {written', dirty', synced', fw'} \subseteq Nat /\ bufErr' \in BOOLEAN
        /\ fails' \in 0..MaxFails /\ force' \in BOOLEAN
    BY <1>2, <1>6, <1>7, <1>10, SMTT(30) DEF Sync
  <2>2. UNCHANGED <<tied, accepted, clock, crashes>>
    BY DEF Sync
  <2> QED
    BY <1>1, <2>1, <2>2 DEF StateOK
<1>12. CountsOK'
  <2>1. SUFFICES ASSUME fails' = 0
                 PROVE  CountsOK'
    BY DEF CountsOK
  <2>2. fails = 0 /\ CountsOK
    BY <1>1, <1>7, <2>1, Sizes DEF RInv, StateOK
  <2>3. /\ logFile' # 0 /\ written + 0 = Len(data[f]) /\ synced + dirty = written
        /\ Len(data[f]) + Len(buf) + Len(p) < MaxSize + PerWriteSize + MaxLen
    BY <1>1, <1>10, <2>2 DEF CountsOK
  <2>4. Len(data'[f']) = Len(data[f]) + m /\ Len(buf') = Len(buf) - m /\ p' = p
    BY <1>1, <1>4, <1>5, <1>9, <1>10
  <2>5. written' + 0 = Len(data'[f']) /\ synced' + dirty' = written'
    BY <1>2, <1>6, <1>10, <2>3, <2>4, SMTT(30)
  <2>6. Len(data'[f']) + Len(buf') + Len(p') < MaxSize + PerWriteSize + MaxLen
    <3>1. Len(p) = 0
      BY <1>1
    <3> QED
      BY <1>6, <1>10, <2>3, <2>4, <3>1, Sizes
  <2> QED
    BY <1>1, <2>3, <2>5, <2>6 DEF CountsOK
<1>13. Moves
  BY <1>5, <1>8 DEF Moves
<1> QED
  BY <1>9, <1>11, <1>12, <1>13 DEF RInv

-----------------------------------------------------------------------------
(***************************************************************************)
(* The other steps of Write and Sync.                                      *)
(***************************************************************************)

\* A step that touches no file, name, byte or backup.
LEMMA StillKeeps ==
  ASSUME BytesOK, StateOK, FilesOK, HeapOK, OrderOK, KeptOK,
         UNCHANGED <<data, logFile, bdir, files, f, w, buf, bufErr, p, backups,
                     accepted, clock, crashes, tied>>,
         closed' \in SUBSET Files, fails' \in Nat, fails <= fails',
         \/ op' = op
         \/ op \in {"dirty", "rename", "open"} /\ op' \in {"idle", "rename"}
  PROVE  BytesOK' /\ FilesOK' /\ HeapOK' /\ OrderOK' /\ KeptOK'
<1>1. BackupFiles' = BackupFiles /\ Times' = Times /\ Orphans' = Orphans
  BY DEF BackupFiles, Times, Orphans
<1>2. BytesOK'
  BY DEF BytesOK
<1>3. FilesOK'
  BY <1>1 DEF FilesOK
<1>4. HeapOK'
  <2>1. fails \in Nat /\ Cardinality(Orphans) \in Nat /\ Cardinality(BackupFiles) \in Nat
    <3>1. IsFiniteSet(Stamps)
      BY Sizes, FS_Interval DEF Stamps
    <3>2. IsFiniteSet(Orphans) /\ IsFiniteSet(BackupFiles)
      BY <3>1, FS_Subset DEF Orphans, BackupFiles
    <3> QED
      BY <3>2, FS_CardinalityType, Sizes DEF StateOK
  <2>2. CASE op' = "down"
    <3>1. op = "down"
      BY <2>2
    <3>2. Cardinality(BackupFiles) <= MaxBackups + fails'  + 1
      BY <2>1, <3>1, Sizes DEF HeapOK
    <3>3. Cardinality(BackupFiles)' <= (MaxBackups + fails + 1)'
      BY <1>1, <3>2
    <3> QED
      BY <2>2, <3>1, <3>3 DEF HeapOK
  <2>3. CASE op' # "down"
    <3>1. op # "down"
      BY <2>3
    <3>2. Cardinality(Orphans) <= fails'
      BY <2>1, <3>1 DEF HeapOK
    <3>3. Cardinality(Orphans)' <= fails'
      BY <1>1, <3>2
    <3>4. op' = "remove" <=> op = "remove"
      OBVIOUS
    <3> QED
      BY <2>3, <3>1, <3>3, <3>4 DEF HeapOK
  <2> QED
    BY <2>2, <2>3
<1>5. OrderOK' /\ KeptOK'
  BY DEF OrderOK, KeptOK
<1> QED
  BY <1>2, <1>3, <1>4, <1>5

LEMMA FlushDirtyKeeps ==
  ASSUME RInv, FlushDirty
  PROVE  RInv'
<1>1. /\ BytesOK /\ StateOK /\ FilesOK /\ HeapOK /\ OrderOK /\ KeptOK /\ op = "dirty"
      /\ op' = (IF MustRotate THEN "rename" ELSE "idle")
      /\ UNCHANGED <<written, fw, force, fails>>
      /\ UNCHANGED <<data, logFile, bdir, files, f, w, buf, bufErr, p, backups,
                     accepted, clock, crashes, tied>>
      /\ closed' = closed
  BY DEF RInv, FlushDirty, fsVars, bufVars, callVars, envVars
<1>2. BytesOK' /\ FilesOK' /\ HeapOK' /\ OrderOK' /\ KeptOK'
  <2>1. closed' \in SUBSET Files /\ fails' \in Nat /\ fails <= fails'
    BY <1>1, Sizes DEF FilesOK, StateOK
  <2>2. op' \in {"idle", "rename"}
    BY <1>1
  <2> QED
    BY <1>1, <2>1, <2>2, StillKeeps
<1>3. {written, dirty, synced, fw} \subseteq Nat
  BY <1>1 DEF StateOK
<1>4. /\ {written', dirty', synced', fw'} \subseteq Nat
      /\ synced' + dirty' = synced + dirty
  BY <1>1, <1>3 DEF FlushDirty
<1>5. StateOK'
  BY <1>1, <1>4 DEF StateOK
<1>6. CountsOK'
  <2>1. /\ op' # "write" /\ op' \notin {"remove", "open", "down"}
        /\ op' = "idle" => written < MaxSize
    BY <1>1, <1>3, Sizes DEF MustRotate
  <2> QED
    BY <1>1, <1>3, <1>4, <2>1 DEF RInv, CountsOK
<1> QED
  BY <1>2, <1>5, <1>6 DEF RInv

LEMMA WriteKeeps ==
  ASSUME RInv, NEW n \in 1..MaxLen, Write(n)
  PROVE  RInv'
<1>1. /\ BytesOK /\ StateOK /\ FilesOK /\ HeapOK /\ OrderOK /\ KeptOK
      /\ op = "idle" /\ op' = "write" /\ p = <<>>
      /\ accepted' = accepted + n /\ accepted + n <= MaxBytes
      /\ p' = Bytes(accepted + 1, accepted + n) /\ fw' = 0 /\ force' = FALSE
      /\ UNCHANGED <<data, logFile, bdir, files, closed, f, w, buf, bufErr, backups,
                     written, dirty, synced, clock, fails, crashes, tied>>
  BY DEF RInv, BytesOK, Write, fsVars, bufVars, counts
<1>2. accepted \in Nat /\ n \in Nat /\ accepted' \in 0..MaxBytes
      /\ 1..accepted \subseteq 1..accepted' /\ (accepted + 1)..(accepted + n) \subseteq 1..accepted'
  BY <1>1, Basics, Sizes
<1>3. PICK y : y = Bytes(accepted + 1, accepted + n)
  OBVIOUS
<1>4. /\ y \in Seq((accepted + 1)..(accepted + n)) /\ Len(y) = n /\ Increasing(y)
      /\ Elems(y) = (accepted + 1)..(accepted + n)
  BY <1>2, <1>3, NewBytes
<1>5. y \in Seq(1..accepted') /\ y \in Seq(Nat) /\ p' = y
  <2>1. 1..accepted' \subseteq Nat
    OBVIOUS
  <2>2. y \in Seq(1..accepted')
    BY <1>2, <1>4, WiderSeq
  <2> QED
    BY <1>1, <1>3, <2>1, <2>2, WiderSeq
<1>6. BytesOK'
  <2>1. \A s : s \in Seq(1..accepted) => s \in Seq(1..accepted')
    BY <1>2, WiderSeq
  <2>2. data' \in [Files -> Seq(1..accepted')] /\ buf' \in Seq(1..accepted')
    BY <1>1, <2>1 DEF BytesOK
  <2> QED
    BY <1>1, <1>5, <2>2 DEF BytesOK
<1>7. BackupFiles' = BackupFiles /\ Times' = Times /\ Orphans' = Orphans
  BY <1>1 DEF BackupFiles, Times, Orphans
<1>8. FilesOK'
  BY <1>1, <1>7 DEF FilesOK
<1>9. HeapOK'
  BY <1>1, <1>7 DEF HeapOK
<1>10. StateOK'
  <2>1. {written', dirty', synced', fw'} \subseteq Nat
    <3>1. {written, dirty, synced} \subseteq Nat
      BY <1>1 DEF StateOK
    <3>2. written' = written /\ dirty' = dirty /\ synced' = synced /\ fw' = 0
      BY <1>1
    <3> QED
      BY <3>1, <3>2
  <2>2. force' \in BOOLEAN
    <3>1. force' = FALSE
      BY <1>1
    <3> QED
      BY <3>1
  <2>3. UNCHANGED <<bufErr, tied, clock, fails, crashes>>
    BY <1>1
  <2>4. accepted' \in 0..MaxBytes /\ op' = "write"
    BY <1>1, <1>2
  <2> QED
    BY <1>1, <2>1, <2>3, <2>4, <2>2 DEF StateOK
<1>11. CountsOK'
  <2>1. SUFFICES ASSUME fails' = 0
                 PROVE  CountsOK'
    BY DEF CountsOK
  <2>2. /\ logFile # 0 /\ written + 0 = Len(data[f]) /\ synced + dirty = written
        /\ written < MaxSize
    BY <1>1, <2>1 DEF RInv, CountsOK
  <2>3. written \in Nat /\ Len(buf) \in Nat /\ Len(buf) <= PerWriteSize /\ Len(p') = n
    BY <1>1, <1>4, <1>5, Basics DEF StateOK, BytesOK
  <2>4. Len(data'[f']) + Len(buf') + Len(p') < MaxSize + PerWriteSize + MaxLen
    <3>1. data'[f'] = data[f] /\ buf' = buf
      BY <1>1
    <3>2. Len(data[f]) = written /\ n <= MaxLen
      BY <2>2, <2>3
    <3>3. written + Len(buf) + n < MaxSize + PerWriteSize + MaxLen
      BY <1>2, <2>2, <2>3, <3>2, Sizes
    <3> QED
      BY <2>3, <3>1, <3>2, <3>3
  <2> QED
    BY <1>1, <2>2, <2>4 DEF CountsOK
<1>12. buf \in Seq(Nat) /\ buf \o p = buf /\ buf' \o p' = buf \o y
  <2>1. buf \in Seq(Nat)
    BY <1>1, Basics
  <2> QED
    BY <1>1, <1>5, <2>1, ConcatEmptySeq
<1>13. OrderOK'
  <2>1. \A s : s \in Seq(1..accepted) => Elems(s) \subseteq 1..accepted
    BY SeqBasics
  <2>2. \A t \in Linked(bdir) : Elems(data[bdir[t]]) \subseteq 1..accepted
    <3>1. bdir \in [Stamps -> 0..MaxFiles]
      BY <1>1, Basics DEF Placed
    <3> QED
      BY <1>1, <2>1, <3>1, LinkedFiles DEF BytesOK
  <2>3. Elems(Log(data, logFile)) \subseteq 1..accepted
    <3>1. logFile # 0 => logFile \in Files
      BY <1>1, Basics DEF Placed
    <3> QED
      BY <1>1, <2>1, <3>1, EmptyBytes DEF BytesOK, Log
  <2>4. Elems(buf) \subseteq 1..accepted
    BY <1>1, <2>1 DEF BytesOK
  <2>5. \A z \in Elems(y) : z \in Nat /\ z > accepted
    BY <1>2, <1>4
  <2>6. Ordered(data, bdir, logFile, buf)
    BY <1>1, <1>12 DEF OrderOK
  <2>7. Ordered(data, bdir, logFile, buf \o y)
    BY <1>2, <1>4, <1>5, <1>12, <2>2, <2>3, <2>4, <2>5, <2>6, OrderedMore
  <2> QED
    BY <1>1, <1>12, <2>7 DEF OrderOK
<1>14. KeptOK'
  <2>1. SUFFICES ASSUME ~bufErr', crashes' = 0, ~tied'
                 PROVE  Gapless(data', bdir', backups', logFile', f', buf' \o p', accepted')
    BY DEF KeptOK
  <2>2. Gapless(data, bdir, backups, logFile, f, buf, accepted)
    BY <1>1, <1>12, <2>1 DEF KeptOK
  <2>3. Gapless(data, bdir, backups, logFile, f, buf \o y, accepted + n)
    BY <1>2, <1>4, <1>5, <1>12, <2>2, GaplessMore
  <2> QED
    BY <1>1, <1>12, <2>3
<1> QED
  BY <1>6, <1>8, <1>9, <1>10, <1>11, <1>13, <1>14 DEF RInv

\* A system call of a rotation fails.
LEMMA RotationFailsKeeps ==
  ASSUME RInv, RenameFails \/ OpenFails
  PROVE  RInv'
<1>1. /\ BytesOK /\ StateOK /\ FilesOK /\ HeapOK /\ OrderOK /\ KeptOK /\ CountsOK
      /\ op \in {"rename", "open"} /\ op' = "idle"
      /\ (op = "rename" /\ logFile = 0 /\ fails' = fails) \/ SysCallFails
      /\ written' = 0 /\ dirty' = 0 /\ synced' = 0
      /\ UNCHANGED <<data, logFile, bdir, files, f, w, buf, bufErr, p, backups,
                     accepted, clock, crashes, tied>>
      /\ closed' = closed /\ fw' = fw /\ force' = force
  BY DEF RInv, RenameFails, OpenFails, ResetCounts, fsVars, bufVars, callVars
<1>2. fails \in 0..MaxFails /\ fails' \in 0..MaxFails /\ fails' \in Nat /\ fails <= fails'
  BY <1>1, Sizes DEF SysCallFails, SysCallsFail, StateOK
<1>3. BytesOK' /\ FilesOK' /\ HeapOK' /\ OrderOK' /\ KeptOK'
  <2>1. closed' \in SUBSET Files /\ (op \in {"dirty", "rename", "open"} /\ op' \in {"idle", "rename"})
    BY <1>1 DEF FilesOK
  <2> QED
    BY <1>1, <1>2, <2>1, StillKeeps
<1>4. StateOK'
  <2>1. {written', dirty', synced', fw'} \subseteq Nat
    <3>1. fw' \in Nat
      BY <1>1 DEF StateOK
    <3> QED
      BY <1>1, <3>1
  <2> QED
    BY <1>1, <1>2, <2>1 DEF StateOK
<1>5. fails' # 0
  BY <1>1, <1>2 DEF CountsOK, SysCallFails, SysCallsFail
<1> QED
  BY <1>1, <1>3, <1>4, <1>5 DEF RInv, CountsOK

LEMMA CloseKeeps ==
  ASSUME RInv, Close
  PROVE  RInv'
<1>1. /\ BytesOK /\ StateOK /\ FilesOK /\ HeapOK /\ OrderOK /\ KeptOK
      /\ op' = op /\ closed' = closed \union {f}
      /\ UNCHANGED <<data, logFile, bdir, files, f, w, buf, bufErr, p, backups,
                     accepted, clock, crashes, tied>>
      /\ UNCHANGED <<written, dirty, synced, fw, force, fails>>
  BY DEF RInv, Close, counts, bufVars, callVars, envVars
<1>2. closed' \in SUBSET Files /\ fails' \in Nat /\ fails <= fails'
  BY <1>1, Basics, Sizes DEF FilesOK, StateOK
<1>3. BytesOK' /\ FilesOK' /\ HeapOK' /\ OrderOK' /\ KeptOK'
  BY <1>1, <1>2, StillKeeps
<1>4. StateOK' /\ CountsOK'
  BY <1>1 DEF RInv, StateOK, CountsOK
<1> QED
  BY <1>3, <1>4 DEF RInv

-----------------------------------------------------------------------------
(***************************************************************************)
(* The rotation.                                                           *)
(***************************************************************************)

LEMMA ImageSize ==
  ASSUME NEW S, IsFiniteSet(S), NEW T, NEW h \in [S -> T], \A t \in T : \E b \in S : h[b] = t
  PROVE  IsFiniteSet(T) /\ Cardinality(T) <= Cardinality(S)
<1>1. h \in Surjection(S, T)
  BY DEF Surjection
<1> QED
  BY <1>1, FS_Surjection

LEMMA OneMore ==
  ASSUME NEW S, IsFiniteSet(S), NEW x, NEW T, T \subseteq S \union {x}
  PROVE  /\ IsFiniteSet(T) /\ Cardinality(T) \in Nat /\ Cardinality(S) \in Nat
         /\ Cardinality(T) <= Cardinality(S) + 1
<1>1. Cardinality(S) \in Nat
  BY FS_CardinalityType
<1>2. PICK U : U = S \union {x}
  OBVIOUS
<1>3. IsFiniteSet(U) /\ Cardinality(U) <= Cardinality(S) + 1
  <2>1. /\ IsFiniteSet(S \union {x})
        /\ Cardinality(S \union {x}) = IF x \in S THEN Cardinality(S) ELSE Cardinality(S) + 1
    BY FS_AddElement
  <2> QED
    BY <1>1, <1>2, <2>1
<1>4. IsFiniteSet(T) /\ Cardinality(T) <= Cardinality(U)
  BY <1>2, <1>3, FS_Subset
<1>5. Cardinality(T) \in Nat /\ Cardinality(U) \in Nat
  BY <1>3, <1>4, FS_CardinalityType
<1> QED
  BY <1>1, <1>3, <1>4, <1>5

LEMMA HeapSizes ==
  ASSUME StateOK, HeapOK
  PROVE  /\ IsFiniteSet(Stamps) /\ IsFiniteSet(BackupFiles) /\ IsFiniteSet(Orphans)
         /\ Cardinality(BackupFiles) \in Nat /\ Cardinality(Orphans) \in Nat
         /\ Cardinality(backups) \in Nat
         /\ Cardinality(BackupFiles) <= Cardinality(Orphans) + Cardinality(backups)
<1>1. IsFiniteSet(Stamps)
  BY Sizes, FS_Interval DEF Stamps
<1>2. IsFiniteSet(BackupFiles) /\ IsFiniteSet(Orphans)
  BY <1>1, FS_Subset DEF BackupFiles, Orphans
<1>3. IsFiniteSet(backups)
  BY DEF HeapOK
<1>4. IsFiniteSet(Times) /\ Cardinality(Times) <= Cardinality(backups)
  <2>1. PICK h : h = [b \in backups |-> b.time]
    OBVIOUS
  <2>2. h \in [backups -> Times] /\ \A t \in Times : \E b \in backups : h[b] = t
    BY <2>1 DEF Times
  <2> QED
    BY <1>3, <2>2, ImageSize
<1>5. BackupFiles \subseteq Orphans \union Times
  BY DEF Orphans
<1>6. /\ Cardinality(Orphans) \in Nat /\ Cardinality(Times) \in Nat
      /\ Cardinality(backups) \in Nat /\ Cardinality(BackupFiles) \in Nat
  BY <1>2, <1>3, <1>4, FS_CardinalityType
<1>7. /\ IsFiniteSet(Orphans \union Times) /\ Cardinality(Orphans \intersect Times) \in Nat
      /\ Cardinality(Orphans \union Times) =
           Cardinality(Orphans) + Cardinality(Times) - Cardinality(Orphans \intersect Times)
  <2>1. IsFiniteSet(Orphans \intersect Times)
    BY <1>2, FS_Subset
  <2> QED
    BY <1>2, <1>4, <2>1, FS_Union, FS_CardinalityType
<1>8. Cardinality(BackupFiles) <= Cardinality(Orphans \union Times)
  BY <1>5, <1>7, FS_Subset
<1> QED
  BY <1>1, <1>2, <1>4, <1>6, <1>7, <1>8

LEMMA CrashKeeps ==
  ASSUME RInv, Crash
  PROVE  RInv'
<1>1. /\ BytesOK /\ StateOK /\ FilesOK /\ HeapOK /\ OrderOK
      /\ op # "down" /\ op' = "down" /\ buf' = <<>> /\ p' = <<>> /\ bufErr' = FALSE
      /\ backups' = {} /\ closed' = {}
      /\ crashes < MaxCrashes /\ crashes' = crashes + 1
      /\ UNCHANGED <<data, logFile, bdir, files, f, w, written, dirty, synced, fw, force,
                     accepted, clock, fails, tied>>
  BY DEF RInv, Crash, counts
<1>2. BytesOK'
  <2>1. <<>> \in Seq(1..accepted) /\ Len(<<>>) <= PerWriteSize
    BY Sizes
  <2> QED
    BY <1>1, <2>1 DEF BytesOK
<1>3. StateOK'
  <2>1. crashes' \in 0..MaxCrashes /\ crashes' > 0
    BY <1>1, Sizes DEF StateOK
  <2>2. bufErr' \in BOOLEAN
    BY <1>1
  <2> QED
    BY <1>1, <2>1, <2>2 DEF StateOK
<1>4. BackupFiles' = BackupFiles
  BY <1>1 DEF BackupFiles
<1>5. FilesOK'
  BY <1>1, <1>4 DEF FilesOK
<1>6. HeapOK'
  <2>1. Cardinality(BackupFiles) <= MaxBackups + fails + 1
    BY <1>1, HeapSizes, Sizes DEF HeapOK, StateOK
  <2>2. Cardinality(BackupFiles)' <= (MaxBackups + fails + 1)'
    BY <1>1, <1>4, <2>1
  <2>3. IsFiniteSet({})
    BY FS_EmptySet
  <2> QED
    BY <1>1, <2>2, <2>3 DEF HeapOK
<1>7. OrderOK'
  <2>1. <<>> \o <<>> = <<>>
    BY ConcatEmptySeq
  <2>2. Ordered(data, bdir, logFile, <<>>)
    BY <1>1, EmptyBytes DEF OrderOK, Ordered, Before
  <2> QED
    BY <1>1, <2>1, <2>2 DEF OrderOK
<1>8. KeptOK' /\ CountsOK'
  <2>1. crashes' # 0
    BY <1>1, Sizes DEF StateOK
  <2> QED
    BY <1>1, <2>1 DEF KeptOK, CountsOK
<1> QED
  BY <1>2, <1>3, <1>5, <1>6, <1>7, <1>8 DEF RInv

LEMMA RenameKeeps ==
  ASSUME RInv, Rename
  PROVE  RInv'
<1>1. PICK t \in Stamps :
        /\ t \in clock..(clock + PerSecond) /\ clock' = t
        /\ tied' = (tied \/ (clock > 0 /\ Second(t) = Second(clock)))
        /\ bdir' = [bdir EXCEPT ![t] = logFile]
        /\ backups' = backups \union {Backup(t, logFile)}
  BY DEF Rename, RenameTime
<1>2. /\ BytesOK /\ StateOK /\ FilesOK /\ HeapOK /\ OrderOK /\ KeptOK
      /\ op = "rename" /\ logFile # 0 /\ logFile' = 0
      /\ op' = (IF TooMany(backups') THEN "remove" ELSE "open")
      /\ UNCHANGED <<data, files, closed, f, w, buf, bufErr, p, written, dirty, synced, fw,
                     force, accepted, fails, crashes>>
  BY DEF RInv, Rename, counts, bufVars, callVars
<1>3. /\ clock \in Nat /\ t \in Nat /\ clock <= t /\ clock' \in 0..MaxClock /\ logFile \in 1..files
      /\ logFile \in Files /\ f = logFile /\ files \in Nat /\ bdir \in [Stamps -> 0..files]
  BY <1>1, <1>2, Basics, Sizes, SMTT(30) DEF Stamps, FilesOK, Files
<1>4. bdir'[t] = logFile /\ \A u \in Stamps : u # t => bdir'[u] = bdir[u]
  BY <1>1, <1>3
<1>5. /\ BackupFiles' = BackupFiles \union {t}
      /\ Times' = Times \union {t}
      /\ \A u \in BackupFiles : u <= t /\ u \in Stamps
  <2>1. BackupFiles' = BackupFiles \union {t}
    BY <1>2, <1>4 DEF BackupFiles
  <2>2. Times' = Times \union {t}
    <3>1. PICK b : b = Backup(t, logFile) /\ b.time = t /\ backups' = backups \union {b}
      BY <1>1 DEF Backup
    <3>2. \A z : z \in Times' <=> z \in Times \/ z = t
      BY <3>1 DEF Times
    <3> QED
      BY <3>2
  <2>3. ASSUME NEW u \in BackupFiles PROVE u <= t /\ u \in Stamps
    <3>1. u <= clock /\ u \in Stamps /\ u \in Nat
      BY <1>2, <2>3 DEF FilesOK, BackupFiles, Stamps
    <3> QED
      BY <1>3, <3>1
  <2> QED
    BY <2>1, <2>2, <2>3
<1>6. BytesOK'
  BY <1>2 DEF BytesOK
<1>7. StateOK'
  <2>1. tied' \in BOOLEAN
    BY <1>1, <1>2 DEF StateOK
  <2>2. op' \in {"remove", "open"}
    BY <1>2
  <2>3. clock' \in 0..MaxClock
    BY <1>3
  <2> QED
    BY <1>2, <2>1, <2>2, <2>3 DEF StateOK
<1>8. FilesOK'
  <2>1. bdir' \in [Stamps -> 0..files']
    BY <1>1, <1>2, <1>3
  <2>2. ASSUME NEW u \in BackupFiles'
        PROVE  /\ u <= clock' /\ bdir'[u] # logFile'
               /\ bdir'[u] = f' => \A v \in BackupFiles' : v <= u
               /\ \A v \in BackupFiles' : bdir'[u] = bdir'[v] => u = v
    <3>1. u <= clock'
      BY <1>1, <1>3, <1>5, <2>2
    <3>2. bdir'[u] # logFile'
      BY <1>2, <2>2 DEF BackupFiles
    <3>3. \A v \in BackupFiles' : v # t => v \in BackupFiles /\ bdir'[v] = bdir[v] /\ bdir[v] # logFile
      BY <1>2, <1>4, <1>5 DEF FilesOK
    <3>4. bdir'[u] = f' => u = t
      BY <1>2, <1>3, <2>2, <3>3
    <3>5. \A v \in BackupFiles' : v <= t
      BY <1>3, <1>5
    <3>6. \A v \in BackupFiles' : bdir'[u] = bdir'[v] => u = v
      BY <1>2, <1>4, <2>2, <3>3 DEF FilesOK
    <3> QED
      BY <3>1, <3>2, <3>4, <3>5, <3>6
  <2> QED
    BY <1>2, <1>3, <2>1, <2>2 DEF FilesOK
<1>9. HeapOK'
  <2>1. Backup(t, logFile) \in [time : Stamps, file : Files] /\ Backup(t, logFile).time = t
        /\ Backup(t, logFile).file = logFile
    BY <1>3 DEF Backup
  <2>2. backups' \in SUBSET [time : Stamps, file : Files]
    BY <1>1, <1>2, <2>1 DEF HeapOK
  <2>3. \A b \in backups' : b.time <= clock' /\ b.file \in 1..files' /\ b.file # logFile'
    <3>1. ASSUME NEW b \in backups
          PROVE  b.time <= t /\ b.file \in 1..files /\ b.file # 0
      <4>1. b.time <= clock /\ b.time \in Nat /\ b.file \in 1..files
        BY <1>2, <3>1 DEF HeapOK, Stamps
      <4> QED
        BY <1>3, <4>1
    <3> QED
      BY <1>1, <1>2, <1>3, <2>1, <3>1
  <2>4. /\ IsFiniteSet(backups') /\ Cardinality(backups') <= Cardinality(backups) + 1
        /\ Cardinality(backups') \in Nat /\ Cardinality(backups) <= MaxBackups
        /\ Cardinality(backups) \in Nat
    <3>1. IsFiniteSet(backups) /\ Cardinality(backups) <= MaxBackups
      BY <1>2, Sizes DEF HeapOK
    <3>2. Cardinality(backups) \in Nat
      BY <1>2, HeapSizes
    <3>3. IsFiniteSet(backups') /\ Cardinality(backups') <= Cardinality(backups) + 1
      BY <1>1, <3>1, <3>2, FS_AddElement
    <3> QED
      BY <3>1, <3>2, <3>3, FS_CardinalityType
  <2>5. Cardinality(Orphans)' <= fails'
    <3>1. Orphans' \subseteq Orphans
      BY <1>5 DEF Orphans
    <3>2. Cardinality(Orphans') <= Cardinality(Orphans)
      BY <1>2, <3>1, HeapSizes, FS_Subset
    <3>3. Cardinality(Orphans') \in Nat /\ Cardinality(Orphans) \in Nat
      BY <1>2, <3>1, HeapSizes, FS_Subset, FS_CardinalityType
    <3>4. Cardinality(Orphans) <= fails /\ fails \in Nat
      BY <1>2, Basics DEF HeapOK
    <3> QED
      BY <1>2, <3>2, <3>3, <3>4
  <2>6. CASE TooMany(backups')
    <3>1. op' = "remove" /\ Cardinality(backups') > MaxBackups
          /\ Cardinality(backups') <= MaxBackups + 1
      BY <1>2, <2>4, <2>6, Sizes DEF TooMany
    <3> QED
      BY <2>2, <2>3, <2>4, <2>5, <3>1 DEF HeapOK
  <2>7. CASE ~TooMany(backups')
    <3>1. op' = "open" /\ Cardinality(backups') <= MaxBackups + 0
      BY <1>2, <2>4, <2>7, Sizes DEF TooMany
    <3> QED
      BY <2>2, <2>3, <2>4, <2>5, <3>1 DEF HeapOK
  <2> QED
    BY <2>6, <2>7
<1>10. CountsOK'
  BY <1>2 DEF RInv, CountsOK
<1>11. Placed(data, bdir, logFile, f) /\ Linked(bdir) = BackupFiles
  BY <1>2, Basics DEF Linked, BackupFiles
<1>12. OrderOK'
  <2>1. Ordered(data, bdir, logFile, buf \o p)
    BY <1>2 DEF OrderOK
  <2>2. Ordered(data, [bdir EXCEPT ![t] = logFile], 0, buf \o p)
    BY <1>2, <1>5, <1>11, <2>1, OrderedRename
  <2> QED
    BY <1>1, <1>2, <2>2 DEF OrderOK
<1>13. KeptOK'
  <2>1. SUFFICES ASSUME ~bufErr', crashes' = 0, ~tied'
                 PROVE  Gapless(data', bdir', backups', logFile', f', buf' \o p', accepted')
    BY DEF KeptOK
  <2>2. ~bufErr /\ crashes = 0 /\ ~tied /\ ~(clock > 0 /\ Second(t) = Second(clock))
    BY <1>1, <1>2, <2>1
  <2>3. Gapless(data, bdir, backups, logFile, f, buf \o p, accepted)
    BY <1>2, <2>2 DEF KeptOK
  <2>4. clock = 0 \/ Second(t) # Second(clock)
    BY <1>3, <2>2
  <2>5. backups \subseteq [time : Stamps, file : Files] /\ \A b \in backups : b.time <= clock
    BY <1>2 DEF HeapOK
  <2>6. Gapless(data, [bdir EXCEPT ![t] = logFile], backups \union {Backup(t, logFile)}, 0, f,
                buf \o p, accepted)
    BY <1>2, <1>3, <1>11, <2>3, <2>4, <2>5, GaplessRename
  <2> QED
    BY <1>1, <1>2, <2>6
<1> QED
  BY <1>6, <1>7, <1>8, <1>9, <1>10, <1>12, <1>13 DEF RInv

LEMMA OpenKeeps ==
  ASSUME RInv, Open
  PROVE  RInv'
<1>1. /\ BytesOK /\ StateOK /\ FilesOK /\ HeapOK /\ OrderOK /\ KeptOK
      /\ op = "open" /\ op' = "idle" /\ files < MaxFiles /\ files' = files + 1
      /\ logFile' = files' /\ f' = files' /\ w' = files' /\ buf' = buf /\ logFile = 0
      /\ written' = 0 /\ dirty' = 0 /\ synced' = 0 /\ p = <<>>
      /\ UNCHANGED <<data, bdir, backups, bufErr, p, fw, force, accepted, clock, fails,
                     crashes, tied>>
      /\ closed' = closed \union {f}
  BY DEF RInv, Open, KeptByReset, ResetCounts, callVars, envVars, FilesOK, BytesOK
<1>2. files' \in Files /\ files \in Nat /\ files' \in Nat /\ f \in Files /\ 0..files \subseteq 0..files'
  BY <1>1, Basics, Sizes DEF Files
<1>3. data[files'] = <<>>
  BY <1>1, <1>2 DEF FilesOK
<1>4. BackupFiles' = BackupFiles /\ Times' = Times /\ Orphans' = Orphans
  BY <1>1 DEF BackupFiles, Times, Orphans
<1>5. BytesOK'
  BY <1>1 DEF BytesOK
<1>6. StateOK'
  <2>1. {written', dirty', synced', fw'} \subseteq Nat
    <3>1. fw' \in Nat
      BY <1>1 DEF StateOK
    <3> QED
      BY <1>1, <3>1
  <2> QED
    BY <1>1, <2>1 DEF StateOK
<1>7. FilesOK'
  <2>1. bdir' \in [Stamps -> 0..files'] /\ closed' \in SUBSET Files
    BY <1>1, <1>2 DEF FilesOK
  <2>2. \A i \in Files : i > files' => data'[i] = <<>>
    BY <1>1, <1>2 DEF FilesOK, Files
  <2>3. \A t \in BackupFiles : bdir[t] # files'
    BY <1>1, <1>2 DEF FilesOK, BackupFiles
  <2>4. logFile' \in 0..files' /\ f' \in 1..files' /\ w' = f' /\ logFile' # 0
    BY <1>1, <1>2
  <2>5. \A t \in BackupFiles' :
          /\ t <= clock' /\ bdir'[t] # logFile' /\ bdir'[t] # f'
          /\ \A u \in BackupFiles' : bdir'[t] = bdir'[u] => t = u
    BY <1>1, <1>4, <2>3 DEF FilesOK
  <2> QED
    BY <1>1, <1>2, <2>1, <2>2, <2>4, <2>5 DEF FilesOK
<1>8. HeapOK'
  <2>1. \A b \in backups' : b.time <= clock' /\ b.file \in 1..files' /\ b.file # logFile'
    <3>1. ASSUME NEW b \in backups
          PROVE  b.time <= clock /\ b.file \in 1..files' /\ b.file # files'
      BY <1>1, <1>2, <3>1 DEF HeapOK
    <3> QED
      BY <1>1, <3>1
  <2> QED
    BY <1>1, <1>4, <2>1 DEF HeapOK
<1>9. CountsOK'
  <2>1. data'[f'] = <<>> /\ Len(<<>>) = 0
    BY <1>1, <1>3
  <2>2. Len(buf) \in Nat /\ Len(buf) <= PerWriteSize
    BY <1>1, Basics DEF BytesOK
  <2>3. Len(data'[f']) + Len(buf') + Len(p') < MaxSize + PerWriteSize + MaxLen
    BY <1>1, <2>1, <2>2, Sizes
  <2>4. logFile' # 0
    BY <1>1, <1>2
  <2> QED
    BY <1>1, <2>1, <2>3, <2>4, Sizes DEF CountsOK
<1>10. OrderOK'
  <2>1. Log(data, files') = <<>>
    BY <1>3 DEF Log
  <2>2. Ordered(data, bdir, files', buf \o p)
    BY <1>1, <2>1, OrderedFewer DEF OrderOK
  <2> QED
    BY <1>1, <2>2 DEF OrderOK
<1>11. KeptOK'
  <2>1. SUFFICES ASSUME ~bufErr', crashes' = 0, ~tied'
                 PROVE  Gapless(data', bdir', backups', logFile', f', buf' \o p', accepted')
    BY DEF KeptOK
  <2>2. Gapless(data, bdir, backups, 0, f, buf \o p, accepted)
    BY <1>1, <2>1 DEF KeptOK
  <2>3. Gapless(data, bdir, backups, files', files', buf \o p, accepted)
    BY <1>2, <1>3, <2>2, GaplessOpen
  <2> QED
    BY <1>1, <2>3
<1> QED
  BY <1>5, <1>6, <1>7, <1>8, <1>9, <1>10, <1>11 DEF RInv

\* Some links to backups are gone.
LEMMA FewerLinks ==
  ASSUME BytesOK, StateOK, FilesOK, bdir' \in [Stamps -> 0..files],
         \A t \in Stamps : bdir'[t] \in {0, bdir[t]}
  PROVE  /\ \A t \in BackupFiles' : t \in BackupFiles /\ bdir'[t] = bdir[t]
         /\ \A t \in BackupFiles' :
              /\ t <= clock /\ bdir'[t] # logFile /\ bdir'[t] \in 1..files
              /\ bdir'[t] = f => \A u \in BackupFiles' : u <= t
              /\ \A u \in BackupFiles' : bdir'[t] = bdir'[u] => t = u
         /\ Linked(bdir') = BackupFiles' /\ Linked(bdir) = BackupFiles
<1>1. \A t \in BackupFiles' : t \in BackupFiles /\ bdir'[t] = bdir[t]
  BY DEF BackupFiles
<1>2. \A t \in BackupFiles : bdir[t] \in 1..files
  BY Basics DEF FilesOK, BackupFiles
<1>3. Linked(bdir') = BackupFiles' /\ Linked(bdir) = BackupFiles
  BY DEF BackupFiles, Linked
<1> QED
  BY <1>1, <1>2, <1>3 DEF FilesOK

LEMMA RemoveKeeps ==
  ASSUME RInv, Remove
  PROVE  RInv'
<1>1. PICK b \in backups :
        /\ IsOldest(b, backups) /\ backups' = backups \ {b}
        /\ \/ bdir' = [bdir EXCEPT ![b.time] = 0] /\ UNCHANGED fails
           \/ SysCallFails /\ UNCHANGED bdir
  BY DEF Remove
<1>2. /\ BytesOK /\ StateOK /\ FilesOK /\ HeapOK /\ OrderOK /\ KeptOK
      /\ op = "remove" /\ op' = "open" /\ logFile = 0 /\ logFile' = 0
      /\ UNCHANGED <<data, files, closed, f, w, buf, bufErr, p, written, dirty, synced, fw,
                     force, accepted, clock, crashes, tied>>
  BY DEF RInv, Remove, counts, bufVars, callVars, FilesOK
<1>3. /\ fails' \in 0..MaxFails /\ fails \in Nat /\ fails' \in Nat
      /\ fails' = fails \/ fails' = fails + 1
  BY <1>1, <1>2, Sizes DEF SysCallFails, SysCallsFail, StateOK
<1>4. bdir \in [Stamps -> 0..files] /\ b.time \in Stamps /\ files \in Nat
  BY <1>1, <1>2, Basics DEF FilesOK, HeapOK
<1>5. /\ bdir' \in [Stamps -> 0..files] /\ \A t \in Stamps : bdir'[t] \in {0, bdir[t]}
      /\ \A t \in Stamps : t # b.time => bdir'[t] = bdir[t]
      /\ bdir'[b.time] = 0 \/ (bdir' = bdir /\ fails' = fails + 1)
  BY <1>1, <1>4 DEF SysCallFails, SysCallsFail
<1>6. BytesOK'
  BY <1>2 DEF BytesOK
<1>7. StateOK'
  BY <1>2, <1>3 DEF StateOK
<1>8. FilesOK'
  BY <1>2, <1>5, FewerLinks DEF FilesOK
<1>9. /\ IsFiniteSet(backups) /\ Cardinality(backups) \in Nat
      /\ MaxBackups < Cardinality(backups) /\ Cardinality(backups) <= MaxBackups + 1
  BY <1>2, HeapSizes, Sizes DEF HeapOK
<1>10. HeapOK'
  <2>1. IsFiniteSet(backups') /\ Cardinality(backups') = Cardinality(backups) - 1
    BY <1>1, <1>9, FS_RemoveElement
  <2>2. Cardinality(backups') <= MaxBackups + 0
    BY <1>9, <2>1, Sizes
  <2>3. backups' \in SUBSET [time : Stamps, file : Files]
        /\ \A c \in backups' : c.time <= clock' /\ c.file \in 1..files' /\ c.file # logFile'
    BY <1>1, <1>2 DEF HeapOK
  <2>4. Cardinality(Orphans)' <= fails'
    <3>1. Times \subseteq Times' \union {b.time}
      BY <1>1 DEF Times
    <3>2. BackupFiles' \subseteq BackupFiles
      BY <1>2, <1>5, FewerLinks
    <3>3. CASE bdir'[b.time] = 0
      <4>1. b.time \notin BackupFiles'
        BY <3>3 DEF BackupFiles
      <4>2. Orphans' \subseteq Orphans
        BY <3>1, <3>2, <4>1 DEF Orphans
      <4>3. Cardinality(Orphans') <= Cardinality(Orphans) /\ Cardinality(Orphans') \in Nat
        BY <1>2, <4>2, HeapSizes, FS_Subset, FS_CardinalityType
      <4>4. Cardinality(Orphans) <= fails /\ Cardinality(Orphans) \in Nat
        BY <1>2, HeapSizes DEF HeapOK
      <4> QED
        BY <1>3, <4>3, <4>4
    <3>4. CASE bdir' = bdir /\ fails' = fails + 1
      <4>1. Orphans' \subseteq Orphans \union {b.time}
        BY <3>1, <3>2 DEF Orphans
      <4>2. IsFiniteSet(Orphans) /\ Cardinality(Orphans) <= fails /\ Cardinality(Orphans) \in Nat
        BY <1>2, HeapSizes DEF HeapOK
      <4>3. Cardinality(Orphans') <= Cardinality(Orphans) + 1 /\ Cardinality(Orphans') \in Nat
        BY <4>1, <4>2, OneMore
      <4> QED
        BY <1>3, <3>4, <4>2, <4>3
    <3> QED
      BY <1>5, <3>3, <3>4
  <2> QED
    BY <1>2, <2>1, <2>2, <2>3, <2>4 DEF HeapOK
<1>11. CountsOK'
  BY <1>2, <1>3 DEF RInv, CountsOK
<1>12. OrderOK'
  <2>1. Ordered(data, bdir, 0, buf \o p)
    BY <1>2 DEF OrderOK
  <2>2. \A t \in Linked(bdir') : t \in Linked(bdir) /\ data[bdir'[t]] = data[bdir[t]]
    BY <1>2, <1>5, FewerLinks
  <2>3. Ordered(data, bdir', 0, buf \o p)
    BY <2>1, <2>2, OrderedFewer
  <2> QED
    BY <1>2, <2>3 DEF OrderOK
<1>13. KeptOK'
  <2>1. SUFFICES ASSUME ~bufErr', crashes' = 0, ~tied'
                 PROVE  Gapless(data', bdir', backups', logFile', f', buf' \o p', accepted')
    BY DEF KeptOK
  <2>2. Gapless(data, bdir, backups, 0, f, buf \o p, accepted) /\ Ordered(data, bdir, 0, buf \o p)
    BY <1>2, <2>1 DEF KeptOK, OrderOK
  <2>3. PICK c \in backups : b # c
    <3>1. backups # {b}
      BY <1>9, FS_Singleton, Sizes
    <3> QED
      BY <1>1, <3>1
  <2>4. Placed(data, bdir, 0, f) /\ accepted \in Nat /\ backups \subseteq [time : Stamps, file : Files]
    BY <1>2, Basics DEF HeapOK
  <2>5. Gapless(data, bdir', backups \ {b}, 0, f, buf \o p, accepted)
    BY <1>1, <1>5, <2>2, <2>3, <2>4, GaplessRemove
  <2> QED
    BY <1>1, <1>2, <2>5
<1> QED
  BY <1>6, <1>7, <1>8, <1>10, <1>11, <1>12, <1>13 DEF RInv

-----------------------------------------------------------------------------
(***************************************************************************)
(* The next process.                                                       *)
(***************************************************************************)

\* New leaves the backups it need not remove, and those it cannot: each of these
\* is a system call that failed.
LEMMA NewRemoves ==
  ASSUME RInv, Restart \/ RestartFails
  PROVE  \E removed \in SUBSET BackupFiles : \E failing \in SUBSET removed :
           /\ RemoveAll(removed, failing)
           /\ removed = {} \/ TakenOut(removed)
           /\ Restart => ListBackups(removed, failing)
           /\ IsFiniteSet(failing) /\ Cardinality(failing) \in Nat
           /\ fails' \in 0..MaxFails /\ fails' \in Nat
           /\ fails + Cardinality(failing) <= fails'
           /\ RestartFails => fails + 1 <= fails'
           /\ bdir' \in [Stamps -> 0..files]
           /\ \A t \in Stamps : bdir'[t] \in {0, bdir[t]}
           /\ BackupFiles' = (BackupFiles \ removed) \union failing
<1>1. /\ StateOK /\ HeapOK /\ fails \in Nat /\ fails \in 0..MaxFails
      /\ bdir \in [Stamps -> 0..files]
  BY Basics DEF RInv, FilesOK, StateOK
<1>2. IsFiniteSet(BackupFiles)
  BY <1>1, HeapSizes
<1>3. PICK removed \in SUBSET BackupFiles : \E failing \in SUBSET removed :
        /\ RemoveAll(removed, failing)
        /\ removed = {} \/ TakenOut(removed)
        /\ Restart => ListBackups(removed, failing)
        /\ \/ SysCallsFail(Cardinality(failing)) /\ ~RestartFails
           \/ SysCallsFail(1 + Cardinality(failing))
  <2>1. CASE Restart
    <3>1. op = "down" /\ op' = "idle"
      BY <2>1 DEF Restart
    <3>2. ~RestartFails
      BY <3>1 DEF RestartFails
    <3> QED
      BY <2>1, <3>2 DEF Restart, ListBackups
  <2>2. CASE RestartFails
    <3>1. op' # "idle"
      BY <2>2 DEF RestartFails
    <3>2. ~Restart
      BY <3>1 DEF Restart
    <3> QED
      BY <2>2, <3>2 DEF RestartFails
  <2> QED
    BY <2>1, <2>2
<1>4. PICK failing \in SUBSET removed :
        /\ RemoveAll(removed, failing)
        /\ removed = {} \/ TakenOut(removed)
        /\ Restart => ListBackups(removed, failing)
        /\ \/ SysCallsFail(Cardinality(failing)) /\ ~RestartFails
           \/ SysCallsFail(1 + Cardinality(failing))
  BY <1>3
<1>5. IsFiniteSet(failing) /\ Cardinality(failing) \in Nat
  BY <1>2, FS_Subset, FS_CardinalityType
<1>6. /\ fails' \in 0..MaxFails /\ fails' \in Nat /\ fails + Cardinality(failing) <= fails'
      /\ RestartFails => fails + 1 <= fails'
  <2>1. CASE SysCallsFail(Cardinality(failing)) /\ ~RestartFails
    BY <1>1, <1>5, <2>1, Sizes DEF SysCallsFail
  <2>2. CASE SysCallsFail(1 + Cardinality(failing))
    BY <1>1, <1>5, <2>2, Sizes DEF SysCallsFail
  <2> QED
    BY <1>4, <2>1, <2>2
<1>7. bdir' \in [Stamps -> 0..files] /\ \A t \in Stamps : bdir'[t] \in {0, bdir[t]}
  <2>1. \A t \in Stamps : bdir[t] \in 0..files /\ 0 \in 0..files
    BY <1>1, Basics DEF RInv
  <2>2. bdir' = [t \in Stamps |-> IF t \in removed \ failing THEN 0 ELSE bdir[t]]
    BY <1>4 DEF RemoveAll
  <2> QED
    BY <2>1, <2>2, Zenon
<1>8. BackupFiles' = (BackupFiles \ removed) \union failing
  BY <1>1, <1>4 DEF RemoveAll, BackupFiles
<1> QED
  BY <1>4, <1>5, <1>6, <1>7, <1>8

LEMMA RestartFailsKeeps ==
  ASSUME RInv, RestartFails
  PROVE  RInv'
<1>1. /\ BytesOK /\ StateOK /\ FilesOK /\ HeapOK /\ OrderOK
      /\ op = "down" /\ op' = "down" /\ crashes > 0
      /\ UNCHANGED <<data, logFile, files, closed, f, w, buf, bufErr, p, written, dirty,
                     synced, fw, force, accepted, clock, crashes, tied, backups>>
  BY DEF RInv, RestartFails, counts, bufVars, callVars, StateOK
<1>2. fails' \in 0..MaxFails /\ fails' \in Nat /\ fails \in Nat /\ fails + 1 <= fails'
  BY <1>1, NewRemoves, Basics
<1>3. bdir' \in [Stamps -> 0..files] /\ \A t \in Stamps : bdir'[t] \in {0, bdir[t]}
  BY NewRemoves
<1>4. BytesOK'
  BY <1>1 DEF BytesOK
<1>5. StateOK'
  BY <1>1, <1>2 DEF StateOK
<1>6. FilesOK'
  BY <1>1, <1>3, FewerLinks DEF FilesOK
<1>7. HeapOK'
  <2>1. BackupFiles' \subseteq BackupFiles
    BY <1>1, <1>3, FewerLinks
  <2>2. Cardinality(BackupFiles') <= Cardinality(BackupFiles) /\ Cardinality(BackupFiles') \in Nat
        /\ Cardinality(BackupFiles) \in Nat
    BY <1>1, <2>1, HeapSizes, FS_Subset, FS_CardinalityType
  <2>3. Cardinality(BackupFiles) <= MaxBackups + fails + 1 /\ fails \in Nat
    BY <1>1, Basics DEF HeapOK
  <2>4. Cardinality(BackupFiles)' <= MaxBackups + fails' + 1
    BY <1>1, <1>2, <2>2, <2>3, Sizes
  <2> QED
    BY <1>1, <2>4 DEF HeapOK
<1>8. OrderOK'
  <2>1. \A t \in Linked(bdir') : t \in Linked(bdir) /\ data[bdir'[t]] = data[bdir[t]]
    BY <1>1, <1>3, FewerLinks
  <2>2. Ordered(data, bdir', logFile, buf \o p)
    BY <1>1, <2>1, OrderedFewer DEF OrderOK
  <2> QED
    BY <1>1, <2>2 DEF OrderOK
<1>9. KeptOK' /\ CountsOK'
  BY <1>1 DEF KeptOK, CountsOK
<1> QED
  BY <1>4, <1>5, <1>6, <1>7, <1>8, <1>9 DEF RInv

LEMMA RestartKeeps ==
  ASSUME RInv, Restart
  PROVE  RInv'
<1>1. /\ BytesOK /\ StateOK /\ FilesOK /\ HeapOK /\ OrderOK
      /\ op = "down" /\ op' = "idle" /\ crashes > 0 /\ buf = <<>> /\ p = <<>>
      /\ f' = logFile' /\ w' = logFile' /\ written' = 0 /\ dirty' = 0 /\ synced' = 0
      /\ UNCHANGED <<closed, buf, bufErr, p, fw, force, accepted, clock, crashes, tied>>
  BY DEF RInv, Restart, ResetCounts, callVars, StateOK, BytesOK
<1>2. PICK removed \in SUBSET BackupFiles : \E failing \in SUBSET removed :
        /\ ListBackups(removed, failing)
        /\ IsFiniteSet(failing) /\ Cardinality(failing) \in Nat
        /\ fails' \in 0..MaxFails /\ fails' \in Nat
        /\ fails + Cardinality(failing) <= fails'
        /\ bdir' \in [Stamps -> 0..files]
        /\ \A t \in Stamps : bdir'[t] \in {0, bdir[t]}
        /\ BackupFiles' = (BackupFiles \ removed) \union failing
  BY NewRemoves
<1>3. PICK failing \in SUBSET removed :
        /\ ListBackups(removed, failing)
        /\ IsFiniteSet(failing) /\ Cardinality(failing) \in Nat
        /\ fails' \in 0..MaxFails /\ fails' \in Nat
        /\ fails + Cardinality(failing) <= fails'
        /\ bdir' \in [Stamps -> 0..files]
        /\ \A t \in Stamps : bdir'[t] \in {0, bdir[t]}
        /\ BackupFiles' = (BackupFiles \ removed) \union failing
  BY <1>2
<1>4. PICK left : left = BackupFiles \ removed
  OBVIOUS
<1>5. /\ bdir \in [Stamps -> 0..files] /\ files \in Nat /\ fails \in Nat /\ accepted \in Nat
      /\ BackupFiles \subseteq Stamps /\ \A t \in Stamps : t \in BackupFiles <=> bdir[t] # 0
  BY <1>1, Basics DEF FilesOK, BackupFiles
<1>6. /\ bdir' \in [Stamps -> 0..files] /\ \A t \in Stamps : bdir'[t] \in {0, bdir[t]}
      /\ BackupFiles' = left \union failing
      /\ fails' \in 0..MaxFails /\ fails' \in Nat /\ Cardinality(failing) <= fails'
  BY <1>3, <1>4, <1>5
<1>7. /\ Cardinality(left) <= MaxBackups /\ IsFiniteSet(left)
      /\ backups' = {Backup(t, bdir[t]) : t \in left}
  <2>1. IsFiniteSet(BackupFiles) /\ Cardinality(BackupFiles) \in Nat
    BY <1>1, HeapSizes
  <2>2. IsFiniteSet(left)
    BY <1>4, <2>1, FS_Subset
  <2>3. Cardinality(left) = Least(Cardinality(BackupFiles), MaxBackups)
    BY <1>3, <1>4 DEF ListBackups, TakenOut
  <2> QED
    BY <1>3, <1>4, <2>1, <2>2, <2>3, Sizes DEF ListBackups, Least
<1>8. PICK lf : lf = logFile'
  OBVIOUS
<1>9. /\ lf \in Files /\ lf # 0 /\ files' \in Files /\ files' \in Nat /\ files <= files' /\ lf \in 1..files'
      /\ data' \in [Files -> Seq(1..accepted)] /\ data'[lf] = <<>>
      /\ \A i \in Files : i # lf => data'[i] = data[i]
      /\ \A i \in Files : i > files' => data'[i] = <<>>
      /\ \A t \in BackupFiles : bdir[t] # lf
  <2>1. data \in [Files -> Seq(1..accepted)] /\ \A i \in Files : i > files => data[i] = <<>>
    BY <1>1 DEF BytesOK, FilesOK
  <2>2. CASE logFile # 0
    <3>1. /\ data' = [data EXCEPT ![logFile] = <<>>] /\ lf = logFile /\ files' = files
          /\ logFile \in 1..files /\ logFile \in Files
      BY <1>1, <1>5, <1>8, <2>2, Basics, Sizes DEF Restart, FilesOK, Files
    <3>2. <<>> \in Seq(1..accepted)
      OBVIOUS
    <3> QED
      BY <1>1, <1>5, <2>1, <3>1, <3>2 DEF FilesOK, Files
  <2>3. CASE logFile = 0
    <3>1. data' = data /\ lf = files + 1 /\ files' = files + 1 /\ files < MaxFiles
      BY <1>8, <2>3 DEF Restart
    <3>2. files' \in Files /\ lf \in Files /\ lf > files
      BY <1>5, <3>1, Sizes DEF Files
    <3>3. \A t \in BackupFiles : bdir[t] # lf
      BY <1>5, <3>1
    <3>4. data'[lf] = <<>> /\ \A i \in Files : i > files' => data'[i] = <<>>
      BY <1>5, <2>1, <3>1, <3>2 DEF Files
    <3> QED
      BY <1>5, <2>1, <3>1, <3>2, <3>3, <3>4
  <2> QED
    BY <2>2, <2>3
<1>10. BytesOK'
  BY <1>1, <1>9 DEF BytesOK
<1>11. StateOK'
  <2>1. {written', dirty', synced', fw'} \subseteq Nat
    <3>1. fw' \in Nat
      BY <1>1 DEF StateOK
    <3> QED
      BY <1>1, <3>1
  <2> QED
    BY <1>1, <1>6, <2>1 DEF StateOK
<1>12. \A t \in BackupFiles' : t \in BackupFiles /\ bdir'[t] = bdir[t] /\ bdir[t] \in Files
  BY <1>1, <1>5, <1>6, Basics, FewerLinks DEF Placed, Linked, Files
<1>13. FilesOK'
  <2>1. bdir' \in [Stamps -> 0..files']
    BY <1>5, <1>6, <1>9
  <2>2. \A t \in BackupFiles' :
          /\ t <= clock' /\ bdir'[t] # lf
          /\ \A u \in BackupFiles' : bdir'[t] = bdir'[u] => t = u
    BY <1>1, <1>9, <1>12 DEF FilesOK
  <2>3. closed' \in SUBSET Files
    BY <1>1 DEF FilesOK
  <2>4. logFile' \in 0..files' /\ f' \in 1..files' /\ w' = f' /\ f' = logFile' /\ logFile' = lf
    BY <1>1, <1>8, <1>9
  <2> QED
    BY <1>1, <1>9, <2>1, <2>2, <2>3, <2>4 DEF FilesOK
<1>14. HeapOK'
  <2>1. ASSUME NEW b \in backups'
        PROVE  /\ b \in [time : Stamps, file : Files]
               /\ b.time <= clock' /\ b.file \in 1..files' /\ b.file # logFile'
    <3>1. PICK t \in left : b = [time |-> t, file |-> bdir[t]]
      BY <1>7, <2>1 DEF Backup
    <3>2. t \in BackupFiles /\ t \in Stamps /\ bdir[t] \in 1..files
      <4>1. t \in BackupFiles /\ t \in Stamps /\ bdir[t] # 0 /\ bdir[t] \in 0..files
        BY <1>4, <1>5
      <4> QED
        BY <1>5, <4>1
    <3>3. bdir[t] \in Files /\ bdir[t] \in 1..files' /\ bdir[t] # lf /\ t <= clock
      <4>1. t <= clock
        BY <1>1, <3>2 DEF FilesOK
      <4>2. bdir[t] \in Files /\ bdir[t] \in 1..files'
        <5>1. files' \in 1..MaxFiles /\ files' \in Nat /\ files <= files'
          BY <1>9 DEF Files
        <5> QED
          BY <1>5, <3>2, <5>1, Sizes DEF Files
      <4> QED
        BY <1>9, <3>2, <4>1, <4>2
    <3> QED
      BY <1>1, <1>8, <3>1, <3>2, <3>3
  <2>2. IsFiniteSet(backups') /\ Cardinality(backups') <= MaxBackups + 0
    <3>1. PICK h : h = [t \in left |-> Backup(t, bdir[t])]
      OBVIOUS
    <3>2. h \in [left -> backups'] /\ \A b \in backups' : \E t \in left : h[t] = b
      BY <1>7, <3>1
    <3>3. IsFiniteSet(backups') /\ Cardinality(backups') <= Cardinality(left)
      BY <1>7, <3>2, ImageSize
    <3>4. Cardinality(backups') \in Nat /\ Cardinality(left) \in Nat
      BY <1>7, <3>3, FS_CardinalityType
    <3> QED
      BY <1>7, <3>3, <3>4, Sizes
  <2>3. left \subseteq Times'
    <3>1. ASSUME NEW t \in left PROVE t \in Times'
      <4>1. PICK b : b = Backup(t, bdir[t])
        OBVIOUS
      <4>2. b \in backups' /\ b.time = t
        BY <1>7, <4>1 DEF Backup
      <4> QED
        BY <4>2 DEF Times
    <3> QED
      BY <3>1
  <2>4. Cardinality(Orphans)' <= fails'
    <3>1. Orphans' \subseteq failing
      BY <1>6, <2>3 DEF Orphans
    <3>2. Cardinality(Orphans') <= Cardinality(failing) /\ Cardinality(Orphans') \in Nat
      BY <1>3, <3>1, FS_Subset, FS_CardinalityType
    <3> QED
      BY <1>3, <1>6, <3>2
  <2>5. backups' \in SUBSET [time : Stamps, file : Files]
    BY <2>1
  <2> QED
    BY <1>1, <2>1, <2>2, <2>4, <2>5 DEF HeapOK
<1>15. CountsOK'
  <2>1. data'[f'] = <<>> /\ buf' = <<>> /\ p' = <<>> /\ Len(<<>>) = 0 /\ logFile' # 0
    BY <1>1, <1>8, <1>9
  <2>2. Len(data'[f']) + Len(buf') + Len(p') < MaxSize + PerWriteSize + MaxLen
    BY <2>1, Sizes
  <2> QED
    BY <1>1, <2>1, <2>2, Sizes DEF CountsOK
<1>16. OrderOK'
  <2>1. \A t \in Linked(bdir') : t \in Linked(bdir) /\ data'[bdir'[t]] = data[bdir[t]]
    BY <1>1, <1>6, <1>9, <1>12, FewerLinks
  <2>2. Log(data', lf) = <<>>
    BY <1>9 DEF Log
  <2>3. Ordered(data, bdir, logFile, buf \o p)
    BY <1>1 DEF OrderOK
  <2>4. Ordered(data', bdir', lf, buf \o p)
    BY <2>1, <2>2, <2>3, OrderedFewer
  <2> QED
    BY <1>1, <1>8, <2>4 DEF OrderOK
<1>17. KeptOK'
  BY <1>1 DEF KeptOK
<1> QED
  BY <1>10, <1>11, <1>13, <1>14, <1>15, <1>16, <1>17 DEF RInv

-----------------------------------------------------------------------------
(***************************************************************************)
(* The invariant is inductive.                                             *)
(***************************************************************************)

LEMMA InitOK == Init => RInv
<1> SUFFICES ASSUME Init PROVE RInv
  OBVIOUS
<1>1. /\ data = [i \in Files |-> <<>>] /\ logFile = 1 /\ files = 1 /\ f = 1 /\ w = 1
      /\ bdir = [t \in Stamps |-> 0] /\ closed = {}
      /\ written = 0 /\ dirty = 0 /\ synced = 0 /\ backups = {} /\ buf = <<>> /\ p = <<>>
      /\ op = "idle" /\ fw = 0 /\ accepted = 0 /\ clock = 0 /\ fails = 0 /\ crashes = 0
  BY DEF Init
<1>2. bufErr \in BOOLEAN /\ force \in BOOLEAN /\ tied \in BOOLEAN
  BY DEF Init
<1>3. 1 \in Files /\ data[1] = <<>> /\ Len(<<>>) = 0 /\ <<>> \in Seq(1..accepted)
  BY <1>1, Sizes, RotationAssumption DEF Files
<1>4. BackupFiles = {} /\ Linked(bdir) = {} /\ Times = {} /\ Orphans = {}
  BY <1>1 DEF BackupFiles, Linked, Times, Orphans
<1>5. BytesOK
  BY <1>1, <1>3, Sizes DEF BytesOK
<1>6. StateOK
  BY <1>1, <1>2, Sizes DEF StateOK
<1>7. FilesOK
  <2>1. bdir \in [Stamps -> 0..files] /\ files \in Files /\ logFile \in 0..files /\ f \in 1..files
    BY <1>1, <1>3
  <2>2. \A i \in Files : data[i] = <<>>
    BY <1>1
  <2> QED
    BY <1>1, <1>4, <2>1, <2>2 DEF FilesOK
<1>8. HeapOK
  BY <1>1, <1>4, FS_EmptySet, Sizes DEF HeapOK
<1>9. CountsOK
  BY <1>1, <1>3, Sizes DEF CountsOK
<1>10. buf \o p = <<>>
  BY <1>1, <1>3, ConcatEmptySeq
<1>11. Log(data, logFile) = <<>>
  BY <1>1, <1>3 DEF Log
<1>12. OrderOK
  BY <1>4, <1>10, <1>11, EmptyBytes DEF OrderOK, Ordered, Before
<1>13. KeptOK
  <2>1. InHeap(data, bdir, backups) = {}
    BY <1>1 DEF InHeap
  <2>2. KeptOf(data, bdir, backups, logFile, buf \o p) = {}
    BY <1>10, <1>11, <2>1, EmptyBytes DEF KeptOf
  <2>3. IsTail(KeptOf(data, bdir, backups, logFile, buf \o p), accepted)
    <3>1. 1 \in 1..(accepted + 1) /\ 1..accepted = {}
      BY <1>1
    <3> QED
      BY <2>2, <3>1 DEF IsTail
  <2> QED
    BY <1>1, <2>3 DEF KeptOK, Gapless
<1> QED
  BY <1>5, <1>6, <1>7, <1>8, <1>9, <1>12, <1>13 DEF RInv

LEMMA StepsOK == RInv /\ [Next]_vars => RInv'
<1> SUFFICES ASSUME RInv, [Next]_vars PROVE RInv'
  OBVIOUS
<1>1. CASE \E n \in 1..MaxLen : Write(n)
  BY <1>1, WriteKeeps
<1>2. CASE Sync
  BY <1>2, SyncKeeps
<1>3. CASE InCall
  <2>1. CASE FillAndFlush
    BY <2>1, FillAndFlushKeeps
  <2>2. CASE WriteDirectly
    BY <2>2, WriteDirectlyKeeps
  <2>3. CASE EndOfWrite
    BY <2>3, EndOfWriteKeeps
  <2>4. CASE FlushDirty
    BY <2>4, FlushDirtyKeeps
  <2>5. CASE Rename
    BY <2>5, RenameKeeps
  <2>6. CASE RenameFails \/ OpenFails
    BY <2>6, RotationFailsKeeps
  <2>7. CASE Remove
    BY <2>7, RemoveKeeps
  <2>8. CASE Open
    BY <2>8, OpenKeeps
  <2> QED
    BY <1>3, <2>1, <2>2, <2>3, <2>4, <2>5, <2>6, <2>7, <2>8 DEF InCall
<1>4. CASE Close
  BY <1>4, CloseKeeps
<1>5. CASE Crash
  BY <1>5, CrashKeeps
<1>6. CASE Restart
  BY <1>6, RestartKeeps
<1>7. CASE RestartFails
  BY <1>7, RestartFailsKeeps
<1>8. CASE UNCHANGED vars
  <2>1. UNCHANGED <<data, logFile, bdir, files, closed, f, written, dirty, synced, backups,
                    buf, bufErr, w, op, p, fw, force, accepted, clock, fails, crashes, tied>>
    BY <1>8 DEF vars, fsVars, counts, bufVars, callVars, envVars
  <2>2. /\ BytesOK /\ StateOK /\ FilesOK /\ HeapOK /\ CountsOK /\ OrderOK /\ KeptOK
    BY DEF RInv
  <2>3. BytesOK' /\ FilesOK' /\ HeapOK' /\ OrderOK' /\ KeptOK'
    <3>1. closed' \in SUBSET Files /\ fails' \in Nat /\ fails <= fails'
      BY <2>1, <2>2, Basics DEF FilesOK
    <3> QED
      BY <2>1, <2>2, <3>1, StillKeeps
  <2>4. StateOK' /\ CountsOK'
    BY <2>1, <2>2 DEF StateOK, CountsOK
  <2> QED
    BY <2>3, <2>4 DEF RInv
<1> QED
  BY <1>1, <1>2, <1>3, <1>4, <1>5, <1>6, <1>7, <1>8 DEF Next

\* Types, places, counts and the order of the bytes hold together in every
\* behaviour.
THEOREM RotationInductive == Spec => []RInv
  BY InitOK, StepsOK, PTL DEF Spec

\* What the last call returned is a result.
LEMMA ResultIsTyped ==
  Spec => [](result \in [call : {"none", "Write", "Sync"}, err : {"nil", "error"}])
<1> DEFINE Typed == result \in [call : {"none", "Write", "Sync"}, err : {"nil", "error"}]
<1>1. NoResult \in [call : {"none", "Write", "Sync"}, err : {"nil", "error"}]
  BY DEF NoResult
<1>2. Returned \in [call : {"none", "Write", "Sync"}, err : {"nil", "error"}]
  BY DEF Returned
<1>3. Init => Typed
  BY <1>1 DEF Init
<1>4. Typed /\ [Next]_vars => Typed'
  <2> SUFFICES ASSUME Typed, [Next]_vars PROVE Typed'
    OBVIOUS
  <2>1. result' \in {result, NoResult, Returned}
    BY DEF Next, InCall, Write, Sync, FillAndFlush, WriteDirectly, EndOfWrite, FlushDirty,
           Rename, RenameFails, Remove, Open, OpenFails, Close, Crash, Restart,
           RestartFails, vars, callVars
  <2> QED
    BY <1>1, <1>2, <2>1
<1> QED
  BY <1>3, <1>4, PTL DEF Spec

\* Every variable of Rotation has its type: no buffer is longer than
\* PerWriteSize, and no time, file or byte is outside the bounds.
THEOREM RotationTypeCorrect == Spec => []TypeOK
<1> DEFINE Typed == result \in [call : {"none", "Write", "Sync"}, err : {"nil", "error"}]
<1>1. RInv /\ Typed => TypeOK
  <2> SUFFICES ASSUME RInv, Typed PROVE TypeOK
    OBVIOUS
  <2>1. BytesOK /\ StateOK /\ FilesOK /\ HeapOK
    BY DEF RInv
  <2>2. accepted \in 0..MaxBytes /\ 1..accepted \subseteq 1..MaxBytes
    BY <2>1, Sizes DEF StateOK
  <2>3. \A s : s \in Seq(1..accepted) => s \in Seq(1..MaxBytes)
    BY <2>2, WiderSeq
  <2>4. data \in [Files -> Seq(1..MaxBytes)] /\ buf \in Seq(1..MaxBytes) /\ p \in Seq(1..MaxBytes)
        /\ Len(buf) <= PerWriteSize
    BY <2>1, <2>3 DEF BytesOK
  <2>5. logFile \in 0..MaxFiles /\ bdir \in [Stamps -> 0..MaxFiles] /\ f \in Files
    BY <2>1, Basics DEF Placed
  <2>6. files \in Files /\ closed \in SUBSET Files /\ w \in Files
    BY <2>1, <2>5 DEF FilesOK
  <2>7. backups \in SUBSET [time : Stamps, file : Files]
    BY <2>1 DEF HeapOK
  <2> QED
    BY <2>1, <2>4, <2>5, <2>6, <2>7 DEF StateOK, TypeOK
<1> QED
  BY <1>1, RotationInductive, ResultIsTyped, PTL

\* Whatever fails and whenever the process dies, the files hold the bytes in the
\* order in which Write was given them, and so do the backups in the order of
\* their names, the log file and what is not yet written, one after the other.
THEOREM BytesInOrder == Spec => []InOrder
<1>1. RInv => InOrder
  <2> SUFFICES ASSUME RInv PROVE InOrder
    OBVIOUS
  <2>1. BytesOK /\ StateOK /\ FilesOK /\ OrderOK
    BY DEF RInv
  <2>2. Linked(bdir) = BackupFiles /\ LogData = Log(data, logFile)
    BY DEF Linked, BackupFiles, LogData, Log
  <2>3. LogData \in Seq(Nat) /\ buf \in Seq(Nat) /\ p \in Seq(Nat)
    <3>1. logFile # 0 => logFile \in Files
      BY <2>1, Basics DEF Placed, Files
    <3> QED
      BY <2>1, <3>1, Basics DEF LogData
  <2>4. PICK l, r, s : l = LogData /\ r = buf \o p /\ s = LogData \o buf \o p
    OBVIOUS
  <2>5. Elems(s) = Elems(l) \union Elems(r)
        /\ (Increasing(s) <=> Increasing(l) /\ Increasing(r) /\ Before(l, r))
    BY <2>3, <2>4, StreamParts
  <2>6. Ordered(data, bdir, logFile, r)
    BY <2>1, <2>4 DEF OrderOK
  <2>7. Increasing(s)
    BY <2>2, <2>4, <2>5, <2>6 DEF Ordered
  <2>8. \A t \in BackupFiles : Before(data[bdir[t]], s)
    <3>1. \A t \in BackupFiles : Before(data[bdir[t]], l) /\ Before(data[bdir[t]], r)
      BY <2>2, <2>4, <2>6 DEF Ordered
    <3> QED
      BY <2>5, <3>1 DEF Before
  <2>9. /\ \A t \in BackupFiles : Increasing(data[bdir[t]])
        /\ \A t, u \in BackupFiles : t < u => Before(data[bdir[t]], data[bdir[u]])
    BY <2>2, <2>6 DEF Ordered
  <2> QED
    BY <2>4, <2>7, <2>8, <2>9 DEF InOrder
<1> QED
  BY <1>1, RotationInductive, PTL

LEMMA TailSize ==
  ASSUME NEW a \in Nat, NEW B, IsTail(B, a)
  PROVE  B = (a - Cardinality(B) + 1)..a
<1>1. PICK lo \in 1..(a + 1) : B = lo..a
  BY DEF IsTail
<1>2. Cardinality(lo..a) = IF lo > a THEN 0 ELSE a - lo + 1
  BY FS_Interval
<1>3. a - Cardinality(lo..a) + 1 = lo
  BY <1>2
<1> QED
  BY <1>1, <1>3

\* As long as the process lives, no write to the file has failed and rotations
\* are at least a second apart, the backups of the heap, the log file and what
\* is not yet written hold the last bytes that Write was given, without a gap.
THEOREM NoByteMissing == Spec => []NoGap
<1>1. RInv => NoGap
  <2> SUFFICES ASSUME RInv, ~bufErr, crashes = 0, ~tied
               PROVE  Kept = (accepted - Cardinality(Kept) + 1)..accepted
    BY DEF NoGap
  <2>1. BytesOK /\ StateOK /\ FilesOK
        /\ Gapless(data, bdir, backups, logFile, f, buf \o p, accepted)
    BY DEF RInv, KeptOK
  <2>2. LogData = Log(data, logFile)
    BY DEF LogData, Log
  <2>3. LogData \in Seq(Nat) /\ buf \in Seq(Nat) /\ p \in Seq(Nat) /\ accepted \in Nat
    <3>1. logFile # 0 => logFile \in Files
      BY <2>1, Basics DEF Placed, Files
    <3> QED
      BY <2>1, <3>1, Basics DEF LogData
  <2>4. Elems(LogData \o buf \o p) = Elems(LogData) \union Elems(buf \o p)
    BY <2>3, StreamParts
  <2>5. Kept = KeptOf(data, bdir, backups, logFile, buf \o p)
    <3>1. Kept = InHeap(data, bdir, backups) \union Elems(LogData \o buf \o p)
      BY DEF Kept, InHeap
    <3>2. Kept = InHeap(data, bdir, backups) \union (Elems(LogData) \union Elems(buf \o p))
      BY <2>4, <3>1
    <3> HIDE DEF Kept
    <3> QED
      BY <2>2, <3>2 DEF KeptOf
  <2>6. IsTail(Kept, accepted)
    BY <2>1, <2>5 DEF Gapless
  <2> QED
    BY <2>3, <2>6, TailSize
<1> QED
  BY <1>1, RotationInductive, PTL

\* As long as every system call succeeds, r.written is the size of the file in
\* use between the calls, and the hints cover it without a hole.
THEOREM CountersExact == Spec => []CountersMatch
<1>1. RInv => CountersMatch
  <2> SUFFICES ASSUME RInv, fails = 0, op \notin {"write", "down"}
               PROVE  written = Len(data[f]) /\ synced + dirty = written
    BY DEF CountersMatch
  <2>1. written + 0 = Len(data[f]) /\ synced + dirty = written /\ written \in Nat
    BY DEF RInv, CountsOK, StateOK
  <2> QED
    BY <2>1
<1> QED
  BY <1>1, RotationInductive, PTL

\* As long as every system call succeeds, the file in use exceeds MaxSize by the
\* buffer and the data of one Write at most, and between two calls not at all.
THEOREM FileSizeBounded == Spec => []SizeBound
<1>1. RInv => SizeBound
  <2> SUFFICES ASSUME RInv, fails = 0, op # "down"
               PROVE  /\ Len(data[f]) < MaxSize + PerWriteSize + MaxLen
                      /\ op = "idle" => Len(data[f]) < MaxSize
    BY DEF SizeBound
  <2>1. /\ written + (IF op = "write" THEN fw ELSE 0) = Len(data[f])
        /\ Len(data[f]) + Len(buf) + Len(p) < MaxSize + PerWriteSize + MaxLen
        /\ op \in {"idle", "write"} => written < MaxSize
    BY DEF RInv, CountsOK
  <2>2. written \in Nat /\ Len(buf) \in Nat /\ Len(p) \in Nat /\ Len(data[f]) \in Nat
    BY Basics DEF RInv, StateOK
  <2>3. Len(data[f]) < MaxSize + PerWriteSize + MaxLen
    BY <2>1, <2>2, Sizes
  <2>4. op = "idle" => Len(data[f]) < MaxSize
    BY <2>1, <2>2
  <2> QED
    BY <2>3, <2>4
<1> QED
  BY <1>1, RotationInductive, PTL

\* There are MaxBackups backups in the directory at most, one more while a
\* rotation is about to remove one or was killed then, and one for each system
\* call that failed.
THEOREM BackupsBounded == Spec => []BackupBound
<1>1. RInv => BackupBound
  <2> SUFFICES ASSUME RInv PROVE BackupBound
    OBVIOUS
  <2>1. StateOK /\ HeapOK /\ fails \in Nat
    BY Basics DEF RInv
  <2>2. /\ Cardinality(BackupFiles) \in Nat /\ Cardinality(Orphans) \in Nat
        /\ Cardinality(backups) \in Nat
        /\ Cardinality(BackupFiles) <= Cardinality(Orphans) + Cardinality(backups)
    BY <2>1, HeapSizes
  <2>3. CASE op = "down"
    BY <2>1, <2>2, <2>3, Sizes DEF HeapOK, BackupBound
  <2>4. CASE op = "remove"
    <3>1. Cardinality(Orphans) <= fails /\ Cardinality(backups) <= MaxBackups + 1
      BY <2>1, <2>4 DEF HeapOK
    <3> QED
      BY <2>1, <2>2, <2>4, <3>1, Sizes DEF BackupBound
  <2>5. CASE op \notin {"down", "remove"}
    <3>1. Cardinality(Orphans) <= fails /\ Cardinality(backups) <= MaxBackups + 0
      BY <2>1, <2>5 DEF HeapOK
    <3> QED
      BY <2>1, <2>2, <2>5, <3>1, Sizes DEF BackupBound
  <2> QED
    BY <2>3, <2>4, <2>5
<1> QED
  BY <1>1, RotationInductive, PTL

\* No step, of a rotation or of a new process, removes a backup and keeps one of
\* an earlier second, but for those that a New that fails could not remove.
THEOREM OldestRemovedFirst == Spec => RemovesOldest
<1> DEFINE Earlier(t) == {u \in ToKeep' : Second(u) < Second(t)}
           Safe == \A t \in BackupFiles : bdir'[t] = 0 =>
                     IF op' = "down" THEN Cardinality(Earlier(t)) < fails' - fails
                                     ELSE Earlier(t) = {}
<1>1. RInv /\ [Next]_vars => [Safe]_vars
  <2> SUFFICES ASSUME RInv, Next, NEW t \in BackupFiles, bdir'[t] = 0
               PROVE  IF op' = "down" THEN Cardinality(Earlier(t)) < fails' - fails
                                      ELSE Earlier(t) = {}
    OBVIOUS
  <2> HIDE DEF Earlier
  <2>1. bdir[t] # 0 /\ t \in Stamps /\ bdir \in [Stamps -> 0..files] /\ logFile \in 0..files
    BY DEF BackupFiles, RInv, FilesOK
  <2>2. CASE Remove
    <3>1. PICK b \in backups :
            /\ IsOldest(b, backups) /\ backups' = backups \ {b}
            /\ bdir' = [bdir EXCEPT ![b.time] = 0] \/ UNCHANGED bdir
      BY <2>2 DEF Remove
    <3>2. b.time = t /\ op' = "open"
      BY <2>1, <2>2, <3>1 DEF Remove
    <3>3. ASSUME NEW u \in ToKeep' PROVE ~(Second(u) < Second(t))
      <4>1. PICK c \in backups' : u = c.time
        BY <3>2 DEF ToKeep
      <4>2. Second(t) <= Second(u) /\ t \in Nat /\ u \in Nat
        BY <3>1, <3>2, <4>1 DEF IsOldest, RInv, HeapOK, Stamps
      <4> QED
        BY <4>2, SecondsGrow
    <3> QED
      BY <3>2, <3>3 DEF Earlier
  <2>3. CASE Restart
    <3>1. PICK removed \in SUBSET BackupFiles :
            \E failing \in SUBSET removed : ListBackups(removed, failing)
      BY <2>3 DEF Restart
    <3>2. t \in removed /\ op' = "idle"
      BY <2>1, <2>3, <3>1 DEF ListBackups, RemoveAll, Restart
    <3>3. ASSUME NEW u \in ToKeep' PROVE ~(Second(u) < Second(t))
      <4>1. PICK c \in backups' : u = c.time
        BY <3>2 DEF ToKeep
      <4>2. u \in BackupFiles \ removed
        BY <3>1, <4>1 DEF ListBackups, Backup
      <4>3. Second(t) <= Second(u) /\ t \in Nat /\ u \in Nat
        BY <3>1, <3>2, <4>2 DEF ListBackups, TakenOut, BackupFiles, Stamps
      <4> QED
        BY <4>3, SecondsGrow
    <3> QED
      BY <3>2, <3>3 DEF Earlier
  <2>4. CASE RestartFails
    <3>1. PICK removed \in SUBSET BackupFiles : \E failing \in SUBSET removed :
            /\ removed = {} \/ TakenOut(removed)
            /\ RemoveAll(removed, failing)
            /\ SysCallsFail(1 + Cardinality(failing))
      BY <2>4 DEF RestartFails
    <3>2. PICK failing \in SUBSET removed :
            /\ removed = {} \/ TakenOut(removed)
            /\ RemoveAll(removed, failing)
            /\ SysCallsFail(1 + Cardinality(failing))
      BY <3>1
    <3>3. t \in removed /\ op' = "down"
      BY <2>1, <2>4, <3>2 DEF RemoveAll, RestartFails
    <3>4. ASSUME NEW u \in ToKeep', Second(u) < Second(t) PROVE u \in failing
      <4>1. u \in BackupFiles /\ u \notin removed \ failing
        BY <2>1, <3>2, <3>3 DEF ToKeep, BackupFiles, RemoveAll
      <4>2. u \notin removed => Second(t) <= Second(u) /\ t \in Nat /\ u \in Nat
        BY <3>2, <3>3, <4>1 DEF TakenOut, BackupFiles, Stamps
      <4> QED
        BY <3>4, <4>1, <4>2, SecondsGrow
    <3>5. Earlier(t) \subseteq failing
      BY <3>4 DEF Earlier
    <3>6. IsFiniteSet(failing)
      BY HeapSizes, FS_Subset DEF RInv
    <3>7. /\ Cardinality(Earlier(t)) <= Cardinality(failing)
          /\ Cardinality(Earlier(t)) \in Nat /\ Cardinality(failing) \in Nat
      BY <3>5, <3>6, FS_Subset, FS_CardinalityType
    <3>8. fails' = fails + (1 + Cardinality(failing)) /\ fails \in Nat
      BY <3>2, Basics DEF SysCallsFail, RInv
    <3> QED
      BY <3>3, <3>7, <3>8
  <2>5. CASE Rename
    <3>1. PICK v \in Stamps : bdir' = [bdir EXCEPT ![v] = logFile]
      BY <2>5 DEF Rename
    <3> QED
      BY <2>1, <2>5, <3>1 DEF Rename
  <2>6. CASE ~(Remove \/ Restart \/ RestartFails \/ Rename)
    <3>1. bdir' = bdir
      BY <2>6 DEF Next, InCall, Write, Sync, FillAndFlush, WriteDirectly, EndOfWrite, FlushDirty,
                  RenameFails, Open, OpenFails, Close, Crash, fsVars
    <3> QED
      BY <2>1, <3>1
  <2> QED
    BY <2>2, <2>3, <2>4, <2>5, <2>6
<1> QED
  BY <1>1, RotationInductive, PTL DEF Spec, RemovesOldest

-----------------------------------------------------------------------------
(***************************************************************************)
(* The names of the backups.                                               *)
(***************************************************************************)

\* A rotation only begins when the file is full.
FullOK == op \in {"rename", "remove", "open"} => written >= MaxSize

LEMMA Renamed ==
  ASSUME RInv, Rename
  PROVE  \E t \in Stamps :
           /\ clock <= t /\ t \in Nat /\ (t = clock => tied')
           /\ bdir'[t] = logFile /\ BackupFiles' = BackupFiles \union {t}
           /\ \A u \in BackupFiles : u \in Nat /\ u <= clock
           /\ \A u \in BackupFiles' : u # t => u \in BackupFiles /\ bdir'[u] = bdir[u]
           /\ UNCHANGED <<data, buf, p, accepted>>
<1>1. PICK t \in Stamps :
        /\ RenameTime(t)
        /\ tied' = (tied \/ (clock > 0 /\ Second(t) = Second(clock)))
        /\ bdir' = [bdir EXCEPT ![t] = logFile]
  BY DEF Rename
<1>2. /\ BytesOK /\ StateOK /\ FilesOK /\ logFile # 0
      /\ UNCHANGED <<data, buf, p, accepted>>
  BY DEF RInv, Rename, bufVars, callVars
<1>3. t \in Nat /\ t >= 1 /\ clock \in Nat /\ clock <= t /\ bdir \in [Stamps -> 0..files]
  BY <1>1, <1>2, Basics, Sizes, RotationAssumption, SMTT(30) DEF RenameTime, FilesOK, Stamps
<1>4. bdir'[t] = logFile /\ \A u \in Stamps : u # t => bdir'[u] = bdir[u]
  BY <1>1, <1>3
<1>5. BackupFiles' = BackupFiles \union {t}
  BY <1>1, <1>2, <1>4 DEF BackupFiles
<1>6. \A u \in BackupFiles' : u # t => u \in BackupFiles /\ bdir'[u] = bdir[u]
  BY <1>4, <1>5 DEF BackupFiles
<1>7. t = clock => tied'
  <2>1. t = clock => clock > 0
    BY <1>3
  <2> QED
    BY <1>1, <2>1
<1>8. \A u \in BackupFiles : u \in Nat /\ u <= clock
  BY <1>2 DEF FilesOK, BackupFiles, Stamps
<1> QED
  BY <1>1, <1>2, <1>3, <1>4, <1>5, <1>6, <1>7, <1>8

LEMMA FewerNames ==
  ASSUME NamesByAge, \A t \in Stamps : bdir'[t] \in {0, bdir[t]}
  PROVE  \A t, u \in BackupFiles' : t < u => bdir'[t] < bdir'[u]
<1>1. \A t \in BackupFiles' : t \in BackupFiles /\ bdir'[t] = bdir[t]
  BY DEF BackupFiles
<1> QED
  BY <1>1 DEF NamesByAge

\* New and open() leave some of the backups.
LEMMA RemovesNames ==
  ASSUME RInv, Remove \/ Restart \/ RestartFails
  PROVE  \A t \in Stamps : bdir'[t] \in {0, bdir[t]}
<1>1. bdir \in [Stamps -> 0..files]
  BY DEF RInv, FilesOK
<1>2. CASE Remove
  BY <1>1, <1>2 DEF Remove
<1>3. CASE Restart \/ RestartFails
  BY <1>3, NewRemoves
<1> QED
  BY <1>2, <1>3

LEMMA NamesStep ==
  ASSUME RInv, NamesByAge, [Next]_vars
  PROVE  NamesByAge'
<1>1. /\ files \in Nat /\ logFile \in 0..files /\ bdir \in [Stamps -> 0..files]
      /\ \A t \in BackupFiles : bdir[t] \in 1..files
  BY Basics DEF RInv, FilesOK, BackupFiles
<1>2. CASE Rename
  <2>1. PICK t \in Stamps :
           /\ clock <= t /\ t \in Nat
           /\ bdir'[t] = logFile /\ BackupFiles' = BackupFiles \union {t}
           /\ \A u \in BackupFiles : u \in Nat /\ u <= clock
           /\ \A u \in BackupFiles' : u # t => u \in BackupFiles /\ bdir'[u] = bdir[u]
    BY <1>2, Renamed
  <2>2. logFile # 0 /\ logFile' = 0 /\ clock \in Nat
    BY <1>2, Basics DEF Rename, RInv
  <2>3. ASSUME NEW u \in BackupFiles', NEW v \in BackupFiles', u < v
        PROVE  bdir'[u] < bdir'[v]
    <3>1. u # t
      BY <2>1, <2>2, <2>3
    <3>2. u \in BackupFiles /\ bdir'[u] = bdir[u]
      BY <2>1, <3>1
    <3>3. CASE v = t
      BY <2>1, <2>2, <3>2, <3>3 DEF NamesByAge
    <3>4. CASE v # t
      BY <2>1, <2>3, <3>2, <3>4 DEF NamesByAge
    <3> QED
      BY <3>3, <3>4
  <2> QED
    BY <2>2, <2>3 DEF NamesByAge
<1>3. CASE Open
  <2>1. bdir' = bdir /\ logFile' = files + 1 /\ BackupFiles' = BackupFiles
    BY <1>3 DEF Open, BackupFiles
  <2> QED
    BY <1>1, <2>1 DEF NamesByAge
<1>4. CASE Remove \/ Restart \/ RestartFails
  <2>1. \A t \in Stamps : bdir'[t] \in {0, bdir[t]}
    BY <1>4, RemovesNames
  <2>2. \A t \in BackupFiles' : t \in BackupFiles /\ bdir'[t] = bdir[t]
    BY <2>1 DEF BackupFiles
  <2>3. logFile' = logFile \/ logFile' = files + 1
    BY <1>4 DEF Remove, Restart, RestartFails
  <2>4. logFile' # 0 => \A t \in BackupFiles' : bdir'[t] < logFile'
    BY <1>1, <2>2, <2>3 DEF NamesByAge
  <2> QED
    BY <2>1, <2>4, FewerNames DEF NamesByAge
<1>5. CASE ~(Rename \/ Open \/ Remove \/ Restart \/ RestartFails)
  <2>1. bdir' = bdir /\ logFile' = logFile
    BY <1>5 DEF Next, InCall, Write, Sync, FillAndFlush, WriteDirectly, EndOfWrite, FlushDirty,
                RenameFails, OpenFails, Close, Crash, fsVars, vars
  <2>2. BackupFiles' = BackupFiles
    BY <2>1 DEF BackupFiles
  <2> QED
    BY <2>1, <2>2 DEF NamesByAge
<1> QED
  BY <1>2, <1>3, <1>4, <1>5

LEMMA FullStep ==
  ASSUME RInv, FullOK, [Next]_vars
  PROVE  FullOK'
<1>1. CASE FlushDirty
  BY <1>1 DEF FlushDirty, MustRotate, FullOK
<1>2. CASE Rename \/ Remove
  BY <1>2 DEF Rename, Remove, counts, FullOK
<1>3. CASE Close \/ UNCHANGED vars
  BY <1>3 DEF Close, vars, counts, FullOK
<1>4. CASE ~(FlushDirty \/ Rename \/ Remove \/ Close \/ UNCHANGED vars)
  <2>1. op' \in {"idle", "write", "dirty", "down"}
    <3>1. CASE \E n \in 1..MaxLen : Write(n)
      BY <3>1 DEF Write
    <3>2. CASE FillAndFlush \/ WriteDirectly
      BY <3>2 DEF FillAndFlush, WriteDirectly
    <3>3. CASE ~(FillAndFlush \/ WriteDirectly \/ \E n \in 1..MaxLen : Write(n))
      BY <1>4, <3>3 DEF Next, InCall, Sync, EndOfWrite, RenameFails, Open, OpenFails, Crash,
                  Restart, RestartFails
    <3> QED
      BY <3>1, <3>2, <3>3
  <2> QED
    BY <2>1 DEF FullOK
<1> QED
  BY <1>1, <1>2, <1>3, <1>4

LEMMA NamesInit ==
  ASSUME Init
  PROVE  NamesByAge /\ FullOK
  BY DEF Init, NamesByAge, FullOK, BackupFiles

LEMMA NamesInductive == Spec => [](NamesByAge /\ FullOK)
  BY RotationInductive, NamesInit, NamesStep, FullStep, PTL DEF Spec

\* The times in the names of the backups tell the order in which the files were
\* created, and the log file is the newest.
THEOREM BackupsNamedByAge == Spec => []NamesByAge
  BY NamesInductive, PTL

-----------------------------------------------------------------------------
(***************************************************************************)
(* The files implement LogStream.                                          *)
(***************************************************************************)

LEMMA LiveTypes ==
  ASSUME RInv
  PROVE  /\ DOMAIN Stream = LiveFiles /\ LiveFiles \subseteq Files
         /\ \A i \in LiveFiles : i \in Nat /\ i <= files /\ i \in Files /\ Stream[i] = data[i]
         /\ \A i \in LiveFiles : i = logFile \/ \E t \in BackupFiles : i = bdir[t]
         /\ \A t \in BackupFiles : bdir[t] \in LiveFiles
         /\ logFile # 0 => logFile \in LiveFiles
<1>1. /\ files \in Nat /\ files \in Files /\ logFile \in 0..files /\ bdir \in [Stamps -> 0..files]
      /\ \A t \in BackupFiles : bdir[t] \in 1..files
  BY Basics DEF RInv, FilesOK, BackupFiles
<1>2. /\ \A i \in LiveFiles : i = logFile \/ \E t \in BackupFiles : i = bdir[t]
      /\ \A i \in LiveFiles : i # 0
      /\ \A t \in BackupFiles : bdir[t] \in LiveFiles
      /\ logFile # 0 => logFile \in LiveFiles
  BY <1>1 DEF LiveFiles
<1>3. \A i \in LiveFiles : i \in 1..files
  BY <1>1, <1>2
<1>4. \A i \in 1..files : i \in Nat /\ i <= files /\ i \in Files
  BY <1>1, Sizes DEF Files
<1>5. DOMAIN Stream = LiveFiles /\ \A i \in LiveFiles : Stream[i] = data[i]
  BY DEF Stream
<1> QED
  BY <1>2, <1>3, <1>4, <1>5

\* Nothing is mended.
LEMMA BrokenStays ==
  ASSUME RInv, [Next]_vars, Broken
  PROVE  Broken'
<1>1. /\ fails \in Nat /\ crashes \in Nat /\ StateOK
  BY Basics DEF RInv
<1>2. ASSUME NEW s, NEW m, FileWrite(s, m) PROVE fails' \in Nat /\ fails <= fails'
  BY <1>1, <1>2 DEF FileWrite
<1>3. CASE WriteDirectly \/ FillAndFlush \/ Sync
  <2>1. /\ tied' = tied /\ crashes' = crashes
    BY <1>3 DEF WriteDirectly, FillAndFlush, Sync
  <2>2. fails' \in Nat /\ fails <= fails' /\ (bufErr => bufErr')
    <3>1. PICK x, y : Flow(x, y)
      BY <1>3, WriteDirectlyKeeps, FillAndFlushKeeps, SyncKeeps DEF Moves
    <3> QED
      BY <1>1, <3>1, Sizes DEF Flow
  <2> QED
    BY <1>1, <2>1, <2>2 DEF Broken
<1>4. CASE Rename
  <2>1. bufErr' = bufErr /\ fails' = fails /\ crashes' = crashes /\ (tied => tied')
    BY <1>4 DEF Rename, bufVars
  <2> QED
    BY <2>1 DEF Broken
<1>5. CASE Crash
  <2>1. crashes' > 0
    BY <1>1, <1>5 DEF Crash
  <2> QED
    BY <2>1 DEF Broken
<1>6. CASE ~(WriteDirectly \/ FillAndFlush \/ Sync \/ Rename \/ Crash)
  <2>1. tied' = tied /\ crashes' = crashes /\ bufErr' = bufErr
    BY <1>6 DEF Next, InCall, Write, EndOfWrite, FlushDirty, RenameFails, Remove, Open, OpenFails,
                Close, Restart, RestartFails, vars, envVars, bufVars
  <2>2. ASSUME Restart \/ RestartFails PROVE fails' \in Nat /\ fails <= fails'
    BY <1>1, <2>2, NewRemoves
  <2>3. fails' \in Nat /\ fails <= fails'
    <3>1. fails' = fails \/ SysCallFails \/ Restart \/ RestartFails
      BY <1>6 DEF Next, InCall, Write, EndOfWrite, FlushDirty, RenameFails, Remove, Open,
                  OpenFails, Close, vars, envVars
    <3> QED
      BY <1>1, <2>2, <3>1 DEF SysCallFails, SysCallsFail
  <2> QED
    BY <1>1, <2>1, <2>3 DEF Broken
<1> QED
  BY <1>3, <1>4, <1>5, <1>6

LEMMA PromiseBreak ==
  ASSUME RInv, RInv', Broken => Broken', Stream' = Stream, buf' \o p' = buf \o p,
         accepted' = accepted
  PROVE  [Promise!Next]_Promise!streamVars
<1>1. CASE Broken'
  BY <1>1 DEF Promise!Next, Promise!Break
<1>2. CASE ~Broken'
  <2>1. Broken' = Broken
    BY <1>2 DEF Broken
  <2> QED
    BY <2>1 DEF Promise!streamVars
<1> QED
  BY <1>1, <1>2

LEMMA SplitBack ==
  ASSUME NEW x \in Seq(Nat), NEW y \in Seq(Nat)
  PROVE  /\ SubSeq(x \o y, 1, Len(x)) = x
         /\ SubSeq(x \o y, Len(x) + 1, Len(x \o y)) = y
         /\ Len(x \o y) = Len(x) + Len(y) /\ Len(x) \in Nat /\ Len(y) \in Nat
         /\ x # <<>> => Len(x) > 0
<1> DEFINE s == x \o y
           m == Len(x)
           n == Len(y)
<1>1. m \in Nat /\ n \in Nat /\ (x # <<>> => m > 0)
  OBVIOUS
<1>2. /\ s \in Seq(Nat) /\ Len(s) = m + n
      /\ \A i \in 1..m : i \in 1..(m + n) /\ s[i] = x[i]
      /\ \A i \in 1..n : m + i \in 1..(m + n) /\ s[m + i] = y[i]
  BY ConcatParts, SMTT(30)
<1> HIDE DEF s
<1>3. m \in 0..Len(s) /\ m + 1 \in Int /\ 1 \in Int /\ m \in Int /\ Len(s) \in Int
  BY <1>1, <1>2
<1>4. \A i \in 1..Len(s) : s[i] \in Nat
  BY <1>2, SeqBasics
<1>5. SubSeq(s, 1, m) = x
  <2>1. /\ SubSeq(s, 1, m) \in Seq(Nat) /\ Len(SubSeq(s, 1, m)) = m
    BY <1>2, <1>3, SplitAt
  <2>2. /\ \A i \in 1..(m - 1 + 1) : SubSeq(s, 1, m)[i] = s[1 + i - 1]
    <3>1. \A i \in 1..m : s[i] \in Nat
      BY <1>1, <1>2, <1>4
    <3> QED
      BY <1>3, <3>1, SubSeqProperties
  <2>3. \A i \in 1..m : SubSeq(s, 1, m)[i] = s[i]
    BY <1>1, <2>2
  <2> QED
    BY <1>2, <2>1, <2>3, SeqEqual
<1>6. SubSeq(s, m + 1, Len(s)) = y
  <2> DEFINE d == SubSeq(s, m + 1, Len(s))
  <2>1. d \in Seq(Nat) /\ Len(d) = n
    <3>1. DropFirst(s, m) \in Seq(Nat) /\ Len(DropFirst(s, m)) = Len(s) - m
      BY <1>2, <1>3, SplitAt
    <3> QED
      BY <1>1, <1>2, <3>1 DEF DropFirst
  <2>2. \A i \in 1..(Len(s) - (m + 1) + 1) : d[i] = s[m + 1 + i - 1]
    <3>1. \A i \in (m + 1)..Len(s) : s[i] \in Nat
      BY <1>1, <1>2, <1>4
    <3> QED
      BY <1>3, <3>1, SubSeqProperties
  <2>3. \A i \in 1..n : d[i] = s[m + i]
    <3>1. Len(s) - (m + 1) + 1 = n /\ \A i \in 1..n : m + 1 + i - 1 = m + i
      BY <1>1, <1>2
    <3> QED
      BY <2>2, <3>1
  <2> HIDE DEF d
  <2>4. \A i \in 1..n : d[i] = y[i]
    BY <1>2, <2>3
  <2>5. d = y
    BY <2>1, <2>4, SeqEqual
  <2> QED
    BY <2>5 DEF d
<1> QED
  BY <1>1, <1>2, <1>5, <1>6 DEF s

\* The file in use is the newest, if it has a name.
LEMMA UsedIsNewest ==
  ASSUME RInv, NamesByAge, f \in LiveFiles
  PROVE  Promise!Newest(f)
<1>1. FilesOK /\ bdir \in [Stamps -> 0..files]
  BY DEF RInv, FilesOK
<1> SUFFICES ASSUME NEW j \in LiveFiles PROVE j <= f
  BY LiveTypes DEF Promise!Newest
<1>2. j \in Nat /\ f \in Nat
  BY LiveTypes
<1>3. CASE logFile # 0
  <2>1. f = logFile
    BY <1>1, <1>3 DEF FilesOK
  <2>2. CASE j = logFile
    BY <1>2, <2>1, <2>2
  <2>3. CASE j # logFile
    <3>1. PICK t \in BackupFiles : j = bdir[t]
      BY <2>3, LiveTypes
    <3>2. bdir[t] < logFile
      BY <1>3 DEF NamesByAge
    <3> QED
      BY <1>2, <2>1, <3>1, <3>2
  <2> QED
    BY <2>2, <2>3
<1>4. CASE logFile = 0
  <2>1. PICK t \in BackupFiles : f = bdir[t]
    BY <1>2, <1>4, LiveTypes DEF RInv, FilesOK
  <2>2. PICK u \in BackupFiles : j = bdir[u]
    BY <1>4, LiveTypes DEF LiveFiles
  <2>3. u <= t /\ u \in Nat /\ t \in Nat
    BY <1>1, <2>1 DEF FilesOK, BackupFiles, Stamps
  <2>4. u < t => bdir[u] < bdir[t]
    BY DEF NamesByAge
  <2> QED
    BY <1>2, <2>1, <2>2, <2>3, <2>4
<1> QED
  BY <1>3, <1>4

-----------------------------------------------------------------------------

LEMMA StoreSteps ==
  ASSUME RInv, RInv', NamesByAge, Broken => Broken', Moves
  PROVE  [Promise!Next]_Promise!streamVars
<1>1. PICK x, y : Flow(x, y) /\ buf' \o p' = y
  BY DEF Moves
<1>2. /\ x \in Seq(Nat) /\ y \in Seq(Nat) /\ buf \o p = x \o y
      /\ data' = [data EXCEPT ![f] = @ \o x]
      /\ UNCHANGED <<logFile, bdir, accepted>>
  <2>1. accepted \in Nat
    BY Basics DEF RInv
  <2>2. \A s : s \in Seq(1..accepted) => s \in Seq(Nat)
    BY <2>1, WiderSeq
  <2> QED
    BY <1>1, <2>2 DEF Flow
<1>3. LiveFiles' = LiveFiles
  BY <1>2 DEF LiveFiles, BackupFiles
<1>4. /\ data \in [Files -> Seq(Nat)] /\ f \in Files /\ fails \in Nat /\ FilesOK /\ CountsOK
  BY Basics DEF RInv
<1>5. /\ SubSeq(x \o y, 1, Len(x)) = x
      /\ SubSeq(x \o y, Len(x) + 1, Len(x \o y)) = y
      /\ Len(x \o y) = Len(x) + Len(y) /\ Len(x) \in Nat /\ Len(y) \in Nat
      /\ x # <<>> => Len(x) > 0
  BY <1>2, SplitBack
<1>6. CASE x = <<>>
  <2>1. data' = data
    BY <1>2, <1>4, <1>6
  <2>2. Stream' = Stream
    BY <1>3, <2>1 DEF Stream
  <2>3. x \o y = y
    BY <1>2, <1>6
  <2> QED
    BY <1>1, <1>2, <2>2, <2>3, PromiseBreak
<1>7. CASE x # <<>> /\ f \in LiveFiles
  <2>1. Promise!Newest(f)
    BY <1>7, UsedIsNewest
  <2>2. DOMAIN Stream = LiveFiles /\ Stream[f] = data[f] /\ LiveFiles \subseteq Files
    BY <1>7, LiveTypes
  <2>3. Stream' = [Stream EXCEPT ![f] = @ \o x]
    <3>1. Stream' = [i \in LiveFiles |-> data'[i]]
      BY <1>3 DEF Stream
    <3>2. \A i \in LiveFiles : data'[i] = IF i = f THEN data[f] \o x ELSE data[i]
      BY <1>2, <1>4, <2>2
    <3> QED
      BY <3>1, <3>2 DEF Stream
  <2>4. Len(x) \in 1..Len(buf \o p)
    BY <1>2, <1>5, <1>7
  <2>5. Promise!Store
    BY <1>1, <1>2, <1>5, <1>7, <2>1, <2>2, <2>3, <2>4, Zenon DEF Promise!Store
  <2> QED
    BY <2>5 DEF Promise!Next
<1>8. CASE f \notin LiveFiles
  <2>1. Stream' = Stream
    <3>1. \A i \in LiveFiles : data'[i] = data[i]
      BY <1>2, <1>4, <1>8, LiveTypes
    <3> QED
      BY <1>3, <3>1 DEF Stream
  <2>2. Broken'
    <3>1. logFile = 0
      BY <1>4, <1>8, LiveTypes DEF FilesOK
    <3>2. op \notin {"remove", "open", "down"}
      BY <1>1 DEF Flow
    <3>3. fails # 0
      BY <1>4, <3>1, <3>2 DEF CountsOK
    <3>4. fails > 0
      BY <1>4, <3>3
    <3> QED
      BY <3>4 DEF Broken
  <2>3. /\ Len(x) + 1 \in 1..(Len(buf \o p) + 1) /\ Len(buf \o p) + 1 \in 1..(Len(buf \o p) + 1)
        /\ (Len(buf \o p) + 1) - 1 = Len(buf \o p)
    BY <1>2, <1>5
  <2>4. Promise!Lose
    BY <1>1, <1>2, <1>5, <2>1, <2>2, <2>3, Zenon DEF Promise!Lose
  <2> QED
    BY <2>4 DEF Promise!Next
<1> QED
  BY <1>6, <1>7, <1>8

LEMMA AcceptSteps ==
  ASSUME RInv, RInv', Broken => Broken', NEW n \in 1..MaxLen, Write(n)
  PROVE  [Promise!Next]_Promise!streamVars
<1>1. /\ n \in Nat /\ n > 0 /\ accepted \in Nat /\ buf \in Seq(Nat) /\ BytesOK
  BY Basics, Sizes DEF RInv
<1>2. /\ p' = Bytes(accepted + 1, accepted + n) /\ accepted' = accepted + n
      /\ UNCHANGED <<data, logFile, bdir, buf>> /\ op = "idle"
  BY DEF Write, fsVars, bufVars
<1>3. p = <<>> /\ buf \o p = buf
  <2>1. p = <<>>
    BY <1>1, <1>2 DEF BytesOK
  <2> QED
    BY <1>1, <2>1
<1>4. p' = [i \in 1..(accepted' - accepted) |-> accepted + i]
  <2>1. accepted + n - (accepted + 1) + 1 = n /\ (accepted + n) - accepted = n
    BY <1>1
  <2>2. \A i \in 1..n : accepted + 1 + i - 1 = accepted + i
    BY <1>1
  <2>3. Bytes(accepted + 1, accepted + n) = [i \in 1..n |-> accepted + i]
    BY <1>1, <2>1, <2>2 DEF Bytes
  <2>4. accepted' - accepted = n
    BY <1>2, <2>1
  <2> QED
    BY <1>2, <2>3, <2>4, Zenon
<1>5. Stream' = Stream
  BY <1>2 DEF Stream, LiveFiles, BackupFiles
<1>6. Promise!Accept
  <2>1. accepted' > accepted
    BY <1>1, <1>2
  <2>2. buf' \o p' = (buf \o p) \o [i \in 1..(accepted' - accepted) |-> accepted + i]
    BY <1>2, <1>3, <1>4
  <2> QED
    BY <1>5, <2>1, <2>2 DEF Promise!Accept
<1> QED
  BY <1>6 DEF Promise!Next

LEMMA LoseSteps ==
  ASSUME RInv, RInv', Broken => Broken', EndOfWrite \/ Crash
  PROVE  [Promise!Next]_Promise!streamVars
<1>1. buf \in Seq(Nat) /\ p \in Seq(Nat) /\ buf \o p \in Seq(Nat) /\ crashes \in Nat
      /\ Len(buf \o p) = Len(buf) + Len(p) /\ Len(buf) \in Nat /\ Len(p) \in Nat
  BY Basics DEF RInv
<1>2. Stream' = Stream /\ accepted' = accepted
  BY DEF EndOfWrite, Crash, fsVars, envVars, Stream, LiveFiles, BackupFiles
<1>3. CASE EndOfWrite
  <2>1. p' = <<>> /\ buf' = IF bufErr THEN buf ELSE buf \o p
    BY <1>3 DEF EndOfWrite
  <2>2. buf' \o p' = buf'
    BY <1>1, <2>1
  <2>3. CASE bufErr
    <3>1. Broken'
      BY <2>3 DEF Broken
    <3>2. SubSeq(buf \o p, 1, (Len(buf) + 1) - 1) = buf
      <4>1. (Len(buf) + 1) - 1 = Len(buf)
        BY <1>1
      <4> QED
        BY <1>1, <4>1, SplitBack
    <3>3. 1 \in 1..(Len(buf \o p) + 1) /\ Len(buf) + 1 \in 1..(Len(buf \o p) + 1)
      BY <1>1
    <3>4. Promise!Lose
      BY <1>2, <2>1, <2>2, <2>3, <3>1, <3>2, <3>3, Zenon DEF Promise!Lose
    <3> QED
      BY <3>4 DEF Promise!Next
  <2>4. CASE ~bufErr
    BY <1>2, <2>1, <2>2, <2>4, PromiseBreak
  <2> QED
    BY <2>3, <2>4
<1>4. CASE Crash
  <2>1. buf' = <<>> /\ p' = <<>> /\ crashes' = crashes + 1
    BY <1>4 DEF Crash
  <2>2. Broken' /\ buf' \o p' = <<>>
    <3>1. crashes' > 0
      BY <1>1, <2>1
    <3> QED
      BY <2>1, <3>1 DEF Broken
  <2>3. SubSeq(buf \o p, 1, 1 - 1) = <<>>
    BY <1>1
  <2>4. 1 \in 1..(Len(buf \o p) + 1)
    BY <1>1
  <2>5. Promise!Lose
    BY <1>2, <2>2, <2>3, <2>4, Zenon DEF Promise!Lose
  <2> QED
    BY <2>5 DEF Promise!Next
<1> QED
  BY <1>3, <1>4

\* Only the oldest backup goes while nothing is wrong, and it is one too many.
LEMMA OldestGoes ==
  ASSUME RInv, NamesByAge, ~Broken, Remove, NEW b \in backups, IsOldest(b, backups),
         bdir' = [bdir EXCEPT ![b.time] = 0]
  PROVE  /\ Promise!Oldest(bdir[b.time]) /\ LiveFiles' = LiveFiles \ {bdir[b.time]}
         /\ Cardinality(LiveFiles \ {bdir[b.time]}) >= MaxBackups
<1>1. /\ FilesOK /\ HeapOK /\ StateOK /\ ~bufErr /\ crashes = 0 /\ ~tied /\ fails = 0
      /\ op = "remove" /\ logFile = 0 /\ logFile' = 0
  <2>1. FilesOK /\ HeapOK /\ StateOK /\ fails \in Nat /\ crashes \in Nat
    BY Basics DEF RInv
  <2> QED
    BY <2>1 DEF Broken, Remove, FilesOK
<1>2. /\ \A c \in backups : bdir[c.time] # 0
      /\ \A c, d \in backups : c # d => Second(c.time) # Second(d.time)
  BY <1>1 DEF RInv, KeptOK, Gapless
<1>3. /\ Cardinality(backups) > MaxBackups /\ IsFiniteSet(backups) /\ Orphans = {}
      /\ backups \in SUBSET [time : Stamps, file : Files]
  <2>1. Cardinality(Orphans) <= 0 /\ Cardinality(Orphans) \in Nat /\ IsFiniteSet(Orphans)
    BY <1>1, HeapSizes DEF HeapOK
  <2>2. Orphans = {}
    BY <2>1, FS_EmptySet
  <2> QED
    BY <1>1, <2>2 DEF HeapOK
<1>4. /\ \A c \in backups : c.time \in BackupFiles /\ c.time \in Nat
      /\ \A t \in BackupFiles : \E c \in backups : c.time = t
  BY <1>2, <1>3 DEF BackupFiles, Orphans, Times, Stamps
<1>5. ASSUME NEW c \in backups, c # b PROVE b.time < c.time
  <2>1. Second(b.time) < Second(c.time) /\ b.time \in Nat /\ c.time \in Nat
    <3>1. Second(b.time) # Second(c.time) /\ b.time \in Nat /\ c.time \in Nat
      BY <1>2, <1>4, <1>5
    <3>2. Second(b.time) <= Second(c.time)
      BY DEF IsOldest
    <3>3. Second(b.time) \in Int /\ Second(c.time) \in Int
      BY <3>1, SecondsGrow
    <3> QED
      BY <3>1, <3>2, <3>3
  <2>2. c.time <= b.time => Second(c.time) <= Second(b.time)
    BY <2>1, SecondsGrow
  <2>3. Second(b.time) \in Int /\ Second(c.time) \in Int
    BY <2>1, SecondsGrow
  <2> QED
    BY <2>1, <2>2, <2>3
<1>6. LiveFiles = {bdir[t] : t \in BackupFiles}
  BY <1>1 DEF LiveFiles
<1>7. Promise!Oldest(bdir[b.time])
  <2>1. bdir[b.time] \in LiveFiles
    BY <1>4, <1>6
  <2>2. ASSUME NEW j \in LiveFiles PROVE bdir[b.time] <= j
    <3>1. PICK t \in BackupFiles : j = bdir[t]
      BY <1>6
    <3>2. PICK c \in backups : c.time = t
      BY <1>4
    <3>3. bdir[b.time] \in Nat
      BY <1>4, LiveTypes
    <3>4. CASE c = b
      BY <3>1, <3>2, <3>3, <3>4
    <3>5. CASE c # b
      <4>1. bdir[b.time] < bdir[t]
        BY <1>4, <1>5, <3>2, <3>5 DEF NamesByAge
      <4>2. bdir[t] \in Nat
        BY LiveTypes
      <4> QED
        BY <3>1, <3>3, <4>1, <4>2
    <3> QED
      BY <3>4, <3>5
  <2> QED
    BY <2>1, <2>2, LiveTypes DEF Promise!Oldest
<1>8. LiveFiles' = LiveFiles \ {bdir[b.time]}
  <2>1. bdir \in [Stamps -> 0..files] /\ b.time \in Stamps
    BY <1>1, <1>3 DEF FilesOK
  <2>2. \A u \in Stamps : bdir'[u] = IF u = b.time THEN 0 ELSE bdir[u]
    BY <2>1
  <2>3. BackupFiles' = BackupFiles \ {b.time}
    BY <2>2 DEF BackupFiles
  <2>4. LiveFiles' = {bdir'[t] : t \in BackupFiles'}
    BY <1>1 DEF LiveFiles
  <2>5. \A t \in BackupFiles : t # b.time => bdir[t] # bdir[b.time]
    BY <1>1, <1>4 DEF FilesOK
  <2>6. \A t \in BackupFiles' : t \in BackupFiles /\ t # b.time /\ bdir'[t] = bdir[t]
    BY <2>2, <2>3 DEF BackupFiles
  <2>7. \A i \in LiveFiles' : i \in LiveFiles \ {bdir[b.time]}
    BY <1>6, <2>4, <2>5, <2>6
  <2>8. \A i \in LiveFiles \ {bdir[b.time]} : i \in LiveFiles'
    <3>1. ASSUME NEW i \in LiveFiles, i # bdir[b.time] PROVE i \in LiveFiles'
      <4>1. PICK t \in BackupFiles : i = bdir[t]
        BY <1>6
      <4>2. t \in BackupFiles'
        BY <2>3, <3>1, <4>1
      <4> QED
        BY <2>4, <2>6, <4>1, <4>2
    <3> QED
      BY <3>1
  <2> QED
    BY <2>7, <2>8
<1>9. Cardinality(LiveFiles \ {bdir[b.time]}) >= MaxBackups
  <2> DEFINE h == [i \in LiveFiles |-> CHOOSE c \in backups : bdir[c.time] = i]
  <2>1. \A i \in LiveFiles : \E c \in backups : bdir[c.time] = i
    BY <1>4, <1>6
  <2>2. \A i \in LiveFiles : h[i] \in backups /\ bdir[h[i].time] = i
    BY <2>1
  <2>3. h \in [LiveFiles -> backups]
    BY <2>2
  <2>4. \A c \in backups : bdir[c.time] \in LiveFiles
    BY <1>4, <1>6
  <2> HIDE DEF h
  <2>5. \A c \in backups : \E i \in LiveFiles : h[i] = c
    <3>1. ASSUME NEW c \in backups PROVE h[bdir[c.time]] = c
      <4>1. PICK d \in backups : d = h[bdir[c.time]] /\ bdir[d.time] = bdir[c.time]
        BY <2>2, <2>4
      <4>2. d.time = c.time
        BY <1>1, <1>4, <4>1 DEF FilesOK
      <4>3. d = c
        BY <1>2, <4>2
      <4> QED
        BY <4>1, <4>3
    <3> QED
      BY <2>4, <3>1
  <2>6. IsFiniteSet(LiveFiles)
    <3>1. IsFiniteSet(Files) /\ LiveFiles \subseteq Files
      BY LiveTypes, FS_Interval, Sizes DEF Files
    <3> QED
      BY <3>1, FS_Subset
  <2>7. Cardinality(backups) <= Cardinality(LiveFiles)
    BY <2>3, <2>5, <2>6, ImageSize
  <2>8. bdir[b.time] \in LiveFiles
    BY <2>4
  <2>9. /\ Cardinality(LiveFiles \ {bdir[b.time]}) = Cardinality(LiveFiles) - 1
        /\ Cardinality(LiveFiles) \in Nat /\ Cardinality(backups) \in Nat
    BY <1>3, <2>6, <2>8, FS_RemoveElement, FS_CardinalityType
  <2> QED
    BY <1>3, <2>7, <2>9, Sizes
<1> QED
  BY <1>7, <1>8, <1>9

\* Files are only removed, nothing else.
LEMMA ExpireBroken ==
  ASSUME RInv, RInv', Broken', LiveFiles' \subseteq LiveFiles,
         UNCHANGED <<data, buf, p, accepted>>
  PROVE  [Promise!Next]_Promise!streamVars
<1>1. DOMAIN Stream = LiveFiles
  BY LiveTypes
<1>2. Stream' = [i \in LiveFiles' |-> Stream[i]]
  <2>1. Stream' = [i \in LiveFiles' |-> data[i]]
    BY DEF Stream
  <2>2. \A i \in LiveFiles' : Stream[i] = data[i]
    BY LiveTypes
  <2> QED
    BY <2>1, <2>2
<1>3. LiveFiles' \in SUBSET DOMAIN Stream
  BY <1>1
<1>4. Promise!Expire
  <2>1. UNCHANGED <<buf \o p, accepted>>
    OBVIOUS
  <2> QED
    BY <1>2, <1>3, <2>1, Zenon DEF Promise!Expire, Promise!Only
<1> QED
  BY <1>4 DEF Promise!Next

\* LogStream counts as Rotation does.
LEMMA SameCardinality == \A S : Promise!Cardinality(S) = Cardinality(S)
  BY DEF Promise!Cardinality, Cardinality

LEMMA RemoveSteps ==
  ASSUME RInv, RInv', NamesByAge, Broken => Broken', Remove
  PROVE  [Promise!Next]_Promise!streamVars
<1>1. PICK b \in backups :
        /\ IsOldest(b, backups)
        /\ \/ bdir' = [bdir EXCEPT ![b.time] = 0] /\ UNCHANGED fails
           \/ SysCallFails /\ UNCHANGED bdir
  BY DEF Remove
<1>2. /\ UNCHANGED <<data, logFile, buf, p, accepted, bufErr, crashes, tied>>
      /\ fails \in Nat
  BY Basics DEF Remove, bufVars, callVars, RInv
<1>3. CASE UNCHANGED bdir
  <2>1. Stream' = Stream
    BY <1>2, <1>3 DEF Stream, LiveFiles, BackupFiles
  <2> QED
    BY <1>2, <2>1, PromiseBreak
<1>4. CASE bdir' = [bdir EXCEPT ![b.time] = 0] /\ UNCHANGED fails
  <2>1. CASE Broken'
    <3>1. LiveFiles' \subseteq LiveFiles
      <4>1. bdir \in [Stamps -> 0..files]
        BY DEF RInv, FilesOK
      <4>2. \A t \in BackupFiles' : t \in BackupFiles /\ bdir'[t] = bdir[t]
        BY <1>4, <4>1 DEF BackupFiles
      <4> QED
        BY <1>2, <4>2 DEF LiveFiles
    <3> QED
      BY <1>2, <2>1, <3>1, ExpireBroken
  <2>2. CASE ~Broken'
    <3> DEFINE i == bdir[b.time]
    <3>1. ~Broken
      BY <2>2
    <3>2. /\ Promise!Oldest(i) /\ LiveFiles' = LiveFiles \ {i}
          /\ Cardinality(LiveFiles \ {i}) >= MaxBackups
      BY <1>1, <1>4, <3>1, OldestGoes
    <3>3. DOMAIN Stream = LiveFiles
      BY LiveTypes
    <3>4. Stream' = [j \in LiveFiles \ {i} |-> Stream[j]]
      <4>1. Stream' = [j \in LiveFiles \ {i} |-> data[j]]
        BY <1>2, <3>2 DEF Stream
      <4>2. \A j \in LiveFiles : Stream[j] = data[j]
        BY LiveTypes
      <4> QED
        BY <4>1, <4>2
    <3>5. i \in DOMAIN Stream
      BY <3>2 DEF Promise!Oldest
    <3> HIDE DEF i
    <3>6. LiveFiles \ {i} \in SUBSET DOMAIN Stream /\ UNCHANGED <<buf \o p, accepted>>
      BY <1>2, <3>3
    <3>7. Promise!Expire
      <4>1. \E j \in DOMAIN Stream : Promise!Oldest(j) /\ LiveFiles \ {i} = DOMAIN Stream \ {j}
        BY <3>2, <3>3, <3>5
      <4> QED
        BY <3>2, <3>4, <3>6, <4>1, SameCardinality, Zenon DEF Promise!Expire, Promise!Only
    <3> QED
      BY <2>2, <3>1, <3>7 DEF Promise!Next
  <2> QED
    BY <2>1, <2>2
<1> QED
  BY <1>1, <1>3, <1>4

LEMMA RenameSteps ==
  ASSUME RInv, RInv', Broken => Broken', Rename
  PROVE  [Promise!Next]_Promise!streamVars
<1>1. PICK t \in Stamps :
        /\ clock <= t /\ t \in Nat /\ (t = clock => tied')
        /\ bdir'[t] = logFile /\ BackupFiles' = BackupFiles \union {t}
        /\ \A u \in BackupFiles : u \in Nat /\ u <= clock
        /\ \A u \in BackupFiles' : u # t => u \in BackupFiles /\ bdir'[u] = bdir[u]
        /\ UNCHANGED <<data, buf, p, accepted>>
  BY Renamed
<1>2. logFile # 0 /\ logFile' = 0 /\ clock \in Nat
  BY Basics DEF Rename, RInv
<1>3. LiveFiles' \subseteq LiveFiles
  <2>1. LiveFiles' = {bdir'[u] : u \in BackupFiles'}
    BY <1>2 DEF LiveFiles
  <2>2. \A u \in BackupFiles' : bdir'[u] \in LiveFiles
    <3>1. bdir'[t] \in LiveFiles
      BY <1>1, <1>2 DEF LiveFiles
    <3>2. \A u \in BackupFiles' : u # t => bdir'[u] \in LiveFiles
      BY <1>1 DEF LiveFiles
    <3> QED
      BY <3>1, <3>2
  <2> QED
    BY <2>1, <2>2
<1>4. CASE Broken'
  BY <1>1, <1>3, <1>4, ExpireBroken
<1>5. CASE ~Broken'
  <2>1. t \notin BackupFiles
    <3>1. t # clock
      BY <1>1, <1>5 DEF Broken
    <3> QED
      BY <1>1, <1>2, <3>1
  <2>2. LiveFiles \subseteq LiveFiles'
    <3>1. LiveFiles' = {bdir'[u] : u \in BackupFiles'}
      BY <1>2 DEF LiveFiles
    <3>2. logFile \in LiveFiles'
      BY <1>1, <3>1
    <3>3. \A u \in BackupFiles : bdir[u] \in LiveFiles'
      BY <1>1, <2>1, <3>1
    <3> QED
      BY <3>2, <3>3 DEF LiveFiles
  <2>3. Stream' = Stream
    <3>1. LiveFiles' = LiveFiles
      BY <1>3, <2>2
    <3> QED
      BY <1>1, <3>1 DEF Stream
  <2> QED
    BY <1>1, <2>3, PromiseBreak
<1> QED
  BY <1>4, <1>5

LEMMA OpenSteps ==
  ASSUME RInv, RInv', NamesByAge, FullOK, Broken => Broken', Open
  PROVE  [Promise!Next]_Promise!streamVars
<1>1. /\ FilesOK /\ CountsOK /\ files \in Nat /\ data \in [Files -> Seq(Nat)] /\ f \in Files
      /\ fails \in Nat /\ crashes \in Nat /\ bufErr \in BOOLEAN
  BY Basics DEF RInv, StateOK
<1>2. /\ op = "open" /\ logFile = 0 /\ files' = files + 1 /\ logFile' = files + 1
      /\ files + 1 \in Files /\ buf' = buf
      /\ UNCHANGED <<data, bdir, p, accepted>>
  BY <1>1, Sizes DEF Open, FilesOK, KeptByReset, callVars, envVars, Files
<1>3. LiveFiles' = LiveFiles \union {files + 1}
  <2>1. BackupFiles' = BackupFiles
    BY <1>2 DEF BackupFiles
  <2>2. logFile' # 0
    BY <1>1, <1>2
  <2> QED
    BY <1>2, <2>1, <2>2 DEF LiveFiles
<1>4. DOMAIN Stream = LiveFiles /\ \A i \in LiveFiles : i < files + 1 /\ Stream[i] = data[i]
  BY <1>1, LiveTypes
<1>5. data[files + 1] = <<>>
  BY <1>1, <1>2 DEF FilesOK
<1>6. Stream' = [i \in LiveFiles \union {files + 1} |-> IF i = files + 1 THEN <<>> ELSE Stream[i]]
  <2>1. Stream' = [i \in LiveFiles \union {files + 1} |-> data[i]]
    BY <1>2, <1>3 DEF Stream
  <2>2. \A i \in LiveFiles \union {files + 1} :
          data[i] = IF i = files + 1 THEN <<>> ELSE Stream[i]
    BY <1>4, <1>5
  <2> QED
    BY <2>1, <2>2
<1>7. Broken \/ \E i \in DOMAIN Stream : Promise!Newest(i) /\ Len(Stream[i]) >= MaxSize
  <2> SUFFICES ASSUME ~Broken PROVE \E i \in LiveFiles : Promise!Newest(i) /\ Len(Stream[i]) >= MaxSize
    BY <1>4
  <2>1. fails = 0 /\ crashes = 0 /\ ~bufErr /\ ~tied
    BY <1>1 DEF Broken
  <2>2. f \in LiveFiles
    <3>1. PICK b \in backups : bdir[b.time] = f
      BY <1>2, <2>1 DEF RInv, KeptOK, Gapless
    <3>2. b.time \in Stamps /\ f # 0
      BY <1>1 DEF RInv, HeapOK, FilesOK
    <3>3. b.time \in BackupFiles
      BY <3>1, <3>2 DEF BackupFiles
    <3> QED
      BY <3>1, <3>3, LiveTypes
  <2>3. Len(data[f]) >= MaxSize
    <3>1. written + 0 = Len(data[f]) /\ written >= MaxSize /\ written \in Nat
      BY <1>2, <2>1 DEF RInv, StateOK, CountsOK, FullOK
    <3> QED
      BY <3>1
  <2> QED
    BY <1>4, <2>2, <2>3, UsedIsNewest
<1>8. Promise!Roll
  <2>1. UNCHANGED <<buf \o p, accepted>>
    BY <1>2
  <2> QED
    BY <1>2, <1>4, <1>6, <1>7, <2>1, Zenon DEF Promise!Roll, Promise!WithNew
<1> QED
  BY <1>8 DEF Promise!Next

LEMMA RestartSteps ==
  ASSUME RInv, RInv', NamesByAge', Broken => Broken', Restart
  PROVE  [Promise!Next]_Promise!streamVars
<1>1. /\ FilesOK /\ FilesOK' /\ files \in Nat /\ data \in [Files -> Seq(Nat)] /\ crashes \in Nat
      /\ op = "down" /\ crashes > 0 /\ BytesOK
  BY Basics DEF RInv, StateOK, Restart
<1>2. buf = <<>> /\ p = <<>> /\ buf' = <<>> /\ p' = <<>> /\ accepted' = accepted
  BY <1>1 DEF BytesOK, Restart, callVars
<1>3. Broken
  BY <1>1 DEF Broken
<1>4. \A t \in BackupFiles' : t \in BackupFiles /\ bdir'[t] = bdir[t]
  BY RemovesNames DEF BackupFiles
<1> DEFINE kept == {bdir'[t] : t \in BackupFiles'}
<1>5. kept \subseteq LiveFiles
  BY <1>4, LiveTypes
<1>6. /\ logFile' # 0 /\ logFile' \in Files /\ data'[logFile'] = <<>>
      /\ \A i \in LiveFiles : i # logFile' => data'[i] = data[i]
  <2>1. CASE logFile # 0
    <3>1. data' = [data EXCEPT ![logFile] = <<>>] /\ logFile' = logFile
      BY <2>1 DEF Restart
    <3>2. logFile \in Files /\ LiveFiles \subseteq Files
      BY <2>1, LiveTypes
    <3> QED
      BY <1>1, <2>1, <3>1, <3>2
  <2>2. CASE logFile = 0
    <3>1. data' = data /\ logFile' = files + 1 /\ files < MaxFiles
      BY <2>2 DEF Restart
    <3>2. files + 1 \in Files /\ files + 1 # 0
      BY <1>1, <3>1, Sizes DEF Files
    <3>3. data[files + 1] = <<>>
      BY <1>1, <3>2 DEF FilesOK
    <3> QED
      BY <3>1, <3>2, <3>3
  <2> QED
    BY <2>1, <2>2
<1>7. \A i \in kept : i < logFile'
  BY <1>6 DEF NamesByAge
<1>8. LiveFiles' = kept \union {logFile'}
  BY <1>6 DEF LiveFiles
<1>9. DOMAIN Stream = LiveFiles /\ \A i \in LiveFiles : Stream[i] = data[i]
  BY LiveTypes
<1>10. Stream' = [i \in kept \union {logFile'} |-> IF i = logFile' THEN <<>> ELSE Stream[i]]
  <2>1. Stream' = [i \in kept \union {logFile'} |-> data'[i]]
    BY <1>8 DEF Stream
  <2>2. \A i \in kept \union {logFile'} :
          data'[i] = IF i = logFile' THEN <<>> ELSE Stream[i]
    BY <1>5, <1>6, <1>9
  <2> QED
    BY <2>1, <2>2
<1> HIDE DEF kept
<1>11. Promise!Restart
  <2>1. buf' \o p' = <<>> /\ kept \in SUBSET DOMAIN Stream
    BY <1>2, <1>5, <1>9
  <2> QED
    BY <1>2, <1>3, <1>6, <1>7, <1>10, <2>1, Zenon DEF Promise!Restart, Promise!WithNew
<1> QED
  BY <1>3, <1>11 DEF Promise!Next

LEMMA RestartFailsSteps ==
  ASSUME RInv, RInv', Broken => Broken', RestartFails
  PROVE  [Promise!Next]_Promise!streamVars
<1>1. UNCHANGED <<data, logFile, buf, p, accepted, crashes>> /\ crashes > 0 /\ crashes \in Nat
  BY Basics DEF RestartFails, bufVars, callVars, RInv, StateOK
<1>2. Broken'
  BY <1>1 DEF Broken
<1>3. \A t \in BackupFiles' : t \in BackupFiles /\ bdir'[t] = bdir[t]
  BY RemovesNames DEF BackupFiles
<1>4. LiveFiles' \subseteq LiveFiles
  BY <1>1, <1>3 DEF LiveFiles
<1> QED
  BY <1>1, <1>2, <1>4, ExpireBroken

LEMMA StreamStep ==
  ASSUME RInv, NamesByAge, FullOK, [Next]_vars
  PROVE  [Promise!Next]_Promise!streamVars
<1>1. RInv' /\ NamesByAge' /\ (Broken => Broken')
  BY StepsOK, NamesStep, BrokenStays
<1>2. CASE \E n \in 1..MaxLen : Write(n)
  BY <1>1, <1>2, AcceptSteps
<1>3. CASE Sync \/ FillAndFlush \/ WriteDirectly
  <2>1. Moves
    BY <1>3, SyncKeeps, FillAndFlushKeeps, WriteDirectlyKeeps
  <2> QED
    BY <1>1, <2>1, StoreSteps
<1>4. CASE EndOfWrite \/ Crash
  BY <1>1, <1>4, LoseSteps
<1>5. CASE Rename
  BY <1>1, <1>5, RenameSteps
<1>6. CASE Remove
  BY <1>1, <1>6, RemoveSteps
<1>7. CASE Open
  BY <1>1, <1>7, OpenSteps
<1>8. CASE Restart
  BY <1>1, <1>8, RestartSteps
<1>9. CASE RestartFails
  BY <1>1, <1>9, RestartFailsSteps
<1>10. CASE FlushDirty \/ RenameFails \/ OpenFails \/ Close \/ UNCHANGED vars
  <2>1. UNCHANGED <<data, logFile, bdir, buf, p, accepted>>
    BY <1>10 DEF FlushDirty, RenameFails, OpenFails, Close, vars, fsVars, bufVars, callVars, envVars
  <2>2. Stream' = Stream /\ buf' \o p' = buf \o p
    BY <2>1 DEF Stream, LiveFiles, BackupFiles
  <2> QED
    BY <1>1, <2>1, <2>2, PromiseBreak
<1> QED
  BY <1>2, <1>3, <1>4, <1>5, <1>6, <1>7, <1>8, <1>9, <1>10 DEF Next, InCall

LEMMA StreamInit ==
  ASSUME Init
  PROVE  Promise!Init
<1>1. LiveFiles = {1}
  <2>1. BackupFiles = {} /\ logFile = 1
    BY DEF Init, BackupFiles
  <2> QED
    BY <2>1 DEF LiveFiles
<1>2. 1 \in Files
  BY RotationAssumption, SMTT(30) DEF Files
<1>3. Stream = [j \in {1} |-> <<>>]
  BY <1>1, <1>2 DEF Init, Stream
<1>4. buf \o p = <<>> /\ accepted = 0
  BY DEF Init
<1>5. Broken = FALSE
  BY DEF Init, Broken
<1> QED
  BY <1>2, <1>3, <1>4, <1>5, Zenon DEF Promise!Init

\* The files behave as one stream, whatever the sizes and however many faults
\* there are: every step of Rotation is one of LogStream or changes nothing there.
THEOREM RotationImplementsLogStream == Spec => ImplementsLogStream
  BY RotationInductive, NamesInductive, StreamInit, StreamStep, PTL
  DEF Spec, ImplementsLogStream, Promise!Spec
=============================================================================
