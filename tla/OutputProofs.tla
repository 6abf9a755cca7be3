---------------------------- MODULE OutputProofs ----------------------------
(***************************************************************************)
(* Theorems about Output for every number of goroutines, buffers and       *)
(* encoders and for whatever WriteSyncers are built from Locks,            *)
(* multi-writers and leaves.                                               *)
(***************************************************************************)
EXTENDS Output, TLAPS, SequenceTheorems, SetInduction

(***************************************************************************)
(* The inductive invariant: the pools.                                     *)
(***************************************************************************)

\* Types; and a goroutine has an encoder while it encodes, a buffer until it
\* has freed it, and no frame unless it is in Write or Sync.
PoolTypes ==
  /\ pc \in [Goroutines -> {"idle", "encode", "reflect", "written", "synced"}]
  /\ enc \in [Goroutines -> Encoders \union {NIL}]
  /\ arg \in [Goroutines -> Buffers \union {NIL}]
  /\ encPool \subseteq Encoders /\ bufPool \subseteq Buffers
  /\ reflectBuf \in [Encoders -> Buffers \union {NIL}]
  /\ fails \in 0..MaxFails /\ calls \in 0..MaxCalls /\ lines \in 0..calls
  /\ \A g \in Goroutines :
       /\ enc[g] # NIL <=> pc[g] \in {"encode", "reflect"}
       /\ arg[g] # NIL <=> pc[g] \in UsesArg
       /\ pc[g] = "reflect" => reflectBuf[enc[g]] # NIL
       /\ pc[g] = "written" => method[g] = "write"
       /\ pc[g] = "synced" => method[g] = "sync"
       /\ stack[g] # <<>> => pc[g] \in {"written", "synced"}

LineByte == [line : Nat, pos : Nat]

\* A line without its field, the field, and both.
Start(l) == <<Byte(l, 1)>>
Field(l) == <<Byte(l, 2)>>
Whole(l) == <<Byte(l, 1), Byte(l, 2)>>

\* What is in the buffer of a line, and in the one of its field.
Encoded(g) ==
  \E l \in 1..MaxCalls :
    /\ pc[g] = "encode"  => mem[arg[g]] \in {Start(l), Whole(l)}
    /\ pc[g] = "reflect" => /\ mem[arg[g]] = Start(l)
                            /\ mem[reflectBuf[enc[g]]] = Field(l)
    /\ pc[g] = "written" => mem[arg[g]] = Whole(l)

BufferContents ==
  /\ mem \in [Buffers -> Seq(LineByte)]
  /\ \A b \in Buffers : Len(mem[b]) <= LineLen
  /\ \A g \in Goroutines : pc[g] \in UsesArg => Encoded(g)

\* PooledOneOwner without the sets.
PoolDisjoint ==
  /\ \A g, h \in Goroutines : g # h =>
       /\ arg[g] = arg[h] => arg[g] = NIL
       /\ enc[g] = enc[h] => enc[g] = NIL
  /\ \A g \in Goroutines : arg[g] \notin bufPool /\ enc[g] \notin encPool
  /\ \A g \in Goroutines, e \in Encoders : arg[g] = reflectBuf[e] => arg[g] = NIL
  /\ \A e \in Encoders : reflectBuf[e] \notin bufPool
  /\ \A e, d \in Encoders : e # d /\ reflectBuf[e] = reflectBuf[d] => reflectBuf[e] = NIL

PoolInv == PoolTypes /\ PoolDisjoint /\ BufferContents

(***************************************************************************)
(* The inductive invariant: the stacks of calls and the mutexes.           *)
(***************************************************************************)

LeafKinds == {"file", "wrapper"}
Frames == [ws : Built, i : Nat, n : Nat, err : SUBSET Files]
Results == [n : Nat, err : SUBSET Files]

HasLocked(t) == t.ws.kind = "lock" /\ t.i = 1

\* The mutexes of the frames of g under the k-th.
HeldUnder(g, k) ==
  {m \in Mutexes : \E j \in 1..(k - 1) :
     HasLocked(stack[g][j]) /\ stack[g][j].ws.name = m}

\* What the k-th frame of g can still reach, g could reach from the root, through
\* no other mutexes than those that the frames have locked and those to come.
OnPath(g, k) ==
  \A p \in stack[g][k].ws.paths : \E q \in out[g].paths :
    q.file = p.file /\ q.locks \subseteq p.locks \union HeldUnder(g, k)

\* The frames are those of the methods on a path through the tree of g: all
\* but the top one are in the middle of a call.
FrameOK(g, k) ==
  /\ stack[g][k].ws.kind \in LeafKinds => stack[g][k].i = 0 /\ k = Len(stack[g])
  /\ stack[g][k].ws.kind = "lock" => stack[g][k].i \in {0, 1}
  /\ k < Len(stack[g]) => stack[g][k].i > 0
  /\ k = Len(stack[g]) /\ stack[g][k].i > 0 => ret[g] \in Results
  /\ OnPath(g, k)

FramesOK(g) == \A k \in 1..Len(stack[g]) : FrameOK(g, k)

StackOK ==
  /\ out \in [Goroutines -> Built]
  /\ stack \in [Goroutines -> Seq(Frames)]
  /\ method \in [Goroutines -> {"write", "sync"}]
  /\ ret \in [Goroutines -> Results \union {NIL}]
  /\ \A g \in Goroutines : FramesOK(g)

\* What the frames of g have locked is locked by g, once.
LocksOK(g) ==
  /\ \A k \in 1..Len(stack[g]) :
       HasLocked(stack[g][k]) => holder[stack[g][k].ws.name] = g
  /\ \A j, k \in 1..Len(stack[g]) :
       HasLocked(stack[g][j]) /\ HasLocked(stack[g][k]) /\ j # k
         => stack[g][j].ws.name # stack[g][k].ws.name

Locked(m) ==
  holder[m] # NIL =>
    \E k \in 1..Len(stack[holder[m]]) :
      HasLocked(stack[holder[m]][k]) /\ stack[holder[m]][k].ws.name = m

\* A mutex is locked by the goroutine that has locked it, and by no other.
MutexOK ==
  /\ holder \in [Mutexes -> Goroutines \union {NIL}]
  /\ \A g \in Goroutines : LocksOK(g)
  /\ \A m \in Mutexes : Locked(m)

StackInv == StackOK /\ MutexOK

(***************************************************************************)
(* The inductive invariant: the files.                                     *)
(***************************************************************************)

AtLeaf(g, x) == In(g, LeafKinds) /\ Top(g).ws.name = x

FileOK ==
  /\ file \in [Files -> Seq(LineByte)]
  /\ \A g \in Goroutines : In(g, LeafKinds) =>
       /\ Top(g).n > 0 => method[g] = "write"
       /\ method[g] = "write" => Top(g).n < LineLen
  /\ \A g \in Goroutines, x \in Files : Guarded(x) /\ AtLeaf(g, x) /\ Top(g).n > 0 =>
       file[x] # <<>> /\ Last(file[x]) = mem[arg[g]][Top(g).n]

OInv == PoolInv /\ StackInv /\ FileOK /\ WholeLines

-----------------------------------------------------------------------------
(***************************************************************************)
(* The pools.                                                              *)
(***************************************************************************)

LEMMA NilIsNone == NIL \notin Goroutines \union Mutexes \union Buffers \union Encoders
  BY SinkAssumption, OutputAssumption

LEMMA OneOfIsIn == \A S : OneOf(S) \subseteq S
  BY DEF OneOf

\* A buffer from the pool, or a new one, is nobody's.
LEMMA FreshBuffer ==
  ASSUME PoolInv, NEW b \in bufPool \union NewBuffers
  PROVE  /\ b \in Buffers /\ b # NIL
         /\ \A g \in Goroutines : arg[g] # b
         /\ \A e \in Encoders : reflectBuf[e] # b
<1> USE DEF PoolInv, PoolTypes
<1>1. CASE b \in bufPool
  BY <1>1, SinkAssumption DEF PoolDisjoint
<1>2. CASE b \in NewBuffers
  <2>1. b \in Buffers \ (bufPool \union Reflecting
                          \union UNION {InUse(g) : g \in Goroutines})
    BY <1>2, OneOfIsIn DEF NewBuffers
  <2>2. b # NIL
    BY <2>1, SinkAssumption
  <2>3. \A e \in Encoders : reflectBuf[e] # b
    BY <2>1, <2>2 DEF Reflecting
  <2>4. \A g \in Goroutines : arg[g] # b
    BY <2>1, <2>2 DEF InUse
  <2> QED
    BY <2>1, <2>2, <2>3, <2>4
<1> QED
  BY <1>1, <1>2

LEMMA FreshEncoder ==
  ASSUME PoolInv, NEW e \in encPool \union NewEncoders
  PROVE  /\ e \in Encoders /\ e # NIL
         /\ \A g \in Goroutines : enc[g] # e
<1> USE DEF PoolInv, PoolTypes
<1>1. CASE e \in encPool
  BY <1>1, OutputAssumption DEF PoolDisjoint
<1>2. CASE e \in NewEncoders
  <2>1. e \in Encoders \ (encPool \union Range(enc))
    BY <1>2, OneOfIsIn DEF NewEncoders
  <2> QED
    BY <2>1, OutputAssumption DEF Range
<1> QED
  BY <1>1, <1>2

LEMMA DisjointIsOneOwner == PoolInv => PooledOneOwner
<1> SUFFICES ASSUME PoolInv PROVE PooledOneOwner
  OBVIOUS
<1> USE DEF PoolInv, PoolTypes, PoolDisjoint
<1>1. \A g, h \in Goroutines : g # h => InUse(g) \cap InUse(h) = {}
  BY DEF InUse
<1>2. \A g \in Goroutines : InUse(g) \cap (bufPool \union Reflecting) = {}
  BY DEF InUse, Reflecting
<1>3. Reflecting \cap bufPool = {}
  BY DEF Reflecting
<1> QED
  BY <1>1, <1>2, <1>3 DEF PooledOneOwner

LEMMA ShortSeqs ==
  ASSUME NEW T, NEW a \in T, NEW b \in T
  PROVE  /\ {<<a>>, <<b>>, <<a, b>>} \subseteq Seq(T)
         /\ Len(<<a>>) = 1 /\ Len(<<b>>) = 1 /\ Len(<<a, b>>) = 2
         /\ <<a>> \o <<b>> = <<a, b>> /\ <<a>>[1] = a
<1>1. {<<a>>, <<b>>, <<a, b>>} \subseteq Seq(T)
  OBVIOUS
<1>2. Len(<<a>>) = 1 /\ Len(<<b>>) = 1 /\ Len(<<a, b>>) = 2
  OBVIOUS
<1>3. <<a>>[1] = a
  OBVIOUS
<1>4. <<a>> \o <<b>> = <<a, b>>
  <2>1. \A i \in 1..2 : (<<a>> \o <<b>>)[i] = <<a, b>>[i]
    BY <1>1, <1>2, ConcatProperties
  <2>2. Len(<<a>> \o <<b>>) = 2 /\ <<a>> \o <<b>> \in Seq(T)
    BY <1>1, <1>2, ConcatProperties
  <2> QED
    BY <1>1, <1>2, <2>1, <2>2, SeqEqual
<1> QED
  BY <1>1, <1>2, <1>3, <1>4

\* The bytes of a line, as they are encoded: not at once, or field by field.
LEMMA LineBytes ==
  ASSUME NEW l \in Nat
  PROVE  /\ Start(l) \in Seq(LineByte)
         /\ Field(l) \in Seq(LineByte)
         /\ Whole(l) \in Seq(LineByte)
         /\ Len(Start(l)) = 1 /\ Len(Field(l)) = 1
         /\ Len(Whole(l)) = 2 /\ LineLen = 2
         /\ Start(l) \o Field(l) = Whole(l)
         /\ Start(l)[1].line = l
<1> DEFINE a == Byte(l, 1)
           b == Byte(l, 2)
<1>1. a \in LineByte /\ b \in LineByte /\ a.line = l
  BY DEF Byte, LineByte
<1> HIDE DEF a, b
<1>2. /\ {<<a>>, <<b>>, <<a, b>>} \subseteq Seq(LineByte)
      /\ Len(<<a>>) = 1 /\ Len(<<b>>) = 1 /\ Len(<<a, b>>) = 2
      /\ <<a>> \o <<b>> = <<a, b>> /\ <<a>>[1] = a
  BY <1>1, ShortSeqs
<1>3. Start(l) = <<a>> /\ Field(l) = <<b>> /\ Whole(l) = <<a, b>>
  BY DEF Start, Field, Whole, a, b
<1> QED
  BY <1>1, <1>2, <1>3 DEF LineLen

LEMMA EncodedAtOnce ==
  ASSUME NEW l \in Nat, NEW n \in 1..LineLen
  PROVE  [pos \in 1..n |-> Byte(l, pos)] \in {Start(l), Whole(l)}
<1> USE DEF Byte, Whole, Start, LineLen
<1>1. CASE n = 1
  BY <1>1
<1>2. CASE n = 2
  BY <1>2
<1> QED
  BY <1>1, <1>2

\* The same for the lines that there are.
LEMMA LinesThere ==
  \A l \in 1..MaxCalls :
    /\ Start(l) \in Seq(LineByte) /\ Field(l) \in Seq(LineByte)
    /\ Whole(l) \in Seq(LineByte)
    /\ Len(Start(l)) <= LineLen /\ Len(Field(l)) <= LineLen
    /\ Len(Whole(l)) <= LineLen
    /\ Len(Start(l)) < LineLen /\ ~(Len(Whole(l)) < LineLen)
    /\ Start(l) \o Field(l) = Whole(l)
    /\ Start(l)[1].line = l
    /\ \A n \in 1..LineLen :
         [pos \in 1..n |-> Byte(l, pos)] \in {Start(l), Whole(l)}
<1> DEFINE Facts(l) ==
      /\ Start(l) \in Seq(LineByte) /\ Field(l) \in Seq(LineByte)
      /\ Whole(l) \in Seq(LineByte)
      /\ Len(Start(l)) <= LineLen /\ Len(Field(l)) <= LineLen
      /\ Len(Whole(l)) <= LineLen
      /\ Len(Start(l)) < LineLen /\ ~(Len(Whole(l)) < LineLen)
      /\ Start(l) \o Field(l) = Whole(l)
      /\ Start(l)[1].line = l
      /\ \A n \in 1..LineLen :
           [pos \in 1..n |-> Byte(l, pos)] \in {Start(l), Whole(l)}
<1>1. ASSUME NEW l \in Nat PROVE Facts(l)
  <2>1. \A n \in 1..LineLen :
          [pos \in 1..n |-> Byte(l, pos)] \in {Start(l), Whole(l)}
    BY EncodedAtOnce
  <2>2. /\ Start(l) \in Seq(LineByte) /\ Field(l) \in Seq(LineByte)
        /\ Whole(l) \in Seq(LineByte)
        /\ Start(l)[1].line = l
    BY LineBytes
  <2>4. /\ Len(Start(l)) <= LineLen /\ Len(Field(l)) <= LineLen
        /\ Len(Whole(l)) <= LineLen
        /\ Len(Start(l)) < LineLen /\ ~(Len(Whole(l)) < LineLen)
    <3>1. /\ Len(Start(l)) = 1 /\ Len(Field(l)) = 1
          /\ Len(Whole(l)) = 2 /\ LineLen = 2
      BY LineBytes
    <3> QED
      BY <3>1
  <2>3. Start(l) \o Field(l) = Whole(l)
    BY LineBytes
  <2> QED
    BY <2>1, <2>2, <2>3, <2>4
<1>2. 1..MaxCalls \subseteq Nat
  OBVIOUS
<1> HIDE DEF Facts
<1>3. \A l \in 1..MaxCalls : Facts(l)
  BY <1>1, <1>2
<1> QED
  BY <1>3 DEF Facts

\* A step that leaves a goroutine and its buffers alone.
LEMMA EncodedKept ==
  ASSUME NEW h \in Goroutines, Encoded(h), pc'[h] = pc[h], arg'[h] = arg[h],
         mem'[arg[h]] = mem[arg[h]],
         pc[h] = "reflect" =>
           /\ enc'[h] = enc[h]
           /\ reflectBuf'[enc[h]] = reflectBuf[enc[h]]
           /\ mem'[reflectBuf[enc[h]]] = mem[reflectBuf[enc[h]]]
  PROVE  Encoded(h)'
  BY DEF Encoded

LEMMA BeginWritePool ==
  ASSUME PoolInv, NEW g \in Goroutines, BeginWrite(g) PROVE PoolInv'
<1> USE DEF PoolInv
<1>1. PICK e \in encPool \union NewEncoders, b \in bufPool \union NewBuffers :
        /\ enc' = [enc EXCEPT ![g] = e]
        /\ encPool' = encPool \ {e}
        /\ arg' = [arg EXCEPT ![g] = b]
        /\ bufPool' = bufPool \ {b}
        /\ \E n \in 1..LineLen :
             mem' = [mem EXCEPT ![b] = [pos \in 1..n |-> Byte(lines', pos)]]
  BY DEF BeginWrite
<1>2. /\ pc[g] = "idle" /\ pc' = [pc EXCEPT ![g] = "encode"]
      /\ calls < MaxCalls /\ calls' = calls + 1 /\ lines' = lines + 1
      /\ UNCHANGED <<stack, method, fails, reflectBuf>>
  BY DEF BeginWrite
<1>3. /\ e \in Encoders /\ e # NIL /\ \A h \in Goroutines : enc[h] # e
      /\ b \in Buffers /\ b # NIL /\ \A h \in Goroutines : arg[h] # b
      /\ \A d \in Encoders : reflectBuf[d] # b
  BY FreshBuffer, FreshEncoder
<1>4. lines' \in 1..MaxCalls /\ calls' \in 0..MaxCalls /\ lines' \in 0..calls'
  BY <1>2, OutputAssumption DEF PoolTypes
<1>5. PICK s : /\ s \in {Start(lines'), Whole(lines')}
               /\ mem' = [mem EXCEPT ![b] = s]
               /\ s \in Seq(LineByte) /\ Len(s) <= LineLen
  <2>1. PICK n \in 1..LineLen :
          mem' = [mem EXCEPT ![b] = [pos \in 1..n |-> Byte(lines', pos)]]
    BY <1>1
  <2>3. [pos \in 1..n |-> Byte(lines', pos)] \in {Start(lines'), Whole(lines')}
    BY <1>4, LinesThere
  <2>4. \A t \in {Start(lines'), Whole(lines')} :
          t \in Seq(LineByte) /\ Len(t) <= LineLen
    BY <1>4, LinesThere
  <2> QED
    BY <2>1, <2>3, <2>4
<1>6. PoolTypes'
  BY <1>1, <1>2, <1>3, <1>4 DEF PoolTypes, UsesArg
<1>7. PoolDisjoint'
  BY <1>1, <1>2, <1>3 DEF PoolTypes, PoolDisjoint
<1>8. BufferContents'
  <2>1. Encoded(g)'
    BY <1>1, <1>2, <1>3, <1>4, <1>5 DEF PoolTypes, BufferContents, Encoded
  <2>2. ASSUME NEW h \in Goroutines, h # g, pc[h] \in UsesArg PROVE Encoded(h)'
    <3>1. Encoded(h) /\ pc'[h] = pc[h] /\ arg'[h] = arg[h] /\ enc'[h] = enc[h]
      BY <1>1, <1>2, <2>2 DEF PoolTypes, BufferContents
    <3>2. arg[h] \in Buffers /\ mem'[arg[h]] = mem[arg[h]]
      BY <1>3, <1>5, <2>2 DEF PoolTypes, BufferContents
    <3>3. pc[h] = "reflect" =>
            reflectBuf[enc[h]] \in Buffers
              /\ mem'[reflectBuf[enc[h]]] = mem[reflectBuf[enc[h]]]
      BY <1>3, <1>5 DEF PoolTypes, BufferContents
    <3> QED
      BY <1>2, <3>1, <3>2, <3>3, EncodedKept
  <2>3. \A h \in Goroutines : h # g => pc'[h] = pc[h]
    BY <1>2 DEF PoolTypes
  <2> QED
    BY <1>3, <1>5, <2>1, <2>2, <2>3 DEF BufferContents
<1> QED
  BY <1>6, <1>7, <1>8

LEMMA ReflectPool ==
  ASSUME PoolInv, NEW g \in Goroutines, Reflect(g) PROVE PoolInv'
<1> USE DEF PoolInv
<1> DEFINE e == enc[g]
<1>1. /\ pc[g] = "encode" /\ pc' = [pc EXCEPT ![g] = "reflect"]
      /\ Len(mem[arg[g]]) < LineLen
      /\ UNCHANGED <<stack, method, fails, calls, lines, enc, encPool, arg>>
  BY DEF Reflect
<1>2. PICK b \in IF reflectBuf[e] = NIL THEN bufPool \union NewBuffers ELSE {reflectBuf[e]} :
        /\ bufPool' = IF reflectBuf[e] = NIL THEN bufPool \ {b} ELSE bufPool
        /\ reflectBuf' = [reflectBuf EXCEPT ![e] = b]
        /\ mem' = [mem EXCEPT ![b] = <<Byte(mem[arg[g]][1].line, 2)>>]
  BY DEF Reflect
<1>3. e \in Encoders /\ e # NIL /\ arg[g] \in Buffers
  BY <1>1 DEF PoolTypes, UsesArg
<1>4. /\ b \in Buffers /\ b # NIL
      /\ \A h \in Goroutines : arg[h] # b
      /\ \A d \in Encoders : d # e => reflectBuf[d] # b
      /\ b \notin bufPool'
      /\ bufPool' \subseteq bufPool
  <2>1. CASE reflectBuf[e] = NIL
    BY <1>2, <2>1, FreshBuffer
  <2>2. CASE reflectBuf[e] # NIL
    BY <1>2, <1>3, <2>2, SinkAssumption DEF PoolTypes, PoolDisjoint
  <2> QED
    BY <2>1, <2>2
<1>5. PICK l \in 1..MaxCalls : mem[arg[g]] \in {Start(l), Whole(l)}
  BY <1>1 DEF BufferContents, Encoded, UsesArg
<1>6. mem[arg[g]] = Start(l) /\ mem[arg[g]][1].line = l
  BY <1>1, <1>5, LinesThere
<1>7. PoolTypes'
  BY <1>1, <1>2, <1>3, <1>4 DEF PoolTypes, UsesArg
<1>8. PoolDisjoint'
  BY <1>1, <1>2, <1>3, <1>4 DEF PoolTypes, PoolDisjoint
<1>9. BufferContents'
  <2>1. Field(l) \in Seq(LineByte) /\ Len(Field(l)) <= LineLen
    BY LinesThere
  <2>2. /\ mem' = [mem EXCEPT ![b] = Field(l)]
        /\ mem' \in [Buffers -> Seq(LineByte)]
        /\ \A c \in Buffers : Len(mem'[c]) <= LineLen
    <3>1. mem' = [mem EXCEPT ![b] = Field(l)]
      BY <1>2, <1>6 DEF Field
    <3> QED
      BY <3>1, <1>4, <2>1 DEF BufferContents
  <2>3. Encoded(g)'
    <3>1. pc'[g] = "reflect" /\ reflectBuf'[e] = b /\ b # arg[g]
      BY <1>1, <1>2, <1>3, <1>4 DEF PoolTypes
    <3>2. mem'[arg'[g]] = Start(l) /\ mem'[reflectBuf'[enc'[g]]] = Field(l)
      BY <1>1, <1>3, <1>4, <1>6, <2>2, <3>1 DEF BufferContents
    <3> QED
      BY <3>1, <3>2 DEF Encoded
  <2>4. ASSUME NEW h \in Goroutines, h # g, pc[h] \in UsesArg PROVE Encoded(h)'
    <3>1. Encoded(h) /\ pc'[h] = pc[h] /\ arg'[h] = arg[h] /\ enc'[h] = enc[h]
      BY <1>1, <2>4 DEF PoolTypes, BufferContents
    <3>2. mem'[arg[h]] = mem[arg[h]]
      BY <1>4, <2>2, <2>4 DEF PoolTypes, BufferContents
    <3>3. pc[h] = "reflect" =>
            /\ enc[h] \in Encoders /\ enc[h] # e
            /\ reflectBuf'[enc[h]] = reflectBuf[enc[h]]
            /\ mem'[reflectBuf[enc[h]]] = mem[reflectBuf[enc[h]]]
      BY <1>2, <1>3, <1>4, <2>2, <2>4 DEF PoolTypes, PoolDisjoint, BufferContents
    <3> QED
      BY <3>1, <3>2, <3>3, EncodedKept
  <2>5. \A h \in Goroutines : h # g => pc'[h] = pc[h]
    BY <1>1 DEF PoolTypes
  <2> QED
    BY <2>2, <2>3, <2>4, <2>5 DEF BufferContents
<1> QED
  BY <1>7, <1>8, <1>9

LEMMA CopyReflectedPool ==
  ASSUME PoolInv, NEW g \in Goroutines, CopyReflected(g) PROVE PoolInv'
<1> USE DEF PoolInv
<1>1. /\ pc[g] = "reflect" /\ pc' = [pc EXCEPT ![g] = "encode"]
      /\ mem' = [mem EXCEPT ![arg[g]] = @ \o mem[reflectBuf[enc[g]]]]
      /\ UNCHANGED <<stack, method, fails, calls, lines, enc, encPool, arg,
                     bufPool, reflectBuf>>
  BY DEF CopyReflected, poolVars
<1>2. PICK l \in 1..MaxCalls :
        mem[arg[g]] = Start(l) /\ mem[reflectBuf[enc[g]]] = Field(l)
  BY <1>1 DEF BufferContents, Encoded, UsesArg
<1>3. arg[g] \in Buffers /\ arg[g] # NIL
  BY <1>1 DEF PoolTypes, UsesArg
<1>4. mem' = [mem EXCEPT ![arg[g]] = Whole(l)]
  <2>1. Start(l) \o Field(l) = Whole(l)
    BY LinesThere
  <2> QED
    BY <1>1, <1>2, <1>3, <2>1 DEF BufferContents
<1>5. PoolTypes'
  BY <1>1 DEF PoolTypes, UsesArg
<1>6. PoolDisjoint'
  BY <1>1 DEF PoolDisjoint
<1>7. BufferContents'
  <2>1. Whole(l) \in Seq(LineByte) /\ Len(Whole(l)) <= LineLen
    BY LinesThere
  <2>2. /\ mem' \in [Buffers -> Seq(LineByte)]
        /\ \A c \in Buffers : Len(mem'[c]) <= LineLen
    BY <1>3, <1>4, <2>1 DEF BufferContents
  <2>3. Encoded(g)'
    <3>1. pc'[g] = "encode" /\ mem'[arg'[g]] = Whole(l)
      BY <1>1, <1>3, <1>4 DEF PoolTypes, BufferContents
    <3> QED
      BY <3>1 DEF Encoded
  <2>4. ASSUME NEW h \in Goroutines, h # g, pc[h] \in UsesArg PROVE Encoded(h)'
    <3>1. /\ Encoded(h) /\ pc'[h] = pc[h] /\ arg'[h] = arg[h] /\ enc'[h] = enc[h]
          /\ reflectBuf'[enc[h]] = reflectBuf[enc[h]]
      BY <1>1, <2>4 DEF PoolTypes, BufferContents
    <3>2. mem'[arg[h]] = mem[arg[h]]
      BY <1>3, <1>4, <2>4 DEF PoolTypes, PoolDisjoint, BufferContents
    <3>3. pc[h] = "reflect" => mem'[reflectBuf[enc[h]]] = mem[reflectBuf[enc[h]]]
      BY <1>3, <1>4, <2>4 DEF PoolTypes, PoolDisjoint, BufferContents
    <3> QED
      BY <3>1, <3>2, <3>3, EncodedKept
  <2>5. \A h \in Goroutines : h # g => pc'[h] = pc[h]
    BY <1>1 DEF PoolTypes
  <2> QED
    BY <2>2, <2>3, <2>4, <2>5 DEF BufferContents
<1> QED
  BY <1>5, <1>6, <1>7

\* What these proofs need to know of the stacks.
LEMMA StackTypes ==
  ASSUME StackOK
  PROVE  /\ DOMAIN stack = Goroutines /\ stack \in [Goroutines -> Seq(Frames)]
         /\ method \in [Goroutines -> {"write", "sync"}]
         /\ DOMAIN ret = Goroutines /\ ret \in [Goroutines -> Results \union {NIL}]
         /\ out \in [Goroutines -> Built]
  BY DEF StackOK

\* Steps that leave the buffers and the lines in them alone.
LEMMA ContentsKept ==
  ASSUME PoolInv, UNCHANGED mem, NEW g \in Goroutines,
         \A h \in Goroutines : h # g =>
           /\ pc'[h] = pc[h] /\ arg'[h] = arg[h] /\ enc'[h] = enc[h]
           /\ pc[h] = "reflect" => reflectBuf'[enc[h]] = reflectBuf[enc[h]],
         pc'[g] \in UsesArg => Encoded(g)'
  PROVE  BufferContents'
<1>1. ASSUME NEW h \in Goroutines, h # g, pc'[h] \in UsesArg PROVE Encoded(h)'
  <2>1. pc[h] \in UsesArg
    BY <1>1
  <2>2. Encoded(h)
    BY <2>1 DEF PoolInv, BufferContents
  <2> QED
    BY <1>1, <2>2, EncodedKept
<1>2. /\ mem' \in [Buffers -> Seq(LineByte)]
      /\ \A b \in Buffers : Len(mem'[b]) <= LineLen
  BY DEF PoolInv, BufferContents
<1> QED
  BY <1>1, <1>2 DEF BufferContents

LEMMA EndEncodePool ==
  ASSUME PoolInv, StackOK, NEW g \in Goroutines, EndEncode(g) PROVE PoolInv'
<1> USE DEF PoolInv
<1>1. /\ pc[g] = "encode" /\ pc' = [pc EXCEPT ![g] = "written"]
      /\ Len(mem[arg[g]]) = LineLen
      /\ bufPool' = bufPool \union ({reflectBuf[enc[g]]} \ {NIL})
      /\ reflectBuf' = [reflectBuf EXCEPT ![enc[g]] = NIL]
      /\ encPool' = encPool \union {enc[g]}
      /\ enc' = [enc EXCEPT ![g] = NIL]
      /\ method' = [method EXCEPT ![g] = "write"]
      /\ \E s : stack' = [stack EXCEPT ![g] = s]
      /\ UNCHANGED <<mem, arg, fails, lines, calls>>
  BY DEF EndEncode, ReflectBufReset, CallOut
<1>2. enc[g] \in Encoders /\ enc[g] # NIL /\ arg[g] \in Buffers
  BY <1>1 DEF PoolTypes, UsesArg
<1>3. PoolTypes'
  <2>1. \A h \in Goroutines : h # g =>
          /\ pc'[h] = pc[h] /\ arg'[h] = arg[h] /\ enc'[h] = enc[h]
          /\ method'[h] = method[h] /\ stack'[h] = stack[h]
          /\ reflectBuf'[enc[h]] = IF enc[h] = enc[g] THEN NIL ELSE reflectBuf[enc[h]]
    BY <1>1, StackTypes DEF PoolTypes
  <2>2. /\ pc'[g] = "written" /\ enc'[g] = NIL /\ arg'[g] = arg[g]
        /\ method'[g] = "write"
    BY <1>1, StackTypes DEF PoolTypes
  <2>3. \A h \in Goroutines : h # g /\ pc[h] = "reflect" => reflectBuf'[enc[h]] # NIL
    BY <2>1, <1>2 DEF PoolTypes, PoolDisjoint
  <2>4. \A h \in Goroutines :
          /\ enc'[h] # NIL <=> pc'[h] \in {"encode", "reflect"}
          /\ arg'[h] # NIL <=> pc'[h] \in UsesArg
          /\ pc'[h] = "reflect" => reflectBuf'[enc'[h]] # NIL
          /\ pc'[h] = "written" => method'[h] = "write"
          /\ pc'[h] = "synced" => method'[h] = "sync"
          /\ stack'[h] # <<>> => pc'[h] \in {"written", "synced"}
    BY <1>1, <1>2, <2>1, <2>2, <2>3, NilIsNone DEF PoolTypes, UsesArg
  <2>5. /\ pc' \in [Goroutines -> {"idle", "encode", "reflect", "written", "synced"}]
        /\ enc' \in [Goroutines -> Encoders \union {NIL}]
        /\ encPool' \subseteq Encoders /\ bufPool' \subseteq Buffers
        /\ reflectBuf' \in [Encoders -> Buffers \union {NIL}]
    BY <1>1, <1>2 DEF PoolTypes
  <2> QED
    BY <1>1, <2>4, <2>5 DEF PoolTypes
<1>4. PoolDisjoint'
  <2>1. /\ \A h, k \in Goroutines : h # k => (enc'[h] = enc'[k] => enc'[h] = NIL)
        /\ \A h \in Goroutines : arg[h] \notin bufPool' /\ enc'[h] \notin encPool'
    BY <1>1, <1>2, NilIsNone DEF PoolTypes, PoolDisjoint
  <2>2. /\ \A h \in Goroutines, e \in Encoders : arg[h] = reflectBuf'[e] => arg[h] = NIL
        /\ \A e \in Encoders : reflectBuf'[e] \notin bufPool'
        /\ \A e, d \in Encoders :
             e # d /\ reflectBuf'[e] = reflectBuf'[d] => reflectBuf'[e] = NIL
    BY <1>1, <1>2, NilIsNone DEF PoolTypes, PoolDisjoint
  <2> QED
    BY <1>1, <2>1, <2>2 DEF PoolDisjoint
<1>5. PICK l \in 1..MaxCalls : mem[arg[g]] \in {Start(l), Whole(l)}
  BY <1>1 DEF BufferContents, Encoded, UsesArg
<1>6. mem[arg[g]] = Whole(l)
  BY <1>1, <1>5, LinesThere
<1>7. Encoded(g)'
  BY <1>1, <1>6 DEF PoolTypes, Encoded
<1>8. BufferContents'
  BY <1>1, <1>2, <1>7, ContentsKept DEF PoolTypes, PoolDisjoint
<1> QED
  BY <1>3, <1>4, <1>8

LEMMA FreeBufferPool ==
  ASSUME PoolInv, StackOK, NEW g \in Goroutines, FreeBuffer(g) PROVE PoolInv'
<1> USE DEF PoolInv
<1>1. /\ pc[g] = "written" /\ stack[g] = <<>>
      /\ bufPool' = bufPool \union {arg[g]}
      /\ arg' = [arg EXCEPT ![g] = NIL]
      /\ UNCHANGED <<mem, fails, lines, calls, enc, encPool, reflectBuf>>
  BY DEF FreeBuffer
<1>2. \/ /\ pc' = [pc EXCEPT ![g] = "synced"]
         /\ method' = [method EXCEPT ![g] = "sync"]
         /\ \E s : stack' = [stack EXCEPT ![g] = s]
      \/ /\ pc' = [pc EXCEPT ![g] = "idle"]
         /\ UNCHANGED <<stack, method>>
  BY DEF FreeBuffer, CallOut
<1>3. arg[g] \in Buffers /\ arg[g] # NIL
  BY <1>1 DEF PoolTypes, UsesArg
<1>4. PoolTypes'
  <2>1. CASE pc' = [pc EXCEPT ![g] = "idle"] /\ UNCHANGED <<stack, method>>
    BY <1>1, <1>3, <2>1, StackTypes DEF PoolTypes, UsesArg
  <2>2. CASE /\ pc' = [pc EXCEPT ![g] = "synced"]
             /\ method' = [method EXCEPT ![g] = "sync"]
             /\ \E s : stack' = [stack EXCEPT ![g] = s]
    BY <1>1, <1>3, <2>2, StackTypes DEF PoolTypes, UsesArg
  <2> QED
    BY <1>2, <2>1, <2>2
<1>5. PoolDisjoint'
  BY <1>1, <1>3, NilIsNone DEF PoolTypes, PoolDisjoint
<1>6. pc'[g] \notin UsesArg /\ \A h \in Goroutines : h # g => pc'[h] = pc[h]
  BY <1>2 DEF PoolTypes, UsesArg
<1>7. \A h \in Goroutines : h # g => arg'[h] = arg[h]
  BY <1>1 DEF PoolTypes
<1>8. BufferContents'
  BY <1>1, <1>6, <1>7, ContentsKept
<1> QED
  BY <1>4, <1>5, <1>8

\* The steps of a call of Write or Sync change no pool.
LEMMA CallPool ==
  ASSUME PoolInv, StackOK, NEW g \in Goroutines,
         UNCHANGED <<mem, arg, poolVars>>,
         \E s : stack' = [stack EXCEPT ![g] = s],
         fails' \in 0..MaxFails, calls' \in 0..MaxCalls, lines' = lines, calls <= calls',
         \/ UNCHANGED <<pc, method>> /\ stack[g] # <<>>
         \/ /\ pc[g] = "idle" /\ pc' = [pc EXCEPT ![g] = "synced"]
            /\ method' = [method EXCEPT ![g] = "sync"]
         \/ /\ pc[g] = "synced" /\ pc' = [pc EXCEPT ![g] = "idle"]
            /\ UNCHANGED method /\ stack'[g] = <<>>
  PROVE  PoolInv'
<1> USE DEF PoolInv
<1>1. PoolTypes'
  <2>1. \A h \in Goroutines : h # g =>
          pc'[h] = pc[h] /\ method'[h] = method[h] /\ stack'[h] = stack[h]
    BY StackTypes DEF PoolTypes
  <2>2. pc' \in [Goroutines -> {"idle", "encode", "reflect", "written", "synced"}]
    BY DEF PoolTypes
  <2>3. /\ pc'[g] = pc[g] \/ {pc[g], pc'[g]} = {"idle", "synced"}
        /\ pc'[g] = "written" => method'[g] = "write"
        /\ pc'[g] = "synced" => method'[g] = "sync"
        /\ stack'[g] # <<>> => pc'[g] \in {"written", "synced"}
    BY StackTypes DEF PoolTypes
  <2>4. lines' \in 0..calls'
    BY OutputAssumption DEF PoolTypes
  <2>5. UNCHANGED <<enc, encPool, bufPool, reflectBuf, arg>>
    BY DEF poolVars
  <2> QED
    BY <2>1, <2>2, <2>3, <2>4, <2>5 DEF PoolTypes, UsesArg
<1>2. PoolDisjoint'
  BY DEF PoolDisjoint, poolVars
<1>3. \A h \in Goroutines : h # g => pc'[h] = pc[h]
  BY DEF PoolTypes
<1>4. pc'[g] \in UsesArg => Encoded(g)'
  <2>1. CASE UNCHANGED pc
    BY <2>1 DEF BufferContents, Encoded, poolVars
  <2>2. CASE ~UNCHANGED pc
    BY <2>2 DEF PoolTypes, UsesArg
  <2> QED
    BY <2>1, <2>2
<1>5. BufferContents'
  BY <1>3, <1>4, ContentsKept DEF poolVars
<1> QED
  BY <1>1, <1>2, <1>5

-----------------------------------------------------------------------------
(***************************************************************************)
(* WriteSyncers, and sequences used as stacks.                             *)
(***************************************************************************)

\* What a constructor makes of what constructors have made.
LEMMA BuiltNodes ==
  ASSUME NEW ws \in Built
  PROVE  /\ ws.kind \in {"file", "wrapper", "lock", "multi"}
         /\ ws.kind \in LeafKinds =>
              ws.name \in Files /\ ws.paths = {[file |-> ws.name, locks |-> {}]}
         /\ ws.kind = "lock" =>
              /\ ws.name \in Mutexes /\ ws.ws[1] \in Built
              /\ ws.paths = {[file |-> p.file, locks |-> p.locks \union {ws.name}] :
                             p \in ws.ws[1].paths}
         /\ ws.kind = "multi" =>
              /\ ws.ws \in Seq(Built)
              /\ \A i \in 1..Len(ws.ws) : ws.ws[i].paths \subseteq ws.paths
<1>1. Made(ws)
  BY SinkAssumption
<1>2. CASE \E x \in Files : ws \in {AddSync(File(x)), AddSync(Writer(x))}
  <2>1. PICK x \in Files : ws \in {AddSync(File(x)), AddSync(Writer(x))}
    BY <1>2
  <2>2. CASE ws = AddSync(File(x))
    BY <2>2 DEF AddSync, File, Leaf, LeafKinds
  <2>3. CASE ws = AddSync(Writer(x))
    BY <2>3 DEF AddSync, Writer, Leaf, LeafKinds
  <2> QED
    BY <2>1, <2>2, <2>3
<1>3. CASE \E inner \in Built, m \in Mutexes : inner.kind # "lock" /\ ws = Lock(inner, m)
  <2>1. PICK inner \in Built, m \in Mutexes : inner.kind # "lock" /\ ws = Lock(inner, m)
    BY <1>3
  <2>2. ws = [kind |-> "lock", name |-> m, ws |-> <<inner>>, hollow |-> inner.hollow,
              leaves |-> inner.leaves,
              paths |-> {[file |-> p.file, locks |-> p.locks \union {m}] :
                         p \in inner.paths}]
    BY <2>1 DEF Lock
  <2>3. ws.kind = "lock" /\ ws.name = m /\ ws.ws[1] = inner
    BY <2>2
  <2>4. ws.paths = {[file |-> p.file, locks |-> p.locks \union {m}] : p \in inner.paths}
    BY <2>2
  <2> QED
    BY <2>3, <2>4 DEF LeafKinds
<1>4. CASE ws.ws \in Seq(Built) /\ Len(ws.ws) # 1 /\ ws = NewMultiWriteSyncer(ws.ws)
  <2>1. ws.kind = "multi" /\ ws.paths = UNION {ws.ws[i].paths : i \in DOMAIN ws.ws}
    <3> DEFINE parts == ws.ws
    <3>1. ws = NewMultiWriteSyncer(parts) /\ Len(parts) # 1
      BY <1>4
    <3> HIDE DEF parts
    <3>2. ws.kind = "multi" /\ ws.paths = UNION {parts[i].paths : i \in DOMAIN parts}
      BY <3>1 DEF NewMultiWriteSyncer
    <3> QED
      BY <3>2 DEF parts
  <2> QED
    BY <1>4, <2>1 DEF LeafKinds
<1> QED
  BY <1>1, <1>2, <1>3, <1>4 DEF Made

LEMMA StackTop ==
  ASSUME NEW T, NEW s \in Seq(T), s # <<>>
  PROVE  Len(s) \in Nat \ {0} /\ Last(s) = s[Len(s)] /\ Last(s) \in T
  BY DEF Last

LEMMA Popped ==
  ASSUME NEW T, NEW s \in Seq(T), s # <<>>
  PROVE  /\ Front(s) \in Seq(T) /\ Len(Front(s)) = Len(s) - 1
         /\ \A i \in 1..(Len(s) - 1) : Front(s)[i] = s[i]
<1>1. Len(s) \in Nat \ {0} /\ \A i \in 1..Len(s) : s[i] \in T
  BY StackTop
<1>2. PICK n \in Nat : n = Len(s) - 1
  BY <1>1
<1>3. \A i \in 1..n : s[i] \in T
  BY <1>1, <1>2
<1>4. /\ SubSeq(s, 1, n) \in Seq(T)
      /\ Len(SubSeq(s, 1, n)) = IF 1 <= n THEN n - 1 + 1 ELSE 0
      /\ \A i \in 1..(n - 1 + 1) : SubSeq(s, 1, n)[i] = s[1 + i - 1]
  BY <1>3, SubSeqProperties
<1>5. /\ Len(SubSeq(s, 1, n)) = n
      /\ \A i \in 1..n : SubSeq(s, 1, n)[i] = s[i]
  BY <1>4
<1> QED
  BY <1>2, <1>4, <1>5 DEF Front

LEMMA Swapped ==
  ASSUME NEW T, NEW s \in Seq(T), s # <<>>, NEW a \in T
  PROVE  LET r == Append(Front(s), a) IN
         /\ r \in Seq(T) /\ Len(r) = Len(s)
         /\ \A i \in 1..(Len(s) - 1) : r[i] = s[i]
         /\ r[Len(s)] = a
<1>1. /\ Front(s) \in Seq(T) /\ Len(Front(s)) = Len(s) - 1
      /\ \A i \in 1..(Len(s) - 1) : Front(s)[i] = s[i]
  BY Popped
<1> QED
  BY <1>1, AppendProperties, StackTop

LEMMA Pushed ==
  ASSUME NEW T, NEW s \in Seq(T), s # <<>>, NEW a \in T, NEW b \in T
  PROVE  /\ Front(s) \o <<a, b>> \in Seq(T)
         /\ Len(Front(s) \o <<a, b>>) = Len(s) + 1
         /\ \A i \in 1..(Len(s) - 1) : (Front(s) \o <<a, b>>)[i] = s[i]
         /\ (Front(s) \o <<a, b>>)[Len(s)] = a
         /\ (Front(s) \o <<a, b>>)[Len(s) + 1] = b
<1>1. /\ Front(s) \in Seq(T) /\ Len(Front(s)) = Len(s) - 1
      /\ \A i \in 1..(Len(s) - 1) : Front(s)[i] = s[i]
  BY Popped
<1>2. <<a, b>> \in Seq(T) /\ Len(<<a, b>>) = 2 /\ <<a, b>>[1] = a /\ <<a, b>>[2] = b
  OBVIOUS
<1>3. Len(s) \in Nat \ {0}
  OBVIOUS
<1> DEFINE u == Front(s)
           v == <<a, b>>
           r == u \o v
<1> HIDE DEF u, v
<1>4. /\ r \in Seq(T) /\ Len(r) = Len(u) + Len(v)
      /\ \A i \in 1..(Len(u) + Len(v)) :
           r[i] = IF i <= Len(u) THEN u[i] ELSE v[i - Len(u)]
  BY <1>1, <1>2, ConcatProperties DEF u, v
<1> HIDE DEF r
<1>5. /\ r \in Seq(T) /\ Len(r) = Len(s) + 1
      /\ \A i \in 1..(Len(s) - 1) : r[i] = s[i]
      /\ r[Len(s)] = a /\ r[Len(s) + 1] = b
  <2>1. /\ Len(u) = Len(s) - 1 /\ \A i \in 1..(Len(s) - 1) : u[i] = s[i]
        /\ Len(v) = 2 /\ v[1] = a /\ v[2] = b
    BY <1>1, <1>2 DEF u, v
  <2> PICK n \in Nat \ {0} : n = Len(s)
    BY <1>3
  <2>2. /\ r \in Seq(T) /\ Len(r) = n + 1
        /\ \A i \in 1..(n + 1) : r[i] = IF i <= n - 1 THEN u[i] ELSE v[i - (n - 1)]
    BY <1>4, <2>1
  <2>3. \A i \in 1..(n - 1) : r[i] = s[i]
    BY <2>1, <2>2
  <2>4. r[n] = v[1] /\ r[n + 1] = v[2]
    <3>1. n \in 1..(n + 1) /\ ~(n <= n - 1) /\ n - (n - 1) = 1
      OBVIOUS
    <3>2. n + 1 \in 1..(n + 1) /\ ~(n + 1 <= n - 1) /\ (n + 1) - (n - 1) = 2
      OBVIOUS
    <3> QED
      BY <2>2, <3>1, <3>2
  <2> QED
    BY <2>1, <2>2, <2>3, <2>4
<1> QED
  BY <1>5 DEF r, u, v

-----------------------------------------------------------------------------
(***************************************************************************)
(* The stacks and the mutexes.                                             *)
(***************************************************************************)

LEMMA FramesKept ==
  ASSUME NEW h \in Goroutines, FramesOK(h),
         stack'[h] = stack[h], ret'[h] = ret[h], out'[h] = out[h]
  PROVE  FramesOK(h)'
  BY DEF FramesOK, FrameOK, OnPath, HeldUnder

\* The frames under the k-th, but for the counts in them, determine what is held.
LEMMA HeldKept ==
  ASSUME NEW g \in Goroutines, NEW k \in Nat,
         \A j \in 1..(k - 1) : stack'[g][j] = stack[g][j]
  PROVE  HeldUnder(g, k)' = HeldUnder(g, k)
  BY DEF HeldUnder

\* A frame under the top stays as it is when the frames under it do.
LEMMA FrameKept ==
  ASSUME NEW g \in Goroutines, NEW k \in Nat, FrameOK(g, k),
         \A j \in 1..k : stack'[g][j] = stack[g][j],
         k > 0, k < Len(stack[g]), k <= Len(stack'[g]),
         k = Len(stack'[g]) => ret'[g] \in Results,
         UNCHANGED out
  PROVE  FrameOK(g, k)'
<1>1. stack'[g][k] = stack[g][k]
  OBVIOUS
<1>2. HeldUnder(g, k)' = HeldUnder(g, k)
  BY HeldKept
<1>3. OnPath(g, k)'
  BY <1>1, <1>2 DEF FrameOK, OnPath
<1> QED
  BY <1>1, <1>3 DEF FrameOK

\* Steps of g that lock and unlock nothing.
LEMMA MutexKept ==
  ASSUME MutexOK, UNCHANGED holder, NEW g \in Goroutines,
         \A h \in Goroutines : h # g => stack'[h] = stack[h],
         \A k \in 1..Len(stack'[g]) : HasLocked(stack'[g][k]) =>
           k \in 1..Len(stack[g]) /\ HasLocked(stack[g][k]),
         \A k \in 1..Len(stack[g]) : HasLocked(stack[g][k]) =>
           /\ k \in 1..Len(stack'[g]) /\ HasLocked(stack'[g][k])
           /\ stack'[g][k].ws = stack[g][k].ws
  PROVE  MutexOK'
<1>1. LocksOK(g)'
  <2>1. LocksOK(g)
    BY DEF MutexOK
  <2>2. \A k \in 1..Len(stack'[g]) : HasLocked(stack'[g][k]) =>
          /\ k \in 1..Len(stack[g]) /\ HasLocked(stack[g][k])
          /\ stack'[g][k].ws = stack[g][k].ws
    OBVIOUS
  <2> HIDE DEF HasLocked
  <2> QED
    BY <2>1, <2>2, SMTT(30) DEF LocksOK
<1>2. \A h \in Goroutines : LocksOK(h)'
  <2>1. ASSUME NEW h \in Goroutines, h # g PROVE LocksOK(h)'
    BY <2>1, SMTT(30) DEF MutexOK, LocksOK
  <2> QED
    BY <1>1, <2>1
<1>3. ASSUME NEW m \in Mutexes PROVE Locked(m)'
  <2>1. CASE holder[m] = g
    BY <2>1 DEF MutexOK, Locked
  <2>2. CASE holder[m] # g
    BY <2>2 DEF MutexOK, Locked
  <2> QED
    BY <2>1, <2>2
<1> QED
  BY <1>2, <1>3 DEF MutexOK

\* The top frame returns.
LEMMA PopFrame ==
  ASSUME StackOK, NEW g \in Goroutines, stack[g] # <<>>,
         NEW n \in Nat, NEW err \in SUBSET Files, Return(g, n, err),
         UNCHANGED <<out, method>>
  PROVE  /\ StackOK'
         /\ Len(stack[g]) \in Nat \ {0} /\ Len(stack'[g]) = Len(stack[g]) - 1
         /\ \A k \in 1..(Len(stack[g]) - 1) : stack'[g][k] = stack[g][k]
         /\ \A h \in Goroutines : h # g => stack'[h] = stack[h]
<1> DEFINE N == Len(stack[g])
<1>1. stack[g] \in Seq(Frames) /\ N \in Nat \ {0}
  BY StackTypes, StackTop
<1>2. /\ Front(stack[g]) \in Seq(Frames) /\ Len(Front(stack[g])) = N - 1
      /\ \A k \in 1..(N - 1) : Front(stack[g])[k] = stack[g][k]
  BY <1>1, Popped
<1>3. /\ stack' = [stack EXCEPT ![g] = Front(stack[g])]
      /\ ret' = [ret EXCEPT ![g] = [n |-> n, err |-> err]]
  BY DEF Return
<1>4. /\ stack'[g] = Front(stack[g]) /\ ret'[g] \in Results
      /\ \A h \in Goroutines : h # g => stack'[h] = stack[h] /\ ret'[h] = ret[h]
      /\ stack' \in [Goroutines -> Seq(Frames)]
      /\ ret' \in [Goroutines -> Results \union {NIL}]
  BY <1>2, <1>3, StackTypes DEF Results
<1>5. ASSUME NEW k \in 1..(N - 1) PROVE FrameOK(g, k)'
  <2>1. FrameOK(g, k) /\ k \in Nat /\ k > 0 /\ k < N
    BY <1>1 DEF StackOK, FramesOK
  <2>2. \A j \in 1..k : stack'[g][j] = stack[g][j]
    BY <1>1, <1>2, <1>4
  <2>3. k <= Len(stack'[g])
    BY <1>1, <1>2, <1>4
  <2> QED
    BY <1>4, <2>1, <2>2, <2>3, FrameKept
<1>6. FramesOK(g)'
  BY <1>2, <1>4, <1>5 DEF FramesOK
<1>7. \A h \in Goroutines : FramesOK(h)'
  BY <1>4, <1>6, FramesKept DEF StackOK
<1>8. StackOK'
  BY <1>4, <1>7 DEF StackOK
<1> QED
  BY <1>1, <1>2, <1>4, <1>8

LEMMA HeldNext ==
  ASSUME NEW g \in Goroutines, NEW N \in Nat, NEW m \in Mutexes, NEW j \in 1..N,
         HasLocked(stack'[g][j]), stack'[g][j].ws.name = m
  PROVE  m \in HeldUnder(g, N + 1)'
<1>1. j \in 1..(N + 1 - 1)
  OBVIOUS
<1> DEFINE k == N + 1
<1>2. j \in 1..(k - 1)
  BY <1>1
<1>3. k' = k
  OBVIOUS
<1> HIDE DEF k
<1>4. m \in HeldUnder(g, k)'
  BY <1>2, <1>3 DEF HeldUnder, HasLocked
<1> QED
  BY <1>4 DEF k

\* What calls that a frame makes have locked on their path because of it.
Adds(t) == IF HasLocked(t) THEN {t.ws.name} ELSE {}

\* A frame calls a WriteSyncer that it holds: it stays, and a new one comes on top.
LEMMA PushFrame ==
  ASSUME StackOK, NEW g \in Goroutines, stack[g] # <<>>,
         NEW t \in Frames, NEW ws \in Built,
         stack' = [stack EXCEPT ![g] = Front(@) \o <<t, Frame(ws)>>],
         t.ws = Top(g).ws, t.i > 0, t.ws.kind \notin LeafKinds,
         t.ws.kind = "lock" => t.i = 1,
         \A p \in ws.paths : \E q \in t.ws.paths :
           q.file = p.file /\ q.locks \subseteq p.locks \union Adds(t),
         UNCHANGED <<out, method, ret>>
  PROVE  /\ StackOK'
         /\ Len(stack[g]) \in Nat \ {0} /\ Len(stack'[g]) = Len(stack[g]) + 1
         /\ \A k \in 1..(Len(stack[g]) - 1) : stack'[g][k] = stack[g][k]
         /\ stack'[g][Len(stack[g])] = t
         /\ stack'[g][Len(stack[g]) + 1] = Frame(ws)
         /\ \A h \in Goroutines : h # g => stack'[h] = stack[h]
<1> PICK N \in Nat \ {0} : N = Len(stack[g])
  BY StackTypes, StackTop
<1>1. stack[g] \in Seq(Frames) /\ Top(g) = stack[g][N]
  BY StackTypes, StackTop DEF Top
<1>2. Frame(ws) \in Frames /\ Frame(ws).ws = ws /\ Frame(ws).i = 0
  BY DEF Frame, Frames
<1>3. /\ stack'[g] \in Seq(Frames) /\ Len(stack'[g]) = N + 1
      /\ \A k \in 1..(N - 1) : stack'[g][k] = stack[g][k]
      /\ stack'[g][N] = t /\ stack'[g][N + 1] = Frame(ws)
  <2>1. stack'[g] = Front(stack[g]) \o <<t, Frame(ws)>>
    BY StackTypes
  <2>2. stack[g] # <<>> /\ t \in Frames /\ Frame(ws) \in Frames
    BY <1>2
  <2> DEFINE s == stack[g]
             f == Frame(ws)
  <2> HIDE DEF s, f
  <2>3. s \in Seq(Frames) /\ s # <<>> /\ f \in Frames
    BY <1>1, <2>2 DEF s, f
  <2>4. stack'[g] = Front(s) \o <<t, f>>
    BY <2>1 DEF s, f
  <2>5. /\ Front(s) \o <<t, f>> \in Seq(Frames)
        /\ Len(Front(s) \o <<t, f>>) = Len(s) + 1
        /\ \A k \in 1..(Len(s) - 1) : (Front(s) \o <<t, f>>)[k] = s[k]
        /\ (Front(s) \o <<t, f>>)[Len(s)] = t
        /\ (Front(s) \o <<t, f>>)[Len(s) + 1] = f
    BY <2>3, Pushed, SMTT(60)
  <2> QED
    BY <2>4, <2>5, Zenon DEF s, f
<1>4. /\ \A h \in Goroutines : h # g => stack'[h] = stack[h]
      /\ stack' \in [Goroutines -> Seq(Frames)]
  BY <1>3, StackTypes
<1>5. ASSUME NEW k \in 1..(N - 1) PROVE FrameOK(g, k)'
  <2>1. FrameOK(g, k) /\ k \in Nat /\ k > 0 /\ k < N
    BY <1>1 DEF StackOK, FramesOK
  <2>2. \A j \in 1..k : stack'[g][j] = stack[g][j]
    <3>1. 1..k \subseteq 1..(N - 1)
      OBVIOUS
    <3> QED
      BY <1>3, <3>1
  <2>3. k < Len(stack'[g])
    BY <1>1, <1>3
  <2> QED
    BY <2>1, <2>2, <2>3, FrameKept
<1>6. OnPath(g, N)' /\ FrameOK(g, N)'
  <2>1. OnPath(g, N)
    BY <1>1 DEF StackOK, FramesOK, FrameOK
  <2>2. HeldUnder(g, N)' = HeldUnder(g, N)
    BY <1>1, <1>3, HeldKept
  <2>3. OnPath(g, N)'
    BY <1>1, <1>3, <2>1, <2>2 DEF OnPath
  <2> QED
    BY <1>1, <1>3, <2>3, SMTT(30) DEF FrameOK
<1>7. FrameOK(g, N + 1)'
  <2>1. HeldUnder(g, N)' \union Adds(t) \subseteq HeldUnder(g, N + 1)'
    <3>1. t.ws.kind = "lock" => t.ws.name \in Mutexes
      BY BuiltNodes DEF Frames
    <3>2. 1..(N + 1 - 1) = 1..N /\ 1..(N - 1) \subseteq 1..N /\ N \in 1..N
      OBVIOUS
    <3>3. \A m \in Mutexes, j \in 1..N :
            HasLocked(stack'[g][j]) /\ stack'[g][j].ws.name = m
              => m \in HeldUnder(g, N + 1)'
      BY HeldNext
    <3>4. HeldUnder(g, N)' \subseteq HeldUnder(g, N + 1)'
      <4> HIDE DEF HasLocked
      <4> QED
        BY <3>2, <3>3 DEF HeldUnder
    <3>5. HasLocked(t) => t.ws.name \in HeldUnder(g, N + 1)'
      <4>1. HasLocked(t) => t.ws.name \in Mutexes
        BY <3>1 DEF HasLocked
      <4>2. HasLocked(t) => HasLocked(stack'[g][N]) /\ stack'[g][N].ws.name = t.ws.name
        BY <1>3
      <4> QED
        BY <3>2, <3>3, <4>1, <4>2
    <3> QED
      BY <3>4, <3>5 DEF Adds
  <2>2. ASSUME NEW p \in ws.paths
        PROVE  \E q \in out[g].paths :
                 q.file = p.file /\ q.locks \subseteq p.locks \union HeldUnder(g, N + 1)'
    <3>1. PICK r \in t.ws.paths :
            r.file = p.file /\ r.locks \subseteq p.locks \union Adds(t)
      OBVIOUS
    <3>2. PICK q \in out[g].paths :
            q.file = r.file /\ q.locks \subseteq r.locks \union HeldUnder(g, N)'
      BY <1>3, <1>6 DEF OnPath
    <3> QED
      BY <2>1, <3>1, <3>2
  <2>3. OnPath(g, N + 1)'
    BY <1>2, <1>3, <2>2 DEF OnPath
  <2> QED
    BY <1>1, <1>2, <1>3, <2>3 DEF FrameOK
<1>8. FramesOK(g)'
  <2>1. ASSUME NEW k \in 1..(N + 1) PROVE FrameOK(g, k)'
    <3>1. CASE k = N + 1
      BY <1>7, <3>1
    <3>2. CASE k = N
      BY <1>6, <3>2
    <3>3. CASE k \in 1..(N - 1)
      BY <1>5, <3>3
    <3> QED
      BY <1>1, <3>1, <3>2, <3>3
  <2> QED
    BY <1>3, <2>1 DEF FramesOK
<1>9. \A h \in Goroutines : FramesOK(h)'
  BY <1>4, <1>8, FramesKept DEF StackOK
<1>10. StackOK'
  BY <1>4, <1>9 DEF StackOK
<1> QED
  BY <1>1, <1>3, <1>4, <1>10

\* The top frame counts a byte.
LEMMA SwapFrame ==
  ASSUME StackOK, NEW g \in Goroutines, stack[g] # <<>>, NEW t \in Frames,
         stack' = [stack EXCEPT ![g] = Append(Front(@), t)],
         t.ws = Top(g).ws, t.i = Top(g).i,
         UNCHANGED <<out, method, ret>>
  PROVE  /\ StackOK'
         /\ Len(stack[g]) \in Nat \ {0} /\ Len(stack'[g]) = Len(stack[g])
         /\ \A k \in 1..(Len(stack[g]) - 1) : stack'[g][k] = stack[g][k]
         /\ stack'[g][Len(stack[g])] = t
         /\ \A h \in Goroutines : h # g => stack'[h] = stack[h]
<1> PICK N \in Nat \ {0} : N = Len(stack[g])
  BY StackTypes, StackTop
<1>1. stack[g] \in Seq(Frames) /\ Top(g) = stack[g][N]
  BY StackTypes, StackTop DEF Top
<1>2. /\ stack'[g] \in Seq(Frames) /\ Len(stack'[g]) = N
      /\ \A k \in 1..(N - 1) : stack'[g][k] = stack[g][k]
      /\ stack'[g][N] = t
  <2>1. stack'[g] = Append(Front(stack[g]), t)
    BY StackTypes
  <2> DEFINE s == stack[g]
  <2> HIDE DEF s
  <2>2. s \in Seq(Frames) /\ s # <<>>
    BY <1>1 DEF s
  <2>3. LET q == Append(Front(s), t) IN
        /\ q \in Seq(Frames) /\ Len(q) = Len(s)
        /\ \A k \in 1..(Len(s) - 1) : q[k] = s[k]
        /\ q[Len(s)] = t
    BY <2>2, Swapped
  <2> QED
    BY <2>1, <2>3 DEF s
<1>3. /\ \A h \in Goroutines : h # g => stack'[h] = stack[h]
      /\ stack' \in [Goroutines -> Seq(Frames)]
  BY <1>2, StackTypes
<1>4. ASSUME NEW k \in 1..(N - 1) PROVE FrameOK(g, k)'
  <2>1. FrameOK(g, k) /\ k \in Nat /\ k > 0 /\ k < N
    BY <1>1 DEF StackOK, FramesOK
  <2>2. \A j \in 1..k : stack'[g][j] = stack[g][j]
    <3>1. 1..k \subseteq 1..(N - 1)
      OBVIOUS
    <3> QED
      BY <1>2, <3>1
  <2>3. k < Len(stack'[g])
    BY <1>1, <1>2
  <2> QED
    BY <2>1, <2>2, <2>3, FrameKept
<1>5. FrameOK(g, N)'
  <2>1. FrameOK(g, N)
    BY <1>1 DEF StackOK, FramesOK
  <2>2. HeldUnder(g, N)' = HeldUnder(g, N)
    BY <1>1, <1>2, HeldKept
  <2>3. OnPath(g, N)'
    BY <1>1, <1>2, <2>1, <2>2 DEF FrameOK, OnPath
  <2> QED
    BY <1>1, <1>2, <2>1, <2>3 DEF FrameOK
<1>6. FramesOK(g)'
  BY <1>2, <1>4, <1>5 DEF FramesOK
<1>7. \A h \in Goroutines : FramesOK(h)'
  BY <1>3, <1>6, FramesKept DEF StackOK
<1>8. StackOK'
  BY <1>3, <1>7 DEF StackOK
<1> QED
  BY <1>1, <1>2, <1>3, <1>8

\* A call begins, or the goroutine has nothing left to do.
LEMMA FirstFrame ==
  ASSUME StackOK, NEW g \in Goroutines, stack[g] = <<>>,
         \/ /\ stack' = [stack EXCEPT ![g] = <<Frame(out[g])>>]
            /\ \E m \in {"write", "sync"} : method' = [method EXCEPT ![g] = m]
         \/ UNCHANGED <<stack, method>>,
         ret' = [ret EXCEPT ![g] = NIL], UNCHANGED out
  PROVE  /\ StackOK'
         /\ stack'[g] \in {<<>>, <<Frame(out[g])>>}
         /\ \A h \in Goroutines : h # g => stack'[h] = stack[h]
<1>1. /\ Frame(out[g]) \in Frames /\ Frame(out[g]).ws = out[g]
      /\ Frame(out[g]).i = 0
  BY StackTypes DEF Frame, Frames
<1> DEFINE f == Frame(out[g])
<1> HIDE DEF f
<1>2. /\ stack'[g] \in {<<>>, <<f>>}
      /\ \A h \in Goroutines : h # g => stack'[h] = stack[h] /\ ret'[h] = ret[h]
      /\ ret' \in [Goroutines -> Results \union {NIL}]
      /\ method' \in [Goroutines -> {"write", "sync"}]
  BY StackTypes DEF f
<1>3. stack' \in [Goroutines -> Seq(Frames)]
  <2>1. <<>> \in Seq(Frames) /\ <<f>> \in Seq(Frames)
    BY <1>1 DEF f
  <2> QED
    BY <1>2, <2>1, StackTypes DEF f
<1>4. FramesOK(g)'
  <2>1. CASE stack'[g] = <<>>
    BY <2>1 DEF FramesOK
  <2>2. CASE stack'[g] = <<f>>
    <3>1. Len(stack'[g]) = 1 /\ stack'[g][1] = f
      BY <2>2
    <3>2. OnPath(g, 1)'
      BY <1>1, <3>1 DEF OnPath, f
    <3>3. FrameOK(g, 1)'
      BY <1>1, <3>1, <3>2 DEF FrameOK, f
    <3> QED
      BY <3>1, <3>3 DEF FramesOK
  <2> QED
    BY <1>2, <2>1, <2>2
<1>5. \A h \in Goroutines : FramesOK(h)'
  BY <1>2, <1>4, FramesKept DEF StackOK
<1>6. StackOK'
  BY <1>2, <1>3, <1>5, StackTypes DEF StackOK
<1> QED
  BY <1>2, <1>6 DEF f

LEMMA TopFrame ==
  ASSUME StackOK, NEW g \in Goroutines, stack[g] # <<>>
  PROVE  /\ Len(stack[g]) \in Nat \ {0} /\ Top(g) = stack[g][Len(stack[g])]
         /\ Top(g) \in Frames /\ Top(g).ws \in Built
         /\ Top(g).i \in Nat /\ Top(g).n \in Nat /\ Top(g).err \in SUBSET Files
         /\ FrameOK(g, Len(stack[g]))
         /\ Top(g).i > 0 => ret[g] \in Results
<1>1. /\ Len(stack[g]) \in Nat \ {0} /\ Top(g) = stack[g][Len(stack[g])]
      /\ Top(g) \in Frames
  BY StackTypes, StackTop DEF Top
<1>2. FrameOK(g, Len(stack[g]))
  BY <1>1 DEF StackOK, FramesOK
<1>3. Top(g).i > 0 => ret[g] \in Results
  BY <1>1, <1>2 DEF FrameOK
<1> QED
  BY <1>1, <1>2, <1>3 DEF Frames

\* A method returns that has locked nothing.
LEMMA PopStack ==
  ASSUME StackInv, NEW g \in Goroutines, stack[g] # <<>>, ~HasLocked(Top(g)),
         NEW n \in Nat, NEW err \in SUBSET Files, Return(g, n, err),
         UNCHANGED <<out, method, holder>>
  PROVE  StackInv'
<1> USE DEF StackInv
<1> PICK N \in Nat \ {0} : N = Len(stack[g])
  BY TopFrame
<1>1. /\ StackOK' /\ Len(stack'[g]) = N - 1
      /\ \A k \in 1..(N - 1) : stack'[g][k] = stack[g][k]
      /\ \A h \in Goroutines : h # g => stack'[h] = stack[h]
  BY PopFrame
<1>2. ~HasLocked(stack[g][N])
  BY TopFrame
<1>3. \A k \in 1..N : k = N \/ k \in 1..(N - 1)
  OBVIOUS
<1>4. MutexOK'
  BY <1>1, <1>2, <1>3, MutexKept, SMTT(30)
<1> QED
  BY <1>1, <1>4

LEMMA PushedTop ==
  ASSUME NEW T, NEW s \in Seq(T), s # <<>>, NEW t, NEW f
  PROVE  Last(Front(s) \o <<t, f>>) = f
<1> DEFINE U == T \union {t, f}
           r == Front(s) \o <<t, f>>
<1>1. s \in Seq(U) /\ t \in U /\ f \in U /\ Len(s) \in Nat
  BY SeqMonotonic
<1> HIDE DEF U
<1>2. Len(r) = Len(s) + 1 /\ r[Len(s) + 1] = f
  BY <1>1, Pushed, SMTT(60)
<1> QED
  BY <1>1, <1>2 DEF Last

LEMMA FirstStack ==
  ASSUME StackInv, NEW g \in Goroutines, stack[g] = <<>>,
         \/ /\ stack' = [stack EXCEPT ![g] = <<Frame(out[g])>>]
            /\ \E m \in {"write", "sync"} : method' = [method EXCEPT ![g] = m]
         \/ UNCHANGED <<stack, method>>,
         ret' = [ret EXCEPT ![g] = NIL], UNCHANGED <<out, holder>>
  PROVE  StackInv'
<1> USE DEF StackInv
<1>1. /\ StackOK' /\ stack'[g] \in {<<>>, <<Frame(out[g])>>}
      /\ \A h \in Goroutines : h # g => stack'[h] = stack[h]
  BY FirstFrame
<1>2. \A k \in 1..Len(stack'[g]) : ~HasLocked(stack'[g][k])
  <2>1. Frame(out[g]).i = 0
    BY DEF Frame
  <2> DEFINE f == Frame(out[g])
  <2> HIDE DEF f
  <2>2. CASE stack'[g] = <<>>
    BY <2>2
  <2>3. CASE stack'[g] = <<f>>
    <3>1. Len(stack'[g]) = 1 /\ stack'[g][1] = f
      BY <2>3
    <3> QED
      BY <2>1, <3>1 DEF HasLocked, f
  <2> QED
    BY <1>1, <2>2, <2>3 DEF f
<1>3. MutexOK'
  BY <1>1, <1>2, MutexKept
<1> QED
  BY <1>1, <1>3

LEMMA LeafIsNoLock ==
  ASSUME NEW g \in Goroutines, In(g, LeafKinds)
  PROVE  stack[g] # <<>> /\ ~HasLocked(Top(g)) /\ Top(g).ws.kind \notin {"lock", "multi"}
  BY DEF In, HasLocked, LeafKinds

LEMMA WriteByteStack ==
  ASSUME StackInv, NEW g \in Goroutines, WriteByte(g) PROVE StackInv'
<1> USE DEF StackInv
<1> DEFINE n == Top(g).n + 1
<1>1. /\ In(g, LeafKinds) /\ UNCHANGED <<out, method, holder>>
      /\ IF n = Len(mem[arg[g]])
           THEN Return(g, n, {})
           ELSE /\ stack' = [stack EXCEPT ![g] = Append(Front(@), [Top(g) EXCEPT !.n = n])]
                /\ UNCHANGED ret
  BY DEF WriteByte, Answer, LeafKinds
<1>2. stack[g] # <<>> /\ ~HasLocked(Top(g)) /\ n \in Nat
  BY <1>1, LeafIsNoLock, TopFrame
<1>3. CASE n = Len(mem[arg[g]])
  BY <1>1, <1>2, <1>3, PopStack
<1>4. CASE n # Len(mem[arg[g]])
  <2> DEFINE t == [Top(g) EXCEPT !.n = n]
  <2>1. t \in Frames /\ t.ws = Top(g).ws /\ t.i = Top(g).i
    BY <1>2, TopFrame DEF Frames
  <2>2. stack' = [stack EXCEPT ![g] = Append(Front(@), t)] /\ UNCHANGED <<out, method, ret>>
    BY <1>1, <1>4
  <2> HIDE DEF t
  <2> PICK N \in Nat \ {0} : N = Len(stack[g])
    BY <1>2, TopFrame
  <2>3. /\ StackOK' /\ Len(stack'[g]) = N
        /\ \A k \in 1..(N - 1) : stack'[g][k] = stack[g][k]
        /\ stack'[g][N] = t
        /\ \A h \in Goroutines : h # g => stack'[h] = stack[h]
    <3>1. /\ StackOK' /\ Len(stack'[g]) = Len(stack[g])
          /\ \A k \in 1..(Len(stack[g]) - 1) : stack'[g][k] = stack[g][k]
          /\ stack'[g][Len(stack[g])] = t
          /\ \A h \in Goroutines : h # g => stack'[h] = stack[h]
      BY <1>2, <2>1, <2>2, SwapFrame
    <3> QED
      BY <3>1
  <2>4. ~HasLocked(stack[g][N]) /\ ~HasLocked(t)
    BY <1>2, <2>1, TopFrame DEF HasLocked
  <2>5. \A k \in 1..N : k = N \/ k \in 1..(N - 1)
    OBVIOUS
  <2>6. MutexOK'
    BY <1>1, <2>3, <2>4, <2>5, MutexKept
  <2> QED
    BY <2>3, <2>6
<1> QED
  BY <1>3, <1>4

LEMMA LeafStack ==
  ASSUME StackInv, NEW g \in Goroutines, SyncFile(g) \/ LeafFails(g) \/ SyncNothing(g)
  PROVE  StackInv'
<1>1. In(g, LeafKinds) /\ UNCHANGED <<out, method, holder>>
  BY DEF SyncFile, LeafFails, SyncNothing, In, LeafKinds
<1>2. /\ stack[g] # <<>> /\ ~HasLocked(Top(g))
      /\ Top(g).n \in Nat /\ {Top(g).ws.name} \subseteq Files
  BY <1>1, LeafIsNoLock, TopFrame, BuiltNodes DEF StackInv, In
<1>3. \E n \in Nat, err \in SUBSET Files : Return(g, n, err)
  BY <1>2 DEF SyncFile, LeafFails, SyncNothing, Answer
<1> QED
  BY <1>1, <1>2, <1>3, PopStack

LEMMA AcquireStack ==
  ASSUME StackInv, NEW g \in Goroutines, Acquire(g) PROVE StackInv'
<1> USE DEF StackInv
<1> PICK N \in Nat \ {0} : N = Len(stack[g])
  BY TopFrame DEF Acquire, In
<1> DEFINE m == Top(g).ws.name
           t == [Top(g) EXCEPT !.i = 1]
           ws == Top(g).ws.ws[1]
<1>1. /\ stack[g] # <<>> /\ Top(g).ws.kind = "lock" /\ Top(g).i = 0
      /\ holder[m] = NIL /\ holder' = [holder EXCEPT ![m] = g]
      /\ stack' = [stack EXCEPT ![g] = Front(@) \o <<t, Frame(ws)>>]
      /\ UNCHANGED <<out, method, ret>>
  BY DEF Acquire, In, MayLock
<1>2. /\ m \in Mutexes /\ ws \in Built
      /\ Top(g).ws.paths = {[file |-> p.file, locks |-> p.locks \union {m}] : p \in ws.paths}
  BY <1>1, TopFrame, BuiltNodes
<1>3. /\ t \in Frames /\ t.ws = Top(g).ws /\ t.i = 1 /\ HasLocked(t)
  BY <1>1, TopFrame DEF Frames, HasLocked
<1>4. \A p \in ws.paths : \E q \in t.ws.paths :
        q.file = p.file /\ q.locks \subseteq p.locks \union Adds(t)
  <2>1. ASSUME NEW p \in ws.paths
        PROVE  \E q \in t.ws.paths :
                 q.file = p.file /\ q.locks \subseteq p.locks \union Adds(t)
    <3> DEFINE q == [file |-> p.file, locks |-> p.locks \union {m}]
    <3>1. q \in t.ws.paths /\ q.file = p.file /\ q.locks = p.locks \union {m}
      BY <1>2, <1>3
    <3> HIDE DEF q
    <3> QED
      BY <1>3, <3>1 DEF Adds
  <2> QED
    BY <2>1
<1> HIDE DEF t, ws, m
<1>5. /\ StackOK' /\ Len(stack'[g]) = N + 1
      /\ \A k \in 1..(N - 1) : stack'[g][k] = stack[g][k]
      /\ stack'[g][N] = t /\ stack'[g][N + 1] = Frame(ws)
      /\ \A h \in Goroutines : h # g => stack'[h] = stack[h]
  <2>1. t.i > 0 /\ t.ws.kind \notin LeafKinds /\ (t.ws.kind = "lock" => t.i = 1)
    BY <1>1, <1>3 DEF LeafKinds
  <2>2. /\ StackOK' /\ Len(stack'[g]) = Len(stack[g]) + 1
        /\ \A k \in 1..(Len(stack[g]) - 1) : stack'[g][k] = stack[g][k]
        /\ stack'[g][Len(stack[g])] = t
        /\ stack'[g][Len(stack[g]) + 1] = Frame(ws)
        /\ \A h \in Goroutines : h # g => stack'[h] = stack[h]
    <3>1. /\ stack' = [stack EXCEPT ![g] = Front(@) \o <<t, Frame(ws)>>]
          /\ stack[g] # <<>> /\ UNCHANGED <<out, method, ret>>
          /\ ws \in Built /\ t \in Frames /\ t.ws = Top(g).ws
      BY <1>1, <1>2, <1>3
    <3> QED
      BY <1>4, <2>1, <3>1, PushFrame, ZenonT(40)
  <2> QED
    BY <2>2
<1>6. /\ ~HasLocked(stack[g][N]) /\ ~HasLocked(Frame(ws)) /\ t.ws.name = m
      /\ \A k \in 1..(N + 1) : k = N + 1 \/ k = N \/ k \in 1..(N - 1)
      /\ \A k \in 1..N : k = N \/ k \in 1..(N - 1)
      /\ g # NIL
  BY <1>1, <1>3, TopFrame, NilIsNone DEF HasLocked, Frame, m
<1>7. MutexOK /\ holder \in [Mutexes -> Goroutines \union {NIL}]
  BY DEF MutexOK
<1>8. ASSUME NEW h \in Goroutines, h # g PROVE LocksOK(h)'
  <2>1. LocksOK(h) /\ stack'[h] = stack[h] /\ h # NIL
    BY <1>5, <1>7, <1>8, NilIsNone DEF MutexOK
  <2>2. \A x : holder[x] = h => holder'[x] = h
    BY <1>1, <1>2, <1>7, <2>1
  <2> QED
    BY <2>1, <2>2 DEF LocksOK, HasLocked
<1>9. LocksOK(g)'
  <2>1. LocksOK(g)
    BY DEF MutexOK
  <2>2. \A k \in 1..(N - 1) : HasLocked(stack[g][k]) =>
          stack[g][k].ws.name # m /\ holder'[stack[g][k].ws.name] = g
    BY <1>1, <1>2, <1>6, <1>7, <2>1 DEF LocksOK
  <2>3. \A k \in 1..Len(stack'[g]) : HasLocked(stack'[g][k]) =>
          \/ k = N /\ stack'[g][k].ws.name = m
          \/ /\ k \in 1..(N - 1) /\ stack'[g][k] = stack[g][k]
             /\ HasLocked(stack[g][k])
    BY <1>5, <1>6
  <2>4. holder'[m] = g
    BY <1>1, <1>2, <1>7
  <2>5. \A k \in 1..Len(stack'[g]) : HasLocked(stack'[g][k]) =>
          holder'[stack'[g][k].ws.name] = g
    BY <2>2, <2>3, <2>4
  <2>6. \A j, k \in 1..Len(stack'[g]) :
          HasLocked(stack'[g][j]) /\ HasLocked(stack'[g][k]) /\ j # k
            => stack'[g][j].ws.name # stack'[g][k].ws.name
    <3>1. \A k \in 1..(N - 1) : k \in 1..Len(stack[g])
      OBVIOUS
    <3> QED
      BY <2>1, <2>2, <2>3, <3>1 DEF LocksOK
  <2> QED
    BY <2>5, <2>6 DEF LocksOK, HasLocked
<1>10. ASSUME NEW x \in Mutexes PROVE Locked(x)'
  <2>1. CASE x = m
    <3>1. holder'[x] = g /\ N \in 1..Len(stack'[g])
      BY <1>1, <1>5, <1>7, <2>1
    <3>2. HasLocked(stack'[g][N]) /\ stack'[g][N].ws.name = x
      BY <1>3, <1>5, <1>6, <2>1
    <3> QED
      BY <3>1, <3>2 DEF Locked, HasLocked
  <2>2. CASE x # m
    <3>1. holder'[x] = holder[x] /\ Locked(x)
      BY <1>1, <1>7, <2>2 DEF MutexOK
    <3>2. CASE holder[x] = g
      <4>1. PICK k \in 1..N : HasLocked(stack[g][k]) /\ stack[g][k].ws.name = x
        BY <1>6, <3>1, <3>2 DEF Locked
      <4>2. k \in 1..Len(stack'[g]) /\ stack'[g][k] = stack[g][k]
        BY <1>5, <1>6, <4>1
      <4> QED
        BY <3>1, <3>2, <4>1, <4>2 DEF Locked, HasLocked
    <3>3. CASE holder[x] # g
      BY <1>5, <1>7, <3>1, <3>3 DEF Locked, HasLocked
    <3> QED
      BY <3>2, <3>3
  <2> QED
    BY <2>1, <2>2
<1>11. MutexOK'
  <2>1. holder' \in [Mutexes -> Goroutines \union {NIL}]
    BY <1>1, <1>7
  <2> QED
    BY <1>8, <1>9, <1>10, <2>1 DEF MutexOK
<1> QED
  BY <1>5, <1>11

LEMMA ReleaseStack ==
  ASSUME StackInv, NEW g \in Goroutines, Release(g) PROVE StackInv'
<1> USE DEF StackInv
<1> PICK N \in Nat \ {0} : N = Len(stack[g])
  BY TopFrame DEF Release, In
<1> DEFINE m == Top(g).ws.name
<1>1. /\ stack[g] # <<>> /\ HasLocked(Top(g)) /\ Top(g).i = 1
      /\ Top(g).ws.kind = "lock"
      /\ holder' = [holder EXCEPT ![m] = NIL]
      /\ Return(g, ret[g].n, ret[g].err)
      /\ UNCHANGED <<out, method>>
  BY DEF Release, In, HasLocked, Unlocked
<1>2. /\ m \in Mutexes /\ ret[g].n \in Nat /\ ret[g].err \in SUBSET Files
      /\ HasLocked(stack[g][N]) /\ stack[g][N].ws.name = m
  BY <1>1, TopFrame, BuiltNodes DEF Results
<1> HIDE DEF m
<1>3. /\ StackOK' /\ Len(stack'[g]) = N - 1
      /\ \A k \in 1..(N - 1) : stack'[g][k] = stack[g][k]
      /\ \A h \in Goroutines : h # g => stack'[h] = stack[h]
  BY <1>1, <1>2, PopFrame
<1>4. /\ \A k \in 1..N : k = N \/ k \in 1..(N - 1)
      /\ \A k \in 1..(N - 1) : k \in 1..N /\ k # N
      /\ N \in 1..N /\ g # NIL
  BY NilIsNone
<1>5. MutexOK /\ holder \in [Mutexes -> Goroutines \union {NIL}] /\ LocksOK(g)
  BY DEF MutexOK
<1>6. holder[m] = g
  BY <1>2, <1>4, <1>5 DEF LocksOK
<1>7. ASSUME NEW h \in Goroutines, h # g PROVE LocksOK(h)'
  <2>1. LocksOK(h) /\ stack'[h] = stack[h]
    BY <1>3, <1>5, <1>7 DEF MutexOK
  <2>2. \A x : holder[x] = h => holder'[x] = h
    BY <1>1, <1>2, <1>5, <1>6, <1>7
  <2> QED
    BY <2>1, <2>2 DEF LocksOK, HasLocked
<1>8. LocksOK(g)'
  <2>1. \A k \in 1..(N - 1) : HasLocked(stack[g][k]) =>
          holder[stack[g][k].ws.name] = g /\ stack[g][k].ws.name # m
    BY <1>2, <1>4, <1>5 DEF LocksOK
  <2>2. \A k \in 1..(N - 1) : HasLocked(stack[g][k]) =>
          holder'[stack[g][k].ws.name] = g
    BY <1>1, <1>5, <2>1, NilIsNone
  <2>3. \A j, k \in 1..(N - 1) :
          HasLocked(stack[g][j]) /\ HasLocked(stack[g][k]) /\ j # k
            => stack[g][j].ws.name # stack[g][k].ws.name
    BY <1>4, <1>5 DEF LocksOK
  <2>4. Len(stack'[g]) = N - 1 /\ \A k \in 1..(N - 1) : stack'[g][k] = stack[g][k]
    BY <1>3
  <2>5. \A k \in 1..(N - 1) : HasLocked(stack'[g][k]) =>
          holder'[stack'[g][k].ws.name] = g
    BY <2>2, <2>4
  <2>6. \A j, k \in 1..(N - 1) :
          HasLocked(stack'[g][j]) /\ HasLocked(stack'[g][k]) /\ j # k
            => stack'[g][j].ws.name # stack'[g][k].ws.name
    <3>1. ASSUME NEW j \in 1..(N - 1), NEW k \in 1..(N - 1), j # k,
                 HasLocked(stack'[g][j]), HasLocked(stack'[g][k])
          PROVE  stack'[g][j].ws.name # stack'[g][k].ws.name
      <4>1. stack'[g][j] = stack[g][j] /\ stack'[g][k] = stack[g][k]
        BY <2>4
      <4>2. HasLocked(stack[g][j]) /\ HasLocked(stack[g][k])
        BY <3>1, <4>1
      <4> QED
        BY <2>3, <3>1, <4>1, <4>2
    <3> QED
      BY <3>1
  <2> QED
    BY <2>4, <2>5, <2>6 DEF LocksOK, HasLocked
<1>9. ASSUME NEW x \in Mutexes PROVE Locked(x)'
  <2>1. CASE x = m
    BY <1>1, <1>5, <2>1 DEF Locked
  <2>2. CASE x # m
    <3>1. holder'[x] = holder[x] /\ Locked(x)
      BY <1>1, <1>5, <2>2 DEF MutexOK
    <3>2. CASE holder[x] = g
      <4>1. PICK k \in 1..N : HasLocked(stack[g][k]) /\ stack[g][k].ws.name = x
        BY <1>4, <3>1, <3>2 DEF Locked
      <4>2. k \in 1..Len(stack'[g]) /\ stack'[g][k] = stack[g][k]
        BY <1>2, <1>3, <1>4, <2>2, <4>1
      <4> QED
        BY <3>1, <3>2, <4>1, <4>2 DEF Locked, HasLocked
    <3>3. CASE holder[x] # g
      BY <1>3, <1>5, <3>1, <3>3 DEF Locked, HasLocked
    <3> QED
      BY <3>2, <3>3
  <2> QED
    BY <2>1, <2>2
<1>10. MutexOK'
  <2>1. holder' \in [Mutexes -> Goroutines \union {NIL}]
    BY <1>1, <1>5
  <2> QED
    BY <1>7, <1>8, <1>9, <2>1 DEF MutexOK
<1> QED
  BY <1>3, <1>10

LEMMA MultiNextStack ==
  ASSUME StackInv, NEW g \in Goroutines, MultiNext(g) PROVE StackInv'
<1> USE DEF StackInv
<1> DEFINE t == Collected(g)
<1>1. /\ stack[g] # <<>> /\ Top(g).ws.kind = "multi" /\ ~HasLocked(Top(g))
      /\ IF t.i < Len(t.ws.ws)
           THEN /\ stack' = [stack EXCEPT ![g] =
                      Front(@) \o <<[t EXCEPT !.i = @ + 1], Frame(t.ws.ws[t.i + 1])>>]
                /\ UNCHANGED ret
           ELSE Return(g, t.n, t.err)
      /\ UNCHANGED <<out, method, holder>>
  BY DEF MultiNext, In, HasLocked, CallsNext
<1>2. t \in Frames /\ t.ws = Top(g).ws /\ t.i \in Nat
  <2>1. CASE Top(g).i = 0
    BY <1>1, <2>1, TopFrame DEF Collected
  <2>2. CASE Top(g).i # 0
    <3>1. ret[g].n \in Nat /\ ret[g].err \in SUBSET Files
      BY <1>1, <2>2, TopFrame DEF Results
    <3>2. Counted(Top(g).n, ret[g].n) \in Nat
      BY <1>1, <3>1, TopFrame DEF Counted
    <3> QED
      BY <1>1, <2>2, <3>1, <3>2, TopFrame DEF Collected, Frames
  <2> QED
    BY <1>1, <2>1, <2>2, TopFrame
<1>3. /\ t.ws.kind = "multi" /\ t.ws.ws \in Seq(Built) /\ t.n \in Nat
      /\ t.err \in SUBSET Files
      /\ \A i \in 1..Len(t.ws.ws) : t.ws.ws[i].paths \subseteq t.ws.paths
  BY <1>1, <1>2, TopFrame, BuiltNodes DEF Frames
<1> HIDE DEF t
<1>4. CASE ~(t.i < Len(t.ws.ws))
  BY <1>1, <1>3, <1>4, PopStack
<1>5. CASE t.i < Len(t.ws.ws)
  <2> DEFINE u == [t EXCEPT !.i = @ + 1]
             ws == t.ws.ws[t.i + 1]
  <2>1. /\ stack' = [stack EXCEPT ![g] = Front(@) \o <<u, Frame(ws)>>]
        /\ UNCHANGED <<out, method, ret>>
    BY <1>1, <1>5
  <2>2. t.i + 1 \in 1..Len(t.ws.ws)
    BY <1>2, <1>3, <1>5
  <2>3. /\ ws \in Built /\ ws.paths \subseteq t.ws.paths
    BY <1>3, <2>2
  <2>4. /\ u \in Frames /\ u.ws = t.ws /\ u.i = t.i + 1
    BY <1>2 DEF Frames
  <2> HIDE DEF u, ws
  <2>5. /\ u.ws = Top(g).ws /\ u.i > 0 /\ u.ws.kind \notin LeafKinds
        /\ u.ws.kind = "lock" => u.i = 1
        /\ ~HasLocked(u) /\ u.ws.kind # "lock"
    BY <1>2, <1>3, <2>4 DEF LeafKinds, HasLocked
  <2>6. \A p \in ws.paths : \E q \in u.ws.paths :
          q.file = p.file /\ q.locks \subseteq p.locks \union Adds(u)
    BY <2>3, <2>4
  <2> PICK N \in Nat \ {0} : N = Len(stack[g])
    BY <1>1, TopFrame
  <2>7. /\ StackOK' /\ Len(stack'[g]) = N + 1
        /\ \A k \in 1..(N - 1) : stack'[g][k] = stack[g][k]
        /\ stack'[g][N] = u /\ stack'[g][N + 1] = Frame(ws)
        /\ \A h \in Goroutines : h # g => stack'[h] = stack[h]
    <3>1. /\ StackOK' /\ Len(stack'[g]) = Len(stack[g]) + 1
          /\ \A k \in 1..(Len(stack[g]) - 1) : stack'[g][k] = stack[g][k]
          /\ stack'[g][Len(stack[g])] = u
          /\ stack'[g][Len(stack[g]) + 1] = Frame(ws)
          /\ \A h \in Goroutines : h # g => stack'[h] = stack[h]
      BY <1>1, <2>1, <2>3, <2>4, <2>5, <2>6, PushFrame, ZenonT(40)
    <3> QED
      BY <3>1
  <2>8. /\ ~HasLocked(stack[g][N]) /\ ~HasLocked(Frame(ws))
        /\ \A k \in 1..(N + 1) : k = N + 1 \/ k = N \/ k \in 1..(N - 1)
        /\ \A k \in 1..N : k = N \/ k \in 1..(N - 1)
        /\ \A k \in 1..(N - 1) : k \in 1..N /\ k \in 1..(N + 1)
    BY <1>1, TopFrame DEF HasLocked, Frame
  <2>9. MutexOK'
    <3>1. \A k \in 1..Len(stack'[g]) : HasLocked(stack'[g][k]) =>
            k \in 1..Len(stack[g]) /\ HasLocked(stack[g][k])
      BY <2>5, <2>7, <2>8
    <3>2. \A k \in 1..Len(stack[g]) : HasLocked(stack[g][k]) =>
            /\ k \in 1..Len(stack'[g]) /\ HasLocked(stack'[g][k])
            /\ stack'[g][k].ws = stack[g][k].ws
      BY <2>7, <2>8
    <3> QED
      BY <1>1, <2>7, <3>1, <3>2, MutexKept
  <2> QED
    BY <2>7, <2>9
<1> QED
  BY <1>4, <1>5

-----------------------------------------------------------------------------
(***************************************************************************)
(* The files.                                                              *)
(***************************************************************************)

\* Who is at a leaf behind a mutex on every path has locked that mutex.
LEMMA GuardHeld ==
  ASSUME StackInv, NEW g \in Goroutines, NEW x \in Files, AtLeaf(g, x), NEW m \in Mutexes,
         \A path \in out[g].paths : path.file = x => m \in path.locks
  PROVE  holder[m] = g
<1> USE DEF StackInv
<1>1. /\ stack[g] # <<>> /\ Top(g).ws.kind \in LeafKinds /\ Top(g).ws.name = x
  BY DEF AtLeaf, In
<1> PICK N \in Nat \ {0} : N = Len(stack[g])
  BY <1>1, TopFrame
<1>2. OnPath(g, N) /\ Top(g) = stack[g][N] /\ Top(g).ws \in Built
  BY <1>1, TopFrame DEF FrameOK
<1> DEFINE p == [file |-> x, locks |-> {}]
<1>3. p \in stack[g][N].ws.paths
  BY <1>1, <1>2, BuiltNodes
<1>4. p.file = x /\ p.locks = {}
  OBVIOUS
<1> HIDE DEF p
<1>5. PICK q \in out[g].paths :
        q.file = p.file /\ q.locks \subseteq p.locks \union HeldUnder(g, N)
  BY <1>2, <1>3 DEF OnPath
<1>6. m \in HeldUnder(g, N)
  BY <1>4, <1>5
<1>7. PICK j \in 1..(N - 1) : HasLocked(stack[g][j]) /\ stack[g][j].ws.name = m
  BY <1>6 DEF HeldUnder
<1>8. j \in 1..Len(stack[g])
  OBVIOUS
<1> QED
  BY <1>7, <1>8 DEF MutexOK, LocksOK

\* At most one goroutine at a time is at a leaf that one mutex guards.
LEMMA OneAtALeaf ==
  ASSUME StackInv, NEW g \in Goroutines, NEW h \in Goroutines, NEW x \in Files,
         Guarded(x), AtLeaf(g, x), AtLeaf(h, x)
  PROVE  g = h
<1>1. PICK m \in Mutexes : \A k \in Goroutines : \A path \in out[k].paths :
        path.file = x => m \in path.locks
  BY DEF Guarded
<1>2. holder[m] = g /\ holder[m] = h
  BY <1>1, GuardHeld
<1> QED
  BY <1>2

LEMMA BeforeLast == \A n \in Nat \ {0} : n - 1 # 0 => n - 1 \in 1..(n - 1)
  OBVIOUS

\* What a method returns to is no leaf.
LEMMA NoLeafUnder ==
  ASSUME StackOK, NEW g \in Goroutines, stack[g] # <<>>,
         stack' = [stack EXCEPT ![g] = Front(@)]
  PROVE  ~In(g, LeafKinds)'
<1> PICK N \in Nat \ {0} : N = Len(stack[g])
  BY TopFrame
<1>1. /\ Len(stack'[g]) = N - 1 /\ stack'[g] \in Seq(Frames)
      /\ \A k \in 1..(N - 1) : stack'[g][k] = stack[g][k]
  <2>1. stack'[g] = Front(stack[g]) /\ stack[g] \in Seq(Frames)
    BY StackTypes
  <2> QED
    BY <2>1, Popped
<1>2. \A k \in 1..(N - 1) : stack[g][k].ws.kind \notin LeafKinds
  <2>1. ASSUME NEW k \in 1..(N - 1) PROVE stack[g][k].ws.kind \notin LeafKinds
    <3>1. FrameOK(g, k) /\ k # N
      BY DEF StackOK, FramesOK
    <3> QED
      BY <3>1 DEF FrameOK
  <2> QED
    BY <2>1
<1>3. ASSUME stack'[g] # <<>> PROVE Last(stack'[g]).ws.kind \notin LeafKinds
  <2>1. Len(stack'[g]) \in Nat \ {0} /\ Last(stack'[g]) = stack'[g][N - 1]
    BY <1>1, <1>3, StackTop
  <2>2. N - 1 \in 1..(N - 1)
    <3>1. Len(stack'[g]) = N - 1
      BY <1>1
    <3>2. N - 1 # 0
      BY <2>1, <3>1
    <3> QED
      BY <3>2, BeforeLast
  <2> QED
    BY <1>1, <1>2, <2>1, <2>2
<1> QED
  BY <1>1, <1>3 DEF In, Top

\* A file without a mixed line.
Unmixed(s) ==
  \A i \in DOMAIN s :
    s[i].pos = 1 \/ (i > 1 /\ s[i] = [s[i - 1] EXCEPT !.pos = @ + 1])

LEMMA AppendUnmixed ==
  ASSUME NEW s \in Seq(LineByte), Unmixed(s), NEW b \in LineByte,
         b.pos = 1 \/ (s # <<>> /\ b = [Last(s) EXCEPT !.pos = @ + 1])
  PROVE  Unmixed(Append(s, b))
<1> DEFINE r == Append(s, b)
<1>1. /\ r \in Seq(LineByte) /\ Len(r) = Len(s) + 1 /\ r[Len(s) + 1] = b
      /\ \A i \in 1..Len(s) : r[i] = s[i]
  BY AppendProperties
<1>2. Len(s) \in Nat
  OBVIOUS
<1> HIDE DEF r
<1>3. ASSUME NEW i \in 1..Len(s)
      PROVE  r[i].pos = 1 \/ (i > 1 /\ r[i] = [r[i - 1] EXCEPT !.pos = @ + 1])
  <2>1. s[i].pos = 1 \/ (i > 1 /\ s[i] = [s[i - 1] EXCEPT !.pos = @ + 1])
    BY DEF Unmixed
  <2>2. r[i] = s[i] /\ (i > 1 => r[i - 1] = s[i - 1])
    <3>1. i > 1 => i - 1 \in 1..Len(s)
      BY <1>2
    <3> QED
      BY <1>1, <3>1
  <2> QED
    BY <2>1, <2>2
<1>4. \/ r[Len(s) + 1].pos = 1
      \/ /\ Len(s) + 1 > 1
         /\ r[Len(s) + 1] = [r[Len(s) + 1 - 1] EXCEPT !.pos = @ + 1]
  <2>1. CASE b.pos = 1
    BY <1>1, <2>1
  <2>2. CASE s # <<>> /\ b = [Last(s) EXCEPT !.pos = @ + 1]
    <3>1. Len(s) > 0 /\ Last(s) = s[Len(s)]
      BY <2>2, StackTop
    <3>2. r[Len(s)] = s[Len(s)] /\ Len(s) + 1 - 1 = Len(s)
      BY <1>1, <1>2, <3>1
    <3> QED
      BY <1>1, <1>2, <2>2, <3>1, <3>2
  <2> QED
    BY <2>1, <2>2
<1>5. DOMAIN r = 1..(Len(s) + 1)
  BY <1>1
<1>6. Unmixed(r)
  <2>1. \A i \in 1..(Len(s) + 1) : i \in 1..Len(s) \/ i = Len(s) + 1
    BY <1>2
  <2>2. \A i \in 1..(Len(s) + 1) :
          r[i].pos = 1 \/ (i > 1 /\ r[i] = [r[i - 1] EXCEPT !.pos = @ + 1])
    BY <1>3, <1>4, <2>1
  <2> QED
    BY <1>5, <2>2 DEF Unmixed
<1> QED
  BY <1>6 DEF r

LEMMA WholeIsUnmixed == WholeLines <=> \A x \in Files : Guarded(x) => Unmixed(file[x])
  BY DEF WholeLines, Unmixed

\* Steps that write nothing to a file.
LEMMA FilesKept ==
  ASSUME FileOK, WholeLines, UNCHANGED <<file, out>>, NEW g \in Goroutines,
         \A h \in Goroutines : h # g => stack'[h] = stack[h] /\ method'[h] = method[h],
         \A h \in Goroutines : In(h, LeafKinds) /\ method[h] = "write" =>
           mem'[arg'[h]] = mem[arg[h]],
         \/ stack'[g] = stack[g] /\ method'[g] = method[g]
         \/ In(g, LeafKinds)' => Last(stack'[g]).n = 0
  PROVE  FileOK' /\ WholeLines'
<1>1. ASSUME NEW h \in Goroutines, In(h, LeafKinds)', Last(stack'[h]).n # 0
      PROVE  stack'[h] = stack[h] /\ method'[h] = method[h] /\ In(h, LeafKinds)
  BY <1>1 DEF In, Top
<1>2. ASSUME NEW h \in Goroutines, In(h, LeafKinds)'
      PROVE  /\ Last(stack'[h]).n > 0 => method'[h] = "write"
             /\ method'[h] = "write" => Last(stack'[h]).n < LineLen
  <2>1. CASE Last(stack'[h]).n = 0
    BY <2>1 DEF LineLen
  <2>2. CASE Last(stack'[h]).n # 0
    BY <1>1, <1>2, <2>2 DEF FileOK, Top
  <2> QED
    BY <2>1, <2>2
<1>3. ASSUME NEW h \in Goroutines, NEW x \in Files, Guarded(x)', AtLeaf(h, x)',
             Last(stack'[h]).n > 0
      PROVE  file'[x] # <<>> /\ Last(file'[x]) = mem'[arg'[h]][Last(stack'[h]).n]
  <2>1. In(h, LeafKinds)' /\ Last(stack'[h]).n # 0
    BY <1>3 DEF AtLeaf
  <2>2. stack'[h] = stack[h] /\ method'[h] = method[h] /\ In(h, LeafKinds)
    BY <1>1, <2>1
  <2>3. Guarded(x) /\ AtLeaf(h, x) /\ Top(h).n > 0
    BY <1>3, <2>2 DEF Guarded, AtLeaf, In, Top
  <2>4. /\ file[x] # <<>> /\ Last(file[x]) = mem[arg[h]][Top(h).n]
        /\ method[h] = "write"
    BY <2>2, <2>3 DEF FileOK
  <2>5. mem'[arg'[h]] = mem[arg[h]]
    BY <2>2, <2>4
  <2> QED
    BY <2>2, <2>4, <2>5 DEF Top
<1>4. FileOK'
  <2>1. file' \in [Files -> Seq(LineByte)]
    BY DEF FileOK
  <2> QED
    BY <1>2, <1>3, <2>1 DEF FileOK, Top
<1>5. WholeLines'
  BY DEF WholeLines, Guarded
<1> QED
  BY <1>4, <1>5

\* The line that a leaf is given to write.
LEMMA LineWritten ==
  ASSUME PoolInv, NEW g \in Goroutines, stack[g] # <<>>, method[g] = "write"
  PROVE  /\ arg[g] \in Buffers /\ pc[g] = "written"
         /\ \E l \in 1..MaxCalls : mem[arg[g]] = Whole(l)
<1>1. pc[g] = "written"
  BY DEF PoolInv, PoolTypes
<1> QED
  BY <1>1 DEF PoolInv, PoolTypes, BufferContents, Encoded, UsesArg

LEMMA WholeParts ==
  ASSUME NEW l \in 1..MaxCalls
  PROVE  /\ Whole(l)[1] \in LineByte /\ Whole(l)[2] \in LineByte
         /\ Whole(l)[1].pos = 1
         /\ Whole(l)[2] = [Whole(l)[1] EXCEPT !.pos = @ + 1]
         /\ Len(Whole(l)) = 2
<1>1. l \in Nat
  BY OutputAssumption
<1>2. Whole(l)[1] = Byte(l, 1) /\ Whole(l)[2] = Byte(l, 2) /\ Len(Whole(l)) = 2
  BY DEF Whole
<1>3. /\ Byte(l, 1) \in LineByte /\ Byte(l, 2) \in LineByte
      /\ Byte(l, 1).pos = 1 /\ Byte(l, 2) = [Byte(l, 1) EXCEPT !.pos = @ + 1]
  BY <1>1 DEF Byte, LineByte
<1> QED
  BY <1>2, <1>3

LEMMA WriteByteFiles ==
  ASSUME OInv, NEW g \in Goroutines, WriteByte(g) PROVE FileOK' /\ WholeLines'
<1> USE DEF OInv, StackInv
<1> DEFINE x == Top(g).ws.name
           n == Top(g).n + 1
<1>1. /\ In(g, LeafKinds) /\ method[g] = "write" /\ n <= Len(mem[arg[g]])
      /\ file' = [file EXCEPT ![x] = Append(@, mem[arg[g]][n])]
      /\ IF n = Len(mem[arg[g]])
           THEN Return(g, n, {})
           ELSE stack' = [stack EXCEPT ![g] = Append(Front(@), [Top(g) EXCEPT !.n = n])]
      /\ UNCHANGED <<out, mem, method, arg>>
  BY DEF WriteByte, Answer, LeafKinds
<1>2. /\ stack[g] # <<>> /\ Top(g).n \in Nat /\ x \in Files /\ AtLeaf(g, x)
  BY <1>1, LeafIsNoLock, TopFrame, BuiltNodes DEF In, AtLeaf
<1>3. PICK l \in 1..MaxCalls : mem[arg[g]] = Whole(l)
  BY <1>1, <1>2, LineWritten
<1>4. /\ Whole(l)[1] \in LineByte /\ Whole(l)[2] \in LineByte
      /\ Whole(l)[1].pos = 1
      /\ Whole(l)[2] = [Whole(l)[1] EXCEPT !.pos = @ + 1]
      /\ Len(Whole(l)) = 2
  BY WholeParts
<1>5. n \in {1, 2}
  BY <1>1, <1>2, <1>3, <1>4
<1> DEFINE b == Whole(l)[n]
<1>6. /\ b \in LineByte /\ file \in [Files -> Seq(LineByte)]
      /\ file' = [file EXCEPT ![x] = Append(@, b)]
  BY <1>1, <1>3, <1>4, <1>5 DEF FileOK
<1>7. file' \in [Files -> Seq(LineByte)]
  <2>1. Append(file[x], b) \in Seq(LineByte)
    BY <1>2, <1>6, AppendProperties
  <2> QED
    BY <1>6, <2>1
<1>8. \A y \in Files : Guarded(y)' <=> Guarded(y)
  BY <1>1 DEF Guarded
<1>9. ASSUME NEW y \in Files, Guarded(y) PROVE Unmixed(file'[y])
  <2>1. Unmixed(file[y])
    BY <1>9, WholeIsUnmixed
  <2>2. CASE y = x
    <3>1. file'[y] = Append(file[y], b) /\ file[y] \in Seq(LineByte)
      BY <1>2, <1>6, <2>2
    <3>2. b.pos = 1 \/ (file[y] # <<>> /\ b = [Last(file[y]) EXCEPT !.pos = @ + 1])
      <4>1. CASE n = 1
        BY <1>4, <4>1
      <4>2. CASE n = 2
        <5>1. Top(g).n = 1
          BY <1>2, <4>2
        <5>2. file[y] # <<>> /\ Last(file[y]) = mem[arg[g]][1]
          BY <1>2, <1>9, <2>2, <5>1 DEF FileOK
        <5> QED
          BY <1>3, <1>4, <4>2, <5>2
      <4> QED
        BY <1>5, <4>1, <4>2
    <3> QED
      BY <1>6, <2>1, <3>1, <3>2, AppendUnmixed
  <2>3. CASE y # x
    BY <1>6, <2>1, <2>3
  <2> QED
    BY <2>2, <2>3
<1>10. WholeLines'
  BY <1>8, <1>9 DEF WholeLines, Unmixed
<1>11. \A h \in Goroutines : h # g => stack'[h] = stack[h]
  BY <1>1, StackTypes DEF Return
<1>12. \/ ~In(g, LeafKinds)'
       \/ /\ n = 1 /\ stack'[g] # <<>>
          /\ Last(stack'[g]).n = 1 /\ Last(stack'[g]).ws = Top(g).ws
  <2>1. CASE n = Len(mem[arg[g]])
    BY <1>1, <1>2, <2>1, NoLeafUnder DEF Return
  <2>2. CASE n # Len(mem[arg[g]])
    <3>1. n = 1
      BY <1>3, <1>4, <1>5, <2>2
    <3> DEFINE t == [Top(g) EXCEPT !.n = n]
               s == stack[g]
    <3>2. t \in Frames /\ t.n = n /\ t.ws = Top(g).ws
      BY <1>2, TopFrame DEF Frames
    <3>3. s \in Seq(Frames) /\ s # <<>> /\ Len(s) \in Nat \ {0}
      BY <1>2, StackTypes, StackTop
    <3>4. stack'[g] = Append(Front(s), t)
      BY <1>1, <2>2, StackTypes
    <3> HIDE DEF t, s
    <3>5. LET r == Append(Front(s), t) IN
          r \in Seq(Frames) /\ Len(r) = Len(s) /\ r[Len(s)] = t
      BY <3>2, <3>3, Swapped
    <3>6. stack'[g] # <<>> /\ Last(stack'[g]) = t
      <4> DEFINE r == Append(Front(s), t)
      <4>1. r \in Seq(Frames) /\ Len(r) = Len(s) /\ r[Len(s)] = t
        BY <3>5
      <4> HIDE DEF r
      <4>2. r # <<>> /\ Last(r) = t
        BY <3>3, <4>1 DEF Last
      <4> QED
        BY <3>4, <4>2 DEF r
    <3> QED
      BY <3>1, <3>2, <3>6
  <2> QED
    BY <2>1, <2>2
<1>13. ASSUME NEW h \in Goroutines, In(h, LeafKinds)'
       PROVE  /\ Last(stack'[h]).n > 0 => method'[h] = "write"
              /\ method'[h] = "write" => Last(stack'[h]).n < LineLen
  <2>1. CASE h = g
    BY <1>1, <1>12, <1>13, <2>1 DEF LineLen
  <2>2. CASE h # g
    BY <1>1, <1>11, <1>13, <2>2 DEF FileOK, In, Top
  <2> QED
    BY <2>1, <2>2
<1>14. ASSUME NEW h \in Goroutines, NEW y \in Files, Guarded(y), AtLeaf(h, y)',
              Last(stack'[h]).n > 0
       PROVE  file'[y] # <<>> /\ Last(file'[y]) = mem'[arg'[h]][Last(stack'[h]).n]
  <2>1. CASE h = g
    <3>1. n = 1 /\ Last(stack'[g]).n = 1 /\ y = x
      BY <1>12, <1>14, <2>1 DEF AtLeaf, Top
    <3>2. file'[y] = Append(file[y], b) /\ file[y] \in Seq(LineByte)
      BY <1>2, <1>6, <3>1
    <3>3. /\ Append(file[y], b) # <<>>
          /\ Len(Append(file[y], b)) = Len(file[y]) + 1
          /\ Append(file[y], b)[Len(file[y]) + 1] = b
      BY <1>6, <3>2, AppendProperties, SMTT(30)
    <3>4. file'[y] # <<>> /\ Last(file'[y]) = b
      BY <3>2, <3>3 DEF Last
    <3>5. mem'[arg'[g]][1] = b
      BY <1>1, <1>3, <3>1
    <3> QED
      BY <2>1, <3>1, <3>4, <3>5
  <2>2. CASE h # g
    <3>1. stack'[h] = stack[h] /\ AtLeaf(h, y) /\ Top(h).n > 0
      BY <1>11, <1>14, <2>2 DEF AtLeaf, In, Top
    <3>2. y # x
      BY <1>2, <1>14, <2>2, <3>1, OneAtALeaf
    <3>3. file[y] # <<>> /\ Last(file[y]) = mem[arg[h]][Top(h).n]
      BY <1>14, <3>1 DEF FileOK
    <3> QED
      BY <1>1, <1>6, <3>1, <3>2, <3>3 DEF Top
  <2> QED
    BY <2>1, <2>2
<1>15. FileOK'
  BY <1>7, <1>8, <1>13, <1>14 DEF FileOK, Top
<1> QED
  BY <1>10, <1>15

-----------------------------------------------------------------------------
(***************************************************************************)
(* Every step.                                                             *)
(***************************************************************************)

LEMMA OInvInit == Init => OInv
<1> SUFFICES ASSUME Init PROVE OInv
  OBVIOUS
<1> USE DEF Init, InitSinks
<1>1. out \in [Goroutines -> Built]
  BY SinkAssumption
<1>2. PoolInv
  BY NilIsNone, SinkAssumption, OutputAssumption
     DEF PoolInv, PoolTypes, PoolDisjoint, BufferContents, UsesArg, LineLen
<1>3. StackInv
  <2>1. \A g \in Goroutines : Len(stack[g]) = 0
    OBVIOUS
  <2>2. StackOK
    BY <1>1, <2>1 DEF StackOK, FramesOK
  <2>3. MutexOK
    BY <2>1 DEF MutexOK, LocksOK, Locked
  <2> QED
    BY <2>2, <2>3 DEF StackInv
<1>4. FileOK
  BY DEF FileOK, AtLeaf, In
<1>5. WholeLines
  BY DEF WholeLines
<1> QED
  BY <1>2, <1>3, <1>4, <1>5 DEF OInv

\* A goroutine that encodes has no frame, and writes to buffers of its own.
LEMMA EncodingStep ==
  ASSUME OInv, NEW g \in Goroutines, BeginWrite(g) \/ Reflect(g) \/ CopyReflected(g)
  PROVE  OInv'
<1> USE DEF OInv
<1>1. PoolInv'
  BY BeginWritePool, ReflectPool, CopyReflectedPool
<1>2. UNCHANGED <<out, file, holder, stack, method, ret>>
  BY DEF BeginWrite, Reflect, CopyReflected
<1>3. StackInv'
  <2>1. StackOK'
    BY <1>2, FramesKept DEF StackInv, StackOK
  <2>2. MutexOK'
    BY <1>2, MutexKept DEF StackInv
  <2> QED
    BY <2>1, <2>2 DEF StackInv
<1>4. ASSUME NEW h \in Goroutines, In(h, LeafKinds), method[h] = "write"
      PROVE  mem'[arg'[h]] = mem[arg[h]]
  <2>1. pc[h] = "written" /\ arg[h] \in Buffers /\ arg[h] # NIL
    BY <1>4, LineWritten, NilIsNone DEF In
  <2>2. CASE BeginWrite(g)
    <3>1. PICK b \in bufPool \union NewBuffers :
            /\ arg' = [arg EXCEPT ![g] = b]
            /\ \E s : mem' = [mem EXCEPT ![b] = s]
      BY <2>2 DEF BeginWrite
    <3>2. b # arg[h] /\ h # g
      BY <2>1, <2>2, FreshBuffer DEF BeginWrite
    <3> QED
      BY <2>1, <3>1, <3>2 DEF PoolInv, PoolTypes, BufferContents
  <2>3. CASE Reflect(g)
    <3>1. PICK b \in IF reflectBuf[enc[g]] = NIL THEN bufPool \union NewBuffers
                                                 ELSE {reflectBuf[enc[g]]} :
            \E s : mem' = [mem EXCEPT ![b] = s]
      BY <2>3 DEF Reflect
    <3>2. enc[g] \in Encoders
      BY <2>3 DEF Reflect, PoolInv, PoolTypes
    <3>3. b # arg[h]
      BY <2>1, <3>1, <3>2, FreshBuffer DEF PoolInv, PoolDisjoint
    <3> QED
      BY <2>1, <2>3, <3>1, <3>3 DEF Reflect, PoolInv, BufferContents
  <2>4. CASE CopyReflected(g)
    <3>1. h # g /\ \E s : mem' = [mem EXCEPT ![arg[g]] = s]
      BY <2>1, <2>4 DEF CopyReflected
    <3>2. arg[h] # arg[g]
      BY <2>1, <3>1 DEF PoolInv, PoolDisjoint
    <3> QED
      BY <2>1, <2>4, <3>1, <3>2 DEF CopyReflected, PoolInv, BufferContents
  <2> QED
    BY <2>2, <2>3, <2>4
<1>5. FileOK' /\ WholeLines'
  BY <1>2, <1>4, FilesKept
<1> QED
  BY <1>1, <1>3, <1>5

\* A call of Write or Sync begins, or has ended.
LEMMA CallStep ==
  ASSUME OInv, NEW g \in Goroutines,
         EndEncode(g) \/ FreeBuffer(g) \/ Sync(g) \/ EndSync(g)
  PROVE  OInv'
<1> USE DEF OInv, StackInv
<1>1. /\ stack[g] = <<>>
      /\ \/ /\ stack' = [stack EXCEPT ![g] = <<Frame(out[g])>>]
            /\ \E m \in {"write", "sync"} : method' = [method EXCEPT ![g] = m]
         \/ UNCHANGED <<stack, method>>
      /\ ret' = [ret EXCEPT ![g] = NIL]
      /\ UNCHANGED <<out, file, holder, mem>>
      /\ \A h \in Goroutines : h # g => arg'[h] = arg[h]
  <2>1. CASE EndEncode(g)
    BY <2>1 DEF EndEncode, CallOut, PoolInv, PoolTypes
  <2>2. CASE FreeBuffer(g)
    BY <2>2 DEF FreeBuffer, CallOut, PoolInv, PoolTypes
  <2>3. CASE Sync(g)
    BY <2>3 DEF Sync, CallOut, PoolInv, PoolTypes
  <2>4. CASE EndSync(g)
    BY <2>4 DEF EndSync
  <2> QED
    BY <2>1, <2>2, <2>3, <2>4
<1>2. PoolInv'
  <2>1. CASE EndEncode(g) \/ FreeBuffer(g)
    BY <2>1, EndEncodePool, FreeBufferPool
  <2>2. CASE Sync(g)
    <3>1. /\ pc[g] = "idle" /\ pc' = [pc EXCEPT ![g] = "synced"]
          /\ method' = [method EXCEPT ![g] = "sync"]
          /\ \E s : stack' = [stack EXCEPT ![g] = s]
          /\ UNCHANGED <<mem, arg, poolVars, fails, lines>>
          /\ calls < MaxCalls /\ calls' = calls + 1
      BY <2>2 DEF Sync, CallOut
    <3>2. fails' \in 0..MaxFails /\ calls' \in 0..MaxCalls /\ calls <= calls'
      BY <3>1, OutputAssumption DEF PoolInv, PoolTypes
    <3> QED
      BY <3>1, <3>2, CallPool
  <2>3. CASE EndSync(g)
    <3>1. stack' = [stack EXCEPT ![g] = stack[g]]
      BY <2>3, StackTypes DEF EndSync
    <3>2. /\ pc[g] = "synced" /\ pc' = [pc EXCEPT ![g] = "idle"]
          /\ UNCHANGED <<method, mem, arg, poolVars, fails, lines, calls>>
          /\ stack'[g] = <<>>
      BY <1>1, <2>3 DEF EndSync
    <3>3. fails' \in 0..MaxFails /\ calls' \in 0..MaxCalls /\ calls <= calls'
      BY <3>2 DEF PoolInv, PoolTypes
    <3> QED
      BY <3>1, <3>2, <3>3, CallPool
  <2> QED
    BY <2>1, <2>2, <2>3
<1>3. StackInv'
  BY <1>1, FirstStack
<1>4. \A h \in Goroutines : In(h, LeafKinds) => h # g
  BY <1>1 DEF In
<1>5. \A h \in Goroutines : h # g => stack'[h] = stack[h] /\ method'[h] = method[h]
  BY <1>1, StackTypes
<1>6. \/ stack'[g] = stack[g] /\ method'[g] = method[g]
      \/ In(g, LeafKinds)' => Last(stack'[g]).n = 0
  <2>1. ASSUME stack'[g] = <<Frame(out[g])>> PROVE Last(stack'[g]).n = 0
    <3>1. Frame(out[g]).n = 0
      BY DEF Frame
    <3> DEFINE f == Frame(out[g])
    <3> HIDE DEF f
    <3>2. Last(<<f>>) = f
      BY DEF Last
    <3> QED
      BY <2>1, <3>1, <3>2 DEF f
  <2> QED
    BY <1>1, <2>1, StackTypes
<1>7. FileOK' /\ WholeLines'
  BY <1>1, <1>4, <1>5, <1>6, FilesKept
<1> QED
  BY <1>2, <1>3, <1>7

LEMMA WalkOutPool ==
  ASSUME OInv, NEW g \in Goroutines, WalkOut(g) PROVE PoolInv'
<1> USE DEF OInv, StackInv
<1>1. /\ stack[g] # <<>> /\ \E s : stack' = [stack EXCEPT ![g] = s]
      /\ UNCHANGED <<mem, arg, method>>
      /\ fails' = fails \/ (fails < MaxFails /\ fails' = fails + 1)
  BY DEF WalkOut, Walk, WriteByte, SyncFile, LeafFails, SyncNothing, Acquire, Release,
         MultiNext, Answer, Return, In
<1>2. UNCHANGED <<pc, lines, calls, poolVars>>
  BY DEF WalkOut
<1>3. fails' \in 0..MaxFails /\ calls' \in 0..MaxCalls /\ calls <= calls'
  BY <1>1, <1>2, SinkAssumption, OutputAssumption DEF PoolInv, PoolTypes
<1> QED
  BY <1>1, <1>2, <1>3, CallPool

LEMMA WalkOutStep ==
  ASSUME OInv, NEW g \in Goroutines, WalkOut(g) PROVE OInv'
<1> USE DEF OInv, StackInv
<1>1. PoolInv'
  BY WalkOutPool
<1>2. Walk(g)
  BY DEF WalkOut
<1>3. StackInv'
  BY <1>2, WriteByteStack, LeafStack, AcquireStack, ReleaseStack, MultiNextStack DEF Walk
<1>4. CASE WriteByte(g)
  BY <1>1, <1>3, <1>4, WriteByteFiles
<1>5. CASE SyncFile(g) \/ LeafFails(g) \/ SyncNothing(g) \/ Acquire(g) \/ Release(g)
             \/ MultiNext(g)
  <2>1. /\ UNCHANGED <<file, out, mem, arg, method>>
        /\ stack[g] # <<>> /\ \E s : stack' = [stack EXCEPT ![g] = s]
    BY <1>5 DEF SyncFile, LeafFails, SyncNothing, Acquire, Release, MultiNext, Answer,
                Return, In
  <2>2. \A h \in Goroutines : h # g => stack'[h] = stack[h]
    BY <2>1, StackTypes
  <2>3. In(g, LeafKinds)' => Last(stack'[g]).n = 0
    <3>1. \/ stack' = [stack EXCEPT ![g] = Front(@)]
          \/ \E t, ws : stack' = [stack EXCEPT ![g] = Front(@) \o <<t, Frame(ws)>>]
      BY <1>5 DEF SyncFile, LeafFails, SyncNothing, Acquire, Release, MultiNext,
                  Answer, Return
    <3>2. CASE stack' = [stack EXCEPT ![g] = Front(@)]
      BY <2>1, <3>2, NoLeafUnder
    <3>3. ASSUME NEW t, NEW ws,
                 stack' = [stack EXCEPT ![g] = Front(@) \o <<t, Frame(ws)>>]
          PROVE  Last(stack'[g]).n = 0
      <4> DEFINE f == Frame(ws)
      <4>1. f.n = 0
        BY DEF Frame
      <4>2. stack'[g] = Front(stack[g]) \o <<t, f>>
        BY <3>3, StackTypes
      <4> HIDE DEF f
      <4>3. Last(Front(stack[g]) \o <<t, f>>) = f
        BY <2>1, StackTypes, PushedTop
      <4> QED
        BY <4>1, <4>2, <4>3
    <3> QED
      BY <3>1, <3>2, <3>3
  <2>4. FileOK' /\ WholeLines'
    BY <2>1, <2>2, <2>3, FilesKept
  <2> QED
    BY <1>1, <1>3, <2>4
<1> QED
  BY <1>2, <1>4, <1>5 DEF Walk

-----------------------------------------------------------------------------
(***************************************************************************)
(* The theorems.                                                           *)
(***************************************************************************)

\* The invariant holds of every behaviour of the output.
THEOREM OutputInductive == Spec => []OInv
<1>1. ASSUME OInv, [Next]_vars PROVE OInv'
  <2>1. CASE UNCHANGED vars
    <3>1. PoolInv'
      BY <1>1, <2>1 DEF vars, sinkVars, poolVars, OInv, PoolInv, PoolTypes, PoolDisjoint,
                        BufferContents, Encoded
    <3>2. StackInv'
      <4>1. UNCHANGED <<out, file, holder, stack, method, ret>>
        BY <2>1 DEF vars, sinkVars
      <4>2. StackOK'
        BY <1>1, <4>1, FramesKept DEF OInv, StackInv, StackOK
      <4>3. MutexOK'
        BY <1>1, <4>1 DEF OInv, StackInv, MutexOK, LocksOK, Locked, HasLocked
      <4> QED
        BY <4>2, <4>3 DEF StackInv
    <3>3. FileOK' /\ WholeLines'
      BY <1>1, <2>1 DEF vars, sinkVars, OInv, FileOK, WholeLines, Guarded, AtLeaf, In, Top
    <3> QED
      BY <3>1, <3>2, <3>3 DEF OInv
  <2>2. ASSUME NEW g \in Goroutines, BeginWrite(g) \/ Sync(g) \/ Continue(g)
        PROVE  OInv'
    BY <1>1, <2>2, EncodingStep, CallStep, WalkOutStep DEF Continue
  <2> QED
    BY <1>1, <2>1, <2>2 DEF Next
<1> QED
  BY OInvInit, <1>1, PTL DEF Spec

\* Types; and a mutex is never locked by a goroutine that is not inside the
\* locked WriteSyncer (lockedWriteSyncer.Write and Sync).
THEOREM OutputTypeCorrect == Spec => []TypeOK
<1>1. OInv => TypeOK
  <2> SUFFICES ASSUME OInv PROVE TypeOK
    OBVIOUS
  <2> USE DEF OInv, PoolInv, StackInv
  <2>1. lines \in 0..MaxCalls
    BY OutputAssumption DEF PoolTypes
  <2>2. ASSUME NEW m \in Mutexes, holder[m] # NIL
        PROVE  \E i \in DOMAIN stack[holder[m]] :
                 stack[holder[m]][i].ws.name = m /\ stack[holder[m]][i].i = 1
    <3>1. holder[m] \in Goroutines
      BY <2>2 DEF MutexOK
    <3>2. DOMAIN stack[holder[m]] = 1..Len(stack[holder[m]])
      BY <3>1, StackTypes
    <3> QED
      BY <2>2, <3>2 DEF MutexOK, Locked, HasLocked
  <2> QED
    BY <2>1, <2>2 DEF TypeOK, PoolTypes, BufferContents
<1> QED
  BY <1>1, OutputInductive, PTL

\* Nothing from the pools of encoders and buffers ever has two users
\* (putJSONEncoder, buffer.Free, resetReflectBuf).
THEOREM PoolsHaveOneOwner == Spec => []PooledOneOwner
<1>1. OInv => PooledOneOwner
  BY DisjointIsOneOwner DEF OInv
<1> QED
  BY <1>1, OutputInductive, PTL

\* However Locks and multi-writers are put into each other: where one mutex is
\* on every path to a file, lines are never mixed in it.
THEOREM LinesStayWhole == Spec => []WholeLines
<1>1. OInv => WholeLines
  BY DEF OInv
<1> QED
  BY <1>1, OutputInductive, PTL

\* Two goroutines are never in Write or Sync of a leaf that one mutex guards.
NeverTwoAtALeaf ==
  \A x \in Files : Guarded(x) =>
    \A g, h \in Goroutines : AtLeaf(g, x) /\ AtLeaf(h, x) => g = h

\* Lock makes a WriteSyncer safe for concurrent use (write_syncer.go:53).
THEOREM MutualExclusion == Spec => []NeverTwoAtALeaf
<1>1. OInv => NeverTwoAtALeaf
  BY OneAtALeaf DEF OInv, NeverTwoAtALeaf
<1> QED
  BY <1>1, OutputInductive, PTL
-----------------------------------------------------------------------------
(***************************************************************************)
(* The trees of WriteSyncers, and the leaves that a call still has to ask. *)
(***************************************************************************)

\* What the constructors say of leaves and of hollow multi-writers.
LEMMA BuiltParts ==
  ASSUME NEW ws \in Built
  PROVE  /\ ws.leaves \in Seq(Files)
         /\ ws.kind \in LeafKinds => ws.leaves = <<ws.name>> /\ ws.ws = <<>>
         /\ ws.kind \notin LeafKinds =>
              /\ ws.ws \in Seq(Built)
              /\ \A i \in 1..Len(ws.ws) : ws.ws[i].hollow => ws.hollow
         /\ ws.kind = "lock" => Len(ws.ws) = 1 /\ ws.leaves = ws.ws[1].leaves
         /\ ws.kind = "multi" =>
              /\ ws.leaves = FlattenSeq([i \in DOMAIN ws.ws |-> ws.ws[i].leaves])
              /\ Len(ws.ws) = 0 => ws.hollow
<1>1. Made(ws) /\ ws.leaves \in Seq(Files)
  BY SinkAssumption
<1>2. CASE \E x \in Files : ws \in {AddSync(File(x)), AddSync(Writer(x))}
  <2>1. PICK x \in Files : ws \in {AddSync(File(x)), AddSync(Writer(x))}
    BY <1>2
  <2>2. CASE ws = AddSync(File(x))
    BY <1>1, <2>2 DEF AddSync, File, Leaf, LeafKinds
  <2>3. CASE ws = AddSync(Writer(x))
    BY <1>1, <2>3 DEF AddSync, Writer, Leaf, LeafKinds
  <2> QED
    BY <2>1, <2>2, <2>3
<1>3. CASE \E inner \in Built, m \in Mutexes : inner.kind # "lock" /\ ws = Lock(inner, m)
  <2>1. PICK inner \in Built, m \in Mutexes : inner.kind # "lock" /\ ws = Lock(inner, m)
    BY <1>3
  <2>2. /\ ws.kind = "lock" /\ ws.ws = <<inner>> /\ ws.hollow = inner.hollow
        /\ ws.leaves = inner.leaves
    BY <2>1 DEF Lock
  <2>3. <<inner>> \in Seq(Built) /\ Len(<<inner>>) = 1 /\ <<inner>>[1] = inner
    OBVIOUS
  <2>4. \A i \in 1..Len(ws.ws) : ws.ws[i] = inner
    BY <2>2, <2>3
  <2> QED
    BY <1>1, <2>2, <2>3, <2>4 DEF LeafKinds
<1>4. CASE ws.ws \in Seq(Built) /\ Len(ws.ws) # 1 /\ ws = NewMultiWriteSyncer(ws.ws)
  <2> DEFINE parts == ws.ws
  <2>1. /\ ws.kind = "multi"
        /\ ws.hollow = (parts = <<>> \/ \E i \in DOMAIN parts : parts[i].hollow)
        /\ ws.leaves = FlattenSeq([i \in DOMAIN parts |-> parts[i].leaves])
    <3>1. ws = NewMultiWriteSyncer(parts) /\ Len(parts) # 1
      BY <1>4
    <3> HIDE DEF parts
    <3> QED
      BY <3>1 DEF NewMultiWriteSyncer
  <2>2. parts \in Seq(Built) /\ DOMAIN parts = 1..Len(parts) /\ (Len(parts) = 0 => parts = <<>>)
    BY <1>4
  <2> QED
    BY <1>1, <2>1, <2>2 DEF LeafKinds
<1> QED
  BY <1>1, <1>2, <1>3, <1>4 DEF Made

\* The function in FlattenSeq: the first i parts, one after the other.
Flatten(parts) ==
  LET flatten[i \in 1..Len(parts)] ==
        IF i = 1 THEN parts[i] ELSE flatten[i - 1] \o parts[i]
  IN  flatten

\* The functions of which the first n numbers say what flatten says.
Flattens(h, parts, n) ==
  \A i \in 1..n : h[i] = IF i = 1 THEN parts[i] ELSE h[i - 1] \o parts[i]

\* By induction: there is such a function for each prefix, ...
LEMMA FlattenExists ==
  ASSUME NEW T, NEW parts \in Seq(Seq(T))
  PROVE  \A n \in 0..Len(parts) :
           \E h \in [1..Len(parts) -> Seq(T)] : Flattens(h, parts, n)
<1> DEFINE N == Len(parts)
           S == {n \in Nat : n <= N =>
                  \E h \in [1..N -> Seq(T)] : Flattens(h, parts, n)}
<1>1. 0 \in S
  <2>1. [i \in 1..N |-> <<>>] \in [1..N -> Seq(T)]
    OBVIOUS
  <2>2. \A h : Flattens(h, parts, 0)
    BY DEF Flattens
  <2> QED
    BY <2>1, <2>2
<1>2. ASSUME NEW n \in Nat, n \in S PROVE n + 1 \in S
  <2> SUFFICES ASSUME n + 1 <= N
               PROVE  \E h \in [1..N -> Seq(T)] : Flattens(h, parts, n + 1)
    OBVIOUS
  <2>1. PICK h \in [1..N -> Seq(T)] : Flattens(h, parts, n)
    BY <1>2
  <2> DEFINE v == IF n = 0 THEN parts[1] ELSE h[n] \o parts[n + 1]
             k == [h EXCEPT ![n + 1] = v]
  <2>2. v \in Seq(T)
    <3>1. CASE n = 0
      BY <3>1
    <3>2. CASE n # 0
      <4>1. h[n] \in Seq(T) /\ parts[n + 1] \in Seq(T)
        <5>1. n \in 1..N /\ n + 1 \in 1..N
          BY <3>2
        <5> QED
          BY <5>1, ElementOfSeq
      <4>2. h[n] \o parts[n + 1] \in Seq(T)
        BY <4>1, ConcatProperties
      <4> QED
        BY <3>2, <4>2
    <3> QED
      BY <3>1, <3>2
  <2> HIDE DEF v
  <2>3. k \in [1..N -> Seq(T)] /\ k[n + 1] = v /\ \A i \in 1..n : k[i] = h[i]
    BY <2>2
  <2>4. \A i \in 1..(n + 1) : k[i] = IF i = 1 THEN parts[i] ELSE k[i - 1] \o parts[i]
    <3>1. CASE n = 0
      BY <2>3, <3>1 DEF v
    <3>2. CASE n # 0
      <4>1. k[n + 1] = k[n] \o parts[n + 1] /\ n + 1 # 1 /\ (n + 1) - 1 = n
        <5>1. n \in 1..n /\ n + 1 # 1 /\ (n + 1) - 1 = n
          BY <3>2
        <5>2. v = h[n] \o parts[n + 1]
          BY <3>2 DEF v
        <5> QED
          BY <2>3, <5>1, <5>2
      <4>2. \A i \in 1..n : k[i] = IF i = 1 THEN parts[i] ELSE k[i - 1] \o parts[i]
        <5>1. \A i \in 1..n : i # 1 => i - 1 \in 1..n
          OBVIOUS
        <5> QED
          BY <2>1, <2>3, <5>1 DEF Flattens
      <4> DEFINE Said(i) == k[i] = IF i = 1 THEN parts[i] ELSE k[i - 1] \o parts[i]
      <4> HIDE DEF k
      <4>3. Said(n + 1)
        <5>1. k[n + 1] = IF n + 1 = 1 THEN parts[n + 1] ELSE k[n] \o parts[n + 1]
          BY <4>1, Zenon
        <5> QED
          BY <4>1, <5>1, Zenon
      <4>4. \A i \in 1..(n + 1) : i \in 1..n \/ i = n + 1
        OBVIOUS
      <4>5. \A i \in 1..n : Said(i)
        BY <4>2
      <4> HIDE DEF Said
      <4>6. \A i \in 1..(n + 1) : Said(i)
        BY <4>3, <4>4, <4>5
      <4> QED
        BY <4>6 DEF Said
    <3> QED
      BY <3>1, <3>2
  <2> HIDE DEF k
  <2> QED
    BY <2>3, <2>4 DEF Flattens
<1> HIDE DEF S
<1>3. Nat \subseteq S
  BY <1>1, <1>2, Induction
<1> QED
  BY <1>3 DEF S

\* ... so that the one that the definition chooses is one.
LEMMA FlattenUnfolds ==
  ASSUME NEW T, NEW parts \in Seq(Seq(T))
  PROVE  /\ Flatten(parts) \in [1..Len(parts) -> Seq(T)]
         /\ Flattens(Flatten(parts), parts, Len(parts))
<1> DEFINE N == Len(parts)
           Body(f) == [i \in 1..N |-> IF i = 1 THEN parts[i] ELSE f[i - 1] \o parts[i]]
<1>1. PICK h \in [1..N -> Seq(T)] : Flattens(h, parts, N)
  BY FlattenExists
<1>2. h = Body(h)
  BY <1>1 DEF Flattens
<1> DEFINE f == CHOOSE f : f = Body(f)
<1>3. f = Body(f)
  BY <1>2
<1>4. Flatten(parts) = f
  BY DEF Flatten
<1> HIDE DEF f
<1>5. \A i \in 1..N : f[i] = IF i = 1 THEN parts[i] ELSE f[i - 1] \o parts[i]
  BY <1>3
<1> DEFINE S == {n \in Nat : n \in 1..N => f[n] \in Seq(T)}
<1>6. 0 \in S
  OBVIOUS
<1>7. ASSUME NEW n \in Nat, n \in S PROVE n + 1 \in S
  <2> SUFFICES ASSUME n + 1 \in 1..N PROVE f[n + 1] \in Seq(T)
    OBVIOUS
  <2>1. parts[n + 1] \in Seq(T)
    OBVIOUS
  <2>2. CASE n = 0
    <3>1. f[1] = parts[1]
      BY <1>5, <2>2
    <3> QED
      BY <2>1, <2>2, <3>1
  <2>3. CASE n # 0
    <3>1. n + 1 # 1 /\ (n + 1) - 1 = n /\ n \in 1..N
      BY <2>3
    <3>2. f[n] \in Seq(T)
      BY <1>7, <3>1
    <3>3. f[n + 1] = f[n] \o parts[n + 1]
      <4>2. \A i \in 1..N : i # 1 => f[i] = f[i - 1] \o parts[i]
        BY <1>5
      <4>1. f[n + 1] = f[(n + 1) - 1] \o parts[n + 1]
        BY <4>2, <3>1, Zenon
      <4> QED
        BY <3>1, <4>1, Zenon
    <3> QED
      BY <2>1, <3>2, <3>3, ConcatProperties
  <2> QED
    BY <2>2, <2>3
<1> HIDE DEF S
<1>8. Nat \subseteq S
  BY <1>6, <1>7, Induction
<1>9. \A n \in 1..N : f[n] \in Seq(T)
  BY <1>8 DEF S
<1>10. f \in [1..N -> Seq(T)]
  BY <1>3, <1>9
<1> QED
  BY <1>4, <1>5, <1>10 DEF Flattens

\* What comes after each of the first n parts.
IsSuffixes(u, parts, n, T) ==
  /\ u \in [0..n -> Seq(T)]
  /\ u[n] = <<>>
  /\ \A i \in 1..n : u[i - 1] = parts[i] \o u[i]

\* By induction: a flattened sequence can be taken apart from its beginning.
LEMMA SuffixesExist ==
  ASSUME NEW T, NEW parts \in Seq(Seq(T))
  PROVE  \E u : IsSuffixes(u, parts, Len(parts), T) /\ u[0] = FlattenSeq(parts)
<1> DEFINE N == Len(parts)
           F(n) == IF n = 0 THEN <<>> ELSE Flatten(parts)[n]
           S == {n \in Nat : n <= N =>
                  \E u : IsSuffixes(u, parts, n, T) /\ u[0] = F(n)}
<1>1. 0 \in S
  <2> DEFINE u == [i \in 0..0 |-> <<>>]
  <2>1. u \in [0..0 -> Seq(T)] /\ u[0] = <<>>
    OBVIOUS
  <2> HIDE DEF u
  <2>2. IsSuffixes(u, parts, 0, T) /\ u[0] = F(0)
    BY <2>1 DEF IsSuffixes
  <2> QED
    BY <2>2
<1>2. ASSUME NEW n \in Nat, n \in S PROVE n + 1 \in S
  <2> SUFFICES ASSUME n + 1 <= N
               PROVE  \E u : IsSuffixes(u, parts, n + 1, T) /\ u[0] = F(n + 1)
    OBVIOUS
  <2>1. PICK u : IsSuffixes(u, parts, n, T) /\ u[0] = F(n)
    BY <1>2
  <2> DEFINE p == parts[n + 1]
             v == [i \in 0..(n + 1) |-> IF i <= n THEN u[i] \o p ELSE <<>>]
  <2>2. p \in Seq(T)
    <3>1. n + 1 \in 1..N
      OBVIOUS
    <3> QED
      BY <3>1, ElementOfSeq
  <2> HIDE DEF p
  <2>3. /\ u \in [0..n -> Seq(T)] /\ u[n] = <<>>
        /\ \A i \in 1..n : u[i - 1] = parts[i] \o u[i]
    BY <2>1 DEF IsSuffixes
  <2>4. \A i \in 0..n : u[i] \in Seq(T) /\ u[i] \o p \in Seq(T)
    BY <2>2, <2>3, ConcatProperties
  <2>5. /\ v \in [0..(n + 1) -> Seq(T)] /\ v[n + 1] = <<>>
        /\ \A i \in 0..n : v[i] = u[i] \o p
    BY <2>4
  <2> HIDE DEF v
  <2>6. \A i \in 1..n : v[i - 1] = parts[i] \o v[i]
    <3> SUFFICES ASSUME NEW i \in 1..n PROVE v[i - 1] = parts[i] \o v[i]
      OBVIOUS
    <3>1. i - 1 \in 0..n /\ i \in 0..n /\ i \in 1..N
      OBVIOUS
    <3>2. parts[i] \in Seq(T) /\ u[i] \in Seq(T)
      BY <2>4, <3>1, ElementOfSeq
    <3>3. (parts[i] \o u[i]) \o p = parts[i] \o (u[i] \o p)
      <4>1. \A a, b \in Seq(T) : (a \o b) \o p = a \o (b \o p)
        BY <2>2, ConcatAssociative, SMTT(40)
      <4> QED
        BY <3>2, <4>1, Zenon
    <3> QED
      BY <2>3, <2>5, <3>1, <3>3
  <2>7. v[n] = p /\ p \o <<>> = p /\ <<>> \o p = p
    <3>1. p \o <<>> = p /\ <<>> \o p = p
      BY <2>2, ConcatEmptySeq
    <3>2. n \in 0..n
      OBVIOUS
    <3>3. v[n] = <<>> \o p
      BY <2>3, <2>5, <3>2
    <3> QED
      BY <3>1, <3>3
  <2>8. IsSuffixes(v, parts, n + 1, T)
    <3>1. ASSUME NEW i \in 1..(n + 1) PROVE v[i - 1] = parts[i] \o v[i]
      <4>1. CASE i = n + 1
        <5>1. (n + 1) - 1 = n
          OBVIOUS
        <5> QED
          BY <2>5, <2>7, <4>1, <5>1 DEF p
      <4>2. CASE i # n + 1
        <5>1. i \in 1..n
          BY <4>2
        <5> QED
          BY <2>6, <5>1
      <4> QED
        BY <4>1, <4>2
    <3> QED
      BY <2>5, <3>1 DEF IsSuffixes
  <2>9. v[0] = F(n + 1)
    <3>1. v[0] = u[0] \o p
      BY <2>5, SMTT(40)
    <3>2. Flattens(Flatten(parts), parts, N) /\ n + 1 \in 1..N
      BY FlattenUnfolds
    <3>3. CASE n = 0
      <4>1. Flatten(parts)[1] = p
        BY <3>2, <3>3 DEF Flattens, p
      <4>2. u[0] = <<>>
        BY <2>1, <3>3
      <4> QED
        BY <2>7, <3>1, <3>3, <4>1, <4>2
    <3>4. CASE n # 0
      <4>1. n + 1 # 1 /\ (n + 1) - 1 = n /\ n + 1 # 0
        BY <3>4
      <4>2. \A i \in 1..N : i # 1 => Flatten(parts)[i] = Flatten(parts)[i - 1] \o parts[i]
        BY <3>2 DEF Flattens
      <4>3. Flatten(parts)[n + 1] = Flatten(parts)[(n + 1) - 1] \o parts[n + 1]
        BY <3>2, <4>1, <4>2, Zenon
      <4>4. Flatten(parts)[n + 1] = Flatten(parts)[n] \o p
        BY <4>1, <4>3, Zenon DEF p
      <4> QED
        BY <2>1, <3>1, <3>4, <4>1, <4>4
    <3> QED
      BY <3>3, <3>4
  <2> QED
    BY <2>8, <2>9
<1> HIDE DEF S
<1>3. Nat \subseteq S
  BY <1>1, <1>2, Induction
<1>4. F(N) = FlattenSeq(parts)
  <2>1. CASE N = 0
    BY <2>1 DEF FlattenSeq
  <2>2. CASE N # 0
    BY <2>2 DEF FlattenSeq, Flatten
  <2> QED
    BY <2>1, <2>2
<1> QED
  BY <1>3, <1>4 DEF S

\* The leaves that a WriteSyncer of others reaches after the i-th of them.
LeavesFrom(ws) ==
  CHOOSE u : /\ IsSuffixes(u, [i \in 1..Len(ws.ws) |-> ws.ws[i].leaves], Len(ws.ws), Files)
             /\ u[0] = ws.leaves

\* One part after the other, until none is left.
LEMMA LeavesLeft ==
  ASSUME NEW ws \in Built, ws.kind \notin LeafKinds
  PROVE  /\ LeavesFrom(ws) \in [0..Len(ws.ws) -> Seq(Files)]
         /\ LeavesFrom(ws)[0] = ws.leaves /\ LeavesFrom(ws)[Len(ws.ws)] = <<>>
         /\ \A i \in 1..Len(ws.ws) :
              LeavesFrom(ws)[i - 1] = ws.ws[i].leaves \o LeavesFrom(ws)[i]
<1> DEFINE parts == [i \in 1..Len(ws.ws) |-> ws.ws[i].leaves]
           Right(u) == IsSuffixes(u, parts, Len(ws.ws), Files) /\ u[0] = ws.leaves
<1>1. ws.ws \in Seq(Built) /\ Len(ws.ws) \in Nat
  <2>1. ws.ws \in Seq(Built)
    BY BuiltParts, Zenon
  <2> QED
    BY <2>1, LenProperties
<1>2. /\ \A i \in 1..Len(ws.ws) : ws.ws[i].leaves \in Seq(Files)
      /\ ws.leaves \in Seq(Files)
  <2>1. \A i \in 1..Len(ws.ws) : ws.ws[i] \in Built
    BY <1>1, ElementOfSeq, Zenon
  <2>2. \A w \in Built : w.leaves \in Seq(Files)
    BY BuiltParts, Zenon
  <2> QED
    BY <2>1, <2>2, Zenon
<1>3. parts \in Seq(Seq(Files)) /\ Len(parts) = Len(ws.ws)
  BY <1>1, <1>2
<1>4. \E u : Right(u)
  <2>1. CASE ws.kind = "lock"
    <3> DEFINE u == [i \in 0..1 |-> IF i = 0 THEN ws.leaves ELSE <<>>]
    <3>1. Len(ws.ws) = 1 /\ ws.leaves = ws.ws[1].leaves
      BY <2>1, BuiltParts
    <3>2. u \in [0..1 -> Seq(Files)] /\ u[0] = ws.leaves /\ u[1] = <<>>
      BY <1>2
    <3> HIDE DEF u
    <3>3. ws.leaves \o <<>> = ws.leaves
      BY <1>2, ConcatEmptySeq
    <3>4. parts[1] = ws.leaves
      BY <3>1
    <3> HIDE DEF parts
    <3>5. u[1 - 1] = parts[1] \o u[1]
      BY <3>2, <3>3, <3>4
    <3>6. Right(u)
      BY <3>1, <3>2, <3>5 DEF IsSuffixes
    <3> QED
      BY <3>6
  <2>2. CASE ws.kind = "multi"
    <3>1. ws.leaves = FlattenSeq(parts)
      BY <1>1, <2>2, BuiltParts
    <3> HIDE DEF parts
    <3> QED
      BY <1>3, <3>1, SuffixesExist
  <2> QED
    BY <2>1, <2>2, BuiltNodes DEF LeafKinds
<1> HIDE DEF Right
<1>5. Right(CHOOSE u : Right(u))
  BY <1>4
<1>6. Right(LeavesFrom(ws))
  BY <1>5 DEF LeavesFrom, Right
<1>7. \A i \in 1..Len(ws.ws) : parts[i] = ws.ws[i].leaves
  OBVIOUS
<1> HIDE DEF parts
<1> QED
  BY <1>6, <1>7 DEF Right, IsSuffixes

(***************************************************************************)
(* The inductive invariant: the walk through a tree.  These are operators  *)
(* on a stack s of a call of root.Write, the last result r, the leaves a   *)
(* that the call has asked and the leaves f that have failed.              *)
(***************************************************************************)

\* The leaves that a frame has yet to reach, after those its frames above reach.
Rest(t) ==
  IF t.ws.kind \in LeafKinds THEN t.ws.leaves ELSE LeavesFrom(t.ws)[t.i]

\* What has been asked and what the frames have yet to ask are the leaves.
Asks(root, s, a) ==
  \E still \in [0..Len(s) -> Seq(Files)] :
    /\ still[0] = <<>>
    /\ \A k \in 1..Len(s) : still[k] = Rest(s[k]) \o still[k - 1]
    /\ a \o still[Len(s)] = root.leaves

\* The top frame has not yet looked at the last result.
Pending(s) == s = <<>> \/ s[Len(s)].i > 0

\* No error gets lost.
Collects(s, r, f) ==
  /\ f = (UNION {s[k].err : k \in 1..Len(s)}) \union (IF Pending(s) THEN r.err ELSE {})
  /\ \A k \in 1..Len(s) : s[k].ws.kind # "multi" => s[k].err = {}

\* What a Write of all of root returns.
Numbers(root) == IF root.hollow THEN {0, LineLen} ELSE {LineLen}

Counting(root, t) ==
  t.ws.kind = "multi" => IF t.i <= 1 THEN t.n = 0 ELSE t.n \in Numbers(root)

Counts(root, s, r, f) ==
  f = {} => /\ Pending(s) => r.n \in Numbers(root)
            /\ \A k \in 1..Len(s) : Counting(root, s[k])

Within(root, s) ==
  \A k \in 1..Len(s) : s[k].i <= Len(s[k].ws.ws) /\ (s[k].ws.hollow => root.hollow)

Walked(root, s, r, a, f) ==
  Asks(root, s, a) /\ Collects(s, r, f) /\ Counts(root, s, r, f) /\ Within(root, s)

\* Two forms of a fact of the library, of which provers find one or the other.
LEMMA Associative ==
  \A x, y, z \in Seq(Files) : (x \o y) \o z = x \o (y \o z)
  BY ConcatAssociative

LEMMA Regroup ==
  ASSUME NEW x \in Seq(Files), NEW y \in Seq(Files), NEW z \in Seq(Files)
  PROVE  (x \o y) \o z = x \o (y \o z)
  BY ConcatAssociative

\* k - 1 is the one before k.
LEMMA Before ==
  ASSUME NEW N \in Nat \ {0}
  PROVE  /\ \A k \in 1..N : k \in 1..(N - 1) \/ k = N
         /\ \A k \in 1..(N - 1) : k - 1 \in 0..(N - 1) /\ k \in 0..(N - 1) /\ k \in 1..N
         /\ N - 1 \in 0..(N - 1) /\ N \in 1..N /\ N - 1 \in 0..N /\ N \in 0..N
         /\ \A k \in 0..(N - 1) : k \in 0..N
  OBVIOUS

\* A frame returns: its leaves have been asked.
LEMMA AsksPop ==
  ASSUME NEW root, NEW N \in Nat \ {0}, NEW s, NEW s2, Len(s) = N, Len(s2) = N - 1,
         \A k \in 1..(N - 1) : s2[k] = s[k],
         NEW a \in Seq(Files), Asks(root, s, a), Rest(s[N]) \in Seq(Files)
  PROVE  Asks(root, s2, a \o Rest(s[N]))
<1> DEFINE R == Rest(s[N])
<1>1. PICK still \in [0..N -> Seq(Files)] :
        /\ still[0] = <<>>
        /\ \A k \in 1..N : still[k] = Rest(s[k]) \o still[k - 1]
        /\ a \o still[N] = root.leaves
  BY DEF Asks
<1> DEFINE u == [k \in 0..(N - 1) |-> still[k]]
<1>2. /\ u \in [0..(N - 1) -> Seq(Files)] /\ u[0] = <<>> /\ u[N - 1] = still[N - 1]
      /\ \A k \in 0..(N - 1) : u[k] = still[k]
  BY <1>1
<1> HIDE DEF u
<1>3. \A k \in 1..(N - 1) : u[k] = Rest(s2[k]) \o u[k - 1]
  BY <1>1, <1>2, Before
<1> HIDE DEF R
<1>4. (a \o R) \o u[N - 1] = root.leaves
  <2>1. still[N] = R \o u[N - 1]
    BY <1>1, <1>2, Before DEF R
  <2>3. R \in Seq(Files) /\ u[N - 1] \in Seq(Files)
    BY <1>2 DEF R
  <2>4. (a \o R) \o u[N - 1] = a \o (R \o u[N - 1])
    BY <2>3, Associative, ZenonT(40)
  <2> QED
    BY <1>1, <2>1, <2>4
<1> QED
  BY <1>2, <1>3, <1>4 DEF Asks, R

\* A frame calls: the leaves of the called are the first of those it had left.
LEMMA AsksPush ==
  ASSUME NEW root, NEW N \in Nat \ {0}, NEW s, NEW s2, Len(s) = N, Len(s2) = N + 1,
         \A k \in 1..(N - 1) : s2[k] = s[k],
         NEW a \in Seq(Files), Asks(root, s, a),
         Rest(s2[N]) \in Seq(Files), Rest(s2[N + 1]) \in Seq(Files),
         Rest(s[N]) = Rest(s2[N + 1]) \o Rest(s2[N])
  PROVE  Asks(root, s2, a)
<1> DEFINE R == Rest(s2[N])
           L == Rest(s2[N + 1])
<1>0. \A x \in Seq(Files) : (L \o R) \o x = L \o (R \o x)
  BY Regroup
<1>1. PICK still \in [0..N -> Seq(Files)] :
        /\ still[0] = <<>>
        /\ \A k \in 1..N : still[k] = Rest(s[k]) \o still[k - 1]
        /\ a \o still[N] = root.leaves
  BY DEF Asks
<1> DEFINE q == still[N - 1]
<1>2. q \in Seq(Files) /\ R \in Seq(Files) /\ L \in Seq(Files) /\ still[N] \in Seq(Files)
  BY <1>1, Before
<1>3. still[N] = (L \o R) \o q
  BY <1>1, Before
<1> HIDE DEF q, R, L
<1>4. still[N] = L \o (R \o q) /\ R \o q \in Seq(Files)
  <2>1. q \in Seq(Files) /\ R \in Seq(Files) /\ L \in Seq(Files)
    BY <1>2
  <2>2. (L \o R) \o q = L \o (R \o q)
    BY <1>0, <2>1, Zenon
  <2> QED
    BY <1>2, <1>3, <2>2, ConcatProperties
<1> DEFINE u == [k \in 0..(N + 1) |->
                  IF k = N + 1 THEN still[N] ELSE IF k = N THEN R \o q ELSE still[k]]
<1>5. /\ u \in [0..(N + 1) -> Seq(Files)]
      /\ u[N + 1] = still[N] /\ u[N] = R \o q
      /\ \A k \in 0..(N - 1) : u[k] = still[k]
  <2>1. \A k \in 0..(N + 1) : k = N + 1 \/ k = N \/ (k \in 0..(N - 1) /\ k \in 0..N)
    OBVIOUS
  <2>2. \A k \in 0..N : still[k] \in Seq(Files)
    BY <1>1
  <2>3. \A k \in 0..(N + 1) : u[k] \in Seq(Files)
    BY <1>2, <1>4, <2>1, <2>2
  <2>4. \A k \in 0..(N - 1) : k # N /\ k # N + 1 /\ k \in 0..(N + 1)
    OBVIOUS
  <2>5. N # N + 1 /\ N \in 0..(N + 1) /\ N + 1 \in 0..(N + 1)
    OBVIOUS
  <2> QED
    BY <2>3, <2>4, <2>5
<1>10. u[N - 1] = q /\ u[0] = <<>>
  BY <1>1, <1>5, Before DEF q
<1> HIDE DEF u
<1>6. \A k \in 1..(N - 1) : u[k] = Rest(s2[k]) \o u[k - 1]
  BY <1>1, <1>5, Before
<1>7. u[N] = Rest(s2[N]) \o u[N - 1]
  BY <1>5, <1>10 DEF R
<1>8. u[N + 1] = Rest(s2[N + 1]) \o u[(N + 1) - 1]
  <2>1. (N + 1) - 1 = N
    OBVIOUS
  <2> QED
    BY <1>4, <1>5, <2>1 DEF L
<1>9. \A k \in 1..(N + 1) : u[k] = Rest(s2[k]) \o u[k - 1]
  <2>1. \A k \in 1..(N + 1) : k \in 1..(N - 1) \/ k = N \/ k = N + 1
    OBVIOUS
  <2> QED
    BY <1>6, <1>7, <1>8, <2>1
<1>11. /\ u \in [0..Len(s2) -> Seq(Files)]
       /\ \A k \in 1..Len(s2) : u[k] = Rest(s2[k]) \o u[k - 1]
       /\ a \o u[Len(s2)] = root.leaves
  <2>1. a \o u[N + 1] = root.leaves
    BY <1>1, <1>5
  <2> QED
    BY <1>5, <1>9, <2>1
<1> QED
  BY <1>10, <1>11, Zenon DEF Asks

\* A frame changes that has the same leaves left.
LEMMA AsksSwap ==
  ASSUME NEW root, NEW N \in Nat \ {0}, NEW s, NEW s2, Len(s) = N, Len(s2) = N,
         \A k \in 1..(N - 1) : s2[k] = s[k],
         NEW a, Asks(root, s, a), Rest(s2[N]) = Rest(s[N])
  PROVE  Asks(root, s2, a)
<1>1. \A k \in 1..N : k \in 1..(N - 1) \/ k = N
  OBVIOUS
<1>2. \A k \in 1..N : Rest(s2[k]) = Rest(s[k])
  BY <1>1
<1> QED
  BY <1>2 DEF Asks

\* A frame returns r2, and e is what has failed in it.
LEMMA WalkedPop ==
  ASSUME NEW root, NEW N \in Nat \ {0}, NEW s, NEW s2, Len(s) = N, Len(s2) = N - 1,
         s2 = <<>> <=> N - 1 = 0,
         \A k \in 1..(N - 1) : s2[k] = s[k], N - 1 # 0 => s[N - 1].i > 0,
         NEW r, NEW r2, NEW a \in Seq(Files), NEW f, NEW e,
         Walked(root, s, r, a, f), Rest(s[N]) \in Seq(Files), s # <<>>,
         r2.err = s[N].err \union (IF Pending(s) THEN r.err ELSE {}) \union e,
         f \union e = {} => r2.n \in Numbers(root)
  PROVE  Walked(root, s2, r2, a \o Rest(s[N]), f \union e)
<1> USE DEF Walked
<1>1. Asks(root, s2, a \o Rest(s[N]))
  BY AsksPop
<1>2. Pending(s2)
  BY Before DEF Pending
<1> DEFINE before == IF Pending(s) THEN r.err ELSE {}
<1>3. Collects(s2, r2, f \union e)
  <2>1. /\ f = (UNION {s[k].err : k \in 1..N}) \union before
        /\ \A k \in 1..N : s[k].ws.kind # "multi" => s[k].err = {}
    BY DEF Collects
  <2> HIDE DEF before
  <2>2. (UNION {s[k].err : k \in 1..N}) = (UNION {s2[k].err : k \in 1..(N - 1)}) \union s[N].err
    BY Before
  <2>3. f \union e = (UNION {s2[k].err : k \in 1..(N - 1)}) \union r2.err
    BY <2>1, <2>2 DEF before
  <2>4. \A k \in 1..(N - 1) : s2[k].ws.kind # "multi" => s2[k].err = {}
    BY <2>1, Before
  <2> QED
    BY <1>2, <2>3, <2>4 DEF Collects
<1>4. Counts(root, s2, r2, f \union e)
  BY Before DEF Counts, Counting
<1>5. Within(root, s2)
  BY Before DEF Within
<1> QED
  BY <1>1, <1>3, <1>4, <1>5

\* A frame looks at the last result, and calls another WriteSyncer.
LEMMA WalkedPush ==
  ASSUME NEW root, NEW N \in Nat \ {0}, NEW s, NEW s2, Len(s) = N, Len(s2) = N + 1,
         \A k \in 1..(N - 1) : s2[k] = s[k], s2 # <<>>,
         NEW r, NEW a \in Seq(Files), NEW f,
         Walked(root, s, r, a, f), s # <<>>, s2[N].ws = s[N].ws,
         Rest(s2[N]) \in Seq(Files), Rest(s2[N + 1]) \in Seq(Files),
         Rest(s[N]) = Rest(s2[N + 1]) \o Rest(s2[N]),
         s2[N].err = s[N].err \union (IF Pending(s) THEN r.err ELSE {}),
         s2[N].ws.kind # "multi" => s2[N].err = {},
         s2[N].i <= Len(s2[N].ws.ws), s2[N + 1].ws.hollow => s2[N].ws.hollow,
         0 <= Len(s2[N + 1].ws.ws),
         f = {} => Counting(root, s2[N]),
         s2[N + 1].i = 0, s2[N + 1].n = 0, s2[N + 1].err = {}
  PROVE  Walked(root, s2, r, a, f)
<1> USE DEF Walked
<1>1. Asks(root, s2, a)
  BY AsksPush
<1>2. ~Pending(s2)
  BY DEF Pending
<1>3. /\ \A k \in 1..(N + 1) : k \in 1..(N - 1) \/ k = N \/ k = N + 1
      /\ \A k \in 1..(N - 1) : k \in 1..N /\ k \in 1..(N + 1)
      /\ \A k \in 1..N : k \in 1..(N - 1) \/ k = N
      /\ N \in 1..(N + 1) /\ N \in 1..N /\ N + 1 \in 1..(N + 1)
  OBVIOUS
<1> DEFINE before == IF Pending(s) THEN r.err ELSE {}
<1>4. Collects(s2, r, f)
  <2>1. /\ f = (UNION {s[k].err : k \in 1..N}) \union before
        /\ \A k \in 1..N : s[k].ws.kind # "multi" => s[k].err = {}
    BY DEF Collects
  <2>2. s2[N].err = s[N].err \union before
    OBVIOUS
  <2> HIDE DEF before
  <2>3. (UNION {s[k].err : k \in 1..N}) = (UNION {s2[k].err : k \in 1..(N - 1)}) \union s[N].err
    BY <1>3
  <2>4. (UNION {s2[k].err : k \in 1..(N + 1)})
          = (UNION {s2[k].err : k \in 1..(N - 1)}) \union s2[N].err
    <3>1. (UNION {s2[k].err : k \in 1..(N + 1)})
            = (UNION {s2[k].err : k \in 1..(N - 1)}) \union s2[N].err \union s2[N + 1].err
      BY <1>3
    <3> QED
      BY <3>1
  <2>5. f = UNION {s2[k].err : k \in 1..(N + 1)}
    BY <2>1, <2>2, <2>3, <2>4
  <2>6. \A k \in 1..(N + 1) : s2[k].ws.kind # "multi" => s2[k].err = {}
    BY <1>3, <2>1, ZenonT(40)
  <2> QED
    BY <1>2, <2>5, <2>6 DEF Collects
<1>5. Counts(root, s2, r, f)
  <2>1. Counting(root, s2[N + 1])
    BY DEF Counting
  <2>2. f = {} => \A k \in 1..(N - 1) : Counting(root, s2[k])
    BY <1>3 DEF Counts
  <2> QED
    BY <1>2, <1>3, <2>1, <2>2 DEF Counts
<1>6. Within(root, s2)
  <2>1. \A k \in 1..N : s[k].i <= Len(s[k].ws.ws) /\ (s[k].ws.hollow => root.hollow)
    BY DEF Within
  <2>2. /\ s2[N].ws.hollow => root.hollow
        /\ s2[N + 1].ws.hollow => root.hollow
        /\ s2[N + 1].i <= Len(s2[N + 1].ws.ws)
    BY <1>3, <2>1
  <2>3. \A k \in 1..(N - 1) : s2[k].i <= Len(s2[k].ws.ws) /\ (s2[k].ws.hollow => root.hollow)
    BY <1>3, <2>1
  <2> QED
    BY <1>3, <2>2, <2>3 DEF Within
<1> QED
  BY <1>1, <1>4, <1>5, <1>6

\* A leaf counts a byte.
LEMMA WalkedSwap ==
  ASSUME NEW root, NEW N \in Nat \ {0}, NEW s, NEW s2, Len(s) = N, Len(s2) = N,
         \A k \in 1..(N - 1) : s2[k] = s[k], s # <<>>, s2 # <<>>,
         NEW r, NEW a, NEW f, Walked(root, s, r, a, f),
         s2[N].ws = s[N].ws, s2[N].i = s[N].i, s2[N].err = s[N].err,
         s[N].ws.kind # "multi"
  PROVE  Walked(root, s2, r, a, f)
<1> USE DEF Walked
<1>1. Asks(root, s2, a)
  BY AsksSwap DEF Rest
<1>2. Pending(s2) <=> Pending(s)
  BY DEF Pending
<1>3. \A k \in 1..N : s2[k].ws = s[k].ws /\ s2[k].i = s[k].i /\ s2[k].err = s[k].err
  BY Before
<1>4. Collects(s2, r, f)
  <2>1. UNION {s2[k].err : k \in 1..N} = UNION {s[k].err : k \in 1..N}
    BY <1>3
  <2> QED
    BY <1>2, <1>3, <2>1 DEF Collects
<1>5. Counts(root, s2, r, f)
  <2>1. \A k \in 1..N : Counting(root, s[k]) => Counting(root, s2[k])
    BY Before DEF Counting
  <2> QED
    BY <1>2, <2>1 DEF Counts
<1>6. Within(root, s2)
  BY <1>3 DEF Within
<1> QED
  BY <1>1, <1>4, <1>5, <1>6

\* A call of Write begins.
LEMMA WalkedFirst ==
  ASSUME NEW root \in Built, NEW r
  PROVE  Walked(root, <<Frame(root)>>, r, <<>>, {})
<1> DEFINE t == Frame(root)
           s == <<t>>
<1>1. t.ws = root /\ t.i = 0 /\ t.n = 0 /\ t.err = {}
  BY DEF Frame
<1> HIDE DEF t
<1>2. Len(s) = 1 /\ s[1] = t /\ s # <<>> /\ \A k \in 1..1 : k = 1
  OBVIOUS
<1> HIDE DEF s
<1>3. root.leaves \in Seq(Files) /\ Len(root.ws) \in Nat
  <2>1. root.ws \in Seq(Built)
    BY BuiltParts, EmptySeq
  <2> QED
    BY <2>1, BuiltParts, LenProperties
<1>4. Rest(t) = root.leaves
  BY <1>1, LeavesLeft DEF Rest
<1>5. Asks(root, s, <<>>)
  <2> DEFINE u == [k \in 0..1 |-> IF k = 0 THEN <<>> ELSE root.leaves]
  <2>1. u \in [0..1 -> Seq(Files)] /\ u[0] = <<>> /\ u[1] = root.leaves
    BY <1>3
  <2> HIDE DEF u
  <2>2. u[1] = Rest(s[1]) \o u[1 - 1]
    <3>1. root.leaves \o <<>> = root.leaves
      BY <1>3, ConcatEmptySeq
    <3> QED
      BY <1>2, <1>4, <2>1, <3>1
  <2>3. <<>> \o u[1] = root.leaves
    BY <1>3, <2>1, ConcatEmptySeq
  <2> QED
    BY <1>2, <2>1, <2>2, <2>3 DEF Asks
<1>6. ~Pending(s)
  BY <1>1, <1>2 DEF Pending
<1>7. Collects(s, r, {})
  <2>1. UNION {s[k].err : k \in 1..1} = {}
    BY <1>1, <1>2
  <2> QED
    BY <1>1, <1>2, <1>6, <2>1 DEF Collects
<1>8. Counts(root, s, r, {})
  BY <1>1, <1>2, <1>6 DEF Counts, Counting
<1>9. Within(root, s)
  BY <1>1, <1>2, <1>3 DEF Within
<1> QED
  BY <1>5, <1>7, <1>8, <1>9 DEF Walked, s, t

(***************************************************************************)
(* The inductive invariant: every goroutine in Write, and its line.        *)
(***************************************************************************)

\* The number of the line that g encodes or writes.
LineOf(g) == mem[arg[g]][1].line

\* Lines are numbered as they come, and none is in a file before it is written.
LinesOK ==
  /\ \A g \in Goroutines : pc[g] \in UsesArg => LineOf(g) \in 1..lines
  /\ \A g, h \in Goroutines : g # h /\ pc[g] \in UsesArg /\ pc[h] \in UsesArg =>
       LineOf(g) # LineOf(h)
  /\ \A x \in Files : \A i \in 1..Len(file[x]) : file[x][i].line <= lines
  /\ \A g \in Goroutines : pc[g] \in {"encode", "reflect"} =>
       \A x \in Files : \A i \in 1..Len(file[x]) : file[x][i].line # LineOf(g)

\* The leaf that g is at has taken this byte.
Taken(g, x, pos) == IF AtLeaf(g, x) /\ Top(g).n >= pos THEN 1 ELSE 0

\* What g has written to a file is what the leaves it has asked have taken.
Written(g) ==
  \A x \in Files, pos \in 1..LineLen :
    Count(file[x], Byte(LineOf(g), pos)) = Count(asked[g], x) + Taken(g, x, pos)

\* The call that g is in: where it has got, and what it has written.
WalkOK(g) ==
  /\ Walked(out[g], stack[g], ret[g], asked[g], failed[g])
  /\ failed[g] = {} => Written(g)

\* The strengthening of WritesEverywhere that every step preserves.
WalkInv ==
  /\ asked \in [Goroutines -> Seq(Files)]
  /\ failed \in [Goroutines -> SUBSET Files]
  /\ LinesOK
  /\ \A g \in Goroutines : pc[g] = "written" => WalkOK(g)

-----------------------------------------------------------------------------

\* A byte more, and a byte that there is none of.
LEMMA CountOfAppend ==
  ASSUME NEW T, NEW s \in Seq(T), NEW b, NEW e
  PROVE  /\ Count(s, e) \in Nat
         /\ Count(Append(s, b), e) = Count(s, e) + (IF b = e THEN 1 ELSE 0)
<1> DEFINE N == Len(s)
           A == {i \in 1..N : s[i] = e}
           r == Append(s, b)
<1>1. N \in Nat /\ DOMAIN s = 1..N
  OBVIOUS
<1>2. /\ DOMAIN r = 1..(N + 1) /\ r[N + 1] = b /\ \A i \in 1..N : r[i] = s[i]
  OBVIOUS
<1>3. IsFiniteSet(A) /\ N + 1 \notin A
  <2>1. IsFiniteSet(1..N)
    BY <1>1, FS_Interval
  <2>2. IsFiniteSet(A)
    BY <2>1, FS_Subset
  <2> QED
    BY <1>1, <2>2
<1>4. Count(s, e) = Cardinality(A) /\ Cardinality(A) \in Nat
  BY <1>1, <1>3, FS_CardinalityType DEF Count
<1> HIDE DEF N, r
<1>5. \A i \in 1..(N + 1) : i \in 1..N \/ i = N + 1
  BY <1>1
<1>6. \A i \in 1..N : i \in 1..(N + 1)
  BY <1>1
<1>7. N + 1 \in 1..(N + 1)
  BY <1>1
<1>8. CASE b = e
  <2>1. {i \in 1..(N + 1) : r[i] = e} = A \union {N + 1}
    BY <1>2, <1>5, <1>6, <1>7, <1>8
  <2>2. Cardinality(A \union {N + 1}) = Cardinality(A) + 1
    BY <1>3, FS_AddElement
  <2>3. Count(r, e) = Count(s, e) + 1
    BY <1>2, <1>4, <2>1, <2>2 DEF Count
  <2> HIDE DEF A
  <2> QED
    BY <1>4, <1>8, <2>3 DEF r
<1>9. CASE b # e
  <2>1. {i \in 1..(N + 1) : r[i] = e} = A
    BY <1>2, <1>5, <1>6, <1>7, <1>9
  <2>2. Count(r, e) = Count(s, e)
    BY <1>2, <1>4, <2>1 DEF Count
  <2> HIDE DEF A
  <2> QED
    BY <1>4, <1>9, <2>2 DEF r
<1> QED
  BY <1>8, <1>9

LEMMA CountOfNone ==
  ASSUME NEW s, NEW e, \A i \in DOMAIN s : s[i] # e
  PROVE  Count(s, e) = 0
<1>1. {i \in DOMAIN s : s[i] = e} = {}
  OBVIOUS
<1> QED
  BY <1>1, FS_EmptySet DEF Count

\* The line of a goroutine is what its buffer holds.
LEMMA LineHeld ==
  ASSUME PoolInv, NEW g \in Goroutines, pc[g] \in UsesArg
  PROVE  /\ LineOf(g) \in 1..MaxCalls
         /\ pc[g] = "encode" => mem[arg[g]] \in {Start(LineOf(g)), Whole(LineOf(g))}
         /\ pc[g] = "reflect" => mem[arg[g]] = Start(LineOf(g))
         /\ pc[g] = "written" => mem[arg[g]] = Whole(LineOf(g))
<1>1. PICK l \in 1..MaxCalls :
        /\ pc[g] = "encode"  => mem[arg[g]] \in {Start(l), Whole(l)}
        /\ pc[g] = "reflect" => mem[arg[g]] = Start(l)
        /\ pc[g] = "written" => mem[arg[g]] = Whole(l)
  BY DEF PoolInv, BufferContents, Encoded
<1>2. Start(l)[1].line = l /\ Whole(l)[1].line = l
  BY DEF Start, Whole, Byte
<1>3. LineOf(g) = l
  BY <1>1, <1>2 DEF LineOf, UsesArg
<1> QED
  BY <1>1, <1>3

\* Steps that begin no line, and write nothing to a file.
LEMMA LinesKept ==
  ASSUME LinesOK, UNCHANGED <<lines, file>>,
         \A h \in Goroutines : pc'[h] \in UsesArg =>
           pc[h] \in UsesArg /\ LineOf(h)' = LineOf(h),
         \A h \in Goroutines : pc'[h] \in {"encode", "reflect"} =>
           pc[h] \in {"encode", "reflect"}
  PROVE  LinesOK'
<1>1. \A h \in Goroutines : pc'[h] \in {"encode", "reflect"} => pc'[h] \in UsesArg
  BY DEF UsesArg
<1> HIDE DEF UsesArg
<1> QED
  BY <1>1, Zenon DEF LinesOK

\* A goroutine that g's step leaves alone.
LEMMA WalkKept ==
  ASSUME NEW h \in Goroutines, WalkOK(h), file' = file, out' = out,
         stack'[h] = stack[h], ret'[h] = ret[h],
         asked'[h] = asked[h], failed'[h] = failed[h], LineOf(h)' = LineOf(h)
  PROVE  WalkOK(h)'
<1>1. Walked(out[h], stack[h], ret[h], asked[h], failed[h])'
  BY DEF WalkOK
<1>2. failed'[h] = {} => Written(h)'
  BY DEF WalkOK, Written, Taken, AtLeaf, In, Top
<1> QED
  BY <1>1, <1>2 DEF WalkOK

\* The line that an encoder begins is a new one.
LEMMA BeginLine ==
  ASSUME OInv, WalkInv, NEW g \in Goroutines, BeginWrite(g)
  PROVE  LinesOK' /\ \A h \in Goroutines : h # g /\ pc[h] \in UsesArg => LineOf(h)' = LineOf(h)
<1> USE DEF OInv, PoolInv, WalkInv
<1>1. PICK b \in bufPool \union NewBuffers, n \in 1..LineLen :
        /\ arg' = [arg EXCEPT ![g] = b]
        /\ mem' = [mem EXCEPT ![b] = [pos \in 1..n |-> Byte(lines', pos)]]
  BY DEF BeginWrite
<1>2. /\ pc[g] = "idle" /\ pc' = [pc EXCEPT ![g] = "encode"]
      /\ lines' = lines + 1 /\ UNCHANGED file /\ lines \in Nat
  BY DEF BeginWrite, PoolTypes
<1>3. b \in Buffers /\ \A h \in Goroutines : arg[h] # b
  BY FreshBuffer
<1>4. LineOf(g)' = lines + 1
  <2> DEFINE new == [pos \in 1..n |-> Byte(lines', pos)]
  <2>1. 1 \in 1..n
    BY DEF LineLen
  <2>2. new[1].line = lines'
    BY <2>1 DEF Byte
  <2>3. mem' = [mem EXCEPT ![b] = new]
    BY <1>1
  <2> HIDE DEF new
  <2>4. arg'[g] = b /\ mem'[b] = new
    BY <1>1, <1>3, <2>3 DEF PoolTypes, BufferContents
  <2> QED
    BY <1>2, <2>2, <2>4 DEF LineOf
<1>5. ASSUME NEW h \in Goroutines, h # g
      PROVE  pc'[h] = pc[h] /\ (pc[h] \in UsesArg => LineOf(h)' = LineOf(h))
  <2>1. pc'[h] = pc[h] /\ arg'[h] = arg[h]
    BY <1>1, <1>2, <1>5 DEF PoolTypes
  <2>2. ASSUME pc[h] \in UsesArg PROVE LineOf(h)' = LineOf(h)
    <3>1. arg[h] \in Buffers /\ arg[h] # b
      BY <1>3, <2>2 DEF PoolTypes
    <3> QED
      BY <1>1, <2>1, <3>1 DEF LineOf, BufferContents
  <2> QED
    BY <2>1, <2>2
<1>6. pc'[g] = "encode"
  BY <1>2 DEF PoolTypes
<1>7. LinesOK
  OBVIOUS
<1>8. \A x \in Files : \A i \in 1..Len(file[x]) : file[x][i].line \in Nat
  <2>1. \A x \in Files : \A i \in 1..Len(file[x]) : file[x][i] \in LineByte
    BY ElementOfSeq DEF FileOK
  <2> QED
    BY <2>1 DEF LineByte
<1>9. LinesOK'
  <2>1. \A h \in Goroutines : pc'[h] \in UsesArg => LineOf(h)' \in 1..lines'
    BY <1>2, <1>4, <1>5, <1>7 DEF LinesOK
  <2>2. \A h \in Goroutines : h # g /\ pc'[h] \in UsesArg => LineOf(h)' # LineOf(g)'
    BY <1>2, <1>4, <1>5, <1>7 DEF LinesOK
  <2>3. \A h, k \in Goroutines : h # k /\ pc'[h] \in UsesArg /\ pc'[k] \in UsesArg =>
          LineOf(h)' # LineOf(k)'
    <3>1. \A h, k \in Goroutines : h # k /\ h # g /\ k # g
            /\ pc'[h] \in UsesArg /\ pc'[k] \in UsesArg => LineOf(h)' # LineOf(k)'
      BY <1>5, <1>7, SMTT(30) DEF LinesOK
    <3> QED
      BY <1>6, <2>2, <3>1 DEF UsesArg
  <2>4. \A x \in Files : \A i \in 1..Len(file'[x]) : file'[x][i].line <= lines'
    BY <1>2, <1>7, <1>8 DEF LinesOK
  <2>5. ASSUME NEW h \in Goroutines, pc'[h] \in {"encode", "reflect"}, NEW x \in Files,
               NEW i \in 1..Len(file'[x])
        PROVE  file'[x][i].line # LineOf(h)'
    <3>1. CASE h = g
      BY <1>2, <1>4, <1>7, <1>8, <3>1 DEF LinesOK
    <3>2. CASE h # g
      BY <1>2, <1>5, <1>7, <2>5, <3>2 DEF LinesOK, UsesArg
    <3> QED
      BY <3>1, <3>2
  <2> QED
    BY <2>1, <2>3, <2>4, <2>5 DEF LinesOK
<1> QED
  BY <1>5, <1>9

\* To encode a field changes no number of a line.
LEMMA SameLine ==
  ASSUME OInv, WalkInv, NEW g \in Goroutines, Reflect(g) \/ CopyReflected(g)
  PROVE  LinesOK' /\ \A h \in Goroutines : pc[h] \in UsesArg => LineOf(h)' = LineOf(h)
<1> USE DEF OInv, PoolInv, WalkInv
<1>1. /\ pc[g] \in UsesArg /\ UNCHANGED <<arg, lines, file>>
      /\ pc[g] \in {"encode", "reflect"}
      /\ \A h \in Goroutines : h # g => pc'[h] = pc[h]
  BY DEF Reflect, CopyReflected, UsesArg, PoolTypes
<1>2. ASSUME NEW h \in Goroutines, pc[h] \in UsesArg PROVE LineOf(h)' = LineOf(h)
  <2>1. arg[h] \in Buffers
    BY <1>2 DEF PoolTypes
  <2>2. CASE Reflect(g)
    <3>1. PICK b \in IF reflectBuf[enc[g]] = NIL THEN bufPool \union NewBuffers
                                                 ELSE {reflectBuf[enc[g]]} :
            \E s : mem' = [mem EXCEPT ![b] = s]
      BY <2>2 DEF Reflect
    <3>2. enc[g] \in Encoders
      BY <2>2 DEF Reflect, PoolTypes
    <3>3. b # arg[h]
      BY <1>2, <2>1, <3>1, <3>2, FreshBuffer DEF PoolTypes, PoolDisjoint
    <3> QED
      BY <1>1, <2>1, <3>1, <3>3 DEF LineOf, BufferContents
  <2>3. CASE CopyReflected(g)
    <3>1. mem' = [mem EXCEPT ![arg[g]] = @ \o mem[reflectBuf[enc[g]]]] /\ pc[g] = "reflect"
      BY <2>3 DEF CopyReflected
    <3>2. CASE h # g
      <4>1. arg[h] # arg[g]
        BY <1>2, <3>2 DEF PoolTypes, PoolDisjoint
      <4> QED
        BY <1>1, <2>1, <3>1, <4>1 DEF LineOf, BufferContents
    <3>3. CASE h = g
      <4>1. PICK l \in 1..MaxCalls :
              mem[arg[g]] = Start(l) /\ mem[reflectBuf[enc[g]]] = Field(l)
        BY <3>1, <3>3, <1>2 DEF BufferContents, Encoded
      <4>2. mem'[arg[g]] = Whole(l)
        BY <2>1, <3>1, <3>3, <4>1, LinesThere DEF BufferContents
      <4>3. Start(l)[1].line = l /\ Whole(l)[1].line = l
        BY DEF Start, Whole, Byte
      <4> QED
        BY <1>1, <3>3, <4>1, <4>2, <4>3 DEF LineOf
    <3> QED
      BY <3>2, <3>3
  <2> QED
    BY <2>2, <2>3
<1>3. LinesOK'
  <2>1. \A h \in Goroutines : pc'[h] \in UsesArg =>
          pc[h] \in UsesArg /\ LineOf(h)' = LineOf(h)
    BY <1>1, <1>2
  <2>2. \A h \in Goroutines : pc'[h] \in {"encode", "reflect"} =>
          pc[h] \in {"encode", "reflect"}
    BY <1>1
  <2> QED
    BY <1>1, <2>1, <2>2, LinesKept
<1> QED
  BY <1>2, <1>3

\* The steps of an encoder change no call of another goroutine.
LEMMA EncodingWalk ==
  ASSUME OInv, WalkInv, NEW g \in Goroutines,
         BeginWrite(g) \/ Reflect(g) \/ CopyReflected(g)
  PROVE  WalkInv'
<1>1. /\ UNCHANGED <<out, file, stack, ret, asked, failed>>
      /\ pc'[g] # "written" /\ \A h \in Goroutines : h # g => pc'[h] = pc[h]
  BY DEF BeginWrite, Reflect, CopyReflected, OInv, PoolInv, PoolTypes
<1>2. LinesOK' /\ \A h \in Goroutines : h # g /\ pc[h] \in UsesArg => LineOf(h)' = LineOf(h)
  BY BeginLine, SameLine
<1>3. ASSUME NEW h \in Goroutines, pc'[h] = "written" PROVE WalkOK(h)'
  <2>1. h # g /\ pc[h] = "written" /\ pc[h] \in UsesArg
    BY <1>1, <1>3 DEF UsesArg
  <2>2. WalkOK(h) /\ LineOf(h)' = LineOf(h)
    BY <1>2, <2>1 DEF WalkInv
  <2> QED
    BY <1>1, <2>2, WalkKept
<1> QED
  BY <1>1, <1>2, <1>3 DEF WalkInv

\* Calls begin with nothing asked, and end.
LEMMA CallWalk ==
  ASSUME OInv, WalkInv, NEW g \in Goroutines,
         EndEncode(g) \/ FreeBuffer(g) \/ Sync(g) \/ EndSync(g)
  PROVE  WalkInv'
<1> USE DEF OInv, PoolInv, StackInv
<1>1. /\ UNCHANGED <<out, file, lines, mem>>
      /\ \A h \in Goroutines : h # g =>
           /\ pc'[h] = pc[h] /\ arg'[h] = arg[h] /\ stack'[h] = stack[h]
           /\ ret'[h] = ret[h] /\ asked'[h] = asked[h] /\ failed'[h] = failed[h]
      /\ asked' = [asked EXCEPT ![g] = <<>>] \/ UNCHANGED asked
      /\ failed' = [failed EXCEPT ![g] = {}] \/ UNCHANGED failed
  BY StackTypes DEF EndEncode, FreeBuffer, Sync, EndSync, CallOut, PoolTypes, WalkInv
<1>2. asked' \in [Goroutines -> Seq(Files)] /\ failed' \in [Goroutines -> SUBSET Files]
  <2>1. asked \in [Goroutines -> Seq(Files)] /\ failed \in [Goroutines -> SUBSET Files]
    BY DEF WalkInv
  <2>2. asked' \in [Goroutines -> Seq(Files)]
    BY <1>1, <2>1, EmptySeq
  <2>3. failed' \in [Goroutines -> SUBSET Files]
    BY <1>1, <2>1
  <2> QED
    BY <2>2, <2>3
<1>3. \A h \in Goroutines : h # g => LineOf(h)' = LineOf(h)
  BY <1>1 DEF LineOf
<1>4. ASSUME NEW h \in Goroutines, h # g, pc'[h] = "written" PROVE WalkOK(h)'
  <2>1. WalkOK(h)
    BY <1>1, <1>4 DEF WalkInv
  <2> QED
    BY <1>1, <1>3, <1>4, <2>1, WalkKept
<1>5. CASE EndEncode(g)
  <2>1. /\ pc[g] = "encode" /\ pc' = [pc EXCEPT ![g] = "written"]
        /\ Len(mem[arg[g]]) = LineLen /\ UNCHANGED arg
        /\ stack' = [stack EXCEPT ![g] = <<Frame(out[g])>>]
        /\ asked' = [asked EXCEPT ![g] = <<>>]
        /\ failed' = [failed EXCEPT ![g] = {}]
    BY <1>5 DEF EndEncode, CallOut
  <2>2. LineOf(g)' = LineOf(g) /\ pc'[g] = "written"
    BY <1>1, <2>1 DEF LineOf, PoolTypes
  <2>3. LinesOK'
    <3>1. \A h \in Goroutines : pc'[h] \in UsesArg =>
            pc[h] \in UsesArg /\ LineOf(h)' = LineOf(h)
      BY <1>1, <1>3, <2>1, <2>2 DEF UsesArg
    <3>2. \A h \in Goroutines : pc'[h] \in {"encode", "reflect"} =>
            pc[h] \in {"encode", "reflect"}
      BY <1>1, <2>1
    <3> QED
      BY <1>1, <3>1, <3>2, LinesKept DEF WalkInv
  <2>4. /\ stack'[g] = <<Frame(out[g])>> /\ asked'[g] = <<>> /\ failed'[g] = {}
        /\ out[g] \in Built /\ out'[g] = out[g]
    BY <1>1, <2>1, StackTypes DEF WalkInv
  <2>5. Walked(out[g], <<Frame(out[g])>>, ret'[g], <<>>, {})
    BY <2>4, WalkedFirst
  <2>6. Written(g)'
    <3>1. ASSUME NEW x \in Files, NEW pos \in 1..LineLen
          PROVE  Count(file'[x], Byte(LineOf(g)', pos))
                   = Count(asked'[g], x) + Taken(g, x, pos)'
      <4>1. Taken(g, x, pos)' = 0
        <5> DEFINE f == Frame(out[g])
        <5>1. f.n = 0
          BY DEF Frame
        <5> HIDE DEF f
        <5>2. Last(<<f>>) = f
          BY DEF Last
        <5>3. Last(stack'[g]).n = 0
          BY <2>4, <5>1, <5>2 DEF f
        <5>4. ~(0 >= pos)
          OBVIOUS
        <5> QED
          BY <5>3, <5>4 DEF Taken, Top
      <4>2. Count(<<>>, x) = 0
        BY CountOfNone
      <4>3. \A i \in 1..Len(file[x]) : file[x][i] # Byte(LineOf(g), pos)
        BY <2>1 DEF WalkInv, LinesOK, Byte
      <4>4. DOMAIN file[x] = 1..Len(file[x])
        BY DEF FileOK
      <4>5. Count(file[x], Byte(LineOf(g), pos)) = 0
        BY <4>3, <4>4, CountOfNone
      <4> QED
        BY <1>1, <2>2, <2>4, <4>1, <4>2, <4>5
    <3> QED
      BY <3>1 DEF Written
  <2>7. WalkOK(g)'
    BY <2>4, <2>5, <2>6 DEF WalkOK
  <2> QED
    BY <1>2, <1>4, <2>3, <2>7 DEF WalkInv
<1>6. CASE FreeBuffer(g) \/ Sync(g) \/ EndSync(g)
  <2>1. pc'[g] \in {"idle", "synced"}
    BY <1>6 DEF FreeBuffer, Sync, EndSync, PoolTypes
  <2>2. LinesOK'
    <3>1. \A h \in Goroutines : pc'[h] \in UsesArg =>
            pc[h] \in UsesArg /\ LineOf(h)' = LineOf(h)
      BY <1>1, <1>3, <2>1 DEF UsesArg
    <3>2. \A h \in Goroutines : pc'[h] \in {"encode", "reflect"} =>
            pc[h] \in {"encode", "reflect"}
      BY <1>1, <2>1
    <3> QED
      BY <1>1, <3>1, <3>2, LinesKept DEF WalkInv
  <2> QED
    BY <1>2, <1>4, <2>1, <2>2 DEF WalkInv
<1> QED
  BY <1>5, <1>6

\* What the step of a frame needs to know of it.
LEMMA TopWalked ==
  ASSUME OInv, WalkInv, NEW g \in Goroutines, pc[g] = "written", stack[g] # <<>>
  PROVE  /\ Walked(out[g], stack[g], ret[g], asked[g], failed[g])
         /\ asked[g] \in Seq(Files) /\ failed[g] \in SUBSET Files
         /\ Len(stack[g]) \in Nat \ {0} /\ Top(g) = stack[g][Len(stack[g])]
         /\ Top(g).ws \in Built /\ Top(g).i <= Len(Top(g).ws.ws)
         /\ Top(g).ws.hollow => out[g].hollow
         /\ Top(g).ws.kind # "multi" => Top(g).err = {}
         /\ Pending(stack[g]) <=> Top(g).i > 0
         /\ Len(stack[g]) - 1 # 0 => stack[g][Len(stack[g]) - 1].i > 0
<1> USE DEF OInv, StackInv
<1> PICK N \in Nat \ {0} : N = Len(stack[g])
  BY TopFrame
<1>1. Top(g) = stack[g][N] /\ Top(g).ws \in Built
  BY TopFrame
<1>2. Walked(out[g], stack[g], ret[g], asked[g], failed[g])
  BY DEF WalkInv, WalkOK
<1>3. /\ stack[g][N].i <= Len(stack[g][N].ws.ws) /\ (stack[g][N].ws.hollow => out[g].hollow)
      /\ stack[g][N].ws.kind # "multi" => stack[g][N].err = {}
  BY <1>2, Before DEF Walked, Within, Collects
<1>4. N - 1 # 0 => stack[g][N - 1].i > 0
  <2>1. ASSUME N - 1 # 0 PROVE stack[g][N - 1].i > 0
    <3>1. N - 1 \in 1..N /\ N - 1 < N
      <4>1. N - 1 \in 1..(N - 1)
        BY <2>1, BeforeLast
      <4>2. \A k \in 1..(N - 1) : k \in 1..N /\ k < N
        OBVIOUS
      <4> QED
        BY <4>1, <4>2, Zenon
    <3>2. FrameOK(g, N - 1)
      BY <3>1 DEF StackOK, FramesOK
    <3> QED
      BY <3>1, <3>2 DEF FrameOK
  <2> QED
    BY <2>1
<1>5. Pending(stack[g]) <=> Top(g).i > 0
  BY <1>1 DEF Pending
<1>6. asked[g] \in Seq(Files) /\ failed[g] \in SUBSET Files
  BY DEF WalkInv
<1> QED
  BY <1>1, <1>2, <1>3, <1>4, <1>5, <1>6

\* What is left are files.
LEMMA RestType ==
  ASSUME NEW t, t.ws \in Built, t.i \in Nat, t.i <= Len(t.ws.ws)
  PROVE  Rest(t) \in Seq(Files)
<1>1. CASE t.ws.kind \in LeafKinds
  BY <1>1, BuiltParts DEF Rest
<1>2. CASE t.ws.kind \notin LeafKinds
  <2>1. t.ws.ws \in Seq(Built)
    BY <1>2, BuiltParts, Zenon
  <2>2. t.i \in 0..Len(t.ws.ws)
    BY <2>1, LenProperties
  <2>3. LeavesFrom(t.ws) \in [0..Len(t.ws.ws) -> Seq(Files)]
    BY <1>2, LeavesLeft
  <2> QED
    BY <1>2, <2>2, <2>3 DEF Rest
<1> QED
  BY <1>1, <1>2

\* A frame returns n and err, and e is what has failed in it.
LEMMA PopWalk ==
  ASSUME OInv, WalkInv, NEW g \in Goroutines, pc[g] = "written", stack[g] # <<>>,
         NEW n \in Nat, NEW err \in SUBSET Files, NEW e \in SUBSET Files, Return(g, n, err),
         UNCHANGED <<out, method>>,
         err = Top(g).err \union (IF Top(g).i > 0 THEN ret[g].err ELSE {}) \union e,
         failed[g] \union e = {} => n \in Numbers(out[g])
  PROVE  /\ Walked(out[g], stack'[g], ret'[g], asked[g] \o Rest(Top(g)), failed[g] \union e)
         /\ Rest(Top(g)) \in Seq(Files)
<1> USE DEF OInv, StackInv
<1> PICK N \in Nat \ {0} : N = Len(stack[g])
  BY TopFrame
<1>1. /\ StackOK' /\ Len(stack'[g]) = N - 1
      /\ \A k \in 1..(N - 1) : stack'[g][k] = stack[g][k]
  BY PopFrame
<1>2. stack'[g] \in Seq(Frames)
  BY <1>1 DEF StackOK
<1>3. stack'[g] = <<>> <=> N - 1 = 0
  BY <1>1, <1>2, EmptySeq
<1>4. /\ Walked(out[g], stack[g], ret[g], asked[g], failed[g])
      /\ Top(g) = stack[g][N] /\ asked[g] \in Seq(Files)
      /\ Pending(stack[g]) <=> Top(g).i > 0
      /\ N - 1 # 0 => stack[g][N - 1].i > 0
  BY TopWalked
<1>5. ret'[g].n = n /\ ret'[g].err = err
  BY StackTypes DEF Return
<1>6. Rest(Top(g)) \in Seq(Files)
  BY TopWalked, TopFrame, RestType
<1>7. \A k \in 1..(N - 1) : k \in Nat
  OBVIOUS
<1> DEFINE s == stack[g]
           s2 == stack'[g]
           r == ret[g]
           r2 == ret'[g]
           a == asked[g]
           f == failed[g]
           root == out[g]
<1>8. /\ Len(s) = N /\ Len(s2) = N - 1 /\ (s2 = <<>> <=> N - 1 = 0) /\ s # <<>>
      /\ \A k \in 1..(N - 1) : s2[k] = s[k]
      /\ N - 1 # 0 => s[N - 1].i > 0
      /\ a \in Seq(Files) /\ Walked(root, s, r, a, f) /\ Rest(s[N]) \in Seq(Files)
      /\ r2.err = s[N].err \union (IF Pending(s) THEN r.err ELSE {}) \union e
      /\ f \union e = {} => r2.n \in Numbers(root)
  BY <1>1, <1>3, <1>4, <1>5, <1>6
<1> HIDE DEF s, s2, r, r2, a, f, root
<1>9. Walked(root, s2, r2, a \o Rest(s[N]), f \union e)
  BY <1>8, WalkedPop
<1> QED
  BY <1>4, <1>6, <1>9 DEF s, s2, r, r2, a, f, root

\* A frame that looks at the last result, and calls ws.
LEMMA PushWalk ==
  ASSUME OInv, WalkInv, NEW g \in Goroutines, pc[g] = "written", stack[g] # <<>>,
         NEW t \in Frames, NEW ws \in Built,
         stack' = [stack EXCEPT ![g] = Front(@) \o <<t, Frame(ws)>>],
         t.ws = Top(g).ws, t.i \in Nat, t.i <= Len(t.ws.ws),
         t.err = Top(g).err \union (IF Top(g).i > 0 THEN ret[g].err ELSE {}),
         t.ws.kind # "multi" => t.err = {}, ws.hollow => t.ws.hollow,
         Rest(Top(g)) = ws.leaves \o Rest(t),
         failed[g] = {} => Counting(out[g], t),
         UNCHANGED <<out, ret, asked, failed>>
  PROVE  Walked(out[g], stack[g], ret[g], asked[g], failed[g])'
<1> USE DEF OInv, StackInv
<1> PICK N \in Nat \ {0} : N = Len(stack[g])
  BY TopFrame
<1> DEFINE s == stack[g]
           s2 == stack'[g]
           f == Frame(ws)
<1>1. /\ Walked(out[g], s, ret[g], asked[g], failed[g])
      /\ Top(g) = s[N] /\ asked[g] \in Seq(Files) /\ Top(g).ws \in Built
      /\ Pending(s) <=> Top(g).i > 0
  BY TopWalked
<1>2. /\ f \in Frames /\ f.ws = ws /\ f.i = 0 /\ f.n = 0 /\ f.err = {}
  BY DEF Frame, Frames
<1>3. s \in Seq(Frames) /\ s # <<>> /\ s2 = Front(s) \o <<t, f>>
  BY StackTypes
<1>4. 0 <= Len(ws.ws)
  <2>1. ws.ws \in Seq(Built)
    <3>1. \A w \in Built : w.kind \in LeafKinds => w.ws = <<>>
      BY BuiltParts, Zenon
    <3>2. \A w \in Built : w.kind \notin LeafKinds => w.ws \in Seq(Built)
      BY BuiltParts, Zenon
    <3>3. <<>> \in Seq(Built)
      OBVIOUS
    <3> QED
      BY <3>1, <3>2, <3>3, Zenon
  <2> QED
    BY <2>1, LenProperties
<1>5. Rest(f) = ws.leaves /\ ws.leaves \in Seq(Files)
  BY <1>2, LeavesLeft, BuiltParts, ZenonT(40) DEF Rest
<1>6. Rest(t) \in Seq(Files)
  BY <1>1, RestType
<1>7. UNCHANGED <<out, ret, asked, failed>>
  OBVIOUS
<1> HIDE DEF f, s, s2
<1>8. /\ s2 \in Seq(Frames) /\ Len(s2) = Len(s) + 1
      /\ \A k \in 1..(Len(s) - 1) : s2[k] = s[k]
      /\ s2[Len(s)] = t /\ s2[Len(s) + 1] = f
  <2>1. /\ Front(s) \o <<t, f>> \in Seq(Frames)
        /\ Len(Front(s) \o <<t, f>>) = Len(s) + 1
        /\ \A k \in 1..(Len(s) - 1) : (Front(s) \o <<t, f>>)[k] = s[k]
        /\ (Front(s) \o <<t, f>>)[Len(s)] = t
        /\ (Front(s) \o <<t, f>>)[Len(s) + 1] = f
    BY <1>2, <1>3, Pushed, SMTT(60)
  <2> QED
    BY <1>3, <2>1, Zenon
<1>9. Len(s) = N
  BY DEF s
<1>10. /\ Len(s2) = N + 1 /\ \A k \in 1..(N - 1) : s2[k] = s[k]
       /\ s2[N] = t /\ s2[N + 1] = f /\ s2 # <<>>
  <2>1. s2 # <<>>
    BY <1>8, <1>9, EmptySeq
  <2> QED
    BY <1>8, <1>9, <2>1
<1> DEFINE root == out[g]
           r == ret[g]
           a == asked[g]
           e == failed[g]
<1>11. /\ s2[N].ws = s[N].ws
       /\ Rest(s2[N]) \in Seq(Files) /\ Rest(s2[N + 1]) \in Seq(Files)
       /\ Rest(s[N]) = Rest(s2[N + 1]) \o Rest(s2[N])
       /\ s2[N].err = s[N].err \union (IF Pending(s) THEN r.err ELSE {})
       /\ s2[N].ws.kind # "multi" => s2[N].err = {}
  BY <1>1, <1>5, <1>6, <1>10
<1>12. /\ s2[N].i <= Len(s2[N].ws.ws) /\ (s2[N + 1].ws.hollow => s2[N].ws.hollow)
       /\ 0 <= Len(s2[N + 1].ws.ws)
       /\ e = {} => Counting(root, s2[N])
       /\ s2[N + 1].i = 0 /\ s2[N + 1].n = 0 /\ s2[N + 1].err = {}
  BY <1>2, <1>4, <1>10
<1> HIDE DEF root, r, a, e
<1>13. a \in Seq(Files) /\ Walked(root, s, r, a, e)
  BY <1>1 DEF root, r, a, e
<1>14. Walked(root, s2, r, a, e)
  <2>1. N \in Nat \ {0} /\ s # <<>> /\ s2 # <<>> /\ Len(s) = N /\ Len(s2) = N + 1
    BY <1>3, <1>9, <1>10
  <2>2. \A k \in 1..(N - 1) : s2[k] = s[k]
    BY <1>10
  <2> QED
    BY <2>1, <2>2, <1>11, <1>12, <1>13, WalkedPush, ZenonT(60)
<1> QED
  BY <1>7, <1>14 DEF root, r, a, e, s2

\* A step of g that writes nothing to a file.
LEMMA QuietWalk ==
  ASSUME OInv, WalkInv, NEW g \in Goroutines,
         UNCHANGED <<out, file, mem, arg, pc, lines>>,
         \A h \in Goroutines : h # g =>
           /\ stack'[h] = stack[h] /\ ret'[h] = ret[h]
           /\ asked'[h] = asked[h] /\ failed'[h] = failed[h],
         asked' \in [Goroutines -> Seq(Files)], failed' \in [Goroutines -> SUBSET Files],
         pc[g] = "written" =>
           /\ Walked(out[g], stack[g], ret[g], asked[g], failed[g])'
           /\ failed'[g] = {} =>
                /\ failed[g] = {} /\ asked'[g] = asked[g] /\ ~In(g, LeafKinds)
                /\ In(g, LeafKinds)' => Last(stack'[g]).n = 0
  PROVE  WalkInv'
<1>1. \A h \in Goroutines : LineOf(h)' = LineOf(h)
  BY DEF LineOf
<1>2. LinesOK'
  BY <1>1, LinesKept DEF WalkInv
<1>3. ASSUME NEW h \in Goroutines, pc'[h] = "written" PROVE WalkOK(h)'
  <2>1. WalkOK(h)
    BY <1>3 DEF WalkInv
  <2>2. CASE h # g
    BY <1>1, <2>1, <2>2, WalkKept
  <2>3. CASE h = g
    <3>1. ASSUME failed'[g] = {}, NEW x \in Files, NEW pos \in 1..LineLen
          PROVE  Count(file'[x], Byte(LineOf(g)', pos))
                   = Count(asked'[g], x) + Taken(g, x, pos)'
      <4>1. Taken(g, x, pos) = 0
        BY <1>3, <2>3, <3>1 DEF Taken, AtLeaf, In
      <4>2. Taken(g, x, pos)' = 0
        BY <1>3, <2>3, <3>1 DEF Taken, AtLeaf, In, Top
      <4>3. Count(file[x], Byte(LineOf(g), pos)) = Count(asked[g], x) + Taken(g, x, pos)
        BY <1>3, <2>1, <2>3, <3>1 DEF WalkOK, Written
      <4>4. file' = file /\ asked'[g] = asked[g] /\ LineOf(g)' = LineOf(g)
        BY <1>1, <1>3, <2>3, <3>1
      <4> QED
        BY <4>1, <4>2, <4>3, <4>4
    <3>2. failed'[g] = {} => Written(g)'
      BY <3>1 DEF Written
    <3> QED
      BY <1>3, <2>3, <3>2 DEF WalkOK
  <2> QED
    BY <2>2, <2>3
<1> QED
  BY <1>2, <1>3 DEF WalkInv

\* The result of a leaf is added to the history.
LEMMA Answered ==
  ASSUME OInv, WalkInv, NEW g \in Goroutines, In(g, LeafKinds),
         NEW n \in Nat, NEW err \in SUBSET Files, Answer(g, n, err)
  PROVE  /\ asked' \in [Goroutines -> Seq(Files)] /\ failed' \in [Goroutines -> SUBSET Files]
         /\ asked'[g] = asked[g] \o <<Top(g).ws.name>> /\ failed'[g] = failed[g] \union err
         /\ asked'[g] = Append(asked[g], Top(g).ws.name)
         /\ Rest(Top(g)) = <<Top(g).ws.name>> /\ Top(g).ws.name \in Files
         /\ \A h \in Goroutines : h # g =>
              /\ stack'[h] = stack[h] /\ ret'[h] = ret[h]
              /\ asked'[h] = asked[h] /\ failed'[h] = failed[h]
<1> DEFINE x == Top(g).ws.name
<1>1. x \in Files /\ Rest(Top(g)) = <<x>> /\ stack[g] # <<>>
  <2>1. Top(g).ws.kind \in LeafKinds /\ Top(g).ws \in Built /\ stack[g] # <<>>
    BY TopFrame DEF In, OInv, StackInv
  <2> QED
    BY <2>1, BuiltNodes, BuiltParts DEF Rest
<1> HIDE DEF x
<1>2. /\ asked \in [Goroutines -> Seq(Files)] /\ failed \in [Goroutines -> SUBSET Files]
  BY DEF WalkInv
<1>3. /\ asked' = [asked EXCEPT ![g] = Append(@, x)]
      /\ failed' = [failed EXCEPT ![g] = @ \union err]
  BY DEF Answer, x
<1>4. Append(asked[g], x) \in Seq(Files) /\ Append(asked[g], x) = asked[g] \o <<x>>
  BY <1>1, <1>2, AppendProperties, AppendIsConcat
<1>5. \A h \in Goroutines : h # g => stack'[h] = stack[h] /\ ret'[h] = ret[h]
  BY StackTypes DEF Answer, Return, OInv, StackInv
<1> QED
  BY <1>1, <1>2, <1>3, <1>4, <1>5 DEF x

\* The end of a call of a leaf, other than by its last byte.
LEMMA LeafReturnsWalk ==
  ASSUME OInv, WalkInv, NEW g \in Goroutines,
         SyncFile(g) \/ SyncNothing(g) \/ LeafFails(g),
         UNCHANGED <<pc, lines>>
  PROVE  WalkInv'
<1> USE DEF OInv, StackInv
<1>1. /\ In(g, LeafKinds) /\ stack[g] # <<>> /\ Top(g).n \in Nat /\ Top(g).ws \in Built
      /\ Top(g).i = 0 /\ Top(g).ws.kind \in LeafKinds /\ Top(g).ws.kind # "multi"
      /\ UNCHANGED <<out, file, mem, arg, method>>
  <2>1. /\ In(g, LeafKinds) /\ UNCHANGED <<out, file, mem, arg, method>>
    BY DEF SyncFile, SyncNothing, LeafFails, In, LeafKinds
  <2>2. stack[g] # <<>> /\ Top(g).ws.kind \in LeafKinds
    BY <2>1 DEF In
  <2>3. Top(g).i = 0
    BY <2>2, TopFrame DEF FrameOK
  <2> QED
    BY <2>1, <2>2, <2>3, TopFrame DEF LeafKinds
<1>2. CASE SyncNothing(g)
  <2>1. pc[g] # "written"
    BY <1>2 DEF SyncNothing, PoolInv, PoolTypes
  <2>2. UNCHANGED <<asked, failed>> /\ \A h \in Goroutines : h # g =>
          stack'[h] = stack[h] /\ ret'[h] = ret[h]
    BY <1>2, StackTypes DEF SyncNothing, Return
  <2>3. asked' \in [Goroutines -> Seq(Files)] /\ failed' \in [Goroutines -> SUBSET Files]
    BY <2>2 DEF WalkInv
  <2> QED
    BY <1>1, <2>1, <2>2, <2>3, QuietWalk
<1>3. CASE SyncFile(g)
  <2>1. pc[g] # "written"
    BY <1>3 DEF SyncFile, PoolInv, PoolTypes
  <2>2. Answer(g, 0, {}) /\ 0 \in Nat /\ {} \in SUBSET Files
    BY <1>3 DEF SyncFile
  <2>3. /\ asked' \in [Goroutines -> Seq(Files)] /\ failed' \in [Goroutines -> SUBSET Files]
        /\ \A h \in Goroutines : h # g =>
             /\ stack'[h] = stack[h] /\ ret'[h] = ret[h]
             /\ asked'[h] = asked[h] /\ failed'[h] = failed[h]
    BY <1>1, <2>2, Answered
  <2> QED
    BY <1>1, <2>1, <2>3, QuietWalk
<1>4. CASE LeafFails(g)
  <2> DEFINE x == Top(g).ws.name
             n == Top(g).n
  <2>1. Answer(g, n, {x}) /\ x \in Files
    BY <1>1, <1>4, BuiltNodes DEF LeafFails
  <2>2. /\ asked' \in [Goroutines -> Seq(Files)] /\ failed' \in [Goroutines -> SUBSET Files]
        /\ asked'[g] = asked[g] \o Rest(Top(g)) /\ failed'[g] = failed[g] \union {x}
        /\ \A h \in Goroutines : h # g =>
             /\ stack'[h] = stack[h] /\ ret'[h] = ret[h]
             /\ asked'[h] = asked[h] /\ failed'[h] = failed[h]
    <3>1. {x} \in SUBSET Files
      BY <2>1
    <3> QED
      BY <1>1, <2>1, <3>1, Answered, ZenonT(40)
  <2>3. ASSUME pc[g] = "written"
        PROVE  Walked(out[g], stack[g], ret[g], asked[g], failed[g])'
    <3>1. Return(g, n, {x}) /\ {x} \in SUBSET Files
      BY <2>1 DEF Answer
    <3>2. {x} = Top(g).err \union (IF Top(g).i > 0 THEN ret[g].err ELSE {}) \union {x}
      BY <1>1, <2>3, TopWalked
    <3>3. ~(failed[g] \union {x} = {})
      OBVIOUS
    <3>4. n \in Nat /\ UNCHANGED <<out, method>> /\ stack[g] # <<>>
      BY <1>1
    <3> HIDE DEF x, n
    <3>5. Walked(out[g], stack'[g], ret'[g], asked[g] \o Rest(Top(g)), failed[g] \union {x})
      BY <2>3, <3>1, <3>2, <3>3, <3>4, PopWalk
    <3> QED
      BY <2>2, <3>4, <3>5
  <2>4. failed'[g] # {}
    BY <2>2
  <2> QED
    BY <1>1, <2>2, <2>3, <2>4, QuietWalk
<1> QED
  BY <1>2, <1>3, <1>4

\* The methods of lockedWriteSyncer ask no leaf themselves.
LEMMA LockWalk ==
  ASSUME OInv, WalkInv, NEW g \in Goroutines, Acquire(g) \/ Release(g),
         UNCHANGED <<pc, lines>>
  PROVE  WalkInv'
<1> USE DEF OInv, StackInv
<1> DEFINE ws == Top(g).ws
<1>1. /\ stack[g] # <<>> /\ ws.kind = "lock" /\ ws \in Built /\ Top(g) \in Frames
      /\ ws.kind \notin LeafKinds /\ ~In(g, LeafKinds)
      /\ UNCHANGED <<out, file, mem, arg, method, asked, failed>>
  BY TopFrame DEF Acquire, Release, In, LeafKinds
<1>2. /\ \A h \in Goroutines : h # g => stack'[h] = stack[h] /\ ret'[h] = ret[h]
      /\ asked' \in [Goroutines -> Seq(Files)] /\ failed' \in [Goroutines -> SUBSET Files]
  BY <1>1, StackTypes DEF Acquire, Release, Return, WalkInv
<1>3. /\ Len(ws.ws) = 1 /\ ws.ws[1] \in Built /\ ws.leaves = ws.ws[1].leaves
      /\ ws.ws[1].hollow => ws.hollow
      /\ LeavesFrom(ws)[1] = <<>> /\ LeavesFrom(ws)[0] = ws.leaves
  <2>1. Len(ws.ws) = 1 /\ ws.ws[1] \in Built /\ ws.leaves = ws.ws[1].leaves
    BY <1>1, BuiltParts, BuiltNodes
  <2>2. \A i \in 1..Len(ws.ws) : ws.ws[i].hollow => ws.hollow
    BY <1>1, BuiltParts, Zenon
  <2>3. LeavesFrom(ws)[Len(ws.ws)] = <<>> /\ LeavesFrom(ws)[0] = ws.leaves
    BY <1>1, LeavesLeft
  <2> QED
    BY <2>1, <2>2, <2>3
<1>4. ws.ws[1].leaves \in Seq(Files)
  BY <1>3, BuiltParts
<1>5. pc[g] = "written" => Top(g).err = {}
  BY <1>1, TopWalked
<1>6. CASE Acquire(g)
  <2> DEFINE t == [Top(g) EXCEPT !.i = 1]
             inner == ws.ws[1]
  <2>1. /\ Top(g).i = 0 /\ UNCHANGED ret
        /\ stack' = [stack EXCEPT ![g] = Front(@) \o <<t, Frame(inner)>>]
    BY <1>6 DEF Acquire
  <2>2. t \in Frames /\ t.ws = ws /\ t.i = 1 /\ t.err = Top(g).err
    BY <1>1 DEF Frames
  <2>3. Rest(Top(g)) = inner.leaves \o Rest(t)
    <3>1. Rest(Top(g)) = inner.leaves /\ Rest(t) = <<>>
      BY <1>1, <1>3, <2>1, <2>2 DEF Rest
    <3> QED
      BY <1>4, <3>1, ConcatEmptySeq
  <2>4. Counting(out[g], t)
    BY <1>1, <2>2 DEF Counting
  <2> HIDE DEF t
  <2>5. ASSUME pc[g] = "written"
        PROVE  Walked(out[g], stack[g], ret[g], asked[g], failed[g])'
    <3>1. /\ t.i \in Nat /\ t.i <= Len(t.ws.ws) /\ t.ws = Top(g).ws
          /\ t.err = Top(g).err \union (IF Top(g).i > 0 THEN ret[g].err ELSE {})
          /\ t.ws.kind # "multi" => t.err = {}
          /\ inner.hollow => t.ws.hollow
          /\ inner \in Built
      BY <1>3, <1>5, <2>1, <2>2, <2>5
    <3>2. UNCHANGED <<out, ret, asked, failed>>
      BY <1>1, <2>1
    <3> HIDE DEF inner
    <3> QED
      BY <1>1, <2>1, <2>2, <2>3, <2>4, <2>5, <3>1, <3>2, PushWalk
  <2>6. Last(stack'[g]).n = 0
    <3> DEFINE f == Frame(inner)
    <3>1. f.n = 0
      BY DEF Frame
    <3>2. stack'[g] = Front(stack[g]) \o <<t, f>>
      BY <2>1, StackTypes
    <3> HIDE DEF f
    <3>3. Last(Front(stack[g]) \o <<t, f>>) = f
      BY <1>1, StackTypes, PushedTop
    <3> QED
      BY <3>1, <3>2, <3>3
  <2> QED
    BY <1>1, <1>2, <2>5, <2>6, QuietWalk
<1>7. CASE Release(g)
  <2>1. Top(g).i = 1 /\ Return(g, ret[g].n, ret[g].err)
    BY <1>7 DEF Release
  <2>2. ret[g].n \in Nat /\ ret[g].err \in SUBSET Files
    BY <1>1, <2>1, TopFrame DEF Results
  <2>3. Rest(Top(g)) = <<>>
    BY <1>1, <1>3, <2>1 DEF Rest
  <2>4. ASSUME pc[g] = "written"
        PROVE  Walked(out[g], stack[g], ret[g], asked[g], failed[g])'
    <3>1. /\ Walked(out[g], stack[g], ret[g], asked[g], failed[g])
          /\ Pending(stack[g]) /\ asked[g] \in Seq(Files)
      BY <1>1, <2>1, <2>4, TopWalked
    <3>2. failed[g] \union {} = {} => ret[g].n \in Numbers(out[g])
      BY <3>1 DEF Walked, Counts
    <3>3. ret[g].err = Top(g).err \union (IF Top(g).i > 0 THEN ret[g].err ELSE {}) \union {}
      BY <1>5, <2>1, <2>4
    <3>4. asked[g] \o <<>> = asked[g] /\ failed[g] \union {} = failed[g]
      BY <3>1, ConcatEmptySeq
    <3>5. {} \in SUBSET Files
      OBVIOUS
    <3>6. Walked(out[g], stack'[g], ret'[g], asked[g] \o Rest(Top(g)), failed[g] \union {})
      BY <1>1, <2>1, <2>2, <2>4, <3>2, <3>3, <3>5, PopWalk
    <3> QED
      BY <1>1, <2>3, <3>4, <3>6
  <2>5. ~In(g, LeafKinds)'
    BY <1>1, <2>1, NoLeafUnder DEF Return
  <2> QED
    BY <1>1, <1>2, <2>4, <2>5, QuietWalk
<1> QED
  BY <1>6, <1>7

\* The loop of multiWriteSyncer.
LEMMA MultiWalk ==
  ASSUME OInv, WalkInv, NEW g \in Goroutines, MultiNext(g), UNCHANGED <<pc, lines>>
  PROVE  WalkInv'
<1> USE DEF OInv, StackInv
<1> DEFINE t == Collected(g)
           ws == Top(g).ws
<1>1. /\ stack[g] # <<>> /\ ws.kind = "multi" /\ ws \in Built /\ Top(g) \in Frames
      /\ ws.kind \notin LeafKinds /\ ~In(g, LeafKinds)
      /\ UNCHANGED <<out, file, mem, arg, method, asked, failed>>
      /\ Top(g).i \in Nat /\ Top(g).n \in Nat /\ Top(g).err \in SUBSET Files
      /\ Top(g).i > 0 => ret[g] \in Results
  BY TopFrame DEF MultiNext, In, LeafKinds
<1>2. /\ t \in Frames /\ t.ws = ws /\ t.i = Top(g).i
      /\ t.err = Top(g).err \union (IF Top(g).i > 0 THEN ret[g].err ELSE {})
      /\ t.n = IF Top(g).i = 0 THEN Top(g).n ELSE Counted(Top(g).n, ret[g].n)
  <2>1. CASE Top(g).i = 0
    BY <1>1, <2>1 DEF Collected
  <2>2. CASE Top(g).i # 0
    <3>1. ret[g].n \in Nat /\ ret[g].err \in SUBSET Files
      BY <1>1, <2>2 DEF Results
    <3>2. Counted(Top(g).n, ret[g].n) \in Nat
      BY <1>1, <3>1 DEF Counted
    <3>3. Top(g).i > 0
      BY <1>1, <2>2
    <3> QED
      BY <1>1, <2>2, <3>1, <3>2, <3>3 DEF Collected, Frames
  <2> QED
    BY <2>1, <2>2
<1>3. /\ ws.ws \in Seq(Built) /\ Len(ws.ws) \in Nat
      /\ \A i \in 1..Len(ws.ws) : ws.ws[i].hollow => ws.hollow
      /\ Len(ws.ws) = 0 => ws.hollow
      /\ LeavesFrom(ws)[Len(ws.ws)] = <<>>
      /\ \A i \in 1..Len(ws.ws) :
           LeavesFrom(ws)[i - 1] = ws.ws[i].leaves \o LeavesFrom(ws)[i]
  <2>1. /\ ws.ws \in Seq(Built)
        /\ \A i \in 1..Len(ws.ws) : ws.ws[i].hollow => ws.hollow
        /\ Len(ws.ws) = 0 => ws.hollow
    BY <1>1, BuiltParts, Zenon
  <2>2. /\ LeavesFrom(ws)[Len(ws.ws)] = <<>>
        /\ \A i \in 1..Len(ws.ws) :
             LeavesFrom(ws)[i - 1] = ws.ws[i].leaves \o LeavesFrom(ws)[i]
    BY <1>1, LeavesLeft
  <2> QED
    BY <2>1, <2>2, LenProperties
<1>4. /\ \A h \in Goroutines : h # g => stack'[h] = stack[h] /\ ret'[h] = ret[h]
      /\ asked' \in [Goroutines -> Seq(Files)] /\ failed' \in [Goroutines -> SUBSET Files]
  BY <1>1, StackTypes DEF MultiNext, Return, WalkInv
<1>5. ASSUME pc[g] = "written"
      PROVE  /\ Walked(out[g], stack[g], ret[g], asked[g], failed[g])
             /\ asked[g] \in Seq(Files) /\ t.i <= Len(ws.ws) /\ (ws.hollow => out[g].hollow)
             /\ failed[g] = {} =>
                  IF t.i = 0 THEN t.n = 0 ELSE t.n \in Numbers(out[g])
  <2>1. /\ Walked(out[g], stack[g], ret[g], asked[g], failed[g])
        /\ asked[g] \in Seq(Files) /\ Top(g).i <= Len(ws.ws) /\ (ws.hollow => out[g].hollow)
        /\ Len(stack[g]) \in Nat \ {0} /\ Top(g) = stack[g][Len(stack[g])]
        /\ Pending(stack[g]) <=> Top(g).i > 0
    BY <1>1, <1>5, TopWalked
  <2>2. ASSUME failed[g] = {}
        PROVE  IF t.i = 0 THEN t.n = 0 ELSE t.n \in Numbers(out[g])
    <3>1. /\ Top(g).i > 0 => ret[g].n \in Numbers(out[g])
          /\ IF Top(g).i <= 1 THEN Top(g).n = 0 ELSE Top(g).n \in Numbers(out[g])
      <4>1. /\ Pending(stack[g]) => ret[g].n \in Numbers(out[g])
            /\ \A k \in 1..Len(stack[g]) : Counting(out[g], stack[g][k])
        BY <2>1, <2>2 DEF Walked, Counts
      <4>2. Counting(out[g], Top(g))
        <5>1. Len(stack[g]) \in 1..Len(stack[g])
          BY <2>1
        <5> QED
          BY <2>1, <4>1, <5>1, Zenon
      <4> QED
        BY <1>1, <2>1, <4>1, <4>2 DEF Counting
    <3>2. CASE Top(g).i = 0
      BY <1>2, <3>1, <3>2
    <3>3. CASE Top(g).i # 0
      <4>1. Top(g).i > 0
        BY <1>1, <3>3
      <4>2. Top(g).n = 0 \/ Top(g).n \in Numbers(out[g])
        BY <3>1
      <4>3. \A m \in Numbers(out[g]) : m \in {0, LineLen}
        BY DEF Numbers
      <4>4. \A m, n \in Numbers(out[g]) : Counted(0, n) = n /\ Counted(m, n) \in {m, n}
        BY <4>3 DEF Counted, LineLen
      <4> QED
        BY <1>2, <3>1, <3>3, <4>1, <4>2, <4>4
    <3> QED
      BY <3>2, <3>3
  <2> QED
    BY <1>2, <2>1, <2>2
<1>6. CASE t.i < Len(ws.ws)
  <2> DEFINE u == [t EXCEPT !.i = @ + 1]
             inner == ws.ws[t.i + 1]
  <2>1. /\ UNCHANGED ret
        /\ stack' = [stack EXCEPT ![g] = Front(@) \o <<u, Frame(inner)>>]
    BY <1>2, <1>6 DEF MultiNext, CallsNext
  <2>2. /\ u \in Frames /\ u.ws = ws /\ u.i = t.i + 1 /\ u.n = t.n /\ u.err = t.err
        /\ t.i \in Nat
    BY <1>1, <1>2 DEF Frames
  <2>3. t.i + 1 \in 1..Len(ws.ws) /\ (t.i + 1) - 1 = t.i
    BY <1>3, <1>6, <2>2
  <2>4. inner \in Built /\ (inner.hollow => ws.hollow)
    BY <1>3, <2>3, ElementOfSeq, Zenon
  <2>5. Rest(Top(g)) = inner.leaves \o Rest(u)
    <3>1. LeavesFrom(ws)[(t.i + 1) - 1] = inner.leaves \o LeavesFrom(ws)[t.i + 1]
      BY <1>3, <2>3, Zenon
    <3>2. Rest(Top(g)) = LeavesFrom(ws)[t.i] /\ Rest(u) = LeavesFrom(ws)[t.i + 1]
      BY <1>1, <1>2, <2>2 DEF Rest
    <3> QED
      BY <2>3, <3>1, <3>2
  <2> HIDE DEF t, u, inner
  <2>6. ASSUME pc[g] = "written"
        PROVE  Walked(out[g], stack[g], ret[g], asked[g], failed[g])'
    <3>1. /\ u.i \in Nat /\ u.i <= Len(u.ws.ws) /\ u.ws = Top(g).ws
          /\ u.err = Top(g).err \union (IF Top(g).i > 0 THEN ret[g].err ELSE {})
          /\ u.ws.kind # "multi" => u.err = {}
          /\ inner.hollow => u.ws.hollow
      BY <1>1, <1>2, <1>3, <1>6, <2>2, <2>4
    <3>2. failed[g] = {} => Counting(out[g], u)
      BY <1>5, <2>2, <2>6 DEF Counting
    <3>3. UNCHANGED <<out, ret, asked, failed>>
      BY <1>1, <2>1
    <3> QED
      BY <1>1, <2>1, <2>2, <2>4, <2>5, <2>6, <3>1, <3>2, <3>3, PushWalk
  <2>7. Last(stack'[g]).n = 0
    <3> DEFINE f == Frame(inner)
    <3>1. f.n = 0
      BY DEF Frame
    <3>2. stack'[g] = Front(stack[g]) \o <<u, f>>
      BY <2>1, StackTypes
    <3> HIDE DEF f
    <3>3. Last(Front(stack[g]) \o <<u, f>>) = f
      BY <1>1, StackTypes, PushedTop
    <3> QED
      BY <3>1, <3>2, <3>3
  <2> QED
    BY <1>1, <1>4, <2>6, <2>7, QuietWalk
<1>7. CASE ~(t.i < Len(ws.ws))
  <2>1. Return(g, t.n, t.err) /\ t.n \in Nat /\ t.err \in SUBSET Files
    BY <1>2, <1>7 DEF MultiNext, CallsNext, Frames
  <2>2. ASSUME pc[g] = "written"
        PROVE  Walked(out[g], stack[g], ret[g], asked[g], failed[g])'
    <3>1. t.i = Len(ws.ws)
      BY <1>1, <1>2, <1>3, <1>5, <1>7, <2>2
    <3>2. Rest(Top(g)) = <<>>
      BY <1>1, <1>2, <1>3, <3>1 DEF Rest
    <3>3. failed[g] \union {} = {} => t.n \in Numbers(out[g])
      BY <1>3, <1>5, <2>2, <3>1 DEF Numbers
    <3>4. t.err = Top(g).err \union (IF Top(g).i > 0 THEN ret[g].err ELSE {}) \union {}
      BY <1>2
    <3>5. asked[g] \o <<>> = asked[g] /\ failed[g] \union {} = failed[g] /\ {} \in SUBSET Files
      BY <1>5, <2>2, ConcatEmptySeq
    <3> HIDE DEF t
    <3>6. Walked(out[g], stack'[g], ret'[g], asked[g] \o Rest(Top(g)), failed[g] \union {})
      BY <1>1, <2>1, <2>2, <3>3, <3>4, <3>5, PopWalk
    <3> QED
      BY <1>1, <3>2, <3>5, <3>6
  <2>3. ~In(g, LeafKinds)'
    BY <1>1, <2>1, NoLeafUnder DEF Return
  <2> QED
    BY <1>1, <1>4, <2>2, <2>3, QuietWalk
<1> QED
  BY <1>6, <1>7

\* What a byte is, and where it goes.
LEMMA ByteWritten ==
  ASSUME OInv, NEW g \in Goroutines, WriteByte(g)
  PROVE  LET x == Top(g).ws.name
             n == Top(g).n + 1
         IN  /\ In(g, LeafKinds) /\ stack[g] # <<>> /\ pc[g] = "written" /\ x \in Files
             /\ Top(g).ws.kind \notin {"lock", "multi"} /\ Top(g).i = 0
             /\ n \in 1..LineLen /\ Top(g).n \in Nat
             /\ file' = [file EXCEPT ![x] = Append(@, Byte(LineOf(g), n))]
             /\ file \in [Files -> Seq(LineByte)]
             /\ n = LineLen => Answer(g, LineLen, {})
             /\ n # LineLen =>
                  /\ stack' = [stack EXCEPT ![g] = Append(Front(@), [Top(g) EXCEPT !.n = n])]
                  /\ UNCHANGED <<ret, asked, failed>>
             /\ UNCHANGED <<out, mem, holder, method, arg, fails>>
<1> USE DEF OInv, StackInv
<1> DEFINE x == Top(g).ws.name
           n == Top(g).n + 1
<1>1. /\ In(g, LeafKinds) /\ method[g] = "write" /\ n <= Len(mem[arg[g]])
      /\ file' = [file EXCEPT ![x] = Append(@, mem[arg[g]][n])]
      /\ IF n = Len(mem[arg[g]])
           THEN Answer(g, n, {})
           ELSE /\ stack' = [stack EXCEPT ![g] = Append(Front(@), [Top(g) EXCEPT !.n = n])]
                /\ UNCHANGED <<ret, asked, failed>>
      /\ UNCHANGED <<out, mem, holder, method, arg, fails>>
  BY DEF WriteByte, LeafKinds
<1>2. /\ stack[g] # <<>> /\ Top(g).n \in Nat /\ x \in Files
      /\ Top(g).ws.kind \notin {"lock", "multi"} /\ Top(g).i = 0
  BY <1>1, LeafIsNoLock, TopFrame, BuiltNodes DEF In, FrameOK
<1>3. pc[g] = "written" /\ pc[g] \in UsesArg
  BY <1>1, <1>2, LineWritten DEF UsesArg
<1> DEFINE l == LineOf(g)
<1>4. mem[arg[g]] = Whole(l)
  BY <1>3, LineHeld
<1> HIDE DEF l
<1>5. Len(Whole(l)) = LineLen /\ \A k \in 1..LineLen : Whole(l)[k] = Byte(l, k)
  BY DEF Whole, LineLen
<1>6. n \in 1..LineLen
  BY <1>1, <1>2, <1>4, <1>5 DEF LineLen
<1>7. file \in [Files -> Seq(LineByte)]
  BY DEF FileOK
<1>8. mem[arg[g]][n] = Byte(l, n) /\ Len(mem[arg[g]]) = LineLen
  BY <1>4, <1>5, <1>6, Zenon
<1>9. file' = [file EXCEPT ![x] = Append(@, Byte(l, n))]
  BY <1>1, <1>8
<1> QED
  BY <1>1, <1>2, <1>3, <1>6, <1>7, <1>8, <1>9 DEF l

\* A byte is counted by the leaf, and the last byte by the call.
LEMMA WriteByteWalk ==
  ASSUME OInv, WalkInv, NEW g \in Goroutines, WriteByte(g), UNCHANGED <<pc, lines>>
  PROVE  WalkInv'
<1> USE DEF OInv, StackInv
<1> DEFINE x == Top(g).ws.name
           n == Top(g).n + 1
           l == LineOf(g)
<1>1. /\ In(g, LeafKinds) /\ stack[g] # <<>> /\ pc[g] = "written" /\ x \in Files
      /\ Top(g).ws.kind \notin {"lock", "multi"} /\ Top(g).i = 0
      /\ n \in 1..LineLen /\ Top(g).n \in Nat
      /\ file' = [file EXCEPT ![x] = Append(@, Byte(l, n))]
      /\ file \in [Files -> Seq(LineByte)]
      /\ n = LineLen => Answer(g, LineLen, {})
      /\ n # LineLen =>
           /\ stack' = [stack EXCEPT ![g] = Append(Front(@), [Top(g) EXCEPT !.n = n])]
           /\ UNCHANGED <<ret, asked, failed>>
      /\ UNCHANGED <<out, mem, method, arg>>
  BY ByteWritten
<1>2. \A h \in Goroutines : LineOf(h)' = LineOf(h)
  BY <1>1 DEF LineOf
<1>3. \A y \in Files : \A e :
        /\ Count(file[y], e) \in Nat
        /\ Count(file'[y], e)
             = Count(file[y], e) + (IF y = x /\ Byte(l, n) = e THEN 1 ELSE 0)
  <2> DEFINE b == Byte(l, n)
             f == file
             f2 == file'
  <2>1. /\ f \in [Files -> Seq(LineByte)] /\ x \in Files
        /\ f2 = [f EXCEPT ![x] = Append(@, b)]
    BY <1>1
  <2> HIDE DEF l, x, n, b, f, f2
  <2>2. \A y \in Files : \A e :
          /\ Count(f[y], e) \in Nat
          /\ Count(f2[y], e) = Count(f[y], e) + (IF y = x /\ b = e THEN 1 ELSE 0)
    <3>1. \A s \in Seq(LineByte) : \A e :
            /\ Count(s, e) \in Nat
            /\ Count(Append(s, b), e) = Count(s, e) + (IF b = e THEN 1 ELSE 0)
      BY CountOfAppend
    <3>2. \A y \in Files : /\ f[y] \in Seq(LineByte)
                          /\ f2[y] = IF y = x THEN Append(f[y], b) ELSE f[y]
      BY <2>1
    <3>3. \A y \in Files : \A e : Count(f[y], e) \in Nat
      BY <3>1, <3>2, Zenon
    <3> QED
      BY <3>1, <3>2, <3>3
  <2> QED
    BY <2>2 DEF b, f, f2
<1>4. Walked(out[g], stack[g], ret[g], asked[g], failed[g]) /\ WalkOK(g)
  BY <1>1 DEF WalkInv, WalkOK
<1>5. /\ asked \in [Goroutines -> Seq(Files)] /\ failed \in [Goroutines -> SUBSET Files]
      /\ LinesOK
  BY DEF WalkInv
<1> HIDE DEF l, x, n
<1>6. LinesOK'
  <2>1. l \in 1..lines
    BY <1>1, <1>5 DEF LinesOK, UsesArg, l
  <2>2. \A h \in Goroutines : pc[h] \in {"encode", "reflect"} => LineOf(h) # l
    <3>1. \A h \in Goroutines : pc[h] \in {"encode", "reflect"} => h # g /\ pc[h] \in UsesArg
      BY <1>1 DEF UsesArg
    <3>2. pc[g] \in UsesArg
      BY <1>1 DEF UsesArg
    <3> QED
      BY <1>5, <3>1, <3>2 DEF LinesOK, l
  <2>3. \A y \in Files : \A i \in 1..Len(file'[y]) :
          \/ file'[y][i].line = l
          \/ i \in 1..Len(file[y]) /\ file'[y][i] = file[y][i]
    <3> SUFFICES ASSUME NEW y \in Files, NEW i \in 1..Len(file'[y])
                 PROVE  \/ file'[y][i].line = l
                        \/ i \in 1..Len(file[y]) /\ file'[y][i] = file[y][i]
      OBVIOUS
    <3> DEFINE b == Byte(l, n)
    <3>1. b.line = l
      BY DEF Byte
    <3> HIDE DEF b
    <3>2. file[y] \in Seq(LineByte) /\ (file'[y] = Append(file[y], b) \/ file'[y] = file[y])
      BY <1>1 DEF b
    <3> DEFINE s == file[y]
    <3>3. /\ Len(Append(s, b)) = Len(s) + 1 /\ Len(s) \in Nat
          /\ Append(s, b)[Len(s) + 1] = b
          /\ \A k \in 1..Len(s) : Append(s, b)[k] = s[k]
      BY <3>2
    <3> HIDE DEF s
    <3>4. \A k \in 1..(Len(s) + 1) : k \in 1..Len(s) \/ k = Len(s) + 1
      BY <3>3
    <3> QED
      BY <3>1, <3>2, <3>3, <3>4 DEF s
  <2>4. \A y \in Files : \A i \in 1..Len(file'[y]) : file'[y][i].line <= lines'
    BY <1>5, <2>1, <2>3, SMTT(30) DEF LinesOK
  <2>5. \A h \in Goroutines : pc'[h] \in {"encode", "reflect"} =>
          \A y \in Files : \A i \in 1..Len(file'[y]) : file'[y][i].line # LineOf(h)'
    <3> SUFFICES ASSUME NEW h \in Goroutines, pc'[h] \in {"encode", "reflect"},
                        NEW y \in Files, NEW i \in 1..Len(file'[y])
                 PROVE  file'[y][i].line # LineOf(h)'
      OBVIOUS
    <3>1. pc[h] \in {"encode", "reflect"} /\ LineOf(h)' = LineOf(h)
      BY <1>2
    <3>2. LineOf(h) # l
      BY <2>2, <3>1
    <3>3. \A k \in 1..Len(file[y]) : file[y][k].line # LineOf(h)
      BY <1>5, <3>1 DEF LinesOK
    <3>4. \/ file'[y][i].line = l
          \/ i \in 1..Len(file[y]) /\ file'[y][i] = file[y][i]
      BY <2>3
    <3> QED
      BY <3>1, <3>2, <3>3, <3>4
  <2> QED
    BY <1>2, <1>5, <2>4, <2>5 DEF LinesOK
<1>7. \A h \in Goroutines : h # g =>
        /\ stack'[h] = stack[h] /\ ret'[h] = ret[h]
        /\ asked'[h] = asked[h] /\ failed'[h] = failed[h]
  BY <1>1, <1>5, StackTypes DEF Answer, Return
<1>8. ASSUME NEW h \in Goroutines, h # g, pc'[h] = "written" PROVE WalkOK(h)'
  <2>1. WalkOK(h) /\ LineOf(h) # l
    <3>1. pc[h] \in UsesArg /\ pc[g] \in UsesArg
      BY <1>1, <1>8 DEF UsesArg
    <3> QED
      BY <1>5, <1>8, <3>1 DEF WalkInv, LinesOK, l
  <2>2. Walked(out[h], stack[h], ret[h], asked[h], failed[h])'
    BY <1>1, <1>7, <1>8, <2>1 DEF WalkOK
  <2>3. \A y \in Files, pos \in 1..LineLen :
          Count(file'[y], Byte(LineOf(h), pos)) = Count(file[y], Byte(LineOf(h), pos))
    <3>1. \A pos : Byte(l, n) # Byte(LineOf(h), pos)
      BY <2>1 DEF Byte
    <3> QED
      BY <1>3, <3>1
  <2>4. failed'[h] = {} => Written(h)'
    BY <1>2, <1>7, <1>8, <2>1, <2>3 DEF WalkOK, Written, Taken, AtLeaf, In, Top
  <2> QED
    BY <2>2, <2>4 DEF WalkOK
<1>9. \A y \in Files, pos \in 1..LineLen :
        Taken(g, y, pos) = IF y = x /\ Top(g).n >= pos THEN 1 ELSE 0
  BY <1>1 DEF Taken, AtLeaf, x
<1>10. \A y \in Files, pos \in 1..LineLen :
         Count(file'[y], Byte(l, pos))
           = Count(file[y], Byte(l, pos)) + (IF y = x /\ n = pos THEN 1 ELSE 0)
  <2>1. \A pos \in 1..LineLen : Byte(l, n) = Byte(l, pos) <=> n = pos
    BY DEF Byte
  <2> QED
    BY <1>3, <2>1
<1>11. CASE n = LineLen
  <2>1. Answer(g, LineLen, {}) /\ LineLen \in Nat /\ {} \in SUBSET Files
    BY <1>1, <1>11 DEF LineLen
  <2>2. /\ asked' \in [Goroutines -> Seq(Files)] /\ failed' \in [Goroutines -> SUBSET Files]
        /\ asked'[g] = asked[g] \o Rest(Top(g)) /\ failed'[g] = failed[g] \union {}
        /\ asked'[g] = Append(asked[g], x)
    BY <1>1, <2>1, Answered DEF x
  <2>3. Walked(out[g], stack[g], ret[g], asked[g], failed[g])'
    <3>1. Return(g, LineLen, {})
      BY <2>1 DEF Answer
    <3>2. {} = Top(g).err \union (IF Top(g).i > 0 THEN ret[g].err ELSE {}) \union {}
      <4>1. Top(g).err = {}
        BY <1>1, TopWalked
      <4> QED
        BY <1>1, <4>1
    <3>3. LineLen \in Numbers(out[g])
      BY DEF Numbers
    <3>4. Walked(out[g], stack'[g], ret'[g], asked[g] \o Rest(Top(g)), failed[g] \union {})
      BY <1>1, <2>1, <3>1, <3>2, <3>3, PopWalk
    <3> QED
      BY <1>1, <2>2, <3>4
  <2>4. ASSUME failed'[g] = {} PROVE Written(g)'
    <3>1. ~In(g, LeafKinds)'
      BY <1>1, <2>1, NoLeafUnder DEF Answer, Return
    <3>2. ASSUME NEW y \in Files, NEW pos \in 1..LineLen
          PROVE  Count(file'[y], Byte(l, pos)) = Count(asked'[g], y) + Taken(g, y, pos)'
      <4>1. Taken(g, y, pos)' = 0
        BY <3>1 DEF Taken, AtLeaf, In
      <4>2. Count(file[y], Byte(l, pos)) = Count(asked[g], y) + Taken(g, y, pos)
        BY <1>4, <2>2, <2>4 DEF WalkOK, Written, l
      <4>3. /\ Count(asked[g], y) \in Nat
            /\ Count(asked'[g], y) = Count(asked[g], y) + (IF x = y THEN 1 ELSE 0)
        BY <1>5, <2>2, CountOfAppend
      <4>4. pos = n \/ (Top(g).n >= pos /\ pos # n)
        BY <1>1, <1>11 DEF n, LineLen
      <4>5. ~(Top(g).n >= n)
        BY <1>1 DEF n
      <4> QED
        BY <1>9, <1>10, <4>1, <4>2, <4>3, <4>4, <4>5
    <3> QED
      BY <1>2, <3>2 DEF Written, l
  <2>5. WalkOK(g)'
    BY <2>3, <2>4 DEF WalkOK
  <2> QED
    BY <1>6, <1>8, <2>2, <2>5 DEF WalkInv
<1>12. CASE n # LineLen
  <2> DEFINE t == [Top(g) EXCEPT !.n = n]
  <2>1. /\ stack' = [stack EXCEPT ![g] = Append(Front(@), t)]
        /\ UNCHANGED <<ret, asked, failed>>
    BY <1>1, <1>12
  <2>2. t \in Frames /\ t.ws = Top(g).ws /\ t.i = Top(g).i /\ t.err = Top(g).err /\ t.n = n
    <3>1. n \in Nat
      BY <1>1
    <3> QED
      BY <1>1, <3>1, TopFrame DEF Frames
  <2> HIDE DEF t
  <2> DEFINE s == stack[g]
             s2 == stack'[g]
  <2> PICK N \in Nat \ {0} : N = Len(stack[g])
    BY <1>1, TopFrame
  <2>3. s \in Seq(Frames) /\ s # <<>> /\ s2 = Append(Front(s), t) /\ Len(s) = N
    BY <1>1, <2>1, StackTypes
  <2>4. Top(g) = s[N]
    BY <1>1, TopFrame
  <2> HIDE DEF s, s2
  <2>5. /\ s2 \in Seq(Frames) /\ Len(s2) = N /\ s2[N] = t
        /\ \A k \in 1..(N - 1) : s2[k] = s[k]
    BY <2>2, <2>3, Swapped, SMTT(30)
  <2>6. s2 # <<>> /\ Last(s2) = t
    BY <2>5, EmptySeq DEF Last
  <2>7. Walked(out[g], s2, ret[g], asked[g], failed[g])
    <3> DEFINE root == out[g]
               r == ret[g]
               a == asked[g]
               e == failed[g]
    <3>1. Walked(root, s, r, a, e)
      BY <1>4 DEF s
    <3>2. /\ s2[N].ws = s[N].ws /\ s2[N].i = s[N].i /\ s2[N].err = s[N].err
          /\ s[N].ws.kind # "multi"
      BY <1>1, <2>2, <2>4, <2>5
    <3>3. /\ Len(s) = N /\ Len(s2) = N /\ s # <<>> /\ s2 # <<>>
          /\ \A k \in 1..(N - 1) : s2[k] = s[k]
      BY <2>3, <2>5, <2>6
    <3> HIDE DEF root, r, a, e
    <3>4. Walked(root, s2, r, a, e)
      BY <3>1, <3>2, <3>3, WalkedSwap
    <3> QED
      BY <3>4 DEF root, r, a, e
  <2>8. Walked(out[g], stack[g], ret[g], asked[g], failed[g])'
    BY <1>1, <2>1, <2>7 DEF s2
  <2>9. ASSUME failed'[g] = {} PROVE Written(g)'
    <3>1. \A y \in Files, pos \in 1..LineLen :
            Taken(g, y, pos)' = IF y = x /\ n >= pos THEN 1 ELSE 0
      <4>1. Top(g)' = t /\ In(g, LeafKinds)'
        BY <1>1, <2>2, <2>6 DEF Top, In, s2
      <4> QED
        BY <2>2, <4>1 DEF Taken, AtLeaf, x
    <3>2. ASSUME NEW y \in Files, NEW pos \in 1..LineLen
          PROVE  Count(file'[y], Byte(l, pos)) = Count(asked'[g], y) + Taken(g, y, pos)'
      <4>1. Count(file[y], Byte(l, pos)) = Count(asked[g], y) + Taken(g, y, pos)
        BY <1>4, <2>1, <2>9 DEF WalkOK, Written, l
      <4>2. Count(asked[g], y) \in Nat
        BY <1>5, CountOfAppend
      <4>3. /\ n >= pos <=> (Top(g).n >= pos \/ n = pos)
            /\ ~(Top(g).n >= pos /\ n = pos)
        BY <1>1 DEF n
      <4>4. asked'[g] = asked[g]
        BY <2>1
      <4> QED
        BY <1>9, <1>10, <3>1, <4>1, <4>2, <4>3, <4>4
    <3> QED
      BY <1>2, <3>2 DEF Written, l
  <2>10. WalkOK(g)'
    BY <2>8, <2>9 DEF WalkOK
  <2>11. asked' = asked /\ failed' = failed
    BY <2>1
  <2> QED
    BY <1>5, <1>6, <1>8, <2>10, <2>11 DEF WalkInv
<1> QED
  BY <1>11, <1>12

\* No call, no line.
LEMMA WalkInvInit == Init => WalkInv
<1> SUFFICES ASSUME Init PROVE WalkInv
  OBVIOUS
<1>1. /\ pc = [g \in Goroutines |-> "idle"] /\ file = [x \in Files |-> <<>>]
      /\ asked = [g \in Goroutines |-> <<>>] /\ failed = [g \in Goroutines |-> {}]
  BY DEF Init, InitSinks
<1>2. asked \in [Goroutines -> Seq(Files)] /\ failed \in [Goroutines -> SUBSET Files]
  BY <1>1, EmptySeq
<1>3. LinesOK
  BY <1>1, EmptySeq DEF LinesOK, UsesArg
<1> QED
  BY <1>1, <1>2, <1>3 DEF WalkInv

\* Every step preserves it, given OInv.
LEMMA WalkInvStep == OInv /\ WalkInv /\ [Next]_vars => WalkInv'
<1> SUFFICES ASSUME OInv, WalkInv, [Next]_vars PROVE WalkInv'
  OBVIOUS
<1>1. CASE UNCHANGED vars
  <2>1. /\ UNCHANGED <<out, mem, file, stack, arg, ret, asked, failed>>
        /\ UNCHANGED <<pc, lines>>
    BY <1>1 DEF vars, sinkVars
  <2>2. \A h \in Goroutines : LineOf(h)' = LineOf(h)
    BY <2>1 DEF LineOf
  <2>3. LinesOK'
    BY <2>1, <2>2, LinesKept DEF WalkInv
  <2>4. \A h \in Goroutines : pc'[h] = "written" => WalkOK(h)'
    BY <2>1, <2>2, WalkKept DEF WalkInv
  <2> QED
    BY <2>1, <2>3, <2>4 DEF WalkInv
<1>2. ASSUME NEW g \in Goroutines, BeginWrite(g) \/ Sync(g) \/ Continue(g)
      PROVE  WalkInv'
  <2>1. CASE WalkOut(g)
    BY <2>1, WriteByteWalk, LeafReturnsWalk, LockWalk, MultiWalk DEF WalkOut, Walk
  <2> QED
    BY <1>2, <2>1, EncodingWalk, CallWalk DEF Continue
<1> QED
  BY <1>1, <1>2 DEF Next

\* What the invariant says of a call that has returned.
LEMMA WalkedThrough ==
  ASSUME OInv, WalkInv, NEW g \in Goroutines, pc[g] = "written", stack[g] = <<>>
  PROVE  /\ asked[g] = Leaves(g)
         /\ ret[g].err = failed[g]
         /\ ret[g].err = {} =>
              /\ ret[g].n = LineLen \/ (out[g].hollow /\ ret[g].n = 0)
              /\ \A x \in Range(Leaves(g)), pos \in 1..LineLen :
                   Count(file[x], Byte(mem[arg[g]][1].line, pos)) = Count(Leaves(g), x)
<1> USE DEF OInv, StackInv
<1>1. /\ Walked(out[g], stack[g], ret[g], asked[g], failed[g])
      /\ failed[g] = {} => Written(g)
      /\ asked[g] \in Seq(Files)
  BY DEF WalkInv, WalkOK
<1>2. Len(stack[g]) = 0 /\ Pending(stack[g])
  BY DEF Pending
<1>3. asked[g] = Leaves(g)
  <2>1. PICK still \in [0..0 -> Seq(Files)] :
          still[0] = <<>> /\ asked[g] \o still[0] = out[g].leaves
    BY <1>1, <1>2 DEF Walked, Asks
  <2>2. asked[g] \o <<>> = asked[g]
    BY <1>1, ConcatEmptySeq
  <2> QED
    BY <2>1, <2>2 DEF Leaves
<1>4. ret[g].err = failed[g]
  <2>1. failed[g] = (UNION {stack[g][k].err : k \in 1..0}) \union ret[g].err
    BY <1>1, <1>2 DEF Walked, Collects
  <2>2. (UNION {stack[g][k].err : k \in 1..0}) = {}
    OBVIOUS
  <2> QED
    BY <2>1, <2>2
<1>5. ASSUME failed[g] = {}
      PROVE  ret[g].n = LineLen \/ (out[g].hollow /\ ret[g].n = 0)
  BY <1>1, <1>2, <1>5 DEF Walked, Counts, Numbers
<1>6. ASSUME failed[g] = {}, NEW x \in Range(Leaves(g)), NEW pos \in 1..LineLen
      PROVE  Count(file[x], Byte(mem[arg[g]][1].line, pos)) = Count(Leaves(g), x)
  <2>1. x \in Files
    <3>1. Leaves(g) \in Seq(Files)
      BY <1>1, <1>3
    <3> QED
      BY <3>1, ElementOfSeq DEF Range
  <2>2. Count(file[x], Byte(LineOf(g), pos)) = Count(asked[g], x) + Taken(g, x, pos)
    BY <1>1, <1>6, <2>1 DEF Written
  <2>3. Taken(g, x, pos) = 0
    BY DEF Taken, AtLeaf, In
  <2>4. Count(asked[g], x) \in Nat
    BY <1>1, CountOfAppend
  <2> QED
    BY <1>3, <2>2, <2>3, <2>4 DEF LineOf
<1> QED
  BY <1>3, <1>4, <1>5, <1>6

\* Write is called on all of the outputs, whatever some of them answer; no error
\* gets lost; and a call that returns none has put its line into every one of
\* them, and counted it (multiWriteSyncer.Write and Sync, lockedWriteSyncer.Write,
\* ioCore.Write).
THEOREM LinesGoEverywhere == Spec => []WritesEverywhere
<1>1. OInv /\ WalkInv => WritesEverywhere
  BY WalkedThrough DEF WritesEverywhere
<1>2. Spec => []WalkInv
  <2>1. Spec => []OInv
    BY OutputInductive
  <2> QED
    BY <2>1, WalkInvInit, WalkInvStep, PTL DEF Spec
<1> QED
  BY <1>1, <1>2, OutputInductive, PTL
=============================================================================
