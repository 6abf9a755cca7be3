------------------------------- MODULE Output -------------------------------
(***************************************************************************)
(* ioCore.Write and Sync (zapcore/core.go), called by goroutines at the    *)
(* same time: the write loops of several Loggers, whose cores share the    *)
(* pools of encoders and buffers and may share their outputs.              *)
(*                                                                         *)
(* A line has two bytes.  The second one is a field, which an encoder      *)
(* writes into its buffer, or, if it is encoded by reflection, into a      *)
(* buffer of its own first.                                                *)
(***************************************************************************)
EXTENDS WriteSyncers

CONSTANTS
  Encoders,
  MaxCalls    \* bound: calls of Write and Sync in a behaviour

ASSUME OutputAssumption == NIL \notin Encoders /\ MaxCalls \in Nat

VARIABLES
  pc,
  lines,      \* the entries written so far, in the order of their encoding
  calls,
  enc,        \* the clone a goroutine encodes with
  encPool,    \* _jsonPool
  bufPool,    \* bufferpool
  reflectBuf  \* the field of each encoder

poolVars == <<enc, encPool, bufPool, reflectBuf>>
vars == <<sinkVars, pc, lines, calls, poolVars>>

Init ==
  /\ InitSinks
  /\ pc = [g \in Goroutines |-> "idle"]
  /\ lines = 0
  /\ calls = 0
  /\ enc = [g \in Goroutines |-> NIL]
  /\ encPool = {} /\ bufPool = {}
  /\ reflectBuf = [e \in Encoders |-> NIL]

Byte(line, pos) == [line |-> line, pos |-> pos]
LineLen == 2

UsesArg == {"encode", "reflect", "written"}
InUse(g) == IF pc[g] \in UsesArg THEN {arg[g]} ELSE {}
Reflecting == {reflectBuf[e] : e \in Encoders} \ {NIL}

\* What sync.Pool.Get may return: something from the pool, or something new, for
\* which one that nobody refers to will do.  A garbage collection may turn the
\* one into the other at any time.
OneOf(S) == IF S = {} THEN {} ELSE {CHOOSE x \in S : TRUE}
NewBuffers ==
  OneOf(Buffers \ (bufPool \union Reflecting \union UNION {InUse(g) : g \in Goroutines}))
NewEncoders == OneOf(Encoders \ (encPool \union Range(enc)))

-----------------------------------------------------------------------------

\* EncodeEntry: clone, and what comes before a reflected field, if there is one.
BeginWrite(g) ==
  /\ pc[g] = "idle"
  /\ calls < MaxCalls
  /\ calls' = calls + 1
  /\ lines' = lines + 1
  /\ \E e \in encPool \union NewEncoders, b \in bufPool \union NewBuffers :
       /\ enc' = [enc EXCEPT ![g] = e]
       /\ encPool' = encPool \ {e}
       /\ arg' = [arg EXCEPT ![g] = b]
       /\ bufPool' = bufPool \ {b}
       /\ \E n \in 1..LineLen :
            mem' = [mem EXCEPT ![b] = [pos \in 1..n |-> Byte(lines', pos)]]
  /\ pc' = [pc EXCEPT ![g] = "encode"]
  /\ UNCHANGED <<out, file, holder, stack, method, ret, fails, asked, failed, reflectBuf>>

\* AddReflected: resetReflectBuf, and Encode into that buffer ...
Reflect(g) ==
  LET e == enc[g] IN
  /\ pc[g] = "encode"
  /\ Len(mem[arg[g]]) < LineLen
  /\ \E b \in IF reflectBuf[e] = NIL THEN bufPool \union NewBuffers ELSE {reflectBuf[e]} :
       /\ bufPool' = IF reflectBuf[e] = NIL THEN bufPool \ {b} ELSE bufPool
       /\ reflectBuf' = [reflectBuf EXCEPT ![e] = b]
       /\ mem' = [mem EXCEPT ![b] = <<Byte(mem[arg[g]][1].line, 2)>>]
  /\ pc' = [pc EXCEPT ![g] = "reflect"]
  /\ UNCHANGED <<out, file, holder, stack, method, arg, ret, fails, asked, failed,
                 lines, calls, enc, encPool>>

\* ... and its copy into the buffer of the line.
CopyReflected(g) ==
  /\ pc[g] = "reflect"
  /\ mem' = [mem EXCEPT ![arg[g]] = @ \o mem[reflectBuf[enc[g]]]]
  /\ pc' = [pc EXCEPT ![g] = "encode"]
  /\ UNCHANGED <<out, file, holder, stack, method, arg, ret, fails, asked, failed,
                 lines, calls, poolVars>>

\* Mutant of ReflectBufReset: the encoder keeps the buffer it has freed.
ReflectBufKept(e) == reflectBuf

ReflectBufReset(e) == [reflectBuf EXCEPT ![e] = NIL]

\* putJSONEncoder, and the call of out.Write with the bytes of the line.
EndEncode(g) ==
  /\ pc[g] = "encode"
  /\ Len(mem[arg[g]]) = LineLen
  /\ bufPool' = bufPool \union ({reflectBuf[enc[g]]} \ {NIL})
  /\ reflectBuf' = ReflectBufReset(enc[g])
  /\ encPool' = encPool \union {enc[g]}
  /\ enc' = [enc EXCEPT ![g] = NIL]
  /\ CallOut(g, "write")
  /\ pc' = [pc EXCEPT ![g] = "written"]
  /\ UNCHANGED <<out, mem, file, holder, arg, fails, lines, calls>>

\* out.Write has returned: buf.Free, and Sync if the entry was
\* written and its level, which is one or the other, is above ErrorLevel.
FreeBuffer(g) ==
  /\ pc[g] = "written"
  /\ stack[g] = <<>>
  /\ bufPool' = bufPool \union {arg[g]}
  /\ arg' = [arg EXCEPT ![g] = NIL]
  /\ \/ /\ ret[g].err = {}
        /\ pc' = [pc EXCEPT ![g] = "synced"]
        /\ CallOut(g, "sync")
     \/ /\ pc' = [pc EXCEPT ![g] = "idle"]
        /\ ret' = [ret EXCEPT ![g] = NIL]
        /\ UNCHANGED <<stack, method, asked, failed>>
  /\ UNCHANGED <<out, mem, file, holder, fails, lines, calls, enc, encPool,
                 reflectBuf>>

\* ioCore.Sync, called by Logger.Sync.
Sync(g) ==
  /\ pc[g] = "idle"
  /\ calls < MaxCalls
  /\ calls' = calls + 1
  /\ CallOut(g, "sync")
  /\ pc' = [pc EXCEPT ![g] = "synced"]
  /\ UNCHANGED <<out, mem, file, holder, arg, fails, lines, poolVars>>

EndSync(g) ==
  /\ pc[g] = "synced"
  /\ stack[g] = <<>>
  /\ pc' = [pc EXCEPT ![g] = "idle"]
  /\ ret' = [ret EXCEPT ![g] = NIL]
  /\ UNCHANGED <<out, mem, file, holder, stack, method, arg, fails, asked, failed,
                 lines, calls, poolVars>>

WalkOut(g) == Walk(g) /\ UNCHANGED <<pc, lines, calls, poolVars>>

Continue(g) ==
  \/ Reflect(g) \/ CopyReflected(g)
  \/ EndEncode(g) \/ FreeBuffer(g) \/ EndSync(g)
  \/ WalkOut(g)

Next == \E g \in Goroutines : BeginWrite(g) \/ Sync(g) \/ Continue(g)

Spec == Init /\ [][Next]_vars

\* A goroutine in a call is scheduled again unless it waits for a mutex, and
\* Go's mutexes let nobody wait for ever while others come and go.
FairSpec == Spec /\ \A g \in Goroutines : SF_vars(Continue(g))

-----------------------------------------------------------------------------
(***************************************************************************)
(* Properties                                                              *)
(***************************************************************************)

Busy(g) == pc[g] # "idle"

\* Types; and who has locked a mutex is inside the method that has.
TypeOK ==
  /\ pc \in [Goroutines -> {"idle", "encode", "reflect", "written", "synced"}]
  /\ enc \in [Goroutines -> Encoders \union {NIL}]
  /\ arg \in [Goroutines -> Buffers \union {NIL}]
  /\ encPool \subseteq Encoders /\ bufPool \subseteq Buffers
  /\ reflectBuf \in [Encoders -> Buffers \union {NIL}]
  /\ \A b \in Buffers : Len(mem[b]) <= LineLen
  /\ fails \in 0..MaxFails /\ calls \in 0..MaxCalls /\ lines \in 0..MaxCalls
  /\ \A m \in Mutexes : holder[m] # NIL =>
       \E i \in DOMAIN stack[holder[m]] :
         stack[holder[m]][i].ws.name = m /\ stack[holder[m]][i].i = 1

\* A buffer or an encoder from a pool has one user, in and out of the pool: the
\* line a goroutine is about to write, the reflection buffer of an encoder in
\* use or in the pool, and the buffers others may get are different ones.
PooledOneOwner ==
  /\ \A g, h \in Goroutines : g # h =>
       /\ InUse(g) \cap InUse(h) = {}
       /\ enc[g] = enc[h] => enc[g] = NIL
  /\ \A g \in Goroutines :
       InUse(g) \cap (bufPool \union Reflecting) = {} /\ enc[g] \notin encPool
  /\ Reflecting \cap bufPool = {}
  /\ \A e, d \in Encoders : e # d /\ reflectBuf[e] = reflectBuf[d] => reflectBuf[e] = NIL

\* There is a mutex on every path to the leaf x.
Guarded(x) ==
  \E m \in Mutexes : \A g \in Goroutines : \A path \in out[g].paths :
    path.file = x => m \in path.locks

\* "Lock wraps a WriteSyncer in a mutex to make it safe for concurrent use"
\* (write_syncer.go:53): in a file that every path reaches through one mutex
\* lines are never mixed, and what is cut off by an error is the end of a line.
WholeLines ==
  \A x \in Files : Guarded(x) =>
    \A i \in DOMAIN file[x] :
      \/ file[x][i].pos = 1
      \/ i > 1 /\ file[x][i] = [file[x][i - 1] EXCEPT !.pos = @ + 1]

Count(s, e) == Cardinality({i \in DOMAIN s : s[i] = e})
Leaves(g) == out[g].leaves

\* "Write() is called on all of them" (write_syncer.go:100), also after an
\* error; the errors of all of them are returned; and a Write that returns none
\* has put its own line into every one of them, whatever other goroutines and
\* the pools have done meanwhile.  It has counted the bytes of the line, unless
\* there is a multiWriteSyncer for nothing, whose 0 may be the smallest number.
WritesEverywhere ==
  \A g \in Goroutines : pc[g] = "written" /\ stack[g] = <<>> =>
    /\ asked[g] = Leaves(g)
    /\ ret[g].err = failed[g]
    /\ ret[g].err = {} =>
         /\ ret[g].n = LineLen \/ (out[g].hollow /\ ret[g].n = 0)
         /\ \A x \in Range(Leaves(g)), pos \in 1..LineLen :
              Count(file[x], Byte(mem[arg[g]][1].line, pos)) = Count(Leaves(g), x)

\* However Locks and multi-writers are put into each other, every call returns.
CallsReturn == \A g \in Goroutines : Busy(g) ~> ~Busy(g)

\* "When not all underlying syncers write the same number of bytes, the smallest
\* number is returned" (write_syncer.go:98): so a write that has reached a file
\* which took nothing returns 0.
SmallestCount ==
  \A g \in Goroutines : pc[g] = "written" /\ stack[g] = <<>> =>
    \A x \in failed[g] :
      (\A i \in DOMAIN file[x] : file[x][i].line # mem[arg[g]][1].line) => ret[g].n = 0
=============================================================================
