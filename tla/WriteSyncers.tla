---------------------------- MODULE WriteSyncers ----------------------------
(***************************************************************************)
(* The WriteSyncers that applications build with AddSync, Lock and         *)
(* NewMultiWriteSyncer (zapcore/write_syncer.go), and goroutines that call *)
(* Write and Sync on them at the same time.                                *)
(*                                                                         *)
(* A WriteSyncer is a tree; a call walks through it and keeps one frame    *)
(* per method it is in.  The writers at the leaves are external: they take *)
(* their bytes one by one, so that two calls at the same time mix their    *)
(* bytes, and may fail after any of them.  Write is given a reference: it  *)
(* writes what the buffer holds when the byte is written.                  *)
(***************************************************************************)
EXTENDS Integers, FiniteSets, SequencesExt

CONSTANTS
  Goroutines,
  Files,      \* the writers at the leaves
  Mutexes,
  Buffers,
  NIL,
  Built,      \* the WriteSyncers that the application has made
  Setups,     \* those of them that the goroutines may have been given
  MaxFails    \* bound: writes and syncs of a leaf that fail

-----------------------------------------------------------------------------
(***************************************************************************)
(* The constructors.  `leaves', `paths' and `hollow' are for the           *)
(* properties: the leaves that a call reaches, in order, the mutexes above *)
(* each, and whether there is a multiWriteSyncer for nothing in it.        *)
(***************************************************************************)

Leaf(kind, x) ==
  [kind |-> kind, name |-> x, ws |-> <<>>, hollow |-> FALSE,
   leaves |-> <<x>>, paths |-> {[file |-> x, locks |-> {}]}]

\* An os.File, which has a Sync, and a writer that has none.
File(x)   == Leaf("file", x)
Writer(x) == Leaf("writer", x)

AddSync(w) == IF w.kind = "writer" THEN [w EXCEPT !.kind = "wrapper"] ELSE w

\* Lock, with a new mutex if one is needed.
Lock(ws, mutex) ==
  IF ws.kind = "lock" THEN ws
  ELSE [kind |-> "lock", name |-> mutex, ws |-> <<ws>>, hollow |-> ws.hollow,
        leaves |-> ws.leaves,
        paths |-> {[file |-> p.file, locks |-> p.locks \union {mutex}] : p \in ws.paths}]

NewMultiWriteSyncer(ws) ==
  IF Len(ws) = 1 THEN ws[1]
  ELSE [kind |-> "multi", name |-> NIL, ws |-> ws,
        hollow |-> ws = <<>> \/ \E i \in DOMAIN ws : ws[i].hollow,
        leaves |-> FlattenSeq([i \in DOMAIN ws |-> ws[i].leaves]),
        paths  |-> UNION {ws[i].paths : i \in DOMAIN ws}]

\* ws is the result of a constructor, given other WriteSyncers.
Made(ws) ==
  \/ \E x \in Files : ws \in {AddSync(File(x)), AddSync(Writer(x))}
  \/ \E inner \in Built, m \in Mutexes : inner.kind # "lock" /\ ws = Lock(inner, m)
  \/ ws.ws \in Seq(Built) /\ Len(ws.ws) # 1 /\ ws = NewMultiWriteSyncer(ws.ws)

ASSUME SinkAssumption ==
  /\ \A ws \in Built : Made(ws) /\ ws.leaves \in Seq(Files) /\ ws.hollow \in BOOLEAN
  /\ Setups \subseteq [Goroutines -> Built]
  /\ NIL \notin Goroutines \union Mutexes \union Buffers
  /\ MaxFails \in Nat

-----------------------------------------------------------------------------

VARIABLES
  out,     \* the WriteSyncer of each goroutine
  mem,     \* the contents of the buffers
  file,    \* the bytes each leaf has taken
  holder,  \* the goroutine that has locked each mutex, or NIL
  stack,   \* the methods each goroutine is in
  method,  \* "write" or "sync"
  arg,     \* the buffer whose bytes are written
  ret,     \* what the last method returned
  fails

\* History: the leaves this call has reached, and those that failed.
VARIABLES asked, failed

sinkVars == <<out, mem, file, holder, stack, method, arg, ret, fails, asked, failed>>

InitSinks ==
  /\ out \in Setups
  /\ mem = [b \in Buffers |-> <<>>]
  /\ file = [x \in Files |-> <<>>]
  /\ holder = [m \in Mutexes |-> NIL]
  /\ stack = [g \in Goroutines |-> <<>>]
  /\ method = [g \in Goroutines |-> "sync"]
  /\ arg = [g \in Goroutines |-> NIL]
  /\ ret = [g \in Goroutines |-> NIL]
  /\ fails = 0
  /\ asked = [g \in Goroutines |-> <<>>]
  /\ failed = [g \in Goroutines |-> {}]

Frame(ws) == [ws |-> ws, i |-> 0, n |-> 0, err |-> {}]

Top(g) == Last(stack[g])
In(g, kinds) == stack[g] # <<>> /\ Top(g).ws.kind \in kinds

\* g calls Write or Sync of its WriteSyncer.
CallOut(g, m) ==
  /\ stack' = [stack EXCEPT ![g] = <<Frame(out[g])>>]
  /\ method' = [method EXCEPT ![g] = m]
  /\ ret' = [ret EXCEPT ![g] = NIL]
  /\ asked' = [asked EXCEPT ![g] = <<>>]
  /\ failed' = [failed EXCEPT ![g] = {}]

Return(g, n, err) ==
  /\ stack' = [stack EXCEPT ![g] = Front(@)]
  /\ ret' = [ret EXCEPT ![g] = [n |-> n, err |-> err]]

\* A leaf returns.
Answer(g, n, err) ==
  /\ Return(g, n, err)
  /\ asked' = [asked EXCEPT ![g] = Append(@, Top(g).ws.name)]
  /\ failed' = [failed EXCEPT ![g] = @ \union err]

-----------------------------------------------------------------------------
(***************************************************************************)
(* The leaves.                                                             *)
(***************************************************************************)

\* One more byte; the last one ends the write.
WriteByte(g) ==
  LET n == Top(g).n + 1 IN
  /\ In(g, {"file", "wrapper"}) /\ method[g] = "write"
  /\ n <= Len(mem[arg[g]])
  /\ file' = [file EXCEPT ![Top(g).ws.name] = Append(@, mem[arg[g]][n])]
  /\ IF n = Len(mem[arg[g]])
       THEN Answer(g, n, {})
       ELSE /\ stack' = [stack EXCEPT ![g] = Append(Front(@), [Top(g) EXCEPT !.n = n])]
            /\ UNCHANGED <<ret, asked, failed>>
  /\ UNCHANGED <<out, mem, holder, method, arg, fails>>

SyncFile(g) ==
  /\ In(g, {"file"}) /\ method[g] = "sync"
  /\ Answer(g, 0, {})
  /\ UNCHANGED <<out, mem, file, holder, method, arg, fails>>

\* A short write, or a failed sync.
LeafFails(g) ==
  /\ In(g, {"file"}) \/ (In(g, {"wrapper"}) /\ method[g] = "write")
  /\ fails < MaxFails
  /\ fails' = fails + 1
  /\ Answer(g, Top(g).n, {Top(g).ws.name})
  /\ UNCHANGED <<out, mem, file, holder, method, arg>>

\* writerWrapper.Sync
SyncNothing(g) ==
  /\ In(g, {"wrapper"}) /\ method[g] = "sync"
  /\ Return(g, 0, {})
  /\ UNCHANGED <<out, mem, file, holder, method, arg, fails, asked, failed>>

-----------------------------------------------------------------------------
(***************************************************************************)
(* lockedWriteSyncer.                                                      *)
(***************************************************************************)

\* Mutant of MayLock: the mutex is not looked at.
MayAlwaysLock(m) == TRUE

MayLock(m) == holder[m] = NIL

Acquire(g) ==
  /\ In(g, {"lock"}) /\ Top(g).i = 0
  /\ MayLock(Top(g).ws.name)
  /\ holder' = [holder EXCEPT ![Top(g).ws.name] = g]
  /\ stack' = [stack EXCEPT ![g] =
                 Front(@) \o <<[Top(g) EXCEPT !.i = 1], Frame(Top(g).ws.ws[1])>>]
  /\ UNCHANGED <<out, mem, file, method, arg, ret, fails, asked, failed>>

\* Mutant of Unlocked: the mutex stays locked if the call has failed.
UnlockedIfOk(g) ==
  IF ret[g].err = {} THEN [holder EXCEPT ![Top(g).ws.name] = NIL] ELSE holder

\* Mutant of Unlocked: only Write unlocks, and Sync does not.
UnlockedByWrite(g) ==
  IF method[g] = "write" THEN [holder EXCEPT ![Top(g).ws.name] = NIL] ELSE holder

Unlocked(g) == [holder EXCEPT ![Top(g).ws.name] = NIL]

\* Unlock, and return what the locked WriteSyncer has returned.
Release(g) ==
  /\ In(g, {"lock"}) /\ Top(g).i = 1
  /\ holder' = Unlocked(g)
  /\ Return(g, ret[g].n, ret[g].err)
  /\ UNCHANGED <<out, mem, file, method, arg, fails, asked, failed>>

-----------------------------------------------------------------------------
(***************************************************************************)
(* multiWriteSyncer.                                                       *)
(***************************************************************************)

\* The two ifs on nWritten.
Counted(nWritten, n) ==
  IF nWritten = 0 /\ n # 0 THEN n ELSE IF n < nWritten THEN n ELSE nWritten

\* The frame with the answer of the last call, if there was one.
Collected(g) ==
  IF Top(g).i = 0 THEN Top(g)
  ELSE [Top(g) EXCEPT !.n = Counted(@, ret[g].n), !.err = @ \union ret[g].err]

\* Mutant of CallsNext: the first error ends the loop.
CallsNextIfOk(t) == t.i < Len(t.ws.ws) /\ t.err = {}

CallsNext(t) == t.i < Len(t.ws.ws)

\* The loop: call the next WriteSyncer, or return.
MultiNext(g) ==
  LET t == Collected(g) IN
  /\ In(g, {"multi"})
  /\ IF CallsNext(t)
       THEN /\ stack' = [stack EXCEPT ![g] =
                  Front(@) \o <<[t EXCEPT !.i = @ + 1], Frame(t.ws.ws[t.i + 1])>>]
            /\ UNCHANGED ret
       ELSE Return(g, t.n, t.err)
  /\ UNCHANGED <<out, mem, file, holder, method, arg, fails, asked, failed>>

Walk(g) ==
  \/ WriteByte(g) \/ SyncFile(g) \/ LeafFails(g) \/ SyncNothing(g)
  \/ Acquire(g) \/ Release(g)
  \/ MultiNext(g)
=============================================================================
