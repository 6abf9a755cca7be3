------------------------------- MODULE Logger -------------------------------
(***************************************************************************)
(* A Logger (nanozap.go): goroutines log through the ring; one background  *)
(* goroutine, the write loop, takes the messages out, lets the core check  *)
(* their level, writes them and carries out what Panic and Fatal ask for;  *)
(* the application changes the level, syncs and closes.                    *)
(*                                                                         *)
(* The producers and TryPop are those of RandRing.  This module puts the   *)
(* write loop around TryPop and adds ioCore (zapcore/core.go), the         *)
(* CheckedEntry (zapcore/entry.go) and the AtomicLevel (level.go).  The    *)
(* WriteSyncer under the core is external: a write or a sync of it         *)
(* succeeds or fails.  sync.Pool may lose its bodies at any time in        *)
(* RandRing; that makes no difference here and is left out.                *)
(***************************************************************************)
EXTENDS RandRing, LevelText

CONSTANTS
  LevelOf,   \* the level of each call, a Level of zapcore
  Levels,    \* the levels the application may ask for
  Texts,     \* the texts it may give for a level
  MaxSets    \* bound: how often it does

ASSUME LevelAssumption ==
  /\ LevelOf \in [Calls -> DebugLevel..FatalLevel]
  /\ Levels \subseteq NamedLevels
  /\ Texts \subseteq [word : STRING, letters : Letters]
  /\ MaxSets \in Nat

VARIABLES
  level,    \* the AtomicLevel
  sets,     \* how often the level was set so far
  loop,     \* where the write loop is; TryPop is the stage "pop"
  ce,       \* the CheckedEntry: in use, or as it lies in _cePool
  closer,   \* the goroutine that calls Close
  process,  \* "running" until a panic has unwound its goroutine or os.Exit(1)
  out,      \* the calls written to the WriteSyncer, in order
  synced    \* how many of them a Sync has covered

\* History: the calls whose level was not enabled when they were checked, and
\* those whose write, or sync after the write, failed.
VARIABLES skipped, failed

appVars  == <<level, sets, closer>>
coreVars == <<out, synced, skipped, failed>>
consRing == <<writeIndexCache, readIndex, cpc, popped, delivered>>
allVars  == <<vars, loop, ce, process, appVars, coreVars>>

\* Level.Enabled: at or above the minimum.
Enabled(lvl) == lvl >= level

\* The message in the write loop's hands.
Popped == content[popped]

\* A CheckedEntry as New of _cePool makes it.
NewEntry == [dirty |-> FALSE, should |-> "noop", cores |-> FALSE]

\* Mutant of Reset: the dirty flag is left as it was.
ResetButDirty(e) == [e EXCEPT !.should = "noop", !.cores = FALSE]

\* CheckedEntry.reset of an entry e from the pool.
Reset(e) == [e EXCEPT !.dirty = FALSE, !.should = "noop", !.cores = FALSE]

\* Mutant of ShouldDo: the terminal action depends on the level being enabled.
ShouldDoIfEnabled(lvl) ==
  IF ~Enabled(lvl) THEN "noop"
  ELSE IF lvl = PanicLevel THEN "panic"
  ELSE IF lvl = FatalLevel THEN "fatal" ELSE "noop"

\* Logger.check: the terminal behaviour of a level.
ShouldDo(lvl) ==
  IF lvl = PanicLevel THEN "panic"
  ELSE IF lvl = FatalLevel THEN "fatal" ELSE "noop"

\* Mutant of SyncsAfter: only Fatal messages are synced.
SyncsAfterFatal(lvl) == lvl > PanicLevel

\* ioCore.Write: "we may be crashing the program".
SyncsAfter(lvl) == lvl > ErrorLevel

LoggerInit ==
  /\ Init
  /\ level \in Levels
  /\ sets = 0
  /\ loop = "select"
  /\ ce = NewEntry
  /\ closer = "open"
  /\ process = "running"
  /\ out = <<>>
  /\ synced = 0
  /\ skipped = {}
  /\ failed = {}

-----------------------------------------------------------------------------
(***************************************************************************)
(* The callers.                                                            *)
(***************************************************************************)

\* Info ... Fatal take a body at once, Debug and Debugf only if enabled.
Call(p) ==
  /\ GetBody(p)
  /\ LevelOf[<<p, calls'[p]>>] = DebugLevel => Enabled(DebugLevel)
  /\ UNCHANGED <<loop, ce, process, appVars, coreVars>>

\* Debug, not enabled: the call returns early.
SkipDebug(p) ==
  /\ pc[p] = "idle"
  /\ calls[p] < MaxCalls[p]
  /\ calls' = [calls EXCEPT ![p] = @ + 1]
  /\ LevelOf[<<p, calls'[p]>>] = DebugLevel
  /\ ~Enabled(DebugLevel)
  /\ UNCHANGED <<ringVars, pool, content, pc, hand, ticket, consVars, hist,
                 loop, ce, process, appVars, coreVars>>

\* The rest of the call.
PushOn(p) ==
  /\ InCall(p)
  /\ UNCHANGED <<loop, ce, process, appVars, coreVars>>

-----------------------------------------------------------------------------
(***************************************************************************)
(* The write loop.                                                         *)
(***************************************************************************)

\* Mutant of Cancelled: the loop does not look at its context.
NeverCancelled == FALSE

\* ctx.Done() is closed.
Cancelled == closer # "open"

\* select: return if the context is done, else try to pop.
LoopSelect ==
  /\ loop = "select"
  /\ loop' = IF Cancelled THEN "done" ELSE "pop"
  /\ UNCHANGED <<vars, ce, process, appVars, coreVars>>

\* log.ring.TryPop()
LoopPop ==
  /\ loop = "pop"
  /\ Reload \/ Take
  /\ loop' = IF cpc' = "write" THEN "check" ELSE "pop"
  /\ UNCHANGED <<ce, process, appVars, coreVars>>

\* time.Sleep, continue
LoopSleep ==
  /\ loop = "pop"
  /\ Wake
  /\ loop' = "select"
  /\ UNCHANGED <<ce, process, appVars, coreVars>>

\* log.check: the core takes the entry if its level is enabled now; Panic and
\* Fatal get an entry even if it is not.
LoopCheck ==
  LET lvl == LevelOf[Popped]
      new == Enabled(lvl) \/ ShouldDo(lvl) # "noop" IN
  /\ loop = "check"
  /\ Deliver
  /\ ce' = IF new THEN [Reset(ce) EXCEPT !.cores = Enabled(lvl),
                                         !.should = ShouldDo(lvl)]
                  ELSE ce
  /\ loop' = IF new THEN "write" ELSE "free"
  /\ skipped' = IF Enabled(lvl) THEN skipped ELSE skipped \union {Popped}
  /\ UNCHANGED <<process, appVars, out, synced, failed>>

\* ce.Write: nothing if the entry is dirty, and then it is not put back, so
\* that the next one is new; else its core, if any, encodes and writes.
\* ioCore.Write syncs after a message above ErrorLevel, but returns early when
\* the write fails.
LoopWrite ==
  /\ loop = "write"
  /\ ce' = IF ce.dirty THEN NewEntry ELSE [ce EXCEPT !.dirty = TRUE]
  /\ \/ /\ ce.dirty \/ ~ce.cores
        /\ loop' = IF ce.dirty THEN "free" ELSE "act"
        /\ UNCHANGED <<out, failed>>
     \/ /\ ~ce.dirty /\ ce.cores
        /\ out' = Append(out, Popped)
        /\ loop' = IF SyncsAfter(LevelOf[Popped]) THEN "sync" ELSE "act"
        /\ UNCHANGED failed
     \/ /\ ~ce.dirty /\ ce.cores
        /\ failed' = failed \union {Popped}
        /\ loop' = "act"
        /\ UNCHANGED out
  /\ UNCHANGED <<vars, process, appVars, synced, skipped>>

\* c.Sync() in ioCore.Write; its error is ignored.
LoopSync ==
  /\ loop = "sync"
  /\ loop' = "act"
  /\ \/ synced' = Len(out) /\ UNCHANGED failed
     \/ failed' = failed \union {Popped} /\ UNCHANGED synced
  /\ UNCHANGED <<vars, ce, process, appVars, out, skipped>>

\* The end of ce.Write: panic(msg), os.Exit(1) or nothing.  os.Exit ends the
\* process at once; a panic first unwinds writeLoop, whose deferred calls tell
\* loopWg that the loop is gone.
LoopAct ==
  /\ loop = "act"
  /\ loop' = IF ce.should = "panic" THEN "unwound" ELSE "free"
  /\ process' = IF ce.should = "fatal" THEN "exited" ELSE "running"
  /\ UNCHANGED <<vars, ce, appVars, coreVars>>

\* Nobody has recovered: the panic ends the process.
LoopCrash ==
  /\ loop = "unwound"
  /\ process' = "panicked"
  /\ UNCHANGED <<vars, loop, ce, appVars, coreVars>>

\* lb.free()
LoopFree ==
  /\ loop = "free"
  /\ Release
  /\ loop' = "select"
  /\ UNCHANGED <<ce, process, appVars, coreVars>>

WriteLoop ==
  \/ LoopSelect \/ LoopPop \/ LoopSleep \/ LoopCheck
  \/ LoopWrite \/ LoopSync \/ LoopAct \/ LoopCrash \/ LoopFree

-----------------------------------------------------------------------------
(***************************************************************************)
(* The application.                                                        *)
(***************************************************************************)

\* AtomicLevel.SetLevel
SetLevel ==
  /\ sets < MaxSets
  /\ sets' = sets + 1
  /\ level' \in Levels
  /\ UNCHANGED <<vars, loop, ce, process, closer, coreVars>>

\* AtomicLevel.UnmarshalText: an unknown text is an error and sets nothing.
UnmarshalText(text) ==
  /\ sets < MaxSets
  /\ sets' = sets + 1
  /\ IF Unmarshaled(text) = {} THEN UNCHANGED level ELSE level' \in Unmarshaled(text)
  /\ UNCHANGED <<vars, loop, ce, process, closer, coreVars>>

\* Logger.Sync: the core's Sync, which is the WriteSyncer's.
AppSync ==
  /\ synced' = Len(out)
  /\ UNCHANGED <<vars, loop, ce, process, appVars, out, skipped, failed>>

\* Close: loopCancel() ...
Cancel ==
  /\ closer = "open"
  /\ closer' = "waiting"
  /\ UNCHANGED <<vars, loop, ce, process, level, sets, coreVars>>

\* Mutant of LoopGone: Close does not wait for the loop.
DoNotWait == TRUE

\* loopWg.Wait() is over: the loop has returned, or panicked.
LoopGone == loop \in {"done", "unwound"}

\* ... and loopWg.Wait()
CloseReturn ==
  /\ closer = "waiting"
  /\ LoopGone
  /\ closer' = "closed"
  /\ UNCHANGED <<vars, loop, ce, process, level, sets, coreVars>>

-----------------------------------------------------------------------------

\* After a panic or an exit nothing runs.
LoggerNext ==
  /\ process = "running"
  /\ \/ \E p \in Producers : Call(p) \/ SkipDebug(p) \/ PushOn(p)
     \/ WriteLoop
     \/ SetLevel \/ \E text \in Texts : UnmarshalText(text)
     \/ AppSync \/ Cancel \/ CloseReturn

LoggerSpec == LoggerInit /\ [][LoggerNext]_allVars

Running(A) == process = "running" /\ A

\* Goroutines that can run are scheduled; nobody has to call anything.
ProducersFair == \A p \in Producers : WF_allVars(Running(PushOn(p)))
LoopFair == WF_allVars(Running(WriteLoop))
CloserFair == WF_allVars(Running(CloseReturn))

\* Only the callers are scheduled for sure: the write loop may be stuck in its
\* core.  What needs more fairness says so itself.
CallersFairSpec == LoggerSpec /\ ProducersFair

LoggerFairSpec == LoggerSpec /\ ProducersFair /\ LoopFair /\ CloserFair

-----------------------------------------------------------------------------
(***************************************************************************)
(* Properties                                                              *)
(***************************************************************************)

LoggerTypeOK ==
  /\ TypeOK
  /\ level \in NamedLevels
  /\ sets \in 0..MaxSets
  /\ loop \in {"select", "pop", "check", "write", "sync", "act", "free", "done",
              "unwound"}
  /\ ce \in [dirty : BOOLEAN, should : {"noop", "panic", "fatal"},
             cores : BOOLEAN]
  /\ closer \in {"open", "waiting", "closed"}
  /\ process \in {"running", "panicked", "exited"}
  /\ out \in Seq(Calls)
  /\ synced \in 0..Len(out)
  /\ skipped \in SUBSET Calls
  /\ failed \in SUBSET Calls

ToSet(s) == {s[i] : i \in DOMAIN s}

\* Once the write loop is done with a message the core took, the message was
\* written or its write failed: no stale state of the pooled CheckedEntry
\* makes ce.Write return early (entry.go:111-113).
NoSilentDrop ==
  LET done == IF loop = "write" THEN ToSet(delivered) \ {Popped}
                                ELSE ToSet(delivered) IN
  done \subseteq ToSet(out) \union skipped \union failed

\* "Close close Logger background loop" (nanozap.go:62): when Close has
\* returned, no message reaches the core, nothing is written and os.Exit is not
\* called any more, although callers may still push.  Only a Panic message whose
\* write was over before Close returned may still end the process, because the
\* deferred loopWg.Done() lets Close go before the panic is through.
QuietAfterClose ==
  [][closer = "closed" =>
       /\ UNCHANGED <<delivered, out>>
       /\ process' \in {process, "panicked"}]_allVars

\* The process ends only on behalf of a message of the fitting level, and if
\* its level was enabled and neither write nor sync failed, that message and
\* everything written before it are synced (core.go:84-89).
CrashIsLogged ==
  process # "running" =>
    /\ LevelOf[Popped] = IF process = "panicked" THEN PanicLevel ELSE FatalLevel
    /\ Popped \in skipped \union failed
         \/ (synced = Len(out) /\ out[Len(out)] = Popped)

\* "It uses the same text representations as the static zapcore.Levels"
\* (level.go:105): a level that is configured by the text of a Level, as any of
\* the encoders writes it or in any letters, is that level; no text at all is
\* InfoLevel, and a text that names none leaves the level alone.
TextSetsLevel ==
  [][\A text \in Texts : UnmarshalText(text) =>
       IF text.word \in {Word(l) : l \in NamedLevels}
         THEN ToLower(text) \in {String(level'), ToLower(CapitalString(level'))}
         ELSE level' = IF text.word = "" THEN InfoLevel ELSE level]_allVars

\* "wait-free log write" (README.md:19): a caller never waits for the ring; its
\* call ends even if the write loop has ended or does not run at all.
PushNeverWaits ==
  \A p \in Producers : pc[p] # "idle" ~> (pc[p] = "idle" \/ process # "running")

\* If the write loop is scheduled, Close returns or the process ends first.
CloseReturns ==
  LoopFair /\ CloserFair =>
    (closer = "waiting" ~> (closer = "closed" \/ process # "running"))

\* "The logger then calls os.Exit(1), even if logging at FatalLevel is
\* disabled" (nanozap.go:201) holds for a message that the write loop popped,
\* if the loop is scheduled.
PoppedFatalEnds ==
  LoopFair =>
    \A c \in {d \in Calls : LevelOf[d] >= PanicLevel} :
      c \in ToSet(delivered) ~> process # "running"

\* The same sentence, read as it stands: for every call of Fatal.
FatalEnds ==
  \A p \in Producers : \A k \in 1..MaxCalls[p] : LevelOf[<<p, k>>] = FatalLevel =>
    (calls[p] >= k ~> process # "running")
=============================================================================
