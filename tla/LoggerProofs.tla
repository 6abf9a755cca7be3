---------------------------- MODULE LoggerProofs ----------------------------
(***************************************************************************)
(* Theorems about Logger for every number of producers, bodies and buckets,*)
(* every assignment of levels to the calls and every change of the level.  *)
(***************************************************************************)
EXTENDS Logger, RandRingProofs

(***************************************************************************)
(* The inductive invariant.  What the write loop has done with a message   *)
(* depends on where it is, on the CheckedEntry it got from the pool and on *)
(* the message still being in the body that it popped.                     *)
(***************************************************************************)

\* TryPop, and what the ring's consumer does after it, at the write loop's
\* stages.
StagesMatch ==
  /\ loop \in {"select", "done"} => cpc = "poll"
  /\ loop = "pop" => cpc \in {"poll", "sleep"}
  /\ loop = "check" => cpc = "write"
  /\ loop \in {"write", "sync", "act", "free", "unwound"} =>
       cpc = "free" /\ Popped \in Calls

\* From check to the end of ce.Write the entry is that of the message popped,
\* and it is clean when ce.Write begins.
EntryMatches ==
  /\ loop = "write" => ~ce.dirty /\ (ce.cores \/ Popped \in skipped)
  /\ loop \in {"write", "sync", "act"} => ce.should = ShouldDo(LevelOf[Popped])
  /\ loop = "unwound" => LevelOf[Popped] = PanicLevel

IsLast(c) == out # <<>> /\ out[Len(out)] = c

\* Where ioCore.Write is with the message; a panic unwinds after it.
WrittenSoFar ==
  /\ loop = "sync" => IsLast(Popped)
  /\ loop \in {"act", "unwound"} =>
       \/ Popped \in skipped \union failed
       \/ IsLast(Popped) /\ (SyncsAfter(LevelOf[Popped]) => synced = Len(out))

ClosedMeansGone == closer = "closed" => loop \in {"done", "unwound"}

RingInv == IInv /\ DInv /\ QInv

LInv ==
  /\ LoggerTypeOK
  /\ StagesMatch
  /\ EntryMatches
  /\ WrittenSoFar
  /\ ClosedMeansGone
  /\ NoSilentDrop
  /\ CrashIsLogged

-----------------------------------------------------------------------------
(***************************************************************************)
(* The ring inside the Logger.                                             *)
(***************************************************************************)

LEMMA RingStep == ASSUME RingInv, [Next]_vars PROVE RingInv'
  BY NextIInv, NextDInv, NextQInv DEF RingInv

\* The one step of a caller that the ring does not know: Debug returns early.
LEMMA SkipDebugRing ==
  ASSUME RingInv, NEW p \in Producers, SkipDebug(p) PROVE RingInv'
<1> USE DEF RingInv, ringVars, consVars, hist
<1>1. /\ pc[p] = "idle"
      /\ calls' = [calls EXCEPT ![p] = @ + 1]
      /\ UNCHANGED <<buckets, writeIndex, writeIndexCache, readIndex, pool, content,
                     pc, hand, ticket, cpc, popped, claimed, delivered, flooded>>
  BY DEF SkipDebug
<1>2. IInv'
  <2>1. calls[p] < MaxCalls[p]
    BY DEF SkipDebug
  <2>2. \A q \in Producers : calls[q] \in Nat /\ MaxCalls[q] \in Nat
    BY RingAssumption DEF IInv, TypeOK
  <2>3. \A q \in Producers : calls'[q] = IF q = p THEN calls[p] + 1 ELSE calls[q]
    BY <1>1 DEF IInv, TypeOK
  <2>4. /\ calls' \in [Producers -> Nat]
        /\ \A q \in Producers : calls'[q] <= MaxCalls[q]
    BY <1>1, <2>1, <2>2, <2>3, SMTT(30) DEF IInv, TypeOK
  <2>5. TypeOK'
    BY <1>1, <2>4 DEF IInv, TypeOK
  <2>6. HandsMatchStages' /\ Disjoint'
    BY <1>1 DEF IInv, HandsMatchStages, Disjoint
  <2>7. ContentIsCall'
    BY <1>1, <2>3 DEF IInv, ContentIsCall
  <2> QED
    BY <2>5, <2>6, <2>7 DEF IInv
<1>3. \A q \in Producers : pc[q] # "idle" => calls'[q] = calls[q]
  BY <1>1 DEF IInv, TypeOK
<1>4. DInv'
  <2>1. Claimed' = Claimed /\ Delivered' = Delivered
    BY <1>1 DEF Claimed, Delivered
  <2>2. \A b \in Bodies : Live(b)' = Live(b)
    BY <1>1 DEF Live
  <2>3. LiveIsFresh' /\ AtMostOnce'
    BY <1>1, <2>1, <2>2 DEF DInv, LiveIsFresh, AtMostOnce
  <2>4. \A q \in Producers : calls[q] \in Nat /\ calls'[q] \in Nat /\ calls'[q] >= calls[q]
    BY <1>1 DEF IInv, TypeOK
  <2>5. TicketsFollowCalls'
    BY <1>1, <1>3, <2>1, <2>4 DEF DInv, TicketsFollowCalls
  <2> QED
    BY <2>3, <2>5 DEF DInv
<1>5. QInv'
  BY <1>1, <1>3, QuietStep
<1> QED
  BY <1>2, <1>4, <1>5

LEMMA RingInductive ==
  ASSUME RingInv, [LoggerNext]_allVars PROVE RingInv'
<1>1. ASSUME NEW p \in Producers, Call(p) \/ PushOn(p) PROVE RingInv'
  BY <1>1, RingStep DEF Call, PushOn, InCall, Push, Next
<1>2. ASSUME NEW p \in Producers, SkipDebug(p) PROVE RingInv'
  BY <1>2, SkipDebugRing
<1>3. CASE LoopPop \/ LoopSleep \/ LoopCheck \/ LoopFree
  BY <1>3, RingStep DEF LoopPop, LoopSleep, LoopCheck, LoopFree, Consumer, Next
<1>4. CASE LoopSelect \/ LoopWrite \/ LoopSync \/ LoopAct \/ LoopCrash
  BY <1>4, RingStep DEF LoopSelect, LoopWrite, LoopSync, LoopAct, LoopCrash
<1>5. CASE SetLevel \/ (\E text \in Texts : UnmarshalText(text)) \/ AppSync
             \/ Cancel \/ CloseReturn
  BY <1>5, RingStep DEF SetLevel, UnmarshalText, AppSync, Cancel, CloseReturn
<1>6. CASE UNCHANGED allVars
  BY <1>6, RingStep DEF allVars
<1> QED
  BY <1>1, <1>2, <1>3, <1>4, <1>5, <1>6 DEF LoggerNext, WriteLoop

-----------------------------------------------------------------------------
(***************************************************************************)
(* Levels and the CheckedEntry.                                            *)
(***************************************************************************)

LEMMA UnmarshaledIsLevel == \A text : Unmarshaled(text) \subseteq NamedLevels
<1>1. InfoLevel \in NamedLevels
  BY DEF NamedLevels, DebugLevel, InfoLevel, FatalLevel
<1>2. \A text : Exactly(text) \subseteq NamedLevels
  BY <1>1, Zenon DEF Exactly
<1> QED
  BY <1>2, Zenon DEF Unmarshaled

\* What ShouldDo asks for tells the level, and such a message is synced.
LEMMA ShouldDoTells ==
  ASSUME NEW lvl \in NamedLevels
  PROVE  /\ ShouldDo(lvl) \in {"noop", "panic", "fatal"}
         /\ ShouldDo(lvl) = "panic" => lvl = PanicLevel /\ SyncsAfter(lvl)
         /\ ShouldDo(lvl) = "fatal" => lvl = FatalLevel /\ SyncsAfter(lvl)
  BY DEF ShouldDo, SyncsAfter, NamedLevels, DebugLevel, ErrorLevel, PanicLevel,
     FatalLevel

LEMMA LevelOfCall == ASSUME NEW c \in Calls PROVE LevelOf[c] \in NamedLevels
  BY LevelAssumption DEF NamedLevels

LEMMA ToSetAppend ==
  ASSUME NEW s \in Seq(Calls), NEW c \in Calls
  PROVE  ToSet(Append(s, c)) = ToSet(s) \union {c}
  BY AppendAdds DEF ToSet

-----------------------------------------------------------------------------

LEMMA InitLInv == LoggerInit => RingInv /\ LInv
<1> SUFFICES ASSUME LoggerInit PROVE RingInv /\ LInv
  OBVIOUS
<1>1. RingInv
  BY InitIInv, InitDInv, InitQInv DEF LoggerInit, RingInv
<1>2. LoggerTypeOK
  <2>1. level \in NamedLevels /\ sets \in 0..MaxSets
    BY LevelAssumption DEF LoggerInit
  <2>2. out \in Seq(Calls) /\ synced \in 0..Len(out)
    BY DEF LoggerInit
  <2> QED
    BY <1>1, <2>1, <2>2 DEF LoggerInit, LoggerTypeOK, NewEntry, RingInv, IInv
<1>3. StagesMatch /\ EntryMatches /\ WrittenSoFar /\ ClosedMeansGone
  BY DEF LoggerInit, Init, StagesMatch, EntryMatches, WrittenSoFar, ClosedMeansGone
<1>4. NoSilentDrop /\ CrashIsLogged
  BY DEF LoggerInit, Init, NoSilentDrop, CrashIsLogged, ToSet
<1> QED
  BY <1>1, <1>2, <1>3, <1>4 DEF LInv

\* While the write loop owns a body no caller changes its message.
LEMMA PoppedKept ==
  ASSUME RingInv, NEW p \in Producers, Push(p), popped # NIL
  PROVE  popped' = popped /\ Popped' = Popped
<1> USE DEF RingInv, IInv, consVars, Popped
<1>1. popped' = popped
  BY DEF Push, GetBody, Fill, Claim, Swap, FreeOld
<1>2. popped \in Bodies
  BY DEF TypeOK
<1>3. CASE GetBody(p)
  <2>1. PICK b \in pool \union Unallocated : content' = [content EXCEPT ![b] = NIL]
    BY <1>3 DEF GetBody
  <2>2. b # popped
    BY FreshBody
  <2> QED
    BY <1>1, <1>2, <2>1, <2>2 DEF TypeOK
<1>4. CASE Fill(p)
  BY <1>1, <1>2, <1>4 DEF Fill, TypeOK, Disjoint
<1>5. CASE Claim(p) \/ Swap(p) \/ FreeOld(p)
  BY <1>1, <1>5 DEF Claim, Swap, FreeOld
<1> QED
  BY <1>3, <1>4, <1>5 DEF Push

\* A step of a caller.
LEMMA CallerStep ==
  ASSUME LInv, RingInv, RingInv', process = "running", NEW p \in Producers,
         Call(p) \/ SkipDebug(p) \/ PushOn(p)
  PROVE  LInv'
<1> USE DEF LInv, appVars, coreVars
<1>1. UNCHANGED <<loop, ce, process, level, sets, closer, out, synced, skipped,
                  failed, cpc, popped, delivered>>
  BY DEF Call, SkipDebug, PushOn, InCall, GetBody, Fill, Claim, Swap, FreeOld,
     consVars, hist
<1>2. LoggerTypeOK'
  BY <1>1 DEF LoggerTypeOK, RingInv, IInv
<1>3. loop \in {"check", "write", "sync", "act", "free", "unwound"} =>
        Popped' = Popped
  <2>1. SkipDebug(p) => Popped' = Popped
    BY <1>1 DEF SkipDebug, Popped
  <2>2. Call(p) \/ PushOn(p) => Push(p)
    BY DEF Call, PushOn, InCall, Push
  <2>3. loop \in {"check", "write", "sync", "act", "free", "unwound"} =>
          popped # NIL
    BY DEF StagesMatch, RingInv, IInv, HandsMatchStages
  <2> QED
    BY <2>1, <2>2, <2>3, PoppedKept
<1>4. StagesMatch' /\ EntryMatches' /\ WrittenSoFar' /\ ClosedMeansGone'
  BY <1>1, <1>3 DEF StagesMatch, EntryMatches, WrittenSoFar, ClosedMeansGone, IsLast
<1>5. NoSilentDrop'
  BY <1>1, <1>3 DEF NoSilentDrop
<1>6. CrashIsLogged'
  BY <1>1 DEF CrashIsLogged
<1> QED
  BY <1>2, <1>4, <1>5, <1>6

-----------------------------------------------------------------------------
(***************************************************************************)
(* The write loop.                                                         *)
(***************************************************************************)

\* The loop moves on between two messages.
LEMMA IdleLoopStep ==
  ASSUME LInv, RingInv', process = "running",
         LoopSelect \/ LoopPop \/ LoopSleep \/ LoopFree
  PROVE  LInv'
<1> USE DEF LInv, appVars, coreVars
<1>1. /\ UNCHANGED <<ce, process, level, sets, closer, out, synced, skipped,
                     failed, delivered, content>>
      /\ loop \in {"select", "pop", "free"}
      /\ loop' \in {"select", "pop", "check", "done"}
  BY DEF LoopSelect, LoopPop, LoopSleep, LoopFree, Reload, Take, Wake, Release,
     vars, hist
<1>2. LoggerTypeOK'
  BY <1>1 DEF LoggerTypeOK, RingInv, IInv
<1>3. StagesMatch'
  <2>1. CASE LoopSelect
    BY <2>1 DEF LoopSelect, StagesMatch, vars, consVars
  <2>2. CASE LoopPop
    BY <2>2 DEF LoopPop, Reload, Take, StagesMatch
  <2>3. CASE LoopSleep
    BY <2>3 DEF LoopSleep, Wake, StagesMatch
  <2>4. CASE LoopFree
    BY <2>4 DEF LoopFree, Release, StagesMatch
  <2> QED
    BY <2>1, <2>2, <2>3, <2>4
<1>4. EntryMatches' /\ WrittenSoFar'
  BY <1>1 DEF EntryMatches, WrittenSoFar
<1>5. ClosedMeansGone'
  BY <1>1 DEF ClosedMeansGone
<1>6. NoSilentDrop'
  BY <1>1 DEF NoSilentDrop
<1>7. CrashIsLogged'
  BY <1>1 DEF CrashIsLogged
<1> QED
  BY <1>2, <1>3, <1>4, <1>5, <1>6, <1>7

LEMMA LoopCheckStep ==
  ASSUME LInv, RingInv, RingInv', process = "running", LoopCheck PROVE LInv'
<1> USE DEF LInv, appVars
<1> DEFINE lvl == LevelOf[Popped]
           new == Enabled(lvl) \/ ShouldDo(lvl) # "noop"
<1>1. /\ loop = "check" /\ cpc = "write" /\ cpc' = "free"
      /\ delivered' = Append(delivered, Popped)
      /\ UNCHANGED <<process, level, sets, closer, out, synced, failed, content,
                     popped>>
  BY DEF LoopCheck, Deliver, Popped
<1>2. Popped \in Calls /\ lvl \in NamedLevels
  BY <1>1, LevelOfCall DEF RingInv, IInv, ContentIsCall, Popped
<1>3. Popped' = Popped
  BY <1>1 DEF Popped
<1>4. /\ ce' = IF new THEN [Reset(ce) EXCEPT !.cores = Enabled(lvl),
                                             !.should = ShouldDo(lvl)]
                      ELSE ce
      /\ loop' = IF new THEN "write" ELSE "free"
      /\ skipped' = IF Enabled(lvl) THEN skipped ELSE skipped \union {Popped}
  BY DEF LoopCheck
<1>5. new => ce' = [dirty |-> FALSE, should |-> ShouldDo(lvl), cores |-> Enabled(lvl)]
  BY <1>4 DEF LoggerTypeOK, Reset
<1>6. Enabled(lvl) \in BOOLEAN
  BY DEF Enabled
<1> HIDE DEF lvl
<1>7. LoggerTypeOK'
  <2>1. ce' \in [dirty : BOOLEAN, should : {"noop", "panic", "fatal"}, cores : BOOLEAN]
    <3>1. CASE new
      <4>1. ShouldDo(lvl) \in {"noop", "panic", "fatal"}
        BY <1>2, ShouldDoTells
      <4>2. ce' = [dirty |-> FALSE, should |-> ShouldDo(lvl), cores |-> Enabled(lvl)]
        BY <1>5, <3>1
      <4>3. ASSUME NEW d \in BOOLEAN, NEW c \in BOOLEAN,
                   NEW s \in {"noop", "panic", "fatal"}
            PROVE  [dirty |-> d, should |-> s, cores |-> c]
                     \in [dirty : BOOLEAN, should : {"noop", "panic", "fatal"},
                          cores : BOOLEAN]
        OBVIOUS
      <4> QED
        BY <1>6, <4>1, <4>2, <4>3, Zenon
    <3>2. CASE ~new
      BY <1>4, <3>2 DEF LoggerTypeOK
    <3> QED
      BY <3>1, <3>2
  <2> QED
    BY <1>1, <1>2, <1>4, <2>1 DEF LoggerTypeOK, RingInv, IInv
<1>8. StagesMatch'
  BY <1>1, <1>2, <1>3, <1>4 DEF StagesMatch
<1>9. EntryMatches' /\ WrittenSoFar'
  BY <1>3, <1>4, <1>5 DEF EntryMatches, WrittenSoFar, lvl
<1>10. NoSilentDrop'
  <2>1. ToSet(delivered') = ToSet(delivered) \union {Popped}
    BY <1>1, <1>2, ToSetAppend DEF LoggerTypeOK, TypeOK
  <2>2. ToSet(delivered) \subseteq ToSet(out) \union skipped \union failed
    BY <1>1 DEF NoSilentDrop
  <2>3. loop' = "write" \/ Popped \in skipped'
    BY <1>4
  <2> QED
    BY <1>1, <1>3, <1>4, <2>1, <2>2, <2>3 DEF NoSilentDrop
<1>11. ClosedMeansGone' /\ CrashIsLogged'
  BY <1>1 DEF ClosedMeansGone, CrashIsLogged
<1> QED
  BY <1>7, <1>8, <1>9, <1>10, <1>11

\* What a message written last does to the output.
LEMMA AppendLast ==
  ASSUME NEW s \in Seq(Calls), NEW c \in Calls
  PROVE  /\ Append(s, c) \in Seq(Calls) /\ Append(s, c) # <<>>
         /\ Append(s, c)[Len(Append(s, c))] = c
         /\ Len(Append(s, c)) = Len(s) + 1 /\ Len(s) \in Nat
  OBVIOUS

LEMMA LoopWriteStep ==
  ASSUME LInv, RingInv', process = "running", LoopWrite PROVE LInv'
<1> USE DEF LInv, appVars
<1>1. /\ loop = "write" /\ cpc = "free" /\ ~ce.dirty
      /\ UNCHANGED <<process, level, sets, closer, synced, skipped, content, popped,
                     cpc, delivered>>
  BY DEF LoopWrite, StagesMatch, EntryMatches, vars, consVars, hist
<1>2. /\ Popped' = Popped /\ Popped \in Calls
      /\ ce.should = ShouldDo(LevelOf[Popped])
  BY <1>1 DEF Popped, StagesMatch, EntryMatches
<1>3. ce' = [ce EXCEPT !.dirty = TRUE]
  BY <1>1 DEF LoopWrite
<1>4. /\ ce'.should = ce.should
      /\ ce' \in [dirty : BOOLEAN, should : {"noop", "panic", "fatal"}, cores : BOOLEAN]
  BY <1>3 DEF LoggerTypeOK
<1>5. \/ Popped \in skipped /\ loop' = "act" /\ UNCHANGED <<out, failed>>
      \/ /\ out' = Append(out, Popped) /\ failed' = failed
         /\ loop' = IF SyncsAfter(LevelOf[Popped]) THEN "sync" ELSE "act"
      \/ out' = out /\ failed' = failed \union {Popped} /\ loop' = "act"
  BY <1>1 DEF LoopWrite, EntryMatches
<1>6. out' = Append(out, Popped) => IsLast(Popped)' /\ ToSet(out') = ToSet(out) \union {Popped}
  BY <1>2, AppendLast, ToSetAppend DEF LoggerTypeOK, IsLast
<1>7. LoggerTypeOK'
  <2>1. /\ Len(out) \in Nat /\ Append(out, Popped) \in Seq(Calls)
        /\ Len(Append(out, Popped)) = Len(out) + 1
    BY <1>2, AppendLast DEF LoggerTypeOK
  <2>2. out' \in Seq(Calls) /\ synced' \in 0..Len(out')
    <3>1. out' = out \/ out' = Append(out, Popped)
      BY <1>5
    <3> QED
      BY <1>1, <2>1, <3>1 DEF LoggerTypeOK
  <2>3. failed' \in SUBSET Calls
    BY <1>2, <1>5 DEF LoggerTypeOK
  <2> QED
    BY <1>1, <1>4, <1>5, <2>2, <2>3 DEF LoggerTypeOK, RingInv, IInv
<1>8. StagesMatch'
  BY <1>1, <1>2, <1>5 DEF StagesMatch
<1>9. EntryMatches'
  BY <1>1, <1>2, <1>4, <1>5 DEF EntryMatches
<1>10. WrittenSoFar'
  BY <1>1, <1>2, <1>5, <1>6 DEF WrittenSoFar
<1>11. NoSilentDrop'
  <2>1. Popped \in ToSet(out') \union skipped' \union failed'
    BY <1>1, <1>5, <1>6
  <2>2. ToSet(out) \union skipped \union failed
          \subseteq ToSet(out') \union skipped' \union failed'
    BY <1>1, <1>5, <1>6
  <2>3. ToSet(delivered) \ {Popped} \subseteq ToSet(out) \union skipped \union failed
    BY <1>1 DEF NoSilentDrop
  <2> QED
    BY <1>1, <1>5, <2>1, <2>2, <2>3 DEF NoSilentDrop
<1>12. ClosedMeansGone' /\ CrashIsLogged'
  BY <1>1 DEF ClosedMeansGone, CrashIsLogged
<1> QED
  BY <1>7, <1>8, <1>9, <1>10, <1>11, <1>12

LEMMA LoopSyncStep ==
  ASSUME LInv, RingInv', process = "running", LoopSync PROVE LInv'
<1> USE DEF LInv, appVars
<1>1. /\ loop = "sync" /\ loop' = "act" /\ cpc = "free"
      /\ UNCHANGED <<ce, process, level, sets, closer, out, skipped, content, popped,
                     cpc, delivered>>
  BY DEF LoopSync, StagesMatch, vars, consVars, hist
<1>2. \/ synced' = Len(out) /\ failed' = failed
      \/ synced' = synced /\ failed' = failed \union {Popped}
  BY DEF LoopSync
<1>3. Popped' = Popped /\ Popped \in Calls
  BY <1>1 DEF Popped, StagesMatch
<1>4. LoggerTypeOK'
  <2>1. Len(out) \in Nat
    BY DEF LoggerTypeOK
  <2>2. synced' \in 0..Len(out') /\ failed' \in SUBSET Calls
    BY <1>1, <1>2, <1>3, <2>1 DEF LoggerTypeOK
  <2> QED
    BY <1>1, <2>2 DEF LoggerTypeOK, RingInv, IInv
<1>5. StagesMatch' /\ EntryMatches'
  BY <1>1, <1>3 DEF StagesMatch, EntryMatches
<1>6. WrittenSoFar'
  BY <1>1, <1>2, <1>3 DEF WrittenSoFar, IsLast
<1>7. NoSilentDrop'
  BY <1>1, <1>2 DEF NoSilentDrop
<1>8. ClosedMeansGone' /\ CrashIsLogged'
  BY <1>1 DEF ClosedMeansGone, CrashIsLogged
<1> QED
  BY <1>4, <1>5, <1>6, <1>7, <1>8

\* What was written so far that all is synced if the entry asks for more.
LEMMA ActIsSynced ==
  ASSUME LInv, loop = "act", ce.should # "noop"
  PROVE  Popped \in skipped \union failed \/ (IsLast(Popped) /\ synced = Len(out))
<1>1. Popped \in Calls /\ ce.should = ShouldDo(LevelOf[Popped])
  BY DEF LInv, StagesMatch, EntryMatches
<1>2. SyncsAfter(LevelOf[Popped])
  BY <1>1, LevelOfCall, ShouldDoTells
<1> QED
  BY <1>2 DEF LInv, WrittenSoFar

\* os.Exit ends the process here; a panic is under way, or nothing is asked for.
LEMMA LoopActStep ==
  ASSUME LInv, RingInv', process = "running", LoopAct PROVE LInv'
<1> USE DEF LInv, appVars, coreVars
<1>1. /\ loop = "act" /\ cpc = "free"
      /\ UNCHANGED <<ce, level, sets, closer, out, synced, skipped, failed, content,
                     popped, cpc, delivered>>
  BY DEF LoopAct, StagesMatch, vars, consVars, hist
<1>2. /\ Popped' = Popped /\ Popped \in Calls /\ LevelOf[Popped] \in NamedLevels
      /\ ce.should = ShouldDo(LevelOf[Popped])
  BY <1>1, LevelOfCall DEF Popped, StagesMatch, EntryMatches
<1>3. \/ ce.should = "panic" /\ process' = "running" /\ loop' = "unwound"
      \/ ce.should = "fatal" /\ process' = "exited" /\ loop' = "free"
      \/ process' = "running" /\ loop' = "free"
  BY <1>1, <1>2 DEF LoopAct, LoggerTypeOK
<1>4. LoggerTypeOK'
  BY <1>1, <1>3 DEF LoggerTypeOK, RingInv, IInv
<1>5. loop' = "unwound" =>
        /\ LevelOf[Popped] = PanicLevel
        /\ Popped \in skipped \union failed \/ (IsLast(Popped) /\ synced = Len(out))
  BY <1>1, <1>2, <1>3, ActIsSynced, ShouldDoTells
<1>6. StagesMatch'
  BY <1>1, <1>2, <1>3 DEF StagesMatch
<1>7. EntryMatches'
  BY <1>1, <1>2, <1>3, <1>5 DEF EntryMatches
<1>8. WrittenSoFar'
  BY <1>1, <1>2, <1>3, <1>5 DEF WrittenSoFar, IsLast
<1>9. ClosedMeansGone' /\ NoSilentDrop'
  BY <1>1, <1>3 DEF ClosedMeansGone, NoSilentDrop
<1>10. CrashIsLogged'
  <2> SUFFICES ASSUME process' # "running" PROVE CrashIsLogged'
    BY DEF CrashIsLogged
  <2>1. ce.should = "fatal" /\ process' = "exited"
    BY <1>3
  <2>2. LevelOf[Popped] = FatalLevel
    BY <1>2, <2>1, ShouldDoTells
  <2>3. Popped \in skipped \union failed \/ (synced = Len(out) /\ out[Len(out)] = Popped)
    BY <1>1, <2>1, ActIsSynced DEF IsLast
  <2>4. UNCHANGED <<Popped, skipped, failed, synced, out>>
    BY <1>1, <1>2
  <2> QED
    BY <2>1, <2>2, <2>3, <2>4 DEF CrashIsLogged
<1> QED
  BY <1>4, <1>6, <1>7, <1>8, <1>9, <1>10

\* The panic is through.
LEMMA LoopCrashStep ==
  ASSUME LInv, RingInv', process = "running", LoopCrash PROVE LInv'
<1> USE DEF LInv, appVars, coreVars
<1>1. /\ loop = "unwound" /\ process' = "panicked"
      /\ UNCHANGED <<loop, ce, level, sets, closer, out, synced, skipped, failed,
                     content, popped, cpc, delivered, Popped>>
  BY DEF LoopCrash, vars, consVars, hist, Popped
<1>2. LoggerTypeOK'
  BY <1>1 DEF LoggerTypeOK, RingInv, IInv
<1>3. StagesMatch' /\ EntryMatches' /\ WrittenSoFar' /\ ClosedMeansGone'
  BY <1>1 DEF StagesMatch, EntryMatches, WrittenSoFar, IsLast, ClosedMeansGone
<1>4. NoSilentDrop'
  BY <1>1 DEF NoSilentDrop
<1>5. CrashIsLogged'
  <2>1. LevelOf[Popped] = PanicLevel
    BY <1>1 DEF EntryMatches
  <2>2. SyncsAfter(LevelOf[Popped])
    BY <2>1 DEF SyncsAfter, PanicLevel, ErrorLevel
  <2>3. Popped \in skipped \union failed \/ (synced = Len(out) /\ out[Len(out)] = Popped)
    BY <1>1, <2>2 DEF WrittenSoFar, IsLast
  <2> QED
    BY <1>1, <2>1, <2>3 DEF CrashIsLogged
<1> QED
  BY <1>2, <1>3, <1>4, <1>5

-----------------------------------------------------------------------------
(***************************************************************************)
(* The application.                                                        *)
(***************************************************************************)

LEMMA ApplicationStep ==
  ASSUME LInv, RingInv', process = "running",
         \/ SetLevel \/ (\E text \in Texts : UnmarshalText(text))
         \/ AppSync \/ Cancel \/ CloseReturn
  PROVE  LInv'
<1> USE DEF LInv, appVars, coreVars
<1>1. UNCHANGED <<vars, loop, ce, process, out, skipped, failed>>
  BY DEF SetLevel, UnmarshalText, AppSync, Cancel, CloseReturn
<1>2. UNCHANGED <<cpc, popped, content, delivered, Popped>>
  BY <1>1 DEF vars, consVars, hist, Popped
<1>3. Len(out) \in Nat
  BY DEF LoggerTypeOK
<1>4. synced' \in {synced, Len(out)}
  BY DEF SetLevel, UnmarshalText, AppSync, Cancel, CloseReturn
<1>5. LoggerTypeOK'
  <2>1. level' \in NamedLevels
    BY LevelAssumption, UnmarshaledIsLevel
    DEF SetLevel, UnmarshalText, AppSync, Cancel, CloseReturn, LoggerTypeOK
  <2>2. sets' \in 0..MaxSets
    <3>1. CASE SetLevel \/ \E text \in Texts : UnmarshalText(text)
      BY <3>1, LevelAssumption DEF SetLevel, UnmarshalText, LoggerTypeOK
    <3>2. CASE AppSync \/ Cancel \/ CloseReturn
      BY <3>2 DEF AppSync, Cancel, CloseReturn, LoggerTypeOK
    <3> QED
      BY <3>1, <3>2
  <2>3. closer' \in {"open", "waiting", "closed"}
    BY DEF SetLevel, UnmarshalText, AppSync, Cancel, CloseReturn, LoggerTypeOK
  <2> QED
    BY <1>1, <1>3, <1>4, <2>1, <2>2, <2>3 DEF LoggerTypeOK, RingInv, IInv
<1>6. StagesMatch' /\ EntryMatches'
  BY <1>1, <1>2 DEF StagesMatch, EntryMatches
<1>7. WrittenSoFar'
  BY <1>1, <1>2, <1>4 DEF WrittenSoFar, IsLast
<1>8. ClosedMeansGone'
  BY DEF SetLevel, UnmarshalText, AppSync, Cancel, CloseReturn, LoopGone,
     ClosedMeansGone
<1>9. NoSilentDrop'
  BY <1>1, <1>2 DEF NoSilentDrop
<1>10. CrashIsLogged'
  BY <1>1 DEF CrashIsLogged
<1> QED
  BY <1>5, <1>6, <1>7, <1>8, <1>9, <1>10

-----------------------------------------------------------------------------

LEMMA NextLInv ==
  ASSUME RingInv, LInv, [LoggerNext]_allVars PROVE RingInv' /\ LInv'
<1>1. RingInv'
  BY RingInductive
<1>2. CASE LoggerNext
  <2>1. process = "running"
    BY <1>2 DEF LoggerNext
  <2>2. ASSUME NEW p \in Producers, Call(p) \/ SkipDebug(p) \/ PushOn(p) PROVE LInv'
    BY <1>1, <2>1, <2>2, CallerStep
  <2>3. CASE WriteLoop
    BY <1>1, <2>1, <2>3, IdleLoopStep, LoopCheckStep, LoopWriteStep, LoopSyncStep,
       LoopActStep, LoopCrashStep DEF WriteLoop
  <2>4. CASE \/ SetLevel \/ (\E text \in Texts : UnmarshalText(text))
             \/ AppSync \/ Cancel \/ CloseReturn
    BY <1>1, <2>1, <2>4, ApplicationStep
  <2> QED
    BY <1>1, <1>2, <2>2, <2>3, <2>4 DEF LoggerNext
<1>3. CASE UNCHANGED allVars
  <2> USE <1>3 DEF allVars, appVars, coreVars, vars, consVars, hist, LInv
  <2>1. LoggerTypeOK'
    BY <1>1 DEF LoggerTypeOK, RingInv, IInv
  <2>2. UNCHANGED Popped
    BY DEF Popped
  <2>3. StagesMatch' /\ EntryMatches' /\ WrittenSoFar' /\ ClosedMeansGone'
    BY <2>2 DEF StagesMatch, EntryMatches, WrittenSoFar, ClosedMeansGone, IsLast
  <2>4. NoSilentDrop' /\ CrashIsLogged'
    BY <2>2 DEF NoSilentDrop, CrashIsLogged
  <2> QED
    BY <1>1, <2>1, <2>3, <2>4
<1> QED
  BY <1>1, <1>2, <1>3

\* In every step of a Logger: who popped a message owns its body and its entry,
\* and what the properties below state holds.
THEOREM LoggerInductive == LoggerSpec => [](RingInv /\ LInv)
<1>1. RingInv /\ LInv /\ [LoggerNext]_allVars => RingInv' /\ LInv'
  BY NextLInv
<1> QED
  BY <1>1, InitLInv, PTL DEF LoggerSpec

-----------------------------------------------------------------------------
(***************************************************************************)
(* The properties.                                                         *)
(***************************************************************************)

\* Every variable keeps its type; what the core is given is a call's message.
THEOREM LoggerTypeCorrect == LoggerSpec => []LoggerTypeOK
<1>1. LInv => LoggerTypeOK
  BY DEF LInv
<1> QED
  BY <1>1, LoggerInductive, PTL

\* The Logger breaks none of the promises of its ring, although its Debug calls
\* may return early and its write loop may end: a body has one owner, no message
\* reaches the core twice, and before a flood they reach it in order.
THEOREM RingInsideLogger == LoggerSpec => [](OneOwner /\ AtMostOnce /\ FifoUntilFlood)
<1>1. RingInv => OneOwner /\ AtMostOnce /\ FifoUntilFlood
  BY DisjointIsOneOwner, QInvIsFifo DEF RingInv, DInv
<1> QED
  BY <1>1, LoggerInductive, PTL

\* A message that the write loop is done with was written, was not enabled, or
\* its write failed: the CheckedEntry that comes from the pool is never dirty.
THEOREM NothingDroppedSilently == LoggerSpec => []NoSilentDrop
<1>1. LInv => NoSilentDrop
  BY DEF LInv
<1> QED
  BY <1>1, LoggerInductive, PTL

\* The process panics or exits only for a Panic or a Fatal message, and that
\* message is synced if its level is enabled and nothing fails.
THEOREM CrashesAreLogged == LoggerSpec => []CrashIsLogged
<1>1. LInv => CrashIsLogged
  BY DEF LInv
<1> QED
  BY <1>1, LoggerInductive, PTL

\* When Close has returned nothing is delivered or written any more, and if the
\* process still ends then by a panic that was under way when the loop let Close
\* go.
THEOREM NothingAfterClose == LoggerSpec => QuietAfterClose
<1>1. LInv /\ [LoggerNext]_allVars =>
        [closer = "closed" =>
           /\ UNCHANGED <<delivered, out>>
           /\ process' \in {process, "panicked"}]_allVars
  <2> SUFFICES ASSUME LInv, LoggerNext, closer = "closed"
               PROVE  UNCHANGED <<delivered, out>> /\ process' \in {process, "panicked"}
    OBVIOUS
  <2> USE DEF appVars, coreVars, vars, hist, consVars
  <2>1. loop \in {"done", "unwound"}
    BY DEF LInv, ClosedMeansGone
  <2>2. CASE WriteLoop
    <3>1. LoopCrash
      BY <2>1, <2>2 DEF WriteLoop, LoopSelect, LoopPop, LoopSleep, LoopCheck,
         LoopWrite, LoopSync, LoopAct, LoopFree
    <3> QED
      BY <3>1 DEF LoopCrash
  <2>3. ASSUME NEW p \in Producers, Call(p) \/ SkipDebug(p) \/ PushOn(p)
        PROVE  UNCHANGED <<delivered, out, process>>
    BY <2>3 DEF Call, SkipDebug, PushOn, InCall, GetBody, Fill, Claim, Swap, FreeOld
  <2>4. CASE \/ SetLevel \/ (\E text \in Texts : UnmarshalText(text))
             \/ AppSync \/ Cancel \/ CloseReturn
    BY <2>4 DEF SetLevel, UnmarshalText, AppSync, Cancel, CloseReturn
  <2> QED
    BY <2>2, <2>3, <2>4 DEF LoggerNext
<1> QED
  BY <1>1, LoggerInductive, PTL DEF LoggerSpec, QuietAfterClose

-----------------------------------------------------------------------------

LEMMA NamesDiffer ==
  /\ \A l \in NamedLevels : Word(l) # ""
  /\ \A k, l \in NamedLevels : Word(k) = Word(l) => k = l
<1>1. NamedLevels = {DebugLevel, InfoLevel, WarnLevel, ErrorLevel, DPanicLevel,
                     PanicLevel, FatalLevel}
  BY DEF NamedLevels, DebugLevel, InfoLevel, WarnLevel, ErrorLevel, DPanicLevel,
     PanicLevel, FatalLevel
<1>2. /\ Word(DebugLevel) = "debug" /\ Word(InfoLevel) = "info"
      /\ Word(WarnLevel) = "warn" /\ Word(ErrorLevel) = "error"
      /\ Word(DPanicLevel) = "dpanic" /\ Word(PanicLevel) = "panic"
      /\ Word(FatalLevel) = "fatal"
  BY DEF Word, DebugLevel, InfoLevel, WarnLevel, ErrorLevel, DPanicLevel, PanicLevel,
     FatalLevel
<1> QED
  BY <1>1, <1>2

\* Unmarshaled undoes String and CapitalString, and takes any letters.
LEMMA TextOfLevel ==
  ASSUME NEW text \in [word : STRING, letters : Letters]
  PROVE  Unmarshaled(text) =
           IF text.word = "" THEN {InfoLevel}
           ELSE {l \in NamedLevels : text.word = Word(l)}
<1>1. Exactly(text) \in {{}, IF text.word = "" THEN {InfoLevel}
                              ELSE {l \in NamedLevels : text.word = Word(l)}}
  BY DEF Exactly
<1>2. Exactly(ToLower(text)) = IF text.word = "" THEN {InfoLevel}
                               ELSE {l \in NamedLevels : text.word = Word(l)}
  BY DEF Exactly, ToLower, Text
<1> QED
  BY <1>1, <1>2 DEF Unmarshaled

\* A text sets the level that it is the text of, for every text.
THEOREM TextsSetLevels == LoggerSpec => TextSetsLevel
<1>1. [LoggerNext]_allVars =>
        [\A text \in Texts : UnmarshalText(text) =>
           IF text.word \in {Word(l) : l \in NamedLevels}
             THEN ToLower(text) \in {String(level'), ToLower(CapitalString(level'))}
             ELSE level' = IF text.word = "" THEN InfoLevel ELSE level]_allVars
  <2> SUFFICES ASSUME NEW text \in Texts, UnmarshalText(text)
               PROVE  IF text.word \in {Word(l) : l \in NamedLevels}
                        THEN ToLower(text) \in
                               {String(level'), ToLower(CapitalString(level'))}
                        ELSE level' = IF text.word = "" THEN InfoLevel ELSE level
    OBVIOUS
  <2>1. text \in [word : STRING, letters : Letters]
    BY LevelAssumption
  <2>2. Unmarshaled(text) = IF text.word = "" THEN {InfoLevel}
                            ELSE {l \in NamedLevels : text.word = Word(l)}
    BY <2>1, TextOfLevel
  <2>3. CASE text.word \in {Word(l) : l \in NamedLevels}
    <3>1. level' \in NamedLevels /\ text.word = Word(level')
      BY <2>2, <2>3, NamesDiffer DEF UnmarshalText
    <3>2. ToLower(text) = String(level')
      BY <3>1 DEF ToLower, String, Text
    <3> QED
      BY <2>3, <3>2
  <2>4. CASE text.word \notin {Word(l) : l \in NamedLevels}
    <3>1. \A l \in NamedLevels : text.word # Word(l)
      BY <2>4
    <3>2. CASE text.word = ""
      <4>1. Unmarshaled(text) = {InfoLevel}
        BY <2>2, <3>2
      <4>2. level' = InfoLevel
        BY <4>1 DEF UnmarshalText
      <4> QED
        BY <2>4, <3>2, <4>2
    <3>3. CASE text.word # ""
      <4>1. Unmarshaled(text) = {}
        BY <2>2, <3>1, <3>3
      <4> QED
        BY <2>4, <3>3, <4>1 DEF UnmarshalText
    <3> QED
      BY <3>2, <3>3
  <2> QED
    BY <2>3, <2>4
<1> QED
  BY <1>1, PTL DEF LoggerSpec, TextSetsLevel
=============================================================================
