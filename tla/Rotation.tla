------------------------------ MODULE Rotation ------------------------------
(***************************************************************************)
(* The rotating log file of zaproll: Rotation (zaproll.go) with its write  *)
(* buffer (bufio.go) and its backups (backup.go), on a file system that    *)
(* may fail and in a process that may be killed and started again.         *)
(*                                                                         *)
(* Write and Sync hold r.locker from the first to the last line, so one    *)
(* call runs at a time, and the model has one call in progress at most.    *)
(* It is cut into one action per system call, because that is where the    *)
(* process may die, a call may fail, or Close, which takes no lock, may    *)
(* run.  Bytes are numbered in the order in which Write is given them.     *)
(*                                                                         *)
(* The clock is read once per rotation; its unit is the millisecond of a   *)
(* backup's name.  It is assumed not to be set back.  Only the order of    *)
(* the times and whether they are in the same millisecond or second make a *)
(* difference, so it moves by at most a second between two rotations.      *)
(***************************************************************************)
EXTENDS Integers, Sequences, FiniteSets

CONSTANTS
  PerWriteSize,  \* size of the buffer
  PerSyncSize,   \* dirty bytes that cause a hint to the kernel
  MaxSize,       \* bytes after which a file is rotated
  MaxBackups,
  PerSecond,     \* units of a backup's name in a second, the unit of its ts
  MaxLen,        \* longest data of one Write
  MaxBytes,      \* bound: bytes given to Write in a behaviour
  MaxClock,      \* bound: last time at which a rotation happens
  MaxFiles,      \* bound: files created
  MaxFails,      \* bound: system calls that fail
  MaxCrashes     \* bound: times the process dies

ASSUME RotationAssumption ==
  /\ {PerWriteSize, PerSyncSize, MaxSize, MaxBackups, PerSecond, MaxLen,
      MaxFiles} \subseteq Nat \ {0}
  /\ {MaxBytes, MaxClock, MaxFails, MaxCrashes} \subseteq Nat

Files  == 1..MaxFiles   \* inodes; 0 is no file
Stamps == 1..MaxClock   \* times, and the backups named after them
Second(t) == t \div PerSecond

\* The file system.
VARIABLES
  data,    \* the bytes of each file
  logFile, \* the file at OutputPath, or 0
  bdir,    \* the file at each backup's path, or 0
  files,   \* number of files created
  closed   \* files whose descriptor was closed

\* The Rotation.
VARIABLES
  f,        \* r.f
  written,
  dirty,
  synced,
  backups,  \* the heap of backups: their times and, to tell entries of the same
            \* time apart, what was renamed
  buf,      \* the bytes in the bufIO
  bufErr,   \* b.err # nil
  w         \* b.w

\* The call in progress, and the environment.
VARIABLES
  op,       \* its next step; "idle" between calls, "down" without a process
  p,        \* what is left of the argument of Write
  fw,       \* bytes it wrote to the file
  force,    \* the argument of flushDirty: TRUE in Sync, FALSE in Write
  result,   \* what the last call returned, until the next one begins
  accepted, \* bytes given to Write so far
  clock,    \* time of the last rotation
  fails,
  crashes

\* History: two rotations were in the same second.
VARIABLE tied

fsVars  == <<data, logFile, bdir, files, closed>>
counts  == <<written, dirty, synced>>
bufVars == <<buf, bufErr, w>>
callVars == <<p, fw, force, result>>
envVars == <<accepted, clock, fails, crashes, tied>>
vars == <<fsVars, f, counts, backups, bufVars, op, callVars, envVars>>

Bytes(from, to) == [i \in 1..(to - from + 1) |-> from + i - 1]
DropFirst(s, n) == SubSeq(s, n + 1, Len(s))
Least(a, b) == IF a <= b THEN a ELSE b

\* Mutant of Avail: off by one.
AvailPlusOne == PerWriteSize - Len(buf) + 1

Avail == PerWriteSize - Len(buf)

\* Mutant of TooMany: one backup more than allowed.
MoreThanTooMany(bs) == Cardinality(bs) > MaxBackups + 1

TooMany(bs) == Cardinality(bs) > MaxBackups

BackupFiles == {t \in Stamps : bdir[t] # 0}

\* Mutant of IsOldest: Less is reversed.
IsNewest(b, bs) == b \in bs /\ \A c \in bs : Second(b.time) >= Second(c.time)

Backup(t, i) == [time |-> t, file |-> i]

\* heap.Pop of the backups bs may return b.  Backups of the same second are in
\* an order that depends on the heap's layout.
IsOldest(b, bs) == b \in bs /\ \A c \in bs : Second(b.time) <= Second(c.time)

\* w.Write(s) appended the first m bytes of s.  It may fail at any time, and
\* it fails for sure on a closed file.
FileWrite(s, m) ==
  /\ m \in 0..Len(s)
  /\ w \in closed => m = 0
  /\ data' = [data EXCEPT ![w] = @ \o SubSeq(s, 1, m)]
  /\ bufErr' = (m < Len(s))
  /\ IF m < Len(s) /\ w \notin closed
       THEN fails < MaxFails /\ fails' = fails + 1
       ELSE UNCHANGED fails

SysCallsFail(n) ==
  /\ fails + n <= MaxFails
  /\ fails' = fails + n

SysCallFails == SysCallsFail(1)

NoResult == [call |-> "none", err |-> "nil"]

\* What Write and Sync return: neither looks at the error of the buffer.
Returned == [call |-> IF force THEN "Sync" ELSE "Write", err |-> "nil"]

-----------------------------------------------------------------------------

\* New on an empty directory.
Init ==
  /\ data = [i \in Files |-> <<>>]
  /\ logFile = 1 /\ files = 1 /\ f = 1 /\ w = 1
  /\ bdir = [t \in Stamps |-> 0]
  /\ closed = {}
  /\ written = 0 /\ dirty = 0 /\ synced = 0
  /\ backups = {}
  /\ buf = <<>> /\ bufErr = FALSE
  /\ op = "idle" /\ p = <<>> /\ fw = 0 /\ force = FALSE /\ result = NoResult
  /\ accepted = 0 /\ clock = 0 /\ fails = 0 /\ crashes = 0 /\ tied = FALSE

-----------------------------------------------------------------------------
(***************************************************************************)
(* Write, and the loop of bufIO.write.                                     *)
(***************************************************************************)

Write(n) ==
  /\ op = "idle"
  /\ accepted + n <= MaxBytes
  /\ p' = Bytes(accepted + 1, accepted + n)
  /\ accepted' = accepted + n
  /\ fw' = 0
  /\ force' = FALSE
  /\ result' = NoResult
  /\ op' = "write"
  /\ UNCHANGED <<fsVars, f, counts, backups, bufVars, clock, fails, crashes,
                 tied>>

\* Mutant of MustFlush: the loop does not look at the error.
MustFlushAnyway == Len(p) > Avail

\* The condition of the loop.
MustFlush == Len(p) > Avail /\ ~bufErr

\* Mutant of MayBypass: a large write always goes past the buffer.
BypassIfLarge == Len(p) > PerWriteSize

\* b.buffered() == 0
MayBypass == buf = <<>>

\* What is left of the bytes s in the buffer after m of them were written.
Unflushed(s, m) == DropFirst(s, m)

\* The buffer is filled up and flushed.
FillAndFlush ==
  LET full == buf \o SubSeq(p, 1, Avail) IN
  /\ op = "write" /\ MustFlush /\ ~MayBypass
  /\ \E m \in 0..Len(full) :
       /\ IF bufErr THEN m = 0 /\ UNCHANGED <<data, bufErr, fails>>
                    ELSE FileWrite(full, m)
       /\ buf' = Unflushed(full, m)
       /\ fw' = fw + m
  /\ p' = DropFirst(p, Avail)
  /\ UNCHANGED <<logFile, bdir, files, closed, f, counts, backups, w, op,
                 force, result, accepted, clock, crashes, tied>>

\* A large write with an empty buffer goes to the file directly.
WriteDirectly ==
  /\ op = "write" /\ MustFlush /\ MayBypass
  /\ \E m \in 0..Len(p) :
       /\ FileWrite(p, m)
       /\ p' = DropFirst(p, m)
       /\ fw' = fw + m
  /\ UNCHANGED <<logFile, bdir, files, closed, f, counts, backups, buf, w, op,
                 force, result, accepted, clock, crashes, tied>>

\* The rest is copied into the buffer, or dropped after an error; Write adds
\* up what went to the file and is over if that was nothing.
EndOfWrite ==
  /\ op = "write" /\ ~MustFlush
  /\ buf' = IF bufErr THEN buf ELSE buf \o p
  /\ p' = <<>>
  /\ dirty' = dirty + fw
  /\ written' = written + fw
  /\ IF fw = 0 THEN op' = "idle" /\ result' = Returned
               ELSE op' = "dirty" /\ UNCHANGED result
  /\ UNCHANGED <<fsVars, f, synced, backups, bufErr, w, fw, force, envVars>>

-----------------------------------------------------------------------------

\* Sync: flush the buffer, then flushDirty(true), whatever the flush returned.
Sync ==
  /\ op = "idle"
  /\ \E m \in 0..Len(buf) :
       /\ IF bufErr \/ buf = <<>>
            THEN m = 0 /\ UNCHANGED <<data, bufErr, fails>>
            ELSE FileWrite(buf, m)
       /\ buf' = Unflushed(buf, m)
       /\ fw' = m
       /\ dirty' = dirty + m
       /\ written' = written + m
  /\ force' = TRUE
  /\ result' = NoResult
  /\ op' = "dirty"
  /\ UNCHANGED <<logFile, bdir, files, closed, f, synced, backups, w, p,
                 accepted, clock, crashes, tied>>

\* Mutant of MustRotate: rotate when the size is exceeded.
RotateLate == written > MaxSize

\* Mutant of MustRotate: what is still in the buffer counts as well.
RotateEarly == written + Len(buf) >= MaxSize

MustRotate == written >= MaxSize

\* flushDirty, the hint to the kernel; then the rotation, if it is due.
FlushDirty ==
  /\ op = "dirty"
  /\ IF dirty >= PerSyncSize \/ force
       THEN synced' = synced + dirty /\ dirty' = 0
       ELSE UNCHANGED <<synced, dirty>>
  /\ IF MustRotate THEN op' = "rename" /\ UNCHANGED result
                   ELSE op' = "idle" /\ result' = Returned
  /\ UNCHANGED <<fsVars, f, written, backups, bufVars, p, fw, force, envVars>>

-----------------------------------------------------------------------------
(***************************************************************************)
(* The rotation: open() with r.f # nil, and what flushDirty does after it. *)
(***************************************************************************)

\* Mutant of ResetCounts: the count of hinted bytes is kept.
ResetSomeCounts == written' = 0 /\ dirty' = 0 /\ synced' = synced

ResetCounts == written' = 0 /\ dirty' = 0 /\ synced' = 0

\* Mutant of RenameTime: local time without its zone, which goes back in autumn.
LocalRenameTime(t) == t \in Stamps

\* The time of a rotation.
RenameTime(t) == t \in clock..(clock + PerSecond)

\* os.Rename of the log file to a backup named after the time, which replaces a
\* backup of that name, and the push of the backup.
Rename ==
  /\ op = "rename"
  /\ logFile # 0
  /\ \E t \in Stamps :
       /\ RenameTime(t)
       /\ clock' = t
       /\ tied' = (tied \/ (clock > 0 /\ Second(t) = Second(clock)))
       /\ bdir' = [bdir EXCEPT ![t] = logFile]
       /\ backups' = backups \union {Backup(t, logFile)}
  /\ logFile' = 0
  /\ op' = IF TooMany(backups') THEN "remove" ELSE "open"
  /\ UNCHANGED <<data, files, closed, f, counts, bufVars, callVars, accepted,
                 fails, crashes>>

\* os.Rename fails, for sure if there is no file at OutputPath: open returns
\* an error and the file stays as it is.
RenameFails ==
  /\ op = "rename"
  /\ IF logFile = 0 THEN UNCHANGED fails ELSE SysCallFails
  /\ ResetCounts
  /\ op' = "idle"
  /\ result' = Returned
  /\ UNCHANGED <<fsVars, f, backups, bufVars, p, fw, force, accepted, clock,
                 crashes, tied>>

\* heap.Pop and os.Remove, whose error is ignored.
Remove ==
  /\ op = "remove"
  /\ \E b \in backups :
       /\ IsOldest(b, backups)
       /\ backups' = backups \ {b}
       /\ \/ bdir' = [bdir EXCEPT ![b.time] = 0] /\ UNCHANGED fails
          \/ SysCallFails /\ UNCHANGED bdir
  /\ op' = "open"
  /\ UNCHANGED <<data, logFile, files, closed, f, counts, bufVars, callVars,
                 accepted, clock, crashes, tied>>

\* Mutant of KeptByReset: the buffer is discarded with the old file.
Discarded == <<>>

\* bufIO.reset: "remains all buffered bytes".
KeptByReset == buf

\* A new file is opened; the old one is closed and the buffer redirected.
Open ==
  /\ op = "open"
  /\ files < MaxFiles
  /\ files' = files + 1
  /\ logFile' = files'
  /\ f' = files'
  /\ w' = files'
  /\ closed' = closed \union {f}
  /\ buf' = KeptByReset
  /\ ResetCounts
  /\ op' = "idle"
  /\ result' = Returned
  /\ UNCHANGED <<data, bdir, backups, bufErr, p, fw, force, envVars>>

\* MkdirAll or OpenFile fails: the old file stays in use.
OpenFails ==
  /\ op = "open"
  /\ SysCallFails
  /\ ResetCounts
  /\ op' = "idle"
  /\ result' = Returned
  /\ UNCHANGED <<fsVars, f, backups, bufVars, p, fw, force, accepted, clock,
                 crashes, tied>>

-----------------------------------------------------------------------------

\* Close: no lock, no flush.
Close ==
  /\ op # "down"
  /\ closed' = closed \union {f}
  /\ UNCHANGED <<data, logFile, bdir, files, f, counts, backups, bufVars, op,
                 callVars, envVars>>

\* The process dies, and with it the buffer and the heap; the kernel keeps what was
\* written to the files.
Crash ==
  /\ op # "down"
  /\ crashes < MaxCrashes
  /\ crashes' = crashes + 1
  /\ op' = "down"
  /\ buf' = <<>> /\ p' = <<>> /\ bufErr' = FALSE
  /\ backups' = {}
  /\ closed' = {}
  /\ result' = NoResult
  /\ UNCHANGED <<data, logFile, bdir, files, f, counts, w, fw, force, accepted,
                 clock, fails, tied>>

\* The loop of list takes the oldest backups out of the heap, if there are too
\* many, ...
TakenOut(removed) ==
  /\ Cardinality(BackupFiles \ removed) = Least(Cardinality(BackupFiles), MaxBackups)
  /\ \A t \in removed, u \in BackupFiles \ removed : Second(t) <= Second(u)

\* ... and removes them.  The errors of os.Remove, for the ones it fails for, are
\* ignored.
RemoveAll(removed, failing) ==
  bdir' = [t \in Stamps |-> IF t \in removed \ failing THEN 0 ELSE bdir[t]]

\* list
ListBackups(removed, failing) ==
  /\ TakenOut(removed)
  /\ backups' = {Backup(t, bdir[t]) : t \in BackupFiles \ removed}
  /\ RemoveAll(removed, failing)

\* New: list, then open() with r.f = nil, which truncates the log file if there
\* is one.
Restart ==
  /\ op = "down"
  /\ \E removed \in SUBSET BackupFiles : \E failing \in SUBSET removed :
       ListBackups(removed, failing) /\ SysCallsFail(Cardinality(failing))
  /\ IF logFile # 0
       THEN /\ data' = [data EXCEPT ![logFile] = <<>>]
            /\ UNCHANGED <<logFile, files>>
       ELSE /\ files < MaxFiles
            /\ files' = files + 1
            /\ logFile' = files'
            /\ UNCHANGED data
  /\ f' = logFile'
  /\ w' = logFile'
  /\ ResetCounts
  /\ op' = "idle"
  /\ UNCHANGED <<closed, buf, bufErr, callVars, accepted, clock, crashes, tied>>

\* New returns an error: the directory cannot be made or read, or the file not
\* be opened after list.
RestartFails ==
  /\ op = "down"
  /\ \E removed \in SUBSET BackupFiles : \E failing \in SUBSET removed :
       /\ removed = {} \/ TakenOut(removed)
       /\ RemoveAll(removed, failing)
       /\ SysCallsFail(1 + Cardinality(failing))
  /\ UNCHANGED <<data, logFile, files, closed, f, counts, backups, bufVars, op,
                 callVars, accepted, clock, crashes, tied>>

-----------------------------------------------------------------------------

InCall == \/ FillAndFlush \/ WriteDirectly \/ EndOfWrite \/ FlushDirty
          \/ Rename \/ RenameFails \/ Remove \/ Open \/ OpenFails

Next ==
  \/ \E n \in 1..MaxLen : Write(n)
  \/ Sync
  \/ InCall
  \/ Close \/ Crash \/ Restart \/ RestartFails

Spec == Init /\ [][Next]_vars

\* A goroutine that has begun Write or Sync is scheduled until it returns.
FairSpec == Spec /\ WF_vars(InCall)

-----------------------------------------------------------------------------
(***************************************************************************)
(* Properties                                                              *)
(***************************************************************************)

TypeOK ==
  /\ data \in [Files -> Seq(1..MaxBytes)]
  /\ logFile \in 0..MaxFiles
  /\ bdir \in [Stamps -> 0..MaxFiles]
  /\ files \in Files
  /\ closed \in SUBSET Files
  /\ f \in Files /\ w \in Files
  /\ {written, dirty, synced, fw} \subseteq Nat
  /\ backups \in SUBSET [time : Stamps, file : Files]
  /\ buf \in Seq(1..MaxBytes) /\ Len(buf) <= PerWriteSize
  /\ bufErr \in BOOLEAN
  /\ op \in {"idle", "write", "dirty", "rename", "remove", "open", "down"}
  /\ p \in Seq(1..MaxBytes)
  /\ force \in BOOLEAN
  /\ result \in [call : {"none", "Write", "Sync"}, err : {"nil", "error"}]
  /\ accepted \in 0..MaxBytes
  /\ clock \in 0..MaxClock
  /\ fails \in 0..MaxFails
  /\ crashes \in 0..MaxCrashes
  /\ tied \in BOOLEAN

Elems(s) == {s[i] : i \in DOMAIN s}
Increasing(s) == \A i, j \in DOMAIN s : i < j => s[i] < s[j]
Before(s, t) == \A x \in Elems(s), y \in Elems(t) : x < y

LogData == IF logFile = 0 THEN <<>> ELSE data[logFile]

\* Whatever fails and whenever the process dies, no byte is written twice or
\* out of order: every file holds bytes in the order they were given to Write,
\* and so do the backups in the order of their names, the log file, the
\* buffer and the call in progress, one after the other.
InOrder ==
  /\ \A t \in BackupFiles : Increasing(data[bdir[t]])
  /\ \A t, u \in BackupFiles : t < u => Before(data[bdir[t]], data[bdir[u]])
  /\ \A t \in BackupFiles : Before(data[bdir[t]], LogData \o buf \o p)
  /\ Increasing(LogData \o buf \o p)

Kept == (UNION {Elems(data[bdir[b.time]]) : b \in backups})
          \union Elems(LogData \o buf \o p)

\* As long as the process lives, no write to the file has failed and rotations
\* are at least a second apart, only whole backups at the old end are lost,
\* also when a rotation fails half way: the bytes in the backups of the heap, in
\* the log file and in the buffer are the last ones that Write was given.
NoGap ==
  ~bufErr /\ crashes = 0 /\ ~tied =>
    Kept = (accepted - Cardinality(Kept) + 1)..accepted

\* The counters describe the file in use, as long as every rotation succeeds:
\* the hints to the kernel (r.synced, r.dirty) then cover it without a hole.
CountersMatch ==
  fails = 0 /\ op \notin {"write", "down"} =>
    /\ written = Len(data[f])
    /\ synced + dirty = written

\* "MaxSize is the maximum size of a log file before it gets rotated"
\* (config.go:15): the file in use exceeds it by the buffer and the data of one
\* Write at most, and between two calls not at all.
SizeBound ==
  fails = 0 /\ op # "down" =>
    /\ Len(data[f]) < MaxSize + PerWriteSize + MaxLen
    /\ op = "idle" => Len(data[f]) < MaxSize

\* "MaxBackups is the maximum number of backup log files to retain"
\* (config.go:18): there is one more only while a rotation is about to remove
\* one, or if it was killed then, or for each removal that failed.
BackupBound ==
  Cardinality(BackupFiles) <=
    MaxBackups + fails + (IF op \in {"remove", "down"} THEN 1 ELSE 0)

\* The backups that are to be kept: those in the heap, or, if New has failed and
\* there is none, those left in the directory.
ToKeep == IF op = "down" THEN BackupFiles ELSE {b.time : b \in backups}

\* A backup is only removed if none of those kept is of an earlier second; a New
\* that fails in the end may leave those whose removal failed.
RemovesOldest ==
  [][\A t \in BackupFiles : bdir'[t] = 0 =>
       LET earlier == {u \in ToKeep' : Second(u) < Second(t)} IN
       IF op' = "down" THEN Cardinality(earlier) < fails' - fails
                       ELSE earlier = {}]_vars

\* The files as LogStream sees them, by the number of their creation: the backups,
\* and the log file, which is missing between a rename and the next open.
LiveFiles == {bdir[t] : t \in BackupFiles} \union ({logFile} \ {0})
Stream    == [i \in LiveFiles |-> data[i]]

\* A rotated file and its successor are the same second's, a system call has
\* failed, Close was called during a rotation, or the process was killed.
Broken == tied \/ fails > 0 \/ bufErr \/ crashes > 0

Promise == INSTANCE LogStream
             WITH stream <- Stream, pending <- buf \o p, broken <- Broken

\* The files behave as one stream: a file is only followed by another when it
\* is full, and as long as nothing goes wrong only the oldest is removed, and
\* only if MaxBackups others remain.
ImplementsLogStream == Promise!Spec

\* The times in the names of the backups, by which New finds the oldest, tell the
\* order in which the files were created, also after a second file of the same
\* name, a rotation that failed or one in which the process was killed; and the
\* log file is newer than all of them.
NamesByAge ==
  /\ \A t, u \in BackupFiles : t < u => bdir[t] < bdir[u]
  /\ logFile # 0 => \A t \in BackupFiles : bdir[t] < logFile

\* Every call of Write and Sync returns, also when the file cannot be written.
CallsReturn == op \notin {"idle", "down"} ~> op \in {"idle", "down"}

\* "If log file existed, move it to backups" (zaproll.go:79).
LogFileMovedToBackups ==
  [][Restart /\ logFile # 0 /\ data[logFile] # <<>> =>
       \E t \in Stamps : bdir'[t] # 0 /\ data'[bdir'[t]] = data[logFile]]_vars

\* "MaxSize is the maximum size of a log file before it gets rotated"
\* (config.go:15), with failures: a failed rotation is made up for by the next.
RotatesAfterFailure ==
  Len(data[f]) < (fails + 1) * (MaxSize + PerWriteSize + MaxLen)

\* "Sync syncs all dirty data" (zaproll.go:138): when Sync has returned nil,
\* nothing is left in the buffer.
SyncFlushesAll ==
  result = [call |-> "Sync", err |-> "nil"] => buf = <<>>
=============================================================================
