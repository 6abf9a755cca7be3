# Verification of nanozap

TLA+ models of nanozap, a logging library for Go: goroutines put messages into
a lock-free ring, a background loop writes them through a core, and `zaproll`
keeps the log file and its backups. TLC checks the models on small instances,
TLAPS proves theorems for every value of the constants.

    tlc -workers 2 -config Ring.cfg MCRandRing         # one run
    tlapm RandRingProofs.tla                           # the proofs of a module

`PROJECT.json` lists the components, the runs with their properties, for each
property a mutant of the model that breaks it, the lines of the source every
definition stands for, the findings, the hazards and the theorems.

## The system

| part | state | operations | talks to |
|---|---|---|---|
| `Ring` (`randring.go`) | buckets, `writeIndex`, `writeIndexCache`, `readIndex` | `Push` by any goroutine, `TryPop` by the write loop | shared memory, atomics only; `Push` frees the body it throws out |
| logBody pool (`bodypool.go`) | a `sync.Pool`, and who owns each body | `get` with `reset`, `free` | callers, ring, write loop |
| `Logger` (`nanozap.go`) | core, ring, loop context and wait group | `Debug` ... `Fatal`, `Sync`, `Close`, the write loop | ring, core |
| `AtomicLevel`, `Level` (`level.go`, `zapcore/level.go`) | one atomic integer | `SetLevel`, `Enabled`, `UnmarshalText` | read by `Debug` and by the core's `Check` |
| `ioCore`, `CheckedEntry` (`zapcore/core.go`, `entry.go`) | pooled entry: dirty flag, cores, action | `Check`, `Should`, `Write`, `Sync` | encoder, `WriteSyncer`; may end the process |
| `WriteSyncer`s (`zapcore/write_syncer.go`) | a mutex; a list of sinks | `AddSync`, `Lock`, `NewMultiWriteSyncer`, `Write`, `Sync` | each other, as a tree; files at the leaves |
| byte buffers, encoders (`buffer/`, `internal/bufferpool`) | two `sync.Pool`s, shared by all cores | `Get`, `Free`, `getJSONEncoder`, `putJSONEncoder` | `ioCore.Write` |
| `Rotation` (`zaproll/zaproll.go`) | file, counters `written`, `dirty`, `synced`, lock | `Write`, `Sync`, `Close`, rotation, `New` | file system, `bufIO`, `Backups` |
| `bufIO` (`zaproll/bufio.go`) | buffer, sticky error, writer | `write`, `flush`, `reset` | the file |
| `Backups` (`zaproll/backup.go`) | heap of paths by second | `Push`, `Pop`, `list` | directory |
| `Config` (`zaproll/config.go`) | sizes | `adjust` | used by `New` |
| JSON encoder (`zapcore/json_encoder.go`, `memory_encoder.go`, `encoder.go`) | bytes, open namespaces | `Add*`, `Append*`, `EncodeEntry` | byte buffers |
| fields, slices, errors (`field.go`, `array.go`, `error.go`, `zapcore/field.go`, `error.go`) | a union of all types | constructors, `AddTo`, `Equals`, marshalers | the encoder, which calls marshalers back |

What is hard, and what makes each part correct:

* Ring and pool: pushes that overtake each other, lap a stalled push and meet
  the consumer in one bucket; bodies that are recycled. A body has one owner,
  a message is delivered at most once and as it was written, order and
  completeness hold until the ring first overflows, a push never waits.
* Logger: the level may change between the call and the check; `Panic` and
  `Fatal` act in the loop, not in the caller; `Close` races with everything.
  Nothing is dropped silently once the core has it, a process that ends has
  synced, nothing is written after `Close`, not even while a panic is on its way.
* Rotation: system calls fail or are cut short, the process is killed between
  two of them, `Close` takes no lock. Bytes keep their order, none is lost in
  the middle, files and backups stay bounded, counters describe the file.
* JSON encoder: sequential, but what one call appends depends on the last byte
  another one left, marshalers call back into the encoder and may fail half-way,
  and a context may end with open namespaces. Each line is one JSON object
  with every value in the right container.
* Fields: every value goes through an `int64` or an interface and must come out
  as it went in; equal fields must mean the same log.
* Outputs: several write loops, cores with common pools, locks inside locks and
  around multi-writers, sinks that fail. Lines of a locked file are not mixed,
  every sink is asked, the errors of all are returned, nobody waits for ever,
  and a pooled buffer is never in two hands.
* Config: sequential, with edge cases (scaling twice, sizes that overflow, what
  rounding up does to the relation of two sizes).

## Modules

### RandRing, LossyFifo, RandRingFlood

`RandRing` has one action per atomic instruction. A producer goes through
`GetBody` (pool), `Fill` (the caller writes its message), `Claim`
(`AddUint64`), `Swap` (`SwapPointer`) and, if it got a body back, `FreeOld`.
The consumer does `Reload` (the cached write index), `Take` (`SwapPointer` with
nil), `Deliver`, `Release` and `Wake` after its 2 ms of sleep. `CollectPool` is
the garbage collector emptying the `sync.Pool`. Code between two atomic
instructions touches only a body its goroutine owns and is merged with one of
them. A message is the pair of its producer and the number of the call.
`claimed`, `delivered` and `flooded` are history: no guard reads them. `flooded`
becomes true when a ticket is given out while `N` earlier ones have not been
popped.

`LossyFifo` is what the ring promises: a bounded queue, first in first out, that
after its first overflow may lose messages and give them out in any order, but
never twice. `RandRing!Queue` maps the ring to it: a message is accepted when
its ticket is claimed and is in the queue while it is in a producer's hand
before the swap, in a bucket, or popped and not yet delivered.

`RandRingFlood` adds two history variables to ask whether order returns once a
flood is over.

`MCRandRing` holds the instance: two buckets; one producer that makes three calls
and can lap the other, which makes one; three bodies, which the pool hands out
again as soon as they are free; `W = 16` for 2^64, more than all pushes together.

### Logger

`Logger` extends `RandRing`: callers and `TryPop` are the actions of the ring, the
variable `loop` puts the write loop around them. `Call` and `SkipDebug` are the two
outcomes of the level test in `Debug`; the other methods never skip. `LoopCheck`
is `Logger.check` with `ioCore.Check`, `LoopWrite`, `LoopSync` and `LoopAct` are
`CheckedEntry.Write` with `ioCore.Write` in it; the entry stays in the model between
two uses, as it does in its pool, so that `reset` matters. `SetLevel`, `AppSync`,
`Cancel` and `CloseReturn` are the application. The sink under the core is
external: each write and each sync succeeds or fails. `os.Exit` ends the process in
`LoopAct`. A panic first unwinds `writeLoop` and its deferred `loopWg.Done()`, on which
`Close` may return, and everybody goes on until it ends the process in `LoopCrash`. When
`process` is no longer `running`, nothing runs.

`LevelText` has the levels and their texts; a text is a word in small letters,
capitals or both, or empty, which stands for `info` (`zapcore/level.go:130`).
`UnmarshalText` is the second way to set the `AtomicLevel`.

### WriteSyncers, Output

`WriteSyncers` has the trees that `AddSync`, `Lock` and `NewMultiWriteSyncer` build, and
goroutines that walk through them: `stack` holds a frame per method a call is in,
`ret` what the last one returned. `Acquire` and `Release` are the two ends of a
`lockedWriteSyncer`, `MultiNext` one turn of the loop of a `multiWriteSyncer`. `Built` is the set of
all trees an application has made, each of them the result of a constructor
(`Made`); a tree remembers for the properties the `leaves` it reaches, for each
path to a leaf the mutexes on it (`paths`), and whether there is a multi-writer
of nothing in it (`hollow`). A file takes
its bytes one at a time (`WriteByte`), so that unguarded calls mix theirs, and may
fail after any of them (`LeafFails`). `Write` is given a slice and not a copy: what is
written is what the buffer holds at that moment.

`Output` puts `ioCore.Write` and `Sync` on top. `BeginWrite` takes an encoder and a buffer
out of their pools, `Reflect` and `CopyReflected` are a reflected field, which is
encoded into a second buffer that the encoder keeps for its next field;
`EndEncode` gives the encoder and that buffer back and calls the output, `FreeBuffer`
frees the line and goes on to `Sync` for a high level. A pool may return
anything it holds, or something new. `asked` and `failed` are history.

### Rotation

`Rotation` has `zaproll.go`, `bufio.go` and `backup.go` in one module, because a
rotation touches all three. `Write` and `Sync` hold the lock to their last line;
the call in progress is cut at its system calls: `FillAndFlush` and
`WriteDirectly` are the two branches of the loop in `bufIO.write`, `FlushDirty`
the hint and the decision, `Rename`, `Remove` and `Open` the rotation, with
`RenameFails` and `OpenFails` for its error paths. `result` is what the last call has returned,
until the next one begins: `Returned`, which is never an error. `Close` (no lock) and `Crash` may
come between any two; `Crash` takes the buffer and the heap with it, and
`Restart` is `New` in a new process. A byte is the number of
its position in everything `Write` was given, so that order and gaps can be
seen. Backups are named by the time of the rotation and ordered by its second.
What a crash of the machine does to the page cache is not modelled: the hints
to the kernel promise nothing. A rotation may happen in the millisecond of the one
before; the rename then replaces the backup of that name, while the heap keeps
both entries, as in the code. `ListBackups` is `list` in a new process, in which any
of the removals may fail; `RestartFails` is a `New` that returns an error after it, so that
its heap is lost again: `ToKeep` then is what is left in the directory.

`LogStream` is what a `Rotation` promises: files, numbered as they are created, that
bytes go into in order. A file is followed by another when it is full, and the
oldest goes when there are `MaxBackups` others. After a fault (`broken`) whole files
and pending bytes may get lost, but nothing is repeated, moved, or cut out of
the middle of a file. `Rotation!Stream` maps the directory to it: the bytes of the
backups and of the log file, by the number of each file. That the names give the
same order is `NamesByAge`, a property of its own. `broken` is true after a failed
system call, a crash, or two rotations in one second, among which the heap
cannot tell the older.

`Config` has `adjust` on integers that wrap around, and `New`, which adjusts the `Config` it
is given in place. `MCRotation` puts the two together: an application gives one of 501
`Config`s to `New`, once or twice, and the `Rotation` runs if the `Config` was adjusted to
the sizes of the instance.

### JsonEncoder, Fields

`JsonEncoder` is a core with its encoder, as an application with fields uses it.
`With` and `EndWith` are `ioCore.With`: clone, add fields, be the encoder of the new
core; `BeginEntry` and `EndEntry` are `EncodeEntry` around the fields of an entry. In
between a field is a scalar, a value encoded by a function of the configuration
(which may append nothing), a reflected value that cannot be encoded, a
namespace, or a marshaler: `BeginMarshal` and `EndMarshal` bracket what it calls, and
`EndMarshal` with an error is followed by the error field of `Field.AddTo`. Bytes are
tokens; `Separated` looks at the last one, as `addElementSeparator` does. `stack` and
`want` are history: the containers `MapObjectEncoder` would have made and the
one it would have put each value into. `AddSlice` is the typed slices of
`array.go`, of the lengths in `SliceLengths`; `AddError`, `AddErrors`, `AppendError` and `EndErrors` are
`encodeError` and the arrays of errors, which may be nested through groups of
errors. `Decoded` is a reader of JSON, written from its grammar and not from the
encoder: `Read` takes one token, `ReadAll` a sequence of them. Strings are not escaped
and numbers have no digits; a reflected value is a scalar.

`Fields` makes one or two fields of any type with the constructors of `field.go` and asks
what `AddTo` gives to the encoder and what `Equals` says. `Size` says how many values there
are of 8, 16, 32 and 64 bits: with small numbers TLC tries every value, and the
theorems hold for all of them that are even and grow (`WidthAssumption`). A complex
number has two parts out of `Parts`, because `==` of the interfaces it is in compares numbers
(`SameNumber`): zeros of either sign are equal although they log differently, and NaN
is not equal to itself. `EqualsMeansSameLog` names both.
`MCJsonEncoder` runs it beside the encoder.

### Proof modules

`RandRingProofs`, `OutputProofs`, `RotationProofs`, `ConfigProofs`, `JsonEncoderProofs` and `FieldsProofs` are
about the module of their name. `LoggerProofs` is about `Logger` and extends
`RandRingProofs` too, as the Logger extends the ring. `SetInduction` has one lemma, induction
over the natural numbers, which `OutputProofs` and `JsonEncoderProofs` use. See Proofs.

## Runs

| run | what it shows | distinct states |
|---|---|---|
| `ring` | `OneOwner`, `AtMostOnce`, `FifoUntilFlood`; `RandRing` implements `LossyFifo`; all messages but the newest arrive without a flood, and all if the loop polled first | 79 k |
| `ring_nil` | finding: `TryPop` says "no data" with the newest message in its bucket | |
| `ring_flood` | finding: order is not restored after a flood | |
| `logger` | `NoSilentDrop`, `CrashIsLogged`, `QuietAfterClose`, `TextSetsLevel`; a call ends even if the loop never runs again ("wait-free log write", README of nanozap); `Close` returns; a popped `Panic` or `Fatal` ends the process, enabled or not | 295 k |
| `logger_fatal` | finding: `Fatal` may never end the process | |
| `output` | `PooledOneOwner`, `WholeLines`, `WritesEverywhere`; every call returns | 229 k |
| `sinks_count` | finding: a multi-writer does not return the smallest count | |
| `rotation_safety` | `InOrder`, `NoGap`, `CountersMatch`, `SizeBound`, `BackupBound`, `NamesByAge`, `RemovesOldest`; `Rotation` implements `LogStream`; `Write` and `Sync` return, whatever fails; `SizesAsAsked`, `HintCoversWrites`, `AdjustedOnce` of `Config` | 248 k |
| `rotation_restart` | finding: a restart empties the old log file | |
| `rotation_growth` | finding: after one failed creation no rotation succeeds again | |
| `rotation_sync` | finding: `Sync` returns nil with bytes left behind | |
| `json_safety` | `ValidJson`, `SameTree`, `NothingLostInField`, `EqualsMeansSameLog` | 1.56 M |

### Bounds

Ring: two buckets; one producer makes three calls and can lap the other, which
makes one; three bodies. A stalled push can be lapped, buckets are reused, and a
flood starts, ends and is followed by another message. The ring of the code has
4096 buckets; nothing in it depends on the number, and the theorems hold for
every number.

Logger: a `Debug`, a `Panic` and a `Fatal` message on a ring of two buckets cover skipped
calls, an overflow, both ends of a process, and messages that are still in the
ring then. The level starts at `Debug` or `Fatal` and is set once, at any moment, to one
of them or from a text, which may name no level.

Output: two goroutines, two calls, lines of two bytes, one failing write or sync.
The five setups are two locked files in opposite orders, locks on top of a
multi-writer of locks, one file twice beside a multi-writer of nothing, files
without a lock, and a multi-writer of nothing inside of another one. Two
encoders and three buffers: a goroutine needs one encoder and two buffers, and
the pools can make somebody else's out of what one has just freed.

Rotation: a buffer of two bytes, rotation after three, writes of one to three
bytes, which are smaller than, equal to and larger than the buffer. Ten bytes
make up to three rotations, one more than there are backups to keep; `MaxClock`
leaves room for one second between them. One system call fails and the process
dies once, at every possible place. The runs of findings 4, 5 and 6 keep one
backup, and their clock counts seconds.

Config: every size is missing, negative, tiny, or so large that it wraps around,
with a page of 4 bytes and units of 3 and 12 that need and do not need rounding.

JSON encoder: `MaxWork` fields or elements in a behaviour, spread over any number of
`With`s and entries, and marshalers two deep: enough for a context that ends with two
open namespaces, or a failing marshaler in an array in a namespace of the
context. Slices have no element or two. The metadata is absent, one key whose encoder may append nothing, or
all four keys; with and without spaces. `NestedNamespaces = FALSE`: a marshaler
that opens a namespace makes the line invalid (finding 8), and nothing else
would be seen any more.

Fields: every value of every type, with two to five bits in place of 8 to 64, so that each
type has a sign bit and is narrower than the `int64` it travels through.

Deadlock is checked for the ring, whose consumer can always move, and for the
encoder, which can always be used again. A Logger stops with its process, and
the instances of `Rotation`, `Output` and `RandRingFlood` stop when their bytes or calls are
used up; that nobody stops in a call of `Output` is `CallsReturn`.

### Fairness

A goroutine inside a call is scheduled again until the call returns, since none
of its steps waits for another goroutine. The write loop is scheduled again as
long as the process runs; so is a goroutine in `Close` whose wait is over. No
caller has to log, sync, close or change the level. `logger` assumes fairness
of the callers only; `CloseReturns` and `PoppedFatalEnds` name what they need on
top of that as a premise. `Rotation` is fair to the call in progress (`CallsReturn`); neither `Close`,
a crash nor a restart has to happen. `Output` is strongly fair to a goroutine in a call,
because a mutex of Go is handed to a goroutine that has waited for a
millisecond: while others come and go, nobody waits for ever. A deadlock would
still be seen, since nothing could move then. `JsonEncoder` has no liveness: it is
sequential.

## Proofs

### The ring

About the ring and its pool, for every set of producers and of bodies, every
number of buckets and every `W`, from the assumptions in `RandRing`. The one
that is more than a type is `FewerCallsThanTickets`: there are fewer calls than
values of the index (2^64), so that the index does not wrap.

* `Spec => []TypeOK` and `Spec => []OneOwner`. `OneOwner` is not inductive: that
  `Swap` and `Take` move a body and do not copy it needs to know that a producer
  has a body exactly while it is inside a call (`HandsMatchStages`), and that the
  body in its hand is in no bucket. `Disjoint` says that pair by pair, which the
  provers handle better than the unions of sets in `OneOwner`; `DisjointIsOneOwner`
  connects the two. `ContentIsCall` is the part of the types that depends on the
  stages: a body that can still be delivered holds the message of a call, so
  what the core gets is never an empty, recycled body.
* `Spec => []AtMostOnce`, floods included. `LiveIsFresh` is the
  strengthening: a message whose body is in a hand, a bucket or the consumer
  has not been delivered, and no two of these bodies have the same message; it
  needs that calls are numbered as they are made (`TicketsFollowCalls`).
* `Spec => []FifoUntilFlood`. Without a flood the outstanding tickets
  form a window of at most `N` (`WindowFits`) that ends at the write index
  (`WriteIndexIsLast`); a pending push has one of them (`PendingOutstanding`) and so
  has a full bucket, namely the one ticket of the window that belongs to it
  (`BucketOutstanding`). Two tickets less than `N` apart never share a bucket
  (`SlotsDiffer`), so that the consumer finds the next ticket or nothing.
* `Spec => ImplementsLossyFifo`. Each step of the ring is a step of the
  queue or a stutter: `Claim` accepts a message, and may be the overflow; a
  `Swap` that throws a body out loses one, and only after a flood; `Deliver` gives one
  out; all the others leave the queue alone.

There is one lemma per action and part of the invariant. Each invariant was
checked by TLC on an instance of the ring before it was proved.

### The Logger

`LoggerProofs`, for every ring as above, every assignment of levels to the calls and
every set of levels and texts an application may set (`LevelAssumption`): `LoggerSpec`
implies `[]LoggerTypeOK`, `[]NoSilentDrop`, `[]CrashIsLogged`, `QuietAfterClose` and
`TextSetsLevel`.

Every step of the Logger is a step of the ring or leaves the ring alone
(`RingStep`), so the invariants of the ring are used and not proved again;
`RingInsideLogger` states `OneOwner`, `AtMostOnce` and `FifoUntilFlood` for the Logger, whose `Debug` calls
may return early and whose loop may end. `NoSilentDrop` and `CrashIsLogged` speak of what has
happened; to be inductive they need what is happening (`LInv`): `StagesMatch`, where
the consumer of the ring is at each stage of the loop; `EntryMatches`, that the
`CheckedEntry` belongs to the message popped and is clean when `ce.Write` begins,
although it comes from a pool; `WrittenSoFar`, that between `core.Write` and the panic
the message is the last one in the output, and synced if its level asks for
it. `QuietAfterClose` needs `ClosedMeansGone`: `Close` returns after the loop has returned, and takes no
more steps, or was unwound, and can only end the process.

### The outputs

`OutputProofs`, for every number of goroutines, files, mutexes, buffers and encoders,
and for every set `Built` that consists of results of the constructors
(`SinkAssumption`; which trees they are, how deep, and which mutex is taken where is
left open): `Spec` implies `[]TypeOK`, `[]PooledOneOwner`, `[]WholeLines`,
`[]WritesEverywhere` and `[]NeverTwoAtALeaf`, the last of which `OutputProofs` defines:
where one mutex is on each path to a leaf, two goroutines are never in it. The invariant
`OInv` has three parts.

* `PoolInv`: who has an encoder and a buffer at which stage (`PoolTypes`), `PooledOneOwner` pair by
  pair (`PoolDisjoint`), and what is in the buffer at each stage (`BufferContents`). The latter two
  depend on each other: a line is what its goroutine wrote only because nobody
  else has its buffer.
* `StackInv`: a mutex is held by the goroutine that has a frame which locked it, and
  by no other (`MutexOK`), and the frames of a goroutine are a path through its tree
  (`FrameOK`). The heart of it is `OnPath`: what a frame can still reach, the root could
  reach, through no other mutexes than those the frames below hold and those
  still to come. At a leaf nothing is still to come, so a mutex that is on each
  path to it is held.
* `FileOK`: if a goroutine is in the middle of a line, the last byte of a guarded
  file is the one before in its buffer. With `NeverTwoAtALeaf` and `PooledOneOwner` that is what `WholeLines`
  needs.

`WritesEverywhere` is about the end of a call. `WalkInv` says what is true in the middle of
one, of the frames on its stack, and is preserved beside `OInv`:

* `Asks`: the leaves asked so far, followed by those that each frame has yet to
  reach, from the top frame to the root, are the leaves of the tree. What a
  multi-writer has yet to reach is a suffix of a flattened sequence. The library
  defines flattening recursively and has no theorem about it, so the lemma that
  the leaves of a list are those of its first part followed by those of the rest is
  an induction over the length of the list, with `SetInduction`.
* `Collects`: the leaves that have failed are those in the errors of the frames and
  of the last result, so that no error gets lost on the way up.
* `Counts`: while none has failed, each count is that of the line, or 0 if the tree
  is hollow. The latter cannot be left out: a multi-writer of a file and of
  an empty multi-writer writes the line and returns 0, which an earlier
  wording of `WritesEverywhere` did not allow. The setup `Hollow` has such a tree.
* `Written`: as often as a leaf was asked, each byte of the line is in its file. This
  needs `LinesOK`, that no two lines have the same number, and from `OInv` that
  nobody else has changed the buffer.

### Rotation

`RotationProofs`, for every size of the buffer, of a file and of the data of a `Write`,
every number of backups and every number of failures and crashes, from
`RotationAssumption` (sizes are positive numbers): `Spec` implies `[]TypeOK`,
`[]InOrder`, `[]NoGap`, `[]CountersMatch`, `[]SizeBound`, `[]BackupBound`,
`RemovesOldest`, `[]NamesByAge` and `ImplementsLogStream`. `RInv` has a part per
question.

* `BytesOK`, `StateOK`: types, and when the buffer and the bytes of the call can be there.
* `FilesOK`: `r.f` is the file at `OutputPath`; if there is none, it is the newest backup, or
  it was that and is removed. Without this, a write between two rotations
  could go into an old backup, and `InOrder` would not be inductive.
* `OrderOK`: `InOrder` in pairs of files. Bytes go from the call to the buffer and from there
  to the file, always from the front, so that all writing steps are instances
  of one lemma (`OrderedFlow`); a rename only turns the log file into the last backup.
* `KeptOK`: nothing is missing as long as no write failed, nothing crashed and the
  backups are of different seconds (`Gapless`): then each backup in the heap is in the
  directory, and the one that is removed has the first bytes.
* `HeapOK`: the heap has at most `MaxBackups` entries, one more in the middle of a
  rotation; a backup that it has forgotten (`Orphans`) was forgotten by a failed system
  call. `BackupBound` follows by counting.
* `CountsOK`: `CountersMatch` and `SizeBound` in the middle of a call, where the bytes just
  written (`fw`) are not
  yet in `r.written`, and the buffer and the rest of the data may still come.

`InOrder` and `NoGap` are about sequences of bytes and sets of them; the lemmas that
connect the two (`Concat`, `SplitAt`, `NewBytes`) come first, and one lemma per action and part of
`RInv` follows. TLC checked `RInv` on all states of the instance before it was proved.

`NamesByAge` is proved by the time: a rename gives the newest file a name of the clock or
later, and all backups have names up to it. `FullOK`, that a rotation begins only
when the file is full, is proved beside it.

`ImplementsLogStream` maps each system call to a step of the stream or a stutter
(`StreamStep`). The bytes taken from a call are `Accept`; those that go to the file are
`Store`, because `r.f` is the newest file (`UsedIsNewest`), or `Lose`, if a fault has
left it without a name; creating the next log file is `Roll`, since the last one was
full (`FullOK`); the removal of the first backup in the heap is `Expire`, and of the
oldest file (`OldestGoes`) as long as no two are of one second. A rename changes names
only, and the stream has numbers, so it stutters. What fails or crashes is `Lose`,
`Expire`, `Restart` or `Break` with `broken`, and `broken` stays (`BrokenStays`).

### Config

`ConfigProofs`, for every size of a page, every unit, default and largest integer that
satisfy `ConfigAssumption` (positive numbers, and defaults that fit): `ConfigSpec =>
[]SizesAsAsked`, `[]HintCoversWrites` and `[]AdjustedOnce`. The lemmas say that a product that fits
does not wrap (`SizeInBytes`), that `alignToPage` returns the first multiple of the
page from `n` on (`AlignedSize`), and what the first half of `adjust` returns (`ScaledSizes`). That the
distance of two hints is at least two writes is true before rounding; after it a
page may be missing, which needs that both are multiples of it. The invariant
`ConfigInv` says what the `Config` is after the first call of `New`.

### The JSON encoder

`JsonEncoderProofs`, for every set of configurations, lengths of slices, depth of
marshalers and number of fields, where no marshaler opens a namespace
(`~NestedNamespaces`, without which `ValidJson` is false: finding 8): `Spec` implies `[]TypeOK`, `[]ValidJson`
and `[]SameTree`.

The idea is to follow the reader while the encoder writes. `At(d, b, o, k, p)` says that
a reader in state `d`, after the tokens `b`, has the containers `o` open, of `k` that it
has seen, and the values at the paths `p` behind it, and that the last token tells it
whether a comma must come first, as it tells the encoder. The invariant `Inv` says so of
the encoder in use and of the one of the core:

* the containers open are those the encoder is inside of (`OpenOf`): the entry, its
  namespaces and the marshalers on `stack`, numbered as `MapObjectEncoder` makes them;
* the values seen are `want`;
* `openNamespaces` is the number of namespaces, so that closing that many braces
  leaves only the entry (`EndEntry`, which closes one more).

A context is copied behind a header of which nothing is known when `With`
writes it. `CoreOK` therefore holds for every reader in `Begins`: in the entry, before its first
key or after a comma, with any values before. The lemmas about `ReadAll` (that the
reader exists and is unique, and that reading two sequences in a row is reading
their concatenation) and about the elements of a slice are inductions over
their lengths, with `SetInduction`. On top of them is a lemma per thing that the
encoder appends, and then one per action.

### Fields

`FieldsProofs`, for every `Size` that satisfies `WidthAssumption` and any addresses and
contents: `FieldSpec` implies `[]NothingLostInField` and `[]EqualsMeansSameLog`. There is a lemma per kind of type on what
its constructor puts where and what `AddTo` makes of it. The ones about integers
say that a signed value of `b` bits that goes through an `int64` is what it was
(`SignedFits`), and an unsigned one too, although those of the highest bit are negative
on the way (`UnsignedFits`). They need no powers of two, only that sizes are even and
that a smaller type has at most half as many values as the next.

### Model-checked only

Every invariant, action property and refinement of the runs is proved. What is left to
TLC is liveness, which is out of reach of TLAPS: `AllButNewestDelivered`,
`AllDeliveredIfPolledFirst`, `PushNeverWaits`, `CloseReturns`, `PoppedFatalEnds`, and
`CallsReturn` of `Rotation` and of `Output`.

The theorems assume no bound of an instance. Bounds on the length of a behaviour
(`MaxCalls`, `MaxBytes`, `MaxWork` and so on) are any natural numbers. Two assumptions do restrict
the code: fewer than 2^64 pushes (the ring), and no namespaces opened by
marshalers (the encoder).

The induction theorems of the library take a predicate as a parameter, which
the provers cannot instantiate. `SetInduction` states induction for a set instead, and
proves it by counting: were `n` missing from a set that has 0 and all successors
of its elements, adding one would map its elements up to `n`
one to one into those without 0.

## Findings

1. `TryPop` does not pop the message of the last ticket (`randring.go:83`): if the
   first push comes before the loop's first poll, the newest message waits for
   the next one, for ever if there is none.
2. After a flood the read index is out of phase, and messages are reordered
   although the ring was empty in between (`randring.go:95` against `nanozap.go:35`).
3. `Fatal` and `Panic` may never end the process (`nanozap.go:209` against 201).
4. A restart truncates the log file instead of moving it to the backups
   (`zaproll.go:84` against 79).
5. If the new file cannot be created after the rename, no later rotation
   succeeds (`zaproll.go:87`).
6. `Rotation.Sync` ignores the error of the flush (`zaproll.go:144` against 138): it returns
   nil, and the bytes are still in the buffer. With `bufErr` as the error of `Returned`, TLC
   finds no violation of `SyncFlushesAll` in all 528 k states of the instance.
7. A multi-writer returns the larger count if its first sink took nothing
   (`write_syncer.go:108` against 98).
8. A namespace opened by a marshaler is closed at the end of the entry, after
   the bracket of the marshaler (`json_encoder.go:189` and 157): the line is not
   JSON. No comment promises more, and the runs leave it out; with
   `NestedNamespaces = TRUE` TLC shows it in a few steps.

Met while modelling, and not the subject of a run:

* `Rotation.Write` ignores the error of the buffer (`zaproll.go:125`): what the file has not
  taken is dropped, and so is all that comes later, because the error is sticky; `Write`
  goes on returning `len(p), nil`. `NoGap` excuses it (`~bufErr`).
* `New` changes the `Config` of its caller (`config.go:64`), and the `Rotation` keeps the
  pointer. A second `New` with the same `Config` multiplies its sizes again, also those
  the first `Rotation` compares with (`zaproll.go:154`, 161). `AdjustedOnce` holds for a
  `Developed` one only; without that premise TLC refutes it at the second `New`.
* After a `Panic`, `Close` may return before the process ends: the deferred `loopWg.Done()`
  (`nanozap.go:81`) runs while the panic unwinds the loop. The core is done with the entry by then.
* If the write of a `Panic` or `Fatal` message fails, `ioCore.Write` returns before its `Sync`
  (`core.go:81`), and the process ends with earlier messages not synced. `CrashIsLogged` excuses it.
* Backups of one second are in no order (`backup.go:32`): the newest may be removed first.
  `RemovesOldest` compares seconds, as the code does.
* `Logger.Sync` does not wait for the messages in the ring (`nanozap.go:220`).
* `DurationEncoder.UnmarshalText` gives seconds for an unknown text (`encoder.go:140`), its
  comment says nanoseconds (`encoder.go:130`).
* `Field.Equals` compares two `Stringer`s with `==` (`zapcore/field.go:188`), which panics if
  they hold slices or maps; in `Fields` they hold pointers.

## Plan

Done: `RandRing` with `LossyFifo`, `Logger` with `LevelText`, `WriteSyncers` and
`Output`, `Rotation` with `LogStream` and `Config`, `JsonEncoder` with `Fields`. Proved:
every safety property, action property and refinement that a passing run checks.

What could follow, as the code changes: an abstract specification of the Logger
(the messages in its output as a part of those in the queue of `LossyFifo`, through
the refinement already proved), and the encoder with namespaces in marshalers
once finding 8 is settled.

## Not modelled

* Escaping of strings, digits of numbers, formats of times and durations, texts
  of the names of backups: conversions of one value that keep no state.
* The clock of a `Rotation` being set back. (`LocalTime` needs no case of its own: the zone is in
  the name, so that the name still tells the time.)
* A machine that crashes: what of the page cache reaches the disk.
* The interfaces in `encoder.go` and `marshaler.go`, which have no code.
