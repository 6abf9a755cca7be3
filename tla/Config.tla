------------------------------- MODULE Config -------------------------------
(***************************************************************************)
(* The Config of a Rotation (zaproll/config.go).  New is given a pointer   *)
(* to it and adjusts it in place: the sizes, in megabytes and kilobytes,   *)
(* become bytes, and multiples of a page.  Integers are int64 and wrap     *)
(* around.                                                                 *)
(***************************************************************************)
EXTENDS Integers

CONSTANTS
  MaxInt,              \* the largest integer
  kb, mb, pageSize,
  defaultMaxSize, defaultMaxBackups, defaultPerWriteSize, defaultPerSyncSize,
  GivenConfigs,        \* what applications write
  MaxNews              \* bound: calls of New with one Config

ConfigType ==
  [MaxSize : Int, MaxBackups : Int, PerWriteSize : Int, PerSyncSize : Int,
   Developed : BOOLEAN]

ASSUME ConfigAssumption ==
  /\ {kb, mb, pageSize, MaxInt, defaultMaxBackups} \subseteq Nat \ {0}
  /\ {defaultMaxSize, defaultPerWriteSize, defaultPerSyncSize} \subseteq Nat \ {0}
  /\ defaultMaxSize + pageSize <= MaxInt
  /\ defaultPerSyncSize + pageSize <= MaxInt
  /\ 2 * defaultPerWriteSize + pageSize <= MaxInt
  /\ GivenConfigs \subseteq ConfigType
  /\ MaxNews \in Nat

VARIABLES
  given,  \* what the application has written
  cfg,    \* what it has become
  news    \* calls of New with it

confVars == <<given, cfg, news>>

-----------------------------------------------------------------------------

Wrapped(n) ==
  IF n \in (-MaxInt - 1)..MaxInt THEN n
  ELSE ((n + MaxInt + 1) % (2 * (MaxInt + 1))) - (MaxInt + 1)

\* Mutant of alignToPage: sizes are rounded down.
AlignedDown(n) == n - (n % pageSize)

\* &^ clears the bits of the offset in the page.
alignToPage(n) ==
  LET m == Wrapped(n + pageSize - 1) IN m - (m % pageSize)

OrDefault(n, unit, default) == IF n <= 0 THEN default ELSE Wrapped(n * unit)

\* Mutant of Unit: sizes are always scaled.
UnitAlways(c, u) == u

Unit(c, u) == IF c.Developed THEN 1 ELSE u

\* The first half of adjust: defaults, and sizes in bytes.
Scaled(c) ==
  [MaxSize      |-> OrDefault(c.MaxSize, Unit(c, mb), defaultMaxSize),
   MaxBackups   |-> IF c.MaxBackups <= 0 THEN defaultMaxBackups ELSE c.MaxBackups,
   PerWriteSize |-> OrDefault(c.PerWriteSize, Unit(c, kb), defaultPerWriteSize),
   PerSyncSize  |-> OrDefault(c.PerSyncSize, Unit(c, mb), defaultPerSyncSize),
   Developed    |-> c.Developed]

\* Mutant of SyncSize: two writes are not made room for.
SyncSizeAsGiven(c) == c.PerSyncSize

SyncSize(c) ==
  IF c.PerSyncSize < Wrapped(2 * c.PerWriteSize) THEN Wrapped(2 * c.PerWriteSize)
  ELSE c.PerSyncSize

\* adjust
Adjusted(c) ==
  LET s == Scaled(c) IN
  IF s.Developed THEN s
  ELSE [s EXCEPT !.PerSyncSize = alignToPage(SyncSize(s)),
                 !.MaxSize = alignToPage(@),
                 !.PerWriteSize = alignToPage(@)]

ConfigInit ==
  /\ given \in GivenConfigs
  /\ cfg = given
  /\ news = 0

New ==
  /\ news < MaxNews
  /\ news' = news + 1
  /\ cfg' = Adjusted(cfg)
  /\ UNCHANGED given

ConfigSpec == ConfigInit /\ [][New]_confVars

-----------------------------------------------------------------------------
(***************************************************************************)
(* Properties                                                              *)
(***************************************************************************)

\* No size comes near the largest integer.
Fits(c) ==
  /\ c.MaxSize * Unit(c, mb) + pageSize <= MaxInt
  /\ c.PerSyncSize * Unit(c, mb) + pageSize <= MaxInt
  /\ 2 * (c.PerWriteSize * Unit(c, kb)) + pageSize <= MaxInt

\* A multiple of the page in the page of n, or n itself if this is Developed.
SizeFor(size, n, developed) ==
  IF developed THEN size = n
  ELSE /\ n <= size /\ size < n + pageSize
       /\ \E pages \in 0..size : size = pages * pageSize

\* After New, whatever is missing from a Config or negative in it, a Rotation has a
\* buffer to fill and a size to rotate at, and its sizes are those that were
\* asked for, rounded up to the page (config.go:29, 36, 39).
SizesAsAsked ==
  news = 1 /\ Fits(given) =>
    /\ cfg.MaxBackups > 0
    /\ given.MaxBackups > 0 => cfg.MaxBackups = given.MaxBackups
    /\ SizeFor(cfg.MaxSize, Scaled(given).MaxSize, given.Developed)
    /\ SizeFor(cfg.PerWriteSize, Scaled(given).PerWriteSize, given.Developed)
    /\ cfg.MaxSize > 0 /\ cfg.PerWriteSize > 0 /\ cfg.PerSyncSize > 0

\* A hint to the kernel is given every second write at most, but for the page that
\* rounding may take away: it never covers less than the last write.
HintCoversWrites ==
  news = 1 /\ Fits(given) /\ ~given.Developed =>
    /\ cfg.PerSyncSize >= 2 * cfg.PerWriteSize - pageSize
    /\ cfg.PerSyncSize >= cfg.PerWriteSize

\* Only a Developed Config may be given to New again, which leaves it as it is.  Any
\* other has its sizes multiplied once more.
AdjustedOnce == news > 0 /\ given.Developed /\ Fits(given) => cfg = Adjusted(given)
=============================================================================
