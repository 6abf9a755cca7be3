---------------------------- MODULE ConfigProofs ----------------------------
(***************************************************************************)
(* What adjust makes of every Config whose sizes do not come near the      *)
(* largest integer, for every size of a page, every unit and every         *)
(* default.                                                                *)
(***************************************************************************)
EXTENDS Config, TLAPS

-----------------------------------------------------------------------------
(***************************************************************************)
(* Arithmetic.                                                             *)
(***************************************************************************)

\* A product of positive integers is positive.
LEMMA PositiveProduct ==
  ASSUME NEW a \in Nat \ {0}, NEW b \in Nat \ {0}
  PROVE  a * b \in Nat /\ a * b > 0
  OBVIOUS

\* The offset in a page, and the number of pages.
LEMMA PageOf ==
  ASSUME NEW n \in Nat
  PROVE  /\ n \div pageSize \in Nat
         /\ n % pageSize \in 0..(pageSize - 1)
         /\ n - (n % pageSize) = (n \div pageSize) * pageSize
  BY ConfigAssumption

\* alignToPage of a size that fits: the first multiple of the page from n on.
LEMMA AlignedSize ==
  ASSUME NEW n \in Nat, n + pageSize <= MaxInt
  PROVE  /\ alignToPage(n) \in Nat
         /\ n <= alignToPage(n) /\ alignToPage(n) < n + pageSize
         /\ \E pages \in 0..alignToPage(n) : alignToPage(n) = pages * pageSize
  <1> DEFINE m == n + pageSize - 1
  <1>1. m \in Nat /\ m \in (-MaxInt - 1)..MaxInt
    BY ConfigAssumption
  <1>2. alignToPage(n) = m - (m % pageSize)
    BY <1>1, ConfigAssumption DEF alignToPage, Wrapped
  <1>3. m % pageSize \in 0..(pageSize - 1)
    BY <1>1, PageOf
  <1>4. /\ alignToPage(n) \in Nat
        /\ n <= alignToPage(n) /\ alignToPage(n) < n + pageSize
    BY <1>2, <1>3, ConfigAssumption
  <1>5. m \div pageSize \in Nat /\ alignToPage(n) = (m \div pageSize) * pageSize
    BY <1>1, <1>2, PageOf
  <1>6. m \div pageSize <= (m \div pageSize) * pageSize
    BY <1>5, ConfigAssumption
  <1> QED BY <1>4, <1>5, <1>6

-----------------------------------------------------------------------------
(***************************************************************************)
(* Sizes.                                                                  *)
(***************************************************************************)

\* A size in bytes is positive, and does not wrap around.
LEMMA SizeInBytes ==
  ASSUME NEW n \in Int, NEW unit \in Nat \ {0}, NEW default \in Nat \ {0},
         n * unit + pageSize <= MaxInt
  PROVE  /\ OrDefault(n, unit, default) \in Nat \ {0}
         /\ OrDefault(n, unit, default) = IF n <= 0 THEN default ELSE n * unit
  <1>1. CASE n <= 0
    BY <1>1 DEF OrDefault
  <1>2. CASE n > 0
    <2>1. n * unit \in Nat \ {0}
      BY <1>2, PositiveProduct
    <2>2. n * unit \in (-MaxInt - 1)..MaxInt
      BY <2>1, ConfigAssumption
    <2>3. OrDefault(n, unit, default) = n * unit
      BY <1>2, <2>2 DEF OrDefault, Wrapped
    <2> QED BY <1>2, <2>1, <2>3
  <1> QED BY <1>1, <1>2

\* The sizes in bytes of a Config that fits: positive, and with room for a page.
LEMMA ScaledSizes ==
  ASSUME NEW c \in ConfigType, Fits(c), NEW s, s = Scaled(c)
  PROVE  /\ s \in ConfigType
         /\ s.Developed = c.Developed
         /\ s.MaxBackups > 0
         /\ c.MaxBackups > 0 => s.MaxBackups = c.MaxBackups
         /\ s.MaxSize \in Nat \ {0} /\ s.MaxSize + pageSize <= MaxInt
         /\ s.PerSyncSize \in Nat \ {0} /\ s.PerSyncSize + pageSize <= MaxInt
         /\ s.PerWriteSize \in Nat \ {0} /\ 2 * s.PerWriteSize + pageSize <= MaxInt
  <1> DEFINE k == Unit(c, kb)  m == Unit(c, mb)
  <1>1. k \in Nat \ {0} /\ m \in Nat \ {0}
    BY ConfigAssumption DEF Unit
  <1>2. /\ c.MaxSize \in Int /\ c.MaxBackups \in Int /\ c.PerWriteSize \in Int
        /\ c.PerSyncSize \in Int /\ c.Developed \in BOOLEAN
    BY DEF ConfigType
  <1>3. /\ c.MaxSize * m + pageSize <= MaxInt
        /\ c.PerSyncSize * m + pageSize <= MaxInt
        /\ 2 * (c.PerWriteSize * k) + pageSize <= MaxInt
    BY DEF Fits
  <1>4. /\ s.MaxSize = OrDefault(c.MaxSize, m, defaultMaxSize)
        /\ s.PerSyncSize = OrDefault(c.PerSyncSize, m, defaultPerSyncSize)
        /\ s.PerWriteSize = OrDefault(c.PerWriteSize, k, defaultPerWriteSize)
        /\ s.MaxBackups = IF c.MaxBackups <= 0 THEN defaultMaxBackups ELSE c.MaxBackups
        /\ s.Developed = c.Developed
    BY DEF Scaled
  <1>5. s.MaxSize \in Nat \ {0} /\ s.MaxSize + pageSize <= MaxInt
    <2>1. /\ s.MaxSize \in Nat \ {0}
          /\ s.MaxSize = IF c.MaxSize <= 0 THEN defaultMaxSize ELSE c.MaxSize * m
      BY <1>1, <1>2, <1>3, <1>4, SizeInBytes, ConfigAssumption, SMTT(30)
    <2> QED BY <2>1, <1>3, ConfigAssumption
  <1>6. s.PerSyncSize \in Nat \ {0} /\ s.PerSyncSize + pageSize <= MaxInt
    <2>1. /\ s.PerSyncSize \in Nat \ {0}
          /\ s.PerSyncSize = IF c.PerSyncSize <= 0 THEN defaultPerSyncSize
                                                   ELSE c.PerSyncSize * m
      BY <1>1, <1>2, <1>3, <1>4, SizeInBytes, ConfigAssumption, SMTT(30)
    <2> QED BY <2>1, <1>3, ConfigAssumption
  <1>7. s.PerWriteSize \in Nat \ {0} /\ 2 * s.PerWriteSize + pageSize <= MaxInt
    <2>1. CASE c.PerWriteSize <= 0
      <3>1. s.PerWriteSize = defaultPerWriteSize
        BY <2>1, <1>4 DEF OrDefault
      <3> QED BY <3>1, ConfigAssumption
    <2>2. CASE c.PerWriteSize > 0
      <3>1. c.PerWriteSize * k \in Nat \ {0}
        BY <2>2, <1>1, <1>2, PositiveProduct
      <3>2. c.PerWriteSize * k + pageSize <= MaxInt
        BY <3>1, <1>3, ConfigAssumption
      <3>3. s.PerWriteSize = c.PerWriteSize * k
        <4>1. c.PerWriteSize * k \in (-MaxInt - 1)..MaxInt
          BY <3>1, <3>2, ConfigAssumption
        <4>2. ~(c.PerWriteSize <= 0)
          BY <2>2, <1>2
        <4>3. s.PerWriteSize = Wrapped(c.PerWriteSize * k)
          BY <4>2, <1>4 DEF OrDefault
        <4> QED BY <4>1, <4>3 DEF Wrapped
      <3> QED BY <3>1, <3>3, <1>3
    <2> QED BY <2>1, <2>2, <1>2
  <1>8. s.MaxBackups > 0 /\ (c.MaxBackups > 0 => s.MaxBackups = c.MaxBackups)
    BY <1>2, <1>4, ConfigAssumption
  <1>9. s \in ConfigType
    <2>1. s.MaxBackups \in Int
      BY <1>2, <1>4, ConfigAssumption
    <2> QED BY <2>1, <1>2, <1>4, <1>5, <1>6, <1>7 DEF Scaled, ConfigType
  <1> QED BY <1>4, <1>5, <1>6, <1>7, <1>8, <1>9

\* The bytes between two hints before they are rounded up: two writes at least.
LEMMA SyncSizeFits ==
  ASSUME NEW c \in ConfigType, Fits(c), NEW s, s = Scaled(c)
  PROVE  /\ SyncSize(s) \in Nat \ {0} /\ SyncSize(s) + pageSize <= MaxInt
         /\ SyncSize(s) >= 2 * s.PerWriteSize
  <1>1. Wrapped(2 * s.PerWriteSize) = 2 * s.PerWriteSize
    BY ScaledSizes, ConfigAssumption DEF Wrapped
  <1> QED BY <1>1, ScaledSizes, ConfigAssumption DEF SyncSize

-----------------------------------------------------------------------------
(***************************************************************************)
(* The specification: until New is called twice a Config is what the       *)
(* application wrote, or that, adjusted.                                   *)
(***************************************************************************)

ConfigInv ==
  /\ given \in ConfigType
  /\ news \in Nat
  /\ news = 0 => cfg = given
  /\ news = 1 => cfg = Adjusted(given)
  /\ AdjustedOnce

\* Adjusting once more changes nothing in a Developed Config that fits.
LEMMA DevelopedStays ==
  ASSUME NEW c \in ConfigType, c.Developed, Fits(c)
  PROVE  Adjusted(Adjusted(c)) = Adjusted(c)
  <1> DEFINE s == Scaled(c)
  <1>1. /\ s \in ConfigType /\ s.Developed /\ s.MaxBackups > 0
        /\ s.MaxSize \in Nat \ {0} /\ s.MaxSize + pageSize <= MaxInt
        /\ s.PerSyncSize \in Nat \ {0} /\ s.PerSyncSize + pageSize <= MaxInt
        /\ s.PerWriteSize \in Nat \ {0} /\ 2 * s.PerWriteSize + pageSize <= MaxInt
    BY ScaledSizes
  <1>2. Adjusted(c) = s
    BY <1>1 DEF Adjusted
  <1>3. Adjusted(s) = Scaled(s)
    <2>1. Scaled(s).Developed = s.Developed
      BY DEF Scaled
    <2> QED BY <1>1, <2>1 DEF Adjusted
  <1>4. Unit(s, kb) = 1 /\ Unit(s, mb) = 1
    BY <1>1 DEF Unit
  <1>5. ASSUME NEW n \in Nat \ {0}, n + pageSize <= MaxInt, NEW d
        PROVE  OrDefault(n, 1, d) = n
    <2>1. n * 1 = n /\ n \in (-MaxInt - 1)..MaxInt
      BY <1>5, ConfigAssumption
    <2> QED BY <2>1, <1>5 DEF OrDefault, Wrapped
  <1>6. s.PerWriteSize + pageSize <= MaxInt
    BY <1>1, ConfigAssumption
  <1>7. /\ OrDefault(s.MaxSize, 1, defaultMaxSize) = s.MaxSize
        /\ OrDefault(s.PerWriteSize, 1, defaultPerWriteSize) = s.PerWriteSize
        /\ OrDefault(s.PerSyncSize, 1, defaultPerSyncSize) = s.PerSyncSize
    BY <1>1, <1>5, <1>6
  <1>8. s.MaxBackups \in Int /\ ~(s.MaxBackups <= 0)
    BY <1>1 DEF ConfigType
  <1>9. Scaled(s) = s
    <2> DEFINE t == Scaled(s)
    <2>1. t = [MaxSize |-> s.MaxSize, MaxBackups |-> s.MaxBackups,
               PerWriteSize |-> s.PerWriteSize, PerSyncSize |-> s.PerSyncSize,
               Developed |-> s.Developed]
      BY <1>4, <1>7, <1>8 DEF Scaled
    <2> HIDE DEF s
    <2> QED BY <2>1, <1>1 DEF ConfigType
  <1> QED BY <1>2, <1>3, <1>9

LEMMA ConfigInvHolds == ConfigSpec => []ConfigInv
  <1>1. ConfigInit => ConfigInv
    BY ConfigAssumption DEF ConfigInit, ConfigInv, AdjustedOnce
  <1>2. ConfigInv /\ [New]_confVars => ConfigInv'
    <2> SUFFICES ASSUME ConfigInv, [New]_confVars PROVE ConfigInv'
      OBVIOUS
    <2>1. CASE New
      <3>1. given' = given /\ news' = news + 1 /\ cfg' = Adjusted(cfg)
        BY <2>1 DEF New
      <3>2. given' \in ConfigType /\ news' \in Nat /\ news' # 0
        BY <3>1 DEF ConfigInv
      <3>3. news' = 1 => cfg' = Adjusted(given')
        BY <3>1 DEF ConfigInv
      <3>4. ASSUME given.Developed, Fits(given) PROVE cfg' = Adjusted(given)
        <4>1. CASE news = 0
          BY <4>1, <3>1 DEF ConfigInv
        <4>2. CASE news > 0
          <5>1. cfg = Adjusted(given)
            BY <4>2, <3>4 DEF ConfigInv, AdjustedOnce
          <5> QED BY <5>1, <3>1, <3>4, DevelopedStays DEF ConfigInv
        <4> QED BY <4>1, <4>2 DEF ConfigInv
      <3>5. AdjustedOnce'
        BY <3>1, <3>4 DEF AdjustedOnce, Fits, Unit
      <3> QED BY <3>2, <3>3, <3>5 DEF ConfigInv
    <2>2. CASE UNCHANGED confVars
      BY <2>2 DEF ConfigInv, confVars, AdjustedOnce, Fits, Unit
    <2> QED BY <2>1, <2>2
  <1> QED BY <1>1, <1>2, PTL DEF ConfigSpec

\* What New makes of a Developed Config it keeps, however often it is given it.
THEOREM AdjustsOnce == ConfigSpec => []AdjustedOnce
  <1>1. ConfigInv => AdjustedOnce
    BY DEF ConfigInv
  <1> QED BY <1>1, ConfigInvHolds, PTL

\* After New the sizes are positive, and the ones asked for, rounded up to the page.
THEOREM AdjustedAsAsked == ConfigSpec => []SizesAsAsked
  <1>1. ASSUME ConfigInv, news = 1, Fits(given)
        PROVE  /\ cfg.MaxBackups > 0
               /\ given.MaxBackups > 0 => cfg.MaxBackups = given.MaxBackups
               /\ SizeFor(cfg.MaxSize, Scaled(given).MaxSize, given.Developed)
               /\ SizeFor(cfg.PerWriteSize, Scaled(given).PerWriteSize, given.Developed)
               /\ cfg.MaxSize > 0 /\ cfg.PerWriteSize > 0 /\ cfg.PerSyncSize > 0
    <2> DEFINE s == Scaled(given)
    <2>1. given \in ConfigType /\ cfg = Adjusted(given)
      BY <1>1 DEF ConfigInv
    <2>2. /\ s \in ConfigType /\ s.Developed = given.Developed
          /\ s.MaxBackups > 0
          /\ given.MaxBackups > 0 => s.MaxBackups = given.MaxBackups
          /\ s.MaxSize \in Nat \ {0} /\ s.MaxSize + pageSize <= MaxInt
          /\ s.PerSyncSize \in Nat \ {0}
          /\ s.PerWriteSize \in Nat \ {0} /\ 2 * s.PerWriteSize + pageSize <= MaxInt
      BY <2>1, <1>1, ScaledSizes
    <2>3. CASE given.Developed
      <3>1. cfg = s
        BY <2>1, <2>2, <2>3 DEF Adjusted
      <3> QED BY <3>1, <2>2, <2>3 DEF SizeFor
    <2>4. CASE ~given.Developed
      <3>1. /\ cfg.MaxSize = alignToPage(s.MaxSize)
            /\ cfg.PerWriteSize = alignToPage(s.PerWriteSize)
            /\ cfg.PerSyncSize = alignToPage(SyncSize(s))
            /\ cfg.MaxBackups = s.MaxBackups
        BY <2>1, <2>2, <2>4 DEF Adjusted, Scaled
      <3>2. s.PerWriteSize + pageSize <= MaxInt
        BY <2>2, ConfigAssumption
      <3>3. SizeFor(cfg.MaxSize, s.MaxSize, FALSE)
        BY <3>1, <2>2, AlignedSize DEF SizeFor
      <3>4. SizeFor(cfg.PerWriteSize, s.PerWriteSize, FALSE)
        BY <3>1, <3>2, <2>2, AlignedSize DEF SizeFor
      <3>5. SyncSize(s) \in Nat \ {0} /\ SyncSize(s) + pageSize <= MaxInt
        BY <2>1, <1>1, SyncSizeFits
      <3>6. cfg.PerSyncSize > 0
        <4>1. cfg.PerSyncSize \in Nat /\ SyncSize(s) <= cfg.PerSyncSize
          BY <3>1, <3>5, AlignedSize
        <4> QED BY <4>1, <3>5
      <3>7. cfg.MaxSize > 0 /\ cfg.PerWriteSize > 0
        <4>1. /\ cfg.MaxSize \in Nat /\ s.MaxSize <= cfg.MaxSize
              /\ cfg.PerWriteSize \in Nat /\ s.PerWriteSize <= cfg.PerWriteSize
          BY <3>1, <3>2, <2>2, AlignedSize
        <4> QED BY <4>1, <2>2
      <3> QED BY <3>1, <3>3, <3>4, <3>6, <3>7, <2>2, <2>4 DEF SizeFor
    <2> QED BY <2>3, <2>4
  <1>2. ConfigInv => SizesAsAsked
    BY <1>1 DEF SizesAsAsked
  <1> QED BY <1>2, ConfigInvHolds, PTL

\* Hints to the kernel cover two writes, but for a page.
THEOREM HintsCoverWrites == ConfigSpec => []HintCoversWrites
  <1>1. ASSUME ConfigInv, news = 1, Fits(given), ~given.Developed
        PROVE  /\ cfg.PerSyncSize >= 2 * cfg.PerWriteSize - pageSize
               /\ cfg.PerSyncSize >= cfg.PerWriteSize
    <2> DEFINE s == Scaled(given)
    <2>1. given \in ConfigType /\ cfg = Adjusted(given)
      BY <1>1 DEF ConfigInv
    <2>2. /\ s.Developed = given.Developed
          /\ s.PerWriteSize \in Nat \ {0} /\ 2 * s.PerWriteSize + pageSize <= MaxInt
      BY <2>1, <1>1, ScaledSizes
    <2>3. /\ SyncSize(s) \in Nat \ {0} /\ SyncSize(s) + pageSize <= MaxInt
          /\ SyncSize(s) >= 2 * s.PerWriteSize
      BY <2>1, <1>1, SyncSizeFits
    <2>4. /\ cfg.PerWriteSize = alignToPage(s.PerWriteSize)
          /\ cfg.PerSyncSize = alignToPage(SyncSize(s))
      BY <2>1, <2>2, <1>1 DEF Adjusted, Scaled
    <2>5. /\ cfg.PerSyncSize \in Nat /\ SyncSize(s) <= cfg.PerSyncSize
          /\ \E n \in 0..cfg.PerSyncSize : cfg.PerSyncSize = n * pageSize
      BY <2>3, <2>4, AlignedSize
    <2>6. /\ cfg.PerWriteSize \in Nat /\ cfg.PerWriteSize < s.PerWriteSize + pageSize
          /\ \E n \in 0..cfg.PerWriteSize : cfg.PerWriteSize = n * pageSize
      <3>1. s.PerWriteSize + pageSize <= MaxInt
        BY <2>2, ConfigAssumption
      <3> QED BY <3>1, <2>2, <2>4, AlignedSize
    <2>7. PICK n \in Nat : cfg.PerSyncSize = n * pageSize
      BY <2>5
    <2>8. PICK m \in Nat : cfg.PerWriteSize = m * pageSize
      BY <2>6
    <2>9. 2 * cfg.PerWriteSize < cfg.PerSyncSize + 2 * pageSize
      BY <2>2, <2>3, <2>5, <2>6, ConfigAssumption
    <2>10. 2 * m < n + 2
      <3>1. (2 * m) * pageSize < (n + 2) * pageSize
        BY <2>7, <2>8, <2>9, ConfigAssumption
      <3>2. ASSUME 2 * m >= n + 2 PROVE FALSE
        <4>1. (2 * m - (n + 2)) * pageSize >= 0
          BY <3>2, ConfigAssumption
        <4> QED BY <4>1, <3>1, ConfigAssumption
      <3> QED BY <3>2
    <2>11. cfg.PerSyncSize >= 2 * cfg.PerWriteSize - pageSize
      <3>1. (n + 1 - 2 * m) * pageSize >= 0
        BY <2>10, ConfigAssumption
      <3> QED BY <3>1, <2>7, <2>8, ConfigAssumption
    <2>12. cfg.PerSyncSize >= cfg.PerWriteSize
      <3>1. m > 0 /\ n > 0
        BY <2>2, <2>3, <2>5, <2>7, <2>8, <2>4, AlignedSize, ConfigAssumption
      <3>2. n >= m
        BY <2>10, <3>1
      <3>3. (n - m) * pageSize >= 0
        BY <3>2, ConfigAssumption
      <3> QED BY <3>3, <2>7, <2>8, ConfigAssumption
    <2> QED BY <2>11, <2>12
  <1>2. ConfigInv => HintCoversWrites
    BY <1>1 DEF HintCoversWrites
  <1> QED BY <1>2, ConfigInvHolds, PTL
=============================================================================
