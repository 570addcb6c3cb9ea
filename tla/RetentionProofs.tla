-------------------------- MODULE RetentionProofs --------------------------
(***************************************************************************)
(* Theorems about Retention and Reports, for all bucket widths of which    *)
(* one divides the other, all retentions and limits of a pass, all ranges  *)
(* and chart sizes, and every run of the clock.  Types hold without a      *)
(* condition; that nothing is lost, that a row is complete and that a      *)
(* report misses nothing need every batch to be inserted within the grace  *)
(* of its stamp, MaxDelay <= Grace, which the program does not enforce:    *)
(* the run of RetentionLateBatch.cfg shows what happens otherwise.         *)
(*                                                                         *)
(* TierInv says of one set of tables where each committed sample is, by    *)
(* the two watermarks; it is kept by the insert, by each of the three      *)
(* passes of maintenance on its own, and by the clock.  CoverageInv adds   *)
(* what a reader relies on: only what has expired is missing from a tier,  *)
(* and the oldest rows go first.                                           *)
(***************************************************************************)
EXTENDS Reports, FiniteSetTheorems, TLAPS

----------------------------------------------------------------------------
(* Buckets. *)

\* Where a bucket of this width may start.
Aligned(x, width) == \E k \in Int : x = k * width

LEMMA FloorBucket ==
    ASSUME NEW t \in Int, NEW width \in Nat \ {0}
    PROVE  /\ floor_bucket(t, width) \in Int /\ Aligned(floor_bucket(t, width), width)
           /\ floor_bucket(t, width) <= t /\ t < floor_bucket(t, width) + width
BY DEF floor_bucket, Aligned

\* Two different starts are a width apart.
LEMMA AlignedApart ==
    ASSUME NEW width \in Nat \ {0}, NEW x, NEW y, Aligned(x, width), Aligned(y, width), x < y
    PROVE  x + width <= y
<1>1. PICK k \in Int : x = k * width
  BY DEF Aligned
<1>2. PICK l \in Int : y = l * width
  BY DEF Aligned
<1>3. k < l
  BY <1>1, <1>2
<1> QED BY <1>1, <1>2, <1>3

\* What lies in a bucket is rounded down to its start, and what does not is not.
LEMMA FloorOfAligned ==
    ASSUME NEW t \in Int, NEW width \in Nat \ {0}, NEW x \in Int, Aligned(x, width)
    PROVE  /\ x <= t <=> x <= floor_bucket(t, width)
           /\ InBucket(t, x, width) <=> floor_bucket(t, width) = x
<1> DEFINE f == floor_bucket(t, width)
<1>1. f \in Int /\ Aligned(f, width) /\ f <= t /\ t < f + width
  BY FloorBucket
<1> HIDE DEF f
<1>2. x < f => x + width <= f
  BY <1>1, AlignedApart
<1>3. f < x => f + width <= x
  BY <1>1, AlignedApart
<1> QED BY <1>1, <1>2, <1>3 DEF InBucket, f

LEMMA AlignedFloor ==
    ASSUME NEW x \in Int, NEW width \in Nat \ {0}
    PROVE  Aligned(x, width) <=> floor_bucket(x, width) = x
<1>1. Aligned(x, width) => floor_bucket(x, width) = x
  BY FloorOfAligned DEF InBucket
<1>2. floor_bucket(x, width) = x => Aligned(x, width)
  BY FloorBucket
<1> QED BY <1>1, <1>2

\* The widths of the two tiers: a quarter-hour begins with a minute.
LEMMA Widths ==
    /\ MinuteWidth \in Nat \ {0} /\ QuarterWidth \in Nat \ {0}
    /\ Grace \in Nat /\ MaxTime \in Nat /\ RollupBatch \in Nat \ {0} /\ MaxDelay \in Nat
BY RetentionAssumption

LEMMA QuarterIsMinute ==
    ASSUME NEW x, Aligned(x, QuarterWidth)
    PROVE  Aligned(x, MinuteWidth)
<1>1. PICK k \in Int : x = k * QuarterWidth
  BY DEF Aligned
<1> DEFINE l == QuarterWidth \div MinuteWidth
<1>2. QuarterWidth = l * MinuteWidth /\ l \in Int
  BY RetentionAssumption
<1> HIDE DEF l
<1>3. x = (k * l) * MinuteWidth /\ k * l \in Int
  <2>1. MinuteWidth \in Nat
    BY RetentionAssumption
  <2> QED BY <1>1, <1>2, <2>1
<1> QED BY <1>3 DEF Aligned

LEMMA Starts ==
    /\ \A b : b \in MinuteStarts <=> b \in Times /\ Aligned(b, MinuteWidth)
    /\ \A q : q \in QuarterStarts <=> q \in Times /\ Aligned(q, QuarterWidth)
    /\ Times \subseteq Nat /\ NoMark \notin Times /\ NoMark \in Int
    /\ QuarterStarts \subseteq MinuteStarts
<1>1. Times \subseteq Nat /\ NoMark \notin Times /\ NoMark \in Int
  BY Widths DEF Times, NoMark
<1>2. \A b : b \in MinuteStarts <=> b \in Times /\ Aligned(b, MinuteWidth)
  <2>1. \A b \in Times : b \in MinuteStarts <=> Aligned(b, MinuteWidth)
    BY <1>1, AlignedFloor, Widths DEF MinuteStarts
  <2> QED BY <2>1 DEF MinuteStarts
<1>3. \A q : q \in QuarterStarts <=> q \in Times /\ Aligned(q, QuarterWidth)
  <2>1. \A q \in Times : q \in QuarterStarts <=> Aligned(q, QuarterWidth)
    BY <1>1, AlignedFloor, Widths DEF QuarterStarts
  <2> QED BY <2>1 DEF QuarterStarts
<1> QED BY <1>1, <1>2, <1>3, QuarterIsMinute

LEMMA TimeType == \A t \in Times : t \in Int /\ t \in Nat /\ t <= MaxTime
BY Widths DEF Times

LEMMA StartType ==
    /\ \A b \in MinuteStarts : b \in Times /\ b \in Int /\ Aligned(b, MinuteWidth)
    /\ \A q \in QuarterStarts : q \in Times /\ q \in Int /\ Aligned(q, QuarterWidth)
BY Starts, TimeType

\* The bucket of a time.
LEMMA BucketOf ==
    ASSUME NEW t \in Times
    PROVE  /\ floor_bucket(t, MinuteWidth) \in MinuteStarts
           /\ floor_bucket(t, QuarterWidth) \in QuarterStarts
           /\ InBucket(t, floor_bucket(t, MinuteWidth), MinuteWidth)
           /\ InBucket(t, floor_bucket(t, QuarterWidth), QuarterWidth)
<1>1. t \in Nat /\ t \in Int /\ t <= MaxTime
  BY Starts, Widths DEF Times
<1>2. ASSUME NEW width \in Nat \ {0}
      PROVE  /\ floor_bucket(t, width) \in Times /\ Aligned(floor_bucket(t, width), width)
             /\ InBucket(t, floor_bucket(t, width), width)
  <2> DEFINE f == floor_bucket(t, width)
  <2>1. f \in Int /\ Aligned(f, width) /\ f <= t /\ t < f + width
    BY <1>1, FloorBucket
  <2>2. Aligned(0, width)
    BY DEF Aligned
  <2>3. 0 <= f
    BY <1>1, <2>2, FloorOfAligned
  <2> HIDE DEF f
  <2>4. f \in Times
    BY <1>1, <2>1, <2>3, Widths DEF Times
  <2> QED BY <2>1, <2>4 DEF InBucket, f
<1> QED BY <1>2, Starts, Widths

\* By the well-founded order of the natural numbers.
LEMMA NatMin ==
    ASSUME NEW S, S \subseteq Nat, S # {}
    PROVE  \E x \in S : \A y \in S : x <= y
<1> DEFINE R == OpToRel(<, Nat)
<1>1. \A a, b \in Nat : a < b => <<a, b>> \in R
  BY Zenon DEF OpToRel
<1>2. IsWellFoundedOn(R, Nat)
  BY NatLessThanWellFounded, Zenon
<1> HIDE DEF R
<1>3. PICK x \in S : \A y \in S : ~ (<<y, x>> \in R)
  BY <1>2, WFMin, Zenon
<1>4. \A y \in S : ~(y < x)
  BY <1>1, <1>3, Zenon
<1> QED BY <1>3, <1>4

\* A set of numbers that is not empty has a smallest.
LEMMA EarliestIn ==
    ASSUME NEW S, S \subseteq Nat, S # {}
    PROVE  Earliest(S) \in S /\ \A x \in S : Earliest(S) <= x
<1>1. \E x \in S : \A y \in S : x <= y
  BY NatMin
<1> QED BY <1>1 DEF Earliest

----------------------------------------------------------------------------
(* Watermarks: where a pass begins, and where it stops. *)

LEMMA InitialMarkIs ==
    ASSUME NEW mark \in Times \cup {NoMark}, NEW starts, starts \subseteq Times,
           NEW width \in Nat \ {0}
    PROVE  LET m == InitialMark(mark, starts, width)
           IN  /\ m \in Times \cup {NoMark}
               /\ mark # NoMark => m = mark
               /\ m = NoMark <=> mark = NoMark /\ starts = {}
               /\ mark = NoMark /\ starts # {} =>
                     /\ Aligned(m, width)
                     /\ \A x \in starts : m <= x /\ m <= floor_bucket(x, width)
<1> DEFINE m == InitialMark(mark, starts, width)
<1>1. CASE mark # NoMark
  BY <1>1 DEF InitialMark
<1>2. CASE mark = NoMark /\ starts = {}
  BY <1>2 DEF InitialMark
<1>3. CASE mark = NoMark /\ starts # {}
  <2> DEFINE e == Earliest(starts)
  <2>1. m = floor_bucket(e, width)
    BY <1>3 DEF InitialMark
  <2>2. starts \subseteq Nat
    BY Starts
  <2>3. e \in starts /\ e \in Times /\ e \in Nat /\ \A x \in starts : e <= x
    BY <1>3, <2>2, EarliestIn
  <2> HIDE DEF e
  <2>4. m \in Int /\ Aligned(m, width) /\ m <= e
    BY <2>1, <2>3, FloorBucket
  <2>5. 0 <= m
    <3>1. Aligned(0, width)
      BY DEF Aligned
    <3> QED BY <2>1, <2>3, <3>1, FloorOfAligned
  <2>6. e <= MaxTime
    BY <2>3, Widths DEF Times
  <2> HIDE DEF m
  <2>7. m \in Times /\ m # NoMark
    BY <2>3, <2>4, <2>5, <2>6, Widths DEF Times, NoMark
  <2>8. \A x \in starts : m <= x /\ m <= floor_bucket(x, width)
    <3> SUFFICES ASSUME NEW x \in starts PROVE m <= x /\ m <= floor_bucket(x, width)
      OBVIOUS
    <3>1. x \in Int /\ m <= x
      BY <2>2, <2>3, <2>4
    <3> QED BY <2>4, <3>1, FloorOfAligned
  <2> QED BY <1>3, <2>4, <2>7, <2>8 DEF m
<1> QED BY <1>1, <1>2, <1>3

LEMMA InitialMarkIsStart ==
    ASSUME NEW mark \in Times \cup {NoMark}, NEW starts, starts \subseteq Times,
           NEW width \in Nat \ {0}, NEW m, m = InitialMark(mark, starts, width), m # NoMark
    PROVE  /\ m \in Times
           /\ mark # NoMark => m = mark
           /\ mark = NoMark => starts # {} /\ Aligned(m, width)
BY InitialMarkIs

LEMMA InitialMarkIsLow ==
    ASSUME NEW starts, starts \subseteq Times, NEW width \in Nat \ {0}, NEW x \in starts
    PROVE  InitialMark(NoMark, starts, width) <= x
<1>1. starts # {} /\ NoMark \in Times \cup {NoMark}
  OBVIOUS
<1> QED BY <1>1, InitialMarkIs

\* A pass stops where it began, or at a later start of a bucket that is not past the cutoff.
LEMMA AdvanceIs ==
    ASSUME NEW width \in Nat \ {0}, NEW cursor \in Int, Aligned(cursor, width),
           NEW cutoff \in Int, Aligned(cutoff, width)
    PROVE  LET e == Advance(cursor, cutoff, width)
           IN  /\ e \in Int /\ Aligned(e, width)
               /\ e = cursor \/ (cursor < e /\ e <= cutoff)
<1> DEFINE step == RollupBatch * width
<1>1. step \in Nat /\ step > 0
  BY Widths
<1>2. Aligned(cursor + step, width)
  <2>1. PICK k \in Int : cursor = k * width
    BY DEF Aligned
  <2>2. cursor + step = (k + RollupBatch) * width /\ k + RollupBatch \in Int
    BY <2>1, Widths
  <2> QED BY <2>2 DEF Aligned
<1> HIDE DEF step
<1>3. Advance(cursor, cutoff, width) =
          IF cursor >= cutoff THEN cursor ELSE Lesser(cutoff, cursor + step)
  BY DEF Advance, step
<1> QED BY <1>1, <1>2, <1>3 DEF Lesser

LEMMA CutoffIs ==
    ASSUME NEW n \in Times, NEW width \in Nat \ {0}
    PROVE  /\ floor_bucket(n - Grace, width) \in Int
           /\ Aligned(floor_bucket(n - Grace, width), width)
           /\ floor_bucket(n - Grace, width) <= n - Grace
BY FloorBucket, Widths, Starts

----------------------------------------------------------------------------
(* The passes, as the records they leave. *)

LEMMA TablesRecord ==
    ASSUME NEW s \in Tables
    PROVE  /\ s = [raw |-> s.raw, minute |-> s.minute, quarter |-> s.quarter,
                   minuteMark |-> s.minuteMark, quarterMark |-> s.quarterMark]
           /\ s.raw \subseteq Times
           /\ s.minute \in [MinuteStarts -> SUBSET Times]
           /\ s.quarter \in [QuarterStarts -> SUBSET Times]
           /\ s.minuteMark \in Times \cup {NoMark} /\ s.quarterMark \in Times \cup {NoMark}
           /\ Rows(s.minute) \subseteq MinuteStarts /\ Rows(s.minute) \subseteq Times
           /\ Rows(s.quarter) \subseteq QuarterStarts
BY Starts DEF Tables, Rows

LEMMA RolledUpIs ==
    ASSUME NEW D, NEW rollups \in [D -> SUBSET Times], NEW cursor, NEW end,
           NEW samples \in [D -> SUBSET Times]
    PROVE  /\ RolledUp(rollups, cursor, end, samples) \in [D -> SUBSET Times]
           /\ \A b \in D : RolledUp(rollups, cursor, end, samples)[b] =
                 IF cursor <= b /\ b < end /\ samples[b] # {} THEN samples[b] ELSE rollups[b]
BY DEF RolledUp

RawOfMinutes(s) == [b \in MinuteStarts |-> {t \in s.raw : InBucket(t, b, MinuteWidth)}]
MinutesOfQuarters(s) ==
    [q \in QuarterStarts |->
        UNION {s.minute[b] : b \in {b \in MinuteStarts : InBucket(b, q, QuarterWidth)}}]

LEMMA RollUpMinutesIs ==
    ASSUME NEW s \in Tables
    PROVE  LET c == MinuteWatermark(s)
               e == Advance(c, MinuteCutoff, MinuteWidth)
           IN  roll_up_minutes(s) =
                  IF c = NoMark \/ e = c THEN s
                  ELSE [raw |-> s.raw, minute |-> RolledUp(s.minute, c, e, RawOfMinutes(s)),
                        quarter |-> s.quarter, minuteMark |-> e, quarterMark |-> s.quarterMark]
<1> DEFINE c == MinuteWatermark(s)
           e == Advance(c, MinuteCutoff, MinuteWidth)
           x == RolledUp(s.minute, c, e, RawOfMinutes(s))
           m == [s EXCEPT !.minute = x]
           r == s.raw
           q == s.quarter
           mm == s.minuteMark
           qm == s.quarterMark
           y == s.minute
<1>1. roll_up_minutes(s) = IF c = NoMark \/ e = c THEN s ELSE [m EXCEPT !.minuteMark = e]
  BY DEF roll_up_minutes, RawOfMinutes
<1>2. s = [raw |-> r, minute |-> y, quarter |-> q, minuteMark |-> mm, quarterMark |-> qm]
  BY TablesRecord
<1> HIDE DEF c, e, x, r, q, mm, qm, y
<1>3. m = [raw |-> r, minute |-> x, quarter |-> q, minuteMark |-> mm, quarterMark |-> qm]
  BY <1>2
<1> HIDE DEF m
<1>4. [m EXCEPT !.minuteMark = e] =
          [raw |-> r, minute |-> x, quarter |-> q, minuteMark |-> e, quarterMark |-> qm]
  BY <1>3
<1> QED BY <1>1, <1>4 DEF c, e, x, r, q, qm

LEMMA RollUpQuartersIs ==
    ASSUME NEW s \in Tables
    PROVE  LET c == QuarterWatermark(s)
               e == Advance(c, QuarterCutoff(s), QuarterWidth)
           IN  roll_up_quarters(s) =
                  IF MinuteWatermark(s) = NoMark \/ c = NoMark \/ e = c THEN s
                  ELSE [raw |-> s.raw, minute |-> s.minute,
                        quarter |-> RolledUp(s.quarter, c, e, MinutesOfQuarters(s)),
                        minuteMark |-> s.minuteMark, quarterMark |-> e]
<1> DEFINE c == QuarterWatermark(s)
           e == Advance(c, QuarterCutoff(s), QuarterWidth)
           x == RolledUp(s.quarter, c, e, MinutesOfQuarters(s))
           m == [s EXCEPT !.quarter = x]
           r == s.raw
           q == s.quarter
           mm == s.minuteMark
           qm == s.quarterMark
           y == s.minute
<1>1. roll_up_quarters(s) = IF MinuteWatermark(s) = NoMark \/ c = NoMark \/ e = c THEN s
                            ELSE [m EXCEPT !.quarterMark = e]
  BY DEF roll_up_quarters, MinutesOfQuarters
<1>2. s = [raw |-> r, minute |-> y, quarter |-> q, minuteMark |-> mm, quarterMark |-> qm]
  BY TablesRecord
<1> HIDE DEF c, e, x, r, q, mm, qm, y
<1>3. m = [raw |-> r, minute |-> y, quarter |-> x, minuteMark |-> mm, quarterMark |-> qm]
  BY <1>2
<1> HIDE DEF m
<1>4. [m EXCEPT !.quarterMark = e] =
          [raw |-> r, minute |-> y, quarter |-> x, minuteMark |-> mm, quarterMark |-> e]
  BY <1>3
<1> QED BY <1>1, <1>4 DEF c, e, x, r, y, mm

LEMMA WithoutExpiredIs ==
    ASSUME NEW s \in Tables, NEW keep
    PROVE  WithoutExpired(s, keep) =
              [raw |-> s.raw \ Oldest(RawExpired(s, keep), DeleteBatch),
               minute |-> WithoutOldest(s.minute, MinutesExpired(s, keep)),
               quarter |-> WithoutOldest(s.quarter, QuartersExpired(s, keep)),
               minuteMark |-> s.minuteMark, quarterMark |-> s.quarterMark]
<1> DEFINE x == s.raw \ Oldest(RawExpired(s, keep), DeleteBatch)
           y == WithoutOldest(s.minute, MinutesExpired(s, keep))
           z == WithoutOldest(s.quarter, QuartersExpired(s, keep))
           r == s.raw
           m == s.minute
           q == s.quarter
           mm == s.minuteMark
           qm == s.quarterMark
           s1 == [s EXCEPT !.raw = x]
           s2 == [s1 EXCEPT !.minute = y]
<1>1. WithoutExpired(s, keep) = [s2 EXCEPT !.quarter = z]
  BY DEF WithoutExpired
<1>2. s = [raw |-> r, minute |-> m, quarter |-> q, minuteMark |-> mm, quarterMark |-> qm]
  BY TablesRecord
<1> HIDE DEF x, y, z, r, m, q, mm, qm
<1>3. s1 = [raw |-> x, minute |-> m, quarter |-> q, minuteMark |-> mm, quarterMark |-> qm]
  BY <1>2
<1> HIDE DEF s1
<1>4. s2 = [raw |-> x, minute |-> y, quarter |-> q, minuteMark |-> mm, quarterMark |-> qm]
  BY <1>3
<1> HIDE DEF s2
<1>5. [s2 EXCEPT !.quarter = z] =
          [raw |-> x, minute |-> y, quarter |-> z, minuteMark |-> mm, quarterMark |-> qm]
  BY <1>4
<1> QED BY <1>1, <1>5 DEF x, y, z, mm, qm

----------------------------------------------------------------------------
(* The types of what the passes leave. *)

\* A watermark is the start of a bucket.
AlignedTables ==
    {s \in Tables : /\ s.minuteMark \in MinuteStarts \cup {NoMark}
                    /\ s.quarterMark \in QuarterStarts \cup {NoMark}}

LEMMA MinutePassMoves ==
    ASSUME NEW s \in AlignedTables, now \in Times, MinuteWatermark(s) # NoMark
    PROVE  LET c == MinuteWatermark(s)
               e == Advance(c, MinuteCutoff, MinuteWidth)
           IN  /\ c \in MinuteStarts /\ e \in MinuteStarts
               /\ e = c \/ (c < e /\ e <= now - Grace)
<1> DEFINE c == MinuteWatermark(s)
           e == Advance(c, MinuteCutoff, MinuteWidth)
           u == MinuteCutoff
<1>1. c \in MinuteStarts
  <2>1. s \in Tables /\ s.minuteMark \in MinuteStarts \cup {NoMark}
    BY DEF AlignedTables
  <2>2. s.raw \subseteq Times /\ s.minuteMark \in Times \cup {NoMark}
    BY <2>1, TablesRecord
  <2>3. c \in Times /\ (s.minuteMark # NoMark => c = s.minuteMark)
        /\ (s.minuteMark = NoMark => Aligned(c, MinuteWidth))
    BY <2>2, InitialMarkIsStart, Widths DEF MinuteWatermark
  <2> HIDE DEF c
  <2> QED BY <2>1, <2>3, Starts
<1>2. u \in Int /\ Aligned(u, MinuteWidth) /\ u <= now - Grace
  BY CutoffIs, Widths DEF MinuteCutoff
<1> HIDE DEF c, u
<1>3. c \in Int /\ c \in Times /\ Aligned(c, MinuteWidth)
  BY <1>1, StartType
<1>4. Advance(c, u, MinuteWidth) \in Int /\ Aligned(Advance(c, u, MinuteWidth), MinuteWidth)
      /\ (Advance(c, u, MinuteWidth) = c
            \/ (c < Advance(c, u, MinuteWidth) /\ Advance(c, u, MinuteWidth) <= u))
  BY <1>2, <1>3, AdvanceIs, Widths
<1>5. e = Advance(c, u, MinuteWidth)
  BY DEF u
<1> HIDE DEF e
<1>6. e \in Int /\ Aligned(e, MinuteWidth) /\ (e = c \/ (c < e /\ e <= now - Grace))
  BY <1>2, <1>3, <1>4, <1>5, Widths, Starts
<1>7. e \in Times
  BY <1>3, <1>6, Widths DEF Times
<1> QED BY <1>1, <1>6, <1>7, Starts DEF c, e

LEMMA QuarterPassMoves ==
    ASSUME NEW s \in AlignedTables, now \in Times,
           MinuteWatermark(s) # NoMark, QuarterWatermark(s) # NoMark
    PROVE  LET c == QuarterWatermark(s)
               e == Advance(c, QuarterCutoff(s), QuarterWidth)
           IN  /\ c \in QuarterStarts /\ e \in QuarterStarts
               /\ e = c \/ (c < e /\ e <= MinuteWatermark(s))
<1> DEFINE c == QuarterWatermark(s)
           e == Advance(c, QuarterCutoff(s), QuarterWidth)
           u == QuarterCutoff(s)
           m == MinuteWatermark(s)
<1>1. s \in Tables /\ s.quarterMark \in QuarterStarts \cup {NoMark}
  BY DEF AlignedTables
<1>2. c \in QuarterStarts
  <2>1. Rows(s.minute) \subseteq Times /\ s.quarterMark \in Times \cup {NoMark}
    BY <1>1, TablesRecord
  <2>2. c = InitialMark(s.quarterMark, Rows(s.minute), QuarterWidth)
    BY DEF QuarterWatermark
  <2>3. c \in Times /\ (s.quarterMark # NoMark => c = s.quarterMark)
        /\ (s.quarterMark = NoMark => Aligned(c, QuarterWidth))
    BY <2>1, <2>2, InitialMarkIsStart, Widths
  <2> HIDE DEF c
  <2> QED BY <1>1, <2>3, Starts
<1>3. m \in MinuteStarts /\ m \in Int
  <2>1. m \in MinuteStarts
    BY MinutePassMoves
  <2> HIDE DEF m
  <2> QED BY <2>1, StartType
<1>4. u \in Int /\ Aligned(u, QuarterWidth) /\ u <= m
  <2> HIDE DEF m
  <2> DEFINE v == floor_bucket(now - Grace, QuarterWidth)
             w == floor_bucket(m, QuarterWidth)
  <2>1. v \in Int /\ Aligned(v, QuarterWidth)
    BY CutoffIs, Widths
  <2>2. w \in Int /\ Aligned(w, QuarterWidth) /\ w <= m
    BY <1>3, FloorBucket, Widths
  <2>3. u = Lesser(v, w)
    BY DEF QuarterCutoff, m
  <2> HIDE DEF u, v, w
  <2> QED BY <1>3, <2>1, <2>2, <2>3 DEF Lesser
<1> HIDE DEF c, u, m
<1>5. c \in Int /\ c \in Times /\ Aligned(c, QuarterWidth)
  BY <1>2, StartType
<1>6. Advance(c, u, QuarterWidth) \in Int /\ Aligned(Advance(c, u, QuarterWidth), QuarterWidth)
      /\ (Advance(c, u, QuarterWidth) = c
            \/ (c < Advance(c, u, QuarterWidth) /\ Advance(c, u, QuarterWidth) <= u))
  BY <1>4, <1>5, AdvanceIs, Widths
<1>7. e = Advance(c, u, QuarterWidth)
  BY DEF u
<1> HIDE DEF e
<1>8. e \in Int /\ Aligned(e, QuarterWidth) /\ (e = c \/ (c < e /\ e <= m))
  BY <1>3, <1>4, <1>5, <1>6, <1>7
<1>9. e \in Times
  BY <1>3, <1>5, <1>8, Widths, Starts DEF Times
<1> QED BY <1>2, <1>8, <1>9, Starts DEF c, e, m

LEMMA RollUpMinutesType ==
    ASSUME NEW s \in AlignedTables, now \in Times
    PROVE  roll_up_minutes(s) \in AlignedTables
<1> DEFINE c == MinuteWatermark(s)
           e == Advance(c, MinuteCutoff, MinuteWidth)
           x == RolledUp(s.minute, c, e, RawOfMinutes(s))
<1>1. s \in Tables
  BY DEF AlignedTables
<1>2. roll_up_minutes(s) =
         IF c = NoMark \/ e = c THEN s
         ELSE [raw |-> s.raw, minute |-> x,
               quarter |-> s.quarter, minuteMark |-> e, quarterMark |-> s.quarterMark]
  BY <1>1, RollUpMinutesIs
<1>3. c # NoMark => e \in MinuteStarts
  BY MinutePassMoves
<1>4. x \in [MinuteStarts -> SUBSET Times]
  <2>1. s.raw \subseteq Times /\ s.minute \in [MinuteStarts -> SUBSET Times]
    BY <1>1, TablesRecord
  <2>2. RawOfMinutes(s) \in [MinuteStarts -> SUBSET Times]
    BY <2>1 DEF RawOfMinutes
  <2> QED BY <2>1, <2>2, RolledUpIs
<1> HIDE DEF c, e, x
<1>5. CASE c = NoMark \/ e = c
  BY <1>2, <1>5
<1>6. CASE ~ (c = NoMark \/ e = c)
  <2>1. e \in MinuteStarts /\ e \in Times
    BY <1>3, <1>6, Starts
  <2> QED BY <1>1, <1>2, <1>4, <1>6, <2>1, TablesRecord DEF AlignedTables, Tables
<1> QED BY <1>5, <1>6

LEMMA MinutesOfQuartersType ==
    ASSUME NEW s \in Tables
    PROVE  MinutesOfQuarters(s) \in [QuarterStarts -> SUBSET Times]
<1>1. s.minute \in [MinuteStarts -> SUBSET Times]
  BY TablesRecord
<1>2. \A q : UNION {s.minute[b] : b \in {b \in MinuteStarts : InBucket(b, q, QuarterWidth)}}
               \subseteq Times
  BY <1>1
<1> QED BY <1>2 DEF MinutesOfQuarters

LEMMA RollUpQuartersType ==
    ASSUME NEW s \in AlignedTables, now \in Times
    PROVE  roll_up_quarters(s) \in AlignedTables
<1> DEFINE c == QuarterWatermark(s)
           e == Advance(c, QuarterCutoff(s), QuarterWidth)
           x == RolledUp(s.quarter, c, e, MinutesOfQuarters(s))
<1>1. s \in Tables
  BY DEF AlignedTables
<1>2. roll_up_quarters(s) =
         IF MinuteWatermark(s) = NoMark \/ c = NoMark \/ e = c THEN s
         ELSE [raw |-> s.raw, minute |-> s.minute, quarter |-> x,
               minuteMark |-> s.minuteMark, quarterMark |-> e]
  BY <1>1, RollUpQuartersIs
<1>3. MinuteWatermark(s) # NoMark /\ c # NoMark => e \in QuarterStarts
  BY QuarterPassMoves
<1>4. x \in [QuarterStarts -> SUBSET Times]
  BY <1>1, TablesRecord, MinutesOfQuartersType, RolledUpIs
<1> HIDE DEF c, e, x
<1>5. CASE MinuteWatermark(s) = NoMark \/ c = NoMark \/ e = c
  BY <1>2, <1>5
<1>6. CASE ~ (MinuteWatermark(s) = NoMark \/ c = NoMark \/ e = c)
  <2>1. e \in QuarterStarts /\ e \in Times
    BY <1>3, <1>6, Starts
  <2>2. s.minuteMark \in MinuteStarts \cup {NoMark}
    BY DEF AlignedTables
  <2> QED BY <1>1, <1>2, <1>4, <1>6, <2>1, <2>2, TablesRecord DEF AlignedTables, Tables
<1> QED BY <1>5, <1>6

LEMMA WithoutOldestIs ==
    ASSUME NEW D, NEW rollups \in [D -> SUBSET Times], NEW expired
    PROVE  /\ WithoutOldest(rollups, expired) \in [D -> SUBSET Times]
           /\ \A b \in D : \/ WithoutOldest(rollups, expired)[b] = rollups[b]
                           \/ WithoutOldest(rollups, expired)[b] = {} /\ b \in expired
BY DEF WithoutOldest, Oldest

LEMMA WithoutExpiredType ==
    ASSUME NEW s \in AlignedTables, NEW keep
    PROVE  WithoutExpired(s, keep) \in AlignedTables
<1>1. s \in Tables /\ s.minuteMark \in MinuteStarts \cup {NoMark}
      /\ s.quarterMark \in QuarterStarts \cup {NoMark}
  BY DEF AlignedTables
<1> DEFINE x == s.raw \ Oldest(RawExpired(s, keep), DeleteBatch)
           y == WithoutOldest(s.minute, MinutesExpired(s, keep))
           z == WithoutOldest(s.quarter, QuartersExpired(s, keep))
<1>2. WithoutExpired(s, keep) =
         [raw |-> x, minute |-> y, quarter |-> z,
          minuteMark |-> s.minuteMark, quarterMark |-> s.quarterMark]
  BY <1>1, WithoutExpiredIs
<1>3. x \subseteq Times /\ y \in [MinuteStarts -> SUBSET Times]
      /\ z \in [QuarterStarts -> SUBSET Times]
  BY <1>1, TablesRecord, WithoutOldestIs
<1> HIDE DEF x, y, z
<1> QED BY <1>1, <1>2, <1>3, TablesRecord DEF AlignedTables, Tables

LEMMA MaintainedType ==
    ASSUME NEW s \in AlignedTables, NEW keep, now \in Times
    PROVE  Maintained(s, keep) \in AlignedTables
BY RollUpMinutesType, RollUpQuartersType, WithoutExpiredType DEF Maintained

LEMMA WithRawIs ==
    ASSUME NEW s \in AlignedTables, NEW t \in Times
    PROVE  /\ WithRaw(s, t) \in AlignedTables
           /\ WithRaw(s, t) = [raw |-> s.raw \cup {t}, minute |-> s.minute,
                               quarter |-> s.quarter, minuteMark |-> s.minuteMark,
                               quarterMark |-> s.quarterMark]
<1> DEFINE x == s.raw \cup {t}
           r == s.raw
           m == s.minute
           q == s.quarter
           mm == s.minuteMark
           qm == s.quarterMark
<1>1. s \in Tables /\ mm \in MinuteStarts \cup {NoMark} /\ qm \in QuarterStarts \cup {NoMark}
  BY DEF AlignedTables
<1>2. s = [raw |-> r, minute |-> m, quarter |-> q, minuteMark |-> mm, quarterMark |-> qm]
      /\ r \subseteq Times /\ m \in [MinuteStarts -> SUBSET Times]
      /\ q \in [QuarterStarts -> SUBSET Times]
      /\ mm \in Times \cup {NoMark} /\ qm \in Times \cup {NoMark}
  BY <1>1, TablesRecord
<1>3. WithRaw(s, t) = [s EXCEPT !.raw = x]
  BY DEF WithRaw
<1>4. x \subseteq Times
  BY <1>2
<1> HIDE DEF x, r, m, q, mm, qm
<1>5. WithRaw(s, t) = [raw |-> x, minute |-> m, quarter |-> q, minuteMark |-> mm,
                       quarterMark |-> qm]
  BY <1>2, <1>3
<1>6. WithRaw(s, t) \in AlignedTables
  BY <1>1, <1>2, <1>4, <1>5 DEF AlignedTables, Tables
<1> QED BY <1>5, <1>6 DEF x, r, m, q, mm, qm

----------------------------------------------------------------------------
(* The types of the variables. *)

TypeInv ==
    /\ TypeOK
    /\ metrics \in AlignedTables /\ processes \in AlignedTables

LEMMA InitType == Init => TypeInv
<1> SUFFICES ASSUME Init PROVE TypeInv
  OBVIOUS
<1>1. NoRows \in AlignedTables
  BY DEF NoRows, AlignedTables, Tables
<1>2. 0 \in Times
  BY Widths DEF Times
<1>3. Len(queue) <= Capacity /\ queue \in Seq(Times)
  BY RetentionAssumption DEF Init
<1> QED BY <1>1, <1>2, <1>3 DEF Init, TypeInv, TypeOK, AlignedTables

LEMMA TypeStep ==
    ASSUME TypeInv, [Next]_vars
    PROVE  TypeInv'
<1>0. metrics \in AlignedTables /\ processes \in AlignedTables /\ now \in Times
      /\ queue \in Seq(Times) /\ Len(queue) <= Capacity /\ Capacity \in Nat
      /\ inserted \subseteq Times /\ \A s \in AlignedTables : s \in Tables
  BY RetentionAssumption DEF TypeInv, TypeOK, AlignedTables
<1>1. CASE UNCHANGED vars
  BY <1>1 DEF TypeInv, TypeOK, vars, tables
<1>2. CASE Tick
  <2>1. now + 1 \in Times
    BY <1>0, <1>2, Widths DEF Tick, Times
  <2> QED BY <1>2, <2>1 DEF TypeInv, TypeOK, Tick, tables
<1>3. CASE SendBatch
  <2>1. queue' \in Seq(Times) /\ Len(queue') <= Capacity
    BY <1>0, <1>3 DEF SendBatch
  <2> QED BY <1>3, <2>1 DEF TypeInv, TypeOK, SendBatch, tables
<1>4. CASE InsertBatch
  <2>1. queue # <<>>
    BY <1>4 DEF InsertBatch
  <2>2. Head(queue) \in Times /\ Tail(queue) \in Seq(Times) /\ Len(Tail(queue)) <= Capacity
    BY <1>0, <2>1
  <2>3. metrics' \in AlignedTables /\ processes' \in AlignedTables /\ inserted' \subseteq Times
    BY <1>0, <1>4, <2>2, WithRawIs DEF InsertBatch
  <2> QED BY <1>0, <1>4, <2>2, <2>3 DEF TypeInv, TypeOK, InsertBatch
<1>5. CASE RunMaintenance
  <2>1. metrics' \in AlignedTables /\ processes' \in AlignedTables
    BY <1>0, <1>5, MaintainedType DEF RunMaintenance, MetricsMaintained, ProcessesMaintained
  <2> QED BY <1>0, <1>5, <2>1 DEF TypeInv, TypeOK, RunMaintenance
<1>6. CASE SkipMaintenance
  BY <1>6 DEF TypeInv, TypeOK, SkipMaintenance, tables
<1>7. CASE Restart
  <2>1. queue' \in Seq(Times) /\ Len(queue') <= Capacity
    BY <1>0, <1>7 DEF Restart
  <2> QED BY <1>7, <2>1 DEF TypeInv, TypeOK, Restart, tables
<1> QED BY <1>1, <1>2, <1>3, <1>4, <1>5, <1>6, <1>7 DEF Next

LEMMA TypeInvariant == Spec => []TypeInv
BY InitType, TypeStep, PTL DEF Spec

\* A watermark is a time, a row lies at the start of its bucket, and the channel keeps its
\* capacity.
THEOREM TypeCorrect == Spec => []TypeOK
<1>1. TypeInv => TypeOK
  BY DEF TypeInv
<1> QED BY <1>1, TypeInvariant, PTL

----------------------------------------------------------------------------
(* Where the samples are. *)

\* Every sample that was committed is raw unless the minutes' watermark has passed it, then in
\* its minute's row unless the quarter-hours' watermark has passed it as well, then in its
\* quarter-hour's row until that has expired; and a row behind its watermark has all samples.
\* No watermark is within the grace of n, the time.
TierInv(s, samples, keep, n) ==
    /\ s.raw \subseteq samples
    /\ s.minuteMark # NoMark => s.minuteMark <= n - Grace
    /\ s.quarterMark <= s.minuteMark
    /\ \A t \in samples :
          /\ t < s.minuteMark \/ t \in s.raw
          /\ t < s.minuteMark =>
                t < s.quarterMark \/ t \in s.minute[floor_bucket(t, MinuteWidth)]
          /\ t < s.quarterMark =>
                \/ t \in s.quarter[floor_bucket(t, QuarterWidth)]
                \/ floor_bucket(t, QuarterWidth) < n - keep["quarter"]
    /\ \A b \in Rows(s.minute) : b < s.minuteMark
    /\ \A q \in Rows(s.quarter) : q < s.quarterMark
    /\ CompleteRows(s.minute, MinuteWidth, samples)
    /\ CompleteRows(s.quarter, QuarterWidth, samples)

LEMMA AlignedTypes ==
    ASSUME NEW s \in AlignedTables
    PROVE  /\ s \in Tables /\ s.raw \subseteq Times
           /\ s.minute \in [MinuteStarts -> SUBSET Times]
           /\ s.quarter \in [QuarterStarts -> SUBSET Times]
           /\ s.minuteMark \in MinuteStarts \cup {NoMark} /\ s.minuteMark \in Int
           /\ s.quarterMark \in QuarterStarts \cup {NoMark} /\ s.quarterMark \in Int
           /\ Rows(s.minute) \subseteq MinuteStarts
           /\ Rows(s.quarter) \subseteq QuarterStarts
<1>1. s \in Tables /\ s.minuteMark \in MinuteStarts \cup {NoMark}
      /\ s.quarterMark \in QuarterStarts \cup {NoMark}
  BY DEF AlignedTables
<1>2. s.minuteMark \in Int /\ s.quarterMark \in Int
  BY <1>1, StartType, Starts
<1> QED BY <1>1, <1>2, TablesRecord

LEMMA BucketType ==
    ASSUME NEW t \in Times
    PROVE  /\ floor_bucket(t, MinuteWidth) \in MinuteStarts
           /\ floor_bucket(t, QuarterWidth) \in QuarterStarts
           /\ floor_bucket(t, MinuteWidth) \in Int /\ floor_bucket(t, QuarterWidth) \in Int
           /\ floor_bucket(t, MinuteWidth) <= t /\ floor_bucket(t, QuarterWidth) <= t
           /\ \A b \in MinuteStarts : /\ b <= t <=> b <= floor_bucket(t, MinuteWidth)
                                      /\ InBucket(t, b, MinuteWidth) <=>
                                            floor_bucket(t, MinuteWidth) = b
           /\ \A q \in QuarterStarts : /\ q <= t <=> q <= floor_bucket(t, QuarterWidth)
                                       /\ q <= t <=> q <= floor_bucket(t, MinuteWidth)
                                       /\ InBucket(t, q, QuarterWidth) <=>
                                             floor_bucket(t, QuarterWidth) = q
<1>1. t \in Int
  BY TimeType
<1>2. \A b \in MinuteStarts : /\ b <= t <=> b <= floor_bucket(t, MinuteWidth)
                              /\ InBucket(t, b, MinuteWidth) <=>
                                    floor_bucket(t, MinuteWidth) = b
  BY <1>1, FloorOfAligned, StartType, Widths
<1>3. \A q \in QuarterStarts : /\ q <= t <=> q <= floor_bucket(t, QuarterWidth)
                               /\ InBucket(t, q, QuarterWidth) <=>
                                     floor_bucket(t, QuarterWidth) = q
  BY <1>1, FloorOfAligned, StartType, Widths
<1>4. /\ floor_bucket(t, MinuteWidth) \in MinuteStarts
      /\ floor_bucket(t, QuarterWidth) \in QuarterStarts
  BY BucketOf
<1>5. floor_bucket(t, MinuteWidth) <= t /\ floor_bucket(t, QuarterWidth) <= t
  BY <1>1, FloorBucket, Widths
<1> QED BY <1>2, <1>3, <1>4, <1>5, Starts, StartType

LEMMA KeepType ==
    ASSUME NEW keep, ValidRetention(keep)
    PROVE  keep["quarter"] \in Nat /\ keep["minute"] \in Nat /\ keep["raw"] \in Nat
BY DEF ValidRetention, Tier

\* Time that passes takes nothing away.
LEMMA ClockKeeps ==
    ASSUME NEW s \in AlignedTables, NEW samples \in SUBSET Times, NEW keep,
           ValidRetention(keep), NEW n \in Times, TierInv(s, samples, keep, n)
    PROVE  TierInv(s, samples, keep, n + 1)
<1>1. n \in Int /\ Grace \in Int /\ s.minuteMark \in Int /\ keep["quarter"] \in Nat
  BY AlignedTypes, TimeType, Widths, KeepType
<1>2. s.minuteMark # NoMark => s.minuteMark <= (n + 1) - Grace
  BY <1>1 DEF TierInv
<1>3. ASSUME NEW t \in samples
      PROVE  floor_bucket(t, QuarterWidth) < n - keep["quarter"] =>
                floor_bucket(t, QuarterWidth) < (n + 1) - keep["quarter"]
  <2>1. floor_bucket(t, QuarterWidth) \in Int
    BY BucketType
  <2> QED BY <1>1, <2>1
<1> QED BY <1>2, <1>3 DEF TierInv

\* A batch that is within the grace is late for no row that has been written.
LEMMA InsertKeeps ==
    ASSUME NEW s \in AlignedTables, NEW samples \in SUBSET Times, NEW keep, NEW n \in Times,
           TierInv(s, samples, keep, n), NEW t \in Times, n - Grace <= t
    PROVE  TierInv(WithRaw(s, t), samples \cup {t}, keep, n)
<1> DEFINE r == WithRaw(s, t)
<1>1. /\ r.raw = s.raw \cup {t} /\ r.minute = s.minute /\ r.quarter = s.quarter
      /\ r.minuteMark = s.minuteMark /\ r.quarterMark = s.quarterMark
  BY WithRawIs
<1> HIDE DEF r
<1>2. /\ s.minuteMark \in Int /\ s.quarterMark \in Int /\ t \in Int
      /\ s.minuteMark # NoMark => s.minuteMark <= n - Grace
      /\ s.quarterMark <= s.minuteMark
      /\ NoMark < t
  BY AlignedTypes, TimeType, Starts DEF TierInv, NoMark
<1>3. s.minuteMark <= t /\ s.quarterMark <= t
  BY <1>2, TimeType, Widths
<1>4. ASSUME NEW b \in Rows(s.minute)
      PROVE  s.minute[b] = {u \in samples \cup {t} : InBucket(u, b, MinuteWidth)}
  <2>1. b \in MinuteStarts /\ b < s.minuteMark
        /\ s.minute[b] = {u \in samples : InBucket(u, b, MinuteWidth)}
    BY AlignedTypes DEF TierInv, CompleteRows
  <2>2. ~ InBucket(t, b, MinuteWidth)
    <3>1. b + MinuteWidth <= s.minuteMark
      <4>1. s.minuteMark # NoMark
        BY <2>1, Starts, StartType, TimeType DEF NoMark
      <4>2. s.minuteMark \in MinuteStarts
        BY <4>1, AlignedTypes
      <4> QED BY <2>1, <4>2, AlignedApart, StartType, Widths
    <3>2. b \in Int /\ MinuteWidth \in Int
      BY <2>1, StartType, Widths
    <3> QED BY <1>2, <1>3, <3>1, <3>2 DEF InBucket
  <2> QED BY <2>1, <2>2
<1>5. ASSUME NEW q \in Rows(s.quarter)
      PROVE  s.quarter[q] = {u \in samples \cup {t} : InBucket(u, q, QuarterWidth)}
  <2>1. q \in QuarterStarts /\ q < s.quarterMark
        /\ s.quarter[q] = {u \in samples : InBucket(u, q, QuarterWidth)}
    BY AlignedTypes DEF TierInv, CompleteRows
  <2>2. ~ InBucket(t, q, QuarterWidth)
    <3>1. q + QuarterWidth <= s.quarterMark
      <4>1. s.quarterMark # NoMark
        BY <2>1, Starts, StartType, TimeType DEF NoMark
      <4>2. s.quarterMark \in QuarterStarts
        BY <4>1, AlignedTypes
      <4> QED BY <2>1, <4>2, AlignedApart, StartType, Widths
    <3>2. q \in Int /\ QuarterWidth \in Int
      BY <2>1, StartType, Widths
    <3> QED BY <1>2, <1>3, <3>1, <3>2 DEF InBucket
  <2> QED BY <2>1, <2>2
<1>6. /\ CompleteRows(s.minute, MinuteWidth, samples \cup {t})
      /\ CompleteRows(s.quarter, QuarterWidth, samples \cup {t})
  BY <1>4, <1>5 DEF CompleteRows
<1>7. ~ (t < s.minuteMark) /\ ~ (t < s.quarterMark)
  BY <1>2, <1>3
<1>8. TierInv(r, samples \cup {t}, keep, n)
  BY <1>1, <1>6, <1>7 DEF TierInv
<1> QED BY <1>8 DEF r

\* The pass that rolls up minutes.
LEMMA MinutePassKeeps ==
    ASSUME NEW s \in AlignedTables, NEW samples \in SUBSET Times, NEW keep, now \in Times,
           TierInv(s, samples, keep, now)
    PROVE  TierInv(roll_up_minutes(s), samples, keep, now)
<1> DEFINE c == MinuteWatermark(s)
           e == Advance(c, MinuteCutoff, MinuteWidth)
           x == RolledUp(s.minute, c, e, RawOfMinutes(s))
           r == roll_up_minutes(s)
<1>1. CASE c = NoMark \/ e = c
  <2>1. r = s
    BY <1>1, RollUpMinutesIs, AlignedTypes
  <2> QED BY <2>1
<1>2. CASE ~ (c = NoMark \/ e = c)
  <2>1. c \in MinuteStarts /\ e \in MinuteStarts /\ c < e /\ e <= now - Grace /\ c \in Int
        /\ e \in Int /\ e # NoMark /\ NoMark < c /\ c \in Times /\ e \in Times
    <3>1. c \in MinuteStarts /\ e \in MinuteStarts /\ c < e /\ e <= now - Grace
      BY <1>2, MinutePassMoves
    <3> HIDE DEF c, e
    <3> QED BY <3>1, StartType, TimeType, Starts DEF NoMark
  <2>2. /\ r.raw = s.raw /\ r.minute = x /\ r.quarter = s.quarter
        /\ r.minuteMark = e /\ r.quarterMark = s.quarterMark
    <3>1. r = [raw |-> s.raw, minute |-> x, quarter |-> s.quarter, minuteMark |-> e,
               quarterMark |-> s.quarterMark]
      BY <1>2, RollUpMinutesIs, AlignedTypes
    <3> HIDE DEF r, x, e
    <3> QED BY <3>1
  <2> HIDE DEF r
  <2>3. \A b \in MinuteStarts :
           x[b] = IF c <= b /\ b < e /\ RawOfMinutes(s)[b] # {} THEN RawOfMinutes(s)[b]
                  ELSE s.minute[b]
    <3>1. RawOfMinutes(s) \in [MinuteStarts -> SUBSET Times]
      BY AlignedTypes DEF RawOfMinutes
    <3> QED BY <3>1, AlignedTypes, RolledUpIs
  <2>4. DOMAIN x = MinuteStarts
    BY AlignedTypes DEF RolledUp
  <2> HIDE DEF x, e
  <2>5. /\ s.minuteMark = NoMark \/ s.minuteMark = c
        /\ s.minuteMark = NoMark => s.raw # {} /\ \A t \in s.raw : c <= t
    <3>1. c = InitialMark(s.minuteMark, s.raw, MinuteWidth) /\ c # NoMark
      BY <1>2 DEF MinuteWatermark
    <3>2. s.raw \subseteq Times /\ s.minuteMark \in Times \cup {NoMark}
      BY AlignedTypes, StartType
    <3>3. /\ s.minuteMark # NoMark => c = s.minuteMark
          /\ s.minuteMark = NoMark => s.raw # {}
      BY <3>1, <3>2, InitialMarkIsStart, Widths
    <3>4. s.minuteMark = NoMark => \A t \in s.raw : c <= t
      BY <3>1, <3>2, InitialMarkIsLow, Widths
    <3> HIDE DEF c
    <3> QED BY <3>3, <3>4
  <2> HIDE DEF c
  <2>6. s.minuteMark \in Int /\ s.minuteMark <= c /\ s.quarterMark \in Int
        /\ s.quarterMark <= s.minuteMark
    BY <2>1, <2>5, AlignedTypes DEF TierInv
  <2>7. ASSUME NEW t \in samples
        PROVE  /\ t \in Times /\ t \in Int
               /\ t < c => t < s.minuteMark
               /\ c <= t => t \in s.raw
    <3>1. t \in Times /\ t \in Int /\ NoMark < t
      BY TimeType DEF NoMark
    <3>2. t < s.minuteMark \/ t \in s.raw
      BY DEF TierInv
    <3> QED BY <2>1, <2>5, <2>6, <3>1, <3>2
  <2>8. ASSUME NEW b \in MinuteStarts, c <= b, b < e
        PROVE  /\ RawOfMinutes(s)[b] = {t \in samples : InBucket(t, b, MinuteWidth)}
               /\ s.minute[b] = {}
    <3>1. b \in Int
      BY StartType
    <3>2. s.raw \subseteq samples
      BY DEF TierInv
    <3>3. \A t \in samples : InBucket(t, b, MinuteWidth) => t \in s.raw
      BY <2>1, <2>7, <2>8, <3>1 DEF InBucket
    <3>4. RawOfMinutes(s)[b] = {t \in s.raw : InBucket(t, b, MinuteWidth)}
      BY DEF RawOfMinutes
    <3>5. b \notin Rows(s.minute)
      BY <2>1, <2>6, <2>8, <3>1 DEF TierInv
    <3>6. DOMAIN s.minute = MinuteStarts
      BY AlignedTypes
    <3> QED BY <3>2, <3>3, <3>4, <3>5, <3>6 DEF Rows
  <2>9. ASSUME NEW b \in MinuteStarts, x[b] # {}
        PROVE  b < e /\ x[b] = {t \in samples : InBucket(t, b, MinuteWidth)}
    <3>1. CASE c <= b /\ b < e
      BY <2>3, <2>8, <2>9, <3>1
    <3>2. CASE ~ (c <= b /\ b < e)
      <4>1. b \in Rows(s.minute) /\ b \in Int /\ x[b] = s.minute[b]
        BY <2>3, <2>9, <3>2, AlignedTypes, StartType DEF Rows
      <4> QED BY <2>1, <2>6, <4>1 DEF TierInv, CompleteRows
    <3> QED BY <3>1, <3>2
  <2>10. (\A b \in Rows(x) : b < e) /\ CompleteRows(x, MinuteWidth, samples)
    BY <2>4, <2>9 DEF Rows, CompleteRows
  <2>11. ASSUME NEW t \in samples
         PROVE  /\ t < e \/ t \in s.raw
                /\ t < e => t < s.quarterMark \/ t \in x[floor_bucket(t, MinuteWidth)]
    <3> DEFINE f == floor_bucket(t, MinuteWidth)
    <3>1. t \in Times /\ t \in Int /\ (t < c => t < s.minuteMark) /\ (c <= t => t \in s.raw)
      BY <2>7
    <3>2. f \in MinuteStarts /\ f \in Int /\ f <= t /\ InBucket(t, f, MinuteWidth)
          /\ (c <= t <=> c <= f)
      BY <2>1, <3>1, BucketType
    <3>3. t < s.minuteMark => t < s.quarterMark \/ t \in s.minute[f]
      BY DEF TierInv
    <3> HIDE DEF f
    <3>4. CASE t < c
      <4>1. x[f] = s.minute[f]
        BY <2>1, <2>3, <3>1, <3>2, <3>4
      <4> QED BY <2>1, <3>1, <3>3, <3>4, <4>1 DEF f
    <3>5. CASE c <= t /\ t < e
      <4>1. c <= f /\ f < e
        BY <2>1, <3>1, <3>2, <3>5
      <4>2. t \in RawOfMinutes(s)[f]
        BY <2>8, <3>2, <4>1
      <4> QED BY <2>3, <3>1, <3>2, <3>5, <4>1, <4>2 DEF f
    <3>6. CASE e <= t
      BY <2>1, <3>1, <3>6
    <3> QED BY <2>1, <3>1, <3>4, <3>5, <3>6
  <2>12. s.quarterMark <= e
    BY <2>1, <2>6
  <2>13. TierInv(r, samples, keep, now)
    <3>1. /\ s.raw \subseteq samples
          /\ \A t \in samples : t < s.quarterMark =>
                \/ t \in s.quarter[floor_bucket(t, QuarterWidth)]
                \/ floor_bucket(t, QuarterWidth) < now - keep["quarter"]
          /\ \A q \in Rows(s.quarter) : q < s.quarterMark
          /\ CompleteRows(s.quarter, QuarterWidth, samples)
      BY DEF TierInv
    <3> QED BY <2>1, <2>2, <2>10, <2>11, <2>12, <3>1 DEF TierInv
  <2> QED BY <2>13 DEF r
<1> QED BY <1>1, <1>2

\* The pass that rolls up quarter-hours.
LEMMA QuarterPassKeeps ==
    ASSUME NEW s \in AlignedTables, NEW samples \in SUBSET Times, NEW keep, now \in Times,
           TierInv(s, samples, keep, now)
    PROVE  TierInv(roll_up_quarters(s), samples, keep, now)
<1> DEFINE m == MinuteWatermark(s)
           c == QuarterWatermark(s)
           e == Advance(c, QuarterCutoff(s), QuarterWidth)
           x == RolledUp(s.quarter, c, e, MinutesOfQuarters(s))
           r == roll_up_quarters(s)
<1>1. CASE m = NoMark \/ c = NoMark \/ e = c
  <2>1. r = s
    BY <1>1, RollUpQuartersIs, AlignedTypes
  <2> QED BY <2>1
<1>2. CASE ~ (m = NoMark \/ c = NoMark \/ e = c)
  <2>1. c \in QuarterStarts /\ e \in QuarterStarts /\ c < e /\ e <= m /\ c \in Int
        /\ e \in Int /\ e # NoMark /\ NoMark < c /\ c \in Times /\ e \in Times
    <3>1. c \in QuarterStarts /\ e \in QuarterStarts /\ c < e /\ e <= m
      BY <1>2, QuarterPassMoves
    <3> HIDE DEF c, e, m
    <3> QED BY <3>1, StartType, TimeType, Starts DEF NoMark
  <2>2. /\ r.raw = s.raw /\ r.minute = s.minute /\ r.quarter = x
        /\ r.minuteMark = s.minuteMark /\ r.quarterMark = e
    <3>1. r = [raw |-> s.raw, minute |-> s.minute, quarter |-> x,
               minuteMark |-> s.minuteMark, quarterMark |-> e]
      BY <1>2, RollUpQuartersIs, AlignedTypes
    <3> HIDE DEF r, x, e
    <3> QED BY <3>1
  <2> HIDE DEF r
  <2>3. \A q \in QuarterStarts :
           x[q] = IF c <= q /\ q < e /\ MinutesOfQuarters(s)[q] # {}
                  THEN MinutesOfQuarters(s)[q] ELSE s.quarter[q]
    BY AlignedTypes, MinutesOfQuartersType, RolledUpIs
  <2>4. DOMAIN x = QuarterStarts
    BY AlignedTypes DEF RolledUp
  <2> HIDE DEF x, e
  <2>5. /\ s.quarterMark = NoMark \/ s.quarterMark = c
        /\ s.quarterMark = NoMark =>
              Rows(s.minute) # {} /\ \A b \in Rows(s.minute) : c <= b
    <3>1. c = InitialMark(s.quarterMark, Rows(s.minute), QuarterWidth) /\ c # NoMark
      BY <1>2 DEF QuarterWatermark
    <3>2. Rows(s.minute) \subseteq Times /\ s.quarterMark \in Times \cup {NoMark}
      BY AlignedTypes, StartType
    <3>3. /\ s.quarterMark # NoMark => c = s.quarterMark
          /\ s.quarterMark = NoMark => Rows(s.minute) # {}
      BY <3>1, <3>2, InitialMarkIsStart, Widths
    <3>4. s.quarterMark = NoMark => \A b \in Rows(s.minute) : c <= b
      BY <3>1, <3>2, InitialMarkIsLow, Widths
    <3> HIDE DEF c
    <3> QED BY <3>3, <3>4
  <2>6. /\ s.minuteMark \in Int /\ s.quarterMark \in Int
        /\ s.quarterMark <= s.minuteMark /\ s.quarterMark <= c
        /\ s.minuteMark # NoMark
    <3>1. s.minuteMark \in Int /\ s.quarterMark \in Int /\ s.quarterMark <= s.minuteMark
          /\ s.quarterMark \in QuarterStarts \cup {NoMark}
      BY AlignedTypes DEF TierInv
    <3>2. \A b \in Rows(s.minute) : b \in Nat /\ b < s.minuteMark
      BY AlignedTypes, StartType, TimeType DEF TierInv
    <3>3. s.minuteMark # NoMark
      <4>1. CASE s.quarterMark = NoMark
        BY <2>5, <3>2, <4>1 DEF NoMark
      <4>2. CASE s.quarterMark # NoMark
        <5>1. s.quarterMark \in Nat
          BY <3>1, <4>2, StartType, TimeType
        <5> QED BY <3>1, <5>1 DEF NoMark
      <4> QED BY <4>1, <4>2
    <3> HIDE DEF c
    <3> QED BY <2>1, <2>5, <3>1, <3>3
  <2>7. m = s.minuteMark
    BY <2>6 DEF MinuteWatermark, InitialMark
  <2> HIDE DEF c, m
  <2>8. ASSUME NEW t \in samples
        PROVE  /\ t \in Times /\ t \in Int
               /\ t < c => t < s.quarterMark
               /\ c <= t /\ t < m => t \in s.minute[floor_bucket(t, MinuteWidth)]
    <3> DEFINE f == floor_bucket(t, MinuteWidth)
    <3>1. t \in Times /\ t \in Int /\ f \in MinuteStarts /\ f \in Int /\ f <= t
      BY TimeType, BucketType
    <3>2. t < m => t < s.quarterMark \/ t \in s.minute[f]
      BY <2>7 DEF TierInv
    <3> HIDE DEF f
    <3>3. ASSUME t < c PROVE t < s.quarterMark
      <4>1. t < m
        BY <2>1, <2>6, <2>7, <3>1, <3>3
      <4>2. t \in s.minute[f] => f \in Rows(s.minute)
        BY <3>1, AlignedTypes DEF Rows
      <4>3. f \in Rows(s.minute) => s.quarterMark # NoMark
        BY <2>1, <2>5, <3>1, <3>3
      <4>4. s.quarterMark # NoMark => s.quarterMark = c
        BY <2>5
      <4> QED BY <3>2, <3>3, <4>1, <4>2, <4>3, <4>4
    <3>4. c <= t /\ t < m => t \in s.minute[f]
      BY <2>1, <2>6, <3>1, <3>2
    <3> QED BY <3>1, <3>3, <3>4 DEF f
  <2>9. ASSUME NEW q \in QuarterStarts, c <= q, q < e
        PROVE  /\ MinutesOfQuarters(s)[q] = {t \in samples : InBucket(t, q, QuarterWidth)}
               /\ s.quarter[q] = {}
    <3>1. q \in Int /\ Aligned(q, QuarterWidth) /\ Aligned(q + QuarterWidth, MinuteWidth)
          /\ q + QuarterWidth <= e /\ QuarterWidth \in Nat /\ MinuteWidth \in Nat
      <4>1. q \in Int /\ Aligned(q, QuarterWidth) /\ Aligned(e, QuarterWidth)
        BY <2>1, StartType
      <4>2. q + QuarterWidth <= e
        BY <2>9, <4>1, AlignedApart, Widths
      <4>3. Aligned(q + QuarterWidth, QuarterWidth)
        <5>1. PICK k \in Int : q = k * QuarterWidth
          BY <4>1 DEF Aligned
        <5>2. q + QuarterWidth = (k + 1) * QuarterWidth /\ k + 1 \in Int
          BY <5>1, Widths
        <5> QED BY <5>2 DEF Aligned
      <4> QED BY <4>1, <4>2, <4>3, QuarterIsMinute, Widths
    <3> DEFINE B == {b \in MinuteStarts : InBucket(b, q, QuarterWidth)}
    <3>2. MinutesOfQuarters(s)[q] = UNION {s.minute[b] : b \in B}
      BY DEF MinutesOfQuarters
    <3>3. ASSUME NEW b \in B, NEW t \in s.minute[b]
          PROVE  t \in samples /\ InBucket(t, q, QuarterWidth)
      <4>1. b \in Rows(s.minute) /\ b \in MinuteStarts /\ b \in Int /\ Aligned(b, MinuteWidth)
            /\ q <= b /\ b < q + QuarterWidth
        BY <3>3, AlignedTypes, StartType DEF Rows, InBucket
      <4>2. t \in samples /\ InBucket(t, b, MinuteWidth) /\ t \in Int
        <5>1. t \in samples /\ InBucket(t, b, MinuteWidth)
          BY <3>3, <4>1 DEF TierInv, CompleteRows
        <5> QED BY <2>8, <5>1
      <4>3. b + MinuteWidth <= q + QuarterWidth
        BY <3>1, <4>1, AlignedApart, Widths
      <4> QED BY <3>1, <4>1, <4>2, <4>3 DEF InBucket
    <3>4. ASSUME NEW t \in samples, InBucket(t, q, QuarterWidth)
          PROVE  \E b \in B : t \in s.minute[b]
      <4> DEFINE f == floor_bucket(t, MinuteWidth)
      <4>1. t \in Times /\ t \in Int /\ q <= t /\ t < q + QuarterWidth
        BY <2>8, <3>4 DEF InBucket
      <4>2. f \in MinuteStarts /\ f \in Int /\ f <= t /\ q <= f
        BY <4>1, BucketType
      <4>3. c <= t /\ t < m
        <5>1. m \in Int
          BY <2>6, <2>7
        <5> QED BY <2>1, <2>9, <3>1, <4>1, <5>1
      <4>4. t \in s.minute[f]
        BY <2>8, <4>3
      <4> HIDE DEF f
      <4>5. f \in B
        BY <3>1, <4>1, <4>2 DEF InBucket
      <4> QED BY <4>4, <4>5
    <3>5. q \notin Rows(s.quarter)
      BY <2>1, <2>6, <2>9, <3>1 DEF TierInv
    <3>6. s.quarter[q] = {}
      BY <3>5, AlignedTypes DEF Rows
    <3> HIDE DEF B
    <3> QED BY <3>2, <3>3, <3>4, <3>6
  <2>10. ASSUME NEW q \in QuarterStarts, x[q] # {}
         PROVE  q < e /\ x[q] = {t \in samples : InBucket(t, q, QuarterWidth)}
    <3>1. CASE c <= q /\ q < e
      BY <2>3, <2>9, <2>10, <3>1
    <3>2. CASE ~ (c <= q /\ q < e)
      <4>1. q \in Rows(s.quarter) /\ q \in Int /\ x[q] = s.quarter[q]
        BY <2>3, <2>10, <3>2, AlignedTypes, StartType DEF Rows
      <4> QED BY <2>1, <2>6, <4>1 DEF TierInv, CompleteRows
    <3> QED BY <3>1, <3>2
  <2>11. (\A q \in Rows(x) : q < e) /\ CompleteRows(x, QuarterWidth, samples)
    BY <2>4, <2>10 DEF Rows, CompleteRows
  <2>12. ASSUME NEW t \in samples
         PROVE  /\ t < s.minuteMark => t < e \/ t \in s.minute[floor_bucket(t, MinuteWidth)]
                /\ t < e => \/ t \in x[floor_bucket(t, QuarterWidth)]
                            \/ floor_bucket(t, QuarterWidth) < now - keep["quarter"]
    <3> DEFINE f == floor_bucket(t, QuarterWidth)
    <3>1. t \in Times /\ t \in Int /\ (t < c => t < s.quarterMark)
          /\ (c <= t /\ t < m => t \in s.minute[floor_bucket(t, MinuteWidth)])
      BY <2>8
    <3>2. f \in QuarterStarts /\ f \in Int /\ f <= t /\ InBucket(t, f, QuarterWidth)
          /\ (c <= t <=> c <= f)
      BY <2>1, <3>1, BucketType
    <3>3. t < s.quarterMark => t \in s.quarter[f] \/ f < now - keep["quarter"]
      BY DEF TierInv
    <3> HIDE DEF f
    <3>4. t < s.minuteMark => t < e \/ t \in s.minute[floor_bucket(t, MinuteWidth)]
      BY <2>1, <2>7, <3>1
    <3>5. ASSUME t < e PROVE t \in x[f] \/ f < now - keep["quarter"]
      <4>1. CASE t < c
        <5>1. x[f] = s.quarter[f]
          BY <2>1, <2>3, <3>1, <3>2, <4>1
        <5> QED BY <3>1, <3>3, <4>1, <5>1
      <4>2. CASE c <= t
        <5>1. c <= f /\ f < e
          BY <2>1, <3>1, <3>2, <3>5, <4>2
        <5>2. t \in MinutesOfQuarters(s)[f]
          BY <2>9, <3>2, <5>1
        <5> QED BY <2>3, <3>2, <5>1, <5>2
      <4> QED BY <2>1, <3>1, <4>1, <4>2
    <3> QED BY <3>4, <3>5 DEF f
  <2>13. TierInv(r, samples, keep, now)
    <3>1. /\ s.raw \subseteq samples
          /\ s.minuteMark # NoMark => s.minuteMark <= now - Grace
          /\ \A t \in samples : t < s.minuteMark \/ t \in s.raw
          /\ \A b \in Rows(s.minute) : b < s.minuteMark
          /\ CompleteRows(s.minute, MinuteWidth, samples)
      BY DEF TierInv
    <3>2. e <= s.minuteMark
      BY <2>1, <2>7
    <3> QED BY <2>2, <2>11, <2>12, <3>1, <3>2 DEF TierInv
  <2> QED BY <2>13 DEF r
<1> QED BY <1>1, <1>2

\* The deletion of what has expired.
LEMMA ExpiryKeeps ==
    ASSUME NEW s \in AlignedTables, NEW samples \in SUBSET Times, NEW keep,
           ValidRetention(keep), now \in Times, TierInv(s, samples, keep, now)
    PROVE  TierInv(WithoutExpired(s, keep), samples, keep, now)
<1> DEFINE r == WithoutExpired(s, keep)
           x == s.raw \ Oldest(RawExpired(s, keep), DeleteBatch)
           y == WithoutOldest(s.minute, MinutesExpired(s, keep))
           z == WithoutOldest(s.quarter, QuartersExpired(s, keep))
           m == MinuteWatermark(s)
           c == QuarterWatermark(s)
<1>1. /\ r.raw = x /\ r.minute = y /\ r.quarter = z
      /\ r.minuteMark = s.minuteMark /\ r.quarterMark = s.quarterMark
  <2>1. r = [raw |-> x, minute |-> y, quarter |-> z,
             minuteMark |-> s.minuteMark, quarterMark |-> s.quarterMark]
    BY WithoutExpiredIs, AlignedTypes
  <2> HIDE DEF r, x, y, z
  <2> QED BY <2>1
<1> HIDE DEF r
<1>2. /\ now \in Int /\ s.minuteMark \in Int /\ s.quarterMark \in Int
      /\ keep["quarter"] \in Nat /\ keep["minute"] \in Nat /\ keep["raw"] \in Nat
  BY TimeType, AlignedTypes, KeepType
<1>3. ASSUME NEW t \in s.raw, t \in RawExpired(s, keep)
      PROVE  t < s.minuteMark
  <2>1. t \in Int /\ m # NoMark /\ t < Lesser(now - keep["raw"], m)
    BY <1>3, AlignedTypes, TimeType DEF RawExpired
  <2>2. m = InitialMark(s.minuteMark, s.raw, MinuteWidth)
    BY DEF MinuteWatermark
  <2>3. s.raw \subseteq Times /\ s.minuteMark \in Times \cup {NoMark}
    BY AlignedTypes, StartType
  <2>4. m \in Int /\ (s.minuteMark # NoMark => m = s.minuteMark)
        /\ (s.minuteMark = NoMark => m <= t)
    <3>1. m \in Times /\ (s.minuteMark # NoMark => m = s.minuteMark)
      BY <2>1, <2>2, <2>3, InitialMarkIsStart, Widths
    <3>3. s.minuteMark = NoMark => m <= t
      BY <2>2, <2>3, InitialMarkIsLow, Widths
    <3> HIDE DEF m
    <3> QED BY <2>1, <3>1, <3>3, TimeType
  <2> HIDE DEF m
  <2>5. t < m
    BY <1>2, <2>1, <2>4 DEF Lesser
  <2> QED BY <1>2, <2>1, <2>4, <2>5
<1>4. ASSUME NEW b \in MinutesExpired(s, keep)
      PROVE  b \in MinuteStarts /\ b < s.quarterMark
  <2>1. b \in Rows(s.minute) /\ c # NoMark /\ b < Lesser(now - keep["minute"], c)
    BY <1>4 DEF MinutesExpired
  <2>2. b \in MinuteStarts /\ b \in Int
    BY <2>1, AlignedTypes, StartType
  <2>3. c = s.quarterMark \/ c = InitialMark(s.quarterMark, Rows(s.minute), QuarterWidth)
    BY DEF QuarterWatermark
  <2>4. Rows(s.minute) \subseteq Times /\ s.quarterMark \in Times \cup {NoMark}
    BY AlignedTypes, StartType
  <2> HIDE DEF c
  <2>5. c \in Int /\ (c = s.quarterMark \/ c <= b)
    <3> DEFINE i == InitialMark(s.quarterMark, Rows(s.minute), QuarterWidth)
    <3>1. i \in Times \cup {NoMark} /\ (s.quarterMark # NoMark => i = s.quarterMark)
      BY <2>4, InitialMarkIs, Widths
    <3>3. s.quarterMark = NoMark => i <= b
      BY <2>1, <2>4, InitialMarkIsLow, Widths
    <3> HIDE DEF i
    <3>4. c = s.quarterMark \/ c = i
      BY <2>3 DEF i
    <3> QED BY <1>2, <2>1, <3>1, <3>3, <3>4, TimeType
  <2>6. b < c
    BY <1>2, <2>1, <2>2, <2>5 DEF Lesser
  <2> QED BY <1>2, <2>2, <2>5, <2>6
<1>5. /\ x \subseteq s.raw
      /\ \A t \in s.raw : t \in x \/ t < s.minuteMark
  BY <1>3 DEF Oldest
<1>6. /\ DOMAIN y = MinuteStarts
      /\ \A b \in MinuteStarts : y[b] = s.minute[b] \/ (y[b] = {} /\ b < s.quarterMark)
  <2>1. /\ y \in [MinuteStarts -> SUBSET Times]
        /\ \A b \in MinuteStarts : \/ y[b] = s.minute[b]
                                   \/ y[b] = {} /\ b \in MinutesExpired(s, keep)
    BY AlignedTypes, WithoutOldestIs
  <2> HIDE DEF y
  <2> QED BY <1>4, <2>1
<1>7. /\ DOMAIN z = QuarterStarts
      /\ \A q \in QuarterStarts : z[q] = s.quarter[q]
                                  \/ (z[q] = {} /\ q < now - keep["quarter"])
  <2>1. /\ z \in [QuarterStarts -> SUBSET Times]
        /\ \A q \in QuarterStarts : \/ z[q] = s.quarter[q]
                                    \/ z[q] = {} /\ q \in QuartersExpired(s, keep)
    BY AlignedTypes, WithoutOldestIs
  <2> HIDE DEF z
  <2> QED BY <2>1 DEF QuartersExpired
<1> HIDE DEF x, y, z, m, c
<1>8. ASSUME NEW t \in samples
      PROVE  /\ t < s.minuteMark \/ t \in x
             /\ t < s.minuteMark => t < s.quarterMark \/ t \in y[floor_bucket(t, MinuteWidth)]
             /\ t < s.quarterMark => \/ t \in z[floor_bucket(t, QuarterWidth)]
                                     \/ floor_bucket(t, QuarterWidth) < now - keep["quarter"]
  <2> DEFINE f == floor_bucket(t, MinuteWidth)
             g == floor_bucket(t, QuarterWidth)
  <2>1. t \in Int /\ f \in MinuteStarts /\ g \in QuarterStarts /\ f \in Int
        /\ \A q \in QuarterStarts : q <= t <=> q <= f
    BY TimeType, BucketType
  <2>2. /\ t < s.minuteMark \/ t \in s.raw
        /\ t < s.minuteMark => t < s.quarterMark \/ t \in s.minute[f]
        /\ t < s.quarterMark => t \in s.quarter[g] \/ g < now - keep["quarter"]
    BY DEF TierInv
  <2>3. f < s.quarterMark => t < s.quarterMark
    <3>1. CASE s.quarterMark = NoMark
      <4>1. f \in Nat
        BY <2>1, StartType, TimeType
      <4> QED BY <3>1, <4>1 DEF NoMark
    <3>2. CASE s.quarterMark \in QuarterStarts
      <4> HIDE DEF f
      <4> QED BY <1>2, <2>1, <3>2
    <3> QED BY <3>1, <3>2, AlignedTypes
  <2> HIDE DEF f, g
  <2>4. t < s.minuteMark \/ t \in x
    BY <1>5, <2>2
  <2>5. t < s.minuteMark => t < s.quarterMark \/ t \in y[f]
    BY <1>6, <2>1, <2>2, <2>3
  <2>6. t < s.quarterMark => t \in z[g] \/ g < now - keep["quarter"]
    BY <1>7, <2>1, <2>2
  <2> QED BY <2>4, <2>5, <2>6 DEF f, g
<1>9. /\ \A b \in Rows(y) : b < s.minuteMark
      /\ CompleteRows(y, MinuteWidth, samples)
  <2>1. ASSUME NEW b \in Rows(y) PROVE b \in Rows(s.minute) /\ y[b] = s.minute[b]
    <3>1. b \in MinuteStarts /\ y[b] # {} /\ DOMAIN s.minute = MinuteStarts
      BY <1>6, <2>1, AlignedTypes DEF Rows
    <3> QED BY <1>6, <3>1 DEF Rows
  <2> QED BY <2>1 DEF TierInv, CompleteRows
<1>10. /\ \A q \in Rows(z) : q < s.quarterMark
       /\ CompleteRows(z, QuarterWidth, samples)
  <2>1. ASSUME NEW q \in Rows(z) PROVE q \in Rows(s.quarter) /\ z[q] = s.quarter[q]
    <3>1. q \in QuarterStarts /\ z[q] # {} /\ DOMAIN s.quarter = QuarterStarts
      BY <1>7, <2>1, AlignedTypes DEF Rows
    <3> QED BY <1>7, <3>1 DEF Rows
  <2> QED BY <2>1 DEF TierInv, CompleteRows
<1>11. /\ x \subseteq samples
       /\ s.minuteMark # NoMark => s.minuteMark <= now - Grace
       /\ s.quarterMark <= s.minuteMark
  BY <1>5 DEF TierInv
<1>12. TierInv(r, samples, keep, now)
  BY <1>1, <1>8, <1>9, <1>10, <1>11 DEF TierInv
<1> QED BY <1>12 DEF r

----------------------------------------------------------------------------
(* The theorems. *)

\* What waits in the channel is in order, and within the delay.
QueueInv ==
    /\ \A i, j \in DOMAIN queue : i <= j => queue[i] <= queue[j]
    /\ \A i \in DOMAIN queue : queue[i] <= now /\ now - queue[i] <= MaxDelay

IInv ==
    /\ TypeInv
    /\ QueueInv
    /\ TierInv(metrics, inserted, MetricKeep, now)
    /\ TierInv(processes, Snapshots, ProcessKeep, now)

LEMMA MaintainedKeeps ==
    ASSUME NEW s \in AlignedTables, NEW samples \in SUBSET Times, NEW keep,
           ValidRetention(keep), now \in Times, TierInv(s, samples, keep, now)
    PROVE  TierInv(Maintained(s, keep), samples, keep, now)
<1> DEFINE a == roll_up_minutes(s)
           b == roll_up_quarters(a)
<1>1. a \in AlignedTables /\ TierInv(a, samples, keep, now)
  BY RollUpMinutesType, MinutePassKeeps
<1> HIDE DEF a
<1>2. b \in AlignedTables /\ TierInv(b, samples, keep, now)
  BY <1>1, RollUpQuartersType, QuarterPassKeeps
<1> HIDE DEF b
<1>3. TierInv(WithoutExpired(b, keep), samples, keep, now)
  BY <1>2, ExpiryKeeps
<1> QED BY <1>3 DEF Maintained, a, b

LEMMA InitInvariant == Init => IInv
<1> SUFFICES ASSUME Init PROVE IInv
  OBVIOUS
<1>1. /\ NoRows.raw = {} /\ NoRows.minuteMark = NoMark /\ NoRows.quarterMark = NoMark
      /\ Rows(NoRows.minute) = {} /\ Rows(NoRows.quarter) = {}
  BY DEF NoRows, Rows
<1>2. ASSUME NEW keep PROVE TierInv(NoRows, {}, keep, now)
  BY <1>1 DEF TierInv, CompleteRows, NoMark
<1>3. Snapshots = {} /\ inserted = {} /\ metrics = NoRows /\ processes = NoRows /\ queue = <<>>
  BY DEF Init, Snapshots
<1> QED BY <1>2, <1>3, InitType DEF IInv, QueueInv

LEMMA InvTypes ==
    ASSUME IInv
    PROVE  /\ now \in Times /\ now \in Int /\ queue \in Seq(Times)
           /\ metrics \in AlignedTables /\ processes \in AlignedTables
           /\ inserted \in SUBSET Times /\ Snapshots \in SUBSET Times
           /\ ValidRetention(MetricKeep) /\ ValidRetention(ProcessKeep)
BY RetentionAssumption, TimeType DEF IInv, TypeInv, TypeOK, Snapshots

LEMMA QueueStep ==
    ASSUME IInv, Next
    PROVE  QueueInv'
<1>0. now \in Int /\ queue \in Seq(Times) /\ MaxDelay \in Nat /\ QueueInv
  BY InvTypes, Widths DEF IInv
<1>t. \A i \in DOMAIN queue : queue[i] \in Int
  BY <1>0, TimeType
<1>1. CASE Tick
  <2>1. now' = now + 1 /\ queue' = queue
    BY <1>1 DEF Tick
  <2>2. ASSUME NEW i \in DOMAIN queue
        PROVE  queue[i] <= now + 1 /\ (now + 1) - queue[i] <= MaxDelay
    <3>1. queue # <<>> /\ 1 \in DOMAIN queue /\ 1 <= i /\ Head(queue) = queue[1]
      BY <1>0
    <3>2. queue[1] <= queue[i] /\ queue[i] <= now /\ now - queue[1] < MaxDelay
      BY <1>0, <1>1, <3>1 DEF QueueInv, Tick
    <3>3. queue[1] \in Int /\ queue[i] \in Int
      BY <1>t, <3>1
    <3> QED BY <1>0, <3>2, <3>3
  <2> QED BY <1>0, <2>1, <2>2 DEF QueueInv
<1>2. CASE SendBatch
  <2>1. now' = now /\ queue' = Append(queue, now)
    BY <1>2 DEF SendBatch
  <2> DEFINE n == Len(queue)
  <2>2. n \in Nat /\ DOMAIN queue = 1 .. n /\ DOMAIN queue' = 1 .. n + 1
        /\ (\A i \in 1 .. n : queue'[i] = queue[i]) /\ queue'[n + 1] = now
    BY <1>0, <2>1, InvTypes
  <2> HIDE DEF n
  <2>3. \A i \in 1 .. n + 1 : i \in 1 .. n \/ i = n + 1
    BY <2>2
  <2>4. \A i \in DOMAIN queue' : queue'[i] <= now' /\ now' - queue'[i] <= MaxDelay
    BY <1>0, <2>1, <2>2, <2>3 DEF QueueInv
  <2>5. \A i, j \in DOMAIN queue' : i <= j => queue'[i] <= queue'[j]
    <3> SUFFICES ASSUME NEW i \in 1 .. n + 1, NEW j \in 1 .. n + 1, i <= j
                 PROVE  queue'[i] <= queue'[j]
      BY <2>2
    <3>1. CASE j = n + 1
      BY <1>0, <2>1, <2>2, <2>4, <3>1
    <3>2. CASE j \in 1 .. n
      <4>1. i \in 1 .. n
        BY <2>2, <3>2
      <4> QED BY <1>0, <2>2, <3>2, <4>1 DEF QueueInv
    <3> QED BY <2>3, <3>1, <3>2
  <2> QED BY <2>4, <2>5 DEF QueueInv
<1>3. CASE InsertBatch
  <2>1. now' = now /\ queue' = Tail(queue) /\ queue # <<>>
    BY <1>3 DEF InsertBatch
  <2>2. \A i \in DOMAIN queue' : i \in Int /\ i + 1 \in DOMAIN queue /\ queue'[i] = queue[i + 1]
    BY <1>0, <2>1
  <2>3. \A i \in DOMAIN queue' : queue'[i] <= now /\ now - queue'[i] <= MaxDelay
    BY <1>0, <2>2 DEF QueueInv
  <2>4. \A i, j \in DOMAIN queue' : i <= j => queue'[i] <= queue'[j]
    <3> SUFFICES ASSUME NEW i \in DOMAIN queue', NEW j \in DOMAIN queue', i <= j
                 PROVE  queue'[i] <= queue'[j]
      OBVIOUS
    <3>1. i + 1 <= j + 1 /\ i + 1 \in DOMAIN queue /\ j + 1 \in DOMAIN queue
          /\ queue'[i] = queue[i + 1] /\ queue'[j] = queue[j + 1]
      BY <2>2
    <3> QED BY <1>0, <3>1 DEF QueueInv
  <2> QED BY <2>1, <2>3, <2>4 DEF QueueInv
<1>4. CASE RunMaintenance \/ SkipMaintenance
  BY <1>0, <1>4 DEF QueueInv, RunMaintenance, SkipMaintenance
<1>5. CASE Restart
  BY <1>5 DEF QueueInv, Restart
<1> QED BY <1>1, <1>2, <1>3, <1>4, <1>5 DEF Next

LEMMA InvariantStep ==
    ASSUME MaxDelay <= Grace, IInv, [Next]_vars
    PROVE  IInv'
<1>0. /\ now \in Times /\ now \in Int /\ queue \in Seq(Times)
      /\ metrics \in AlignedTables /\ processes \in AlignedTables
      /\ inserted \in SUBSET Times /\ Snapshots \in SUBSET Times
      /\ ValidRetention(MetricKeep) /\ ValidRetention(ProcessKeep)
      /\ TierInv(metrics, inserted, MetricKeep, now)
      /\ TierInv(processes, Snapshots, ProcessKeep, now)
  BY InvTypes DEF IInv
<1>t. TypeInv'
  BY TypeStep DEF IInv
<1>1. CASE UNCHANGED vars
  BY <1>1, <1>t DEF IInv, QueueInv, Snapshots, TierInv, vars, tables, Rows, CompleteRows
<1> SUFFICES ASSUME Next PROVE IInv'
  BY <1>1
<1>q. QueueInv'
  BY QueueStep
<1> SUFFICES /\ TierInv(metrics', inserted', MetricKeep, now')
             /\ TierInv(processes', Snapshots', ProcessKeep, now')
  BY <1>t, <1>q DEF IInv, TierInv, Rows, CompleteRows
<1>2. CASE SendBatch \/ SkipMaintenance \/ Restart
  BY <1>0, <1>2 DEF SendBatch, SkipMaintenance, Restart, tables, Snapshots
<1>3. CASE Tick
  <2>1. now' = now + 1 /\ UNCHANGED <<metrics, processes, inserted>>
    BY <1>3 DEF Tick, tables
  <2>2. Snapshots' = Snapshots
    BY <2>1 DEF Snapshots
  <2>3. /\ TierInv(metrics, inserted, MetricKeep, now + 1)
        /\ TierInv(processes, Snapshots, ProcessKeep, now + 1)
    BY <1>0, ClockKeeps
  <2> QED BY <2>1, <2>2, <2>3
<1>4. CASE RunMaintenance
  <2>1. /\ metrics' = Maintained(metrics, MetricKeep)
        /\ processes' = Maintained(processes, ProcessKeep)
        /\ now' = now /\ inserted' = inserted
    BY <1>4 DEF RunMaintenance, MetricsMaintained, ProcessesMaintained
  <2>2. Snapshots' = Snapshots
    BY <2>1 DEF Snapshots
  <2>3. /\ TierInv(Maintained(metrics, MetricKeep), inserted, MetricKeep, now)
        /\ TierInv(Maintained(processes, ProcessKeep), Snapshots, ProcessKeep, now)
    BY <1>0, MaintainedKeeps
  <2> QED BY <2>1, <2>2, <2>3
<1>5. CASE InsertBatch
  <2> DEFINE t == Head(queue)
  <2>1. queue # <<>> /\ now' = now /\ inserted' = inserted \cup {t}
        /\ metrics' = WithRaw(metrics, t)
        /\ processes' = IF HasSnapshot(t) THEN WithRaw(processes, t) ELSE processes
    BY <1>5 DEF InsertBatch
  <2>2. t \in Times /\ 1 \in DOMAIN queue /\ t = queue[1]
    BY <1>0, <2>1
  <2>3. now - t <= MaxDelay
    BY <2>2 DEF IInv, QueueInv
  <2>4. now - Grace <= t
    <3>1. t \in Int /\ MaxDelay \in Int /\ Grace \in Int
      BY <2>2, TimeType, Widths
    <3> HIDE DEF t
    <3> QED BY <1>0, <2>3, <3>1
  <2>5. Snapshots' = IF HasSnapshot(t) THEN Snapshots \cup {t} ELSE Snapshots
    BY <2>1 DEF Snapshots
  <2> HIDE DEF t
  <2>6. TierInv(WithRaw(metrics, t), inserted \cup {t}, MetricKeep, now)
    BY <1>0, <2>2, <2>4, InsertKeeps
  <2>7. TierInv(WithRaw(processes, t), Snapshots \cup {t}, ProcessKeep, now)
    BY <1>0, <2>2, <2>4, InsertKeeps
  <2> QED BY <1>0, <2>1, <2>5, <2>6, <2>7
<1> QED BY <1>2, <1>3, <1>4, <1>5 DEF Next

LEMMA Invariant ==
    ASSUME MaxDelay <= Grace
    PROVE  Spec => []IInv
<1>1. Init => IInv
  BY InitInvariant
<1>2. IInv /\ [Next]_vars => IInv'
  BY InvariantStep
<1> QED BY <1>1, <1>2, PTL DEF Spec

LEMMA SamplesAreKept ==
    ASSUME NEW s \in AlignedTables, NEW samples \in SUBSET Times, NEW keep,
           TierInv(s, samples, keep, now)
    PROVE  KeptUntilExpired(s, samples, keep)
<1> SUFFICES ASSUME NEW t \in samples
             PROVE  \/ t \in s.raw
                    \/ \E b \in MinuteStarts : t \in s.minute[b]
                    \/ \E q \in QuarterStarts : t \in s.quarter[q]
                    \/ floor_bucket(t, QuarterWidth) < now - keep["quarter"]
  BY DEF KeptUntilExpired
<1>1. /\ floor_bucket(t, MinuteWidth) \in MinuteStarts
      /\ floor_bucket(t, QuarterWidth) \in QuarterStarts
  BY BucketType
<1> QED BY <1>1 DEF TierInv

\* domain-models.md: data is never deleted from a tier before the tier above has processed it.
\* Whatever the widths, the retentions and the limits of a pass, and wherever maintenance is
\* skipped or the process restarted, a committed sample can be read from one tier until the last
\* retention has passed, if no batch waits in the channel longer than the grace.
THEOREM NothingIsLost ==
    ASSUME MaxDelay <= Grace
    PROVE  Spec => []NothingDeletedUnprocessed
<1>1. IInv => NothingDeletedUnprocessed
  <2> SUFFICES ASSUME IInv PROVE NothingDeletedUnprocessed
    OBVIOUS
  <2>1. /\ KeptUntilExpired(metrics, inserted, MetricKeep)
        /\ KeptUntilExpired(processes, Snapshots, ProcessKeep)
    BY InvTypes, SamplesAreKept DEF IInv
  <2> QED BY <2>1 DEF NothingDeletedUnprocessed
<1> QED BY <1>1, Invariant, PTL

\* src/storage.rs, roll_up_minutes and roll_up_quarters: a rollup row aggregates all the samples
\* ever committed in its bucket and no other, and none comes later, on the same condition.
THEOREM RowsAreComplete ==
    ASSUME MaxDelay <= Grace
    PROVE  Spec => []RollupsAreComplete
<1>1. IInv => RollupsAreComplete
  BY DEF IInv, TierInv, RollupsAreComplete
<1> QED BY <1>1, Invariant, PTL

----------------------------------------------------------------------------
(* What a reader may rely on. *)

\* A sample is missing from a tier that should have it only when its row has expired; and
\* when a row is missing, no older one is left.
CoverageInv(s, samples, keep, n) ==
    /\ \A t \in samples : t \in s.raw \/ t < n - keep["raw"]
    /\ \A t \in samples : t < s.minuteMark =>
          \/ t \in s.minute[floor_bucket(t, MinuteWidth)]
          \/ floor_bucket(t, MinuteWidth) < n - keep["minute"]
    /\ \A r \in s.raw, t \in samples : r <= t => t \in s.raw
    /\ \A b \in Rows(s.minute), t \in samples :
          b <= floor_bucket(t, MinuteWidth) /\ t < s.minuteMark =>
             t \in s.minute[floor_bucket(t, MinuteWidth)]
    /\ \A q \in Rows(s.quarter), t \in samples :
          q <= floor_bucket(t, QuarterWidth) /\ t < s.quarterMark =>
             t \in s.quarter[floor_bucket(t, QuarterWidth)]

LEMMA MinutePassFrame ==
    ASSUME NEW s \in AlignedTables, now \in Times
    PROVE  LET r == roll_up_minutes(s)
           IN  /\ r.raw = s.raw /\ r.quarter = s.quarter /\ r.quarterMark = s.quarterMark
               /\ s.minuteMark <= r.minuteMark
               /\ \A b \in MinuteStarts : b < s.minuteMark => r.minute[b] = s.minute[b]
<1> DEFINE c == MinuteWatermark(s)
           e == Advance(c, MinuteCutoff, MinuteWidth)
           x == RolledUp(s.minute, c, e, RawOfMinutes(s))
           r == roll_up_minutes(s)
<1>0. s.minuteMark \in Int /\ s \in Tables
  BY AlignedTypes
<1>1. CASE c = NoMark \/ e = c
  <2>1. r = s
    BY <1>0, <1>1, RollUpMinutesIs
  <2> QED BY <1>0, <2>1
<1>2. CASE ~ (c = NoMark \/ e = c)
  <2>1. c \in Int /\ e \in Int /\ c < e
    <3>1. c \in MinuteStarts /\ e \in MinuteStarts /\ c < e
      BY <1>2, MinutePassMoves
    <3> HIDE DEF c, e
    <3> QED BY <3>1, StartType
  <2>2. s.minuteMark <= c
    <3>1. s.raw \subseteq Times /\ s.minuteMark \in Times \cup {NoMark}
      BY AlignedTypes, StartType
    <3>2. c \in Times /\ (s.minuteMark # NoMark => c = s.minuteMark)
      BY <1>2, <3>1, InitialMarkIsStart, Widths DEF MinuteWatermark
    <3> HIDE DEF c
    <3> QED BY <1>0, <3>2, TimeType DEF NoMark
  <2>3. r = [raw |-> s.raw, minute |-> x, quarter |-> s.quarter, minuteMark |-> e,
             quarterMark |-> s.quarterMark]
    BY <1>0, <1>2, RollUpMinutesIs
  <2>4. \A b \in MinuteStarts : b < c => x[b] = s.minute[b]
    <3>1. RawOfMinutes(s) \in [MinuteStarts -> SUBSET Times]
      BY AlignedTypes DEF RawOfMinutes
    <3>2. \A b \in MinuteStarts :
             x[b] = IF c <= b /\ b < e /\ RawOfMinutes(s)[b] # {} THEN RawOfMinutes(s)[b]
                    ELSE s.minute[b]
      BY <3>1, AlignedTypes, RolledUpIs
    <3> HIDE DEF c, e, x
    <3> QED BY <2>1, <3>2, StartType
  <2> HIDE DEF r, x, c, e
  <2>5. /\ r.raw = s.raw /\ r.quarter = s.quarter /\ r.quarterMark = s.quarterMark
        /\ r.minute = x /\ r.minuteMark = e
    BY <2>3
  <2>6. \A b \in MinuteStarts : b < s.minuteMark => x[b] = s.minute[b]
    BY <1>0, <2>1, <2>2, <2>4, StartType
  <2>7. s.minuteMark <= e
    BY <1>0, <2>1, <2>2
  <2> QED BY <2>5, <2>6, <2>7 DEF r
<1> QED BY <1>1, <1>2

\* The rows that the pass writes hold every sample of theirs, also those already expired.
LEMMA QuarterPassFrame ==
    ASSUME NEW s \in AlignedTables, NEW samples \in SUBSET Times, NEW keep, now \in Times,
           TierInv(s, samples, keep, now)
    PROVE  LET r == roll_up_quarters(s)
           IN  /\ r.raw = s.raw /\ r.minute = s.minute /\ r.minuteMark = s.minuteMark
               /\ s.quarterMark <= r.quarterMark
               /\ \A q \in QuarterStarts : q < s.quarterMark => r.quarter[q] = s.quarter[q]
               /\ \A t \in samples : s.quarterMark <= t /\ t < r.quarterMark =>
                     t \in r.quarter[floor_bucket(t, QuarterWidth)]
<1> DEFINE m == MinuteWatermark(s)
           c == QuarterWatermark(s)
           e == Advance(c, QuarterCutoff(s), QuarterWidth)
           x == RolledUp(s.quarter, c, e, MinutesOfQuarters(s))
           r == roll_up_quarters(s)
<1>0. s.quarterMark \in Int /\ s.minuteMark \in Int /\ s \in Tables
      /\ s.quarterMark <= s.minuteMark
  BY AlignedTypes DEF TierInv
<1>1. CASE m = NoMark \/ c = NoMark \/ e = c
  <2>1. r = s
    BY <1>0, <1>1, RollUpQuartersIs
  <2>2. \A t \in samples : t \in Int
    BY TimeType
  <2> HIDE DEF r
  <2>3. \A t \in samples : ~(s.quarterMark <= t /\ t < r.quarterMark)
    BY <1>0, <2>1, <2>2
  <2>4. s.quarterMark <= r.quarterMark
    BY <1>0, <2>1
  <2> QED BY <2>1, <2>3, <2>4 DEF r
<1>2. CASE ~ (m = NoMark \/ c = NoMark \/ e = c)
  <2>1. c \in QuarterStarts /\ e \in QuarterStarts /\ c \in Int /\ e \in Int /\ c < e
    <3>1. c \in QuarterStarts /\ e \in QuarterStarts /\ c < e
      BY <1>2, QuarterPassMoves
    <3> HIDE DEF c, e
    <3> QED BY <3>1, StartType
  <2>2. Rows(s.minute) \subseteq Times /\ s.quarterMark \in Times \cup {NoMark}
        /\ c = InitialMark(s.quarterMark, Rows(s.minute), QuarterWidth)
    BY <1>2, AlignedTypes, StartType DEF QuarterWatermark
  <2>3. /\ s.quarterMark <= c
        /\ \A b \in Rows(s.minute) : s.quarterMark = NoMark => c <= b
        /\ s.quarterMark # NoMark => c = s.quarterMark
    <3>1. c \in Times /\ (s.quarterMark # NoMark => c = s.quarterMark)
      BY <1>2, <2>2, InitialMarkIsStart, Widths
    <3>2. \A b \in Rows(s.minute) : s.quarterMark = NoMark => c <= b
      BY <2>2, InitialMarkIsLow, Widths
    <3> HIDE DEF c
    <3> QED BY <1>0, <3>1, <3>2, TimeType DEF NoMark
  <2>4. r = [raw |-> s.raw, minute |-> s.minute, quarter |-> x,
             minuteMark |-> s.minuteMark, quarterMark |-> e]
    BY <1>0, <1>2, RollUpQuartersIs
  <2>5. \A q \in QuarterStarts :
           x[q] = IF c <= q /\ q < e /\ MinutesOfQuarters(s)[q] # {}
                  THEN MinutesOfQuarters(s)[q] ELSE s.quarter[q]
    BY AlignedTypes, MinutesOfQuartersType, RolledUpIs
  <2> HIDE DEF x, c, e, r, m
  <2>6. /\ r.raw = s.raw /\ r.minute = s.minute /\ r.minuteMark = s.minuteMark
        /\ r.quarter = x /\ r.quarterMark = e
    BY <2>4
  <2>7. e <= s.minuteMark
    <3>1. TierInv(r, samples, keep, now)
      BY QuarterPassKeeps DEF r
    <3> QED BY <2>6, <3>1 DEF TierInv
  <2>8. s.quarterMark <= e
    BY <1>0, <2>1, <2>3
  <2>9. \A q \in QuarterStarts : q < s.quarterMark => x[q] = s.quarter[q]
    BY <1>0, <2>1, <2>3, <2>5, StartType
  <2>10. ASSUME NEW t \in samples, s.quarterMark <= t, t < e
         PROVE  t \in x[floor_bucket(t, QuarterWidth)]
    <3> DEFINE f == floor_bucket(t, MinuteWidth)
               g == floor_bucket(t, QuarterWidth)
    <3>1. /\ t \in Int /\ f \in MinuteStarts /\ f \in Int /\ f <= t
          /\ g \in QuarterStarts /\ g \in Int /\ g <= t /\ g <= f
          /\ \A q \in QuarterStarts : q <= t <=> q <= g
          /\ InBucket(t, g, QuarterWidth)
      BY TimeType, BucketType
    <3>2. t < s.minuteMark => t < s.quarterMark \/ t \in s.minute[f]
      BY DEF TierInv
    <3> HIDE DEF f, g
    <3>3. t \in s.minute[f]
      BY <1>0, <2>1, <2>7, <2>10, <3>1, <3>2
    <3>4. c <= g /\ g < e
      <4>1. f \in Rows(s.minute)
        BY <3>1, <3>3, AlignedTypes DEF Rows
      <4>2. c <= t
        BY <1>0, <2>1, <2>3, <2>10, <3>1, <4>1
      <4> QED BY <2>1, <2>10, <3>1, <4>2
    <3>5. InBucket(f, g, QuarterWidth)
      BY <3>1, Widths DEF InBucket
    <3>6. t \in MinutesOfQuarters(s)[g]
      BY <3>1, <3>3, <3>5 DEF MinutesOfQuarters
    <3>7. t \in x[g]
      BY <2>5, <3>1, <3>4, <3>6
    <3> QED BY <3>7 DEF g
  <2> QED BY <2>6, <2>8, <2>9, <2>10 DEF r
<1> QED BY <1>1, <1>2

\* A deletion that is limited takes no row and leaves an older one that has expired as well.
LEMMA OldestIsPrefix ==
    ASSUME NEW S \in SUBSET Times, NEW n \in Nat, NEW x \in S, NEW y \in Oldest(S, n), x <= y
    PROVE  x \in Oldest(S, n)
<1> DEFINE A == {z \in S : z < x}
           B == {z \in S : z < y}
<1>1. IsFiniteSet(Times)
  BY FS_Interval, Widths DEF Times
<1>2. B \in SUBSET Times /\ IsFiniteSet(B)
  BY <1>1, FS_Subset
<1>3. A \in SUBSET B
  <2>1. \A z \in S : z \in Int
    BY TimeType
  <2>2. y \in S
    BY DEF Oldest
  <2> QED BY <2>1, <2>2
<1>4. Cardinality(A) <= Cardinality(B) /\ IsFiniteSet(A)
  BY <1>2, <1>3, FS_Subset
<1>5. Cardinality(A) \in Nat /\ Cardinality(B) \in Nat
  BY <1>2, <1>4, FS_CardinalityType
<1>6. Cardinality(B) < n
  BY DEF Oldest
<1> HIDE DEF A, B
<1>7. Cardinality(A) < n
  BY <1>4, <1>5, <1>6
<1> QED BY <1>7 DEF A, Oldest

LEMMA WithoutOldestLeaves ==
    ASSUME NEW D \in SUBSET Times, NEW rollups \in [D -> SUBSET Times],
           NEW expired \in SUBSET D
    PROVE  LET w == WithoutOldest(rollups, expired)
           IN  /\ w \in [D -> SUBSET Times]
               /\ \A b \in D :
                     \/ w[b] = rollups[b]
                     \/ b \in expired /\ \A a \in expired : a <= b => w[a] = {}
<1> DEFINE w == WithoutOldest(rollups, expired)
<1>1. w \in [D -> SUBSET Times]
      /\ \A b \in D : w[b] = IF b \in Oldest(expired, DeleteBatch) THEN {} ELSE rollups[b]
  BY DEF WithoutOldest
<1>2. ASSUME NEW b \in D
      PROVE  \/ w[b] = rollups[b]
             \/ b \in expired /\ \A a \in expired : a <= b => w[a] = {}
  <2>1. CASE b \in Oldest(expired, DeleteBatch)
    <3>1. b \in expired
      BY <2>1 DEF Oldest
    <3>2. ASSUME NEW a \in expired, a <= b PROVE w[a] = {}
      <4>1. DeleteBatch \in Nat /\ expired \in SUBSET Times
        BY RetentionAssumption
      <4>2. a \in Oldest(expired, DeleteBatch)
        BY <2>1, <3>2, <4>1, OldestIsPrefix
      <4> QED BY <1>1, <4>2
    <3> QED BY <3>1, <3>2
  <2>2. CASE b \notin Oldest(expired, DeleteBatch)
    BY <1>1, <2>2
  <2> QED BY <2>1, <2>2
<1> HIDE DEF w
<1> QED BY <1>1, <1>2 DEF w

\* What the deletion leaves of each tier: what it takes has expired, and nothing older is left.
LEMMA ExpiryFrame ==
    ASSUME NEW s \in AlignedTables, NEW keep, ValidRetention(keep), now \in Times
    PROVE  LET r == WithoutExpired(s, keep)
           IN  /\ r \in AlignedTables
               /\ r.minuteMark = s.minuteMark /\ r.quarterMark = s.quarterMark
               /\ r.raw \subseteq s.raw
               /\ \A t \in s.raw : \/ t \in r.raw
                                   \/ /\ t < now - keep["raw"]
                                      /\ \A u \in s.raw : u <= t => u \notin r.raw
               /\ \A b \in MinuteStarts :
                     \/ r.minute[b] = s.minute[b]
                     \/ /\ b < now - keep["minute"]
                        /\ \A a \in MinuteStarts : a <= b => r.minute[a] = {}
               /\ \A q \in QuarterStarts :
                     \/ r.quarter[q] = s.quarter[q]
                     \/ \A p \in QuarterStarts : p <= q => r.quarter[p] = {}
<1> DEFINE r == WithoutExpired(s, keep)
           x == s.raw \ Oldest(RawExpired(s, keep), DeleteBatch)
           y == WithoutOldest(s.minute, MinutesExpired(s, keep))
           z == WithoutOldest(s.quarter, QuartersExpired(s, keep))
           m == MinuteWatermark(s)
           c == QuarterWatermark(s)
<1>0. /\ now \in Int /\ DeleteBatch \in Nat
      /\ keep["quarter"] \in Int /\ keep["minute"] \in Int /\ keep["raw"] \in Int
      /\ s.raw \subseteq Times /\ Rows(s.minute) \subseteq MinuteStarts
      /\ Rows(s.quarter) \subseteq QuarterStarts
      /\ MinuteStarts \subseteq Times /\ QuarterStarts \subseteq Times
  BY TimeType, AlignedTypes, KeepType, StartType, RetentionAssumption
<1>1. r \in AlignedTables
  BY WithoutExpiredType
<1>2. r = [raw |-> x, minute |-> y, quarter |-> z,
           minuteMark |-> s.minuteMark, quarterMark |-> s.quarterMark]
  BY WithoutExpiredIs, AlignedTypes
<1> HIDE DEF r
<1>3. /\ m = NoMark \/ m \in Int
      /\ c = NoMark \/ c \in Int
  <2>1. s.minuteMark \in Times \cup {NoMark} /\ s.quarterMark \in Times \cup {NoMark}
        /\ Rows(s.minute) \subseteq Times
    BY <1>0, AlignedTypes, StartType
  <2>2. m \in Times \cup {NoMark}
    BY <1>0, <2>1, InitialMarkIs, Widths DEF MinuteWatermark
  <2>3. c \in Times \cup {NoMark}
    BY <1>0, <2>1, InitialMarkIs, Widths DEF QuarterWatermark
  <2> HIDE DEF m, c
  <2> QED BY <2>2, <2>3, TimeType
\* What has expired is all that lies before some time.
<1>4. \/ RawExpired(s, keep) = {}
      \/ \E l \in Int : /\ RawExpired(s, keep) = {t \in s.raw : t < l}
                        /\ l <= now - keep["raw"]
  <2>1. m # NoMark => Lesser(now - keep["raw"], m) \in Int
                      /\ Lesser(now - keep["raw"], m) <= now - keep["raw"]
    <3> HIDE DEF m
    <3> QED BY <1>0, <1>3 DEF Lesser
  <2> QED BY <2>1 DEF RawExpired
<1>5. \/ MinutesExpired(s, keep) = {}
      \/ \E l \in Int : /\ MinutesExpired(s, keep) = {b \in Rows(s.minute) : b < l}
                        /\ l <= now - keep["minute"]
  <2>1. c # NoMark => Lesser(now - keep["minute"], c) \in Int
                      /\ Lesser(now - keep["minute"], c) <= now - keep["minute"]
    <3> HIDE DEF c
    <3> QED BY <1>0, <1>3 DEF Lesser
  <2> QED BY <2>1 DEF MinutesExpired
<1> HIDE DEF m, c
<1>6. ASSUME NEW t \in s.raw, t \notin x
      PROVE  /\ t < now - keep["raw"]
             /\ \A u \in s.raw : u <= t => u \notin x
  <2> DEFINE E == RawExpired(s, keep)
  <2>1. t \in Oldest(E, DeleteBatch) /\ t \in E
    BY <1>6 DEF Oldest
  <2>2. PICK l \in Int : E = {v \in s.raw : v < l} /\ l <= now - keep["raw"]
    BY <1>4, <2>1
  <2>3. E \in SUBSET Times
    BY <1>0, <2>2
  <2> HIDE DEF E
  <2>4. t \in Int /\ t < l
    BY <1>0, <2>1, <2>2, TimeType
  <2>5. ASSUME NEW u \in s.raw, u <= t PROVE u \notin x
    <3>1. u \in Int
      BY <1>0, TimeType
    <3>2. u \in E
      BY <2>2, <2>4, <2>5, <3>1
    <3>3. u \in Oldest(E, DeleteBatch)
      BY <1>0, <2>1, <2>3, <2>5, <3>2, OldestIsPrefix
    <3> QED BY <3>3 DEF E
  <2>6. t < now - keep["raw"]
    BY <1>0, <2>2, <2>4
  <2> QED BY <2>5, <2>6
<1>7. \A b \in MinuteStarts :
         \/ y[b] = s.minute[b]
         \/ /\ b < now - keep["minute"]
            /\ \A a \in MinuteStarts : a <= b => y[a] = {}
  <2> DEFINE E == MinutesExpired(s, keep)
  <2>1. E \in SUBSET MinuteStarts /\ s.minute \in [MinuteStarts -> SUBSET Times]
        /\ MinuteStarts \in SUBSET Times
    BY <1>0, AlignedTypes DEF MinutesExpired
  <2>0. y = WithoutOldest(s.minute, E)
    OBVIOUS
  <2> HIDE DEF y, E
  <2>2. \A b \in MinuteStarts : \/ y[b] = s.minute[b]
                                \/ b \in E /\ \A a \in E : a <= b => y[a] = {}
    <3> DEFINE D == MinuteStarts
               u == s.minute
    <3>1. D \in SUBSET Times /\ u \in [D -> SUBSET Times] /\ E \in SUBSET D
          /\ y = WithoutOldest(u, E)
      BY <2>1, <2>0
    <3> HIDE DEF D, u
    <3>2. \A b \in D : y[b] = u[b] \/ (b \in E /\ \A a \in E : a <= b => y[a] = {})
      BY <3>1, WithoutOldestLeaves
    <3> QED BY <3>2 DEF D, u
  <2>3. \A a \in MinuteStarts : y[a] = s.minute[a] \/ y[a] = {}
    BY <2>1, <2>0, WithoutOldestIs
  <2>4. DOMAIN s.minute = MinuteStarts
    BY AlignedTypes
  <2> SUFFICES ASSUME NEW b \in MinuteStarts, y[b] # s.minute[b]
               PROVE  /\ b < now - keep["minute"]
                      /\ \A a \in MinuteStarts : a <= b => y[a] = {}
    OBVIOUS
  <2>5. b \in E /\ \A a \in E : a <= b => y[a] = {}
    BY <2>2
  <2>6. PICK l \in Int : E = {v \in Rows(s.minute) : v < l} /\ l <= now - keep["minute"]
    BY <1>5, <2>5 DEF E
  <2>7. b \in Int /\ b < l
    BY <2>5, <2>6, StartType
  <2>8. ASSUME NEW a \in MinuteStarts, a <= b PROVE y[a] = {}
    <3>1. a \in Int /\ a < l
      BY <2>7, <2>8, StartType
    <3>2. CASE a \in Rows(s.minute)
      BY <2>5, <2>6, <2>8, <3>1, <3>2
    <3>3. CASE a \notin Rows(s.minute)
      BY <2>3, <2>4, <3>3 DEF Rows
    <3> QED BY <3>2, <3>3
  <2>9. b < now - keep["minute"]
    BY <1>0, <2>6, <2>7
  <2> QED BY <2>8, <2>9
<1>8. \A q \in QuarterStarts : \/ z[q] = s.quarter[q]
                               \/ \A p \in QuarterStarts : p <= q => z[p] = {}
  <2> DEFINE E == QuartersExpired(s, keep)
  <2>1. E \in SUBSET QuarterStarts /\ s.quarter \in [QuarterStarts -> SUBSET Times]
        /\ QuarterStarts \in SUBSET Times
    BY <1>0, AlignedTypes DEF QuartersExpired
  <2>0. z = WithoutOldest(s.quarter, E)
    OBVIOUS
  <2> HIDE DEF z, E
  <2>2. \A q \in QuarterStarts : \/ z[q] = s.quarter[q]
                                 \/ q \in E /\ \A p \in E : p <= q => z[p] = {}
    BY <2>1, <2>0, WithoutOldestLeaves
  <2>3. \A p \in QuarterStarts : z[p] = s.quarter[p] \/ z[p] = {}
    BY <2>1, <2>0, WithoutOldestIs
  <2>4. DOMAIN s.quarter = QuarterStarts
    BY AlignedTypes
  <2> SUFFICES ASSUME NEW q \in QuarterStarts, z[q] # s.quarter[q],
                      NEW p \in QuarterStarts, p <= q
               PROVE  z[p] = {}
    OBVIOUS
  <2>5. q \in E /\ \A a \in E : a <= q => z[a] = {}
    BY <2>2
  <2>6. CASE p \in Rows(s.quarter)
    <3>1. p \in Int /\ q \in Int /\ q < now - keep["quarter"]
      BY <2>5, StartType DEF QuartersExpired, E
    <3>2. p \in E
      BY <1>0, <2>6, <3>1 DEF QuartersExpired, E
    <3> QED BY <2>5, <3>2
  <2>7. CASE p \notin Rows(s.quarter)
    BY <2>3, <2>4, <2>7 DEF Rows
  <2> QED BY <2>6, <2>7
<1> HIDE DEF x, y, z
<1>9. /\ r.raw = x /\ r.minute = y /\ r.quarter = z
      /\ r.minuteMark = s.minuteMark /\ r.quarterMark = s.quarterMark
  BY <1>2
<1>10. x \subseteq s.raw
  BY DEF x
<1> QED BY <1>1, <1>6, <1>7, <1>8, <1>9, <1>10 DEF r

LEMMA MarkTypes ==
    ASSUME NEW s \in AlignedTables, NEW t \in Times
    PROVE  /\ s.minuteMark \in Int /\ s.quarterMark \in Int /\ t \in Int
           /\ floor_bucket(t, MinuteWidth) \in MinuteStarts
           /\ floor_bucket(t, QuarterWidth) \in QuarterStarts
           /\ floor_bucket(t, MinuteWidth) \in Int /\ floor_bucket(t, QuarterWidth) \in Int
           /\ floor_bucket(t, MinuteWidth) <= t /\ floor_bucket(t, QuarterWidth) <= t
           /\ \A b \in MinuteStarts : b \in Rows(s.minute) <=> s.minute[b] # {}
           /\ \A q \in QuarterStarts : q \in Rows(s.quarter) <=> s.quarter[q] # {}
           /\ Rows(s.minute) \subseteq MinuteStarts /\ Rows(s.quarter) \subseteq QuarterStarts
BY AlignedTypes, TimeType, BucketType DEF Rows

LEMMA CoverageMinutePass ==
    ASSUME NEW s \in AlignedTables, NEW samples \in SUBSET Times, NEW keep, now \in Times,
           TierInv(s, samples, keep, now), CoverageInv(s, samples, keep, now)
    PROVE  CoverageInv(roll_up_minutes(s), samples, keep, now)
<1> DEFINE r == roll_up_minutes(s)
<1>1. /\ r.raw = s.raw /\ r.quarter = s.quarter /\ r.quarterMark = s.quarterMark
      /\ s.minuteMark <= r.minuteMark
      /\ \A b \in MinuteStarts : b < s.minuteMark => r.minute[b] = s.minute[b]
  BY MinutePassFrame
<1>2. r \in AlignedTables /\ TierInv(r, samples, keep, now)
  BY RollUpMinutesType, MinutePassKeeps
<1> HIDE DEF r
<1>3. r.minuteMark \in Int /\ s.minuteMark \in Int /\ s.quarterMark \in Int
      /\ s.quarterMark <= s.minuteMark
  BY <1>2, AlignedTypes DEF TierInv
<1>4. ASSUME NEW t \in samples, t < r.minuteMark
      PROVE  \/ s.minuteMark <= t /\ t \in r.minute[floor_bucket(t, MinuteWidth)]
             \/ /\ t < s.minuteMark
                /\ r.minute[floor_bucket(t, MinuteWidth)]
                      = s.minute[floor_bucket(t, MinuteWidth)]
  <2> DEFINE f == floor_bucket(t, MinuteWidth)
  <2>1. t \in Int /\ f \in MinuteStarts /\ f \in Int /\ f <= t
    BY MarkTypes
  <2>2. t < r.quarterMark \/ t \in r.minute[f]
    BY <1>2, <1>4 DEF TierInv
  <2> HIDE DEF f
  <2>3. CASE t < s.minuteMark
    BY <1>1, <1>3, <2>1, <2>3 DEF f
  <2>4. CASE s.minuteMark <= t
    BY <1>1, <1>3, <2>1, <2>2, <2>4 DEF f
  <2> QED BY <1>3, <2>1, <2>3, <2>4
<1>5. ASSUME NEW t \in samples, t < r.minuteMark
      PROVE  \/ t \in r.minute[floor_bucket(t, MinuteWidth)]
             \/ floor_bucket(t, MinuteWidth) < now - keep["minute"]
  BY <1>4, <1>5 DEF CoverageInv
<1>6. ASSUME NEW b \in Rows(r.minute), NEW t \in samples,
             b <= floor_bucket(t, MinuteWidth), t < r.minuteMark
      PROVE  t \in r.minute[floor_bucket(t, MinuteWidth)]
  <2> DEFINE f == floor_bucket(t, MinuteWidth)
  <2>1. t \in Int /\ f \in Int /\ f <= t /\ b \in MinuteStarts /\ b \in Int
        /\ r.minute[b] # {}
    BY <1>2, MarkTypes, StartType
  <2>2. CASE s.minuteMark <= t /\ t \in r.minute[f]
    BY <2>2
  <2>3. CASE t < s.minuteMark /\ r.minute[f] = s.minute[f]
    <3>1. b <= f
      BY <1>6
    <3> HIDE DEF f
    <3>2. b < s.minuteMark
      BY <1>3, <2>1, <2>3, <3>1
    <3>3. r.minute[b] = s.minute[b]
      BY <1>1, <2>1, <3>2
    <3>4. b \in Rows(s.minute)
      BY <2>1, <3>3, MarkTypes, AlignedTypes DEF Rows
    <3>5. t \in s.minute[f]
      BY <2>3, <3>1, <3>4 DEF CoverageInv, f
    <3> QED BY <2>3, <3>5 DEF f
  <2> QED BY <1>4, <1>6, <2>2, <2>3
<1>7. CoverageInv(r, samples, keep, now)
  <2>1. /\ \A t \in samples : t \in s.raw \/ t < now - keep["raw"]
        /\ \A u \in s.raw, t \in samples : u <= t => t \in s.raw
        /\ \A q \in Rows(s.quarter), t \in samples :
              q <= floor_bucket(t, QuarterWidth) /\ t < s.quarterMark =>
                 t \in s.quarter[floor_bucket(t, QuarterWidth)]
    BY DEF CoverageInv
  <2> QED BY <1>1, <1>5, <1>6, <2>1 DEF CoverageInv
<1> QED BY <1>7 DEF r

LEMMA CoverageQuarterPass ==
    ASSUME NEW s \in AlignedTables, NEW samples \in SUBSET Times, NEW keep, now \in Times,
           TierInv(s, samples, keep, now), CoverageInv(s, samples, keep, now)
    PROVE  CoverageInv(roll_up_quarters(s), samples, keep, now)
<1> DEFINE r == roll_up_quarters(s)
<1>1. /\ r.raw = s.raw /\ r.minute = s.minute /\ r.minuteMark = s.minuteMark
      /\ s.quarterMark <= r.quarterMark
      /\ \A q \in QuarterStarts : q < s.quarterMark => r.quarter[q] = s.quarter[q]
      /\ \A t \in samples : s.quarterMark <= t /\ t < r.quarterMark =>
            t \in r.quarter[floor_bucket(t, QuarterWidth)]
  BY QuarterPassFrame
<1>2. r \in AlignedTables
  BY RollUpQuartersType
<1> HIDE DEF r
<1>3. r.quarterMark \in Int /\ s.quarterMark \in Int
  BY <1>2, AlignedTypes
<1>4. ASSUME NEW q \in Rows(r.quarter), NEW t \in samples,
             q <= floor_bucket(t, QuarterWidth), t < r.quarterMark
      PROVE  t \in r.quarter[floor_bucket(t, QuarterWidth)]
  <2> DEFINE g == floor_bucket(t, QuarterWidth)
  <2>1. t \in Int /\ g \in QuarterStarts /\ g \in Int /\ g <= t /\ q \in QuarterStarts
        /\ q \in Int /\ r.quarter[q] # {} /\ q <= g
    BY <1>2, <1>4, MarkTypes, StartType
  <2>2. CASE s.quarterMark <= t
    BY <1>1, <1>4, <2>2
  <2>3. CASE t < s.quarterMark
    <3> HIDE DEF g
    <3>1. q < s.quarterMark /\ g < s.quarterMark
      BY <1>3, <2>1, <2>3
    <3>2. r.quarter[q] = s.quarter[q] /\ r.quarter[g] = s.quarter[g]
      BY <1>1, <2>1, <3>1
    <3>3. q \in Rows(s.quarter)
      BY <2>1, <3>2, MarkTypes, AlignedTypes DEF Rows
    <3>4. t \in s.quarter[g]
      BY <2>1, <2>3, <3>3 DEF CoverageInv, g
    <3> QED BY <3>2, <3>4 DEF g
  <2> QED BY <1>3, <2>1, <2>2, <2>3
<1>5. CoverageInv(r, samples, keep, now)
  <2>1. /\ \A t \in samples : t \in s.raw \/ t < now - keep["raw"]
        /\ \A t \in samples : t < s.minuteMark =>
              \/ t \in s.minute[floor_bucket(t, MinuteWidth)]
              \/ floor_bucket(t, MinuteWidth) < now - keep["minute"]
        /\ \A u \in s.raw, t \in samples : u <= t => t \in s.raw
        /\ \A b \in Rows(s.minute), t \in samples :
              b <= floor_bucket(t, MinuteWidth) /\ t < s.minuteMark =>
                 t \in s.minute[floor_bucket(t, MinuteWidth)]
    BY DEF CoverageInv
  <2> QED BY <1>1, <1>4, <2>1 DEF CoverageInv
<1> QED BY <1>5 DEF r

LEMMA CoverageExpiry ==
    ASSUME NEW s \in AlignedTables, NEW samples \in SUBSET Times, NEW keep,
           ValidRetention(keep), now \in Times, CoverageInv(s, samples, keep, now)
    PROVE  CoverageInv(WithoutExpired(s, keep), samples, keep, now)
<1> DEFINE r == WithoutExpired(s, keep)
<1>1. /\ r \in AlignedTables
      /\ r.minuteMark = s.minuteMark /\ r.quarterMark = s.quarterMark
      /\ r.raw \subseteq s.raw
      /\ \A t \in s.raw : \/ t \in r.raw
                          \/ /\ t < now - keep["raw"]
                             /\ \A u \in s.raw : u <= t => u \notin r.raw
      /\ \A b \in MinuteStarts : \/ r.minute[b] = s.minute[b]
                                 \/ /\ b < now - keep["minute"]
                                    /\ \A a \in MinuteStarts : a <= b => r.minute[a] = {}
      /\ \A q \in QuarterStarts : \/ r.quarter[q] = s.quarter[q]
                                  \/ \A p \in QuarterStarts : p <= q => r.quarter[p] = {}
  BY ExpiryFrame
<1> HIDE DEF r
<1>2. \A t \in samples : t \in r.raw \/ t < now - keep["raw"]
  BY <1>1 DEF CoverageInv
<1>3. \A u \in r.raw, t \in samples : u <= t => t \in r.raw
  <2> SUFFICES ASSUME NEW u \in r.raw, NEW t \in samples, u <= t PROVE t \in r.raw
    OBVIOUS
  <2>1. u \in s.raw
    BY <1>1
  <2>2. t \in s.raw
    BY <2>1 DEF CoverageInv
  <2> QED BY <1>1, <2>1, <2>2
<1>4. ASSUME NEW t \in samples, t < s.minuteMark
      PROVE  \/ t \in r.minute[floor_bucket(t, MinuteWidth)]
             \/ floor_bucket(t, MinuteWidth) < now - keep["minute"]
  <2>1. floor_bucket(t, MinuteWidth) \in MinuteStarts
    BY MarkTypes
  <2> QED BY <1>1, <1>4, <2>1 DEF CoverageInv
<1>5. ASSUME NEW b \in Rows(r.minute), NEW t \in samples,
             b <= floor_bucket(t, MinuteWidth), t < s.minuteMark
      PROVE  t \in r.minute[floor_bucket(t, MinuteWidth)]
  <2> DEFINE f == floor_bucket(t, MinuteWidth)
  <2>1. f \in MinuteStarts /\ f \in Int /\ b \in MinuteStarts /\ b \in Int
        /\ r.minute[b] # {} /\ b <= f
    BY <1>1, <1>5, MarkTypes, StartType
  <2>2. b <= b
    BY <2>1
  <2> HIDE DEF f
  <2>3. r.minute[b] = s.minute[b] /\ r.minute[f] = s.minute[f]
    BY <1>1, <2>1, <2>2
  <2>4. b \in Rows(s.minute)
    BY <2>1, <2>3, AlignedTypes DEF Rows
  <2>5. t \in s.minute[f]
    BY <1>5, <2>1, <2>4 DEF CoverageInv, f
  <2> QED BY <2>3, <2>5 DEF f
<1>6. ASSUME NEW q \in Rows(r.quarter), NEW t \in samples,
             q <= floor_bucket(t, QuarterWidth), t < s.quarterMark
      PROVE  t \in r.quarter[floor_bucket(t, QuarterWidth)]
  <2> DEFINE g == floor_bucket(t, QuarterWidth)
  <2>1. g \in QuarterStarts /\ g \in Int /\ q \in QuarterStarts /\ q \in Int
        /\ r.quarter[q] # {} /\ q <= g
    BY <1>1, <1>6, MarkTypes, StartType
  <2>2. q <= q
    BY <2>1
  <2> HIDE DEF g
  <2>3. r.quarter[q] = s.quarter[q] /\ r.quarter[g] = s.quarter[g]
    BY <1>1, <2>1, <2>2
  <2>4. q \in Rows(s.quarter)
    BY <2>1, <2>3, AlignedTypes DEF Rows
  <2>5. t \in s.quarter[g]
    BY <1>6, <2>1, <2>4 DEF CoverageInv, g
  <2> QED BY <2>3, <2>5 DEF g
<1>7. CoverageInv(r, samples, keep, now)
  BY <1>1, <1>2, <1>3, <1>4, <1>5, <1>6 DEF CoverageInv
<1> QED BY <1>7 DEF r

LEMMA CoverageClock ==
    ASSUME NEW s \in AlignedTables, NEW samples \in SUBSET Times, NEW keep,
           ValidRetention(keep), NEW n \in Times, CoverageInv(s, samples, keep, n)
    PROVE  CoverageInv(s, samples, keep, n + 1)
<1>1. n \in Int /\ keep["raw"] \in Int /\ keep["minute"] \in Int
  BY TimeType, KeepType
<1>2. ASSUME NEW t \in samples
      PROVE  /\ t < n - keep["raw"] => t < (n + 1) - keep["raw"]
             /\ floor_bucket(t, MinuteWidth) < n - keep["minute"] =>
                   floor_bucket(t, MinuteWidth) < (n + 1) - keep["minute"]
  <2>1. t \in Int /\ floor_bucket(t, MinuteWidth) \in Int
    BY MarkTypes
  <2> QED BY <1>1, <2>1
<1> QED BY <1>2 DEF CoverageInv

\* A batch is inserted after all older ones, and behind no watermark.
LEMMA CoverageInsert ==
    ASSUME NEW s \in AlignedTables, NEW samples \in SUBSET Times, NEW keep, NEW n \in Times,
           TierInv(s, samples, keep, n), CoverageInv(s, samples, keep, n),
           NEW t \in Times, n - Grace <= t, \A u \in samples : u <= t
    PROVE  CoverageInv(WithRaw(s, t), samples \cup {t}, keep, n)
<1> DEFINE r == WithRaw(s, t)
<1>1. /\ r.raw = s.raw \cup {t} /\ r.minute = s.minute /\ r.quarter = s.quarter
      /\ r.minuteMark = s.minuteMark /\ r.quarterMark = s.quarterMark
  BY WithRawIs
<1> HIDE DEF r
<1>2. s.minuteMark \in Int /\ s.quarterMark \in Int /\ t \in Int /\ n \in Int /\ NoMark < t
      /\ Grace \in Int
  BY MarkTypes, TimeType, Widths DEF NoMark
<1>3. s.minuteMark <= t /\ s.quarterMark <= t
  BY <1>2 DEF TierInv
<1>4. ~(t < s.minuteMark) /\ ~(t < s.quarterMark)
  BY <1>2, <1>3
<1>5. ASSUME NEW u \in r.raw, NEW v \in samples \cup {t}, u <= v PROVE v \in r.raw
  <2>1. u \in Int /\ v \in Int
    BY <1>1, <1>2, AlignedTypes, TimeType
  <2>2. CASE u \in s.raw
    BY <1>1, <1>5, <2>2 DEF CoverageInv
  <2>3. CASE u = t
    <3>1. v <= t
      BY <1>2
    <3>2. v = t
      BY <1>2, <1>5, <2>1, <2>3, <3>1
    <3> QED BY <1>1, <3>2
  <2> QED BY <1>1, <2>2, <2>3
<1>6. CoverageInv(r, samples \cup {t}, keep, n)
  <2>1. /\ \A v \in samples \cup {t} : v \in r.raw \/ v < n - keep["raw"]
        /\ \A v \in samples \cup {t} : v < s.minuteMark =>
              \/ v \in s.minute[floor_bucket(v, MinuteWidth)]
              \/ floor_bucket(v, MinuteWidth) < n - keep["minute"]
    BY <1>1, <1>4 DEF CoverageInv
  <2>2. /\ \A b \in Rows(s.minute), v \in samples \cup {t} :
              b <= floor_bucket(v, MinuteWidth) /\ v < s.minuteMark =>
                 v \in s.minute[floor_bucket(v, MinuteWidth)]
        /\ \A q \in Rows(s.quarter), v \in samples \cup {t} :
              q <= floor_bucket(v, QuarterWidth) /\ v < s.quarterMark =>
                 v \in s.quarter[floor_bucket(v, QuarterWidth)]
    BY <1>4 DEF CoverageInv
  <2> QED BY <1>1, <1>5, <2>1, <2>2 DEF CoverageInv
<1> QED BY <1>6 DEF r

LEMMA CoverageMaintained ==
    ASSUME NEW s \in AlignedTables, NEW samples \in SUBSET Times, NEW keep,
           ValidRetention(keep), now \in Times, TierInv(s, samples, keep, now),
           CoverageInv(s, samples, keep, now)
    PROVE  /\ CoverageInv(Maintained(s, keep), samples, keep, now)
           /\ s.minuteMark <= Maintained(s, keep).minuteMark
           /\ s.quarterMark <= Maintained(s, keep).quarterMark
<1> DEFINE a == roll_up_minutes(s)
           b == roll_up_quarters(a)
           r == WithoutExpired(b, keep)
<1>1. a \in AlignedTables /\ TierInv(a, samples, keep, now) /\ CoverageInv(a, samples, keep, now)
      /\ s.minuteMark <= a.minuteMark /\ a.quarterMark = s.quarterMark
  BY RollUpMinutesType, MinutePassKeeps, CoverageMinutePass, MinutePassFrame
<1> HIDE DEF a
<1>2. b \in AlignedTables /\ CoverageInv(b, samples, keep, now)
      /\ b.minuteMark = a.minuteMark /\ a.quarterMark <= b.quarterMark
  BY <1>1, RollUpQuartersType, CoverageQuarterPass, QuarterPassFrame
<1> HIDE DEF b
<1>3. CoverageInv(r, samples, keep, now)
      /\ r.minuteMark = b.minuteMark /\ r.quarterMark = b.quarterMark
  BY <1>2, CoverageExpiry, ExpiryFrame
<1>4. r = Maintained(s, keep)
  BY DEF Maintained, a, b
<1> HIDE DEF r
<1>5. s.minuteMark <= r.minuteMark /\ s.quarterMark <= r.quarterMark
  BY <1>1, <1>2, <1>3
<1> QED BY <1>3, <1>4, <1>5

----------------------------------------------------------------------------
(* The invariant of the readers. *)

\* Batches are inserted in the order of their stamps.
InOrderInv ==
    \A u \in inserted : u <= now /\ \A i \in DOMAIN queue : u <= queue[i]

ReaderInv ==
    /\ IInv
    /\ InOrderInv
    /\ CoverageInv(metrics, inserted, MetricKeep, now)
    /\ CoverageInv(processes, Snapshots, ProcessKeep, now)

LEMMA InitReader == Init => ReaderInv
<1> SUFFICES ASSUME Init PROVE ReaderInv
  OBVIOUS
<1>1. NoRows.raw = {} /\ Rows(NoRows.minute) = {} /\ Rows(NoRows.quarter) = {}
  BY DEF NoRows, Rows
<1>2. ASSUME NEW keep PROVE CoverageInv(NoRows, {}, keep, now)
  BY <1>1 DEF CoverageInv
<1>3. Snapshots = {} /\ inserted = {} /\ metrics = NoRows /\ processes = NoRows
  BY DEF Init, Snapshots
<1> QED BY <1>2, <1>3, InitInvariant DEF ReaderInv, InOrderInv

LEMMA InOrderStep ==
    ASSUME IInv, InOrderInv, Next
    PROVE  InOrderInv'
<1>0. now \in Int /\ queue \in Seq(Times) /\ inserted \subseteq Times /\ QueueInv
      /\ \A i \in DOMAIN queue : queue[i] \in Int
  BY InvTypes, TimeType DEF IInv
<1>t. \A u \in inserted : u \in Int
  BY <1>0, TimeType
<1>1. CASE Tick
  <2>1. now' = now + 1 /\ queue' = queue /\ inserted' = inserted
    BY <1>1 DEF Tick, tables
  <2> QED BY <1>0, <1>t, <2>1 DEF InOrderInv
<1>2. CASE SendBatch
  <2>1. now' = now /\ queue' = Append(queue, now) /\ inserted' = inserted
    BY <1>2 DEF SendBatch, tables
  <2>2. \A i \in DOMAIN queue' : queue'[i] = now \/ (i \in DOMAIN queue /\ queue'[i] = queue[i])
    BY <1>0, <2>1, InvTypes
  <2> QED BY <1>0, <2>1, <2>2 DEF InOrderInv
<1>3. CASE InsertBatch
  <2> DEFINE t == Head(queue)
  <2>1. now' = now /\ queue' = Tail(queue) /\ queue # <<>> /\ inserted' = inserted \cup {t}
    BY <1>3 DEF InsertBatch
  <2>2. 1 \in DOMAIN queue /\ t = queue[1]
        /\ \A i \in DOMAIN queue' : i + 1 \in DOMAIN queue /\ queue'[i] = queue[i + 1]
                                    /\ 1 <= i + 1
    BY <1>0, <2>1
  <2> HIDE DEF t
  <2>3. t <= now /\ \A i \in DOMAIN queue' : t <= queue'[i]
    BY <1>0, <2>2 DEF QueueInv
  <2>4. \A u \in inserted : u <= now /\ \A i \in DOMAIN queue' : u <= queue'[i]
    BY <2>2 DEF InOrderInv
  <2> QED BY <2>1, <2>3, <2>4 DEF InOrderInv
<1>4. CASE RunMaintenance \/ SkipMaintenance
  BY <1>4 DEF InOrderInv, RunMaintenance, SkipMaintenance, tables
<1>5. CASE Restart
  BY <1>0, <1>5 DEF InOrderInv, Restart, tables
<1> QED BY <1>1, <1>2, <1>3, <1>4, <1>5 DEF Next

\* What the inserts and the maintenance do to the coverage and to the watermarks.
LEMMA ReaderStep ==
    ASSUME MaxDelay <= Grace, ReaderInv, [Next]_vars
    PROVE  /\ ReaderInv'
           /\ now' = now \/ UNCHANGED tables
           /\ inserted \subseteq inserted' /\ Snapshots \subseteq Snapshots'
           /\ processes.minuteMark <= processes'.minuteMark
           /\ processes.quarterMark <= processes'.quarterMark
<1>0. /\ now \in Times /\ now \in Int /\ queue \in Seq(Times)
      /\ metrics \in AlignedTables /\ processes \in AlignedTables
      /\ inserted \in SUBSET Times /\ Snapshots \in SUBSET Times
      /\ ValidRetention(MetricKeep) /\ ValidRetention(ProcessKeep)
      /\ TierInv(metrics, inserted, MetricKeep, now)
      /\ TierInv(processes, Snapshots, ProcessKeep, now)
      /\ CoverageInv(metrics, inserted, MetricKeep, now)
      /\ CoverageInv(processes, Snapshots, ProcessKeep, now)
      /\ processes.minuteMark \in Int /\ processes.quarterMark \in Int
  BY InvTypes, AlignedTypes DEF ReaderInv, IInv
<1>i. IInv' /\ (Next => InOrderInv')
  BY InvariantStep, InOrderStep DEF ReaderInv
<1>1. CASE UNCHANGED vars
  <2>1. InOrderInv' /\ Snapshots' = Snapshots /\ UNCHANGED <<now, metrics, processes, inserted>>
    BY <1>1 DEF ReaderInv, InOrderInv, Snapshots, vars, tables
  <2> QED BY <1>0, <1>i, <2>1 DEF ReaderInv, tables, CoverageInv, Rows
<1> SUFFICES ASSUME Next
             PROVE  /\ CoverageInv(metrics', inserted', MetricKeep, now')
                    /\ CoverageInv(processes', Snapshots', ProcessKeep, now')
                    /\ now' = now \/ UNCHANGED tables
                    /\ inserted \subseteq inserted' /\ Snapshots \subseteq Snapshots'
                    /\ processes.minuteMark <= processes'.minuteMark
                    /\ processes.quarterMark <= processes'.quarterMark
  BY <1>1, <1>i DEF ReaderInv, CoverageInv, Rows
<1>2. CASE SendBatch \/ SkipMaintenance \/ Restart
  <2>1. UNCHANGED <<now, metrics, processes, inserted>> /\ Snapshots' = Snapshots
    BY <1>2 DEF SendBatch, SkipMaintenance, Restart, tables, Snapshots
  <2> QED BY <1>0, <2>1
<1>3. CASE Tick
  <2>1. now' = now + 1 /\ UNCHANGED <<metrics, processes, inserted>> /\ UNCHANGED tables
    BY <1>3 DEF Tick, tables
  <2>2. Snapshots' = Snapshots
    BY <2>1 DEF Snapshots
  <2>3. /\ CoverageInv(metrics, inserted, MetricKeep, now + 1)
        /\ CoverageInv(processes, Snapshots, ProcessKeep, now + 1)
    BY <1>0, CoverageClock
  <2> QED BY <1>0, <2>1, <2>2, <2>3
<1>4. CASE RunMaintenance
  <2>1. /\ metrics' = Maintained(metrics, MetricKeep)
        /\ processes' = Maintained(processes, ProcessKeep)
        /\ now' = now /\ inserted' = inserted
    BY <1>4 DEF RunMaintenance, MetricsMaintained, ProcessesMaintained
  <2>2. Snapshots' = Snapshots
    BY <2>1 DEF Snapshots
  <2>3. /\ CoverageInv(Maintained(metrics, MetricKeep), inserted, MetricKeep, now)
        /\ CoverageInv(Maintained(processes, ProcessKeep), Snapshots, ProcessKeep, now)
        /\ processes.minuteMark <= Maintained(processes, ProcessKeep).minuteMark
        /\ processes.quarterMark <= Maintained(processes, ProcessKeep).quarterMark
    BY <1>0, CoverageMaintained
  <2> QED BY <2>1, <2>2, <2>3
<1>5. CASE InsertBatch
  <2> DEFINE t == Head(queue)
  <2>1. queue # <<>> /\ now' = now /\ inserted' = inserted \cup {t}
        /\ metrics' = WithRaw(metrics, t)
        /\ processes' = IF HasSnapshot(t) THEN WithRaw(processes, t) ELSE processes
    BY <1>5 DEF InsertBatch
  <2>2. t \in Times /\ 1 \in DOMAIN queue /\ t = queue[1]
    BY <1>0, <2>1
  <2>3. now - t <= MaxDelay /\ \A u \in inserted : u <= t
    BY <2>2 DEF ReaderInv, IInv, QueueInv, InOrderInv
  <2>4. now - Grace <= t
    <3>1. t \in Int /\ MaxDelay \in Int /\ Grace \in Int
      BY <2>2, TimeType, Widths
    <3> HIDE DEF t
    <3> QED BY <1>0, <2>3, <3>1
  <2>5. Snapshots' = IF HasSnapshot(t) THEN Snapshots \cup {t} ELSE Snapshots
    BY <2>1 DEF Snapshots
  <2> HIDE DEF t
  <2>6. CoverageInv(WithRaw(metrics, t), inserted \cup {t}, MetricKeep, now)
    BY <1>0, <2>2, <2>3, <2>4, CoverageInsert
  <2>7. CoverageInv(WithRaw(processes, t), Snapshots \cup {t}, ProcessKeep, now)
    <3>1. \A u \in Snapshots : u <= t
      BY <2>3 DEF Snapshots
    <3> QED BY <1>0, <2>2, <2>4, <3>1, CoverageInsert, SMTT(30)
  <2>8. /\ processes'.minuteMark = processes.minuteMark
        /\ processes'.quarterMark = processes.quarterMark
    BY <1>0, <2>1, <2>2, WithRawIs
  <2>9. /\ CoverageInv(metrics', inserted', MetricKeep, now)
        /\ CoverageInv(processes', Snapshots', ProcessKeep, now)
    BY <1>0, <2>1, <2>5, <2>6, <2>7
  <2> QED BY <1>0, <2>1, <2>5, <2>8, <2>9
<1> QED BY <1>2, <1>3, <1>4, <1>5 DEF Next

----------------------------------------------------------------------------
(* The rows and the points of a report. *)

LEMMA RoundedUp ==
    ASSUME NEW a \in Nat, NEW b \in Nat \ {0}
    PROVE  /\ DividedUp(a, b) \in Nat /\ a <= DividedUp(a, b) * b
           /\ a > 0 => DividedUp(a, b) > 0
<1> DEFINE q == (a + b - 1) \div b
           r == (a + b - 1) % b
<1>1. q \in Int /\ r \in 0 .. b - 1 /\ a + b - 1 = b * q + r
  OBVIOUS
<1> HIDE DEF q, r
<1>2. q \in Int /\ r \in Int /\ 0 <= r /\ r <= b - 1 /\ a + b - 1 = q * b + r
  BY <1>1
<1> DEFINE p == q * b
<1>3. p \in Int /\ a <= p
  <2>1. p \in Int
    BY <1>2
  <2> HIDE DEF p
  <2>2. a + b - 1 = p + r
    BY <1>2 DEF p
  <2> QED BY <1>2, <2>1, <2>2
<1>4. q < 0 => p <= 0 - b
  BY <1>2
<1>5. q = 0 => p = 0
  BY <1>2
<1> HIDE DEF p
<1>6. q \in Nat /\ (a > 0 => q > 0)
  BY <1>2, <1>3, <1>4, <1>5
<1> QED BY <1>3, <1>6 DEF DividedUp, p, q

LEMMA TimesMonotone ==
    ASSUME NEW a \in Int, NEW b \in Int, NEW w \in Nat, a <= b
    PROVE  a * w <= b * w
<1>1. (b - a) * w \in Nat
  OBVIOUS
<1>2. b * w = a * w + (b - a) * w
  OBVIOUS
<1> QED BY <1>1, <1>2

\* What the points show is what the rows in the range stand for.
LEMMA ShownIs ==
    ASSUME NEW s, NEW tier, NEW range, NEW span
    PROVE  Shown(Points(s, tier, range, span))
              = UNION {SamplesAt(s, tier, b) : b \in RowsInRange(s, tier, range)}
<1> DEFINE rows == RowsInRange(s, tier, range)
           At(b) == SamplesAt(s, tier, b)
           Bucket(b) == ((b - range.from) \div span) * span + range.from
           P == {Bucket(b) : b \in rows}
           points == [p \in P |-> UNION {At(b) : b \in {b \in rows : Bucket(b) = p}}]
<1>1. Points(s, tier, range, span) = points
  BY DEF Points
<1> HIDE DEF rows, At, Bucket
<1>2. UNION {points[p] : p \in P} = UNION {At(b) : b \in rows}
  <2>1. ASSUME NEW t, t \in UNION {At(b) : b \in rows}
        PROVE  t \in UNION {points[p] : p \in P}
    <3>1. PICK b \in rows : t \in At(b)
      BY <2>1
    <3>2. Bucket(b) \in P /\ t \in points[Bucket(b)]
      BY <3>1
    <3> QED BY <3>2
  <2>2. ASSUME NEW t, t \in UNION {points[p] : p \in P}
        PROVE  t \in UNION {At(b) : b \in rows}
    <3>1. PICK p \in P : t \in points[p]
      BY <2>2
    <3>2. PICK b \in rows : t \in At(b)
      BY <3>1
    <3> QED BY <3>2
  <2> QED BY <2>1, <2>2
<1>3. DOMAIN points = P
  OBVIOUS
<1> HIDE DEF points, P
<1> QED BY <1>1, <1>2, <1>3 DEF Shown, rows, At

\* A range of M spans has at most M points.
LEMMA FewPoints ==
    ASSUME NEW s, NEW tier, NEW range, NEW span \in Nat \ {0}, NEW M \in Nat,
           range.from \in Int, range.to \in Int, RowTimes(s, tier) \subseteq Int,
           Duration(range) <= M * span
    PROVE  Cardinality(DOMAIN Points(s, tier, range, span)) <= M
<1> DEFINE rows == RowsInRange(s, tier, range)
           from == range.from
           Number(b) == (b - from) \div span
           Bucket(b) == Number(b) * span + from
           P == {Bucket(b) : b \in rows}
           K == {k \in 0 .. M - 1 : \E b \in rows : k = Number(b)}
           f == [k \in K |-> k * span + from]
<1>1. DOMAIN Points(s, tier, range, span) = P
  BY DEF Points
<1>2. from \in Int /\ \A b \in rows : b \in Int /\ from <= b /\ b - from < M * span
  BY DEF RowsInRange, InRange, Duration
<1> HIDE DEF rows, from
<1>3. ASSUME NEW b \in rows PROVE Number(b) \in 0 .. M - 1
  <2> DEFINE d == b - from
             q == d \div span
             r == d % span
  <2>1. d \in Nat /\ d < M * span
    BY <1>2
  <2> HIDE DEF d
  <2>2. q \in Int /\ r \in 0 .. span - 1 /\ d = span * q + r /\ q >= 0
    BY <2>1
  <2> HIDE DEF q, r
  <2>3. q * span <= d
    BY <2>2
  <2>4. M <= q => M * span <= q * span
    BY <2>2, TimesMonotone
  <2>5. q * span \in Int /\ M * span \in Int
    BY <2>2
  <2>6. q < M
    BY <2>1, <2>2, <2>3, <2>4, <2>5
  <2>7. Number(b) = q
    BY DEF q, d
  <2> HIDE DEF Number
  <2> QED BY <2>2, <2>6, <2>7
<1> HIDE DEF Number
<1>4. f \in Surjection(K, P)
  <2>1. \A k \in K : f[k] \in P
    OBVIOUS
  <2>2. \A p \in P : \E k \in K : f[k] = p
    <3> SUFFICES ASSUME NEW b \in rows PROVE \E k \in K : f[k] = Bucket(b)
      OBVIOUS
    <3>1. Number(b) \in K /\ f[Number(b)] = Bucket(b)
      BY <1>3
    <3> QED BY <3>1
  <2> HIDE DEF K, P
  <2>3. f \in [K -> P]
    BY <2>1
  <2> HIDE DEF f
  <2> QED BY <2>2, <2>3 DEF Surjection
<1>5. IsFiniteSet(0 .. M - 1) /\ Cardinality(0 .. M - 1) = M
  BY FS_Interval
<1>6. IsFiniteSet(K) /\ Cardinality(K) <= M
  <2>1. K \in SUBSET (0 .. M - 1)
    OBVIOUS
  <2> HIDE DEF K
  <2> QED BY <1>5, <2>1, FS_Subset
<1> HIDE DEF K, P, f
<1>7. Cardinality(P) <= Cardinality(K) /\ IsFiniteSet(P)
  BY <1>4, <1>6, FS_Surjection
<1>8. Cardinality(P) \in Nat /\ Cardinality(K) \in Nat
  BY <1>6, <1>7, FS_CardinalityType
<1> QED BY <1>1, <1>6, <1>7, <1>8

----------------------------------------------------------------------------
(* The tier of a report. *)

LEMMA TierRows ==
    ASSUME NEW s \in AlignedTables, NEW tier \in Tier
    PROVE  /\ Width(tier) \in Nat \ {0}
           /\ RowTimes(s, tier) \subseteq Times /\ RowTimes(s, tier) \subseteq Int
<1>1. Width(tier) \in Nat \ {0}
  BY Widths DEF Width, Tier
<1>2. RowTimes(s, tier) \subseteq Times
  BY AlignedTypes, StartType DEF RowTimes, Tier
<1> QED BY <1>1, <1>2, TimeType

LEMMA ReportTypes ==
    ASSUME now \in Int, NEW range \in ReportRange
    PROVE  range.from \in Int /\ range.to \in Int /\ Duration(range) \in Nat \ {0}
<1>1. PICK d \in Durations, age \in Ages :
         range = [from |-> now - age - d, to |-> now - age]
  BY DEF ReportRange
<1>2. d \in Nat \ {0} /\ age \in Nat
  BY ReportsAssumption
<1>3. range.from = now - age - d /\ range.to = now - age
  BY <1>1
<1> QED BY <1>2, <1>3 DEF Duration

LEMMA SelectedResolution ==
    ASSUME NEW s, NEW range
    PROVE  select_resolution(s, range) \in Tier
<1> DEFINE p == preferred_resolution(range)
           withData == {i \in 1 .. 3 : has_metric_data(s, range, Candidates(range)[i])}
<1>1. p \in {"raw", "minute", "quarter"}
  BY DEF preferred_resolution
<1>2. \A i \in 1 .. 3 : Candidates(range)[i] \in Tier
  <2>1. \/ Candidates(range) = <<"raw", "minute", "quarter">>
        \/ Candidates(range) = <<"minute", "quarter", "raw">>
        \/ Candidates(range) = <<"quarter", "minute", "raw">>
    BY <1>1 DEF Candidates
  <2>2. \A i \in 1 .. 3 : i = 1 \/ i = 2 \/ i = 3
    OBVIOUS
  <2> QED BY <2>1, <2>2 DEF Tier
<1>3. withData # {} => Earliest(withData) \in 1 .. 3
  <2>1. withData \subseteq Nat /\ withData \subseteq 1 .. 3
    OBVIOUS
  <2> HIDE DEF withData
  <2> QED BY <2>1, EarliestIn
<1>4. select_resolution(s, range) =
         IF withData = {} THEN p ELSE Candidates(range)[Earliest(withData)]
  BY DEF select_resolution
<1> HIDE DEF withData, p
<1> QED BY <1>1, <1>2, <1>3, <1>4 DEF Tier

LEMMA SelectedProcessTier ==
    ASSUME NEW s, NEW range
    PROVE  /\ select_process_tier(s, range) \in Tier
           /\ (\E r \in Tier : ReachesBack(s, r, range)) =>
                 ReachesBack(s, select_process_tier(s, range), range)
BY DEF select_process_tier, Tier

\* Where a committed sample is, by the tier.
LEMMA SampleInTier ==
    ASSUME NEW s \in AlignedTables, NEW samples \in SUBSET Times, NEW keep, NEW n \in Int,
           TierInv(s, samples, keep, n), CoverageInv(s, samples, keep, n),
           NEW tier \in Tier, NEW t \in samples, ~ NotYetRolledUp(s, tier, t)
    PROVE  LET f == RowOf(tier, t)
           IN  /\ \/ f \in RowTimes(s, tier) /\ t \in SamplesAt(s, tier, f)
                  \/ f < n - keep[tier]
               /\ (\E b \in RowTimes(s, tier) : b <= f) =>
                     f \in RowTimes(s, tier) /\ t \in SamplesAt(s, tier, f)
<1>1. /\ s.minuteMark \in Int /\ s.quarterMark \in Int /\ t \in Int
      /\ floor_bucket(t, MinuteWidth) \in MinuteStarts
      /\ floor_bucket(t, QuarterWidth) \in QuarterStarts
      /\ \A b \in MinuteStarts : b \in Rows(s.minute) <=> s.minute[b] # {}
      /\ \A q \in QuarterStarts : q \in Rows(s.quarter) <=> s.quarter[q] # {}
  BY MarkTypes
<1>2. CASE tier = "raw"
  <2>1. RowOf(tier, t) = t /\ RowTimes(s, tier) = s.raw /\ SamplesAt(s, tier, t) = {t}
    BY <1>1, <1>2 DEF RowOf, floor_bucket, Width, RowTimes, SamplesAt
  <2>2. /\ t \in s.raw \/ t < n - keep[tier]
        /\ \A r \in s.raw : r <= t => t \in s.raw
    BY <1>2 DEF CoverageInv
  <2> QED BY <2>1, <2>2
<1>3. CASE tier = "minute"
  <2> DEFINE f == floor_bucket(t, MinuteWidth)
  <2>1. RowOf(tier, t) = f /\ RowTimes(s, tier) = Rows(s.minute)
        /\ SamplesAt(s, tier, f) = s.minute[f]
    BY <1>3 DEF RowOf, Width, RowTimes, SamplesAt
  <2>2. t < s.minuteMark
    BY <1>1, <1>3 DEF NotYetRolledUp
  <2>3. /\ t \in s.minute[f] \/ f < n - keep[tier]
        /\ \A b \in Rows(s.minute) : b <= f => t \in s.minute[f]
    BY <1>3, <2>2 DEF CoverageInv
  <2>4. f \in MinuteStarts /\ (t \in s.minute[f] => f \in Rows(s.minute))
    BY <1>1
  <2> HIDE DEF f
  <2> QED BY <2>1, <2>3, <2>4
<1>4. CASE tier = "quarter"
  <2> DEFINE g == floor_bucket(t, QuarterWidth)
  <2>1. RowOf(tier, t) = g /\ RowTimes(s, tier) = Rows(s.quarter)
        /\ SamplesAt(s, tier, g) = s.quarter[g]
    BY <1>4 DEF RowOf, Width, RowTimes, SamplesAt
  <2>2. t < s.quarterMark
    BY <1>1, <1>4 DEF NotYetRolledUp
  <2>3. /\ t \in s.quarter[g] \/ g < n - keep[tier]
        /\ \A q \in Rows(s.quarter) : q <= g => t \in s.quarter[g]
    BY <1>4, <2>2 DEF CoverageInv, TierInv
  <2>4. g \in QuarterStarts /\ (t \in s.quarter[g] => g \in Rows(s.quarter))
    BY <1>1
  <2> HIDE DEF g
  <2> QED BY <2>1, <2>3, <2>4
<1> QED BY <1>2, <1>3, <1>4 DEF Tier

\* And what a row has is committed, in its bucket and behind the watermark.
LEMMA RowHasSamples ==
    ASSUME NEW s \in AlignedTables, NEW samples \in SUBSET Times, NEW keep, NEW n,
           TierInv(s, samples, keep, n), NEW tier \in Tier, NEW b \in RowTimes(s, tier),
           NEW t \in SamplesAt(s, tier, b)
    PROVE  t \in samples /\ RowOf(tier, t) = b /\ ~ NotYetRolledUp(s, tier, t)
<1>1. /\ s.minuteMark \in Int /\ s.quarterMark \in Int
      /\ s.minuteMark \in MinuteStarts \cup {NoMark}
      /\ s.quarterMark \in QuarterStarts \cup {NoMark}
      /\ Rows(s.minute) \subseteq MinuteStarts /\ Rows(s.quarter) \subseteq QuarterStarts
  BY AlignedTypes
<1>2. CASE tier = "raw"
  <2>1. t = b /\ b \in s.raw
    BY <1>2 DEF SamplesAt, RowTimes
  <2>2. b \in samples /\ b \in Int
    BY <2>1, TimeType DEF TierInv
  <2>3. RowOf(tier, b) = b /\ ~ NotYetRolledUp(s, tier, b)
    BY <1>2, <2>2 DEF RowOf, Width, floor_bucket, NotYetRolledUp
  <2> QED BY <2>1, <2>2, <2>3
<1>3. CASE tier = "minute"
  <2>1. b \in Rows(s.minute) /\ t \in s.minute[b]
    BY <1>3 DEF SamplesAt, RowTimes
  <2>2. b < s.minuteMark /\ t \in samples /\ InBucket(t, b, MinuteWidth)
    BY <2>1 DEF TierInv, CompleteRows
  <2>3. b \in MinuteStarts /\ b \in Int /\ b \in Nat /\ t \in Times /\ t \in Int
    BY <1>1, <2>1, <2>2, StartType, TimeType
  <2>4. floor_bucket(t, MinuteWidth) = b
    BY <2>2, <2>3, BucketType
  <2>5. s.minuteMark # NoMark
    BY <2>2, <2>3 DEF NoMark
  <2>6. ~ (t >= s.minuteMark)
    <3>1. s.minuteMark <= t <=> s.minuteMark <= b
      BY <1>1, <2>3, <2>4, <2>5, BucketType
    <3> QED BY <1>1, <2>2, <2>3, <3>1
  <2> QED BY <1>3, <2>2, <2>4, <2>5, <2>6 DEF RowOf, Width, NotYetRolledUp
<1>4. CASE tier = "quarter"
  <2>1. b \in Rows(s.quarter) /\ t \in s.quarter[b]
    BY <1>4 DEF SamplesAt, RowTimes
  <2>2. b < s.quarterMark /\ t \in samples /\ InBucket(t, b, QuarterWidth)
    BY <2>1 DEF TierInv, CompleteRows
  <2>3. b \in QuarterStarts /\ b \in Int /\ b \in Nat /\ t \in Times /\ t \in Int
    BY <1>1, <2>1, <2>2, StartType, TimeType
  <2>4. floor_bucket(t, QuarterWidth) = b
    BY <2>2, <2>3, BucketType
  <2>5. s.quarterMark # NoMark
    BY <2>2, <2>3 DEF NoMark
  <2>6. ~ (t >= s.quarterMark)
    <3>1. s.quarterMark <= t <=> s.quarterMark <= b
      BY <1>1, <2>3, <2>4, <2>5, BucketType
    <3> QED BY <1>1, <2>2, <2>3, <3>1
  <2> QED BY <1>4, <2>2, <2>4, <2>5, <2>6 DEF RowOf, Width, NotYetRolledUp
<1> QED BY <1>2, <1>3, <1>4 DEF Tier

----------------------------------------------------------------------------
(* The theorems about the reports. *)

\* The spans are long enough for the range.
LEMMA ChartSpans ==
    ASSUME now \in Int, NEW range \in ReportRange, NEW tier \in Tier
    PROVE  /\ chart_bucket_span(range, tier) \in Nat \ {0}
           /\ Duration(range) <= MaxChartPoints * chart_bucket_span(range, tier)
           /\ process_chart_bucket_span(range) \in Nat \ {0}
           /\ Duration(range) <= MaxProcessPoints * process_chart_bucket_span(range)
<1> DEFINE d == Duration(range)
           w == Width(tier)
           needed == DividedUp(d, MaxChartPoints)
           buckets == DividedUp(needed, w)
           processNeeded == DividedUp(d, MaxProcessPoints)
           span == process_chart_bucket_span(range)
<1>1. d \in Nat \ {0} /\ w \in Nat \ {0} /\ MaxChartPoints \in Nat \ {0}
      /\ MaxProcessPoints \in Nat \ {0} /\ MinProcessBucket \in Nat \ {0}
  BY ReportTypes, ReportsAssumption, Widths DEF Width
<1> HIDE DEF d, w
<1>2. needed \in Nat /\ needed > 0 /\ d <= needed * MaxChartPoints
      /\ processNeeded \in Nat /\ processNeeded > 0 /\ d <= processNeeded * MaxProcessPoints
  BY <1>1, RoundedUp
<1> HIDE DEF needed
<1>3. buckets \in Nat /\ buckets > 0 /\ needed <= buckets * w
  BY <1>1, <1>2, RoundedUp
<1>4. chart_bucket_span(range, tier) = w * buckets
  BY DEF chart_bucket_span, w, d, needed
<1> HIDE DEF buckets
<1>5. w * buckets \in Nat \ {0} /\ needed <= w * buckets
  BY <1>1, <1>3
<1>6. needed * MaxChartPoints <= (w * buckets) * MaxChartPoints
  BY <1>1, <1>2, <1>5, TimesMonotone
<1>7. d <= MaxChartPoints * (w * buckets)
  BY <1>1, <1>2, <1>5, <1>6
<1>8. span = IF processNeeded > MinProcessBucket THEN processNeeded ELSE MinProcessBucket
  BY DEF process_chart_bucket_span, d
<1> HIDE DEF processNeeded, span
<1>9. span \in Nat \ {0} /\ processNeeded <= span
  BY <1>1, <1>2, <1>8
<1>10. processNeeded * MaxProcessPoints <= span * MaxProcessPoints
  BY <1>1, <1>2, <1>9, TimesMonotone
<1>11. d <= MaxProcessPoints * span
  BY <1>1, <1>2, <1>9, <1>10
<1> QED BY <1>4, <1>5, <1>7, <1>9, <1>11 DEF d, span

\* A report that is read across a step.
LEMMA MetricReportStep ==
    ASSUME MaxDelay <= Grace, ReaderInv, [Next]_vars, now' = now, NEW range \in ReportRange
    PROVE  MetricReportIsComplete(range)
<1> DEFINE tier == select_resolution(metrics, range)
           span == chart_bucket_span(range, tier)
           s == metrics'
           samples == inserted'
           points == query_series(s, range, tier)
<1>1. tier \in Tier /\ now \in Int
  BY SelectedResolution, InvTypes DEF ReaderInv
<1>2. ReaderInv' /\ inserted \subseteq samples
  BY ReaderStep
<1>3. /\ s \in AlignedTables /\ samples \in SUBSET Times
      /\ TierInv(s, samples, MetricKeep, now) /\ CoverageInv(s, samples, MetricKeep, now)
  <2>1. IInv' /\ CoverageInv(metrics, inserted, MetricKeep, now)'
    BY <1>2 DEF ReaderInv
  <2>2. TypeOK' /\ metrics' \in AlignedTables' /\ TierInv(metrics, inserted, MetricKeep, now)'
    BY <2>1 DEF IInv, TypeInv
  <2>3. AlignedTables' = AlignedTables /\ Times' = Times /\ inserted' \subseteq Times
    BY <2>2 DEF TypeOK, AlignedTables, Tables, Times
  <2> QED BY <2>1, <2>2, <2>3 DEF TierInv, CoverageInv, CompleteRows, Rows
<1>4. points = Points(s, tier, range, span)
  BY DEF query_series
<1>5. Shown(points) = UNION {SamplesAt(s, tier, b) : b \in RowsInRange(s, tier, range)}
  BY <1>4, ShownIs
<1>6. Cardinality(DOMAIN points) <= MaxChartPoints
  <2>1. /\ span \in Nat \ {0} /\ Duration(range) <= MaxChartPoints * span
        /\ range.from \in Int /\ range.to \in Int /\ RowTimes(s, tier) \subseteq Int
        /\ MaxChartPoints \in Nat
    BY <1>1, <1>3, ChartSpans, ReportTypes, TierRows, ReportsAssumption
  <2> HIDE DEF s, span, tier, points
  <2> QED BY <1>4, <2>1, FewPoints
<1>7. ASSUME NEW t \in SamplesInRange(inserted, tier, range)
      PROVE  t \in Shown(points) \/ NotYetRolledUp(s, tier, t) \/ Expired(MetricKeep, tier, t)
  <2>1. t \in samples /\ InRange(range, RowOf(tier, t))
    BY <1>2 DEF SamplesInRange
  <2> HIDE DEF tier, s, samples, points
  <2>2. \/ NotYetRolledUp(s, tier, t)
        \/ RowOf(tier, t) \in RowTimes(s, tier) /\ t \in SamplesAt(s, tier, RowOf(tier, t))
        \/ RowOf(tier, t) < now - MetricKeep[tier]
    BY <1>1, <1>3, <2>1, SampleInTier
  <2> QED BY <1>5, <2>1, <2>2 DEF RowsInRange, Expired
<1>8. Shown(points) \subseteq SamplesInRange(samples, tier, range)
  <2> HIDE DEF tier, s, samples, points
  <2> SUFFICES ASSUME NEW b \in RowsInRange(s, tier, range), NEW t \in SamplesAt(s, tier, b)
               PROVE  t \in SamplesInRange(samples, tier, range)
    BY <1>5
  <2>1. b \in RowTimes(s, tier) /\ InRange(range, b)
    BY DEF RowsInRange
  <2>2. t \in samples /\ RowOf(tier, t) = b
    BY <1>1, <1>3, <2>1, RowHasSamples
  <2> QED BY <2>1, <2>2 DEF SamplesInRange
<1> HIDE DEF tier, s, samples, points
<1>9. /\ \A t \in SamplesInRange(inserted, tier, range) :
            t \in Shown(points) \/ NotYetRolledUp(s, tier, t) \/ Expired(MetricKeep, tier, t)
      /\ Shown(points) \subseteq SamplesInRange(samples, tier, range)
      /\ Cardinality(DOMAIN points) <= MaxChartPoints
  BY <1>6, <1>7, <1>8
<1> QED BY <1>9 DEF MetricReportIsComplete, tier, s, samples, points

\* src/report_storage.rs: whichever tier a report chooses, and whatever the writer commits
\* before it reads the series, no sample of its range is missing but what is too recent for the
\* tier or past its retention, nothing else is shown, and no chart has too many points; for
\* every length and age of the range, on the condition of the two theorems above.
THEOREM MetricReports ==
    ASSUME MaxDelay <= Grace
    PROVE  Spec => MetricReportsAreComplete
<1>1. Init => ReaderInv
  BY InitReader
<1>2. ReaderInv /\ [Next]_vars => ReaderInv'
  BY ReaderStep
<1>3. ReaderInv /\ [Next]_vars
         => [\A range \in ReportRange : MetricReportIsComplete(range)]_tables
  <2> SUFFICES ASSUME ReaderInv, [Next]_vars, ~ UNCHANGED tables,
                      NEW range \in ReportRange
               PROVE  MetricReportIsComplete(range)
    OBVIOUS
  <2>1. now' = now
    BY ReaderStep
  <2> QED BY <2>1, MetricReportStep
<1> QED BY <1>1, <1>2, <1>3, PTL DEF Spec, MetricReportsAreComplete

\* What the summaries aggregate, from the tier that was chosen.
LEMMA SummariesAre ==
    ASSUME NEW chosenIn, NEW s, NEW range
    PROVE  LET tier == select_process_tier(chosenIn, range)
           IN  query_processes(chosenIn, s, range)
                  = UNION {SamplesAt(s, tier, b) : b \in RowsInRange(s, tier, range)}
<1> DEFINE tier == select_process_tier(chosenIn, range)
           rows == RowsInRange(s, tier, range)
           summarised == query_processes(chosenIn, s, range)
<1>1. summarised = IF tier = "raw" THEN RowsInRange(s, "raw", range)
                   ELSE query_rollup_processes(s, range, tier)
  BY DEF query_processes
<1> HIDE DEF tier, summarised
<1>2. CASE tier = "raw"
  <2>1. \A b \in rows : SamplesAt(s, tier, b) = {b}
    BY <1>2 DEF SamplesAt
  <2>2. summarised = rows
    BY <1>1, <1>2
  <2> HIDE DEF rows
  <2>3. summarised = UNION {SamplesAt(s, tier, b) : b \in rows}
    BY <2>1, <2>2
  <2> QED BY <2>3 DEF rows, summarised, tier
<1>3. CASE tier # "raw"
  <2>1. summarised = UNION {SamplesAt(s, tier, b) : b \in rows}
    BY <1>1, <1>3 DEF query_rollup_processes
  <2> QED BY <2>1 DEF rows, summarised, tier
<1> QED BY <1>2, <1>3

\* The charts show the samples of the rows of the tier they chose, in few enough points.
LEMMA ChartsAre ==
    ASSUME NEW chosenIn, NEW s \in AlignedTables, now \in Int, NEW range \in ReportRange
    PROVE  LET tier == select_process_tier(chosenIn, range)
               points == query_process_series(chosenIn, s, range)
           IN  /\ Shown(points)
                    = UNION {SamplesAt(s, tier, b) : b \in RowsInRange(s, tier, range)}
               /\ Cardinality(DOMAIN points) <= MaxProcessPoints
<1> DEFINE tier == select_process_tier(chosenIn, range)
           span == process_chart_bucket_span(range)
           points == query_process_series(chosenIn, s, range)
<1>1. points = Points(s, tier, range, span)
  BY DEF query_process_series
<1>2. tier \in Tier
  BY SelectedProcessTier
<1>3. /\ span \in Nat \ {0} /\ Duration(range) <= MaxProcessPoints * span
      /\ range.from \in Int /\ range.to \in Int /\ RowTimes(s, tier) \subseteq Int
      /\ MaxProcessPoints \in Nat
  BY <1>2, ChartSpans, ReportTypes, TierRows, ReportsAssumption
<1> HIDE DEF span, tier, points
<1>4. Shown(points) = UNION {SamplesAt(s, tier, b) : b \in RowsInRange(s, tier, range)}
  BY <1>1, ShownIs
<1>5. Cardinality(DOMAIN points) <= MaxProcessPoints
  BY <1>1, <1>3, FewPoints
<1> QED BY <1>4, <1>5 DEF tier, points

\* A process report that is read across a step.
LEMMA ProcessReportStep ==
    ASSUME MaxDelay <= Grace, ReaderInv, [Next]_vars, now' = now, NEW range \in ReportRange
    PROVE  ProcessReportIsComplete(range)
<1> DEFINE s == processes
           r == processes'
           after == Snapshots'
           tier == select_process_tier(s, range)
           charted == select_process_tier(r, range)
           summarised == query_processes(s, s, range)
           aggregated == query_processes(s, r, range)
           late == query_process_series(s, r, range)
           points == query_process_series(r, r, range)
<1>1. /\ tier \in Tier /\ charted \in Tier
      /\ (\E k \in Tier : ReachesBack(s, k, range)) => ReachesBack(s, tier, range)
  BY SelectedProcessTier
<1>2. /\ ReaderInv' /\ Snapshots \subseteq after
      /\ s.minuteMark <= r.minuteMark /\ s.quarterMark <= r.quarterMark
  BY ReaderStep
<1>3. /\ s \in AlignedTables /\ Snapshots \in SUBSET Times /\ now \in Int
      /\ TierInv(s, Snapshots, ProcessKeep, now) /\ CoverageInv(s, Snapshots, ProcessKeep, now)
  BY InvTypes DEF ReaderInv, IInv
<1>4. /\ r \in AlignedTables /\ after \in SUBSET Times
      /\ TierInv(r, after, ProcessKeep, now) /\ CoverageInv(r, after, ProcessKeep, now)
  <2>1. IInv' /\ CoverageInv(processes, Snapshots, ProcessKeep, now)'
    BY <1>2 DEF ReaderInv
  <2>2. TypeOK' /\ processes' \in AlignedTables'
        /\ TierInv(processes, Snapshots, ProcessKeep, now)'
    BY <2>1 DEF IInv, TypeInv
  <2>3. AlignedTables' = AlignedTables /\ Times' = Times /\ Snapshots' \subseteq Times
    BY <2>2 DEF TypeOK, AlignedTables, Tables, Times, Snapshots
  <2> QED BY <2>1, <2>2, <2>3 DEF TierInv, CoverageInv, CompleteRows, Rows
<1>5. summarised = UNION {SamplesAt(s, tier, b) : b \in RowsInRange(s, tier, range)}
  BY SummariesAre
<1>6. aggregated = UNION {SamplesAt(r, tier, b) : b \in RowsInRange(r, tier, range)}
  BY SummariesAre
<1>7. /\ Shown(late) = UNION {SamplesAt(r, tier, b) : b \in RowsInRange(r, tier, range)}
      /\ Cardinality(DOMAIN late) <= MaxProcessPoints
  BY <1>3, <1>4, ChartsAre
<1>8. /\ Shown(points) = UNION {SamplesAt(r, charted, b) : b \in RowsInRange(r, charted, range)}
      /\ Cardinality(DOMAIN points) <= MaxProcessPoints
  BY <1>3, <1>4, ChartsAre
<1> HIDE DEF tier, charted, r, after, late, points, summarised, aggregated
<1>9. ASSUME NEW k \in Tier, ReachesBack(s, k, range),
             NEW t \in SamplesInRange(Snapshots, tier, range)
      PROVE  t \in summarised \/ NotYetRolledUp(s, tier, t)
  <2> DEFINE f == RowOf(tier, t)
  <2>1. t \in Snapshots /\ InRange(range, f)
    BY DEF SamplesInRange
  <2>2. PICK b \in RowTimes(s, tier) : b <= range.from
    BY <1>1, <1>9 DEF ReachesBack
  <2>3. b \in Int /\ range.from \in Int /\ f \in Int
    <3>1. f \in Int
      BY <1>1, <1>3, <2>1, TierRows, TimeType, FloorBucket DEF RowOf
    <3> QED BY <1>1, <1>3, <2>2, <3>1, TierRows, ReportTypes
  <2>4. b <= f
    BY <2>1, <2>2, <2>3 DEF InRange
  <2>5. NotYetRolledUp(s, tier, t)
        \/ (f \in RowTimes(s, tier) /\ t \in SamplesAt(s, tier, f))
    BY <1>1, <1>3, <2>1, <2>4, SampleInTier
  <2> QED BY <1>5, <2>1, <2>5 DEF RowsInRange
<1>10. ASSUME NEW t \in summarised
       PROVE  /\ t \in Snapshots /\ t \in after /\ InRange(range, RowOf(tier, t))
              /\ ~ NotYetRolledUp(r, tier, t)
  <2>1. PICK b \in RowsInRange(s, tier, range) : t \in SamplesAt(s, tier, b)
    BY <1>5
  <2>2. b \in RowTimes(s, tier) /\ InRange(range, b)
    BY DEF RowsInRange
  <2>3. t \in Snapshots /\ RowOf(tier, t) = b /\ ~ NotYetRolledUp(s, tier, t)
    BY <1>1, <1>3, <2>1, <2>2, RowHasSamples
  <2>4. ~ NotYetRolledUp(r, tier, t)
    <3>1. /\ s.minuteMark \in Int /\ s.quarterMark \in Int /\ r.minuteMark \in Int
          /\ r.quarterMark \in Int /\ t \in Nat
      BY <1>3, <1>4, <2>3, AlignedTypes, TimeType
    <3> QED BY <1>2, <2>3, <3>1 DEF NotYetRolledUp, NoMark
  <2> QED BY <1>2, <2>2, <2>3, <2>4
<1>11. ASSUME NEW k \in Tier, NEW t \in after, InRange(range, RowOf(k, t)),
              ~ NotYetRolledUp(r, k, t), ~ Expired(ProcessKeep, k, t)
       PROVE  t \in UNION {SamplesAt(r, k, b) : b \in RowsInRange(r, k, range)}
  <2>1. RowOf(k, t) \in RowTimes(r, k) /\ t \in SamplesAt(r, k, RowOf(k, t))
    BY <1>3, <1>4, <1>11, SampleInTier DEF Expired
  <2> QED BY <1>11, <2>1 DEF RowsInRange
<1>12. ASSUME NEW t \in summarised
       PROVE  (t \in aggregated /\ t \in Shown(late)) \/ Expired(ProcessKeep, tier, t)
  BY <1>1, <1>6, <1>7, <1>10, <1>11
<1>13. ASSUME NEW t \in SamplesInRange(summarised, charted, range)
       PROVE  \/ t \in Shown(points)
              \/ Expired(ProcessKeep, charted, t)
              \/ charted # tier /\ NotYetRolledUp(r, charted, t)
  <2>1. t \in summarised /\ InRange(range, RowOf(charted, t))
    BY DEF SamplesInRange
  <2>2. t \in after /\ ~ NotYetRolledUp(r, tier, t)
    BY <1>10, <2>1
  <2>3. NotYetRolledUp(r, charted, t) \/ Expired(ProcessKeep, charted, t) \/ t \in Shown(points)
    BY <1>1, <1>8, <1>11, <2>1, <2>2
  <2> QED BY <2>2, <2>3
<1>14. /\ (\E k \in Tier : ReachesBack(s, k, range)) =>
             \A t \in SamplesInRange(Snapshots, tier, range) :
                 t \in summarised \/ NotYetRolledUp(s, tier, t)
       /\ \A t \in summarised :
             (t \in aggregated /\ t \in Shown(late)) \/ Expired(ProcessKeep, tier, t)
       /\ \A t \in SamplesInRange(summarised, charted, range) :
             \/ t \in Shown(points)
             \/ Expired(ProcessKeep, charted, t)
             \/ charted # tier /\ NotYetRolledUp(r, charted, t)
       /\ Cardinality(DOMAIN late) <= MaxProcessPoints
       /\ Cardinality(DOMAIN points) <= MaxProcessPoints
  BY <1>7, <1>8, <1>9, <1>12, <1>13
<1> QED BY <1>14 DEF ProcessReportIsComplete, tier, charted, r, late, points, summarised,
                     aggregated

\* domain-models.md: process tiers are selected from retained coverage.  If a tier reaches back
\* to the beginning of the range, so does the tier the code selects, and the summaries miss no
\* sample of the range but what is too recent for it.  The charts select a tier again: a commit
\* after that takes from them what it expires and nothing else, and a commit before it may
\* leave them with another tier, which lacks only what has expired and what is too recent for
\* it.  The condition is that no batch waits longer than the grace.
THEOREM ProcessReports ==
    ASSUME MaxDelay <= Grace
    PROVE  Spec => ProcessReportsAreComplete
<1>1. Init => ReaderInv
  BY InitReader
<1>2. ReaderInv /\ [Next]_vars => ReaderInv'
  BY ReaderStep
<1>3. ReaderInv /\ [Next]_vars
         => [\A range \in ReportRange : ProcessReportIsComplete(range)]_tables
  <2> SUFFICES ASSUME ReaderInv, [Next]_vars, ~ UNCHANGED tables,
                      NEW range \in ReportRange
               PROVE  ProcessReportIsComplete(range)
    OBVIOUS
  <2>1. now' = now
    BY ReaderStep
  <2> QED BY <2>1, ProcessReportStep
<1> QED BY <1>1, <1>2, <1>3, PTL DEF Spec, ProcessReportsAreComplete
=============================================================================
