---------------------------- MODULE ReplayProofs ----------------------------
(***************************************************************************)
(* What holds of the analysis stack bar by bar, for every history, every   *)
(* move of the market and every number of bars.                            *)
(*   frames      a frame is a sequence of candles in the order of time;    *)
(*               resampling, dropping the candles still forming and        *)
(*               slicing all keep it one (Good).                           *)
(*   values      what the detectors, the enrichment, the confluence and    *)
(*               the builder make of a good frame: each has its type, a    *)
(*               low that is not above its high, a price above zero.       *)
(*   StackInv    the inductive invariant of both callers: the series is    *)
(*               good, the cache holds snapshots, the picture is           *)
(*               analyze's, setup and verdict are made of it.              *)
(*   LiveInv     for the runner: every entry of the cache is the snapshot  *)
(*               of the frame it would be made of now (Current), so that   *)
(*               the picture is the one analyze gives without a cache.     *)
(*   Extends     a window that still starts where it did has only grown    *)
(*               by its new bar: what the action properties rest on.       *)
(***************************************************************************)
EXTENDS Replay, TablesProofs

-----------------------------------------------------------------------------
(* Frames *)

Good(f) == f \in Seq(Candles) /\ InOrder(f)

LEMMA FrameFacts ==
  ASSUME NEW f, Good(f)
  PROVE  /\ Len(f) \in Nat /\ DOMAIN f = 1..Len(f)
         /\ \A i \in 1..Len(f) : /\ f[i] \in Candles
                                 /\ f[i].t \in Nat /\ f[i].o \in Nat /\ f[i].h \in Nat
                                 /\ f[i].l \in Nat \ {0} /\ f[i].c \in Nat
                                 /\ f[i].l <= f[i].o /\ f[i].o <= f[i].h
                                 /\ f[i].l <= f[i].c /\ f[i].c <= f[i].h
         /\ \A i, j \in 1..Len(f) : i < j => f[i].t < f[j].t
<1>1. f \in Seq(Candles)
  BY DEF Good
<1>2. Len(f) \in Nat /\ DOMAIN f = 1..Len(f) /\ \A i \in 1..Len(f) : f[i] \in Candles
  BY <1>1, LenProperties, ElementOfSeq
<1>3. \A i, j \in 1..Len(f) : i < j => f[i].t < f[j].t
  BY <1>2 DEF Good, InOrder
<1>4. \A b \in Candles : /\ b.t \in Nat /\ b.o \in Nat /\ b.h \in Nat
                         /\ b.l \in Nat \ {0} /\ b.c \in Nat
                         /\ b.l <= b.o /\ b.o <= b.h /\ b.l <= b.c /\ b.c <= b.h
  BY DEF Candles
<1> QED
  BY <1>2, <1>3, <1>4

LEMMA KeptGood ==
  ASSUME NEW f, Good(f), NEW S
  PROVE  Good(Kept(f, S))
<1>1. f \in Seq(Candles)
  BY DEF Good
<1> DEFINE K == Kept(f, S)
<1>2. K \in Seq(Candles) /\ Len(K) \in Nat /\ \E at : Places(at, K, f, S)
  BY <1>1, KeptPositions
<1> HIDE DEF K
<1>3. PICK at : Places(at, K, f, S)
  BY <1>2
<1>4. ASSUME NEW j \in 1..Len(K), NEW k \in 1..Len(K), j < k
      PROVE  K[j].t < K[k].t
  <2>1. at[j] \in 1..Len(f) /\ at[k] \in 1..Len(f) /\ at[j] < at[k]
    BY <1>3, <1>4 DEF Places
  <2>2. K[j] = f[at[j]] /\ K[k] = f[at[k]]
    BY <1>3 DEF Places
  <2> QED
    BY <2>1, <2>2, FrameFacts
<1>5. InOrder(K)
  BY <1>2, <1>4, LenProperties DEF InOrder
<1> QED
  BY <1>2, <1>5 DEF Good, K

LEMMA SubSeqGood ==
  ASSUME NEW f, Good(f), NEW m \in 1..Len(f) + 1, NEW n \in 0..Len(f)
  PROVE  Good(SubSeq(f, m, n))
<1>1. f \in Seq(Candles) /\ Len(f) \in Nat
  BY LenProperties DEF Good
<1> DEFINE s == SubSeq(f, m, n)
<1>2. /\ s \in Seq(Candles) /\ Len(s) = (IF m <= n THEN n - m + 1 ELSE 0)
      /\ \A i \in 1..Len(s) : s[i] = f[m + i - 1]
  BY <1>1, SubSeqProperties
<1> HIDE DEF s
<1>3. Len(s) \in Nat /\ \A i \in 1..Len(s) : m + i - 1 \in 1..Len(f)
  BY <1>1, <1>2
<1>4. InOrder(s)
  <2> SUFFICES ASSUME NEW i \in 1..Len(s), NEW j \in 1..Len(s), i < j
               PROVE  s[i].t < s[j].t
    BY <1>2, LenProperties DEF InOrder
  <2>1. m + i - 1 < m + j - 1
    BY <1>1, <1>3
  <2> QED
    BY <1>2, <1>3, <2>1, FrameFacts
<1> QED
  BY <1>2, <1>4 DEF Good, s

-----------------------------------------------------------------------------
(* Resampling, closed bars, slices *)

TimeFrames == {"M15", "H4", "D1"}

LEMMA Spans ==
  /\ \A tf \in DOMAIN Span : Span[tf] \in Nat \ {0} /\ Lookback[tf] \in Nat \ {0}
  /\ TimeFrames \subseteq DOMAIN Span /\ Span["M15"] = 1
  BY SpanAssumption DEF TimeFrames

LEMMA Times ==
  ASSUME NEW a \in Int, NEW b \in Int, a < b, NEW n \in Nat
  PROVE  a * n + n <= b * n
<1>1. (b - a - 1) * n >= 0
  <2>1. b - a - 1 \in Nat
    OBVIOUS
  <2> QED
    BY <2>1
<1>2. (b - a - 1) * n = b * n - a * n - n
  OBVIOUS
<1> QED
  BY <1>1, <1>2

LEMMA Divides ==
  ASSUME NEW t \in Nat, NEW n \in Nat \ {0}
  PROVE  t \div n \in Nat /\ (t \div n) * n <= t /\ t < (t \div n) * n + n
<1>1. t \div n \in Nat
  OBVIOUS
<1>2. t = n * (t \div n) + (t % n) /\ t % n \in 0..n - 1
  OBVIOUS
<1>3. n * (t \div n) = (t \div n) * n
  BY <1>1
<1> QED
  BY <1>1, <1>2, <1>3

LEMMA Stamps ==
  ASSUME NEW tf \in DOMAIN Span, NEW t \in Nat, NEW u \in Nat, t <= u
  PROVE  /\ Stamp(t, tf) \in Nat /\ Stamp(t, tf) <= t /\ t < Stamp(t, tf) + Span[tf]
         /\ Stamp(t, tf) <= Stamp(u, tf)
         /\ Stamp(t, tf) # Stamp(u, tf) => Stamp(t, tf) + Span[tf] <= Stamp(u, tf)
<1> DEFINE n == Span[tf]
           a == t \div n
           b == u \div n
<1>1. n \in Nat \ {0}
  BY Spans
<1>2. /\ a \in Nat /\ a * n <= t /\ t < a * n + n
      /\ b \in Nat /\ b * n <= u /\ u < b * n + n
  <2> HIDE DEF n
  <2> QED
    BY <1>1, Divides
<1>3. Stamp(t, tf) = a * n /\ Stamp(u, tf) = b * n
  BY DEF Stamp
<1> HIDE DEF n, a, b
<1>4. a * n \in Nat /\ b * n \in Nat
  BY <1>1, <1>2
<1>5. ~(b < a)
  <2>1. b < a => b * n + n <= a * n
    BY <1>1, <1>2, Times
  <2> QED
    BY <1>1, <1>2, <1>4, <2>1
<1>6. a < b => a * n + n <= b * n
  BY <1>1, <1>2, Times
<1>7. a = b \/ a < b
  BY <1>2, <1>5
<1> QED
  BY <1>1, <1>2, <1>3, <1>4, <1>6, <1>7 DEF n

(* The positions that open a period.                                       *)
Rows(f) == [i \in DOMAIN f |-> i]

LEMMA OpeningsInOrder ==
  ASSUME NEW f, Good(f), NEW tf \in DOMAIN Span,
         NEW i \in Openings(f, tf), NEW j \in Openings(f, tf), i < j
  PROVE  Stamp(f[i].t, tf) + Span[tf] <= Stamp(f[j].t, tf)
<1>1. /\ Len(f) \in Nat /\ DOMAIN f = 1..Len(f)
      /\ \A k \in 1..Len(f) : f[k].t \in Nat
      /\ \A k, m \in 1..Len(f) : k < m => f[k].t < f[m].t
  BY FrameFacts
<1>2. /\ i \in 1..Len(f) /\ j \in 1..Len(f) /\ j - 1 \in 1..Len(f)
      /\ Stamp(f[j - 1].t, tf) # Stamp(f[j].t, tf)
  BY <1>1 DEF Openings
<1>3. f[i].t <= f[j - 1].t /\ f[j - 1].t <= f[j].t
  <2>1. /\ i \in Int /\ j \in Int /\ j - 1 < j
        /\ i < j - 1 \/ i = j - 1
    BY <1>1, <1>2
  <2>2. f[j - 1].t < f[j].t
    BY <1>1, <1>2, <2>1
  <2>3. f[i].t < f[j - 1].t \/ i = j - 1
    BY <1>1, <1>2, <2>1
  <2>4. f[i].t \in Nat /\ f[j - 1].t \in Nat /\ f[j].t \in Nat
    BY <1>1, <1>2
  <2> QED
    BY <2>2, <2>3, <2>4
<1> DEFINE a == f[i].t
           b == f[j - 1].t
           c == f[j].t
<1>4. a \in Nat /\ b \in Nat /\ c \in Nat /\ a <= b /\ b <= c
      /\ Stamp(b, tf) # Stamp(c, tf)
  BY <1>1, <1>2, <1>3
<1> HIDE DEF a, b, c
<1>5. /\ Stamp(a, tf) \in Nat /\ Stamp(a, tf) <= Stamp(b, tf)
  BY <1>4, Stamps
<1>6. /\ Stamp(b, tf) \in Nat /\ Stamp(b, tf) + Span[tf] <= Stamp(c, tf)
  BY <1>4, Stamps
<1>7. Stamp(c, tf) \in Nat
  BY <1>4, Stamps
<1>8. Span[tf] \in Nat
  BY Spans
<1> QED
  BY <1>5, <1>6, <1>7, <1>8 DEF a, b, c

LEMMA RowIsCandle ==
  ASSUME NEW f, Good(f), NEW tf \in DOMAIN Span, NEW i \in DOMAIN f
  PROVE  RowOf(f, tf, i) \in Candles /\ RowOf(f, tf, i).t = Stamp(f[i].t, tf)
<1> DEFINE rows == PeriodOf(f, tf, i)
           H == {f[j].h : j \in rows}
           L == {f[j].l : j \in rows}
           N == Len(f)
<1>1. /\ N \in Nat /\ DOMAIN f = 1..N
      /\ \A k \in 1..N : /\ f[k].t \in Nat /\ f[k].o \in Nat /\ f[k].h \in Nat
                         /\ f[k].l \in Nat \ {0} /\ f[k].c \in Nat
                         /\ f[k].l <= f[k].o /\ f[k].o <= f[k].h
                         /\ f[k].l <= f[k].c /\ f[k].c <= f[k].h
  BY FrameFacts
<1>2. rows \subseteq 1..N /\ i \in rows /\ IsFiniteSet(rows)
  <2>1. rows \subseteq 1..N /\ i \in rows
    BY <1>1 DEF PeriodOf
  <2>2. IsFiniteSet(1..N)
    <3> HIDE DEF N
    <3> QED
      BY <1>1, FS_Interval
  <2> QED
    BY <2>1, <2>2, FS_Subset
<1>3. IsFiniteSet(H) /\ IsFiniteSet(L)
  <2> DEFINE h == [j \in rows |-> f[j].h]
             l == [j \in rows |-> f[j].l]
  <2>1. IsFiniteSet({h[x] : x \in rows}) /\ IsFiniteSet({l[x] : x \in rows})
    <3>1. DOMAIN h = rows /\ DOMAIN l = rows /\ IsFiniteSet(rows)
      BY <1>2
    <3> HIDE DEF rows, h, l
    <3> QED
      BY <3>1, ImageFinite
  <2>2. {h[x] : x \in rows} = H /\ {l[x] : x \in rows} = L
    OBVIOUS
  <2> QED
    BY <2>1, <2>2
<1> HIDE DEF rows
<1> DEFINE m == Max(rows)
<1>4. m \in rows
  <2>1. rows \subseteq Int /\ rows # {}
    BY <1>1, <1>2
  <2> QED
    BY <1>2, <2>1, MaxIs
<1>5. f[i].h \in H /\ f[i].l \in L /\ f[m].h \in H /\ f[m].l \in L
      /\ H \subseteq Nat /\ L \subseteq Nat \ {0}
  BY <1>1, <1>2, <1>4
<1> HIDE DEF H, L, m
<1>6. Max(H) \in H /\ \A y \in H : y <= Max(H)
  <2>1. H \subseteq Int /\ H # {}
    BY <1>5
  <2> QED
    BY <1>3, <2>1, MaxIs
<1>7. Min(L) \in L /\ \A y \in L : Min(L) <= y
  <2>1. L \subseteq Int /\ L # {}
    BY <1>5
  <2> QED
    BY <1>3, <2>1, MinIs
<1>8. Stamp(f[i].t, tf) \in Nat
  <2>1. f[i].t \in Nat
    BY <1>1
  <2> QED
    BY <2>1, Stamps
<1> DEFINE mx == Max(H)
           mn == Min(L)
<1>9. /\ mx \in Nat /\ mn \in Nat \ {0}
      /\ f[i].h <= mx /\ f[m].h <= mx /\ mn <= f[i].l /\ mn <= f[m].l
  BY <1>5, <1>6, <1>7
<1> HIDE DEF mx, mn
<1>10. /\ i \in 1..N /\ m \in 1..N
  BY <1>2, <1>4, <1>1
<1> HIDE DEF N
<1>11. /\ f[i].o \in Nat /\ f[m].c \in Nat /\ mn <= f[i].o /\ f[i].o <= mx
       /\ mn <= f[m].c /\ f[m].c <= mx
  <2>1. /\ f[i].o \in Nat /\ f[i].h \in Nat /\ f[i].l \in Nat
        /\ f[i].l <= f[i].o /\ f[i].o <= f[i].h
    BY <1>1, <1>10
  <2>2. /\ f[m].c \in Nat /\ f[m].h \in Nat /\ f[m].l \in Nat
        /\ f[m].l <= f[m].c /\ f[m].c <= f[m].h
    BY <1>1, <1>10
  <2> QED
    BY <1>9, <2>1, <2>2
<1>12. RowOf(f, tf, i) = [t |-> Stamp(f[i].t, tf), o |-> f[i].o, h |-> mx, l |-> mn,
                          c |-> f[m].c]
  BY DEF RowOf, Bar, mx, mn, m, H, L, rows
<1> QED
  BY <1>8, <1>9, <1>11, <1>12 DEF Candles

LEMMA ResampleGood ==
  ASSUME NEW f, Good(f), NEW tf \in DOMAIN Span
  PROVE  Good(Resample(f, tf))
<1> DEFINE S == Openings(f, tf)
           ids == Rows(f)
           firsts == Kept(ids, S)
           R == Resample(f, tf)
<1>1. Len(f) \in Nat /\ DOMAIN f = 1..Len(f)
  BY FrameFacts
<1>2. ids \in Seq(1..Len(f)) /\ Len(ids) = Len(f) /\ \A i \in 1..Len(f) : ids[i] = i
  <2>1. ids = [i \in 1..Len(f) |-> i]
    BY <1>1 DEF Rows
  <2>2. ids \in [1..Len(f) -> 1..Len(f)]
    BY <2>1
  <2>3. ids \in Seq(1..Len(f))
    BY <1>1, <2>2, SeqDef
  <2>4. DOMAIN ids = 1..Len(f) /\ DOMAIN ids = 1..Len(ids) /\ Len(ids) \in Nat
    BY <2>1, <2>3, LenProperties
  <2>5. Len(ids) = Len(f)
    BY <1>1, <2>4
  <2> QED
    BY <2>1, <2>3, <2>5
<1> HIDE DEF ids
<1>3. /\ firsts \in Seq(1..Len(f)) /\ Len(firsts) \in Nat
      /\ \E at : Places(at, firsts, ids, S)
  BY <1>2, KeptPositions
<1>4. R = [k \in 1..Len(firsts) |-> RowOf(f, tf, firsts[k])]
  <2>1. DOMAIN firsts = 1..Len(firsts)
    BY <1>3, LenProperties
  <2> QED
    BY <2>1 DEF Resample, Rows, ids
<1> HIDE DEF firsts, S, R
<1>5. PICK at : Places(at, firsts, ids, S)
  BY <1>3
<1>6. \A k \in 1..Len(firsts) : firsts[k] = at[k] /\ at[k] \in S /\ at[k] \in 1..Len(f)
  BY <1>2, <1>5 DEF Places
<1>7. \A k \in 1..Len(firsts) : R[k] \in Candles /\ R[k].t = Stamp(f[firsts[k]].t, tf)
  BY <1>1, <1>4, <1>6, RowIsCandle
<1>8. R \in Seq(Candles) /\ Len(R) = Len(firsts) /\ DOMAIN R = 1..Len(firsts)
  <2>1. R \in [1..Len(firsts) -> Candles]
    BY <1>4, <1>7
  <2>2. R \in Seq(Candles)
    BY <1>3, <2>1, SeqDef
  <2>3. DOMAIN R = 1..Len(firsts) /\ DOMAIN R = 1..Len(R) /\ Len(R) \in Nat
    BY <1>4, <2>2, LenProperties
  <2> QED
    BY <1>3, <2>2, <2>3
<1>9. ASSUME NEW j \in 1..Len(firsts), NEW k \in 1..Len(firsts), j < k
      PROVE  R[j].t < R[k].t
  <2>1. at[j] < at[k]
    BY <1>5, <1>9 DEF Places
  <2> DEFINE a == at[j]
             b == at[k]
  <2>2. a \in Openings(f, tf) /\ b \in Openings(f, tf) /\ a < b
    BY <1>6, <2>1 DEF S
  <2>3. R[j].t = Stamp(f[a].t, tf) /\ R[k].t = Stamp(f[b].t, tf)
    BY <1>6, <1>7
  <2>4. R[j].t \in Nat /\ R[k].t \in Nat
    BY <1>7 DEF Candles
  <2> HIDE DEF a, b
  <2>5. Stamp(f[a].t, tf) + Span[tf] <= Stamp(f[b].t, tf)
    BY <2>2, OpeningsInOrder
  <2>6. Span[tf] \in Nat \ {0}
    BY Spans
  <2> QED
    BY <2>3, <2>4, <2>5, <2>6
<1>10. InOrder(R)
  BY <1>8, <1>9 DEF InOrder
<1> QED
  BY <1>8, <1>10 DEF Good, R

LEMMA SliceGood ==
  ASSUME NEW f, Good(f), NEW tf \in DOMAIN Span, NEW at
  PROVE  Good(SliceToAtBar(f, tf, at))
<1> DEFINE known == Kept(f, {i \in DOMAIN f : f[i].t <= at})
           n == Len(known)
           lb == Lookback[tf]
<1>1. Good(known)
  BY KeptGood
<1>2. n \in Nat /\ lb \in Nat \ {0}
  BY <1>1, FrameFacts, Spans
<1>3. SliceToAtBar(f, tf, at) = IF n > lb THEN SubSeq(known, n - lb + 1, n) ELSE known
  BY DEF SliceToAtBar
<1> HIDE DEF known, lb
<1>4. CASE n > lb
  <2>1. n - lb + 1 \in 1..Len(known) + 1 /\ n \in 0..Len(known)
    BY <1>2, <1>4
  <2>2. Good(SubSeq(known, n - lb + 1, n))
    <3> HIDE DEF n
    <3> QED
      BY <1>1, <2>1, SubSeqGood
  <2> QED
    BY <1>3, <1>4, <2>2
<1> QED
  BY <1>1, <1>3, <1>4

LEMMA FramesGood ==
  ASSUME NEW s, Good(s)
  PROVE  /\ DOMAIN Frames(s) = TimeFrames
         /\ \A tf \in TimeFrames : Good(Frames(s)[tf])
<1> DEFINE whole(tf) == IF tf = "M15" THEN s ELSE HtfFrame(s, tf)
           at == LastT(Replayed(s))
<1>1. Frames(s) = [tf \in TimeFrames |-> SliceToAtBar(whole(tf), tf, at)]
  BY DEF Frames, TimeFrames
<1>2. ASSUME NEW tf \in TimeFrames
      PROVE  Good(whole(tf))
  <2>1. tf \in DOMAIN Span
    BY Spans
  <2>2. Good(Resample(s, tf)) /\ Good(ClosedBars(Resample(s, tf), tf, LastT(s) + 1))
    BY <2>1, ResampleGood, KeptGood DEF ClosedBars
  <2> QED
    BY <2>2 DEF HtfFrame
<1>3. \A tf \in TimeFrames : tf \in DOMAIN Span
  BY Spans
<1> HIDE DEF whole, at
<1> QED
  BY <1>1, <1>2, <1>3, SliceGood

-----------------------------------------------------------------------------
(* The series, and the swings of its frames *)

SeriesInv == Good(series) /\ Len(series) > Ahead

NextSeries(s, m) == Append(s, NextBar(s, m))

LEMMA NextGood ==
  ASSUME NEW s, Good(s), Len(s) > 0, NEW m \in Moves, LastLow(NextSeries(s, m)) > 0
  PROVE  /\ Good(NextSeries(s, m)) /\ Len(NextSeries(s, m)) = Len(s) + 1
         /\ NextBar(s, m) \in Candles /\ NextBar(s, m).t = LastT(s) + 1
<1> DEFINE n == Len(s)
           o == Price(s)
           c == o + m.d
           b == NextBar(s, m)
           next == NextSeries(s, m)
           hi == Max({o, c}) + m.u
           lo == Min({o, c}) - m.w
<1>1. n \in Nat \ {0} /\ LastT(s) \in Nat /\ o \in Nat
  BY FrameFacts DEF LastT, Price
<1>2. m.d \in Int /\ m.u \in Nat /\ m.w \in Nat /\ c \in Int
  BY <1>1, ReplayAssumption
<1>3. /\ Max({o, c}) = (IF o >= c THEN o ELSE c)
      /\ Min({o, c}) = (IF o <= c THEN o ELSE c)
  BY <1>1, <1>2, MaxOfTwo, MinOfTwo
<1>4. b = [t |-> LastT(s) + 1, o |-> o, h |-> hi, l |-> lo, c |-> c]
  BY DEF NextBar, Bar
<1> HIDE DEF o, c, b
<1>5. hi \in Int /\ lo \in Int /\ o <= hi /\ c <= hi /\ lo <= o /\ lo <= c
  BY <1>1, <1>2, <1>3
<1>6. s \in Seq(Candles)
  BY DEF Good
<1>7. next[n + 1] = b /\ Len(next) = n + 1 /\ \A i \in 1..n : next[i] = s[i]
  BY <1>6, AppendProperties DEF NextSeries, b
<1>8. lo > 0
  <2>1. LastLow(next) = lo
    <3>1. LastLow(next) = next[n + 1].l /\ next[n + 1] = b
      <4> HIDE DEF next
      <4> QED
        BY <1>7 DEF LastLow
    <3> HIDE DEF next, hi, lo
    <3> QED
      BY <1>4, <3>1
  <2> QED
    BY <2>1
<1> HIDE DEF hi, lo, next
<1>9. b \in Candles /\ b.t = LastT(s) + 1
  <2>1. LastT(s) + 1 \in Nat /\ o \in Nat /\ hi \in Nat /\ lo \in Nat \ {0} /\ c \in Nat
    BY <1>1, <1>2, <1>5, <1>8
  <2> QED
    BY <1>4, <1>5, <2>1 DEF Candles
<1>10. next \in Seq(Candles)
  BY <1>6, <1>9, AppendProperties DEF next, NextSeries, b
<1>11. InOrder(next)
  <2> SUFFICES ASSUME NEW i \in 1..n + 1, NEW j \in 1..n + 1, i < j
               PROVE  next[i].t < next[j].t
    BY <1>7, <1>10, LenProperties DEF InOrder
  <2>1. i \in 1..n
    BY <1>1
  <2>2. s[i].t \in Nat /\ s[i].t <= LastT(s)
    <3>1. i < n \/ i = n
      BY <1>1, <2>1
    <3>2. n \in 1..n
      BY <1>1
    <3>3. s[i].t \in Nat /\ s[n].t \in Nat /\ (i < n => s[i].t < s[n].t)
      BY <2>1, <3>2, FrameFacts
    <3> QED
      BY <3>1, <3>3 DEF LastT
  <2>3. CASE j \in 1..n
    BY <1>7, <2>1, <2>3, FrameFacts
  <2>4. CASE j = n + 1
    BY <1>1, <1>7, <1>9, <2>1, <2>2, <2>4
  <2> QED
    BY <1>1, <2>3, <2>4
<1> QED
  BY <1>7, <1>9, <1>10, <1>11 DEF Good, next, b

LEMMA SeriesAlwaysGood == Spec => []SeriesInv
<1>1. Init => SeriesInv
  BY ReplayAssumption DEF Init, SeriesInv, Good
<1>2. SeriesInv /\ [Next]_vars => SeriesInv'
  <2> SUFFICES ASSUME SeriesInv, [Next]_vars
               PROVE  SeriesInv'
    OBVIOUS
  <2>1. CASE Next
    <3>1. PICK m \in Moves : series' = NextSeries(series, m) /\ LastLow(NextSeries(series, m)) > 0
      BY <2>1 DEF Next, NextM15, NextSeries
    <3>2. Good(series) /\ Len(series) > Ahead /\ Ahead \in Nat /\ Len(series) \in Nat
      BY FrameFacts, ReplayAssumption DEF SeriesInv
    <3>3. Good(series') /\ Len(series') = Len(series) + 1
      <4>1. Len(series) > 0
        BY <3>2
      <4> QED
        BY <3>1, <3>2, <4>1, NextGood
    <3> QED
      BY <3>2, <3>3 DEF SeriesInv
  <2>2. CASE UNCHANGED vars
    BY <2>2 DEF vars, SeriesInv
  <2> QED
    BY <2>1, <2>2
<1> QED
  BY <1>1, <1>2, PTL DEF Spec

(* A swing stands above (below) every bar that could sweep it before it is *)
(* confirmed.                                                              *)
LEMMA SwingsStandOut ==
  ASSUME NEW f, Good(f)
  PROVE  /\ \A s \in SwingHighs(f), i \in DOMAIN f :
               s < i /\ i <= s + SwingLookback => f[i].h < f[s].h
         /\ \A s \in SwingLows(f), i \in DOMAIN f :
               s < i /\ i <= s + SwingLookback => f[s].l < f[i].l
<1>1. /\ Len(f) \in Nat /\ DOMAIN f = 1..Len(f) /\ SwingLookback \in Nat \ {0}
      /\ \A i \in 1..Len(f) : f[i].h \in Nat /\ f[i].l \in Nat
  BY FrameFacts, DetectorAssumption
<1>2. ASSUME NEW s \in Candidates(f), NEW i \in DOMAIN f, s < i, i <= s + SwingLookback
      PROVE  i - s \in 1..SwingLookback /\ s + (i - s) = i /\ s \in 1..Len(f)
  BY <1>1, <1>2 DEF Candidates
<1>3. ASSUME NEW s \in SwingHighs(f), NEW i \in DOMAIN f, s < i, i <= s + SwingLookback
      PROVE  f[i].h < f[s].h
  <2>1. s \in Candidates(f) /\ \A k \in 1..SwingLookback : f[s].h > f[s + k].h
    BY DEF SwingHighs
  <2>2. f[s].h > f[i].h
    BY <1>2, <1>3, <2>1
  <2> QED
    BY <1>1, <1>2, <1>3, <2>1, <2>2
<1>4. ASSUME NEW s \in SwingLows(f), NEW i \in DOMAIN f, s < i, i <= s + SwingLookback
      PROVE  f[s].l < f[i].l
  <2>1. s \in Candidates(f) /\ \A k \in 1..SwingLookback : f[s].l < f[s + k].l
    BY DEF SwingLows
  <2> QED
    BY <1>2, <1>4, <2>1
<1> QED
  BY <1>3, <1>4

-----------------------------------------------------------------------------
(* Detectors: zones and imbalances *)

Sides  == {"LONG", "SHORT"}
Biases == {"BULLISH", "BEARISH", "NEUTRAL"}

(* What the detectors and the enrichment make.                             *)
ZoneOk(z) ==
    /\ z = [class |-> "ZONE", kind |-> z.kind, at |-> z.at, side |-> z.side,
            hi |-> z.hi, lo |-> z.lo, status |-> z.status, age |-> z.age]
    /\ z.at \in Nat /\ z.side \in Sides /\ z.lo \in Nat \ {0} /\ z.hi \in Nat /\ z.lo <= z.hi
    /\ z.status \in {"FRESH", "TESTED", "MITIGATED", "BROKEN"}

ImbalanceOk(m) ==
    /\ m = [class |-> "IMBALANCE", kind |-> m.kind, side |-> m.side, at |-> m.at,
            lo |-> m.lo, hi |-> m.hi, fill |-> m.fill]
    /\ m.at \in Nat /\ m.side \in Sides /\ m.lo \in Nat \ {0} /\ m.hi \in Nat /\ m.lo < m.hi
    /\ m.fill \in Int

LevelOk(v) ==
    /\ v.class = "LEVEL" /\ v.kind \in DOMAIN KindRank /\ v.side = "ANY" /\ v.at \in Nat
    /\ v.lo \in Nat \ {0} /\ v.hi = v.lo

RangeOk(r) ==
    \/ r = NoRange
    \/ r # NoRange /\ r.high \in Int /\ r.low \in Int /\ r.high > r.low

LEMMA DistanceIs ==
  \A x, y \in Int : /\ Distance(x, y) \in Nat /\ Distance(x, y) = Distance(y, x)
                    /\ (x >= y => Distance(x, y) = x - y)
                    /\ (x <= y => Distance(x, y) = y - x)
  BY DEF Distance

LEMMA TwoFinite ==
  \A a, b : IsFiniteSet({a}) /\ IsFiniteSet({a, b})
<1> TAKE a, b
<1>1. IsFiniteSet({a}) /\ IsFiniteSet({b})
  BY FS_Singleton
<1>2. IsFiniteSet({a} \cup {b})
  BY <1>1, FS_Union
<1>3. {a, b} = {a} \cup {b}
  OBVIOUS
<1> QED
  BY <1>1, <1>2, <1>3

LEMMA BarsFinite ==
  ASSUME NEW f, Good(f), NEW S, S \subseteq DOMAIN f
  PROVE  IsFiniteSet(S) /\ S \subseteq Nat
<1>1. Len(f) \in Nat /\ DOMAIN f = 1..Len(f)
  BY FrameFacts
<1>2. IsFiniteSet(1..Len(f))
  BY <1>1, FS_Interval
<1> QED
  BY <1>1, <1>2, FS_Subset

Values(g, S) == {g[j] : j \in S}

(* The largest and the smallest of finitely many bars' values.             *)
LEMMA MaxOfBars ==
  ASSUME NEW f, Good(f), NEW S, S \subseteq DOMAIN f, S # {},
         NEW g, DOMAIN g = S, \A i \in S : g[i] \in Int
  PROVE  /\ \E i \in S : Max(Values(g, S)) = g[i]
         /\ \E i \in S : Min(Values(g, S)) = g[i]
         /\ \A i \in S : Min(Values(g, S)) <= g[i] /\ g[i] <= Max(Values(g, S))
<1> DEFINE T == Values(g, S)
<1>1. IsFiniteSet(T)
  BY BarsFinite, ImageFinite DEF Values
<1>2. T # {} /\ T \subseteq Int
  BY DEF Values
<1>3. \A y \in T : \E i \in S : y = g[i]
  BY DEF Values
<1>4. \A i \in S : g[i] \in T
  BY DEF Values
<1> HIDE DEF T
<1>5. Max(T) \in T /\ (\A y \in T : y <= Max(T)) /\ Min(T) \in T /\ \A y \in T : Min(T) <= y
  BY <1>1, <1>2, MaxIs, MinIs
<1> QED
  BY <1>3, <1>4, <1>5 DEF T

LEMMA MaxPosition ==
  ASSUME NEW f, Good(f), NEW S, S \subseteq DOMAIN f, S # {}
  PROVE  Max(S) \in S /\ Min(S) \in S /\ \A i \in S : Min(S) <= i /\ i <= Max(S)
<1>1. IsFiniteSet(S) /\ S \subseteq Int
  BY BarsFinite
<1> QED
  BY <1>1, MaxIs, MinIs

-----------------------------------------------------------------------------
LEMMA ZonesOk ==
  ASSUME NEW f, Good(f)
  PROVE  IsFiniteSet(Zones(f)) /\ \A z \in Zones(f) : ZoneOk(z)
<1> DEFINE blocks == {i \in 1..Len(f) - 1 : OrderBlock(f, i)}
           small  == {i \in 2..Len(f) - 1 : i \notin blocks /\ Indecision(f, i)}
           all == blocks \cup small
           Kind(i) == IF Down(f[i]) THEN "DEMAND" ELSE "SUPPLY"
           zone == [i \in all |-> ZoneAt(Kind(i), f[i])]
<1>1. all \subseteq DOMAIN f /\ DOMAIN f = 1..Len(f)
  BY FrameFacts
<1>2. Zones(f) = {zone[i] : i \in all}
  BY DEF Zones
<1>3. \A i \in all : ZoneOk(zone[i])
  <2> SUFFICES ASSUME NEW i \in all PROVE ZoneOk(ZoneAt(Kind(i), f[i]))
    OBVIOUS
  <2> DEFINE b == f[i]
             kind == Kind(i)
  <2>1. /\ b.t \in Nat /\ b.o \in Nat /\ b.h \in Nat /\ b.l \in Nat \ {0} /\ b.c \in Nat
        /\ b.l <= b.o /\ b.o <= b.h /\ b.l <= b.c /\ b.c <= b.h
    BY <1>1, FrameFacts
  <2> HIDE DEF b, kind, all
  <2>2. /\ Max({b.o, b.c}) = (IF b.o >= b.c THEN b.o ELSE b.c)
        /\ Min({b.o, b.c}) = (IF b.o <= b.c THEN b.o ELSE b.c)
    BY <2>1, MaxOfTwo, MinOfTwo
  <2> DEFINE hi == IF ZoneAnchor = "WICK" THEN b.h ELSE Max({b.o, b.c})
             lo == IF ZoneAnchor = "WICK" THEN b.l ELSE Min({b.o, b.c})
             side == IF kind = "DEMAND" THEN "LONG" ELSE "SHORT"
  <2>3. hi \in Nat /\ lo \in Nat \ {0} /\ lo <= hi /\ side \in Sides
    BY <2>1, <2>2 DEF Sides
  <2>4. ZoneAt(kind, b) = [class |-> "ZONE", kind |-> kind, at |-> b.t, side |-> side,
                           hi |-> hi, lo |-> lo, status |-> "FRESH", age |-> 0]
    BY DEF ZoneAt
  <2> HIDE DEF hi, lo, side
  <2> QED
    BY <2>1, <2>3, <2>4 DEF ZoneOk, b, kind
<1>4. DOMAIN zone = all
  OBVIOUS
<1> HIDE DEF zone, all
<1>5. IsFiniteSet({zone[i] : i \in all})
  <2>1. IsFiniteSet(all)
    BY <1>1, BarsFinite
  <2> QED
    BY <1>4, <2>1, ImageFinite
<1> QED
  BY <1>2, <1>3, <1>5

ImbalanceGap(f, i, side, lo, hi) ==
    LET atr == Atr(f, DetectorAtr)
    IN IF lo < hi /\ 10 * (hi - lo) * atr.n > FvgMinGap * atr.sum
       THEN {[class |-> "IMBALANCE", kind |-> GapKind(hi - lo, atr),
              side |-> side, at |-> f[i + 1].t, lo |-> lo, hi |-> hi, fill |-> 0]}
       ELSE {}

LEMMA ImbalancesAre ==
  ASSUME NEW f
  PROVE  Imbalances(f) =
           UNION {ImbalanceGap(f, i, "LONG", f[i].h, f[i + 2].l)
                  \cup ImbalanceGap(f, i, "SHORT", f[i + 2].h, f[i].l) : i \in Triples(f)}
  BY DEF Imbalances, ImbalanceGap

LEMMA ImbalancesOk ==
  ASSUME NEW f, Good(f)
  PROVE  IsFiniteSet(Imbalances(f)) /\ \A m \in Imbalances(f) : ImbalanceOk(m)
<1> DEFINE pair == [i \in Triples(f) |->
                      ImbalanceGap(f, i, "LONG", f[i].h, f[i + 2].l)
                      \cup ImbalanceGap(f, i, "SHORT", f[i + 2].h, f[i].l)]
<1>1. Imbalances(f) = UNION {pair[i] : i \in Triples(f)}
  BY ImbalancesAre
<1>2. ASSUME NEW i \in Triples(f)
      PROVE  IsFiniteSet(pair[i]) /\ \A m \in pair[i] : ImbalanceOk(m)
  <2> DEFINE a == f[i]
             b == f[i + 2]
             t == f[i + 1].t
  <2>1. /\ a.h \in Nat /\ a.l \in Nat \ {0} /\ b.h \in Nat /\ b.l \in Nat \ {0} /\ t \in Nat
        /\ a.l <= a.h /\ b.l <= b.h
    <3>1. i \in 1..Len(f) /\ i + 1 \in 1..Len(f) /\ i + 2 \in 1..Len(f)
      BY FrameFacts DEF Triples
    <3>2. \A k \in 1..Len(f) : f[k].h \in Nat /\ f[k].l \in Nat \ {0} /\ f[k].t \in Nat
      BY FrameFacts
    <3>3. \A k \in 1..Len(f) : f[k].l <= f[k].h
      BY FrameFacts
    <3> QED
      BY <3>1, <3>2, <3>3
  <2> HIDE DEF a, b, t
  <2>2. ASSUME NEW side \in Sides, NEW lo \in Nat \ {0}, NEW hi \in Nat
        PROVE  /\ IsFiniteSet(ImbalanceGap(f, i, side, lo, hi))
               /\ \A m \in ImbalanceGap(f, i, side, lo, hi) : ImbalanceOk(m)
    <3> DEFINE m == [class |-> "IMBALANCE", kind |-> GapKind(hi - lo, Atr(f, DetectorAtr)),
                     side |-> side, at |-> t, lo |-> lo, hi |-> hi, fill |-> 0]
    <3>1. /\ ImbalanceGap(f, i, side, lo, hi) \in {{}, {m}}
          /\ ~(lo < hi) => ImbalanceGap(f, i, side, lo, hi) = {}
      BY DEF ImbalanceGap, t
    <3>2. lo < hi => ImbalanceOk(m)
      BY <2>1 DEF ImbalanceOk
    <3> HIDE DEF m
    <3>3. IsFiniteSet({}) /\ IsFiniteSet({m})
      BY FS_EmptySet, FS_Singleton
    <3> QED
      BY <3>1, <3>2, <3>3
  <2>3. a.h \in Nat \ {0} /\ b.h \in Nat \ {0} /\ "LONG" \in Sides /\ "SHORT" \in Sides
    BY <2>1 DEF Sides
  <2> DEFINE up == ImbalanceGap(f, i, "LONG", a.h, b.l)
             dn == ImbalanceGap(f, i, "SHORT", b.h, a.l)
  <2>4. IsFiniteSet(up) /\ \A m \in up : ImbalanceOk(m)
    BY <2>1, <2>2, <2>3
  <2>5. IsFiniteSet(dn) /\ \A m \in dn : ImbalanceOk(m)
    BY <2>1, <2>2, <2>3
  <2>6. pair[i] = up \cup dn
    BY DEF a, b
  <2> HIDE DEF up, dn, pair
  <2> QED
    BY <2>4, <2>5, <2>6, FS_Union
<1>3. Triples(f) \subseteq DOMAIN f /\ DOMAIN pair = Triples(f)
  BY FrameFacts DEF Triples
<1> HIDE DEF pair
<1>4. IsFiniteSet({pair[i] : i \in Triples(f)})
  BY <1>3, BarsFinite, ImageFinite
<1> QED
  BY <1>1, <1>2, <1>4, FS_UNION

-----------------------------------------------------------------------------
(* Detectors: raw levels *)

(* The raw levels.                                                         *)
RawOk(v) ==
    v.kind \in DOMAIN KindRank /\ v.price \in Nat \ {0} /\ v.from \in Nat

RawLevel(f, kind, price, i) == [kind |-> kind, price |-> price, from |-> f[i].t]

Fine(R) == IsFiniteSet(R) /\ \A v \in R : RawOk(v)

RawAt(f, kind, S, price, at) == {RawLevel(f, kind, price[i], at[i]) : i \in S}

RawPrevious(f, kind, S, v) ==
    {RawLevel(f, kind, v[Max({j \in S : j < i})], i) : i \in S \ {1}}

LEMMA RawOfBar ==
  ASSUME NEW f, Good(f), NEW kind \in DOMAIN KindRank, NEW S, S \subseteq DOMAIN f,
         NEW price, \A i \in S : price[i] \in Nat \ {0}, NEW at, \A i \in S : at[i] \in DOMAIN f
  PROVE  Fine(RawAt(f, kind, S, price, at))
<1> DEFINE g == [i \in S |-> RawLevel(f, kind, price[i], at[i])]
<1>1. DOMAIN g = S /\ {g[i] : i \in S} = {RawLevel(f, kind, price[i], at[i]) : i \in S}
  OBVIOUS
<1>2. IsFiniteSet(S)
  BY BarsFinite
<1>3. IsFiniteSet({g[i] : i \in S})
  <2> HIDE DEF g
  <2> QED
    BY <1>1, <1>2, ImageFinite
<1>4. \A i \in S : RawOk(RawLevel(f, kind, price[i], at[i]))
  <2> SUFFICES ASSUME NEW i \in S PROVE RawOk(RawLevel(f, kind, price[i], at[i]))
    OBVIOUS
  <2>1. f[at[i]].t \in Nat
    BY FrameFacts
  <2> QED
    BY <2>1 DEF RawLevel, RawOk
<1> QED
  BY <1>1, <1>3, <1>4 DEF Fine, RawAt

LEMMA RawLevelsOk ==
  ASSUME NEW f, Good(f)
  PROVE  IsFiniteSet(RawLevels(f)) /\ \A v \in RawLevels(f) : RawOk(v)
<1> DEFINE N == DOMAIN f
           Turns(Key(_)) == {i \in N : i = 1 \/ Key(f[i].t) # Key(f[i - 1].t)}
           Opens(kind, S) == {RawLevel(f, kind, f[i].o, i) : i \in S}
           Previous(kind, S) ==
             {RawLevel(f, kind, f[Max({j \in S : j < i})].o, i) : i \in S \ {1}}
           months  == Turns(MonthOf)
           weeks   == Turns(WeekOpen)
           days    == Turns(DayOf)
           mondays == {i \in N : Weekday(f[i].t) = 0}
           Group(i) == {j \in mondays : CalendarWeek(f[j].t) = CalendarWeek(f[i].t)}
           aths    == {i \in N : \A j \in 1..i - 1 : f[j].h < f[i].h}
           highs == {RawLevel(f, "MONDAY_H", Max({f[j].h : j \in Group(i)}), Min(Group(i))) :
                        i \in mondays}
           lows == {RawLevel(f, "MONDAY_L", Min({f[j].l : j \in Group(i)}), Min(Group(i))) :
                        i \in mondays}
           olds == {RawLevel(f, "OLD_ATH", f[i].h, i) : i \in aths}
           prevs == {RawLevel(f, "PREV_ATH", f[Max({j \in aths : j < i})].h, i) :
                        i \in aths \ {1}}
<1>1. RawLevels(f) = IF N = {} THEN {}
         ELSE Opens("YO", {1}) \cup Opens("MO", months) \cup Opens("DO", days)
              \cup Opens("WO", weeks) \cup Previous("PMO", months) \cup Previous("PWO", weeks)
              \cup highs \cup lows \cup olds \cup prevs
  BY DEF RawLevels, RawLevel
<1>2. /\ Len(f) \in Nat /\ N = 1..Len(f)
      /\ \A i \in N : /\ f[i].o \in Nat \ {0} /\ f[i].h \in Nat \ {0} /\ f[i].l \in Nat \ {0}
  <2>1. /\ Len(f) \in Nat /\ N = 1..Len(f)
        /\ \A i \in N : /\ f[i].o \in Nat /\ f[i].h \in Nat /\ f[i].l \in Nat \ {0}
                        /\ f[i].l <= f[i].o /\ f[i].o <= f[i].h
    BY FrameFacts
  <2> QED
    BY <2>1
<1>3. /\ months \subseteq N /\ weeks \subseteq N /\ days \subseteq N /\ mondays \subseteq N
      /\ aths \subseteq N
      /\ N # {} => 1 \in N /\ 1 \in months /\ 1 \in weeks /\ 1 \in aths
  BY <1>2
<1>4. \A i \in mondays : i \in Group(i) /\ Group(i) \subseteq N
  OBVIOUS
<1> HIDE DEF N, months, weeks, days, mondays, aths, Group
<1>5. {"YO", "MO", "DO", "WO", "PMO", "PWO", "MONDAY_H", "MONDAY_L", "OLD_ATH", "PREV_ATH"}
         \subseteq DOMAIN KindRank
  BY DEF KindRank
<1>6. ASSUME NEW kind \in DOMAIN KindRank, NEW S, S \subseteq N
      PROVE  Fine(Opens(kind, S))
  <2> DEFINE price == [i \in S |-> f[i].o]
             at == [i \in S |-> i]
  <2>1. \A i \in S : price[i] \in Nat \ {0} /\ at[i] \in DOMAIN f
    BY <1>2, <1>6 DEF N
  <2>2. RawAt(f, kind, S, price, at) = Opens(kind, S)
    BY DEF RawAt
  <2>3. S \subseteq DOMAIN f
    BY <1>6 DEF N
  <2> HIDE DEF price, at
  <2>4. Fine(RawAt(f, kind, S, price, at))
    BY <2>1, <2>3, RawOfBar
  <2> QED
    BY <2>2, <2>4
<1>7. ASSUME NEW kind \in DOMAIN KindRank, NEW S, S \subseteq N, 1 \in S,
             NEW v, \A i \in N : v[i] \in Nat \ {0}
      PROVE  Fine(RawPrevious(f, kind, S, v))
  <2> DEFINE Before(i) == {j \in S : j < i}
             price == [i \in S \ {1} |-> v[Max(Before(i))]]
             at == [i \in S \ {1} |-> i]
  <2>1. \A i \in S \ {1} : Max(Before(i)) \in N
    <3> SUFFICES ASSUME NEW i \in S \ {1} PROVE Max(Before(i)) \in N
      OBVIOUS
    <3>1. 1 \in Before(i) /\ Before(i) \subseteq DOMAIN f /\ Before(i) \subseteq N
      BY <1>2, <1>7 DEF N
    <3> HIDE DEF Before
    <3> QED
      BY <3>1, MaxPosition
  <2>2. \A i \in S \ {1} : price[i] \in Nat \ {0} /\ at[i] \in DOMAIN f
    BY <1>7, <2>1 DEF N
  <2>3. RawAt(f, kind, S \ {1}, price, at) =
        RawPrevious(f, kind, S, v)
    BY DEF RawAt, RawPrevious
  <2>4. S \ {1} \subseteq DOMAIN f
    BY <1>7 DEF N
  <2> HIDE DEF price, at
  <2>5. Fine(RawAt(f, kind, S \ {1}, price, at))
    BY <2>2, <2>4, RawOfBar
  <2> QED
    BY <2>3, <2>5
<1>8. ASSUME NEW kind \in DOMAIN KindRank, NEW S, S \subseteq N, 1 \in S
      PROVE  Fine(Previous(kind, S))
  <2> DEFINE o == [i \in N |-> f[i].o]
  <2>1. \A i \in N : o[i] \in Nat \ {0}
    BY <1>2
  <2>2. \A i \in S \ {1} : Max({j \in S : j < i}) \in N
    <3> SUFFICES ASSUME NEW i \in S \ {1} PROVE Max({j \in S : j < i}) \in N
      OBVIOUS
    <3> DEFINE B == {j \in S : j < i}
    <3>1. 1 \in B /\ B \subseteq DOMAIN f /\ B \subseteq N
      BY <1>2, <1>8 DEF N
    <3> HIDE DEF B
    <3>2. Max(B) \in B
      BY <3>1, MaxPosition
    <3> QED
      BY <3>1, <3>2 DEF B
  <2>3. RawPrevious(f, kind, S, o) = Previous(kind, S)
    BY <2>2 DEF RawPrevious
  <2> HIDE DEF o
  <2>4. Fine(RawPrevious(f, kind, S, o))
    BY <1>7, <1>8, <2>1
  <2> QED
    BY <2>3, <2>4
<1>9. Fine(prevs) \/ N = {}
  <2> SUFFICES ASSUME N # {} PROVE Fine(prevs)
    OBVIOUS
  <2> DEFINE h == [i \in N |-> f[i].h]
  <2>1. \A i \in N : h[i] \in Nat \ {0}
    BY <1>2
  <2>2. \A i \in aths \ {1} : Max({j \in aths : j < i}) \in N
    <3> SUFFICES ASSUME NEW i \in aths \ {1} PROVE Max({j \in aths : j < i}) \in N
      OBVIOUS
    <3> DEFINE B == {j \in aths : j < i}
    <3>1. 1 \in B /\ B \subseteq DOMAIN f /\ B \subseteq N
      BY <1>2, <1>3 DEF N
    <3> HIDE DEF B
    <3>2. Max(B) \in B
      BY <3>1, MaxPosition
    <3> QED
      BY <3>1, <3>2 DEF B
  <2>3. RawPrevious(f, "PREV_ATH", aths, h) = prevs
    BY <2>2 DEF RawPrevious
  <2> HIDE DEF h
  <2>4. Fine(RawPrevious(f, "PREV_ATH", aths, h))
    BY <1>3, <1>5, <1>7, <2>1
  <2> QED
    BY <2>3, <2>4
<1>10. Fine(olds)
  <2> DEFINE price == [i \in aths |-> f[i].h]
             at == [i \in aths |-> i]
  <2>1. \A i \in aths : price[i] \in Nat \ {0} /\ at[i] \in DOMAIN f
    BY <1>2, <1>3 DEF N
  <2>2. RawAt(f, "OLD_ATH", aths, price, at) = olds
    BY DEF RawAt
  <2>3. aths \subseteq DOMAIN f
    BY <1>3 DEF N
  <2> HIDE DEF price, at
  <2>4. Fine(RawAt(f, "OLD_ATH", aths, price, at))
    BY <1>5, <2>1, <2>3, RawOfBar
  <2> QED
    BY <2>2, <2>4
<1>11. Fine(highs) /\ Fine(lows)
  <2> DEFINE hi == [i \in mondays |-> Max({f[j].h : j \in Group(i)})]
             lo == [i \in mondays |-> Min({f[j].l : j \in Group(i)})]
             at == [i \in mondays |-> Min(Group(i))]
  <2>1. \A i \in mondays : hi[i] \in Nat \ {0} /\ lo[i] \in Nat \ {0} /\ at[i] \in DOMAIN f
    <3> SUFFICES ASSUME NEW i \in mondays
                 PROVE  /\ Max({f[j].h : j \in Group(i)}) \in Nat \ {0}
                        /\ Min({f[j].l : j \in Group(i)}) \in Nat \ {0}
                        /\ Min(Group(i)) \in DOMAIN f
      OBVIOUS
    <3> DEFINE G == Group(i)
               h == [j \in G |-> f[j].h]
               l == [j \in G |-> f[j].l]
    <3>1. G \subseteq DOMAIN f /\ G # {} /\ G \subseteq N
      BY <1>4 DEF N
    <3> HIDE DEF G
    <3>2. \A j \in G : h[j] \in Nat \ {0} /\ l[j] \in Nat \ {0}
      BY <1>2, <3>1
    <3>3. Values(h, G) = {f[j].h : j \in G} /\ Values(l, G) = {f[j].l : j \in G}
          /\ DOMAIN h = G /\ DOMAIN l = G
      BY DEF Values
    <3> HIDE DEF h, l
    <3>7. \A j \in G : h[j] \in Int /\ l[j] \in Int
      BY <3>2
    <3>4. \E j \in G : Max(Values(h, G)) = h[j]
      BY <3>1, <3>3, <3>7, MaxOfBars
    <3>5. \E j \in G : Min(Values(l, G)) = l[j]
      BY <3>1, <3>3, <3>7, MaxOfBars
    <3>6. Min(G) \in G
      BY <3>1, MaxPosition
    <3> QED
      BY <3>1, <3>2, <3>3, <3>4, <3>5, <3>6 DEF G
  <2>2. /\ RawAt(f, "MONDAY_H", mondays, hi, at) = highs
        /\ RawAt(f, "MONDAY_L", mondays, lo, at) = lows
    BY DEF RawAt
  <2>3. mondays \subseteq DOMAIN f
    BY <1>3 DEF N
  <2> HIDE DEF hi, lo, at
  <2>4. Fine(RawAt(f, "MONDAY_H", mondays, hi, at))
    BY <1>5, <2>1, <2>3, RawOfBar
  <2>5. Fine(RawAt(f, "MONDAY_L", mondays, lo, at))
    BY <1>5, <2>1, <2>3, RawOfBar
  <2> HIDE DEF highs, lows
  <2> QED
    BY <2>2, <2>4, <2>5
<1>12. CASE N = {}
  <2>1. RawLevels(f) = {}
    BY <1>1, <1>12
  <2> QED
    BY <2>1, FS_EmptySet
<1>13. CASE N # {}
  <2> DEFINE yo == Opens("YO", {1})
             mo == Opens("MO", months)
             do == Opens("DO", days)
             wo == Opens("WO", weeks)
             pmo == Previous("PMO", months)
             pwo == Previous("PWO", weeks)
  <2>1. Fine(yo) /\ Fine(mo) /\ Fine(do) /\ Fine(wo)
    <3>1. {1} \subseteq N
      BY <1>3, <1>13
    <3> HIDE DEF Opens
    <3> QED
      BY <1>3, <1>5, <1>6, <3>1
  <2>2. Fine(pmo) /\ Fine(pwo)
    <3> HIDE DEF Previous
    <3> QED
      BY <1>3, <1>5, <1>8, <1>13
  <2>3. RawLevels(f) = yo \cup mo \cup do \cup wo \cup pmo \cup pwo \cup highs \cup lows
                       \cup olds \cup prevs
    BY <1>1, <1>13
  <2>4. Fine(prevs)
    BY <1>9, <1>13
  <2> HIDE DEF yo, mo, do, wo, pmo, pwo, highs, lows, olds, prevs
  <2>5. \A R, T : Fine(R) /\ Fine(T) => Fine(R \cup T)
    BY FS_Union DEF Fine
  <2>6. Fine(yo \cup mo \cup do \cup wo)
    BY <2>1, <2>5
  <2>7. Fine(yo \cup mo \cup do \cup wo \cup pmo \cup pwo)
    BY <2>2, <2>5, <2>6
  <2>8. Fine(yo \cup mo \cup do \cup wo \cup pmo \cup pwo \cup highs \cup lows)
    BY <1>11, <2>5, <2>7
  <2>9. Fine(RawLevels(f))
    BY <1>10, <2>3, <2>4, <2>5, <2>8
  <2> QED
    BY <2>9 DEF Fine
<1> QED
  BY <1>12, <1>13

LEMMA LevelsOk ==
  ASSUME NEW f, Good(f)
  PROVE  IsFiniteSet(Levels(f)) /\ \A v \in Levels(f) : LevelOk(v)
<1> DEFINE raw == RawLevels(f)
           until(lv) == LET later == Later(raw, lv)
                        IN IF later = {} THEN NoEnd ELSE Min(later)
           level == [lv \in raw |-> [class |-> "LEVEL", kind |-> lv.kind, side |-> "ANY",
                                     at |-> lv.from, lo |-> lv.price, hi |-> lv.price,
                                     until |-> until(lv)]]
<1>1. Levels(f) = {level[lv] : lv \in raw}
  BY DEF Levels
<1>2. \A lv \in raw : LevelOk(level[lv])
  <2> HIDE DEF raw, until
  <2>1. \A lv \in raw : RawOk(lv)
    BY RawLevelsOk DEF raw
  <2> QED
    BY <2>1 DEF LevelOk, RawOk
<1>3. DOMAIN level = raw
  OBVIOUS
<1>4. IsFiniteSet({level[lv] : lv \in raw})
  <2> HIDE DEF level
  <2> QED
    BY <1>3, RawLevelsOk, ImageFinite
<1> QED
  BY <1>1, <1>2, <1>4

-----------------------------------------------------------------------------
(* Clusters, levels, ranges *)

LEMMA ClustersOf ==
  ASSUME NEW points, IsFiniteSet(points), NEW at
  PROVE  IsFiniteSet(Clusters(points, at)) /\ \A c \in Clusters(points, at) : c \subseteq points
<1> DEFINE Gap(p) == \A q \in points :
                      at[q] > at[p] => 1000 * (at[q] - at[p]) > EqualTolerance * at[p]
           Joined(p, q) == \A r \in points :
                      (at[p] <= at[r] /\ at[r] < at[q]) => ~Gap(r)
           of == [p \in points |-> {q \in points : Joined(p, q) /\ Joined(q, p)}]
<1>1. Clusters(points, at) = {of[p] : p \in points}
  BY DEF Clusters
<1>2. \A p \in points : of[p] \subseteq points
  OBVIOUS
<1>3. DOMAIN of = points
  OBVIOUS
<1> HIDE DEF of
<1>4. IsFiniteSet({of[p] : p \in points})
  BY <1>3, ImageFinite
<1> QED
  BY <1>1, <1>2, <1>4

(* The order in which DominantRange prefers.                               *)
BetterRange(r, q) ==
    LET w == (r.high - r.low) - (q.high - q.low)
    IN \/ w > 0
       \/ w = 0 /\ r.formed > q.formed
       \/ w = 0 /\ r.formed = q.formed /\ r.high <= q.high

LEMMA BestRange ==
  ASSUME NEW C, IsFiniteSet(C), C # {},
         \A r \in C : r.high \in Int /\ r.low \in Int /\ r.formed \in Int
  PROVE  \E r \in C : \A q \in C : BetterRange(r, q)
<1> DEFINE wide == [r \in C |-> -(r.high - r.low)]
           late == [r \in C |-> -r.formed]
           high == [r \in C |-> r.high]
           First == {r \in C : \A q \in C : wide[r] <= wide[q]}
           Second == {r \in First : \A q \in First : late[r] <= late[q]}
<1>1. \A r \in C : wide[r] \in Int /\ late[r] \in Int /\ high[r] \in Int
  OBVIOUS
<1> HIDE DEF wide, late, high
<1>2. First # {} /\ First \subseteq C
  BY <1>1, MinOver
<1>3. IsFiniteSet(First)
  BY <1>2, FS_Subset
<1> HIDE DEF First
<1>4. Second # {} /\ Second \subseteq First
  BY <1>1, <1>2, <1>3, MinOver
<1>5. IsFiniteSet(Second)
  BY <1>3, <1>4, FS_Subset
<1> HIDE DEF Second
<1>6. PICK r \in Second : \A q \in Second : high[r] <= high[q]
  BY <1>1, <1>2, <1>4, <1>5, MinOver
<1>7. r \in C /\ r \in First
  BY <1>2, <1>4
<1>8. ASSUME NEW q \in C
      PROVE  BetterRange(r, q)
  <2>1. wide[r] <= wide[q]
    BY <1>7 DEF First
  <2>2. wide[q] <= wide[r] => q \in First
    BY <1>1, <1>7 DEF First
  <2>3. q \in First => late[r] <= late[q]
    BY <1>6 DEF Second
  <2>4. q \in First /\ late[q] <= late[r] => q \in Second
    BY <1>1, <1>2, <1>6 DEF Second
  <2>5. /\ r.high \in Int /\ r.low \in Int /\ r.formed \in Int
        /\ q.high \in Int /\ q.low \in Int /\ q.formed \in Int
    BY <1>7
  <2>6. /\ wide[r] = -(r.high - r.low) /\ wide[q] = -(q.high - q.low)
        /\ late[r] = -r.formed /\ late[q] = -q.formed /\ high[r] = r.high /\ high[q] = q.high
    BY <1>7 DEF wide, late, high
  <2>7. q \in Second => high[r] <= high[q]
    BY <1>6
  <2> DEFINE rw == r.high - r.low
             qw == q.high - q.low
             rf == r.formed
             qf == q.formed
             rh == r.high
             qh == q.high
  <2>8. rw \in Int /\ qw \in Int /\ rf \in Int /\ qf \in Int /\ rh \in Int /\ qh \in Int
    BY <2>5
  <2>9. /\ -rw <= -qw /\ (-qw <= -rw => -rf <= -qf)
        /\ (-qw <= -rw /\ -qf <= -rf => rh <= qh)
    BY <2>1, <2>2, <2>3, <2>4, <2>6, <2>7
  <2>10. BetterRange(r, q) <=> \/ rw - qw > 0 \/ (rw - qw = 0 /\ rf > qf)
                              \/ (rw - qw = 0 /\ rf = qf /\ rh <= qh)
    BY DEF BetterRange
  <2> HIDE DEF rw, qw, rf, qf, rh, qh
  <2> QED
    BY <2>8, <2>9, <2>10
<1> QED
  BY <1>7, <1>8

LEMMA SwingsFinite ==
  ASSUME NEW f, Good(f)
  PROVE  /\ SwingHighs(f) \subseteq DOMAIN f /\ SwingLows(f) \subseteq DOMAIN f
         /\ IsFiniteSet(SwingHighs(f)) /\ IsFiniteSet(SwingLows(f))
<1>1. Candidates(f) \subseteq DOMAIN f
  BY FrameFacts, DetectorAssumption DEF Candidates
<1>2. SwingHighs(f) \subseteq DOMAIN f /\ SwingLows(f) \subseteq DOMAIN f
  BY <1>1 DEF SwingHighs, SwingLows
<1> QED
  BY <1>2, BarsFinite

RangeOf(f, p) ==
    LET Highs == [i \in SwingHighs(f) |-> f[i].h]
        Lows  == [i \in SwingLows(f) |-> f[i].l]
    IN [high   |-> Max({Highs[i] : i \in p[1]}),
        low    |-> Min({Lows[i] : i \in p[2]}),
        formed |-> f[Max(p[1] \cup p[2])].t]

LEMMA RangeOfPair ==
  ASSUME NEW f, Good(f), NEW a, a \subseteq SwingHighs(f), a # {},
         NEW b, b \subseteq SwingLows(f), b # {}
  PROVE  /\ RangeOf(f, <<a, b>>).high \in Int /\ RangeOf(f, <<a, b>>).low \in Int
         /\ RangeOf(f, <<a, b>>).formed \in Nat
<1> DEFINE Highs == [i \in SwingHighs(f) |-> f[i].h]
           Lows  == [i \in SwingLows(f) |-> f[i].l]
           h == [i \in a |-> f[i].h]
           l == [i \in b |-> f[i].l]
<1>1. a \subseteq DOMAIN f /\ b \subseteq DOMAIN f /\ a \cup b # {} /\ a \cup b \subseteq DOMAIN f
  BY SwingsFinite
<1>2. \A i \in DOMAIN f : f[i].h \in Int /\ f[i].l \in Int /\ f[i].t \in Nat
  BY FrameFacts
<1>3. /\ DOMAIN h = a /\ DOMAIN l = b /\ (\A i \in a : h[i] \in Int) /\ \A i \in b : l[i] \in Int
  BY <1>1, <1>2
<1>4. {Highs[i] : i \in a} = Values(h, a) /\ {Lows[i] : i \in b} = Values(l, b)
  BY DEF Values
<1>5. /\ RangeOf(f, <<a, b>>).high = Max(Values(h, a))
      /\ RangeOf(f, <<a, b>>).low = Min(Values(l, b))
      /\ RangeOf(f, <<a, b>>).formed = f[Max(a \cup b)].t
  BY <1>4 DEF RangeOf
<1> HIDE DEF h, l, Highs, Lows
<1>6. \E i \in a : Max(Values(h, a)) = h[i]
  BY <1>1, <1>3, MaxOfBars
<1>7. \E i \in b : Min(Values(l, b)) = l[i]
  BY <1>1, <1>3, MaxOfBars
<1>8. Max(a \cup b) \in a \cup b
  BY <1>1, MaxPosition
<1> QED
  BY <1>1, <1>2, <1>3, <1>5, <1>6, <1>7, <1>8

LEMMA DominantRangeOk ==
  ASSUME NEW f, Good(f)
  PROVE  RangeOk(DominantRange(f))
<1> DEFINE Highs == [i \in SwingHighs(f) |-> f[i].h]
           Lows  == [i \in SwingLows(f) |-> f[i].l]
           Big(clusters) == {c \in clusters : Cardinality(c) >= 2}
           tops == Big(Clusters(DOMAIN Highs, Highs))
           bottoms == Big(Clusters(DOMAIN Lows, Lows))
           pairs == tops \X bottoms
           all == {RangeOf(f, p) : p \in pairs}
           cands == {r \in all : r.high > r.low}
<1>1. DominantRange(f) = IF cands = {} THEN NoRange
                         ELSE CHOOSE r \in cands : \A q \in cands : BetterRange(r, q)
  BY DEF DominantRange, BetterRange, RangeOf
<1>2. DOMAIN Highs = SwingHighs(f) /\ DOMAIN Lows = SwingLows(f)
  OBVIOUS
<1>3. /\ IsFiniteSet(tops) /\ \A c \in tops : c \subseteq SwingHighs(f) /\ c # {}
      /\ IsFiniteSet(bottoms) /\ \A c \in bottoms : c \subseteq SwingLows(f) /\ c # {}
  <2> DEFINE T == Clusters(SwingHighs(f), Highs)
             B == Clusters(SwingLows(f), Lows)
  <2>1. /\ IsFiniteSet(T) /\ \A c \in T : c \subseteq SwingHighs(f)
        /\ IsFiniteSet(B) /\ \A c \in B : c \subseteq SwingLows(f)
    <3> HIDE DEF Highs, Lows
    <3> QED
      BY SwingsFinite, ClustersOf
  <2>2. tops = Big(T) /\ bottoms = Big(B)
    BY <1>2
  <2> HIDE DEF T, B, Highs, Lows
  <2>3. \A c : Cardinality(c) >= 2 => c # {}
    <3>1. Cardinality({}) = 0
      BY FS_EmptySet
    <3> QED
      BY <3>1
  <2>4. tops \in SUBSET T /\ bottoms \in SUBSET B
    BY <2>2
  <2>5. IsFiniteSet(tops) /\ IsFiniteSet(bottoms)
    BY <2>1, <2>4, FS_Subset
  <2>6. (\A c \in tops : Cardinality(c) >= 2) /\ \A c \in bottoms : Cardinality(c) >= 2
    BY <2>2
  <2> HIDE DEF tops, bottoms, Big
  <2> QED
    BY <2>1, <2>3, <2>4, <2>5, <2>6
<1> HIDE DEF tops, bottoms
<1>4. IsFiniteSet(pairs) /\ \A p \in pairs : p = <<p[1], p[2]>> /\ p[1] \in tops /\ p[2] \in bottoms
  BY <1>3, FS_Product
<1>5. \A p \in pairs : /\ RangeOf(f, p).high \in Int /\ RangeOf(f, p).low \in Int
                       /\ RangeOf(f, p).formed \in Int
  <2> SUFFICES ASSUME NEW p \in pairs
               PROVE  /\ RangeOf(f, p).high \in Int /\ RangeOf(f, p).low \in Int
                      /\ RangeOf(f, p).formed \in Int
    OBVIOUS
  <2>1. PICK a \in tops, b \in bottoms : p = <<a, b>>
    BY <1>4
  <2>2. /\ RangeOf(f, <<a, b>>).high \in Int /\ RangeOf(f, <<a, b>>).low \in Int
        /\ RangeOf(f, <<a, b>>).formed \in Nat
    BY <1>3, RangeOfPair
  <2> QED
    BY <2>1, <2>2
<1> HIDE DEF pairs
<1>6. IsFiniteSet(all)
  <2> DEFINE g == [p \in pairs |-> RangeOf(f, p)]
  <2>1. DOMAIN g = pairs /\ {g[p] : p \in pairs} = all
    OBVIOUS
  <2> HIDE DEF g, all
  <2>2. IsFiniteSet({g[p] : p \in pairs})
    BY <1>4, <2>1, ImageFinite
  <2> QED
    BY <2>1, <2>2
<1>7. IsFiniteSet(cands)
  <2>1. cands \in SUBSET all
    OBVIOUS
  <2> HIDE DEF cands, all
  <2> QED
    BY <1>6, <2>1, FS_Subset
<1>8. \A r \in cands : r.high \in Int /\ r.low \in Int /\ r.formed \in Int /\ r.high > r.low
  BY <1>5
<1> HIDE DEF cands
<1>9. CASE cands = {}
  BY <1>1, <1>9 DEF RangeOk
<1>10. CASE cands # {}
  <2> DEFINE best == CHOOSE r \in cands : \A q \in cands : BetterRange(r, q)
  <2>1. \E r \in cands : \A q \in cands : BetterRange(r, q)
    BY <1>7, <1>8, <1>10, BestRange
  <2>2. best \in cands /\ DominantRange(f) = best
    BY <1>1, <1>10, <2>1
  <2>3. NoRange.high = NoRange.low
    BY DEF NoRange
  <2> HIDE DEF best
  <2> QED
    BY <1>8, <2>2, <2>3 DEF RangeOk
<1> QED
  BY <1>9, <1>10

-----------------------------------------------------------------------------
IsList(s) == \E E : s \in Seq(E)

LEMMA ListOfPrices ==
  ASSUME NEW S, IsFiniteSet(S)
  PROVE  IsList(LevelPrices(S))
<1> DEFINE n == Cardinality(S)
           seq == Ordered(S, LevelBefore)
           prices == [i \in 1..n |-> seq[i].lo]
           E == {seq[i].lo : i \in 1..n}
<1>1. n \in Nat
  BY FS_CardinalityType
<1>2. DOMAIN seq = 1..n
  BY DEF Ordered
<1>3. LevelPrices(S) = prices
  BY <1>2 DEF LevelPrices
<1> HIDE DEF n, seq
<1>4. prices \in [1..n -> E]
  OBVIOUS
<1>5. prices \in Seq(E)
  BY <1>1, <1>4, SeqDef
<1> QED
  BY <1>3, <1>5 DEF IsList

LEMMA ListOfRange ==
  ASSUME NEW r
  PROVE  IsList(RangeLevels(r))
<1>1. <<>> \in Seq({r.high, r.low}) /\ <<r.high, r.low>> \in Seq({r.high, r.low})
  OBVIOUS
<1> QED
  BY <1>1 DEF IsList, RangeLevels

LEMMA ListConcat ==
  ASSUME NEW s, IsList(s), NEW t, IsList(t)
  PROVE  IsList(s \o t)
<1>1. PICK E : s \in Seq(E)
  BY DEF IsList
<1>2. PICK F : t \in Seq(F)
  BY DEF IsList
<1>3. s \in Seq(E \cup F) /\ t \in Seq(E \cup F)
  BY <1>1, <1>2
<1>4. s \o t \in Seq(E \cup F)
  BY <1>3, ConcatProperties
<1> QED
  BY <1>4 DEF IsList

Event(kind, price, side, t, high) ==
    [kind |-> kind, price |-> price, side |-> side, at |-> t, high |-> high]

LEMMA EventsFinite ==
  ASSUME NEW f, Good(f), NEW known, IsList(known)
  PROVE  IsFiniteSet(Liquidity(f, known))
<1> DEFINE sh == [i \in SwingHighs(f) |-> f[i].h]
           sl == [i \in SwingLows(f) |-> f[i].l]
           eh == EqualHighs(f)
           el == EqualLows(f)
           High(p) == \E q \in {e.price : e \in eh \cup el} \cup ToSet(known) :
                         1000 * Distance(p, q) <= EqualTolerance * q
           Taken(side, price, i) ==
             {Event(kind, price, side, f[i].t, High(price)) : kind \in {"SFP", "SWEEP"}}
           Above(i) == TakenAbove(f[i], Reachable(sh, eh, known, i))
           Below(i) == TakenBelow(f[i], Reachable(sl, el, known, i))
           Up1(i) == IF Above(i) # {} THEN Taken("SHORT", Max(Above(i)), i) ELSE {}
           Dn1(i) == IF Below(i) # {} THEN Taken("LONG", Min(Below(i)), i) ELSE {}
           At(i) == Up1(i) \cup Dn1(i)
           at == [i \in DOMAIN f |-> At(i)]
           Broke(i, k, side) ==
             LET b == f[i]
             IN IF side = "SHORT" THEN b.c > known[k] /\ (b.o <= known[k] \/ b.l <= known[k])
                                  ELSE b.c < known[k] /\ (b.o >= known[k] \/ b.h >= known[k])
           Back(i, k, side) ==
             {j \in i + 1..Min({i + DeviationLookahead, Len(f)}) :
                IF side = "SHORT" THEN f[j].c < known[k] ELSE f[j].c > known[k]}
           triples == (DOMAIN f) \X (DOMAIN known) \X {"LONG", "SHORT"}
           failures == {g \in triples : Broke(g[1], g[2], g[3]) /\ Back(g[1], g[2], g[3]) # {}}
           ReturnBar(g) == Min(Back(g[1], g[2], g[3]))
           Earlier(g, h) == /\ g[3] = h[3] /\ ReturnBar(g) = ReturnBar(h)
                            /\ g[1] < h[1] \/ (g[1] = h[1] /\ g[2] < h[2])
           first == {h \in failures : \A e \in failures : ~Earlier(e, h)}
           dev == [g \in first |-> Event("DEVIATION", known[g[2]], g[3], f[ReturnBar(g)].t, TRUE)]
<1>1. Liquidity(f, known) = IF Len(f) < 3 THEN {}
                            ELSE {dev[g] : g \in first} \cup UNION {at[i] : i \in DOMAIN f}
  BY DEF Liquidity, Event
<1>2. IsFiniteSet(DOMAIN f)
  BY BarsFinite
<1>3. IsFiniteSet(first)
  <2>1. IsFiniteSet(DOMAIN known)
    <3>1. PICK E : known \in Seq(E)
      BY DEF IsList
    <3>2. DOMAIN known = 1..Len(known) /\ Len(known) \in Nat
      BY <3>1, LenProperties
    <3> QED
      BY <3>2, FS_Interval
  <2>2. IsFiniteSet(triples)
    <3>1. IsFiniteSet({"LONG", "SHORT"})
      BY TwoFinite
    <3> DEFINE D == DOMAIN f
               K == DOMAIN known
               T == {"LONG", "SHORT"}
    <3>2. IsFiniteSet(D) /\ IsFiniteSet(K) /\ IsFiniteSet(T)
      BY <1>2, <2>1, <3>1
    <3> HIDE DEF D, K, T
    <3>3. IsFiniteSet((D \X K) \X T)
      BY <3>2, FS_Product
    <3> DEFINE flat == [p \in (D \X K) \X T |-> <<p[1][1], p[1][2], p[2]>>]
    <3>4. D \X K \X T = {flat[p] : p \in (D \X K) \X T}
      <4>1. \A p \in (D \X K) \X T : flat[p] \in D \X K \X T
        OBVIOUS
      <4>2. ASSUME NEW g \in D \X K \X T
            PROVE  \E p \in (D \X K) \X T : flat[p] = g
        <5>1. PICK x \in D, y \in K, z \in T : g = <<x, y, z>>
          OBVIOUS
        <5>2. <<<<x, y>>, z>> \in (D \X K) \X T /\ flat[<<<<x, y>>, z>>] = <<x, y, z>>
          OBVIOUS
        <5> QED
          BY <5>1, <5>2
      <4> HIDE DEF flat
      <4> QED
        BY <4>1, <4>2
    <3>5. DOMAIN flat = (D \X K) \X T
      OBVIOUS
    <3> HIDE DEF flat
    <3>6. IsFiniteSet({flat[p] : p \in (D \X K) \X T})
      BY <3>3, <3>5, ImageFinite
    <3> QED
      BY <3>4, <3>6 DEF D, K, T
  <2>3. first \in SUBSET triples
    OBVIOUS
  <2> HIDE DEF first, triples
  <2> QED
    BY <2>2, <2>3, FS_Subset
<1>4. \A i \in DOMAIN f : IsFiniteSet(at[i])
  <2> SUFFICES ASSUME NEW i \in DOMAIN f PROVE IsFiniteSet(Up1(i)) /\ IsFiniteSet(Dn1(i))
    <3> HIDE DEF Up1, Dn1
    <3> QED
      BY FS_Union
  <2>1. ASSUME NEW side, NEW price
        PROVE  IsFiniteSet(Taken(side, price, i))
    <3>1. Taken(side, price, i) = {Event("SFP", price, side, f[i].t, High(price)),
                                   Event("SWEEP", price, side, f[i].t, High(price))}
      <4> HIDE DEF High
      <4> QED
        BY DEF Event
    <3> HIDE DEF Taken, High
    <3> QED
      BY <3>1, TwoFinite
  <2>2. IsFiniteSet({})
    BY FS_EmptySet
  <2> HIDE DEF Taken, Above, Below
  <2> QED
    BY <2>1, <2>2
<1>5. DOMAIN dev = first /\ DOMAIN at = DOMAIN f
  OBVIOUS
<1> HIDE DEF dev, at, first
<1>6. IsFiniteSet({dev[g] : g \in first})
  BY <1>3, <1>5, ImageFinite
<1>7. IsFiniteSet(UNION {at[i] : i \in DOMAIN f})
  <2>1. IsFiniteSet({at[i] : i \in DOMAIN f})
    BY <1>2, <1>5, ImageFinite
  <2> QED
    BY <1>4, <2>1, FS_UNION
<1> QED
  BY <1>1, <1>6, <1>7, FS_EmptySet, FS_Union

-----------------------------------------------------------------------------
(* Enrichment and snapshots *)

SnapshotOk(s) ==
    /\ s = [range |-> s.range, bias |-> s.bias, zones |-> s.zones,
            imbalances |-> s.imbalances, levels |-> s.levels, events |-> s.events,
            structure |-> s.structure, atr |-> s.atr, history |-> s.history]
    /\ RangeOk(s.range) /\ s.bias \in Biases
    /\ IsFiniteSet(s.zones) /\ \A z \in s.zones : ZoneOk(z)
    /\ IsFiniteSet(s.imbalances) /\ \A m \in s.imbalances : ImbalanceOk(m)
    /\ IsFiniteSet(s.levels) /\ \A v \in s.levels : LevelOk(v)
    /\ IsFiniteSet(s.events)

LEMMA EmptySnapshotOk == SnapshotOk(EmptySnapshot)
  BY FS_EmptySet DEF SnapshotOk, EmptySnapshot, RangeOk, Biases

LEMMA SnapshotIsOk ==
  ASSUME NEW f, Good(f), NEW tf, NEW known, IsList(known)
  PROVE  SnapshotOk(Snapshot(f, tf, known))
<1> DEFINE range  == DominantRange(f)
           breaks == Structure(f)
           levels == Levels(f)
           bias   == BiasOf(f, breaks, tf)
           all    == known \o RangeLevels(range) \o LevelPrices(levels)
           history == IF tf = "H4" /\ Len(f) >= 2 THEN AtrHistory(f) ELSE <<>>
           atr == Atr(f, AtrPeriod)
<1>1. RangeOk(range) /\ IsFiniteSet(levels) /\ \A v \in levels : LevelOk(v)
  BY DominantRangeOk, LevelsOk
<1>2. bias \in Biases
  BY DEF BiasOf, CloseTrend, Biases
<1>3. IsList(all)
  <2>1. IsList(known \o RangeLevels(range))
    BY ListOfRange, ListConcat
  <2>2. IsList(LevelPrices(levels))
    BY <1>1, ListOfPrices
  <2> HIDE DEF range, levels
  <2> QED
    BY <2>1, <2>2, ListConcat
<1>4. Snapshot(f, tf, known) =
        [range |-> range, bias |-> bias, zones |-> Zones(f), imbalances |-> Imbalances(f),
         levels |-> levels, events |-> Liquidity(f, all), structure |-> breaks,
         atr |-> atr, history |-> history]
  BY DEF Snapshot
<1> HIDE DEF range, breaks, levels, bias, all, history, atr
<1>5. IsFiniteSet(Liquidity(f, all))
  BY <1>3, EventsFinite
<1>6. /\ IsFiniteSet(Zones(f)) /\ \A z \in Zones(f) : ZoneOk(z)
      /\ IsFiniteSet(Imbalances(f)) /\ \A m \in Imbalances(f) : ImbalanceOk(m)
  BY ZonesOk, ImbalancesOk
<1> DEFINE s == Snapshot(f, tf, known)
<1>7. /\ s.range = range /\ s.bias = bias /\ s.zones = Zones(f) /\ s.imbalances = Imbalances(f)
      /\ s.levels = levels /\ s.events = Liquidity(f, all) /\ s.structure = breaks
      /\ s.atr = atr /\ s.history = history
  BY <1>4
<1> HIDE DEF s
<1> QED
  BY <1>1, <1>2, <1>4, <1>5, <1>6, <1>7 DEF SnapshotOk, s

LEMMA PositionsOf ==
  ASSUME NEW f, Good(f), NEW t
  PROVE  /\ PositionOf(f, t) \subseteq DOMAIN f
         /\ \A i \in PositionOf(f, t) : PositionOf(f, t) = {i} /\ Max(PositionOf(f, t)) = i
<1>1. /\ Len(f) \in Nat /\ DOMAIN f = 1..Len(f)
      /\ \A i, j \in 1..Len(f) : i < j => f[i].t < f[j].t
      /\ \A i \in 1..Len(f) : f[i].t \in Nat
  BY FrameFacts
<1>2. PositionOf(f, t) \subseteq DOMAIN f
  BY DEF PositionOf
<1>3. ASSUME NEW i \in PositionOf(f, t)
      PROVE  PositionOf(f, t) = {i}
  <2>1. ASSUME NEW j \in PositionOf(f, t) PROVE j = i
    <3>1. f[i].t = t /\ f[j].t = t /\ i \in 1..Len(f) /\ j \in 1..Len(f)
      BY <1>1 DEF PositionOf
    <3>2. ~(i < j) /\ ~(j < i)
      BY <1>1, <3>1
    <3> QED
      BY <1>1, <3>1, <3>2
  <2> QED
    BY <2>1
<1>4. ASSUME NEW i \in PositionOf(f, t)
      PROVE  Max(PositionOf(f, t)) = i
  <2>1. Max(PositionOf(f, t)) \in PositionOf(f, t)
    BY <1>2, MaxPosition
  <2> QED
    BY <1>3, <2>1
<1> QED
  BY <1>2, <1>3, <1>4

(* What enrichment leaves alone and what it may change.                    *)
LEMMA EnrichedZone ==
  ASSUME NEW f, NEW z, ZoneOk(z)
  PROVE  LET e == EnrichZone(z, f)
         IN ZoneOk(e) /\ e.at = z.at /\ e.side = z.side /\ e.lo = z.lo /\ e.hi = z.hi
<1> DEFINE age == Len(f) - Max(PositionOf(f, z.at))
           status == IF z.status = "FRESH" /\ age > MaxZoneAge THEN "MITIGATED" ELSE z.status
           e == EnrichZone(z, f)
<1>1. CASE PositionOf(f, z.at) = {}
  BY <1>1 DEF EnrichZone
<1>2. CASE PositionOf(f, z.at) # {}
  <2>1. e = [z EXCEPT !.age = age, !.status = status]
    BY <1>2 DEF EnrichZone
  <2>2. status \in {"FRESH", "TESTED", "MITIGATED", "BROKEN"}
    BY DEF ZoneOk
  <2> HIDE DEF age, status
  <2>3. e = [class |-> "ZONE", kind |-> z.kind, at |-> z.at, side |-> z.side,
             hi |-> z.hi, lo |-> z.lo, status |-> status, age |-> age]
    <3>1. z = [class |-> "ZONE", kind |-> z.kind, at |-> z.at, side |-> z.side,
               hi |-> z.hi, lo |-> z.lo, status |-> z.status, age |-> z.age]
      BY DEF ZoneOk
    <3> DEFINE z1 == [z EXCEPT !.age = age]
    <3>2. z1 = [class |-> "ZONE", kind |-> z.kind, at |-> z.at, side |-> z.side,
                hi |-> z.hi, lo |-> z.lo, status |-> z.status, age |-> age]
      BY <3>1
    <3>3. e = [z1 EXCEPT !.status = status]
      BY <2>1
    <3> HIDE DEF e, z1
    <3> QED
      BY <3>2, <3>3
  <2> HIDE DEF e
  <2>4. /\ z.at \in Nat /\ z.side \in Sides /\ z.lo \in Nat \ {0} /\ z.hi \in Nat /\ z.lo <= z.hi
    BY DEF ZoneOk
  <2>5. ZoneOk(e) /\ e.at = z.at /\ e.side = z.side /\ e.lo = z.lo /\ e.hi = z.hi
    BY <2>2, <2>3, <2>4 DEF ZoneOk
  <2> QED
    BY <2>5 DEF e
<1> QED
  BY <1>1, <1>2

LEMMA EnrichedImbalance ==
  ASSUME NEW f, Good(f), NEW m, ImbalanceOk(m)
  PROVE  LET e == EnrichImbalance(m, f)
         IN ImbalanceOk(e) /\ e.at = m.at /\ e.side = m.side /\ e.lo = m.lo /\ e.hi = m.hi
<1> DEFINE at == PositionOf(f, m.at)
           later == Max(at) + 1..Len(f)
           depth == [j \in later |-> IF m.side = "LONG" THEN m.hi - f[j].l ELSE f[j].h - m.lo]
           deepest == Max({0} \cup Depths(m, f, later))
           fill == Min({deepest, m.hi - m.lo})
           e == EnrichImbalance(m, f)
<1>1. CASE at = {}
  BY <1>1 DEF EnrichImbalance
<1>2. CASE at # {}
  <2>1. e = [m EXCEPT !.fill = fill]
    BY <1>2 DEF EnrichImbalance
  <2>2. fill \in Int
    <3>1. Len(f) \in Nat /\ DOMAIN f = 1..Len(f)
          /\ (\A j \in 1..Len(f) : f[j].l \in Nat /\ f[j].h \in Nat)
      BY FrameFacts
    <3>2. Max(at) \in 1..Len(f)
      BY <1>2, <3>1, PositionsOf
    <3>3. later \subseteq DOMAIN f
      <4> HIDE DEF at
      <4> QED
        BY <3>1, <3>2
    <3>4. /\ m.hi \in Nat /\ m.lo \in Nat
      BY DEF ImbalanceOk
    <3>5. Depths(m, f, later) = {depth[j] : j \in later}
      BY DEF Depths
    <3> HIDE DEF later
    <3>6. \A j \in later : depth[j] \in Int
      BY <3>1, <3>3, <3>4
    <3>7. IsFiniteSet({depth[j] : j \in later})
      <4>1. IsFiniteSet(later) /\ DOMAIN depth = later
        BY <3>3, BarsFinite
      <4> HIDE DEF depth
      <4> QED
        BY <4>1, ImageFinite
    <3> DEFINE D == {0} \cup Depths(m, f, later)
    <3>8. IsFiniteSet(D) /\ D # {} /\ D \subseteq Int
      <4> DEFINE T == {depth[j] : j \in later}
      <4>1. IsFiniteSet(T) /\ T \subseteq Int /\ D = {0} \cup T
        BY <3>5, <3>6, <3>7
      <4> HIDE DEF T
      <4>2. IsFiniteSet({0} \cup T)
        BY <4>1, FS_Singleton, FS_Union
      <4> HIDE DEF D
      <4> QED
        BY <4>1, <4>2
    <3> HIDE DEF D
    <3>9. Max(D) \in Int
      BY <3>8, MaxIs
    <3> QED
      BY <3>4, <3>9, MinOfTwo DEF D
  <2> HIDE DEF fill
  <2>3. e = [class |-> "IMBALANCE", kind |-> m.kind, side |-> m.side, at |-> m.at,
             lo |-> m.lo, hi |-> m.hi, fill |-> fill]
    <3>1. m = [class |-> "IMBALANCE", kind |-> m.kind, side |-> m.side, at |-> m.at,
               lo |-> m.lo, hi |-> m.hi, fill |-> m.fill]
      BY DEF ImbalanceOk
    <3> HIDE DEF e
    <3> QED
      BY <2>1, <3>1
  <2> HIDE DEF e
  <2>4. /\ m.at \in Nat /\ m.side \in Sides /\ m.lo \in Nat \ {0} /\ m.hi \in Nat /\ m.lo < m.hi
    BY DEF ImbalanceOk
  <2>5. ImbalanceOk(e) /\ e.at = m.at /\ e.side = m.side /\ e.lo = m.lo /\ e.hi = m.hi
    BY <2>2, <2>3, <2>4 DEF ImbalanceOk
  <2> QED
    BY <2>5 DEF e
<1> QED
  BY <1>1, <1>2

LEMMA EnrichedOk ==
  ASSUME NEW f, Good(f), NEW s, SnapshotOk(s)
  PROVE  /\ SnapshotOk(Enriched(s, f))
         /\ Enriched(s, f).range = s.range /\ Enriched(s, f).bias = s.bias
         /\ Enriched(s, f).levels = s.levels
         /\ Enriched(s, f).zones = {EnrichZone(z, f) : z \in s.zones}
         /\ Enriched(s, f).imbalances = {EnrichImbalance(m, f) : m \in s.imbalances}
<1> DEFINE e == Enriched(s, f)
           zone == [z \in s.zones |-> EnrichZone(z, f)]
           imb == [m \in s.imbalances |-> EnrichImbalance(m, f)]
           zones == {EnrichZone(z, f) : z \in s.zones}
           imbs == {EnrichImbalance(m, f) : m \in s.imbalances}
<1>1. {zone[z] : z \in s.zones} = zones /\ {imb[m] : m \in s.imbalances} = imbs
      /\ DOMAIN zone = s.zones /\ DOMAIN imb = s.imbalances
  OBVIOUS
<1>2. s = [range |-> s.range, bias |-> s.bias, zones |-> s.zones,
           imbalances |-> s.imbalances, levels |-> s.levels, events |-> s.events,
           structure |-> s.structure, atr |-> s.atr, history |-> s.history]
  BY DEF SnapshotOk
<1>3. e = [s EXCEPT !.zones = zones, !.imbalances = imbs]
  BY DEF Enriched
<1>4. (\A z \in zones : ZoneOk(z)) /\ \A m \in imbs : ImbalanceOk(m)
  <2>1. (\A z \in s.zones : ZoneOk(z)) /\ \A m \in s.imbalances : ImbalanceOk(m)
    BY DEF SnapshotOk
  <2>2. \A z \in s.zones : ZoneOk(EnrichZone(z, f))
    BY <2>1, EnrichedZone
  <2>3. \A m \in s.imbalances : ImbalanceOk(EnrichImbalance(m, f))
    BY <2>1, EnrichedImbalance
  <2> QED
    BY <2>2, <2>3
<1> HIDE DEF zone, imb, zones, imbs, e
<1>5. IsFiniteSet(zones) /\ IsFiniteSet(imbs)
  <2>1. IsFiniteSet(s.zones) /\ IsFiniteSet(s.imbalances)
    BY DEF SnapshotOk
  <2>2. IsFiniteSet({zone[z] : z \in s.zones}) /\ IsFiniteSet({imb[m] : m \in s.imbalances})
    BY <1>1, <2>1, ImageFinite
  <2> QED
    BY <1>1, <2>2
<1>6. e = [range |-> s.range, bias |-> s.bias, zones |-> zones,
           imbalances |-> imbs, levels |-> s.levels, events |-> s.events,
           structure |-> s.structure, atr |-> s.atr, history |-> s.history]
  BY <1>2, <1>3
<1>7. /\ e.range = s.range /\ e.bias = s.bias /\ e.zones = zones /\ e.imbalances = imbs
      /\ e.levels = s.levels /\ e.events = s.events /\ e.structure = s.structure
      /\ e.atr = s.atr /\ e.history = s.history
  BY <1>6
<1>8. SnapshotOk(e)
  BY <1>4, <1>5, <1>6, <1>7 DEF SnapshotOk
<1> QED
  BY <1>7, <1>8 DEF e, zones, imbs

-----------------------------------------------------------------------------
CacheOk(c) ==
    /\ c = [k \in DOMAIN c |-> c[k]]
    /\ \A k \in DOMAIN c : SnapshotOk(c[k])

PoiOk(p) == ZoneOk(p) \/ ImbalanceOk(p) \/ LevelOk(p)

PictureOk(p) ==
    /\ RangeOk(p.range) /\ p.bias \in Biases /\ SnapshotOk(p.h4)
    /\ IsFiniteSet(p.pois) /\ \A x \in p.pois : PoiOk(x)

FramesOk(frames) == \A tf \in TimeFrames : Good(frames[tf])

LEMMA CachedOk ==
  ASSUME NEW c, CacheOk(c), NEW tf, NEW f, Good(f), NEW known, IsList(known)
  PROVE  SnapshotOk(CachedOrRun(c, tf, f, known))
  BY SnapshotIsOk DEF CachedOrRun, CacheOk

LEMMA KnownIsList ==
  ASSUME NEW d1, SnapshotOk(d1)
  PROVE  IsList(HtfKnownLevels(d1))
<1>1. IsFiniteSet(d1.levels)
  BY DEF SnapshotOk
<1>2. IsList(LevelPrices(d1.levels))
  BY <1>1, ListOfPrices
<1> QED
  BY <1>2, ListOfRange, ListConcat DEF HtfKnownLevels

(* The parts of what analyze returns.                                      *)
D1Of(frames, c) == HtfSnapshot(frames, c)
H4Of(frames, c) == MtfSnapshot(frames, c, D1Of(frames, c))
RichOf(frames, c) == Enriched(H4Of(frames, c), frames["H4"])
PoisOf(frames, c) == Nearby(frames, FilterPois(RichOf(frames, c), D1Of(frames, c).bias))
M15Of(frames, c) == LtfSnapshot(frames, c, D1Of(frames, c), PoisOf(frames, c))

RanOf(frames, c) == {tf \in {"D1", "H4"} : frames[tf] # <<>>}
                    \cup (IF PoisOf(frames, c) = {} THEN {} ELSE {"M15"})
SnapOf(frames, c) == [D1 |-> D1Of(frames, c), H4 |-> H4Of(frames, c), M15 |-> M15Of(frames, c)]

LEMMA AnalyzeIs ==
  ASSUME NEW frames, NEW c
  PROVE  LET keys == {CacheKey(tf, frames[tf]) : tf \in RanOf(frames, c)} \ DOMAIN c
         IN Analyze(frames, c) =
            [picture |-> [d1 |-> Enriched(D1Of(frames, c), frames["D1"]),
                          h4 |-> RichOf(frames, c), m15 |-> M15Of(frames, c),
                          bias |-> D1Of(frames, c).bias, range |-> D1Of(frames, c).range,
                          pois |-> PoisOf(frames, c),
                          at |-> LastT(frames["M15"]), price |-> Price(frames["M15"])],
             cache |-> [k \in keys \cup DOMAIN c |->
                          IF k \in keys THEN SnapOf(frames, c)[k[1]] ELSE c[k]]]
  BY DEF Analyze, HtfLayer, MtfLayer, PoiLayer, LtfLayer, Completed, D1Of, H4Of, RichOf,
         PoisOf, M15Of, RanOf, SnapOf

LEMMA LayersOk ==
  ASSUME NEW frames, FramesOk(frames), NEW c, CacheOk(c)
  PROVE  /\ SnapshotOk(D1Of(frames, c)) /\ SnapshotOk(H4Of(frames, c))
         /\ SnapshotOk(RichOf(frames, c)) /\ SnapshotOk(M15Of(frames, c))
         /\ IsFiniteSet(PoisOf(frames, c)) /\ \A p \in PoisOf(frames, c) : PoiOk(p)
<1>1. Good(frames["D1"]) /\ Good(frames["H4"]) /\ Good(frames["M15"])
  BY DEF FramesOk, TimeFrames
<1>2. IsList(<<>>)
  <2>1. <<>> \in Seq({})
    OBVIOUS
  <2> QED
    BY <2>1 DEF IsList
<1>3. SnapshotOk(D1Of(frames, c))
  BY <1>1, <1>2, CachedOk, EmptySnapshotOk DEF D1Of, HtfSnapshot
<1>4. IsList(HtfKnownLevels(D1Of(frames, c)))
  BY <1>3, KnownIsList
<1>5. SnapshotOk(H4Of(frames, c))
  BY <1>1, <1>4, CachedOk, EmptySnapshotOk DEF H4Of, MtfSnapshot
<1>6. SnapshotOk(RichOf(frames, c))
  BY <1>1, <1>5, EnrichedOk DEF RichOf
<1>7. SnapshotOk(M15Of(frames, c))
  BY <1>1, <1>4, CachedOk, EmptySnapshotOk DEF M15Of, LtfSnapshot
<1>8. IsFiniteSet(PoisOf(frames, c)) /\ \A p \in PoisOf(frames, c) : PoiOk(p)
  <2> DEFINE r == RichOf(frames, c)
             all == r.zones \cup r.imbalances \cup r.levels
             P == PoisOf(frames, c)
  <2>1. P \in SUBSET all
    BY DEF PoisOf, Nearby, FilterPois
  <2> HIDE DEF r, P
  <2>2. IsFiniteSet(all) /\ \A p \in all : PoiOk(p)
    BY <1>6, FS_Union DEF SnapshotOk, PoiOk, r
  <2> HIDE DEF all
  <2>3. IsFiniteSet(P)
    BY <2>1, <2>2, FS_Subset
  <2> QED
    BY <2>1, <2>2, <2>3 DEF P
<1> QED
  BY <1>3, <1>5, <1>6, <1>7, <1>8

LEMMA AnalyzeOk ==
  ASSUME NEW frames, FramesOk(frames), NEW c, CacheOk(c)
  PROVE  PictureOk(Analyze(frames, c).picture) /\ CacheOk(Analyze(frames, c).cache)
<1> DEFINE keys == {CacheKey(tf, frames[tf]) : tf \in RanOf(frames, c)} \ DOMAIN c
           next == [k \in keys \cup DOMAIN c |->
                      IF k \in keys THEN SnapOf(frames, c)[k[1]] ELSE c[k]]
           p == Analyze(frames, c).picture
<1>1. /\ p.range = D1Of(frames, c).range /\ p.bias = D1Of(frames, c).bias
      /\ p.h4 = RichOf(frames, c) /\ p.pois = PoisOf(frames, c)
      /\ Analyze(frames, c).cache = next
  BY AnalyzeIs
<1>2. PictureOk(p)
  <2> HIDE DEF p
  <2> QED
    BY <1>1, LayersOk DEF PictureOk, SnapshotOk
<1>3. \A k \in keys : SnapshotOk(SnapOf(frames, c)[k[1]])
  <2> SUFFICES ASSUME NEW tf \in RanOf(frames, c)
               PROVE  SnapshotOk(SnapOf(frames, c)[CacheKey(tf, frames[tf])[1]])
    OBVIOUS
  <2>1. tf \in {"D1", "H4", "M15"}
    BY DEF RanOf
  <2>2. CacheKey(tf, frames[tf])[1] = tf
    BY DEF CacheKey
  <2> QED
    BY <2>1, <2>2, LayersOk DEF SnapOf
<1> HIDE DEF keys
<1>4. CacheOk(next)
  BY <1>3 DEF CacheOk
<1> QED
  BY <1>1, <1>2, <1>4

-----------------------------------------------------------------------------
(* Confluence *)

LEMMA Clamped ==
  ASSUME NEW x \in Int
  PROVE  Clamp(x) \in Int /\ 0 <= Clamp(x) /\ Clamp(x) <= 1000
<1> DEFINE y == Min({1000, x})
<1>1. y = IF 1000 <= x THEN 1000 ELSE x
  BY MinOfTwo
<1> HIDE DEF y
<1>2. Max({0, y}) = IF 0 >= y THEN 0 ELSE y
  BY <1>1, MaxOfTwo
<1> QED
  BY <1>1, <1>2 DEF Clamp, y

LEMMA Quotient ==
  ASSUME NEW x \in Int, NEW n \in Nat \ {0}
  PROVE  /\ x \div n \in Int /\ n * (x \div n) <= x /\ x < n * (x \div n) + n
         /\ x >= 0 => x \div n >= 0
         /\ x % n = x - n * (x \div n)
<1>1. x \div n \in Int /\ x = n * (x \div n) + (x % n) /\ x % n \in 0..n - 1
  OBVIOUS
<1> DEFINE q == x \div n
           r == x % n
           m == n * q
<1>2. q \in Int /\ m \in Int /\ x = m + r /\ r \in 0..n - 1
  BY <1>1
<1>3. x >= 0 => q >= 0
  OBVIOUS
<1> HIDE DEF m, r, q
<1>4. m <= x /\ x < m + n /\ r = x - m
  BY <1>2
<1> QED
  BY <1>2, <1>3, <1>4 DEF m, r, q

LEMMA MaxWithZero ==
  ASSUME NEW S, IsFiniteSet(S), NEW g, DOMAIN g = S, \A x \in S : g[x] \in Int
  PROVE  Max({0} \cup {g[x] : x \in S}) \in Int
<1> DEFINE T == {g[x] : x \in S}
           D == {0} \cup T
<1>1. IsFiniteSet(T)
  BY ImageFinite
<1>2. T \subseteq Int
  OBVIOUS
<1> HIDE DEF T
<1>3. IsFiniteSet(D) /\ D # {} /\ D \subseteq Int
  <2>1. IsFiniteSet({0} \cup T)
    BY <1>1, FS_Singleton, FS_Union
  <2> QED
    BY <1>2, <2>1
<1> HIDE DEF D
<1>4. Max(D) \in Int
  BY <1>3, MaxIs
<1> QED
  BY <1>4 DEF D, T

LEMMA PoiFacts ==
  ASSUME NEW p, PoiOk(p)
  PROVE  /\ p.class \in {"ZONE", "IMBALANCE", "LEVEL"} /\ p.at \in Nat
         /\ p.lo \in Nat \ {0} /\ p.hi \in Nat /\ p.lo <= p.hi
         /\ p.class = "ZONE" => p.status \in {"FRESH", "TESTED", "MITIGATED", "BROKEN"}
         /\ p.class = "LEVEL" => p.kind \in DOMAIN KindRank
<1>1. CASE ZoneOk(p)
  <2>1. p.class = "ZONE"
    BY <1>1 DEF ZoneOk
  <2> QED
    BY <1>1, <2>1 DEF ZoneOk
<1>2. CASE ImbalanceOk(p)
  <2>1. p.class = "IMBALANCE"
    BY <1>2 DEF ImbalanceOk
  <2>2. p.at \in Nat /\ p.lo \in Nat \ {0} /\ p.hi \in Nat /\ p.lo < p.hi
    BY <1>2 DEF ImbalanceOk
  <2>3. p.lo <= p.hi
    BY <2>2
  <2> QED
    BY <2>1, <2>2, <2>3
<1>3. CASE LevelOk(p)
  BY <1>3 DEF LevelOk
<1> QED
  BY <1>1, <1>2, <1>3 DEF PoiOk

LEMMA FactorsAreInts ==
  ASSUME NEW pic, PictureOk(pic), NEW p \in pic.pois, NEW side
  PROVE  \A i \in 1..6 : Factors(p, side, pic)[i] \in Int
<1> DEFINE range == pic.range
           h4 == pic.h4
<1>1. /\ PoiOk(p) /\ RangeOk(range) /\ SnapshotOk(h4)
  BY DEF PictureOk
<1>2. /\ p.class \in {"ZONE", "IMBALANCE", "LEVEL"}
      /\ p.lo \in Nat \ {0} /\ p.hi \in Nat
      /\ p.class = "ZONE" => p.status \in {"FRESH", "TESTED", "MITIGATED", "BROKEN"}
  BY <1>1, PoiFacts
<1> HIDE DEF range, h4
<1>3. FactorPoiQuality(p) \in Int
  <2> DEFINE q == IF p.class = "ZONE" THEN (KindQuality["ZONE"] * StatusFactor[p.status]) \div 1000
                                      ELSE KindQuality[p.class]
  <2>1. KindQuality[p.class] \in Nat /\ KindQuality["ZONE"] \in Nat
        /\ (p.class = "ZONE" => StatusFactor[p.status] \in Nat)
    BY <1>2, BuilderAssumption
  <2>2. p.class = "ZONE" => (KindQuality["ZONE"] * StatusFactor[p.status]) \div 1000 \in Int
    <3> SUFFICES ASSUME p.class = "ZONE"
                 PROVE  (KindQuality["ZONE"] * StatusFactor[p.status]) \div 1000 \in Int
      OBVIOUS
    <3>1. KindQuality["ZONE"] * StatusFactor[p.status] \in Int
      BY <2>1
    <3> QED
      BY <3>1, Quotient
  <2>3. q \in Int
    BY <2>1, <2>2
  <2> HIDE DEF q
  <2>4. Clamp(q) \in Int
    BY <2>3, Clamped
  <2> QED
    BY <2>4 DEF FactorPoiQuality, q
<1>4. FactorPremiumDiscount(p, side, range) \in Int
  <2> DEFINE span  == range.high - range.low
             above == p.lo + p.hi - 2 * range.low
             want == 1000 * IF side = "LONG" THEN span - above ELSE above - span
             part == want \div span
             depth == Min({1000, part})
             c == 600 + (2 * depth) \div 5
  <2>1. FactorPremiumDiscount(p, side, range) =
          IF range = NoRange \/ depth < 0 THEN 0
          ELSE IF OteLow <= depth /\ depth <= OteHigh THEN 1000 ELSE Clamp(c)
    BY DEF FactorPremiumDiscount
  <2>2. CASE range = NoRange
    BY <2>1, <2>2
  <2>3. CASE range # NoRange
    <3>1. range.high \in Int /\ range.low \in Int /\ range.high > range.low
      BY <1>1, <2>3 DEF RangeOk
    <3>2. span \in Nat \ {0} /\ above \in Int
      BY <1>2, <3>1
    <3> HIDE DEF span, above
    <3>3. want \in Int
      BY <3>2
    <3> HIDE DEF want
    <3>4. part \in Int
      BY <3>2, <3>3, Quotient
    <3> HIDE DEF part
    <3>5. depth \in Int
      BY <3>4, MinOfTwo
    <3> HIDE DEF depth
    <3>6. (2 * depth) \div 5 \in Int
      <4>1. 2 * depth \in Int
        BY <3>5
      <4> QED
        BY <4>1, Quotient
    <3>7. c \in Int
      BY <3>6
    <3> HIDE DEF c
    <3>8. Clamp(c) \in Int
      BY <3>7, Clamped
    <3> QED
      BY <2>1, <3>8
  <2> QED
    BY <2>2, <2>3
<1>5. FactorLiquidity(p, side, h4) \in Int
  <2> DEFINE hits == {e \in h4.events : e.side = side /\ NearBand(p, 2 * e.price)}
             Strength(e) == ((IF e.high THEN 1000 ELSE 600)
                             * (IF Reclaimed(e) THEN 10 ELSE 7)) \div 10
             g == [e \in hits |-> Strength(e)]
  <2>1. FactorLiquidity(p, side, h4) = Max({0} \cup {g[e] : e \in hits})
    BY DEF FactorLiquidity
  <2>2. IsFiniteSet(hits)
    <3>1. hits \in SUBSET h4.events /\ IsFiniteSet(h4.events)
      BY <1>1 DEF SnapshotOk
    <3> HIDE DEF hits
    <3> QED
      BY <3>1, FS_Subset
  <2>3. \A e \in hits : g[e] \in Int
    <3> SUFFICES ASSUME NEW e \in hits PROVE Strength(e) \in Int
      OBVIOUS
    <3>1. (IF e.high THEN 1000 ELSE 600) * (IF Reclaimed(e) THEN 10 ELSE 7) \in Int
      OBVIOUS
    <3> QED
      BY <3>1, Quotient
  <2>4. DOMAIN g = hits
    OBVIOUS
  <2> HIDE DEF g, hits
  <2> QED
    BY <2>1, <2>2, <2>3, <2>4, MaxWithZero
<1>6. FactorLevel(p, h4, pic.d1) \in Int
  BY DEF FactorLevel
<1>7. FactorImbalance(p, side, h4) \in Int
  <2> DEFINE hits == {x \in h4.imbalances : x.side = side /\ NearBand(p, x.lo + x.hi)}
             Unfilled(m) == 1000 - (1000 * m.fill) \div (m.hi - m.lo)
             g == [m \in hits |-> Unfilled(m)]
  <2>1. FactorImbalance(p, side, h4) = Max({0} \cup {g[e] : e \in hits})
    <3>1. FactorImbalance(p, side, h4) = Max({0} \cup {Unfilled(m) : m \in hits})
      BY DEF FactorImbalance
    <3> HIDE DEF Unfilled
    <3> QED
      BY <3>1
  <2>2. IsFiniteSet(hits) /\ \A m \in hits : ImbalanceOk(m)
    <3>1. hits \in SUBSET h4.imbalances /\ IsFiniteSet(h4.imbalances)
          /\ \A m \in h4.imbalances : ImbalanceOk(m)
      BY <1>1 DEF SnapshotOk
    <3> HIDE DEF hits
    <3> QED
      BY <3>1, FS_Subset
  <2>3. \A m \in hits : g[m] \in Int
    <3> SUFFICES ASSUME NEW m \in hits PROVE 1000 - (1000 * m.fill) \div (m.hi - m.lo) \in Int
      OBVIOUS
    <3>0. m.fill \in Int /\ m.hi \in Nat /\ m.lo \in Nat /\ m.lo < m.hi
      BY <2>2 DEF ImbalanceOk
    <3>1. 1000 * m.fill \in Int /\ m.hi - m.lo \in Nat \ {0}
      BY <3>0
    <3> DEFINE x == 1000 * m.fill
               n == m.hi - m.lo
    <3>2. x \in Int /\ n \in Nat \ {0}
      BY <3>1
    <3> HIDE DEF x, n
    <3>3. x \div n \in Int
      BY <3>2, Quotient
    <3>4. 1000 - x \div n \in Int
      BY <3>3
    <3> QED
      BY <3>4 DEF x, n
  <2>4. DOMAIN g = hits
    OBVIOUS
  <2> HIDE DEF g, hits
  <2> QED
    BY <2>1, <2>2, <2>3, <2>4, MaxWithZero
<1>8. FactorClustering(p, pic.pois, h4) \in Int
  BY DEF FactorClustering
<1> DEFINE F == Factors(p, side, pic)
<1>9. /\ F[1] = FactorPoiQuality(p) /\ F[2] = FactorPremiumDiscount(p, side, range)
      /\ F[3] = FactorLiquidity(p, side, h4) /\ F[4] = FactorLevel(p, h4, pic.d1)
      /\ F[5] = FactorImbalance(p, side, h4) /\ F[6] = FactorClustering(p, pic.pois, h4)
  BY DEF Factors, range, h4
<1> HIDE DEF F
<1>10. \A i \in 1..6 : i \in {1, 2, 3, 4, 5, 6}
  OBVIOUS
<1>11. \A i \in 1..6 : F[i] \in Int
  BY <1>3, <1>4, <1>5, <1>6, <1>7, <1>8, <1>9, <1>10
<1> QED
  BY <1>11 DEF F

LEMMA ScoreIsInt ==
  ASSUME NEW factors, \A i \in 1..6 : factors[i] \in Int
  PROVE  Score(factors) \in Int
<1> DEFINE f == [i \in 1..6 |-> Weights[i] * factors[i]]
<1>1. \A i \in 1..6 : Weights[i] \in Nat
  BY BuilderAssumption, ElementOfSeq
<1>2. \A i \in 1..6 : f[i] \in Int
  BY <1>1
<1>3. IsFiniteSet(1..6) /\ DOMAIN f = 1..6
  <2> DEFINE n == 6
  <2>1. n \in Int
    OBVIOUS
  <2> HIDE DEF n
  <2>2. IsFiniteSet(1..n)
    BY <2>1, FS_Interval
  <2> QED
    BY <2>2 DEF n
<1> HIDE DEF f
<1>4. SumFunctionOnSet(f, 1..6) \in Int
  BY <1>2, <1>3, SumIsInt
<1>5. SumFunction(f) = SumFunctionOnSet(f, 1..6)
  BY <1>3 DEF SumFunction
<1>6. SumFunction(f) \div 100 \in Int
  BY <1>4, <1>5, Quotient
<1>7. Clamp(SumFunction(f) \div 100) \in Int
  BY <1>6, Clamped
<1> QED
  BY <1>7 DEF Score, f

-----------------------------------------------------------------------------
(* analyze: the inductive invariant of the stack *)

LEMMA BestPoiIn ==
  ASSUME NEW P, IsFiniteSet(P), P # {}, \A p \in P : PoiOk(p),
         NEW score, \A p \in P : score[p] \in Int
  PROVE  BestPoi(P, score) \in P
<1> DEFINE top == {p \in P : \A q \in P : score[q] <= score[p]}
           class == [p \in P |-> ClassRank[p.class]]
           at == [p \in P |-> p.at]
           kind == [p \in P |-> IF p.class = "LEVEL" THEN KindRank[p.kind] ELSE 0]
           First == {p \in top : \A q \in top : class[p] <= class[q]}
           Second == {p \in First : \A q \in First : at[p] <= at[q]}
<1>1. \A p \in P : /\ class[p] \in Int /\ at[p] \in Int /\ kind[p] \in Int
                   /\ class[p] = ClassRank[p.class] /\ at[p] = p.at
                   /\ (p.class = "LEVEL" => kind[p] = KindRank[p.kind])
  <2>1. \A c \in {"ZONE", "IMBALANCE", "LEVEL"} : ClassRank[c] \in Int
    BY DEF ClassRank
  <2>2. \A k \in DOMAIN KindRank : KindRank[k] \in Int
    BY DEF KindRank
  <2>3. \A p \in P : ClassRank[p.class] \in Int /\ p.at \in Int
                     /\ (p.class = "LEVEL" => KindRank[p.kind] \in Int)
    BY <2>1, <2>2, PoiFacts
  <2> QED
    BY <2>3
<1> HIDE DEF class, at, kind
<1>2. top # {} /\ top \subseteq P
  <2> DEFINE low == [p \in P |-> -score[p]]
  <2>1. \A p \in P : low[p] \in Int
    OBVIOUS
  <2>2. \E p \in P : \A q \in P : low[p] <= low[q]
    <3> HIDE DEF low
    <3> QED
      BY <2>1, MinOver
  <2> QED
    BY <2>2
<1>3. IsFiniteSet(top)
  BY <1>2, FS_Subset
<1> HIDE DEF top
<1>4. First # {} /\ First \subseteq top
  BY <1>1, <1>2, <1>3, MinOver
<1>5. IsFiniteSet(First)
  BY <1>3, <1>4, FS_Subset
<1> HIDE DEF First
<1>6. Second # {} /\ Second \subseteq First
  BY <1>1, <1>2, <1>4, <1>5, MinOver
<1>7. IsFiniteSet(Second)
  BY <1>5, <1>6, FS_Subset
<1> HIDE DEF Second
<1>8. PICK p \in Second : \A q \in Second : kind[p] <= kind[q]
  BY <1>1, <1>2, <1>4, <1>6, <1>7, MinOver
<1>9. p \in P /\ p \in top /\ p \in First
  BY <1>2, <1>4, <1>6
<1>10. ASSUME NEW q \in top, PoiBefore(q, p)
       PROVE  FALSE
  <2>1. q \in P /\ class[p] <= class[q]
    BY <1>2, <1>9 DEF First
  <2>2. class[q] <= class[p] => q \in First
    BY <1>1, <1>2, <1>9, <2>1 DEF First
  <2>3. q \in First => at[p] <= at[q]
    BY <1>8 DEF Second
  <2>4. q \in First /\ at[q] <= at[p] => q \in Second
    BY <1>1, <1>2, <1>8, <1>9, <2>1 DEF Second
  <2>5. q \in Second => kind[p] <= kind[q]
    BY <1>8
  <2>6. \/ class[q] < class[p]
        \/ q.class = p.class /\ at[q] < at[p]
        \/ /\ q.class = "LEVEL" /\ p.class = "LEVEL"
           /\ at[q] < at[p] \/ (at[q] = at[p] /\ kind[q] < kind[p])
    BY <1>1, <1>9, <1>10, <2>1 DEF PoiBefore, LevelBefore
  <2>7. q.class = p.class => class[q] = class[p]
    BY <1>1, <1>9, <2>1
  <2>8. /\ class[p] \in Int /\ class[q] \in Int /\ at[p] \in Int /\ at[q] \in Int
        /\ kind[p] \in Int /\ kind[q] \in Int
    BY <1>1, <1>9, <2>1
  <2> QED
    BY <2>1, <2>2, <2>3, <2>4, <2>5, <2>6, <2>7, <2>8
<1> DEFINE Best(b) == \A q \in top : ~PoiBefore(q, b)
<1>11. \E b \in top : Best(b)
  BY <1>9, <1>10
<1>12. (CHOOSE b \in top : Best(b)) \in top
  <2> HIDE DEF Best
  <2> QED
    BY <1>11
<1>13. BestPoi(P, score) = CHOOSE b \in top : Best(b)
  BY DEF BestPoi, top
<1> QED
  BY <1>2, <1>12, <1>13

-----------------------------------------------------------------------------
(* What build made of the picture p.                                       *)
Made(s, x, p) ==
    LET side == Direction(p.bias)
    IN /\ PoiOk(x) /\ p.bias \in {"BULLISH", "BEARISH"}
       /\ s.ok = TRUE /\ s.side = side /\ s.entry = Entry(x, side)
       /\ s.sl = StructuralSl(x, side) /\ s.dist = SlDistance(x, side) /\ ~(s.dist <= 0)
       /\ s.tp = TpLadder(x, side) /\ s.poi = x /\ s.bias = p.bias
       /\ s.rr = ComputeRr(s.entry, s.dist, s.tp[1], side)

LEMMA BuildMakes ==
  ASSUME NEW p, PictureOk(p), Build(p).ok
  PROVE  \E x \in p.pois : Made(Build(p), x, p)
<1> DEFINE side    == Direction(p.bias)
           pois    == CandidatePois(p, side)
           factors == [x \in pois |-> Factors(x, side, p)]
           score   == [x \in pois |-> Score(factors[x])]
           best    == BestPoi(pois, score)
           dist    == SlDistance(best, side)
           made    == MakeSetup(best, side, p, score[best], factors[best])
<1>1. /\ Build(p) \in {NoSetup("NO_HTF_BIAS"), NoSetup("NO_POI"), NoSetup("LOW_CONFLUENCE"),
                       NoSetup("SL_GEOMETRY_TOO_TIGHT"), NoSetup("SL_GEOMETRY_INVALID")}
      \/ /\ p.bias # "NEUTRAL" /\ pois # {} /\ ~(dist <= 0)
         /\ Build(p) = made
  BY DEF Build
<1>2. \A r : ~NoSetup(r).ok
  BY DEF NoSetup
<1>3. p.bias # "NEUTRAL" /\ pois # {} /\ ~(dist <= 0) /\ Build(p) = made
  <2> HIDE DEF pois, dist, made
  <2> QED
    BY <1>1, <1>2
<1>4. pois \subseteq p.pois /\ IsFiniteSet(pois) /\ \A x \in pois : PoiOk(x)
  <2>1. pois \in SUBSET p.pois
    BY DEF CandidatePois
  <2>2. IsFiniteSet(p.pois) /\ \A x \in p.pois : PoiOk(x)
    BY DEF PictureOk
  <2> HIDE DEF pois
  <2> QED
    BY <2>1, <2>2, FS_Subset
<1> HIDE DEF pois
<1>5. \A x \in pois : score[x] \in Int
  <2> SUFFICES ASSUME NEW x \in pois PROVE Score(Factors(x, side, p)) \in Int
    OBVIOUS
  <2>1. \A i \in 1..6 : Factors(x, side, p)[i] \in Int
    BY <1>4, FactorsAreInts
  <2> QED
    BY <2>1, ScoreIsInt
<1> HIDE DEF score, factors
<1>6. best \in pois
  BY <1>3, <1>4, <1>5, BestPoiIn
<1>7. p.bias \in {"BULLISH", "BEARISH"}
  BY <1>3 DEF PictureOk, Biases
<1> HIDE DEF best, side
<1>8. /\ made.ok = TRUE /\ made.side = side /\ made.entry = Entry(best, side)
      /\ made.sl = StructuralSl(best, side) /\ made.dist = SlDistance(best, side)
      /\ made.tp = TpLadder(best, side) /\ made.poi = best /\ made.bias = p.bias
      /\ made.rr = ComputeRr(made.entry, made.dist, made.tp[1], side)
  BY DEF MakeSetup
<1> HIDE DEF made
<1>9. Made(made, best, p)
  BY <1>3, <1>4, <1>6, <1>7, <1>8 DEF Made, side
<1> QED
  BY <1>3, <1>4, <1>6, <1>9

-----------------------------------------------------------------------------
StackInv ==
    /\ SeriesInv /\ CacheOk(cache) /\ PictureOk(picture)
    /\ setup = Build(picture)
    /\ \E account \in Accounts : verdict = Answer(setup, account)

LEMMA FramesAreOk ==
  ASSUME NEW s, Good(s)
  PROVE  FramesOk(Frames(s))
  BY FramesGood DEF FramesOk

LEMMA ObservedIs ==
  ASSUME NEW s, NEW c, NEW account, NEW seen, seen = Observed(s, c, account)
  PROVE  /\ seen.cache = Analyze(Frames(s), c).cache
         /\ seen.picture = Analyze(Frames(s), c).picture
         /\ seen.setup = Build(seen.picture)
         /\ seen.verdict = Answer(seen.setup, account)
  BY DEF Observed, Built

(* A step appends one bar and observes.                                    *)
LEMMA StepIs ==
  ASSUME Next
  PROVE  \E m \in Moves, account \in Accounts :
           /\ series' = NextSeries(series, m) /\ LastLow(NextSeries(series, m)) > 0
           /\ cache' = Analyze(Frames(series'), cache).cache
           /\ picture' = Analyze(Frames(series'), cache).picture
           /\ setup' = Build(picture') /\ verdict' = Answer(setup', account)
<1>1. PICK m \in Moves, account \in Accounts :
        LET s == NextSeries(series, m)
        IN /\ LastLow(s) > 0
           /\ \E seen \in {Observed(s, cache, account)} :
                /\ series' = s
                /\ cache' = seen.cache
                /\ picture' = seen.picture
                /\ setup' = seen.setup
                /\ verdict' = seen.verdict
  BY DEF Next, NextM15, NextSeries
<1> DEFINE s == NextSeries(series, m)
<1>2. PICK seen \in {Observed(s, cache, account)} :
        /\ series' = s
        /\ cache' = seen.cache
        /\ picture' = seen.picture
        /\ setup' = seen.setup
        /\ verdict' = seen.verdict
  BY <1>1
<1> HIDE DEF s
<1>3. /\ seen.cache = Analyze(Frames(s), cache).cache
      /\ seen.picture = Analyze(Frames(s), cache).picture
      /\ seen.setup = Build(seen.picture)
      /\ seen.verdict = Answer(seen.setup, account)
  BY <1>2, ObservedIs
<1>4. series' = NextSeries(series, m) /\ LastLow(NextSeries(series, m)) > 0
  BY <1>1, <1>2 DEF s
<1>5. /\ cache' = Analyze(Frames(series'), cache).cache
      /\ picture' = Analyze(Frames(series'), cache).picture
      /\ setup' = Build(picture') /\ verdict' = Answer(setup', account)
  BY <1>2, <1>3
<1> QED
  BY <1>4, <1>5

(* Every state is an observation of its series.                            *)
LEMMA StackAlways == Spec => []StackInv
<1>1. Init => StackInv
  <2> SUFFICES ASSUME Init PROVE StackInv
    OBVIOUS
  <2>1. PICK s \in Histories, account \in Accounts :
          /\ series = s
          /\ cache = Observed(s, NoCache, account).cache
          /\ picture = Observed(s, NoCache, account).picture
          /\ setup = Observed(s, NoCache, account).setup
          /\ verdict = Observed(s, NoCache, account).verdict
    BY DEF Init
  <2>2. CacheOk(NoCache)
    BY DEF CacheOk, NoCache
  <2>3. SeriesInv /\ FramesOk(Frames(s))
    BY <2>1, ReplayAssumption, FramesAreOk DEF SeriesInv, Good
  <2>4. /\ cache = Analyze(Frames(s), NoCache).cache
        /\ picture = Analyze(Frames(s), NoCache).picture
        /\ setup = Build(picture) /\ verdict = Answer(setup, account)
    BY <2>1, ObservedIs
  <2> QED
    BY <2>2, <2>3, <2>4, AnalyzeOk DEF StackInv
<1>2. StackInv /\ SeriesInv' /\ [Next]_vars => StackInv'
  <2> SUFFICES ASSUME StackInv, SeriesInv', [Next]_vars
               PROVE  StackInv'
    OBVIOUS
  <2>1. CASE Next
    <3>1. PICK account \in Accounts :
            /\ cache' = Analyze(Frames(series'), cache).cache
            /\ picture' = Analyze(Frames(series'), cache).picture
            /\ setup' = Build(picture') /\ verdict' = Answer(setup', account)
      BY <2>1, StepIs
    <3>2. FramesOk(Frames(series')) /\ CacheOk(cache)
      <4> DEFINE s == series'
      <4>1. Good(s)
        BY DEF SeriesInv
      <4> HIDE DEF s
      <4>2. FramesOk(Frames(s))
        BY <4>1, FramesAreOk
      <4> QED
        BY <4>2 DEF StackInv, s
    <3>4. PictureOk(picture') /\ CacheOk(cache')
      <4> DEFINE frames == Frames(series')
                 p == picture'
                 c == cache'
      <4>1. p = Analyze(frames, cache).picture /\ c = Analyze(frames, cache).cache
        BY <3>1
      <4>2. FramesOk(frames) /\ CacheOk(cache)
        BY <3>2
      <4> HIDE DEF frames, p, c
      <4>3. PictureOk(p) /\ CacheOk(c)
        BY <4>1, <4>2, AnalyzeOk
      <4> QED
        BY <4>3 DEF p, c
    <3> QED
      BY <3>1, <3>4 DEF StackInv
  <2>2. CASE UNCHANGED vars
    BY <2>2 DEF vars, StackInv, SeriesInv
  <2> QED
    BY <2>1, <2>2
<1> QED
  BY <1>1, <1>2, SeriesAlwaysGood, PTL DEF Spec

-----------------------------------------------------------------------------
(* The setup builder and the sizing *)

(* Without any buffer a stop could sit inside the band it should lie       *)
(* beyond: the two buffers are not both zero.                              *)
Buffered == SlBandBuffer > 0 \/ SlAbsBuffer > 0

LEMMA Exact ==
  ASSUME NEW m \in Nat, NEW d \in Nat \ {0}
  PROVE  (m * d) \div d = m
<1> DEFINE x == m * d
           q == x \div d
<1>1. x \in Nat
  OBVIOUS
<1>2. q \in Int /\ d * q <= x /\ x < d * q + d
  <2> HIDE DEF x
  <2> QED
    BY <1>1, Quotient
<1> HIDE DEF q
<1>3. q < m => q * d + d <= m * d
  BY <1>2, Times
<1>4. m < q => m * d + d <= q * d
  BY <1>2, Times
<1>5. d * q = q * d /\ q * d \in Int /\ m * d = x
  BY <1>2
<1> HIDE DEF x
<1>6. ~(q < m) /\ ~(m < q)
  BY <1>1, <1>2, <1>3, <1>4, <1>5
<1>7. q = m
  BY <1>2, <1>6
<1> QED
  BY <1>7 DEF q, x

LEMMA Scales ==
  ASSUME NEW m \in Nat \ {0}, NEW d \in Nat \ {0}
  PROVE  m * d \in Nat \ {0}
<1>1. (m - 1) * d >= 0
  <2>1. m - 1 \in Nat
    OBVIOUS
  <2> QED
    BY <2>1
<1>2. (m - 1) * d = m * d - d
  OBVIOUS
<1>3. m * d \in Int
  OBVIOUS
<1> QED
  BY <1>1, <1>2, <1>3

(* The stop and its distance.                                              *)
LEMMA StopIs ==
  ASSUME NEW x, PoiOk(x), NEW side \in Sides
  PROVE  /\ Entry(x, side) \in x.lo..x.hi /\ Entry(x, side) \in Nat \ {0}
         /\ SlBuffer(x, side) \in Nat
         /\ StructuralSl(x, side) =
               IF side = "LONG" THEN PriceUnit * x.lo - SlBuffer(x, side)
                                ELSE PriceUnit * x.hi + SlBuffer(x, side)
         /\ SlDistance(x, side) = PriceUnit * (x.hi - x.lo) + SlBuffer(x, side)
         /\ Buffered /\ SlDistance(x, side) > 0 => SlBuffer(x, side) > 0
<1> DEFINE e == Entry(x, side)
           lo == x.lo
           hi == x.hi
           a == SlBandBuffer * (hi - lo)
           b == SlAbsBuffer * e
           buf == SlBuffer(x, side)
           sl == StructuralSl(x, side)
           dist == SlDistance(x, side)
<1>1. lo \in Nat \ {0} /\ hi \in Nat /\ lo <= hi
  BY PoiFacts
<1>2. e = IF side = "LONG" THEN hi ELSE lo
  BY DEF Entry
<1>3. buf = Max({a, b})
  BY DEF SlBuffer
<1>4. sl = IF side = "LONG" THEN PriceUnit * lo - buf ELSE PriceUnit * hi + buf
  BY DEF StructuralSl
<1>5. dist = Distance(PriceUnit * e, sl)
  BY DEF SlDistance
<1>6. SlBandBuffer \in Nat /\ SlAbsBuffer \in Nat /\ PriceUnit = 1000
  BY BuilderAssumption DEF PriceUnit
<1> HIDE DEF e, lo, hi, buf, sl, dist
<1>7. e \in lo..hi /\ e \in Nat \ {0}
  BY <1>1, <1>2
<1>8. /\ a \in Nat /\ b \in Nat
      /\ (SlAbsBuffer > 0 => b > 0) /\ (SlBandBuffer > 0 /\ lo < hi => a > 0)
  <2>1. /\ hi - lo \in Nat
    BY <1>1
  <2>2. a \in Nat /\ b \in Nat
    BY <1>6, <1>7, <2>1
  <2>3. SlAbsBuffer > 0 => b > 0
    BY <1>6, <1>7, Scales
  <2>4. SlBandBuffer > 0 /\ lo < hi => a > 0
    <3> SUFFICES ASSUME SlBandBuffer > 0, lo < hi PROVE a > 0
      OBVIOUS
    <3> DEFINE w == hi - lo
    <3>1. w \in Nat \ {0} /\ SlBandBuffer \in Nat \ {0}
      BY <1>1, <1>6
    <3> HIDE DEF w
    <3>2. SlBandBuffer * w \in Nat \ {0}
      BY <3>1, Scales
    <3> QED
      BY <3>2 DEF w
  <2> QED
    BY <2>2, <2>3, <2>4
<1> HIDE DEF a, b
<1>9. buf \in Nat /\ a <= buf /\ b <= buf
  BY <1>3, <1>8, MaxOfTwo
<1>10. dist = PriceUnit * (hi - lo) + buf
  <2>1. CASE side = "LONG"
    <3>1. e = hi /\ sl = 1000 * lo - buf
      BY <1>2, <1>4, <1>6, <2>1
    <3>2. 1000 * hi \in Int /\ sl \in Int /\ 1000 * hi >= sl
      BY <1>1, <1>9, <3>1
    <3>3. dist = 1000 * hi - sl
      BY <1>5, <1>6, <3>1, <3>2, DistanceIs
    <3> QED
      BY <1>1, <1>6, <1>9, <3>1, <3>3
  <2>2. CASE side # "LONG"
    <3>1. e = lo /\ sl = 1000 * hi + buf
      BY <1>2, <1>4, <1>6, <2>2
    <3>2. 1000 * lo \in Int /\ sl \in Int /\ 1000 * lo <= sl
      BY <1>1, <1>9, <3>1
    <3>3. dist = sl - 1000 * lo
      BY <1>5, <1>6, <3>1, <3>2, DistanceIs
    <3> QED
      BY <1>1, <1>6, <1>9, <3>1, <3>3
  <2> QED
    BY <2>1, <2>2
<1>11. Buffered /\ dist > 0 => buf > 0
  <2>1. lo = hi => dist = buf
    BY <1>1, <1>6, <1>9, <1>10
  <2> QED
    BY <1>1, <1>8, <1>9, <2>1 DEF Buffered
<1> QED
  BY <1>4, <1>7, <1>9, <1>10, <1>11 DEF e, lo, hi, buf, sl, dist

LEMMA SetupFacts ==
  ASSUME NEW s, NEW x, NEW p, Made(s, x, p)
  PROVE  /\ s.ok /\ s.poi = x /\ s.side \in Sides /\ s.side = Direction(s.bias)
         /\ s.bias = IF s.side = "LONG" THEN "BULLISH" ELSE "BEARISH"
         /\ s.entry \in x.lo..x.hi /\ s.entry \in Nat \ {0} /\ s.sl \in Int
         /\ s.dist \in Nat \ {0}
         /\ s.side = "LONG" => s.sl = PriceUnit * s.entry - s.dist
         /\ s.side = "SHORT" => s.sl = PriceUnit * s.entry + s.dist
         /\ Buffered => s.sl \notin PriceUnit * x.lo..PriceUnit * x.hi
         /\ DOMAIN s.tp = DOMAIN TpMultiples
         /\ \A k \in DOMAIN s.tp :
               s.tp[k] = IF s.side = "LONG" THEN TpUnit * s.entry + TpMultiples[k] * s.dist
                                            ELSE TpUnit * s.entry - TpMultiples[k] * s.dist
         /\ s.rr = TpMultiples[1]
<1> DEFINE side == Direction(p.bias)
           buf == SlBuffer(x, side)
           lo == x.lo
           hi == x.hi
<1>1. /\ PoiOk(x) /\ p.bias \in {"BULLISH", "BEARISH"}
      /\ s.ok = TRUE /\ s.side = side /\ s.entry = Entry(x, side)
      /\ s.sl = StructuralSl(x, side) /\ s.dist = SlDistance(x, side) /\ ~(s.dist <= 0)
      /\ s.tp = TpLadder(x, side) /\ s.poi = x /\ s.bias = p.bias
      /\ s.rr = ComputeRr(s.entry, s.dist, s.tp[1], side)
  BY DEF Made
<1>2. /\ side \in Sides /\ p.bias = IF side = "LONG" THEN "BULLISH" ELSE "BEARISH"
  BY <1>1 DEF Direction, Sides
<1>3. lo \in Nat \ {0} /\ hi \in Nat /\ lo <= hi /\ PriceUnit = 1000
  BY <1>1, PoiFacts DEF PriceUnit
<1>4. /\ s.entry \in lo..hi /\ s.entry \in Nat \ {0} /\ buf \in Nat
      /\ s.sl = IF side = "LONG" THEN PriceUnit * lo - buf ELSE PriceUnit * hi + buf
      /\ s.dist = PriceUnit * (hi - lo) + buf
      /\ (Buffered /\ s.dist > 0 => buf > 0)
  BY <1>1, <1>2, StopIs
<1>5. s.entry = IF side = "LONG" THEN hi ELSE lo
  BY <1>1 DEF Entry
<1>6. /\ \A k \in DOMAIN s.tp :
           s.tp[k] = IF side = "LONG" THEN TpUnit * s.entry + TpMultiples[k] * s.dist
                                      ELSE TpUnit * s.entry - TpMultiples[k] * s.dist
      /\ DOMAIN s.tp = DOMAIN TpMultiples
  BY <1>1 DEF TpLadder
<1> HIDE DEF buf, lo, hi
<1>7. s.dist \in Nat \ {0} /\ s.sl \in Int
  BY <1>1, <1>3, <1>4
<1>8. /\ side = "LONG" => s.sl = PriceUnit * s.entry - s.dist
      /\ side # "LONG" => s.sl = PriceUnit * s.entry + s.dist
  BY <1>3, <1>4, <1>5
<1>9. Buffered => s.sl \notin PriceUnit * lo..PriceUnit * hi
  BY <1>3, <1>4, <1>7
<1>10. s.rr = TpMultiples[1]
  <2> DEFINE m == TpMultiples[1]
             d == s.dist
             u == TpUnit * s.entry
  <2>1. 1 \in DOMAIN TpMultiples /\ m \in Nat
    <3>1. TpMultiples \in Seq(Nat \ {0}) /\ TpMultiples # <<>>
      BY BuilderAssumption
    <3>2. Len(TpMultiples) \in Nat \ {0} /\ DOMAIN TpMultiples = 1..Len(TpMultiples)
      BY <3>1, LenProperties, EmptySeq
    <3>3. 1 \in 1..Len(TpMultiples)
      BY <3>2
    <3> QED
      BY <3>1, <3>2, <3>3, ElementOfSeq
  <2>2. s.tp[1] = IF side = "LONG" THEN u + m * d ELSE u - m * d
    BY <1>6, <2>1
  <2>3. s.rr = (IF side = "LONG" THEN s.tp[1] - u ELSE u - s.tp[1]) \div d
    BY <1>1 DEF ComputeRr
  <2>4. u \in Int /\ d \in Nat \ {0}
    BY <1>4, <1>7 DEF TpUnit
  <2> HIDE DEF u, m, d
  <2> DEFINE z == m * d
  <2>5. z \in Int
    BY <2>1, <2>4
  <2> HIDE DEF z
  <2>6. (IF side = "LONG" THEN s.tp[1] - u ELSE u - s.tp[1]) = z
    BY <2>2, <2>4, <2>5 DEF z
  <2>7. s.rr = z \div d
    BY <2>3, <2>6
  <2>8. z \div d = m
    BY <2>1, <2>4, Exact DEF z
  <2> QED
    BY <2>7, <2>8 DEF m
<1> QED
  BY <1>1, <1>2, <1>4, <1>6, <1>7, <1>8, <1>9, <1>10 DEF Sides, lo, hi

LEMMA FiniteUpTo ==
  \A n \in Nat : \A S \in SUBSET (1..n) : IsFiniteSet(S) /\ S \subseteq Int
<1> SUFFICES ASSUME NEW n \in Nat, NEW S \in SUBSET (1..n)
             PROVE  IsFiniteSet(S) /\ S \subseteq Int
  OBVIOUS
<1>1. IsFiniteSet(1..n)
  BY FS_Interval
<1>2. IsFiniteSet(S)
  BY <1>1, FS_Subset
<1>3. S \subseteq Int
  OBVIOUS
<1> QED
  BY <1>2, <1>3

LEMMA GateThatRejects ==
  ASSUME NEW s, NEW account, Validate(s, account) # Passed
  PROVE  \E i \in DOMAIN GateOrder : /\ Validate(s, account) = GateOrder[i]
                                     /\ Rejects(GateOrder[i], s, account)
<1> DEFINE failing == {i \in DOMAIN GateOrder : Rejects(GateOrder[i], s, account)}
<1>1. failing # {} /\ Validate(s, account) = GateOrder[Min(failing)]
  BY DEF Validate
<1>2. DOMAIN GateOrder \subseteq 1..10
  BY DEF GateOrder
<1>3. IsFiniteSet(failing) /\ failing \subseteq Int
  <2>1. failing \in SUBSET (1..10) /\ 10 \in Nat
    BY <1>2
  <2> HIDE DEF failing
  <2> QED
    BY <2>1, FiniteUpTo
<1>4. Min(failing) \in failing
  <2> HIDE DEF failing
  <2> QED
    BY <1>1, <1>3, MinIs
<1> QED
  BY <1>1, <1>4

(* What build makes trades with the bias, stops beyond its entry and its   *)
(* POI, takes profit in order, and cannot fail the regime, no_sl and (for  *)
(* a first multiple that reaches it) min_rr gates (SetupSound). A buffer   *)
(* of zero would let the stop touch the band.                              *)
THEOREM SetupAlwaysSound == ASSUME Buffered PROVE Spec => []SetupSound
<1>1. StackInv => SetupSound
  <2> SUFFICES ASSUME StackInv, setup.ok
               PROVE  LET dir == IF setup.side = "LONG" THEN 1 ELSE -1
                      IN /\ setup.side = Direction(setup.bias)
                         /\ dir * (PriceUnit * setup.entry - setup.sl) > 0
                         /\ setup.sl \notin PriceUnit * setup.poi.lo..PriceUnit * setup.poi.hi
                         /\ setup.entry \in setup.poi.lo..setup.poi.hi
                         /\ \A k \in DOMAIN setup.tp :
                               dir * (setup.tp[k] - TpUnit * setup.entry) > 0
                         /\ setup.rr = TpMultiples[1]
                         /\ verdict \notin {"regime", "no_sl"} \cup
                                           IF TpMultiples[1] >= MinRr THEN {"min_rr"} ELSE {}
    BY DEF SetupSound
  <2>1. PICK x \in picture.pois : Made(setup, x, picture)
    BY BuildMakes DEF StackInv
  <2> DEFINE s == setup
             dir == IF s.side = "LONG" THEN 1 ELSE -1
  <2>2. /\ s.ok /\ s.poi = x /\ s.side \in Sides /\ s.side = Direction(s.bias)
        /\ s.bias = IF s.side = "LONG" THEN "BULLISH" ELSE "BEARISH"
        /\ s.entry \in x.lo..x.hi /\ s.entry \in Nat \ {0} /\ s.sl \in Int
        /\ s.dist \in Nat \ {0}
        /\ (s.side = "LONG" => s.sl = PriceUnit * s.entry - s.dist)
        /\ (s.side = "SHORT" => s.sl = PriceUnit * s.entry + s.dist)
        /\ s.sl \notin PriceUnit * x.lo..PriceUnit * x.hi
        /\ DOMAIN s.tp = DOMAIN TpMultiples
        /\ \A k \in DOMAIN s.tp :
              s.tp[k] = IF s.side = "LONG" THEN TpUnit * s.entry + TpMultiples[k] * s.dist
                                           ELSE TpUnit * s.entry - TpMultiples[k] * s.dist
        /\ s.rr = TpMultiples[1]
    BY <2>1, SetupFacts
  <2> HIDE DEF s
  <2>3. /\ PriceUnit * s.entry \in Int /\ TpUnit * s.entry \in Int
        /\ (s.side = "LONG" /\ dir = 1) \/ (s.side = "SHORT" /\ dir = -1)
    BY <2>2 DEF PriceUnit, TpUnit, Sides
  <2>4. dir * (PriceUnit * s.entry - s.sl) = s.dist
    BY <2>2, <2>3
  <2>5. ASSUME NEW k \in DOMAIN s.tp
        PROVE  dir * (s.tp[k] - TpUnit * s.entry) > 0
    <3> DEFINE z == TpMultiples[k] * s.dist
               u == TpUnit * s.entry
    <3>1. TpMultiples[k] \in Nat \ {0}
      <4>1. TpMultiples \in Seq(Nat \ {0}) /\ k \in 1..Len(TpMultiples)
        BY <2>2, BuilderAssumption, LenProperties
      <4> QED
        BY <4>1, ElementOfSeq
    <3>2. z \in Nat \ {0}
      BY <2>2, <3>1, Scales
    <3>3. s.tp[k] = IF s.side = "LONG" THEN u + z ELSE u - z
      BY <2>2
    <3>4. u \in Int
      BY <2>3
    <3> HIDE DEF z, u
    <3>5. dir * (s.tp[k] - u) = z
      BY <2>3, <3>2, <3>3, <3>4
    <3> QED
      BY <3>2, <3>5 DEF u
  <2>6. verdict \notin {"regime", "no_sl"} \cup
                       IF TpMultiples[1] >= MinRr THEN {"min_rr"} ELSE {}
    <3>1. PICK account \in Accounts : verdict = Validate(s, account)
      BY <2>2 DEF StackInv, Answer, s
    <3>2. ~WrongRegime(s)
      BY <2>2 DEF WrongRegime
    <3>3. ~BadStop(s)
      BY <2>2, <2>3 DEF BadStop, Sides
    <3>4. TpMultiples[1] >= MinRr => ~(s.rr < MinRr)
      <4>1. TpMultiples[1] \in Nat
        <5>1. TpMultiples \in Seq(Nat \ {0}) /\ TpMultiples # <<>>
          BY BuilderAssumption
        <5>2. Len(TpMultiples) \in Nat \ {0}
          BY <5>1, LenProperties, EmptySeq
        <5>3. 1 \in 1..Len(TpMultiples)
          BY <5>2
        <5> QED
          BY <5>1, <5>3, ElementOfSeq
      <4> QED
        BY <2>2, <4>1, GuardAssumption
    <3>5. CASE verdict = Passed
      BY <3>5 DEF Passed
    <3>6. CASE verdict # Passed
      <4>1. PICK i \in DOMAIN GateOrder : verdict = GateOrder[i] /\ Rejects(GateOrder[i], s, account)
        BY <3>1, <3>6, GateThatRejects
      <4>2. Rejects(verdict, s, account)
        BY <4>1
      <4>3. ~Rejects("regime", s, account) /\ ~Rejects("no_sl", s, account)
            /\ (Rejects("min_rr", s, account) => s.rr < MinRr)
        BY <3>2, <3>3 DEF Rejects
      <4> QED
        BY <3>4, <4>2, <4>3
    <3> QED
      BY <3>5, <3>6
  <2> QED
    BY <2>2, <2>4, <2>5, <2>6 DEF s
<1> QED
  BY <1>1, StackAlways, PTL


-----------------------------------------------------------------------------
(* Quantizing moves a price by at most half a tick.                        *)
LEMMA QuantizeNear ==
  ASSUME NEW x \in Int
  PROVE  /\ Quantize(x, TickSize) \in Int
         /\ 2 * (Quantize(x, TickSize) - x) <= TickSize
         /\ 2 * (x - Quantize(x, TickSize)) <= TickSize
<1> DEFINE k == TickSize
           n == x \div k
           r == x % k
           z == k * n
<1>1. k \in Nat \ {0}
  BY GuardAssumption
<1> HIDE DEF k
<1>2. n \in Int /\ z <= x /\ x < z + k /\ r = x - z
  BY <1>1, Quotient
<1> HIDE DEF n, r
<1>3. z \in Int /\ n * k = z /\ (n + 1) * k = z + k
  BY <1>1, <1>2
<1> HIDE DEF z
<1>4. Quantize(x, k) = IF 2 * r > k THEN z + k ELSE z
  BY <1>3 DEF Quantize, n, r
<1> QED
  BY <1>1, <1>2, <1>3, <1>4 DEF k

LEMMA Grows ==
  ASSUME NEW a \in Int, NEW b \in Int, a <= b, NEW n \in Nat
  PROVE  n * a <= n * b
<1>1. n * (b - a) >= 0
  <2>1. b - a \in Nat
    OBVIOUS
  <2> QED
    BY <2>1
<1>2. n * (b - a) = n * b - n * a
  OBVIOUS
<1>3. n * a \in Int /\ n * b \in Int
  OBVIOUS
<1> QED
  BY <1>1, <1>2, <1>3

(* A position sized for a setup loses at most the risk budget and one tick *)
(* per lot at the prices place_order quantizes (RiskWithinTick).           *)
THEOREM RiskAlwaysWithinTick == Spec => []RiskWithinTick
<1>1. StackInv => RiskWithinTick
  <2> SUFFICES ASSUME StackInv, setup.ok
               PROVE  LET size == CalcPositionSize(setup.entry, setup.dist, Margin).lots * LotSize
                          moved == Distance(Quantize(PriceUnit * setup.entry, TickSize),
                                            Quantize(setup.sl, TickSize))
                      IN size * moved <= RiskDollar * PriceUnit + size * TickSize
    BY DEF RiskWithinTick
  <2>1. PICK x \in picture.pois : Made(setup, x, picture)
    BY BuildMakes DEF StackInv
  <2> DEFINE e == PriceUnit * setup.entry
             sl == setup.sl
             d == setup.dist
             lots == Lots(RiskDollar, d)
             bought == CalcPositionSize(setup.entry, d, Margin).lots
             size == bought * LotSize
             qe == Quantize(e, TickSize)
             qs == Quantize(sl, TickSize)
             moved == Distance(qe, qs)
             budget == RiskDollar * PriceUnit
  <2>2. /\ e \in Int /\ sl \in Int /\ d \in Nat \ {0} /\ (sl = e - d \/ sl = e + d)
    <3>1. /\ setup.side \in Sides /\ setup.entry \in Nat \ {0} /\ sl \in Int /\ d \in Nat \ {0}
          /\ (setup.side = "LONG" => sl = e - d)
          /\ (setup.side = "SHORT" => sl = e + d)
      BY <2>1, SetupFacts
    <3> QED
      BY <3>1 DEF Sides, PriceUnit
  <2>3. /\ TickSize \in Nat \ {0} /\ LotSize \in Nat \ {0} /\ RiskDollar \in Nat
        /\ budget \in Nat
    BY GuardAssumption DEF PriceUnit
  <2>4. bought \in {0, lots}
    BY DEF CalcPositionSize
  <2>5. lots \in Nat /\ lots * LotSize * d <= budget
    <3> DEFINE n == d * LotSize
    <3>1. n \in Nat \ {0}
      BY <2>2, <2>3, Scales
    <3>2. lots = budget \div n
      BY DEF Lots
    <3> HIDE DEF n, lots, budget
    <3>3. lots \in Int /\ n * lots <= budget /\ lots >= 0
      BY <2>3, <3>1, <3>2, Quotient
    <3> HIDE DEF d
    <3>4. n * lots = lots * LotSize * d
      BY <2>2, <2>3, <3>3 DEF n
    <3> QED
      BY <3>3, <3>4
  <2> HIDE DEF lots, bought, budget, e, sl, d
  <2>6. size \in Nat /\ size * d <= budget
    <3>1. CASE bought = 0
      BY <2>2, <2>3, <3>1
    <3>2. CASE bought = lots
      BY <2>3, <2>5, <3>2
    <3> QED
      BY <2>4, <3>1, <3>2
  <2> HIDE DEF size
  <2>7. moved \in Int /\ moved <= d + TickSize
    <3>1. /\ qe \in Int /\ 2 * (qe - e) <= TickSize /\ 2 * (e - qe) <= TickSize
          /\ qs \in Int /\ 2 * (qs - sl) <= TickSize /\ 2 * (sl - qs) <= TickSize
      BY <2>2, QuantizeNear
    <3> HIDE DEF qe, qs
    <3>2. moved = IF qe >= qs THEN qe - qs ELSE qs - qe
      BY <3>1 DEF Distance
    <3> HIDE DEF moved
    <3> QED
      BY <2>2, <2>3, <3>1, <3>2
  <2> HIDE DEF moved
  <2>8. size * moved <= size * (d + TickSize)
    <3>1. d + TickSize \in Int
      BY <2>2, <2>3
    <3> QED
      BY <2>6, <2>7, <3>1, Grows
  <2>9. size * (d + TickSize) = size * d + size * TickSize /\ size * d \in Int
        /\ size * TickSize \in Int /\ size * moved \in Int
    BY <2>2, <2>3, <2>6, <2>7
  <2>10. size * moved <= budget + size * TickSize
    BY <2>3, <2>6, <2>8, <2>9
  <2> QED
    BY <2>10 DEF size, moved, budget, e, sl, d, bought
<1> QED
  BY <1>1, StackAlways, PTL

-----------------------------------------------------------------------------
(* A frame is determined by its bars *)

(* A frame is determined by its bars.                                      *)
LEMMA BarsOfKept ==
  ASSUME NEW f, Good(f), NEW S
  PROVE  ToSet(Kept(f, S)) = {f[i] : i \in S \cap DOMAIN f}
<1>1. f \in Seq(Candles) /\ DOMAIN f = 1..Len(f)
  BY FrameFacts DEF Good
<1> DEFINE K == Kept(f, S)
<1>2. K \in Seq(Candles) /\ \E at : Places(at, K, f, S)
  BY <1>1, KeptPositions
<1> HIDE DEF K
<1>3. PICK at : Places(at, K, f, S)
  BY <1>2
<1>4. DOMAIN K = 1..Len(K)
  BY <1>2, LenProperties
<1>5. /\ \A k \in 1..Len(K) : at[k] \in S \cap (1..Len(f)) /\ K[k] = f[at[k]]
      /\ \A i \in S \cap (1..Len(f)) : \E k \in 1..Len(K) : at[k] = i
  BY <1>3 DEF Places
<1> QED
  BY <1>1, <1>4, <1>5 DEF ToSet, K

LEMMA Prefixed ==
  ASSUME NEW F, Good(F), NEW G, Good(G), ToSet(F) = ToSet(G)
  PROVE  Len(F) <= Len(G) /\ \A i \in 1..Len(F) : F[i] = G[i]
<1> DEFINE n == Len(F)
           T == {k \in 0..n : k <= Len(G) /\ \A i \in 1..k : F[i] = G[i]}
<1>1. /\ n \in Nat /\ DOMAIN F = 1..n /\ Len(G) \in Nat /\ DOMAIN G = 1..Len(G)
      /\ \A i \in 1..n : F[i].t \in Nat
      /\ \A i \in 1..Len(G) : G[i].t \in Nat
      /\ \A i, j \in 1..n : i < j => F[i].t < F[j].t
      /\ \A i, j \in 1..Len(G) : i < j => G[i].t < G[j].t
  BY FrameFacts
<1>2. /\ \A i \in 1..n : \E j \in 1..Len(G) : G[j] = F[i]
      /\ \A j \in 1..Len(G) : \E i \in 1..n : F[i] = G[j]
  BY <1>1 DEF ToSet
<1>3. 0 \in T
  BY <1>1
<1>4. ASSUME NEW k \in 0..n, k \in T, k < n
      PROVE  k + 1 \in T
  <2>1. k \in Nat /\ k <= Len(G) /\ (\A i \in 1..k : F[i] = G[i]) /\ k + 1 \in 1..n
    BY <1>1, <1>4
  <2>2. PICK j \in 1..Len(G) : G[j] = F[k + 1]
    BY <1>2, <2>1
  <2>3. j > k
    <3> SUFFICES ASSUME j <= k PROVE FALSE
      BY <1>1, <2>1, <2>2
    <3>1. j \in 1..k /\ j \in 1..n /\ j < k + 1
      BY <1>1, <2>1, <2>2
    <3>2. F[j] = F[k + 1] /\ F[j].t < F[k + 1].t
      BY <1>1, <2>1, <2>2, <3>1
    <3> QED
      BY <1>1, <2>1, <3>2
  <2>4. k + 1 \in 1..Len(G)
    BY <1>1, <2>1, <2>2, <2>3
  <2>5. PICK i \in 1..n : F[i] = G[k + 1]
    BY <1>2, <2>4
  <2>6. i > k
    <3> SUFFICES ASSUME i <= k PROVE FALSE
      BY <1>1, <2>1, <2>5
    <3>1. i \in 1..k /\ i \in 1..Len(G) /\ i < k + 1
      BY <1>1, <2>1, <2>5
    <3>2. G[i] = G[k + 1] /\ G[i].t < G[k + 1].t
      BY <1>1, <2>1, <2>4, <2>5, <3>1
    <3> QED
      BY <1>1, <2>4, <3>2
  <2>7. j = k + 1
    <3> SUFFICES ASSUME j > k + 1 PROVE FALSE
      BY <1>1, <2>1, <2>2, <2>3
    <3>1. G[k + 1].t < G[j].t
      BY <1>1, <2>2, <2>4
    <3>2. i = k + 1 \/ k + 1 < i
      BY <1>1, <2>1, <2>5, <2>6
    <3>3. i = k + 1 \/ F[k + 1].t < F[i].t
      BY <1>1, <2>1, <2>5, <3>2
    <3>4. F[k + 1].t \in Nat /\ F[i].t \in Nat
      BY <1>1, <2>1, <2>5
    <3> QED
      BY <2>2, <2>5, <3>1, <3>3, <3>4
  <2>8. F[k + 1] = G[k + 1]
    BY <2>2, <2>7
  <2>9. \A x \in 1..k + 1 : x \in 1..k \/ x = k + 1
    BY <2>1
  <2> QED
    BY <1>1, <2>1, <2>4, <2>8, <2>9
<1>5. \A k \in 0..n : k \in T => (k < n => k + 1 \in T)
  BY <1>4
<1>6. n \in T
  <2> HIDE DEF T, n
  <2>1. \A k \in 0..n : k \in T
    BY <1>1, <1>3, <1>5, InductionTo
  <2> QED
    BY <1>1, <2>1
<1> QED
  BY <1>6

LEMMA SameBars ==
  ASSUME NEW F, Good(F), NEW G, Good(G), ToSet(F) = ToSet(G)
  PROVE  F = G
<1>1. Len(F) <= Len(G) /\ Len(G) <= Len(F) /\ \A i \in 1..Len(F) : F[i] = G[i]
  BY Prefixed
<1>2. Len(F) \in Nat /\ Len(G) \in Nat /\ F \in Seq(Candles) /\ G \in Seq(Candles)
  BY FrameFacts DEF Good
<1>3. Len(F) = Len(G)
  BY <1>1, <1>2
<1> QED
  BY <1>1, <1>2, <1>3, SeqEqual

(* One more bar, later than all.                                           *)
LEMMA AppendGood ==
  ASSUME NEW F, Good(F), NEW b \in Candles, \A x \in ToSet(F) : x.t < b.t
  PROVE  /\ Good(Append(F, b)) /\ ToSet(Append(F, b)) = ToSet(F) \cup {b}
         /\ Len(Append(F, b)) = Len(F) + 1 /\ Append(F, b)[Len(F) + 1] = b
         /\ \A i \in 1..Len(F) : Append(F, b)[i] = F[i]
<1> DEFINE n == Len(F)
           A == Append(F, b)
<1>1. F \in Seq(Candles) /\ n \in Nat /\ DOMAIN F = 1..n
  BY FrameFacts DEF Good
<1>2. /\ A \in Seq(Candles) /\ Len(A) = n + 1 /\ A[n + 1] = b /\ \A i \in 1..n : A[i] = F[i]
  BY <1>1, AppendProperties
<1> HIDE DEF A
<1>3. DOMAIN A = 1..n + 1
  BY <1>2, LenProperties
<1>4. \A i \in 1..n + 1 : i \in 1..n \/ i = n + 1
  BY <1>1
<1>5. InOrder(A)
  <2> SUFFICES ASSUME NEW i \in 1..n + 1, NEW j \in 1..n + 1, i < j
               PROVE  A[i].t < A[j].t
    BY <1>3 DEF InOrder
  <2>1. i \in 1..n
    BY <1>1
  <2>2. CASE j \in 1..n
    BY <1>2, <2>1, <2>2, FrameFacts
  <2>3. CASE j = n + 1
    BY <1>1, <1>2, <2>1, <2>3 DEF ToSet
  <2> QED
    BY <1>4, <2>2, <2>3
<1>6. ToSet(A) = ToSet(F) \cup {b}
  <2>1. \A i \in 1..n : i \in 1..n + 1
    BY <1>1
  <2>2. n + 1 \in 1..n + 1
    BY <1>1
  <2> QED
    BY <1>1, <1>2, <1>3, <1>4, <2>1, <2>2 DEF ToSet
<1> QED
  BY <1>2, <1>5, <1>6 DEF Good, A

-----------------------------------------------------------------------------
LEMMA BarsOfResample ==
  ASSUME NEW f, Good(f), NEW tf \in DOMAIN Span
  PROVE  ToSet(Resample(f, tf)) = {RowOf(f, tf, i) : i \in Openings(f, tf)}
<1> DEFINE S == Openings(f, tf)
           ids == Rows(f)
           firsts == Kept(ids, S)
           R == Resample(f, tf)
<1>1. Len(f) \in Nat /\ DOMAIN f = 1..Len(f) /\ S \subseteq 1..Len(f)
  BY FrameFacts DEF Openings
<1>2. ids \in Seq(1..Len(f)) /\ Len(ids) = Len(f) /\ \A i \in 1..Len(f) : ids[i] = i
  <2>1. ids = [i \in 1..Len(f) |-> i]
    BY <1>1 DEF Rows
  <2>2. ids \in [1..Len(f) -> 1..Len(f)]
    BY <2>1
  <2>3. ids \in Seq(1..Len(f))
    BY <1>1, <2>2, SeqDef
  <2>4. DOMAIN ids = 1..Len(f) /\ DOMAIN ids = 1..Len(ids) /\ Len(ids) \in Nat
    BY <2>1, <2>3, LenProperties
  <2>5. Len(ids) = Len(f)
    BY <1>1, <2>4
  <2> QED
    BY <2>1, <2>3, <2>5
<1> HIDE DEF ids
<1>3. /\ firsts \in Seq(1..Len(f)) /\ Len(firsts) \in Nat
      /\ \E at : Places(at, firsts, ids, S)
  BY <1>2, KeptPositions
<1>4. DOMAIN firsts = 1..Len(firsts)
  BY <1>3, LenProperties
<1>5. R = [k \in DOMAIN firsts |-> RowOf(f, tf, firsts[k])]
  BY DEF Resample, Rows, ids
<1> HIDE DEF firsts, S, R
<1>6. PICK at : Places(at, firsts, ids, S)
  BY <1>3
<1>7. /\ \A k \in 1..Len(firsts) : firsts[k] = at[k] /\ at[k] \in S
      /\ \A i \in S : \E k \in 1..Len(firsts) : at[k] = i
  BY <1>1, <1>2, <1>6 DEF Places
<1> QED
  BY <1>4, <1>5, <1>7 DEF ToSet, R, S

(* The rows of a closed period.                                            *)
Due(f, tf, now) == {i \in Openings(f, tf) : Stamp(f[i].t, tf) + Span[tf] <= now}

LEMMA ClosedRows ==
  ASSUME NEW f, Good(f), NEW tf \in DOMAIN Span, NEW now
  PROVE  /\ Good(ClosedBars(Resample(f, tf), tf, now))
         /\ ToSet(ClosedBars(Resample(f, tf), tf, now)) = {RowOf(f, tf, i) : i \in Due(f, tf, now)}
<1> DEFINE R == Resample(f, tf)
           S == {i \in DOMAIN R : R[i].t + Span[tf] <= now}
           C == ClosedBars(R, tf, now)
<1>1. Good(R) /\ ToSet(R) = {RowOf(f, tf, i) : i \in Openings(f, tf)}
  BY ResampleGood, BarsOfResample
<1>2. C = Kept(R, S)
  BY DEF ClosedBars
<1> HIDE DEF R, C
<1>3. Good(C) /\ ToSet(C) = {R[i] : i \in S \cap DOMAIN R}
  BY <1>1, <1>2, KeptGood, BarsOfKept
<1>4. ToSet(C) = {r \in ToSet(R) : r.t + Span[tf] <= now}
  BY <1>3 DEF ToSet
<1>5. \A i \in Openings(f, tf) : RowOf(f, tf, i).t = Stamp(f[i].t, tf)
  BY RowIsCandle DEF Openings
<1>6. ToSet(C) = {RowOf(f, tf, i) : i \in Due(f, tf, now)}
  BY <1>1, <1>4, <1>5 DEF Due
<1> QED
  BY <1>3, <1>6 DEF C, R

(* Every bar lies in a period that some bar opens.                         *)
LEMMA OpenedBy ==
  ASSUME NEW f, Good(f), NEW tf \in DOMAIN Span, NEW j \in DOMAIN f
  PROVE  \E i \in Openings(f, tf) : Stamp(f[i].t, tf) = Stamp(f[j].t, tf)
<1> DEFINE P == PeriodOf(f, tf, j)
           m == Min(P)
<1>1. Len(f) \in Nat /\ DOMAIN f = 1..Len(f)
  BY FrameFacts
<1>2. P \subseteq DOMAIN f /\ j \in P
  BY DEF PeriodOf
<1>3. IsFiniteSet(P) /\ P \subseteq Nat
  BY <1>2, BarsFinite
<1> HIDE DEF P
<1>4. m \in P /\ \A i \in P : m <= i
  BY <1>2, <1>3, MinIs
<1> HIDE DEF m
<1>5. m \in DOMAIN f /\ Stamp(f[m].t, tf) = Stamp(f[j].t, tf)
  BY <1>4 DEF P, PeriodOf
<1>6. m \in Openings(f, tf)
  <2> SUFFICES ASSUME m # 1, Stamp(f[m - 1].t, tf) = Stamp(f[m].t, tf) PROVE FALSE
    BY <1>5 DEF Openings
  <2>1. m - 1 \in DOMAIN f
    BY <1>1, <1>5
  <2>2. m - 1 \in P
    BY <1>5, <2>1 DEF P, PeriodOf
  <2> QED
    BY <1>1, <1>4, <1>5, <2>2
<1> QED
  BY <1>5, <1>6

-----------------------------------------------------------------------------
(* One more bar: which candles close *)

(* The closed candles of a time frame after the last bar of s.             *)
ClosedOf(s, tf) == ClosedBars(Resample(s, tf), tf, LastT(s) + 1)

(* b is the bar that follows the series s.                                 *)
Follows(b, s) == Good(s) /\ Len(s) > 0 /\ b \in Candles /\ b.t = LastT(s) + 1

LEMMA FollowsGood ==
  ASSUME NEW s, NEW b, Follows(b, s)
  PROVE  /\ Good(Append(s, b)) /\ LastT(Append(s, b)) = b.t /\ b.t \in Nat
         /\ Len(Append(s, b)) = Len(s) + 1 /\ Len(s) \in Nat \ {0}
         /\ Append(s, b)[Len(s) + 1] = b
         /\ \A i \in 1..Len(s) : /\ Append(s, b)[i] = s[i]
                                 /\ s[i].t < b.t /\ s[i].t \in Nat
<1> DEFINE n == Len(s)
<1>1. Good(s) /\ n \in Nat /\ n > 0 /\ DOMAIN s = 1..n
  BY FrameFacts DEF Follows
<1>a. /\ \A i \in 1..n : s[i].t \in Nat
      /\ \A i, j \in 1..n : i < j => s[i].t < s[j].t
      /\ LastT(s) = s[n].t
  BY <1>1, FrameFacts DEF LastT
<1> HIDE DEF n
<1>2. n \in 1..n /\ \A i \in 1..n : i = n \/ i < n
  BY <1>1
<1>3. \A i \in 1..n : s[i].t \in Nat /\ s[i].t <= LastT(s)
  <2> SUFFICES ASSUME NEW i \in 1..n PROVE s[i].t <= LastT(s)
    BY <1>a
  <2>1. i = n \/ s[i].t < s[n].t
    BY <1>2, <1>a
  <2> QED
    BY <1>2, <1>a, <2>1
<1>4. b.t = LastT(s) + 1 /\ LastT(s) \in Nat /\ b \in Candles
  BY <1>2, <1>3, <1>a DEF Follows
<1>5. \A i \in 1..n : s[i].t < b.t
  BY <1>3, <1>4
<1> USE DEF n
<1>6. \A x \in ToSet(s) : x.t < b.t
  BY <1>1, <1>5 DEF ToSet
<1>7. /\ Good(Append(s, b)) /\ Len(Append(s, b)) = Len(s) + 1
      /\ Append(s, b)[Len(s) + 1] = b
      /\ \A i \in 1..Len(s) : Append(s, b)[i] = s[i]
  BY <1>1, <1>4, <1>6, AppendGood
<1>8. LastT(Append(s, b)) = b.t
  BY <1>7 DEF LastT
<1> QED
  BY <1>1, <1>3, <1>4, <1>5, <1>7, <1>8

(* A period that has closed before the new bar keeps its rows.             *)
LEMMA ClosedPeriodStays ==
  ASSUME NEW s, NEW b, Follows(b, s), NEW tf \in DOMAIN Span, NEW i \in 1..Len(s)
  PROVE  /\ i \in Openings(s, tf) <=> i \in Openings(Append(s, b), tf)
         /\ Stamp(s[i].t, tf) + Span[tf] <= b.t =>
               RowOf(Append(s, b), tf, i) = RowOf(s, tf, i)
<1> DEFINE r == Append(s, b)
           n == Len(s)
<1>1. /\ n \in Nat \ {0} /\ Len(r) = n + 1 /\ r[n + 1] = b /\ b.t \in Nat
      /\ \A j \in 1..n : r[j] = s[j]
      /\ Good(r) /\ Good(s)
  BY FollowsGood DEF Follows
<1> HIDE DEF r
<1>2. DOMAIN s = 1..n /\ DOMAIN r = 1..n + 1
  BY <1>1, FrameFacts
<1>3. i \in DOMAIN r /\ \A j \in 1..n + 1 : j \in 1..n \/ j = n + 1
  BY <1>1, <1>2
<1>4. i \in Openings(s, tf) <=> i \in Openings(r, tf)
  <2>1. CASE i = 1
    BY <1>2, <1>3, <2>1 DEF Openings
  <2>2. CASE i # 1
    <3>1. i - 1 \in 1..n
      BY <1>1, <2>2
    <3> QED
      BY <1>1, <1>2, <1>3, <2>2, <3>1 DEF Openings
  <2> QED
    BY <2>1, <2>2
<1>5. ASSUME Stamp(s[i].t, tf) + Span[tf] <= b.t
      PROVE  RowOf(r, tf, i) = RowOf(s, tf, i)
  <2>1. /\ b.t < Stamp(b.t, tf) + Span[tf] /\ Stamp(b.t, tf) \in Nat
        /\ Span[tf] \in Nat
    BY <1>1, Stamps, Spans
  <2>2. Stamp(b.t, tf) # Stamp(s[i].t, tf)
    BY <1>1, <1>5, <2>1
  <2>3. n + 1 \notin PeriodOf(r, tf, i)
    BY <1>1, <2>2 DEF PeriodOf
  <2>4. PeriodOf(r, tf, i) = PeriodOf(s, tf, i)
    BY <1>1, <1>2, <1>3, <2>3 DEF PeriodOf
  <2> DEFINE P == PeriodOf(s, tf, i)
  <2>5. P \subseteq 1..n /\ i \in P
    BY <1>2 DEF PeriodOf
  <2>6. IsFiniteSet(P) /\ P \subseteq Int
    BY <2>5, <1>2, <1>1, BarsFinite
  <2> HIDE DEF P
  <2>7. Max(P) \in 1..n
    BY <2>5, <2>6, MaxIs
  <2>8. /\ {r[j].h : j \in P} = {s[j].h : j \in P}
        /\ {r[j].l : j \in P} = {s[j].l : j \in P}
        /\ r[Max(P)].c = s[Max(P)].c /\ r[i] = s[i]
    BY <1>1, <2>5, <2>7
  <2> QED
    BY <2>4, <2>8 DEF RowOf, P
<1> QED
  BY <1>4, <1>5 DEF r

(* The periods the new bar closes: they end with it.                       *)
Closing(r, tf) == {i \in Openings(r, tf) : Stamp(r[i].t, tf) + Span[tf] = LastT(r) + 1}

LEMMA DueNext ==
  ASSUME NEW s, NEW b, Follows(b, s), NEW tf \in DOMAIN Span
  PROVE  LET r == Append(s, b)
         IN Due(r, tf, LastT(r) + 1) = Due(s, tf, LastT(s) + 1) \cup Closing(r, tf)
<1> DEFINE r == Append(s, b)
           n == Len(s)
<1>1. /\ n \in Nat \ {0} /\ Len(r) = n + 1 /\ r[n + 1] = b /\ b.t \in Nat
      /\ \A j \in 1..n : r[j] = s[j] /\ s[j].t \in Nat
      /\ Good(r) /\ Good(s) /\ LastT(r) = b.t /\ LastT(s) + 1 = b.t
  BY FollowsGood DEF Follows
<1> HIDE DEF r
<1>2. DOMAIN s = 1..n /\ DOMAIN r = 1..n + 1
  BY <1>1, FrameFacts
<1>3. \A j \in 1..n + 1 : j \in 1..n \/ j = n + 1
  BY <1>1
<1>4. \A j \in 1..n : j \in 1..n + 1
  BY <1>1
<1>5. \A j \in 1..n + 1 : Stamp(r[j].t, tf) + Span[tf] \in Nat
  <2> SUFFICES ASSUME NEW j \in 1..n + 1 PROVE Stamp(r[j].t, tf) + Span[tf] \in Nat
    OBVIOUS
  <2> DEFINE t == r[j].t
  <2>1. t \in Nat
    BY <1>1, <1>3
  <2> HIDE DEF t
  <2>2. Stamp(t, tf) \in Nat
    BY <2>1, Stamps
  <2>3. Span[tf] \in Nat
    BY Spans
  <2> QED
    BY <2>2, <2>3 DEF t
<1>6. b.t < Stamp(b.t, tf) + Span[tf]
  BY <1>1, Stamps
<1>7. \A j \in 1..n : j \in Openings(s, tf) <=> j \in Openings(r, tf)
  BY ClosedPeriodStays DEF r
<1>8. ASSUME NEW j \in Due(r, tf, b.t + 1)
      PROVE  j \in Due(s, tf, b.t) \cup Closing(r, tf)
  <2>1. j \in 1..n + 1 /\ j \in Openings(r, tf) /\ Stamp(r[j].t, tf) + Span[tf] <= b.t + 1
    BY <1>2, <1>8 DEF Due, Openings
  <2>2. CASE Stamp(r[j].t, tf) + Span[tf] = b.t + 1
    BY <1>1, <2>1, <2>2 DEF Closing
  <2>3. CASE Stamp(r[j].t, tf) + Span[tf] <= b.t
    <3>1. j \in 1..n
      BY <1>1, <1>3, <1>5, <1>6, <2>1, <2>3
    <3> QED
      BY <1>1, <1>7, <2>1, <2>3, <3>1 DEF Due
  <2> QED
    BY <1>1, <1>5, <2>1, <2>2, <2>3
<1>9. ASSUME NEW j \in Due(s, tf, b.t)
      PROVE  j \in Due(r, tf, b.t + 1)
  <2>1. j \in 1..n /\ j \in Openings(s, tf) /\ Stamp(s[j].t, tf) + Span[tf] <= b.t
    BY <1>2, <1>9 DEF Due, Openings
  <2>2. Stamp(r[j].t, tf) + Span[tf] <= b.t + 1
    BY <1>1, <1>4, <1>5, <2>1
  <2> QED
    BY <1>7, <2>1, <2>2 DEF Due
<1>10. ASSUME NEW j \in Closing(r, tf)
       PROVE  j \in Due(r, tf, b.t + 1)
  <2>1. j \in Openings(r, tf) /\ Stamp(r[j].t, tf) + Span[tf] = b.t + 1
    BY <1>1, <1>10 DEF Closing
  <2> QED
    BY <1>1, <2>1 DEF Due
<1>11. Due(r, tf, b.t + 1) = Due(s, tf, b.t) \cup Closing(r, tf)
  BY <1>8, <1>9, <1>10
<1> QED
  BY <1>1, <1>11 DEF r

(* One M15 bar adds at most one closed candle to a time frame, the last.   *)
Longer(f, g) == \E x \in Candles : g = Append(f, x) /\ \A y \in ToSet(f) : y.t < x.t

LEMMA ClosedNext ==
  ASSUME NEW s, NEW b, Follows(b, s), NEW tf \in DOMAIN Span
  PROVE  LET r == Append(s, b)
         IN /\ Good(ClosedOf(s, tf)) /\ Good(ClosedOf(r, tf))
            /\ IF Closing(r, tf) = {} THEN ClosedOf(r, tf) = ClosedOf(s, tf)
                                      ELSE Longer(ClosedOf(s, tf), ClosedOf(r, tf))
<1> DEFINE r == Append(s, b)
           old == ClosedOf(s, tf)
           new == ClosedOf(r, tf)
           D == Due(s, tf, LastT(s) + 1)
           N == Closing(r, tf)
<1>1. /\ Good(r) /\ Good(s) /\ LastT(r) = b.t /\ LastT(s) + 1 = b.t /\ b.t \in Nat
      /\ \A j \in 1..Len(s) : r[j] = s[j] /\ s[j].t \in Nat
  BY FollowsGood DEF Follows
<1>2. DOMAIN s = 1..Len(s) /\ DOMAIN r = 1..Len(r)
  BY <1>1, FrameFacts
<1>3. Due(r, tf, LastT(r) + 1) = D \cup N
  BY DueNext
<1> HIDE DEF r
<1>4. \A i \in D : i \in 1..Len(s) /\ Stamp(s[i].t, tf) + Span[tf] <= b.t
  BY <1>1, <1>2 DEF Due, Openings
<1>5. \A i \in D : RowOf(r, tf, i) = RowOf(s, tf, i)
  BY <1>4, ClosedPeriodStays DEF r
<1>6. Good(old) /\ ToSet(old) = {RowOf(s, tf, i) : i \in D}
  BY <1>1, ClosedRows DEF ClosedOf
<1>7. Good(new) /\ ToSet(new) = {RowOf(r, tf, i) : i \in D \cup N}
  BY <1>1, <1>3, ClosedRows DEF ClosedOf
<1> HIDE DEF old, new, D
<1>8. CASE N = {}
  <2>1. ToSet(new) = ToSet(old)
    BY <1>5, <1>6, <1>7, <1>8
  <2> QED
    BY <1>6, <1>7, <1>8, <2>1, SameBars DEF old, new, r
<1>9. CASE N # {}
  <2>1. PICK i \in N : TRUE
    BY <1>9
  <2>2. \A j \in N : /\ j \in DOMAIN r
                     /\ Stamp(r[j].t, tf) + Span[tf] = b.t + 1
    BY <1>1 DEF Closing, Openings
  <2> DEFINE x == RowOf(r, tf, i)
  <2>3. \A j \in N : RowOf(r, tf, j) \in Candles /\ RowOf(r, tf, j).t = Stamp(r[j].t, tf)
    BY <1>1, <2>2, RowIsCandle
  <2>4. Span[tf] \in Nat
    BY Spans
  <2>5. \A j \in DOMAIN r : Stamp(r[j].t, tf) \in Nat
    BY <1>1, <1>2, FrameFacts, Stamps
  <2>6. \A j \in N : RowOf(r, tf, j).t = x.t
    BY <1>1, <2>1, <2>2, <2>3, <2>4, <2>5
  <2>7. \A j \in N : RowOf(r, tf, j) = x
    <3> SUFFICES ASSUME NEW j \in N PROVE RowOf(r, tf, j) = x
      OBVIOUS
    <3>1. RowOf(r, tf, j) \in ToSet(new) /\ x \in ToSet(new)
      BY <1>7, <2>1
    <3> HIDE DEF x
    <3>2. DOMAIN new = 1..Len(new) /\ Len(new) \in Nat
      BY <1>7, FrameFacts
    <3>3. PICK k \in 1..Len(new) : new[k] = RowOf(r, tf, j)
      BY <3>1, <3>2 DEF ToSet
    <3>4. PICK m \in 1..Len(new) : new[m] = x
      BY <3>1, <3>2 DEF ToSet
    <3>5. new[k].t = new[m].t
      BY <2>6, <3>3, <3>4
    <3>6. /\ new[k].t \in Nat /\ new[m].t \in Nat
          /\ k < m => new[k].t < new[m].t
          /\ m < k => new[m].t < new[k].t
      BY <1>7, <3>3, <3>4, FrameFacts
    <3>7. k = m
      BY <3>2, <3>3, <3>4, <3>5, <3>6
    <3> QED
      BY <3>3, <3>4, <3>7
  <2>8. x \in Candles /\ x.t + Span[tf] = b.t + 1 /\ x.t \in Nat
    BY <2>1, <2>2, <2>3, <2>5
  <2>9. ASSUME NEW y \in ToSet(old) PROVE y.t < x.t
    <3>1. PICK j \in D : y = RowOf(s, tf, j)
      BY <1>6, <2>9
    <3>2. j \in DOMAIN s /\ Stamp(s[j].t, tf) + Span[tf] <= b.t /\ Stamp(s[j].t, tf) \in Nat
      BY <1>1, <1>2, <1>4, <3>1, Stamps
    <3>3. y.t = Stamp(s[j].t, tf)
      BY <1>1, <3>1, <3>2, RowIsCandle
    <3> HIDE DEF x
    <3> QED
      BY <1>1, <2>4, <2>8, <3>2, <3>3
  <2>10. ToSet(new) = ToSet(old) \cup {x}
    <3>1. \A y \in ToSet(new) : y \in ToSet(old) \/ y = x
      BY <1>5, <1>6, <1>7, <2>7
    <3>2. \A y \in ToSet(old) : y \in ToSet(new)
      BY <1>5, <1>6, <1>7
    <3>3. x \in ToSet(new)
      BY <1>7, <2>1
    <3> QED
      BY <3>1, <3>2, <3>3
  <2> HIDE DEF x
  <2>11. Good(Append(old, x)) /\ ToSet(Append(old, x)) = ToSet(old) \cup {x}
    BY <1>6, <2>8, <2>9, AppendGood
  <2>12. new = Append(old, x)
    BY <1>7, <2>10, <2>11, SameBars
  <2> QED
    BY <1>6, <1>7, <1>9, <2>8, <2>9, <2>12 DEF Longer, old, new, r
<1> QED
  BY <1>8, <1>9

(* The bar that closes a day closes an H4 candle.                          *)
LEMMA DayClosesHours ==
  ASSUME NEW r, Good(r), Len(r) > 0, Closing(r, "D1") # {}
  PROVE  Closing(r, "H4") # {}
<1> DEFINE e == LastT(r) + 1
           d == Span["D1"]
           h == Span["H4"]
<1>1. /\ Len(r) \in Nat /\ DOMAIN r = 1..Len(r) /\ Len(r) \in 1..Len(r)
      /\ LastT(r) \in Nat /\ LastT(r) = r[Len(r)].t
  BY FrameFacts DEF LastT
<1>2. d \in Nat \ {0} /\ h \in Nat \ {0} /\ d % h = 0 /\ "H4" \in DOMAIN Span /\ "D1" \in DOMAIN Span
  BY SpanAssumption, Spans
<1>3. PICK i \in Closing(r, "D1") : TRUE
  OBVIOUS
<1>4. i \in DOMAIN r /\ Stamp(r[i].t, "D1") + d = e /\ r[i].t \in Nat
  BY <1>1, <1>3, FrameFacts DEF Closing, Openings
<1> DEFINE p == r[i].t \div d
           q == d \div h
<1>5. p \in Nat /\ q \in Nat
  BY <1>2, <1>4, Divides
<1>6. p * d + d = e
  BY <1>4 DEF Stamp
<1>7. q * h = d
  <2> HIDE DEF d, h
  <2>1. d = h * (d \div h) + (d % h)
    BY <1>2
  <2>2. d = h * q
    BY <1>2, <1>5, <2>1
  <2> QED
    BY <1>2, <1>5, <2>2
<1> HIDE DEF p, q, d, h, e
<1>8. (p * q + q) * h = e
  <2>1. (p * q + q) * h = p * (q * h) + q * h
    BY <1>2, <1>5
  <2> QED
    BY <1>6, <1>7, <2>1
<1> DEFINE k == p * q + q
           t == LastT(r)
           u == t \div h
<1>9. k \in Nat /\ k * h = t + 1
  BY <1>5, <1>8 DEF e
<1>10. u \in Nat /\ u * h <= t /\ t < u * h + h
  BY <1>1, <1>2, Divides
<1> HIDE DEF k, t, u
<1>11. u * h + h = k * h
  <2>1. u < k
    <3> SUFFICES ASSUME k <= u PROVE FALSE
      BY <1>9, <1>10
    <3>1. k * h <= u * h
      <4>1. u = k \/ k < u
        BY <1>9, <1>10
      <4>2. CASE u = k
        BY <1>2, <1>9, <4>2
      <4>3. CASE k < u
        <5>1. k * h + h <= u * h
          BY <1>2, <1>9, <1>10, <4>3, Times
        <5> QED
          BY <1>2, <1>9, <1>10, <5>1
      <4> QED
        BY <4>1, <4>2, <4>3
    <3>2. t \in Nat
      BY <1>1 DEF t
    <3> QED
      BY <1>2, <1>9, <1>10, <3>1, <3>2
  <2>2. u * h + h <= k * h
    BY <1>2, <1>9, <1>10, <2>1, Times
  <2>3. t \in Nat
    BY <1>1 DEF t
  <2> QED
    BY <1>2, <1>9, <1>10, <2>2, <2>3
<1>12. Stamp(r[Len(r)].t, "H4") + h = e
  BY <1>1, <1>9, <1>11 DEF Stamp, h, t, u, e
<1>13. PICK j \in Openings(r, "H4") : Stamp(r[j].t, "H4") = Stamp(r[Len(r)].t, "H4")
  BY <1>1, <1>2, OpenedBy
<1> QED
  BY <1>12, <1>13 DEF Closing, h, e

-----------------------------------------------------------------------------
(* The cache is current *)

(* The window a frame is cut to.                                           *)
Window(f, n) == IF Len(f) > n THEN SubSeq(f, Len(f) - n + 1, Len(f)) ELSE f

LEMMA SliceIs ==
  ASSUME NEW f, Good(f), NEW tf, NEW at, \A x \in ToSet(f) : x.t <= at
  PROVE  SliceToAtBar(f, tf, at) = Window(f, Lookback[tf])
<1>1. f \in Seq(Candles) /\ DOMAIN f = 1..Len(f)
  BY FrameFacts DEF Good
<1> DEFINE S == {i \in DOMAIN f : f[i].t <= at}
<1>2. 1..Len(f) \subseteq S
  BY <1>1 DEF ToSet
<1>3. Kept(f, S) = f
  <2> HIDE DEF S
  <2> QED
    BY <1>1, <1>2, KeptAll
<1> QED
  BY <1>3 DEF SliceToAtBar, Window

LEMMA WindowFacts ==
  ASSUME NEW f, Good(f), NEW n \in Nat \ {0}
  PROVE  /\ Good(Window(f, n)) /\ (Window(f, n) = <<>> <=> f = <<>>)
         /\ f # <<>> => /\ LastT(Window(f, n)) = LastT(f) /\ LastT(f) \in Nat
                        /\ \A x \in ToSet(f) : x.t <= LastT(f)
<1> DEFINE l == Len(f)
           m == l - n + 1
           W == SubSeq(f, m, l)
<1>1. f \in Seq(Candles) /\ l \in Nat /\ DOMAIN f = 1..l
  BY FrameFacts DEF Good
<1>2. f = <<>> <=> l = 0
  BY <1>1, EmptySeq
<1>3. /\ \A i \in 1..l : f[i].t \in Nat
      /\ \A i, j \in 1..l : i < j => f[i].t < f[j].t
      /\ LastT(f) = f[l].t
  BY <1>1, FrameFacts DEF LastT
<1>4. ASSUME l > n
      PROVE  Good(W) /\ Len(W) > 0 /\ LastT(W) = f[l].t
  <2> HIDE DEF l
  <2>1. m \in 1..l + 1 /\ l \in 0..l /\ m \in 1..l /\ l - m + 1 = n
    BY <1>1, <1>4
  <2> HIDE DEF m
  <2>2. Good(W)
    BY <2>1, SubSeqGood DEF l
  <2>3. /\ Len(W) = l - m + 1
        /\ \A i \in 1..l - m + 1 : W[i] = f[m + i - 1]
    BY <1>1, <2>1, SubSeqProperties DEF l
  <2>4. n \in 1..l - m + 1 /\ m + n - 1 = l
    BY <1>1, <2>1 DEF m
  <2>5. W[n] = f[m + n - 1]
    BY <2>3, <2>4
  <2>6. W[n] = f[l] /\ Len(W) = n
    BY <2>1, <2>3, <2>4, <2>5
  <2> HIDE DEF W
  <2>7. Len(W) > 0 /\ LastT(W) = f[l].t
    BY <2>6 DEF LastT
  <2> QED
    BY <2>2, <2>7
<1> HIDE DEF W
<1>5. Good(Window(f, n))
  BY <1>4 DEF Window, W
<1>6. Window(f, n) = <<>> <=> f = <<>>
  <2>1. CASE l > n
    <3>1. W # <<>>
      BY <1>4, <2>1, EmptySeq
    <3> QED
      BY <1>1, <1>2, <2>1, <3>1 DEF Window, W
  <2>2. CASE ~(l > n)
    BY <2>2 DEF Window
  <2> QED
    BY <2>1, <2>2
<1>7. LastT(Window(f, n)) = LastT(f)
  BY <1>3, <1>4 DEF Window, W
<1>8. ASSUME f # <<>>
      PROVE  LastT(f) \in Nat /\ \A x \in ToSet(f) : x.t <= LastT(f)
  <2>1. ToSet(f) = {f[i] : i \in 1..l}
    BY <1>1 DEF ToSet
  <2> HIDE DEF l
  <2>2. l \in 1..l /\ \A i \in 1..l : i = l \/ i < l
    BY <1>1, <1>2, <1>8
  <2>3. ASSUME NEW i \in 1..l PROVE f[i].t <= f[l].t
    <3>1. i = l \/ f[i].t < f[l].t
      BY <1>3, <2>2
    <3> QED
      BY <1>3, <2>2, <3>1
  <2> QED
    BY <1>3, <2>1, <2>2, <2>3
<1> QED
  BY <1>5, <1>6, <1>7, <1>8

(* The runner's frames: windows of the closed candles.                     *)
LEMMA LiveFrames ==
  ASSUME Live, NEW s, Good(s), Len(s) > 0
  PROVE  /\ Frames(s)["M15"] = Window(s, Lookback["M15"])
         /\ \A tf \in {"D1", "H4"} : Frames(s)[tf] = Window(ClosedOf(s, tf), Lookback[tf])
<1>1. s \in Seq(Candles) /\ Len(s) \in Nat /\ Ahead = 0
  BY ReplayAssumption, FrameFacts DEF Good
<1>2. Replayed(s) = s
  <2>1. Len(s) - Ahead = Len(s)
    BY <1>1
  <2>2. SubSeq(s, 1, Len(s)) = s
    BY <1>1, SubSeqFull
  <2> QED
    BY <2>1, <2>2 DEF Replayed
<1>3. s # <<>>
  BY <1>1, EmptySeq
<1>4. LastT(s) \in Nat /\ \A x \in ToSet(s) : x.t <= LastT(s)
  <2>1. 1 \in Nat \ {0}
    OBVIOUS
  <2> QED
    BY <1>3, <2>1, WindowFacts
<1>5. Frames(s)["M15"] = SliceToAtBar(s, "M15", LastT(s))
  BY <1>2 DEF Frames
<1>6. \A tf \in {"D1", "H4"} : Frames(s)[tf] = SliceToAtBar(ClosedOf(s, tf), tf, LastT(s))
  BY <1>2 DEF Frames, HtfFrame, ClosedOf
<1>7. ASSUME NEW tf \in {"D1", "H4"}
      PROVE  Good(ClosedOf(s, tf)) /\ \A x \in ToSet(ClosedOf(s, tf)) : x.t <= LastT(s)
  <2>1. tf \in DOMAIN Span /\ Span[tf] \in Nat \ {0}
    BY Spans DEF TimeFrames
  <2>2. /\ Good(ClosedOf(s, tf))
        /\ ToSet(ClosedOf(s, tf)) = {RowOf(s, tf, i) : i \in Due(s, tf, LastT(s) + 1)}
    BY <2>1, ClosedRows DEF ClosedOf
  <2> SUFFICES ASSUME NEW x \in ToSet(ClosedOf(s, tf)) PROVE x.t <= LastT(s)
    BY <2>2
  <2>3. PICK i \in Due(s, tf, LastT(s) + 1) : x = RowOf(s, tf, i)
    BY <2>2
  <2>4. i \in DOMAIN s /\ Stamp(s[i].t, tf) + Span[tf] <= LastT(s) + 1
    BY <2>3 DEF Due, Openings
  <2>5. x.t = Stamp(s[i].t, tf)
    BY <2>1, <2>3, <2>4, RowIsCandle
  <2>6. s[i].t \in Nat
    BY <2>4, FrameFacts
  <2>7. Stamp(s[i].t, tf) \in Nat
    BY <2>1, <2>6, Stamps
  <2> QED
    BY <1>4, <2>1, <2>4, <2>5, <2>7
<1>8. ASSUME NEW tf \in {"D1", "H4"}
      PROVE  SliceToAtBar(ClosedOf(s, tf), tf, LastT(s)) = Window(ClosedOf(s, tf), Lookback[tf])
  BY <1>7, SliceIs
<1> QED
  BY <1>4, <1>5, <1>6, <1>8, SliceIs

(* The windows a new bar moves: M15 always, H4 whenever D1.                *)
MovesOn(f, g) == g # <<>> /\ (f # <<>> => LastT(f) < LastT(g))

Moved(F, G) ==
    /\ F["M15"] # <<>> /\ MovesOn(F["M15"], G["M15"])
    /\ MovesOn(F["H4"], G["H4"]) \/ (G["H4"] = F["H4"] /\ G["D1"] = F["D1"])
    /\ MovesOn(F["D1"], G["D1"]) \/ G["D1"] = F["D1"]

LEMMA LongerIsLater ==
  ASSUME NEW f, Good(f), NEW g, Good(g), Longer(f, g), NEW n \in Nat \ {0}
  PROVE  MovesOn(Window(f, n), Window(g, n))
<1>1. PICK x \in Candles : g = Append(f, x) /\ \A y \in ToSet(f) : y.t < x.t
  BY DEF Longer
<1>2. /\ Len(f) \in Nat /\ DOMAIN f = 1..Len(f)
      /\ Len(g) = Len(f) + 1 /\ g[Len(f) + 1] = x
  BY <1>1, FrameFacts, AppendGood
<1>3. g # <<>> /\ LastT(g) = x.t
  BY <1>2, EmptySeq DEF LastT
<1>4. ASSUME f # <<>> PROVE LastT(f) < x.t
  <2>1. Len(f) \in DOMAIN f
    <3>1. f \in Seq(Candles) /\ Len(f) # 0
      BY <1>4, EmptySeq DEF Good
    <3> QED
      BY <1>2, <3>1
  <2> QED
    BY <1>1, <2>1 DEF LastT, ToSet
<1> QED
  BY <1>3, <1>4, WindowFacts DEF MovesOn

LEMMA FramesMove ==
  ASSUME Live, NEW s, NEW b, Follows(b, s)
  PROVE  Moved(Frames(s), Frames(Append(s, b)))
<1> DEFINE r == Append(s, b)
           F == Frames(s)
           G == Frames(r)
<1>1. /\ Good(s) /\ Good(r) /\ Len(s) \in Nat \ {0} /\ Len(r) = Len(s) + 1
      /\ LastT(r) = b.t /\ b \in Candles /\ LastT(s) + 1 = b.t
      /\ \A i \in 1..Len(s) : s[i].t < b.t
  BY FollowsGood DEF Follows
<1>2. Longer(s, r)
  <2>1. \A y \in ToSet(s) : y.t < b.t
    BY <1>1, FrameFacts DEF ToSet
  <2> QED
    BY <1>1, <2>1 DEF Longer
<1>3. Len(s) > 0 /\ Len(r) > 0 /\ s # <<>>
  BY <1>1, EmptySeq
<1>4. /\ F["M15"] = Window(s, Lookback["M15"]) /\ G["M15"] = Window(r, Lookback["M15"])
      /\ \A tf \in {"D1", "H4"} : /\ F[tf] = Window(ClosedOf(s, tf), Lookback[tf])
                                  /\ G[tf] = Window(ClosedOf(r, tf), Lookback[tf])
  BY <1>1, <1>3, LiveFrames
<1>5. \A tf \in {"D1", "H4"} :
         /\ Good(ClosedOf(s, tf)) /\ Good(ClosedOf(r, tf))
         /\ IF Closing(r, tf) = {} THEN ClosedOf(r, tf) = ClosedOf(s, tf)
                                   ELSE Longer(ClosedOf(s, tf), ClosedOf(r, tf))
  BY ClosedNext, Spans DEF TimeFrames
<1>6. Closing(r, "D1") # {} => Closing(r, "H4") # {}
  BY <1>1, <1>3, DayClosesHours
<1>7. /\ Lookback["M15"] \in Nat \ {0}
      /\ \A tf \in {"D1", "H4"} : Lookback[tf] \in Nat \ {0}
  BY Spans DEF TimeFrames
<1> HIDE DEF F, G, r
<1>8. F["M15"] # <<>> /\ MovesOn(F["M15"], G["M15"])
  <2>1. MovesOn(Window(s, Lookback["M15"]), Window(r, Lookback["M15"]))
    BY <1>1, <1>2, <1>7, LongerIsLater
  <2>2. Window(s, Lookback["M15"]) # <<>>
    BY <1>1, <1>3, <1>7, WindowFacts
  <2> QED
    BY <1>4, <2>1, <2>2
<1>9. \A tf \in {"D1", "H4"} :
         IF Closing(r, tf) = {} THEN G[tf] = F[tf] ELSE MovesOn(F[tf], G[tf])
  BY <1>4, <1>5, <1>7, LongerIsLater
<1>10. /\ MovesOn(F["H4"], G["H4"]) \/ (G["H4"] = F["H4"] /\ G["D1"] = F["D1"])
       /\ MovesOn(F["D1"], G["D1"]) \/ G["D1"] = F["D1"]
  BY <1>6, <1>9
<1> QED
  BY <1>8, <1>10 DEF Moved, F, G, r

-----------------------------------------------------------------------------
(* What the detectors would find on a frame now.                           *)
Fresh(F, tf) ==
    Snapshot(F[tf], tf, IF tf = "D1" THEN <<>> ELSE HtfKnownLevels(D1Of(F, NoCache)))

(* An entry for the frame's last bar is what the detectors would find on   *)
(* it; every other entry is for an earlier last bar.                       *)
Current(F, c) ==
    \A k \in DOMAIN c : \E tf \in TimeFrames, t \in Nat :
        /\ k = <<tf, t>> /\ F[tf] # <<>> /\ t <= LastT(F[tf])
        /\ t = LastT(F[tf]) => c[k] = Fresh(F, tf)

LEMMA CurrentEntry ==
  ASSUME NEW F, NEW c, Current(F, c), NEW tf \in TimeFrames, CacheKey(tf, F[tf]) \in DOMAIN c
  PROVE  c[CacheKey(tf, F[tf])] = Fresh(F, tf)
  BY DEF Current, CacheKey

LEMMA CurrentMoves ==
  ASSUME NEW F, NEW G, NEW c, Current(F, c), Moved(F, G),
         \A tf \in TimeFrames : G[tf] # <<>> => LastT(G[tf]) \in Nat,
         \A tf \in TimeFrames : F[tf] # <<>> => LastT(F[tf]) \in Nat
  PROVE  Current(G, c)
<1> SUFFICES ASSUME NEW k \in DOMAIN c
             PROVE  \E tf \in TimeFrames, t \in Nat :
                       /\ k = <<tf, t>> /\ G[tf] # <<>> /\ t <= LastT(G[tf])
                       /\ t = LastT(G[tf]) => c[k] = Fresh(G, tf)
  BY DEF Current
<1>1. PICK tf \in TimeFrames, t \in Nat :
         /\ k = <<tf, t>> /\ F[tf] # <<>> /\ t <= LastT(F[tf])
         /\ t = LastT(F[tf]) => c[k] = Fresh(F, tf)
  BY DEF Current
<1>2. CASE MovesOn(F[tf], G[tf])
  <2>1. G[tf] # <<>> /\ LastT(F[tf]) < LastT(G[tf])
    BY <1>1, <1>2 DEF MovesOn
  <2>2. LastT(F[tf]) \in Nat /\ LastT(G[tf]) \in Nat
    BY <1>1, <2>1
  <2>3. t < LastT(G[tf])
    BY <1>1, <2>1, <2>2
  <2>4. t <= LastT(G[tf]) /\ t # LastT(G[tf])
    BY <2>2, <2>3
  <2> QED
    BY <1>1, <2>1, <2>4
<1>3. CASE ~MovesOn(F[tf], G[tf])
  <2>1. G[tf] = F[tf] /\ G["D1"] = F["D1"]
    BY <1>1, <1>3 DEF Moved, TimeFrames
  <2>2. D1Of(G, NoCache) = D1Of(F, NoCache)
    BY <2>1 DEF D1Of, HtfSnapshot
  <2>3. Fresh(G, tf) = Fresh(F, tf)
    BY <2>1, <2>2 DEF Fresh
  <2> QED
    BY <1>1, <2>1, <2>3
<1> QED
  BY <1>2, <1>3

LEMMA NothingCached == \A k : k \notin DOMAIN NoCache
  BY DEF NoCache

(* With such a cache every layer finds what it would find without one.     *)
LEMMA CachedLayers ==
  ASSUME NEW F, NEW c, Current(F, c)
  PROVE  /\ D1Of(F, c) = D1Of(F, NoCache) /\ H4Of(F, c) = H4Of(F, NoCache)
         /\ RichOf(F, c) = RichOf(F, NoCache) /\ PoisOf(F, c) = PoisOf(F, NoCache)
         /\ M15Of(F, c) = M15Of(F, NoCache)
         /\ F["D1"] # <<>> => D1Of(F, c) = Fresh(F, "D1")
         /\ F["H4"] # <<>> => H4Of(F, c) = Fresh(F, "H4")
         /\ PoisOf(F, c) # {} => M15Of(F, c) = Fresh(F, "M15")
<1>1. "D1" \in TimeFrames /\ "H4" \in TimeFrames /\ "M15" \in TimeFrames
  BY DEF TimeFrames
<1>2. \A known : CachedOrRun(c, "D1", F["D1"], <<>>) = Snapshot(F["D1"], "D1", <<>>)
  BY <1>1, CurrentEntry DEF CachedOrRun, Fresh
<1>3. CachedOrRun(NoCache, "D1", F["D1"], <<>>) = Snapshot(F["D1"], "D1", <<>>)
  BY NothingCached DEF CachedOrRun
<1>4. /\ D1Of(F, c) = D1Of(F, NoCache)
      /\ F["D1"] # <<>> => D1Of(F, c) = Fresh(F, "D1")
  BY <1>2, <1>3 DEF D1Of, HtfSnapshot, Fresh
<1> DEFINE known == HtfKnownLevels(D1Of(F, NoCache))
<1>5. ASSUME NEW tf \in {"H4", "M15"}
      PROVE  /\ CachedOrRun(c, tf, F[tf], known) = Fresh(F, tf)
             /\ CachedOrRun(NoCache, tf, F[tf], known) = Fresh(F, tf)
  <2>1. Fresh(F, tf) = Snapshot(F[tf], tf, known)
    BY DEF Fresh
  <2> HIDE DEF known
  <2>2. tf \in TimeFrames
    BY <1>1
  <2> QED
    BY <2>1, <2>2, CurrentEntry, NothingCached DEF CachedOrRun
<1>6. /\ H4Of(F, c) = H4Of(F, NoCache)
      /\ F["H4"] # <<>> => H4Of(F, c) = Fresh(F, "H4")
  BY <1>4, <1>5 DEF H4Of, MtfSnapshot
<1>7. RichOf(F, c) = RichOf(F, NoCache) /\ PoisOf(F, c) = PoisOf(F, NoCache)
  BY <1>4, <1>6 DEF RichOf, PoisOf
<1>8. /\ M15Of(F, c) = M15Of(F, NoCache)
      /\ PoisOf(F, c) # {} => M15Of(F, c) = Fresh(F, "M15")
  BY <1>4, <1>5, <1>7 DEF M15Of, LtfSnapshot
<1> QED
  BY <1>4, <1>6, <1>7, <1>8

LEMMA AnalyzeCurrent ==
  ASSUME NEW F, NEW c, Current(F, c), F["M15"] # <<>>,
         \A tf \in TimeFrames : F[tf] # <<>> => LastT(F[tf]) \in Nat
  PROVE  /\ Analyze(F, c).picture = Analyze(F, NoCache).picture
         /\ Current(F, Analyze(F, c).cache)
<1>1. Analyze(F, c).picture = Analyze(F, NoCache).picture
  BY CachedLayers, AnalyzeIs
<1> DEFINE keys == {CacheKey(tf, F[tf]) : tf \in RanOf(F, c)} \ DOMAIN c
           C == Analyze(F, c).cache
<1>2. /\ DOMAIN C = keys \cup DOMAIN c
      /\ \A k \in DOMAIN C : C[k] = IF k \in keys THEN SnapOf(F, c)[k[1]] ELSE c[k]
  BY AnalyzeIs
<1> HIDE DEF C
<1>3. ASSUME NEW k \in keys
      PROVE  \E tf \in TimeFrames, t \in Nat :
                /\ k = <<tf, t>> /\ F[tf] # <<>> /\ t <= LastT(F[tf])
                /\ t = LastT(F[tf]) => C[k] = Fresh(F, tf)
  <2>1. PICK tf \in RanOf(F, c) : k = <<tf, LastT(F[tf])>>
    BY DEF CacheKey
  <2>2. tf \in TimeFrames /\ F[tf] # <<>> /\ (tf = "M15" => PoisOf(F, c) # {})
    BY <2>1 DEF RanOf, TimeFrames
  <2>3. C[k] = SnapOf(F, c)[tf]
    BY <1>2, <1>3, <2>1
  <2>4. SnapOf(F, c)[tf] = Fresh(F, tf)
    BY <2>2, CachedLayers DEF SnapOf, TimeFrames
  <2>5. LastT(F[tf]) \in Nat /\ LastT(F[tf]) <= LastT(F[tf])
    BY <2>2
  <2> QED
    BY <2>1, <2>2, <2>3, <2>4, <2>5
<1>4. ASSUME NEW k \in DOMAIN c, k \notin keys
      PROVE  \E tf \in TimeFrames, t \in Nat :
                /\ k = <<tf, t>> /\ F[tf] # <<>> /\ t <= LastT(F[tf])
                /\ t = LastT(F[tf]) => C[k] = Fresh(F, tf)
  <2>1. C[k] = c[k]
    BY <1>2, <1>4
  <2> QED
    BY <1>4, <2>1 DEF Current
<1>5. Current(F, C)
  BY <1>2, <1>3, <1>4 DEF Current
<1> QED
  BY <1>1, <1>5 DEF C

-----------------------------------------------------------------------------
(* The runner's invariant *)

LEMMA WindowBars ==
  ASSUME NEW f, Good(f), NEW n \in Nat \ {0}
  PROVE  ToSet(Window(f, n)) \subseteq ToSet(f)
<1> DEFINE l == Len(f)
           m == l - n + 1
           W == SubSeq(f, m, l)
<1>1. f \in Seq(Candles) /\ l \in Nat /\ DOMAIN f = 1..l
  BY FrameFacts DEF Good
<1> HIDE DEF l
<1>2. ASSUME l > n PROVE ToSet(W) \subseteq ToSet(f)
  <2>1. m \in 1..l + 1 /\ l \in 0..l /\ m \in 1..l /\ l - m + 1 = n
    BY <1>1, <1>2
  <2>2. /\ W \in Seq(Candles) /\ Len(W) = n
        /\ \A i \in 1..n : W[i] = f[m + i - 1]
    BY <1>1, <2>1, SubSeqProperties DEF l
  <2>3. DOMAIN W = 1..n
    BY <2>2, LenProperties
  <2>4. \A i \in 1..n : m + i - 1 \in 1..l
    BY <1>1, <1>2
  <2> HIDE DEF W, m
  <2> QED
    BY <1>1, <2>2, <2>3, <2>4 DEF ToSet
<1> QED
  BY <1>2 DEF Window, W, m, l

(* The runner between two bars.                                            *)
LiveInv ==
    /\ StackInv
    /\ Current(Frames(series), cache)
    /\ picture = Analyze(Frames(series), NoCache).picture

LEMMA LiveTimes ==
  ASSUME Live, NEW s, Good(s), Len(s) > 0
  PROVE  /\ Frames(s)["M15"] # <<>> /\ LastT(Frames(s)["M15"]) = LastT(s)
         /\ \A tf \in TimeFrames : Frames(s)[tf] # <<>> => LastT(Frames(s)[tf]) \in Nat
<1>1. Frames(s)["M15"] = Window(s, Lookback["M15"])
  BY LiveFrames
<1>2. s # <<>> /\ Lookback["M15"] \in Nat \ {0}
  BY EmptySeq, Spans DEF Good, TimeFrames
<1>3. Frames(s)["M15"] # <<>> /\ LastT(Frames(s)["M15"]) = LastT(s)
  BY <1>1, <1>2, WindowFacts
<1>4. ASSUME NEW tf \in TimeFrames, Frames(s)[tf] # <<>>
      PROVE  LastT(Frames(s)[tf]) \in Nat
  <2> DEFINE f == Frames(s)[tf]
  <2>1. Good(f)
    BY FramesGood
  <2>2. f # <<>> /\ 1 \in Nat \ {0}
    BY <1>4
  <2> HIDE DEF f
  <2>3. LastT(f) \in Nat
    BY <2>1, <2>2, WindowFacts
  <2> QED
    BY <2>3 DEF f
<1> QED
  BY <1>3, <1>4

(* One look at a cache that is current.                                    *)
LEMMA Looks ==
  ASSUME Live, NEW s, Good(s), Len(s) > 0, NEW c, Current(Frames(s), c)
  PROVE  /\ Analyze(Frames(s), c).picture = Analyze(Frames(s), NoCache).picture
         /\ Current(Frames(s), Analyze(Frames(s), c).cache)
<1> DEFINE F == Frames(s)
<1>1. /\ F["M15"] # <<>>
      /\ \A tf \in TimeFrames : F[tf] # <<>> => LastT(F[tf]) \in Nat
  BY LiveTimes
<1> HIDE DEF F
<1>2. Current(F, c)
  BY DEF F
<1>3. Analyze(F, c).picture = Analyze(F, NoCache).picture /\ Current(F, Analyze(F, c).cache)
  BY <1>1, <1>2, AnalyzeCurrent
<1> QED
  BY <1>3 DEF F

LEMMA Starts ==
  ASSUME Live, Init, StackInv
  PROVE  LiveInv
<1>1. /\ cache = Analyze(Frames(series), NoCache).cache
      /\ picture = Analyze(Frames(series), NoCache).picture
  BY ObservedIs DEF Init
<1>2. Good(series) /\ Len(series) > 0
  BY ReplayAssumption DEF StackInv, SeriesInv
<1>3. Current(Frames(series), NoCache)
  BY NothingCached DEF Current
<1>4. Current(Frames(series), Analyze(Frames(series), NoCache).cache)
  BY <1>2, <1>3, Looks
<1> QED
  BY <1>1, <1>4 DEF LiveInv

LEMMA GoesOn ==
  ASSUME Live, LiveInv, Next, StackInv'
  PROVE  /\ LiveInv' /\ \E m \in Moves : series' = NextSeries(series, m)
                                         /\ Follows(NextBar(series, m), series)
<1>1. Good(series) /\ Len(series) > 0
  BY ReplayAssumption DEF LiveInv, StackInv, SeriesInv
<1>2. PICK m \in Moves, account \in Accounts :
         /\ series' = NextSeries(series, m) /\ LastLow(NextSeries(series, m)) > 0
         /\ cache' = Analyze(Frames(series'), cache).cache
         /\ picture' = Analyze(Frames(series'), cache).picture
         /\ setup' = Build(picture') /\ verdict' = Answer(setup', account)
  BY StepIs
<1> DEFINE r == NextSeries(series, m)
           b == NextBar(series, m)
<1>3. Good(r) /\ Len(r) = Len(series) + 1 /\ b \in Candles /\ b.t = LastT(series) + 1
  BY <1>1, <1>2, NextGood
<1>4. Follows(b, series) /\ r = Append(series, b)
  BY <1>1, <1>3 DEF Follows, NextSeries
<1>5. Len(r) > 0
  BY <1>1, <1>3, FrameFacts
<1> HIDE DEF r, b
<1>6. Moved(Frames(series), Frames(r))
  BY <1>4, FramesMove
<1>7. Current(Frames(r), cache)
  BY <1>1, <1>3, <1>5, <1>6, CurrentMoves, LiveTimes DEF LiveInv
<1>8. /\ Analyze(Frames(r), cache).picture = Analyze(Frames(r), NoCache).picture
      /\ Current(Frames(r), Analyze(Frames(r), cache).cache)
  BY <1>3, <1>5, <1>7, Looks
<1>9. series' = r
  BY <1>2 DEF r
<1>10. LiveInv'
  BY <1>2, <1>8, <1>9 DEF LiveInv
<1> QED
  BY <1>2, <1>4, <1>10 DEF r, b

LEMMA LiveAlways ==
  ASSUME Live
  PROVE  Spec => []LiveInv
<1>1. Init /\ StackInv => LiveInv
  BY Starts
<1>2. LiveInv /\ StackInv' /\ [Next]_vars => LiveInv'
  <2> SUFFICES ASSUME LiveInv, StackInv', [Next]_vars PROVE LiveInv'
    OBVIOUS
  <2>1. CASE Next
    BY <2>1, GoesOn
  <2>2. CASE UNCHANGED vars
    BY <2>2 DEF LiveInv, vars
  <2> QED
    BY <2>1, <2>2
<1>3. Spec => []StackInv
  BY StackAlways
<1> QED
  BY <1>1, <1>2, <1>3, PTL DEF Spec

(* The runner's HTF cache never changes a picture: an entry is kept only   *)
(* while the frame it was made of has no new bar (CacheTransparent).       *)
THEOREM CacheAlwaysTransparent ==
  ASSUME Live
  PROVE  Spec => []CacheTransparent
<1>1. LiveInv => CacheTransparent
  BY DEF LiveInv, CacheTransparent
<1>2. Spec => []LiveInv
  BY LiveAlways
<1> QED
  BY <1>1, <1>2, PTL

-----------------------------------------------------------------------------
(* The first opens of a window *)

OpenKinds == {"YO", "MO", "WO", "DO"}

LEMMA RawKind ==
  \A f, kind, price, i : RawLevel(f, kind, price, i).kind = kind
  BY DEF RawLevel

LEMMA FirstOpens ==
  ASSUME NEW f, Good(f), f # <<>>
  PROVE  /\ \A kind \in OpenKinds : RawLevel(f, kind, f[1].o, 1) \in RawLevels(f)
         /\ \A v \in RawLevels(f) :
               v.kind \in OpenKinds /\ v.from = f[1].t => v.price = f[1].o
         /\ \A v \in RawLevels(f) : v.kind = "YO" => v.from = f[1].t
<1> DEFINE N == DOMAIN f
           Turns(Key(_)) == {i \in N : i = 1 \/ Key(f[i].t) # Key(f[i - 1].t)}
           Opens(kind, S) == {RawLevel(f, kind, f[i].o, i) : i \in S}
           Previous(kind, S) ==
             {RawLevel(f, kind, f[Max({j \in S : j < i})].o, i) : i \in S \ {1}}
           months  == Turns(MonthOf)
           weeks   == Turns(WeekOpen)
           days    == Turns(DayOf)
           mondays == {i \in N : Weekday(f[i].t) = 0}
           Group(i) == {j \in mondays : CalendarWeek(f[j].t) = CalendarWeek(f[i].t)}
           aths    == {i \in N : \A j \in 1..i - 1 : f[j].h < f[i].h}
           highs == {RawLevel(f, "MONDAY_H", Max({f[j].h : j \in Group(i)}), Min(Group(i))) :
                        i \in mondays}
           lows == {RawLevel(f, "MONDAY_L", Min({f[j].l : j \in Group(i)}), Min(Group(i))) :
                        i \in mondays}
           olds == {RawLevel(f, "OLD_ATH", f[i].h, i) : i \in aths}
           prevs == {RawLevel(f, "PREV_ATH", f[Max({j \in aths : j < i})].h, i) :
                        i \in aths \ {1}}
           opens == Opens("YO", {1}) \cup Opens("MO", months) \cup Opens("DO", days)
                    \cup Opens("WO", weeks)
           rest == Previous("PMO", months) \cup Previous("PWO", weeks)
                   \cup highs \cup lows \cup olds \cup prevs
<1>1. RawLevels(f) = IF N = {} THEN {}
         ELSE Opens("YO", {1}) \cup Opens("MO", months) \cup Opens("DO", days)
              \cup Opens("WO", weeks) \cup Previous("PMO", months) \cup Previous("PWO", weeks)
              \cup highs \cup lows \cup olds \cup prevs
  BY DEF RawLevels, RawLevel
<1>2. /\ Len(f) \in Nat /\ N = 1..Len(f) /\ Len(f) # 0
      /\ \A i, j \in 1..Len(f) : i < j => f[i].t < f[j].t
      /\ \A i \in 1..Len(f) : f[i].t \in Nat
  BY FrameFacts, EmptySeq DEF Good
<1>3. 1 \in N /\ 1 \in months /\ 1 \in weeks /\ 1 \in days
  BY <1>2
<1>4. months \subseteq N /\ weeks \subseteq N /\ days \subseteq N
  OBVIOUS
<1>5. ASSUME NEW i \in N, f[i].t = f[1].t PROVE i = 1
  BY <1>2, <1>3, <1>5
<1> HIDE DEF months, weeks, days
<1>6. \A v \in rest : v.kind \notin OpenKinds
  <2> HIDE DEF Group
  <2> DEFINE Prior(S, i) == Max({j \in S : j < i})
             top(i) == Max({f[j].h : j \in Group(i)})
             low(i) == Min({f[j].l : j \in Group(i)})
             place(i) == Min(Group(i))
  <2>0. /\ Previous("PMO", months) =
             {RawLevel(f, "PMO", f[Prior(months, i)].o, i) : i \in months \ {1}}
        /\ Previous("PWO", weeks) =
             {RawLevel(f, "PWO", f[Prior(weeks, i)].o, i) : i \in weeks \ {1}}
        /\ highs = {RawLevel(f, "MONDAY_H", top(i), place(i)) : i \in mondays}
        /\ lows = {RawLevel(f, "MONDAY_L", low(i), place(i)) : i \in mondays}
        /\ prevs = {RawLevel(f, "PREV_ATH", f[Prior(aths, i)].h, i) : i \in aths \ {1}}
    OBVIOUS
  <2>5. \A v \in olds : v.kind = "OLD_ATH"
    BY RawKind
  <2> HIDE DEF Previous, highs, lows, olds, prevs, Prior, top, low, place, aths, mondays
  <2>1. \A v \in Previous("PMO", months) : v.kind = "PMO"
    BY <2>0, RawKind
  <2>2. \A v \in Previous("PWO", weeks) : v.kind = "PWO"
    BY <2>0, RawKind
  <2>3. \A v \in highs : v.kind = "MONDAY_H"
    BY <2>0, RawKind
  <2>4. \A v \in lows : v.kind = "MONDAY_L"
    BY <2>0, RawKind
  <2>6. \A v \in prevs : v.kind = "PREV_ATH"
    BY <2>0, RawKind
  <2> QED
    BY <2>1, <2>2, <2>3, <2>4, <2>5, <2>6 DEF OpenKinds
<1>7. \A v \in opens : \E i \in N : v.from = f[i].t /\ v.price = f[i].o
  BY <1>3, <1>4 DEF RawLevel
<1>8. \A v \in opens : v.kind = "YO" => v.from = f[1].t
  BY DEF RawLevel
<1>9. \A kind \in OpenKinds : RawLevel(f, kind, f[1].o, 1) \in opens
  BY <1>3 DEF OpenKinds
<1>10. RawLevels(f) = opens \cup rest
  <2>1. N # {}
    BY <1>3
  <2> HIDE DEF N, Opens, Previous, highs, lows, olds, prevs
  <2> QED
    BY <1>1, <2>1
<1> HIDE DEF opens, rest
<1>11. ASSUME NEW v \in RawLevels(f), v.kind \in OpenKinds, v.from = f[1].t
       PROVE  v.price = f[1].o
  <2>1. v \in opens
    BY <1>6, <1>10, <1>11
  <2>2. PICK i \in N : v.from = f[i].t /\ v.price = f[i].o
    BY <1>7, <2>1
  <2> QED
    BY <1>5, <1>11, <2>2
<1>12. \A v \in RawLevels(f) : v.kind = "YO" => v.from = f[1].t
  BY <1>6, <1>10, <1>8 DEF OpenKinds
<1> QED
  BY <1>9, <1>10, <1>11, <1>12

LEMMA FirstOpenLevels ==
  ASSUME NEW f, Good(f), f # <<>>
  PROVE  /\ \A kind \in OpenKinds : \E x \in Levels(f) : /\ x.kind = kind /\ x.at = f[1].t
                                                        /\ x.lo = f[1].o /\ x.hi = f[1].o
         /\ \A x \in Levels(f) : x.kind \in OpenKinds /\ x.at = f[1].t =>
                                    x.lo = f[1].o /\ x.hi = f[1].o
         /\ \A x \in Levels(f) : x.kind = "YO" => x.at = f[1].t
<1> DEFINE raw == RawLevels(f)
           until(lv) == LET later == Later(raw, lv)
                        IN IF later = {} THEN NoEnd ELSE Min(later)
           level == [lv \in raw |-> [class |-> "LEVEL", kind |-> lv.kind, side |-> "ANY",
                                     at |-> lv.from, lo |-> lv.price, hi |-> lv.price,
                                     until |-> until(lv)]]
<1>1. Levels(f) = {level[lv] : lv \in raw}
  BY DEF Levels
<1> HIDE DEF until
<1>2. \A lv \in raw : /\ level[lv].kind = lv.kind /\ level[lv].at = lv.from
                      /\ level[lv].lo = lv.price /\ level[lv].hi = lv.price
  OBVIOUS
<1> HIDE DEF raw, level
<1>3. /\ \A kind \in OpenKinds : RawLevel(f, kind, f[1].o, 1) \in raw
      /\ \A v \in raw : v.kind \in OpenKinds /\ v.from = f[1].t => v.price = f[1].o
      /\ \A v \in raw : v.kind = "YO" => v.from = f[1].t
  BY FirstOpens DEF raw
<1>4. ASSUME NEW kind \in OpenKinds
      PROVE  \E x \in Levels(f) : /\ x.kind = kind /\ x.at = f[1].t
                                  /\ x.lo = f[1].o /\ x.hi = f[1].o
  <2> DEFINE v == RawLevel(f, kind, f[1].o, 1)
  <2>1. v \in raw /\ v.kind = kind /\ v.price = f[1].o /\ v.from = f[1].t
    BY <1>3 DEF RawLevel
  <2> HIDE DEF v
  <2>2. level[v] \in Levels(f)
    BY <1>1, <2>1
  <2> QED
    BY <1>2, <2>1, <2>2
<1> QED
  BY <1>1, <1>2, <1>3, <1>4

(* Two levels at one price confirm each other.                             *)
LEMMA PriceConfirms ==
  ASSUME NEW p, LevelOk(p), NEW pic, SnapshotOk(pic.h4), IsFiniteSet(pic.pois),
         NEW x \in pic.h4.levels, LevelOk(x), x.kind # p.kind, x.lo = p.lo,
         NEW side
  PROVE  FactorCount(Factors(p, side, pic)) >= 2
<1> DEFINE fs == Factors(p, side, pic)
           h4 == pic.h4
           mid == p.lo + p.hi
           Close(y) == 1000 * Distance(y.lo + y.hi, mid) <= mid * ClusterTolerance
           A == {y \in pic.pois \ {p} : Close(y)}
           B == {y \in h4.levels : ~SameLevel(y, p) /\ Close(y)}
<1>1. /\ p.lo \in Nat /\ p.hi = p.lo /\ x.hi = p.lo /\ ClusterTolerance \in Nat
      /\ ~SameLevel(x, p)
  BY BuilderAssumption DEF LevelOk, SameLevel
<1>2. mid \in Nat /\ mid * ClusterTolerance \in Nat /\ mid = 2 * p.lo
  <2>1. mid \in Nat
    BY <1>1
  <2>2. \A a, b \in Nat : a * b \in Nat
    OBVIOUS
  <2> QED
    BY <1>1, <2>1, <2>2
<1>3. fs[4] = 1000
  <2> DEFINE tol == Max({2000 * (p.hi - p.lo), mid * ClusterTolerance})
  <2>1. 2000 * (p.hi - p.lo) = 0
    BY <1>1
  <2>2. tol \in Nat
    <3> DEFINE m == mid * ClusterTolerance
    <3>1. m \in Nat
      BY <1>2
    <3>2. tol = Max({0, m})
      BY <2>1
    <3> HIDE DEF m, tol
    <3> QED
      BY <3>1, <3>2, MaxOfTwo
  <2>3. 1000 * (2 * p.lo - 2 * x.lo) = 0 /\ 1000 * (2 * x.lo - 2 * p.hi) = 0
    BY <1>1
  <2>4. NearBand(p, 2 * x.lo) <=>
           1000 * (2 * p.lo - 2 * x.lo) <= tol /\ 1000 * (2 * x.lo - 2 * p.hi) <= tol
    BY DEF NearBand
  <2> HIDE DEF tol
  <2>5. NearBand(p, 2 * x.lo)
    BY <2>2, <2>3, <2>4
  <2>6. FactorLevel(p, pic.h4, pic.d1) = 1000
    BY <1>1, <2>5 DEF FactorLevel
  <2> QED
    BY <2>6 DEF Factors
<1>4. fs[6] >= 600 /\ fs[6] \in Nat
  <2>1. Close(x)
    <3>1. x.lo + x.hi = mid
      BY <1>1
    <3>2. Distance(mid, mid) = 0
      BY <1>2, DistanceIs
    <3> HIDE DEF mid
    <3> QED
      BY <1>2, <3>1, <3>2
  <2>2. x \in B
    BY <1>1, <2>1
  <2>3. IsFiniteSet(A) /\ IsFiniteSet(B)
    BY FS_Subset DEF SnapshotOk
  <2>4. fs[6] = LET count == Cardinality(A) + Cardinality(B)
                IN IF count = 0 THEN 0 ELSE IF count = 1 THEN 600 ELSE 1000
    BY DEF Factors, FactorClustering
  <2> HIDE DEF A, B, fs
  <2>5. Cardinality(A) \in Nat /\ Cardinality(B) \in Nat /\ Cardinality(B) # 0
    BY <2>2, <2>3, FS_CardinalityType, FS_EmptySet
  <2> QED
    BY <2>4, <2>5
<1> HIDE DEF fs
<1> DEFINE K == {i \in IndependentFactors : fs[i] > 0}
<1>5. {4, 6} \subseteq K
  BY <1>3, <1>4 DEF IndependentFactors
<1>6. IsFiniteSet(K)
  <2> DEFINE n == 6
  <2>1. K \subseteq 0..n
    BY DEF IndependentFactors
  <2>3. n \in Int /\ 0 \in Int
    OBVIOUS
  <2> HIDE DEF n
  <2>2. IsFiniteSet(0..n)
    BY <2>3, FS_Interval
  <2> QED
    BY <2>1, <2>2, FS_Subset
<1>7. Cardinality({4, 6}) = 2
  <2> DEFINE one == {4}
  <2>1. Cardinality(one) = 1 /\ IsFiniteSet(one)
    BY FS_Singleton
  <2>4. 6 \notin one
    OBVIOUS
  <2> HIDE DEF one
  <2>2. Cardinality(one \cup {6}) = Cardinality(one) + 1
    BY <2>1, <2>4, FS_AddElement
  <2> USE DEF one
  <2>3. {4} \cup {6} = {4, 6}
    OBVIOUS
  <2> QED
    BY <2>1, <2>2, <2>3
<1> HIDE DEF K
<1>8. Cardinality({4, 6}) <= Cardinality(K)
  BY <1>5, <1>6, FS_Subset
<1>9. FactorCount(fs) = Cardinality(K)
  BY DEF FactorCount, K
<1>10. Cardinality(K) \in Nat
  BY <1>6, FS_CardinalityType
<1> QED
  BY <1>7, <1>8, <1>9, <1>10 DEF fs

(* The calendar opens of the H4 window's first bar always confirm each     *)
(* other: the gate on independent factors never rejects one                *)
(* (FirstOpensConfirmThemselves).                                          *)
THEOREM FirstOpensAlwaysConfirm ==
  ASSUME Live
  PROVE  Spec => []FirstOpensConfirmThemselves
<1>1. LiveInv => FirstOpensConfirmThemselves
  <2> SUFFICES ASSUME LiveInv, NEW p \in picture.pois, p.class = "LEVEL",
                      p.kind \in OpenKinds, p.at = H4[1].t
               PROVE  FactorCount(Factors(p, "LONG", picture)) >= 2
    BY DEF FirstOpensConfirmThemselves, OpenKinds
  <2> DEFINE F == Frames(series)
  <2>1. Good(series) /\ Good(H4) /\ FramesOk(F)
    BY FramesGood, FramesAreOk DEF LiveInv, StackInv, SeriesInv, H4, TimeFrames
  <2> HIDE DEF F
  <2>2. /\ picture.pois = PoisOf(F, NoCache) /\ picture.h4 = RichOf(F, NoCache)
    BY AnalyzeIs DEF LiveInv, F
  <2>3. Current(F, NoCache)
    BY NothingCached DEF Current
  <2>4. CacheOk(NoCache)
    BY DEF CacheOk, NoCache
  <2>5. SnapshotOk(H4Of(F, NoCache)) /\ SnapshotOk(picture.h4) /\ IsFiniteSet(picture.pois)
    BY <2>1, <2>2, <2>4, LayersOk
  <2>6. picture.h4.levels = H4Of(F, NoCache).levels
    BY <2>1, <2>2, <2>5, EnrichedOk DEF RichOf, FramesOk, TimeFrames
  <2>7. p \in picture.h4.levels
    <3>1. p \in FilterPois(RichOf(F, NoCache), D1Of(F, NoCache).bias)
      BY <2>2 DEF PoisOf, Nearby
    <3>2. p \in picture.h4.zones \cup picture.h4.imbalances \cup picture.h4.levels
      BY <2>2, <3>1 DEF FilterPois
    <3>3. /\ \A z \in picture.h4.zones : z.class = "ZONE"
          /\ \A m \in picture.h4.imbalances : m.class = "IMBALANCE"
      BY <2>5 DEF SnapshotOk, ZoneOk, ImbalanceOk
    <3> QED
      BY <3>2, <3>3
  <2>8. H4 # <<>> /\ picture.h4.levels = Levels(H4)
    <3>1. F["H4"] = H4
      BY DEF F, H4
    <3>2. H4 # <<>>
      <4> SUFFICES ASSUME H4 = <<>> PROVE FALSE
        OBVIOUS
      <4>1. H4Of(F, NoCache) = EmptySnapshot
        BY <3>1 DEF H4Of, MtfSnapshot
      <4> QED
        BY <2>6, <2>7, <4>1 DEF EmptySnapshot
    <3>3. H4Of(F, NoCache) = Fresh(F, "H4")
      BY <2>3, <3>1, <3>2, CachedLayers
    <3>4. Fresh(F, "H4").levels = Levels(H4)
      BY <3>1 DEF Fresh, Snapshot
    <3> QED
      BY <2>6, <3>2, <3>3, <3>4
  <2>9. p.lo = H4[1].o
    BY <2>1, <2>7, <2>8, FirstOpenLevels
  <2>10. \E kind \in OpenKinds : kind # p.kind
    BY DEF OpenKinds
  <2>11. PICK x \in picture.h4.levels : x.kind # p.kind /\ x.lo = p.lo
    BY <2>1, <2>8, <2>9, <2>10, FirstOpenLevels
  <2>12. LevelOk(p) /\ LevelOk(x)
    BY <2>5, <2>7 DEF SnapshotOk
  <2> QED
    BY <2>5, <2>11, <2>12, PriceConfirms
<1>2. Spec => []LiveInv
  BY LiveAlways
<1> QED
  BY <1>1, <1>2, PTL

-----------------------------------------------------------------------------
(* The scan for structure breaks grows with its frame *)

(* What the scan for structure breaks may hold.                            *)
Breaks == [at : Nat, side : Sides, price : Nat, swing : Nat, kind : {"CHoCH", "BOS"}]
ScanStates == [trend : Biases, high : Nat, low : Nat, breaks : SUBSET Breaks]

LEMMA SwingsInFrame ==
  ASSUME NEW f, Good(f)
  PROVE  SwingHighs(f) \subseteq DOMAIN f /\ SwingLows(f) \subseteq DOMAIN f
<1>1. Len(f) \in Nat /\ DOMAIN f = 1..Len(f) /\ SwingLookback \in Nat \ {0}
  BY FrameFacts, DetectorAssumption
<1>2. Candidates(f) \subseteq DOMAIN f
  BY <1>1 DEF Candidates
<1> QED
  BY <1>2 DEF SwingHighs, SwingLows

LEMMA ActiveIs ==
  ASSUME NEW f, Good(f), NEW known, known \subseteq DOMAIN f, NEW n
  PROVE  \/ ActiveSwing(known, n) = 0
         \/ ActiveSwing(known, n) \in DOMAIN f /\ ActiveSwing(known, n) \in known
<1>1. known # {} => Max(known) \in known
  BY MaxPosition
<1> QED
  BY <1>1 DEF ActiveSwing

LEMMA StepInStates ==
  ASSUME NEW f, Good(f), NEW hs, hs \subseteq DOMAIN f, NEW ls, ls \subseteq DOMAIN f,
         NEW i \in DOMAIN f, NEW s \in ScanStates
  PROVE  ScanStep(f, hs, ls, i, s) \in ScanStates
<1> DEFINE kh    == KnownBy(hs, i)
           kl    == KnownBy(ls, i)
           high  == ActiveSwing(kh, s.high)
           low   == ActiveSwing(kl, s.low)
           prior == PriorTrend(f, kh, kl)
           up    == high # 0 /\ f[i].c > f[high].h
           down  == low # 0 /\ f[i].c < f[low].l
           mid   == IF up THEN "BULLISH" ELSE s.trend
           Break(side, swing, price, kind) ==
              [at |-> f[i].t, side |-> side, price |-> price,
               swing |-> f[swing].t, kind |-> kind]
           ups   == IF up THEN {Break("LONG", high, f[high].h,
                                      BreakKind(s.trend, prior, "BEARISH"))} ELSE {}
           downs == IF down THEN {Break("SHORT", low, f[low].l,
                                        BreakKind(mid, prior, "BULLISH"))} ELSE {}
<1>1. ScanStep(f, hs, ls, i, s) =
        [trend |-> IF down THEN "BEARISH" ELSE mid, high |-> IF up THEN high ELSE s.high,
         low |-> IF down THEN low ELSE s.low, breaks |-> s.breaks \cup ups \cup downs]
  BY DEF ScanStep
<1>2. kh \subseteq DOMAIN f /\ kl \subseteq DOMAIN f
  BY DEF KnownBy, ConfirmedBy
<1> HIDE DEF kh, kl
<1>3. (high = 0 \/ high \in DOMAIN f) /\ (low = 0 \/ low \in DOMAIN f)
  BY <1>2, ActiveIs
<1>4. DOMAIN f \subseteq Nat
  BY FrameFacts
<1>5. \A j \in DOMAIN f : f[j].t \in Nat /\ f[j].h \in Nat /\ f[j].l \in Nat
  BY FrameFacts
<1>6. \A a, b, c : BreakKind(a, b, c) \in {"CHoCH", "BOS"}
  BY DEF BreakKind
<1> HIDE DEF high, low, prior
<1>7. ups \subseteq Breaks /\ downs \subseteq Breaks
  <2>1. up => Break("LONG", high, f[high].h, BreakKind(s.trend, prior, "BEARISH")) \in Breaks
    BY <1>3, <1>5, <1>6 DEF Breaks, Sides
  <2>2. down => Break("SHORT", low, f[low].l, BreakKind(mid, prior, "BULLISH")) \in Breaks
    BY <1>3, <1>5, <1>6 DEF Breaks, Sides
  <2> HIDE DEF up, down, Break, mid
  <2> QED
    BY <2>1, <2>2
<1>8. (up => high \in Nat) /\ (down => low \in Nat)
  BY <1>3, <1>4
<1>9. s.trend \in Biases /\ s.high \in Nat /\ s.low \in Nat /\ s.breaks \subseteq Breaks
  BY DEF ScanStates
<1> HIDE DEF up, down, ups, downs
<1> QED
  BY <1>1, <1>7, <1>8, <1>9 DEF ScanStates, Biases

(* The scan, bar by bar.                                                   *)
Scanning(g, f) ==
    /\ g \in [0..Len(f) -> ScanStates] /\ g[0] = ScanStart
    /\ \A i \in 1..Len(f) : g[i] = ScanStep(f, SwingHighs(f), SwingLows(f), i, g[i - 1])
    /\ Scan(f) = g[Len(f)]

LEMMA ScanIs ==
  ASSUME NEW f, Good(f)
  PROVE  \E g : Scanning(g, f)
<1> DEFINE n == Len(f)
           Q == ScanStates
           hs == SwingHighs(f)
           ls == SwingLows(f)
           Add(s, i) == ScanStep(f, hs, ls, i, s)
           Eq(g) == g = [i \in 0..n |-> IF i = 0 THEN ScanStart ELSE Add(g[i - 1], i)]
           step == [p \in (1..n) \X Q |-> Add(p[2], p[1])]
           scan == CHOOSE g : Eq(g)
<1>1. n \in Nat /\ DOMAIN f = 1..n /\ ScanStart \in Q
  BY FrameFacts DEF ScanStart, ScanStates, Biases
<1>2. \A s \in Q, i \in 1..n : Add(s, i) \in Q
  BY <1>1, SwingsInFrame, StepInStates
<1>3. Scan(f) = scan[n]
  BY DEF Scan
<1> HIDE DEF n, Q, Add
<1>4. step \in [(1..n) \X Q -> Q]
  BY <1>2
<1>5. \A i \in 1..n, s \in Q : step[<<i, s>>] = Add(s, i)
  OBVIOUS
<1> HIDE DEF step
<1>6. PICK g : Recurses(g, n, Q, ScanStart, step)
  BY <1>1, <1>4, Recursion
<1>7. g \in [0..n -> Q] /\ g[0] = ScanStart /\ \A i \in 1..n : g[i] = step[<<i, g[i - 1]>>]
  BY <1>6 DEF Recurses
<1>8. Eq(g)
  <2>1. ASSUME NEW i \in 1..n
        PROVE  g[i] = Add(g[i - 1], i)
    <3>1. g[i - 1] \in Q
      BY <1>1, <1>7
    <3> QED
      BY <1>5, <1>7, <3>1
  <2>2. g = [i \in 0..n |-> g[i]]
    BY <1>7
  <2>3. \A i \in 0..n : g[i] = IF i = 0 THEN ScanStart ELSE Add(g[i - 1], i)
    BY <1>1, <1>7, <2>1
  <2> QED
    BY <2>2, <2>3
<1>9. Eq(scan)
  <2> HIDE DEF Eq
  <2> QED
    BY <1>8
<1> HIDE DEF scan
<1>10. /\ DOMAIN scan = 0..n /\ scan[0] = ScanStart
       /\ \A i \in 1..n : scan[i] = Add(scan[i - 1], i)
  BY <1>1, <1>9
<1>11. \A i \in 0..n : scan[i] \in Q
  <2> DEFINE T == {i \in 0..n : scan[i] \in Q}
  <2>1. 0 \in T
    BY <1>1, <1>10
  <2>2. ASSUME NEW i \in 0..n, i \in T, i < n
        PROVE  i + 1 \in T
    <3>1. i + 1 \in 1..n /\ (i + 1) - 1 = i
      BY <1>1, <2>2
    <3>2. scan[i + 1] = Add(scan[i], i + 1)
      BY <1>10, <3>1
    <3>3. scan[i + 1] \in Q
      BY <1>2, <2>2, <3>1, <3>2
    <3> QED
      BY <1>1, <3>1, <3>3
  <2>3. \A i \in 0..n : i \in T => (i < n => i + 1 \in T)
    BY <2>2
  <2>4. \A i \in 0..n : i \in T
    <3> HIDE DEF T
    <3> QED
      BY <1>1, <2>1, <2>3, InductionTo
  <2> QED
    BY <2>4
<1>12. scan \in [0..n -> Q]
  <2>1. scan = [i \in 0..n |-> scan[i]]
    BY <1>9, <1>10
  <2> QED
    BY <1>11, <2>1
<1> QED
  BY <1>3, <1>10, <1>12 DEF Scanning, n, Q, Add

-----------------------------------------------------------------------------
(* One bar more: what was known before it is known as it was.              *)
Extends(f, g) == Good(f) /\ Good(g) /\ Longer(f, g)

LEMMA ExtendsBy ==
  ASSUME NEW f, NEW g, Extends(f, g)
  PROVE  /\ Good(f) /\ Good(g) /\ Len(f) \in Nat /\ Len(g) = Len(f) + 1
         /\ DOMAIN f = 1..Len(f) /\ DOMAIN g = 1..Len(f) + 1
         /\ \A i \in 1..Len(f) : g[i] = f[i]
         /\ LastT(g) = g[Len(f) + 1].t
<1>1. Good(f) /\ Good(g) /\ Len(f) \in Nat /\ DOMAIN f = 1..Len(f) /\ DOMAIN g = 1..Len(g)
  BY FrameFacts DEF Extends
<1>2. PICK x \in Candles : g = Append(f, x) /\ \A y \in ToSet(f) : y.t < x.t
  BY DEF Extends, Longer
<1>3. Len(g) = Len(f) + 1 /\ \A i \in 1..Len(f) : g[i] = f[i]
  BY <1>1, <1>2, AppendGood
<1> QED
  BY <1>1, <1>3 DEF LastT

LEMMA KnownSame ==
  ASSUME NEW f, NEW g, Extends(f, g), NEW i \in 1..Len(f)
  PROVE  /\ KnownBy(SwingHighs(f), i) = KnownBy(SwingHighs(g), i)
         /\ KnownBy(SwingLows(f), i) = KnownBy(SwingLows(g), i)
<1>1. /\ Len(f) \in Nat /\ Len(g) = Len(f) + 1 /\ SwingLookback \in Nat \ {0}
      /\ \A j \in 1..Len(f) : g[j] = f[j]
  BY ExtendsBy, DetectorAssumption
<1>2. \A s : s \in Candidates(g) /\ s + SwingLookback <= i <=>
             s \in Candidates(f) /\ s + SwingLookback <= i
  BY <1>1 DEF Candidates
<1>3. ASSUME NEW s \in Candidates(f), s + SwingLookback <= i, NEW k \in 1..SwingLookback
      PROVE  /\ s \in 1..Len(f) /\ s - k \in 1..Len(f) /\ s + k \in 1..Len(f)
             /\ g[s] = f[s] /\ g[s - k] = f[s - k] /\ g[s + k] = f[s + k]
  <2>1. s \in 1..Len(f) /\ s - k \in 1..Len(f) /\ s + k \in 1..Len(f)
    BY <1>1, <1>3 DEF Candidates
  <2> QED
    BY <1>1, <2>1
<1>4. ASSUME NEW s, s + SwingLookback <= i
      PROVE  /\ s \in SwingHighs(f) <=> s \in SwingHighs(g)
             /\ s \in SwingLows(f) <=> s \in SwingLows(g)
  <2>1. CASE s \in Candidates(f)
    <3>1. s \in Candidates(g)
      BY <1>2, <1>4, <2>1
    <3>2. \A k \in 1..SwingLookback :
             g[s] = f[s] /\ g[s - k] = f[s - k] /\ g[s + k] = f[s + k]
      BY <1>3, <1>4, <2>1
    <3> QED
      BY <2>1, <3>1, <3>2 DEF SwingHighs, SwingLows
  <2>2. CASE s \notin Candidates(f)
    BY <1>2, <1>4, <2>2 DEF SwingHighs, SwingLows
  <2> QED
    BY <2>1, <2>2
<1> QED
  BY <1>4 DEF KnownBy, ConfirmedBy

LEMMA StepSame ==
  ASSUME NEW f, NEW g, Extends(f, g), NEW i \in 1..Len(f), NEW s
  PROVE  ScanStep(g, SwingHighs(g), SwingLows(g), i, s) =
         ScanStep(f, SwingHighs(f), SwingLows(f), i, s)
<1> DEFINE kh == KnownBy(SwingHighs(f), i)
           kl == KnownBy(SwingLows(f), i)
           high == ActiveSwing(kh, s.high)
           low  == ActiveSwing(kl, s.low)
<1>1. /\ Good(f) /\ DOMAIN f = 1..Len(f) /\ Len(f) \in Nat
      /\ \A j \in 1..Len(f) : g[j] = f[j]
  BY ExtendsBy
<1>2. kh \subseteq DOMAIN f /\ kl \subseteq DOMAIN f
  BY <1>1, SwingsInFrame DEF KnownBy, ConfirmedBy
<1>3. KnownBy(SwingHighs(g), i) = kh /\ KnownBy(SwingLows(g), i) = kl
  BY KnownSame
<1> HIDE DEF kh, kl
<1>4. (high = 0 \/ g[high] = f[high]) /\ (low = 0 \/ g[low] = f[low]) /\ g[i] = f[i]
  BY <1>1, <1>2, ActiveIs
<1>5. ASSUME NEW S, S \subseteq DOMAIN f, Cardinality(S) >= 2
      PROVE  g[Max(S)] = f[Max(S)] /\ g[Max(S \ {Max(S)})] = f[Max(S \ {Max(S)})]
  <2>1. IsFiniteSet(S)
    BY <1>1, <1>5, BarsFinite
  <2>2. S # {}
    BY <1>5, FS_EmptySet
  <2>3. Max(S) \in S
    BY <1>1, <1>5, <2>2, MaxPosition
  <2> DEFINE m == Max(S)
             R == S \ {m}
  <2>4. R # {} /\ R \subseteq DOMAIN f
    <3>1. Cardinality(R) = Cardinality(S) - 1 /\ Cardinality(S) \in Nat
      BY <2>1, <2>3, FS_RemoveElement, FS_CardinalityType
    <3>2. Cardinality(R) # 0
      BY <1>5, <3>1
    <3> QED
      BY <1>5, <3>2, FS_EmptySet
  <2> HIDE DEF R
  <2>5. Max(R) \in R
    BY <1>1, <2>4, MaxPosition
  <2> QED
    BY <1>1, <1>5, <2>3, <2>4, <2>5 DEF R
<1>6. PriorTrend(g, kh, kl) = PriorTrend(f, kh, kl)
  BY <1>2, <1>5 DEF PriorTrend
<1> HIDE DEF high, low
<1>7. /\ (high # 0 /\ g[i].c > g[high].h) = (high # 0 /\ f[i].c > f[high].h)
      /\ (low # 0 /\ g[i].c < g[low].l) = (low # 0 /\ f[i].c < f[low].l)
  BY <1>4
<1>8. ActiveSwing(kh, s.high) = high /\ ActiveSwing(kl, s.low) = low
  BY DEF high, low
<1>9. KnownBy(SwingHighs(f), i) = kh /\ KnownBy(SwingLows(f), i) = kl
  BY DEF kh, kl
<1>10. /\ ScanStep(g, SwingHighs(g), SwingLows(g), i, s) =
          ScanStep(f, SwingHighs(f), SwingLows(f), i, s)
  BY <1>3, <1>4, <1>6, <1>7, <1>8, <1>9 DEF ScanStep
<1> QED
  BY <1>10

LEMMA ScanGrows ==
  ASSUME NEW f, NEW g, Extends(f, g)
  PROVE  Scan(g) = ScanStep(g, SwingHighs(g), SwingLows(g), Len(f) + 1, Scan(f))
<1> DEFINE n == Len(f)
<1>1. Good(f) /\ Good(g) /\ n \in Nat /\ Len(g) = n + 1
  BY ExtendsBy
<1>2. PICK a : Scanning(a, f)
  BY <1>1, ScanIs
<1>3. PICK b : Scanning(b, g)
  BY <1>1, ScanIs
<1>4. /\ a[0] = ScanStart /\ b[0] = ScanStart /\ Scan(f) = a[n] /\ Scan(g) = b[n + 1]
      /\ \A i \in 1..n : a[i] = ScanStep(f, SwingHighs(f), SwingLows(f), i, a[i - 1])
      /\ \A i \in 1..n + 1 : b[i] = ScanStep(g, SwingHighs(g), SwingLows(g), i, b[i - 1])
  BY <1>1, <1>2, <1>3 DEF Scanning
<1> DEFINE U == {i \in 0..n : a[i] = b[i]}
<1>5. 0 \in U
  BY <1>1, <1>4
<1>6. ASSUME NEW i \in 0..n, i \in U, i < n
      PROVE  i + 1 \in U
  <2>1. i + 1 \in 1..n /\ (i + 1) - 1 = i /\ i + 1 \in 1..n + 1
    BY <1>1, <1>6
  <2>2. a[i + 1] = b[i + 1]
    BY <1>4, <1>6, <2>1, StepSame
  <2> QED
    BY <1>1, <2>1, <2>2
<1>7. \A i \in 0..n : i \in U => (i < n => i + 1 \in U)
  BY <1>6
<1>8. \A i \in 0..n : i \in U
  <2> HIDE DEF U, n
  <2> QED
    BY <1>1, <1>5, <1>7, InductionTo
<1>9. a[n] = b[n]
  BY <1>1, <1>8
<1>10. n + 1 \in 1..n + 1 /\ (n + 1) - 1 = n
  BY <1>1
<1> QED
  BY <1>4, <1>9, <1>10

LEMMA BreaksGrow ==
  ASSUME NEW f, NEW g, Extends(f, g)
  PROVE  /\ Structure(f) \subseteq Structure(g)
         /\ \A b \in Structure(g) \ Structure(f) : b.at = LastT(g)
<1> DEFINE i == Len(f) + 1
           s == Scan(f)
           hs == SwingHighs(g)
           ls == SwingLows(g)
<1>1. Scan(g) = ScanStep(g, hs, ls, i, s) /\ LastT(g) = g[i].t
  BY ScanGrows, ExtendsBy
<1> HIDE DEF i, s, hs, ls
<1>2. /\ s.breaks \subseteq ScanStep(g, hs, ls, i, s).breaks
      /\ \A b \in ScanStep(g, hs, ls, i, s).breaks : b \in s.breaks \/ b.at = g[i].t
  BY DEF ScanStep
<1> QED
  BY <1>1, <1>2 DEF Structure, s

-----------------------------------------------------------------------------
(* Breaks are final *)

(* While it stands, a window grows by the frame's new bar.                 *)
LEMMA WindowGrows ==
  ASSUME NEW f, Good(f), NEW g, Good(g), Longer(f, g), NEW n \in Nat \ {0},
         Anchored(Window(f, n), Window(g, n))
  PROVE  Extends(Window(f, n), Window(g, n))
<1> DEFINE l == Len(f)
<1>1. Extends(f, g)
  BY DEF Extends
<1>2. /\ l \in Nat /\ Len(g) = l + 1 /\ DOMAIN f = 1..l /\ DOMAIN g = 1..l + 1
      /\ \A i \in 1..l : g[i] = f[i]
  BY <1>1, ExtendsBy
<1>3. /\ f \in Seq(Candles) /\ g \in Seq(Candles)
      /\ \A i, j \in 1..l + 1 : i < j => g[i].t < g[j].t
      /\ \A i \in 1..l + 1 : g[i].t \in Nat
  BY <1>2, FrameFacts DEF Good
<1>4. CASE l < n
  <2>1. ~(l > n) /\ ~(Len(g) > n)
    BY <1>2, <1>4
  <2>2. Window(f, n) = f /\ Window(g, n) = g
    BY <2>1 DEF Window
  <2> QED
    BY <1>1, <2>2
<1>5. CASE n <= l
  <2> DEFINE a == l - n + 1
  <2>1. a \in 1..l /\ a + 1 \in 1..l + 1 /\ l + 1 > n /\ (l + 1) - n + 1 = a + 1
    BY <1>2, <1>5
  <2>2. Window(g, n) = SubSeq(g, a + 1, l + 1)
    BY <1>2, <2>1 DEF Window
  <2> HIDE DEF l, a
  <2>3. SubSeq(g, a + 1, l + 1)[1] = g[a + 1]
    <3>1. /\ a + 1 \in 1..(l + 1) + 1 /\ l + 1 \in 0..Len(g)
          /\ 1 \in 1..(l + 1) - (a + 1) + 1 /\ (a + 1) + 1 - 1 = a + 1
      BY <1>2, <2>1
    <3>2. SubSeq(g, a + 1, l + 1)[1] = g[(a + 1) + 1 - 1]
      BY <1>2, <1>3, <3>1, SubSeqProperties
    <3> QED
      BY <3>1, <3>2
  <2>4. Window(f, n)[1] = f[a]
    <3>1. CASE l > n
      <4>1. Window(f, n) = SubSeq(f, a, l)
        BY <3>1 DEF Window, l, a
      <4>2. /\ a \in 1..l + 1 /\ l \in 0..l /\ 1 \in 1..l - a + 1 /\ a + 1 - 1 = a
        BY <1>2, <2>1
      <4>3. SubSeq(f, a, l)[1] = f[a + 1 - 1]
        BY <1>3, <4>2, SubSeqProperties DEF l
      <4> QED
        BY <4>1, <4>2, <4>3
    <3>2. CASE ~(l > n)
      <4>1. Window(f, n) = f
        BY <3>2 DEF Window, l
      <4>2. a = 1
        BY <1>2, <1>5, <3>2 DEF a
      <4> QED
        BY <4>1, <4>2
    <3> QED
      BY <3>1, <3>2
  <2>5. g[a].t = g[a + 1].t
    BY <1>2, <2>1, <2>2, <2>3, <2>4 DEF Anchored
  <2>6. a \in 1..l + 1 /\ a < a + 1
    BY <1>2, <2>1
  <2>7. g[a].t < g[a + 1].t /\ g[a].t \in Nat
    BY <1>3, <2>1, <2>6
  <2> QED
    BY <2>5, <2>7
<1> QED
  BY <1>2, <1>4, <1>5

-----------------------------------------------------------------------------
(* The M15 window of either caller ends with the replayed bar.             *)
LEMMA ReplayedIs ==
  ASSUME NEW s, Good(s), Len(s) > Ahead
  PROVE  LET r == Replayed(s)
         IN /\ Good(r) /\ Len(r) = Len(s) - Ahead /\ Len(s) \in Nat
            /\ DOMAIN r = 1..Len(s) - Ahead /\ \A i \in 1..Len(s) - Ahead : r[i] = s[i]
            /\ Frames(s)["M15"] = Window(r, Lookback["M15"])
<1> DEFINE n == Len(s) - Ahead
           r == SubSeq(s, 1, n)
           at == LastT(r)
           S == {i \in DOMAIN s : s[i].t <= at}
<1>1. /\ Len(s) \in Nat /\ Ahead \in Nat /\ DOMAIN s = 1..Len(s) /\ s \in Seq(Candles)
      /\ \A i, j \in 1..Len(s) : i < j => s[i].t < s[j].t
      /\ \A i \in 1..Len(s) : s[i].t \in Nat
  BY ReplayAssumption, FrameFacts DEF Good
<1>2. n \in 1..Len(s) /\ n \in 0..Len(s) /\ 1 \in 1..Len(s) + 1 /\ 1 \in 1..n + 1 /\ n - 1 + 1 = n
  BY <1>1
<1> HIDE DEF n
<1>3. Good(r)
  BY <1>2, SubSeqGood
<1>4. Len(r) = n /\ \A i \in 1..n : r[i] = s[i]
  <2>1. /\ Len(r) = n - 1 + 1
        /\ \A i \in 1..n - 1 + 1 : r[i] = s[1 + i - 1]
    BY <1>1, <1>2, SubSeqProperties
  <2> HIDE DEF r
  <2>2. \A i \in 1..n : r[i] = s[1 + i - 1] /\ 1 + i - 1 = i
    BY <1>2, <2>1
  <2> QED
    BY <1>2, <2>1, <2>2
<1>5. Replayed(s) = r
  BY DEF Replayed, n
<1> HIDE DEF r
<1>6. DOMAIN r = 1..n
  BY <1>3, <1>4, FrameFacts
<1>7. at = s[n].t
  <2>1. n \in 1..n
    BY <1>2
  <2> QED
    BY <1>4, <2>1 DEF LastT
<1>8. Kept(s, S) = r
  <2>1. Good(Kept(s, S)) /\ ToSet(Kept(s, S)) = {s[i] : i \in S \cap DOMAIN s}
    <3> HIDE DEF S
    <3> QED
      BY KeptGood, BarsOfKept
  <2>2. \A i \in 1..Len(s) : i \in S <=> i \in 1..n
    <3> SUFFICES ASSUME NEW i \in 1..Len(s) PROVE s[i].t <= s[n].t <=> i \in 1..n
      BY <1>1, <1>7
    <3>1. i = n \/ i < n \/ n < i
      BY <1>2
    <3>2. (i < n => s[i].t < s[n].t) /\ (n < i => s[n].t < s[i].t)
      BY <1>1, <1>2
    <3>3. s[i].t \in Nat /\ s[n].t \in Nat
      BY <1>1, <1>2
    <3> QED
      BY <1>2, <3>1, <3>2, <3>3
  <2>3. S \cap DOMAIN s = 1..n
    BY <1>1, <1>2, <2>2
  <2>4. {s[i] : i \in 1..n} = {r[i] : i \in 1..n}
    BY <1>4
  <2>5. ToSet(Kept(s, S)) = ToSet(r)
    BY <1>6, <2>1, <2>3, <2>4 DEF ToSet
  <2> QED
    BY <1>3, <2>1, <2>5, SameBars
<1>9. Frames(s)["M15"] = SliceToAtBar(s, "M15", at)
  BY <1>5 DEF Frames
<1>10. SliceToAtBar(s, "M15", at) = Window(r, Lookback["M15"])
  BY <1>8 DEF SliceToAtBar, Window
<1> QED
  BY <1>1, <1>3, <1>4, <1>5, <1>6, <1>9, <1>10 DEF n

LEMMA ReplayedGrows ==
  ASSUME NEW s, Good(s), Len(s) > Ahead, NEW b \in Candles, Good(Append(s, b))
  PROVE  Longer(Replayed(s), Replayed(Append(s, b)))
<1> DEFINE q == Append(s, b)
           n == Len(s) - Ahead
           r == Replayed(s)
           u == Replayed(q)
<1>1. /\ Len(s) \in Nat /\ Ahead \in Nat /\ s \in Seq(Candles)
  BY ReplayAssumption, FrameFacts DEF Good
<1>2. /\ Len(q) = Len(s) + 1 /\ Good(q) /\ \A i \in 1..Len(s) : q[i] = s[i]
  BY <1>1, AppendProperties
<1>3. n \in Nat \ {0} /\ n <= Len(s) /\ Len(q) > Ahead /\ Len(q) - Ahead = n + 1
      /\ n + 1 \in 1..Len(q)
  BY <1>1, <1>2
<1> HIDE DEF q, n
<1>4. Good(r) /\ Len(r) = n /\ DOMAIN r = 1..n /\ \A i \in 1..n : r[i] = s[i]
  BY ReplayedIs DEF n
<1>5. Good(u) /\ Len(u) = n + 1 /\ DOMAIN u = 1..n + 1 /\ \A i \in 1..n + 1 : u[i] = q[i]
  BY <1>2, <1>3, ReplayedIs
<1> HIDE DEF r, u
<1> DEFINE x == u[n + 1]
<1>6. n + 1 \in 1..n + 1 /\ \A i \in 1..n : i \in 1..n + 1 /\ i \in 1..Len(s) /\ i < n + 1
  BY <1>1, <1>3
<1>7. x \in Candles
  BY <1>5, <1>6, FrameFacts
<1>8. \A i \in 1..n : r[i] = u[i]
  BY <1>2, <1>4, <1>5, <1>6
<1>9. \A y \in ToSet(r) : y.t < x.t
  <2>1. \A i \in 1..n : u[i].t < u[n + 1].t
    BY <1>5, <1>6, FrameFacts
  <2> QED
    BY <1>4, <1>8, <2>1 DEF ToSet
<1> HIDE DEF x
<1>10. /\ Good(Append(r, x)) /\ Len(Append(r, x)) = n + 1 /\ Append(r, x)[n + 1] = x
       /\ \A i \in 1..n : Append(r, x)[i] = r[i]
  BY <1>4, <1>7, <1>9, AppendGood
<1>11. u = Append(r, x)
  <2>1. u \in Seq(Candles) /\ Append(r, x) \in Seq(Candles)
    BY <1>5, <1>10 DEF Good
  <2>2. \A i \in 1..n + 1 : i \in 1..n \/ i = n + 1
    BY <1>3
  <2>3. \A i \in 1..n + 1 : u[i] = Append(r, x)[i]
    BY <1>8, <1>10, <2>2 DEF x
  <2> QED
    BY <1>5, <1>10, <2>1, <2>3, SeqEqual
<1> QED
  BY <1>7, <1>9, <1>11 DEF Longer, r, u, q

LEMMA M15Grows ==
  ASSUME StackInv, Next, Anchored(M15, M15')
  PROVE  Extends(M15, M15')
<1>1. Good(series) /\ Len(series) > Ahead
  BY DEF StackInv, SeriesInv
<1>2. PICK m \in Moves : series' = NextSeries(series, m) /\ LastLow(NextSeries(series, m)) > 0
  BY StepIs
<1> DEFINE b == NextBar(series, m)
           q == Append(series, b)
           n == Lookback["M15"]
<1>3. Len(series) \in Nat /\ Ahead \in Nat /\ n \in Nat \ {0}
  BY <1>1, FrameFacts, ReplayAssumption, Spans DEF TimeFrames
<1>4. Good(q) /\ Len(q) = Len(series) + 1 /\ b \in Candles
  <2>1. Len(series) > 0
    BY <1>1, <1>3
  <2> QED
    BY <1>1, <1>2, <2>1, NextGood DEF NextSeries
<1>5. Len(q) > Ahead
  BY <1>1, <1>3, <1>4
<1> HIDE DEF b
<1>6. Longer(Replayed(series), Replayed(q))
  BY <1>1, <1>4, ReplayedGrows
<1> HIDE DEF q
<1>7. /\ M15 = Window(Replayed(series), n) /\ Good(Replayed(series))
      /\ Frames(q)["M15"] = Window(Replayed(q), n) /\ Good(Replayed(q))
  BY <1>1, <1>4, <1>5, ReplayedIs DEF M15
<1>8. M15' = Frames(q)["M15"]
  BY <1>2 DEF M15, q, b, NextSeries
<1> HIDE DEF n
<1>9. Anchored(Window(Replayed(series), n), Window(Replayed(q), n))
  BY <1>7, <1>8
<1> QED
  BY <1>3, <1>6, <1>7, <1>8, <1>9, WindowGrows

(* While the window stands, a break of structure neither disappears nor    *)
(* changes its kind, and a new one is confirmed by the new bar: for the    *)
(* runner and for the harness (BreaksAreFinal).                            *)
THEOREM BreaksAlwaysFinal == Spec => BreaksAreFinal
<1>1. StackInv /\ [Next]_vars =>
        [Anchored(M15, M15') =>
          LET old == Structure(M15)
              new == Structure(M15')
          IN old \subseteq new /\ \A b \in new \ old : b.at = LastT(M15')]_vars
  <2> SUFFICES ASSUME StackInv, Next, Anchored(M15, M15')
               PROVE  /\ Structure(M15) \subseteq Structure(M15')
                      /\ \A b \in Structure(M15') \ Structure(M15) : b.at = LastT(M15')
    OBVIOUS
  <2>1. Extends(M15, M15')
    BY M15Grows
  <2> DEFINE f == M15
             g == M15'
  <2> HIDE DEF f, g
  <2>2. Extends(f, g)
    BY <2>1 DEF f, g
  <2>3. /\ Structure(f) \subseteq Structure(g)
        /\ \A b \in Structure(g) \ Structure(f) : b.at = LastT(g)
    BY <2>2, BreaksGrow
  <2> QED
    BY <2>3 DEF f, g
<1> QED
  BY <1>1, StackAlways, PTL DEF Spec, BreaksAreFinal

-----------------------------------------------------------------------------
(* Sweeps of swings stay *)

(* A bar takes no swing that is not confirmed by it: the bars that would   *)
(* confirm the swing lie on the other side of its price.                   *)
LEMMA TakenKnown ==
  ASSUME NEW f, Good(f), NEW i \in DOMAIN f
  PROVE  SwingsTaken(f, i) =
           [above |-> TakenAbove(f[i], {f[s].h : s \in KnownBy(SwingHighs(f), i)}),
            below |-> TakenBelow(f[i], {f[s].l : s \in KnownBy(SwingLows(f), i)})]
<1> DEFINE highs == [s \in SwingHighs(f) |-> f[s].h]
           lows  == [s \in SwingLows(f) |-> f[s].l]
           kh == KnownBy(SwingHighs(f), i)
           kl == KnownBy(SwingLows(f), i)
<1>1. /\ Len(f) \in Nat /\ DOMAIN f = 1..Len(f) /\ SwingLookback \in Nat \ {0}
      /\ \A j \in 1..Len(f) : f[j].h \in Nat /\ f[j].l \in Nat
  BY FrameFacts, DetectorAssumption
<1>2. SwingHighs(f) \subseteq 1..Len(f) /\ SwingLows(f) \subseteq 1..Len(f)
  BY <1>1 DEF SwingHighs, SwingLows, Candidates
<1>3. /\ Reachable(highs, {}, <<>>, i) = {f[s].h : s \in {j \in SwingHighs(f) : j < i}}
      /\ Reachable(lows, {}, <<>>, i) = {f[s].l : s \in {j \in SwingLows(f) : j < i}}
  <2>1. ToSet(<<>>) = {}
    BY DEF ToSet
  <2> QED
    BY <2>1 DEF Reachable
<1>4. /\ kh = {s \in SwingHighs(f) : s + SwingLookback <= i}
      /\ kl = {s \in SwingLows(f) : s + SwingLookback <= i}
  BY DEF KnownBy, ConfirmedBy
<1>5. TakenAbove(f[i], {f[s].h : s \in {j \in SwingHighs(f) : j < i}}) =
      TakenAbove(f[i], {f[s].h : s \in kh})
  <2>1. ASSUME NEW s \in SwingHighs(f), s < i, f[i].h > f[s].h
        PROVE  s \in kh
    <3>1. ~(i <= s + SwingLookback)
      BY <1>1, <1>2, <2>1, SwingsStandOut
    <3> QED
      BY <1>1, <1>2, <1>4, <3>1
  <2>2. \A s \in kh : s \in SwingHighs(f) /\ s < i
    BY <1>1, <1>2, <1>4
  <2> HIDE DEF kh
  <2> QED
    BY <2>1, <2>2 DEF TakenAbove
<1>6. TakenBelow(f[i], {f[s].l : s \in {j \in SwingLows(f) : j < i}}) =
      TakenBelow(f[i], {f[s].l : s \in kl})
  <2>1. ASSUME NEW s \in SwingLows(f), s < i, f[i].l < f[s].l
        PROVE  s \in kl
    <3>1. ~(i <= s + SwingLookback)
      BY <1>1, <1>2, <2>1, SwingsStandOut
    <3> QED
      BY <1>1, <1>2, <1>4, <3>1
  <2>2. \A s \in kl : s \in SwingLows(f) /\ s < i
    BY <1>1, <1>2, <1>4
  <2> HIDE DEF kl
  <2> QED
    BY <2>1, <2>2 DEF TakenBelow
<1>7. SwingsTaken(f, i) = [above |-> TakenAbove(f[i], Reachable(highs, {}, <<>>, i)),
                           below |-> TakenBelow(f[i], Reachable(lows, {}, <<>>, i))]
  BY DEF SwingsTaken
<1> HIDE DEF highs, lows
<1> QED
  BY <1>3, <1>5, <1>6, <1>7

LEMMA SwingsTakenSame ==
  ASSUME NEW f, NEW g, Extends(f, g), NEW i \in DOMAIN f
  PROVE  SwingsTaken(g, i) = SwingsTaken(f, i)
<1>1. /\ Good(f) /\ Good(g) /\ Len(f) \in Nat /\ SwingLookback \in Nat \ {0}
      /\ i \in 1..Len(f) /\ i \in DOMAIN g /\ \A j \in 1..Len(f) : g[j] = f[j]
  BY ExtendsBy, DetectorAssumption
<1> DEFINE kh == KnownBy(SwingHighs(f), i)
           kl == KnownBy(SwingLows(f), i)
<1>2. KnownBy(SwingHighs(g), i) = kh /\ KnownBy(SwingLows(g), i) = kl
  BY <1>1, KnownSame
<1>3. kh \subseteq 1..Len(f) /\ kl \subseteq 1..Len(f)
  BY <1>1 DEF KnownBy, ConfirmedBy, SwingHighs, SwingLows, Candidates
<1>4. /\ SwingsTaken(f, i) = [above |-> TakenAbove(f[i], {f[s].h : s \in kh}),
                              below |-> TakenBelow(f[i], {f[s].l : s \in kl})]
      /\ SwingsTaken(g, i) = [above |-> TakenAbove(g[i], {g[s].h : s \in kh}),
                              below |-> TakenBelow(g[i], {g[s].l : s \in kl})]
  BY <1>1, <1>2, TakenKnown
<1> HIDE DEF kh, kl
<1>5. {g[s].h : s \in kh} = {f[s].h : s \in kh} /\ {g[s].l : s \in kl} = {f[s].l : s \in kl}
  BY <1>1, <1>3
<1> QED
  BY <1>1, <1>4, <1>5

(* While the window stands, the swings a bar took stay the swings it took, *)
(* although the scan puts a swing at its own time and not at that of its   *)
(* confirmation: for the runner and for the harness (SwingSweepsAreFinal). *)
THEOREM SwingSweepsAlwaysFinal == Spec => SwingSweepsAreFinal
<1>1. StackInv /\ [Next]_vars =>
        [Anchored(M15, M15') =>
          \A i \in DOMAIN M15 : SwingsTaken(M15', i) = SwingsTaken(M15, i)]_vars
  <2> SUFFICES ASSUME StackInv, Next, Anchored(M15, M15'), NEW i \in DOMAIN M15
               PROVE  SwingsTaken(M15', i) = SwingsTaken(M15, i)
    OBVIOUS
  <2>1. Extends(M15, M15')
    BY M15Grows
  <2> DEFINE f == M15
             g == M15'
  <2>2. i \in DOMAIN f
    OBVIOUS
  <2> HIDE DEF f, g
  <2>3. Extends(f, g)
    BY <2>1 DEF f, g
  <2>4. SwingsTaken(g, i) = SwingsTaken(f, i)
    BY <2>2, <2>3, SwingsTakenSame
  <2> QED
    BY <2>4 DEF f, g
<1> QED
  BY <1>1, StackAlways, PTL DEF Spec, SwingSweepsAreFinal

-----------------------------------------------------------------------------
(* Imbalances stay *)

LEMMA TrueRangeIsInt ==
  ASSUME NEW f, Good(f), NEW i \in DOMAIN f
  PROVE  TrueRange(f, i) \in Int
<1> DEFINE b == f[i]
<1>1. /\ Len(f) \in Nat /\ DOMAIN f = 1..Len(f)
      /\ \A j \in 1..Len(f) : f[j].h \in Nat /\ f[j].l \in Nat /\ f[j].c \in Nat
  BY FrameFacts
<1>2. CASE i = 1
  BY <1>1, <1>2 DEF TrueRange
<1>3. CASE i # 1
  <2>1. i - 1 \in 1..Len(f)
    BY <1>1, <1>3
  <2> DEFINE x == b.h - b.l
             y == Distance(b.h, f[i - 1].c)
             z == Distance(b.l, f[i - 1].c)
             T == {x, y, z}
  <2>2. x \in Int /\ y \in Int /\ z \in Int
    <3>1. b.h \in Int /\ b.l \in Int /\ f[i - 1].c \in Int
      BY <1>1, <2>1
    <3> HIDE DEF b
    <3>2. x \in Int
      BY <3>1
    <3>3. y \in Int /\ z \in Int
      <4> DEFINE c == f[i - 1].c
      <4> HIDE DEF c
      <4>1. \A u, v \in Int : Distance(u, v) \in Int
        BY DistanceIs
      <4>2. c \in Int
        BY <3>1 DEF c
      <4> QED
        BY <3>1, <4>1, <4>2 DEF c
    <3> QED
      BY <3>2, <3>3
  <2>3. TrueRange(f, i) = Max(T)
    BY <1>3 DEF TrueRange
  <2> HIDE DEF x, y, z
  <2>4. IsFiniteSet(T) /\ T # {} /\ T \subseteq Int
    <3>1. IsFiniteSet({x, y} \cup {z}) /\ {x, y} \cup {z} = T
      BY TwoFinite, FS_Union
    <3> QED
      BY <2>2, <3>1
  <2> HIDE DEF T
  <2>5. Max(T) \in T
    BY <2>4, MaxIs
  <2> QED
    BY <2>3, <2>4, <2>5
<1> QED
  BY <1>2, <1>3

LEMMA AtrIs ==
  ASSUME NEW f, Good(f), NEW p \in Nat \ {0}
  PROVE  Atr(f, p).sum \in Int /\ Atr(f, p).n \in Nat \ {0}
<1> DEFINE i == Len(f)
           first == Max({1, i - p + 1})
           window == first..i
           g == [j \in window |-> TrueRange(f, j)]
<1>1. i \in Nat /\ DOMAIN f = 1..i
  BY FrameFacts
<1>2. CASE i < 2
  BY <1>2 DEF Atr, NoAtr
<1>3. CASE ~(i < 2)
  <2>1. i - p + 1 \in Int
    BY <1>1
  <2>2. first = IF 1 >= i - p + 1 THEN 1 ELSE i - p + 1
    BY <2>1, MaxOfTwo
  <2>3. first \in 1..i
    BY <1>1, <1>3, <2>2
  <2> HIDE DEF first
  <2>4. window \subseteq DOMAIN f /\ i \in window
    BY <1>1, <2>3
  <2>5. Atr(f, p) = [sum |-> SumFunction(g), n |-> Cardinality(window)]
    BY <1>3 DEF Atr, AtrAt, first
  <2> HIDE DEF window, i
  <2>6. IsFiniteSet(window)
    BY <2>4, BarsFinite
  <2>7. Cardinality(window) \in Nat \ {0}
    BY <2>4, <2>6, FS_CardinalityType, FS_EmptySet
  <2>8. DOMAIN g = window /\ \A j \in window : g[j] \in Int
    BY <2>4, TrueRangeIsInt
  <2> HIDE DEF g
  <2>9. SumFunction(g) \in Int
    BY <2>6, <2>8, SumIsInt DEF SumFunction
  <2> QED
    BY <2>5, <2>7, <2>9
<1> QED
  BY <1>2, <1>3

(* Products keep and tell the order of their first factors.                *)
LEMMA Products ==
  ASSUME NEW x \in Int, NEW y \in Int, NEW n \in Nat \ {0}
  PROVE  x < y <=> x * n < y * n
<1>1. x * n \in Int /\ y * n \in Int
  OBVIOUS
<1>2. x < y => x * n + n <= y * n
  BY Times
<1>3. y < x => y * n + n <= x * n
  BY Times
<1>4. x = y => x * n = y * n
  OBVIOUS
<1>5. x < y \/ x = y \/ y < x
  OBVIOUS
<1> DEFINE a == x * n
           b == y * n
<1> HIDE DEF a, b
<1> QED
  BY <1>1, <1>2, <1>3, <1>4, <1>5 DEF a, b

(* A gap that one ATR lets pass, no larger one stops.                      *)
LEMMA GapPasses ==
  ASSUME NEW g \in Nat, NEW k \in Nat, NEW s \in Int, NEW n \in Nat \ {0},
         NEW u \in Int, NEW v \in Nat \ {0},
         10 * g * n > k * s, ~(u * n > s * v)
  PROVE  10 * g * v > k * u
<1> DEFINE w == 10 * g
           a == w * n
           b == k * s
           c == w * v
           d == k * u
<1>1. w \in Nat /\ a \in Int /\ b \in Int /\ c \in Int /\ d \in Int
  OBVIOUS
<1>2. b < a
  BY <1>1
<1>3. b * v < a * v
  <2> HIDE DEF a, b
  <2> QED
    BY <1>1, <1>2, Products
<1>4. k * (u * n) <= k * (s * v)
  <2> DEFINE x == u * n
             y == s * v
  <2>1. x \in Int /\ y \in Int /\ x <= y
    OBVIOUS
  <2> HIDE DEF x, y
  <2>2. CASE k = 0
    BY <2>1, <2>2
  <2>3. CASE k # 0
    <3>1. k \in Nat \ {0}
      BY <2>3
    <3>2. ~(y * k < x * k)
      BY <2>1, <3>1, Products
    <3>3. x * k = k * x /\ y * k = k * y /\ k * x \in Int /\ k * y \in Int
      BY <2>1
    <3> QED
      BY <3>2, <3>3
  <2> QED
    BY <2>2, <2>3 DEF x, y
<1>5. d * n = k * (u * n) /\ b * v = k * (s * v) /\ a * v = c * n
  <2> HIDE DEF w
  <2> QED
    BY <1>1
<1>6. d * n < c * n
  <2> DEFINE p == k * (u * n)
             q == k * (s * v)
             r == c * n
  <2>1. p \in Int /\ q \in Int /\ r \in Int
    BY <1>1
  <2>2. p <= q /\ q < r
    BY <1>3, <1>4, <1>5
  <2>3. d * n = p
    BY <1>5
  <2> HIDE DEF p, q, r
  <2>4. p < r
    BY <2>1, <2>2
  <2> QED
    BY <2>3, <2>4 DEF r
<1>7. d < c
  <2> HIDE DEF c, d
  <2> QED
    BY <1>1, <1>6, Products
<1> QED
  BY <1>7

SameGap(m, n) == n.at = m.at /\ n.side = m.side /\ n.lo = m.lo /\ n.hi = m.hi

LEMMA GapStays ==
  ASSUME NEW f, NEW g, Extends(f, g),
         ~(Atr(g, DetectorAtr).sum * Atr(f, DetectorAtr).n >
           Atr(f, DetectorAtr).sum * Atr(g, DetectorAtr).n),
         NEW i \in Triples(f), NEW side, NEW lo \in Nat, NEW hi \in Nat,
         NEW m \in ImbalanceGap(f, i, side, lo, hi)
  PROVE  \E n \in ImbalanceGap(g, i, side, lo, hi) : SameGap(m, n)
<1> DEFINE a == Atr(f, DetectorAtr)
           b == Atr(g, DetectorAtr)
<1>1. /\ Good(f) /\ Good(g) /\ Len(f) \in Nat /\ \A j \in 1..Len(f) : g[j] = f[j]
      /\ DetectorAtr \in Nat \ {0} /\ FvgMinGap \in Nat
  BY ExtendsBy, DetectorAssumption
<1>2. g[i + 1] = f[i + 1]
  BY <1>1 DEF Triples
<1>3. a.sum \in Int /\ a.n \in Nat \ {0} /\ b.sum \in Int /\ b.n \in Nat \ {0}
  BY <1>1, AtrIs
<1>4. /\ lo < hi /\ 10 * (hi - lo) * a.n > FvgMinGap * a.sum
      /\ m = [class |-> "IMBALANCE", kind |-> GapKind(hi - lo, a), side |-> side,
              at |-> f[i + 1].t, lo |-> lo, hi |-> hi, fill |-> 0]
  BY DEF ImbalanceGap
<1>5. ~(b.sum * a.n > a.sum * b.n)
  OBVIOUS
<1> HIDE DEF a, b
<1>6. 10 * (hi - lo) * b.n > FvgMinGap * b.sum
  <2> DEFINE w == hi - lo
  <2>1. w \in Nat /\ 10 * w * a.n > FvgMinGap * a.sum
    BY <1>4
  <2> HIDE DEF w
  <2>2. 10 * w * b.n > FvgMinGap * b.sum
    BY <1>1, <1>3, <1>5, <2>1, GapPasses
  <2> QED
    BY <2>2 DEF w
<1> DEFINE n == [class |-> "IMBALANCE", kind |-> GapKind(hi - lo, b), side |-> side,
                 at |-> g[i + 1].t, lo |-> lo, hi |-> hi, fill |-> 0]
<1>7. n \in ImbalanceGap(g, i, side, lo, hi)
  BY <1>4, <1>6 DEF ImbalanceGap, b
<1>8. SameGap(m, n)
  BY <1>2, <1>4 DEF SameGap
<1> QED
  BY <1>7, <1>8

LEMMA GapOf ==
  ASSUME NEW f, Good(f), NEW m
  PROVE  m \in Imbalances(f) <=>
           \E i \in Triples(f) : \/ m \in ImbalanceGap(f, i, "LONG", f[i].h, f[i + 2].l)
                                 \/ m \in ImbalanceGap(f, i, "SHORT", f[i + 2].h, f[i].l)
<1> DEFINE pair(i) == ImbalanceGap(f, i, "LONG", f[i].h, f[i + 2].l)
                      \cup ImbalanceGap(f, i, "SHORT", f[i + 2].h, f[i].l)
<1>1. Imbalances(f) = UNION {pair(i) : i \in Triples(f)}
  BY ImbalancesAre
<1>2. \A i : m \in pair(i) <=> \/ m \in ImbalanceGap(f, i, "LONG", f[i].h, f[i + 2].l)
                               \/ m \in ImbalanceGap(f, i, "SHORT", f[i + 2].h, f[i].l)
  OBVIOUS
<1> HIDE DEF pair
<1> QED
  BY <1>1, <1>2

LEMMA TripleFacts ==
  ASSUME NEW f, Good(f), NEW i \in Triples(f)
  PROVE  /\ i \in 1..Len(f) /\ i + 1 \in 1..Len(f) /\ i + 2 \in 1..Len(f)
         /\ f[i].h \in Nat /\ f[i].l \in Nat /\ f[i + 2].h \in Nat /\ f[i + 2].l \in Nat
<1>1. i \in 1..Len(f) /\ i + 1 \in 1..Len(f) /\ i + 2 \in 1..Len(f)
  BY FrameFacts DEF Triples
<1> QED
  BY <1>1, FrameFacts

LEMMA ImbalancesStay ==
  ASSUME NEW f, NEW g, Extends(f, g),
         ~(Atr(g, DetectorAtr).sum * Atr(f, DetectorAtr).n >
           Atr(f, DetectorAtr).sum * Atr(g, DetectorAtr).n),
         NEW m \in Imbalances(f)
  PROVE  \E n \in Imbalances(g) : SameGap(m, n)
<1>1. /\ Good(f) /\ Good(g) /\ Len(f) \in Nat /\ Len(g) = Len(f) + 1
      /\ \A j \in 1..Len(f) : g[j] = f[j]
  BY ExtendsBy
<1>2. PICK i \in Triples(f) : \/ m \in ImbalanceGap(f, i, "LONG", f[i].h, f[i + 2].l)
                              \/ m \in ImbalanceGap(f, i, "SHORT", f[i + 2].h, f[i].l)
  BY <1>1, GapOf
<1>3. i \in Triples(g)
  BY <1>1 DEF Triples
<1>4. g[i] = f[i] /\ g[i + 2] = f[i + 2]
  BY <1>1, TripleFacts
<1>5. f[i].h \in Nat /\ f[i].l \in Nat /\ f[i + 2].h \in Nat /\ f[i + 2].l \in Nat
  BY <1>1, TripleFacts
<1>6. CASE m \in ImbalanceGap(f, i, "LONG", f[i].h, f[i + 2].l)
  <2>1. PICK n \in ImbalanceGap(g, i, "LONG", f[i].h, f[i + 2].l) : SameGap(m, n)
    BY <1>5, <1>6, GapStays
  <2> QED
    BY <1>1, <1>3, <1>4, <2>1, GapOf
<1>7. CASE m \in ImbalanceGap(f, i, "SHORT", f[i + 2].h, f[i].l)
  <2>1. PICK n \in ImbalanceGap(g, i, "SHORT", f[i + 2].h, f[i].l) : SameGap(m, n)
    BY <1>5, <1>7, GapStays
  <2> QED
    BY <1>1, <1>3, <1>4, <2>1, GapOf
<1> QED
  BY <1>2, <1>6, <1>7

(* While the window stands, an imbalance disappears only when the ATR that *)
(* sets its threshold has grown (ImbalanceGoneOnlyByAtr).                  *)
THEOREM ImbalanceGoneAlwaysByAtr == Spec => ImbalanceGoneOnlyByAtr
<1>1. StackInv /\ [Next]_vars =>
        [Anchored(M15, M15') =>
          \/ LET next == Imbalances(M15')
             IN \A m \in Imbalances(M15) : \E n \in next :
                  n.at = m.at /\ n.side = m.side /\ n.lo = m.lo /\ n.hi = m.hi
          \/ LET a == Atr(M15, DetectorAtr)
                 b == Atr(M15', DetectorAtr)
             IN b.sum * a.n > a.sum * b.n]_vars
  <2> DEFINE f == M15
             g == M15'
  <2> SUFFICES ASSUME StackInv, Next, Anchored(f, g),
                      ~(Atr(g, DetectorAtr).sum * Atr(f, DetectorAtr).n >
                        Atr(f, DetectorAtr).sum * Atr(g, DetectorAtr).n),
                      NEW m \in Imbalances(f)
               PROVE  \E n \in Imbalances(g) :
                         n.at = m.at /\ n.side = m.side /\ n.lo = m.lo /\ n.hi = m.hi
    OBVIOUS
  <2>1. Extends(f, g)
    BY M15Grows
  <2> HIDE DEF f, g
  <2>2. PICK n \in Imbalances(g) : SameGap(m, n)
    BY <2>1, ImbalancesStay
  <2> QED
    BY <2>2 DEF SameGap
<1> QED
  BY <1>1, StackAlways, PTL DEF Spec, ImbalanceGoneOnlyByAtr

-----------------------------------------------------------------------------
(* Points of interest only age *)

(* g starts with the bars of f.                                            *)
Grown(f, g) ==
    /\ Good(f) /\ Good(g) /\ Len(f) <= Len(g)
    /\ \A i \in 1..Len(f) : g[i] = f[i]

LEMMA PlaceOf ==
  ASSUME NEW f, Good(f), NEW p \in 1..Len(f)
  PROVE  PositionOf(f, f[p].t) = {p} /\ Max(PositionOf(f, f[p].t)) = p
<1>1. p \in PositionOf(f, f[p].t)
  BY FrameFacts DEF PositionOf
<1> QED
  BY <1>1, PositionsOf

(* A point of interest found at a bar of f is found at that bar of g.      *)
LEMMA SamePlace ==
  ASSUME NEW f, NEW g, Grown(f, g), NEW p \in 1..Len(f), NEW q \in 1..Len(g),
         g[q].t = f[p].t
  PROVE  q = p
<1>1. Len(f) \in Nat /\ Len(g) \in Nat /\ Len(f) <= Len(g) /\ Good(g) /\ g[p] = f[p]
  BY FrameFacts DEF Grown
<1>2. p \in 1..Len(g)
  BY <1>1
<1>3. PositionOf(g, g[p].t) = {p} /\ PositionOf(g, g[q].t) = {q}
  BY <1>1, <1>2, PlaceOf
<1> QED
  BY <1>1, <1>3

LEMMA ZoneIsAtBar ==
  ASSUME NEW f, Good(f), NEW z \in Zones(f)
  PROVE  ZoneOk(z) /\ z.status = "FRESH" /\ \E p \in 1..Len(f) : z.at = f[p].t
<1> DEFINE blocks == {i \in 1..Len(f) - 1 : OrderBlock(f, i)}
           small  == {i \in 2..Len(f) - 1 : i \notin blocks /\ Indecision(f, i)}
           Kind(i) == IF Down(f[i]) THEN "DEMAND" ELSE "SUPPLY"
<1>1. Zones(f) = {ZoneAt(Kind(i), f[i]) : i \in blocks \cup small}
  BY DEF Zones
<1>2. blocks \cup small \subseteq 1..Len(f)
  BY FrameFacts
<1> HIDE DEF blocks, small, Kind
<1>3. PICK i \in 1..Len(f) : z = ZoneAt(Kind(i), f[i])
  BY <1>1, <1>2
<1>4. z.at = f[i].t /\ z.status = "FRESH"
  BY <1>3 DEF ZoneAt
<1> QED
  BY <1>3, <1>4, ZonesOk

(* The age and the status enrichment gives a zone.                         *)
LEMMA ZoneAge ==
  ASSUME NEW f, Good(f), NEW z, ZoneOk(z), z.status = "FRESH",
         NEW p \in 1..Len(f), z.at = f[p].t
  PROVE  /\ EnrichZone(z, f).age = Len(f) - p
         /\ EnrichZone(z, f).status =
              IF Len(f) - p > MaxZoneAge THEN "MITIGATED" ELSE "FRESH"
<1> DEFINE age == Len(f) - p
           status == IF age > MaxZoneAge THEN "MITIGATED" ELSE "FRESH"
           e == EnrichZone(z, f)
<1>1. PositionOf(f, z.at) # {} /\ Max(PositionOf(f, z.at)) = p
  BY PlaceOf
<1>2. e = [z EXCEPT !.age = age, !.status = status]
  BY <1>1 DEF EnrichZone
<1> HIDE DEF age, status
<1>3. z = [class |-> "ZONE", kind |-> z.kind, at |-> z.at, side |-> z.side,
           hi |-> z.hi, lo |-> z.lo, status |-> z.status, age |-> z.age]
  BY DEF ZoneOk
<1> DEFINE z1 == [z EXCEPT !.age = age]
<1>4. z1 = [class |-> "ZONE", kind |-> z.kind, at |-> z.at, side |-> z.side,
            hi |-> z.hi, lo |-> z.lo, status |-> z.status, age |-> age]
  BY <1>3
<1>5. e = [z1 EXCEPT !.status = status]
  BY <1>2
<1> HIDE DEF e, z1
<1>6. e.age = age /\ e.status = status
  BY <1>4, <1>5
<1> QED
  BY <1>6 DEF e, age, status

LEMMA ZonesAge ==
  ASSUME NEW f, NEW g, Grown(f, g), NEW y \in Zones(f), NEW z \in Zones(g), z.at = y.at
  PROVE  /\ EnrichZone(z, g).age >= EnrichZone(y, f).age
         /\ EnrichZone(y, f).status = "MITIGATED" => EnrichZone(z, g).status = "MITIGATED"
<1>1. Good(f) /\ Good(g) /\ Len(f) \in Nat /\ Len(g) \in Nat /\ Len(f) <= Len(g)
  BY FrameFacts DEF Grown
<1>2. PICK p \in 1..Len(f) : y.at = f[p].t
  BY <1>1, ZoneIsAtBar
<1>3. PICK q \in 1..Len(g) : z.at = g[q].t
  BY <1>1, ZoneIsAtBar
<1>4. q = p
  BY <1>2, <1>3, SamePlace
<1> DEFINE a == Len(f) - p
           b == Len(g) - p
<1>5. /\ EnrichZone(y, f).age = a
      /\ EnrichZone(y, f).status = IF a > MaxZoneAge THEN "MITIGATED" ELSE "FRESH"
  BY <1>1, <1>2, ZoneIsAtBar, ZoneAge
<1>6. /\ EnrichZone(z, g).age = b
      /\ EnrichZone(z, g).status = IF b > MaxZoneAge THEN "MITIGATED" ELSE "FRESH"
  BY <1>1, <1>3, <1>4, ZoneIsAtBar, ZoneAge
<1>7. a \in Int /\ b \in Int /\ b >= a /\ MaxZoneAge \in Nat
  BY <1>1, AnalysisAssumption
<1> HIDE DEF a, b
<1>8. a > MaxZoneAge => b > MaxZoneAge
  BY <1>7
<1> QED
  BY <1>5, <1>6, <1>7, <1>8

-----------------------------------------------------------------------------
(* Where an imbalance lies, given its middle bar and its side.             *)
GapBand(f, i, m) ==
    IF m.side = "LONG" THEN m.lo = f[i].h /\ m.hi = f[i + 2].l
                       ELSE m.lo = f[i + 2].h /\ m.hi = f[i].l

LEMMA GapIsAtBars ==
  ASSUME NEW f, Good(f), NEW m \in Imbalances(f)
  PROVE  ImbalanceOk(m) /\ \E i \in Triples(f) : m.at = f[i + 1].t /\ GapBand(f, i, m)
<1>1. PICK i \in Triples(f) : \/ m \in ImbalanceGap(f, i, "LONG", f[i].h, f[i + 2].l)
                              \/ m \in ImbalanceGap(f, i, "SHORT", f[i + 2].h, f[i].l)
  BY GapOf
<1>2. CASE m \in ImbalanceGap(f, i, "LONG", f[i].h, f[i + 2].l)
  <2>1. m.at = f[i + 1].t /\ m.side = "LONG" /\ m.lo = f[i].h /\ m.hi = f[i + 2].l
    BY <1>2 DEF ImbalanceGap
  <2> QED
    BY <2>1, ImbalancesOk DEF GapBand
<1>3. CASE m \in ImbalanceGap(f, i, "SHORT", f[i + 2].h, f[i].l)
  <2>1. m.at = f[i + 1].t /\ m.side = "SHORT" /\ m.lo = f[i + 2].h /\ m.hi = f[i].l
    BY <1>3 DEF ImbalanceGap
  <2> QED
    BY <2>1, ImbalancesOk DEF GapBand
<1> QED
  BY <1>1, <1>2, <1>3

(* The depths a fill is the largest of.                                    *)
Filled(m, f, p) == {0} \cup Depths(m, f, p + 1..Len(f))

LEMMA FillIs ==
  ASSUME NEW f, Good(f), NEW m, ImbalanceOk(m), NEW p \in 1..Len(f), m.at = f[p].t
  PROVE  /\ IsFiniteSet(Filled(m, f, p)) /\ Filled(m, f, p) # {} /\ Filled(m, f, p) \subseteq Int
         /\ EnrichImbalance(m, f).fill = Min({Max(Filled(m, f, p)), m.hi - m.lo})
<1> DEFINE later == p + 1..Len(f)
           depth == [j \in later |-> IF m.side = "LONG" THEN m.hi - f[j].l ELSE f[j].h - m.lo]
           T == {depth[j] : j \in later}
           fill == Min({Max(Filled(m, f, p)), m.hi - m.lo})
           e == EnrichImbalance(m, f)
<1>1. /\ Len(f) \in Nat /\ DOMAIN f = 1..Len(f)
      /\ \A j \in 1..Len(f) : f[j].l \in Nat /\ f[j].h \in Nat
  BY FrameFacts
<1>2. PositionOf(f, m.at) # {} /\ Max(PositionOf(f, m.at)) = p
  BY PlaceOf
<1>3. e = [m EXCEPT !.fill = fill]
  BY <1>2 DEF EnrichImbalance, Filled
<1>4. Filled(m, f, p) = {0} \cup T
  BY DEF Filled, Depths
<1>5. later \subseteq DOMAIN f
  BY <1>1
<1>6. m.hi \in Nat /\ m.lo \in Nat
  BY DEF ImbalanceOk
<1> HIDE DEF later
<1>7. \A j \in later : depth[j] \in Int
  BY <1>1, <1>5, <1>6
<1>8. IsFiniteSet(later) /\ DOMAIN depth = later
  BY <1>5, BarsFinite
<1> HIDE DEF depth
<1>9. IsFiniteSet(T) /\ T \subseteq Int
  BY <1>7, <1>8, ImageFinite
<1> HIDE DEF T
<1>10. IsFiniteSet({0} \cup T)
  BY <1>9, FS_Singleton, FS_Union
<1>11. e.fill = fill
  <2>1. m = [class |-> "IMBALANCE", kind |-> m.kind, side |-> m.side, at |-> m.at,
             lo |-> m.lo, hi |-> m.hi, fill |-> m.fill]
    BY DEF ImbalanceOk
  <2> HIDE DEF e, fill
  <2> QED
    BY <1>3, <2>1
<1> HIDE DEF e
<1>12. {0} \cup T # {} /\ {0} \cup T \subseteq Int
  BY <1>9
<1> QED
  BY <1>4, <1>10, <1>11, <1>12 DEF e

LEMMA FillsGrow ==
  ASSUME NEW f, NEW g, Grown(f, g), NEW m \in Imbalances(f), NEW n \in Imbalances(g),
         n.at = m.at, n.side = m.side
  PROVE  EnrichImbalance(n, g).fill >= EnrichImbalance(m, f).fill
<1>1. /\ Good(f) /\ Good(g) /\ Len(f) \in Nat /\ Len(g) \in Nat /\ Len(f) <= Len(g)
      /\ \A i \in 1..Len(f) : g[i] = f[i]
  BY FrameFacts DEF Grown
<1>2. PICK i \in Triples(f) : m.at = f[i + 1].t /\ GapBand(f, i, m)
  BY <1>1, GapIsAtBars
<1>3. PICK j \in Triples(g) : n.at = g[j + 1].t /\ GapBand(g, j, n)
  BY <1>1, GapIsAtBars
<1>4. /\ i \in 1..Len(f) /\ i + 1 \in 1..Len(f) /\ i + 2 \in 1..Len(f)
      /\ i + 1 \in 1..Len(g) /\ j + 1 \in 1..Len(g) /\ j \in Int
  BY <1>1 DEF Triples
<1>5. j + 1 = i + 1
  BY <1>2, <1>3, <1>4, SamePlace
<1>6. j = i
  BY <1>4, <1>5
<1>7. n.lo = m.lo /\ n.hi = m.hi
  BY <1>1, <1>2, <1>3, <1>4, <1>6 DEF GapBand
<1> DEFINE p == i + 1
           D == Filled(m, f, p)
           E == Filled(n, g, p)
<1>8. ImbalanceOk(m) /\ ImbalanceOk(n)
  BY <1>1, GapIsAtBars
<1>9. /\ IsFiniteSet(D) /\ D # {} /\ D \subseteq Int
      /\ EnrichImbalance(m, f).fill = Min({Max(D), m.hi - m.lo})
  BY <1>1, <1>2, <1>4, <1>8, FillIs
<1>10. /\ IsFiniteSet(E) /\ E # {} /\ E \subseteq Int
       /\ EnrichImbalance(n, g).fill = Min({Max(E), m.hi - m.lo})
  <2>1. p \in 1..Len(g) /\ n.at = g[p].t
    BY <1>3, <1>4, <1>6
  <2> HIDE DEF p
  <2>2. /\ IsFiniteSet(E) /\ E # {} /\ E \subseteq Int
        /\ EnrichImbalance(n, g).fill = Min({Max(E), n.hi - n.lo})
    BY <1>1, <1>8, <2>1, FillIs
  <2> QED
    BY <1>7, <2>2
<1>11. D \subseteq E
  <2>1. \A k \in p + 1..Len(f) : k \in p + 1..Len(g) /\ k \in 1..Len(f)
    BY <1>1, <1>4
  <2>2. \A k \in p + 1..Len(f) : g[k] = f[k]
    BY <1>1, <2>1
  <2> HIDE DEF p
  <2>3. Depths(m, f, p + 1..Len(f)) \subseteq Depths(n, g, p + 1..Len(g))
    BY <1>7, <2>1, <2>2 DEF Depths
  <2> QED
    BY <2>3 DEF Filled
<1> HIDE DEF D, E
<1>12. Max(D) \in D /\ Max(D) \in E
  BY <1>9, <1>11, MaxIs
<1>13. Max(D) \in Int /\ Max(E) \in Int /\ Max(D) <= Max(E)
  BY <1>9, <1>10, <1>12, MaxIs
<1> DEFINE w == m.hi - m.lo
           a == Max(D)
           b == Max(E)
<1>14. w \in Int
  BY <1>8 DEF ImbalanceOk
<1> HIDE DEF w, a, b
<1>15. a \in Int /\ b \in Int /\ a <= b
  BY <1>13 DEF a, b
<1>16. Min({b, w}) >= Min({a, w})
  BY <1>14, <1>15, MinOfTwo
<1> QED
  BY <1>9, <1>10, <1>16 DEF a, b, w

-----------------------------------------------------------------------------
(* The H4 part of the runner's picture, and the window it was made of.     *)
View(p, f) ==
    /\ f = <<>> => p.h4.zones = {} /\ p.h4.imbalances = {}
    /\ f # <<>> => /\ p.h4.zones = {EnrichZone(z, f) : z \in Zones(f)}
                   /\ p.h4.imbalances = {EnrichImbalance(m, f) : m \in Imbalances(f)}
                   /\ WindowStart(p) = {f[1].t}

LEMMA Viewed ==
  ASSUME Live, NEW s, Good(s), NEW p,
         p = Analyze(Frames(s), NoCache).picture
  PROVE  View(p, Frames(s)["H4"])
<1> DEFINE F == Frames(s)
           f == F["H4"]
           h == H4Of(F, NoCache)
<1>1. Good(f) /\ FramesOk(F)
  BY FramesGood DEF FramesOk, TimeFrames
<1>2. p.h4 = Enriched(h, f)
  BY AnalyzeIs DEF RichOf
<1>3. f # <<>> => h = Fresh(F, "H4")
  <2>1. Current(F, NoCache)
    BY NothingCached DEF Current
  <2> HIDE DEF F
  <2> QED
    BY <2>1, CachedLayers
<1>4. f = <<>> => h = EmptySnapshot
  BY DEF H4Of, MtfSnapshot
<1>5. SnapshotOk(h)
  <2>1. CacheOk(NoCache)
    BY DEF CacheOk, NoCache
  <2> HIDE DEF F
  <2> QED
    BY <1>1, <2>1, LayersOk
<1>6. f # <<>> => /\ h.zones = Zones(f) /\ h.imbalances = Imbalances(f)
                  /\ h.levels = Levels(f)
  BY <1>3 DEF Fresh, Snapshot
<1>7. f = <<>> => h.zones = {} /\ h.imbalances = {}
  BY <1>4 DEF EmptySnapshot
<1> HIDE DEF F, f, h
<1>8. /\ p.h4.levels = h.levels
      /\ p.h4.zones = {EnrichZone(z, f) : z \in h.zones}
      /\ p.h4.imbalances = {EnrichImbalance(m, f) : m \in h.imbalances}
  BY <1>1, <1>2, <1>5, EnrichedOk
<1>9. f # <<>> => WindowStart(p) = {f[1].t}
  <2> SUFFICES ASSUME f # <<>> PROVE WindowStart(p) = {f[1].t}
    OBVIOUS
  <2>1. p.h4.levels = Levels(f)
    BY <1>6, <1>8
  <2>2. \A x \in Levels(f) : x.kind = "YO" => x.at = f[1].t
    BY <1>1, FirstOpenLevels
  <2>3. "YO" \in OpenKinds
    BY DEF OpenKinds
  <2>4. \E x \in Levels(f) : x.kind = "YO" /\ x.at = f[1].t
    BY <1>1, <2>3, FirstOpenLevels
  <2> QED
    BY <2>1, <2>2, <2>4 DEF WindowStart
<1> QED
  BY <1>6, <1>7, <1>8, <1>9 DEF View, f, F

LEMMA ViewsAge ==
  ASSUME NEW p, NEW f, View(p, f), NEW q, NEW g, View(q, g), f # <<>> /\ g # <<>>,
         Grown(f, g)
  PROVE  /\ \A m \in p.h4.imbalances, n \in q.h4.imbalances :
              n.at = m.at /\ n.side = m.side => n.fill >= m.fill
         /\ \A y \in p.h4.zones, z \in q.h4.zones :
              z.at = y.at => z.age >= y.age /\ (y.status = "MITIGATED" => z.status = y.status)
<1>1. Good(f) /\ Good(g)
  BY DEF Grown
<1>2. ASSUME NEW m \in p.h4.imbalances, NEW n \in q.h4.imbalances,
             n.at = m.at, n.side = m.side
      PROVE  n.fill >= m.fill
  <2>1. PICK u \in Imbalances(f) : m = EnrichImbalance(u, f)
    BY DEF View
  <2>2. PICK v \in Imbalances(g) : n = EnrichImbalance(v, g)
    BY DEF View
  <2>3. u.at = m.at /\ u.side = m.side
    BY <1>1, <2>1, ImbalancesOk, EnrichedImbalance
  <2>4. v.at = n.at /\ v.side = n.side
    BY <1>1, <2>2, ImbalancesOk, EnrichedImbalance
  <2> QED
    BY <1>2, <2>1, <2>2, <2>3, <2>4, FillsGrow
<1>3. ASSUME NEW y \in p.h4.zones, NEW z \in q.h4.zones, z.at = y.at
      PROVE  z.age >= y.age /\ (y.status = "MITIGATED" => z.status = y.status)
  <2>1. PICK u \in Zones(f) : y = EnrichZone(u, f)
    BY DEF View
  <2>2. PICK v \in Zones(g) : z = EnrichZone(v, g)
    BY DEF View
  <2>3. u.at = y.at
    BY <1>1, <2>1, ZonesOk, EnrichedZone
  <2>4. v.at = z.at
    BY <1>1, <2>2, ZonesOk, EnrichedZone
  <2> QED
    BY <1>3, <2>1, <2>2, <2>3, <2>4, ZonesAge
<1> QED
  BY <1>2, <1>3

(* The window of a time frame after one more bar: the same, or longer.     *)
LEMMA H4Grows ==
  ASSUME Live, NEW s, NEW b, Follows(b, s),
         Frames(s)["H4"] # <<>>,
         Frames(Append(s, b))["H4"][1].t = Frames(s)["H4"][1].t
  PROVE  Grown(Frames(s)["H4"], Frames(Append(s, b))["H4"])
<1> DEFINE r == Append(s, b)
           n == Lookback["H4"]
           f == ClosedOf(s, "H4")
           g == ClosedOf(r, "H4")
<1>1. /\ Good(s) /\ Good(r) /\ Len(s) > 0 /\ Len(r) > 0
  <2>1. Good(s) /\ Good(r) /\ Len(s) \in Nat \ {0} /\ Len(r) = Len(s) + 1
    BY FollowsGood DEF Follows
  <2> QED
    BY <2>1
<1>2. "H4" \in DOMAIN Span /\ n \in Nat \ {0}
  BY Spans DEF TimeFrames
<1>3. /\ Good(f) /\ Good(g)
      /\ IF Closing(r, "H4") = {} THEN g = f ELSE Longer(f, g)
  BY <1>2, ClosedNext
<1>4. Frames(s)["H4"] = Window(f, n) /\ Frames(r)["H4"] = Window(g, n)
  BY <1>1, LiveFrames
<1> HIDE DEF r, n, f, g
<1>5. Good(Window(f, n)) /\ Good(Window(g, n))
  BY <1>2, <1>3, WindowFacts
<1>6. CASE g = f
  <2> DEFINE w == Window(f, n)
  <2>1. Good(w) /\ Len(w) \in Nat
    BY <1>5, FrameFacts
  <2> HIDE DEF w
  <2>2. Grown(w, w)
    BY <2>1 DEF Grown
  <2> QED
    BY <1>4, <1>6, <2>2 DEF w, r
<1>7. CASE Longer(f, g)
  <2>1. Anchored(Window(f, n), Window(g, n))
    BY <1>4 DEF Anchored, r
  <2>2. Extends(Window(f, n), Window(g, n))
    BY <1>2, <1>3, <1>7, <2>1, WindowGrows
  <2> DEFINE v == Window(f, n)
             w == Window(g, n)
  <2> HIDE DEF v, w
  <2>3. /\ Good(v) /\ Good(w) /\ Len(v) \in Nat /\ Len(w) = Len(v) + 1
        /\ \A i \in 1..Len(v) : w[i] = v[i]
    BY <2>2, ExtendsBy DEF v, w
  <2>4. Grown(v, w)
    BY <2>3 DEF Grown
  <2> QED
    BY <1>4, <2>4 DEF v, w, r
<1> QED
  BY <1>3, <1>6, <1>7

(* While the H4 window stands, fills and ages never shrink and a mitigated *)
(* zone stays mitigated, whatever part of the picture came from the cache  *)
(* (PoisOnlyAge).                                                          *)
THEOREM PoisAlwaysAge ==
  ASSUME Live
  PROVE  Spec => PoisOnlyAge
<1>1. LiveInv /\ StackInv' /\ [Next]_vars =>
        [WindowStart(picture') = WindowStart(picture) =>
          /\ \A m \in picture.h4.imbalances, n \in picture'.h4.imbalances :
                n.at = m.at /\ n.side = m.side => n.fill >= m.fill
          /\ \A y \in picture.h4.zones, z \in picture'.h4.zones :
                z.at = y.at => z.age >= y.age /\ (y.status = "MITIGATED" => z.status = y.status)]_vars
  <2> SUFFICES ASSUME LiveInv, Next, StackInv', WindowStart(picture') = WindowStart(picture)
               PROVE  /\ \A m \in picture.h4.imbalances, n \in picture'.h4.imbalances :
                           n.at = m.at /\ n.side = m.side => n.fill >= m.fill
                      /\ \A y \in picture.h4.zones, z \in picture'.h4.zones :
                           z.at = y.at => /\ z.age >= y.age
                                          /\ y.status = "MITIGATED" => z.status = y.status
    OBVIOUS
  <2>1. PICK m \in Moves : /\ series' = NextSeries(series, m)
                           /\ Follows(NextBar(series, m), series)
    BY GoesOn
  <2>2. Good(series) /\ picture = Analyze(Frames(series), NoCache).picture
    BY DEF LiveInv, StackInv, SeriesInv
  <2>3. /\ Good(series') /\ picture' = Analyze(Frames(series'), NoCache).picture
    BY GoesOn DEF LiveInv, StackInv, SeriesInv
  <2> DEFINE b == NextBar(series, m)
             s == series
             r == Append(s, b)
             p == picture
             q == picture'
             f == Frames(s)["H4"]
             g == Frames(r)["H4"]
  <2>4. series' = r /\ Follows(b, s)
    BY <2>1 DEF NextSeries
  <2>5. View(p, f)
    BY <2>2, Viewed
  <2>6. View(q, g)
    BY <2>3, <2>4, Viewed
  <2>7. WindowStart(q) = WindowStart(p)
    OBVIOUS
  <2> HIDE DEF p, q, b, s, r
  <2>8. CASE f = <<>> \/ g = <<>>
    <3>1. \/ p.h4.zones = {} /\ p.h4.imbalances = {}
          \/ q.h4.zones = {} /\ q.h4.imbalances = {}
      BY <2>5, <2>6, <2>8 DEF View
    <3> QED
      BY <3>1 DEF p, q
  <2>9. CASE f # <<>> /\ g # <<>>
    <3>1. g[1].t = f[1].t
      BY <2>5, <2>6, <2>7, <2>9 DEF View
    <3>2. Grown(f, g)
      BY <2>4, <2>9, <3>1, H4Grows DEF r
    <3> HIDE DEF f, g
    <3> QED
      BY <2>5, <2>6, <2>9, <3>2, ViewsAge DEF p, q
  <2> QED
    BY <2>8, <2>9
<1> QED
  BY <1>1, StackAlways, LiveAlways, PTL DEF Spec, PoisOnlyAge

=============================================================================
