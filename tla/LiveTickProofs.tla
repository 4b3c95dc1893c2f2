--------------------------- MODULE LiveTickProofs ---------------------------
(***************************************************************************)
(* Theorems about LiveTick, for any symbols, spans, bounds, settings and   *)
(* number of attempts.                                                     *)
(***************************************************************************)
EXTENDS LiveTick, SequenceTheorems, TLAPS

Places == {"D1", "H4", "M15"}

Frame == [last : Int, seen : Int]

-----------------------------------------------------------------------------
(* Helpers *)

(* FiniteSetsExt!Min of two integers.                                      *)
LEMMA MinOfTwo ==
    ASSUME NEW a \in Int, NEW b \in Int
    PROVE  Min({a, b}) = IF a <= b THEN a ELSE b
<1>1. \E x \in {a, b} : \A y \in {a, b} : x <= y
  OBVIOUS
<1>2. Min({a, b}) \in {a, b} /\ \A y \in {a, b} : Min({a, b}) <= y
  BY <1>1 DEF Min
<1> QED
  BY <1>2

(* The phases of a turn in which a call for candles is under way.          *)
LEMMA FetchPhases == ToSet(TimeFrames) = Places
BY DEF ToSet, TimeFrames, Places

(* An M15 bar lasts from one close to the next.                            *)
LEMMA M15Opens ==
    ASSUME NEW t \in Int
    PROVE  OpenOf("M15", t) = t
BY LiveTickAssumption DEF OpenOf

(* How many symbols the tick has done, plus one.                           *)
pos == Len(Symbols) + 1 - Len(queue)

(* The current symbol is the one at pos; its turn over, pos moves on.      *)
LEMMA QueueHead ==
    ASSUME TypeOK, queue # <<>>
    PROVE  /\ pos \in 1..Len(Symbols) /\ symbol = Symbols[pos]
           /\ symbol \in ToSet(Symbols)
           /\ Tail(queue) = SubSeq(Symbols, pos + 1, Len(Symbols))
           /\ Len(Tail(queue)) = Len(queue) - 1
<1> DEFINE n == Len(Symbols)
<1>1. Symbols \in Seq(ToSet(Symbols)) /\ n \in Nat
  BY LiveTickAssumption, LenProperties
<1>2. PICK k \in 1..n + 1 : queue = SubSeq(Symbols, k, n)
  BY DEF TypeOK
<1>3. k # n + 1
  BY <1>1, <1>2, SubSeqEmpty
<1>4. k \in 1..n /\ n \in k..n
  BY <1>1, <1>2, <1>3
<1>5. \A i \in k..n : Symbols[i] \in ToSet(Symbols)
  BY <1>1, <1>4, ElementOfSeq
<1>6. Len(queue) = n - k + 1 /\ queue \in Seq(ToSet(Symbols))
  BY <1>1, <1>2, <1>4, <1>5, SubSeqProperties
<1>7. pos = k
  BY <1>1, <1>4, <1>6 DEF pos
<1>8. symbol = Symbols[k] /\ Tail(queue) = SubSeq(Symbols, k + 1, n)
  BY <1>1, <1>2, <1>4, HeadTailOfSubSeq DEF symbol
<1>9. Len(Tail(queue)) = Len(queue) - 1
  BY <1>6, HeadTailProperties
<1> QED
  BY <1>4, <1>5, <1>7, <1>8, <1>9

-----------------------------------------------------------------------------
(* The invariant *)

(* The clock and the program counter know where the turn is.               *)
Thread ==
    /\ phase \in {"idle", "turn"} => atBar = None
    /\ phase \notin {"idle", "turn"} => atBar \in Nat /\ atBar < clock /\ queue # <<>>
    /\ phase \notin {"decide", "placing"} => picture = NoPicture
    /\ phase = "idle" => queue = <<>>
    /\ phase \notin Places => asked = None
    /\ asked # None => atBar < asked

(* A parsed M15 frame ends with the bar of the turn or a later one, whole. *)
FramesOK ==
    /\ frames \in [Places -> Frame]
    /\ phase = "analyze" /\ frames["M15"] # NoFrame =>
          frames["M15"].last >= atBar /\ frames["M15"].seen > atBar

(* What every cache entry e under the key k is.                            *)
EntryOK(k, e) ==
    /\ k = <<k[1], k[2]>> /\ k[1] \in Places
    /\ e.last = k[2]
    /\ k[1] = "M15" => Whole("M15", e)

CachesOK ==
    /\ DOMAIN caches = ToSet(Symbols)
    /\ \A s \in ToSet(Symbols) : \A k \in DOMAIN caches[s] : EntryOK(k, caches[s][k])

PictureOK == picture.M15 # NoFrame => picture.M15.last = atBar

Inv == TypeOK /\ Thread /\ FramesOK /\ CachesOK /\ PictureOK

LEMMA InvImplies == Inv => TypeOK /\ WholeM15Bars
BY DEF Inv, CachesOK, EntryOK, PictureOK, WholeM15Bars

-----------------------------------------------------------------------------
(* The initial state *)

LEMMA InitInv == Init => Inv
<1> SUFFICES ASSUME Init PROVE Inv
  OBVIOUS
<1> USE DEF Init
<1>1. Symbols \in Seq(ToSet(Symbols)) /\ Len(Symbols) \in Nat
  BY LiveTickAssumption, LenProperties
<1>2. queue = SubSeq(Symbols, Len(Symbols) + 1, Len(Symbols))
  BY <1>1, SubSeqEmpty
<1>3. TypeOK
  <2>1. clock \in FirstClock..LastClock
    BY LiveTickAssumption
  <2>2. account \in {"TESTNET", "MAINNET"}
    BY DEF Check
  <2>3. \E k \in 1..Len(Symbols) + 1 : queue = SubSeq(Symbols, k, Len(Symbols))
    BY <1>1, <1>2
  <2>4. attempts \in 0..MaxAttempts - 1
    BY LiveTickAssumption
  <2>5. \A s \in ToSet(Symbols) : \A k \in DOMAIN caches[s] : caches[s][k].last = k[2]
    OBVIOUS
  <2> QED
    BY <2>1, <2>2, <2>3, <2>4, <2>5 DEF TypeOK
<1>4. Thread
  BY DEF Thread, Places
<1>5. FramesOK
  BY DEF FramesOK, Frame, NoPicture, NoFrame, Places, None
<1>6. CachesOK
  BY DEF CachesOK
<1>7. PictureOK
  BY DEF PictureOK, NoPicture, NoFrame
<1> QED
  BY <1>3, <1>4, <1>5, <1>6, <1>7 DEF Inv

-----------------------------------------------------------------------------
(* Steps *)

(* Whatever ends a symbol's turn.                                          *)
LEMMA TurnOver ==
    ASSUME Inv, queue # <<>>, NextSymbol, CachesOK',
           UNCHANGED <<clock, due, config, account>>
    PROVE  Inv'
<1>1. /\ phase' = "turn" /\ queue' = Tail(queue) /\ atBar' = None /\ attempts' = 0
      /\ asked' = None /\ frames' = NoPicture /\ picture' = NoPicture
  BY DEF NextSymbol
<1>2. TypeOK'
  <2>1. Len(Symbols) \in Nat
    BY LiveTickAssumption, LenProperties
  <2>2. \E k \in 1..Len(Symbols) + 1 : queue' = SubSeq(Symbols, k, Len(Symbols))
    <3>1. pos \in 1..Len(Symbols) /\ Tail(queue) = SubSeq(Symbols, pos + 1, Len(Symbols))
      BY QueueHead DEF Inv
    <3>2. pos + 1 \in 1..Len(Symbols) + 1
      BY <2>1, <3>1
    <3> QED
      BY <1>1, <3>1, <3>2
  <2>3. \A s \in ToSet(Symbols) : \A k \in DOMAIN caches'[s] : caches'[s][k].last = k[2]
    BY DEF CachesOK, EntryOK
  <2>4. attempts' \in 0..MaxAttempts - 1
    BY <1>1, LiveTickAssumption
  <2>5. clock' \in FirstClock..LastClock /\ due' \in BOOLEAN /\ config' \in Configs
        /\ account' \in {"TESTNET", "MAINNET"}
    BY DEF Inv, TypeOK
  <2> QED
    BY <1>1, <2>2, <2>3, <2>4, <2>5 DEF TypeOK
<1>3. Thread' /\ PictureOK'
  BY <1>1 DEF Thread, PictureOK, Places, NoPicture, NoFrame
<1>4. FramesOK'
  BY <1>1 DEF FramesOK, Frame, NoPicture, NoFrame, Places, None
<1> QED
  BY <1>2, <1>3, <1>4 DEF Inv

(* The frame of the turn's analysis ends with its own bar, whole.          *)
LEMMA SlicedM15 ==
    ASSUME Inv, phase = "analyze", frames["M15"] # NoFrame
    PROVE  Sliced("M15").last = atBar /\ Sliced("M15").seen > atBar /\ atBar \in Int
<1>1. atBar \in Int /\ frames["M15"] \in Frame
      /\ frames["M15"].last >= atBar /\ frames["M15"].seen > atBar
  BY DEF Inv, Thread, FramesOK, Places
<1>2. OpenOf("M15", atBar) = atBar
  BY <1>1, M15Opens
<1>3. Min({frames["M15"].last, atBar}) = atBar
  BY <1>1, MinOfTwo DEF Frame
<1> QED
  BY <1>1, <1>2, <1>3 DEF Sliced, Frame

(* A snapshot is what the cache holds under its key, or fresh from the     *)
(* frame: either way it is what an entry under that key may be.            *)
LEMMA SnapshotOK ==
    ASSUME Inv, phase = "analyze", NEW tf \in Places, frames[tf] # NoFrame
    PROVE  EntryOK(CacheKey(tf, Sliced(tf).last), Snapshot(tf))
<1> DEFINE f == Sliced(tf)
           k == CacheKey(tf, f.last)
<1>1. k = <<tf, f.last>> /\ k[1] = tf /\ k[2] = f.last
  BY DEF CacheKey
<1>2. CASE k \in DOMAIN caches[symbol]
  <2>1. symbol \in ToSet(Symbols)
    BY QueueHead DEF Inv, Thread
  <2>2. EntryOK(k, caches[symbol][k])
    BY <1>2, <2>1 DEF Inv, CachesOK
  <2>3. Snapshot(tf) = caches[symbol][k]
    BY <1>2 DEF Snapshot
  <2> QED
    BY <2>2, <2>3
<1>3. CASE k \notin DOMAIN caches[symbol]
  <2>1. Snapshot(tf) = [last |-> f.last, seen |-> f.seen, levels |-> Sliced("D1").last]
    BY <1>3 DEF Snapshot
  <2>2. Snapshot(tf).last = f.last /\ Snapshot(tf).seen = f.seen
    BY <2>1
  <2>3. k[1] = "M15" => Whole("M15", Snapshot(tf))
    <3>1. ASSUME tf = "M15" PROVE Whole("M15", Snapshot("M15"))
      <4>1. Sliced("M15").last = atBar /\ Sliced("M15").seen > atBar /\ atBar \in Int
        BY <3>1, SlicedM15
      <4>2. Sliced("M15").seen \in Int
        BY DEF Inv, FramesOK, Frame, Places, Sliced
      <4> QED
        BY <2>2, <3>1, <4>1, <4>2, LiveTickAssumption DEF Whole
    <3> QED
      BY <1>1, <3>1
  <2> QED
    BY <1>1, <2>2, <2>3 DEF EntryOK
<1> QED
  BY <1>2, <1>3

(* An analysis leaves every entry it finds and adds only such snapshots.   *)
LEMMA CacheStep ==
    ASSUME Inv, phase = "analyze", NEW done \in SUBSET Held(Places),
           caches' = [caches EXCEPT ![symbol] = CacheWith(done)]
    PROVE  CachesOK'
<1>1. symbol \in ToSet(Symbols) /\ DOMAIN caches = ToSet(Symbols)
  BY QueueHead DEF Inv, Thread, CachesOK
<1>2. caches'[symbol] = CacheWith(done)
      /\ \A s \in ToSet(Symbols) \ {symbol} : caches'[s] = caches[s]
  BY <1>1
<1>3. ASSUME NEW k \in DOMAIN CacheWith(done)
      PROVE  EntryOK(k, CacheWith(done)[k])
  <2> DEFINE c   == caches[symbol]
             new == [tf \in done |-> CacheKey(tf, Sliced(tf).last)]
  <2>1. DOMAIN CacheWith(done) = DOMAIN c \cup {new[tf] : tf \in done}
        /\ CacheWith(done)[k] = IF k \in DOMAIN c THEN c[k]
                                ELSE Snapshot(CHOOSE tf \in done : new[tf] = k)
    BY <1>3 DEF CacheWith
  <2>2. CASE k \in DOMAIN c
    BY <1>1, <2>1, <2>2 DEF Inv, CachesOK
  <2>3. CASE k \notin DOMAIN c
    <3>1. \E tf \in done : new[tf] = k
      BY <1>3, <2>1, <2>3
    <3>2. PICK tf \in done : tf = (CHOOSE t \in done : new[t] = k) /\ new[tf] = k
      BY <3>1
    <3>3. CacheWith(done)[k] = Snapshot(tf) /\ k = CacheKey(tf, Sliced(tf).last)
      BY <2>1, <2>3, <3>2
    <3>4. tf \in Places /\ frames[tf] # NoFrame
      BY DEF Held
    <3> QED
      BY <3>3, <3>4, SnapshotOK
  <2> QED
    BY <2>2, <2>3
<1>4. \A s \in ToSet(Symbols) : \A k \in DOMAIN caches'[s] : EntryOK(k, caches'[s][k])
  BY <1>1, <1>2, <1>3 DEF Inv, CachesOK
<1>5. DOMAIN caches' = ToSet(Symbols)
  BY <1>1
<1> QED
  BY <1>4, <1>5 DEF CachesOK

(* The parts of the invariant that a step leaves as they are.              *)
LEMMA CachesKept ==
    ASSUME CachesOK, UNCHANGED caches
    PROVE  CachesOK'
BY DEF CachesOK, EntryOK, Whole

LEMMA CloseBarInv == ASSUME Inv, CloseBar PROVE Inv'
<1>1. /\ clock < LastClock /\ clock' = clock + 1 /\ due' = TRUE
      /\ UNCHANGED <<config, account, phase, queue, caches, turns>>
      /\ UNCHANGED <<atBar, attempts, asked, frames, picture>>
  BY DEF CloseBar, locals
<1>2. clock \in Int /\ clock \in FirstClock..LastClock /\ FirstClock \in Nat /\ LastClock \in Nat
  BY LiveTickAssumption DEF Inv, TypeOK
<1>3. TypeOK'
  <2>1. clock' \in FirstClock..LastClock
    BY <1>1, <1>2
  <2>2. asked' \in {None} \cup FirstClock..clock'
    <3>1. asked \in {None} \cup FirstClock..clock
      BY DEF Inv, TypeOK
    <3> QED
      BY <1>1, <1>2, <3>1
  <2> QED
    BY <1>1, <2>1, <2>2 DEF Inv, TypeOK
<1>4. Thread'
  BY <1>1, <1>2 DEF Inv, Thread
<1>5. FramesOK' /\ PictureOK'
  BY <1>1 DEF Inv, FramesOK, PictureOK
<1> QED
  BY <1>1, <1>3, <1>4, <1>5, CachesKept DEF Inv

LEMMA FireInv == ASSUME Inv, Fire PROVE Inv'
<1>1. /\ due' = FALSE
      /\ UNCHANGED <<clock, config, account, caches, turns>>
      /\ UNCHANGED <<atBar, attempts, asked, frames, picture>>
      /\ \/ phase = "idle" /\ phase' = "turn" /\ queue' = Symbols
         \/ UNCHANGED <<phase, queue>>
  BY DEF Fire, locals
<1>2. \E k \in 1..Len(Symbols) + 1 : queue' = SubSeq(Symbols, k, Len(Symbols))
  <2>1. Symbols = SubSeq(Symbols, 1, Len(Symbols)) /\ 1 \in 1..Len(Symbols) + 1
    BY LiveTickAssumption, SubSeqFull, LenProperties
  <2> QED
    BY <1>1, <2>1 DEF Inv, TypeOK
<1>3. TypeOK'
  BY <1>1, <1>2 DEF Inv, TypeOK
<1>4. Thread'
  BY <1>1 DEF Inv, Thread, Places
<1>5. FramesOK' /\ PictureOK'
  BY <1>1 DEF Inv, FramesOK, PictureOK
<1> QED
  BY <1>1, <1>3, <1>4, <1>5, CachesKept DEF Inv

LEMMA BeginTurnInv == ASSUME Inv, BeginTurn PROVE Inv'
<1>1. /\ phase = "turn" /\ queue # <<>> /\ phase' = "D1" /\ atBar' = clock - 1
      /\ attempts' = 0 /\ asked' = None
      /\ UNCHANGED <<clock, due, config, account, queue, frames, picture, caches>>
  BY DEF BeginTurn, LastClosedM15
<1>2. clock - 1 \in Nat /\ clock - 1 < clock
  BY LiveTickAssumption DEF Inv, TypeOK
<1>3. TypeOK'
  <2>1. attempts' \in 0..MaxAttempts - 1
    BY <1>1, LiveTickAssumption
  <2> QED
    BY <1>1, <2>1, FetchPhases DEF Inv, TypeOK, Places
<1>4. Thread'
  BY <1>1, <1>2 DEF Inv, Thread, Places
<1>5. FramesOK' /\ PictureOK'
  BY <1>1 DEF Inv, Thread, FramesOK, PictureOK, NoPicture, NoFrame
<1> QED
  BY <1>1, <1>3, <1>4, <1>5, CachesKept DEF Inv

LEMMA ReplyInv == ASSUME Inv, Reply PROVE Inv'
<1>1. /\ phase \in Places /\ asked' = clock
      /\ UNCHANGED <<clock, due, config, account, phase, queue, caches>>
      /\ UNCHANGED <<atBar, attempts, frames, picture>>
  BY FetchPhases DEF Reply, Fetching
<1>2. clock \in FirstClock..LastClock /\ FirstClock \in Nat /\ LastClock \in Nat
  BY LiveTickAssumption DEF Inv, TypeOK
<1>3. asked' \in {None} \cup FirstClock..clock'
  BY <1>1, <1>2
<1>4. TypeOK'
  BY <1>1, <1>3 DEF Inv, TypeOK
<1>5. Thread'
  BY <1>1 DEF Inv, Thread, Places
<1>6. FramesOK' /\ PictureOK'
  BY <1>1 DEF Inv, FramesOK, PictureOK
<1> QED
  BY <1>1, <1>4, <1>5, <1>6, CachesKept DEF Inv

LEMMA RequestFailsInv == ASSUME Inv, RequestFails PROVE Inv'
<1>1. phase \in Places /\ UNCHANGED <<clock, due, config, account, caches, turns>>
  BY FetchPhases DEF RequestFails, Fetching
<1>2. queue # <<>>
  BY <1>1 DEF Inv, Thread, Places
<1>3. CASE Attempted(attempts) < MaxAttempts
  <2>1. attempts' = attempts + 1 /\ attempts + 1 < MaxAttempts
        /\ UNCHANGED <<phase, queue, atBar, asked, frames, picture>>
    BY <1>3 DEF RequestFails, Attempted
  <2>2. attempts' \in 0..MaxAttempts - 1
    BY <2>1, LiveTickAssumption DEF Inv, TypeOK
  <2>3. TypeOK'
    BY <1>1, <2>1, <2>2 DEF Inv, TypeOK
  <2>4. Thread' /\ FramesOK' /\ PictureOK'
    BY <1>1, <2>1 DEF Inv, Thread, FramesOK, PictureOK
  <2> QED
    BY <1>1, <2>3, <2>4, CachesKept DEF Inv
<1>4. CASE ~(Attempted(attempts) < MaxAttempts)
  <2>1. NextSymbol
    BY <1>4 DEF RequestFails
  <2>2. CachesOK'
    BY <1>1, CachesKept DEF Inv
  <2> QED
    BY <1>1, <1>2, <2>1, <2>2, TurnOver
<1> QED
  BY <1>3, <1>4

LEMMA ParseInv == ASSUME Inv, Parse PROVE Inv'
<1> PICK f \in {FrameOf(phase, asked, clock), NoFrame} :
            frames' = [frames EXCEPT ![phase] = f]
  BY DEF Parse
<1>1. /\ phase \in Places /\ asked # None
      /\ frames' = [frames EXCEPT ![phase] = f]
      /\ phase' = AfterFetch[phase] /\ attempts' = 0 /\ asked' = None
      /\ UNCHANGED <<clock, due, config, account, queue, atBar, picture, caches>>
  BY FetchPhases DEF Parse, Fetching
<1>2. \/ phase = "D1" /\ phase' = "H4"
      \/ phase = "H4" /\ phase' = "M15"
      \/ phase = "M15" /\ phase' = "analyze"
  BY <1>1 DEF Places, AfterFetch
<1>3. asked \in Int /\ clock \in Int /\ atBar \in Int /\ atBar < asked
  BY <1>1, LiveTickAssumption DEF Inv, TypeOK, Thread, Places
<1>4. TypeOK'
  <2>1. attempts' \in 0..MaxAttempts - 1
    BY <1>1, LiveTickAssumption
  <2>2. phase' \in {"idle", "turn", "analyze", "decide", "placing"} \cup ToSet(TimeFrames)
    BY <1>2, FetchPhases DEF Places
  <2> QED
    BY <1>1, <2>1, <2>2 DEF Inv, TypeOK
<1>5. Thread'
  BY <1>1, <1>2 DEF Inv, Thread, Places
<1>6. FramesOK'
  <2>1. f \in Frame
    <3>1. Span[phase] \in Int
      BY <1>2, LiveTickAssumption
    <3>2. OpenOf(phase, asked) \in Int
      <4>1. Span[phase] \in Nat \ {0}
        BY <1>2, LiveTickAssumption
      <4>2. asked \div Span[phase] \in Int
        BY <1>3, <4>1
      <4> QED
        BY <4>1, <4>2 DEF OpenOf
    <3> QED
      BY <1>3, <3>1, <3>2 DEF FrameOf, Frame, NoFrame, None
  <2>2. frames' \in [Places -> Frame]
    BY <1>1, <2>1 DEF Inv, FramesOK
  <2>3. phase = "M15" /\ frames'["M15"] # NoFrame =>
           frames'["M15"].last >= atBar /\ frames'["M15"].seen > atBar
    <3>1. ASSUME phase = "M15", frames'["M15"] # NoFrame
          PROVE  frames'["M15"] = [last |-> IF asked + 1 <= clock THEN asked ELSE asked - 1,
                                   seen |-> asked]
      <4>1. frames'["M15"] = FrameOf("M15", asked, clock)
        BY <1>1, <3>1 DEF Inv, FramesOK
      <4>2. OpenOf("M15", asked) = asked /\ Span["M15"] = 1
        BY <1>3, M15Opens, LiveTickAssumption
      <4> QED
        BY <4>1, <4>2 DEF FrameOf
    <3> QED
      BY <1>3, <3>1
  <2> QED
    BY <1>1, <1>2, <2>2, <2>3 DEF FramesOK
<1>7. PictureOK'
  BY <1>1 DEF Inv, PictureOK
<1> QED
  BY <1>1, <1>4, <1>5, <1>6, <1>7, CachesKept DEF Inv

(* What an analysis was made of: frames that hold a bar.                   *)
LEMMA AnalyzedFrames ==
    ASSUME AnalyzeFrames
    PROVE  \E done \in SUBSET Held(Places) :
              /\ caches' = [caches EXCEPT ![symbol] = CacheWith(done)]
              /\ picture' = [tf \in Places |-> IF tf \in done THEN Snapshot(tf) ELSE NoFrame]
<1>1. PICK ltf \in BOOLEAN :
        LET done == Held({"D1", "H4"} \cup (IF ltf THEN {"M15"} ELSE {}))
        IN /\ caches' = [caches EXCEPT ![symbol] = CacheWith(done)]
           /\ picture' = [tf \in Places |-> IF tf \in done THEN Snapshot(tf) ELSE NoFrame]
  BY DEF AnalyzeFrames, Places
<1> DEFINE done == Held({"D1", "H4"} \cup (IF ltf THEN {"M15"} ELSE {}))
<1>2. done \in SUBSET Held(Places)
  BY DEF Held, Places
<1> HIDE DEF done
<1> QED
  <2>1. /\ caches' = [caches EXCEPT ![symbol] = CacheWith(done)]
        /\ picture' = [tf \in Places |-> IF tf \in done THEN Snapshot(tf) ELSE NoFrame]
    BY <1>1 DEF done
  <2> QED
    BY <1>2, <2>1

(* Likewise what is left of one that raised.                               *)
LEMMA RaisedFrames ==
    ASSUME AnalyzeRaises
    PROVE  \E done \in SUBSET Held(Places) :
              caches' = [caches EXCEPT ![symbol] = CacheWith(done)]
<1>1. PICK tfs \in {{}, {"D1"}, {"D1", "H4"}} :
        caches' = [caches EXCEPT ![symbol] = CacheWith(Held(tfs))]
  BY DEF AnalyzeRaises
<1>2. Held(tfs) \in SUBSET Held(Places)
  BY DEF Held, Places
<1> QED
  BY <1>1, <1>2

LEMMA AnalyzeFramesInv == ASSUME Inv, AnalyzeFrames PROVE Inv'
<1>1. /\ phase = "analyze" /\ phase' = "decide"
      /\ UNCHANGED <<clock, due, config, account, queue, atBar, attempts, asked, frames>>
  BY DEF AnalyzeFrames
<1>2. PICK done \in SUBSET Held(Places) :
        /\ caches' = [caches EXCEPT ![symbol] = CacheWith(done)]
        /\ picture' = [tf \in Places |-> IF tf \in done THEN Snapshot(tf) ELSE NoFrame]
  BY AnalyzedFrames
<1>3. CachesOK'
  BY <1>1, <1>2, CacheStep
<1>4. TypeOK'
  <2>1. \A s \in ToSet(Symbols) : \A k \in DOMAIN caches'[s] : caches'[s][k].last = k[2]
    BY <1>3 DEF CachesOK, EntryOK
  <2> QED
    BY <1>1, <2>1 DEF Inv, TypeOK
<1>5. Thread' /\ FramesOK'
  BY <1>1 DEF Inv, Thread, FramesOK, Places
<1>6. PictureOK'
  <2>1. ASSUME frames["M15"] # NoFrame PROVE Snapshot("M15").last = atBar
    BY <1>1, <2>1, SlicedM15, SnapshotOK DEF EntryOK, CacheKey, Places
  <2>2. picture'.M15 = IF "M15" \in done THEN Snapshot("M15") ELSE NoFrame
    BY <1>2 DEF Places
  <2>3. "M15" \in done => frames["M15"] # NoFrame
    BY DEF Held
  <2> QED
    BY <1>1, <2>1, <2>2, <2>3 DEF PictureOK
<1> QED
  BY <1>3, <1>4, <1>5, <1>6 DEF Inv

LEMMA AnalyzeRaisesInv == ASSUME Inv, AnalyzeRaises PROVE Inv'
<1>1. /\ phase = "analyze" /\ NextSymbol
      /\ UNCHANGED <<clock, due, config, account>>
  BY DEF AnalyzeRaises
<1>2. PICK done \in SUBSET Held(Places) :
        caches' = [caches EXCEPT ![symbol] = CacheWith(done)]
  BY RaisedFrames
<1>3. CachesOK'
  BY <1>1, <1>2, CacheStep
<1>4. queue # <<>>
  BY <1>1 DEF Inv, Thread
<1> QED
  BY <1>1, <1>3, <1>4, TurnOver

(* The actions that do nothing but end the turn.                           *)
LEMMA TurnEndsInv == ASSUME Inv, FetchRaises \/ NotValidated \/ Placed PROVE Inv'
<1>1. /\ phase \in Places \cup {"decide", "placing"}
      /\ NextSymbol /\ UNCHANGED <<clock, due, config, account, caches>>
  BY FetchPhases DEF FetchRaises, NotValidated, Placed, Fetching
<1>2. queue # <<>>
  BY <1>1 DEF Inv, Thread, Places
<1>3. CachesOK'
  BY <1>1, CachesKept DEF Inv
<1> QED
  BY <1>1, <1>2, <1>3, TurnOver

(* The actions that move nothing but the program counter.                  *)
LEMMA MovesOnInv == ASSUME Inv, PlaceOrder \/ EndTick PROVE Inv'
<1>1. /\ UNCHANGED <<clock, due, config, account, queue, caches>>
      /\ UNCHANGED <<atBar, attempts, asked, frames, picture>>
      /\ \/ phase = "decide" /\ phase' = "placing"
         \/ phase = "turn" /\ queue = <<>> /\ phase' = "idle"
  BY DEF PlaceOrder, EndTick, locals
<1>2. TypeOK'
  BY <1>1 DEF Inv, TypeOK
<1>3. Thread' /\ FramesOK' /\ PictureOK'
  BY <1>1 DEF Inv, Thread, FramesOK, PictureOK, Places
<1> QED
  BY <1>1, <1>2, <1>3, CachesKept DEF Inv

LEMMA StepInv == Inv /\ [Next]_vars => Inv'
<1> SUFFICES ASSUME Inv, [Next]_vars PROVE Inv'
  OBVIOUS
<1>1. CASE CloseBar
  BY <1>1, CloseBarInv
<1>2. CASE Fire
  BY <1>2, FireInv
<1>3. CASE BeginTurn
  BY <1>3, BeginTurnInv
<1>4. CASE Reply
  BY <1>4, ReplyInv
<1>5. CASE RequestFails
  BY <1>5, RequestFailsInv
<1>6. CASE Parse
  BY <1>6, ParseInv
<1>7. CASE AnalyzeFrames
  BY <1>7, AnalyzeFramesInv
<1>8. CASE AnalyzeRaises
  BY <1>8, AnalyzeRaisesInv
<1>9. CASE FetchRaises \/ NotValidated \/ Placed
  BY <1>9, TurnEndsInv
<1>10. CASE PlaceOrder \/ EndTick
  BY <1>10, MovesOnInv
<1>11. CASE UNCHANGED vars
  BY <1>11 DEF vars, locals, Inv, TypeOK, Thread, FramesOK, CachesOK, EntryOK, Whole,
               PictureOK
<1> QED
  BY <1>1, <1>2, <1>3, <1>4, <1>5, <1>6, <1>7, <1>8, <1>9, <1>10, <1>11
     DEF Next, Service

-----------------------------------------------------------------------------
(* Theorems *)

LEMMA Invariance == Spec => []Inv
BY InitInv, StepInv, PTL DEF Spec

(* The process's state keeps its shape: in particular the queue is always  *)
(* what is left of the symbols, and a cache entry is the snapshot of the   *)
(* bar in its key.                                                         *)
THEOREM TypeCorrect == Spec => []TypeOK
BY Invariance, InvImplies, PTL

(* However the clock and the calls interleave, every M15 snapshot that is  *)
(* cached or decided on ends with the bar of its turn, seen whole.         *)
THEOREM M15AlwaysWhole == Spec => []WholeM15Bars
BY Invariance, InvImplies, PTL

-----------------------------------------------------------------------------
(* The order of a symbol's turns *)

(* The symbol s is still to have its turn in this tick.                    *)
Pending(s) == \E i \in pos..Len(Symbols) :
                 Symbols[i] = s /\ (i = pos => phase = "turn")

(* How far the last bar of the turns T, and the one before it, lie behind  *)
(* the clock: one close further when another turn may begin before the     *)
(* next close, in this tick (p) or in the one whose fire is due (d).       *)
Behind(T, now, d, p) ==
    /\ Len(T) >= 1 => T[Len(T)] < now /\ (d /\ p => T[Len(T)] < now - 1)
    /\ Len(T) >= 2 => T[Len(T) - 1] < now /\ ((d \/ p) => T[Len(T) - 1] < now - 1)

TurnsOK ==
    /\ turns \in [ToSet(Symbols) -> Seq(Nat)]
    /\ \A s \in ToSet(Symbols) : Behind(turns[s], clock, due, Pending(s))

OrderInv == Inv /\ TurnsOK /\ BarsInOrder

(* A step that begins no turn and passes no close, and makes no symbol     *)
(* pending, keeps the order.                                               *)
LEMMA OrderKept ==
    ASSUME OrderInv, UNCHANGED <<clock, due, turns>>,
           \A s \in ToSet(Symbols) : Pending(s)' => Pending(s)
    PROVE  TurnsOK' /\ BarsInOrder'
<1>1. ASSUME NEW s \in ToSet(Symbols)
      PROVE  Behind(turns'[s], clock', due', Pending(s)')
  <2>1. Behind(turns[s], clock, due, Pending(s)) /\ (Pending(s)' => Pending(s))
    BY DEF OrderInv, TurnsOK
  <2> QED
    BY <2>1 DEF Behind
<1>2. TurnsOK'
  BY <1>1 DEF OrderInv, TurnsOK
<1>3. BarsInOrder'
  BY DEF OrderInv, BarsInOrder
<1> QED
  BY <1>2, <1>3

(* While the queue stands, a symbol stays pending or has had its turn.     *)
LEMMA QueueStands ==
    ASSUME UNCHANGED queue, phase' = "turn" => phase = "turn",
           NEW s \in ToSet(Symbols), Pending(s)'
    PROVE  Pending(s)
BY DEF Pending, pos

(* When the queue moves on, a symbol that is pending was so before.        *)
LEMMA QueueMoves ==
    ASSUME Inv, queue # <<>>, NextSymbol, NEW s \in ToSet(Symbols), Pending(s)'
    PROVE  Pending(s)
<1>1. Len(Symbols) \in Nat /\ Len(queue) \in Int /\ pos' = pos + 1 /\ pos \in Int
  <2>1. Len(Symbols) \in Nat
    BY LiveTickAssumption, LenProperties
  <2>2. Len(queue') = Len(queue) - 1 /\ pos \in 1..Len(Symbols)
    BY QueueHead DEF Inv, NextSymbol
  <2>3. Len(queue) \in Int
    <3>1. PICK k \in 1..Len(Symbols) + 1 : queue = SubSeq(Symbols, k, Len(Symbols))
      BY DEF Inv, TypeOK
    <3>2. queue \in Seq(ToSet(Symbols))
      <4>1. \A i \in k..Len(Symbols) : Symbols[i] \in ToSet(Symbols)
        BY <2>1, <3>1, LiveTickAssumption, ElementOfSeq
      <4> QED
        BY <2>1, <3>1, <4>1, LiveTickAssumption, SubSeqProperties
    <3> QED
      BY <3>2, LenProperties
  <2> QED
    BY <2>1, <2>2, <2>3 DEF pos
<1>2. PICK i \in pos'..Len(Symbols) : Symbols[i] = s
  BY DEF Pending
<1>3. i \in pos..Len(Symbols) /\ i # pos
  BY <1>1, <1>2
<1> QED
  BY <1>2, <1>3 DEF Pending

LEMMA BeginTurnOrder == ASSUME OrderInv, BeginTurn PROVE TurnsOK' /\ BarsInOrder'
<1> DEFINE T == turns[symbol]
           m == Len(T)
<1>1. /\ phase = "turn" /\ queue # <<>> /\ phase' = "D1"
      /\ turns' = [turns EXCEPT ![symbol] = Append(T, clock - 1)]
      /\ UNCHANGED <<clock, due, queue>>
  BY DEF BeginTurn, LastClosedM15
<1>2. symbol \in ToSet(Symbols) /\ pos \in 1..Len(Symbols) /\ symbol = Symbols[pos]
  BY <1>1, QueueHead DEF OrderInv, Inv
<1>3. Len(Symbols) \in Nat /\ clock \in Nat /\ clock - 1 \in Nat
  BY LiveTickAssumption, LenProperties DEF OrderInv, Inv, TypeOK
<1>4. T \in Seq(Nat) /\ m \in Nat /\ DOMAIN T = 1..m
  BY <1>2, LenProperties DEF OrderInv, TurnsOK
<1>5. Pending(symbol)
  BY <1>1, <1>2, <1>3 DEF Pending
<1>6. ~Pending(symbol)'
  <2>1. pos' = pos
    BY <1>1 DEF pos
  <2>2. \A i \in pos..Len(Symbols) : Symbols[i] = symbol => i = pos
    <3>1. DOMAIN Symbols = 1..Len(Symbols)
      BY LiveTickAssumption, LenProperties
    <3>2. ASSUME NEW i \in pos..Len(Symbols), Symbols[i] = symbol
          PROVE  i = pos
      <4>1. i \in DOMAIN Symbols /\ pos \in DOMAIN Symbols
        BY <1>2, <1>3, <3>1
      <4> QED
        BY <1>2, <3>2, <4>1, LiveTickAssumption, Zenon
    <3> QED
      BY <3>2
  <2>3. symbol' = symbol
    BY <1>1 DEF symbol
  <2> QED
    BY <1>1, <2>1, <2>2, <2>3 DEF Pending
<1> DEFINE U == Append(T, clock - 1)
<1>7. U \in Seq(Nat) /\ Len(U) = m + 1 /\ U[m + 1] = clock - 1
      /\ \A i \in 1..m : U[i] = T[i]
  BY <1>3, <1>4, AppendProperties
<1>8. Behind(T, clock, due, TRUE)
  BY <1>2, <1>5 DEF OrderInv, TurnsOK, Behind
<1>9. turns' \in [ToSet(Symbols) -> Seq(Nat)] /\ turns'[symbol] = U
      /\ \A s \in ToSet(Symbols) \ {symbol} : turns'[s] = turns[s]
  BY <1>1, <1>2, <1>7 DEF OrderInv, TurnsOK
<1> HIDE DEF U
<1>10. TurnsOK'
  <2>1. Behind(U, clock, due, FALSE)
    <3>1. m >= 1 => U[m] = T[m] /\ T[m] < clock /\ (due => T[m] < clock - 1)
      <4>1. m >= 1 => m \in 1..m
        BY <1>4
      <4>2. m >= 1 => T[m] < clock /\ (due => T[m] < clock - 1)
        BY <1>8 DEF Behind
      <4> QED
        BY <1>7, <4>1, <4>2
    <3>2. Len(U) >= 1 => U[Len(U)] < clock
      BY <1>3, <1>7
    <3>3. Len(U) >= 2 => U[Len(U) - 1] = U[m] /\ m >= 1
      BY <1>4, <1>7
    <3> QED
      BY <3>1, <3>2, <3>3 DEF Behind
  <2>2. ASSUME NEW s \in ToSet(Symbols) \ {symbol}
        PROVE  Behind(turns'[s], clock', due', Pending(s)')
    <3>1. Behind(turns[s], clock, due, Pending(s))
      BY DEF OrderInv, TurnsOK
    <3>2. Pending(s)' => Pending(s)
      BY <1>1, QueueStands
    <3> QED
      BY <1>1, <1>9, <3>1, <3>2 DEF Behind
  <2>3. Behind(turns'[symbol], clock', due', Pending(symbol)')
    BY <1>1, <1>6, <1>9, <2>1 DEF Behind
  <2>4. ASSUME NEW s \in ToSet(Symbols), s = symbol
        PROVE  Behind(turns'[s], clock', due', Pending(s)')
    <3>1. symbol' = symbol
      BY <1>1 DEF symbol
    <3>2. Pending(s)' = Pending(symbol)'
      BY <2>4, <3>1 DEF Pending
    <3> QED
      BY <2>3, <2>4, <3>2
  <2> QED
    BY <1>9, <2>2, <2>4 DEF TurnsOK
<1>11. BarsInOrder'
  <2>1. ASSUME NEW i \in 1..m + 1, NEW j \in 1..m + 1
        PROVE  /\ i < j => U[i] <= U[j]
               /\ i + 1 < j => U[i] < U[j]
    <3>1. CASE j <= m
      <4>1. i < j => i \in 1..m /\ j \in 1..m
        BY <1>4, <3>1
      <4>2. \A x, y \in 1..m : /\ x < y => T[x] <= T[y]
                               /\ x + 1 < y => T[x] < T[y]
        BY <1>2, <1>4 DEF OrderInv, BarsInOrder
      <4>3. i < j => (T[i] <= T[j] /\ (i + 1 < j => T[i] < T[j]))
        BY <4>1, <4>2
      <4>4. i + 1 < j => i < j
        OBVIOUS
      <4>5. i < j => U[i] = T[i] /\ U[j] = T[j]
        BY <1>7, <4>1
      <4> QED
        BY <4>3, <4>4, <4>5
    <3>2. CASE j = m + 1
      <4>1. CASE i = m
        <5>1. m >= 1 /\ m \in 1..m
          BY <1>4, <4>1
        <5>2. T[m] < clock
          BY <1>8, <5>1 DEF Behind
        <5>3. T[m] \in Nat
          BY <1>4, <5>1, ElementOfSeq
        <5>4. U[i] = T[m] /\ U[j] = clock - 1
          BY <1>7, <3>2, <4>1, <5>1
        <5>5. T[m] <= clock - 1
          BY <1>3, <5>2, <5>3
        <5>6. U[i] <= U[j]
          BY <5>4, <5>5
        <5>7. ~(i + 1 < j)
          BY <1>4, <3>2, <4>1
        <5> QED
          BY <5>6, <5>7
      <4>2. CASE i < m
        <5>1. m - 1 \in 1..m /\ i \in 1..m /\ m >= 2
          BY <1>4, <4>2
        <5>2. T[m - 1] < clock - 1
          BY <1>8, <5>1 DEF Behind
        <5>3. T[i] <= T[m - 1]
          <6>1. CASE i = m - 1
            <7>1. T[m - 1] \in Nat
              BY <1>4, <5>1, ElementOfSeq
            <7> QED
              BY <6>1, <7>1
          <6>2. CASE i # m - 1
            <7>1. i < m - 1
              BY <1>4, <4>2, <6>2
            <7> QED
              BY <1>2, <1>4, <5>1, <7>1 DEF OrderInv, BarsInOrder
          <6> QED
            BY <6>1, <6>2
        <5>4. T[i] \in Nat /\ T[m - 1] \in Nat
          BY <1>4, <5>1, ElementOfSeq
        <5>5. U[i] = T[i] /\ U[j] = clock - 1
          BY <1>7, <3>2, <5>1
        <5>6. T[i] < clock - 1
          BY <1>3, <5>2, <5>3, <5>4
        <5>7. U[i] < U[j] /\ U[i] <= U[j]
          BY <1>3, <5>4, <5>5, <5>6
        <5> QED
          BY <5>7
      <4>3. CASE i = m + 1
        BY <3>2, <4>3
      <4> QED
        BY <1>4, <4>1, <4>2, <4>3
    <3> QED
      BY <1>4, <3>1, <3>2
  <2>2. DOMAIN U = 1..m + 1
    BY <1>7, LenProperties
  <2> QED
    BY <1>9, <2>1, <2>2 DEF OrderInv, BarsInOrder
<1> QED
  BY <1>10, <1>11

LEMMA OrderInit == Init => TurnsOK /\ BarsInOrder
<1> SUFFICES ASSUME Init PROVE TurnsOK /\ BarsInOrder
  OBVIOUS
<1>1. turns = [s \in ToSet(Symbols) |-> <<>>]
  BY DEF Init
<1>2. TurnsOK
  BY <1>1 DEF TurnsOK, Behind
<1>3. BarsInOrder
  BY <1>1 DEF BarsInOrder
<1> QED
  BY <1>2, <1>3

LEMMA OrderStep == OrderInv /\ [Next]_vars => OrderInv'
<1> SUFFICES ASSUME OrderInv, [Next]_vars PROVE TurnsOK' /\ BarsInOrder'
  BY StepInv DEF OrderInv
<1>0. clock \in Nat
  BY LiveTickAssumption DEF OrderInv, Inv, TypeOK
<1>1. CASE CloseBar
  <2>1. clock' = clock + 1 /\ ~due /\ UNCHANGED <<turns, phase, queue>>
    BY <1>1 DEF CloseBar
  <2>2. ASSUME NEW s \in ToSet(Symbols)
        PROVE  Behind(turns'[s], clock', due', Pending(s)')
    <3>1. turns[s] \in Seq(Nat) /\ Behind(turns[s], clock, due, Pending(s))
      BY DEF OrderInv, TurnsOK
    <3>2. \A i \in 1..Len(turns[s]) : turns[s][i] \in Nat
      BY <3>1, ElementOfSeq
    <3>3. Len(turns[s]) \in Nat
      BY <3>1, LenProperties
    <3> DEFINE T == turns[s]
               m == Len(T)
    <3>4. /\ m >= 1 => T[m] \in Nat /\ T[m] < clock
          /\ m >= 2 => T[m - 1] \in Nat /\ T[m - 1] < clock
      <4>1. m >= 1 => m \in 1..m
        BY <3>3
      <4>2. m >= 2 => m - 1 \in 1..m
        BY <3>3
      <4> QED
        BY <3>1, <3>2, <4>1, <4>2 DEF Behind
    <3>5. /\ m >= 1 => T[m] < clock' /\ T[m] < clock' - 1
          /\ m >= 2 => T[m - 1] < clock' /\ T[m - 1] < clock' - 1
      BY <1>0, <2>1, <3>4
    <3> QED
      BY <2>1, <3>5 DEF Behind
  <2> QED
    BY <2>1, <2>2 DEF OrderInv, TurnsOK, BarsInOrder
<1>2. CASE Fire
  <2>1. due /\ ~due' /\ UNCHANGED <<clock, turns>>
    BY <1>2 DEF Fire
  <2>2. ASSUME NEW s \in ToSet(Symbols)
        PROVE  Behind(turns'[s], clock', due', Pending(s)')
    <3>1. Behind(turns[s], clock, due, Pending(s))
      BY DEF OrderInv, TurnsOK
    <3> QED
      BY <2>1, <3>1 DEF Behind
  <2> QED
    BY <2>1, <2>2 DEF OrderInv, TurnsOK, BarsInOrder
<1>3. CASE BeginTurn
  BY <1>3, BeginTurnOrder
<1>4. CASE Reply \/ Parse \/ AnalyzeFrames \/ PlaceOrder \/ EndTick \/ UNCHANGED vars
  <2>1. UNCHANGED <<clock, due, queue, turns>>
    BY <1>4 DEF Reply, Parse, AnalyzeFrames, PlaceOrder, EndTick, vars
  <2>2. phase' = "turn" => phase = "turn"
    BY <1>4, FetchPhases DEF Reply, Parse, AnalyzeFrames, PlaceOrder, EndTick, vars, locals,
       Fetching, AfterFetch, Places
  <2> QED
    BY <2>1, <2>2, QueueStands, OrderKept
<1>5. CASE RequestFails \/ FetchRaises \/ AnalyzeRaises \/ NotValidated \/ Placed
  <2>1. /\ UNCHANGED <<clock, due, turns>>
        /\ phase \in Places \cup {"analyze", "decide", "placing"}
        /\ NextSymbol \/ UNCHANGED <<phase, queue>>
    BY <1>5, FetchPhases DEF RequestFails, FetchRaises, AnalyzeRaises, NotValidated, Placed,
       Fetching
  <2>2. queue # <<>>
    BY <2>1 DEF OrderInv, Inv, Thread, Places
  <2>3. CASE NextSymbol
    BY <2>1, <2>2, <2>3, QueueMoves, OrderKept DEF OrderInv
  <2>4. CASE UNCHANGED <<phase, queue>>
    BY <2>1, <2>4, QueueStands, OrderKept
  <2> QED
    BY <2>1, <2>3, <2>4
<1> QED
  BY <1>1, <1>2, <1>3, <1>4, <1>5 DEF Next, Service

(* Of a symbol's turns, one tick or many, no bar comes before an earlier   *)
(* one and none comes a third time.                                        *)
THEOREM TurnsInOrder == Spec => []BarsInOrder
<1>1. Init => OrderInv
  BY InitInv, OrderInit DEF OrderInv
<1> QED
  BY <1>1, OrderStep, PTL DEF Spec, OrderInv

-----------------------------------------------------------------------------
(* Bars and the clock *)

(* Division by a bar's length.                                             *)
LEMMA DivBounds ==
    ASSUME NEW t \in Int, NEW s \in Nat \ {0}
    PROVE  (t \div s) \in Int /\ (t \div s) * s <= t /\ t < (t \div s) * s + s
<1> DEFINE q == t \div s
           r == t % s
<1>1. q \in Int /\ r \in Int
  OBVIOUS
<1>2. t = s * q + r /\ r >= 0 /\ r < s
  OBVIOUS
<1> HIDE DEF q, r
<1>3. q * s = s * q /\ q * s \in Int
  BY <1>1
<1>4. q * s <= t /\ t < q * s + s
  BY <1>1, <1>2, <1>3
<1> QED
  BY <1>1, <1>4 DEF q

(* Two multiples of s are s apart or equal.                                *)
LEMMA MultiplesApart ==
    ASSUME NEW p \in Int, NEW q \in Int, NEW s \in Nat \ {0}, p * s < q * s
    PROVE  p * s + s <= q * s
<1>1. CASE p < q
  <2>1. (q - (p + 1)) * s >= 0
    BY <1>1
  <2>2. (q - (p + 1)) * s = q * s - p * s - s
    OBVIOUS
  <2>3. p * s \in Int /\ q * s \in Int
    OBVIOUS
  <2> QED
    BY <2>1, <2>2, <2>3
<1>2. CASE q <= p
  <2>1. (p - q) * s >= 0
    BY <1>2
  <2>2. (p - q) * s = p * s - q * s
    OBVIOUS
  <2>3. p * s \in Int /\ q * s \in Int
    OBVIOUS
  <2> QED
    BY <2>1, <2>2, <2>3
<1> QED
  BY <1>1, <1>2

(* A day is a whole number of H4 bars, and no shorter.                     *)
LEMMA Spans ==
    /\ \A tf \in Places : Span[tf] \in Nat \ {0}
    /\ Span["H4"] <= Span["D1"]
    /\ \E n \in Int : Span["D1"] = n * Span["H4"]
<1>1. \A tf \in Places : Span[tf] \in Nat \ {0}
  BY LiveTickAssumption DEF Places
<1>2. PICK n \in 1..Span["D1"] : Span["D1"] = n * Span["H4"]
  BY LiveTickAssumption
<1>3. n \in Int /\ n >= 1 /\ Span["H4"] \in Nat \ {0}
  BY <1>1, <1>2 DEF Places
<1>4. (n - 1) * Span["H4"] >= 0 /\ (n - 1) * Span["H4"] = n * Span["H4"] - Span["H4"]
  BY <1>3
<1>5. n * Span["H4"] \in Int
  BY <1>3
<1> QED
  BY <1>1, <1>2, <1>3, <1>4, <1>5

(* A bar opens at a multiple of its length, at or before t, and closes     *)
(* after t; no other multiple does.                                        *)
LEMMA OpenBounds ==
    ASSUME NEW tf \in Places, NEW t \in Int
    PROVE  /\ OpenOf(tf, t) \in Int
           /\ \E q \in Int : OpenOf(tf, t) = q * Span[tf]
           /\ OpenOf(tf, t) <= t /\ t < OpenOf(tf, t) + Span[tf]
<1>1. Span[tf] \in Nat \ {0}
  BY Spans
<1>2. (t \div Span[tf]) \in Int /\ (t \div Span[tf]) * Span[tf] <= t
      /\ t < (t \div Span[tf]) * Span[tf] + Span[tf]
  BY <1>1, DivBounds
<1> DEFINE q == t \div Span[tf]
<1> HIDE DEF q
<1>3. q * Span[tf] \in Int
  BY <1>1, <1>2 DEF q
<1> QED
  BY <1>2, <1>3 DEF OpenOf, q

LEMMA OpenNatural ==
    ASSUME NEW tf \in Places, NEW t \in Nat
    PROVE  OpenOf(tf, t) >= 0
<1>1. Span[tf] \in Nat \ {0}
  BY Spans
<1>2. PICK q \in Int : OpenOf(tf, t) = q * Span[tf]
  BY OpenBounds
<1>3. OpenOf(tf, t) \in Int /\ t < OpenOf(tf, t) + Span[tf]
  BY OpenBounds
<1>4. 0 * Span[tf] = 0
  BY <1>1
<1>5. q * Span[tf] < 0 * Span[tf] => q * Span[tf] + Span[tf] <= 0 * Span[tf]
  BY <1>1, MultiplesApart
<1> QED
  BY <1>1, <1>2, <1>3, <1>4, <1>5

LEMMA OpenUnique ==
    ASSUME NEW tf \in Places, NEW t \in Int, NEW q \in Int,
           q * Span[tf] <= t, t < q * Span[tf] + Span[tf]
    PROVE  OpenOf(tf, t) = q * Span[tf]
<1>1. Span[tf] \in Nat \ {0}
  BY Spans
<1>2. PICK p \in Int : OpenOf(tf, t) = p * Span[tf]
  BY OpenBounds
<1>3. OpenOf(tf, t) \in Int /\ OpenOf(tf, t) <= t /\ t < OpenOf(tf, t) + Span[tf]
  BY OpenBounds
<1>4. p * Span[tf] < q * Span[tf] => p * Span[tf] + Span[tf] <= q * Span[tf]
  BY <1>1, MultiplesApart
<1>5. q * Span[tf] < p * Span[tf] => q * Span[tf] + Span[tf] <= p * Span[tf]
  BY <1>1, MultiplesApart
<1>6. q * Span[tf] \in Int /\ p * Span[tf] \in Int /\ Span[tf] \in Int
  BY <1>1
<1> DEFINE x == q * Span[tf]
           y == p * Span[tf]
           s == Span[tf]
<1> HIDE DEF x, y, s
<1>7. x \in Int /\ y \in Int /\ s \in Int /\ x <= t /\ t < x + s /\ y <= t /\ t < y + s
      /\ (y < x => y + s <= x) /\ (x < y => x + s <= y)
  BY <1>2, <1>3, <1>4, <1>5, <1>6 DEF x, y, s
<1>8. x = y
  BY <1>7
<1> QED
  BY <1>2, <1>8 DEF x, y

(* The multiples of s next below a and b, a later than b by at most s, are *)
(* equal or neighbours.                                                    *)
LEMMA Neighbours ==
    ASSUME NEW s \in Nat \ {0}, NEW p \in Int, NEW q \in Int, NEW a \in Int, NEW b \in Int,
           p * s <= b, b < p * s + s, q * s <= a, a < q * s + s, b < a, a <= b + s
    PROVE  q * s = p * s \/ q * s = p * s + s
<1>1. p + 1 \in Int /\ (p + 1) * s = p * s + s
  OBVIOUS
<1>2. q * s < p * s => q * s + s <= p * s
  BY MultiplesApart
<1>3. (p + 1) * s < q * s => (p + 1) * s + s <= q * s
  BY <1>1, MultiplesApart
<1>4. p * s < q * s => p * s + s <= q * s
  BY MultiplesApart
<1>5. p * s \in Int /\ q * s \in Int
  OBVIOUS
<1> DEFINE x == p * s
           y == q * s
<1> HIDE DEF x, y
<1>6. /\ x \in Int /\ y \in Int /\ x <= b /\ b < x + s /\ y <= a /\ a < y + s
      /\ (y < x => y + s <= x) /\ (x < y => x + s <= y)
      /\ (x + s < y => x + s + s <= y)
  BY <1>1, <1>2, <1>3, <1>4, <1>5 DEF x, y
<1>7. y = x \/ y = x + s
  BY <1>6
<1> QED
  BY <1>7 DEF x, y

(* A frame asked for and parsed within one bar of the turn's begin: it     *)
(* ends with the bar that was forming then or with the one before it.      *)
LEMMA FrameNear ==
    ASSUME NEW tf \in Places, NEW b \in Int, NEW a \in Int, NEW n \in Int,
           b < a, a <= n, n <= b + Span[tf]
    PROVE  LET f == FrameOf(tf, a, n)
               open == OpenOf(tf, b)
           IN /\ f.seen = a /\ f.last \in {open - Span[tf], open}
              /\ f.last = open - Span[tf] => a < open + Span[tf]
              /\ f.last <= a /\ f.last + Span[tf] <= n
<1> DEFINE s == Span[tf]
           x == OpenOf(tf, b)
           y == OpenOf(tf, a)
           f == FrameOf(tf, a, n)
<1>1. s \in Nat \ {0}
  BY Spans
<1>2. x \in Int /\ x <= b /\ b < x + s
  BY OpenBounds
<1>3. y \in Int /\ y <= a /\ a < y + s
  BY OpenBounds
<1>4. y = x \/ y = x + s
  <2>1. PICK p \in Int : x = p * s
    BY OpenBounds
  <2>2. PICK q \in Int : y = q * s
    BY OpenBounds
  <2>3. p * s <= b /\ b < p * s + s /\ q * s <= a /\ a < q * s + s
    BY <1>2, <1>3, <2>1, <2>2
  <2>4. a <= b + s
    BY <1>1
  <2>5. q * s = p * s \/ q * s = p * s + s
    <3> HIDE DEF s
    <3> QED
      BY <1>1, <2>3, <2>4, Neighbours
  <2> QED
    BY <2>1, <2>2, <2>5
<1>5. f.seen = a /\ f.last = IF y + s <= n THEN y ELSE y - s
  BY DEF FrameOf
<1>6. n <= b + s
  OBVIOUS
<1> HIDE DEF s, x, y, f
<1>7. /\ f.seen = a /\ f.last \in {x - s, x}
      /\ f.last = x - s => a < x + s
      /\ f.last <= a /\ f.last + s <= n
  <2>1. CASE y = x
    <3>1. f.last = x \/ (f.last = x - s /\ a < x + s)
      BY <1>3, <1>5, <2>1
    <3>2. f.last + s <= n
      BY <1>1, <1>2, <1>3, <1>5, <2>1
    <3>3. f.last <= a
      BY <1>1, <1>2, <3>1
    <3>4. f.last = x - s => a < x + s
      BY <1>3, <2>1
    <3> QED
      BY <1>5, <3>1, <3>2, <3>3, <3>4
  <2>2. CASE y = x + s
    <3>1. ~(y + s <= n)
      BY <1>1, <1>2, <1>6, <2>2
    <3>2. f.last = x
      BY <1>1, <1>2, <1>5, <2>2, <3>1
    <3>3. f.last # x - s /\ f.last <= a /\ f.last + s <= n
      BY <1>1, <1>2, <1>3, <2>2, <3>2
    <3> QED
      BY <1>5, <3>2, <3>3
  <2> QED
    BY <1>4, <2>1, <2>2
<1> QED
  BY <1>7 DEF f, x, s

-----------------------------------------------------------------------------
(* The higher time frames are up to date, when a turn is shorter than an   *)
(* H4 bar                                                                  *)

(* What the property says of every cache entry and of the picture.         *)
EntryCurrent(k, e) ==
    LET close == e.last + Span[k[1]]
    IN k[1] = "H4" => e.levels \in {None, LastClosed("D1", close), LastClosed("D1", close - 1)}

CachesCurrent ==
    \A s \in ToSet(Symbols) : \A k \in DOMAIN caches[s] : EntryCurrent(k, caches[s][k])

PictureCurrent ==
    \A tf \in {"D1", "H4"} :
        picture[tf] # NoFrame => picture[tf].last >= LastClosed(tf, atBar + 1)

(* A turn under way has seen no more closes than one H4 bar has.           *)
Near == atBar # None => clock <= atBar + Span["H4"]

(* The frame of tf was fetched in this turn.                               *)
Settled(tf) ==
    LET open == OpenOf(tf, atBar)
    IN frames[tf] # NoFrame =>
       /\ frames[tf].last \in {open - Span[tf], open}
       /\ frames[tf].last = open - Span[tf] => frames[tf].seen < open + Span[tf]
       /\ frames[tf].last <= frames[tf].seen
       /\ frames[tf].seen \in Int /\ frames[tf].seen > atBar
       /\ frames[tf].seen <= atBar + Span["H4"]

(* H4 is asked for after D1 was parsed.                                    *)
Fetched ==
    /\ phase \in {"H4", "M15", "analyze"} =>
          Settled("D1") /\ frames["D1"].last + Span["D1"] <= clock
    /\ phase = "H4" /\ asked # None => frames["D1"].last + Span["D1"] <= asked
    /\ phase \in {"M15", "analyze"} =>
          /\ Settled("H4")
          /\ frames["H4"] # NoFrame => frames["D1"].last + Span["D1"] <= frames["H4"].seen

CurrentInv == Inv /\ Near /\ Fetched /\ CachesCurrent /\ PictureCurrent

LEMMA CurrentImplies == CurrentInv => HtfIsCurrent
BY DEF CurrentInv, CachesCurrent, EntryCurrent, PictureCurrent, HtfIsCurrent

(* A frame parsed in this turn ends no later than the turn's bar allows, so*)
(* the slice leaves it as it is.                                           *)
LEMMA SlicedSettled ==
    ASSUME CurrentInv, phase = "analyze", NEW tf \in {"D1", "H4"}, frames[tf] # NoFrame
    PROVE  Sliced(tf).last = frames[tf].last /\ Sliced(tf).seen = frames[tf].seen
<1>1. atBar \in Int /\ frames[tf] \in Frame /\ Settled(tf)
  BY DEF CurrentInv, Inv, Thread, FramesOK, Fetched, Places
<1>2. OpenOf(tf, atBar) \in Int /\ Span[tf] \in Nat \ {0}
  BY <1>1, OpenBounds, Spans DEF Places
<1>3. frames[tf].last \in Int /\ frames[tf].last <= OpenOf(tf, atBar)
  BY <1>1, <1>2 DEF Settled, Frame
<1>4. Min({frames[tf].last, OpenOf(tf, atBar)}) = frames[tf].last
  BY <1>2, <1>3, MinOfTwo
<1> QED
  BY <1>1, <1>4 DEF Sliced, Frame

(* A day opens no later than an H4 bar that opens in it, and closes no     *)
(* earlier.                                                                *)
LEMMA DayOfH4 ==
    ASSUME NEW b \in Int
    PROVE  /\ OpenOf("D1", b) <= OpenOf("H4", b)
           /\ OpenOf("H4", b) + Span["H4"] <= OpenOf("D1", b) + Span["D1"]
           /\ OpenOf("D1", b) + Span["D1"] > OpenOf("H4", b) + Span["H4"] =>
                 OpenOf("D1", b) + Span["D1"] >= OpenOf("H4", b) + 2 * Span["H4"]
<1> DEFINE h == Span["H4"]
           d == Span["D1"]
           x == OpenOf("D1", b)
           y == OpenOf("H4", b)
<1>1. h \in Nat \ {0} /\ d \in Nat \ {0}
  BY Spans DEF Places
<1>2. PICK n \in Int : d = n * h
  BY Spans
<1>3. x \in Int /\ x <= b /\ b < x + d /\ y \in Int /\ y <= b /\ b < y + h
  BY OpenBounds DEF Places
<1>4. PICK q \in Int : x = q * d
  BY OpenBounds DEF Places
<1>5. PICK p \in Int : y = p * h
  BY OpenBounds DEF Places
<1> HIDE DEF h, d, x, y
<1>6. x = (q * n) * h /\ q * n \in Int
  <2>1. q * (n * h) = (q * n) * h
    BY <1>1
  <2> QED
    BY <1>2, <1>4, <2>1
<1>7. x + d = (q * n + n) * h /\ q * n + n \in Int
  <2>1. (q * n + n) * h = (q * n) * h + n * h
    BY <1>1, <1>6
  <2> QED
    BY <1>2, <1>6, <2>1
<1>8. y + h = (p + 1) * h /\ p + 1 \in Int
  BY <1>1, <1>5
<1>9. x <= y
  <2>1. y < x => y + h <= x
    BY <1>1, <1>5, <1>6, MultiplesApart
  <2> QED
    BY <1>1, <1>3, <2>1
<1>10. y + h <= x + d
  <2>1. x + d < y + h => x + d + h <= y + h
    BY <1>1, <1>7, <1>8, MultiplesApart
  <2> QED
    BY <1>1, <1>3, <2>1
<1>11. x + d > y + h => x + d >= y + 2 * h
  <2>1. y + h < x + d => y + h + h <= x + d
    BY <1>1, <1>7, <1>8, MultiplesApart
  <2> QED
    BY <1>1, <1>3, <2>1
<1> QED
  BY <1>9, <1>10, <1>11 DEF h, d, x, y

(* The day of a bar's own day, and the next day's first bar.               *)
LEMMA SameDay ==
    ASSUME NEW b \in Int, NEW t \in Int
    PROVE  /\ OpenOf("D1", b) <= t /\ t < OpenOf("D1", b) + Span["D1"] =>
                 OpenOf("D1", t) = OpenOf("D1", b)
           /\ t = OpenOf("D1", b) + Span["D1"] =>
                 OpenOf("D1", t) = OpenOf("D1", b) + Span["D1"]
<1>1. PICK q \in Int : OpenOf("D1", b) = q * Span["D1"]
  BY OpenBounds DEF Places
<1>2. Span["D1"] \in Nat \ {0} /\ OpenOf("D1", b) \in Int
  BY OpenBounds, Spans DEF Places
<1>3. OpenOf("D1", b) <= t /\ t < OpenOf("D1", b) + Span["D1"] =>
        OpenOf("D1", t) = OpenOf("D1", b)
  BY <1>1, OpenUnique DEF Places
<1>4. ASSUME t = OpenOf("D1", b) + Span["D1"]
      PROVE  OpenOf("D1", t) = OpenOf("D1", b) + Span["D1"]
  <2>1. q + 1 \in Int /\ t = (q + 1) * Span["D1"]
    BY <1>1, <1>2, <1>4
  <2>2. (q + 1) * Span["D1"] <= t /\ t < (q + 1) * Span["D1"] + Span["D1"]
    BY <1>2, <2>1
  <2>3. OpenOf("D1", t) = (q + 1) * Span["D1"]
    BY <2>1, <2>2, OpenUnique DEF Places
  <2> QED
    BY <1>4, <2>1, <2>3
<1> QED
  BY <1>3, <1>4

(* The levels an H4 snapshot of this turn would be given are those of the  *)
(* last day closed when its last bar closed, or just before.               *)
LEMMA LevelsNear ==
    ASSUME CurrentInv, phase = "analyze", frames["D1"] # NoFrame, frames["H4"] # NoFrame
    PROVE  LET close == frames["H4"].last + Span["H4"]
           IN frames["D1"].last \in {LastClosed("D1", close), LastClosed("D1", close - 1)}
<1> DEFINE b == atBar
           h == Span["H4"]
           d == Span["D1"]
           x == OpenOf("D1", b)
           y == OpenOf("H4", b)
           D == frames["D1"].last
           L == frames["H4"].last
           a == frames["H4"].seen
<1>1. b \in Int /\ h \in Nat \ {0} /\ d \in Nat \ {0}
  BY Spans DEF CurrentInv, Inv, Thread, Places
<1>2. x \in Int /\ x <= b /\ b < x + d /\ y \in Int /\ y <= b /\ b < y + h
  BY <1>1, OpenBounds DEF Places
<1>3. x <= y /\ y + h <= x + d /\ (x + d > y + h => x + d >= y + 2 * h)
  BY <1>1, DayOfH4
<1>4. D \in {x - d, x}
  BY DEF CurrentInv, Fetched, Settled
<1>5. L \in {y - h, y} /\ (L = y - h => a < y + h) /\ a \in Int /\ a <= b + h
  BY DEF CurrentInv, Fetched, Settled
<1>6. D + d <= a
  BY DEF CurrentInv, Fetched
<1>7. ASSUME NEW t \in Int
      PROVE  /\ x <= t /\ t < x + d => LastClosed("D1", t) = x - d
             /\ t = x + d => LastClosed("D1", t) = x
  <2>1. /\ x <= t /\ t < x + d => OpenOf("D1", t) = x
        /\ t = x + d => OpenOf("D1", t) = x + d
    BY <1>1, SameDay
  <2>2. LastClosed("D1", t) = OpenOf("D1", t) - d
    BY DEF LastClosed
  <2>3. (x + d) - d = x
    BY <1>1, <1>2
  <2> HIDE DEF x, d
  <2>4. ASSUME x <= t, t < x + d PROVE LastClosed("D1", t) = x - d
    BY <2>1, <2>2, <2>4
  <2>5. ASSUME t = x + d PROVE LastClosed("D1", t) = x
    <3>1. OpenOf("D1", t) = x + d
      BY <2>1, <2>5
    <3>2. LastClosed("D1", t) = (x + d) - d
      BY <2>2, <3>1, Zenon
    <3> QED
      BY <2>3, <3>2, Zenon
  <2> QED
    BY <2>4, <2>5
<1> DEFINE close == L + h
<1>8. L \in Int /\ close \in Int /\ close - 1 \in Int
  BY <1>1, <1>2, <1>5
<1>9. D \in {LastClosed("D1", close), LastClosed("D1", close - 1)}
  <2> HIDE DEF b, h, d, x, y, D, L, a
  <2>1. CASE L = y - h
    <3>1. close = y /\ x <= close /\ close < x + d
      BY <1>1, <1>2, <1>3, <2>1
    <3> HIDE DEF close
    <3>2. LastClosed("D1", close) = x - d
      BY <1>7, <1>8, <3>1
    <3>3. D = x - d
      BY <1>1, <1>2, <1>3, <1>4, <1>5, <1>6, <2>1
    <3> QED
      BY <3>2, <3>3
  <2>2. CASE L = y
    <3>1. close = y + h /\ x <= close - 1 /\ close - 1 < x + d
      BY <1>1, <1>2, <1>3, <2>2
    <3> HIDE DEF close
    <3>2. LastClosed("D1", close - 1) = x - d
      <4> DEFINE t == close - 1
      <4>1. t \in Int /\ x <= t /\ t < x + d
        BY <1>8, <3>1
      <4> HIDE DEF t
      <4>2. LastClosed("D1", t) = x - d
        BY <1>7, <4>1
      <4> QED
        BY <4>2 DEF t
    <3>3. CASE D = x - d
      BY <3>2, <3>3
    <3>4. CASE D = x
      <4>1. x + d <= b + h
        BY <1>1, <1>2, <1>5, <1>6, <3>4
      <4>2. close = x + d
        BY <1>1, <1>2, <1>3, <3>1, <4>1
      <4>3. LastClosed("D1", close) = x
        BY <1>7, <1>8, <4>2
      <4> QED
        BY <3>4, <4>3
    <3> QED
      BY <1>4, <3>3, <3>4
  <2> QED
    BY <1>5, <2>1, <2>2
<1> QED
  BY <1>9

(* Without D1 bars an H4 snapshot is given no levels.                      *)
LEMMA NoDay ==
    ASSUME CurrentInv, phase = "analyze", frames["D1"] = NoFrame
    PROVE  Sliced("D1").last = None
<1>1. atBar \in Int /\ None \in Int
  BY DEF CurrentInv, Inv, Thread, Places, None
<1>2. OpenOf("D1", atBar) \in Int /\ atBar < OpenOf("D1", atBar) + Span["D1"]
  BY <1>1, OpenBounds DEF Places
<1>3. OpenOf("D1", atBar) >= 0
  BY <1>1, OpenNatural DEF CurrentInv, Inv, Thread, Places
<1>4. Min({None, OpenOf("D1", atBar)}) = None
  BY <1>1, <1>2, <1>3, MinOfTwo DEF None
<1> QED
  BY <1>4 DEF Sliced, NoFrame

LEMMA SnapshotCurrent ==
    ASSUME CurrentInv, phase = "analyze", NEW tf \in Places, frames[tf] # NoFrame
    PROVE  EntryCurrent(CacheKey(tf, Sliced(tf).last), Snapshot(tf))
<1> DEFINE k == CacheKey(tf, Sliced(tf).last)
           e == Snapshot(tf)
<1>1. k[1] = tf
  BY DEF CacheKey
<1>2. CASE k \in DOMAIN caches[symbol]
  <2>1. symbol \in ToSet(Symbols)
    BY QueueHead DEF CurrentInv, Inv, Thread
  <2>2. e = caches[symbol][k]
    BY <1>2 DEF Snapshot
  <2> QED
    BY <1>2, <2>1, <2>2 DEF CurrentInv, CachesCurrent
<1>3. CASE k \notin DOMAIN caches[symbol]
  <2>1. /\ e.last = Sliced(tf).last /\ e.seen = Sliced(tf).seen
        /\ e.levels = Sliced("D1").last
    BY <1>3 DEF Snapshot
  <2>2. ASSUME tf = "H4"
        PROVE  LET close == e.last + Span[tf]
               IN e.levels \in {None, LastClosed("D1", close), LastClosed("D1", close - 1)}
    <3>1. e.last = frames["H4"].last
      BY <2>1, <2>2, SlicedSettled
    <3>2. CASE frames["D1"] # NoFrame
      <4>1. e.levels = frames["D1"].last
        BY <2>1, <3>2, SlicedSettled
      <4> QED
        BY <2>2, <3>1, <3>2, <4>1, LevelsNear
    <3>3. CASE frames["D1"] = NoFrame
      BY <2>1, <3>3, NoDay
    <3> QED
      BY <3>2, <3>3
  <2> QED
    BY <1>1, <2>2 DEF EntryCurrent
<1> QED
  BY <1>2, <1>3

LEMMA CacheStepCurrent ==
    ASSUME CurrentInv, phase = "analyze", NEW done \in SUBSET Held(Places),
           caches' = [caches EXCEPT ![symbol] = CacheWith(done)]
    PROVE  CachesCurrent'
<1>1. symbol \in ToSet(Symbols) /\ DOMAIN caches = ToSet(Symbols)
  BY QueueHead DEF CurrentInv, Inv, Thread, CachesOK
<1>2. caches'[symbol] = CacheWith(done)
      /\ \A s \in ToSet(Symbols) \ {symbol} : caches'[s] = caches[s]
  BY <1>1
<1>3. ASSUME NEW k \in DOMAIN CacheWith(done)
      PROVE  EntryCurrent(k, CacheWith(done)[k])
  <2> DEFINE c   == caches[symbol]
             new == [tf \in done |-> CacheKey(tf, Sliced(tf).last)]
  <2>1. DOMAIN CacheWith(done) = DOMAIN c \cup {new[tf] : tf \in done}
        /\ CacheWith(done)[k] = IF k \in DOMAIN c THEN c[k]
                                ELSE Snapshot(CHOOSE tf \in done : new[tf] = k)
    BY <1>3 DEF CacheWith
  <2>2. CASE k \in DOMAIN c
    BY <1>1, <2>1, <2>2 DEF CurrentInv, CachesCurrent
  <2>3. CASE k \notin DOMAIN c
    <3>1. \E tf \in done : new[tf] = k
      BY <1>3, <2>1, <2>3
    <3>2. PICK tf \in done : tf = (CHOOSE t \in done : new[t] = k) /\ new[tf] = k
      BY <3>1
    <3>3. CacheWith(done)[k] = Snapshot(tf) /\ k = CacheKey(tf, Sliced(tf).last)
      BY <2>1, <2>3, <3>2
    <3>4. tf \in Places /\ frames[tf] # NoFrame
      BY <3>2 DEF Held
    <3> QED
      BY <3>3, <3>4, SnapshotCurrent
  <2> QED
    BY <2>2, <2>3
<1> QED
  BY <1>2, <1>3 DEF CurrentInv, CachesCurrent, EntryCurrent, LastClosed, OpenOf

LEMMA CachesCurrentKept == ASSUME CachesCurrent, UNCHANGED caches PROVE CachesCurrent'
BY DEF CachesCurrent, EntryCurrent, LastClosed, OpenOf

(* A frame of this turn ends no earlier than the last bar closed when the  *)
(* turn began.                                                             *)
LEMMA SettledLast ==
    ASSUME NEW tf \in {"D1", "H4"}, Settled(tf), frames[tf] # NoFrame, atBar \in Int
    PROVE  frames[tf].last >= LastClosed(tf, atBar + 1)
<1> DEFINE s == Span[tf]
           x == OpenOf(tf, atBar)
           y == OpenOf(tf, atBar + 1)
           L == frames[tf].last
           a == frames[tf].seen
<1>1. s \in Nat \ {0} /\ tf \in Places /\ atBar + 1 \in Int
  BY Spans DEF Places
<1>2. x \in Int /\ x <= atBar /\ atBar < x + s
  BY <1>1, OpenBounds
<1>3. y \in Int /\ y <= atBar + 1 /\ atBar + 1 < y + s
  BY <1>1, OpenBounds
<1>4. LastClosed(tf, atBar + 1) = y - s
  BY DEF LastClosed
<1>5. L \in {x - s, x} /\ (L = x - s => a < x + s) /\ a \in Int /\ a > atBar
  BY DEF Settled
<1>6. PICK p \in Int : x = p * s
  BY <1>1, OpenBounds
<1>7. y = x \/ y = x + s
  <2>1. PICK q \in Int : y = q * s
    BY <1>1, OpenBounds
  <2>2. /\ p * s <= atBar /\ atBar < p * s + s
        /\ q * s <= atBar + 1 /\ atBar + 1 < q * s + s
    BY <1>2, <1>3, <1>6, <2>1
  <2>3. atBar < atBar + 1 /\ atBar + 1 <= atBar + s
    BY <1>1
  <2>4. q * s = p * s \/ q * s = p * s + s
    <3> HIDE DEF s
    <3> QED
      BY <1>1, <2>2, <2>3, Neighbours
  <2> QED
    BY <1>6, <2>1, <2>4
<1>8. L >= y - s
  <2> HIDE DEF s, x, y, L, a
  <2>1. CASE L = x
    BY <1>1, <1>2, <1>7, <2>1
  <2>2. CASE L = x - s
    <3>1. y = x
      BY <1>1, <1>2, <1>3, <1>5, <1>7, <2>2
    <3> QED
      BY <1>1, <1>2, <2>2, <3>1
  <2> QED
    BY <1>5, <2>1, <2>2
<1> QED
  BY <1>4, <1>8

CurrentParts == Near /\ Fetched /\ CachesCurrent /\ PictureCurrent

(* Outside a turn nothing is asked of the clock, the frames or the picture.*)
LEMMA TurnOverCurrent == ASSUME NextSymbol, CachesCurrent' PROVE CurrentParts'
BY DEF NextSymbol, CurrentParts, Near, Fetched, PictureCurrent, NoPicture

LEMMA CloseBarCurrent ==
    ASSUME CurrentInv, CloseBar, TurnCloses < Span["H4"]
    PROVE  CurrentParts'
<1>1. /\ clock' = clock + 1 /\ (atBar # None => clock <= atBar + TurnCloses)
      /\ UNCHANGED <<phase, atBar, asked, frames, picture, caches>>
  BY DEF CloseBar, locals
<1>2. clock \in Int /\ TurnCloses \in Nat /\ Span["H4"] \in Nat /\ Span["D1"] \in Nat
  BY LiveTickAssumption DEF CurrentInv, Inv, TypeOK
<1>3. Near'
  <2>1. ASSUME atBar # None PROVE clock + 1 <= atBar + Span["H4"]
    <3>1. atBar \in Int
      BY <2>1 DEF CurrentInv, Inv, Thread
    <3> QED
      BY <1>1, <1>2, <2>1, <3>1
  <2> QED
    BY <1>1, <2>1 DEF Near
<1>4. Fetched'
  <2>1. frames["D1"].last + Span["D1"] <= clock => frames["D1"].last + Span["D1"] <= clock'
    <3>1. frames["D1"].last \in Int
      BY DEF CurrentInv, Inv, FramesOK, Frame, Places
    <3> QED
      BY <1>1, <1>2, <3>1
  <2> QED
    BY <1>1, <2>1 DEF CurrentInv, Fetched, Settled
<1>5. CachesCurrent' /\ PictureCurrent'
  BY <1>1, CachesCurrentKept DEF CurrentInv, PictureCurrent, LastClosed, OpenOf
<1> QED
  BY <1>3, <1>4, <1>5 DEF CurrentParts

LEMMA BeginTurnCurrent == ASSUME CurrentInv, BeginTurn PROVE CurrentParts'
<1>1. /\ phase = "turn" /\ phase' = "D1" /\ atBar' = clock - 1
      /\ UNCHANGED <<clock, picture, caches>>
  BY DEF BeginTurn, LastClosedM15
<1>2. clock' <= atBar' + Span["H4"]
  <2>1. clock \in Int /\ Span["H4"] \in Nat \ {0}
    BY LiveTickAssumption DEF CurrentInv, Inv, TypeOK
  <2> QED
    BY <1>1, <2>1
<1>3. picture' = NoPicture
  BY <1>1 DEF CurrentInv, Inv, Thread
<1> QED
  BY <1>1, <1>2, <1>3, CachesCurrentKept
     DEF CurrentInv, CurrentParts, Near, Fetched, PictureCurrent, NoPicture

LEMMA ReplyCurrent == ASSUME CurrentInv, Reply PROVE CurrentParts'
<1>1. /\ phase \in Places /\ asked' = clock
      /\ UNCHANGED <<clock, phase, atBar, frames, picture, caches>>
  BY FetchPhases DEF Reply, Fetching
<1>2. Near' /\ CachesCurrent' /\ PictureCurrent'
  BY <1>1, CachesCurrentKept DEF CurrentInv, Near, PictureCurrent, LastClosed, OpenOf
<1>3. Fetched'
  BY <1>1 DEF CurrentInv, Fetched, Settled
<1> QED
  BY <1>2, <1>3 DEF CurrentParts

LEMMA ParseCurrent == ASSUME CurrentInv, Parse PROVE CurrentParts'
<1> PICK got \in {FrameOf(phase, asked, clock), NoFrame} :
            frames' = [frames EXCEPT ![phase] = got]
  BY DEF Parse
<1>1. /\ phase \in Places /\ asked # None
      /\ frames' = [frames EXCEPT ![phase] = got]
      /\ phase' = AfterFetch[phase] /\ asked' = None
      /\ UNCHANGED <<clock, atBar, picture, caches>>
  BY FetchPhases DEF Parse, Fetching
<1>2. Near' /\ CachesCurrent' /\ PictureCurrent'
  BY <1>1, CachesCurrentKept DEF CurrentInv, Near, PictureCurrent, LastClosed, OpenOf
<1>3. atBar \in Int /\ atBar # None /\ asked \in Int /\ clock \in Int
      /\ atBar < asked /\ asked <= clock /\ clock <= atBar + Span["H4"]
  <2>1. atBar \in Nat /\ atBar < asked
    BY <1>1 DEF CurrentInv, Inv, Thread, Places
  <2>2. asked \in FirstClock..clock /\ clock \in FirstClock..LastClock
    BY <1>1 DEF CurrentInv, Inv, TypeOK
  <2> QED
    BY <2>1, <2>2, LiveTickAssumption DEF CurrentInv, Near, None
<1>4. ASSUME NEW tf \in {"D1", "H4"}, phase = tf
      PROVE  /\ Settled(tf)' /\ frames'[tf].last + Span[tf] <= clock
             /\ frames'[tf] # NoFrame => frames'[tf].seen = asked
  <2> DEFINE f == FrameOf(tf, asked, clock)
             open == OpenOf(tf, atBar)
  <2>1. frames'[tf] \in {f, NoFrame}
    BY <1>1, <1>4 DEF CurrentInv, Inv, FramesOK, Places
  <2>2. clock <= atBar + Span[tf]
    BY <1>3, Spans DEF Places
  <2>3. /\ f.seen = asked /\ f.last \in {open - Span[tf], open}
        /\ f.last = open - Span[tf] => asked < open + Span[tf]
        /\ f.last <= asked /\ f.last + Span[tf] <= clock
    <3>1. tf \in Places
      BY DEF Places
    <3> QED
      BY <1>3, <2>2, <3>1, FrameNear
  <2>4. asked <= atBar + Span["H4"]
    BY <1>3, Spans DEF Places
  <2>5. Settled(tf)' <=>
         (frames'[tf] # NoFrame =>
          /\ frames'[tf].last \in {open - Span[tf], open}
          /\ frames'[tf].last = open - Span[tf] => frames'[tf].seen < open + Span[tf]
          /\ frames'[tf].last <= frames'[tf].seen
          /\ frames'[tf].seen \in Int /\ frames'[tf].seen > atBar
          /\ frames'[tf].seen <= atBar + Span["H4"])
    BY <1>1 DEF Settled, OpenOf
  <2>6. NoFrame.last + Span[tf] <= clock
    <3>1. Span[tf] \in Nat /\ Span[tf] <= Span["D1"] /\ Span["D1"] \in Nat
      BY Spans DEF Places
    <3>2. clock >= FirstClock /\ FirstClock >= 2 * Span["D1"] /\ FirstClock \in Nat
      BY LiveTickAssumption DEF CurrentInv, Inv, TypeOK
    <3> QED
      BY <1>3, <3>1, <3>2 DEF NoFrame, None
  <2> HIDE DEF f, open
  <2>7. CASE frames'[tf] = f
    BY <1>3, <2>3, <2>4, <2>5, <2>7
  <2>8. CASE frames'[tf] = NoFrame
    BY <2>5, <2>6, <2>8
  <2> QED
    BY <2>1, <2>7, <2>8
<1>5. ASSUME NEW tf \in {"D1", "H4"}, phase # tf
      PROVE  frames'[tf] = frames[tf] /\ (Settled(tf) => Settled(tf)')
  <2>1. frames'[tf] = frames[tf]
    BY <1>1, <1>5 DEF CurrentInv, Inv, FramesOK, Places
  <2> QED
    BY <1>1, <2>1 DEF Settled, OpenOf
<1>6. CASE phase = "D1"
  <2>1. phase' = "H4" /\ Settled("D1")' /\ frames'["D1"].last + Span["D1"] <= clock'
    BY <1>1, <1>4, <1>6 DEF AfterFetch
  <2> QED
    BY <1>1, <1>2, <2>1 DEF Fetched, CurrentParts
<1>7. CASE phase = "H4"
  <2>1. /\ Settled("D1") /\ frames["D1"].last + Span["D1"] <= clock
        /\ frames["D1"].last + Span["D1"] <= asked
    BY <1>1, <1>7 DEF CurrentInv, Fetched
  <2>2. /\ phase' = "M15" /\ Settled("H4")'
        /\ frames'["H4"] # NoFrame => frames'["H4"].seen = asked
    BY <1>1, <1>4, <1>7 DEF AfterFetch
  <2>3. frames'["D1"] = frames["D1"] /\ Settled("D1")'
    BY <1>5, <1>7, <2>1
  <2>4. frames'["H4"] # NoFrame =>
           frames'["D1"].last + Span["D1"] <= frames'["H4"].seen
    BY <2>1, <2>2, <2>3
  <2>5. frames'["D1"].last + Span["D1"] <= clock'
    BY <1>1, <2>1, <2>3
  <2> QED
    BY <1>1, <1>2, <2>2, <2>3, <2>4, <2>5 DEF Fetched, CurrentParts
<1>8. CASE phase = "M15"
  <2>1. /\ Settled("D1") /\ frames["D1"].last + Span["D1"] <= clock
        /\ Settled("H4")
        /\ frames["H4"] # NoFrame => frames["D1"].last + Span["D1"] <= frames["H4"].seen
    BY <1>8 DEF CurrentInv, Fetched
  <2>2. /\ frames'["D1"] = frames["D1"] /\ Settled("D1")'
        /\ frames'["H4"] = frames["H4"] /\ Settled("H4")'
    BY <1>5, <1>8, <2>1
  <2>3. phase' = "analyze"
    BY <1>1, <1>8 DEF AfterFetch
  <2> QED
    BY <1>1, <1>2, <2>1, <2>2, <2>3 DEF Fetched, CurrentParts
<1> QED
  BY <1>1, <1>6, <1>7, <1>8 DEF Places

LEMMA AnalyzeFramesCurrent == ASSUME CurrentInv, AnalyzeFrames PROVE CurrentParts'
<1>1. /\ phase = "analyze" /\ phase' = "decide"
      /\ UNCHANGED <<clock, atBar, asked, frames>>
  BY DEF AnalyzeFrames
<1>2. PICK done \in SUBSET Held(Places) :
        /\ caches' = [caches EXCEPT ![symbol] = CacheWith(done)]
        /\ picture' = [tf \in Places |-> IF tf \in done THEN Snapshot(tf) ELSE NoFrame]
  BY AnalyzedFrames
<1>3. CachesCurrent'
  BY <1>1, <1>2, CacheStepCurrent
<1>4. ASSUME NEW tf \in {"D1", "H4"}, picture'[tf] # NoFrame
      PROVE  picture'[tf].last >= LastClosed(tf, atBar + 1)
  <2>1. picture'[tf] = Snapshot(tf) /\ frames[tf] # NoFrame
    BY <1>2, <1>4 DEF Places, Held
  <2>2. Snapshot(tf).last = Sliced(tf).last
    BY <1>1, <2>1, SnapshotOK DEF CurrentInv, EntryOK, CacheKey, Places
  <2>3. Sliced(tf).last = frames[tf].last
    BY <1>1, <2>1, SlicedSettled
  <2>4. Settled(tf) /\ atBar \in Int
    BY <1>1 DEF CurrentInv, Inv, Thread, Fetched
  <2>5. frames[tf].last >= LastClosed(tf, atBar + 1)
    BY <2>1, <2>4, SettledLast
  <2> QED
    BY <2>1, <2>2, <2>3, <2>5
<1>5. PictureCurrent'
  BY <1>1, <1>4 DEF PictureCurrent, LastClosed, OpenOf
<1>6. Near' /\ Fetched'
  BY <1>1 DEF CurrentInv, Near, Fetched
<1> QED
  BY <1>3, <1>5, <1>6 DEF CurrentParts

(* The steps after which nothing is left to show.                          *)
LEMMA OthersCurrent ==
    ASSUME CurrentInv, \/ Fire \/ PlaceOrder \/ EndTick \/ UNCHANGED vars
                     \/ RequestFails \/ FetchRaises \/ NotValidated \/ Placed
    PROVE  CurrentParts'
<1>1. \/ NextSymbol
      \/ /\ UNCHANGED <<clock, atBar, asked, frames, picture>>
         /\ phase' \in {"turn", "idle", "placing"} \/ phase' = phase
  BY DEF Fire, PlaceOrder, EndTick, vars, RequestFails, FetchRaises, NotValidated, Placed,
         locals
<1>2. CachesCurrent'
  <2>1. UNCHANGED caches
    BY DEF Fire, PlaceOrder, EndTick, vars, RequestFails, FetchRaises, NotValidated, Placed
  <2> QED
    BY <2>1, CachesCurrentKept DEF CurrentInv
<1>3. CASE NextSymbol
  BY <1>2, <1>3, TurnOverCurrent
<1>4. CASE /\ UNCHANGED <<clock, atBar, asked, frames, picture>>
           /\ phase' \in {"turn", "idle", "placing"} \/ phase' = phase
  <2>1. Near' /\ PictureCurrent'
    BY <1>4 DEF CurrentInv, Near, PictureCurrent, LastClosed, OpenOf
  <2>2. Fetched'
    BY <1>4 DEF CurrentInv, Fetched, Settled, OpenOf
  <2> QED
    BY <1>2, <2>1, <2>2 DEF CurrentParts
<1> QED
  BY <1>1, <1>3, <1>4

LEMMA CurrentStep ==
    ASSUME TurnCloses < Span["H4"]
    PROVE  CurrentInv /\ [Next]_vars => CurrentInv'
<1> SUFFICES ASSUME CurrentInv, [Next]_vars PROVE CurrentParts'
  BY StepInv DEF CurrentInv, CurrentParts
<1>1. CASE CloseBar
  BY <1>1, CloseBarCurrent
<1>2. CASE BeginTurn
  BY <1>2, BeginTurnCurrent
<1>3. CASE Reply
  BY <1>3, ReplyCurrent
<1>4. CASE Parse
  BY <1>4, ParseCurrent
<1>5. CASE AnalyzeFrames
  BY <1>5, AnalyzeFramesCurrent
<1>6. CASE AnalyzeRaises
  <2>1. phase = "analyze" /\ NextSymbol
    BY <1>6 DEF AnalyzeRaises
  <2>2. PICK done \in SUBSET Held(Places) :
          caches' = [caches EXCEPT ![symbol] = CacheWith(done)]
    BY <1>6, RaisedFrames
  <2>3. CachesCurrent'
    BY <2>1, <2>2, CacheStepCurrent
  <2> QED
    BY <2>1, <2>3, TurnOverCurrent
<1>7. CASE \/ Fire \/ PlaceOrder \/ EndTick \/ UNCHANGED vars
           \/ RequestFails \/ FetchRaises \/ NotValidated \/ Placed
  BY <1>7, OthersCurrent
<1> QED
  BY <1>1, <1>2, <1>3, <1>4, <1>5, <1>6, <1>7 DEF Next, Service

(* When fewer closes fall into a turn than an H4 bar has, what a turn is   *)
(* given of the higher time frames is never out of date: its picture lacks *)
(* no bar that had closed when the turn began, and the D1 levels an H4     *)
(* snapshot was made with are of the day before its close or of the day    *)
(* that closed with it.                                                    *)
THEOREM HtfAlwaysCurrent ==
    ASSUME TurnCloses < Span["H4"]
    PROVE  Spec => []HtfIsCurrent
<1>1. Init => CurrentInv
  <2> SUFFICES ASSUME Init PROVE CurrentParts
    BY InitInv DEF CurrentInv, CurrentParts
  <2> QED
    BY DEF Init, CurrentParts, Near, Fetched, CachesCurrent, PictureCurrent, NoPicture
<1>2. CurrentInv /\ [Next]_vars => CurrentInv'
  BY CurrentStep
<1> QED
  BY <1>1, <1>2, CurrentImplies, PTL DEF Spec

=============================================================================
