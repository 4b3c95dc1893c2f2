------------------------------ MODULE LiveTick ------------------------------
(***************************************************************************)
(* run_live's process from its start on: the scheduler fires after every   *)
(* M15 close, a tick takes the symbols one by one, and each turn asks the  *)
(* exchange for D1, H4 and M15 candles by separate calls, analyses them    *)
(* with the symbol's cache, logs the result and may place an order.  The   *)
(* clock runs on meanwhile: a close can fall between any two calls, and    *)
(* between a reply and the clock reading that drops its forming bar.       *)
(*                                                                         *)
(* Time is counted in M15 closes; a bar is named by its open time.  Of an  *)
(* analysis only what it was made of is kept: the last bar of a frame, how *)
(* much of that bar the reply had seen, and for H4 and M15 the D1 bar that *)
(* gave known_levels.  What orchestrator.analyze computes from the bars is *)
(* the module Analysis; what the order manager does is OrderManager.       *)
(***************************************************************************)
EXTENDS Integers, Sequences, SequencesExt, FiniteSetsExt

CONSTANTS
    Symbols,        \* the symbols, in the order of the tick
    Span,           \* length of a bar of each time frame, in M15 bars
    FirstClock,     \* closes before the process starts
    LastClock,      \* bound: the clock stops there
    TurnCloses,     \* closes that may fall into one symbol's turn: its calls time out
    MaxAttempts,    \* _MAX_ATTEMPTS of the candle client
    Lacking,        \* time frames whose reply may hold no closed bar
    Configs         \* settings the process may be started with

ASSUME LiveTickAssumption ==
    /\ Span["M15"] = 1 /\ Span["H4"] \in Nat \ {0} /\ Span["D1"] \in Nat \ {0}
    /\ \E n \in 1..Span["D1"] : Span["D1"] = n * Span["H4"]
    /\ FirstClock \in Nat /\ LastClock \in Nat
    /\ 2 * Span["D1"] <= FirstClock /\ FirstClock <= LastClock
    /\ TurnCloses \in Nat /\ MaxAttempts \in Nat \ {0}
    /\ Symbols \in Seq(ToSet(Symbols))
    /\ \A i, j \in DOMAIN Symbols : Symbols[i] = Symbols[j] => i = j

VARIABLES
    clock,      \* M15 closes so far
    due,        \* the cron time of the last close is still to come
    config,     \* [testnet, live, env]: execution_testnet, execution_live_enabled,
                \* SMC_ALLOW_LIVE = "1"
    account,    \* where orders go: "TESTNET" or "MAINNET"
    phase,      \* where the tick is, "idle" between ticks
    queue,      \* symbols whose turn is still to come, first the current one
    atBar,      \* at_bar of the current turn
    attempts,   \* failed attempts of the current candle call
    asked,      \* clock when the exchange made its reply, None before
    frames,     \* the frames fetched in this turn
    caches,     \* htf_caches: per symbol, from (time frame, last bar) to snapshot
    picture,    \* the MarketPicture of this turn
    turns       \* history: per symbol the at_bars of its turns, in order

vars == <<clock, due, config, account, phase, queue, atBar, attempts, asked, frames,
          picture, caches, turns>>

(* The local variables of run_once and of the calls it makes.              *)
locals == <<atBar, attempts, asked, frames, picture>>

-----------------------------------------------------------------------------
None == -1

TimeFrames == <<"D1", "H4", "M15">>      \* _TFS_TO_FETCH

OpenOf(tf, t) == (t \div Span[tf]) * Span[tf]

(* The last bar of tf that has closed when the clock shows t.              *)
LastClosed(tf, t) == OpenOf(tf, t) - Span[tf]

(* MainnetGuard.check: env, then config, then the delay; the first answer  *)
(* is kept by the process.                                                 *)
Check(c) == IF c.env /\ c.live THEN "MAINNET" ELSE "TESTNET"

(* _validate_execution_config                                              *)
Accepted(c) == c.testnet \/ c.live

NoFrame == [last |-> None, seen |-> None]

NoPicture == [D1 |-> NoFrame, H4 |-> NoFrame, M15 |-> NoFrame]

Init ==
    /\ clock = FirstClock /\ due \in BOOLEAN
    /\ config \in {c \in Configs : Accepted(c)}
    /\ account = Check(config)
    /\ phase = "idle" /\ queue = <<>>
    /\ atBar = None /\ attempts = 0 /\ asked = None
    /\ frames = NoPicture /\ picture = NoPicture
    /\ caches = [s \in ToSet(Symbols) |-> [k \in {} |-> NoFrame]]
    /\ turns = [s \in ToSet(Symbols) |-> <<>>]

-----------------------------------------------------------------------------
(* Clock and scheduler *)

(* buffer_seconds is shorter than a bar: a close comes after the last fire.*)
CloseBar ==
    /\ clock < LastClock /\ ~due
    /\ atBar # None => clock <= atBar + TurnCloses
    /\ clock' = clock + 1 /\ due' = TRUE
    /\ UNCHANGED <<config, account, phase, queue, locals, caches, turns>>

(* Mutant: a fire during a tick is kept for later.                         *)
FireAlways ==
    /\ due
    /\ due' = FALSE
    /\ phase' = IF phase = "idle" THEN "turn" ELSE phase
    /\ queue' = queue \o Symbols
    /\ UNCHANGED <<clock, config, account, locals, caches, turns>>

(* The cron job; max_instances=1: a fire during a tick is dropped.         *)
Fire ==
    /\ due
    /\ due' = FALSE
    /\ IF phase = "idle" THEN phase' = "turn" /\ queue' = Symbols
                         ELSE UNCHANGED <<phase, queue>>
    /\ UNCHANGED <<clock, config, account, locals, caches, turns>>

-----------------------------------------------------------------------------
(* LiveRunner.run_once *)

symbol == Head(queue)

(* Mutant: the bar whose close has only just come.                         *)
FormingM15(now) == now

(* _last_closed_m15                                                        *)
LastClosedM15(now) == now - 1

BeginTurn ==
    /\ phase = "turn" /\ queue # <<>>
    /\ phase' = "D1"
    /\ atBar' = LastClosedM15(clock)
    /\ attempts' = 0 /\ asked' = None
    /\ turns' = [turns EXCEPT ![symbol] = Append(@, atBar')]
    /\ UNCHANGED <<clock, due, config, account, queue, frames, picture, caches>>

(* Mutant: a call that has used up its attempts is made anew.              *)
AttemptedAnew(n) == (n + 1) % MaxAttempts

(* for attempt in range(_MAX_ATTEMPTS)                                     *)
Attempted(n) == n + 1

Fetching == phase \in ToSet(TimeFrames)

(* The symbol's turn is over; the tick goes on with the next symbol.       *)
NextSymbol ==
    /\ phase' = "turn" /\ queue' = Tail(queue)
    /\ atBar' = None /\ attempts' = 0 /\ asked' = None
    /\ frames' = NoPicture /\ picture' = NoPicture

(* futures_klines answers; the forming bar is part of the reply.           *)
Reply ==
    /\ Fetching /\ asked = None
    /\ asked' = clock
    /\ UNCHANGED <<clock, due, config, account, phase, queue, atBar, attempts, frames,
                   picture, caches, turns>>

(* BinanceRequestException: tried again, at last passed on.                *)
RequestFails ==
    /\ Fetching /\ asked = None
    /\ IF Attempted(attempts) < MaxAttempts
       THEN /\ attempts' = Attempted(attempts)
            /\ UNCHANGED <<phase, queue, atBar, asked, frames, picture>>
       ELSE NextSymbol
    /\ UNCHANGED <<clock, due, config, account, caches, turns>>

(* Any other exception of the call or of the parsing: the turn is skipped. *)
FetchRaises ==
    /\ Fetching
    /\ NextSymbol
    /\ UNCHANGED <<clock, due, config, account, caches, turns>>

(* klines_to_dataframe of rows that end with the bar that was forming when *)
(* the reply was made: it is dropped if it has not closed by now.          *)
FrameOf(tf, made, now) ==
    LET forming == OpenOf(tf, made)
    IN [last |-> IF forming + Span[tf] <= now THEN forming ELSE forming - Span[tf],
        seen |-> made]

AfterFetch == [D1 |-> "H4", H4 |-> "M15", M15 |-> "analyze"]

(* A reply without rows, or with the forming bar alone, leaves no frame.   *)
Parse ==
    /\ Fetching /\ asked # None
    /\ \E f \in {FrameOf(phase, asked, clock), NoFrame} :
         /\ f = NoFrame => phase \in Lacking
         /\ frames' = [frames EXCEPT ![phase] = f]
    /\ phase' = AfterFetch[phase]
    /\ attempts' = 0 /\ asked' = None
    /\ UNCHANGED <<clock, due, config, account, queue, atBar, picture, caches, turns>>

-----------------------------------------------------------------------------
(* orchestrator.analyze: _slice_to_at_bar, then _cached_or_run per frame *)

(* Mutant: strictly before at_bar.                                         *)
SlicedBefore(tf) == [frames[tf] EXCEPT !.last = Min({@, OpenOf(tf, atBar - 1)})]

Sliced(tf) == [frames[tf] EXCEPT !.last = Min({@, OpenOf(tf, atBar)})]

(* Mutant: one entry per time frame.                                       *)
KeyOfTf(tf, last) == <<tf, 0>>

CacheKey(tf, last) == <<tf, last>>

Snapshot(tf) ==
    LET f == Sliced(tf)
        key == CacheKey(tf, f.last)
    IN IF key \in DOMAIN caches[symbol] THEN caches[symbol][key]
       ELSE [last |-> f.last, seen |-> f.seen, levels |-> Sliced("D1").last]

(* The cache after the snapshots of the time frames in done.               *)
CacheWith(done) ==
    LET c   == caches[symbol]
        new == [tf \in done |-> CacheKey(tf, Sliced(tf).last)]
    IN [k \in DOMAIN c \cup {new[tf] : tf \in done} |->
           IF k \in DOMAIN c THEN c[k]
           ELSE Snapshot(CHOOSE tf \in done : new[tf] = k)]

(* An empty frame is passed over.                                          *)
Held(tfs) == {tf \in tfs : frames[tf] # NoFrame}

(* The time is read off the last M15 bar; the M15 detectors run only when  *)
(* the price is near a point of interest, which are those of H4.           *)
AnalyzeFrames ==
    /\ phase = "analyze" /\ frames["M15"] # NoFrame
    /\ \E ltf \in {FALSE, frames["H4"] # NoFrame} :
         LET done == Held({"D1", "H4"} \cup (IF ltf THEN {"M15"} ELSE {}))
         IN /\ caches' = [caches EXCEPT ![symbol] = CacheWith(done)]
            /\ picture' = [tf \in {"D1", "H4", "M15"} |->
                              IF tf \in done THEN Snapshot(tf) ELSE NoFrame]
    /\ phase' = "decide"
    /\ UNCHANGED <<clock, due, config, account, queue, atBar, attempts, asked, frames,
                   turns>>

(* A detector raises, or an empty frame makes the slicing or the look at   *)
(* the last M15 bar raise: the snapshots made before stay in the cache.    *)
AnalyzeRaises ==
    /\ phase = "analyze"
    /\ \E done \in {{}, {"D1"}, {"D1", "H4"}} :
          caches' = [caches EXCEPT ![symbol] = CacheWith(Held(done))]
    /\ NextSymbol
    /\ UNCHANGED <<clock, due, config, account, turns>>

(* build, validate, emit: no setup, a rejection or an exception.           *)
NotValidated ==
    /\ phase = "decide"
    /\ NextSymbol
    /\ UNCHANGED <<clock, due, config, account, caches, turns>>

(* A validated setup: emit, whose failure is only logged, then             *)
(* process_setup, which may send an entry order to the account.            *)
PlaceOrder ==
    /\ phase = "decide"
    /\ phase' = "placing"
    /\ UNCHANGED <<clock, due, config, account, queue, locals, caches, turns>>

(* process_setup returns or raises; see OrderManager.                      *)
Placed ==
    /\ phase = "placing"
    /\ NextSymbol
    /\ UNCHANGED <<clock, due, config, account, caches, turns>>

(* The watchers and polls of the order managers; see OrderManager.         *)
EndTick ==
    /\ phase = "turn" /\ queue = <<>>
    /\ phase' = "idle"
    /\ UNCHANGED <<clock, due, config, account, queue, locals, caches, turns>>

-----------------------------------------------------------------------------
Service == \/ BeginTurn \/ Reply \/ RequestFails \/ FetchRaises \/ Parse
           \/ AnalyzeFrames \/ AnalyzeRaises \/ NotValidated \/ PlaceOrder \/ Placed
           \/ EndTick

Next == CloseBar \/ Fire \/ Service

(* The tick is one thread of straight-line code whose calls all return or  *)
(* raise: the HTTP client has a timeout.                                   *)
Spec == Init /\ [][Next]_vars /\ WF_vars(Service)

-----------------------------------------------------------------------------
(* Properties *)

TypeOK ==
    /\ clock \in FirstClock..LastClock /\ due \in BOOLEAN
    /\ config \in Configs /\ account \in {"TESTNET", "MAINNET"}
    /\ phase \in {"idle", "turn", "analyze", "decide", "placing"} \cup ToSet(TimeFrames)
    /\ \E k \in 1..Len(Symbols) + 1 : queue = SubSeq(Symbols, k, Len(Symbols))
    /\ attempts \in 0..MaxAttempts - 1
    /\ asked \in {None} \cup FirstClock..clock
    /\ \A s \in ToSet(Symbols) : \A k \in DOMAIN caches[s] : caches[s][k].last = k[2]

Whole(tf, snapshot) == snapshot.last + Span[tf] <= snapshot.seen

(* "The forming bar is never seen" (runner's module comment) holds of M15: *)
(* however long a turn takes, an M15 snapshot ends with a bar the exchange *)
(* had finished when it replied, and not after the bar the turn is about.  *)
WholeM15Bars ==
    /\ \A s \in ToSet(Symbols) : \A k \in DOMAIN caches[s] :
          k[1] = "M15" => Whole("M15", caches[s][k])
    /\ picture.M15 # NoFrame => picture.M15.last = atBar

(* Of the higher time frames it does not: a bar that closes during the     *)
(* turn can be cached half-seen, and its half-seen snapshot is used until  *)
(* the next bar of its time frame has closed.                              *)
FormingNeverSeen ==
    \A tf \in {"D1", "H4", "M15"} : picture[tf] # NoFrame => Whole(tf, picture[tf])

(* What a turn is given of the higher time frames is never out of date,    *)
(* though the caches outlive the turn, the frames come by separate calls   *)
(* and the slice goes by the M15 bar: no bar that had closed when the turn *)
(* began is missing from the picture, and the D1 levels an H4 entry was    *)
(* made with are those of the day before its close, or of the day that     *)
(* closed with it - or none, when the D1 reply held no bar.                *)
HtfIsCurrent ==
    /\ \A s \in ToSet(Symbols) : \A k \in DOMAIN caches[s] :
         LET e == caches[s][k]
             close == e.last + Span[k[1]]
         IN k[1] = "H4" => e.levels \in {None, LastClosed("D1", close),
                                               LastClosed("D1", close - 1)}
    /\ \A tf \in {"D1", "H4"} :
         picture[tf] # NoFrame => picture[tf].last >= LastClosed(tf, atBar + 1)

(* A symbol's bars come in order, and it is analysed twice for one bar only*)
(* when a turn of a tick that was still running began between the close    *)
(* and the fire of the next tick: never a third time.                      *)
BarsInOrder ==
    \A s \in ToSet(Symbols) : \A i, j \in DOMAIN turns[s] :
        /\ i < j => turns[s][i] <= turns[s][j]
        /\ i + 1 < j => turns[s][i] < turns[s][j]

(* Every tick ends, whatever its calls do.                                 *)
TickEnds == phase # "idle" ~> phase = "idle"

=============================================================================
