------------------------------ MODULE MCReplay ------------------------------
(* Instance of Replay: an H4 bar is two M15 bars, a day four of them.      *)
EXTENDS Replay

SpanVal     == [M15 |-> 1, H4 |-> 2, D1 |-> 4]
LookbackVal == [M15 |-> 12, H4 |-> 8, D1 |-> 8]

QualityVal == [ZONE |-> 1000, LEVEL |-> 600, IMBALANCE |-> 500]
StatusVal  == [FRESH |-> 1000, TESTED |-> 700, MITIGATED |-> 300, BROKEN |-> 0]
WeightsVal == <<25, 20, 20, 15, 10, 10>>
TpVal      == <<150, 262, 423>>

Move(d, u, w) == [d |-> d, u |-> u, w |-> w]

(* The series that starts at 100 and makes the moves of the sequence ms.   *)
SeriesOf(ms) ==
    FoldLeft(LAMBDA s, m : Append(s, NextBar(s, m)), <<Bar(0, 100, 101, 99, 100)>>, ms)

up == Move(2, 0, 0)
dn == Move(-2, 0, 0)
ju == Move(6, 0, 0)
jd == Move(-6, 0, 0)
u1 == Move(1, 0, 0)
d1 == Move(-1, 0, 0)
wu == Move(-1, 3, 0)
wd == Move(1, 0, 3)

(* Histories whose continuations reach the cases of interest; the empty    *)
(* windows at the start of a series, then one per outcome.                 *)
Start         == <<up, dn, up>>
ZoneShort     == <<up, wd, dn, ju, wd, jd, up, jd, jd, dn, wd, u1, up, u1, jd, up, jd, u1>>
LevelLong     == <<up, ju, ju, jd, d1, wu, wu, wu, up, u1, d1, ju, wd, up, wu, up, ju, d1,
                   dn, u1, ju, d1>>
ImbalanceLong == <<up, jd, wd, dn, d1, ju, up, wd, wd, jd, wd, wu, d1, d1, ju, wd, d1, ju>>
HighAtr       == <<up, ju, d1, dn, jd, dn, d1, ju, wd, jd, u1, wd, up, dn, wu, jd, wd, up>>
FundingHour   == <<up, d1, u1, wu, up, dn, ju, up, wd, up, ju, wu, dn, up, wd, wu, d1, jd,
                   u1, wu, u1>>
DailyRange    == <<up, jd, d1, d1, wd, jd, up, ju, d1, up, u1, u1, up, d1, jd, jd, u1, u1,
                   u1, up, ju, u1, jd, wd, jd, jd>>
H4Breaks      == <<up, wd, dn, d1, d1, d1, ju, d1, ju, dn, dn, jd, ju, u1, jd, wu, wu, u1,
                   ju, wd>>

(* The early ones leave room in the windows, the others make them slide.   *)
HistoriesVal == {SeriesOf(ms) : ms \in {Start, SubSeq(LevelLong, 1, 6),
                                        SubSeq(FundingHour, 1, 8), ZoneShort, LevelLong,
                                        ImbalanceLong, HighAtr, FundingHour, DailyRange, H4Breaks}}

MovesVal == {up, dn, wu, wd}

AccountsVal == {[open |-> FALSE, losses |-> 0, drawdown |-> 0]}
=============================================================================
