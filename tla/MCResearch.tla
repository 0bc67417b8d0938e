------------------------------ MODULE MCResearch ------------------------------
(***************************************************************************)
(* One run for the safety of seven parts of a research run: what it may    *)
(* know (PointInTime, extended: its theorems are about these names), the   *)
(* factor engine, the two families of minute factors, the monthly          *)
(* backtest, the verdict rules and the reconciliation of two panels.  They *)
(* share no state; Init picks the one a behaviour follows, the others stay *)
(* in one initial state.                                                   *)
(***************************************************************************)
EXTENDS PointInTime, Sequences, TLC

CONSTANTS
    EngineDays, Warmup, Buffer, Baseline, Lookback, Chunk, Kinds,             \* Engine
    Unit, TopN, BookDays, DaysPerMonth, Simulated, Quotes, DropAtLimit,       \* Book
    Axis, Steps,                                                              \* Rules
    PeakMinutes, PeakCutoff, PeakLag, PeakSessions, MaxDays, BaselineDays, BaselineMinObs,
    PeakSigma, PeakLookback, PeakValidDays, MinClassifiable, MinValley, MinRidge, MinPeak,
    MinIntervals,                                                             \* Peaks
    BarMinutes, LastBar, BarOpen, BarCutoff, BarLag, BarGrid, Bars, Histories, BarLookback,
    BarSigma, OneIn, MinMinutes, MinPool, MinSelected, MinPairs, MinDayMinutes, BarValidDays,
    LastWindow, MmpLookback,                                                  \* Pools
    LastDate, GridMonths, Names, Stranger, Direct, Early, FlipDates, SparseDates,
    SparseSymbols, LookbackDepth, Panels, Moves, FloatTailMax, CrossFloatTailMax, FlipMax,
    ContaminationMax, BarsOnlyMax, SparseMax                                  \* Compared

VARIABLES
    which,
    kind, view, rows, valid, validCut, floor, from, to, load, values, pc,
    model, calendar, periods, market, period, phase, positions, target, fill,
    unchecked, missingAdj, mark, gap,
    f, steps,
    days, frame, value,
    past, session, now, decided,
    factor, frozen, todo, count, monthly, overshoots, verdict

Engine == INSTANCE Materialize WITH
    LastDay <- EngineDays, bars <- rows

q(bar, px, adj, halted, lim) ==
    [bar |-> bar, px |-> px, adj |-> adj, halted |-> halted, lim |-> lim]

(* A name is absent, at either limit, moves with and without a corporate   *)
(* action, lacks its limit row or its factor, or is suspended.             *)
MCQuotes ==
    {q(FALSE, 0, 0, FALSE, "inside"), q(TRUE, 0, 0, FALSE, "up"),
     q(TRUE, 0, 0, FALSE, "down"),    q(TRUE, 1, 0, FALSE, "inside"),
     q(TRUE, 0, 1, FALSE, "norow"),   q(TRUE, 1, -1, FALSE, "inside"),
     q(TRUE, 0, 0, TRUE, "inside")}

MCSimulated == {{1, 2, 3, 5}}

Book == INSTANCE Backtest WITH LastDay <- BookDays

Rules == INSTANCE Verdict

(* Volume-peak factors: a session of eleven minutes, the lunch break after *)
(* the eighth, the last bar after the cutoff.                              *)
MCPeakMinutes == 1 .. 8 \cup {11, 12, 20}

Prints(line) ==
    [t \in MCPeakMinutes |-> CASE t <= 8 -> line[t] [] t = 20 -> line[11] [] OTHER -> line[t - 2]]

MCSessions ==
    LET bar(v, a, c) == [vol |-> v, amt |-> a, close |-> c]
        L == bar(1, 1, 1)
        H == bar(5, 10, 2)
        U == bar(5, 0, 0)            \* volume without amount or price
        N == bar(-1, 0, 0)
    IN  {Prints(<<L, H, L, H, L, L, H, L, L, L, H>>),
         Prints(<<L, H, H, L, N, H, L, L, H, L, N>>),
         Prints(<<H, L, U, L, L, L, L, L, L, L, N>>),
         Prints(<<N, N, N, N, N, N, N, N, N, N, N>>)}

Peaks == INSTANCE MinutePeaks WITH
    Minutes <- PeakMinutes, Cutoff <- PeakCutoff, DataLag <- PeakLag, Sessions <- PeakSessions,
    SigmaK <- PeakSigma, LookbackDays <- PeakLookback, MinValidDays <- PeakValidDays

(* Pooled minute factors: minute 3 never prints, minute 8 closes after the *)
(* cutoff.                                                                 *)
MCBarMinutes == {1, 2, 4, 5, 6, 7, 8}

ohlc(o, h, l, c, v) == [open |-> o, high |-> h, low |-> l, close |-> c, vol |-> v, amt |-> v * c]

Calm == ohlc(1, 2, 1, 1, 1)
Wide == ohlc(1, 4, 1, 2, 3)
MCBars == {Calm, Wide}

MCHistories ==
    LET Wild == ohlc(1, 6, 1, 1, 4)
        Bad == ohlc(0, 2, 0, 1, 0)   \* no usable open or low
        None == ohlc(0, 0, 0, 0, 0)
        at(line) == [t \in MCBarMinutes |-> line[Cardinality({u \in MCBarMinutes : u <= t})]]
    IN  {<<at(<<Calm, Wide, Calm, Wild, Calm, Wide, Calm>>),
           at(<<Calm, Calm, Bad, Calm, Wild, Wide, Calm>>)>>,
         <<at(<<Wide, Calm, Wide, Calm, Wide, Calm, Wide>>),
           at(<<None, None, Bad, Calm, Calm, Wide, Calm>>)>>}

Pools == INSTANCE MinuteBars WITH
    Minutes <- BarMinutes, LastMinute <- LastBar, SessionOpen <- BarOpen, Cutoff <- BarCutoff,
    DataLag <- BarLag, Grid <- BarGrid, LookbackDays <- BarLookback, SigmaK <- BarSigma,
    MinValidDays <- BarValidDays, today <- session

(* Three months of one day.                                                *)
MCGridMonths == [d \in 1 .. 3 |-> d]

(* The first panel is dense, the others have holes and NaN values, the     *)
(* last one nothing on its first day.                                      *)
MCPanels ==
    LET Grid == (1 .. 3) \X {"x", "y", "z"}
        panel(holes, nans) ==
            [c \in Grid |-> IF c[2] = "z" \/ c \in holes THEN "absent"
                            ELSE IF c \in nans THEN "nan" ELSE "finite"]
    IN  {panel({}, {}), panel({<<1, "y">>}, {<<2, "x">>}),
         panel({<<1, "x">>, <<1, "y">>}, {<<3, "x">>})}

(* Equal, dust, and a move that only one of the classes can explain.       *)
MCMoves ==
    LET mv(rel, abs) == [rel |-> rel, abs |-> abs]
    IN  {mv(0, 0), mv(4, 0), mv(1, 3), mv(2, 2), mv(3, 4), mv(4, 5)}

Compared == INSTANCE Reconcile WITH
    Symbols <- Names, Window <- FlipDates, MonthOf <- GridMonths

(* What the modules assume of their constants.                             *)
ASSUME InstancesAssumption ==
    /\ Engine!MaterializeAssumption /\ Rules!VerdictAssumption
    /\ Book!BacktestAssumption /\ Book!QuotesAssumption
    /\ Peaks!PeaksAssumption /\ Pools!BarsAssumption /\ Compared!ReconcileAssumption

engineVars == <<kind, view, rows, valid, validCut, floor, from, to, load, values, pc>>
bookVars == <<model, calendar, periods, market, period, phase, positions, target, fill,
              unchecked, missingAdj, mark, gap>>
ruleVars == <<f, steps>>
peakVars == <<days, frame, value>>
poolVars == <<past, session, now, decided>>
panelVars == <<factor, frozen, todo, count, monthly, overshoots, verdict>>
mcVars == <<which, vars, engineVars, bookVars, ruleVars, peakVars, poolVars, panelVars>>

MCInit ==
    /\ which \in {"feeds", "engine", "book", "rules", "peaks", "pools", "panels"}
    /\ Init
    /\ which # "feeds" => feed = "bars"
    /\ IF which = "engine" THEN Engine!Init
       ELSE /\ kind = "daily" /\ view = "close" /\ rows = {} /\ valid = {} /\ validCut = {}
            /\ floor = 1 /\ from = 1 /\ to = 1 /\ load = 1 - Buffer /\ values = << >> /\ pc = "load"
    /\ IF which = "book" THEN Book!Init
       ELSE /\ model = "daily" /\ calendar = {1} /\ periods = << >> /\ market = << >>
            /\ period = 0 /\ phase = "settled" /\ positions = Book!NoPositions
            /\ target = Book!NoPositions /\ fill = Book!NoFill
            /\ unchecked = {} /\ missingAdj = {} /\ gap = {}
            /\ mark = [s \in Symbols |-> 0]
    /\ IF which = "rules" THEN Rules!Init
       ELSE steps = 0 /\ f = CHOOSE facts \in Rules!PredictiveFacts : TRUE
    /\ IF which = "peaks" THEN Peaks!Init
       ELSE days = << >> /\ frame = << >> /\ value = << >>
    /\ IF which = "pools" THEN Pools!Init
       ELSE past = << >> /\ session = << >> /\ now = 0 /\ decided = << >>
    /\ IF which = "panels" THEN Compared!Init
       ELSE /\ factor = << >> /\ frozen = << >> /\ todo = {} /\ count = << >>
            /\ monthly = << >> /\ overshoots = 0 /\ verdict = "open"

MCNext ==
    \/ which = "feeds" /\ Next
       /\ UNCHANGED <<which, engineVars, bookVars, ruleVars, peakVars, poolVars, panelVars>>
    \/ which = "engine" /\ Engine!Next
       /\ UNCHANGED <<which, vars, bookVars, ruleVars, peakVars, poolVars, panelVars>>
    \/ which = "book" /\ Book!Next
       /\ UNCHANGED <<which, vars, engineVars, ruleVars, peakVars, poolVars, panelVars>>
    \/ which = "rules" /\ Rules!Next
       /\ UNCHANGED <<which, vars, engineVars, bookVars, peakVars, poolVars, panelVars>>
    \/ which = "peaks" /\ Peaks!Next
       /\ UNCHANGED <<which, vars, engineVars, bookVars, ruleVars, poolVars, panelVars>>
    \/ which = "pools" /\ Pools!Next
       /\ UNCHANGED <<which, vars, engineVars, bookVars, ruleVars, peakVars, panelVars>>
    \/ which = "panels" /\ Compared!Next
       /\ UNCHANGED <<which, vars, engineVars, bookVars, ruleVars, peakVars, poolVars>>

MCSpec == MCInit /\ [][MCNext]_mcVars

Symmetric == Permutations(Symbols)

-----------------------------------------------------------------------------
(* Materialize: a single date gets what a batch gives it, a pooled factor  *)
(* through any suspension, the others for a symbol never suspended; and no *)
(* value sees a row its view may not.                                      *)
DatesAgree ==
    Engine!PooledSingleIsBatch /\ Engine!TrimmedSingleIsBatch /\ Engine!SeesThePast

(* MinutePeaks: a published factor value never changes: neither the rest   *)
(* of its session nor a later session reaches it.                          *)
PublishedIsFinal == Peaks!PastIsFinal

(* MinutePeaks: more history than the locking offset asks for changes no   *)
(* value, and a missing minute never makes a peak of another one.          *)
PeaksAreEarned == Peaks!HistoryIsLocked /\ Peaks!MissingBarsMakeNoPeak

(* MinuteBars: research on whole sessions computes what the decision saw,  *)
(* and history beyond a bounded window changes nothing.                    *)
GeometryFree == Pools!GeometryFree

(* Backtest: the periods tile the calendar, and no price move is lost or   *)
(* counted twice.                                                          *)
BookIsExact == Book!PeriodsTile /\ Book!MovesAreCounted

(* Backtest: no trade against the market or past the target.               *)
RespectsTheMarket == Book!RespectsTheMarket

(* Backtest: the book is never leveraged, buys starve only behind a        *)
(* blocked sell, for want of less than a unit each, and a missed target or *)
(* an unchecked limit is disclosed.                                        *)
ShortfallsAreExplained ==
    Book!NoLeverage /\ Book!StarvedOnlyBehindABlockedSell /\ Book!NothingSilent

(* Verdict: stronger evidence never lowers the label, a thinner sample     *)
(* never convicts and never earns an Adopt, and the mirrored factor under  *)
(* the mirrored hypothesis gets the same verdict.                          *)
EvidenceIsMonotone ==
    /\ Rules!StrongerIsNotWorse /\ Rules!GateOnlyWithholdsClaims
    /\ Rules!MirrorKeepsTheVerdict

(* Verdict: a missing measurement fails the predictive axis alone, on a    *)
(* sufficient sample, and only by taking a fact of the signal away.        *)
OnlyALostSignalConvicts == Rules!OnlyALostSignalConvicts

(* Reconcile: a move the registered flip cannot explain fails the panel;   *)
(* the ceiling of the warm-up class holds by construction, and both legs   *)
(* mean the same cells by it.                                              *)
WindowIsClosed ==
    Compared!WindowIsClosed /\ (which = "panels" => Compared!WarmupIsOneRegion)
=============================================================================
