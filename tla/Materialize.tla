---------------------------- MODULE Materialize ----------------------------
(***************************************************************************)
(* The value engine of factors/materialize.py for one symbol and one       *)
(* factor: how much history a request loads and what each emitted value    *)
(* therefore sees.  Three load geometries: a daily factor (calendar of all *)
(* symbols, fixed trim), a bounded minute factor (the symbol's own days,   *)
(* fixed trim) and a valid-day-pooled minute factor (backward expansion    *)
(* until the pool is saturated or the provider's floor is reached).        *)
(*                                                                         *)
(* A value is known by the set of rows it was computed from.               *)
(***************************************************************************)
EXTENDS Integers, FiniteSets, FiniteSetsExt

CONSTANTS LastDay,   \* bound: trading days 1..LastDay
          Warmup,    \* spec.lookback_depth: rows a bounded value needs
          Buffer,    \* days loaded before the emit window, _load_buffer_calendar_days
          Baseline,  \* baseline_days of a pooled factor
          Lookback,  \* lookback_days: valid days in the pool
          Chunk,     \* one backward expansion, _saturation_chunk_calendar_days
          Kinds      \* the geometries of this instance

MaterializeAssumption ==
    /\ {LastDay, Warmup, Baseline, Lookback, Chunk} \subseteq Nat \ {0}
    /\ Buffer \in Nat /\ Buffer > Warmup
    /\ Kinds \subseteq {"daily", "bounded", "pooled"}

Days == 1..LastDay
NaN == {"nan"}

VARIABLES kind, view,
          bars,      \* days the symbol has rows on; the others are suspensions
          valid,     \* bar days the factor accepts, given their whole baseline
          validCut,  \* bar days it accepts when the baseline is cut short
          floor,     \* earliest_available() of the provider
          from, to,  \* the emit window
          load,      \* first day loaded
          values,    \* the emitted values, once done
          pc

vars == <<kind, view, bars, valid, validCut, floor, from, to, load, values, pc>>
data == <<kind, view, bars, valid, validCut, floor, from, to>>

Greatest(a, b) == IF a >= b THEN a ELSE b

(* The n latest days of S, all of them when there are fewer.               *)
Latest(S, n) == {x \in S : Cardinality({y \in S : y > x}) < n}

-----------------------------------------------------------------------------
(* Daily factors.                                                          *)

(* daily_decision_lag: the row of day x carries the symbol's previous row, *)
(* none for the first loaded one.                                          *)
Lagged(x, lo) ==
    IF view = "close" THEN {x} ELSE Latest(bars \cap (lo..(x - 1)), 1)

(* _trim_daily: Warmup days of the calendar of all loaded symbols.         *)
TrimDaily(first, lo) == Greatest(lo, first - Warmup)

(* A trailing-window value of day d: the symbol's latest Warmup rows.      *)
DailyValue(d, first, lo) ==
    LET rows == Latest(bars \cap (TrimDaily(first, lo)..d), Warmup)
    IN  IF Cardinality(rows) < Warmup \/ \E x \in rows : Lagged(x, lo) = {}
        THEN NaN
        ELSE UNION {Lagged(x, lo) : x \in rows}

-----------------------------------------------------------------------------
(* Bounded minute factors: the trim counts the symbol's own days.          *)

BoundedValue(d, first, lo) ==
    LET before == Latest(bars \cap (lo..(first - 1)), Warmup)
        rows == Latest(before \cup (bars \cap (first..d)), Warmup)
    IN  IF Cardinality(rows) < Warmup THEN NaN ELSE rows

-----------------------------------------------------------------------------
(* Pooled minute factors.                                                  *)

Loaded(lo) == bars \cap (lo..LastDay)

(* A loaded day is classified for good once its baseline is full, or when  *)
(* there is no history left to load.                                       *)
Final(x, lo) ==
    \/ Cardinality({y \in Loaded(lo) : y < x}) >= Baseline
    \/ \A y \in bars : y >= lo

ValidDays(lo) ==
    {x \in Loaded(lo) : IF Final(x, lo) THEN x \in valid ELSE x \in validCut}

(* One row per valid day: the pool of the latest Lookback valid days.  A   *)
(* day classified on a cut baseline is not the day the full history has.   *)
PooledValue(d, lo) ==
    {<<x, Final(x, lo)>> : x \in Latest({y \in ValidDays(lo) : y <= d}, Lookback)}

(* Mutant: the locked window is not cut at the head.                       *)
SaturatedUnlocked(lo) ==
    Cardinality({x \in ValidDays(lo) : x <= from}) >= Lookback

(* _pooled_pool_saturated: drop the first Baseline loaded days; the rest   *)
(* holds at least Lookback valid days up to the first emitted date.        *)
PoolSaturated(lo) ==
    Cardinality({x \in ValidDays(lo) :
                   /\ x <= from
                   /\ Cardinality({y \in Loaded(lo) : y < x}) >= Baseline})
        >= Lookback

AtFloor(lo) == lo <= floor

-----------------------------------------------------------------------------
(* The values of the emit window, computed from what was loaded from lo.   *)
Emitted(lo) ==
    IF kind = "pooled"
    THEN [d \in ValidDays(lo) \cap (from..to) |-> PooledValue(d, lo)]
    ELSE [d \in bars \cap (from..to) |->
            IF kind = "daily" THEN DailyValue(d, from, lo)
                              ELSE BoundedValue(d, from, lo)]

Init == /\ kind \in Kinds
        /\ view \in IF kind = "daily" THEN {"close", "decision"} ELSE {"close"}
        /\ bars \in SUBSET Days
        /\ valid \in IF kind = "pooled" THEN SUBSET bars ELSE {bars}
        /\ validCut \in IF kind = "pooled" THEN SUBSET bars ELSE {bars}
        /\ floor \in {f \in Days : \A b \in bars : f <= b}
        /\ from \in Days
        /\ to \in {from, LastDay}
        /\ load = from - (IF kind = "pooled" THEN Chunk ELSE Buffer)
        /\ values = << >>
        /\ pc = "load"

(* materialize_range of a daily or bounded factor: one load, one compute.  *)
ComputeOnce ==
    /\ pc = "load" /\ kind /= "pooled"
    /\ values' = Emitted(Greatest(1, load))
    /\ pc' = "done"
    /\ UNCHANGED <<data, load>>

(* _pooled_symbol_stats: the loaded window is enough, or all there is.     *)
Saturate ==
    /\ pc = "load" /\ kind = "pooled"
    /\ LET lo == IF AtFloor(load) THEN floor ELSE load
       IN  /\ AtFloor(load) \/ (Loaded(lo) /= {} /\ PoolSaturated(lo))
           /\ values' = Emitted(lo)
           /\ load' = lo
    /\ pc' = "done"
    /\ UNCHANGED data

(* ... and otherwise one chunk more, also when nothing was found.          *)
Expand ==
    /\ pc = "load" /\ kind = "pooled"
    /\ ~AtFloor(load) /\ (Loaded(load) = {} \/ ~PoolSaturated(load))
    /\ load' = load - Chunk
    /\ UNCHANGED <<data, values, pc>>

Next == ComputeOnce \/ Saturate \/ Expand

Spec == Init /\ [][Next]_vars /\ WF_vars(Next)

-----------------------------------------------------------------------------
(* Every variable holds a value of its kind; only days of the request that *)
(* have a row are emitted.                                                 *)
TypeOK ==
    /\ kind \in Kinds /\ view \in {"close", "decision"}
    /\ bars \subseteq Days /\ valid \subseteq bars /\ validCut \subseteq bars
    /\ floor \in Days /\ from \in Days /\ to \in from..LastDay
    /\ load \in Int /\ pc \in {"load", "done"}
    /\ DOMAIN values \subseteq bars \cap (from..to)

(* Never suspended between listing and the last day.                       *)
Continuous == \A x, y \in bars : x..y \subseteq bars

(* What a column computed from the whole history says of day d.            *)
WholeHistory(d) ==
    CASE kind = "daily" -> DailyValue(d, 1, 1)
      [] kind = "bounded" -> BoundedValue(d, 1, 1)
      [] kind = "pooled" -> PooledValue(d, 1)

(* Contract P8 of the engine (a single-date fill and a batch fill give the *)
(* same values), for a pooled factor: through any suspension a request     *)
(* emits for each valid day what the whole history would give, and neither *)
(* drops nor invents a day, wherever its first day lies.                   *)
PooledSingleIsBatch ==
    pc = "done" /\ kind = "pooled" =>
        /\ DOMAIN values = valid \cap (from..to)
        /\ \A d \in DOMAIN values : values[d] = WholeHistory(d)

(* The same for the fixed trims, of a symbol that was never suspended: the *)
(* lookback depth and the load buffer are deep enough, lag row included.   *)
TrimmedSingleIsBatch ==
    pc = "done" /\ kind /= "pooled" /\ Continuous =>
        \A d \in DOMAIN values : values[d] = WholeHistory(d)

(* The same contract as the module states it, suspensions included.        *)
SingleIsBatch ==
    pc = "done" => \A d \in DOMAIN values : values[d] = WholeHistory(d)

(* A value sees no row later than its own date, and in the decision view   *)
(* none of its own date either, whatever rows the symbol lacks.            *)
SeesThePast ==
    kind = "daily" /\ pc = "done" =>
        \A d \in DOMAIN values : values[d] /= NaN =>
            \A x \in values[d] : IF view = "close" THEN x <= d ELSE x < d

=============================================================================
