----------------------------- MODULE IntradayCache -----------------------------
(***************************************************************************)
(* The read-through cache of 1-minute bars (data/cache/intraday_cache.py)  *)
(* for one symbol: uncovered days are fetched gap by gap, a gap in windows *)
(* of at most WindowDays, a window stored month file by month file, and    *)
(* the whole gap is recorded covered ONCE, after its last window.  Unlike  *)
(* the daily cache there is no not_ready status and no trailing refetch.   *)
(*                                                                         *)
(* A day's bars are abstracted to HOW MANY the vendor serves so far: a bar *)
(* never changes, so merging two responses keeps the larger count.  The    *)
(* locks of the month files are the subject of LockedStore.tla, the        *)
(* writing of the ledger file that of CoverageLedger.tla.                  *)
(***************************************************************************)
EXTENDS Integers

CONSTANTS
    LastDay,        \* bound: the last day the clock reaches
    MaxBars,        \* bound: parts in which a day's bars arrive
    WindowDays,     \* fetch_window_days
    MonthDays,      \* days per month file
    MaxRunDays,     \* bound: a run pins today at most this long ago
    RunsInSession,  \* may a run ask for today while bars still arrive?
    PublishesLate   \* may the vendor serve bars of a day on the next day only?

IntradayAssumption ==
    /\ LastDay \in Nat /\ MaxBars \in Nat /\ MaxRunDays \in Nat
    /\ WindowDays \in Nat \ {0} /\ MonthDays \in Nat \ {0}
    /\ RunsInSession \in BOOLEAN /\ PublishesLate \in BOOLEAN

VARIABLES
    clock,    \* today's date
    open,     \* bars of today are still arriving
    source,   \* what the vendor serves: day -> number of bars
    store,    \* the month files: day -> number of bars stored
    covered,  \* the days the ledger's ok/empty rows claim
    pc,       \* idle, plan, gaps, window, done
    job,      \* the request being served
    todo,     \* days still to fetch
    gap,      \* the gap being fetched: <<first day, last day>>
    win,      \* win_start: first day of the next window of the gap
    resp,     \* the window's rows not upserted yet: day -> number of bars
    seen      \* history: bars in the answers to the current gap, -1 = not asked

runVars == <<pc, job, todo, gap, win, resp>>
vars == <<clock, open, source, store, covered, runVars, seen>>

Day      == 0 .. LastDay
Bars     == 0 .. MaxBars
NoBars   == [d \in Day |-> 0]
NoJob    == [lo |-> 0, hi |-> 0, forced |-> FALSE, base |-> NoBars]
MonthOf(d) == d \div MonthDays
Larger(a, b) == IF a >= b THEN a ELSE b

TypeOK ==
    /\ clock \in Day /\ open \in BOOLEAN
    /\ source \in [Day -> Bars] /\ store \in [Day -> Bars]
    /\ covered \subseteq Day
    /\ pc \in {"idle", "plan", "gaps", "window", "done"}
    /\ job \in [lo : Day, hi : Day, forced : BOOLEAN, base : [Day -> Bars]]
    /\ todo \subseteq Day /\ gap \in Day \X Day /\ win \in 0 .. LastDay + 1
    /\ resp \in [Day -> Bars]
    /\ seen \in [Day -> -1 .. MaxBars]

Init ==
    /\ clock = 0 /\ open = TRUE
    /\ source = NoBars /\ store = NoBars /\ covered = {}
    /\ pc = "idle" /\ job = NoJob
    /\ todo = {} /\ gap = <<0, 0>> /\ win = 0 /\ resp = NoBars
    /\ seen = [d \in Day |-> -1]
-----------------------------------------------------------------------------
(***************************************************************************)
(* The environment: the trading session and the vendor.                    *)
(***************************************************************************)
NextDay ==
    /\ clock < LastDay /\ ~open
    /\ pc \in {"idle", "done"} \/ clock < job.hi + MaxRunDays
    /\ clock' = clock + 1 /\ open' = TRUE
    /\ UNCHANGED <<source, store, covered, runVars, seen>>

SessionEnds ==
    /\ open /\ open' = FALSE
    /\ UNCHANGED <<clock, source, store, covered, runVars, seen>>

BarsArrive(d) ==
    /\ \/ d = clock /\ open
       \/ PublishesLate /\ d \in clock - 1 .. clock
    /\ source[d] < MaxBars
    /\ source' = [source EXCEPT ![d] = @ + 1]
    /\ UNCHANGED <<clock, open, store, covered, runVars, seen>>
-----------------------------------------------------------------------------
(***************************************************************************)
(* stk_mins_1min.                                                          *)
(***************************************************************************)
Begin(lo, hi, forced) ==
    /\ pc \in {"idle", "done"}
    /\ lo <= hi /\ hi <= clock
    /\ hi = clock => (RunsInSession \/ ~open)
    /\ pc' = "plan"
    /\ job' = [lo |-> lo, hi |-> hi, forced |-> forced, base |-> source]
    /\ UNCHANGED <<clock, open, source, store, covered, todo, gap, win, resp, seen>>

\* _day_gaps
DayGaps == {d \in job.lo .. job.hi : job.forced \/ d \notin covered}

Plan ==
    /\ pc = "plan"
    /\ todo' = DayGaps
    /\ pc' = "gaps"
    /\ UNCHANGED <<clock, open, source, store, covered, job, gap, win, resp, seen>>

\* The first maximal run of consecutive days still to fetch.
NextGap(lo, hi) ==
    /\ pc = "gaps"
    /\ lo <= hi /\ lo .. hi \subseteq todo /\ hi + 1 \notin todo
    /\ \A d \in todo : lo <= d
    /\ gap' = <<lo, hi>> /\ win' = lo
    /\ seen' = [d \in Day |-> -1]
    /\ pc' = "window"
    /\ UNCHANGED <<clock, open, source, store, covered, job, todo, resp>>

WindowEnd == IF win + WindowDays - 1 <= gap[2] THEN win + WindowDays - 1 ELSE gap[2]

FetchWindow ==
    /\ pc = "window" /\ win <= gap[2] /\ resp = NoBars
    /\ resp' = [d \in Day |-> IF d \in win .. WindowEnd THEN source[d] ELSE 0]
    /\ seen' = [d \in Day |-> IF d \in win .. WindowEnd THEN source[d] ELSE seen[d]]
    /\ win' = WindowEnd + 1
    /\ UNCHANGED <<clock, open, source, store, covered, pc, job, todo, gap>>

IsFirstMonth(m) ==
    /\ \E d \in Day : resp[d] > 0 /\ MonthOf(d) = m
    /\ \A d \in Day : resp[d] > 0 => m <= MonthOf(d)

\* Mutant: only the first month of the window is stored.
UpsertFirstMonthOnly(m) ==
    /\ pc = "window" /\ IsFirstMonth(m)
    /\ store' = [d \in Day |-> IF MonthOf(d) = m THEN Larger(store[d], resp[d]) ELSE store[d]]
    /\ resp' = NoBars
    /\ UNCHANGED <<clock, open, source, covered, pc, job, todo, gap, win, seen>>

\* _upsert_month: the window's rows merged into one month file.
UpsertMonth(m) ==
    /\ pc = "window" /\ IsFirstMonth(m)
    /\ store' = [d \in Day |-> IF MonthOf(d) = m THEN Larger(store[d], resp[d]) ELSE store[d]]
    /\ resp' = [d \in Day |-> IF MonthOf(d) = m THEN 0 ELSE resp[d]]
    /\ UNCHANGED <<clock, open, source, covered, pc, job, todo, gap, win, seen>>

\* The whole gap is claimed, ok or empty, once its last window is stored.
RecordGap ==
    /\ pc = "window" /\ resp = NoBars /\ win > gap[2]
    /\ covered' = covered \cup (gap[1] .. gap[2])
    /\ todo' = todo \ (gap[1] .. gap[2])
    /\ pc' = "gaps"
    /\ UNCHANGED <<clock, open, source, store, job, gap, win, resp, seen>>

Finish ==
    /\ pc = "gaps" /\ todo = {}
    /\ pc' = "done"
    /\ UNCHANGED <<clock, open, source, store, covered, job, todo, gap, win, resp, seen>>

Leave ==
    /\ pc' = "idle" /\ job' = NoJob
    /\ todo' = {} /\ gap' = <<0, 0>> /\ win' = 0 /\ resp' = NoBars
    /\ seen' = [d \in Day |-> -1]

\* Retries exhausted: the exception leaves the read-through, the gap unrecorded.
FetchFails ==
    /\ pc = "window" /\ win <= gap[2] /\ resp = NoBars
    /\ Leave
    /\ UNCHANGED <<clock, open, source, store, covered>>

\* The process is killed, between two month files for instance.
Crash ==
    /\ pc # "idle"
    /\ Leave
    /\ UNCHANGED <<clock, open, source, store, covered>>

Next ==
    \/ NextDay
    \/ SessionEnds
    \/ \E d \in Day : BarsArrive(d)
    \/ \E lo, hi \in Day, forced \in BOOLEAN : Begin(lo, hi, forced)
    \/ Plan
    \/ \E lo, hi \in Day : NextGap(lo, hi)
    \/ FetchWindow
    \/ \E m \in Day : UpsertMonth(m)
    \/ RecordGap
    \/ Finish
    \/ FetchFails
    \/ Crash

Spec == Init /\ [][Next]_vars
-----------------------------------------------------------------------------
(***************************************************************************)
(* Safety.                                                                 *)
(***************************************************************************)
\* A claim is earned: every day of it was asked for, and the bars of the answers
\* are on disk, whatever window failed or month file a kill interrupted before.
ClaimsAreEarned ==
    [][\A d \in covered' \ covered : seen[d] >= 0 /\ store[d] >= seen[d]]_covered

\* A covered day, which only force_refresh asks for again, has all its bars.
CoveredIsComplete == \A d \in covered : store[d] = source[d]

\* A read that returned has every bar the vendor served when it began.
ReadIsComplete ==
    pc = "done" => \A d \in job.lo .. job.hi : store[d] >= job.base[d]

\* A re-fetched window, after a failed run too, never drops bars already stored.
BarsAreKept == [][\A d \in Day : store'[d] >= store[d]]_store
=============================================================================
