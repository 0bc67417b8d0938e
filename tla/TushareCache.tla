----------------------------- MODULE TushareCache -----------------------------
(***************************************************************************)
(* The dense read-through cache of data/cache/tushare_cache.py for ONE     *)
(* endpoint (market_daily, adj_factor, ..., fina_indicator): processes ask *)
(* for a window of days, fetch only the days the coverage ledger does not  *)
(* claim plus the recent tail, store the rows, and record the coverage.    *)
(*                                                                         *)
(* A process runs one of the programs that build the cache.  The nightly   *)
(* updater and the backfill pin today, ask for days up to it and set a     *)
(* pending window (qt/data_updater.py); a research run leaves both out: it *)
(* reads the clock and may ask for days to come (qt/pipeline.py).          *)
(*                                                                         *)
(* A row is abstracted to the VERSION the vendor serves for (symbol, day): *)
(* 0 is "no row", a later version is a revision of the same natural key.   *)
(* The ledger is abstracted to the set of (symbol, day) pairs its ok and   *)
(* empty rows claim; interval arithmetic is the subject of Intervals.tla.  *)
(***************************************************************************)
EXTENDS Integers, FiniteSets

CONSTANTS
    Proc,          \* processes sharing one cache root
    Symbol,        \* keys of the endpoint
    LastDay,       \* bound: the last day the clock reaches
    MaxVersion,    \* bound: revisions of a row
    MaxRevised,    \* bound: rows the vendor ever revises
    PublishLag,    \* vendor: a row appears at most this many days after its day
    RevisionDays,  \* vendor: a row changes at most this many days after its day
    RefreshDays,   \* refresh_recent_days
    Program,       \* the programs that build a TushareCache
    Live,          \* those that read the clock instead of pinning today: research
    NotReadyDays,  \* not_ready_days of each program (1 updater and backfill, 0 research)
    MaxRunDays,    \* bound: a process pins today at most this long ago
    TailOverride,  \* recent_tail_overrides[endpoint], or NoOverride
    MayForce,      \* may a run list the endpoint in force_refresh?
    NoOverride,    \* the endpoint has no entry in recent_tail_overrides
    NoSymbol       \* no symbol is being served

ASSUME CacheAssumption ==
    /\ LastDay \in Nat /\ MaxVersion \in Nat \ {0} /\ MaxRevised \in Nat
    /\ PublishLag \in Nat /\ RevisionDays \in Nat
    /\ RefreshDays \in Nat /\ NotReadyDays \in [Program -> Nat] /\ MaxRunDays \in Nat
    /\ TailOverride \in Int \cup {NoOverride} /\ NoOverride \notin Int
    /\ MayForce \in BOOLEAN
    /\ Live \subseteq Program /\ \A k \in Live : NotReadyDays[k] = 0
    /\ NoSymbol \notin Symbol

VARIABLES
    clock,    \* today's date
    source,   \* what the vendor would answer now: symbol, day -> version
    store,    \* the symbol parquets: symbol, day -> version stored
    ledger,   \* coverage.parquet: the (symbol, day) pairs ok/empty rows claim
    frame,    \* CoverageLedger._frame of each process
    fresh,    \* does _frame_mtime match the file's mtime?
    program,  \* the program each process runs
    pc,       \* where each process stands in _read_through
    job,      \* the request each process serves
    todo,     \* days of the current symbol still to fetch
    gap,      \* the gap being fetched: <<first day, last day>>
    resp,     \* the response to the gap: day -> version
    early,    \* history: days answered without a row that may still get one
    acked,    \* history: what was recorded of a cell: -1 nothing, 0 no row, 1 a row
    frozen    \* history: cells recorded that early by a program without pending days

ledgerVars == <<ledger, frame, fresh>>
historyVars == <<acked, frozen>>
vars == <<clock, source, store, ledgerVars, program, pc, job, todo, gap, resp, early,
          historyVars>>

Day      == 0 .. LastDay
Version  == 0 .. MaxVersion
Cell     == Symbol \X Day
NoRows   == [d \in Day |-> 0]
Phase    == {"idle", "plan", "fetch", "upsert", "record", "replace", "stat", "done"}
Job      == [today : Day, lo : Day, hi : Day, forced : BOOLEAN,
             asked : SUBSET Symbol, left : SUBSET Symbol,
             symbol : Symbol \cup {NoSymbol}, base : [Symbol -> [Day -> Version]]]

TypeOK ==
    /\ clock \in Day
    /\ source \in [Symbol -> [Day -> Version]]
    /\ store \in [Symbol -> [Day -> Version]]
    /\ ledger \subseteq Cell
    /\ frame \in [Proc -> SUBSET Cell]
    /\ fresh \in [Proc -> BOOLEAN]
    /\ program \in [Proc -> Program]
    /\ pc \in [Proc -> Phase]
    /\ job \in [Proc -> Job]
    /\ todo \in [Proc -> SUBSET Day]
    /\ gap \in [Proc -> Day \X Day]
    /\ resp \in [Proc -> [Day -> Version]]
    /\ early \in [Proc -> SUBSET Day]
    /\ acked \in [Symbol -> [Day -> {-1, 0, 1}]]
    /\ frozen \subseteq Cell

NoJob == [today |-> 0, lo |-> 0, hi |-> 0, forced |-> FALSE,
          asked |-> {}, left |-> {}, symbol |-> NoSymbol,
          base |-> [s \in Symbol |-> NoRows]]

Init ==
    /\ clock = 0
    /\ source = [s \in Symbol |-> NoRows]
    /\ store = [s \in Symbol |-> NoRows]
    /\ ledger = {}
    /\ frame = [p \in Proc |-> {}]
    /\ fresh = [p \in Proc |-> FALSE]
    /\ program \in [Proc -> Program]
    /\ pc = [p \in Proc |-> "idle"]
    /\ job = [p \in Proc |-> NoJob]
    /\ todo = [p \in Proc |-> {}]
    /\ gap = [p \in Proc |-> <<0, 0>>]
    /\ resp = [p \in Proc |-> NoRows]
    /\ early = [p \in Proc |-> {}]
    /\ acked = [s \in Symbol |-> [d \in Day |-> -1]]
    /\ frozen = {}
-----------------------------------------------------------------------------
(***************************************************************************)
(* The environment: the calendar and the vendor.                           *)
(***************************************************************************)
procVars == <<program, pc, job, todo, gap, resp, early>>

Tick ==
    /\ clock < LastDay
    /\ clock' = clock + 1
    /\ UNCHANGED <<source, store, ledgerVars, procVars, historyVars>>

\* A row appears on its day or at most PublishLag days later, or never.
Publish(s, d) ==
    /\ source[s][d] = 0
    /\ d <= clock /\ clock <= d + PublishLag
    /\ source' = [source EXCEPT ![s][d] = 1]
    /\ UNCHANGED <<clock, store, ledgerVars, procVars, historyVars>>

\* The vendor corrects a row it already serves.
Revise(s, d) ==
    /\ source[s][d] \in 1 .. MaxVersion - 1
    /\ clock <= d + RevisionDays
    /\ Cardinality({c \in Cell : source[c[1]][c[2]] > 1} \cup {<<s, d>>}) <= MaxRevised
    /\ source' = [source EXCEPT ![s][d] = @ + 1]
    /\ UNCHANGED <<clock, store, ledgerVars, procVars, historyVars>>
-----------------------------------------------------------------------------
\* _recent_tail: the days within refresh_recent_days of today.
RecentTail(j) ==
    {d \in j.lo .. j.hi : RefreshDays > 0 /\ d >= j.today - RefreshDays}

\* _tail_for: a per-endpoint override counts back from the END of the request.
TailFor(j) ==
    IF TailOverride = NoOverride
      THEN RecentTail(j)
      ELSE {d \in j.lo .. j.hi : d > j.hi - TailOverride}

\* Mutant: only the uncovered days.
GapsWithoutTail(j, s, covered) == {d \in j.lo .. j.hi : <<s, d>> \notin covered}

\* _gaps_for: the whole request when forced, else uncovered days and the tail.
GapsFor(j, s, covered) ==
    IF j.forced
      THEN j.lo .. j.hi
      ELSE {d \in j.lo .. j.hi : <<s, d>> \notin covered} \cup TailFor(j)

\* The first maximal run of consecutive days of a planned set.
IsFirstGap(days, lo, hi) ==
    /\ lo <= hi
    /\ \A d \in lo .. hi : d \in days
    /\ hi + 1 \notin days
    /\ \A d \in days : lo <= d

(***************************************************************************)
(* The coverage a fetched gap earns.  From _pending_start on, a day may    *)
(* not be published yet: that part is recorded not_ready, which claims     *)
(* nothing, unless the response has a row in it.                           *)
(***************************************************************************)
PendingDays(p)  == NotReadyDays[program[p]]
PendingStart(p) == job[p].today - (PendingDays(p) - 1)

\* Mutants: no pending window; a gap before the pending window not told apart.
SpanCoverage(p) == gap[p][1] .. gap[p][2]
SettledCoverage(p) == {d \in Day : gap[p][1] <= d /\ d < PendingStart(p)}

GapCoverage(p) ==
    LET span    == gap[p][1] .. gap[p][2]
        pending == {d \in Day : PendingStart(p) <= d /\ d <= gap[p][2]}
        settled == {d \in span : d < PendingStart(p)}
    IN  IF PendingDays(p) = 0 \/ gap[p][2] < PendingStart(p) THEN span
        ELSE IF \E d \in pending : resp[p][d] > 0 THEN settled \cup pending
        ELSE settled

\* CoverageLedger._load: re-read only when the file's mtime moved.
Loaded(p) == IF fresh[p] THEN frame[p] ELSE ledger

Load(p) ==
    /\ frame' = [frame EXCEPT ![p] = Loaded(p)]
    /\ fresh' = [fresh EXCEPT ![p] = TRUE]
    /\ UNCHANGED ledger
-----------------------------------------------------------------------------
(***************************************************************************)
(* _read_through, serial: symbol by symbol, gap by gap.                    *)
(***************************************************************************)
Begin(p, symbols, today, lo, hi, forced) ==
    /\ pc[p] \in {"idle", "done"}
    /\ symbols # {} /\ lo <= hi
    /\ IF program[p] \in Live
         THEN today = clock
         ELSE hi <= today /\ today <= clock /\ clock <= today + MaxRunDays
    /\ forced => MayForce
    /\ pc' = [pc EXCEPT ![p] = "plan"]
    /\ job' = [job EXCEPT ![p] =
                 [today |-> today, lo |-> lo, hi |-> hi, forced |-> forced,
                  asked |-> symbols, left |-> symbols, symbol |-> NoSymbol,
                  base |-> [s \in Symbol |-> [d \in Day |->
                              IF s \in symbols /\ d \in lo .. hi THEN source[s][d] ELSE 0]]]]
    /\ UNCHANGED <<clock, source, store, ledgerVars, program, todo, gap, resp, early,
                   historyVars>>

\* The job as a symbol of it is planned: a live program reads the clock again.
Planned(p, s) ==
    [job[p] EXCEPT !.symbol = s, !.left = @ \ {s},
                   !.today = IF program[p] \in Live THEN clock ELSE @]

Plan(p, s) ==
    /\ pc[p] = "plan" /\ s \in job[p].left
    /\ Load(p)
    /\ job' = [job EXCEPT ![p] = Planned(p, s)]
    /\ todo' = [todo EXCEPT ![p] = GapsFor(Planned(p, s), s, Loaded(p))]
    /\ pc' = [pc EXCEPT ![p] = "fetch"]
    /\ UNCHANGED <<clock, source, store, program, gap, resp, early, historyVars>>

\* The vendor answers the gap [lo, hi] (after retries, see RateLimiter.tla).
Fetch(p, lo, hi) ==
    /\ pc[p] = "fetch" /\ IsFirstGap(todo[p], lo, hi)
    /\ gap' = [gap EXCEPT ![p] = <<lo, hi>>]
    /\ resp' = [resp EXCEPT ![p] =
                  [d \in Day |-> IF d \in lo .. hi THEN source[job[p].symbol][d] ELSE 0]]
    /\ early' = [early EXCEPT ![p] =
                   {d \in lo .. hi : source[job[p].symbol][d] = 0 /\ clock <= d + PublishLag}]
    /\ pc' = [pc EXCEPT ![p] = "upsert"]
    /\ UNCHANGED <<clock, source, store, ledgerVars, program, job, todo, historyVars>>

\* The call's locals are gone.
Leave(p) ==
    /\ pc' = [pc EXCEPT ![p] = "idle"]
    /\ job' = [job EXCEPT ![p] = NoJob]
    /\ todo' = [todo EXCEPT ![p] = {}]
    /\ gap' = [gap EXCEPT ![p] = <<0, 0>>]
    /\ resp' = [resp EXCEPT ![p] = NoRows]
    /\ early' = [early EXCEPT ![p] = {}]

\* Mutant: a failed symbol is skipped instead of raised.
FetchSkips(p) ==
    /\ pc[p] = "fetch" /\ todo[p] # {}
    /\ todo' = [todo EXCEPT ![p] = {}]
    /\ UNCHANGED <<clock, source, store, ledgerVars, program, pc, job, gap, resp, early,
                   historyVars>>

\* Retries exhausted: the exception leaves _read_through, nothing is recorded.
FetchFails(p) ==
    /\ pc[p] = "fetch" /\ todo[p] # {}
    /\ Leave(p)
    /\ UNCHANGED <<clock, source, store, ledgerVars, program, historyVars>>

\* upsert_symbol: new rows win on their natural key, nothing else is touched.
Upsert(p) ==
    /\ pc[p] = "upsert"
    /\ store' = [store EXCEPT ![job[p].symbol] =
                   [d \in Day |-> IF resp[p][d] > 0 THEN resp[p][d] ELSE @[d]]]
    /\ pc' = [pc EXCEPT ![p] = "record"]
    /\ UNCHANGED <<clock, source, ledgerVars, program, job, todo, gap, resp, early,
                   historyVars>>

\* record_many reads the existing ledger ...
RecordLoad(p) ==
    /\ pc[p] = "record"
    /\ Load(p)
    /\ pc' = [pc EXCEPT ![p] = "replace"]
    /\ UNCHANGED <<clock, source, store, program, job, todo, gap, resp, early, historyVars>>

\* ... and replaces the file by what it read plus the new rows, unlocked.
RecordReplace(p) ==
    LET s    == job[p].symbol
        span == gap[p][1] .. gap[p][2]
        rows == frame[p] \cup ({s} \X GapCoverage(p))
    IN  /\ pc[p] = "replace"
        /\ ledger' = rows
        /\ frame' = [frame EXCEPT ![p] = rows]
        /\ fresh' = [q \in Proc |-> FALSE]
        /\ acked' = [acked EXCEPT ![s] =
                       [d \in Day |-> IF d \notin span THEN @[d]
                                      ELSE IF resp[p][d] > 0 \/ @[d] = 1 THEN 1 ELSE 0]]
        /\ frozen' = (frozen \ ({s} \X (span \ early[p])))
                        \cup (IF PendingDays(p) = 0 THEN {s} \X early[p] ELSE {})
        /\ pc' = [pc EXCEPT ![p] = "stat"]
        /\ UNCHANGED <<clock, source, store, program, job, todo, gap, resp, early>>

\* The mtime is read AFTER the replace, whoever wrote the file last.
RecordStat(p) ==
    /\ pc[p] = "stat"
    /\ fresh' = [fresh EXCEPT ![p] = TRUE]
    /\ todo' = [todo EXCEPT ![p] = @ \ (gap[p][1] .. gap[p][2])]
    /\ gap' = [gap EXCEPT ![p] = <<0, 0>>]
    /\ resp' = [resp EXCEPT ![p] = NoRows]
    /\ early' = [early EXCEPT ![p] = {}]
    /\ pc' = [pc EXCEPT ![p] = "fetch"]
    /\ UNCHANGED <<clock, source, store, ledger, frame, program, job, historyVars>>

\* No gap left: read back the symbol; after the last symbol, return.
SymbolDone(p) ==
    /\ pc[p] = "fetch" /\ todo[p] = {}
    /\ pc' = [pc EXCEPT ![p] = IF job[p].left = {} THEN "done" ELSE "plan"]
    /\ UNCHANGED <<clock, source, store, ledgerVars, program, job, todo, gap, resp, early,
                   historyVars>>

\* The process ends or is killed anywhere; the next one, of whatever program,
\* builds a new ledger.
Crash(p) ==
    /\ Leave(p)
    /\ \E k \in Program : program' = [program EXCEPT ![p] = k]
    /\ frame' = [frame EXCEPT ![p] = {}]
    /\ fresh' = [fresh EXCEPT ![p] = FALSE]
    /\ UNCHANGED <<clock, source, store, ledger, historyVars>>

Work(p) ==
    \/ \E s \in Symbol : Plan(p, s)
    \/ \E lo, hi \in Day : Fetch(p, lo, hi)
    \/ Upsert(p)
    \/ RecordLoad(p)
    \/ RecordReplace(p)
    \/ RecordStat(p)
    \/ SymbolDone(p)

Vendor == \E s \in Symbol, d \in Day : Publish(s, d) \/ Revise(s, d)

Next ==
    \/ Tick
    \/ Vendor
    \/ \E p \in Proc :
         \/ \E symbols \in SUBSET Symbol, today, lo, hi \in Day, forced \in BOOLEAN :
              Begin(p, symbols, today, lo, hi, forced)
         \/ Work(p)
         \/ FetchFails(p)
         \/ Crash(p)

Spec == Init /\ [][Next]_vars

(***************************************************************************)
(* The nightly updater alone: the 21:00 timer asks for every symbol and    *)
(* the whole lookback.  The timer keeps firing, and a run is not killed at *)
(* the same step, nor refused by the vendor, every single night.           *)
(***************************************************************************)
Nightly(p) == Begin(p, Symbol, clock, 0, clock, FALSE)

NightlyNext ==
    \/ Tick
    \/ Vendor
    \/ \E p \in Proc : Nightly(p) \/ Work(p) \/ FetchFails(p) \/ Crash(p)

NightlySpec ==
    /\ Init /\ [][NightlyNext]_vars
    /\ \A p \in Proc :
         /\ SF_vars(Nightly(p))
         /\ \A s \in Symbol : SF_vars(Plan(p, s))
         /\ SF_vars(\E lo, hi \in Day : Fetch(p, lo, hi))
         /\ SF_vars(Upsert(p)) /\ SF_vars(RecordLoad(p))
         /\ SF_vars(RecordReplace(p)) /\ SF_vars(RecordStat(p))
         /\ SF_vars(SymbolDone(p))
-----------------------------------------------------------------------------
(***************************************************************************)
(* Safety.                                                                 *)
(***************************************************************************)
\* A claim is backed by a fetch whose rows are already on disk: whichever step
\* a crash interrupts, the ledger never claims rows the store lost.
CoverageIsDurable ==
    \A s \in Symbol, d \in Day :
        <<s, d>> \in ledger =>
            /\ acked[s][d] >= 0
            /\ acked[s][d] > 0 => store[s][d] > 0

\* A covered day hides no row the vendor has, with one exception: a program
\* without pending days was told "no row" before the vendor had finished the day.
\* A covered day outside the tail is never asked for again.
CoveredIsComplete ==
    \A s \in Symbol, d \in Day :
        (<<s, d>> \in ledger /\ source[s][d] > 0) => store[s][d] > 0 \/ <<s, d>> \in frozen

\* A read-through that returned has refetched the whole trailing window: what it
\* reads back there is at least as new as what the vendor had when it began.
TailIsFresh ==
    \A p \in Proc : pc[p] = "done" =>
        \A s \in job[p].asked, d \in TailFor(job[p]) :
            store[s][d] >= job[p].base[s][d]

\* The days a call fetches whatever the ledger claims.
Refetched(j) == IF j.forced THEN j.lo .. j.hi ELSE TailFor(j)

\* A read-through that returned holds every row the vendor had when it began: a
\* row frozen out by an earlier program is missing only from the days this call
\* does not refetch, so each call heals what its trailing window reaches.
ReadIsComplete ==
    \A p \in Proc : pc[p] = "done" =>
        \A s \in job[p].asked, d \in job[p].lo .. job[p].hi :
            job[p].base[s][d] > 0 =>
              store[s][d] > 0 \/ (<<s, d>> \in frozen /\ d \notin Refetched(job[p]))

(***************************************************************************)
(* Liveness, under NightlySpec.                                            *)
(***************************************************************************)
\* A row the vendor publishes inside the lookback is eventually on disk, whatever
\* fetches fail, runs are killed or days are recorded not_ready in between.
EventuallyStored ==
    \A s \in Symbol, d \in Day : source[s][d] > 0 ~> store[s][d] > 0

\* The days that stay in the trailing window end up at the vendor's last version.
EventuallyCurrent ==
    \A s \in Symbol, d \in Day :
        d >= LastDay - RefreshDays => <>[](store[s][d] = source[s][d])
=============================================================================
