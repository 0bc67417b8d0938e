------------------------------ MODULE ExecBasis ------------------------------
(***************************************************************************)
(* The execution return basis of a factor evaluation: the artifact of      *)
(* adjusted execution prices (qt/exec_forward_returns), its sanity check   *)
(* (qt/exec_basis_sanity), and the evaluations that share it and write     *)
(* reports and registry records (qt/exec_basis_eval, factor_eval_runner).  *)
(*                                                                         *)
(* The symbols of the grid never meet; the model follows one of them, and  *)
(* the other symbols have a row on every date, so the grid of the artifact *)
(* key does not move.  While evaluations run, one after the other, the     *)
(* minute cache is warmed and the daily panel is reloaded from a cache     *)
(* that moves too.  A process can be killed between any two writes.        *)
(***************************************************************************)
EXTENDS Integers, FiniteSets, FiniteSetsExt

CONSTANTS
    Factors,
    CutoffSafe,        \* the factors not on the measured list NOT_DECISION_CUTOFF_SAFE
    LastDate,          \* the evaluation grid is 1..LastDate
    Minutes,           \* one-minute slots of the execution window
    Horizon,           \* the spec's forward_return_horizon
    HandRows,          \* HAND_CHECK_ROWS
    MaxOdd,            \* bound: dates with irregular inputs at the start
    MaxRuns,           \* bound: evaluations
    MaxEvents,         \* bound: changes of the caches
    MaxKills,          \* bound: kills
    None

Dates == 1 .. LastDate

(* The price frames: a row for some of the dates.                          *)
Rows == [raw : Nat, adj : {0, 1, 2}, status : {"ok", "no_bar", "bad_vwap", "bad_adj_factor"}]
Frames == UNION {[dates -> Rows] : dates \in SUBSET Dates}

ExecAssumption ==
    /\ CutoffSafe \subseteq Factors
    /\ {LastDate, Minutes, Horizon} \subseteq Nat \ {0}
    /\ {HandRows, MaxOdd, MaxRuns, MaxEvents, MaxKills} \subseteq Nat
    /\ None \notin [frame : Frames, described : BOOLEAN] /\ None \notin Nat \X Nat

Slots == 1 .. Minutes

(* What one minute slot holds: no bar, a bar in which nothing traded, or a *)
(* bar with volume and amount.                                             *)
Bars == [Slots -> {"missing", "dry", "traded"}]

(* The daily row of a date: none, or its raw adj_factor; 0 stands for a    *)
(* factor that is absent, NaN or not positive.                             *)
Adjs == {None, 0, 1, 2}

Regular == [m \in Slots |-> "traded"]

VARIABLES
    minute, daily,        \* the caches
    artifact,             \* the price frame on disk and whether its .json exists
    reports,              \* the reports on disk, by factor and stem suffix
    log,                  \* the registry records: <<factor, book mode>>
    pc, factor, mode,     \* the evaluation in progress
    panel,                \* the daily panel it loaded
    frame,                \* the prices it scores against
    hand,                 \* what the hand recomputation said
    runs, events, kills   \* bounds

vars == <<minute, daily, artifact, reports, log, pc, factor, mode, panel, frame,
          hand, runs, events, kills>>
run == <<factor, mode, panel, frame, hand>>

-----------------------------------------------------------------------------
(* One execution price.                                                    *)

(* resolve_fill: the EARLIEST bar of the window, and no other.             *)
Selected(bars) == {m \in Slots : bars[m] # "missing" /\
                                 \A n \in Slots : bars[n] # "missing" => m <= n}

(* A bar is priced at amount / volume; distinct bars have distinct prices. *)
Vwap(d, m) == d * d + m

(* A mutant: a dry bar is skipped and the next one is priced.              *)
NextTraded(bars, d) ==
    LET at == {m \in Slots : bars[m] = "traded"}
    IN  IF at = {} THEN 0 ELSE Vwap(d, Min(at))

(* The raw price of a date, 0 when it is undefined, and the reason why.    *)
RawPrice(bars, d) ==
    LET at == Selected(bars)
    IN  IF \E m \in at : bars[m] = "traded" THEN Vwap(d, CHOOSE m \in at : TRUE) ELSE 0

MissReason(bars) == IF Selected(bars) = {} THEN "no_bar" ELSE "bad_vwap"

(* _assemble: the panel's own rows, each priced or classified.             *)
Row(bars, d, adj) ==
    LET raw == RawPrice(bars, d)
    IN  [raw |-> raw,
         adj |-> adj,
         status |-> IF raw = 0 THEN MissReason(bars)
                    ELSE IF adj = 0 THEN "bad_adj_factor" ELSE "ok"]

RowsOf(p) == {d \in Dates : p[d] # None}

Assemble(p, bars) == [d \in RowsOf(p) |-> Row(bars[d], d, p[d])]

AdjPrice(row) == IF row.status = "ok" THEN row.raw * row.adj ELSE 0

-----------------------------------------------------------------------------
(* Forward returns: h positions later among the symbol's own rows.  A      *)
(* return is the pair <<exit price, entry price>>, or None.                *)

Exit(rows, d) == {e \in rows : e > d /\ Cardinality({x \in rows : d < x /\ x <= e}) = Horizon}

Return(price, d) ==
    LET at == Exit(DOMAIN price, d)
    IN  IF price[d] > 0 /\ \E e \in at : price[e] > 0
          THEN <<price[CHOOSE e \in at : TRUE], price[d]>> ELSE None

ExecReturns(f) ==
    LET price == [d \in DOMAIN f |-> AdjPrice(f[d])]
    IN  [d \in DOMAIN f |-> Return(price, d)]

(* close_to_close exists wherever the panel has a row and its h-th next.   *)
CloseMeasurable(p, d) == p[d] # None /\ Exit(RowsOf(p), d) # {}

(* coverage_loss: a lost pair is charged to its entry anchor if that is    *)
(* not ok, otherwise to its exit anchor; what is left is unattributed.     *)
Lost(f, p) == {d \in DOMAIN f : CloseMeasurable(p, d) /\ ExecReturns(f)[d] = None}

(* A mutant: the exit anchor is looked up on the next date of the grid.    *)
CauseByDate(f, d) ==
    LET exits == {f[e].status : e \in DOMAIN f \cap {d + Horizon}}
    IN  IF f[d].status # "ok" THEN f[d].status
        ELSE IF exits = {} THEN "unattributed" ELSE CHOOSE s \in exits : TRUE

Cause(f, d) ==
    LET exits == {f[e].status : e \in Exit(DOMAIN f, d)}
    IN  IF f[d].status # "ok" THEN f[d].status
        ELSE IF exits = {} THEN "unattributed" ELSE CHOOSE s \in exits : TRUE

Coverage(f, p) == [d \in Lost(f, p) |-> Cause(f, d)]

-----------------------------------------------------------------------------
(* check_exec_basis: sampled returns are recomputed from the bars that are *)
(* in the minute cache NOW, with the factors of the frame.                 *)

Finite(f) == {d \in DOMAIN f : ExecReturns(f)[d] # None}

Samples(f) ==
    LET n == Cardinality(Finite(f))
    IN  kSubset(IF n < HandRows THEN n ELSE HandRows, Finite(f))

HandPrice(f, d) == RawPrice(minute[d], d) * f[d].adj

(* "undefined" is the NaN of a recomputation without a price.  It makes    *)
(* the worst difference infinite.                                          *)
HandCheck(f, d) ==
    LET e == CHOOSE x \in Exit(DOMAIN f, d) : TRUE
        r == ExecReturns(f)[d]
    IN  IF HandPrice(f, d) = 0 \/ HandPrice(f, e) = 0 THEN "undefined"
        ELSE IF HandPrice(f, e) * r[2] = HandPrice(f, d) * r[1] THEN "agrees"
        ELSE "differs"

(* The run is refused when the worst difference is finite and too large:   *)
(* an infinite one, from any sampled row, hides the others.                *)
Refused(outcomes) == "differs" \in outcomes /\ "undefined" \notin outcomes

-----------------------------------------------------------------------------
Init ==
    /\ daily \in {p \in [Dates -> Adjs] :
                    Cardinality({d \in Dates : p[d] # 1}) <= MaxOdd}
    /\ minute \in {b \in [Dates -> Bars] :
                    Cardinality({d \in Dates : b[d] # Regular}) <= MaxOdd}
    /\ artifact = None /\ reports = [n \in {} |-> None] /\ log = {}
    /\ pc = "idle" /\ factor = None /\ mode = None /\ panel = None /\ frame = None
    /\ hand = {} /\ runs = 0 /\ events = 0 /\ kills = 0

(* The evaluation is over, or refused, or killed.                          *)
Ends ==
    /\ pc' = "idle" /\ factor' = None /\ mode' = None /\ panel' = None
    /\ frame' = None /\ hand' = {}

(* run_factor_eval f --book-mode m.  exec_identity refuses a factor whose  *)
(* own values are on the close view, before any price is built.            *)
Start(f, m) ==
    /\ pc = "idle" /\ runs < MaxRuns
    /\ f \in CutoffSafe
    /\ runs' = runs + 1
    /\ factor' = f /\ mode' = m /\ panel' = daily
    /\ pc' = "prices"
    /\ UNCHANGED <<minute, daily, artifact, reports, log, frame, hand, events, kills>>

(* A mutant: every evaluation rebuilds.                                    *)
NeverReused == FALSE

Exists == artifact # None

Reuse ==
    /\ pc = "prices" /\ Exists
    /\ frame' = artifact.frame
    /\ pc' = "check"
    /\ UNCHANGED <<minute, daily, artifact, reports, log, factor, mode, panel, hand,
                   runs, events, kills>>

(* The frame is replaced in one step; its .json is written after it.       *)
Build ==
    /\ pc = "prices" /\ ~Exists
    /\ frame' = Assemble(panel, minute)
    /\ artifact' = [frame |-> frame', described |-> FALSE]
    /\ pc' = "describe"
    /\ UNCHANGED <<minute, daily, reports, log, factor, mode, panel, hand, runs,
                   events, kills>>

Describe ==
    /\ pc = "describe"
    /\ artifact' = [artifact EXCEPT !.described = TRUE]
    /\ pc' = "check"
    /\ UNCHANGED <<minute, daily, reports, log, run, runs, events, kills>>

(* The sample is fixed by a seed and unknown here.                         *)
Check ==
    /\ pc = "check"
    /\ \E sample \in Samples(frame) :
         LET outcomes == {HandCheck(frame, d) : d \in sample}
         IN  IF Refused(outcomes) THEN Ends
             ELSE /\ hand' = outcomes /\ pc' = "no_book"
                  /\ UNCHANGED <<factor, mode, panel, frame>>
    /\ UNCHANGED <<minute, daily, artifact, reports, log, runs, events, kills>>

(* The correlation with close_to_close is below its floor: raised too.     *)
Disagrees ==
    /\ pc = "check" /\ Ends
    /\ UNCHANGED <<minute, daily, artifact, reports, log, runs, events, kills>>

(* A mutant: both book modes write the legacy name.                        *)
LegacySuffix(m) == "with_book"

Suffix(m) == IF m = "close" THEN "with_book_bookclose" ELSE "with_book"

Report(b) == [book |-> b, returns |-> ExecReturns(frame), rows |-> RowsOf(panel),
              coverage |-> Coverage(frame, panel), hand |-> hand]

Write(name, b) ==
    LET file == <<factor, name>>
    IN  reports' = [n \in (DOMAIN reports) \cup {file} |->
                      IF n = file THEN Report(b) ELSE reports[n]]

WriteNoBook ==
    /\ pc = "no_book"
    /\ Write("no_book", None)
    /\ pc' = "with_book"
    /\ UNCHANGED <<minute, daily, artifact, log, run, runs, events, kills>>

WriteWithBook ==
    /\ pc = "with_book"
    /\ Write(Suffix(mode), mode)
    /\ pc' = "register"
    /\ UNCHANGED <<minute, daily, artifact, log, run, runs, events, kills>>

(* append_run, the last step.                                              *)
Register ==
    /\ pc = "register"
    /\ log' = log \cup {<<factor, mode>>}
    /\ Ends
    /\ UNCHANGED <<minute, daily, artifact, reports, runs, events, kills>>

Kill ==
    /\ pc # "idle" /\ kills < MaxKills
    /\ kills' = kills + 1 /\ Ends
    /\ UNCHANGED <<minute, daily, artifact, reports, log, runs, events>>

(* A warming job stores a bar that was missing.                            *)
WarmMinutes(d, m, bar) ==
    /\ events < MaxEvents /\ minute[d][m] = "missing"
    /\ events' = events + 1
    /\ minute' = [minute EXCEPT ![d][m] = bar]
    /\ UNCHANGED <<daily, artifact, reports, log, pc, run, runs, kills>>

(* The vendor revises a factor, or a daily row appears.                    *)
WarmDaily(d, adj) ==
    /\ events < MaxEvents /\ daily[d] # adj
    /\ events' = events + 1
    /\ daily' = [daily EXCEPT ![d] = adj]
    /\ UNCHANGED <<minute, artifact, reports, log, pc, run, runs, kills>>

Next ==
    \/ \E f \in Factors, m \in {"decision", "close"} : Start(f, m)
    \/ Reuse \/ Build \/ Describe \/ Check \/ Disagrees
    \/ WriteNoBook \/ WriteWithBook \/ Register \/ Kill
    \/ \E d \in Dates, m \in Slots, bar \in {"dry", "traded"} : WarmMinutes(d, m, bar)
    \/ \E d \in Dates, adj \in Adjs \ {None} : WarmDaily(d, adj)

Spec == Init /\ [][Next]_vars

-----------------------------------------------------------------------------
(* The factor family is scored against one return series: all reports on   *)
(* disk agree, whatever the caches did between the evaluations.            *)
FamilyIsComparable ==
    \A n, k \in DOMAIN reports : reports[n].returns = reports[k].returns

(* A close-book evaluation leaves the decision-book reports alone, in      *)
(* either order.                                                           *)
BookReportsSurvive ==
    \A n \in DOMAIN reports :
      reports[n].book = (CASE n[2] = "no_book" -> None
                           [] n[2] = "with_book" -> "decision"
                           [] OTHER -> "close")

(* While the panel still has the artifact's rows, every lost pair is       *)
(* charged to one cause, and an anchor of the pair really has that cause.  *)
LossIsExplained ==
    \A n \in DOMAIN reports :
      LET r == reports[n]
      IN  Exists /\ r.rows = DOMAIN artifact.frame =>
            \A d \in DOMAIN r.coverage :
              \E e \in {d} \cup Exit(r.rows, d) :
                r.coverage[d] = artifact.frame[e].status /\ r.coverage[d] # "ok"

(* A return is the adjusted price of the FIRST bar of the window at both   *)
(* anchors, as the cache held it at one instant; a minute without trades   *)
(* has no price, and no other price takes its place.                       *)
NoPriceIsSubstituted ==
    Exists => \A d \in DOMAIN artifact.frame :
                artifact.frame[d].raw > 0 =>
                  \E m \in Slots :
                    /\ artifact.frame[d].raw = Vwap(d, m)
                    /\ \A k \in 1 .. (m - 1) : minute[d][k] # "dry" \/ events > 0

(* A record in the registry has its reports on disk.                       *)
RecordsHaveReports ==
    \A rec \in log : {<<rec[1], "no_book">>, <<rec[1], Suffix(rec[2])>>} \subseteq DOMAIN reports

EvaluationsAgree ==
    /\ FamilyIsComparable /\ BookReportsSurvive /\ LossIsExplained
    /\ NoPriceIsSubstituted /\ RecordsHaveReports

=============================================================================
