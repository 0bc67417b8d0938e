-------------------------- MODULE RobustnessMatrix --------------------------
(***************************************************************************)
(* The out-of-sample commands: run-phase3-oos (one cell), -robustness and  *)
(* -subset (universes x windows).  A command validates its configuration,  *)
(* checks its preconditions, runs its cells one after the other, each from *)
(* its own derived configuration, and writes one report.                   *)
(*                                                                         *)
(* A cell is reduced to what its report attributes to a subperiod: which   *)
(* rebalances and which IC days, and the sign of the IC of each factor.    *)
(***************************************************************************)
EXTENDS Integers, FiniteSets, FiniteSetsExt

CONSTANTS
    Commands,            \* a subset of {"oos", "robustness", "subset"}
    Codes, Labels,       \* index codes, and labels of windows
    WindowOf,            \* label -> [start, split, end], also of an unusable one
    Slug,                \* cell -> the suffix of its panel's name; labels may share one
    Factors,             \* the enabled factors
    RawConfigs,          \* what a YAML file may say, legal or not
    Settlements,         \* sets of days: the rebalances a backtest may settle
    SignTables,          \* factor -> subperiod -> the sign of its IC
    Horizons

Subperiods == {"train", "test"}
Signs == {"positive", "negative", "none"}

ASSUME MatrixAssumption ==
    /\ Commands \subseteq {"oos", "robustness", "subset"}
    /\ \A l \in Labels : WindowOf[l] \in [start : Nat, split : Nat, end : Nat]
    /\ \A s \in Settlements : s \subseteq Nat /\ IsFiniteSet(s)
    /\ DOMAIN Slug = Codes \X Labels
    /\ SignTables \subseteq [Factors -> [Subperiods -> Signs]]
    /\ Horizons \subseteq Nat \ {0}
    /\ \A c \in RawConfigs :
           /\ {"source", "model", "code", "own", "oos", "overwrite", "robustness", "subset"}
                = DOMAIN c
           /\ c.overwrite \in BOOLEAN
           /\ c.own \in Labels /\ c.code \in Codes /\ c.robustness.windows \subseteq Labels
           /\ c.subset.minRebalances \in Nat
           /\ \A f \in DOMAIN c.subset.hypotheses : c.subset.hypotheses[f] # "none"

VARIABLES
    command, config, horizon, stage,
    todo,         \* cells still to run
    cells,        \* cell -> what it computed
    panels,       \* panel file -> the cell whose data it holds
    verdicts,     \* cell -> the verdict on its hypotheses
    report        \* the written report, or None

vars == <<command, config, horizon, stage, todo, cells, panels, verdicts, report>>

None == [written |-> FALSE]

-----------------------------------------------------------------------------
(* What the configuration model refuses.                                   *)

Usable(w) == w.start < w.split /\ w.split < w.end

Product(rob) == rob.universes \X rob.windows

ValidRobustness(rob) ==
    /\ rob.universes # {} /\ rob.windows # {}
    /\ \A l \in rob.windows : Usable(WindowOf[l])
    /\ rob.skip \subseteq Product(rob)
    /\ Cardinality(Product(rob)) - Cardinality(rob.skip) >= 1

ValidSubset(sub) ==
    /\ sub.groups # {} /\ {} \notin sub.groups
    /\ \A m \in sub.multipliers : m > 0
    /\ 1 \in sub.multipliers
    /\ sub.minRebalances > 0

GroupsAreEnabled(sub) ==
    /\ UNION sub.groups \subseteq Factors
    /\ DOMAIN sub.hypotheses \subseteq Factors

(* A bug: a holdout cell is looked up in the product, skipped or not.      *)
Declared(c) == c.subset.independent \subseteq Product(c.robustness)

WillRun(c) == c.subset.independent \subseteq Product(c.robustness) \ c.robustness.skip

IndependentCells(c) == c.subset.independent # {} => c.robustness.on /\ WillRun(c)

Valid(c) ==
    /\ c.oos => Usable(WindowOf[c.own])
    /\ c.robustness.on => ValidRobustness(c.robustness)
    /\ c.subset.on => ValidSubset(c.subset) /\ GroupsAreEnabled(c.subset) /\ IndependentCells(c)

(* The preconditions of each command.                                      *)
OosPreconditions(c) == c.source = "tushare" /\ c.oos /\ c.model = "ic_weighted"

Preconditions ==
    /\ OosPreconditions(config)
    /\ command = "robustness" => config.robustness.on
    /\ command = "subset" => config.subset.on /\ config.robustness.on

-----------------------------------------------------------------------------
(* The cells, and the configuration derived for each.                      *)

SkippedCells == IF command = "oos" THEN {} ELSE config.robustness.skip

CellsToRun ==
    IF command = "oos" THEN {<<config.code, config.own>>}
    ELSE Product(config.robustness) \ config.robustness.skip

(* The panel file of a cell.  The suffix is not one to one: a '-' of the   *)
(* label becomes a '_', and labels need only be unique as they are written.*)
(* A bug gives every cell the base name.                                   *)
BaseName(cell) == "daily"

PanelName(cell) == IF command = "oos" THEN "daily" ELSE Slug[cell]

Window(cell) == WindowOf[cell[2]]

-----------------------------------------------------------------------------
(* The two ways a subperiod is cut.                                        *)

(* Rows of the net-value table: each holds until the next settled row.     *)
Unknown == 0

EndOf(row, rows) ==
    LET later == {r \in rows : r > row} IN IF later = {} THEN Unknown ELSE Min(later)

(* A bug: a row belongs to the subperiod of its signal date.               *)
SplitBySignal(rows, split) ==
    [train |-> {r \in rows : r < split}, test |-> {r \in rows : r >= split}, boundary |-> {}]

SplitNavByHolding(rows, split) ==
    LET test == {r \in rows : r >= split}
        train == {r \in rows \ test : EndOf(r, rows) # Unknown /\ EndOf(r, rows) <= split}
    IN  [train |-> train, test |-> test, boundary |-> rows \ (test \cup train)]

(* A bug: the horizon is forgotten.                                        *)
SplitIcByDate(days, split) ==
    [train |-> {t \in days : t < split}, test |-> {t \in days : t >= split}]

IcPeriods(days, split) ==
    [train |-> {t \in days : t + horizon \in days /\ t + horizon < split},
     test |-> {t \in days : t >= split}]

(* The verdict on the preregistered signs.                                 *)
Matches(sign, expected) == sign # "none" /\ sign = expected

Holding(cell, hypotheses) ==
    {f \in DOMAIN hypotheses : \A p \in Subperiods : Matches(cell.sign[f][p], hypotheses[f])}

IndependentVerdict(cell, sub) ==
    LET settled == Cardinality(cell.nav.train) + Cardinality(cell.nav.test)
        holds == Holding(cell, sub.hypotheses)
    IN  IF settled < sub.minRebalances THEN "insufficient"
        ELSE IF DOMAIN sub.hypotheses = {} THEN "no_hypotheses"
        ELSE IF holds = DOMAIN sub.hypotheses THEN "supported"
        ELSE IF holds = {} THEN "not_supported" ELSE "partial"

SignConsistent(sign) == sign["train"] # "none" /\ sign["train"] = sign["test"]

(* The cross-cell summary of some cells, and of each sample class.         *)
Summary(some) ==
    [cells |-> some,
     positive |-> [f \in Factors |-> {c \in some : cells[c].sign[f]["test"] = "positive"}],
     consistent |-> [f \in Factors |-> {c \in some : SignConsistent(cells[c].sign[f])}]]

(* A bug: what is not declared counts as a holdout.                        *)
ClassOfSkipped(cell) == IF cell \in config.robustness.skip THEN "screened" ELSE "independent"

SampleClass(cell) == IF cell \in config.subset.independent THEN "independent" ELSE "screened"

ClassCells(class) == {c \in DOMAIN cells : SampleClass(c) = class}

SummaryBySample == {Summary(ClassCells(k)) : k \in {"independent", "screened"}} \ {Summary({})}

-----------------------------------------------------------------------------

Init ==
    /\ command \in Commands /\ config \in RawConfigs /\ horizon \in Horizons
    /\ stage = "load" /\ todo = {} /\ cells = << >> /\ panels = << >> /\ verdicts = << >>
    /\ report = None

(* load_config and the preconditions come before the first fetch.          *)
Refuse ==
    /\ stage = "load"
    /\ ~(Valid(config) /\ Preconditions)
    /\ stage' = "refused"
    /\ UNCHANGED <<command, config, horizon, todo, cells, panels, verdicts, report>>

Accept ==
    /\ stage = "load"
    /\ Valid(config) /\ Preconditions
    /\ stage' = "cells" /\ todo' = CellsToRun
    /\ UNCHANGED <<command, config, horizon, cells, panels, verdicts, report>>

(* The cell of -oos and -robustness: both models on the same rebalances,   *)
(* every series cut at the cell's own split.                               *)
OosCell(w, rows, sign) ==
    [window |-> w, sign |-> sign,
     nav |-> SplitNavByHolding(rows, w.split), ic |-> IcPeriods(w.start .. w.end, w.split)]

(* The cell of -subset: each group of factors under each fee multiplier;   *)
(* the fee changes no trade, so no row.                                    *)
SubsetCell(w, rows, sign) ==
    [window |-> w, sign |-> sign,
     nav |-> SplitNavByHolding(rows, w.split), ic |-> IcPeriods(w.start .. w.end, w.split),
     groups |-> [g \in config.subset.groups |->
                    [m \in config.subset.multipliers |-> SplitNavByHolding(rows, w.split)]]]

Filed(table, key, entry) ==
    [k \in DOMAIN table \cup {key} |-> IF k = key THEN entry ELSE table[k]]

(* A panel file that is there is replaced, or ends the command (Fail).     *)
RunCell(cell) ==
    /\ stage = "cells" /\ cell \in todo
    /\ config.overwrite \/ PanelName(cell) \notin DOMAIN panels
    /\ LET w == Window(cell) IN
       \E settled \in Settlements, sign \in SignTables :
           LET rows == settled \cap w.start .. w.end IN
           cells' = Filed(cells, cell, IF command = "subset" THEN SubsetCell(w, rows, sign)
                                       ELSE OosCell(w, rows, sign))
    /\ panels' = Filed(panels, PanelName(cell), cell)
    /\ todo' = todo \ {cell}
    /\ UNCHANGED <<command, config, horizon, stage, verdicts, report>>

(* A cell that fails, or a kill, ends the command; the panels stay.        *)
Fail ==
    /\ stage = "cells"
    /\ stage' = "failed"
    /\ UNCHANGED <<command, config, horizon, todo, cells, panels, verdicts, report>>

(* Verdicts exist only for declared holdout cells; the report is last.     *)
Verdicts ==
    IF command # "subset" THEN << >>
    ELSE [c \in ClassCells("independent") |-> IndependentVerdict(cells[c], config.subset)]

Conclude ==
    /\ stage = "cells" /\ todo = {}
    /\ verdicts' = Verdicts
    /\ report' = [written |-> TRUE, cells |-> DOMAIN cells, skipped |-> SkippedCells,
                  summaries |-> IF command = "subset" THEN SummaryBySample
                                ELSE {Summary(DOMAIN cells)}]
    /\ stage' = "done"
    /\ UNCHANGED <<command, config, horizon, todo, cells, panels>>

Next == Refuse \/ Accept \/ (\E cell \in todo : RunCell(cell)) \/ Fail \/ Conclude

Spec == Init /\ [][Next]_vars

-----------------------------------------------------------------------------

(* The days in which a holding from row on earns its return.               *)
Earned(row, rows) == row + 1 .. EndOf(row, rows)

(* No return credited to the train subperiod is earned after the split, on *)
(* any day the test subperiod also counts, and a rebalance is left out of  *)
(* both only when its holding crosses the split or has no known end.       *)
TrainIsPast ==
    \A c \in DOMAIN cells :
        LET nav == cells[c].nav
            rows == nav.train \cup nav.test \cup nav.boundary
            split == Window(c).split
        IN  /\ \A r \in nav.train, x \in rows :
                   /\ \E e \in rows : r < e /\ e <= split
                   /\ x \in nav.test => Earned(r, rows) \cap Earned(x, rows) = {}
            /\ \A r \in nav.boundary :
                   r < split /\ \A e \in rows : r < e => split < e
            /\ \A t \in cells[c].ic.train, x \in cells[c].ic.test : t + horizon < x

(* The panel of a cell is still its own, unless files may be replaced and  *)
(* a cell of the report whose name is the same file came later.            *)
KeepsItsPanel(c) ==
    /\ PanelName(c) \in DOMAIN panels
    /\ \/ panels[PanelName(c)] = c
       \/ /\ config.overwrite
          /\ \E d \in DOMAIN cells \ {c} : Slug[d] = Slug[c] /\ panels[PanelName(c)] = d

(* A written report accounts for every cell of the matrix: each is run or  *)
(* listed as skipped, every declared holdout has its verdict and nothing   *)
(* else has one, holdouts and screened cells are never averaged together,  *)
(* each cell's numbers are those of its own window even where labels share *)
(* a file, and otherwise the panel it stored is still its own.             *)
CellsAreAccounted ==
    report.written =>
        /\ report.cells \cap report.skipped = {}
        /\ command # "oos" =>
               report.cells \cup report.skipped = Product(config.robustness)
        /\ command = "subset" => DOMAIN verdicts = config.subset.independent
        /\ UNION {k.cells : k \in report.summaries} = report.cells
        /\ \A k \in report.summaries : k.cells \cap DOMAIN verdicts \in {{}, k.cells}
        /\ \A c \in report.cells :
               cells[c].window = WindowOf[c[2]] /\ KeepsItsPanel(c)

(* A hypothesis is called supported only on enough rebalances, and when    *)
(* every preregistered sign is seen before and after the split.            *)
VerdictsAreEarned ==
    \A c \in DOMAIN verdicts :
        verdicts[c] \in {"supported", "not_supported", "partial"} =>
            LET h == config.subset.hypotheses IN
            /\ Cardinality(cells[c].nav.train \cup cells[c].nav.test)
                   >= config.subset.minRebalances
            /\ verdicts[c] = "supported" <=>
                   \A f \in DOMAIN h, p \in Subperiods : cells[c].sign[f][p] = h[f]
            /\ verdicts[c] = "supported" =>
                   \A f \in DOMAIN h, k \in report.summaries :
                       c \in k.cells => c \in k.consistent[f]

(* A report says of each cell only what that cell's own past and declared  *)
(* sample allow (split_nav_by_holding, ic_period_stats, iter_cells,        *)
(* sample_class, independent_verdict).                                     *)
MatrixIsHonest == TrainIsPast /\ CellsAreAccounted /\ VerdictsAreEarned
=============================================================================
