----------------------- MODULE RobustnessMatrix_proofs -----------------------
(***************************************************************************)
(* A report of the out-of-sample commands is honest, for every matrix of   *)
(* cells, every table of settled rebalances and every table of signs.      *)
(***************************************************************************)
EXTENDS RobustnessMatrix, FiniteSetTheorems, WellFoundedInduction, TLAPS

USE MatrixAssumption

(* A set of days has a first one.                                          *)
LEMMA FirstDay ==
    ASSUME NEW S \in SUBSET Nat, S # {}
    PROVE  Min(S) \in S /\ \A y \in S : Min(S) <= y
<1>1. IsWellFoundedOn(OpToRel(<, Nat), Nat)
  BY NatLessThanWellFounded
<1>2. PICK x \in S : \A y \in S : ~(<<y, x>> \in OpToRel(<, Nat))
  BY <1>1, WFMin
<1>3. \A y \in S : ~(y < x)
  BY <1>2 DEF OpToRel
<1>4. \A y \in S : x <= y
  BY <1>3
<1> QED
  BY <1>4 DEF Min

(* The end of a holding is the next settled row, if there is one.          *)
LEMMA NextRow ==
    ASSUME NEW rows \in SUBSET Nat, NEW r \in rows
    PROVE  /\ EndOf(r, rows) \in Nat
           /\ EndOf(r, rows) # Unknown =>
                /\ EndOf(r, rows) \in rows /\ r < EndOf(r, rows)
                /\ \A e \in rows : r < e => EndOf(r, rows) <= e
           /\ EndOf(r, rows) = Unknown => \A e \in rows : ~(r < e)
<1> DEFINE later == {e \in rows : e > r}
<1>1. later \in SUBSET Nat
  OBVIOUS
<1>2. CASE later = {}
  <2>1. EndOf(r, rows) = Unknown
    BY <1>2 DEF EndOf
  <2> QED
    BY <1>2, <2>1 DEF Unknown
<1>3. CASE later # {}
  <2>1. EndOf(r, rows) = Min(later)
    BY <1>3 DEF EndOf
  <2>2. Min(later) \in later /\ \A e \in later : Min(later) <= e
    BY <1>1, <1>3, FirstDay
  <2>3. r \in Nat /\ Min(later) \in Nat /\ r < Min(later)
    BY <2>2
  <2>4. Min(later) # Unknown
    BY <2>3 DEF Unknown
  <2> QED
    BY <2>1, <2>2, <2>4
<1> QED
  BY <1>2, <1>3

-----------------------------------------------------------------------------
(* What split_nav_by_holding and ic_period_stats are for: the two sides of *)
(* a split share no row, no day earned, and only the rows whose holding    *)
(* crosses the split, or has no known end, are on neither.                 *)
Exact(nav, rows, split) ==
    /\ nav.train \cup nav.test \cup nav.boundary = rows
    /\ nav.train \cap nav.test = {}
    /\ \A r \in nav.train, x \in rows :
           /\ \E e \in rows : r < e /\ e <= split
           /\ x \in nav.test => Earned(r, rows) \cap Earned(x, rows) = {}
    /\ \A r \in nav.boundary : r < split /\ \A e \in rows : r < e => split < e

LEMMA SplitIsExact ==
    ASSUME NEW rows \in SUBSET Nat, NEW split \in Nat,
           NEW nav, nav = SplitNavByHolding(rows, split)
    PROVE  Exact(nav, rows, split)
<1> DEFINE test == {r \in rows : r >= split}
           train == {r \in rows \ test : EndOf(r, rows) # Unknown /\ EndOf(r, rows) <= split}
<1>1. nav = [train |-> train, test |-> test, boundary |-> rows \ (test \cup train)]
  BY DEF SplitNavByHolding
<1>2. nav.train = train /\ nav.test = test /\ nav.boundary = rows \ (test \cup train)
  BY <1>1
<1>3. ASSUME NEW r \in train PROVE \E e \in rows : r < e /\ e <= split
  <2>1. EndOf(r, rows) \in rows /\ r < EndOf(r, rows) /\ EndOf(r, rows) <= split
    BY NextRow
  <2> QED
    BY <2>1
<1>4. ASSUME NEW r \in train, NEW x \in test PROVE Earned(r, rows) \cap Earned(x, rows) = {}
  <2>1. /\ EndOf(r, rows) \in Nat /\ EndOf(x, rows) \in Nat
        /\ EndOf(r, rows) <= split /\ split <= x
    BY NextRow
  <2>2. r \in Nat /\ x \in Nat
    OBVIOUS
  <2> QED
    BY <2>1, <2>2 DEF Earned
<1>5. ASSUME NEW r \in rows, r \notin test, r \notin train
      PROVE  r < split /\ \A e \in rows : r < e => split < e
  <2>1. EndOf(r, rows) \in Nat
    BY NextRow
  <2>2. r < split
    BY <1>5
  <2>3. ASSUME NEW e \in rows, r < e PROVE split < e
    <3>1. EndOf(r, rows) # Unknown /\ EndOf(r, rows) <= e
      BY <2>3, NextRow
    <3>2. ~(EndOf(r, rows) <= split)
      BY <1>5, <3>1
    <3> QED
      BY <2>1, <3>1, <3>2
  <2> QED
    BY <2>2, <2>3
<1>6. train \cap test = {} /\ train \cup test \cup (rows \ (test \cup train)) = rows
  OBVIOUS
<1> HIDE DEF test, train
<1>7. \A r \in train, x \in rows :
         /\ \E e \in rows : r < e /\ e <= split
         /\ x \in test => Earned(r, rows) \cap Earned(x, rows) = {}
  BY <1>3, <1>4
<1>8. \A r \in rows \ (test \cup train) : r < split /\ \A e \in rows : r < e => split < e
  BY <1>5
<1> QED
  BY <1>2, <1>6, <1>7, <1>8 DEF Exact

-----------------------------------------------------------------------------
(* A cell's numbers come from settled rows of its own window, cut at its   *)
(* own split.                                                              *)
CellOK(c) ==
    \E settled \in Settlements :
        LET w == Window(c) IN
        /\ cells[c].window = w
        /\ cells[c].nav = SplitNavByHolding(settled \cap w.start .. w.end, w.split)
        /\ cells[c].ic = IcPeriods(w.start .. w.end, w.split)

Running == {"cells", "failed", "done"}

TypeOK ==
    /\ command \in Commands /\ config \in RawConfigs /\ horizon \in Horizons
    /\ stage \in {"load", "refused"} \cup Running

(* The cells still to run and those that ran partition the matrix; each    *)
(* that ran keeps its panel; nothing is concluded before the last one.       *)
MatrixInv ==
    /\ stage \in {"load", "refused"} => DOMAIN cells = {}
    /\ stage \in Running =>
           /\ Valid(config) /\ Preconditions
           /\ DOMAIN cells \cap todo = {} /\ DOMAIN cells \cup todo = CellsToRun
    /\ \A c \in DOMAIN cells :
           CellOK(c) /\ KeepsItsPanel(c)
    /\ stage # "done" => verdicts = << >> /\ report = None
    /\ stage = "done" =>
           /\ todo = {} /\ verdicts = Verdicts
           /\ report = [written |-> TRUE, cells |-> DOMAIN cells, skipped |-> SkippedCells,
                        summaries |-> IF command = "subset" THEN SummaryBySample
                                      ELSE {Summary(DOMAIN cells)}]

LEMMA InitMatrix == Init => TypeOK /\ MatrixInv
  BY DEF Init, TypeOK, MatrixInv, Running

(* Two cells have one file only where the labels share a suffix: the oos   *)
(* command, which uses the base name, has a single cell.                   *)
LEMMA PanelsAreTold ==
    ASSUME NEW b \in CellsToRun, NEW c \in CellsToRun, PanelName(b) = PanelName(c)
    PROVE  b = c \/ Slug[b] = Slug[c]
  BY DEF CellsToRun, PanelName

LEMMA StepCells ==
    ASSUME TypeOK, MatrixInv, NEW cell \in todo, RunCell(cell)
    PROVE  TypeOK' /\ MatrixInv'
<1>1. /\ stage = "cells" /\ UNCHANGED <<command, config, horizon, stage, verdicts, report>>
      /\ todo' = todo \ {cell} /\ panels' = Filed(panels, PanelName(cell), cell)
  BY DEF RunCell
<1>2. PICK settled, entry :
         /\ settled \in Settlements
         /\ cells' = Filed(cells, cell, entry)
         /\ LET w == Window(cell) IN
            /\ entry.window = w
            /\ entry.nav = SplitNavByHolding(settled \cap w.start .. w.end, w.split)
            /\ entry.ic = IcPeriods(w.start .. w.end, w.split)
  <2> DEFINE w == Window(cell)
  <2>1. PICK settled \in Settlements, sign \in SignTables :
           cells' = Filed(cells, cell,
                          IF command = "subset" THEN SubsetCell(w, settled \cap w.start .. w.end, sign)
                          ELSE OosCell(w, settled \cap w.start .. w.end, sign))
    BY DEF RunCell
  <2> DEFINE rows == settled \cap w.start .. w.end
             entry == IF command = "subset" THEN SubsetCell(w, rows, sign)
                      ELSE OosCell(w, rows, sign)
  <2>2. /\ entry.window = w /\ entry.nav = SplitNavByHolding(rows, w.split)
        /\ entry.ic = IcPeriods(w.start .. w.end, w.split)
    <3>1. CASE command = "subset"
      BY <3>1 DEF SubsetCell
    <3>2. CASE command # "subset"
      BY <3>2 DEF OosCell
    <3> QED
      BY <3>1, <3>2
  <2>3. cells' = Filed(cells, cell, entry)
    BY <2>1
  <2> HIDE DEF entry
  <2> QED
    BY <2>2, <2>3
<1>3. /\ DOMAIN cells' = DOMAIN cells \cup {cell} /\ cells'[cell] = entry
      /\ \A c \in (DOMAIN cells) \ {cell} : cells'[c] = cells[c]
  BY <1>2 DEF Filed
<1>4. /\ DOMAIN panels' = DOMAIN panels \cup {PanelName(cell)} /\ panels'[PanelName(cell)] = cell
      /\ \A n \in (DOMAIN panels) \ {PanelName(cell)} : panels'[n] = panels[n]
  BY <1>1 DEF Filed
<1>5. /\ cell \in CellsToRun /\ cell \notin DOMAIN cells /\ DOMAIN cells \subseteq CellsToRun
  BY <1>1 DEF MatrixInv, Running
<1>6. /\ CellsToRun' = CellsToRun /\ Preconditions' = Preconditions
      /\ \A c : PanelName(c)' = PanelName(c) /\ Window(c)' = Window(c)
      /\ \A d, s : IcPeriods(d, s)' = IcPeriods(d, s)
  BY <1>1 DEF CellsToRun, Preconditions, PanelName, Window, IcPeriods
<1>7. ASSUME NEW c \in DOMAIN cells'
      PROVE  CellOK(c)' /\ KeepsItsPanel(c)'
  <2>1. CASE c = cell
    <3>1. CellOK(c)'
      BY <1>2, <1>3, <1>6, <2>1 DEF CellOK
    <3>2. PanelName(c)' \in DOMAIN panels' /\ panels'[PanelName(c)'] = c
      BY <1>4, <1>6, <2>1
    <3> QED
      BY <3>1, <3>2 DEF KeepsItsPanel
  <2>2. CASE c # cell
    <3>1. c \in DOMAIN cells /\ cells'[c] = cells[c]
      BY <1>3, <2>2
    <3>2. CellOK(c) /\ KeepsItsPanel(c)
      BY <3>1 DEF MatrixInv
    <3>3. CellOK(c)'
      BY <1>6, <3>1, <3>2 DEF CellOK
    <3>4. CASE PanelName(c) # PanelName(cell)
      <4>1. /\ PanelName(c)' = PanelName(c) /\ PanelName(c) \in DOMAIN panels
            /\ PanelName(c) \in DOMAIN panels' /\ panels'[PanelName(c)] = panels[PanelName(c)]
        BY <1>4, <1>6, <3>2, <3>4 DEF KeepsItsPanel
      <4> QED
        BY <1>1, <1>3, <3>2, <3>3, <4>1 DEF KeepsItsPanel
    <3>5. CASE PanelName(c) = PanelName(cell)
      <4>1. Slug[cell] = Slug[c]
        BY <1>5, <2>2, <3>1, <3>5, PanelsAreTold
      <4>2. config.overwrite
        BY <3>2, <3>5 DEF KeepsItsPanel, RunCell
      <4>3. /\ PanelName(c)' = PanelName(cell) /\ config' = config
            /\ PanelName(cell) \in DOMAIN panels' /\ panels'[PanelName(cell)] = cell
            /\ cell \in DOMAIN cells' \ {c}
        BY <1>1, <1>3, <1>4, <1>6, <2>2, <3>5
      <4> QED
        BY <3>3, <4>1, <4>2, <4>3 DEF KeepsItsPanel
    <3> QED
      BY <3>4, <3>5
  <2> QED
    BY <2>1, <2>2
<1>8. DOMAIN cells' \cap todo' = {} /\ DOMAIN cells' \cup todo' = CellsToRun
  BY <1>1, <1>3, <1>5 DEF MatrixInv, Running
<1>9. verdicts = << >> /\ report = None /\ Valid(config) /\ Preconditions
  BY <1>1 DEF MatrixInv, Running
<1> QED
  BY <1>1, <1>6, <1>7, <1>8, <1>9 DEF TypeOK, MatrixInv, Running

LEMMA StepMatrix == TypeOK /\ MatrixInv /\ [Next]_vars => TypeOK' /\ MatrixInv'
<1> SUFFICES ASSUME TypeOK, MatrixInv, [Next]_vars PROVE TypeOK' /\ MatrixInv'
  OBVIOUS
<1>a. ASSUME UNCHANGED <<command, config, horizon, cells, panels>>
      PROVE  /\ CellsToRun' = CellsToRun /\ Preconditions' = Preconditions
             /\ SkippedCells' = SkippedCells /\ Verdicts' = Verdicts
             /\ SummaryBySample' = SummaryBySample
             /\ \A some : Summary(some)' = Summary(some)
             /\ \A c : CellOK(c)' = CellOK(c) /\ KeepsItsPanel(c)' = KeepsItsPanel(c)
  BY <1>a DEF CellsToRun, Preconditions, SkippedCells, Verdicts, SummaryBySample, Summary,
              CellOK, KeepsItsPanel, PanelName, Window, IcPeriods, ClassCells, SampleClass
<1>1. CASE Refuse
  BY <1>1, <1>a DEF Refuse, TypeOK, MatrixInv, Running
<1>2. CASE Accept
  BY <1>2, <1>a DEF Accept, TypeOK, MatrixInv, Running
<1>3. ASSUME NEW cell \in todo, RunCell(cell) PROVE TypeOK' /\ MatrixInv'
  BY <1>3, StepCells
<1>4. CASE Fail
  BY <1>4, <1>a DEF Fail, TypeOK, MatrixInv, Running
<1>5. CASE Conclude
  <2> DEFINE Written == [written |-> TRUE, cells |-> DOMAIN cells, skipped |-> SkippedCells,
                         summaries |-> IF command = "subset" THEN SummaryBySample
                                       ELSE {Summary(DOMAIN cells)}]
  <2>1. /\ stage = "cells" /\ stage' = "done" /\ todo = {} /\ todo' = todo
        /\ UNCHANGED <<command, config, horizon, cells, panels>>
        /\ verdicts' = Verdicts /\ report' = Written
    BY <1>5 DEF Conclude
  <2>2. Written' = Written /\ Verdicts' = Verdicts
    BY <1>a, <2>1
  <2> HIDE DEF Written
  <2>3. verdicts' = Verdicts' /\ report' = Written'
    BY <2>1, <2>2
  <2>4. /\ CellsToRun' = CellsToRun /\ Preconditions' = Preconditions
        /\ \A c : CellOK(c)' = CellOK(c) /\ KeepsItsPanel(c)' = KeepsItsPanel(c)
    BY <1>a, <2>1
  <2>5. TypeOK'
    BY <2>1 DEF TypeOK, Running
  <2>6. /\ Valid(config') /\ Preconditions'
        /\ DOMAIN cells' \cap todo' = {} /\ DOMAIN cells' \cup todo' = CellsToRun'
        /\ \A c \in DOMAIN cells' :
              CellOK(c)' /\ KeepsItsPanel(c)'
    BY <2>1, <2>4 DEF MatrixInv, Running
  <2> QED
    BY <2>1, <2>3, <2>5, <2>6 DEF MatrixInv, Running, Written
<1>6. CASE UNCHANGED vars
  BY <1>6, <1>a DEF vars, TypeOK, MatrixInv, Running
<1> QED
  BY <1>1, <1>2, <1>3, <1>4, <1>5, <1>6 DEF Next

-----------------------------------------------------------------------------
LEMMA WindowsAreTyped ==
    ASSUME TypeOK, NEW c \in CellsToRun
    PROVE  Window(c) \in [start : Nat, split : Nat, end : Nat]
<1>1. config.own \in Labels /\ config.robustness.windows \subseteq Labels
  BY DEF TypeOK
<1>2. c[2] \in Labels
  BY <1>1 DEF CellsToRun, Product
<1> QED
  BY <1>2 DEF Window

(* What a cell knows: the rows and the IC days it was cut from.            *)
LEMMA CellsAreSplit ==
    ASSUME TypeOK, MatrixInv, NEW c \in DOMAIN cells
    PROVE  /\ c \in CellsToRun /\ cells[c].window = Window(c) /\ Window(c).split \in Nat
           /\ \E rows \in SUBSET Nat :
                 IsFiniteSet(rows) /\ cells[c].nav = SplitNavByHolding(rows, Window(c).split)
           /\ \E days \in SUBSET Nat : cells[c].ic = IcPeriods(days, Window(c).split)
<1>1. c \in CellsToRun
  <2>1. stage \in Running
    BY DEF MatrixInv, TypeOK
  <2> QED
    BY <2>1 DEF MatrixInv
<1>2. Window(c) \in [start : Nat, split : Nat, end : Nat]
  BY <1>1, WindowsAreTyped
<1> DEFINE w == Window(c)
<1>3. PICK settled \in Settlements :
         /\ cells[c].window = w
         /\ cells[c].nav = SplitNavByHolding(settled \cap w.start .. w.end, w.split)
         /\ cells[c].ic = IcPeriods(w.start .. w.end, w.split)
  BY DEF MatrixInv, CellOK
<1>4. settled \subseteq Nat /\ IsFiniteSet(settled)
  OBVIOUS
<1>5. w.start .. w.end \in SUBSET Nat /\ w.split \in Nat
  BY <1>2
<1> HIDE DEF w
<1>6. settled \cap w.start .. w.end \in SUBSET Nat /\ IsFiniteSet(settled \cap w.start .. w.end)
  BY <1>4, FS_Intersection
<1> QED
  BY <1>1, <1>3, <1>5, <1>6 DEF w

LEMMA TrainIsPastHolds == TypeOK /\ MatrixInv => TrainIsPast
<1> SUFFICES ASSUME TypeOK, MatrixInv, NEW c \in DOMAIN cells
             PROVE  LET nav == cells[c].nav
                        rows == nav.train \cup nav.test \cup nav.boundary
                        split == Window(c).split
                    IN  /\ \A r \in nav.train, x \in rows :
                               /\ \E e \in rows : r < e /\ e <= split
                               /\ x \in nav.test => Earned(r, rows) \cap Earned(x, rows) = {}
                        /\ \A r \in nav.boundary :
                               r < split /\ \A e \in rows : r < e => split < e
                        /\ \A t \in cells[c].ic.train, x \in cells[c].ic.test : t + horizon < x
  BY DEF TrainIsPast
<1> DEFINE split == Window(c).split
<1>1. split \in Nat
  BY CellsAreSplit
<1>2. PICK rows \in SUBSET Nat : cells[c].nav = SplitNavByHolding(rows, split)
  BY CellsAreSplit
<1>3. PICK days \in SUBSET Nat : cells[c].ic = IcPeriods(days, split)
  BY CellsAreSplit
<1> HIDE DEF split
<1>4. \A t \in cells[c].ic.train, x \in cells[c].ic.test : t + horizon < x
  <2>1. horizon \in Nat
    BY DEF TypeOK
  <2>2. ASSUME NEW t \in cells[c].ic.train, NEW x \in cells[c].ic.test PROVE t + horizon < x
    <3>1. /\ cells[c].ic.train = {u \in days : u + horizon \in days /\ u + horizon < split}
          /\ cells[c].ic.test = {u \in days : u >= split}
      BY <1>3 DEF IcPeriods
    <3>2. t \in Nat /\ t + horizon < split /\ x \in Nat /\ x >= split
      BY <3>1
    <3> QED
      BY <1>1, <2>1, <3>2
  <2> QED
    BY <2>2
<1> DEFINE nav == cells[c].nav
<1>5. nav = SplitNavByHolding(rows, split)
  BY <1>2
<1> HIDE DEF nav
<1>6. Exact(nav, rows, split)
  BY <1>1, <1>5, SplitIsExact
<1> QED
  BY <1>4, <1>6 DEF split, nav, Exact

(* The declared holdouts are cells that run.                               *)
LEMMA HoldoutsRun ==
    ASSUME TypeOK, MatrixInv, stage \in Running, command = "subset"
    PROVE  config.subset.independent \subseteq CellsToRun
  BY DEF MatrixInv, Valid, Preconditions, IndependentCells, WillRun, CellsToRun

LEMMA CellsAreAccountedHolds == TypeOK /\ MatrixInv => CellsAreAccounted
<1> SUFFICES ASSUME TypeOK, MatrixInv, report.written PROVE CellsAreAccounted
  BY DEF CellsAreAccounted
<1>1. stage = "done"
  BY DEF MatrixInv, None
<1>0. /\ DOMAIN cells \cup todo = CellsToRun /\ todo = {} /\ verdicts = Verdicts
      /\ report = [written |-> TRUE, cells |-> DOMAIN cells, skipped |-> SkippedCells,
                   summaries |-> IF command = "subset" THEN SummaryBySample
                                 ELSE {Summary(DOMAIN cells)}]
  BY <1>1 DEF MatrixInv, Running
<1>2. /\ DOMAIN cells = CellsToRun /\ verdicts = Verdicts
      /\ report.cells = CellsToRun /\ report.skipped = SkippedCells
      /\ report.summaries = IF command = "subset" THEN SummaryBySample
                            ELSE {Summary(DOMAIN cells)}
  BY <1>0
<1>3. report.cells \cap report.skipped = {}
  BY <1>2 DEF CellsToRun, SkippedCells
<1>4. command # "oos" => report.cells \cup report.skipped = Product(config.robustness)
  <2>1. command # "oos" => config.robustness.on
    BY <1>1 DEF MatrixInv, Running, Preconditions, TypeOK
  <2>2. command # "oos" => config.robustness.skip \subseteq Product(config.robustness)
    BY <1>1, <2>1 DEF MatrixInv, Running, Valid, ValidRobustness
  <2> QED
    BY <1>2, <2>2 DEF CellsToRun, SkippedCells
<1>5. command = "subset" => DOMAIN verdicts = config.subset.independent
  <2>1. ASSUME command = "subset" PROVE DOMAIN verdicts = config.subset.independent
    <3>1. config.subset.independent \subseteq CellsToRun
      BY <1>1, <2>1, HoldoutsRun DEF Running
    <3>2. DOMAIN verdicts = ClassCells("independent")
      BY <1>2, <2>1 DEF Verdicts
    <3> QED
      BY <1>2, <3>1, <3>2 DEF ClassCells, SampleClass
  <2> QED
    BY <2>1
<1>6. \A some : Summary(some).cells = some
  BY DEF Summary
<1>7. UNION {k.cells : k \in report.summaries} = report.cells
  <2>1. CASE command # "subset"
    BY <1>2, <1>6, <2>1
  <2>2. CASE command = "subset"
    <3>1. ClassCells("independent") \cup ClassCells("screened") = DOMAIN cells
      BY DEF ClassCells, SampleClass
    <3>2. \A k \in report.summaries :
             k.cells = ClassCells("independent") \/ k.cells = ClassCells("screened")
      BY <1>2, <1>6, <2>2 DEF SummaryBySample
    <3>3. ASSUME NEW class \in {"independent", "screened"}, ClassCells(class) # {}
          PROVE  Summary(ClassCells(class)) \in report.summaries
      <4>1. Summary(ClassCells(class)) # Summary({})
        BY <1>6, <3>3
      <4> QED
        BY <1>2, <2>2, <4>1 DEF SummaryBySample
    <3>4. ASSUME NEW c \in report.cells PROVE \E k \in report.summaries : c \in k.cells
      <4>1. PICK class \in {"independent", "screened"} : c \in ClassCells(class)
        BY <1>2, <3>1
      <4> QED
        BY <1>6, <3>3, <4>1
    <3>5. \A k \in report.summaries : k.cells \subseteq report.cells
      BY <1>2, <3>1, <3>2
    <3> QED
      BY <3>4, <3>5
  <2> QED
    BY <2>1, <2>2
<1>8. \A k \in report.summaries : k.cells \cap DOMAIN verdicts \in {{}, k.cells}
  <2>1. CASE command # "subset"
    <3>1. DOMAIN verdicts = {}
      BY <1>2, <2>1 DEF Verdicts
    <3> QED
      BY <3>1
  <2>2. CASE command = "subset"
    <3>1. DOMAIN verdicts = ClassCells("independent")
      BY <1>2, <2>2 DEF Verdicts
    <3>2. \A k \in report.summaries :
             k.cells = ClassCells("independent") \/ k.cells = ClassCells("screened")
      BY <1>2, <1>6, <2>2 DEF SummaryBySample
    <3>3. ClassCells("independent") \cap ClassCells("screened") = {}
      BY DEF ClassCells
    <3> QED
      BY <3>1, <3>2, <3>3
  <2> QED
    BY <2>1, <2>2
<1>9. ASSUME NEW c \in report.cells
      PROVE  cells[c].window = WindowOf[c[2]] /\ KeepsItsPanel(c)
  BY <1>2, CellsAreSplit DEF Window, MatrixInv
<1> QED
  BY <1>3, <1>4, <1>5, <1>7, <1>8, <1>9 DEF CellsAreAccounted

LEMMA VerdictsAreEarnedHolds == TypeOK /\ MatrixInv => VerdictsAreEarned
<1> SUFFICES ASSUME TypeOK, MatrixInv, NEW c \in DOMAIN verdicts,
                    verdicts[c] \in {"supported", "not_supported", "partial"}
             PROVE  LET h == config.subset.hypotheses IN
                    /\ Cardinality(cells[c].nav.train \cup cells[c].nav.test)
                           >= config.subset.minRebalances
                    /\ verdicts[c] = "supported" <=>
                           \A f \in DOMAIN h, p \in Subperiods : cells[c].sign[f][p] = h[f]
                    /\ verdicts[c] = "supported" =>
                           \A f \in DOMAIN h, k \in report.summaries :
                               c \in k.cells => c \in k.consistent[f]
  BY DEF VerdictsAreEarned
<1> DEFINE h == config.subset.hypotheses
           nav == cells[c].nav
           holds == Holding(cells[c], h)
           settled == Cardinality(nav.train) + Cardinality(nav.test)
<1>1. stage = "done" /\ verdicts = Verdicts
  BY DEF MatrixInv
<1>2. command = "subset" /\ c \in ClassCells("independent") /\ c \in DOMAIN cells
      /\ verdicts[c] = IndependentVerdict(cells[c], config.subset)
  BY <1>1 DEF Verdicts, ClassCells
<1>3. /\ ~(settled < config.subset.minRebalances) /\ DOMAIN h # {}
      /\ verdicts[c] = "supported" <=> holds = DOMAIN h
  BY <1>2 DEF IndependentVerdict
<1>4. Cardinality(nav.train \cup nav.test) >= config.subset.minRebalances
  <2>1. PICK rows \in SUBSET Nat :
           IsFiniteSet(rows) /\ nav = SplitNavByHolding(rows, Window(c).split)
    BY <1>2, CellsAreSplit
  <2>2. Window(c).split \in Nat
    BY <1>2, CellsAreSplit
  <2> HIDE DEF nav
  <2>3. nav.train \subseteq rows /\ nav.test \subseteq rows /\ nav.train \cap nav.test = {}
    <3>1. Exact(nav, rows, Window(c).split)
      BY <2>1, <2>2, SplitIsExact DEF nav
    <3> QED
      BY <3>1 DEF Exact
  <2>4. IsFiniteSet(nav.train) /\ IsFiniteSet(nav.test)
    BY <2>1, <2>3, FS_Subset
  <2>5. Cardinality(nav.train \cup nav.test)
          = Cardinality(nav.train) + Cardinality(nav.test) - Cardinality(nav.train \cap nav.test)
    BY <2>4, FS_Union
  <2>6. Cardinality(nav.train \cap nav.test) = 0
    BY <2>3, FS_EmptySet
  <2>7. /\ Cardinality(nav.train) \in Nat /\ Cardinality(nav.test) \in Nat
        /\ config.subset.minRebalances \in Nat
    BY <2>4, FS_CardinalityType DEF TypeOK
  <2> QED
    BY <1>3, <2>5, <2>6, <2>7
<1>5. verdicts[c] = "supported" <=>
         \A f \in DOMAIN h, p \in Subperiods : cells[c].sign[f][p] = h[f]
  <2>1. \A f \in DOMAIN h : h[f] # "none"
    BY DEF TypeOK
  <2>2. holds = DOMAIN h <=> \A f \in DOMAIN h, p \in Subperiods : cells[c].sign[f][p] = h[f]
    BY <2>1 DEF Holding, Matches
  <2> QED
    BY <1>3, <2>2
<1>6. ASSUME verdicts[c] = "supported", NEW f \in DOMAIN h, NEW k \in report.summaries,
             c \in k.cells
      PROVE  c \in k.consistent[f]
  <2>1. f \in Factors
    BY <1>1, <1>2 DEF MatrixInv, Running, Valid, Preconditions, GroupsAreEnabled
  <2>2. PICK some : k = Summary(some)
    BY <1>1, <1>2 DEF MatrixInv, SummaryBySample
  <2>3. c \in some
    BY <1>6, <2>2 DEF Summary
  <2>4. h[f] # "none" /\ \A p \in Subperiods : cells[c].sign[f][p] = h[f]
    BY <1>5, <1>6 DEF TypeOK
  <2>5. SignConsistent(cells[c].sign[f])
    BY <2>4 DEF SignConsistent, Subperiods
  <2> QED
    BY <2>1, <2>2, <2>3, <2>5 DEF Summary
<1> QED
  BY <1>4, <1>5, <1>6

(* The matrix is honest, whatever cells fail, rebalances do not settle and *)
(* signs the factors show, and whichever labels share a file: a report     *)
(* says of a cell only what its own past and its declared sample allow.    *)
THEOREM HonestMatrix == Spec => []MatrixIsHonest
<1>1. Init => TypeOK /\ MatrixInv
  BY InitMatrix
<1>2. TypeOK /\ MatrixInv /\ [Next]_vars => TypeOK' /\ MatrixInv'
  BY StepMatrix
<1>3. TypeOK /\ MatrixInv => MatrixIsHonest
  BY TrainIsPastHolds, CellsAreAccountedHolds, VerdictsAreEarnedHolds DEF MatrixIsHonest
<1> QED
  BY <1>1, <1>2, <1>3, PTL DEF Spec
=============================================================================
