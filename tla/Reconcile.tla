------------------------------ MODULE Reconcile ------------------------------
(***************************************************************************)
(* The panels leg of the reconciliation harness                            *)
(* (qt/factor_eval_reconcile): every cell of a frozen factor panel is      *)
(* compared with the value the factor service gives today, each difference *)
(* is put into a registered class or left unclassified, and the panel      *)
(* passes when nothing is unclassified and every class is within its cap.  *)
(* Of the anchors leg there is only which cells it takes for under-warmed. *)
(*                                                                         *)
(* A served value is known by how it differs from the frozen one: rel and  *)
(* abs rank the relative and absolute difference among the tolerances.     *)
(***************************************************************************)
EXTENDS Integers, FiniteSets, FiniteSetsExt

CONSTANTS
    LastDate, MonthOf,            \* the grid's dates 1..LastDate, their months
    Symbols, Stranger,            \* the frozen symbols, and one it does not know
    Direct,                       \* the symbol of the registered threshold flip
    Early, Window,                \* dates: the pooled warm-up, and the flip
    SparseDates, SparseSymbols,
    LookbackDepth,
    Panels,                       \* the frozen panels: no row, NaN or finite per cell
    Moves,                        \* how a served value may differ
    FloatTailMax, CrossFloatTailMax, FlipMax, ContaminationMax, BarsOnlyMax, SparseMax

Dates == 1 .. LastDate

Cells == Dates \X (Symbols \cup {Stranger})

(* The ranks: an absolute difference is dust, within the bound of a        *)
(* contaminated symbol, of the direct one, below one, one, or more.        *)
Dust == 0
CrossBound == 1
DirectBound == 2
One == 4

(* A relative one is within tolerance, the float tail, the bars-only flip, *)
(* the threshold flip, or more.                                            *)
WithinTol == 0
FloatTail == 1
BarsOnlyTol == 2
FlipTol == 3

ReconcileAssumption ==
    /\ LastDate \in Nat \ {0} /\ LookbackDepth \in Nat \ {0}
    /\ IsFiniteSet(Symbols) /\ Direct \in Symbols /\ Stranger \notin Symbols
    /\ SparseSymbols \subseteq Symbols
    /\ Early \cup Window \cup SparseDates \subseteq Dates
    /\ \A d \in Dates : MonthOf[d] \in Nat
    /\ \A p \in Panels : /\ p \in [Cells -> {"absent", "nan", "finite"}]
                         /\ \A d \in Dates : p[<<d, Stranger>>] = "absent"
    /\ Moves \subseteq [rel : 0 .. 4, abs : 0 .. 5]
    /\ {FloatTailMax, CrossFloatTailMax, FlipMax, ContaminationMax, BarsOnlyMax, SparseMax}
           \subseteq Nat

VARIABLES
    factor,       \* the factor: pooled, cross-sectional, with a bars-only bound
    frozen,       \* its frozen panel
    todo,         \* cells still to compare
    count,        \* differences in each class
    monthly,      \* pooled warm-up differences of each month
    overshoots,   \* moves past the bound of the registered flip
    verdict

vars == <<factor, frozen, todo, count, monthly, overshoots, verdict>>

Classes == {"equal", "warmup", "float_tail", "flip_tail", "contamination", "sparse_tail",
            "unclassified"}

Missing == [finite |-> FALSE]
Served == {Missing} \cup {[finite |-> TRUE, rel |-> m.rel, abs |-> m.abs] : m \in Moves}

-----------------------------------------------------------------------------
(* The regions.                                                            *)

GridDates == {d \in Dates : \E s \in Symbols : frozen[<<d, s>>] # "absent"}

FrozenSymbols == {s \in Symbols : \E d \in Dates : frozen[<<d, s>>] # "absent"}

(* A bug: a whole lookback of dates is taken for under-warmed.             *)
FirstLookback(n) == {d \in GridDates : Cardinality({e \in GridDates : e < d}) <= n}

(* The grid's first n dates.                                               *)
FirstDates(n) == {d \in GridDates : Cardinality({e \in GridDates : e < d}) < n}

UnderWarmed == LookbackDepth - 1

InWarmup(d) == IF factor.pooled THEN d \in Early ELSE d \in FirstDates(UnderWarmed)

WarmupMax == UnderWarmed * Cardinality(FrozenSymbols)

(* The registered flip reaches every symbol of a cross-sectional factor,   *)
(* and the direct one of a factor with a bound of its own.                 *)
InWindow(d, s) ==
    d \in Window /\ (factor.cross \/ (factor.barsOnly /\ s = Direct))

WithinFlip(s, v) ==
    IF factor.cross THEN v.abs <= (IF s = Direct THEN DirectBound ELSE CrossBound)
    ELSE v.rel <= BarsOnlyTol

-----------------------------------------------------------------------------
(* The class of a difference between two finite values: the first that     *)
(* applies, and inside the window of the flip no other than its own.       *)

Tails(v) ==
    IF v.rel <= FloatTail THEN "float_tail"
    ELSE IF v.abs = One /\ v.rel <= FlipTol THEN "flip_tail" ELSE "unclassified"

(* A bug: a move past the flip's bound is judged by the generic tails.     *)
FlipOrTails(s, v) == IF WithinFlip(s, v) THEN "contamination" ELSE Tails(v)

FlipClass(s, v) == IF WithinFlip(s, v) THEN "contamination" ELSE "unclassified"

Moved(d, s, v) ==
    IF v.rel = WithinTol THEN "equal"
    ELSE IF v.abs = Dust THEN "float_tail"
    ELSE IF InWarmup(d) THEN "warmup"
    ELSE IF factor.pooled /\ s \in SparseSymbols /\ d \in SparseDates THEN "sparse_tail"
    ELSE IF InWindow(d, s) THEN FlipClass(s, v)
    ELSE Tails(v)

(* A row only the service has: a footprint, a gap of the old grid inside   *)
(* the warm-up, or a stranger.                                             *)
Extra(d, s, v) ==
    IF ~v.finite THEN "equal"
    ELSE IF s \in FrozenSymbols /\ InWarmup(d) THEN "warmup" ELSE "unclassified"

(* A value that was lost, or that was not there: only the warm-up explains *)
(* it, a lost one only for a factor that publishes by counting days.       *)
Lost(d) == IF factor.pooled /\ InWarmup(d) THEN "warmup" ELSE "unclassified"
Found(d) == IF InWarmup(d) THEN "warmup" ELSE "unclassified"

PanelClass(d, s, v) ==
    CASE frozen[<<d, s>>] = "absent"                 -> Extra(d, s, v)
      [] frozen[<<d, s>>] = "finite" /\ v.finite     -> Moved(d, s, v)
      [] frozen[<<d, s>>] = "finite" /\ ~v.finite    -> Lost(d)
      [] frozen[<<d, s>>] = "nan" /\ v.finite        -> Found(d)
      [] frozen[<<d, s>>] = "nan" /\ ~v.finite       -> "equal"

(* The anchors leg on the same cell, for a factor without a declared       *)
(* correction: a hand value agrees, lies in the warm-up, or has failed.    *)
AnchorClass(d, s, v) ==
    LET hand == frozen[<<d, s>>] = "finite"
    IN  IF (~hand /\ ~v.finite) \/ (hand /\ v.finite /\ v.rel = WithinTol) THEN "ok"
        ELSE IF ~factor.pooled /\ d \in FirstDates(UnderWarmed) THEN "warmup"
        ELSE IF factor.pooled /\ d \in Early THEN "warmup"
        ELSE "failed"

-----------------------------------------------------------------------------
(* The gate.                                                               *)

FiniteDates == {d \in Dates : \E s \in Symbols : frozen[<<d, s>>] = "finite"}

(* The month of the first finite value is partial: its count is exempt.    *)
ExemptMonths == IF factor.pooled /\ FiniteDates # {} THEN {MonthOf[Min(FiniteDates)]} ELSE {}

Gated == {m \in DOMAIN monthly : monthly[m] > 0} \ ExemptMonths

(* The months that have a difference must not have more than the one       *)
(* before among them.                                                      *)
Monotonic == \A m, n \in Gated : m < n => monthly[n] <= monthly[m]

Accepted ==
    /\ count["unclassified"] = 0
    /\ Monotonic
    /\ ~factor.pooled => count["warmup"] <= WarmupMax
    /\ count["float_tail"] <= (IF factor.cross THEN CrossFloatTailMax ELSE FloatTailMax)
    /\ count["flip_tail"] <= FlipMax
    /\ count["contamination"] <= (IF factor.cross THEN ContaminationMax ELSE BarsOnlyMax)
    /\ count["sparse_tail"] <= SparseMax

-----------------------------------------------------------------------------
Months == {MonthOf[d] : d \in Dates}

Init ==
    /\ factor \in {k \in [pooled : BOOLEAN, cross : BOOLEAN, barsOnly : BOOLEAN] :
                      k.cross => ~k.barsOnly}
    /\ frozen \in Panels
    /\ todo = Cells
    /\ count = [k \in Classes |-> 0]
    /\ monthly = [m \in Months |-> 0]
    /\ overshoots = 0
    /\ verdict = "open"

(* A move inside the window that only the flip could explain, and does not. *)
Overshoot(d, s, v) ==
    /\ frozen[<<d, s>>] = "finite" /\ v.finite
    /\ v.rel # WithinTol /\ v.abs # Dust
    /\ ~InWarmup(d) /\ ~(factor.pooled /\ s \in SparseSymbols /\ d \in SparseDates)
    /\ InWindow(d, s) /\ ~WithinFlip(s, v)

Compare(d, s, v) ==
    LET class == PanelClass(d, s, v)
    IN  /\ count' = [count EXCEPT ![class] = @ + 1]
        /\ monthly' = IF class = "warmup" /\ factor.pooled
                      THEN [monthly EXCEPT ![MonthOf[d]] = @ + 1] ELSE monthly
        /\ overshoots' = IF Overshoot(d, s, v) THEN overshoots + 1 ELSE overshoots

(* The next cell; their order does not matter to the counts.               *)
CompareCell ==
    /\ todo # {}
    /\ LET c == CHOOSE c \in todo : TRUE
       IN  /\ \E v \in Served : Compare(c[1], c[2], v)
           /\ todo' = todo \ {c}
    /\ UNCHANGED <<factor, frozen, verdict>>

Judge ==
    /\ todo = {} /\ verdict = "open"
    /\ verdict' = IF Accepted THEN "ok" ELSE "failed"
    /\ UNCHANGED <<factor, frozen, todo, count, monthly, overshoots>>

Next == CompareCell \/ Judge

Spec == Init /\ [][Next]_vars

-----------------------------------------------------------------------------
(* Every cell compared is counted once.                                    *)
TypeOK ==
    /\ count \in [Classes -> Nat] /\ monthly \in [Months -> Nat] /\ overshoots \in Nat
    /\ MapThenSumSet(LAMBDA k : count[k], Classes) + Cardinality(todo) = Cardinality(Cells)
    /\ verdict \in {"open", "ok", "failed"}

(* The ceiling of the bounded warm-up holds by construction, and the       *)
(* anchors leg takes the same cells for under-warmed as the panels leg.    *)
WarmupIsOneRegion ==
    /\ ~factor.pooled => count["warmup"] <= WarmupMax
    /\ \A c \in Cells, v \in Served :
         frozen[c] = "finite" /\ v.finite /\ v.rel # WithinTol /\ v.abs # Dust =>
             (AnchorClass(c[1], c[2], v) = "warmup" <=> PanelClass(c[1], c[2], v) = "warmup")

(* A move past the bound of the registered flip fails the panel, however   *)
(* much room the other classes have.                                       *)
WindowIsClosed == verdict = "ok" => overshoots = 0

=============================================================================
