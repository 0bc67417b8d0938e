------------------------------ MODULE Backtest ------------------------------
(***************************************************************************)
(* The monthly backtest of the repository: runtime/backtest/engine.py      *)
(* drives, for each holding period, universe -> target -> feasibility ->   *)
(* fill -> settlement against one of two event models: "daily" (close to   *)
(* close, DailyCloseEventModel) and "tail" (execution minute to execution  *)
(* minute, IntradayTailEventModel in its lenient limit mode).              *)
(*                                                                         *)
(* Weights are integers in units of 1/Unit of the book; cash is what the   *)
(* weights leave.  A price is its logarithm, so the return of a period is  *)
(* a difference and a total return is a sum.  Scores are abstract: any     *)
(* tradable names may rank highest.                                        *)
(*                                                                         *)
(* A quote is what the event model reads: the daily panel in the daily     *)
(* model, the execution minute with the limits in the tail model, whose own*)
(* daily panel decides only which members selection may take.              *)
(***************************************************************************)
EXTENDS Integers, FiniteSets, FiniteSetsExt, Functions, Sequences

CONSTANTS Symbols,      \* the names the universe may hold
          Unit,         \* the whole book, in weight units
          TopN,         \* portfolio.top_n
          LastDay,      \* trading days are a subset of 1..LastDay
          DaysPerMonth, \* calendar days in a month of the model
          Quotes,       \* what the market may say of a name on an anchor day
          Simulated,    \* bound: the calendars whose periods are run
          DropAtLimit   \* universe filter limit_up_down

BacktestAssumption ==
    /\ IsFiniteSet(Symbols)
    /\ {Unit, TopN, LastDay, DaysPerMonth} \subseteq Nat \ {0}
    /\ DropAtLimit \in BOOLEAN

NoFactor == -1   \* adj_factor absent, NaN or not positive

(* One name on one day: `bar' a usable price exists, `px' its raw          *)
(* log-price, `adj' the log of the cumulative factor, `lim' where the      *)
(* price stands in the day's limit band ("norow": no limit row known),     *)
(* `halted' the suspension flag of the daily panel.                        *)
Quote == [bar : BOOLEAN, px : Int, adj : Int, halted : BOOLEAN,
          lim : {"inside", "up", "down", "norow"}]

QuotesAssumption == Quotes \subseteq Quote

VARIABLES
    model,      \* "daily" or "tail", fixed for a run
    calendar,   \* the trading days of the price panel
    periods,    \* holding_periods(): <<entry, exit>> pairs
    market,     \* quotes of the anchor days drawn so far
    period,     \* index of the holding period being simulated
    phase,      \* "plan", "fill", "settle" or "done"
    positions,  \* SimExecution._positions
    target,     \* output of the constructor for this period
    fill,       \* SimExecution.last_fill
    unchecked,  \* names filled in this period without a usable limit row
    missingAdj, \* held names whose return was dropped for lack of a factor
    mark,       \* adjusted price the book has accounted each name at
    gap         \* names that had no price at an anchor since they were bought

vars == <<model, calendar, periods, market, period, phase, positions, target, fill,
          unchecked, missingAdj, mark, gap>>

Weights == [Symbols -> 0..Unit]
NoPositions == [s \in Symbols |-> 0]
SumOver(w, S) == MapThenSumSet(LAMBDA s : w[s], S)
Total(w) == SumOver(w, Symbols)
Held(w) == {s \in Symbols : w[s] > 0}
NoFill == [blockedBuys |-> {}, blockedSells |-> {}, starved |-> {},
           carried |-> {}, cash |-> Unit]

-----------------------------------------------------------------------------
(* The schedule: events.py.                                                *)

MonthOf(d) == (d - 1) \div DaysPerMonth

MonthlyRebalanceDates(cal) ==
    {d \in cal : \A e \in cal : MonthOf(e) = MonthOf(d) => e <= d}

(* Exit is the next rebalance date, for the last one the last trading day; *)
(* a pair of zero length is dropped, the others are in order.              *)
MonthlyAnchorPairs(cal) ==
    LET reb == MonthlyRebalanceDates(cal)
        later(d) == {e \in reb : e > d}
        ExitOf(d) == IF later(d) # {} THEN Min(later(d)) ELSE Max(cal)
        kept == {d \in reb : ExitOf(d) > d}
        nth(i) == CHOOSE d \in kept : Cardinality({e \in kept : e < d}) = i - 1
    IN  [i \in 1 .. Cardinality(kept) |-> <<nth(i), ExitOf(nth(i))>>]

Entry == periods[period][1]
Exit == periods[period][2]

-----------------------------------------------------------------------------
(* Selection: universe filters and the top-N constructor.                  *)

AtLimit(q) == q.lim \in {"up", "down"}

(* apply_tradable_filters with the suspended filter on.  The tail model keeps*)
(* the daily panel apart from its execution bars, so that any of the members*)
(* may pass, also one without a bar at the execution minute.               *)
Tradable(members, cross) ==
    IF model = "tail" THEN members
    ELSE {s \in members : /\ cross[s].bar
                          /\ ~cross[s].halted
                          /\ DropAtLimit => ~AtLimit(cross[s])}

EqualWeights(chosen) ==
    [s \in Symbols |-> IF s \in chosen THEN Unit \div Cardinality(chosen) ELSE 0]

(* What TopNEqualWeight may return: scores order the candidates in any way *)
(* and leave out the names whose score is NaN.                             *)
Targets(candidates) ==
    {EqualWeights(chosen) : chosen \in {c \in SUBSET candidates :
                                            Cardinality(c) <= TopN}}

-----------------------------------------------------------------------------
(* Feasibility at the entry anchor, per event model.                       *)

(* Mutant: the price-limit gate of the tail model compares nothing.        *)
BarExists(q) == q.bar

DailyCanBuy(q) == q.bar /\ ~q.halted /\ q.lim /= "up"
DailyCanSell(q) == q.bar /\ ~q.halted /\ q.lim /= "down"
TailCanBuy(q) == q.bar /\ q.lim /= "up"
TailCanSell(q) == q.bar /\ q.lim /= "down"

CanBuy(s) == IF model = "daily" THEN DailyCanBuy(market[Entry][s])
                                ELSE TailCanBuy(market[Entry][s])
CanSell(s) == IF model = "daily" THEN DailyCanSell(market[Entry][s])
                                 ELSE TailCanSell(market[Entry][s])

(* The gate's lenient mode: names looked at whose limit row is unusable.   *)
Unchecked(looked) ==
    IF model = "tail"
    THEN {s \in looked : market[Entry][s].bar /\ market[Entry][s].lim = "norow"}
    ELSE {}

-----------------------------------------------------------------------------
(* simulate_fills: feasible sells first, then the feasible buys, scaled    *)
(* down together when the cash does not cover them.                        *)

Sells(cur, tgt) == {s \in Symbols : tgt[s] < cur[s]}
Buys(cur, tgt) == {s \in Symbols : tgt[s] > cur[s]}

(* Mutant: the proceeds of the sells are not available to the buys.        *)
CashBeforeSells(cur, tgt, canSell) == Unit - Total(cur)
CashAfterSells(cur, tgt, canSell) ==
    Unit - Total(cur)
        + SumOver([s \in Symbols |-> cur[s] - tgt[s]], Sells(cur, tgt) \cap canSell)

(* A buy of `want' out of `total' wanted with `cash' to spend; the last    *)
(* fraction of a unit is not bought.                                       *)
Scaled(want, total, cash) ==
    IF cash >= total THEN want ELSE (want * cash) \div total

SimulateFills(cur, tgt, canBuy, canSell) ==
    LET sold == Sells(cur, tgt) \cap canSell
        buyable == Buys(cur, tgt) \cap canBuy
        cash == CashAfterSells(cur, tgt, canSell)
        total == SumOver([s \in Symbols |-> tgt[s] - cur[s]], buyable)
        achieved == [s \in Symbols |->
                        IF s \in sold THEN tgt[s]
                        ELSE IF s \in buyable
                             THEN cur[s] + Scaled(tgt[s] - cur[s], total, cash)
                             ELSE cur[s]]
    IN  [achieved |-> achieved,
         report |-> [blockedBuys |-> Buys(cur, tgt) \ canBuy,
                     blockedSells |-> Sells(cur, tgt) \ canSell,
                     starved |-> IF cash < total THEN buyable ELSE {},
                     carried |-> {s \in Symbols : achieved[s] /= tgt[s]},
                     cash |-> Unit - Total(achieved)]]

-----------------------------------------------------------------------------
(* Settlement: the log return each held name is credited with.             *)

AdjustedPrice(q) == IF model = "tail" THEN q.px + q.adj ELSE q.px
Priced(q) == q.bar /\ (model = "tail" => q.adj /= NoFactor)

(* Mutant: the return is taken on raw prices.                              *)
RawReturn(s, out) ==
    LET a == market[Entry][s]
        b == out[s]
    IN  IF Priced(a) /\ Priced(b) THEN b.px - a.px ELSE 0

(* holding_returns and settle: zero for a name without a usable price at   *)
(* either anchor.                                                          *)
HoldingReturn(s, out) ==
    LET a == market[Entry][s]
        b == out[s]
    IN  IF Priced(a) /\ Priced(b) THEN AdjustedPrice(b) - AdjustedPrice(a) ELSE 0

MissingFactor(s, out) ==
    /\ model = "tail"
    /\ market[Entry][s].bar /\ out[s].bar
    /\ ~(Priced(market[Entry][s]) /\ Priced(out[s]))

-----------------------------------------------------------------------------
Init == /\ model \in {"daily", "tail"}
        /\ calendar \in (SUBSET (1 .. LastDay)) \ {{}}
        /\ periods = MonthlyAnchorPairs(calendar)
        /\ market = << >>
        /\ period = 0
        /\ phase = "settled"
        /\ positions = NoPositions
        /\ target = NoPositions
        /\ fill = NoFill
        /\ unchecked = {} /\ missingAdj = {}
        /\ mark = [s \in Symbols |-> 0]
        /\ gap = {}

(* The loop of run(): the next period, if there is one.  Here the entry    *)
(* day's cross-section is drawn, save for what its last exit drew of it.   *)
NextPeriod ==
    /\ phase = "settled"
    /\ calendar \in Simulated /\ period < Len(periods)
    /\ period' = period + 1
    /\ phase' = "plan"
    /\ \E cross \in [Symbols -> Quotes] :
          LET entry == periods[period + 1][1]
          IN  /\ entry \in DOMAIN market => IsRestriction(market[entry], cross)
              /\ market' = [d \in {entry} |-> cross]
    /\ UNCHANGED <<model, calendar, periods, positions, target, fill, unchecked,
                   missingAdj, mark, gap>>

(* _step up to the constructor; no tradable name means an empty target.    *)
Plan ==
    /\ phase = "plan"
    /\ \E members \in SUBSET Symbols :
          target' \in Targets(Tradable(members, market[Entry]))
    /\ phase' = "fill"
    /\ UNCHANGED <<model, calendar, periods, market, period, positions, fill, unchecked,
                   missingAdj, mark, gap>>

(* feasibility() and rebalance_to().  A name bought from nothing starts to *)
(* be accounted at today's price.                                          *)
Fill ==
    /\ phase = "fill"
    /\ LET looked == Held(positions) \cup Held(target)
           f == SimulateFills(positions, target, {s \in looked : CanBuy(s)},
                              {s \in looked : CanSell(s)})
           fresh == Held(f.achieved) \ Held(positions)
       IN  /\ positions' = f.achieved
           /\ fill' = f.report
           /\ unchecked' = Unchecked(looked)
           /\ mark' = [s \in Symbols |-> IF f.achieved[s] = 0 THEN 0
                                         ELSE IF s \in fresh
                                         THEN AdjustedPrice(market[Entry][s])
                                         ELSE mark[s]]
           /\ gap' = gap \cap (Held(f.achieved) \ fresh)
           /\ missingAdj' = missingAdj \cap (Held(f.achieved) \ fresh)
    /\ phase' = "settle"
    /\ UNCHANGED <<model, calendar, periods, market, period, target>>

(* holding_returns() and settle(): every held name moves by its return.    *)
Settle ==
    /\ phase = "settle"
    /\ \E out \in [Held(positions) -> Quotes] :
          /\ market' = [d \in {Entry, Exit} |-> IF d = Exit THEN out ELSE market[d]]
          /\ mark' = [s \in Symbols |-> IF positions[s] = 0 THEN 0
                                        ELSE mark[s] + HoldingReturn(s, out)]
          /\ gap' = gap \cup {s \in Held(positions) : ~(market[Entry][s].bar /\ out[s].bar)}
          /\ missingAdj' = missingAdj \cup {s \in Held(positions) : MissingFactor(s, out)}
    /\ phase' = "settled"
    /\ UNCHANGED <<model, calendar, periods, period, positions, target, fill, unchecked>>

Next == NextPeriod \/ Plan \/ Fill \/ Settle

Spec == Init /\ [][Next]_vars
-----------------------------------------------------------------------------
(* Every variable holds a value of its kind.                               *)
TypeOK ==
    /\ model \in {"daily", "tail"}
    /\ calendar \in (SUBSET (1 .. LastDay)) \ {{}}
    /\ periods \in Seq(calendar \X calendar)
    /\ DOMAIN market \subseteq calendar
    /\ \A d \in DOMAIN market : market[d] \in [DOMAIN market[d] -> Quotes]
    /\ period \in 0..Len(periods)
    /\ phase \in {"plan", "fill", "settle", "settled"}
    /\ positions \in Weights /\ target \in Weights
    /\ fill.cash \in Int
    /\ {fill.blockedBuys, fill.blockedSells, fill.starved, fill.carried,
        unchecked, missingAdj, gap} \subseteq SUBSET Symbols
    /\ mark \in [Symbols -> Int]

(* The book is never leveraged: whatever sells were blocked, the weights   *)
(* add up to at most the whole book, period after period (sim_execution    *)
(* carries the achieved book into the next rebalance).                     *)
NoLeverage == Total(positions) <= Unit

(* Buys run out of cash only because a sell was refused, never because of  *)
(* the order of the fills or of cash lost in an earlier period; and when   *)
(* they do, the cash that is left cannot buy a unit of each starved name.  *)
StarvedOnlyBehindABlockedSell ==
    fill.starved /= {} => /\ fill.blockedSells /= {}
                          /\ fill.cash < Cardinality(fill.starved)

(* A rebalance never trades against the market or past the target: a       *)
(* weight rises only where the event model lets the name be bought, falls  *)
(* only where it lets it be sold, and stops at the target.                 *)
RespectsTheMarket ==
    [][phase = "fill" =>
          \A s \in Symbols :
             /\ positions'[s] > positions[s] =>
                   /\ market[Entry][s].bar /\ market[Entry][s].lim /= "up"
                   /\ model = "daily" => ~market[Entry][s].halted
                   /\ positions'[s] <= target[s]
             /\ positions'[s] < positions[s] =>
                   /\ market[Entry][s].bar /\ market[Entry][s].lim /= "down"
                   /\ model = "daily" => ~market[Entry][s].halted
                   /\ positions'[s] >= target[s]]_vars

(* What the reports promise to disclose is disclosed: a name that missed   *)
(* its target is blocked or starved, and a name filled although its limit  *)
(* row was missing is counted as unchecked, never as cleared.              *)
NothingSilent ==
    /\ fill.carried \subseteq fill.blockedBuys \cup fill.blockedSells \cup fill.starved
    /\ phase = "settle" /\ model = "tail" =>
          \A s \in Held(positions) :
             market[Entry][s].bar /\ market[Entry][s].lim = "norow" => s \in unchecked

(* No price move is lost or counted twice: over any number of periods a    *)
(* name held since it was bought has earned exactly the move from its      *)
(* purchase price to today's, unless an anchor had no price for it or the  *)
(* model disclosed that its factor was missing.                            *)
MovesAreCounted ==
    phase = "settled" /\ period > 0 =>
        \A s \in Held(positions) \ (gap \cup missingAdj) : mark[s] = AdjustedPrice(market[Exit][s])

(* The holding periods tile the calendar: they begin at the first month    *)
(* end, every period starts where the one before ended, none is empty, and *)
(* the last one ends on the last trading day.                              *)
PeriodsTile ==
    LET P == periods
        last == CHOOSE d \in calendar : \A e \in calendar : e <= d
    IN  /\ \A i \in 1..Len(P) : P[i][1] < P[i][2]
        /\ \A i \in 1..(Len(P) - 1) : P[i][2] = P[i + 1][1]
        /\ P /= << >> => P[Len(P)][2] = last
        /\ \A d \in calendar :
              (\A e \in calendar : MonthOf(e) = MonthOf(d) => e <= d) /\ d /= last
              => \E i \in 1..Len(P) : P[i][1] = d

=============================================================================
