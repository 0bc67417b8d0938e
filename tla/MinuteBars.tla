------------------------------ MODULE MinuteBars ------------------------------
(***************************************************************************)
(* The minute factors that pool a fixed number of trading days, the one    *)
(* that cuts each day by itself, and the session features: one symbol's    *)
(* session prints minute by minute, the decision computes every factor at  *)
(* the cutoff from the bars available then, and research computes them     *)
(* again from whole sessions.                                              *)
(*                                                                         *)
(* Prices are integers in units of a usable low, so an amplitude high/low  *)
(* - 1 is high - low; a bar whose low is 0 is a bad print.  Sums, means    *)
(* and deviations are kept as the integers they are made of.               *)
(***************************************************************************)
EXTENDS Integers, Sequences, FiniteSets, FiniteSetsExt, SequencesExt

CONSTANTS
    Minutes, LastMinute, \* the minutes a bar may end at, and the end of the session
    SessionOpen, Cutoff, DataLag,
    Grid,                \* minutes of a derived bar
    Bars,                \* what a minute may print
    Histories,           \* the sessions before this one
    LookbackDays, SigmaK,
    OneIn,               \* a rank cut takes one bar in OneIn from each end
    MinMinutes, MinPool, MinSelected, MinPairs, MinDayMinutes, MinValidDays,
    LastWindow, MmpLookback

NoBar == [open |-> 0, high |-> 0, low |-> 0, close |-> 0, vol |-> 0, amt |-> 0]

BarsAssumption ==
    /\ Minutes \subseteq 1 .. LastMinute /\ LastMinute \in Nat /\ Cutoff \in 1 .. LastMinute
    /\ Grid \in Nat \ {0} /\ OneIn \in Nat \ {0, 1} /\ DataLag \in Nat
    /\ LookbackDays \in Nat \ {0} /\ NoBar \notin Bars
    /\ Histories \subseteq Seq([Minutes -> [open : Int, high : Int, low : Int, close : Int,
                                            vol : Int, amt : Int]])
    /\ \A b \in Bars : b.low \in {0, 1} /\ b.open \in {0, 1} /\ b.close > 0

VARIABLES
    past,                \* the whole sessions before
    today,               \* the bars printed so far
    now,                 \* the minute
    decided              \* the factors of today as the decision computed them

vars == <<past, today, now, decided>>

FactorNames == {"ideal_amp", "anomaly_vol", "jump_corr", "amp_cut", "session_ret",
                "last_ret", "vwap", "mmp"}

-----------------------------------------------------------------------------
(* What a session shows at its own decision.                               *)

Visible(day) == {t \in Minutes : day[t] # NoBar /\ t + DataLag <= Cutoff}

Before(S, t) == {u \in S : u < t}
After(S, t) == {u \in S : u > t}
Latest(S, n) == {i \in S : Cardinality(After(S, i)) < n}

(* The amplitude guard.                                                    *)
Guarded(bars, S) == {t \in S : bars[t].low > 0 /\ bars[t].high >= bars[t].low}

Amp(bar) == bar.high - bar.low

Total(v) == MapThenSumSet(LAMBDA x : v[x], DOMAIN v)

(* x > mean + SigmaK * sample deviation of the values v, in integers.      *)
Exceeds(x, v) ==
    LET n == Cardinality(DOMAIN v)
        s == Total(v)
        q == Total([t \in DOMAIN v |-> v[t] * v[t]])
        d == n * x - s
    IN  d > 0 /\ d * d * (n - 1) > SigmaK * SigmaK * n * (n * q - s * s)

-----------------------------------------------------------------------------
(* Derived bars: a bucket of Grid minutes, ending at its last constituent  *)
(* and available when every constituent is.                                *)

Bucket(t) == ((t + Grid - 1) \div Grid) * Grid

Resampled(day) ==
    LET printed == {t \in Minutes : day[t] # NoBar}
        of(b) == {t \in printed : Bucket(t) = b}
    IN  [b \in {Bucket(t) : t \in printed} |->
            [high  |-> Max({day[t].high : t \in of(b)}),
             low   |-> Min({day[t].low : t \in of(b)}),
             close |-> day[Max(of(b))].close,
             end   |-> Max(of(b)),
             available |-> Max(of(b)) + DataLag]]

(* A bug: the window the cutoff cut short is kept as if it were whole.     *)
Residual(coarse) == DOMAIN coarse

(* Only windows that closed on the grid.                                   *)
Complete(coarse) == {b \in DOMAIN coarse : coarse[b].end = b}

CoarseVisible(coarse) == {b \in Complete(coarse) : coarse[b].available <= Cutoff}

-----------------------------------------------------------------------------
(* What one session contributes.  A lagged quantity never reaches across   *)
(* the night: the first surviving bar of a day has none.                   *)

IdealBars(day) == {<<day[t].close, t, Amp(day[t])>> : t \in Guarded(day, Visible(day))}

AnomalyPairs(day) ==
    LET coarse == Resampled(day)
        kept == Guarded(coarse, CoarseVisible(coarse))
        size(b) == Amp(coarse[b]) - Amp(coarse[Max(Before(kept, b))])
    IN  {<<b, IF size(b) < 0 THEN -size(b) ELSE size(b),
           coarse[b].close, coarse[Max(Before(kept, b))].close>> :
             b \in {c \in kept : Before(kept, c) # {}}}

JumpBars(day) == {t \in Visible(day) : day[t].open > 0}

(* A jump and the strictly next minute.                                    *)
JumpPairs(day) ==
    LET kept == JumpBars(day)
    IN  {<<t, day[t].amt, day[t + 1].amt>> :
            t \in {u \in kept : /\ u + 1 \in kept
                                /\ Exceeds(Amp(day[u]), [v \in kept |-> Amp(day[v])])}}

(* Bars with a one-minute return: return as <<close, previous close>>.     *)
CutBars(day) ==
    LET kept == Guarded(day, Visible(day))
    IN  {<<t, day[t].close, day[Max(Before(kept, t))].close, Amp(day[t])>> :
            t \in {u \in kept : Before(kept, u) # {}}}

LowerReturn(x, y) ==
    \/ x[2] * y[3] < y[2] * x[3]
    \/ x[2] * y[3] = y[2] * x[3] /\ x[1] < y[1]

(* The amplitudes at the two ends of a ranking.                            *)
RankCut(S, below(_, _), amp(_)) ==
    LET k == Cardinality(S) \div OneIn
        rank(x) == Cardinality({y \in S : below(y, x)})
        sum(T) == MapThenSumSet(amp, T)
    IN  <<k, sum({x \in S : rank(x) >= Cardinality(S) - k}), sum({x \in S : rank(x) < k})>>

DayCut(day) == RankCut(CutBars(day), LowerReturn, LAMBDA x : x[4])

CutDay(day) ==
    Cardinality(CutBars(day)) >= MinDayMinutes /\ Cardinality(CutBars(day)) >= OneIn

-----------------------------------------------------------------------------
(* Session features: the day's own visible bars.                           *)

SessionReturn(day) ==
    LET seen == Visible(day)
    IN  IF day[Min(seen)].open = 0 THEN <<"nan">>
        ELSE <<"value", day[Max(seen)].close, day[Min(seen)].open>>

LastReturn(day) ==
    LET seen == Visible(day)
        earlier == {t \in seen : t <= Cutoff - LastWindow}
    IN  IF earlier = {} THEN <<"nan">>
        ELSE <<"value", day[Max(seen)].close, day[Max(earlier)].close>>

SessionVwap(day) ==
    LET vol == Total([t \in Visible(day) |-> day[t].vol])
    IN  IF vol = 0 THEN <<"nan">>
        ELSE <<"value", Total([t \in Visible(day) |-> day[t].amt]), vol>>

(* Minutes with a full baseline of earlier in-session bars, and the bars   *)
(* each one's pressure is computed from.                                   *)
Pressure(day) ==
    LET seen == {t \in Visible(day) : t >= SessionOpen}
        base(t) == Latest(Before(seen, t), MmpLookback)
        positiveMedian(S) == 2 * Cardinality({u \in S : day[u].vol > 0}) >= MmpLookback
        usable == {t \in seen : /\ Cardinality(base(t)) = MmpLookback
                                /\ positiveMedian(base(t))
                                /\ day[t].high + day[t].low > 0}
    IN  IF usable = {} THEN <<"nan">>
        ELSE <<"value", {<<day[t], {<<u, day[u]>> : u \in base(t)}>> : t \in usable}>>

-----------------------------------------------------------------------------
(* The factors of the last day of dd.                                      *)

AnomalyBars(day) ==
    LET coarse == Resampled(day) IN Guarded(coarse, CoarseVisible(coarse))

(* The days that take a slot of a factor's window.                         *)
WindowDays(f, dd) ==
    {i \in DOMAIN dd :
        CASE f = "ideal_amp"   -> IdealBars(dd[i]) # {}
          [] f = "anomaly_vol" -> AnomalyBars(dd[i]) # {}
          [] f = "jump_corr"   -> JumpBars(dd[i]) # {}
          [] OTHER             -> Visible(dd[i]) # {}}

(* The trailing days' parts, each with how long ago it is.                 *)
Pooled(f, dd, part(_)) ==
    UNION {{<<i - Len(dd), x>> : x \in part(dd[i])} : i \in Latest(WindowDays(f, dd), LookbackDays)}

LowerClose(x, y) ==
    \/ x[2][1] < y[2][1]
    \/ x[2][1] = y[2][1] /\ x[1] < y[1]
    \/ x[2][1] = y[2][1] /\ x[1] = y[1] /\ x[2][2] < y[2][2]

IdealAmp(dd) ==
    LET pool == Pooled("ideal_amp", dd, IdealBars)
    IN  IF Cardinality(pool) < MinMinutes \/ Cardinality(pool) < OneIn THEN <<"nan">>
        ELSE <<"value", RankCut(pool, LowerClose, LAMBDA x : x[2][3])>>

AnomalyVol(dd) ==
    LET pool == Pooled("anomaly_vol", dd, AnomalyPairs)
        selected == {x \in pool : Exceeds(x[2][2], [y \in pool |-> y[2][2]])}
    IN  IF Cardinality(pool) < MinPool \/ Cardinality(selected) < MinSelected THEN <<"nan">>
        ELSE <<"value", selected>>

(* A day without a jump still takes a slot of the window.                  *)
JumpCorr(dd) ==
    LET pool == Pooled("jump_corr", dd, JumpPairs)
        varied(k) == Cardinality({x[2][k] : x \in pool}) > 1
    IN  IF Cardinality(pool) < MinPairs \/ ~varied(2) \/ ~varied(3) THEN <<"nan">>
        ELSE <<"value", pool>>

(* Only days that can be cut have a value and take a slot.                 *)
AmpCut(dd) ==
    LET window == Latest({i \in DOMAIN dd : CutDay(dd[i])}, LookbackDays)
    IN  IF Len(dd) \notin window THEN <<"absent">>
        ELSE IF Cardinality(window) < MinValidDays THEN <<"nan">>
        ELSE <<"value", {<<i - Len(dd), DayCut(dd[i])>> : i \in window}>>

Factor(f, dd) ==
    IF Len(dd) \notin WindowDays(f, dd) THEN <<"absent">>
    ELSE CASE f = "ideal_amp"   -> IdealAmp(dd)
           [] f = "anomaly_vol" -> AnomalyVol(dd)
           [] f = "jump_corr"   -> JumpCorr(dd)
           [] f = "amp_cut"     -> AmpCut(dd)
           [] f = "session_ret" -> SessionReturn(Last(dd))
           [] f = "last_ret"    -> LastReturn(Last(dd))
           [] f = "vwap"        -> SessionVwap(Last(dd))
           [] f = "mmp"         -> Pressure(Last(dd))

(* The factors whose window counts trading days, or none.                  *)
BoundedFactors == FactorNames \ {"amp_cut"}

-----------------------------------------------------------------------------
(* What the materializer hands over at the cutoff: every session truncated *)
(* at its own decision.                                                    *)
Truncated(day) == [t \in Minutes |-> IF t + DataLag <= Cutoff THEN day[t] ELSE NoBar]

NotYet == << >>

Init ==
    /\ past \in Histories
    /\ today = [t \in Minutes |-> NoBar]
    /\ now = 0
    /\ decided = NotYet

(* A minute passes; its bar may be missing.                                *)
Tick ==
    /\ now < LastMinute
    /\ now = Cutoff => decided # NotYet
    /\ now' = now + 1
    /\ IF now' \in Minutes
       THEN \E bar \in Bars \cup {NoBar} : today' = [today EXCEPT ![now'] = bar]
       ELSE UNCHANGED today
    /\ UNCHANGED <<past, decided>>

Decide ==
    /\ now = Cutoff /\ decided = NotYet
    /\ LET dd == [i \in 1 .. Len(past) + 1 |->
                    Truncated(IF i <= Len(past) THEN past[i] ELSE today)]
       IN  decided' = [f \in FactorNames |-> Factor(f, dd)]
    /\ UNCHANGED <<past, today, now>>

Next == Tick \/ Decide

Spec == Init /\ [][Next]_vars

-----------------------------------------------------------------------------
(* The clock, and the bars it has reached.                                 *)
TypeOK ==
    /\ now \in 0 .. LastMinute
    /\ \A t \in Minutes : today[t] \in Bars \cup {NoBar} /\ (t > now => today[t] = NoBar)
    /\ now > Cutoff => decided # NotYet

WholeSessions == Append(past, today)

(* What the decision computed from the bars it had is what research        *)
(* computes later from whole sessions; and history beyond a bounded        *)
(* factor's trailing days changes nothing.                                 *)
GeometryFree ==
    decided # NotYet =>
        /\ \A f \in FactorNames : decided[f] = Factor(f, WholeSessions)
        /\ \A f \in BoundedFactors :
             LET recent == Tail(WholeSessions)
             IN  Cardinality(WindowDays(f, recent)) >= LookbackDays
                     => Factor(f, recent) = Factor(f, WholeSessions)
=============================================================================
