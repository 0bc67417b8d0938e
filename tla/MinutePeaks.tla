----------------------------- MODULE MinutePeaks -----------------------------
(***************************************************************************)
(* The volume-peak family of minute factors (factors/compute/minute): one  *)
(* symbol's one-minute bars arrive session by session, every visible       *)
(* minute is classified against the same minute of the sessions before     *)
(* (valley, peak or ridge), a session that clears a factor's floors is     *)
(* valid, and the factor reduces its trailing VALID sessions.              *)
(*                                                                         *)
(* A session is a function from Minutes to bars; the numbers of two        *)
(* neighbouring minutes differ by one, so the lunch break is a gap in      *)
(* Minutes.  Sums and ratios are kept as the integers they are made of: a  *)
(* value is the function from its sessions to what each contributes.       *)
(***************************************************************************)
EXTENDS Integers, Sequences, FiniteSets, FiniteSetsExt

CONSTANTS
    Minutes,          \* the minutes a bar may end at
    Cutoff, DataLag,  \* decision time, and how long after its end a bar is available
    Sessions,         \* what a session may print
    MaxDays,          \* bound: sessions of a behaviour
    BaselineDays, BaselineMinObs, SigmaK,
    LookbackDays, MinValidDays, MinClassifiable,
    MinValley, MinRidge, MinPeak, MinIntervals

NoBar == [vol |-> -1, amt |-> 0, close |-> 0]

PeaksAssumption ==
    /\ Minutes \subseteq Nat /\ IsFiniteSet(Minutes)
    /\ Cutoff \in Nat /\ DataLag \in Nat /\ MaxDays \in Nat
    /\ BaselineDays \in Nat \ {0} /\ BaselineMinObs \in Nat \ {0, 1} /\ SigmaK \in Nat
    /\ LookbackDays \in Nat \ {0} /\ MinValidDays \in Nat \ {0}
    /\ MinClassifiable \in Nat \ {0}
    /\ \A s \in Sessions : s \in [Minutes -> [vol : Int, amt : Int, close : Int]]

VARIABLES
    days,             \* the symbol's sessions, the bars received so far
    frame,            \* its classified bars
    value             \* the factors computed from them

vars == <<days, frame, value>>

FactorNames == {"count", "kurtosis", "relative_vwap", "valley_ridge", "ridge_return",
                "peak_ridge", "quantile"}

-----------------------------------------------------------------------------
(* What the decision sees.                                                 *)

OnTime(t) == t + DataLag <= Cutoff

(* A bug: only the signal day is cut, the sessions before it are whole.    *)
VisibleToday(dd, i) == {t \in Minutes : (i = Len(dd) => OnTime(t)) /\ dd[i][t].vol >= 0}

Visible(dd, i) == {t \in Minutes : OnTime(t) /\ dd[i][t].vol >= 0}

(* The rows of the day x slot table: sessions with a visible bar.          *)
TradingDays(dd) == {i \in DOMAIN dd : Visible(dd, i) # {}}

Latest(S, n) == {i \in S : Cardinality({j \in S : j > i}) < n}

Before(S, i) == {j \in S : j < i}

-----------------------------------------------------------------------------
(* The taxonomy.                                                           *)

(* A bug: the window counts a slot's own observations, however old.        *)
ObservationsByCount(dd, earlier, t) == Latest({j \in earlier : t \in Visible(dd, j)}, BaselineDays)

(* The earlier sessions a minute is compared with.                         *)
Observations(dd, earlier, t) == {j \in Latest(earlier, BaselineDays) : t \in Visible(dd, j)}

Total(v) == MapThenSumSet(LAMBDA x : v[x], DOMAIN v)

(* v > mean + SigmaK * sample deviation of the volumes, in integers.       *)
Exceeds(v, volumes) ==
    LET n == Cardinality(DOMAIN volumes)
        s == Total(volumes)
        q == Total([j \in DOMAIN volumes |-> volumes[j] * volumes[j]])
        d == n * v - s
    IN  d > 0 /\ d * d * (n - 1) > SigmaK * SigmaK * n * (n * q - s * s)

(* A bug: the visible bars next to it, however far away.                   *)
IsolatedAmongBars(t, seen, mild) ==
    LET before == Before(seen, t)
        after == {u \in seen : u > t}
    IN  before # {} /\ after # {} /\ {Max(before), Min(after)} \subseteq mild

(* Both neighbours exist one minute away and are mild.                     *)
Isolated(t, seen, mild) == {t - 1, t + 1} \subseteq mild

Classified(dd, i) ==
    LET seen == Visible(dd, i)
        earlier == Before(TradingDays(dd), i)
        classifiable ==
            {t \in seen : Cardinality(Observations(dd, earlier, t)) >= BaselineMinObs}
        eruptive ==
            {t \in classifiable :
                Exceeds(dd[i][t].vol, [j \in Observations(dd, earlier, t) |-> dd[j][t].vol])}
        peak == {t \in eruptive : Isolated(t, seen, classifiable \ eruptive)}
    IN  [seen |-> seen, classifiable |-> classifiable,
         valley |-> classifiable \ eruptive, peak |-> peak, ridge |-> eruptive \ peak]

Frame(dd) == [i \in TradingDays(dd) |-> Classified(dd, i)]

-----------------------------------------------------------------------------
(* What a session contributes to each factor.                              *)

Amounts(day, S) == [t \in S |-> day[t].amt]
Volumes(day, S) == [t \in S |-> day[t].vol]

(* Bars that trade: a price is their amount over their volume.             *)
Traded(day, S) == {t \in S : day[t].vol > 0 /\ day[t].amt > 0}

WithAmount(day, S) == {t \in S : day[t].amt > 0}

Priced(day, S) == {t \in S : day[t].close > 0}

Vwap(day, S) == <<Total(Amounts(day, S)), Total(Volumes(day, S))>>

(* The close before t on the same day, when both are usable.               *)
PreviousBar(seen, t) == Max(Before(seen, t))

Returning(day, seen, S) ==
    {t \in Priced(day, S) : Before(seen, t) # {} /\ day[PreviousBar(seen, t)].close > 0}

(* Minutes between consecutive peaks, counted in visible bars.             *)
Position(seen, t) == Cardinality(Before(seen, t))

Intervals(seen, peaks) ==
    [t \in {u \in peaks : Before(peaks, u) # {}} |->
        Position(seen, t) - Position(seen, Max(Before(peaks, t)))]

(* The last usable close of the trading day before i: none, or one.        *)
PreviousClose(dd, w, i) ==
    LET earlier == Before(DOMAIN w, i)
        usable == Priced(dd[Max(earlier)], w[Max(earlier)].seen)
    IN  IF earlier = {} THEN {}
        ELSE IF usable = {} THEN {} ELSE {dd[Max(earlier)][Max(usable)].close}

(* The prices a session's quantile is taken within.                        *)
PriceRange(dd, w, i) ==
    PreviousClose(dd, w, i) \cup {dd[i][t].close : t \in Priced(dd[i], w[i].seen)}

PeakCount(c) == Cardinality(c.peak)

RelativeVwap(day, c) == <<Vwap(day, Traded(day, c.valley)), Vwap(day, Traded(day, c.seen))>>

ValleyRidge(day, c) == <<Vwap(day, Traded(day, c.valley)), Vwap(day, Traded(day, c.ridge))>>

RidgeReturns(day, c) ==
    [t \in Returning(day, c.seen, c.ridge) |-> <<day[t].close, day[PreviousBar(c.seen, t)].close>>]

PeakRidge(day, c) ==
    <<Total(Amounts(day, WithAmount(day, c.peak))), Total(Amounts(day, WithAmount(day, c.ridge)))>>

PriceQuantile(dd, w, i) ==
    <<Vwap(dd[i], Traded(dd[i], w[i].valley)), Min(PriceRange(dd, w, i)), Max(PriceRange(dd, w, i))>>

Contribution(f, dd, w, i) ==
    CASE f = "count"         -> PeakCount(w[i])
      [] f = "kurtosis"      -> Intervals(w[i].seen, w[i].peak)
      [] f = "relative_vwap" -> RelativeVwap(dd[i], w[i])
      [] f = "valley_ridge"  -> ValleyRidge(dd[i], w[i])
      [] f = "ridge_return"  -> RidgeReturns(dd[i], w[i])
      [] f = "peak_ridge"    -> PeakRidge(dd[i], w[i])
      [] f = "quantile"      -> PriceQuantile(dd, w, i)

(* The floors a session must clear to take a slot of the trailing window.  *)
AtLeast(n, S) == Cardinality(S) >= n

ValleyFloor(day, c) == AtLeast(MinValley, Traded(day, c.valley))

ValleyRidgeFloor(day, c) == ValleyFloor(day, c) /\ AtLeast(MinRidge, Traded(day, c.ridge))

RidgeReturnFloor(day, c) == AtLeast(MinRidge, Returning(day, c.seen, c.ridge))

PeakRidgeFloor(day, c) ==
    /\ AtLeast(MinPeak, WithAmount(day, c.peak))
    /\ AtLeast(MinRidge, WithAmount(day, c.ridge))

QuantileFloor(dd, w, i) ==
    /\ ValleyFloor(dd[i], w[i])
    /\ PreviousClose(dd, w, i) # {}
    /\ Cardinality(PriceRange(dd, w, i)) > 1

ValidDay(f, dd, w, i) ==
    /\ AtLeast(MinClassifiable, w[i].classifiable)
    /\ f = "relative_vwap" => ValleyFloor(dd[i], w[i])
    /\ f = "valley_ridge" => ValleyRidgeFloor(dd[i], w[i])
    /\ f = "ridge_return" => RidgeReturnFloor(dd[i], w[i])
    /\ f = "peak_ridge" => PeakRidgeFloor(dd[i], w[i])
    /\ f = "quantile" => QuantileFloor(dd, w, i)

-----------------------------------------------------------------------------
(* The factor of a valid day: "nan" while its window is too short, else    *)
(* what the window's sessions contribute.                                  *)

(* Too few intervals, or all alike: no kurtosis.                           *)
Degenerate(pool) ==
    \/ Total([j \in DOMAIN pool |-> Cardinality(DOMAIN pool[j])]) < MinIntervals
    \/ Cardinality(UNION {{pool[j][t] : t \in DOMAIN pool[j]} : j \in DOMAIN pool}) = 1

Reduced(f, dd, w, window) ==
    LET pool == [j \in window |-> Contribution(f, dd, w, j)]
    IN  IF Cardinality(window) < MinValidDays \/ (f = "kurtosis" /\ Degenerate(pool))
        THEN [kind |-> "nan"] ELSE [kind |-> "value", pool |-> pool]

(* Only valid days have a value and take a slot.                           *)
Series(f, dd, w) ==
    LET valid == {i \in DOMAIN w : ValidDay(f, dd, w, i)}
    IN  [i \in valid |->
            Reduced(f, dd, w, Latest({j \in valid : j <= i}, LookbackDays))]

(* How many of the first loaded sessions may still change their class when *)
(* more history is loaded.                                                 *)
LockingOffset == BaselineDays

-----------------------------------------------------------------------------
Compute ==
    /\ frame' = Frame(days')
    /\ value' = [f \in FactorNames |-> Series(f, days', frame')]

Init ==
    /\ days = << >>
    /\ frame = << >>
    /\ value = [f \in FactorNames |-> << >>]

(* The next session, as it stands at the decision time.                    *)
NextSession ==
    /\ Len(days) < MaxDays
    /\ \E s \in Sessions :
         days' = Append(days, [t \in Minutes |-> IF OnTime(t) THEN s[t] ELSE NoBar])
    /\ Compute

(* The rest of the last session prints after the decision.                 *)
Afternoon ==
    /\ days # << >>
    /\ \E s \in Sessions :
         /\ s # days[Len(days)]
         /\ \A t \in Minutes : days[Len(days)][t] = IF OnTime(t) THEN s[t] ELSE NoBar
         /\ days' = [days EXCEPT ![Len(days)] = s]
    /\ Compute

Next == NextSession \/ Afternoon

Spec == Init /\ [][Next]_vars

-----------------------------------------------------------------------------
(* The sessions a behaviour can hold, and the frame and factors are those  *)
(* of the bars.                                                            *)
TypeOK ==
    /\ days \in Seq([Minutes -> [vol : Int, amt : Int, close : Int]]) /\ Len(days) <= MaxDays
    /\ frame = Frame(days)
    /\ value = [f \in FactorNames |-> Series(f, days, frame)]

(* A value, once published, never changes: neither the rest of its own     *)
(* session nor a later session reaches it, and none is published late.     *)
PastIsFinal ==
    [][\A name \in FactorNames : \A i \in DOMAIN days :
         /\ i \in DOMAIN value[name] <=> i \in DOMAIN value'[name]
         /\ i \in DOMAIN value[name] => value'[name][i] = value[name][i]]_vars

(* The history from session k on.                                          *)
From(k) == SubSeq(days, k, Len(days))

Locked(w, i) == Cardinality(Before(DOMAIN w, i)) >= LockingOffset

SameValue(part, whole, shift) ==
    /\ part.kind = whole.kind
    /\ part.kind = "value" =>
         \A j \in DOMAIN part.pool : whole.pool[j + shift] = part.pool[j]

(* A day with LockingOffset trading days loaded before it is classified as *)
(* with the whole history; and once LookbackDays valid days are locked the *)
(* value is the one the whole history gives.  The materializer stops       *)
(* loading history on the strength of this.                                *)
HistoryIsLocked ==
    \A k \in 2 .. Len(days) : \A w \in {Frame(From(k))} :
        /\ \A i \in DOMAIN w : Locked(w, i) => w[i] = frame[i + k - 1]
        /\ \A f \in FactorNames : \A part \in {Series(f, From(k), w)} :
             \A i \in DOMAIN part :
                Cardinality({j \in DOMAIN part : j <= i /\ Locked(w, j)}) >= LookbackDays
                => SameValue(part[i], value[f][i + k - 1], k - 1)

(* A minute that is missing never makes a peak of another: isolation must  *)
(* be seen, not presumed.  (Every session is the last one once.)           *)
MissingBarsMakeNoPeak ==
    \A i \in {Len(days)} \cap DOMAIN frame : \A t \in frame[i].seen :
        \A without \in {[days EXCEPT ![i][t] = NoBar]} :
            i \in TradingDays(without) => Classified(without, i).peak \subseteq frame[i].peak
=============================================================================
