-------------------------------- MODULE Verdict --------------------------------
(***************************************************************************)
(* The verdict rules of analytics/eval/verdict.py: three axes, each scored *)
(* PASS, FAIL, INSUFFICIENT_DATA or NOT_ASSESSED from the measured facts,  *)
(* and the deployment label derived from them.                             *)
(*                                                                         *)
(* A behaviour starts with the facts of one run and changes one thing      *)
(* about them per step; the properties compare the verdicts before and     *)
(* after.  A fact is a set: {v} when it is known, {} when it is NaN, None  *)
(* or absent.  Estimates are integers, every magnitude bar is Bar.         *)
(***************************************************************************)
EXTENDS Integers, FiniteSets

CONSTANTS Axis,    \* the axes whose facts vary in this instance
          Steps    \* bound: changes in a behaviour

VerdictAssumption ==
    /\ Axis \subseteq {"predictive", "incremental", "tradable"}
    /\ Steps \in Nat

Bar == 1
Unknown == {}
Pass == "PASS"
Fail == "FAIL"
Insufficient == "INSUFFICIENT_DATA"
NotAssessed == "NOT_ASSESSED"

VARIABLES f,      \* the facts, VerdictInputs
          steps

vars == <<f, steps>>

Abs(x) == IF x < 0 THEN -x ELSE x
Known(fact) == fact /= Unknown

-----------------------------------------------------------------------------
(* The comparisons: an unknown estimate clears nothing.                    *)

ClearsMagnitude(est) == \E v \in est : Abs(v) > Bar
ClearsLevel(est, bar) == \E v \in est : v > bar

(* _aligned_bounds: an interval times -1 swaps its ends.                   *)
AlignedBounds(ci) ==
    {IF f.sign = 1 THEN b ELSE <<-b[2], -b[1]>> : b \in ci}

LowerClears(ci) == \E b \in AlignedBounds(ci) : b[1] > Bar

(* _sample_gate_failures: raw floor, effective samples, calendar span.     *)
SampleGateFails ==
    \/ f.rebalances < Bar
    \/ ~ClearsLevel(f.effective, Bar - 1)
    \/ ~ClearsLevel(f.span, Bar - 1)

(* _monotonicity_direction: the interval decides; without one the bare     *)
(* point does, without that the pooled point, and these are two-valued.    *)
MonotonicityDirection ==
    IF Known(f.monoCI)
    THEN CASE \E b \in AlignedBounds(f.monoCI) : b[1] > 0 -> "HOLDS"
           [] \E b \in AlignedBounds(f.monoCI) : b[2] < 0 -> "CONTRADICTED"
           [] OTHER -> "UNKNOWN"
    ELSE LET point == IF Known(f.mono) THEN f.mono ELSE f.pooled
         IN  IF \E v \in point : f.sign * v > 0 THEN "HOLDS" ELSE "CONTRADICTED"

(* _has_core_point_signal                                                  *)
HasCorePointSignal ==
    ClearsMagnitude(f.icir) /\ ClearsMagnitude(f.nwt) /\ ClearsLevel(f.win, Bar)

(* A known reversal out of sample.                                         *)
Reversed == f.oos /\ (f.flipped \/ f.reversed)

(* Mutant: an unknown direction rescues a factor without a signal.         *)
UnknownRescues ==
    IF Reversed THEN Fail
    ELSE IF SampleGateFails \/ ~f.oos \/ MonotonicityDirection = "UNKNOWN"
         THEN Insufficient
    ELSE IF \/ ~f.consistent \/ ~HasCorePointSignal
            \/ MonotonicityDirection = "CONTRADICTED" THEN Fail
    ELSE IF LowerClears(f.icirCI) THEN Pass ELSE Insufficient

(* Axis A: the first case that holds.                                      *)
PredictiveAxis ==
    IF Reversed THEN Fail
    ELSE IF SampleGateFails \/ ~f.oos THEN Insufficient
    ELSE IF \/ ~f.consistent \/ ~HasCorePointSignal
            \/ MonotonicityDirection = "CONTRADICTED" THEN Fail
    ELSE IF MonotonicityDirection = "UNKNOWN" THEN Insufficient
    ELSE IF LowerClears(f.icirCI) THEN Pass ELSE Insufficient

(* Axis B: does it add to the known factors.                               *)
IncrementalAxis ==
    IF ~f.book THEN NotAssessed
    ELSE IF SampleGateFails \/ ~Known(f.incr) THEN Insufficient
    ELSE IF ~\E v \in f.incr : f.sign * v > 0 /\ Abs(v) > Bar THEN Fail
    ELSE IF LowerClears(f.incrCI) THEN Pass ELSE Insufficient

(* Mutant: the cost is turned round with the legs.                         *)
AlignedBySign(net) == {f.sign * net}

(* _aligned_net: the legs are flipped first, then the cost is subtracted.  *)
AlignedNet(net) ==
    IF f.sign = 1 THEN {net} ELSE {-g - (g - net) : g \in f.gross}

(* The net spread of each cost scenario that is known.                     *)
AlignedSpreads == UNION {AlignedNet(n[2]) : n \in f.nets}

AllSpreadsNegative == AlignedSpreads /= {} /\ \A s \in AlignedSpreads : s <= 0

BaseSpread == UNION {AlignedNet(n[2]) : n \in {m \in f.nets : m[1] = 1}}

(* Mutant: an execution fact that is missing counts as a failed one.       *)
MissingFails ==
    IF ~Known(f.tradable) /\ ~Known(f.capacity) THEN NotAssessed
    ELSE IF f.tradable # {TRUE} \/ f.capacity # {TRUE} \/ AllSpreadsNegative
         THEN Fail
    ELSE IF ClearsLevel(BaseSpread, 0) THEN Pass ELSE Insufficient

(* Axis C: can it be harvested.                                            *)
TradableAxis ==
    IF ~Known(f.tradable) /\ ~Known(f.capacity) THEN NotAssessed
    ELSE IF FALSE \in f.tradable \/ FALSE \in f.capacity \/ AllSpreadsNegative
         THEN Fail
    ELSE IF TRUE \in f.tradable /\ TRUE \in f.capacity /\ ClearsLevel(BaseSpread, 0)
         THEN Pass ELSE Insufficient

Axes == <<PredictiveAxis, IncrementalAxis, TradableAxis>>

(* _derive_deployment                                                      *)
Label ==
    CASE \E a \in 1..3 : Axes[a] = Fail -> "Reject"
      [] \A a \in 1..3 : Axes[a] = Pass ->
            IF f.exploratory THEN "Watch" ELSE "Adopt"
      [] /\ \A a \in 1..3 : Axes[a] /= Fail
         /\ \E a \in 1..3 : Axes[a] = Pass
         /\ \E a \in 1..3 : Axes[a] /= Pass -> "Watch"
      [] OTHER -> "INSUFFICIENT-DATA"

Rank == [l \in {"Reject", "INSUFFICIENT-DATA", "Watch", "Adopt"} |->
            CASE l = "Reject" -> 0 [] l = "INSUFFICIENT-DATA" -> 1
              [] l = "Watch" -> 2 [] l = "Adopt" -> 3]

-----------------------------------------------------------------------------
(* The facts of a run.                                                     *)

(* An estimate and an interval around it, either of them possibly unknown. *)
Estimates ==
    {[at |-> {v}, ci |-> {<<v - w, v + w>>}] : v \in {-3, -1, 0, 1, 3}, w \in {1, 3}}
        \cup {[at |-> {3}, ci |-> Unknown], [at |-> Unknown, ci |-> Unknown]}

Maybe(S) == {Unknown} \cup {{v} : v \in S}

(* The facts that pass every axis; each instance varies some of them.      *)
Perfect ==
    [sign |-> 1, exploratory |-> FALSE, rebalances |-> 1, effective |-> {1},
     span |-> {1}, icir |-> {3}, icirCI |-> {<<2, 4>>}, nwt |-> {3}, win |-> {2},
     mono |-> {1}, monoCI |-> {<<1, 1>>}, pooled |-> {1}, oos |-> TRUE,
     consistent |-> TRUE, flipped |-> FALSE, reversed |-> FALSE, book |-> TRUE,
     incr |-> {3}, incrCI |-> {<<2, 4>>}, gross |-> {3}, nets |-> {<<1, 2>>, <<2, 1>>},
     tradable |-> {TRUE}, capacity |-> {TRUE}]

(* The perfect facts but for an estimate e, monotonicity m and the rest.   *)
WithPredictive(e, m, n, w, p, o, c, l, x) ==
    [Perfect EXCEPT !.icir = e.at, !.icirCI = e.ci, !.nwt = n, !.win = w,
                    !.mono = m.at, !.monoCI = m.ci, !.pooled = p,
                    !.oos = o, !.consistent = c, !.flipped = l, !.exploratory = x]

Monotonicities ==
    {[at |-> {1}, ci |-> {<<1, 1>>}], [at |-> {1}, ci |-> {<<0, 2>>}],
     [at |-> {1}, ci |-> Unknown], [at |-> {-1}, ci |-> {<<-2, -1>>}],
     [at |-> Unknown, ci |-> Unknown]}

(* A sign that holds in both halves of the holdout has not flipped.        *)
PredictiveFacts ==
    {r \in {WithPredictive(e, m, n, w, p, o, c, l, x) :
              e \in {y \in Estimates : Known(y.at)}, m \in Monotonicities,
              n \in {{0}, {3}}, w \in {{1}, {2}}, p \in Maybe({-1, 1}),
              o, c, l, x \in BOOLEAN} : r.consistent => ~r.flipped}

WithIncremental(e, b, o) ==
    [Perfect EXCEPT !.incr = e.at, !.incrCI = e.ci, !.book = b, !.oos = o]

IncrementalFacts == {WithIncremental(e, b, o) : e \in Estimates, b, o \in BOOLEAN}

WithTradable(g, n, t, c) ==
    [Perfect EXCEPT !.gross = g, !.nets = n, !.tradable = t, !.capacity = c]

Nets == {{}} \cup {{<<1, 1 - k>>, <<2, 1 - 2 * k>>} : k \in 0..2}
             \cup {{<<1, 3 - k>>, <<2, 3 - 2 * k>>} : k \in 0..2}

TradableFacts ==
    {WithTradable(g, n, t, c) : g \in Maybe({-2, 0, 1, 3}), n \in Nets, t, c \in Maybe(BOOLEAN)}

Init ==
    /\ steps = 0
    /\ f \in (IF "predictive" \in Axis THEN PredictiveFacts ELSE {})
               \cup (IF "incremental" \in Axis THEN IncrementalFacts ELSE {})
               \cup (IF "tradable" \in Axis THEN TradableFacts ELSE {})

Step == steps < Steps /\ steps' = steps + 1

Negated(est) == {-v : v \in est}
NegatedCI(ci) == {<<-b[2], -b[1]>> : b \in ci}

(* The same measurements under the opposite hypothesis of a factor that is *)
(* the same one with its sign turned; a cost stays a cost.                 *)
Mirror ==
    /\ Step
    /\ \A n \in f.nets : Known(f.gross)
    /\ f' = [f EXCEPT !.sign = -@, !.icir = Negated(@), !.icirCI = NegatedCI(@),
                      !.nwt = Negated(@), !.mono = Negated(@),
                      !.monoCI = NegatedCI(@), !.pooled = Negated(@),
                      !.incr = Negated(@), !.incrCI = NegatedCI(@),
                      !.gross = Negated(@),
                      !.nets = {<<n[1], -g - (g - n[2])>> : n \in @, g \in f.gross}]

Shifted(est, d) == {v + d : v \in est}
ShiftedCI(ci, d) == {<<b[1] + d, b[2] + d>> : b \in ci}

(* One measurement comes out stronger in the direction of the hypothesis,  *)
(* or the trading costs come out lower.  The magnitude bar reads |ICIR|,   *)
(* so only one that points there already can come out stronger.            *)
Strengthen ==
    /\ Step
    /\ \/ /\ \A v \in f.icir : f.sign * v >= 0
          /\ f' = [f EXCEPT !.icir = Shifted(@, f.sign), !.icirCI = ShiftedCI(@, f.sign)]
       \/ f' = [f EXCEPT !.nwt = {IF v < 0 THEN v - 1 ELSE v + 1 : v \in @}]
       \/ f' = [f EXCEPT !.win = Shifted(@, 1)]
       \/ f' = [f EXCEPT !.mono = Shifted(@, f.sign), !.monoCI = ShiftedCI(@, f.sign)]
       \/ f' = [f EXCEPT !.pooled = Shifted(@, f.sign)]
       \/ f' = [f EXCEPT !.incr = Shifted(@, f.sign), !.incrCI = ShiftedCI(@, f.sign)]
       \/ f' = [f EXCEPT !.gross = Shifted(@, f.sign),
                         !.nets = {<<n[1], n[2] + f.sign>> : n \in @}]
       \/ /\ \A n \in f.nets, g \in f.gross : n[2] < g
          /\ f' = [f EXCEPT !.nets = {<<n[1], n[2] + 1>> : n \in @}]

(* What may be missing together: all of a section that was skipped, an     *)
(* estimate with its interval, an interval alone, a fact that is not a     *)
(* number, the sign in a half of the holdout.                              *)
Losses ==
    {{"icir", "icirCI", "nwt", "win"}, {"mono", "monoCI", "pooled", "gross", "nets"},
     {"book", "incr", "incrCI"}, {"oos", "consistent", "flipped", "reversed"},
     {"tradable", "capacity"},
     {"icir", "icirCI"}, {"icirCI"}, {"nwt"}, {"mono", "monoCI"}, {"monoCI"},
     {"gross", "nets"}, {"incr", "incrCI"}, {"incrCI"}, {"tradable"}, {"capacity"},
     {"consistent"}}

(* A flag that is absent reads FALSE, any other fact is unknown.           *)
Absent(x) ==
    IF x \in {"book", "oos", "consistent", "flipped", "reversed"} THEN FALSE ELSE Unknown

(* A measurement is missing.                                               *)
Forget ==
    /\ Step
    /\ \E lost \in Losses :
         f' = [x \in DOMAIN f |-> IF x \in lost THEN Absent(x) ELSE f[x]]

(* The same estimates from too few observations.                           *)
Thin ==
    /\ Step
    /\ \/ f' = [f EXCEPT !.rebalances = 0]
       \/ \E n \in {Unknown, {0}} : f' = [f EXCEPT !.effective = n]
       \/ \E n \in {Unknown, {0}} : f' = [f EXCEPT !.span = n]

Next == Mirror \/ Strengthen \/ Forget \/ Thin

Spec == Init /\ [][Next]_vars

-----------------------------------------------------------------------------
(* The rules are sign-safe: the mirrored measurements under the mirrored   *)
(* hypothesis get the same verdict on every axis, costs included.          *)
MirrorKeepsTheVerdict == [][Mirror => Axes' = Axes /\ Label' = Label]_vars

(* No rule punishes better evidence: a stronger estimate or a lower cost   *)
(* never lowers the label, whatever else is unknown.                       *)
StrongerIsNotWorse == [][Strengthen => Rank[Label'] >= Rank[Label]]_vars

(* The asymmetric gate: a thinner sample never convicts and never earns an *)
(* Adopt, and a known reversal or execution failure convicts all the same. *)
GateOnlyWithholdsClaims ==
    [][Thin => /\ Label' = "Reject" => Label = "Reject"
               /\ Label' = "Adopt" => Label = "Adopt"
               /\ Reversed \/ TradableAxis = Fail => Label' = "Reject"]_vars

(* The module's rule that unknown never convicts: a missing measurement    *)
(* does not turn another label into a Reject.                              *)
UnknownNeverConvicts == [][Forget => (Label' = "Reject" => Label = "Reject")]_vars

(* The facts a factor must have to be more than a factor without a signal: *)
(* a monotonicity, the sign in both halves of the holdout, and the point   *)
(* estimates of the rank IC.                                               *)
Signal == {"mono", "monoCI", "pooled", "consistent", "icir", "nwt", "win"}

(* What holds of it: a missing measurement fails no axis but the first,    *)
(* that only on a sufficient sample with a holdout, and only where a fact  *)
(* of the signal is what is missing.  No missing interval of the ICIR, no  *)
(* residual IC, spread, execution fact or skipped holdout convicts.        *)
OnlyALostSignalConvicts ==
    [][Forget => \A a \in 1..3 : Axes'[a] = Fail =>
         \/ Axes[a] = Fail
         \/ /\ a = 1 /\ f.oos /\ ~SampleGateFails
            /\ \E x \in Signal : f'[x] # f[x]]_vars
=============================================================================
