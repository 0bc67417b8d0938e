-------------------------- MODULE MCResearch_proofs --------------------------
(***************************************************************************)
(* Proofs about the parts of a research run that MCResearch checks side by *)
(* side, for every value of their constants: the verdict rules, the        *)
(* reconciliation of two panels, the monthly backtest, the materialization *)
(* engine, the minute-bar factors and the volume-peak factors.  A          *)
(* behaviour of MCSpec moves one part and leaves the variables of the      *)
(* others alone, so each has an inductive invariant over its own.          *)
(***************************************************************************)
EXTENDS MCResearch, FiniteSetTheorems, WellFoundedInduction, TLAPS

-----------------------------------------------------------------------------
(* The verdict rules.                                                      *)

(* An interval is unknown, or one pair of ends in order.                   *)
Interval ==
    {ci \in SUBSET (Int \X Int) : /\ \A b, c \in ci : b = c
                                  /\ \A b \in ci : b[1] <= b[2]}

(* The facts, unknown or not; the gross spread is one number if it is known. *)
Facts ==
    [sign : {1, -1}, exploratory : BOOLEAN, rebalances : Int, effective : SUBSET Int,
     span : SUBSET Int, icir : SUBSET Int, icirCI : Interval, nwt : SUBSET Int,
     win : SUBSET Int, mono : SUBSET Int, monoCI : Interval, pooled : SUBSET Int,
     oos : BOOLEAN, consistent : BOOLEAN, flipped : BOOLEAN, reversed : BOOLEAN,
     book : BOOLEAN, incr : SUBSET Int, incrCI : Interval,
     gross : {g \in SUBSET Int : \A a, b \in g : a = b}, nets : SUBSET (Int \X Int),
     tradable : SUBSET BOOLEAN, capacity : SUBSET BOOLEAN]

LEMMA IntervalTypes ==
    /\ {} \in Interval
    /\ \A a, b \in Int : a <= b => {<<a, b>>} \in Interval
    /\ \A ci \in Interval : Rules!NegatedCI(ci) \in Interval
    /\ \A ci \in Interval, d \in Int : Rules!ShiftedCI(ci, d) \in Interval
PROOF
  <1>1. \A a, b \in Int : a <= b => {<<a, b>>} \in Interval
    BY DEF Interval
  <1>2. ASSUME NEW ci \in Interval PROVE Rules!NegatedCI(ci) \in Interval
    BY DEF Interval, Rules!NegatedCI
  <1>3. ASSUME NEW ci \in Interval, NEW d \in Int PROVE Rules!ShiftedCI(ci, d) \in Interval
    BY DEF Interval, Rules!ShiftedCI
  <1> QED
    BY <1>1, <1>2, <1>3 DEF Interval

LEMMA EstimateTypes ==
    /\ \A e \in SUBSET Int : Rules!Negated(e) \in SUBSET Int
    /\ \A e \in SUBSET Int, d \in Int : Rules!Shifted(e, d) \in SUBSET Int
  BY DEF Rules!Negated, Rules!Shifted

(* One spread, or none.                                                    *)
Spread == {g \in SUBSET Int : \A a, b \in g : a = b}

LEMMA FactsStep == f \in Facts /\ Rules!Next => f' \in Facts
PROOF
  <1> SUFFICES ASSUME f \in Facts, Rules!Next PROVE f' \in Facts
    OBVIOUS
  <1>1. /\ f.sign \in {1, -1} /\ -f.sign \in {1, -1} /\ f.sign \in Int
        /\ {f.icir, f.nwt, f.win, f.mono, f.pooled, f.incr} \subseteq SUBSET Int
        /\ {f.icirCI, f.monoCI, f.incrCI} \subseteq Interval
        /\ f.gross \in Spread /\ f.nets \in SUBSET (Int \X Int)
    BY DEF Facts, Spread
  <1>2. CASE Rules!Mirror
    <2> DEFINE turned == {<<n[1], -g - (g - n[2])>> : n \in f.nets, g \in f.gross}
    <2>1. turned \in SUBSET (Int \X Int)
      BY <1>1 DEF Spread
    <2>2. Rules!Negated(f.gross) \in Spread
      BY <1>1 DEF Spread, Rules!Negated
    <2>3. /\ {Rules!Negated(f.icir), Rules!Negated(f.nwt), Rules!Negated(f.mono),
              Rules!Negated(f.pooled), Rules!Negated(f.incr)} \subseteq SUBSET Int
          /\ {Rules!NegatedCI(f.icirCI), Rules!NegatedCI(f.monoCI), Rules!NegatedCI(f.incrCI)}
                \subseteq Interval
      BY <1>1, IntervalTypes, EstimateTypes
    <2>4. f' = [f EXCEPT !.sign = -f.sign, !.icir = Rules!Negated(f.icir),
                         !.icirCI = Rules!NegatedCI(f.icirCI), !.nwt = Rules!Negated(f.nwt),
                         !.mono = Rules!Negated(f.mono),
                         !.monoCI = Rules!NegatedCI(f.monoCI),
                         !.pooled = Rules!Negated(f.pooled), !.incr = Rules!Negated(f.incr),
                         !.incrCI = Rules!NegatedCI(f.incrCI),
                         !.gross = Rules!Negated(f.gross), !.nets = turned]
      BY <1>2 DEF Rules!Mirror, Facts
    <2> HIDE DEF turned
    <2> QED
      BY <1>1, <2>1, <2>2, <2>3, <2>4, ZenonT(60) DEF Facts, Spread
  <1>3. CASE Rules!Strengthen
    <2>1. {IF v < 0 THEN v - 1 ELSE v + 1 : v \in f.nwt} \in SUBSET Int
      BY <1>1
    <2>2. /\ {<<n[1], n[2] + f.sign>> : n \in f.nets} \in SUBSET (Int \X Int)
          /\ {<<n[1], n[2] + 1>> : n \in f.nets} \in SUBSET (Int \X Int)
      BY <1>1
    <2>3. Rules!Shifted(f.gross, f.sign) \in Spread
      BY <1>1 DEF Spread, Rules!Shifted
    <2>4. /\ {Rules!Shifted(f.icir, f.sign), Rules!Shifted(f.win, 1),
              Rules!Shifted(f.mono, f.sign), Rules!Shifted(f.pooled, f.sign),
              Rules!Shifted(f.incr, f.sign)} \subseteq SUBSET Int
          /\ {Rules!ShiftedCI(f.icirCI, f.sign), Rules!ShiftedCI(f.monoCI, f.sign),
              Rules!ShiftedCI(f.incrCI, f.sign)} \subseteq Interval
      BY <1>1, IntervalTypes, EstimateTypes
    <2>5. CASE f' = [f EXCEPT !.icir = Rules!Shifted(@, f.sign),
                              !.icirCI = Rules!ShiftedCI(@, f.sign)]
      BY <2>4, <2>5 DEF Facts
    <2>6. CASE f' = [f EXCEPT !.nwt = {IF v < 0 THEN v - 1 ELSE v + 1 : v \in @}]
      BY <2>1, <2>6 DEF Facts
    <2>7. CASE f' = [f EXCEPT !.win = Rules!Shifted(@, 1)]
      BY <2>4, <2>7 DEF Facts
    <2>8. CASE f' = [f EXCEPT !.mono = Rules!Shifted(@, f.sign),
                              !.monoCI = Rules!ShiftedCI(@, f.sign)]
      BY <2>4, <2>8 DEF Facts
    <2>9. CASE f' = [f EXCEPT !.pooled = Rules!Shifted(@, f.sign)]
      BY <2>4, <2>9 DEF Facts
    <2>10. CASE f' = [f EXCEPT !.incr = Rules!Shifted(@, f.sign),
                               !.incrCI = Rules!ShiftedCI(@, f.sign)]
      BY <2>4, <2>10 DEF Facts
    <2>11. CASE f' = [f EXCEPT !.gross = Rules!Shifted(@, f.sign),
                               !.nets = {<<n[1], n[2] + f.sign>> : n \in @}]
      BY <2>2, <2>3, <2>11 DEF Facts, Spread
    <2>12. CASE f' = [f EXCEPT !.nets = {<<n[1], n[2] + 1>> : n \in @}]
      BY <2>2, <2>12 DEF Facts
    <2> QED
      BY <1>3, <2>5, <2>6, <2>7, <2>8, <2>9, <2>10, <2>11, <2>12 DEF Rules!Strengthen
  <1>4. CASE Rules!Forget
    <2>1. {} \in Interval /\ {} \in Spread
      BY IntervalTypes DEF Spread
    <2>2. PICK lost \in Rules!Losses :
             f' = [x \in DOMAIN f |-> IF x \in lost THEN Rules!Absent(x) ELSE f[x]]
      BY <1>4 DEF Rules!Forget
    <2>3. /\ lost \cap {"sign", "exploratory", "rebalances", "effective", "span"} = {}
          /\ \A x \in lost : Rules!Absent(x) =
               IF x \in {"book", "oos", "consistent", "flipped", "reversed"} THEN FALSE ELSE {}
      BY DEF Rules!Losses, Rules!Absent, Rules!Unknown
    <2>4. DOMAIN f = {"sign", "exploratory", "rebalances", "effective", "span", "icir", "icirCI",
                      "nwt", "win", "mono", "monoCI", "pooled", "oos", "consistent", "flipped",
                      "reversed", "book", "incr", "incrCI", "gross", "nets", "tradable",
                      "capacity"}
      BY DEF Facts
    <2>5. /\ f'.sign = f.sign /\ f'.exploratory = f.exploratory
          /\ f'.rebalances = f.rebalances /\ f'.effective = f.effective /\ f'.span = f.span
      BY <2>2, <2>3, <2>4
    <2>6. /\ f'.icir \in {f.icir, {}} /\ f'.icirCI \in {f.icirCI, {}}
          /\ f'.nwt \in {f.nwt, {}} /\ f'.win \in {f.win, {}}
          /\ f'.mono \in {f.mono, {}} /\ f'.monoCI \in {f.monoCI, {}}
          /\ f'.pooled \in {f.pooled, {}}
          /\ f'.incr \in {f.incr, {}} /\ f'.incrCI \in {f.incrCI, {}}
          /\ f'.gross \in {f.gross, {}} /\ f'.nets \in {f.nets, {}}
          /\ f'.tradable \in {f.tradable, {}} /\ f'.capacity \in {f.capacity, {}}
      BY <2>2, <2>3, <2>4
    <2>7. /\ f'.oos \in {f.oos, FALSE} /\ f'.consistent \in {f.consistent, FALSE}
          /\ f'.flipped \in {f.flipped, FALSE} /\ f'.reversed \in {f.reversed, FALSE}
          /\ f'.book \in {f.book, FALSE}
      BY <2>2, <2>3, <2>4
    <2>8. f' = [sign |-> f'.sign, exploratory |-> f'.exploratory, rebalances |-> f'.rebalances,
                effective |-> f'.effective, span |-> f'.span, icir |-> f'.icir,
                icirCI |-> f'.icirCI, nwt |-> f'.nwt, win |-> f'.win, mono |-> f'.mono,
                monoCI |-> f'.monoCI, pooled |-> f'.pooled, oos |-> f'.oos,
                consistent |-> f'.consistent, flipped |-> f'.flipped, reversed |-> f'.reversed,
                book |-> f'.book, incr |-> f'.incr, incrCI |-> f'.incrCI, gross |-> f'.gross,
                nets |-> f'.nets, tradable |-> f'.tradable, capacity |-> f'.capacity]
      BY <2>2, <2>4
    <2>9. /\ f'.sign \in {1, -1} /\ f'.exploratory \in BOOLEAN
          /\ f'.rebalances \in Int /\ f'.effective \in SUBSET Int /\ f'.span \in SUBSET Int
          /\ f'.icir \in SUBSET Int /\ f'.icirCI \in Interval
          /\ f'.nwt \in SUBSET Int /\ f'.win \in SUBSET Int
          /\ f'.mono \in SUBSET Int /\ f'.monoCI \in Interval /\ f'.pooled \in SUBSET Int
          /\ f'.oos \in BOOLEAN /\ f'.consistent \in BOOLEAN /\ f'.flipped \in BOOLEAN
          /\ f'.reversed \in BOOLEAN /\ f'.book \in BOOLEAN
          /\ f'.incr \in SUBSET Int /\ f'.incrCI \in Interval
          /\ f'.gross \in Spread /\ f'.nets \in SUBSET (Int \X Int)
          /\ f'.tradable \in SUBSET BOOLEAN /\ f'.capacity \in SUBSET BOOLEAN
      <3>1. /\ f.sign \in {1, -1} /\ f.exploratory \in BOOLEAN
            /\ f.rebalances \in Int /\ f.effective \in SUBSET Int /\ f.span \in SUBSET Int
            /\ f.icir \in SUBSET Int /\ f.icirCI \in Interval
            /\ f.nwt \in SUBSET Int /\ f.win \in SUBSET Int
            /\ f.mono \in SUBSET Int /\ f.monoCI \in Interval /\ f.pooled \in SUBSET Int
            /\ f.oos \in BOOLEAN /\ f.consistent \in BOOLEAN /\ f.flipped \in BOOLEAN
            /\ f.reversed \in BOOLEAN /\ f.book \in BOOLEAN
            /\ f.incr \in SUBSET Int /\ f.incrCI \in Interval
            /\ f.gross \in Spread /\ f.nets \in SUBSET (Int \X Int)
            /\ f.tradable \in SUBSET BOOLEAN /\ f.capacity \in SUBSET BOOLEAN
        BY DEF Facts, Spread
      <3>2. /\ f'.sign \in {1, -1} /\ f'.exploratory \in BOOLEAN
            /\ f'.rebalances \in Int /\ f'.effective \in SUBSET Int /\ f'.span \in SUBSET Int
        BY <2>5, <3>1
      <3>3. /\ f'.icirCI \in Interval /\ f'.monoCI \in Interval /\ f'.incrCI \in Interval
            /\ f'.gross \in Spread
        BY <2>1, <2>6, <3>1
      <3>4. /\ f'.icir \in SUBSET Int /\ f'.nwt \in SUBSET Int /\ f'.win \in SUBSET Int
            /\ f'.mono \in SUBSET Int /\ f'.pooled \in SUBSET Int /\ f'.incr \in SUBSET Int
        BY <2>6, <3>1
      <3>5. /\ f'.nets \in SUBSET (Int \X Int)
            /\ f'.tradable \in SUBSET BOOLEAN /\ f'.capacity \in SUBSET BOOLEAN
        BY <2>6, <3>1
      <3>6. /\ f'.oos \in BOOLEAN /\ f'.consistent \in BOOLEAN /\ f'.flipped \in BOOLEAN
            /\ f'.reversed \in BOOLEAN /\ f'.book \in BOOLEAN
        BY <2>7, <3>1
      <3> QED
        BY <3>2, <3>3, <3>4, <3>5, <3>6
    <2> QED
      BY <2>8, <2>9, ZenonT(60) DEF Facts, Spread
  <1>5. CASE Rules!Thin
    BY <1>5 DEF Rules!Thin, Rules!Unknown, Facts
  <1> QED
    BY <1>2, <1>3, <1>4, <1>5 DEF Rules!Next

LEMMA FactsInit == MCInit /\ which = "rules" => f \in Facts
PROOF
  <1> SUFFICES ASSUME MCInit, which = "rules" PROVE f \in Facts
    OBVIOUS
  <1>1. /\ {} \in Interval /\ \A a, b \in Int : a <= b => {<<a, b>>} \in Interval
        /\ \A a \in Int : {a} \in Spread
        /\ {} \in Spread
    BY IntervalTypes DEF Spread
  <1>2. ASSUME NEW e \in Rules!Estimates PROVE e.at \in SUBSET Int /\ e.ci \in Interval
    <2>1. CASE \E v \in {-3, -1, 0, 1, 3}, w \in {1, 3} :
                  e = [at |-> {v}, ci |-> {<<v - w, v + w>>}]
      <3>1. PICK v \in {-3, -1, 0, 1, 3}, w \in {1, 3} :
               e = [at |-> {v}, ci |-> {<<v - w, v + w>>}]
        BY <2>1
      <3>2. {<<v - w, v + w>>} \in Interval
        <4>1. v - w \in Int /\ v + w \in Int /\ v - w <= v + w
          OBVIOUS
        <4> QED
          BY <1>1, <4>1
      <3> QED
        BY <3>1, <3>2
    <2>2. CASE e = [at |-> {3}, ci |-> {}]
      BY <1>1, <2>2
    <2>3. CASE e = [at |-> {}, ci |-> {}]
      BY <1>1, <2>3
    <2> QED
      BY <2>1, <2>2, <2>3 DEF Rules!Estimates, Rules!Unknown
  <1>3. Rules!Perfect \in Facts
    BY <1>1 DEF Rules!Perfect, Facts, Spread
  <1>4. CASE f \in Rules!PredictiveFacts
    <2>1. PICK e \in Rules!Estimates, m \in Rules!Monotonicities, n \in {{0}, {3}},
               w \in {{1}, {2}}, p \in Rules!Maybe({-1, 1}), o \in BOOLEAN, c \in BOOLEAN,
               l \in BOOLEAN, x \in BOOLEAN :
             f = Rules!WithPredictive(e, m, n, w, p, o, c, l, x)
      BY <1>4 DEF Rules!PredictiveFacts
    <2>2. m.at \in SUBSET Int /\ m.ci \in Interval
      <3>1. /\ {<<1, 1>>} \in Interval /\ {<<0, 2>>} \in Interval
            /\ {<<-2, -1>>} \in Interval
        BY <1>1
      <3>2. {1} \in SUBSET Int /\ {-1} \in SUBSET Int /\ {} \in SUBSET Int
        OBVIOUS
      <3>3. CASE m = [at |-> {1}, ci |-> {<<1, 1>>}] \/ m = [at |-> {1}, ci |-> {<<0, 2>>}]
        BY <3>1, <3>2, <3>3
      <3>4. CASE m = [at |-> {1}, ci |-> {}]
        BY <1>1, <3>2, <3>4
      <3>6. CASE m = [at |-> {}, ci |-> {}]
        BY <1>1, <3>2, <3>6
      <3>5. CASE m = [at |-> {-1}, ci |-> {<<-2, -1>>}]
        BY <3>1, <3>2, <3>5
      <3> QED
        BY <3>3, <3>4, <3>5, <3>6 DEF Rules!Monotonicities, Rules!Unknown
    <2>3. p \in SUBSET Int
      BY DEF Rules!Maybe, Rules!Unknown
    <2>4. n \in SUBSET Int /\ w \in SUBSET Int
      OBVIOUS
    <2>5. e.at \in SUBSET Int /\ e.ci \in Interval
      BY <1>2
    <2>6. [Rules!Perfect EXCEPT !.icir = e.at, !.icirCI = e.ci, !.nwt = n, !.win = w,
                                !.mono = m.at, !.monoCI = m.ci] \in Facts
      BY <1>3, <2>2, <2>4, <2>5 DEF Facts
    <2>7. ASSUME NEW r \in Facts
          PROVE  [r EXCEPT !.pooled = p, !.oos = o, !.consistent = c] \in Facts
      BY <2>3, ZenonT(60) DEF Facts
    <2>8. ASSUME NEW r \in Facts
          PROVE  [r EXCEPT !.flipped = l, !.exploratory = x] \in Facts
      BY ZenonT(60) DEF Facts
    <2> QED
      BY <2>1, <2>6, <2>7, <2>8 DEF Rules!WithPredictive
  <1>5. CASE f \in Rules!IncrementalFacts
    <2>1. PICK e \in Rules!Estimates, b \in BOOLEAN, o \in BOOLEAN :
             f = Rules!WithIncremental(e, b, o)
      BY <1>5 DEF Rules!IncrementalFacts
    <2>2. e.at \in SUBSET Int /\ e.ci \in Interval
      BY <1>2
    <2> QED
      BY <1>3, <2>1, <2>2, ZenonT(60) DEF Rules!WithIncremental, Facts
  <1>6. CASE f \in Rules!TradableFacts
    <2>1. PICK g \in Rules!Maybe({-2, 0, 1, 3}), n \in Rules!Nets, t \in Rules!Maybe(BOOLEAN),
               c \in Rules!Maybe(BOOLEAN) : f = Rules!WithTradable(g, n, t, c)
      BY <1>6 DEF Rules!TradableFacts
    <2>2. g \in Spread
      <3>1. g = {} \/ \E v \in Int : g = {v}
        BY DEF Rules!Maybe, Rules!Unknown
      <3> QED
        BY <1>1, <3>1
    <2>4. t \in SUBSET BOOLEAN /\ c \in SUBSET BOOLEAN
      BY DEF Rules!Maybe, Rules!Unknown
    <2>3. n \in SUBSET (Int \X Int)
      BY DEF Rules!Nets
    <2> QED
      BY <1>3, <2>1, <2>2, <2>3, <2>4 DEF Rules!WithTradable, Facts, Spread
  <1> QED
    BY <1>4, <1>5, <1>6 DEF MCInit, Rules!Init

(***************************************************************************)
(* The mirror: a factor and its negation, measured alike.                  *)
(***************************************************************************)
Aligned(s, ci) == {IF s = 1 THEN b ELSE <<-b[2], -b[1]>> : b \in ci}

LEMMA MirroredIntervals ==
  ASSUME NEW s \in {1, -1}, NEW ci \in Interval
  PROVE  /\ Aligned(-s, Rules!NegatedCI(ci)) = Aligned(s, ci)
         /\ Rules!NegatedCI(ci) = {} <=> ci = {}
PROOF
  <1> DEFINE turn(b) == <<-b[2], -b[1]>>
             turned == Rules!NegatedCI(ci)
  <1>1. \A b \in ci : turn(turn(b)) = b
    BY DEF Interval
  <1>2. turned = {turn(b) : b \in ci}
    BY DEF Rules!NegatedCI
  <1>3. /\ s = 1 => Aligned(s, ci) = ci /\ Aligned(-s, turned) = {turn(b) : b \in turned}
        /\ s = -1 => Aligned(s, ci) = {turn(b) : b \in ci} /\ Aligned(-s, turned) = turned
    BY DEF Aligned
  <1> HIDE DEF turn, turned
  <1>4. {turn(b) : b \in turned} = ci
    BY <1>1, <1>2
  <1> QED
    BY <1>2, <1>3, <1>4 DEF turned

LEMMA MirroredEstimates ==
  ASSUME NEW s \in {1, -1}, NEW e \in SUBSET Int
  PROVE  /\ Rules!ClearsMagnitude(Rules!Negated(e)) <=> Rules!ClearsMagnitude(e)
         /\ (\E v \in Rules!Negated(e) : (-s) * v > 0) <=> (\E v \in e : s * v > 0)
         /\ (\E v \in Rules!Negated(e) : (-s) * v > 0 /\ Rules!Abs(v) > Rules!Bar)
              <=> (\E v \in e : s * v > 0 /\ Rules!Abs(v) > Rules!Bar)
         /\ Rules!Negated(e) = {} <=> e = {}
PROOF
  <1>1. \A v \in e : -v \in Rules!Negated(e)
    BY DEF Rules!Negated
  <1>2. \A w \in Rules!Negated(e) : -w \in e
    BY DEF Rules!Negated
  <1>3. \A v \in Int : /\ (-s) * (-v) = s * v /\ -(-v) = v
                       /\ Rules!Abs(-v) = Rules!Abs(v)
    BY DEF Rules!Abs
  <1>4. Rules!Negated(e) \in SUBSET Int
    BY DEF Rules!Negated
  <1>5. \A w \in Rules!Negated(e) : (-s) * w = s * (-w) /\ Rules!Abs(-w) = Rules!Abs(w)
    BY <1>3, <1>4 
  <1> QED
    BY <1>1, <1>2, <1>3, <1>4, <1>5 DEF Rules!ClearsMagnitude

LEMMA MirroredSigns ==
  \A s \in {1, -1}, e \in SUBSET Int :
     /\ (\E v \in Rules!Negated(e) : (-s) * v > 0) <=> (\E v \in e : s * v > 0)
     /\ (\E v \in Rules!Negated(e) : (-s) * v > 0 /\ Rules!Abs(v) > Rules!Bar)
          <=> (\E v \in e : s * v > 0 /\ Rules!Abs(v) > Rules!Bar)
     /\ Rules!Negated(e) = {} <=> e = {}
  BY MirroredEstimates

LEMMA MirrorStep ==
  ASSUME f \in Facts, Rules!Mirror
  PROVE  Rules!Axes' = Rules!Axes /\ Rules!Label' = Rules!Label
PROOF
  <1>1. /\ f'.sign = -f.sign /\ f'.icir = Rules!Negated(f.icir)
        /\ f'.icirCI = Rules!NegatedCI(f.icirCI) /\ f'.nwt = Rules!Negated(f.nwt)
        /\ f'.mono = Rules!Negated(f.mono) /\ f'.monoCI = Rules!NegatedCI(f.monoCI)
        /\ f'.pooled = Rules!Negated(f.pooled) /\ f'.incr = Rules!Negated(f.incr)
        /\ f'.incrCI = Rules!NegatedCI(f.incrCI) /\ f'.gross = Rules!Negated(f.gross)
        /\ f'.nets = {<<n[1], -g - (g - n[2])>> : n \in f.nets, g \in f.gross}
    BY DEF Rules!Mirror, Facts
  <1>2. /\ f'.exploratory = f.exploratory /\ f'.rebalances = f.rebalances
        /\ f'.effective = f.effective /\ f'.span = f.span /\ f'.win = f.win
        /\ f'.oos = f.oos /\ f'.consistent = f.consistent /\ f'.flipped = f.flipped
        /\ f'.reversed = f.reversed /\ f'.book = f.book /\ f'.tradable = f.tradable
        /\ f'.capacity = f.capacity
    BY DEF Rules!Mirror, Facts
  <1>3. /\ f.sign \in {1, -1}
        /\ {f.icir, f.nwt, f.mono, f.pooled, f.incr} \subseteq SUBSET Int
        /\ {f.icirCI, f.monoCI, f.incrCI} \subseteq Interval
        /\ f.gross \in Spread /\ f.nets \in SUBSET (Int \X Int)
    BY DEF Facts, Spread
  <1>4. /\ Rules!AlignedBounds(f.icirCI)' = Rules!AlignedBounds(f.icirCI)
        /\ Rules!AlignedBounds(f.monoCI)' = Rules!AlignedBounds(f.monoCI)
        /\ Rules!AlignedBounds(f.incrCI)' = Rules!AlignedBounds(f.incrCI)
        /\ f'.monoCI = {} <=> f.monoCI = {}
    <2>1. \A ci : /\ Rules!AlignedBounds(ci) = Aligned(f.sign, ci)
                  /\ Rules!AlignedBounds(ci)' = Aligned(f'.sign, ci')
      BY DEF Rules!AlignedBounds, Aligned
    <2>2. \A ci \in Interval : /\ Aligned(-f.sign, Rules!NegatedCI(ci)) = Aligned(f.sign, ci)
                               /\ Rules!NegatedCI(ci) = {} <=> ci = {}
      BY <1>3, MirroredIntervals
    <2> QED
      BY <1>1, <1>3, <2>1, <2>2
  <1>5. Rules!MonotonicityDirection' = Rules!MonotonicityDirection
    <2>1. /\ (\E v \in f'.mono : f'.sign * v > 0) <=> (\E v \in f.mono : f.sign * v > 0)
          /\ (\E v \in f'.pooled : f'.sign * v > 0) <=> (\E v \in f.pooled : f.sign * v > 0)
          /\ f'.mono = {} <=> f.mono = {}
      BY <1>1, <1>3, MirroredSigns
    <2> QED
      BY <1>4, <2>1 DEF Rules!MonotonicityDirection, Rules!Known, Rules!Unknown
  <1>6. Rules!SampleGateFails' <=> Rules!SampleGateFails
    BY <1>2 DEF Rules!SampleGateFails
  <1>7. Rules!PredictiveAxis' = Rules!PredictiveAxis
    <2>1. Rules!HasCorePointSignal' <=> Rules!HasCorePointSignal
      BY <1>1, <1>2, <1>3, MirroredEstimates DEF Rules!HasCorePointSignal
    <2>2. Rules!Reversed' <=> Rules!Reversed
      BY <1>2 DEF Rules!Reversed
    <2>3. Rules!LowerClears(f.icirCI)' <=> Rules!LowerClears(f.icirCI)
      BY <1>4 DEF Rules!LowerClears
    <2> QED
      BY <1>2, <1>5, <1>6, <2>1, <2>2, <2>3 DEF Rules!PredictiveAxis
  <1>8. Rules!IncrementalAxis' = Rules!IncrementalAxis
    <2>1. /\ (\E v \in f'.incr : f'.sign * v > 0 /\ Rules!Abs(v) > Rules!Bar)
               <=> (\E v \in f.incr : f.sign * v > 0 /\ Rules!Abs(v) > Rules!Bar)
          /\ f'.incr = {} <=> f.incr = {}
      BY <1>1, <1>3, MirroredSigns
    <2>2. Rules!LowerClears(f.incrCI)' <=> Rules!LowerClears(f.incrCI)
      BY <1>4 DEF Rules!LowerClears
    <2> QED
      BY <1>2, <1>6, <2>1, <2>2 DEF Rules!IncrementalAxis, Rules!Known, Rules!Unknown
  <1>9. Rules!TradableAxis' = Rules!TradableAxis
    <2>1. CASE f.nets = {}
      <3>1. f'.nets = {}
        BY <1>1, <2>1
      <3>2. /\ Rules!AlignedSpreads' = Rules!AlignedSpreads
            /\ Rules!BaseSpread' = Rules!BaseSpread
        BY <2>1, <3>1 DEF Rules!AlignedSpreads, Rules!BaseSpread
      <3> QED
        BY <1>2, <3>2 DEF Rules!TradableAxis, Rules!AllSpreadsNegative
    <2>2. CASE f.nets # {}
      <3>1. PICK g \in Int : f.gross = {g}
        BY <1>3, <2>2 DEF Rules!Mirror, Rules!Known, Rules!Unknown, Spread
      <3>2. f'.gross = {-g} /\ f'.nets = {<<n[1], -g - (g - n[2])>> : n \in f.nets}
        BY <1>1, <3>1 DEF Rules!Negated
      <3>3. \A x \in Int : Rules!AlignedNet(-g - (g - x))' = Rules!AlignedNet(x)
        <4>1. CASE f.sign = 1
          BY <1>1, <3>1, <3>2, <4>1 DEF Rules!AlignedNet
        <4>2. CASE f.sign = -1
          <5>1. f'.sign = -f.sign
            BY <1>1
          <5>2. f'.sign = 1
            <6>1. f.sign + 1 = 0
              BY <4>2
            <6> QED
              BY <1>3, <5>1, <6>1
          <5> QED
            BY <3>1, <4>2, <5>2 DEF Rules!AlignedNet
        <4> QED
          BY <1>3, <4>1, <4>2
      <3> DEFINE turn(n) == <<n[1], -g - (g - n[2])>>
      <3>4. \A n \in f.nets : /\ turn(n)[1] = n[1]
                              /\ Rules!AlignedNet(turn(n)[2])' = Rules!AlignedNet(n[2])
        BY <1>3, <3>3
      <3>5. f'.nets = {turn(n) : n \in f.nets}
        BY <3>2
      <3> HIDE DEF turn
      <3>6. Rules!AlignedSpreads' = Rules!AlignedSpreads
        BY <3>4, <3>5 DEF Rules!AlignedSpreads
      <3>7. Rules!BaseSpread' = Rules!BaseSpread
        BY <3>4, <3>5 DEF Rules!BaseSpread
      <3> QED
        BY <1>2, <3>6, <3>7 DEF Rules!TradableAxis, Rules!AllSpreadsNegative
    <2> QED
      BY <2>1, <2>2
  <1>10. Rules!Axes' = Rules!Axes
    BY <1>7, <1>8, <1>9 DEF Rules!Axes
  <1> QED
    BY <1>2, <1>10 DEF Rules!Label

(***************************************************************************)
(* Stronger evidence.                                                      *)
(***************************************************************************)
(* An axis is no worse than before.                                        *)
NoWorse(before, after) ==
    /\ {before, after} \subseteq {Rules!Pass, Rules!Fail, Rules!Insufficient, Rules!NotAssessed}
    /\ after = Rules!Fail => before = Rules!Fail
    /\ before = Rules!Pass => after = Rules!Pass

LEMMA LabelRises ==
  ASSUME f'.exploratory = f.exploratory,
         NoWorse(Rules!PredictiveAxis, Rules!PredictiveAxis'),
         NoWorse(Rules!IncrementalAxis, Rules!IncrementalAxis'),
         NoWorse(Rules!TradableAxis, Rules!TradableAxis')
  PROVE  Rules!Rank[Rules!Label'] >= Rules!Rank[Rules!Label]
PROOF
  <1> DEFINE a == Rules!PredictiveAxis
             b == Rules!IncrementalAxis
             c == Rules!TradableAxis
             aa == Rules!PredictiveAxis'
             bb == Rules!IncrementalAxis'
             cc == Rules!TradableAxis'
             Score(x, y, z, e) ==
                IF Rules!Fail \in {x, y, z} THEN "Reject"
                ELSE IF {x, y, z} = {Rules!Pass} THEN (IF e THEN "Watch" ELSE "Adopt")
                ELSE IF Rules!Pass \in {x, y, z} THEN "Watch" ELSE "INSUFFICIENT-DATA"
  <1>1. /\ Rules!Label = Score(a, b, c, f.exploratory)
        /\ Rules!Label' = Score(aa, bb, cc, f'.exploratory)
    <2>1. /\ Rules!Axes[1] = a /\ Rules!Axes[2] = b /\ Rules!Axes[3] = c
          /\ Rules!Axes'[1] = aa /\ Rules!Axes'[2] = bb /\ Rules!Axes'[3] = cc
      BY DEF Rules!Axes
    <2> HIDE DEF a, b, c, aa, bb, cc
    <2>2. \A n \in 1..3 : n = 1 \/ n = 2 \/ n = 3
      OBVIOUS
    <2>3. Rules!Pass # Rules!Fail
      BY DEF Rules!Pass, Rules!Fail
    <2>4. Rules!Label = Score(a, b, c, f.exploratory)
      BY <2>1, <2>2, <2>3 DEF Rules!Label
    <2>5. Rules!Label' = Score(aa, bb, cc, f'.exploratory)
      BY <2>1, <2>2, <2>3 DEF Rules!Label
    <2> QED
      BY <2>4, <2>5
  <1> HIDE DEF a, b, c, aa, bb, cc
  <1>2. NoWorse(a, aa) /\ NoWorse(b, bb) /\ NoWorse(c, cc)
    BY DEF a, b, c, aa, bb, cc
  <1>3. /\ Rules!Rank["Reject"] = 0 /\ Rules!Rank["INSUFFICIENT-DATA"] = 1
        /\ Rules!Rank["Watch"] = 2 /\ Rules!Rank["Adopt"] = 3
    BY DEF Rules!Rank
  <1> QED
    BY <1>1, <1>2, <1>3
       DEF NoWorse, Rules!Pass, Rules!Fail, Rules!Insufficient, Rules!NotAssessed

(* What the axes read of the facts besides what a step may strengthen.     *)
Same(fields) == \A x \in fields : f'[x] = f[x]

Gates == {"sign", "rebalances", "effective", "span", "oos", "consistent", "flipped", "reversed",
          "book", "tradable", "capacity", "exploratory"}
Signals == {"icir", "icirCI", "nwt", "win"}
Orders == {"mono", "monoCI", "pooled"}
Residuals == {"incr", "incrCI"}
Spreads == {"gross", "nets"}

LEMMA GatesAgree ==
  ASSUME Same(Gates)
  PROVE  /\ Rules!SampleGateFails' <=> Rules!SampleGateFails
         /\ Rules!Reversed' <=> Rules!Reversed
         /\ f'.sign = f.sign /\ f'.oos = f.oos /\ f'.consistent = f.consistent
         /\ f'.book = f.book /\ f'.tradable = f.tradable /\ f'.capacity = f.capacity
         /\ f'.exploratory = f.exploratory
  BY DEF Same, Gates, Rules!SampleGateFails, Rules!Reversed

LEMMA PredictiveRises ==
  ASSUME Same(Gates),
         Rules!HasCorePointSignal => Rules!HasCorePointSignal',
         Rules!LowerClears(f.icirCI) => Rules!LowerClears(f.icirCI)',
         {Rules!MonotonicityDirection, Rules!MonotonicityDirection'}
             \subseteq {"HOLDS", "UNKNOWN", "CONTRADICTED"},
         Rules!MonotonicityDirection = "HOLDS" => Rules!MonotonicityDirection' = "HOLDS",
         Rules!MonotonicityDirection' = "CONTRADICTED"
             => Rules!MonotonicityDirection = "CONTRADICTED"
  PROVE  NoWorse(Rules!PredictiveAxis, Rules!PredictiveAxis')
  BY GatesAgree
     DEF Rules!PredictiveAxis, NoWorse, Rules!Pass, Rules!Fail, Rules!Insufficient

LEMMA IncrementalRises ==
  ASSUME Same(Gates),
         f'.incr = {} <=> f.incr = {},
         (\E v \in f.incr : f.sign * v > 0 /\ Rules!Abs(v) > Rules!Bar)
           => (\E v \in f'.incr : f.sign * v > 0 /\ Rules!Abs(v) > Rules!Bar),
         Rules!LowerClears(f.incrCI) => Rules!LowerClears(f.incrCI)'
  PROVE  NoWorse(Rules!IncrementalAxis, Rules!IncrementalAxis')
  BY GatesAgree
     DEF Rules!IncrementalAxis, NoWorse, Rules!Pass, Rules!Fail, Rules!Insufficient,
         Rules!NotAssessed, Rules!Known, Rules!Unknown

LEMMA TradableRises ==
  ASSUME Same(Gates),
         Rules!AllSpreadsNegative' => Rules!AllSpreadsNegative,
         Rules!ClearsLevel(Rules!BaseSpread, 0) => Rules!ClearsLevel(Rules!BaseSpread, 0)'
  PROVE  NoWorse(Rules!TradableAxis, Rules!TradableAxis')
  BY GatesAgree
     DEF Rules!TradableAxis, NoWorse, Rules!Pass, Rules!Fail, Rules!Insufficient,
         Rules!NotAssessed

LEMMA ShiftedIntervals ==
  ASSUME NEW s \in {1, -1}, NEW ci \in Interval
  PROVE  /\ \A b \in Aligned(s, ci) :
               /\ b[1] \in Int /\ b[2] \in Int /\ b[1] <= b[2]
               /\ \A c \in Aligned(s, ci) : b = c
               /\ \E c \in Aligned(s, Rules!ShiftedCI(ci, s)) :
                     c[1] = b[1] + 1 /\ c[2] = b[2] + 1
         /\ \A c \in Aligned(s, Rules!ShiftedCI(ci, s)) :
               \E b \in Aligned(s, ci) : c[1] = b[1] + 1 /\ c[2] = b[2] + 1
         /\ Rules!ShiftedCI(ci, s) = {} <=> ci = {}
PROOF
  <1> DEFINE moved == Rules!ShiftedCI(ci, s)
  <1>1. /\ \A b \in ci : /\ b[1] \in Int /\ b[2] \in Int /\ b[1] <= b[2]
                         /\ \A c \in ci : b = c
                         /\ \E c \in moved : c[1] = b[1] + s /\ c[2] = b[2] + s
        /\ \A c \in moved : \E b \in ci : c[1] = b[1] + s /\ c[2] = b[2] + s
        /\ moved = {} <=> ci = {}
    <2>1. moved = {<<b[1] + s, b[2] + s>> : b \in ci}
      BY DEF Rules!ShiftedCI
    <2>2. \A b \in ci : /\ b[1] \in Int /\ b[2] \in Int /\ b[1] <= b[2]
                        /\ \A c \in ci : b = c
      BY DEF Interval
    <2>3. \A b \in ci : \E c \in moved : c[1] = b[1] + s /\ c[2] = b[2] + s
      <3> TAKE b \in ci
      <3>1. <<b[1] + s, b[2] + s>> \in moved
        BY <2>1
      <3> QED
        BY <3>1
    <2>4. \A c \in moved : \E b \in ci : c[1] = b[1] + s /\ c[2] = b[2] + s
      BY <2>1
    <2> HIDE DEF moved
    <2>5. moved = {} <=> ci = {}
      BY <2>3, <2>4
    <2> QED
      BY <2>2, <2>3, <2>4, <2>5
  <1> HIDE DEF moved
  <1>2. CASE s = 1
    BY <1>1, <1>2 DEF Aligned, moved
  <1>3. CASE s = -1
    <2>1. Aligned(s, ci) = {<<-b[2], -b[1]>> : b \in ci}
      BY <1>3 DEF Aligned
    <2>2. Aligned(s, moved) = {<<-b[2], -b[1]>> : b \in moved}
      BY <1>3 DEF Aligned
    <2>3. \A b \in ci, c \in moved :
             c[1] = b[1] + s /\ c[2] = b[2] + s
               => -c[2] = -b[2] + 1 /\ -c[1] = -b[1] + 1
      BY <1>1, <1>3
    <2>4. \A b \in ci : -b[2] \in Int /\ -b[1] \in Int /\ -b[2] <= -b[1]
      BY <1>1
    <2>5. \A b \in Aligned(s, ci) :
             \E c \in Aligned(s, moved) : c[1] = b[1] + 1 /\ c[2] = b[2] + 1
      <3> TAKE b \in Aligned(s, ci)
      <3>1. PICK d \in ci : b = <<-d[2], -d[1]>>
        BY <2>1
      <3>2. PICK e \in moved : e[1] = d[1] + s /\ e[2] = d[2] + s
        BY <1>1
      <3>3. <<-e[2], -e[1]>> \in Aligned(s, moved)
        BY <2>2
      <3> QED
        BY <2>3, <3>1, <3>2, <3>3
    <2>6. \A c \in Aligned(s, moved) :
             \E b \in Aligned(s, ci) : c[1] = b[1] + 1 /\ c[2] = b[2] + 1
      <3> TAKE c \in Aligned(s, moved)
      <3>1. PICK e \in moved : c = <<-e[2], -e[1]>>
        BY <2>2
      <3>2. PICK d \in ci : e[1] = d[1] + s /\ e[2] = d[2] + s
        BY <1>1
      <3>3. <<-d[2], -d[1]>> \in Aligned(s, ci)
        BY <2>1
      <3> QED
        BY <2>3, <3>1, <3>2, <3>3
    <2> QED
      BY <1>1, <2>1, <2>4, <2>5, <2>6 DEF moved
  <1> QED
    BY <1>2, <1>3

LEMMA DirectionRises ==
  ASSUME f \in Facts, Same(Gates),
         \/ Same(Orders)
         \/ /\ f'.mono = Rules!Shifted(f.mono, f.sign) /\ f'.pooled = f.pooled
            /\ f'.monoCI = Rules!ShiftedCI(f.monoCI, f.sign)
         \/ /\ f'.mono = f.mono /\ f'.monoCI = f.monoCI
            /\ f'.pooled = Rules!Shifted(f.pooled, f.sign)
  PROVE  /\ {Rules!MonotonicityDirection, Rules!MonotonicityDirection'}
               \subseteq {"HOLDS", "UNKNOWN", "CONTRADICTED"}
         /\ Rules!MonotonicityDirection = "HOLDS" => Rules!MonotonicityDirection' = "HOLDS"
         /\ Rules!MonotonicityDirection' = "CONTRADICTED"
               => Rules!MonotonicityDirection = "CONTRADICTED"
PROOF
  <1> DEFINE old == Aligned(f.sign, f.monoCI)
             raised == Aligned(f'.sign, f'.monoCI)
             bare == IF f.mono = {} THEN f.pooled ELSE f.mono
             bareNow == IF f'.mono = {} THEN f'.pooled ELSE f'.mono
  <1>1. /\ f.sign \in {1, -1} /\ f'.sign = f.sign
        /\ f.mono \in SUBSET Int /\ f.pooled \in SUBSET Int /\ f.monoCI \in Interval
    BY GatesAgree DEF Facts
  <1>2. PICK d \in {0, 1} :
          /\ \A b \in old : \E c \in raised : c[1] = b[1] + d /\ c[2] = b[2] + d
          /\ \A c \in raised : \E b \in old : c[1] = b[1] + d /\ c[2] = b[2] + d
          /\ f'.monoCI = {} <=> f.monoCI = {}
    <2>1. CASE f'.monoCI = f.monoCI
      <3>1. raised = old
        BY <1>1, <2>1
      <3>2. \A b \in old : b[1] \in Int /\ b[2] \in Int
        BY <1>1, ShiftedIntervals
      <3> HIDE DEF raised, old
      <3> QED
        BY <2>1, <3>1, <3>2
    <2>2. CASE f'.monoCI = Rules!ShiftedCI(f.monoCI, f.sign)
      BY <1>1, <2>2, ShiftedIntervals
    <2> QED
      BY <2>1, <2>2 DEF Same, Orders
  <1>3. /\ \A b \in old : b[1] \in Int /\ b[2] \in Int /\ b[1] <= b[2]
        /\ \A b, c \in old : b = c
    BY <1>1, ShiftedIntervals
  <1>4. (\E v \in bare : f.sign * v > 0) => (\E v \in bareNow : f'.sign * v > 0)
    <2>1. \A e \in SUBSET Int :
             /\ Rules!Shifted(e, f.sign) = {} <=> e = {}
             /\ (\E v \in e : f.sign * v > 0)
                  => (\E v \in Rules!Shifted(e, f.sign) : f.sign * v > 0)
      <3> TAKE e \in SUBSET Int
      <3>1. \A v \in e : v + f.sign \in Rules!Shifted(e, f.sign)
        BY DEF Rules!Shifted
      <3>2. \A v \in e : f.sign * v > 0 => f.sign * (v + f.sign) > 0
        BY <1>1
      <3>3. Rules!Shifted(e, f.sign) # {} => e # {}
        BY DEF Rules!Shifted
      <3> QED
        BY <3>1, <3>2, <3>3
    <2> QED
      BY <1>1, <2>1 DEF Same, Orders
  <1>5. /\ Rules!MonotonicityDirection =
             IF f.monoCI # {}
             THEN CASE \E b \in old : b[1] > 0 -> "HOLDS"
                    [] \E b \in old : b[2] < 0 -> "CONTRADICTED"
                    [] OTHER -> "UNKNOWN"
             ELSE IF \E v \in bare : f.sign * v > 0 THEN "HOLDS" ELSE "CONTRADICTED"
        /\ Rules!MonotonicityDirection' =
             IF f'.monoCI # {}
             THEN CASE \E b \in raised : b[1] > 0 -> "HOLDS"
                    [] \E b \in raised : b[2] < 0 -> "CONTRADICTED"
                    [] OTHER -> "UNKNOWN"
             ELSE IF \E v \in bareNow : f'.sign * v > 0 THEN "HOLDS" ELSE "CONTRADICTED"
    BY DEF Rules!MonotonicityDirection, Rules!AlignedBounds, Aligned, Rules!Known, Rules!Unknown
  <1> HIDE DEF old, raised, bare, bareNow
  <1>6. /\ ~((\E b \in old : b[1] > 0) /\ (\E b \in old : b[2] < 0))
        /\ ~((\E b \in raised : b[1] > 0) /\ (\E b \in raised : b[2] < 0))
        /\ (\E b \in old : b[1] > 0) => (\E b \in raised : b[1] > 0)
        /\ (\E b \in raised : b[2] < 0) => (\E b \in old : b[2] < 0)
    BY <1>2, <1>3
  <1> QED
    BY <1>2, <1>4, <1>5, <1>6

LEMMA SignalsRise ==
  ASSUME f \in Facts, Same(Gates),
         \/ Same(Signals)
         \/ /\ \A v \in f.icir : f.sign * v >= 0
            /\ f'.icir = Rules!Shifted(f.icir, f.sign)
            /\ f'.icirCI = Rules!ShiftedCI(f.icirCI, f.sign)
            /\ f'.nwt = f.nwt /\ f'.win = f.win
         \/ /\ f'.icir = f.icir /\ f'.icirCI = f.icirCI /\ f'.win = f.win
            /\ f'.nwt = {IF v < 0 THEN v - 1 ELSE v + 1 : v \in f.nwt}
         \/ /\ f'.icir = f.icir /\ f'.icirCI = f.icirCI /\ f'.nwt = f.nwt
            /\ f'.win = Rules!Shifted(f.win, 1)
  PROVE  /\ Rules!HasCorePointSignal => Rules!HasCorePointSignal'
         /\ Rules!LowerClears(f.icirCI) => Rules!LowerClears(f.icirCI)'
PROOF
  <1>1. /\ f.sign \in {1, -1} /\ f'.sign = f.sign
        /\ f.icir \in SUBSET Int /\ f.nwt \in SUBSET Int /\ f.win \in SUBSET Int
        /\ f.icirCI \in Interval
    BY GatesAgree DEF Facts
  <1>2. ASSUME \A v \in f.icir : f.sign * v >= 0,
               f'.icir = Rules!Shifted(f.icir, f.sign)
        PROVE  Rules!ClearsMagnitude(f.icir) => Rules!ClearsMagnitude(f.icir)'
    <2>1. \A v \in f.icir : /\ v + f.sign \in f'.icir
                            /\ Rules!Abs(v + f.sign) = Rules!Abs(v) + 1
                            /\ Rules!Abs(v) \in Int
      BY <1>1, <1>2 DEF Rules!Shifted, Rules!Abs
    <2> QED
      BY <1>1, <2>1 DEF Rules!ClearsMagnitude, Rules!Bar
  <1>3. ASSUME f'.nwt = {IF v < 0 THEN v - 1 ELSE v + 1 : v \in f.nwt}
        PROVE  Rules!ClearsMagnitude(f.nwt) => Rules!ClearsMagnitude(f.nwt)'
    <2>1. \A v \in f.nwt : \E w \in f'.nwt : /\ Rules!Abs(w) = Rules!Abs(v) + 1
                                             /\ Rules!Abs(v) \in Int
      <3> TAKE v \in f.nwt
      <3>1. (IF v < 0 THEN v - 1 ELSE v + 1) \in f'.nwt
        BY <1>3
      <3>2. v \in Int
        BY <1>1
      <3> QED
        BY <3>1, <3>2 DEF Rules!Abs
    <2> QED
      BY <1>1, <2>1 DEF Rules!ClearsMagnitude, Rules!Bar
  <1>4. ASSUME f'.win = Rules!Shifted(f.win, 1)
        PROVE  Rules!ClearsLevel(f.win, Rules!Bar) => Rules!ClearsLevel(f.win, Rules!Bar)'
    BY <1>1, <1>4 DEF Rules!ClearsLevel, Rules!Shifted, Rules!Bar
  <1>5. ASSUME f'.icirCI = Rules!ShiftedCI(f.icirCI, f.sign)
        PROVE  Rules!LowerClears(f.icirCI) => Rules!LowerClears(f.icirCI)'
    BY <1>1, <1>5, ShiftedIntervals DEF Rules!LowerClears, Rules!AlignedBounds, Aligned, Rules!Bar
  <1>6. /\ f'.icir = f.icir =>
             (Rules!ClearsMagnitude(f.icir) => Rules!ClearsMagnitude(f.icir)')
        /\ f'.nwt = f.nwt => (Rules!ClearsMagnitude(f.nwt) => Rules!ClearsMagnitude(f.nwt)')
        /\ f'.win = f.win =>
             (Rules!ClearsLevel(f.win, Rules!Bar) => Rules!ClearsLevel(f.win, Rules!Bar)')
        /\ f'.icirCI = f.icirCI =>
             (Rules!LowerClears(f.icirCI) => Rules!LowerClears(f.icirCI)')
    BY <1>1 DEF Rules!ClearsMagnitude, Rules!ClearsLevel, Rules!LowerClears,
                Rules!AlignedBounds, Rules!Bar
  <1> QED
    BY <1>2, <1>3, <1>4, <1>5, <1>6 DEF Rules!HasCorePointSignal, Same, Signals

LEMMA ResidualsRise ==
  ASSUME f \in Facts, Same(Gates),
         \/ Same(Residuals)
         \/ /\ f'.incr = Rules!Shifted(f.incr, f.sign)
            /\ f'.incrCI = Rules!ShiftedCI(f.incrCI, f.sign)
  PROVE  /\ f'.incr = {} <=> f.incr = {}
         /\ (\E v \in f.incr : f.sign * v > 0 /\ Rules!Abs(v) > Rules!Bar)
              => (\E v \in f'.incr : f.sign * v > 0 /\ Rules!Abs(v) > Rules!Bar)
         /\ Rules!LowerClears(f.incrCI) => Rules!LowerClears(f.incrCI)'
PROOF
  <1>1. /\ f.sign \in {1, -1} /\ f'.sign = f.sign
        /\ f.incr \in SUBSET Int /\ f.incrCI \in Interval
    BY GatesAgree DEF Facts
  <1>2. CASE Same(Residuals)
    BY <1>1, <1>2 DEF Same, Residuals, Rules!LowerClears, Rules!AlignedBounds
  <1>3. CASE /\ f'.incr = Rules!Shifted(f.incr, f.sign)
             /\ f'.incrCI = Rules!ShiftedCI(f.incrCI, f.sign)
    <2>1. \A v \in f.incr : v + f.sign \in f'.incr
      BY <1>3 DEF Rules!Shifted
    <2>2. \A v \in f.incr : f.sign * v > 0 /\ Rules!Abs(v) > Rules!Bar
             => f.sign * (v + f.sign) > 0 /\ Rules!Abs(v + f.sign) > Rules!Bar
      BY <1>1 DEF Rules!Abs, Rules!Bar
    <2>3. f'.incr = {} <=> f.incr = {}
      BY <1>3 DEF Rules!Shifted
    <2>4. Rules!LowerClears(f.incrCI) => Rules!LowerClears(f.incrCI)'
      BY <1>1, <1>3, ShiftedIntervals
         DEF Rules!LowerClears, Rules!AlignedBounds, Aligned, Rules!Bar
    <2> QED
      BY <2>1, <2>2, <2>3, <2>4
  <1> QED
    BY <1>2, <1>3

(* A net spread after the cost, turned to the sign of the hypothesis.      *)
NetOf(s, gross, net) == IF s = 1 THEN {net} ELSE {-g - (g - net) : g \in gross}

LEMMA SpreadsRise ==
  ASSUME f \in Facts, Same(Gates),
         \/ Same(Spreads)
         \/ /\ f'.gross = Rules!Shifted(f.gross, f.sign)
            /\ f'.nets = {<<n[1], n[2] + f.sign>> : n \in f.nets}
         \/ /\ f'.gross = f.gross
            /\ f'.nets = {<<n[1], n[2] + 1>> : n \in f.nets}
  PROVE  /\ Rules!AllSpreadsNegative' => Rules!AllSpreadsNegative
         /\ Rules!ClearsLevel(Rules!BaseSpread, 0) => Rules!ClearsLevel(Rules!BaseSpread, 0)'
PROOF
  <1> DEFINE old(n) == NetOf(f.sign, f.gross, n[2])
             raised(n) == NetOf(f'.sign, f'.gross, n[2])
  <1>1. /\ f.sign \in {1, -1} /\ f'.sign = f.sign
        /\ f.gross \in Spread /\ f.nets \in SUBSET (Int \X Int)
    BY GatesAgree DEF Facts, Spread
  <1>2. /\ Rules!AlignedSpreads = UNION {old(n) : n \in f.nets}
        /\ Rules!AlignedSpreads' = UNION {raised(n) : n \in f'.nets}
        /\ Rules!BaseSpread = UNION {old(n) : n \in {m \in f.nets : m[1] = 1}}
        /\ Rules!BaseSpread' = UNION {raised(n) : n \in {m \in f'.nets : m[1] = 1}}
    BY DEF Rules!AlignedSpreads, Rules!BaseSpread, Rules!AlignedNet, NetOf
  <1>3. \A n \in f.nets : old(n) \in SUBSET Int
    BY <1>1 DEF NetOf, Spread
  <1>4. PICK d \in {0, 1} :
          /\ \A n \in f.nets : \E m \in f'.nets : m[1] = n[1] /\ raised(m) = {x + d : x \in old(n)}
          /\ \A m \in f'.nets : \E n \in f.nets : m[1] = n[1] /\ raised(m) = {x + d : x \in old(n)}
    <2>1. CASE Same(Spreads)
      <3>1. f'.nets = f.nets /\ f'.gross = f.gross
        BY <2>1 DEF Same, Spreads
      <3>2. \A n \in f.nets : raised(n) = old(n)
        BY <1>1, <3>1
      <3> HIDE DEF old, raised
      <3>3. \A n \in f.nets : raised(n) = {x + 0 : x \in old(n)}
        BY <1>3, <3>2
      <3> QED
        BY <3>1, <3>3
    <2>2. CASE /\ f'.gross = Rules!Shifted(f.gross, f.sign)
               /\ f'.nets = {<<n[1], n[2] + f.sign>> : n \in f.nets}
      <3> DEFINE up(n) == <<n[1], n[2] + f.sign>>
      <3>1. \A n \in f.nets : raised(up(n)) = {x + 1 : x \in old(n)} /\ up(n)[1] = n[1]
        <4> TAKE n \in f.nets
        <4>1. n[2] \in Int /\ up(n)[2] = n[2] + f.sign
          BY <1>1
        <4>2. CASE f.sign = 1
          BY <1>1, <4>1, <4>2 DEF NetOf
        <4>3. CASE f.sign = -1
          <5>1. f'.gross = {g + f.sign : g \in f.gross}
            BY <2>2 DEF Rules!Shifted
          <5>2. \A g \in Int :
                   -(g + f.sign) - ((g + f.sign) - (n[2] + f.sign)) = (-g - (g - n[2])) + 1
            BY <4>1, <4>3
          <5>3. raised(up(n)) = {-(g + f.sign) - ((g + f.sign) - (n[2] + f.sign)) : g \in f.gross}
            BY <1>1, <4>1, <4>3, <5>1 DEF NetOf
          <5>4. old(n) = {-g - (g - n[2]) : g \in f.gross}
            BY <4>3 DEF NetOf
          <5> QED
            BY <1>1, <5>2, <5>3, <5>4 DEF Spread
        <4> QED
          BY <1>1, <4>2, <4>3
      <3>2. f'.nets = {up(n) : n \in f.nets}
        BY <2>2
      <3> HIDE DEF up, old, raised
      <3> QED
        BY <3>1, <3>2
    <2>3. CASE /\ f'.gross = f.gross
               /\ f'.nets = {<<n[1], n[2] + 1>> : n \in f.nets}
      <3> DEFINE up(n) == <<n[1], n[2] + 1>>
      <3>1. \A n \in f.nets : raised(up(n)) = {x + 1 : x \in old(n)} /\ up(n)[1] = n[1]
        <4> TAKE n \in f.nets
        <4>1. n[2] \in Int /\ up(n)[2] = n[2] + 1
          BY <1>1
        <4>2. \A g \in Int : -g - (g - (n[2] + 1)) = (-g - (g - n[2])) + 1
          BY <4>1
        <4> QED
          BY <1>1, <2>3, <4>1, <4>2 DEF NetOf, Spread
      <3>2. f'.nets = {up(n) : n \in f.nets}
        BY <2>3
      <3> HIDE DEF up, old, raised
      <3> QED
        BY <3>1, <3>2
    <2> QED
      BY <2>1, <2>2, <2>3
  <1> HIDE DEF old, raised
  <1>5. /\ \A x \in Rules!AlignedSpreads : x \in Int /\ x + d \in Rules!AlignedSpreads'
        /\ Rules!AlignedSpreads' # {} => Rules!AlignedSpreads # {}
        /\ \A x \in Rules!BaseSpread : x \in Int /\ x + d \in Rules!BaseSpread'
    <2>1. \A n \in f.nets : \A x \in old(n) : x \in Int
      BY <1>3
    <2>2. ASSUME NEW n \in f.nets, NEW x \in old(n)
          PROVE  /\ x + d \in Rules!AlignedSpreads'
                 /\ n[1] = 1 => x + d \in Rules!BaseSpread'
      <3>1. PICK m \in f'.nets : m[1] = n[1] /\ raised(m) = {y + d : y \in old(n)}
        BY <1>4
      <3>2. x + d \in raised(m)
        BY <3>1
      <3> QED
        BY <1>2, <3>1, <3>2
    <2>3. Rules!AlignedSpreads' # {} => Rules!AlignedSpreads # {}
      <3>1. \A m \in f'.nets : \E n \in f.nets : raised(m) = {y + d : y \in old(n)}
        BY <1>4
      <3>2. \A m \in f'.nets : raised(m) # {} => \E n \in f.nets : old(n) # {}
        BY <3>1
      <3> QED
        BY <1>2, <3>2
    <2> QED
      BY <1>2, <2>1, <2>2, <2>3
  <1> QED
    BY <1>5 DEF Rules!AllSpreadsNegative, Rules!ClearsLevel

LEMMA StrengthenStep ==
  ASSUME f \in Facts, Rules!Strengthen
  PROVE  Rules!Rank[Rules!Label'] >= Rules!Rank[Rules!Label]
PROOF
  <1> DEFINE signals ==
               \/ Same(Signals)
               \/ /\ \A v \in f.icir : f.sign * v >= 0
                  /\ f'.icir = Rules!Shifted(f.icir, f.sign)
                  /\ f'.icirCI = Rules!ShiftedCI(f.icirCI, f.sign)
                  /\ f'.nwt = f.nwt /\ f'.win = f.win
               \/ /\ f'.icir = f.icir /\ f'.icirCI = f.icirCI /\ f'.win = f.win
                  /\ f'.nwt = {IF v < 0 THEN v - 1 ELSE v + 1 : v \in f.nwt}
               \/ /\ f'.icir = f.icir /\ f'.icirCI = f.icirCI /\ f'.nwt = f.nwt
                  /\ f'.win = Rules!Shifted(f.win, 1)
             orders ==
               \/ Same(Orders)
               \/ /\ f'.mono = Rules!Shifted(f.mono, f.sign) /\ f'.pooled = f.pooled
                  /\ f'.monoCI = Rules!ShiftedCI(f.monoCI, f.sign)
               \/ /\ f'.mono = f.mono /\ f'.monoCI = f.monoCI
                  /\ f'.pooled = Rules!Shifted(f.pooled, f.sign)
             residuals ==
               \/ Same(Residuals)
               \/ /\ f'.incr = Rules!Shifted(f.incr, f.sign)
                  /\ f'.incrCI = Rules!ShiftedCI(f.incrCI, f.sign)
             spreads ==
               \/ Same(Spreads)
               \/ /\ f'.gross = Rules!Shifted(f.gross, f.sign)
                  /\ f'.nets = {<<n[1], n[2] + f.sign>> : n \in f.nets}
               \/ /\ f'.gross = f.gross
                  /\ f'.nets = {<<n[1], n[2] + 1>> : n \in f.nets}
  <1>1. Same(Gates) /\ signals /\ orders /\ residuals /\ spreads
    <2> USE DEF Same, Gates, Signals, Orders, Residuals, Spreads, Facts
    <2>1. CASE /\ \A v \in f.icir : f.sign * v >= 0
               /\ f' = [f EXCEPT !.icir = Rules!Shifted(@, f.sign),
                                 !.icirCI = Rules!ShiftedCI(@, f.sign)]
      BY <2>1
    <2>2. CASE f' = [f EXCEPT !.nwt = {IF v < 0 THEN v - 1 ELSE v + 1 : v \in @}]
      BY <2>2
    <2>3. CASE f' = [f EXCEPT !.win = Rules!Shifted(@, 1)]
      BY <2>3
    <2>4. CASE f' = [f EXCEPT !.mono = Rules!Shifted(@, f.sign),
                              !.monoCI = Rules!ShiftedCI(@, f.sign)]
      BY <2>4
    <2>5. CASE f' = [f EXCEPT !.pooled = Rules!Shifted(@, f.sign)]
      BY <2>5
    <2>6. CASE f' = [f EXCEPT !.incr = Rules!Shifted(@, f.sign),
                              !.incrCI = Rules!ShiftedCI(@, f.sign)]
      BY <2>6
    <2>7. CASE f' = [f EXCEPT !.gross = Rules!Shifted(@, f.sign),
                              !.nets = {<<n[1], n[2] + f.sign>> : n \in @}]
      BY <2>7
    <2>8. CASE f' = [f EXCEPT !.nets = {<<n[1], n[2] + 1>> : n \in @}]
      BY <2>8
    <2> QED
      BY <2>1, <2>2, <2>3, <2>4, <2>5, <2>6, <2>7, <2>8 DEF Rules!Strengthen
  <1>2. NoWorse(Rules!PredictiveAxis, Rules!PredictiveAxis')
    <2>1. /\ Rules!HasCorePointSignal => Rules!HasCorePointSignal'
          /\ Rules!LowerClears(f.icirCI) => Rules!LowerClears(f.icirCI)'
      BY <1>1, SignalsRise
    <2>2. /\ {Rules!MonotonicityDirection, Rules!MonotonicityDirection'}
                \subseteq {"HOLDS", "UNKNOWN", "CONTRADICTED"}
          /\ Rules!MonotonicityDirection = "HOLDS" => Rules!MonotonicityDirection' = "HOLDS"
          /\ Rules!MonotonicityDirection' = "CONTRADICTED"
                => Rules!MonotonicityDirection = "CONTRADICTED"
      BY <1>1, DirectionRises
    <2> QED
      BY <1>1, <2>1, <2>2, PredictiveRises
  <1>3. NoWorse(Rules!IncrementalAxis, Rules!IncrementalAxis')
    BY <1>1, ResidualsRise, IncrementalRises
  <1>4. NoWorse(Rules!TradableAxis, Rules!TradableAxis')
    BY <1>1, SpreadsRise, TradableRises
  <1> QED
    BY <1>1, <1>2, <1>3, <1>4, GatesAgree, LabelRises

(***************************************************************************)
(* A thinner sample, and the three rules together.                         *)
(***************************************************************************)
LEMMA ThinStep ==
  ASSUME f \in Facts, Rules!Thin
  PROVE  /\ Rules!Label' = "Reject" => Rules!Label = "Reject"
         /\ Rules!Label' = "Adopt" => Rules!Label = "Adopt"
         /\ Rules!Reversed \/ Rules!TradableAxis = Rules!Fail => Rules!Label' = "Reject"
PROOF
  <1>1. /\ \A x \in {"sign", "icir", "icirCI", "nwt", "win", "mono", "monoCI", "pooled", "oos",
                     "consistent", "flipped", "reversed", "book", "incr", "incrCI", "gross",
                     "nets", "tradable", "capacity", "exploratory"} : f'[x] = f[x]
        /\ Rules!SampleGateFails'
    BY DEF Rules!Thin, Facts, Rules!SampleGateFails, Rules!ClearsLevel, Rules!Bar, Rules!Unknown
  <1>2. /\ Rules!Reversed' <=> Rules!Reversed
        /\ Rules!TradableAxis' = Rules!TradableAxis
    <2>1. /\ f'.sign = f.sign /\ f'.gross = f.gross /\ f'.nets = f.nets
          /\ f'.tradable = f.tradable /\ f'.capacity = f.capacity
          /\ f'.oos = f.oos /\ f'.flipped = f.flipped /\ f'.reversed = f.reversed
      BY <1>1
    <2>2. /\ Rules!AlignedSpreads' = Rules!AlignedSpreads
          /\ Rules!BaseSpread' = Rules!BaseSpread
      BY <2>1 DEF Rules!AlignedSpreads, Rules!BaseSpread, Rules!AlignedNet
    <2> QED
      BY <2>1, <2>2 DEF Rules!Reversed, Rules!TradableAxis, Rules!AllSpreadsNegative
  <1>3. /\ Rules!PredictiveAxis' = IF Rules!Reversed THEN Rules!Fail ELSE Rules!Insufficient
        /\ Rules!Reversed => Rules!PredictiveAxis = Rules!Fail
        /\ Rules!IncrementalAxis' \in {Rules!NotAssessed, Rules!Insufficient}
    BY <1>1, <1>2 DEF Rules!PredictiveAxis, Rules!IncrementalAxis
  <1> DEFINE a == Rules!PredictiveAxis
             c == Rules!TradableAxis
  <1>4. /\ Rules!Axes[1] = a /\ Rules!Axes[3] = c /\ Rules!Axes'[1] = a'
        /\ Rules!Axes'[2] = Rules!IncrementalAxis' /\ Rules!Axes'[3] = c'
    BY DEF Rules!Axes
  <1> HIDE DEF a, c
  <1>5. /\ (\E n \in 1..3 : Rules!Axes'[n] = Rules!Fail) <=> Rules!Reversed \/ c = Rules!Fail
        /\ a = Rules!Fail \/ c = Rules!Fail => \E n \in 1..3 : Rules!Axes[n] = Rules!Fail
        /\ \E n \in 1..3 : Rules!Axes'[n] # Rules!Pass
    <2>1. \A n \in 1..3 : n = 1 \/ n = 2 \/ n = 3
      OBVIOUS
    <2>2. c' = c /\ a' = IF Rules!Reversed THEN Rules!Fail ELSE Rules!Insufficient
      BY <1>2, <1>3 DEF a, c
    <2>3. /\ Rules!Fail # Rules!Pass /\ Rules!Fail # Rules!Insufficient
          /\ Rules!Fail # Rules!NotAssessed /\ Rules!Insufficient # Rules!Pass
      BY DEF Rules!Pass, Rules!Fail, Rules!Insufficient, Rules!NotAssessed
    <2> QED
      BY <1>3, <1>4, <2>1, <2>2, <2>3
  <1>6. Rules!Reversed => a = Rules!Fail
    BY <1>3 DEF a
  <1>7. /\ Rules!Label' = "Reject" <=> Rules!Reversed \/ c = Rules!Fail
        /\ Rules!Label' # "Adopt"
    BY <1>5 DEF Rules!Label
  <1>8. a = Rules!Fail \/ c = Rules!Fail => Rules!Label = "Reject"
    BY <1>5 DEF Rules!Label, Rules!Pass, Rules!Fail
  <1> QED
    BY <1>6, <1>7, <1>8 DEF c

RulesInv == which = "rules" => f \in Facts

LEMMA RulesStep == RulesInv /\ [MCNext]_mcVars => RulesInv'
PROOF
  <1> SUFFICES ASSUME RulesInv, [MCNext]_mcVars PROVE RulesInv'
    OBVIOUS
  <1>1. CASE which = "rules" /\ Rules!Next /\ which' = which
    BY <1>1, FactsStep DEF RulesInv
  <1>2. CASE which' = which /\ UNCHANGED ruleVars
    BY <1>2 DEF RulesInv, ruleVars
  <1> QED
    BY <1>1, <1>2 DEF MCNext, mcVars

(* Whatever is known of a factor: the mirrored measurements get the same   *)
(* verdict, a stronger one never a lower label, and a thinner sample       *)
(* neither convicts nor earns an Adopt (analytics/eval/verdict.py).        *)
THEOREM VerdictsFollowTheEvidence == MCSpec => EvidenceIsMonotone
PROOF
  <1>1. MCInit => RulesInv
    BY FactsInit DEF RulesInv
  <1>2. RulesInv /\ [MCNext]_mcVars
          => /\ [Rules!Mirror => Rules!Axes' = Rules!Axes /\ Rules!Label' = Rules!Label]_ruleVars
             /\ [Rules!Strengthen => Rules!Rank[Rules!Label'] >= Rules!Rank[Rules!Label]]_ruleVars
             /\ [Rules!Thin => /\ Rules!Label' = "Reject" => Rules!Label = "Reject"
                               /\ Rules!Label' = "Adopt" => Rules!Label = "Adopt"
                               /\ Rules!Reversed \/ Rules!TradableAxis = Rules!Fail
                                     => Rules!Label' = "Reject"]_ruleVars
    <2> SUFFICES ASSUME RulesInv, [MCNext]_mcVars
                 PROVE  \/ UNCHANGED ruleVars
                        \/ /\ Rules!Mirror =>
                                Rules!Axes' = Rules!Axes /\ Rules!Label' = Rules!Label
                           /\ Rules!Strengthen =>
                                Rules!Rank[Rules!Label'] >= Rules!Rank[Rules!Label]
                           /\ Rules!Thin =>
                                /\ Rules!Label' = "Reject" => Rules!Label = "Reject"
                                /\ Rules!Label' = "Adopt" => Rules!Label = "Adopt"
                                /\ Rules!Reversed \/ Rules!TradableAxis = Rules!Fail
                                      => Rules!Label' = "Reject"
      OBVIOUS
    <2>1. CASE which = "rules" /\ Rules!Next
      <3>1. f \in Facts
        BY <2>1 DEF RulesInv
      <3> QED
        BY <3>1, MirrorStep, StrengthenStep, ThinStep
    <2>2. CASE UNCHANGED ruleVars
      BY <2>2
    <2> QED
      BY <2>1, <2>2 DEF MCNext, mcVars
  <1> QED
    BY <1>1, <1>2, RulesStep, PTL
       DEF MCSpec, EvidenceIsMonotone, Rules!MirrorKeepsTheVerdict, Rules!StrongerIsNotWorse,
           Rules!GateOnlyWithholdsClaims, Rules!vars, ruleVars

(* What is forgotten is all that changes, and a forgotten interval of the  *)
(* ICIR, residual IC, spread, execution fact or holdout fails no axis.     *)
LEMMA ForgetStep ==
  ASSUME f \in Facts, Rules!Forget
  PROVE  \A a \in 1..3 : Rules!Axes'[a] = Rules!Fail =>
           \/ Rules!Axes[a] = Rules!Fail
           \/ /\ a = 1 /\ f.oos /\ ~Rules!SampleGateFails
              /\ \E x \in Rules!Signal : f'[x] # f[x]
PROOF
  <1> DEFINE names == {"sign", "exploratory", "rebalances", "effective", "span", "icir", "icirCI",
                       "nwt", "win", "mono", "monoCI", "pooled", "oos", "consistent", "flipped",
                       "reversed", "book", "incr", "incrCI", "gross", "nets", "tradable", "capacity"}
             flags == {"book", "oos", "consistent", "flipped", "reversed"}
  <1>a. DOMAIN f = names
    BY DEF Facts
  <1>b. PICK lost \in Rules!Losses :
           \A x \in names :
             f'[x] = IF x \in lost THEN IF x \in flags THEN FALSE ELSE {} ELSE f[x]
    BY <1>a, Zenon DEF Rules!Forget, Rules!Absent, Rules!Unknown
  <1>c. /\ lost \cap {"sign", "exploratory", "rebalances", "effective", "span"} = {}
        /\ "flipped" \in lost <=> "oos" \in lost
        /\ "reversed" \in lost <=> "oos" \in lost
        /\ "book" \in lost => "incr" \in lost
        /\ "gross" \in lost <=> "nets" \in lost
    BY DEF Rules!Losses
  <1>1. \A x \in {"sign", "exploratory", "rebalances", "effective", "span"} : f'[x] = f[x]
    BY <1>b, <1>c
  <1>2. /\ \/ f'.oos = f.oos /\ f'.flipped = f.flipped /\ f'.reversed = f.reversed
           \/ f'.oos = FALSE
        /\ (f'.gross = f.gross /\ f'.nets = f.nets) \/ f'.nets = {}
        /\ (f'.book = f.book /\ f'.incr = f.incr) \/ f'.incr = {}
        /\ f'.tradable = f.tradable \/ f'.tradable = {}
        /\ f'.capacity = f.capacity \/ f'.capacity = {}
    BY <1>b, <1>c
  <1> HIDE DEF names, flags
  <1>3. Rules!SampleGateFails' <=> Rules!SampleGateFails
    <2>1. f'.rebalances = f.rebalances /\ f'.effective = f.effective /\ f'.span = f.span
      BY <1>1
    <2> QED
      BY <2>1 DEF Rules!SampleGateFails, Rules!ClearsLevel
  <1> USE DEF Rules!Pass, Rules!Fail, Rules!Insufficient, Rules!NotAssessed
  <1>4. ASSUME Rules!PredictiveAxis' = Rules!Fail
        PROVE  \/ Rules!PredictiveAxis = Rules!Fail
               \/ /\ f.oos /\ ~Rules!SampleGateFails
                  /\ \E x \in Rules!Signal : f'[x] # f[x]
    <2>1. f'.oos # FALSE
      BY <1>4 DEF Rules!PredictiveAxis, Rules!Reversed
    <2>2. f'.oos = f.oos /\ f'.flipped = f.flipped /\ f'.reversed = f.reversed
      BY <1>2, <2>1
    <2>3. CASE Rules!Reversed
      BY <2>3 DEF Rules!PredictiveAxis
    <2>4. CASE ~Rules!Reversed
      <3>1. ~Rules!Reversed'
        BY <2>2, <2>4 DEF Rules!Reversed
      <3>2. /\ ~Rules!SampleGateFails' /\ f'.oos
            /\ \/ ~f'.consistent \/ ~Rules!HasCorePointSignal'
               \/ Rules!MonotonicityDirection' = "CONTRADICTED"
        BY <1>4, <3>1 DEF Rules!PredictiveAxis
      <3>3. f.oos /\ ~Rules!SampleGateFails
        BY <1>3, <2>2, <3>2
      <3>4. CASE \A x \in Rules!Signal : f'[x] = f[x]
        <4>1. /\ f'.consistent = f.consistent /\ f'.sign = f.sign
              /\ f'.icir = f.icir /\ f'.nwt = f.nwt /\ f'.win = f.win
              /\ f'.mono = f.mono /\ f'.monoCI = f.monoCI /\ f'.pooled = f.pooled
          BY <1>1, <3>4 DEF Rules!Signal
        <4>2. Rules!HasCorePointSignal' <=> Rules!HasCorePointSignal
          BY <4>1 DEF Rules!HasCorePointSignal, Rules!ClearsMagnitude, Rules!ClearsLevel
        <4>3. Rules!MonotonicityDirection' = Rules!MonotonicityDirection
          BY <4>1 DEF Rules!MonotonicityDirection, Rules!AlignedBounds
        <4> QED
          BY <2>4, <3>2, <3>3, <4>1, <4>2, <4>3 DEF Rules!PredictiveAxis
      <3> QED
        BY <3>3, <3>4
    <2> QED
      BY <2>3, <2>4
  <1>5. ASSUME Rules!IncrementalAxis' = Rules!Fail PROVE Rules!IncrementalAxis = Rules!Fail
    <2>1. f'.sign = f.sign
      BY <1>1
    <2>2. f'.book /\ ~Rules!SampleGateFails' /\ f'.incr # {}
          /\ ~\E v \in f'.incr : f'.sign * v > 0 /\ Rules!Abs(v) > Rules!Bar
      BY <1>5 DEF Rules!IncrementalAxis, Rules!Known, Rules!Unknown
    <2>3. f'.incr = f.incr /\ f'.book = f.book
      BY <1>2, <2>2
    <2> QED
      BY <1>3, <2>1, <2>2, <2>3 DEF Rules!IncrementalAxis, Rules!Known, Rules!Unknown
  <1>6. ASSUME Rules!TradableAxis' = Rules!Fail PROVE Rules!TradableAxis = Rules!Fail
    <2>1. f'.sign = f.sign
      BY <1>1
    <2>2. FALSE \in f'.tradable \/ FALSE \in f'.capacity \/ Rules!AllSpreadsNegative'
      BY <1>6 DEF Rules!TradableAxis
    <2>3. FALSE \in f'.tradable => FALSE \in f.tradable
      BY <1>2
    <2>4. FALSE \in f'.capacity => FALSE \in f.capacity
      BY <1>2
    <2>5. Rules!AllSpreadsNegative' => Rules!AllSpreadsNegative
      <3>1. CASE f'.nets = {}
        <4>1. Rules!AlignedSpreads' = {}
          BY <3>1 DEF Rules!AlignedSpreads
        <4> QED
          BY <4>1 DEF Rules!AllSpreadsNegative
      <3>2. CASE f'.gross = f.gross /\ f'.nets = f.nets
        <4>1. Rules!AlignedSpreads' = Rules!AlignedSpreads
          BY <2>1, <3>2 DEF Rules!AlignedSpreads, Rules!AlignedNet
        <4> QED
          BY <4>1 DEF Rules!AllSpreadsNegative
      <3> QED
        BY <1>2, <3>1, <3>2
    <2>6. Rules!Known(f.tradable) \/ Rules!Known(f.capacity)
      BY <1>2, <1>6 DEF Rules!TradableAxis, Rules!Known, Rules!Unknown
    <2> QED
      BY <2>2, <2>3, <2>4, <2>5, <2>6 DEF Rules!TradableAxis
  <1>7. /\ Rules!Axes[1] = Rules!PredictiveAxis /\ Rules!Axes'[1] = Rules!PredictiveAxis'
        /\ Rules!Axes[2] = Rules!IncrementalAxis /\ Rules!Axes'[2] = Rules!IncrementalAxis'
        /\ Rules!Axes[3] = Rules!TradableAxis /\ Rules!Axes'[3] = Rules!TradableAxis'
    BY DEF Rules!Axes
  <1>8. \A a \in 1..3 : a = 1 \/ a = 2 \/ a = 3
    OBVIOUS
  <1> QED
    BY <1>4, <1>5, <1>6, <1>7, <1>8

(* What holds of "unknown never convicts": from any combination of known   *)
(* and unknown facts, a section that is skipped or a fact that is missing  *)
(* fails the predictive axis alone, on a sufficient sample with a holdout, *)
(* and only by taking a fact of the signal away.                           *)
THEOREM MissingFactsConvictBySignal == MCSpec => OnlyALostSignalConvicts
PROOF
  <1>1. MCInit => RulesInv
    BY FactsInit DEF RulesInv
  <1>2. RulesInv /\ [MCNext]_mcVars =>
          [Rules!Forget => \A a \in 1..3 : Rules!Axes'[a] = Rules!Fail =>
             \/ Rules!Axes[a] = Rules!Fail
             \/ /\ a = 1 /\ f.oos /\ ~Rules!SampleGateFails
                /\ \E x \in Rules!Signal : f'[x] # f[x]]_ruleVars
    BY ForgetStep DEF MCNext, mcVars, RulesInv
  <1> QED
    BY <1>1, <1>2, RulesStep, PTL
       DEF MCSpec, OnlyALostSignalConvicts, Rules!OnlyALostSignalConvicts, Rules!vars,
           ruleVars

-----------------------------------------------------------------------------
(* The reconciliation of two panels.                                       *)

LEMMA PanelConstants ==
  /\ LastDate \in Nat \ {0} /\ LookbackDepth \in Nat \ {0}
  /\ IsFiniteSet(Names) /\ Stranger \notin Names
  /\ Moves \subseteq [rel : 0 .. 4, abs : 0 .. 5]
PROOF
  <1>1. Compared!ReconcileAssumption
    BY InstancesAssumption
  <1>2. IsFiniteSet(Names)
    BY <1>1 DEF Compared!ReconcileAssumption, Compared!IsFiniteSet, IsFiniteSet
  <1> QED
    BY <1>1, <1>2 DEF Compared!ReconcileAssumption

(* The cells a bounded factor may take for under-warmed.                   *)
WarmCells == Compared!FirstDates(Compared!UnderWarmed) \X Compared!FrozenSymbols

ComparedTypes ==
    /\ factor \in [pooled : BOOLEAN, cross : BOOLEAN, barsOnly : BOOLEAN]
    /\ frozen \in Panels /\ todo \subseteq Compared!Cells
    /\ count \in [Compared!Classes -> Nat] /\ overshoots \in Nat
    /\ verdict \in {"open", "ok", "failed"}

(* Each overshoot is unclassified, each warm-up difference of a bounded    *)
(* factor lies in a warm cell of its own, and an ok is final.              *)
ComparedInv ==
    /\ ComparedTypes
    /\ overshoots <= count["unclassified"]
    /\ ~factor.pooled => count["warmup"] <= Cardinality(WarmCells \ todo)
    /\ verdict = "ok" => todo = {} /\ count["unclassified"] = 0

LEMMA ComparedInit == MCInit /\ which = "panels" => ComparedInv
PROOF
  <1> SUFFICES ASSUME MCInit, which = "panels" PROVE ComparedInv
    OBVIOUS
  <1>1. Compared!Init
    BY DEF MCInit
  <1>2. WarmCells \ todo \subseteq {} 
    <2>1. /\ Compared!FirstDates(Compared!UnderWarmed) \subseteq Compared!Dates
          /\ Compared!FrozenSymbols \subseteq Names
      BY DEF Compared!FirstDates, Compared!GridDates, Compared!FrozenSymbols
    <2> QED
      BY <1>1, <2>1 DEF WarmCells, Compared!Init, Compared!Cells
  <1>3. Cardinality(WarmCells \ todo) = 0
    BY <1>2, FS_EmptySet
  <1>4. /\ count["warmup"] = 0 /\ count["unclassified"] = 0
        /\ count \in [Compared!Classes -> Nat]
    BY <1>1 DEF Compared!Init, Compared!Classes
  <1> QED
    BY <1>1, <1>3, <1>4 DEF Compared!Init, ComparedInv, ComparedTypes

LEMMA WarmCellsAreFinite ==
  /\ IsFiniteSet(Compared!Dates) /\ IsFiniteSet(Names)
  /\ IsFiniteSet(Compared!GridDates) /\ IsFiniteSet(Compared!FrozenSymbols)
  /\ IsFiniteSet(Compared!FirstDates(Compared!UnderWarmed))
  /\ IsFiniteSet(WarmCells)
  /\ Cardinality(WarmCells)
       = Cardinality(Compared!FirstDates(Compared!UnderWarmed))
           * Cardinality(Compared!FrozenSymbols)
PROOF
  <1>1. LastDate \in Nat \ {0} /\ IsFiniteSet(Names)
    BY PanelConstants
  <1>2. IsFiniteSet(Compared!Dates)
    BY <1>1, FS_Interval DEF Compared!Dates
  <1>3. /\ Compared!GridDates \subseteq Compared!Dates
        /\ Compared!FirstDates(Compared!UnderWarmed) \subseteq Compared!Dates
        /\ Compared!FrozenSymbols \subseteq Names
    BY DEF Compared!GridDates, Compared!FirstDates, Compared!FrozenSymbols
  <1>4. /\ IsFiniteSet(Compared!GridDates) /\ IsFiniteSet(Compared!FrozenSymbols)
        /\ IsFiniteSet(Compared!FirstDates(Compared!UnderWarmed))
    BY <1>1, <1>2, <1>3, FS_Subset
  <1> QED
    BY <1>1, <1>2, <1>4, FS_Product DEF WarmCells

(* Each of the grid's first n dates but the last of them is before it.     *)
LEMMA FewFirstDates ==
  Cardinality(Compared!FirstDates(Compared!UnderWarmed)) <= Compared!UnderWarmed
PROOF
  <1> DEFINE n == Compared!UnderWarmed
             first == Compared!FirstDates(n)
             before(d) == {e \in Compared!GridDates : e < d}
  <1>1. n \in Nat /\ LastDate \in Nat
    BY PanelConstants DEF Compared!UnderWarmed
  <1>2. /\ first = {d \in Compared!GridDates : Cardinality(before(d)) < n}
        /\ Compared!GridDates \subseteq 1 .. LastDate
    BY DEF Compared!FirstDates, Compared!GridDates, Compared!Dates,
           Compared!Cardinality, Cardinality
  <1>3. IsFiniteSet(first) /\ IsFiniteSet(Compared!GridDates)
    BY WarmCellsAreFinite
  <1> SUFFICES Cardinality(first) <= n
    OBVIOUS
  <1> HIDE DEF n, first
  <1>4. CASE first = {}
    <2>1. Cardinality(first) = 0
      BY <1>4, FS_EmptySet
    <2> QED
      BY <1>1, <2>1
  <1>5. CASE first # {}
    <2>1. PICK last \in first : \A d \in first : d <= last
      <3> DEFINE bounds == {b \in Nat : \A d \in first : d <= b}
      <3>1. LastDate \in bounds /\ bounds \subseteq Nat
        BY <1>1, <1>2
      <3>2. PICK b \in bounds : \A c \in bounds : b <= c
        <4>1. IsWellFoundedOn(OpToRel(<, Nat), Nat) /\ bounds \in SUBSET Nat /\ bounds # {}
          BY <3>1, NatLessThanWellFounded
        <4>2. PICK b \in bounds : \A c \in bounds : ~(<<c, b>> \in OpToRel(<, Nat))
          BY <4>1, WFMin
        <4>3. \A c \in bounds : ~(c < b)
          BY <3>1, <4>2 DEF OpToRel
        <4> QED
          BY <3>1, <4>3
      <3>3. b \in first
        <4>1. SUFFICES ASSUME b \notin first PROVE FALSE
          OBVIOUS
        <4>2. \A d \in first : d \in Nat /\ d <= b - 1
          BY <1>2, <3>2, <4>1
        <4>3. b - 1 \in Nat
          BY <1>5, <3>2, <4>2
        <4>4. b - 1 \in bounds
          BY <4>2, <4>3
        <4> QED
          BY <3>2, <4>4
      <3> QED
        BY <3>2, <3>3
    <2>2. first \ {last} \subseteq before(last)
      <3>1. ASSUME NEW d \in first, d # last PROVE d \in before(last)
        <4>1. d \in Compared!GridDates /\ d \in Nat /\ last \in Nat
          BY <1>1, <1>2
        <4>2. d < last
          BY <2>1, <3>1, <4>1
        <4> QED
          BY <4>1, <4>2
      <3> QED
        BY <3>1
    <2>3. IsFiniteSet(before(last)) /\ Cardinality(before(last)) \in Nat
      BY <1>3, FS_Subset, FS_CardinalityType
    <2>4. Cardinality(before(last)) < n
      BY <1>2, <2>1
    <2>5. /\ Cardinality(first \ {last}) = Cardinality(first) - 1
          /\ Cardinality(first) \in Nat
      BY <1>3, <2>1, FS_RemoveElement, FS_CardinalityType
    <2>6. Cardinality(first \ {last}) <= Cardinality(before(last))
      BY <2>2, <2>3, FS_Subset
    <2> QED
      BY <1>1, <2>3, <2>4, <2>5, <2>6
  <1> QED
    BY <1>4, <1>5

(* What class a difference gets: a move past the bound of the flip is      *)
(* unclassified, and the warm-up of a bounded factor is in its warm cells. *)
LEMMA ClassOf ==
  ASSUME ComparedTypes, NEW d \in Compared!Dates, NEW s \in Names \cup {Stranger},
         NEW v \in Compared!Served
  PROVE  /\ Compared!PanelClass(d, s, v) \in Compared!Classes
         /\ Compared!Overshoot(d, s, v) => Compared!PanelClass(d, s, v) = "unclassified"
         /\ ~factor.pooled /\ Compared!PanelClass(d, s, v) = "warmup" => <<d, s>> \in WarmCells
         /\ frozen[<<d, s>>] = "finite" /\ v.finite /\ v.rel # Compared!WithinTol
              /\ v.abs # Compared!Dust =>
                 (Compared!AnchorClass(d, s, v) = "warmup"
                    <=> Compared!PanelClass(d, s, v) = "warmup")
PROOF
  <1> DEFINE row == frozen[<<d, s>>]
             class == Compared!PanelClass(d, s, v)
  <1>1. /\ row \in {"absent", "nan", "finite"}
        /\ s = Stranger => row = "absent"
    BY InstancesAssumption DEF Compared!ReconcileAssumption, ComparedTypes, Compared!Cells
  <1>2. v.finite \in BOOLEAN
    <2>1. v = [finite |-> FALSE] \/ \E m \in Moves : v = [finite |-> TRUE, rel |-> m.rel,
                                                           abs |-> m.abs]
      BY DEF Compared!Served, Compared!Missing
    <2>2. CASE v = [finite |-> FALSE]
      BY <2>2
    <2>3. CASE \E m \in Moves : v = [finite |-> TRUE, rel |-> m.rel, abs |-> m.abs]
      BY <2>3
    <2> QED
      BY <2>1, <2>2, <2>3
  <1>3. /\ row = "absent" => class = Compared!Extra(d, s, v)
        /\ row = "finite" /\ v.finite => class = Compared!Moved(d, s, v)
        /\ row = "finite" /\ ~v.finite => class = Compared!Lost(d)
        /\ row = "nan" /\ v.finite => class = Compared!Found(d)
        /\ row = "nan" /\ ~v.finite => class = "equal"
    BY <1>1, <1>2 DEF Compared!PanelClass
  <1>4. row # "absent" => s \in Compared!FrozenSymbols
    BY <1>1 DEF Compared!FrozenSymbols
  <1> HIDE DEF class, row
  <1>5. /\ class \in Compared!Classes
        /\ class = "warmup" => Compared!InWarmup(d) /\ s \in Compared!FrozenSymbols
    <2>1. /\ Compared!Extra(d, s, v) \in {"equal", "warmup", "unclassified"}
          /\ Compared!Extra(d, s, v) = "warmup"
               => Compared!InWarmup(d) /\ s \in Compared!FrozenSymbols
      BY DEF Compared!Extra
    <2>2. /\ Compared!Moved(d, s, v) \in Compared!Classes
          /\ Compared!Moved(d, s, v) = "warmup" => Compared!InWarmup(d)
      BY DEF Compared!Moved, Compared!FlipClass, Compared!Tails, Compared!Classes
    <2>3. /\ {Compared!Lost(d), Compared!Found(d)} \subseteq {"warmup", "unclassified"}
          /\ Compared!Lost(d) = "warmup" => Compared!InWarmup(d)
          /\ Compared!Found(d) = "warmup" => Compared!InWarmup(d)
      BY DEF Compared!Lost, Compared!Found
    <2> QED
      BY <1>1, <1>2, <1>3, <1>4, <2>1, <2>2, <2>3 DEF Compared!Classes
  <1>6. Compared!Overshoot(d, s, v) => class = "unclassified"
    <2> SUFFICES ASSUME Compared!Overshoot(d, s, v) PROVE class = "unclassified"
      OBVIOUS
    <2>1. class = Compared!Moved(d, s, v)
      BY <1>3 DEF Compared!Overshoot, row
    <2>2. Compared!Moved(d, s, v) = Compared!FlipClass(s, v)
      BY DEF Compared!Overshoot, Compared!Moved
    <2>3. Compared!FlipClass(s, v) = "unclassified"
      BY DEF Compared!Overshoot, Compared!FlipClass
    <2> QED
      BY <2>1, <2>2, <2>3
  <1>7. ~factor.pooled /\ class = "warmup" => <<d, s>> \in WarmCells
    BY <1>5 DEF Compared!InWarmup, WarmCells
  <1>8. row = "finite" /\ v.finite /\ v.rel # Compared!WithinTol /\ v.abs # Compared!Dust =>
          (Compared!AnchorClass(d, s, v) = "warmup" <=> class = "warmup")
    <2> SUFFICES ASSUME row = "finite", v.finite, v.rel # Compared!WithinTol,
                        v.abs # Compared!Dust
                 PROVE  Compared!AnchorClass(d, s, v) = "warmup" <=> class = "warmup"
      OBVIOUS
    <2>1. class = "warmup" <=> Compared!InWarmup(d)
      <3>1. /\ class = Compared!Moved(d, s, v)
            /\ Compared!InWarmup(d) => Compared!Moved(d, s, v) = "warmup"
        BY <1>3 DEF Compared!Moved
      <3> QED
        BY <1>5, <3>1
    <2>2. Compared!AnchorClass(d, s, v) = "warmup" <=> Compared!InWarmup(d)
      BY DEF Compared!AnchorClass, Compared!InWarmup, row
    <2> QED
      BY <2>1, <2>2
  <1> QED
    BY <1>5, <1>6, <1>7, <1>8 DEF class, row

LEMMA CompareStep ==
  ASSUME ComparedInv, Compared!CompareCell
  PROVE  ComparedInv'
PROOF
  <1>1. PICK c \in todo, v \in Compared!Served :
           Compared!Compare(c[1], c[2], v) /\ todo' = todo \ {c}
    BY DEF Compared!CompareCell
  <1> DEFINE class == Compared!PanelClass(c[1], c[2], v)
  <1>2. /\ c[1] \in Compared!Dates /\ c[2] \in Names \cup {Stranger} /\ <<c[1], c[2]>> = c
        /\ ComparedTypes
    BY DEF ComparedInv, ComparedTypes, Compared!Cells
  <1>3. /\ class \in Compared!Classes
        /\ Compared!Overshoot(c[1], c[2], v) => class = "unclassified"
        /\ ~factor.pooled /\ class = "warmup" => c \in WarmCells
    <2>1. ComparedTypes /\ c[1] \in Compared!Dates /\ c[2] \in Names \cup {Stranger}
      BY <1>2
    <2> QED
      BY <1>2, <2>1, ClassOf
  <1>4. /\ count' = [count EXCEPT ![class] = @ + 1]
        /\ overshoots' = IF Compared!Overshoot(c[1], c[2], v) THEN overshoots + 1
                         ELSE overshoots
        /\ todo # {} /\ todo' = todo \ {c}
        /\ factor' = factor /\ frozen' = frozen /\ verdict' = verdict
    BY <1>1 DEF Compared!CompareCell, Compared!Compare
  <1> HIDE DEF class
  <1>5. WarmCells' = WarmCells
    BY <1>4 DEF WarmCells, Compared!FirstDates, Compared!GridDates, Compared!FrozenSymbols,
                Compared!Cardinality, Compared!UnderWarmed
  <1>6. ComparedTypes'
    BY <1>2, <1>3, <1>4 DEF ComparedTypes
  <1>7. (overshoots <= count["unclassified"])'
    BY <1>2, <1>3, <1>4 DEF ComparedInv, ComparedTypes, Compared!Classes
  <1>8. (~factor.pooled => count["warmup"] <= Cardinality(WarmCells \ todo))'
    <2> SUFFICES ASSUME ~factor.pooled
                 PROVE  count'["warmup"] <= Cardinality(WarmCells \ todo')
      BY <1>4, <1>5
    <2>1. /\ IsFiniteSet(WarmCells \ todo) /\ IsFiniteSet(WarmCells \ todo')
          /\ Cardinality(WarmCells \ todo) \in Nat /\ Cardinality(WarmCells \ todo') \in Nat
      BY WarmCellsAreFinite, FS_Subset, FS_CardinalityType
    <2>2. count["warmup"] \in Nat /\ count["warmup"] <= Cardinality(WarmCells \ todo)
      BY <1>2 DEF ComparedInv, ComparedTypes, Compared!Classes
    <2>3. CASE class = "warmup"
      <3>1. /\ WarmCells \ todo' = (WarmCells \ todo) \cup {c}
            /\ c \notin WarmCells \ todo
        BY <1>1, <1>3, <2>3
      <3>2. Cardinality(WarmCells \ todo') = Cardinality(WarmCells \ todo) + 1
        BY <2>1, <3>1, FS_AddElement
      <3>3. count'["warmup"] = count["warmup"] + 1
        BY <1>2, <1>4, <2>3 DEF ComparedTypes, Compared!Classes
      <3> QED
        BY <2>1, <2>2, <3>2, <3>3
    <2>4. CASE class # "warmup"
      <3>1. WarmCells \ todo \subseteq WarmCells \ todo'
        BY <1>4
      <3>2. Cardinality(WarmCells \ todo) <= Cardinality(WarmCells \ todo')
        BY <2>1, <3>1, FS_Subset
      <3>3. count'["warmup"] = count["warmup"]
        BY <1>2, <1>4, <2>4 DEF ComparedTypes, Compared!Classes
      <3> QED
        BY <2>1, <2>2, <3>2, <3>3
    <2> QED
      BY <2>3, <2>4
  <1>9. (verdict = "ok" => todo = {} /\ count["unclassified"] = 0)'
    BY <1>4 DEF ComparedInv
  <1> QED
    BY <1>6, <1>7, <1>8, <1>9 DEF ComparedInv

LEMMA ComparedStep ==
  ASSUME ComparedInv, Compared!Next \/ UNCHANGED panelVars
  PROVE  ComparedInv'
PROOF
  <1> DEFINE same == factor' = factor /\ frozen' = frozen /\ todo' = todo /\ count' = count
                     /\ overshoots' = overshoots
  <1>1. ASSUME same PROVE WarmCells' = WarmCells
    BY <1>1 DEF WarmCells, Compared!FirstDates, Compared!GridDates, Compared!FrozenSymbols,
                Compared!Cardinality, Compared!UnderWarmed
  <1>2. CASE Compared!CompareCell
    BY <1>2, CompareStep
  <1>3. CASE Compared!Judge
    <2>1. /\ same /\ todo = {} /\ verdict' \in {"ok", "failed"}
          /\ verdict' = "ok" => count["unclassified"] = 0
      BY <1>3 DEF Compared!Judge, Compared!Accepted
    <2>2. ComparedTypes'
      BY <2>1 DEF ComparedInv, ComparedTypes
    <2> QED
      BY <1>1, <2>1, <2>2 DEF ComparedInv
  <1>4. CASE UNCHANGED panelVars
    <2>1. same /\ verdict' = verdict
      BY <1>4 DEF panelVars
    <2>2. ComparedTypes'
      BY <2>1 DEF ComparedInv, ComparedTypes
    <2> QED
      BY <1>1, <2>1, <2>2 DEF ComparedInv
  <1> QED
    BY <1>2, <1>3, <1>4 DEF Compared!Next

LEMMA WarmupBound ==
  ASSUME ComparedInv
  PROVE  Compared!WarmupIsOneRegion /\ Compared!WindowIsClosed
PROOF
  <1>1. ~factor.pooled => count["warmup"] <= Compared!WarmupMax
    <2> SUFFICES ASSUME ~factor.pooled PROVE count["warmup"] <= Compared!WarmupMax
      OBVIOUS
    <2> DEFINE first == Cardinality(Compared!FirstDates(Compared!UnderWarmed))
               names == Cardinality(Compared!FrozenSymbols)
               depth == Compared!UnderWarmed
               cells == Cardinality(WarmCells)
               seen == Cardinality(WarmCells \ todo)
    <2>1. /\ first \in Nat /\ names \in Nat /\ cells = first * names /\ first <= depth
          /\ depth \in Nat
      BY WarmCellsAreFinite, FS_CardinalityType, FewFirstDates, PanelConstants
         DEF Compared!UnderWarmed
    <2>2. /\ seen \in Nat /\ seen <= cells
      BY WarmCellsAreFinite, FS_Subset, FS_CardinalityType
    <2>3. /\ count["warmup"] \in Nat /\ count["warmup"] <= seen
      BY DEF ComparedInv, ComparedTypes, Compared!Classes
    <2>4. Compared!WarmupMax = depth * names
      BY DEF Compared!WarmupMax, Compared!Cardinality, Cardinality
    <2> HIDE DEF first, names, depth, cells, seen
    <2>5. \A a, b, k \in Nat : a <= b => a * k <= b * k
      OBVIOUS
    <2>6. first * names <= depth * names
      BY <2>1, <2>5
    <2>7. first * names \in Nat /\ depth * names \in Nat
      BY <2>1
    <2> QED
      BY <2>1, <2>2, <2>3, <2>4, <2>6, <2>7
  <1>2. ASSUME NEW c \in Compared!Cells, NEW v \in Compared!Served,
               frozen[c] = "finite", v.finite, v.rel # Compared!WithinTol,
               v.abs # Compared!Dust
        PROVE  Compared!AnchorClass(c[1], c[2], v) = "warmup"
                 <=> Compared!PanelClass(c[1], c[2], v) = "warmup"
    <2>1. /\ c[1] \in Compared!Dates /\ c[2] \in Names \cup {Stranger}
          /\ <<c[1], c[2]>> = c /\ ComparedTypes
      BY DEF Compared!Cells, ComparedInv
    <2>2. frozen[<<c[1], c[2]>>] = "finite"
      BY <1>2, <2>1
    <2> QED
      BY <1>2, <2>1, <2>2, ClassOf
  <1>3. verdict = "ok" => overshoots = 0
    BY DEF ComparedInv, ComparedTypes
  <1> QED
    BY <1>1, <1>2, <1>3 DEF Compared!WarmupIsOneRegion, Compared!WindowIsClosed

PanelsInv ==
    /\ which = "panels" => ComparedInv
    /\ which # "panels" => verdict = "open"

(* Whatever the panels and the moves: a panel that passes holds no move    *)
(* past the bound of its registered flip, a bounded factor never has more  *)
(* warm-up differences than the ceiling it is not judged by, and the two   *)
(* legs take the same cells for under-warmed (factor_eval_reconcile.py).   *)
THEOREM PassingPanelsAreExplained == MCSpec => []WindowIsClosed
PROOF
  <1>1. MCInit => PanelsInv
    <2> SUFFICES ASSUME MCInit PROVE PanelsInv
      OBVIOUS
    <2>1. which # "panels" => verdict = "open"
      BY DEF MCInit
    <2> QED
      BY <2>1, ComparedInit DEF PanelsInv
  <1>2. PanelsInv /\ [MCNext]_mcVars => PanelsInv'
    <2> SUFFICES ASSUME PanelsInv, [MCNext]_mcVars PROVE PanelsInv'
      OBVIOUS
    <2>1. which' = which /\ ((which = "panels" /\ Compared!Next) \/ UNCHANGED panelVars)
      BY DEF MCNext, mcVars
    <2>2. which # "panels" => verdict' = verdict
      BY <2>1 DEF panelVars
    <2> QED
      BY <2>1, <2>2, ComparedStep DEF PanelsInv
  <1>3. PanelsInv => WindowIsClosed
    <2>1. which # "panels" /\ PanelsInv => Compared!WindowIsClosed
      BY DEF PanelsInv, Compared!WindowIsClosed
    <2> QED
      BY <2>1, WarmupBound DEF PanelsInv, WindowIsClosed
  <1> QED
    BY <1>1, <1>2, <1>3, PTL DEF MCSpec

-----------------------------------------------------------------------------
(* A bounded set of numbers has a least and a greatest.                    *)
LEMMA Extremes ==
  ASSUME NEW k \in Nat, NEW S \in SUBSET (0 .. k), S # {}
  PROVE  /\ \E x \in S : \A y \in S : x >= y
         /\ \E x \in S : \A y \in S : x <= y
PROOF
  <1> S \in SUBSET Nat /\ \A x \in S : x \in Nat /\ x <= k
    OBVIOUS
  <1>1. \E x \in S : \A y \in S : x <= y
    <2>1. PICK x \in S : \A y \in S : ~(<<y, x>> \in OpToRel(<, Nat))
      BY NatLessThanWellFounded, WFMin
    <2>2. \A y \in S : ~(y < x)
      BY <2>1 DEF OpToRel
    <2> QED
      BY <2>2
  <1>2. \E x \in S : \A y \in S : x >= y
    <2> DEFINE T == {k - x : x \in S}
    <2>1. T \in SUBSET Nat /\ T # {}
      <3>1. \A x \in S : k - x \in Nat
        OBVIOUS
      <3>2. PICK x \in S : TRUE
        OBVIOUS
      <3>3. k - x \in T
        OBVIOUS
      <3> QED
        BY <3>1, <3>3
    <2>2. PICK z \in T : \A y \in T : ~(<<y, z>> \in OpToRel(<, Nat))
      BY <2>1, NatLessThanWellFounded, WFMin
    <2>3. \A y \in T : ~(y < z)
      BY <2>1, <2>2 DEF OpToRel
    <2>4. PICK x \in S : z = k - x
      BY <2>2
    <2>5. \A y \in S : ~(k - y < z)
      BY <2>3
    <2> QED
      BY <2>4, <2>5
  <1> QED
    BY <1>1, <1>2

-----------------------------------------------------------------------------
(* Sums over a set.  MapThenSumSet takes an element at a time, whichever   *)
(* CHOOSE picks; the order does not matter.  Induction over the set is     *)
(* replaced by a counterexample with the fewest elements.                  *)

(* g holds the sums of w over the subsets of S, as MapThenSumSet computes  *)
(* them: an element at a time, whichever CHOOSE picks.                     *)
Pick(T) == CHOOSE x \in T : TRUE
Sums(g, w, S) ==
    g = [T \in SUBSET S |-> IF T = {} THEN 0 ELSE w[Pick(T)] + g[T \ {Pick(T)}]]

LEMMA SumIsIter ==
  ASSUME NEW w, NEW S
  PROVE  Book!SumOver(w, S) = (CHOOSE g : Sums(g, w, S))[S]
  BY DEF Book!SumOver, Book!MapThenSumSet, Book!MapThenFoldSet, Sums, Pick

(* Among finite sets one has the fewest elements.                          *)
LEMMA SmallestSet ==
  ASSUME NEW B, B # {}, \A T \in B : IsFiniteSet(T)
  PROVE  \E T \in B : \A U \in B : ~(Cardinality(U) < Cardinality(T))
PROOF
  <1> DEFINE sizes == {Cardinality(T) : T \in B}
  <1>1. sizes \in SUBSET Nat /\ sizes # {}
    BY FS_CardinalityType
  <1>2. IsWellFoundedOn(OpToRel(<, Nat), Nat)
    BY NatLessThanWellFounded
  <1>3. PICK n \in sizes : \A k \in sizes : ~(<<k, n>> \in OpToRel(<, Nat))
    BY <1>1, <1>2, WFMin
  <1>4. \A k \in sizes : ~(k < n)
    BY <1>1, <1>3 DEF OpToRel
  <1> QED
    BY <1>3, <1>4

LEMMA Fewer ==
  ASSUME NEW T, IsFiniteSet(T), NEW x \in T
  PROVE  IsFiniteSet(T \ {x}) /\ Cardinality(T \ {x}) < Cardinality(T)
PROOF
  <1>1. /\ Cardinality(T \ {x}) = Cardinality(T) - 1 /\ Cardinality(T) \in Nat
        /\ IsFiniteSet(T \ {x})
    BY FS_RemoveElement, FS_CardinalityType
  <1> QED
    BY <1>1

LEMMA Picked ==
  ASSUME NEW T, IsFiniteSet(T), T # {}
  PROVE  /\ Pick(T) \in T /\ IsFiniteSet(T \ {Pick(T)})
         /\ Cardinality(T \ {Pick(T)}) < Cardinality(T)
PROOF
  <1>1. Pick(T) \in T
    BY DEF Pick
  <1> QED
    BY <1>1, Fewer

LEMMA SumsAgree ==
  ASSUME NEW g, NEW h, NEW w, NEW v, NEW S, NEW R, Sums(g, w, S), Sums(h, v, R),
         NEW T, IsFiniteSet(T), T \subseteq S, T \subseteq R, \A x \in T : w[x] = v[x]
  PROVE  g[T] = h[T]
PROOF
  <1> DEFINE bad == {U \in SUBSET T : g[U] # h[U]}
  <1> SUFFICES ASSUME bad # {} PROVE FALSE
    OBVIOUS
  <1>1. \A U \in bad : IsFiniteSet(U)
    BY FS_Subset
  <1>2. PICK U \in bad : \A V \in bad : ~(Cardinality(V) < Cardinality(U))
    BY <1>1, SmallestSet
  <1>3. /\ g[U] = IF U = {} THEN 0 ELSE w[Pick(U)] + g[U \ {Pick(U)}]
        /\ h[U] = IF U = {} THEN 0 ELSE v[Pick(U)] + h[U \ {Pick(U)}]
    BY DEF Sums
  <1>4. U # {}
    BY <1>2, <1>3
  <1>5. Pick(U) \in U /\ U \ {Pick(U)} \notin bad
    BY <1>1, <1>2, <1>4, Picked
  <1> QED
    BY <1>2, <1>3, <1>4, <1>5

LEMMA SumsExist ==
  ASSUME NEW S, IsFiniteSet(S), NEW w, \A x \in S : w[x] \in Int
  PROVE  \E g : Sums(g, w, S) /\ g[S] \in Int
PROOF
  <1> DEFINE good(T) == \E g : Sums(g, w, T) /\ g[T] \in Int
             bad == {T \in SUBSET S : ~good(T)}
             G(T) == CHOOSE g : Sums(g, w, T) /\ g[T] \in Int
  <1> SUFFICES ASSUME bad # {} PROVE FALSE
    OBVIOUS
  <1>1. \A T \in SUBSET S : IsFiniteSet(T)
    BY FS_Subset
  <1>2. PICK T \in bad : \A U \in bad : ~(Cardinality(U) < Cardinality(T))
    BY <1>1, SmallestSet
  <1>3. \A U \in SUBSET T : U # T => good(U)
    <2> SUFFICES ASSUME NEW U \in SUBSET T, U # T PROVE U \notin bad
      OBVIOUS
    <2>1. Cardinality(U) < Cardinality(T)
      BY <1>1, <1>2, FS_Subset, FS_CardinalityType
    <2> QED
      BY <1>2, <2>1
  <1>4. \A U \in SUBSET T : U # T => Sums(G(U), w, U) /\ G(U)[U] \in Int
    BY <1>3
  <1> DEFINE h == [U \in SUBSET T |->
                     IF U # T THEN G(U)[U]
                     ELSE IF T = {} THEN 0
                     ELSE w[Pick(T)] + G(T \ {Pick(T)})[T \ {Pick(T)}]]
  <1> HIDE DEF G
  <1>5. ASSUME NEW U \in SUBSET T
        PROVE  h[U] = IF U = {} THEN 0 ELSE w[Pick(U)] + h[U \ {Pick(U)}]
    <2>1. CASE U = {} /\ U # T
      BY <1>4, <2>1 DEF Sums
    <2>2. CASE U = T
      BY <1>1, <1>2, <2>2, Picked
    <2>3. CASE U # {} /\ U # T
      <3>1. Pick(U) \in U /\ U \ {Pick(U)} # T /\ IsFiniteSet(U \ {Pick(U)})
        BY <1>1, <1>2, <2>3, Picked
      <3>2. h[U \ {Pick(U)}] = G(U \ {Pick(U)})[U \ {Pick(U)}] /\ h[U] = G(U)[U]
        BY <2>3, <3>1
      <3>3. Sums(G(U), w, U) /\ Sums(G(U \ {Pick(U)}), w, U \ {Pick(U)})
        BY <1>4, <2>3, <3>1
      <3>4. G(U)[U] = w[Pick(U)] + G(U)[U \ {Pick(U)}]
        BY <2>3, <3>3 DEF Sums
      <3>5. G(U)[U \ {Pick(U)}] = G(U \ {Pick(U)})[U \ {Pick(U)}]
        BY <3>1, <3>3, SumsAgree
      <3> QED
        BY <2>3, <3>2, <3>4, <3>5
    <2> QED
      BY <2>1, <2>2, <2>3
  <1>6. Sums(h, w, T)
    <2>1. h = [U \in SUBSET T |-> h[U]]
      OBVIOUS
    <2> HIDE DEF h
    <2> QED
      BY <1>5, <2>1 DEF Sums
  <1>7. h[T] \in Int
    <2>1. CASE T = {}
      BY <2>1
    <2>2. CASE T # {}
      <3>1. Pick(T) \in T /\ T \ {Pick(T)} # T
        BY <1>1, <1>2, <2>2, Picked
      <3>2. w[Pick(T)] \in Int /\ G(T \ {Pick(T)})[T \ {Pick(T)}] \in Int
        BY <1>2, <1>4, <3>1
      <3> QED
        BY <2>2, <3>2
    <2> QED
      BY <2>1, <2>2
  <1> QED
    BY <1>2, <1>6, <1>7

(* What a sum is: nothing over no element, one term more for one more.     *)
LEMMA SumIsOneOf ==
  ASSUME NEW S, IsFiniteSet(S), NEW w, \A x \in S : w[x] \in Int
  PROVE  \E g : Sums(g, w, S) /\ Book!SumOver(w, S) = g[S] /\ g[S] \in Int
PROOF
  <1> DEFINE c == CHOOSE g : Sums(g, w, S)
  <1>1. PICK g : Sums(g, w, S) /\ g[S] \in Int
    BY SumsExist
  <1>2. Sums(c, w, S)
    BY <1>1
  <1> HIDE DEF c
  <1>3. c[S] = g[S]
    BY <1>1, <1>2, SumsAgree
  <1> QED
    BY <1>1, <1>2, <1>3, SumIsIter DEF c

LEMMA SumType ==
  ASSUME NEW S, IsFiniteSet(S), NEW w, \A x \in S : w[x] \in Int
  PROVE  Book!SumOver(w, S) \in Int
  BY SumIsOneOf

LEMMA SumEmpty == ASSUME NEW w PROVE Book!SumOver(w, {}) = 0
PROOF
  <1>1. PICK g : Sums(g, w, {}) /\ Book!SumOver(w, {}) = g[{}]
    BY SumIsOneOf, FS_EmptySet
  <1> QED
    BY <1>1 DEF Sums

LEMMA SumPicked ==
  ASSUME NEW S, IsFiniteSet(S), S # {}, NEW w, \A x \in S : w[x] \in Int
  PROVE  Book!SumOver(w, S) = w[Pick(S)] + Book!SumOver(w, S \ {Pick(S)})
PROOF
  <1> DEFINE R == S \ {Pick(S)}
  <1>1. Pick(S) \in S /\ IsFiniteSet(R)
    BY Picked
  <1>2. PICK g : Sums(g, w, S) /\ Book!SumOver(w, S) = g[S]
    BY SumIsOneOf
  <1>3. PICK h : Sums(h, w, R) /\ Book!SumOver(w, R) = h[R]
    BY <1>1, SumIsOneOf
  <1>4. g[S] = w[Pick(S)] + g[R]
    BY <1>2 DEF Sums
  <1>5. g[R] = h[R]
    BY <1>1, <1>2, <1>3, SumsAgree
  <1> QED
    BY <1>2, <1>3, <1>4, <1>5

(* Any element may be taken first.                                         *)
LEMMA SumStep ==
  ASSUME NEW S, IsFiniteSet(S), NEW w, \A x \in S : w[x] \in Int, NEW x \in S
  PROVE  Book!SumOver(w, S) = w[x] + Book!SumOver(w, S \ {x})
PROOF
  <1> DEFINE good(T) == \A z \in T : Book!SumOver(w, T) = w[z] + Book!SumOver(w, T \ {z})
             bad == {T \in SUBSET S : ~good(T)}
  <1> SUFFICES ASSUME bad # {} PROVE FALSE
    OBVIOUS
  <1>1. \A T \in SUBSET S : IsFiniteSet(T)
    BY FS_Subset
  <1>2. PICK T \in bad : \A R \in bad : ~(Cardinality(R) < Cardinality(T))
    BY <1>1, SmallestSet
  <1>3. PICK z \in T : Book!SumOver(w, T) # w[z] + Book!SumOver(w, T \ {z})
    BY <1>2
  <1> DEFINE p == Pick(T)
             rest == T \ {p, z}
  <1>4. p \in T /\ Book!SumOver(w, T) = w[p] + Book!SumOver(w, T \ {p})
    BY <1>1, <1>2, <1>3, Picked, SumPicked
  <1>5. p # z
    BY <1>3, <1>4
  <1>6. \A t \in T : good(T \ {t})
    <2> SUFFICES ASSUME NEW t \in T PROVE T \ {t} \notin bad
      OBVIOUS
    <2> QED
      BY <1>1, <1>2, Fewer
  <1>7. /\ Book!SumOver(w, T \ {p}) = w[z] + Book!SumOver(w, rest)
        /\ Book!SumOver(w, T \ {z}) = w[p] + Book!SumOver(w, rest)
    <2>1. (T \ {p}) \ {z} = rest /\ (T \ {z}) \ {p} = rest
      OBVIOUS
    <2>2. good(T \ {p}) /\ good(T \ {z})
      BY <1>4, <1>6
    <2> QED
      BY <1>4, <1>5, <2>1, <2>2
  <1>8. w[p] \in Int /\ w[z] \in Int /\ Book!SumOver(w, rest) \in Int
    BY <1>1, <1>2, <1>4, SumType
  <1> QED
    BY <1>3, <1>4, <1>7, <1>8

(* A linear inequality that holds of the terms, one by one, holds of the sums. *)
LEMMA SumBound ==
  ASSUME NEW S, IsFiniteSet(S), NEW u, NEW v, NEW w, NEW y,
         NEW a \in Int, NEW b \in Int, NEW c \in Int, NEW d \in Int, NEW e \in Int,
         \A x \in S : /\ u[x] \in Int /\ v[x] \in Int /\ w[x] \in Int /\ y[x] \in Int
                      /\ a * u[x] + b * v[x] + c * w[x] + d * y[x] + e >= 0
  PROVE  a * Book!SumOver(u, S) + b * Book!SumOver(v, S) + c * Book!SumOver(w, S)
           + d * Book!SumOver(y, S) + e * Cardinality(S) >= 0
PROOF
  <1> DEFINE left(T) == a * Book!SumOver(u, T) + b * Book!SumOver(v, T) + c * Book!SumOver(w, T)
                          + d * Book!SumOver(y, T) + e * Cardinality(T)
             bad == {T \in SUBSET S : ~(left(T) >= 0)}
  <1> SUFFICES ASSUME bad # {} PROVE FALSE
    OBVIOUS
  <1>1. \A T \in SUBSET S : IsFiniteSet(T)
    BY FS_Subset
  <1>2. PICK T \in bad : \A R \in bad : ~(Cardinality(R) < Cardinality(T))
    BY <1>1, SmallestSet
  <1>3. T # {}
    <2>1. left({}) = 0
      BY SumEmpty, FS_EmptySet
    <2> QED
      BY <1>2, <2>1
  <1> DEFINE p == Pick(T)
             R == T \ {p}
  <1>4. p \in T /\ IsFiniteSet(R) /\ Cardinality(R) < Cardinality(T)
    BY <1>1, <1>2, <1>3, Picked
  <1>5. Cardinality(T) = Cardinality(R) + 1 /\ Cardinality(R) \in Nat
    BY <1>1, <1>2, <1>4, FS_RemoveElement, FS_CardinalityType
  <1>6. \A x \in T : u[x] \in Int /\ v[x] \in Int /\ w[x] \in Int /\ y[x] \in Int
    BY <1>2
  <1>7. /\ Book!SumOver(u, T) = u[p] + Book!SumOver(u, R) /\ Book!SumOver(u, R) \in Int
        /\ Book!SumOver(v, T) = v[p] + Book!SumOver(v, R) /\ Book!SumOver(v, R) \in Int
        /\ Book!SumOver(w, T) = w[p] + Book!SumOver(w, R) /\ Book!SumOver(w, R) \in Int
        /\ Book!SumOver(y, T) = y[p] + Book!SumOver(y, R) /\ Book!SumOver(y, R) \in Int
    BY <1>1, <1>2, <1>3, <1>4, <1>6, SumPicked, SumType
  <1>8. left(R) >= 0
    BY <1>2, <1>4
  <1>9. a * u[p] + b * v[p] + c * w[p] + d * y[p] + e >= 0
    BY <1>2, <1>4
  <1>10. u[p] \in Int /\ v[p] \in Int /\ w[p] \in Int /\ y[p] \in Int
    BY <1>4, <1>6
  <1>11. left(T) = left(R) + (a * u[p] + b * v[p] + c * w[p] + d * y[p] + e)
    <2>1. \A i \in Int, m \in Int, n \in Int : i * (m + n) = i * m + i * n
      OBVIOUS
    <2> DEFINE U == Book!SumOver(u, R)
               V == Book!SumOver(v, R)
               W == Book!SumOver(w, R)
               Y == Book!SumOver(y, R)
               N == Cardinality(R)
               up == u[p]
               vp == v[p]
               wp == w[p]
               yp == y[p]
    <2>2. /\ left(T) = a * (up + U) + b * (vp + V) + c * (wp + W) + d * (yp + Y) + e * (N + 1)
          /\ left(R) = a * U + b * V + c * W + d * Y + e * N
      BY <1>5, <1>7
    <2>3. /\ U \in Int /\ V \in Int /\ W \in Int /\ Y \in Int /\ N \in Int
          /\ up \in Int /\ vp \in Int /\ wp \in Int /\ yp \in Int
      BY <1>5, <1>7, <1>10
    <2> SUFFICES left(T) = left(R) + (a * up + b * vp + c * wp + d * yp + e)
      OBVIOUS
    <2> HIDE DEF left, U, V, W, Y, N, up, vp, wp, yp
    <2>4. /\ a * (up + U) = a * up + a * U /\ b * (vp + V) = b * vp + b * V
          /\ c * (wp + W) = c * wp + c * W /\ d * (yp + Y) = d * yp + d * Y
          /\ e * (N + 1) = e * N + e
      BY <2>1, <2>3
    <2>5. /\ a * up \in Int /\ a * U \in Int /\ b * vp \in Int /\ b * V \in Int
          /\ c * wp \in Int /\ c * W \in Int /\ d * yp \in Int /\ d * Y \in Int
          /\ e * N \in Int
      BY <2>3
    <2> QED
      BY <2>2, <2>4, <2>5
  <1>12. left(R) \in Int /\ a * u[p] + b * v[p] + c * w[p] + d * y[p] + e \in Int
    BY <1>5, <1>7, <1>10
  <1> HIDE DEF left
  <1>13. left(T) >= 0
    BY <1>8, <1>9, <1>11, <1>12
  <1> QED
    BY <1>2, <1>13

(* A sum over a part is a sum over the whole of what vanishes elsewhere.   *)
LEMMA SumWithin ==
  ASSUME NEW S, IsFiniteSet(S), NEW T \in SUBSET S, NEW w, \A x \in T : w[x] \in Int,
         NEW v, \A x \in S : v[x] = IF x \in T THEN w[x] ELSE 0
  PROVE  Book!SumOver(w, T) = Book!SumOver(v, S)
PROOF
  <1> DEFINE bad == {R \in SUBSET S : Book!SumOver(w, R \cap T) # Book!SumOver(v, R)}
  <1>1. \A R \in SUBSET S : IsFiniteSet(R) /\ IsFiniteSet(R \cap T)
    BY FS_Subset
  <1>2. bad = {}
    <2> SUFFICES ASSUME bad # {} PROVE FALSE
      OBVIOUS
    <2>2. PICK R \in bad : \A Q \in bad : ~(Cardinality(Q) < Cardinality(R))
      BY <1>1, SmallestSet
    <2>3. R # {}
      <3>1. {} \cap T = {} /\ Book!SumOver(v, {}) = 0 /\ Book!SumOver(w, {}) = 0
        BY SumEmpty
      <3> QED
        BY <2>2, <3>1
    <2>4. PICK x \in R : TRUE
      BY <2>3
    <2>5. Book!SumOver(w, (R \ {x}) \cap T) = Book!SumOver(v, R \ {x})
      <3> SUFFICES R \ {x} \notin bad
        OBVIOUS
      <3> QED
        BY <1>1, <2>2, <2>4, Fewer
    <2>6. \A z \in S : v[z] \in Int
      OBVIOUS
    <2>7. Book!SumOver(v, R) = v[x] + Book!SumOver(v, R \ {x})
      BY <1>1, <2>2, <2>6, SumStep
    <2>8. CASE x \in T
      <3>1. (R \cap T) \ {x} = (R \ {x}) \cap T /\ x \in R \cap T
        BY <2>8
      <3>2. Book!SumOver(w, R \cap T) = w[x] + Book!SumOver(w, (R \cap T) \ {x})
        BY <1>1, <2>2, <3>1, SumStep
      <3> QED
        BY <2>2, <2>5, <2>7, <2>8, <3>1, <3>2
    <2>9. CASE x \notin T
      <3>1. R \cap T = (R \ {x}) \cap T /\ v[x] = 0
        BY <2>2, <2>9
      <3>2. Book!SumOver(v, R \ {x}) \in Int
        BY <1>1, <2>2, <2>6, FS_Subset, SumType
      <3>3. Book!SumOver(v, R) = Book!SumOver(v, R \ {x})
        BY <2>7, <3>1, <3>2
      <3>4. Book!SumOver(w, R \cap T) = Book!SumOver(v, R)
        BY <2>5, <3>1, <3>3
      <3> QED
        BY <2>2, <3>4
    <2> QED
      BY <2>8, <2>9
  <1>3. S \cap T = T
    OBVIOUS
  <1> QED
    BY <1>2, <1>3

-----------------------------------------------------------------------------
(* The book: what a rebalance leaves of it.                                *)

LEMMA BookConstants ==
  Unit \in Nat /\ Unit > 0 /\ TopN \in Nat /\ IsFiniteSet(Symbols)
  BY InstancesAssumption DEF Book!BacktestAssumption, Book!IsFiniteSet, IsFiniteSet

(* Sums of naturals.                                                       *)
LEMMA SumNat ==
  ASSUME NEW S, IsFiniteSet(S), NEW w, \A x \in S : w[x] \in Nat
  PROVE  Book!SumOver(w, S) \in Nat
PROOF
  <1>1. PICK i \in Int, o \in Int : i = 1 /\ o = 0
    OBVIOUS
  <1>2. \A x \in S : w[x] \in Int /\ i * w[x] + o * w[x] + o * w[x] + o * w[x] + o >= 0
    BY <1>1
  <1>3. Book!SumOver(w, S) \in Int /\ Cardinality(S) \in Nat
    BY <1>2, SumType, FS_CardinalityType
  <1>4. i * Book!SumOver(w, S) + o * Book!SumOver(w, S) + o * Book!SumOver(w, S)
          + o * Book!SumOver(w, S) + o * Cardinality(S) >= 0
    BY <1>2, SumBound
  <1> QED
    BY <1>1, <1>3, <1>4

(* Two sums over the same names, and two more, in linear order.            *)
LEMMA SumLinear ==
  ASSUME NEW S, IsFiniteSet(S), NEW u, NEW v, NEW w, NEW y,
         \A x \in S : /\ u[x] \in Int /\ v[x] \in Int /\ w[x] \in Int /\ y[x] \in Int
                      /\ u[x] + v[x] >= w[x] + y[x]
  PROVE  Book!SumOver(u, S) + Book!SumOver(v, S) >= Book!SumOver(w, S) + Book!SumOver(y, S)
PROOF
  <1>1. PICK i \in Int, o \in Int, m \in Int : i = 1 /\ o = 0 /\ m = -1
    OBVIOUS
  <1>2. \A x \in S : /\ u[x] \in Int /\ v[x] \in Int /\ w[x] \in Int /\ y[x] \in Int
                     /\ i * u[x] + i * v[x] + m * w[x] + m * y[x] + o >= 0
    BY <1>1
  <1>3. /\ Book!SumOver(u, S) \in Int /\ Book!SumOver(v, S) \in Int
        /\ Book!SumOver(w, S) \in Int /\ Book!SumOver(y, S) \in Int
        /\ Cardinality(S) \in Nat
    BY SumType, FS_CardinalityType
  <1>4. i * Book!SumOver(u, S) + i * Book!SumOver(v, S) + m * Book!SumOver(w, S)
          + m * Book!SumOver(y, S) + o * Cardinality(S) >= 0
    BY <1>2, SumBound
  <1> QED
    BY <1>1, <1>3, <1>4

LEMMA DivBound ==
  ASSUME NEW a \in Nat, NEW n \in Nat, n > 0
  PROVE  n * (a \div n) <= a /\ a < n * (a \div n) + n /\ a \div n \in Nat
  OBVIOUS

(* What is bought of a wanted amount: all of it when the cash suffices,    *)
(* else its share of the cash, rounded down.                               *)
LEMMA ScaledBounds ==
  ASSUME NEW want \in Nat, NEW total \in Nat, NEW cash \in Nat
  PROVE  /\ Book!Scaled(want, total, cash) \in Nat
         /\ Book!Scaled(want, total, cash) <= want
         /\ cash >= total => Book!Scaled(want, total, cash) = want
         /\ cash < total => /\ total * Book!Scaled(want, total, cash) <= want * cash
                            /\ want * cash < total * Book!Scaled(want, total, cash) + total
PROOF
  <1> DEFINE x == (want * cash) \div total
  <1>1. CASE cash >= total
    BY <1>1 DEF Book!Scaled
  <1>2. CASE cash < total
    <2>1. want * cash \in Nat /\ want * cash <= want * total /\ total > 0
      BY <1>2
    <2>2. x \in Nat /\ total * x <= want * cash /\ want * cash < total * x + total
      BY <2>1, DivBound
    <2>3. Book!Scaled(want, total, cash) = x
      BY <1>2 DEF Book!Scaled
    <2>4. total * x <= total * want
      BY <2>1, <2>2
    <2> HIDE DEF x
    <2>5. x <= want
      BY <2>1, <2>2, <2>4
    <2> QED
      BY <1>2, <2>2, <2>3, <2>5
  <1> QED
    BY <1>1, <1>2

LEMMA FillsAreCovered ==
  ASSUME NEW cur \in Book!Weights, NEW tgt \in Book!Weights, NEW canBuy, NEW canSell,
         Book!Total(cur) <= Unit, Book!Total(tgt) <= Unit,
         NEW r, r = Book!SimulateFills(cur, tgt, canBuy, canSell)
  PROVE  /\ r.achieved \in Book!Weights /\ Book!Total(r.achieved) <= Unit
         /\ \A s \in Symbols :
              /\ r.achieved[s] > cur[s] => s \in canBuy /\ r.achieved[s] <= tgt[s]
              /\ r.achieved[s] < cur[s] => s \in canSell /\ r.achieved[s] >= tgt[s]
         /\ r.report.starved # {} => /\ r.report.blockedSells # {}
                                     /\ r.report.cash < Cardinality(r.report.starved)
         /\ r.report.carried
              \subseteq r.report.blockedBuys \cup r.report.blockedSells \cup r.report.starved
PROOF
  <1> DEFINE sells == Book!Sells(cur, tgt)
             buys == Book!Buys(cur, tgt)
             sold == Book!Sells(cur, tgt) \cap canSell
             buyable == Book!Buys(cur, tgt) \cap canBuy
             less == [s \in Symbols |-> cur[s] - tgt[s]]
             more == [s \in Symbols |-> tgt[s] - cur[s]]
             proceeds == [s \in Symbols |-> IF s \in sold THEN less[s] ELSE 0]
             wanted == [s \in Symbols |-> IF s \in buyable THEN more[s] ELSE 0]
             cash == Book!CashAfterSells(cur, tgt, canSell)
             total == Book!SumOver(more, buyable)
             part == [s \in Symbols |-> Book!Scaled(more[s], total, cash)]
             bought == [s \in Symbols |-> IF s \in buyable THEN part[s] ELSE 0]
             ach == r.achieved
             Sum(w) == Book!SumOver(w, Symbols)
  <1>1. Unit \in Nat /\ IsFiniteSet(Symbols)
    BY BookConstants
  <1>2. \A s \in Symbols : cur[s] \in 0 .. Unit /\ tgt[s] \in 0 .. Unit
    BY DEF Book!Weights
  <1>3. sold \subseteq Symbols /\ buyable \subseteq Symbols /\ sold \cap buyable = {}
    BY <1>2 DEF Book!Sells, Book!Buys
  <1>4. /\ \A s \in Symbols : less[s] = cur[s] - tgt[s] /\ more[s] = tgt[s] - cur[s]
        /\ \A s \in sold : less[s] \in Nat
        /\ \A s \in buyable : more[s] \in Nat /\ more[s] > 0
    BY <1>2, <1>3 DEF Book!Sells, Book!Buys
  <1>5. /\ \A s \in Symbols : proceeds[s] = IF s \in sold THEN less[s] ELSE 0
        /\ \A s \in Symbols : wanted[s] = IF s \in buyable THEN more[s] ELSE 0
        /\ \A s \in Symbols : part[s] = Book!Scaled(more[s], total, cash)
        /\ \A s \in Symbols : bought[s] = IF s \in buyable THEN part[s] ELSE 0
        /\ ach = [s \in Symbols |-> IF s \in sold THEN tgt[s]
                                    ELSE IF s \in buyable THEN cur[s] + part[s] ELSE cur[s]]
        /\ cash = Unit - Book!Total(cur) + Book!SumOver(less, sold)
        /\ r.report.blockedSells = sells \ canSell /\ r.report.blockedBuys = buys \ canBuy
        /\ r.report.starved = IF cash < total THEN buyable ELSE {}
        /\ r.report.carried = {s \in Symbols : ach[s] # tgt[s]}
        /\ r.report.cash = Unit - Book!Total(ach)
    BY DEF Book!SimulateFills, Book!CashAfterSells
  <1>6. /\ \A s \in Symbols : (s \in sells <=> tgt[s] < cur[s]) /\ (s \in buys <=> tgt[s] > cur[s])
        /\ sold = sells \cap canSell /\ buyable = buys \cap canBuy
        /\ sells \subseteq Symbols /\ buys \subseteq Symbols
    BY DEF Book!Sells, Book!Buys
  <1>7. Book!Total(cur) = Sum(cur) /\ Book!Total(tgt) = Sum(tgt) /\ Book!Total(ach) = Sum(ach)
    BY DEF Book!Total
  <1> HIDE DEF sold, buyable, less, more, proceeds, wanted, cash, total, part, bought, ach,
               sells, buys
  <1>8. \A s \in Symbols : proceeds[s] \in Nat /\ wanted[s] \in Nat
    BY <1>2, <1>4, <1>5
  <1>9. cash = Unit - Sum(cur) + Sum(proceeds) /\ total = Sum(wanted)
    <2>1. Book!SumOver(less, sold) = Sum(proceeds)
      BY <1>1, <1>3, <1>4, <1>5, SumWithin
    <2>2. Book!SumOver(more, buyable) = Sum(wanted)
      BY <1>1, <1>3, <1>4, <1>5, SumWithin
    <2> QED
      BY <1>5, <1>7, <2>1, <2>2 DEF total
  <1>10. /\ Sum(cur) \in Int /\ Sum(tgt) \in Int
         /\ Sum(proceeds) \in Nat /\ Sum(wanted) \in Nat
         /\ cash \in Nat /\ total \in Nat
    <2>1. /\ Sum(cur) \in Int /\ Sum(tgt) \in Int
          /\ Sum(proceeds) \in Int /\ Sum(wanted) \in Int
      BY <1>1, <1>2, <1>8, SumType
    <2>2. Sum(proceeds) >= 0
      BY <1>1, <1>8, SumNat
    <2>3. Sum(wanted) >= 0
      BY <1>1, <1>8, SumNat
    <2> QED
      BY <1>1, <1>7, <1>9, <2>1, <2>2, <2>3
  <1>11. ASSUME NEW s \in buyable
         PROVE  /\ part[s] \in Nat /\ part[s] <= more[s]
                /\ cash >= total => part[s] = more[s]
                /\ cash < total => /\ total * part[s] <= more[s] * cash
                                   /\ more[s] * cash < total * part[s] + total
    <2>1. more[s] \in Nat /\ part[s] = Book!Scaled(more[s], total, cash)
      BY <1>3, <1>4, <1>5
    <2>2. cash \in Nat /\ total \in Nat
      BY <1>10
    <2> DEFINE x == Book!Scaled(more[s], total, cash)
    <2>3. /\ x \in Nat /\ x <= more[s]
          /\ cash >= total => x = more[s]
          /\ cash < total => total * x <= more[s] * cash /\ more[s] * cash < total * x + total
      BY <2>1, <2>2, ScaledBounds
    <2> HIDE DEF x
    <2> QED
      BY <2>1, <2>3 DEF x
  <1>12. \A s \in Symbols : /\ bought[s] \in Nat /\ bought[s] <= wanted[s]
                            /\ ach[s] = cur[s] - proceeds[s] + bought[s]
    <2> TAKE s \in Symbols
    <2>1. CASE s \in sold
      BY <1>2, <1>3, <1>4, <1>5, <2>1
    <2>2. CASE s \in buyable
      BY <1>2, <1>3, <1>4, <1>5, <1>11, <2>2
    <2>3. CASE s \notin sold /\ s \notin buyable
      BY <1>2, <1>5, <2>3
    <2> QED
      BY <2>1, <2>2, <2>3
  <1>13. \A s \in Symbols :
            /\ ach[s] \in 0 .. Unit
            /\ ach[s] > cur[s] => s \in canBuy /\ ach[s] <= tgt[s]
            /\ ach[s] < cur[s] => s \in canSell /\ ach[s] >= tgt[s]
    <2> TAKE s \in Symbols
    <2>1. CASE s \in sold
      BY <1>1, <1>2, <1>3, <1>5, <1>6, <2>1
    <2>2. CASE s \in buyable
      BY <1>1, <1>2, <1>3, <1>4, <1>5, <1>6, <1>11, <2>2
    <2>3. CASE s \notin sold /\ s \notin buyable
      BY <1>2, <1>5, <2>3
    <2> QED
      BY <2>1, <2>2, <2>3
  <1>14. ach \in Book!Weights
    BY <1>5, <1>13 DEF Book!Weights
  <1>15. Sum(bought) \in Nat /\ Sum(ach) = Sum(cur) - Sum(proceeds) + Sum(bought)
    <2>1. \A s \in Symbols : /\ ach[s] \in Int /\ proceeds[s] \in Int /\ cur[s] \in Int
                             /\ bought[s] \in Int
                             /\ ach[s] + proceeds[s] >= cur[s] + bought[s]
                             /\ cur[s] + bought[s] >= ach[s] + proceeds[s]
      BY <1>2, <1>8, <1>12, <1>13
    <2>2. Sum(bought) \in Nat
      BY <1>1, <1>12, SumNat
    <2>3. Sum(ach) \in Int
      BY <1>1, <2>1, SumType
    <2>4. Sum(ach) + Sum(proceeds) >= Sum(cur) + Sum(bought)
      BY <1>1, <2>1, SumLinear
    <2>5. Sum(cur) + Sum(bought) >= Sum(ach) + Sum(proceeds)
      BY <1>1, <2>1, SumLinear
    <2> QED
      BY <1>10, <2>2, <2>3, <2>4, <2>5
  <1>16. Sum(bought) <= cash
    <2>1. CASE cash >= total
      <3>1. \A s \in Symbols : /\ wanted[s] \in Int /\ bought[s] \in Int
                               /\ wanted[s] + wanted[s] >= bought[s] + bought[s]
        BY <1>8, <1>12
      <3>2. Sum(wanted) + Sum(wanted) >= Sum(bought) + Sum(bought)
        BY <1>1, <3>1, SumLinear
      <3> QED
        BY <1>9, <1>10, <1>15, <2>1, <3>2
    <2>2. CASE cash < total
      <3>1. PICK o \in Int, m \in Int : o = 0 /\ m = -total
        BY <1>10
      <3>2. \A s \in Symbols :
               /\ wanted[s] \in Int /\ bought[s] \in Int
               /\ cash * wanted[s] + m * bought[s] + o * bought[s] + o * bought[s] + o >= 0
        <4> TAKE s \in Symbols
        <4>1. wanted[s] \in Nat /\ bought[s] \in Nat /\ total * bought[s] <= wanted[s] * cash
          BY <1>3, <1>5, <1>8, <1>10, <1>11, <1>12, <2>2
        <4> QED
          BY <1>10, <3>1, <4>1
      <3>3. cash * Sum(wanted) + m * Sum(bought) + o * Sum(bought) + o * Sum(bought)
              + o * Cardinality(Symbols) >= 0
        <4>1. cash \in Int
          BY <1>10
        <4> QED
          BY <1>1, <3>2, <4>1, SumBound
      <3>4. Cardinality(Symbols) \in Nat
        BY <1>1, FS_CardinalityType
      <3>5. total * Sum(bought) <= total * cash
        BY <1>9, <1>10, <1>15, <3>1, <3>3, <3>4
      <3> QED
        BY <1>10, <1>15, <2>2, <3>5
    <2> QED
      BY <1>10, <2>1, <2>2
  <1>17. Book!Total(ach) <= Unit
    BY <1>1, <1>7, <1>9, <1>10, <1>15, <1>16
  <1>18. ASSUME cash < total, r.report.blockedSells = {} PROVE FALSE
    <2>1. \A s \in Symbols : /\ tgt[s] \in Int /\ proceeds[s] \in Int /\ cur[s] \in Int
                             /\ wanted[s] \in Int
                             /\ tgt[s] + proceeds[s] >= cur[s] + wanted[s]
      <3> TAKE s \in Symbols
      <3>1. s \in sells => s \in sold
        BY <1>5, <1>6, <1>18
      <3>2. proceeds[s] \in Nat /\ wanted[s] \in Nat
        BY <1>8
      <3>3. CASE s \in sold
        BY <1>2, <1>3, <1>4, <1>5, <3>2, <3>3
      <3>4. CASE s \notin sold
        <4>1. tgt[s] >= cur[s] /\ proceeds[s] = 0
          BY <1>2, <1>5, <1>6, <3>1, <3>4
        <4> QED
          BY <1>2, <1>4, <1>5, <3>2, <4>1
      <3> QED
        BY <3>3, <3>4
    <2>2. Sum(tgt) + Sum(proceeds) >= Sum(cur) + Sum(wanted)
      BY <1>1, <2>1, SumLinear
    <2> QED
      BY <1>1, <1>7, <1>9, <1>10, <1>18, <2>2
  <1>19. ASSUME cash < total PROVE r.report.cash < Cardinality(buyable)
    <2>1. PICK o \in Int, m \in Int, e \in Int : o = 0 /\ m = -cash /\ e = total - 1
      BY <1>10
    <2>2. \A s \in buyable :
             /\ part[s] \in Int /\ more[s] \in Int
             /\ total * part[s] + m * more[s] + o * more[s] + o * more[s] + e >= 0
      <3> TAKE s \in buyable
      <3>1. /\ part[s] \in Nat /\ more[s] \in Nat
            /\ more[s] * cash < total * part[s] + total
        BY <1>4, <1>11, <1>19
      <3> QED
        BY <1>10, <2>1, <3>1
    <2>3. IsFiniteSet(buyable) /\ Cardinality(buyable) \in Nat
      BY <1>1, <1>3, FS_Subset, FS_CardinalityType
    <2>4. total * Book!SumOver(part, buyable) + m * Book!SumOver(more, buyable)
            + o * Book!SumOver(more, buyable) + o * Book!SumOver(more, buyable)
            + e * Cardinality(buyable) >= 0
      <3>1. total \in Int
        BY <1>10
      <3> QED
        BY <2>1, <2>2, <2>3, <3>1, SumBound
    <2>5. Book!SumOver(part, buyable) = Sum(bought)
      BY <1>1, <1>3, <1>5, <2>2, SumWithin
    <2>6. r.report.cash = cash - Sum(bought)
      BY <1>1, <1>5, <1>7, <1>9, <1>10, <1>15
    <2> DEFINE n == Cardinality(buyable)
               k == cash - Sum(bought)
    <2>7. total * k <= total * n - n
      BY <1>10, <1>15, <2>1, <2>3, <2>4, <2>5 DEF total
    <2>8. n > 0
      <3>1. CASE buyable = {}
        BY <1>10, <1>19, <3>1, SumEmpty DEF total
      <3> QED
        BY <2>3, <3>1, FS_EmptySet
    <2>9. n \in Nat /\ k \in Int
      BY <1>10, <1>15, <2>3
    <2> HIDE DEF n, k
    <2>10. k < n
      BY <1>10, <2>7, <2>8, <2>9
    <2> QED
      BY <2>6, <2>10 DEF n, k
  <1>20. ASSUME NEW s \in Symbols, ach[s] # tgt[s], s \notin r.report.starved
         PROVE  s \in r.report.blockedBuys \cup r.report.blockedSells
    <2>1. CASE s \in sold
      BY <1>5, <1>20, <2>1
    <2>2. CASE s \in buyable
      BY <1>2, <1>3, <1>4, <1>5, <1>10, <1>11, <1>20, <2>2
    <2>3. CASE s \notin sold /\ s \notin buyable
      <3>1. ach[s] = cur[s]
        BY <1>5, <2>3
      <3>2. s \in sells \/ s \in buys
        BY <1>2, <1>6, <1>20, <3>1
      <3> QED
        BY <1>5, <1>6, <2>3, <3>2
    <2> QED
      BY <2>1, <2>2, <2>3
  <1> QED
    <2>1. r.report.carried
            \subseteq r.report.blockedBuys \cup r.report.blockedSells \cup r.report.starved
      BY <1>5, <1>20
    <2>2. r.report.starved # {} => /\ r.report.blockedSells # {}
                                   /\ r.report.cash < Cardinality(r.report.starved)
      BY <1>5, <1>18, <1>19
    <2>3. r.achieved \in Book!Weights /\ Book!Total(r.achieved) <= Unit
      BY <1>14, <1>17 DEF ach
    <2>4. \A s \in Symbols :
            /\ r.achieved[s] > cur[s] => s \in canBuy /\ r.achieved[s] <= tgt[s]
            /\ r.achieved[s] < cur[s] => s \in canSell /\ r.achieved[s] >= tgt[s]
      BY <1>13 DEF ach
    <2> QED
      BY <2>1, <2>2, <2>3, <2>4

LEMMA NothingHeld == Book!NoPositions \in Book!Weights /\ Book!Total(Book!NoPositions) <= Unit
PROOF
  <1> DEFINE w == Book!NoPositions
  <1>1. \A s \in Symbols : w[s] = 0
    BY DEF Book!NoPositions
  <1>2. Book!SumOver(w, Symbols) = 0
    <2>1. {} \subseteq Symbols /\ \A x \in {} : w[x] \in Int
      OBVIOUS
    <2>2. \A s \in Symbols : w[s] = IF s \in {} THEN w[s] ELSE 0
      BY <1>1
    <2> HIDE DEF w
    <2>3. Book!SumOver(w, {}) = Book!SumOver(w, Symbols)
      BY <2>1, <2>2, BookConstants, SumWithin
    <2> QED
      BY <2>3, SumEmpty
  <1> QED
    BY <1>2, BookConstants DEF Book!Total, Book!Weights, Book!NoPositions

(* Equal shares, rounded down, never add up to more than the book.         *)
LEMMA TargetsFit ==
  ASSUME NEW C \in SUBSET Symbols, NEW w \in Book!Targets(C)
  PROVE  w \in Book!Weights /\ Book!Total(w) <= Unit
PROOF
  <1>1. PICK chosen \in SUBSET C : w = Book!EqualWeights(chosen)
    BY DEF Book!Targets
  <1> DEFINE n == Cardinality(chosen)
             share == Unit \div n
  <1>2. IsFiniteSet(chosen) /\ n \in Nat /\ (n = 0 <=> chosen = {})
    BY BookConstants, FS_Subset, FS_CardinalityType, FS_EmptySet
  <1>3. \A s \in Symbols : w[s] = IF s \in chosen THEN share ELSE 0
    BY <1>1 DEF Book!EqualWeights, Book!Cardinality, Cardinality
  <1>4. chosen # {} => share \in 0 .. Unit /\ n * share <= Unit
    <2> SUFFICES ASSUME chosen # {} PROVE share \in 0 .. Unit /\ n * share <= Unit
      OBVIOUS
    <2> HIDE DEF n
    <2>1. n > 0 /\ Unit \in Nat
      BY <1>2, BookConstants
    <2>2. share \in Nat /\ n * share <= Unit
      BY <1>2, <2>1, DivBound
    <2> HIDE DEF share
    <2>3. share <= n * share
      BY <1>2, <2>1, <2>2
    <2> QED
      BY <1>2, <2>1, <2>2, <2>3
  <1>5. w \in Book!Weights
    <2>1. w = [s \in Symbols |-> w[s]]
      BY <1>1 DEF Book!EqualWeights
    <2>2. \A s \in Symbols : w[s] \in 0 .. Unit
      BY <1>3, <1>4, BookConstants
    <2> QED
      BY <2>1, <2>2 DEF Book!Weights
  <1> HIDE DEF n, share
  <1>6. Book!SumOver(w, Symbols) <= Unit
    <2>1. CASE chosen = {}
      <3>1. {} \subseteq Symbols /\ \A x \in {} : w[x] \in Int
        OBVIOUS
      <3>2. \A s \in Symbols : w[s] = IF s \in {} THEN w[s] ELSE 0
        BY <1>3, <2>1
      <3>3. Book!SumOver(w, {}) = Book!SumOver(w, Symbols)
        BY <3>1, <3>2, BookConstants, SumWithin
      <3> QED
        BY <3>3, SumEmpty, BookConstants
    <2>2. CASE chosen # {}
      <3>1. share \in Int /\ \A s \in chosen : w[s] = share
        BY <1>3, <1>4, <2>2, BookConstants
      <3>2. Book!SumOver(w, chosen) = Book!SumOver(w, Symbols)
        <4>1. \A s \in Symbols : w[s] = IF s \in chosen THEN w[s] ELSE 0
          BY <1>3
        <4>2. chosen \subseteq Symbols /\ \A s \in chosen : w[s] \in Int
          BY <1>1, <3>1
        <4> QED
          BY <4>1, <4>2, BookConstants, SumWithin
      <3>3. PICK o \in Int, m \in Int : o = 0 /\ m = -1
        OBVIOUS
      <3>4. \A s \in chosen : /\ w[s] \in Int
                              /\ m * w[s] + o * w[s] + o * w[s] + o * w[s] + share >= 0
        BY <3>1, <3>3
      <3>5. m * Book!SumOver(w, chosen) + o * Book!SumOver(w, chosen)
              + o * Book!SumOver(w, chosen) + o * Book!SumOver(w, chosen) + share * n >= 0
        BY <1>2, <3>1, <3>4, SumBound DEF n
      <3>6. Book!SumOver(w, chosen) \in Int
        BY <1>2, <3>4, SumType
      <3> QED
        BY <1>2, <1>4, <2>2, <3>1, <3>2, <3>3, <3>5, <3>6, BookConstants
    <2> QED
      BY <2>1, <2>2
  <1> QED
    BY <1>5, <1>6 DEF Book!Total

(* Book and target are weights within the book, and the last fill, blocked *)
(* or starved, is told for what it was.                                    *)
BookInv ==
    /\ positions \in Book!Weights /\ Book!Total(positions) <= Unit
    /\ target \in Book!Weights /\ Book!Total(target) <= Unit
    /\ Book!StarvedOnlyBehindABlockedSell /\ Book!NothingSilent

(* One rebalance, seen from the book it finds.                             *)
Honoured ==
    phase = "fill" =>
          \A s \in Symbols :
             /\ positions'[s] > positions[s] =>
                   /\ market[Book!Entry][s].bar /\ market[Book!Entry][s].lim /= "up"
                   /\ model = "daily" => ~market[Book!Entry][s].halted
                   /\ positions'[s] <= target[s]
             /\ positions'[s] < positions[s] =>
                   /\ market[Book!Entry][s].bar /\ market[Book!Entry][s].lim /= "down"
                   /\ model = "daily" => ~market[Book!Entry][s].halted
                   /\ positions'[s] >= target[s]

LEMMA FillStep ==
  ASSUME BookInv, Book!Fill
  PROVE  BookInv' /\ Honoured
PROOF
  <1> DEFINE looked == Book!Held(positions) \cup Book!Held(target)
             canBuy == {s \in looked : Book!CanBuy(s)}
             canSell == {s \in looked : Book!CanSell(s)}
             r == Book!SimulateFills(positions, target, canBuy, canSell)
  <1>1. /\ positions' = r.achieved /\ fill' = r.report /\ unchecked' = Book!Unchecked(looked)
        /\ phase = "fill" /\ phase' = "settle"
        /\ model' = model /\ market' = market /\ period' = period /\ periods' = periods
        /\ target' = target
    BY DEF Book!Fill
  <1> HIDE DEF r
  <1>2. /\ r.achieved \in Book!Weights /\ Book!Total(r.achieved) <= Unit
        /\ \A s \in Symbols :
             /\ r.achieved[s] > positions[s] => s \in canBuy /\ r.achieved[s] <= target[s]
             /\ r.achieved[s] < positions[s] => s \in canSell /\ r.achieved[s] >= target[s]
        /\ r.report.starved # {} => /\ r.report.blockedSells # {}
                                    /\ r.report.cash < Cardinality(r.report.starved)
        /\ r.report.carried
             \subseteq r.report.blockedBuys \cup r.report.blockedSells \cup r.report.starved
    BY FillsAreCovered DEF BookInv, r
  <1>3. Honoured
    BY <1>1, <1>2 DEF Honoured, Book!CanBuy, Book!CanSell, Book!DailyCanBuy, Book!DailyCanSell,
                      Book!TailCanBuy, Book!TailCanSell
  <1>4. Book!StarvedOnlyBehindABlockedSell'
    BY <1>1, <1>2 DEF Book!StarvedOnlyBehindABlockedSell, Book!Cardinality, Cardinality
  <1>5. Book!Entry' = Book!Entry
    BY <1>1 DEF Book!Entry
  <1>6. \A s \in Symbols : r.achieved[s] > 0 => s \in looked
    BY <1>2 DEF BookInv, Book!Weights, Book!Held
  <1>7. Book!NothingSilent'
    <2>1. (\A s \in Book!Held(positions) :
              market[Book!Entry][s].bar /\ market[Book!Entry][s].lim = "norow"
              => s \in unchecked)' \/ model' # "tail"
      BY <1>1, <1>5, <1>6 DEF Book!Unchecked, Book!Held
    <2> QED
      BY <1>1, <1>2, <2>1 DEF Book!NothingSilent
  <1> QED
    BY <1>1, <1>2, <1>3, <1>4, <1>7 DEF BookInv

LEMMA BookStep ==
  ASSUME BookInv, Book!Next \/ UNCHANGED bookVars
  PROVE  BookInv' /\ (Honoured \/ UNCHANGED bookVars)
PROOF
  <1>1. ASSUME positions' = positions, target' = target, fill' = fill, phase' # "settle"
        PROVE  BookInv'
    BY <1>1 DEF BookInv, Book!StarvedOnlyBehindABlockedSell, Book!NothingSilent
  <1>2. CASE Book!NextPeriod
    BY <1>1, <1>2 DEF Book!NextPeriod, Honoured
  <1>3. CASE Book!Plan
    <2>1. PICK members \in SUBSET Symbols :
             target' \in Book!Targets(Book!Tradable(members, market[Book!Entry]))
      BY <1>3 DEF Book!Plan
    <2>2. Book!Tradable(members, market[Book!Entry]) \in SUBSET Symbols
      BY DEF Book!Tradable
    <2>3. target' \in Book!Weights /\ Book!Total(target') <= Unit
      BY <2>1, <2>2, TargetsFit
    <2>4. /\ positions' = positions /\ fill' = fill /\ phase = "plan" /\ phase' = "fill"
      BY <1>3 DEF Book!Plan
    <2> QED
      BY <2>3, <2>4 DEF BookInv, Book!StarvedOnlyBehindABlockedSell, Book!NothingSilent, Honoured
  <1>4. CASE Book!Fill
    BY <1>4, FillStep
  <1>5. CASE Book!Settle
    BY <1>1, <1>5 DEF Book!Settle, Honoured
  <1>6. CASE UNCHANGED bookVars
    BY <1>6 DEF bookVars, BookInv, Book!StarvedOnlyBehindABlockedSell, Book!NothingSilent,
                Book!Entry
  <1> QED
    BY <1>2, <1>3, <1>4, <1>5, <1>6 DEF Book!Next

LEMMA BookInit == MCInit => BookInv
PROOF
  <1> SUFFICES ASSUME MCInit PROVE BookInv
    OBVIOUS
  <1>1. /\ positions = Book!NoPositions /\ target = Book!NoPositions /\ fill = Book!NoFill
        /\ phase = "settled"
    BY DEF MCInit, Book!Init
  <1> QED
    BY <1>1, NothingHeld DEF BookInv, Book!NoFill, Book!StarvedOnlyBehindABlockedSell,
                             Book!NothingSilent

LEMMA BookNext == BookInv /\ [MCNext]_mcVars => BookInv' /\ (Honoured \/ UNCHANGED bookVars)
PROOF
  <1> SUFFICES ASSUME BookInv, [MCNext]_mcVars
               PROVE  BookInv' /\ (Honoured \/ UNCHANGED bookVars)
    OBVIOUS
  <1>1. Book!Next \/ UNCHANGED bookVars
    BY DEF MCNext, mcVars
  <1> QED
    BY <1>1, BookStep

(* Whatever the market quotes and the constructor wants, on any calendar:  *)
(* the weights never exceed the book, buys run out of cash only behind a   *)
(* refused sell and for want of less than a unit each, and what missed its *)
(* target or escaped the limit check is disclosed (sim_execution.py,       *)
(* simulate_fills and the two event models).                               *)
THEOREM ShortfallsAreTold == MCSpec => []ShortfallsAreExplained
PROOF
  <1>1. BookInv => ShortfallsAreExplained
    BY DEF BookInv, ShortfallsAreExplained, Book!NoLeverage
  <1> QED
    BY <1>1, BookInit, BookNext, PTL DEF MCSpec

(* No rebalance trades against the market it finds at the entry anchor, or *)
(* past its target (feasibility of the event models, simulate_fills).      *)
THEOREM TradesAreAllowed == MCSpec => RespectsTheMarket
PROOF
  <1>1. BookInv /\ [MCNext]_mcVars => [Honoured]_bookVars
    BY BookNext
  <1>2. RespectsTheMarket <=> [][Honoured]_bookVars
    BY DEF RespectsTheMarket, Book!RespectsTheMarket, Honoured, bookVars, Book!vars
  <1> QED
    BY <1>1, <1>2, BookInit, BookNext, PTL DEF MCSpec

-----------------------------------------------------------------------------
(* The books: the schedule of the rebalances, and what the holdings earn.  *)

(* The elements of K before d, and how many they are.                      *)
Below(K, d) == {e \in K : e < d}

Rank(K, d) == Cardinality(Below(K, d))

(* Ranks grow with the elements, and each below the size is taken.         *)
LEMMA Ranks ==
  ASSUME NEW K \in SUBSET Nat, IsFiniteSet(K)
  PROVE  /\ \A d \in K : Rank(K, d) \in 0 .. Cardinality(K) - 1
         /\ \A d, e \in K : d < e => Rank(K, d) < Rank(K, e)
         /\ \A i \in 1 .. Cardinality(K) : \E d \in K : Rank(K, d) = i - 1
PROOF
  <1> DEFINE n == Cardinality(K)
             r == [d \in K |-> Rank(K, d)]
  <1>1. n \in Nat
    BY FS_CardinalityType
  <1>2. ASSUME NEW d \in K
        PROVE  /\ IsFiniteSet(Below(K, d)) /\ Rank(K, d) \in 0 .. n - 1 /\ Rank(K, d) \in Nat
               /\ Cardinality(Below(K, d) \cup {d}) = Rank(K, d) + 1
    <2>1. Below(K, d) \in SUBSET (K \ {d})
      BY DEF Below
    <2>2. IsFiniteSet(K \ {d}) /\ Cardinality(K \ {d}) = n - 1
      BY FS_RemoveElement
    <2>3. IsFiniteSet(Below(K, d)) /\ Rank(K, d) <= n - 1 /\ Rank(K, d) \in Nat
      BY <2>1, <2>2, FS_Subset, FS_CardinalityType DEF Rank
    <2>4. Cardinality(Below(K, d) \cup {d}) = Rank(K, d) + 1
      <3>1. d \notin Below(K, d)
        BY DEF Below
      <3> QED
        BY <2>3, <3>1, FS_AddElement DEF Rank
    <2> QED
      BY <1>1, <2>3, <2>4
  <1>3. ASSUME NEW d \in K, NEW e \in K, d < e PROVE Rank(K, d) < Rank(K, e)
    <2>1. Below(K, d) \cup {d} \in SUBSET Below(K, e)
      <3>1. ASSUME NEW x \in K, x < d PROVE x < e
        <4>1. x \in Nat /\ d \in Nat /\ e \in Nat
          OBVIOUS
        <4> QED
          BY <1>3, <3>1, <4>1
      <3> QED
        BY <1>3, <3>1 DEF Below
    <2>2. Cardinality(Below(K, d) \cup {d}) <= Rank(K, e)
      BY <1>2, <2>1, FS_Subset DEF Rank
    <2>3. Rank(K, d) \in Nat /\ Rank(K, e) \in Nat
      BY <1>2
    <2> QED
      BY <1>2, <2>2, <2>3
  <1>4. r \in Injection(K, 0 .. n - 1)
    <2>1. r \in [K -> 0 .. n - 1]
      BY <1>2
    <2>2. \A d, e \in K : r[d] = r[e] => d = e
      <3> SUFFICES ASSUME NEW d \in K, NEW e \in K, d # e PROVE r[d] # r[e]
        OBVIOUS
      <3>1. d < e \/ e < d
        OBVIOUS
      <3>2. /\ r[d] = Rank(K, d) /\ r[e] = Rank(K, e)
            /\ Rank(K, d) \in Nat /\ Rank(K, e) \in Nat
        BY <1>2
      <3> QED
        BY <1>3, <3>1, <3>2
    <2> QED
      BY <2>1, <2>2 DEF Injection, IsInjective
  <1>5. IsFiniteSet(0 .. n - 1) /\ Cardinality(0 .. n - 1) = n
    <2>1. 0 \in Int /\ n - 1 \in Int
      BY <1>1
    <2>2. /\ IsFiniteSet(0 .. n - 1)
          /\ Cardinality(0 .. n - 1) = IF 0 > n - 1 THEN 0 ELSE (n - 1) - 0 + 1
      BY <2>1, FS_Interval
    <2> QED
      BY <1>1, <2>2
  <1>6. r \in Surjection(K, 0 .. n - 1)
    BY <1>4, <1>5, FS_Injection
  <1>7. \A i \in 1 .. n : \E d \in K : Rank(K, d) = i - 1
    <2> TAKE i \in 1 .. n
    <2>1. i - 1 \in 0 .. n - 1
      BY <1>1
    <2>2. \E d \in K : r[d] = i - 1
      BY <1>6, <2>1 DEF Surjection
    <2> QED
      BY <2>2
  <1> QED
    BY <1>2, <1>3, <1>7

(* The elements of K in order.                                             *)
Nth(K, i) == CHOOSE d \in K : Rank(K, d) = i - 1

(* They are all of K, each followed by the next one.                       *)
LEMMA InOrder ==
  ASSUME NEW K \in SUBSET Nat, IsFiniteSet(K)
  PROVE  /\ Cardinality(K) \in Nat
         /\ \A i \in 1 .. Cardinality(K) : Nth(K, i) \in K
         /\ \A i \in 1 .. Cardinality(K) : i + 1 <= Cardinality(K) =>
              /\ Nth(K, i) < Nth(K, i + 1)
              /\ \A d \in K : d <= Nth(K, i) \/ d >= Nth(K, i + 1)
         /\ \A d \in K : d <= Nth(K, Cardinality(K))
         /\ \A d \in K : \E i \in 1 .. Cardinality(K) : Nth(K, i) = d
PROOF
  <1> DEFINE n == Cardinality(K)
  <1>1. n \in Nat
    BY FS_CardinalityType
  <1>2. \A i \in 1 .. n : Nth(K, i) \in K /\ Rank(K, Nth(K, i)) = i - 1
    BY Ranks DEF Nth
  <1>3. \A d \in K : Rank(K, d) \in 0 .. n - 1
    BY Ranks
  <1>4. \A d, e \in K : Rank(K, d) < Rank(K, e) => d < e
    <2> SUFFICES ASSUME NEW d \in K, NEW e \in K, Rank(K, d) < Rank(K, e) PROVE d < e
      OBVIOUS
    <2>1. Rank(K, d) \in Int /\ Rank(K, e) \in Int /\ d \in Nat /\ e \in Nat
      BY <1>3
    <2>2. ~(e < d) /\ d # e
      BY <2>1, Ranks
    <2> QED
      BY <2>1, <2>2
  <1>5. \A d, e \in K : Rank(K, d) = Rank(K, e) => d = e
    <2> SUFFICES ASSUME NEW d \in K, NEW e \in K, Rank(K, d) = Rank(K, e) PROVE d = e
      OBVIOUS
    <2>1. Rank(K, d) \in Int /\ d \in Nat /\ e \in Nat
      BY <1>3
    <2>2. ~(e < d) /\ ~(d < e)
      BY <2>1, Ranks
    <2> QED
      BY <2>1, <2>2
  <1> HIDE DEF n
  <1>6. ASSUME NEW i \in 1 .. n, i + 1 <= n
        PROVE  /\ Nth(K, i) < Nth(K, i + 1)
               /\ \A d \in K : d <= Nth(K, i) \/ d >= Nth(K, i + 1)
    <2>1. i + 1 \in 1 .. n
      BY <1>1, <1>6
    <2>2. /\ Nth(K, i) \in K /\ Nth(K, i + 1) \in K
          /\ Rank(K, Nth(K, i)) = i - 1 /\ Rank(K, Nth(K, i + 1)) = i
      BY <1>1, <1>2, <2>1
    <2>3. ASSUME NEW d \in K PROVE d <= Nth(K, i) \/ d >= Nth(K, i + 1)
      <3>1. \/ Rank(K, d) < i - 1 \/ Rank(K, d) = i - 1 \/ Rank(K, d) = i \/ i < Rank(K, d)
        BY <1>1, <1>3, <2>1
      <3>2. d \in Nat /\ Nth(K, i) \in Nat /\ Nth(K, i + 1) \in Nat
        BY <2>2
      <3> QED
        BY <1>4, <1>5, <2>2, <3>1, <3>2
    <2>4. i - 1 < i
      BY <1>1
    <2> QED
      BY <1>4, <2>2, <2>3, <2>4
  <1>7. ASSUME NEW d \in K PROVE d <= Nth(K, n)
    <2>1. n \in 1 .. n /\ Rank(K, d) \in 0 .. n - 1
      BY <1>1, <1>3
    <2>2. Nth(K, n) \in K /\ Rank(K, Nth(K, n)) = n - 1
      BY <1>2, <2>1
    <2>3. \/ Rank(K, d) < Rank(K, Nth(K, n)) \/ Rank(K, d) = Rank(K, Nth(K, n))
      BY <1>1, <2>1, <2>2
    <2>4. d < Nth(K, n) \/ d = Nth(K, n)
      BY <1>4, <1>5, <2>2, <2>3
    <2>5. d \in Nat /\ Nth(K, n) \in Nat
      BY <2>2
    <2> QED
      BY <2>4, <2>5
  <1>8. ASSUME NEW d \in K PROVE \E i \in 1 .. n : Nth(K, i) = d
    <2>1. Rank(K, d) + 1 \in 1 .. n
      BY <1>1, <1>3
    <2>2. /\ Nth(K, Rank(K, d) + 1) \in K
          /\ Rank(K, Nth(K, Rank(K, d) + 1)) = Rank(K, d)
      BY <1>2, <1>3, <2>1
    <2> QED
      BY <1>5, <2>1, <2>2
  <1> QED
    BY <1>1, <1>2, <1>6, <1>7, <1>8 DEF n

(* The statement of PeriodsTile about any calendar and any list of periods. *)
Tiles(cal, P, last) ==
    /\ \A i \in 1 .. Len(P) : P[i][1] < P[i][2]
    /\ \A i \in 1 .. (Len(P) - 1) : P[i][2] = P[i + 1][1]
    /\ P # << >> => P[Len(P)][2] = last
    /\ \A d \in cal :
          (\A e \in cal : Book!MonthOf(e) = Book!MonthOf(d) => e <= d) /\ d # last
          => \E i \in 1 .. Len(P) : P[i][1] = d

(* A month-end is kept unless it is the last day, and left at the next one. *)
LEMMA ScheduleTiles ==
  ASSUME NEW cal \in SUBSET (1 .. BookDays), cal # {},
         NEW last \in cal, \A e \in cal : e <= last
  PROVE  Tiles(cal, Book!MonthlyAnchorPairs(cal), last)
PROOF
  <1> DEFINE reb == Book!MonthlyRebalanceDates(cal)
             later(d) == {e \in reb : e > d}
             ExitOf(d) == IF later(d) # {} THEN Book!Min(later(d)) ELSE Book!Max(cal)
             kept == {d \in reb : ExitOf(d) > d}
             n == Cardinality(kept)
             P == Book!MonthlyAnchorPairs(cal)
  <1>1. BookDays \in Nat
    BY InstancesAssumption DEF Book!BacktestAssumption
  <1>2. /\ cal \in SUBSET (0 .. BookDays) /\ reb \in SUBSET cal /\ kept \in SUBSET reb
        /\ \A d \in cal : d \in Nat
    BY <1>1 DEF Book!MonthlyRebalanceDates
  <1>3. last \in reb
    BY DEF Book!MonthlyRebalanceDates
  <1>4. Book!Max(cal) = last
    <2> DEFINE m == Book!Max(cal)
    <2>1. m \in cal /\ \A e \in cal : m >= e
      BY <1>1, <1>2, Extremes DEF Book!Max
    <2> HIDE DEF m
    <2>2. m >= last /\ m <= last /\ m \in Nat /\ last \in Nat
      BY <1>2, <2>1
    <2>3. m = last
      BY <2>2
    <2> QED
      BY <2>3 DEF m
  <1>5. ASSUME NEW d \in reb, later(d) # {}
        PROVE  ExitOf(d) \in reb /\ ExitOf(d) > d /\ \A e \in reb : e > d => e >= ExitOf(d)
    <2>1. later(d) \in SUBSET (0 .. BookDays)
      BY <1>2
    <2>2. Book!Min(later(d)) \in later(d) /\ \A e \in later(d) : Book!Min(later(d)) <= e
      BY <1>1, <1>5, <2>1, Extremes DEF Book!Min
    <2> QED
      BY <1>2, <1>5, <2>2
  <1>6. \A d \in reb : later(d) = {} => ExitOf(d) = last
    BY <1>4
  <1>7. \A d \in reb : d # last => d \in kept
    <2> SUFFICES ASSUME NEW d \in reb, d # last PROVE d \in kept
      OBVIOUS
    <2>1. last \in later(d)
      BY <1>2, <1>3
    <2> QED
      BY <1>5, <2>1
  <1>8. last \notin kept
    <2>1. later(last) = {}
      <3> SUFFICES ASSUME NEW e \in reb, e > last PROVE FALSE
        OBVIOUS
      <3>1. e \in Nat /\ last \in Nat /\ e <= last
        BY <1>2
      <3> QED
        BY <3>1
    <2> QED
      BY <1>2, <1>6, <2>1
  <1>9. P = [i \in 1 .. n |-> <<Nth(kept, i), ExitOf(Nth(kept, i))>>]
    <2> DEFINE nth(i) == CHOOSE d \in kept : Book!Cardinality({e \in kept : e < d}) = i - 1
    <2>1. P = [i \in 1 .. Book!Cardinality(kept) |-> <<nth(i), ExitOf(nth(i))>>]
      BY DEF Book!MonthlyAnchorPairs
    <2> HIDE DEF kept, ExitOf, P
    <2>2. Book!Cardinality(kept) = n
      BY DEF Book!Cardinality, Cardinality
    <2>3. \A i : nth(i) = Nth(kept, i)
      BY DEF Nth, Rank, Below, Book!Cardinality, Cardinality
    <2> HIDE DEF nth, n
    <2> QED
      BY <2>1, <2>2, <2>3
  <1> HIDE DEF P, n, kept, ExitOf, later, reb
  <1>10. kept \in SUBSET Nat /\ kept \in SUBSET (1 .. BookDays)
    BY <1>2
  <1>11. IsFiniteSet(kept)
    <2>1. 1 \in Int /\ BookDays \in Int
      BY <1>1
    <2>2. IsFiniteSet(1 .. BookDays)
      BY <2>1, FS_Interval
    <2> QED
      BY <1>10, <2>2, FS_Subset
  <1>12. /\ n \in Nat
         /\ \A i \in 1 .. n : Nth(kept, i) \in kept
         /\ \A i \in 1 .. n : i + 1 <= n =>
              /\ Nth(kept, i) < Nth(kept, i + 1)
              /\ \A d \in kept : d <= Nth(kept, i) \/ d >= Nth(kept, i + 1)
         /\ \A d \in kept : d <= Nth(kept, n)
         /\ \A d \in kept : \E i \in 1 .. n : Nth(kept, i) = d
    BY <1>10, <1>11, InOrder DEF n
  <1>13. /\ Len(P) = n /\ (P # << >> => n \in 1 .. n)
         /\ \A i \in 1 .. n : P[i][1] = Nth(kept, i) /\ P[i][2] = ExitOf(Nth(kept, i))
    BY <1>9, <1>12
  <1>14. ASSUME NEW i \in 1 .. n PROVE P[i][1] < P[i][2]
    <2>1. Nth(kept, i) \in kept
      BY <1>12
    <2> QED
      BY <1>13, <2>1 DEF kept
  <1>15. ASSUME NEW i \in 1 .. (n - 1) PROVE P[i][2] = P[i + 1][1]
    <2> DEFINE d == Nth(kept, i)
               e == Nth(kept, i + 1)
    <2>1. /\ i \in 1 .. n /\ i + 1 \in 1 .. n /\ i + 1 <= n
      BY <1>12
    <2>2. /\ d \in kept /\ e \in kept /\ d < e
          /\ \A x \in kept : x <= d \/ x >= e
      BY <1>12, <2>1
    <2>3. P[i][2] = ExitOf(d) /\ P[i + 1][1] = e
      BY <1>13, <2>1
    <2> HIDE DEF d, e
    <2>4. d \in reb /\ e \in reb /\ e \in later(d)
      BY <1>2, <2>2 DEF later
    <2>5. ExitOf(d) \in reb /\ ExitOf(d) > d /\ e >= ExitOf(d)
      BY <1>5, <2>2, <2>4
    <2>6. ExitOf(d) # last
      <3> SUFFICES ASSUME ExitOf(d) = last PROVE FALSE
        OBVIOUS
      <3>1. e = last
        BY <1>2, <2>4, <2>5
      <3> QED
        BY <1>8, <2>2, <3>1
    <2>7. ExitOf(d) \in kept
      BY <1>7, <2>5, <2>6
    <2>8. /\ ExitOf(d) \in Nat /\ d \in Nat /\ e \in Nat
      BY <1>2, <2>4, <2>5
    <2> QED
      BY <2>2, <2>3, <2>5, <2>7, <2>8
  <1>16. n \in 1 .. n => P[n][2] = last
    <2> SUFFICES ASSUME n \in 1 .. n PROVE P[n][2] = last
      OBVIOUS
    <2> DEFINE d == Nth(kept, n)
    <2>1. d \in kept /\ \A x \in kept : x <= d
      BY <1>12
    <2>2. P[n][2] = ExitOf(d)
      BY <1>13
    <2> HIDE DEF d
    <2>3. CASE later(d) = {}
      BY <1>2, <1>6, <2>1, <2>2, <2>3
    <2>4. CASE later(d) # {}
      <3>1. d \in reb /\ d \in Nat
        BY <1>2, <2>1
      <3>2. ExitOf(d) \in reb /\ ExitOf(d) > d /\ ExitOf(d) \in Nat
        BY <1>2, <1>5, <2>4, <3>1
      <3>3. ExitOf(d) \notin kept
        BY <2>1, <3>1, <3>2
      <3> QED
        BY <1>7, <2>2, <3>2, <3>3
    <2> QED
      BY <2>3, <2>4
  <1>17. ASSUME NEW d \in cal, d # last,
                \A e \in cal : Book!MonthOf(e) = Book!MonthOf(d) => e <= d
         PROVE  \E i \in 1 .. n : P[i][1] = d
    <2>1. d \in kept
      BY <1>7, <1>17 DEF reb, Book!MonthlyRebalanceDates
    <2> QED
      BY <1>12, <1>13, <2>1
  <1> QED
    <2>1. \A i \in 1 .. Len(P) : P[i][1] < P[i][2]
      BY <1>13, <1>14
    <2>2. \A i \in 1 .. (Len(P) - 1) : P[i][2] = P[i + 1][1]
      BY <1>13, <1>15
    <2>3. P # << >> => P[Len(P)][2] = last
      BY <1>13, <1>16
    <2>4. \A d \in cal :
             (\A e \in cal : Book!MonthOf(e) = Book!MonthOf(d) => e <= d) /\ d # last
             => \E i \in 1 .. Len(P) : P[i][1] = d
      BY <1>13, <1>17
    <2> QED
      BY <2>1, <2>2, <2>3, <2>4 DEF Tiles, P

(* A cross-section of the market on a day, for some names at least.        *)
Quoted(d, names) ==
    /\ d \in DOMAIN market /\ names \subseteq DOMAIN market[d]
    /\ \A s \in names : market[d][s] \in Quotes

(* Names whose price history since their purchase is whole.                *)
Whole == Book!Held(positions) \ (gap \cup missingAdj)

(* The book is marked to the anchor it stands at: to the exit of the last  *)
(* period while settled, which is the entry of the next.                   *)
MarkInv ==
    /\ model \in {"daily", "tail"} /\ mark \in [Symbols -> Int]
    /\ positions \in [Symbols -> Nat]
    /\ period \in 0 .. Len(periods)
    /\ phase \in {"plan", "fill", "settle", "settled"}
    /\ phase # "settled" => period > 0
    /\ \A i \in 1 .. Len(periods) : periods[i][1] < periods[i][2]
    /\ \A i \in 1 .. (Len(periods) - 1) : periods[i][2] = periods[i + 1][1]
    /\ period = 0 => Book!Held(positions) = {}
    /\ phase = "settled" /\ period > 0 =>
         /\ Quoted(Book!Exit, Book!Held(positions))
         /\ \A s \in Whole : mark[s] = Book!AdjustedPrice(market[Book!Exit][s])
    /\ phase # "settled" =>
         /\ Quoted(Book!Entry, Symbols)
         /\ \A s \in Whole : mark[s] = Book!AdjustedPrice(market[Book!Entry][s])

LEMMA QuoteTypes ==
  ASSUME NEW a \in Quotes
  PROVE  /\ a.px \in Int /\ a.adj \in Int /\ a.bar \in BOOLEAN
         /\ Book!AdjustedPrice(a) \in Int
  BY InstancesAssumption DEF Book!QuotesAssumption, Book!Quote, Book!AdjustedPrice

(* What a period earns is the move of the price from its entry to its exit. *)
LEMMA SettleMarks ==
  ASSUME MarkInv, Book!Settle
  PROVE  MarkInv'
PROOF
  <1>1. PICK out \in [Book!Held(positions) -> Quotes] :
          /\ market' = [d \in {Book!Entry, Book!Exit} |-> IF d = Book!Exit THEN out
                                                          ELSE market[d]]
          /\ mark' = [s \in Symbols |-> IF positions[s] = 0 THEN 0
                                        ELSE mark[s] + Book!HoldingReturn(s, out)]
          /\ gap' = gap \cup {s \in Book!Held(positions) :
                                 ~(market[Book!Entry][s].bar /\ out[s].bar)}
          /\ missingAdj' = missingAdj \cup {s \in Book!Held(positions) :
                                               Book!MissingFactor(s, out)}
    BY DEF Book!Settle
  <1>2. /\ phase = "settle" /\ phase' = "settled"
        /\ model' = model /\ periods' = periods /\ period' = period /\ positions' = positions
    BY DEF Book!Settle
  <1>3. Book!Exit' = Book!Exit /\ Book!Held(positions)' = Book!Held(positions)
    BY <1>2 DEF Book!Exit, Book!Held
  <1>4. Book!Exit \in DOMAIN market' /\ market'[Book!Exit] = out
    BY <1>1
  <1>5. \A s \in Symbols : market[Book!Entry][s] \in Quotes
    BY <1>2 DEF MarkInv, Quoted
  <1>6. Book!Held(positions) \subseteq Symbols
    BY DEF Book!Held
  <1>7. ASSUME NEW s \in Book!Held(positions) PROVE Book!HoldingReturn(s, out) \in Int
    <2>1. market[Book!Entry][s] \in Quotes /\ out[s] \in Quotes
      BY <1>5, <1>6
    <2> QED
      BY <2>1, QuoteTypes DEF Book!HoldingReturn
  <1>8. \A s \in Symbols : positions[s] # 0 => s \in Book!Held(positions)
    BY DEF MarkInv, Book!Held
  <1>9. mark' \in [Symbols -> Int]
    <2> SUFFICES ASSUME NEW s \in Symbols, positions[s] # 0
                 PROVE  mark[s] + Book!HoldingReturn(s, out) \in Int
      BY <1>1
    <2> QED
      BY <1>7, <1>8 DEF MarkInv
  <1>10. ASSUME NEW s \in Book!Held(positions), s \notin gap', s \notin missingAdj'
         PROVE  mark'[s] = IF model = "tail" THEN out[s].px + out[s].adj ELSE out[s].px
    <2> DEFINE a == market[Book!Entry][s]
               b == out[s]
    <2>1. /\ s \in Symbols /\ positions[s] # 0 /\ a \in Quotes /\ b \in Quotes
          /\ s \in Whole
      BY <1>1, <1>5, <1>6, <1>10 DEF Whole, Book!Held
    <2>2. a.bar /\ b.bar /\ ~Book!MissingFactor(s, out)
      BY <1>1, <1>10
    <2>3. Book!Priced(a) /\ Book!Priced(b)
      <3>1. model = "tail" => Book!Priced(a) /\ Book!Priced(b)
        BY <2>2 DEF Book!MissingFactor
      <3>2. model # "tail" => Book!Priced(a) /\ Book!Priced(b)
        BY <2>2 DEF Book!Priced
      <3> QED
        BY <3>1, <3>2
    <2>4. Book!HoldingReturn(s, out) = Book!AdjustedPrice(b) - Book!AdjustedPrice(a)
      BY <2>3 DEF Book!HoldingReturn
    <2>5. mark[s] = Book!AdjustedPrice(a)
      BY <1>2, <2>1 DEF MarkInv
    <2>6. mark'[s] = mark[s] + Book!HoldingReturn(s, out)
      BY <1>1, <2>1
    <2>7. Book!AdjustedPrice(a) \in Int /\ Book!AdjustedPrice(b) \in Int
      BY <2>1, QuoteTypes
    <2>8. mark'[s] = Book!AdjustedPrice(b)
      BY <2>4, <2>5, <2>6, <2>7
    <2> QED
      BY <2>8 DEF Book!AdjustedPrice
  <1>11. \A s \in Whole' : mark'[s] = Book!AdjustedPrice(market[Book!Exit][s])'
    <2> SUFFICES ASSUME NEW s \in Whole'
                 PROVE  mark'[s] = Book!AdjustedPrice(market[Book!Exit][s])'
      OBVIOUS
    <2>1. s \in Book!Held(positions) /\ s \notin gap' /\ s \notin missingAdj'
      BY <1>3 DEF Whole
    <2>2. Book!AdjustedPrice(market[Book!Exit][s])'
            = IF model = "tail" THEN out[s].px + out[s].adj ELSE out[s].px
      BY <1>2, <1>3, <1>4 DEF Book!AdjustedPrice
    <2> QED
      BY <1>10, <2>1, <2>2
  <1>12. Quoted(Book!Exit, Book!Held(positions))'
    BY <1>3, <1>4 DEF Quoted
  <1>13. /\ model' \in {"daily", "tail"} /\ positions' \in [Symbols -> Nat]
         /\ period' \in 0 .. Len(periods') /\ phase' = "settled" /\ period' > 0
         /\ \A i \in 1 .. Len(periods') : periods'[i][1] < periods'[i][2]
         /\ \A i \in 1 .. (Len(periods') - 1) : periods'[i][2] = periods'[i + 1][1]
    BY <1>2 DEF MarkInv
  <1>14. period' # 0
    BY <1>13
  <1> QED
    BY <1>9, <1>11, <1>12, <1>13, <1>14 DEF MarkInv

(* What is bought is bought at the entry, what is sold is forgotten.       *)
LEMMA FillMarks ==
  ASSUME MarkInv, BookInv', Book!Fill
  PROVE  MarkInv'
PROOF
  <1> DEFINE fresh == Book!Held(positions') \ Book!Held(positions)
  <1>1. /\ mark' = [s \in Symbols |-> IF positions'[s] = 0 THEN 0
                                      ELSE IF s \in fresh
                                      THEN Book!AdjustedPrice(market[Book!Entry][s])
                                      ELSE mark[s]]
        /\ gap' = gap \cap (Book!Held(positions') \ fresh)
        /\ missingAdj' = missingAdj \cap (Book!Held(positions') \ fresh)
        /\ phase = "fill" /\ phase' = "settle"
        /\ model' = model /\ periods' = periods /\ period' = period /\ market' = market
    BY DEF Book!Fill
  <1>2. Book!Entry' = Book!Entry /\ Book!Held(positions)' = Book!Held(positions')
    BY <1>1 DEF Book!Entry, Book!Held
  <1>3. Quoted(Book!Entry, Symbols) /\ Quoted(Book!Entry, Symbols)'
    BY <1>1, <1>2 DEF MarkInv, Quoted
  <1>4. \A s \in Symbols : Book!AdjustedPrice(market[Book!Entry][s]) \in Int
    BY <1>3, QuoteTypes DEF Quoted
  <1>5. mark' \in [Symbols -> Int]
    BY <1>1, <1>4 DEF MarkInv
  <1>6. positions' \in [Symbols -> Nat]
    BY BookConstants DEF BookInv, Book!Weights
  <1>7. ASSUME NEW s \in Whole'
        PROVE  mark'[s] = Book!AdjustedPrice(market[Book!Entry][s])'
    <2>1. s \in Symbols /\ positions'[s] # 0 /\ s \in Book!Held(positions')
      BY <1>2, <1>6 DEF Whole, Book!Held
    <2>2. Book!AdjustedPrice(market[Book!Entry][s])' = Book!AdjustedPrice(market[Book!Entry][s])
      BY <1>1, <1>2 DEF Book!AdjustedPrice
    <2>3. CASE s \in fresh
      BY <1>1, <2>1, <2>2, <2>3
    <2>4. CASE s \notin fresh
      <3>1. s \in Whole
        BY <1>1, <1>2, <2>1, <2>4 DEF Whole
      <3>2. mark[s] = Book!AdjustedPrice(market[Book!Entry][s])
        BY <1>1, <3>1 DEF MarkInv
      <3> QED
        BY <1>1, <2>1, <2>2, <2>4, <3>2
    <2> QED
      BY <2>3, <2>4
  <1>8. /\ model' \in {"daily", "tail"} /\ period' \in 0 .. Len(periods')
        /\ period' > 0 /\ period' # 0 /\ phase' = "settle"
        /\ \A i \in 1 .. Len(periods') : periods'[i][1] < periods'[i][2]
        /\ \A i \in 1 .. (Len(periods') - 1) : periods'[i][2] = periods'[i + 1][1]
    BY <1>1 DEF MarkInv
  <1> QED
    BY <1>3, <1>5, <1>6, <1>7, <1>8 DEF MarkInv

(* The next entry is the last exit, and quotes what the exit quoted.       *)
LEMMA NextPeriodMarks ==
  ASSUME MarkInv, Book!NextPeriod
  PROVE  MarkInv'
PROOF
  <1>1. PICK cross \in [Symbols -> Quotes] :
          /\ periods[period + 1][1] \in DOMAIN market
               => Book!IsRestriction(market[periods[period + 1][1]], cross)
          /\ market' = [d \in {periods[period + 1][1]} |-> cross]
    BY DEF Book!NextPeriod
  <1>2. /\ phase = "settled" /\ phase' = "plan" /\ period < Len(periods) /\ period' = period + 1
        /\ model' = model /\ periods' = periods /\ positions' = positions
        /\ mark' = mark /\ gap' = gap /\ missingAdj' = missingAdj
    BY DEF Book!NextPeriod
  <1>3. period \in Nat /\ Len(periods) \in Int /\ period + 1 \in 1 .. Len(periods)
    <2>1. period \in 0 .. Len(periods)
      BY DEF MarkInv
    <2> QED
      BY <1>2, <2>1
  <1>4. Book!Entry' = periods[period + 1][1] /\ market'[Book!Entry'] = cross
    BY <1>1, <1>2 DEF Book!Entry
  <1>5. Quoted(Book!Entry, Symbols)'
    BY <1>1, <1>4 DEF Quoted
  <1>6. Book!Held(positions)' = Book!Held(positions) /\ Whole' = Whole
    BY <1>2 DEF Book!Held, Whole
  <1>7. ASSUME NEW s \in Whole
        PROVE  mark[s] = Book!AdjustedPrice(market[Book!Entry][s])'
    <2>1. s \in Book!Held(positions) /\ period > 0
      BY <1>3 DEF Whole, MarkInv
    <2>2. Book!Exit = Book!Entry'
      <3>1. period \in 1 .. (Len(periods) - 1)
        BY <1>2, <1>3, <2>1
      <3> QED
        BY <1>4, <3>1 DEF MarkInv, Book!Exit
    <2>3. /\ Book!Exit \in DOMAIN market /\ s \in DOMAIN market[Book!Exit]
          /\ mark[s] = Book!AdjustedPrice(market[Book!Exit][s])
      BY <1>2, <2>1 DEF MarkInv, Quoted
    <2>4. market[Book!Exit][s] = cross[s]
      <3>1. Book!IsRestriction(market[Book!Exit], cross)
        BY <1>1, <1>4, <2>2, <2>3
      <3> QED
        BY <2>3, <3>1 DEF Book!IsRestriction
    <2>5. Book!AdjustedPrice(market[Book!Entry][s])' = Book!AdjustedPrice(cross[s])
      BY <1>2, <1>4 DEF Book!AdjustedPrice
    <2> QED
      BY <2>3, <2>4, <2>5
  <1>8. /\ period' \in 0 .. Len(periods') /\ period' > 0 /\ period' # 0
    BY <1>2, <1>3
  <1> QED
    BY <1>2, <1>5, <1>6, <1>7, <1>8 DEF MarkInv

LEMMA MarkStep ==
  ASSUME MarkInv, BookInv', Book!Next \/ UNCHANGED bookVars
  PROVE  MarkInv'
PROOF
  <1>1. ASSUME /\ model' = model /\ periods' = periods /\ period' = period /\ market' = market
               /\ positions' = positions /\ mark' = mark /\ gap' = gap
               /\ missingAdj' = missingAdj
               /\ phase' = phase \/ (phase # "settled" /\ phase' = "fill")
        PROVE  MarkInv'
    <2>1. /\ Book!Entry' = Book!Entry /\ Book!Exit' = Book!Exit
          /\ Book!Held(positions)' = Book!Held(positions) /\ Whole' = Whole
      BY <1>1 DEF Book!Entry, Book!Exit, Book!Held, Whole
    <2>2. \A s, d : Book!AdjustedPrice(market[d][s])' = Book!AdjustedPrice(market[d][s])
      BY <1>1 DEF Book!AdjustedPrice
    <2> QED
      BY <1>1, <2>1, <2>2 DEF MarkInv, Quoted, Book!AdjustedPrice
  <1>2. CASE Book!Plan
    BY <1>1, <1>2 DEF Book!Plan
  <1>3. CASE UNCHANGED bookVars
    BY <1>1, <1>3 DEF bookVars
  <1> QED
    BY <1>2, <1>3, NextPeriodMarks, FillMarks, SettleMarks DEF Book!Next

LEMMA MarkInit == MCInit => MarkInv /\ Book!PeriodsTile
PROOF
  <1> SUFFICES ASSUME MCInit PROVE MarkInv /\ Book!PeriodsTile
    OBVIOUS
  <1>1. /\ model \in {"daily", "tail"} /\ mark = [s \in Symbols |-> 0]
        /\ positions = Book!NoPositions /\ period = 0 /\ phase = "settled"
    BY DEF MCInit, Book!Init
  <1>2. \/ /\ calendar \in SUBSET (1 .. BookDays) /\ calendar # {}
           /\ periods = Book!MonthlyAnchorPairs(calendar)
        \/ calendar = {1} /\ periods = << >>
    <2>1. CASE which = "book"
      <3>1. Book!Init
        BY <2>1 DEF MCInit
      <3> QED
        BY <3>1 DEF Book!Init
    <2>2. CASE which # "book"
      BY <2>2 DEF MCInit
    <2> QED
      BY <2>1, <2>2
  <1> DEFINE last == CHOOSE d \in calendar : \A e \in calendar : e <= d
  <1>3. Tiles(calendar, periods, last) /\ Len(periods) \in Nat
    <2>1. CASE calendar = {1} /\ periods = << >>
      <3>1. last = 1
        BY <2>1
      <3> QED
        BY <2>1, <3>1 DEF Tiles
    <2>2. CASE /\ calendar \in SUBSET (1 .. BookDays) /\ calendar # {}
               /\ periods = Book!MonthlyAnchorPairs(calendar)
      <3>1. BookDays \in Nat
        BY InstancesAssumption DEF Book!BacktestAssumption
      <3>2. calendar \in SUBSET (0 .. BookDays) /\ \A d \in calendar : d \in Nat
        BY <2>2, <3>1
      <3>3. \E d \in calendar : \A e \in calendar : d >= e
        BY <2>2, <3>1, <3>2, Extremes
      <3>4. last \in calendar /\ \A e \in calendar : e <= last
        <4>1. \E d \in calendar : \A e \in calendar : e <= d
          BY <3>2, <3>3
        <4> QED
          BY <4>1
      <3> HIDE DEF last
      <3> QED
        BY <2>2, <3>4, ScheduleTiles
    <2> QED
      BY <1>2, <2>1, <2>2
  <1>4. Book!PeriodsTile
    BY <1>3 DEF Tiles, Book!PeriodsTile
  <1> HIDE DEF last
  <1>5. positions \in [Symbols -> Nat] /\ Book!Held(positions) = {}
    BY <1>1 DEF Book!NoPositions, Book!Held
  <1>6. MarkInv
    BY <1>1, <1>3, <1>5 DEF MarkInv, Tiles
  <1> QED
    BY <1>4, <1>6

(* On any calendar the holding periods tile it from the first month-end to *)
(* the last day, and a position with a whole price history has earned the  *)
(* move of its price since it was bought, whatever was traded around it    *)
(* (monthly_anchor_pairs, and the holding_returns of the two event models). *)
THEOREM BooksAreExact == MCSpec => []BookIsExact
PROOF
  <1> DEFINE Inv == BookInv /\ MarkInv /\ Book!PeriodsTile
  <1>1. MCInit => Inv
    BY BookInit, MarkInit
  <1>2. Inv /\ [MCNext]_mcVars => Inv'
    <2> SUFFICES ASSUME Inv, [MCNext]_mcVars PROVE Inv'
      OBVIOUS
    <2>1. Book!Next \/ UNCHANGED bookVars
      BY DEF MCNext, mcVars
    <2>2. BookInv' /\ MarkInv'
      BY <2>1, BookStep, MarkStep
    <2>3. calendar' = calendar /\ periods' = periods
      BY <2>1 DEF Book!Next, Book!NextPeriod, Book!Plan, Book!Fill, Book!Settle, bookVars
    <2>4. Book!PeriodsTile'
      BY <2>3 DEF Book!PeriodsTile, Book!MonthOf
    <2> QED
      BY <2>2, <2>4
  <1>3. Inv => BookIsExact
    BY DEF MarkInv, BookIsExact, Book!MovesAreCounted, Whole
  <1> HIDE DEF Inv
  <1> QED
    BY <1>1, <1>2, <1>3, PTL DEF MCSpec

-----------------------------------------------------------------------------
(* Volume peaks: what a session means does not depend on what came later.  *)

PeakSession == [PeakMinutes -> [vol : Int, amt : Int, close : Int]]

(* ee has the sessions of dd, the same up to the decision, and maybe more. *)
Extends(dd, ee) ==
    /\ \E m, n \in Nat : DOMAIN dd = 1 .. m /\ DOMAIN ee = 1 .. n /\ m <= n
    /\ \A i \in DOMAIN dd, t \in PeakMinutes : Peaks!OnTime(t) => dd[i][t] = ee[i][t]

(* Two days have the same bars at these minutes.                           *)
SameBars(d, e, seen) == \A t \in seen : d[t] = e[t]

(* Two classifications that agree on the sessions of dd, and see nothing   *)
(* after the decision.                                                     *)
SameFrames(dd, ee, w, v) ==
    /\ \E m, n \in Nat : DOMAIN dd = 1 .. m /\ DOMAIN ee = 1 .. n /\ m <= n
    /\ DOMAIN w \subseteq DOMAIN dd /\ DOMAIN v \subseteq DOMAIN ee
    /\ \A i \in DOMAIN dd : i \in DOMAIN w <=> i \in DOMAIN v
    /\ \A i \in DOMAIN w :
         /\ w[i] = v[i] /\ w[i].seen \subseteq 0 .. PeakCutoff
         /\ w[i].classifiable \subseteq w[i].seen /\ w[i].valley \subseteq w[i].seen
         /\ w[i].peak \subseteq w[i].seen /\ w[i].ridge \subseteq w[i].seen
         /\ \A t \in w[i].seen : dd[i][t] = ee[i][t]

LEMMA LastOne ==
  ASSUME NEW k \in Nat, NEW S \in SUBSET (0 .. k), S # {}
  PROVE  Peaks!Max(S) \in S
PROOF
  <1>1. \E x \in S : \A y \in S : x >= y
    BY Extremes
  <1> QED
    BY <1>1 DEF Peaks!Max

(* What the volumes, amounts and closes of a day are used for depends only *)
(* on the bars it is asked about.                                          *)
LEMMA SameDay ==
  ASSUME NEW d, NEW e, NEW seen \in SUBSET (0 .. PeakCutoff), SameBars(d, e, seen),
         NEW S \in SUBSET seen
  PROVE  /\ Peaks!Traded(d, S) = Peaks!Traded(e, S) /\ Peaks!Traded(d, S) \subseteq seen
         /\ Peaks!WithAmount(d, S) = Peaks!WithAmount(e, S) /\ Peaks!WithAmount(d, S) \subseteq seen
         /\ Peaks!Priced(d, S) = Peaks!Priced(e, S) /\ Peaks!Priced(d, S) \subseteq seen
         /\ Peaks!Amounts(d, S) = Peaks!Amounts(e, S)
         /\ Peaks!Vwap(d, S) = Peaks!Vwap(e, S)
         /\ Peaks!Returning(d, seen, S) = Peaks!Returning(e, seen, S)
         /\ Peaks!Returning(d, seen, S) \subseteq seen
         /\ \A t \in Peaks!Returning(d, seen, S) : Peaks!PreviousBar(seen, t) \in seen
PROOF
  <1>1. /\ Peaks!Traded(d, S) = Peaks!Traded(e, S) /\ Peaks!Traded(d, S) \subseteq seen
        /\ Peaks!WithAmount(d, S) = Peaks!WithAmount(e, S) /\ Peaks!WithAmount(d, S) \subseteq seen
        /\ Peaks!Priced(d, S) = Peaks!Priced(e, S) /\ Peaks!Priced(d, S) \subseteq seen
    BY DEF SameBars, Peaks!Traded, Peaks!WithAmount, Peaks!Priced
  <1>2. Peaks!Amounts(d, S) = Peaks!Amounts(e, S) /\ Peaks!Volumes(d, S) = Peaks!Volumes(e, S)
    BY DEF SameBars, Peaks!Amounts, Peaks!Volumes
  <1>3. Peaks!Vwap(d, S) = Peaks!Vwap(e, S)
    BY <1>2 DEF Peaks!Vwap
  <1>4. ASSUME NEW t \in S, Peaks!Before(seen, t) # {}
        PROVE  Peaks!PreviousBar(seen, t) \in seen
    <2>1. Peaks!Before(seen, t) \in SUBSET (0 .. PeakCutoff) /\ PeakCutoff \in Nat
      BY InstancesAssumption DEF Peaks!Before, Peaks!PeaksAssumption
    <2>2. Peaks!Max(Peaks!Before(seen, t)) \in Peaks!Before(seen, t)
      BY <1>4, <2>1, LastOne
    <2> QED
      BY <2>2 DEF Peaks!PreviousBar, Peaks!Before
  <1>5. /\ Peaks!Returning(d, seen, S) = Peaks!Returning(e, seen, S)
        /\ Peaks!Returning(d, seen, S) \subseteq seen
        /\ \A t \in Peaks!Returning(d, seen, S) : Peaks!PreviousBar(seen, t) \in seen
    BY <1>1, <1>4 DEF SameBars, Peaks!Returning, Peaks!Priced
  <1> QED
    BY <1>1, <1>2, <1>3, <1>5

LEMMA SameRanges ==
  ASSUME NEW dd, NEW ee, NEW w, NEW v, SameFrames(dd, ee, w, v), NEW i \in DOMAIN w
  PROVE  /\ Peaks!PreviousClose(dd, w, i) = Peaks!PreviousClose(ee, v, i)
         /\ Peaks!PriceRange(dd, w, i) = Peaks!PriceRange(ee, v, i)
PROOF
  <1> DEFINE before == Peaks!Before(DOMAIN w, i)
             last == Peaks!Max(before)
  <1>1. before = Peaks!Before(DOMAIN v, i)
    BY DEF SameFrames, Peaks!Before
  <1>2. PICK m \in Nat : DOMAIN dd = 1 .. m /\ DOMAIN w \subseteq 1 .. m
    BY DEF SameFrames
  <1>3. before \in SUBSET (0 .. m)
    BY <1>2 DEF Peaks!Before
  <1>4. before # {} => last \in before
    BY <1>3, LastOne
  <1>5. Peaks!PreviousClose(dd, w, i) = Peaks!PreviousClose(ee, v, i)
    <2>1. CASE before = {}
      BY <1>1, <2>1 DEF Peaks!PreviousClose
    <2>2. CASE before # {}
      <3> DEFINE usable == Peaks!Priced(dd[last], w[last].seen)
      <3>1. last \in DOMAIN w
        BY <1>4, <2>2 DEF Peaks!Before
      <3>2. /\ w[last] = v[last] /\ w[last].seen \in SUBSET (0 .. PeakCutoff)
            /\ \A t \in w[last].seen : dd[last][t] = ee[last][t]
        BY <3>1 DEF SameFrames
      <3>3. usable = Peaks!Priced(ee[last], v[last].seen) /\ usable \subseteq w[last].seen
        <4> DEFINE d == dd[last]
                   e == ee[last]
                   seen == w[last].seen
        <4>1. /\ seen \in SUBSET (0 .. PeakCutoff) /\ seen \in SUBSET seen
              /\ SameBars(d, e, seen)
          BY <3>2 DEF SameBars
        <4> HIDE DEF d, e, seen
        <4>2. Peaks!Priced(d, seen) = Peaks!Priced(e, seen) /\ Peaks!Priced(d, seen) \subseteq seen
          BY <4>1, SameDay
        <4> QED
          BY <3>2, <4>2 DEF d, e, seen
      <3>4. usable # {} => Peaks!Max(usable) \in usable
        <4>1. PeakCutoff \in Nat
          BY InstancesAssumption DEF Peaks!PeaksAssumption
        <4> QED
          BY <3>2, <3>3, <4>1, LastOne
      <3>5. usable # {} => dd[last][Peaks!Max(usable)] = ee[last][Peaks!Max(usable)]
        BY <3>2, <3>3, <3>4
      <3>6. /\ Peaks!PreviousClose(dd, w, i)
                 = IF usable = {} THEN {} ELSE {dd[last][Peaks!Max(usable)].close}
            /\ Peaks!PreviousClose(ee, v, i)
                 = IF usable = {} THEN {} ELSE {ee[last][Peaks!Max(usable)].close}
        BY <1>1, <2>2, <3>3 DEF Peaks!PreviousClose
      <3> QED
        BY <3>5, <3>6
    <2> QED
      BY <2>1, <2>2
  <1>6. {dd[i][t].close : t \in Peaks!Priced(dd[i], w[i].seen)}
          = {ee[i][t].close : t \in Peaks!Priced(ee[i], v[i].seen)}
    <2>1. /\ w[i] = v[i] /\ w[i].seen \in SUBSET (0 .. PeakCutoff)
          /\ \A t \in w[i].seen : dd[i][t] = ee[i][t]
      BY DEF SameFrames
    <2>2. /\ Peaks!Priced(dd[i], w[i].seen) = Peaks!Priced(ee[i], v[i].seen)
          /\ Peaks!Priced(dd[i], w[i].seen) \subseteq w[i].seen
      <3> DEFINE d == dd[i]
                 e == ee[i]
                 seen == w[i].seen
      <3>1. /\ seen \in SUBSET (0 .. PeakCutoff) /\ seen \in SUBSET seen
            /\ SameBars(d, e, seen)
        BY <2>1 DEF SameBars
      <3> HIDE DEF d, e, seen
      <3>2. Peaks!Priced(d, seen) = Peaks!Priced(e, seen) /\ Peaks!Priced(d, seen) \subseteq seen
        BY <3>1, SameDay
      <3> QED
        BY <2>1, <3>2 DEF d, e, seen
    <2> QED
      BY <2>1, <2>2
  <1> QED
    BY <1>5, <1>6 DEF Peaks!PriceRange

(* A session means the same to every factor: what it contributes, and      *)
(* whether it takes a slot.                                                *)
LEMMA SameContributions ==
  ASSUME NEW dd, NEW ee, NEW w, NEW v, SameFrames(dd, ee, w, v), NEW i \in DOMAIN w,
         NEW name \in Peaks!FactorNames
  PROVE  /\ Peaks!Contribution(name, dd, w, i) = Peaks!Contribution(name, ee, v, i)
         /\ Peaks!ValidDay(name, dd, w, i) <=> Peaks!ValidDay(name, ee, v, i)
PROOF
  <1> DEFINE d == dd[i]
             e == ee[i]
             c == w[i]
  <1>1. /\ v[i] = c /\ c.seen \in SUBSET (0 .. PeakCutoff) /\ SameBars(d, e, c.seen)
        /\ c.valley \in SUBSET c.seen /\ c.peak \in SUBSET c.seen
        /\ c.ridge \in SUBSET c.seen /\ c.seen \in SUBSET c.seen
    BY DEF SameFrames, SameBars
  <1>2. /\ Peaks!PreviousClose(dd, w, i) = Peaks!PreviousClose(ee, v, i)
        /\ Peaks!PriceRange(dd, w, i) = Peaks!PriceRange(ee, v, i)
    BY SameRanges
  <1> HIDE DEF d, e, c
  <1>3. /\ \A S \in {c.seen, c.valley, c.peak, c.ridge} :
             /\ S \in SUBSET c.seen
             /\ Peaks!Traded(d, S) = Peaks!Traded(e, S) /\ Peaks!Traded(d, S) \subseteq c.seen
             /\ Peaks!WithAmount(d, S) = Peaks!WithAmount(e, S)
             /\ Peaks!WithAmount(d, S) \subseteq c.seen
             /\ Peaks!Returning(d, c.seen, S) = Peaks!Returning(e, c.seen, S)
             /\ Peaks!Returning(d, c.seen, S) \subseteq c.seen
             /\ \A t \in Peaks!Returning(d, c.seen, S) : Peaks!PreviousBar(c.seen, t) \in c.seen
    BY <1>1, SameDay
  <1>4. /\ Peaks!Vwap(d, Peaks!Traded(d, c.valley)) = Peaks!Vwap(e, Peaks!Traded(e, c.valley))
        /\ Peaks!Vwap(d, Peaks!Traded(d, c.seen)) = Peaks!Vwap(e, Peaks!Traded(e, c.seen))
        /\ Peaks!Vwap(d, Peaks!Traded(d, c.ridge)) = Peaks!Vwap(e, Peaks!Traded(e, c.ridge))
    <2> SUFFICES ASSUME NEW S \in {c.seen, c.valley, c.ridge}
                 PROVE  Peaks!Vwap(d, Peaks!Traded(d, S)) = Peaks!Vwap(e, Peaks!Traded(e, S))
      OBVIOUS
    <2>1. /\ Peaks!Traded(d, S) \in SUBSET c.seen /\ Peaks!Traded(d, S) = Peaks!Traded(e, S)
      BY <1>3
    <2>2. Peaks!Vwap(d, Peaks!Traded(d, S)) = Peaks!Vwap(e, Peaks!Traded(d, S))
      BY <1>1, <2>1, SameDay
    <2> QED
      BY <2>1, <2>2
  <1>5. /\ Peaks!RelativeVwap(d, c) = Peaks!RelativeVwap(e, c)
        /\ Peaks!ValleyRidge(d, c) = Peaks!ValleyRidge(e, c)
        /\ Peaks!PriceQuantile(dd, w, i) = Peaks!PriceQuantile(ee, v, i)
    BY <1>1, <1>2, <1>4 DEF Peaks!RelativeVwap, Peaks!ValleyRidge, Peaks!PriceQuantile, d, e, c
  <1>6. Peaks!PeakRidge(d, c) = Peaks!PeakRidge(e, c)
    <2> SUFFICES ASSUME NEW S \in {c.peak, c.ridge}
                 PROVE  Peaks!Amounts(d, Peaks!WithAmount(d, S))
                          = Peaks!Amounts(e, Peaks!WithAmount(e, S))
      BY DEF Peaks!PeakRidge
    <2>1. /\ Peaks!WithAmount(d, S) \in SUBSET c.seen
          /\ Peaks!WithAmount(d, S) = Peaks!WithAmount(e, S)
      BY <1>3
    <2>2. Peaks!Amounts(d, Peaks!WithAmount(d, S)) = Peaks!Amounts(e, Peaks!WithAmount(d, S))
      BY <1>1, <2>1, SameDay
    <2> QED
      BY <2>1, <2>2
  <1>7. Peaks!RidgeReturns(d, c) = Peaks!RidgeReturns(e, c)
    <2> DEFINE T == Peaks!Returning(d, c.seen, c.ridge)
    <2>1. /\ T = Peaks!Returning(e, c.seen, c.ridge)
          /\ \A t \in T : /\ d[t] = e[t]
                          /\ d[Peaks!PreviousBar(c.seen, t)] = e[Peaks!PreviousBar(c.seen, t)]
      BY <1>1, <1>3 DEF SameBars
    <2> HIDE DEF T
    <2> QED
      BY <2>1 DEF Peaks!RidgeReturns, T
  <1>8. Peaks!Contribution(name, dd, w, i) = Peaks!Contribution(name, ee, v, i)
    BY <1>1, <1>5, <1>6, <1>7 DEF Peaks!Contribution, Peaks!FactorNames, d, e, c
  <1>9. /\ Peaks!ValleyFloor(d, c) <=> Peaks!ValleyFloor(e, c)
        /\ Peaks!ValleyRidgeFloor(d, c) <=> Peaks!ValleyRidgeFloor(e, c)
        /\ Peaks!RidgeReturnFloor(d, c) <=> Peaks!RidgeReturnFloor(e, c)
        /\ Peaks!PeakRidgeFloor(d, c) <=> Peaks!PeakRidgeFloor(e, c)
    BY <1>3 DEF Peaks!ValleyFloor, Peaks!ValleyRidgeFloor, Peaks!RidgeReturnFloor,
                Peaks!PeakRidgeFloor
  <1>10. Peaks!QuantileFloor(dd, w, i) <=> Peaks!QuantileFloor(ee, v, i)
    BY <1>1, <1>2, <1>9 DEF Peaks!QuantileFloor, d, e, c
  <1>11. Peaks!ValidDay(name, dd, w, i) <=> Peaks!ValidDay(name, ee, v, i)
    BY <1>1, <1>9, <1>10 DEF Peaks!ValidDay, d, e, c
  <1> QED
    BY <1>8, <1>11

LEMMA SameSeries ==
  ASSUME NEW dd, NEW ee, NEW w, NEW v, SameFrames(dd, ee, w, v),
         NEW name \in Peaks!FactorNames, NEW i \in DOMAIN dd
  PROVE  /\ i \in DOMAIN Peaks!Series(name, dd, w) <=> i \in DOMAIN Peaks!Series(name, ee, v)
         /\ i \in DOMAIN Peaks!Series(name, dd, w) =>
              Peaks!Series(name, dd, w)[i] = Peaks!Series(name, ee, v)[i]
PROOF
  <1> DEFINE takes == {j \in DOMAIN w : Peaks!ValidDay(name, dd, w, j)}
             later == {j \in DOMAIN v : Peaks!ValidDay(name, ee, v, j)}
             upto == {j \in takes : j <= i}
             window == Peaks!Latest(upto, PeakLookback)
  <1>1. PICK m \in Nat, n \in Nat : DOMAIN dd = 1 .. m /\ DOMAIN ee = 1 .. n /\ m <= n
    BY DEF SameFrames
  <1>2. DOMAIN w \subseteq 1 .. m /\ DOMAIN v \subseteq 1 .. n
    BY <1>1 DEF SameFrames
  <1>3. \A j \in 1 .. m : j \in takes <=> j \in later
    <2> TAKE j \in 1 .. m
    <2>1. j \in DOMAIN w <=> j \in DOMAIN v
      BY <1>1 DEF SameFrames
    <2> QED
      BY <2>1, SameContributions
  <1>4. upto = {j \in later : j <= i}
    BY <1>1, <1>2, <1>3
  <1>5. window \subseteq DOMAIN w
    BY DEF Peaks!Latest
  <1>6. /\ Peaks!Series(name, dd, w) = [k \in takes |->
              Peaks!Reduced(name, dd, w, Peaks!Latest({j \in takes : j <= k}, PeakLookback))]
        /\ Peaks!Series(name, ee, v) = [k \in later |->
              Peaks!Reduced(name, ee, v, Peaks!Latest({j \in later : j <= k}, PeakLookback))]
    BY DEF Peaks!Series
  <1> HIDE DEF takes, later, window
  <1>7. [j \in window |-> Peaks!Contribution(name, dd, w, j)]
          = [j \in window |-> Peaks!Contribution(name, ee, v, j)]
    BY <1>5, SameContributions
  <1>8. Peaks!Reduced(name, dd, w, window) = Peaks!Reduced(name, ee, v, window)
    BY <1>7 DEF Peaks!Reduced
  <1>9. i \in takes <=> i \in later
    BY <1>1, <1>3
  <1>10. i \in takes => /\ Peaks!Series(name, dd, w)[i] = Peaks!Reduced(name, dd, w, window)
                        /\ Peaks!Series(name, ee, v)[i] = Peaks!Reduced(name, ee, v, window)
    BY <1>4, <1>6, <1>9 DEF window
  <1> QED
    BY <1>6, <1>8, <1>9, <1>10

LEMMA SameClasses ==
  ASSUME NEW dd, NEW ee, Extends(dd, ee)
  PROVE  SameFrames(dd, ee, Peaks!Frame(dd), Peaks!Frame(ee))
PROOF
  <1>1. PICK m \in Nat, n \in Nat : DOMAIN dd = 1 .. m /\ DOMAIN ee = 1 .. n /\ m <= n
    BY DEF Extends
  <1>2. \A i \in DOMAIN dd, t \in PeakMinutes : Peaks!OnTime(t) => dd[i][t] = ee[i][t]
    BY DEF Extends
  <1>3. \A i \in DOMAIN dd : Peaks!Visible(dd, i) = Peaks!Visible(ee, i)
    BY <1>2 DEF Peaks!Visible
  <1>4. /\ Peaks!TradingDays(dd) \subseteq DOMAIN dd /\ Peaks!TradingDays(ee) \subseteq DOMAIN ee
        /\ \A i \in DOMAIN dd : i \in Peaks!TradingDays(dd) <=> i \in Peaks!TradingDays(ee)
    BY <1>1, <1>3 DEF Peaks!TradingDays
  <1>5. ASSUME NEW i \in DOMAIN dd
        PROVE  Peaks!Classified(dd, i) = Peaks!Classified(ee, i)
    <2> DEFINE seen == Peaks!Visible(dd, i)
               earlier == Peaks!Before(Peaks!TradingDays(dd), i)
               base(t) == Peaks!Observations(dd, earlier, t)
               classifiable == {t \in seen : Peaks!Cardinality(base(t)) >= BaselineMinObs}
               eruptive == {t \in classifiable :
                              Peaks!Exceeds(dd[i][t].vol, [j \in base(t) |-> dd[j][t].vol])}
               loud == {t \in classifiable :
                              Peaks!Exceeds(ee[i][t].vol, [j \in base(t) |-> ee[j][t].vol])}
    <2>1. seen = Peaks!Visible(ee, i)
      BY <1>3
    <2>2. earlier = Peaks!Before(Peaks!TradingDays(ee), i) /\ earlier \subseteq DOMAIN dd
      BY <1>1, <1>4 DEF Peaks!Before
    <2>3. \A t : base(t) \subseteq DOMAIN dd
      BY <2>2 DEF Peaks!Observations, Peaks!Latest
    <2>4. \A t : base(t) = Peaks!Observations(ee, earlier, t)
      BY <1>3, <2>2 DEF Peaks!Observations, Peaks!Latest
    <2>5. ASSUME NEW t \in seen
          PROVE  /\ dd[i][t].vol = ee[i][t].vol
                 /\ [j \in base(t) |-> dd[j][t].vol] = [j \in base(t) |-> ee[j][t].vol]
      <3>1. t \in PeakMinutes /\ Peaks!OnTime(t)
        BY DEF Peaks!Visible
      <3>2. \A j \in DOMAIN dd : dd[j][t].vol = ee[j][t].vol
        BY <1>2, <3>1
      <3> QED
        BY <2>3, <3>2
    <2>6. eruptive = loud
      BY <2>5
    <2>7. /\ Peaks!Classified(dd, i) =
                [seen |-> seen, classifiable |-> classifiable,
                 valley |-> classifiable \ eruptive,
                 peak |-> {t \in eruptive : Peaks!Isolated(t, seen, classifiable \ eruptive)},
                 ridge |-> eruptive
                   \ {t \in eruptive : Peaks!Isolated(t, seen, classifiable \ eruptive)}]
          /\ Peaks!Classified(ee, i) =
                [seen |-> seen, classifiable |-> classifiable,
                 valley |-> classifiable \ loud,
                 peak |-> {t \in loud : Peaks!Isolated(t, seen, classifiable \ loud)},
                 ridge |-> loud \ {t \in loud : Peaks!Isolated(t, seen, classifiable \ loud)}]
      <3>1. Peaks!Classified(dd, i) =
                [seen |-> seen, classifiable |-> classifiable,
                 valley |-> classifiable \ eruptive,
                 peak |-> {t \in eruptive : Peaks!Isolated(t, seen, classifiable \ eruptive)},
                 ridge |-> eruptive
                   \ {t \in eruptive : Peaks!Isolated(t, seen, classifiable \ eruptive)}]
        BY DEF Peaks!Classified
      <3>2. \A t \in seen : Peaks!Observations(ee, Peaks!Before(Peaks!TradingDays(ee), i), t)
                              = base(t)
        BY <2>2, <2>4
      <3> QED
        BY <2>1, <2>2, <2>4, <3>1, <3>2 DEF Peaks!Classified
    <2> QED
      BY <2>6, <2>7
  <1>6. ASSUME NEW i \in Peaks!TradingDays(dd)
        PROVE  LET c == Peaks!Classified(dd, i)
               IN  /\ c.seen \subseteq 0 .. PeakCutoff /\ c.classifiable \subseteq c.seen
                   /\ c.valley \subseteq c.seen /\ c.peak \subseteq c.seen
                   /\ c.ridge \subseteq c.seen
                   /\ \A t \in c.seen : dd[i][t] = ee[i][t]
    <2>1. /\ PeakMinutes \subseteq Nat /\ PeakCutoff \in Nat /\ PeakLag \in Nat
      BY InstancesAssumption DEF Peaks!PeaksAssumption
    <2>2. Peaks!Visible(dd, i) \subseteq 0 .. PeakCutoff
      <3> SUFFICES ASSUME NEW t \in PeakMinutes, Peaks!OnTime(t) PROVE t \in 0 .. PeakCutoff
        BY DEF Peaks!Visible
      <3>1. t + PeakLag <= PeakCutoff /\ t \in Nat
        BY <2>1 DEF Peaks!OnTime
      <3> QED
        BY <2>1, <3>1
    <2>3. \A t \in Peaks!Visible(dd, i) : dd[i][t] = ee[i][t]
      BY <1>2, <1>4 DEF Peaks!Visible
    <2> QED
      BY <2>2, <2>3 DEF Peaks!Classified
  <1> QED
    BY <1>1, <1>4, <1>5, <1>6 DEF SameFrames, Peaks!Frame

(* The frame and the factors are those of the bars.                        *)
PeakInv ==
    /\ days \in Seq(PeakSession)
    /\ days # << >> => /\ frame = Peaks!Frame(days)
                       /\ value = [name \in Peaks!FactorNames |-> Peaks!Series(name, days, frame)]

Published ==
    \A name \in Peaks!FactorNames : \A i \in DOMAIN days :
       /\ i \in DOMAIN value[name] <=> i \in DOMAIN value'[name]
       /\ i \in DOMAIN value[name] => value'[name][i] = value[name][i]

LEMMA PeakStep ==
  ASSUME PeakInv, Peaks!Next
  PROVE  PeakInv' /\ Published
PROOF
  <1>1. days' \in Seq(PeakSession) /\ Extends(days, days')
    <2>1. \A s \in PeakSessions : s \in PeakSession
      BY InstancesAssumption DEF Peaks!PeaksAssumption, PeakSession
    <2>2. days \in Seq(PeakSession) /\ Len(days) \in Nat /\ DOMAIN days = 1 .. Len(days)
      BY DEF PeakInv
    <2>3. CASE Peaks!NextSession
      <3>1. PICK s \in PeakSessions :
               days' = Append(days, [t \in PeakMinutes |-> IF Peaks!OnTime(t) THEN s[t]
                                                           ELSE Peaks!NoBar])
        BY <2>3 DEF Peaks!NextSession
      <3>2. [t \in PeakMinutes |-> IF Peaks!OnTime(t) THEN s[t] ELSE Peaks!NoBar] \in PeakSession
        BY <2>1 DEF PeakSession, Peaks!NoBar
      <3>3. /\ days' \in Seq(PeakSession) /\ Len(days') = Len(days) + 1
            /\ \A i \in 1 .. Len(days) : days'[i] = days[i]
        BY <2>2, <3>1, <3>2
      <3>4. /\ DOMAIN days' = 1 .. (Len(days) + 1) /\ Len(days) + 1 \in Nat
            /\ Len(days) <= Len(days) + 1
        BY <2>2, <3>3
      <3>5. \A i \in DOMAIN days, t \in PeakMinutes : Peaks!OnTime(t) => days[i][t] = days'[i][t]
        BY <2>2, <3>3
      <3> QED
        BY <2>2, <3>3, <3>4, <3>5 DEF Extends
    <2>4. CASE Peaks!Afternoon
      <3>1. PICK s \in PeakSessions :
               /\ \A t \in PeakMinutes : days[Len(days)][t] = IF Peaks!OnTime(t) THEN s[t]
                                                              ELSE Peaks!NoBar
               /\ days' = [days EXCEPT ![Len(days)] = s]
        BY <2>4 DEF Peaks!Afternoon
      <3>2. days' \in Seq(PeakSession) /\ DOMAIN days' = DOMAIN days
        <4>1. s \in PeakSession /\ Len(days) \in DOMAIN days
          BY <2>1, <2>2, <2>4 DEF Peaks!Afternoon
        <4> QED
          BY <2>2, <3>1, <4>1
      <3>3. \A i \in DOMAIN days, t \in PeakMinutes : Peaks!OnTime(t) => days[i][t] = days'[i][t]
        BY <2>2, <3>1
      <3>4. Len(days) <= Len(days)
        BY <2>2
      <3> QED
        BY <2>2, <3>2, <3>3, <3>4 DEF Extends
    <2> QED
      BY <2>3, <2>4 DEF Peaks!Next
  <1>2. /\ frame' = Peaks!Frame(days')
        /\ value' = [name \in Peaks!FactorNames |-> Peaks!Series(name, days', frame')]
    BY DEF Peaks!Next, Peaks!NextSession, Peaks!Afternoon, Peaks!Compute
  <1>3. PeakInv'
    BY <1>1, <1>2 DEF PeakInv
  <1>4. Published
    <2> SUFFICES ASSUME NEW name \in Peaks!FactorNames, NEW i \in DOMAIN days
                 PROVE  /\ i \in DOMAIN value[name] <=> i \in DOMAIN value'[name]
                        /\ i \in DOMAIN value[name] => value'[name][i] = value[name][i]
      BY DEF Published
    <2>1. /\ frame = Peaks!Frame(days)
          /\ value[name] = Peaks!Series(name, days, frame)
      BY DEF PeakInv
    <2>2. value'[name] = Peaks!Series(name, days', frame')
      BY <1>2
    <2>3. SameFrames(days, days', frame, frame')
      BY <1>1, <1>2, <2>1, SameClasses
    <2> QED
      BY <2>1, <2>2, <2>3, SameSeries
  <1> QED
    BY <1>3, <1>4

LEMMA PeakNext ==
  PeakInv /\ [MCNext]_mcVars => PeakInv' /\ (Published \/ UNCHANGED peakVars)
PROOF
  <1> SUFFICES ASSUME PeakInv, [MCNext]_mcVars
               PROVE  PeakInv' /\ (Published \/ UNCHANGED peakVars)
    OBVIOUS
  <1>1. Peaks!Next \/ UNCHANGED peakVars
    BY DEF MCNext, mcVars
  <1>2. CASE UNCHANGED peakVars
    BY <1>2 DEF peakVars, PeakInv
  <1> QED
    BY <1>1, <1>2, PeakStep

(* For any sessions, floors and windows: a value of a volume-peak factor   *)
(* is final once its day is decided.  Neither the bars after the decision  *)
(* nor a later session changes, adds or removes one (minute binding and    *)
(* the valley, peak and ridge formulas).                                   *)
THEOREM PublishedValuesAreFinal == MCSpec => PublishedIsFinal
PROOF
  <1>1. MCInit => PeakInv
    <2>1. MCInit => days = << >>
      BY DEF MCInit, Peaks!Init
    <2> QED
      BY <2>1 DEF PeakInv
  <1>2. PeakInv /\ [MCNext]_mcVars => [Published]_peakVars
    BY PeakNext
  <1> QED
    BY <1>1, <1>2, PeakNext, PTL
    DEF MCSpec, PublishedIsFinal, Peaks!PastIsFinal, Published, peakVars, Peaks!vars

-----------------------------------------------------------------------------
(* The engine: a value needs only the latest of its rows.                  *)

(* The n latest of S, as every part of the engine takes them.              *)
Recent(S, n) == {x \in S : Cardinality({y \in S : y > x}) < n}

(* Only the upper part of R counts when what is below has n above it.      *)
LEMMA RecentPart ==
  ASSUME NEW R \in SUBSET Int, IsFiniteSet(R), NEW S \in SUBSET R, NEW n \in Nat,
         \A x \in S, y \in R : y > x => y \in S,
         \A z \in R \ S : \E T \in SUBSET R : Cardinality(T) >= n /\ \A y \in T : y > z
  PROVE  Recent(S, n) = Recent(R, n)
PROOF
  <1>1. ASSUME NEW x \in S PROVE {y \in S : y > x} = {y \in R : y > x}
    OBVIOUS
  <1>2. ASSUME NEW z \in R \ S PROVE ~(Cardinality({y \in R : y > z}) < n)
    <2>1. PICK T \in SUBSET R : Cardinality(T) >= n /\ \A y \in T : y > z
      OBVIOUS
    <2> DEFINE U == {y \in R : y > z}
    <2>2. T \in SUBSET U /\ U \in SUBSET R
      BY <2>1
    <2> HIDE DEF U
    <2>3. IsFiniteSet(U) /\ Cardinality(T) <= Cardinality(U)
      BY <2>2, FS_Subset
    <2>4. Cardinality(T) \in Nat /\ Cardinality(U) \in Nat
      BY <2>2, <2>3, FS_Subset, FS_CardinalityType
    <2>5. ~(Cardinality(U) < n)
      BY <2>1, <2>3, <2>4
    <2> QED
      BY <2>5 DEF U
  <1> QED
    BY <1>1, <1>2 DEF Recent

LEMMA RecentOf ==
  ASSUME NEW S, NEW n
  PROVE  Engine!Latest(S, n) = Recent(S, n)
  BY DEF Engine!Latest, Recent, Engine!Cardinality, Cardinality

LEMMA IntervalSize ==
  ASSUME NEW a \in Int, NEW b \in Int, a <= b
  PROVE  IsFiniteSet(a .. b) /\ Cardinality(a .. b) = b - a + 1
PROOF
  <1>1. IsFiniteSet(a .. b) /\ Cardinality(a .. b) = IF a > b THEN 0 ELSE b - a + 1
    BY FS_Interval
  <1> QED
    BY <1>1

EngineInv ==
    /\ kind \in {"daily", "bounded", "pooled"} /\ view \in {"close", "decision"}
    /\ rows \in SUBSET (1 .. EngineDays) /\ valid \in SUBSET rows /\ validCut \in SUBSET rows
    /\ floor \in Int /\ 1 <= floor /\ \A b \in rows : floor <= b
    /\ from \in 1 .. EngineDays /\ to \in 1 .. EngineDays
    /\ load \in Int /\ pc \in {"load", "done"}
    /\ pc = "load" => load <= from
    /\ pc = "load" /\ kind # "pooled" => load = from - Buffer
    /\ pc = "done" /\ kind # "pooled" => values = Engine!Emitted(Engine!Greatest(1, from - Buffer))
    /\ pc = "done" /\ kind = "pooled" =>
         /\ values = Engine!Emitted(load)
         /\ load = floor \/ (load <= from /\ Engine!PoolSaturated(load))

LEMMA EngineConstants ==
    /\ EngineDays \in Nat \ {0} /\ Warmup \in Nat \ {0} /\ Baseline \in Nat \ {0}
    /\ Lookback \in Nat \ {0} /\ Chunk \in Nat \ {0} /\ Buffer \in Nat /\ Buffer > Warmup
    /\ Kinds \subseteq {"daily", "bounded", "pooled"}
    /\ IsFiniteSet(1 .. EngineDays)
PROOF
  <1>1. Engine!MaterializeAssumption
    BY InstancesAssumption
  <1>2. EngineDays \in Nat \ {0}
    BY <1>1 DEF Engine!MaterializeAssumption
  <1>3. IsFiniteSet(1 .. EngineDays)
    BY <1>2, IntervalSize
  <1> QED
    BY <1>1, <1>3 DEF Engine!MaterializeAssumption

LEMMA EngineInit == MCInit => EngineInv
PROOF
  <1> SUFFICES ASSUME MCInit PROVE EngineInv
    OBVIOUS
  <1>1. CASE which # "engine"
    <2>1. /\ kind = "daily" /\ view = "close" /\ rows = {} /\ valid = {} /\ validCut = {}
          /\ floor = 1 /\ from = 1 /\ to = 1 /\ load = 1 - Buffer /\ pc = "load"
      BY <1>1 DEF MCInit
    <2> QED
      BY <2>1, EngineConstants DEF EngineInv
  <1>2. CASE which = "engine"
    <2>1. Engine!Init
      BY <1>2 DEF MCInit
    <2>2. /\ kind \in Kinds /\ view \in {"close", "decision"} /\ rows \in SUBSET (1 .. EngineDays)
          /\ valid \in SUBSET rows /\ validCut \in SUBSET rows
          /\ floor \in 1 .. EngineDays /\ \A b \in rows : floor <= b
          /\ from \in 1 .. EngineDays /\ to \in {from, EngineDays} /\ pc = "load"
          /\ load = from - (IF kind = "pooled" THEN Chunk ELSE Buffer)
      BY <2>1 DEF Engine!Init, Engine!Days
    <2> QED
      BY <2>2, EngineConstants DEF EngineInv
  <1> QED
    BY <1>1, <1>2

LEMMA SameEngine ==
  ASSUME UNCHANGED <<kind, view, rows, valid, validCut, floor, from, to>>
  PROVE  \A lo : /\ Engine!Emitted(lo)' = Engine!Emitted(lo)
                 /\ Engine!PoolSaturated(lo)' = Engine!PoolSaturated(lo)
  BY DEF Engine!Emitted, Engine!ValidDays, Engine!Loaded, Engine!Final, Engine!PooledValue,
     Engine!DailyValue, Engine!BoundedValue, Engine!TrimDaily, Engine!Lagged,
     Engine!PoolSaturated

LEMMA EngineStep == EngineInv /\ [MCNext]_mcVars => EngineInv'
PROOF
  <1> SUFFICES ASSUME EngineInv, [MCNext]_mcVars PROVE EngineInv'
    OBVIOUS
  <1>1. CASE Engine!ComputeOnce
    <2>1. /\ pc = "load" /\ kind # "pooled" /\ pc' = "done"
          /\ values' = Engine!Emitted(Engine!Greatest(1, load))
          /\ UNCHANGED <<kind, view, rows, valid, validCut, floor, from, to, load>>
      BY <1>1 DEF Engine!ComputeOnce, Engine!data
    <2>2. load = from - Buffer
      BY <2>1 DEF EngineInv
    <2> QED
      BY <2>1, <2>2, SameEngine DEF EngineInv
  <1>2. CASE Engine!Saturate
    <2>1. /\ pc = "load" /\ kind = "pooled" /\ pc' = "done"
          /\ UNCHANGED <<kind, view, rows, valid, validCut, floor, from, to>>
      BY <1>2 DEF Engine!Saturate, Engine!data
    <2>2. /\ values' = Engine!Emitted(load')
          /\ load' = floor \/ (load' = load /\ Engine!PoolSaturated(load'))
      BY <1>2 DEF Engine!Saturate
    <2>3. /\ values' = Engine!Emitted(load)'
          /\ load' = floor \/ (load' = load /\ Engine!PoolSaturated(load)')
      BY <2>1, <2>2, SameEngine
    <2> QED
      BY <2>1, <2>3 DEF EngineInv
  <1>3. CASE Engine!Expand
    <2>1. /\ pc = "load" /\ kind = "pooled" /\ load' = load - Chunk
          /\ UNCHANGED <<kind, view, rows, valid, validCut, floor, from, to, values, pc>>
      BY <1>3 DEF Engine!Expand, Engine!data
    <2> QED
      BY <2>1, EngineConstants DEF EngineInv
  <1>4. CASE UNCHANGED engineVars
    <2>1. UNCHANGED <<kind, view, rows, valid, validCut, floor, from, to, load, values, pc>>
      BY <1>4 DEF engineVars
    <2> QED
      BY <2>1, SameEngine DEF EngineInv
  <1> QED
    BY <1>1, <1>2, <1>3, <1>4 DEF MCNext, mcVars, Engine!Next

(* What is loaded of a pooled factor decides the values of the window.     *)
LEMMA PooledAgrees ==
  ASSUME EngineInv, pc = "done", kind = "pooled"
  PROVE  Engine!PooledSingleIsBatch
PROOF
  <1> DEFINE A(d) == {y \in Engine!ValidDays(load) : y <= d}
             B(d) == {y \in Engine!ValidDays(1) : y <= d}
  <1>1. /\ values = Engine!Emitted(load)
        /\ load = floor \/ (load <= from /\ Engine!PoolSaturated(load))
        /\ load \in Int /\ from \in Nat /\ to \in Nat /\ from >= 1 /\ to <= EngineDays
        /\ rows \in SUBSET (1 .. EngineDays) /\ valid \in SUBSET rows
        /\ \A b \in rows : floor <= b
        /\ EngineDays \in Nat
    BY EngineConstants DEF EngineInv
  <1>2. \A x : Engine!Final(x, 1)
    BY <1>1 DEF Engine!Final
  <1>3. Engine!Loaded(1) = rows
    BY <1>1 DEF Engine!Loaded
  <1>4. Engine!ValidDays(1) = valid
    BY <1>1, <1>2, <1>3 DEF Engine!ValidDays
  <1>5. /\ \A d \in Engine!ValidDays(load) \cap (from .. to) : d \in valid
        /\ \A d \in valid \cap (from .. to) : d \in Engine!ValidDays(load)
        /\ \A d \in valid \cap (from .. to) :
             /\ Engine!Latest(A(d), Lookback) = Engine!Latest(B(d), Lookback)
             /\ \A x \in Engine!Latest(A(d), Lookback) : Engine!Final(x, load)
    <2>1. CASE load = floor
      <3>1. \A x : Engine!Final(x, load)
        BY <1>1, <2>1 DEF Engine!Final
      <3>2. \A x \in rows : x \in load .. EngineDays
        BY <1>1, <2>1
      <3>3. Engine!Loaded(load) = rows
        BY <3>2 DEF Engine!Loaded
      <3>4. Engine!ValidDays(load) = valid
        BY <1>1, <3>1, <3>3 DEF Engine!ValidDays
      <3> QED
        BY <1>4, <3>1, <3>4
    <2>2. CASE load <= from /\ Engine!PoolSaturated(load)
      <3> DEFINE deep(x) == Cardinality({y \in Engine!Loaded(load) : y < x}) >= Baseline
                 L == {x \in Engine!ValidDays(load) : x <= from /\ deep(x)}
      <3>1. Cardinality(L) >= Lookback
        BY <2>2 DEF Engine!PoolSaturated, Engine!Cardinality, Cardinality
      <3>2. /\ Engine!Loaded(load) \in SUBSET rows /\ IsFiniteSet(rows)
            /\ \A x \in rows : x \in Nat /\ x <= EngineDays
            /\ \A x \in rows : x >= load => x \in Engine!Loaded(load)
        <4>1. \A x \in rows : x \in Nat /\ x <= EngineDays
          BY <1>1
        <4>2. \A x \in rows : x >= load => x \in load .. EngineDays
          BY <1>1, <4>1
        <4>3. IsFiniteSet(rows)
          BY <1>1, EngineConstants, FS_Subset
        <4> QED
          BY <4>1, <4>2, <4>3 DEF Engine!Loaded
      <3>3. \A x : deep(x) => Engine!Final(x, load)
        BY DEF Engine!Final, Engine!Cardinality, Cardinality
      <3>4. ASSUME NEW x \in rows, NEW y \in rows, deep(x), x <= y PROVE deep(y)
        <4> DEFINE X == {z \in Engine!Loaded(load) : z < x}
                   Y == {z \in Engine!Loaded(load) : z < y}
        <4>1. X \in SUBSET Y /\ Y \in SUBSET rows
          BY <3>2, <3>4
        <4> HIDE DEF X, Y
        <4>2. Cardinality(X) <= Cardinality(Y) /\ Cardinality(X) \in Nat /\ Cardinality(Y) \in Nat
          BY <3>2, <4>1, FS_Subset, FS_CardinalityType
        <4>3. Cardinality(X) >= Baseline
          BY <3>4 DEF X
        <4>4. Cardinality(Y) >= Baseline
          BY <4>2, <4>3, EngineConstants
        <4> QED
          BY <4>4 DEF Y
      <3>5. Engine!ValidDays(load) \in SUBSET Engine!Loaded(load) /\ L \in SUBSET rows
        BY <3>2 DEF Engine!ValidDays
      <3> HIDE DEF deep
      <3>6. ASSUME NEW x \in Engine!Loaded(load), deep(x)
            PROVE  x \in Engine!ValidDays(load) <=> x \in valid
        BY <3>3, <3>6 DEF Engine!ValidDays
      <3>7. \A x \in L : x \in valid /\ deep(x) /\ x <= from /\ x \in Engine!ValidDays(load)
        BY <3>5, <3>6
      <3>8. PICK l \in L : TRUE
        <4>1. Cardinality({}) = 0
          BY FS_EmptySet
        <4>2. ASSUME L = {} PROVE FALSE
          <5> HIDE DEF L
          <5>1. Cardinality(L) = 0
            BY <4>1, <4>2
          <5> QED
            BY <3>1, <5>1, EngineConstants
        <4> QED
          BY <4>2
      <3> HIDE DEF L
      <3>9. ASSUME NEW d \in rows, d >= from PROVE deep(d) /\ d \in Engine!Loaded(load)
        <4>1. l \in rows /\ l <= from /\ deep(l)
          BY <3>5, <3>7, <3>8
        <4>2. l <= d /\ d >= load
          BY <1>1, <2>2, <3>2, <3>9, <4>1
        <4> QED
          BY <3>2, <3>4, <4>1, <4>2
      <3>10. ASSUME NEW d \in valid, d >= from
             PROVE  /\ Engine!Latest(A(d), Lookback) = Engine!Latest(B(d), Lookback)
                    /\ \A x \in Engine!Latest(A(d), Lookback) : Engine!Final(x, load)
        <4> DEFINE S == {y \in A(d) : deep(y)}
        <4>1. /\ A(d) \in SUBSET rows /\ B(d) \in SUBSET rows
              /\ S \in SUBSET A(d) /\ S \in SUBSET B(d)
          BY <1>1, <1>4, <3>2, <3>5, <3>6
        <4>2. A(d) \in SUBSET Int /\ B(d) \in SUBSET Int /\ IsFiniteSet(A(d)) /\ IsFiniteSet(B(d))
          BY <3>2, <4>1, FS_Subset
        <4>3. L \in SUBSET S
          <5> SUFFICES ASSUME NEW x \in L PROVE x \in S
            OBVIOUS
          <5>1. x \in Nat /\ x <= from /\ d \in Nat /\ d >= from
            BY <1>1, <3>2, <3>5, <3>7, <3>10
          <5> QED
            BY <1>1, <3>7, <5>1
        <4>4. ASSUME NEW z \in rows, ~deep(z) PROVE \A y \in L : y > z
          <5> SUFFICES ASSUME NEW y \in L, ~(y > z) PROVE FALSE
            OBVIOUS
          <5>1. y \in rows /\ y \in Nat /\ z \in Nat /\ deep(y)
            BY <3>2, <3>5, <3>7
          <5> QED
            BY <3>4, <4>4, <5>1
        <4>5. ASSUME NEW x \in S, NEW y \in rows, y > x
              PROVE  deep(y) /\ y \in Engine!Loaded(load)
          <5>1. x \in rows /\ deep(x) /\ x \in Engine!Loaded(load)
            BY <3>5, <4>1
          <5>2. x <= y /\ y >= load
            BY <1>1, <3>2, <4>5, <5>1 DEF Engine!Loaded
          <5> QED
            BY <3>2, <3>4, <5>1, <5>2
        <4>6. \A x \in S, y \in A(d) : y > x => y \in S
          BY <4>1, <4>5
        <4>7. \A x \in S, y \in B(d) : y > x => y \in S
          BY <1>4, <3>6, <4>1, <4>5
        <4>8. ASSUME NEW z \in A(d) \ S
              PROVE  \E T \in SUBSET A(d) : Cardinality(T) >= Lookback /\ \A y \in T : y > z
          BY <3>1, <4>1, <4>3, <4>4
        <4>9. ASSUME NEW z \in B(d) \ S
              PROVE  \E T \in SUBSET B(d) : Cardinality(T) >= Lookback /\ \A y \in T : y > z
          <5>1. z \in rows /\ ~deep(z)
            <6> SUFFICES ASSUME deep(z) PROVE FALSE
              BY <4>1
            <6>1. z \in rows /\ z \in valid /\ z <= d
              BY <1>4, <4>1
            <6>2. z \in Engine!Loaded(load)
              <7>1. Cardinality({y \in Engine!Loaded(load) : y < z}) # 0
                BY EngineConstants DEF deep
              <7>2. {y \in Engine!Loaded(load) : y < z} # {}
                BY <7>1, FS_EmptySet
              <7>3. PICK y \in Engine!Loaded(load) : y < z
                BY <7>2
              <7> QED
                BY <1>1, <3>2, <6>1, <7>3 DEF Engine!Loaded
            <6> QED
              BY <3>6, <6>1, <6>2
          <5> QED
            BY <3>1, <4>1, <4>3, <4>4, <5>1
        <4> HIDE DEF A, B
        <4>10. Recent(S, Lookback) = Recent(A(d), Lookback)
          BY <4>1, <4>2, <4>6, <4>8, RecentPart, EngineConstants
        <4>11. Recent(S, Lookback) = Recent(B(d), Lookback)
          BY <4>1, <4>2, <4>7, <4>9, RecentPart, EngineConstants
        <4>12. Recent(S, Lookback) \in SUBSET S
          BY DEF Recent
        <4> QED
          BY <3>3, <4>10, <4>11, <4>12, RecentOf
      <3>11. ASSUME NEW d \in Engine!ValidDays(load) \cap (from .. to) PROVE d \in valid
        <4>1. d \in rows /\ d >= from
          BY <1>1, <3>2, <3>5
        <4> QED
          BY <3>6, <3>9, <4>1
      <3>12. ASSUME NEW d \in valid \cap (from .. to) PROVE d \in Engine!ValidDays(load)
        <4>1. d \in rows /\ d >= from
          BY <1>1
        <4> QED
          BY <3>6, <3>9, <4>1
      <3>13. \A d \in valid \cap (from .. to) : d >= from
        BY <1>1
      <3> HIDE DEF A, B
      <3> QED
        BY <3>10, <3>11, <3>12, <3>13
    <2> QED
      BY <1>1, <2>1, <2>2
  <1>6. DOMAIN values = valid \cap (from .. to)
    BY <1>1, <1>5 DEF Engine!Emitted
  <1>7. ASSUME NEW d \in DOMAIN values PROVE values[d] = Engine!WholeHistory(d)
    <2>1. d \in Engine!ValidDays(load) \cap (from .. to) /\ d \in valid \cap (from .. to)
      BY <1>1, <1>5, <1>6 DEF Engine!Emitted
    <2>2. values[d] = Engine!PooledValue(d, load)
      BY <1>1, <2>1 DEF Engine!Emitted
    <2>3. Engine!PooledValue(d, load) = {<<x, TRUE>> : x \in Engine!Latest(A(d), Lookback)}
      <3>1. \A x \in Engine!Latest(A(d), Lookback) : Engine!Final(x, load) = TRUE
        BY <1>5, <2>1 DEF Engine!Final
      <3> QED
        BY <3>1 DEF Engine!PooledValue
    <2>4. Engine!PooledValue(d, 1) = {<<x, TRUE>> : x \in Engine!Latest(B(d), Lookback)}
      <3>1. \A x : Engine!Final(x, 1) = TRUE
        BY <1>2 DEF Engine!Final
      <3> QED
        BY <3>1 DEF Engine!PooledValue
    <2> QED
      BY <1>5, <2>1, <2>2, <2>3, <2>4 DEF Engine!WholeHistory
  <1> QED
    BY <1>6, <1>7 DEF Engine!PooledSingleIsBatch

LEMMA SeesOnlyThePast ==
  ASSUME EngineInv
  PROVE  Engine!SeesThePast
PROOF
  <1> SUFFICES ASSUME kind = "daily", pc = "done", NEW d \in DOMAIN values, values[d] # Engine!NaN,
                      NEW x \in values[d]
               PROVE  IF view = "close" THEN x <= d ELSE x < d
    BY DEF Engine!SeesThePast
  <1> DEFINE lo == Engine!Greatest(1, from - Buffer)
             seen == Engine!Latest(rows \cap (Engine!TrimDaily(from, lo) .. d), Warmup)
  <1>1. values = Engine!Emitted(lo) /\ rows \in SUBSET (1 .. EngineDays)
    BY DEF EngineInv
  <1>2. /\ values = [e \in rows \cap (from .. to) |-> Engine!DailyValue(e, from, lo)]
    BY <1>1 DEF Engine!Emitted
  <1>3. d \in rows \cap (from .. to) /\ values[d] = Engine!DailyValue(d, from, lo)
    BY <1>2
  <1>4. values[d] = UNION {Engine!Lagged(y, lo) : y \in seen}
    BY <1>3 DEF Engine!DailyValue
  <1>5. PICK y \in seen : x \in Engine!Lagged(y, lo)
    BY <1>4
  <1>6. y \in rows /\ y <= d /\ y \in Int /\ d \in Int
    BY <1>1, <1>3, <1>5, EngineConstants DEF Engine!Latest
  <1>7. view # "close" => x \in lo .. (y - 1)
    BY <1>5 DEF Engine!Lagged, Engine!Latest
  <1>8. view # "close" => x \in Int /\ x <= y - 1
    BY <1>7
  <1>9. view = "close" => x = y
    BY <1>5 DEF Engine!Lagged
  <1> QED
    BY <1>6, <1>8, <1>9

(* Days of an unbroken listing, more than n of them, after a day before them. *)
LEMMA Crowded ==
  ASSUME NEW R \in SUBSET Nat, \A x, y \in R : x .. y \subseteq R,
         NEW z \in R, NEW d \in R, NEW a \in Nat, z < a, a <= d, NEW n \in Nat, d - a + 1 >= n
  PROVE  /\ a .. d \in SUBSET R /\ Cardinality(a .. d) >= n
         /\ \A y \in a .. d : y > z
PROOF
  <1>1. \A y \in a .. d : y \in z .. d
    OBVIOUS
  <1>2. Cardinality(a .. d) = d - a + 1
    BY IntervalSize
  <1> QED
    BY <1>1, <1>2

(* The trims leave what a value needs.                                     *)
LEMMA Trims ==
  ASSUME EngineInv, NEW lo, lo = Engine!Greatest(1, from - Buffer)
  PROVE  /\ lo \in Nat /\ 1 <= lo /\ lo <= from
         /\ lo > 1 => from - lo > Warmup
         /\ Engine!TrimDaily(from, lo) \in Nat /\ lo <= Engine!TrimDaily(from, lo)
         /\ Engine!TrimDaily(from, lo) <= from
         /\ lo > 1 => lo < Engine!TrimDaily(from, lo)
         /\ Engine!TrimDaily(from, lo) > 1 => from - Engine!TrimDaily(from, lo) >= Warmup
         /\ Engine!TrimDaily(1, 1) = 1 /\ Engine!Greatest(1, 1 - Buffer) = 1
  BY EngineConstants DEF EngineInv, Engine!Greatest, Engine!TrimDaily

LEMMA RecentRows ==
  ASSUME NEW R \in SUBSET (1 .. EngineDays), \A x, y \in R : x .. y \subseteq R,
         NEW d \in R, NEW a \in Nat, 1 <= a, a <= d, NEW n \in Nat, a > 1 => d - a >= n
  PROVE  Recent(R \cap (a .. d), n) = Recent(R \cap (1 .. d), n)
PROOF
  <1> DEFINE S == R \cap (a .. d)
             W == R \cap (1 .. d)
  <1>1. /\ R \in SUBSET Nat /\ d \in Nat /\ \A x \in R : 1 <= x
    BY EngineConstants
  <1>2. /\ W \in SUBSET Int /\ S \in SUBSET W /\ IsFiniteSet(W)
    <2>1. W \in SUBSET (1 .. EngineDays)
      OBVIOUS
    <2> QED
      BY <1>1, <2>1, FS_Subset, EngineConstants
  <1>3. \A x \in S, y \in W : y > x => y \in S
    BY <1>1
  <1>4. ASSUME NEW z \in W \ S
        PROVE  \E T \in SUBSET W : Cardinality(T) >= n /\ \A y \in T : y > z
    <2>1. z \in R /\ z < a /\ z \in Nat /\ a > 1
      BY <1>1, <1>4
    <2>2. d - a + 1 >= n
      BY <1>1, <2>1
    <2>3. /\ a .. d \in SUBSET R /\ Cardinality(a .. d) >= n
          /\ \A y \in a .. d : y > z
      BY <1>1, <2>1, <2>2, Crowded
    <2>4. a .. d \in SUBSET W
      BY <1>1, <2>3
    <2> QED
      BY <2>3, <2>4
  <1> HIDE DEF S, W
  <1>5. Recent(S, n) = Recent(W, n)
    BY <1>2, <1>3, <1>4, RecentPart
  <1> QED
    BY <1>5 DEF S, W

LEMMA DailyAgrees ==
  ASSUME EngineInv, Engine!Continuous, NEW lo, lo = Engine!Greatest(1, from - Buffer),
         NEW d \in rows, d >= from
  PROVE  Engine!DailyValue(d, from, lo) = Engine!DailyValue(d, 1, 1)
PROOF
  <1> DEFINE a == Engine!TrimDaily(from, lo)
             R == Engine!Latest(rows \cap (a .. d), Warmup)
  <1>1. /\ lo \in Nat /\ 1 <= lo /\ a \in Nat /\ lo <= a /\ a <= from /\ (lo > 1 => lo < a)
        /\ a > 1 => from - a >= Warmup
        /\ Engine!TrimDaily(1, 1) = 1
    BY Trims
  <1>2. /\ rows \in SUBSET (1 .. EngineDays) /\ from \in Nat /\ EngineDays \in Nat
        /\ \A x, y \in rows : x .. y \subseteq rows
    BY EngineConstants DEF EngineInv, Engine!Continuous
  <1>3. d \in Nat /\ \A x \in rows : x \in Nat /\ 1 <= x
    BY <1>2
  <1> HIDE DEF a
  <1>4. 1 <= a /\ a <= d /\ (a > 1 => d - a >= Warmup) /\ Warmup \in Nat
    BY <1>1, <1>2, <1>3, EngineConstants
  <1>5. Recent(rows \cap (a .. d), Warmup) = Recent(rows \cap (1 .. d), Warmup)
    BY <1>1, <1>2, <1>4, RecentRows
  <1>6. R = Engine!Latest(rows \cap (1 .. d), Warmup)
    BY <1>5, RecentOf
  <1>7. ASSUME NEW x \in R PROVE Engine!Lagged(x, lo) = Engine!Lagged(x, 1)
    <2>1. x \in rows /\ x \in a .. d
      BY DEF Engine!Latest
    <2>2. x \in Nat /\ a <= x /\ 1 <= x
      BY <1>1, <1>4, <2>1
    <2>3. CASE lo = 1
      BY <2>3
    <2>4. CASE lo > 1
      <3> DEFINE S == rows \cap (lo .. (x - 1))
                 W == rows \cap (1 .. (x - 1))
      <3>1. /\ W \in SUBSET Int /\ S \in SUBSET W /\ IsFiniteSet(W)
        <4>1. W \in SUBSET (1 .. EngineDays)
          BY <1>2
        <4>2. S \in SUBSET W
          BY <1>1, <1>3, <2>2
        <4> QED
          BY <1>3, <4>1, <4>2, FS_Subset, EngineConstants
      <3>2. \A z \in S, y \in W : y > z => y \in S
        BY <1>1, <1>3, <2>2
      <3>3. ASSUME NEW z \in W \ S
            PROVE  \E T \in SUBSET W : Cardinality(T) >= 1 /\ \A y \in T : y > z
        <4>1. z \in rows /\ z \in Nat /\ z < lo /\ lo <= x - 1 /\ x - 1 \in Nat
          BY <1>1, <1>3, <2>2, <2>4, <3>3
        <4>2. x - 1 \in z .. x
          BY <2>2, <4>1
        <4>3. x - 1 \in rows /\ x - 1 \in W
          <5>1. x - 1 \in rows
            BY <1>2, <2>1, <4>1, <4>2
          <5>2. 1 <= x - 1 /\ x - 1 <= x - 1
            BY <1>3, <4>1, <5>1
          <5> QED
            BY <4>1, <5>1, <5>2
        <4>4. Cardinality({x - 1}) = 1
          BY FS_Singleton
        <4>5. {x - 1} \in SUBSET W /\ x - 1 > z
          BY <4>1, <4>3
        <4> QED
          BY <4>4, <4>5
      <3> HIDE DEF S, W
      <3>4. Recent(S, 1) = Recent(W, 1)
        BY <3>1, <3>2, <3>3, RecentPart
      <3>5. Engine!Latest(S, 1) = Engine!Latest(W, 1)
        BY <3>4, RecentOf
      <3> QED
        BY <3>5 DEF S, W, Engine!Lagged
    <2> QED
      BY <1>1, <2>3, <2>4
  <1> HIDE DEF R
  <1>8. /\ Engine!DailyValue(d, from, lo)
             = IF Engine!Cardinality(R) < Warmup \/ \E x \in R : Engine!Lagged(x, lo) = {}
               THEN Engine!NaN ELSE UNION {Engine!Lagged(x, lo) : x \in R}
        /\ Engine!DailyValue(d, 1, 1)
             = IF Engine!Cardinality(R) < Warmup \/ \E x \in R : Engine!Lagged(x, 1) = {}
               THEN Engine!NaN ELSE UNION {Engine!Lagged(x, 1) : x \in R}
    <2>1. R = Engine!Latest(rows \cap (Engine!TrimDaily(from, lo) .. d), Warmup)
      BY DEF R, a
    <2>2. R = Engine!Latest(rows \cap (Engine!TrimDaily(1, 1) .. d), Warmup)
      BY <1>1, <1>6
    <2> QED
      BY <2>1, <2>2 DEF Engine!DailyValue
  <1>9. {Engine!Lagged(x, lo) : x \in R} = {Engine!Lagged(x, 1) : x \in R}
    BY <1>7
  <1> QED
    BY <1>7, <1>8, <1>9

LEMMA BoundedAgrees ==
  ASSUME EngineInv, Engine!Continuous, NEW lo, lo = Engine!Greatest(1, from - Buffer),
         NEW d \in rows, d >= from
  PROVE  Engine!BoundedValue(d, from, lo) = Engine!BoundedValue(d, 1, 1)
PROOF
  <1> DEFINE P == rows \cap (lo .. (from - 1))
             before == Recent(P, Warmup)
             S == before \cup (rows \cap (from .. d))
             W == rows \cap (1 .. d)
  <1>1. /\ lo \in Nat /\ 1 <= lo /\ lo <= from /\ (lo > 1 => from - lo > Warmup)
    BY Trims
  <1>2. /\ rows \in SUBSET (1 .. EngineDays) /\ from \in Nat /\ EngineDays \in Nat
        /\ \A x, y \in rows : x .. y \subseteq rows
    BY EngineConstants DEF EngineInv, Engine!Continuous
  <1>3. d \in Nat /\ \A x \in rows : x \in Nat /\ 1 <= x
    BY <1>2
  <1>4. before \in SUBSET P /\ P \in SUBSET W /\ S \in SUBSET W /\ W \in SUBSET Int
    <2>1. before \in SUBSET P
      BY DEF Recent
    <2>2. P \in SUBSET W
      BY <1>1, <1>2, <1>3
    <2>3. rows \cap (from .. d) \in SUBSET W
      BY <1>2, <1>3
    <2> QED
      BY <1>3, <2>1, <2>2, <2>3
  <1>5. IsFiniteSet(W) /\ IsFiniteSet(P)
    <2>1. W \in SUBSET (1 .. EngineDays)
      BY <1>2
    <2> QED
      BY <1>4, <2>1, FS_Subset, EngineConstants
  <1>6. Warmup \in Nat
    BY EngineConstants
  <1>7. ASSUME NEW x \in S, NEW y \in W, y > x PROVE y \in S
    <2>1. CASE y >= from
      BY <1>2, <1>3, <1>4, <2>1
    <2>2. CASE y < from
      <3>1. x \in before /\ x \in P
        <4>1. x \in Nat /\ y \in Nat /\ x < from
          BY <1>2, <1>3, <1>4, <1>7, <2>2
        <4>2. x \notin from .. d
          BY <1>2, <1>3, <4>1
        <4> QED
          BY <1>4, <4>2
      <3>2. y \in P
        BY <1>1, <1>2, <1>3, <1>7, <2>2, <3>1
      <3> DEFINE X == {u \in P : u > x}
                 Y == {u \in P : u > y}
      <3>3. Y \in SUBSET X /\ X \in SUBSET P /\ Cardinality(X) < Warmup
        BY <1>3, <1>7, <3>1, <3>2 DEF Recent
      <3> HIDE DEF X, Y
      <3>4. Cardinality(Y) <= Cardinality(X) /\ Cardinality(X) \in Nat /\ Cardinality(Y) \in Nat
        BY <1>5, <3>3, FS_Subset, FS_CardinalityType
      <3>5. Cardinality(Y) < Warmup
        BY <1>6, <3>3, <3>4
      <3> QED
        BY <3>2, <3>5 DEF Recent, Y
    <2> QED
      BY <1>2, <1>3, <2>1, <2>2
  <1>8. ASSUME NEW z \in W \ S
        PROVE  \E T \in SUBSET W : Cardinality(T) >= Warmup /\ \A y \in T : y > z
    <2>1. z \in rows /\ z < from /\ z \in Nat
      BY <1>2, <1>3, <1>8
    <2>2. CASE z \in P
      <3>1. ~(Cardinality({u \in P : u > z}) < Warmup)
        BY <1>8, <2>2 DEF Recent
      <3> DEFINE T == {u \in P : u > z}
      <3>2. T \in SUBSET P /\ Cardinality(T) \in Nat
        BY <1>5, FS_Subset, FS_CardinalityType
      <3>3. T \in SUBSET W /\ \A y \in T : y > z
        BY <1>4, <3>2
      <3> HIDE DEF T
      <3>4. Cardinality(T) >= Warmup
        BY <1>6, <3>1, <3>2 DEF T
      <3> QED
        BY <3>3, <3>4
    <2>3. CASE z \notin P
      <3>1. z < lo /\ lo > 1
        BY <1>1, <1>2, <1>3, <2>1, <2>3
      <3>2. lo <= d /\ d - lo + 1 >= Warmup
        BY <1>1, <1>2, <1>3, <1>6, <3>1
      <3> rows \in SUBSET Nat
        BY <1>3
      <3>3. /\ lo .. d \in SUBSET rows /\ Cardinality(lo .. d) >= Warmup
            /\ \A y \in lo .. d : y > z
        <4>1. \A x, y \in rows : x .. y \subseteq rows
          BY <1>2
        <4> QED
          BY <1>1, <1>6, <2>1, <3>1, <3>2, <4>1, Crowded
      <3>4. lo .. d \in SUBSET W
        BY <1>1, <1>3, <3>3
      <3> QED
        BY <3>3, <3>4
    <2> QED
      BY <2>2, <2>3
  <1> HIDE DEF S, W, before, P
  <1>9. Recent(S, Warmup) = Recent(W, Warmup)
    BY <1>4, <1>5, <1>6, <1>7, <1>8, RecentPart
  <1>10. Engine!Latest(P, Warmup) \cup (rows \cap (from .. d)) = S
    BY RecentOf DEF S, before
  <1>11. Engine!Latest(rows \cap (1 .. (1 - 1)), Warmup) \cup (rows \cap (1 .. d)) = W
    <2>1. 1 .. (1 - 1) = {}
      OBVIOUS
    <2>2. Engine!Latest({}, Warmup) = {}
      BY DEF Engine!Latest
    <2>3. rows \cap (1 .. (1 - 1)) = {}
      BY <2>1
    <2> QED
      BY <2>2, <2>3 DEF W
  <1>12. Engine!Latest(S, Warmup) = Engine!Latest(W, Warmup)
    BY <1>9, RecentOf
  <1>13. /\ Engine!BoundedValue(d, from, lo)
              = IF Engine!Cardinality(Engine!Latest(S, Warmup)) < Warmup THEN Engine!NaN
                ELSE Engine!Latest(S, Warmup)
         /\ Engine!BoundedValue(d, 1, 1)
              = IF Engine!Cardinality(Engine!Latest(W, Warmup)) < Warmup THEN Engine!NaN
                ELSE Engine!Latest(W, Warmup)
    BY <1>10, <1>11 DEF Engine!BoundedValue, P
  <1> QED
    BY <1>12, <1>13

LEMMA TrimmedAgrees ==
  ASSUME EngineInv
  PROVE  Engine!TrimmedSingleIsBatch
PROOF
  <1> SUFFICES ASSUME pc = "done", kind # "pooled", Engine!Continuous, NEW d \in DOMAIN values
               PROVE  values[d] = Engine!WholeHistory(d)
    BY DEF Engine!TrimmedSingleIsBatch
  <1> DEFINE lo == Engine!Greatest(1, from - Buffer)
  <1>1. /\ values = [e \in rows \cap (from .. to) |->
                       IF kind = "daily" THEN Engine!DailyValue(e, from, lo)
                                         ELSE Engine!BoundedValue(e, from, lo)]
        /\ kind \in {"daily", "bounded"}
    BY DEF EngineInv, Engine!Emitted
  <1> HIDE DEF lo
  <1>2. d \in rows /\ d \in from .. to
    BY <1>1
  <1>3. from \in Nat
    BY EngineConstants DEF EngineInv
  <1>4. d >= from
    BY <1>2, <1>3
  <1>5. CASE kind = "daily"
    BY <1>1, <1>2, <1>4, <1>5, DailyAgrees DEF lo, Engine!WholeHistory
  <1>6. CASE kind = "bounded"
    BY <1>1, <1>2, <1>4, <1>6, BoundedAgrees DEF lo, Engine!WholeHistory
  <1> QED
    BY <1>1, <1>5, <1>6

(* For any calendar of rows, any suspensions and any loading step: a date  *)
(* computed alone has the value the batch over the whole history gives it, *)
(* pooled factors through any suspension and trimmed ones for a symbol     *)
(* that was never suspended, and no value sees a row its view may not      *)
(* (materialize: materialize_range, _trim_daily, _pooled_pool_saturated).  *)
THEOREM SingleDatesAreBatches == MCSpec => []DatesAgree
PROOF
  <1>1. EngineInv => DatesAgree
    <2>1. EngineInv => Engine!PooledSingleIsBatch
      BY PooledAgrees DEF Engine!PooledSingleIsBatch
    <2> QED
      BY <2>1, TrimmedAgrees, SeesOnlyThePast DEF DatesAgree
  <1> QED
    BY <1>1, EngineInit, EngineStep, PTL DEF MCSpec

-----------------------------------------------------------------------------
(* Minute bars: what was visible at the decision decides the factors.      *)

LEMMA BarConstants ==
    /\ BarMinutes \in SUBSET (0 .. LastBar) /\ BarMinutes \in SUBSET Nat /\ LastBar \in Nat
    /\ BarCutoff \in Nat /\ BarGrid \in Nat \ {0} /\ BarLag \in Nat
    /\ BarLookback \in Nat \ {0}
    /\ \A h \in Histories : Len(h) \in Nat /\ DOMAIN h = 1 .. Len(h)
PROOF
  <1>1. Pools!BarsAssumption
    BY InstancesAssumption
  <1>2. /\ LastBar \in Nat /\ BarMinutes \subseteq 1 .. LastBar /\ BarCutoff \in 1 .. LastBar
        /\ BarGrid \in Nat \ {0} /\ BarLag \in Nat /\ BarLookback \in Nat \ {0}
    BY <1>1 DEF Pools!BarsAssumption
  <1>3. \A h \in Histories : Len(h) \in Nat /\ DOMAIN h = 1 .. Len(h)
    BY <1>1 DEF Pools!BarsAssumption
  <1> QED
    BY <1>2, <1>3

LEMMA LastBarOf ==
  ASSUME NEW S \in SUBSET BarMinutes, S # {}
  PROVE  /\ Pools!Max(S) \in S /\ \A t \in S : t <= Pools!Max(S)
         /\ Pools!Min(S) \in S
PROOF
  <1>1. S \in SUBSET (0 .. LastBar) /\ LastBar \in Nat /\ S \in SUBSET Nat
    BY BarConstants
  <1>2. /\ \E x \in S : \A y \in S : x >= y
        /\ \E x \in S : \A y \in S : x <= y
    BY <1>1, Extremes
  <1>3. Pools!Max(S) \in S /\ \A t \in S : Pools!Max(S) >= t
    BY <1>2 DEF Pools!Max
  <1>4. Pools!Min(S) \in S
    BY <1>2 DEF Pools!Min
  <1> QED
    BY <1>1, <1>3, <1>4

(* What is computed of single bars depends on those of the decision.       *)
LEMMA SameSession ==
  ASSUME NEW d, NEW e, NEW V, Pools!Visible(d) = V, Pools!Visible(e) = V, SameBars(d, e, V)
  PROVE  /\ Pools!IdealBars(d) = Pools!IdealBars(e)
         /\ Pools!JumpBars(d) = Pools!JumpBars(e)
         /\ Pools!JumpPairs(d) = Pools!JumpPairs(e)
         /\ Pools!CutBars(d) = Pools!CutBars(e)
         /\ V # {} => Pools!SessionReturn(d) = Pools!SessionReturn(e)
         /\ Pools!LastReturn(d) = Pools!LastReturn(e)
         /\ Pools!SessionVwap(d) = Pools!SessionVwap(e)
         /\ Pools!Pressure(d) = Pools!Pressure(e)
PROOF
  <1>1. V \in SUBSET BarMinutes /\ \A t \in V : d[t] = e[t]
    BY DEF Pools!Visible, SameBars
  <1>2. ASSUME NEW t \in V PROVE Pools!Amp(d[t]) = Pools!Amp(e[t])
    BY <1>1 DEF Pools!Amp
  <1> DEFINE kept == Pools!Guarded(d, V)
  <1>3. kept = Pools!Guarded(e, V) /\ kept \in SUBSET V
    BY <1>1 DEF Pools!Guarded
  <1> HIDE DEF kept
  <1>4. Pools!IdealBars(d) = Pools!IdealBars(e)
    BY <1>1, <1>2, <1>3 DEF Pools!IdealBars, kept
  <1> DEFINE jumps == Pools!JumpBars(d)
  <1>5. jumps = Pools!JumpBars(e) /\ jumps \in SUBSET V
    BY <1>1 DEF Pools!JumpBars
  <1> HIDE DEF jumps
  <1>6. Pools!JumpPairs(d) = Pools!JumpPairs(e)
    <2> DEFINE amps == [v \in jumps |-> Pools!Amp(d[v])]
               T == {u \in jumps : u + 1 \in jumps /\ Pools!Exceeds(Pools!Amp(d[u]), amps)}
    <2>1. amps = [v \in jumps |-> Pools!Amp(e[v])]
      BY <1>2, <1>5
    <2>2. Pools!JumpPairs(d) = {<<t, d[t].amt, d[t + 1].amt>> : t \in T}
      BY DEF Pools!JumpPairs, jumps
    <2> HIDE DEF amps
    <2>3. T = {u \in jumps : u + 1 \in jumps /\ Pools!Exceeds(Pools!Amp(e[u]), amps)}
      BY <1>2, <1>5
    <2> HIDE DEF T
    <2>4. Pools!JumpPairs(e) = {<<t, e[t].amt, e[t + 1].amt>> : t \in T}
      BY <1>5, <2>1, <2>3 DEF Pools!JumpPairs
    <2>5. \A t \in T : t \in V /\ t + 1 \in V
      BY <1>5 DEF T
    <2>6. \A t \in T : d[t] = e[t] /\ d[t + 1] = e[t + 1]
      BY <1>1, <2>5
    <2> QED
      BY <2>2, <2>4, <2>6
  <1>7. Pools!CutBars(d) = Pools!CutBars(e)
    <2> DEFINE T == {u \in kept : Pools!Before(kept, u) # {}}
    <2>1. /\ Pools!CutBars(d) = {<<t, d[t].close, d[Pools!Max(Pools!Before(kept, t))].close,
                                   Pools!Amp(d[t])>> : t \in T}
          /\ Pools!CutBars(e) = {<<t, e[t].close, e[Pools!Max(Pools!Before(kept, t))].close,
                                   Pools!Amp(e[t])>> : t \in T}
      BY <1>3 DEF Pools!CutBars, kept
    <2>2. \A t \in T : Pools!Max(Pools!Before(kept, t)) \in V /\ t \in V
      BY <1>1, <1>3, LastBarOf DEF Pools!Before
    <2> HIDE DEF T
    <2>3. \A t \in T : /\ d[t] = e[t] /\ Pools!Amp(d[t]) = Pools!Amp(e[t])
                       /\ d[Pools!Max(Pools!Before(kept, t))] = e[Pools!Max(Pools!Before(kept, t))]
      BY <1>1, <1>2, <2>2
    <2> QED
      BY <2>1, <2>3
  <1>8. V # {} => Pools!SessionReturn(d) = Pools!SessionReturn(e)
    <2> SUFFICES ASSUME V # {} PROVE Pools!SessionReturn(d) = Pools!SessionReturn(e)
      OBVIOUS
    <2>1. Pools!Max(V) \in V /\ Pools!Min(V) \in V
      BY <1>1, LastBarOf
    <2>2. d[Pools!Max(V)] = e[Pools!Max(V)] /\ d[Pools!Min(V)] = e[Pools!Min(V)]
      BY <1>1, <2>1
    <2> QED
      BY <2>2 DEF Pools!SessionReturn
  <1>9. Pools!LastReturn(d) = Pools!LastReturn(e)
    <2> DEFINE W == {t \in V : t <= BarCutoff - LastWindow}
    <2>1. CASE W = {}
      BY <2>1 DEF Pools!LastReturn
    <2>2. CASE W # {}
      <3>1. Pools!Max(V) \in V /\ Pools!Max(W) \in V
        BY <1>1, <2>2, LastBarOf
      <3> HIDE DEF W
      <3>2. d[Pools!Max(V)] = e[Pools!Max(V)] /\ d[Pools!Max(W)] = e[Pools!Max(W)]
        BY <1>1, <3>1
      <3> QED
        BY <3>2 DEF Pools!LastReturn, W
    <2> QED
      BY <2>1, <2>2
  <1>10. Pools!SessionVwap(d) = Pools!SessionVwap(e)
    <2>1. /\ [t \in V |-> d[t].vol] = [t \in V |-> e[t].vol]
          /\ [t \in V |-> d[t].amt] = [t \in V |-> e[t].amt]
      BY <1>1
    <2> QED
      BY <2>1 DEF Pools!SessionVwap
  <1>11. Pools!Pressure(d) = Pools!Pressure(e)
    <2> DEFINE seen == {t \in V : t >= BarOpen}
               base(t) == Pools!Latest(Pools!Before(seen, t), MmpLookback)
               full(t) == Pools!Cardinality(base(t)) = MmpLookback
               U == {t \in seen : /\ full(t)
                                  /\ 2 * Pools!Cardinality({u \in base(t) : d[u].vol > 0})
                                       >= MmpLookback
                                  /\ d[t].high + d[t].low > 0}
               W == {t \in seen : /\ full(t)
                                  /\ 2 * Pools!Cardinality({u \in base(t) : e[u].vol > 0})
                                       >= MmpLookback
                                  /\ e[t].high + e[t].low > 0}
    <2>1. \A t : base(t) \in SUBSET V
      BY DEF Pools!Latest, Pools!Before
    <2>2. /\ Pools!Pressure(d) = IF U = {} THEN <<"nan">>
                 ELSE <<"value", {<<d[t], {<<u, d[u]>> : u \in base(t)}>> : t \in U}>>
          /\ Pools!Pressure(e) = IF W = {} THEN <<"nan">>
                 ELSE <<"value", {<<e[t], {<<u, e[u]>> : u \in base(t)}>> : t \in W}>>
      BY DEF Pools!Pressure
    <2> HIDE DEF base, full
    <2>3. \A t : {u \in base(t) : d[u].vol > 0} = {u \in base(t) : e[u].vol > 0}
      BY <1>1, <2>1
    <2>4. U = W /\ U \in SUBSET V
      BY <1>1, <2>3
    <2> HIDE DEF U, W, seen
    <2>5. \A t \in U : d[t] = e[t]
      BY <1>1, <2>4
    <2>6. \A t : {<<u, d[u]>> : u \in base(t)} = {<<u, e[u]>> : u \in base(t)}
      <3> TAKE t
      <3>1. \A u \in base(t) : d[u] = e[u]
        BY <1>1, <2>1
      <3> QED
        BY <3>1
    <2> DEFINE D(t) == {<<u, d[u]>> : u \in base(t)}
               E(t) == {<<u, e[u]>> : u \in base(t)}
    <2>7. \A t : D(t) = E(t)
      BY <2>6
    <2>8. /\ Pools!Pressure(d) = IF U = {} THEN <<"nan">>
                 ELSE <<"value", {<<d[t], D(t)>> : t \in U}>>
          /\ Pools!Pressure(e) = IF U = {} THEN <<"nan">>
                 ELSE <<"value", {<<e[t], E(t)>> : t \in U}>>
      BY <2>2, <2>4
    <2>9. \A t \in U : <<d[t], D(t)>> = <<e[t], E(t)>>
      BY <2>5, <2>7
    <2> HIDE DEF D, E
    <2>10. {<<d[t], D(t)>> : t \in U} = {<<e[t], E(t)>> : t \in U}
      BY <2>9
    <2> QED
      BY <2>8, <2>10
  <1> QED
    BY <1>4, <1>5, <1>6, <1>7, <1>8, <1>9, <1>10, <1>11 DEF jumps

LEMMA BucketEnds ==
  ASSUME NEW t \in BarMinutes
  PROVE  t <= Pools!Bucket(t)
PROOF
  <1>1. t \in Nat /\ BarGrid \in Nat \ {0}
    BY BarConstants
  <1> DEFINE a == t + BarGrid - 1
             k == a \div BarGrid
             m == a % BarGrid
  <1>2. a \in Nat
    BY <1>1
  <1>3. k \in Int /\ m \in 0 .. (BarGrid - 1) /\ a = BarGrid * k + m
    <2> HIDE DEF a
    <2> QED
      BY <1>1, <1>2
  <1>4. Pools!Bucket(t) = k * BarGrid
    BY DEF Pools!Bucket
  <1> DEFINE y == BarGrid * k
  <1>5. y \in Int /\ y = k * BarGrid
    <2> HIDE DEF k
    <2> QED
      BY <1>1, <1>3
  <1> HIDE DEF k, m, y
  <1>6. y = a - m
    BY <1>1, <1>3, <1>5 DEF y
  <1> QED
    BY <1>1, <1>3, <1>4, <1>5, <1>6

(* A derived bar that closed in time is made of bars that did.             *)
LEMMA SameCoarseBars ==
  ASSUME NEW d
  PROVE  LET e == Pools!Truncated(d)
             x == Pools!Resampled(d)
             y == Pools!Resampled(e)
             C == Pools!CoarseVisible(x)
         IN  /\ Pools!CoarseVisible(y) = C /\ C \in SUBSET BarMinutes
             /\ \A b \in C : x[b] = y[b]
PROOF
  <1> DEFINE e == Pools!Truncated(d)
             x == Pools!Resampled(d)
             y == Pools!Resampled(e)
             P == {t \in BarMinutes : d[t] # Pools!NoBar}
             Q == {t \in BarMinutes : e[t] # Pools!NoBar}
             pof(b) == {t \in P : Pools!Bucket(t) = b}
             qof(b) == {t \in Q : Pools!Bucket(t) = b}
             Bar(day, S) == [high |-> Pools!Max({day[t].high : t \in S}),
                             low |-> Pools!Min({day[t].low : t \in S}),
                             close |-> day[Pools!Max(S)].close,
                             end |-> Pools!Max(S),
                             available |-> Pools!Max(S) + BarLag]
             timely(t) == t + BarLag <= BarCutoff
             C == Pools!CoarseVisible(x)
             D == Pools!CoarseVisible(y)
  <1>1. /\ DOMAIN x = {Pools!Bucket(t) : t \in P} /\ DOMAIN y = {Pools!Bucket(t) : t \in Q}
        /\ \A b \in DOMAIN x : x[b] = Bar(d, pof(b))
        /\ \A b \in DOMAIN y : y[b] = Bar(e, qof(b))
    BY DEF Pools!Resampled
  <1>2. e = [t \in BarMinutes |-> IF timely(t) THEN d[t] ELSE Pools!NoBar]
    BY DEF Pools!Truncated
  <1>3. Q = {t \in P : timely(t)} /\ \A t \in Q : e[t] = d[t]
    BY <1>2
  <1>4. \A day, S : /\ Bar(day, S).end = Pools!Max(S)
                    /\ Bar(day, S).available = Pools!Max(S) + BarLag
    OBVIOUS
  <1> HIDE DEF Bar, pof, qof
  <1>5. /\ \A b \in DOMAIN x : /\ x[b].end = Pools!Max(pof(b))
                              /\ x[b].available = Pools!Max(pof(b)) + BarLag
        /\ \A b \in DOMAIN y : /\ y[b].end = Pools!Max(qof(b))
                              /\ y[b].available = Pools!Max(qof(b)) + BarLag
    BY <1>1, <1>4
  <1> USE DEF pof, qof
  <1>6. /\ C = {b \in DOMAIN x : Pools!Max(pof(b)) = b /\ timely(b)}
        /\ D = {b \in DOMAIN y : Pools!Max(qof(b)) = b /\ timely(b)}
    BY <1>5 DEF Pools!CoarseVisible, Pools!Complete
  <1>7. P \in SUBSET BarMinutes /\ \A t \in BarMinutes : t \in Nat
    BY BarConstants
  <1>8. BarLag \in Nat /\ BarCutoff \in Nat
    BY BarConstants
  <1> HIDE DEF e, x, y, P, Q, C, D
  <1>9. ASSUME NEW b \in C
        PROVE  /\ b \in D /\ qof(b) = pof(b) /\ b \in BarMinutes /\ qof(b) # {}
               /\ \A t \in pof(b) : t \in Q
    <2>1. b \in DOMAIN x /\ Pools!Max(pof(b)) = b /\ timely(b)
      BY <1>6
    <2>2. pof(b) # {} /\ pof(b) \in SUBSET BarMinutes
      BY <1>1, <1>7, <2>1
    <2>3. b \in pof(b) /\ \A t \in pof(b) : t <= b
      BY <2>1, <2>2, LastBarOf
    <2>4. \A t \in pof(b) : t \in Q
      BY <1>3, <1>7, <1>8, <2>1, <2>2, <2>3
    <2>5. qof(b) = pof(b)
      BY <1>3, <2>4
    <2>6. b \in DOMAIN y
      BY <1>1, <2>3, <2>4
    <2> QED
      BY <1>6, <2>1, <2>2, <2>3, <2>4, <2>5, <2>6
  <1>10. ASSUME NEW b \in D PROVE b \in C
    <2>1. b \in DOMAIN y /\ Pools!Max(qof(b)) = b /\ timely(b)
      BY <1>6
    <2>2. qof(b) # {} /\ qof(b) \in SUBSET BarMinutes
      BY <1>1, <1>3, <1>7, <2>1
    <2>3. b \in qof(b)
      BY <2>1, <2>2, LastBarOf
    <2>4. \A t \in pof(b) : t <= b /\ t \in Nat
      BY <1>7, BucketEnds
    <2>5. b \in Nat
      BY <1>7, <2>2, <2>3
    <2>6. \A t \in pof(b) : t \in Q
      BY <1>3, <1>7, <1>8, <2>1, <2>4, <2>5
    <2>7. qof(b) = pof(b)
      BY <1>3, <2>6
    <2>8. b \in DOMAIN x
      BY <1>1, <2>3, <2>7
    <2> QED
      BY <1>6, <2>1, <2>7, <2>8
  <1>11. C = D
    BY <1>9, <1>10
  <1>12. ASSUME NEW b \in C PROVE x[b] = y[b]
    <2>1. b \in DOMAIN x /\ b \in DOMAIN y /\ qof(b) = pof(b)
      BY <1>6, <1>9
    <2>2. \A t \in pof(b) : d[t] = e[t]
      BY <1>3, <1>9
    <2>3. pof(b) # {} /\ pof(b) \in SUBSET BarMinutes
      BY <1>1, <1>7, <2>1
    <2>4. d[Pools!Max(pof(b))] = e[Pools!Max(pof(b))]
      BY <2>2, <2>3, LastBarOf
    <2>5. /\ {d[t].high : t \in pof(b)} = {e[t].high : t \in pof(b)}
          /\ {d[t].low : t \in pof(b)} = {e[t].low : t \in pof(b)}
      BY <2>2
    <2>6. Bar(d, pof(b)) = Bar(e, pof(b))
      BY <2>4, <2>5 DEF Bar
    <2> QED
      BY <1>1, <2>1, <2>6
  <1> QED
    BY <1>9, <1>11, <1>12 DEF e, x, y, C, D

LEMMA SameCoarse ==
  ASSUME NEW d
  PROVE  /\ Pools!AnomalyBars(Pools!Truncated(d)) = Pools!AnomalyBars(d)
         /\ Pools!AnomalyPairs(Pools!Truncated(d)) = Pools!AnomalyPairs(d)
PROOF
  <1> DEFINE e == Pools!Truncated(d)
             x == Pools!Resampled(d)
             y == Pools!Resampled(e)
             C == Pools!CoarseVisible(x)
             kept == Pools!Guarded(x, C)
             L(b) == Pools!Max(Pools!Before(kept, b))
             T == {c \in kept : Pools!Before(kept, c) # {}}
             Size(z, b) == Pools!Amp(z[b]) - Pools!Amp(z[L(b)])
  <1>1. /\ Pools!CoarseVisible(y) = C /\ C \in SUBSET BarMinutes
        /\ \A b \in C : x[b] = y[b]
    BY SameCoarseBars
  <1> HIDE DEF x, y, C
  <1>2. kept = Pools!Guarded(y, C) /\ kept \in SUBSET C
    BY <1>1 DEF Pools!Guarded
  <1>3. Pools!AnomalyBars(d) = kept /\ Pools!AnomalyBars(e) = kept
    <2>1. Pools!AnomalyBars(d) = Pools!Guarded(x, C)
      BY DEF Pools!AnomalyBars, x, C
    <2>2. Pools!AnomalyBars(e) = Pools!Guarded(y, C)
      BY <1>1 DEF Pools!AnomalyBars, y
    <2> QED
      BY <1>2, <2>1, <2>2
  <1>4. /\ Pools!AnomalyPairs(d)
             = {<<b, IF Size(x, b) < 0 THEN -Size(x, b) ELSE Size(x, b), x[b].close, x[L(b)].close>>
                  : b \in T}
    BY DEF Pools!AnomalyPairs, x, C
  <1>5. Pools!AnomalyPairs(e)
             = {<<b, IF Size(y, b) < 0 THEN -Size(y, b) ELSE Size(y, b), y[b].close, y[L(b)].close>>
                  : b \in T}
    BY <1>1, <1>2 DEF Pools!AnomalyPairs, y
  <1>6. \A b \in T : b \in C /\ L(b) \in C
    BY <1>1, <1>2, LastBarOf DEF Pools!Before
  <1> HIDE DEF T, L, kept, e
  <1>7. \A b \in T : x[b] = y[b] /\ x[L(b)] = y[L(b)] /\ Size(x, b) = Size(y, b)
    BY <1>1, <1>6
  <1> HIDE DEF Size
  <1> QED
    BY <1>3, <1>4, <1>5, <1>7 DEF e

LEMMA ShiftedSize ==
  ASSUME NEW S \in SUBSET Int, IsFiniteSet(S), NEW k \in Int
  PROVE  /\ IsFiniteSet({i + k : i \in S})
         /\ Cardinality({i + k : i \in S}) = Cardinality(S)
PROOF
  <1> DEFINE T == {i + k : i \in S}
             g == [i \in S |-> i + k]
  <1>1. g \in [S -> T]
    OBVIOUS
  <1>2. \A x, y \in S : g[x] = g[y] => x = y
    OBVIOUS
  <1>3. \A z \in T : \E x \in S : g[x] = z
    OBVIOUS
  <1>4. g \in Bijection(S, T)
    <2>1. g \in Injection(S, T)
      BY <1>1, <1>2 DEF Injection, IsInjective
    <2>2. g \in Surjection(S, T)
      BY <1>1, <1>3 DEF Surjection
    <2> QED
      BY <2>1, <2>2 DEF Bijection
  <1> HIDE DEF T, g
  <1>5. IsFiniteSet(T) /\ Cardinality(T) = Cardinality(S)
    BY <1>4, FS_Bijection DEF ExistsBijection
  <1> QED
    BY <1>5 DEF T

LEMMA RecentShift ==
  ASSUME NEW S \in SUBSET Int, IsFiniteSet(S), NEW k \in Int, NEW n
  PROVE  Recent({i + k : i \in S}, n) = {i + k : i \in Recent(S, n)}
PROOF
  <1> DEFINE T == {i + k : i \in S}
  <1>1. ASSUME NEW i \in S
        PROVE  Cardinality({y \in T : y > i + k}) = Cardinality({j \in S : j > i})
    <2> DEFINE U == {j \in S : j > i}
    <2>1. {y \in T : y > i + k} = {j + k : j \in U}
      OBVIOUS
    <2>2. U \in SUBSET S
      OBVIOUS
    <2> HIDE DEF U
    <2>3. U \in SUBSET Int /\ IsFiniteSet(U)
      BY <2>2, FS_Subset
    <2>4. Cardinality({j + k : j \in U}) = Cardinality(U)
      BY <2>3, ShiftedSize
    <2> QED
      BY <2>1, <2>4 DEF U
  <1>2. ASSUME NEW i \in S
        PROVE  i + k \in Recent(T, n) <=> i \in Recent(S, n)
    BY <1>1 DEF Recent
  <1>3. \A y \in Recent(T, n) : \E i \in S : y = i + k
    BY DEF Recent
  <1>4. \A i \in Recent(S, n) : i \in S
    BY DEF Recent
  <1> HIDE DEF T
  <1>5. \A y \in Recent(T, n) : y \in {i + k : i \in Recent(S, n)}
    BY <1>2, <1>3
  <1>6. \A y \in {i + k : i \in Recent(S, n)} : y \in Recent(T, n)
    BY <1>2, <1>4
  <1>7. Recent(T, n) = {i + k : i \in Recent(S, n)}
    BY <1>5, <1>6
  <1> QED
    BY <1>7 DEF T

(* V numbers the days of W behind k from there.                            *)
Behind(V, W, k, m) ==
    /\ m \in Nat /\ k \in Nat /\ k <= m
    /\ W \in SUBSET (1 .. m) /\ V \in SUBSET (1 .. (m - k))
    /\ \A i \in 1 .. (m - k) : i \in V <=> i + k \in W

(* The latest of W are those of its part behind k, when that has n of them. *)
LEMMA RecentTail ==
  ASSUME NEW V, NEW W, NEW k, NEW m, Behind(V, W, k, m),
         NEW n \in Nat, k = 0 \/ Cardinality(V) >= n
  PROVE  Recent(W, n) = {i + k : i \in Recent(V, n)}
PROOF
  <1> DEFINE S == {i + k : i \in V}
  <1> /\ m \in Nat /\ k \in Nat /\ k <= m
      /\ W \in SUBSET (1 .. m) /\ V \in SUBSET (1 .. (m - k))
      /\ \A i \in 1 .. (m - k) : i \in V <=> i + k \in W
    BY DEF Behind
  <1>1. V \in SUBSET Int /\ W \in SUBSET Int /\ S \in SUBSET W
    OBVIOUS
  <1>2. IsFiniteSet(V) /\ IsFiniteSet(W)
    <2>1. 1 \in Int /\ m \in Int /\ m - k \in Int
      OBVIOUS
    <2>2. IsFiniteSet(1 .. m) /\ IsFiniteSet(1 .. (m - k))
      BY <2>1, FS_Interval
    <2> QED
      BY <2>2, FS_Subset
  <1>3. ASSUME NEW w \in W, w > k PROVE w \in S
    <2>1. w - k \in 1 .. (m - k) /\ (w - k) + k = w
      BY <1>3
    <2>2. w - k \in V
      BY <2>1
    <2> QED
      BY <2>1, <2>2
  <1>4. \A x \in S : x > k
    OBVIOUS
  <1>5. \A x \in S, y \in W : y > x => y \in S
    BY <1>1, <1>3, <1>4
  <1>6. /\ Cardinality(S) = Cardinality(V)
        /\ Recent(S, n) = {i + k : i \in Recent(V, n)}
    <2>1. k \in Int /\ V \in SUBSET Int /\ IsFiniteSet(V)
      BY <1>1, <1>2
    <2>2. Cardinality({i + k : i \in V}) = Cardinality(V)
      BY <2>1, ShiftedSize
    <2>3. Recent({i + k : i \in V}, n) = {i + k : i \in Recent(V, n)}
      BY <2>1, RecentShift
    <2> QED
      BY <2>2, <2>3
  <1>7. ASSUME NEW z \in W \ S
        PROVE  \E T \in SUBSET W : Cardinality(T) >= n /\ \A y \in T : y > z
    <2>1. z \in 1 .. m /\ ~(z > k)
      BY <1>3, <1>7
    <2>2. k # 0
      BY <2>1
    <2>3. \A y \in S : y > z
      BY <1>1, <1>4, <2>1
    <2> HIDE DEF S
    <2> QED
      BY <1>1, <1>6, <2>2, <2>3
  <1> HIDE DEF S
  <1>8. Recent(S, n) = Recent(W, n)
    BY <1>1, <1>2, <1>5, <1>7, RecentPart
  <1> QED
    BY <1>6, <1>8

(* Two sessions that are worth the same to every factor.                   *)
SameWorth(d, e) ==
    /\ Pools!IdealBars(d) = Pools!IdealBars(e)
    /\ Pools!AnomalyBars(d) = Pools!AnomalyBars(e)
    /\ Pools!AnomalyPairs(d) = Pools!AnomalyPairs(e)
    /\ Pools!JumpBars(d) = Pools!JumpBars(e) /\ Pools!JumpPairs(d) = Pools!JumpPairs(e)
    /\ Pools!CutBars(d) = Pools!CutBars(e)
    /\ Pools!Visible(d) = Pools!Visible(e)
    /\ Pools!Visible(d) # {} => Pools!SessionReturn(d) = Pools!SessionReturn(e)
    /\ Pools!LastReturn(d) = Pools!LastReturn(e)
    /\ Pools!SessionVwap(d) = Pools!SessionVwap(e)
    /\ Pools!Pressure(d) = Pools!Pressure(e)

LEMMA TruncatedIsWorthTheSame ==
  ASSUME NEW d
  PROVE  SameWorth(Pools!Truncated(d), d)
PROOF
  <1> DEFINE e == Pools!Truncated(d)
             V == Pools!Visible(d)
  <1>1. Pools!Visible(e) = V /\ SameBars(e, d, V)
    BY DEF Pools!Visible, Pools!Truncated, SameBars
  <1> HIDE DEF e, V
  <1>2. Pools!Visible(d) = V
    BY DEF V
  <1>3. /\ Pools!IdealBars(e) = Pools!IdealBars(d)
        /\ Pools!JumpBars(e) = Pools!JumpBars(d)
        /\ Pools!JumpPairs(e) = Pools!JumpPairs(d)
        /\ Pools!CutBars(e) = Pools!CutBars(d)
        /\ V # {} => Pools!SessionReturn(e) = Pools!SessionReturn(d)
        /\ Pools!LastReturn(e) = Pools!LastReturn(d)
        /\ Pools!SessionVwap(e) = Pools!SessionVwap(d)
        /\ Pools!Pressure(e) = Pools!Pressure(d)
    BY <1>1, <1>2, SameSession
  <1>4. /\ Pools!AnomalyBars(e) = Pools!AnomalyBars(d)
        /\ Pools!AnomalyPairs(e) = Pools!AnomalyPairs(d)
    BY SameCoarse DEF e
  <1> QED
    BY <1>1, <1>2, <1>3, <1>4 DEF SameWorth, e

LEMMA SamePool ==
  ASSUME NEW k \in Int, NEW m \in Int, NEW L \in SUBSET Int, NEW P, NEW Q,
         \A i \in L : P[i + k] = Q[i]
  PROVE  UNION {{<<i - m, x>> : x \in P[i]} : i \in {j + k : j \in L}}
           = UNION {{<<i - (m - k), x>> : x \in Q[i]} : i \in L}
PROOF
  <1>1. ASSUME NEW j \in L
        PROVE  {<<(j + k) - m, x>> : x \in P[j + k]} = {<<j - (m - k), x>> : x \in Q[j]}
    <2>1. (j + k) - m = j - (m - k)
      OBVIOUS
    <2> QED
      BY <2>1
  <1>2. {{<<i - m, x>> : x \in P[i]} : i \in {j + k : j \in L}}
          = {{<<(j + k) - m, x>> : x \in P[j + k]} : j \in L}
    OBVIOUS
  <1>3. {{<<(j + k) - m, x>> : x \in P[j + k]} : j \in L}
          = {{<<i - (m - k), x>> : x \in Q[i]} : i \in L}
    BY <1>1
  <1> QED
    BY <1>2, <1>3

(* ee is dd without its first k sessions, or sessions worth the same.      *)
Suffix(ee, dd, k) ==
    \E m \in Nat : /\ k \in 0 .. m /\ Len(dd) = m /\ DOMAIN dd = 1 .. m
                   /\ Len(ee) = m - k /\ DOMAIN ee = 1 .. (m - k)
                   /\ \A i \in 1 .. (m - k) : SameWorth(dd[i + k], ee[i])

LEMMA SameWindow ==
  ASSUME NEW dd, NEW ee, NEW k, Suffix(ee, dd, k), NEW name
  PROVE  /\ Pools!WindowDays(name, dd) \in SUBSET (1 .. Len(dd))
         /\ Pools!WindowDays(name, ee) \in SUBSET (1 .. (Len(dd) - k))
         /\ \A i \in 1 .. (Len(dd) - k) :
              i \in Pools!WindowDays(name, ee) <=> i + k \in Pools!WindowDays(name, dd)
PROOF
  <1>1. PICK m \in Nat : /\ k \in 0 .. m /\ Len(dd) = m /\ DOMAIN dd = 1 .. m
                         /\ Len(ee) = m - k /\ DOMAIN ee = 1 .. (m - k)
                         /\ \A i \in 1 .. (m - k) : SameWorth(dd[i + k], ee[i])
    BY DEF Suffix
  <1>2. ASSUME NEW i \in 1 .. (m - k)
        PROVE  i \in Pools!WindowDays(name, ee) <=> i + k \in Pools!WindowDays(name, dd)
    <2>1. i \in DOMAIN ee /\ i + k \in DOMAIN dd
      BY <1>1
    <2>2. SameWorth(dd[i + k], ee[i])
      BY <1>1
    <2> QED
      BY <2>1, <2>2 DEF Pools!WindowDays, SameWorth
  <1> QED
    BY <1>1, <1>2 DEF Pools!WindowDays

LEMMA SameFactor ==
  ASSUME NEW dd, NEW ee, NEW k, Suffix(ee, dd, k), NEW name \in Pools!FactorNames,
         \/ k = 0
         \/ /\ name \in Pools!BoundedFactors
            /\ Cardinality(Pools!WindowDays(name, ee)) >= BarLookback
  PROVE  Pools!Factor(name, ee) = Pools!Factor(name, dd)
PROOF
  <1> DEFINE m == Len(dd)
             n == Len(ee)
             W == Pools!WindowDays(name, dd)
             V == Pools!WindowDays(name, ee)
             L == Recent(V, BarLookback)
  <1>1. /\ m \in Nat /\ k \in 0 .. m /\ DOMAIN dd = 1 .. m /\ n = m - k
        /\ DOMAIN ee = 1 .. (m - k) /\ n \in Nat
        /\ \A i \in 1 .. (m - k) : SameWorth(dd[i + k], ee[i])
    BY DEF Suffix
  <1>2. /\ W \in SUBSET (1 .. m) /\ V \in SUBSET (1 .. (m - k))
        /\ \A i \in 1 .. (m - k) : i \in V <=> i + k \in W
    BY SameWindow
  <1>3. k \in Nat /\ k <= m /\ BarLookback \in Nat /\ BarLookback # 0
    BY <1>1, BarConstants
  <1>4. k = 0 \/ Cardinality(V) >= BarLookback
    OBVIOUS
  <1> HIDE DEF m, n, W, V
  <1>5. n \in V <=> m \in W
    <2>1. CASE n = 0
      <3>1. V = {}
        BY <1>1, <1>2, <2>1
      <3>2. Cardinality(V) = 0
        BY <3>1, FS_EmptySet
      <3>3. k = 0
        BY <1>3, <1>4, <3>2
      <3>4. m = 0 /\ W = {}
        BY <1>1, <1>2, <2>1, <3>3
      <3> QED
        BY <3>1, <3>4
    <2>2. CASE n # 0
      <3>1. n \in 1 .. (m - k) /\ n + k = m
        BY <1>1, <1>3, <2>2
      <3> QED
        BY <1>2, <3>1
    <2> QED
      BY <2>1, <2>2
  <1>6. Recent(W, BarLookback) = {i + k : i \in L}
    <2>1. m \in Nat /\ k \in Nat /\ k <= m /\ BarLookback \in Nat
      BY <1>1, <1>3
    <2> HIDE DEF L
    <2>2. Behind(V, W, k, m)
      BY <1>2, <2>1 DEF Behind
    <2>3. k = 0 \/ Cardinality(V) >= BarLookback
      BY <1>4
    <2>4. Recent(W, BarLookback) = {i + k : i \in Recent(V, BarLookback)}
      BY <2>1, <2>2, <2>3, RecentTail
    <2> QED
      BY <2>4 DEF L
  <1>7. /\ \A S : Pools!Latest(S, BarLookback) = Recent(S, BarLookback)
    BY DEF Pools!Latest, Pools!After, Recent, Pools!Cardinality, Cardinality
  <1>8. L \in SUBSET V /\ L \in SUBSET Int /\ \A i \in L : i \in 1 .. (m - k)
    <2>1. L \in SUBSET V
      BY DEF Recent
    <2> HIDE DEF L
    <2>2. \A i \in L : i \in 1 .. (m - k)
      BY <1>2, <2>1
    <2>3. \A i \in 1 .. (m - k) : i \in Int
      OBVIOUS
    <2> QED
      BY <2>1, <2>2, <2>3
  <1> HIDE DEF L
  <1>9. CASE m \notin W
    BY <1>5, <1>9 DEF Pools!Factor, W, V, m, n
  <1>10. CASE m \in W
    <2>1. /\ n \in V /\ m \in W /\ n \in 1 .. (m - k) /\ n + k = m
      BY <1>1, <1>2, <1>3, <1>5, <1>10
    <2>2. SameWorth(dd[m], ee[n])
      BY <1>1, <2>1
    <2>3. Pools!Last(dd) = dd[m] /\ Pools!Last(ee) = ee[n]
      BY DEF Pools!Last, m, n
    <2>4. Pools!Pooled(name, dd, Pools!IdealBars) = Pools!Pooled(name, ee, Pools!IdealBars)
      <3> DEFINE P == [i \in 1 .. m |-> Pools!IdealBars(dd[i])]
                 Q == [i \in 1 .. (m - k) |-> Pools!IdealBars(ee[i])]
                 T == {j + k : j \in L}
      <3>1. \A i \in L : i + k \in 1 .. m /\ P[i + k] = Q[i]
        BY <1>1, <1>3, <1>8 DEF SameWorth
      <3>2. /\ \A i \in T : P[i] = Pools!IdealBars(dd[i])
            /\ \A i \in L : Q[i] = Pools!IdealBars(ee[i])
        BY <1>1, <1>3, <1>8
      <3> HIDE DEF P, Q
      <3>3. /\ \A i \in T : {<<i - m, x>> : x \in Pools!IdealBars(dd[i])}
                             = {<<i - m, x>> : x \in P[i]}
            /\ \A i \in L : {<<i - n, x>> : x \in Pools!IdealBars(ee[i])}
                             = {<<i - n, x>> : x \in Q[i]}
        BY <3>2
      <3>4. /\ Pools!Pooled(name, dd, Pools!IdealBars)
                  = UNION {{<<i - m, x>> : x \in Pools!IdealBars(dd[i])} : i \in T}
            /\ Pools!Pooled(name, ee, Pools!IdealBars)
                  = UNION {{<<i - n, x>> : x \in Pools!IdealBars(ee[i])} : i \in L}
        BY <1>6, <1>7 DEF Pools!Pooled, W, V, L, m, n
      <3>5. /\ Pools!Pooled(name, dd, Pools!IdealBars)
                  = UNION {{<<i - m, x>> : x \in P[i]} : i \in T}
            /\ Pools!Pooled(name, ee, Pools!IdealBars)
                  = UNION {{<<i - n, x>> : x \in Q[i]} : i \in L}
        BY <3>3, <3>4
      <3>6. UNION {{<<i - m, x>> : x \in P[i]} : i \in T}
              = UNION {{<<i - (m - k), x>> : x \in Q[i]} : i \in L}
        <4>1. m \in Int /\ k \in Int
          BY <1>1, <1>3
        <4> QED
          BY <1>8, <3>1, <4>1, SamePool
      <3> QED
        BY <1>1, <3>5, <3>6
    <2>5. Pools!Pooled(name, dd, Pools!AnomalyPairs) = Pools!Pooled(name, ee, Pools!AnomalyPairs)
      <3> DEFINE P == [i \in 1 .. m |-> Pools!AnomalyPairs(dd[i])]
                 Q == [i \in 1 .. (m - k) |-> Pools!AnomalyPairs(ee[i])]
                 T == {j + k : j \in L}
      <3>1. \A i \in L : i + k \in 1 .. m /\ P[i + k] = Q[i]
        BY <1>1, <1>3, <1>8 DEF SameWorth
      <3>2. /\ \A i \in T : P[i] = Pools!AnomalyPairs(dd[i])
            /\ \A i \in L : Q[i] = Pools!AnomalyPairs(ee[i])
        BY <1>1, <1>3, <1>8
      <3> HIDE DEF P, Q
      <3>3. /\ \A i \in T : {<<i - m, x>> : x \in Pools!AnomalyPairs(dd[i])}
                             = {<<i - m, x>> : x \in P[i]}
            /\ \A i \in L : {<<i - n, x>> : x \in Pools!AnomalyPairs(ee[i])}
                             = {<<i - n, x>> : x \in Q[i]}
        BY <3>2
      <3>4. /\ Pools!Pooled(name, dd, Pools!AnomalyPairs)
                  = UNION {{<<i - m, x>> : x \in Pools!AnomalyPairs(dd[i])} : i \in T}
            /\ Pools!Pooled(name, ee, Pools!AnomalyPairs)
                  = UNION {{<<i - n, x>> : x \in Pools!AnomalyPairs(ee[i])} : i \in L}
        BY <1>6, <1>7 DEF Pools!Pooled, W, V, L, m, n
      <3>5. /\ Pools!Pooled(name, dd, Pools!AnomalyPairs)
                  = UNION {{<<i - m, x>> : x \in P[i]} : i \in T}
            /\ Pools!Pooled(name, ee, Pools!AnomalyPairs)
                  = UNION {{<<i - n, x>> : x \in Q[i]} : i \in L}
        BY <3>3, <3>4
      <3>6. UNION {{<<i - m, x>> : x \in P[i]} : i \in T}
              = UNION {{<<i - (m - k), x>> : x \in Q[i]} : i \in L}
        <4>1. m \in Int /\ k \in Int
          BY <1>1, <1>3
        <4> QED
          BY <1>8, <3>1, <4>1, SamePool
      <3> QED
        BY <1>1, <3>5, <3>6
    <2>6. Pools!Pooled(name, dd, Pools!JumpPairs) = Pools!Pooled(name, ee, Pools!JumpPairs)
      <3> DEFINE P == [i \in 1 .. m |-> Pools!JumpPairs(dd[i])]
                 Q == [i \in 1 .. (m - k) |-> Pools!JumpPairs(ee[i])]
                 T == {j + k : j \in L}
      <3>1. \A i \in L : i + k \in 1 .. m /\ P[i + k] = Q[i]
        BY <1>1, <1>3, <1>8 DEF SameWorth
      <3>2. /\ \A i \in T : P[i] = Pools!JumpPairs(dd[i])
            /\ \A i \in L : Q[i] = Pools!JumpPairs(ee[i])
        BY <1>1, <1>3, <1>8
      <3> HIDE DEF P, Q
      <3>3. /\ \A i \in T : {<<i - m, x>> : x \in Pools!JumpPairs(dd[i])}
                             = {<<i - m, x>> : x \in P[i]}
            /\ \A i \in L : {<<i - n, x>> : x \in Pools!JumpPairs(ee[i])}
                             = {<<i - n, x>> : x \in Q[i]}
        BY <3>2
      <3>4. /\ Pools!Pooled(name, dd, Pools!JumpPairs)
                  = UNION {{<<i - m, x>> : x \in Pools!JumpPairs(dd[i])} : i \in T}
            /\ Pools!Pooled(name, ee, Pools!JumpPairs)
                  = UNION {{<<i - n, x>> : x \in Pools!JumpPairs(ee[i])} : i \in L}
        BY <1>6, <1>7 DEF Pools!Pooled, W, V, L, m, n
      <3>5. /\ Pools!Pooled(name, dd, Pools!JumpPairs)
                  = UNION {{<<i - m, x>> : x \in P[i]} : i \in T}
            /\ Pools!Pooled(name, ee, Pools!JumpPairs)
                  = UNION {{<<i - n, x>> : x \in Q[i]} : i \in L}
        BY <3>3, <3>4
      <3>6. UNION {{<<i - m, x>> : x \in P[i]} : i \in T}
              = UNION {{<<i - (m - k), x>> : x \in Q[i]} : i \in L}
        <4>1. m \in Int /\ k \in Int
          BY <1>1, <1>3
        <4> QED
          BY <1>8, <3>1, <4>1, SamePool
      <3> QED
        BY <1>1, <3>5, <3>6
    <2>7. CASE name = "ideal_amp"
      BY <2>1, <2>4, <2>7 DEF Pools!Factor, Pools!IdealAmp, W, V, m, n
    <2>8. CASE name = "anomaly_vol"
      BY <2>1, <2>5, <2>8 DEF Pools!Factor, Pools!AnomalyVol, W, V, m, n
    <2>9. CASE name = "jump_corr"
      BY <2>1, <2>6, <2>9 DEF Pools!Factor, Pools!JumpCorr, W, V, m, n
    <2>10. CASE name = "amp_cut"
      <3>1. k = 0 /\ m = n
        BY <1>1, <1>3, <2>10 DEF Pools!BoundedFactors
      <3>2. \A i \in 1 .. m : Pools!CutBars(dd[i]) = Pools!CutBars(ee[i])
        BY <1>1, <3>1 DEF SameWorth
      <3>3. \A i \in 1 .. m : /\ Pools!CutDay(dd[i]) <=> Pools!CutDay(ee[i])
                              /\ Pools!DayCut(dd[i]) = Pools!DayCut(ee[i])
        BY <3>2 DEF Pools!CutDay, Pools!DayCut
      <3> DEFINE S == Pools!Latest({i \in 1 .. m : Pools!CutDay(dd[i])}, BarLookback)
      <3>4. S = Pools!Latest({i \in 1 .. m : Pools!CutDay(ee[i])}, BarLookback)
        BY <3>3
      <3>5. \A i \in S : i \in 1 .. m
        BY DEF Pools!Latest
      <3>6. /\ Pools!AmpCut(dd) = IF m \notin S THEN <<"absent">>
                   ELSE IF Pools!Cardinality(S) < BarValidDays THEN <<"nan">>
                   ELSE <<"value", {<<i - m, Pools!DayCut(dd[i])>> : i \in S}>>
        BY <1>1 DEF Pools!AmpCut, m
      <3> HIDE DEF S
      <3>7. /\ Pools!AmpCut(ee) = IF m \notin S THEN <<"absent">>
                   ELSE IF Pools!Cardinality(S) < BarValidDays THEN <<"nan">>
                   ELSE <<"value", {<<i - m, Pools!DayCut(ee[i])>> : i \in S}>>
        BY <1>1, <3>1, <3>4 DEF Pools!AmpCut, n
      <3>8. {<<i - m, Pools!DayCut(dd[i])>> : i \in S} = {<<i - m, Pools!DayCut(ee[i])>> : i \in S}
        BY <3>3, <3>5
      <3>9. Pools!AmpCut(dd) = Pools!AmpCut(ee)
        <4> DEFINE Cut(X) == IF m \notin S THEN <<"absent">>
                             ELSE IF Pools!Cardinality(S) < BarValidDays THEN <<"nan">>
                             ELSE <<"value", X>>
        <4>1. /\ Pools!AmpCut(dd) = Cut({<<i - m, Pools!DayCut(dd[i])>> : i \in S})
              /\ Pools!AmpCut(ee) = Cut({<<i - m, Pools!DayCut(ee[i])>> : i \in S})
          BY <3>6, <3>7
        <4> HIDE DEF Cut
        <4> QED
          BY <3>8, <4>1
      <3> QED
        BY <2>1, <2>10, <3>9 DEF Pools!Factor, W, V, m, n
    <2>11. CASE name = "session_ret"
      <3>1. Pools!Visible(dd[m]) # {}
        BY <2>1, <2>11 DEF W, Pools!WindowDays
      <3>2. Pools!SessionReturn(dd[m]) = Pools!SessionReturn(ee[n])
        BY <2>2, <3>1 DEF SameWorth
      <3> QED
        BY <2>1, <2>3, <2>11, <3>2 DEF Pools!Factor, W, V, m, n
    <2>12. CASE name = "last_ret"
      <3>1. Pools!LastReturn(dd[m]) = Pools!LastReturn(ee[n])
        BY <2>2 DEF SameWorth
      <3> QED
        BY <2>1, <2>3, <2>12, <3>1 DEF Pools!Factor, W, V, m, n
    <2>13. CASE name = "vwap"
      <3>1. Pools!SessionVwap(dd[m]) = Pools!SessionVwap(ee[n])
        BY <2>2 DEF SameWorth
      <3> QED
        BY <2>1, <2>3, <2>13, <3>1 DEF Pools!Factor, W, V, m, n
    <2>14. CASE name = "mmp"
      <3>1. Pools!Pressure(dd[m]) = Pools!Pressure(ee[n])
        BY <2>2 DEF SameWorth
      <3> QED
        BY <2>1, <2>3, <2>14, <3>1 DEF Pools!Factor, W, V, m, n
    <2> QED
      BY <2>7, <2>8, <2>9, <2>10, <2>11, <2>12, <2>13, <2>14 DEF Pools!FactorNames
  <1> QED
    BY <1>9, <1>10

(* What the decision was handed: each session cut at its own cutoff.       *)
Handed == [i \in 1 .. Len(past) + 1 |->
             Pools!Truncated(IF i <= Len(past) THEN past[i] ELSE session)]

PoolInv ==
    IF which # "pools" THEN decided = Pools!NotYet ELSE
        /\ past \in Histories /\ now \in Int /\ DOMAIN session = BarMinutes
        /\ \/ decided = Pools!NotYet
           \/ now >= BarCutoff
              /\ decided = [name \in Pools!FactorNames |-> Pools!Factor(name, Handed)]

LEMMA PoolInit == MCInit => PoolInv
PROOF
  <1>1. ASSUME MCInit, which = "pools" PROVE Pools!Init
    BY <1>1 DEF MCInit
  <1>2. ASSUME MCInit, which # "pools" PROVE decided = Pools!NotYet
    BY <1>2 DEF MCInit, Pools!NotYet
  <1> QED
    BY <1>1, <1>2 DEF PoolInv, Pools!Init

(* The bars after the decision are cut off.                                *)
LEMMA PoolTick ==
  ASSUME PoolInv, which = "pools", which' = which, Pools!Tick
  PROVE  PoolInv'
PROOF
  <1>1. /\ now' = now + 1 /\ past' = past /\ decided' = decided
        /\ \/ \E bar : session' = [session EXCEPT ![now'] = bar]
           \/ session' = session
    BY DEF Pools!Tick
  <1>2. /\ past \in Histories /\ now \in Int /\ DOMAIN session = BarMinutes
        /\ \/ decided = Pools!NotYet
           \/ now >= BarCutoff
              /\ decided = [name \in Pools!FactorNames |-> Pools!Factor(name, Handed)]
    BY DEF PoolInv
  <1>3. DOMAIN session' = BarMinutes
    BY <1>1, <1>2
  <1>4. ASSUME now >= BarCutoff PROVE Handed' = Handed
    <2>1. \A t \in BarMinutes : t + BarLag <= BarCutoff => session'[t] = session[t]
      <3> SUFFICES ASSUME NEW t \in BarMinutes, t + BarLag <= BarCutoff
                   PROVE  session'[t] = session[t]
        OBVIOUS
      <3>1. t # now'
        BY <1>1, <1>2, <1>4, BarConstants
      <3> QED
        BY <1>1, <1>2, <3>1
    <2>2. Pools!Truncated(session') = Pools!Truncated(session)
      BY <2>1 DEF Pools!Truncated
    <2> QED
      BY <1>1, <2>2 DEF Handed
  <1>5. \A name : Pools!Factor(name, Handed)' = Pools!Factor(name, Handed')
    OBVIOUS
  <1>6. CASE decided = Pools!NotYet
    BY <1>1, <1>2, <1>3, <1>6 DEF PoolInv, Pools!NotYet
  <1>7. CASE /\ now >= BarCutoff
             /\ decided = [name \in Pools!FactorNames |-> Pools!Factor(name, Handed)]
    <2>1. decided' = [name \in Pools!FactorNames |-> Pools!Factor(name, Handed')]
      BY <1>1, <1>4, <1>7
    <2>2. now' >= BarCutoff
      BY <1>1, <1>2, <1>7, BarConstants
    <2> QED
      BY <1>1, <1>2, <1>3, <2>1, <2>2 DEF PoolInv
  <1> QED
    BY <1>2, <1>6, <1>7

LEMMA PoolDecide ==
  ASSUME PoolInv, which = "pools", which' = which, Pools!Decide
  PROVE  PoolInv'
PROOF
  <1>1. /\ now = BarCutoff
        /\ decided' = [name \in Pools!FactorNames |-> Pools!Factor(name, Handed)]
        /\ past' = past /\ session' = session /\ now' = now
    BY DEF Pools!Decide, Handed
  <1>2. Handed' = Handed
    BY <1>1 DEF Handed
  <1>3. decided' = [name \in Pools!FactorNames |-> Pools!Factor(name, Handed')]
    BY <1>1, <1>2
  <1> QED
    BY <1>1, <1>3, BarConstants DEF PoolInv

LEMMA PoolStep == PoolInv /\ [MCNext]_mcVars => PoolInv'
PROOF
  <1> SUFFICES ASSUME PoolInv, [MCNext]_mcVars PROVE PoolInv'
    OBVIOUS
  <1>1. which' = which /\ (UNCHANGED poolVars \/ (which = "pools" /\ Pools!Next))
    BY DEF MCNext, mcVars
  <1>2. CASE UNCHANGED poolVars
    <2>1. past' = past /\ session' = session /\ now' = now /\ decided' = decided
      BY <1>2 DEF poolVars
    <2>2. Handed' = Handed
      BY <2>1 DEF Handed
    <2>3. \A name : Pools!Factor(name, Handed)' = Pools!Factor(name, Handed)
      BY <2>2
    <2> QED
      BY <1>1, <2>1, <2>3 DEF PoolInv, Pools!NotYet
  <1> QED
    BY <1>1, <1>2, PoolTick, PoolDecide DEF Pools!Next

LEMMA SessionsOf ==
  ASSUME NEW h \in Histories, NEW s
  PROVE  /\ Len(Append(h, s)) = Len(h) + 1 /\ DOMAIN Append(h, s) = 1 .. Len(h) + 1
         /\ \A i \in 1 .. Len(h) + 1 : Append(h, s)[i] = IF i <= Len(h) THEN h[i] ELSE s
         /\ Len(Tail(Append(h, s))) = Len(h) /\ DOMAIN Tail(Append(h, s)) = 1 .. Len(h)
         /\ \A i \in 1 .. Len(h) : Tail(Append(h, s))[i] = Append(h, s)[i + 1]
PROOF
  <1>1. Len(h) \in Nat /\ DOMAIN h = 1 .. Len(h)
    BY BarConstants
  <1> QED
    BY <1>1

(* For any bars, floors and windows: the factors decided at the cutoff are *)
(* those computed later from whole sessions, and a bounded factor's value  *)
(* needs no session before its trailing valid days (view_lag:              *)
(* minute_decision_cutoff, pooled_trailing_reduce).                        *)
THEOREM PooledFactorsAreGeometryFree == MCSpec => []GeometryFree
PROOF
  <1>1. ASSUME PoolInv, which = "pools" PROVE Pools!GeometryFree
    <2> SUFFICES ASSUME decided # Pools!NotYet PROVE Pools!GeometryFree
      BY DEF Pools!GeometryFree
    <2> DEFINE dd == Append(past, session)
    <2>1. /\ past \in Histories
          /\ decided = [name \in Pools!FactorNames |-> Pools!Factor(name, Handed)]
      BY <1>1 DEF PoolInv
    <2>2. Len(past) \in Nat
      BY <2>1, BarConstants
    <2>3. /\ Len(dd) = Len(past) + 1 /\ DOMAIN dd = 1 .. Len(past) + 1
          /\ \A i \in 1 .. Len(past) + 1 : dd[i] = IF i <= Len(past) THEN past[i] ELSE session
          /\ Len(Tail(dd)) = Len(past) /\ DOMAIN Tail(dd) = 1 .. Len(past)
          /\ \A i \in 1 .. Len(past) : Tail(dd)[i] = dd[i + 1]
      BY <2>1, SessionsOf
    <2> HIDE DEF dd
    <2>4. Suffix(Handed, dd, 0)
      <3> DEFINE m == Len(past) + 1
      <3>1. /\ m \in Nat /\ 0 \in 0 .. m /\ Len(dd) = m /\ DOMAIN dd = 1 .. m
            /\ Len(Handed) = m - 0 /\ DOMAIN Handed = 1 .. (m - 0)
        BY <2>2, <2>3 DEF Handed
      <3>2. ASSUME NEW i \in 1 .. (m - 0) PROVE SameWorth(dd[i + 0], Handed[i])
        <4>1. i \in 1 .. m /\ i + 0 = i
          BY <2>2
        <4>2. Handed[i] = Pools!Truncated(dd[i])
          BY <2>3, <4>1 DEF Handed
        <4>3. SameWorth(Handed[i], dd[i])
          BY <4>2, TruncatedIsWorthTheSame
        <4> QED
          BY <4>1, <4>3 DEF SameWorth
      <3> HIDE DEF m
      <3> QED
        BY <3>1, <3>2 DEF Suffix
    <2>5. Suffix(Tail(dd), dd, 1)
      <3> DEFINE m == Len(past) + 1
      <3>1. /\ m \in Nat /\ 1 \in 0 .. m /\ Len(dd) = m /\ DOMAIN dd = 1 .. m
            /\ Len(Tail(dd)) = m - 1 /\ DOMAIN Tail(dd) = 1 .. (m - 1)
        BY <2>2, <2>3
      <3>2. ASSUME NEW i \in 1 .. (m - 1) PROVE SameWorth(dd[i + 1], Tail(dd)[i])
        BY <2>2, <2>3 DEF SameWorth
      <3> HIDE DEF m
      <3> QED
        BY <3>1, <3>2 DEF Suffix
    <2>6. \A name \in Pools!FactorNames : decided[name] = Pools!Factor(name, dd)
      BY <2>1, <2>4, SameFactor
    <2>7. \A name \in Pools!BoundedFactors :
             Cardinality(Pools!WindowDays(name, Tail(dd))) >= BarLookback
               => Pools!Factor(name, Tail(dd)) = Pools!Factor(name, dd)
      BY <2>5, SameFactor DEF Pools!BoundedFactors
    <2> QED
      BY <2>6, <2>7 DEF Pools!GeometryFree, Pools!WholeSessions, dd, Pools!Cardinality, Cardinality
  <1>2. PoolInv => GeometryFree
    <2>1. CASE which = "pools"
      BY <1>1, <2>1 DEF GeometryFree
    <2>2. CASE which # "pools"
      BY <2>2 DEF PoolInv, GeometryFree, Pools!GeometryFree
    <2> QED
      BY <2>1, <2>2
  <1> QED
    BY <1>2, PoolInit, PoolStep, PTL DEF MCSpec

-----------------------------------------------------------------------------
(* Volume peaks: how much history a value needs.                           *)

(* A sum does not depend on the names of what it adds.                     *)
LEMMA ShiftedSum ==
  ASSUME NEW S \in SUBSET Int, IsFiniteSet(S), NEW k \in Int, NEW u, NEW v,
         \A i \in S : u[i] \in Int /\ v[i + k] = u[i]
  PROVE  Book!SumOver(v, {i + k : i \in S}) = Book!SumOver(u, S)
PROOF
  <1> DEFINE moved(T) == {i + k : i \in T}
             bad == {T \in SUBSET S : Book!SumOver(v, moved(T)) # Book!SumOver(u, T)}
  <1> SUFFICES ASSUME bad # {} PROVE FALSE
    OBVIOUS
  <1>1. \A T \in SUBSET S : IsFiniteSet(T)
    BY FS_Subset
  <1>2. PICK T \in bad : \A R \in bad : ~(Cardinality(R) < Cardinality(T))
    BY <1>1, SmallestSet
  <1>3. CASE T = {}
    <2>1. moved(T) = {}
      BY <1>3
    <2> QED
      BY <1>2, <1>3, <2>1, SumEmpty
  <1>4. CASE T # {}
    <2>1. PICK x \in T : TRUE
      BY <1>4
    <2> DEFINE R == T \ {x}
    <2>2. IsFiniteSet(T) /\ T \in SUBSET S /\ x \in Int
      BY <1>1, <1>2
    <2>3. IsFiniteSet(R) /\ Cardinality(R) < Cardinality(T)
      BY <2>2, Fewer
    <2>4. Book!SumOver(v, moved(R)) = Book!SumOver(u, R)
      BY <1>2, <2>2, <2>3
    <2>5. x + k \in moved(T) /\ moved(T) \ {x + k} = moved(R)
      BY <2>2
    <2>6. IsFiniteSet(moved(T))
      <3> HIDE DEF moved
      <3>1. T \in SUBSET Int
        BY <2>2
      <3> QED
        BY <2>2, <3>1, ShiftedSize DEF moved
    <2>7. \A y \in moved(T) : v[y] \in Int
      BY <2>2
    <2>8. \A y \in T : u[y] \in Int
      BY <2>2
    <2>9. v[x + k] = u[x]
      BY <2>2
    <2> HIDE DEF moved, R
    <2>10. Book!SumOver(v, moved(T)) = v[x + k] + Book!SumOver(v, moved(T) \ {x + k})
      BY <2>5, <2>6, <2>7, SumStep
    <2>11. Book!SumOver(u, T) = u[x] + Book!SumOver(u, T \ {x})
      BY <2>2, <2>8, SumStep
    <2> QED
      BY <1>2, <2>4, <2>5, <2>9, <2>10, <2>11 DEF R
  <1> QED
    BY <1>3, <1>4

(* v holds the values of u, k days later.                                  *)
Moved(u, v, k) ==
    /\ DOMAIN u \in SUBSET Int /\ IsFiniteSet(DOMAIN u) /\ k \in Int
    /\ DOMAIN v = {i + k : i \in DOMAIN u}
    /\ \A i \in DOMAIN u : u[i] \in Int /\ v[i + k] = u[i]

LEMMA MovedTotal ==
  ASSUME NEW u, NEW v, NEW k, Moved(u, v, k)
  PROVE  /\ Peaks!Total(v) = Peaks!Total(u)
         /\ Peaks!Cardinality(DOMAIN v) = Peaks!Cardinality(DOMAIN u)
PROOF
  <1>1. \A z : Peaks!Total(z) = Book!SumOver(z, DOMAIN z)
    BY DEF Peaks!Total, Book!SumOver, Peaks!MapThenSumSet, Book!MapThenSumSet,
           Peaks!MapThenFoldSet, Book!MapThenFoldSet
  <1>2. /\ DOMAIN u \in SUBSET Int /\ IsFiniteSet(DOMAIN u) /\ k \in Int
        /\ DOMAIN v = {i + k : i \in DOMAIN u}
        /\ \A i \in DOMAIN u : u[i] \in Int /\ v[i + k] = u[i]
    BY DEF Moved
  <1>3. Book!SumOver(v, {i + k : i \in DOMAIN u}) = Book!SumOver(u, DOMAIN u)
    BY <1>2, ShiftedSum
  <1>4. Cardinality({i + k : i \in DOMAIN u}) = Cardinality(DOMAIN u)
    BY <1>2, ShiftedSize
  <1> QED
    BY <1>1, <1>2, <1>3, <1>4 DEF Peaks!Cardinality, Cardinality

LEMMA MovedExceeds ==
  ASSUME NEW u, NEW v, NEW k, Moved(u, v, k), NEW x
  PROVE  Peaks!Exceeds(x, v) <=> Peaks!Exceeds(x, u)
PROOF
  <1> DEFINE uu == [j \in DOMAIN u |-> u[j] * u[j]]
             vv == [j \in DOMAIN v |-> v[j] * v[j]]
  <1>1. Moved(uu, vv, k)
    <2>1. /\ DOMAIN u \in SUBSET Int /\ IsFiniteSet(DOMAIN u) /\ k \in Int
          /\ DOMAIN v = {i + k : i \in DOMAIN u}
          /\ \A i \in DOMAIN u : u[i] \in Int /\ v[i + k] = u[i]
      BY DEF Moved
    <2>2. \A i \in DOMAIN u : u[i] * u[i] \in Int
      BY <2>1
    <2>3. \A i \in DOMAIN u : uu[i] \in Int /\ vv[i + k] = uu[i]
      BY <2>1, <2>2
    <2>4. DOMAIN uu = DOMAIN u /\ DOMAIN vv = DOMAIN v
      OBVIOUS
    <2> HIDE DEF uu, vv
    <2> QED
      BY <2>1, <2>3, <2>4 DEF Moved
  <1>2. /\ Peaks!Total(v) = Peaks!Total(u) /\ Peaks!Total(vv) = Peaks!Total(uu)
        /\ Peaks!Cardinality(DOMAIN v) = Peaks!Cardinality(DOMAIN u)
    BY <1>1, MovedTotal
  <1> QED
    BY <1>2 DEF Peaks!Exceeds

(* ee is dd without its first s sessions.                                  *)
Rest(ee, dd, s) ==
    \E m \in Nat : /\ s \in 0 .. m /\ DOMAIN dd = 1 .. m /\ DOMAIN ee = 1 .. (m - s)
                   /\ \A i \in 1 .. (m - s) : ee[i] = dd[i + s]
                   /\ \A i \in 1 .. m : dd[i] \in PeakSession

LEMMA RestDays ==
  ASSUME NEW dd, NEW ee, NEW s, Rest(ee, dd, s)
  PROVE  \E m \in Nat :
           /\ s \in 0 .. m /\ DOMAIN dd = 1 .. m /\ DOMAIN ee = 1 .. (m - s)
           /\ \A i \in 1 .. (m - s) : ee[i] = dd[i + s] /\ i + s \in 1 .. m
           /\ \A i \in 1 .. m : dd[i] \in PeakSession
           /\ \A i \in 1 .. (m - s) : Peaks!Visible(ee, i) = Peaks!Visible(dd, i + s)
           /\ Peaks!TradingDays(ee) \in SUBSET (1 .. (m - s))
           /\ Peaks!TradingDays(dd) \in SUBSET (1 .. m)
           /\ \A i \in 1 .. (m - s) :
                i \in Peaks!TradingDays(ee) <=> i + s \in Peaks!TradingDays(dd)
PROOF
  <1>1. PICK m \in Nat : /\ s \in 0 .. m /\ DOMAIN dd = 1 .. m /\ DOMAIN ee = 1 .. (m - s)
                         /\ \A i \in 1 .. (m - s) : ee[i] = dd[i + s]
                         /\ \A i \in 1 .. m : dd[i] \in PeakSession
    BY DEF Rest
  <1>2. \A i \in 1 .. (m - s) : i + s \in 1 .. m
    BY <1>1
  <1>3. \A i \in 1 .. (m - s) : Peaks!Visible(ee, i) = Peaks!Visible(dd, i + s)
    BY <1>1, <1>2 DEF Peaks!Visible
  <1>4. \A i \in 1 .. (m - s) :
          i \in Peaks!TradingDays(ee) <=> i + s \in Peaks!TradingDays(dd)
    BY <1>1, <1>2, <1>3 DEF Peaks!TradingDays
  <1> QED
    BY <1>1, <1>2, <1>3, <1>4 DEF Peaks!TradingDays

LEMMA PeakConstants ==
    /\ BaselineDays \in Nat \ {0} /\ PeakLookback \in Nat \ {0} /\ IsFiniteSet(PeakMinutes)
    /\ PeakMinutes \subseteq Nat /\ PeakCutoff \in Nat /\ PeakLag \in Nat
  BY InstancesAssumption
  DEF Peaks!PeaksAssumption, Peaks!IsFiniteSet, IsFiniteSet

(* A session with its whole baseline loaded is classified as with all.     *)
LEMMA LockedClass ==
  ASSUME NEW dd, NEW ee, NEW s, Rest(ee, dd, s), NEW i \in Peaks!TradingDays(ee),
         Peaks!Cardinality(Peaks!Before(Peaks!TradingDays(ee), i)) >= BaselineDays
  PROVE  Peaks!Classified(ee, i) = Peaks!Classified(dd, i + s)
PROOF
  <1> DEFINE V == Peaks!Before(Peaks!TradingDays(ee), i)
             W == Peaks!Before(Peaks!TradingDays(dd), i + s)
             seen == Peaks!Visible(ee, i)
             base(t) == Peaks!Observations(ee, V, t)
             whole(t) == Peaks!Observations(dd, W, t)
             vol == [t \in seen |-> ee[i][t].vol]
             old(t) == [j \in base(t) |-> ee[j][t].vol]
             all(t) == [j \in whole(t) |-> dd[j][t].vol]
             C == {t \in seen : Peaks!Cardinality(base(t)) >= BaselineMinObs}
             E == {t \in C : Peaks!Exceeds(ee[i][t].vol, old(t))}
             D == {t \in C : Peaks!Exceeds(dd[i + s][t].vol, all(t))}
  <1>1. PICK m \in Nat :
           /\ s \in 0 .. m /\ DOMAIN dd = 1 .. m /\ DOMAIN ee = 1 .. (m - s)
           /\ \A j \in 1 .. (m - s) : ee[j] = dd[j + s] /\ j + s \in 1 .. m
           /\ \A j \in 1 .. m : dd[j] \in PeakSession
           /\ \A j \in 1 .. (m - s) : Peaks!Visible(ee, j) = Peaks!Visible(dd, j + s)
           /\ Peaks!TradingDays(ee) \in SUBSET (1 .. (m - s))
           /\ Peaks!TradingDays(dd) \in SUBSET (1 .. m)
           /\ \A j \in 1 .. (m - s) :
                j \in Peaks!TradingDays(ee) <=> j + s \in Peaks!TradingDays(dd)
    BY RestDays
  <1>2. /\ s \in Nat /\ s <= m /\ i \in 1 .. (m - s) /\ i \in Int /\ BaselineDays \in Nat
        /\ BaselineDays # 0
    BY <1>1, PeakConstants
  <1>3. /\ W \in SUBSET (1 .. m) /\ V \in SUBSET (1 .. (m - s))
        /\ \A j \in 1 .. (m - s) : j \in V <=> j + s \in W
    BY <1>1, <1>2 DEF Peaks!Before
  <1>4. Cardinality(V) >= BaselineDays
    BY DEF Peaks!Cardinality, Cardinality
  <1>5. \A S, n : Peaks!Latest(S, n) = Recent(S, n)
    BY DEF Peaks!Latest, Recent, Peaks!Cardinality, Cardinality
  <1> HIDE DEF V, W
  <1>6. Recent(W, BaselineDays) = {j + s : j \in Recent(V, BaselineDays)}
    <2>1. Behind(V, W, s, m)
      BY <1>2, <1>3 DEF Behind
    <2> QED
      BY <1>2, <1>4, <2>1, RecentTail
  <1>7. Recent(V, BaselineDays) \in SUBSET V
    BY DEF Recent
  <1>8. \A t : /\ base(t) \in SUBSET (1 .. (m - s))
               /\ whole(t) = {j + s : j \in base(t)}
    <2> TAKE t
    <2>1. base(t) = {j \in Recent(V, BaselineDays) : t \in Peaks!Visible(ee, j)}
      BY <1>5 DEF Peaks!Observations
    <2>2. whole(t) = {j \in {l + s : l \in Recent(V, BaselineDays)} : t \in Peaks!Visible(dd, j)}
      BY <1>5, <1>6 DEF Peaks!Observations
    <2>3. \A l \in Recent(V, BaselineDays) :
            l \in 1 .. (m - s) /\ Peaks!Visible(ee, l) = Peaks!Visible(dd, l + s)
      BY <1>1, <1>3, <1>7
    <2> QED
      BY <2>1, <2>2, <2>3
  <1> HIDE DEF base, whole
  <1>9. ASSUME NEW t \in seen PROVE Moved(old(t), all(t), s)
    <2>1. t \in PeakMinutes
      BY DEF Peaks!Visible
    <2>2. \A j \in 1 .. m : dd[j][t].vol \in Int
      BY <1>1, <2>1 DEF PeakSession
    <2>3. \A j \in base(t) : /\ j \in Int /\ ee[j] = dd[j + s] /\ ee[j][t].vol \in Int
                             /\ j + s \in whole(t)
      BY <1>1, <1>8, <2>2
    <2>4. IsFiniteSet(base(t)) /\ base(t) \in SUBSET Int
      <3>1. 1 \in Int /\ m - s \in Int
        BY <1>2
      <3> QED
        BY <1>8, <2>3, <3>1, FS_Interval, FS_Subset
    <2>5. DOMAIN old(t) = base(t) /\ DOMAIN all(t) = {j + s : j \in base(t)}
      BY <1>8
    <2>6. \A j \in base(t) : old(t)[j] \in Int /\ all(t)[j + s] = old(t)[j]
      BY <2>3
    <2> HIDE DEF old, all
    <2> QED
      BY <1>2, <2>4, <2>5, <2>6 DEF Moved
  <1>10. ee[i] = dd[i + s] /\ seen = Peaks!Visible(dd, i + s)
    BY <1>1, <1>2
  <1>11. E = D
    <2> SUFFICES ASSUME NEW t \in seen
                 PROVE  Peaks!Exceeds(ee[i][t].vol, old(t))
                          <=> Peaks!Exceeds(dd[i + s][t].vol, all(t))
      OBVIOUS
    <2>1. Moved(old(t), all(t), s)
      BY <1>9
    <2> HIDE DEF old, all
    <2> QED
      BY <1>10, <2>1, MovedExceeds
  <1>12. C = {t \in seen : Peaks!Cardinality(whole(t)) >= BaselineMinObs}
    <2> SUFFICES ASSUME NEW t \in seen
                 PROVE  Peaks!Cardinality(whole(t)) = Peaks!Cardinality(base(t))
      OBVIOUS
    <2>1. Moved(old(t), all(t), s)
      BY <1>9
    <2>2. DOMAIN old(t) = base(t) /\ DOMAIN all(t) = whole(t)
      OBVIOUS
    <2> HIDE DEF old, all
    <2> QED
      BY <2>1, <2>2, MovedTotal
  <1>13. Peaks!Classified(ee, i) =
                [seen |-> seen, classifiable |-> C, valley |-> C \ E,
                 peak |-> {t \in E : Peaks!Isolated(t, seen, C \ E)},
                 ridge |-> E \ {t \in E : Peaks!Isolated(t, seen, C \ E)}]
    BY DEF Peaks!Classified, base, V
  <1>14. Peaks!Classified(dd, i + s) =
                [seen |-> seen, classifiable |-> C, valley |-> C \ D,
                 peak |-> {t \in D : Peaks!Isolated(t, seen, C \ D)},
                 ridge |-> D \ {t \in D : Peaks!Isolated(t, seen, C \ D)}]
    BY <1>10, <1>12 DEF Peaks!Classified, whole, W
  <1> HIDE DEF E, D
  <1> QED
    BY <1>11, <1>13, <1>14

(* A locked session means to every factor what it means with all history.  *)
LEMMA LockedDay ==
  ASSUME NEW dd, NEW ee, NEW s, Rest(ee, dd, s), NEW i \in Peaks!TradingDays(ee),
         Peaks!Cardinality(Peaks!Before(Peaks!TradingDays(ee), i)) >= BaselineDays,
         NEW w, w = Peaks!Frame(ee), NEW v, v = Peaks!Frame(dd),
         NEW name \in Peaks!FactorNames
  PROVE  /\ w[i] = v[i + s]
         /\ Peaks!ValidDay(name, ee, w, i) <=> Peaks!ValidDay(name, dd, v, i + s)
         /\ Peaks!Contribution(name, ee, w, i) = Peaks!Contribution(name, dd, v, i + s)
PROOF
  <1>1. PICK m \in Nat :
           /\ s \in 0 .. m /\ DOMAIN dd = 1 .. m /\ DOMAIN ee = 1 .. (m - s)
           /\ \A j \in 1 .. (m - s) : ee[j] = dd[j + s] /\ j + s \in 1 .. m
           /\ \A j \in 1 .. m : dd[j] \in PeakSession
           /\ \A j \in 1 .. (m - s) : Peaks!Visible(ee, j) = Peaks!Visible(dd, j + s)
           /\ Peaks!TradingDays(ee) \in SUBSET (1 .. (m - s))
           /\ Peaks!TradingDays(dd) \in SUBSET (1 .. m)
           /\ \A j \in 1 .. (m - s) :
                j \in Peaks!TradingDays(ee) <=> j + s \in Peaks!TradingDays(dd)
    BY RestDays
  <1>2. /\ s \in Nat /\ s <= m /\ i \in 1 .. (m - s) /\ i \in Int /\ m - s \in Nat
        /\ BaselineDays \in Nat /\ BaselineDays # 0
    BY <1>1, PeakConstants
  <1>3. /\ DOMAIN w = Peaks!TradingDays(ee) /\ DOMAIN v = Peaks!TradingDays(dd)
        /\ i + s \in DOMAIN v
        /\ \A j \in DOMAIN w : w[j].seen = Peaks!Visible(ee, j)
        /\ \A j \in DOMAIN v : v[j].seen = Peaks!Visible(dd, j)
    BY <1>1, <1>2 DEF Peaks!Frame, Peaks!Classified
  <1>4. w[i] = v[i + s]
    <2>1. w[i] = Peaks!Classified(ee, i) /\ v[i + s] = Peaks!Classified(dd, i + s)
      BY <1>3 DEF Peaks!Frame
    <2> QED
      BY <2>1, LockedClass
  <1>5. ee[i] = dd[i + s]
    BY <1>1, <1>2
  <1> DEFINE V == Peaks!Before(DOMAIN w, i)
             W == Peaks!Before(DOMAIN v, i + s)
             a == Peaks!Max(V)
             b == Peaks!Max(W)
  <1>6. V \in SUBSET (1 .. (m - s)) /\ W \in SUBSET (1 .. m)
    BY <1>1, <1>3 DEF Peaks!Before
  <1>7. \A j \in 1 .. (m - s) : j \in V <=> j + s \in W
    BY <1>1, <1>2, <1>3 DEF Peaks!Before
  <1>8. V # {}
    <2>1. Cardinality(V) >= BaselineDays
      BY <1>3 DEF Peaks!Cardinality, Cardinality
    <2> HIDE DEF V
    <2> QED
      BY <1>2, <2>1, FS_EmptySet
  <1>9. a \in V /\ b \in W /\ b = a + s
    <2>1. /\ V \in SUBSET (0 .. m) /\ W \in SUBSET (0 .. m) /\ W # {}
      BY <1>2, <1>6, <1>7, <1>8
    <2> HIDE DEF V, W
    <2>2. /\ \E x \in V : \A y \in V : x >= y
          /\ \E x \in W : \A y \in W : x >= y
      BY <1>8, <2>1, Extremes
    <2>3. /\ a \in V /\ \A y \in V : a >= y
          /\ b \in W /\ \A y \in W : b >= y
      BY <2>2 DEF Peaks!Max
    <2>4. a \in 1 .. (m - s) /\ a + s \in W /\ b >= a + s /\ b \in 1 .. m
      BY <1>6, <1>7, <2>3
    <2>5. b - s \in 1 .. (m - s) /\ (b - s) + s = b
      BY <1>2, <2>4
    <2>6. b - s \in V
      BY <1>7, <2>3, <2>5
    <2>7. a >= b - s
      BY <2>3, <2>6
    <2> QED
      BY <1>2, <2>3, <2>4, <2>7
  <1>10. Peaks!PreviousClose(ee, w, i) = Peaks!PreviousClose(dd, v, i + s)
    <2>1. /\ a \in DOMAIN w /\ b \in DOMAIN v /\ a \in 1 .. (m - s)
      BY <1>6, <1>9 DEF Peaks!Before
    <2>2. ee[a] = dd[b] /\ w[a].seen = v[b].seen
      BY <1>1, <1>3, <1>9, <2>1
    <2>3. W # {}
      BY <1>9
    <2> QED
      BY <1>8, <2>2, <2>3 DEF Peaks!PreviousClose
  <1> HIDE DEF V, W, a, b
  <1>11. Peaks!PriceRange(ee, w, i) = Peaks!PriceRange(dd, v, i + s)
    BY <1>4, <1>5, <1>10 DEF Peaks!PriceRange
  <1>12. Peaks!PriceQuantile(ee, w, i) = Peaks!PriceQuantile(dd, v, i + s)
    BY <1>4, <1>5, <1>11 DEF Peaks!PriceQuantile
  <1>13. Peaks!Contribution(name, ee, w, i) = Peaks!Contribution(name, dd, v, i + s)
    BY <1>4, <1>5, <1>12 DEF Peaks!Contribution, Peaks!FactorNames
  <1>14. Peaks!QuantileFloor(ee, w, i) <=> Peaks!QuantileFloor(dd, v, i + s)
    BY <1>4, <1>5, <1>10, <1>11 DEF Peaks!QuantileFloor
  <1>15. Peaks!ValidDay(name, ee, w, i) <=> Peaks!ValidDay(name, dd, v, i + s)
    BY <1>4, <1>5, <1>14 DEF Peaks!ValidDay
  <1> QED
    BY <1>4, <1>13, <1>15

LEMMA LockedValue ==
  ASSUME NEW dd, NEW ee, NEW s, Rest(ee, dd, s), NEW w, w = Peaks!Frame(ee),
         NEW v, v = Peaks!Frame(dd), NEW name \in Peaks!FactorNames,
         NEW part, part = Peaks!Series(name, ee, w), NEW i \in DOMAIN part,
         Peaks!Cardinality({j \in DOMAIN part : j <= i /\ Peaks!Locked(w, j)}) >= PeakLookback
  PROVE  Peaks!SameValue(part[i], Peaks!Series(name, dd, v)[i + s], s)
PROOF
  <1> DEFINE E == {j \in DOMAIN w : Peaks!ValidDay(name, ee, w, j)}
             D == {j \in DOMAIN v : Peaks!ValidDay(name, dd, v, j)}
             deep(j) == Peaks!Cardinality(Peaks!Before(Peaks!TradingDays(ee), j)) >= BaselineDays
             A == {j \in E : j <= i}
             B == {j \in D : j <= i + s}
             S == {j \in E : j <= i /\ deep(j)}
             T == {j + s : j \in S}
             L == Recent(S, PeakLookback)
  <1>1. PICK m \in Nat :
           /\ s \in 0 .. m /\ DOMAIN dd = 1 .. m /\ DOMAIN ee = 1 .. (m - s)
           /\ \A j \in 1 .. (m - s) : ee[j] = dd[j + s] /\ j + s \in 1 .. m
           /\ \A j \in 1 .. m : dd[j] \in PeakSession
           /\ \A j \in 1 .. (m - s) : Peaks!Visible(ee, j) = Peaks!Visible(dd, j + s)
           /\ Peaks!TradingDays(ee) \in SUBSET (1 .. (m - s))
           /\ Peaks!TradingDays(dd) \in SUBSET (1 .. m)
           /\ \A j \in 1 .. (m - s) :
                j \in Peaks!TradingDays(ee) <=> j + s \in Peaks!TradingDays(dd)
    BY RestDays
  <1>2. DOMAIN w = Peaks!TradingDays(ee) /\ DOMAIN v = Peaks!TradingDays(dd)
    BY DEF Peaks!Frame
  <1>3. /\ part = [j \in E |->
              Peaks!Reduced(name, ee, w, Peaks!Latest({l \in E : l <= j}, PeakLookback))]
        /\ Peaks!Series(name, dd, v) = [j \in D |->
              Peaks!Reduced(name, dd, v, Peaks!Latest({l \in D : l <= j}, PeakLookback))]
    BY DEF Peaks!Series
  <1>4. \A j : Peaks!Locked(w, j) <=> deep(j)
    BY <1>2 DEF Peaks!Locked, Peaks!LockingOffset
  <1>5. i \in E /\ Cardinality(S) >= PeakLookback
    <2>1. DOMAIN part = E
      BY <1>3
    <2>2. S = {j \in DOMAIN part : j <= i /\ Peaks!Locked(w, j)}
      BY <1>4, <2>1
    <2> HIDE DEF S, E
    <2>3. Peaks!Cardinality(S) >= PeakLookback
      BY <2>2
    <2> QED
      BY <2>1, <2>3 DEF Peaks!Cardinality, Cardinality
  <1>6. /\ s \in Nat /\ s <= m /\ m - s \in Nat /\ BaselineDays \in Nat
        /\ PeakLookback \in Nat /\ PeakLookback # 0
    BY <1>1, PeakConstants
  <1>7. /\ \A j \in DOMAIN w : j \in 1 .. (m - s) /\ j \in Int
        /\ \A j \in DOMAIN v : j \in 1 .. m /\ j \in Int
        /\ \A j \in 1 .. (m - s) : j \in DOMAIN w <=> j + s \in DOMAIN v
        /\ i \in Int /\ i \in DOMAIN w
    BY <1>1, <1>2, <1>5
  <1>8. ASSUME NEW x \in DOMAIN w, NEW y \in DOMAIN w, deep(x), x <= y PROVE deep(y)
    <2> DEFINE X == Peaks!Before(Peaks!TradingDays(ee), x)
               Y == Peaks!Before(Peaks!TradingDays(ee), y)
    <2>1. X \in SUBSET Y /\ Y \in SUBSET (1 .. (m - s))
      BY <1>1, <1>2, <1>7, <1>8 DEF Peaks!Before
    <2>2. IsFiniteSet(1 .. (m - s))
      <3>1. 1 \in Int /\ m - s \in Int
        BY <1>6
      <3> QED
        BY <3>1, FS_Interval
    <2> HIDE DEF X, Y
    <2>3. /\ Cardinality(X) <= Cardinality(Y) /\ Cardinality(X) \in Nat
          /\ Cardinality(Y) \in Nat
      BY <2>1, <2>2, FS_Subset, FS_CardinalityType
    <2>4. Cardinality(X) >= BaselineDays
      BY <1>8 DEF X, Peaks!Cardinality, Cardinality
    <2>5. Cardinality(Y) >= BaselineDays
      BY <1>6, <2>3, <2>4
    <2> QED
      BY <2>5 DEF Y, Peaks!Cardinality, Cardinality
  <1>9. ASSUME NEW j \in DOMAIN w, deep(j)
        PROVE  /\ j + s \in DOMAIN v /\ w[j] = v[j + s]
               /\ j \in E <=> j + s \in D
               /\ Peaks!Contribution(name, ee, w, j) = Peaks!Contribution(name, dd, v, j + s)
    <2>1. j \in Peaks!TradingDays(ee) /\ j + s \in DOMAIN v
      BY <1>2, <1>7
    <2> QED
      BY <1>9, <2>1, LockedDay
  <1> HIDE DEF E, D
  <1>10. E \in SUBSET DOMAIN w /\ D \in SUBSET DOMAIN v
    BY DEF E, D
  <1> HIDE DEF deep
  <1>11. /\ A \in SUBSET Int /\ IsFiniteSet(A) /\ B \in SUBSET Int /\ IsFiniteSet(B)
         /\ S \in SUBSET A /\ T \in SUBSET B /\ S \in SUBSET Int /\ IsFiniteSet(S)
    <2>1. A \in SUBSET (1 .. m) /\ B \in SUBSET (1 .. m)
      <3>1. \A j \in DOMAIN w : j \in 1 .. m
        BY <1>6, <1>7
      <3> QED
        BY <1>7, <1>10, <3>1
    <2>2. IsFiniteSet(1 .. m)
      <3>1. 1 \in Int /\ m \in Int
        OBVIOUS
      <3> QED
        BY <3>1, FS_Interval
    <2>3. S \in SUBSET A
      OBVIOUS
    <2>4. T \in SUBSET B
      <3> SUFFICES ASSUME NEW j \in S PROVE j + s \in B
        OBVIOUS
      <3>1. j \in DOMAIN w /\ deep(j) /\ j \in E /\ j <= i /\ j \in Int
        BY <1>7, <1>10
      <3>2. j + s \in D /\ j + s <= i + s
        BY <1>6, <1>7, <1>9, <3>1
      <3> QED
        BY <3>2
    <2>5. A \in SUBSET Int /\ B \in SUBSET Int
      BY <1>7, <1>10
    <2> HIDE DEF A, B, S, T
    <2> QED
      BY <2>1, <2>2, <2>3, <2>4, <2>5, FS_Subset
  <1>12. Recent(S, PeakLookback) = Recent(A, PeakLookback)
    <2>1. ASSUME NEW x \in S, NEW y \in A, y > x PROVE y \in S
      <3>1. x \in DOMAIN w /\ y \in DOMAIN w /\ deep(x) /\ x <= y
        BY <1>7, <1>10, <2>1
      <3> QED
        BY <1>8, <2>1, <3>1
    <2>2. ASSUME NEW z \in A \ S
          PROVE  \E R \in SUBSET A : Cardinality(R) >= PeakLookback /\ \A y \in R : y > z
      <3>1. ASSUME NEW y \in S PROVE y > z
        <4>1. y \in DOMAIN w /\ z \in DOMAIN w /\ deep(y) /\ y \in Int /\ z \in Int
          BY <1>7, <1>10
        <4>2. ~deep(z)
          OBVIOUS
        <4> QED
          BY <1>8, <4>1, <4>2
      <3> HIDE DEF S
      <3> QED
        BY <1>5, <1>11, <3>1
    <2> HIDE DEF A, S
    <2> QED
      BY <1>6, <1>11, <2>1, <2>2, RecentPart
  <1>13. IsFiniteSet(T) /\ Cardinality(T) = Cardinality(S)
    <2> HIDE DEF S
    <2>1. s \in Int /\ S \in SUBSET Int /\ IsFiniteSet(S)
      BY <1>6, <1>11
    <2> QED
      BY <2>1, ShiftedSize
  <1>14. Recent(T, PeakLookback) = Recent(B, PeakLookback)
    <2>1. ASSUME NEW j \in S, NEW y \in B, y >= j + s PROVE y \in T
      <3>1. /\ j \in DOMAIN w /\ deep(j) /\ j \in Int /\ y \in 1 .. m /\ y \in DOMAIN v /\ y \in D
            /\ y <= i + s /\ j \in 1 .. (m - s)
        BY <1>7, <1>10
      <3>2. /\ y - s \in 1 .. (m - s) /\ (y - s) + s = y /\ j <= y - s /\ y - s <= i
        BY <1>6, <1>7, <2>1, <3>1
      <3>3. y - s \in DOMAIN w
        BY <1>7, <3>1, <3>2
      <3>4. deep(y - s)
        BY <1>8, <3>1, <3>2, <3>3
      <3>5. y - s \in E
        BY <1>9, <3>1, <3>2, <3>3, <3>4
      <3>6. y - s \in S
        BY <3>2, <3>4, <3>5
      <3> QED
        BY <3>2, <3>6
    <2>2. ASSUME NEW x \in T, NEW y \in B, y > x PROVE y \in T
      <3>1. PICK j \in S : x = j + s
        OBVIOUS
      <3>2. y >= j + s
        BY <1>6, <1>11, <2>2, <3>1
      <3> QED
        BY <2>1, <3>2
    <2>3. ASSUME NEW z \in B \ T
          PROVE  \E R \in SUBSET B : Cardinality(R) >= PeakLookback /\ \A y \in R : y > z
      <3>1. ASSUME NEW y \in T PROVE y > z
        <4>1. PICK j \in S : y = j + s
          OBVIOUS
        <4>2. ~(z >= j + s)
          BY <2>1
        <4>3. j \in Int /\ z \in Int
          BY <1>11
        <4> QED
          BY <1>6, <4>1, <4>2, <4>3
      <3> HIDE DEF S, T
      <3> QED
        BY <1>5, <1>11, <1>13, <3>1
    <2> HIDE DEF B, T
    <2> QED
      BY <1>6, <1>11, <2>2, <2>3, RecentPart
  <1>15. Recent(B, PeakLookback) = {j + s : j \in L}
    <2> HIDE DEF S
    <2>1. Recent(T, PeakLookback) = {j + s : j \in L}
      BY <1>6, <1>11, RecentShift
    <2> QED
      BY <1>14, <2>1
  <1>16. \A R : Peaks!Latest(R, PeakLookback) = Recent(R, PeakLookback)
    BY DEF Peaks!Latest, Recent, Peaks!Cardinality, Cardinality
  <1> DEFINE M == {j + s : j \in L}
  <1>17. L \in SUBSET S
    BY DEF Recent
  <1>18. \A j \in L : j \in DOMAIN w /\ deep(j) /\ j \in E /\ j \in Int
    BY <1>7, <1>10, <1>17
  <1>19. i + s \in D
    <2>1. PICK j \in S : TRUE
      <3> HIDE DEF S
      <3>1. Cardinality(S) # 0
        BY <1>5, <1>6, <1>11, FS_CardinalityType
      <3> QED
        BY <3>1, FS_EmptySet
    <2>2. j \in DOMAIN w /\ deep(j) /\ j <= i
      BY <1>10
    <2>3. deep(i)
      BY <1>7, <1>8, <2>2
    <2> QED
      BY <1>5, <1>7, <1>9, <2>3
  <1> DEFINE P == [j \in L |-> Peaks!Contribution(name, ee, w, j)]
             Q == [j \in M |-> Peaks!Contribution(name, dd, v, j)]
  <1>20. part[i] = Peaks!Reduced(name, ee, w, L)
    BY <1>3, <1>5, <1>12, <1>16
  <1>21. Peaks!Series(name, dd, v)[i + s] = Peaks!Reduced(name, dd, v, M)
    BY <1>3, <1>15, <1>16, <1>19
  <1> HIDE DEF A, B, S, T, L
  <1>22. /\ DOMAIN P = L /\ DOMAIN Q = M
         /\ \A j \in L : j + s \in M /\ Q[j + s] = P[j]
         /\ \A x \in M : \E j \in L : x = j + s
    BY <1>9, <1>18
  <1>23. L \in SUBSET Int /\ IsFiniteSet(L)
    BY <1>11, <1>17, FS_Subset
  <1>24. Peaks!Cardinality(M) = Peaks!Cardinality(L)
    <2>1. s \in Int
      BY <1>6
    <2>2. Cardinality(M) = Cardinality(L)
      BY <1>23, <2>1, ShiftedSize
    <2> QED
      BY <2>2 DEF Peaks!Cardinality, Cardinality
  <1>25. name = "kurtosis" => (Peaks!Degenerate(Q) <=> Peaks!Degenerate(P))
    <2> SUFFICES ASSUME name = "kurtosis" PROVE Peaks!Degenerate(Q) <=> Peaks!Degenerate(P)
      OBVIOUS
    <2> DEFINE few == [j \in DOMAIN P |-> Peaks!Cardinality(DOMAIN P[j])]
               all == [j \in DOMAIN Q |-> Peaks!Cardinality(DOMAIN Q[j])]
    <2>1. ASSUME NEW j \in L PROVE Peaks!Cardinality(DOMAIN P[j]) \in Int
      <3> DEFINE c == w[j]
      <3>1. P[j] = Peaks!Intervals(c.seen, c.peak)
        BY DEF Peaks!Contribution
      <3>2. c.peak \in SUBSET PeakMinutes
        <4>1. c = Peaks!Classified(ee, j)
          BY <1>18 DEF Peaks!Frame
        <4>2. Peaks!Classified(ee, j).peak \in SUBSET Peaks!Visible(ee, j)
          BY DEF Peaks!Classified
        <4>3. Peaks!Visible(ee, j) \in SUBSET PeakMinutes
          BY DEF Peaks!Visible
        <4> QED
          BY <4>1, <4>2, <4>3
      <3> HIDE DEF c, P
      <3>3. DOMAIN P[j] \in SUBSET PeakMinutes
        BY <3>1, <3>2 DEF Peaks!Intervals
      <3>4. Cardinality(DOMAIN P[j]) \in Nat
        BY <3>3, PeakConstants, FS_Subset, FS_CardinalityType
      <3> QED
        BY <3>4 DEF Peaks!Cardinality, Cardinality
    <2> HIDE DEF P, Q
    <2>2. Moved(few, all, s)
      <3>1. DOMAIN few = L /\ DOMAIN all = {j + s : j \in L}
        BY <1>22
      <3>2. \A j \in L : few[j] \in Int /\ all[j + s] = few[j]
        BY <1>22, <2>1
      <3>3. s \in Int
        BY <1>6
      <3> HIDE DEF few, all
      <3> QED
        BY <1>23, <3>1, <3>2, <3>3 DEF Moved
    <2>3. Peaks!Total(all) = Peaks!Total(few)
      BY <2>2, MovedTotal
    <2>4. {{Q[j][t] : t \in DOMAIN Q[j]} : j \in DOMAIN Q}
            = {{P[j][t] : t \in DOMAIN P[j]} : j \in DOMAIN P}
      <3> DEFINE F(z) == {z[t] : t \in DOMAIN z}
      <3>1. /\ {{Q[j][t] : t \in DOMAIN Q[j]} : j \in DOMAIN Q} = {F(Q[j]) : j \in M}
            /\ {{P[j][t] : t \in DOMAIN P[j]} : j \in DOMAIN P} = {F(P[j]) : j \in L}
        BY <1>22
      <3> HIDE DEF F, M
      <3>2. {F(Q[j]) : j \in M} = {F(P[j]) : j \in L}
        BY <1>22
      <3> QED
        BY <3>1, <3>2
    <2> QED
      BY <2>3, <2>4 DEF Peaks!Degenerate
  <1>26. /\ Peaks!Reduced(name, ee, w, L)
              = IF Peaks!Cardinality(L) < PeakValidDays
                   \/ (name = "kurtosis" /\ Peaks!Degenerate(P))
                THEN [kind |-> "nan"] ELSE [kind |-> "value", pool |-> P]
         /\ Peaks!Reduced(name, dd, v, M)
              = IF Peaks!Cardinality(M) < PeakValidDays
                   \/ (name = "kurtosis" /\ Peaks!Degenerate(Q))
                THEN [kind |-> "nan"] ELSE [kind |-> "value", pool |-> Q]
    BY DEF Peaks!Reduced
  <1> HIDE DEF P, Q, M
  <1> QED
    BY <1>20, <1>21, <1>22, <1>24, <1>25, <1>26 DEF Peaks!SameValue

(* Isolation is seen, not presumed: one bar fewer leaves fewer peaks.      *)
LEMMA MissingBar ==
  ASSUME NEW m \in Nat, NEW dd, DOMAIN dd = 1 .. m, \A j \in 1 .. m : dd[j] \in PeakSession,
         NEW i \in 1 .. m, NEW t \in Peaks!Visible(dd, i), NEW ee,
         ee = [dd EXCEPT ![i][t] = Peaks!NoBar]
  PROVE  Peaks!Classified(ee, i).peak \subseteq Peaks!Classified(dd, i).peak
PROOF
  <1> DEFINE V == Peaks!Before(Peaks!TradingDays(dd), i)
             base(u) == Peaks!Observations(dd, V, u)
             seen == Peaks!Visible(dd, i)
             C == {u \in seen : Peaks!Cardinality(base(u)) >= BaselineMinObs}
             E == {u \in C : Peaks!Exceeds(dd[i][u].vol, [j \in base(u) |-> dd[j][u].vol])}
             rest == Peaks!Visible(ee, i)
             K == {u \in rest : Peaks!Cardinality(base(u)) >= BaselineMinObs}
             F == {u \in K : Peaks!Exceeds(ee[i][u].vol, [j \in base(u) |-> ee[j][u].vol])}
  <1>1. /\ DOMAIN ee = 1 .. m /\ \A j \in 1 .. m : j # i => ee[j] = dd[j]
        /\ t \in PeakMinutes /\ ee[i] = [dd[i] EXCEPT ![t] = Peaks!NoBar]
        /\ DOMAIN dd[i] = PeakMinutes
    BY DEF Peaks!Visible, PeakSession
  <1>2. /\ ee[i][t] = Peaks!NoBar /\ Peaks!NoBar.vol = -1
        /\ \A u \in PeakMinutes : u # t => ee[i][u] = dd[i][u]
    BY <1>1 DEF Peaks!NoBar
  <1>3. rest = seen \ {t}
    BY <1>2 DEF Peaks!Visible
  <1>4. \A j \in 1 .. m : j # i => Peaks!Visible(ee, j) = Peaks!Visible(dd, j)
    BY <1>1 DEF Peaks!Visible
  <1>5. V = Peaks!Before(Peaks!TradingDays(ee), i) /\ \A j \in V : j \in 1 .. m /\ j # i
    <2>1. /\ Peaks!TradingDays(dd) \in SUBSET (1 .. m) /\ i \in Int
          /\ \A j \in 1 .. m : j \in Int
      BY DEF Peaks!TradingDays
    <2>2. \A j : j # i => (j \in Peaks!TradingDays(dd) <=> j \in Peaks!TradingDays(ee))
      BY <1>1, <1>4 DEF Peaks!TradingDays
    <2>3. Peaks!TradingDays(ee) \in SUBSET (1 .. m)
      BY <1>1 DEF Peaks!TradingDays
    <2>4. \A j \in 1 .. m : j < i => j # i
      BY <2>1
    <2> QED
      BY <2>1, <2>2, <2>3, <2>4 DEF Peaks!Before
  <1>6. ASSUME NEW u PROVE base(u) \in SUBSET V /\ base(u) = Peaks!Observations(ee, V, u)
    BY <1>4, <1>5 DEF Peaks!Observations, Peaks!Latest
  <1>7. Peaks!Classified(dd, i).peak = {u \in E : Peaks!Isolated(u, seen, C \ E)}
    BY DEF Peaks!Classified
  <1>8. Peaks!Classified(ee, i).peak = {u \in F : Peaks!Isolated(u, rest, K \ F)}
    <2> HIDE DEF V, base
    <2> QED
      BY <1>5, <1>6 DEF Peaks!Classified
  <1> HIDE DEF base, seen, rest, V
  <1>9. ASSUME NEW u \in rest
        PROVE  /\ ee[i][u] = dd[i][u]
               /\ [j \in base(u) |-> ee[j][u].vol] = [j \in base(u) |-> dd[j][u].vol]
    <2>1. u # t /\ u \in PeakMinutes
      BY <1>3 DEF seen, Peaks!Visible
    <2>2. \A j \in base(u) : ee[j] = dd[j]
      BY <1>1, <1>5, <1>6
    <2> QED
      BY <1>2, <2>1, <2>2
  <1>10. K = C \ {t}
    BY <1>3
  <1>11. \A u \in rest : u \in F <=> u \in E
    BY <1>3, <1>9, <1>10
  <1>12. F = E \ {t}
    BY <1>3, <1>10, <1>11
  <1> HIDE DEF C, E, K, F
  <1>13. \A u \in F : Peaks!Isolated(u, rest, K \ F) => Peaks!Isolated(u, seen, C \ E)
    BY <1>10, <1>12 DEF Peaks!Isolated
  <1> QED
    BY <1>7, <1>8, <1>12, <1>13

PeakStart == days = << >> => frame = << >>

LEMMA PeakStarts ==
    /\ MCInit => PeakInv /\ PeakStart
    /\ PeakInv /\ PeakStart /\ [MCNext]_mcVars => PeakStart'
PROOF
  <1>1. ASSUME MCInit PROVE PeakInv /\ PeakStart
    <2>1. days = << >> /\ frame = << >>
      BY <1>1 DEF MCInit, Peaks!Init
    <2> QED
      BY <2>1 DEF PeakInv, PeakStart
  <1>2. ASSUME PeakInv, PeakStart, [MCNext]_mcVars PROVE PeakStart'
    <2>1. days \in Seq(PeakSession)
      BY <1>2 DEF PeakInv
    <2>2. CASE UNCHANGED peakVars
      BY <1>2, <2>2 DEF peakVars, PeakStart
    <2>3. CASE Peaks!NextSession
      <3>1. PICK s : days' = Append(days, s)
        BY <2>3 DEF Peaks!NextSession
      <3>2. days' # << >>
        BY <2>1, <3>1
      <3> QED
        BY <3>2 DEF PeakStart
    <2>4. CASE Peaks!Afternoon
      <3>1. PICK s : days' = [days EXCEPT ![Len(days)] = s] /\ days # << >>
        BY <2>4 DEF Peaks!Afternoon
      <3>2. DOMAIN days' = DOMAIN days /\ DOMAIN days = 1 .. Len(days) /\ Len(days) \in Nat
            /\ Len(days) # 0
        BY <2>1, <3>1
      <3>3. Len(days) \in DOMAIN days'
        BY <3>2
      <3>4. days' # << >>
        BY <3>3
      <3> QED
        BY <3>4 DEF PeakStart
    <2> QED
      BY <1>2, <2>2, <2>3, <2>4 DEF MCNext, mcVars, Peaks!Next
  <1> QED
    BY <1>1, <1>2

(* For any sessions, floors and windows: a session with LockingOffset      *)
(* trading days loaded before it is classified as with the whole history,  *)
(* a factor with LookbackDays locked valid days has the value of the whole *)
(* history, and a missing minute makes no peak of another (valley, peak    *)
(* and ridge classification; materialize stops loading on the strength of  *)
(* it).                                                                    *)
THEOREM PeaksAreLocked == MCSpec => []PeaksAreEarned
PROOF
  <1>1. ASSUME PeakInv PROVE Peaks!HistoryIsLocked
    <2> SUFFICES ASSUME NEW k \in 2 .. Len(days), NEW w, w = Peaks!Frame(Peaks!From(k))
                 PROVE  /\ \A i \in DOMAIN w : Peaks!Locked(w, i) => w[i] = frame[i + k - 1]
                        /\ \A name \in Peaks!FactorNames :
                             \A part \in {Peaks!Series(name, Peaks!From(k), w)} :
                               \A i \in DOMAIN part :
                                 Peaks!Cardinality({j \in DOMAIN part :
                                                      j <= i /\ Peaks!Locked(w, j)}) >= PeakLookback
                                 => Peaks!SameValue(part[i], value[name][i + k - 1], k - 1)
      BY DEF Peaks!HistoryIsLocked
    <2> DEFINE ee == Peaks!From(k)
               s == k - 1
    <2>1. /\ days \in Seq(PeakSession) /\ Len(days) \in Nat /\ DOMAIN days = 1 .. Len(days)
          /\ k \in Nat /\ 2 <= k /\ k <= Len(days) /\ days # << >>
          /\ \A i \in 1 .. Len(days) : days[i] \in PeakSession
      BY <1>1 DEF PeakInv
    <2>2. /\ frame = Peaks!Frame(days)
          /\ \A name \in Peaks!FactorNames : value[name] = Peaks!Series(name, days, frame)
      BY <1>1, <2>1 DEF PeakInv
    <2>3. Rest(ee, days, s)
      <3> DEFINE m == Len(days)
      <3>1. ee = [i \in 1 .. (m - k + 1) |-> days[i + k - 1]]
        BY <2>1 DEF Peaks!From
      <3>2. /\ s \in 0 .. m /\ DOMAIN ee = 1 .. (m - s)
            /\ \A i \in 1 .. (m - s) : ee[i] = days[i + s]
        <4>1. m - k + 1 = m - s /\ \A i \in Int : i + k - 1 = i + s
          BY <2>1
        <4> HIDE DEF ee
        <4> QED
          BY <2>1, <3>1, <4>1
      <3> HIDE DEF ee, s
      <3> QED
        BY <2>1, <3>2 DEF Rest
    <2>4. \A i \in DOMAIN w : i \in Int /\ i + k - 1 = i + s
      <3>1. DOMAIN w \in SUBSET Int
        BY <2>3, RestDays DEF Peaks!Frame
      <3> QED
        BY <2>1, <3>1
    <2> HIDE DEF ee, s
    <2>5. ASSUME NEW i \in DOMAIN w, Peaks!Locked(w, i) PROVE w[i] = frame[i + s]
      <3>1. DOMAIN w = Peaks!TradingDays(ee)
        BY DEF Peaks!Frame, ee
      <3>2. /\ i \in Peaks!TradingDays(ee)
            /\ Peaks!Cardinality(Peaks!Before(Peaks!TradingDays(ee), i)) >= BaselineDays
        BY <2>5, <3>1 DEF Peaks!Locked, Peaks!LockingOffset
      <3>3. "count" \in Peaks!FactorNames
        BY DEF Peaks!FactorNames
      <3> QED
        BY <2>2, <2>3, <3>2, <3>3, LockedDay DEF ee
    <2>6. ASSUME NEW name \in Peaks!FactorNames, NEW part, part = Peaks!Series(name, ee, w),
                 NEW i \in DOMAIN part,
                 Peaks!Cardinality({j \in DOMAIN part : j <= i /\ Peaks!Locked(w, j)})
                   >= PeakLookback
          PROVE  Peaks!SameValue(part[i], value[name][i + s], s)
      <3>1. Peaks!SameValue(part[i], Peaks!Series(name, days, frame)[i + s], s)
        BY <2>2, <2>3, <2>6, LockedValue DEF ee
      <3> QED
        BY <2>2, <3>1
    <2>7. \A name, part : part = Peaks!Series(name, ee, w) => \A i \in DOMAIN part : i \in DOMAIN w
      BY DEF Peaks!Series
    <2> QED
      BY <2>4, <2>5, <2>6, <2>7 DEF ee, s
  <1>2. ASSUME PeakInv, PeakStart PROVE Peaks!MissingBarsMakeNoPeak
    <2> SUFFICES ASSUME NEW i \in {Len(days)} \cap DOMAIN frame, NEW t \in frame[i].seen
                 PROVE  Peaks!Classified([days EXCEPT ![i][t] = Peaks!NoBar], i).peak
                          \subseteq frame[i].peak
      BY DEF Peaks!MissingBarsMakeNoPeak
    <2>1. days # << >>
      BY <1>2 DEF PeakStart
    <2>2. /\ frame = Peaks!Frame(days) /\ days \in Seq(PeakSession) /\ Len(days) \in Nat
          /\ DOMAIN days = 1 .. Len(days) /\ \A j \in 1 .. Len(days) : days[j] \in PeakSession
      BY <1>2, <2>1 DEF PeakInv
    <2>3. i \in 1 .. Len(days) /\ frame[i] = Peaks!Classified(days, i)
      BY <2>2 DEF Peaks!Frame, Peaks!TradingDays
    <2>4. t \in Peaks!Visible(days, i)
      BY <2>3 DEF Peaks!Classified
    <2> QED
      BY <2>2, <2>3, <2>4, MissingBar
  <1>3. PeakInv /\ PeakStart => PeaksAreEarned
    BY <1>1, <1>2 DEF PeaksAreEarned
  <1> QED
    BY <1>3, PeakStarts, PeakNext, PTL DEF MCSpec
=============================================================================
