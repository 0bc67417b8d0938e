------------------------- MODULE PointInTime_proofs -------------------------
(***************************************************************************)
(* A later run decides a past day as the run of that day did, for every    *)
(* set of symbols, horizon, training window and length of the history.     *)
(***************************************************************************)
EXTENDS PointInTime, FiniteSetTheorems, TLAPS

USE PointInTimeAssumption

LEMMA InitType == Init => TypeOK
  BY DEF Init, TypeOK, Days

LEMMA StepType == TypeOK /\ [Next]_vars => TypeOK'
<1> SUFFICES ASSUME TypeOK, [Next]_vars PROVE TypeOK'
  OBVIOUS
<1>1. today \in Nat /\ (today < LastDay => today + 1 \in Days)
  BY DEF TypeOK, Days
<1>2. 1 .. today \subseteq 1 .. today + 1 /\ today + 1 \in 1 .. today + 1
  BY <1>1
<1>a. ASSUME today' = today + 1
      PROVE  /\ snapshots \subseteq [date : 1..today', members : SUBSET Symbols]
             /\ reports \subseteq [ann : 1..today', end : 1..today']
             /\ industry \subseteq [in : 1..today', out : {Open} \cup 1..today']
             /\ bars \in [Symbols -> SUBSET (1..today')]
  BY <1>2, <1>a DEF TypeOK
<1>3. CASE PublishSnapshot
  <2>1. today' = today + 1 /\ today' \in Days /\ UNCHANGED <<feed, reports, industry, bars>>
    BY <1>1, <1>3 DEF PublishSnapshot, Passes
  <2>2. snapshots' \subseteq [date : 1..today', members : SUBSET Symbols]
    BY <1>2, <1>3, <1>a, <2>1 DEF PublishSnapshot
  <2> QED
    BY <1>a, <2>1, <2>2 DEF TypeOK
<1>4. CASE Disclose
  <2>1. today' = today + 1 /\ today' \in Days /\ UNCHANGED <<feed, snapshots, industry, bars>>
    BY <1>1, <1>4 DEF Disclose, Passes
  <2>2. reports' \subseteq [ann : 1..today', end : 1..today']
    BY <1>2, <1>4, <1>a, <2>1 DEF Disclose
  <2> QED
    BY <1>a, <2>1, <2>2 DEF TypeOK
<1>5. CASE Reclassify
  <2>1. today' = today + 1 /\ today' \in Days /\ UNCHANGED <<feed, snapshots, reports, bars>>
    BY <1>1, <1>5 DEF Reclassify, Passes
  <2>2. industry' \subseteq [in : 1..today', out : {Open} \cup 1..today']
    BY <1>2, <1>5, <1>a, <2>1 DEF Reclassify
  <2> QED
    BY <1>a, <2>1, <2>2 DEF TypeOK
<1>6. CASE Trade
  <2>1. today' = today + 1 /\ today' \in Days /\ UNCHANGED <<feed, snapshots, reports, industry>>
    BY <1>1, <1>6 DEF Trade, Passes
  <2>2. bars' \in [Symbols -> SUBSET (1..today')]
    BY <1>2, <1>6, <1>a, <2>1 DEF Trade
  <2> QED
    BY <1>a, <2>1, <2>2 DEF TypeOK
<1>7. CASE UNCHANGED vars
  BY <1>7 DEF vars, TypeOK
<1> QED
  BY <1>3, <1>4, <1>5, <1>6, <1>7 DEF Next

-----------------------------------------------------------------------------
(***************************************************************************)
(* The as-of joins.                                                        *)
(***************************************************************************)
LEMMA SnapshotsKeepThePast ==
    ASSUME TypeOK, Next, NEW d \in 1..today
    PROVE  Members(d)' = Members(d)
<1>1. PICK new : /\ snapshots' = snapshots \cup new /\ snapshots \cap new = {}
                 /\ \A s \in new : d < s.date
  <2>1. d \in Nat /\ today \in Nat /\ d <= today
    BY DEF TypeOK, Days
  <2>2. CASE PublishSnapshot
    <3>1. PICK members \in SUBSET Symbols :
             snapshots' = IF members = {} THEN snapshots
                          ELSE snapshots \cup {[date |-> today', members |-> members]}
      BY <2>2 DEF PublishSnapshot
    <3>2. today' = today + 1
      BY <2>2 DEF PublishSnapshot, Passes
    <3>3. \A s \in snapshots : s.date <= today
      BY <2>1 DEF TypeOK
    <3>4. CASE members = {}
      BY <3>1, <3>4
    <3>5. CASE members # {}
      <4> DEFINE new == {[date |-> today', members |-> members]}
      <4>1. snapshots' = snapshots \cup new /\ \A s \in new : s.date = today'
        BY <3>1, <3>5
      <4>2. \A s \in new : d < s.date /\ s \notin snapshots
        BY <2>1, <3>2, <3>3, <4>1
      <4> HIDE DEF new
      <4> QED
        BY <4>1, <4>2
    <3> QED
      BY <3>4, <3>5
  <2>3. CASE ~PublishSnapshot
    <3> DEFINE new == {}
    <3>1. snapshots' = snapshots
      BY <2>3 DEF Next, Disclose, Reclassify, Trade
    <3>2. snapshots' = snapshots \cup new /\ snapshots \cap new = {} /\ \A s \in new : d < s.date
      BY <3>1
    <3> HIDE DEF new
    <3> QED
      BY <3>2
  <2> QED
    BY <2>2, <2>3
<1>2. \A s \in new : ~(s.date <= d)
  <2>1. \A s \in new : s.date \in Nat
    <3>1. TypeOK'
      BY StepType
    <3> QED
      BY <1>1, <3>1 DEF TypeOK
  <2> QED
    BY <1>1, <2>1 DEF TypeOK, Days
<1> QED
  BY <1>1, <1>2 DEF Members

LEMMA ReportsKeepThePast ==
    ASSUME TypeOK, Next, NEW d \in 1..today
    PROVE  AsofFinancials(d)' = AsofFinancials(d)
<1>1. d \in Nat /\ today \in Nat /\ d <= today
  BY DEF TypeOK, Days
<1>2. PICK new : reports' = reports \cup new /\ \A r \in new : ~(r.ann <= d)
  <2>1. CASE Disclose
    <3>1. PICK ends \in SUBSET (1..today') :
             reports' = reports \cup {[ann |-> today', end |-> e] : e \in ends}
      BY <2>1 DEF Disclose
    <3>2. today' = today + 1
      BY <2>1 DEF Disclose, Passes
    <3> DEFINE new == {[ann |-> today', end |-> e] : e \in ends}
    <3>3. \A r \in new : ~(r.ann <= d)
      BY <1>1, <3>2
    <3> HIDE DEF new
    <3> QED
      BY <3>1, <3>3 DEF new
  <2>2. CASE ~Disclose
    <3> DEFINE new == {}
    <3>1. reports' = reports
      BY <2>2 DEF Next, PublishSnapshot, Reclassify, Trade
    <3>2. reports' = reports \cup new /\ \A r \in new : ~(r.ann <= d)
      BY <3>1
    <3> HIDE DEF new
    <3> QED
      BY <3>2
  <2> QED
    BY <2>1, <2>2
<1> QED
  BY <1>2 DEF AsofFinancials, Fresher

(* A membership that ends today still covers every earlier day.            *)
LEMMA IndustriesKeepThePast ==
    ASSUME TypeOK, Next, NEW d \in 1..today
    PROVE  AsofIndustry(d)' = AsofIndustry(d)
<1>1. d \in Nat /\ today \in Nat /\ d <= today
  BY DEF TypeOK, Days
<1>2. CASE Reclassify
  <2>1. PICK ended \in SUBSET {i \in industry : i.out = Open}, starts \in BOOLEAN :
           industry' = (industry \ ended)
                         \cup {[i EXCEPT !.out = today'] : i \in ended}
                         \cup (IF starts THEN {[in |-> today', out |-> Open]} ELSE {})
    BY <1>2 DEF Reclassify
  <2>2. today' = today + 1
    BY <1>2 DEF Reclassify, Passes
  <2>3. \A i \in industry : i = [in |-> i.in, out |-> i.out] /\ i.in \in Nat
    BY DEF TypeOK
  <2> DEFINE covering == {i \in industry : Covers(i, d)}
             covering2 == {i \in industry' : Covers(i, d)}
  <2>4. ASSUME NEW i \in industry'
        PROVE  Covers(i, d) => \E j \in covering : j.in = i.in
    <3>1. CASE i \in industry \ ended
      BY <3>1
    <3>2. ASSUME NEW j \in ended, i = [j EXCEPT !.out = today']
          PROVE  Covers(i, d) => \E k \in covering : k.in = i.in
      <4>1. i.in = j.in /\ i.out = today' /\ j.out = Open /\ j \in industry
        BY <2>3, <3>2
      <4> QED
        BY <4>1 DEF Covers
    <3>3. CASE i = [in |-> today', out |-> Open]
      BY <1>1, <2>2, <3>3 DEF Covers
    <3> QED
      BY <2>1, <3>1, <3>2, <3>3
  <2>5. ASSUME NEW i \in covering PROVE \E j \in covering2 : j.in = i.in
    <3>1. CASE i \in ended
      <4>1. [i EXCEPT !.out = today'] \in industry'
        BY <2>1, <3>1
      <4>2. [i EXCEPT !.out = today'].in = i.in /\ [i EXCEPT !.out = today'].out = today'
        BY <2>3
      <4>3. d < today' /\ i.in <= d
        BY <1>1, <2>2 DEF Covers
      <4>4. Covers([i EXCEPT !.out = today'], d)
        BY <4>2, <4>3 DEF Covers
      <4> QED
        BY <4>1, <4>2, <4>4
    <3>2. CASE i \notin ended
      BY <2>1, <3>2
    <3> QED
      BY <3>1, <3>2
  <2>6. /\ \A i \in covering2 : \E j \in covering : j.in = i.in
        /\ \A j \in covering : \E i \in covering2 : j.in = i.in
    BY <2>4, <2>5
  <2>7. AsofIndustry(d) = {i.in : i \in {m \in covering : \A o \in covering : o.in <= m.in}}
    BY DEF AsofIndustry
  <2>8. AsofIndustry(d)' = {i.in : i \in {m \in covering2 : \A o \in covering2 : o.in <= m.in}}
    BY DEF AsofIndustry, Covers
  <2> HIDE DEF covering, covering2
  <2> QED
    BY <2>6, <2>7, <2>8
<1>3. CASE ~Reclassify
  BY <1>3 DEF Next, PublishSnapshot, Disclose, Trade, AsofIndustry, Covers
<1> QED
  BY <1>2, <1>3

(* Whatever is published, disclosed or reclassified later, and in whatever *)
(* order, a replay joins a past day to the records the run of that day saw.*)
THEOREM ReplayedRecords == Spec => RecordsKeepThePast
<1>1. TypeOK /\ [Next]_vars =>
        [\A d \in 1..today : /\ Members(d)' = Members(d)
                             /\ AsofFinancials(d)' = AsofFinancials(d)
                             /\ AsofIndustry(d)' = AsofIndustry(d)]_vars
  BY SnapshotsKeepThePast, ReportsKeepThePast, IndustriesKeepThePast
<1> QED
  BY InitType, StepType, <1>1, PTL DEF Spec, RecordsKeepThePast

-----------------------------------------------------------------------------
(***************************************************************************)
(* The weights.  Without suspensions the rows of a symbol have no gap, so  *)
(* the Horizon-th later row of a day is no later than the Horizon-th later *)
(* day of the calendar: once the calendar says that a day's return is      *)
(* realised, no later row of the symbol can change it.                     *)
(***************************************************************************)
NoGaps == \A s \in Symbols : \A x, y \in bars[s] : x .. y \subseteq bars[s]

(* A step adds at most the row of its own day.                             *)
LEMMA BarsGrow ==
    ASSUME TypeOK, Next
    PROVE  /\ today \in Nat /\ today' = today + 1
           /\ \A s \in Symbols : /\ bars[s] \subseteq 1..today /\ bars'[s] \subseteq 1..today + 1
                                 /\ bars[s] \subseteq bars'[s]
                                 /\ bars'[s] \subseteq bars[s] \cup {today + 1}
<1>1. today \in Nat /\ today' = today + 1
  BY DEF Next, PublishSnapshot, Disclose, Reclassify, Trade, Passes, TypeOK, Days
<1>2. \A s \in Symbols : bars[s] \subseteq 1..today
  BY DEF TypeOK
<1>3. \A s \in Symbols : bars[s] \subseteq bars'[s] /\ bars'[s] \subseteq bars[s] \cup {today + 1}
  <2>1. CASE Trade
    BY <1>1, <2>1 DEF Trade
  <2>2. CASE ~Trade
    BY <2>2 DEF Next, PublishSnapshot, Disclose, Reclassify
  <2> QED
    BY <2>1, <2>2
<1>4. 1..today \subseteq 1..today + 1 /\ today + 1 \in 1..today + 1
  BY <1>1
<1> QED
  BY <1>1, <1>2, <1>3, <1>4

LEMMA StepNoGaps ==
    ASSUME TypeOK, NoGaps, Suspensions = FALSE, [Next]_vars
    PROVE  NoGaps'
<1>1. CASE Next
  <2> SUFFICES ASSUME NEW s \in Symbols, NEW x \in bars'[s], NEW y \in bars'[s], NEW z \in x .. y
               PROVE  z \in bars'[s]
    BY DEF NoGaps
  <2>1. /\ today \in Nat
        /\ bars[s] \subseteq 1..today /\ bars'[s] \subseteq bars[s] \cup {today + 1}
        /\ bars[s] \subseteq bars'[s]
    BY <1>1, BarsGrow
  <2>2. x \in Nat /\ y \in Nat /\ z \in Int /\ x <= z /\ z <= y
    BY <2>1
  <2>3. CASE y \in bars[s]
    <3>1. x \in bars[s]
      BY <2>1, <2>2, <2>3
    <3> QED
      BY <2>1, <2>3, <3>1 DEF NoGaps
  <2>4. CASE y \notin bars[s]
    <3>1. y = today + 1
      BY <2>1, <2>4
    <3>2. CASE x = y
      BY <2>2, <3>2
    <3>3. CASE x # y
      <4>1. x \in bars[s]
        BY <2>1, <3>1, <3>3
      <4>2. MayTrade(s)
        BY <1>1, <2>4, <3>1 DEF Next, PublishSnapshot, Disclose, Reclassify, Trade
      <4>3. today \in bars[s]
        BY <4>1, <4>2 DEF MayTrade
      <4>4. z \in x .. today \/ z = y
        BY <2>1, <2>2, <3>1
      <4> QED
        BY <2>1, <4>1, <4>3, <4>4 DEF NoGaps
    <3> QED
      BY <3>2, <3>3
  <2> QED
    BY <2>3, <2>4
<1>2. CASE UNCHANGED vars
  BY <1>2 DEF vars, NoGaps
<1> QED
  BY <1>1, <1>2

(* The calendar of the past is fixed, and so is what it calls realised.    *)
LEMMA WindowsKeepThePast ==
    ASSUME TypeOK, Next, NEW d \in 1..today
    PROVE  Realized(d)' = Realized(d) /\ TrainingWindow(d)' = TrainingWindow(d)
<1> DEFINE cal == Calendar
           cal2 == UNION {bars'[s] : s \in Symbols}
<1>1. /\ today \in Nat /\ d \in Nat /\ d <= today
      /\ cal \subseteq 1..today /\ cal \subseteq cal2 /\ cal2 \subseteq cal \cup {today + 1}
  BY BarsGrow DEF Calendar
<1>2. Calendar' = cal2
  BY DEF Calendar
<1> HIDE DEF cal, cal2
<1>3. ASSUME NEW t
      PROVE  {x \in cal2 : t < x /\ x <= d} = {x \in cal : t < x /\ x <= d}
  <2>1. \A x \in cal2 : x <= d => x \in cal
    BY <1>1
  <2> QED
    BY <1>1, <2>1
<1>5. {x \in cal : today + 1 < x /\ x <= d} = {}
  <2>1. \A x \in cal : ~(today + 1 < x)
    BY <1>1
  <2> QED
    BY <2>1
<1>6. Horizon \in Nat \ {0}
  BY DEF PointInTimeAssumption
<1>7. ~(Cardinality({x \in cal : today + 1 < x /\ x <= d}) >= Horizon)
  BY <1>5, <1>6, FS_EmptySet
<1>8. Realized(d)' = Realized(d)
  <2> DEFINE Old == {t \in cal :
                        Cardinality({x \in cal : t < x /\ x <= d}) >= Horizon}
             New == {t \in cal2 :
                        Cardinality({x \in cal2 : t < x /\ x <= d}) >= Horizon}
  <2>1. New = {t \in cal2 : Cardinality({x \in cal : t < x /\ x <= d}) >= Horizon}
    BY <1>3
  <2>2. ASSUME NEW t \in cal2, t \notin cal
        PROVE  ~(Cardinality({x \in cal : t < x /\ x <= d}) >= Horizon)
    BY <1>1, <1>7, <2>2
  <2>3. New = Old
    BY <1>1, <2>1, <2>2
  <2>4. Realized(d)' = New
    BY <1>2 DEF Realized
  <2>5. Realized(d) = Old
    BY DEF Realized, cal
  <2> QED
    BY <2>3, <2>4, <2>5
<1> QED
  BY <1>8 DEF TrainingWindow

LEMMA PairsKeepThePast ==
    ASSUME TypeOK, NoGaps, NoGaps', Next, NEW d \in 1..today, NEW t \in Realized(d)
    PROVE  IC(t)' = IC(t)
<1>1. /\ today \in Nat /\ today' = today + 1 /\ d \in Nat /\ d <= today
      /\ \A s \in Symbols : /\ bars[s] \subseteq 1..today /\ bars[s] \subseteq bars'[s]
                            /\ bars'[s] \subseteq bars[s] \cup {today + 1}
  BY BarsGrow
<1>2. Horizon \in Nat \ {0}
  BY DEF PointInTimeAssumption
<1> DEFINE past == {x \in Calendar : t < x /\ x <= d}
<1>3. Calendar \subseteq 1..today /\ t \in Calendar /\ Cardinality(past) >= Horizon
  BY <1>1 DEF Realized, Calendar
<1>4. t \in Nat /\ t <= today
  BY <1>1, <1>3
(* A return that was realised stays so, by the same row.                   *)
<1>5. ASSUME NEW s \in Symbols, NEW u \in 1..today PROVE Realises(s, t, u)' <=> Realises(s, t, u)
  <2>1. /\ t \in bars'[s] <=> t \in bars[s]
        /\ u \in bars'[s] <=> u \in bars[s]
        /\ {x \in bars'[s] : t < x /\ x <= u} = {x \in bars[s] : t < x /\ x <= u}
    BY <1>1, <1>4
  <2> QED
    BY <2>1 DEF Realises
(* The new row realises nothing that old: there are too many before it.    *)
<1>6. ASSUME NEW s \in Symbols, NEW u, u = today + 1, Realises(s, t, u)' PROVE FALSE
  <2> DEFINE rows == {x \in bars'[s] : t < x /\ x <= today + 1}
  <2>1. t \in bars'[s] /\ today + 1 \in bars'[s] /\ Cardinality(rows) = Horizon
    BY <1>1, <1>6 DEF Realises
  <2>2. t .. today + 1 \subseteq bars'[s]
    BY <2>1 DEF NoGaps
  <2>3. past \subseteq t .. today + 1
    <3>1. \A x \in Calendar : x \in Nat /\ (t < x /\ x <= d => x \in t .. today + 1)
      BY <1>1, <1>3, <1>4
    <3> QED
      BY <3>1
  <2>4. past \cup {today + 1} \subseteq rows
    BY <1>1, <1>4, <2>1, <2>2, <2>3
  <2>5. today + 1 \notin past
    BY <1>1
  <2>6. IsFiniteSet(1..today + 1) /\ rows \subseteq 1..today + 1
    <3>1. rows \subseteq bars'[s] /\ bars'[s] \subseteq 1..today + 1
      BY BarsGrow
    <3>2. 1 \in Int /\ today + 1 \in Int
      BY <1>1
    <3> QED
      BY <3>1, <3>2, FS_Interval
  <2> HIDE DEF past, rows
  <2>7. IsFiniteSet(rows) /\ IsFiniteSet(past)
    <3>1. IsFiniteSet(rows)
      BY <2>6, FS_Subset
    <3> QED
      BY <2>4, <3>1, FS_Subset
  <2>8. Cardinality(past \cup {today + 1}) = Cardinality(past) + 1
    BY <2>5, <2>7, FS_AddElement
  <2>9. Cardinality(past \cup {today + 1}) <= Cardinality(rows)
    BY <2>4, <2>7, FS_Subset
  <2>10. Cardinality(past) \in Nat /\ Cardinality(rows) \in Nat
    BY <2>7, FS_CardinalityType
  <2> QED
    BY <1>2, <1>3, <2>1, <2>8, <2>9, <2>10
<1>7. IC(t)' = {p \in Symbols \X {t} \X (1..today + 1) : Realises(p[1], p[2], p[3])'}
  BY <1>1 DEF IC, Realises
<1>8. ASSUME NEW p \in Symbols \X {t} \X (1..today + 1), Realises(p[1], p[2], p[3])'
      PROVE  p \in Symbols \X {t} \X (1..today) /\ Realises(p[1], p[2], p[3])
  <2>1. p[1] \in Symbols /\ p[2] = t /\ p[3] \in 1..today + 1 /\ p = <<p[1], p[2], p[3]>>
    OBVIOUS
  <2>2. p[3] # today + 1
    BY <1>6, <1>8, <2>1, Zenon
  <2>3. p[3] \in 1..today
    BY <1>1, <2>1, <2>2
  <2> QED
    BY <1>5, <1>8, <2>1, <2>3
<1>9. ASSUME NEW p \in Symbols \X {t} \X (1..today), Realises(p[1], p[2], p[3])
      PROVE  p \in Symbols \X {t} \X (1..today + 1) /\ Realises(p[1], p[2], p[3])'
  <2>1. p[1] \in Symbols /\ p[2] = t /\ p[3] \in 1..today /\ p = <<p[1], p[2], p[3]>>
    OBVIOUS
  <2>2. p[3] \in 1..today + 1
    BY <1>1, <2>1
  <2> QED
    BY <1>5, <1>9, <2>1, <2>2
<1> QED
  BY <1>7, <1>8, <1>9 DEF IC

LEMMA PastWeights ==
    ASSUME TypeOK, NoGaps, NoGaps', Next, NEW d \in 1..today
    PROVE  WeightsFor(d)' = WeightsFor(d)
<1>1. TrainingWindow(d)' = TrainingWindow(d)
  BY WindowsKeepThePast
<1>2. \A t \in TrainingWindow(d) : IC(t)' = IC(t)
  BY PairsKeepThePast DEF TrainingWindow
<1> DEFINE valid == {t \in TrainingWindow(d) : Cardinality(IC(t)) >= 2}
           Weights(some, pairs) == IF Cardinality(some) < MinPeriods THEN {} ELSE UNION pairs
<1>3. valid' = valid
  BY <1>1, <1>2
<1>4. {IC(t) : t \in valid}' = {IC(t) : t \in valid}
  BY <1>2, <1>3
<1>5. WeightsFor(d) = Weights(valid, {IC(t) : t \in valid})
  BY DEF WeightsFor
<1>6. WeightsFor(d)' = Weights(valid', {IC(t) : t \in valid}')
  BY DEF WeightsFor
<1> HIDE DEF valid
<1> QED
  BY <1>3, <1>4, <1>5, <1>6

(* Without suspensions, the bars a replay has and the run of the day had   *)
(* not change neither the training pairs of that day nor the fallback.     *)
THEOREM ReplayedWeights ==
    ASSUME Suspensions = FALSE
    PROVE  Spec => WeightsKeepThePast
<1>1. Init => TypeOK /\ NoGaps
  <2>1. Init => NoGaps
    BY DEF Init, NoGaps
  <2> QED
    BY <2>1, InitType
<1>2. TypeOK /\ NoGaps /\ [Next]_vars => TypeOK' /\ NoGaps'
  BY StepType, StepNoGaps
<1>3. TypeOK /\ NoGaps /\ [Next]_vars => [\A d \in 1..today : WeightsFor(d)' = WeightsFor(d)]_vars
  BY StepNoGaps, PastWeights
<1> QED
  BY <1>1, <1>2, <1>3, PTL DEF Spec, WeightsKeepThePast

-----------------------------------------------------------------------------
(***************************************************************************)
(* No look-ahead.  A return spans Horizon rows of its symbol, the window   *)
(* counts Horizon days of the calendar: where the symbol has a row on each *)
(* of these days, the first is over when the second is.                    *)
(***************************************************************************)
TradedThroughout(p) == Calendar \cap (p[2] .. p[3]) \subseteq bars[p[1]]

TradedPairsAreRealized ==
    \A d \in 1..today : \A p \in WeightsFor(d) : TradedThroughout(p) => p[3] <= d

(* The pairs behind the weights of a day are of days it calls realised.    *)
LEMMA UsedPairs ==
    ASSUME NEW d, NEW p \in WeightsFor(d)
    PROVE  /\ p[1] \in Symbols /\ p[2] \in Realized(d) /\ p[3] \in 1..today
           /\ Realises(p[1], p[2], p[3])
<1>1. PICK t \in TrainingWindow(d) : p \in IC(t)
  BY DEF WeightsFor
<1>2. p[1] \in Symbols /\ p[2] = t /\ p[3] \in 1..today /\ Realises(p[1], p[2], p[3])
  BY <1>1 DEF IC
<1> QED
  BY <1>1, <1>2 DEF TrainingWindow

LEMMA RealisedInTime ==
    ASSUME TypeOK, NEW d \in 1..today, NEW s \in Symbols, NEW t \in Realized(d),
           NEW u \in 1..today, Realises(s, t, u), Calendar \cap (t .. u) \subseteq bars[s]
    PROVE  u <= d
<1> SUFFICES ASSUME ~(u <= d) PROVE FALSE
  OBVIOUS
<1>1. /\ today \in Nat /\ Horizon \in Nat /\ d \in 1..today
      /\ \A r \in Symbols : bars[r] \subseteq 1..today
  BY DEF TypeOK, Days, PointInTimeAssumption
<1> DEFINE past == {x \in Calendar : t < x /\ x <= d}
           rows == {x \in bars[s] : t < x /\ x <= u}
<1>2. Calendar \subseteq 1..today
  BY <1>1 DEF Calendar
<1>3. t \in 1..today /\ t < u /\ u \in bars[s] /\ Cardinality(rows) = Horizon
      /\ Cardinality(past) >= Horizon
  BY <1>2 DEF Realized, Realises
<1>4. \A x \in past : x \in rows
  <2> SUFFICES ASSUME NEW x \in Calendar, t < x, x <= d PROVE x \in rows
    OBVIOUS
  <2>1. x \in 1..today
    BY <1>2
  <2>2. x \in t .. u /\ x <= u
    BY <1>1, <1>3, <2>1
  <2> QED
    BY <2>2
<1>5. u \in rows /\ u \notin past
  BY <1>1, <1>3
<1>6. IsFiniteSet(1..today) /\ rows \subseteq 1..today
  <2>1. IsFiniteSet(1..today)
    BY <1>1, FS_Interval
  <2> QED
    BY <1>1, <2>1
<1> HIDE DEF past, rows
<1>7. past \cup {u} \subseteq rows /\ past \subseteq rows
  BY <1>4, <1>5
<1>8. IsFiniteSet(rows) /\ IsFiniteSet(past)
  <2>1. IsFiniteSet(rows)
    BY <1>6, FS_Subset
  <2> QED
    BY <1>7, <2>1, FS_Subset
<1>9. Cardinality(past \cup {u}) = Cardinality(past) + 1
  BY <1>5, <1>8, FS_AddElement
<1>10. Cardinality(past \cup {u}) <= Cardinality(rows)
  BY <1>7, <1>8, FS_Subset
<1>11. Cardinality(past) \in Nat /\ Cardinality(rows) \in Nat
  BY <1>8, FS_CardinalityType
<1> QED
  BY <1>1, <1>3, <1>9, <1>10, <1>11

LEMMA TradedPairsHold == TypeOK => TradedPairsAreRealized
<1> SUFFICES ASSUME TypeOK, NEW d \in 1..today, NEW p \in WeightsFor(d), TradedThroughout(p)
             PROVE  p[3] <= d
  BY DEF TradedPairsAreRealized
<1> QED
  BY UsedPairs, RealisedInTime DEF TradedThroughout

(* Whatever is suspended, the weights of a day rest on no return that is   *)
(* still open that day, but for symbols that were suspended within it.     *)
THEOREM TradedPairsRealized == Spec => []TradedPairsAreRealized
<1>1. TypeOK /\ [Next]_vars => TypeOK'
  BY StepType
<1> QED
  BY InitType, <1>1, TradedPairsHold, PTL DEF Spec

(* A symbol without gaps has a row on every day between two of its rows.   *)
LEMMA WithoutGaps == TypeOK /\ NoGaps => OnlyRealized
<1> SUFFICES ASSUME TypeOK, NoGaps, NEW d \in 1..today, NEW p \in WeightsFor(d)
             PROVE  p[3] <= d
  BY DEF OnlyRealized
<1>1. p[1] \in Symbols /\ p[2] \in bars[p[1]] /\ p[3] \in bars[p[1]]
  BY UsedPairs DEF Realises
<1>2. p[2] .. p[3] \subseteq bars[p[1]]
  BY <1>1 DEF NoGaps
<1>3. TradedThroughout(p)
  BY <1>2 DEF TradedThroughout
<1> QED
  BY <1>3, TradedPairsHold DEF TradedPairsAreRealized

(* The contract of the walk-forward weights, where nothing is suspended:   *)
(* no training pair is realised after the day it is used on.               *)
THEOREM WeightsAreRealized ==
    ASSUME Suspensions = FALSE
    PROVE  Spec => []OnlyRealized
<1>1. Init => TypeOK /\ NoGaps
  <2>1. Init => NoGaps
    BY DEF Init, NoGaps
  <2> QED
    BY <2>1, InitType
<1>2. TypeOK /\ NoGaps /\ [Next]_vars => TypeOK' /\ NoGaps'
  BY StepType, StepNoGaps
<1> QED
  BY <1>1, <1>2, WithoutGaps, PTL DEF Spec
=============================================================================
