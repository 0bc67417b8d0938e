-------------------------- MODULE MCStores_proofs --------------------------
(***************************************************************************)
(* The artifact of the factor value store, for every number of symbols,    *)
(* callers and days, every lookback depth and revision horizon.            *)
(***************************************************************************)
EXTENDS MCStores, FiniteSetTheorems, WellFoundedInduction, TLAPS

USE InstancesAssumption DEF Artifact!FactorAssumption

-----------------------------------------------------------------------------
(***************************************************************************)
(* The window of a date, and what the materializer computes.               *)
(***************************************************************************)
LEMMA WindowBounds ==
    ASSUME NEW d \in Nat \ {0}
    PROVE  Artifact!Window(d) \subseteq 1 .. d /\ d \in Artifact!Window(d)
  BY DEF Artifact!Window, Artifact!Greater

(* A date's value does not depend on where the range that holds it starts. *)
LEMMA ValueOfARange ==
    ASSUME NEW s, NEW d \in 1 .. MaxDay, NEW from \in 1 .. d, NEW v
    PROVE  Artifact!Value(s, d, from, v) = Artifact!Value(s, d, 1, v)
<1>1. Artifact!Loaded(d, from) = Artifact!Window(d)
  BY DEF Artifact!Loaded, Artifact!Window, Artifact!Greater
<1>2. Artifact!Loaded(d, 1) = Artifact!Window(d)
  BY DEF Artifact!Loaded, Artifact!Window, Artifact!Greater
<1> QED
  BY <1>1, <1>2 DEF Artifact!Value

(* A window has no value when one of its rows is missing.                  *)
LEMMA ValueOfAWindow ==
    ASSUME NEW s, NEW d \in 1 .. MaxDay, NEW v, v # 0
    PROVE  IF \E x \in Artifact!Window(d) : input[s][x] = 0
             THEN Artifact!Value(s, d, 1, v) = Artifact!NaN
             ELSE /\ Artifact!Value(s, d, 1, v)
                       = [schema |-> v, saw |-> [x \in Artifact!Window(d) |-> input[s][x]]]
                  /\ Artifact!Value(s, d, 1, v) # Artifact!NaN
<1>1. Artifact!Loaded(d, 1) = Artifact!Window(d)
  BY DEF Artifact!Loaded, Artifact!Window, Artifact!Greater
<1>2. [schema |-> v, saw |-> [x \in Artifact!Window(d) |-> input[s][x]]] # Artifact!NaN
  BY DEF Artifact!NaN
<1> QED
  BY <1>1, <1>2 DEF Artifact!Value

(* A frame of cells up to last whose values saw whole windows of rows.     *)
Sound(f, last, rows_) ==
    /\ f = [c \in DOMAIN f |-> f[c]]
    /\ \A c \in DOMAIN f :
         /\ c \in Symbols \X (1 .. last)
         /\ f[c] # Artifact!NaN =>
              /\ \A x \in Artifact!Window(c[2]) : rows_[c[1]][x] # 0
              /\ DOMAIN f[c].saw = Artifact!Window(c[2])

(* What materialize_range computes: the cells of its range that have every *)
(* row of their window, with the value of a full column.                   *)
Computes(f, S, from, to, v) ==
    /\ f = [c \in DOMAIN f |-> f[c]]
    /\ \A c \in DOMAIN f :
         /\ c \in S \X (from .. to)
         /\ f[c] = Artifact!Value(c[1], c[2], 1, v)
         /\ f[c] = [schema |-> v, saw |-> [x \in Artifact!Window(c[2]) |-> input[c[1]][x]]]
         /\ f[c] # Artifact!NaN
         /\ \A x \in Artifact!Window(c[2]) : input[c[1]][x] # 0
    /\ \A c \in S \X (from .. to) :
         (\A x \in Artifact!Window(c[2]) : input[c[1]][x] # 0) => c \in DOMAIN f

LEMMA RangeIsComputed ==
    ASSUME NEW S, NEW to \in 1 .. MaxDay, NEW from \in Nat \ {0}, NEW v, v # 0
    PROVE  Computes(Artifact!Materialized(S, from, to, v), S, from, to, v)
<1> DEFINE f == Artifact!Materialized(S, from, to, v)
<1>1. /\ f = [c \in DOMAIN f |-> f[c]]
      /\ DOMAIN f = {c \in S \X (from .. to) : Artifact!Value(c[1], c[2], from, v) # Artifact!NaN}
      /\ \A c \in DOMAIN f : f[c] = Artifact!Value(c[1], c[2], from, v)
  BY DEF Artifact!Materialized
<1>2. ASSUME NEW c \in S \X (from .. to)
      PROVE  /\ c[2] \in 1 .. MaxDay
             /\ Artifact!Value(c[1], c[2], from, v) = Artifact!Value(c[1], c[2], 1, v)
  <2>1. c[2] \in 1 .. MaxDay /\ from \in 1 .. c[2]
    OBVIOUS
  <2> QED
    BY <2>1, ValueOfARange
<1> HIDE DEF f
<1>3. ASSUME NEW c \in DOMAIN f
      PROVE  /\ c \in S \X (from .. to)
             /\ f[c] = Artifact!Value(c[1], c[2], 1, v)
             /\ f[c] = [schema |-> v, saw |-> [x \in Artifact!Window(c[2]) |-> input[c[1]][x]]]
             /\ f[c] # Artifact!NaN
             /\ \A x \in Artifact!Window(c[2]) : input[c[1]][x] # 0
  <2>1. c \in S \X (from .. to) /\ Artifact!Value(c[1], c[2], 1, v) # Artifact!NaN
    BY <1>1, <1>2
  <2>2. c[2] \in 1 .. MaxDay /\ f[c] = Artifact!Value(c[1], c[2], 1, v)
    BY <1>1, <1>2, <2>1
  <2>3. ~\E x \in Artifact!Window(c[2]) : input[c[1]][x] = 0
    BY <2>1, <2>2, ValueOfAWindow
  <2>4. f[c] = [schema |-> v, saw |-> [x \in Artifact!Window(c[2]) |-> input[c[1]][x]]]
    BY <2>2, <2>3, ValueOfAWindow
  <2> QED
    BY <2>1, <2>2, <2>3, <2>4
<1>4. ASSUME NEW c \in S \X (from .. to), \A x \in Artifact!Window(c[2]) : input[c[1]][x] # 0
      PROVE  c \in DOMAIN f
  <2>1. c[2] \in 1 .. MaxDay /\ Artifact!Value(c[1], c[2], from, v) = Artifact!Value(c[1], c[2], 1, v)
    BY <1>2
  <2>2. Artifact!Value(c[1], c[2], 1, v) # Artifact!NaN
    BY <2>1, <1>4, ValueOfAWindow
  <2> QED
    BY <1>1, <2>1, <2>2
<1> QED
  BY <1>1, <1>3, <1>4 DEF Computes, f

LEMMA ComputedIsSound ==
    ASSUME NEW S \in SUBSET Symbols, NEW to \in 1 .. MaxDay, NEW from \in Nat \ {0}, NEW v, v # 0
    PROVE  Sound(Artifact!Materialized(S, from, to, v), to, input)
<1> DEFINE f == Artifact!Materialized(S, from, to, v)
<1>1. Computes(f, S, from, to, v)
  BY RangeIsComputed
<1> HIDE DEF f
<1>2. ASSUME NEW c \in DOMAIN f
      PROVE  c \in Symbols \X (1 .. to) /\ DOMAIN f[c].saw = Artifact!Window(c[2])
  <2>1. c \in S \X (from .. to)
    BY <1>1 DEF Computes
  <2>2. f[c] = [schema |-> v, saw |-> [x \in Artifact!Window(c[2]) |-> input[c[1]][x]]]
    BY <1>1 DEF Computes
  <2> QED
    BY <2>1, <2>2
<1>3. Sound(f, to, input)
  BY <1>1, <1>2 DEF Computes, Sound
<1> QED
  BY <1>3 DEF f

LEMMA MergeIs ==
    ASSUME NEW f, NEW g
    PROVE  LET m == Artifact!Merge(f, g)
           IN  /\ m = [c \in DOMAIN m |-> m[c]]
               /\ DOMAIN m = DOMAIN f \cup DOMAIN g
               /\ \A c \in DOMAIN g : m[c] = g[c]
               /\ \A c \in DOMAIN f : c \notin DOMAIN g => m[c] = f[c]
  BY DEF Artifact!Merge

LEMMA MergeIsSound ==
    ASSUME NEW f, NEW g, NEW last, NEW in, Sound(f, last, in), Sound(g, last, in)
    PROVE  Sound(Artifact!Merge(f, g), last, in)
<1> DEFINE m == Artifact!Merge(f, g)
<1>1. /\ m = [c \in DOMAIN m |-> m[c]]
      /\ DOMAIN m = DOMAIN f \cup DOMAIN g
      /\ \A c \in DOMAIN g : m[c] = g[c]
      /\ \A c \in DOMAIN f : c \notin DOMAIN g => m[c] = f[c]
  BY MergeIs
<1> HIDE DEF m
<1>2. Sound(m, last, in)
  BY <1>1 DEF Sound
<1> QED
  BY <1>2 DEF m

LEMMA RestrictIsSound ==
    ASSUME NEW f, NEW T \in SUBSET DOMAIN f, NEW last, NEW in, Sound(f, last, in)
    PROVE  /\ Sound(Artifact!Restrict(f, T), last, in)
           /\ DOMAIN Artifact!Restrict(f, T) = T
           /\ \A c \in T : Artifact!Restrict(f, T)[c] = f[c]
  BY DEF Artifact!Restrict, Sound

LEMMA NoRowsIsSound ==
    ASSUME NEW last, NEW in
    PROVE  Sound(Artifact!NoRows, last, in) /\ DOMAIN Artifact!NoRows = {}
  BY DEF Artifact!NoRows, Sound

LEMMA FootprintIsSound ==
    ASSUME NEW f, NEW S \in SUBSET Symbols, NEW last, NEW D \in SUBSET (1 .. last), NEW in,
           Sound(f, last, in)
    PROVE  /\ Sound(Artifact!Footprint(f, S, D), last, in)
           /\ DOMAIN Artifact!Footprint(f, S, D) = (S \X D) \cup DOMAIN f
<1> DEFINE blank == [c \in S \X D |-> Artifact!NaN]
<1>1. DOMAIN blank = S \X D /\ \A c \in S \X D : blank[c] = Artifact!NaN
  OBVIOUS
<1>2. blank = [c \in DOMAIN blank |-> blank[c]]
  OBVIOUS
<1>3. Artifact!Footprint(f, S, D) = Artifact!Merge(blank, f)
  BY DEF Artifact!Footprint
<1> HIDE DEF blank
<1>4. Sound(blank, last, in)
  BY <1>1, <1>2 DEF Sound
<1>5. Sound(Artifact!Merge(blank, f), last, in)
  BY <1>4, MergeIsSound
<1>6. DOMAIN Artifact!Merge(blank, f) = DOMAIN blank \cup DOMAIN f
  BY MergeIs
<1> QED
  BY <1>1, <1>3, <1>5, <1>6

(* Rows that upstream has, it keeps: sound frames stay sound.              *)
LEMMA SoundStays ==
    ASSUME NEW f, NEW last \in Nat, NEW later \in Nat, last <= later, NEW in, NEW after,
           Sound(f, last, in),
           \A s \in Symbols, x \in 1 .. last : in[s][x] # 0 => after[s][x] # 0
    PROVE  Sound(f, later, after)
<1>1. ASSUME NEW c \in DOMAIN f
      PROVE  /\ c \in Symbols \X (1 .. later)
             /\ f[c] # Artifact!NaN =>
                  /\ \A x \in Artifact!Window(c[2]) : after[c[1]][x] # 0
                  /\ DOMAIN f[c].saw = Artifact!Window(c[2])
  <2>1. c \in Symbols \X (1 .. last)
    BY DEF Sound
  <2>2. c[1] \in Symbols /\ c[2] \in Nat \ {0} /\ c[2] <= last /\ c \in Symbols \X (1 .. later)
    BY <2>1
  <2>3. Artifact!Window(c[2]) \subseteq 1 .. last
    BY <2>2, WindowBounds
  <2> QED
    BY <2>2, <2>3 DEF Sound
<1> QED
  BY <1>1 DEF Sound
-----------------------------------------------------------------------------
(***************************************************************************)
(* Sets of dates.                                                          *)
(***************************************************************************)
LEMMA FirstAndLast ==
    ASSUME NEW n \in Nat, NEW D \in SUBSET (1 .. n), D # {}
    PROVE  /\ Artifact!FirstOf(D) \in D /\ \A e \in D : Artifact!FirstOf(D) <= e
           /\ Artifact!LastOf(D) \in D /\ \A e \in D : Artifact!LastOf(D) >= e
<1>1. IsWellFoundedOn(OpToRel(<, Nat), Nat)
  BY NatLessThanWellFounded
<1>2. \E d \in D : \A e \in D : d <= e
  <2>1. D \in SUBSET Nat
    OBVIOUS
  <2>2. PICK d \in D : \A e \in D : ~(<<e, d>> \in OpToRel(<, Nat))
    BY <1>1, <2>1, WFMin
  <2>3. \A e \in D : ~(e < d)
    BY <2>1, <2>2 DEF OpToRel
  <2>4. \A e \in D : d <= e
    BY <2>3
  <2> QED
    BY <2>4
<1>3. \E d \in D : \A e \in D : d >= e
  <2> DEFINE M == {n - e : e \in D}
  <2>1. M \in SUBSET Nat /\ M # {}
    <3>1. \A e \in D : e \in Nat /\ n - e \in Nat
      OBVIOUS
    <3> QED
      BY <3>1
  <2>2. PICK m \in M : \A e \in M : ~(<<e, m>> \in OpToRel(<, Nat))
    BY <1>1, <2>1, WFMin
  <2>3. \A e \in M : ~(e < m)
    BY <2>1, <2>2 DEF OpToRel
  <2>4. PICK d \in D : m = n - d
    BY <2>2
  <2>5. ASSUME NEW e \in D PROVE d >= e
    <3>1. n - e \in M
      OBVIOUS
    <3>2. ~(n - e < n - d)
      BY <2>3, <2>4, <3>1
    <3>3. e \in Int /\ d \in Int /\ n \in Int
      OBVIOUS
    <3> QED
      BY <3>2, <3>3
  <2> QED
    BY <2>5
<1> QED
  BY <1>2, <1>3 DEF Artifact!FirstOf, Artifact!LastOf

After(D, d) == {e \in D : e > d}

LEMMA FiniteDates ==
    ASSUME NEW n \in Nat, NEW D \in SUBSET (1 .. n)
    PROVE  IsFiniteSet(D) /\ Cardinality(D) \in Nat
<1>1. IsFiniteSet(1 .. n)
  BY FS_Interval
<1>2. IsFiniteSet(D)
  BY <1>1, FS_Subset
<1> QED
  BY <1>2, FS_CardinalityType

(* A set of more than k dates has one that k of them follow.               *)
LEMMA Ranked ==
    ASSUME NEW n \in Nat, NEW D \in SUBSET (1 .. n), NEW k \in Nat, Cardinality(D) > k
    PROVE  \E d \in D : Cardinality(After(D, d)) = k
<1>i. \A e \in D : e \in Int
  OBVIOUS
<1> DEFINE C == {d \in D : Cardinality(After(D, d)) <= k}
<1>0. \A d \in D : After(D, d) \in SUBSET (1 .. n) /\ Cardinality(After(D, d)) \in Nat
  BY FiniteDates DEF After
<1>1. D # {} /\ Cardinality(D) \in Nat
  BY FiniteDates, FS_EmptySet
<1>2. C # {}
  <2>1. PICK d \in D : \A e \in D : d >= e
    BY <1>1, FirstAndLast
  <2>2. After(D, d) = {}
    <3>1. \A e \in D : d >= e /\ e \in Int /\ d \in Int
      BY <1>i, <2>1
    <3>2. \A e \in D : ~(e > d)
      BY <3>1
    <3> QED
      BY <3>2 DEF After
  <2> QED
    BY <2>2, FS_EmptySet
<1>3. PICK d \in C : \A e \in C : d <= e
  BY <1>2, FirstAndLast
<1>4. ASSUME Cardinality(After(D, d)) # k PROVE FALSE
  <2> DEFINE A == After(D, d)
             B == {e \in D : e < d}
  <2>0. IsFiniteSet(A) /\ Cardinality(A) \in Nat /\ Cardinality(A) <= k /\ Cardinality(A) # k
    BY <1>0, <1>3, <1>4, FiniteDates
  <2>1. IsFiniteSet(A) /\ Cardinality(A) \in Nat /\ Cardinality(A) < k
    <3> HIDE DEF A
    <3> QED
      BY <2>0
  <2>2. d \notin A /\ Cardinality(A \cup {d}) = Cardinality(A) + 1
    <3>1. d \notin A
      BY <1>3, <1>i DEF After
    <3> HIDE DEF A
    <3> QED
      BY <2>1, <3>1, FS_AddElement
  <2>3. B # {}
    <3>1. SUFFICES ASSUME B = {} PROVE FALSE
      OBVIOUS
    <3>2. ASSUME NEW e \in D PROVE e \in A \cup {d}
      <4>1. ~(e < d) /\ e \in Int /\ d \in Int
        BY <1>3, <1>i, <3>1
      <4> QED
        BY <4>1 DEF After
    <3>3. D = A \cup {d}
      BY <1>3, <3>2 DEF After
    <3> QED
      BY <2>1, <2>2, <3>3
  <2>4. PICK b \in B : \A e \in B : b >= e
    <3>1. B \in SUBSET (1 .. n)
      OBVIOUS
    <3> QED
      BY <2>3, <3>1, FirstAndLast
  <2>5. After(D, b) = A \cup {d}
    <3>1. b < d /\ \A e \in D : e > b => e >= d
      BY <1>3, <1>i, <2>4
    <3>2. \A e \in D : e > b <=> (e > d \/ e = d)
      BY <1>3, <1>i, <2>4, <3>1
    <3> QED
      BY <1>3, <3>2 DEF After
  <2>6. Cardinality(After(D, b)) <= k
    BY <2>1, <2>2, <2>5
  <2>7. b \in C
    BY <2>6
  <2> QED
    BY <1>3, <2>4, <2>7
<1> QED
  BY <1>3, <1>4
(* emit_start is a stored date; a stored date that only few others follow  *)
(* does not come before it.                                                *)
LEMMA EmitStartIs ==
    ASSUME NEW n \in Nat, Artifact!DatesOf(tailFrame) \in SUBSET (1 .. n),
           Artifact!DatesOf(tailFrame) # {}
    PROVE  /\ Artifact!EmitStart \in Artifact!DatesOf(tailFrame)
           /\ \A d \in Artifact!DatesOf(tailFrame) :
                 (\A e \in Artifact!DatesOf(tailFrame) : e <= d + Horizon)
                     => Artifact!EmitStart <= d
<1> DEFINE D == Artifact!DatesOf(tailFrame)
           o == Artifact!Overlap
<1>0. D \in SUBSET (1 .. n) /\ D # {} /\ \A e \in D : e \in Nat
  OBVIOUS
<1>1. o \in Nat /\ o >= Horizon
  BY DEF Artifact!Overlap, Artifact!Greater
<1>c. \A S : Artifact!Cardinality(S) = Cardinality(S)
  BY DEF Artifact!Cardinality, Cardinality
<1>2. Artifact!EmitStart = IF Artifact!Cardinality(D) > o
                             THEN CHOOSE d \in D : Artifact!Cardinality({e \in D : e > d}) = o
                             ELSE Artifact!FirstOf(D)
  BY DEF Artifact!EmitStart
<1> HIDE DEF D, o
<1>3. CASE Cardinality(D) > o
  <2>1. \E d \in D : Artifact!Cardinality({e \in D : e > d}) = o
    <3>1. \E d \in D : Cardinality(After(D, d)) = o
      BY <1>0, <1>1, <1>3, Ranked
    <3> QED
      BY <1>c, <3>1 DEF After
  <2>2. Artifact!EmitStart \in D /\ Cardinality(After(D, Artifact!EmitStart)) = o
    <3> DEFINE b == CHOOSE d \in D : Artifact!Cardinality({e \in D : e > d}) = o
    <3>1. b \in D /\ Artifact!Cardinality({e \in D : e > b}) = o
      BY <2>1
    <3>2. Artifact!EmitStart = b
      BY <1>2, <1>3, <1>c
    <3> QED
      BY <1>c, <3>1, <3>2 DEF After
  <2>3. ASSUME NEW d \in D, \A e \in D : e <= d + Horizon, ~(Artifact!EmitStart <= d)
        PROVE  FALSE
    <3> DEFINE b == Artifact!EmitStart
               A == After(D, b)
    <3>1. b \in D /\ b \in Nat /\ d \in Nat /\ d < b /\ Cardinality(A) = o
      BY <1>0, <2>2, <2>3
    <3>2. b \notin A
      BY <3>1 DEF After
    <3>3. IsFiniteSet(A)
      <4>1. A \in SUBSET (1 .. n)
        BY <1>0 DEF After
      <4> QED
        BY <4>1, FiniteDates
    <3>4. A \cup {b} \in SUBSET (d + 1 .. d + Horizon)
      <4>1. \A e \in D : e \in Nat /\ e <= d + Horizon
        BY <1>0, <2>3
      <4>2. \A e \in A : e \in D /\ e > b
        BY DEF After
      <4> HIDE DEF A, b
      <4>3. ASSUME NEW e \in A PROVE e \in d + 1 .. d + Horizon
        <5>1. e \in Nat /\ e <= d + Horizon /\ e > b
          BY <4>1, <4>2
        <5> QED
          BY <3>1, <5>1
      <4>4. b \in d + 1 .. d + Horizon
        BY <3>1, <4>1
      <4> QED
        BY <4>3, <4>4
    <3> HIDE DEF A, b
    <3>5. Cardinality(A \cup {b}) = o + 1
      BY <3>1, <3>2, <3>3, FS_AddElement
    <3>6. IsFiniteSet(d + 1 .. d + Horizon) /\ Cardinality(d + 1 .. d + Horizon) = Horizon
      <4>1. d + 1 \in Int /\ d + Horizon \in Int
        BY <3>1
      <4> DEFINE a == d + 1
                 z == d + Horizon
      <4>2. /\ IsFiniteSet(a .. z)
            /\ Cardinality(a .. z) = IF a > z THEN 0 ELSE z - a + 1
        <5> HIDE DEF a, z
        <5> QED
          BY <4>1, FS_Interval DEF a, z
      <4> QED
        BY <3>1, <4>2
    <3>7. Cardinality(A \cup {b}) <= Horizon
      BY <3>4, <3>6, FS_Subset
    <3> QED
      BY <1>1, <3>5, <3>7
  <2> QED
    BY <2>2, <2>3 DEF D
<1>4. CASE ~(Cardinality(D) > o)
  <2>1. Artifact!EmitStart \in D /\ \A e \in D : Artifact!EmitStart <= e
    BY <1>0, <1>2, <1>4, <1>c, FirstAndLast
  <2> QED
    BY <2>1 DEF D
<1> QED
  BY <1>3, <1>4
-----------------------------------------------------------------------------
(***************************************************************************)
(* Every frame in memory and on disk is sound.                             *)
(***************************************************************************)
Bounded ==
    /\ today \in 1 .. MaxDay /\ schema \in Nat \ {0}
    /\ tailDay \in 0 .. today /\ (tailPc # "idle" => tailDay # 0)
    /\ input \in [Symbols -> [1 .. MaxDay -> Nat]]
    /\ DOMAIN callPc = Callers /\ DOMAIN request = Callers
    /\ DOMAIN stored = Callers /\ DOMAIN rows = Callers
    /\ \A p \in Callers :
         request[p].symbols \subseteq Symbols /\ request[p].dates \subseteq 1 .. today

FramesAreSound ==
    /\ Sound(file.rows, today, input)
    /\ \A p \in Callers : Sound(stored[p], today, input) /\ Sound(rows[p], today, input)
    /\ Sound(tailFrame, today, input) /\ Sound(tailNew, today, input)

LEMMA InitSound == Artifact!Init => Bounded /\ FramesAreSound
<1> SUFFICES ASSUME Artifact!Init PROVE Bounded /\ FramesAreSound
  OBVIOUS
<1>1. file.rows = Artifact!NoRows
  BY DEF Artifact!Init, Artifact!NoFile
<1>2. FramesAreSound
  BY <1>1, NoRowsIsSound DEF Artifact!Init, FramesAreSound
<1>3. input \in [Symbols -> [1 .. MaxDay -> Nat]]
  BY DEF Artifact!Init, Artifact!Days
<1>4. Bounded
  BY <1>3 DEF Artifact!Init, Bounded, Artifact!NoRequest
<1> QED
  BY <1>2, <1>4

(* Upstream adds rows and revises them; it takes none away.                *)
LEMMA StepUpstream ==
    ASSUME Bounded, Artifact!Environment
    PROVE  /\ Bounded'
           /\ today <= today'
           /\ \A s \in Symbols, x \in 1 .. today : input[s][x] # 0 => input'[s][x] # 0
           /\ UNCHANGED <<file, callPc, request, stored, rows, tailPc, tailDay, tailFrame,
                          tailNew, tailBad>>
           /\ \/ UNCHANGED <<schema, served>>
              \/ served' = {} /\ Artifact!NobodyCalls /\ tailPc = "idle"
<1>1. CASE Artifact!NextDay
  <2>1. today' = today + 1 /\ today' \in 1 .. MaxDay
    BY <1>1 DEF Artifact!NextDay, Bounded
  <2>2. PICK L \in SUBSET Symbols :
          input' = [s \in Symbols |-> [input[s] EXCEPT ![today + 1] = IF s \in L THEN 0 ELSE 1]]
    BY <1>1 DEF Artifact!NextDay
  <2>3. input' \in [Symbols -> [1 .. MaxDay -> Nat]]
    BY <2>1, <2>2 DEF Bounded
  <2>4. \A s \in Symbols, x \in 1 .. today : input'[s][x] = input[s][x]
    BY <2>1, <2>2 DEF Bounded
  <2>5. UNCHANGED <<file, callPc, request, stored, rows, tailPc, tailDay, tailFrame,
                    tailNew, tailBad, schema, served>>
    BY <1>1 DEF Artifact!NextDay, Artifact!callVars, Artifact!tailVars
  <2>6. Bounded'
    BY <2>1, <2>3, <2>5 DEF Bounded
  <2> QED
    BY <2>1, <2>4, <2>5, <2>6 DEF Bounded
<1>2. ASSUME NEW s \in Symbols, NEW d \in Artifact!Days, Artifact!Warm(s, d) \/ Artifact!Revise(s, d)
      PROVE  /\ Bounded' /\ today' = today
             /\ \A t \in Symbols, x \in 1 .. today : input[t][x] # 0 => input'[t][x] # 0
             /\ UNCHANGED <<file, callPc, request, stored, rows, tailPc, tailDay, tailFrame,
                            tailNew, tailBad, schema, served>>
  <2>1. UNCHANGED <<file, callPc, request, stored, rows, tailPc, tailDay, tailFrame,
                    tailNew, tailBad, today, schema, served>>
    BY <1>2 DEF Artifact!Warm, Artifact!Revise, Artifact!callVars, Artifact!tailVars
  <2>2. PICK n \in Nat \ {0} : input' = [input EXCEPT ![s][d] = n]
    <3>1. CASE Artifact!Warm(s, d)
      <4>1. input' = [input EXCEPT ![s][d] = 1] /\ 1 \in Nat \ {0}
        BY <3>1 DEF Artifact!Warm
      <4> QED
        BY <4>1
    <3>2. CASE Artifact!Revise(s, d)
      <4>1. input[s][d] \in Nat
        BY DEF Bounded, Artifact!Days
      <4>2. input' = [input EXCEPT ![s][d] = input[s][d] + 1]
        BY <3>2 DEF Artifact!Revise
      <4>3. input[s][d] + 1 \in Nat \ {0}
        BY <4>1
      <4> QED
        BY <4>2, <4>3
    <3> QED
      BY <1>2, <3>1, <3>2
  <2>3. input' \in [Symbols -> [1 .. MaxDay -> Nat]]
    BY <2>2 DEF Bounded, Artifact!Days
  <2>4. \A t \in Symbols, x \in 1 .. MaxDay : input[t][x] # 0 => input'[t][x] # 0
    BY <2>2 DEF Bounded, Artifact!Days
  <2> QED
    BY <2>1, <2>3, <2>4 DEF Bounded
<1>3. CASE Artifact!Deploy
  BY <1>3 DEF Artifact!Deploy, Bounded, Artifact!callVars, Artifact!tailVars
<1> QED
  BY <1>1, <1>2, <1>3 DEF Artifact!Environment, Bounded

LEMMA UpstreamKeepsFrames ==
    ASSUME Bounded, FramesAreSound, Artifact!Environment
    PROVE  FramesAreSound'
<1>1. /\ today \in Nat /\ today' \in Nat /\ today <= today'
      /\ \A s \in Symbols, x \in 1 .. today : input[s][x] # 0 => input'[s][x] # 0
      /\ UNCHANGED <<file, stored, rows, tailFrame, tailNew>>
  BY StepUpstream DEF Bounded
<1> DEFINE now == today
           in == input
           then == today'
           after == input'
<1>2. ASSUME NEW f, Sound(f, now, in) PROVE Sound(f, then, after)
  <2> SUFFICES /\ now \in Nat /\ then \in Nat /\ now <= then
               /\ \A s \in Symbols, x \in 1 .. now : in[s][x] # 0 => after[s][x] # 0
    <3> HIDE DEF now, in, then, after
    <3> QED
      BY <1>2, SoundStays
  <2> QED
    BY <1>1
<1>3. Sound(file.rows, then, after)
  BY <1>2 DEF FramesAreSound
<1>4. \A p \in Callers : Sound(stored[p], then, after) /\ Sound(rows[p], then, after)
  BY <1>2 DEF FramesAreSound
<1>5. Sound(tailFrame, then, after) /\ Sound(tailNew, then, after)
  BY <1>2 DEF FramesAreSound
<1> QED
  BY <1>1, <1>3, <1>4, <1>5 DEF FramesAreSound

(* The span of the missing cells of a request.                             *)
LEMMA MissingSpan ==
    ASSUME Bounded, NEW p \in Callers, Artifact!Missing(p) # {}
    PROVE  LET D == {c[2] : c \in Artifact!Missing(p)}
               S == {c[1] : c \in Artifact!Missing(p)}
           IN  /\ S \in SUBSET Symbols /\ D \in SUBSET (1 .. today)
               /\ Artifact!FirstOf(D) \in 1 .. today /\ Artifact!LastOf(D) \in 1 .. today
               /\ \A d \in D : Artifact!FirstOf(D) <= d /\ d <= Artifact!LastOf(D)
               /\ Artifact!Missing(p) \subseteq S \X D
<1> DEFINE D == {c[2] : c \in Artifact!Missing(p)}
           S == {c[1] : c \in Artifact!Missing(p)}
<1>1. \A c \in Artifact!Missing(p) : c \in Symbols \X (1 .. today)
  BY DEF Artifact!Missing, Artifact!Requested, Bounded
<1>2. S \in SUBSET Symbols /\ D \in SUBSET (1 .. today) /\ D # {} /\ today \in Nat
  BY <1>1 DEF Bounded
<1>3. Artifact!Missing(p) \subseteq S \X D
  BY <1>1
<1> HIDE DEF D, S
<1>4. /\ Artifact!FirstOf(D) \in D /\ \A e \in D : Artifact!FirstOf(D) <= e
      /\ Artifact!LastOf(D) \in D /\ \A e \in D : Artifact!LastOf(D) >= e
  BY <1>2, FirstAndLast
<1>5. \A e \in D : e \in Int
  BY <1>2
<1>6. \A e \in D : Artifact!FirstOf(D) <= e /\ e <= Artifact!LastOf(D)
  BY <1>4, <1>5
<1>7. Artifact!FirstOf(D) \in 1 .. today /\ Artifact!LastOf(D) \in 1 .. today
  BY <1>2, <1>4
<1> QED
  BY <1>2, <1>3, <1>6, <1>7 DEF D, S

Fill(p) ==
    LET D == {c[2] : c \in Artifact!Missing(p)}
        S == {c[1] : c \in Artifact!Missing(p)}
    IN  Artifact!Footprint(Artifact!Materialized(S, Artifact!FirstOf(D), Artifact!LastOf(D), schema), S, D)

(* A materialized range has no value but the ones a full column would have.*)
LEMMA RangeInHand ==
    ASSUME Bounded, NEW S \in SUBSET Symbols, NEW from \in 1 .. today, NEW to \in 1 .. today
    PROVE  LET f == Artifact!Materialized(S, from, to, schema)
           IN  /\ Sound(f, today, input)
               /\ Computes(f, S, from, to, schema)
               /\ \A c \in DOMAIN f : f[c] = Artifact!Current(c) /\ f[c].schema = schema
<1> DEFINE f == Artifact!Materialized(S, from, to, schema)
<1>1. to \in 1 .. MaxDay /\ from \in Nat \ {0} /\ schema # 0 /\ to \in Nat /\ today \in Nat /\ to <= today
  BY DEF Bounded
<1>2. Computes(f, S, from, to, schema)
  BY <1>1, RangeIsComputed
<1>3. Sound(f, to, input)
  BY <1>1, ComputedIsSound
<1> HIDE DEF f
<1>4. Sound(f, today, input)
  BY <1>1, <1>3, SoundStays
<1>5. ASSUME NEW c \in DOMAIN f PROVE f[c] = Artifact!Current(c) /\ f[c].schema = schema
  <2>1. f[c] = [schema |-> schema, saw |-> [x \in Artifact!Window(c[2]) |-> input[c[1]][x]]]
    BY <1>2 DEF Computes
  <2>2. f[c] = Artifact!Value(c[1], c[2], 1, schema)
    BY <1>2 DEF Computes
  <2> QED
    BY <2>1, <2>2 DEF Artifact!Current
<1> QED
  BY <1>2, <1>4, <1>5 DEF f

LEMMA FillIs ==
    ASSUME Bounded, NEW p \in Callers, Artifact!Missing(p) # {}
    PROVE  /\ Sound(Fill(p), today, input)
           /\ Artifact!Missing(p) \subseteq DOMAIN Fill(p)
           /\ \A c \in DOMAIN Fill(p) :
                Fill(p)[c] # Artifact!NaN =>
                    Fill(p)[c] = Artifact!Current(c) /\ Fill(p)[c].schema = schema
<1> DEFINE D == {c[2] : c \in Artifact!Missing(p)}
           S == {c[1] : c \in Artifact!Missing(p)}
           from == Artifact!FirstOf(D)
           to == Artifact!LastOf(D)
           f == Artifact!Materialized(S, from, to, schema)
           blank == [c \in S \X D |-> Artifact!NaN]
<1>1. /\ S \in SUBSET Symbols /\ D \in SUBSET (1 .. today)
      /\ from \in 1 .. today /\ to \in 1 .. today
      /\ Artifact!Missing(p) \subseteq S \X D
  BY MissingSpan
<1>2. Fill(p) = Artifact!Footprint(f, S, D)
  BY DEF Fill
<1>3. blank = [c \in S \X D |-> Artifact!NaN]
  OBVIOUS
<1> HIDE DEF D, S, from, to
<1>4. /\ Sound(f, today, input)
      /\ \A c \in DOMAIN f : f[c] = Artifact!Current(c) /\ f[c].schema = schema
  BY <1>1, RangeInHand
<1> HIDE DEF f, blank
<1>5. /\ Sound(Artifact!Footprint(f, S, D), today, input)
      /\ DOMAIN Artifact!Footprint(f, S, D) = (S \X D) \cup DOMAIN f
  BY <1>1, <1>4, FootprintIsSound
<1>6. Artifact!Footprint(f, S, D) = Artifact!Merge(blank, f)
  BY <1>3 DEF Artifact!Footprint
<1>7. /\ \A c \in DOMAIN f : Fill(p)[c] = f[c]
      /\ \A c \in S \X D : c \notin DOMAIN f => Fill(p)[c] = Artifact!NaN
  <2>1. /\ \A c \in DOMAIN f : Artifact!Merge(blank, f)[c] = f[c]
        /\ \A c \in DOMAIN blank : c \notin DOMAIN f => Artifact!Merge(blank, f)[c] = blank[c]
    BY DEF Artifact!Merge
  <2> QED
    BY <1>2, <1>3, <1>6, <2>1
<1> QED
  BY <1>1, <1>2, <1>4, <1>5, <1>7

LEMMA SliceIsSound ==
    ASSUME NEW f, NEW p \in Callers, NEW last, NEW in, Sound(f, last, in)
    PROVE  /\ Sound(Artifact!Slice(f, p), last, in)
           /\ DOMAIN Artifact!Slice(f, p) = DOMAIN f \cap Artifact!Requested(p)
  BY RestrictIsSound DEF Artifact!Slice

LEMMA StepCalls ==
    ASSUME Bounded, FramesAreSound, NEW p \in Callers,
           \/ \E S \in (SUBSET Symbols) \ {{}}, D \in Artifact!RequestDates, force \in BOOLEAN :
                Artifact!Call(p, S, D, force)
           \/ Artifact!CallStep(p)
    PROVE  Bounded' /\ FramesAreSound'
<1> USE DEF Artifact!upstream, Artifact!tailVars
<1>0. Sound(Artifact!NoRows, today, input)
  BY NoRowsIsSound
<1>1. ASSUME NEW S \in (SUBSET Symbols) \ {{}}, NEW D \in Artifact!RequestDates,
             NEW force \in BOOLEAN, Artifact!Call(p, S, D, force)
      PROVE  Bounded' /\ FramesAreSound'
  <2>1. D \subseteq 1 .. today
    BY DEF Artifact!RequestDates, Bounded
  <2>2. Bounded'
    BY <1>1, <2>1 DEF Artifact!Call, Bounded
  <2>3. FramesAreSound'
    BY <1>0, <1>1 DEF Artifact!Call, Bounded, FramesAreSound
  <2> QED
    BY <2>2, <2>3
<1>2. CASE Artifact!ReadRows(p)
  BY <1>2 DEF Artifact!ReadRows, Bounded, FramesAreSound
<1>3. CASE Artifact!Return(p)
  <2>1. Sound(Artifact!Valid(p), today, input)
    BY <1>0 DEF Artifact!Valid, FramesAreSound
  <2>2. Sound(Artifact!Slice(Artifact!Valid(p), p), today, input)
    BY <2>1, SliceIsSound
  <2>3. Bounded'
    BY <1>3 DEF Artifact!Return, Bounded
  <2>4. FramesAreSound'
    BY <1>0, <1>3, <2>2 DEF Artifact!Return, Bounded, FramesAreSound
  <2> QED
    BY <2>3, <2>4
<1>4. CASE Artifact!Materialize(p)
  <2>1. rows' = [rows EXCEPT ![p] = Fill(p)] /\ Artifact!Missing(p) # {}
    BY <1>4 DEF Artifact!Materialize, Fill
  <2>2. Sound(Fill(p), today, input)
    BY <2>1, FillIs
  <2>3. Bounded'
    BY <1>4, <2>1 DEF Artifact!Materialize, Bounded
  <2>4. FramesAreSound'
    BY <1>0, <1>4, <2>1, <2>2 DEF Artifact!Materialize, Bounded, FramesAreSound
  <2> QED
    BY <2>3, <2>4
<1>5. CASE Artifact!Upsert(p)
  <2>1. Sound(Artifact!Upserted(p), today, input)
    BY MergeIsSound DEF Artifact!Upserted, FramesAreSound
  <2>2. Bounded'
    BY <1>5 DEF Artifact!Upsert, Bounded
  <2>3. FramesAreSound'
    BY <1>0, <1>5, <2>1 DEF Artifact!Upsert, Bounded, FramesAreSound
  <2> QED
    BY <2>2, <2>3
<1>6. CASE Artifact!Leave(p)
  <2>1. Bounded'
    BY <1>6 DEF Artifact!Leave, Bounded, Artifact!NoRequest
  <2>2. FramesAreSound'
    BY <1>0, <1>6 DEF Artifact!Leave, Bounded, FramesAreSound
  <2> QED
    BY <2>1, <2>2
<1> QED
  BY <1>1, <1>2, <1>3, <1>4, <1>5, <1>6 DEF Artifact!CallStep, Artifact!Hit, Artifact!Assemble

(* The overlap of a warm artifact begins at one of its dates.              *)
LEMMA OverlapRange ==
    ASSUME Bounded, FramesAreSound, tailFrame # Artifact!NoRows
    PROVE  /\ Artifact!DatesOf(tailFrame) \in SUBSET (1 .. today)
           /\ Artifact!DatesOf(tailFrame) # {}
           /\ Artifact!EmitStart \in 1 .. today
           /\ \A d \in Artifact!DatesOf(tailFrame) :
                 (\A e \in Artifact!DatesOf(tailFrame) : e <= d + Horizon)
                     => Artifact!EmitStart <= d
<1>1. Artifact!DatesOf(tailFrame) \in SUBSET (1 .. today)
  BY DEF Artifact!DatesOf, FramesAreSound, Sound
<1>2. DOMAIN tailFrame # {}
  <2>1. tailFrame = [c \in DOMAIN tailFrame |-> tailFrame[c]]
    BY DEF FramesAreSound, Sound
  <2>2. DOMAIN tailFrame = {} => tailFrame = [c \in {} |-> Artifact!NaN]
    BY <2>1
  <2> QED
    BY <2>2 DEF Artifact!NoRows
<1>3. Artifact!DatesOf(tailFrame) # {}
  BY <1>2 DEF Artifact!DatesOf
<1>4. today \in Nat
  BY DEF Bounded
<1> QED
  BY <1>1, <1>3, <1>4, EmitStartIs

Kept == Artifact!Restrict(tailFrame, {c \in DOMAIN tailFrame : c[2] < Artifact!EmitStart})
Recomputed == Artifact!Materialized(Symbols, Artifact!EmitStart, tailDay, schema)
NotBad == Artifact!Restrict(tailNew, {c \in DOMAIN tailNew : c[1] \notin tailBad})
Columns == Artifact!Materialized(tailBad, 1, tailDay, schema)

LEMMA StepTailSound ==
    ASSUME Bounded, FramesAreSound, tailBad \subseteq Symbols,
           Artifact!TailStart \/ Artifact!TailStep
    PROVE  Bounded' /\ FramesAreSound' /\ tailBad' \subseteq Symbols
<1> USE DEF Artifact!upstream, Artifact!callVars
<1>0. Sound(Artifact!NoRows, today, input)
  BY NoRowsIsSound
<1>1. CASE Artifact!TailStart
  BY <1>1 DEF Artifact!TailStart, Bounded, FramesAreSound
<1>2. CASE Artifact!TailRead
  BY <1>2 DEF Artifact!TailRead, Bounded, FramesAreSound
<1>3. CASE Artifact!TailFull
  <2>1. 1 \in 1 .. today /\ tailDay \in 1 .. today
    BY <1>3 DEF Artifact!TailFull, Bounded
  <2>2. Sound(Artifact!Materialized(Symbols, 1, tailDay, schema), today, input)
    BY <2>1, RangeInHand
  <2>3. Bounded' /\ tailBad' = tailBad
    BY <1>3 DEF Artifact!TailFull, Bounded
  <2>4. FramesAreSound'
    BY <1>3, <2>2 DEF Artifact!TailFull, FramesAreSound
  <2> QED
    BY <2>3, <2>4
<1>4. CASE Artifact!TailOverlap
  <2>1. tailDay \in 1 .. today
    BY <1>4 DEF Artifact!TailOverlap, Bounded
  <2>2. Artifact!EmitStart \in 1 .. today
    BY <1>4, OverlapRange DEF Artifact!TailOverlap
  <2>3. Sound(Recomputed, today, input)
    BY <2>1, <2>2, RangeInHand DEF Recomputed
  <2>4. Sound(Kept, today, input)
    <3>1. Sound(tailFrame, today, input)
      BY DEF FramesAreSound
    <3> QED
      BY <3>1, RestrictIsSound DEF Kept
  <2>5. Sound(Artifact!Merge(Kept, Recomputed), today, input)
    BY <2>3, <2>4, MergeIsSound
  <2>6. tailNew' = Artifact!Merge(Kept, Recomputed)
    BY <1>4 DEF Artifact!TailOverlap, Kept, Recomputed
  <2>7. tailBad' \subseteq Symbols
    <3>1. tailBad' \subseteq {c[1] : c \in DOMAIN tailFrame}
      BY <1>4 DEF Artifact!TailOverlap, Artifact!Revised
    <3> QED
      BY <3>1 DEF FramesAreSound, Sound
  <2>8. Bounded'
    BY <1>4 DEF Artifact!TailOverlap, Bounded
  <2>9. FramesAreSound'
    BY <1>4, <2>5, <2>6 DEF Artifact!TailOverlap, FramesAreSound
  <2> QED
    BY <2>7, <2>8, <2>9
<1>5. CASE Artifact!TailRecolumn
  <2>1. 1 \in 1 .. today /\ tailDay \in 1 .. today
    BY <1>5 DEF Artifact!TailRecolumn, Bounded
  <2>2. Sound(Columns, today, input)
    BY <2>1, RangeInHand DEF Columns
  <2>3. Sound(NotBad, today, input)
    <3>1. Sound(tailNew, today, input)
      BY DEF FramesAreSound
    <3> QED
      BY <3>1, RestrictIsSound DEF NotBad
  <2>4. Sound(Artifact!Recolumned, today, input)
    BY <2>2, <2>3, MergeIsSound DEF Artifact!Recolumned, NotBad, Columns
  <2>5. Bounded' /\ tailBad' = tailBad
    BY <1>5 DEF Artifact!TailRecolumn, Bounded
  <2>6. FramesAreSound'
    BY <1>5, <2>4 DEF Artifact!TailRecolumn, FramesAreSound
  <2> QED
    BY <2>5, <2>6
<1>6. CASE Artifact!TailWrite
  BY <1>0, <1>6 DEF Artifact!TailWrite, Bounded, FramesAreSound
<1>7. CASE Artifact!TailLeave
  BY <1>0, <1>7 DEF Artifact!TailLeave, Bounded, FramesAreSound
<1> QED
  BY <1>1, <1>2, <1>3, <1>4, <1>5, <1>6, <1>7 DEF Artifact!TailStep

(* What a frame needs to stay sound, whoever writes it.                    *)
ArtifactInv == Bounded /\ FramesAreSound /\ tailBad \subseteq Symbols

LEMMA StepArtifact == ArtifactInv /\ [Artifact!Next]_(Artifact!vars) => ArtifactInv'
<1> SUFFICES ASSUME ArtifactInv, [Artifact!Next]_(Artifact!vars) PROVE ArtifactInv'
  OBVIOUS
<1>1. CASE Artifact!Environment
  <2>1. Bounded' /\ FramesAreSound' /\ tailBad' = tailBad
    BY <1>1, StepUpstream, UpstreamKeepsFrames DEF ArtifactInv
  <2> QED
    BY <2>1 DEF ArtifactInv
<1>2. ASSUME NEW p \in Callers,
             \/ \E S \in (SUBSET Symbols) \ {{}}, D \in Artifact!RequestDates, force \in BOOLEAN :
                  Artifact!Call(p, S, D, force)
             \/ Artifact!CallStep(p)
      PROVE  ArtifactInv'
  <2>1. Bounded' /\ FramesAreSound'
    BY <1>2, StepCalls DEF ArtifactInv
  <2>2. tailBad' = tailBad
    BY <1>2 DEF Artifact!Call, Artifact!CallStep, Artifact!ReadRows, Artifact!Hit, Artifact!Return,
                Artifact!Materialize, Artifact!Upsert, Artifact!Assemble, Artifact!Leave,
                Artifact!tailVars
  <2> QED
    BY <2>1, <2>2 DEF ArtifactInv
<1>3. CASE Artifact!TailStart \/ Artifact!TailStep
  BY <1>3, StepTailSound DEF ArtifactInv
<1>4. CASE UNCHANGED Artifact!vars
  BY <1>4 DEF Artifact!vars, Artifact!upstream, Artifact!callVars, Artifact!tailVars, ArtifactInv,
              Bounded, FramesAreSound
<1> QED
  BY <1>1, <1>2, <1>3, <1>4 DEF Artifact!Next, Artifact!Resting

(* A behaviour of the run is one of the artifact, or leaves it alone.      *)
LEMMA ArtifactSteps ==
    /\ MCInit => Artifact!Init
    /\ [MCNext]_mcVars => [Artifact!Next]_(Artifact!vars)
<1>1. MCInit => Artifact!Init
  BY DEF MCInit
<1>2. ASSUME [MCNext]_mcVars PROVE [Artifact!Next]_(Artifact!vars)
  <2>1. UNCHANGED artifactVars => UNCHANGED Artifact!vars
    BY DEF artifactVars, Artifact!vars, Artifact!upstream, Artifact!callVars, Artifact!tailVars,
           Artifact!history
  <2> QED
    BY <1>2, <2>1 DEF MCNext, mcVars
<1> QED
  BY <1>1, <1>2

LEMMA ArtifactIsSound == MCSpec => []ArtifactInv
<1>1. MCInit => ArtifactInv
  <2>1. Artifact!Init => tailBad = {}
    BY DEF Artifact!Init
  <2> QED
    BY <2>1, ArtifactSteps, InitSound DEF ArtifactInv
<1>2. ArtifactInv /\ [MCNext]_mcVars => ArtifactInv'
  BY ArtifactSteps, StepArtifact
<1> QED
  BY <1>1, <1>2, PTL DEF MCSpec

(***************************************************************************)
(* Theorem.  A stored value saw the whole lookback window of its date: one *)
(* date alone, a batch, an overlap and a full column give the same value   *)
(* (materialize_range loads warmup days before the range it emits).        *)
(***************************************************************************)
THEOREM SameValueInEveryRange == MCSpec => []ValuesIgnoreTheRange
<1>1. ArtifactInv => ValuesIgnoreTheRange
  BY DEF ArtifactInv, FramesAreSound, Sound, ValuesIgnoreTheRange, Artifact!ValuesIgnoreTheRange
<1> QED
  BY <1>1, ArtifactIsSound, PTL

-----------------------------------------------------------------------------
(***************************************************************************)
(* The calls, when tail_recompute is kept apart from them.                 *)
(***************************************************************************)
Present == {c \in DOMAIN file.rows : file.schema = schema}

Held(p) ==
    /\ callPc[p] \in {"check", "recheck"} => DOMAIN stored[p] \subseteq DOMAIN file.rows
    /\ callPc[p] = "upsert" => Artifact!Requested(p) \subseteq DOMAIN file.rows \cup DOMAIN rows[p]
    /\ callPc[p] \in {"reread", "recheck"} =>
         file.schema = schema /\ Artifact!Requested(p) \subseteq DOMAIN file.rows
    /\ callPc[p] = "recheck" => Artifact!Requested(p) \subseteq DOMAIN stored[p]
    /\ callPc[p] = "done" => DOMAIN rows[p] = Artifact!Requested(p)
    /\ callPc[p] \in {"read", "check"} /\ request[p].warm => Artifact!Requested(p) \subseteq Present
    /\ callPc[p] = "check" /\ request[p].warm => Artifact!Requested(p) \subseteq DOMAIN stored[p]

Apart == tailPc # "idle" => Artifact!NobodyCalls

CallInv == Apart /\ served \subseteq Present /\ \A p \in Callers : Held(p)

LEMMA HeldStays ==
    ASSUME NEW p \in Callers, Held(p), Present \subseteq Present',
           DOMAIN file.rows \subseteq DOMAIN file'.rows,
           file.schema = schema => file'.schema = schema',
           callPc'[p] = callPc[p], request'[p] = request[p], stored'[p] = stored[p],
           rows'[p] = rows[p]
    PROVE  Held(p)'
<1>1. Artifact!Requested(p)' = Artifact!Requested(p)
  BY DEF Artifact!Requested
<1> QED
  BY <1>1 DEF Held

LEMMA HeldWhileIdle ==
    ASSUME NEW p \in Callers, callPc[p] = "idle" PROVE Held(p)
  BY DEF Held

LEMMA ReturnIsComplete ==
    ASSUME ArtifactInv, CallInv, NEW p \in Callers, Artifact!Return(p),
           callPc[p] \in {"check", "recheck"},
           Artifact!Requested(p) \subseteq DOMAIN Artifact!Valid(p)
    PROVE  Held(p)' /\ served' \subseteq Present
<1>1. Artifact!Requested(p)' = Artifact!Requested(p) /\ callPc'[p] = "done"
  BY DEF Artifact!Return, Artifact!Requested, ArtifactInv, Bounded
<1>2. rows'[p] = Artifact!Slice(Artifact!Valid(p), p)
  BY DEF Artifact!Return, ArtifactInv, Bounded
<1>3. DOMAIN Artifact!Slice(Artifact!Valid(p), p) = Artifact!Requested(p)
  BY DEF Artifact!Slice, Artifact!Restrict
<1>4. Held(p)'
  BY <1>1, <1>2, <1>3 DEF Held
<1>5. ASSUME NEW c \in Artifact!Requested(p) PROVE c \in Present
  <2>1. file.schema = schema /\ c \in DOMAIN stored[p]
    BY DEF Artifact!Valid, Artifact!NoRows
  <2> QED
    BY <2>1 DEF CallInv, Held, Present
<1> QED
  BY <1>4, <1>5 DEF CallInv, Artifact!Return

(* What a step of a call keeps.                                            *)
CallMoves(p) ==
    /\ Held(p)' /\ schema' = schema
    /\ DOMAIN file.rows \subseteq DOMAIN file'.rows
    /\ (file.schema = schema => file'.schema = schema')
    /\ served' \subseteq served \cup Present

LEMMA StepCallInv ==
    ASSUME ArtifactInv, CallInv, TailAlone = TRUE, NEW p \in Callers,
           \/ \E S \in (SUBSET Symbols) \ {{}}, D \in Artifact!RequestDates, force \in BOOLEAN :
                Artifact!Call(p, S, D, force)
           \/ Artifact!CallStep(p)
    PROVE  CallInv'
<1> USE DEF Artifact!upstream, Artifact!tailVars, Artifact!history
<1>0. Held(p) /\ served \subseteq Present /\ Apart
  BY DEF CallInv
<1>d. DOMAIN callPc = Callers /\ DOMAIN request = Callers /\ DOMAIN stored = Callers /\ DOMAIN rows = Callers
  BY DEF ArtifactInv, Bounded
<1>1. ASSUME NEW S \in (SUBSET Symbols) \ {{}}, NEW D \in Artifact!RequestDates,
             NEW force \in BOOLEAN, Artifact!Call(p, S, D, force)
      PROVE  CallMoves(p)
  <2>1. /\ callPc'[p] = "read" /\ Artifact!Requested(p)' = S \X D
        /\ request'[p].warm = (S \X D \subseteq served)
        /\ UNCHANGED <<file, schema, served>>
    BY <1>1, <1>d DEF Artifact!Call, Artifact!Requested
  <2> QED
    BY <1>0, <2>1 DEF Held, Present, CallMoves
<1>2. ASSUME Artifact!ReadRows(p) PROVE CallMoves(p)
  <2>1. /\ Artifact!Requested(p)' = Artifact!Requested(p) /\ stored'[p] = file.rows
        /\ request' = request /\ UNCHANGED <<file, schema, served>>
    BY <1>2, <1>d DEF Artifact!ReadRows, Artifact!Requested
  <2>2. Held(p)'
    BY <1>0, <1>2, <1>d, <2>1 DEF Artifact!ReadRows, Held, Present
  <2> QED
    BY <2>1, <2>2 DEF CallMoves
<1>3. ASSUME Artifact!Hit(p) PROVE CallMoves(p)
  <2>1. Artifact!Requested(p) \subseteq DOMAIN Artifact!Valid(p)
    BY <1>3 DEF Artifact!Hit, Artifact!Missing
  <2>2. Held(p)' /\ served' \subseteq Present
    BY <1>3, <2>1, ReturnIsComplete DEF Artifact!Hit
  <2> QED
    BY <1>3, <2>2 DEF Artifact!Hit, Artifact!Return, CallMoves
<1>4. ASSUME Artifact!Assemble(p) PROVE CallMoves(p)
  <2>1. Artifact!Requested(p) \subseteq DOMAIN Artifact!Valid(p)
    BY <1>0, <1>4 DEF Artifact!Assemble, Artifact!Valid, Held
  <2>2. Held(p)' /\ served' \subseteq Present
    BY <1>4, <2>1, ReturnIsComplete DEF Artifact!Assemble
  <2> QED
    BY <1>4, <2>2 DEF Artifact!Assemble, Artifact!Return, CallMoves
<1>5. ASSUME Artifact!Materialize(p) PROVE CallMoves(p)
  <2>1. /\ rows'[p] = Fill(p) /\ Artifact!Missing(p) # {} /\ callPc[p] = "check" /\ callPc'[p] = "upsert"
        /\ UNCHANGED <<file, schema, served, request>>
    BY <1>5, <1>d DEF Artifact!Materialize, Fill
  <2>2. Artifact!Requested(p)' = Artifact!Requested(p)
    BY <2>1 DEF Artifact!Requested
  <2>3. ASSUME NEW c \in Artifact!Requested(p) PROVE c \in DOMAIN file.rows \cup DOMAIN Fill(p)
    <3>1. CASE c \in Artifact!Missing(p)
      BY <2>1, <3>1, FillIs DEF ArtifactInv
    <3>2. CASE c \in DOMAIN Artifact!Valid(p)
      <4>1. c \in DOMAIN stored[p]
        BY <3>2 DEF Artifact!Valid, Artifact!NoRows
      <4> QED
        BY <1>0, <2>1, <4>1 DEF Held
    <3> QED
      BY <3>1, <3>2 DEF Artifact!Missing
  <2>4. Held(p)'
    BY <2>1, <2>2, <2>3 DEF Held
  <2> QED
    BY <2>1, <2>4 DEF CallMoves
<1>6. ASSUME Artifact!Upsert(p) PROVE CallMoves(p)
  <2>1. /\ callPc[p] = "upsert" /\ callPc'[p] = "reread"
        /\ UNCHANGED <<schema, served, request>> /\ file'.schema = schema
        /\ file'.rows = Artifact!Merge(file.rows, rows[p])
    BY <1>6, <1>d DEF Artifact!Upsert, Artifact!Upserted
  <2>2. DOMAIN file'.rows = DOMAIN file.rows \cup DOMAIN rows[p]
    BY <2>1 DEF Artifact!Merge
  <2>3. Artifact!Requested(p)' = Artifact!Requested(p)
    BY <2>1 DEF Artifact!Requested
  <2>4. Held(p)'
    BY <1>0, <2>1, <2>2, <2>3 DEF Held
  <2> QED
    BY <2>1, <2>2, <2>4 DEF CallMoves
<1>7. ASSUME Artifact!Leave(p) PROVE CallMoves(p)
  <2>1. callPc'[p] = "idle" /\ UNCHANGED <<file, schema, served>>
    BY <1>7, <1>d DEF Artifact!Leave
  <2> QED
    BY <2>1 DEF Held, CallMoves
<1>a. CallMoves(p)
  BY <1>1, <1>2, <1>3, <1>4, <1>5, <1>6, <1>7 DEF Artifact!CallStep
<1>b. Present \subseteq Present'
  BY <1>a DEF Present, CallMoves
<1>c. ASSUME NEW q \in Callers, q # p PROVE Held(q)'
  <2>1. callPc'[q] = callPc[q] /\ request'[q] = request[q] /\ stored'[q] = stored[q] /\ rows'[q] = rows[q]
    BY <1>c, <1>d DEF Artifact!Call, Artifact!CallStep, Artifact!ReadRows, Artifact!Hit, Artifact!Return,
              Artifact!Materialize, Artifact!Upsert, Artifact!Assemble, Artifact!Leave
  <2> QED
    BY <1>a, <1>b, <2>1, HeldStays DEF CallInv, CallMoves
<1>e. tailPc = "idle" /\ tailPc' = "idle"
  <2>1. callPc[p] # "idle" => tailPc = "idle"
    BY <1>0 DEF Apart, Artifact!NobodyCalls
  <2> QED
    BY <2>1 DEF Artifact!Call, Artifact!CallStep, Artifact!ReadRows, Artifact!Hit, Artifact!Return,
              Artifact!Materialize, Artifact!Upsert, Artifact!Assemble, Artifact!Leave
<1> QED
  BY <1>0, <1>a, <1>b, <1>c, <1>e DEF CallInv, Apart, CallMoves

LEMMA NobodyHolds ==
    ASSUME Artifact!NobodyCalls PROVE \A p \in Callers : Held(p)
  BY HeldWhileIdle DEF Artifact!NobodyCalls

LEMMA StepCallInvTail ==
    ASSUME CallInv, TailAlone = TRUE, Artifact!TailStart \/ Artifact!TailStep
    PROVE  CallInv'
<1>1. Artifact!NobodyCalls /\ callPc' = callPc
  BY DEF CallInv, Apart, Artifact!TailStart, Artifact!TailStep, Artifact!TailRead, Artifact!TailFull,
         Artifact!TailOverlap, Artifact!TailRecolumn, Artifact!TailWrite, Artifact!TailLeave,
         Artifact!callVars
<1>2. Artifact!NobodyCalls'
  BY <1>1 DEF Artifact!NobodyCalls
<1>3. \A p \in Callers : Held(p)'
  BY <1>2 DEF Artifact!NobodyCalls, Held
<1>4. served' = {} \/ UNCHANGED <<file, schema, served>>
  BY DEF Artifact!TailStart, Artifact!TailStep, Artifact!TailRead, Artifact!TailFull,
         Artifact!TailOverlap, Artifact!TailRecolumn, Artifact!TailWrite, Artifact!TailLeave,
         Artifact!upstream, Artifact!history
<1>5. served' \subseteq Present'
  BY <1>4 DEF CallInv, Present
<1> QED
  BY <1>2, <1>3, <1>5 DEF CallInv, Apart

LEMMA StepCallInvUpstream ==
    ASSUME Bounded, CallInv, Artifact!Environment
    PROVE  CallInv'
<1>1. /\ UNCHANGED <<file, callPc, request, stored, rows, tailPc>>
      /\ \/ UNCHANGED <<schema, served>>
         \/ served' = {} /\ Artifact!NobodyCalls /\ tailPc = "idle"
  BY StepUpstream
<1>2. Artifact!NobodyCalls' <=> Artifact!NobodyCalls
  BY <1>1 DEF Artifact!NobodyCalls
<1>3. CASE UNCHANGED <<schema, served>>
  <2>1. ASSUME NEW p \in Callers PROVE Held(p)'
    <3>1. Artifact!Requested(p)' = Artifact!Requested(p) /\ Present' = Present
      BY <1>1, <1>3 DEF Artifact!Requested, Present
    <3> QED
      BY <1>1, <1>3, <3>1 DEF Held, CallInv
  <2> QED
    BY <1>1, <1>2, <1>3, <2>1 DEF CallInv, Apart, Present
<1>4. CASE served' = {} /\ Artifact!NobodyCalls /\ tailPc = "idle"
  <2>1. ASSUME NEW p \in Callers PROVE Held(p)'
    BY <1>2, <1>4 DEF Artifact!NobodyCalls, Held
  <2> QED
    BY <1>1, <1>2, <1>4, <2>1 DEF CallInv, Apart
<1> QED
  BY <1>1, <1>3, <1>4

LEMMA StepCallsInv ==
    ASSUME TailAlone = TRUE
    PROVE  ArtifactInv /\ CallInv /\ [Artifact!Next]_(Artifact!vars) => CallInv'
<1> SUFFICES ASSUME ArtifactInv, CallInv, [Artifact!Next]_(Artifact!vars) PROVE CallInv'
  OBVIOUS
<1>1. CASE Artifact!Environment
  BY <1>1, StepCallInvUpstream DEF ArtifactInv
<1>2. ASSUME NEW p \in Callers,
             \/ \E S \in (SUBSET Symbols) \ {{}}, D \in Artifact!RequestDates, force \in BOOLEAN :
                  Artifact!Call(p, S, D, force)
             \/ Artifact!CallStep(p)
      PROVE  CallInv'
  BY <1>2, StepCallInv
<1>3. CASE Artifact!TailStart \/ Artifact!TailStep
  BY <1>3, StepCallInvTail
<1>4. CASE UNCHANGED Artifact!vars
  <2>1. UNCHANGED <<file, callPc, request, stored, rows, tailPc, schema, served>>
    BY <1>4 DEF Artifact!vars, Artifact!upstream, Artifact!callVars, Artifact!tailVars, Artifact!history
  <2>2. ASSUME NEW p \in Callers PROVE Held(p)'
    <3>1. Artifact!Requested(p)' = Artifact!Requested(p) /\ Present' = Present
      BY <2>1 DEF Artifact!Requested, Present
    <3> QED
      BY <2>1, <3>1 DEF Held, CallInv
  <2> QED
    BY <2>1, <2>2 DEF CallInv, Apart, Present, Artifact!NobodyCalls
<1> QED
  BY <1>1, <1>2, <1>3, <1>4 DEF Artifact!Next, Artifact!Resting

LEMMA CallsAreHeld ==
    ASSUME TailAlone = TRUE
    PROVE  MCSpec => []CallInv
<1>1. MCInit => CallInv
  <2>1. Artifact!Init => CallInv
    BY DEF Artifact!Init, CallInv, Apart, Held
  <2> QED
    BY <2>1, ArtifactSteps
<1>2. ArtifactInv /\ CallInv /\ [MCNext]_mcVars => CallInv'
  BY ArtifactSteps, StepCallsInv
<1> QED
  BY <1>1, <1>2, ArtifactIsSound, PTL DEF MCSpec

(***************************************************************************)
(* Theorem.  A panel has a row for every requested date and symbol,        *)
(* whatever earlier calls, killed ones too, left in the artifact: the gap  *)
(* is computed from what is stored (_missing_request), filled with a       *)
(* footprint, and the payload is read again.  The nightly tail_recompute   *)
(* must not run between the fill and that read: it replaces the file.      *)
(***************************************************************************)
THEOREM CompletePanel ==
    ASSUME TailAlone = TRUE
    PROVE  MCSpec => []PanelIsComplete
<1>1. CallInv => PanelIsComplete
  BY DEF CallInv, Held, PanelIsComplete, Artifact!PanelIsComplete
<1> QED
  BY <1>1, CallsAreHeld, PTL

(***************************************************************************)
(* Theorem.  A call without diagnostics for cells that earlier calls       *)
(* returned computes nothing, unless tail_recompute or a new schema came   *)
(* in between.                                                             *)
(***************************************************************************)
THEOREM WarmStoreComputesNothing ==
    ASSUME TailAlone = TRUE
    PROVE  MCSpec => WarmStoreIsNotRefilled
<1>1. ASSUME ArtifactInv, CallInv, NEW p \in Callers, Artifact!Materialize(p)
      PROVE  request[p].force \/ ~request[p].warm
  <2>1. SUFFICES ASSUME ~request[p].force, request[p].warm PROVE FALSE
    OBVIOUS
  <2>2. callPc[p] = "check" /\ Artifact!Missing(p) # {}
    BY <1>1 DEF Artifact!Materialize
  <2>3. Artifact!Requested(p) \subseteq DOMAIN stored[p] /\ Artifact!Requested(p) \subseteq Present
    BY <1>1, <2>1, <2>2 DEF CallInv, Held
  <2>4. \A c \in Artifact!Requested(p) : c \in DOMAIN Artifact!Valid(p)
    BY <2>3 DEF Present, Artifact!Valid
  <2> QED
    BY <2>1, <2>2, <2>4 DEF Artifact!Missing
<1>2. ASSUME ArtifactInv, [Artifact!Next]_(Artifact!vars), NEW p \in Callers,
             callPc[p] = "check", callPc'[p] = "upsert"
      PROVE  Artifact!Materialize(p)
  <2>1. DOMAIN callPc = Callers
    BY <1>2 DEF ArtifactInv, Bounded
  <2>2. CASE Artifact!Environment
    BY <1>2, <2>2, StepUpstream DEF ArtifactInv
  <2>3. ASSUME NEW q \in Callers,
               \/ \E S \in (SUBSET Symbols) \ {{}}, D \in Artifact!RequestDates, force \in BOOLEAN :
                    Artifact!Call(q, S, D, force)
               \/ Artifact!CallStep(q)
        PROVE  Artifact!Materialize(p)
    BY <1>2, <2>1, <2>3 DEF Artifact!Call, Artifact!CallStep, Artifact!ReadRows, Artifact!Hit,
         Artifact!Return, Artifact!Upsert, Artifact!Assemble, Artifact!Leave, Artifact!Materialize
  <2>4. CASE Artifact!TailStart \/ Artifact!TailStep
    BY <1>2, <2>4 DEF Artifact!TailStart, Artifact!TailStep, Artifact!TailRead, Artifact!TailFull,
         Artifact!TailOverlap, Artifact!TailRecolumn, Artifact!TailWrite, Artifact!TailLeave,
         Artifact!callVars
  <2>5. CASE UNCHANGED Artifact!vars
    BY <1>2, <2>5 DEF Artifact!vars, Artifact!callVars
  <2> QED
    BY <1>2, <2>2, <2>3, <2>4, <2>5 DEF Artifact!Next, Artifact!Resting
<1>3. ArtifactInv /\ CallInv /\ [Artifact!Next]_(Artifact!vars)
        => [\A p \in Callers :
              callPc[p] = "check" /\ callPc'[p] = "upsert" => request[p].force \/ ~request[p].warm]_(Artifact!vars)
  BY <1>1, <1>2
<1>4. ArtifactInv /\ CallInv /\ [MCNext]_mcVars
        => [\A p \in Callers :
              callPc[p] = "check" /\ callPc'[p] = "upsert" => request[p].force \/ ~request[p].warm]_(Artifact!vars)
  BY <1>3, ArtifactSteps
<1> QED
  BY <1>4, ArtifactIsSound, CallsAreHeld, PTL
     DEF MCSpec, WarmStoreIsNotRefilled, Artifact!WarmStoreIsNotRefilled
-----------------------------------------------------------------------------
(***************************************************************************)
(* tail_recompute, kept apart from the calls.                              *)
(***************************************************************************)
Computed(f) == {c \in DOMAIN f : f[c] # Artifact!NaN}

TailInv ==
    /\ tailPc \in {"read", "check", "recolumn", "write"} => \A c \in DOMAIN file.rows : c[2] <= tailDay
    /\ tailPc \in {"check", "recolumn", "write"} => tailFrame = file.rows
    /\ tailPc \in {"recolumn", "write"} =>
         /\ Computed(file.rows) \subseteq DOMAIN tailNew
         /\ \A c \in DOMAIN tailNew : c[2] <= tailDay

(* While nothing runs but upstream and the calls, the job stands still.    *)
LEMMA TailStands ==
    ASSUME CallInv, TailAlone = TRUE, NEW p \in Callers,
           \/ \E S \in (SUBSET Symbols) \ {{}}, D \in Artifact!RequestDates, force \in BOOLEAN :
                Artifact!Call(p, S, D, force)
           \/ Artifact!CallStep(p)
    PROVE  tailPc = "idle" /\ UNCHANGED <<tailPc, tailDay, tailFrame, tailNew, tailBad>>
<1>1. callPc[p] # "idle" => tailPc = "idle"
  BY DEF CallInv, Apart, Artifact!NobodyCalls
<1> QED
  BY <1>1 DEF Artifact!Call, Artifact!CallStep, Artifact!ReadRows, Artifact!Hit, Artifact!Return,
              Artifact!Materialize, Artifact!Upsert, Artifact!Assemble, Artifact!Leave, Artifact!tailVars

(* A computed cell of the file: its window is complete upstream.           *)
LEMMA ComputedCell ==
    ASSUME ArtifactInv, NEW c \in Computed(file.rows)
    PROVE  /\ c \in Symbols \X (1 .. today)
           /\ \A x \in Artifact!Window(c[2]) : input[c[1]][x] # 0
  BY DEF ArtifactInv, FramesAreSound, Sound, Computed

LEMMA StepTailInv ==
    ASSUME ArtifactInv, TailInv, Artifact!TailStart \/ Artifact!TailStep
    PROVE  TailInv'
<1> USE DEF Artifact!upstream, Artifact!callVars
<1>1. CASE Artifact!TailStart
  <2>1. \A c \in DOMAIN file.rows : c[2] <= today
    BY DEF ArtifactInv, FramesAreSound, Sound, Bounded
  <2> QED
    BY <1>1, <2>1 DEF Artifact!TailStart, TailInv
<1>2. CASE Artifact!TailRead
  BY <1>2 DEF Artifact!TailRead, TailInv
<1>3. CASE Artifact!TailFull
  <2> DEFINE new == Artifact!Materialized(Symbols, 1, tailDay, schema)
  <2>1. 1 \in 1 .. today /\ tailDay \in 1 .. today
    BY <1>3 DEF Artifact!TailFull, ArtifactInv, Bounded
  <2>2. Computes(new, Symbols, 1, tailDay, schema)
    BY <2>1, RangeInHand DEF ArtifactInv
  <2>3. tailPc = "check" /\ tailPc' = "write" /\ tailNew' = new /\ UNCHANGED <<file, tailDay, tailFrame>>
    BY <1>3 DEF Artifact!TailFull
  <2> HIDE DEF new
  <2>4. ASSUME NEW c \in Computed(file.rows) PROVE c \in DOMAIN new
    <3>1. c \in DOMAIN file.rows /\ c[2] <= tailDay
      BY <2>3 DEF TailInv, Computed
    <3>2. c \in Symbols \X (1 .. tailDay)
      BY <2>1, <3>1, ComputedCell
    <3> QED
      BY <2>2, <3>2, ComputedCell DEF Computes
  <2>5. \A c \in DOMAIN new : c[2] <= tailDay
    BY <2>1, <2>2 DEF Computes
  <2> QED
    BY <2>3, <2>4, <2>5 DEF TailInv, Computed
<1>4. CASE Artifact!TailOverlap
  <2>1. /\ tailPc = "check" /\ tailPc' \in {"write", "recolumn"} /\ tailFrame # Artifact!NoRows
        /\ tailNew' = Artifact!Merge(Kept, Recomputed) /\ UNCHANGED <<file, tailDay, tailFrame>>
    BY <1>4 DEF Artifact!TailOverlap, Kept, Recomputed
  <2>2. tailDay \in 1 .. today /\ Artifact!EmitStart \in 1 .. today /\ tailFrame = file.rows
    BY <2>1, OverlapRange DEF ArtifactInv, Bounded, TailInv
  <2>3. Computes(Recomputed, Symbols, Artifact!EmitStart, tailDay, schema)
    BY <2>2, RangeInHand DEF ArtifactInv, Recomputed
  <2>4. DOMAIN Artifact!Merge(Kept, Recomputed) = DOMAIN Kept \cup DOMAIN Recomputed
    BY DEF Artifact!Merge
  <2>5. DOMAIN Kept = {c \in DOMAIN tailFrame : c[2] < Artifact!EmitStart}
    BY DEF Kept, Artifact!Restrict
  <2>6. ASSUME NEW c \in Computed(file.rows) PROVE c \in DOMAIN Kept \cup DOMAIN Recomputed
    <3>1. c \in DOMAIN file.rows /\ c[2] <= tailDay /\ c \in Symbols \X (1 .. today)
      BY <2>1, ComputedCell DEF TailInv, Computed
    <3>2. CASE c[2] < Artifact!EmitStart
      BY <2>2, <2>5, <3>1, <3>2
    <3>3. CASE ~(c[2] < Artifact!EmitStart)
      <4>1. c \in Symbols \X (Artifact!EmitStart .. tailDay)
        BY <2>2, <3>1, <3>3
      <4> QED
        BY <2>3, <4>1, ComputedCell DEF Computes
    <3> QED
      BY <3>2, <3>3
  <2>7. \A c \in DOMAIN Kept : c[2] <= tailDay
    BY <2>1, <2>2, <2>5 DEF TailInv
  <2>8. \A c \in DOMAIN Recomputed : c[2] <= tailDay
    BY <2>2, <2>3 DEF Computes
  <2> QED
    BY <2>1, <2>2, <2>4, <2>6, <2>7, <2>8 DEF TailInv, Computed
<1>5. CASE Artifact!TailRecolumn
  <2>1. /\ tailPc = "recolumn" /\ tailPc' = "write"
        /\ tailNew' = Artifact!Merge(NotBad, Columns) /\ UNCHANGED <<file, tailDay, tailFrame>>
    BY <1>5 DEF Artifact!TailRecolumn, Artifact!Recolumned, NotBad, Columns
  <2>2. 1 \in 1 .. today /\ tailDay \in 1 .. today /\ tailBad \in SUBSET Symbols
    BY <2>1 DEF ArtifactInv, Bounded
  <2>3. Computes(Columns, tailBad, 1, tailDay, schema)
    BY <2>2, RangeInHand DEF ArtifactInv, Columns
  <2>4. DOMAIN Artifact!Merge(NotBad, Columns) = DOMAIN NotBad \cup DOMAIN Columns
    BY DEF Artifact!Merge
  <2>5. DOMAIN NotBad = {c \in DOMAIN tailNew : c[1] \notin tailBad}
    BY DEF NotBad, Artifact!Restrict
  <2>6. ASSUME NEW c \in Computed(file.rows) PROVE c \in DOMAIN NotBad \cup DOMAIN Columns
    <3>1. c \in DOMAIN file.rows /\ c \in DOMAIN tailNew /\ c[2] <= tailDay /\ c \in Symbols \X (1 .. today)
      BY <2>1, ComputedCell DEF TailInv, Computed
    <3>2. CASE c[1] \in tailBad
      <4>1. c \in tailBad \X (1 .. tailDay)
        BY <2>2, <3>1, <3>2
      <4> QED
        BY <2>3, <4>1, ComputedCell DEF Computes
    <3> QED
      BY <2>5, <3>1, <3>2
  <2>7. \A c \in DOMAIN Columns : c[2] <= tailDay
    BY <2>2, <2>3 DEF Computes
  <2> QED
    BY <2>1, <2>4, <2>5, <2>6, <2>7 DEF TailInv, Computed
<1>6. CASE Artifact!TailWrite
  BY <1>6 DEF Artifact!TailWrite, TailInv
<1>7. CASE Artifact!TailLeave
  BY <1>7 DEF Artifact!TailLeave, TailInv
<1> QED
  BY <1>1, <1>2, <1>3, <1>4, <1>5, <1>6, <1>7 DEF Artifact!TailStep

LEMMA StepTailsInv ==
    ASSUME TailAlone = TRUE
    PROVE  ArtifactInv /\ CallInv /\ TailInv /\ [Artifact!Next]_(Artifact!vars) => TailInv'
<1> SUFFICES ASSUME ArtifactInv, CallInv, TailInv, [Artifact!Next]_(Artifact!vars) PROVE TailInv'
  OBVIOUS
<1>1. CASE Artifact!Environment
  <2>1. UNCHANGED <<file, tailPc, tailDay, tailFrame, tailNew>>
    BY <1>1, StepUpstream DEF ArtifactInv
  <2> QED
    BY <2>1 DEF TailInv, Computed
<1>2. ASSUME NEW p \in Callers,
             \/ \E S \in (SUBSET Symbols) \ {{}}, D \in Artifact!RequestDates, force \in BOOLEAN :
                  Artifact!Call(p, S, D, force)
             \/ Artifact!CallStep(p)
      PROVE  TailInv'
  <2>1. tailPc' = "idle"
    BY <1>2, TailStands
  <2> QED
    BY <2>1 DEF TailInv
<1>3. CASE Artifact!TailStart \/ Artifact!TailStep
  BY <1>3, StepTailInv
<1>4. CASE UNCHANGED Artifact!vars
  BY <1>4 DEF Artifact!vars, Artifact!tailVars, TailInv, Computed
<1> QED
  BY <1>1, <1>2, <1>3, <1>4 DEF Artifact!Next, Artifact!Resting

LEMMA TailIsTyped ==
    ASSUME TailAlone = TRUE
    PROVE  MCSpec => []TailInv
<1>1. MCInit => TailInv
  <2>1. Artifact!Init => TailInv
    BY DEF Artifact!Init, TailInv
  <2> QED
    BY <2>1, ArtifactSteps
<1>2. ArtifactInv /\ CallInv /\ TailInv /\ [MCNext]_mcVars => TailInv'
  BY ArtifactSteps, StepTailsInv
<1> QED
  BY <1>1, <1>2, ArtifactIsSound, CallsAreHeld, PTL DEF MCSpec

(***************************************************************************)
(* Theorem.  A fill keeps every row of the artifact, and tail_recompute    *)
(* every row that has a value: what it cuts off it computes again from the *)
(* rows the first computation saw.  It may drop the NaN footprints.        *)
(***************************************************************************)
THEOREM NoComputedRowIsLost ==
    ASSUME TailAlone = TRUE
    PROVE  MCSpec => ComputedRowsAreKept
<1> DEFINE Keeps == \A c \in DOMAIN file.rows :
                      c \in DOMAIN file'.rows \/ (tailPc = "write" /\ file.rows[c] = Artifact!NaN)
<1>1. ASSUME ArtifactInv, CallInv, TailInv, [Artifact!Next]_(Artifact!vars)
      PROVE  Keeps
  <2>1. CASE Artifact!Environment
    BY <1>1, <2>1, StepUpstream DEF ArtifactInv
  <2>2. ASSUME NEW p \in Callers,
               \/ \E S \in (SUBSET Symbols) \ {{}}, D \in Artifact!RequestDates, force \in BOOLEAN :
                    Artifact!Call(p, S, D, force)
               \/ Artifact!CallStep(p)
        PROVE  Keeps
    <3>1. CASE Artifact!Upsert(p)
      <4>1. file'.rows = Artifact!Merge(file.rows, rows[p])
        BY <3>1 DEF Artifact!Upsert, Artifact!Upserted
      <4> QED
        BY <4>1 DEF Artifact!Merge
    <3>2. CASE ~Artifact!Upsert(p)
      <4>1. file' = file
        BY <2>2, <3>2 DEF Artifact!Call, Artifact!CallStep, Artifact!ReadRows, Artifact!Hit,
             Artifact!Return, Artifact!Materialize, Artifact!Assemble, Artifact!Leave
      <4> QED
        BY <4>1
    <3> QED
      BY <3>1, <3>2
  <2>3. CASE Artifact!TailStart \/ Artifact!TailStep
    <3>1. CASE Artifact!TailWrite
      <4>1. tailPc = "write" /\ file'.rows = tailNew /\ Computed(file.rows) \subseteq DOMAIN tailNew
        BY <1>1, <3>1 DEF Artifact!TailWrite, TailInv
      <4> QED
        BY <4>1 DEF Computed
    <3>2. CASE ~Artifact!TailWrite
      <4>1. file' = file
        BY <2>3, <3>2 DEF Artifact!TailStart, Artifact!TailStep, Artifact!TailRead, Artifact!TailFull,
             Artifact!TailOverlap, Artifact!TailRecolumn, Artifact!TailLeave
      <4> QED
        BY <4>1
    <3> QED
      BY <3>1, <3>2
  <2>4. CASE UNCHANGED Artifact!vars
    BY <2>4 DEF Artifact!vars
  <2> QED
    BY <1>1, <2>1, <2>2, <2>3, <2>4 DEF Artifact!Next, Artifact!Resting
<1>2. ArtifactInv /\ CallInv /\ TailInv /\ [MCNext]_mcVars => [Keeps]_(Artifact!vars)
  BY <1>1, ArtifactSteps
<1> QED
  BY <1>2, ArtifactIsSound, CallsAreHeld, TailIsTyped, PTL
     DEF MCSpec, ComputedRowsAreKept, Artifact!RowsAreKept
-----------------------------------------------------------------------------
(***************************************************************************)
(* No false alarm: rows nobody revised are all of revision 1, and so are   *)
(* the windows that stored values saw.                                     *)
(***************************************************************************)
Genuine(f, rev) ==
    \A c \in Computed(f) : c[1] \notin rev =>
        f[c] = [schema |-> f[c].schema, saw |-> [x \in Artifact!Window(c[2]) |-> 1]]

Owned(f, v) == \A c \in Computed(f) : f[c].schema = v

Originals == \A s \in Symbols \ revised, x \in 1 .. MaxDay : input[s][x] \in {0, 1}

Writing == tailPc \in {"recolumn", "write"}

AlarmInv ==
    /\ Originals
    /\ file.schema \in 0 .. schema
    /\ Genuine(file.rows, revised)
    /\ \A p \in Callers : callPc[p] = "upsert" => Genuine(rows[p], revised) /\ Owned(rows[p], schema)
    /\ Writing => Genuine(tailNew, revised)
    /\ pure => /\ Owned(file.rows, file.schema)
               /\ Writing => Owned(tailNew, schema)
               /\ tailBad \subseteq revised

LEMMA MergeKeeps ==
    ASSUME NEW f, NEW g, NEW rev, NEW v
    PROVE  /\ Genuine(f, rev) /\ Genuine(g, rev) => Genuine(Artifact!Merge(f, g), rev)
           /\ Owned(f, v) /\ Owned(g, v) => Owned(Artifact!Merge(f, g), v)
<1> DEFINE m == Artifact!Merge(f, g)
<1>1. /\ DOMAIN m = DOMAIN f \cup DOMAIN g
      /\ \A c \in DOMAIN g : m[c] = g[c]
      /\ \A c \in DOMAIN f : c \notin DOMAIN g => m[c] = f[c]
  BY DEF Artifact!Merge
<1> HIDE DEF m
<1>2. Genuine(f, rev) /\ Genuine(g, rev) => Genuine(m, rev)
  BY <1>1 DEF Genuine, Computed
<1>3. Owned(f, v) /\ Owned(g, v) => Owned(m, v)
  BY <1>1 DEF Owned, Computed
<1> QED
  BY <1>2, <1>3 DEF m

LEMMA RestrictKeeps ==
    ASSUME NEW f, NEW T \in SUBSET DOMAIN f, NEW rev, NEW v
    PROVE  /\ Genuine(f, rev) => Genuine(Artifact!Restrict(f, T), rev)
           /\ Owned(f, v) => Owned(Artifact!Restrict(f, T), v)
  BY DEF Artifact!Restrict, Genuine, Owned, Computed

(* What is computed now is genuine.                                        *)
LEMMA CurrentIsGenuine ==
    ASSUME Bounded, Originals, NEW f,
           \A c \in Computed(f) : c \in Symbols \X (1 .. today) /\ f[c] = Artifact!Current(c)
    PROVE  Genuine(f, revised) /\ Owned(f, schema)
<1>1. ASSUME NEW c \in Computed(f)
      PROVE  /\ f[c] = [schema |-> schema, saw |-> [x \in Artifact!Window(c[2]) |-> input[c[1]][x]]]
             /\ \A x \in Artifact!Window(c[2]) : x \in 1 .. MaxDay /\ input[c[1]][x] # 0
  <2>1. c[1] \in Symbols /\ c[2] \in 1 .. MaxDay /\ c[2] \in Nat \ {0} /\ schema # 0
    BY DEF Bounded
  <2>2. Artifact!Value(c[1], c[2], 1, schema) # Artifact!NaN
    BY DEF Artifact!Current, Computed
  <2>3. ~\E x \in Artifact!Window(c[2]) : input[c[1]][x] = 0
    BY <2>1, <2>2, ValueOfAWindow
  <2>4. Artifact!Value(c[1], c[2], 1, schema)
          = [schema |-> schema, saw |-> [x \in Artifact!Window(c[2]) |-> input[c[1]][x]]]
    BY <2>1, <2>3, ValueOfAWindow
  <2>5. Artifact!Window(c[2]) \subseteq 1 .. MaxDay
    BY <2>1, WindowBounds
  <2> QED
    BY <2>3, <2>4, <2>5 DEF Artifact!Current
<1>2. ASSUME NEW c \in Computed(f), c[1] \notin revised
      PROVE  f[c] = [schema |-> f[c].schema, saw |-> [x \in Artifact!Window(c[2]) |-> 1]]
  <2>1. \A x \in Artifact!Window(c[2]) : input[c[1]][x] = 1
    BY <1>1, <1>2 DEF Originals
  <2>2. [x \in Artifact!Window(c[2]) |-> input[c[1]][x]] = [x \in Artifact!Window(c[2]) |-> 1]
    BY <2>1
  <2>3. f[c] = [schema |-> schema, saw |-> [x \in Artifact!Window(c[2]) |-> input[c[1]][x]]]
    BY <1>1
  <2> QED
    BY <2>2, <2>3
<1>3. ASSUME NEW c \in Computed(f) PROVE f[c].schema = schema
  <2>1. f[c] = [schema |-> schema, saw |-> [x \in Artifact!Window(c[2]) |-> input[c[1]][x]]]
    BY <1>1
  <2> QED
    BY <2>1
<1> QED
  BY <1>2, <1>3 DEF Genuine, Owned

LEMMA RangeIsGenuine ==
    ASSUME Bounded, Originals,
           NEW S \in SUBSET Symbols, NEW from \in 1 .. today, NEW to \in 1 .. today
    PROVE  LET f == Artifact!Materialized(S, from, to, schema)
           IN  Genuine(f, revised) /\ Owned(f, schema)
<1> DEFINE f == Artifact!Materialized(S, from, to, schema)
<1>1. Sound(f, today, input) /\ \A c \in DOMAIN f : f[c] = Artifact!Current(c)
  BY RangeInHand
<1> HIDE DEF f
<1>2. \A c \in Computed(f) : c \in Symbols \X (1 .. today) /\ f[c] = Artifact!Current(c)
  BY <1>1 DEF Sound, Computed
<1>3. Genuine(f, revised) /\ Owned(f, schema)
  BY <1>2, CurrentIsGenuine
<1> QED
  BY <1>3 DEF f

LEMMA FillIsGenuine ==
    ASSUME Bounded, Originals, NEW p \in Callers, Artifact!Missing(p) # {}
    PROVE  Genuine(Fill(p), revised) /\ Owned(Fill(p), schema)
<1>1. /\ Sound(Fill(p), today, input)
      /\ \A c \in DOMAIN Fill(p) : Fill(p)[c] # Artifact!NaN => Fill(p)[c] = Artifact!Current(c)
  BY FillIs
<1>2. \A c \in Computed(Fill(p)) : c \in Symbols \X (1 .. today) /\ Fill(p)[c] = Artifact!Current(c)
  BY <1>1 DEF Sound, Computed
<1> QED
  BY <1>2, CurrentIsGenuine

(* A symbol is revised for good; the other ones have rows of revision 1.   *)
LEMMA OriginalsStay ==
    ASSUME Bounded, Originals, Artifact!Environment
    PROVE  /\ Originals' /\ revised \subseteq revised'
           /\ UNCHANGED <<pure, hidden>>
           /\ \/ schema' = schema
              \/ schema' = schema + 1 /\ Artifact!NobodyCalls /\ tailPc = "idle"
<1>1. CASE Artifact!NextDay
  <2>1. today + 1 \in 1 .. MaxDay
    BY <1>1 DEF Artifact!NextDay, Bounded
  <2>2. PICK L \in SUBSET Symbols :
          input' = [s \in Symbols |-> [input[s] EXCEPT ![today + 1] = IF s \in L THEN 0 ELSE 1]]
    BY <1>1 DEF Artifact!NextDay
  <2>3. Originals'
    BY <1>1, <2>1, <2>2 DEF Originals, Artifact!NextDay, Bounded
  <2> QED
    BY <1>1, <2>3 DEF Artifact!NextDay
<1>2. ASSUME NEW s \in Symbols, NEW d \in Artifact!Days, Artifact!Warm(s, d)
      PROVE  Originals' /\ UNCHANGED <<pure, hidden, revised, schema>>
  BY <1>2 DEF Artifact!Warm, Originals, Bounded, Artifact!Days
<1>3. ASSUME NEW s \in Symbols, NEW d \in Artifact!Days, Artifact!Revise(s, d)
      PROVE  Originals' /\ UNCHANGED <<pure, hidden, schema>> /\ revised \subseteq revised'
  BY <1>3 DEF Artifact!Revise, Originals, Bounded, Artifact!Days
<1>4. CASE Artifact!Deploy
  BY <1>4 DEF Artifact!Deploy, Originals
<1> QED
  BY <1>1, <1>2, <1>3, <1>4 DEF Artifact!Environment

LEMMA GenuineStays ==
    ASSUME NEW f, NEW rev, NEW more, rev \subseteq more, Genuine(f, rev)
    PROVE  Genuine(f, more)
  BY DEF Genuine

LEMMA StepAlarmUpstream ==
    ASSUME Bounded, AlarmInv, Artifact!Environment
    PROVE  AlarmInv'
<1>1. /\ Originals' /\ revised \subseteq revised' /\ pure' = pure
      /\ \/ schema' = schema
         \/ schema' = schema + 1 /\ Artifact!NobodyCalls /\ tailPc = "idle"
  BY OriginalsStay DEF AlarmInv
<1>2. UNCHANGED <<file, callPc, rows, tailPc, tailNew, tailBad>>
  BY StepUpstream
<1>3. Bounded'
  BY StepUpstream
<1>4. Genuine(file.rows, revised')
  BY <1>1, GenuineStays DEF AlarmInv
<1>5. ASSUME NEW p \in Callers, callPc[p] = "upsert"
      PROVE  schema' = schema /\ Genuine(rows[p], revised') /\ Owned(rows[p], schema)
  <2>1. Genuine(rows[p], revised')
    BY <1>1, <1>5, GenuineStays DEF AlarmInv
  <2> QED
    BY <1>1, <1>5, <2>1 DEF AlarmInv, Artifact!NobodyCalls
<1>6. Writing => schema' = schema /\ Genuine(tailNew, revised')
  <2>1. Writing => Genuine(tailNew, revised')
    BY <1>1, GenuineStays DEF AlarmInv
  <2> QED
    BY <1>1, <2>1 DEF Writing
<1>7. file.schema \in 0 .. schema'
  BY <1>1, <1>3 DEF AlarmInv, Bounded
<1>8. pure => tailBad \subseteq revised' /\ Owned(file.rows, file.schema)
  BY <1>1 DEF AlarmInv
<1> QED
  BY <1>1, <1>2, <1>4, <1>5, <1>6, <1>7, <1>8 DEF AlarmInv, Writing

LEMMA StepAlarmCalls ==
    ASSUME ArtifactInv, CallInv, AlarmInv, TailAlone = TRUE, NEW p \in Callers,
           \/ \E S \in (SUBSET Symbols) \ {{}}, D \in Artifact!RequestDates, force \in BOOLEAN :
                Artifact!Call(p, S, D, force)
           \/ Artifact!CallStep(p)
    PROVE  AlarmInv'
<1>1. tailPc = "idle" /\ UNCHANGED <<tailPc, tailNew, tailBad>>
  BY TailStands
<1>2. UNCHANGED <<input, schema, revised>>
  BY DEF Artifact!Call, Artifact!CallStep, Artifact!ReadRows, Artifact!Hit, Artifact!Return,
         Artifact!Materialize, Artifact!Upsert, Artifact!Assemble, Artifact!Leave, Artifact!upstream
<1>3. Originals'
  BY <1>2 DEF Originals, AlarmInv
<1>4. DOMAIN callPc = Callers /\ DOMAIN rows = Callers
  BY DEF ArtifactInv, Bounded
<1>5. CASE Artifact!Materialize(p)
  <2>1. /\ rows' = [rows EXCEPT ![p] = Fill(p)] /\ Artifact!Missing(p) # {}
        /\ callPc' = [callPc EXCEPT ![p] = "upsert"] /\ UNCHANGED <<file, pure>>
    BY <1>5 DEF Artifact!Materialize, Fill, Artifact!history
  <2>2. Genuine(Fill(p), revised) /\ Owned(Fill(p), schema)
    BY <2>1, FillIsGenuine DEF ArtifactInv, AlarmInv
  <2>3. \A q \in Callers : callPc'[q] = "upsert" => Genuine(rows'[q], revised) /\ Owned(rows'[q], schema)
    BY <1>4, <2>1, <2>2 DEF AlarmInv
  <2> QED
    BY <1>1, <1>2, <1>3, <2>1, <2>3 DEF AlarmInv, Writing
<1>6. CASE Artifact!Upsert(p)
  <2>1. /\ callPc[p] = "upsert" /\ callPc' = [callPc EXCEPT ![p] = "reread"]
        /\ file' = [schema |-> schema, rows |-> Artifact!Merge(file.rows, rows[p])]
        /\ pure' = (pure /\ (file.schema = schema \/ DOMAIN file.rows \subseteq DOMAIN rows[p]))
        /\ \A q \in Callers : q # p => rows'[q] = rows[q]
    BY <1>4, <1>6 DEF Artifact!Upsert, Artifact!Upserted
  <2>2. Genuine(rows[p], revised) /\ Owned(rows[p], schema) /\ Genuine(file.rows, revised)
    BY <2>1 DEF AlarmInv
  <2>3. Genuine(Artifact!Merge(file.rows, rows[p]), revised)
    BY <2>2, MergeKeeps
  <2>4. ASSUME pure' PROVE Owned(Artifact!Merge(file.rows, rows[p]), schema)
    <3>1. CASE file.schema = schema
      <4>1. Owned(file.rows, schema)
        BY <2>1, <2>4, <3>1 DEF AlarmInv
      <4> QED
        BY <2>2, <4>1, MergeKeeps
    <3>2. CASE DOMAIN file.rows \subseteq DOMAIN rows[p]
      BY <2>2, <3>2 DEF Artifact!Merge, Owned, Computed
    <3> QED
      BY <2>1, <2>4, <3>1, <3>2
  <2>5. file'.rows = Artifact!Merge(file.rows, rows[p]) /\ file'.schema = schema /\ schema \in 0 .. schema
    BY <2>1 DEF ArtifactInv, Bounded
  <2>6. \A q \in Callers : callPc'[q] = "upsert" => Genuine(rows'[q], revised) /\ Owned(rows'[q], schema)
    BY <1>4, <2>1 DEF AlarmInv
  <2> QED
    BY <1>1, <1>2, <1>3, <2>1, <2>3, <2>4, <2>5, <2>6 DEF AlarmInv, Writing
<1>7. CASE ~Artifact!Materialize(p) /\ ~Artifact!Upsert(p)
  <2>1. /\ UNCHANGED <<file, pure>>
        /\ \A q \in Callers : callPc'[q] = "upsert" => callPc[q] = "upsert" /\ rows'[q] = rows[q]
    BY <1>4, <1>7 DEF Artifact!Call, Artifact!CallStep, Artifact!ReadRows, Artifact!Hit, Artifact!Return,
         Artifact!Assemble, Artifact!Leave, Artifact!history
  <2> QED
    BY <1>1, <1>2, <1>3, <2>1 DEF AlarmInv, Writing
<1> QED
  BY <1>5, <1>6, <1>7

(* What the overlap calls revised was revised.                             *)
LEMMA AlarmIsTrue ==
    ASSUME ArtifactInv, TailInv, AlarmInv, pure, Artifact!TailOverlap
    PROVE  Artifact!Revised(tailFrame, Recomputed, Artifact!EmitStart) \subseteq revised
<1>1. /\ tailPc = "check" /\ tailFrame # Artifact!NoRows /\ file.schema = schema
  BY DEF Artifact!TailOverlap
<1>2. tailDay \in 1 .. today /\ Artifact!EmitStart \in 1 .. today /\ tailFrame = file.rows
  BY <1>1, OverlapRange DEF ArtifactInv, Bounded, TailInv
<1>3. Computes(Recomputed, Symbols, Artifact!EmitStart, tailDay, schema)
  BY <1>2, RangeInHand DEF ArtifactInv, Recomputed
<1>4. ASSUME NEW c \in DOMAIN tailFrame, c[2] >= Artifact!EmitStart, tailFrame[c] # Artifact!NaN,
             c[1] \notin revised
      PROVE  c \in DOMAIN Recomputed /\ tailFrame[c] = Recomputed[c]
  <2>1. c \in Computed(file.rows)
    BY <1>2, <1>4 DEF Computed
  <2>2. /\ c \in Symbols \X (1 .. today)
        /\ \A x \in Artifact!Window(c[2]) : input[c[1]][x] # 0
    BY <2>1, ComputedCell
  <2>3. c[2] <= tailDay
    BY <1>1, <1>2, <1>4 DEF TailInv
  <2>4. c \in Symbols \X (Artifact!EmitStart .. tailDay)
    BY <1>2, <1>4, <2>2, <2>3
  <2>5. c \in DOMAIN Recomputed
    BY <1>3, <2>2, <2>4 DEF Computes
  <2>6. Recomputed[c] = [schema |-> schema, saw |-> [x \in Artifact!Window(c[2]) |-> input[c[1]][x]]]
    BY <1>3, <2>5 DEF Computes
  <2>7. Artifact!Window(c[2]) \subseteq 1 .. MaxDay
    <3>1. c[2] \in Nat \ {0} /\ c[2] <= MaxDay
      BY <2>2 DEF ArtifactInv, Bounded
    <3> QED
      BY <3>1, WindowBounds
  <2>8. \A x \in Artifact!Window(c[2]) : input[c[1]][x] = 1
    BY <1>4, <2>2, <2>7 DEF AlarmInv, Originals
  <2>9. [x \in Artifact!Window(c[2]) |-> input[c[1]][x]] = [x \in Artifact!Window(c[2]) |-> 1]
    BY <2>8
  <2>10. file.rows[c] = [schema |-> file.rows[c].schema, saw |-> [x \in Artifact!Window(c[2]) |-> 1]]
    BY <1>4, <2>1 DEF AlarmInv, Genuine
  <2>11. file.rows[c].schema = schema
    BY <1>1, <2>1 DEF AlarmInv, Owned
  <2> QED
    BY <1>2, <2>5, <2>6, <2>9, <2>10, <2>11
<1> QED
  BY <1>4 DEF Artifact!Revised

LEMMA StepAlarmTail ==
    ASSUME ArtifactInv, TailInv, AlarmInv, Artifact!TailStart \/ Artifact!TailStep
    PROVE  AlarmInv'
<1> USE DEF Artifact!upstream, Artifact!callVars, Artifact!history
<1>0. /\ UNCHANGED <<input, schema, revised, pure, callPc, rows>>
  BY DEF Artifact!TailStart, Artifact!TailStep, Artifact!TailRead, Artifact!TailFull,
         Artifact!TailOverlap, Artifact!TailRecolumn, Artifact!TailWrite, Artifact!TailLeave
<1>a. Originals' /\ Bounded /\ Originals /\ tailBad \in SUBSET Symbols
  BY <1>0 DEF Originals, AlarmInv, ArtifactInv
<1>1. CASE Artifact!TailStart \/ Artifact!TailRead
  BY <1>0, <1>1, <1>a DEF Artifact!TailStart, Artifact!TailRead, AlarmInv, Writing
<1>2. CASE Artifact!TailFull
  <2> DEFINE new == Artifact!Materialized(Symbols, 1, tailDay, schema)
  <2>1. 1 \in 1 .. today /\ tailDay \in 1 .. today
    BY <1>2 DEF Artifact!TailFull, ArtifactInv, Bounded
  <2>2. Genuine(new, revised) /\ Owned(new, schema)
    BY <1>a, <2>1, RangeIsGenuine
  <2>3. tailNew' = new /\ UNCHANGED <<file, tailBad>>
    BY <1>2 DEF Artifact!TailFull
  <2> HIDE DEF new
  <2> QED
    BY <1>0, <1>a, <2>2, <2>3 DEF AlarmInv, Writing
<1>3. CASE Artifact!TailOverlap
  <2>1. /\ tailNew' = Artifact!Merge(Kept, Recomputed) /\ file' = file /\ file.schema = schema
        /\ tailBad' = Artifact!Revised(tailFrame, Recomputed, Artifact!EmitStart)
        /\ tailPc = "check" /\ tailFrame # Artifact!NoRows
    BY <1>3 DEF Artifact!TailOverlap, Kept, Recomputed
  <2>2. tailDay \in 1 .. today /\ Artifact!EmitStart \in 1 .. today /\ tailFrame = file.rows
    BY <2>1, OverlapRange DEF ArtifactInv, Bounded, TailInv
  <2>3. Genuine(Recomputed, revised) /\ Owned(Recomputed, schema)
    BY <1>a, <2>2, RangeIsGenuine DEF Recomputed
  <2>4. Genuine(Kept, revised) /\ (Owned(file.rows, schema) => Owned(Kept, schema))
    BY <2>2, RestrictKeeps DEF Kept, AlarmInv
  <2>5. Genuine(Artifact!Merge(Kept, Recomputed), revised)
    BY <2>3, <2>4, MergeKeeps
  <2>6. pure => Owned(Artifact!Merge(Kept, Recomputed), schema)
    BY <2>1, <2>3, <2>4, MergeKeeps DEF AlarmInv
  <2>7. pure => tailBad' \subseteq revised
    BY <1>3, <2>1, AlarmIsTrue
  <2> QED
    BY <1>0, <1>a, <2>1, <2>5, <2>6, <2>7 DEF AlarmInv, Writing
<1>4. CASE Artifact!TailRecolumn
  <2>1. tailNew' = Artifact!Merge(NotBad, Columns) /\ UNCHANGED <<file, tailBad>> /\ tailPc = "recolumn"
    BY <1>4 DEF Artifact!TailRecolumn, Artifact!Recolumned, NotBad, Columns
  <2>2. 1 \in 1 .. today /\ tailDay \in 1 .. today
    BY <2>1 DEF ArtifactInv, Bounded
  <2>3. Genuine(Columns, revised) /\ Owned(Columns, schema)
    BY <1>a, <2>2, RangeIsGenuine DEF Columns
  <2>4. Genuine(NotBad, revised) /\ (Owned(tailNew, schema) => Owned(NotBad, schema))
    BY <2>1, RestrictKeeps DEF NotBad, AlarmInv, Writing
  <2>5. Genuine(Artifact!Merge(NotBad, Columns), revised)
    BY <2>3, <2>4, MergeKeeps
  <2>6. pure => Owned(Artifact!Merge(NotBad, Columns), schema)
    BY <2>1, <2>3, <2>4, MergeKeeps DEF AlarmInv, Writing
  <2> QED
    BY <1>0, <1>a, <2>1, <2>5, <2>6 DEF AlarmInv, Writing
<1>5. CASE Artifact!TailWrite
  <2>1. /\ file' = [schema |-> schema, rows |-> tailNew] /\ tailPc = "write" /\ tailPc' = "done"
        /\ tailBad' = tailBad
    BY <1>5 DEF Artifact!TailWrite
  <2>2. file'.rows = tailNew /\ file'.schema = schema /\ schema \in 0 .. schema
    BY <2>1 DEF ArtifactInv, Bounded
  <2> QED
    BY <1>0, <1>a, <2>1, <2>2 DEF AlarmInv, Writing
<1>6. CASE Artifact!TailLeave
  <2>1. tailBad' = {} /\ file' = file /\ tailPc' = "idle"
    BY <1>6 DEF Artifact!TailLeave
  <2> QED
    BY <1>0, <1>a, <2>1 DEF AlarmInv, Writing
<1> QED
  BY <1>1, <1>2, <1>3, <1>4, <1>5, <1>6 DEF Artifact!TailStep

LEMMA StepAlarm ==
    ASSUME TailAlone = TRUE
    PROVE  ArtifactInv /\ CallInv /\ TailInv /\ AlarmInv /\ [Artifact!Next]_(Artifact!vars) => AlarmInv'
<1> SUFFICES ASSUME ArtifactInv, CallInv, TailInv, AlarmInv, [Artifact!Next]_(Artifact!vars)
             PROVE  AlarmInv'
  OBVIOUS
<1>1. CASE Artifact!Environment
  BY <1>1, StepAlarmUpstream DEF ArtifactInv
<1>2. ASSUME NEW p \in Callers,
             \/ \E S \in (SUBSET Symbols) \ {{}}, D \in Artifact!RequestDates, force \in BOOLEAN :
                  Artifact!Call(p, S, D, force)
             \/ Artifact!CallStep(p)
      PROVE  AlarmInv'
  BY <1>2, StepAlarmCalls
<1>3. CASE Artifact!TailStart \/ Artifact!TailStep
  BY <1>3, StepAlarmTail
<1>4. CASE UNCHANGED Artifact!vars
  BY <1>4 DEF Artifact!vars, Artifact!upstream, Artifact!callVars, Artifact!tailVars, Artifact!history,
              AlarmInv, Originals, Writing
<1> QED
  BY <1>1, <1>2, <1>3, <1>4 DEF Artifact!Next, Artifact!Resting

LEMMA AlarmHolds ==
    ASSUME TailAlone = TRUE
    PROVE  MCSpec => []AlarmInv
<1>1. MCInit => AlarmInv
  <2>1. ASSUME Artifact!Init PROVE AlarmInv
    <3>1. file.rows = Artifact!NoRows /\ file.schema = 0 /\ schema = 1
      BY <2>1 DEF Artifact!Init, Artifact!NoFile
    <3>2. Genuine(Artifact!NoRows, revised) /\ Owned(Artifact!NoRows, file.schema)
      BY DEF Artifact!NoRows, Genuine, Owned, Computed
    <3>3. Originals
      BY <2>1 DEF Artifact!Init, Artifact!Days, Originals
    <3> QED
      BY <2>1, <3>1, <3>2, <3>3 DEF Artifact!Init, AlarmInv, Writing
  <2> QED
    BY <2>1, ArtifactSteps
<1>2. ArtifactInv /\ CallInv /\ TailInv /\ AlarmInv /\ [MCNext]_mcVars => AlarmInv'
  BY ArtifactSteps, StepAlarm
<1> QED
  BY <1>1, <1>2, ArtifactIsSound, CallsAreHeld, TailIsTyped, PTL DEF MCSpec
-----------------------------------------------------------------------------
(***************************************************************************)
(* No missed revision: a stored value that upstream contradicts lies so    *)
(* near the last date of its frame that the next overlap reaches it.       *)
(***************************************************************************)
CatchInv ==
    pure /\ ~hidden =>
      /\ file.schema = schema =>
           \A c \in Artifact!Stale(file.rows), e \in Artifact!DatesOf(file.rows) : e <= c[2] + Horizon
      /\ Writing => \A c \in Artifact!Stale(tailNew) : tailDay <= c[2] + Horizon
      /\ Writing /\ quiet => Artifact!Stale(tailNew) = {}
      /\ tailPc = "done" /\ quiet => Artifact!Stale(file.rows) = {}

LEMMA CurrentStays ==
    ASSUME Bounded, schema' = schema, NEW c \in Symbols \X (1 .. today),
           \A x \in Artifact!Window(c[2]) : input'[c[1]][x] = input[c[1]][x]
    PROVE  Artifact!Current(c)' = Artifact!Current(c)
<1> DEFINE w == Artifact!Loaded(c[2], 1)
           s == c[1]
<1>1. w = Artifact!Window(c[2])
  <2>1. c[2] \in 1 .. MaxDay
    BY DEF Bounded
  <2> QED
    BY <2>1 DEF Artifact!Loaded, Artifact!Window, Artifact!Greater
<1>2. \A x \in w : input'[s][x] = input[s][x]
  BY <1>1
<1>3. Artifact!Current(c) = IF \E x \in w : input[s][x] = 0
                              THEN Artifact!NaN
                              ELSE [schema |-> schema, saw |-> [x \in w |-> input[s][x]]]
  BY DEF Artifact!Current, Artifact!Value
<1>4. Artifact!Current(c)' = IF \E x \in w : input'[s][x] = 0
                               THEN Artifact!NaN
                               ELSE [schema |-> schema', saw |-> [x \in w |-> input'[s][x]]]
  BY DEF Artifact!Current, Artifact!Value
<1> HIDE DEF w, s
<1>5. [x \in w |-> input'[s][x]] = [x \in w |-> input[s][x]]
  BY <1>2
<1>6. (\E x \in w : input'[s][x] = 0) <=> (\E x \in w : input[s][x] = 0)
  BY <1>2
<1> QED
  BY <1>3, <1>4, <1>5, <1>6

(* Upstream makes a value stale only by a revision, and a revision is no   *)
(* older than the horizon.                                                 *)
LEMMA NewlyStale ==
    ASSUME Bounded, Artifact!Environment, schema' = schema,
           NEW f, Sound(f, today, input), NEW c \in Computed(f),
           f[c] # Artifact!Current(c)'
    PROVE  f[c] # Artifact!Current(c) \/ today <= c[2] + Horizon
<1>1. /\ c \in Symbols \X (1 .. today)
      /\ \A x \in Artifact!Window(c[2]) : input[c[1]][x] # 0
  BY DEF Sound, Computed
<1>2. c[1] \in Symbols /\ c[2] \in Nat \ {0} /\ today \in Nat /\ c[2] <= today
  BY <1>1 DEF Bounded
<1>3. \A x \in Artifact!Window(c[2]) : x \in 1 .. MaxDay /\ x <= c[2]
  <2>1. Artifact!Window(c[2]) \subseteq 1 .. c[2]
    BY <1>2, WindowBounds
  <2> QED
    BY <1>2, <2>1 DEF Bounded
<1>4. ASSUME f[c] = Artifact!Current(c)
      PROVE  \E x \in Artifact!Window(c[2]) : input'[c[1]][x] # input[c[1]][x]
  BY <1>1, <1>4, CurrentStays
<1>5. ASSUME NEW x \in Artifact!Window(c[2]), input'[c[1]][x] # input[c[1]][x]
      PROVE  today <= c[2] + Horizon
  <2>1. x \in 1 .. MaxDay /\ x <= c[2] /\ input[c[1]][x] # 0
    BY <1>1, <1>3
  <2>2. CASE Artifact!NextDay
    <3>1. PICK L \in SUBSET Symbols :
            input' = [s \in Symbols |-> [input[s] EXCEPT ![today + 1] = IF s \in L THEN 0 ELSE 1]]
      BY <2>2 DEF Artifact!NextDay
    <3>2. x # today + 1
      BY <1>2, <2>1
    <3> QED
      BY <1>2, <1>5, <2>1, <3>1, <3>2 DEF Bounded
  <2>3. ASSUME NEW s \in Symbols, NEW d \in Artifact!Days, Artifact!Warm(s, d)
        PROVE  FALSE
    <3>1. input[s][d] = 0 /\ input' = [input EXCEPT ![s][d] = 1]
      BY <2>3 DEF Artifact!Warm
    <3> QED
      BY <1>2, <1>5, <2>1, <3>1 DEF Bounded, Artifact!Days
  <2>4. ASSUME NEW s \in Symbols, NEW d \in Artifact!Days, Artifact!Revise(s, d)
        PROVE  today <= c[2] + Horizon
    <3>1. d \in today - Horizon .. today /\ input' = [input EXCEPT ![s][d] = input[s][d] + 1]
      BY <2>4 DEF Artifact!Revise
    <3>2. d = x
      BY <1>2, <1>5, <2>1, <3>1 DEF Bounded, Artifact!Days
    <3> QED
      BY <1>2, <2>1, <3>1, <3>2 DEF Artifact!Days
  <2>5. CASE Artifact!Deploy
    BY <1>5, <2>5 DEF Artifact!Deploy
  <2> QED
    BY <2>2, <2>3, <2>4, <2>5 DEF Artifact!Environment
<1> QED
  BY <1>4, <1>5

LEMMA StepCatchUpstream ==
    ASSUME ArtifactInv, AlarmInv, CatchInv, Artifact!Environment
    PROVE  CatchInv'
<1>1. Bounded /\ FramesAreSound /\ Originals
  BY DEF ArtifactInv, AlarmInv
<1>2. /\ UNCHANGED <<file, tailPc, tailDay, tailNew, pure, hidden>>
      /\ \/ schema' = schema
         \/ schema' = schema + 1 /\ tailPc = "idle"
  BY <1>1, StepUpstream, OriginalsStay
<1>3. CASE schema' = schema + 1 /\ tailPc = "idle"
  <2>1. file.schema # schema'
    BY <1>1, <1>3 DEF AlarmInv, Bounded
  <2> QED
    BY <1>2, <1>3, <2>1 DEF CatchInv, Writing
<1>4. CASE schema' = schema
  <2>1. ASSUME NEW f, Sound(f, today, input), NEW c \in {c \in DOMAIN f : f[c] # Artifact!NaN /\ f[c] # Artifact!Current(c)'}
        PROVE  c \in Artifact!Stale(f) \/ today <= c[2] + Horizon
    BY <1>1, <1>4, <2>1, NewlyStale DEF Artifact!Stale, Computed
  <2>2. quiet' = FALSE
    <3>1. ~Artifact!Deploy
      BY <1>1, <1>4 DEF Artifact!Deploy, Bounded
    <3> QED
      BY <3>1 DEF Artifact!Environment, Artifact!NextDay, Artifact!Warm, Artifact!Revise
  <2>3. ASSUME NEW c \in Artifact!Stale(file.rows)', NEW e \in Artifact!DatesOf(file.rows),
               pure, ~hidden, file.schema = schema
        PROVE  e <= c[2] + Horizon
    <3>1. Sound(file.rows, today, input)
      BY <1>1 DEF FramesAreSound
    <3>2. c \in Artifact!Stale(file.rows) \/ today <= c[2] + Horizon
      BY <1>2, <2>1, <2>3, <3>1 DEF Artifact!Stale
    <3>3. e \in Nat /\ e <= today /\ c[2] \in Nat /\ today \in Nat
      BY <1>1, <1>2, <2>3, <3>1 DEF Sound, Artifact!DatesOf, Artifact!Stale, Bounded
    <3> QED
      BY <2>3, <3>2, <3>3 DEF CatchInv
  <2>4. ASSUME NEW c \in Artifact!Stale(tailNew)', pure, ~hidden, Writing
        PROVE  tailDay <= c[2] + Horizon
    <3>1. Sound(tailNew, today, input)
      BY <1>1 DEF FramesAreSound
    <3>2. c \in Artifact!Stale(tailNew) \/ today <= c[2] + Horizon
      BY <1>2, <2>1, <2>4, <3>1 DEF Artifact!Stale
    <3>3. tailDay \in Nat /\ tailDay <= today /\ c[2] \in Nat /\ today \in Nat
      BY <1>1, <1>2, <2>4, <3>1 DEF Sound, Artifact!Stale, Bounded
    <3> QED
      BY <2>4, <3>2, <3>3 DEF CatchInv
  <2>5. Artifact!DatesOf(file.rows)' = Artifact!DatesOf(file.rows)
    BY <1>2 DEF Artifact!DatesOf
  <2> QED
    BY <1>2, <1>4, <2>2, <2>3, <2>4, <2>5 DEF CatchInv, Writing
<1> QED
  BY <1>2, <1>3, <1>4

LEMMA SameUpstream ==
    ASSUME input' = input, schema' = schema
    PROVE  \A c : Artifact!Current(c)' = Artifact!Current(c)
  BY DEF Artifact!Current, Artifact!Value

LEMMA StepCatchCalls ==
    ASSUME ArtifactInv, CallInv, CatchInv, TailAlone = TRUE, NEW p \in Callers,
           \/ \E S \in (SUBSET Symbols) \ {{}}, D \in Artifact!RequestDates, force \in BOOLEAN :
                Artifact!Call(p, S, D, force)
           \/ Artifact!CallStep(p)
    PROVE  CatchInv'
<1>1. tailPc' = "idle"
  BY TailStands
<1>2. UNCHANGED <<input, schema>>
  BY DEF Artifact!Call, Artifact!CallStep, Artifact!ReadRows, Artifact!Hit, Artifact!Return,
         Artifact!Materialize, Artifact!Upsert, Artifact!Assemble, Artifact!Leave, Artifact!upstream
<1>3. \A c : Artifact!Current(c)' = Artifact!Current(c)
  BY <1>2, SameUpstream
<1>4. CASE Artifact!Upsert(p)
  <2> DEFINE old == file.rows
             new == rows[p]
             m == Artifact!Merge(old, new)
  <2>1. /\ file' = [schema |-> schema, rows |-> m]
        /\ pure' = (pure /\ (file.schema = schema \/ DOMAIN old \subseteq DOMAIN new))
        /\ hidden' = (hidden \/ Artifact!HidesStale(p))
    BY <1>4 DEF Artifact!Upsert, Artifact!Upserted
  <2>2. /\ DOMAIN m = DOMAIN old \cup DOMAIN new
        /\ \A c \in DOMAIN new : m[c] = new[c]
        /\ \A c \in DOMAIN old : c \notin DOMAIN new => m[c] = old[c]
    BY DEF Artifact!Merge
  <2>3. file'.rows = m
    BY <2>1
  <2>4. ASSUME pure', ~hidden', NEW c \in DOMAIN m, m[c] # Artifact!NaN, m[c] # Artifact!Current(c),
               NEW e \in DOMAIN m
        PROVE  e[2] <= c[2] + Horizon
    <3>1. pure /\ ~hidden /\ ~Artifact!HidesStale(p)
      BY <2>1, <2>4
    <3>2. Artifact!Stale(new) = {}
      BY <3>1 DEF Artifact!HidesStale
    <3>3. c \notin DOMAIN new
      BY <2>2, <2>4, <3>2 DEF Artifact!Stale
    <3>4. c \in Artifact!Stale(old)
      BY <2>2, <2>4, <3>3 DEF Artifact!Stale
    <3>5. file.schema = schema
      BY <2>1, <2>2, <2>4, <3>3
    <3>6. \A x \in Artifact!DatesOf(old) : x <= c[2] + Horizon
      BY <3>1, <3>4, <3>5 DEF CatchInv
    <3>7. CASE e \in DOMAIN old
      BY <3>6, <3>7 DEF Artifact!DatesOf
    <3>8. CASE e \in DOMAIN new
      <4>1. PICK x \in Artifact!DatesOf(old) : ~(e[2] > x)
        BY <3>1, <3>4, <3>8 DEF Artifact!HidesStale, Artifact!DatesOf
      <4>2. x \in Nat /\ c[2] \in Nat
        BY <3>4, <4>1 DEF ArtifactInv, FramesAreSound, Sound, Artifact!DatesOf, Artifact!Stale
      <4>3. e[2] \in Nat
        <5>1. Sound(rows[p], today, input)
          BY DEF ArtifactInv, FramesAreSound
        <5>2. e \in Symbols \X (1 .. today)
          BY <3>8, <5>1 DEF Sound
        <5> QED
          BY <5>2
      <4> QED
        BY <3>6, <4>1, <4>2, <4>3
    <3> QED
      BY <2>2, <3>7, <3>8
  <2> HIDE DEF old, new, m
  <2>5. ASSUME pure', ~hidden', NEW c \in Artifact!Stale(file.rows)', NEW e \in Artifact!DatesOf(file.rows)'
        PROVE  e <= c[2] + Horizon
    <3>1. c \in DOMAIN m /\ m[c] # Artifact!NaN /\ m[c] # Artifact!Current(c)
      BY <1>3, <2>3, <2>5 DEF Artifact!Stale
    <3>2. PICK x \in DOMAIN m : e = x[2]
      BY <2>3, <2>5 DEF Artifact!DatesOf
    <3> QED
      BY <2>4, <2>5, <3>1, <3>2
  <2> QED
    BY <1>1, <2>5 DEF CatchInv, Writing
<1>5. CASE ~Artifact!Upsert(p)
  <2>1. UNCHANGED <<file, pure, hidden>>
    BY <1>5 DEF Artifact!Call, Artifact!CallStep, Artifact!ReadRows, Artifact!Hit, Artifact!Return,
         Artifact!Materialize, Artifact!Assemble, Artifact!Leave, Artifact!history
  <2>2. Artifact!Stale(file.rows)' = Artifact!Stale(file.rows)
    BY <1>3, <2>1 DEF Artifact!Stale
  <2>3. Artifact!DatesOf(file.rows)' = Artifact!DatesOf(file.rows)
    BY <2>1 DEF Artifact!DatesOf
  <2> QED
    BY <1>1, <1>2, <2>1, <2>2, <2>3 DEF CatchInv, Writing
<1> QED
  BY <1>4, <1>5

(* The overlap and the full column leave nothing stale behind.             *)
LEMMA OverlapIsCurrent ==
    ASSUME ArtifactInv, TailInv, CatchInv, pure, ~hidden, Artifact!TailOverlap
    PROVE  Artifact!Stale(Artifact!Merge(Kept, Recomputed)) = {}
<1>1. /\ tailPc = "check" /\ tailFrame # Artifact!NoRows /\ file.schema = schema
  BY DEF Artifact!TailOverlap
<1>2. tailDay \in 1 .. today /\ Artifact!EmitStart \in 1 .. today /\ tailFrame = file.rows
  BY <1>1, OverlapRange DEF ArtifactInv, Bounded, TailInv
<1>3. \A c \in DOMAIN Recomputed : Recomputed[c] = Artifact!Current(c)
  BY <1>2, RangeInHand DEF ArtifactInv, Recomputed
<1> DEFINE m == Artifact!Merge(Kept, Recomputed)
<1>4. /\ DOMAIN m = DOMAIN Kept \cup DOMAIN Recomputed
      /\ \A c \in DOMAIN Recomputed : m[c] = Recomputed[c]
      /\ \A c \in DOMAIN Kept : c \notin DOMAIN Recomputed => m[c] = Kept[c]
  BY DEF Artifact!Merge
<1> HIDE DEF m
<1>5. /\ DOMAIN Kept = {c \in DOMAIN tailFrame : c[2] < Artifact!EmitStart}
      /\ \A c \in DOMAIN Kept : Kept[c] = tailFrame[c]
  BY DEF Kept, Artifact!Restrict
<1>6. ASSUME NEW c \in Artifact!Stale(m) PROVE FALSE
  <2>1. c \in DOMAIN Kept /\ m[c] = tailFrame[c] /\ c[2] < Artifact!EmitStart
    BY <1>3, <1>4, <1>5, <1>6 DEF Artifact!Stale
  <2>2. c \in Artifact!Stale(file.rows)
    BY <1>2, <1>5, <1>6, <2>1 DEF Artifact!Stale
  <2>3. \A e \in Artifact!DatesOf(tailFrame) : e <= c[2] + Horizon
    BY <1>1, <1>2, <2>2 DEF CatchInv
  <2>4. c[2] \in Artifact!DatesOf(tailFrame)
    BY <1>2, <2>2 DEF Artifact!Stale, Artifact!DatesOf
  <2>5. Artifact!EmitStart <= c[2]
    BY <1>1, <2>3, <2>4, OverlapRange DEF ArtifactInv
  <2>6. c[2] \in Nat
    BY <2>2 DEF ArtifactInv, FramesAreSound, Sound, Artifact!Stale
  <2> QED
    BY <1>2, <2>1, <2>5, <2>6
<1> QED
  BY <1>6 DEF m

LEMMA ColumnsAreCurrent ==
    ASSUME Bounded, tailDay \in 1 .. today, NEW S \in SUBSET Symbols
    PROVE  Artifact!Stale(Artifact!Materialized(S, 1, tailDay, schema)) = {}
<1> DEFINE f == Artifact!Materialized(S, 1, tailDay, schema)
<1>1. 1 \in 1 .. today
  BY DEF Bounded
<1>2. \A c \in DOMAIN f : f[c] = Artifact!Current(c)
  BY <1>1, RangeInHand
<1> HIDE DEF f
<1>3. Artifact!Stale(f) = {}
  BY <1>2 DEF Artifact!Stale
<1> QED
  BY <1>3 DEF f

LEMMA StepCatchTail ==
    ASSUME ArtifactInv, TailInv, CatchInv, Artifact!TailStart \/ Artifact!TailStep
    PROVE  CatchInv'
<1> USE DEF Artifact!upstream, Artifact!callVars, Artifact!history
<1>0. UNCHANGED <<input, schema, pure, hidden>> /\ (tailPc # "idle" => quiet' \in {quiet, FALSE})
  BY DEF Artifact!TailStart, Artifact!TailStep, Artifact!TailRead, Artifact!TailFull,
         Artifact!TailOverlap, Artifact!TailRecolumn, Artifact!TailWrite, Artifact!TailLeave
<1>a. \A c : Artifact!Current(c)' = Artifact!Current(c)
  BY <1>0, SameUpstream
<1>b. file' = file => /\ Artifact!Stale(file.rows)' = Artifact!Stale(file.rows)
                      /\ Artifact!DatesOf(file.rows)' = Artifact!DatesOf(file.rows)
  BY <1>a DEF Artifact!Stale, Artifact!DatesOf
<1>1. CASE Artifact!TailStart \/ Artifact!TailRead
  BY <1>0, <1>1, <1>b DEF Artifact!TailStart, Artifact!TailRead, CatchInv, Writing
<1>2. CASE Artifact!TailFull
  <2> DEFINE new == Artifact!Materialized(Symbols, 1, tailDay, schema)
  <2>1. tailNew' = new /\ file' = file /\ tailPc' = "write" /\ tailDay' = tailDay /\ quiet' = quiet
        /\ tailDay \in 1 .. today
    BY <1>2 DEF Artifact!TailFull, ArtifactInv, Bounded
  <2>2. Artifact!Stale(new) = {}
    BY <2>1, ColumnsAreCurrent DEF ArtifactInv
  <2> HIDE DEF new
  <2>3. Artifact!Stale(tailNew)' = {}
    BY <1>a, <2>1, <2>2 DEF Artifact!Stale
  <2> QED
    BY <1>0, <1>b, <2>1, <2>3 DEF CatchInv, Writing
<1>3. CASE Artifact!TailOverlap
  <2> DEFINE new == Artifact!Merge(Kept, Recomputed)
  <2>1. tailNew' = new /\ file' = file /\ tailPc' \in {"write", "recolumn"} /\ quiet' = quiet
    BY <1>3 DEF Artifact!TailOverlap, Kept, Recomputed
  <2>2. pure /\ ~hidden => Artifact!Stale(new) = {}
    BY <1>3, OverlapIsCurrent
  <2> HIDE DEF new
  <2>3. pure /\ ~hidden => Artifact!Stale(tailNew)' = {}
    BY <1>a, <2>1, <2>2 DEF Artifact!Stale
  <2> QED
    BY <1>0, <1>b, <2>1, <2>3 DEF CatchInv, Writing
<1>4. CASE Artifact!TailRecolumn
  <2> DEFINE new == Artifact!Merge(NotBad, Columns)
  <2>1. /\ tailNew' = new /\ file' = file /\ tailPc = "recolumn" /\ tailPc' = "write"
        /\ tailDay' = tailDay /\ quiet' = quiet /\ tailDay \in 1 .. today /\ tailBad \in SUBSET Symbols
    BY <1>4 DEF Artifact!TailRecolumn, Artifact!Recolumned, NotBad, Columns, ArtifactInv, Bounded
  <2>2. Artifact!Stale(Columns) = {}
    BY <2>1, ColumnsAreCurrent DEF ArtifactInv, Columns
  <2>3. /\ DOMAIN new = DOMAIN NotBad \cup DOMAIN Columns
        /\ \A c \in DOMAIN Columns : new[c] = Columns[c]
        /\ \A c \in DOMAIN NotBad : c \notin DOMAIN Columns => new[c] = NotBad[c]
    BY DEF Artifact!Merge
  <2>4. DOMAIN NotBad \subseteq DOMAIN tailNew /\ \A c \in DOMAIN NotBad : NotBad[c] = tailNew[c]
    BY DEF NotBad, Artifact!Restrict
  <2> HIDE DEF new
  <2>5. Artifact!Stale(tailNew)' \subseteq Artifact!Stale(tailNew)
    BY <1>a, <2>1, <2>2, <2>3, <2>4 DEF Artifact!Stale
  <2> QED
    BY <1>0, <1>b, <2>1, <2>5 DEF CatchInv, Writing
<1>5. CASE Artifact!TailWrite
  <2>1. /\ file' = [schema |-> schema, rows |-> tailNew] /\ tailPc = "write" /\ tailPc' = "done"
        /\ quiet' = quiet
    BY <1>5 DEF Artifact!TailWrite
  <2>2. file'.rows = tailNew
    BY <2>1
  <2>3. Artifact!Stale(file.rows)' = Artifact!Stale(tailNew)
    BY <1>a, <2>2 DEF Artifact!Stale
  <2>4. Artifact!DatesOf(file.rows)' = Artifact!DatesOf(tailNew)
    BY <2>2 DEF Artifact!DatesOf
  <2>5. \A e \in Artifact!DatesOf(tailNew) : e \in Nat /\ e <= tailDay /\ tailDay \in Nat
    BY <2>1 DEF TailInv, Artifact!DatesOf, ArtifactInv, Bounded, FramesAreSound, Sound
  <2>6. \A c \in Artifact!Stale(tailNew) : c[2] \in Nat
    BY DEF Artifact!Stale, ArtifactInv, FramesAreSound, Sound
  <2>7. ASSUME pure, ~hidden, NEW c \in Artifact!Stale(tailNew), NEW e \in Artifact!DatesOf(tailNew)
        PROVE  e <= c[2] + Horizon
    <3>1. tailDay <= c[2] + Horizon
      BY <2>1, <2>7 DEF CatchInv, Writing
    <3> QED
      BY <2>5, <2>6, <3>1
  <2> QED
    BY <1>0, <2>1, <2>3, <2>4, <2>7 DEF CatchInv, Writing
<1>6. CASE Artifact!TailLeave
  <2>1. file' = file /\ tailPc' = "idle"
    BY <1>6 DEF Artifact!TailLeave
  <2> QED
    BY <1>0, <1>b, <2>1 DEF CatchInv, Writing
<1> QED
  BY <1>1, <1>2, <1>3, <1>4, <1>5, <1>6 DEF Artifact!TailStep

LEMMA StepCatch ==
    ASSUME TailAlone = TRUE
    PROVE  ArtifactInv /\ CallInv /\ TailInv /\ AlarmInv /\ CatchInv /\ [Artifact!Next]_(Artifact!vars)
             => CatchInv'
<1> SUFFICES ASSUME ArtifactInv, CallInv, TailInv, AlarmInv, CatchInv, [Artifact!Next]_(Artifact!vars)
             PROVE  CatchInv'
  OBVIOUS
<1>1. CASE Artifact!Environment
  BY <1>1, StepCatchUpstream
<1>2. ASSUME NEW p \in Callers,
             \/ \E S \in (SUBSET Symbols) \ {{}}, D \in Artifact!RequestDates, force \in BOOLEAN :
                  Artifact!Call(p, S, D, force)
             \/ Artifact!CallStep(p)
      PROVE  CatchInv'
  BY <1>2, StepCatchCalls
<1>3. CASE Artifact!TailStart \/ Artifact!TailStep
  BY <1>3, StepCatchTail
<1>4. CASE UNCHANGED Artifact!vars
  <2>1. UNCHANGED <<input, schema, file, tailPc, tailNew, tailDay, pure, hidden, quiet>>
    BY <1>4 DEF Artifact!vars, Artifact!upstream, Artifact!tailVars, Artifact!history
  <2>2. \A c : Artifact!Current(c)' = Artifact!Current(c)
    BY <2>1, SameUpstream
  <2>3. /\ Artifact!Stale(file.rows)' = Artifact!Stale(file.rows)
        /\ Artifact!Stale(tailNew)' = Artifact!Stale(tailNew)
        /\ Artifact!DatesOf(file.rows)' = Artifact!DatesOf(file.rows)
    BY <2>1, <2>2 DEF Artifact!Stale, Artifact!DatesOf
  <2> QED
    BY <2>1, <2>3 DEF CatchInv, Writing
<1> QED
  BY <1>1, <1>2, <1>3, <1>4 DEF Artifact!Next, Artifact!Resting

LEMMA CatchHolds ==
    ASSUME TailAlone = TRUE
    PROVE  MCSpec => []CatchInv
<1>1. MCInit => CatchInv
  <2>1. ASSUME Artifact!Init PROVE CatchInv
    <3>1. DOMAIN file.rows = {}
      BY <2>1 DEF Artifact!Init, Artifact!NoFile, Artifact!NoRows
    <3>2. Artifact!Stale(file.rows) = {}
      BY <3>1 DEF Artifact!Stale
    <3> QED
      BY <2>1, <3>2 DEF Artifact!Init, CatchInv, Writing
  <2> QED
    BY <2>1, ArtifactSteps
<1>2. ArtifactInv /\ CallInv /\ TailInv /\ AlarmInv /\ CatchInv /\ [MCNext]_mcVars => CatchInv'
  BY ArtifactSteps, StepCatch
<1> QED
  BY <1>1, <1>2, ArtifactIsSound, CallsAreHeld, TailIsTyped, AlarmHolds, PTL DEF MCSpec

(***************************************************************************)
(* Theorem.  tail_recompute raises an alarm only for a symbol upstream     *)
(* revised, whatever NaN footprints and late rows lie in the overlap; and  *)
(* when it ends undisturbed no stored value contradicts upstream, unless a *)
(* fill had moved the last date past a stale value: the overlap is counted *)
(* in stored dates (overlap_window).                                       *)
(***************************************************************************)
THEOREM ExactTail ==
    ASSUME TailAlone = TRUE
    PROVE  MCSpec => []TailIsExact
<1>1. AlarmInv /\ CatchInv => TailIsExact
  BY DEF AlarmInv, CatchInv, TailIsExact, Artifact!TailIsExact, Artifact!NoFalseAlarm,
         Artifact!TailCatchesRevisions
<1> QED
  BY <1>1, AlarmHolds, CatchHolds, PTL
-----------------------------------------------------------------------------
(***************************************************************************)
(* The schema of what a call returns, for one call at a time: a second one *)
(* could put a new fingerprint on the file between the two reads of the    *)
(* first, its rows and its fingerprint (read_valid_frame).                 *)
(***************************************************************************)
OneCaller == \A p, q \in Callers : p = q

(* What a call has read, and what it returns, carries its schema.          *)
SchemaInv ==
    \A p \in Callers :
      /\ callPc[p] \in {"check", "recheck"} /\ pure /\ file.schema = schema => Owned(stored[p], schema)
      /\ callPc[p] = "done" /\ pure => Owned(rows[p], schema)

LEMMA ReturnIsOwned ==
    ASSUME ArtifactInv, SchemaInv, NEW p \in Callers, Artifact!Return(p), pure,
           callPc[p] \in {"check", "recheck"}
    PROVE  Owned(rows'[p], schema)
<1>1. rows'[p] = Artifact!Slice(Artifact!Valid(p), p)
  BY DEF Artifact!Return, ArtifactInv, Bounded
<1>2. Owned(Artifact!Valid(p), schema)
  <2>1. CASE file.schema = schema
    BY <2>1 DEF SchemaInv, Artifact!Valid
  <2>2. CASE file.schema # schema
    BY <2>2 DEF Artifact!Valid, Artifact!NoRows, Owned, Computed
  <2> QED
    BY <2>1, <2>2
<1> QED
  BY <1>1, <1>2 DEF Artifact!Slice, Artifact!Restrict, Owned, Computed

LEMMA StepSchemaCalls ==
    ASSUME ArtifactInv, AlarmInv, SchemaInv, OneCaller, NEW p \in Callers,
           \/ \E S \in (SUBSET Symbols) \ {{}}, D \in Artifact!RequestDates, force \in BOOLEAN :
                Artifact!Call(p, S, D, force)
           \/ Artifact!CallStep(p)
    PROVE  SchemaInv'
<1>1. DOMAIN callPc = Callers /\ DOMAIN rows = Callers /\ DOMAIN stored = Callers
  BY DEF ArtifactInv, Bounded
<1>2. schema' = schema
  BY DEF Artifact!Call, Artifact!CallStep, Artifact!ReadRows, Artifact!Hit, Artifact!Return,
         Artifact!Materialize, Artifact!Upsert, Artifact!Assemble, Artifact!Leave, Artifact!upstream
<1>3. SUFFICES /\ callPc'[p] \in {"check", "recheck"} /\ pure' /\ file'.schema = schema
                    => Owned(stored'[p], schema)
               /\ callPc'[p] = "done" /\ pure' => Owned(rows'[p], schema)
  BY <1>2 DEF SchemaInv, OneCaller
<1>4. CASE Artifact!ReadRows(p)
  <2>1. stored'[p] = file.rows /\ callPc'[p] \in {"check", "recheck"} /\ UNCHANGED <<file, pure>>
    BY <1>1, <1>4 DEF Artifact!ReadRows, Artifact!history
  <2> QED
    BY <2>1 DEF AlarmInv
<1>5. CASE Artifact!Hit(p) \/ Artifact!Assemble(p)
  <2>1. /\ Artifact!Return(p) /\ callPc[p] \in {"check", "recheck"}
        /\ callPc'[p] = "done" /\ pure' = pure
    BY <1>1, <1>5 DEF Artifact!Hit, Artifact!Assemble, Artifact!Return
  <2> QED
    BY <2>1, ReturnIsOwned
<1>6. CASE ~Artifact!ReadRows(p) /\ ~Artifact!Hit(p) /\ ~Artifact!Assemble(p)
  <2>1. callPc'[p] \notin {"check", "recheck", "done"}
    BY <1>1, <1>6 DEF Artifact!Call, Artifact!CallStep, Artifact!Materialize, Artifact!Upsert,
         Artifact!Leave
  <2> QED
    BY <2>1
<1> QED
  BY <1>4, <1>5, <1>6

LEMMA StepSchema ==
    ASSUME TailAlone = TRUE, OneCaller
    PROVE  ArtifactInv /\ CallInv /\ AlarmInv /\ SchemaInv /\ [Artifact!Next]_(Artifact!vars) => SchemaInv'
<1> SUFFICES ASSUME ArtifactInv, CallInv, AlarmInv, SchemaInv, [Artifact!Next]_(Artifact!vars)
             PROVE  SchemaInv'
  OBVIOUS
<1>1. CASE Artifact!Environment
  <2>1. /\ UNCHANGED <<file, callPc, stored, rows, pure>>
        /\ schema' = schema \/ Artifact!NobodyCalls
    BY <1>1, StepUpstream, OriginalsStay DEF ArtifactInv, AlarmInv
  <2> QED
    BY <2>1 DEF SchemaInv, Artifact!NobodyCalls
<1>2. ASSUME NEW p \in Callers,
             \/ \E S \in (SUBSET Symbols) \ {{}}, D \in Artifact!RequestDates, force \in BOOLEAN :
                  Artifact!Call(p, S, D, force)
             \/ Artifact!CallStep(p)
      PROVE  SchemaInv'
  BY <1>2, StepSchemaCalls
<1>3. CASE Artifact!TailStart \/ Artifact!TailStep
  <2>1. Artifact!NobodyCalls /\ callPc' = callPc
    BY <1>3 DEF CallInv, Apart, Artifact!TailStart, Artifact!TailStep, Artifact!TailRead,
         Artifact!TailFull, Artifact!TailOverlap, Artifact!TailRecolumn, Artifact!TailWrite,
         Artifact!TailLeave, Artifact!callVars
  <2> QED
    BY <2>1 DEF SchemaInv, Artifact!NobodyCalls
<1>4. CASE UNCHANGED Artifact!vars
  BY <1>4 DEF Artifact!vars, Artifact!upstream, Artifact!callVars, Artifact!tailVars, Artifact!history,
              SchemaInv
<1> QED
  BY <1>1, <1>2, <1>3, <1>4 DEF Artifact!Next, Artifact!Resting

(***************************************************************************)
(* Theorem.  The exact extent of the divergence the run schema_relabelled  *)
(* shows: with one call at a time beside no tail_recompute, a returned     *)
(* value was computed by the schema its caller runs, unless a fill had put *)
(* its fingerprint over rows of another (upsert_frame merges, and the      *)
(* validity criterion looks at the fingerprint alone).                     *)
(***************************************************************************)
THEOREM OwnSchemaIsServed ==
    ASSUME TailAlone = TRUE, OneCaller
    PROVE  MCSpec => []OnlyMixedFillsMislead
<1>1. MCInit => SchemaInv
  <2>1. Artifact!Init => SchemaInv
    BY DEF Artifact!Init, SchemaInv
  <2> QED
    BY <2>1, ArtifactSteps
<1>2. ArtifactInv /\ CallInv /\ AlarmInv /\ SchemaInv /\ [MCNext]_mcVars => SchemaInv'
  BY ArtifactSteps, StepSchema
<1>3. SchemaInv => OnlyMixedFillsMislead
  BY DEF SchemaInv, Owned, Computed, OnlyMixedFillsMislead, Artifact!OnlyMixedFillsMislead,
         Artifact!ServedUnderOwnSchema
<1> QED
  BY <1>1, <1>2, <1>3, ArtifactIsSound, CallsAreHeld, AlarmHolds, PTL DEF MCSpec
=============================================================================
