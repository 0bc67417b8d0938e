------------------------- MODULE TushareCache_proofs -------------------------
(***************************************************************************)
(* Proofs about TushareCache, for every number of processes, symbols, days *)
(* and versions.                                                           *)
(***************************************************************************)
EXTENDS TushareCache, TLAPS

USE CacheAssumption

LEMMA Constants ==
    /\ 0 \in Day /\ 0 \in Version /\ 1 \in Version
    /\ Day \subseteq Int /\ Version \subseteq Int
    /\ \A v \in Version : v \in 1 .. MaxVersion - 1 => v + 1 \in Version
    /\ \A lo, hi \in Day : lo .. hi \in SUBSET Day
  BY DEF Day, Version

LEMMA GapsInRequest ==
    ASSUME NEW j \in Job, NEW s, NEW covered
    PROVE  /\ GapsFor(j, s, covered) \subseteq j.lo .. j.hi
           /\ GapsFor(j, s, covered) \in SUBSET Day
<1>1. TailFor(j) \subseteq j.lo .. j.hi
  BY DEF TailFor, RecentTail
<1>2. GapsFor(j, s, covered) \subseteq j.lo .. j.hi
  BY <1>1 DEF GapsFor
<1>3. j.lo .. j.hi \in SUBSET Day
  BY Constants DEF Job
<1> QED
  BY <1>2, <1>3

(***************************************************************************)
(* What a process in the middle of a call knows: a window of a program     *)
(* that pins today ends by that day, the gap it writes lies in the window, *)
(* and a day it was answered too early for is not over for its today.      *)
(***************************************************************************)
Busy    == {"fetch", "upsert", "record", "replace", "stat"}
Writing == {"upsert", "record", "replace", "stat"}

JobOK(p) ==
    /\ pc[p] # "idle" => /\ job[p].today <= clock
                         /\ program[p] \notin Live => job[p].hi <= job[p].today
    /\ pc[p] \in Busy => job[p].symbol \in Symbol /\ todo[p] \subseteq job[p].lo .. job[p].hi
    /\ pc[p] \in Writing => /\ gap[p][1] <= gap[p][2] /\ gap[p][2] <= job[p].hi
                            /\ \A d \in Day : d \notin gap[p][1] .. gap[p][2] => resp[p][d] = 0
                            /\ \A d \in early[p] : job[p].today <= d + PublishLag

JobInv == \A p \in Proc : JobOK(p)

LEMMA InitType == Init => TypeOK /\ JobInv
  BY Constants DEF Init, TypeOK, NoJob, Job, NoRows, Phase, Day, Version, JobInv, JobOK, Busy, Writing

\* The job as a symbol of it is planned.
LEMMA PlannedJob ==
    ASSUME TypeOK, NEW p \in Proc, NEW s \in Symbol
    PROVE  LET j == Planned(p, s)
           IN  /\ j \in Job
               /\ j.symbol = s /\ j.left = job[p].left \ {s} /\ j.asked = job[p].asked
               /\ j.lo = job[p].lo /\ j.hi = job[p].hi /\ j.forced = job[p].forced
               /\ j.base = job[p].base
               /\ j.today = IF program[p] \in Live THEN clock ELSE job[p].today
<1> DEFINE now == IF program[p] \in Live THEN clock ELSE job[p].today
           j == Planned(p, s)
<1>1. job[p] \in Job /\ now \in Day
  BY DEF TypeOK, Job
<1>2. j = [job[p] EXCEPT !.symbol = s, !.left = job[p].left \ {s}, !.today = now]
  BY DEF Planned
<1>3. [job[p] EXCEPT !.symbol = s] \in Job
  BY <1>1 DEF Job
<1>4. ASSUME NEW k \in Job PROVE [k EXCEPT !.left = job[p].left \ {s}] \in Job
  BY <1>1 DEF Job
<1>5. ASSUME NEW k \in Job PROVE [k EXCEPT !.today = now] \in Job
  BY <1>1 DEF Job
<1> HIDE DEF now, j
<1>6. j = [[[job[p] EXCEPT !.symbol = s] EXCEPT !.left = job[p].left \ {s}] EXCEPT !.today = now]
  BY <1>2
<1>7. j \in Job
  BY <1>3, <1>4, <1>5, <1>6
<1>8. /\ j.symbol = s /\ j.left = job[p].left \ {s} /\ j.asked = job[p].asked
      /\ j.lo = job[p].lo /\ j.hi = job[p].hi /\ j.forced = job[p].forced
      /\ j.base = job[p].base /\ j.today = now
  BY <1>1, <1>2 DEF Job
<1> QED
  BY <1>7, <1>8 DEF j, now

LEMMA LeaveType ==
    ASSUME TypeOK, JobInv, NEW p \in Proc, Leave(p)
    PROVE  /\ pc' \in [Proc -> Phase] /\ job' \in [Proc -> Job]
           /\ todo' \in [Proc -> SUBSET Day] /\ gap' \in [Proc -> Day \X Day]
           /\ resp' \in [Proc -> [Day -> Version]] /\ early' \in [Proc -> SUBSET Day]
<1>1. NoJob \in Job
  BY Constants DEF NoJob, Job, NoRows
<1> QED
  BY <1>1, Constants DEF Leave, TypeOK, Phase, NoRows

LEMMA StepType == TypeOK /\ JobInv /\ [Next]_vars => TypeOK'
<1> SUFFICES ASSUME TypeOK, JobInv, [Next]_vars PROVE TypeOK'
  OBVIOUS
<1> USE Constants DEF TypeOK
<1>1. CASE Tick
  BY <1>1 DEF Tick, ledgerVars, procVars, historyVars, Day
<1>2. ASSUME NEW s \in Symbol, NEW d \in Day, Publish(s, d) PROVE TypeOK'
  BY <1>2 DEF Publish, ledgerVars, procVars, historyVars
<1>3. ASSUME NEW s \in Symbol, NEW d \in Day, Revise(s, d) PROVE TypeOK'
  BY <1>3 DEF Revise, ledgerVars, procVars, historyVars
<1>4. ASSUME NEW p \in Proc, NEW symbols \in SUBSET Symbol, NEW today \in Day,
             NEW lo \in Day, NEW hi \in Day, NEW forced \in BOOLEAN,
             Begin(p, symbols, today, lo, hi, forced)
      PROVE TypeOK'
  <2> DEFINE base == [s \in Symbol |-> [d \in Day |->
                         IF s \in symbols /\ d \in lo .. hi THEN source[s][d] ELSE 0]]
             j == [today |-> today, lo |-> lo, hi |-> hi, forced |-> forced,
                   asked |-> symbols, left |-> symbols, symbol |-> NoSymbol, base |-> base]
  <2>1. base \in [Symbol -> [Day -> Version]]
    OBVIOUS
  <2>2. job' = [job EXCEPT ![p] = j]
    BY <1>4 DEF Begin
  <2> HIDE DEF base
  <2>3. j \in Job
    BY <2>1 DEF Job
  <2> HIDE DEF j
  <2>4. /\ pc' = [pc EXCEPT ![p] = "plan"]
        /\ UNCHANGED <<clock, source, store, ledger, frame, fresh, program, todo, gap, resp, early,
                       acked, frozen>>
    BY <1>4 DEF Begin, ledgerVars, historyVars
  <2> QED
    BY <2>2, <2>3, <2>4 DEF Phase
<1>5. ASSUME NEW p \in Proc, NEW s \in Symbol, Plan(p, s) PROVE TypeOK'
  <2>1. Planned(p, s) \in Job
    BY PlannedJob
  <2>2. GapsFor(Planned(p, s), s, Loaded(p)) \in SUBSET Day
    BY <2>1, GapsInRequest
  <2>3. Loaded(p) \in SUBSET Cell
    BY DEF Loaded
  <2> QED
    BY <1>5, <2>1, <2>2, <2>3 DEF Plan, Load, Phase, historyVars
<1>6. ASSUME NEW p \in Proc, NEW lo \in Day, NEW hi \in Day, Fetch(p, lo, hi) PROVE TypeOK'
  <2>1. job[p].symbol \in Symbol
    BY <1>6 DEF JobInv, JobOK, Fetch, Busy
  <2>2. source[job[p].symbol] \in [Day -> Version]
    BY <2>1
  <2> DEFINE row == [d \in Day |-> IF d \in lo .. hi THEN source[job[p].symbol][d] ELSE 0]
             open == {d \in lo .. hi : source[job[p].symbol][d] = 0 /\ clock <= d + PublishLag}
  <2>3. row \in [Day -> Version] /\ open \in SUBSET Day
    BY <2>2
  <2>4. resp' = [resp EXCEPT ![p] = row] /\ early' = [early EXCEPT ![p] = open]
    BY <1>6 DEF Fetch
  <2> HIDE DEF row, open
  <2> QED
    BY <1>6, <2>3, <2>4 DEF Fetch, ledgerVars, historyVars, Phase
<1>7. ASSUME NEW p \in Proc, FetchFails(p) PROVE TypeOK'
  BY <1>7, LeaveType DEF FetchFails, ledgerVars, historyVars
<1>8. ASSUME NEW p \in Proc, Upsert(p) PROVE TypeOK'
  <2> DEFINE row == [d \in Day |-> IF resp[p][d] > 0 THEN resp[p][d]
                                                    ELSE store[job[p].symbol][d]]
  <2>1. job[p].symbol \in Symbol
    BY <1>8 DEF JobInv, JobOK, Upsert, Busy
  <2>2. row \in [Day -> Version]
    BY <2>1
  <2>3. store' = [store EXCEPT ![job[p].symbol] = row]
    BY <1>8 DEF Upsert
  <2> HIDE DEF row
  <2> QED
    BY <1>8, <2>1, <2>2, <2>3 DEF Upsert, ledgerVars, historyVars, Phase
<1>9. ASSUME NEW p \in Proc, RecordLoad(p) PROVE TypeOK'
  BY <1>9 DEF RecordLoad, Load, Loaded, historyVars, Phase
<1>10. ASSUME NEW p \in Proc, RecordReplace(p) PROVE TypeOK'
  <2> DEFINE s == job[p].symbol
             rows == frame[p] \cup ({s} \X GapCoverage(p))
             seen == [d \in Day |-> IF d \notin gap[p][1] .. gap[p][2] THEN acked[s][d]
                                    ELSE IF resp[p][d] > 0 \/ acked[s][d] = 1 THEN 1 ELSE 0]
             late == (frozen \ ({s} \X ((gap[p][1] .. gap[p][2]) \ early[p])))
                       \cup (IF PendingDays(p) = 0 THEN {s} \X early[p] ELSE {})
  <2>1. s \in Symbol
    BY <1>10 DEF JobInv, JobOK, RecordReplace, Busy
  <2>2. GapCoverage(p) \in SUBSET Day
    BY DEF GapCoverage
  <2>3. rows \in SUBSET Cell
    BY <2>1, <2>2 DEF Cell
  <2>4. seen \in [Day -> {-1, 0, 1}]
    BY <2>1
  <2>5. late \in SUBSET Cell
    <3>1. early[p] \in SUBSET Day /\ {s} \X early[p] \in SUBSET Cell
      BY <2>1 DEF Cell
    <3> QED
      BY <3>1
  <2>6. /\ ledger' = rows /\ frame' = [frame EXCEPT ![p] = rows]
        /\ acked' = [acked EXCEPT ![s] = seen] /\ frozen' = late
    BY <1>10 DEF RecordReplace
  <2> HIDE DEF rows, seen, late
  <2> QED
    BY <1>10, <2>1, <2>3, <2>4, <2>5, <2>6 DEF RecordReplace, Phase
<1>11. ASSUME NEW p \in Proc, RecordStat(p) PROVE TypeOK'
  BY <1>11 DEF RecordStat, Phase, NoRows, historyVars
<1>12. ASSUME NEW p \in Proc, SymbolDone(p) PROVE TypeOK'
  BY <1>12 DEF SymbolDone, ledgerVars, historyVars, Phase
<1>13. ASSUME NEW p \in Proc, Crash(p) PROVE TypeOK'
  BY <1>13, LeaveType DEF Crash, historyVars
<1>14. CASE UNCHANGED vars
  BY <1>14 DEF vars, ledgerVars, historyVars
<1> HIDE DEF TypeOK
<1> QED
  BY <1>1, <1>2, <1>3, <1>4, <1>5, <1>6, <1>7, <1>8, <1>9, <1>10, <1>11, <1>12,
     <1>13, <1>14 DEF Next, Vendor, Work

LEMMA StepJob == TypeOK /\ TypeOK' /\ JobInv /\ [Next]_vars => JobInv'
<1> SUFFICES ASSUME TypeOK, TypeOK', JobInv, [Next]_vars, NEW q \in Proc
             PROVE  JobOK(q)'
  BY DEF JobInv
<1> DEFINE mine == <<program[q], pc[q], job[q], todo[q], gap[q], resp[q], early[q]>>
<1> USE DEF Busy, Writing
<1>0. JobOK(q)
  BY DEF JobInv
<1>a. ASSUME clock <= clock', UNCHANGED mine PROVE JobOK(q)'
  <2>1. clock \in Int /\ clock' \in Int /\ job[q].today \in Int
    BY Constants DEF TypeOK, Job
  <2>2. /\ program'[q] = program[q] /\ pc'[q] = pc[q] /\ job'[q] = job[q] /\ todo'[q] = todo[q]
        /\ gap'[q] = gap[q] /\ resp'[q] = resp[q] /\ early'[q] = early[q]
    BY <1>a
  <2>3. job[q].today <= clock => job[q].today <= clock'
    BY <1>a, <2>1
  <2> QED
    BY <1>0, <2>2, <2>3 DEF JobOK
<1>b. clock' = clock => clock <= clock'
  BY Constants DEF TypeOK
<1>1. CASE Tick
  BY <1>1, <1>a, Constants DEF Tick, procVars, TypeOK
<1>2. ASSUME NEW s \in Symbol, NEW d \in Day, Publish(s, d) \/ Revise(s, d) PROVE JobOK(q)'
  BY <1>2, <1>a, <1>b DEF Publish, Revise, procVars
<1>3. ASSUME NEW p \in Proc, NEW symbols \in SUBSET Symbol, NEW today \in Day,
             NEW lo \in Day, NEW hi \in Day, NEW forced \in BOOLEAN,
             Begin(p, symbols, today, lo, hi, forced)
      PROVE JobOK(q)'
  <2>1. CASE q = p
    <3>1. /\ pc'[q] = "plan" /\ job'[q].today = today /\ job'[q].hi = hi
          /\ program' = program /\ clock' = clock
      BY <1>3, <2>1 DEF Begin, TypeOK
    <3>2. today \in Int /\ clock \in Int
      BY Constants DEF TypeOK
    <3>3. today <= clock /\ (program[q] \notin Live => hi <= today)
      BY <1>3, <2>1, <3>2 DEF Begin
    <3> QED
      BY <3>1, <3>3 DEF JobOK
  <2>2. CASE q # p
    BY <1>3, <1>a, <1>b, <2>2 DEF Begin, TypeOK
  <2> QED
    BY <2>1, <2>2
<1>4. ASSUME NEW p \in Proc, Work(p) \/ FetchFails(p) \/ Crash(p), q # p PROVE JobOK(q)'
  <2>1. UNCHANGED <<clock, mine>>
    <3>1. CASE \E s \in Symbol : Plan(p, s)
      BY <1>4, <3>1 DEF Plan, TypeOK
    <3>2. CASE \E lo, hi \in Day : Fetch(p, lo, hi)
      BY <1>4, <3>2 DEF Fetch, TypeOK
    <3>3. CASE FetchFails(p) \/ Crash(p)
      BY <1>4, <3>3 DEF FetchFails, Crash, Leave, TypeOK
    <3>4. CASE Upsert(p) \/ RecordLoad(p) \/ RecordReplace(p) \/ RecordStat(p) \/ SymbolDone(p)
      BY <1>4, <3>4 DEF Upsert, RecordLoad, RecordReplace, RecordStat, SymbolDone, TypeOK
    <3> QED
      BY <1>4, <3>1, <3>2, <3>3, <3>4 DEF Work
  <2> QED
    BY <2>1, <1>a, <1>b
<1>5. ASSUME NEW s \in Symbol, Plan(q, s) PROVE JobOK(q)'
  <2> DEFINE j == Planned(q, s)
  <2>1. /\ j \in Job /\ j.symbol = s /\ j.lo = job[q].lo /\ j.hi = job[q].hi
        /\ j.today = IF program[q] \in Live THEN clock ELSE job[q].today
    BY PlannedJob
  <2> HIDE DEF j
  <2>2. GapsFor(j, s, Loaded(q)) \subseteq j.lo .. j.hi
    BY <2>1, GapsInRequest
  <2>3. /\ pc[q] = "plan" /\ pc'[q] = "fetch" /\ job'[q] = j
        /\ todo'[q] = GapsFor(j, s, Loaded(q)) /\ program' = program /\ clock' = clock
    BY <1>5 DEF Plan, TypeOK, j
  <2>4. clock \in Int
    BY Constants DEF TypeOK
  <2>5. j.today <= clock /\ (program[q] \notin Live => j.hi <= j.today)
    BY <1>0, <2>1, <2>3, <2>4 DEF JobOK
  <2> QED
    BY <2>1, <2>2, <2>3, <2>5 DEF JobOK
<1>6. ASSUME NEW lo \in Day, NEW hi \in Day, Fetch(q, lo, hi) PROVE JobOK(q)'
  <2> DEFINE t == job[q].symbol
             row == [d \in Day |-> IF d \in lo .. hi THEN source[t][d] ELSE 0]
             open == {d \in lo .. hi : source[t][d] = 0 /\ clock <= d + PublishLag}
  <2>1. /\ pc[q] = "fetch" /\ pc'[q] = "upsert" /\ job' = job /\ todo' = todo
        /\ program' = program /\ clock' = clock
        /\ gap'[q] = <<lo, hi>> /\ resp'[q] = row /\ early'[q] = open
        /\ IsFirstGap(todo[q], lo, hi)
    BY <1>6 DEF Fetch, TypeOK
  <2>2. \A d \in Day : d \notin lo .. hi => row[d] = 0
    OBVIOUS
  <2>3. \A d \in open : d \in Int /\ clock <= d + PublishLag
    BY Constants
  <2> HIDE DEF row, open
  <2>4. job[q].today \in Int /\ job[q].hi \in Int /\ clock \in Int /\ lo \in Int /\ hi \in Int
    BY Constants DEF TypeOK, Job
  <2>5. job[q].today <= clock /\ t \in Symbol /\ todo[q] \subseteq job[q].lo .. job[q].hi
        /\ (program[q] \notin Live => job[q].hi <= job[q].today)
    BY <1>0, <2>1 DEF JobOK
  <2>6. lo <= hi /\ hi <= job[q].hi
    BY <2>1, <2>4, <2>5 DEF IsFirstGap
  <2>7. \A d \in open : job[q].today <= d + PublishLag
    BY <2>3, <2>4, <2>5
  <2> QED
    BY <2>1, <2>2, <2>5, <2>6, <2>7 DEF JobOK
<1>7. CASE FetchFails(q) \/ Crash(q)
  BY <1>7 DEF FetchFails, Crash, Leave, JobOK, TypeOK
<1>8. CASE Upsert(q) \/ RecordLoad(q) \/ RecordReplace(q) \/ SymbolDone(q)
  BY <1>0, <1>8 DEF Upsert, RecordLoad, RecordReplace, SymbolDone, JobOK, TypeOK
<1>9. CASE RecordStat(q)
  BY <1>0, <1>9 DEF RecordStat, JobOK, TypeOK
<1>10. CASE UNCHANGED vars
  BY <1>10, <1>a, <1>b DEF vars
<1> QED
  BY <1>1, <1>2, <1>3, <1>4, <1>5, <1>6, <1>7, <1>8, <1>9, <1>10 DEF Next, Vendor, Work

\* Type correctness, and what a process in the middle of a call knows.
THEOREM TypeCorrect == Spec => [](TypeOK /\ JobInv)
<1>1. TypeOK /\ JobInv /\ [Next]_vars => TypeOK' /\ JobInv'
  BY StepType, StepJob
<1> QED
  BY InitType, <1>1, PTL DEF Spec
-----------------------------------------------------------------------------
(***************************************************************************)
(* What a claim is worth.  The ledger and every process's copy of it are   *)
(* treated alike, because a copy is what the next record_many writes back. *)
(***************************************************************************)
Claimed(s, d) == <<s, d>> \in ledger \/ \E p \in Proc : <<s, d>> \in frame[p]

\* A response that is being recorded is already in the store.
DurableInv ==
    /\ \A s \in Symbol, d \in Day : acked[s][d] > 0 => store[s][d] > 0
    /\ \A s \in Symbol, d \in Day : Claimed(s, d) => acked[s][d] >= 0
    /\ \A p \in Proc : pc[p] \in {"record", "replace"} =>
         \A d \in Day : resp[p][d] > 0 => store[job[p].symbol][d] > 0

\* The vendor has no row for this cell and will not publish one any more; so
\* nothing it will ever publish for a settled cell is missing from the store.
Closed(s, d)  == source[s][d] = 0 /\ d + PublishLag < clock
Settled(s, d) == store[s][d] > 0 \/ Closed(s, d)

\* A response misses no row of a day it did not come too early for.
CompleteInv ==
    /\ \A s \in Symbol, d \in Day : Claimed(s, d) => Settled(s, d) \/ <<s, d>> \in frozen
    /\ \A p \in Proc : pc[p] \in {"upsert", "record", "replace"} =>
         \A d \in gap[p][1] .. gap[p][2] :
            d \in early[p] \/ resp[p][d] > 0 \/ Closed(job[p].symbol, d)

\* With a pending window of at most one day the recorded days lie in the gap,
\* and with exactly one the day pinned as today is recorded only with its row.
LEMMA CoverageInGap ==
    ASSUME TypeOK, JobInv, NEW p \in Proc, pc[p] \in Writing, PendingDays(p) <= 1
    PROVE  /\ GapCoverage(p) \subseteq gap[p][1] .. gap[p][2]
           /\ PendingDays(p) = 1 =>
                \A d \in GapCoverage(p) : d < job[p].today \/ resp[p][d] > 0
<1>1. /\ PendingDays(p) \in {0, 1}
      /\ job[p].today \in Int /\ job[p].hi \in Int
      /\ gap[p][1] \in Int /\ gap[p][2] \in Int /\ Day \subseteq Int
  <2>1. PendingDays(p) \in Nat
    BY DEF PendingDays, TypeOK
  <2>2. PendingDays(p) \in {0, 1}
    BY <2>1
  <2>3. job[p] \in Job /\ gap[p] \in Day \X Day
    BY DEF TypeOK
  <2> QED
    BY <2>2, <2>3, Constants DEF Job
<1>2. PendingDays(p) = 1 => gap[p][1] <= gap[p][2] /\ gap[p][2] <= job[p].today
  <2>1. /\ gap[p][1] <= gap[p][2] /\ gap[p][2] <= job[p].hi
        /\ program[p] \notin Live => job[p].hi <= job[p].today
    BY DEF JobInv, JobOK, Writing
  <2>2. program[p] \in Live => PendingDays(p) = 0
    BY DEF PendingDays
  <2> QED
    BY <1>1, <2>1, <2>2
<1>3. CASE PendingDays(p) = 0
  BY <1>3 DEF GapCoverage
<1>4. CASE PendingDays(p) = 1
  <2>1. PendingStart(p) = job[p].today
    BY <1>1, <1>4 DEF PendingStart
  <2>2. \A d \in Day : job[p].today <= d /\ d <= gap[p][2] =>
           d = job[p].today /\ d \in gap[p][1] .. gap[p][2]
    BY <1>1, <1>2, <1>4
  <2>3. \A d \in gap[p][1] .. gap[p][2] : d <= job[p].today
    BY <1>1, <1>2, <1>4
  <2>4. CASE gap[p][2] < job[p].today
    BY <1>1, <1>4, <2>1, <2>4 DEF GapCoverage
  <2>5. CASE ~(gap[p][2] < job[p].today)
    <3> DEFINE settled == {d \in gap[p][1] .. gap[p][2] : d < job[p].today}
               pending == {d \in Day : job[p].today <= d /\ d <= gap[p][2]}
    <3>1. \/ GapCoverage(p) = settled
          \/ GapCoverage(p) = settled \cup pending /\ \E e \in pending : resp[p][e] > 0
      BY <1>4, <2>1, <2>5 DEF GapCoverage
    <3>2. \A d, e \in pending : d = e
      BY <2>2
    <3>3. pending \subseteq gap[p][1] .. gap[p][2]
      BY <2>2
    <3> QED
      BY <3>1, <3>2, <3>3
  <2> QED
    BY <2>4, <2>5
<1> QED
  BY <1>1, <1>3, <1>4

\* The steps that leave both the store and the claims of every process alone.
Idle ==
    \/ Tick
    \/ Vendor
    \/ \E p \in Proc, symbols \in SUBSET Symbol, today, lo, hi \in Day, forced \in BOOLEAN :
         Begin(p, symbols, today, lo, hi, forced)
    \/ \E p \in Proc, lo, hi \in Day : Fetch(p, lo, hi)
    \/ \E p \in Proc : FetchFails(p) \/ SymbolDone(p)
    \/ UNCHANGED vars

LEMMA StepKinds ==
    [Next]_vars =>
      \/ Idle
      \/ \E p \in Proc :
           \/ \E s \in Symbol : Plan(p, s)
           \/ Upsert(p) \/ RecordLoad(p) \/ RecordReplace(p) \/ RecordStat(p) \/ Crash(p)
  BY DEF Next, Work, Idle

LEMMA IdleKeeps == Idle => UNCHANGED <<store, ledger, frame, fresh, acked, frozen>>
<1>1. Tick => UNCHANGED <<store, ledger, frame, fresh, acked, frozen>>
  BY DEF Tick, ledgerVars, historyVars
<1>2. Vendor => UNCHANGED <<store, ledger, frame, fresh, acked, frozen>>
  BY DEF Vendor, Publish, Revise, ledgerVars, historyVars
<1>3. ASSUME NEW p \in Proc, NEW symbols \in SUBSET Symbol, NEW today \in Day,
             NEW lo \in Day, NEW hi \in Day, NEW forced \in BOOLEAN,
             Begin(p, symbols, today, lo, hi, forced)
      PROVE UNCHANGED <<store, ledger, frame, fresh, acked, frozen>>
  BY <1>3 DEF Begin, ledgerVars, historyVars
<1>4. ASSUME NEW p \in Proc, NEW lo \in Day, NEW hi \in Day, Fetch(p, lo, hi)
      PROVE UNCHANGED <<store, ledger, frame, fresh, acked, frozen>>
  BY <1>4 DEF Fetch, ledgerVars, historyVars
<1>5. ASSUME NEW p \in Proc, FetchFails(p) \/ SymbolDone(p)
      PROVE UNCHANGED <<store, ledger, frame, fresh, acked, frozen>>
  BY <1>5 DEF FetchFails, SymbolDone, ledgerVars, historyVars
<1>6. UNCHANGED vars => UNCHANGED <<store, ledger, frame, fresh, acked, frozen>>
  BY DEF vars, ledgerVars, historyVars
<1> QED
  BY <1>1, <1>2, <1>3, <1>4, <1>5, <1>6 DEF Idle

LEMMA StoreKeepsRows ==
    ASSUME TypeOK, TypeOK', JobInv, [Next]_vars, NEW s \in Symbol, NEW d \in Day
    PROVE  store[s][d] > 0 => store'[s][d] > 0
<1>1. ASSUME NEW p \in Proc, Upsert(p) PROVE store[s][d] > 0 => store'[s][d] > 0
  <2> DEFINE row == [e \in Day |-> IF resp[p][e] > 0 THEN resp[p][e]
                                                    ELSE store[job[p].symbol][e]]
  <2>1. job[p].symbol \in Symbol
    BY <1>1 DEF JobInv, JobOK, Upsert, Busy
  <2>2. store' = [store EXCEPT ![job[p].symbol] = row]
    BY <1>1 DEF Upsert
  <2>3. row[d] = IF resp[p][d] > 0 THEN resp[p][d] ELSE store[job[p].symbol][d]
    OBVIOUS
  <2> HIDE DEF row
  <2> QED
    BY <2>1, <2>2, <2>3 DEF TypeOK
<1>2. (\A p \in Proc : ~Upsert(p)) => store' = store
  BY StepKinds, IdleKeeps DEF Plan, RecordLoad, RecordReplace, RecordStat, Crash
<1> QED
  BY <1>1, <1>2

\* A new claim is one of GapCoverage, made by the process that records.
LEMMA ClaimsComeFromRecords ==
    ASSUME TypeOK, [Next]_vars, NEW s \in Symbol, NEW d \in Day,
           Claimed(s, d)', ~Claimed(s, d)
    PROVE  \E p \in Proc : RecordReplace(p) /\ s = job[p].symbol /\ d \in GapCoverage(p)
<1>1. ASSUME NEW p \in Proc, RecordReplace(p)
      PROVE  s = job[p].symbol /\ d \in GapCoverage(p)
  <2>1. frame' = [frame EXCEPT ![p] = ledger']
        /\ ledger' = frame[p] \cup ({job[p].symbol} \X GapCoverage(p))
    BY <1>1 DEF RecordReplace
  <2> QED
    BY <2>1 DEF Claimed, TypeOK
<1>2. ASSUME NEW p \in Proc, Load(p) PROVE FALSE
  BY <1>2 DEF Load, Loaded, Claimed, TypeOK
<1>3. ASSUME NEW p \in Proc, Crash(p) PROVE FALSE
  BY <1>3 DEF Crash, Claimed, TypeOK
<1>4. UNCHANGED <<ledger, frame>> => FALSE
  BY DEF Claimed
<1>5. \/ UNCHANGED <<ledger, frame>>
      \/ \E p \in Proc : Load(p) \/ RecordReplace(p) \/ Crash(p)
  BY StepKinds, IdleKeeps DEF Plan, Upsert, RecordLoad, RecordStat, ledgerVars
<1> QED
  BY <1>1, <1>2, <1>3, <1>4, <1>5

\* The history grows, by the days of the recorded gap.
LEMMA AckedGrows ==
    ASSUME TypeOK, JobInv, [Next]_vars, NEW s \in Symbol, NEW d \in Day
    PROVE  /\ acked'[s][d] >= acked[s][d]
           /\ (acked'[s][d] # acked[s][d] /\ acked'[s][d] > 0) =>
                \E p \in Proc : RecordReplace(p) /\ s = job[p].symbol /\ resp[p][d] > 0
           /\ \A p \in Proc : (/\ RecordReplace(p) /\ s = job[p].symbol
                               /\ d \in gap[p][1] .. gap[p][2]) => acked'[s][d] >= 0
<1>0. acked[s][d] \in {-1, 0, 1}
  BY DEF TypeOK
<1>1. ASSUME NEW p \in Proc, RecordReplace(p)
      PROVE  acked'[s][d] = IF s # job[p].symbol \/ d \notin gap[p][1] .. gap[p][2]
                              THEN acked[s][d]
                              ELSE IF resp[p][d] > 0 \/ acked[s][d] = 1 THEN 1 ELSE 0
  <2> DEFINE t == job[p].symbol
             seen == [e \in Day |-> IF e \notin gap[p][1] .. gap[p][2] THEN acked[t][e]
                                    ELSE IF resp[p][e] > 0 \/ acked[t][e] = 1 THEN 1 ELSE 0]
  <2>1. t \in Symbol
    BY <1>1 DEF JobInv, JobOK, RecordReplace, Busy
  <2>2. acked' = [acked EXCEPT ![t] = seen]
    BY <1>1 DEF RecordReplace
  <2>3. seen[d] = IF d \notin gap[p][1] .. gap[p][2] THEN acked[t][d]
                  ELSE IF resp[p][d] > 0 \/ acked[t][d] = 1 THEN 1 ELSE 0
    OBVIOUS
  <2> HIDE DEF seen
  <2> QED
    BY <2>1, <2>2, <2>3 DEF TypeOK
<1>2. (\A p \in Proc : ~RecordReplace(p)) => acked' = acked
  BY StepKinds, IdleKeeps DEF Plan, Upsert, RecordLoad, RecordStat, Crash, historyVars
<1> QED
  BY <1>0, <1>1, <1>2

\* How a process gets to, or stays in, the phases that write a response.
LEMMA WriterSteps ==
    ASSUME TypeOK, [Next]_vars, NEW p \in Proc, pc'[p] \in {"upsert", "record", "replace"}
    PROVE  \/ \E lo, hi \in Day : Fetch(p, lo, hi)
           \/ Upsert(p)
           \/ /\ pc[p] \in {"upsert", "record", "replace"}
              /\ pc'[p] = "upsert" <=> pc[p] = "upsert"
              /\ job'[p] = job[p] /\ gap'[p] = gap[p] /\ resp'[p] = resp[p]
              /\ early'[p] = early[p]
<1> DEFINE Same == /\ pc[p] \in {"upsert", "record", "replace"}
                   /\ pc'[p] = "upsert" <=> pc[p] = "upsert"
                   /\ job'[p] = job[p] /\ gap'[p] = gap[p] /\ resp'[p] = resp[p]
                   /\ early'[p] = early[p]
<1> SUFFICES (\E lo, hi \in Day : Fetch(p, lo, hi)) \/ Upsert(p) \/ Same
  OBVIOUS
<1>1. CASE Tick \/ Vendor \/ UNCHANGED vars
  BY <1>1 DEF Tick, Vendor, Publish, Revise, procVars, vars
<1>2. ASSUME NEW q \in Proc, NEW symbols \in SUBSET Symbol, NEW today \in Day,
             NEW lo \in Day, NEW hi \in Day, NEW forced \in BOOLEAN,
             Begin(q, symbols, today, lo, hi, forced)
      PROVE Same
  BY <1>2 DEF Begin, TypeOK
<1>3. ASSUME NEW q \in Proc, NEW s \in Symbol, Plan(q, s) PROVE Same
  BY <1>3 DEF Plan, TypeOK
<1>4. ASSUME NEW q \in Proc, NEW lo \in Day, NEW hi \in Day, Fetch(q, lo, hi), q # p PROVE Same
  BY <1>4 DEF Fetch, TypeOK
<1>5. ASSUME NEW q \in Proc, FetchFails(q) \/ Crash(q) PROVE Same
  BY <1>5 DEF FetchFails, Crash, Leave, TypeOK
<1>6. ASSUME NEW q \in Proc, Upsert(q), q # p PROVE Same
  BY <1>6 DEF Upsert, TypeOK
<1>7. ASSUME NEW q \in Proc, RecordLoad(q) \/ RecordReplace(q) \/ RecordStat(q) \/ SymbolDone(q)
      PROVE Same
  <2>1. CASE RecordLoad(q)
    BY <2>1 DEF RecordLoad, TypeOK
  <2>2. CASE RecordReplace(q)
    BY <2>2 DEF RecordReplace, TypeOK
  <2>3. CASE RecordStat(q)
    BY <2>3 DEF RecordStat, TypeOK
  <2>4. CASE SymbolDone(q)
    BY <2>4 DEF SymbolDone, TypeOK
  <2> QED
    BY <1>7, <2>1, <2>2, <2>3, <2>4
<1> HIDE DEF Same
<1>8. CASE Idle
  <2>1. CASE Tick \/ Vendor \/ UNCHANGED vars
    BY <1>1, <2>1
  <2>2. CASE \E q \in Proc, symbols \in SUBSET Symbol, today, lo, hi \in Day, forced \in BOOLEAN :
               Begin(q, symbols, today, lo, hi, forced)
    BY <1>2, <2>2
  <2>3. CASE \E q \in Proc, lo, hi \in Day : Fetch(q, lo, hi)
    BY <1>4, <2>3
  <2>4. CASE \E q \in Proc : FetchFails(q) \/ SymbolDone(q)
    BY <1>5, <1>7, <2>4
  <2> QED
    BY <1>8, <2>1, <2>2, <2>3, <2>4 DEF Idle
<1>9. ASSUME NEW q \in Proc,
             \/ \E s \in Symbol : Plan(q, s)
             \/ Upsert(q) \/ RecordLoad(q) \/ RecordReplace(q) \/ RecordStat(q) \/ Crash(q)
      PROVE  Same \/ Upsert(p)
  BY <1>3, <1>5, <1>6, <1>7, <1>9
<1> QED
  BY <1>8, <1>9, StepKinds

LEMMA StepDurable ==
    ASSUME TypeOK, TypeOK', JobInv, DurableInv, [Next]_vars,
           \A k \in Program : NotReadyDays[k] <= 1
    PROVE  DurableInv'
<1>1. ASSUME NEW s \in Symbol, NEW d \in Day, acked'[s][d] > 0 PROVE store'[s][d] > 0
  <2>1. CASE acked'[s][d] = acked[s][d]
    BY <1>1, <2>1, StoreKeepsRows DEF DurableInv
  <2>2. CASE acked'[s][d] # acked[s][d]
    <3>1. PICK p \in Proc : RecordReplace(p) /\ s = job[p].symbol /\ resp[p][d] > 0
      BY <1>1, <2>2, AckedGrows
    <3>2. pc[p] = "replace"
      BY <3>1 DEF RecordReplace
    <3>3. store[s][d] > 0
      BY <1>1, <3>1, <3>2 DEF DurableInv
    <3> QED
      BY <3>3, StoreKeepsRows
  <2> QED
    BY <2>1, <2>2
<1>2. ASSUME NEW s \in Symbol, NEW d \in Day, Claimed(s, d)' PROVE acked'[s][d] >= 0
  <2>1. CASE Claimed(s, d)
    <3>1. acked[s][d] >= 0
      BY <2>1 DEF DurableInv
    <3>2. acked[s][d] \in Int /\ acked'[s][d] \in Int /\ acked'[s][d] >= acked[s][d]
      BY AckedGrows DEF TypeOK
    <3> QED
      BY <3>1, <3>2
  <2>2. CASE ~Claimed(s, d)
    <3>1. PICK p \in Proc : RecordReplace(p) /\ s = job[p].symbol /\ d \in GapCoverage(p)
      BY <1>2, <2>2, ClaimsComeFromRecords
    <3>2. pc[p] \in Writing /\ PendingDays(p) <= 1
      BY <3>1 DEF RecordReplace, Writing, PendingDays, TypeOK
    <3>3. d \in gap[p][1] .. gap[p][2]
      BY <3>1, <3>2, CoverageInGap
    <3> QED
      BY <3>1, <3>3, AckedGrows
  <2> QED
    BY <2>1, <2>2
<1>3. ASSUME NEW p \in Proc, pc'[p] \in {"record", "replace"}, NEW d \in Day, resp'[p][d] > 0
      PROVE  store'[job'[p].symbol][d] > 0
  <2>1. CASE Upsert(p)
    <3> DEFINE t == job[p].symbol
               row == [e \in Day |-> IF resp[p][e] > 0 THEN resp[p][e] ELSE store[t][e]]
    <3>1. /\ t \in Symbol /\ job' = job /\ resp' = resp
          /\ store' = [store EXCEPT ![t] = row]
      BY <2>1 DEF JobInv, JobOK, Upsert, Busy
    <3>2. row[d] = resp[p][d]
      BY <1>3, <3>1
    <3> HIDE DEF row
    <3> QED
      BY <1>3, <3>1, <3>2 DEF TypeOK
  <2>2. CASE ~Upsert(p)
    <3>1. /\ pc[p] \in {"record", "replace"}
          /\ job'[p] = job[p] /\ resp'[p] = resp[p]
      BY <1>3, <2>2, WriterSteps DEF Fetch, TypeOK
    <3>2. job[p].symbol \in Symbol
      BY <3>1 DEF JobInv, JobOK, Busy
    <3>3. store[job[p].symbol][d] > 0
      BY <1>3, <3>1 DEF DurableInv
    <3> QED
      BY <3>1, <3>2, <3>3, StoreKeepsRows
  <2> QED
    BY <2>1, <2>2
<1> QED
  BY <1>1, <1>2, <1>3 DEF DurableInv

\* Crash anywhere: the ledger never claims a row the store does not hold, provided
\* the pending window is at most one day (nightly and backfill: 1, research: 0).
THEOREM Durable ==
    ASSUME \A k \in Program : NotReadyDays[k] <= 1
    PROVE  Spec => []CoverageIsDurable
<1>1. Init => TypeOK /\ JobInv /\ DurableInv
  <2>1. Init => DurableInv
    BY DEF Init, DurableInv, Claimed
  <2> QED
    BY <2>1, InitType
<1>2. TypeOK /\ JobInv /\ DurableInv /\ [Next]_vars => (TypeOK /\ JobInv /\ DurableInv)'
  BY StepType, StepJob, StepDurable
<1>3. DurableInv => CoverageIsDurable
  BY DEF DurableInv, CoverageIsDurable, Claimed
<1> QED
  BY <1>1, <1>2, <1>3, PTL DEF Spec
-----------------------------------------------------------------------------
\* The vendor publishes nothing for a day it is done with.
LEMMA PastIsClosed ==
    ASSUME TypeOK, [Next]_vars, NEW s \in Symbol, NEW d \in Day
    PROVE  /\ clock' \in Int /\ clock <= clock'
           /\ Closed(s, d) => Closed(s, d)'
<1> USE DEF Closed
<1>0. clock \in Int /\ d \in Int
  BY Constants DEF TypeOK
<1>1. CASE Tick
  BY <1>0, <1>1 DEF Tick
<1>2. ASSUME NEW t \in Symbol, NEW e \in Day, Publish(t, e) PROVE clock' = clock /\
             (Closed(s, d) => Closed(s, d)')
  <2>1. e \in Int /\ clock <= e + PublishLag
    BY <1>0, <1>2, Constants DEF Publish
  <2> QED
    BY <1>0, <1>2, <2>1 DEF Publish, TypeOK
<1>3. ASSUME NEW t \in Symbol, NEW e \in Day, Revise(t, e) PROVE clock' = clock /\
             (Closed(s, d) => Closed(s, d)')
  BY <1>3 DEF Revise, TypeOK
<1>4. CASE Vendor
  BY <1>0, <1>2, <1>3, <1>4 DEF Vendor
<1>5. UNCHANGED <<clock, source>> \/ Tick \/ Vendor
  <2>1. \A p \in Proc : Work(p) => UNCHANGED <<clock, source>>
    BY DEF Work, Plan, Fetch, Upsert, RecordLoad, RecordReplace, RecordStat, SymbolDone
  <2>2. \A p \in Proc : FetchFails(p) \/ Crash(p) => UNCHANGED <<clock, source>>
    BY DEF FetchFails, Crash
  <2>3. ASSUME NEW p \in Proc, NEW symbols, NEW today, NEW lo, NEW hi, NEW forced,
               Begin(p, symbols, today, lo, hi, forced)
        PROVE  UNCHANGED <<clock, source>>
    BY <2>3 DEF Begin
  <2>4. UNCHANGED vars => UNCHANGED <<clock, source>>
    BY DEF vars
  <2> QED
    BY <2>1, <2>2, <2>3, <2>4 DEF Next
<1> QED
  BY <1>0, <1>1, <1>4, <1>5

LEMMA SettledStays ==
    ASSUME TypeOK, TypeOK', JobInv, [Next]_vars, NEW s \in Symbol, NEW d \in Day, Settled(s, d)
    PROVE  Settled(s, d)'
  BY StoreKeepsRows, PastIsClosed DEF Settled

\* What a record leaves of the history of frozen cells, and what it adds.
LEMMA FrozenBy ==
    ASSUME TypeOK, [Next]_vars, NEW s \in Symbol, NEW d \in Day
    PROVE  /\ (<<s, d>> \in frozen /\ <<s, d>> \notin frozen') =>
                \E p \in Proc : /\ RecordReplace(p) /\ s = job[p].symbol
                                /\ d \in gap[p][1] .. gap[p][2] /\ d \notin early[p]
           /\ \A p \in Proc : (/\ RecordReplace(p) /\ s = job[p].symbol
                               /\ PendingDays(p) = 0 /\ d \in early[p]) => <<s, d>> \in frozen'
<1>1. ASSUME NEW p \in Proc, RecordReplace(p)
      PROVE  frozen' = (frozen \ ({job[p].symbol} \X ((gap[p][1] .. gap[p][2]) \ early[p])))
                          \cup (IF PendingDays(p) = 0 THEN {job[p].symbol} \X early[p] ELSE {})
  BY <1>1 DEF RecordReplace
<1>2. (\A p \in Proc : ~RecordReplace(p)) => frozen' = frozen
  BY StepKinds, IdleKeeps DEF Plan, Upsert, RecordLoad, RecordStat, Crash, historyVars
<1> QED
  BY <1>1, <1>2

LEMMA StepComplete ==
    ASSUME TypeOK, TypeOK', JobInv, DurableInv, CompleteInv, [Next]_vars,
           PublishLag = 0, \A k \in Program : NotReadyDays[k] \in {0, 1}
    PROVE  CompleteInv'
\* What is recorded of a day that was not too early is settled.
<1>0. ASSUME NEW p \in Proc, RecordReplace(p), NEW s \in Symbol, s = job[p].symbol,
             NEW d \in Day, d \in gap[p][1] .. gap[p][2], d \notin early[p]
      PROVE  Settled(s, d)'
  <2>1. pc[p] = "replace"
    BY <1>0 DEF RecordReplace
  <2>2. resp[p][d] > 0 \/ Closed(s, d)
    BY <1>0, <2>1 DEF CompleteInv
  <2>3. Settled(s, d)
    BY <1>0, <2>1, <2>2 DEF DurableInv, Settled
  <2> QED
    BY <2>3, SettledStays
<1>1. ASSUME NEW s \in Symbol, NEW d \in Day, Claimed(s, d)'
      PROVE  Settled(s, d)' \/ <<s, d>> \in frozen'
  <2>1. CASE Claimed(s, d)
    <3>1. CASE Settled(s, d)
      BY <3>1, SettledStays
    <3>2. CASE <<s, d>> \in frozen
      BY <1>0, <3>2, FrozenBy
    <3> QED
      BY <2>1, <3>1, <3>2 DEF CompleteInv
  <2>2. CASE ~Claimed(s, d)
    <3>1. PICK p \in Proc : RecordReplace(p) /\ s = job[p].symbol /\ d \in GapCoverage(p)
      BY <1>1, <2>2, ClaimsComeFromRecords
    <3>2. pc[p] = "replace" /\ pc[p] \in Writing /\ program[p] \in Program
      BY <3>1 DEF RecordReplace, Writing, TypeOK
    <3>3. PendingDays(p) \in {0, 1}
      BY <3>2 DEF PendingDays
    <3>4. /\ d \in gap[p][1] .. gap[p][2]
          /\ PendingDays(p) = 1 => d < job[p].today \/ resp[p][d] > 0
      BY <3>1, <3>2, <3>3, CoverageInGap
    <3>5. CASE d \notin early[p]
      BY <1>0, <3>1, <3>4, <3>5
    <3>6. CASE d \in early[p] /\ PendingDays(p) = 0
      BY <3>1, <3>6, FrozenBy
    <3>7. CASE d \in early[p] /\ PendingDays(p) = 1
      <4>1. job[p].today <= d
        <5>1. job[p].today <= d + PublishLag
          BY <3>2, <3>7 DEF JobInv, JobOK
        <5>2. d \in Int
          BY Constants
        <5> QED
          BY <5>1, <5>2
      <4>2. job[p].today \in Int /\ d \in Int
        BY Constants DEF TypeOK, Job
      <4>3. resp[p][d] > 0
        BY <3>4, <3>7, <4>1, <4>2
      <4>4. store[s][d] > 0
        BY <3>1, <3>2, <4>3 DEF DurableInv
      <4> QED
        BY <4>4, StoreKeepsRows DEF Settled
    <3> QED
      BY <3>3, <3>5, <3>6, <3>7
  <2> QED
    BY <2>1, <2>2
<1>2. ASSUME NEW p \in Proc, pc'[p] \in {"upsert", "record", "replace"},
             NEW d \in gap'[p][1] .. gap'[p][2]
      PROVE  d \in early'[p] \/ resp'[p][d] > 0 \/ Closed(job[p].symbol, d)'
  <2>0. gap'[p][1] .. gap'[p][2] \subseteq Day
    BY Constants DEF TypeOK
  <2>1. ASSUME NEW lo \in Day, NEW hi \in Day, Fetch(p, lo, hi)
        PROVE  d \in early'[p] \/ resp'[p][d] > 0 \/ Closed(job[p].symbol, d)'
    <3> DEFINE t == job[p].symbol
               row == [e \in Day |-> IF e \in lo .. hi THEN source[t][e] ELSE 0]
               open == {e \in lo .. hi : source[t][e] = 0 /\ clock <= e + PublishLag}
    <3>1. /\ t \in Symbol /\ job' = job /\ source' = source /\ clock' = clock
          /\ resp' = [resp EXCEPT ![p] = row] /\ gap'[p] = <<lo, hi>>
          /\ early' = [early EXCEPT ![p] = open]
      BY <2>1 DEF JobInv, JobOK, Fetch, Busy, TypeOK
    <3>2. d \in Day /\ d \in lo .. hi
      BY <2>0, <3>1
    <3>3. /\ row[d] = source[t][d]
          /\ d \in open <=> source[t][d] = 0 /\ clock <= d + PublishLag
      BY <3>2
    <3> HIDE DEF row, open
    <3>4. resp'[p][d] = source[t][d] /\ source[t][d] \in Version /\ early'[p] = open
      BY <3>1, <3>2, <3>3 DEF TypeOK
    <3>5. clock \in Int /\ d \in Int /\ (source[t][d] > 0 \/ source[t][d] = 0)
      BY <3>2, <3>4, Constants DEF TypeOK, Version
    <3> QED
      BY <3>1, <3>3, <3>4, <3>5 DEF Closed
  <2>2. CASE ~ \E lo, hi \in Day : Fetch(p, lo, hi)
    <3>1. /\ pc[p] \in {"upsert", "record", "replace"} /\ job'[p] = job[p]
          /\ gap'[p] = gap[p] /\ resp'[p] = resp[p] /\ early'[p] = early[p]
      <4>1. CASE Upsert(p)
        BY <4>1 DEF Upsert
      <4>2. CASE ~Upsert(p)
        BY <1>2, <2>2, <4>2, WriterSteps
      <4> QED
        BY <4>1, <4>2
    <3>2. job[p].symbol \in Symbol /\ d \in Day
      BY <1>2, <2>0, <3>1 DEF JobInv, JobOK, Busy
    <3>3. d \in early[p] \/ resp[p][d] > 0 \/ Closed(job[p].symbol, d)
      BY <1>2, <3>1 DEF CompleteInv
    <3>4. \A t \in Symbol : Closed(t, d) => Closed(t, d)'
      BY <3>2, PastIsClosed
    <3>5. Closed(job[p].symbol, d) => Closed(job[p].symbol, d)'
      BY <3>1, <3>2, <3>4 DEF Closed
    <3> QED
      BY <3>1, <3>3, <3>5
  <2> QED
    BY <2>1, <2>2
<1> QED
  BY <1>1, <1>2 DEF CompleteInv

\* If the vendor publishes a day's row on that day, and a program has no pending
\* window (research) or one of a day (nightly, backfill), then a covered day hides a
\* row only where a program of the first kind recorded it before the day was over,
\* whatever the processes interleave or a crash cuts off.
THEOREM Complete ==
    ASSUME PublishLag = 0, \A k \in Program : NotReadyDays[k] \in {0, 1}
    PROVE  Spec => []CoveredIsComplete
<1> DEFINE IInv == TypeOK /\ JobInv /\ DurableInv /\ CompleteInv
<1>1. Init => IInv
  <2>1. Init => DurableInv /\ CompleteInv
    BY DEF Init, DurableInv, CompleteInv, Claimed
  <2> QED
    BY <2>1, InitType
<1>2. ASSUME NEW k \in Program PROVE NotReadyDays[k] <= 1
  <2>1. NotReadyDays[k] \in {0, 1}
    OBVIOUS
  <2> QED
    BY <2>1
<1>3. IInv /\ [Next]_vars => IInv'
  BY <1>2, StepType, StepJob, StepDurable, StepComplete
<1>4. IInv => CoveredIsComplete
  BY DEF CompleteInv, CoveredIsComplete, Claimed, Settled, Closed
<1> QED
  BY <1>1, <1>3, <1>4, PTL DEF Spec
-----------------------------------------------------------------------------
(***************************************************************************)
(* What a call has done so far.  A symbol it has begun is behind it on the *)
(* days that are no longer to fetch.                                       *)
(***************************************************************************)
Begun(p, s)     == s \in job[p].asked /\ s \notin job[p].left
Remaining(p, s) == IF pc[p] \in Busy /\ s = job[p].symbol THEN todo[p] ELSE {}
Behind(p, s)    == {d \in job[p].lo .. job[p].hi : Begun(p, s) /\ d \notin Remaining(p, s)}

\* The rows the vendor had when the call began stay the vendor's; a response has
\* them, and a written response is on disk.
CallInv(p) ==
    /\ pc[p] # "idle" =>
         /\ job[p].left \subseteq job[p].asked
         /\ \A s \in Symbol, d \in Day : job[p].base[s][d] <= source[s][d]
    /\ pc[p] \in Busy => Begun(p, job[p].symbol)
    /\ pc[p] \in Writing =>
         \A d \in gap[p][1] .. gap[p][2] : job[p].base[job[p].symbol][d] <= resp[p][d]
    /\ pc[p] \in {"record", "replace", "stat"} =>
         \A d \in gap[p][1] .. gap[p][2] : resp[p][d] > 0 => store[job[p].symbol][d] > 0
    /\ pc[p] = "done" => job[p].left = {}

\* So is every row of the days the call is past, but for the frozen ones it did not
\* refetch ...
ReadInv(p) ==
    pc[p] # "idle" =>
        \A s \in Symbol, d \in Day :
            d \in Behind(p, s) /\ job[p].base[s][d] > 0 =>
              store[s][d] > 0 \/ (<<s, d>> \in frozen /\ d \notin Refetched(job[p]))

\* ... and in the trailing window a version no older, when no other process
\* writes the store meanwhile: the store and the responses only move forward.
FreshInv(p) ==
    /\ \A s \in Symbol, d \in Day : store[s][d] <= source[s][d]
    /\ pc[p] \in Writing =>
         \A d \in gap[p][1] .. gap[p][2] : resp[p][d] <= source[job[p].symbol][d]
    /\ pc[p] = "upsert" =>
         \A d \in gap[p][1] .. gap[p][2] : store[job[p].symbol][d] <= resp[p][d]
    /\ pc[p] \in {"record", "replace", "stat"} =>
         \A d \in gap[p][1] .. gap[p][2] : resp[p][d] <= store[job[p].symbol][d]

TailInv(p) ==
    pc[p] # "idle" =>
        \A s \in Symbol, d \in TailFor(job[p]) :
            d \in Behind(p, s) => job[p].base[s][d] <= store[s][d]

LEMMA Versions ==
    ASSUME TypeOK, NEW s \in Symbol, NEW d \in Day
    PROVE  /\ source[s][d] \in Int /\ 0 <= source[s][d]
           /\ store[s][d] \in Int /\ 0 <= store[s][d]
           /\ \A p \in Proc : /\ job[p].base[s][d] \in Int /\ 0 <= job[p].base[s][d]
                              /\ resp[p][d] \in Int /\ 0 <= resp[p][d]
<1>1. \A v \in Version : v \in Int /\ 0 <= v
  BY DEF Version
<1>2. source[s][d] \in Version /\ store[s][d] \in Version
  BY DEF TypeOK
<1>3. \A p \in Proc : job[p].base[s][d] \in Version /\ resp[p][d] \in Version
  BY DEF TypeOK, Job
<1> QED
  BY <1>1, <1>2, <1>3

LEMMA SourceGrows ==
    ASSUME TypeOK, [Next]_vars, NEW s \in Symbol, NEW d \in Day
    PROVE  source[s][d] <= source'[s][d]
<1>0. source[s][d] \in Int
  BY Versions
<1>1. ASSUME NEW t \in Symbol, NEW e \in Day, Publish(t, e) \/ Revise(t, e)
      PROVE  source[s][d] <= source'[s][d]
  <2>1. source[t][e] \in Int /\ source \in [Symbol -> [Day -> Version]]
    BY Versions DEF TypeOK
  <2>2. CASE Publish(t, e)
    BY <1>0, <2>1, <2>2 DEF Publish
  <2>3. CASE Revise(t, e)
    BY <1>0, <2>1, <2>3 DEF Revise
  <2> QED
    BY <1>1, <2>2, <2>3
<1>2. Vendor \/ UNCHANGED source
  <2>1. CASE Idle
    BY <2>1 DEF Idle, Tick, Begin, Fetch, FetchFails, SymbolDone, vars
  <2>2. ASSUME NEW p \in Proc, NEW t \in Symbol, Plan(p, t) PROVE UNCHANGED source
    BY <2>2 DEF Plan
  <2>3. ASSUME NEW p \in Proc, Upsert(p) \/ RecordLoad(p) \/ RecordReplace(p)
        PROVE  UNCHANGED source
    BY <2>3 DEF Upsert, RecordLoad, RecordReplace
  <2>4. ASSUME NEW p \in Proc, RecordStat(p) \/ Crash(p) PROVE UNCHANGED source
    BY <2>4 DEF RecordStat, Crash
  <2> QED
    BY StepKinds, <2>1, <2>2, <2>3, <2>4
<1> QED
  BY <1>0, <1>1, <1>2 DEF Vendor

\* Only its own steps change what a process is doing.
Mine(p) == <<pc[p], job[p], todo[p], gap[p], resp[p]>>

LEMMA OwnSteps ==
    ASSUME TypeOK, [Next]_vars, NEW p \in Proc
    PROVE  \/ UNCHANGED Mine(p)
           \/ \E symbols \in SUBSET Symbol, today, lo, hi \in Day, forced \in BOOLEAN :
                Begin(p, symbols, today, lo, hi, forced)
           \/ \E s \in Symbol : Plan(p, s)
           \/ \E lo, hi \in Day : Fetch(p, lo, hi)
           \/ Upsert(p) \/ RecordLoad(p) \/ RecordReplace(p) \/ RecordStat(p)
           \/ SymbolDone(p) \/ FetchFails(p) \/ Crash(p)
<1> USE DEF Mine
<1>1. CASE Tick \/ Vendor \/ UNCHANGED vars
  BY <1>1 DEF Tick, Vendor, Publish, Revise, procVars, vars
<1>2. ASSUME NEW q \in Proc, NEW symbols \in SUBSET Symbol, NEW today \in Day,
             NEW lo \in Day, NEW hi \in Day, NEW forced \in BOOLEAN,
             Begin(q, symbols, today, lo, hi, forced), q # p
      PROVE  UNCHANGED Mine(p)
  BY <1>2 DEF Begin, TypeOK
<1>3. ASSUME NEW q \in Proc, q # p, \E s \in Symbol : Plan(q, s) PROVE UNCHANGED Mine(p)
  BY <1>3 DEF Plan, TypeOK
<1>4. ASSUME NEW q \in Proc, q # p, \E lo, hi \in Day : Fetch(q, lo, hi)
      PROVE  UNCHANGED Mine(p)
  BY <1>4 DEF Fetch, TypeOK
<1>5. ASSUME NEW q \in Proc, q # p, FetchFails(q) \/ Crash(q) PROVE UNCHANGED Mine(p)
  BY <1>5 DEF FetchFails, Crash, Leave, TypeOK
<1>6. ASSUME NEW q \in Proc, q # p,
             Upsert(q) \/ RecordLoad(q) \/ RecordReplace(q) \/ RecordStat(q) \/ SymbolDone(q)
      PROVE  UNCHANGED Mine(p)
  BY <1>6 DEF Upsert, RecordLoad, RecordReplace, RecordStat, SymbolDone, TypeOK
<1> HIDE DEF Mine
<1> QED
  BY <1>1, <1>2, <1>3, <1>4, <1>5, <1>6 DEF Next, Work

\* What Upsert leaves in the store.
LEMMA UpsertWrites ==
    ASSUME TypeOK, JobInv, NEW p \in Proc, Upsert(p), NEW s \in Symbol, NEW d \in Day
    PROVE  store'[s][d] = IF s = job[p].symbol /\ resp[p][d] > 0 THEN resp[p][d]
                                                                 ELSE store[s][d]
<1> DEFINE row == [e \in Day |-> IF resp[p][e] > 0 THEN resp[p][e]
                                                  ELSE store[job[p].symbol][e]]
<1>1. job[p].symbol \in Symbol
  BY DEF JobInv, JobOK, Upsert, Busy
<1>2. store' = [store EXCEPT ![job[p].symbol] = row]
  BY DEF Upsert
<1>3. row[d] = IF resp[p][d] > 0 THEN resp[p][d] ELSE store[job[p].symbol][d]
  OBVIOUS
<1> HIDE DEF row
<1> QED
  BY <1>1, <1>2, <1>3 DEF TypeOK

\* A day gets behind a call when its symbol is planned without it, or when the
\* gap it lies in has been recorded.
LEMMA BehindGrows ==
    ASSUME TypeOK, JobInv, [Next]_vars, NEW p \in Proc, pc'[p] # "idle",
           NEW s \in Symbol, NEW d \in Day, d \in Behind(p, s)'
    PROVE  /\ pc[p] # "idle" /\ job'[p].base = job[p].base
           /\ Refetched(job'[p]) \subseteq Refetched(job[p])
           /\ TailFor(job'[p]) \subseteq TailFor(job[p])
           /\ \/ d \in Behind(p, s)
              \/ Plan(p, s) /\ d \in job'[p].lo .. job'[p].hi
                            /\ d \notin GapsFor(job'[p], s, Loaded(p))
              \/ RecordStat(p) /\ s = job[p].symbol /\ d \in gap[p][1] .. gap[p][2]
<1> USE DEF Busy, Writing
<1> DEFINE Goal == /\ pc[p] # "idle" /\ job'[p].base = job[p].base
                   /\ Refetched(job'[p]) \subseteq Refetched(job[p])
                   /\ TailFor(job'[p]) \subseteq TailFor(job[p])
                   /\ \/ d \in Behind(p, s)
                      \/ Plan(p, s) /\ d \in job'[p].lo .. job'[p].hi
                                    /\ d \notin GapsFor(job'[p], s, Loaded(p))
                      \/ RecordStat(p) /\ s = job[p].symbol /\ d \in gap[p][1] .. gap[p][2]
<1>1. ASSUME pc[p] # "idle", job'[p] = job[p], Behind(p, s)' = Behind(p, s) PROVE Goal
  BY <1>1
<1>a. CASE UNCHANGED Mine(p)
  <2>1. pc'[p] = pc[p] /\ job'[p] = job[p] /\ todo'[p] = todo[p]
    BY <1>a DEF Mine
  <2>2. Behind(p, s)' = Behind(p, s)
    BY <2>1 DEF Behind, Begun, Remaining
  <2> QED
    BY <1>1, <2>1, <2>2
<1>b. ASSUME NEW symbols \in SUBSET Symbol, NEW today \in Day, NEW lo \in Day,
             NEW hi \in Day, NEW forced \in BOOLEAN, Begin(p, symbols, today, lo, hi, forced)
      PROVE  Goal
  <2>1. job'[p].asked = job'[p].left
    BY <1>b DEF Begin, TypeOK
  <2>2. Behind(p, s)' = {}
    BY <2>1 DEF Behind, Begun
  <2> QED
    BY <2>2
<1>c. ASSUME NEW t \in Symbol, Plan(p, t) PROVE Goal
  <2> DEFINE j == Planned(p, t)
             days == GapsFor(j, t, Loaded(p))
  <2>1. /\ j \in Job /\ j.symbol = t /\ j.left = job[p].left \ {t} /\ j.asked = job[p].asked
        /\ j.lo = job[p].lo /\ j.hi = job[p].hi /\ j.forced = job[p].forced
        /\ j.base = job[p].base
        /\ j.today = IF program[p] \in Live THEN clock ELSE job[p].today
    BY PlannedJob
  <2>2. /\ pc[p] = "plan" /\ pc'[p] = "fetch" /\ todo'[p] = days /\ job'[p] = j
    BY <1>c DEF Plan, TypeOK
  <2>3. TailFor(j) \subseteq TailFor(job[p])
    <3>1. job[p].today <= clock
      BY <2>2 DEF JobInv, JobOK
    <3>2. /\ job[p].today \in Int /\ j.today \in Int /\ clock \in Int
          /\ job[p].lo .. job[p].hi \subseteq Int
      BY <2>1, Constants DEF TypeOK, Job
    <3>3. job[p].today <= j.today
      BY <2>1, <3>1, <3>2
    <3> HIDE DEF j
    <3>4. RecentTail(j) \subseteq RecentTail(job[p])
      BY <2>1, <3>2, <3>3 DEF RecentTail
    <3> QED
      BY <2>1, <3>4 DEF TailFor
  <2> HIDE DEF j
  <2>4. Refetched(j) \subseteq Refetched(job[p])
    BY <2>1, <2>3 DEF Refetched
  <2>5. CASE t # s
    <3>1. d \in Behind(p, s)
      BY <2>1, <2>2, <2>5 DEF Behind, Begun, Remaining
    <3> QED
      BY <2>1, <2>2, <2>3, <2>4, <3>1
  <2>6. CASE t = s
    <3>1. d \in j.lo .. j.hi /\ d \notin days
      BY <2>1, <2>2, <2>6 DEF Behind, Remaining
    <3> QED
      BY <1>c, <2>1, <2>2, <2>3, <2>4, <2>6, <3>1
  <2> QED
    BY <2>5, <2>6
<1>d. ASSUME NEW lo \in Day, NEW hi \in Day, Fetch(p, lo, hi) PROVE Goal
  <2>1. pc[p] = "fetch" /\ pc'[p] = "upsert" /\ job' = job /\ todo' = todo
    BY <1>d DEF Fetch, TypeOK
  <2>2. Behind(p, s)' = Behind(p, s)
    BY <2>1 DEF Behind, Begun, Remaining
  <2> QED
    BY <1>1, <2>1, <2>2
<1>e. CASE Upsert(p) \/ RecordLoad(p) \/ RecordReplace(p)
  <2>1. pc[p] \in Writing /\ pc'[p] \in Writing /\ job' = job /\ todo' = todo
    BY <1>e DEF Upsert, RecordLoad, RecordReplace, TypeOK
  <2>2. Behind(p, s)' = Behind(p, s)
    BY <2>1 DEF Behind, Begun, Remaining
  <2> QED
    BY <1>1, <2>1, <2>2
<1>g. CASE RecordStat(p)
  <2> DEFINE span == gap[p][1] .. gap[p][2]
  <2>1. pc[p] = "stat" /\ pc'[p] = "fetch" /\ job' = job /\ todo'[p] = todo[p] \ span
    BY <1>g DEF RecordStat, TypeOK
  <2>2. d \in Behind(p, s) \/ (s = job[p].symbol /\ d \in span)
    BY <2>1 DEF Behind, Begun, Remaining
  <2> QED
    BY <1>g, <2>1, <2>2
<1>h. CASE SymbolDone(p)
  <2>1. pc[p] = "fetch" /\ todo[p] = {} /\ pc'[p] \in {"plan", "done"} /\ job' = job
    BY <1>h DEF SymbolDone, TypeOK
  <2>2. Behind(p, s)' = Behind(p, s)
    BY <2>1 DEF Behind, Begun, Remaining
  <2> QED
    BY <1>1, <2>1, <2>2
<1>i. CASE FetchFails(p) \/ Crash(p)
  BY <1>i DEF FetchFails, Crash, Leave, TypeOK
<1> HIDE DEF Goal
<1>2. (\E symbols \in SUBSET Symbol, today, lo, hi \in Day, forced \in BOOLEAN :
           Begin(p, symbols, today, lo, hi, forced)) => Goal
  BY <1>b
<1>3. (\E t \in Symbol : Plan(p, t)) => Goal
  BY <1>c
<1>4. (\E lo, hi \in Day : Fetch(p, lo, hi)) => Goal
  BY <1>d
<1>5. \/ UNCHANGED Mine(p)
      \/ \E symbols \in SUBSET Symbol, today, lo, hi \in Day, forced \in BOOLEAN :
           Begin(p, symbols, today, lo, hi, forced)
      \/ \E t \in Symbol : Plan(p, t)
      \/ \E lo, hi \in Day : Fetch(p, lo, hi)
      \/ Upsert(p) \/ RecordLoad(p) \/ RecordReplace(p) \/ RecordStat(p)
      \/ SymbolDone(p) \/ FetchFails(p) \/ Crash(p)
  BY OwnSteps
<1>6. Goal
  BY <1>2, <1>3, <1>4, <1>5, <1>a, <1>e, <1>g, <1>h, <1>i, Zenon DEF Goal
<1> QED
  BY <1>6 DEF Goal

LEMMA StepCall ==
    ASSUME TypeOK, TypeOK', JobInv, [Next]_vars, NEW p \in Proc, CallInv(p)
    PROVE  CallInv(p)'
<1> USE DEF Busy, Writing
<1>1. ASSUME NEW s \in Symbol, NEW d \in Day
      PROVE  /\ source[s][d] <= source'[s][d]
             /\ store[s][d] > 0 => store'[s][d] > 0
             /\ source[s][d] \in Int /\ source'[s][d] \in Int /\ job[p].base[s][d] \in Int
  <2>1. source'[s][d] \in Version
    BY DEF TypeOK
  <2> QED
    BY <2>1, Constants, SourceGrows, StoreKeepsRows, Versions
<1>2. pc[p] \in Busy => job[p].symbol \in Symbol
  BY DEF JobInv, JobOK
<1>3. pc[p] \in Writing => gap[p][1] .. gap[p][2] \subseteq Day
  BY Constants DEF TypeOK
<1>a. CASE UNCHANGED Mine(p)
  <2>1. /\ pc'[p] = pc[p] /\ job'[p] = job[p] /\ todo'[p] = todo[p]
        /\ gap'[p] = gap[p] /\ resp'[p] = resp[p]
    BY <1>a DEF Mine
  <2>2. \A s : Begun(p, s)' = Begun(p, s)
    BY <2>1 DEF Begun
  <2>3. \A s \in Symbol, d \in Day :
           job[p].base[s][d] <= source[s][d] => job[p].base[s][d] <= source'[s][d]
    BY <1>1
  <2> QED
    BY <1>1, <1>2, <1>3, <2>1, <2>2, <2>3 DEF CallInv
<1>b. ASSUME NEW symbols \in SUBSET Symbol, NEW today \in Day, NEW lo \in Day,
             NEW hi \in Day, NEW forced \in BOOLEAN, Begin(p, symbols, today, lo, hi, forced)
      PROVE  CallInv(p)'
  <2> DEFINE base == [s \in Symbol |-> [d \in Day |->
                         IF s \in symbols /\ d \in lo .. hi THEN source[s][d] ELSE 0]]
  <2>1. /\ pc'[p] = "plan" /\ source' = source /\ job'[p].asked = job'[p].left
        /\ job'[p].base = base
    BY <1>b DEF Begin, TypeOK
  <2>2. ASSUME NEW s \in Symbol, NEW d \in Day PROVE base[s][d] <= source[s][d]
    <3>1. base[s][d] = IF s \in symbols /\ d \in lo .. hi THEN source[s][d] ELSE 0
      OBVIOUS
    <3> QED
      BY <3>1, Versions
  <2> HIDE DEF base
  <2> QED
    BY <2>1, <2>2 DEF CallInv
<1>c. ASSUME NEW s \in Symbol, Plan(p, s) PROVE CallInv(p)'
  <2>1. /\ pc[p] = "plan" /\ s \in job[p].left /\ pc'[p] = "fetch"
        /\ job'[p].symbol = s /\ job'[p].left = job[p].left \ {s}
        /\ job'[p].asked = job[p].asked /\ job'[p].base = job[p].base
        /\ source' = source
    BY <1>c, PlannedJob DEF Plan, TypeOK
  <2>2. job[p].left \subseteq job[p].asked
    BY <2>1 DEF CallInv
  <2>3. Begun(p, s)'
    BY <2>1, <2>2 DEF Begun
  <2> QED
    BY <2>1, <2>2, <2>3 DEF CallInv
<1>d. ASSUME NEW lo \in Day, NEW hi \in Day, Fetch(p, lo, hi) PROVE CallInv(p)'
  <2> DEFINE row == [d \in Day |-> IF d \in lo .. hi THEN source[job[p].symbol][d] ELSE 0]
  <2>1. /\ pc[p] = "fetch" /\ pc'[p] = "upsert" /\ job' = job
        /\ source' = source
        /\ gap'[p] = <<lo, hi>> /\ resp' = [resp EXCEPT ![p] = row]
    BY <1>d DEF Fetch, TypeOK
  <2>2. \A d \in lo .. hi : d \in Day /\ row[d] = source[job[p].symbol][d]
    BY Constants
  <2> HIDE DEF row
  <2>3. \A d \in lo .. hi : d \in Day /\ resp'[p][d] = source[job[p].symbol][d]
    BY <2>1, <2>2 DEF TypeOK
  <2>4. \A s : Begun(p, s)' = Begun(p, s)
    BY <2>1 DEF Begun
  <2>5. \A d \in gap'[p][1] .. gap'[p][2] : job[p].base[job[p].symbol][d] <= resp'[p][d]
    BY <1>2, <2>1, <2>3 DEF CallInv
  <2> QED
    BY <2>1, <2>4, <2>5 DEF CallInv
<1>e. CASE Upsert(p)
  <2>1. /\ pc[p] = "upsert" /\ pc'[p] = "record" /\ job' = job
        /\ source' = source /\ gap' = gap /\ resp' = resp
    BY <1>e DEF Upsert, TypeOK
  <2>2. \A s : Begun(p, s)' = Begun(p, s)
    BY <2>1 DEF Begun
  <2>3. \A d \in gap[p][1] .. gap[p][2] : resp[p][d] > 0 => store'[job[p].symbol][d] > 0
    BY <1>2, <1>3, <1>e, <2>1, UpsertWrites
  <2> QED
    BY <2>1, <2>2, <2>3 DEF CallInv
<1>f. CASE RecordLoad(p) \/ RecordReplace(p)
  <2>1. /\ pc[p] \in {"record", "replace"} /\ pc'[p] \in {"replace", "stat"} /\ job' = job
        /\ source' = source /\ store' = store /\ gap' = gap /\ resp' = resp
    BY <1>f DEF RecordLoad, RecordReplace, TypeOK
  <2>2. \A s : Begun(p, s)' = Begun(p, s)
    BY <2>1 DEF Begun
  <2> QED
    BY <2>1, <2>2 DEF CallInv
<1>g. CASE RecordStat(p) \/ SymbolDone(p)
  <2>1. /\ pc[p] \in {"stat", "fetch"} /\ pc'[p] \in {"fetch", "plan", "done"} /\ job' = job
        /\ pc'[p] = "fetch" => pc[p] = "stat"
        /\ pc'[p] = "done" => job[p].left = {}
        /\ source' = source
    BY <1>g DEF RecordStat, SymbolDone, TypeOK
  <2>2. \A s : Begun(p, s)' = Begun(p, s)
    BY <2>1 DEF Begun
  <2> QED
    BY <2>1, <2>2 DEF CallInv
<1>i. CASE FetchFails(p) \/ Crash(p)
  <2>1. pc'[p] = "idle"
    BY <1>i DEF FetchFails, Crash, Leave, TypeOK
  <2> QED
    BY <2>1 DEF CallInv
<1> QED
  BY <1>a, <1>b, <1>c, <1>d, <1>e, <1>f, <1>g, <1>i, OwnSteps

LEMMA StepRead ==
    ASSUME TypeOK, TypeOK', JobInv, DurableInv, CompleteInv, [Next]_vars,
           NEW p \in Proc, CallInv(p), ReadInv(p)
    PROVE  ReadInv(p)'
<1> SUFFICES ASSUME pc'[p] # "idle", NEW s \in Symbol, NEW d \in Day, d \in Behind(p, s)',
                    job'[p].base[s][d] > 0
             PROVE  store'[s][d] > 0 \/ (<<s, d>> \in frozen' /\ d \notin Refetched(job'[p]))
  BY DEF ReadInv
<1>0. /\ pc[p] # "idle" /\ job[p].base[s][d] > 0
      /\ Refetched(job'[p]) \subseteq Refetched(job[p])
  BY BehindGrows
<1>1. store[s][d] > 0 => store'[s][d] > 0
  BY StoreKeepsRows
\* The vendor has the row, so a settled cell has it on disk.
<1>2. source[s][d] # 0
  <2>1. job[p].base[s][d] <= source[s][d]
    BY <1>0 DEF CallInv
  <2> QED
    BY <1>0, <2>1, Versions
<1>3. ASSUME <<s, d>> \in frozen PROVE <<s, d>> \in frozen' \/ store'[s][d] > 0
  <2> SUFFICES ASSUME <<s, d>> \notin frozen' PROVE store[s][d] > 0
    BY <1>1
  <2>1. PICK q \in Proc : /\ RecordReplace(q) /\ s = job[q].symbol
                          /\ d \in gap[q][1] .. gap[q][2] /\ d \notin early[q]
    BY <1>3, FrozenBy
  <2>2. pc[q] = "replace"
    BY <2>1 DEF RecordReplace
  <2>3. resp[q][d] > 0
    BY <1>2, <2>1, <2>2 DEF CompleteInv, Closed
  <2> QED
    BY <2>1, <2>2, <2>3 DEF DurableInv
<1>4. CASE d \in Behind(p, s)
  BY <1>0, <1>1, <1>3, <1>4 DEF ReadInv
<1>5. CASE Plan(p, s) /\ d \in job'[p].lo .. job'[p].hi /\ d \notin GapsFor(job'[p], s, Loaded(p))
  <2>1. <<s, d>> \in Loaded(p) /\ d \notin Refetched(job'[p])
    BY <1>5 DEF GapsFor, Refetched
  <2>2. Settled(s, d) \/ <<s, d>> \in frozen
    BY <2>1 DEF Loaded, CompleteInv, Claimed
  <2> QED
    BY <1>1, <1>2, <1>3, <2>1, <2>2 DEF Settled, Closed
<1>6. CASE RecordStat(p) /\ s = job[p].symbol /\ d \in gap[p][1] .. gap[p][2]
  <2>1. pc[p] = "stat"
    BY <1>6 DEF RecordStat
  <2>2. job[p].base[s][d] <= resp[p][d]
    BY <1>6, <2>1 DEF CallInv, Writing
  <2>3. resp[p][d] > 0
    BY <1>0, <2>2, Versions
  <2> QED
    BY <1>1, <1>6, <2>1, <2>3 DEF CallInv
<1> QED
  BY <1>4, <1>5, <1>6, BehindGrows

LEMMA StepFresh ==
    ASSUME TypeOK, TypeOK', JobInv, [Next]_vars, \A p, q \in Proc : p = q,
           NEW p \in Proc, FreshInv(p)
    PROVE  /\ FreshInv(p)'
           /\ \A s \in Symbol, d \in Day : store[s][d] <= store'[s][d]
<1> USE DEF Busy, Writing
<1>1. ASSUME NEW s \in Symbol, NEW d \in Day
      PROVE  /\ source[s][d] \in Int /\ source'[s][d] \in Int
             /\ source[s][d] <= source'[s][d]
             /\ store[s][d] \in Int /\ resp[p][d] \in Int /\ 0 <= resp[p][d]
             /\ store[s][d] <= source[s][d]
  <2>1. source'[s][d] \in Version
    BY DEF TypeOK
  <2> QED
    BY <2>1, Constants, SourceGrows, Versions DEF FreshInv
<1>2. pc[p] \in Busy => job[p].symbol \in Symbol
  BY DEF JobInv, JobOK
<1>3. pc[p] \in Writing => gap[p][1] .. gap[p][2] \subseteq Day
  BY Constants DEF TypeOK
<1>4. ~Upsert(p) => store' = store
  <2>1. \A q \in Proc : Upsert(q) => Upsert(p)
    OBVIOUS
  <2> QED
    BY <2>1, StepKinds, IdleKeeps DEF Plan, RecordLoad, RecordReplace, RecordStat, Crash
<1>5. ASSUME ~Upsert(p)
      PROVE  /\ \A s \in Symbol, d \in Day : store'[s][d] <= source'[s][d]
             /\ \A s \in Symbol, d \in Day : store[s][d] <= store'[s][d]
  BY <1>1, <1>4, <1>5
<1>a. CASE UNCHANGED Mine(p)
  <2>1. /\ pc'[p] = pc[p] /\ job'[p] = job[p] /\ gap'[p] = gap[p] /\ resp'[p] = resp[p]
    BY <1>a DEF Mine
  <2>2. ~Upsert(p)
    BY <2>1 DEF Upsert, TypeOK
  <2>3. pc[p] \in Writing =>
           \A d \in gap[p][1] .. gap[p][2] : resp[p][d] <= source'[job[p].symbol][d]
    <3>1. ASSUME pc[p] \in Writing, NEW d \in gap[p][1] .. gap[p][2]
          PROVE  resp[p][d] <= source'[job[p].symbol][d]
      <4>1. d \in Day /\ job[p].symbol \in Symbol
        BY <1>2, <1>3, <3>1
      <4>2. resp[p][d] <= source[job[p].symbol][d]
        BY <3>1 DEF FreshInv
      <4> QED
        BY <1>1, <4>1, <4>2
    <3> QED
      BY <3>1
  <2> QED
    BY <1>4, <1>5, <2>1, <2>2, <2>3 DEF FreshInv
<1>b. CASE /\ pc'[p] \in {"idle", "plan", "done", "fetch"} /\ ~Upsert(p)
  BY <1>5, <1>b DEF FreshInv
<1>d. ASSUME NEW lo \in Day, NEW hi \in Day, Fetch(p, lo, hi) PROVE FreshInv(p)'
  <2> DEFINE row == [d \in Day |-> IF d \in lo .. hi THEN source[job[p].symbol][d] ELSE 0]
  <2>1. /\ pc[p] = "fetch" /\ pc'[p] = "upsert" /\ job' = job
        /\ source' = source /\ store' = store
        /\ gap'[p] = <<lo, hi>> /\ resp' = [resp EXCEPT ![p] = row]
    BY <1>d DEF Fetch, TypeOK
  <2>2. \A d \in lo .. hi : d \in Day /\ row[d] = source[job[p].symbol][d]
    BY Constants
  <2> HIDE DEF row
  <2>3. \A d \in lo .. hi : d \in Day /\ resp'[p][d] = source[job[p].symbol][d]
    BY <2>1, <2>2 DEF TypeOK
  <2>4. \A d \in gap'[p][1] .. gap'[p][2] :
           resp'[p][d] <= source[job[p].symbol][d] /\ store[job[p].symbol][d] <= resp'[p][d]
    BY <1>1, <1>2, <2>1, <2>3
  <2> QED
    BY <2>1, <2>4 DEF FreshInv
<1>e. CASE Upsert(p)
  <2>1. /\ pc[p] = "upsert" /\ pc'[p] = "record" /\ job' = job
        /\ source' = source /\ gap' = gap /\ resp' = resp
    BY <1>e DEF Upsert, TypeOK
  <2>2. ASSUME NEW s \in Symbol, NEW d \in Day
        PROVE  store'[s][d] <= source[s][d] /\ store[s][d] <= store'[s][d]
    <3>1. CASE s = job[p].symbol /\ resp[p][d] > 0
      <4>1. d \in gap[p][1] .. gap[p][2]
        BY <1>1, <2>1, <3>1 DEF JobInv, JobOK
      <4>2. resp[p][d] <= source[s][d] /\ store[s][d] <= resp[p][d]
        BY <2>1, <3>1, <4>1 DEF FreshInv
      <4> QED
        BY <1>e, <3>1, <4>2, UpsertWrites
    <3>2. CASE ~(s = job[p].symbol /\ resp[p][d] > 0)
      BY <1>1, <1>e, <3>2, UpsertWrites
    <3> QED
      BY <3>1, <3>2
  <2>3. \A d \in gap[p][1] .. gap[p][2] : resp[p][d] <= store'[job[p].symbol][d]
    <3>1. ASSUME NEW d \in gap[p][1] .. gap[p][2] PROVE resp[p][d] <= store'[job[p].symbol][d]
      <4>1. d \in Day /\ job[p].symbol \in Symbol
        BY <1>2, <1>3, <2>1
      <4>2. resp[p][d] \in Int /\ 0 <= resp[p][d] /\ store[job[p].symbol][d] \in Int
            /\ 0 <= store[job[p].symbol][d]
        BY <4>1, Versions
      <4>3. store'[job[p].symbol][d] = IF resp[p][d] > 0 THEN resp[p][d]
                                                        ELSE store[job[p].symbol][d]
        BY <1>e, <4>1, UpsertWrites
      <4> QED
        BY <4>2, <4>3
    <3> QED
      BY <3>1
  <2> QED
    BY <2>1, <2>2, <2>3 DEF FreshInv
<1>f. CASE RecordLoad(p) \/ RecordReplace(p)
  <2>1. /\ pc[p] \in {"record", "replace"} /\ pc'[p] \in {"replace", "stat"} /\ job' = job
        /\ source' = source /\ store' = store /\ gap' = gap /\ resp' = resp
    BY <1>f DEF RecordLoad, RecordReplace, TypeOK
  <2> QED
    BY <1>1, <2>1 DEF FreshInv
<1>g. ASSUME \/ \E symbols \in SUBSET Symbol, today, lo, hi \in Day, forced \in BOOLEAN :
                  Begin(p, symbols, today, lo, hi, forced)
             \/ \E s \in Symbol : Plan(p, s)
             \/ RecordStat(p) \/ SymbolDone(p) \/ FetchFails(p) \/ Crash(p)
      PROVE  pc'[p] \in {"idle", "plan", "done", "fetch"} /\ ~Upsert(p)
  <2>1. pc \in [Proc -> Phase]
    BY DEF TypeOK
  <2>2. Upsert(p) => pc[p] = "upsert" /\ pc'[p] = "record"
    BY <2>1 DEF Upsert
  <2>3. pc'[p] \in {"idle", "plan", "done", "fetch"}
    <3>1. ASSUME NEW symbols \in SUBSET Symbol, NEW today \in Day, NEW lo \in Day,
                 NEW hi \in Day, NEW forced \in BOOLEAN, Begin(p, symbols, today, lo, hi, forced)
          PROVE  pc'[p] \in {"idle", "plan", "done", "fetch"}
      BY <2>1, <3>1 DEF Begin
    <3>2. ASSUME NEW s \in Symbol, Plan(p, s) PROVE pc'[p] \in {"idle", "plan", "done", "fetch"}
      BY <2>1, <3>2 DEF Plan
    <3>3. CASE RecordStat(p)
      BY <2>1, <3>3 DEF RecordStat
    <3>4. CASE SymbolDone(p)
      BY <2>1, <3>4 DEF SymbolDone
    <3>5. CASE FetchFails(p) \/ Crash(p)
      BY <2>1, <3>5 DEF FetchFails, Crash, Leave
    <3> QED
      BY <1>g, <3>1, <3>2, <3>3, <3>4, <3>5
  <2> QED
    BY <2>2, <2>3
<1>6. FreshInv(p)'
  BY <1>a, <1>b, <1>d, <1>e, <1>f, <1>g, OwnSteps
<1>7. \A s \in Symbol, d \in Day : store[s][d] <= store'[s][d]
  <2>1. CASE Upsert(p)
    <3>1. ASSUME NEW s \in Symbol, NEW d \in Day PROVE store[s][d] <= store'[s][d]
      <4>1. CASE s = job[p].symbol /\ resp[p][d] > 0
        <5>1. pc[p] = "upsert"
          BY <2>1 DEF Upsert
        <5>2. d \in gap[p][1] .. gap[p][2]
          BY <1>1, <4>1, <5>1 DEF JobInv, JobOK
        <5>3. store[s][d] <= resp[p][d]
          BY <4>1, <5>1, <5>2 DEF FreshInv
        <5> QED
          BY <2>1, <4>1, <5>3, UpsertWrites
      <4>2. CASE ~(s = job[p].symbol /\ resp[p][d] > 0)
        BY <1>1, <2>1, <4>2, UpsertWrites
      <4> QED
        BY <4>1, <4>2
    <3> QED
      BY <3>1
  <2> QED
    BY <1>5, <2>1
<1> QED
  BY <1>6, <1>7

LEMMA StepTail ==
    ASSUME TypeOK, TypeOK', JobInv, [Next]_vars, \A p, q \in Proc : p = q,
           NEW p \in Proc, CallInv(p), FreshInv(p), TailInv(p)
    PROVE  TailInv(p)'
<1> SUFFICES ASSUME pc'[p] # "idle", NEW s \in Symbol, NEW d \in TailFor(job'[p]),
                    d \in Behind(p, s)'
             PROVE  job'[p].base[s][d] <= store'[s][d]
  BY DEF TailInv
<1>0. d \in Day
  BY Constants DEF TailFor, RecentTail, TypeOK, Job
<1>1. /\ pc[p] # "idle" /\ job'[p].base = job[p].base
      /\ d \in TailFor(job[p]) /\ d \in TailFor(job'[p])
  BY <1>0, BehindGrows
<1>2. ASSUME job[p].base[s][d] <= store[s][d] PROVE job'[p].base[s][d] <= store'[s][d]
  <2>1. store'[s][d] \in Version
    BY <1>0 DEF TypeOK
  <2>2. store[s][d] <= store'[s][d]
    BY <1>0, StepFresh
  <2>3. store'[s][d] \in Int /\ store[s][d] \in Int /\ job[p].base[s][d] \in Int
    BY <1>0, <2>1, Constants, Versions
  <2> QED
    BY <1>1, <1>2, <2>2, <2>3
<1>3. CASE d \in Behind(p, s)
  BY <1>1, <1>2, <1>3 DEF TailInv
<1>4. CASE d \in job'[p].lo .. job'[p].hi /\ d \notin GapsFor(job'[p], s, Loaded(p))
  BY <1>1, <1>4 DEF GapsFor, TailFor, RecentTail
<1>5. CASE RecordStat(p) /\ s = job[p].symbol /\ d \in gap[p][1] .. gap[p][2]
  <2>1. pc[p] = "stat"
    BY <1>5 DEF RecordStat
  <2>2. job[p].base[s][d] <= resp[p][d] /\ resp[p][d] <= store[s][d]
    BY <1>5, <2>1 DEF CallInv, FreshInv, Writing
  <2> QED
    BY <1>0, <1>2, <2>2, Versions
<1> QED
  BY <1>0, <1>3, <1>4, <1>5, BehindGrows

\* A call that returned holds every row the vendor had when it began, under the
\* assumptions of Complete, but for the frozen cells outside what it refetches: the
\* days it did not fetch are covered, and a covered day hides no other row.
THEOREM ReturnedReadIsComplete ==
    ASSUME PublishLag = 0, \A k \in Program : NotReadyDays[k] \in {0, 1}
    PROVE  Spec => []ReadIsComplete
<1> DEFINE Reads == \A p \in Proc : CallInv(p) /\ ReadInv(p)
           IInv == TypeOK /\ JobInv /\ DurableInv /\ CompleteInv /\ Reads
<1>1. Init => IInv
  <2>1. Init => DurableInv /\ CompleteInv
    BY DEF Init, DurableInv, CompleteInv, Claimed
  <2>2. Init => Reads
    <3>1. Init => \A p \in Proc : pc[p] = "idle"
      BY DEF Init
    <3> QED
      BY <3>1 DEF CallInv, ReadInv, Busy, Writing
  <2> QED
    BY <2>1, <2>2, InitType
<1>2. ASSUME NEW k \in Program PROVE NotReadyDays[k] <= 1
  <2>1. NotReadyDays[k] \in {0, 1}
    OBVIOUS
  <2> QED
    BY <2>1
<1>3. TypeOK /\ TypeOK' /\ JobInv /\ DurableInv /\ CompleteInv /\ Reads /\ [Next]_vars => Reads'
  BY StepCall, StepRead
<1>4. IInv /\ [Next]_vars => IInv'
  <2> HIDE DEF Reads
  <2> QED
    BY <1>2, <1>3, StepType, StepJob, StepDurable, StepComplete
<1>5. IInv => ReadIsComplete
  <2> SUFFICES ASSUME IInv, NEW p \in Proc, pc[p] = "done", NEW s \in job[p].asked,
                      NEW d \in job[p].lo .. job[p].hi, job[p].base[s][d] > 0
               PROVE  store[s][d] > 0 \/ (<<s, d>> \in frozen /\ d \notin Refetched(job[p]))
    BY DEF ReadIsComplete
  <2>1. s \in Symbol /\ d \in Day
    BY Constants DEF TypeOK, Job
  <2>2. d \in Behind(p, s)
    BY DEF CallInv, Behind, Begun, Remaining, Busy
  <2> QED
    BY <2>1, <2>2 DEF ReadInv
<1> QED
  BY <1>1, <1>4, <1>5, PTL DEF Spec

\* While calls do not overlap, a call that returned has refetched its trailing
\* window: it reads back there nothing older than what the vendor had when it began.
THEOREM ReturnedTailIsFresh ==
    ASSUME \A p, q \in Proc : p = q
    PROVE  Spec => []TailIsFresh
<1> DEFINE Calls == \A p \in Proc : CallInv(p) /\ FreshInv(p) /\ TailInv(p)
           IInv == TypeOK /\ JobInv /\ Calls
<1>1. Init => IInv
  <2>1. ASSUME Init PROVE Calls
    <3>1. \A s \in Symbol, d \in Day : store[s][d] = 0 /\ source[s][d] = 0
      BY <2>1 DEF Init, NoRows
    <3>2. \A p \in Proc : pc[p] = "idle"
      BY <2>1 DEF Init
    <3>3. \A p \in Proc : CallInv(p) /\ TailInv(p)
      BY <3>2 DEF CallInv, TailInv, Busy, Writing
    <3>4. \A s \in Symbol, d \in Day : store[s][d] <= source[s][d]
      BY <3>1
    <3>5. \A p \in Proc : FreshInv(p)
      BY <3>2, <3>4 DEF FreshInv, Writing
    <3> QED
      BY <3>3, <3>5
  <2> QED
    BY <2>1, InitType
<1>2. TypeOK /\ TypeOK' /\ JobInv /\ Calls /\ [Next]_vars => Calls'
  BY StepCall, StepFresh, StepTail
<1>3. IInv /\ [Next]_vars => IInv'
  <2> HIDE DEF Calls
  <2> QED
    BY <1>2, StepType, StepJob
<1>4. IInv => TailIsFresh
  <2> SUFFICES ASSUME IInv, NEW p \in Proc, pc[p] = "done", NEW s \in job[p].asked,
                      NEW d \in TailFor(job[p])
               PROVE  store[s][d] >= job[p].base[s][d]
    BY DEF TailIsFresh
  <2>1. s \in Symbol /\ d \in Day /\ d \in job[p].lo .. job[p].hi
    BY Constants DEF TypeOK, Job, TailFor, RecentTail
  <2>2. d \in Behind(p, s)
    BY <2>1 DEF CallInv, Behind, Begun, Remaining, Busy
  <2>3. job[p].base[s][d] <= store[s][d]
    BY <2>1, <2>2 DEF TailInv
  <2> QED
    BY <2>1, <2>3, Versions
<1> QED
  BY <1>1, <1>3, <1>4, PTL DEF Spec
=============================================================================
