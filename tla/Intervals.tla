------------------------------- MODULE Intervals -------------------------------
(***************************************************************************)
(* The interval planner of data/cache/intervals.py as _gaps_for of         *)
(* tushare_cache.py calls it: merge the covered intervals, subtract them   *)
(* from the request, merge the gaps with the trailing window.              *)
(*                                                                         *)
(* A list that the code sorts and walks is a set from which the least      *)
(* interval is taken, one loop iteration per step.  Days are numbers; the  *)
(* one-day adjacency of the code is + 1.                                   *)
(***************************************************************************)
EXTENDS Integers

CONSTANTS
    LastDay,       \* bound: days are 0 .. LastDay
    MaxIntervals,  \* bound: length of the list of covered intervals
    None           \* no interval

ASSUME IntervalsAssumption ==
    /\ LastDay \in Nat /\ MaxIntervals \in Nat
    /\ None \notin Int \X Int

VARIABLES
    pc,      \* "merge", "subtract", "mergeTail" or "done"
    lo, hi,  \* the requested window, possibly empty
    covered, \* the intervals the ledger returned, inverted ones included
    tail,    \* the trailing window to refetch, or None
    input,   \* the argument of the current merge_intervals call
    work,    \* what the current loop has not visited yet
    merged,  \* merge_intervals: the result so far ...
    last,    \* ... and its last element
    cursor,  \* subtract_intervals: first day not decided yet
    gaps     \* subtract_intervals: the result so far

vars == <<pc, lo, hi, covered, tail, input, work, merged, last, cursor, gaps>>

Day      == 0 .. LastDay
Interval == Day \X Day

IsLeast(i, S) ==
    i \in S /\ \A j \in S : i[1] < j[1] \/ (i[1] = j[1] /\ i[2] <= j[2])

\* Some interval of S contains the day d.
In(d, S) == \E i \in S : i[1] <= d /\ d <= i[2]

\* The intervals merge_intervals keeps.
Clean(S) == {i \in S : i[1] <= i[2]}

\* _tail_for: the window ends with the request and starts inside it.
Tails(a, b) == {None} \cup {<<IF t < a THEN a ELSE t, b>> : t \in 0 .. b}

Init ==
    /\ \E list \in [1 .. MaxIntervals -> Interval] :
         covered = {list[i] : i \in 1 .. MaxIntervals}
    /\ lo \in Day /\ hi \in Day
    /\ tail \in Tails(lo, hi)
    /\ pc = "merge"
    /\ input = covered /\ work = Clean(covered)
    /\ merged = {} /\ last = None
    /\ cursor = lo /\ gaps = {}
-----------------------------------------------------------------------------
(***************************************************************************)
(* merge_intervals.                                                        *)
(***************************************************************************)
\* Mutants: adjacent intervals stay apart; the later end wins, not the larger.
TouchesOverlapOnly(i) == last # None /\ i[1] <= last[2]
Touches(i)  == last # None /\ i[1] <= last[2] + 1
Extended(i) == <<last[1], IF i[2] > last[2] THEN i[2] ELSE last[2]>>

MergeStep(i) ==
    /\ pc \in {"merge", "mergeTail"}
    /\ IsLeast(i, work)
    /\ work' = work \ {i}
    /\ IF Touches(i)
         THEN last' = Extended(i) /\ merged' = (merged \ {last}) \cup {Extended(i)}
         ELSE last' = i /\ merged' = merged \cup {i}
    /\ UNCHANGED <<pc, lo, hi, covered, tail, input, cursor, gaps>>

\* The covered intervals are merged: subtract them from the request.
StartSubtract ==
    /\ pc = "merge" /\ work = {}
    /\ pc' = "subtract"
    /\ work' = merged
    /\ UNCHANGED <<lo, hi, covered, tail, input, merged, last, cursor, gaps>>
-----------------------------------------------------------------------------
(***************************************************************************)
(* subtract_intervals.                                                     *)
(***************************************************************************)
\* Mutants: the last covered day is left in; the day after it is left out.
NextUndecidedOffByOne(i) == IF i[2] > cursor THEN i[2] ELSE cursor
NextUndecided(i) == IF i[2] + 1 > cursor THEN i[2] + 1 ELSE cursor

SubtractStep(i) ==
    /\ pc = "subtract"
    /\ IsLeast(i, work)
    /\ cursor <= hi /\ i[1] <= hi
    /\ gaps' = IF i[2] >= cursor /\ i[1] > cursor THEN gaps \cup {<<cursor, i[1] - 1>>} ELSE gaps
    /\ cursor' = NextUndecided(i)
    /\ work' = work \ {i}
    /\ UNCHANGED <<pc, lo, hi, covered, tail, input, merged, last>>

\* The loop ends or breaks; what is left of the request is the last gap.
RestOfRequest == IF cursor <= hi THEN gaps \cup {<<cursor, hi>>} ELSE gaps

SubtractEnd ==
    /\ pc = "subtract"
    /\ cursor > hi \/ \A i \in work : i[1] > hi
    /\ gaps' = RestOfRequest
    /\ IF tail = None
         THEN pc' = "done" /\ UNCHANGED <<input, work, merged, last>>
         ELSE /\ pc' = "mergeTail"
              /\ input' = RestOfRequest \cup {tail}
              /\ work' = Clean(input')
              /\ merged' = {} /\ last' = None
    /\ UNCHANGED <<lo, hi, covered, tail, cursor>>

Finish ==
    /\ pc = "mergeTail" /\ work = {}
    /\ pc' = "done"
    /\ gaps' = merged
    /\ UNCHANGED <<lo, hi, covered, tail, input, work, merged, last, cursor>>

Next ==
    \/ \E i \in work : MergeStep(i) \/ SubtractStep(i)
    \/ StartSubtract
    \/ SubtractEnd
    \/ Finish

Spec == Init /\ [][Next]_vars
-----------------------------------------------------------------------------
TypeOK ==
    /\ pc \in {"merge", "subtract", "mergeTail", "done"}
    /\ lo \in Day /\ hi \in Day /\ cursor \in 0 .. LastDay + 1
    /\ covered \subseteq Interval /\ input \subseteq Interval
    /\ tail \in Interval \cup {None} /\ last \in Interval \cup {None}
    /\ work \subseteq Interval /\ merged \subseteq Interval /\ gaps \subseteq Interval

\* Non-empty intervals with at least one day between any two of them.
Canonical(S) ==
    /\ \A i \in S : i[1] <= i[2]
    /\ \A i, j \in S : i = j \/ i[2] + 1 < j[1] \/ j[2] + 1 < i[1]

\* The planner asks for exactly the requested days no covered interval contains,
\* and for the trailing window: no day is skipped, no other day is asked for.
GapsAreExact ==
    pc = "done" =>
      \A d \in Day : In(d, gaps) <=> \/ lo <= d /\ d <= hi /\ ~In(d, covered)
                                     \/ tail # None /\ In(d, {tail})

\* Every gap is a maximal run of days, so no day is fetched twice and a run of
\* missing days costs one call.
GapsAreMaximal == pc = "done" => Canonical(gaps)

=============================================================================
