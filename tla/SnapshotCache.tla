---------------------------- MODULE SnapshotCache ----------------------------
(***************************************************************************)
(* The dimension snapshots of data/cache/tushare_cache.py (namechange,     *)
(* index_member_all, stock_basic): no date range is planned, a key is      *)
(* fetched anew when its last fetch is RefreshDays old.  Modelled for one  *)
(* symbol's industry memberships, an interval per row.                     *)
(***************************************************************************)
EXTENDS Integers

CONSTANTS LastDay,      \* bound: days 1..LastDay
          RefreshDays   \* refresh_dimension_days; 0 refreshes only by force

SnapshotAssumption == LastDay \in Nat /\ RefreshDays \in Nat

Open == 0               \* the out date of a membership that still runs
Never == 0              \* no fetch is recorded

VARIABLES day,
          source,       \* what the vendor serves: [in, out, pub]
          store,        \* the parquet rows: [in, out]
          fetchedAt,    \* the latest fetch in the ledger
          pc, today,    \* the call in progress and the day its run has pinned
          payload       \* the rows its fetch returned

vars == <<day, source, store, fetchedAt, pc, today, payload>>

Days == 1..LastDay
Rows == [in : Days, out : {Open} \cup Days]

Served == {[in |-> r.in, out |-> r.out] : r \in source}

(* Mutant: one day late.                                                   *)
StaleLate(d) == fetchedAt = Never \/ (RefreshDays > 0 /\ d - fetchedAt > RefreshDays)

(* _snapshot_stale.                                                        *)
Stale(d) == fetchedAt = Never \/ (RefreshDays > 0 /\ d - fetchedAt >= RefreshDays)

(* Mutant: a key of the out date alone, the latest row of each kept.       *)
NarrowKey(rows) ==
    {s \in store : \A r \in rows : r.out # s.out}
        \cup {r \in rows : \A o \in rows : o.out = r.out => o.in <= r.in}

(* upsert_symbol under a key that names every column: rows are added.      *)
Upserted(rows) == store \cup rows

(* asof_industry: the membership that covers d, the latest on an overlap.  *)
Join(rows, d) ==
    LET covering == {r \in rows : r.in <= d /\ (r.out = Open \/ d < r.out)}
    IN  {r.in : r \in {c \in covering : \A o \in covering : o.in <= c.in}}

-----------------------------------------------------------------------------
Init == /\ day = 1 /\ source = {} /\ store = {} /\ fetchedAt = Never
        /\ pc = "idle" /\ today = 1 /\ payload = {}

(* A run pins its day and asks for the symbol.                             *)
Begin(forced) ==
    /\ pc = "idle"
    /\ today' = day
    /\ pc' = IF forced \/ Stale(day) THEN "fetching" ELSE "answering"
    /\ UNCHANGED <<day, source, store, fetchedAt, payload>>

Fetch ==
    /\ pc = "fetching"
    /\ payload' = Served
    /\ pc' = IF Served = {} THEN "recording" ELSE "upserting"
    /\ UNCHANGED <<day, source, store, fetchedAt, today>>

Upsert ==
    /\ pc = "upserting"
    /\ store' = Upserted(payload)
    /\ pc' = "recording"
    /\ UNCHANGED <<day, source, fetchedAt, today, payload>>

(* The ledger row carries the clock of this moment, ok and empty alike.    *)
Record ==
    /\ pc = "recording"
    /\ fetchedAt' = day
    /\ pc' = "refreshed"
    /\ UNCHANGED <<day, source, store, today, payload>>

(* The call returns the stored rows, or the process is killed.             *)
End == /\ pc /= "idle"
       /\ pc' = "idle" /\ payload' = {}
       /\ UNCHANGED <<day, source, store, fetchedAt, today>>

(* Midnight: a call may run across one.                                    *)
Midnight ==
    /\ day < LastDay
    /\ pc = "idle" \/ day = today
    /\ day' = day + 1
    /\ UNCHANGED <<source, store, fetchedAt, pc, today, payload>>

(* The vendor publishes: an open membership ends, a new one starts.        *)
Reclassify ==
    /\ \E ended \in SUBSET {r \in source : r.out = Open /\ r.in < day}, starts \in BOOLEAN :
         /\ ended /= {} \/ starts
         /\ starts => \A r \in source : r.in < day
         /\ source' = (source \ ended)
                \cup {[r EXCEPT !.out = day, !.pub = day] : r \in ended}
                \cup (IF starts THEN {[in |-> day, out |-> Open, pub |-> day]} ELSE {})
    /\ UNCHANGED <<day, store, fetchedAt, pc, today, payload>>

Next == \/ \E forced \in BOOLEAN : Begin(forced)
        \/ Fetch \/ Upsert \/ Record \/ End \/ Midnight \/ Reclassify

Spec == Init /\ [][Next]_vars

-----------------------------------------------------------------------------
(* Rows, days and program counters; nothing is dated after today.          *)
TypeOK ==
    /\ day \in Days /\ today \in 1..day /\ fetchedAt \in 0..day
    /\ source \subseteq [in : 1..day, out : {Open} \cup 1..day, pub : 1..day]
    /\ store \subseteq Rows /\ payload \subseteq Rows
    /\ pc \in {"idle", "fetching", "upserting", "recording", "refreshed", "answering"}

(* What is returned misses nothing the vendor has published for more than  *)
(* RefreshDays, wherever earlier calls were killed, whether they fetched   *)
(* an empty answer, and although a fetch across midnight is recorded a day *)
(* late.                                                                   *)
BoundedStaleness ==
    pc \in {"answering", "refreshed"} /\ RefreshDays > 0 =>
        \A r \in source : r.pub < today - RefreshDays =>
            [in |-> r.in, out |-> r.out] \in store

(* The feed's promise: the intervals read back after a refresh are those   *)
(* of a direct fetch, so every day is joined to the same industry.         *)
JoinIsDirect ==
    pc = "refreshed" => \A d \in Days : Join(store, d) = Join(payload, d)

(* How far that promise fails: rows are only added, so a row read while    *)
(* its membership was open stays open for ever; a day that is joined to    *)
(* another industry than the fetch says is joined to one whose membership  *)
(* the same fetch shows to have ended by then.                             *)
OnlyEndedOnesLinger ==
    pc = "refreshed" =>
        \A d \in Days : Join(store, d) # Join(payload, d) =>
            \E r \in payload : r.out \in 1..d /\ Join(store, d) = {r.in}
=============================================================================
