------------------------------ MODULE PointInTime ------------------------------
(***************************************************************************)
(* What a research run may know on a past day: the as-of joins for index   *)
(* membership, financial reports and industry, and the walk-forward        *)
(* training window of the IC weights.  A run replays every day over all    *)
(* the records published so far; it is honest when a later run decides     *)
(* each past day as the run of that day did.                               *)
(*                                                                         *)
(* Each behaviour follows one feed, one new trading day per step.          *)
(***************************************************************************)
EXTENDS Integers, FiniteSets, FiniteSetsExt

CONSTANTS Symbols,
          LastDay,      \* bound: trading days 1..LastDay
          Horizon,      \* trading days of a forward return
          Window,       \* training days of the rolling mode; LastDay: expanding
          MinPeriods,   \* valid ICs below which the weights fall back
          Suspensions,  \* may a listed symbol lack a row and come back
          Feeds         \* the feeds of this instance

ASSUME PointInTimeAssumption ==
    /\ {LastDay, Horizon, Window, MinPeriods} \subseteq Nat \ {0}
    /\ Suspensions \in BOOLEAN
    /\ Feeds \subseteq {"snapshots", "reports", "industry", "bars"}

Days == 1..LastDay
Open == 0               \* the out date of a membership that still runs

VARIABLES feed, today,
          snapshots,    \* index constituents: [date, members]
          reports,      \* financial reports of one symbol: [ann, end]
          industry,     \* industry memberships of one symbol: [in, out]
          bars          \* the days each symbol has a row on

vars == <<feed, today, snapshots, reports, industry, bars>>

-----------------------------------------------------------------------------
(* The as-of joins.  Each is the set of the records it picks: one or none. *)

(* PITIndexUniverse.members: the latest snapshot on or before d, nothing   *)
(* before the first one.                                                   *)
Members(d) ==
    {s \in snapshots : /\ s.date <= d
                       /\ \A o \in snapshots : o.date <= d => o.date <= s.date}

Fresher(o, r) == o.ann > r.ann \/ (o.ann = r.ann /\ o.end > r.end)

(* Mutant: a report is known from the end of its period.                   *)
AsofPeriodEnd(d) ==
    {r \in reports : /\ r.end <= d
                     /\ \A o \in reports : o.end <= d => ~Fresher(o, r)}

(* asof_financials: the latest disclosure on or before d; of several on    *)
(* one day, that of the latest period.                                     *)
AsofFinancials(d) ==
    {r \in reports : /\ r.ann <= d
                     /\ \A o \in reports : o.ann <= d => ~Fresher(o, r)}

Covers(i, d) == i.in <= d /\ (i.out = Open \/ d < i.out)

(* asof_industry: the membership that covers d, the latest on an overlap.  *)
AsofIndustry(d) ==
    {i.in : i \in {m \in industry :
                     /\ Covers(m, d)
                     /\ \A o \in industry : Covers(o, d) => o.in <= m.in}}

-----------------------------------------------------------------------------
(* The IC weights.  An IC is known by the pairs it correlates, a pair by   *)
(* its symbol, its factor day and the day its return realises.             *)

(* forward_returns: the Horizon-th later row of the symbol itself.         *)
Realises(s, t, u) ==
    /\ t \in bars[s] /\ u \in bars[s] /\ t < u
    /\ Cardinality({x \in bars[s] : t < x /\ x <= u}) = Horizon

(* compute_ic over one day's cross-section.                                *)
IC(t) == {p \in Symbols \X {t} \X (1..today) : Realises(p[1], p[2], p[3])}

(* The calendar of the panel: the days any symbol has a row on.            *)
Calendar == UNION {bars[s] : s \in Symbols}

(* Mutant: the horizon is counted one day short.                           *)
RealizedEarly(d) ==
    {t \in Calendar :
        Cardinality({x \in Calendar : t < x /\ x <= d}) >= Horizon - 1}

(* _realized_window: the calendar days at least Horizon positions before   *)
(* d, of which ...                                                         *)
Realized(d) ==
    {t \in Calendar :
        Cardinality({x \in Calendar : t < x /\ x <= d}) >= Horizon}

(* ... the rolling mode keeps the Window latest, valid or not.             *)
TrainingWindow(d) ==
    {t \in Realized(d) :
        Cardinality({x \in Realized(d) : x > t}) < Window}

(* weights_for: the ICs averaged, none for the equal-weight fallback.      *)
WeightsFor(d) ==
    LET valid == {t \in TrainingWindow(d) : Cardinality(IC(t)) >= 2}
    IN  IF Cardinality(valid) < MinPeriods THEN {}
        ELSE UNION {IC(t) : t \in valid}

-----------------------------------------------------------------------------
Init == /\ feed \in Feeds
        /\ today = 1
        /\ snapshots = {} /\ reports = {} /\ industry = {}
        /\ bars = [s \in Symbols |-> {}]

(* A new trading day of one feed.                                          *)
Passes(f) == feed = f /\ today < LastDay /\ today' = today + 1

(* The index publishes its constituents, or does not.                      *)
PublishSnapshot ==
    /\ Passes("snapshots")
    /\ \E members \in SUBSET Symbols :
         snapshots' = IF members = {} THEN snapshots
                      ELSE snapshots \cup {[date |-> today', members |-> members]}
    /\ UNCHANGED <<feed, reports, industry, bars>>

(* The company discloses reports of up to two periods that have ended.     *)
Disclose ==
    /\ Passes("reports")
    /\ \E ends \in SUBSET (1..today') :
         /\ Cardinality(ends) <= 2
         /\ reports' = reports \cup {[ann |-> today', end |-> e] : e \in ends}
    /\ UNCHANGED <<feed, snapshots, industry, bars>>

(* The symbol is classified anew: some open memberships end, one may start.*)
Reclassify ==
    /\ Passes("industry")
    /\ \E ended \in SUBSET {i \in industry : i.out = Open}, starts \in BOOLEAN :
         industry' = (industry \ ended)
                       \cup {[i EXCEPT !.out = today'] : i \in ended}
                       \cup (IF starts THEN {[in |-> today', out |-> Open]} ELSE {})
    /\ UNCHANGED <<feed, snapshots, reports, bars>>

(* Trading: a symbol has a row from its listing on, without a gap unless   *)
(* the instance has suspensions.                                           *)
MayTrade(s) == Suspensions \/ bars[s] = {} \/ today \in bars[s]

Trade ==
    /\ Passes("bars")
    /\ \E traded \in SUBSET {s \in Symbols : MayTrade(s)} :
         bars' = [s \in Symbols |-> IF s \in traded THEN bars[s] \cup {today'}
                                    ELSE bars[s]]
    /\ UNCHANGED <<feed, snapshots, reports, industry>>

Next == PublishSnapshot \/ Disclose \/ Reclassify \/ Trade

Spec == Init /\ [][Next]_vars

-----------------------------------------------------------------------------
(* Every record carries dates of the past; no record is dated after today. *)
TypeOK ==
    /\ feed \in Feeds /\ today \in Days
    /\ snapshots \subseteq [date : 1..today, members : SUBSET Symbols]
    /\ reports \subseteq [ann : 1..today, end : 1..today]
    /\ industry \subseteq [in : 1..today, out : {Open} \cup 1..today]
    /\ bars \in [Symbols -> SUBSET (1..today)]

(* Replaying a past day gives what the run of that day gave: no snapshot,  *)
(* disclosure or reclassification of a later day, in whatever order they   *)
(* come, changes which member list, report or industry a day is joined to. *)
RecordsKeepThePast ==
    [][\A d \in 1..today : /\ Members(d)' = Members(d)
                           /\ AsofFinancials(d)' = AsofFinancials(d)
                           /\ AsofIndustry(d)' = AsofIndustry(d)]_vars

(* The same of the weights: the later bars that a replay has change        *)
(* neither the training pairs of a past day nor whether it fell back.      *)
WeightsKeepThePast ==
    [][\A d \in 1..today : WeightsFor(d)' = WeightsFor(d)]_vars

(* The contract of RollingICWeightAlpha: the weights of a day rest on      *)
(* returns that are realised by that day.                                  *)
OnlyRealized == \A d \in 1..today : \A p \in WeightsFor(d) : p[3] <= d
=============================================================================
