------------------------------ MODULE MCCaching ------------------------------
(***************************************************************************)
(* One run for the safety of seven protocols of the caches, the artifacts  *)
(* and the registries: the interval planner (extended: the theorems of     *)
(* MCCaching_proofs are about its names), the concurrent read-through, the *)
(* coverage ledger, the minute bars, the dimension snapshots, the run      *)
(* registry and the execution prices that evaluations share.  They share   *)
(* no state; Init picks the one a behaviour follows, the others stay in    *)
(* one initial state.                                                      *)
(***************************************************************************)
EXTENDS Intervals, TLC

CONSTANTS
    Gaps, Trailing, Workers, MaxVersion,               \* Pooled
    Proc, Absent, Torn, Writer, LedgerRecords,         \* Ledger
    BarDays, MaxBars, WindowDays, MonthDays, MaxRunDays, RunsInSession, PublishesLate,
    SnapshotDays, RefreshDays,                         \* Snapshot
    Runs, Others, BookSeq, RunRecords, MaxEdits, Quiet,
    PricedFactors, CutoffSafe, LastDate, Minutes, Horizon, HandRows, MaxOdd, MaxRuns, MaxEvents,
    MaxKills                                           \* Exec

(* The value of BookSeq: a book of two factors, f seeded first.            *)
BookOfTwo == <<"f", "g">>
Symmetric == Permutations(PricedFactors)

VARIABLES
    which,
    poolSource, poolStore, poolLedger, poolPc, plan, task, answer, left, failed,
    poolBase, poolKnown,
    file, writes, records, ledgerPc, batch, frame, frameAt, statAt, known,
    clock, open, barSource, barStore, barCovered, barPc, job, todo, gap, win, resp, seen,
    day, source, store, fetchedAt, snapPc, today, payload,
    log, runPc, subject, seeded, retired,
    minute, daily, artifact, reports, scored, evalPc, factor, mode, panel, prices, hand,
    runs, events, kills

Pooled == INSTANCE ConcurrentReadThrough WITH
    source <- poolSource, store <- poolStore, ledger <- poolLedger, pc <- poolPc,
    base <- poolBase, known <- poolKnown

Ledger == INSTANCE CoverageLedger WITH MaxRecords <- LedgerRecords, pc <- ledgerPc

Bars == INSTANCE IntradayCache WITH
    LastDay <- BarDays,
    source <- barSource, store <- barStore, covered <- barCovered, pc <- barPc

Snapshot == INSTANCE SnapshotCache WITH LastDay <- SnapshotDays, pc <- snapPc

Registry == INSTANCE EvalRegistry WITH MaxRecords <- RunRecords, pc <- runPc

Exec == INSTANCE ExecBasis WITH
    Factors <- PricedFactors, log <- scored, pc <- evalPc, frame <- prices

(* What the modules assume of their constants.                             *)
ASSUME InstancesAssumption ==
    /\ Pooled!ConcurrentAssumption /\ Ledger!LedgerAssumption /\ Bars!IntradayAssumption
    /\ Snapshot!SnapshotAssumption /\ Registry!EvalRegistryAssumption
    /\ Exec!ExecAssumption

poolVars == <<poolSource, poolStore, poolLedger, poolPc, plan, task, answer, left,
              failed, poolBase, poolKnown>>
ledgerVars == <<file, writes, records, ledgerPc, batch, frame, frameAt, statAt, known>>
barVars == <<clock, open, barSource, barStore, barCovered, barPc, job, todo, gap, win,
             resp, seen>>
snapVars == <<day, source, store, fetchedAt, snapPc, today, payload>>
runVars == <<log, runPc, subject, seeded, retired>>
execVars == <<minute, daily, artifact, reports, scored, evalPc, factor, mode, panel, prices,
              hand, runs, events, kills>>
mcVars == <<which, vars, poolVars, ledgerVars, barVars, snapVars, runVars, execVars>>

(* The planner at rest: no covered interval, a request of one day.         *)
Resting ==
    /\ covered = {} /\ lo = 0 /\ hi = 0 /\ tail = None /\ pc = "merge"
    /\ input = {} /\ work = {} /\ merged = {} /\ last = None /\ cursor = 0 /\ gaps = {}

MCInit ==
    /\ which \in {"planner", "pool", "ledger", "bars", "snapshot", "runs", "exec"}
    /\ IF which = "planner" THEN Init ELSE Resting
    /\ Pooled!Init /\ Ledger!Init /\ Bars!Init /\ Snapshot!Init /\ Registry!Init
    /\ which # "runs" => \A r \in Runs : subject[r] = BookSeq[1]
    /\ which # "exec" => /\ daily = [d \in Exec!Dates |-> 1]
                        /\ minute = [d \in Exec!Dates |-> Exec!Regular]
    /\ Exec!Init

MCNext ==
    \/ which = "planner" /\ Next
       /\ UNCHANGED <<which, poolVars, ledgerVars, barVars, snapVars, runVars, execVars>>
    \/ which = "pool" /\ Pooled!Next
       /\ UNCHANGED <<which, vars, ledgerVars, barVars, snapVars, runVars, execVars>>
    \/ which = "ledger" /\ Ledger!Next
       /\ UNCHANGED <<which, vars, poolVars, barVars, snapVars, runVars, execVars>>
    \/ which = "bars" /\ Bars!Next
       /\ UNCHANGED <<which, vars, poolVars, ledgerVars, snapVars, runVars, execVars>>
    \/ which = "snapshot" /\ Snapshot!Next
       /\ UNCHANGED <<which, vars, poolVars, ledgerVars, barVars, runVars, execVars>>
    \/ which = "runs" /\ Registry!Next
       /\ UNCHANGED <<which, vars, poolVars, ledgerVars, barVars, snapVars, execVars>>
    \/ which = "exec" /\ Exec!Next
       /\ UNCHANGED <<which, vars, poolVars, ledgerVars, barVars, snapVars, runVars>>

MCSpec == MCInit /\ [][MCNext]_mcVars

-----------------------------------------------------------------------------
(* ConcurrentReadThrough: when some gaps fail, every answered gap is on    *)
(* disk and claimed, the failed ones are fetched again, the first failure  *)
(* in plan order is the one raised, and a call that returns is complete.   *)
FailuresAreIsolated == Pooled!FailuresAreIsolated

(* CoverageLedger: a lookup sees every row that was on disk when it began, *)
(* and never a partial file; a recorded fetch attempt stays recorded.      *)
LookupIsCurrent ==
    Ledger!AppendOnly /\ [][(Ledger!LookupIsCurrent /\ Ledger!NeverTorn)']_mcVars

(* IntradayCache: every day of a claim was asked for, the bars of the      *)
(* answers are on disk, no re-fetch drops one, and a covered day, or what  *)
(* a read returns, has all its bars.                                       *)
ClaimsAreEarned ==
    /\ Bars!ClaimsAreEarned /\ Bars!BarsAreKept
    /\ [][(Bars!CoveredIsComplete /\ Bars!ReadIsComplete)']_mcVars

(* SnapshotCache: what is returned misses nothing the vendor has published *)
(* for more than refresh_dimension_days.                                   *)
BoundedStaleness == Snapshot!BoundedStaleness

(* SnapshotCache: a day that is joined to another industry than a direct   *)
(* fetch says is joined to one that the fetch shows to have ended by then. *)
OnlyEndedOnesLinger == Snapshot!OnlyEndedOnesLinger

(* EvalRegistry: no run takes a factor out of the book, and none evaluates *)
(* while the registry disagrees with the declared book.                    *)
BookIsCurated == Registry!BookIsCurated

(* ExecBasis: evaluations that share the execution prices agree on every   *)
(* return, explain every pair they lose and keep each other's reports.     *)
EvaluationsAgree == Exec!EvaluationsAgree
=============================================================================
