------------------------------ MODULE MCWarming ------------------------------
(***************************************************************************)
(* One run for the liveness of the two levels of cache warming: the        *)
(* nightly read-through of one symbol (NightlySpec of TushareCache) and    *)
(* the jobs over many symbols (RerunSpec of DataWarm).  They share no      *)
(* state; Init picks the one a behaviour follows, the other stays in its   *)
(* initial state.                                                          *)
(***************************************************************************)
EXTENDS TushareCache

CONSTANTS
    Symbols, Endpoints, ChunkSize, MaxFailed, Poison, MaxFaults, MaxKills      \* Jobs

\* A .cfg cannot write down a function, or a pair.
OneNotReady == [k \in Program |-> 1]
MCPoison == {<<2, 1>>}

VARIABLES which, covered, mode, jobPc, batch, ep, sym, failed, failedBatches, faults, kills

Jobs == INSTANCE DataWarm WITH pc <- jobPc

(* What the jobs assume of their constants.                                *)
ASSUME InstanceAssumption == Jobs!WarmAssumption

jobVars == <<covered, mode, jobPc, batch, ep, sym, failed, failedBatches, faults, kills>>
mcVars  == <<which, vars, jobVars>>

MCInit == which \in {"nightly", "jobs"} /\ Init /\ Jobs!Init

MCNext ==
    \/ which = "nightly" /\ NightlyNext /\ UNCHANGED <<which, jobVars>>
    \/ which = "jobs" /\ Jobs!Next /\ UNCHANGED <<which, vars>>

MCSafety == MCInit /\ [][MCNext]_mcVars

(* The fairness of RerunSpec and of NightlySpec, each asked of the         *)
(* behaviours that follow it.                                              *)
JobFairness ==
    /\ WF_jobVars(which = "jobs" /\ Jobs!Warm)
    /\ SF_jobVars(which = "jobs" /\ Jobs!Start("backfill"))

NightlyFairness ==
    \A p \in Proc :
      /\ SF_vars(which = "nightly" /\ Nightly(p))
      /\ \A s \in Symbol : SF_vars(which = "nightly" /\ Plan(p, s))
      /\ SF_vars(which = "nightly" /\ \E lo, hi \in Day : Fetch(p, lo, hi))
      /\ SF_vars(which = "nightly" /\ Upsert(p))
      /\ SF_vars(which = "nightly" /\ RecordLoad(p))
      /\ SF_vars(which = "nightly" /\ RecordReplace(p))
      /\ SF_vars(which = "nightly" /\ RecordStat(p))
      /\ SF_vars(which = "nightly" /\ SymbolDone(p))

MCSpec == MCSafety /\ NightlyFairness /\ JobFairness

-----------------------------------------------------------------------------
(* TushareCache: a row the vendor publishes inside the lookback is on disk *)
(* in the end, whatever fails or is killed in between, and the trailing    *)
(* window ends up at the vendor's last version.                            *)
NightlyCatchesUp == which = "jobs" \/ (EventuallyStored /\ EventuallyCurrent)

(* DataWarm: a backfill that ended hides no symbol it left uncovered.      *)
NoSilentHole == Jobs!NoSilentHole

(* DataWarm: the batches without a poisoned pair are warmed in the end.    *)
HealthyBatchesAreWarmed == which = "nightly" \/ Jobs!HealthyBatchesAreWarmed
=============================================================================
