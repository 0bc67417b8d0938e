------------------------------ MODULE MCWaiting ------------------------------
(***************************************************************************)
(* One run for the three protocols in which callers wait for each other:   *)
(* the rate limiter (extended: the theorems of MCWaiting_proofs are        *)
(* about its names), the lock file of the parquet stores, and the pool of  *)
(* the concurrent read-through.  They share no state; Init picks the one a *)
(* behaviour follows, the others stay in their initial states.             *)
(***************************************************************************)
EXTENDS RateLimiter

CONSTANTS
    Proc, Key, Absent, Torn, MaxUpserts, MaxCrashes,   \* the parquet store
    SlowHolder, FactorStore, AloneAfterCrash,
    Gaps, Trailing, Workers, MaxVersion                \* the concurrent read-through

VARIABLES
    which, file, fileLock, holds, storePc, new, seq, seen, upserts, crashes, acked,
    source, store, ledger, poolPc, plan, task, answer, toWrite, failed, base, known

Store == INSTANCE LockedStore WITH lock <- fileLock, pc <- storePc

Pooled == INSTANCE ConcurrentReadThrough WITH pc <- poolPc, left <- toWrite

(* What the instances assume of their constants.                           *)
ASSUME InstancesAssumption == Store!StoreAssumption /\ Pooled!ConcurrentAssumption

storeVars == <<file, fileLock, holds, storePc, new, seq, seen, upserts, crashes, acked>>
poolVars == <<source, store, ledger, poolPc, plan, task, answer, toWrite, failed, base, known>>
mcVars == <<which, vars, storeVars, poolVars>>

MCInit == which \in {"limiter", "store", "pool"} /\ Init /\ Store!Init /\ Pooled!Init

MCNext ==
    \/ which = "limiter" /\ Next /\ UNCHANGED <<which, storeVars, poolVars>>
    \/ which = "store" /\ Store!Next /\ UNCHANGED <<which, vars, poolVars>>
    \/ which = "pool" /\ Pooled!Next /\ UNCHANGED <<which, vars, storeVars>>

MCSafety == MCInit /\ [][MCNext]_mcVars

(* The three FairSpecs, each asked of the behaviours that follow it.       *)
MCSpec ==
    /\ MCSafety
    /\ WF_vars(which = "limiter" /\ Tick)
    /\ \A t \in Thread : WF_vars(which = "limiter" /\ Work(t))
    /\ \A p \in Proc : WF_storeVars(which = "store" /\ Store!Step(p))
    /\ \A k \in Pooled!Gap : WF_poolVars(which = "pool" /\ Pooled!Pool(k))
    /\ WF_poolVars(which = "pool" /\ (Pooled!PoolDone \/ Pooled!Write \/ Pooled!Return))

-----------------------------------------------------------------------------
(* RateLimiter: every worker gets through its requests, however many of    *)
(* its attempts fail and however late it wakes; ConcurrentReadThrough: so  *)
(* the call they work for ends, returned or raised.                        *)
EventuallyThrough ==
    /\ which = "limiter" => EventuallyServed
    /\ which = "pool" => Pooled!EventuallyEnds

(* LockedStore: the file implements the atomic upsert of UpsertStore, so   *)
(* the rows of an upsert that returned are in it, at that or a later       *)
(* version, whoever was killed where; and no reader meets a partial file.  *)
UpsertIsAtomic ==
    Store!UpsertIsAtomic /\ [][(Store!RowsAreKept /\ Store!FileIsCoherent)']_mcVars

(* LockedStore: the lock file of a killed process wedges no later upsert.  *)
NeverWedged == which # "store" \/ Store!NeverWedged
=============================================================================
