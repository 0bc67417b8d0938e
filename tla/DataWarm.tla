-------------------------------- MODULE DataWarm --------------------------------
(***************************************************************************)
(* The two cache-warming jobs.  The nightly data-update warms every symbol *)
(* endpoint by endpoint and stops at the first failure; the manual         *)
(* data-backfill cuts the symbols into batches and goes on after a batch   *)
(* that fails.  Both may be killed anywhere and are run again.  What one   *)
(* read-through of a symbol does is in TushareCache.tla; here it covers    *)
(* one (symbol, endpoint) pair or raises.                                  *)
(***************************************************************************)
EXTENDS Naturals, Sequences, FiniteSets

CONSTANTS
    Symbols,     \* bound: number of symbols, in the order they are warmed
    Endpoints,   \* bound: number of endpoints, in the order of update_endpoints
    ChunkSize,   \* backfill.chunk_size
    MaxFailed,   \* _MAX_FAILED_SYMBOLS
    Poison,      \* pairs whose fetch fails on every attempt
    MaxFaults,   \* bound: other fetches that fail
    MaxKills     \* bound: killed runs

SymbolNo   == 1 .. Symbols
EndpointNo == 1 .. Endpoints
Pair       == SymbolNo \X EndpointNo

WarmAssumption ==
    /\ Symbols \in Nat \ {0} /\ Endpoints \in Nat \ {0}
    /\ ChunkSize \in Nat \ {0} /\ MaxFailed \in Nat /\ MaxFaults \in Nat
    /\ MaxKills \in Nat
    /\ Poison \subseteq Pair

VARIABLES
    covered,   \* the pairs the ledger claims
    mode,      \* "backfill" or "nightly"
    pc,        \* "idle", "warm", "ok" or "error" (the exit of the last run)
    batch,     \* index of the batch being warmed
    ep,        \* endpoint being warmed
    sym,       \* the next symbol of the batch for this endpoint
    failed,    \* failed_symbols
    failedBatches,
    faults, kills   \* bound counters

runVars == <<mode, pc, batch, ep, sym, failed, failedBatches>>
vars == <<covered, runVars, faults, kills>>

\* _chunk: contiguous batches of at most ChunkSize; the nightly run has one.
Batches == (Symbols + ChunkSize - 1) \div ChunkSize
Lesser(a, b) == IF a <= b THEN a ELSE b
FirstOf(b) == (b - 1) * ChunkSize + 1
LastOf(b)  == IF mode = "nightly" THEN Symbols ELSE Lesser(b * ChunkSize, Symbols)
IsLast(b)  == mode = "nightly" \/ b = Batches

TypeOK ==
    /\ covered \subseteq Pair
    /\ mode \in {"backfill", "nightly"} /\ pc \in {"idle", "warm", "ok", "error"}
    /\ batch \in 1 .. Batches /\ ep \in EndpointNo /\ sym \in 1 .. Symbols + 1
    /\ failed \in Seq(SymbolNo) /\ Len(failed) <= MaxFailed
    /\ failedBatches \in 0 .. Batches /\ faults \in 0 .. MaxFaults
    /\ kills \in 0 .. MaxKills

Init ==
    /\ covered = {} /\ mode = "backfill" /\ pc = "idle"
    /\ batch = 1 /\ ep = 1 /\ sym = 1
    /\ failed = <<>> /\ failedBatches = 0 /\ faults = 0 /\ kills = 0

Start(m) ==
    /\ pc # "warm"
    /\ mode' = m /\ pc' = "warm"
    /\ batch' = 1 /\ ep' = 1 /\ sym' = 1
    /\ failed' = <<>> /\ failedBatches' = 0
    /\ UNCHANGED <<covered, faults, kills>>
-----------------------------------------------------------------------------
(***************************************************************************)
(* update_endpoints on one batch.                                          *)
(***************************************************************************)
\* A covered pair costs no fetch; an uncovered one is fetched and recorded.
WarmPair ==
    /\ pc = "warm" /\ sym <= LastOf(batch)
    /\ <<sym, ep>> \in covered \/ <<sym, ep>> \notin Poison
    /\ covered' = covered \cup {<<sym, ep>>}
    /\ sym' = sym + 1
    /\ UNCHANGED <<mode, pc, batch, ep, failed, failedBatches, faults, kills>>

NextEndpoint ==
    /\ pc = "warm" /\ sym > LastOf(batch) /\ ep < Endpoints
    /\ ep' = ep + 1 /\ sym' = FirstOf(batch)
    /\ UNCHANGED <<covered, mode, pc, batch, failed, failedBatches, faults, kills>>

BatchDone == pc = "warm" /\ sym > LastOf(batch) /\ ep = Endpoints

Raises ==
    /\ pc = "warm" /\ sym <= LastOf(batch) /\ <<sym, ep>> \notin covered
    /\ \/ <<sym, ep>> \in Poison /\ UNCHANGED faults
       \/ faults < MaxFaults /\ faults' = faults + 1
-----------------------------------------------------------------------------
(***************************************************************************)
(* The jobs.                                                               *)
(***************************************************************************)
\* The loop over the batches goes on, or the run is over.
NextBatch ==
    IF IsLast(batch)
      THEN pc' = "ok" /\ UNCHANGED <<batch, ep, sym>>
      ELSE /\ batch' = batch + 1 /\ ep' = 1 /\ sym' = FirstOf(batch + 1)
           /\ UNCHANGED pc

EndBatch ==
    /\ BatchDone
    /\ NextBatch
    /\ UNCHANGED <<covered, mode, failed, failedBatches, faults, kills>>

\* The symbols of a failed batch the report lists, up to _MAX_FAILED_SYMBOLS.
Listed(b) ==
    LET symbols == [i \in 1 .. LastOf(b) - FirstOf(b) + 1 |-> FirstOf(b) + i - 1]
    IN  SubSeq(symbols, 1, Lesser(Len(symbols), MaxFailed - Len(failed)))

\* Mutants: only the symbol that raised is listed; the run stops there.
BatchFailsListsOne ==
    /\ mode = "backfill" /\ Raises
    /\ failedBatches' = failedBatches + 1
    /\ failed' = IF Len(failed) < MaxFailed THEN Append(failed, sym) ELSE failed
    /\ NextBatch
    /\ UNCHANGED <<covered, mode, kills>>

BatchFailsStops ==
    /\ mode = "backfill" /\ Raises
    /\ pc' = "error"
    /\ UNCHANGED <<covered, mode, batch, ep, sym, failed, failedBatches, kills>>

\* run_data_backfill: the rest of the batch is skipped, the next one is warmed.
BatchFails ==
    /\ mode = "backfill" /\ Raises
    /\ failedBatches' = failedBatches + 1
    /\ failed' = failed \o Listed(batch)
    /\ NextBatch
    /\ UNCHANGED <<covered, mode, kills>>

\* run_data_update: the exception ends the run.
NightlyFails ==
    /\ mode = "nightly" /\ Raises
    /\ pc' = "error"
    /\ UNCHANGED <<covered, mode, batch, ep, sym, failed, failedBatches, kills>>

\* Ctrl-C, the 4 h timeout of the service, a reboot.
Kill ==
    /\ pc = "warm" /\ kills < MaxKills
    /\ pc' = "idle" /\ kills' = kills + 1
    /\ UNCHANGED <<covered, mode, batch, ep, sym, failed, failedBatches, faults>>

Warm == WarmPair \/ NextEndpoint \/ EndBatch \/ BatchFails \/ NightlyFails

Next == (\E m \in {"backfill", "nightly"} : Start(m)) \/ Warm \/ Kill

Spec == Init /\ [][Next]_vars

\* No run hangs, and the operator starts the backfill again and again.
RerunSpec == Spec /\ WF_vars(Warm) /\ SF_vars(Start("backfill"))
-----------------------------------------------------------------------------
\* A backfill that ended hides no hole: a symbol left uncovered is in the report's
\* list of failed symbols, unless the list is full, and some batch is counted.
NoSilentHole ==
    (pc = "ok" /\ mode = "backfill") =>
        \A s \in SymbolNo :
            (\E e \in EndpointNo : <<s, e>> \notin covered) =>
                /\ failedBatches > 0
                /\ (\E i \in 1 .. Len(failed) : failed[i] = s) \/ Len(failed) = MaxFailed

\* Re-running the backfill warms every batch without a poisoned pair, whatever
\* batches before it fail for good.
HealthyBatchesAreWarmed ==
    \A b \in 1 .. Batches :
        LET batchSymbols == FirstOf(b) .. Lesser(b * ChunkSize, Symbols)
        IN  (Poison \cap (batchSymbols \X EndpointNo) = {}) =>
                <>(batchSymbols \X EndpointNo \subseteq covered)
=============================================================================
