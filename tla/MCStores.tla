------------------------------ MODULE MCStores ------------------------------
(***************************************************************************)
(* One run for the safety of two stores that are filled on demand and then *)
(* trusted: the daily read-through cache (extended: the theorems of        *)
(* TushareCache_proofs are about its names) and the factor artifact.  They *)
(* share no state; Init picks the one a behaviour follows, the other stays *)
(* in one initial state.                                                   *)
(***************************************************************************)
EXTENDS TushareCache, TLC

CONSTANTS
    Symbols, Callers, MaxDay, Depth, Horizon, MaxSchema, MaxRevisions, MaxLate, MaxCalls,
    MaxTails, MaxEvents, TailAlone

VARIABLES
    which,
    today, input, schema, file, callPc, request, stored, rows, tailPc, tailDay, tailFrame,
    tailNew, tailBad, calls, tails, revisions, revised, served, hidden, quiet, pure

\* A .cfg cannot write down a function.
PendingOf == "nightly" :> 1 @@ "research" :> 0
Symmetric == Permutations(Symbols)

Artifact == INSTANCE FactorStore WITH pc <- callPc, frame <- stored

(* What the modules assume of their constants.                             *)
ASSUME InstancesAssumption == Artifact!FactorAssumption

artifactVars == <<today, input, schema, file, callPc, request, stored, rows, tailPc, tailDay,
                  tailFrame, tailNew, tailBad, calls, tails, revisions, revised, served,
                  hidden, quiet, pure>>
mcVars == <<which, vars, artifactVars>>

MCInit ==
    /\ which \in {"cache", "factor"}
    /\ Init /\ Artifact!Init
    /\ which # "cache" => \A p \in Proc : program[p] = "nightly"
    /\ which # "factor" => \A s \in Symbols : input[s][1] = 1

MCNext ==
    \/ which = "cache" /\ Next /\ UNCHANGED <<which, artifactVars>>
    \/ which = "factor" /\ Artifact!Next /\ UNCHANGED <<which, vars>>

MCSpec == MCInit /\ [][MCNext]_mcVars

-----------------------------------------------------------------------------
(* FactorStore: whatever earlier calls left, a returned panel is complete, *)
(* a value does not depend on the range it was materialized in, and        *)
(* tail_recompute overwrites what upstream revised and nothing else.       *)
PanelIsComplete == Artifact!PanelIsComplete
ValuesIgnoreTheRange == Artifact!ValuesIgnoreTheRange
TailIsExact == Artifact!TailIsExact

(* FactorStore: a returned value was computed by the schema its caller     *)
(* runs, as long as no fill kept rows of another one.                      *)
OnlyMixedFillsMislead == Artifact!OnlyMixedFillsMislead

(* FactorStore: what the two programs write never costs the store a        *)
(* computed row.                                                           *)
ComputedRowsAreKept == Artifact!RowsAreKept

(* FactorStore: a warm store reads no minute bars, unless diagnostics are  *)
(* asked for.                                                              *)
WarmStoreIsNotRefilled == Artifact!WarmStoreIsNotRefilled
=============================================================================
