------------------------------ MODULE FactorStore ------------------------------
(***************************************************************************)
(* One artifact of the factor value store and the two programs that write  *)
(* it: the read-through of factors/service.py (fill the requested cells    *)
(* the store lacks) and the nightly tail_recompute of                      *)
(* factors/store/incremental.py (recompute an overlap, compare, append).   *)
(* upsert_frame and write_frame are one step here; LockedStore.tla opens   *)
(* them.                                                                   *)
(***************************************************************************)
EXTENDS Integers, FiniteSets, Functions

CONSTANTS
    Symbols, Callers,
    MaxDay,        \* bound: trading days
    Depth,         \* spec.lookback_depth, W_dep
    Horizon,       \* the largest revision_horizon of the factor's inputs
    MaxSchema,     \* bound: versions of the PIT/schema modules
    MaxRevisions,  \* bound: revisions of upstream rows
    MaxLate,       \* bound: upstream rows missing at one time
    MaxCalls,      \* bound: read-through calls
    MaxTails,      \* bound: tail_recompute runs
    MaxEvents,     \* bound: calls, tail runs, revisions and deployments together
    TailAlone      \* is tail_recompute kept apart from the read-through calls?

FactorAssumption ==
    /\ MaxDay \in Nat \ {0} /\ Depth \in Nat \ {0} /\ Horizon \in Nat
    /\ MaxSchema \in Nat \ {0} /\ MaxRevisions \in Nat /\ MaxLate \in Nat
    /\ MaxCalls \in Nat /\ MaxTails \in Nat /\ MaxEvents \in Nat /\ TailAlone \in BOOLEAN

Days   == 1 .. MaxDay
Cells  == Symbols \X Days
Schema == 1 .. MaxSchema
Greater(a, b) == IF a >= b THEN a ELSE b

VARIABLES
    today,
    input,     \* upstream cache: 0 not warmed, else the revision of the row
    schema,    \* the deployed version of the schema modules
    file,      \* the artifact: its fingerprint's schema_version and its rows
    pc,        \* where each panel() call stands in _ensure_coverage
    request,   \* its dates and symbols; force: did it bring a diagnostics sink?
               \* (warm, history: had all its cells been served before?)
    frame,     \* what _read_raw gave it
    rows,      \* what it materialized, then what it returned
    tailPc, tailDay, tailFrame, tailNew, tailBad,
    calls, tails, revisions,   \* bound counters
    revised,   \* history: symbols some row of which was revised
    served,    \* history: cells a call returned since the artifact was last rewritten
    hidden,    \* history: a fill stored a stale row, or moved the last date past one
    quiet,     \* history: has upstream stood still since tail_recompute began?
    pure       \* history: no fill kept rows of another schema

upstream == <<today, input, schema, revisions, revised>>
callVars == <<pc, request, frame, rows, calls>>
tailVars == <<tailPc, tailDay, tailFrame, tailNew, tailBad, tails>>
history  == <<served, hidden, quiet, pure>>
vars == <<upstream, file, callVars, tailVars, history>>
-----------------------------------------------------------------------------
(***************************************************************************)
(* Values.  A factor value is known by the schema that computed it and the *)
(* upstream rows it saw; a window with a missing row gives NaN.            *)
(***************************************************************************)
NaN == [schema |-> 0, saw |-> <<>>]
NoRows == [c \in {} |-> NaN]

Window(d) == Greater(1, d - Depth) .. d

\* Mutant: the load begins at the first emitted date.
LoadedFromEmit(d, from) == Window(d) \cap (from .. MaxDay)

\* The rows the materializer has in hand for date d of a range that starts at
\* from: warmup days of history are loaded before it.
Loaded(d, from) == Window(d) \cap (from - Depth .. MaxDay)

Value(s, d, from, v) ==
    IF \E x \in Loaded(d, from) : input[s][x] = 0
      THEN NaN
      ELSE [schema |-> v, saw |-> [x \in Loaded(d, from) |-> input[s][x]]]

\* materialize_range: the rows of the emit window that have a value.
Materialized(S, from, to, v) ==
    [c \in {c \in S \X (from .. to) : Value(c[1], c[2], from, v) # NaN} |->
        Value(c[1], c[2], from, v)]

\* What a full column computed now would say.
Current(c) == Value(c[1], c[2], 1, schema)

Merge(old, new) == [c \in DOMAIN old \cup DOMAIN new |->
                        IF c \in DOMAIN new THEN new[c] ELSE old[c]]
FirstOf(D) == CHOOSE d \in D : \A e \in D : d <= e
LastOf(D)  == CHOOSE d \in D : \A e \in D : d >= e
DatesOf(f) == {c[2] : c \in DOMAIN f}
NoFile == [schema |-> 0, rows |-> NoRows]
-----------------------------------------------------------------------------
NoRequest == [dates |-> {}, symbols |-> {}, force |-> FALSE, warm |-> FALSE]

Init ==
    /\ today = 1 /\ schema = 1 /\ file = NoFile
    /\ \E L \in SUBSET Symbols :
         /\ Cardinality(L) <= MaxLate
         /\ input = [s \in Symbols |-> [d \in Days |-> IF d = 1 /\ s \notin L THEN 1 ELSE 0]]
    /\ pc = [p \in Callers |-> "idle"]
    /\ request = [p \in Callers |-> NoRequest]
    /\ frame = [p \in Callers |-> NoRows] /\ rows = [p \in Callers |-> NoRows]
    /\ tailPc = "idle" /\ tailDay = 0 /\ tailFrame = NoRows /\ tailNew = NoRows /\ tailBad = {}
    /\ calls = 0 /\ tails = 0 /\ revisions = 0
    /\ revised = {}
    /\ served = {} /\ hidden = FALSE /\ quiet = FALSE /\ pure = TRUE

\* Bound on what may happen.
SomeLeft == calls + tails + revisions + schema <= MaxEvents

\* The cache behind the providers gets the new day's rows, all but a few.
NextDay ==
    /\ today < MaxDay
    /\ today' = today + 1
    /\ \E L \in SUBSET Symbols :
         /\ Cardinality(L) + Cardinality({c \in Symbols \X (1 .. today) : input[c[1]][c[2]] = 0})
              <= MaxLate
         /\ input' = [s \in Symbols |->
                         [input[s] EXCEPT ![today + 1] = IF s \in L THEN 0 ELSE 1]]
    /\ quiet' = FALSE
    /\ UNCHANGED <<schema, revisions, revised, file, callVars, tailVars, served, hidden, pure>>

\* A row it lacked arrives late.
Warm(s, d) ==
    /\ d <= today /\ input[s][d] = 0
    /\ input' = [input EXCEPT ![s][d] = 1]
    /\ quiet' = FALSE
    /\ UNCHANGED <<today, schema, revisions, revised, file, callVars, tailVars, served, hidden, pure>>

\* The source revises a row, no further back than the endpoint's horizon.
Revise(s, d) ==
    /\ d \in today - Horizon .. today /\ input[s][d] > 0
    /\ revisions < MaxRevisions /\ SomeLeft
    /\ revisions' = revisions + 1
    /\ input' = [input EXCEPT ![s][d] = @ + 1]
    /\ revised' = revised \cup {s}
    /\ quiet' = FALSE
    /\ UNCHANGED <<today, schema, file, callVars, tailVars, served, hidden, pure>>

NobodyCalls == \A p \in Callers : pc[p] = "idle"

\* A new version of the schema modules, installed while nothing runs.
Deploy ==
    /\ schema < MaxSchema /\ SomeLeft /\ NobodyCalls /\ tailPc = "idle"
    /\ schema' = schema + 1
    /\ served' = {}
    /\ UNCHANGED <<today, input, revisions, revised, file, callVars, tailVars, hidden, quiet, pure>>
-----------------------------------------------------------------------------
(***************************************************************************)
(* panel() / cross_section() / stored_payload().                           *)
(***************************************************************************)
Requested(p) == request[p].symbols \X request[p].dates

\* Bound: a cross_section of one date, or a panel over all dates so far.
RequestDates == {{d} : d \in 1 .. today} \cup {1 .. today}

\* Diagnostics are counted while computing and not stored: asking for them forces the
\* computation of the whole request, whatever is stored.
Call(p, S, D, force) ==
    /\ pc[p] = "idle" /\ calls < MaxCalls /\ SomeLeft
    /\ TailAlone => tailPc = "idle"
    /\ pc' = [pc EXCEPT ![p] = "read"]
    /\ request' = [request EXCEPT ![p] = [dates |-> D, symbols |-> S, force |-> force,
                                          warm |-> S \X D \subseteq served]]
    /\ rows' = [rows EXCEPT ![p] = NoRows]
    /\ calls' = calls + 1
    /\ UNCHANGED <<upstream, file, frame, tailVars, history>>

\* read_valid_frame opens the file for its rows ...
ReadRows(p) ==
    /\ pc[p] \in {"read", "reread"}
    /\ frame' = [frame EXCEPT ![p] = file.rows]
    /\ pc' = [pc EXCEPT ![p] = IF pc[p] = "read" THEN "check" ELSE "recheck"]
    /\ UNCHANGED <<upstream, file, request, rows, calls, tailVars, history>>

\* Mutant: the fingerprint is not compared.
AnyVersion(p) == frame[p]

\* ... and once more for its fingerprint.
Valid(p) == IF file.schema = schema THEN frame[p] ELSE NoRows

\* Mutant: the criterion looks at dates only.
MissingDatesOnly(p) == {c \in Requested(p) : c[2] \notin DatesOf(Valid(p))}

\* _missing_request: requested cells with no stored row, or all of them (force_all).
Missing(p) == IF request[p].force THEN Requested(p) ELSE Requested(p) \ DOMAIN Valid(p)

Slice(f, p) == Restrict(f, DOMAIN f \cap Requested(p))

\* _assemble: the payload sliced to the request.
Return(p) ==
    /\ rows' = [rows EXCEPT ![p] = Slice(Valid(p), p)]
    /\ served' = served \cup Requested(p)
    /\ frame' = [frame EXCEPT ![p] = NoRows]
    /\ pc' = [pc EXCEPT ![p] = "done"]
    /\ UNCHANGED <<upstream, file, request, calls, tailVars, hidden, quiet, pure>>

\* Nothing is missing.
Hit(p) ==
    /\ pc[p] = "check" /\ Missing(p) = {}
    /\ Return(p)

\* Mutant: cells without a value get no row.
NoFootprint(fresh, S, D) == fresh

\* _record_fill_footprint: every cell of the missing dates and symbols gets a row.
Footprint(fresh, S, D) == Merge([c \in S \X D |-> NaN], fresh)

\* A miss materializes the span of the missing dates for the symbols that lack one.
Materialize(p) ==
    /\ pc[p] = "check" /\ Missing(p) # {}
    /\ LET D == {c[2] : c \in Missing(p)}
           S == {c[1] : c \in Missing(p)}
       IN  rows' = [rows EXCEPT ![p] =
                      Footprint(Materialized(S, FirstOf(D), LastOf(D), schema), S, D)]
    /\ frame' = [frame EXCEPT ![p] = NoRows]
    /\ pc' = [pc EXCEPT ![p] = "upsert"]
    /\ UNCHANGED <<upstream, file, request, calls, tailVars, history>>

\* Mutant: the fill replaces the artifact.
Overwritten(p) == rows[p]

\* upsert_frame: the stored rows stay, whatever fingerprint they were stored under.
Upserted(p) == Merge(file.rows, rows[p])

Stale(f) == {c \in DOMAIN f : f[c] # NaN /\ f[c] # Current(c)}
HidesStale(p) ==
    \/ Stale(rows[p]) # {}
    \/ /\ Stale(file.rows) # {}
       /\ \E d \in DatesOf(rows[p]) : \A e \in DatesOf(file.rows) : d > e

Upsert(p) ==
    /\ pc[p] = "upsert"
    /\ file' = [schema |-> schema, rows |-> Upserted(p)]
    /\ pure' = (pure /\ (file.schema = schema \/ DOMAIN file.rows \subseteq DOMAIN rows[p]))
    /\ hidden' = (hidden \/ HidesStale(p))
    /\ rows' = [rows EXCEPT ![p] = NoRows]
    /\ pc' = [pc EXCEPT ![p] = "reread"]
    /\ UNCHANGED <<upstream, request, frame, calls, tailVars, served, quiet>>

\* The payload is read again after the fill.
Assemble(p) ==
    /\ pc[p] = "recheck"
    /\ Return(p)

\* The caller is done with its panel; or its process is killed before that.
Leave(p) ==
    /\ pc[p] # "idle"
    /\ pc' = [pc EXCEPT ![p] = "idle"]
    /\ request' = [request EXCEPT ![p] = NoRequest]
    /\ frame' = [frame EXCEPT ![p] = NoRows]
    /\ rows' = [rows EXCEPT ![p] = NoRows]
    /\ UNCHANGED <<upstream, file, calls, tailVars, history>>
-----------------------------------------------------------------------------
(***************************************************************************)
(* tail_recompute, with a recompute callable bound to all of Symbols.      *)
(***************************************************************************)
TailStart ==
    /\ tailPc = "idle" /\ tails < MaxTails /\ SomeLeft
    /\ TailAlone => NobodyCalls
    /\ tails' = tails + 1
    /\ tailPc' = "read" /\ tailDay' = today
    /\ quiet' = TRUE
    /\ UNCHANGED <<upstream, file, callVars, tailFrame, tailNew, tailBad, served, hidden, pure>>

TailRead ==
    /\ tailPc = "read"
    /\ tailFrame' = file.rows
    /\ tailPc' = "check"
    /\ UNCHANGED <<upstream, file, callVars, tailDay, tailNew, tailBad, tails, history>>

\* Cold store, or a schema_version that is not ours: a full column replaces it.
TailFull ==
    /\ tailPc = "check"
    /\ tailFrame = NoRows \/ file.schema # schema
    /\ tailNew' = Materialized(Symbols, 1, tailDay, schema)
    /\ tailPc' = "write"
    /\ UNCHANGED <<upstream, file, callVars, tailDay, tailFrame, tailBad, tails, history>>

\* Mutant: only what follows the last stored date is computed.
NoOverlap == 0

\* overlap_window
Overlap == Greater(Depth, Horizon)

\* emit_start: the stored date with Overlap stored dates after it, or the first one.
EmitStart ==
    LET D == DatesOf(tailFrame)
    IN  IF Cardinality(D) > Overlap
          THEN CHOOSE d \in D : Cardinality({e \in D : e > d}) = Overlap
          ELSE FirstOf(D)

\* _classify_overlap_differences: a stored value contradicted by the recompute.
Revised(old, new, from) ==
    {c[1] : c \in {c \in DOMAIN old :
        c[2] >= from /\ old[c] # NaN /\ (c \notin DOMAIN new \/ old[c] # new[c])}}

TailOverlap ==
    /\ tailPc = "check"
    /\ tailFrame # NoRows /\ file.schema = schema
    /\ LET new == Materialized(Symbols, EmitStart, tailDay, schema)
       IN  /\ tailBad' = Revised(tailFrame, new, EmitStart)
           /\ tailNew' = Merge(Restrict(tailFrame, {c \in DOMAIN tailFrame : c[2] < EmitStart}), new)
           /\ tailPc' = IF tailBad' = {} THEN "write" ELSE "recolumn"
    /\ UNCHANGED <<upstream, file, callVars, tailDay, tailFrame, tails, history>>

\* The whole column of a mismatched symbol is computed again.
Recolumned ==
    Merge(Restrict(tailNew, {c \in DOMAIN tailNew : c[1] \notin tailBad}),
          Materialized(tailBad, 1, tailDay, schema))

TailRecolumn ==
    /\ tailPc = "recolumn"
    /\ tailNew' = Recolumned
    /\ tailPc' = "write"
    /\ UNCHANGED <<upstream, file, callVars, tailDay, tailFrame, tailBad, tails, history>>

\* store.write: whatever the file holds by now is replaced.
TailWrite ==
    /\ tailPc = "write"
    /\ file' = [schema |-> schema, rows |-> tailNew]
    /\ tailFrame' = NoRows /\ tailNew' = NoRows
    /\ tailPc' = "done"
    /\ served' = {}
    /\ UNCHANGED <<upstream, callVars, tailDay, tailBad, tails, hidden, quiet, pure>>

\* The job ends after its write, or is killed before it.
TailLeave ==
    /\ tailPc # "idle"
    /\ tailPc' = "idle"
    /\ tailDay' = 0 /\ tailFrame' = NoRows /\ tailNew' = NoRows /\ tailBad' = {}
    /\ quiet' = FALSE
    /\ UNCHANGED <<upstream, file, callVars, tails, served, hidden, pure>>
-----------------------------------------------------------------------------
Environment ==
    \/ NextDay \/ Deploy
    \/ \E s \in Symbols, d \in Days : Warm(s, d) \/ Revise(s, d)

CallStep(p) ==
    \/ ReadRows(p) \/ Hit(p) \/ Materialize(p) \/ Upsert(p) \/ Assemble(p) \/ Leave(p)

TailStep ==
    \/ TailRead \/ TailFull \/ TailOverlap \/ TailRecolumn \/ TailWrite \/ TailLeave

\* Nothing runs; the bounds may have been reached.
Resting == NobodyCalls /\ tailPc = "idle" /\ UNCHANGED vars

Next ==
    \/ Environment
    \/ \E p \in Callers :
         \/ \E S \in (SUBSET Symbols) \ {{}}, D \in RequestDates, force \in BOOLEAN :
              Call(p, S, D, force)
         \/ CallStep(p)
    \/ TailStart
    \/ TailStep
    \/ Resting

Spec == Init /\ [][Next]_vars
-----------------------------------------------------------------------------
Values == {NaN} \cup [schema : Schema, saw : UNION {[Window(d) -> 1 .. MaxRevisions + 1] : d \in Days}]
IsFrame(f) == DOMAIN f \subseteq Cells /\ \A c \in DOMAIN f : f[c] \in Values

TypeOK ==
    /\ today \in Days /\ schema \in Schema /\ tailDay \in 0 .. MaxDay
    /\ input \in [Symbols -> [Days -> 0 .. MaxRevisions + 1]]
    /\ file.schema \in 0 .. MaxSchema /\ IsFrame(file.rows)
    /\ \A p \in Callers :
         /\ pc[p] \in {"idle", "read", "check", "upsert", "reread", "recheck", "done"}
         /\ request[p].dates \subseteq Days /\ request[p].symbols \subseteq Symbols
         /\ request[p].force \in BOOLEAN
         /\ IsFrame(frame[p]) /\ IsFrame(rows[p])
    /\ tailPc \in {"idle", "read", "check", "recolumn", "write", "done"}
    /\ IsFrame(tailFrame) /\ IsFrame(tailNew) /\ tailBad \subseteq Symbols
    /\ calls \in 0 .. MaxCalls /\ tails \in 0 .. MaxTails /\ revisions \in 0 .. MaxRevisions
    /\ revised \subseteq Symbols /\ served \subseteq Cells
    /\ hidden \in BOOLEAN /\ quiet \in BOOLEAN /\ pure \in BOOLEAN

\* A panel has a row for every requested date and symbol: none is dropped silently,
\* whatever earlier calls, killed ones too, left (_missing_request, _ensure_coverage).
PanelIsComplete ==
    \A p \in Callers : pc[p] = "done" => DOMAIN rows[p] = Requested(p)

\* A value does not depend on the range it was materialized in: one date alone, a
\* batch, an overlap and a full column all see the whole lookback window.
ValuesIgnoreTheRange ==
    \A c \in DOMAIN file.rows : file.rows[c] # NaN => DOMAIN file.rows[c].saw = Window(c[2])

\* What the two programs write never costs the store a computed row; a fill does not
\* even cost it a footprint.
RowsAreKept ==
    [][\A c \in DOMAIN file.rows :
         c \in DOMAIN file'.rows \/ (tailPc = "write" /\ file.rows[c] = NaN)]_vars

\* A call without diagnostics for cells that earlier calls returned computes nothing,
\* unless the artifact was rewritten in between: a warm store reads no minute bars.
WarmStoreIsNotRefilled ==
    [][\A p \in Callers :
         pc[p] = "check" /\ pc'[p] = "upsert" => request[p].force \/ ~request[p].warm]_vars

\* What tail_recompute calls a revision is one: the overlap of an unrevised symbol
\* compares equal, over NaN footprints and late warmed rows too.
NoFalseAlarm == pure => tailBad \subseteq revised

\* After tail_recompute no stored value contradicts upstream, unless a fill had moved
\* the last stored date past a value that was stale already.
TailCatchesRevisions ==
    tailPc = "done" /\ quiet /\ pure /\ ~hidden => Stale(file.rows) = {}

\* tail_recompute overwrites what upstream revised, and only that raises an alarm.
TailIsExact == NoFalseAlarm /\ TailCatchesRevisions

\* Fails: a returned value was computed by the schema version its caller runs.
ServedUnderOwnSchema ==
    \A p \in Callers : pc[p] = "done" =>
        \A c \in DOMAIN rows[p] : rows[p][c] # NaN => rows[p][c].schema = schema

\* What holds instead: only a fill that put its fingerprint over rows of another schema
\* can mislead a caller; one that replaced them all, a full tail_recompute, a killed call
\* and a deployment do not.
OnlyMixedFillsMislead == pure => ServedUnderOwnSchema
=============================================================================
