---------------------------- MODULE CoverageLedger ----------------------------
(***************************************************************************)
(* The coverage ledger file of data/cache/coverage.py and                  *)
(* data/cache/intraday_coverage.py, at the level of file operations: a     *)
(* frame cache checked against the file's mtime, and a record that loads   *)
(* the ledger, appends, writes the shared temporary file and renames it.   *)
(* There is no lock.  TushareCache.tla takes the load and the replace of a *)
(* record as its steps; this module looks inside them.                     *)
(*                                                                         *)
(* The rows of one record_many call are one number, in order of the calls. *)
(***************************************************************************)
EXTENDS Integers

CONSTANTS
    Proc, Absent, Torn,
    Writer,      \* the processes that record (updater, backfill); the rest look up
    MaxRecords,  \* bound: record_many calls
    None         \* no frame loaded yet

INSTANCE AtomicFile

RowIds  == 1 .. MaxRecords
Content == [rows : SUBSET RowIds, mtime : 1 .. MaxRecords]

LedgerAssumption ==
    /\ Writer \subseteq Proc /\ MaxRecords \in Nat
    /\ Absent # Torn /\ {Absent, Torn} \cap (Content \cup RowIds) = {}

VARIABLES
    file,     \* coverage.parquet and coverage.parquet.tmp
    writes,   \* number of finished writes: the next mtime
    records,  \* number of record_many calls
    pc,       \* where each process stands in its call
    batch,    \* the rows being recorded, 0 in a lookup
    frame,    \* _frame: the cached ledger, or None
    frameAt,  \* _frame_mtime
    statAt,   \* the mtime _load has just read
    known     \* history: the ledger rows on disk when the lookup began

vars == <<file, writes, records, pc, batch, frame, frameAt, statAt, known>>

Mtime   == 1 .. MaxRecords \cup {Absent, Torn}
Phase   == {"idle", "stat", "read", "served", "open", "write", "replace", "restat"}

\* _current_mtime; a file being rewritten has an mtime of its own.
CurrentMtime == IF file.path \in {Absent, Torn} THEN file.path ELSE file.path.mtime

\* _read_frame: no file, no rows.
LedgerRows == IF file.path \in {Absent, Torn} THEN {} ELSE file.path.rows

Init ==
    /\ file = NoFile
    /\ writes = 0 /\ records = 0
    /\ pc = [p \in Proc |-> "idle"]
    /\ batch = [p \in Proc |-> 0]
    /\ frame = [p \in Proc |-> None]
    /\ frameAt = [p \in Proc |-> Absent]
    /\ statAt = [p \in Proc |-> Absent]
    /\ known = [p \in Proc |-> {}]

Goto(p, phase) == pc' = [pc EXCEPT ![p] = phase]
-----------------------------------------------------------------------------
\* covered_intervals, snapshot_fetched_at, last_fields_hash: all start with _load.
BeginLookup(p) ==
    /\ pc[p] = "idle"
    /\ Goto(p, "stat")
    /\ known' = [known EXCEPT ![p] = LedgerRows]
    /\ UNCHANGED <<file, writes, records, batch, frame, frameAt, statAt>>

\* record_many with some rows: it loads the existing ledger, too.
BeginRecord(p) ==
    /\ pc[p] = "idle" /\ p \in Writer /\ records < MaxRecords
    /\ records' = records + 1
    /\ batch' = [batch EXCEPT ![p] = records + 1]
    /\ Goto(p, "stat")
    /\ UNCHANGED <<file, writes, frame, frameAt, statAt, known>>

Loaded(p) == IF batch[p] = 0 THEN "served" ELSE "open"

\* Mutant: a loaded frame is never loaded again.
HasFrame(p) == frame[p] # None

\* _load keeps its frame while the file's mtime is the one it was read at.
FrameIsValid(p) == frame[p] # None /\ frameAt[p] = CurrentMtime

Stat(p) ==
    /\ pc[p] = "stat"
    /\ IF FrameIsValid(p)
         THEN Goto(p, Loaded(p)) /\ UNCHANGED statAt
         ELSE Goto(p, "read") /\ statAt' = [statAt EXCEPT ![p] = CurrentMtime]
    /\ UNCHANGED <<file, writes, records, batch, frame, frameAt, known>>

\* _read_frame: the file may have changed again since its mtime was read.
ReadFrame(p) ==
    /\ pc[p] = "read" /\ file.path # Torn
    /\ frame' = [frame EXCEPT ![p] = LedgerRows]
    /\ frameAt' = [frameAt EXCEPT ![p] = statAt[p]]
    /\ statAt' = [statAt EXCEPT ![p] = Absent]
    /\ Goto(p, Loaded(p))
    /\ UNCHANGED <<file, writes, records, batch, known>>

EndLookup(p) ==
    /\ pc[p] = "served"
    /\ known' = [known EXCEPT ![p] = {}]
    /\ Goto(p, "idle")
    /\ UNCHANGED <<file, writes, records, batch, frame, frameAt, statAt>>

OpenTmp(p) ==
    /\ pc[p] = "open"
    /\ file' = Opened(file, p)
    /\ Goto(p, "write")
    /\ UNCHANGED <<writes, records, batch, frame, frameAt, statAt, known>>

\* Mutant: only the new rows are written.
NewRowsOnly(p) == {batch[p]}

\* The existing frame and the new rows.
Combined(p) == frame[p] \cup {batch[p]}

WriteTmp(p) ==
    /\ pc[p] = "write"
    /\ file' \in Written(file, p, [rows |-> Combined(p), mtime |-> writes + 1])
    /\ writes' = writes + 1
    /\ Goto(p, "replace")
    /\ UNCHANGED <<records, batch, frame, frameAt, statAt, known>>

Replace(p) ==
    /\ pc[p] = "replace" /\ CanReplace(file)
    /\ file' = Replaced(file)
    /\ Goto(p, "restat")
    /\ UNCHANGED <<writes, records, batch, frame, frameAt, statAt, known>>

\* The frame is refreshed to what was written; its mtime is read only now.
Restat(p) ==
    /\ pc[p] = "restat"
    /\ frame' = [frame EXCEPT ![p] = Combined(p)]
    /\ frameAt' = [frameAt EXCEPT ![p] = CurrentMtime]
    /\ batch' = [batch EXCEPT ![p] = 0]
    /\ Goto(p, "idle")
    /\ UNCHANGED <<file, writes, records, statAt, known>>

\* The process dies: it is killed anywhere, read_parquet met a torn file, or
\* os.replace found no temporary file.  The next one starts with no frame.
Die(p) ==
    /\ file' = Abandoned(file, p)
    /\ pc' = [pc EXCEPT ![p] = "idle"]
    /\ batch' = [batch EXCEPT ![p] = 0]
    /\ frame' = [frame EXCEPT ![p] = None]
    /\ frameAt' = [frameAt EXCEPT ![p] = Absent]
    /\ statAt' = [statAt EXCEPT ![p] = Absent]
    /\ known' = [known EXCEPT ![p] = {}]
    /\ UNCHANGED <<writes, records>>

Next ==
    \E p \in Proc :
      \/ BeginLookup(p) \/ BeginRecord(p) \/ Stat(p) \/ ReadFrame(p) \/ EndLookup(p)
      \/ OpenTmp(p) \/ WriteTmp(p) \/ Replace(p) \/ Restat(p) \/ Die(p)

Spec == Init /\ [][Next]_vars
-----------------------------------------------------------------------------
TypeOK ==
    /\ file \in File(Content)
    /\ writes \in 0 .. MaxRecords /\ records \in 0 .. MaxRecords
    /\ pc \in [Proc -> Phase] /\ batch \in [Proc -> 0 .. MaxRecords]
    /\ frame \in [Proc -> SUBSET RowIds \cup {None}]
    /\ frameAt \in [Proc -> Mtime] /\ statAt \in [Proc -> Mtime]
    /\ known \in [Proc -> SUBSET RowIds]

\* A reader never meets a partial ledger.
NeverTorn == file.path # Torn

\* A lookup sees every row that was on disk when it began: another instance's write
\* is not served stale.
LookupIsCurrent == \A p \in Proc : pc[p] = "served" => known[p] \subseteq frame[p]

\* The ledger is append-only: a recorded fetch attempt stays recorded.
AppendOnly == [][LedgerRows \subseteq LedgerRows']_vars
=============================================================================
