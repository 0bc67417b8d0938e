------------------------------ MODULE LockedStore ------------------------------
(***************************************************************************)
(* One artifact of the two lock-file stores: the symbol parquet of         *)
(* data/cache/parquet_store.py and the factor panel of                     *)
(* factors/store/values.py (FactorStore = TRUE).  upsert reads the file,   *)
(* merges, and replaces it, under a lock file created with O_EXCL; a       *)
(* writer that waited ten seconds goes ahead without the lock.             *)
(***************************************************************************)
EXTENDS Integers, FiniteSets

CONSTANTS
    Proc, Absent, Torn,
    Key,          \* natural keys of the artifact (a date, a (date, symbol))
    MaxUpserts,   \* bound: upsert calls
    MaxCrashes,   \* bound: killed processes
    SlowHolder,   \* may a live lock holder take longer than the timeout?
    FactorStore,  \* TRUE: values.py, FALSE: parquet_store.py
    AloneAfterCrash  \* does one call at a time run beside a stale lock?

INSTANCE AtomicFile

Rows   == [Key -> 0 .. MaxUpserts]

StoreAssumption ==
    /\ IsFiniteSet(Proc)
    /\ MaxUpserts \in Nat /\ MaxCrashes \in Nat
    /\ SlowHolder \in BOOLEAN /\ FactorStore \in BOOLEAN /\ AloneAfterCrash \in BOOLEAN
    /\ Absent \notin Proc /\ Absent # Torn
    /\ Absent \notin Rows /\ Torn \notin Rows

VARIABLES
    file,     \* <artifact>.parquet and <artifact>.parquet.tmp
    lock,     \* the lock file: Absent or the process that created it
    holds,    \* did this call create the lock file (fd is not None)?
    pc,       \* where each process stands in upsert
    new,      \* the keys being upserted
    seq,      \* number of each process's current upsert, in order of its read
    seen,     \* what _read found
    upserts,  \* number of upserts that read the file
    crashes,  \* number of killed processes
    acked     \* history: key -> last upsert that returned to its caller

vars == <<file, lock, holds, pc, new, seq, seen, upserts, crashes, acked>>

NoRows == [k \in Key |-> 0]
Phase  == {"idle", "wait", "read", "open", "write", "replace", "clean", "unlock"}

Init ==
    /\ file = NoFile
    /\ lock = Absent /\ holds = [p \in Proc |-> FALSE]
    /\ pc = [p \in Proc |-> "idle"]
    /\ new = [p \in Proc |-> {}]
    /\ seq = [p \in Proc |-> 0]
    /\ seen = [p \in Proc |-> NoRows]
    /\ upserts = 0 /\ crashes = 0
    /\ acked = NoRows

Goto(p, phase) == pc' = [pc EXCEPT ![p] = phase]
-----------------------------------------------------------------------------
\* Nobody will ever remove the lock file of a killed process.
Stale == lock # Absent /\ ~holds[lock]

Idle(p) == pc[p] = "idle"

\* The "single-process run" that the comment on stale locks relies on: at most one
\* call goes on under a stale lock, and no other begins beside it.
Busy(p) == {q \in Proc \ {p} : ~Idle(q)}

\* upsert_symbol / upsert_frame with some rows (an empty frame returns at once).
Begin(p, K) ==
    /\ Idle(p) /\ K # {}
    /\ (AloneAfterCrash /\ Stale) => Busy(p) = {}
    /\ upserts + Cardinality({q \in Proc : pc[q] \in {"wait", "read"}}) < MaxUpserts
    /\ new' = [new EXCEPT ![p] = K]
    /\ Goto(p, "wait")
    /\ UNCHANGED <<file, lock, holds, seq, seen, upserts, crashes, acked>>

Acquire(p) ==
    /\ pc[p] = "wait" /\ lock = Absent
    /\ lock' = p /\ holds' = [holds EXCEPT ![p] = TRUE]
    /\ Goto(p, "read")
    /\ UNCHANGED <<file, new, seq, seen, upserts, crashes, acked>>

\* Mutant: the wait starts over instead of ending.
WaitsAgain(p) ==
    /\ pc[p] = "wait" /\ lock # Absent
    /\ Stale \/ SlowHolder
    /\ UNCHANGED vars

\* Ten seconds passed: go ahead without the lock.
TimesOut(p) ==
    /\ pc[p] = "wait" /\ lock # Absent
    /\ Stale \/ SlowHolder
    /\ Goto(p, "read")
    /\ UNCHANGED <<file, lock, holds, new, seq, seen, upserts, crashes, acked>>

\* No file: no rows.  A torn one is a miss for _read_raw.
Existing == IF file.path \in Rows THEN file.path ELSE NoRows

\* read_symbol raises on a torn file.
Read(p) ==
    /\ pc[p] = "read"
    /\ upserts' = upserts + 1
    /\ seq' = [seq EXCEPT ![p] = upserts + 1]
    /\ seen' = [seen EXCEPT ![p] = Existing]
    /\ Goto(p, IF file.path = Torn /\ ~FactorStore THEN "unlock" ELSE "open")
    /\ UNCHANGED <<file, lock, holds, new, crashes, acked>>

\* to_parquet / write_table begins: the temporary file is truncated.
OpenTmp(p) ==
    /\ pc[p] = "open"
    /\ file' = Opened(file, p)
    /\ Goto(p, "write")
    /\ UNCHANGED <<lock, holds, new, seq, seen, upserts, crashes, acked>>

\* Mutants: only the new rows are written; the rows read win over the new ones.
OnlyNewRows(p) == [k \in Key |-> IF k \in new[p] THEN seq[p] ELSE 0]
OldRowsWin(p) == [k \in Key |-> IF k \in new[p] /\ seen[p][k] = 0 THEN seq[p] ELSE seen[p][k]]

\* The merged rows: a new row wins on its key.
Merged(p) == [k \in Key |-> IF k \in new[p] THEN seq[p] ELSE seen[p][k]]

WriteTmp(p) ==
    /\ pc[p] = "write"
    /\ file' \in Written(file, p, Merged(p))
    /\ Goto(p, "replace")
    /\ UNCHANGED <<lock, holds, new, seq, seen, upserts, crashes, acked>>

\* os.replace raises when another process already renamed or removed the tmp.
Replace(p) ==
    /\ pc[p] = "replace"
    /\ IF CanReplace(file)
         THEN /\ file' = Replaced(file)
              /\ acked' = [k \in Key |-> IF k \in new[p] THEN seq[p] ELSE acked[k]]
         ELSE UNCHANGED <<file, acked>>
    /\ Goto(p, IF FactorStore THEN "clean" ELSE "unlock")
    /\ UNCHANGED <<lock, holds, new, seq, seen, upserts, crashes>>

\* _atomic_write: finally: if tmp.exists(): tmp.unlink().
CleanTmp(p) ==
    /\ pc[p] = "clean"
    /\ file' = Unlinked(file)
    /\ Goto(p, "unlock")
    /\ UNCHANGED <<lock, holds, new, seq, seen, upserts, crashes, acked>>

\* The finally clause: only a call that created the lock file removes it.
Unlock(p) ==
    /\ pc[p] = "unlock"
    /\ lock' = IF holds[p] THEN Absent ELSE lock
    /\ holds' = [holds EXCEPT ![p] = FALSE]
    /\ new' = [new EXCEPT ![p] = {}]
    /\ seq' = [seq EXCEPT ![p] = 0]
    /\ seen' = [seen EXCEPT ![p] = NoRows]
    /\ Goto(p, "idle")
    /\ UNCHANGED <<file, upserts, crashes, acked>>

\* Killed: the lock file stays.
Crash(p) ==
    /\ ~Idle(p) /\ crashes < MaxCrashes
    /\ (AloneAfterCrash /\ lock = p) => Cardinality(Busy(p)) <= 1
    /\ crashes' = crashes + 1
    /\ file' = Abandoned(file, p)
    /\ holds' = [holds EXCEPT ![p] = FALSE]
    /\ new' = [new EXCEPT ![p] = {}]
    /\ seq' = [seq EXCEPT ![p] = 0]
    /\ seen' = [seen EXCEPT ![p] = NoRows]
    /\ Goto(p, "idle")
    /\ UNCHANGED <<lock, upserts, acked>>

Step(p) ==
    \/ Acquire(p) \/ TimesOut(p) \/ Read(p) \/ OpenTmp(p) \/ WriteTmp(p)
    \/ Replace(p) \/ CleanTmp(p) \/ Unlock(p)

\* The bound on upserts is reached; a deadlock is anything else that stops.
Exhausted ==
    /\ upserts = MaxUpserts /\ \A p \in Proc : pc[p] = "idle"
    /\ UNCHANGED vars

Next ==
    \/ \E p \in Proc :
         \/ \E K \in SUBSET Key : Begin(p, K)
         \/ Step(p)
         \/ Crash(p)
    \/ Exhausted

Spec == Init /\ [][Next]_vars
FairSpec == Spec /\ \A p \in Proc : WF_vars(Step(p))
-----------------------------------------------------------------------------
TypeOK ==
    /\ file \in File(Rows)
    /\ lock \in Proc \cup {Absent} /\ holds \in [Proc -> BOOLEAN]
    /\ pc \in [Proc -> Phase] /\ new \in [Proc -> SUBSET Key]
    /\ seq \in [Proc -> 0 .. MaxUpserts] /\ seen \in [Proc -> Rows]
    /\ upserts \in 0 .. MaxUpserts /\ crashes \in 0 .. MaxCrashes
    /\ acked \in Rows

\* A reader of the artifact never meets a half-written file, whoever writes.
FileIsCoherent == file.path # Torn

\* The rows of an upsert that returned are in the file, at that or a later version.
RowsAreKept == file.path # Torn => \A k \in Key : Existing[k] >= acked[k]

\* The file implements the atomic upsert of UpsertStore.
Atomic == INSTANCE UpsertStore WITH rows <- Existing
UpsertIsAtomic == Atomic!Spec

\* A lock file left behind by a killed process wedges nobody: once the upserts of the
\* bound have begun, no process is left waiting.
NeverWedged == <>[](\A p \in Proc : Idle(p))
=============================================================================
