----------------------------- MODULE EvalRegistry -----------------------------
(***************************************************************************)
(* The run registry (factors/store/run_registry.py), an append-only JSONL  *)
(* file, and the evaluation runs that read and extend it                   *)
(* (qt/factor_eval_registry.py, qt/factor_eval_runner.py).  A run checks   *)
(* the registered book when it starts, evaluates for as long as it takes,  *)
(* and appends its own record at the end.                                  *)
(***************************************************************************)
EXTENDS Integers, Sequences, SequencesExt, FiniteSets

CONSTANTS Runs,         \* evaluation processes
          Others,       \* factors outside of the book
          BookSeq,      \* BOOK_IDS, in the order they are seeded
          MaxRecords,   \* bound: records in the registry
          MaxEdits,     \* bound: records a human appends
          Quiet         \* TRUE: humans edit only while no run evaluates

BookIds == ToSet(BookSeq)

EvalRegistryAssumption ==
    /\ BookSeq \in Seq(BookIds) /\ BookSeq # << >> /\ IsInjective(BookSeq)
    /\ Others \cap BookIds = {}
    /\ MaxRecords \in Nat /\ MaxEdits \in Nat /\ Quiet \in BOOLEAN

Factors == BookIds \cup Others
Verdicts == {"Watch", "Reject", "INSUFFICIENT-DATA"}
Statuses == {"book", "watch", "exploratory", "retired"}

VARIABLES log,      \* the records, [factor, status]
          pc,       \* per run: idle, seeding, evaluating, refused
          subject,  \* the factor a run evaluates
          seeded,   \* book ids a bootstrapping run has appended
          retired   \* history: factors whose last human record is "retired"

vars == <<log, pc, subject, seeded, retired>>

Append1(factor, status) ==
    /\ Len(log) < MaxRecords
    /\ log' = Append(log, [factor |-> factor, status |-> status])

(* current_book_set: the latest record of a factor wins.                   *)
CurrentBook(records) ==
    {g \in Factors : \E i \in DOMAIN records :
        /\ records[i] = [factor |-> g, status |-> "book"]
        /\ \A j \in DOMAIN records : j > i => records[j].factor /= g}

(* Mutant: a book member is recorded by its verdict like any other.        *)
StatusByVerdict(g, verdict) ==
    IF verdict = "Watch" THEN "watch" ELSE "exploratory"

(* status_for_run: a book member stays book; retired is never derived.     *)
StatusForRun(g, verdict) ==
    IF g \in BookIds THEN "book"
    ELSE IF verdict = "Watch" THEN "watch" ELSE "exploratory"

-----------------------------------------------------------------------------
Init == /\ log = << >>
        /\ pc = [r \in Runs |-> "idle"]
        /\ subject \in [Runs -> Factors]
        /\ seeded = [r \in Runs |-> 0]
        /\ retired = {}

(* The start-up gate, sync_book_registry: an empty registry is seeded, one *)
(* that disagrees with the declared book refuses the run.                  *)
Start(r) ==
    /\ pc[r] = "idle"
    /\ \E g \in Factors : subject' = [subject EXCEPT ![r] = g]
    /\ pc' = [pc EXCEPT ![r] = IF log = << >> THEN "seeding"
                               ELSE IF CurrentBook(log) = BookIds THEN "evaluating"
                               ELSE "refused"]
    /\ seeded' = [seeded EXCEPT ![r] = 0]
    /\ UNCHANGED <<log, retired>>

(* Bootstrap: one record per declared id.                                  *)
Seed(r) ==
    /\ pc[r] = "seeding"
    /\ Append1(BookSeq[seeded[r] + 1], "book")
    /\ seeded' = [seeded EXCEPT ![r] = @ + 1]
    /\ pc' = [pc EXCEPT ![r] = IF seeded'[r] = Len(BookSeq) THEN "evaluating" ELSE @]
    /\ UNCHANGED <<subject, retired>>

(* The run ends and appends its own record.                                *)
Finish(r) ==
    /\ pc[r] = "evaluating"
    /\ \E v \in Verdicts : Append1(subject[r], StatusForRun(subject[r], v))
    /\ pc' = [pc EXCEPT ![r] = "idle"]
    /\ UNCHANGED <<subject, seeded, retired>>

(* A run is killed, fails, or reports that it was refused.                 *)
Stop(r) ==
    /\ pc[r] /= "idle"
    /\ pc' = [pc EXCEPT ![r] = "idle"]
    /\ UNCHANGED <<log, subject, seeded, retired>>

(* A human appends a correcting record: a book factor retired or restored, *)
(* never in the moment in which the registry is seeded.                    *)
Curate(g, status) ==
    /\ log /= << >>
    /\ Cardinality({i \in DOMAIN log : log[i].status = "retired"}) < MaxEdits
    /\ \A r \in Runs : pc[r] /= "seeding" /\ (Quiet => pc[r] /= "evaluating")
    /\ Append1(g, status)
    /\ retired' = IF status = "retired" THEN retired \cup {g} ELSE retired \ {g}
    /\ UNCHANGED <<pc, subject, seeded>>

Next == \/ \E r \in Runs : Start(r) \/ Seed(r) \/ Finish(r) \/ Stop(r)
        \/ \E g \in BookIds, s \in {"book", "retired"} : Curate(g, s)

Spec == Init /\ [][Next]_vars

-----------------------------------------------------------------------------
(* Every record and every run is in one of its states.                     *)
TypeOK ==
    /\ log \in Seq([factor : Factors, status : Statuses])
    /\ pc \in [Runs -> {"idle", "seeding", "evaluating", "refused"}]
    /\ subject \in [Runs -> Factors]
    /\ seeded \in [Runs -> 0..Len(BookSeq)]
    /\ retired \subseteq BookIds

(* Curation is human: no run, whatever its verdict, however many bootstrap *)
(* at once and wherever they are killed, takes a factor out of the book,   *)
(* and none that evaluates uses a book the registry does not name.         *)
BookIsCurated ==
    /\ \A r \in Runs : pc[r] = "evaluating" => CurrentBook(log) = BookIds
    /\ CurrentBook(log) \cap retired = {}

=============================================================================
