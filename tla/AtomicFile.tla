------------------------------ MODULE AtomicFile ------------------------------
(***************************************************************************)
(* The file primitive under every persistent artifact of the repository:   *)
(* write <name>.tmp, then os.replace it onto <name>.  The temporary name   *)
(* is the same for every process, so two writers that are not serialised   *)
(* open, truncate and rename ONE file.                                     *)
(*                                                                         *)
(* A file state f is a record: what the two names hold, and for every      *)
(* process the name its open handle is now linked to (a rename moves the   *)
(* handle along) and whether another process opened the same file too.     *)
(***************************************************************************)
CONSTANTS
    Proc,    \* processes
    Absent,  \* the name does not exist
    Torn     \* a truncated, half-written or mixed parquet: reading it raises

Handle == {"none", "tmp", "path", "gone"}

File(Content) ==
    [path : Content \cup {Absent, Torn}, tmp : Content \cup {Absent, Torn},
     open : [Proc -> Handle], mixed : [Proc -> BOOLEAN]]

NoFile == [path |-> Absent, tmp |-> Absent,
           open |-> [p \in Proc |-> "none"], mixed |-> [p \in Proc |-> FALSE]]

\* to_parquet(tmp) opens and truncates whatever file has the temporary name.
Opened(f, p) ==
    LET others == {q \in Proc \ {p} : f.open[q] = "tmp"}
    IN  [f EXCEPT !.tmp = Torn,
                  !.open[p] = "tmp",
                  !.mixed = [q \in Proc |-> IF q = p THEN others # {}
                                            ELSE f.mixed[q] \/ q \in others]]

\* ... and has written v when it closes: onto the name its handle moved to, and
\* anything when another writer has the same file open.
Written(f, p, v) ==
    LET closed   == [f EXCEPT !.open[p] = "none", !.mixed[p] = FALSE]
        outcomes == IF f.mixed[p] THEN {v, Torn} ELSE {v}
    IN  CASE f.open[p] = "tmp"  -> {[closed EXCEPT !.tmp = c] : c \in outcomes}
          [] f.open[p] = "path" -> {[closed EXCEPT !.path = c] : c \in outcomes}
          [] OTHER              -> {closed}

\* os.replace(tmp, path); FileNotFoundError when another process renamed it away.
CanReplace(f) == f.tmp # Absent

Replaced(f) ==
    [f EXCEPT !.path = f.tmp, !.tmp = Absent,
              !.open = [q \in Proc |-> CASE f.open[q] = "tmp"  -> "path"
                                         [] f.open[q] = "path" -> "gone"
                                         [] OTHER -> f.open[q]]]

\* tmp.unlink().
Unlinked(f) ==
    [f EXCEPT !.tmp = Absent,
              !.open = [q \in Proc |-> IF f.open[q] = "tmp" THEN "gone" ELSE f.open[q]]]

\* The process is gone: its handles are closed, a half-written tmp stays behind.
Abandoned(f, p) == [f EXCEPT !.open[p] = "none", !.mixed[p] = FALSE]
=============================================================================
