------------------------------ MODULE UpsertStore ------------------------------
(***************************************************************************)
(* What a keyed parquet promises its callers (abstract specification): an  *)
(* upsert replaces the rows it carries and no other row, in one step.      *)
(***************************************************************************)
EXTENDS Integers

CONSTANTS Key, MaxUpserts

VARIABLE rows   \* key -> number of the upsert that wrote its row, 0 = no row

Init == rows = [k \in Key |-> 0]

Upsert(K, n) == rows' = [k \in Key |-> IF k \in K THEN n ELSE rows[k]]

Next == \E K \in SUBSET Key, n \in 1 .. MaxUpserts :
            /\ \A k \in Key : rows[k] < n
            /\ Upsert(K, n)

Spec == Init /\ [][Next]_rows
=============================================================================
