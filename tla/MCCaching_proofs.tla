--------------------------- MODULE MCCaching_proofs ---------------------------
(***************************************************************************)
(* Proofs about the protocols of MCCaching, for every value of the         *)
(* constants of their modules.  A behaviour of MCSpec moves one of them    *)
(* and leaves the variables of the others alone, so each has an inductive  *)
(* invariant over its own variables.                                       *)
(***************************************************************************)
EXTENDS MCCaching, Sequences, NaturalsInduction, WellFoundedInduction, TLAPS

-----------------------------------------------------------------------------
(* The dimension snapshots.                                                *)

(* Days only grow, and nothing is dated after today.                       *)
SnapshotTypes ==
    /\ day \in Nat /\ today \in 0 .. day /\ fetchedAt \in 0 .. day
    /\ source \subseteq [in : Nat, out : Nat, pub : 0 .. day]

(* The row the cache would store for a membership.                         *)
Kept(r) == [in |-> r.in, out |-> r.out]

(* All rows that the vendor published before a day are among some rows.    *)
HasAllBefore(d, rows) == \A r \in source : r.pub < d => Kept(r) \in rows

(* A fetch that is recorded on a day began the day before at the earliest. *)
SnapshotInv ==
    /\ SnapshotTypes
    /\ fetchedAt # 0 => HasAllBefore(fetchedAt - 1, store)
    /\ snapPc # "idle" => day <= today + 1
    /\ snapPc = "upserting" => HasAllBefore(today, payload)
    /\ snapPc \in {"recording", "refreshed"} => HasAllBefore(today, store)
    /\ snapPc = "answering" =>
         fetchedAt # 0 /\ (RefreshDays > 0 => today - fetchedAt < RefreshDays)

LEMMA SnapshotInit == MCInit => SnapshotInv
  BY DEF MCInit, Snapshot!Init, SnapshotInv, SnapshotTypes, HasAllBefore, Snapshot!Never

LEMMA SnapshotStutter == SnapshotInv /\ UNCHANGED snapVars => SnapshotInv'
  BY DEF SnapshotInv, SnapshotTypes, HasAllBefore, Kept, snapVars

(* What the vendor publishes carries today's date.                         *)
LEMMA Publishing ==
  ASSUME SnapshotTypes, Snapshot!Reclassify
  PROVE  \A r \in source' :
           r \in source \/ r \in [in : Nat, out : Nat, pub : {day}]
PROOF
  <1>1. PICK ended \in SUBSET source, starts \in BOOLEAN :
          source' = (source \ ended)
             \cup {[r EXCEPT !.out = day, !.pub = day] : r \in ended}
             \cup (IF starts THEN {[in |-> day, out |-> Snapshot!Open, pub |-> day]} ELSE {})
    BY DEF Snapshot!Reclassify
  <1>2. \A r \in ended :
          [r EXCEPT !.out = day, !.pub = day] \in [in : Nat, out : Nat, pub : {day}]
    BY DEF SnapshotTypes
  <1>3. [in |-> day, out |-> Snapshot!Open, pub |-> day] \in [in : Nat, out : Nat, pub : {day}]
    BY DEF SnapshotTypes, Snapshot!Open
  <1> QED
    BY <1>1, <1>2, <1>3

LEMMA SnapshotStep == SnapshotInv /\ Snapshot!Next => SnapshotInv'
PROOF
  <1> SUFFICES ASSUME SnapshotInv, Snapshot!Next PROVE SnapshotInv'
    OBVIOUS
  <1> USE InstancesAssumption DEF Snapshot!SnapshotAssumption
  <1>1. CASE \E forced \in BOOLEAN : Snapshot!Begin(forced)
    BY <1>1 DEF Snapshot!Begin, Snapshot!Stale, Snapshot!Never, SnapshotInv, SnapshotTypes,
                HasAllBefore, Kept
  <1>2. CASE Snapshot!Fetch
    BY <1>2 DEF Snapshot!Fetch, Snapshot!Served, SnapshotInv, SnapshotTypes, HasAllBefore, Kept
  <1>3. CASE Snapshot!Upsert
    BY <1>3 DEF Snapshot!Upsert, Snapshot!Upserted, SnapshotInv, SnapshotTypes, HasAllBefore, Kept
  <1>4. CASE Snapshot!Record
    BY <1>4 DEF Snapshot!Record, SnapshotInv, SnapshotTypes, HasAllBefore, Kept
  <1>5. CASE Snapshot!End
    BY <1>5 DEF Snapshot!End, SnapshotInv, SnapshotTypes, HasAllBefore, Kept
  <1>6. CASE Snapshot!Midnight
    BY <1>6 DEF Snapshot!Midnight, SnapshotInv, SnapshotTypes, HasAllBefore, Kept
  <1>7. CASE Snapshot!Reclassify
    <2>1. UNCHANGED <<day, store, fetchedAt, snapPc, today, payload>>
      BY <1>7 DEF Snapshot!Reclassify
    <2>2. \A r \in source' : r \in source \/ r \in [in : Nat, out : Nat, pub : {day}]
      BY <1>7, Publishing DEF SnapshotInv
    <2>3. source' \subseteq [in : Nat, out : Nat, pub : 0 .. day]
      BY <2>2 DEF SnapshotInv, SnapshotTypes
    <2>4. fetchedAt # 0 => \A r \in source' : r.pub < fetchedAt - 1 => Kept(r) \in store
      BY <2>2 DEF SnapshotInv, SnapshotTypes, HasAllBefore
    <2>5. snapPc = "upserting" => \A r \in source' : r.pub < today => Kept(r) \in payload
      BY <2>2 DEF SnapshotInv, SnapshotTypes, HasAllBefore
    <2>6. snapPc \in {"recording", "refreshed"} =>
            \A r \in source' : r.pub < today => Kept(r) \in store
      BY <2>2 DEF SnapshotInv, SnapshotTypes, HasAllBefore
    <2> QED
      BY <2>1, <2>3, <2>4, <2>5, <2>6 DEF SnapshotInv, SnapshotTypes, HasAllBefore, Kept
  <1> QED
    BY <1>1, <1>2, <1>3, <1>4, <1>5, <1>6, <1>7 DEF Snapshot!Next

LEMMA SnapshotIsBounded == SnapshotInv => BoundedStaleness
  BY InstancesAssumption
     DEF SnapshotInv, SnapshotTypes, HasAllBefore, Kept, BoundedStaleness,
         Snapshot!BoundedStaleness, Snapshot!SnapshotAssumption

(* SnapshotCache: what a dimension call returns misses nothing that the    *)
(* vendor had published more than refresh_dimension_days before the day    *)
(* the run has pinned, wherever earlier calls were killed and although a   *)
(* fetch that crosses midnight is recorded under the later date.           *)
THEOREM StalenessIsBounded == MCSpec => []BoundedStaleness
PROOF
  <1>1. SnapshotInv /\ [MCNext]_mcVars => SnapshotInv'
    BY SnapshotStep, SnapshotStutter, Zenon DEF MCNext, mcVars
  <1> QED
    BY <1>1, SnapshotInit, SnapshotIsBounded, PTL DEF MCSpec

(* Rows are memberships of others: each began on the same day as one of    *)
(* them and ends with it, or was read while that one still ran.            *)
Traced(rows, others) ==
    \A s \in rows : \E r \in others : s.in = r.in /\ (s.out = r.out \/ s.out = Snapshot!Open)

(* The vendor ends a membership and never takes one back, so what was ever *)
(* fetched remains traced in the source, and the stored rows in the answer *)
(* of a fetch that came after theirs.                                      *)
LingerInv ==
    /\ day \in Nat
    /\ source \subseteq [in : Nat, out : Nat, pub : Nat]
    /\ store \subseteq [in : Nat, out : Nat]
    /\ payload \subseteq [in : Nat, out : Nat]
    /\ Traced(store, source) /\ Traced(payload, source)
    /\ snapPc \in {"upserting", "recording", "refreshed"} => Traced(store, payload)
    /\ snapPc \in {"recording", "refreshed"} => payload \subseteq store

LEMMA LingerInit == MCInit => LingerInv
  BY InstancesAssumption
     DEF MCInit, Snapshot!Init, LingerInv, Traced

LEMMA LingerStutter == LingerInv /\ UNCHANGED snapVars => LingerInv'
  BY DEF LingerInv, Traced, snapVars

(* A membership keeps its first day when it ends.                          *)
LEMMA NoneTakenBack ==
  ASSUME LingerInv, Snapshot!Reclassify
  PROVE  /\ source' \subseteq [in : Nat, out : Nat, pub : Nat]
         /\ \A rows \in SUBSET [in : Nat, out : Nat] :
              Traced(rows, source) => Traced(rows, source')
PROOF
  <1>1. PICK ended \in SUBSET {r \in source : r.out = Snapshot!Open}, starts \in BOOLEAN :
          source' = (source \ ended)
             \cup {[r EXCEPT !.out = day, !.pub = day] : r \in ended}
             \cup (IF starts THEN {[in |-> day, out |-> Snapshot!Open, pub |-> day]} ELSE {})
    BY DEF Snapshot!Reclassify
  <1>2. \A r \in ended :
          /\ [r EXCEPT !.out = day, !.pub = day] \in [in : Nat, out : Nat, pub : Nat]
          /\ [r EXCEPT !.out = day, !.pub = day] \in source'
          /\ [r EXCEPT !.out = day, !.pub = day].in = r.in
    BY <1>1 DEF LingerInv
  <1>3. [in |-> day, out |-> Snapshot!Open, pub |-> day] \in [in : Nat, out : Nat, pub : Nat]
    BY DEF LingerInv, Snapshot!Open
  <1>4. source' \subseteq [in : Nat, out : Nat, pub : Nat]
    BY <1>1, <1>2, <1>3 DEF LingerInv
  <1>5. \A r \in source :
          \E n \in source' : n.in = r.in /\ (n.out = r.out \/ r.out = Snapshot!Open)
    <2> SUFFICES ASSUME NEW r \in source
                 PROVE  \E n \in source' :
                          n.in = r.in /\ (n.out = r.out \/ r.out = Snapshot!Open)
      OBVIOUS
    <2>1. CASE r \in ended
      BY <1>1, <1>2, <2>1
    <2>2. CASE r \notin ended
      BY <1>1, <2>2
    <2> QED
      BY <2>1, <2>2
  <1> QED
    BY <1>4, <1>5 DEF Traced

LEMMA LingerStep == LingerInv /\ Snapshot!Next => LingerInv'
PROOF
  <1> SUFFICES ASSUME LingerInv, Snapshot!Next PROVE LingerInv'
    OBVIOUS
  <1>1. CASE \E forced \in BOOLEAN : Snapshot!Begin(forced)
    BY <1>1 DEF Snapshot!Begin, LingerInv, Traced
  <1>2. CASE Snapshot!Fetch
    <2>1. payload' = {Kept(r) : r \in source}
      BY <1>2 DEF Snapshot!Fetch, Snapshot!Served, Kept
    <2>2. payload' \subseteq [in : Nat, out : Nat]
      BY <2>1 DEF LingerInv, Kept
    <2>3. Traced(payload', source)
      BY <2>1 DEF Traced, Kept
    <2>4. Traced(store, payload')
      <3>1. \A r \in source : /\ Kept(r) \in payload'
                              /\ Kept(r).in = r.in /\ Kept(r).out = r.out
        BY <2>1 DEF Kept
      <3>2. Traced(store, source)
        BY DEF LingerInv
      <3> QED
        BY <3>1, <3>2 DEF Traced
    <2>5. store = {} \/ payload' # {}
      BY <2>4 DEF Traced
    <2> QED
      BY <1>2, <2>1, <2>2, <2>3, <2>4, <2>5 DEF Snapshot!Fetch, Snapshot!Served, LingerInv, Traced, Kept
  <1>3. CASE Snapshot!Upsert
    BY <1>3 DEF Snapshot!Upsert, Snapshot!Upserted, LingerInv, Traced
  <1>4. CASE Snapshot!Record
    BY <1>4 DEF Snapshot!Record, LingerInv, Traced
  <1>5. CASE Snapshot!End
    BY <1>5 DEF Snapshot!End, LingerInv, Traced
  <1>6. CASE Snapshot!Midnight
    BY <1>6 DEF Snapshot!Midnight, LingerInv, Traced
  <1>7. CASE Snapshot!Reclassify
    <2>1. UNCHANGED <<day, store, snapPc, payload>>
      BY <1>7 DEF Snapshot!Reclassify
    <2>2. Traced(store, source') /\ Traced(payload, source')
      BY <1>7, NoneTakenBack DEF LingerInv
    <2> QED
      BY <1>7, <2>1, <2>2, NoneTakenBack DEF LingerInv, Traced
  <1> QED
    BY <1>1, <1>2, <1>3, <1>4, <1>5, <1>6, <1>7 DEF Snapshot!Next

(* Of the memberships that cover a day, one began last.                    *)
Covering(rows, d) == {r \in rows : r.in <= d /\ (r.out = Snapshot!Open \/ d < r.out)}

LEMMA LastToBegin ==
  ASSUME NEW rows \in SUBSET [in : Nat, out : Nat], NEW d \in Nat,
         Covering(rows, d) # {}
  PROVE  \E m \in Covering(rows, d) :
           /\ \A o \in Covering(rows, d) : o.in <= m.in
           /\ Snapshot!Join(rows, d) = {m.in}
PROOF
  <1> DEFINE Back == {d - r.in : r \in Covering(rows, d)}
  <1>1. Back \subseteq Nat /\ Back # {}
    BY DEF Covering
  <1>2. PICK least \in Back : \A b \in Back : <<b, least>> \notin OpToRel(<, Nat)
    BY <1>1, NatLessThanWellFounded, WFMin
  <1>3. \A b \in Back : least <= b
    <2>1. \A b \in Back : ~(b < least)
      BY <1>1, <1>2 DEF OpToRel
    <2>2. \A b \in Back : b \in Nat /\ least \in Nat
      BY <1>1
    <2> HIDE DEF Back
    <2> QED
      BY <2>1, <2>2
  <1>4. PICK m \in Covering(rows, d) : least = d - m.in
    BY <1>2
  <1>5. \A o \in Covering(rows, d) : o.in <= m.in
    BY <1>3, <1>4 DEF Covering
  <1>6. Snapshot!Join(rows, d) =
          {r.in : r \in {c \in Covering(rows, d) : \A o \in Covering(rows, d) : o.in <= c.in}}
    BY DEF Snapshot!Join, Covering
  <1>7. \A c \in Covering(rows, d) :
          (\A o \in Covering(rows, d) : o.in <= c.in) => c.in = m.in
    BY <1>5 DEF Covering
  <1> QED
    BY <1>5, <1>6, <1>7

LEMMA LingerHolds == LingerInv => OnlyEndedOnesLinger
PROOF
  <1> SUFFICES ASSUME LingerInv, snapPc = "refreshed", NEW d \in Snapshot!Days,
                      Snapshot!Join(store, d) # Snapshot!Join(payload, d)
               PROVE  \E r \in payload :
                        r.out \in 1 .. d /\ Snapshot!Join(store, d) = {r.in}
    BY DEF OnlyEndedOnesLinger, Snapshot!OnlyEndedOnesLinger
  <1>1. d \in Nat
    BY InstancesAssumption DEF Snapshot!Days, Snapshot!SnapshotAssumption
  <1>2. Covering(payload, d) \subseteq Covering(store, d)
    BY DEF LingerInv, Covering
  <1>3. Covering(store, d) # {}
    <2> SUFFICES ASSUME Covering(store, d) = {} PROVE FALSE
      OBVIOUS
    <2>1. Covering(payload, d) = {}
      BY <1>2
    <2> QED
      BY <2>1 DEF Snapshot!Join, Covering
  <1>4. PICK m \in Covering(store, d) :
          /\ \A o \in Covering(store, d) : o.in <= m.in
          /\ Snapshot!Join(store, d) = {m.in}
    BY <1>1, <1>3, LastToBegin DEF LingerInv
  <1>5. PICK q \in payload : m.in = q.in /\ (m.out = q.out \/ m.out = Snapshot!Open)
    BY DEF LingerInv, Traced, Covering
  <1>6. q \notin Covering(payload, d)
    <2> SUFFICES ASSUME q \in Covering(payload, d) PROVE FALSE
      OBVIOUS
    <2>1. PICK n \in Covering(payload, d) :
            /\ \A o \in Covering(payload, d) : o.in <= n.in
            /\ Snapshot!Join(payload, d) = {n.in}
      BY <1>1, LastToBegin DEF LingerInv
    <2>2. n.in <= m.in /\ q.in <= n.in
      BY <1>2, <1>4, <2>1
    <2>3. n.in = m.in
      BY <1>5, <2>2 DEF LingerInv, Covering
    <2> QED
      BY <1>4, <2>1, <2>3
  <1>7. q.in <= d /\ q.out \in Nat
    BY <1>5 DEF LingerInv, Covering
  <1>8. q.out \in 1 .. d
    BY <1>1, <1>6, <1>7 DEF Covering, Snapshot!Open
  <1> QED
    BY <1>4, <1>5, <1>8

(* SnapshotCache: the exact extent of the divergence the run               *)
(* snapshot_reopens shows.  Whatever was refreshed, killed and published   *)
(* before, a day that is joined to another industry than a direct fetch    *)
(* says is joined to one that the same fetch shows to have ended by then.  *)
THEOREM OnlyEndedMembershipsLinger == MCSpec => []OnlyEndedOnesLinger
PROOF
  <1>1. LingerInv /\ [MCNext]_mcVars => LingerInv'
    BY LingerStep, LingerStutter, Zenon DEF MCNext, mcVars
  <1> QED
    BY <1>1, LingerInit, LingerHolds, PTL DEF MCSpec
-----------------------------------------------------------------------------
(* The run registry.                                                       *)

Records == [factor : Registry!Factors, status : Registry!Statuses]

RegistryTypes ==
    /\ log \in Seq(Records)
    /\ runPc \in [Runs -> {"idle", "seeding", "evaluating", "refused"}]
    /\ subject \in [Runs -> Registry!Factors]
    /\ seeded \in [Runs -> Nat]

(* Only declared ids are ever recorded as book; until a human edits the    *)
(* registry, a seeding run's records are all in force.                     *)
Seeding(r) ==
    /\ retired = {} /\ seeded[r] < Len(BookSeq)
    /\ \A i \in 1 .. seeded[r] : BookSeq[i] \in Registry!CurrentBook(log)

RegistryInv ==
    /\ RegistryTypes
    /\ \A i \in DOMAIN log : log[i].status = "book" => log[i].factor \in Registry!BookIds
    /\ log = << >> => retired = {}
    /\ Registry!CurrentBook(log) \cap retired = {}
    /\ \A r \in Runs : runPc[r] = "evaluating" => Registry!CurrentBook(log) = Registry!BookIds
    /\ \A r \in Runs : runPc[r] = "seeding" => Seeding(r)

(* A record decides for its factor and for no other.                       *)
LEMMA LatestWins ==
  ASSUME NEW book \in Seq(Records), NEW g \in Registry!Factors,
         NEW status \in Registry!Statuses
  PROVE  Registry!CurrentBook(Append(book, [factor |-> g, status |-> status])) =
           (Registry!CurrentBook(book) \ {g}) \cup (IF status = "book" THEN {g} ELSE {})
PROOF
  <1> DEFINE rec == [factor |-> g, status |-> status]
             longer == Append(book, rec)
  <1>1. /\ DOMAIN longer = 1 .. Len(book) + 1
        /\ \A i \in DOMAIN book : longer[i] = book[i]
        /\ longer[Len(book) + 1] = rec
        /\ DOMAIN book = 1 .. Len(book) /\ Len(book) \in Nat
    BY DEF Records
  <1>2. rec.factor = g /\ rec.status = status
    OBVIOUS
  <1> HIDE DEF longer, rec
  <1>3. ASSUME NEW h \in Registry!Factors, h # g
        PROVE  h \in Registry!CurrentBook(longer) <=> h \in Registry!CurrentBook(book)
    <2>1. ASSUME h \in Registry!CurrentBook(longer) PROVE h \in Registry!CurrentBook(book)
      <3>1. PICK i \in DOMAIN longer :
              /\ longer[i] = [factor |-> h, status |-> "book"]
              /\ \A j \in DOMAIN longer : j > i => longer[j].factor # h
        BY <2>1 DEF Registry!CurrentBook
      <3>2. i \in DOMAIN book
        BY <1>1, <1>2, <1>3, <3>1
      <3> QED
        BY <1>1, <3>1, <3>2 DEF Registry!CurrentBook
    <2>2. ASSUME h \in Registry!CurrentBook(book) PROVE h \in Registry!CurrentBook(longer)
      <3>1. PICK i \in DOMAIN book :
              /\ book[i] = [factor |-> h, status |-> "book"]
              /\ \A j \in DOMAIN book : j > i => book[j].factor # h
        BY <2>2 DEF Registry!CurrentBook
      <3>2. \A j \in DOMAIN longer : j > i => longer[j].factor # h
        BY <1>1, <1>2, <1>3, <3>1
      <3> QED
        BY <1>1, <3>1, <3>2 DEF Registry!CurrentBook
    <2> QED
      BY <2>1, <2>2
  <1>4. g \in Registry!CurrentBook(longer) <=> status = "book"
    <2>1. Len(book) + 1 \in DOMAIN longer
      BY <1>1
    <2>2. ASSUME status = "book" PROVE g \in Registry!CurrentBook(longer)
      <3>1. \A j \in DOMAIN longer : ~(j > Len(book) + 1)
        BY <1>1
      <3>2. longer[Len(book) + 1] = [factor |-> g, status |-> "book"]
        BY <1>1, <2>2 DEF rec
      <3> QED
        BY <2>1, <3>1, <3>2 DEF Registry!CurrentBook
    <2>3. ASSUME g \in Registry!CurrentBook(longer) PROVE status = "book"
      <3>1. PICK i \in DOMAIN longer :
              /\ longer[i] = [factor |-> g, status |-> "book"]
              /\ \A j \in DOMAIN longer : j > i => longer[j].factor # g
        BY <2>3 DEF Registry!CurrentBook
      <3>2. i = Len(book) + 1
        BY <1>1, <1>2, <2>1, <3>1
      <3> QED
        BY <1>1, <1>2, <3>1, <3>2
    <2> QED
      BY <2>2, <2>3
  <1>5. \A s : Registry!CurrentBook(s) \subseteq Registry!Factors
    BY DEF Registry!CurrentBook
  <1> QED
    BY <1>3, <1>4, <1>5 DEF longer, rec

(* The declared ids are factors, in an order.                              *)
LEMMA DeclaredBook ==
  /\ Registry!BookIds \subseteq Registry!Factors
  /\ BookSeq \in Seq(Registry!BookIds) /\ Len(BookSeq) \in Nat \ {0}
  /\ \A g \in Registry!BookIds : \E i \in 1 .. Len(BookSeq) : g = BookSeq[i]
  BY InstancesAssumption
     DEF Registry!EvalRegistryAssumption, Registry!Factors, Registry!BookIds, Registry!ToSet
LEMMA AppendedRecord ==
  ASSUME RegistryInv, NEW g \in Registry!Factors, NEW status \in Registry!Statuses,
         Registry!Append1(g, status), status = "book" => g \in Registry!BookIds
  PROVE  /\ log' \in Seq(Records) /\ log' # << >>
         /\ \A i \in DOMAIN log' : log'[i].status = "book" => log'[i].factor \in Registry!BookIds
         /\ Registry!CurrentBook(log') =
              (Registry!CurrentBook(log) \ {g}) \cup (IF status = "book" THEN {g} ELSE {})
PROOF
  <1> DEFINE rec == [factor |-> g, status |-> status]
  <1>1. rec \in Records /\ rec.factor = g /\ rec.status = status
    BY DEF Records
  <1>2. log' = Append(log, rec)
    BY DEF Registry!Append1
  <1> HIDE DEF rec
  <1>3. /\ log \in Seq(Records)
        /\ \A i \in DOMAIN log : log[i].status = "book" => log[i].factor \in Registry!BookIds
    BY DEF RegistryInv, RegistryTypes
  <1>4. /\ log' \in Seq(Records) /\ log' # << >>
        /\ DOMAIN log' = 1 .. Len(log) + 1 /\ DOMAIN log = 1 .. Len(log)
        /\ \A i \in DOMAIN log : log'[i] = log[i]
        /\ log'[Len(log) + 1] = rec
    BY <1>1, <1>2, <1>3
  <1>5. \A i \in DOMAIN log' : i \in DOMAIN log \/ i = Len(log) + 1
    BY <1>3, <1>4
  <1>6. \A i \in DOMAIN log' : log'[i].status = "book" => log'[i].factor \in Registry!BookIds
    BY <1>1, <1>3, <1>4, <1>5
  <1>7. Registry!CurrentBook(Append(log, rec)) =
          (Registry!CurrentBook(log) \ {g}) \cup (IF status = "book" THEN {g} ELSE {})
    BY <1>3, LatestWins DEF rec
  <1> QED
    BY <1>2, <1>4, <1>6, <1>7

(* The registered book holds declared ids only.                            *)
LEMMA BookIsDeclared == RegistryInv => Registry!CurrentBook(log) \subseteq Registry!BookIds
PROOF
  <1> SUFFICES ASSUME RegistryInv, NEW g \in Registry!CurrentBook(log)
               PROVE  g \in Registry!BookIds
    OBVIOUS
  <1>1. PICK i \in DOMAIN log : log[i] = [factor |-> g, status |-> "book"]
    BY DEF Registry!CurrentBook
  <1> QED
    BY <1>1 DEF RegistryInv

LEMMA RegistryInit == MCInit => RegistryInv
  BY DeclaredBook
     DEF MCInit, Registry!Init, RegistryInv, RegistryTypes, Registry!CurrentBook

LEMMA RegistryStutter == RegistryInv /\ UNCHANGED runVars => RegistryInv'
  BY DEF RegistryInv, RegistryTypes, Seeding, runVars, Registry!CurrentBook

LEMMA RegistryStart ==
  ASSUME RegistryInv, NEW r \in Runs, Registry!Start(r)
  PROVE  RegistryInv'
PROOF
  <1>1. /\ log' = log /\ retired' = retired /\ RegistryTypes'
        /\ \A q \in Runs \ {r} : runPc'[q] = runPc[q] /\ seeded'[q] = seeded[q]
        /\ seeded'[r] = 0
    BY DEF Registry!Start, RegistryInv, RegistryTypes
  <1>2. /\ runPc'[r] = "seeding" => log = << >>
        /\ runPc'[r] = "evaluating" => Registry!CurrentBook(log) = Registry!BookIds
    BY DEF Registry!Start, RegistryInv, RegistryTypes
  <1>3. \A q \in Runs : runPc'[q] = "seeding" => Seeding(q)'
    BY <1>1, <1>2, DeclaredBook DEF RegistryInv, Seeding
  <1> QED
    BY <1>1, <1>2, <1>3 DEF RegistryInv

(* A seeding run adds declared ids and takes nothing away.                 *)
LEMMA RegistrySeed ==
  ASSUME RegistryInv, NEW r \in Runs, Registry!Seed(r)
  PROVE  RegistryInv'
PROOF
  <1> DEFINE g == BookSeq[seeded[r] + 1]
  <1>1. /\ Seeding(r) /\ g \in Registry!BookIds /\ g \in Registry!Factors
        /\ seeded[r] \in Nat /\ Len(BookSeq) \in Nat
    <2>1. Seeding(r)
      BY DEF Registry!Seed, RegistryInv
    <2>2. seeded[r] \in Nat /\ seeded[r] + 1 \in 1 .. Len(BookSeq) /\ Len(BookSeq) \in Nat
      BY <2>1, DeclaredBook DEF RegistryInv, RegistryTypes, Seeding
    <2>3. g \in Registry!BookIds
      BY <2>2, DeclaredBook
    <2> QED
      BY <2>1, <2>2, <2>3, DeclaredBook
  <1>2. /\ Registry!Append1(g, "book")
        /\ seeded' = [seeded EXCEPT ![r] = @ + 1]
        /\ runPc' = [runPc EXCEPT ![r] = IF seeded'[r] = Len(BookSeq) THEN "evaluating" ELSE @]
        /\ UNCHANGED <<subject, retired>> /\ runPc[r] = "seeding"
    BY DEF Registry!Seed
  <1> HIDE DEF g
  <1>3. /\ log' \in Seq(Records) /\ log' # << >>
        /\ \A i \in DOMAIN log' : log'[i].status = "book" => log'[i].factor \in Registry!BookIds
        /\ Registry!CurrentBook(log') = Registry!CurrentBook(log) \cup {g}
    BY <1>1, <1>2, AppendedRecord DEF Registry!Statuses
  <1>4. /\ seeded'[r] = seeded[r] + 1 /\ seeded' \in [Runs -> Nat]
        /\ \A q \in Runs \ {r} : runPc'[q] = runPc[q] /\ seeded'[q] = seeded[q]
        /\ runPc' \in [Runs -> {"idle", "seeding", "evaluating", "refused"}]
    BY <1>1, <1>2 DEF RegistryInv, RegistryTypes
  <1>5. RegistryTypes'
    BY <1>2, <1>3, <1>4 DEF RegistryInv, RegistryTypes
  <1>6. \A i \in 1 .. seeded'[r] : BookSeq[i] \in Registry!CurrentBook(log')
    <2> SUFFICES ASSUME NEW i \in 1 .. seeded'[r]
                 PROVE  BookSeq[i] \in Registry!CurrentBook(log')
      OBVIOUS
    <2>1. i \in 1 .. seeded[r] \/ i = seeded[r] + 1
      BY <1>1, <1>4
    <2> QED
      BY <1>1, <1>3, <2>1 DEF Seeding, g
  <1>7. Registry!CurrentBook(log') \subseteq Registry!BookIds
    BY <1>1, <1>3, BookIsDeclared
  <1>8. runPc'[r] = "evaluating" => Registry!CurrentBook(log') = Registry!BookIds
    <2>1. runPc'[r] = "evaluating" => seeded'[r] = Len(BookSeq)
      BY <1>2 DEF RegistryInv, RegistryTypes
    <2> QED
      BY <1>6, <1>7, <2>1, DeclaredBook
  <1>9. \A q \in Runs \ {r} : runPc'[q] = "evaluating" =>
          Registry!CurrentBook(log') = Registry!BookIds
    BY <1>1, <1>3, <1>4 DEF RegistryInv
  <1>10. \A q \in Runs : runPc'[q] = "seeding" => Seeding(q)'
    <2>1. runPc'[r] = "seeding" => seeded'[r] < Len(BookSeq)
      BY <1>1, <1>2, <1>4 DEF RegistryInv, RegistryTypes, Seeding
    <2>2. runPc'[r] = "seeding" => Seeding(r)'
      BY <1>1, <1>2, <1>6, <2>1 DEF Seeding
    <2>3. \A q \in Runs \ {r} : runPc'[q] = "seeding" => Seeding(q)'
      BY <1>2, <1>3, <1>4 DEF RegistryInv, Seeding
    <2> QED
      BY <2>2, <2>3
  <1> QED
    BY <1>1, <1>2, <1>3, <1>5, <1>8, <1>9, <1>10 DEF RegistryInv, Seeding

(* A run that ends records a member of the book as book again.             *)
LEMMA RegistryFinish ==
  ASSUME RegistryInv, NEW r \in Runs, Registry!Finish(r)
  PROVE  RegistryInv'
PROOF
  <1> DEFINE g == subject[r]
  <1>1. PICK v \in Registry!Verdicts : Registry!Append1(g, Registry!StatusForRun(g, v))
    BY DEF Registry!Finish
  <1> DEFINE s == Registry!StatusForRun(g, v)
  <1>2. /\ g \in Registry!Factors /\ s \in Registry!Statuses
        /\ s = "book" <=> g \in Registry!BookIds
    BY DEF RegistryInv, RegistryTypes, Registry!StatusForRun, Registry!Statuses
  <1>3. /\ runPc[r] = "evaluating" /\ runPc' = [runPc EXCEPT ![r] = "idle"]
        /\ UNCHANGED <<subject, seeded, retired>>
    BY DEF Registry!Finish
  <1> HIDE DEF g, s
  <1>4. Registry!CurrentBook(log) = Registry!BookIds
    BY <1>3 DEF RegistryInv
  <1>5. /\ log' \in Seq(Records) /\ log' # << >>
        /\ \A i \in DOMAIN log' : log'[i].status = "book" => log'[i].factor \in Registry!BookIds
        /\ Registry!CurrentBook(log') =
             (Registry!CurrentBook(log) \ {g}) \cup (IF s = "book" THEN {g} ELSE {})
    BY <1>1, <1>2, AppendedRecord DEF s
  <1>6. Registry!CurrentBook(log') = Registry!CurrentBook(log)
    BY <1>2, <1>4, <1>5
  <1>7. /\ RegistryTypes'
        /\ \A q \in Runs : runPc'[q] # "idle" => runPc'[q] = runPc[q]
    BY <1>3, <1>5 DEF RegistryInv, RegistryTypes
  <1> QED
    BY <1>3, <1>5, <1>6, <1>7 DEF RegistryInv, Seeding

LEMMA RegistryStop ==
  ASSUME RegistryInv, NEW r \in Runs, Registry!Stop(r)
  PROVE  RegistryInv'
PROOF
  <1>1. /\ UNCHANGED <<log, seeded, retired>> /\ RegistryTypes'
        /\ \A q \in Runs : runPc'[q] # "idle" => runPc'[q] = runPc[q]
    BY DEF Registry!Stop, RegistryInv, RegistryTypes
  <1> QED
    BY <1>1 DEF RegistryInv, Seeding

(* A human edits the registry beside no run.                               *)
LEMMA RegistryCurate ==
  ASSUME RegistryInv, Quiet = TRUE, NEW g \in Registry!BookIds,
         NEW status \in {"book", "retired"}, Registry!Curate(g, status)
  PROVE  RegistryInv'
PROOF
  <1>1. /\ Registry!Append1(g, status) /\ UNCHANGED <<runPc, subject, seeded>>
        /\ retired' = IF status = "retired" THEN retired \cup {g} ELSE retired \ {g}
        /\ \A r \in Runs : runPc[r] # "seeding" /\ runPc[r] # "evaluating"
    BY DEF Registry!Curate
  <1>2. /\ log' \in Seq(Records) /\ log' # << >>
        /\ \A i \in DOMAIN log' : log'[i].status = "book" => log'[i].factor \in Registry!BookIds
        /\ Registry!CurrentBook(log') =
             (Registry!CurrentBook(log) \ {g}) \cup (IF status = "book" THEN {g} ELSE {})
    BY <1>1, AppendedRecord, DeclaredBook DEF Registry!Statuses
  <1>3. Registry!CurrentBook(log') \cap retired' = {}
    BY <1>1, <1>2 DEF RegistryInv
  <1>4. RegistryTypes'
    BY <1>1, <1>2 DEF RegistryInv, RegistryTypes
  <1> QED
    BY <1>1, <1>2, <1>3, <1>4 DEF RegistryInv

(* EvalRegistry: as long as humans edit the registry beside no run, no     *)
(* run takes a factor out of the book or brings a retired one back,        *)
(* however many bootstrap it at once and wherever they are killed; and     *)
(* every run that evaluates does so with the book the registry names.      *)
THEOREM BookOnlyByHand ==
  ASSUME Quiet = TRUE
  PROVE  MCSpec => []BookIsCurated
PROOF
  <1>1. RegistryInv /\ Registry!Next => RegistryInv'
    <2> SUFFICES ASSUME RegistryInv, Registry!Next PROVE RegistryInv'
      OBVIOUS
    <2>1. CASE \E r \in Runs : Registry!Start(r) \/ Registry!Seed(r)
                               \/ Registry!Finish(r) \/ Registry!Stop(r)
      BY <2>1, RegistryStart, RegistrySeed, RegistryFinish, RegistryStop
    <2>2. CASE \E g \in Registry!BookIds, s \in {"book", "retired"} : Registry!Curate(g, s)
      BY <2>2, RegistryCurate
    <2> QED
      BY <2>1, <2>2 DEF Registry!Next
  <1>2. RegistryInv /\ [MCNext]_mcVars => RegistryInv'
    BY <1>1, RegistryStutter, Zenon DEF MCNext, mcVars
  <1>3. RegistryInv => BookIsCurated
    BY DEF RegistryInv, BookIsCurated, Registry!BookIsCurated
  <1> QED
    BY <1>2, <1>3, RegistryInit, PTL DEF MCSpec
-----------------------------------------------------------------------------
(* The concurrent read-through.                                            *)

PoolTypes ==
    /\ poolSource \in [Pooled!Gap -> Nat] /\ poolStore \in [Pooled!Gap -> Nat]
    /\ poolLedger \subseteq Pooled!Gap
    /\ poolPc \in {"idle", "fetch", "write", "record", "returned", "raised", "drift"}
    /\ plan \subseteq Pooled!Gap /\ left \subseteq plan
    /\ task \in [Pooled!Gap -> {"none", "queued", "running", "ok", "error"}]
    /\ answer \in [Pooled!Gap -> Nat] /\ failed \in Nat
    /\ poolBase \in [Pooled!Gap -> Nat] /\ poolKnown \in [Pooled!Gap -> Nat]

(* The vendor serves at least what is stored, answered, or was served when *)
(* the call began.                                                         *)
PoolTimes ==
    \A k \in Pooled!Gap :
      /\ poolStore[k] <= poolSource[k] /\ answer[k] <= poolSource[k]
      /\ poolBase[k] <= poolSource[k]

(* The plan misses claimed gaps only; a claimed gap it holds is trailing,  *)
(* or has been answered by this call.                                      *)
Planned ==
    /\ poolPc # "idle" => \A k \in Pooled!Gap : k \in plan \/ k \in poolLedger
    /\ \A k \in plan : task[k] # "ok" => k \notin poolLedger \/ k \in Trailing
    /\ poolPc = "idle" => plan = {}

(* Where the threads are: the write loop begins when all of them ended.    *)
Threads ==
    /\ poolPc # "fetch" => \A k \in Pooled!Gap : task[k] # "running"
    /\ \A k \in Pooled!Gap : k \notin plan => task[k] = "none"
    /\ poolPc \notin {"idle", "fetch"} => \A k \in plan : task[k] \in {"ok", "error"}
    /\ poolPc = "fetch" => left = plan /\ failed = 0
    /\ \A k \in plan : task[k] = "ok" => answer[k] >= poolBase[k]

(* The gaps the write loop has passed are settled; the others are not      *)
(* touched, but for the one that is stored and not recorded yet.           *)
WriteLoop ==
    /\ \A k \in plan \ left : task[k] = "ok" => k \in poolLedger /\ poolStore[k] >= answer[k]
    /\ \A k \in left : task[k] = "ok" => answer[k] >= poolStore[k]
    /\ poolPc = "record" =>
         \A k \in left : Pooled!IsNext(k) => task[k] = "ok" /\ poolStore[k] >= answer[k]

FirstFailure ==
    /\ failed = 0 => \A k \in plan \ left : task[k] # "error"
    /\ failed # 0 => /\ failed \in plan \ left /\ task[failed] = "error"
                     /\ \A k \in plan : task[k] = "error" => failed <= k
    /\ poolPc \in {"returned", "raised"} => left = {}
    /\ poolPc = "returned" => failed = 0
    /\ poolPc = "raised" => failed # 0

PoolInv ==
    /\ PoolTypes /\ PoolTimes /\ Planned /\ Threads /\ WriteLoop /\ FirstFailure
    /\ Pooled!ClaimsAreStored

LEMMA PoolInit == MCInit => PoolInv
  BY DEF MCInit, Pooled!Init, Pooled!NoneKnown, Pooled!Idle, PoolInv, PoolTypes, PoolTimes,
         Planned, Threads, WriteLoop, FirstFailure, Pooled!ClaimsAreStored, Pooled!IsNext

LEMMA PoolStutter == PoolInv /\ UNCHANGED poolVars => PoolInv'
  BY DEF poolVars, PoolInv, PoolTypes, PoolTimes, Planned, Threads, WriteLoop, FirstFailure,
         Pooled!ClaimsAreStored, Pooled!IsNext

LEMMA PoolPublish ==
  ASSUME PoolInv, NEW k \in Pooled!Gap, Pooled!Publish(k)
  PROVE  PoolInv'
  BY DEF Pooled!Publish, Pooled!callVars, PoolInv, PoolTypes, PoolTimes, Planned, Threads,
         WriteLoop, FirstFailure, Pooled!ClaimsAreStored, Pooled!IsNext

LEMMA PoolPlan ==
  ASSUME PoolInv, Pooled!Plan
  PROVE  PoolInv'
PROOF
  <1>1. /\ plan' = (Pooled!Gap \ poolLedger) \cup Trailing
        /\ left' = plan' /\ failed' = 0 /\ poolPc' = "fetch" /\ poolBase' = poolSource
        /\ task' = [k \in Pooled!Gap |-> IF k \in plan' THEN "queued" ELSE "none"]
        /\ answer' = [k \in Pooled!Gap |-> 0]
        /\ UNCHANGED <<poolSource, poolStore, poolLedger, poolKnown>>
    BY DEF Pooled!Plan, Pooled!NoneKnown
  <1>2. Trailing \subseteq Pooled!Gap
    BY InstancesAssumption DEF Pooled!ConcurrentAssumption
  <1>3. PoolTypes'
    BY <1>1, <1>2 DEF PoolInv, PoolTypes
  <1>4. PoolTimes' /\ Planned'
    BY <1>1 DEF PoolInv, PoolTypes, PoolTimes, Planned
  <1>5. Threads' /\ WriteLoop'
    BY <1>1, <1>3 DEF Threads, WriteLoop, PoolTypes
  <1>6. FirstFailure' /\ Pooled!ClaimsAreStored'
    BY <1>1, <1>3 DEF FirstFailure, PoolInv, Pooled!ClaimsAreStored
  <1> QED
    BY <1>3, <1>4, <1>5, <1>6 DEF PoolInv

LEMMA PoolTask ==
  ASSUME PoolInv, NEW k \in Pooled!Gap, Pooled!Pool(k)
  PROVE  PoolInv'
PROOF
  <1>1. /\ UNCHANGED <<poolSource, poolStore, poolLedger, poolPc, plan, left, failed,
                       poolBase, poolKnown>>
        /\ task[k] \in {"queued", "running"} /\ poolPc = "fetch"
        /\ task' \in [Pooled!Gap -> {"none", "queued", "running", "ok", "error"}]
        /\ answer' \in [Pooled!Gap -> Nat]
        /\ \A j \in Pooled!Gap \ {k} : task'[j] = task[j] /\ answer'[j] = answer[j]
        /\ answer'[k] \in {answer[k], poolSource[k]}
        /\ task'[k] = "ok" => answer'[k] = poolSource[k]
        /\ task'[k] # "none"
    BY DEF Pooled!Pool, Pooled!Start, Pooled!Succeed, Pooled!Fail, PoolInv, PoolTypes, Threads
  <1>2. k \in plan
    BY <1>1 DEF PoolInv, Threads
  <1>3. PoolTypes' /\ PoolTimes' /\ Pooled!ClaimsAreStored'
    BY <1>1 DEF PoolInv, PoolTypes, PoolTimes, Pooled!ClaimsAreStored
  <1>4. Planned'
    BY <1>1 DEF PoolInv, Planned, PoolTypes
  <1>5. Threads'
    BY <1>1, <1>2 DEF PoolInv, Threads, PoolTypes, PoolTimes
  <1>6. WriteLoop'
    BY <1>1, <1>2 DEF PoolInv, Threads, WriteLoop, PoolTypes, PoolTimes
  <1>7. FirstFailure'
    BY <1>1, <1>2 DEF PoolInv, Threads, FirstFailure, PoolTypes
  <1> QED
    BY <1>3, <1>4, <1>5, <1>6, <1>7 DEF PoolInv

LEMMA PoolDone ==
  ASSUME PoolInv, Pooled!PoolDone
  PROVE  PoolInv'
  BY DEF Pooled!PoolDone, PoolInv, PoolTypes, PoolTimes, Planned, Threads,
         WriteLoop, FirstFailure, Pooled!ClaimsAreStored, Pooled!IsNext

LEMMA PoolSkips ==
  ASSUME PoolInv, NEW k \in Pooled!Gap, Pooled!SkipFailed(k)
  PROVE  PoolInv'
PROOF
  <1>1. /\ UNCHANGED <<poolSource, poolStore, poolLedger, poolPc, plan, task, answer,
                       poolBase, poolKnown>>
        /\ poolPc = "write" /\ k \in left /\ (\A j \in left : k <= j) /\ task[k] = "error"
        /\ left' = left \ {k} /\ failed' = (IF failed = 0 THEN k ELSE failed)
    BY DEF Pooled!SkipFailed, Pooled!IsNext
  <1>2. k \in Nat /\ k # 0
    BY InstancesAssumption DEF Pooled!Gap, Pooled!ConcurrentAssumption
  <1>3. PoolTypes' /\ PoolTimes' /\ Planned' /\ Threads' /\ Pooled!ClaimsAreStored'
    BY <1>1, <1>2 DEF PoolInv, PoolTypes, PoolTimes, Planned, Threads, Pooled!ClaimsAreStored
  <1>4. WriteLoop'
    BY <1>1 DEF PoolInv, WriteLoop
  <1>5. FirstFailure'
    BY <1>1, <1>2 DEF PoolInv, FirstFailure, PoolTypes
  <1> QED
    BY <1>3, <1>4, <1>5 DEF PoolInv

LEMMA PoolStores ==
  ASSUME PoolInv, NEW k \in Pooled!Gap, Pooled!Store(k)
  PROVE  PoolInv'
PROOF
  <1>1. /\ UNCHANGED <<poolSource, poolLedger, plan, task, answer, left, failed,
                       poolBase, poolKnown>>
        /\ poolPc = "write" /\ poolPc' = "record"
        /\ k \in left /\ (\A j \in left : k <= j) /\ task[k] = "ok"
        /\ poolStore' = [poolStore EXCEPT ![k] = IF answer[k] > 0 THEN answer[k] ELSE @]
    BY DEF Pooled!Store, Pooled!IsNext
  <1>2. poolStore' \in [Pooled!Gap -> Nat] /\ poolStore'[k] = answer[k]
        /\ poolStore[k] <= answer[k] /\ k \notin plan \ left
        /\ \A j \in Pooled!Gap \ {k} : poolStore'[j] = poolStore[j]
    BY <1>1 DEF PoolInv, PoolTypes, WriteLoop
  <1>3. PoolTypes' /\ PoolTimes' /\ Planned' /\ Threads' /\ FirstFailure'
    BY <1>1, <1>2 DEF PoolInv, PoolTypes, PoolTimes, Planned, Threads, FirstFailure
  <1>4. Pooled!ClaimsAreStored'
    BY <1>1, <1>2 DEF PoolInv, PoolTypes, Pooled!ClaimsAreStored
  <1>5. \A j \in left : Pooled!IsNext(j)' => j = k
    BY <1>1, InstancesAssumption
       DEF Pooled!IsNext, PoolInv, PoolTypes, Pooled!Gap, Pooled!ConcurrentAssumption
  <1>6. WriteLoop'
    BY <1>1, <1>2, <1>5 DEF PoolInv, PoolTypes, WriteLoop
  <1> QED
    BY <1>3, <1>4, <1>6 DEF PoolInv

LEMMA PoolRecords ==
  ASSUME PoolInv, NEW k \in Pooled!Gap, Pooled!Record(k)
  PROVE  PoolInv'
PROOF
  <1>1. /\ UNCHANGED <<poolSource, poolStore, plan, task, answer, failed, poolBase>>
        /\ poolPc = "record" /\ poolPc' = "write" /\ k \in left
        /\ poolLedger' = poolLedger \cup {k} /\ left' = left \ {k}
        /\ poolKnown' = [poolKnown EXCEPT ![k] = answer[k]]
    BY DEF Pooled!Record, Pooled!IsNext
  <1>2. task[k] = "ok" /\ poolStore[k] >= answer[k]
    BY DEF Pooled!Record, PoolInv, WriteLoop, Pooled!IsNext
  <1>3. PoolTypes' /\ PoolTimes' /\ Planned' /\ Threads' /\ FirstFailure'
    BY <1>1, <1>2 DEF PoolInv, PoolTypes, PoolTimes, Planned, Threads, FirstFailure
  <1>4. Pooled!ClaimsAreStored'
    BY <1>1, <1>2 DEF PoolInv, PoolTypes, Pooled!ClaimsAreStored
  <1>5. WriteLoop'
    BY <1>1, <1>2 DEF PoolInv, PoolTypes, WriteLoop
  <1> QED
    BY <1>3, <1>4, <1>5 DEF PoolInv

LEMMA PoolEnds ==
  ASSUME PoolInv, (\E k \in Pooled!Gap : Pooled!ParseFails(k)) \/ Pooled!Return
  PROVE  PoolInv'
  BY DEF Pooled!ParseFails, Pooled!Return, PoolInv, PoolTypes, PoolTimes, Planned, Threads,
         WriteLoop, FirstFailure, Pooled!ClaimsAreStored, Pooled!IsNext

LEMMA PoolCrash ==
  ASSUME PoolInv, Pooled!Crash
  PROVE  PoolInv'
  BY DEF Pooled!Crash, Pooled!Idle, Pooled!NoneKnown, PoolInv, PoolTypes, PoolTimes, Planned,
         Threads, WriteLoop, FirstFailure, Pooled!ClaimsAreStored, Pooled!IsNext

LEMMA PoolIsIsolated == PoolInv => FailuresAreIsolated
PROOF
  <1> SUFFICES ASSUME PoolInv PROVE FailuresAreIsolated
    OBVIOUS
  <1>1. Pooled!SuccessesAreDurable
    BY DEF Pooled!SuccessesAreDurable, PoolInv, FirstFailure, WriteLoop
  <1>2. Pooled!FailuresStayRetryable
    BY DEF Pooled!FailuresStayRetryable, PoolInv, Planned
  <1>3. Pooled!RaisesInPlanOrder
    BY DEF Pooled!RaisesInPlanOrder, PoolInv, FirstFailure
  <1>4. Pooled!ReturnIsComplete
    <2> SUFFICES ASSUME poolPc = "returned", NEW k \in Pooled!Gap
                 PROVE  k \in poolLedger /\ (k \in plan => poolStore[k] >= poolBase[k])
      BY DEF Pooled!ReturnIsComplete
    <2>1. CASE k \in plan
      <3>1. task[k] = "ok" /\ answer[k] >= poolBase[k]
        BY <2>1 DEF PoolInv, Threads, FirstFailure
      <3> QED
        BY <2>1, <3>1 DEF PoolInv, PoolTypes, FirstFailure, WriteLoop
    <2>2. CASE k \notin plan
      BY <2>2 DEF PoolInv, Planned
    <2> QED
      BY <2>1, <2>2
  <1> QED
    BY <1>1, <1>2, <1>3, <1>4 DEF FailuresAreIsolated, Pooled!FailuresAreIsolated, PoolInv

(* ConcurrentReadThrough: for any number of gaps and workers and in any    *)
(* order of the answers, a failed gap takes no answered one with it: those *)
(* are stored and claimed when the call ends, the failed ones stay to be   *)
(* fetched again, the failure raised is the first of the plan, and a call  *)
(* that returns holds all the vendor had when it began.                    *)
THEOREM FailedGapsAreIsolated == MCSpec => []FailuresAreIsolated
PROOF
  <1>1. PoolInv /\ Pooled!Next => PoolInv'
    <2> SUFFICES ASSUME PoolInv, Pooled!Next PROVE PoolInv'
      OBVIOUS
    <2>1. CASE \E k \in Pooled!Gap :
                 Pooled!Publish(k) \/ Pooled!Pool(k) \/ Pooled!ParseFails(k)
      BY <2>1, PoolPublish, PoolTask, PoolEnds
    <2>2. CASE Pooled!Write
      BY <2>2, PoolSkips, PoolStores, PoolRecords DEF Pooled!Write
    <2>3. CASE Pooled!Plan \/ Pooled!PoolDone \/ Pooled!Return \/ Pooled!Crash
      BY <2>3, PoolPlan, PoolDone, PoolEnds, PoolCrash
    <2> QED
      BY <2>1, <2>2, <2>3 DEF Pooled!Next
  <1>2. PoolInv /\ [MCNext]_mcVars => PoolInv'
    BY <1>1, PoolStutter, Zenon DEF MCNext, mcVars
  <1> QED
    BY <1>2, PoolInit, PoolIsIsolated, PTL DEF MCSpec
-----------------------------------------------------------------------------
(* The coverage ledger, with one process that writes it.                   *)

LedgerTypes ==
    /\ file \in Ledger!File(Ledger!Content) /\ file.path # Torn
    /\ writes \in Nat /\ records \in 0 .. LedgerRecords /\ writes <= records
    /\ ledgerPc \in [Proc -> Ledger!Phase] /\ batch \in [Proc -> 0 .. LedgerRecords]
    /\ frame \in [Proc -> (SUBSET Ledger!RowIds) \cup {None}]
    /\ frameAt \in [Proc -> Ledger!Mtime] /\ statAt \in [Proc -> Ledger!Mtime]
    /\ known \in [Proc -> SUBSET Ledger!RowIds]

(* The writer alone has the temporary file open, while it writes.          *)
OneHandle ==
    \A p \in Proc :
      /\ file.mixed[p] = FALSE
      /\ file.open[p] = (IF ledgerPc[p] = "write" THEN "tmp" ELSE "none")

(* A call that records has rows, a lookup has none; the bound on the       *)
(* records bounds the writes.                                              *)
Recording ==
    \A p \in Proc :
      /\ ledgerPc[p] \in {"open", "write", "replace", "restat"} => batch[p] # 0
      /\ ledgerPc[p] \in {"idle", "served"} => batch[p] = 0
      /\ batch[p] # 0 => p \in Writer
      /\ batch[p] # 0 /\ ledgerPc[p] \in {"stat", "read", "open", "write"} => writes < records

(* No time was read that the file has not had, and the next one is new.    *)
Mtimes ==
    /\ file.path # Absent => file.path.mtime <= writes
    /\ \A p \in Proc :
         /\ frameAt[p] # Absent =>
              file.path # Absent /\ frameAt[p] \in Nat /\ frameAt[p] <= file.path.mtime
         /\ statAt[p] # Absent =>
              file.path # Absent /\ statAt[p] \in Nat /\ statAt[p] <= file.path.mtime

(* A frame whose time is the file's holds the file's rows; the frame that  *)
(* a writer extends holds them until it has replaced the file.             *)
Frames ==
    \A p \in Proc :
      /\ frame[p] # None /\ frameAt[p] = Ledger!CurrentMtime => frame[p] = Ledger!LedgerRows
      /\ ledgerPc[p] \in {"served", "open", "write", "replace", "restat"} =>
           frame[p] \in SUBSET Ledger!RowIds
      /\ ledgerPc[p] \in {"open", "write", "replace"} => Ledger!LedgerRows \subseteq frame[p]
      /\ ledgerPc[p] = "replace" =>
           /\ file.tmp \in Ledger!Content
           /\ file.tmp.rows = Ledger!Combined(p) /\ file.tmp.mtime = writes
           /\ file.path # Absent => file.path.mtime < writes
      /\ ledgerPc[p] = "restat" =>
           file.path # Absent /\ Ledger!LedgerRows = Ledger!Combined(p)

(* A lookup is owed the rows that were on disk when it began.              *)
Owed ==
    \A p \in Proc : /\ known[p] \subseteq Ledger!LedgerRows
                    /\ ledgerPc[p] = "served" => known[p] \subseteq frame[p]

LedgerInv == LedgerTypes /\ OneHandle /\ Recording /\ Mtimes /\ Frames /\ Owed

LEMMA LedgerConstants ==
  /\ Writer \subseteq Proc /\ LedgerRecords \in Nat /\ Absent # Torn
  /\ Absent \notin Ledger!Content /\ Torn \notin Ledger!Content
  /\ Absent \notin 1 .. LedgerRecords /\ Torn \notin 1 .. LedgerRecords
  BY InstancesAssumption DEF Ledger!LedgerAssumption, Ledger!RowIds

LEMMA LedgerInit == MCInit => LedgerInv
PROOF
  <1> SUFFICES ASSUME MCInit PROVE LedgerInv
    OBVIOUS
  <1>1. Ledger!Init
    BY DEF MCInit
  <1>2. /\ file \in Ledger!File(Ledger!Content) /\ file.path = Absent
        /\ \A p \in Proc : file.mixed[p] = FALSE /\ file.open[p] = "none"
    BY <1>1 DEF Ledger!Init, Ledger!NoFile, Ledger!File, Ledger!Handle
  <1>3. LedgerTypes
    <2>1. /\ writes = 0 /\ records = 0 /\ writes <= records
          /\ ledgerPc \in [Proc -> Ledger!Phase]
      BY <1>1 DEF Ledger!Init, Ledger!Phase
    <2>2. records \in 0 .. LedgerRecords /\ batch \in [Proc -> 0 .. LedgerRecords]
      BY <1>1, <2>1, LedgerConstants DEF Ledger!Init
    <2>4. frame = [p \in Proc |-> None] /\ known = [p \in Proc |-> {}]
      BY <1>1 DEF Ledger!Init
    <2>5. /\ frame \in [Proc -> (SUBSET Ledger!RowIds) \cup {None}]
          /\ known \in [Proc -> SUBSET Ledger!RowIds]
      BY <2>4
    <2>3. frameAt \in [Proc -> Ledger!Mtime] /\ statAt \in [Proc -> Ledger!Mtime]
      BY <1>1 DEF Ledger!Init, Ledger!Mtime
    <2> QED
      BY <1>2, <2>1, <2>2, <2>3, <2>5, LedgerConstants DEF LedgerTypes
  <1>4. OneHandle /\ Recording /\ Mtimes /\ Owed
    BY <1>1, <1>2 DEF Ledger!Init, OneHandle, Recording, Mtimes, Owed
  <1>5. Frames
    BY <1>1 DEF Ledger!Init, Frames
  <1> QED
    BY <1>3, <1>4, <1>5 DEF LedgerInv

LEMMA LedgerStutter == LedgerInv /\ UNCHANGED ledgerVars => LedgerInv'
  BY DEF ledgerVars, LedgerInv, LedgerTypes, OneHandle, Recording, Mtimes, Frames, Owed,
         Ledger!LedgerRows, Ledger!CurrentMtime, Ledger!Combined

(* The file as every process sees it: its rows and its time.               *)
LEMMA FileReads ==
  LedgerTypes =>
    /\ file.path = Absent => Ledger!LedgerRows = {} /\ Ledger!CurrentMtime = Absent
    /\ file.path # Absent => /\ Ledger!LedgerRows = file.path.rows
                             /\ Ledger!CurrentMtime = file.path.mtime
                             /\ file.path \in Ledger!Content
    /\ Ledger!LedgerRows \in SUBSET Ledger!RowIds /\ Ledger!CurrentMtime \in Ledger!Mtime
  BY DEF LedgerTypes, Ledger!File, Ledger!LedgerRows, Ledger!CurrentMtime, Ledger!Content,
         Ledger!Mtime, Ledger!RowIds

(* The steps of a process before it touches the file.                      *)
LEMMA LedgerReads ==
  ASSUME LedgerInv, NEW p \in Proc,
         \/ Ledger!BeginLookup(p) \/ Ledger!BeginRecord(p) \/ Ledger!Stat(p)
         \/ Ledger!ReadFrame(p) \/ Ledger!EndLookup(p)
  PROVE  LedgerInv'
PROOF
  <1>1. UNCHANGED <<file, writes>>
    BY DEF Ledger!BeginLookup, Ledger!BeginRecord, Ledger!Stat, Ledger!ReadFrame,
           Ledger!EndLookup
  <1>2. Ledger!LedgerRows' = Ledger!LedgerRows /\ Ledger!CurrentMtime' = Ledger!CurrentMtime
    BY <1>1 DEF Ledger!LedgerRows, Ledger!CurrentMtime
  <1> USE DEF LedgerInv
  <1>3. CASE Ledger!BeginLookup(p)
    <2>1. /\ ledgerPc' = [ledgerPc EXCEPT ![p] = "stat"] /\ ledgerPc[p] = "idle"
          /\ known' = [known EXCEPT ![p] = Ledger!LedgerRows]
          /\ UNCHANGED <<records, batch, frame, frameAt, statAt>>
      BY <1>3 DEF Ledger!BeginLookup, Ledger!Goto
    <2>2. LedgerTypes'
      BY <1>1, <2>1, FileReads DEF LedgerTypes, Ledger!Phase
    <2>3. OneHandle' /\ Recording' /\ Mtimes'
      BY <1>1, <2>1 DEF LedgerTypes, OneHandle, Recording, Mtimes
    <2>4. Frames' /\ Owed'
      BY <1>1, <1>2, <2>1 DEF LedgerTypes, Frames, Owed, Ledger!Combined
    <2> QED
      BY <2>2, <2>3, <2>4
  <1>4. CASE Ledger!BeginRecord(p)
    <2>1. /\ ledgerPc' = [ledgerPc EXCEPT ![p] = "stat"] /\ ledgerPc[p] = "idle"
          /\ p \in Writer /\ records < LedgerRecords /\ records' = records + 1
          /\ batch' = [batch EXCEPT ![p] = records + 1]
          /\ UNCHANGED <<frame, frameAt, statAt, known>>
      BY <1>4 DEF Ledger!BeginRecord, Ledger!Goto
    <2>2. LedgerTypes'
      BY <1>1, <2>1, LedgerConstants DEF LedgerTypes, Ledger!Phase
    <2>3. OneHandle' /\ Recording' /\ Mtimes'
      BY <1>1, <2>1, LedgerConstants DEF LedgerTypes, OneHandle, Recording, Mtimes
    <2>4. Frames' /\ Owed'
      BY <1>1, <1>2, <2>1 DEF LedgerTypes, Frames, Owed, Ledger!Combined
    <2> QED
      BY <2>2, <2>3, <2>4
  <1>5. CASE Ledger!Stat(p)
    <2>1. /\ ledgerPc[p] = "stat" /\ UNCHANGED <<records, batch, frame, frameAt, known>>
          /\ ledgerPc' = [ledgerPc EXCEPT ![p] = IF Ledger!FrameIsValid(p)
                                                THEN Ledger!Loaded(p) ELSE "read"]
          /\ statAt' = IF Ledger!FrameIsValid(p) THEN statAt
                       ELSE [statAt EXCEPT ![p] = Ledger!CurrentMtime]
      BY <1>5 DEF Ledger!Stat, Ledger!Goto
    <2>2. LedgerTypes'
      BY <1>1, <2>1, FileReads DEF LedgerTypes, Ledger!Phase, Ledger!Loaded
    <2>3. Recording'
      BY <1>1, <2>1 DEF LedgerTypes, Recording, Ledger!Loaded
    <2>4. OneHandle'
      BY <1>1, <2>1 DEF LedgerTypes, OneHandle, Ledger!Loaded
    <2>5. Mtimes'
      BY <1>1, <2>1, FileReads DEF LedgerTypes, Mtimes, Ledger!Content
    <2>6. Ledger!FrameIsValid(p) => frame[p] = Ledger!LedgerRows
      BY DEF Ledger!FrameIsValid, Frames
    <2>7. Frames' /\ Owed'
      BY <1>1, <1>2, <2>1, <2>6, FileReads
         DEF LedgerTypes, Frames, Owed, Ledger!Loaded, Ledger!Combined
    <2> QED
      BY <2>2, <2>3, <2>4, <2>5, <2>7
  <1>6. CASE Ledger!ReadFrame(p)
    <2>1. /\ ledgerPc[p] = "read" /\ UNCHANGED <<records, batch, known>>
          /\ ledgerPc' = [ledgerPc EXCEPT ![p] = Ledger!Loaded(p)]
          /\ frame' = [frame EXCEPT ![p] = Ledger!LedgerRows]
          /\ frameAt' = [frameAt EXCEPT ![p] = statAt[p]]
          /\ statAt' = [statAt EXCEPT ![p] = Absent]
      BY <1>6 DEF Ledger!ReadFrame, Ledger!Goto
    <2>2. LedgerTypes'
      BY <1>1, <2>1, FileReads DEF LedgerTypes, Ledger!Phase, Ledger!Loaded, Ledger!Mtime
    <2>3. OneHandle' /\ Recording'
      BY <1>1, <2>1 DEF LedgerTypes, OneHandle, Recording, Ledger!Loaded
    <2>4. Mtimes'
      BY <1>1, <2>1 DEF LedgerTypes, Mtimes
    <2>5. Frames' /\ Owed'
      BY <1>1, <1>2, <2>1, FileReads
         DEF LedgerTypes, Frames, Owed, Ledger!Loaded, Ledger!Combined
    <2> QED
      BY <2>2, <2>3, <2>4, <2>5
  <1>7. CASE Ledger!EndLookup(p)
    <2>1. /\ ledgerPc[p] = "served" /\ UNCHANGED <<records, batch, frame, frameAt, statAt>>
          /\ ledgerPc' = [ledgerPc EXCEPT ![p] = "idle"]
          /\ known' = [known EXCEPT ![p] = {}]
      BY <1>7 DEF Ledger!EndLookup, Ledger!Goto
    <2>2. LedgerTypes'
      BY <1>1, <2>1 DEF LedgerTypes, Ledger!Phase
    <2>3. OneHandle' /\ Recording' /\ Mtimes'
      BY <1>1, <2>1 DEF LedgerTypes, OneHandle, Recording, Mtimes
    <2>4. Frames' /\ Owed'
      BY <1>1, <1>2, <2>1 DEF LedgerTypes, Frames, Owed, Ledger!Combined
    <2> QED
      BY <2>2, <2>3, <2>4
  <1> QED
    BY <1>3, <1>4, <1>5, <1>6, <1>7

(* A file state with some of its parts replaced.                           *)
LEMMA FileUpdated ==
  ASSUME NEW C, NEW O, NEW M,
         NEW f \in [path : C, tmp : C, open : [Proc -> O], mixed : [Proc -> M]],
         NEW p \in Proc, NEW c \in C, NEW o \in O, NEW m \in [Proc -> M], NEW b \in M,
         NEW handles \in [Proc -> O]
  PROVE  /\ LET g == [f EXCEPT !.tmp = c, !.open[p] = o, !.mixed = m]
            IN  /\ g \in [path : C, tmp : C, open : [Proc -> O], mixed : [Proc -> M]]
                /\ g.path = f.path /\ g.open = [f.open EXCEPT ![p] = o] /\ g.mixed = m
         /\ LET g == [f EXCEPT !.open[p] = o, !.mixed[p] = b]
            IN  /\ g \in [path : C, tmp : C, open : [Proc -> O], mixed : [Proc -> M]]
                /\ g.path = f.path /\ g.tmp = f.tmp
                /\ g.open = [f.open EXCEPT ![p] = o] /\ g.mixed = [f.mixed EXCEPT ![p] = b]
         /\ LET g == [f EXCEPT !.tmp = c]
            IN  /\ g \in [path : C, tmp : C, open : [Proc -> O], mixed : [Proc -> M]]
                /\ g.path = f.path /\ g.tmp = c /\ g.open = f.open /\ g.mixed = f.mixed
         /\ LET g == [f EXCEPT !.path = f.tmp, !.tmp = c, !.open = handles]
            IN  /\ g \in [path : C, tmp : C, open : [Proc -> O], mixed : [Proc -> M]]
                /\ g.path = f.tmp /\ g.open = handles /\ g.mixed = f.mixed
PROOF
  <1>1. LET g == [f EXCEPT !.tmp = c, !.open[p] = o, !.mixed = m]
        IN  /\ g \in [path : C, tmp : C, open : [Proc -> O], mixed : [Proc -> M]]
            /\ g.path = f.path /\ g.open = [f.open EXCEPT ![p] = o] /\ g.mixed = m
    OBVIOUS
  <1>2. LET g == [f EXCEPT !.open[p] = o, !.mixed[p] = b]
        IN  /\ g \in [path : C, tmp : C, open : [Proc -> O], mixed : [Proc -> M]]
            /\ g.path = f.path /\ g.tmp = f.tmp
            /\ g.open = [f.open EXCEPT ![p] = o] /\ g.mixed = [f.mixed EXCEPT ![p] = b]
    OBVIOUS
  <1>3. LET g == [f EXCEPT !.tmp = c]
        IN  /\ g \in [path : C, tmp : C, open : [Proc -> O], mixed : [Proc -> M]]
            /\ g.path = f.path /\ g.tmp = c /\ g.open = f.open /\ g.mixed = f.mixed
    OBVIOUS
  <1>4. LET g == [f EXCEPT !.path = f.tmp, !.tmp = c, !.open = handles]
        IN  /\ g \in [path : C, tmp : C, open : [Proc -> O], mixed : [Proc -> M]]
            /\ g.path = f.tmp /\ g.open = handles /\ g.mixed = f.mixed
    OBVIOUS
  <1> QED
    BY <1>1, <1>2, <1>3, <1>4

LEMMA LedgerHandles ==
  LedgerInv =>
    /\ file \in Ledger!File(Ledger!Content)
    /\ file \in [path : Ledger!Content \cup {Absent, Torn}, tmp : Ledger!Content \cup {Absent, Torn},
                 open : [Proc -> Ledger!Handle], mixed : [Proc -> BOOLEAN]]
    /\ \A q \in Proc : /\ file.mixed[q] = FALSE
                       /\ file.open[q] = (IF ledgerPc[q] = "write" THEN "tmp" ELSE "none")
  BY DEF LedgerInv, LedgerTypes, OneHandle, Ledger!File

(* What a process does to the file when it alone has a handle.             *)
LEMMA TmpOpened ==
  ASSUME LedgerInv, NEW p \in Proc, \A q \in Proc : ledgerPc[q] # "write"
  PROVE  LET f == Ledger!Opened(file, p)
         IN  /\ f \in Ledger!File(Ledger!Content) /\ f.path = file.path
             /\ \A q \in Proc : /\ f.mixed[q] = FALSE
                                /\ f.open[q] = (IF q = p THEN "tmp" ELSE "none")
PROOF
  <1> DEFINE m == [q \in Proc |-> IF q = p THEN {r \in Proc \ {p} : file.open[r] = "tmp"} # {}
                                  ELSE file.mixed[q] \/ q \in {r \in Proc \ {p} : file.open[r] = "tmp"}]
  <1>1. m \in [Proc -> BOOLEAN] /\ \A q \in Proc : m[q] = FALSE
    BY LedgerHandles
  <1>2. Ledger!Opened(file, p) = [file EXCEPT !.tmp = Torn, !.open[p] = "tmp", !.mixed = m]
    BY DEF Ledger!Opened
  <1> HIDE DEF m
  <1>3. "tmp" \in Ledger!Handle /\ Torn \in Ledger!Content \cup {Absent, Torn}
    BY DEF Ledger!Handle
  <1> DEFINE g == [file EXCEPT !.tmp = Torn, !.open[p] = "tmp", !.mixed = m]
  <1>4. /\ g \in Ledger!File(Ledger!Content)
        /\ g.path = file.path /\ g.open = [file.open EXCEPT ![p] = "tmp"] /\ g.mixed = m
    BY <1>1, <1>3, FileUpdated, LedgerHandles DEF Ledger!File
  <1> HIDE DEF g
  <1> QED
    BY <1>1, <1>2, <1>4, LedgerHandles DEF g

LEMMA TmpWritten ==
  ASSUME LedgerInv, NEW p \in Proc, ledgerPc[p] = "write",
         NEW v \in Ledger!Content
  PROVE  \A f \in Ledger!Written(file, p, v) :
           /\ f \in Ledger!File(Ledger!Content) /\ f.path = file.path /\ f.tmp = v
           /\ \A q \in Proc : /\ f.mixed[q] = FALSE
                              /\ f.open[q] = (IF q = p THEN "none" ELSE file.open[q])
PROOF
  <1> TAKE f \in Ledger!Written(file, p, v)
  <1> DEFINE closed == [file EXCEPT !.open[p] = "none", !.mixed[p] = FALSE]
             g == [closed EXCEPT !.tmp = v]
  <1>1. file.mixed[p] = FALSE /\ file.open[p] = "tmp"
    BY LedgerHandles
  <1>2. f = g
    BY <1>1 DEF Ledger!Written
  <1>3. "none" \in Ledger!Handle /\ v \in Ledger!Content \cup {Absent, Torn}
    BY DEF Ledger!Handle
  <1>4. /\ closed \in Ledger!File(Ledger!Content)
        /\ closed.path = file.path /\ closed.open = [file.open EXCEPT ![p] = "none"]
        /\ closed.mixed = [file.mixed EXCEPT ![p] = FALSE]
    BY <1>3, FileUpdated, LedgerHandles DEF Ledger!File
  <1> HIDE DEF closed
  <1>5. /\ g \in Ledger!File(Ledger!Content)
        /\ g.path = closed.path /\ g.tmp = v /\ g.open = closed.open /\ g.mixed = closed.mixed
    BY <1>3, <1>4, FileUpdated DEF Ledger!File
  <1> HIDE DEF g
  <1> QED
    BY <1>2, <1>4, <1>5, LedgerHandles

LEMMA TmpReplaced ==
  ASSUME LedgerInv, \A q \in Proc : ledgerPc[q] # "write"
  PROVE  LET f == Ledger!Replaced(file)
         IN  /\ f \in Ledger!File(Ledger!Content) /\ f.path = file.tmp
             /\ \A q \in Proc : f.mixed[q] = FALSE /\ f.open[q] = "none"
PROOF
  <1> DEFINE handles == [q \in Proc |-> CASE file.open[q] = "tmp"  -> "path"
                                          [] file.open[q] = "path" -> "gone"
                                          [] OTHER -> file.open[q]]
             g == [file EXCEPT !.path = file.tmp, !.tmp = Absent, !.open = handles]
  <1>1. handles \in [Proc -> Ledger!Handle] /\ \A q \in Proc : handles[q] = "none"
    BY LedgerHandles DEF Ledger!Handle
  <1>2. Ledger!Replaced(file) = g
    BY DEF Ledger!Replaced
  <1> HIDE DEF handles
  <1>3. /\ g \in Ledger!File(Ledger!Content)
        /\ g.path = file.tmp /\ g.open = handles /\ g.mixed = file.mixed
    BY <1>1, FileUpdated, LedgerHandles DEF Ledger!File
  <1> HIDE DEF g
  <1> QED
    BY <1>1, <1>2, <1>3, LedgerHandles

LEMMA TmpAbandoned ==
  ASSUME LedgerInv, NEW p \in Proc
  PROVE  LET f == Ledger!Abandoned(file, p)
         IN  /\ f \in Ledger!File(Ledger!Content)
             /\ f.path = file.path /\ f.tmp = file.tmp
             /\ \A q \in Proc : /\ f.mixed[q] = FALSE
                                /\ f.open[q] = (IF q = p THEN "none" ELSE file.open[q])
PROOF
  <1> DEFINE g == [file EXCEPT !.open[p] = "none", !.mixed[p] = FALSE]
  <1>1. "none" \in Ledger!Handle
    BY DEF Ledger!Handle
  <1>2. Ledger!Abandoned(file, p) = g
    BY DEF Ledger!Abandoned
  <1>3. /\ g \in Ledger!File(Ledger!Content) /\ g.path = file.path /\ g.tmp = file.tmp
        /\ g.open = [file.open EXCEPT ![p] = "none"] /\ g.mixed = [file.mixed EXCEPT ![p] = FALSE]
    BY <1>1, FileUpdated, LedgerHandles DEF Ledger!File
  <1> HIDE DEF g
  <1> QED
    BY <1>2, <1>3, LedgerHandles

(* Only one process records, and its calls follow each other.              *)
LEMMA LedgerWrites ==
  ASSUME LedgerInv, \A p, q \in Writer : p = q, NEW p \in Proc,
         \/ Ledger!OpenTmp(p) \/ Ledger!WriteTmp(p) \/ Ledger!Replace(p) \/ Ledger!Restat(p)
  PROVE  LedgerInv' /\ Ledger!LedgerRows \subseteq Ledger!LedgerRows'
PROOF
  <1>1. /\ p \in Writer /\ batch[p] # 0 /\ batch[p] \in Ledger!RowIds
        /\ \A q \in Proc \ {p} : ledgerPc[q] \notin {"open", "write", "replace", "restat"}
    BY LedgerConstants
       DEF LedgerInv, Ledger!OpenTmp, Ledger!WriteTmp, Ledger!Replace, Ledger!Restat, Recording,
           LedgerTypes, Ledger!RowIds
  <1>2. CASE Ledger!OpenTmp(p)
    <2>1. /\ ledgerPc[p] = "open" /\ ledgerPc' = [ledgerPc EXCEPT ![p] = "write"]
          /\ file' = Ledger!Opened(file, p)
          /\ UNCHANGED <<writes, records, batch, frame, frameAt, statAt, known>>
      BY <1>2 DEF Ledger!OpenTmp, Ledger!Goto
    <2>2. /\ file' \in Ledger!File(Ledger!Content) /\ file'.path = file.path
          /\ \A q \in Proc : /\ file'.mixed[q] = FALSE
                             /\ file'.open[q] = (IF q = p THEN "tmp" ELSE "none")
      BY <1>1, <2>1, TmpOpened
    <2>3. Ledger!LedgerRows' = Ledger!LedgerRows /\ Ledger!CurrentMtime' = Ledger!CurrentMtime
      BY <2>2 DEF Ledger!LedgerRows, Ledger!CurrentMtime
    <2>4. LedgerTypes' /\ OneHandle'
      BY <1>1, <2>1, <2>2 DEF LedgerInv, LedgerTypes, OneHandle, Ledger!Phase
    <2>5. Recording' /\ Mtimes' /\ Owed'
      BY <2>1, <2>2, <2>3 DEF LedgerInv, LedgerTypes, Recording, Mtimes, Owed
    <2>6. Frames'
      BY <1>1, <2>1, <2>2, <2>3 DEF LedgerInv, LedgerTypes, Frames, Ledger!Combined
    <2> QED
      BY <2>3, <2>4, <2>5, <2>6 DEF LedgerInv
  <1>3. CASE Ledger!WriteTmp(p)
    <2> DEFINE v == [rows |-> Ledger!Combined(p), mtime |-> writes + 1]
    <2>1. /\ ledgerPc[p] = "write" /\ ledgerPc' = [ledgerPc EXCEPT ![p] = "replace"]
          /\ file' \in Ledger!Written(file, p, v) /\ writes' = writes + 1
          /\ UNCHANGED <<records, batch, frame, frameAt, statAt, known>>
      BY <1>3 DEF Ledger!WriteTmp, Ledger!Goto
    <2>2. writes < records
      BY <1>1, <2>1 DEF LedgerInv, Recording
    <2>3. v \in Ledger!Content
      <3>1. Ledger!Combined(p) \in SUBSET Ledger!RowIds
        BY <1>1, <2>1 DEF LedgerInv, Frames, Ledger!Combined
      <3>2. writes + 1 \in 1 .. LedgerRecords
        BY <2>2, LedgerConstants DEF LedgerInv, LedgerTypes
      <3> QED
        BY <3>1, <3>2 DEF Ledger!Content
    <2> HIDE DEF v
    <2>0. \A f \in Ledger!Written(file, p, v) :
             /\ f \in Ledger!File(Ledger!Content) /\ f.path = file.path /\ f.tmp = v
             /\ \A q \in Proc : /\ f.mixed[q] = FALSE
                                /\ f.open[q] = (IF q = p THEN "none" ELSE file.open[q])
      <3>1. \A c \in Ledger!Content : \A f \in Ledger!Written(file, p, c) :
               /\ f \in Ledger!File(Ledger!Content) /\ f.path = file.path /\ f.tmp = c
               /\ \A q \in Proc : /\ f.mixed[q] = FALSE
                                  /\ f.open[q] = (IF q = p THEN "none" ELSE file.open[q])
        BY <2>1, TmpWritten
      <3> QED
        BY <2>3, <3>1
    <2>4. /\ file' \in Ledger!File(Ledger!Content) /\ file'.path = file.path /\ file'.tmp = v
          /\ \A q \in Proc : /\ file'.mixed[q] = FALSE
                             /\ file'.open[q] = (IF q = p THEN "none" ELSE file.open[q])
      BY <2>1, <2>0
    <2>5. Ledger!LedgerRows' = Ledger!LedgerRows /\ Ledger!CurrentMtime' = Ledger!CurrentMtime
      BY <2>4 DEF Ledger!LedgerRows, Ledger!CurrentMtime
    <2>6. LedgerTypes' /\ OneHandle'
      BY <1>1, <2>1, <2>2, <2>4 DEF LedgerInv, LedgerTypes, OneHandle, Ledger!Phase
    <2>7. Recording' /\ Owed'
      BY <1>1, <2>1, <2>4, <2>5 DEF LedgerInv, LedgerTypes, Recording, Owed
    <2>8. Mtimes'
      BY <2>1, <2>4, FileReads DEF LedgerInv, LedgerTypes, Mtimes, Ledger!Content
    <2>9. Frames'
      <3>1. /\ file'.tmp \in Ledger!Content
            /\ file'.tmp.rows = Ledger!Combined(p) /\ file'.tmp.mtime = writes'
            /\ file'.path # Absent => file'.path.mtime < writes'
        BY <2>1, <2>3, <2>4, FileReads DEF v, LedgerInv, LedgerTypes, Mtimes, Ledger!Content
      <3> QED
        BY <1>1, <2>1, <2>4, <2>5, <3>1 DEF LedgerInv, LedgerTypes, Frames, Ledger!Combined
    <2> QED
      BY <2>5, <2>6, <2>7, <2>8, <2>9 DEF LedgerInv
  <1>4. CASE Ledger!Replace(p)
    <2>1. /\ ledgerPc[p] = "replace" /\ ledgerPc' = [ledgerPc EXCEPT ![p] = "restat"]
          /\ file' = Ledger!Replaced(file)
          /\ UNCHANGED <<writes, records, batch, frame, frameAt, statAt, known>>
      BY <1>4 DEF Ledger!Replace, Ledger!Goto
    <2>2. /\ file' \in Ledger!File(Ledger!Content) /\ file'.path = file.tmp
          /\ \A q \in Proc : file'.mixed[q] = FALSE /\ file'.open[q] = "none"
      BY <1>1, <2>1, TmpReplaced
    <2>3. /\ file.tmp \in Ledger!Content /\ file.tmp # Absent /\ file.tmp # Torn
          /\ file.tmp.rows = Ledger!Combined(p) /\ file.tmp.mtime = writes
          /\ file.path # Absent => file.path.mtime < writes
          /\ Ledger!LedgerRows \subseteq frame[p] /\ frame[p] \in SUBSET Ledger!RowIds
      BY <2>1, LedgerConstants DEF LedgerInv, Frames
    <2>4. /\ file'.path # Absent /\ file'.path # Torn /\ file'.path.mtime = writes
          /\ Ledger!LedgerRows' = Ledger!Combined(p) /\ Ledger!CurrentMtime' = writes
      BY <2>2, <2>3 DEF Ledger!LedgerRows, Ledger!CurrentMtime
    <2>5. Ledger!LedgerRows \subseteq Ledger!LedgerRows'
      BY <2>3, <2>4 DEF Ledger!Combined
    <2>6. LedgerTypes' /\ OneHandle'
      BY <1>1, <2>1, <2>2, <2>4 DEF LedgerInv, LedgerTypes, OneHandle, Ledger!Phase
    <2>7. Recording' /\ Owed'
      BY <1>1, <2>1, <2>5 DEF LedgerInv, LedgerTypes, Recording, Owed
    <2>8. Mtimes'
      BY <2>1, <2>3, <2>4, FileReads DEF LedgerInv, LedgerTypes, Mtimes, Ledger!Content
    <2>9. \A q \in Proc : frameAt[q] # writes
      BY <2>3, FileReads, LedgerConstants DEF LedgerInv, LedgerTypes, Mtimes, Ledger!Content
    <2>10. Frames'
      BY <1>1, <2>1, <2>3, <2>4, <2>9 DEF LedgerInv, LedgerTypes, Frames, Ledger!Combined
    <2> QED
      BY <2>5, <2>6, <2>7, <2>8, <2>10 DEF LedgerInv
  <1>5. CASE Ledger!Restat(p)
    <2>1. /\ ledgerPc[p] = "restat" /\ ledgerPc' = [ledgerPc EXCEPT ![p] = "idle"]
          /\ frame' = [frame EXCEPT ![p] = Ledger!Combined(p)]
          /\ frameAt' = [frameAt EXCEPT ![p] = Ledger!CurrentMtime]
          /\ batch' = [batch EXCEPT ![p] = 0]
          /\ UNCHANGED <<file, writes, records, statAt, known>>
      BY <1>5 DEF Ledger!Restat, Ledger!Goto
    <2>2. Ledger!LedgerRows' = Ledger!LedgerRows /\ Ledger!CurrentMtime' = Ledger!CurrentMtime
      BY <2>1 DEF Ledger!LedgerRows, Ledger!CurrentMtime
    <2>3. file.path # Absent /\ Ledger!LedgerRows = Ledger!Combined(p)
      BY <2>1 DEF LedgerInv, Frames
    <2>4. LedgerTypes' /\ OneHandle'
      BY <1>1, <2>1, <2>3, FileReads, LedgerConstants
         DEF LedgerInv, LedgerTypes, OneHandle, Ledger!Phase
    <2>5. Recording' /\ Owed'
      BY <1>1, <2>1, <2>2 DEF LedgerInv, LedgerTypes, Recording, Owed
    <2>6. Mtimes'
      BY <2>1, <2>3, FileReads DEF LedgerInv, LedgerTypes, Mtimes, Ledger!Content
    <2>7. Frames'
      BY <1>1, <2>1, <2>2, <2>3 DEF LedgerInv, LedgerTypes, Frames, Ledger!Combined
    <2> QED
      BY <2>2, <2>4, <2>5, <2>6, <2>7 DEF LedgerInv
  <1> QED
    BY <1>2, <1>3, <1>4, <1>5

(* A process that dies closes its handle and forgets its frame.            *)
LEMMA LedgerDies ==
  ASSUME LedgerInv, NEW p \in Proc, Ledger!Die(p)
  PROVE  LedgerInv' /\ Ledger!LedgerRows' = Ledger!LedgerRows
PROOF
  <1>1. /\ ledgerPc' = [ledgerPc EXCEPT ![p] = "idle"] /\ batch' = [batch EXCEPT ![p] = 0]
        /\ frame' = [frame EXCEPT ![p] = None] /\ frameAt' = [frameAt EXCEPT ![p] = Absent]
        /\ statAt' = [statAt EXCEPT ![p] = Absent] /\ known' = [known EXCEPT ![p] = {}]
        /\ file' = Ledger!Abandoned(file, p) /\ UNCHANGED <<writes, records>>
    BY DEF Ledger!Die
  <1>2. /\ file' \in Ledger!File(Ledger!Content) /\ file'.path = file.path /\ file'.tmp = file.tmp
        /\ \A q \in Proc : /\ file'.mixed[q] = FALSE
                           /\ file'.open[q] = (IF q = p THEN "none" ELSE file.open[q])
    BY <1>1, TmpAbandoned
  <1>3. Ledger!LedgerRows' = Ledger!LedgerRows /\ Ledger!CurrentMtime' = Ledger!CurrentMtime
    BY <1>2 DEF Ledger!LedgerRows, Ledger!CurrentMtime
  <1>4. LedgerTypes' /\ OneHandle'
    BY <1>1, <1>2, LedgerConstants
       DEF LedgerInv, LedgerTypes, OneHandle, Ledger!Phase, Ledger!Mtime
  <1>5. Recording' /\ Mtimes' /\ Owed'
    BY <1>1, <1>2, <1>3 DEF LedgerInv, LedgerTypes, Recording, Mtimes, Owed
  <1>6. Frames'
    BY <1>1, <1>2, <1>3 DEF LedgerInv, LedgerTypes, Frames, Ledger!Combined
  <1> QED
    BY <1>3, <1>4, <1>5, <1>6 DEF LedgerInv

(* CoverageLedger: with one process that records, however many look the    *)
(* ledger up and wherever any of them dies, what was recorded stays        *)
(* recorded, no reader meets a partial file, and a lookup sees every row   *)
(* that was on disk when it began.                                         *)
THEOREM LookupsAreCurrent ==
  ASSUME \A p, q \in Writer : p = q
  PROVE  MCSpec => LookupIsCurrent
PROOF
  <1>1. LedgerInv /\ Ledger!Next => LedgerInv' /\ Ledger!LedgerRows \subseteq Ledger!LedgerRows'
    <2> SUFFICES ASSUME LedgerInv, NEW p \in Proc,
                   \/ Ledger!BeginLookup(p) \/ Ledger!BeginRecord(p) \/ Ledger!Stat(p)
                   \/ Ledger!ReadFrame(p) \/ Ledger!EndLookup(p)
                   \/ Ledger!OpenTmp(p) \/ Ledger!WriteTmp(p) \/ Ledger!Replace(p)
                   \/ Ledger!Restat(p) \/ Ledger!Die(p)
                 PROVE  LedgerInv' /\ Ledger!LedgerRows \subseteq Ledger!LedgerRows'
      BY DEF Ledger!Next
    <2>1. CASE \/ Ledger!BeginLookup(p) \/ Ledger!BeginRecord(p) \/ Ledger!Stat(p)
               \/ Ledger!ReadFrame(p) \/ Ledger!EndLookup(p)
      <3>1. UNCHANGED file
        BY <2>1 DEF Ledger!BeginLookup, Ledger!BeginRecord, Ledger!Stat, Ledger!ReadFrame,
                    Ledger!EndLookup
      <3>2. LedgerInv'
        BY <2>1, LedgerReads
      <3> QED
        BY <3>1, <3>2 DEF Ledger!LedgerRows
    <2>2. CASE Ledger!OpenTmp(p) \/ Ledger!WriteTmp(p) \/ Ledger!Replace(p) \/ Ledger!Restat(p)
      BY <2>2, LedgerWrites
    <2>3. CASE Ledger!Die(p)
      BY <2>3, LedgerDies
    <2> QED
      BY <2>1, <2>2, <2>3
  <1>2. UNCHANGED ledgerVars => Ledger!LedgerRows' = Ledger!LedgerRows
    BY DEF ledgerVars, Ledger!LedgerRows
  <1>3. LedgerInv /\ [MCNext]_mcVars => LedgerInv' /\ Ledger!LedgerRows \subseteq Ledger!LedgerRows'
    <2>1. [MCNext]_mcVars => Ledger!Next \/ UNCHANGED ledgerVars
      BY Zenon DEF MCNext, mcVars
    <2> QED
      BY <1>1, <1>2, <2>1, LedgerStutter
  <1>4. LedgerInv => Ledger!LookupIsCurrent /\ Ledger!NeverTorn
    BY DEF LedgerInv, LedgerTypes, Owed, Ledger!LookupIsCurrent, Ledger!NeverTorn
  <1> QED
    BY <1>3, <1>4, LedgerInit, PTL DEF MCSpec, LookupIsCurrent, Ledger!AppendOnly
-----------------------------------------------------------------------------
(* The minute bars, asked for after the session.                           *)

BarTypes ==
    /\ clock \in Bars!Day /\ open \in BOOLEAN
    /\ barSource \in [Bars!Day -> Nat] /\ barStore \in [Bars!Day -> Nat]
    /\ barCovered \subseteq Bars!Day
    /\ barPc \in {"idle", "plan", "gaps", "window", "done"}
    /\ job \in [lo : Bars!Day, hi : Bars!Day, forced : BOOLEAN, base : [Bars!Day -> Nat]]
    /\ todo \subseteq Bars!Day /\ gap \in Bars!Day \X Bars!Day /\ win \in Nat
    /\ resp \in [Bars!Day -> Nat] /\ seen \in [Bars!Day -> Int]

(* The vendor never takes a bar back.                                      *)
Served ==
    \A d \in Bars!Day : /\ barStore[d] <= barSource[d] /\ resp[d] <= barSource[d]
                        /\ job.base[d] <= barSource[d]

(* The session of a day is over: no bar of it arrives any more.            *)
Settled(d) == d < clock \/ (d = clock /\ ~open)

(* A day of the gap that was asked for has all its bars, in its month file *)
(* or in the response that is being stored.                                *)
Asked ==
    barPc = "window" =>
      /\ gap[1] <= gap[2] /\ gap[1] .. gap[2] \subseteq todo
      /\ gap[1] <= win /\ win <= gap[2] + 1
      /\ \A d \in gap[1] .. (win - 1) :
           seen[d] = barSource[d] /\ (barStore[d] = seen[d] \/ resp[d] = seen[d])

(* A request is for settled days; what it need not fetch is covered.       *)
Requested ==
    /\ barPc # "idle" => \A d \in Bars!Day : d <= job.hi => Settled(d)
    /\ barPc \in {"gaps", "window"} => todo \subseteq job.lo .. job.hi
    /\ barPc \in {"gaps", "window", "done"} =>
         \A d \in job.lo .. job.hi : d \in todo \/ d \in barCovered
    /\ barPc = "done" => todo = {}

BarInv ==
    /\ BarTypes /\ Served /\ Asked /\ Requested
    /\ \A d \in barCovered : Settled(d) /\ barStore[d] = barSource[d]

(* What a step does to the claims and to the month files.                  *)
BarMoves ==
    /\ \A d \in barCovered' \ barCovered : seen[d] >= 0 /\ barStore[d] >= seen[d]
    /\ \A d \in Bars!Day : barStore'[d] >= barStore[d]

LEMMA BarConstants ==
  BarDays \in Nat /\ WindowDays \in Nat \ {0} /\ (\A d \in Bars!Day : d \in Nat)
  BY InstancesAssumption DEF Bars!IntradayAssumption, Bars!Day

LEMMA BarInit == MCInit => BarInv
PROOF
  <1> SUFFICES ASSUME MCInit PROVE BarInv
    OBVIOUS
  <1>1. Bars!Init
    BY DEF MCInit
  <1>2. BarTypes
    BY <1>1, BarConstants DEF Bars!Init, BarTypes, Bars!NoBars, Bars!NoJob, Bars!Day
  <1>3. Served /\ Asked /\ Requested
    BY <1>1 DEF Bars!Init, Bars!NoBars, Bars!NoJob, Served, Asked, Requested
  <1> QED
    BY <1>1, <1>2, <1>3 DEF Bars!Init, BarInv

LEMMA BarStutter == BarInv /\ UNCHANGED barVars => BarInv' /\ BarMoves
  BY DEF barVars, BarInv, BarTypes, Served, Asked, Requested, Settled, BarMoves

(* The session and the vendor.                                             *)
LEMMA BarClock ==
  ASSUME BarInv, PublishesLate = FALSE,
         \/ Bars!NextDay \/ Bars!SessionEnds \/ \E d \in Bars!Day : Bars!BarsArrive(d)
  PROVE  BarInv' /\ BarMoves
PROOF
  <1>1. UNCHANGED <<barStore, barCovered, barPc, job, todo, gap, win, resp, seen>>
    BY DEF Bars!NextDay, Bars!SessionEnds, Bars!BarsArrive, Bars!runVars
  <1>2. /\ barSource' \in [Bars!Day -> Nat] /\ clock' \in Bars!Day /\ open' \in BOOLEAN
        /\ \A d \in Bars!Day : barSource'[d] >= barSource[d]
        /\ \A d \in Bars!Day : Settled(d) => Settled(d)' /\ barSource'[d] = barSource[d]
    <2>1. CASE Bars!NextDay
      <3>1. /\ clock < BarDays /\ ~open /\ clock' = clock + 1 /\ open' = TRUE
            /\ barSource' = barSource
        BY <2>1 DEF Bars!NextDay
      <3>2. clock \in 0 .. BarDays /\ barSource \in [Bars!Day -> Nat]
        BY DEF BarInv, BarTypes, Bars!Day
      <3>3. clock' \in Bars!Day /\ open' \in BOOLEAN
        BY <3>1, <3>2, BarConstants DEF Bars!Day
      <3>4. \A d \in Bars!Day : Settled(d) => d < clock'
        BY <3>1, <3>2, BarConstants DEF Settled
      <3> QED
        BY <3>1, <3>2, <3>3, <3>4, BarConstants DEF Settled
    <2>2. CASE Bars!SessionEnds
      <3>1. open /\ open' = FALSE /\ UNCHANGED <<clock, barSource>>
        BY <2>2 DEF Bars!SessionEnds
      <3>2. clock \in Bars!Day /\ barSource \in [Bars!Day -> Nat]
        BY DEF BarInv, BarTypes
      <3>3. \A d \in Bars!Day : Settled(d) => Settled(d)'
        BY <3>1 DEF Settled
      <3>4. \A d \in Bars!Day : barSource'[d] >= barSource[d]
        BY <3>1, <3>2
      <3> QED
        BY <3>1, <3>2, <3>3, <3>4, Zenon
    <2>3. CASE \E d \in Bars!Day : Bars!BarsArrive(d)
      BY <2>3, BarConstants DEF Bars!BarsArrive, BarInv, BarTypes, Settled
    <2> QED
      BY <2>1, <2>2, <2>3
  <1>3. BarTypes' /\ BarMoves
    BY <1>1, <1>2 DEF BarInv, BarTypes, BarMoves
  <1>4. Served'
    BY <1>1, <1>2, BarConstants DEF BarInv, BarTypes, Served
  <1>5. Requested'
    BY <1>1, <1>2 DEF BarInv, Requested
  <1>6. Asked'
    <2>1. barPc = "window" => \A d \in gap[1] .. (win - 1) : d \in Bars!Day /\ Settled(d)
      BY BarConstants DEF BarInv, BarTypes, Asked, Requested
    <2> QED
      BY <1>1, <1>2, <2>1 DEF BarInv, Asked
  <1>7. \A d \in barCovered' : Settled(d)' /\ barStore'[d] = barSource'[d]
    BY <1>1, <1>2 DEF BarInv, BarTypes
  <1> QED
    BY <1>3, <1>4, <1>5, <1>6, <1>7 DEF BarInv

LEMMA BarPlans ==
  ASSUME BarInv, RunsInSession = FALSE,
         \/ \E d, e \in Bars!Day, forced \in BOOLEAN : Bars!Begin(d, e, forced)
         \/ Bars!Plan \/ (\E d, e \in Bars!Day : Bars!NextGap(d, e)) \/ Bars!Finish
  PROVE  BarInv' /\ BarMoves
PROOF
  <1>1. UNCHANGED <<clock, open, barSource, barStore, barCovered, resp>>
    BY DEF Bars!Begin, Bars!Plan, Bars!NextGap, Bars!Finish
  <1>2. (\A d : Settled(d)' = Settled(d)) /\ BarMoves
    BY <1>1 DEF Settled, BarMoves, BarInv, BarTypes
  <1>3. CASE \E d, e \in Bars!Day, forced \in BOOLEAN : Bars!Begin(d, e, forced)
    <2>1. PICK d \in Bars!Day, e \in Bars!Day, forced \in BOOLEAN : Bars!Begin(d, e, forced)
      BY <1>3
    <2>2. /\ barPc' = "plan" /\ UNCHANGED <<todo, gap, win, seen>>
          /\ job' = [lo |-> d, hi |-> e, forced |-> forced, base |-> barSource]
          /\ e <= clock /\ (e = clock => ~open)
      BY <2>1 DEF Bars!Begin
    <2>3. BarTypes' /\ Served' /\ Asked'
      BY <1>1, <2>2, BarConstants DEF BarInv, BarTypes, Served, Asked
    <2>4. Requested'
      BY <1>1, <1>2, <2>2, BarConstants DEF BarInv, BarTypes, Requested, Settled
    <2> QED
      BY <1>1, <1>2, <2>3, <2>4 DEF BarInv
  <1>4. CASE Bars!Plan
    <2>1. /\ barPc = "plan" /\ barPc' = "gaps" /\ UNCHANGED <<job, gap, win, seen>>
          /\ todo' = {d \in job.lo .. job.hi : job.forced \/ d \notin barCovered}
      BY <1>4 DEF Bars!Plan, Bars!DayGaps
    <2>2. todo' \subseteq Bars!Day
      <3>1. job.lo \in 0 .. BarDays /\ job.hi \in 0 .. BarDays
        BY DEF BarInv, BarTypes, Bars!Day
      <3> QED
        BY <2>1, <3>1, BarConstants DEF Bars!Day
    <2>3. BarTypes' /\ Served' /\ Asked' /\ Requested'
      BY <1>1, <1>2, <2>1, <2>2 DEF BarInv, BarTypes, Served, Asked, Requested
    <2> QED
      BY <1>1, <1>2, <2>3 DEF BarInv
  <1>5. CASE \E d, e \in Bars!Day : Bars!NextGap(d, e)
    <2>1. PICK d \in Bars!Day, e \in Bars!Day : Bars!NextGap(d, e)
      BY <1>5
    <2>2. /\ barPc = "gaps" /\ barPc' = "window" /\ UNCHANGED <<job, todo>>
          /\ d <= e /\ d .. e \subseteq todo /\ gap' = <<d, e>> /\ win' = d
          /\ seen' = [x \in Bars!Day |-> -1]
      BY <2>1 DEF Bars!NextGap
    <2>3. BarTypes' /\ Served' /\ Requested'
      BY <1>1, <1>2, <2>2, BarConstants DEF BarInv, BarTypes, Served, Requested
    <2>4. Asked'
      BY <2>2, BarConstants DEF Asked
    <2> QED
      BY <1>1, <1>2, <2>3, <2>4 DEF BarInv
  <1>6. CASE Bars!Finish
    <2>1. /\ barPc = "gaps" /\ todo = {} /\ barPc' = "done"
          /\ UNCHANGED <<job, todo, gap, win, seen>>
      BY <1>6 DEF Bars!Finish
    <2>2. BarTypes' /\ Served' /\ Asked' /\ Requested'
      BY <1>1, <1>2, <2>1 DEF BarInv, BarTypes, Served, Asked, Requested
    <2> QED
      BY <1>1, <1>2, <2>2 DEF BarInv
  <1> QED
    BY <1>3, <1>4, <1>5, <1>6

LEMMA BarFetches ==
  ASSUME BarInv, Bars!FetchWindow
  PROVE  BarInv' /\ BarMoves
PROOF
  <1> DEFINE last1 == Bars!WindowEnd
  <1>1. /\ barPc = "window" /\ win <= gap[2] /\ resp = [d \in Bars!Day |-> 0]
        /\ resp' = [d \in Bars!Day |-> IF d \in win .. last1 THEN barSource[d] ELSE 0]
        /\ seen' = [d \in Bars!Day |-> IF d \in win .. last1 THEN barSource[d] ELSE seen[d]]
        /\ win' = last1 + 1
        /\ UNCHANGED <<clock, open, barSource, barStore, barCovered, barPc, job, todo, gap>>
    BY DEF Bars!FetchWindow, Bars!NoBars
  <1>2. win <= last1 /\ last1 <= gap[2] /\ last1 \in Nat
    BY <1>1, BarConstants DEF Bars!WindowEnd, BarInv, BarTypes
  <1> HIDE DEF last1
  <1>3. BarTypes' /\ BarMoves
    BY <1>1, <1>2 DEF BarInv, BarTypes, BarMoves
  <1>4. Served'
    BY <1>1, BarConstants DEF BarInv, BarTypes, Served
  <1>5. Requested' /\ \A d \in barCovered' : Settled(d)' /\ barStore'[d] = barSource'[d]
    BY <1>1 DEF BarInv, Requested, Settled
  <1>6. Asked'
    <2> SUFFICES ASSUME NEW d \in gap[1] .. last1
                 PROVE  /\ seen'[d] = barSource[d]
                        /\ barStore[d] = seen'[d] \/ resp'[d] = seen'[d]
      BY <1>1, <1>2, BarConstants DEF BarInv, BarTypes, Asked
    <2>1. d \in Bars!Day
      BY <1>1, <1>2, BarConstants DEF BarInv, BarTypes, Asked
    <2>2. CASE d \in win .. last1
      BY <1>1, <2>1, <2>2
    <2>3. CASE d \notin win .. last1
      <3>1. d \in gap[1] .. (win - 1)
        BY <1>1, <1>2, <2>3, BarConstants DEF BarInv, BarTypes, Asked
      <3>2. seen[d] = barSource[d] /\ (barStore[d] = seen[d] \/ seen[d] = 0)
        BY <1>1, <2>1, <3>1 DEF BarInv, Asked
      <3> QED
        BY <1>1, <2>1, <2>3, <3>2
    <2> QED
      BY <2>2, <2>3
  <1> QED
    BY <1>3, <1>4, <1>5, <1>6 DEF BarInv

LEMMA BarStores ==
  ASSUME BarInv, NEW m \in Bars!Day, Bars!UpsertMonth(m)
  PROVE  BarInv' /\ BarMoves
PROOF
  <1>1. /\ barPc = "window"
        /\ barStore' = [d \in Bars!Day |-> IF Bars!MonthOf(d) = m
                                          THEN Bars!Larger(barStore[d], resp[d]) ELSE barStore[d]]
        /\ resp' = [d \in Bars!Day |-> IF Bars!MonthOf(d) = m THEN 0 ELSE resp[d]]
        /\ UNCHANGED <<clock, open, barSource, barCovered, barPc, job, todo, gap, win, seen>>
    BY DEF Bars!UpsertMonth
  <1>2. \A d \in Bars!Day :
          /\ barStore'[d] \in Nat /\ barStore'[d] >= barStore[d] /\ barStore'[d] <= barSource[d]
          /\ barStore'[d] >= resp[d] \/ resp'[d] = resp[d]
    BY <1>1 DEF BarInv, BarTypes, Served, Bars!Larger
  <1>3. BarTypes' /\ BarMoves
    BY <1>1, <1>2 DEF BarInv, BarTypes, BarMoves
  <1>4. Served'
    BY <1>1, <1>2 DEF BarInv, BarTypes, Served
  <1>5. Requested'
    BY <1>1 DEF BarInv, Requested, Settled
  <1>6. \A d \in barCovered' : Settled(d)' /\ barStore'[d] = barSource'[d]
    BY <1>1, <1>2 DEF BarInv, BarTypes, Settled
  <1>7. Asked'
    <2> SUFFICES ASSUME NEW d \in gap[1] .. (win - 1)
                 PROVE  /\ seen[d] = barSource[d]
                        /\ barStore'[d] = seen[d] \/ resp'[d] = seen[d]
      BY <1>1 DEF BarInv, Asked
    <2>1. d \in Bars!Day /\ seen[d] = barSource[d] /\ (barStore[d] = seen[d] \/ resp[d] = seen[d])
      BY <1>1, BarConstants DEF BarInv, BarTypes, Asked
    <2> QED
      BY <1>2, <2>1 DEF BarInv, BarTypes
  <1> QED
    BY <1>3, <1>4, <1>5, <1>6, <1>7 DEF BarInv

LEMMA BarRecords ==
  ASSUME BarInv, Bars!RecordGap
  PROVE  BarInv' /\ BarMoves
PROOF
  <1>1. /\ barPc = "window" /\ barPc' = "gaps" /\ win > gap[2]
        /\ resp = [d \in Bars!Day |-> 0]
        /\ barCovered' = barCovered \cup (gap[1] .. gap[2])
        /\ todo' = todo \ (gap[1] .. gap[2])
        /\ UNCHANGED <<clock, open, barSource, barStore, job, gap, win, resp, seen>>
    BY DEF Bars!RecordGap, Bars!NoBars
  <1>2. \A d \in gap[1] .. gap[2] :
          d \in Bars!Day /\ Settled(d) /\ seen[d] >= 0 /\ barStore[d] = seen[d]
          /\ barStore[d] = barSource[d]
    <2> SUFFICES ASSUME NEW d \in gap[1] .. gap[2]
                 PROVE  /\ d \in Bars!Day /\ Settled(d) /\ seen[d] >= 0
                        /\ barStore[d] = seen[d] /\ barStore[d] = barSource[d]
      OBVIOUS
    <2>1. d \in Bars!Day /\ d \in gap[1] .. (win - 1) /\ d <= job.hi
      BY <1>1, BarConstants DEF BarInv, BarTypes, Asked, Requested
    <2>2. seen[d] = barSource[d] /\ (barStore[d] = seen[d] \/ seen[d] = 0)
      BY <1>1, <2>1 DEF BarInv, Asked
    <2> QED
      BY <1>1, <2>1, <2>2 DEF BarInv, BarTypes, Served, Requested
  <1>3. BarTypes' /\ BarMoves
    BY <1>1, <1>2 DEF BarInv, BarTypes, BarMoves
  <1>4. Served' /\ Asked' /\ Requested'
    BY <1>1 DEF BarInv, Served, Asked, Requested, Settled
  <1>5. \A d \in barCovered' : Settled(d)' /\ barStore'[d] = barSource'[d]
    BY <1>1, <1>2 DEF BarInv, Settled
  <1> QED
    BY <1>3, <1>4, <1>5 DEF BarInv

LEMMA BarLeaves ==
  ASSUME BarInv, Bars!FetchFails \/ Bars!Crash
  PROVE  BarInv' /\ BarMoves
PROOF
  <1>1. /\ UNCHANGED <<clock, open, barSource, barStore, barCovered>> /\ barPc' = "idle"
        /\ job' = [lo |-> 0, hi |-> 0, forced |-> FALSE, base |-> [d \in Bars!Day |-> 0]]
        /\ todo' = {} /\ gap' = <<0, 0>> /\ win' = 0 /\ resp' = [d \in Bars!Day |-> 0]
        /\ seen' = [d \in Bars!Day |-> -1]
    BY DEF Bars!FetchFails, Bars!Crash, Bars!Leave, Bars!NoJob, Bars!NoBars
  <1>2. BarTypes' /\ BarMoves
    <2>1. 0 \in Bars!Day
      BY BarConstants DEF Bars!Day
    <2> QED
      BY <1>1, <2>1 DEF BarInv, BarTypes, BarMoves
  <1>3. Served' /\ Asked' /\ Requested'
    BY <1>1 DEF BarInv, BarTypes, Served, Asked, Requested
  <1> QED
    BY <1>1, <1>2, <1>3 DEF BarInv, Settled

(* IntradayCache: for runs that ask after the session and a vendor that is *)
(* then done with the day, whatever the sizes of windows and month files   *)
(* and wherever a fetch fails or a process is killed: every day of a claim *)
(* was asked for and its bars are on disk, no re-fetch drops a bar, a      *)
(* covered day is complete and so is what a read returns.                  *)
THEOREM MinuteClaimsAreEarned ==
  ASSUME RunsInSession = FALSE, PublishesLate = FALSE
  PROVE  MCSpec => ClaimsAreEarned
PROOF
  <1>1. BarInv /\ Bars!Next => BarInv' /\ BarMoves
    <2> SUFFICES ASSUME BarInv, Bars!Next PROVE BarInv' /\ BarMoves
      OBVIOUS
    <2>1. CASE Bars!NextDay \/ Bars!SessionEnds \/ \E d \in Bars!Day : Bars!BarsArrive(d)
      BY <2>1, BarClock
    <2>2. CASE \/ \E d, e \in Bars!Day, forced \in BOOLEAN : Bars!Begin(d, e, forced)
               \/ Bars!Plan \/ (\E d, e \in Bars!Day : Bars!NextGap(d, e)) \/ Bars!Finish
      BY <2>2, BarPlans
    <2>3. CASE Bars!FetchWindow \/ Bars!RecordGap \/ \E m \in Bars!Day : Bars!UpsertMonth(m)
      BY <2>3, BarFetches, BarStores, BarRecords
    <2>4. CASE Bars!FetchFails \/ Bars!Crash
      BY <2>4, BarLeaves
    <2> QED
      BY <2>1, <2>2, <2>3, <2>4 DEF Bars!Next
  <1>2. BarInv /\ [MCNext]_mcVars => BarInv' /\ BarMoves
    BY <1>1, BarStutter, Zenon DEF MCNext, mcVars
  <1>3. BarInv => Bars!CoveredIsComplete /\ Bars!ReadIsComplete
    BY DEF BarInv, BarTypes, Served, Requested, Bars!CoveredIsComplete, Bars!ReadIsComplete
  <1>4. BarMoves => /\ [\A d \in barCovered' \ barCovered : seen[d] >= 0 /\ barStore[d] >= seen[d]]_barCovered
                    /\ [\A d \in Bars!Day : barStore'[d] >= barStore[d]]_barStore
    BY DEF BarMoves
  <1> QED
    BY <1>2, <1>3, <1>4, BarInit, PTL
       DEF MCSpec, ClaimsAreEarned, Bars!ClaimsAreEarned, Bars!BarsAreKept
-----------------------------------------------------------------------------
(* The evaluations that share the execution prices.                        *)

LEMMA ExecConstants ==
  /\ Minutes \in Nat /\ (\A d \in Exec!Dates : d \in Nat)
  /\ None \notin [frame : Exec!Frames, described : BOOLEAN] /\ None \notin Nat \X Nat
  BY InstancesAssumption DEF Exec!ExecAssumption, Exec!Dates

(* A row that is ok has a price and a factor.                              *)
PricedFrame(f) ==
    /\ f \in Exec!Frames
    /\ \A d \in DOMAIN f : f[d].status = "ok" => f[d].raw > 0 /\ f[d].adj # 0

(* The price of a date is that of its first bar, unless the minutes have   *)
(* moved since.                                                            *)
FirstBarPrices(f) ==
    \A d \in DOMAIN f : f[d].raw > 0 =>
      \E m \in Exec!Slots :
        /\ f[d].raw = Exec!Vwap(d, m)
        /\ \A k \in 1 .. (m - 1) : minute[d][k] # "dry" \/ events > 0

LEMMA RawPrices ==
  ASSUME NEW bars \in Exec!Bars, NEW d \in Exec!Dates
  PROVE  /\ Exec!RawPrice(bars, d) \in Nat
         /\ Exec!RawPrice(bars, d) > 0 =>
              \E m \in Exec!Slots : /\ Exec!RawPrice(bars, d) = Exec!Vwap(d, m)
                                    /\ \A k \in 1 .. (m - 1) : bars[k] # "dry"
PROOF
  <1> DEFINE at == Exec!Selected(bars)
             c == CHOOSE m \in at : TRUE
  <1>1. CASE \E m \in at : bars[m] = "traded"
    <2>1. c \in at
      BY <1>1
    <2>2. c \in Exec!Slots /\ \A n \in Exec!Slots : bars[n] # "missing" => c <= n
      BY <2>1 DEF Exec!Selected
    <2>3. Exec!RawPrice(bars, d) = Exec!Vwap(d, c)
      BY <1>1 DEF Exec!RawPrice
    <2> HIDE DEF c, at
    <2>4. \A k \in 1 .. (c - 1) : bars[k] # "dry"
      BY <2>2, ExecConstants DEF Exec!Slots
    <2>5. d * d \in Nat /\ c \in Nat
      BY <2>2, ExecConstants DEF Exec!Slots
    <2>6. Exec!Vwap(d, c) \in Nat
      BY <2>5 DEF Exec!Vwap
    <2> QED
      BY <2>2, <2>3, <2>4, <2>6
  <1>2. CASE ~(\E m \in at : bars[m] = "traded")
    BY <1>2 DEF Exec!RawPrice
  <1> QED
    BY <1>1, <1>2

LEMMA AssembledFrame ==
  ASSUME NEW p \in [Exec!Dates -> Exec!Adjs], NEW bars \in [Exec!Dates -> Exec!Bars]
  PROVE  LET f == Exec!Assemble(p, bars)
         IN  /\ PricedFrame(f)
             /\ \A d \in DOMAIN f : f[d].raw > 0 =>
                  \E m \in Exec!Slots : /\ f[d].raw = Exec!Vwap(d, m)
                                        /\ \A k \in 1 .. (m - 1) : bars[d][k] # "dry"
PROOF
  <1> DEFINE f == Exec!Assemble(p, bars)
             row(d) == Exec!Row(bars[d], d, p[d])
  <1>1. f = [d \in Exec!RowsOf(p) |-> row(d)]
    BY DEF Exec!Assemble
  <1>2. Exec!RowsOf(p) \subseteq Exec!Dates /\ \A d \in Exec!RowsOf(p) : p[d] \in {0, 1, 2}
    BY DEF Exec!RowsOf, Exec!Adjs
  <1>3. ASSUME NEW d \in Exec!RowsOf(p)
        PROVE  /\ row(d).raw = Exec!RawPrice(bars[d], d)
               /\ row(d) \in Exec!Rows
               /\ row(d).status = "ok" => row(d).raw > 0 /\ row(d).adj # 0
    <2>1. Exec!RawPrice(bars[d], d) \in Nat /\ p[d] \in {0, 1, 2}
      BY <1>2, RawPrices
    <2> DEFINE raw == Exec!RawPrice(bars[d], d)
               status == IF raw = 0 THEN Exec!MissReason(bars[d])
                         ELSE IF p[d] = 0 THEN "bad_adj_factor" ELSE "ok"
    <2>2. row(d) = [raw |-> raw, adj |-> p[d], status |-> status]
      BY DEF Exec!Row
    <2>3. Exec!MissReason(bars[d]) \in {"no_bar", "bad_vwap"}
      BY DEF Exec!MissReason
    <2> HIDE DEF raw
    <2>6. status = "ok" => raw # 0 /\ p[d] # 0
      BY <2>3
    <2>7. status \in {"no_bar", "bad_vwap", "bad_adj_factor", "ok"}
      BY <2>3
    <2> HIDE DEF status
    <2>4. raw \in Nat /\ row(d).raw = raw /\ row(d).adj = p[d] /\ row(d).status = status
      BY <2>1, <2>2 DEF raw
    <2> QED
      BY <2>1, <2>2, <2>4, <2>6, <2>7 DEF raw, Exec!Rows
  <1> HIDE DEF row, f
  <1>4. DOMAIN f = Exec!RowsOf(p) /\ \A d \in Exec!RowsOf(p) : f[d] = row(d)
    BY <1>1
  <1>5. f \in Exec!Frames
    <2>1. f \in [Exec!RowsOf(p) -> Exec!Rows]
      BY <1>1, <1>3
    <2> QED
      BY <1>2, <2>1 DEF Exec!Frames
  <1>6. \A d \in DOMAIN f : f[d].raw > 0 =>
          \E m \in Exec!Slots : /\ f[d].raw = Exec!Vwap(d, m)
                                /\ \A k \in 1 .. (m - 1) : bars[d][k] # "dry"
    BY <1>2, <1>3, <1>4, RawPrices
  <1> QED
    BY <1>3, <1>4, <1>5, <1>6 DEF PricedFrame, f

(* A lost pair has an anchor without a price, and is charged to one.       *)
LEMMA LossHasACause ==
  ASSUME NEW f, PricedFrame(f), NEW p, Exec!RowsOf(p) = DOMAIN f,
         NEW d \in Exec!Lost(f, p)
  PROVE  \E e \in {d} \cup Exec!Exit(DOMAIN f, d) :
           Exec!Cause(f, d) = f[e].status /\ Exec!Cause(f, d) # "ok"
PROOF
  <1> DEFINE price == [x \in DOMAIN f |-> Exec!AdjPrice(f[x])]
             at == Exec!Exit(DOMAIN f, d)
             exits == {f[e].status : e \in at}
  <1>1. d \in DOMAIN f /\ at # {} /\ Exec!ExecReturns(f)[d] = None
    BY DEF Exec!Lost, Exec!CloseMeasurable
  <1>2. at \subseteq DOMAIN f
    BY DEF Exec!Exit
  <1>3. \A x \in DOMAIN f : f[x].raw \in Nat /\ f[x].adj \in {0, 1, 2}
    BY DEF PricedFrame, Exec!Frames, Exec!Rows
  <1>4. \A x \in DOMAIN f : /\ price[x] \in Nat
                            /\ f[x].status = "ok" => price[x] > 0
    <2> SUFFICES ASSUME NEW x \in DOMAIN f
                 PROVE  Exec!AdjPrice(f[x]) \in Nat /\ (f[x].status = "ok" => Exec!AdjPrice(f[x]) > 0)
      OBVIOUS
    <2>1. f[x].status = "ok" => f[x].raw > 0 /\ f[x].adj # 0
      BY DEF PricedFrame
    <2>2. f[x].raw * 0 = 0 /\ f[x].raw * 1 = f[x].raw /\ f[x].raw * 2 = f[x].raw + f[x].raw
      BY <1>3
    <2> QED
      BY <1>3, <2>1, <2>2 DEF Exec!AdjPrice
  <1>5. Exec!ExecReturns(f)[d] = Exec!Return(price, d)
    BY <1>1 DEF Exec!ExecReturns
  <1>6. DOMAIN price = DOMAIN f
    OBVIOUS
  <1> HIDE DEF price
  <1>7. CASE f[d].status # "ok"
    BY <1>7 DEF Exec!Cause
  <1>8. CASE f[d].status = "ok"
    <2>1. \A e \in at : ~(price[e] > 0)
      <3> SUFFICES ASSUME NEW e \in at, price[e] > 0 PROVE FALSE
        OBVIOUS
      <3>1. Exec!Return(price, d) = <<price[CHOOSE x \in at : TRUE], price[d]>>
        BY <1>1, <1>4, <1>6, <1>8 DEF Exec!Return
      <3>2. (CHOOSE x \in at : TRUE) \in DOMAIN f
        BY <1>2
      <3> QED
        BY <1>1, <1>4, <1>5, <3>1, <3>2, ExecConstants
    <2>2. \A s \in exits : s # "ok"
      BY <1>2, <1>4, <2>1
    <2>3. exits # {} /\ (CHOOSE s \in exits : TRUE) \in exits
      BY <1>1
    <2>4. Exec!Cause(f, d) = CHOOSE s \in exits : TRUE
      BY <1>8, <2>3 DEF Exec!Cause
    <2> QED
      BY <2>2, <2>3, <2>4
  <1> QED
    BY <1>7, <1>8

ExecTypes ==
    /\ minute \in [Exec!Dates -> Exec!Bars] /\ daily \in [Exec!Dates -> Exec!Adjs]
    /\ events \in Nat
    /\ artifact # None => artifact \in [frame : Exec!Frames, described : BOOLEAN]
    /\ evalPc \in {"idle", "prices", "describe", "check", "no_book", "with_book", "register"}
    /\ evalPc # "idle" => panel \in [Exec!Dates -> Exec!Adjs] /\ mode \in {"decision", "close"}
    /\ evalPc \notin {"idle", "prices"} => artifact # None /\ prices = artifact.frame

(* A report under one of the three names of a factor.                      *)
ReportHolds(name, r) ==
    /\ r.returns = Exec!ExecReturns(artifact.frame)
    /\ r.book = (CASE name[2] = "no_book" -> None
                   [] name[2] = "with_book" -> "decision"
                   [] OTHER -> "close")
    /\ r.rows = DOMAIN artifact.frame =>
         \A d \in DOMAIN r.coverage :
           \E e \in {d} \cup Exec!Exit(r.rows, d) :
             r.coverage[d] = artifact.frame[e].status /\ r.coverage[d] # "ok"

Filed(name) == name \in DOMAIN reports

ExecInv ==
    /\ ExecTypes
    /\ artifact # None => PricedFrame(artifact.frame) /\ FirstBarPrices(artifact.frame)
    /\ \A name \in DOMAIN reports : artifact # None /\ ReportHolds(name, reports[name])
    /\ \A rec \in scored : Filed(<<rec[1], "no_book">>) /\ Filed(<<rec[1], Exec!Suffix(rec[2])>>)
    /\ evalPc \in {"with_book", "register"} => Filed(<<factor, "no_book">>)
    /\ evalPc = "register" => Filed(<<factor, Exec!Suffix(mode)>>)

LEMMA ExecInit == MCInit => ExecInv
PROOF
  <1> SUFFICES ASSUME MCInit PROVE ExecInv
    OBVIOUS
  <1>1. Exec!Init
    BY DEF MCInit
  <1>2. daily \in [Exec!Dates -> Exec!Adjs] /\ minute \in [Exec!Dates -> Exec!Bars]
    BY <1>1 DEF Exec!Init
  <1>3. /\ artifact = None /\ reports = [n \in {} |-> None] /\ scored = {}
        /\ evalPc = "idle" /\ events = 0
    BY <1>1 DEF Exec!Init
  <1> QED
    BY <1>2, <1>3 DEF ExecInv, ExecTypes

LEMMA ExecStutter == ExecInv /\ UNCHANGED execVars => ExecInv'
  BY DEF execVars, ExecInv, ExecTypes, FirstBarPrices, ReportHolds, Filed

(* The frame on disk and the reports stay; so do the promises about them.  *)
LEMMA ReportsStay ==
  ASSUME ExecInv, ExecTypes', UNCHANGED <<minute, events, reports, scored>>,
         artifact # None => artifact' # None /\ artifact'.frame = artifact.frame,
         artifact = None => artifact' = None,
         evalPc' = "with_book" => FALSE, evalPc' = "register" => FALSE
  PROVE  ExecInv'
PROOF
  <1>1. artifact' # None => artifact # None /\ artifact'.frame = artifact.frame
    OBVIOUS
  <1> QED
    BY <1>1 DEF ExecInv, FirstBarPrices, ReportHolds, Filed

(* An evaluation begins, finds the prices, checks them, or ends.           *)
LEMMA ExecReads ==
  ASSUME ExecInv,
         \/ \E f \in PricedFactors, m \in {"decision", "close"} : Exec!Start(f, m)
         \/ Exec!Reuse \/ Exec!Describe \/ Exec!Check \/ Exec!Disagrees \/ Exec!Kill
  PROVE  ExecInv'
PROOF
  <1>1. UNCHANGED <<minute, daily, events, reports, scored>>
    BY DEF Exec!Start, Exec!Reuse, Exec!Describe, Exec!Check, Exec!Disagrees, Exec!Kill,
           Exec!run
  <1>2. evalPc' \notin {"with_book", "register"}
    BY DEF Exec!Start, Exec!Reuse, Exec!Describe, Exec!Check, Exec!Disagrees, Exec!Kill,
           Exec!Ends
  <1>3. CASE Exec!Describe
    <2>1. /\ evalPc = "describe" /\ evalPc' = "check"
          /\ artifact' = [artifact EXCEPT !.described = TRUE]
          /\ UNCHANGED <<panel, mode, prices>>
      BY <1>3 DEF Exec!Describe, Exec!run
    <2>2. artifact # None /\ artifact \in [frame : Exec!Frames, described : BOOLEAN]
      BY <2>1 DEF ExecInv, ExecTypes
    <2>3. /\ artifact' \in [frame : Exec!Frames, described : BOOLEAN]
          /\ artifact'.frame = artifact.frame
      BY <2>1, <2>2
    <2>4. artifact' # None
      BY <2>3, ExecConstants
    <2>5. ExecTypes'
      BY <1>1, <2>1, <2>2, <2>3, <2>4 DEF ExecInv, ExecTypes
    <2> QED
      BY <1>1, <1>2, <2>2, <2>3, <2>4, <2>5, ReportsStay
  <1>4. CASE \/ \E f \in PricedFactors, m \in {"decision", "close"} : Exec!Start(f, m)
             \/ Exec!Reuse \/ Exec!Check \/ Exec!Disagrees \/ Exec!Kill
    <2>1. artifact' = artifact
      BY <1>4 DEF Exec!Start, Exec!Reuse, Exec!Check, Exec!Disagrees, Exec!Kill
    <2>2. ExecTypes'
      <3>1. CASE \E f \in PricedFactors, m \in {"decision", "close"} : Exec!Start(f, m)
        BY <1>1, <2>1, <3>1 DEF Exec!Start, ExecInv, ExecTypes
      <3>2. CASE Exec!Reuse
        BY <1>1, <2>1, <3>2 DEF Exec!Reuse, Exec!Exists, ExecInv, ExecTypes
      <3>3. CASE Exec!Check
        BY <1>1, <2>1, <3>3 DEF Exec!Check, Exec!Ends, ExecInv, ExecTypes
      <3>4. CASE Exec!Disagrees \/ Exec!Kill
        BY <1>1, <2>1, <3>4 DEF Exec!Disagrees, Exec!Kill, Exec!Ends, ExecInv, ExecTypes
      <3> QED
        BY <1>4, <3>1, <3>2, <3>3, <3>4
    <2> QED
      BY <1>1, <1>2, <2>1, <2>2, ReportsStay
  <1> QED
    BY <1>3, <1>4

(* The first evaluation builds the frame, before any report exists.        *)
LEMMA ExecBuilds ==
  ASSUME ExecInv, Exec!Build
  PROVE  ExecInv'
PROOF
  <1>1. /\ evalPc = "prices" /\ evalPc' = "describe" /\ artifact = None
        /\ prices' = Exec!Assemble(panel, minute)
        /\ artifact' = [frame |-> prices', described |-> FALSE]
        /\ UNCHANGED <<minute, daily, reports, scored, factor, mode, panel, hand, runs, events>>
    BY DEF Exec!Build, Exec!Exists
  <1>2. panel \in [Exec!Dates -> Exec!Adjs] /\ minute \in [Exec!Dates -> Exec!Bars]
    BY <1>1 DEF ExecInv, ExecTypes
  <1>3. /\ PricedFrame(prices')
        /\ \A d \in DOMAIN prices' : prices'[d].raw > 0 =>
             \E m \in Exec!Slots : /\ prices'[d].raw = Exec!Vwap(d, m)
                                   /\ \A k \in 1 .. (m - 1) : minute[d][k] # "dry"
    BY <1>1, <1>2, AssembledFrame
  <1>4. artifact'.frame = prices' /\ artifact' \in [frame : Exec!Frames, described : BOOLEAN]
    BY <1>1, <1>3 DEF PricedFrame
  <1>5. ExecTypes' /\ artifact' # None
    BY <1>1, <1>4, ExecConstants DEF ExecInv, ExecTypes
  <1>6. PricedFrame(artifact'.frame) /\ FirstBarPrices(artifact.frame)'
    BY <1>1, <1>3, <1>4 DEF FirstBarPrices
  <1>7. DOMAIN reports = {}
    BY <1>1 DEF ExecInv
  <1> QED
    BY <1>1, <1>5, <1>6, <1>7 DEF ExecInv, Filed

(* A report says what the frame on disk says.                              *)
LEMMA NewReport ==
  ASSUME ExecInv, evalPc \in {"no_book", "with_book"}, NEW suffix, NEW b,
         b = (CASE suffix = "no_book" -> None
                [] suffix = "with_book" -> "decision"
                [] OTHER -> "close")
  PROVE  ReportHolds(<<factor, suffix>>, Exec!Report(b))
PROOF
  <1>1. artifact # None /\ prices = artifact.frame /\ PricedFrame(artifact.frame)
    BY DEF ExecInv, ExecTypes
  <1>2. Exec!Report(b) = [book |-> b, returns |-> Exec!ExecReturns(prices),
                          rows |-> Exec!RowsOf(panel), coverage |-> Exec!Coverage(prices, panel),
                          hand |-> hand]
    BY DEF Exec!Report
  <1>3. ASSUME Exec!RowsOf(panel) = DOMAIN prices,
               NEW d \in DOMAIN Exec!Coverage(prices, panel)
        PROVE  \E e \in {d} \cup Exec!Exit(Exec!RowsOf(panel), d) :
                 /\ Exec!Coverage(prices, panel)[d] = prices[e].status
                 /\ Exec!Coverage(prices, panel)[d] # "ok"
    <2>1. d \in Exec!Lost(prices, panel) /\ Exec!Coverage(prices, panel)[d] = Exec!Cause(prices, d)
      BY DEF Exec!Coverage
    <2> QED
      BY <1>1, <1>3, <2>1, LossHasACause
  <1> QED
    BY <1>1, <1>2, <1>3 DEF ReportHolds

LEMMA ExecWrites ==
  ASSUME ExecInv, Exec!WriteNoBook \/ Exec!WriteWithBook
  PROVE  ExecInv'
PROOF
  <1> DEFINE suffix == IF evalPc = "no_book" THEN "no_book" ELSE Exec!Suffix(mode)
             b == IF evalPc = "no_book" THEN None ELSE mode
             name == <<factor, suffix>>
  <1>1. /\ evalPc \in {"no_book", "with_book"}
        /\ evalPc' = IF evalPc = "no_book" THEN "with_book" ELSE "register"
        /\ reports' = [n \in (DOMAIN reports) \cup {name} |->
                         IF n = name THEN Exec!Report(b) ELSE reports[n]]
        /\ UNCHANGED <<minute, daily, artifact, scored, factor, mode, panel, prices, hand, events>>
    BY DEF Exec!WriteNoBook, Exec!WriteWithBook, Exec!Write, Exec!run
  <1>2. b = (CASE suffix = "no_book" -> None
               [] suffix = "with_book" -> "decision"
               [] OTHER -> "close")
    BY <1>1 DEF ExecInv, ExecTypes, Exec!Suffix
  <1>3. ReportHolds(name, Exec!Report(b)) /\ artifact # None
    BY <1>1, <1>2, NewReport DEF ExecInv, ExecTypes
  <1>4. /\ evalPc' = "register" => evalPc = "with_book" /\ suffix = Exec!Suffix(mode)
        /\ evalPc' = "with_book" => suffix = "no_book"
    BY <1>1
  <1> HIDE DEF b, suffix
  <1>5. \A n \in DOMAIN reports' : ReportHolds(n, reports'[n])
    BY <1>1, <1>3 DEF ExecInv
  <1>6. ASSUME NEW n \in DOMAIN reports'
        PROVE  ReportHolds(n, reports[n])'
    <2>1. artifact' = artifact
      BY <1>1
    <2>2. ReportHolds(n, reports'[n])
      BY <1>5
    <2> QED
      BY <2>1, <2>2 DEF ReportHolds
  <1>7. ExecTypes'
    BY <1>1, <1>3 DEF ExecInv, ExecTypes
  <1>8. name \in DOMAIN reports' /\ \A n \in DOMAIN reports : n \in DOMAIN reports'
    BY <1>1
  <1> QED
    BY <1>1, <1>3, <1>4, <1>6, <1>7, <1>8 DEF ExecInv, FirstBarPrices, Filed

LEMMA ExecRegisters ==
  ASSUME ExecInv, Exec!Register
  PROVE  ExecInv'
PROOF
  <1>1. /\ evalPc = "register" /\ evalPc' = "idle" /\ scored' = scored \cup {<<factor, mode>>}
        /\ UNCHANGED <<minute, daily, artifact, reports, events>>
    BY DEF Exec!Register, Exec!Ends
  <1>2. ExecTypes'
    BY <1>1 DEF ExecInv, ExecTypes
  <1>3. ASSUME NEW rec \in scored'
        PROVE  Filed(<<rec[1], "no_book">>)' /\ Filed(<<rec[1], Exec!Suffix(rec[2])>>)'
    <2>1. Filed(<<rec[1], "no_book">>) /\ Filed(<<rec[1], Exec!Suffix(rec[2])>>)
      <3>1. CASE rec \in scored
        BY <3>1 DEF ExecInv
      <3>2. CASE rec = <<factor, mode>>
        <4>1. rec[1] = factor /\ rec[2] = mode
          BY <3>2
        <4> QED
          BY <1>1, <4>1 DEF ExecInv
      <3> QED
        BY <1>1, <3>1, <3>2
    <2> QED
      BY <1>1, <2>1 DEF Filed
  <1> QED
    BY <1>1, <1>2, <1>3 DEF ExecInv, FirstBarPrices, ReportHolds

(* The caches move beside the evaluation.                                  *)
LEMMA ExecWarms ==
  ASSUME ExecInv,
         \/ \E d \in Exec!Dates, m \in Exec!Slots, bar \in {"dry", "traded"} :
              Exec!WarmMinutes(d, m, bar)
         \/ \E d \in Exec!Dates, adj \in Exec!Adjs \ {None} : Exec!WarmDaily(d, adj)
  PROVE  ExecInv'
PROOF
  <1>1. /\ UNCHANGED <<artifact, reports, scored, evalPc, factor, mode, panel, prices, hand>>
        /\ events' = events + 1
    BY DEF Exec!WarmMinutes, Exec!WarmDaily, Exec!run
  <1>2. minute' \in [Exec!Dates -> Exec!Bars] /\ daily' \in [Exec!Dates -> Exec!Adjs]
    <2>1. minute \in [Exec!Dates -> Exec!Bars] /\ daily \in [Exec!Dates -> Exec!Adjs]
      BY DEF ExecInv, ExecTypes
    <2>2. ASSUME NEW d \in Exec!Dates, NEW m \in Exec!Slots, NEW bar \in {"dry", "traded"},
                 Exec!WarmMinutes(d, m, bar)
          PROVE  minute' \in [Exec!Dates -> Exec!Bars] /\ daily' = daily
      <3>1. minute[d] \in Exec!Bars
        BY <2>1
      <3>2. [minute[d] EXCEPT ![m] = bar] \in Exec!Bars
        BY <3>1 DEF Exec!Bars
      <3>3. minute' = [minute EXCEPT ![d] = [minute[d] EXCEPT ![m] = bar]] /\ daily' = daily
        BY <2>2 DEF Exec!WarmMinutes
      <3> QED
        BY <2>1, <3>2, <3>3
    <2>3. ASSUME NEW d \in Exec!Dates, NEW adj \in Exec!Adjs \ {None}, Exec!WarmDaily(d, adj)
          PROVE  daily' \in [Exec!Dates -> Exec!Adjs] /\ minute' = minute
      BY <2>1, <2>3 DEF Exec!WarmDaily
    <2> QED
      BY <2>1, <2>2, <2>3
  <1>3. events' > 0 /\ events' \in Nat
    BY <1>1 DEF ExecInv, ExecTypes
  <1>4. ExecTypes'
    BY <1>1, <1>2, <1>3 DEF ExecInv, ExecTypes
  <1>5. artifact' # None => FirstBarPrices(artifact.frame)'
    BY <1>1, <1>3 DEF ExecInv, FirstBarPrices
  <1> QED
    BY <1>1, <1>4, <1>5 DEF ExecInv, ReportHolds, Filed

LEMMA EvaluationsHold == ExecInv => EvaluationsAgree
PROOF
  <1> SUFFICES ASSUME ExecInv PROVE EvaluationsAgree
    OBVIOUS
  <1>1. Exec!FamilyIsComparable
    BY DEF ExecInv, ReportHolds, Exec!FamilyIsComparable
  <1>2. Exec!BookReportsSurvive
    BY DEF ExecInv, ReportHolds, Exec!BookReportsSurvive
  <1>3. Exec!LossIsExplained
    BY DEF ExecInv, ReportHolds, Exec!LossIsExplained, Exec!Exists
  <1>4. Exec!NoPriceIsSubstituted
    BY DEF ExecInv, FirstBarPrices, Exec!NoPriceIsSubstituted, Exec!Exists
  <1>5. Exec!RecordsHaveReports
    BY DEF ExecInv, Filed, Exec!RecordsHaveReports
  <1> QED
    BY <1>1, <1>2, <1>3, <1>4, <1>5 DEF EvaluationsAgree, Exec!EvaluationsAgree

(* ExecBasis: evaluations that share the execution prices score one return *)
(* series and leave each other's reports alone; a pair that is lost is     *)
(* charged to an anchor that really has no price, no price but the first   *)
(* bar's is used, and a registry record has its reports, however the       *)
(* caches move in between and wherever an evaluation is killed.            *)
THEOREM SharedPricesAgree == MCSpec => []EvaluationsAgree
PROOF
  <1>1. ExecInv /\ Exec!Next => ExecInv'
    <2> SUFFICES ASSUME ExecInv, Exec!Next PROVE ExecInv'
      OBVIOUS
    <2>1. CASE \/ \E f \in PricedFactors, m \in {"decision", "close"} : Exec!Start(f, m)
               \/ Exec!Reuse \/ Exec!Describe \/ Exec!Check \/ Exec!Disagrees \/ Exec!Kill
      BY <2>1, ExecReads
    <2>2. CASE Exec!Build \/ Exec!WriteNoBook \/ Exec!WriteWithBook \/ Exec!Register
      BY <2>2, ExecBuilds, ExecWrites, ExecRegisters
    <2>3. CASE \/ \E d \in Exec!Dates, m \in Exec!Slots, bar \in {"dry", "traded"} :
                    Exec!WarmMinutes(d, m, bar)
               \/ \E d \in Exec!Dates, adj \in Exec!Adjs \ {None} : Exec!WarmDaily(d, adj)
      BY <2>3, ExecWarms
    <2> QED
      BY <2>1, <2>2, <2>3 DEF Exec!Next
  <1>2. ExecInv /\ [MCNext]_mcVars => ExecInv'
    BY <1>1, ExecStutter, Zenon DEF MCNext, mcVars
  <1> QED
    BY <1>2, ExecInit, EvaluationsHold, PTL DEF MCSpec
-----------------------------------------------------------------------------
(***************************************************************************)
(* Intervals: the planner is right for every horizon and every list of     *)
(* intervals: the loop invariants of merge_intervals and                   *)
(* subtract_intervals, and what they give at the end of _gaps_for.         *)
(***************************************************************************)
USE IntervalsAssumption

LEMMA Numbers ==
    /\ Day \subseteq Int /\ 0 \in Day /\ LastDay \in Int
    /\ \A d \in Day : 0 <= d /\ d <= LastDay
    /\ \A d \in Int : 0 <= d /\ d <= LastDay => d \in Day
    /\ \A i \in Interval : i[1] \in Day /\ i[2] \in Day /\ i = <<i[1], i[2]>>
    /\ None \notin Interval
  BY DEF Day, Interval

\* The loop of merge_intervals: the visited intervals are merged, and none of the
\* rest starts before the last of them.
MergeLoop ==
    pc \in {"merge", "mergeTail"} =>
      /\ \A d \in Int : In(d, input) <=> In(d, work) \/ In(d, merged)
      /\ Canonical(merged) /\ \A i \in work : i[1] <= i[2]
      /\ last = None => merged = {}
      /\ last # None => /\ last \in merged
                        /\ \A j \in merged : j = last \/ j[2] + 1 < last[1]
                        /\ \A i \in work : last[1] <= i[1]

\* What the current merge is for.
MergeInput ==
    /\ pc = "merge" => input = covered /\ gaps = {} /\ cursor = lo
    /\ pc = "mergeTail" =>
         /\ tail # None
         /\ \A d \in Int : In(d, input) <=> \/ lo <= d /\ d <= hi /\ ~In(d, covered)
                                            \/ In(d, {tail})

\* The loop of subtract_intervals: the days before the cursor are decided.
SubtractLoop ==
    pc = "subtract" =>
      /\ Canonical(merged) /\ \A d \in Int : In(d, merged) <=> In(d, covered)
      /\ work \subseteq merged
      /\ \A i \in merged : i \in work \/ i[2] < cursor
      /\ lo <= cursor
      /\ Canonical(gaps)
      /\ \A g \in gaps : lo <= g[1] /\ g[2] + 1 < cursor /\ g[2] <= hi
      /\ \A d \in Int : lo <= d /\ d <= hi /\ d < cursor => (In(d, gaps) <=> ~In(d, covered))

PlanInv == TypeOK /\ MergeLoop /\ MergeInput /\ SubtractLoop /\ GapsAreExact /\ GapsAreMaximal

LEMMA InitPlan == Init => PlanInv
<1> SUFFICES ASSUME Init PROVE PlanInv
  OBVIOUS
<1>1. covered \subseteq Interval
  BY DEF Init
<1>2. tail \in Interval \cup {None}
  <2>1. \A t \in 0 .. hi : t \in Day
    BY DEF Init, Day
  <2> QED
    BY <2>1 DEF Init, Tails, Interval
<1>3. TypeOK
  BY <1>1, <1>2, Numbers DEF Init, TypeOK, Clean, Day
<1>4. \A d \in Int : In(d, covered) <=> In(d, Clean(covered))
  BY <1>1, Numbers DEF In, Clean
<1>5. MergeLoop
  BY <1>4 DEF Init, MergeLoop, Canonical, Clean, In
<1> QED
  BY <1>3, <1>5 DEF Init, PlanInv, MergeInput, SubtractLoop, GapsAreExact, GapsAreMaximal

LEMMA MergeStepKeeps ==
    ASSUME PlanInv, NEW i \in work, MergeStep(i)
    PROVE  PlanInv'
<1> USE DEF PlanInv
<1>1. pc \in {"merge", "mergeTail"} /\ IsLeast(i, work) /\ i \in Interval /\ work \subseteq Interval
  BY DEF MergeStep, TypeOK
<1>2. /\ i[1] \in Int /\ i[2] \in Int /\ i[1] <= i[2]
      /\ \A j \in work : j[1] \in Int /\ j[2] \in Int /\ i[1] <= j[1]
  BY <1>1, Numbers DEF MergeLoop, IsLeast
<1>3. /\ \A j \in merged : j \in Interval /\ j[1] \in Int /\ j[2] \in Int /\ j[1] <= j[2]
      /\ Canonical(merged)
  BY <1>1, Numbers DEF TypeOK, MergeLoop, Canonical
<1>4. CASE Touches(i)
  <2>1. /\ last # None /\ i[1] <= last[2] + 1 /\ last \in merged /\ last[1] <= i[1]
        /\ last[1] \in Int /\ last[2] \in Int /\ last \in Interval
        /\ \A j \in merged : j = last \/ j[2] + 1 < last[1]
    BY <1>1, <1>3, <1>4 DEF Touches, MergeLoop
  <2> DEFINE new == Extended(i)
  <2>2. /\ last' = new /\ merged' = (merged \ {last}) \cup {new} /\ work' = work \ {i}
        /\ UNCHANGED <<pc, lo, hi, covered, tail, input, cursor, gaps>>
    BY <1>4 DEF MergeStep
  <2>3. /\ new \in Interval /\ new[1] = last[1] /\ new[2] \in Int
        /\ new[2] = IF i[2] > last[2] THEN i[2] ELSE last[2]
    BY <1>1, <2>1, Numbers DEF Extended, Interval
  <2> HIDE DEF new
  <2>4. TypeOK'
    BY <2>2, <2>3 DEF TypeOK
  <2>5. \A d \in Int : In(d, merged') <=> In(d, merged) \/ In(d, {i})
    <3>1. \A d \in Int : In(d, {new}) <=> In(d, {last}) \/ In(d, {i})
      BY <1>2, <2>1, <2>3 DEF In
    <3>2. \A d : In(d, merged') <=> In(d, merged \ {last}) \/ In(d, {new})
      BY <2>2 DEF In
    <3>3. \A d : In(d, merged) <=> In(d, merged \ {last}) \/ In(d, {last})
      BY <2>1 DEF In
    <3> QED
      BY <3>1, <3>2, <3>3
  <2>6. \A d : In(d, work) <=> In(d, work') \/ In(d, {i})
    BY <2>2 DEF In
  <2>7. \A j \in merged' : j = new \/ (j \in merged /\ j[2] + 1 < new[1])
    BY <2>1, <2>2, <2>3
  <2>8. new[1] <= new[2]
    BY <1>2, <1>3, <2>1, <2>3
  <2>9. Canonical(merged')
    BY <1>3, <2>7, <2>8 DEF Canonical
  <2>10. MergeLoop'
    <3>1. \A d \in Int : In(d, input') <=> In(d, work') \/ In(d, merged')
      BY <1>1, <2>2, <2>5, <2>6 DEF MergeLoop
    <3>2. last' # None
      BY <2>2, <2>3, Numbers
    <3>3. /\ last' \in merged'
          /\ \A j \in merged' : j = last' \/ j[2] + 1 < last'[1]
          /\ \A j \in work' : last'[1] <= j[1] /\ j[1] <= j[2]
      BY <1>1, <1>2, <2>1, <2>2, <2>3, <2>7 DEF MergeLoop
    <3> QED
      BY <3>1, <3>2, <3>3, <2>9 DEF MergeLoop
  <2>11. MergeInput' /\ SubtractLoop' /\ GapsAreExact' /\ GapsAreMaximal'
    BY <1>1, <2>2 DEF MergeInput, SubtractLoop, GapsAreExact, GapsAreMaximal
  <2> QED
    BY <2>4, <2>10, <2>11
<1>5. CASE ~Touches(i)
  <2>2. /\ last' = i /\ merged' = merged \cup {i} /\ work' = work \ {i}
        /\ UNCHANGED <<pc, lo, hi, covered, tail, input, cursor, gaps>>
    BY <1>5 DEF MergeStep
  <2>4. TypeOK'
    BY <1>1, <2>2 DEF TypeOK
  <2>5. \A d : In(d, work) \/ In(d, merged) <=> In(d, work') \/ In(d, merged')
    BY <2>2 DEF In
  <2>7. \A j \in merged : j[2] + 1 < i[1]
    <3>1. CASE last = None
      BY <1>1, <3>1 DEF MergeLoop
    <3>2. CASE last # None
      <4>1. /\ last \in merged /\ last[2] + 1 < i[1]
            /\ \A j \in merged : j = last \/ j[2] + 1 < last[1]
        BY <1>1, <1>2, <1>3, <1>5, <3>2 DEF Touches, MergeLoop
      <4> QED
        BY <4>1, <1>2, <1>3
    <3> QED
      BY <3>1, <3>2
  <2>9. Canonical(merged')
    BY <1>2, <1>3, <2>2, <2>7 DEF Canonical
  <2>10. MergeLoop'
    <3>1. \A d \in Int : In(d, input') <=> In(d, work') \/ In(d, merged')
      BY <1>1, <2>2, <2>5 DEF MergeLoop
    <3>2. last' # None
      BY <1>1, <2>2, Numbers
    <3>3. /\ last' \in merged'
          /\ \A j \in merged' : j = last' \/ j[2] + 1 < last'[1]
          /\ \A j \in work' : last'[1] <= j[1] /\ j[1] <= j[2]
      BY <1>1, <1>2, <2>2, <2>7 DEF MergeLoop
    <3> QED
      BY <3>1, <3>2, <3>3, <2>9 DEF MergeLoop
  <2>11. MergeInput' /\ SubtractLoop' /\ GapsAreExact' /\ GapsAreMaximal'
    BY <1>1, <2>2 DEF MergeInput, SubtractLoop, GapsAreExact, GapsAreMaximal
  <2> QED
    BY <2>4, <2>10, <2>11
<1> QED
  BY <1>4, <1>5

LEMMA StartSubtractKeeps ==
    ASSUME PlanInv, StartSubtract
    PROVE  PlanInv'
<1> USE DEF PlanInv
<1>1. /\ pc = "merge" /\ work = {} /\ pc' = "subtract" /\ work' = merged
      /\ UNCHANGED <<lo, hi, covered, tail, input, merged, last, cursor, gaps>>
  BY DEF StartSubtract
<1>2. \A d : ~In(d, work)
  BY <1>1 DEF In
<1>3. /\ Canonical(merged) /\ \A d \in Int : In(d, merged) <=> In(d, covered)
      /\ gaps = {} /\ cursor = lo
  BY <1>1, <1>2 DEF MergeLoop, MergeInput
<1>4. lo \in Int
  BY Numbers DEF TypeOK
<1>5. SubtractLoop'
  BY <1>1, <1>3, <1>4 DEF SubtractLoop, Canonical
<1>6. TypeOK'
  BY <1>1 DEF TypeOK
<1> QED
  BY <1>1, <1>5, <1>6 DEF MergeLoop, MergeInput, GapsAreExact, GapsAreMaximal

LEMMA SubtractStepKeeps ==
    ASSUME PlanInv, NEW i \in work, SubtractStep(i)
    PROVE  PlanInv'
<1> USE DEF PlanInv
<1>1. /\ pc = "subtract" /\ pc' = "subtract" /\ IsLeast(i, work) /\ cursor <= hi /\ i[1] <= hi
      /\ work' = work \ {i} /\ cursor' = NextUndecided(i)
      /\ UNCHANGED <<lo, hi, covered, tail, input, merged, last>>
  BY DEF SubtractStep
<1>2. /\ Canonical(merged) /\ \A d \in Int : In(d, merged) <=> In(d, covered)
      /\ work \subseteq merged /\ \A j \in merged : j \in work \/ j[2] < cursor
      /\ lo <= cursor /\ Canonical(gaps)
      /\ \A g \in gaps : lo <= g[1] /\ g[2] + 1 < cursor /\ g[2] <= hi
      /\ \A d \in Int : lo <= d /\ d <= hi /\ d < cursor => (In(d, gaps) <=> ~In(d, covered))
  BY <1>1 DEF SubtractLoop
<1>3. /\ \A j \in merged : j[1] \in Int /\ j[2] \in Int /\ j[1] <= j[2] /\ j[2] <= LastDay
      /\ \A g \in gaps : g[1] \in Int /\ g[2] \in Int /\ g[1] <= g[2]
      /\ cursor \in Int /\ 0 <= cursor /\ lo \in Int /\ hi \in Int /\ hi <= LastDay
  BY <1>2, Numbers DEF TypeOK, Canonical
<1>4. /\ i \in merged /\ i[1] \in Int /\ i[2] \in Int /\ i[1] <= i[2] /\ i[2] <= LastDay
      /\ \A j \in work : i[1] <= j[1]
  BY <1>1, <1>2, <1>3 DEF IsLeast
<1>5. /\ cursor' = IF i[2] + 1 > cursor THEN i[2] + 1 ELSE cursor
      /\ cursor' \in Int /\ cursor <= cursor' /\ i[2] < cursor' /\ cursor' <= LastDay + 1
  <2>1. cursor <= LastDay + 1
    BY Numbers DEF TypeOK
  <2> QED
    BY <1>1, <1>3, <1>4, <2>1, Numbers DEF NextUndecided
<1>6. \A j \in merged : j \in work' \/ j[2] < cursor'
  BY <1>1, <1>2, <1>3, <1>4, <1>5
\* Between the cursor and the interval nothing is covered.
<1>7. \A d \in Int : cursor <= d /\ d < i[1] => ~In(d, covered)
  <2> SUFFICES ASSUME NEW d \in Int, cursor <= d, d < i[1], NEW j \in merged, j[1] <= d, d <= j[2]
               PROVE  FALSE
    BY <1>2 DEF In
  <2>1. j \in work
    BY <1>2, <1>3
  <2> QED
    BY <2>1, <1>3, <1>4
<1>8. \A d \in Int : i[1] <= d /\ d <= i[2] => In(d, covered)
  BY <1>2, <1>4 DEF In
<1>9. CASE i[2] >= cursor /\ i[1] > cursor
  <2> DEFINE g == <<cursor, i[1] - 1>>
  <2>1. gaps' = gaps \cup {g} /\ g[1] = cursor /\ g[2] = i[1] - 1
    BY <1>9 DEF SubtractStep
  <2>2. g \in Interval
    BY <1>1, <1>3, <1>4, <1>9, Numbers DEF Interval
  <2> HIDE DEF g
  <2>3. g[1] \in Int /\ g[2] \in Int /\ g[1] <= g[2] /\ g[2] + 1 = i[1]
    BY <1>3, <1>4, <1>9, <2>1
  <2>4. Canonical(gaps')
    BY <1>2, <1>3, <2>1, <2>3 DEF Canonical
  <2>5. \A h \in gaps' : lo <= h[1] /\ h[2] + 1 < cursor' /\ h[2] <= hi
    BY <1>1, <1>2, <1>3, <1>4, <1>5, <2>1, <2>3
  <2>6. \A d : In(d, gaps') <=> In(d, gaps) \/ In(d, {g})
    BY <2>1 DEF In
  <2>7. \A d \in Int : In(d, {g}) <=> cursor <= d /\ d < i[1]
    BY <1>4, <2>1, <2>3 DEF In
  <2>8. \A d \in Int : In(d, gaps) => d < cursor
    BY <1>2, <1>3 DEF In
  <2>9. cursor' = i[2] + 1
    BY <1>3, <1>4, <1>5, <1>9
  <2>10. ASSUME NEW d \in Int, lo <= d, d <= hi, d < cursor'
         PROVE  In(d, gaps') <=> ~In(d, covered)
    <3>1. CASE d < cursor
      BY <1>2, <1>3, <2>6, <2>7, <2>10, <3>1
    <3>2. CASE cursor <= d /\ d < i[1]
      BY <1>7, <2>6, <2>7, <3>2
    <3>3. CASE i[1] <= d /\ d <= i[2]
      <4>1. ~(d < cursor) /\ ~(d < i[1]) /\ In(d, covered)
        BY <1>3, <1>4, <1>8, <1>9, <3>3
      <4> QED
        BY <2>6, <2>7, <2>8, <4>1
    <3> QED
      BY <1>3, <1>4, <2>9, <2>10, <3>1, <3>2, <3>3
  <2>11. SubtractLoop'
    BY <1>1, <1>2, <1>3, <1>5, <1>6, <2>4, <2>5, <2>10 DEF SubtractLoop
  <2>12. TypeOK'
    BY <1>1, <1>3, <1>5, <2>1, <2>2, Numbers DEF TypeOK
  <2> QED
    BY <1>1, <2>11, <2>12 DEF MergeLoop, MergeInput, GapsAreExact, GapsAreMaximal
<1>10. CASE ~(i[2] >= cursor /\ i[1] > cursor)
  <2>1. gaps' = gaps
    BY <1>10 DEF SubtractStep
  <2>2. \A d \in Int : In(d, gaps) => d < cursor
    BY <1>2, <1>3 DEF In
  <2>3. ASSUME NEW d \in Int, lo <= d, d <= hi, d < cursor'
        PROVE  In(d, gaps') <=> ~In(d, covered)
    <3>1. CASE d < cursor
      BY <1>2, <2>1, <2>3, <3>1
    <3>2. CASE cursor <= d
      <4>1. i[1] <= d /\ d <= i[2]
        BY <1>3, <1>4, <1>5, <1>10, <2>3, <3>2
      <4> QED
        BY <1>3, <1>8, <2>1, <2>2, <3>2, <4>1
    <3> QED
      BY <1>3, <3>1, <3>2
  <2>4. \A h \in gaps' : lo <= h[1] /\ h[2] + 1 < cursor' /\ h[2] <= hi
    BY <1>2, <1>3, <1>5, <2>1
  <2>5. SubtractLoop'
    BY <1>1, <1>2, <1>3, <1>5, <1>6, <2>1, <2>3, <2>4 DEF SubtractLoop
  <2>6. TypeOK'
    BY <1>1, <1>3, <1>5, <2>1, Numbers DEF TypeOK
  <2> QED
    BY <1>1, <2>5, <2>6 DEF MergeLoop, MergeInput, GapsAreExact, GapsAreMaximal
<1> QED
  BY <1>9, <1>10

LEMMA SubtractEndKeeps ==
    ASSUME PlanInv, SubtractEnd
    PROVE  PlanInv'
<1> USE DEF PlanInv
<1>1. /\ pc = "subtract" /\ (cursor > hi \/ \A i \in work : i[1] > hi)
      /\ gaps' = RestOfRequest
      /\ UNCHANGED <<lo, hi, covered, tail, cursor>>
  BY DEF SubtractEnd
<1>2. /\ Canonical(merged) /\ \A d \in Int : In(d, merged) <=> In(d, covered)
      /\ work \subseteq merged /\ \A j \in merged : j \in work \/ j[2] < cursor
      /\ lo <= cursor /\ Canonical(gaps)
      /\ \A g \in gaps : lo <= g[1] /\ g[2] + 1 < cursor /\ g[2] <= hi
      /\ \A d \in Int : lo <= d /\ d <= hi /\ d < cursor => (In(d, gaps) <=> ~In(d, covered))
  BY <1>1 DEF SubtractLoop
<1>3. /\ \A j \in merged : j[1] \in Int /\ j[2] \in Int
      /\ \A g \in gaps : g \in Interval /\ g[1] \in Int /\ g[2] \in Int /\ g[1] <= g[2]
      /\ cursor \in Int /\ lo \in Int /\ hi \in Int /\ hi \in Day /\ 0 <= cursor
  BY <1>2, Numbers DEF TypeOK, Canonical
<1>4. \A d \in Int : cursor <= d /\ d <= hi => ~In(d, covered)
  <2> SUFFICES ASSUME NEW d \in Int, cursor <= d, d <= hi, NEW j \in merged, j[1] <= d, d <= j[2]
               PROVE  FALSE
    BY <1>2 DEF In
  <2> QED
    BY <1>1, <1>2, <1>3
<1>5. /\ gaps' \subseteq Interval /\ Canonical(gaps')
      /\ \A d \in Int : In(d, gaps') <=> lo <= d /\ d <= hi /\ ~In(d, covered)
  <2>0. \A d \in Int : In(d, gaps) => lo <= d /\ d <= hi /\ d < cursor
    BY <1>2, <1>3 DEF In
  <2>1. CASE cursor <= hi
    <3> DEFINE g == <<cursor, hi>>
    <3>1. gaps' = gaps \cup {g} /\ g[1] = cursor /\ g[2] = hi /\ g \in Interval
      BY <1>1, <1>3, <2>1, Numbers DEF RestOfRequest, Interval
    <3> HIDE DEF g
    <3>2. \A d : In(d, gaps') <=> In(d, gaps) \/ (cursor <= d /\ d <= hi)
      BY <3>1 DEF In
    <3>3. Canonical(gaps')
      BY <1>2, <1>3, <2>1, <3>1 DEF Canonical
    <3>4. ASSUME NEW d \in Int PROVE In(d, gaps') <=> lo <= d /\ d <= hi /\ ~In(d, covered)
      <4>1. CASE d < cursor
        BY <1>2, <1>3, <2>0, <3>2, <4>1
      <4>2. CASE cursor <= d
        BY <1>2, <1>3, <1>4, <2>0, <3>2, <4>2
      <4> QED
        BY <1>3, <4>1, <4>2
    <3> QED
      BY <1>3, <3>1, <3>3, <3>4
  <2>2. CASE ~(cursor <= hi)
    <3>1. gaps' = gaps
      BY <1>1, <2>2 DEF RestOfRequest
    <3> QED
      BY <1>2, <1>3, <2>0, <2>2, <3>1
  <2> QED
    BY <2>1, <2>2
<1>6. CASE tail = None
  <2>1. pc' = "done" /\ UNCHANGED <<input, work, merged, last>>
    BY <1>6 DEF SubtractEnd
  <2>2. TypeOK'
    BY <1>1, <1>5, <2>1 DEF TypeOK
  <2>3. GapsAreExact'
    BY <1>1, <1>5, <1>6, Numbers DEF GapsAreExact
  <2> QED
    BY <1>5, <2>1, <2>2, <2>3 DEF MergeLoop, MergeInput, SubtractLoop, GapsAreMaximal
<1>7. CASE tail # None
  <2>1. /\ pc' = "mergeTail" /\ input' = gaps' \cup {tail} /\ work' = Clean(input')
        /\ merged' = {} /\ last' = None
    BY <1>1, <1>7 DEF SubtractEnd
  <2>2. tail \in Interval
    BY <1>7 DEF TypeOK
  <2>3. TypeOK'
    BY <1>1, <1>5, <2>1, <2>2 DEF TypeOK, Clean
  <2>4. \A d : In(d, input') <=> In(d, gaps') \/ In(d, {tail})
    BY <2>1 DEF In
  <2>5. \A d \in Int : In(d, input') <=> In(d, work')
    BY <1>5, <2>1, <2>2, Numbers DEF In, Clean
  <2>6. MergeLoop'
    BY <2>1, <2>5 DEF MergeLoop, Canonical, Clean, In
  <2>7. MergeInput'
    BY <1>1, <1>5, <1>7, <2>1, <2>4 DEF MergeInput
  <2> QED
    BY <2>1, <2>3, <2>6, <2>7 DEF SubtractLoop, GapsAreExact, GapsAreMaximal
<1> QED
  BY <1>6, <1>7

LEMMA FinishKeeps ==
    ASSUME PlanInv, Finish
    PROVE  PlanInv'
<1> USE DEF PlanInv
<1>1. /\ pc = "mergeTail" /\ work = {} /\ pc' = "done" /\ gaps' = merged
      /\ UNCHANGED <<lo, hi, covered, tail, input, work, merged, last, cursor>>
  BY DEF Finish
<1>2. \A d \in Int : In(d, merged) <=> \/ lo <= d /\ d <= hi /\ ~In(d, covered)
                                       \/ In(d, {tail})
  <2>1. \A d : ~In(d, work)
    BY <1>1 DEF In
  <2> QED
    BY <1>1, <2>1 DEF MergeLoop, MergeInput
<1>3. TypeOK' /\ GapsAreMaximal'
  BY <1>1 DEF TypeOK, MergeLoop, GapsAreMaximal
<1>4. GapsAreExact'
  BY <1>1, <1>2, Numbers DEF GapsAreExact, MergeInput
<1> QED
  BY <1>1, <1>3, <1>4 DEF MergeLoop, MergeInput, SubtractLoop

LEMMA PlanInvariant == Spec => []PlanInv
<1>1. PlanInv /\ [Next]_vars => PlanInv'
  <2>1. PlanInv /\ UNCHANGED vars => PlanInv'
    BY DEF vars, PlanInv, TypeOK, MergeLoop, MergeInput, SubtractLoop, GapsAreExact, GapsAreMaximal
  <2> QED
    BY <2>1, MergeStepKeeps, StartSubtractKeeps, SubtractStepKeeps, SubtractEndKeeps, FinishKeeps
    DEF Next
<1> QED
  BY InitPlan, <1>1, PTL DEF Spec

\* For every horizon, request, trailing window and list of covered intervals, the
\* planner returns exactly the missing days and the trailing window.
THEOREM PlannerIsExact == Spec => []GapsAreExact
<1>1. PlanInv => GapsAreExact
  BY DEF PlanInv
<1> QED
  BY PlanInvariant, <1>1, PTL

\* ... as maximal runs of days.
THEOREM PlannerIsMaximal == Spec => []GapsAreMaximal
<1>1. PlanInv => GapsAreMaximal
  BY DEF PlanInv
<1> QED
  BY PlanInvariant, <1>1, PTL
=============================================================================
