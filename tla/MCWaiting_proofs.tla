--------------------------- MODULE MCWaiting_proofs ---------------------------
(***************************************************************************)
(* Theorems about two of the protocols in which callers wait for each      *)
(* other. The locked parquet store: as long as nobody is killed, or one    *)
(* call at a time goes on beside a stale lock, and no live holder is       *)
(* slower than the timeout, the file implements the atomic upsert of       *)
(* UpsertStore, for any number of writers, keys, upserts and kills and for *)
(* both stores. The rate limiter: its theorems, at the end, are about the  *)
(* names of RateLimiter.                                                   *)
(***************************************************************************)
EXTENDS MCWaiting, FiniteSetTheorems, TLAPS

LEMMA StoreConstants ==
  /\ IsFiniteSet(Proc) /\ MaxUpserts \in Nat
  /\ FactorStore \in BOOLEAN
  /\ Absent \notin Proc /\ Absent # Torn
  /\ Absent \notin Store!Rows /\ Torn \notin Store!Rows
  BY InstancesAssumption DEF Store!StoreAssumption, Store!IsFiniteSet, IsFiniteSet

(* Beside a stale lock there is one call at a time, or there are no stale  *)
(* locks: nobody is killed.                                                *)
OneAtATime == AloneAfterCrash = TRUE \/ MaxCrashes = 0

(* The process is between taking (or giving up on) the lock and returning. *)
Owns(p) == storePc[p] \in {"read", "open", "write", "replace", "clean", "unlock"}

Alone(p) == \A q \in Proc : storePc[q] # "idle" => q = p

ControlTypes ==
    /\ fileLock \in Proc \cup {Absent} /\ holds \in [Proc -> BOOLEAN]
    /\ storePc \in [Proc -> Store!Phase]
    /\ crashes \in Nat

(* Mutual exclusion: whoever is inside holds the lock file, or the lock    *)
(* file is a stale one and nobody else is even waiting.                    *)
OneInside ==
    /\ \A p \in Proc : holds[p] => fileLock = p /\ Owns(p)
    /\ \A p \in Proc : Owns(p) => holds[p] \/ Store!Stale
    /\ Store!Stale => \A p \in Proc : storePc[p] # "idle" => Alone(p)
    /\ MaxCrashes = 0 => ~Store!Stale

LEMMA Exclusive ==
  ASSUME ControlTypes, OneInside, NEW p \in Proc, NEW q \in Proc, Owns(p),
         Owns(q) \/ (Store!Stale /\ storePc[q] # "idle")
  PROVE  p = q
PROOF
  <1>1. storePc[p] # "idle" /\ (Owns(q) => storePc[q] # "idle")
    BY DEF Owns
  <1>2. CASE Store!Stale
    BY <1>1, <1>2 DEF OneInside, Alone
  <1>3. CASE ~Store!Stale
    BY <1>3 DEF OneInside
  <1> QED
    BY <1>2, <1>3

(* Nobody passes the lock beside the one who is inside.                    *)
LEMMA LockSteps ==
  ASSUME SlowHolder = FALSE, ControlTypes, OneInside, NEW p \in Proc,
         Store!Acquire(p) \/ Store!TimesOut(p)
  PROVE  ControlTypes' /\ OneInside'
PROOF
  <1>1. CASE Store!Acquire(p)
    <2>1. /\ storePc[p] = "wait" /\ fileLock = Absent /\ fileLock' = p
          /\ holds' = [holds EXCEPT ![p] = TRUE] /\ storePc' = [storePc EXCEPT ![p] = "read"]
          /\ crashes' = crashes
      BY <1>1 DEF Store!Acquire, Store!Goto
    <2>2. ControlTypes'
      BY <2>1 DEF ControlTypes, Store!Phase
    <2>3. \A q \in Proc : ~Owns(q) /\ ~holds[q]
      BY <2>1, StoreConstants DEF OneInside, Store!Stale
    <2>4. \A q \in Proc : (holds'[q] <=> q = p) /\ (Owns(q)' => q = p) /\ Owns(p)'
      BY <2>1, <2>3 DEF ControlTypes, Owns
    <2>5. ~Store!Stale'
      BY <2>1, <2>4 DEF Store!Stale
    <2> QED
      BY <2>1, <2>2, <2>4, <2>5 DEF OneInside
  <1>2. CASE Store!TimesOut(p)
    <2>1. /\ storePc[p] = "wait" /\ Store!Stale /\ UNCHANGED <<fileLock, holds, crashes>>
          /\ storePc' = [storePc EXCEPT ![p] = "read"]
      BY <1>2 DEF Store!TimesOut, Store!Goto
    <2>2. ControlTypes'
      BY <2>1 DEF ControlTypes, Store!Phase
    <2>3. Store!Stale' = Store!Stale
      BY <2>1 DEF Store!Stale
    <2>4. \A q \in Proc : storePc'[q] # "idle" <=> storePc[q] # "idle"
      BY <2>1 DEF ControlTypes
    <2>5. \A q \in Proc : Owns(q) => Owns(q)'
      BY <2>1 DEF ControlTypes, Owns
    <2> QED
      BY <2>1, <2>2, <2>3, <2>4, <2>5 DEF OneInside, Alone
  <1> QED
    BY <1>1, <1>2

(* A call begins, works inside the lock, or releases it.                   *)
LEMMA CallSteps ==
  ASSUME OneAtATime, ControlTypes, OneInside, NEW p \in Proc,
         \/ \E K \in SUBSET Key : Store!Begin(p, K)
         \/ Store!Read(p) \/ Store!OpenTmp(p) \/ Store!WriteTmp(p) \/ Store!Replace(p)
         \/ Store!CleanTmp(p) \/ Store!Unlock(p)
  PROVE  ControlTypes' /\ OneInside'
PROOF
  <1>1. CASE \E K \in SUBSET Key : Store!Begin(p, K)
    <2>1. /\ storePc[p] = "idle" /\ UNCHANGED <<fileLock, holds, crashes>>
          /\ storePc' = [storePc EXCEPT ![p] = "wait"]
          /\ Store!Stale => \A q \in Proc \ {p} : storePc[q] = "idle"
      BY <1>1 DEF Store!Begin, Store!Goto, Store!Idle, Store!Busy, OneAtATime, OneInside
    <2>2. ControlTypes'
      BY <2>1 DEF ControlTypes, Store!Phase
    <2>3. Store!Stale' = Store!Stale
      BY <2>1 DEF Store!Stale
    <2>4. \A q \in Proc : Owns(q)' = Owns(q)
      BY <2>1 DEF ControlTypes, Owns
    <2>5. Store!Stale => \A q \in Proc : storePc'[q] # "idle" => q = p
      BY <2>1 DEF ControlTypes
    <2> QED
      BY <2>1, <2>2, <2>3, <2>4, <2>5 DEF OneInside, Alone
  <1>2. CASE Store!Unlock(p)
    <2>1. /\ storePc[p] = "unlock" /\ storePc' = [storePc EXCEPT ![p] = "idle"]
          /\ fileLock' = IF holds[p] THEN Absent ELSE fileLock
          /\ holds' = [holds EXCEPT ![p] = FALSE] /\ crashes' = crashes
      BY <1>2 DEF Store!Unlock, Store!Goto
    <2>2. ControlTypes'
      BY <2>1 DEF ControlTypes, Store!Phase
    <2>3. \A q \in Proc : Owns(q)' => Owns(q) /\ q # p
      BY <2>1 DEF ControlTypes, Owns
    <2>4. \A q \in Proc : ~Owns(q)'
      BY <2>1, <2>3, Exclusive DEF Owns
    <2>5. \A q \in Proc : holds'[q] = FALSE
      BY <2>1, Exclusive DEF ControlTypes, OneInside, Owns
    <2>6. Store!Stale' => Store!Stale
      <3>1. CASE holds[p]
        BY <2>1, <3>1 DEF Store!Stale
      <3>2. CASE ~holds[p]
        BY <2>1, <3>2 DEF OneInside, Owns
      <3> QED
        BY <3>1, <3>2
    <2>7. \A q \in Proc : storePc'[q] # "idle" => storePc[q] # "idle"
      BY <2>1 DEF ControlTypes
    <2> QED
      BY <2>2, <2>4, <2>5, <2>6, <2>7 DEF OneInside, Alone
  <1>3. CASE \/ Store!Read(p) \/ Store!OpenTmp(p) \/ Store!WriteTmp(p) \/ Store!Replace(p)
             \/ Store!CleanTmp(p)
    <2>1. /\ UNCHANGED <<fileLock, holds, crashes>> /\ Owns(p)
          /\ \E to \in {"open", "unlock", "write", "replace", "clean"} :
               storePc' = [storePc EXCEPT ![p] = to]
      BY <1>3 DEF Store!Read, Store!OpenTmp, Store!WriteTmp, Store!Replace, Store!CleanTmp,
                  Store!Goto, Owns
    <2>2. ControlTypes'
      BY <2>1 DEF ControlTypes, Store!Phase
    <2>3. Store!Stale' = Store!Stale
      BY <2>1 DEF Store!Stale
    <2>4. \A q \in Proc : /\ Owns(q)' = Owns(q)
                          /\ storePc'[q] # "idle" <=> storePc[q] # "idle"
      BY <2>1 DEF ControlTypes, Owns
    <2> QED
      BY <2>1, <2>2, <2>3, <2>4 DEF OneInside, Alone
  <1> QED
    BY <1>1, <1>2, <1>3

(* A killed holder leaves at most one process beside its lock file.        *)
LEMMA CrashSteps ==
  ASSUME OneAtATime, ControlTypes, OneInside, NEW p \in Proc, Store!Crash(p)
  PROVE  ControlTypes' /\ OneInside'
PROOF
  <1>1. /\ storePc[p] # "idle" /\ storePc' = [storePc EXCEPT ![p] = "idle"]
        /\ holds' = [holds EXCEPT ![p] = FALSE] /\ fileLock' = fileLock
        /\ crashes < MaxCrashes /\ crashes' = crashes + 1
    BY DEF Store!Crash, Store!Goto, Store!Idle
  <1>0. MaxCrashes # 0 /\ (fileLock = p => Store!Cardinality(Store!Busy(p)) <= 1)
    <2>1. MaxCrashes # 0
      BY <1>1 DEF ControlTypes
    <2> QED
      BY <2>1 DEF Store!Crash, OneAtATime
  <1>2. ControlTypes'
    BY <1>1 DEF ControlTypes, Store!Phase
  <1>3. \A q \in Proc : /\ Owns(q)' <=> Owns(q) /\ q # p
                        /\ storePc'[q] # "idle" <=> storePc[q] # "idle" /\ q # p
    BY <1>1 DEF ControlTypes, Owns
  <1>4. \A q \in Proc : holds'[q] <=> holds[q] /\ q # p
    BY <1>1 DEF ControlTypes
  <1>5. ASSUME Store!Stale', NEW q \in Proc, storePc'[q] # "idle"
        PROVE  Alone(q)'
    <2>1. CASE Store!Stale
      BY <1>3, <1>5, <2>1 DEF OneInside, Alone
    <2>2. CASE ~Store!Stale
      <3>1. fileLock = p
        BY <1>1, <1>4, <1>5, <2>2 DEF Store!Stale, ControlTypes
      <3>2. Store!Busy(p) = {r \in Proc : storePc'[r] # "idle"}
        BY <1>3 DEF Store!Busy, Store!Idle
      <3>3. IsFiniteSet(Store!Busy(p))
        BY StoreConstants, FS_Subset DEF Store!Busy
      <3>4. Cardinality(Store!Busy(p)) \in Nat /\ Cardinality(Store!Busy(p)) <= 1
        BY <1>0, <3>1, <3>3, FS_CardinalityType DEF Store!Cardinality, Cardinality
      <3>5. \E r : Store!Busy(p) \subseteq {r}
        <4>1. CASE Cardinality(Store!Busy(p)) = 0
          BY <3>3, <4>1, FS_EmptySet
        <4>2. CASE Cardinality(Store!Busy(p)) = 1
          BY <3>3, <4>2, FS_Singleton
        <4> QED
          BY <3>4, <4>1, <4>2
      <3> QED
        BY <1>5, <3>2, <3>5 DEF Alone
    <2> QED
      BY <2>1, <2>2
  <1>6. \A q \in Proc : Owns(q)' => holds'[q] \/ Store!Stale'
    BY <1>1, <1>3, <1>4 DEF OneInside, Store!Stale, ControlTypes
  <1> QED
    BY <1>0, <1>1, <1>2, <1>3, <1>4, <1>5, <1>6 DEF OneInside

(* Every call that began has a number left.                                *)
Pending == {q \in Proc : storePc[q] \in {"wait", "read"}}

Numbered == upserts \in Nat /\ upserts + Cardinality(Pending) <= MaxUpserts

LEMMA PendingIsFinite == IsFiniteSet(Pending) /\ Cardinality(Pending) \in Nat
PROOF
  <1>1. Pending \subseteq Proc
    BY DEF Pending
  <1> QED
    BY <1>1, StoreConstants, FS_Subset, FS_CardinalityType

LEMMA NumberSteps ==
  ASSUME ControlTypes, Numbered, NEW p \in Proc,
         \/ \E K \in SUBSET Key : Store!Begin(p, K)
         \/ Store!Step(p) \/ Store!Crash(p)
  PROVE  Numbered' /\ (Store!Read(p) => upserts + 1 <= MaxUpserts)
PROOF
  <1>1. CASE \E K \in SUBSET Key : Store!Begin(p, K)
    <2>1. /\ storePc[p] = "idle" /\ storePc' = [storePc EXCEPT ![p] = "wait"]
          /\ upserts' = upserts /\ upserts + Cardinality(Pending) < MaxUpserts
      BY <1>1 DEF Store!Begin, Store!Goto, Store!Idle, Pending, Store!Cardinality, Cardinality
    <2>2. Pending' = Pending \cup {p} /\ p \notin Pending
      BY <2>1 DEF Pending, ControlTypes
    <2>3. Cardinality(Pending') = Cardinality(Pending) + 1
      BY <2>2, PendingIsFinite, FS_AddElement
    <2>4. ~Store!Read(p)
      BY <2>1 DEF Store!Read
    <2> QED
      BY <2>1, <2>3, <2>4, PendingIsFinite, StoreConstants DEF Numbered
  <1>2. CASE Store!Read(p)
    <2>1. /\ storePc[p] = "read" /\ upserts' = upserts + 1
          /\ \E to \in {"unlock", "open"} : storePc' = [storePc EXCEPT ![p] = to]
      BY <1>2 DEF Store!Read, Store!Goto
    <2>2. Pending' = Pending \ {p} /\ p \in Pending
      BY <2>1 DEF Pending, ControlTypes
    <2>3. Cardinality(Pending') = Cardinality(Pending) - 1
      BY <2>2, PendingIsFinite, FS_RemoveElement
    <2>4. Cardinality(Pending) - 1 \in Nat
      <3>1. IsFiniteSet(Pending') /\ Cardinality(Pending') \in Nat
        BY <2>2, PendingIsFinite, FS_Subset, FS_CardinalityType
      <3> QED
        BY <2>3, <3>1
    <2> QED
      BY <2>1, <2>3, <2>4, PendingIsFinite, StoreConstants DEF Numbered
  <1>3. CASE \/ Store!Acquire(p) \/ Store!TimesOut(p) \/ Store!OpenTmp(p) \/ Store!WriteTmp(p)
             \/ Store!Replace(p) \/ Store!CleanTmp(p) \/ Store!Unlock(p) \/ Store!Crash(p)
    <2>1. /\ upserts' = upserts
          /\ \/ storePc[p] = "wait" /\ storePc' = [storePc EXCEPT ![p] = "read"]
             \/ \E to \in {"write", "replace", "clean", "unlock", "idle"} :
                  storePc' = [storePc EXCEPT ![p] = to]
      BY <1>3 DEF Store!Acquire, Store!TimesOut, Store!OpenTmp, Store!WriteTmp, Store!Replace,
                  Store!CleanTmp, Store!Unlock, Store!Crash, Store!Goto
    <2>2. Pending' \subseteq Pending
      BY <2>1 DEF Pending, ControlTypes
    <2>3. Cardinality(Pending') <= Cardinality(Pending) /\ Cardinality(Pending') \in Nat
      BY <2>2, PendingIsFinite, FS_Subset, FS_CardinalityType
    <2>4. ~Store!Read(p)
      BY <2>1 DEF Store!Read, Numbered
    <2> QED
      BY <2>1, <2>3, <2>4, PendingIsFinite, StoreConstants DEF Numbered
  <1> QED
    BY <1>1, <1>2, <1>3 DEF Store!Step
-----------------------------------------------------------------------------
(* The file.                                                               *)

(* Only a process that writes has a handle, and it is alone.               *)
OneHandle ==
    /\ file \in Store!File(Store!Rows) /\ file.path # Torn
    /\ \A q \in Proc : /\ file.mixed[q] = FALSE
                       /\ file.open[q] = (IF storePc[q] = "write" THEN "tmp" ELSE "none")

Calls ==
    /\ new \in [Proc -> SUBSET Key] /\ seq \in [Proc -> 0 .. MaxUpserts]
    /\ seen \in [Proc -> Store!Rows] /\ acked \in Store!Rows

(* What a call read is what the file holds until it replaces it, and its   *)
(* number is above every number in the file.                               *)
ReadIsValid ==
    /\ \A p \in Proc : storePc[p] \in {"open", "write", "replace"} =>
         /\ seen[p] = Store!Existing /\ seq[p] > 0
         /\ \A k \in Key : Store!Existing[k] < seq[p]
    /\ \A p \in Proc : storePc[p] = "replace" => file.tmp = Store!Merged(p)
    /\ \A k \in Key : acked[k] <= Store!Existing[k] /\ Store!Existing[k] <= upserts
    /\ \A p \in Proc : seq[p] <= upserts

StoreInv == ControlTypes /\ OneInside /\ Numbered /\ OneHandle /\ Calls /\ ReadIsValid

(* A file state with some of its parts replaced.                           *)
LEMMA FileUpdated ==
  ASSUME NEW C, NEW O, NEW M,
         NEW f \in [path : C, tmp : C, open : [Proc -> O], mixed : [Proc -> M]],
         NEW p \in Proc, NEW c \in C, NEW o \in O, NEW m \in [Proc -> M], NEW b \in M,
         NEW handles \in [Proc -> O]
  PROVE  /\ LET g == [f EXCEPT !.tmp = c, !.open[p] = o, !.mixed = m]
            IN  /\ g \in [path : C, tmp : C, open : [Proc -> O], mixed : [Proc -> M]]
                /\ g.path = f.path /\ g.open = [f.open EXCEPT ![p] = o] /\ g.mixed = m
         /\ LET g == [f EXCEPT !.open[p] = o, !.mixed[p] = b]
            IN  /\ g \in [path : C, tmp : C, open : [Proc -> O], mixed : [Proc -> M]]
                /\ g.path = f.path /\ g.tmp = f.tmp
                /\ g.open = [f.open EXCEPT ![p] = o] /\ g.mixed = [f.mixed EXCEPT ![p] = b]
         /\ LET g == [f EXCEPT !.tmp = c]
            IN  /\ g \in [path : C, tmp : C, open : [Proc -> O], mixed : [Proc -> M]]
                /\ g.path = f.path /\ g.tmp = c /\ g.open = f.open /\ g.mixed = f.mixed
         /\ LET g == [f EXCEPT !.path = f.tmp, !.tmp = c, !.open = handles]
            IN  /\ g \in [path : C, tmp : C, open : [Proc -> O], mixed : [Proc -> M]]
                /\ g.path = f.tmp /\ g.open = handles /\ g.mixed = f.mixed
         /\ LET g == [f EXCEPT !.tmp = c, !.open = handles]
            IN  /\ g \in [path : C, tmp : C, open : [Proc -> O], mixed : [Proc -> M]]
                /\ g.path = f.path /\ g.open = handles /\ g.mixed = f.mixed
PROOF
  <1>1. LET g == [f EXCEPT !.tmp = c, !.open[p] = o, !.mixed = m]
        IN  /\ g \in [path : C, tmp : C, open : [Proc -> O], mixed : [Proc -> M]]
            /\ g.path = f.path /\ g.open = [f.open EXCEPT ![p] = o] /\ g.mixed = m
    OBVIOUS
  <1>2. LET g == [f EXCEPT !.open[p] = o, !.mixed[p] = b]
        IN  /\ g \in [path : C, tmp : C, open : [Proc -> O], mixed : [Proc -> M]]
            /\ g.path = f.path /\ g.tmp = f.tmp
            /\ g.open = [f.open EXCEPT ![p] = o] /\ g.mixed = [f.mixed EXCEPT ![p] = b]
    OBVIOUS
  <1>3. LET g == [f EXCEPT !.tmp = c]
        IN  /\ g \in [path : C, tmp : C, open : [Proc -> O], mixed : [Proc -> M]]
            /\ g.path = f.path /\ g.tmp = c /\ g.open = f.open /\ g.mixed = f.mixed
    OBVIOUS
  <1>4. LET g == [f EXCEPT !.path = f.tmp, !.tmp = c, !.open = handles]
        IN  /\ g \in [path : C, tmp : C, open : [Proc -> O], mixed : [Proc -> M]]
            /\ g.path = f.tmp /\ g.open = handles /\ g.mixed = f.mixed
    OBVIOUS
  <1>5. LET g == [f EXCEPT !.tmp = c, !.open = handles]
        IN  /\ g \in [path : C, tmp : C, open : [Proc -> O], mixed : [Proc -> M]]
            /\ g.path = f.path /\ g.open = handles /\ g.mixed = f.mixed
    OBVIOUS
  <1> QED
    BY <1>1, <1>2, <1>3, <1>4, <1>5

LEMMA TmpOpened ==
  ASSUME OneHandle, NEW p \in Proc, \A q \in Proc : storePc[q] # "write"
  PROVE  LET f == Store!Opened(file, p)
         IN  /\ f \in Store!File(Store!Rows) /\ f.path = file.path
             /\ \A q \in Proc : /\ f.mixed[q] = FALSE
                                /\ f.open[q] = (IF q = p THEN "tmp" ELSE "none")
PROOF
  <1> DEFINE m == [q \in Proc |-> IF q = p THEN {r \in Proc \ {p} : file.open[r] = "tmp"} # {}
                                  ELSE file.mixed[q] \/ q \in {r \in Proc \ {p} : file.open[r] = "tmp"}]
             g == [file EXCEPT !.tmp = Torn, !.open[p] = "tmp", !.mixed = m]
  <1>1. m \in [Proc -> BOOLEAN] /\ \A q \in Proc : m[q] = FALSE
    BY DEF OneHandle
  <1>2. Store!Opened(file, p) = g
    BY DEF Store!Opened
  <1> HIDE DEF m
  <1>3. "tmp" \in Store!Handle /\ Torn \in Store!Rows \cup {Absent, Torn}
    BY DEF Store!Handle
  <1>4. /\ g \in Store!File(Store!Rows)
        /\ g.path = file.path /\ g.open = [file.open EXCEPT ![p] = "tmp"] /\ g.mixed = m
    BY <1>1, <1>3, FileUpdated DEF Store!File, OneHandle
  <1> HIDE DEF g
  <1> QED
    BY <1>1, <1>2, <1>4 DEF OneHandle, Store!File

LEMMA TmpWritten ==
  ASSUME OneHandle, NEW p \in Proc, storePc[p] = "write", NEW v \in Store!Rows
  PROVE  \A f \in Store!Written(file, p, v) :
           /\ f \in Store!File(Store!Rows) /\ f.path = file.path /\ f.tmp = v
           /\ \A q \in Proc : /\ f.mixed[q] = FALSE
                              /\ f.open[q] = (IF q = p THEN "none" ELSE file.open[q])
PROOF
  <1> TAKE f \in Store!Written(file, p, v)
  <1> DEFINE closed == [file EXCEPT !.open[p] = "none", !.mixed[p] = FALSE]
             g == [closed EXCEPT !.tmp = v]
  <1>1. file.mixed[p] = FALSE /\ file.open[p] = "tmp"
    BY DEF OneHandle
  <1>2. f = g
    BY <1>1 DEF Store!Written
  <1>3. "none" \in Store!Handle /\ v \in Store!Rows \cup {Absent, Torn}
    BY DEF Store!Handle
  <1>4. /\ closed \in Store!File(Store!Rows)
        /\ closed.path = file.path /\ closed.open = [file.open EXCEPT ![p] = "none"]
        /\ closed.mixed = [file.mixed EXCEPT ![p] = FALSE]
    BY <1>3, FileUpdated DEF Store!File, OneHandle
  <1> HIDE DEF closed
  <1>5. /\ g \in Store!File(Store!Rows)
        /\ g.path = closed.path /\ g.tmp = v /\ g.open = closed.open /\ g.mixed = closed.mixed
    BY <1>3, <1>4, FileUpdated DEF Store!File
  <1> HIDE DEF g
  <1> QED
    BY <1>2, <1>4, <1>5 DEF OneHandle, Store!File

LEMMA TmpReplaced ==
  ASSUME OneHandle, \A q \in Proc : storePc[q] # "write"
  PROVE  LET f == Store!Replaced(file)
         IN  /\ f \in Store!File(Store!Rows) /\ f.path = file.tmp
             /\ \A q \in Proc : f.mixed[q] = FALSE /\ f.open[q] = "none"
PROOF
  <1> DEFINE handles == [q \in Proc |-> CASE file.open[q] = "tmp"  -> "path"
                                          [] file.open[q] = "path" -> "gone"
                                          [] OTHER -> file.open[q]]
             g == [file EXCEPT !.path = file.tmp, !.tmp = Absent, !.open = handles]
  <1>1. handles \in [Proc -> Store!Handle] /\ \A q \in Proc : handles[q] = "none"
    BY DEF Store!Handle, OneHandle
  <1>2. Store!Replaced(file) = g
    BY DEF Store!Replaced
  <1> HIDE DEF handles
  <1>3. /\ g \in Store!File(Store!Rows)
        /\ g.path = file.tmp /\ g.open = handles /\ g.mixed = file.mixed
    BY <1>1, FileUpdated DEF Store!File, OneHandle
  <1> HIDE DEF g
  <1> QED
    BY <1>1, <1>2, <1>3 DEF OneHandle

LEMMA TmpRemoved ==
  ASSUME OneHandle, \A q \in Proc : storePc[q] # "write"
  PROVE  LET f == Store!Unlinked(file)
         IN  /\ f \in Store!File(Store!Rows) /\ f.path = file.path
             /\ \A q \in Proc : f.mixed[q] = FALSE /\ f.open[q] = "none"
PROOF
  <1> DEFINE handles == [q \in Proc |-> IF file.open[q] = "tmp" THEN "gone" ELSE file.open[q]]
             g == [file EXCEPT !.tmp = Absent, !.open = handles]
  <1>1. handles \in [Proc -> Store!Handle] /\ \A q \in Proc : handles[q] = "none"
    BY DEF Store!Handle, OneHandle
  <1>2. Store!Unlinked(file) = g
    BY DEF Store!Unlinked
  <1> HIDE DEF handles
  <1>3. /\ g \in Store!File(Store!Rows)
        /\ g.path = file.path /\ g.open = handles /\ g.mixed = file.mixed
    BY <1>1, FileUpdated DEF Store!File, OneHandle
  <1> HIDE DEF g
  <1> QED
    BY <1>1, <1>2, <1>3 DEF OneHandle

LEMMA TmpAbandoned ==
  ASSUME OneHandle, NEW p \in Proc
  PROVE  LET f == Store!Abandoned(file, p)
         IN  /\ f \in Store!File(Store!Rows)
             /\ f.path = file.path /\ f.tmp = file.tmp
             /\ \A q \in Proc : /\ f.mixed[q] = FALSE
                                /\ f.open[q] = (IF q = p THEN "none" ELSE file.open[q])
PROOF
  <1> DEFINE g == [file EXCEPT !.open[p] = "none", !.mixed[p] = FALSE]
  <1>1. "none" \in Store!Handle
    BY DEF Store!Handle
  <1>2. Store!Abandoned(file, p) = g
    BY DEF Store!Abandoned
  <1>3. /\ g \in Store!File(Store!Rows) /\ g.path = file.path /\ g.tmp = file.tmp
        /\ g.open = [file.open EXCEPT ![p] = "none"] /\ g.mixed = [file.mixed EXCEPT ![p] = FALSE]
    BY <1>1, FileUpdated DEF Store!File, OneHandle
  <1> HIDE DEF g
  <1> QED
    BY <1>2, <1>3 DEF OneHandle, Store!File
-----------------------------------------------------------------------------
LEMMA RowsOfTheFile ==
  /\ Store!Existing \in Store!Rows /\ Store!NoRows \in Store!Rows
  /\ \A f \in Store!Rows, k \in Key : f[k] \in 0 .. MaxUpserts
PROOF
  <1>1. Store!NoRows \in Store!Rows
    BY StoreConstants DEF Store!NoRows, Store!Rows
  <1> QED
    BY <1>1, StoreConstants DEF Store!Existing, Store!Rows

LEMMA MergedRows ==
  ASSUME Calls, NEW p \in Proc
  PROVE  Store!Merged(p) \in Store!Rows
PROOF
  <1>1. seen[p] \in Store!Rows /\ seq[p] \in 0 .. MaxUpserts
    BY DEF Calls
  <1>2. \A k \in Key : (IF k \in new[p] THEN seq[p] ELSE seen[p][k]) \in 0 .. MaxUpserts
    BY <1>1, RowsOfTheFile
  <1> QED
    BY <1>2 DEF Store!Merged, Store!Rows

(* Beside a process inside the lock nobody is inside.                      *)
LEMMA OthersWait ==
  ASSUME StoreInv, NEW p \in Proc, Owns(p), NEW q \in Proc, q # p
  PROVE  storePc[q] \in {"idle", "wait"}
PROOF
  <1>1. ~Owns(q)
    BY Exclusive DEF StoreInv
  <1> QED
    BY <1>1 DEF StoreInv, ControlTypes, Store!Phase, Owns

(* The steps that leave the file alone.                                    *)
LEMMA QuietSteps ==
  ASSUME StoreInv, NEW p \in Proc,
         \/ \E K \in SUBSET Key : Store!Begin(p, K)
         \/ Store!Acquire(p) \/ Store!TimesOut(p) \/ Store!Read(p) \/ Store!Unlock(p),
         Store!Read(p) => upserts + 1 <= MaxUpserts
  PROVE  OneHandle' /\ Calls' /\ ReadIsValid' /\ Store!Existing' = Store!Existing
PROOF
  <1>1. CASE \/ \E K \in SUBSET Key : Store!Begin(p, K)
             \/ Store!Acquire(p) \/ Store!TimesOut(p)
    <2>1. /\ UNCHANGED <<file, seq, seen, upserts, acked>>
          /\ \E K \in SUBSET Key : new' = new \/ new' = [new EXCEPT ![p] = K]
          /\ storePc[p] \in {"idle", "wait"}
          /\ \E to \in {"wait", "read"} : storePc' = [storePc EXCEPT ![p] = to]
      BY <1>1 DEF Store!Begin, Store!Acquire, Store!TimesOut, Store!Goto, Store!Idle
    <2>2. OneHandle'
      BY <2>1 DEF StoreInv, OneHandle, ControlTypes
    <2>3. Calls'
      BY <2>1 DEF StoreInv, Calls
    <2>4. Store!Existing' = Store!Existing
      BY <2>1 DEF Store!Existing
    <2>5. \A q \in Proc : storePc'[q] \in {"open", "write", "replace"} =>
                            storePc[q] = storePc'[q] /\ new'[q] = new[q]
      BY <2>1 DEF StoreInv, ControlTypes, Calls
    <2>6. \A q \in Proc : storePc'[q] = "replace" => Store!Merged(q)' = Store!Merged(q)
      BY <2>1, <2>5 DEF Store!Merged
    <2>7. ReadIsValid'
      BY <2>1, <2>4, <2>5, <2>6 DEF StoreInv, ReadIsValid
    <2> QED
      BY <2>2, <2>3, <2>4, <2>7
  <1>2. CASE Store!Read(p)
    <2>1. /\ storePc[p] = "read" /\ upserts' = upserts + 1 /\ UNCHANGED <<file, new, acked>>
          /\ seq' = [seq EXCEPT ![p] = upserts + 1]
          /\ seen' = [seen EXCEPT ![p] = Store!Existing]
          /\ storePc' = [storePc EXCEPT ![p] = "open"]
      BY <1>2 DEF Store!Read, Store!Goto, StoreInv, OneHandle
    <2>2. OneHandle'
      BY <2>1 DEF StoreInv, OneHandle, ControlTypes
    <2>3. upserts \in Nat /\ upserts + 1 \in 0 .. MaxUpserts
      BY <1>2, StoreConstants DEF StoreInv, Numbered
    <2>4. Calls'
      BY <2>1, <2>3, RowsOfTheFile DEF StoreInv, Calls
    <2>5. Store!Existing' = Store!Existing
      BY <2>1 DEF Store!Existing
    <2>6. Owns(p)
      BY <2>1 DEF Owns
    <2>7. \A q \in Proc : storePc'[q] \in {"open", "write", "replace"} => q = p /\ storePc'[q] = "open"
      BY <2>1, <2>6, OthersWait DEF StoreInv, ControlTypes
    <2>8. \A k \in Key : /\ Store!Existing[k] \in Nat /\ acked[k] \in Nat
                         /\ acked[k] <= Store!Existing[k] /\ Store!Existing[k] <= upserts
      BY RowsOfTheFile DEF StoreInv, ReadIsValid, Calls
    <2>9. seen'[p] = Store!Existing /\ seq'[p] = upserts + 1
      BY <2>1 DEF StoreInv, Calls
    <2>10. \A q \in Proc : seq'[q] <= upserts'
      BY <2>1, <2>3, <2>9 DEF StoreInv, Calls, ReadIsValid
    <2>11. \A q \in Proc : storePc'[q] \in {"open", "write", "replace"} =>
             /\ seen'[q] = Store!Existing' /\ seq'[q] > 0
             /\ \A k \in Key : Store!Existing'[k] < seq'[q]
      BY <2>3, <2>5, <2>7, <2>8, <2>9
    <2>12. /\ \A q \in Proc : storePc'[q] # "replace"
           /\ \A k \in Key : acked'[k] <= Store!Existing'[k] /\ Store!Existing'[k] <= upserts'
      BY <2>1, <2>3, <2>5, <2>7, <2>8
    <2> QED
      BY <2>2, <2>4, <2>5, <2>10, <2>11, <2>12 DEF ReadIsValid
  <1>3. CASE Store!Unlock(p)
    <2>1. /\ storePc[p] = "unlock" /\ UNCHANGED <<file, upserts, acked>>
          /\ storePc' = [storePc EXCEPT ![p] = "idle"] /\ new' = [new EXCEPT ![p] = {}]
          /\ seq' = [seq EXCEPT ![p] = 0] /\ seen' = [seen EXCEPT ![p] = Store!NoRows]
      BY <1>3 DEF Store!Unlock, Store!Goto
    <2>2. OneHandle'
      BY <2>1 DEF StoreInv, OneHandle, ControlTypes
    <2>3. Calls'
      BY <2>1, RowsOfTheFile, StoreConstants DEF StoreInv, Calls
    <2>4. Store!Existing' = Store!Existing
      BY <2>1 DEF Store!Existing
    <2>5. \A q \in Proc : storePc'[q] \in {"open", "write", "replace"} =>
                            /\ storePc[q] = storePc'[q] /\ new'[q] = new[q]
                            /\ seq'[q] = seq[q] /\ seen'[q] = seen[q]
      BY <2>1 DEF StoreInv, ControlTypes, Calls
    <2>6. \A q \in Proc : storePc'[q] = "replace" => Store!Merged(q)' = Store!Merged(q)
      BY <2>1, <2>5 DEF Store!Merged
    <2>7. \A q \in Proc : seq'[q] <= upserts'
      BY <2>1 DEF StoreInv, ReadIsValid, Calls, Numbered
    <2>8. ReadIsValid'
      BY <2>1, <2>4, <2>5, <2>6, <2>7 DEF StoreInv, ReadIsValid
    <2> QED
      BY <2>2, <2>3, <2>4, <2>8
  <1> QED
    BY <1>1, <1>2, <1>3

(* The steps on the temporary file, and a kill.                            *)
LEMMA TmpSteps ==
  ASSUME StoreInv, NEW p \in Proc,
         Store!OpenTmp(p) \/ Store!WriteTmp(p) \/ Store!CleanTmp(p) \/ Store!Crash(p)
  PROVE  OneHandle' /\ Calls' /\ ReadIsValid' /\ Store!Existing' = Store!Existing
PROOF
  <1>1. CASE Store!OpenTmp(p)
    <2>1. /\ storePc[p] = "open" /\ storePc' = [storePc EXCEPT ![p] = "write"]
          /\ file' = Store!Opened(file, p) /\ UNCHANGED <<new, seq, seen, upserts, acked>>
      BY <1>1 DEF Store!OpenTmp, Store!Goto
    <2>2. Owns(p) /\ \A q \in Proc : q # p => storePc[q] \in {"idle", "wait"}
      BY <2>1, OthersWait DEF Owns
    <2>3. /\ file' \in Store!File(Store!Rows) /\ file'.path = file.path
          /\ \A q \in Proc : /\ file'.mixed[q] = FALSE
                             /\ file'.open[q] = (IF q = p THEN "tmp" ELSE "none")
      BY <2>1, <2>2, TmpOpened DEF StoreInv
    <2>4. OneHandle'
      BY <2>1, <2>2, <2>3 DEF StoreInv, OneHandle, ControlTypes
    <2>5. Store!Existing' = Store!Existing
      BY <2>3 DEF Store!Existing
    <2>6. \A q \in Proc : /\ storePc'[q] \in {"open", "write", "replace"} => q = p
                          /\ storePc'[q] # "replace"
      BY <2>1, <2>2 DEF StoreInv, ControlTypes
    <2>7. ReadIsValid' /\ Calls'
      BY <2>1, <2>5, <2>6 DEF StoreInv, ReadIsValid, Calls
    <2> QED
      BY <2>4, <2>5, <2>7
  <1>2. CASE Store!WriteTmp(p)
    <2>1. /\ storePc[p] = "write" /\ storePc' = [storePc EXCEPT ![p] = "replace"]
          /\ file' \in Store!Written(file, p, Store!Merged(p))
          /\ UNCHANGED <<new, seq, seen, upserts, acked>>
      BY <1>2 DEF Store!WriteTmp, Store!Goto
    <2>2. Owns(p) /\ \A q \in Proc : q # p => storePc[q] \in {"idle", "wait"}
      BY <2>1, OthersWait DEF Owns
    <2>3. \A v \in Store!Rows : \A f \in Store!Written(file, p, v) :
            /\ f \in Store!File(Store!Rows) /\ f.path = file.path /\ f.tmp = v
            /\ \A q \in Proc : /\ f.mixed[q] = FALSE
                               /\ f.open[q] = (IF q = p THEN "none" ELSE file.open[q])
      BY <2>1, TmpWritten DEF StoreInv
    <2>4. Store!Merged(p) \in Store!Rows /\ Store!Merged(p)' = Store!Merged(p)
      BY <2>1, MergedRows DEF StoreInv, Store!Merged
    <2>5. /\ file' \in Store!File(Store!Rows) /\ file'.path = file.path
          /\ file'.tmp = Store!Merged(p)
          /\ \A q \in Proc : /\ file'.mixed[q] = FALSE
                             /\ file'.open[q] = (IF q = p THEN "none" ELSE file.open[q])
      BY <2>1, <2>3, <2>4
    <2>6. OneHandle'
      BY <2>1, <2>2, <2>5 DEF StoreInv, OneHandle, ControlTypes
    <2>7. Store!Existing' = Store!Existing
      BY <2>5 DEF Store!Existing
    <2>8. \A q \in Proc : storePc'[q] \in {"open", "write", "replace"} => q = p
      BY <2>1, <2>2 DEF StoreInv, ControlTypes
    <2>9. ReadIsValid' /\ Calls'
      BY <2>1, <2>4, <2>5, <2>7, <2>8 DEF StoreInv, ReadIsValid, Calls
    <2> QED
      BY <2>6, <2>7, <2>9
  <1>3. CASE Store!CleanTmp(p)
    <2>1. /\ storePc[p] = "clean" /\ storePc' = [storePc EXCEPT ![p] = "unlock"]
          /\ file' = Store!Unlinked(file) /\ UNCHANGED <<new, seq, seen, upserts, acked>>
      BY <1>3 DEF Store!CleanTmp, Store!Goto
    <2>2. Owns(p) /\ \A q \in Proc : q # p => storePc[q] \in {"idle", "wait"}
      BY <2>1, OthersWait DEF Owns
    <2>3. /\ file' \in Store!File(Store!Rows) /\ file'.path = file.path
          /\ \A q \in Proc : file'.mixed[q] = FALSE /\ file'.open[q] = "none"
      BY <2>1, <2>2, TmpRemoved DEF StoreInv
    <2>4. OneHandle'
      BY <2>1, <2>2, <2>3 DEF StoreInv, OneHandle, ControlTypes
    <2>5. Store!Existing' = Store!Existing
      BY <2>3 DEF Store!Existing
    <2>6. \A q \in Proc : storePc'[q] \notin {"open", "write", "replace"}
      BY <2>1, <2>2 DEF StoreInv, ControlTypes
    <2>7. ReadIsValid' /\ Calls'
      BY <2>1, <2>5, <2>6 DEF StoreInv, ReadIsValid, Calls
    <2> QED
      BY <2>4, <2>5, <2>7
  <1>4. CASE Store!Crash(p)
    <2>1. /\ storePc' = [storePc EXCEPT ![p] = "idle"] /\ new' = [new EXCEPT ![p] = {}]
          /\ seq' = [seq EXCEPT ![p] = 0] /\ seen' = [seen EXCEPT ![p] = Store!NoRows]
          /\ file' = Store!Abandoned(file, p) /\ UNCHANGED <<upserts, acked>>
      BY <1>4 DEF Store!Crash, Store!Goto
    <2>2. /\ file' \in Store!File(Store!Rows)
          /\ file'.path = file.path /\ file'.tmp = file.tmp
          /\ \A q \in Proc : /\ file'.mixed[q] = FALSE
                             /\ file'.open[q] = (IF q = p THEN "none" ELSE file.open[q])
      BY <2>1, TmpAbandoned DEF StoreInv
    <2>3. OneHandle'
      BY <2>1, <2>2 DEF StoreInv, OneHandle, ControlTypes
    <2>4. Calls'
      BY <2>1, RowsOfTheFile, StoreConstants DEF StoreInv, Calls
    <2>5. Store!Existing' = Store!Existing
      BY <2>2 DEF Store!Existing
    <2>6. \A q \in Proc : storePc'[q] \in {"open", "write", "replace"} =>
                            /\ storePc[q] = storePc'[q] /\ new'[q] = new[q]
                            /\ seq'[q] = seq[q] /\ seen'[q] = seen[q]
      BY <2>1 DEF StoreInv, ControlTypes, Calls
    <2>7. \A q \in Proc : storePc'[q] = "replace" => Store!Merged(q)' = Store!Merged(q)
      BY <2>1, <2>6 DEF Store!Merged
    <2>8. \A q \in Proc : seq'[q] <= upserts'
      BY <2>1 DEF StoreInv, ReadIsValid, Calls, Numbered
    <2>9. ReadIsValid'
      BY <2>1, <2>2, <2>5, <2>6, <2>7, <2>8 DEF StoreInv, ReadIsValid
    <2> QED
      BY <2>3, <2>4, <2>5, <2>9
  <1> QED
    BY <1>1, <1>2, <1>3, <1>4

(* The rename: the rows of the upsert appear, and no other row changes.    *)
LEMMA RenameSteps ==
  ASSUME StoreInv, NEW p \in Proc, Store!Replace(p)
  PROVE  OneHandle' /\ Calls' /\ ReadIsValid' /\ Store!Atomic!Next
PROOF
  <1>1. storePc[p] = "replace" /\ file.tmp = Store!Merged(p) /\ Store!Merged(p) \in Store!Rows
    BY MergedRows DEF Store!Replace, StoreInv, ReadIsValid
  <1>2. file.tmp # Absent /\ file.tmp # Torn
    BY <1>1, StoreConstants
  <1>3. /\ file' = Store!Replaced(file)
        /\ acked' = [k \in Key |-> IF k \in new[p] THEN seq[p] ELSE acked[k]]
        /\ \E to \in {"clean", "unlock"} : storePc' = [storePc EXCEPT ![p] = to]
        /\ UNCHANGED <<new, seq, seen, upserts>>
    BY <1>2 DEF Store!Replace, Store!CanReplace, Store!Goto
  <1>4. Owns(p) /\ \A q \in Proc : q # p => storePc[q] \in {"idle", "wait"}
    BY <1>1, OthersWait DEF Owns
  <1>5. /\ file' \in Store!File(Store!Rows) /\ file'.path = Store!Merged(p)
        /\ \A q \in Proc : file'.mixed[q] = FALSE /\ file'.open[q] = "none"
    BY <1>1, <1>3, <1>4, TmpReplaced DEF StoreInv
  <1>6. \A q \in Proc : storePc'[q] \notin {"open", "write", "replace"}
    BY <1>3, <1>4 DEF StoreInv, ControlTypes
  <1>7. OneHandle'
    BY <1>1, <1>2, <1>5, <1>6 DEF OneHandle
  <1>8. Store!Existing' = Store!Merged(p)
    BY <1>1, <1>5 DEF Store!Existing
  <1>9. /\ seen[p] = Store!Existing /\ seq[p] \in 1 .. MaxUpserts /\ new[p] \in SUBSET Key
        /\ \A k \in Key : Store!Existing[k] < seq[p]
        /\ seq[p] <= upserts
    BY <1>1, StoreConstants DEF StoreInv, ReadIsValid, Calls
  <1>10. Store!Existing' = [k \in Key |-> IF k \in new[p] THEN seq[p] ELSE Store!Existing[k]]
    BY <1>8, <1>9 DEF Store!Merged
  <1>11. \A k \in Key : /\ Store!Existing[k] \in 0 .. MaxUpserts /\ acked[k] \in 0 .. MaxUpserts
                        /\ acked[k] <= Store!Existing[k] /\ Store!Existing[k] <= upserts
    BY RowsOfTheFile DEF StoreInv, ReadIsValid, Calls
  <1>12. Calls'
    <2>1. acked' \in [Key -> 0 .. MaxUpserts]
      BY <1>3, <1>9, <1>11
    <2> QED
      BY <1>3, <2>1 DEF StoreInv, Calls, Store!Rows
  <1>13. \A k \in Key : acked'[k] <= Store!Existing'[k] /\ Store!Existing'[k] <= upserts'
    BY <1>3, <1>9, <1>10, <1>11
  <1>14. ReadIsValid'
    BY <1>3, <1>6, <1>13 DEF StoreInv, ReadIsValid
  <1>15. Store!Atomic!Next
    BY <1>9, <1>10 DEF Store!Atomic!Next, Store!Atomic!Upsert
  <1> QED
    BY <1>7, <1>12, <1>14, <1>15
-----------------------------------------------------------------------------
LEMMA StoreInit == MCInit => StoreInv /\ Store!Atomic!Init
PROOF
  <1> SUFFICES ASSUME MCInit PROVE StoreInv /\ Store!Atomic!Init
    OBVIOUS
  <1>1. /\ file = Store!NoFile /\ fileLock = Absent /\ holds = [p \in Proc |-> FALSE]
        /\ storePc = [p \in Proc |-> "idle"] /\ new = [p \in Proc |-> {}]
        /\ seq = [p \in Proc |-> 0] /\ seen = [p \in Proc |-> Store!NoRows]
        /\ upserts = 0 /\ crashes = 0 /\ acked = Store!NoRows
    BY DEF MCInit, Store!Init
  <1>2. ControlTypes /\ OneInside
    BY <1>1 DEF ControlTypes, OneInside, Owns, Store!Stale, Store!Phase
  <1>3. Numbered
    <2>1. Pending = {}
      BY <1>1 DEF Pending
    <2> QED
      BY <1>1, <2>1, FS_EmptySet, StoreConstants DEF Numbered
  <1>4. OneHandle
    BY <1>1, StoreConstants DEF OneHandle, Store!NoFile, Store!File, Store!Handle
  <1>5. Store!Existing = Store!NoRows
    BY <1>1, StoreConstants DEF Store!Existing, Store!NoFile
  <1>6. Calls /\ ReadIsValid
    BY <1>1, <1>5, RowsOfTheFile, StoreConstants DEF Calls, ReadIsValid, Store!NoRows
  <1>7. Store!Atomic!Init
    BY <1>5 DEF Store!Atomic!Init, Store!NoRows
  <1> QED
    BY <1>2, <1>3, <1>4, <1>6, <1>7 DEF StoreInv

LEMMA StoreSteps ==
  ASSUME SlowHolder = FALSE, OneAtATime, StoreInv, [MCNext]_mcVars
  PROVE  StoreInv' /\ [Store!Atomic!Next]_(Store!Existing)
PROOF
  <1>1. CASE UNCHANGED storeVars
    BY <1>1 DEF storeVars, StoreInv, ControlTypes, OneInside, Owns, Alone, Store!Stale, Numbered,
                Pending, OneHandle, Calls, ReadIsValid, Store!Existing, Store!Merged
  <1>2. ASSUME NEW p \in Proc,
               (\E K \in SUBSET Key : Store!Begin(p, K)) \/ Store!Step(p) \/ Store!Crash(p)
        PROVE  StoreInv' /\ [Store!Atomic!Next]_(Store!Existing)
    <2>1. Numbered' /\ (Store!Read(p) => upserts + 1 <= MaxUpserts)
      BY <1>2, NumberSteps DEF StoreInv
    <2>2. ControlTypes' /\ OneInside'
      <3>1. CASE Store!Acquire(p) \/ Store!TimesOut(p)
        BY <3>1, LockSteps DEF StoreInv
      <3>2. CASE \/ \E K \in SUBSET Key : Store!Begin(p, K)
                 \/ Store!Read(p) \/ Store!OpenTmp(p) \/ Store!WriteTmp(p) \/ Store!Replace(p)
                 \/ Store!CleanTmp(p) \/ Store!Unlock(p)
        BY <3>2, CallSteps DEF StoreInv
      <3>3. CASE Store!Crash(p)
        BY <3>3, CrashSteps DEF StoreInv
      <3> QED
        BY <1>2, <3>1, <3>2, <3>3 DEF Store!Step
    <2>3. OneHandle' /\ Calls' /\ ReadIsValid' /\ [Store!Atomic!Next]_(Store!Existing)
      <3>1. CASE \/ \E K \in SUBSET Key : Store!Begin(p, K)
                 \/ Store!Acquire(p) \/ Store!TimesOut(p) \/ Store!Read(p) \/ Store!Unlock(p)
        BY <2>1, <3>1, QuietSteps
      <3>2. CASE Store!OpenTmp(p) \/ Store!WriteTmp(p) \/ Store!CleanTmp(p) \/ Store!Crash(p)
        BY <3>2, TmpSteps
      <3>3. CASE Store!Replace(p)
        BY <3>3, RenameSteps
      <3> QED
        BY <1>2, <3>1, <3>2, <3>3 DEF Store!Step
    <2> QED
      BY <2>1, <2>2, <2>3 DEF StoreInv
  <1>3. UNCHANGED storeVars \/ \E p \in Proc :
           (\E K \in SUBSET Key : Store!Begin(p, K)) \/ Store!Step(p) \/ Store!Crash(p)
    BY DEF MCNext, mcVars, Store!Next, Store!Exhausted, Store!vars, storeVars
  <1>4. UNCHANGED storeVars => UNCHANGED Store!Existing
    BY DEF storeVars, Store!Existing
  <1> QED
    BY <1>1, <1>2, <1>3, <1>4

(* LockedStore: while nobody is killed, or one call at a time goes on      *)
(* beside the lock file of a killed process, and a live holder is never    *)
(* slower than the timeout, the parquet implements the atomic upsert: the  *)
(* rows of an upsert that returned stay, at that or a later version, and   *)
(* no reader meets a partial file.                                         *)
THEOREM UpsertsAreAtomic ==
  ASSUME SlowHolder = FALSE, OneAtATime
  PROVE  MCSafety => UpsertIsAtomic
PROOF
  <1>1. StoreInv /\ [MCNext]_mcVars => StoreInv' /\ [Store!Atomic!Next]_(Store!Existing)
    BY StoreSteps
  <1>2. StoreInv => Store!RowsAreKept /\ Store!FileIsCoherent
    BY RowsOfTheFile DEF StoreInv, OneHandle, ReadIsValid, Store!RowsAreKept, Store!FileIsCoherent, Calls
  <1>3. MCSafety => []StoreInv
    BY <1>1, StoreInit, PTL DEF MCSafety
  <1>4. MCSafety => [][Store!Atomic!Next]_(Store!Existing)
    BY <1>1, <1>3, PTL DEF MCSafety
  <1>5. MCSafety => Store!Atomic!Spec
    BY <1>4, StoreInit, PTL DEF MCSafety, Store!Atomic!Spec
  <1>6. MCSafety => [][(Store!RowsAreKept /\ Store!FileIsCoherent)']_mcVars
    BY <1>2, <1>3, PTL
  <1> QED
    BY <1>5, <1>6 DEF UpsertIsAtomic, Store!UpsertIsAtomic
-----------------------------------------------------------------------------
(***************************************************************************)
(* RateLimiter: the shared budget holds for any number of workers, retries *)
(* and oversleeping: slots are spaced, and the calls issued stay within    *)
(* what the elapsed time allows.                                           *)
(***************************************************************************)
USE LimiterAssumption

LEMMA AttemptsType == Attempts \in Nat /\ Attempts >= 1
  BY DEF Attempts

LEMMA BackoffType == ASSUME NEW n \in Nat PROVE Backoff(n) \in Nat
<1>1. n = 0 \/ n = 1 \/ n = 2 \/ ~(n = 0 \/ n = 1 \/ n = 2)
  OBVIOUS
<1> QED
  BY <1>1 DEF Backoff

\* A worker on its way to a call has an attempt left.
AttemptLeft ==
    \A t \in Thread :
        pc[t] \in {"acquire", "reserve", "sleep", "call", "answer"} => attempt[t] < Attempts

TypeInv == TypeOK /\ AttemptLeft

LEMMA InitType == Init => TypeInv
  BY AttemptsType DEF Init, TypeInv, TypeOK, AttemptLeft, Phase, Next0, NoRead

LEMMA StepType == TypeInv /\ [Next]_vars => TypeInv'
<1> SUFFICES ASSUME TypeInv, [Next]_vars PROVE TypeInv'
  OBVIOUS
<1> USE AttemptsType DEF TypeInv, TypeOK, AttemptLeft, Phase, Next0, NoRead
<1>1. CASE Tick
  <2>1. now' \in Nat /\ UNCHANGED <<lock, next, pc, read, wake, attempt, left, slots, calls>>
    BY <1>1 DEF Tick
  <2> QED
    BY <2>1
<1>2. CASE UNCHANGED vars
  BY <1>2 DEF vars
<1>3. ASSUME NEW t \in Thread, Request(t) PROVE TypeInv'
  BY <1>3 DEF Request
<1>4. ASSUME NEW t \in Thread, Enter(t) PROVE TypeInv'
  BY <1>4 DEF Enter
<1>5. ASSUME NEW t \in Thread, ReserveIdle(t) PROVE TypeInv'
  <2>1. pc[t] = "reserve" /\ read[t].now \in Nat
    BY <1>5 DEF ReserveIdle
  <2>2. next' \in Nat /\ slots' \in Seq(Nat)
    BY <1>5, <2>1 DEF ReserveIdle
  <2>3. /\ lock' = NoThread /\ read' = [read EXCEPT ![t] = NoRead]
        /\ pc' = [pc EXCEPT ![t] = "call"]
        /\ UNCHANGED <<now, wake, attempt, left, calls>>
    BY <1>5 DEF ReserveIdle
  <2> QED
    BY <2>1, <2>2, <2>3
<1>6. ASSUME NEW t \in Thread, ReserveBusy(t) PROVE TypeInv'
  <2>1. pc[t] = "reserve" /\ read[t].next \in Nat
    BY <1>6 DEF ReserveBusy, BudgetIsIdle
  <2>2. next' \in Nat /\ slots' \in Seq(Nat)
    BY <1>6, <2>1 DEF ReserveBusy
  <2>3. /\ lock' = NoThread /\ read' = [read EXCEPT ![t] = NoRead]
        /\ pc' = [pc EXCEPT ![t] = "sleep"]
        /\ wake' = [wake EXCEPT ![t] = read[t].next]
        /\ UNCHANGED <<now, attempt, left, calls>>
    BY <1>6 DEF ReserveBusy
  <2> QED
    BY <2>1, <2>2, <2>3
<1>7. ASSUME NEW t \in Thread, WakeUp(t) PROVE TypeInv'
  BY <1>7 DEF WakeUp
<1>8. ASSUME NEW t \in Thread, Issue(t) PROVE TypeInv'
  BY <1>8 DEF Issue
<1>9. ASSUME NEW t \in Thread, Answer(t) PROVE TypeInv'
  BY <1>9 DEF Answer
<1>10. ASSUME NEW t \in Thread, Error(t) PROVE TypeInv'
  <2>1. attempt[t] \in Nat /\ attempt[t] + 1 \in 0 .. Attempts
    BY <1>10 DEF Error
  <2>2. now + Backoff(attempt[t]) \in Nat
    <3>1. Backoff(attempt[t]) \in Nat
      BY <2>1, BackoffType, Zenon
    <3> QED
      BY <3>1
  <2>3. /\ attempt' = [attempt EXCEPT ![t] = attempt[t] + 1]
        /\ wake' = [wake EXCEPT ![t] = now + Backoff(attempt[t])]
        /\ pc' = [pc EXCEPT ![t] = "backoff"]
        /\ UNCHANGED <<now, lock, next, read, left, slots, calls>>
    BY <1>10 DEF Error
  <2> HIDE DEF Attempts
  <2> QED
    BY <2>1, <2>2, <2>3
<1>11. ASSUME NEW t \in Thread, Retry(t) PROVE TypeInv'
  BY <1>11 DEF Retry
<1>12. ASSUME NEW t \in Thread, GiveUp(t) PROVE TypeInv'
  BY <1>12 DEF GiveUp
<1> QED
  BY <1>1, <1>2, <1>3, <1>4, <1>5, <1>6, <1>7, <1>8, <1>9, <1>10, <1>11, <1>12
     DEF Next, Work

\* Type correctness of the limiter for any workers, retries and interval.
THEOREM TypeCorrect == Spec => []TypeOK
<1>1. TypeInv => TypeOK
  BY DEF TypeInv
<1> QED
  BY InitType, StepType, <1>1, PTL DEF Spec
-----------------------------------------------------------------------------
(***************************************************************************)
(* Spacing.  The thread in the locked section has read the current slot,   *)
(* so each reservation starts at least one interval after the last one.    *)
(***************************************************************************)
LockInv ==
    \A t \in Thread :
        /\ pc[t] = "reserve" <=> lock = t
        /\ pc[t] = "reserve" => read[t].next = next /\ read[t].now <= now

LastSlotInv ==
    /\ next = NoSlot <=> slots = <<>>
    /\ slots # <<>> => next = slots[Len(slots)] + Interval

SpacingInv == TypeInv /\ LockInv /\ LastSlotInv /\ SlotsAreSpaced

\* Outside the locked section nobody touches the slots.
LEMMA StepSlots ==
    [Next]_vars =>
        \/ UNCHANGED <<slots, next>>
        \/ \E t \in Thread : ReserveIdle(t) \/ ReserveBusy(t)
  BY DEF Next, Work, Tick, Request, Enter, WakeUp, Issue, Answer, Error, Retry, GiveUp, vars

LEMMA StepLock == TypeInv /\ LockInv /\ [Next]_vars => LockInv'
<1> SUFFICES ASSUME TypeInv, LockInv, [Next]_vars PROVE LockInv'
  OBVIOUS
<1> USE DEF TypeInv, TypeOK, LockInv
<1>1. CASE Tick
  BY <1>1 DEF Tick
<1>2. CASE UNCHANGED vars
  BY <1>2 DEF vars
<1>3. ASSUME NEW t \in Thread, Enter(t) PROVE LockInv'
  BY <1>3 DEF Enter, LockIsFree
<1>4. ASSUME NEW t \in Thread, ReserveIdle(t) PROVE LockInv'
  BY <1>4 DEF ReserveIdle
<1>5. ASSUME NEW t \in Thread, ReserveBusy(t) PROVE LockInv'
  BY <1>5 DEF ReserveBusy
<1>6. ASSUME NEW t \in Thread, Request(t) \/ WakeUp(t) \/ Issue(t) PROVE LockInv'
  BY <1>6 DEF Request, WakeUp, Issue
<1>7. ASSUME NEW t \in Thread, Answer(t) \/ Error(t) \/ Retry(t) \/ GiveUp(t) PROVE LockInv'
  BY <1>7 DEF Answer, Error, Retry, GiveUp
<1> QED
  BY <1>1, <1>2, <1>3, <1>4, <1>5, <1>6, <1>7 DEF Next, Work

\* A reservation appends one slot, no earlier than the next free one.
LEMMA Reserved ==
    ASSUME TypeInv, LockInv, LastSlotInv, NEW t \in Thread, ReserveIdle(t) \/ ReserveBusy(t)
    PROVE  \E x \in Nat :
             /\ slots' = Append(slots, x)
             /\ next' = x + Interval
             /\ slots # <<>> => next \in Nat /\ x >= next
             /\ ReserveBusy(t) => wake'[t] = x
             /\ ReserveIdle(t) => x <= now
<1> USE DEF TypeInv, TypeOK, LockInv, LastSlotInv, Next0
<1>0. pc[t] = "reserve" /\ read[t].next = next /\ read[t].now <= now /\ read[t].now \in Nat
  BY DEF ReserveIdle, ReserveBusy
<1>1. CASE ReserveIdle(t)
  <2>1. slots # <<>> => next \in Nat /\ read[t].now >= next
    BY <1>0, <1>1 DEF ReserveIdle, BudgetIsIdle
  <2>2. ~ReserveBusy(t)
    BY <1>1 DEF ReserveIdle, ReserveBusy
  <2> QED
    BY <1>0, <1>1, <2>1, <2>2 DEF ReserveIdle
<1>2. CASE ReserveBusy(t)
  <2>1. read[t].next \in Nat
    BY <1>0, <1>2 DEF ReserveBusy, BudgetIsIdle
  <2>2. ~ReserveIdle(t)
    BY <1>2 DEF ReserveIdle, ReserveBusy
  <2> QED
    BY <1>0, <1>2, <2>1, <2>2 DEF ReserveBusy
<1> QED
  BY <1>1, <1>2

LEMMA StepSpacing == SpacingInv /\ [Next]_vars => SpacingInv'
<1> SUFFICES ASSUME SpacingInv, [Next]_vars PROVE LastSlotInv' /\ SlotsAreSpaced'
  BY StepType, StepLock DEF SpacingInv
<1> USE DEF SpacingInv, LastSlotInv, SlotsAreSpaced
<1>1. CASE UNCHANGED <<slots, next>>
  BY <1>1
<1>2. ASSUME NEW t \in Thread, ReserveIdle(t) \/ ReserveBusy(t)
      PROVE  LastSlotInv' /\ SlotsAreSpaced'
  <2> DEFINE n == Len(slots)
  <2>0. slots \in Seq(Nat) /\ n \in Nat /\ Interval \in Nat
    BY DEF TypeInv, TypeOK
  <2>1. PICK x \in Nat :
           /\ slots' = Append(slots, x)
           /\ next' = x + Interval
           /\ slots # <<>> => next \in Nat /\ x >= next
    BY <1>2, Reserved
  <2>2. /\ Len(slots') = n + 1 /\ slots'[n + 1] = x /\ slots' # <<>>
        /\ \A i \in 1 .. n : slots'[i] = slots[i] /\ slots[i] \in Nat
    BY <2>0, <2>1
  <2>3. LastSlotInv'
    <3>1. next' = slots'[Len(slots')] + Interval
      BY <2>1, <2>2
    <3>2. next' # NoSlot
      BY <2>0, <2>1 DEF LimiterAssumption
    <3> QED
      BY <2>2, <3>1, <3>2
  <2>4. ASSUME NEW i \in 1 .. n + 1, NEW j \in 1 .. n + 1, i < j
        PROVE  slots'[j] >= slots'[i] + (j - i) * Interval
    <3>1. CASE j \in 1 .. n
      <4>1. i \in 1 .. n
        BY <2>0, <2>4, <3>1
      <4>2. slots[j] >= slots[i] + (j - i) * Interval
        BY <2>4, <3>1, <4>1
      <4> QED
        BY <2>2, <3>1, <4>1, <4>2
    <3>2. CASE j = n + 1
      <4>1. i \in 1 .. n /\ n \in 1 .. n /\ slots # <<>>
        BY <2>0, <2>4, <3>2
      <4>2. x >= slots[n] + Interval
        BY <2>0, <2>1, <2>2, <4>1
      <4>3. slots[n] >= slots[i] + (n - i) * Interval
        <5>1. CASE i = n
          BY <2>0, <2>2, <4>1, <5>1
        <5>2. CASE i < n
          BY <2>0, <4>1, <5>2
        <5> QED
          BY <2>0, <4>1, <5>1, <5>2
      <4>4. (j - i) * Interval = (n - i) * Interval + Interval
        BY <2>0, <4>1, <3>2
      <4>5. (n - i) * Interval \in Int /\ (j - i) * Interval \in Int
        BY <2>0, <4>1
      <4> QED
        BY <2>0, <2>2, <3>2, <4>1, <4>2, <4>3, <4>4, <4>5
    <3>3. j \in 1 .. n \/ j = n + 1
      BY <2>0
    <3> HIDE DEF n
    <3> QED
      BY <3>1, <3>2, <3>3, Zenon
  <2>5. SlotsAreSpaced'
    BY <2>2, <2>4
  <2> QED
    BY <2>3, <2>5
<1> QED
  BY <1>1, <1>2, StepSlots

LEMMA InitSpacing == Init => SpacingInv
<1> SUFFICES ASSUME Init PROVE LockInv /\ LastSlotInv /\ SlotsAreSpaced
  BY InitType DEF SpacingInv
<1>1. LockInv
  BY DEF Init, LockInv
<1>2. LastSlotInv /\ SlotsAreSpaced
  BY DEF Init, LastSlotInv, SlotsAreSpaced
<1> QED
  BY <1>1, <1>2

\* Slots are at least one interval apart, however many workers contend.
THEOREM SlotsSpaced == Spec => []SlotsAreSpaced
<1>1. SpacingInv => SlotsAreSpaced
  BY DEF SpacingInv
<1> QED
  BY InitSpacing, StepSpacing, <1>1, PTL DEF Spec
-----------------------------------------------------------------------------
(***************************************************************************)
(* Budget.  Every slot is a call already issued or belongs to a pending    *)
(* worker, and a slot in the future to one that still sleeps; the spacing  *)
(* then bounds the calls by the time that has passed.                      *)
(***************************************************************************)
Waiting == {t \in Thread : pc[t] \in {"sleep", "call"}}

CountInv == calls + Cardinality(Waiting) = Len(slots)

FutureInv ==
    \A i \in 1 .. Len(slots) :
        slots[i] > now => \E t \in Thread : pc[t] = "sleep" /\ wake[t] = slots[i]

BudgetInv == SpacingInv /\ CountInv /\ FutureInv

LEMMA StepFuture == SpacingInv /\ FutureInv /\ [Next]_vars => FutureInv'
<1> SUFFICES ASSUME SpacingInv, FutureInv, [Next]_vars PROVE FutureInv'
  OBVIOUS
<1>0. /\ pc \in [Thread -> Phase] /\ wake \in [Thread -> Nat] /\ now \in Nat
      /\ slots \in Seq(Nat) /\ Len(slots) \in Nat
      /\ \A i \in 1 .. Len(slots) : slots[i] \in Nat
  BY DEF SpacingInv, TypeInv, TypeOK
<1>1. CASE Tick
  <2>1. now' > now /\ now' \in Nat /\ UNCHANGED <<slots, pc, wake>>
    BY <1>0, <1>1 DEF Tick
  <2>2. ASSUME NEW i \in 1 .. Len(slots), slots[i] > now' PROVE slots[i] > now
    BY <1>0, <2>1, <2>2
  <2> QED
    BY <2>1, <2>2 DEF FutureInv
<1>2. CASE UNCHANGED vars
  BY <1>2 DEF vars, FutureInv
<1>3. ASSUME NEW t \in Thread, Request(t) \/ Enter(t) \/ Issue(t) \/ Answer(t) PROVE FutureInv'
  BY <1>0, <1>3 DEF Request, Enter, Issue, Answer, FutureInv
<1>4. ASSUME NEW t \in Thread, Error(t) \/ Retry(t) \/ GiveUp(t) PROVE FutureInv'
  BY <1>0, <1>4 DEF Error, Retry, GiveUp, FutureInv
<1>5. ASSUME NEW t \in Thread, WakeUp(t) PROVE FutureInv'
  <2>1. /\ now' = now /\ slots' = slots /\ now >= wake[t] /\ wake[t] \in Nat
        /\ \A u \in Thread : u # t => pc'[u] = pc[u] /\ wake'[u] = wake[u]
    BY <1>0, <1>5 DEF WakeUp
  <2>2. ASSUME NEW i \in 1 .. Len(slots), slots[i] > now
        PROVE  \E u \in Thread : pc'[u] = "sleep" /\ wake'[u] = slots[i]
    <3>1. PICK u \in Thread : pc[u] = "sleep" /\ wake[u] = slots[i]
      BY <2>2 DEF FutureInv
    <3>2. u # t
      BY <1>0, <2>1, <2>2, <3>1
    <3> QED
      BY <2>1, <3>1, <3>2
  <2> QED
    BY <2>1, <2>2 DEF FutureInv
<1>6. ASSUME NEW t \in Thread, ReserveIdle(t) \/ ReserveBusy(t) PROVE FutureInv'
  <2>1. PICK x \in Nat :
           /\ slots' = Append(slots, x)
           /\ ReserveBusy(t) => wake'[t] = x
           /\ ReserveIdle(t) => x <= now
    BY <1>6, Reserved DEF SpacingInv
  <2>2. pc[t] = "reserve" /\ now' = now
    BY <1>6 DEF ReserveIdle, ReserveBusy
  <2>3. /\ \A u \in Thread : u # t => pc'[u] = pc[u] /\ wake'[u] = wake[u]
        /\ ReserveBusy(t) => pc'[t] = "sleep"
    BY <1>0, <1>6 DEF ReserveIdle, ReserveBusy
  <2>4. ASSUME NEW i \in 1 .. Len(slots'), slots'[i] > now'
        PROVE  \E u \in Thread : pc'[u] = "sleep" /\ wake'[u] = slots'[i]
    <3>1. CASE i \in 1 .. Len(slots)
      <4>1. slots[i] > now
        BY <1>0, <2>1, <2>2, <2>4, <3>1
      <4>2. PICK u \in Thread : pc[u] = "sleep" /\ wake[u] = slots[i]
        BY <3>1, <4>1 DEF FutureInv
      <4>3. slots'[i] = slots[i]
        BY <1>0, <2>1, <3>1
      <4>4. u # t
        BY <2>2, <4>2
      <4>5. pc'[u] = "sleep" /\ wake'[u] = slots[i]
        BY <2>3, <4>2, <4>4
      <4> QED
        BY <4>3, <4>5
    <3>2. CASE i = Len(slots) + 1
      <4>1. slots'[i] = x /\ ~(x <= now)
        BY <1>0, <2>1, <2>2, <2>4, <3>2
      <4> QED
        BY <1>6, <2>1, <2>3, <4>1
    <3>3. i \in 1 .. Len(slots) \/ i = Len(slots) + 1
      BY <1>0, <2>1
    <3> QED
      BY <3>1, <3>2, <3>3, Zenon
  <2> QED
    BY <2>4 DEF FutureInv
<1> QED
  BY <1>1, <1>2, <1>3, <1>4, <1>5, <1>6 DEF Next, Work

LEMMA StepCount ==
    ASSUME IsFiniteSet(Thread), SpacingInv, CountInv, [Next]_vars
    PROVE  CountInv'
<1>0. /\ pc \in [Thread -> Phase] /\ calls \in Nat /\ slots \in Seq(Nat) /\ Len(slots) \in Nat
      /\ IsFiniteSet(Waiting) /\ Cardinality(Waiting) \in Nat
  <2>1. Waiting \in SUBSET Thread
    BY DEF Waiting
  <2>2. IsFiniteSet(Waiting)
    BY <2>1, FS_Subset
  <2> QED
    BY <2>2, FS_CardinalityType DEF SpacingInv, TypeInv, TypeOK
<1>1. ASSUME UNCHANGED <<slots, calls>>, Waiting' = Waiting PROVE CountInv'
  BY <1>1 DEF CountInv
<1>2. CASE Tick \/ UNCHANGED vars
  BY <1>1, <1>2 DEF Tick, vars, Waiting
<1>3. ASSUME NEW t \in Thread,
             Request(t) \/ Enter(t) \/ WakeUp(t) \/ Answer(t) \/ Error(t) \/ Retry(t) \/ GiveUp(t)
      PROVE  CountInv'
  <2>1. UNCHANGED <<slots, calls>>
    BY <1>3 DEF Request, Enter, WakeUp, Answer, Error, Retry, GiveUp
  <2>2. /\ \A u \in Thread : u # t => pc'[u] = pc[u]
        /\ pc[t] \in {"sleep", "call"} <=> pc'[t] \in {"sleep", "call"}
    BY <1>0, <1>3 DEF Request, Enter, WakeUp, Answer, Error, Retry, GiveUp
  <2>3. Waiting' = Waiting
    BY <2>2 DEF Waiting
  <2> QED
    BY <1>1, <2>1, <2>3
<1>4. ASSUME NEW t \in Thread, Issue(t) PROVE CountInv'
  <2>1. t \in Waiting /\ Waiting' = Waiting \ {t} /\ calls' = calls + 1 /\ slots' = slots
    BY <1>0, <1>4 DEF Issue, Waiting
  <2>2. Cardinality(Waiting \ {t}) = Cardinality(Waiting) - 1
    BY <1>0, <2>1, FS_RemoveElement
  <2> QED
    BY <1>0, <2>1, <2>2 DEF CountInv
<1>5. ASSUME NEW t \in Thread, ReserveIdle(t) \/ ReserveBusy(t) PROVE CountInv'
  <2>1. t \notin Waiting /\ Waiting' = Waiting \cup {t} /\ calls' = calls
    BY <1>0, <1>5 DEF ReserveIdle, ReserveBusy, Waiting
  <2>2. Cardinality(Waiting \cup {t}) = Cardinality(Waiting) + 1
    BY <1>0, <2>1, FS_AddElement
  <2>3. Len(slots') = Len(slots) + 1
    BY <1>0, <1>5, Reserved DEF SpacingInv
  <2> QED
    BY <1>0, <2>1, <2>2, <2>3 DEF CountInv
<1> QED
  BY <1>2, <1>3, <1>4, <1>5 DEF Next, Work

LEMMA Quotient ==
    ASSUME NEW a \in Nat, NEW b \in Nat \ {0}, NEW k \in Nat, k * b <= a
    PROVE  a \div b \in Nat /\ k <= a \div b
<1> DEFINE q == a \div b
<1>1. q \in Nat /\ a < (q + 1) * b
  OBVIOUS
<1> HIDE DEF q
<1>2. ASSUME q + 1 <= k PROVE FALSE
  <2>1. (q + 1) * b <= k * b /\ (q + 1) * b \in Int /\ k * b \in Int
    BY <1>1, <1>2
  <2> QED
    BY <1>1, <2>1
<1>3. k <= q
  BY <1>1, <1>2
<1> QED
  BY <1>1, <1>3 DEF q

\* Two slots are apart by a positive distance, and ordered as they were reserved.
LEMMA SlotsIncrease ==
    ASSUME SpacingInv, NEW i \in 1 .. Len(slots), NEW j \in 1 .. Len(slots), i < j
    PROVE  slots[i] < slots[j]
<1>1. slots[i] \in Nat /\ slots[j] \in Nat /\ i \in Int /\ j \in Int
  BY DEF SpacingInv, TypeInv, TypeOK
<1>2. slots[j] >= slots[i] + (j - i) * Interval
  BY DEF SpacingInv, SlotsAreSpaced
<1>3. (j - i) * Interval >= 1 /\ (j - i) * Interval \in Int
  BY <1>1
<1> QED
  BY <1>1, <1>2, <1>3

\* The slot numbered like the last call is not in the future: the later ones would
\* need more sleepers than there are pending workers.
LEMMA CalledSlotIsPast ==
    ASSUME IsFiniteSet(Thread), BudgetInv, calls >= 1
    PROVE  calls \in 1 .. Len(slots) /\ slots[calls] <= now
<1> DEFINE n == Len(slots)
           rest == calls .. n
<1>0. /\ calls \in Nat /\ n \in Nat /\ now \in Nat /\ slots \in Seq(Nat) /\ SpacingInv
      /\ \A i \in 1 .. n : slots[i] \in Nat
  BY DEF BudgetInv, SpacingInv, TypeInv, TypeOK
<1>1. IsFiniteSet(Waiting) /\ Cardinality(Waiting) \in Nat
  <2>1. Waiting \in SUBSET Thread
    BY DEF Waiting
  <2>2. IsFiniteSet(Waiting)
    BY <2>1, FS_Subset
  <2> QED
    BY <2>2, FS_CardinalityType
<1>2. Cardinality(Waiting) = n - calls
  <2>1. calls + Cardinality(Waiting) = n
    BY DEF BudgetInv, CountInv
  <2> HIDE DEF n
  <2> QED
    BY <1>0, <1>1, <2>1
<1>3. calls \in 1 .. n
  BY <1>0, <1>1, <1>2
<1>4. ASSUME slots[calls] > now PROVE FALSE
  <2> DEFINE f == [i \in rest |-> CHOOSE t \in Thread : pc[t] = "sleep" /\ wake[t] = slots[i]]
  <2>1. ASSUME NEW i \in rest PROVE i \in 1 .. n /\ slots[i] > now
    <3>1. i \in 1 .. n /\ (i = calls \/ calls < i)
      BY <1>0, <1>3
    <3>2. slots[calls] <= slots[i]
      BY <1>0, <1>3, <3>1, SlotsIncrease
    <3> QED
      BY <1>0, <1>3, <1>4, <3>1, <3>2
  <2>2. ASSUME NEW i \in rest
        PROVE  f[i] \in Thread /\ pc[f[i]] = "sleep" /\ wake[f[i]] = slots[i]
    BY <2>1 DEF BudgetInv, FutureInv
  <2>3. IsFiniteSet(rest) /\ Cardinality(rest) = n - calls + 1
    BY <1>0, <1>3, FS_Interval
  <2>4. f \in [rest -> Waiting]
    BY <2>2 DEF Waiting
  <2>5. Cardinality(Waiting) < Cardinality(rest)
    BY <1>0, <1>2, <2>3
  <2> HIDE DEF f, rest
  <2>6. PICK i \in rest, j \in rest : i # j /\ f[i] = f[j]
    BY <1>1, <2>3, <2>4, <2>5, FS_PigeonHole
  <2>7. slots[i] = slots[j]
    BY <2>2, <2>6
  <2>8. i \in 1 .. n /\ j \in 1 .. n /\ (i < j \/ j < i)
    <3>1. i \in 1 .. n /\ j \in 1 .. n
      BY <2>1
    <3> QED
      BY <1>0, <2>6, <3>1
  <2>9. slots[i] # slots[j]
    BY <1>0, <2>8, SlotsIncrease
  <2> QED
    BY <2>7, <2>9
<1> QED
  BY <1>0, <1>3, <1>4

LEMMA BudgetFollows == ASSUME IsFiniteSet(Thread), BudgetInv PROVE CallsWithinBudget
<1>0. /\ calls \in Nat /\ now \in Nat /\ SpacingInv
      /\ \A i \in 1 .. Len(slots) : slots[i] \in Nat
  BY DEF BudgetInv, SpacingInv, TypeInv, TypeOK
<1>1. CASE calls = 0
  <2>1. now \div Interval \in Nat
    <3>1. 0 * Interval <= now
      BY <1>0
    <3> QED
      BY <1>0, <3>1, Quotient
  <2> QED
    BY <1>1, <2>1 DEF CallsWithinBudget
<1>2. CASE calls >= 1
  <2>1. calls \in 1 .. Len(slots) /\ slots[calls] <= now
    BY <1>2, CalledSlotIsPast
  <2>2. 1 \in 1 .. Len(slots) /\ Len(slots) \in Nat
    BY <1>0, <2>1 DEF BudgetInv, SpacingInv, TypeInv, TypeOK
  <2>3. slots[calls] >= slots[1] + (calls - 1) * Interval
    <3>1. CASE calls = 1
      BY <1>0, <2>2, <3>1
    <3>2. CASE 1 < calls
      BY <1>0, <2>1, <2>2, <3>2 DEF SpacingInv, SlotsAreSpaced
    <3> QED
      BY <1>0, <1>2, <3>1, <3>2
  <2>4. (calls - 1) * Interval <= now
    <3>1. (calls - 1) * Interval \in Int
      BY <1>0
    <3> QED
      BY <1>0, <2>1, <2>2, <2>3, <3>1
  <2>5. now \div Interval \in Nat /\ calls - 1 <= now \div Interval
    BY <1>0, <1>2, <2>4, Quotient
  <2> QED
    BY <1>0, <2>5 DEF CallsWithinBudget
<1> QED
  BY <1>0, <1>1, <1>2

\* The calls issued, retries included, never exceed the budget of the time that has
\* passed, for any finite number of workers that may oversleep.
THEOREM WithinBudget ==
    ASSUME IsFiniteSet(Thread)
    PROVE  Spec => []CallsWithinBudget
<1>1. Init => BudgetInv
  <2>1. Init => Waiting = {} /\ slots = <<>> /\ calls = 0
    BY DEF Init, Waiting
  <2>2. Len(<<>>) = 0 /\ Cardinality({}) = 0 /\ 0 + 0 = 0 /\ 1 .. 0 = {}
    BY FS_EmptySet
  <2>3. ASSUME Init PROVE CountInv
    BY <2>1, <2>2, <2>3 DEF CountInv
  <2>4. ASSUME Init PROVE FutureInv
    BY <2>1, <2>2, <2>4 DEF FutureInv
  <2> QED
    BY <2>3, <2>4, InitSpacing DEF BudgetInv
<1>2. BudgetInv /\ [Next]_vars => BudgetInv'
  BY StepSpacing, StepFuture, StepCount DEF BudgetInv
<1>3. BudgetInv => CallsWithinBudget
  BY BudgetFollows
<1> QED
  BY <1>1, <1>2, <1>3, PTL DEF Spec
=============================================================================
