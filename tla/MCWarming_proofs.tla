--------------------------- MODULE MCWarming_proofs ---------------------------
(***************************************************************************)
(* Theorem about the jobs that warm the caches: the report of a backfill   *)
(* hides no symbol it left uncovered, for any number of symbols, endpoints *)
(* and batches, any list limit, and whatever fetches fail and runs are     *)
(* killed.                                                                 *)
(***************************************************************************)
EXTENDS MCWarming, Sequences, TLAPS

LEMMA JobConstants ==
  /\ Symbols \in Nat \ {0} /\ Endpoints \in Nat \ {0} /\ ChunkSize \in Nat \ {0}
  /\ MaxFailed \in Nat
  BY InstanceAssumption DEF Jobs!WarmAssumption

(* The batches reach the last symbol, and each begins behind the one       *)
(* before it.                                                              *)
LEMMA BatchesReachAll ==
  /\ Jobs!Batches \in Nat \ {0}
  /\ Jobs!Batches * ChunkSize >= Symbols
  /\ (Jobs!Batches - 1) * ChunkSize < Symbols
PROOF
  <1> DEFINE q == (Symbols + ChunkSize - 1) \div ChunkSize
             r == (Symbols + ChunkSize - 1) % ChunkSize
  <1>1. /\ q \in Int /\ r \in 0 .. ChunkSize - 1
        /\ Symbols + ChunkSize - 1 = ChunkSize * q + r
    BY JobConstants
  <1> HIDE DEF q, r
  <1>2. ChunkSize * q >= Symbols
    BY <1>1, JobConstants
  <1>3. q >= 1
    <2> SUFFICES ASSUME q <= 0 PROVE FALSE
      BY <1>1
    <2>1. ChunkSize * q <= 0
      BY <1>1, JobConstants
    <2> QED
      BY <1>1, <1>2, <2>1, JobConstants
  <1>4. /\ q * ChunkSize = ChunkSize * q
        /\ (q - 1) * ChunkSize = ChunkSize * q - ChunkSize
    BY <1>1, JobConstants
  <1>5. (q - 1) * ChunkSize < Symbols
    BY <1>1, <1>4, JobConstants
  <1>6. q = Jobs!Batches
    BY DEF Jobs!Batches, q
  <1> QED
    BY <1>1, <1>2, <1>3, <1>4, <1>5, <1>6

LEMMA BatchEnds ==
  ASSUME mode = "backfill", NEW b \in 1 .. Jobs!Batches
  PROVE  /\ Jobs!IsLast(b) => \A s \in Jobs!SymbolNo : s <= Jobs!LastOf(b)
         /\ \A s \in Jobs!SymbolNo : s < Jobs!FirstOf(b + 1) => s <= Jobs!LastOf(b)
         /\ Jobs!FirstOf(b) \in Nat /\ Jobs!LastOf(b) \in Nat
         /\ Jobs!LastOf(b) <= Symbols
         /\ Jobs!FirstOf(b) >= 1 /\ Jobs!FirstOf(b) <= Jobs!LastOf(b)
PROOF
  <1>1. b \in Nat /\ b * ChunkSize \in Nat /\ (b - 1) * ChunkSize \in Nat
    BY JobConstants, BatchesReachAll
  <1>2. /\ Jobs!LastOf(b) = IF b * ChunkSize <= Symbols THEN b * ChunkSize ELSE Symbols
        /\ Jobs!FirstOf(b) = (b - 1) * ChunkSize + 1
    BY DEF Jobs!LastOf, Jobs!Lesser, Jobs!FirstOf
  <1>3. Jobs!FirstOf(b + 1) = b * ChunkSize + 1
    <2>1. (b + 1) - 1 = b
      BY <1>1
    <2> QED
      BY <2>1 DEF Jobs!FirstOf
  <1>4. Jobs!IsLast(b) => b * ChunkSize >= Symbols
    BY BatchesReachAll DEF Jobs!IsLast
  <1>5. (b - 1) * ChunkSize < Symbols /\ (b - 1) * ChunkSize + 1 <= b * ChunkSize
    <2>1. Jobs!Batches \in Nat /\ b <= Jobs!Batches
      BY BatchesReachAll
    <2>2. (b - 1) * ChunkSize <= (Jobs!Batches - 1) * ChunkSize
      BY <1>1, <2>1, JobConstants
    <2>3. (Jobs!Batches - 1) * ChunkSize \in Int
      BY <2>1, JobConstants
    <2>4. b * ChunkSize = (b - 1) * ChunkSize + ChunkSize
      BY <1>1, JobConstants
    <2> QED
      BY <1>1, <2>2, <2>3, <2>4, BatchesReachAll, JobConstants
  <1> QED
    BY <1>1, <1>2, <1>3, <1>4, <1>5, JobConstants DEF Jobs!SymbolNo

(***************************************************************************)
(* The invariant: what lies behind the running batch is covered or told,   *)
(* and the batch is covered as far as it has come.                         *)
(***************************************************************************)
Hole(s) == \E e \in Jobs!EndpointNo : <<s, e>> \notin covered
Told(s) ==
    /\ failedBatches > 0
    /\ (\E i \in 1 .. Len(failed) : failed[i] = s) \/ Len(failed) = MaxFailed

JobTypes ==
    /\ mode \in {"backfill", "nightly"} /\ jobPc \in {"idle", "warm", "ok", "error"}
    /\ batch \in 1 .. Jobs!Batches /\ ep \in Jobs!EndpointNo /\ sym \in Nat
    /\ failed \in Seq(Jobs!SymbolNo) /\ Len(failed) <= MaxFailed
    /\ failedBatches \in Nat

BehindIsTold ==
    \A s \in Jobs!SymbolNo : s < Jobs!FirstOf(batch) /\ Hole(s) => Told(s)

BatchSoFar ==
    \A s \in Jobs!SymbolNo :
        /\ Jobs!FirstOf(batch) <= s /\ s <= Jobs!LastOf(batch) =>
             \A e \in Jobs!EndpointNo : e < ep => <<s, e>> \in covered
        /\ Jobs!FirstOf(batch) <= s /\ s < sym => <<s, ep>> \in covered

AllTold == \A s \in Jobs!SymbolNo : Hole(s) => Told(s)

JobInv ==
    /\ JobTypes
    /\ mode = "backfill" /\ jobPc = "warm" => BehindIsTold /\ BatchSoFar
    /\ mode = "backfill" /\ jobPc = "ok" => AllTold

LEMMA JobsInit == Jobs!Init => JobInv
PROOF
  <1> SUFFICES ASSUME Jobs!Init PROVE JobInv
    OBVIOUS
  <1>1. JobTypes
    <2>1. failed = << >> /\ Len(failed) = 0 /\ failed \in Seq(Jobs!SymbolNo)
      BY DEF Jobs!Init
    <2> QED
      BY <2>1, JobConstants, BatchesReachAll DEF Jobs!Init, JobTypes, Jobs!EndpointNo
  <1> QED
    BY <1>1 DEF Jobs!Init, JobInv

LEMMA StartStep ==
  ASSUME NEW m \in {"backfill", "nightly"}, JobInv, Jobs!Start(m)
  PROVE  JobInv'
PROOF
  <1>1. JobTypes'
    <2>1. failed' = << >> /\ Len(failed') = 0 /\ failed' \in Seq(Jobs!SymbolNo)
      BY DEF Jobs!Start
    <2> QED
      BY <2>1, JobConstants, BatchesReachAll DEF Jobs!Start, JobTypes, Jobs!EndpointNo
  <1>2. /\ jobPc' = "warm" /\ batch' = 1 /\ ep' = 1 /\ sym' = 1
    BY DEF Jobs!Start
  <1>3. Jobs!FirstOf(1) = 1
    BY JobConstants DEF Jobs!FirstOf
  <1>4. BehindIsTold'
    <2>1. \A s \in Jobs!SymbolNo : ~(s < 1)
      BY DEF Jobs!SymbolNo
    <2> QED
      BY <1>2, <1>3, <2>1 DEF BehindIsTold, Jobs!FirstOf
  <1>5. BatchSoFar'
    <2>1. /\ \A s \in Jobs!SymbolNo : ~(s < 1)
          /\ \A e \in Jobs!EndpointNo : ~(e < 1)
      BY DEF Jobs!SymbolNo, Jobs!EndpointNo
    <2> QED
      BY <1>2, <2>1 DEF BatchSoFar
  <1> QED
    BY <1>1, <1>2, <1>4, <1>5 DEF JobInv

(* A batch is over: what lay behind it and what it covered or told are     *)
(* behind the next one, or the run is over.                                *)
LEMMA NextBatchStep ==
  ASSUME JobTypes, JobTypes', mode = "backfill", mode' = mode, jobPc = "warm",
         Jobs!NextBatch,
         \A s \in Jobs!SymbolNo : s <= Jobs!LastOf(batch) /\ Hole(s)' => Told(s)'
  PROVE  JobInv'
PROOF
  <1>1. batch \in 1 .. Jobs!Batches
    BY DEF JobTypes
  <1>2. CASE Jobs!IsLast(batch)
    <2>1. jobPc' = "ok"
      BY <1>2 DEF Jobs!NextBatch
    <2>2. AllTold'
      BY <1>1, <1>2, BatchEnds DEF AllTold
    <2> QED
      BY <2>1, <2>2 DEF JobInv
  <1>3. CASE ~Jobs!IsLast(batch)
    <2>1. /\ jobPc' = "warm" /\ batch' = batch + 1 /\ ep' = 1
          /\ sym' = Jobs!FirstOf(batch + 1)
      BY <1>3 DEF Jobs!NextBatch
    <2>2. BehindIsTold'
      <3>1. Jobs!FirstOf(batch)' = Jobs!FirstOf(batch + 1)
        BY <2>1 DEF Jobs!FirstOf
      <3> QED
        BY <1>1, <3>1, BatchEnds DEF BehindIsTold
    <2>3. BatchSoFar'
      <3>1. \A e \in Jobs!EndpointNo : ~(e < 1)
        BY DEF Jobs!EndpointNo
      <3>2. Jobs!FirstOf(batch)' = sym' /\ sym' \in Nat
        BY <2>1 DEF Jobs!FirstOf, JobTypes
      <3>3. \A s \in Jobs!SymbolNo : ~(sym' <= s /\ s < sym')
        BY <3>2 DEF Jobs!SymbolNo
      <3> QED
        BY <2>1, <3>1, <3>2, <3>3 DEF BatchSoFar
    <2> QED
      BY <2>1, <2>2, <2>3 DEF JobInv
  <1> QED
    BY <1>2, <1>3

LEMMA EndBatchStep ==
  ASSUME JobInv, Jobs!EndBatch
  PROVE  JobInv'
PROOF
  <1>1. /\ jobPc = "warm" /\ sym > Jobs!LastOf(batch) /\ ep = Endpoints /\ Jobs!NextBatch
        /\ covered' = covered /\ mode' = mode /\ failed' = failed
        /\ failedBatches' = failedBatches
    BY DEF Jobs!EndBatch, Jobs!BatchDone
  <1>2. JobTypes'
    <2>1. batch' \in 1 .. Jobs!Batches
      BY <1>1, BatchesReachAll DEF JobInv, JobTypes, Jobs!NextBatch, Jobs!IsLast
    <2>2. sym' \in Nat
      <3>1. batch \in Nat /\ sym \in Nat
        BY BatchesReachAll DEF JobInv, JobTypes
      <3>2. Jobs!FirstOf(batch + 1) \in Nat
        BY <3>1, JobConstants DEF Jobs!FirstOf
      <3> QED
        BY <1>1, <3>1, <3>2 DEF Jobs!NextBatch
    <2>3. ep' \in Jobs!EndpointNo /\ jobPc' \in {"warm", "ok"}
      BY <1>1, JobConstants DEF Jobs!NextBatch, Jobs!EndpointNo
    <2> QED
      BY <1>1, <2>1, <2>2, <2>3 DEF JobInv, JobTypes
  <1>3. CASE mode = "backfill"
    <2>1. \A s \in Jobs!SymbolNo : s <= Jobs!LastOf(batch) /\ Hole(s)' => Told(s)'
      <3> SUFFICES ASSUME NEW s \in Jobs!SymbolNo, s <= Jobs!LastOf(batch), Hole(s)'
                   PROVE  Told(s)'
        OBVIOUS
      <3>1. Hole(s)
        BY <1>1 DEF Hole
      <3>2. ~(Jobs!FirstOf(batch) <= s)
        <4> SUFFICES ASSUME Jobs!FirstOf(batch) <= s PROVE FALSE
          OBVIOUS
        <4>1. BatchSoFar /\ batch \in 1 .. Jobs!Batches /\ sym \in Nat
          BY <1>1, <1>3 DEF JobInv, JobTypes
        <4>2. s < sym
          BY <1>1, <1>3, <4>1, BatchEnds DEF Jobs!SymbolNo
        <4>3. \A e \in Jobs!EndpointNo : e < ep => <<s, e>> \in covered
          BY <4>1 DEF BatchSoFar
        <4>4. <<s, ep>> \in covered
          BY <4>1, <4>2 DEF BatchSoFar
        <4>5. \A e \in Jobs!EndpointNo : e < ep \/ e = ep
          BY <1>1, JobConstants DEF Jobs!EndpointNo
        <4> QED
          BY <3>1, <4>3, <4>4, <4>5 DEF Hole
      <3>3. s < Jobs!FirstOf(batch)
        <4>1. Jobs!FirstOf(batch) \in Nat /\ s \in Nat
          BY <1>3, BatchEnds DEF JobInv, JobTypes, Jobs!SymbolNo
        <4> QED
          BY <3>2, <4>1
      <3>4. Told(s)
        BY <1>1, <1>3, <3>1, <3>3 DEF JobInv, BehindIsTold
      <3> QED
        BY <1>1, <3>4 DEF Told
    <2> QED
      BY <1>1, <1>2, <1>3, <2>1, NextBatchStep DEF JobInv
  <1>4. CASE mode # "backfill"
    BY <1>1, <1>2, <1>4 DEF JobInv
  <1> QED
    BY <1>3, <1>4

(* What the report gets of a failed batch: all its symbols, or as many as  *)
(* fill the list.                                                          *)
LEMMA ListedSymbols ==
  ASSUME JobTypes, mode = "backfill"
  PROVE  /\ failed \o Jobs!Listed(batch) \in Seq(Jobs!SymbolNo)
         /\ Len(failed \o Jobs!Listed(batch)) <= MaxFailed
         /\ \A s \in Jobs!SymbolNo :
              (\E i \in 1 .. Len(failed) : failed[i] = s) =>
                \E i \in 1 .. Len(failed \o Jobs!Listed(batch)) :
                   (failed \o Jobs!Listed(batch))[i] = s
         /\ Len(failed) = MaxFailed => Len(failed \o Jobs!Listed(batch)) = MaxFailed
         /\ \A s \in Jobs!SymbolNo :
              Jobs!FirstOf(batch) <= s /\ s <= Jobs!LastOf(batch) =>
                \/ Len(failed \o Jobs!Listed(batch)) = MaxFailed
                \/ \E i \in 1 .. Len(failed \o Jobs!Listed(batch)) :
                      (failed \o Jobs!Listed(batch))[i] = s
PROOF
  <1> DEFINE first == Jobs!FirstOf(batch)
             last == Jobs!LastOf(batch)
             size == last - first + 1
             symbols == [i \in 1 .. size |-> first + i - 1]
             room == MaxFailed - Len(failed)
             n == IF size <= room THEN size ELSE room
             listed == Jobs!Listed(batch)
             all == failed \o listed
  <1>1. /\ first \in Nat /\ first >= 1 /\ last \in Nat /\ first <= last /\ last <= Symbols
        /\ room \in Nat /\ Len(failed) \in Nat /\ failed \in Seq(Jobs!SymbolNo)
    <2>1. batch \in 1 .. Jobs!Batches /\ batch \in Nat
      BY BatchesReachAll DEF JobTypes
    <2>2. first \in Nat /\ last \in Nat /\ last <= Symbols /\ first >= 1 /\ first <= last
      BY <2>1, BatchEnds
    <2>3. room \in Nat /\ Len(failed) \in Nat /\ failed \in Seq(Jobs!SymbolNo)
      BY JobConstants DEF JobTypes
    <2> QED
      BY <2>2, <2>3
  <1>2. /\ size \in Nat /\ n \in Nat /\ n <= size
        /\ symbols \in Seq(Jobs!SymbolNo) /\ Len(symbols) = size
    <2>1. size \in Nat /\ n \in Nat /\ n <= size
      BY <1>1
    <2>2. \A i \in 1 .. size : first + i - 1 \in Jobs!SymbolNo
      BY <1>1, JobConstants DEF Jobs!SymbolNo
    <2> HIDE DEF size, n
    <2>3. symbols \in Seq(Jobs!SymbolNo) /\ Len(symbols) = size
      BY <2>1, <2>2
    <2> QED
      BY <2>1, <2>3
  <1>3. listed = SubSeq(symbols, 1, n)
    BY <1>2 DEF Jobs!Listed, Jobs!Lesser
  <1> HIDE DEF size, n, room, listed, first, last
  <1>4. /\ listed \in Seq(Jobs!SymbolNo) /\ Len(listed) = n
        /\ \A i \in 1 .. n : listed[i] = first + i - 1
    <2> DEFINE sy == symbols
    <2>1. \A i \in 1 .. n : i \in 1 .. size /\ sy[i] = first + i - 1
      BY <1>2
    <2> HIDE DEF sy
    <2>2. SubSeq(sy, 1, n) \in Seq(Jobs!SymbolNo) /\ Len(SubSeq(sy, 1, n)) = n
          /\ \A i \in 1 .. n : SubSeq(sy, 1, n)[i] = sy[i]
      BY <1>2 DEF sy
    <2> QED
      BY <1>3, <2>1, <2>2 DEF sy
  <1>5. /\ all \in Seq(Jobs!SymbolNo) /\ Len(all) = Len(failed) + n
        /\ \A i \in 1 .. Len(failed) : all[i] = failed[i]
        /\ \A i \in 1 .. n : all[Len(failed) + i] = first + i - 1
    BY <1>1, <1>2, <1>4
  <1> HIDE DEF all
  <1>6. Len(all) <= MaxFailed /\ (Len(failed) = MaxFailed => Len(all) = MaxFailed)
    BY <1>1, <1>2, <1>5, JobConstants DEF n, room
  <1>7. ASSUME NEW s \in Jobs!SymbolNo, \E i \in 1 .. Len(failed) : failed[i] = s
        PROVE  \E i \in 1 .. Len(all) : all[i] = s
    BY <1>1, <1>2, <1>5, <1>7
  <1>8. ASSUME NEW s \in Jobs!SymbolNo, first <= s, s <= last, Len(all) # MaxFailed
        PROVE  \E i \in 1 .. Len(all) : all[i] = s
    <2>1. n = size
      BY <1>1, <1>2, <1>5, <1>8, JobConstants DEF n, room
    <2>2. s - first + 1 \in 1 .. n /\ s \in Nat
      BY <1>1, <1>8, <2>1 DEF size, Jobs!SymbolNo
    <2>3. all[Len(failed) + (s - first + 1)] = s
      <3>1. first + (s - first + 1) - 1 = s
        BY <1>1, <2>2
      <3> QED
        BY <1>5, <2>2, <3>1
    <2>4. Len(failed) + (s - first + 1) \in 1 .. Len(all)
      BY <1>1, <1>2, <1>5, <2>2
    <2> QED
      BY <2>3, <2>4
  <1> QED
    BY <1>5, <1>6, <1>7, <1>8 DEF all, listed, first, last

LEMMA BatchFailsStep ==
  ASSUME JobInv, Jobs!BatchFails
  PROVE  JobInv'
PROOF
  <1> DEFINE all == failed \o Jobs!Listed(batch)
  <1>1. /\ mode = "backfill" /\ mode' = mode /\ jobPc = "warm" /\ Jobs!NextBatch
        /\ failed' = all /\ failedBatches' = failedBatches + 1 /\ covered' = covered
    BY DEF Jobs!BatchFails, Jobs!Raises
  <1>2. JobTypes /\ BehindIsTold
    BY <1>1 DEF JobInv
  <1>3. /\ all \in Seq(Jobs!SymbolNo) /\ Len(all) <= MaxFailed
        /\ \A s \in Jobs!SymbolNo : (\E i \in 1 .. Len(failed) : failed[i] = s) =>
             \E i \in 1 .. Len(all) : all[i] = s
        /\ Len(failed) = MaxFailed => Len(all) = MaxFailed
        /\ \A s \in Jobs!SymbolNo :
              Jobs!FirstOf(batch) <= s /\ s <= Jobs!LastOf(batch) =>
                Len(all) = MaxFailed \/ \E i \in 1 .. Len(all) : all[i] = s
    BY <1>1, <1>2, ListedSymbols
  <1> HIDE DEF all
  <1>4. failedBatches \in Nat /\ failedBatches' > 0 /\ failedBatches' \in Nat
    BY <1>1, <1>2 DEF JobTypes
  <1>5. JobTypes'
    <2>1. batch' \in 1 .. Jobs!Batches
      BY <1>1, <1>2, BatchesReachAll DEF JobTypes, Jobs!NextBatch, Jobs!IsLast
    <2>2. sym' \in Nat
      <3>1. batch \in Nat /\ sym \in Nat
        BY <1>2, BatchesReachAll DEF JobTypes
      <3>2. Jobs!FirstOf(batch + 1) \in Nat
        BY <3>1, JobConstants DEF Jobs!FirstOf
      <3> QED
        BY <1>1, <3>1, <3>2 DEF Jobs!NextBatch
    <2>3. ep' \in Jobs!EndpointNo /\ jobPc' \in {"warm", "ok"}
      BY <1>1, <1>2, JobConstants DEF JobTypes, Jobs!NextBatch, Jobs!EndpointNo
    <2> QED
      BY <1>1, <1>2, <1>3, <1>4, <2>1, <2>2, <2>3 DEF JobTypes
  <1>6. \A s \in Jobs!SymbolNo : s <= Jobs!LastOf(batch) /\ Hole(s)' => Told(s)'
    <2> SUFFICES ASSUME NEW s \in Jobs!SymbolNo, s <= Jobs!LastOf(batch), Hole(s)'
                 PROVE  Told(s)'
      OBVIOUS
    <2>1. CASE Jobs!FirstOf(batch) <= s
      BY <1>1, <1>3, <1>4, <2>1 DEF Told
    <2>2. CASE ~(Jobs!FirstOf(batch) <= s)
      <3>1. s < Jobs!FirstOf(batch)
        <4>1. Jobs!FirstOf(batch) \in Nat /\ s \in Nat
          BY <1>1, <1>2, BatchEnds DEF JobTypes, Jobs!SymbolNo
        <4> QED
          BY <2>2, <4>1
      <3>2. Hole(s)
        BY <1>1 DEF Hole
      <3>3. Told(s)
        BY <1>2, <3>1, <3>2 DEF BehindIsTold
      <3> QED
        BY <1>1, <1>3, <1>4, <3>3 DEF Told
    <2> QED
      BY <2>1, <2>2
  <1> QED
    BY <1>1, <1>2, <1>5, <1>6, NextBatchStep

LEMMA WarmStep ==
  ASSUME JobInv, Jobs!WarmPair \/ Jobs!NextEndpoint
  PROVE  JobInv'
PROOF
  <1>1. CASE Jobs!WarmPair
    <2>1. /\ covered' = covered \cup {<<sym, ep>>} /\ sym' = sym + 1
          /\ mode' = mode /\ jobPc' = jobPc /\ jobPc = "warm" /\ batch' = batch /\ ep' = ep
          /\ failed' = failed /\ failedBatches' = failedBatches
      BY <1>1 DEF Jobs!WarmPair
    <2>2. JobTypes'
      BY <2>1 DEF JobInv, JobTypes
    <2>3. ASSUME mode = "backfill" PROVE BehindIsTold' /\ BatchSoFar'
      <3>1. BehindIsTold /\ BatchSoFar /\ sym \in Nat
        BY <2>1, <2>3 DEF JobInv, JobTypes
      <3>2. /\ Jobs!FirstOf(batch)' = Jobs!FirstOf(batch)
            /\ Jobs!LastOf(batch)' = Jobs!LastOf(batch)
        BY <2>1 DEF Jobs!FirstOf, Jobs!LastOf
      <3>3. BehindIsTold'
        BY <2>1, <3>1, <3>2 DEF BehindIsTold, Hole, Told
      <3>4. \A s \in Jobs!SymbolNo : s < sym + 1 => s < sym \/ s = sym
        BY <3>1 DEF Jobs!SymbolNo
      <3>5. BatchSoFar'
        BY <2>1, <3>1, <3>2, <3>4 DEF BatchSoFar
      <3> QED
        BY <3>3, <3>5
    <2> QED
      BY <2>1, <2>2, <2>3 DEF JobInv
  <1>2. CASE Jobs!NextEndpoint
    <2>1. /\ covered' = covered /\ sym' = Jobs!FirstOf(batch) /\ ep' = ep + 1 /\ ep < Endpoints
          /\ mode' = mode /\ jobPc' = jobPc /\ jobPc = "warm" /\ batch' = batch
          /\ failed' = failed /\ failedBatches' = failedBatches /\ sym > Jobs!LastOf(batch)
      BY <1>2 DEF Jobs!NextEndpoint
    <2>2. JobTypes'
      <3>1. ep' \in Jobs!EndpointNo
        BY <2>1, JobConstants DEF JobInv, JobTypes, Jobs!EndpointNo
      <3>2. Jobs!FirstOf(batch) \in Nat
        <4>1. batch \in Nat /\ batch >= 1
          BY BatchesReachAll DEF JobInv, JobTypes
        <4> QED
          BY <4>1, JobConstants DEF Jobs!FirstOf
      <3> QED
        BY <2>1, <3>1, <3>2 DEF JobInv, JobTypes
    <2>3. ASSUME mode = "backfill" PROVE BehindIsTold' /\ BatchSoFar'
      <3>1. /\ BehindIsTold /\ BatchSoFar /\ sym \in Nat /\ batch \in 1 .. Jobs!Batches
            /\ ep \in Jobs!EndpointNo
        BY <2>1, <2>3 DEF JobInv, JobTypes
      <3>2. /\ Jobs!FirstOf(batch)' = Jobs!FirstOf(batch)
            /\ Jobs!LastOf(batch)' = Jobs!LastOf(batch)
        BY <2>1 DEF Jobs!FirstOf, Jobs!LastOf
      <3>3. BehindIsTold'
        BY <2>1, <3>1, <3>2 DEF BehindIsTold, Hole, Told
      <3>4. \A s \in Jobs!SymbolNo :
               /\ s <= Jobs!LastOf(batch) => s < sym
               /\ ~(Jobs!FirstOf(batch) <= s /\ s < Jobs!FirstOf(batch))
        BY <2>1, <2>3, <3>1, BatchEnds DEF Jobs!SymbolNo
      <3>5. \A e \in Jobs!EndpointNo : e < ep + 1 => e < ep \/ e = ep
        BY <3>1 DEF Jobs!EndpointNo
      <3>6. BatchSoFar'
        BY <2>1, <3>1, <3>2, <3>4, <3>5 DEF BatchSoFar
      <3> QED
        BY <3>3, <3>6
    <2> QED
      BY <2>1, <2>2, <2>3 DEF JobInv
  <1> QED
    BY <1>1, <1>2

LEMMA JobStep ==
  ASSUME JobInv, Jobs!Next \/ UNCHANGED jobVars
  PROVE  JobInv'
PROOF
  <1>1. CASE \E m \in {"backfill", "nightly"} : Jobs!Start(m)
    BY <1>1, StartStep
  <1>2. CASE Jobs!WarmPair \/ Jobs!NextEndpoint
    BY <1>2, WarmStep
  <1>3. CASE Jobs!EndBatch
    BY <1>3, EndBatchStep
  <1>4. CASE Jobs!BatchFails
    BY <1>4, BatchFailsStep
  <1>5. CASE Jobs!NightlyFails \/ Jobs!Kill
    <2>1. /\ UNCHANGED <<mode, batch, ep, sym, failed, failedBatches>>
          /\ jobPc' \in {"idle", "error"}
      BY <1>5 DEF Jobs!NightlyFails, Jobs!Kill
    <2> QED
      BY <2>1 DEF JobInv, JobTypes
  <1>6. CASE UNCHANGED jobVars
    <2>1. UNCHANGED <<covered, mode, jobPc, batch, ep, sym, failed, failedBatches>>
      BY <1>6 DEF jobVars
    <2>2. /\ JobTypes' <=> JobTypes
          /\ BehindIsTold' <=> BehindIsTold
          /\ BatchSoFar' <=> BatchSoFar
          /\ AllTold' <=> AllTold
      BY <2>1 DEF JobTypes, BehindIsTold, BatchSoFar, AllTold, Hole, Told, Jobs!FirstOf,
                  Jobs!LastOf
    <2> QED
      BY <2>1, <2>2 DEF JobInv
  <1> QED
    BY <1>1, <1>2, <1>3, <1>4, <1>5, <1>6 DEF Jobs!Next, Jobs!Warm

(* A backfill that ended reports every symbol it left uncovered, or a full *)
(* list, and counts a failed batch (qt/data_backfill.py).                  *)
THEOREM HolesAreReported == MCSafety => []NoSilentHole
PROOF
  <1>1. MCInit => JobInv
    BY JobsInit DEF MCInit
  <1>2. JobInv /\ [MCNext]_mcVars => JobInv'
    BY JobStep DEF MCNext, mcVars, jobVars
  <1>3. JobInv => NoSilentHole
    BY DEF JobInv, AllTold, Hole, Told, NoSilentHole, Jobs!NoSilentHole
  <1> QED
    BY <1>1, <1>2, <1>3, PTL DEF MCSafety
=============================================================================
