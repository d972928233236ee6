---------------------------- MODULE WriterProofs ----------------------------
(***************************************************************************)
(* Proofs about the queue, for every number of producers, every capacity,  *)
(* every set of line lengths and each overflow policy; and about one       *)
(* pipeline: the queue, its producers, its closer and the writer.          *)
(***************************************************************************)
EXTENDS MCWriter, SequenceTheorems, FiniteSetTheorems, TLAPS

(***************************************************************************)
(* Arithmetic of ring indices.                                             *)
(***************************************************************************)

\* An index past the end of the ring wraps to a slot of the ring.
LEMMA SlotType ==
  ASSUME NEW N \in Nat \ {0}, NEW h \in 0 .. N - 1, NEW i \in 0 .. N
  PROVE  (h + i) % N \in 0 .. N - 1
  OBVIOUS

\* Different offsets from the same head are different slots.
LEMMA SlotInjective ==
  ASSUME NEW N \in Nat \ {0}, NEW h \in 0 .. N - 1,
         NEW i \in 0 .. N - 1, NEW j \in 0 .. N - 1, (h + i) % N = (h + j) % N
  PROVE  i = j
  <1>1. (h + i) % N = IF h + i < N THEN h + i ELSE h + i - N
    OBVIOUS
  <1>2. (h + j) % N = IF h + j < N THEN h + j ELSE h + j - N
    OBVIOUS
  <1> QED BY <1>1, <1>2

\* Every slot lies at some offset from the head.
LEMMA SlotSurjective ==
  ASSUME NEW N \in Nat \ {0}, NEW h \in 0 .. N - 1, NEW s \in 0 .. N - 1
  PROVE  \E i \in 0 .. N - 1 : s = (h + i) % N
  <1>1. CASE s >= h
    <2>1. s - h \in 0 .. N - 1 /\ s = (h + (s - h)) % N
      BY <1>1
    <2> QED BY <2>1
  <1>2. CASE s < h
    <2>1. s - h + N \in 0 .. N - 1 /\ s = (h + (s - h + N)) % N
      BY <1>2
    <2> QED BY <2>1
  <1> QED BY <1>1, <1>2

\* Advancing the head by one shifts every offset by one, the last to the old head.
LEMMA SlotShift ==
  ASSUME NEW N \in Nat \ {0}, NEW h \in 0 .. N - 1, NEW i \in 0 .. N - 1
  PROVE  (((h + 1) % N) + i) % N = IF i = N - 1 THEN h ELSE (h + (i + 1)) % N
  <1>1. (h + 1) % N = IF h = N - 1 THEN 0 ELSE h + 1
    OBVIOUS
  <1>2. CASE h = N - 1
    <2>1. (((h + 1) % N) + i) % N = i
      BY <1>1, <1>2
    <2>2. i # N - 1 => (h + (i + 1)) % N = i
      BY <1>2
    <2> QED BY <1>2, <2>1, <2>2
  <1>3. CASE h # N - 1
    <2>1. (((h + 1) % N) + i) % N = (h + 1 + i) % N
      BY <1>1, <1>3
    <2>2. i = N - 1 => (h + 1 + i) % N = h
      BY <1>3
    <2> QED BY <2>1, <2>2
  <1> QED BY <1>2, <1>3
----------------------------------------------------------------------------
(***************************************************************************)
(* The ring under its two elementary steps.                                *)
(***************************************************************************)
Ring == RingTypeOK /\ RingOrder /\ ByteAccounting

\* The record that is stored follows the others, which stay where they are.
LEMMA EnqueueSlots ==
  ASSUME RingTypeOK, NEW kind, NEW size, HasCapacity(size), Enqueue(kind, size)
  PROVE  /\ \A i \in Slots : Slot(i) \in Slots /\ Slot(i)' = Slot(i)
         /\ \A i \in Slots : records'[Slot(i)'] =
              IF i = queued THEN [seq |-> nextSeq, size |-> size, kind |-> kind,
                                  off |-> stats.acceptedBytes]
                            ELSE records[Slot(i)]
  <1> DEFINE new == [seq |-> nextSeq, size |-> size, kind |-> kind, off |-> stats.acceptedBytes]
  <1> USE QueueAssumption
  <1>1. Slot(queued) \in Slots /\ queued \in Slots
    BY SlotType DEF RingTypeOK, HasCapacity, Slot, Slots
  <1>2. records' = [records EXCEPT ![Slot(queued)] = new] /\ head' = head
    BY DEF Enqueue
  <1>3. records \in [Slots -> Record] /\ head \in Slots
    BY DEF RingTypeOK
  <1>4. \A i \in Slots : Slot(i) \in Slots /\ Slot(i)' = Slot(i)
    <2> TAKE i \in Slots
    <2>1. (head + i) % MaxRecords \in Slots
      BY SlotType, <1>3 DEF Slots
    <2> QED BY <2>1, <1>2 DEF Slot
  <1>5. \A i \in Slots : i # queued => Slot(i) # Slot(queued)
    <2> TAKE i \in Slots
    <2>1. (head + i) % MaxRecords = (head + queued) % MaxRecords => i = queued
      BY SlotInjective, <1>1, <1>3 DEF Slots
    <2> QED BY <2>1 DEF Slot
  <1> HIDE DEF new
  <1>6. \A i \in Slots : records'[Slot(i)'] = IF i = queued THEN new ELSE records[Slot(i)]
    BY <1>1, <1>2, <1>3, <1>4, <1>5
  <1> QED BY <1>4, <1>6 DEF new

\* Storing a record that fits keeps the ring's order and its byte count.
LEMMA EnqueueKeepsRing ==
  ASSUME Ring, NEW kind \in {"line", "internal"}, NEW size \in Nat,
         kind = "internal" => size = 0, HasCapacity(size), Enqueue(kind, size),
         UNCHANGED overflow
  PROVE  Ring'
  <1> DEFINE new == [seq |-> nextSeq, size |-> size, kind |-> kind, off |-> stats.acceptedBytes]
             total == stats.acceptedBytes
  <1> USE QueueAssumption
  <1>1. Slot(queued) \in Slots /\ queued \in Slots /\ queued < MaxRecords
    BY SlotType DEF Ring, RingTypeOK, HasCapacity, Slot, Slots
  <1>2. /\ records' = [records EXCEPT ![Slot(queued)] = new]
        /\ head' = head /\ queued' = queued + 1 /\ queuedByte' = queuedByte + size
        /\ nextSeq' = nextSeq + 1
    BY DEF Enqueue
  <1>3. /\ new \in Record /\ new.seq = nextSeq /\ new.kind # "zero"
        /\ new.size = size /\ new.off = total
    BY DEF Ring, RingTypeOK, Record
  <1>4. /\ total \in Nat /\ total' = total + size
        /\ stats' \in [accepted : Nat, acceptedBytes : Nat, dropped : Nat, droppedBytes : Nat]
    BY DEF Ring, Enqueue, RingTypeOK
  <1>5. /\ records \in [Slots -> Record] /\ head \in Slots /\ queued \in 0 .. MaxRecords
        /\ nextSeq \in Nat /\ queuedByte \in Int
        /\ closed' \in BOOLEAN /\ wake' \in BOOLEAN
        /\ drops' \in [records : Nat, bytes : Nat] /\ overflow' \in Policies
    BY DEF Ring, Enqueue, RingTypeOK
  <1>8. /\ \A i \in Slots : Slot(i) \in Slots /\ Slot(i)' = Slot(i)
        /\ \A i \in Slots : records'[Slot(i)'] = IF i = queued THEN new ELSE records[Slot(i)]
    BY EnqueueSlots DEF Ring
  <1> HIDE DEF new, total
  <1>9. RingTypeOK'
    BY <1>1, <1>2, <1>3, <1>4, <1>5 DEF RingTypeOK, Slots
  <1>10. RingOrder'
    <2> SUFFICES ASSUME NEW i \in Slots
                 PROVE  IF i < queued'
                        THEN records'[Slot(i)'].seq = nextSeq' - queued' + i
                             /\ records'[Slot(i)'].kind # "zero"
                        ELSE records'[Slot(i)'] = ZeroRecord
      BY DEF RingOrder
    <2>1. CASE i = queued
      BY <2>1, <1>2, <1>3, <1>5, <1>8
    <2>2. CASE i # queued
      <3>1. records'[Slot(i)'] = records[Slot(i)]
        BY <2>2, <1>8
      <3>2. (i < queued' <=> i < queued) /\ nextSeq' - queued' + i = nextSeq - queued + i
        BY <2>2, <1>2, <1>5 DEF Slots
      <3> QED BY <3>1, <3>2 DEF Ring, RingOrder
    <2> QED BY <2>1, <2>2
  <1>11. ByteAccounting'
    <2>1. 0 =< queuedByte' /\ queuedByte' =< MaxBytes
      BY <1>2, <1>5 DEF Ring, ByteAccounting, HasCapacity
    <2>2. Slot(0) = head /\ 0 \in Slots
      BY <1>5 DEF Slot, Slots
    <2>3. records'[head'].off = total' - queuedByte'
      <3>1. Slot(0)' = head'
        BY <2>2, <1>8, <1>2
      <3>2. CASE queued = 0
        BY <3>1, <3>2, <2>2, <1>2, <1>3, <1>4, <1>5, <1>8 DEF Ring, ByteAccounting
      <3>3. CASE queued # 0
        BY <3>1, <3>3, <2>2, <1>2, <1>4, <1>5, <1>8 DEF Ring, ByteAccounting, total
      <3> QED BY <3>2, <3>3
    <2>4. ASSUME NEW i \in 0 .. queued' - 1
          PROVE  records'[Slot(i)'].off + records'[Slot(i)'].size =
                   IF i = queued' - 1 THEN total' ELSE records'[Slot(i + 1)'].off
      <3>1. CASE i = queued
        BY <3>1, <1>1, <1>2, <1>3, <1>4, <1>5, <1>8
      <3>2. CASE i # queued
        <4>1. i \in 0 .. queued - 1 /\ i \in Slots /\ i + 1 \in Slots
          BY <3>2, <1>1, <1>2, <1>5 DEF Slots
        <4>2. records'[Slot(i)'] = records[Slot(i)]
          BY <4>1, <3>2, <1>8
        <4>3. records'[Slot(i + 1)'].off =
                IF i + 1 = queued THEN total ELSE records[Slot(i + 1)].off
          BY <4>1, <1>3, <1>8
        <4>4. records[Slot(i)].off + records[Slot(i)].size =
                IF i = queued - 1 THEN total ELSE records[Slot(i + 1)].off
          BY <4>1 DEF Ring, ByteAccounting, total
        <4>5. i # queued' - 1 /\ (i + 1 = queued <=> i = queued - 1)
          BY <4>1, <1>2, <1>5
        <4> QED BY <4>2, <4>3, <4>4, <4>5
      <3> QED BY <3>1, <3>2
    <2>5. queued' > 0 /\ queued' # 0
      BY <1>2, <1>5
    <2>6. ASSUME NEW i \in 0 .. queued' - 1
          PROVE  records'[Slot(i)'].off =< total'
      <3>1. i \in Slots
        BY <1>1, <1>2 DEF Slots
      <3>2. CASE i = queued
        BY <3>1, <3>2, <1>3, <1>4, <1>8
      <3>3. CASE i # queued
        <4>1. i \in 0 .. queued - 1
          BY <3>3, <1>2, <1>5
        <4>2. records'[Slot(i)'] = records[Slot(i)] /\ records[Slot(i)] \in Record
          BY <3>1, <3>3, <1>5, <1>8
        <4>3. records[Slot(i)].off =< total
          BY <4>1 DEF Ring, ByteAccounting, total
        <4> QED BY <4>2, <4>3, <1>4 DEF Record
      <3> QED BY <3>2, <3>3
    <2> QED BY <2>1, <2>3, <2>4, <2>5, <2>6 DEF ByteAccounting, total
  <1> QED BY <1>9, <1>10, <1>11 DEF Ring

\* When the oldest record is removed, the others move up by one.
LEMMA DequeueSlots ==
  ASSUME RingTypeOK, queued > 0, Dequeue
  PROVE  /\ \A i \in Slots : i # MaxRecords - 1 => i + 1 \in Slots
         /\ Slot(0) = head /\ Slot(0)' = head'
         /\ \A i \in Slots : records'[Slot(i)'] =
              IF i = MaxRecords - 1 THEN ZeroRecord ELSE records[Slot(i + 1)]
  <1> USE QueueAssumption
  <1>1. records' = [records EXCEPT ![head] = ZeroRecord] /\ head' = (head + 1) % MaxRecords
    BY DEF Dequeue
  <1>2. /\ records \in [Slots -> Record] /\ head \in Slots
        /\ MaxRecords - 1 \in Slots /\ 0 \in Slots
    BY DEF RingTypeOK, Slots
  <1>3. head' \in Slots
    BY <1>1, <1>2 DEF Slots
  <1>6. \A i \in Slots : i # MaxRecords - 1 =>
          i + 1 \in Slots /\ Slot(i)' = Slot(i + 1) /\ Slot(i + 1) \in Slots /\ Slot(i + 1) # head
    <2> SUFFICES ASSUME NEW i \in Slots, i # MaxRecords - 1
                 PROVE  i + 1 \in Slots /\ Slot(i)' = Slot(i + 1)
                        /\ Slot(i + 1) \in Slots /\ Slot(i + 1) # head
      OBVIOUS
    <2>1. i + 1 \in Slots /\ i + 1 # 0
      BY DEF Slots
    <2>2. (head' + i) % MaxRecords = (head + (i + 1)) % MaxRecords
      BY SlotShift, <1>1, <1>2 DEF Slots
    <2>3. (head + (i + 1)) % MaxRecords \in Slots
      BY SlotType, <1>2, <2>1 DEF Slots
    <2>4. (head + (i + 1)) % MaxRecords # head
      BY <1>2, <2>1 DEF Slots
    <2> QED BY <2>1, <2>2, <2>3, <2>4 DEF Slot
  <1>7. Slot(MaxRecords - 1)' = head /\ Slot(0) = head /\ Slot(0)' = head'
    <2>1. (head' + (MaxRecords - 1)) % MaxRecords = head
      BY SlotShift, <1>1, <1>2 DEF Slots
    <2>2. (head + 0) % MaxRecords = head
      BY <1>2 DEF Slots
    <2>3. (head' + 0) % MaxRecords = head'
      <3>1. \A h \in Slots : (h + 0) % MaxRecords = h
        BY DEF Slots
      <3> QED BY <3>1, <1>3
    <2> QED BY <2>1, <2>2, <2>3 DEF Slot
  <1>8. \A i \in Slots : records'[Slot(i)'] =
          IF i = MaxRecords - 1 THEN ZeroRecord ELSE records[Slot(i + 1)]
    <2> TAKE i \in Slots
    <2>1. CASE i = MaxRecords - 1
      BY <2>1, <1>1, <1>2, <1>7
    <2>2. CASE i # MaxRecords - 1
      BY <2>2, <1>1, <1>2, <1>6
    <2> QED BY <2>1, <2>2
  <1> QED BY <1>6, <1>7, <1>8

\* Removing the oldest record keeps the ring's order and its byte count.
LEMMA DequeueKeepsRing ==
  ASSUME Ring, queued > 0, Dequeue, nextSeq' = nextSeq, overflow' = overflow,
         stats'.acceptedBytes = stats.acceptedBytes,
         closed' \in BOOLEAN, wake' \in BOOLEAN, drops' \in [records : Nat, bytes : Nat],
         stats' \in [accepted : Nat, acceptedBytes : Nat, dropped : Nat, droppedBytes : Nat]
  PROVE  Ring'
  <1> DEFINE total == stats.acceptedBytes
  <1> USE QueueAssumption
  <1>1. /\ records' = [records EXCEPT ![head] = ZeroRecord]
        /\ head' = (head + 1) % MaxRecords
        /\ queued' = queued - 1 /\ queuedByte' = queuedByte - records[head].size
    BY DEF Dequeue
  <1>2. /\ records \in [Slots -> Record] /\ head \in Slots
        /\ queued \in 1 .. MaxRecords /\ nextSeq \in Nat /\ queuedByte \in Int
        /\ total \in Nat /\ total' = total /\ MaxRecords - 1 \in Slots /\ 0 \in Slots
        /\ overflow \in Policies
    BY DEF Ring, RingTypeOK, Slots
  <1>3. ZeroRecord \in Record /\ head' \in Slots
    BY <1>1, <1>2 DEF ZeroRecord, Record, Slots
  <1>4. \A s \in Slots : records[s].size \in Nat /\ records[s].off \in Nat
    BY <1>2 DEF Record
  <1>5. RingTypeOK'
    BY <1>1, <1>2, <1>3, <1>4 DEF RingTypeOK
  <1>8. /\ \A i \in Slots : i # MaxRecords - 1 => i + 1 \in Slots
        /\ Slot(0) = head /\ Slot(0)' = head'
        /\ \A i \in Slots : records'[Slot(i)'] =
             IF i = MaxRecords - 1 THEN ZeroRecord ELSE records[Slot(i + 1)]
    BY DequeueSlots DEF Ring
  <1> HIDE DEF total
  <1>9. RingOrder'
    <2> SUFFICES ASSUME NEW i \in Slots
                 PROVE  IF i < queued'
                        THEN records'[Slot(i)'].seq = nextSeq' - queued' + i
                             /\ records'[Slot(i)'].kind # "zero"
                        ELSE records'[Slot(i)'] = ZeroRecord
      BY DEF RingOrder
    <2>1. CASE i = MaxRecords - 1
      <3>1. ~(i < queued')
        BY <2>1, <1>1, <1>2
      <3> QED BY <3>1, <2>1, <1>8
    <2>2. CASE i # MaxRecords - 1
      <3>1. records'[Slot(i)'] = records[Slot(i + 1)] /\ i + 1 \in Slots
        BY <2>2, <1>8
      <3>2. (i < queued' <=> i + 1 < queued) /\ nextSeq' - queued' + i = nextSeq - queued + (i + 1)
        BY <1>1, <1>2 DEF Slots
      <3> QED BY <3>1, <3>2 DEF Ring, RingOrder
    <2> QED BY <2>1, <2>2
  <1>10. ByteAccounting'
    <2>1. records[head].off = total - queuedByte
      BY <1>2 DEF Ring, ByteAccounting, total
    <2>2. records[head].off + records[head].size =
            IF queued = 1 THEN total ELSE records[Slot(1)].off
      <3>1. 0 \in 0 .. queued - 1
        BY <1>2
      <3>2. records[Slot(0)].off + records[Slot(0)].size =
              IF 0 = queued - 1 THEN total ELSE records[Slot(0 + 1)].off
        BY <3>1 DEF Ring, ByteAccounting, total
      <3>3. (0 = queued - 1 <=> queued = 1) /\ 0 + 1 = 1
        BY <1>2
      <3> QED BY <3>2, <3>3, <1>8
    <2>3. queued' = 0 => queuedByte' = 0
      BY <2>1, <2>2, <1>1, <1>2, <1>4
    <2>4. queued' > 0 => records'[head'].off = total' - queuedByte'
      <3> SUFFICES ASSUME queued' > 0 PROVE records'[head'].off = total' - queuedByte'
        OBVIOUS
      <3>1. queued # 1 /\ 0 # MaxRecords - 1
        BY <1>1, <1>2
      <3>2. Slot(0)' = head'
        BY <1>8
      <3>3. records'[head'] = records[Slot(1)]
        BY <3>1, <3>2, <1>2, <1>8
      <3> QED BY <3>1, <3>3, <2>1, <2>2, <1>1, <1>2, <1>4
    <2>5. ASSUME NEW i \in 0 .. queued' - 1
          PROVE  records'[Slot(i)'].off + records'[Slot(i)'].size =
                   IF i = queued' - 1 THEN total' ELSE records'[Slot(i + 1)'].off
      <3>1. i \in Slots /\ i # MaxRecords - 1 /\ i + 1 \in 0 .. queued - 1 /\ i + 1 \in Slots
        BY <1>1, <1>2 DEF Slots
      <3>2. records'[Slot(i)'] = records[Slot(i + 1)]
        BY <3>1, <1>8
      <3>3. i # queued' - 1 => records'[Slot(i + 1)'] = records[Slot(i + 1 + 1)]
        <4>1. i # queued' - 1 => i + 1 # MaxRecords - 1
          BY <1>1, <1>2, <3>1
        <4> QED BY <4>1, <3>1, <1>8
      <3>4. records[Slot(i + 1)].off + records[Slot(i + 1)].size =
              IF i + 1 = queued - 1 THEN total ELSE records[Slot(i + 1 + 1)].off
        BY <3>1 DEF Ring, ByteAccounting, total
      <3>5. i + 1 = queued - 1 <=> i = queued' - 1
        BY <1>1, <1>2
      <3> QED BY <3>2, <3>3, <3>4, <3>5, <1>2
    <2>6. ASSUME NEW i \in 0 .. queued' - 1
          PROVE  records'[Slot(i)'].off =< total'
      <3>1. i \in Slots /\ i # MaxRecords - 1 /\ i + 1 \in 0 .. queued - 1
        BY <1>1, <1>2 DEF Slots
      <3>2. records'[Slot(i)'] = records[Slot(i + 1)]
        BY <3>1, <1>8
      <3>3. records[Slot(i + 1)].off =< total
        BY <3>1 DEF Ring, ByteAccounting, total
      <3> QED BY <3>2, <3>3, <1>2
    <2>7. 0 =< queuedByte' /\ queuedByte' =< MaxBytes
      <3>1. queuedByte =< MaxBytes /\ records[head].size \in Nat
        BY <1>2, <1>4 DEF Ring, ByteAccounting
      <3>2. CASE queued' = 0
        BY <3>2, <2>3
      <3>3. CASE queued' > 0
        <4>1. records'[head'].off =< total'
          <5>1. 0 \in 0 .. queued' - 1
            BY <3>3, <1>1, <1>2
          <5>2. Slot(0)' = head'
            BY <1>8
          <5> QED BY <5>1, <5>2, <2>6
        <4>2. records'[head'].off \in Nat
          BY <1>3, <1>5 DEF RingTypeOK, Record
        <4> QED BY <4>1, <4>2, <3>1, <3>3, <2>4, <1>1, <1>2
      <3> QED BY <3>2, <3>3, <1>1, <1>2
    <2> QED BY <2>3, <2>4, <2>5, <2>6, <2>7 DEF ByteAccounting, total
  <1> QED BY <1>5, <1>9, <1>10 DEF Ring
----------------------------------------------------------------------------
(***************************************************************************)
(* The queue's inductive invariant.                                        *)
(***************************************************************************)
CallsMatchPolicy ==
  \A p \in Producers :
    /\ push[p] \in {"waiting", "notified"} => overflow = "block"
    /\ push[p] = "evicting" => overflow = "drop-oldest" /\ pushSize[p] =< MaxBytes

QueueInv == QueueTypeOK /\ RingOrder /\ ByteAccounting /\ CallsMatchPolicy

\* A new queue satisfies it.
LEMMA QueueInitInv == QueueInit => QueueInv
  <1> SUFFICES ASSUME QueueInit PROVE QueueInv
    OBVIOUS
  <1> USE QueueAssumption DEF QueueInit
  <1>1. QueueTypeOK
    <2>1. ZeroRecord \in Record
      BY DEF ZeroRecord, Record
    <2>2. RingTypeOK
      <3>1. records \in [Slots -> Record]
        BY <2>1
      <3>2. /\ head \in Slots /\ queued \in 0 .. MaxRecords
            /\ drops \in [records : Nat, bytes : Nat]
            /\ stats \in [accepted : Nat, acceptedBytes : Nat, dropped : Nat, droppedBytes : Nat]
        BY DEF Slots, NoDrops
      <3>3. nextSeq \in Nat /\ queuedByte \in Int
        OBVIOUS
      <3>4. closed \in BOOLEAN /\ wake \in BOOLEAN /\ overflow \in Policies
        BY Zenon
      <3> HIDE DEF QueueInit
      <3> QED BY <3>1, <3>2, <3>3, <3>4 DEF RingTypeOK
    <2> QED BY <2>2 DEF QueueTypeOK
  <1>2. RingOrder
    <2> SUFFICES ASSUME NEW i \in Slots PROVE records[Slot(i)] = ZeroRecord /\ ~(i < queued)
      BY DEF RingOrder
    <2>1. (head + i) % MaxRecords \in Slots
      BY SlotType DEF Slots
    <2> QED BY <2>1 DEF Slot, Slots
  <1>3. ByteAccounting /\ CallsMatchPolicy
    BY DEF ByteAccounting, CallsMatchPolicy
  <1> QED BY <1>1, <1>2, <1>3 DEF QueueInv

\* Every step of the queue keeps it.
LEMMA QueueStepInv == QueueInv /\ [QueueNext]_queueVars => QueueInv'
  <1> SUFFICES ASSUME QueueInv, [QueueNext]_queueVars PROVE QueueInv'
    OBVIOUS
  <1> USE QueueAssumption
  <1>0. Ring
    BY DEF QueueInv, QueueTypeOK, Ring
  <1>u. overflow' = overflow
    BY DEF QueueNext, queueVars
  <1> USE <1>u
  <1> DEFINE Calls == {"idle", "waiting", "notified", "evicting"}
             CallsOK == /\ push \in [Producers -> Calls] /\ pushSize \in [Producers -> Nat]
                        /\ \A p \in Producers : push[p] # "idle" => pushSize[p] \in Sizes
                        /\ CallsMatchPolicy
  <1>c. CallsOK
    BY DEF QueueInv, QueueTypeOK
  <1>q. Ring' /\ CallsOK' => QueueInv'
    BY DEF QueueInv, QueueTypeOK, Ring
  <1>s. ASSUME UNCHANGED <<records, head, queued, queuedByte, nextSeq>>,
               stats'.acceptedBytes = stats.acceptedBytes,
               closed' \in BOOLEAN, wake' \in BOOLEAN, drops' \in [records : Nat, bytes : Nat],
               stats' \in [accepted : Nat, acceptedBytes : Nat, dropped : Nat, droppedBytes : Nat]
        PROVE  Ring'
    BY <1>s, <1>0 DEF Ring, RingTypeOK, RingOrder, ByteAccounting, Slot
  <1>t. /\ closed \in BOOLEAN /\ wake \in BOOLEAN /\ drops \in [records : Nat, bytes : Nat]
        /\ stats \in [accepted : Nat, acceptedBytes : Nat, dropped : Nat, droppedBytes : Nat]
        /\ NoDrops \in [records : Nat, bytes : Nat]
        /\ records[head].size \in Nat
    BY <1>0 DEF Ring, RingTypeOK, NoDrops, Record
  <1>d. ASSUME NEW size \in Nat, CountDrop(size)
        PROVE  /\ stats'.acceptedBytes = stats.acceptedBytes
               /\ drops' \in [records : Nat, bytes : Nat]
               /\ stats' \in [accepted : Nat, acceptedBytes : Nat, dropped : Nat, droppedBytes : Nat]
    BY <1>d, <1>t DEF CountDrop
  <1>r. ASSUME NEW p \in Producers, Return(p)
        PROVE  CallsOK'
    BY <1>r, <1>c DEF Return, CallsMatchPolicy
  <1>1. ASSUME NEW p \in Producers, NEW size \in Sizes, PushAccept(p, size)
        PROVE  QueueInv'
    <2>1. Ring'
      BY <1>0, <1>1, EnqueueKeepsRing DEF PushAccept
    <2> QED BY <2>1, <1>1, <1>r, <1>q DEF PushAccept
  <1>2. ASSUME NEW p \in Producers, NEW size \in Sizes, PushWait(p, size)
        PROVE  QueueInv'
    <2>1. Ring'
      BY <1>2, <1>s, <1>t DEF PushWait
    <2>2. CallsOK'
      BY <1>2, <1>c DEF PushWait, CallsMatchPolicy
    <2> QED BY <2>1, <2>2, <1>q
  <1>3. ASSUME NEW p \in Producers, NEW size \in Sizes, PushDropIncoming(p, size)
        PROVE  QueueInv'
    <2>1. Ring'
      BY <1>3, <1>s, <1>t, <1>d DEF PushDropIncoming
    <2>2. CallsOK'
      BY <1>3, <1>c DEF PushDropIncoming, CallsMatchPolicy
    <2> QED BY <2>1, <2>2, <1>q
  <1>4. ASSUME NEW p \in Producers, NEW size \in Sizes, PushDropOldest(p, size)
        PROVE  QueueInv'
    <2>1. Ring'
      BY <1>4, <1>s, <1>t DEF PushDropOldest
    <2>2. CallsOK'
      BY <1>4, <1>c DEF PushDropOldest, CallsMatchPolicy
    <2> QED BY <2>1, <2>2, <1>q
  <1>5. ASSUME NEW p \in Producers, PushRefused(p)
        PROVE  QueueInv'
    <2>1. Ring'
      BY <1>5, <1>s, <1>t DEF PushRefused
    <2> QED BY <2>1, <1>5, <1>r, <1>q DEF PushRefused
  <1>6. ASSUME NEW p \in Producers, Evict(p)
        PROVE  QueueInv'
    <2>1. Ring'
      BY <1>0, <1>6, <1>t, <1>d, DequeueKeepsRing DEF Evict
    <2>2. CallsOK'
      BY <1>6, <1>c DEF Evict, CallsMatchPolicy
    <2> QED BY <2>1, <2>2, <1>q
  <1>7. ASSUME NEW p \in Producers, EvictDone(p)
        PROVE  QueueInv'
    <2>1. CASE HasCapacity(pushSize[p])
      BY <2>1, <1>0, <1>7, <1>c, <1>r, <1>q, EnqueueKeepsRing DEF EvictDone
    <2>2. CASE ~HasCapacity(pushSize[p])
      <3>1. CountDrop(pushSize[p]) /\ pushSize[p] \in Nat
            /\ UNCHANGED <<records, head, queued, queuedByte, nextSeq, closed, wake>>
        BY <2>2, <1>7, <1>c DEF EvictDone
      <3>2. Ring'
        BY <3>1, <1>s, <1>t, <1>d
      <3> QED BY <3>2, <1>7, <1>r, <1>q DEF EvictDone
    <2> QED BY <2>1, <2>2
  <1>8. CASE PushInternal
    <2>1. Ring'
      BY <1>0, <1>8, EnqueueKeepsRing DEF PushInternal
    <2>2. CallsOK'
      BY <1>8, <1>c DEF PushInternal, CallsMatchPolicy
    <2> QED BY <2>1, <2>2, <1>q
  <1>9. CASE Pop
    <2>1. Ring'
      BY <1>0, <1>9, <1>t, DequeueKeepsRing DEF Pop
    <2>2. CallsOK'
      BY <1>9, <1>c DEF Pop, Signal, Waiting, CallsMatchPolicy
    <2> QED BY <2>1, <2>2, <1>q
  <1>10. CASE TakeDrops
    <2>1. Ring'
      BY <1>10, <1>s, <1>t DEF TakeDrops
    <2>2. CallsOK'
      BY <1>10, <1>c DEF TakeDrops, CallsMatchPolicy
    <2> QED BY <2>1, <2>2, <1>q
  <1>11. CASE ReceiveWake
    <2>1. Ring'
      BY <1>11, <1>s, <1>t DEF ReceiveWake
    <2>2. CallsOK'
      BY <1>11, <1>c DEF ReceiveWake, CallsMatchPolicy
    <2> QED BY <2>1, <2>2, <1>q
  <1>12. CASE Close
    <2>1. Ring'
      BY <1>12, <1>s, <1>t DEF Close
    <2>2. CallsOK'
      BY <1>12, <1>c DEF Close, Broadcast, CallsMatchPolicy
    <2> QED BY <2>1, <2>2, <1>q
  <1>13. CASE UNCHANGED queueVars
    <2>1. Ring'
      BY <1>13, <1>s, <1>t DEF queueVars
    <2>2. CallsOK'
      BY <1>13, <1>c DEF queueVars, CallsMatchPolicy
    <2> QED BY <2>1, <2>2, <1>q
  <1> QED BY <1>1, <1>2, <1>3, <1>4, <1>5, <1>6, <1>7, <1>8, <1>9, <1>10, <1>11, <1>12, <1>13
          DEF QueueNext, ProducerStep

(***************************************************************************)
(* Whatever the clients do, the ring holds the last records pushed in      *)
(* order, releases the others, and counts its bytes exactly and within     *)
(* the cap (hasCapacityLocked, pushLocked, pushDropOldestLocked, Pop).     *)
(***************************************************************************)
THEOREM QueueRing == QueueSpec => [](QueueTypeOK /\ RingOrder /\ ByteAccounting)
  <1>1. QueueInit => QueueInv
    BY QueueInitInv
  <1>2. QueueInv /\ [QueueNext]_queueVars => QueueInv'
    BY QueueStepInv
  <1>3. QueueInv => QueueTypeOK /\ RingOrder /\ ByteAccounting
    BY DEF QueueInv
  <1> QED BY <1>1, <1>2, <1>3, PTL DEF QueueSpec

\* An empty queue has room for every line within the byte cap.
LEMMA EmptyHasRoom ==
  ASSUME QueueInv, NEW size \in Nat, size =< MaxBytes, queued = 0
  PROVE  HasCapacity(size)
  BY QueueAssumption DEF QueueInv, ByteAccounting, HasCapacity

(***************************************************************************)
(* Evicting for a line always ends with the line stored: the rejection at  *)
(* queue.go 174-180 is dead code.                                          *)
(***************************************************************************)
THEOREM EvictionSucceeds == QueueSpec => []EvictionMakesRoom
  <1>1. QueueInit => QueueInv
    BY QueueInitInv
  <1>2. QueueInv /\ [QueueNext]_queueVars => QueueInv'
    BY QueueStepInv
  <1>3. QueueInv => EvictionMakesRoom
    BY EmptyHasRoom DEF QueueInv, QueueTypeOK, CallsMatchPolicy, EvictionMakesRoom, Evicting
  <1> QED BY <1>1, <1>2, <1>3, PTL DEF QueueSpec
----------------------------------------------------------------------------
(***************************************************************************)
(* Blocked producers.  Lines must fit the byte cap: a longer one would     *)
(* wait for ever.                                                          *)
(***************************************************************************)

\* A step of the queue forgets no waiting producer.
LEMMA StrandedStep ==
  ASSUME Sizes \subseteq 0 .. MaxBytes, QueueInv, NoStrandedProducer, [QueueNext]_queueVars
  PROVE  NoStrandedProducer'
  <1> USE QueueAssumption
  <1>t. /\ queued \in 0 .. MaxRecords /\ closed \in BOOLEAN
        /\ push \in [Producers -> {"idle", "waiting", "notified", "evicting"}]
    BY DEF QueueInv, QueueTypeOK, RingTypeOK
  <1>e. ASSUME NEW kind, NEW size, Enqueue(kind, size)
        PROVE  queued' > 0 /\ closed' = closed
    BY <1>e, <1>t DEF Enqueue
  <1>1. ASSUME NEW p \in Producers, NEW size \in Sizes, PushAccept(p, size)
        PROVE  NoStrandedProducer'
    BY <1>1, <1>e DEF PushAccept, NoStrandedProducer
  <1>2. ASSUME NEW p \in Producers, NEW size \in Sizes, PushWait(p, size)
        PROVE  NoStrandedProducer'
    <2>1. queued # 0
      BY <1>2, EmptyHasRoom DEF PushWait
    <2> QED BY <2>1, <1>2, <1>t DEF PushWait, NoStrandedProducer
  <1>3. ASSUME NEW p \in Producers, NEW size \in Sizes, PushDropIncoming(p, size)
        PROVE  NoStrandedProducer'
    BY <1>3 DEF PushDropIncoming, NoStrandedProducer, Waiting, Notified
  <1>4. ASSUME NEW p \in Producers, NEW size \in Sizes, PushDropOldest(p, size)
        PROVE  NoStrandedProducer'
    <2>1. queued # 0
      BY <1>4, EmptyHasRoom DEF PushDropOldest
    <2> QED BY <2>1, <1>4, <1>t DEF PushDropOldest, NoStrandedProducer
  <1>5. ASSUME NEW p \in Producers, PushRefused(p)
        PROVE  NoStrandedProducer'
    <2>1. Waiting' \subseteq Waiting
      BY <1>5, <1>t DEF PushRefused, Return, Waiting
    <2> QED BY <2>1, <1>5 DEF PushRefused, NoStrandedProducer
  <1>6. ASSUME NEW p \in Producers, Evict(p)
        PROVE  NoStrandedProducer'
    <2>1. Waiting' = {}
      BY <1>6 DEF Evict, Waiting, QueueInv, CallsMatchPolicy
    <2> QED BY <2>1 DEF NoStrandedProducer
  <1>7. ASSUME NEW p \in Producers, EvictDone(p)
        PROVE  NoStrandedProducer'
    <2>1. Waiting' = {}
      BY <1>7, <1>t DEF EvictDone, Return, Waiting, QueueInv, CallsMatchPolicy
    <2> QED BY <2>1 DEF NoStrandedProducer
  <1>8. CASE PushInternal
    BY <1>8, <1>e DEF PushInternal, NoStrandedProducer, Waiting, Notified
  <1>9. CASE Pop
    <2>1. CASE Waiting = {}
      BY <2>1, <1>9 DEF Pop, Signal, NoStrandedProducer, Waiting
    <2>2. CASE Waiting # {}
      <3>1. Notified' # {}
        BY <2>2, <1>9, <1>t DEF Pop, Signal, Waiting, Notified
      <3> QED BY <3>1, <2>2, <1>9 DEF Pop, NoStrandedProducer
    <2> QED BY <2>1, <2>2
  <1>10. CASE TakeDrops
    BY <1>10 DEF TakeDrops, NoStrandedProducer, Waiting, Notified
  <1>11. CASE ReceiveWake
    BY <1>11 DEF ReceiveWake, NoStrandedProducer, Waiting, Notified
  <1>12. CASE Close
    <2>1. Waiting' = {}
      BY <1>12, <1>t DEF Close, Broadcast, NoStrandedProducer, Waiting
    <2> QED BY <2>1 DEF NoStrandedProducer
  <1>13. CASE UNCHANGED queueVars
    BY <1>13 DEF queueVars, NoStrandedProducer, Waiting, Notified
  <1> QED BY <1>1, <1>2, <1>3, <1>4, <1>5, <1>6, <1>7, <1>8, <1>9, <1>10, <1>11, <1>12, <1>13
          DEF QueueNext, ProducerStep

(***************************************************************************)
(* While a producer is blocked the queue is open and a signal is due: from *)
(* the Pop of a queued record or through a producer already signalled.     *)
(***************************************************************************)
THEOREM NoProducerStranded ==
  ASSUME Sizes \subseteq 0 .. MaxBytes
  PROVE  QueueSpec => []NoStrandedProducer
  <1>1. QueueInit => QueueInv /\ NoStrandedProducer
    BY QueueInitInv DEF QueueInit, NoStrandedProducer, Waiting
  <1>2. QueueInv /\ NoStrandedProducer /\ [QueueNext]_queueVars => QueueInv' /\ NoStrandedProducer'
    BY QueueStepInv, StrandedStep
  <1> QED BY <1>1, <1>2, PTL DEF QueueSpec
----------------------------------------------------------------------------
(***************************************************************************)
(* Every step of the pipeline is a step of the queue or leaves it alone,   *)
(* so what is proved of the queue holds here.                              *)
(***************************************************************************)
LEMMA StepsOfQueue == [Next]_vars => [QueueNext]_queueVars
  <1> SUFFICES ASSUME [Next]_vars PROVE [QueueNext]_queueVars
    OBVIOUS
  <1>1. CASE \E p \in Producers : ProducerNext(p)
    BY <1>1 DEF ProducerNext, QueueNext
  <1>2. CASE InternalNext \/ CloseInput
    BY <1>2 DEF InternalNext, CloseInput, QueueNext
  <1>3. CASE WriterStep
    BY <1>3 DEF WriterStep, FlushFails, Wake, EmitDropSummary, WriteSummary,
                PopRecord, Drained, WriteRecord, CloseSink, ReportError, Abort, QueueNext
  <1>4. CASE UNCHANGED vars
    BY <1>4 DEF vars
  <1> QED BY <1>1, <1>2, <1>3, <1>4 DEF Next

(***************************************************************************)
(* The pipeline's inductive invariant, in parts.                           *)
(***************************************************************************)

\* An open channel is reported as such; the last steps follow a close.
ClosedKnown ==
  /\ ~open => closed
  /\ wpc \in {"lastDrops", "lastReport", "closeSink", "done"} => closed /\ queued = 0
  /\ wpc = "failed" => closed
  /\ closed => Waiting = {} /\ Evicting = {}

\* The record in hand and the summary in hand exist only while being written.
HandsKnown ==
  /\ wpc = "write" => hand.kind # "zero"
  /\ wpc \notin {"write", "fail", "abort", "failed"} => hand.kind = "zero"
  /\ wpc \notin {"report", "lastReport", "fail", "abort", "failed"} => summary.records = 0
  /\ onErrors = IF wpc \in {"abort", "failed"} THEN 1 ELSE 0

\* A drop leaves a record behind it in the queue, or a writer that will look.
DropsCovered ==
  /\ drops.records > 0 =>
       \/ queued > 0 \/ Evicting # {}
       \/ wpc \in {"write", "drops", "fail", "abort", "failed"}
  /\ wpc = "select" /\ (queued > 0 \/ Evicting # {}) => wake \/ closed

\* What the sink has taken is older than what is in hand and in the queue.
OutputOld ==
  /\ \A i \in 1 .. Len(out) : out[i] < nextSeq - queued
  /\ hand.kind # "zero" =>
       /\ hand.seq < nextSeq - queued
       /\ \A i \in 1 .. Len(out) : out[i] < hand.seq

PipelineInv ==
  /\ QueueInv /\ NoStrandedProducer /\ WriterTypeOK
  /\ ClosedKnown /\ HandsKnown /\ DropsCovered
  /\ Conservation /\ OutputOld /\ InOrder

LEMMA PipelineInit == Init => PipelineInv
  <1> SUFFICES ASSUME Init PROVE PipelineInv
    OBVIOUS
  <1>1. QueueInv
    BY QueueInitInv DEF Init
  <1>2. Waiting = {} /\ Evicting = {} /\ Len(out) = 0 /\ hand.kind = "zero" /\ summary.records = 0
        /\ drops.records = 0
    BY DEF Init, QueueInit, WriterInit, Waiting, Evicting, ZeroRecord, NoDrops
  <1>3. WriterTypeOK
    <2>1. hand \in Record /\ summary \in [records : Nat, bytes : Nat] /\ out \in Seq(Nat)
      BY DEF Init, WriterInit, ZeroRecord, Record, NoDrops
    <2>2. reported \in Nat /\ onErrors \in Nat
      BY DEF Init, WriterInit
    <2>3. open \in BOOLEAN
      BY Zenon DEF Init, WriterInit
    <2> QED BY <2>1, <2>2, <2>3 DEF WriterTypeOK, Init, WriterInit
  <1>4. NoStrandedProducer /\ ClosedKnown /\ HandsKnown /\ DropsCovered
    BY <1>2 DEF Init, QueueInit, WriterInit, NoStrandedProducer, ClosedKnown, HandsKnown,
       DropsCovered
  <1>5. Conservation
    <2>1. /\ nextSeq = 0 /\ queued = 0 /\ reported = 0
          /\ stats.dropped = 0 /\ InHand = 0 /\ Evicted = 0
      BY <1>2 DEF Init, QueueInit, WriterInit, InHand, Evicted
    <2> QED BY <2>1, <1>2 DEF Conservation
  <1>6. OutputOld /\ InOrder
    BY <1>2 DEF OutputOld, InOrder
  <1> QED BY <1>1, <1>3, <1>4, <1>5, <1>6 DEF PipelineInv
----------------------------------------------------------------------------
(***************************************************************************)
(* What a step of a producer means to the writer.                          *)
(***************************************************************************)
\* The books stay balanced, a closed queue is at rest, drops come with
\* records, and records come with a wakeup.
ProducerEffect ==
  /\ nextSeq' - queued' - Evicted' = nextSeq - queued - Evicted
  /\ stats'.dropped - drops'.records = stats.dropped - drops.records
  /\ nextSeq' - queued' >= nextSeq - queued
  /\ closed' = closed
  /\ closed => queued' = queued /\ Waiting' = {} /\ Evicting' = {}
  /\ drops'.records > 0 =>
       queued' > 0 \/ Evicting' # {} \/ (drops' = drops /\ queued' = queued /\ Evicting = {})
  /\ queued' > 0 \/ Evicting' # {} => wake' \/ (wake' = wake /\ (queued > 0 \/ Evicting # {}))

\* Storing a record leaves the balance as it is.
LEMMA EnqueueEffect ==
  ASSUME QueueInv, ~closed, NEW kind \in {"line", "internal"}, NEW size \in Nat,
         Enqueue(kind, size), overflow' = overflow
  PROVE  ProducerEffect /\ queued' > 0 /\ wake' = TRUE
  <1>1. queued \in Nat /\ nextSeq \in Nat /\ stats.dropped \in Nat /\ drops.records \in Nat
    BY QueueAssumption DEF QueueInv, QueueTypeOK, RingTypeOK
  <1>2. /\ nextSeq' = nextSeq + 1 /\ queued' = queued + 1 /\ wake' = TRUE
        /\ closed' = closed /\ drops' = drops /\ stats'.dropped = stats.dropped
    BY DEF Enqueue
  <1> QED BY <1>1, <1>2 DEF ProducerEffect, Evicted

LEMMA ProducerStepEffect ==
  ASSUME QueueInv, closed => Waiting = {} /\ Evicting = {},
         NEW p \in Producers, ProducerStep(p), overflow' = overflow
  PROVE  ProducerEffect
  <1> USE QueueAssumption
  <1>1. /\ queued \in Nat /\ nextSeq \in Nat /\ stats.dropped \in Nat /\ drops.records \in Nat
        /\ push \in [Producers -> {"idle", "waiting", "notified", "evicting"}]
    BY DEF QueueInv, QueueTypeOK, RingTypeOK
  <1>2. \A size \in Sizes : size \in Nat /\ size =< MaxBytes
    BY WriterAssumption
  <1>d. ASSUME NEW size, CountDrop(size)
        PROVE  drops'.records = drops.records + 1 /\ stats'.dropped = stats.dropped + 1
    BY <1>d DEF CountDrop
  <1>3. ASSUME NEW size \in Sizes, PushAccept(p, size)
        PROVE  ProducerEffect
    BY <1>2, <1>3, EnqueueEffect DEF PushAccept
  <1>4. ASSUME NEW size \in Sizes, PushWait(p, size)
        PROVE  ProducerEffect
    <2>1. Evicting' = {} /\ Evicting = {}
      BY <1>1, <1>4 DEF PushWait, InPush, MutexFree, Evicting
    <2> QED BY <2>1, <1>1, <1>4 DEF PushWait, ProducerEffect, Evicted
  <1>5. ASSUME NEW size \in Sizes, PushDropIncoming(p, size)
        PROVE  ProducerEffect
    <2>1. queued > 0 /\ overflow = "drop-newest"
      BY <1>1, <1>2, <1>5, EmptyHasRoom DEF PushDropIncoming
    <2>2. Evicting' = {} /\ Evicting = {}
      BY <1>5 DEF PushDropIncoming, InPush, MutexFree, Evicting
    <2>3. /\ UNCHANGED <<queued, nextSeq, closed, wake>> /\ ~closed
          /\ drops'.records = drops.records + 1 /\ stats'.dropped = stats.dropped + 1
      BY <1>5, <1>d DEF PushDropIncoming
    <2> QED BY <2>1, <2>2, <2>3, <1>1 DEF ProducerEffect, Evicted
  <1>6. ASSUME NEW size \in Sizes, PushDropOldest(p, size)
        PROVE  ProducerEffect
    <2>1. queued > 0
      BY <1>1, <1>2, <1>6, EmptyHasRoom DEF PushDropOldest
    <2> QED BY <2>1, <1>1, <1>6 DEF PushDropOldest, ProducerEffect, Evicted
  <1>7. CASE PushRefused(p)
    <2>1. Evicting' = {} /\ Evicting = {}
      BY <1>1, <1>7 DEF PushRefused, Return, MutexFree, Evicting
    <2>2. Waiting' \subseteq Waiting
      BY <1>1, <1>7 DEF PushRefused, Return, Waiting
    <2> QED BY <2>1, <2>2, <1>1, <1>7 DEF PushRefused, ProducerEffect, Evicted
  <1>8. CASE Evict(p)
    <2>1. p \in Evicting /\ Evicting' = Evicting /\ overflow = "drop-oldest" /\ ~closed
      BY <1>8 DEF Evict, Evicting, QueueInv, CallsMatchPolicy
    <2>2. /\ queued' = queued - 1 /\ UNCHANGED <<nextSeq, closed, wake>>
          /\ drops'.records = drops.records + 1 /\ stats'.dropped = stats.dropped + 1
      BY <1>8, <1>d DEF Evict, Dequeue
    <2> QED BY <2>1, <2>2, <1>1 DEF ProducerEffect, Evicted
  <1>9. CASE EvictDone(p)
    <2>1. pushSize[p] \in Nat /\ pushSize[p] =< MaxBytes /\ p \in Evicting
      BY <1>9 DEF EvictDone, Evicting, QueueInv, QueueTypeOK, CallsMatchPolicy
    <2>2. HasCapacity(pushSize[p])
      BY <1>9, <2>1, EmptyHasRoom DEF EvictDone
    <2> QED BY <2>1, <2>2, <1>9, EnqueueEffect DEF EvictDone
  <1> QED BY <1>3, <1>4, <1>5, <1>6, <1>7, <1>8, <1>9 DEF ProducerStep
----------------------------------------------------------------------------
(***************************************************************************)
(* The steps of the pipeline.  The parts of the invariant that belong to   *)
(* the queue are kept by StepsOfQueue.                                     *)
(***************************************************************************)
WriterParts ==
  WriterTypeOK /\ ClosedKnown /\ HandsKnown /\ DropsCovered /\ Conservation /\ OutputOld /\ InOrder

LEMMA Numbers ==
  ASSUME QueueInv, WriterTypeOK
  PROVE  /\ queued \in Nat /\ nextSeq \in Nat /\ stats.dropped \in Nat /\ drops.records \in Nat
         /\ summary.records \in Nat /\ reported \in Nat /\ Len(out) \in Nat /\ Evicted \in Nat
         /\ hand.seq \in Nat /\ out \in Seq(Nat) /\ InHand \in Int
  BY QueueAssumption
     DEF QueueInv, QueueTypeOK, RingTypeOK, WriterTypeOK, Evicted, InHand, Record

\* A step of a producer, an internal push or the end of the input.
LEMMA EnvironmentStep ==
  ASSUME PipelineInv, QueueInv', ProducerEffect, UNCHANGED writerVars
  PROVE  WriterParts'
  <1>1. WriterTypeOK' /\ HandsKnown'
    BY DEF PipelineInv, WriterTypeOK, HandsKnown, writerVars
  <1>n. /\ queued \in Nat /\ nextSeq \in Nat /\ stats.dropped \in Nat /\ drops.records \in Nat
        /\ summary.records \in Nat /\ reported \in Nat /\ Len(out) \in Nat /\ Evicted \in Nat
        /\ out \in Seq(Nat) /\ hand.seq \in Nat /\ InHand \in Int
    BY Numbers DEF PipelineInv
  <1>2. ClosedKnown'
    BY DEF PipelineInv, ClosedKnown, ProducerEffect, writerVars
  <1>3. DropsCovered'
    BY DEF PipelineInv, DropsCovered, ProducerEffect, writerVars
  <1>4. /\ queued' \in Int /\ nextSeq' \in Int /\ Evicted' \in Int
        /\ stats'.dropped \in Int /\ drops'.records \in Int
        /\ InHand' = InHand
    <2>1. WriterTypeOK'
      BY <1>1
    <2> QED BY <2>1, QueueAssumption
               DEF QueueInv, QueueTypeOK, RingTypeOK, Evicted, InHand, writerVars
  <1>e. /\ nextSeq' - queued' - Evicted' = nextSeq - queued - Evicted
        /\ stats'.dropped - drops'.records = stats.dropped - drops.records
        /\ nextSeq' - queued' >= nextSeq - queued
    BY DEF ProducerEffect
  <1>5. Conservation'
    <2>1. /\ nextSeq = Len(out) + InHand + queued + Evicted
          /\ stats.dropped = reported + summary.records + drops.records
      BY DEF PipelineInv, Conservation
    <2>2. out' = out /\ reported' = reported /\ summary' = summary
      BY DEF writerVars
    <2>3. nextSeq' = Len(out') + InHand' + queued' + Evicted'
      <3>1. nextSeq - queued - Evicted = Len(out) + InHand
        BY <1>n, <2>1
      <3>2. nextSeq' - queued' - Evicted' = Len(out) + InHand
        BY <3>1, <1>e
      <3>3. PICK n \in Int, q \in Int, e \in Int : nextSeq' = n /\ queued' = q /\ Evicted' = e
        BY <1>4
      <3>4. n - q - e = Len(out) + InHand
        BY <3>2, <3>3
      <3>5. n = Len(out) + InHand + q + e
        BY <3>4, <1>n
      <3> QED BY <3>3, <3>5, <2>2, <1>4
    <2>4. stats'.dropped = reported' + summary'.records + drops'.records
      <3>1. stats.dropped - drops.records = reported + summary.records
        BY <1>n, <2>1
      <3>2. stats'.dropped - drops'.records = reported + summary.records
        BY <3>1, <1>e
      <3>3. stats'.dropped = reported + summary.records + drops'.records
        BY <3>2, <1>n, <1>4
      <3> QED BY <3>3, <2>2
    <2> QED BY <2>3, <2>4 DEF Conservation
  <1>6. OutputOld' /\ InOrder'
    <2>1. out' = out /\ hand' = hand
      BY DEF writerVars
    <2>2. \A i \in 1 .. Len(out) : out[i] \in Nat
      BY <1>n
    <2>3. \A n \in Nat : n < nextSeq - queued => n < nextSeq' - queued'
      <3> DEFINE old == nextSeq - queued
                 new == nextSeq' - queued'
      <3>1. old \in Int
        BY <1>n
      <3>2. new \in Int
        BY <1>4
      <3>3. new >= old
        BY <1>e
      <3> HIDE DEF old, new
      <3>4. \A n \in Nat : n < old => n < new
        BY <3>1, <3>2, <3>3
      <3> QED BY <3>4 DEF old, new
    <2>4. OutputOld'
      BY <1>n, <2>1, <2>2, <2>3 DEF PipelineInv, OutputOld
    <2> QED BY <2>1, <2>4 DEF PipelineInv, InOrder
  <1> QED BY <1>1, <1>2, <1>3, <1>5, <1>6 DEF WriterParts

\* Steps of the writer that leave the queue, the output and both hands alone.
LEMMA ControlStep ==
  ASSUME PipelineInv, FlushFails \/ Drained \/ CloseSink
  PROVE  WriterParts'
  <1>1. UNCHANGED <<queueVars, open, hand, summary, out, reported, onErrors>>
    BY DEF FlushFails, Drained, CloseSink
  <1>2. /\ UNCHANGED <<overflow, nextSeq, queued, stats, drops, wake, closed, push>>
        /\ UNCHANGED <<open, hand, summary, out, reported, onErrors>>
    BY <1>1 DEF queueVars
  <1>3. Waiting' = Waiting /\ Evicting' = Evicting
    BY <1>2 DEF Waiting, Evicting
  <1>4. Conservation' /\ OutputOld' /\ InOrder'
    BY <1>2 DEF PipelineInv, Conservation, InHand, Evicted, OutputOld, InOrder
  <1>5. drops.records \in Nat /\ queued \in Nat
    BY Numbers DEF PipelineInv
  <1>6. CASE FlushFails
    BY <1>2, <1>3, <1>4, <1>6 DEF FlushFails, PipelineInv, WriterTypeOK, ClosedKnown, HandsKnown,
       DropsCovered, WriterParts
  <1>7. CASE Drained
    <2>1. queued = 0 /\ Evicting = {} /\ drops.records = 0
      BY <1>5, <1>7 DEF Drained, MutexFree, PipelineInv, DropsCovered
    <2> QED BY <2>1, <1>2, <1>3, <1>4, <1>7
       DEF Drained, PipelineInv, WriterTypeOK, ClosedKnown, HandsKnown, DropsCovered, WriterParts
  <1>8. CASE CloseSink
    BY <1>2, <1>3, <1>4, <1>8 DEF CloseSink, PipelineInv, WriterTypeOK, ClosedKnown, HandsKnown,
       DropsCovered, WriterParts
  <1> QED BY <1>6, <1>7, <1>8

LEMMA WakeStep ==
  ASSUME PipelineInv, Wake
  PROVE  WriterParts'
  <1>1. /\ UNCHANGED <<overflow, nextSeq, queued, stats, drops, closed, push>>
        /\ UNCHANGED <<hand, summary, out, reported, onErrors>>
        /\ wpc = "select" /\ wpc' = "drops" /\ open' = wake /\ (wake \/ closed)
    BY DEF Wake, ReceiveWake
  <1>2. Waiting' = Waiting /\ Evicting' = Evicting
    BY <1>1 DEF Waiting, Evicting
  <1>3. Conservation' /\ OutputOld' /\ InOrder'
    BY <1>1 DEF PipelineInv, Conservation, InHand, Evicted, OutputOld, InOrder
  <1>4. ClosedKnown' /\ HandsKnown' /\ DropsCovered'
    BY <1>1, <1>2 DEF PipelineInv, ClosedKnown, HandsKnown, DropsCovered
  <1>5. WriterTypeOK'
    <2>1. wake \in BOOLEAN
      BY DEF PipelineInv, QueueInv, QueueTypeOK, RingTypeOK
    <2> QED BY <2>1, <1>1 DEF PipelineInv, WriterTypeOK
  <1> QED BY <1>3, <1>4, <1>5 DEF WriterParts

LEMMA EmitStep ==
  ASSUME PipelineInv, EmitDropSummary
  PROVE  WriterParts'
  <1>1. /\ UNCHANGED <<overflow, nextSeq, queued, stats, closed, wake, push>>
        /\ UNCHANGED <<open, hand, out, reported, onErrors>>
        /\ drops' = NoDrops /\ summary' = drops
        /\ wpc \in {"drops", "lastDrops"}
    BY DEF EmitDropSummary, TakeDrops
  <1>2. wpc' = IF drops.records = 0
               THEN IF wpc = "drops" THEN "pop" ELSE "closeSink"
               ELSE IF wpc = "drops" THEN "report" ELSE "lastReport"
    BY DEF EmitDropSummary
  <1>3. Waiting' = Waiting /\ Evicting' = Evicting
    BY <1>1 DEF Waiting, Evicting
  <1>4. OutputOld' /\ InOrder'
    BY <1>1 DEF PipelineInv, OutputOld, InOrder
  <1>5. Conservation'
    <2>1. drops'.records = 0 /\ summary'.records = drops.records /\ summary.records = 0
      BY <1>1 DEF NoDrops, PipelineInv, HandsKnown
    <2>2. InHand' = InHand /\ Evicted' = Evicted
      BY <1>1 DEF InHand, Evicted
    <2>3. /\ nextSeq = Len(out) + InHand + queued + Evicted
          /\ stats.dropped = reported + drops.records
      BY <2>1, Numbers DEF PipelineInv, Conservation
    <2>4. stats.dropped = reported + drops.records + 0
      BY <2>3, Numbers DEF PipelineInv
    <2> QED BY <1>1, <2>1, <2>2, <2>3, <2>4 DEF Conservation
  <1>6. ClosedKnown' /\ HandsKnown' /\ DropsCovered'
    <2>1. drops'.records = 0
      BY <1>1 DEF NoDrops
    <2> QED BY <1>1, <1>2, <1>3, <2>1 DEF PipelineInv, ClosedKnown, HandsKnown, DropsCovered
  <1>7. WriterTypeOK'
    <2>1. summary' \in [records : Nat, bytes : Nat]
      BY <1>1 DEF PipelineInv, QueueInv, QueueTypeOK, RingTypeOK
    <2> QED BY <2>1, <1>1, <1>2 DEF PipelineInv, WriterTypeOK
  <1> QED BY <1>4, <1>5, <1>6, <1>7 DEF WriterParts

LEMMA SummaryStep ==
  ASSUME PipelineInv, WriteSummary
  PROVE  WriterParts'
  <1>1. /\ UNCHANGED <<overflow, nextSeq, queued, stats, drops, closed, wake, push>>
        /\ UNCHANGED <<open, hand, out, onErrors>>
        /\ wpc \in {"report", "lastReport"}
    BY DEF WriteSummary, queueVars
  <1>2. \/ /\ wpc' = (IF wpc = "report" THEN "pop" ELSE "closeSink")
           /\ reported' = reported + summary.records /\ summary' = NoDrops
        \/ wpc' = "fail" /\ reported' = reported /\ summary' = summary
    BY DEF WriteSummary
  <1>3. Waiting' = Waiting /\ Evicting' = Evicting
    BY <1>1 DEF Waiting, Evicting
  <1>4. OutputOld' /\ InOrder'
    BY <1>1 DEF PipelineInv, OutputOld, InOrder
  <1>5. reported' \in Nat /\ reported' + summary'.records = reported + summary.records
    BY <1>2, Numbers DEF PipelineInv, NoDrops
  <1>6. Conservation'
    <2>1. InHand' = InHand /\ Evicted' = Evicted
      BY <1>1 DEF InHand, Evicted
    <2>2. nextSeq' = Len(out') + InHand' + queued' + Evicted'
      BY <2>1, <1>1 DEF PipelineInv, Conservation
    <2>3. stats'.dropped = reported' + summary'.records + drops'.records
      BY <1>1, <1>5 DEF PipelineInv, Conservation
    <2> QED BY <2>2, <2>3 DEF Conservation
  <1>7. ClosedKnown' /\ HandsKnown' /\ DropsCovered'
    BY <1>1, <1>2, <1>3 DEF PipelineInv, ClosedKnown, HandsKnown, DropsCovered, NoDrops
  <1>8. WriterTypeOK'
    <2>1. summary' \in [records : Nat, bytes : Nat]
      BY <1>2 DEF PipelineInv, WriterTypeOK, NoDrops
    <2> QED BY <2>1, <1>1, <1>2, <1>5 DEF PipelineInv, WriterTypeOK
  <1> QED BY <1>4, <1>6, <1>7, <1>8 DEF WriterParts

LEMMA PopStep ==
  ASSUME PipelineInv, QueueInv', PopRecord
  PROVE  WriterParts'
  <1>1. /\ UNCHANGED <<overflow, nextSeq, stats, drops, closed, wake>>
        /\ UNCHANGED <<open, summary, out, reported, onErrors>>
        /\ wpc = "pop" /\ wpc' = "write" /\ hand' = records[head]
        /\ queued > 0 /\ queued' = queued - 1 /\ Evicting = {}
    BY DEF PopRecord, Pop, Dequeue, MutexFree
  <1>2. /\ queued \in Nat /\ nextSeq \in Nat /\ Evicted \in Nat /\ Len(out) \in Nat
        /\ out \in Seq(Nat) /\ InHand = 0
    BY <1>1, Numbers DEF PipelineInv, HandsKnown, InHand
  <1>3. hand' \in Record /\ hand'.seq = nextSeq - queued /\ hand'.kind # "zero"
    <2>1. 0 \in Slots /\ head \in Slots /\ records \in [Slots -> Record] /\ 0 < queued
      BY <1>1, QueueAssumption DEF PipelineInv, QueueInv, QueueTypeOK, RingTypeOK, Slots
    <2>2. (head + 0) % MaxRecords = head
      BY <2>1, QueueAssumption DEF Slots
    <2>3. records[Slot(0)].seq = nextSeq - queued + 0 /\ records[Slot(0)].kind # "zero"
      BY <2>1 DEF PipelineInv, QueueInv, RingOrder
    <2> QED BY <1>1, <1>2, <2>1, <2>2, <2>3 DEF Slot
  <1>4. Waiting' \subseteq Waiting /\ Evicting' = {}
    <2>1. push \in [Producers -> {"idle", "waiting", "notified", "evicting"}]
      BY DEF PipelineInv, QueueInv, QueueTypeOK
    <2> QED BY <2>1 DEF PopRecord, Pop, Signal, MutexFree, Waiting, Evicting
  <1>5. WriterTypeOK' /\ ClosedKnown' /\ DropsCovered'
    BY <1>1, <1>3, <1>4 DEF PipelineInv, WriterTypeOK, ClosedKnown, DropsCovered
  <1>6. HandsKnown'
    BY <1>1, <1>3 DEF PipelineInv, HandsKnown
  <1>7. Conservation'
    <2>1. InHand' = 1 /\ Evicted' = Evicted
      BY <1>1, <1>3 DEF InHand, Evicted
    <2>2. nextSeq = Len(out) + 0 + queued + Evicted
      BY <1>2 DEF PipelineInv, Conservation
    <2>3. nextSeq = Len(out) + 1 + (queued - 1) + Evicted
      BY <1>2, <2>2
    <2>4. stats.dropped = reported + summary.records + drops.records
      BY DEF PipelineInv, Conservation
    <2> QED BY <1>1, <2>1, <2>3, <2>4 DEF Conservation
  <1>8. OutputOld'
    <2> DEFINE oldest == nextSeq - queued
    <2>1. oldest \in Int /\ nextSeq' - queued' = oldest + 1
      BY <1>1, <1>2
    <2>2. \A i \in 1 .. Len(out) : out[i] < oldest /\ out[i] \in Nat
      BY <1>2 DEF PipelineInv, OutputOld
    <2> HIDE DEF oldest
    <2>3. \A i \in 1 .. Len(out) : out[i] < oldest + 1
      BY <2>1, <2>2
    <2>4. hand'.seq = oldest /\ oldest < oldest + 1
      BY <1>3, <2>1 DEF oldest
    <2> QED BY <1>1, <2>1, <2>2, <2>3, <2>4 DEF OutputOld
  <1>9. InOrder'
    BY <1>1 DEF PipelineInv, InOrder
  <1> QED BY <1>5, <1>6, <1>7, <1>8, <1>9 DEF WriterParts

LEMMA WriteStep ==
  ASSUME PipelineInv, WriteRecord
  PROVE  WriterParts'
  <1>1. /\ UNCHANGED <<overflow, nextSeq, queued, stats, drops, closed, wake, push>>
        /\ UNCHANGED <<open, summary, reported, onErrors>>
        /\ wpc = "write"
    BY DEF WriteRecord, queueVars
  <1>2. Waiting' = Waiting /\ Evicting' = Evicting /\ Evicted' = Evicted
    BY <1>1 DEF Waiting, Evicting, Evicted
  <1>3. hand.kind # "zero" /\ InHand = 1
    BY <1>1 DEF PipelineInv, HandsKnown, InHand
  <1>4. /\ out \in Seq(Nat) /\ hand.seq \in Nat /\ nextSeq \in Nat /\ queued \in Nat
        /\ Evicted \in Nat /\ Len(out) \in Nat /\ hand \in Record
    BY Numbers DEF PipelineInv, WriterTypeOK
  <1>5. CASE wpc' = "fail" /\ out' = out /\ hand' = hand
    <2>1. InHand' = InHand
      BY <1>5 DEF InHand
    <2>2. Conservation'
      BY <1>1, <1>2, <1>5, <2>1 DEF PipelineInv, Conservation
    <2>3. OutputOld' /\ InOrder'
      BY <1>1, <1>5 DEF PipelineInv, OutputOld, InOrder
    <2>4. WriterTypeOK' /\ ClosedKnown' /\ HandsKnown' /\ DropsCovered'
      BY <1>1, <1>2, <1>5 DEF PipelineInv, WriterTypeOK, ClosedKnown, HandsKnown, DropsCovered
    <2> QED BY <2>2, <2>3, <2>4 DEF WriterParts
  <1>6. CASE wpc' = "drops" /\ out' = Append(out, hand.seq) /\ hand' = ZeroRecord
    <2>1. hand'.kind = "zero" /\ hand' \in Record /\ InHand' = 0
      BY <1>6 DEF ZeroRecord, Record, InHand
    <2>2. /\ out' \in Seq(Nat) /\ Len(out') = Len(out) + 1 /\ out'[Len(out) + 1] = hand.seq
          /\ \A i \in 1 .. Len(out) : out'[i] = out[i]
      BY <1>4, <1>6
    <2>3. Conservation'
      <3>1. nextSeq = Len(out) + 1 + queued + Evicted
        BY <1>3 DEF PipelineInv, Conservation
      <3>2. nextSeq = Len(out') + 0 + queued + Evicted
        BY <1>4, <2>2, <3>1
      <3>3. stats.dropped = reported + summary.records + drops.records
        BY DEF PipelineInv, Conservation
      <3> QED BY <1>1, <1>2, <2>1, <3>2, <3>3 DEF Conservation
    <2>4. \A i \in 1 .. Len(out) : out[i] < hand.seq /\ out[i] < nextSeq - queued
      BY <1>3 DEF PipelineInv, OutputOld
    <2>5. hand.seq < nextSeq - queued
      BY <1>3 DEF PipelineInv, OutputOld
    <2>6. \A i \in 1 .. Len(out') : i = Len(out) + 1 \/ i \in 1 .. Len(out)
      BY <1>4, <2>2
    <2>7. OutputOld'
      <3>1. \A i \in 1 .. Len(out') : out'[i] < nextSeq - queued
        BY <2>2, <2>4, <2>5, <2>6
      <3> QED BY <3>1, <1>1, <2>1 DEF OutputOld
    <2>8. InOrder'
      <3> SUFFICES ASSUME NEW i \in 1 .. Len(out'), NEW j \in 1 .. Len(out'), i < j
                   PROVE  out'[i] < out'[j]
        BY DEF InOrder
      <3>1. i \in 1 .. Len(out)
        BY <1>4, <2>2
      <3>2. CASE j = Len(out) + 1
        BY <3>1, <3>2, <2>2, <2>4
      <3>3. CASE j \in 1 .. Len(out)
        BY <3>1, <3>3, <2>2 DEF PipelineInv, InOrder
      <3> QED BY <3>2, <3>3, <2>6
    <2>9. WriterTypeOK' /\ ClosedKnown' /\ HandsKnown' /\ DropsCovered'
      BY <1>1, <1>2, <1>6, <2>1, <2>2
         DEF PipelineInv, WriterTypeOK, ClosedKnown, HandsKnown, DropsCovered
    <2> QED BY <2>3, <2>7, <2>8, <2>9 DEF WriterParts
  <1> QED BY <1>5, <1>6 DEF WriteRecord

\* Closing the queue: by the closer of the input or by a failing writer.
LEMMA CloseEffect ==
  ASSUME PipelineInv, Close, overflow' = overflow
  PROVE  /\ UNCHANGED <<nextSeq, queued, stats, drops, wake>> /\ closed'
         /\ Waiting' = {} /\ Evicting' = {} /\ Evicting = {} /\ Evicted' = Evicted
  <1>1. /\ push \in [Producers -> {"idle", "waiting", "notified", "evicting"}]
        /\ closed => Waiting = {}
    BY DEF PipelineInv, QueueInv, QueueTypeOK, ClosedKnown
  <1>2. Waiting' = {} /\ Evicting' = {} /\ Evicting = {}
    BY <1>1 DEF Close, Broadcast, MutexFree, Waiting, Evicting
  <1> QED BY <1>2 DEF Close, Evicted

LEMMA CloseInputStep ==
  ASSUME PipelineInv, CloseInput
  PROVE  WriterParts'
  <1>1. /\ UNCHANGED <<nextSeq, queued, stats, drops, wake>> /\ closed'
        /\ Waiting' = {} /\ Evicting' = {} /\ Evicting = {} /\ Evicted' = Evicted
        /\ UNCHANGED <<wpc, open, hand, summary, out, reported, onErrors>>
    BY CloseEffect DEF CloseInput, writerVars
  <1>2. WriterTypeOK' /\ HandsKnown'
    BY <1>1 DEF PipelineInv, WriterTypeOK, HandsKnown
  <1>3. ClosedKnown' /\ DropsCovered'
    BY <1>1 DEF PipelineInv, ClosedKnown, DropsCovered
  <1>4. Conservation' /\ OutputOld' /\ InOrder'
    BY <1>1 DEF PipelineInv, Conservation, InHand, OutputOld, InOrder
  <1> QED BY <1>2, <1>3, <1>4 DEF WriterParts

LEMMA ReportStep ==
  ASSUME PipelineInv, ReportError
  PROVE  WriterParts'
  <1>1. /\ UNCHANGED <<overflow, nextSeq, queued, stats, drops, wake, closed, push>>
        /\ UNCHANGED <<open, hand, summary, out, reported>>
        /\ wpc = "fail" /\ wpc' = "abort" /\ onErrors' = onErrors + 1
    BY DEF ReportError, queueVars
  <1>2. onErrors = 0 /\ onErrors' = 1
    BY <1>1 DEF PipelineInv, HandsKnown
  <1>3. Waiting' = Waiting /\ Evicting' = Evicting
    BY <1>1 DEF Waiting, Evicting
  <1>4. WriterTypeOK' /\ ClosedKnown' /\ HandsKnown' /\ DropsCovered'
    BY <1>1, <1>2, <1>3 DEF PipelineInv, WriterTypeOK, ClosedKnown, HandsKnown, DropsCovered
  <1>5. Conservation' /\ OutputOld' /\ InOrder'
    BY <1>1 DEF PipelineInv, Conservation, InHand, Evicted, OutputOld, InOrder
  <1> QED BY <1>4, <1>5 DEF WriterParts

LEMMA AbortStep ==
  ASSUME PipelineInv, Abort
  PROVE  WriterParts'
  <1>1. /\ UNCHANGED <<nextSeq, queued, stats, drops, wake>> /\ closed'
        /\ Waiting' = {} /\ Evicting' = {} /\ Evicting = {} /\ Evicted' = Evicted
        /\ UNCHANGED <<open, hand, summary, out, reported, onErrors>>
        /\ wpc = "abort" /\ wpc' = "failed"
    BY CloseEffect DEF Abort
  <1>2. WriterTypeOK' /\ HandsKnown'
    BY <1>1 DEF PipelineInv, WriterTypeOK, HandsKnown
  <1>3. ClosedKnown' /\ DropsCovered'
    BY <1>1 DEF PipelineInv, ClosedKnown, DropsCovered
  <1>4. Conservation' /\ OutputOld' /\ InOrder'
    BY <1>1 DEF PipelineInv, Conservation, InHand, OutputOld, InOrder
  <1> QED BY <1>2, <1>3, <1>4 DEF WriterParts

\* Every step of the pipeline keeps its invariant.
LEMMA PipelineStep == PipelineInv /\ [Next]_vars => PipelineInv'
  <1> SUFFICES ASSUME PipelineInv, [Next]_vars PROVE PipelineInv'
    OBVIOUS
  <1>1. QueueInv' /\ NoStrandedProducer'
    <2>1. Sizes \subseteq 0 .. MaxBytes
      BY WriterAssumption
    <2> QED BY <2>1, StepsOfQueue, QueueStepInv, StrandedStep DEF PipelineInv
  <1>2. WriterParts'
    <2>2. ASSUME NEW p \in Producers, ProducerNext(p)
          PROVE  WriterParts'
      <3>1. closed => Waiting = {} /\ Evicting = {}
        BY DEF PipelineInv, ClosedKnown
      <3> QED BY <1>1, <2>2, <3>1, ProducerStepEffect, EnvironmentStep
              DEF ProducerNext, PipelineInv
    <2>3. CASE InternalNext
      <3>1. ProducerEffect
        BY <2>3, EnqueueEffect DEF InternalNext, PushInternal, PipelineInv
      <3> QED BY <1>1, <2>3, <3>1, EnvironmentStep DEF InternalNext
    <2>4. CASE CloseInput
      BY <2>4, CloseInputStep
    <2>5. CASE WriterStep
      BY <1>1, <2>5, ControlStep, WakeStep, EmitStep, SummaryStep, PopStep, WriteStep,
         ReportStep, AbortStep DEF WriterStep
    <2>6. CASE UNCHANGED vars
      <3>1. /\ UNCHANGED <<overflow, nextSeq, queued, stats, drops, wake, closed, push>>
            /\ UNCHANGED <<wpc, open, hand, summary, out, reported, onErrors>>
        BY <2>6 DEF vars, queueVars, writerVars
      <3>2. Waiting' = Waiting /\ Evicting' = Evicting
        BY <3>1 DEF Waiting, Evicting
      <3>3. WriterTypeOK' /\ ClosedKnown' /\ HandsKnown' /\ DropsCovered'
        BY <3>1, <3>2 DEF PipelineInv, WriterTypeOK, ClosedKnown, HandsKnown, DropsCovered
      <3>4. Conservation' /\ OutputOld' /\ InOrder'
        BY <3>1 DEF PipelineInv, Conservation, InHand, Evicted, OutputOld, InOrder
      <3> QED BY <3>3, <3>4 DEF WriterParts
    <2> QED BY <2>2, <2>3, <2>4, <2>5, <2>6 DEF Next
  <1> QED BY <1>1, <1>2 DEF PipelineInv, WriterParts

(***************************************************************************)
(* The inductive invariant holds of every reachable state.                 *)
(***************************************************************************)
THEOREM PipelineInvariant == Spec => []PipelineInv
  BY PipelineInit, PipelineStep, PTL DEF Spec
----------------------------------------------------------------------------
(***************************************************************************)
(* The pipeline's state is well typed.                                     *)
(***************************************************************************)
THEOREM TypeCorrect == Spec => []TypeOK
  <1>1. PipelineInv => TypeOK
    BY DEF PipelineInv, QueueInv, TypeOK
  <1> QED BY <1>1, PipelineInvariant, PTL

(***************************************************************************)
(* One wake token suffices: back in its select the writer never sleeps on  *)
(* queued records or on drops nobody has reported.                         *)
(***************************************************************************)
THEOREM WakeupsSuffice == Spec => []NoLostWakeup
  <1>1. PipelineInv => NoLostWakeup
    BY Numbers DEF PipelineInv, DropsCovered, NoLostWakeup
  <1> QED BY <1>1, PipelineInvariant, PTL

(***************************************************************************)
(* No record and no loss goes unaccounted for, and the order is kept.      *)
(***************************************************************************)
THEOREM RecordsConserved == Spec => [](Conservation /\ InOrder)
  <1>1. PipelineInv => Conservation /\ InOrder
    BY DEF PipelineInv
  <1> QED BY <1>1, PipelineInvariant, PTL

(***************************************************************************)
(* No producer is left blocked: while the pipeline runs a signal is due,   *)
(* and after a failure of the sink the queue is closed and nobody waits.   *)
(***************************************************************************)
THEOREM ProducersReleased == Spec => [](NoStrandedProducer /\ FailureReleasesProducers)
  <1>1. PipelineInv => NoStrandedProducer /\ FailureReleasesProducers
    BY DEF PipelineInv, ClosedKnown, HandsKnown, FailureReleasesProducers
  <1> QED BY <1>1, PipelineInvariant, PTL

(***************************************************************************)
(* A writer that returns without an error has emptied a closed queue and   *)
(* reported every loss.                                                    *)
(***************************************************************************)
THEOREM FinishIsClean == Spec => []CleanFinish
  <1>1. PipelineInv => CleanFinish
    <2> SUFFICES ASSUME PipelineInv, wpc = "done"
                 PROVE  closed /\ queued = 0 /\ stats.dropped = reported
      BY DEF CleanFinish
    <2>1. closed /\ queued = 0 /\ Evicting = {}
      BY DEF PipelineInv, ClosedKnown
    <2>2. drops.records = 0 /\ summary.records = 0
      BY <2>1, Numbers DEF PipelineInv, DropsCovered, HandsKnown
    <2>3. stats.dropped = reported
      BY <2>2, Numbers DEF PipelineInv, Conservation
    <2> QED BY <2>1, <2>3
  <1> QED BY <1>1, PipelineInvariant, PTL
----------------------------------------------------------------------------
(***************************************************************************)
(* The queue implements BoundedFifo.                                       *)
(***************************************************************************)
Item == [seq : Nat, size : Nat, kind : {"line", "internal"}]

\* Read from its oldest slot on, the ring is a sequence, numbered without a gap.
LEMMA ContentsShape ==
  ASSUME Ring
  PROVE  /\ Contents \in Seq(Item) /\ Len(Contents) = queued /\ DOMAIN Contents = 1 .. queued
         /\ \A i \in 1 .. queued :
              LET r == records[Slot(i - 1)]
              IN  /\ Contents[i] = [seq |-> r.seq, size |-> r.size, kind |-> r.kind]
                  /\ Contents[i].seq = nextSeq - queued + (i - 1)
         /\ queued > 0 => Contents[1].size = records[head].size
  <1> USE QueueAssumption
  <1>1. /\ queued \in 0 .. MaxRecords /\ nextSeq \in Nat /\ head \in Slots
        /\ records \in [Slots -> Record]
    BY DEF Ring, RingTypeOK
  <1>2. ASSUME NEW i \in 1 .. queued
        PROVE  LET r == records[Slot(i - 1)]
               IN  /\ Contents[i] = [seq |-> r.seq, size |-> r.size, kind |-> r.kind]
                   /\ Contents[i].seq = nextSeq - queued + (i - 1)
                   /\ Contents[i] \in Item
    <2> DEFINE r == records[Slot(i - 1)]
    <2>1. i - 1 \in Slots /\ i - 1 < queued
      BY <1>1 DEF Slots
    <2>2. (head + (i - 1)) % MaxRecords \in Slots
      BY <1>1, <2>1, SlotType DEF Slots
    <2>3. r \in Record /\ r.seq = nextSeq - queued + (i - 1) /\ r.kind # "zero"
      BY <1>1, <2>1, <2>2 DEF Ring, RingOrder, Slot
    <2>4. Contents[i] = [seq |-> r.seq, size |-> r.size, kind |-> r.kind]
      BY DEF Contents
    <2> HIDE DEF r
    <2>5. Contents[i].seq = r.seq /\ Contents[i] \in Item
      BY <2>3, <2>4 DEF Record, Item
    <2> QED BY <2>3, <2>4, <2>5 DEF r
  <1>3. DOMAIN Contents = 1 .. queued /\ Contents = [i \in 1 .. queued |-> Contents[i]]
    BY DEF Contents
  <1>4. Contents \in [1 .. queued -> Item]
    BY <1>2, <1>3
  <1>5. Contents \in Seq(Item) /\ Len(Contents) = queued
    <2> HIDE DEF Contents
    <2> QED BY <1>1, <1>4, LenProperties
  <1>6. queued > 0 => Contents[1].size = records[head].size
    <2> SUFFICES ASSUME queued > 0 PROVE Contents[1].size = records[head].size
      OBVIOUS
    <2>1. PICK one \in 1 .. queued : one = 1
      BY <1>1
    <2>2. one - 1 = 0
      BY <2>1
    <2>3. Slot(one - 1) = head
      BY <1>1, <2>2 DEF Slot, Slots
    <2>4. \E r : r = records[Slot(one - 1)]
               /\ Contents[one] = [seq |-> r.seq, size |-> r.size, kind |-> r.kind]
      BY <1>2
    <2>5. Contents[one].size = records[head].size
      <3> HIDE DEF Contents, Slot
      <3> QED BY <2>3, <2>4
    <2> QED BY <2>1, <2>5
  <1> QED BY <1>2, <1>3, <1>5, <1>6

LEMMA EnqueueContents ==
  ASSUME Ring, NEW kind \in {"line", "internal"}, NEW size \in Nat, HasCapacity(size),
         Enqueue(kind, size)
  PROVE  Contents' = Append(Contents, [seq |-> nextSeq, size |-> size, kind |-> kind])
  <1> DEFINE new == [seq |-> nextSeq, size |-> size, kind |-> kind]
             old == Contents
  <1> USE QueueAssumption
  <1>1. /\ queued \in Nat /\ queued < MaxRecords /\ queued' = queued + 1 /\ nextSeq \in Nat
    BY DEF Ring, RingTypeOK, HasCapacity, Enqueue
  <1>2. /\ old \in Seq(Item) /\ Len(old) = queued /\ DOMAIN old = 1 .. queued
        /\ \A i \in 1 .. queued :
             LET r == records[Slot(i - 1)]
             IN  old[i] = [seq |-> r.seq, size |-> r.size, kind |-> r.kind]
    BY ContentsShape
  <1>3. \A i \in Slots : records'[Slot(i)'] =
          IF i = queued THEN [seq |-> nextSeq, size |-> size, kind |-> kind,
                              off |-> stats.acceptedBytes]
                        ELSE records[Slot(i)]
    BY EnqueueSlots DEF Ring
  <1>4. Contents' = [i \in 1 .. queued + 1 |->
                       LET r == records'[Slot(i - 1)']
                       IN  [seq |-> r.seq, size |-> r.size, kind |-> r.kind]]
    BY <1>1 DEF Contents
  <1>5. new \in Item
    BY <1>1 DEF Item
  <1> HIDE DEF old, new
  <1>6. /\ Append(old, new) \in Seq(Item) /\ Len(Append(old, new)) = queued + 1
        /\ \A i \in 1 .. queued : Append(old, new)[i] = old[i]
        /\ Append(old, new)[queued + 1] = new
    <2>1. old \in Seq(Item) /\ new \in Item
      BY <1>2, <1>5
    <2>2. /\ Append(old, new) \in Seq(Item) /\ Len(Append(old, new)) = Len(old) + 1
          /\ \A i \in 1 .. Len(old) : Append(old, new)[i] = old[i]
          /\ Append(old, new)[Len(old) + 1] = new
      BY ONLY <2>1, AppendProperties
    <2> QED BY <1>2, <2>2
  <1>7. DOMAIN Append(old, new) = 1 .. queued + 1
    BY <1>6, LenProperties
  <1>8. \A i \in 1 .. queued + 1 :
          LET r == records'[Slot(i - 1)']
          IN  Append(old, new)[i] = [seq |-> r.seq, size |-> r.size, kind |-> r.kind]
    <2> SUFFICES ASSUME NEW i \in 1 .. queued + 1
                 PROVE  LET r == records'[Slot(i - 1)']
                        IN  Append(old, new)[i] = [seq |-> r.seq, size |-> r.size, kind |-> r.kind]
      OBVIOUS
    <2>1. i - 1 \in Slots
      BY <1>1 DEF Slots
    <2>2. CASE i = queued + 1
      <3>1. i - 1 = queued
        BY <1>1, <2>2
      <3> QED BY <1>3, <1>6, <2>1, <2>2, <3>1 DEF new
    <2>3. CASE i # queued + 1
      <3>1. i \in 1 .. queued /\ i - 1 # queued
        BY <1>1, <2>3
      <3> QED BY <1>2, <1>3, <1>6, <2>1, <3>1
    <2> QED BY <2>2, <2>3
  <1>9. \E f \in Seq(Item) : f = Append(old, new)
    BY <1>6
  <1>10. PICK f \in Seq(Item) : f = Append(old, new)
    BY <1>9
  <1>11. f = [i \in 1 .. queued + 1 |-> f[i]]
    BY <1>7, <1>10, LenProperties
  <1>12. Contents' = f
    BY <1>4, <1>8, <1>10, <1>11
  <1> QED BY <1>10, <1>12 DEF old, new

LEMMA DequeueContents ==
  ASSUME Ring, queued > 0, Dequeue
  PROVE  Contents # << >> /\ Contents' = Tail(Contents)
  <1> DEFINE old == Contents
  <1> USE QueueAssumption
  <1>1. queued \in Nat /\ queued =< MaxRecords /\ queued' = queued - 1
    BY DEF Ring, RingTypeOK, Dequeue
  <1>2. /\ old \in Seq(Item) /\ Len(old) = queued /\ DOMAIN old = 1 .. queued
        /\ \A i \in 1 .. queued :
             LET r == records[Slot(i - 1)]
             IN  old[i] = [seq |-> r.seq, size |-> r.size, kind |-> r.kind]
    BY ContentsShape
  <1>3. \A i \in Slots : records'[Slot(i)'] =
          IF i = MaxRecords - 1 THEN ZeroRecord ELSE records[Slot(i + 1)]
    BY DequeueSlots DEF Ring
  <1>4. Contents' = [i \in 1 .. queued - 1 |->
                       LET r == records'[Slot(i - 1)']
                       IN  [seq |-> r.seq, size |-> r.size, kind |-> r.kind]]
    BY <1>1 DEF Contents
  <1> HIDE DEF old
  <1>5. old # << >>
    BY <1>1, <1>2, EmptySeq
  <1>6. PICK f \in Seq(Item) : f = Tail(old)
    BY <1>2, <1>5, HeadTailProperties
  <1>7. Len(f) = queued - 1 /\ \A i \in 1 .. queued - 1 : f[i] = old[i + 1]
    BY <1>2, <1>5, <1>6, HeadTailProperties
  <1>8. f = [i \in 1 .. queued - 1 |-> f[i]]
    BY <1>7, LenProperties
  <1>9. \A i \in 1 .. queued - 1 :
          LET r == records'[Slot(i - 1)']
          IN  f[i] = [seq |-> r.seq, size |-> r.size, kind |-> r.kind]
    <2> SUFFICES ASSUME NEW i \in 1 .. queued - 1
                 PROVE  LET r == records'[Slot(i - 1)']
                        IN  f[i] = [seq |-> r.seq, size |-> r.size, kind |-> r.kind]
      OBVIOUS
    <2>1. i - 1 \in Slots /\ i - 1 # MaxRecords - 1 /\ i + 1 \in 1 .. queued
          /\ (i - 1) + 1 = i /\ (i + 1) - 1 = i
      BY <1>1 DEF Slots
    <2>2. records'[Slot(i - 1)'] = records[Slot(i)]
      BY <1>3, <2>1
    <2>3. LET r == records[Slot(i)]
          IN  old[i + 1] = [seq |-> r.seq, size |-> r.size, kind |-> r.kind]
      BY <1>2, <2>1
    <2> QED BY <1>7, <2>2, <2>3
  <1>10. Contents' = f
    BY <1>4, <1>8, <1>9
  <1> QED BY <1>5, <1>6, <1>10 DEF old

\* The bytes of one record.
LEMMA CellSize ==
  ASSUME NEW q \in Nat, NEW n \in Nat
  PROVE  IsFiniteSet({q} \X (1 .. n)) /\ Cardinality({q} \X (1 .. n)) = n
  <1>1. IsFiniteSet({q}) /\ Cardinality({q}) = 1
    BY FS_Singleton
  <1>2. PICK one \in Int : one = 1
    OBVIOUS
  <1>3. /\ IsFiniteSet(one .. n)
        /\ Cardinality(one .. n) = IF one > n THEN 0 ELSE n - one + 1
    BY <1>2, FS_Interval
  <1>4. IsFiniteSet(1 .. n) /\ Cardinality(1 .. n) = n
    BY <1>2, <1>3
  <1>5. PICK S : S = {q}
    OBVIOUS
  <1>6. PICK T : T = 1 .. n
    OBVIOUS
  <1>7. /\ IsFiniteSet(S) /\ IsFiniteSet(T)
        /\ Cardinality(S) = 1 /\ Cardinality(T) = n
    BY <1>1, <1>4, <1>5, <1>6
  <1>8. IsFiniteSet(S \X T) /\ Cardinality(S \X T) = Cardinality(S) * Cardinality(T)
    BY ONLY <1>7, FS_Product
  <1>9. Cardinality(S) * Cardinality(T) = n
    BY <1>7
  <1> QED BY <1>5, <1>6, <1>8, <1>9

\* A record joins with its own bytes, and the oldest leaves with its own.
LEMMA AppendStored ==
  ASSUME NEW s \in Seq(Item), NEW r \in Item, IsFiniteSet(Fifo!Stored(s)),
         \A i \in DOMAIN s : s[i].seq # r.seq
  PROVE  /\ IsFiniteSet(Fifo!Stored(Append(s, r)))
         /\ Fifo!Bytes(Append(s, r)) = Fifo!Bytes(s) + r.size
  <1> DEFINE cell == {r.seq} \X (1 .. r.size)
             old == Fifo!Stored(s)
             new == Fifo!Stored(Append(s, r))
  <1>1. r.size \in Nat /\ Len(s) \in Nat /\ DOMAIN s = 1 .. Len(s)
    BY LenProperties DEF Item
  <1>2. IsFiniteSet(cell) /\ Cardinality(cell) = r.size
    BY <1>1, CellSize DEF Item
  <1>3. PICK f \in Seq(Item) : f = Append(s, r)
    BY AppendProperties
  <1>4. /\ Len(f) = Len(s) + 1 /\ f[Len(s) + 1] = r
        /\ \A i \in 1 .. Len(s) : f[i] = s[i]
    BY <1>3, AppendProperties
  <1>5. DOMAIN f = DOMAIN s \cup {Len(s) + 1}
    BY <1>1, <1>4, LenProperties
  <1>6. Fifo!Stored(f) = old \cup cell
    <2>1. \A i \in DOMAIN s : f[i] = s[i]
      BY <1>1, <1>4
    <2> QED BY <1>4, <1>5, <2>1 DEF Fifo!Stored
  <1>7. old \cap cell = {}
    BY DEF Fifo!Stored
  <1> HIDE DEF cell, old, new
  <1>8. /\ IsFiniteSet(old \cup cell)
        /\ Cardinality(old \cup cell) =
             Cardinality(old) + Cardinality(cell) - Cardinality(old \cap cell)
    <2>1. IsFiniteSet(old)
      BY DEF old
    <2> QED BY <1>2, <2>1, FS_Union
  <1>9. Cardinality(old \cap cell) = 0 /\ Cardinality(old) \in Nat
    <2>1. IsFiniteSet(old)
      BY DEF old
    <2> QED BY <1>7, <2>1, FS_EmptySet, FS_CardinalityType
  <1>10. Cardinality(old \cup cell) = Cardinality(old) + r.size
    BY <1>1, <1>2, <1>8, <1>9
  <1>11. new = old \cup cell
    BY <1>3, <1>6 DEF new
  <1>12. Fifo!Bytes(s) = Cardinality(old) /\ Fifo!Bytes(Append(s, r)) = Cardinality(new)
    BY DEF Fifo!Bytes, Fifo!Cardinality, Cardinality, old, new
  <1>13. IsFiniteSet(new) /\ Cardinality(new) = Cardinality(old) + r.size
    BY <1>8, <1>10, <1>11
  <1> QED BY <1>12, <1>13 DEF new

LEMMA TailStored ==
  ASSUME NEW s \in Seq(Item), s # << >>, IsFiniteSet(Fifo!Stored(s)),
         \A i \in DOMAIN s : i # 1 => s[i].seq # s[1].seq
  PROVE  /\ IsFiniteSet(Fifo!Stored(Tail(s)))
         /\ Fifo!Bytes(Tail(s)) = Fifo!Bytes(s) - s[1].size
  <1> DEFINE cell == {s[1].seq} \X (1 .. s[1].size)
             old == Fifo!Stored(s)
             new == Fifo!Stored(Tail(s))
  <1>1. /\ Len(s) \in Nat /\ Len(s) > 0 /\ DOMAIN s = 1 .. Len(s) /\ s[1] \in Item
    BY EmptySeq, LenProperties, ElementOfSeq
  <1>2. PICK f \in Seq(Item) : f = Tail(s)
    BY HeadTailProperties
  <1>3. Len(f) = Len(s) - 1 /\ \A i \in 1 .. Len(f) : f[i] = s[i + 1]
    BY <1>2, HeadTailProperties
  <1>4. DOMAIN f = 1 .. Len(s) - 1
    BY <1>3, LenProperties
  <1>5. Fifo!Stored(f) = UNION {{s[i].seq} \X (1 .. s[i].size) : i \in 2 .. Len(s)}
    <2>1. \A i \in 2 .. Len(s) : i - 1 \in DOMAIN f /\ f[i - 1] = s[i]
      BY <1>1, <1>3, <1>4
    <2>2. \A j \in DOMAIN f : j + 1 \in 2 .. Len(s) /\ f[j] = s[j + 1]
      BY <1>1, <1>3, <1>4
    <2>3. ASSUME NEW x \in Fifo!Stored(f)
          PROVE  x \in UNION {{s[i].seq} \X (1 .. s[i].size) : i \in 2 .. Len(s)}
      <3>1. PICK j \in DOMAIN f : x \in {f[j].seq} \X (1 .. f[j].size)
        BY DEF Fifo!Stored
      <3>2. PICK i \in 2 .. Len(s) : f[j] = s[i]
        BY <2>2
      <3> QED BY <3>1, <3>2
    <2>4. ASSUME NEW x \in UNION {{s[i].seq} \X (1 .. s[i].size) : i \in 2 .. Len(s)}
          PROVE  x \in Fifo!Stored(f)
      <3>1. PICK i \in 2 .. Len(s) : x \in {s[i].seq} \X (1 .. s[i].size)
        OBVIOUS
      <3>2. PICK j \in DOMAIN f : f[j] = s[i]
        BY <2>1
      <3> QED BY <3>1, <3>2 DEF Fifo!Stored
    <2> QED BY <2>3, <2>4
  <1>6. 1 .. Len(s) = {1} \cup (2 .. Len(s))
    BY <1>1
  <1>7. old = Fifo!Stored(f) \cup cell
    BY <1>1, <1>5, <1>6 DEF Fifo!Stored
  <1>8. Fifo!Stored(f) \cap cell = {}
    <2>1. \A i \in 2 .. Len(s) : s[i].seq # s[1].seq
      BY <1>1
    <2> QED BY <1>5, <2>1
  <1>9. IsFiniteSet(cell) /\ Cardinality(cell) = s[1].size
    BY <1>1, CellSize DEF Item
  <1>10. new = Fifo!Stored(f)
    BY <1>2
  <1> HIDE DEF cell, old, new
  <1>11. IsFiniteSet(old) /\ new \in SUBSET old /\ new \cap cell = {} /\ old = new \cup cell
    BY <1>7, <1>8, <1>10 DEF old
  <1>12. IsFiniteSet(new)
    BY <1>11, FS_Subset
  <1>13. Cardinality(old) = Cardinality(new) + Cardinality(cell) - Cardinality(new \cap cell)
    BY <1>9, <1>11, <1>12, FS_Union
  <1>14. Cardinality(new \cap cell) = 0 /\ Cardinality(new) \in Nat
    BY <1>11, <1>12, FS_EmptySet, FS_CardinalityType
  <1>15. Cardinality(new) = Cardinality(old) - s[1].size
    BY <1>1, <1>9, <1>13, <1>14 DEF Item
  <1>16. Fifo!Bytes(s) = Cardinality(old) /\ Fifo!Bytes(Tail(s)) = Cardinality(new)
    BY DEF Fifo!Bytes, Fifo!Cardinality, Cardinality, old, new
  <1> QED BY <1>12, <1>15, <1>16 DEF new

\* What is stored is as long as queuedByte says, so a record fits the one
\* queue exactly when it fits the other.
BytesKnown == IsFiniteSet(Fifo!Stored(Contents)) /\ Fifo!Bytes(Contents) = queuedByte

LEMMA FitsAlike ==
  ASSUME Ring, BytesKnown, NEW size
  PROVE  Fifo!Fits(size) <=> HasCapacity(size)
  <1>1. Len(Contents) = queued
    BY ContentsShape
  <1> QED BY <1>1 DEF BytesKnown, Fifo!Fits, HasCapacity

LEMMA EnqueueAccepts ==
  ASSUME Ring, BytesKnown, NEW kind \in {"line", "internal"}, NEW size \in Nat,
         kind = "line" => size \in Sizes, kind = "internal" => size = 0,
         ~closed, HasCapacity(size), Enqueue(kind, size)
  PROVE  BytesKnown' /\ Fifo!Accept
  <1> DEFINE new == [seq |-> nextSeq, size |-> size, kind |-> kind]
  <1>1. Contents' = Append(Contents, new)
    BY EnqueueContents
  <1>2. BytesKnown'
    <2>1. PICK s \in Seq(Item) : s = Contents
      BY ContentsShape
    <2>2. new \in Item
      BY DEF Ring, RingTypeOK, Item
    <2>3. \A i \in DOMAIN s : s[i].seq # new.seq
      <3>1. \A i \in 1 .. queued : Contents[i].seq = nextSeq - queued + (i - 1)
        BY ContentsShape
      <3>2. DOMAIN s = 1 .. queued /\ queued \in Nat /\ nextSeq \in Nat
        BY <2>1, ContentsShape DEF Ring, RingTypeOK
      <3> QED BY <2>1, <3>1, <3>2
    <2>4. IsFiniteSet(Fifo!Stored(s)) /\ Fifo!Bytes(s) = queuedByte
      BY <2>1 DEF BytesKnown
    <2> HIDE DEF new
    <2>5. /\ IsFiniteSet(Fifo!Stored(Append(s, new)))
          /\ Fifo!Bytes(Append(s, new)) = Fifo!Bytes(s) + new.size
      BY <2>2, <2>3, <2>4, AppendStored
    <2>6. queuedByte' = Fifo!Bytes(s) + new.size
      BY <2>4 DEF Enqueue, new
    <2>7. Append(s, new) = Contents'
      BY <1>1, <2>1
    <2>8. IsFiniteSet(Fifo!Stored(Contents')) /\ Fifo!Bytes(Contents') = queuedByte'
      BY <2>5, <2>6, <2>7
    <2> QED BY <2>8 DEF BytesKnown
  <1>3. Fifo!Accept
    <2>1. Fifo!Fits(size)
      BY FitsAlike
    <2>2. new \in [seq : {nextSeq}, size : Sizes, kind : {"line"}]
                  \cup [seq : {nextSeq}, size : {0}, kind : {"internal"}]
      OBVIOUS
    <2>3. nextSeq' = nextSeq + 1 /\ stats'.dropped = stats.dropped /\ closed' = closed
      BY DEF Enqueue
    <2>4. new.size = size
      OBVIOUS
    <2> HIDE DEF new
    <2> QED BY <1>1, <2>1, <2>2, <2>3, <2>4 DEF Fifo!Accept
  <1> QED BY <1>2, <1>3

LEMMA DequeueRemoves ==
  ASSUME Ring, BytesKnown, queued > 0, Dequeue
  PROVE  BytesKnown' /\ Contents # << >> /\ Contents' = Tail(Contents)
  <1>1. Contents # << >> /\ Contents' = Tail(Contents)
    BY DequeueContents
  <1>2. PICK s \in Seq(Item) : s = Contents
    BY ContentsShape
  <1>3. \A i \in DOMAIN s : i # 1 => s[i].seq # s[1].seq
    <2>1. \A i \in 1 .. queued : s[i].seq = nextSeq - queued + (i - 1)
      BY <1>2, ContentsShape
    <2>2. DOMAIN s = 1 .. queued /\ queued \in Nat /\ nextSeq \in Nat
      BY <1>2, ContentsShape DEF Ring, RingTypeOK
    <2>3. PICK one \in 1 .. queued : one = 1
      BY <2>2
    <2>4. s[1].seq = nextSeq - queued
      BY <2>1, <2>2, <2>3
    <2> QED BY <2>1, <2>2, <2>4
  <1>4. IsFiniteSet(Fifo!Stored(s)) /\ Fifo!Bytes(s) = queuedByte
    BY <1>2 DEF BytesKnown
  <1>5. /\ IsFiniteSet(Fifo!Stored(Tail(s)))
        /\ Fifo!Bytes(Tail(s)) = Fifo!Bytes(s) - s[1].size
    BY <1>1, <1>2, <1>3, <1>4, TailStored
  <1>6. queuedByte' = Fifo!Bytes(s) - s[1].size
    BY <1>2, <1>4, ContentsShape DEF Dequeue
  <1>7. Tail(s) = Contents'
    BY <1>1, <1>2
  <1>8. IsFiniteSet(Fifo!Stored(Contents')) /\ Fifo!Bytes(Contents') = queuedByte'
    BY <1>5, <1>6, <1>7
  <1> QED BY <1>1, <1>8 DEF BytesKnown

\* A step that leaves the ring alone stores the same records.
LEMMA RingKept ==
  ASSUME BytesKnown, UNCHANGED <<records, head, queued, queuedByte>>
  PROVE  BytesKnown' /\ Contents' = Contents
  <1>1. Contents' = Contents
    BY DEF Contents, Slot
  <1>2. IsFiniteSet(Fifo!Stored(Contents')) /\ Fifo!Bytes(Contents') = queuedByte'
    BY <1>1 DEF BytesKnown
  <1> QED BY <1>1, <1>2 DEF BytesKnown

\* Every step of the queue is a step of BoundedFifo or changes nothing of it.
LEMMA FifoStep ==
  ASSUME QueueInv, closed => Evicting = {}, BytesKnown, [QueueNext]_queueVars
  PROVE  BytesKnown' /\ [Fifo!FifoNext]_Fifo!fifoVars
  <1> DEFINE Maps == BytesKnown' /\ (Fifo!FifoNext \/ UNCHANGED Fifo!fifoVars)
  <1> USE QueueAssumption
  <1>0. Ring
    BY DEF QueueInv, QueueTypeOK, Ring
  <1>k. ASSUME UNCHANGED <<records, head, queued, queuedByte>>
        PROVE  BytesKnown' /\ Contents' = Contents
    BY <1>k, RingKept
  <1>s. ASSUME UNCHANGED <<overflow, records, head, queued, queuedByte, nextSeq, closed>>,
               stats'.dropped = stats.dropped
        PROVE  Maps
    BY <1>k, <1>s DEF Fifo!fifoVars
  <1>e. ASSUME NEW kind \in {"line", "internal"}, NEW size \in Nat,
               kind = "line" => size \in Sizes, kind = "internal" => size = 0,
               ~closed, HasCapacity(size), Enqueue(kind, size), UNCHANGED overflow
        PROVE  Maps
    BY <1>0, <1>e, EnqueueAccepts DEF Fifo!FifoNext
  <1>f. \A size : Fifo!Fits(size) <=> HasCapacity(size)
    BY <1>0, FitsAlike
  <1>1. ASSUME NEW p \in Producers, NEW size \in Sizes, PushAccept(p, size), UNCHANGED overflow
        PROVE  Maps
    BY <1>1, <1>e DEF PushAccept
  <1>2. ASSUME NEW p \in Producers, NEW size, UNCHANGED overflow,
               PushWait(p, size) \/ PushDropOldest(p, size) \/ PushRefused(p)
        PROVE  Maps
    BY <1>2, <1>s DEF PushWait, PushDropOldest, PushRefused
  <1>3. ASSUME NEW p \in Producers, NEW size \in Sizes, PushDropIncoming(p, size),
               UNCHANGED overflow
        PROVE  Maps
    <2>1. BytesKnown' /\ Contents' = Contents
      BY <1>3, <1>k DEF PushDropIncoming
    <2>2. ~closed /\ ~Fifo!Fits(size) /\ UNCHANGED <<nextSeq, closed>>
          /\ (overflow = "drop-newest" \/ (overflow = "drop-oldest" /\ size > MaxBytes))
      BY <1>3, <1>f DEF PushDropIncoming
    <2>3. stats'.dropped = stats.dropped + 1
      BY <1>3 DEF PushDropIncoming, CountDrop
    <2>4. Fifo!Reject
      BY <2>1, <2>2, <2>3 DEF Fifo!Reject
    <2> QED BY <1>3, <2>1, <2>4 DEF Fifo!FifoNext
  <1>4. ASSUME NEW p \in Producers, Evict(p), UNCHANGED overflow
        PROVE  Maps
    <2>1. BytesKnown' /\ Contents # << >> /\ Contents' = Tail(Contents)
      BY <1>0, <1>4, DequeueRemoves DEF Evict
    <2>2. /\ overflow = "drop-oldest" /\ ~closed
          /\ pushSize[p] \in Sizes /\ pushSize[p] =< MaxBytes
      BY <1>4 DEF Evict, Evicting, QueueInv, QueueTypeOK, CallsMatchPolicy
    <2>3. ~Fifo!Fits(pushSize[p]) /\ UNCHANGED <<nextSeq, closed>>
      BY <1>4, <1>f DEF Evict
    <2>4. stats'.dropped = stats.dropped + 1
      BY <1>4 DEF Evict, CountDrop
    <2>5. Fifo!EvictOldest
      BY <2>1, <2>2, <2>3, <2>4 DEF Fifo!EvictOldest
    <2> QED BY <1>4, <2>1, <2>5 DEF Fifo!FifoNext
  <1>5. ASSUME NEW p \in Producers, EvictDone(p), UNCHANGED overflow
        PROVE  Maps
    <2>1. ~closed /\ pushSize[p] \in Sizes /\ pushSize[p] \in Nat /\ pushSize[p] =< MaxBytes
      BY <1>5 DEF EvictDone, Evicting, QueueInv, QueueTypeOK, CallsMatchPolicy
    <2>2. HasCapacity(pushSize[p])
      BY <1>5, <2>1, EmptyHasRoom DEF EvictDone
    <2>3. Enqueue("line", pushSize[p])
      BY <1>5, <2>2 DEF EvictDone
    <2> QED BY <1>5, <1>e, <2>1, <2>2, <2>3
  <1>6. ASSUME PushInternal, UNCHANGED overflow
        PROVE  Maps
    <2>1. PICK none \in Nat : none = 0
      OBVIOUS
    <2>2. ~closed /\ HasCapacity(none) /\ Enqueue("internal", none)
      BY <1>6, <2>1 DEF PushInternal
    <2> QED BY <1>6, <1>e, <2>1, <2>2
  <1>7. ASSUME Pop, UNCHANGED overflow
        PROVE  Maps
    <2>1. BytesKnown' /\ Contents # << >> /\ Contents' = Tail(Contents)
      BY <1>0, <1>7, DequeueRemoves DEF Pop
    <2>2. UNCHANGED <<nextSeq, closed, stats>>
      BY <1>7 DEF Pop
    <2> QED BY <1>7, <2>1, <2>2 DEF Fifo!FifoNext, Fifo!Remove
  <1>8. ASSUME TakeDrops \/ ReceiveWake, UNCHANGED overflow
        PROVE  Maps
    BY <1>8, <1>s DEF TakeDrops, ReceiveWake
  <1>9. ASSUME Close, UNCHANGED overflow
        PROVE  Maps
    <2>1. BytesKnown' /\ Contents' = Contents
      BY <1>9, <1>k DEF Close
    <2>2. UNCHANGED <<nextSeq, stats>> /\ closed' = TRUE
      BY <1>9 DEF Close
    <2>3. CASE closed
      <3>1. closed' = closed
        BY <2>2, <2>3, <1>0 DEF Ring, RingTypeOK
      <3> QED BY <1>9, <2>1, <2>2, <3>1 DEF Fifo!fifoVars
    <2>4. CASE ~closed
      BY <1>9, <2>1, <2>2, <2>4 DEF Fifo!FifoNext, Fifo!Shut
    <2> QED BY <2>3, <2>4
  <1>10. ASSUME UNCHANGED queueVars
         PROVE  Maps
    BY <1>10, <1>s DEF queueVars
  <1> HIDE DEF Maps
  <1>11. ASSUME QueueNext
         PROVE  Maps
    <2>1. UNCHANGED overflow
      BY <1>11 DEF QueueNext
    <2>2. ASSUME NEW p \in Producers, ProducerStep(p)
          PROVE  Maps
      <3>1. ASSUME NEW size \in Sizes,
                   \/ PushAccept(p, size) \/ PushWait(p, size)
                   \/ PushDropIncoming(p, size) \/ PushDropOldest(p, size)
            PROVE  Maps
        BY <1>1, <1>2, <1>3, <2>1, <3>1
      <3>2. CASE PushRefused(p) \/ Evict(p) \/ EvictDone(p)
        BY <1>2, <1>4, <1>5, <2>1, <3>2
      <3> QED BY <2>2, <3>1, <3>2 DEF ProducerStep
    <2> QED BY <1>6, <1>7, <1>8, <1>9, <1>11, <2>1, <2>2 DEF QueueNext
  <1>12. Maps
    BY <1>10, <1>11
  <1> QED BY <1>12 DEF Maps

(***************************************************************************)
(* Inside the pipeline the queue implements BoundedFifo for every number   *)
(* of producers, both limits and every line length: records leave in the   *)
(* order they came, both bounds hold of what is stored, drop-oldest evicts *)
(* no more than the incoming line needs and never loses that line, and     *)
(* each loss is counted once.                                              *)
(***************************************************************************)
THEOREM QueueImplemented == Spec => ImplementsBoundedFifo
  <1>1. Init => BytesKnown /\ Fifo!FifoInit
    <2> SUFFICES ASSUME Init PROVE BytesKnown /\ Fifo!FifoInit
      OBVIOUS
    <2>1. queued = 0 /\ queuedByte = 0 /\ nextSeq = 0 /\ closed = FALSE /\ stats.dropped = 0
          /\ overflow \in {"block", "drop-oldest", "drop-newest"}
      BY DEF Init, QueueInit, Policies
    <2>2. Contents = << >>
      <3>1. Contents \in Seq(Item) /\ Len(Contents) = queued
        BY PipelineInit, ContentsShape DEF PipelineInv, QueueInv, QueueTypeOK, Ring
      <3> QED BY <2>1, <3>1, EmptySeq
    <2>3. Fifo!Stored(Contents) = {}
      BY <2>2 DEF Fifo!Stored
    <2>4. IsFiniteSet(Fifo!Stored(Contents)) /\ Cardinality(Fifo!Stored(Contents)) = 0
      BY <2>3, FS_EmptySet
    <2>5. Fifo!Bytes(Contents) = Cardinality(Fifo!Stored(Contents))
      BY DEF Fifo!Bytes, Fifo!Cardinality, Cardinality
    <2>6. BytesKnown
      BY <2>1, <2>4, <2>5 DEF BytesKnown
    <2> QED BY <2>1, <2>2, <2>6 DEF Fifo!FifoInit
  <1>2. PipelineInv /\ BytesKnown /\ [Next]_vars
          => BytesKnown' /\ [Fifo!FifoNext]_Fifo!fifoVars
    BY StepsOfQueue, FifoStep DEF PipelineInv, ClosedKnown
  <1> QED BY <1>1, <1>2, PipelineInit, PipelineStep, PTL
          DEF Spec, ImplementsBoundedFifo, Fifo!FifoSpec
================================================================================
