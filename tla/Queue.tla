------------------------------- MODULE Queue -------------------------------
(***************************************************************************)
(* The bounded record queue between the framers of one input and its       *)
(* writer (queue.go).  Several producers push concurrently (one framer per *)
(* TCP connection), one consumer pops.  The mutex makes every method one   *)
(* step, with two exceptions kept as separate steps here: a producer that  *)
(* waits on the condition variable notFull, and the eviction loop of       *)
(* drop-oldest, whose iterations are steps taken with the mutex held.      *)
(* Next is the most general client: any caller, any size in Sizes, in any  *)
(* order.  Module Writer composes the same operations with the writer.     *)
(***************************************************************************)
EXTENDS Integers

CONSTANTS
  Producers,   \* goroutines that call Push
  MaxRecords,  \* length of the ring
  MaxBytes,    \* cap on the queued line bytes
  Sizes,       \* line lengths a producer may push
  PushBound    \* bound: calls of Push and PushInternal explored

\* config.go 460-471 and config_file_validate.go 160-186 reject other limits.
ASSUME QueueAssumption ==
  /\ MaxRecords \in Nat \ {0}
  /\ MaxBytes \in Nat \ {0}
  /\ Sizes \subseteq Nat
  /\ PushBound \in Nat

VARIABLES
  overflow,    \* the queue's policy, one of Policies, set when it is made
  records,     \* the ring: slot -> record
  head,        \* slot of the oldest record
  queued,      \* number of records in the ring
  queuedByte,  \* their line bytes
  nextSeq,     \* sequence number of the next record
  closed,
  wake,        \* TRUE iff the one-slot wake channel holds its token
  drops,       \* drops not yet taken by the writer
  stats,       \* cumulative counters of the input (InputStats)
  push,        \* producer -> where its call of Push stands
  pushSize     \* producer -> length of the line it pushes

queueVars == <<overflow, records, head, queued, queuedByte, nextSeq, closed, wake,
               drops, stats, push, pushSize>>
----------------------------------------------------------------------------
Slots == 0 .. MaxRecords - 1

Policies == {"block", "drop-oldest", "drop-newest"}

(***************************************************************************)
(* A record: its sequence number, its length and whether it is a line of   *)
(* the program or an internal diagnostic.  `off' is auxiliary: the value   *)
(* of AcceptedBytes when the record was pushed.                            *)
(***************************************************************************)
Record == [seq : Nat, size : Nat, kind : {"line", "internal", "zero"}, off : Nat]

\* Go's Record{}: what a released slot holds.
ZeroRecord == [seq |-> 0, size |-> 0, kind |-> "zero", off |-> 0]

NoDrops == [records |-> 0, bytes |-> 0]

\* Slot of the i-th oldest record, and of the next free one for i = queued.
Slot(i) == (head + i) % MaxRecords

\* Mutants: the ring overrun by one record; the byte cap taken as exclusive.
HasCapacity_Overrun(size) == queued =< MaxRecords /\ queuedByte + size =< MaxBytes

HasCapacity_Strict(size) == queued < MaxRecords /\ queuedByte + size < MaxBytes

HasCapacity(size) == queued < MaxRecords /\ queuedByte + size =< MaxBytes

Waiting  == {p \in Producers : push[p] = "waiting"}
Notified == {p \in Producers : push[p] = "notified"}
Evicting == {p \in Producers : push[p] = "evicting"}

\* The mutex is free; only the eviction loop is seen holding it.
MutexFree == Evicting = {}

QueueInit ==
  /\ overflow \in Policies
  /\ records = [i \in Slots |-> ZeroRecord]
  /\ head = 0 /\ queued = 0 /\ queuedByte = 0 /\ nextSeq = 0
  /\ closed = FALSE /\ wake = FALSE
  /\ drops = NoDrops
  /\ stats = [accepted |-> 0, acceptedBytes |-> 0, dropped |-> 0, droppedBytes |-> 0]
  /\ push = [p \in Producers |-> "idle"]
  /\ pushSize = [p \in Producers |-> 0]
----------------------------------------------------------------------------
(***************************************************************************)
(* Steps shared by the operations.                                         *)
(***************************************************************************)

\* Store a record in the next free slot and leave a wake token.
Enqueue(kind, size) ==
  /\ records' = [records EXCEPT ![Slot(queued)] =
                   [seq |-> nextSeq, size |-> size, kind |-> kind,
                    off |-> stats.acceptedBytes]]
  /\ nextSeq' = nextSeq + 1
  /\ queued' = queued + 1
  /\ queuedByte' = queuedByte + size
  /\ stats' = IF kind # "line" THEN stats
              ELSE [accepted |-> stats.accepted + 1,
                    acceptedBytes |-> stats.acceptedBytes + size,
                    dropped |-> stats.dropped, droppedBytes |-> stats.droppedBytes]
  /\ wake' = TRUE
  /\ UNCHANGED <<head, closed, drops>>

\* Mutant: the slot keeps its record.
Dequeue_KeepsSlot ==
  /\ head' = (head + 1) % MaxRecords
  /\ queued' = queued - 1
  /\ queuedByte' = queuedByte - records[head].size
  /\ UNCHANGED records

\* Remove the oldest record and release its slot.
Dequeue ==
  /\ records' = [records EXCEPT ![head] = ZeroRecord]
  /\ head' = (head + 1) % MaxRecords
  /\ queued' = queued - 1
  /\ queuedByte' = queuedByte - records[head].size

\* Count one lost record, for the writer's diagnostics and in the counters.
CountDrop(size) ==
  /\ drops' = [records |-> drops.records + 1, bytes |-> drops.bytes + size]
  /\ stats' = [accepted |-> stats.accepted, acceptedBytes |-> stats.acceptedBytes,
               dropped |-> stats.dropped + 1, droppedBytes |-> stats.droppedBytes + size]

\* sync.Cond.Signal: wakes one waiter, if there is one.
Signal ==
  IF Waiting = {} THEN UNCHANGED push
  ELSE \E p \in Waiting : push' = [push EXCEPT ![p] = "notified"]

\* Mutant: Close wakes a single waiter.
Broadcast_One ==
  IF Waiting = {} THEN UNCHANGED push
  ELSE \E p \in Waiting : push' = [push EXCEPT ![p] = "notified"]

\* sync.Cond.Broadcast
Broadcast ==
  push' = [p \in Producers |-> IF push[p] = "waiting" THEN "notified" ELSE push[p]]

\* p runs the body of Push for a line of this size with the mutex free: it
\* has just called it, or a signal has ended its wait.
InPush(p, size) ==
  /\ MutexFree
  /\ \/ push[p] = "idle" /\ nextSeq + stats.dropped < PushBound
     \/ push[p] = "notified" /\ pushSize[p] = size

Return(p) ==
  /\ push' = [push EXCEPT ![p] = "idle"]
  /\ pushSize' = [pushSize EXCEPT ![p] = 0]
----------------------------------------------------------------------------
(***************************************************************************)
(* Push.  A call that finds the queue closed returns without a change; it  *)
(* is a step only for a producer that was waiting.                         *)
(***************************************************************************)
PushAccept(p, size) ==
  /\ InPush(p, size)
  /\ ~closed /\ HasCapacity(size)
  /\ Enqueue("line", size)
  /\ Return(p)

PushWait(p, size) ==
  /\ overflow = "block"
  /\ InPush(p, size)
  /\ ~closed /\ ~HasCapacity(size)
  /\ push' = [push EXCEPT ![p] = "waiting"]
  /\ pushSize' = [pushSize EXCEPT ![p] = size]
  /\ UNCHANGED <<records, head, queued, queuedByte, nextSeq, closed, wake, drops, stats>>

PushRefused(p) ==
  /\ MutexFree
  /\ push[p] = "notified" /\ closed
  /\ Return(p)
  /\ UNCHANGED <<records, head, queued, queuedByte, nextSeq, closed, wake, drops, stats>>

\* The incoming record is lost: drop-newest, or drop-oldest when the record
\* exceeds the byte cap by itself.
PushDropIncoming(p, size) ==
  /\ \/ overflow = "drop-newest"
     \/ overflow = "drop-oldest" /\ size > MaxBytes
  /\ InPush(p, size)
  /\ ~closed /\ ~HasCapacity(size)
  /\ CountDrop(size)
  /\ UNCHANGED <<records, head, queued, queuedByte, nextSeq, closed, wake, push, pushSize>>

PushDropOldest(p, size) ==
  /\ overflow = "drop-oldest" /\ size =< MaxBytes
  /\ InPush(p, size)
  /\ ~closed /\ ~HasCapacity(size)
  /\ push' = [push EXCEPT ![p] = "evicting"]
  /\ pushSize' = [pushSize EXCEPT ![p] = size]
  /\ UNCHANGED <<records, head, queued, queuedByte, nextSeq, closed, wake, drops, stats>>

\* One iteration of the eviction loop, mutex held.
Evict(p) ==
  /\ push[p] = "evicting"
  /\ ~HasCapacity(pushSize[p]) /\ queued > 0
  /\ Dequeue
  /\ CountDrop(records[head].size)
  /\ UNCHANGED <<nextSeq, closed, wake, push, pushSize>>

\* After the loop: store the record, or count it lost if it still has no room.
EvictDone(p) ==
  /\ push[p] = "evicting"
  /\ HasCapacity(pushSize[p]) \/ queued = 0
  /\ IF HasCapacity(pushSize[p])
     THEN Enqueue("line", pushSize[p])
     ELSE /\ CountDrop(pushSize[p])
          /\ UNCHANGED <<records, head, queued, queuedByte, nextSeq, closed, wake>>
  /\ Return(p)

\* Internal diagnostics have no line.  They are given up, without a change,
\* when the queue is closed or full.
PushInternal ==
  /\ MutexFree
  /\ nextSeq + stats.dropped < PushBound
  /\ ~closed /\ HasCapacity(0)
  /\ Enqueue("internal", 0)
  /\ UNCHANGED <<push, pushSize>>
----------------------------------------------------------------------------
(***************************************************************************)
(* The consumer's operations.  The wake channel is received from without   *)
(* the mutex: its token first, then, once closed, at any time.             *)
(***************************************************************************)
Pop ==
  /\ MutexFree
  /\ queued > 0
  /\ Dequeue
  /\ Signal
  /\ UNCHANGED <<nextSeq, closed, wake, drops, stats, pushSize>>

\* Mutant: the drops are read and not reset.
TakeDrops_NoReset ==
  /\ MutexFree
  /\ UNCHANGED queueVars

TakeDrops ==
  /\ MutexFree
  /\ drops' = NoDrops
  /\ UNCHANGED <<records, head, queued, queuedByte, nextSeq, closed, wake, stats, push, pushSize>>

ReceiveWake ==
  /\ wake \/ closed
  /\ wake' = FALSE
  /\ UNCHANGED <<records, head, queued, queuedByte, nextSeq, closed, drops, stats, push, pushSize>>

Close ==
  /\ MutexFree
  /\ closed' = TRUE
  /\ IF closed THEN UNCHANGED push ELSE Broadcast
  /\ UNCHANGED <<records, head, queued, queuedByte, nextSeq, wake, drops, stats, pushSize>>

ProducerStep(p) ==
  \/ \E size \in Sizes : \/ PushAccept(p, size)
                         \/ PushWait(p, size)
                         \/ PushDropIncoming(p, size)
                         \/ PushDropOldest(p, size)
  \/ PushRefused(p)
  \/ Evict(p)
  \/ EvictDone(p)

\* No method assigns the policy.
QueueNext ==
  /\ \/ \E p \in Producers : ProducerStep(p)
     \/ PushInternal
     \/ Pop
     \/ TakeDrops
     \/ ReceiveWake
     \/ Close
  /\ UNCHANGED overflow

QueueSpec == QueueInit /\ [][QueueNext]_queueVars
----------------------------------------------------------------------------
RingTypeOK ==
  /\ overflow \in Policies
  /\ records \in [Slots -> Record]
  /\ head \in Slots
  /\ queued \in 0 .. MaxRecords
  /\ queuedByte \in Int
  /\ nextSeq \in Nat
  /\ closed \in BOOLEAN
  /\ wake \in BOOLEAN
  /\ drops \in [records : Nat, bytes : Nat]
  /\ stats \in [accepted : Nat, acceptedBytes : Nat, dropped : Nat, droppedBytes : Nat]

\* Types of the queue's state; a producer in Push has the line it pushes.
QueueTypeOK ==
  /\ RingTypeOK
  /\ push \in [Producers -> {"idle", "waiting", "notified", "evicting"}]
  /\ pushSize \in [Producers -> Nat]
  /\ \A p \in Producers : push[p] # "idle" => pushSize[p] \in Sizes

(***************************************************************************)
(* The ring holds, oldest first from head, exactly the last `queued'       *)
(* records pushed, however pushes, pops and evictions wrapped around it,   *)
(* and every other slot has released its record: Pop and the eviction loop *)
(* clear slots so that lines can be collected (queue.go 163-165).          *)
(***************************************************************************)
RingOrder ==
  \A i \in Slots :
    IF i < queued
    THEN records[Slot(i)].seq = nextSeq - queued + i /\ records[Slot(i)].kind # "zero"
    ELSE records[Slot(i)] = ZeroRecord

(***************************************************************************)
(* queuedByte is the sum of the lengths in the ring and stays within the   *)
(* cap: lengths telescope from the oldest record's offset to the number of *)
(* bytes accepted so far.                                                  *)
(***************************************************************************)
ByteAccounting ==
  /\ 0 =< queuedByte /\ queuedByte =< MaxBytes
  /\ queued = 0 => queuedByte = 0
  /\ queued > 0 => records[head].off = stats.acceptedBytes - queuedByte
  /\ \A i \in 0 .. queued - 1 :
       records[Slot(i)].off + records[Slot(i)].size =
         IF i = queued - 1 THEN stats.acceptedBytes ELSE records[Slot(i + 1)].off
  /\ \A i \in 0 .. queued - 1 : records[Slot(i)].off =< stats.acceptedBytes

(***************************************************************************)
(* Drop-oldest never loses the incoming record after evicting others for   *)
(* it: once the queue is empty there is room, so the last test of          *)
(* pushDropOldestLocked (queue.go 174-180) never rejects.                  *)
(***************************************************************************)
EvictionMakesRoom ==
  \A p \in Evicting : queued = 0 => HasCapacity(pushSize[p])

(***************************************************************************)
(* A producer blocked in Push is never forgotten: while one waits, the     *)
(* queue is open, and either holds a record whose Pop will signal, or      *)
(* another producer has been signalled and is about to push one.  Pop      *)
(* signals one waiter only (queue.go 208), whether or not its line fits.   *)
(***************************************************************************)
NoStrandedProducer ==
  Waiting # {} => ~closed /\ (queued > 0 \/ Notified # {})
============================================================================
