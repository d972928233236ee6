----------------------------- MODULE BoundedFifo -----------------------------
(***************************************************************************)
(* What the record queue promises, without ring, mutex, condition variable *)
(* or counters: a first-in first-out queue bounded in records and in bytes *)
(* that, when a record does not fit, does what its overflow policy says    *)
(* and counts every loss.                                                  *)
(***************************************************************************)
EXTENDS Integers, Sequences, FiniteSets

CONSTANTS MaxRecords, MaxBytes, Sizes

VARIABLES
  policy, \* what happens to a line that does not fit
  items,  \* queued records, oldest first: [seq, size, kind]
  count,  \* records accepted so far
  lost,   \* records lost so far
  shut    \* no record is accepted any more

fifoVars == <<policy, items, count, lost, shut>>

\* The bytes of the queued lines, each known by its record and its place there.
Stored(s) == UNION {{s[i].seq} \X (1 .. s[i].size) : i \in DOMAIN s}

Bytes(s) == Cardinality(Stored(s))

Fits(size) == Len(items) < MaxRecords /\ Bytes(items) + size =< MaxBytes

FifoInit ==
  /\ policy \in {"block", "drop-oldest", "drop-newest"}
  /\ items = << >> /\ count = 0 /\ lost = 0 /\ shut = FALSE

\* A line or an internal diagnostic joins at the end.
Accept ==
  /\ ~shut
  /\ \E r \in [seq : {count}, size : Sizes, kind : {"line"}]
              \cup [seq : {count}, size : {0}, kind : {"internal"}] :
       Fits(r.size) /\ items' = Append(items, r)
  /\ count' = count + 1
  /\ UNCHANGED <<lost, shut>>

Remove ==
  /\ items # << >>
  /\ items' = Tail(items)
  /\ UNCHANGED <<count, lost, shut>>

\* The oldest record makes room, only for a line that does not fit as it is.
EvictOldest ==
  /\ policy = "drop-oldest" /\ ~shut /\ items # << >>
  /\ \E size \in Sizes : size =< MaxBytes /\ ~Fits(size)
  /\ items' = Tail(items)
  /\ lost' = lost + 1
  /\ UNCHANGED <<count, shut>>

\* The incoming line is lost; under drop-oldest only if it can never fit.
Reject ==
  /\ ~shut
  /\ \E size \in Sizes :
       /\ ~Fits(size)
       /\ policy = "drop-newest" \/ (policy = "drop-oldest" /\ size > MaxBytes)
  /\ lost' = lost + 1
  /\ UNCHANGED <<items, count, shut>>

Shut == ~shut /\ shut' = TRUE /\ UNCHANGED <<items, count, lost>>

FifoNext ==
  /\ Accept \/ Remove \/ EvictOldest \/ Reject \/ Shut
  /\ UNCHANGED policy

FifoSpec == FifoInit /\ [][FifoNext]_fifoVars
============================================================================
