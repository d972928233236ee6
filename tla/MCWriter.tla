------------------------------ MODULE MCWriter ------------------------------
(***************************************************************************)
(* One pipeline, whose queue is compared with the abstract one.            *)
(***************************************************************************)
EXTENDS Writer

Contents == [i \in 1 .. queued |->
               LET r == records[Slot(i - 1)]
               IN  [seq |-> r.seq, size |-> r.size, kind |-> r.kind]]

Fifo == INSTANCE BoundedFifo
          WITH policy <- overflow, items <- Contents, count <- nextSeq, lost <- stats.dropped, shut <- closed

(***************************************************************************)
(* Inside the pipeline the queue implements BoundedFifo, read from its     *)
(* ring: records leave in the order they came, both bounds hold of what is *)
(* really stored, drop-oldest evicts no more than the incoming line needs, *)
(* and each loss is counted once.                                          *)
(***************************************************************************)
ImplementsBoundedFifo == Fifo!FifoSpec
============================================================================
