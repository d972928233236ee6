------------------------------- MODULE Writer -------------------------------
(***************************************************************************)
(* One input pipeline: the producers and the queue of module Queue, and    *)
(* the writer goroutine that drains the queue into a sink (writer.go).     *)
(* The writer runs without the queue's mutex between two queue operations, *)
(* so producers and the closer of the queue interleave with every step of  *)
(* it.  A sink call either takes its record or fails; the first failure    *)
(* ends the writer.                                                        *)
(***************************************************************************)
EXTENDS Queue, Sequences

CONSTANT FlushTicks  \* TRUE iff flushInterval > 0

ASSUME WriterAssumption ==
  /\ FlushTicks \in BOOLEAN
  \* Framers and datagram and journal readers cut lines at MaxFragmentBytes,
  \* which validation keeps within QueueBytes (config.go 468-471).
  /\ Sizes \subseteq 0 .. MaxBytes

VARIABLES
  wpc,       \* where the writer stands
  open,      \* the `open' of its last receive on the wake channel
  hand,      \* the record popped last
  summary,   \* the drops taken last and not yet written
  out,       \* history: sequence numbers the sink took, in order
  reported,  \* history: records counted as dropped in summaries the sink took
  onErrors   \* calls of onError

writerVars == <<wpc, open, hand, summary, out, reported, onErrors>>
vars == <<queueVars, writerVars>>

WriterInit ==
  /\ wpc = "select" /\ open = TRUE
  /\ hand = ZeroRecord /\ summary = NoDrops
  /\ out = << >> /\ reported = 0 /\ onErrors = 0

Init == QueueInit /\ WriterInit
----------------------------------------------------------------------------
(***************************************************************************)
(* The select loop.  A flush that succeeds changes nothing here.           *)
(***************************************************************************)
FlushFails ==
  /\ FlushTicks
  /\ wpc = "select"
  /\ wpc' = "fail"
  /\ UNCHANGED <<queueVars, open, hand, summary, out, reported, onErrors>>

Wake ==
  /\ wpc = "select"
  /\ ReceiveWake
  /\ open' = wake
  /\ wpc' = "drops"
  /\ UNCHANGED <<overflow, hand, summary, out, reported, onErrors>>

\* emitDropSummary, called with the queue being drained ("drops") and once
\* more after the last drain ("lastDrops"): take the drops, then write them.
EmitDropSummary ==
  /\ wpc \in {"drops", "lastDrops"}
  /\ TakeDrops
  /\ summary' = drops
  /\ wpc' = IF drops.records = 0
            THEN IF wpc = "drops" THEN "pop" ELSE "closeSink"
            ELSE IF wpc = "drops" THEN "report" ELSE "lastReport"
  /\ UNCHANGED <<overflow, open, hand, out, reported, onErrors>>

WriteSummary ==
  /\ wpc \in {"report", "lastReport"}
  /\ \/ /\ wpc' = IF wpc = "report" THEN "pop" ELSE "closeSink"
        /\ reported' = reported + summary.records
        /\ summary' = NoDrops
     \/ wpc' = "fail" /\ UNCHANGED <<reported, summary>>
  /\ UNCHANGED <<queueVars, open, hand, out, onErrors>>

\* drainQueue's loop: pop, write, summarise, until the queue is empty.
PopRecord ==
  /\ wpc = "pop"
  /\ Pop
  /\ hand' = records[head]
  /\ wpc' = "write"
  /\ UNCHANGED <<overflow, open, summary, out, reported, onErrors>>

Drained ==
  /\ wpc = "pop"
  /\ MutexFree /\ queued = 0
  /\ wpc' = IF open THEN "select" ELSE "lastDrops"
  /\ UNCHANGED <<queueVars, open, hand, summary, out, reported, onErrors>>

\* Mutants: one record per wakeup; no drop summary after a record; draining
\* ends as soon as the queue is closed.
WriteRecord_Then(next) ==
  /\ wpc = "write"
  /\ \/ /\ wpc' = next
        /\ out' = Append(out, hand.seq)
        /\ hand' = ZeroRecord
     \/ wpc' = "fail" /\ UNCHANGED <<out, hand>>
  /\ UNCHANGED <<queueVars, open, summary, reported, onErrors>>

WriteRecord_OnePerWake == WriteRecord_Then("select")

WriteRecord_NoSummary == WriteRecord_Then("pop")

WriteRecord_StopWhenClosed == WriteRecord_Then(IF closed THEN "lastDrops" ELSE "drops")

WriteRecord ==
  /\ wpc = "write"
  /\ \/ /\ wpc' = "drops"
        /\ out' = Append(out, hand.seq)
        /\ hand' = ZeroRecord
     \/ wpc' = "fail" /\ UNCHANGED <<out, hand>>
  /\ UNCHANGED <<queueVars, open, summary, reported, onErrors>>

CloseSink ==
  /\ wpc = "closeSink"
  /\ wpc' \in {"done", "fail"}
  /\ UNCHANGED <<queueVars, open, hand, summary, out, reported, onErrors>>

\* Every error path: report once, close the queue, return the error.  Framers
\* still push while onError runs.  After the last drain the queue is closed
\* already and Close changes nothing.
ReportError ==
  /\ wpc = "fail" /\ wpc' = "abort"
  /\ onErrors' = onErrors + 1
  /\ UNCHANGED <<queueVars, open, hand, summary, out, reported>>

Abort ==
  /\ wpc = "abort" /\ wpc' = "failed"
  /\ Close
  /\ UNCHANGED <<overflow, open, hand, summary, out, reported, onErrors>>

WriterStep ==
  \/ FlushFails \/ Wake \/ EmitDropSummary \/ WriteSummary
  \/ PopRecord \/ Drained \/ WriteRecord \/ CloseSink \/ ReportError \/ Abort
----------------------------------------------------------------------------
\* A framer at the end of its input, or a source that stops, closes the
\* queue; a source whose listener fails does so with framers still running.
CloseInput == ~closed /\ Close /\ UNCHANGED <<overflow, writerVars>>

ProducerNext(p) == ProducerStep(p) /\ UNCHANGED <<overflow, writerVars>>

InternalNext == PushInternal /\ UNCHANGED <<overflow, writerVars>>

Next ==
  \/ \E p \in Producers : ProducerNext(p)
  \/ InternalNext
  \/ CloseInput
  \/ WriterStep

Spec == Init /\ [][Next]_vars

(***************************************************************************)
(* Fairness: the writer keeps running (sink calls return: HTTP requests    *)
(* have a timeout) and a select ready on the wake channel is not passed    *)
(* over for ever; a producer that was notified or holds the mutex goes on. *)
(* Nothing is assumed of new calls, of the ticker or of the closer.        *)
(***************************************************************************)
WriterRuns ==
  \/ Wake \/ EmitDropSummary \/ WriteSummary
  \/ PopRecord \/ Drained \/ WriteRecord \/ CloseSink \/ ReportError \/ Abort

PushRuns(p) == push[p] \in {"notified", "evicting"} /\ ProducerNext(p)

FairSpec ==
  /\ Spec
  /\ WF_vars(WriterRuns)
  /\ \A p \in Producers : WF_vars(PushRuns(p))
----------------------------------------------------------------------------
WriterTypeOK ==
  /\ wpc \in {"select", "drops", "report", "pop", "write", "lastDrops",
              "lastReport", "closeSink", "fail", "abort", "failed", "done"}
  /\ open \in BOOLEAN
  /\ hand \in Record
  /\ summary \in [records : Nat, bytes : Nat]
  /\ out \in Seq(Nat)
  /\ reported \in Nat
  /\ onErrors \in Nat

\* Queue, producers and writer are well typed and the queue is within its bounds.
TypeOK == QueueTypeOK /\ WriterTypeOK

(***************************************************************************)
(* One coalesced wake token is enough (the claim of signalLocked, queue.go *)
(* 235-236): whenever the writer is back in its select, a queue that holds *)
(* records has a token in its channel or is closed.  Drops are never       *)
(* stranded either, although drop-newest counts them without a signal      *)
(* (queue.go 92-96): a drop pending at the select has a wakeup coming.     *)
(***************************************************************************)
NoLostWakeup ==
  wpc = "select" /\ (queued > 0 \/ drops.records > 0) => wake \/ closed

InHand == IF hand.kind = "zero" THEN 0 ELSE 1

\* Losses that were queued before: all of them under drop-oldest, else none.
Evicted == IF overflow = "drop-oldest" THEN stats.dropped ELSE 0

(***************************************************************************)
(* Every record accepted is in the sink, in the writer's hand, in the      *)
(* ring, or counted as an eviction; and every loss counted by the queue is *)
(* reported by a summary the sink took, in a summary about to be written,  *)
(* or still to be taken, exactly once.                                     *)
(***************************************************************************)
Conservation ==
  /\ nextSeq = Len(out) + InHand + queued + Evicted
  /\ stats.dropped = reported + summary.records + drops.records

(***************************************************************************)
(* The sink sees records in the order they were accepted: sequence numbers *)
(* grow along the output, gaps (evictions) allowed.                        *)
(***************************************************************************)
InOrder ==
  \A i, j \in 1 .. Len(out) : i < j => out[i] < out[j]

(***************************************************************************)
(* A writer that returns without an error has left nothing behind: the     *)
(* queue is closed and empty, and every loss has been reported (writer.go  *)
(* 45-47 wants the drain and the last diagnostics before sink.Close).      *)
(***************************************************************************)
CleanFinish ==
  wpc = "done" => closed /\ queued = 0 /\ stats.dropped = reported

(***************************************************************************)
(* When the sink fails, the writer has closed the queue before it returns, *)
(* so that no producer stays blocked on a queue nobody drains, and onError *)
(* has been called once.                                                   *)
(***************************************************************************)
FailureReleasesProducers ==
  wpc = "failed" => closed /\ Waiting = {} /\ onErrors = 1

(***************************************************************************)
(* A blocked Push returns: with room, or with the queue closed.            *)
(***************************************************************************)
BlockedPushReturns ==
  \A p \in Producers : push[p] = "waiting" ~> push[p] = "idle"

(***************************************************************************)
(* Once the queue is closed the writer returns; runners wait for it.       *)
(***************************************************************************)
WriterEnds == closed ~> wpc \in {"done", "failed"}

(***************************************************************************)
(* Nothing waits in the queue for ever: what is queued and what was        *)
(* dropped gets to the sink unless the sink fails.                         *)
(***************************************************************************)
QueueDrains ==
  (queued > 0 \/ drops.records > 0)
    ~> ((queued = 0 /\ drops.records = 0) \/ wpc = "failed")

(***************************************************************************)
(* The pipeline keeps moving as long as the writer's sink calls return:    *)
(* every Push that blocked comes back, what is queued or dropped reaches   *)
(* the sink or the sink has failed, and a closed queue ends the writer.    *)
(***************************************************************************)
PipelineServes == BlockedPushReturns /\ QueueDrains /\ WriterEnds
============================================================================
