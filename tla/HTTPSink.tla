------------------------------- MODULE HTTPSink -------------------------------
(***************************************************************************)
(* The HTTP sink (sink_http.go) behind the wrappers of sink_wrapper.go,    *)
(* and a collector that may answer late, wrongly or not at all.            *)
(*                                                                         *)
(* In daemon mode the writers of all inputs share the sink: lockedSink     *)
(* makes each call one critical section, noCloseSink turns a writer's      *)
(* Close into nothing, and runConfigMode closes the sink when all writers  *)
(* have returned.  In the ad hoc modes the one writer closes it, unless it *)
(* ended with an error.                                                    *)
(*                                                                         *)
(* A record is its number in the order of the WriteRecord calls and the    *)
(* bytes it encodes to.  Two errors are left out that do not occur: the    *)
(* encoders write to a bytes.Buffer, which takes everything, and the       *)
(* configuration has parsed the URL http.NewRequest is given.              *)
(***************************************************************************)
EXTENDS Integers, Sequences, FiniteSets, SequencesExt, FiniteSetsExt

CONSTANTS
  BatchRecords, BatchBytes, Retries,
  Sizes,        \* lengths of encoded records
  Writers,      \* writer goroutines
  Daemon,       \* BOOLEAN
  RecordBound   \* bound: records written

NoOne == "none"
Parent == "parent"

ASSUME HTTPSinkAssumption ==
  /\ {BatchRecords, BatchBytes} \subseteq Nat \ {0} /\ Retries \in Nat
  /\ Sizes \subseteq Nat \ {0} /\ RecordBound \in Nat
  /\ Daemon \in BOOLEAN /\ (Daemon \/ Cardinality(Writers) = 1)
  /\ {NoOne, Parent} \cap Writers = {}

VARIABLES
  buf,       \* s.buf: the encoded records; s.records is their number
  caller,    \* who is inside Flush: a writer, Parent in the final Close, or NoOne
  attempt,   \* attempts made so far in this Flush
  answer,    \* of the last attempt: "none", "denied" (401, 403) or "failed"
  writing,   \* writers that have not returned
  failures,  \* calls that returned an error, each of which ended its writer
  closed,    \* the sink's Close has been called
  records,   \* history: records written
  received,  \* history: the payloads that reached the collector, in order, and
             \* whether the sink saw them acknowledged
  dropped    \* history: records dropped because of the last answer

sinkVars == <<buf, caller, attempt, answer>>
history == <<records, received, dropped>>
vars == <<sinkVars, writing, failures, closed, history>>

Init ==
  /\ buf = << >> /\ caller = NoOne /\ attempt = 0 /\ answer = "none"
  /\ writing = Writers /\ failures = 0 /\ closed = FALSE
  /\ records = 0 /\ received = << >> /\ dropped = {}

Bytes(payload) == FoldLeft(LAMBDA sum, r : sum + r.len, 0, payload)
Ids(payload) == {r.id : r \in Range(payload)}

\* lockedSink: nobody is inside the sink.
Unlocked == caller = NoOne

\* Flush with something to send.
BeginFlush(who) == caller' = who /\ attempt' = 0 /\ answer' = "none"
----------------------------------------------------------------------------
\* Mutant: a batch that was continued may have passed both limits.
Full_Exactly(payload) == Len(payload) = BatchRecords \/ Bytes(payload) = BatchBytes

Full(payload) == Len(payload) >= BatchRecords \/ Bytes(payload) >= BatchBytes

WriteRecord(writer, len) ==
  /\ Unlocked /\ writer \in writing /\ records < RecordBound
  /\ records' = records + 1
  /\ buf' = Append(buf, [id |-> records + 1, len |-> len])
  /\ IF Full(buf') THEN BeginFlush(writer) ELSE UNCHANGED <<caller, attempt, answer>>
  /\ UNCHANGED <<writing, failures, closed, received, dropped>>

\* Flush on a tick; with nothing to send it does nothing.
Flush(writer) ==
  /\ Unlocked /\ writer \in writing /\ buf # << >>
  /\ BeginFlush(writer)
  /\ UNCHANGED <<buf, writing, failures, closed, history>>

Deliver(acked) == received' = Append(received, [payload |-> buf, acked |-> acked])

\* Mutant: the buffer is not reset.
Accepted_KeepsBuffer ==
  /\ ~Unlocked /\ attempt =< Retries
  /\ Deliver(TRUE)
  /\ caller' = NoOne
  /\ UNCHANGED <<buf, attempt, answer, writing, failures, closed, records, dropped>>

\* An attempt is answered with a 2xx status.
Accepted ==
  /\ ~Unlocked /\ attempt =< Retries
  /\ Deliver(TRUE)
  /\ buf' = << >> /\ caller' = NoOne
  /\ UNCHANGED <<attempt, answer, writing, failures, closed, records, dropped>>

\* Mutant: the payload is read from the buffer itself, which a failed attempt
\* leaves empty.
Refused_BufferRead ==
  /\ ~Unlocked /\ attempt =< Retries
  /\ answer' \in {"denied", "failed"}
  /\ attempt' = attempt + 1
  /\ buf' = << >>
  /\ UNCHANGED <<caller, writing, failures, closed, history>>

\* It is answered with another status, or does not reach the collector.
Refused ==
  /\ ~Unlocked /\ attempt =< Retries
  /\ answer' \in {"denied", "failed"}
  /\ attempt' = attempt + 1
  /\ UNCHANGED <<buf, caller, writing, failures, closed, history>>

\* It reaches the collector, whose answer does not arrive in time.
AnswerLost ==
  /\ ~Unlocked /\ attempt =< Retries
  /\ Deliver(FALSE)
  /\ answer' = "failed"
  /\ attempt' = attempt + 1
  /\ UNCHANGED <<buf, caller, writing, failures, closed, records, dropped>>

\* No attempt is left and the last was denied: the batch is dropped.
DropDenied ==
  /\ ~Unlocked /\ attempt > Retries /\ answer = "denied"
  /\ dropped' = dropped \cup Ids(buf)
  /\ buf' = << >> /\ caller' = NoOne
  /\ UNCHANGED <<attempt, answer, writing, failures, closed, records, received>>

\* No attempt is left: the call returns the error, and the writer ends.
GiveUp ==
  /\ ~Unlocked /\ attempt > Retries /\ answer = "failed"
  /\ failures' = failures + 1
  /\ writing' = writing \ {caller}
  /\ caller' = NoOne
  /\ UNCHANGED <<buf, attempt, answer, closed, history>>

\* A writer's queue is closed and drained.
WriterEnds(writer) ==
  /\ Unlocked /\ writer \in writing
  /\ writing' = writing \ {writer}
  /\ UNCHANGED <<sinkVars, failures, closed, history>>

\* Mutant: also in daemon mode an error prevents it.
CloseAtEnd_NotAfterError ==
  /\ Unlocked /\ writing = {} /\ ~closed /\ failures = 0
  /\ closed' = TRUE
  /\ IF buf # << >> THEN BeginFlush(Parent) ELSE UNCHANGED <<caller, attempt, answer>>
  /\ UNCHANGED <<buf, writing, failures, history>>

\* The sink's Close, which is a last Flush.
CloseAtEnd ==
  /\ Unlocked /\ writing = {} /\ ~closed /\ (Daemon \/ failures = 0)
  /\ closed' = TRUE
  /\ IF buf # << >> THEN BeginFlush(Parent) ELSE UNCHANGED <<caller, attempt, answer>>
  /\ UNCHANGED <<buf, writing, failures, history>>

InCall == Accepted \/ Refused \/ AnswerLost \/ DropDenied \/ GiveUp

Next ==
  \/ \E writer \in Writers :
       (\E len \in Sizes : WriteRecord(writer, len)) \/ Flush(writer) \/ WriterEnds(writer)
  \/ InCall \/ CloseAtEnd

Spec == Init /\ [][Next]_vars

\* A request ends, by an answer or by the client's timeout; inputs end.
FairSpec ==
  /\ Spec
  /\ WF_vars(InCall) /\ WF_vars(CloseAtEnd)
----------------------------------------------------------------------------
\* Every variable keeps to its type, and a call under way has a batch to post.
TypeOK ==
  /\ buf \in Seq([id : 1 .. RecordBound, len : Sizes])
  /\ caller \in Writers \cup {Parent, NoOne}
  /\ attempt \in 0 .. Retries + 1
  /\ answer \in {"none", "denied", "failed"}
  /\ writing \subseteq Writers /\ failures \in Nat /\ closed \in BOOLEAN
  /\ records \in 0 .. RecordBound
  /\ \A k \in DOMAIN received :
       /\ received[k].payload \in Seq([id : 1 .. RecordBound, len : Sizes])
       /\ received[k].acked \in BOOLEAN
  /\ dropped \subseteq 1 .. RecordBound
  /\ ~Unlocked => buf # << >>

(***************************************************************************)
(* No record disappears: it is buffered, has reached the collector, or was *)
(* in a batch dropped on a 401 or 403.  A batch that failed stays for the  *)
(* next call, whichever writer makes it.                                   *)
(***************************************************************************)
Accounted ==
  1 .. records = Ids(buf) \cup dropped \cup UNION {Ids(p.payload) : p \in Range(received)}

(***************************************************************************)
(* The collector gets every payload in the order of writing and without    *)
(* gaps; a payload repeats records it already had only by starting with    *)
(* the whole payload before, the answer to which the sink did not see.     *)
(***************************************************************************)
Redelivery ==
  /\ \A k \in DOMAIN received : LET p == received[k].payload IN
       \A i \in DOMAIN p : p[i].id = p[1].id + i - 1
  /\ \A k \in 2 .. Len(received) :
       LET before == received[k - 1].payload
           p      == received[k].payload
       IN  \/ ~received[k - 1].acked /\ IsPrefix(before, p)
           \/ /\ Last(before).id < p[1].id
              /\ Last(before).id + 1 .. p[1].id - 1 \subseteq dropped

\* The payload without its last n records has reached neither cap.
BelowCaps(payload, n) ==
  n < Len(payload) =>
    ~(\/ Len(payload) - n >= BatchRecords
      \/ Bytes(SubSeq(payload, 1, Len(payload) - n)) >= BatchBytes)

(***************************************************************************)
(* A batch that failed stays, and the next writer's record is put to it    *)
(* before the caps are looked at again (sink_http.go 48-56).  It grows by  *)
(* one record for each writer that has failed and no more: without these   *)
(* and its last record, no payload has reached either cap.  TypeOK with    *)
(* it.                                                                     *)
(***************************************************************************)
Caps ==
  /\ TypeOK
  /\ \A k \in DOMAIN received :
       \E n \in 0 .. failures + 1 : BelowCaps(received[k].payload, n)

(***************************************************************************)
(* README.md 637: "--http-batch-bytes caps encoded payload bytes", which   *)
(* config.go 844 calls "max encoded bytes per HTTP POST".  The sink looks  *)
(* at the bytes after it has appended a record (sink_http.go 56).  Of a    *)
(* record that is longer by itself this asks nothing.                      *)
(***************************************************************************)
PayloadWithinBytes ==
  \A k \in DOMAIN received : LET p == received[k].payload IN
    Len(p) > 1 => Bytes(p) =< BatchBytes

(***************************************************************************)
(* However the collector behaves, a call returns, and with it the lock all *)
(* writers share.                                                          *)
(***************************************************************************)
CallReturns == ~Unlocked ~> Unlocked

(***************************************************************************)
(* sink_http.go 66-68: "failed batches remain available for bounded        *)
(* retries and final Close": what is buffered when the last writer has     *)
(* returned gets one more attempt.                                         *)
(***************************************************************************)
FinalClose == (Unlocked /\ writing = {} /\ buf # << >>) ~> closed

\* Every call returns and the last batch is tried: CallReturns with FinalClose.
CallsEnd == CallReturns /\ FinalClose
============================================================================
