---------------------------- MODULE HTTPSinkProofs ----------------------------
(***************************************************************************)
(* Proofs about the HTTP sink for any number of writers, retries and       *)
(* records, any caps and any collector: nothing disappears, records arrive *)
(* in order and repeat only after a lost answer, and a batch passes the    *)
(* caps by one record more for each call that has failed.                  *)
(***************************************************************************)
EXTENDS HTTPSink, SequenceTheorems, TLAPS

Item == [id : 1 .. RecordBound, len : Sizes]
Post == [payload : Seq(Item), acked : BOOLEAN]

\* The last record that is neither buffered nor to come.
Past == records - Len(buf)

(***************************************************************************)
(* The inductive invariant, in parts.                                      *)
(***************************************************************************)

\* The buffer holds the latest records, one after the other.
BufferLatest ==
  /\ Past >= 0
  /\ \A i \in 1 .. Len(buf) : buf[i].id = Past + i

\* What the collector was sent is a run of records that have been written.
Runs ==
  /\ received \in Seq(Post)
  /\ \A k \in 1 .. Len(received) : LET p == received[k].payload IN
       /\ p # << >> /\ p[Len(p)].id =< records
       /\ \A i \in 1 .. Len(p) : p[i].id = p[1].id + i - 1

\* The payload p and one that starts after record past may follow each other: what
\* is between them was dropped.
Gap(p, past) == p[Len(p)].id =< past /\ p[Len(p)].id + 1 .. past \subseteq dropped

Begins(p, q) == Len(p) =< Len(q) /\ \A i \in 1 .. Len(p) : p[i] = q[i]

\* The last payload is repeated by the buffer, if its answer was lost, or over.
LastPost ==
  received # << >> =>
    LET p == received[Len(received)].payload
    IN  \/ ~received[Len(received)].acked /\ buf # << >> /\ Begins(p, buf)
        \/ Gap(p, Past)

\* Redelivery's second half, over indices.
InTurn ==
  \A k \in 2 .. Len(received) :
    LET before == received[k - 1].payload
        p      == received[k].payload
    IN  (~received[k - 1].acked /\ Begins(before, p)) \/ Gap(before, p[1].id - 1)

\* The batch passes the caps by one record for each call that has failed, and
\* by its last record while it is sent because that has filled it.
NotOver ==
  /\ \E n \in 0 .. failures + 1 : BelowCaps(buf, n)
  /\ Unlocked => \E n \in 0 .. failures : BelowCaps(buf, n)
  /\ \A k \in 1 .. Len(received) :
       \E n \in 0 .. failures + 1 : BelowCaps(received[k].payload, n)

OrderInv == TypeOK /\ BufferLatest /\ Runs /\ LastPost /\ InTurn
HTTPInv == OrderInv /\ Accounted /\ NotOver
----------------------------------------------------------------------------
(***************************************************************************)
(* Types, and what the sequences rest on.                                  *)
(***************************************************************************)
LEMMA BufferIsSeq ==
  ASSUME TypeOK
  PROVE  buf \in Seq(Item) /\ Len(buf) \in Nat /\ records \in Nat /\ records =< RecordBound
  BY HTTPSinkAssumption DEF TypeOK, Item

\* The buffer with the record that is written next.
LEMMA BufferGrows ==
  ASSUME TypeOK, NEW len \in Sizes, records < RecordBound,
         NEW b, b = Append(buf, [id |-> records + 1, len |-> len])
  PROVE  /\ b \in Seq(Item) /\ b # << >> /\ Len(b) = Len(buf) + 1 /\ b[Len(b)].id = records + 1
         /\ \A i \in 1 .. Len(buf) : b[i] = buf[i]
         /\ Ids(b) = Ids(buf) \cup {records + 1}
         /\ Front(b) = buf
  <1> DEFINE r == [id |-> records + 1, len |-> len]
  <1>1. r \in Item
    BY BufferIsSeq, HTTPSinkAssumption DEF Item
  <1>2. /\ b \in Seq(Item) /\ b # << >> /\ Len(b) = Len(buf) + 1
        /\ \A i \in 1 .. Len(buf) : b[i] = buf[i]
        /\ b[Len(buf) + 1] = r
    BY <1>1, BufferIsSeq, AppendProperties
  <1>3. DOMAIN b = 1 .. Len(buf) + 1 /\ DOMAIN buf = 1 .. Len(buf)
    BY <1>2, BufferIsSeq
  <1>4. Ids(b) = Ids(buf) \cup {records + 1}
    <2>1. Range(b) = Range(buf) \cup {r}
      BY <1>2, <1>3, BufferIsSeq DEF Range
    <2> QED BY <2>1 DEF Ids
  <1>5. Front(b) = buf
    <2>1. /\ Front(b) \in Seq(Item) /\ Len(Front(b)) = Len(buf)
          /\ \A i \in 1 .. Len(buf) : Front(b)[i] = b[i]
      BY <1>2, BufferIsSeq, SubSeqProperties DEF Front
    <2> QED BY <1>2, <2>1, BufferIsSeq, SeqEqual
  <1> QED BY <1>2, <1>4, <1>5, BufferIsSeq

LEMMA WholeSubSeq ==
  ASSUME NEW s \in Seq(Item)
  PROVE  SubSeq(s, 1, Len(s)) = s
  <1>1. /\ SubSeq(s, 1, Len(s)) \in Seq(Item) /\ Len(SubSeq(s, 1, Len(s))) = Len(s)
        /\ \A i \in 1 .. Len(s) : SubSeq(s, 1, Len(s))[i] = s[i]
    BY LenProperties, SubSeqProperties
  <1> QED BY <1>1, SeqEqual

\* Sequences that agree on their first m places have the same prefix of that length.
LEMMA SamePrefix ==
  ASSUME NEW s \in Seq(Item), NEW t \in Seq(Item), NEW m \in Nat,
         m =< Len(s), m =< Len(t), \A i \in 1 .. m : s[i] = t[i]
  PROVE  SubSeq(s, 1, m) = SubSeq(t, 1, m)
  <1>1. /\ SubSeq(s, 1, m) \in Seq(Item) /\ Len(SubSeq(s, 1, m)) = m
        /\ SubSeq(t, 1, m) \in Seq(Item) /\ Len(SubSeq(t, 1, m)) = m
        /\ \A i \in 1 .. m : SubSeq(s, 1, m)[i] = s[i] /\ SubSeq(t, 1, m)[i] = t[i]
    BY LenProperties, SubSeqProperties
  <1> QED BY <1>1, SeqEqual

(***************************************************************************)
(* A posted batch becomes the last payload.                                *)
(***************************************************************************)
LEMMA PostGrows ==
  ASSUME TypeOK, Runs, NEW acked \in BOOLEAN, Deliver(acked)
  PROVE  /\ received' \in Seq(Post) /\ Len(received') = Len(received) + 1 /\ received' # << >>
         /\ \A k \in 1 .. Len(received) : received'[k] = received[k]
         /\ received'[Len(received) + 1] = [payload |-> buf, acked |-> acked]
         /\ Len(received) \in Nat
         /\ UNION {Ids(p.payload) : p \in Range(received')}
              = (UNION {Ids(p.payload) : p \in Range(received)}) \cup Ids(buf)
  <1> DEFINE e == [payload |-> buf, acked |-> acked]
  <1>1. e \in Post /\ received \in Seq(Post) /\ received' = Append(received, e)
    BY BufferIsSeq DEF Post, Deliver, Runs
  <1>2. /\ received' \in Seq(Post) /\ Len(received') = Len(received) + 1 /\ received' # << >>
        /\ \A k \in 1 .. Len(received) : received'[k] = received[k]
        /\ received'[Len(received) + 1] = e
    BY <1>1, AppendProperties
  <1>3. Range(received') = Range(received) \cup {e}
    <2>1. DOMAIN received' = 1 .. Len(received) + 1 /\ DOMAIN received = 1 .. Len(received)
      BY <1>1, <1>2
    <2>2. Len(received) \in Nat
      BY <1>1
    <2> QED BY <1>2, <2>1, <2>2 DEF Range
  <1>4. UNION {Ids(p.payload) : p \in Range(received')}
          = (UNION {Ids(p.payload) : p \in Range(received)}) \cup Ids(buf)
    <2> HIDE DEF e
    <2>1. ASSUME NEW R
          PROVE  UNION {Ids(p.payload) : p \in R \cup {e}}
                   = (UNION {Ids(p.payload) : p \in R}) \cup Ids(e.payload)
      OBVIOUS
    <2>2. e.payload = buf
      BY DEF e
    <2> QED BY <1>3, <2>1, <2>2
  <1>5. Len(received) \in Nat
    BY <1>1
  <1> QED BY <1>2, <1>4, <1>5, Zenon

\* TypeOK but for the sequences.
CallTypes ==
  /\ caller \in Writers \cup {Parent, NoOne} /\ attempt \in 0 .. Retries + 1
  /\ answer \in {"none", "denied", "failed"}
  /\ writing \subseteq Writers /\ failures \in Nat /\ closed \in BOOLEAN
  /\ records \in 0 .. RecordBound /\ dropped \subseteq 1 .. RecordBound

\* TypeOK is what CallTypes says and the types of the sequences.
LEMMA TypesSplit == TypeOK => CallTypes /\ buf \in Seq(Item) /\ (~Unlocked => buf # << >>)
  BY DEF TypeOK, CallTypes, Item

\* The same for the next state.
LEMMA TypesJoin ==
  ASSUME CallTypes', buf' \in Seq(Item), received' \in Seq(Post), ~Unlocked' => buf' # << >>
  PROVE  TypeOK'
  <1>1. ASSUME NEW k \in DOMAIN received'
        PROVE  received'[k].payload \in Seq(Item) /\ received'[k].acked \in BOOLEAN
    <2>1. received'[k] \in Post
      BY LenProperties, ElementOfSeq
    <2> QED BY <2>1 DEF Post
  <1> QED BY <1>1 DEF TypeOK, CallTypes, Item

\* More calls that have failed leave a bound in its range.
LEMMA LongerRange ==
  ASSUME NEW m \in Nat, NEW n \in Nat, n >= m
  PROVE  /\ \A k \in 0 .. m : k \in 0 .. n
         /\ \A k \in 0 .. m + 1 : k \in 0 .. n + 1
         /\ n >= m + 1 => \A k \in 0 .. m + 1 : k \in 0 .. n
  OBVIOUS

\* A step that leaves the batch and what was written and received alone.
LEMMA QuietKeeps ==
  ASSUME HTTPInv, UNCHANGED <<buf, history>>, failures \in Nat, failures' \in Nat,
         failures' >= failures,
         Unlocked' => Unlocked \/ failures' >= failures + 1
  PROVE  BufferLatest' /\ Runs' /\ LastPost' /\ InTurn' /\ Accounted' /\ NotOver'
  <1> USE DEF HTTPInv, OrderInv, history
  <1>1. BufferLatest' /\ Runs'
    BY DEF BufferLatest, Runs, Past
  <1>2. LastPost' /\ InTurn'
    BY DEF LastPost, InTurn, Gap, Past
  <1>3. Accounted'
    BY DEF Accounted
  <1>4. NotOver'
    <2>1. buf' = buf /\ received' = received
      OBVIOUS
    <2>2. /\ \A n \in 0 .. failures : n \in 0 .. failures'
          /\ \A n \in 0 .. failures + 1 : n \in 0 .. failures' + 1
          /\ failures' >= failures + 1 => \A n \in 0 .. failures + 1 : n \in 0 .. failures'
      BY LongerRange
    <2> QED BY <2>1, <2>2 DEF NotOver
  <1> QED BY <1>1, <1>2, <1>3, <1>4

\* Its types.
LEMMA QuietTypes ==
  ASSUME HTTPInv, CallTypes', UNCHANGED <<buf, received>>, ~Unlocked' => buf # << >>
  PROVE  TypeOK'
  BY TypesSplit, TypesJoin DEF HTTPInv, OrderInv, Runs

\* Calls that begin or end without an answer that changes the batch.
LEMMA CallKeeps ==
  ASSUME HTTPInv,
         \/ \E writer \in Writers : Flush(writer) \/ WriterEnds(writer)
         \/ Refused \/ GiveUp \/ CloseAtEnd
  PROVE  HTTPInv'
  <1>1. CallTypes /\ (~Unlocked => buf # << >>)
    BY TypesSplit DEF HTTPInv, OrderInv, Runs
  <1> USE <1>1, HTTPSinkAssumption DEF CallTypes, Unlocked, BeginFlush, sinkVars, history
  <1>2. ASSUME NEW writer \in Writers, Flush(writer) \/ WriterEnds(writer)
        PROVE  HTTPInv'
    <2>1. TypeOK'
      <3>1. CASE Flush(writer)
        BY <3>1, QuietTypes DEF Flush
      <3>2. CASE WriterEnds(writer)
        BY <3>2, QuietTypes DEF WriterEnds
      <3> QED BY <1>2, <3>1, <3>2
    <2>2. /\ failures \in Nat /\ failures' \in Nat /\ failures' >= failures
          /\ Unlocked' => Unlocked \/ failures' >= failures + 1
      BY <1>2 DEF Flush, WriterEnds
    <2> QED BY <1>2, <2>1, <2>2, QuietKeeps DEF Flush, WriterEnds, HTTPInv, OrderInv
  <1>3. CASE Refused
    <2>1. TypeOK'
      BY <1>3, QuietTypes DEF Refused
    <2>2. /\ failures \in Nat /\ failures' \in Nat /\ failures' >= failures
          /\ Unlocked' => Unlocked \/ failures' >= failures + 1
      BY <1>3 DEF Refused
    <2> QED BY <1>3, <2>1, <2>2, QuietKeeps DEF Refused, HTTPInv, OrderInv
  <1>4. CASE GiveUp
    <2>1. TypeOK'
      BY <1>4, QuietTypes DEF GiveUp
    <2>2. /\ failures \in Nat /\ failures' \in Nat /\ failures' >= failures
          /\ Unlocked' => Unlocked \/ failures' >= failures + 1
      BY <1>4 DEF GiveUp
    <2> QED BY <1>4, <2>1, <2>2, QuietKeeps DEF GiveUp, HTTPInv, OrderInv
  <1>5. CASE CloseAtEnd
    <2>1. TypeOK'
      BY <1>5, QuietTypes DEF CloseAtEnd
    <2>2. /\ failures \in Nat /\ failures' \in Nat /\ failures' >= failures
          /\ Unlocked' => Unlocked \/ failures' >= failures + 1
      BY <1>5 DEF CloseAtEnd
    <2> QED BY <1>5, <2>1, <2>2, QuietKeeps DEF CloseAtEnd, HTTPInv, OrderInv
  <1> QED BY <1>2, <1>3, <1>4, <1>5

\* The buffer grows by the next record, and is flushed if that fills it.
LEMMA WriteKeeps ==
  ASSUME HTTPInv, NEW writer \in Writers, NEW len \in Sizes, WriteRecord(writer, len)
  PROVE  HTTPInv'
  <1>1. /\ buf' \in Seq(Item) /\ buf' # << >> /\ Len(buf') = Len(buf) + 1
        /\ buf'[Len(buf) + 1].id = records + 1
        /\ \A i \in 1 .. Len(buf) : buf'[i] = buf[i]
        /\ Ids(buf') = Ids(buf) \cup {records + 1}
        /\ Front(buf') = buf
    BY BufferGrows DEF WriteRecord, HTTPInv, OrderInv
  <1>2. /\ Unlocked /\ records' = records + 1 /\ UNCHANGED <<failures, received, dropped>>
        /\ IF Full(buf') THEN BeginFlush(writer) ELSE UNCHANGED <<caller, attempt, answer>>
    BY DEF WriteRecord
  <1>3. /\ buf \in Seq(Item) /\ Len(buf) \in Nat /\ records \in Nat
        /\ received \in Seq(Post) /\ Len(received) \in Nat
    BY BufferIsSeq DEF HTTPInv, OrderInv, Runs
  <1>4. TypeOK'
    <2>1. CallTypes'
      BY <1>2, TypesSplit, HTTPSinkAssumption
      DEF HTTPInv, OrderInv, CallTypes, WriteRecord, BeginFlush
    <2> QED BY <1>1, <1>2, <1>3, <2>1, TypesJoin
  <1>5. BufferLatest' /\ Past' = Past
    <2>1. Past' = Past /\ records = Past + Len(buf)
      <3>1. /\ Len(buf') = Len(buf) + 1 /\ records' = records + 1
            /\ Len(buf) \in Nat /\ records \in Nat
        BY <1>1, <1>2, <1>3
      <3> QED BY <3>1 DEF Past
    <2>2. Past \in Nat /\ \A i \in 1 .. Len(buf) : buf[i].id = Past + i
      BY <1>3 DEF HTTPInv, OrderInv, BufferLatest, Past
    <2>3. ASSUME NEW i \in 1 .. Len(buf) + 1
          PROVE  buf'[i].id = Past + i
      <3>1. CASE i = Len(buf) + 1
        BY <1>1, <2>1, <2>2, <1>3, <3>1
      <3>2. CASE i # Len(buf) + 1
        <4>1. i \in 1 .. Len(buf)
          BY <1>3, <3>2
        <4> QED BY <1>1, <2>2, <4>1
      <3> QED BY <3>1, <3>2
    <2> QED BY <1>1, <2>1, <2>2, <2>3 DEF BufferLatest
  <1>6. Runs'
    <2>1. ASSUME NEW k \in 1 .. Len(received)
          PROVE  received[k].payload[Len(received[k].payload)].id =< records + 1
      <3> DEFINE last == received[k].payload[Len(received[k].payload)]
      <3>0. received[k] \in Post
        BY <1>3, ElementOfSeq
      <3>1. received[k].payload \in Seq(Item) /\ received[k].payload # << >> /\ last.id =< records
        BY <3>0 DEF HTTPInv, OrderInv, Runs, Post
      <3>2. Len(received[k].payload) \in 1 .. Len(received[k].payload)
        BY <3>1, EmptySeq, LenProperties
      <3>3. last \in Item
        BY <3>1, <3>2, ElementOfSeq
      <3> QED BY <1>3, <3>1, <3>3, HTTPSinkAssumption DEF Item
    <2> QED BY <1>2, <2>1 DEF HTTPInv, OrderInv, Runs
  <1>7. LastPost'
    <2> SUFFICES ASSUME received # << >>
                 PROVE  LET p == received[Len(received)].payload
                        IN  \/ ~received[Len(received)].acked /\ Begins(p, buf')
                            \/ Gap(p, Past)
      BY <1>1, <1>2, <1>5 DEF LastPost, Gap
    <2> DEFINE p == received[Len(received)].payload
    <2>1. Begins(p, buf) => Begins(p, buf')
      <3>1. Len(p) \in Nat
        BY <1>3, ElementOfSeq DEF Post
      <3> QED BY <1>1, <1>3, <3>1 DEF Begins
    <2> QED BY <2>1 DEF HTTPInv, OrderInv, LastPost
  <1>8. InTurn'
    BY <1>2 DEF HTTPInv, OrderInv, InTurn, Gap
  <1>9. Accounted'
    <2>1. 1 .. records' = (1 .. records) \cup {records + 1}
      BY <1>2, <1>3
    <2>2. received' = received /\ dropped' = dropped
      BY <1>2
    <2> QED BY <1>1, <2>1, <2>2 DEF HTTPInv, Accounted
  <1>10. NotOver'
    <2>1. \A k \in 1 .. Len(received') :
            \E n \in 0 .. failures' + 1 : BelowCaps(received'[k].payload, n)
      BY <1>2 DEF HTTPInv, NotOver
    <2>2. failures \in Nat /\ failures' = failures /\ \E n \in 0 .. failures : BelowCaps(buf, n)
      BY <1>2 DEF HTTPInv, OrderInv, TypeOK, NotOver
    <2>3. CASE ~Full(buf')
      <3>1. SubSeq(buf', 1, Len(buf') - 0) = buf'
        <4>1. Len(buf') - 0 = Len(buf') /\ Len(buf') \in Nat
          BY <1>1
        <4> QED BY <1>1, <4>1, WholeSubSeq
      <3>2. BelowCaps(buf', 0)
        <4>1. ~(Len(buf') >= BatchRecords) /\ ~(Bytes(buf') >= BatchBytes)
          BY <2>3 DEF Full
        <4>2. Len(buf') - 0 = Len(buf')
          BY <1>1
        <4> QED BY <3>1, <4>1, <4>2 DEF BelowCaps
      <3>3. 0 \in 0 .. failures' /\ 0 \in 0 .. failures' + 1
        BY <2>2
      <3> QED BY <2>1, <3>2, <3>3 DEF NotOver
    <2>4. CASE Full(buf')
      <3>1. ~Unlocked'
        BY <1>2, <2>4, HTTPSinkAssumption DEF BeginFlush, Unlocked
      <3>2. PICK n \in 0 .. failures : BelowCaps(buf, n)
        BY <2>2
      <3>3. BelowCaps(buf', n + 1)
        <4> SUFFICES ASSUME n < Len(buf)
                     PROVE  BelowCaps(buf', n + 1)
          BY <1>1, <1>3, <2>2 DEF BelowCaps
        <4>1. Len(buf') - (n + 1) = Len(buf) - n /\ Len(buf) - n \in 0 .. Len(buf)
          BY <1>1, <1>3, <2>2
        <4>2. SubSeq(buf', 1, Len(buf) - n) = SubSeq(buf, 1, Len(buf) - n)
          BY <1>1, <1>3, <4>1, SamePrefix
        <4>3. /\ ~(Len(buf) - n >= BatchRecords)
              /\ ~(Bytes(SubSeq(buf, 1, Len(buf) - n)) >= BatchBytes)
          BY <3>2 DEF BelowCaps
        <4> QED BY <4>1, <4>2, <4>3 DEF BelowCaps
      <3>4. n + 1 \in 0 .. failures' + 1
        BY <2>2
      <3> QED BY <2>1, <3>1, <3>3, <3>4 DEF NotOver
    <2> QED BY <2>3, <2>4
  <1> QED BY <1>4, <1>5, <1>6, <1>7, <1>8, <1>9, <1>10 DEF HTTPInv, OrderInv

\* The records of the buffer are those after Past.
LEMMA BufferIds ==
  ASSUME TypeOK, BufferLatest
  PROVE  /\ Past \in Nat /\ Past =< records /\ records = Past + Len(buf)
         /\ Ids(buf) = Past + 1 .. records
         /\ buf # << >> => /\ Len(buf) >= 1 /\ buf[1].id = Past + 1 /\ buf[Len(buf)].id = records
                           /\ \A i \in 1 .. Len(buf) : buf[i].id = buf[1].id + i - 1
  <1>1. buf \in Seq(Item) /\ Len(buf) \in Nat /\ records \in Nat
    BY BufferIsSeq
  <1>2. Past \in Nat /\ records = Past + Len(buf) /\ Past =< records
    BY <1>1 DEF BufferLatest, Past
  <1>3. \A i \in 1 .. Len(buf) : buf[i].id = Past + i
    BY DEF BufferLatest
  <1>4. Ids(buf) = {buf[i].id : i \in 1 .. Len(buf)}
    BY <1>1 DEF Ids, Range
  <1>5. Ids(buf) = Past + 1 .. records
    <2>1. ASSUME NEW d \in Past + 1 .. records
          PROVE  d \in Ids(buf)
      <3>1. d - Past \in 1 .. Len(buf) /\ Past + (d - Past) = d
        BY <1>1, <1>2
      <3> QED BY <1>3, <1>4, <3>1
    <2>2. ASSUME NEW i \in 1 .. Len(buf)
          PROVE  buf[i].id \in Past + 1 .. records
      BY <1>1, <1>2, <1>3
    <2> QED BY <1>4, <2>1, <2>2
  <1>6. ASSUME buf # << >>
        PROVE  /\ Len(buf) >= 1 /\ buf[1].id = Past + 1 /\ buf[Len(buf)].id = records
               /\ \A i \in 1 .. Len(buf) : buf[i].id = buf[1].id + i - 1
    <2>1. Len(buf) >= 1
      BY <1>1, <1>6, EmptySeq
    <2> QED BY <1>1, <1>2, <1>3, <2>1
  <1> QED BY <1>2, <1>5, <1>6

\* The buffer becomes the last payload, which repeats the one before or follows it.
LEMMA PostKeeps ==
  ASSUME HTTPInv, Accepted \/ AnswerLost
  PROVE  HTTPInv'
  <1> DEFINE n == Len(received)
             posted == received'[n + 1]
  <1>0. PICK acked \in BOOLEAN :
          /\ Deliver(acked)
          /\ (acked /\ buf' = << >> /\ caller' = NoOne /\ UNCHANGED <<attempt, answer>>)
               \/ (~acked /\ UNCHANGED <<buf, caller>>
                   /\ attempt' = attempt + 1 /\ answer' = "failed")
    BY DEF Accepted, AnswerLost
  <1>1. /\ caller # NoOne /\ buf # << >> /\ attempt =< Retries
        /\ UNCHANGED <<writing, failures, closed, records, dropped>>
    BY DEF HTTPInv, OrderInv, TypeOK, Unlocked, Accepted, AnswerLost
  <1>2. /\ received' \in Seq(Post) /\ Len(received') = n + 1 /\ received' # << >>
        /\ \A k \in 1 .. n : received'[k] = received[k]
        /\ posted.payload = buf /\ posted.acked = acked
        /\ n \in Nat
        /\ UNION {Ids(p.payload) : p \in Range(received')}
             = (UNION {Ids(p.payload) : p \in Range(received)}) \cup Ids(buf)
    <2>1. TypeOK /\ Runs
      BY DEF HTTPInv, OrderInv
    <2>2. posted = [payload |-> buf, acked |-> acked]
      BY <1>0, <2>1, PostGrows
    <2>3. posted.payload = buf /\ posted.acked = acked
      BY <2>2
    <2> HIDE DEF posted
    <2> QED BY <1>0, <2>1, <2>3, PostGrows
  <1>3. /\ Past \in Nat /\ Past =< records /\ records = Past + Len(buf)
        /\ Len(buf) >= 1 /\ buf[1].id = Past + 1 /\ buf[Len(buf)].id = records
        /\ \A i \in 1 .. Len(buf) : buf[i].id = buf[1].id + i - 1
    BY <1>1, BufferIds DEF HTTPInv, OrderInv
  <1>4. buf \in Seq(Item) /\ Len(buf) \in Nat /\ records \in Nat
    BY BufferIsSeq DEF HTTPInv, OrderInv
  <1>5. /\ buf' = << >> => Past' = records
        /\ buf' = buf => Past' = Past
    <2>1. Len(<< >>) = 0
      OBVIOUS
    <2> QED BY <1>1, <1>4, <2>1 DEF Past
  <1>6. TypeOK'
    <2>1. CallTypes'
      BY <1>0, <1>1, TypesSplit, HTTPSinkAssumption DEF HTTPInv, OrderInv, CallTypes
    <2>2. buf' \in Seq(Item) /\ (~Unlocked' => buf' # << >>)
      <3>1. CASE acked
        BY <1>0, <3>1 DEF Unlocked
      <3>2. CASE ~acked
        BY <1>0, <1>1, <1>4, <3>2
      <3> QED BY <3>1, <3>2
    <2> QED BY <1>2, <2>1, <2>2, TypesJoin
  <1>7. BufferLatest'
    <2>1. CASE buf' = << >>
      BY <1>3, <1>4, <1>5, <2>1 DEF BufferLatest
    <2>2. CASE buf' = buf
      BY <1>5, <2>2 DEF HTTPInv, OrderInv, BufferLatest
    <2> QED BY <1>0, <2>1, <2>2
  <1>8. Runs'
    <2>1. ASSUME NEW k \in 1 .. n + 1
          PROVE  LET p == received'[k].payload IN
                   /\ p # << >> /\ p[Len(p)].id =< records
                   /\ \A i \in 1 .. Len(p) : p[i].id = p[1].id + i - 1
      <3>1. CASE k = n + 1
        <4>1. received'[k].payload = buf
          BY <1>2, <3>1
        <4>2. buf[Len(buf)].id =< records
          BY <1>3, <1>4
        <4> QED BY <1>1, <1>3, <4>1, <4>2
      <3>2. CASE k # n + 1
        <4>1. k \in 1 .. n
          BY <1>2, <3>2
        <4> QED BY <1>2, <4>1 DEF HTTPInv, OrderInv, Runs
      <3> QED BY <3>1, <3>2
    <2> QED BY <1>1, <1>2, <2>1 DEF Runs
  <1>9. LastPost'
    <2>1. CASE acked
      <3>1. Gap(buf, records)
        BY <1>3, <1>4 DEF Gap
      <3> QED BY <1>0, <1>1, <1>2, <1>5, <2>1, <3>1 DEF LastPost, Gap
    <2>2. CASE ~acked
      <3>1. Begins(buf, buf)
        BY <1>4 DEF Begins
      <3> QED BY <1>0, <1>1, <1>2, <2>2, <3>1 DEF LastPost
    <2> QED BY <2>1, <2>2
  <1>10. InTurn'
    <2>1. ASSUME NEW k \in 2 .. n + 1
          PROVE  LET before == received'[k - 1].payload
                     p      == received'[k].payload
                 IN  (~received'[k - 1].acked /\ Begins(before, p)) \/ Gap(before, p[1].id - 1)
      <3>1. CASE k = n + 1
        <4>1. n \in 1 .. n /\ k - 1 = n /\ received # << >>
          BY <1>2, <3>1
        <4>2. \/ ~received[n].acked /\ Begins(received[n].payload, buf)
              \/ Gap(received[n].payload, Past)
          BY <4>1 DEF HTTPInv, OrderInv, LastPost
        <4>3. Past = buf[1].id - 1
          BY <1>3
        <4> QED BY <1>2, <3>1, <4>1, <4>2, <4>3
      <3>2. CASE k # n + 1
        <4>1. k \in 2 .. n /\ k \in 1 .. n /\ k - 1 \in 1 .. n
          BY <1>2, <3>2
        <4>2. received'[k] = received[k] /\ received'[k - 1] = received[k - 1]
          BY <1>2, <4>1
        <4> QED BY <4>1, <4>2 DEF HTTPInv, OrderInv, InTurn
      <3> QED BY <3>1, <3>2
    <2> QED BY <1>1, <1>2, <2>1 DEF InTurn, Gap
  <1>11. Accounted'
    <2>1. buf' = << >> => Ids(buf') = {}
      BY DEF Ids, Range
    <2> QED BY <1>0, <1>1, <1>2, <2>1 DEF HTTPInv, Accounted
  <1>12. NotOver'
    <2>0. failures \in Nat /\ failures' = failures
      BY <1>1 DEF HTTPInv, OrderInv, TypeOK
    <2>1. /\ \E m \in 0 .. failures + 1 : BelowCaps(buf, m)
          /\ \A k \in 1 .. n : \E m \in 0 .. failures + 1 : BelowCaps(received[k].payload, m)
      BY DEF HTTPInv, NotOver
    <2>2. /\ \E m \in 0 .. failures + 1 : BelowCaps(buf', m)
          /\ Unlocked' => \E m \in 0 .. failures : BelowCaps(buf', m)
      <3>1. CASE acked
        <4>1. BelowCaps(buf', 0)
          <5>1. Len(<< >>) = 0
            OBVIOUS
          <5> QED BY <1>0, <3>1, <5>1 DEF BelowCaps
        <4>2. 0 \in 0 .. failures /\ 0 \in 0 .. failures + 1
          BY <2>0
        <4> QED BY <4>1, <4>2
      <3>2. CASE ~acked
        <4>1. buf' = buf /\ ~Unlocked'
          BY <1>0, <1>1, <3>2 DEF Unlocked
        <4> QED BY <2>1, <4>1
      <3> QED BY <3>1, <3>2
    <2>3. ASSUME NEW k \in 1 .. n + 1
          PROVE  \E m \in 0 .. failures + 1 : BelowCaps(received'[k].payload, m)
      <3>1. k = n + 1 \/ k \in 1 .. n
        BY <1>2
      <3> QED BY <1>2, <2>1, <3>1
    <2> QED BY <1>2, <2>0, <2>2, <2>3 DEF NotOver
  <1> QED BY <1>6, <1>7, <1>8, <1>9, <1>10, <1>11, <1>12 DEF HTTPInv, OrderInv

\* The buffer is dropped: the gap after the last payload grows by it.
LEMMA DropKeeps ==
  ASSUME HTTPInv, DropDenied
  PROVE  HTTPInv'
  <1>1. /\ buf # << >> /\ buf' = << >> /\ caller' = NoOne
        /\ dropped' = dropped \cup Ids(buf)
        /\ UNCHANGED <<attempt, answer, writing, failures, closed, records, received>>
    BY DEF HTTPInv, OrderInv, TypeOK, Unlocked, DropDenied
  <1>2. /\ Past \in Nat /\ Past =< records /\ records = Past + Len(buf)
        /\ Ids(buf) = Past + 1 .. records
        /\ \A i \in 1 .. Len(buf) : buf[i].id = Past + i
    BY BufferIds DEF HTTPInv, OrderInv, BufferLatest
  <1>3. buf \in Seq(Item) /\ Len(buf) \in Nat /\ records \in Nat /\ records =< RecordBound
    BY BufferIsSeq DEF HTTPInv, OrderInv
  <1>4. received \in Seq(Post)
    BY DEF HTTPInv, OrderInv, Runs
  <1>5. Past' = records
    <2>1. Len(<< >>) = 0
      OBVIOUS
    <2> QED BY <1>1, <1>3, <2>1 DEF Past
  <1>6. TypeOK'
    <2>1. Ids(buf) \subseteq 1 .. RecordBound
      BY <1>2, <1>3, HTTPSinkAssumption
    <2>2. CallTypes'
      BY <1>1, <2>1, TypesSplit DEF HTTPInv, OrderInv, CallTypes
    <2>3. buf' \in Seq(Item) /\ (~Unlocked' => buf' # << >>)
      BY <1>1 DEF Unlocked
    <2> QED BY <1>1, <1>4, <2>2, <2>3, TypesJoin
  <1>7. BufferLatest'
    BY <1>1, <1>3, <1>5 DEF BufferLatest
  <1>8. Runs'
    BY <1>1 DEF HTTPInv, OrderInv, Runs
  <1>9. LastPost'
    <2> DEFINE p == received[Len(received)].payload
    <2> SUFFICES ASSUME received # << >>
                 PROVE  p[Len(p)].id =< records /\ p[Len(p)].id + 1 .. records \subseteq dropped'
      BY <1>1, <1>5 DEF LastPost, Gap
    <2>1. Len(received) \in 1 .. Len(received) /\ received[Len(received)] \in Post
      <3>1. Len(received) \in Nat /\ Len(received) # 0
        BY <1>4, EmptySeq
      <3> QED BY <1>4, <3>1, ElementOfSeq
    <2>2. p \in Seq(Item) /\ p # << >> /\ p[Len(p)].id =< records
      BY <2>1 DEF HTTPInv, OrderInv, Runs, Post
    <2>3. Len(p) \in 1 .. Len(p)
      BY <2>2, EmptySeq, LenProperties
    <2>4. p[Len(p)].id \in Nat
      <3>1. p[Len(p)] \in Item
        BY <2>2, <2>3, ElementOfSeq
      <3> QED BY <3>1, HTTPSinkAssumption DEF Item
    <2>5. CASE Begins(p, buf)
      <3>1. p[Len(p)].id = Past + Len(p)
        <4>1. Len(p) \in 1 .. Len(buf) /\ p[Len(p)] = buf[Len(p)]
          BY <1>3, <2>3, <2>5 DEF Begins
        <4> QED BY <1>2, <4>1
      <3> QED BY <1>1, <1>2, <2>2, <2>3, <3>1
    <2>6. CASE Gap(p, Past)
      <3>1. p[Len(p)].id + 1 .. records = (p[Len(p)].id + 1 .. Past) \cup (Past + 1 .. records)
        BY <1>2, <1>3, <2>4, <2>6 DEF Gap
      <3> QED BY <1>1, <1>2, <2>2, <2>6, <3>1 DEF Gap
    <2> QED BY <2>5, <2>6 DEF HTTPInv, OrderInv, LastPost
  <1>10. InTurn'
    BY <1>1 DEF HTTPInv, OrderInv, InTurn, Gap
  <1>11. Accounted'
    <2>1. Ids(buf') = {}
      BY <1>1 DEF Ids, Range
    <2> QED BY <1>1, <2>1 DEF HTTPInv, Accounted
  <1>12. NotOver'
    <2>1. BelowCaps(buf', 0)
      <3>1. Len(<< >>) = 0
        OBVIOUS
      <3> QED BY <1>1, <3>1 DEF BelowCaps
    <2>2. failures' = failures /\ 0 \in 0 .. failures /\ 0 \in 0 .. failures + 1
      BY <1>1 DEF HTTPInv, OrderInv, TypeOK
    <2> QED BY <1>1, <2>1, <2>2 DEF HTTPInv, NotOver
  <1> QED BY <1>6, <1>7, <1>8, <1>9, <1>10, <1>11, <1>12 DEF HTTPInv, OrderInv
----------------------------------------------------------------------------
(***************************************************************************)
(* The invariant holds, and with it the properties of the runs.            *)
(***************************************************************************)
LEMMA HTTPInit == Init => HTTPInv
  <1> SUFFICES ASSUME Init
               PROVE  HTTPInv
    OBVIOUS
  <1>1. /\ buf = << >> /\ received = << >> /\ records = 0 /\ dropped = {} /\ caller = NoOne
        /\ Len(buf) = 0 /\ Len(received) = 0
    BY DEF Init
  <1>2. TypeOK
    <2>1. buf \in Seq([id : 1 .. RecordBound, len : Sizes]) /\ DOMAIN received = {}
      BY <1>1
    <2>2. CallTypes
      <3>1. 0 \in 0 .. Retries + 1 /\ 0 \in 0 .. RecordBound
        BY HTTPSinkAssumption
      <3>2. failures \in Nat /\ closed \in BOOLEAN
        BY DEF Init
      <3>3. caller \in Writers \cup {Parent, NoOne} /\ writing \subseteq Writers
        BY DEF Init
      <3> QED BY <1>1, <3>1, <3>2, <3>3 DEF Init, CallTypes
    <2> QED BY <1>1, <2>1, <2>2 DEF TypeOK, CallTypes, Unlocked
  <1>3. BufferLatest /\ Runs
    BY <1>1 DEF BufferLatest, Past, Runs
  <1>4. LastPost /\ InTurn
    BY <1>1 DEF LastPost, InTurn
  <1>5. Accounted
    <2>1. Ids(buf) = {} /\ Range(received) = {}
      BY <1>1 DEF Ids, Range
    <2>2. 1 .. records = {}
      BY <1>1
    <2> QED BY <1>1, <2>1, <2>2 DEF Accounted
  <1>6. NotOver
    <2>1. BelowCaps(buf, 0) /\ failures = 0
      BY <1>1 DEF Init, BelowCaps
    <2> QED BY <1>1, <2>1 DEF NotOver
  <1> QED BY <1>2, <1>3, <1>4, <1>5, <1>6 DEF HTTPInv, OrderInv

LEMMA HTTPStep == HTTPInv /\ [Next]_vars => HTTPInv'
  <1> SUFFICES ASSUME HTTPInv, [Next]_vars
               PROVE  HTTPInv'
    OBVIOUS
  <1>1. ASSUME NEW writer \in Writers, NEW len \in Sizes, WriteRecord(writer, len)
        PROVE  HTTPInv'
    BY <1>1, WriteKeeps
  <1>2. ASSUME NEW writer \in Writers, Flush(writer) \/ WriterEnds(writer)
        PROVE  HTTPInv'
    BY <1>2, CallKeeps
  <1>3. CASE Refused \/ GiveUp \/ CloseAtEnd
    BY <1>3, CallKeeps
  <1>4. CASE Accepted \/ AnswerLost
    BY <1>4, PostKeeps
  <1>5. CASE DropDenied
    BY <1>5, DropKeeps
  <1>6. CASE UNCHANGED vars
    <2>1. CallTypes /\ (~Unlocked => buf # << >>)
      BY TypesSplit DEF HTTPInv, OrderInv
    <2>2. CallTypes' /\ Unlocked' = Unlocked /\ failures' = failures /\ UNCHANGED <<buf, history>>
      BY <1>6, <2>1 DEF vars, sinkVars, history, CallTypes, Unlocked
    <2>3. TypeOK'
      BY <2>1, <2>2, QuietTypes DEF history
    <2>4. failures \in Nat /\ failures' \in Nat /\ failures' >= failures
      BY <2>1, <2>2 DEF CallTypes
    <2> QED BY <2>2, <2>3, <2>4, QuietKeeps DEF HTTPInv, OrderInv
  <1> QED BY <1>1, <1>2, <1>3, <1>4, <1>5, <1>6 DEF Next, InCall

\* A step of any writer or of the final Close keeps the order, the accounts and the caps.
THEOREM HTTPInvariant == Spec => []HTTPInv
  <1> QED BY HTTPInit, HTTPStep, PTL DEF Spec

(***************************************************************************)
(* No record disappears: it is buffered, has reached the collector, or was *)
(* dropped on a 401 or 403 (sink_http.go), whatever the collector answers. *)
(***************************************************************************)
THEOREM NothingDisappears == Spec => []Accounted
  <1>1. HTTPInv => Accounted
    BY DEF HTTPInv
  <1> QED BY <1>1, HTTPInvariant, PTL

(***************************************************************************)
(* Payloads arrive in the order of writing, without gaps but for what was  *)
(* dropped, and repeat records only after an answer that was lost.         *)
(***************************************************************************)
THEOREM RedeliveredInOrder == Spec => []Redelivery
  <1>1. ASSUME HTTPInv
        PROVE  Redelivery
    <2>1. received \in Seq(Post) /\ DOMAIN received = 1 .. Len(received) /\ Len(received) \in Nat
      BY <1>1 DEF HTTPInv, OrderInv, Runs
    <2>2. ASSUME NEW k \in 1 .. Len(received)
          PROVE  LET p == received[k].payload IN
                   /\ p \in Seq(Item) /\ DOMAIN p = 1 .. Len(p) /\ Len(p) \in Nat \ {0}
                   /\ p[1].id \in Nat /\ Last(p) = p[Len(p)] /\ Last(p).id \in Nat
                   /\ \A i \in 1 .. Len(p) : p[i].id = p[1].id + i - 1
      <3> DEFINE p == received[k].payload
      <3>1. p \in Seq(Item) /\ p # << >>
        <4>1. received[k] \in Post
          BY <2>1, ElementOfSeq
        <4> QED BY <1>1, <4>1 DEF Post, HTTPInv, OrderInv, Runs
      <3>2. Len(p) \in Nat \ {0} /\ DOMAIN p = 1 .. Len(p)
        BY <3>1, EmptySeq, LenProperties
      <3>3. p[1] \in Item /\ p[Len(p)] \in Item
        BY <3>1, <3>2, ElementOfSeq
      <3>4. \A i \in 1 .. Len(p) : p[i].id = p[1].id + i - 1
        BY <1>1 DEF HTTPInv, OrderInv, Runs
      <3> QED BY <3>1, <3>2, <3>3, <3>4, HTTPSinkAssumption DEF Item, Last
    <2>3. \A k \in DOMAIN received : LET p == received[k].payload IN
            \A i \in DOMAIN p : p[i].id = p[1].id + i - 1
      BY <2>1, <2>2
    <2>4. ASSUME NEW k \in 2 .. Len(received)
          PROVE  LET before == received[k - 1].payload
                     p      == received[k].payload
                 IN  \/ ~received[k - 1].acked /\ IsPrefix(before, p)
                     \/ /\ Last(before).id < p[1].id
                        /\ Last(before).id + 1 .. p[1].id - 1 \subseteq dropped
      <3> DEFINE before == received[k - 1].payload
                 p      == received[k].payload
      <3>1. k - 1 \in 1 .. Len(received) /\ k \in 1 .. Len(received)
        BY <2>1
      <3>2. /\ before \in Seq(Item) /\ Len(before) \in Nat /\ Last(before) = before[Len(before)]
            /\ Last(before).id \in Nat
        BY <2>2, <3>1
      <3>3. p \in Seq(Item) /\ Len(p) \in Nat /\ p[1].id \in Nat
        BY <2>2, <3>1
      <3>4. CASE ~received[k - 1].acked /\ Begins(before, p)
        <4>1. Len(before) =< Len(p) /\ \A i \in 1 .. Len(before) : before[i] = p[i]
          BY <3>4 DEF Begins
        <4>2. IsPrefix(before, p)
          <5>1. /\ SubSeq(before, 1, Len(before)) \in Seq(Item)
                /\ SubSeq(p, 1, Len(before)) \in Seq(Item)
                /\ Len(SubSeq(before, 1, Len(before))) = Len(before)
                /\ Len(SubSeq(p, 1, Len(before))) = Len(before)
                /\ \A i \in 1 .. Len(before) : /\ SubSeq(before, 1, Len(before))[i] = before[i]
                                               /\ SubSeq(p, 1, Len(before))[i] = p[i]
            BY <3>2, <3>3, <4>1, SubSeqProperties
          <5>2. SubSeq(before, 1, Len(before)) = SubSeq(p, 1, Len(before))
            BY <4>1, <5>1, SeqEqual
          <5> QED BY <4>1, <5>2 DEF IsPrefix
        <4> QED BY <3>4, <4>2
      <3>5. CASE Gap(before, p[1].id - 1)
        <4>1. Last(before).id =< p[1].id - 1 /\ Last(before).id + 1 .. p[1].id - 1 \subseteq dropped
          BY <3>2, <3>5 DEF Gap
        <4>2. Last(before).id < p[1].id
          BY <3>2, <3>3, <4>1
        <4> QED BY <4>1, <4>2
      <3> QED BY <1>1, <3>4, <3>5 DEF HTTPInv, OrderInv, InTurn
    <2> QED BY <2>3, <2>4 DEF Redelivery
  <1> QED BY <1>1, HTTPInvariant, PTL

(***************************************************************************)
(* Whatever the collector answers and whichever writers fail, no payload   *)
(* has reached a cap without its last record and one for each call that    *)
(* has failed (sink_http.go 48-56), and every variable keeps to its type.  *)
(***************************************************************************)
THEOREM WithinTheCaps == Spec => []Caps
  <1>1. ASSUME HTTPInv
        PROVE  Caps
    <2>1. TypeOK /\ Runs /\ NotOver
      BY <1>1 DEF HTTPInv, OrderInv
    <2>2. DOMAIN received = 1 .. Len(received)
      BY <2>1 DEF Runs
    <2> QED BY <2>1, <2>2 DEF Caps, NotOver
  <1> QED BY <1>1, HTTPInvariant, PTL
================================================================================
