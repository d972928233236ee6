------------------------------- MODULE Framer -------------------------------
(***************************************************************************)
(* From bytes to records: the read goroutine of StartChunkReader           *)
(* (capture.go), the channels it shares with the framer, and the framer    *)
(* (framer.go) that cuts the stream into lines, fragments of at most       *)
(* MaxFragmentBytes, idle flushes and a rest at the end.                   *)
(*                                                                         *)
(* Three kinds of byte matter: "x", "\r" and "\n".  A record is what       *)
(* Push is given: its line, its end and its Continued flag; Push itself is *)
(* the subject of module Queue and only delays the framer here.            *)
(***************************************************************************)
EXTENDS Integers, Sequences, FiniteSets, SequencesExt

CONSTANTS
  MaxFragmentBytes,
  PartialFlush,   \* TRUE iff PartialFlushInterval > 0
  ChannelSize,    \* channelSize, 16 in the code
  ChunkSize,      \* longest read
  StreamBound     \* bound: bytes in the stream

ASSUME FramerAssumption ==
  /\ MaxFragmentBytes \in Nat \ {0}
  /\ PartialFlush \in BOOLEAN
  /\ ChannelSize \in Nat \ {0} /\ ChunkSize \in Nat \ {0}
  /\ StreamBound \in Nat

Byte == {"x", "\r", "\n"}

\* One buffer more than the channel of chunks has slots.
Buffers == 0 .. ChannelSize

NoBuffer == -1
NoChunk == [buf |-> NoBuffer, len |-> 0]     \* a chunk that carries an error

VARIABLES
  rpc,        \* the read goroutine: "take", "read", "send", "error", "return", "returned"
  rchunk,     \* the buffer it holds and the bytes read into it
  rerr,       \* what came with the last read: "none", "eof" or "error"
  count,      \* bytes read so far
  free,       \* the channel of free buffers
  memory,     \* buffer -> its bytes
  chunks,     \* the channel of chunks
  eof,        \* it is closed
  fpc,        \* the framer: "select", "scan", "cut", "done"
  chunk,      \* the chunk it consumes
  pos,        \* bytes of it already copied
  newline,    \* buf has been completed by a newline
  buf,        \* the pending line
  continued,
  timer,      \* the partial-flush timer is running
  fed,        \* history: bytes copied by the framer so far
  out         \* history: records pushed so far

readerVars == <<rpc, rchunk, rerr, count, memory, eof>>
framerVars == <<fpc, chunk, pos, newline, buf, continued, timer, fed, out>>
vars == <<readerVars, free, chunks, framerVars>>

Init ==
  /\ rpc = "take" /\ rchunk = NoChunk /\ rerr = "none" /\ count = 0
  /\ free = [i \in 1 .. ChannelSize + 1 |-> i - 1]
  /\ memory = [b \in Buffers |-> << >>]
  /\ chunks = << >> /\ eof = FALSE
  /\ fpc = "select" /\ chunk = NoChunk /\ pos = 0 /\ newline = FALSE
  /\ buf = << >> /\ continued = FALSE /\ timer = FALSE
  /\ fed = << >> /\ out = << >>
----------------------------------------------------------------------------
(***************************************************************************)
(* The read goroutine.                                                     *)
(***************************************************************************)

\* Where the loop goes after what came with a read.
AfterRead(err) == [none |-> "take", eof |-> "return", error |-> "error"][err]

TakeBuffer ==
  /\ rpc = "take" /\ free # << >>
  /\ rchunk' = [buf |-> Head(free), len |-> 0]
  /\ free' = Tail(free)
  /\ rpc' = "read"
  /\ UNCHANGED <<rerr, count, memory, chunks, eof, framerVars>>

\* r.Read returned these bytes, over whatever the buffer held, and err.
Read(bytes, err) ==
  /\ rpc = "read" /\ count + Len(bytes) =< StreamBound
  /\ memory' = [memory EXCEPT ![rchunk.buf] =
                  bytes \o SubSeq(@, Len(bytes) + 1, Len(@))]
  /\ rchunk' = [rchunk EXCEPT !.len = Len(bytes)]
  /\ rerr' = err
  /\ count' = count + Len(bytes)
  /\ rpc' = "send"
  /\ UNCHANGED <<free, chunks, eof, framerVars>>

\* r.Read returned no byte: the buffer goes straight back.
ReadNothing(err) ==
  /\ rpc = "read" /\ Len(free) < ChannelSize + 1
  /\ free' = Append(free, rchunk.buf)
  /\ rchunk' = NoChunk
  /\ rpc' = AfterRead(err)
  /\ UNCHANGED <<rerr, count, memory, chunks, eof, framerVars>>

\* Mutant: the buffer returns to the free channel while its chunk is queued.
SendChunk_KeepsBuffer ==
  /\ rpc = "send" /\ Len(chunks) < ChannelSize
  /\ chunks' = Append(chunks, rchunk)
  /\ free' = Append(free, rchunk.buf)
  /\ rchunk' = NoChunk
  /\ rpc' = AfterRead(rerr)
  /\ UNCHANGED <<rerr, count, memory, eof, framerVars>>

SendChunk ==
  /\ rpc = "send" /\ Len(chunks) < ChannelSize
  /\ chunks' = Append(chunks, rchunk)
  /\ rchunk' = NoChunk
  /\ rpc' = AfterRead(rerr)
  /\ UNCHANGED <<rerr, count, free, memory, eof, framerVars>>

SendError ==
  /\ rpc = "error" /\ Len(chunks) < ChannelSize
  /\ chunks' = Append(chunks, NoChunk)
  /\ rpc' = "return"
  /\ UNCHANGED <<rchunk, rerr, count, free, memory, eof, framerVars>>

\* Mutant: the goroutine returns without closing the channel.
CloseChunks_LeftOpen ==
  /\ rpc = "return"
  /\ rpc' = "returned"
  /\ UNCHANGED <<rchunk, rerr, count, free, memory, chunks, eof, framerVars>>

CloseChunks ==
  /\ rpc = "return"
  /\ eof' = TRUE /\ rpc' = "returned"
  /\ UNCHANGED <<rchunk, rerr, count, free, memory, chunks, framerVars>>

Reads ==
  \E err \in {"none", "eof", "error"} :
    \/ ReadNothing(err)
    \/ \E n \in 1 .. ChunkSize : \E bytes \in [1 .. n -> Byte] : Read(bytes, err)

Reader == TakeBuffer \/ Reads \/ SendChunk \/ SendError \/ CloseChunks
----------------------------------------------------------------------------
(***************************************************************************)
(* The framer.                                                             *)
(***************************************************************************)

trimCR(line) ==
  IF line # << >> /\ Last(line) = "\r" THEN Front(line) ELSE line

\* emit: Push a record with the flag as it stands.
Emit(end, line) ==
  out' = Append(out, [end |-> end, line |-> line, continued |-> continued])

\* Mutant: the timer is left running when the pending line has gone.
ResetTimer_Running(pending) == timer' = (timer \/ (PartialFlush /\ pending # << >>))

\* resetTimer, given the pending line it looks at: a tick not yet received is
\* drained, so the timer runs exactly while there is something to flush.
ResetTimer(pending) == timer' = (PartialFlush /\ pending # << >>)

\* emitEOF: the rest of the stream, if any.
EmitRest ==
  /\ IF buf = << >> THEN UNCHANGED out ELSE Emit("eof", buf)
  /\ buf' = << >>
  /\ timer' = FALSE
  /\ fpc' = "done"
  /\ UNCHANGED <<readerVars, free, chunk, pos, newline, continued, fed>>

EndOfChunks ==
  /\ fpc = "select" /\ chunks = << >> /\ eof
  /\ EmitRest
  /\ UNCHANGED chunks

ReceiveError ==
  /\ fpc = "select" /\ chunks # << >> /\ Head(chunks) = NoChunk
  /\ chunks' = Tail(chunks)
  /\ EmitRest

ReceiveChunk ==
  /\ fpc = "select" /\ chunks # << >> /\ Head(chunks) # NoChunk
  /\ chunk' = Head(chunks) /\ chunks' = Tail(chunks)
  /\ pos' = 0
  /\ fpc' = "scan"
  /\ UNCHANGED <<readerVars, free, newline, buf, continued, timer, fed, out>>

\* The part of the chunk not copied yet, read where it lies.
Rest == SubSeq(memory[chunk.buf], pos + 1, chunk.len)

\* consume: copy up to the next newline, or all that is left.
Scan ==
  /\ fpc = "scan" /\ pos < chunk.len
  /\ LET line  == SelectInSeq(Rest, LAMBDA b : b = "\n")
         taken == IF line = 0 THEN Rest ELSE SubSeq(Rest, 1, line - 1)
         upto  == IF line = 0 THEN chunk.len ELSE pos + line
     IN  /\ buf' = buf \o taken
         /\ fed' = fed \o SubSeq(Rest, 1, upto - pos)
         /\ pos' = upto
         /\ newline' = (line # 0)
  /\ fpc' = "cut"
  /\ UNCHANGED <<readerVars, free, chunks, chunk, continued, timer, out>>

\* Mutants: what follows the fragment is forgotten; fragments are cut from a
\* line that is exactly as long as the limit.
Split_DropsRest ==
  /\ fpc = "cut" /\ Len(buf) > MaxFragmentBytes
  /\ Emit("max_bytes", SubSeq(buf, 1, MaxFragmentBytes))
  /\ buf' = << >>
  /\ continued' = TRUE
  /\ UNCHANGED <<readerVars, free, chunks, fpc, chunk, pos, newline, timer, fed>>

Split_AtLimit ==
  /\ fpc = "cut" /\ Len(buf) >= MaxFragmentBytes
  /\ Emit("max_bytes", SubSeq(buf, 1, MaxFragmentBytes))
  /\ buf' = SubSeq(buf, MaxFragmentBytes + 1, Len(buf))
  /\ continued' = TRUE
  /\ UNCHANGED <<readerVars, free, chunks, fpc, chunk, pos, newline, timer, fed>>

\* consume: split off fragments while the pending line is too long.
Split ==
  /\ fpc = "cut" /\ Len(buf) > MaxFragmentBytes
  /\ Emit("max_bytes", SubSeq(buf, 1, MaxFragmentBytes))
  /\ buf' = SubSeq(buf, MaxFragmentBytes + 1, Len(buf))
  /\ continued' = TRUE
  /\ UNCHANGED <<readerVars, free, chunks, fpc, chunk, pos, newline, timer, fed>>

EndLine ==
  /\ fpc = "cut" /\ Len(buf) =< MaxFragmentBytes /\ newline
  /\ Emit("newline", trimCR(buf))
  /\ buf' = << >>
  /\ continued' = FALSE
  /\ fpc' = "scan"
  /\ UNCHANGED <<readerVars, free, chunks, chunk, pos, newline, timer, fed>>

KeepPending ==
  /\ fpc = "cut" /\ Len(buf) =< MaxFragmentBytes /\ ~newline
  /\ fpc' = "scan"
  /\ UNCHANGED <<readerVars, free, chunks, chunk, pos, newline, buf, continued, timer, fed, out>>

\* The chunk is copied: releaseChunk and resetTimer.
Release ==
  /\ fpc = "scan" /\ pos = chunk.len
  /\ Len(free) < ChannelSize + 1
  /\ free' = Append(free, chunk.buf)
  /\ chunk' = NoChunk /\ pos' = 0
  /\ ResetTimer(buf)
  /\ fpc' = "select"
  /\ UNCHANGED <<readerVars, chunks, newline, buf, continued, fed, out>>

\* The line has been idle for PartialFlushInterval.
Timeout ==
  /\ fpc = "select" /\ timer
  /\ Emit("timeout", buf)
  /\ buf' = << >>
  /\ continued' = TRUE
  /\ ResetTimer(<< >>)
  /\ UNCHANGED <<readerVars, free, chunks, fpc, chunk, pos, newline, fed>>

FramerStep ==
  \/ EndOfChunks \/ ReceiveError \/ ReceiveChunk
  \/ Scan \/ Split \/ EndLine \/ KeepPending \/ Release \/ Timeout

Next == Reader \/ FramerStep

Spec == Init /\ [][Next]_vars

\* Both goroutines run when they can; nothing makes a read return.
ReaderGoesOn == TakeBuffer \/ SendChunk \/ SendError \/ CloseChunks

FramerGoesOn ==
  \/ EndOfChunks \/ ReceiveError \/ ReceiveChunk
  \/ Scan \/ Split \/ EndLine \/ KeepPending \/ Release

FairSpec == Spec /\ WF_vars(ReaderGoesOn) /\ WF_vars(FramerGoesOn)
----------------------------------------------------------------------------
\* Every variable keeps to its type, and positions to their chunk.
TypeOK ==
  /\ rpc \in {"take", "read", "send", "error", "return", "returned"}
  /\ rchunk \in [buf : Buffers \cup {NoBuffer}, len : 0 .. ChunkSize]
  /\ rerr \in {"none", "eof", "error"}
  /\ count \in 0 .. StreamBound
  /\ free \in Seq(Buffers)
  /\ memory \in [Buffers -> Seq(Byte)]
  /\ chunks \in Seq([buf : Buffers \cup {NoBuffer}, len : 0 .. ChunkSize])
  /\ eof \in BOOLEAN
  /\ fpc \in {"select", "scan", "cut", "done"}
  /\ chunk \in [buf : Buffers \cup {NoBuffer}, len : 0 .. ChunkSize]
  /\ pos \in 0 .. ChunkSize
  /\ newline \in BOOLEAN /\ continued \in BOOLEAN /\ timer \in BOOLEAN
  /\ buf \in Seq(Byte) /\ fed \in Seq(Byte)
  /\ out \in Seq([end : {"newline", "max_bytes", "timeout", "eof"},
                  line : Seq(Byte), continued : BOOLEAN])

(***************************************************************************)
(* Each buffer has one owner: the free channel, the read goroutine, a      *)
(* queued chunk or the framer.  So no read overwrites bytes the framer has *)
(* not copied yet (capture.go 71-72), and giving a buffer back never       *)
(* blocks.  TypeOK says the rest of what a buffer and a chunk may be.       *)
(***************************************************************************)
Owned == free \o <<rchunk.buf, chunk.buf>> \o [i \in DOMAIN chunks |-> chunks[i].buf]

OneOwner ==
  /\ TypeOK
  /\ \A b \in Buffers : Cardinality({i \in DOMAIN Owned : Owned[i] = b}) = 1

(***************************************************************************)
(* The framer that sees the stream one byte at a time.                     *)
(***************************************************************************)
Feed(f, b) ==
  IF b = "\n"
  THEN [buf |-> << >>, cont |-> FALSE,
        out |-> Append(f.out, [end |-> "newline", line |-> trimCR(f.buf), continued |-> f.cont])]
  ELSE IF Len(f.buf) = MaxFragmentBytes
  THEN [buf |-> <<b>>, cont |-> TRUE,
        out |-> Append(f.out, [end |-> "max_bytes", line |-> f.buf, continued |-> f.cont])]
  ELSE [f EXCEPT !.buf = Append(@, b)]

FeedAll(f, s) == FoldLeft(Feed, f, s)

ByteWise(s) == FeedAll([buf |-> << >>, cont |-> FALSE, out |-> << >>], s)

(***************************************************************************)
(* How reads cut the stream is invisible: without idle flushes the records *)
(* and the pending line are those of the byte-wise framer, so a line is    *)
(* split at the same places wherever chunks begin and end.                 *)
(***************************************************************************)
ChunkingInvisible ==
  fpc = "select" /\ (\A i \in DOMAIN out : out[i].end # "timeout")
    => LET f == ByteWise(fed)
       IN  out = f.out /\ buf = f.buf /\ continued = f.cont

(***************************************************************************)
(* Idle flushes lose nothing either: joined again, the records and the     *)
(* pending line are the stream, byte by byte, with the carriage return     *)
(* that trimCR has taken from the ends of some lines and from nowhere      *)
(* else.                                                                   *)
(***************************************************************************)
LineEnds == {i \in DOMAIN out : out[i].end = "newline"}

\* What a record stands for in the stream.
Spelling(record, crlf) ==
  record.line \o (IF crlf THEN <<"\r">> ELSE << >>)
              \o (IF record.end = "newline" THEN <<"\n">> ELSE << >>)

Rejoined(trimmed) == FlattenSeq([i \in DOMAIN out |-> Spelling(out[i], i \in trimmed)])

NothingLost ==
  fpc # "cut" => \E trimmed \in SUBSET LineEnds : Rejoined(trimmed) \o buf = fed

(***************************************************************************)
(* Continued marks exactly the records that go on with the line of the     *)
(* record before, which is what a reader joins fragments by; a record that *)
(* is not a line's end is never empty; no line exceeds the limit.          *)
(***************************************************************************)
Fragments ==
  \A i \in DOMAIN out :
    /\ out[i].continued <=> (i > 1 /\ out[i - 1].end \in {"max_bytes", "timeout"})
    /\ out[i].end # "newline" => out[i].line # << >>
    /\ Len(out[i].line) =< MaxFragmentBytes

(***************************************************************************)
(* Back in its select the framer holds at most MaxFragmentBytes, however   *)
(* long the line (framer.go 143-145), and its timer runs exactly while a   *)
(* line is pending, so that an idle flush finds something to flush.        *)
(***************************************************************************)
PendingBounded ==
  fpc = "select" => /\ Len(buf) =< MaxFragmentBytes
                    /\ timer <=> (PartialFlush /\ buf # << >>)

(***************************************************************************)
(* At the end of the stream or after a read error the framer returns; the  *)
(* two goroutines never block each other on their two channels.            *)
(***************************************************************************)
StreamEnds == (rpc \in {"return", "error"}) ~> fpc = "done"

\* As long as the stream goes on, a reader that wants another buffer, when it has
\* read before, gets one back from the framer and reads on (capture.go 67-70,
\* framer.go 115-120).
ReadsGoOn == (rpc = "take" /\ count > 0) ~> (rpc = "read")

\* Records can be joined to the stream by the Continued flags: NothingLost with
\* Fragments.
RecordsJoin == NothingLost /\ Fragments

\* Neither goroutine is ever stuck: StreamEnds with ReadsGoOn.
GoroutinesGoOn == StreamEnds /\ ReadsGoOn
============================================================================
