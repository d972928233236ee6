----------------------------- MODULE FramerProofs -----------------------------
(***************************************************************************)
(* Proofs about the read goroutine and the framer, for every size of       *)
(* fragment, chunk, channel and stream: the buffers they share are never   *)
(* used by both, the framer holds no more than a fragment, its records     *)
(* tell how they are joined, joined they are the stream, and but for idle  *)
(* flushes they are those of a framer that is fed one byte at a time.      *)
(***************************************************************************)
EXTENDS Framer, SequenceTheorems, FiniteSetTheorems, WellFoundedInduction, TLAPS

(***************************************************************************)
(* The inductive invariant, in parts.                                      *)
(***************************************************************************)

\* A chunk names a buffer that holds as many bytes as it says, or an error.
Filled(c) == c.buf \in Buffers /\ c.len =< Len(memory[c.buf])

\* What the two goroutines hold where they stand, and what is queued.
InHand ==
  /\ rpc \in {"read", "send"} => rchunk.buf \in Buffers
  /\ rpc \notin {"read", "send"} => rchunk = NoChunk
  /\ rpc = "send" => Filled(rchunk)
  /\ fpc \in {"scan", "cut"} => Filled(chunk) /\ pos =< chunk.len
  /\ fpc \notin {"scan", "cut"} => chunk = NoChunk
  /\ \A i \in 1 .. Len(chunks) : chunks[i] = NoChunk \/ Filled(chunks[i])

\* No buffer is in two places,
Apart ==
  /\ \A i, j \in 1 .. Len(free) : free[i] = free[j] => i = j
  /\ \A i, j \in 1 .. Len(chunks) :
       chunks[i].buf \in Buffers /\ chunks[i].buf = chunks[j].buf => i = j
  /\ \A i \in 1 .. Len(free) :
       /\ free[i] # rchunk.buf /\ free[i] # chunk.buf
       /\ \A j \in 1 .. Len(chunks) : free[i] # chunks[j].buf
  /\ \A j \in 1 .. Len(chunks) :
       chunks[j].buf \in Buffers => chunks[j].buf # rchunk.buf /\ chunks[j].buf # chunk.buf
  /\ rchunk.buf \in Buffers => rchunk.buf # chunk.buf

\* and each is in one.
Somewhere ==
  \A b \in Buffers :
    \/ \E i \in 1 .. Len(free) : free[i] = b
    \/ \E j \in 1 .. Len(chunks) : chunks[j].buf = b
    \/ rchunk.buf = b \/ chunk.buf = b

\* The pending line fits into a fragment whenever the framer is not cutting it.
Fits ==
  /\ fpc \in {"select", "scan"} => Len(buf) =< MaxFragmentBytes
  /\ fpc = "select" => (timer <=> (PartialFlush /\ buf # << >>))

\* The flag says whether the last record is to be gone on with.
Flagged ==
  fpc # "done" => (continued <=> (out # << >> /\ out[Len(out)].end \in {"max_bytes", "timeout"}))

FramerInv ==
  TypeOK /\ InHand /\ Apart /\ Somewhere /\ Fits /\ Flagged /\ Fragments
----------------------------------------------------------------------------
(***************************************************************************)
(* Facts about the constants and the types.                                *)
(***************************************************************************)
Chunk == [buf : Buffers \cup {NoBuffer}, len : 0 .. ChunkSize]

LEMMA Sizes ==
  /\ MaxFragmentBytes \in Nat /\ MaxFragmentBytes >= 1 /\ ChannelSize \in Nat /\ ChunkSize \in Nat
  /\ ChunkSize >= 1 /\ StreamBound \in Nat
  /\ NoBuffer \notin Buffers /\ NoChunk \in Chunk /\ NoChunk.buf = NoBuffer
  BY FramerAssumption DEF Buffers, NoBuffer, NoChunk, Chunk

LEMMA Lengths ==
  ASSUME TypeOK
  PROVE  /\ Len(free) \in Nat /\ \A i \in 1 .. Len(free) : free[i] \in Buffers
         /\ Len(chunks) \in Nat /\ \A i \in 1 .. Len(chunks) : chunks[i] \in Chunk
         /\ \A b \in Buffers : memory[b] \in Seq(Byte) /\ Len(memory[b]) \in Nat
         /\ Len(buf) \in Nat /\ Len(out) \in Nat
  <1>1. /\ free \in Seq(Buffers) /\ chunks \in Seq(Chunk) /\ memory \in [Buffers -> Seq(Byte)]
        /\ buf \in Seq(Byte)
    BY DEF TypeOK, Chunk
  <1>2. Len(out) \in Nat
    BY LenProperties DEF TypeOK
  <1> QED BY <1>1, <1>2, ElementOfSeq, LenProperties

\* The first of a channel leaves it.
LEMMA Received ==
  ASSUME NEW S, NEW s \in Seq(S), s # << >>
  PROVE  /\ Len(s) \in Nat /\ Len(s) >= 1 /\ Head(s) = s[1] /\ Head(s) \in S
         /\ Tail(s) \in Seq(S) /\ Len(Tail(s)) = Len(s) - 1
         /\ \A i \in 1 .. Len(s) - 1 : Tail(s)[i] = s[i + 1]
  BY HeadTailProperties, LenProperties, ElementOfSeq, EmptySeq

\* The state of the framer is not touched by the read goroutine.
LEMMA FramerLeft ==
  ASSUME FramerInv, UNCHANGED framerVars
  PROVE  Fits' /\ Flagged' /\ Fragments'
  BY DEF FramerInv, framerVars, Fits, Flagged, Fragments

\* The types of the framer's state, and those of the read goroutine's.
FramerTypes ==
  /\ fpc \in {"select", "scan", "cut", "done"} /\ chunk \in Chunk /\ pos \in 0 .. ChunkSize
  /\ newline \in BOOLEAN /\ continued \in BOOLEAN /\ timer \in BOOLEAN
  /\ buf \in Seq(Byte) /\ fed \in Seq(Byte)
  /\ out \in Seq([end : {"newline", "max_bytes", "timeout", "eof"},
                  line : Seq(Byte), continued : BOOLEAN])

ReaderTypes ==
  /\ rpc \in {"take", "read", "send", "error", "return", "returned"}
  /\ rchunk \in Chunk /\ rerr \in {"none", "eof", "error"} /\ count \in 0 .. StreamBound
  /\ memory \in [Buffers -> Seq(Byte)] /\ eof \in BOOLEAN

ChannelTypes == free \in Seq(Buffers) /\ chunks \in Seq(Chunk)

LEMMA AllTypes == TypeOK <=> FramerTypes /\ ReaderTypes /\ ChannelTypes
  BY DEF TypeOK, FramerTypes, ReaderTypes, ChannelTypes, Chunk

LEMMA AllTyped ==
  ASSUME FramerTypes', ReaderTypes', ChannelTypes'
  PROVE  TypeOK'
  BY DEF TypeOK, FramerTypes, ReaderTypes, ChannelTypes, Chunk

LEMMA FramerTyped == ASSUME TypeOK, UNCHANGED framerVars PROVE FramerTypes'
  <1>1. FramerTypes
    BY AllTypes
  <1> QED BY <1>1 DEF FramerTypes, framerVars

LEMMA ReaderTyped == ASSUME TypeOK, UNCHANGED readerVars PROVE ReaderTypes'
  <1>1. ReaderTypes
    BY AllTypes
  <1> QED BY <1>1 DEF ReaderTypes, readerVars
----------------------------------------------------------------------------
(***************************************************************************)
(* The read goroutine.                                                     *)
(***************************************************************************)
LEMMA TakeBufferKeeps ==
  ASSUME FramerInv, TakeBuffer
  PROVE  FramerInv'
  <1> USE DEF FramerInv
  <1>1. /\ rpc = "take" /\ rpc' = "read" /\ free # << >> /\ free' = Tail(free)
        /\ rchunk' = [buf |-> Head(free), len |-> 0]
        /\ UNCHANGED <<rerr, count, memory, chunks, eof, framerVars>>
    BY DEF TakeBuffer
  <1>2. /\ chunk' = chunk /\ fpc' = fpc /\ pos' = pos
    BY <1>1 DEF framerVars
  <1>3. /\ Len(free) \in Nat /\ Len(free) >= 1 /\ Head(free) = free[1] /\ Head(free) \in Buffers
        /\ free' \in Seq(Buffers) /\ Len(free') = Len(free) - 1
        /\ \A i \in 1 .. Len(free) - 1 : free'[i] = free[i + 1]
    BY <1>1, Received DEF TypeOK
  <1>4. rchunk = NoChunk /\ rchunk'.buf = free[1] /\ rchunk' \in Chunk
    BY <1>1, <1>3, Sizes DEF InHand, Chunk
  <1>5. TypeOK'
    <2>1. ChannelTypes' /\ ReaderTypes'
      BY <1>1, <1>3, <1>4, AllTypes DEF ReaderTypes, ChannelTypes
    <2> QED BY <1>1, <2>1, FramerTyped, AllTyped
  <1>6. InHand'
    BY <1>1, <1>2, <1>3, <1>4 DEF InHand, Filled
  <1>7. Apart'
    <2>1. \A i, j \in 1 .. Len(free') : free'[i] = free'[j] => i = j
      <3>1. \A i \in 1 .. Len(free') : i + 1 \in 1 .. Len(free) /\ free'[i] = free[i + 1]
        BY <1>3
      <3> QED BY <1>3, <3>1 DEF Apart
    <2>2. \A i \in 1 .. Len(free') :
            /\ free'[i] # free[1] /\ free'[i] # chunk.buf
            /\ \A j \in 1 .. Len(chunks) : free'[i] # chunks[j].buf
      <3>1. \A i \in 1 .. Len(free') :
              i + 1 \in 1 .. Len(free) /\ i + 1 # 1 /\ free'[i] = free[i + 1]
        BY <1>3
      <3>2. 1 \in 1 .. Len(free)
        BY <1>3
      <3> QED BY <3>1, <3>2 DEF Apart
    <2>3. \A j \in 1 .. Len(chunks) : free[1] # chunks[j].buf
      BY <1>3 DEF Apart
    <2>4. free[1] # chunk.buf
      BY <1>3 DEF Apart
    <2> QED BY <1>1, <1>2, <1>4, <2>1, <2>2, <2>3, <2>4 DEF Apart
  <1>8. Somewhere'
    <2>1. \A b \in Buffers : (\E i \in 1 .. Len(free) : free[i] = b) =>
            free[1] = b \/ \E i \in 1 .. Len(free') : free'[i] = b
      <3>1. \A i \in 1 .. Len(free) : i = 1 \/ (i - 1 \in 1 .. Len(free') /\ free'[i - 1] = free[i])
        BY <1>3
      <3> QED BY <3>1
    <2> QED BY <1>1, <1>2, <1>4, <2>1, Sizes DEF Somewhere
  <1> QED BY <1>1, <1>5, <1>6, <1>7, <1>8, FramerLeft

LEMMA ReadNothingKeeps ==
  ASSUME FramerInv, NEW err \in {"none", "eof", "error"}, ReadNothing(err)
  PROVE  FramerInv'
  <1> USE DEF FramerInv
  <1>1. /\ rpc = "read" /\ free' = Append(free, rchunk.buf) /\ rchunk' = NoChunk
        /\ rpc' \in {"take", "return", "error"}
        /\ UNCHANGED <<rerr, count, memory, chunks, eof, framerVars>>
    BY DEF ReadNothing, AfterRead
  <1>2. /\ chunk' = chunk /\ fpc' = fpc /\ pos' = pos
    BY <1>1 DEF framerVars
  <1>3. rchunk.buf \in Buffers /\ free \in Seq(Buffers) /\ Len(free) \in Nat
    BY <1>1, Lengths DEF InHand, TypeOK
  <1>4. /\ free' \in Seq(Buffers) /\ Len(free') = Len(free) + 1
        /\ \A i \in 1 .. Len(free) : free'[i] = free[i]
        /\ free'[Len(free) + 1] = rchunk.buf
    BY <1>1, <1>3, AppendProperties
  <1>5. TypeOK'
    <2>1. ChannelTypes' /\ ReaderTypes'
      BY <1>1, <1>4, Sizes, AllTypes DEF ReaderTypes, ChannelTypes
    <2> QED BY <1>1, <2>1, FramerTyped, AllTyped
  <1>6. InHand'
    BY <1>1, <1>2 DEF InHand, Filled
  <1>7. Apart'
    <2>1. \A i \in 1 .. Len(free') : i \in 1 .. Len(free) \/ i = Len(free) + 1
      BY <1>3, <1>4
    <2>2. \A i, j \in 1 .. Len(free') : free'[i] = free'[j] => i = j
      BY <1>4, <2>1 DEF Apart
    <2>3. \A i \in 1 .. Len(free') :
            /\ free'[i] \in Buffers /\ free'[i] # chunk.buf
            /\ \A j \in 1 .. Len(chunks) : free'[i] # chunks[j].buf
      BY <1>3, <1>4, <2>1, Lengths DEF Apart
    <2> QED BY <1>1, <1>2, <2>2, <2>3, Sizes DEF Apart
  <1>8. Somewhere'
    <2>1. \A b \in Buffers : (\E i \in 1 .. Len(free) : free[i] = b)
            => \E i \in 1 .. Len(free') : free'[i] = b
      <3>1. \A i \in 1 .. Len(free) : i \in 1 .. Len(free')
        BY <1>3, <1>4
      <3> QED BY <1>4, <3>1
    <2>2. \E i \in 1 .. Len(free') : free'[i] = rchunk.buf
      <3>1. Len(free) + 1 \in 1 .. Len(free')
        BY <1>3, <1>4
      <3> QED BY <1>4, <3>1
    <2> QED BY <1>1, <1>2, <2>1, <2>2 DEF Somewhere
  <1> QED BY <1>1, <1>5, <1>6, <1>7, <1>8, FramerLeft

LEMMA ReadKeeps ==
  ASSUME FramerInv, NEW n \in 1 .. ChunkSize, NEW bytes \in [1 .. n -> Byte],
         NEW err \in {"none", "eof", "error"}, Read(bytes, err)
  PROVE  FramerInv'
  <1> USE DEF FramerInv
  <1> DEFINE b0 == rchunk.buf
             old == memory[b0]
             new == bytes \o SubSeq(old, Len(bytes) + 1, Len(old))
  <1>1. /\ rpc = "read" /\ rpc' = "send" /\ count + Len(bytes) =< StreamBound
        /\ memory' = [memory EXCEPT ![b0] = new]
        /\ rchunk' = [rchunk EXCEPT !.len = Len(bytes)]
        /\ rerr' = err /\ count' = count + Len(bytes)
        /\ UNCHANGED <<free, chunks, eof, framerVars>>
    BY DEF Read
  <1>2. /\ chunk' = chunk /\ fpc' = fpc /\ pos' = pos
    BY <1>1 DEF framerVars
  <1>3. /\ b0 \in Buffers /\ memory \in [Buffers -> Seq(Byte)]
        /\ old \in Seq(Byte) /\ Len(old) \in Nat /\ n \in Nat /\ n \in 0 .. ChunkSize
    <2>1. b0 \in Buffers
      BY <1>1 DEF InHand
    <2>2. memory \in [Buffers -> Seq(Byte)]
      BY DEF TypeOK
    <2>3. old \in Seq(Byte) /\ Len(old) \in Nat
      BY <2>1, Lengths
    <2>4. n \in Nat /\ n \in 0 .. ChunkSize
      BY Sizes
    <2> QED BY <2>1, <2>2, <2>3, <2>4
  <1>4. bytes \in Seq(Byte) /\ Len(bytes) = n
    BY <1>3, IsASeq
  <1>5. new \in Seq(Byte) /\ Len(new) \in Nat /\ Len(new) >= Len(old) /\ Len(new) >= n
    <2> DEFINE rest == SubSeq(old, n + 1, Len(old))
    <2>1. \A i \in n + 1 .. Len(old) : old[i] \in Byte
      BY <1>3, ElementOfSeq
    <2>2. rest \in Seq(Byte) /\ Len(rest) = IF n + 1 =< Len(old) THEN Len(old) - (n + 1) + 1 ELSE 0
      BY <1>3, <2>1, SubSeqProperties
    <2>3. new = bytes \o rest
      BY <1>4
    <2> HIDE DEF new, rest
    <2>4. new \in Seq(Byte) /\ Len(new) = n + Len(rest)
      BY <1>4, <2>2, <2>3, ConcatProperties
    <2> QED BY <1>3, <2>2, <2>4
  <1> HIDE DEF new, old
  <1>6. /\ memory' \in [Buffers -> Seq(Byte)]
        /\ \A b \in Buffers : Len(memory[b]) =< Len(memory'[b]) /\ Len(memory'[b]) \in Nat
        /\ n =< Len(memory'[b0])
    <2>1. \A b \in Buffers : memory'[b] = IF b = b0 THEN new ELSE memory[b]
      BY <1>1, <1>3
    <2> QED BY <1>1, <1>3, <1>5, <2>1, Lengths DEF old
  <1>7. rchunk' \in Chunk /\ rchunk'.buf = b0 /\ rchunk'.len = n
    BY <1>1, <1>3, <1>4 DEF TypeOK, Chunk
  <1>8. TypeOK'
    <2>1. count' \in 0 .. StreamBound
      <3>1. count' = count + n /\ count + n =< StreamBound
        BY <1>1, <1>4
      <3>2. count \in 0 .. StreamBound
        BY DEF TypeOK
      <3>3. n \in Nat /\ StreamBound \in Nat
        BY <1>3, Sizes
      <3> QED BY ONLY <3>1, <3>2, <3>3
    <2>2. ReaderTypes'
      BY <1>1, <1>6, <1>7, <2>1, AllTypes DEF ReaderTypes
    <2>3. ChannelTypes'
      BY <1>1, AllTypes DEF ChannelTypes
    <2> QED BY <1>1, <2>2, <2>3, FramerTyped, AllTyped
  <1>9. InHand'
    <2>1. ASSUME NEW c \in Chunk, Filled(c)
          PROVE  c.buf \in Buffers /\ c.len =< Len(memory'[c.buf])
      BY <1>3, <1>6, <2>1, Lengths DEF Filled, Chunk
    <2>2. fpc \in {"scan", "cut"} =>
            chunk.buf \in Buffers /\ chunk.len =< Len(memory'[chunk.buf]) /\ pos =< chunk.len
      BY <2>1 DEF InHand, TypeOK, Chunk
    <2>3. \A i \in 1 .. Len(chunks) :
            \/ chunks[i] = NoChunk
            \/ chunks[i].buf \in Buffers /\ chunks[i].len =< Len(memory'[chunks[i].buf])
      BY <2>1, Lengths DEF InHand
    <2>4. rchunk'.buf \in Buffers /\ rchunk'.len =< Len(memory'[rchunk'.buf])
      BY <1>3, <1>6, <1>7
    <2>5. fpc \notin {"scan", "cut"} => chunk = NoChunk
      BY DEF InHand
    <2> QED BY <1>1, <1>2, <2>2, <2>3, <2>4, <2>5 DEF InHand, Filled
  <1>a. Apart'
    BY <1>1, <1>2, <1>7 DEF Apart
  <1>b. Somewhere'
    BY <1>1, <1>2, <1>7 DEF Somewhere
  <1> QED BY <1>1, <1>8, <1>9, <1>a, <1>b, FramerLeft

LEMMA SendChunkKeeps ==
  ASSUME FramerInv, SendChunk \/ SendError
  PROVE  FramerInv'
  <1> USE DEF FramerInv
  <1> DEFINE sent == IF SendChunk THEN rchunk ELSE NoChunk
  <1>1. /\ chunks' = Append(chunks, sent) /\ rchunk' = NoChunk
        /\ rpc' \in {"take", "return", "error"}
        /\ UNCHANGED <<rerr, count, free, memory, eof, framerVars>>
    <2>1. CASE SendChunk
      BY <2>1 DEF SendChunk, AfterRead, TypeOK
    <2>2. CASE ~SendChunk
      <3>1. SendError
        BY <2>2
      <3> QED BY <2>2, <3>1 DEF SendError, InHand
    <2> QED BY <2>1, <2>2
  <1>2. /\ chunk' = chunk /\ fpc' = fpc /\ pos' = pos
    BY <1>1 DEF framerVars
  <1>3. /\ sent \in Chunk /\ (sent = NoChunk \/ Filled(sent)) /\ sent.buf = rchunk.buf
        /\ chunks \in Seq(Chunk) /\ Len(chunks) \in Nat
    <2>1. CASE SendChunk
      BY <2>1, Lengths DEF SendChunk, InHand, TypeOK, Chunk
    <2>2. CASE ~SendChunk
      <3>1. SendError
        BY <2>2
      <3> QED BY <2>2, <3>1, Sizes, Lengths DEF SendError, InHand, TypeOK, Chunk
    <2> QED BY <2>1, <2>2
  <1> HIDE DEF sent
  <1>4. /\ chunks' \in Seq(Chunk) /\ Len(chunks') = Len(chunks) + 1
        /\ \A i \in 1 .. Len(chunks) : chunks'[i] = chunks[i]
        /\ chunks'[Len(chunks) + 1] = sent
    BY <1>1, <1>3, AppendProperties
  <1>5. \A i \in 1 .. Len(chunks') : i \in 1 .. Len(chunks) \/ i = Len(chunks) + 1
    BY <1>3, <1>4
  <1>6. TypeOK'
    <2>1. ReaderTypes'
      BY <1>1, Sizes, AllTypes DEF ReaderTypes
    <2>2. ChannelTypes'
      BY <1>1, <1>4, AllTypes DEF ChannelTypes
    <2> QED BY <1>1, <2>1, <2>2, FramerTyped, AllTyped
  <1>7. InHand'
    <2>1. \A i \in 1 .. Len(chunks') : chunks'[i] = NoChunk \/ Filled(chunks'[i])
      BY <1>3, <1>4, <1>5 DEF InHand
    <2> QED BY <1>1, <1>2, <2>1 DEF InHand, Filled
  <1>8. Apart'
    <2>1. \A i, j \in 1 .. Len(chunks') :
            chunks'[i].buf \in Buffers /\ chunks'[i].buf = chunks'[j].buf => i = j
      BY <1>3, <1>4, <1>5 DEF Apart
    <2>2. \A i \in 1 .. Len(free) : \A j \in 1 .. Len(chunks') : free[i] # chunks'[j].buf
      BY <1>3, <1>4, <1>5 DEF Apart
    <2>3. \A j \in 1 .. Len(chunks') : chunks'[j].buf \in Buffers => chunks'[j].buf # chunk.buf
      BY <1>3, <1>4, <1>5 DEF Apart
    <2>4. NoBuffer \notin Buffers /\ \A i \in 1 .. Len(free) : free[i] \in Buffers
      BY Sizes, Lengths
    <2>5. rchunk'.buf = NoBuffer
      BY <1>1, Sizes
    <2> QED BY <1>1, <1>2, <2>1, <2>2, <2>3, <2>4, <2>5 DEF Apart
  <1>9. Somewhere'
    <2>1. \A b \in Buffers : (\E j \in 1 .. Len(chunks) : chunks[j].buf = b) \/ rchunk.buf = b
            => \E j \in 1 .. Len(chunks') : chunks'[j].buf = b
      <3>1. /\ Len(chunks) + 1 \in 1 .. Len(chunks')
            /\ \A j \in 1 .. Len(chunks) : j \in 1 .. Len(chunks')
        BY <1>3, <1>4
      <3> QED BY <1>3, <1>4, <3>1
    <2> QED BY <1>1, <1>2, <2>1 DEF Somewhere
  <1> QED BY <1>1, <1>6, <1>7, <1>8, <1>9, FramerLeft

LEMMA CloseChunksKeeps ==
  ASSUME FramerInv, CloseChunks
  PROVE  FramerInv'
  <1> USE DEF FramerInv
  <1>1. /\ rpc = "return" /\ rpc' = "returned" /\ eof' = TRUE
        /\ UNCHANGED <<rchunk, rerr, count, free, memory, chunks, framerVars>>
    BY DEF CloseChunks
  <1>2. /\ chunk' = chunk /\ fpc' = fpc /\ pos' = pos
    BY <1>1 DEF framerVars
  <1>3. TypeOK'
    <2>1. ReaderTypes' /\ ChannelTypes'
      BY <1>1, AllTypes DEF ReaderTypes, ChannelTypes
    <2> QED BY <1>1, <2>1, FramerTyped, AllTyped
  <1>4. InHand' /\ Apart' /\ Somewhere'
    BY <1>1, <1>2 DEF InHand, Filled, Apart, Somewhere
  <1> QED BY <1>1, <1>3, <1>4, FramerLeft
----------------------------------------------------------------------------
(***************************************************************************)
(* The framer.                                                             *)
(***************************************************************************)
Record == [end : {"newline", "max_bytes", "timeout", "eof"}, line : Seq(Byte), continued : BOOLEAN]

\* A record pushed carries the flag that tells whether it goes on with the last one.
LEMMA Emitted ==
  ASSUME TypeOK, Flagged, Fragments, fpc # "done",
         NEW end \in {"newline", "max_bytes", "timeout", "eof"}, NEW line \in Seq(Byte),
         end # "newline" => line # << >>, Len(line) =< MaxFragmentBytes, Emit(end, line)
  PROVE  /\ out' \in Seq(Record) /\ out' # << >> /\ out'[Len(out')].end = end
         /\ Fragments'
  <1> DEFINE r == [end |-> end, line |-> line, continued |-> continued]
  <1>1. r \in Record /\ r.end = end /\ r.line = line
    <2>1. continued \in BOOLEAN
      BY DEF TypeOK
    <2> QED BY <2>1 DEF Record
  <1>2. r.continued = continued
    OBVIOUS
  <1>3. out \in Seq(Record) /\ out' = Append(out, r)
    BY DEF TypeOK, Record, Emit
  <1> HIDE DEF r
  <1>4. /\ out' \in Seq(Record) /\ Len(out) \in Nat /\ Len(out') = Len(out) + 1
        /\ \A i \in 1 .. Len(out) : out'[i] = out[i]
        /\ out'[Len(out) + 1] = r
    BY <1>1, <1>3, AppendProperties, LenProperties
  <1>5. DOMAIN out = 1 .. Len(out) /\ DOMAIN out' = 1 .. Len(out')
    BY <1>3, <1>4, LenProperties
  <1>6. ASSUME NEW i \in 1 .. Len(out')
        PROVE  /\ out'[i].continued <=> (i > 1 /\ out'[i - 1].end \in {"max_bytes", "timeout"})
               /\ out'[i].end # "newline" => out'[i].line # << >>
               /\ Len(out'[i].line) =< MaxFragmentBytes
    <2>1. CASE i \in 1 .. Len(out)
      <3>1. out'[i] = out[i] /\ (i > 1 => out'[i - 1] = out[i - 1])
        <4>1. i > 1 => i - 1 \in 1 .. Len(out)
          BY <1>4, <2>1
        <4> QED BY <1>4, <2>1, <4>1
      <3>2. /\ out[i].continued <=> (i > 1 /\ out[i - 1].end \in {"max_bytes", "timeout"})
            /\ out[i].end # "newline" => out[i].line # << >>
            /\ Len(out[i].line) =< MaxFragmentBytes
        BY <1>5, <2>1 DEF Fragments
      <3> QED BY <3>1, <3>2
    <2>2. CASE i = Len(out) + 1
      <3>1. continued <=> (out # << >> /\ out[Len(out)].end \in {"max_bytes", "timeout"})
        BY DEF Flagged
      <3>2. out # << >> <=> i > 1
        BY <1>3, <1>4, <2>2, EmptySeq
      <3>3. i > 1 => out'[i - 1] = out[Len(out)]
        BY <1>4, <2>2
      <3>4. out'[i] = r
        BY <1>4, <2>2
      <3>5. out'[i].continued <=> (i > 1 /\ out'[i - 1].end \in {"max_bytes", "timeout"})
        BY <1>2, <3>1, <3>2, <3>3, <3>4
      <3> QED BY <1>1, <3>4, <3>5
    <2> QED BY <1>4, <2>1, <2>2
  <1>7. Fragments'
    BY <1>5, <1>6 DEF Fragments
  <1>8. out'[Len(out')].end = end /\ out' # << >>
    BY <1>1, <1>4, EmptySeq
  <1> QED BY <1>4, <1>7, <1>8

LEMMA OutputLeft == ASSUME Fragments, UNCHANGED out PROVE Fragments'
  BY DEF Fragments

\* What the framer does to its pending line moves no buffer.
LEMMA PlacesLeft ==
  ASSUME FramerInv, UNCHANGED <<readerVars, free, chunks, chunk>>
  PROVE  ReaderTypes' /\ ChannelTypes' /\ Apart' /\ Somewhere'
  <1> USE DEF FramerInv
  <1>1. ReaderTypes'
    BY ReaderTyped
  <1>2. ChannelTypes'
    BY AllTypes DEF ChannelTypes
  <1> QED BY <1>1, <1>2 DEF Apart, Somewhere, readerVars

LEMMA HandsLeft ==
  ASSUME FramerInv, UNCHANGED <<readerVars, chunks, chunk>>, fpc \in {"scan", "cut"},
         fpc' \in {"scan", "cut"}, pos' =< chunk.len
  PROVE  InHand'
  BY DEF FramerInv, InHand, Filled, readerVars

LEMMA SplitKeeps ==
  ASSUME FramerInv, Split
  PROVE  FramerInv'
  <1> USE DEF FramerInv
  <1>1. /\ fpc = "cut" /\ Len(buf) > MaxFragmentBytes /\ continued' = TRUE
        /\ Emit("max_bytes", SubSeq(buf, 1, MaxFragmentBytes))
        /\ buf' = SubSeq(buf, MaxFragmentBytes + 1, Len(buf))
        /\ UNCHANGED <<readerVars, free, chunks, fpc, chunk, pos, newline, timer, fed>>
    BY DEF Split
  <1>2. /\ buf \in Seq(Byte) /\ Len(buf) \in Nat /\ \A i \in 1 .. Len(buf) : buf[i] \in Byte
        /\ MaxFragmentBytes \in Nat /\ MaxFragmentBytes >= 1
    BY Sizes, ElementOfSeq, LenProperties DEF TypeOK
  <1> DEFINE line == SubSeq(buf, 1, MaxFragmentBytes)
  <1>3. line \in Seq(Byte) /\ Len(line) = MaxFragmentBytes
    BY <1>1, <1>2, SubSeqProperties
  <1>4. buf' \in Seq(Byte)
    BY <1>1, <1>2, SubSeqProperties
  <1>5. Emit("max_bytes", line)
    BY <1>1
  <1> HIDE DEF line
  <1>6. line # << >>
    BY <1>2, <1>3, EmptySeq
  <1>7. /\ out' \in Seq(Record) /\ out' # << >> /\ out'[Len(out')].end = "max_bytes"
        /\ Fragments'
    BY <1>1, <1>2, <1>3, <1>6, <1>5, Emitted
  <1>8. FramerTypes'
    <2>1. newline' \in BOOLEAN /\ continued' \in BOOLEAN /\ timer' \in BOOLEAN
      BY <1>1 DEF TypeOK
    <2> QED BY <1>1, <1>4, <1>7, <2>1, AllTypes DEF FramerTypes, Record
  <1>9. TypeOK' /\ Apart' /\ Somewhere'
    BY <1>1, <1>8, PlacesLeft, AllTyped
  <1>a. InHand'
    BY <1>1, HandsLeft DEF InHand
  <1>b. Fits' /\ Flagged'
    BY <1>1, <1>7 DEF Fits, Flagged
  <1> QED BY <1>7, <1>9, <1>a, <1>b

LEMMA EndLineKeeps ==
  ASSUME FramerInv, EndLine
  PROVE  FramerInv'
  <1> USE DEF FramerInv
  <1>1. /\ fpc = "cut" /\ Len(buf) =< MaxFragmentBytes /\ continued' = FALSE
        /\ Emit("newline", trimCR(buf)) /\ buf' = << >> /\ fpc' = "scan"
        /\ UNCHANGED <<readerVars, free, chunks, chunk, pos, newline, timer, fed>>
    BY DEF EndLine
  <1>2. /\ buf \in Seq(Byte) /\ Len(buf) \in Nat /\ \A i \in 1 .. Len(buf) : buf[i] \in Byte
        /\ MaxFragmentBytes \in Nat /\ << >> \in Seq(Byte) /\ Len(<< >>) = 0
    BY Sizes, ElementOfSeq, LenProperties, EmptySeq DEF TypeOK
  <1>3. trimCR(buf) \in Seq(Byte) /\ Len(trimCR(buf)) =< MaxFragmentBytes
    <2>1. CASE buf # << >> /\ Last(buf) = "\r"
      <3>1. Len(buf) >= 1 /\ trimCR(buf) = SubSeq(buf, 1, Len(buf) - 1)
        BY <1>2, <2>1, EmptySeq DEF trimCR, Front
      <3>2. \A i \in 1 .. Len(buf) - 1 : buf[i] \in Byte
        BY <1>2
      <3>3. /\ SubSeq(buf, 1, Len(buf) - 1) \in Seq(Byte)
            /\ Len(SubSeq(buf, 1, Len(buf) - 1)) =
                 IF 1 =< Len(buf) - 1 THEN Len(buf) - 1 - 1 + 1 ELSE 0
        BY <1>2, <3>2, SubSeqProperties
      <3> QED BY <1>1, <1>2, <3>1, <3>3
    <2>2. CASE ~(buf # << >> /\ Last(buf) = "\r")
      BY <1>1, <1>2, <2>2 DEF trimCR
    <2> QED BY <2>1, <2>2
  <1>4. /\ out' \in Seq(Record) /\ out' # << >> /\ out'[Len(out')].end = "newline"
        /\ Fragments'
    BY <1>1, <1>3, Emitted
  <1>5. FramerTypes'
    <2>1. newline' \in BOOLEAN /\ continued' \in BOOLEAN /\ timer' \in BOOLEAN
      BY <1>1 DEF TypeOK
    <2> QED BY <1>1, <1>2, <1>4, <2>1, AllTypes DEF FramerTypes, Record
  <1>6. TypeOK' /\ Apart' /\ Somewhere'
    BY <1>1, <1>5, PlacesLeft, AllTyped
  <1>7. InHand'
    BY <1>1, HandsLeft DEF InHand
  <1>8. Fits'
    BY <1>1, <1>2 DEF Fits
  <1>9. Flagged'
    BY <1>1, <1>4 DEF Flagged
  <1> QED BY <1>4, <1>6, <1>7, <1>8, <1>9

LEMMA KeepPendingKeeps ==
  ASSUME FramerInv, KeepPending
  PROVE  FramerInv'
  <1> USE DEF FramerInv
  <1>1. /\ fpc = "cut" /\ Len(buf) =< MaxFragmentBytes /\ fpc' = "scan"
        /\ UNCHANGED <<readerVars, free, chunks, chunk, pos, newline, buf, continued, timer, fed,
                       out>>
    BY DEF KeepPending
  <1>2. FramerTypes'
    <2>1. newline' \in BOOLEAN /\ continued' \in BOOLEAN /\ timer' \in BOOLEAN
      BY <1>1 DEF TypeOK
    <2> QED BY <1>1, <2>1, AllTypes DEF FramerTypes
  <1>3. TypeOK' /\ Apart' /\ Somewhere'
    BY <1>1, <1>2, PlacesLeft, AllTyped
  <1>4. InHand'
    BY <1>1, HandsLeft DEF InHand
  <1>5. Fits' /\ Flagged'
    BY <1>1 DEF Fits, Flagged
  <1> QED BY <1>1, <1>3, <1>4, <1>5, OutputLeft

LEMMA TimeoutKeeps ==
  ASSUME FramerInv, Timeout
  PROVE  FramerInv'
  <1> USE DEF FramerInv
  <1>1. /\ fpc = "select" /\ timer /\ continued' = TRUE /\ Emit("timeout", buf) /\ buf' = << >>
        /\ timer' = FALSE
        /\ UNCHANGED <<readerVars, free, chunks, fpc, chunk, pos, newline, fed>>
    BY DEF Timeout, ResetTimer
  <1>2. /\ buf \in Seq(Byte) /\ Len(buf) =< MaxFragmentBytes /\ buf # << >>
        /\ MaxFragmentBytes \in Nat /\ << >> \in Seq(Byte) /\ Len(<< >>) = 0
    BY <1>1, Sizes, EmptySeq DEF TypeOK, Fits
  <1>3. /\ out' \in Seq(Record) /\ out' # << >> /\ out'[Len(out')].end = "timeout"
        /\ Fragments'
    BY <1>1, <1>2, Emitted
  <1>4. FramerTypes'
    <2>1. newline' \in BOOLEAN /\ continued' \in BOOLEAN /\ timer' \in BOOLEAN
      BY <1>1 DEF TypeOK
    <2> QED BY <1>1, <1>2, <1>3, <2>1, AllTypes DEF FramerTypes, Record
  <1>5. TypeOK' /\ Apart' /\ Somewhere'
    BY <1>1, <1>4, PlacesLeft, AllTyped
  <1>6. InHand'
    BY <1>1 DEF InHand, Filled, readerVars
  <1>7. Fits'
    BY <1>1, <1>2 DEF Fits
  <1>8. Flagged'
    BY <1>1, <1>3 DEF Flagged
  <1> QED BY <1>3, <1>5, <1>6, <1>7, <1>8

\* A channel's first chunk is taken off: it is an error, or goes to the framer.
LEMMA Dequeued ==
  ASSUME FramerInv, chunks # << >>, chunks' = Tail(chunks), UNCHANGED <<readerVars, free>>,
         chunk = NoChunk,
         \/ Head(chunks) = NoChunk /\ chunk' = chunk
         \/ chunk' = Head(chunks)
  PROVE  /\ chunk' \in Chunk /\ ChannelTypes' /\ Apart' /\ Somewhere'
         /\ \A i \in 1 .. Len(chunks') : chunks'[i] = NoChunk \/ Filled(chunks'[i])
         /\ chunk' = NoChunk \/ Filled(chunk')
  <1> USE DEF FramerInv
  <1>1. /\ Len(chunks) \in Nat /\ Len(chunks) >= 1 /\ Head(chunks) = chunks[1]
        /\ chunks[1] \in Chunk /\ chunks' \in Seq(Chunk) /\ Len(chunks') = Len(chunks) - 1
        /\ \A i \in 1 .. Len(chunks) - 1 : chunks'[i] = chunks[i + 1]
    <2>1. chunks \in Seq(Chunk)
      BY AllTypes DEF ChannelTypes
    <2> QED BY <2>1, Received
  <1>2. \A i \in 1 .. Len(chunks') :
          i + 1 \in 1 .. Len(chunks) /\ i + 1 # 1 /\ chunks'[i] = chunks[i + 1]
    BY <1>1
  <1>3. 1 \in 1 .. Len(chunks) /\ chunk'.buf = chunks[1].buf /\ chunk' \in {NoChunk, chunks[1]}
    BY <1>1, Sizes
  <1>4. rchunk' = rchunk /\ memory' = memory /\ free' = free
    BY DEF readerVars
  <1>5. ChannelTypes'
    BY <1>1, <1>4 DEF ChannelTypes, TypeOK
  <1>6. Apart'
    <2>1. \A i, j \in 1 .. Len(chunks') :
            chunks'[i].buf \in Buffers /\ chunks'[i].buf = chunks'[j].buf => i = j
      <3>1. \A i, j \in 1 .. Len(chunks') :
              chunks'[i].buf \in Buffers /\ chunks'[i].buf = chunks'[j].buf => i + 1 = j + 1
        BY <1>2 DEF Apart
      <3> QED BY <3>1
    <2>2. \A i \in 1 .. Len(free) :
            free[i] # chunks[1].buf /\ \A j \in 1 .. Len(chunks') : free[i] # chunks'[j].buf
      BY <1>2, <1>3 DEF Apart
    <2>3. \A j \in 1 .. Len(chunks') : chunks'[j].buf \in Buffers =>
            chunks'[j].buf # rchunk.buf /\ chunks'[j].buf # chunks[1].buf
      BY <1>2, <1>3 DEF Apart
    <2>4. rchunk.buf \in Buffers => rchunk.buf # chunks[1].buf
      BY <1>3 DEF Apart
    <2> QED BY <1>3, <1>4, <2>1, <2>2, <2>3, <2>4 DEF Apart
  <1>7. Somewhere'
    <2>1. \A b \in Buffers : (\E j \in 1 .. Len(chunks) : chunks[j].buf = b) =>
            chunks[1].buf = b \/ \E j \in 1 .. Len(chunks') : chunks'[j].buf = b
      <3>1. \A j \in 1 .. Len(chunks) :
              j = 1 \/ (j - 1 \in 1 .. Len(chunks') /\ chunks'[j - 1] = chunks[j])
        BY <1>1
      <3> QED BY <3>1
    <2> QED BY <1>3, <1>4, <2>1, Sizes DEF Somewhere
  <1>8. \A i \in 1 .. Len(chunks') : chunks'[i] = NoChunk \/ Filled(chunks'[i])
    BY <1>2 DEF InHand
  <1>9. chunk' = NoChunk \/ Filled(chunk')
    BY <1>3 DEF InHand
  <1> QED BY <1>1, <1>3, <1>5, <1>6, <1>7, <1>8, <1>9, Sizes

LEMMA ReceiveChunkKeeps ==
  ASSUME FramerInv, ReceiveChunk
  PROVE  FramerInv'
  <1> USE DEF FramerInv
  <1>1. /\ fpc = "select" /\ chunks # << >> /\ Head(chunks) # NoChunk
        /\ chunk' = Head(chunks) /\ chunks' = Tail(chunks) /\ pos' = 0 /\ fpc' = "scan"
        /\ UNCHANGED <<readerVars, free, newline, buf, continued, timer, fed, out>>
    BY DEF ReceiveChunk
  <1>2. chunk = NoChunk /\ chunk' # NoChunk
    BY <1>1 DEF InHand
  <1>3. /\ chunk' \in Chunk /\ ChannelTypes' /\ Apart' /\ Somewhere' /\ Filled(chunk')
        /\ \A i \in 1 .. Len(chunks') : chunks'[i] = NoChunk \/ Filled(chunks'[i])
    BY <1>1, <1>2, Dequeued
  <1>4. FramerTypes'
    <2>1. newline' \in BOOLEAN /\ continued' \in BOOLEAN /\ timer' \in BOOLEAN
      BY <1>1 DEF TypeOK
    <2>2. 0 \in 0 .. ChunkSize
      BY Sizes
    <2> QED BY <1>1, <1>3, <2>1, <2>2, AllTypes DEF FramerTypes
  <1>5. TypeOK'
    BY <1>1, <1>3, <1>4, ReaderTyped, AllTyped
  <1>6. InHand'
    <2>1. 0 =< chunk'.len
      BY <1>3 DEF Chunk
    <2> QED BY <1>1, <1>3, <2>1 DEF InHand, Filled, readerVars
  <1>7. Fits' /\ Flagged'
    BY <1>1 DEF Fits, Flagged
  <1> QED BY <1>1, <1>3, <1>5, <1>6, <1>7, OutputLeft

LEMMA RestKeeps ==
  ASSUME FramerInv, EndOfChunks \/ ReceiveError
  PROVE  FramerInv'
  <1> USE DEF FramerInv
  <1>1. /\ fpc = "select" /\ EmitRest
        /\ chunks' = chunks \/ (chunks # << >> /\ Head(chunks) = NoChunk /\ chunks' = Tail(chunks))
    BY DEF EndOfChunks, ReceiveError
  <1>2. /\ buf' = << >> /\ timer' = FALSE /\ fpc' = "done"
        /\ UNCHANGED <<readerVars, free, chunk, pos, newline, continued, fed>>
    BY <1>1 DEF EmitRest
  <1>3. chunk = NoChunk
    BY <1>1 DEF InHand
  <1>4. /\ ChannelTypes' /\ Apart' /\ Somewhere'
        /\ \A i \in 1 .. Len(chunks') : chunks'[i] = NoChunk \/ Filled(chunks'[i])
    <2>1. CASE chunks' = chunks
      <3>1. ChannelTypes' /\ Apart' /\ Somewhere'
        BY <1>2, <2>1, PlacesLeft
      <3> QED BY <2>1, <3>1 DEF InHand
    <2>2. CASE chunks # << >> /\ Head(chunks) = NoChunk /\ chunks' = Tail(chunks)
      BY <1>2, <1>3, <2>2, Dequeued
    <2> QED BY <1>1, <2>1, <2>2
  <1>5. out' \in Seq(Record) /\ Fragments'
    <2>1. CASE buf = << >>
      <3>1. out' = out
        BY <1>1, <2>1 DEF EmitRest
      <3> QED BY <3>1, OutputLeft DEF TypeOK, Record
    <2>2. CASE buf # << >>
      <3>1. Emit("eof", buf)
        BY <1>1, <2>2 DEF EmitRest
      <3>2. buf \in Seq(Byte) /\ Len(buf) =< MaxFragmentBytes
        BY <1>1 DEF TypeOK, Fits
      <3> QED BY <1>1, <2>2, <3>1, <3>2, Emitted
    <2> QED BY <2>1, <2>2
  <1>6. FramerTypes'
    <2>1. newline' \in BOOLEAN /\ continued' \in BOOLEAN /\ timer' \in BOOLEAN
      BY <1>2 DEF TypeOK
    <2>2. << >> \in Seq(Byte)
      BY EmptySeq
    <2> QED BY <1>2, <1>5, <2>1, <2>2, AllTypes DEF FramerTypes, Record
  <1>7. TypeOK'
    BY <1>2, <1>4, <1>6, ReaderTyped, AllTyped
  <1>8. InHand'
    BY <1>2, <1>3, <1>4 DEF InHand, Filled, readerVars
  <1>9. Fits' /\ Flagged'
    BY <1>2 DEF Fits, Flagged
  <1> QED BY <1>4, <1>5, <1>7, <1>8, <1>9

LEMMA ReleaseKeeps ==
  ASSUME FramerInv, Release
  PROVE  FramerInv'
  <1> USE DEF FramerInv
  <1>1. /\ fpc = "scan" /\ fpc' = "select" /\ free' = Append(free, chunk.buf)
        /\ chunk' = NoChunk /\ pos' = 0
        /\ timer' = (PartialFlush /\ buf # << >>)
        /\ UNCHANGED <<readerVars, chunks, newline, buf, continued, fed, out>>
    BY DEF Release, ResetTimer
  <1>2. rchunk' = rchunk /\ memory' = memory /\ chunk'.buf = NoBuffer
    BY <1>1, Sizes DEF readerVars
  <1>3. chunk.buf \in Buffers /\ free \in Seq(Buffers) /\ Len(free) \in Nat
    BY <1>1, Lengths DEF InHand, Filled, TypeOK
  <1>4. /\ free' \in Seq(Buffers) /\ Len(free') = Len(free) + 1
        /\ \A i \in 1 .. Len(free) : free'[i] = free[i]
        /\ free'[Len(free) + 1] = chunk.buf
    BY <1>1, <1>3, AppendProperties
  <1>5. TypeOK'
    <2>1. newline' \in BOOLEAN /\ continued' \in BOOLEAN /\ timer' \in BOOLEAN
      <3>1. newline' \in BOOLEAN /\ continued' \in BOOLEAN
        BY <1>1 DEF TypeOK
      <3>2. timer' \in BOOLEAN
        BY <1>1
      <3> QED BY <3>1, <3>2
    <2>2. 0 \in 0 .. ChunkSize
      BY Sizes
    <2>3. FramerTypes'
      BY <1>1, <2>1, <2>2, Sizes, AllTypes DEF FramerTypes
    <2>4. ChannelTypes'
      BY <1>1, <1>4, AllTypes DEF ChannelTypes
    <2> QED BY <1>1, <2>3, <2>4, ReaderTyped, AllTyped
  <1>6. InHand'
    BY <1>1 DEF InHand, Filled, readerVars
  <1>7. Apart'
    <2>1. \A i \in 1 .. Len(free') : i \in 1 .. Len(free) \/ i = Len(free) + 1
      BY <1>3, <1>4
    <2>2. \A i, j \in 1 .. Len(free') : free'[i] = free'[j] => i = j
      BY <1>4, <2>1 DEF Apart
    <2>3. \A i \in 1 .. Len(free') :
            /\ free'[i] \in Buffers /\ free'[i] # rchunk.buf
            /\ \A j \in 1 .. Len(chunks) : free'[i] # chunks[j].buf
      BY <1>3, <1>4, <2>1, Lengths DEF Apart
    <2> QED BY <1>1, <1>2, <2>2, <2>3, Sizes DEF Apart
  <1>8. Somewhere'
    <2>1. \A b \in Buffers : (\E i \in 1 .. Len(free) : free[i] = b)
            => \E i \in 1 .. Len(free') : free'[i] = b
      <3>1. \A i \in 1 .. Len(free) : i \in 1 .. Len(free')
        BY <1>3, <1>4
      <3> QED BY <1>4, <3>1
    <2>2. \E i \in 1 .. Len(free') : free'[i] = chunk.buf
      <3>1. Len(free) + 1 \in 1 .. Len(free')
        BY <1>3, <1>4
      <3> QED BY <1>4, <3>1
    <2> QED BY <1>1, <1>2, <2>1, <2>2 DEF Somewhere
  <1>9. Fits' /\ Flagged'
    BY <1>1 DEF Fits, Flagged
  <1> QED BY <1>1, <1>5, <1>6, <1>7, <1>8, <1>9, OutputLeft

\* Every set of natural numbers that is not empty has a least element,
LEMMA Least ==
  ASSUME NEW S, S \subseteq Nat, S # {}
  PROVE  Min(S) \in S /\ \A n \in S : Min(S) =< n
  <1>1. PICK m \in S : \A n \in S : ~(<<n, m>> \in OpToRel(<, Nat))
    BY NatLessThanWellFounded, WFMin
  <1>2. \A n \in S : ~(n < m)
    BY <1>1 DEF OpToRel
  <1>3. \A n \in S : m =< n
    BY <1>2
  <1> QED BY <1>3 DEF Min

\* so the place of the first newline is 0 or one in the sequence.
LEMMA NewlineFound ==
  ASSUME NEW s, Len(s) \in Nat
  PROVE  SelectInSeq(s, LAMBDA b : b = "\n") \in 0 .. Len(s)
  <1> DEFINE I == {i \in 1 .. Len(s) : s[i] = "\n"}
             line == SelectInSeq(s, LAMBDA b : b = "\n")
  <1>1. line = IF I # {} THEN Min(I) ELSE 0
    BY DEF SelectInSeq
  <1> HIDE DEF line
  <1>2. I # {} => Min(I) \in I
    <2>1. I \subseteq Nat
      OBVIOUS
    <2> HIDE DEF I
    <2> QED BY <2>1, Least
  <1>3. line \in 0 .. Len(s)
    BY <1>1, <1>2
  <1> QED BY <1>3 DEF line

LEMMA ScanKeeps ==
  ASSUME FramerInv, Scan
  PROVE  FramerInv'
  <1> USE DEF FramerInv
  <1> DEFINE line == SelectInSeq(Rest, LAMBDA b : b = "\n")
             taken == IF line = 0 THEN Rest ELSE SubSeq(Rest, 1, line - 1)
             upto == IF line = 0 THEN chunk.len ELSE pos + line
  <1>1. /\ fpc = "scan" /\ fpc' = "cut" /\ pos < chunk.len
        /\ buf' = buf \o taken /\ fed' = fed \o SubSeq(Rest, 1, upto - pos)
        /\ pos' = upto /\ newline' = (line # 0)
        /\ UNCHANGED <<readerVars, free, chunks, chunk, continued, timer, out>>
    BY DEF Scan
  <1>2. /\ chunk \in Chunk /\ chunk.len \in Nat /\ chunk.len =< ChunkSize /\ pos \in Nat
        /\ memory[chunk.buf] \in Seq(Byte) /\ Len(memory[chunk.buf]) \in Nat
        /\ chunk.len =< Len(memory[chunk.buf])
    BY <1>1, Lengths, Sizes DEF TypeOK, InHand, Filled, Chunk
  <1>3. Rest \in Seq(Byte) /\ Len(Rest) = chunk.len - pos /\ Len(Rest) \in Nat
    <2>1. \A i \in pos + 1 .. chunk.len : memory[chunk.buf][i] \in Byte
      BY <1>2, ElementOfSeq
    <2> QED BY <1>1, <1>2, <2>1, SubSeqProperties DEF Rest
  <1>4. line \in 0 .. Len(Rest)
    BY <1>3, NewlineFound
  <1> HIDE DEF line
  <1>5. upto \in 0 .. chunk.len /\ upto \in 0 .. ChunkSize /\ upto - pos \in 0 .. Len(Rest)
    <2>1. CASE line = 0
      <3>1. upto = chunk.len
        BY <2>1
      <3> QED BY <1>1, <1>2, <1>3, <3>1
    <2>2. CASE line # 0
      <3>1. upto = pos + line
        BY <2>2
      <3> HIDE DEF upto
      <3>2. line \in Nat /\ line =< chunk.len - pos /\ pos + line \in Nat
        BY <1>2, <1>3, <1>4
      <3>3. pos \in Nat /\ chunk.len \in Nat /\ chunk.len =< ChunkSize /\ ChunkSize \in Nat
        BY <1>2, Sizes
      <3>4. Len(Rest) = chunk.len - pos
        BY <1>3
      <3> QED BY ONLY <3>1, <3>2, <3>3, <3>4
    <2> QED BY <2>1, <2>2
  <1>6. taken \in Seq(Byte) /\ SubSeq(Rest, 1, upto - pos) \in Seq(Byte)
    <2>1. \A i \in 1 .. Len(Rest) : Rest[i] \in Byte
      BY <1>3, ElementOfSeq
    <2>2. ASSUME NEW m \in Int, m =< Len(Rest)
          PROVE  SubSeq(Rest, 1, m) \in Seq(Byte)
      BY <1>3, <2>1, <2>2, SubSeqProperties
    <2> QED BY <1>3, <1>4, <1>5, <2>2
  <1> HIDE DEF taken, upto
  <1>7. FramerTypes'
    <2>1. newline' \in BOOLEAN
      BY <1>1
    <2>2. continued' \in BOOLEAN /\ timer' \in BOOLEAN
      BY <1>1 DEF TypeOK
    <2>3. buf \in Seq(Byte) /\ fed \in Seq(Byte)
      BY DEF TypeOK
    <2>4. buf' \in Seq(Byte) /\ fed' \in Seq(Byte)
      BY <1>1, <1>6, <2>3, ConcatProperties
    <2> QED BY <1>1, <1>5, <2>1, <2>2, <2>4, AllTypes DEF FramerTypes
  <1>8. TypeOK' /\ Apart' /\ Somewhere'
    BY <1>1, <1>7, PlacesLeft, AllTyped
  <1>9. InHand'
    <2>1. pos' =< chunk.len
      BY <1>1, <1>5
    <2> QED BY <1>1, <2>1, HandsLeft
  <1>a. Fits' /\ Flagged'
    BY <1>1 DEF Fits, Flagged
  <1> QED BY <1>1, <1>8, <1>9, <1>a, OutputLeft
----------------------------------------------------------------------------
(***************************************************************************)
(* The theorems.                                                           *)
(***************************************************************************)
LEMMA FramerInit == Init => FramerInv
  <1> SUFFICES ASSUME Init PROVE FramerInv
    OBVIOUS
  <1>1. /\ rpc = "take" /\ rchunk = NoChunk /\ rerr = "none" /\ count = 0
        /\ free = [i \in 1 .. ChannelSize + 1 |-> i - 1]
        /\ memory = [b \in Buffers |-> << >>] /\ chunks = << >> /\ eof = FALSE
        /\ fpc = "select" /\ chunk = NoChunk /\ pos = 0 /\ newline = FALSE
        /\ buf = << >> /\ continued = FALSE /\ timer = FALSE /\ fed = << >> /\ out = << >>
    BY DEF Init
  <1>2. /\ << >> \in Seq(Byte) /\ Len(<< >>) = 0 /\ << >> \in Seq(Chunk) /\ << >> \in Seq(Record)
        /\ NoChunk \in Chunk /\ NoChunk.buf = NoBuffer /\ NoBuffer \notin Buffers
        /\ MaxFragmentBytes \in Nat /\ ChannelSize \in Nat /\ 0 \in 0 .. ChunkSize
        /\ 0 \in 0 .. StreamBound
    BY Sizes, EmptySeq
  <1>3. /\ free \in Seq(Buffers) /\ Len(free) = ChannelSize + 1
        /\ \A i \in 1 .. Len(free) : free[i] = i - 1
    <2>1. \A i \in 1 .. ChannelSize + 1 : i - 1 \in Buffers
      BY <1>2 DEF Buffers
    <2>2. free \in [1 .. ChannelSize + 1 -> Buffers]
      BY <1>1, <2>1
    <2>3. ChannelSize + 1 \in Nat
      BY <1>2
    <2>4. free \in Seq(Buffers) /\ Len(free) = ChannelSize + 1
      BY <2>2, <2>3, IsASeq
    <2> QED BY <1>1, <2>4
  <1>4. TypeOK
    <2>1. newline \in BOOLEAN /\ continued \in BOOLEAN /\ timer \in BOOLEAN /\ eof \in BOOLEAN
      BY <1>1
    <2>2. FramerTypes
      BY <1>1, <1>2, <2>1 DEF FramerTypes, Record
    <2>3. memory \in [Buffers -> Seq(Byte)]
      BY <1>1, <1>2
    <2>4. ReaderTypes
      BY <1>1, <1>2, <2>1, <2>3 DEF ReaderTypes
    <2>5. ChannelTypes
      BY <1>1, <1>2, <1>3 DEF ChannelTypes
    <2> QED BY <2>2, <2>4, <2>5, AllTypes
  <1>5. 1 .. Len(chunks) = {}
    BY <1>1, <1>2
  <1>6. InHand
    BY <1>1, <1>5 DEF InHand
  <1>7. \A i \in 1 .. Len(free) : free[i] \in Buffers
    BY <1>3, ElementOfSeq
  <1>8. Apart
    <2>1. \A i, j \in 1 .. Len(free) : free[i] = free[j] => i = j
      BY <1>2, <1>3
    <2> QED BY <1>1, <1>2, <1>5, <1>7, <2>1 DEF Apart
  <1>9. Somewhere
    <2>1. \A b \in Buffers : b + 1 \in 1 .. Len(free) /\ free[b + 1] = b
      BY <1>2, <1>3 DEF Buffers
    <2> QED BY <2>1 DEF Somewhere
  <1>a. Fits /\ Flagged
    BY <1>1, <1>2 DEF Fits, Flagged
  <1>b. Fragments
    <2>1. DOMAIN out = {}
      BY <1>1
    <2> QED BY <2>1 DEF Fragments
  <1> QED BY <1>4, <1>6, <1>8, <1>9, <1>a, <1>b DEF FramerInv

LEMMA FramerProgress == FramerInv /\ [Next]_vars => FramerInv'
  <1> SUFFICES ASSUME FramerInv, [Next]_vars PROVE FramerInv'
    OBVIOUS
  <1>1. CASE TakeBuffer
    BY <1>1, TakeBufferKeeps
  <1>2. CASE Reads
    <2>1. PICK err \in {"none", "eof", "error"} :
            \/ ReadNothing(err)
            \/ \E n \in 1 .. ChunkSize : \E bytes \in [1 .. n -> Byte] : Read(bytes, err)
      BY <1>2 DEF Reads
    <2> QED BY <2>1, ReadNothingKeeps, ReadKeeps
  <1>3. CASE SendChunk \/ SendError
    BY <1>3, SendChunkKeeps
  <1>4. CASE CloseChunks
    BY <1>4, CloseChunksKeeps
  <1>5. CASE EndOfChunks \/ ReceiveError
    BY <1>5, RestKeeps
  <1>6. CASE ReceiveChunk
    BY <1>6, ReceiveChunkKeeps
  <1>7. CASE Scan
    BY <1>7, ScanKeeps
  <1>8. CASE Split
    BY <1>8, SplitKeeps
  <1>9. CASE EndLine
    BY <1>9, EndLineKeeps
  <1>a. CASE KeepPending
    BY <1>a, KeepPendingKeeps
  <1>b. CASE Release
    BY <1>b, ReleaseKeeps
  <1>c. CASE Timeout
    BY <1>c, TimeoutKeeps
  <1>d. CASE UNCHANGED vars
    <2>1. UNCHANGED <<readerVars, free, chunks, framerVars>>
      BY <1>d DEF vars
    <2>2. UNCHANGED <<chunk, fpc, pos>>
      BY <2>1 DEF framerVars
    <2>3. ReaderTypes' /\ ChannelTypes' /\ Apart' /\ Somewhere'
      BY <2>1, <2>2, PlacesLeft
    <2>4. TypeOK'
      BY <2>1, <2>3, FramerTyped, AllTyped DEF FramerInv
    <2>5. InHand'
      BY <2>1, <2>2 DEF FramerInv, InHand, Filled, readerVars
    <2>6. Fits' /\ Flagged' /\ Fragments'
      BY <2>1, FramerLeft
    <2> QED BY <2>3, <2>4, <2>5, <2>6 DEF FramerInv
  <1> QED BY <1>1, <1>2, <1>3, <1>4, <1>5, <1>6, <1>7, <1>8, <1>9, <1>a, <1>b, <1>c, <1>d
       DEF Next, Reader, FramerStep

(***************************************************************************)
(* The inductive invariant holds in every reachable state, however reads   *)
(* cut the stream and whenever the timer of the framer fires.              *)
(***************************************************************************)
THEOREM FramerInvariant == Spec => []FramerInv
  BY FramerInit, FramerProgress, PTL DEF Spec

\* A sequence that is two others joined.
LEMMA Joined ==
  ASSUME NEW S, NEW s \in Seq(S), NEW t \in Seq(S), NEW k \in Nat, NEW l \in Nat,
         Len(s) = k, Len(t) = l, NEW joined, joined = s \o t
  PROVE  /\ joined \in Seq(S) /\ Len(joined) = k + l
         /\ \A i \in 1 .. k + l : joined[i] = IF i =< k THEN s[i] ELSE t[i - k]
  BY ConcatProperties

\* Owned, place by place: the free buffers, the two in hand, the queued ones.
LEMMA Places ==
  ASSUME TypeOK
  PROVE  LET n == Len(free)
         IN  /\ DOMAIN Owned = 1 .. n + 2 + Len(chunks)
             /\ \A i \in 1 .. n : Owned[i] = free[i]
             /\ Owned[n + 1] = rchunk.buf /\ Owned[n + 2] = chunk.buf
             /\ \A j \in 1 .. Len(chunks) : Owned[n + 2 + j] = chunks[j].buf
  <1> DEFINE n == Len(free)
             m == Len(chunks)
             hands == <<rchunk.buf, chunk.buf>>
             queued == [i \in DOMAIN chunks |-> chunks[i].buf]
             Slot == Buffers \cup {NoBuffer}
  <1>1. /\ n \in Nat /\ m \in Nat /\ DOMAIN chunks = 1 .. m /\ free \in Seq(Slot)
        /\ rchunk.buf \in Slot /\ chunk.buf \in Slot
    <2>1. free \in Seq(Buffers) /\ chunks \in Seq(Chunk) /\ rchunk \in Chunk /\ chunk \in Chunk
      BY AllTypes DEF FramerTypes, ReaderTypes, ChannelTypes
    <2>2. n \in Nat /\ m \in Nat /\ DOMAIN chunks = 1 .. m
      BY <2>1, LenProperties
    <2>3. free \in Seq(Slot)
      BY <2>1, SeqMonotonic
    <2> QED BY <2>1, <2>2, <2>3 DEF Chunk
  <1>2. /\ hands \in Seq(Slot) /\ Len(hands) = 2 /\ hands[1] = rchunk.buf /\ hands[2] = chunk.buf
    BY <1>1
  <1>3. queued \in Seq(Slot) /\ Len(queued) = m /\ \A j \in 1 .. m : queued[j] = chunks[j].buf
    <2>1. \A j \in 1 .. m : chunks[j].buf \in Slot
      BY Lengths DEF Chunk
    <2>2. queued \in [1 .. m -> Slot]
      BY <1>1, <2>1
    <2>3. queued \in Seq(Slot) /\ Len(queued) = m
      BY <1>1, <2>2, IsASeq
    <2> QED BY <1>1, <2>3
  <1> HIDE DEF n, m, hands, queued, Slot
  <1> DEFINE unqueued == free \o hands
  <1>4. /\ unqueued \in Seq(Slot) /\ Len(unqueued) = n + 2
        /\ \A i \in 1 .. n + 2 : unqueued[i] = IF i =< n THEN free[i] ELSE hands[i - n]
    <2>1. Len(free) = n
      BY DEF n
    <2> HIDE DEF unqueued
    <2>2. unqueued = free \o hands
      BY DEF unqueued
    <2> DEFINE l == Len(hands)
    <2>3. free \in Seq(Slot) /\ n \in Nat /\ hands \in Seq(Slot) /\ l \in Nat /\ l = 2
      BY <1>1, <1>2
    <2>4. Len(hands) = l
      OBVIOUS
    <2> HIDE DEF l
    <2>5. /\ unqueued \in Seq(Slot) /\ Len(unqueued) = n + l
          /\ \A i \in 1 .. n + l : unqueued[i] = IF i =< n THEN free[i] ELSE hands[i - n]
      <3>1. free \o hands \in Seq(Slot)
        BY <2>3, ConcatProperties
      <3>2. Len(free \o hands) = Len(free) + Len(hands)
        BY <2>3, ConcatProperties
      <3>3. Len(unqueued) = n + l
        BY <2>1, <2>2, <2>4, <3>2, Zenon
      <3>4. \A i \in 1 .. Len(free) + Len(hands) :
              (free \o hands)[i] = IF i =< Len(free) THEN free[i] ELSE hands[i - Len(free)]
        BY <2>3, ConcatProperties
      <3>5. \A i \in 1 .. n + l : unqueued[i] = IF i =< n THEN free[i] ELSE hands[i - n]
        BY <2>1, <2>2, <2>4, <3>4, Zenon
      <3> QED BY <2>2, <3>1, <3>3, <3>5
    <2> QED BY <2>3, <2>5
  <1> HIDE DEF unqueued
  <1>5. /\ Owned \in Seq(Slot) /\ Len(Owned) = n + 2 + m
        /\ \A i \in 1 .. n + 2 + m : Owned[i] =
             IF i =< n + 2 THEN unqueued[i] ELSE queued[i - (n + 2)]
    <2>1. Owned = unqueued \o queued
      BY DEF Owned, unqueued, hands, queued
    <2>2. n + 2 \in Nat
      BY <1>1
    <2> QED BY <1>1, <1>3, <1>4, <2>1, <2>2, Joined
  <1>6. DOMAIN Owned = 1 .. n + 2 + m
    BY <1>5, LenProperties
  <1>7. \A i \in 1 .. n : Owned[i] = free[i]
    BY <1>1, <1>4, <1>5
  <1>8. Owned[n + 1] = rchunk.buf /\ Owned[n + 2] = chunk.buf
    <2>1. n + 1 \in 1 .. n + 2 /\ n + 2 \in 1 .. n + 2 /\ (n + 1) - n = 1 /\ (n + 2) - n = 2
      BY <1>1
    <2>2. n + 1 \in 1 .. n + 2 + m /\ n + 2 \in 1 .. n + 2 + m
      BY <1>1
    <2> QED BY <1>1, <1>2, <1>4, <1>5, <2>1, <2>2
  <1>9. \A j \in 1 .. m : Owned[n + 2 + j] = chunks[j].buf
    <2>1. \A j \in 1 .. m :
            n + 2 + j \in 1 .. n + 2 + m /\ ~(n + 2 + j =< n + 2) /\ (n + 2 + j) - (n + 2) = j
      BY <1>1
    <2> QED BY <1>3, <1>5, <2>1
  <1> QED BY <1>6, <1>7, <1>8, <1>9 DEF n, m

LEMMA Once ==
  ASSUME FramerInv
  PROVE  OneOwner
  <1> USE DEF FramerInv
  <1> DEFINE n == Len(free)
             m == Len(chunks)
  <1>1. /\ n \in Nat /\ m \in Nat /\ DOMAIN Owned = 1 .. n + 2 + m
        /\ \A i \in 1 .. n : Owned[i] = free[i]
        /\ Owned[n + 1] = rchunk.buf /\ Owned[n + 2] = chunk.buf
        /\ \A j \in 1 .. m : Owned[n + 2 + j] = chunks[j].buf
    BY Places, Lengths
  <1> HIDE DEF n, m
  <1>2. ASSUME NEW b \in Buffers
        PROVE  Cardinality({i \in DOMAIN Owned : Owned[i] = b}) = 1
    <2>1. \A i \in DOMAIN Owned :
            i \in 1 .. n \/ i = n + 1 \/ i = n + 2 \/ (\E j \in 1 .. m : i = n + 2 + j)
      <3>1. \A i \in 1 .. n + 2 + m :
              i \in 1 .. n \/ i = n + 1 \/ i = n + 2 \/ i - (n + 2) \in 1 .. m
        BY <1>1
      <3>2. \A i \in 1 .. n + 2 + m : i = n + 2 + (i - (n + 2))
        BY <1>1
      <3> QED BY <1>1, <3>1, <3>2
    <2>2. \E i \in DOMAIN Owned : Owned[i] = b
      <3>1. /\ \A i \in 1 .. n : i \in DOMAIN Owned
            /\ n + 1 \in DOMAIN Owned /\ n + 2 \in DOMAIN Owned
            /\ \A j \in 1 .. m : n + 2 + j \in DOMAIN Owned
        BY <1>1
      <3> QED BY <1>1, <3>1 DEF Somewhere, n, m
    <2>3. ASSUME NEW i \in DOMAIN Owned, NEW k \in DOMAIN Owned, Owned[i] = b, Owned[k] = b
          PROVE  i = k
      <3>1. /\ \A x \in 1 .. n : \A y \in 1 .. n : free[x] = b /\ free[y] = b => x = y
            /\ \A x \in 1 .. n : free[x] = b => rchunk.buf # b /\ chunk.buf # b
            /\ \A x \in 1 .. n : \A y \in 1 .. m : ~(free[x] = b /\ chunks[y].buf = b)
            /\ \A x \in 1 .. m : \A y \in 1 .. m :
                 chunks[x].buf = b /\ chunks[y].buf = b => x = y
            /\ \A x \in 1 .. m : chunks[x].buf = b => rchunk.buf # b /\ chunk.buf # b
            /\ ~(rchunk.buf = b /\ chunk.buf = b)
        BY DEF Apart, n, m
      <3>2. CASE i \in 1 .. n
        <4>1. free[i] = b
          BY <1>1, <2>3, <3>2
        <4>2. rchunk.buf # b /\ chunk.buf # b /\ \A y \in 1 .. m : chunks[y].buf # b
          BY <3>1, <3>2, <4>1
        <4>3. k \in 1 .. n
          BY <1>1, <2>1, <2>3, <4>2
        <4> QED BY <1>1, <2>3, <3>1, <3>2, <4>1, <4>3
      <3>3. CASE i = n + 1
        BY <1>1, <2>1, <2>3, <3>1, <3>3
      <3>4. CASE i = n + 2
        BY <1>1, <2>1, <2>3, <3>1, <3>4
      <3>5. CASE \E j \in 1 .. m : i = n + 2 + j
        <4>1. PICK j \in 1 .. m : i = n + 2 + j
          BY <3>5
        <4>2. chunks[j].buf = b
          BY <1>1, <2>3, <4>1
        <4>3. PICK l \in 1 .. m : k = n + 2 + l
          BY <1>1, <2>1, <2>3, <3>1, <4>2
        <4> QED BY <1>1, <2>3, <3>1, <4>1, <4>2, <4>3
      <3> QED BY <2>1, <3>2, <3>3, <3>4, <3>5
    <2>4. PICK i \in DOMAIN Owned : {k \in DOMAIN Owned : Owned[k] = b} = {i}
      BY <2>2, <2>3
    <2> QED BY <2>4, FS_Singleton
  <1> QED BY <1>2 DEF OneOwner

(***************************************************************************)
(* Each buffer has one owner in every reachable state: a read never        *)
(* overwrites bytes that the framer still has to copy (StartChunkReader,   *)
(* releaseChunk).                                                          *)
(***************************************************************************)
THEOREM BuffersHaveOneOwner == Spec => []OneOwner
  BY FramerInvariant, Once, PTL

(***************************************************************************)
(* However long a line gets, the framer waits with no more than a fragment *)
(* of it, and with its timer running exactly if there is something that    *)
(* the timer can flush (consume, resetTimer).                              *)
(***************************************************************************)
THEOREM PendingStaysBounded == Spec => []PendingBounded
  <1>1. FramerInv => PendingBounded
    BY DEF FramerInv, Fits, PendingBounded
  <1> QED BY <1>1, FramerInvariant, PTL

(***************************************************************************)
(* The Continued flags mark exactly the records that go on with the one    *)
(* before, of whatever fragments and idle flushes a line is made; no       *)
(* record is longer than a fragment, and none but a line's end is empty    *)
(* (emit).                                                                 *)
(***************************************************************************)
THEOREM FlagsJoinRecords == Spec => []Fragments
  <1>1. FramerInv => Fragments
    BY DEF FramerInv
  <1> QED BY <1>1, FramerInvariant, PTL
----------------------------------------------------------------------------
(***************************************************************************)
(* Induction over the natural numbers, and what it says of FlattenSeq and of *)
(* FoldLeft, whose recursive functions have no other use here.             *)
(***************************************************************************)
\* A set of numbers that has 0, and the next of each that it has, has all of them.
LEMMA Induction ==
  ASSUME NEW S, 0 \in S, \A n \in Nat : n \in S => n + 1 \in S
  PROVE  \A n \in Nat : n \in S
  <1> SUFFICES ASSUME NEW n \in Nat, n \notin S PROVE FALSE
    OBVIOUS
  <1> DEFINE T == Nat \ S
  <1>1. T \subseteq Nat /\ T # {}
    OBVIOUS
  <1>2. PICK m \in T : \A k \in T : m =< k
    <2> HIDE DEF T
    <2> QED BY <1>1, Least
  <1>3. m # 0 /\ m - 1 \in Nat /\ m - 1 \notin T
    BY <1>2
  <1> QED BY <1>2, <1>3

\* The function by which FlattenSeq joins the first n sequences of s.
Flattens(g, s, n) == g = [i \in 1 .. n |-> IF i = 1 THEN s[i] ELSE g[i - 1] \o s[i]]

\* What it is at each place;
LEMMA FlattensAt ==
  ASSUME NEW g, NEW s, NEW n \in Nat, Flattens(g, s, n)
  PROVE  \A i \in 1 .. n : g[i] = IF i = 1 THEN s[i] ELSE g[i - 1] \o s[i]
  BY DEF Flattens

\* it exists for every n;
LEMMA FlattensExists ==
  ASSUME NEW s
  PROVE  \A n \in Nat : \E g : Flattens(g, s, n)
  <1> DEFINE S == {n \in Nat : \E g : Flattens(g, s, n)}
  <1>1. 0 \in S
    <2> DEFINE g == [i \in 1 .. 0 |-> {}]
    <2>1. Flattens(g, s, 0)
      BY DEF Flattens
    <2> QED BY <2>1
  <1>2. ASSUME NEW n \in Nat, n \in S
        PROVE  n + 1 \in S
    <2>1. PICK g : Flattens(g, s, n)
      BY <1>2
    <2> DEFINE last == IF n = 0 THEN s[1] ELSE g[n] \o s[n + 1]
               h == [i \in 1 .. n + 1 |-> IF i = n + 1 THEN last ELSE g[i]]
    <2>2. \A i \in 1 .. n + 1 : h[i] = IF i = 1 THEN s[i] ELSE h[i - 1] \o s[i]
      <3> SUFFICES ASSUME NEW i \in 1 .. n + 1
                   PROVE  h[i] = IF i = 1 THEN s[i] ELSE h[i - 1] \o s[i]
        OBVIOUS
      <3>1. CASE i = n + 1
        BY <3>1
      <3>2. CASE i # n + 1
        <4>1. i \in 1 .. n /\ h[i] = g[i] /\ (i # 1 => h[i - 1] = g[i - 1])
          BY <3>2
        <4> QED BY <2>1, <4>1, FlattensAt
      <3> QED BY <3>1, <3>2
    <2>3. DOMAIN h = 1 .. n + 1 /\ h = [i \in DOMAIN h |-> h[i]]
      OBVIOUS
    <2> HIDE DEF h
    <2>4. Flattens(h, s, n + 1)
      BY <2>2, <2>3 DEF Flattens
    <2> QED BY <2>4
  <1> HIDE DEF S
  <1>3. \A n \in Nat : n \in S
    BY <1>1, <1>2, Induction
  <1> QED BY <1>3 DEF S

\* Equal up to n.
Agree(f, g, n) == \A i \in 1 .. n : f[i] = g[i]

\* and it is the same for two sequences as far as they are.
LEMMA FlattensAgree ==
  ASSUME NEW s, NEW t, NEW n \in Nat, NEW m \in Nat, n =< m, Agree(s, t, n),
         NEW g, NEW h, Flattens(g, s, n), Flattens(h, t, m)
  PROVE  Agree(g, h, n)
  <1> DEFINE S == {k \in Nat : k \in 1 .. n => g[k] = h[k]}
  <1>1. 0 \in S
    OBVIOUS
  <1>2. ASSUME NEW k \in Nat, k \in S
        PROVE  k + 1 \in S
    <2> SUFFICES ASSUME k + 1 \in 1 .. n PROVE g[k + 1] = h[k + 1]
      OBVIOUS
    <2>1. k + 1 \in 1 .. m /\ (k + 1) - 1 = k /\ s[k + 1] = t[k + 1]
      BY DEF Agree
    <2>2. g[k + 1] = IF k + 1 = 1 THEN s[k + 1] ELSE g[k] \o s[k + 1]
      BY <2>1, FlattensAt
    <2>3. h[k + 1] = IF k + 1 = 1 THEN t[k + 1] ELSE h[k] \o t[k + 1]
      BY <2>1, FlattensAt
    <2> QED BY <1>2, <2>1, <2>2, <2>3
  <1> HIDE DEF S
  <1>3. \A k \in Nat : k \in S
    BY <1>1, <1>2, Induction
  <1> QED BY <1>3 DEF S, Agree

\* So FlattenSeq is what that function comes to:
LEMMA FlattenSeqDef ==
  ASSUME NEW s, Len(s) \in Nat, Len(s) # 0
  PROVE  \E g : Flattens(g, s, Len(s)) /\ FlattenSeq(s) = g[Len(s)]
  <1> DEFINE g == CHOOSE f : Flattens(f, s, Len(s))
  <1>1. Flattens(g, s, Len(s))
    BY FlattensExists
  <1>2. FlattenSeq(s) = g[Len(s)]
    BY DEF FlattenSeq, Flattens
  <1> HIDE DEF g
  <1> QED BY <1>1, <1>2

\* nothing for nothing,
LEMMA FlattenSeqEmpty == FlattenSeq(<< >>) = << >>
  BY DEF FlattenSeq

\* and what it was before, joined with what is appended.
LEMMA FlattenSeqAppend ==
  ASSUME NEW S, NEW s \in Seq(Seq(S)), NEW x \in Seq(S)
  PROVE  FlattenSeq(Append(s, x)) = FlattenSeq(s) \o x
  <1> DEFINE n == Len(s)
             t == Append(s, x)
  <1>1. /\ n \in Nat /\ Len(t) = n + 1 /\ t[n + 1] = x /\ \A i \in 1 .. n : t[i] = s[i]
        /\ (n = 0 => s = << >>)
    BY AppendProperties, LenProperties, EmptySeq
  <1> HIDE DEF t
  <1>2. PICK h : Flattens(h, t, n + 1) /\ FlattenSeq(t) = h[n + 1]
    BY <1>1, FlattenSeqDef
  <1>3. h[n + 1] = IF n = 0 THEN x ELSE h[n] \o x
    <2>1. n + 1 \in Nat /\ n + 1 \in 1 .. n + 1 /\ (n + 1 = 1 <=> n = 0) /\ (n + 1) - 1 = n
      BY <1>1
    <2>2. h[n + 1] = IF n + 1 = 1 THEN t[n + 1] ELSE h[(n + 1) - 1] \o t[n + 1]
      BY <1>2, <2>1, FlattensAt
    <2> QED BY <1>1, <2>1, <2>2
  <1>4. CASE n = 0
    <2>1. FlattenSeq(s) = << >>
      BY <1>1, <1>4, FlattenSeqEmpty
    <2>2. FlattenSeq(s) \o x = x
      BY <2>1, ConcatEmptySeq
    <2> QED BY <1>2, <1>3, <1>4, <2>2 DEF t
  <1>5. CASE n # 0
    <2>1. PICK g : Flattens(g, s, n) /\ FlattenSeq(s) = g[n]
      BY <1>1, <1>5, FlattenSeqDef
    <2>2. g[n] = h[n]
      <3>1. n =< n + 1 /\ n + 1 \in Nat /\ Agree(s, t, n)
        BY <1>1 DEF Agree
      <3>2. Agree(g, h, n)
        BY <1>1, <1>2, <2>1, <3>1, FlattensAgree
      <3>3. n \in 1 .. n
        BY <1>1, <1>5
      <3> HIDE DEF n
      <3> QED BY <3>2, <3>3 DEF Agree
    <2> QED BY <1>2, <1>3, <1>5, <2>1, <2>2 DEF t
  <1> QED BY <1>4, <1>5
\* The greatest of some numbers up to n.
LEMMA Greatest ==
  ASSUME NEW n \in Nat, NEW S \in SUBSET (1 .. n), S # {}
  PROVE  Max(S) \in S /\ \A i \in S : i =< Max(S)
  <1> DEFINE T == {n - i : i \in S}
  <1>1. T \subseteq Nat
    BY S \subseteq 1 .. n
  <1>a. T # {}
    OBVIOUS
  <1>2. PICK m \in T : \A k \in T : m =< k
    <2> HIDE DEF T
    <2> QED BY <1>1, <1>a, Least
  <1>3. PICK i \in S : m = n - i
    BY <1>2
  <1>4. \A j \in S : j =< i
    BY <1>2, <1>3
  <1> QED BY <1>4 DEF Max

\* The function by which FoldLeft feeds the first n bytes of s to f.
FoldsTo(g, f, s, n) ==
  g = [S \in SUBSET (1 .. n) |-> IF S = {} THEN f ELSE Feed(g[S \ {Max(S)}], s[Max(S)])]

\* What it is for each set of places;
LEMMA FoldsAt ==
  ASSUME NEW g, NEW f, NEW s, NEW n \in Nat, FoldsTo(g, f, s, n)
  PROVE  /\ g[{}] = f
         /\ \A S \in SUBSET (1 .. n) : S # {} => g[S] = Feed(g[S \ {Max(S)}], s[Max(S)])
  BY DEF FoldsTo

\* it exists for every n;
LEMMA FoldsExists ==
  ASSUME NEW f, NEW s
  PROVE  \A n \in Nat : \E g : FoldsTo(g, f, s, n)
  <1> DEFINE N == {n \in Nat : \E g : FoldsTo(g, f, s, n)}
  <1>1. 0 \in N
    <2> DEFINE g == [S \in SUBSET (1 .. 0) |-> f]
    <2>1. SUBSET (1 .. 0) = {{}}
      OBVIOUS
    <2>2. \A S \in SUBSET (1 .. 0) : g[S] = IF S = {} THEN f ELSE Feed(g[S \ {Max(S)}], s[Max(S)])
      BY <2>1
    <2>3. DOMAIN g = SUBSET (1 .. 0) /\ g = [S \in DOMAIN g |-> g[S]]
      OBVIOUS
    <2> HIDE DEF g
    <2>4. FoldsTo(g, f, s, 0)
      BY <2>2, <2>3 DEF FoldsTo
    <2> QED BY <2>4
  <1>2. ASSUME NEW n \in Nat, n \in N
        PROVE  n + 1 \in N
    <2>1. PICK g : FoldsTo(g, f, s, n)
      BY <1>2
    <2> DEFINE h == [S \in SUBSET (1 .. n + 1) |->
                       IF n + 1 \in S THEN Feed(g[S \ {n + 1}], s[n + 1]) ELSE g[S]]
    <2>2. \A S \in SUBSET (1 .. n + 1) :
            h[S] = IF S = {} THEN f ELSE Feed(h[S \ {Max(S)}], s[Max(S)])
      <3> SUFFICES ASSUME NEW S \in SUBSET (1 .. n + 1)
                   PROVE  h[S] = IF S = {} THEN f ELSE Feed(h[S \ {Max(S)}], s[Max(S)])
        OBVIOUS
      <3>0. \A U \in SUBSET (1 .. n) : U \in SUBSET (1 .. n + 1) /\ n + 1 \notin U
        OBVIOUS
      <3>1. CASE n + 1 \in S
        <4>1. Max(S) = n + 1
          <5>1. n + 1 \in Nat /\ S # {}
            BY <3>1
          <5>2. Max(S) \in S /\ \A i \in S : i =< Max(S)
            BY <5>1, Greatest
          <5>3. \A i \in S : i \in Nat /\ i =< n + 1
            BY S \subseteq 1 .. n + 1
          <5> DEFINE m == Max(S)
          <5> HIDE DEF m
          <5>4. m \in S /\ \A i \in S : i =< m
            BY <5>2 DEF m
          <5>5. m = n + 1
            BY <3>1, <5>3, <5>4
          <5> QED BY <5>5 DEF m
        <4>2. S \ {n + 1} \in SUBSET (1 .. n)
          OBVIOUS
        <4>3. h[S \ {n + 1}] = g[S \ {n + 1}]
          BY <3>0, <4>2
        <4> QED BY <3>1, <4>1, <4>3
      <3>2. CASE n + 1 \notin S
        <4>1. S \in SUBSET (1 .. n) /\ S \ {Max(S)} \in SUBSET (1 .. n)
          <5>1. \A i \in S : i \in 1 .. n
            BY <3>2
          <5> QED BY <5>1
        <4>2. h[S] = g[S] /\ h[S \ {Max(S)}] = g[S \ {Max(S)}]
          BY <3>0, <4>1
        <4>3. g[S] = IF S = {} THEN f ELSE Feed(g[S \ {Max(S)}], s[Max(S)])
          <5>1. /\ g[{}] = f
                /\ \A U \in SUBSET (1 .. n) : U # {} => g[U] = Feed(g[U \ {Max(U)}], s[Max(U)])
            BY <2>1, FoldsAt
          <5> QED BY <4>1, <5>1
        <4> QED BY <4>2, <4>3
      <3> QED BY <3>1, <3>2
    <2>3. DOMAIN h = SUBSET (1 .. n + 1) /\ h = [S \in DOMAIN h |-> h[S]]
      OBVIOUS
    <2> HIDE DEF h
    <2>4. FoldsTo(h, f, s, n + 1)
      BY <2>2, <2>3 DEF FoldsTo
    <2> QED BY <2>4
  <1> HIDE DEF N
  <1>3. \A n \in Nat : n \in N
    BY <1>1, <1>2, Induction
  <1> QED BY <1>3 DEF N

AgreeBelow(g, h, n) == \A S \in SUBSET (1 .. n) : g[S] = h[S]

\* and it is the same for two sequences as far as they are.
LEMMA FoldsAgree ==
  ASSUME NEW f, NEW s, NEW t, NEW n \in Nat, NEW m \in Nat, n =< m, Agree(s, t, n),
         NEW g, NEW h, FoldsTo(g, f, s, n), FoldsTo(h, f, t, m)
  PROVE  AgreeBelow(g, h, n)
  <1> DEFINE N == {k \in Nat : k =< n => AgreeBelow(g, h, k)}
  <1>0. \A S \in SUBSET (1 .. n) : S \in SUBSET (1 .. m)
    OBVIOUS
  <1>1. 0 \in N
    <2>1. SUBSET (1 .. 0) = {{}} /\ {} \in SUBSET (1 .. n) /\ {} \in SUBSET (1 .. m)
      OBVIOUS
    <2>2. g[{}] = f /\ h[{}] = f
      BY <2>1, FoldsAt
    <2> QED BY <2>1, <2>2 DEF AgreeBelow
  <1>2. ASSUME NEW k \in Nat, k \in N
        PROVE  k + 1 \in N
    <2> SUFFICES ASSUME k + 1 =< n, NEW S \in SUBSET (1 .. k + 1) PROVE g[S] = h[S]
      BY DEF AgreeBelow
    <2>0. AgreeBelow(g, h, k)
      BY <1>2
    <2>1. CASE k + 1 \notin S
      <3>1. S \in SUBSET (1 .. k)
        BY <2>1
      <3> QED BY <2>0, <3>1 DEF AgreeBelow
    <2>2. CASE k + 1 \in S
      <3>1. Max(S) = k + 1
        <4>1. k + 1 \in Nat /\ S # {}
          BY <2>2
        <4>2. Max(S) \in S /\ \A i \in S : i =< Max(S)
          BY <4>1, Greatest
        <4>3. \A i \in S : i \in Nat /\ i =< k + 1
          BY S \subseteq 1 .. k + 1
        <4> DEFINE l == Max(S)
        <4> HIDE DEF l
        <4>4. l \in S /\ \A i \in S : i =< l
          BY <4>2 DEF l
        <4>5. l = k + 1
          BY <2>2, <4>3, <4>4
        <4> QED BY <4>5 DEF l
      <3>2. S \ {k + 1} \in SUBSET (1 .. k)
        OBVIOUS
      <3>3. S \in SUBSET (1 .. n) /\ S \in SUBSET (1 .. m) /\ S # {}
        BY <2>2
      <3>a. /\ \A U \in SUBSET (1 .. n) : U # {} => g[U] = Feed(g[U \ {Max(U)}], s[Max(U)])
            /\ \A U \in SUBSET (1 .. m) : U # {} => h[U] = Feed(h[U \ {Max(U)}], t[Max(U)])
        <4>1. \A U \in SUBSET (1 .. n) : U # {} => g[U] = Feed(g[U \ {Max(U)}], s[Max(U)])
          BY ONLY n \in Nat, FoldsTo(g, f, s, n), FoldsAt
        <4>2. \A U \in SUBSET (1 .. m) : U # {} => h[U] = Feed(h[U \ {Max(U)}], t[Max(U)])
          BY ONLY m \in Nat, FoldsTo(h, f, t, m), FoldsAt
        <4> QED BY <4>1, <4>2
      <3>4. g[S] = Feed(g[S \ {k + 1}], s[k + 1])
        BY <3>1, <3>3, <3>a
      <3>5. h[S] = Feed(h[S \ {k + 1}], t[k + 1])
        BY <3>1, <3>3, <3>a
      <3>6. g[S \ {k + 1}] = h[S \ {k + 1}]
        BY <2>0, <3>2 DEF AgreeBelow
      <3>7. s[k + 1] = t[k + 1]
        BY DEF Agree
      <3> QED BY <3>4, <3>5, <3>6, <3>7
    <2> QED BY <2>1, <2>2
  <1> HIDE DEF N
  <1>3. \A k \in Nat : k \in N
    BY <1>1, <1>2, Induction
  <1>4. n \in N
    BY <1>3
  <1> QED BY <1>4 DEF N

\* So FeedAll is what that function comes to:
LEMMA FeedAllDef ==
  ASSUME NEW f, NEW S, NEW s \in Seq(S)
  PROVE  \E g : FoldsTo(g, f, s, Len(s)) /\ FeedAll(f, s) = g[1 .. Len(s)]
  <1> DEFINE g == CHOOSE h : FoldsTo(h, f, s, Len(s))
  <1>1. Len(s) \in Nat /\ DOMAIN s = 1 .. Len(s)
    BY LenProperties
  <1>2. FoldsTo(g, f, s, Len(s))
    BY <1>1, FoldsExists
  <1>3. FeedAll(f, s) = g[1 .. Len(s)]
    BY <1>1 DEF FeedAll, FoldLeft, MapThenFoldSet, FoldsTo
  <1> HIDE DEF g
  <1> QED BY <1>2, <1>3

\* the framer as it was for no byte,
LEMMA FeedNone == \A f : FeedAll(f, << >>) = f
  <1> TAKE f
  <1>1. << >> \in Seq({}) /\ Len(<< >>) = 0
    OBVIOUS
  <1>2. PICK g : FoldsTo(g, f, << >>, 0) /\ FeedAll(f, << >>) = g[1 .. 0]
    BY <1>1, FeedAllDef
  <1>3. g[1 .. 0] = f
    <2>1. g[{}] = f /\ 1 .. 0 = {}
      BY <1>2, FoldsAt
    <2> QED BY <2>1
  <1> QED BY <1>2, <1>3

\* and one byte more fed to what it was before.
LEMMA FeedAllAppend ==
  ASSUME NEW f, NEW s \in Seq(Byte), NEW x \in Byte
  PROVE  FeedAll(f, Append(s, x)) = Feed(FeedAll(f, s), x)
  <1> DEFINE n == Len(s)
             t == Append(s, x)
  <1>1. /\ n \in Nat /\ n + 1 \in Nat /\ t \in Seq(Byte) /\ Len(t) = n + 1
        /\ t[n + 1] = x /\ \A i \in 1 .. n : t[i] = s[i]
    BY AppendProperties, LenProperties
  <1>2. PICK g : FoldsTo(g, f, s, n) /\ FeedAll(f, s) = g[1 .. n]
    BY FeedAllDef
  <1> HIDE DEF t
  <1>3. PICK h : FoldsTo(h, f, t, n + 1) /\ FeedAll(f, t) = h[1 .. n + 1]
    BY <1>1, FeedAllDef
  <1> HIDE DEF n
  <1>4. AgreeBelow(g, h, n)
    <2>1. Agree(s, t, n) /\ n =< n + 1
      BY <1>1 DEF Agree
    <2> QED BY <1>1, <1>2, <1>3, <2>1, FoldsAgree
  <1>5. Max(1 .. n + 1) = n + 1 /\ (1 .. n + 1) \ {n + 1} = 1 .. n
    <2>1. n + 1 \in 1 .. n + 1 /\ 1 .. n + 1 \in SUBSET (1 .. n + 1)
      BY <1>1
    <2>2. Max(1 .. n + 1) \in 1 .. n + 1 /\ n + 1 =< Max(1 .. n + 1)
      BY <1>1, <2>1, Greatest
    <2> QED BY <1>1, <2>2
  <1>6. h[1 .. n + 1] = Feed(h[1 .. n], x)
    <2>1. n + 1 \in 1 .. n + 1
      BY <1>1
    <2> DEFINE U == 1 .. n + 1
    <2>2. U \in SUBSET (1 .. n + 1) /\ U # {}
      BY <2>1
    <2>3. h[U] = Feed(h[U \ {Max(U)}], t[Max(U)])
      <3>1. n + 1 \in Nat
        BY <1>1
      <3>2. \A V \in SUBSET (1 .. n + 1) : V # {} => h[V] = Feed(h[V \ {Max(V)}], t[Max(V)])
        BY <1>3, <3>1, FoldsAt
      <3> HIDE DEF U
      <3> QED BY <2>2, <3>2
    <2> QED BY <1>1, <1>5, <2>3
  <1>7. h[1 .. n] = g[1 .. n]
    BY <1>4 DEF AgreeBelow
  <1> QED BY <1>2, <1>3, <1>6, <1>7 DEF t
----------------------------------------------------------------------------
(***************************************************************************)
(* The framer that sees one byte at a time: fed what holds no newline, it  *)
(* keeps what fits into a fragment and cuts off what does not.             *)
(***************************************************************************)
\* An element more can be put behind a joined sequence, or behind its second part.
LEMMA AppendJoined ==
  ASSUME NEW S, NEW s \in Seq(S), NEW t \in Seq(S), NEW x \in S
  PROVE  s \o Append(t, x) = Append(s \o t, x)
  <1>1. s \o t \in Seq(S) /\ <<x>> \in Seq(S)
    BY ConcatProperties
  <1>2. Append(t, x) = t \o <<x>> /\ Append(s \o t, x) = (s \o t) \o <<x>>
    BY <1>1, AppendIsConcat
  <1>3. (s \o t) \o <<x>> = s \o (t \o <<x>>)
    <2>1. s \in Seq(S) /\ t \in Seq(S) /\ <<x>> \in Seq(S)
      BY <1>1
    <2> QED BY ONLY <2>1, ConcatAssociative
  <1> QED BY <1>2, <1>3

\* A sequence of n + 1 elements is one of n and an element more.
LEMMA ButLast ==
  ASSUME NEW S, NEW n \in Nat, NEW t \in Seq(S), Len(t) = n + 1
  PROVE  /\ t[n + 1] \in S /\ SubSeq(t, 1, n) \in Seq(S) /\ Len(SubSeq(t, 1, n)) = n
         /\ t = Append(SubSeq(t, 1, n), t[n + 1])
         /\ \A i \in 1 .. n : SubSeq(t, 1, n)[i] = t[i]
  <1>1. t # << >> /\ \A i \in 1 .. n + 1 : t[i] \in S
    BY ElementOfSeq, EmptySeq
  <1>2. PICK s \in Seq(S), x \in S : t = Append(s, x)
    BY <1>1, SequenceEmptyOrAppend
  <1>3. Len(s) = n /\ x = t[n + 1] /\ \A i \in 1 .. n : t[i] = s[i]
    BY <1>2, AppendProperties, LenProperties
  <1>4. \A i \in 1 .. n : t[i] \in S
    BY <1>1
  <1>5. /\ SubSeq(t, 1, n) \in Seq(S) /\ Len(SubSeq(t, 1, n)) = n
        /\ \A i \in 1 .. n : SubSeq(t, 1, n)[i] = t[i]
    <2>1. /\ SubSeq(t, 1, n) \in Seq(S)
          /\ Len(SubSeq(t, 1, n)) = IF 1 <= n THEN n - 1 + 1 ELSE 0
          /\ \A i \in 1 .. n - 1 + 1 : SubSeq(t, 1, n)[i] = t[1 + i - 1]
      BY <1>4, SubSeqProperties
    <2> QED BY <2>1
  <1>6. SubSeq(t, 1, n) = s
    BY <1>3, <1>5, SeqEqual
  <1> QED BY <1>1, <1>2, <1>3, <1>5, <1>6

\* Feeding two sequences joined is feeding one after the other.
LEMMA FeedJoined ==
  ASSUME NEW f, NEW s \in Seq(Byte), NEW t \in Seq(Byte)
  PROVE  FeedAll(f, s \o t) = FeedAll(FeedAll(f, s), t)
  <1> DEFINE N == {n \in Nat : \A u \in Seq(Byte) :
                     Len(u) = n => FeedAll(f, s \o u) = FeedAll(FeedAll(f, s), u)}
  <1>1. 0 \in N
    <2>1. \A u \in Seq(Byte) : Len(u) = 0 => u = << >>
      BY EmptySeq
    <2>2. s \o << >> = s
      BY ConcatEmptySeq
    <2> QED BY <2>1, <2>2, FeedNone
  <1>2. ASSUME NEW n \in Nat, n \in N
        PROVE  n + 1 \in N
    <2> SUFFICES ASSUME NEW u \in Seq(Byte), Len(u) = n + 1
                 PROVE  FeedAll(f, s \o u) = FeedAll(FeedAll(f, s), u)
      OBVIOUS
    <2> DEFINE v == SubSeq(u, 1, n)
               x == u[n + 1]
    <2>1. v \in Seq(Byte) /\ Len(v) = n /\ x \in Byte /\ u = Append(v, x)
      BY ButLast
    <2> HIDE DEF v, x
    <2>2. s \o u = Append(s \o v, x) /\ s \o v \in Seq(Byte)
      BY <2>1, AppendJoined, ConcatProperties
    <2>3. FeedAll(f, s \o u) = Feed(FeedAll(f, s \o v), x)
      <3> DEFINE w == s \o v
      <3>1. w \in Seq(Byte) /\ s \o u = Append(w, x)
        BY <2>2
      <3> HIDE DEF w
      <3>2. FeedAll(f, Append(w, x)) = Feed(FeedAll(f, w), x)
        BY <2>1, <3>1, FeedAllAppend
      <3> QED BY <3>1, <3>2 DEF w
    <2>4. FeedAll(FeedAll(f, s), u) = Feed(FeedAll(FeedAll(f, s), v), x)
      BY <2>1, FeedAllAppend
    <2>5. FeedAll(f, s \o v) = FeedAll(FeedAll(f, s), v)
      BY <1>2, <2>1
    <2> QED BY <2>3, <2>4, <2>5
  <1> HIDE DEF N
  <1>3. \A n \in Nat : n \in N
    BY <1>1, <1>2, Induction
  <1>4. Len(t) \in Nat
    BY LenProperties
  <1>5. Len(t) \in N
    BY <1>3, <1>4
  <1> QED BY <1>5 DEF N

\* The byte-wise framer with this pending line, flag and output.
Framed(line, cont, records) == [buf |-> line, cont |-> cont, out |-> records]

NoNewline(s) == \A i \in 1 .. Len(s) : s[i] # "\n"

\* What fits into a fragment is kept,
LEMMA FeedShort ==
  ASSUME NEW c, NEW o, NEW s \in Seq(Byte), NoNewline(s), Len(s) =< MaxFragmentBytes
  PROVE  FeedAll(Framed(<< >>, c, o), s) = Framed(s, c, o)
  <1> DEFINE N == {n \in Nat : \A u \in Seq(Byte) :
                     Len(u) = n /\ NoNewline(u) /\ n =< MaxFragmentBytes =>
                       FeedAll(Framed(<< >>, c, o), u) = Framed(u, c, o)}
  <1>1. 0 \in N
    <2>1. \A u \in Seq(Byte) : Len(u) = 0 => u = << >>
      BY EmptySeq
    <2> QED BY <2>1, FeedNone
  <1>2. ASSUME NEW n \in Nat, n \in N
        PROVE  n + 1 \in N
    <2> SUFFICES ASSUME NEW u \in Seq(Byte), Len(u) = n + 1, NoNewline(u),
                        n + 1 =< MaxFragmentBytes
                 PROVE  FeedAll(Framed(<< >>, c, o), u) = Framed(u, c, o)
      OBVIOUS
    <2> DEFINE v == SubSeq(u, 1, n)
               x == u[n + 1]
    <2>1. /\ v \in Seq(Byte) /\ Len(v) = n /\ x \in Byte /\ u = Append(v, x)
          /\ \A i \in 1 .. n : v[i] = u[i]
      BY ButLast
    <2>2. x # "\n"
      BY DEF NoNewline
    <2>3. NoNewline(v)
      BY <2>1 DEF NoNewline
    <2> HIDE DEF v, x
    <2>4. n =< MaxFragmentBytes /\ n # MaxFragmentBytes
      BY Sizes
    <2>5. FeedAll(Framed(<< >>, c, o), v) = Framed(v, c, o)
      BY <1>2, <2>1, <2>3, <2>4
    <2>6. Feed(Framed(v, c, o), x) = Framed(Append(v, x), c, o)
      BY <2>1, <2>2, <2>4 DEF Feed, Framed
    <2>7. FeedAll(Framed(<< >>, c, o), u) = Feed(FeedAll(Framed(<< >>, c, o), v), x)
      BY <2>1, FeedAllAppend
    <2> QED BY <2>1, <2>5, <2>6, <2>7
  <1> HIDE DEF N
  <1>3. \A n \in Nat : n \in N
    BY <1>1, <1>2, Induction
  <1>4. Len(s) \in Nat
    BY LenProperties
  <1>5. Len(s) \in N
    BY <1>3, <1>4
  <1> QED BY <1>5 DEF N

\* of what does not fit a fragment is cut off,
LEMMA FeedLong ==
  ASSUME NEW c, NEW o, NEW s \in Seq(Byte), NoNewline(s), Len(s) > MaxFragmentBytes
  PROVE  LET cut == SubSeq(s, 1, MaxFragmentBytes)
             r == [end |-> "max_bytes", line |-> cut, continued |-> c]
         IN  FeedAll(Framed(<< >>, c, o), s) =
               FeedAll(Framed(<< >>, TRUE, Append(o, r)), SubSeq(s, MaxFragmentBytes + 1, Len(s)))
  <1> DEFINE M == MaxFragmentBytes
             cut == SubSeq(s, 1, M)
             r == [end |-> "max_bytes", line |-> cut, continued |-> c]
             b == s[M + 1]
             rest == SubSeq(s, M + 2, Len(s))
  <1>1. M \in Nat /\ M >= 1 /\ Len(s) \in Nat /\ \A i \in 1 .. Len(s) : s[i] \in Byte
    BY Sizes, LenProperties, ElementOfSeq
  <1>2. cut \in Seq(Byte) /\ Len(cut) = M /\ \A i \in 1 .. M : cut[i] = s[i]
    <2>1. \A i \in 1 .. M : s[i] \in Byte
      BY <1>1
    <2>2. /\ cut \in Seq(Byte) /\ Len(cut) = IF 1 <= M THEN M - 1 + 1 ELSE 0
          /\ \A i \in 1 .. M - 1 + 1 : cut[i] = s[1 + i - 1]
      BY <1>1, <2>1, SubSeqProperties
    <2> QED BY <1>1, <2>2
  <1>3. NoNewline(cut)
    BY <1>1, <1>2 DEF NoNewline
  <1>4. b \in Byte /\ b # "\n" /\ <<b>> \in Seq(Byte)
    BY <1>1 DEF NoNewline
  <1>5. rest \in Seq(Byte)
    BY <1>1, SubSeqProperties
  <1>6. SubSeq(s, M + 1, Len(s)) = <<b>> \o rest /\ SubSeq(s, M + 1, Len(s)) \in Seq(Byte)
    <2>1. M + 1 \in 1 .. Len(s) /\ Len(s) \in M + 1 .. Len(s) /\ (M + 1) + 1 = M + 2
      BY <1>1
    <2>2. SubSeq(s, M + 1, Len(s)) = <<s[M + 1]>> \o SubSeq(s, (M + 1) + 1, Len(s))
      BY <2>1, SubSeqRecursiveFirst
    <2> QED BY <1>1, <2>1, <2>2, SubSeqProperties
  <1>7. s = cut \o SubSeq(s, M + 1, Len(s))
    <2>1. 1 \in 1 .. Len(s) + 1 /\ M \in 1 - 1 .. Len(s) /\ Len(s) \in M .. Len(s)
      BY <1>1
    <2>2. SubSeq(s, 1, M) \o SubSeq(s, M + 1, Len(s)) = SubSeq(s, 1, Len(s))
      BY <2>1, ConcatAdjacentSubSeq
    <2>3. SubSeq(s, 1, Len(s)) = s
      BY SubSeqFull
    <2> QED BY <2>2, <2>3
  <1> DEFINE f0 == Framed(<< >>, c, o)
             f1 == Framed(cut, c, o)
             f2 == Framed(<< >>, TRUE, Append(o, r))
  <1>8. Feed(f1, b) = Framed(<<b>>, TRUE, Append(o, r))
    BY <1>2, <1>4 DEF Feed, Framed
  <1>9. FeedAll(f2, <<b>>) = Framed(<<b>>, TRUE, Append(o, r))
    <2>1. NoNewline(<<b>>) /\ Len(<<b>>) =< MaxFragmentBytes
      BY <1>1, <1>4 DEF NoNewline
    <2> HIDE DEF r, b
    <2> QED BY <1>4, <2>1, FeedShort
  <1>a. FeedAll(f1, <<b>>) = Feed(f1, b)
    <2>1. << >> \in Seq(Byte) /\ <<b>> = Append(<< >>, b)
      OBVIOUS
    <2>2. FeedAll(f1, Append(<< >>, b)) = Feed(FeedAll(f1, << >>), b)
      <3> HIDE DEF f1, b
      <3> QED BY <1>4, <2>1, FeedAllAppend
    <2> QED BY <2>1, <2>2, FeedNone
  <1>b. FeedAll(f0, s) = FeedAll(FeedAll(f0, cut), <<b>> \o rest)
    <2> DEFINE behind == SubSeq(s, M + 1, Len(s))
    <2>0. cut \in Seq(Byte)
      BY <1>2
    <2>a. behind \in Seq(Byte)
      BY <1>6
    <2>1. s = cut \o behind /\ behind = <<b>> \o rest
      BY <1>6, <1>7
    <2> HIDE DEF f0, cut, b, rest, behind
    <2>2. FeedAll(f0, cut \o behind) = FeedAll(FeedAll(f0, cut), behind)
      BY ONLY <2>0, <2>a, FeedJoined
    <2> QED BY <2>1, <2>2
  <1>c. FeedAll(f0, cut) = f1
    <2> HIDE DEF cut
    <2> QED BY <1>2, <1>3, FeedShort, <1>1
  <1>d. FeedAll(f1, <<b>> \o rest) = FeedAll(FeedAll(f1, <<b>>), rest)
    <2> DEFINE one == <<b>>
    <2>1. one \in Seq(Byte)
      BY <1>4
    <2> HIDE DEF f1, one, rest
    <2>2. FeedAll(f1, one \o rest) = FeedAll(FeedAll(f1, one), rest)
      BY <1>5, <2>1, FeedJoined
    <2> QED BY <2>2 DEF one
  <1>e. FeedAll(f2, <<b>> \o rest) = FeedAll(FeedAll(f2, <<b>>), rest)
    <2> DEFINE one == <<b>>
    <2>1. one \in Seq(Byte)
      BY <1>4
    <2> HIDE DEF f2, one, rest
    <2>2. FeedAll(f2, one \o rest) = FeedAll(FeedAll(f2, one), rest)
      BY <1>5, <2>1, FeedJoined
    <2> QED BY <2>2 DEF one
  <1>f. FeedAll(f0, s) = FeedAll(f2, SubSeq(s, M + 1, Len(s)))
    <2> HIDE DEF f0, f1, f2, cut, b, rest
    <2> QED BY <1>6, <1>8, <1>9, <1>a, <1>b, <1>c, <1>d, <1>e
  <1> QED BY <1>f

\* and a newline completes it.
LEMMA FeedEnd ==
  ASSUME NEW c, NEW o, NEW s \in Seq(Byte), NoNewline(s), Len(s) =< MaxFragmentBytes
  PROVE  FeedAll(Framed(<< >>, c, o), s \o <<"\n">>) =
           Framed(<< >>, FALSE,
                  Append(o, [end |-> "newline", line |-> trimCR(s), continued |-> c]))
  <1> DEFINE nl == "\n"
             f == Framed(<< >>, c, o)
  <1>1. nl \in Byte /\ << >> \in Seq(Byte) /\ <<nl>> = Append(<< >>, nl) /\ <<nl>> \in Seq(Byte)
    BY DEF Byte
  <1>2. s \o <<nl>> = Append(s, nl)
    <2> HIDE DEF nl
    <2> QED BY <1>1, AppendIsConcat
  <1>3. FeedAll(f, Append(s, nl)) = Feed(FeedAll(f, s), nl)
    <2> HIDE DEF f, nl
    <2> QED BY <1>1, FeedAllAppend
  <1>4. FeedAll(f, s) = Framed(s, c, o)
    BY FeedShort
  <1>5. Feed(Framed(s, c, o), nl) =
          Framed(<< >>, FALSE,
                 Append(o, [end |-> "newline", line |-> trimCR(s), continued |-> c]))
    BY DEF Feed, Framed
  <1> HIDE DEF f, nl
  <1>6. FeedAll(f, s \o <<nl>>) = Feed(Framed(s, c, o), nl)
    BY <1>2, <1>3, <1>4
  <1> QED BY <1>5, <1>6 DEF f, nl
----------------------------------------------------------------------------
(***************************************************************************)
(* What the records stand for.                                             *)
(***************************************************************************)
\* What the records o stand for, a carriage return trimmed from those in t;
Spellings(o, t) == [i \in DOMAIN o |-> Spelling(o[i], i \in t)]

\* and those that end a line.
Ends(o) == {i \in DOMAIN o : o[i].end = "newline"}

\* What a record stands for is a sequence of bytes,
LEMMA SpellingType ==
  ASSUME NEW r \in Record, NEW crlf \in BOOLEAN
  PROVE  Spelling(r, crlf) \in Seq(Byte)
  <1>1. r.line \in Seq(Byte) /\ <<"\r">> \in Seq(Byte) /\ <<"\n">> \in Seq(Byte) /\ << >> \in Seq(Byte)
    BY DEF Record, Byte
  <1> DEFINE cr == IF crlf THEN <<"\r">> ELSE << >>
             nl == IF r.end = "newline" THEN <<"\n">> ELSE << >>
  <1>2. cr \in Seq(Byte) /\ nl \in Seq(Byte)
    BY <1>1
  <1>3. Spelling(r, crlf) = r.line \o cr \o nl
    BY DEF Spelling
  <1> HIDE DEF cr, nl
  <1> QED BY <1>1, <1>2, <1>3, ConcatProperties

\* what records do is one such for each,
LEMMA SpellingsType ==
  ASSUME NEW o \in Seq(Record), NEW t
  PROVE  /\ Spellings(o, t) \in Seq(Seq(Byte)) /\ Len(Spellings(o, t)) = Len(o)
         /\ \A i \in 1 .. Len(o) : Spellings(o, t)[i] = Spelling(o[i], i \in t)
  <1>1. Len(o) \in Nat /\ DOMAIN o = 1 .. Len(o) /\ \A i \in 1 .. Len(o) : o[i] \in Record
    BY LenProperties, ElementOfSeq
  <1> DEFINE s == [i \in 1 .. Len(o) |-> Spelling(o[i], i \in t)]
  <1>2. s = Spellings(o, t)
    BY <1>1 DEF Spellings
  <1>3. \A i \in 1 .. Len(o) : s[i] = Spelling(o[i], i \in t)
    OBVIOUS
  <1>4. \A i \in 1 .. Len(o) : Spelling(o[i], i \in t) \in Seq(Byte)
    <2> TAKE i \in 1 .. Len(o)
    <2>1. o[i] \in Record /\ (i \in t) \in BOOLEAN
      BY <1>1
    <2> HIDE DEF s
    <2> QED BY <2>1, SpellingType
  <1>5. s \in [1 .. Len(o) -> Seq(Byte)]
    BY <1>4
  <1>6. s \in Seq(Seq(Byte)) /\ Len(s) = Len(o)
    <2> HIDE DEF s
    <2> QED BY <1>1, <1>5, IsASeq
  <1> QED BY <1>2, <1>3, <1>6

\* and joined they are one sequence.
LEMMA FlattenType ==
  ASSUME NEW S, NEW s \in Seq(Seq(S))
  PROVE  FlattenSeq(s) \in Seq(S)
  <1> DEFINE N == {n \in Nat : \A u \in Seq(Seq(S)) : Len(u) = n => FlattenSeq(u) \in Seq(S)}
  <1>1. 0 \in N
    <2>1. \A u \in Seq(Seq(S)) : Len(u) = 0 => u = << >>
      BY EmptySeq
    <2> QED BY <2>1, FlattenSeqEmpty, EmptySeq
  <1>2. ASSUME NEW n \in Nat, n \in N
        PROVE  n + 1 \in N
    <2> SUFFICES ASSUME NEW u \in Seq(Seq(S)), Len(u) = n + 1
                 PROVE  FlattenSeq(u) \in Seq(S)
      OBVIOUS
    <2> DEFINE v == SubSeq(u, 1, n)
               x == u[n + 1]
    <2>1. v \in Seq(Seq(S)) /\ Len(v) = n /\ x \in Seq(S) /\ u = Append(v, x)
      BY ButLast
    <2> HIDE DEF v, x
    <2>2. FlattenSeq(u) = FlattenSeq(v) \o x
      BY <2>1, FlattenSeqAppend
    <2>3. FlattenSeq(v) \in Seq(S)
      BY <1>2, <2>1
    <2> QED BY <2>1, <2>2, <2>3, ConcatProperties
  <1> HIDE DEF N
  <1>3. \A n \in Nat : n \in N
    BY <1>1, <1>2, Induction
  <1>4. Len(s) \in Nat
    BY LenProperties
  <1>5. Len(s) \in N
    BY <1>3, <1>4
  <1> QED BY <1>5 DEF N

\* What the records stand for, joined, is a sequence of bytes; a record pushed adds
\* what it stands for.
LEMMA Respelled ==
  ASSUME NEW o \in Seq(Record), NEW t \in SUBSET Ends(o), NEW r \in Record, NEW crlf \in BOOLEAN,
         crlf => r.end = "newline"
  PROVE  /\ FlattenSeq(Spellings(o, t)) \in Seq(Byte)
         /\ \E u \in SUBSET Ends(Append(o, r)) :
              FlattenSeq(Spellings(Append(o, r), u)) = FlattenSeq(Spellings(o, t)) \o Spelling(r, crlf)
  <1> DEFINE p == Append(o, r)
             n == Len(o)
             u == IF crlf THEN t \cup {n + 1} ELSE t
  <1>1. /\ n \in Nat /\ p \in Seq(Record) /\ Len(p) = n + 1 /\ p[n + 1] = r
        /\ \A i \in 1 .. n : p[i] = o[i]
        /\ DOMAIN o = 1 .. n /\ DOMAIN p = 1 .. n + 1
    BY AppendProperties, LenProperties
  <1>2. u \in SUBSET Ends(p)
    <2>1. \A i \in t : i \in 1 .. n /\ o[i].end = "newline"
      BY <1>1 DEF Ends
    <2>2. \A i \in t : i \in 1 .. n + 1 /\ p[i].end = "newline"
      BY <1>1, <2>1
    <2>3. crlf => n + 1 \in 1 .. n + 1 /\ p[n + 1].end = "newline"
      BY <1>1
    <2> HIDE DEF p, n
    <2>4. \A i \in u : i \in 1 .. n + 1 /\ p[i].end = "newline"
      BY <2>2, <2>3
    <2> QED BY <1>1, <2>4 DEF Ends
  <1>3. n + 1 \notin t /\ (n + 1 \in u <=> crlf) /\ \A i \in 1 .. n : i \in u <=> i \in t
    <2>1. \A i \in t : i \in 1 .. n
      BY <1>1 DEF Ends
    <2>2. n + 1 \notin 1 .. n
      BY <1>1
    <2> HIDE DEF n
    <2> QED BY <2>1, <2>2
  <1> DEFINE before == Spellings(o, t)
             x == Spelling(r, crlf)
             after == Spellings(p, u)
  <1>4. before \in Seq(Seq(Byte)) /\ Len(before) = n /\ x \in Seq(Byte)
        /\ \A i \in 1 .. n : before[i] = Spelling(o[i], i \in t)
    BY SpellingsType, SpellingType
  <1>5. after \in Seq(Seq(Byte)) /\ Len(after) = n + 1
        /\ \A i \in 1 .. n + 1 : after[i] = Spelling(p[i], i \in u)
    <2> HIDE DEF p, u
    <2> QED BY <1>1, SpellingsType
  <1>6. after = Append(before, x)
    <2>1. /\ Append(before, x) \in Seq(Seq(Byte)) /\ Len(Append(before, x)) = n + 1
          /\ \A i \in 1 .. n : Append(before, x)[i] = before[i]
          /\ Append(before, x)[n + 1] = x
      <3> HIDE DEF before, x
      <3> QED BY <1>4, AppendProperties
    <2>2. ASSUME NEW i \in 1 .. n
          PROVE  after[i] = before[i]
      <3>1. (i \in u) = (i \in t) /\ p[i] = o[i] /\ i \in 1 .. n + 1
        BY <1>1, <1>3
      <3> HIDE DEF p, u, before, after
      <3> QED BY <1>4, <1>5, <3>1
    <2>3. after[n + 1] = x
      <3>1. (n + 1 \in u) = crlf /\ p[n + 1] = r /\ n + 1 \in 1 .. n + 1
        BY <1>1, <1>3
      <3> HIDE DEF p, u, after
      <3> QED BY <1>5, <3>1
    <2> HIDE DEF before, after, x, n, p, u
    <2>4. \A i \in 1 .. n + 1 : after[i] = Append(before, x)[i]
      <3>1. \A i \in 1 .. n + 1 : i \in 1 .. n \/ i = n + 1
        BY <1>1
      <3> QED BY <2>1, <2>2, <2>3, <3>1
    <2> QED BY <1>5, <2>1, <2>4, SeqEqual
  <1> HIDE DEF before, after, x, p, u
  <1>7. FlattenSeq(after) = FlattenSeq(before) \o x /\ FlattenSeq(before) \in Seq(Byte)
    BY <1>4, <1>6, FlattenSeqAppend, FlattenType
  <1> QED BY <1>2, <1>7 DEF before, after, x, p
----------------------------------------------------------------------------
(***************************************************************************)
(* The stream: what has been pushed and what is pending.                   *)
(***************************************************************************)
\* The newline behind the pending line, found and not yet used.
NewlineDue == IF fpc = "cut" /\ newline THEN <<"\n">> ELSE << >>
Pending == buf \o NewlineDue

\* The records and what is pending are the stream.
Lossless == \E trimmed \in SUBSET Ends(out) : fed = FlattenSeq(Spellings(out, trimmed)) \o Pending

\* The byte-wise framer that goes on from here with what is pending is where it
\* would be had it been fed the whole stream.
Unflushed == \A i \in DOMAIN out : out[i].end # "timeout"

AsByteWise ==
  /\ NoNewline(buf)
  /\ fpc # "done" /\ Unflushed =>
       FeedAll(Framed(<< >>, continued, out), Pending) = ByteWise(fed)

\* The inductive invariant.
StreamInv == FramerInv /\ Lossless /\ AsByteWise

\* The types of what is pending.
LEMMA PendingType ==
  ASSUME TypeOK
  PROVE  /\ buf \in Seq(Byte) /\ fed \in Seq(Byte) /\ out \in Seq(Record)
         /\ Len(buf) \in Nat /\ \A i \in 1 .. Len(buf) : buf[i] \in Byte
         /\ NewlineDue \in Seq(Byte) /\ Pending \in Seq(Byte) /\ Pending = buf \o NewlineDue
  <1>1. buf \in Seq(Byte) /\ fed \in Seq(Byte) /\ out \in Seq(Record)
    BY DEF TypeOK, Record
  <1>2. NewlineDue \in Seq(Byte)
    <2>1. <<"\n">> \in Seq(Byte) /\ << >> \in Seq(Byte)
      BY DEF Byte
    <2> QED BY <2>1 DEF NewlineDue
  <1>3. Len(buf) \in Nat /\ \A i \in 1 .. Len(buf) : buf[i] \in Byte
    BY <1>1, LenProperties, ElementOfSeq
  <1> QED BY <1>1, <1>2, <1>3, ConcatProperties DEF Pending

\* With nothing to come behind it, what is pending is the pending line.
LEMMA PendingLine ==
  ASSUME TypeOK, fpc # "cut" \/ ~newline
  PROVE  Pending = buf /\ NewlineDue = << >>
  <1>1. NewlineDue = << >>
    BY DEF NewlineDue
  <1> QED BY <1>1, PendingType, ConcatEmptySeq

\* The same of the next state.
LEMMA PendingLineNext ==
  ASSUME TypeOK', fpc' # "cut" \/ ~newline'
  PROVE  Pending' = buf' /\ NewlineDue' = << >>
  <1>1. NewlineDue' = << >>
    BY DEF NewlineDue
  <1>2. buf' \in Seq(Byte)
    BY DEF TypeOK
  <1> QED BY <1>1, <1>2, ConcatEmptySeq DEF Pending

\* A step that leaves stream, records and what is pending alone,
LEMMA StreamLeft ==
  ASSUME StreamInv, FramerInv', UNCHANGED <<fed, out, continued, buf, NewlineDue>>,
         fpc' # "done" => fpc # "done"
  PROVE  StreamInv'
  <1>1. UNCHANGED <<Pending, Unflushed>>
    BY DEF Pending, Unflushed
  <1>2. Lossless'
    BY <1>1 DEF StreamInv, Lossless
  <1>3. AsByteWise'
    BY <1>1 DEF StreamInv, AsByteWise, NoNewline
  <1> QED BY <1>2, <1>3 DEF StreamInv

\* one that pushes a record for a first part of it,
LEMMA LosslessPush ==
  ASSUME FramerInv, Lossless, NEW r \in Record, NEW crlf \in BOOLEAN, crlf => r.end = "newline",
         out' = Append(out, r), fed' = fed, Pending' \in Seq(Byte),
         Pending = Spelling(r, crlf) \o Pending'
  PROVE  Lossless'
  <1>1. PICK t \in SUBSET Ends(out) : fed = FlattenSeq(Spellings(out, t)) \o Pending
    BY DEF Lossless
  <1>2. out \in Seq(Record)
    BY PendingType DEF FramerInv
  <1>3. /\ FlattenSeq(Spellings(out, t)) \in Seq(Byte)
        /\ \E u \in SUBSET Ends(Append(out, r)) :
             FlattenSeq(Spellings(Append(out, r), u)) = FlattenSeq(Spellings(out, t)) \o Spelling(r, crlf)
    BY <1>2, Respelled
  <1>4. PICK u \in SUBSET Ends(out') :
          FlattenSeq(Spellings(out', u)) = FlattenSeq(Spellings(out, t)) \o Spelling(r, crlf)
    BY <1>3
  <1> DEFINE before == FlattenSeq(Spellings(out, t))
             after == FlattenSeq(Spellings(out', u))
             x == Spelling(r, crlf)
             p == Pending'
  <1>5. before \in Seq(Byte) /\ x \in Seq(Byte) /\ p \in Seq(Byte)
    BY <1>3, SpellingType
  <1>6. after = before \o x /\ fed = before \o (x \o p)
    BY <1>1, <1>4
  <1> HIDE DEF before, after, x, p
  <1>7. fed = after \o p
    <2>1. (before \o x) \o p = before \o (x \o p)
      BY ONLY <1>5, ConcatAssociative
    <2> QED BY <1>6, <2>1
  <1> QED BY <1>7 DEF Lossless, after, p

\* An idle flush, once pushed, is there for good.
LEMMA Unpushed ==
  ASSUME NEW r, TypeOK, out' = Append(out, r), r.end = "timeout" \/ ~Unflushed
  PROVE  ~Unflushed'
  <1>1. out \in Seq(Record)
    BY PendingType
  <1>2. /\ Len(out) \in Nat /\ DOMAIN out = 1 .. Len(out)
        /\ DOMAIN Append(out, r) = 1 .. Len(out) + 1
        /\ Append(out, r)[Len(out) + 1] = r
        /\ \A i \in 1 .. Len(out) : Append(out, r)[i] = out[i]
    BY <1>1
  <1> QED BY <1>2 DEF Unflushed

\* What a scan takes of a chunk: all of it, or up to its first newline.
LEMMA FirstNewline ==
  ASSUME NEW s \in Seq(Byte), NEW line, line = SelectInSeq(s, LAMBDA b : b = "\n")
  PROVE  \/ line = 0 /\ NoNewline(s)
         \/ /\ line \in 1 .. Len(s) /\ NoNewline(SubSeq(s, 1, line - 1))
            /\ SubSeq(s, 1, line - 1) \in Seq(Byte)
            /\ SubSeq(s, 1, line) = SubSeq(s, 1, line - 1) \o <<"\n">>
  <1> DEFINE I == {i \in 1 .. Len(s) : s[i] = "\n"}
  <1>1. line = IF I # {} THEN Min(I) ELSE 0
    BY DEF SelectInSeq
  <1>2. Len(s) \in Nat /\ \A i \in 1 .. Len(s) : s[i] \in Byte
    BY LenProperties, ElementOfSeq
  <1>3. CASE I = {}
    BY <1>1, <1>3 DEF NoNewline
  <1>4. CASE I # {}
    <2>1. Min(I) \in I /\ \A i \in I : Min(I) =< i
      <3>1. I \subseteq Nat
        OBVIOUS
      <3> HIDE DEF I
      <3> QED BY <1>4, <3>1, Least
    <2>2. line \in I /\ \A i \in I : line =< i
      <3> HIDE DEF I
      <3> QED BY <1>1, <1>4, <2>1
    <2>3. line \in 1 .. Len(s) /\ s[line] = "\n"
      BY <2>2
    <2>4. \A i \in 1 .. line - 1 : i \in 1 .. Len(s) /\ s[i] # "\n"
      <3>1. ASSUME NEW i \in 1 .. line - 1
            PROVE  i \in 1 .. Len(s) /\ ~(line =< i)
        BY <1>2, <2>3
      <3> QED BY <2>2, <3>1
    <2> HIDE DEF I
    <2>5. /\ SubSeq(s, 1, line - 1) \in Seq(Byte) /\ Len(SubSeq(s, 1, line - 1)) = line - 1
          /\ \A i \in 1 .. line - 1 : SubSeq(s, 1, line - 1)[i] = s[i]
      <3>1. \A i \in 1 .. line - 1 : s[i] \in Byte
        BY <1>2, <2>4
      <3>2. /\ SubSeq(s, 1, line - 1) \in Seq(Byte)
            /\ Len(SubSeq(s, 1, line - 1)) = IF 1 <= line - 1 THEN line - 1 - 1 + 1 ELSE 0
            /\ \A i \in 1 .. line - 1 - 1 + 1 : SubSeq(s, 1, line - 1)[i] = s[1 + i - 1]
        BY <1>2, <2>3, <3>1, SubSeqProperties
      <3> QED BY <2>3, <3>2
    <2>6. NoNewline(SubSeq(s, 1, line - 1))
      BY <2>4, <2>5 DEF NoNewline
    <2>7. SubSeq(s, 1, line) = SubSeq(s, 1, line - 1) \o <<"\n">>
      <3>1. SubSeq(s, 1, line) = SubSeq(s, 1, line - 1) \o <<s[line]>>
        <4>1. 1 \in 1 .. Len(s) /\ line \in 1 .. Len(s)
          BY <1>2, <2>3
        <4> QED BY <4>1, SubSeqRecursiveSecond
      <3> QED BY <2>3, <3>1
    <2> QED BY <2>3, <2>5, <2>6, <2>7
  <1> QED BY <1>3, <1>4

\* A scan copies bytes without a newline, and the newline that ends them if any.
LEMMA ScanTakes ==
  ASSUME FramerInv, Scan
  PROVE  /\ fpc = "scan" /\ fpc' = "cut" /\ UNCHANGED <<continued, out>>
         /\ \E taken \in Seq(Byte) :
              NoNewline(taken) /\ buf' = buf \o taken /\ fed' = fed \o (taken \o NewlineDue')
  <1> USE DEF FramerInv
  <1> DEFINE line == SelectInSeq(Rest, LAMBDA b : b = "\n")
             taken == IF line = 0 THEN Rest ELSE SubSeq(Rest, 1, line - 1)
             upto == IF line = 0 THEN chunk.len ELSE pos + line
  <1>1. /\ fpc = "scan" /\ fpc' = "cut" /\ pos < chunk.len
        /\ buf' = buf \o taken /\ fed' = fed \o SubSeq(Rest, 1, upto - pos)
        /\ newline' = (line # 0) /\ UNCHANGED <<continued, out>>
    BY DEF Scan
  <1>2. /\ chunk.len \in Nat /\ pos \in Nat /\ memory[chunk.buf] \in Seq(Byte)
        /\ Len(memory[chunk.buf]) \in Nat /\ chunk.len =< Len(memory[chunk.buf])
    BY <1>1, Lengths, Sizes DEF TypeOK, InHand, Filled, Chunk
  <1>3. Rest \in Seq(Byte) /\ Len(Rest) = chunk.len - pos /\ Len(Rest) \in Nat
    <2>1. \A i \in pos + 1 .. chunk.len : memory[chunk.buf][i] \in Byte
      BY <1>2, ElementOfSeq
    <2>2. pos < chunk.len
      BY <1>1
    <2> QED BY ONLY <1>2, <2>1, <2>2, SubSeqProperties DEF Rest
  <1>4. \/ line = 0 /\ NoNewline(Rest)
        \/ /\ line \in 1 .. Len(Rest) /\ NoNewline(SubSeq(Rest, 1, line - 1))
           /\ SubSeq(Rest, 1, line - 1) \in Seq(Byte)
           /\ SubSeq(Rest, 1, line) = SubSeq(Rest, 1, line - 1) \o <<"\n">>
    BY <1>3, FirstNewline
  <1> HIDE DEF line
  <1>5. CASE line = 0
    <2>1. taken = Rest /\ NoNewline(Rest)
      BY <1>4, <1>5, <1>3
    <2>2. SubSeq(Rest, 1, upto - pos) = Rest
      <3>1. upto - pos = Len(Rest)
        BY <1>3, <1>5
      <3> QED BY <1>3, <3>1, SubSeqFull
    <2>3. NewlineDue' = << >>
      BY <1>1, <1>5 DEF NewlineDue
    <2>4. Rest \o << >> = Rest
      BY <1>3, ConcatEmptySeq
    <2> HIDE DEF taken, upto
    <2>5. buf' = buf \o Rest /\ fed' = fed \o (Rest \o NewlineDue')
      BY <1>1, <2>1, <2>2, <2>3, <2>4
    <2> QED BY <1>1, <1>3, <2>1, <2>5
  <1>6. CASE line # 0
    <2>1. /\ line \in 1 .. Len(Rest) /\ taken = SubSeq(Rest, 1, line - 1)
          /\ NoNewline(taken) /\ taken \in Seq(Byte)
          /\ SubSeq(Rest, 1, line) = taken \o <<"\n">>
      BY <1>4, <1>6
    <2>2. upto - pos = line
      BY <1>2, <1>3, <1>6, <2>1
    <2>3. NewlineDue' = <<"\n">>
      BY <1>1, <1>6 DEF NewlineDue
    <2> HIDE DEF taken, upto
    <2>4. fed' = fed \o (taken \o NewlineDue')
      BY <1>1, <2>1, <2>2, <2>3
    <2> QED BY <1>1, <2>1, <2>4
  <1> QED BY <1>5, <1>6

\* Two sequences without a newline, joined, have none.
LEMMA NoNewlineJoined ==
  ASSUME NEW s \in Seq(Byte), NEW t \in Seq(Byte), NoNewline(s), NoNewline(t)
  PROVE  NoNewline(s \o t)
  <1>1. /\ Len(s) \in Nat /\ Len(t) \in Nat /\ Len(s \o t) = Len(s) + Len(t)
        /\ \A i \in 1 .. Len(s) + Len(t) : (s \o t)[i] = IF i =< Len(s) THEN s[i] ELSE t[i - Len(s)]
    BY ConcatProperties, LenProperties
  <1>2. ASSUME NEW i \in 1 .. Len(s) + Len(t)
        PROVE  (s \o t)[i] # "\n"
    <2>1. CASE i =< Len(s)
      <3>1. i \in 1 .. Len(s)
        BY <1>1, <2>1
      <3> QED BY <1>1, <2>1, <3>1 DEF NoNewline
    <2>2. CASE ~(i =< Len(s))
      <3>1. i - Len(s) \in 1 .. Len(t)
        BY <1>1, <2>2
      <3> QED BY <1>1, <2>2, <3>1 DEF NoNewline
    <2> QED BY <2>1, <2>2
  <1> QED BY <1>1, <1>2 DEF NoNewline

\* The byte-wise framer goes on where it was.
LEMMA ByteWiseJoined ==
  ASSUME NEW s \in Seq(Byte), NEW t \in Seq(Byte)
  PROVE  ByteWise(s \o t) = FeedAll(ByteWise(s), t)
  <1> DEFINE f == [buf |-> << >>, cont |-> FALSE, out |-> << >>]
  <1> HIDE DEF f
  <1>1. FeedAll(f, s \o t) = FeedAll(FeedAll(f, s), t)
    BY FeedJoined
  <1> QED BY <1>1 DEF ByteWise, f

\* So what is pending grows by what the stream grows.
LEMMA ScanKeepsStream ==
  ASSUME StreamInv, FramerInv', Scan
  PROVE  StreamInv'
  <1>1. /\ fpc = "scan" /\ fpc' = "cut" /\ UNCHANGED <<continued, out>>
        /\ \E taken \in Seq(Byte) :
             NoNewline(taken) /\ buf' = buf \o taken /\ fed' = fed \o (taken \o NewlineDue')
    BY ScanTakes DEF StreamInv
  <1>2. PICK taken \in Seq(Byte) :
          NoNewline(taken) /\ buf' = buf \o taken /\ fed' = fed \o (taken \o NewlineDue')
    BY <1>1
  <1> DEFINE nl == NewlineDue'
             added == taken \o nl
  <1>3. TypeOK /\ TypeOK'
    BY DEF StreamInv, FramerInv
  <1>4. /\ nl \in Seq(Byte) /\ buf \in Seq(Byte) /\ fed \in Seq(Byte) /\ Pending = buf
    <2>1. NewlineDue' \in Seq(Byte)
      <3>1. <<"\n">> \in Seq(Byte) /\ << >> \in Seq(Byte)
        BY DEF Byte
      <3> QED BY <3>1 DEF NewlineDue
    <2> QED BY <1>1, <1>3, <2>1, PendingType, PendingLine
  <1> HIDE DEF nl
  <1>5. added \in Seq(Byte)
    BY <1>4, ConcatProperties
  <1>6. Pending' = buf \o added
    <2>1. (buf \o taken) \o nl = buf \o (taken \o nl)
      <3>1. buf \in Seq(Byte) /\ taken \in Seq(Byte) /\ nl \in Seq(Byte)
        BY <1>4
      <3> QED BY ONLY <3>1, ConcatAssociative
    <2> QED BY <1>2, <2>1 DEF Pending, nl
  <1>7. fed' = fed \o added
    BY <1>2 DEF nl
  <1> HIDE DEF added
  <1>8. Lossless'
    <2>1. PICK t \in SUBSET Ends(out) : fed = FlattenSeq(Spellings(out, t)) \o Pending
      BY DEF StreamInv, Lossless
    <2> DEFINE before == FlattenSeq(Spellings(out, t))
    <2>2. before \in Seq(Byte)
      <3>1. out \in Seq(Record)
        BY <1>3, PendingType
      <3> QED BY <3>1, SpellingsType, FlattenType
    <2>3. fed = before \o buf
      BY <1>4, <2>1
    <2> HIDE DEF before
    <2>4. (before \o buf) \o added = before \o (buf \o added)
      <3>1. buf \in Seq(Byte)
        BY <1>4
      <3> QED BY ONLY <1>5, <2>2, <3>1, ConcatAssociative
    <2>5. fed' = before \o Pending'
      BY <1>6, <1>7, <2>3, <2>4
    <2>6. out' = out
      BY <1>1
    <2> QED BY <2>5, <2>6 DEF Lossless, before
  <1>9. AsByteWise'
    <2>1. NoNewline(buf)'
      <3>1. NoNewline(buf \o taken)
        BY <1>2, <1>4, NoNewlineJoined DEF StreamInv, AsByteWise
      <3> QED BY <1>2, <3>1 DEF NoNewline
    <2>2. ASSUME Unflushed'
          PROVE  FeedAll(Framed(<< >>, continued, out), Pending)' = ByteWise(fed)'
      <3>1. Unflushed
        BY <1>1, <2>2 DEF Unflushed
      <3> DEFINE f == Framed(<< >>, continued, out)
      <3>2. FeedAll(f, buf) = ByteWise(fed)
        BY <1>1, <1>4, <3>1 DEF StreamInv, AsByteWise
      <3>3. FeedAll(f, buf \o added) = FeedAll(FeedAll(f, buf), added)
        <4> HIDE DEF f
        <4> QED BY <1>4, <1>5, FeedJoined
      <3>4. ByteWise(fed \o added) = FeedAll(ByteWise(fed), added)
        BY <1>4, <1>5, ByteWiseJoined
      <3>5. f' = f
        BY <1>1
      <3> HIDE DEF f
      <3>6. FeedAll(f, Pending') = ByteWise(fed')
        BY <1>6, <1>7, <3>2, <3>3, <3>4
      <3>7. FeedAll(f', Pending') = ByteWise(fed')
        BY <3>5, <3>6
      <3> QED BY <3>7 DEF f
    <2> QED BY <2>1, <2>2 DEF AsByteWise
  <1> QED BY <1>8, <1>9 DEF StreamInv

\* A record that ends no line stands for its line,
LEMMA SpellingOfFragment ==
  ASSUME NEW r \in Record, r.end # "newline"
  PROVE  Spelling(r, FALSE) = r.line
  <1>1. r.line \in Seq(Byte)
    BY DEF Record
  <1>2. Spelling(r, FALSE) = r.line \o << >> \o << >>
    BY DEF Spelling
  <1>3. r.line \o << >> = r.line
    BY <1>1, ConcatEmptySeq
  <1> QED BY <1>2, <1>3

\* one that does for the line from which trimCR may have taken a carriage return.
LEMMA SpellingOfLine ==
  ASSUME NEW s \in Seq(Byte), NEW c,
         NEW r, r = [end |-> "newline", line |-> trimCR(s), continued |-> c]
  PROVE  \E crlf \in BOOLEAN : Spelling(r, crlf) = s \o <<"\n">>
  <1> DEFINE crlf == s # << >> /\ Last(s) = "\r"
  <1>0. crlf \in BOOLEAN
    OBVIOUS
  <1>1. CASE crlf
    <2>1. Len(s) \in Nat /\ Len(s) >= 1 /\ trimCR(s) = SubSeq(s, 1, Len(s) - 1) /\ s[Len(s)] = "\r"
      BY <1>1, EmptySeq, LenProperties DEF trimCR, Front, Last
    <2>2. s = SubSeq(s, 1, Len(s) - 1) \o <<s[Len(s)]>>
      <3>1. 1 \in 1 .. Len(s) /\ Len(s) \in 1 .. Len(s)
        BY <2>1
      <3> QED BY <3>1, SubSeqRecursiveSecond, SubSeqFull
    <2>3. trimCR(s) \o <<"\r">> = s
      BY <2>1, <2>2
    <2>4. Spelling(r, TRUE) = trimCR(s) \o <<"\r">> \o <<"\n">>
      BY DEF Spelling
    <2> QED BY <2>3, <2>4
  <1>2. CASE ~crlf
    <2>1. trimCR(s) = s
      BY <1>2 DEF trimCR
    <2>2. Spelling(r, FALSE) = s \o << >> \o <<"\n">>
      BY <2>1 DEF Spelling
    <2>3. s \o << >> = s
      BY ConcatEmptySeq
    <2> QED BY <2>2, <2>3
  <1> QED BY <1>0, <1>1, <1>2

\* What a step appends to the records is a record.
LEMMA RecordPushed ==
  ASSUME TypeOK, TypeOK', NEW r, out' = Append(out, r)
  PROVE  r \in Record /\ (Unflushed' => Unflushed)
  <1>1. out \in Seq(Record) /\ out' \in Seq(Record)
    BY DEF TypeOK, Record
  <1>2. /\ Len(out) \in Nat /\ Len(out') = Len(out) + 1 /\ out'[Len(out) + 1] = r
        /\ DOMAIN out = 1 .. Len(out) /\ DOMAIN out' = 1 .. Len(out) + 1
        /\ \A i \in 1 .. Len(out) : out'[i] = out[i]
    <2>1. /\ Len(out) \in Nat /\ Len(Append(out, r)) = Len(out) + 1
          /\ Append(out, r)[Len(out) + 1] = r
          /\ \A i \in 1 .. Len(out) : Append(out, r)[i] = out[i]
      BY <1>1
    <2> QED BY <1>1, <2>1, LenProperties
  <1>3. Len(out) + 1 \in 1 .. Len(out')
    BY <1>2
  <1>4. r \in Record
    BY <1>1, <1>2, <1>3, ElementOfSeq
  <1>5. Unflushed' => Unflushed
    BY <1>2 DEF Unflushed
  <1> QED BY <1>4, <1>5

\* A fragment split off is the first part of what is pending, and the one that the
\* byte-wise framer cuts off.
LEMMA SplitKeepsStream ==
  ASSUME StreamInv, FramerInv', Split
  PROVE  StreamInv'
  <1> DEFINE M == MaxFragmentBytes
             cut == SubSeq(buf, 1, M)
             rest == SubSeq(buf, M + 1, Len(buf))
             r == [end |-> "max_bytes", line |-> cut, continued |-> continued]
  <1>1. /\ Len(buf) > M /\ out' = Append(out, r) /\ buf' = rest /\ continued' = TRUE
        /\ UNCHANGED <<fpc, newline, fed>>
    BY DEF Split, Emit
  <1>2. FramerInv /\ Lossless /\ AsByteWise /\ TypeOK /\ TypeOK'
    BY DEF StreamInv, FramerInv
  <1>3. /\ M \in Nat /\ M >= 1 /\ buf \in Seq(Byte) /\ Len(buf) \in Nat
        /\ \A i \in 1 .. Len(buf) : buf[i] \in Byte
        /\ NewlineDue \in Seq(Byte) /\ Pending = buf \o NewlineDue
    BY <1>2, Sizes, PendingType
  <1>4. cut \in Seq(Byte) /\ rest \in Seq(Byte)
    BY <1>1, <1>3, SubSeqProperties
  <1>5. buf = cut \o rest
    <2>1. 1 \in 1 .. Len(buf) + 1 /\ M \in 1 - 1 .. Len(buf) /\ Len(buf) \in M .. Len(buf)
      BY <1>1, <1>3
    <2>2. SubSeq(buf, 1, M) \o SubSeq(buf, M + 1, Len(buf)) = SubSeq(buf, 1, Len(buf))
      BY <1>3, <2>1, ConcatAdjacentSubSeq
    <2> QED BY <1>3, <2>2, SubSeqFull
  <1>6. r \in Record /\ (Unflushed' => Unflushed)
    <2> HIDE DEF r
    <2> QED BY <1>1, <1>2, RecordPushed
  <1>7. r.end = "max_bytes" /\ r.line = cut
    OBVIOUS
  <1>8. Spelling(r, FALSE) = cut
    <2> HIDE DEF r, cut
    <2> QED BY <1>6, <1>7, SpellingOfFragment
  <1> DEFINE nl == NewlineDue
             f == Framed(<< >>, continued, out)
             g == Framed(<< >>, TRUE, Append(out, r))
  <1>9. NewlineDue' = nl
    BY <1>1 DEF NewlineDue
  <1>a. FeedAll(f, buf) = FeedAll(g, rest)
    BY <1>1, <1>2, <1>3, FeedLong DEF AsByteWise
  <1>b. f = Framed(<< >>, continued, out) /\ g = Framed(<< >>, continued', out')
    BY <1>1
  <1>c. NoNewline(rest)
    <2>1. /\ Len(rest) = Len(buf) - M /\ \A i \in 1 .. Len(buf) - M : rest[i] = buf[M + i]
      <3>1. \A i \in M + 1 .. Len(buf) : buf[i] \in Byte
        BY <1>3
      <3>2. /\ Len(rest) = IF M + 1 <= Len(buf) THEN Len(buf) - (M + 1) + 1 ELSE 0
            /\ \A i \in 1 .. Len(buf) - (M + 1) + 1 : rest[i] = buf[M + 1 + i - 1]
        BY <1>1, <1>3, <3>1, SubSeqProperties
      <3> QED BY <1>1, <1>3, <3>2
    <2>2. \A i \in 1 .. Len(buf) - M : M + i \in 1 .. Len(buf)
      BY <1>3
    <2> QED BY <1>2, <2>1, <2>2 DEF AsByteWise, NoNewline
  <1>d. nl \in Seq(Byte)
    BY <1>3
  <1> HIDE DEF cut, rest, nl, f, g, M
  <1>e. Pending' = rest \o nl
    BY <1>1, <1>9 DEF Pending
  <1>f. Pending' \in Seq(Byte)
    BY <1>4, <1>d, <1>e, ConcatProperties
  <1>g. Pending = cut \o Pending'
    <2>1. (cut \o rest) \o nl = cut \o (rest \o nl)
      <3>1. cut \in Seq(Byte) /\ rest \in Seq(Byte)
        BY <1>4
      <3> QED BY ONLY <1>d, <3>1, ConcatAssociative
    <2> QED BY <1>3, <1>5, <1>e, <2>1 DEF nl
  <1>h. Lossless'
    <2> HIDE DEF r
    <2>1. (FALSE => r.end = "newline") /\ FALSE \in BOOLEAN
      OBVIOUS
    <2>2. Pending = Spelling(r, FALSE) \o Pending'
      BY <1>8, <1>g
    <2>3. out' = Append(out, r) /\ fed' = fed
      BY <1>1
    <2> QED BY <1>2, <1>6, <1>f, <2>1, <2>2, <2>3, LosslessPush
  <1>i. AsByteWise'
    <2>1. NoNewline(buf)'
      BY <1>1, <1>c DEF NoNewline
    <2>2. ASSUME fpc' # "done", Unflushed'
          PROVE  FeedAll(Framed(<< >>, continued, out), Pending)' = ByteWise(fed)'
      <3>1. FeedAll(f, Pending) = ByteWise(fed)
        BY <1>1, <1>2, <1>6, <1>b, <2>2 DEF AsByteWise
      <3>2. FeedAll(f, buf \o nl) = FeedAll(FeedAll(f, buf), nl)
        BY <1>3, <1>d, FeedJoined
      <3>3. FeedAll(g, rest \o nl) = FeedAll(FeedAll(g, rest), nl)
        BY <1>4, <1>d, FeedJoined
      <3>4. Pending = buf \o nl
        BY <1>3 DEF nl
      <3>5. FeedAll(g, Pending') = ByteWise(fed')
        BY <1>1, <1>a, <1>e, <3>1, <3>2, <3>3, <3>4
      <3> QED BY <1>b, <3>5
    <2> QED BY <2>1, <2>2 DEF AsByteWise
  <1> QED BY <1>h, <1>i DEF StreamInv

\* With no line and no newline there is nothing pending.
LEMMA NothingPending ==
  ASSUME TypeOK', buf' = << >>, fpc' # "cut"
  PROVE  Pending' = << >> /\ << >> \in Seq(Byte) /\ NoNewline(buf)'
  <1>1. Pending' = << >>
    BY PendingLineNext
  <1>2. Len(buf') = 0
    OBVIOUS
  <1> QED BY <1>1, <1>2, EmptySeq DEF NoNewline

\* A line ended is all that is pending, and the byte-wise framer ends it as well.
LEMMA EndLineKeepsStream ==
  ASSUME StreamInv, FramerInv', EndLine
  PROVE  StreamInv'
  <1> DEFINE r == [end |-> "newline", line |-> trimCR(buf), continued |-> continued]
  <1>1. /\ fpc = "cut" /\ newline /\ Len(buf) =< MaxFragmentBytes /\ out' = Append(out, r)
        /\ buf' = << >> /\ continued' = FALSE /\ fpc' = "scan" /\ fed' = fed
    BY DEF EndLine, Emit
  <1>2. FramerInv /\ Lossless /\ AsByteWise /\ TypeOK /\ TypeOK'
    BY DEF StreamInv, FramerInv
  <1>3. buf \in Seq(Byte) /\ Pending = buf \o <<"\n">>
    BY <1>1, <1>2, PendingType DEF NewlineDue
  <1>4. Pending' = << >> /\ << >> \in Seq(Byte) /\ NoNewline(buf)'
    BY <1>1, <1>2, NothingPending
  <1>5. r \in Record /\ (Unflushed' => Unflushed)
    <2> HIDE DEF r
    <2> QED BY <1>1, <1>2, RecordPushed
  <1>6. PICK crlf \in BOOLEAN : Spelling(r, crlf) = buf \o <<"\n">>
    BY <1>3, SpellingOfLine
  <1>7. r.end = "newline"
    OBVIOUS
  <1>8. Lossless'
    <2>1. out' = Append(out, r) /\ fed' = fed
      BY <1>1
    <2> HIDE DEF r
    <2>2. Spelling(r, crlf) \in Seq(Byte)
      BY <1>5, SpellingType
    <2>3. Pending = Spelling(r, crlf) \o Pending'
      BY <1>3, <1>4, <1>6, <2>2, ConcatEmptySeq
    <2> QED BY <1>2, <1>4, <1>5, <1>7, <2>1, <2>3, LosslessPush
  <1>9. ASSUME Unflushed'
        PROVE  FeedAll(Framed(<< >>, continued, out), Pending)' = ByteWise(fed)'
    <2>1. FeedAll(Framed(<< >>, continued, out), Pending) = ByteWise(fed)
      BY <1>1, <1>2, <1>5, <1>9 DEF AsByteWise
    <2>2. FeedAll(Framed(<< >>, continued, out), buf \o <<"\n">>) =
            Framed(<< >>, FALSE, Append(out, r))
      BY <1>1, <1>2, <1>3, FeedEnd DEF AsByteWise
    <2>3. FeedAll(Framed(<< >>, FALSE, Append(out, r)), << >>) =
            Framed(<< >>, FALSE, Append(out, r))
      BY FeedNone
    <2> HIDE DEF r
    <2> QED BY <1>1, <1>3, <1>4, <2>1, <2>2, <2>3
  <1> QED BY <1>4, <1>8, <1>9 DEF StreamInv, AsByteWise

\* The pending line pushed as it is.
LEMMA LinePushed ==
  ASSUME FramerInv, TypeOK', Lossless, fpc = "select", fpc' # "cut", NEW end, end # "newline",
         Emit(end, buf), buf' = << >>, fed' = fed
  PROVE  Lossless'
  <1> DEFINE r == [end |-> end, line |-> buf, continued |-> continued]
  <1>1. out' = Append(out, r)
    BY DEF Emit
  <1>2. buf \in Seq(Byte) /\ Pending = buf
    BY PendingType, PendingLine DEF FramerInv
  <1>3. Pending' = << >> /\ << >> \in Seq(Byte)
    BY NothingPending
  <1>4. r.end # "newline" /\ r.line = buf
    OBVIOUS
  <1> HIDE DEF r
  <1>5. r \in Record
    BY <1>1, RecordPushed DEF FramerInv
  <1>6. Spelling(r, FALSE) = buf
    BY <1>4, <1>5, SpellingOfFragment
  <1>7. Pending = Spelling(r, FALSE) \o Pending'
    BY <1>2, <1>3, <1>6, ConcatEmptySeq
  <1> QED BY <1>1, <1>3, <1>5, <1>7, LosslessPush

\* An idle flush pushes all that is pending,
LEMMA TimeoutKeepsStream ==
  ASSUME StreamInv, FramerInv', Timeout
  PROVE  StreamInv'
  <1>1. /\ fpc = "select" /\ fpc' = "select" /\ Emit("timeout", buf)
        /\ buf' = << >> /\ fed' = fed
    BY DEF Timeout
  <1>2. FramerInv /\ Lossless /\ TypeOK /\ TypeOK'
    BY DEF StreamInv, FramerInv
  <1>3. Lossless'
    BY <1>1, <1>2, LinePushed
  <1>4. ~Unflushed'
    <2> DEFINE r == [end |-> "timeout", line |-> buf, continued |-> continued]
    <2>1. out' = Append(out, r) /\ r.end = "timeout"
      BY <1>1 DEF Emit
    <2> HIDE DEF r
    <2> QED BY <1>2, <2>1, Unpushed
  <1>5. NoNewline(buf)'
    BY <1>1, <1>2, NothingPending
  <1> QED BY <1>3, <1>4, <1>5 DEF StreamInv, AsByteWise

\* and so does the end of the stream, if there is any.
LEMMA RestKeepsStream ==
  ASSUME StreamInv, FramerInv', EndOfChunks \/ ReceiveError
  PROVE  StreamInv'
  <1>1. /\ fpc = "select" /\ fpc' = "done" /\ buf' = << >> /\ fed' = fed
        /\ IF buf = << >> THEN UNCHANGED out ELSE Emit("eof", buf)
    BY DEF EndOfChunks, ReceiveError, EmitRest
  <1>2. FramerInv /\ Lossless /\ TypeOK /\ TypeOK'
    BY DEF StreamInv, FramerInv
  <1>3. Lossless'
    <2>1. CASE buf = << >>
      <3>1. Pending = << >> /\ Pending' = << >> /\ UNCHANGED <<out, fed>>
        BY <1>1, <1>2, <2>1, PendingLine, PendingLineNext
      <3> QED BY <1>2, <3>1 DEF Lossless
    <2>2. CASE buf # << >>
      BY <1>1, <1>2, <2>2, LinePushed
    <2> QED BY <2>1, <2>2
  <1>4. NoNewline(buf)'
    BY <1>1, <1>2, NothingPending
  <1> QED BY <1>1, <1>3, <1>4 DEF StreamInv, AsByteWise

\* Nothing read, nothing pushed, nothing pending.
LEMMA StreamInit == Init => StreamInv
  <1> SUFFICES ASSUME Init PROVE StreamInv
    OBVIOUS
  <1>1. FramerInv
    BY FramerInit
  <1>2. /\ buf = << >> /\ fed = << >> /\ out = << >> /\ continued = FALSE /\ fpc = "select"
        /\ TypeOK
    BY <1>1 DEF Init, FramerInv
  <1>3. Pending = << >>
    BY <1>2, PendingLine
  <1>4. Lossless
    <2>1. {} \in SUBSET Ends(out) /\ Spellings(out, {}) = << >>
      BY <1>2 DEF Spellings
    <2>2. FlattenSeq(Spellings(out, {})) = << >>
      BY <2>1, FlattenSeqEmpty
    <2>3. << >> \o << >> = << >>
      OBVIOUS
    <2> QED BY <1>2, <1>3, <2>1, <2>2, <2>3 DEF Lossless
  <1>5. AsByteWise
    <2>1. FeedAll(Framed(<< >>, FALSE, << >>), << >>) = ByteWise(<< >>)
      BY DEF ByteWise, Framed
    <2>2. NoNewline(<< >>)
      BY DEF NoNewline
    <2> QED BY <1>2, <1>3, <2>1, <2>2 DEF AsByteWise
  <1> QED BY <1>1, <1>4, <1>5 DEF StreamInv

\* Every step keeps the invariant.
LEMMA StreamProgress == StreamInv /\ [Next]_vars => StreamInv'
  <1> SUFFICES ASSUME StreamInv, [Next]_vars PROVE StreamInv'
    OBVIOUS
  <1>1. FramerInv'
    BY FramerProgress DEF StreamInv
  <1>2. CASE Reader \/ UNCHANGED vars
    <2>1. UNCHANGED framerVars
      BY <1>2 DEF Reader, TakeBuffer, Reads, ReadNothing, Read, SendChunk, SendError,
                  CloseChunks, vars
    <2>2. UNCHANGED <<fed, out, continued, buf, NewlineDue, fpc>>
      BY <2>1 DEF framerVars, NewlineDue
    <2> QED BY <1>1, <2>2, StreamLeft
  <1>3. CASE EndOfChunks \/ ReceiveError
    BY <1>1, <1>3, RestKeepsStream
  <1>4. CASE ReceiveChunk \/ KeepPending \/ Release
    <2>1. UNCHANGED <<fed, out, continued, buf>> /\ fpc # "done" /\ fpc' # "done"
      BY <1>4 DEF ReceiveChunk, KeepPending, Release
    <2>2. UNCHANGED NewlineDue
      BY <1>4 DEF ReceiveChunk, KeepPending, Release, NewlineDue
    <2> QED BY <1>1, <2>1, <2>2, StreamLeft
  <1>5. CASE Scan
    BY <1>1, <1>5, ScanKeepsStream
  <1>6. CASE Split
    BY <1>1, <1>6, SplitKeepsStream
  <1>7. CASE EndLine
    BY <1>1, <1>7, EndLineKeepsStream
  <1>8. CASE Timeout
    BY <1>1, <1>8, TimeoutKeepsStream
  <1> QED BY <1>2, <1>3, <1>4, <1>5, <1>6, <1>7, <1>8 DEF Next, FramerStep

(***************************************************************************)
(* In every reachable state the records and what is pending make up the    *)
(* stream, and the byte-wise framer that goes on with what is pending is   *)
(* where it would be had it been fed the stream from its start.            *)
(***************************************************************************)
THEOREM StreamInvariant == Spec => []StreamInv
  BY StreamInit, StreamProgress, PTL DEF Spec

(***************************************************************************)
(* Joined by their Continued flags, the records and the pending line are the *)
(* bytes of the stream in their order, carriage returns at the ends of lines *)
(* included, for every size of chunk and fragment and however lines are cut, *)
(* split and flushed (consume, emit, trimCR).                              *)
(***************************************************************************)
THEOREM RecordsRejoin == Spec => []RecordsJoin
  <1>1. ASSUME StreamInv
        PROVE  RecordsJoin
    <2>1. FramerInv /\ Lossless /\ TypeOK /\ Fragments
      BY <1>1 DEF StreamInv, FramerInv
    <2>2. ASSUME fpc # "cut"
          PROVE  \E trimmed \in SUBSET LineEnds : Rejoined(trimmed) \o buf = fed
      <3>1. Pending = buf
        BY <2>1, <2>2, PendingLine
      <3>2. PICK t \in SUBSET Ends(out) : fed = FlattenSeq(Spellings(out, t)) \o Pending
        BY <2>1 DEF Lossless
      <3>3. Ends(out) = LineEnds /\ FlattenSeq(Spellings(out, t)) = Rejoined(t)
        BY DEF Ends, LineEnds, Spellings, Rejoined
      <3> QED BY <3>1, <3>2, <3>3
    <2> QED BY <2>1, <2>2 DEF RecordsJoin, NothingLost
  <1> QED BY <1>1, StreamInvariant, PTL

(***************************************************************************)
(* How reads cut the stream is invisible, for every size of chunk: without *)
(* idle flushes the framer has pushed, and is left with, what a framer that *)
(* is fed one byte at a time would have (consume).                         *)
(***************************************************************************)
THEOREM ChunksInvisible == Spec => []ChunkingInvisible
  <1>1. ASSUME StreamInv
        PROVE  ChunkingInvisible
    <2> SUFFICES ASSUME fpc = "select", Unflushed
                 PROVE  LET f == ByteWise(fed)
                        IN  out = f.out /\ buf = f.buf /\ continued = f.cont
      BY DEF ChunkingInvisible, Unflushed
    <2>1. TypeOK /\ Fits /\ AsByteWise
      BY <1>1 DEF StreamInv, FramerInv
    <2>2. Pending = buf /\ buf \in Seq(Byte) /\ NoNewline(buf) /\ Len(buf) =< MaxFragmentBytes
      BY <2>1, PendingLine, PendingType DEF Fits, AsByteWise
    <2>3. FeedAll(Framed(<< >>, continued, out), buf) = ByteWise(fed)
      BY <2>1, <2>2 DEF AsByteWise
    <2>4. ByteWise(fed) = Framed(buf, continued, out)
      BY <2>2, <2>3, FeedShort
    <2> QED BY <2>4 DEF Framed
  <1> QED BY <1>1, StreamInvariant, PTL
================================================================================
