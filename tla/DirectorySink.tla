---------------------------- MODULE DirectorySink ----------------------------
(***************************************************************************)
(* The rotating directory sink (sink_dir.go), through the life of several  *)
(* processes: formatted records, a bufio.Writer, the file "current",       *)
(* rotation to time-stamped segments, retention, and what a failing call,  *)
(* a killed process or a power loss leaves on the disk.                    *)
(*                                                                         *)
(* A record is its number, and a file the sequence of its bytes: a record  *)
(* of n bytes is n times its number.  A file is known by its inode; the    *)
(* directory says which inode is "current" (0: none) and which are rotated *)
(* segments, under a time and a collision suffix.  The bytes of an inode   *)
(* up to synced[inode] survive a power loss, and so does one of the        *)
(* directories in versions; the last of these is the one processes see.    *)
(*                                                                         *)
(* The directory's lock and the calls before it are not part of the model: *)
(* one process at a time has the directory.                                *)
(***************************************************************************)
EXTENDS Integers, Sequences, FiniteSets, SequencesExt, FiniteSetsExt

CONSTANTS
  MaxBytes,       \* cfg.MaxBytes
  MaxFiles,       \* cfg.MaxFiles, 0 keeps every segment
  BufferSize,     \* of the bufio.Writer
  Sizes,          \* lengths of formatted records
  Writers,        \* goroutines that share the sink through lockedSink
  ClosesSink,     \* FALSE: a failed ad hoc writer leaves the sink unclosed
  Faults,         \* calls of the operating system may fail
  RecordBound, TimeBound, RunBound   \* bounds: records, clock, processes

ASSUME DirectorySinkAssumption ==
  /\ MaxBytes \in Nat \ {0} /\ MaxFiles \in Nat
  /\ BufferSize \in Nat \ {0} /\ Sizes \subseteq Nat \ {0}
  /\ Writers \in Nat \ {0}
  /\ {ClosesSink, Faults} \subseteq BOOLEAN
  /\ {RecordBound, TimeBound, RunBound} \subseteq Nat

VARIABLES
  data,      \* inode -> its bytes
  synced,    \* inode -> how many of them are on stable storage
  versions,  \* the directories a power loss may leave, oldest first
  time,      \* the clock when it was last read
  runs,      \* processes started
  pc,        \* "down", "idle", the step of rotate under way, or "panicked"
  file,      \* s.file: "none", "open", or "closed" but not reset
  writer,    \* s.w: "none", "good", or "broken" by an earlier error
  w,         \* the bytes s.w holds
  size,      \* s.size
  pending,   \* length of the record that waits for a rotation
  writers,   \* writer goroutines that have not ended
  failed,    \* one of them ended with an error
  records,   \* history: records written so far
  stream,    \* history: the bytes of all records but those a failure lost
  steady     \* history: every rotation saw a later time than the one before

disk == <<data, synced, versions>>
sinkVars == <<file, writer, w, size>>
history == <<records, stream, steady>>
vars == <<disk, time, runs, pc, sinkVars, pending, writers, failed, history>>

Dir == Last(versions)

Init ==
  /\ data = << >> /\ synced = << >>
  /\ versions = <<[current |-> 0, rotated |-> {}]>>
  /\ time = 0 /\ runs = 0 /\ pc = "down"
  /\ file = "none" /\ writer = "none" /\ w = << >> /\ size = 0
  /\ pending = 0 /\ writers = 0 /\ failed = FALSE
  /\ records = 0 /\ stream = << >> /\ steady = TRUE

\* The name of a segment: time, then suffix.
Earlier(a, b) == a.time < b.time \/ (a.time = b.time /\ a.suffix < b.suffix)

\* The segments of a directory as rotatedFiles sorts them, by names that differ.
RotatedFiles(dir) ==
  CHOOSE q \in [1 .. Cardinality(dir.rotated) -> dir.rotated] :
    \A i, j \in DOMAIN q : i < j => Earlier(q[i], q[j])

\* A change of the directory; a power loss may still undo it.
ChangeDir(dir) == versions' = Append(versions, dir)

\* syncDir: no longer.
SyncDir == versions' = <<Dir>>

\* The calling writer goroutine ends with an error.
WriterFails == writers' = writers - 1 /\ failed' = TRUE
----------------------------------------------------------------------------
(***************************************************************************)
(* A process starts: NewDirectorySink, for the goroutines that share it.   *)
(***************************************************************************)

\* Mutant: the file that is there is taken for an empty one.
OpenCurrent_Empty ==
  /\ file' = "open" /\ writer' = "good" /\ w' = << >>
  /\ size' = 0
  /\ IF Dir.current # 0
     THEN UNCHANGED disk
     ELSE /\ data' = Append(data, << >>) /\ synced' = Append(synced, 0)
          /\ ChangeDir([Dir EXCEPT !.current = Len(data) + 1])

\* openCurrent: append to the file that is there, or create it.
OpenCurrent ==
  /\ file' = "open" /\ writer' = "good" /\ w' = << >>
  /\ IF Dir.current # 0
     THEN /\ size' = Len(data[Dir.current])
          /\ UNCHANGED disk
     ELSE /\ size' = 0
          /\ data' = Append(data, << >>) /\ synced' = Append(synced, 0)
          /\ ChangeDir([Dir EXCEPT !.current = Len(data) + 1])

Start ==
  /\ pc = "down" /\ runs < RunBound
  /\ runs' = runs + 1
  /\ OpenCurrent
  /\ pc' = "idle" /\ writers' = Writers /\ failed' = FALSE /\ pending' = 0
  /\ UNCHANGED <<time, history>>
----------------------------------------------------------------------------
(***************************************************************************)
(* Writing through the bufio.Writer (external): when the bytes do not fit  *)
(* it fills its buffer and writes it out, and what would fill the buffer   *)
(* again goes straight to the file.                                        *)
(***************************************************************************)
Spilled(bytes) ==
  LET all  == w \o bytes
      rest == Len(all) - BufferSize
  IN  IF rest =< 0 THEN 0
      ELSE IF w = << >> \/ rest > BufferSize THEN Len(all) ELSE BufferSize

Reach(bytes) ==
  data' = IF bytes = << >> THEN data ELSE [data EXCEPT ![Dir.current] = @ \o bytes]

\* The file is written to.  An error after some of the bytes breaks the
\* bufio.Writer for good: what it holds is lost.
WriteOut(all, n) ==
  /\ file = "open" /\ Reach(SubSeq(all, 1, n))
  /\ w' = SubSeq(all, n + 1, Len(all))
  /\ UNCHANGED writer

WriteOutFails(all, n) ==
  /\ \E part \in 0 .. n - 1 :
       /\ part > 0 => file = "open"
       /\ Reach(SubSeq(all, 1, part))
       /\ stream' = SubSeq(stream, 1, Len(stream) - Len(w)) \o SubSeq(all, 1, part)
  /\ writer' = "broken" /\ w' = << >>

\* The formatted record goes into s.w.
Put(n) ==
  LET bytes == [i \in 1 .. n |-> records + 1]
      out   == Spilled(bytes)
  IN  /\ records' = records + 1
      /\ pc' = "idle" /\ pending' = 0
      /\ UNCHANGED <<synced, versions, time, runs, file, steady>>
      /\ \/ /\ writer = "good"
            /\ IF out = 0 THEN w' = w \o bytes /\ UNCHANGED <<data, writer>>
                          ELSE WriteOut(w \o bytes, out)
            /\ stream' = stream \o bytes /\ size' = size + n
            /\ UNCHANGED <<writers, failed>>
         \/ /\ writer = "good" /\ out > 0 /\ (Faults \/ file = "closed")
            /\ WriteOutFails(w \o bytes, out)
            /\ \E taken \in 0 .. n : size' = size + taken
            /\ WriterFails
         \/ /\ writer = "broken"
            /\ WriterFails
            /\ UNCHANGED <<data, writer, w, size, stream>>

\* WriteRecord of a record that formats to n bytes.
WriteRecord(n) ==
  /\ pc = "idle" /\ writers > 0 /\ records < RecordBound
  /\ IF writer = "none"
     THEN \* s.w is nil
          /\ pc' = "panicked"
          /\ UNCHANGED <<disk, time, runs, sinkVars, pending, writers, failed, history>>
     ELSE IF size > 0 /\ size + n > MaxBytes
     THEN /\ pc' = "flush" /\ pending' = n
          /\ UNCHANGED <<disk, time, runs, sinkVars, writers, failed, history>>
     ELSE Put(n)

\* Flush, between two records.
Flush ==
  /\ pc = "idle" /\ writers > 0
  /\ \/ w # << >> /\ WriteOut(w, Len(w)) /\ UNCHANGED <<writers, failed, stream>>
     \/ w # << >> /\ (Faults \/ file = "closed") /\ WriteOutFails(w, Len(w)) /\ WriterFails
     \/ writer = "broken" /\ WriterFails /\ UNCHANGED <<data, writer, w, stream>>
  /\ UNCHANGED <<synced, versions, time, runs, pc, file, size, pending, records, steady>>
----------------------------------------------------------------------------
(***************************************************************************)
(* rotate, one step per call of the operating system.                      *)
(***************************************************************************)
RotateFlush ==
  /\ pc = "flush" /\ writer = "good"
  /\ IF w = << >> THEN UNCHANGED <<data, w, writer>> ELSE WriteOut(w, Len(w))
  /\ pc' = "sync"
  /\ UNCHANGED <<synced, versions, time, runs, file, size, pending, writers, failed, history>>

\* Mutant: no fsync of the segment.
RotateSync_Skipped ==
  /\ pc = "sync" /\ file = "open"
  /\ pc' = "close"
  /\ UNCHANGED <<disk, time, runs, sinkVars, pending, writers, failed, history>>

RotateSync ==
  /\ pc = "sync" /\ file = "open"
  /\ synced' = [synced EXCEPT ![Dir.current] = Len(data[Dir.current])]
  /\ pc' = "close"
  /\ UNCHANGED <<data, versions, time, runs, sinkVars, pending, writers, failed, history>>

RotateClose ==
  /\ pc = "close"
  /\ file' = "none" /\ writer' = "none"
  /\ pc' = "rename"
  /\ UNCHANGED <<disk, time, runs, w, size, pending, writers, failed, history>>

\* Mutant: no suffix is tried.
RotationPath_Base(t) == 0

\* rotationPath: the first suffix no segment has.
RotationPath(t) ==
  LET taken == {s.suffix : s \in {r \in Dir.rotated : r.time = t}}
  IN  Min({k \in 0 .. Cardinality(taken) : k \notin taken})

\* The rename replaces what has the name.
RotateRename ==
  /\ pc = "rename"
  /\ \E t \in 1 .. TimeBound :
       /\ time' = t /\ steady' = (steady /\ t > time)
       /\ LET name == [time |-> t, suffix |-> RotationPath(t)]
              kept == {s \in Dir.rotated : s.time # t \/ s.suffix # name.suffix}
          IN  ChangeDir([current |-> 0,
                         rotated |-> kept \cup {[time |-> t, suffix |-> name.suffix,
                                                 inode |-> Dir.current]}])
  /\ pc' = "syncdir"
  /\ UNCHANGED <<data, synced, runs, sinkVars, pending, writers, failed, records, stream>>

RotateSyncDir ==
  /\ pc = "syncdir"
  /\ SyncDir
  /\ pc' = IF MaxFiles = 0 THEN "open" ELSE "retain"
  /\ UNCHANGED <<data, synced, time, runs, sinkVars, pending, writers, failed, history>>

\* Mutant: one segment too many goes.
Retain_OneMore ==
  /\ pc = "retain" /\ Cardinality(Dir.rotated) >= MaxFiles
  /\ ChangeDir([Dir EXCEPT !.rotated = @ \ {RotatedFiles(Dir)[1]}])
  /\ UNCHANGED <<data, synced, time, runs, pc, sinkVars, pending, writers, failed, history>>

\* enforceRetention: the first of the sorted segments goes.
Retain ==
  /\ pc = "retain" /\ Cardinality(Dir.rotated) > MaxFiles
  /\ ChangeDir([Dir EXCEPT !.rotated = @ \ {RotatedFiles(Dir)[1]}])
  /\ UNCHANGED <<data, synced, time, runs, pc, sinkVars, pending, writers, failed, history>>

RetainSyncDir ==
  /\ pc = "retain" /\ Cardinality(Dir.rotated) =< MaxFiles
  /\ SyncDir
  /\ pc' = "open"
  /\ UNCHANGED <<data, synced, time, runs, sinkVars, pending, writers, failed, history>>

Reopen ==
  /\ pc = "open"
  /\ OpenCurrent
  /\ pc' = "put"
  /\ UNCHANGED <<time, runs, pending, writers, failed, history>>

WriteAfterRotation == pc = "put" /\ Put(pending)

\* A call of rotate fails and WriteRecord returns its error.
RotateFails ==
  /\ pc \in {"flush", "sync", "close", "rename", "syncdir", "retain", "open"}
  /\ Faults \/ writer = "broken" \/ (file = "closed" /\ (pc = "sync" \/ w # << >>))
  /\ CASE pc = "flush" /\ w # << >> -> WriteOutFails(w, Len(w)) /\ UNCHANGED file
       [] pc = "close" -> file' = "closed" /\ UNCHANGED <<data, writer, w, stream>>
       [] OTHER -> UNCHANGED <<data, file, writer, w, stream>>
  /\ WriterFails
  /\ pc' = "idle" /\ pending' = 0
  /\ UNCHANGED <<synced, versions, time, runs, size, records, steady>>
----------------------------------------------------------------------------
(***************************************************************************)
(* How a process ends.                                                     *)
(***************************************************************************)

\* An input has ended and its queue is drained.
WriterEnds ==
  /\ pc = "idle" /\ writers > 0
  /\ writers' = writers - 1
  /\ UNCHANGED <<disk, time, runs, pc, sinkVars, pending, failed, history>>

\* Close: flush, fsync, close, whatever each returns.
Close ==
  /\ pc = "idle" /\ writers = 0 /\ (ClosesSink \/ ~failed)
  /\ \/ /\ file = "open"
        /\ Reach(w)
        /\ synced' = [synced EXCEPT ![Dir.current] = Len(data'[Dir.current])]
        /\ UNCHANGED stream
     \/ /\ Faults \/ file # "open"
        /\ \E part \in 0 .. Len(w) :
             /\ part > 0 => file = "open"
             /\ Reach(SubSeq(w, 1, part))
             /\ stream' = SubSeq(stream, 1, Len(stream) - Len(w) + part)
        /\ UNCHANGED synced
  /\ pc' = "down"
  /\ file' = "none" /\ writer' = "none" /\ w' = << >>
  /\ UNCHANGED <<versions, time, runs, size, pending, writers, failed, records, steady>>

\* The process dies or exits without Close: what s.w holds is lost.
Kill ==
  /\ pc # "down"
  /\ pc' = "down"
  /\ stream' = SubSeq(stream, 1, Len(stream) - Len(w))
  /\ file' = "none" /\ writer' = "none" /\ w' = << >>
  /\ UNCHANGED <<disk, time, runs, size, pending, writers, failed, records, steady>>

\* The bytes of a directory's files, oldest segment first.
Files(dir) ==
  [i \in 1 .. Cardinality(dir.rotated) |-> RotatedFiles(dir)[i].inode]
    \o (IF dir.current = 0 THEN << >> ELSE <<dir.current>>)

Log(dir, content) == FlattenSeq([i \in DOMAIN Files(dir) |-> content[Files(dir)[i]]])

\* The machine stops; unsynced bytes and directory changes may be undone.
PowerLoss ==
  /\ Faults
  /\ \E v \in DOMAIN versions :
     \E keep \in {k \in [DOMAIN data -> 0 .. Max({Len(data[i]) : i \in DOMAIN data} \cup {0})] :
                    \A i \in DOMAIN data : synced[i] =< k[i] /\ k[i] =< Len(data[i])} :
       /\ versions' = <<versions[v]>>
       /\ data' = [i \in DOMAIN data |-> SubSeq(data[i], 1, keep[i])]
       /\ synced' = keep
       /\ stream' = Log(versions[v], data')
  /\ pc' = "down"
  /\ file' = "none" /\ writer' = "none" /\ w' = << >>
  /\ UNCHANGED <<time, runs, size, pending, writers, failed, records, steady>>

Next ==
  \/ Start \/ (\E n \in Sizes : WriteRecord(n)) \/ Flush
  \/ RotateFlush \/ RotateSync \/ RotateClose \/ RotateRename \/ RotateSyncDir
  \/ Retain \/ RetainSyncDir \/ Reopen \/ WriteAfterRotation \/ RotateFails
  \/ WriterEnds \/ Close \/ Kill \/ PowerLoss

Spec == Init /\ [][Next]_vars
----------------------------------------------------------------------------
\* Every variable of the program keeps to its type; the buffer to its size, the names
\* to the clock.
TypeOK ==
  /\ data \in Seq(Seq(1 .. RecordBound))
  /\ synced \in Seq(Nat) /\ Len(synced) = Len(data)
  /\ \A i \in DOMAIN data : synced[i] =< Len(data[i])
  /\ versions # << >>
  /\ versions \in Seq([current : 0 .. Len(data),
                       rotated : SUBSET [time : 1 .. TimeBound, suffix : Nat,
                                         inode : 1 .. Len(data)]])
  /\ time \in 0 .. TimeBound /\ runs \in 0 .. RunBound
  /\ pc \in {"down", "idle", "flush", "sync", "close", "rename", "syncdir", "retain",
             "open", "put", "panicked"}
  /\ file \in {"none", "open", "closed"} /\ writer \in {"none", "good", "broken"}
  /\ w \in Seq(1 .. RecordBound) /\ Len(w) =< BufferSize
  /\ size \in Nat /\ pending \in Sizes \cup {0}
  /\ writers \in 0 .. Writers /\ failed \in BOOLEAN
  /\ records \in 0 .. RecordBound /\ steady \in BOOLEAN

(***************************************************************************)
(* While the clock moves forward: read in the order of their names, the    *)
(* segments, the current file and the buffer are the records in the order  *)
(* written, without the oldest, which retention took while it kept         *)
(* MaxFiles segments, and without what was in the buffer when a write      *)
(* failed or the process died.  So across failed rotations, kills and      *)
(* restarts nothing else is lost, doubled or out of place.                 *)
(***************************************************************************)
LogInOrder ==
  LET log == Log(Dir, data) \o w
  IN  /\ stream \in Seq(1 .. RecordBound)
      /\ steady => IsSuffix(log, stream)
      /\ Len(log) < Len(stream) =>
           MaxFiles > 0 /\ Cardinality(Dir.rotated) >= MaxFiles

(***************************************************************************)
(* A file grows past MaxBytes for a single record only, no record is split *)
(* over two files (sink_dir.go 62-64), and size, which rotation goes by,   *)
(* is the length the current file will have; TypeOK with it.               *)
(***************************************************************************)
Segments ==
  /\ TypeOK
  /\ \A i \in DOMAIN data :
       Len(data[i]) =< MaxBytes \/ Cardinality(Range(data[i])) = 1
  /\ \A s \in Dir.rotated :
       /\ \A t \in Dir.rotated \ {s} : Range(data[s.inode]) \cap Range(data[t.inode]) = {}
       /\ Dir.current # 0 => Range(data[s.inode]) \cap Range(data[Dir.current]) = {}
  /\ writer = "good" /\ file = "open" =>
       size = Len(data[Dir.current]) + Len(w)

(***************************************************************************)
(* "A rotated file is durable as a complete segment" (sink_dir.go          *)
(* 126-128): under every directory a power loss may leave, no byte of a    *)
(* rotated segment is lost, and once the rotation goes on to a new current *)
(* file it cannot be undone.                                               *)
(***************************************************************************)
DurableSegments ==
  /\ \A v \in DOMAIN versions : \A s \in versions[v].rotated :
       synced[s.inode] = Len(data[s.inode])
  /\ pc = "open" => Len(versions) = 1

(***************************************************************************)
(* Whatever the clock says, a process removes a segment through retention  *)
(* only: a rotation never takes the name of one that exists.               *)
(***************************************************************************)
SegmentsSurvive ==
  [][pc \notin {"retain", "down"} /\ pc' # "down" =>
       \A s \in Dir.rotated : s \in Dir'.rotated]_vars

(***************************************************************************)
(* Flush and Close provide for a sink without a bufio.Writer (sink_dir.go  *)
(* 76 and 84); read as a property: no writer is stopped by it.             *)
(***************************************************************************)
WriterOptional == pc # "panicked"
============================================================================
