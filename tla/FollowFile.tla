------------------------------ MODULE FollowFile ------------------------------
(***************************************************************************)
(* The reader that follows a file by its path, as tail -F does             *)
(* (source_file.go), step by step against an application and a log rotator *)
(* that act between any two of its system calls, and against Close.        *)
(*                                                                         *)
(* A file is an inode, a byte the number of its write, so that no two      *)
(* bytes are equal and older ones are smaller.                             *)
(***************************************************************************)
EXTENDS Integers, Sequences, FiniteSets, SequencesExt

CONSTANTS
  StartAtEnd,   \* start == FileStartEnd
  ReadSize,     \* bytes a read may return
  Truncates,    \* the file may be truncated in place
  LateWrites,   \* the application writes to a file moved away until it reopens
  Faults,       \* a system call may fail
  InodeBound, ByteBound   \* bounds: files created, bytes written

ASSUME FollowFileAssumption ==
  /\ {StartAtEnd, Truncates, LateWrites, Faults} \subseteq BOOLEAN
  /\ ReadSize \in Nat \ {0}
  /\ {InodeBound, ByteBound} \subseteq Nat \ {0}

VARIABLES
  path,       \* the inode the watched path names, 0: none
  content,    \* inode -> its bytes
  handle,     \* the inode the application has open, 0: none
  written,    \* bytes written so far
  place,      \* where Read is: "check", "open", "stat", "publish", "test", "read",
              \* "eof", "switch", "wait", or "done" once it returned an error
  startAtEnd, \* r.startAtEnd
  file,       \* r.file, 0: nil
  offset,     \* r.offset, and the position of the descriptor
  opened,     \* r.opened
  closed,     \* r.closed
  temp,       \* file and offset before ensureOpen publishes them
  local,      \* the file Read works on
  info,       \* what Stat of the path returned
  got,        \* history: bytes delivered
  first,      \* history: the first inode followed, and the bytes skipped there
  found,      \* history: inode -> its length at the last read of it
  cut         \* history: the inodes truncated so far

fs == <<path, content, handle, written>>
reader == <<startAtEnd, file, offset, opened, closed>>
locals == <<temp, local, info>>
history == <<got, first, found, cut>>
followVars == <<fs, place, reader, locals, history>>

Nothing == [inode |-> 0, size |-> 0]

\* NewFollowFileReader, on a path that exists or not.
FollowInit ==
  /\ \/ path = 0 /\ content = << >> /\ written = 0
     \/ path = 1 /\ content = << <<1>> >> /\ written = 1
  /\ handle = path
  /\ startAtEnd = (StartAtEnd /\ path # 0)
  /\ place = "check"
  /\ file = 0 /\ offset = 0 /\ opened = FALSE /\ closed = FALSE
  /\ temp = Nothing /\ local = 0 /\ info = Nothing
  /\ got = << >> /\ first = Nothing
  /\ found = [i \in 1 .. InodeBound |-> 0]
  /\ cut = {}
----------------------------------------------------------------------------
(***************************************************************************)
(* The application and the log rotator (external).                         *)
(***************************************************************************)
AppWrites ==
  /\ handle # 0 /\ written < ByteBound /\ (LateWrites \/ handle = path)
  /\ written' = written + 1
  /\ content' = [content EXCEPT ![handle] = Append(@, written + 1)]
  /\ UNCHANGED <<path, handle, place, reader, locals, history>>

\* The file is renamed or unlinked; whoever has it open keeps it.
MovedAway ==
  /\ path # 0 /\ path' = 0
  /\ UNCHANGED <<content, handle, written, place, reader, locals, history>>

Created ==
  /\ path = 0 /\ Len(content) < InodeBound
  /\ content' = Append(content, << >>)
  /\ path' = Len(content) + 1
  /\ UNCHANGED <<handle, written, place, reader, locals, history>>

AppReopens ==
  /\ path # 0 /\ handle # path
  /\ handle' = path
  /\ UNCHANGED <<path, content, written, place, reader, locals, history>>

Truncated ==
  /\ Truncates /\ path # 0 /\ content[path] # << >>
  /\ content' = [content EXCEPT ![path] = << >>]
  /\ cut' = cut \cup {path}
  /\ UNCHANGED <<path, handle, written, place, reader, locals, got, first, found>>

Environment == AppWrites \/ MovedAway \/ Created \/ AppReopens \/ Truncated
----------------------------------------------------------------------------
(***************************************************************************)
(* ensureOpen.                                                             *)
(***************************************************************************)
Check ==
  /\ place = "check"
  /\ place' = IF closed \/ file # 0 THEN "test" ELSE "open"
  /\ UNCHANGED <<fs, reader, locals, history>>

Open ==
  /\ place = "open"
  /\ temp' = [inode |-> path, size |-> 0]
  /\ place' = IF path = 0 THEN "test" ELSE "stat"
  /\ UNCHANGED <<fs, reader, local, info, history>>

SkipTo(size) == IF ~opened /\ startAtEnd THEN size ELSE 0

StatOpened ==
  /\ place = "stat"
  /\ temp' = [temp EXCEPT !.size = SkipTo(Len(content[temp.inode]))]
  /\ place' = "publish"
  /\ UNCHANGED <<fs, reader, local, info, history>>

\* Mutant: Close is not looked for.
Publish_Unchecked ==
  /\ place = "publish"
  /\ file' = temp.inode /\ offset' = temp.size /\ opened' = TRUE
  /\ first' = IF opened THEN first ELSE temp
  /\ temp' = Nothing
  /\ place' = "test"
  /\ UNCHANGED <<fs, startAtEnd, closed, local, info, got, found, cut>>

Publish ==
  /\ place = "publish"
  /\ IF closed
     THEN UNCHANGED <<file, offset, opened, first>>
     ELSE /\ file' = temp.inode /\ offset' = temp.size /\ opened' = TRUE
          /\ first' = IF opened THEN first ELSE temp
  /\ temp' = Nothing
  /\ place' = "test"
  /\ UNCHANGED <<fs, startAtEnd, closed, local, info, got, found, cut>>
----------------------------------------------------------------------------
(***************************************************************************)
(* Read; StartChunkReader calls it again until it returns an error.        *)
(***************************************************************************)

\* isClosed, then currentFile.
TestClosed ==
  /\ place = "test"
  /\ local' = file
  /\ place' = IF closed THEN "done" ELSE IF file = 0 THEN "wait" ELSE "read"
  /\ UNCHANGED <<fs, reader, temp, info, history>>

\* Close came first: the descriptor is no longer valid.
ReadClosed ==
  /\ place = "read" /\ file # local
  /\ place' = "done"
  /\ UNCHANGED <<fs, reader, locals, history>>

\* Mutant: the path is looked at before the file is at its end.
ReadBytes_ThenSwitch ==
  /\ place = "read" /\ file = local /\ offset < Len(content[local])
  /\ \E n \in 1 .. ReadSize :
       /\ offset + n =< Len(content[local])
       /\ got' = got \o SubSeq(content[local], offset + 1, offset + n)
       /\ offset' = offset + n
  /\ found' = [found EXCEPT ![local] = Len(content[local])]
  /\ place' = "eof"
  /\ UNCHANGED <<fs, startAtEnd, file, opened, closed, locals, first, cut>>

ReadBytes ==
  /\ place = "read" /\ file = local /\ offset < Len(content[local])
  /\ \E n \in 1 .. ReadSize :
       /\ offset + n =< Len(content[local])
       /\ got' = got \o SubSeq(content[local], offset + 1, offset + n)
       /\ offset' = offset + n
  /\ found' = [found EXCEPT ![local] = Len(content[local])]
  /\ place' = "check"
  /\ UNCHANGED <<fs, startAtEnd, file, opened, closed, locals, first, cut>>

ReadEOF ==
  /\ place = "read" /\ file = local /\ offset >= Len(content[local])
  /\ found' = [found EXCEPT ![local] = Len(content[local])]
  /\ place' = "eof"
  /\ UNCHANGED <<fs, reader, locals, got, first, cut>>

\* handleEOF: Stat of the path,
StatPath ==
  /\ place = "eof"
  /\ info' = [inode |-> path, size |-> IF path = 0 THEN 0 ELSE Len(content[path])]
  /\ place' = IF path = 0 THEN "wait" ELSE "switch"
  /\ UNCHANGED <<fs, reader, temp, local, history>>

\* Mutants: the size is not compared; an equal size counts as truncated.
Switch_SizeIgnored ==
  /\ place = "switch"
  /\ IF closed \/ file = 0 \/ info.inode = file THEN UNCHANGED <<file, offset>>
     ELSE file' = 0 /\ offset' = 0
  /\ place' = "wait"
  /\ UNCHANGED <<fs, startAtEnd, opened, closed, locals, history>>

Switch_SizeEqual ==
  /\ place = "switch"
  /\ IF closed \/ file = 0 THEN UNCHANGED <<file, offset>>
     ELSE IF info.inode # file THEN file' = 0 /\ offset' = 0
     ELSE /\ offset' = IF info.size =< offset THEN 0 ELSE offset
          /\ UNCHANGED file
  /\ place' = "wait"
  /\ UNCHANGED <<fs, startAtEnd, opened, closed, locals, history>>

\* and what follows from it, under the lock.
Switch ==
  /\ place = "switch"
  /\ IF closed \/ file = 0 THEN UNCHANGED <<file, offset>>
     ELSE IF info.inode # file THEN file' = 0 /\ offset' = 0
     ELSE /\ offset' = IF info.size < offset THEN 0 ELSE offset
          /\ UNCHANGED file
  /\ place' = "wait"
  /\ UNCHANGED <<fs, startAtEnd, opened, closed, locals, history>>

\* wait: the timer or done, whichever the select takes.
WaitOver ==
  /\ place = "wait" /\ place' = "check"
  /\ UNCHANGED <<fs, reader, locals, history>>

WaitDone ==
  /\ place = "wait" /\ closed
  /\ place' = "done"
  /\ UNCHANGED <<fs, reader, locals, history>>

\* A system call fails for a reason of its own, and Read returns the error.
CallFails ==
  /\ Faults /\ place \in {"open", "stat", "read", "eof"}
  /\ temp' = Nothing
  /\ place' = "done"
  /\ UNCHANGED <<fs, reader, local, info, history>>

\* Close, from another goroutine.
Close ==
  /\ ~closed
  /\ closed' = TRUE /\ file' = 0
  /\ UNCHANGED <<fs, place, startAtEnd, offset, opened, locals, history>>

FollowReader ==
  \/ Check \/ Open \/ StatOpened \/ Publish \/ TestClosed
  \/ ReadClosed \/ ReadBytes \/ ReadEOF \/ StatPath \/ Switch
  \/ WaitOver \/ WaitDone

FollowNext == Environment \/ FollowReader \/ CallFails \/ Close

FollowSpec == FollowInit /\ [][FollowNext]_followVars

\* The read goroutine runs, and its timer fires.
FollowFairSpec == FollowSpec /\ WF_followVars(FollowReader)
----------------------------------------------------------------------------
\* Every variable keeps to its type: file numbers and offsets to the files there are.
FollowTypeOK ==
  /\ path \in 0 .. Len(content) /\ handle \in 0 .. Len(content)
  /\ content \in Seq(Seq(1 .. ByteBound)) /\ Len(content) =< InodeBound
  /\ written \in 0 .. ByteBound
  /\ place \in {"check", "open", "stat", "publish", "test", "read", "eof", "switch",
              "wait", "done"}
  /\ startAtEnd \in BOOLEAN /\ opened \in BOOLEAN /\ closed \in BOOLEAN
  /\ file \in 0 .. Len(content) /\ local \in 0 .. Len(content)
  /\ offset \in 0 .. ByteBound
  /\ {temp, info, first} \subseteq [inode : 0 .. Len(content), size : 0 .. ByteBound]
  /\ got \in Seq(1 .. ByteBound)
  /\ found \in [1 .. InodeBound -> 0 .. ByteBound]
  /\ cut \subseteq DOMAIN content

\* The first n bytes of a file, without those the reader was to skip.
Due(i, n) ==
  LET skip == IF i = first.inode THEN first.size ELSE 0
  IN  {content[i][k] : k \in skip + 1 .. n}

(***************************************************************************)
(* Whatever rotations and truncations happen between two system calls, no  *)
(* byte is delivered twice and none out of the order it was written in.    *)
(***************************************************************************)
NoRepeats == \A k \in 1 .. Len(got) - 1 : got[k] < got[k + 1]

(***************************************************************************)
(* Of the open file all before the offset is delivered, and of one the     *)
(* reader has left all that was in it at the last read of it: it is not    *)
(* left before a read has met its end (source_file.go 167-170).  Of files  *)
(* never truncated, and of the first from where the reader took it up.     *)
(***************************************************************************)
NothingSkipped ==
  \A i \in DOMAIN content \ cut :
    /\ i = file => Due(i, offset) \subseteq Range(got)
    /\ i # file /\ ~closed => Due(i, found[i]) \subseteq Range(got)

(***************************************************************************)
(* README.md 359-361 and source_file.go 168-169: a renamed file is drained *)
(* before the reader follows its replacement.                              *)
(***************************************************************************)
DrainedBeforeSwitch ==
  [][file # 0 /\ file' = 0 /\ ~closed' => offset >= Len(content[file])]_followVars

(***************************************************************************)
(* Once Read has returned after Close, no descriptor is left open, even if *)
(* Close came while a file was being opened (source_file.go 120-126);      *)
(* FollowTypeOK with it.                                                   *)
(***************************************************************************)
NoDescriptorLeft ==
  /\ FollowTypeOK
  /\ place = "done" /\ closed => file = 0 /\ temp = Nothing

(***************************************************************************)
(* Again and again the reader is at the end of the file the path names, or *)
(* there is none: a rotation or truncation never leaves it waiting on a    *)
(* file that gets no more bytes.                                           *)
(***************************************************************************)
CatchesUp ==
  []<>(place = "done" \/ path = 0 \/ (file = path /\ offset = Len(content[path])))

(***************************************************************************)
(* Close ends a Read wherever it is.                                       *)
(***************************************************************************)
CloseEndsRead == closed ~> place = "done"

\* The reader catches up as long as it runs, and ends once it is closed.
FollowerGoesOn == CatchesUp /\ CloseEndsRead
============================================================================
