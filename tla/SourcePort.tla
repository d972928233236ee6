------------------------------ MODULE SourcePort ------------------------------
(***************************************************************************)
(* The surroundings of one network or journal input (runner.go 368-426):   *)
(* the runner that starts its source, the queue the source pushes into,    *)
(* the writer that drains it, and whoever closes the source.  The queue is *)
(* reduced to what a pushing goroutine notices: room, no room (it waits),  *)
(* or closed (the record is refused).  Module Queue has the rest.          *)
(***************************************************************************)
EXTENDS Integers, Sequences, FiniteSets

CONSTANTS
  QueueCap,          \* records the queue holds
  MaxFragmentBytes,
  EntryBound         \* bound: datagrams, or lines of journalctl, explored

ASSUME PortAssumption ==
  /\ QueueCap \in Nat \ {0}
  /\ MaxFragmentBytes \in Nat \ {0}   \* config_file_validate.go rejects others
  /\ EntryBound \in Nat

VARIABLES
  kind,     \* of the input: "tcp", "udp" or "journal"
  start,    \* Start: "none", "opened", "published" or "failed"
  closed,   \* the source's closed flag
  cut,      \* history: Close found the source published
  closer,   \* Close: "idle", "first", "rest" or "done"
  main,     \* where the source's goroutine stands
  verdict,  \* what it will report
  done,     \* what it has reported: "none", "nil" or "err"
  shut,     \* the queue is closed
  queued,   \* records in it
  writer,   \* "running", "closing", "stopping" or "gone"
  rest,     \* the part of the current datagram or entry still to be pushed
  entries,  \* history: lengths of the datagrams or entries taken
  frags,    \* history: their records the queue took
  refused   \* history: the closed queue refused a record

runVars == <<start, main, verdict, done>>
closeVars == <<closed, cut, closer>>
queueVars == <<shut, queued, refused>>
entryVars == <<rest, entries, frags>>
portVars == <<kind, runVars, closeVars, queueVars, writer, entryVars>>

Nothing == [len |-> 0, cont |-> FALSE]

PortInit ==
  /\ start = "none" /\ main = "off" /\ verdict = "none" /\ done = "none"
  /\ closed = FALSE /\ cut = FALSE /\ closer = "idle"
  /\ shut = FALSE /\ queued = 0 /\ refused = FALSE
  /\ writer = "running"
  /\ rest = Nothing /\ entries = << >> /\ frags = << >>
----------------------------------------------------------------------------
\* One call of Push returns: with the record stored, or refused.
PushReturns ==
  /\ \/ ~shut /\ queued < QueueCap /\ queued' = queued + 1 /\ UNCHANGED refused
     \/ shut /\ refused' = TRUE /\ UNCHANGED queued
  /\ UNCHANGED shut

CloseQueue == shut' = TRUE /\ UNCHANGED <<queued, refused>>

\* Mutant: a full fragment is cut off even when nothing is left after it.
PushFragment_Full(next) ==
  LET more == rest.len >= MaxFragmentBytes
      rec  == [len  |-> IF more THEN MaxFragmentBytes ELSE rest.len,
               end  |-> IF more THEN "max-bytes" ELSE "newline",
               cont |-> rest.cont]
  IN  /\ main = "push"
      /\ PushReturns
      /\ frags' = IF shut THEN frags ELSE Append(frags, rec)
      /\ rest' = IF more THEN [len |-> rest.len - MaxFragmentBytes, cont |-> TRUE] ELSE Nothing
      /\ main' = IF more THEN "push" ELSE next
      /\ UNCHANGED entries

(***************************************************************************)
(* pushDatagram and pushJournalLine: fragments of MaxFragmentBytes while   *)
(* more than that is left, then the rest as the end of the line.           *)
(***************************************************************************)
PushFragment(next) ==
  LET more == rest.len > MaxFragmentBytes
      rec  == [len  |-> IF more THEN MaxFragmentBytes ELSE rest.len,
               end  |-> IF more THEN "max-bytes" ELSE "newline",
               cont |-> rest.cont]
  IN  /\ main = "push"
      /\ PushReturns
      /\ frags' = IF shut THEN frags ELSE Append(frags, rec)
      /\ rest' = IF more THEN [len |-> rest.len - MaxFragmentBytes, cont |-> TRUE] ELSE Nothing
      /\ main' = IF more THEN "push" ELSE next
      /\ UNCHANGED entries

\* The source's goroutine has a datagram or an entry of this length in hand.
TakeEntry(len) ==
  /\ entries' = Append(entries, len)
  /\ rest' = [len |-> len, cont |-> FALSE]
  /\ main' = "push"
  /\ UNCHANGED frags
----------------------------------------------------------------------------
(***************************************************************************)
(* Start, called by the runner: open, then publish what Close is to close  *)
(* and run the goroutine.  When it fails the runner closes the queue.      *)
(***************************************************************************)
Open ==
  /\ start = "none" /\ start' = "opened"
  /\ UNCHANGED <<main, verdict, done, closeVars, queueVars>>

OpenFails ==
  /\ start = "none" /\ start' = "failed"
  /\ CloseQueue
  /\ UNCHANGED <<main, verdict, done, closeVars>>

Publish(first) ==
  /\ start = "opened" /\ start' = "published"
  /\ main' = first
  /\ UNCHANGED <<verdict, done, closeVars, queueVars>>

\* The flag under the lock; the second caller of Close returns at once.
BeginClose ==
  /\ ~closed /\ closed' = TRUE
  /\ cut' = (start = "published")
  /\ closer' = IF start = "published" THEN "first" ELSE "done"

\* stopAll, for a signal or because another input ended with an error.
AnyoneCloses ==
  /\ BeginClose
  /\ UNCHANGED <<runVars, queueVars, writer>>

\* The goroutine's last steps: the queue is closed and the outcome sent.
Shut(at, next) ==
  /\ main = at /\ main' = next
  /\ CloseQueue
  /\ UNCHANGED <<start, verdict, done, closeVars>>

Report(next) ==
  /\ main = "report" /\ main' = next
  /\ done' = verdict
  /\ UNCHANGED <<start, verdict, closeVars, queueVars>>
----------------------------------------------------------------------------
(***************************************************************************)
(* The writer takes records until its sink fails.  Then onError closes the *)
(* source, and only after that the writer closes the queue.                *)
(***************************************************************************)
WriterPops ==
  /\ writer = "running" /\ queued > 0
  /\ queued' = queued - 1
  /\ UNCHANGED <<shut, refused, writer, closeVars>>

\* The sink fails and onError calls Close, which returns at once when it is not
\* the first.
WriterFails ==
  /\ writer = "running"
  /\ IF closed THEN writer' = "stopping" /\ UNCHANGED closeVars
               ELSE writer' = "closing" /\ BeginClose
  /\ UNCHANGED queueVars

\* Close has returned: everything is closed, for a journal SIGTERM is sent.
WriterGone ==
  /\ \/ writer = "stopping"
     \/ writer = "closing" /\ closer \in IF kind = "journal" THEN {"rest", "done"} ELSE {"done"}
  /\ writer' = "gone"
  /\ CloseQueue
  /\ UNCHANGED closeVars
----------------------------------------------------------------------------
\* The fragments of a line of this length, by the definition the splitting
\* loops have to meet: full ones, then a last one that is empty only if the
\* line is.
Split(len) ==
  LET n == IF len = 0 THEN 1 ELSE (len + MaxFragmentBytes - 1) \div MaxFragmentBytes
  IN  [k \in 1 .. n |->
         [len  |-> IF k < n THEN MaxFragmentBytes ELSE len - (n - 1) * MaxFragmentBytes,
          end  |-> IF k < n THEN "max-bytes" ELSE "newline",
          cont |-> k > 1]]

SplitAll[n \in 0 .. Len(entries)] ==
  IF n = 0 THEN << >> ELSE SplitAll[n - 1] \o Split(entries[n])
============================================================================
