---------------------------- MODULE JournalSource ----------------------------
(***************************************************************************)
(* journalSource (source_journal.go): journalctl as a child process with a *)
(* bounded pipe for each of its outputs, the goroutine that reads entries, *)
(* the one that reads the first ErrLimit units of stderr, cmd.Wait, and    *)
(* Close with its delayed SIGKILL.  journalctl prints, complains, exits    *)
(* and ignores SIGTERM as it likes; it waits while a pipe is full.         *)
(***************************************************************************)
EXTENDS SourcePort

CONSTANTS
  OutCap, ErrCap,  \* what the pipes hold: lines of stdout, units of stderr
  ErrLimit,        \* units of stderr kept (16 KiB)
  ErrBound,        \* bound: units of stderr explored
  MessageLengths   \* of journal messages; an empty one is given a text

ASSUME JournalAssumption ==
  /\ OutCap \in Nat \ {0} /\ ErrCap \in Nat \ {0}
  /\ ErrLimit \in Nat \ {0} /\ ErrBound \in Nat
  /\ MessageLengths \subseteq Nat \ {0}

Bad == -1   \* a line that is not JSON, or that a signal has cut off

VARIABLES
  noGrace,   \* terminationTimeout = 0: SIGKILL follows SIGTERM at once
  jc,        \* journalctl: "none", "running", "complaining", "dead" or "reaped"
  status,    \* its exit status is 0
  term,      \* SIGTERM has been sent
  kill,      \* SIGKILL has been sent
  stdout,    \* lines in the pipe
  printed,   \* history: lines printed
  stderr,    \* units in the pipe
  kept,      \* units of stderr read
  reader,    \* readLimitedString: "off", "reading" or "sent"
  readErr,   \* the read loop ended with an error
  stopped    \* the done channel is closed

pipeVars == <<stdout, printed, stderr, kept, reader>>
journalVars == <<noGrace, jc, status, term, kill, pipeVars, readErr, stopped>>

JournalInit ==
  /\ noGrace \in BOOLEAN
  /\ jc = "none" /\ status = TRUE /\ term = FALSE /\ kill = FALSE
  /\ stdout = << >> /\ printed = 0 /\ stderr = 0 /\ kept = 0 /\ reader = "off"
  /\ readErr = FALSE /\ stopped = FALSE
----------------------------------------------------------------------------
StartProcess ==
  /\ Open
  /\ jc' = "running"
  /\ UNCHANGED <<noGrace, status, term, kill, pipeVars, readErr, stopped, writer, entryVars>>

PublishProcess ==
  /\ Publish("read")
  /\ reader' = "reading"
  /\ UNCHANGED <<noGrace, jc, status, term, kill, stdout, printed, stderr, kept, readErr, stopped,
                 writer, entryVars>>

CloseTerm ==
  /\ closer = "first" /\ closer' = "rest"
  /\ term' = TRUE
  /\ UNCHANGED <<noGrace, jc, status, kill, pipeVars, readErr, stopped, closed, cut,
                 runVars, queueVars, writer, entryVars>>

\* Mutant: the goroutine waits for the done channel and for no timer.
CloseKill_NoTimer ==
  /\ closer = "rest" /\ closer' = "done"
  /\ kill' = (kill \/ noGrace)
  /\ UNCHANGED <<noGrace, jc, status, term, pipeVars, readErr, stopped, closed, cut,
                 runVars, queueVars, writer, entryVars>>

\* Close sends SIGTERM; the goroutine it leaves behind sends SIGKILL when
\* the done channel is not closed in time.
CloseKill ==
  /\ closer = "rest" /\ closer' = "done"
  /\ kill' = (kill \/ noGrace \/ ~stopped)
  /\ UNCHANGED <<noGrace, jc, status, term, pipeVars, readErr, stopped, closed, cut,
                 runVars, queueVars, writer, entryVars>>
----------------------------------------------------------------------------
(***************************************************************************)
(* journalctl.                                                             *)
(***************************************************************************)
Prints(line) ==
  /\ jc = "running" /\ Len(stdout) < OutCap /\ printed < EntryBound
  /\ stdout' = Append(stdout, line) /\ printed' = printed + 1
  /\ UNCHANGED <<noGrace, jc, status, term, kill, stderr, kept, reader, readErr, stopped, portVars>>

\* It has something to say on stderr, and does nothing else until it is said.
WantsToComplain ==
  /\ jc = "running" /\ stderr + kept < ErrBound
  /\ jc' = "complaining"
  /\ UNCHANGED <<noGrace, status, term, kill, pipeVars, readErr, stopped, portVars>>

Complain ==
  /\ jc = "complaining" /\ stderr < ErrCap
  /\ jc' = "running" /\ stderr' = stderr + 1
  /\ UNCHANGED <<noGrace, status, term, kill, stdout, printed, kept, reader, readErr, stopped, portVars>>

Exit(ok) ==
  /\ jc = "running"
  /\ jc' = "dead" /\ status' = ok
  /\ UNCHANGED <<noGrace, term, kill, pipeVars, readErr, stopped, portVars>>

\* A signal ends it, perhaps in the middle of a line.
Die ==
  /\ jc \in {"running", "complaining"} /\ (term \/ kill)
  /\ jc' = "dead" /\ status' = FALSE
  /\ stdout' \in {stdout} \cup (IF Len(stdout) < OutCap THEN {Append(stdout, Bad)} ELSE {})
  /\ UNCHANGED <<noGrace, term, kill, printed, stderr, kept, reader, readErr, stopped, portVars>>
----------------------------------------------------------------------------
(***************************************************************************)
(* The goroutines of the source.                                           *)
(***************************************************************************)
ReadStderr ==
  /\ reader = "reading" /\ stderr > 0 /\ kept < ErrLimit
  /\ stderr' = stderr - 1 /\ kept' = kept + 1
  /\ UNCHANGED <<noGrace, jc, status, term, kill, stdout, printed, reader, readErr, stopped, portVars>>

\* It ends at its limit, at the end of stderr, or when cmd.Wait has closed the pipe.
StderrSent ==
  /\ reader = "reading"
  /\ kept = ErrLimit \/ (jc = "dead" /\ stderr = 0) \/ jc = "reaped"
  /\ reader' = "sent"
  /\ UNCHANGED <<noGrace, jc, status, term, kill, stdout, printed, stderr, kept, readErr, stopped,
                 portVars>>

ReadEntry ==
  /\ main = "read" /\ stdout # << >>
  /\ stdout' = Tail(stdout)
  /\ IF Head(stdout) = Bad
       THEN /\ main' = "terminate" /\ readErr' = TRUE
            /\ UNCHANGED entryVars
       ELSE TakeEntry(Head(stdout)) /\ UNCHANGED readErr
  /\ UNCHANGED <<noGrace, jc, status, term, kill, printed, stderr, kept, reader, stopped,
                 kind, start, verdict, done, closeVars, queueVars, writer>>

PushEntry ==
  /\ PushFragment("read")
  /\ UNCHANGED <<journalVars, kind, start, verdict, done, closeVars, writer>>

\* The pipe is empty and its other end is closed.
EndOfEntries ==
  /\ main = "read" /\ stdout = << >> /\ jc = "dead"
  /\ main' = "wait"
  /\ UNCHANGED <<journalVars, kind, start, verdict, done, closeVars, queueVars, writer, entryVars>>

Terminate ==
  /\ main = "terminate" /\ main' = "grace"
  /\ term' = TRUE
  /\ UNCHANGED <<noGrace, jc, status, kill, pipeVars, readErr, stopped,
                 kind, start, verdict, done, closeVars, queueVars, writer, entryVars>>

\* waitAfterReadError: the timer of its select, or no grace at all.
GraceOver ==
  /\ main = "grace" /\ main' = "wait"
  /\ kill' = TRUE
  /\ UNCHANGED <<noGrace, jc, status, term, pipeVars, readErr, stopped,
                 kind, start, verdict, done, closeVars, queueVars, writer, entryVars>>

\* cmd.Wait, in a goroutine of its own, reaps the process and closes the pipes.
Reap ==
  /\ main \in {"wait", "terminate", "grace"} /\ jc = "dead"
  /\ jc' = "reaped"
  /\ UNCHANGED <<noGrace, status, term, kill, pipeVars, readErr, stopped, portVars>>

\* waitDone has been received: the done channel is closed.
Waited ==
  /\ jc = "reaped" /\ (main = "wait" \/ (main = "grace" /\ ~noGrace))
  /\ main' = "shut" /\ stopped' = TRUE
  /\ UNCHANGED <<noGrace, jc, status, term, kill, pipeVars, readErr,
                 kind, start, verdict, done, closeVars, queueVars, writer, entryVars>>

Judge ==
  /\ main = "collect" /\ reader = "sent"
  /\ verdict' = IF closed \/ (~readErr /\ status) THEN "nil" ELSE "err"
  /\ main' = "report"
  /\ UNCHANGED <<journalVars, kind, start, done, closeVars, queueVars, writer, entryVars>>

FinishJournal ==
  /\ Shut("shut", "collect") \/ Report("over")
  /\ UNCHANGED <<journalVars, writer, entryVars>>

JournalMain ==
  \/ ReadEntry \/ PushEntry \/ EndOfEntries \/ Terminate
  \/ Waited \/ Judge \/ FinishJournal

JournalNext ==
  \/ StartProcess \/ PublishProcess \/ CloseTerm \/ CloseKill
  \/ \E line \in MessageLengths \cup {Bad} : Prints(line)
  \/ WantsToComplain \/ Complain \/ (\E ok \in BOOLEAN : Exit(ok)) \/ Die
  \/ ReadStderr \/ StderrSent \/ Reap \/ GraceOver \/ JournalMain
============================================================================
