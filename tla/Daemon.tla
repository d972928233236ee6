-------------------------------- MODULE Daemon --------------------------------
(***************************************************************************)
(* runConfigMode (runner.go): several inputs, each with its source, queue  *)
(* and writer, one sink behind lockedSink, and stopAll, which a signal, a  *)
(* sink error, a source error or an input that cannot be started may call, *)
(* once, while inputs are still being started.                             *)
(*                                                                         *)
(* The sources (source_file.go, source_network.go, source_journal.go) are  *)
(* seen from outside: Start, Close, and the end of their goroutine.  The   *)
(* two steps of Start, to open and to publish what was opened, are kept    *)
(* apart, for the input's writer runs before them.  Records are left out:  *)
(* a writer ends when its queue is closed, or with an error at any time.   *)
(***************************************************************************)
EXTENDS Integers, FiniteSets

CONSTANT InputCount

ASSUME DaemonAssumption == InputCount \in Nat \ {0}

Inputs == 1..InputCount
Kinds == {"file", "network", "journal"}

VARIABLES
  kind,      \* of each input
  \* runConfigMode
  main,      \* where it is
  at,        \* the input it starts
  closers,   \* registered sources
  received,  \* inputs whose end it has received
  firstErr,  \* firstErr, or the error of an input that could not be started
  sink,      \* the raw sink: "open" or "closed"
  \* stopAll
  once,      \* closeOnce: "unused", "running", or "used"
  remaining, \* closers closeAll has not come to
  signal,    \* the signal goroutine: "idle" or "stopping"
  \* per input
  source,    \* "none", "opened", "running", or "ended"
  closed,    \* the source's closed flag
  cut,       \* what the source reads was closed or terminated
  sourceEnd, \* sourceDone: "none", "nil" or "err"
  queue,     \* "open" or "closed"
  writers,   \* "off", "running", "reporting", "stopping", "err" or "nil"
  \* history
  early      \* stopAll ran before every input had been registered

mainVars == <<main, at, closers, received, firstErr, sink>>
stopVars == <<once, remaining, early>>
sourceVars == <<source, closed, cut, sourceEnd>>
inputVars == <<sourceVars, queue, writers>>
daemonVars == <<kind, mainVars, stopVars, signal, inputVars>>

DaemonInit ==
  /\ kind \in [Inputs -> Kinds]
  /\ main = "create" /\ at = 1 /\ closers = {} /\ received = {} /\ firstErr = "none"
  /\ sink = "open"
  /\ once = "unused" /\ remaining = {} /\ signal = "idle" /\ early = FALSE
  /\ source = [i \in Inputs |-> "none"]
  /\ closed = [i \in Inputs |-> FALSE] /\ cut = [i \in Inputs |-> FALSE]
  /\ sourceEnd = [i \in Inputs |-> "none"]
  /\ queue = [i \in Inputs |-> "open"]
  /\ writers = [i \in Inputs |-> "off"]

\* Mutant: only the source's error counts.
Outcome_SourceOnly(i) ==
  IF sourceEnd[i] = "none" \/ writers[i] \notin {"err", "nil"} THEN "none"
  ELSE IF sourceEnd[i] = "err" THEN "source" ELSE "nil"

\* Mutant: the writer of a network or journal input is not waited for.
Outcome_SourceFirst(i) ==
  IF kind[i] = "file" /\ writers[i] = "err" THEN "sink"
  ELSE IF sourceEnd[i] = "none" \/ (kind[i] = "file" /\ writers[i] \notin {"err", "nil"})
    THEN "none"
  ELSE IF sourceEnd[i] = "err" THEN "source"
  ELSE IF writers[i] = "err" THEN "sink" ELSE "nil"

\* What the goroutine that combines source and writer sends for input i, if it
\* can: for a file the writer's error first, otherwise the source's.
Outcome(i) ==
  IF kind[i] = "file" /\ writers[i] = "err" THEN "sink"
  ELSE IF sourceEnd[i] = "none" \/ writers[i] \notin {"err", "nil"} THEN "none"
  ELSE IF sourceEnd[i] = "err" THEN "source"
  ELSE IF writers[i] = "err" THEN "sink" ELSE "nil"
----------------------------------------------------------------------------
\* stopAll.  closeAll holds closersMu, so no input is registered meanwhile.
BeginStop ==
  IF once = "unused"
    THEN /\ once' = "running" /\ remaining' = closers
         /\ early' = (closers # Inputs)
    ELSE UNCHANGED stopVars

\* Close of a source.  What is not published yet is not closed.
CloseSource(i) ==
  /\ closed' = [closed EXCEPT ![i] = TRUE]
  /\ cut' = [cut EXCEPT ![i] = @ \/ (~closed[i] /\ source[i] = "running")]

CloseNext ==
  /\ once = "running" /\ remaining # {}
  /\ \E i \in remaining :
       /\ \A j \in remaining : i =< j
       /\ CloseSource(i)
       /\ remaining' = remaining \ {i}
  /\ UNCHANGED <<kind, mainVars, once, early, signal, source, sourceEnd, queue, writers>>

EndStop ==
  /\ once = "running" /\ remaining = {}
  /\ once' = "used"
  /\ UNCHANGED <<kind, mainVars, remaining, early, signal, inputVars>>

Signal ==
  /\ signal = "idle" /\ main # "returned"
  /\ signal' = "stopping"
  /\ BeginStop
  /\ UNCHANGED <<kind, mainVars, inputVars>>

SignalDone ==
  /\ signal = "stopping" /\ once = "used"
  /\ signal' = "idle"
  /\ UNCHANGED <<kind, mainVars, stopVars, inputVars>>
----------------------------------------------------------------------------
\* The sources.
SourceEnds(i, how) ==
  /\ source' = [source EXCEPT ![i] = "ended"]
  /\ sourceEnd' = [sourceEnd EXCEPT ![i] = how]
  /\ queue' = [queue EXCEPT ![i] = "closed"]
  /\ UNCHANGED <<kind, mainVars, stopVars, signal, closed, cut, writers>>

\* One fails: what a read or Accept reports once it is closed is no error, but a
\* file may meet a real one just before it looks.
SourceFails(i) ==
  /\ source[i] = "running"
  /\ \/ SourceEnds(i, IF closed[i] THEN "nil" ELSE "err")
     \/ closed[i] /\ kind[i] = "file" /\ SourceEnds(i, "err")

\* journalctl exits with status 0.
SourceStops(i) ==
  source[i] = "running" /\ kind[i] = "journal" /\ SourceEnds(i, "nil")

\* After Close the accept loop, the read loop or journalctl comes to its end.
SourceClosed(i) ==
  source[i] = "running" /\ cut[i] /\ SourceEnds(i, "nil")
----------------------------------------------------------------------------
\* The writers.
InputWriterFails(i) ==
  /\ writers[i] = "running"
  /\ writers' = [writers EXCEPT ![i] = "reporting"]
  /\ UNCHANGED <<kind, mainVars, stopVars, signal, sourceVars, queue>>

\* onError: a network or journal input closes its own source first.
WriterClosesSource(i) ==
  /\ writers[i] = "reporting"
  /\ writers' = [writers EXCEPT ![i] = "stopping"]
  /\ IF kind[i] = "file" THEN UNCHANGED <<closed, cut>> ELSE CloseSource(i)
  /\ UNCHANGED <<kind, mainVars, stopVars, signal, source, sourceEnd, queue>>

\* stopAll, which waits for whoever runs it already.
WriterStops(i) ==
  /\ writers[i] = "stopping"
  /\ IF once = "used"
       THEN /\ writers' = [writers EXCEPT ![i] = "err"]
            /\ queue' = [queue EXCEPT ![i] = "closed"]
       ELSE once = "unused" /\ UNCHANGED <<writers, queue>>
  /\ BeginStop
  /\ UNCHANGED <<kind, mainVars, signal, sourceVars>>

InputWriterEnds(i) ==
  /\ writers[i] = "running" /\ queue[i] = "closed"
  /\ writers' = [writers EXCEPT ![i] = "nil"]
  /\ UNCHANGED <<kind, mainVars, stopVars, signal, sourceVars, queue>>
----------------------------------------------------------------------------
\* runConfigMode: the inputs are started one after the other.  The writer runs
\* from here on; a file's source has nothing to publish.
Create ==
  /\ main = "create"
  /\ writers' = [writers EXCEPT ![at] = "running"]
  /\ IF kind[at] = "file"
       THEN source' = [source EXCEPT ![at] = "running"] /\ main' = "register"
       ELSE main' = "open" /\ UNCHANGED source
  /\ UNCHANGED <<kind, at, closers, received, firstErr, sink, stopVars, signal, closed, cut,
                 sourceEnd, queue>>

\* Start: net.Listen, net.ListenPacket, or cmd.Start.
Open ==
  /\ main = "open" /\ main' = "publish"
  /\ source' = [source EXCEPT ![at] = "opened"]
  /\ UNCHANGED <<kind, at, closers, received, firstErr, sink, stopVars, signal, closed, cut,
                 sourceEnd, queue, writers>>

OpenFails ==
  /\ main = "open" /\ main' = "stop"
  /\ firstErr' = "setup"
  /\ queue' = [queue EXCEPT ![at] = "closed"]
  /\ UNCHANGED <<kind, at, closers, received, sink, stopVars, signal, sourceVars, writers>>

Publish ==
  /\ main = "publish" /\ main' = "register"
  /\ source' = [source EXCEPT ![at] = "running"]
  /\ UNCHANGED <<kind, at, closers, received, firstErr, sink, stopVars, signal, closed, cut,
                 sourceEnd, queue, writers>>

Register ==
  /\ main = "register" /\ once # "running"
  /\ closers' = closers \cup {at}
  /\ IF at = InputCount THEN main' = "wait" /\ UNCHANGED at
                        ELSE main' = "create" /\ at' = at + 1
  /\ UNCHANGED <<kind, received, firstErr, sink, stopVars, signal, inputVars>>

\* Mutant: an error stops nobody.
Receive_NoStop(i) ==
  /\ main = "wait" /\ i \notin received /\ Outcome(i) # "none"
  /\ received' = received \cup {i}
  /\ IF Outcome(i) # "nil" /\ firstErr = "none"
       THEN firstErr' = Outcome(i)
       ELSE UNCHANGED firstErr
  /\ UNCHANGED <<kind, main, at, closers, sink, stopVars, signal, inputVars>>

Receive(i) ==
  /\ main = "wait" /\ i \notin received /\ Outcome(i) # "none"
  /\ received' = received \cup {i}
  /\ IF Outcome(i) # "nil" /\ firstErr = "none"
       THEN firstErr' = Outcome(i) /\ main' = "stop"
       ELSE UNCHANGED <<firstErr, main>>
  /\ UNCHANGED <<kind, at, closers, sink, stopVars, signal, inputVars>>

Stop ==
  /\ main = "stop"
  /\ IF once = "used"
       THEN main' = IF firstErr = "setup" THEN "close" ELSE "wait"
       ELSE once = "unused" /\ UNCHANGED main
  /\ BeginStop
  /\ UNCHANGED <<kind, at, closers, received, firstErr, sink, signal, inputVars>>

AllReceived ==
  /\ main = "wait" /\ received = Inputs
  /\ main' = "close"
  /\ UNCHANGED <<kind, at, closers, received, firstErr, sink, stopVars, signal, inputVars>>

\* The raw sink's Close, of which an error counts if there was none before.
CloseSink ==
  /\ main = "close" /\ main' = "returned"
  /\ sink' = "closed"
  /\ firstErr' \in {firstErr} \cup (IF firstErr = "none" THEN {"sink"} ELSE {})
  /\ UNCHANGED <<kind, at, closers, received, stopVars, signal, inputVars>>

\* The process ends with runConfigMode.
DaemonReturned == main = "returned" /\ UNCHANGED daemonVars

Starting == Create \/ Open \/ OpenFails \/ Publish \/ Register
Waiting == (\E i \in Inputs : Receive(i)) \/ Stop \/ AllReceived \/ CloseSink
Stopping == CloseNext \/ EndStop \/ SignalDone
Writing(i) == WriterClosesSource(i) \/ WriterStops(i) \/ InputWriterEnds(i)

DaemonNext ==
  \/ /\ main # "returned"
     /\ \/ Stopping \/ Signal \/ Starting \/ Waiting
        \/ \E i \in Inputs :
             \/ SourceFails(i) \/ SourceStops(i) \/ SourceClosed(i)
             \/ InputWriterFails(i) \/ Writing(i)
  \/ DaemonReturned

DaemonSpec == DaemonInit /\ [][DaemonNext]_daemonVars

\* The goroutines run on, and a source that was closed ends (journalctl is killed
\* if it must be); no signal, error or end of a source is assumed.
DaemonFairSpec ==
  /\ DaemonSpec
  /\ WF_daemonVars(Stopping) /\ WF_daemonVars(Starting) /\ WF_daemonVars(Waiting)
  /\ \A i \in Inputs : WF_daemonVars(SourceClosed(i)) /\ WF_daemonVars(Writing(i))
----------------------------------------------------------------------------
\* Every variable keeps to its type, and what has been registered, opened or
\* ended follows the order of runConfigMode.
DaemonTypeOK ==
  /\ kind \in [Inputs -> Kinds]
  /\ main \in {"create", "open", "publish", "register", "wait", "stop", "close", "returned"}
  /\ at \in Inputs /\ closers \in {1..at - 1, 1..at} /\ received \subseteq closers
  /\ firstErr \in {"none", "setup", "source", "sink"} /\ sink \in {"open", "closed"}
  /\ once \in {"unused", "running", "used"} /\ remaining \subseteq closers
  /\ signal \in {"idle", "stopping"} /\ early \in BOOLEAN
  /\ source \in [Inputs -> {"none", "opened", "running", "ended"}]
  /\ closed \in [Inputs -> BOOLEAN] /\ cut \in [Inputs -> BOOLEAN]
  /\ sourceEnd \in [Inputs -> {"none", "nil", "err"}]
  /\ queue \in [Inputs -> {"open", "closed"}]
  /\ writers \in [Inputs -> {"off", "running", "reporting", "stopping", "err", "nil"}]
  /\ \A i \in Inputs : (sourceEnd[i] # "none" <=> source[i] = "ended") /\ (cut[i] => closed[i])

\* However inputs end, and whichever of writer and source ends first, no error
\* that ended one is swallowed: runConfigMode returns nil only without any.
NoErrorSwallowed ==
  main = "returned" /\ firstErr = "none" =>
    \A i \in Inputs : writers[i] # "err" /\ sourceEnd[i] # "err"

\* sink_wrapper.go: only runConfigMode may close the sink after every input has
\* finished.  Every writer has returned and every source ended, except a file's
\* whose writer failed.  An input that cannot be started is another
\* matter: the writers of the inputs before it may still use the sink.  DaemonTypeOK
\* keeps what is registered, opened and ended in the order of runConfigMode.
SinkClosedLast ==
  /\ DaemonTypeOK
  /\ sink = "closed" /\ firstErr # "setup" =>
       \A i \in Inputs :
         \/ writers[i] \in {"err", "nil"} /\ source[i] = "ended"
         \/ writers[i] = "err" /\ kind[i] = "file"

\* The input was closed before it had published what there is to close.
ClosedTooSoon(i) == source[i] = "running" /\ closed[i] /\ ~cut[i]

ShutdownAsked ==
  /\ main = "wait" /\ ~early /\ \A i \in Inputs : ~ClosedTooSoon(i)
  /\ once # "unused" \/ \E i \in Inputs : writers[i] = "err" \/ sourceEnd[i] = "err"

\* Once all inputs run, a signal and the error that ends an input end the daemon:
\* every other input is closed and waited for, and the sink closed.
ShutdownCompletes == ShutdownAsked ~> main = "returned"

\* runner.go asks that a shutdown may be requested while inputs are still being
\* started.  It reaches the inputs registered by then only.
StopReachesAll == main = "wait" /\ once = "used" => \A i \in Inputs : closed[i]
=============================================================================
