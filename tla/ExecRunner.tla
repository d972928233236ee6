------------------------------ MODULE ExecRunner ------------------------------
(***************************************************************************)
(* runExec (runner.go) with the processes it runs, the pipe they share and *)
(* the pipeline that reads it.                                             *)
(*                                                                         *)
(* The child may start another process, which inherits the pipe and may    *)
(* outlive it.  Processes write, close their output, exit, leave the       *)
(* process group and heed or ignore SIGTERM as they like.  The pipeline is *)
(* what modules Framer, Queue and Writer promise of it: what is read from  *)
(* the pipe is written to the sink in order, the end of the stream closes  *)
(* the queue, and a sink error ends the writer at any of its calls.        *)
(*                                                                         *)
(* Output is a number of pieces.  Timers may fire at any moment.           *)
(***************************************************************************)
EXTENDS Integers, FiniteSets

CONSTANTS
  Codes,        \* exit codes of the child
  PipeCapacity, \* pieces the pipe holds
  Capacity,     \* pieces between the pipe and the sink: chunks and queue
  OutputBound   \* bound: pieces written by the processes

ASSUME ExecAssumption ==
  /\ Codes \cap {"SIGTERM", "SIGKILL", "SIGPIPE", "none", "setup", "sink"} = {}
  /\ {PipeCapacity, Capacity} \subseteq Nat \ {0}
  /\ OutputBound \in Nat

Child == "child"
Descendant == "descendant"
Parent == "parent"
Processes == {Child, Descendant}

\* What cmd.Wait can report; exitCodeFromError makes 128 + n of a signal n.
Signals == {"SIGTERM", "SIGKILL", "SIGPIPE"}
Statuses == Codes \cup Signals

VARIABLES
  config,     \* which of TerminationTimeout and PostExitDrainTimeout are not 0
  \* the processes and the pipe
  alive,      \* processes that run
  group,      \* processes in the child's process group
  termed,     \* processes that got SIGTERM
  killed,     \* processes that got SIGKILL
  status,     \* how the child ended, or "none"
  holders,    \* who has the pipe's write end open
  readable,   \* capture.Reader is open
  written, read, delivered, \* pieces put into the pipe, taken out, in the sink
  \* the goroutines
  pc,         \* runExec
  childDone,  \* the channel: "empty", "full", or "taken"
  writer,     \* the pipeline: "off", "running", "reporting", "err", or "nil"
  ended,      \* the framer has closed the queue
  cancelled,  \* cancelOnce is used up
  diagnostic, \* "none", "queued", "written", or "dropped"
  result,     \* what runExec returns
  asked       \* history: logsurge got a signal, which it forwarded

processVars == <<alive, group, termed, killed, status, holders>>
pipelineVars == <<readable, written, read, delivered, writer, ended, diagnostic>>
runVars == <<pc, childDone, cancelled, result>>
vars == <<config, processVars, pipelineVars, runVars, asked>>

Init ==
  /\ config \in [termination : BOOLEAN, drain : BOOLEAN]
  /\ alive = {} /\ group = {} /\ termed = {} /\ killed = {} /\ status = "none"
  /\ holders = {Parent} /\ readable = TRUE
  /\ written = 0 /\ read = 0 /\ delivered = 0
  /\ pc = "start" /\ childDone = "empty" /\ writer = "off" /\ ended = FALSE
  /\ cancelled = FALSE /\ diagnostic = "none" /\ result = "none" /\ asked = FALSE

InPipe == written - read
Between == (read - delivered) + (IF diagnostic = "queued" THEN 1 ELSE 0)
----------------------------------------------------------------------------
\* The processes.
Fork ==
  /\ Child \in alive /\ Descendant \notin alive
  /\ alive' = alive \cup {Descendant}
  /\ group' = group \cup {Descendant}
  /\ holders' = IF Child \in holders THEN holders \cup {Descendant} ELSE holders
  /\ UNCHANGED <<config, termed, killed, status, pipelineVars, runVars, asked>>

LeaveGroup ==
  /\ Descendant \in alive \cap group
  /\ group' = group \ {Descendant}
  /\ UNCHANGED <<config, alive, termed, killed, status, holders, pipelineVars, runVars, asked>>

Output(p) ==
  /\ p \in alive \cap holders /\ readable
  /\ written < OutputBound /\ InPipe < PipeCapacity
  /\ written' = written + 1
  /\ UNCHANGED <<config, processVars, readable, read, delivered, writer, ended, diagnostic,
                 runVars, asked>>

CloseOutput(p) ==
  /\ p \in alive \cap holders
  /\ holders' = holders \ {p}
  /\ UNCHANGED <<config, alive, group, termed, killed, status, pipelineVars, runVars, asked>>

Ends(p, how) ==
  /\ alive' = alive \ {p} /\ holders' = holders \ {p} /\ group' = group \ {p}
  /\ termed' = termed \ {p} /\ killed' = killed \ {p}
  /\ status' = IF p = Child THEN how ELSE status
  /\ UNCHANGED <<config, pipelineVars, runVars, asked>>

Exit(p) == p \in alive /\ \E code \in Codes : Ends(p, code)
DieOfTerm(p) == p \in alive \cap termed /\ Ends(p, "SIGTERM")
DieOfKill(p) == p \in alive \cap killed /\ Ends(p, "SIGKILL")
DieOfPipe(p) == p \in alive \cap holders /\ ~readable /\ Ends(p, "SIGPIPE")

ProcessStep ==
  \/ Fork \/ LeaveGroup
  \/ \E p \in Processes :
       Output(p) \/ CloseOutput(p) \/ Exit(p) \/ DieOfTerm(p) \/ DieOfKill(p) \/ DieOfPipe(p)

\* requestTerminateProcess and forceKillProcess signal the group.
Terminate == termed' = termed \cup (group \cap alive)
ForceKill == killed' = killed \cup (group \cap alive)
\* cancelChild.
CancelChild ==
  /\ cancelled' = TRUE
  /\ IF cancelled THEN UNCHANGED termed ELSE Terminate
----------------------------------------------------------------------------
\* The pipeline.
\* The read goroutine and the framer take what the pipe holds.
ReadPipe ==
  /\ writer # "off" /\ ~ended /\ readable
  /\ InPipe > 0 /\ Between < Capacity
  /\ read' = read + 1
  /\ UNCHANGED <<config, processVars, readable, written, delivered, writer, ended, diagnostic,
                 runVars, asked>>

\* Mutant: a pipe that is empty for the moment is taken for its end.
StreamEnds_WhenEmpty ==
  /\ writer # "off" /\ ~ended
  /\ ~readable \/ InPipe = 0
  /\ ended' = TRUE
  /\ UNCHANGED <<config, processVars, readable, written, read, delivered, writer, diagnostic,
                 runVars, asked>>

\* End of file, or os.ErrClosed after capture.Reader.Close: both end the stream.
StreamEnds ==
  /\ writer # "off" /\ ~ended
  /\ ~readable \/ (InPipe = 0 /\ holders = {})
  /\ ended' = TRUE
  /\ UNCHANGED <<config, processVars, readable, written, read, delivered, writer, diagnostic,
                 runVars, asked>>

WriteRecord ==
  /\ writer = "running"
  /\ \/ /\ delivered < read /\ delivered' = delivered + 1 /\ UNCHANGED diagnostic
     \/ /\ delivered = read /\ diagnostic = "queued" /\ diagnostic' = "written"
        /\ UNCHANGED delivered
  /\ UNCHANGED <<config, processVars, readable, written, read, writer, ended, runVars, asked>>

\* A call of the sink fails; report runs onError, and only then closes the queue.
WriterFails ==
  /\ writer = "running"
  /\ writer' = "reporting"
  /\ UNCHANGED <<config, processVars, readable, written, read, delivered, ended, diagnostic,
                 runVars, asked>>

\* onError of runExec; with the queue closed the framer ends as well.
Report ==
  /\ writer = "reporting"
  /\ CancelChild
  /\ readable' = FALSE /\ writer' = "err" /\ ended' = TRUE
  /\ UNCHANGED <<config, alive, group, killed, status, holders, written, read, delivered,
                 diagnostic, pc, childDone, result, asked>>

WriterEnds ==
  /\ writer = "running" /\ ended /\ Between = 0
  /\ writer' = "nil"
  /\ UNCHANGED <<config, processVars, readable, written, read, delivered, ended, diagnostic,
                 runVars, asked>>

Pipeline == ReadPipe \/ StreamEnds \/ WriteRecord \/ Report \/ WriterEnds

\* The goroutine that waits for the child.
Reap ==
  /\ status # "none" /\ childDone = "empty"
  /\ childDone' = "full"
  /\ UNCHANGED <<config, processVars, pipelineVars, pc, cancelled, result, asked>>
----------------------------------------------------------------------------
\* runExec.  Every return closes what is open of the pipe (defer capture.Close).
Return(outcome) == pc' = "returned" /\ result' = outcome /\ readable' = FALSE

SetupFails ==
  /\ pc = "start"
  /\ Return("setup")
  /\ holders' = {}
  /\ UNCHANGED <<config, alive, group, termed, killed, status, written, read, delivered, writer,
                 ended, diagnostic, childDone, cancelled, asked>>

Start ==
  /\ pc = "start"
  /\ pc' = "closing"
  /\ alive' = {Child} /\ group' = {Child} /\ holders' = holders \cup {Child}
  /\ UNCHANGED <<config, termed, killed, status, pipelineVars, childDone, cancelled, result, asked>>

CloseParentWriter ==
  /\ pc = "closing" /\ pc' = "pipeline"
  /\ holders' = holders \ {Parent}
  /\ UNCHANGED <<config, alive, group, termed, killed, status, pipelineVars, childDone, cancelled,
                 result, asked>>

\* CloseParentWriter or startPipeline fails: the child that runs is ended.
SetupFailsLate ==
  /\ pc \in {"closing", "pipeline"} /\ pc' = "await"
  /\ result' = "setup"
  /\ CancelChild
  /\ readable' = FALSE
  /\ UNCHANGED <<config, alive, group, killed, status, holders, written, read, delivered, writer,
                 ended, diagnostic, childDone, asked>>

StartPipeline ==
  /\ pc = "pipeline" /\ pc' = "select"
  /\ writer' = "running"
  /\ UNCHANGED <<config, processVars, readable, written, read, delivered, ended, diagnostic,
                 childDone, cancelled, result, asked>>

\* A signal to logsurge is forwarded until runExec returns.
ForwardSignal ==
  /\ pc \in {"select", "await", "awaitKilled", "drain", "drained"} /\ writer # "off"
  /\ asked' = TRUE
  /\ Terminate
  /\ UNCHANGED <<config, alive, group, killed, status, holders, pipelineVars, runVars>>
----------------------------------------------------------------------------
\* select: the writer is done first.
WriterFirst ==
  /\ pc = "select" /\ writer \in {"err", "nil"}
  /\ pc' = "await"
  /\ result' = IF writer = "err" THEN "sink" ELSE result
  /\ CancelChild
  /\ readable' = FALSE
  /\ UNCHANGED <<config, alive, group, killed, status, holders, written, read, delivered, writer, ended,
                 diagnostic, childDone, asked>>

\* waitForChildAfterCancel: without a timeout the child is killed at once.
\* Mutant: the timer's case returns without killing and waiting.
KillChild_NoWait ==
  /\ pc = "await"
  /\ Return(IF result = "none" THEN "SIGKILL" ELSE result)
  /\ ForceKill
  /\ UNCHANGED <<config, alive, group, termed, status, holders, written, read, delivered, writer,
                 ended, diagnostic, childDone, cancelled, asked>>

KillChild ==
  /\ pc = "await"
  /\ pc' = "awaitKilled"
  /\ ForceKill
  /\ UNCHANGED <<config, alive, group, termed, status, holders, pipelineVars, childDone, cancelled,
                 result, asked>>

\* childDone is received: a setup or sink error comes before the child's status.
ChildAfterCancel ==
  /\ \/ pc = "await" /\ config.termination
     \/ pc = "awaitKilled"
  /\ childDone = "full" /\ childDone' = "taken"
  /\ Return(IF result = "none" THEN status ELSE result)
  /\ UNCHANGED <<config, processVars, written, read, delivered, writer, ended, diagnostic, cancelled,
                 asked>>

\* select: the child is done first.
ChildFirst ==
  /\ pc = "select" /\ childDone = "full"
  /\ pc' = "drain" /\ childDone' = "taken"
  /\ UNCHANGED <<config, processVars, pipelineVars, cancelled, result, asked>>

\* waitForWriterAfterChild: the writer ends, before the timer or after it.
\* Mutant: the child's status comes before the writer's error.
WriterAfterChild_ChildWins ==
  /\ pc \in {"drain", "drained"} /\ writer \in {"err", "nil"}
  /\ Return(status)
  /\ UNCHANGED <<config, processVars, written, read, delivered, writer, ended, diagnostic,
                 childDone, cancelled, asked>>

WriterAfterChild ==
  /\ pc \in {"drain", "drained"} /\ writer \in {"err", "nil"}
  /\ Return(IF writer = "err" THEN "sink" ELSE status)
  /\ UNCHANGED <<config, processVars, written, read, delivered, writer, ended, diagnostic,
                 childDone, cancelled, asked>>

\* PushInternal drops the diagnostic when the queue has no room for it, which
\* depends on how much of what is between pipe and sink is in the queue.
PushDiagnostic ==
  /\ diagnostic' \in {"queued", "dropped"}
  /\ ended => diagnostic' = "dropped"
  /\ ~ended /\ Between = 0 => diagnostic' = "queued"

\* The timer.  Mutant: the pipe is left open.
DrainTimeout_NoClose ==
  /\ pc = "drain" /\ config.drain
  /\ pc' = "drained"
  /\ PushDiagnostic
  /\ UNCHANGED <<config, processVars, readable, written, read, delivered, writer, ended, childDone,
                 cancelled, result, asked>>

DrainTimeout ==
  /\ pc = "drain" /\ config.drain
  /\ pc' = "drained"
  /\ PushDiagnostic
  /\ readable' = FALSE
  /\ UNCHANGED <<config, processVars, written, read, delivered, writer, ended, childDone, cancelled,
                 result, asked>>

\* Run makes the exit status of the result, and nothing more happens in logsurge;
\* the processes that are left may go on.
Returned == pc = "returned" /\ UNCHANGED vars

RunExec ==
  \/ CloseParentWriter \/ StartPipeline \/ WriterFirst \/ KillChild \/ ChildAfterCancel
  \/ ChildFirst \/ WriterAfterChild \/ DrainTimeout

Next ==
  \/ ProcessStep \/ Pipeline \/ WriterFails \/ Reap
  \/ SetupFails \/ Start \/ SetupFailsLate \/ ForwardSignal \/ RunExec \/ Returned

Spec == Init /\ [][Next]_vars

\* The goroutines run on, timers fire and a kill is carried out; nothing is
\* assumed of processes that are not killed, or of the sink's errors.
FairSpec ==
  /\ Spec
  /\ WF_vars(Pipeline) /\ WF_vars(Reap) /\ WF_vars(RunExec)
  /\ \A p \in Processes : WF_vars(DieOfKill(p))
----------------------------------------------------------------------------
\* Every variable keeps to its type, and the processes, pipe and counts of
\* pieces to one another.
TypeOK ==
  /\ config \in [termination : BOOLEAN, drain : BOOLEAN]
  /\ alive \subseteq Processes /\ {group, termed, killed} \subseteq SUBSET alive
  /\ status \in Statuses \cup {"none"} /\ (status # "none" => Child \notin alive)
  /\ holders \subseteq alive \cup {Parent} /\ readable \in BOOLEAN
  /\ {written, read, delivered} \subseteq 0..OutputBound
  /\ InPipe \in 0..PipeCapacity /\ Between \in 0..Capacity + 1
  /\ pc \in {"start", "closing", "pipeline", "select", "await", "awaitKilled", "drain", "drained",
            "returned"}
  /\ childDone \in {"empty", "full", "taken"}
  /\ writer \in {"off", "running", "reporting", "err", "nil"}
  /\ {ended, cancelled, asked} \subseteq BOOLEAN
  /\ diagnostic \in {"none", "queued", "written", "dropped"}
  /\ result \in Statuses \cup {"none", "setup", "sink"}

\* When runExec returns the child's status, everything read from the pipe, the
\* diagnostic included, is in the sink, and everything the processes wrote, unless
\* the drain timeout cut the descendants off.  TypeOK keeps the counts in step.
OutputDelivered ==
  /\ TypeOK
  /\ pc = "returned" /\ result \in Statuses =>
       /\ delivered = read /\ diagnostic # "queued"
       /\ InPipe = 0 \/ diagnostic # "none"

\* Whichever of child and writer ends first, a sink error is what runExec returns.
SinkErrorReported ==
  pc = "returned" => (result = "sink" <=> writer = "err")

\* runExec returns on no path before the child it started has ended and has been
\* waited for.  The child is signalled only because somebody asked for it, because
\* the set-up or the sink failed, or when it has no output any more.
ChildHandled ==
  /\ pc = "returned" => Child \notin alive /\ (status # "none" => childDone = "taken")
  /\ Child \in termed \cup killed =>
       asked \/ result = "setup" \/ writer \in {"reporting", "err"} \/ Child \notin holders

\* A failed sink, a child that has ended and a stream that nobody can write to any
\* more each end runExec, whatever the processes do: one that ignores SIGTERM is
\* killed, one that keeps the pipe open is cut off, if there is a drain timeout.
RunEnds ==
  /\ writer = "reporting" ~> pc = "returned"
  /\ (status # "none" /\ config.drain) ~> pc = "returned"
  /\ (pc # "start" /\ holders \subseteq {Parent}) ~> pc = "returned"

\* README: "the child exit code is propagated".  It is not when the child closes
\* its output before it exits: the end of the stream has it terminated.
ExitCodePropagated ==
  pc = "returned" /\ result \in Statuses /\ ~asked => result \in Codes
=============================================================================
