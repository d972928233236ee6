--------------------------- MODULE ExecRunnerProofs ---------------------------
(***************************************************************************)
(* Proofs about runExec for any exit codes, capacities and amount of       *)
(* output: what it returns agrees with what became of the child, the       *)
(* output and the sink, whichever of them ended first.                     *)
(***************************************************************************)
EXTENDS ExecRunner, TLAPS

(***************************************************************************)
(* The inductive invariant, in parts.                                      *)
(***************************************************************************)

\* Until the child has been started there is nothing but the pipe.
NothingYet ==
  pc = "start" => alive = {} /\ holders = {Parent} /\ status = "none"

\* What runExec knows of the writer where it is: before it was started, while it
\* waits for one of the two, and once it has its result.
WriterKnown ==
  /\ pc \in {"start", "closing", "pipeline"} => writer = "off" /\ result = "none"
  /\ pc \in {"select", "drain", "drained"} => writer # "off" /\ result = "none"
  /\ pc \in {"await", "awaitKilled"} =>
       <<result, writer>> \in {<<"setup", "off">>, <<"sink", "err">>, <<"none", "nil">>}
  /\ pc = "returned" =>
       \/ <<result, writer>> \in {<<"setup", "off">>, <<"sink", "err">>}
       \/ result \in Statuses /\ writer = "nil"

\* What it knows of the child.
ChildKnown ==
  /\ childDone # "empty" => status # "none"
  /\ pc \in {"drain", "drained"} => childDone = "taken"
  /\ pc = "returned" => Child \notin alive /\ (status # "none" => childDone = "taken")

\* A writer that has returned has seen the queue closed; without an error it has
\* left nothing in it.
WriterDone ==
  /\ writer = "off" => ~ended
  /\ writer \in {"err", "nil"} => ended
  /\ writer = "nil" => Between = 0

\* The stream has come to its end because nobody can write to it any more, or
\* because the reader was closed: by an error of the sink, or by the drain timeout,
\* which is when the diagnostic is pushed.
EndKnown ==
  /\ pc \in {"start", "closing", "pipeline"} => readable
  /\ diagnostic # "none" => pc \in {"drained", "returned"}
  /\ writer \in {"running", "reporting"} /\ ~readable => diagnostic # "none"
  /\ ended => writer = "err" \/ diagnostic # "none" \/ (holders = {} /\ InPipe = 0)

\* No piece is counted before the one that comes before it.
Counts == read - delivered \in 0..Capacity

\* The second half of ChildHandled.
SignalledForCause ==
  Child \in termed \cup killed =>
    asked \/ result = "setup" \/ writer \in {"reporting", "err"} \/ Child \notin holders

ExecInv ==
  /\ TypeOK /\ NothingYet /\ WriterKnown /\ ChildKnown
  /\ WriterDone /\ EndKnown /\ Counts /\ SignalledForCause
--------------------------------------------------------------------------------
LEMMA ExecInit == Init => ExecInv
  <1> SUFFICES ASSUME Init PROVE ExecInv
    OBVIOUS
  <1>1. TypeOK
    <2>1. InPipe = 0 /\ Between = 0
      BY DEF Init, InPipe, Between
    <2>2. {ended, cancelled, asked} \subseteq BOOLEAN
      BY Zenon DEF Init
    <2>3. {written, read, delivered} \subseteq 0..OutputBound
      BY ExecAssumption DEF Init
    <2> QED BY ExecAssumption, <2>1, <2>2, <2>3 DEF Init, TypeOK
  <1>2. NothingYet /\ WriterKnown /\ ChildKnown /\ WriterDone
    BY DEF Init, NothingYet, WriterKnown, ChildKnown, WriterDone
  <1>3. EndKnown /\ Counts /\ SignalledForCause
    BY ExecAssumption DEF Init, EndKnown, Counts, SignalledForCause
  <1> QED BY <1>1, <1>2, <1>3 DEF ExecInv

(***************************************************************************)
(* The processes: what they do changes nothing of what runExec knows of    *)
(* the writer, and once nobody holds the pipe nobody ever will.            *)
(***************************************************************************)
LEMMA ProcessKeeps == ExecInv /\ ProcessStep => ExecInv'
  <1> SUFFICES ASSUME ExecInv, ProcessStep PROVE ExecInv'
    OBVIOUS
  <1> USE ExecAssumption DEF ExecInv, TypeOK, NothingYet, WriterKnown, ChildKnown, WriterDone,
    EndKnown, Counts, SignalledForCause, InPipe, Between, Statuses, Signals, Processes, Child,
    Descendant, Parent,
    processVars, pipelineVars, runVars
  <1>1. CASE Fork
    BY <1>1 DEF Fork
  <1>2. CASE LeaveGroup
    BY <1>2 DEF LeaveGroup
  <1>3. CASE \E p \in Processes : Output(p)
    BY <1>3 DEF Output
  <1>4. CASE \E p \in Processes : CloseOutput(p)
    BY <1>4 DEF CloseOutput
  <1>5. CASE \E p \in Processes : Exit(p)
    BY <1>5 DEF Exit, Ends
  <1>6. CASE \E p \in Processes : DieOfTerm(p)
    BY <1>6 DEF DieOfTerm, Ends
  <1>7. CASE \E p \in Processes : DieOfKill(p)
    BY <1>7 DEF DieOfKill, Ends
  <1>8. CASE \E p \in Processes : DieOfPipe(p)
    BY <1>8 DEF DieOfPipe, Ends
  <1> QED BY <1>1, <1>2, <1>3, <1>4, <1>5, <1>6, <1>7, <1>8 DEF ProcessStep

(***************************************************************************)
(* The pipeline: the stream ends for a reason, and a writer that ends has  *)
(* emptied what is behind the pipe.                                        *)
(***************************************************************************)
LEMMA PipelineKeeps == ExecInv /\ (Pipeline \/ WriterFails) => ExecInv'
  <1> SUFFICES ASSUME ExecInv, Pipeline \/ WriterFails PROVE ExecInv'
    OBVIOUS
  <1> USE ExecAssumption DEF ExecInv, TypeOK, NothingYet, WriterKnown, ChildKnown, WriterDone,
    EndKnown, Counts, SignalledForCause, InPipe, Between, Statuses, Signals, Processes, Child,
    Descendant, Parent,
    processVars, pipelineVars, runVars
  <1>1. CASE ReadPipe
    BY <1>1 DEF ReadPipe
  <1>2. CASE StreamEnds
    BY <1>2 DEF StreamEnds
  <1>3. CASE WriteRecord
    BY <1>3 DEF WriteRecord
  <1>4. CASE Report
    <2>1. TypeOK'
      <3>2. /\ alive' \subseteq Processes /\ {group', termed', killed'} \subseteq SUBSET alive'
            /\ holders' \subseteq alive' \cup {Parent} /\ (status' # "none" => Child \notin alive')
        BY <1>4 DEF Report, CancelChild, Terminate
      <3>3. {ended', cancelled', asked'} \subseteq BOOLEAN
        BY <1>4 DEF Report, CancelChild, Terminate
      <3> QED BY <1>4, <3>2, <3>3 DEF Report, CancelChild, Terminate
    <2>2. NothingYet' /\ WriterKnown' /\ ChildKnown' /\ WriterDone'
      BY <1>4 DEF Report, CancelChild, Terminate
    <2>3. EndKnown' /\ Counts' /\ SignalledForCause'
      BY <1>4 DEF Report, CancelChild, Terminate
    <2> QED BY <2>1, <2>2, <2>3
  <1>5. CASE WriterEnds
    BY <1>5 DEF WriterEnds
  <1>6. CASE WriterFails
    BY <1>6 DEF WriterFails
  <1> QED BY <1>1, <1>2, <1>3, <1>4, <1>5, <1>6 DEF Pipeline

(***************************************************************************)
(* The goroutine that waits for the child, the set-up, and forwarded       *)
(* signals.                                                                *)
(***************************************************************************)
LEMMA SetupKeeps ==
  ExecInv /\ (Reap \/ SetupFails \/ Start \/ SetupFailsLate \/ ForwardSignal) => ExecInv'
  <1> SUFFICES ASSUME ExecInv, Reap \/ SetupFails \/ Start \/ SetupFailsLate \/ ForwardSignal
               PROVE  ExecInv'
    OBVIOUS
  <1> USE ExecAssumption DEF ExecInv, TypeOK, NothingYet, WriterKnown, ChildKnown, WriterDone,
    EndKnown, Counts, SignalledForCause, InPipe, Between, Statuses, Signals, Processes, Child,
    Descendant, Parent,
    processVars, pipelineVars, runVars
  <1>1. CASE Reap
    BY <1>1 DEF Reap
  <1>2. CASE SetupFails
    BY <1>2 DEF SetupFails, Return
  <1>3. CASE Start
    <2>1. TypeOK'
      <3>1. termed' = {} /\ killed' = {}
        BY <1>3 DEF Start
      <3>2. /\ alive' \subseteq Processes /\ {group', termed', killed'} \subseteq SUBSET alive'
            /\ holders' \subseteq alive' \cup {Parent} /\ (status' # "none" => Child \notin alive')
        BY <1>3, <3>1 DEF Start
      <3>3. {ended', cancelled', asked'} \subseteq BOOLEAN
        BY <1>3 DEF Start
      <3> QED BY <1>3, <3>2, <3>3 DEF Start
    <2>2. NothingYet' /\ WriterKnown' /\ ChildKnown' /\ WriterDone'
      BY <1>3 DEF Start
    <2>3. EndKnown' /\ Counts' /\ SignalledForCause'
      BY <1>3 DEF Start
    <2> QED BY <2>1, <2>2, <2>3
  <1>4. CASE SetupFailsLate
    <2>1. TypeOK'
      <3>2. /\ alive' \subseteq Processes /\ {group', termed', killed'} \subseteq SUBSET alive'
            /\ holders' \subseteq alive' \cup {Parent} /\ (status' # "none" => Child \notin alive')
        BY <1>4 DEF SetupFailsLate, CancelChild, Terminate
      <3>3. {ended', cancelled', asked'} \subseteq BOOLEAN
        BY <1>4 DEF SetupFailsLate, CancelChild, Terminate
      <3> QED BY <1>4, <3>2, <3>3 DEF SetupFailsLate, CancelChild, Terminate
    <2>2. NothingYet' /\ WriterKnown' /\ ChildKnown' /\ WriterDone'
      BY <1>4 DEF SetupFailsLate, CancelChild, Terminate
    <2>3. EndKnown' /\ Counts' /\ SignalledForCause'
      BY <1>4 DEF SetupFailsLate, CancelChild, Terminate
    <2> QED BY <2>1, <2>2, <2>3
  <1>5. CASE ForwardSignal
    BY <1>5 DEF ForwardSignal, Terminate
  <1> QED BY <1>1, <1>2, <1>3, <1>4, <1>5

(***************************************************************************)
(* runExec once the child runs.                                            *)
(***************************************************************************)
LEMMA RunExecKeeps == ExecInv /\ RunExec => ExecInv'
  <1> SUFFICES ASSUME ExecInv, RunExec PROVE ExecInv'
    OBVIOUS
  <1> USE ExecAssumption DEF ExecInv, TypeOK, NothingYet, WriterKnown, ChildKnown, WriterDone,
    EndKnown, Counts, SignalledForCause, InPipe, Between, Statuses, Signals, Processes, Child,
    Descendant, Parent,
    processVars, pipelineVars, runVars
  <1>1. CASE CloseParentWriter
    BY <1>1 DEF CloseParentWriter
  <1>2. CASE StartPipeline
    BY <1>2 DEF StartPipeline
  <1>3. CASE WriterFirst
    <2>1. TypeOK'
      <3>2. /\ alive' \subseteq Processes /\ {group', termed', killed'} \subseteq SUBSET alive'
            /\ holders' \subseteq alive' \cup {Parent} /\ (status' # "none" => Child \notin alive')
        BY <1>3 DEF WriterFirst, CancelChild, Terminate
      <3>3. {ended', cancelled', asked'} \subseteq BOOLEAN
        BY <1>3 DEF WriterFirst, CancelChild, Terminate
      <3> QED BY <1>3, <3>2, <3>3 DEF WriterFirst, CancelChild, Terminate
    <2>2. NothingYet' /\ WriterKnown' /\ ChildKnown' /\ WriterDone'
      BY <1>3 DEF WriterFirst, CancelChild, Terminate
    <2>3. EndKnown' /\ Counts' /\ SignalledForCause'
      BY <1>3 DEF WriterFirst, CancelChild, Terminate
    <2> QED BY <2>1, <2>2, <2>3
  <1>4. CASE KillChild
    BY <1>4 DEF KillChild, ForceKill
  <1>5. CASE ChildAfterCancel
    BY <1>5 DEF ChildAfterCancel, Return
  <1>6. CASE ChildFirst
    BY <1>6 DEF ChildFirst
  <1>7. CASE WriterAfterChild
    BY <1>7 DEF WriterAfterChild, Return
  <1>8. CASE DrainTimeout
    <2>1. TypeOK'
      <3>2. /\ alive' \subseteq Processes /\ {group', termed', killed'} \subseteq SUBSET alive'
            /\ holders' \subseteq alive' \cup {Parent} /\ (status' # "none" => Child \notin alive')
        BY <1>8 DEF DrainTimeout, PushDiagnostic
      <3>3. {ended', cancelled', asked'} \subseteq BOOLEAN
        BY <1>8 DEF DrainTimeout, PushDiagnostic
      <3>4. /\ Between' \in 0..Capacity + 1 /\ InPipe' \in 0..PipeCapacity
            /\ {written', read', delivered'} \subseteq 0..OutputBound
        BY <1>8 DEF DrainTimeout, PushDiagnostic
      <3>5. /\ diagnostic' \in {"queued", "dropped"}
            /\ result' \in Statuses \cup {"none", "setup", "sink"}
            /\ status' \in Statuses \cup {"none"}
        BY <1>8 DEF DrainTimeout, PushDiagnostic
      <3> QED BY <1>8, <3>2, <3>3, <3>4, <3>5 DEF DrainTimeout, PushDiagnostic
    <2>2. NothingYet' /\ WriterKnown' /\ ChildKnown' /\ WriterDone'
      BY <1>8 DEF DrainTimeout, PushDiagnostic
    <2>3. EndKnown' /\ Counts' /\ SignalledForCause'
      BY <1>8 DEF DrainTimeout, PushDiagnostic
    <2> QED BY <2>1, <2>2, <2>3
  <1> QED BY <1>1, <1>2, <1>3, <1>4, <1>5, <1>6, <1>7, <1>8 DEF RunExec

LEMMA ExecStep == ExecInv /\ [Next]_vars => ExecInv'
  <1> SUFFICES ASSUME ExecInv, [Next]_vars PROVE ExecInv'
    OBVIOUS
  <1>1. CASE UNCHANGED vars
    BY <1>1 DEF ExecInv, TypeOK, NothingYet, WriterKnown, ChildKnown, WriterDone, EndKnown, Counts,
      SignalledForCause, InPipe, Between, vars, processVars, pipelineVars, runVars
  <1> QED BY <1>1, ProcessKeeps, PipelineKeeps, SetupKeeps, RunExecKeeps DEF Next, Returned
----------------------------------------------------------------------------
(***************************************************************************)
(* Every variable keeps to its type, and what runExec knows of child,      *)
(* writer and stream is so wherever it is.                                 *)
(***************************************************************************)
THEOREM ExecInvariant == Spec => []ExecInv
  BY ExecInit, ExecStep, PTL DEF Spec

(***************************************************************************)
(* When runExec returns the child's status, everything read from the pipe  *)
(* is in the sink, and everything written unless the drain timeout fired,  *)
(* for any capacities and any amount of output.                            *)
(***************************************************************************)
THEOREM ReadIsDelivered == Spec => []OutputDelivered
  <1>1. ExecInv => OutputDelivered
    <2> SUFFICES ASSUME ExecInv, pc = "returned", result \in Statuses
                 PROVE  /\ delivered = read /\ diagnostic # "queued"
                        /\ InPipe = 0 \/ diagnostic # "none"
      BY DEF OutputDelivered, ExecInv
    <2>1. writer = "nil"
      BY ExecAssumption DEF ExecInv, WriterKnown, Statuses, Signals
    <2>2. ended /\ Between = 0
      BY <2>1 DEF ExecInv, WriterDone
    <2>3. read - delivered \in Nat
      BY ExecAssumption DEF ExecInv, Counts
    <2>4. delivered = read /\ diagnostic # "queued"
      BY <2>2, <2>3 DEF Between, ExecInv, TypeOK
    <2> QED BY <2>1, <2>2, <2>4 DEF ExecInv, EndKnown
  <1> QED BY <1>1, ExecInvariant, PTL

(***************************************************************************)
(* runExec returns a sink error if and only if the writer ended with one,  *)
(* whether the child or the writer ended first.                            *)
(***************************************************************************)
THEOREM SinkErrorComesOut == Spec => []SinkErrorReported
  <1>1. ExecInv => SinkErrorReported
    BY ExecAssumption DEF ExecInv, WriterKnown, SinkErrorReported, Statuses, Signals
  <1> QED BY <1>1, ExecInvariant, PTL

(***************************************************************************)
(* No path of runExec leaves the child running or unwaited for, and none   *)
(* signals it without a cause.                                             *)
(***************************************************************************)
THEOREM NoChildLeftBehind == Spec => []ChildHandled
  <1>1. ExecInv => ChildHandled
    BY DEF ExecInv, ChildKnown, SignalledForCause, ChildHandled
  <1> QED BY <1>1, ExecInvariant, PTL
================================================================================
