------------------------------- MODULE Runner -------------------------------
(***************************************************************************)
(* Runner.Run (runner.go): logsurge runs either one command, as module     *)
(* ExecRunner says, or the inputs of its configuration file, as module     *)
(* Daemon says.  The mode is settled when it starts, and what belongs to   *)
(* the other mode is then never used.                                      *)
(***************************************************************************)
EXTENDS ExecRunner, Daemon

VARIABLE mode  \* "exec" or "config"

runnerVars == <<mode, vars, daemonVars>>

Unconfigured == [termination |-> FALSE, drain |-> FALSE]

RunnerInit ==
  /\ mode \in {"exec", "config"}
  /\ Init /\ (mode = "config" => config = Unconfigured)
  /\ DaemonInit /\ (mode = "exec" => kind = [i \in Inputs |-> "file"])

ExecMode   == mode = "exec" /\ UNCHANGED <<mode, daemonVars>>
ConfigMode == mode = "config" /\ UNCHANGED <<mode, vars>>

RunnerNext == (ExecMode /\ Next) \/ (ConfigMode /\ DaemonNext)

RunnerSpec == RunnerInit /\ [][RunnerNext]_runnerVars

(***************************************************************************)
(* The fairness of the two modules, each in its own mode.                  *)
(***************************************************************************)
PipelineRuns     == ExecMode /\ Pipeline
ChildReaped      == ExecMode /\ Reap
RunExecRuns      == ExecMode /\ RunExec
ChildKilled(p)   == ExecMode /\ DieOfKill(p)
StopRuns         == ConfigMode /\ Stopping
StartRuns        == ConfigMode /\ Starting
WaitRuns         == ConfigMode /\ Waiting
ClosedEnds(i)    == ConfigMode /\ SourceClosed(i)
InputWrites(i)   == ConfigMode /\ Writing(i)

RunnerFairSpec ==
  /\ RunnerSpec
  /\ WF_runnerVars(PipelineRuns) /\ WF_runnerVars(ChildReaped) /\ WF_runnerVars(RunExecRuns)
  /\ \A p \in Processes : WF_runnerVars(ChildKilled(p))
  /\ WF_runnerVars(StopRuns) /\ WF_runnerVars(StartRuns) /\ WF_runnerVars(WaitRuns)
  /\ \A i \in Inputs : WF_runnerVars(ClosedEnds(i)) /\ WF_runnerVars(InputWrites(i))
=============================================================================
