------------------------------- MODULE Sources -------------------------------
(***************************************************************************)
(* One network or journal input in its surroundings: module NetworkSource  *)
(* or JournalSource, by the kind of the input, with the parts they share.  *)
(***************************************************************************)
EXTENDS NetworkSource, JournalSource, SequencesExt

vars == <<portVars, networkVars, journalVars>>

Init ==
  /\ kind \in {"tcp", "udp", "journal"}
  /\ PortInit /\ NetworkInit
  /\ JournalInit /\ (kind # "journal" => ~noGrace)
  /\ kind # "tcp" => \A n \in ConnectionLimits : maxConnections =< n

\* Either writer or stopAll may call Close, and the runner may fail to start it.
ClosesNext == AnyoneCloses /\ CopyTable /\ UNCHANGED <<kind, journalVars, entryVars>>

WriterNext ==
  /\ WriterPops \/ WriterFails \/ WriterGone
  /\ CopyTable
  /\ UNCHANGED <<kind, journalVars, runVars, entryVars>>

StartFails == OpenFails /\ UNCHANGED <<kind, networkVars, journalVars, writer, entryVars>>

Next ==
  \/ ClosesNext \/ WriterNext \/ StartFails
  \/ kind # "journal" /\ NetworkNext /\ UNCHANGED <<kind, journalVars>>
  \/ kind = "journal" /\ JournalNext /\ UNCHANGED <<kind, networkVars>>

Spec == Init /\ [][Next]_vars

(***************************************************************************)
(* Fairness: Start returns, goroutines run on, the writer takes records    *)
(* unless its sink fails, a read or Accept on a closed socket returns,     *)
(* SIGKILL ends a process, and one that has ended is reaped.  Nothing is   *)
(* assumed of peers, of SIGTERM, of what journalctl prints, or that        *)
(* anybody calls Close.                                                    *)
(***************************************************************************)
WriterRuns ==
  /\ WriterPops \/ WriterGone
  /\ CopyTable
  /\ UNCHANGED <<kind, journalVars, runVars, entryVars>>

NetworkCloses ==
  kind # "journal" /\ (CloseSocket \/ CloseConns) /\ UNCHANGED <<kind, journalVars>>

NetworkRuns ==
  /\ kind # "journal"
  /\ PublishSocket \/ NetworkMain \/ (socket = "closed" /\ SocketError)
  /\ UNCHANGED <<kind, journalVars>>

ConnRuns(c) ==
  /\ kind # "journal"
  /\ ConnStep(c) \/ (c \notin fd /\ ReadEnds(c))
  /\ UNCHANGED <<kind, journalVars>>

JournalCloses == kind = "journal" /\ (CloseTerm \/ CloseKill) /\ UNCHANGED <<kind, networkVars>>
JournalRuns   == kind = "journal" /\ (PublishProcess \/ JournalMain) /\ UNCHANGED <<kind, networkVars>>
StderrRuns    == kind = "journal" /\ (ReadStderr \/ StderrSent) /\ UNCHANGED <<kind, networkVars>>
ChildRuns     == kind = "journal" /\ Complain /\ UNCHANGED <<kind, networkVars>>
ChildReaped   == kind = "journal" /\ Reap /\ UNCHANGED <<kind, networkVars>>
ChildKilled   == kind = "journal" /\ kill /\ Die /\ UNCHANGED <<kind, networkVars>>
GraceEnds     == kind = "journal" /\ GraceOver /\ UNCHANGED <<kind, networkVars>>

FairSpec ==
  /\ Spec
  /\ WF_vars(WriterRuns) /\ WF_vars(NetworkCloses) /\ WF_vars(NetworkRuns)
  /\ \A c \in Conns : WF_vars(ConnRuns(c))
  /\ WF_vars(JournalCloses) /\ WF_vars(JournalRuns) /\ WF_vars(StderrRuns) /\ WF_vars(ChildRuns)
  /\ WF_vars(ChildReaped) /\ WF_vars(ChildKilled) /\ WF_vars(GraceEnds)
----------------------------------------------------------------------------
(***************************************************************************)
(* A record is refused by the closed queue only after the sink or the      *)
(* listener has failed: a source that was closed closes the queue behind   *)
(* its last record.  What journalctl has printed by its end is all taken,  *)
(* unless a line of it could not be parsed.                                *)
(***************************************************************************)
NothingLost ==
  /\ refused => writer = "gone" \/ verdict = "err"
  /\ kind = "journal" /\ done # "none" /\ ~readErr => Len(entries) = printed /\ main = "over"

(***************************************************************************)
(* Datagrams and journal entries are split into the fragments Split says,  *)
(* whatever happens between two of them: the queue has all fragments of    *)
(* those taken before, in order, and a beginning of the current one's.     *)
(***************************************************************************)
FragmentsRejoin ==
  ~refused => LET all == SplitAll[Len(entries)]
              IN  IF main = "push" THEN IsStrictPrefix(frags, all) ELSE frags = all

(***************************************************************************)
(* The sources are what module Daemon takes them to be.  The outcome is    *)
(* decided when isClosed is looked at and reported later.                  *)
(***************************************************************************)
Promise == INSTANCE Source WITH
  stage   <- IF start = "published" THEN "running" ELSE start,
  outcome <- verdict,
  sent    <- done

ImplementsSource == Promise!SourceSpec

(***************************************************************************)
(* Close always ends a source that runs: the outcome is reported, the      *)
(* queue closed, every connection closed and journalctl reaped, although   *)
(* peers may never go and journalctl may ignore SIGTERM, or be stuck on a  *)
(* full pipe.  A line that cannot be parsed ends a journal source as well. *)
(* And journalctl is not stuck before it has filled what is read of stderr *)
(* and the pipe: 16 KiB and the pipe's capacity.                           *)
(***************************************************************************)
CloseEnds ==
  cut ~> done # "none" /\ shut /\ fd = {} /\ jc \in {"none", "reaped"}

ReadErrorEnds == readErr ~> done # "none" /\ shut /\ jc = "reaped"

StderrFlows ==
  jc = "complaining" /\ stderr + kept < ErrLimit + ErrCap ~> jc # "complaining"

SourceEnds == CloseEnds /\ ReadErrorEnds /\ StderrFlows
============================================================================
