-------------------------------- MODULE Source --------------------------------
(***************************************************************************)
(* What the daemon takes a network or journal input's source to be         *)
(* (module Daemon): it is opened, published, closed once, and ends once    *)
(* with an outcome.  An error counts only while nobody has closed it, only *)
(* journalctl ends well by itself, and the queue is closed when it ends.   *)
(***************************************************************************)
VARIABLES
  kind,    \* "tcp", "udp" or "journal"
  stage,   \* "none", "opened", "running" or "failed"
  closed,  \* Close has been called
  outcome, \* decided: "none", "nil" or "err"
  sent,    \* reported: "none", "nil" or "err"
  shut     \* the queue is closed

sourceVars == <<kind, stage, closed, outcome, sent, shut>>

SourceInit ==
  /\ kind \in {"tcp", "udp", "journal"}
  /\ stage = "none" /\ closed = FALSE /\ outcome = "none" /\ sent = "none" /\ shut = FALSE

Begin ==
  /\ \/ stage = "none" /\ stage' = "opened" /\ UNCHANGED shut
     \/ stage = "none" /\ stage' = "failed" /\ shut' = TRUE
     \/ stage = "opened" /\ stage' = "running" /\ UNCHANGED shut
  /\ UNCHANGED <<kind, closed, outcome, sent>>

Close == ~closed /\ closed' = TRUE /\ UNCHANGED <<kind, stage, outcome, sent, shut>>

Decide ==
  /\ stage = "running" /\ outcome = "none"
  /\ \/ ~closed /\ outcome' = "err"
     \/ (closed \/ kind = "journal") /\ outcome' = "nil"
  /\ UNCHANGED <<kind, stage, closed, sent, shut>>

\* A good end is reported with the queue closed already.
Send ==
  /\ outcome # "none" /\ sent = "none"
  /\ outcome = "nil" => shut
  /\ sent' = outcome
  /\ UNCHANGED <<kind, stage, closed, outcome, shut>>

\* By the source when it ends, or by a writer whose sink has failed, after Close.
ShutQueue ==
  /\ ~shut /\ shut' = TRUE
  /\ closed \/ outcome # "none" \/ kind = "journal"
  /\ UNCHANGED <<kind, stage, closed, outcome, sent>>

SourceSpec == SourceInit /\ [][Begin \/ Close \/ Decide \/ Send \/ ShutQueue]_sourceVars
============================================================================
