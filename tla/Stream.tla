------------------------------- MODULE Stream -------------------------------
(***************************************************************************)
(* The two halves of an input that is read as a stream of bytes            *)
(* (runner.go, startQueuePipelineToSink): how a file that is followed      *)
(* becomes the stream, as module FollowFile says, and how a stream, this   *)
(* one or a pipe, becomes records, as module Framer says.  Nothing but the *)
(* bytes and an error passes from one to the other, and Framer takes any   *)
(* bytes and any error at any time; so each half is checked by itself, and *)
(* the other is idle meanwhile.                                            *)
(***************************************************************************)
EXTENDS Framer, FollowFile

VARIABLE half  \* "follow" or "frame"

streamVars == <<half, vars, followVars>>

StreamInit ==
  /\ half \in {"follow", "frame"}
  /\ Init
  /\ FollowInit /\ (half = "frame" => path = 0)

Framing   == half = "frame" /\ UNCHANGED <<half, followVars>>
Following == half = "follow" /\ UNCHANGED <<half, vars>>

StreamNext == (Framing /\ Next) \/ (Following /\ FollowNext)

StreamSpec == StreamInit /\ [][StreamNext]_streamVars

(***************************************************************************)
(* The fairness of the two modules, each for its half.                     *)
(***************************************************************************)
ReadGoroutineRuns == Framing /\ ReaderGoesOn
FramerRuns        == Framing /\ FramerGoesOn
FollowerRuns      == Following /\ FollowReader

StreamFairSpec ==
  /\ StreamSpec
  /\ WF_streamVars(ReadGoroutineRuns) /\ WF_streamVars(FramerRuns) /\ WF_streamVars(FollowerRuns)
=============================================================================
