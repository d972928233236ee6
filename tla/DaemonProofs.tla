----------------------------- MODULE DaemonProofs -----------------------------
(***************************************************************************)
(* Proofs about the daemon for any number of inputs of any kinds: whatever *)
(* goes wrong in whatever order, no error is swallowed, and the sink is    *)
(* closed after everybody who uses it.                                     *)
(***************************************************************************)
EXTENDS Daemon, TLAPS

(***************************************************************************)
(* The inductive invariant, in parts.                                      *)
(***************************************************************************)

\* runConfigMode has registered the inputs before the one it is at, and has come
\* no further with that one than its place says.
StartOrder ==
  /\ main \in {"create", "open", "publish", "register"} =>
       closers = 1..at - 1 /\ received = {} /\ firstErr = "none"
  /\ main \in {"create", "open"} => source[at] = "none"
  /\ main = "publish" => source[at] = "opened"
  /\ \A i \in Inputs : i > at => source[i] = "none"

\* After that it waits for all of them, or one could not be started.
WaitOrder ==
  /\ main = "wait" => closers = Inputs /\ firstErr # "setup"
  /\ main = "stop" => closers = Inputs \/ firstErr = "setup"
  /\ main \in {"close", "returned"} => received = Inputs \/ firstErr = "setup"
  /\ sink = "closed" => main = "returned"

\* What has been received stays as it was, and an error that was received counts.
OutcomesKept ==
  \A i \in received : Outcome(i) # "none" /\ (Outcome(i) # "nil" => firstErr # "none")

DaemonInv == DaemonTypeOK /\ StartOrder /\ WaitOrder /\ OutcomesKept
----------------------------------------------------------------------------
LEMMA InitKeeps == DaemonInit => DaemonInv
  <1> SUFFICES ASSUME DaemonInit PROVE DaemonInv
    OBVIOUS
  <1>1. 1 \in Inputs /\ 1..(1 - 1) = {}
    BY DaemonAssumption DEF Inputs
  <1>2. DaemonTypeOK
    <2>1. \A i \in Inputs : sourceEnd[i] = "none" /\ source[i] = "none" /\ ~cut[i]
      BY DEF DaemonInit
    <2>2. closers = 1..at - 1
      BY <1>1 DEF DaemonInit
    <2> QED BY <1>1, <2>1, <2>2 DEF DaemonInit, DaemonTypeOK
  <1>3. StartOrder
    BY <1>1 DEF DaemonInit, StartOrder
  <1>4. WaitOrder /\ OutcomesKept
    BY DEF DaemonInit, WaitOrder, OutcomesKept
  <1> QED BY <1>2, <1>3, <1>4 DEF DaemonInv

\* Whatever has been received is the end of an input.
LEMMA ReceivedInputs ==
  ASSUME DaemonTypeOK
  PROVE  received \subseteq Inputs
  <1>1. at \in 1..InputCount /\ closers \in {1..at - 1, 1..at} /\ received \subseteq closers
    BY DEF DaemonTypeOK, Inputs
  <1>2. 1..at - 1 \subseteq Inputs /\ 1..at \subseteq Inputs
    BY <1>1, DaemonAssumption DEF Inputs
  <1> QED BY <1>1, <1>2

(***************************************************************************)
(* An outcome is final: the steps of sources and writers cannot change it. *)
(***************************************************************************)
Later(i) ==
  /\ sourceEnd[i] # "none" => sourceEnd'[i] = sourceEnd[i]
  /\ writers[i] \in {"err", "nil"} => writers'[i] = writers[i]

LEMMA OutcomeFinal ==
  ASSUME NEW i \in Inputs, Outcome(i) # "none", Later(i), kind' = kind
  PROVE  Outcome(i)' = Outcome(i)
  BY DEF Outcome, Later

(***************************************************************************)
(* A step that leaves runConfigMode where it is, and the sources to their  *)
(* order, keeps everything but types.                                      *)
(***************************************************************************)
LEMMA ElsewhereKeeps ==
  ASSUME DaemonInv, UNCHANGED <<kind, mainVars>>,
         \A i \in Inputs : Later(i),
         \A i \in Inputs : source[i] \in {"none", "opened"} => source'[i] = source[i]
  PROVE  StartOrder' /\ WaitOrder' /\ OutcomesKept'
  <1>1. StartOrder'
    BY DEF DaemonInv, StartOrder, DaemonTypeOK, mainVars
  <1>2. WaitOrder'
    BY DEF DaemonInv, WaitOrder, mainVars
  <1>3. OutcomesKept'
    <2> SUFFICES ASSUME NEW i \in received
                 PROVE  Outcome(i)' # "none" /\ (Outcome(i)' # "nil" => firstErr # "none")
      BY DEF OutcomesKept, mainVars
    <2>1. i \in Inputs /\ Outcome(i) # "none" /\ (Outcome(i) # "nil" => firstErr # "none")
      BY ReceivedInputs DEF DaemonInv, OutcomesKept
    <2> QED BY <2>1, OutcomeFinal
  <1> QED BY <1>1, <1>2, <1>3
----------------------------------------------------------------------------
LEMMA StoppingKeeps == DaemonInv /\ (Stopping \/ Signal) => DaemonInv'
  <1> SUFFICES ASSUME DaemonInv, Stopping \/ Signal PROVE DaemonInv'
    OBVIOUS
  <1> USE DEF DaemonInv, DaemonTypeOK
  <1>1. UNCHANGED <<kind, mainVars, source, sourceEnd, queue, writers>>
    BY DEF Stopping, Signal, CloseNext, EndStop, SignalDone, inputVars, sourceVars
  <1>2. DaemonTypeOK'
    <2>1. CASE CloseNext
      BY <2>1 DEF CloseNext, CloseSource, mainVars
    <2>2. CASE EndStop
      BY <2>2 DEF EndStop, mainVars, inputVars, sourceVars
    <2>3. CASE SignalDone
      BY <2>3 DEF SignalDone, mainVars, stopVars, inputVars, sourceVars
    <2>4. CASE Signal
      BY <2>4 DEF Signal, BeginStop, mainVars, stopVars, inputVars, sourceVars
    <2> QED BY <2>1, <2>2, <2>3, <2>4 DEF Stopping
  <1> QED BY <1>1, <1>2, ElsewhereKeeps DEF Later

LEMMA SourceKeeps ==
  ASSUME DaemonInv, NEW i \in Inputs, NEW how \in {"nil", "err"},
         source[i] = "running", SourceEnds(i, how)
  PROVE  DaemonInv'
  <1> USE DEF DaemonInv, DaemonTypeOK
  <1>1. DaemonTypeOK'
    BY DEF SourceEnds, mainVars, stopVars
  <1>2. /\ \A j \in Inputs : Later(j)
        /\ \A j \in Inputs : source[j] \in {"none", "opened"} => source'[j] = source[j]
    BY DEF SourceEnds, Later
  <1> QED BY <1>1, <1>2, ElsewhereKeeps DEF SourceEnds

LEMMA WriterKeeps ==
  ASSUME DaemonInv, NEW i \in Inputs, InputWriterFails(i) \/ Writing(i)
  PROVE  DaemonInv'
  <1> USE DEF DaemonInv, DaemonTypeOK
  <1>1. DaemonTypeOK'
    <2>1. CASE InputWriterFails(i)
      BY <2>1 DEF InputWriterFails, mainVars, stopVars, sourceVars
    <2>2. CASE WriterClosesSource(i)
      <3>1. /\ closed' \in [Inputs -> BOOLEAN] /\ cut' \in [Inputs -> BOOLEAN]
            /\ \A j \in Inputs : cut'[j] => closed'[j]
        BY <2>2 DEF WriterClosesSource, CloseSource
      <3>2. writers' \in [Inputs -> {"off", "running", "reporting", "stopping", "err", "nil"}]
        BY <2>2 DEF WriterClosesSource
      <3> QED BY <2>2, <3>1, <3>2 DEF WriterClosesSource, mainVars, stopVars
    <2>3. CASE WriterStops(i)
      BY <2>3 DEF WriterStops, BeginStop, mainVars, stopVars, sourceVars
    <2>4. CASE InputWriterEnds(i)
      BY <2>4 DEF InputWriterEnds, mainVars, stopVars, sourceVars
    <2> QED BY <2>1, <2>2, <2>3, <2>4 DEF Writing
  <1>2. UNCHANGED <<kind, mainVars, source, sourceEnd>> /\ \A j \in Inputs : Later(j)
    BY DEF InputWriterFails, Writing, WriterClosesSource, WriterStops, InputWriterEnds, Later,
           sourceVars
  <1> QED BY <1>1, <1>2, ElsewhereKeeps

LEMMA StartingKeeps == DaemonInv /\ Starting => DaemonInv'
  <1> SUFFICES ASSUME DaemonInv, Starting PROVE DaemonInv'
    OBVIOUS
  <1> USE DaemonAssumption DEF DaemonInv, DaemonTypeOK, StartOrder, WaitOrder, OutcomesKept, Inputs,
                               stopVars, inputVars, sourceVars
  <1>1. CASE Create
    BY <1>1 DEF Create
  <1>2. CASE Open
    BY <1>2 DEF Open
  <1>3. CASE OpenFails
    BY <1>3 DEF OpenFails
  <1>4. CASE Publish
    BY <1>4 DEF Publish
  <1>5. CASE Register
    BY <1>5 DEF Register
  <1> QED BY <1>1, <1>2, <1>3, <1>4, <1>5 DEF Starting

LEMMA WaitingKeeps == DaemonInv /\ Waiting => DaemonInv'
  <1> SUFFICES ASSUME DaemonInv, Waiting PROVE DaemonInv'
    OBVIOUS
  <1> USE DEF DaemonInv, DaemonTypeOK, StartOrder, WaitOrder, stopVars, inputVars, sourceVars
  <1>1. CASE \E i \in Inputs : Receive(i)
    <2> PICK i \in Inputs : Receive(i)
      BY <1>1
    <2>1. \A j \in Inputs : Outcome(j)' = Outcome(j)
      BY DEF Receive, Outcome
    <2>2. Outcome(i) \in {"nil", "source", "sink"}
      BY DEF Receive, Outcome
    <2>3. OutcomesKept'
      BY <2>1, <2>2 DEF OutcomesKept, Receive, Inputs
    <2> QED BY <2>2, <2>3 DEF Receive, Inputs
  <1>2. CASE Stop \/ AllReceived \/ CloseSink
    <2>1. \A j \in Inputs : Outcome(j)' = Outcome(j)
      BY <1>2 DEF Stop, AllReceived, CloseSink, Outcome
    <2>2. OutcomesKept'
      <3>1. received' = received /\ received \subseteq Inputs
        BY <1>2, ReceivedInputs DEF Stop, AllReceived, CloseSink
      <3>2. firstErr # "none" => firstErr' # "none"
        BY <1>2 DEF Stop, AllReceived, CloseSink
      <3> QED BY <2>1, <3>1, <3>2 DEF OutcomesKept
    <2>3. CASE Stop
      BY <2>2, <2>3 DEF Stop, BeginStop
    <2>4. CASE AllReceived
      BY <2>2, <2>4 DEF AllReceived
    <2>5. CASE CloseSink
      BY <2>2, <2>5 DEF CloseSink
    <2> QED BY <1>2, <2>3, <2>4, <2>5
  <1> QED BY <1>1, <1>2 DEF Waiting

LEMMA DaemonStep == DaemonInv /\ [DaemonNext]_daemonVars => DaemonInv'
  <1> SUFFICES ASSUME DaemonInv, [DaemonNext]_daemonVars PROVE DaemonInv'
    OBVIOUS
  <1>1. CASE \E i \in Inputs : SourceFails(i) \/ SourceStops(i) \/ SourceClosed(i)
    BY <1>1, SourceKeeps DEF SourceFails, SourceStops, SourceClosed
  <1>2. CASE \E i \in Inputs : InputWriterFails(i) \/ Writing(i)
    BY <1>2, WriterKeeps
  <1>3. CASE UNCHANGED daemonVars
    BY <1>3 DEF DaemonInv, DaemonTypeOK, StartOrder, WaitOrder, OutcomesKept, Outcome,
                daemonVars, mainVars, stopVars, inputVars, sourceVars
  <1> QED BY <1>1, <1>2, <1>3, StoppingKeeps, StartingKeeps, WaitingKeeps
             DEF DaemonNext, DaemonReturned
----------------------------------------------------------------------------
THEOREM DaemonInvariant == DaemonSpec => []DaemonInv
  BY InitKeeps, DaemonStep, PTL DEF DaemonSpec

(***************************************************************************)
(* However inputs end, runConfigMode returns nil only when no writer and   *)
(* no source has ended with an error.                                      *)
(***************************************************************************)
THEOREM ErrorsComeOut == DaemonSpec => []NoErrorSwallowed
  <1>1. DaemonInv => NoErrorSwallowed
    BY DEF DaemonInv, DaemonTypeOK, WaitOrder, OutcomesKept, Outcome, NoErrorSwallowed
  <1> QED BY <1>1, DaemonInvariant, PTL

(***************************************************************************)
(* Unless an input could not be started, the sink is closed only when      *)
(* every writer has returned and every source has ended.                   *)
(***************************************************************************)
THEOREM SinkIsClosedLast == DaemonSpec => []SinkClosedLast
  <1>1. DaemonInv => SinkClosedLast
    BY DEF DaemonInv, DaemonTypeOK, WaitOrder, OutcomesKept, Outcome, SinkClosedLast
  <1> QED BY <1>1, DaemonInvariant, PTL
============================================================================
