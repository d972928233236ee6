---------------------------- MODULE SourcesProofs ----------------------------
(***************************************************************************)
(* Proofs about the network and journal sources for any number of peers,   *)
(* connections and lines and any capacity of queue and pipes: the table of *)
(* connections, what closing a queue may cost, that entries are delivered  *)
(* as their fragments, and that each source is what the daemon takes it to *)
(* be.                                                                     *)
(***************************************************************************)
EXTENDS Sources, SequenceTheorems, FiniteSetTheorems, WellFoundedInduction, TLAPS

NetworkOnly == {"accept", "add", "check", "drain", "lateShut"}
JournalOnly == {"terminate", "grace", "wait", "collect"}
Undecided ==
  {"off", "accept", "add", "read", "push", "check", "terminate", "grace", "wait", "collect"}

(***************************************************************************)
(* The inductive invariant, in parts.                                      *)
(***************************************************************************)
LifeTypes ==
  /\ kind \in {"tcp", "udp", "journal"}
  /\ start \in {"none", "opened", "published", "failed"}
  /\ main \in Undecided \cup {"drain", "shut", "report", "lateShut", "over"}
  /\ verdict \in {"none", "nil", "err"} /\ done \in {"none", "nil", "err"}
  /\ writer \in {"running", "closing", "stopping", "gone"}

\* Where the source's goroutine stands says what it has decided and reported.
Life ==
  /\ main = "off" <=> start # "published"
  /\ main \notin IF kind = "journal" THEN NetworkOnly ELSE JournalOnly
  /\ verdict = "none" <=> main \in Undecided \/ (kind = "journal" /\ main = "shut")
  /\ main \in {"drain", "shut"} => verdict # "err"
  /\ main = "lateShut" => verdict = "err"
  /\ done = IF main \in {"lateShut", "over"} THEN verdict ELSE "none"

\* Who has closed the queue: a writer, which has closed the source before; the
\* runner; or the source behind its last record.
Closing ==
  /\ writer # "running" => closed
  /\ main = "collect" \/ (main = "report" /\ (kind = "journal" \/ verdict = "nil")) => shut
  /\ shut => \/ writer = "gone" \/ start = "failed" \/ main \in {"collect", "over"}
             \/ main = "report" /\ (kind = "journal" \/ verdict = "nil")

ConnStates == {"none", "held", "reading", "pushing", "last", "ended", "removed", "over"}
Framing(c) == conn[c] \in {"reading", "pushing", "last", "ended"}
Removed == {c \in Conns : conn[c] = "removed"}

Connections ==
  /\ conn \in [Conns -> ConnStates]
  /\ table = {c \in Conns : Framing(c)}
  /\ IsFiniteSet(table) /\ IsFiniteSet(Removed)
  /\ active = Cardinality(table) /\ gauge = active + Cardinality(Removed)
  /\ maxConnections \in Nat /\ active =< maxConnections
  /\ holding \subseteq {c \in Conns : conn[c] = "held"}
  /\ fd \subseteq {c \in Conns : conn[c] \notin {"none", "over"}}

\* Before the loop and after wg.Wait there are no connections.
ConnsOver ==
  /\ start # "published" => \A c \in Conns : conn[c] = "none"
  /\ kind # "journal" /\ verdict = "nil" /\ main # "drain" =>
       \A c \in Conns : conn[c] \in {"none", "over"}

\* What journalctl has printed was taken or is in the pipe, where a line that a
\* signal has cut off may follow it.
PipeCounts ==
  /\ stdout \in Seq(MessageLengths \cup {Bad}) /\ entries \in Seq(Nat) /\ printed \in Nat
  /\ jc \in {"none", "running", "complaining", "dead", "reaped"} /\ (start = "none" => jc = "none")
  /\ kind = "journal" /\ ~readErr =>
       \/ Len(entries) + Len(stdout) = printed
       \/ /\ Len(entries) + Len(stdout) = printed + 1
          /\ jc \in {"dead", "reaped"} /\ stdout # << >> /\ stdout[Len(stdout)] = Bad

\* The read loop ends with an error, or with the pipe empty and journalctl dead.
PipeDrained ==
  kind = "journal" =>
    /\ main \in {"terminate", "grace"} => readErr
    /\ main \in {"wait", "shut", "collect", "report", "over"} /\ ~readErr =>
         stdout = << >> /\ jc \in {"dead", "reaped"}

Refusal == refused => writer = "gone" \/ verdict = "err"

TableInv == Connections /\ ConnsOver
LifeInv == LifeTypes /\ Life /\ Closing
PipeInv == PipeCounts /\ PipeDrained
SourcesInv == LifeInv /\ TableInv /\ PipeInv /\ Refusal
----------------------------------------------------------------------------
(***************************************************************************)
(* Where the source stands: the steps that touch it.                       *)
(***************************************************************************)

\* What LifeInv is about.
lifeVars == <<kind, runVars, closed, shut, writer>>

\* A step that leaves all that alone.
LEMMA LifeStutters == LifeInv /\ UNCHANGED lifeVars => LifeInv'
  BY DEF lifeVars, runVars, LifeInv, LifeTypes, Life, Closing

\* Close, the writer's steps and a Start that fails.
LEMMA EndsKeepLife ==
  ASSUME LifeInv, ClosesNext \/ WriterNext \/ StartFails
  PROVE  LifeInv'
  <1> USE DEF LifeInv, LifeTypes, Life, Closing, runVars, closeVars, queueVars, BeginClose,
         CloseQueue, Undecided, NetworkOnly, JournalOnly
  <1>1. CASE ClosesNext
    BY <1>1 DEF ClosesNext, AnyoneCloses
  <1>2. CASE WriterNext
    <2>1. CASE WriterPops
      BY <1>2, <2>1 DEF WriterNext, WriterPops
    <2>2. CASE WriterFails
      BY <1>2, <2>2 DEF WriterNext, WriterFails
    <2>3. CASE WriterGone
      BY <1>2, <2>3 DEF WriterNext, WriterGone
    <2> QED BY <1>2, <2>1, <2>2, <2>3 DEF WriterNext
  <1>3. CASE StartFails
    BY <1>3 DEF StartFails, OpenFails
  <1> QED BY <1>1, <1>2, <1>3

\* Start and the goroutine of a TCP or UDP source.
LEMMA NetworkKeepsLife ==
  ASSUME LifeInv, kind # "journal", UNCHANGED kind, NetworkNext
  PROVE  LifeInv'
  <1> USE DEF LifeInv, LifeTypes, Life, Closing, runVars, closeVars, queueVars, CloseQueue,
              Undecided, NetworkOnly, JournalOnly
  <1>1. CASE Listen \/ PublishSocket \/ CloseSocket \/ CloseConns
    BY <1>1 DEF Listen, PublishSocket, CloseSocket, CloseConns, Open, Publish
  <1>2. CASE SocketError \/ Check \/ Drain
    BY <1>2 DEF SocketError, Check, Drain
  <1>3. CASE Finish
    <2>1. CASE Shut("shut", "report")
      BY <1>3, <2>1 DEF Finish, Shut
    <2>2. CASE Report(IF verdict = "err" THEN "lateShut" ELSE "over")
      BY <1>3, <2>2 DEF Finish, Report
    <2>3. CASE Shut("lateShut", "over")
      BY <1>3, <2>3 DEF Finish, Shut
    <2> QED BY <1>3, <2>1, <2>2, <2>3 DEF Finish
  <1>4. ASSUME NEW c \in Conns, Accept(c) \/ AddConn(c)
        PROVE  LifeInv'
    BY <1>4 DEF Accept, AddConn, AddConn_If
  <1>5. ASSUME NEW c \in Conns, ReadLine(c) \/ ReadEnds(c) \/ ConnStep(c)
        PROVE  LifeInv'
    <2>1. CASE PushLine(c)
      BY <2>1 DEF PushLine, PushReturns
    <2>2. CASE ~PushLine(c)
      BY <1>5, <2>2 DEF ReadLine, ReadEnds, ConnStep, RemoveConn, ConnOver
    <2> QED BY <2>1, <2>2
  <1>6. ASSUME NEW len, Datagram(len)
        PROVE  LifeInv'
    BY <1>6 DEF Datagram, TakeEntry
  <1>7. CASE PushDatagram
    BY <1>7 DEF PushDatagram, PushFragment, PushReturns
  <1> QED BY <1>1, <1>2, <1>3, <1>4, <1>5, <1>6, <1>7 DEF NetworkNext, NetworkMain

\* The goroutines of a journal source; journalctl itself does not touch it.
LEMMA JournalKeepsLife ==
  ASSUME LifeInv, kind = "journal", UNCHANGED kind, JournalNext
  PROVE  LifeInv'
  <1>1. CASE \/ CloseTerm \/ CloseKill \/ WantsToComplain \/ Complain \/ Die \/ Reap
             \/ ReadStderr \/ StderrSent
             \/ \E line \in MessageLengths \cup {Bad} : Prints(line)
             \/ \E ok \in BOOLEAN : Exit(ok)
    <2>1. UNCHANGED lifeVars
      BY <1>1 DEF lifeVars, runVars, closeVars, queueVars, portVars, CloseTerm, CloseKill,
                  WantsToComplain, Complain, Die, Reap, ReadStderr, StderrSent, Prints, Exit
    <2> QED BY <2>1, LifeStutters
  <1> USE DEF LifeInv, LifeTypes, Life, Closing, runVars, closeVars, queueVars, CloseQueue,
              Undecided, NetworkOnly, JournalOnly
  <1>2. CASE StartProcess \/ PublishProcess
    BY <1>2 DEF StartProcess, PublishProcess, Open, Publish
  <1>3. CASE ReadEntry
    BY <1>3 DEF ReadEntry, TakeEntry
  <1>4. CASE PushEntry
    BY <1>4 DEF PushEntry, PushFragment, PushReturns
  <1>5. CASE EndOfEntries \/ Terminate \/ GraceOver
    BY <1>5 DEF EndOfEntries, Terminate, GraceOver
  <1>6. CASE Waited
    BY <1>6 DEF Waited
  <1>7. CASE Judge
    BY <1>7 DEF Judge
  <1>8. CASE FinishJournal
    <2>1. CASE Shut("shut", "collect")
      BY <1>8, <2>1 DEF FinishJournal, Shut
    <2>2. CASE Report("over")
      BY <1>8, <2>2 DEF FinishJournal, Report
    <2> QED BY <1>8, <2>1, <2>2 DEF FinishJournal
  <1> QED BY <1>1, <1>2, <1>3, <1>4, <1>5, <1>6, <1>7, <1>8 DEF JournalNext, JournalMain

\* Every step.
LEMMA LifeKeeps == LifeInv /\ [Next]_vars => LifeInv'
  <1> SUFFICES ASSUME LifeInv, [Next]_vars
               PROVE  LifeInv'
    OBVIOUS
  <1>1. CASE UNCHANGED vars
    <2>1. UNCHANGED lifeVars
      BY <1>1 DEF vars, portVars, runVars, closeVars, queueVars, lifeVars
    <2> QED BY <2>1, LifeStutters
  <1> QED BY <1>1, EndsKeepLife, NetworkKeepsLife, JournalKeepsLife DEF Next
----------------------------------------------------------------------------
(***************************************************************************)
(* The connections: the steps that touch the table.                        *)
(***************************************************************************)

\* What Connections is about.
tableVars == <<maxConnections, conn, fd, table, active, holding, gauge>>

\* A step that leaves all that alone.
LEMMA ConnectionsStutter == Connections /\ UNCHANGED tableVars => Connections'
  BY DEF tableVars, Connections, Framing, Removed

\* A connection that is neither framed nor removed goes on within either kind.
LEMMA ConnGoesOn ==
  ASSUME Connections, NEW c \in Conns,
         NEW to \in {"held", "reading", "pushing", "last", "ended", "over"},
         Goes(c, to), UNCHANGED <<maxConnections, table, active, gauge>>,
         Framing(c) <=> to \in {"reading", "pushing", "last", "ended"},
         conn[c] # "removed",
         holding' \subseteq {d \in Conns : conn'[d] = "held"},
         fd' \subseteq {d \in Conns : conn'[d] \notin {"none", "over"}}
  PROVE  Connections'
  <1>1. /\ conn' = [conn EXCEPT ![c] = to]
        /\ conn \in [Conns -> ConnStates]
    BY DEF Goes, Connections
  <1>2. /\ conn' \in [Conns -> ConnStates]
        /\ conn'[c] = to /\ \A d \in Conns \ {c} : conn'[d] = conn[d]
    BY <1>1 DEF ConnStates
  <1>3. table' = {d \in Conns : Framing(d)'}
    BY <1>2 DEF Connections, Framing
  <1>4. Removed' = Removed
    BY <1>2 DEF Removed
  <1> QED BY <1>2, <1>3, <1>4 DEF Connections

\* A framer is started for a connection that is not in the table yet.
LEMMA AddKeeps ==
  ASSUME Connections, NEW c \in Conns, AddConn(c)
  PROVE  Connections'
  <1>1. /\ main = "add" /\ c \in holding /\ holding' = {} /\ conn[c] = "held"
        /\ UNCHANGED maxConnections
    BY DEF AddConn, AddConn_If, Connections
  <1>2. CASE ~closed /\ active < maxConnections
    <2>1. /\ table' = table \cup {c} /\ active' = active + 1 /\ gauge' = gauge + 1
          /\ conn' = [conn EXCEPT ![c] = "reading"] /\ fd' = fd
      BY <1>2 DEF AddConn, AddConn_If, Goes
    <2>2. /\ conn \in [Conns -> ConnStates]
          /\ maxConnections \in Nat /\ c \notin table
      BY <1>1 DEF Connections, Framing
    <2>3. /\ conn' \in [Conns -> ConnStates]
          /\ conn'[c] = "reading" /\ \A d \in Conns \ {c} : conn'[d] = conn[d]
      BY <2>1, <2>2 DEF ConnStates
    <2>4. table' = {d \in Conns : Framing(d)'} /\ Removed' = Removed
      BY <1>1, <2>1, <2>3 DEF Connections, Framing, Removed
    <2>5. IsFiniteSet(table') /\ Cardinality(table') = Cardinality(table) + 1
      BY <2>1, <2>2, FS_AddElement DEF Connections
    <2>6. Cardinality(table) \in Nat /\ Cardinality(Removed) \in Nat
      BY FS_CardinalityType DEF Connections
    <2>7. /\ active' = Cardinality(table') /\ gauge' = active' + Cardinality(Removed')
          /\ active' =< maxConnections
      BY <1>2, <2>1, <2>2, <2>4, <2>5, <2>6 DEF Connections
    <2>8. fd' \subseteq {d \in Conns : conn'[d] \notin {"none", "over"}}
      BY <2>1, <2>3 DEF Connections
    <2> QED BY <1>1, <2>2, <2>3, <2>4, <2>5, <2>7, <2>8 DEF Connections
  <1>3. CASE ~(~closed /\ active < maxConnections)
    <2>1. Goes(c, "over") /\ fd' = fd \ {c} /\ UNCHANGED <<table, active, gauge>>
      BY <1>3 DEF AddConn, AddConn_If
    <2>2. fd' \subseteq {d \in Conns : conn'[d] \notin {"none", "over"}}
      BY <2>1 DEF Connections, Goes
    <2> QED BY <1>1, <2>1, <2>2, ConnGoesOn DEF Framing
  <1> QED BY <1>2, <1>3

\* removeConn, and the end of the connection's goroutine.
LEMMA RemoveKeeps ==
  ASSUME Connections, NEW c \in Conns, RemoveConn(c) \/ ConnOver(c)
  PROVE  Connections'
  <1> DEFINE to == IF conn[c] = "ended" THEN "removed" ELSE "over"
  <1>1. /\ conn \in [Conns -> ConnStates] /\ maxConnections \in Nat /\ active =< maxConnections
        /\ Cardinality(table) \in Nat /\ Cardinality(Removed) \in Nat
        /\ active = Cardinality(table) /\ gauge = active + Cardinality(Removed)
    BY FS_CardinalityType DEF Connections
  <1>2. conn' = [conn EXCEPT ![c] = to] /\ UNCHANGED <<maxConnections, holding>>
    BY DEF RemoveConn, ConnOver, Goes
  <1>3. /\ conn' \in [Conns -> ConnStates]
        /\ conn'[c] = to /\ \A d \in Conns \ {c} : conn'[d] = conn[d]
    BY <1>1, <1>2 DEF ConnStates
  <1>4. holding' \subseteq {d \in Conns : conn'[d] = "held"}
    BY <1>2, <1>3 DEF Connections, RemoveConn, ConnOver
  <1>5. CASE RemoveConn(c)
    <2>1. /\ conn[c] = "ended" /\ c \in table /\ c \notin Removed
          /\ table' = table \ {c} /\ active' = active - 1 /\ UNCHANGED <<fd, gauge>>
      BY <1>5 DEF RemoveConn, Connections, Framing, Removed
    <2>2. table' = {d \in Conns : Framing(d)'} /\ Removed' = Removed \cup {c}
      BY <1>3, <2>1 DEF Connections, Framing, Removed
    <2>3. IsFiniteSet(table') /\ Cardinality(table') = Cardinality(table) - 1
      BY <2>1, FS_RemoveElement DEF Connections
    <2>4. IsFiniteSet(Removed') /\ Cardinality(Removed') = Cardinality(Removed) + 1
      BY <2>1, <2>2, FS_AddElement DEF Connections
    <2>5. /\ active' = Cardinality(table') /\ gauge' = active' + Cardinality(Removed')
          /\ active' =< maxConnections
      BY <1>1, <2>1, <2>3, <2>4
    <2>6. fd' \subseteq {d \in Conns : conn'[d] \notin {"none", "over"}}
      BY <1>3, <2>1 DEF Connections
    <2> QED BY <1>1, <1>2, <1>3, <1>4, <2>2, <2>3, <2>4, <2>5, <2>6 DEF Connections
  <1>6. CASE ConnOver(c)
    <2>1. /\ conn[c] = "removed" /\ c \in Removed
          /\ fd' = fd \ {c} /\ gauge' = gauge - 1 /\ UNCHANGED <<table, active>>
      BY <1>6 DEF ConnOver, Removed
    <2>2. table' = {d \in Conns : Framing(d)'} /\ Removed' = Removed \ {c}
      BY <1>3, <2>1 DEF Connections, Framing, Removed
    <2>3. IsFiniteSet(Removed') /\ Cardinality(Removed') = Cardinality(Removed) - 1
      BY <2>1, <2>2, FS_RemoveElement DEF Connections
    <2>4. /\ active' = Cardinality(table') /\ gauge' = active' + Cardinality(Removed')
          /\ active' =< maxConnections
      BY <1>1, <1>2, <2>1, <2>3
    <2>5. fd' \subseteq {d \in Conns : conn'[d] \notin {"none", "over"}}
      BY <1>3, <2>1 DEF Connections
    <2> QED BY <1>1, <1>2, <1>3, <1>4, <2>1, <2>2, <2>3, <2>4, <2>5 DEF Connections
  <1> QED BY <1>5, <1>6

\* Accept, and a framer at work.
LEMMA ConnKeeps ==
  ASSUME Connections, NEW c \in Conns, Accept(c) \/ ReadLine(c) \/ ReadEnds(c) \/ PushLine(c)
  PROVE  Connections'
  <1>1. CASE Accept(c)
    <2>1. /\ conn[c] = "none" /\ Goes(c, "held") /\ holding' = {c} /\ fd' = fd \cup {c}
          /\ UNCHANGED <<maxConnections, table, active, gauge>>
      BY <1>1 DEF Accept
    <2>2. /\ holding' \subseteq {d \in Conns : conn'[d] = "held"}
          /\ fd' \subseteq {d \in Conns : conn'[d] \notin {"none", "over"}}
      BY <2>1 DEF Connections, Goes
    <2> QED BY <2>1, <2>2, ConnGoesOn DEF Framing
  <1>2. CASE ReadLine(c) \/ ReadEnds(c) \/ PushLine(c)
    <2>1. PICK to \in {"reading", "pushing", "last", "ended"} : Goes(c, to)
      BY <1>2 DEF ReadLine, ReadEnds, PushLine
    <2>2. Framing(c) /\ UNCHANGED <<maxConnections, fd, table, active, holding, gauge>>
      BY <1>2 DEF Framing, ReadLine, ReadEnds, PushLine
    <2>3. /\ holding' \subseteq {d \in Conns : conn'[d] = "held"}
          /\ fd' \subseteq {d \in Conns : conn'[d] \notin {"none", "over"}}
      BY <2>1, <2>2 DEF Connections, Goes, Framing
    <2> QED BY <2>1, <2>2, <2>3, ConnGoesOn DEF Framing
  <1> QED BY <1>1, <1>2

\* Every step keeps the table.
LEMMA ConnectionsKeep == Connections /\ [Next]_vars => Connections'
  <1> SUFFICES ASSUME Connections, [Next]_vars
               PROVE  Connections'
    OBVIOUS
  <1>1. CASE \/ UNCHANGED vars \/ ClosesNext \/ WriterNext \/ StartFails
             \/ (JournalNext /\ UNCHANGED networkVars)
    <2>1. UNCHANGED tableVars
      BY <1>1 DEF vars, networkVars, connVars, tableVars, ClosesNext, WriterNext, StartFails,
         CopyTable
    <2> QED BY <2>1, ConnectionsStutter
  <1>2. CASE NetworkNext
    <2>1. CASE \/ Listen \/ PublishSocket \/ CloseSocket \/ SocketError \/ Check \/ Drain \/ Finish
               \/ PushDatagram \/ \E len \in DatagramLengths : Datagram(len)
      <3>1. UNCHANGED tableVars
        BY <2>1 DEF tableVars, networkVars, connVars, Listen, PublishSocket, CloseSocket,
           SocketError, Check, Drain, Finish, PushDatagram, Datagram
      <3> QED BY <3>1, ConnectionsStutter
    <2>2. CASE CloseConns
      <3>1. fd' \subseteq fd /\ UNCHANGED <<maxConnections, conn, table, active, holding, gauge>>
        BY <2>2 DEF CloseConns
      <3> QED BY <3>1 DEF Connections, Framing, Removed
    <2>3. ASSUME NEW c \in Conns,
                 Accept(c) \/ AddConn(c) \/ ReadLine(c) \/ ReadEnds(c) \/ ConnStep(c)
          PROVE  Connections'
      BY <2>3, ConnKeeps, AddKeeps, RemoveKeeps DEF ConnStep
    <2> QED BY <1>2, <2>1, <2>2, <2>3 DEF NetworkNext, NetworkMain
  <1> QED BY <1>1, <1>2 DEF Next

\* Connections are made by the accept loop only, and wg.Wait sees the last one end.
LEMMA ConnsOverKeep == LifeInv /\ Connections /\ ConnsOver /\ [Next]_vars => ConnsOver'
  <1> SUFFICES ASSUME LifeInv, Connections, ConnsOver, [Next]_vars
               PROVE  ConnsOver'
    OBVIOUS
  <1> USE DEF LifeInv, LifeTypes, Life
  <1>1. CASE UNCHANGED vars
    BY <1>1 DEF vars, networkVars, connVars, portVars, runVars, ConnsOver
  <1>2. CASE ClosesNext \/ WriterNext \/ StartFails
    BY <1>2 DEF networkVars, connVars, runVars, ConnsOver, ClosesNext, AnyoneCloses, WriterNext,
                StartFails, OpenFails, CopyTable
  <1>3. CASE kind = "journal" /\ JournalNext /\ UNCHANGED <<kind, networkVars>>
    <2>1. start' # "published" => start # "published"
      BY <1>3, LifeKeeps DEF JournalNext, JournalMain, StartProcess, PublishProcess, Open,
         Publish, CloseTerm, CloseKill, Prints, WantsToComplain, Complain, Exit, Die, ReadStderr,
         StderrSent, Reap, GraceOver, ReadEntry, PushEntry, EndOfEntries, Terminate, Waited,
         Judge, FinishJournal, Shut, Report, portVars, runVars
    <2> QED BY <1>3, <2>1 DEF ConnsOver, networkVars, connVars
  <1>4. CASE kind # "journal" /\ NetworkNext /\ UNCHANGED <<kind, journalVars>>
    <2>1. CASE Listen \/ PublishSocket
      BY <1>4, <2>1 DEF ConnsOver, networkVars, connVars, Listen, PublishSocket, Open, Publish
    <2>2. CASE CloseSocket \/ CloseConns \/ SocketError
      BY <1>4, <2>2 DEF ConnsOver, networkVars, connVars, runVars, CloseSocket, CloseConns,
         SocketError
    <2>3. CASE Check \/ Drain
      BY <1>4, <2>3 DEF ConnsOver, networkVars, connVars, Check, Drain
    <2>4. CASE Finish
      BY <1>4, <2>4 DEF ConnsOver, networkVars, connVars, Finish, Shut, Report
    <2>5. ASSUME NEW len, Datagram(len) \/ PushDatagram
          PROVE  ConnsOver'
      <3>1. verdict = "none" /\ UNCHANGED <<start, verdict, conn>>
        BY <2>5 DEF Undecided, networkVars, connVars, Datagram, PushDatagram, PushFragment
      <3> QED BY <1>4, <3>1 DEF ConnsOver
    <2>6. ASSUME NEW c \in Conns,
                 Accept(c) \/ AddConn(c) \/ ReadLine(c) \/ ReadEnds(c) \/ ConnStep(c)
          PROVE  ConnsOver'
      <3>1. start = "published" /\ (verdict = "nil" => main = "drain")
        <4>1. CASE Accept(c) \/ AddConn(c)
          BY <4>1 DEF Accept, AddConn, AddConn_If
        <4>2. CASE ReadLine(c) \/ ReadEnds(c) \/ ConnStep(c)
          <5>1. conn[c] \notin {"none", "over"}
            BY <4>2 DEF ReadLine, ReadEnds, ConnStep, PushLine, RemoveConn, ConnOver
          <5> QED BY <1>4, <5>1 DEF ConnsOver
        <4> QED BY <2>6, <4>1, <4>2
      <3>2. CASE Accept(c) \/ AddConn(c)
        BY <3>1, <3>2 DEF ConnsOver, Accept, AddConn, AddConn_If
      <3>3. CASE ReadLine(c) \/ ReadEnds(c) \/ ConnStep(c)
        BY <3>1, <3>3 DEF ConnsOver, runVars, ReadLine, ReadEnds, ConnStep, PushLine, RemoveConn,
           ConnOver
      <3> QED BY <2>6, <3>2, <3>3
    <2> QED BY <1>4, <2>1, <2>2, <2>3, <2>4, <2>5, <2>6 DEF NetworkNext, NetworkMain
  <1> QED BY <1>1, <1>2, <1>3, <1>4 DEF Next
----------------------------------------------------------------------------
(***************************************************************************)
(* journalctl's lines: printed, in the pipe, and taken.                    *)
(***************************************************************************)

\* Steps that leave the lines alone; journalctl may only be nearer to its end.
LEMMA PipeStutters ==
  ASSUME PipeCounts, UNCHANGED <<kind, stdout, entries, printed, readErr>>,
         start' = "none" => start = "none" /\ jc' = jc,
         \/ jc' = jc
         \/ jc \in {"none", "running", "complaining"} /\ jc' \in {"running", "complaining", "dead"}
         \/ jc = "dead" /\ jc' = "reaped"
  PROVE  PipeCounts'
  BY DEF PipeCounts

\* A line in the pipe.
LEMMA PipeGrows ==
  ASSUME PipeCounts, NEW line \in MessageLengths \cup {Bad}, stdout' = Append(stdout, line)
  PROVE  /\ stdout' \in Seq(MessageLengths \cup {Bad}) /\ stdout' # << >>
         /\ Len(stdout') = Len(stdout) + 1 /\ stdout'[Len(stdout')] = line
  <1>1. stdout \in Seq(MessageLengths \cup {Bad})
    BY DEF PipeCounts
  <1>2. /\ stdout' \in Seq(MessageLengths \cup {Bad}) /\ stdout' # << >>
        /\ Len(stdout') = Len(stdout) + 1 /\ stdout'[Len(stdout) + 1] = line
    BY <1>1, AppendProperties
  <1> QED BY <1>2

\* Printing, and a signal that cuts off a line.
LEMMA PrintKeeps ==
  ASSUME PipeCounts, UNCHANGED <<kind, entries, readErr, start>>, start # "none",
         NEW line \in MessageLengths \cup {Bad},
         stdout' \in Seq(MessageLengths \cup {Bad}), stdout' # << >>,
         Len(stdout') = Len(stdout) + 1, stdout'[Len(stdout')] = line,
         \/ jc = "running" /\ jc' = jc /\ printed' = printed + 1
         \/ jc \in {"running", "complaining"} /\ jc' = "dead" /\ line = Bad /\ printed' = printed
  PROVE  PipeCounts'
  <1>1. /\ entries \in Seq(Nat) /\ printed \in Nat
        /\ Len(stdout) \in Nat /\ Len(entries) \in Nat
    BY DEF PipeCounts
  <1>2. kind = "journal" /\ ~readErr => Len(entries) + Len(stdout) = printed
    BY DEF PipeCounts
  <1>3. CASE jc = "running" /\ jc' = jc /\ printed' = printed + 1
    BY <1>1, <1>2, <1>3 DEF PipeCounts
  <1>4. CASE jc' = "dead" /\ line = Bad /\ printed' = printed
    BY <1>1, <1>2, <1>4 DEF PipeCounts
  <1> QED BY <1>3, <1>4

\* An entry is taken from the pipe, or the loop ends with an error.
LEMMA TakeKeeps ==
  ASSUME PipeCounts, kind = "journal", ReadEntry
  PROVE  PipeCounts'
  <1>1. /\ stdout \in Seq(MessageLengths \cup {Bad}) /\ entries \in Seq(Nat) /\ printed \in Nat
        /\ stdout # << >> /\ stdout' = Tail(stdout)
        /\ UNCHANGED <<kind, start, jc, printed>>
    BY DEF PipeCounts, ReadEntry
  <1>2. /\ Head(stdout) \in MessageLengths \cup {Bad} /\ Head(stdout) = stdout[1]
        /\ stdout' \in Seq(MessageLengths \cup {Bad}) /\ Len(stdout') = Len(stdout) - 1
        /\ Len(stdout) \in Nat \ {0} /\ Len(entries) \in Nat
        /\ \A i \in 1 .. Len(stdout) - 1 : stdout'[i] = stdout[i + 1]
    BY <1>1, HeadTailProperties, EmptySeq, LenProperties
  <1>3. CASE Head(stdout) = Bad
    <2>1. readErr' /\ entries' = entries
      BY <1>3 DEF ReadEntry, entryVars
    <2> QED BY <1>1, <1>2, <2>1 DEF PipeCounts
  <1>4. CASE Head(stdout) # Bad
    <2>1. entries' = Append(entries, Head(stdout)) /\ readErr' = readErr
      BY <1>4 DEF ReadEntry, TakeEntry
    <2>2. entries' \in Seq(Nat) /\ Len(entries') = Len(entries) + 1
      <3>1. Head(stdout) \in Nat
        BY <1>2, <1>4, JournalAssumption
      <3> QED BY <1>1, <2>1, <3>1, AppendProperties
    <2>3. Len(entries') + Len(stdout') = Len(entries) + Len(stdout)
      BY <1>2, <2>2
    <2>4. stdout[Len(stdout)] = Bad => stdout' # << >> /\ stdout'[Len(stdout')] = Bad
      <3>1. SUFFICES ASSUME stdout[Len(stdout)] = Bad
                     PROVE  stdout' # << >> /\ stdout'[Len(stdout')] = Bad
        OBVIOUS
      <3>2. Len(stdout) # 1
        BY <1>2, <1>4, <3>1
      <3>3. Len(stdout') \in 1 .. Len(stdout) - 1 /\ Len(stdout') + 1 = Len(stdout)
        BY <1>2, <3>2
      <3>4. stdout' # << >>
        BY <1>2, <3>3, EmptySeq
      <3>5. stdout'[Len(stdout')] = stdout[Len(stdout') + 1]
        BY <1>2, <3>3
      <3> QED BY <3>1, <3>3, <3>4, <3>5
    <2> QED BY <1>1, <1>2, <2>1, <2>2, <2>3, <2>4 DEF PipeCounts
  <1> QED BY <1>3, <1>4

\* Every step.
LEMMA PipeCountsKeep == LifeInv /\ PipeCounts /\ [Next]_vars => PipeCounts'
  <1> SUFFICES ASSUME LifeInv, PipeCounts, [Next]_vars
               PROVE  PipeCounts'
    OBVIOUS
  <1>1. CASE UNCHANGED vars \/ ClosesNext \/ WriterNext \/ StartFails
    <2>1. /\ UNCHANGED <<kind, stdout, entries, printed, readErr, jc>>
          /\ start' = "none" => start = "none"
      BY <1>1 DEF vars, portVars, journalVars, pipeVars, entryVars, runVars, ClosesNext,
         AnyoneCloses, WriterNext, StartFails, OpenFails
    <2> QED BY <2>1 DEF PipeCounts
  <1>2. CASE kind # "journal" /\ NetworkNext /\ UNCHANGED <<kind, journalVars>>
    <2>1. UNCHANGED <<kind, stdout, printed, readErr, jc>>
      BY <1>2 DEF journalVars, pipeVars
    <2>2. entries' \in Seq(Nat)
      <3>1. ASSUME NEW len \in DatagramLengths, Datagram(len)
            PROVE  entries' \in Seq(Nat)
        <4>1. len \in Nat /\ entries \in Seq(Nat) /\ entries' = Append(entries, len)
          BY <3>1, NetworkAssumption DEF PipeCounts, Datagram, TakeEntry
        <4> QED BY <4>1, AppendProperties
      <3>2. CASE ~\E len \in DatagramLengths : Datagram(len)
        <4>1. entries' = entries
          BY <1>2, <3>2 DEF NetworkNext, NetworkMain, ConnStep, entryVars, Listen, PublishSocket,
             CloseSocket, CloseConns, SocketError, Check, Drain, Finish, AddConn, AddConn_If,
             Accept, ReadLine, ReadEnds, PushLine, RemoveConn, ConnOver, PushDatagram,
             PushFragment
        <4> QED BY <4>1 DEF PipeCounts
      <3> QED BY <3>1, <3>2
    <2>3. start' = "none" => start = "none"
      BY <1>2, LifeKeeps DEF NetworkNext, NetworkMain, ConnStep, runVars, Listen, PublishSocket,
         CloseSocket, CloseConns, SocketError, Check, Drain, Finish, AddConn, AddConn_If, Accept,
         ReadLine, ReadEnds, PushLine, RemoveConn, ConnOver, PushDatagram, Datagram, Open,
         Publish, Shut, Report
    <2> QED BY <1>2, <2>1, <2>2, <2>3 DEF PipeCounts
  <1>3. CASE kind = "journal" /\ JournalNext /\ UNCHANGED <<kind, networkVars>>
    <2> USE <1>3 DEF pipeVars, portVars, runVars, entryVars
    <2>1. CASE \/ PublishProcess \/ CloseTerm \/ CloseKill \/ ReadStderr \/ StderrSent
               \/ PushEntry \/ EndOfEntries \/ Terminate \/ GraceOver \/ Waited \/ Judge
               \/ FinishJournal
      <3>1. /\ UNCHANGED <<kind, stdout, entries, printed, readErr, jc>>
            /\ start' = "none" => start = "none"
        BY <2>1 DEF journalVars, PublishProcess, CloseTerm, CloseKill, ReadStderr, StderrSent,
           PushEntry, PushFragment, EndOfEntries, Terminate, GraceOver, Waited, Judge,
           FinishJournal, Publish, Shut, Report
      <3> QED BY <3>1 DEF PipeCounts
    <2>2. CASE StartProcess \/ WantsToComplain \/ Complain \/ (\E ok \in BOOLEAN : Exit(ok)) \/ Reap
      <3>1. /\ UNCHANGED <<stdout, entries, printed, readErr>>
            /\ start' = "none" => start = "none" /\ jc' = jc
            /\ \/ /\ jc \in {"none", "running", "complaining"}
                  /\ jc' \in {"running", "complaining", "dead"}
               \/ jc = "dead" /\ jc' = "reaped"
        BY <2>2 DEF PipeCounts, StartProcess, Open, WantsToComplain, Complain, Exit, Reap
      <3> QED BY <3>1, PipeStutters
    <2>3. ASSUME NEW line \in MessageLengths \cup {Bad}, Prints(line)
          PROVE  PipeCounts'
      <3>1. /\ UNCHANGED <<entries, readErr, start>> /\ start # "none"
            /\ stdout' = Append(stdout, line)
            /\ jc = "running" /\ jc' = jc /\ printed' = printed + 1
        BY <2>3 DEF Prints, PipeCounts
      <3> QED BY <3>1, PipeGrows, PrintKeeps
    <2>4. CASE Die
      <3>1. /\ UNCHANGED <<entries, readErr, start, printed>> /\ start # "none"
            /\ jc \in {"running", "complaining"} /\ jc' = "dead"
            /\ stdout' = stdout \/ stdout' = Append(stdout, Bad)
        BY <2>4 DEF Die, PipeCounts
      <3>2. CASE stdout' = stdout
        BY <3>1, <3>2, PipeStutters
      <3>3. CASE stdout' = Append(stdout, Bad)
        BY <3>1, <3>3, PipeGrows, PrintKeeps
      <3> QED BY <3>1, <3>2, <3>3
    <2>5. CASE ReadEntry
      BY <2>5, TakeKeeps
    <2> QED BY <2>1, <2>2, <2>3, <2>4, <2>5 DEF JournalNext, JournalMain
  <1> QED BY <1>1, <1>2, <1>3 DEF Next

\* The loop ends once the pipe is empty, or with an error.
LEMMA PipeDrainedKeep == LifeInv /\ PipeDrained /\ [Next]_vars => PipeDrained'
  <1> SUFFICES ASSUME LifeInv, PipeDrained, [Next]_vars
               PROVE  PipeDrained'
    OBVIOUS
  <1>1. CASE UNCHANGED vars \/ ClosesNext \/ WriterNext \/ StartFails
    <2>1. UNCHANGED <<kind, main, stdout, readErr, jc>>
      BY <1>1 DEF vars, portVars, journalVars, pipeVars, runVars, ClosesNext, AnyoneCloses,
                  WriterNext, StartFails, OpenFails
    <2> QED BY <2>1 DEF PipeDrained
  <1>2. CASE kind # "journal" /\ UNCHANGED kind
    BY <1>2 DEF PipeDrained
  <1>3. CASE kind = "journal" /\ JournalNext /\ UNCHANGED kind
    <2> USE <1>3 DEF PipeDrained, pipeVars, portVars, runVars, entryVars
    <2>1. CASE \/ CloseTerm \/ CloseKill \/ ReadStderr \/ StderrSent \/ WantsToComplain \/ Complain
               \/ (\E ok \in BOOLEAN : Exit(ok)) \/ Reap
      BY <2>1 DEF CloseTerm, CloseKill, ReadStderr, StderrSent, WantsToComplain, Complain, Exit,
         Reap
    <2>2. ASSUME NEW line, Prints(line)
          PROVE  PipeDrained'
      BY <2>2 DEF Prints
    <2>3. CASE Die
      BY <2>3 DEF Die
    <2>4. CASE StartProcess \/ PublishProcess
      BY <2>4 DEF StartProcess, PublishProcess, Open, Publish, LifeInv, Life
    <2>5. CASE ReadEntry
      BY <2>5 DEF ReadEntry, TakeEntry
    <2>6. CASE PushEntry
      BY <2>6 DEF PushEntry, PushFragment, journalVars
    <2>7. CASE EndOfEntries \/ Terminate \/ GraceOver \/ Waited
      BY <2>7 DEF EndOfEntries, Terminate, GraceOver, Waited, journalVars
    <2>8. CASE Judge \/ FinishJournal
      BY <2>8 DEF Judge, FinishJournal, Shut, Report, journalVars
    <2> QED BY <2>1, <2>2, <2>3, <2>4, <2>5, <2>6, <2>7, <2>8 DEF JournalNext, JournalMain
  <1> QED BY <1>1, <1>2, <1>3 DEF Next
----------------------------------------------------------------------------
(***************************************************************************)
(* A record is refused only by a queue a failed writer has closed, or by   *)
(* one that is shut behind a listener's error.                             *)
(***************************************************************************)

\* Who pushes into a queue that is closed.
LEMMA PushFinds ==
  ASSUME LifeInv, TableInv, shut,
         main = "push" \/ (kind # "journal" /\ \E c \in Conns : Framing(c))
  PROVE  writer = "gone" \/ verdict = "err"
  <1> USE DEF LifeInv, LifeTypes, Life, Closing, Undecided
  <1>1. CASE main = "push"
    BY <1>1
  <1>2. CASE kind # "journal" /\ \E c \in Conns : Framing(c)
    <2>1. start = "published" /\ (verdict = "nil" => main = "drain")
      BY <1>2 DEF TableInv, ConnsOver, Framing
    <2>2. verdict = "none" => main \notin {"collect", "over", "report"}
      BY <1>2 DEF JournalOnly
    <2> QED BY <1>2, <2>1, <2>2
  <1> QED BY <1>1, <1>2

\* Every step, of which only a Push into a closed queue counts.
LEMMA RefusalKeeps == LifeInv /\ TableInv /\ Refusal /\ [Next]_vars => Refusal'
  <1> SUFFICES ASSUME LifeInv, TableInv, Refusal, [Next]_vars
               PROVE  Refusal'
    OBVIOUS
  <1> DEFINE Kept == (refused' => refused) /\ (writer = "gone" => writer' = "gone")
                       /\ (verdict = "err" => verdict' = "err")
  <1>1. CASE Kept
    BY <1>1 DEF Refusal
  <1>2. CASE /\ PushReturns /\ UNCHANGED <<writer, verdict>>
             /\ main = "push" \/ (kind # "journal" /\ \E c \in Conns : Framing(c))
    <2>1. CASE refused'
      <3>1. shut \/ refused
        BY <1>2, <2>1 DEF PushReturns
      <3> QED BY <1>2, <3>1, PushFinds DEF Refusal
    <2> QED BY <2>1 DEF Refusal
  <1>3. CASE UNCHANGED vars \/ ClosesNext \/ WriterNext \/ StartFails
    <2>1. Kept
      BY <1>3 DEF vars, portVars, queueVars, runVars, ClosesNext, AnyoneCloses, WriterNext,
         WriterPops, WriterFails, WriterGone, StartFails, OpenFails, CloseQueue
    <2> QED BY <1>1, <2>1
  <1>4. CASE kind # "journal" /\ NetworkNext /\ UNCHANGED <<kind, journalVars>>
    <2>1. CASE \/ Listen \/ PublishSocket \/ CloseSocket \/ CloseConns \/ SocketError \/ Drain
               \/ Finish
               \/ \E len \in DatagramLengths : Datagram(len)
      <3>1. Kept
        BY <2>1 DEF queueVars, runVars, Listen, PublishSocket, CloseSocket, CloseConns,
           SocketError, Drain, Finish, Datagram, Open, Publish, Shut, Report, CloseQueue
      <3> QED BY <1>1, <3>1
    <2>2. CASE Check
      <3>1. verdict # "err"
        BY <2>2 DEF Check, LifeInv, Life, Undecided
      <3>2. Kept
        BY <2>2, <3>1 DEF Check, queueVars
      <3> QED BY <1>1, <3>2
    <2>3. ASSUME NEW c \in Conns,
                 \/ Accept(c) \/ AddConn(c) \/ ReadLine(c) \/ ReadEnds(c) \/ RemoveConn(c)
                 \/ ConnOver(c)
          PROVE  Refusal'
      <3>1. Kept
        BY <2>3 DEF queueVars, runVars, Accept, AddConn, AddConn_If, ReadLine, ReadEnds,
           RemoveConn, ConnOver
      <3> QED BY <1>1, <3>1
    <2>4. ASSUME NEW c \in Conns, PushLine(c)
          PROVE  Refusal'
      BY <1>2, <1>4, <2>4 DEF PushLine, Framing, runVars
    <2>5. CASE PushDatagram
      BY <1>2, <2>5 DEF PushDatagram, PushFragment
    <2> QED BY <1>4, <2>1, <2>2, <2>3, <2>4, <2>5 DEF NetworkNext, NetworkMain, ConnStep
  <1>5. CASE kind = "journal" /\ JournalNext /\ UNCHANGED <<kind, networkVars>>
    <2>1. CASE PushEntry
      BY <1>2, <2>1 DEF PushEntry, PushFragment
    <2>2. CASE Judge
      <3>1. verdict # "err"
        BY <2>2 DEF Judge, LifeInv, Life, Undecided
      <3>2. Kept
        BY <2>2, <3>1 DEF Judge, queueVars
      <3> QED BY <1>1, <3>2
    <2>3. CASE ~PushEntry /\ ~Judge
      <3>1. Kept
        BY <1>5, <2>3 DEF JournalNext, JournalMain, portVars, queueVars, runVars, StartProcess,
           PublishProcess, CloseTerm, CloseKill, Prints, WantsToComplain, Complain, Exit, Die,
           ReadStderr, StderrSent, Reap, GraceOver, ReadEntry, EndOfEntries, Terminate, Waited,
           FinishJournal, Open, Publish, Shut, Report, CloseQueue
      <3> QED BY <1>1, <3>1
    <2> QED BY <2>1, <2>2, <2>3
  <1> QED BY <1>3, <1>4, <1>5 DEF Next
----------------------------------------------------------------------------
(***************************************************************************)
(* The invariant holds, and with it the properties of the runs.            *)
(***************************************************************************)
\* Nothing has begun.
LEMMA SourcesInit == Init => SourcesInv
  <1> SUFFICES ASSUME Init
               PROVE  SourcesInv
    OBVIOUS
  <1>1. LifeInv /\ Refusal
    BY DEF Init, PortInit, LifeInv, LifeTypes, Life, Closing, Refusal, Undecided, NetworkOnly,
       JournalOnly
  <1>2. Connections
    <2>1. /\ conn \in [Conns -> ConnStates]
          /\ table = {c \in Conns : Framing(c)} /\ table = {} /\ Removed = {}
          /\ holding = {} /\ fd = {}
      BY DEF Init, NetworkInit, Framing, Removed, ConnStates
    <2>2. IsFiniteSet({}) /\ Cardinality({}) = 0
      BY FS_EmptySet
    <2>3. maxConnections \in Nat /\ active = 0 /\ gauge = 0
      BY NetworkAssumption DEF Init, NetworkInit
    <2> QED BY <2>1, <2>2, <2>3 DEF Connections
  <1>3. ConnsOver
    BY DEF Init, NetworkInit, ConnsOver
  <1>4. PipeInv
    BY DEF Init, PortInit, JournalInit, PipeInv, PipeCounts, PipeDrained
  <1> QED BY <1>1, <1>2, <1>3, <1>4 DEF SourcesInv, TableInv

\* A step of anybody keeps what is known of source, connections, lines and queue.
THEOREM SourcesInvariant == Spec => []SourcesInv
  <1>1. SourcesInv /\ [Next]_vars => SourcesInv'
    BY LifeKeeps, ConnectionsKeep, ConnsOverKeep, PipeCountsKeep, PipeDrainedKeep, RefusalKeeps
    DEF SourcesInv, TableInv, PipeInv
  <1> QED BY SourcesInit, <1>1, PTL DEF Spec

(***************************************************************************)
(* The table has exactly the connections whose framer runs, never more     *)
(* than allowed; the gauge counts them until they are closed; a source     *)
(* that was closed leaves none behind (source_network.go).                 *)
(***************************************************************************)
THEOREM TableCountsConnections == Spec => []ConnectionTable
  <1>1. ASSUME SourcesInv
        PROVE  ConnectionTable
    <2>1. LifeInv /\ Connections /\ ConnsOver
      BY <1>1 DEF SourcesInv, TableInv
    <2>2. ASSUME kind = "tcp", done = "nil"
          PROVE  gauge = 0 /\ fd = {}
      <3>1. verdict = "nil" /\ main = "over"
        BY <2>1, <2>2 DEF LifeInv, Life
      <3>2. \A c \in Conns : conn[c] \in {"none", "over"}
        BY <2>1, <2>2, <3>1 DEF ConnsOver
      <3>3. table = {} /\ Removed = {} /\ fd = {}
        BY <2>1, <3>2 DEF Connections, Framing, Removed
      <3> QED BY <2>1, <3>3, FS_EmptySet DEF Connections
    <2> QED BY <2>1, <2>2 DEF Connections, ConnectionTable, Framing, Removed
  <1> QED BY <1>1, SourcesInvariant, PTL

(***************************************************************************)
(* The closed queue refuses a record only after the sink or the listener   *)
(* has failed, and what journalctl printed by its end is all taken unless  *)
(* a line of it could not be parsed (source_journal.go).                   *)
(***************************************************************************)
THEOREM NothingPrintedIsLost == Spec => []NothingLost
  <1>1. ASSUME SourcesInv
        PROVE  NothingLost
    <2>1. ASSUME kind = "journal", done # "none", ~readErr
          PROVE  Len(entries) = printed /\ main = "over"
      <3>1. main = "over"
        BY <1>1, <2>1 DEF SourcesInv, LifeInv, Life, NetworkOnly
      <3>2. stdout = << >>
        BY <1>1, <2>1, <3>1 DEF SourcesInv, PipeInv, PipeDrained
      <3>3. Len(entries) \in Nat /\ Len(entries) + Len(stdout) = printed
        BY <1>1, <2>1, <3>2 DEF SourcesInv, PipeInv, PipeCounts
      <3> QED BY <3>1, <3>2, <3>3
    <2> QED BY <1>1, <2>1 DEF SourcesInv, Refusal, NothingLost
  <1> QED BY <1>1, SourcesInvariant, PTL
----------------------------------------------------------------------------
(***************************************************************************)
(* Refinement: each source is what module Source promises the daemon.      *)
(***************************************************************************)
PromiseNext ==
  Promise!Begin \/ Promise!Close \/ Promise!Decide \/ Promise!Send \/ Promise!ShutQueue

\* A queue is closed once and stays so.
LEMMA ShutStays ==
  shut \in BOOLEAN /\ [Next]_vars => shut' \in BOOLEAN /\ (shut' = shut \/ shut' = TRUE)
  <1> SUFFICES ASSUME [Next]_vars
               PROVE  shut' = shut \/ shut' = TRUE
    OBVIOUS
  <1> USE DEF queueVars, CloseQueue
  <1>1. CASE UNCHANGED vars \/ ClosesNext \/ WriterNext \/ StartFails
    BY <1>1 DEF vars, portVars, ClosesNext, AnyoneCloses, WriterNext, WriterPops, WriterFails,
       WriterGone, StartFails, OpenFails
  <1>2. CASE NetworkNext
    BY <1>2 DEF NetworkNext, NetworkMain, ConnStep, Listen, PublishSocket, CloseSocket,
       CloseConns, SocketError, Check, Drain, Finish, AddConn, AddConn_If, Accept, ReadLine,
       ReadEnds, PushLine, RemoveConn, ConnOver, PushDatagram, PushFragment, PushReturns,
       Datagram, Open, Publish, Shut, Report
  <1>3. CASE JournalNext
    BY <1>3 DEF JournalNext, JournalMain, portVars, StartProcess, PublishProcess, CloseTerm,
       CloseKill, Prints, WantsToComplain, Complain, Exit, Die, ReadStderr, StderrSent, Reap,
       GraceOver, ReadEntry, PushEntry, PushFragment, PushReturns, EndOfEntries, Terminate,
       Waited, Judge, FinishJournal, Open, Publish, Shut, Report
  <1> QED BY <1>1, <1>2, <1>3 DEF Next

\* What the promise is about, as its variables are mapped.
promiseVars ==
  <<kind, IF start = "published" THEN "running" ELSE start, closed, verdict, done, shut>>

\* Closing the queue, by whoever may.
LEMMA ShutMoves ==
  ASSUME shut \in BOOLEAN, shut' = TRUE, UNCHANGED <<kind, start, closed, verdict, done>>,
         closed \/ verdict # "none" \/ kind = "journal"
  PROVE  PromiseNext \/ UNCHANGED promiseVars
  <1>1. CASE shut
    <2>1. shut' = shut
      BY <1>1
    <2> QED BY <2>1 DEF promiseVars
  <1>2. CASE ~shut
    <2>1. Promise!ShutQueue
      BY <1>2 DEF Promise!ShutQueue
    <2> QED BY <2>1 DEF PromiseNext
  <1> QED BY <1>1, <1>2

\* Close, the writer's steps and a Start that fails.
LEMMA EndsMove ==
  ASSUME LifeInv, shut \in BOOLEAN, ClosesNext \/ WriterNext \/ StartFails
  PROVE  PromiseNext \/ UNCHANGED promiseVars
  <1> USE DEF runVars, closeVars, queueVars, BeginClose, CloseQueue
  <1>1. CASE ClosesNext
    <2>1. Promise!Close
      BY <1>1 DEF ClosesNext, AnyoneCloses, Promise!Close
    <2> QED BY <2>1 DEF PromiseNext
  <1>2. CASE WriterNext
    <2>1. CASE WriterPops \/ (WriterFails /\ closed)
      BY <1>2, <2>1 DEF WriterNext, WriterPops, WriterFails, promiseVars
    <2>2. CASE WriterFails /\ ~closed
      <3>1. Promise!Close
        BY <1>2, <2>2 DEF WriterNext, WriterFails, Promise!Close
      <3> QED BY <3>1 DEF PromiseNext
    <2>3. CASE WriterGone
      <3>1. closed /\ shut' = TRUE /\ UNCHANGED <<kind, start, closed, verdict, done>>
        BY <1>2, <2>3 DEF WriterNext, WriterGone, LifeInv, Closing
      <3> QED BY <3>1, ShutMoves
    <2> QED BY <1>2, <2>1, <2>2, <2>3 DEF WriterNext
  <1>3. CASE StartFails
    <2>1. Promise!Begin
      BY <1>3 DEF StartFails, OpenFails, Promise!Begin
    <2> QED BY <2>1 DEF PromiseNext
  <1> QED BY <1>1, <1>2, <1>3

\* The last steps of either kind of source.
LEMMA LastStepsMove ==
  ASSUME LifeInv, shut \in BOOLEAN, UNCHANGED kind, NEW at, NEW next,
         \/ Shut(at, next) /\ at \in {"shut", "lateShut"}
         \/ Report(next)
  PROVE  PromiseNext \/ UNCHANGED promiseVars
  <1> USE DEF LifeInv, LifeTypes, Life, Closing, closeVars, queueVars
  <1>1. CASE Shut(at, next) /\ at \in {"shut", "lateShut"}
    <2>1. shut' = TRUE /\ UNCHANGED <<kind, start, closed, verdict, done>>
      BY <1>1 DEF Shut, CloseQueue
    <2>2. verdict # "none" \/ kind = "journal"
      BY <1>1 DEF Shut, Undecided
    <2> QED BY <2>1, <2>2, ShutMoves
  <1>2. CASE Report(next)
    <2>1. verdict # "none" /\ done = "none" /\ (verdict = "nil" => shut)
      BY <1>2 DEF Report, Undecided
    <2>2. Promise!Send
      BY <1>2, <2>1 DEF Report, Promise!Send
    <2> QED BY <2>2 DEF PromiseNext
  <1> QED BY <1>1, <1>2

\* TCP and UDP.
LEMMA NetworkMoves ==
  ASSUME LifeInv, shut \in BOOLEAN, kind # "journal", NetworkNext, UNCHANGED kind
  PROVE  PromiseNext \/ UNCHANGED promiseVars
  <1> USE DEF runVars, closeVars, queueVars
  <1>1. CASE Listen \/ PublishSocket
    <2>1. Promise!Begin
      BY <1>1 DEF Listen, PublishSocket, Open, Publish, Promise!Begin
    <2> QED BY <2>1 DEF PromiseNext
  <1>2. CASE \/ CloseSocket \/ CloseConns \/ SocketError \/ Drain \/ PushDatagram
             \/ \E len \in DatagramLengths : Datagram(len)
    BY <1>2 DEF promiseVars, CloseSocket, CloseConns, SocketError, Drain, PushDatagram,
       PushFragment, PushReturns, Datagram
  <1>3. CASE Check
    <2>1. start = "published" /\ verdict = "none"
      BY <1>3 DEF Check, LifeInv, Life, Undecided
    <2>2. Promise!Decide
      BY <1>3, <2>1 DEF Check, Promise!Decide
    <2> QED BY <2>2 DEF PromiseNext
  <1>4. CASE Finish
    BY <1>4, LastStepsMove DEF Finish
  <1>5. ASSUME NEW c \in Conns,
               Accept(c) \/ AddConn(c) \/ ReadLine(c) \/ ReadEnds(c) \/ ConnStep(c)
        PROVE  UNCHANGED promiseVars
    BY <1>5 DEF promiseVars, Accept, AddConn, AddConn_If, ReadLine, ReadEnds, ConnStep, PushLine,
                PushReturns, RemoveConn, ConnOver
  <1> QED BY <1>1, <1>2, <1>3, <1>4, <1>5 DEF NetworkNext, NetworkMain

\* The journal.
LEMMA JournalMoves ==
  ASSUME LifeInv, shut \in BOOLEAN, kind = "journal", JournalNext, UNCHANGED kind
  PROVE  PromiseNext \/ UNCHANGED promiseVars
  <1> USE DEF runVars, closeVars, queueVars
  <1>1. CASE StartProcess \/ PublishProcess
    <2>1. Promise!Begin
      BY <1>1 DEF StartProcess, PublishProcess, Open, Publish, Promise!Begin
    <2> QED BY <2>1 DEF PromiseNext
  <1>2. CASE Judge
    <2>1. start = "published" /\ verdict = "none"
      BY <1>2 DEF Judge, LifeInv, Life, Undecided
    <2>2. Promise!Decide
      BY <1>2, <2>1 DEF Judge, Promise!Decide
    <2> QED BY <2>2 DEF PromiseNext
  <1>3. CASE FinishJournal
    BY <1>3, LastStepsMove DEF FinishJournal
  <1>4. CASE ~(StartProcess \/ PublishProcess \/ Judge \/ FinishJournal)
    BY <1>4 DEF promiseVars, portVars, JournalNext, JournalMain, CloseTerm, CloseKill, Prints,
       WantsToComplain, Complain, Exit, Die, ReadStderr, StderrSent, Reap, GraceOver, ReadEntry,
       PushEntry, PushFragment, PushReturns, EndOfEntries, Terminate, Waited
  <1> QED BY <1>1, <1>2, <1>3, <1>4

(***************************************************************************)
(* A network or journal source, with its connections or its child process, *)
(* the queue and whoever closes it, implements the source of module        *)
(* Source, which module Daemon builds on: the first state maps to a first  *)
(* state and every step to a step of it or to none.                        *)
(***************************************************************************)
THEOREM SourceImplemented == Spec => ImplementsSource
  <1> DEFINE Inv == LifeInv /\ shut \in BOOLEAN
  <1>1. Init => Promise!SourceInit /\ Inv
    BY SourcesInit DEF SourcesInv, Init, PortInit, Promise!SourceInit
  <1>2. Inv /\ [Next]_vars => Inv'
    BY LifeKeeps, ShutStays
  <1>3. Inv /\ [Next]_vars => [PromiseNext]_promiseVars
    <2>1. ASSUME Inv, Next
          PROVE  [PromiseNext]_promiseVars
      BY <2>1, EndsMove, NetworkMoves, JournalMoves DEF Next
    <2>2. CASE UNCHANGED vars
      BY <2>2 DEF vars, portVars, runVars, closeVars, queueVars, promiseVars
    <2> QED BY <2>1, <2>2
  <1>4. [PromiseNext]_promiseVars
          => [Promise!Begin \/ Promise!Close \/ Promise!Decide \/ Promise!Send
                \/ Promise!ShutQueue]_Promise!sourceVars
    BY DEF PromiseNext, promiseVars, Promise!sourceVars
  <1> QED BY <1>1, <1>2, <1>3, <1>4, PTL DEF Spec, ImplementsSource, Promise!SourceSpec
----------------------------------------------------------------------------
(***************************************************************************)
(* Splitting a line of any length by the loop of pushDatagram comes to what *)
(* Split says by a division.                                               *)
(***************************************************************************)
\* A record as the queue takes it from a datagram or a journal entry.
Fragment == [len : Nat, end : {"max-bytes", "newline"}, cont : BOOLEAN]

\* n fragments of a line of this length, the first a continuation or not.
Fragmented(len, cont, n) ==
  [k \in 1 .. n |->
     [len  |-> IF k < n THEN MaxFragmentBytes ELSE len - (n - 1) * MaxFragmentBytes,
      end  |-> IF k < n THEN "max-bytes" ELSE "newline",
      cont |-> k > 1 \/ cont]]

\* The number of fragments that Split makes of it, by a division;
Count(len) == IF len = 0 THEN 1 ELSE (len + MaxFragmentBytes - 1) \div MaxFragmentBytes

\* The fragments still to be pushed of a line of which this length is left.
Cut(len, cont) == Fragmented(len, cont, Count(len))

\* it is one for what fits into a fragment, and one more for each that is cut off.
LEMMA CountIs ==
  ASSUME NEW len \in Nat
  PROVE  /\ Count(len) \in Nat /\ Count(len) >= 1
         /\ len =< Count(len) * MaxFragmentBytes
         /\ (Count(len) - 1) * MaxFragmentBytes =< len
         /\ len =< MaxFragmentBytes => Count(len) = 1
         /\ len > MaxFragmentBytes => Count(len) = Count(len - MaxFragmentBytes) + 1
  <1> DEFINE M == MaxFragmentBytes
             q(a) == (a + M - 1) \div M
  <1>1. M \in Nat /\ M >= 1
    BY PortAssumption
  <1>2. ASSUME NEW a \in Nat
        PROVE  q(a) \in Int /\ q(a) * M =< a + M - 1 /\ a + M - 1 < q(a) * M + M
    BY <1>1
  <1>3. ASSUME NEW a \in Nat, NEW n \in Int, n * M =< a + M - 1, a + M - 1 < n * M + M
        PROVE  q(a) = n
    BY <1>1, <1>3
  <1>4. Count(len) = IF len = 0 THEN 1 ELSE q(len)
    BY DEF Count
  <1>5. len > M => Count(len - M) = q(len - M)
    BY <1>1 DEF Count
  <1> HIDE DEF q
  <1>6. CASE len = 0
    BY <1>1, <1>4, <1>6
  <1>7. CASE len \in 1 .. M
    <2>1. q(len) = 1
      <3>1. 1 * M =< len + M - 1 /\ len + M - 1 < 1 * M + M
        BY <1>1, <1>7
      <3> QED BY <1>3, <3>1
    <2> QED BY <1>1, <1>4, <1>7, <2>1
  <1>8. CASE len > M
    <2>1. len - M \in Nat /\ len # 0
      BY <1>1, <1>8
    <2> DEFINE n == q(len - M)
    <2>2. n \in Int /\ n * M =< len - M + M - 1 /\ len - M + M - 1 < n * M + M
      BY <1>2, <2>1
    <2> HIDE DEF n
    <2>3. n * M \in Int /\ (n + 1) * M = n * M + M
      BY <1>1, <2>2
    <2>4. q(len) = n + 1
      <3>1. n + 1 \in Int /\ (n + 1) * M =< len + M - 1 /\ len + M - 1 < (n + 1) * M + M
        BY <1>1, <1>8, <2>2, <2>3
      <3> QED BY <1>3, <3>1
    <2>5. Count(len) = n + 1 /\ Count(len - M) = n
      BY <1>4, <1>5, <1>8, <2>1, <2>4 DEF n
    <2>6. n >= 1
      <3>1. len - 1 < n * M + M /\ len - 1 >= M
        BY <1>1, <1>8, <2>1, <2>2, <2>3
      <3>2. n * M > 0
        BY <1>1, <2>2, <2>3, <3>1
      <3> QED BY <1>1, <2>2, <3>2
    <2>7. n * M =< len /\ len =< (n + 1) * M
      BY <1>1, <1>8, <2>2, <2>3
    <2>8. n + 1 \in Nat /\ n + 1 >= 1 /\ (n + 1) - 1 = n /\ ~(len =< M)
      BY <1>1, <1>8, <2>2, <2>6
    <2> DEFINE c == Count(len)
    <2>9. c = n + 1 /\ Count(len - M) = n
      BY <2>5
    <2>a. c \in Nat /\ c >= 1 /\ len =< c * M /\ (c - 1) * M =< len /\ c = Count(len - M) + 1
      BY <2>7, <2>8, <2>9
    <2> QED BY <2>8, <2>a
  <1> QED BY <1>1, <1>6, <1>7, <1>8

\* They are fragments, and as many as that.
LEMMA CutType ==
  ASSUME NEW len \in Nat, NEW cont \in BOOLEAN
  PROVE  /\ Cut(len, cont) \in Seq(Fragment) /\ Len(Cut(len, cont)) = Count(len)
         /\ \A k \in 1 .. Count(len) : Cut(len, cont)[k] =
              [len  |-> IF k < Count(len) THEN MaxFragmentBytes
                                          ELSE len - (Count(len) - 1) * MaxFragmentBytes,
               end  |-> IF k < Count(len) THEN "max-bytes" ELSE "newline",
               cont |-> k > 1 \/ cont]
  <1> DEFINE n == Count(len)
             m == (n - 1) * MaxFragmentBytes
             frag(k) == [len  |-> IF k < n THEN MaxFragmentBytes ELSE len - m,
                         end  |-> IF k < n THEN "max-bytes" ELSE "newline",
                         cont |-> k > 1 \/ cont]
             s == [k \in 1 .. n |-> frag(k)]
  <1>1. n \in Nat /\ n >= 1 /\ m =< len /\ MaxFragmentBytes \in Nat
    BY CountIs, PortAssumption
  <1>2. m \in Nat
    <2>1. n - 1 \in Nat
      BY <1>1
    <2> HIDE DEF n
    <2> QED BY <1>1, <2>1
  <1>3. s = Cut(len, cont)
    BY DEF Cut, Fragmented
  <1> HIDE DEF n, m
  <1>4. \A k \in 1 .. n : frag(k) \in Fragment
    <2> TAKE k \in 1 .. n
    <2>1. (IF k < n THEN MaxFragmentBytes ELSE len - m) \in Nat
      BY <1>1, <1>2
    <2>2. (k > 1 \/ cont) \in BOOLEAN
      OBVIOUS
    <2> QED BY <2>1, <2>2 DEF Fragment
  <1> HIDE DEF frag
  <1>5. s \in [1 .. n -> Fragment]
    BY <1>4
  <1>6. s \in Seq(Fragment) /\ Len(s) = n
    <2> HIDE DEF s
    <2> QED BY <1>1, <1>5, IsASeq
  <1>7. \A k \in 1 .. n : s[k] = frag(k)
    OBVIOUS
  <1> HIDE DEF s
  <1>8. /\ Cut(len, cont) \in Seq(Fragment) /\ Len(Cut(len, cont)) = n
        /\ \A k \in 1 .. n : Cut(len, cont)[k] = frag(k)
    BY <1>3, <1>6, <1>7
  <1> QED BY <1>8 DEF frag, n, m

\* What is no longer than a fragment is one,
LEMMA CutShort ==
  ASSUME NEW len \in Nat, NEW cont \in BOOLEAN, len =< MaxFragmentBytes
  PROVE  Cut(len, cont) = <<[len |-> len, end |-> "newline", cont |-> cont]>>
  <1>1. Count(len) = 1 /\ MaxFragmentBytes \in Nat
    BY CountIs, PortAssumption
  <1>2. len - (1 - 1) * MaxFragmentBytes = len
    BY <1>1
  <1> DEFINE r == [len |-> len, end |-> "newline", cont |-> cont]
  <1>3. Cut(len, cont) \in Seq(Fragment) /\ Len(Cut(len, cont)) = 1 /\ Cut(len, cont)[1] = r
    <2>1. /\ Cut(len, cont) \in Seq(Fragment) /\ Len(Cut(len, cont)) = 1
          /\ Cut(len, cont)[1] = [len |-> len - (1 - 1) * MaxFragmentBytes, end |-> "newline",
                                  cont |-> 1 > 1 \/ cont]
      <3>1. /\ Cut(len, cont) \in Seq(Fragment) /\ Len(Cut(len, cont)) = 1
            /\ \A k \in 1 .. 1 : Cut(len, cont)[k] =
                 [len  |-> IF k < 1 THEN MaxFragmentBytes
                                    ELSE len - (1 - 1) * MaxFragmentBytes,
                  end  |-> IF k < 1 THEN "max-bytes" ELSE "newline",
                  cont |-> k > 1 \/ cont]
        BY <1>1, CutType
      <3>2. 1 \in 1 .. 1 /\ ~(1 < 1)
        OBVIOUS
      <3> QED BY <3>1, <3>2
    <2>2. (1 > 1 \/ cont) = cont
      OBVIOUS
    <2> QED BY <1>2, <2>1, <2>2
  <1>4. r \in Fragment
    BY DEF Fragment
  <1>5. <<r>> \in Seq(Fragment) /\ Len(<<r>>) = 1 /\ <<r>>[1] = r
    <2> HIDE DEF r
    <2> QED BY <1>4
  <1> HIDE DEF r
  <1>6. Cut(len, cont) = <<r>>
    BY <1>3, <1>5, SeqEqual
  <1> QED BY <1>6 DEF r

\* of what is longer one is cut off.
LEMMA CutLong ==
  ASSUME NEW len \in Nat, NEW cont \in BOOLEAN, len > MaxFragmentBytes
  PROVE  /\ len - MaxFragmentBytes \in Nat
         /\ Cut(len, cont) = <<[len |-> MaxFragmentBytes, end |-> "max-bytes", cont |-> cont]>>
                             \o Cut(len - MaxFragmentBytes, TRUE)
  <1> DEFINE M == MaxFragmentBytes
             less == len - M
             n == Count(less)
             r == [len |-> M, end |-> "max-bytes", cont |-> cont]
             tail == Cut(less, TRUE)
             whole == Cut(len, cont)
  <1>1. M \in Nat /\ M >= 1 /\ less \in Nat
    BY PortAssumption
  <1>2. Count(len) = n + 1
    BY CountIs
  <1>3. n \in Nat /\ n >= 1
    BY <1>1, CountIs
  <1>4. /\ tail \in Seq(Fragment) /\ Len(tail) = n
        /\ \A k \in 1 .. n : tail[k] =
             [len |-> IF k < n THEN M ELSE less - (n - 1) * M,
              end |-> IF k < n THEN "max-bytes" ELSE "newline", cont |-> k > 1 \/ TRUE]
    <2>0. TRUE \in BOOLEAN
      OBVIOUS
    <2> HIDE DEF less
    <2> QED BY <1>1, <2>0, CutType
  <1>5. /\ whole \in Seq(Fragment) /\ Len(whole) = n + 1
        /\ \A k \in 1 .. n + 1 : whole[k] =
             [len |-> IF k < n + 1 THEN M ELSE len - n * M,
              end |-> IF k < n + 1 THEN "max-bytes" ELSE "newline", cont |-> k > 1 \/ cont]
    <2>1. (n + 1) - 1 = n
      BY <1>3
    <2>2. /\ whole \in Seq(Fragment) /\ Len(whole) = n + 1
          /\ \A k \in 1 .. n + 1 : whole[k] =
               [len |-> IF k < n + 1 THEN M ELSE len - ((n + 1) - 1) * M,
                end |-> IF k < n + 1 THEN "max-bytes" ELSE "newline", cont |-> k > 1 \/ cont]
      BY <1>2, CutType
    <2> HIDE DEF n, whole
    <2> QED BY <2>1, <2>2
  <1>6. less - (n - 1) * M = len - n * M
    <2>1. n * M \in Int /\ (n - 1) * M = n * M - M
      <3> HIDE DEF n
      <3> QED BY <1>1, <1>3
    <2> QED BY <1>1, <2>1
  <1>7. r \in Fragment /\ <<r>> \in Seq(Fragment) /\ Len(<<r>>) = 1 /\ <<r>>[1] = r
    <2>1. r \in Fragment
      BY <1>1 DEF Fragment
    <2> HIDE DEF r
    <2> QED BY <2>1
  <1> DEFINE m == len - n * M
  <1> HIDE DEF tail, whole, n
  <1>8. \A k \in 1 .. n + 1 : (<<r>> \o tail)[k] = whole[k]
    <2> TAKE k \in 1 .. n + 1
    <2>1. (<<r>> \o tail)[k] = IF k =< 1 THEN <<r>>[k] ELSE tail[k - 1]
      <3> HIDE DEF r
      <3>1. 1 + n = n + 1
        BY <1>3
      <3> QED BY <1>4, <1>7, <3>1, ConcatProperties
    <2>2. CASE k = 1
      <3>1. k < n + 1 /\ (k > 1 \/ cont) = cont
        BY <1>3, <2>2
      <3>2. whole[k] = r
        BY <1>5, <3>1
      <3> QED BY <1>7, <2>1, <2>2, <3>2
    <2>3. CASE k # 1
      <3>1. /\ k - 1 \in 1 .. n /\ ~(k =< 1) /\ k > 1 /\ (k - 1 < n <=> k < n + 1)
        BY <1>3, <2>3
      <3>2. tail[k - 1] = [len |-> IF k - 1 < n THEN M ELSE m,
                           end |-> IF k - 1 < n THEN "max-bytes" ELSE "newline", cont |-> TRUE]
        BY <1>4, <1>6, <3>1
      <3>3. whole[k] = [len |-> IF k < n + 1 THEN M ELSE m,
                        end |-> IF k < n + 1 THEN "max-bytes" ELSE "newline", cont |-> TRUE]
        BY <1>5, <3>1
      <3> QED BY <2>1, <3>1, <3>2, <3>3
    <2> QED BY <2>2, <2>3
  <1>9. <<r>> \o tail \in Seq(Fragment) /\ Len(<<r>> \o tail) = n + 1
    <2> HIDE DEF r
    <2>1. <<r>> \o tail \in Seq(Fragment) /\ Len(<<r>> \o tail) = 1 + n
      BY <1>4, <1>7, ConcatProperties
    <2> QED BY <1>3, <2>1
  <1>a. <<r>> \o tail = whole
    <2> HIDE DEF r
    <2> QED BY <1>5, <1>8, <1>9, SeqEqual
  <1> QED BY <1>1, <1>a DEF tail, whole

\* What Split says is what is to be pushed of an entry when it has been taken.
LEMMA SplitIsCut ==
  ASSUME NEW len \in Nat
  PROVE  Split(len) = Cut(len, FALSE)
  <1>1. \A k \in 1 .. Count(len) : (k > 1 \/ FALSE) = (k > 1)
    OBVIOUS
  <1>2. Split(len) =
          LET n == Count(len)
          IN  [k \in 1 .. n |->
                 [len  |-> IF k < n THEN MaxFragmentBytes ELSE len - (n - 1) * MaxFragmentBytes,
                  end  |-> IF k < n THEN "max-bytes" ELSE "newline",
                  cont |-> k > 1]]
    BY DEF Split, Count
  <1> DEFINE n == Count(len)
  <1> HIDE DEF n
  <1> QED BY <1>1, <1>2 DEF Cut, Fragmented, n

\* The function by which SplitAll joins the fragments of the first n entries e.
NoFragment == << >>

SplitsAll(g, e, n) == g = [i \in 0 .. n |-> IF i = 0 THEN NoFragment ELSE g[i - 1] \o Split(e[i])]

\* What it is for no entry,
LEMMA SplitsAllNone ==
  ASSUME NEW g, NEW e, NEW n \in Nat, SplitsAll(g, e, n)
  PROVE  g[0] = NoFragment
  <1>1. \A i \in 0 .. n : g[i] = IF i = 0 THEN NoFragment ELSE g[i - 1] \o Split(e[i])
    BY DEF SplitsAll
  <1>2. 0 \in 0 .. n
    OBVIOUS
  <1> QED BY <1>1, <1>2

\* and for one more;
LEMMA SplitsAllAt ==
  ASSUME NEW g, NEW e, NEW n \in Nat, SplitsAll(g, e, n)
  PROVE  \A i \in 1 .. n : g[i] = g[i - 1] \o Split(e[i])
  <1>1. \A i \in 0 .. n : g[i] = IF i = 0 THEN NoFragment ELSE g[i - 1] \o Split(e[i])
    BY DEF SplitsAll
  <1>2. \A i \in 1 .. n : i \in 0 .. n /\ i # 0
    OBVIOUS
  <1> QED BY <1>1, <1>2

\* Every set of natural numbers that is not empty has a least element,
LEMMA Least ==
  ASSUME NEW S, S \subseteq Nat, S # {}
  PROVE  \E m \in S : \A n \in S : m =< n
  <1>1. PICK m \in S : \A n \in S : ~(<<n, m>> \in OpToRel(<, Nat))
    BY NatLessThanWellFounded, WFMin
  <1>2. \A n \in S : ~(n < m)
    BY <1>1 DEF OpToRel
  <1> QED BY <1>2

\* so one that has 0, and the next of each that it has, has all of them.
LEMMA Induction ==
  ASSUME NEW S, 0 \in S, \A n \in Nat : n \in S => n + 1 \in S
  PROVE  \A n \in Nat : n \in S
  <1> SUFFICES ASSUME NEW n \in Nat, n \notin S PROVE FALSE
    OBVIOUS
  <1> DEFINE T == Nat \ S
  <1>1. T \subseteq Nat /\ T # {}
    OBVIOUS
  <1>2. PICK m \in T : \A k \in T : m =< k
    <2> HIDE DEF T
    <2> QED BY <1>1, Least
  <1>3. m # 0 /\ m - 1 \in Nat /\ m - 1 \notin T
    BY <1>2
  <1> QED BY <1>2, <1>3

\* The function exists for every n,
LEMMA SplitsAllExists ==
  ASSUME NEW e
  PROVE  \A n \in Nat : \E g : SplitsAll(g, e, n)
  <1> DEFINE S == {n \in Nat : \E g : SplitsAll(g, e, n)}
  <1>1. 0 \in S
    <2> DEFINE g == [i \in 0 .. 0 |-> NoFragment]
    <2>1. SplitsAll(g, e, 0)
      BY DEF SplitsAll
    <2> QED BY <2>1
  <1>2. ASSUME NEW n \in Nat, n \in S
        PROVE  n + 1 \in S
    <2>1. PICK g : SplitsAll(g, e, n)
      BY <1>2
    <2>0. g[0] = NoFragment /\ \A i \in 1 .. n : g[i] = g[i - 1] \o Split(e[i])
      BY <2>1, SplitsAllNone, SplitsAllAt
    <2> DEFINE h == [i \in 0 .. n + 1 |-> IF i = n + 1 THEN g[n] \o Split(e[n + 1]) ELSE g[i]]
    <2>2. \A i \in 0 .. n + 1 : h[i] = IF i = 0 THEN NoFragment ELSE h[i - 1] \o Split(e[i])
      <3> SUFFICES ASSUME NEW i \in 0 .. n + 1
                   PROVE  h[i] = IF i = 0 THEN NoFragment ELSE h[i - 1] \o Split(e[i])
        OBVIOUS
      <3>1. CASE i = n + 1
        BY <3>1
      <3>2. CASE i = 0
        <4>1. h[0] = g[0]
          OBVIOUS
        <4> QED BY <2>0, <3>2, <4>1
      <3>3. CASE i # n + 1 /\ i # 0
        <4>1. i \in 1 .. n /\ h[i] = g[i] /\ h[i - 1] = g[i - 1]
          BY <3>3
        <4> QED BY <2>0, <3>3, <4>1
      <3> QED BY <3>1, <3>2, <3>3
    <2>3. DOMAIN h = 0 .. n + 1 /\ h = [i \in DOMAIN h |-> h[i]]
      OBVIOUS
    <2> HIDE DEF h
    <2>4. SplitsAll(h, e, n + 1)
      BY <2>2, <2>3 DEF SplitsAll
    <2> QED BY <2>4
  <1> HIDE DEF S
  <1>3. \A n \in Nat : n \in S
    BY <1>1, <1>2, Induction
  <1> QED BY <1>3 DEF S

\* and what it joins is a sequence of fragments.
LEMMA SplitsAllType ==
  ASSUME NEW e \in Seq(Nat), NEW g, SplitsAll(g, e, Len(e))
  PROVE  \A i \in 0 .. Len(e) : g[i] \in Seq(Fragment)
  <1>1. Len(e) \in Nat /\ \A i \in 1 .. Len(e) : e[i] \in Nat
    BY LenProperties, ElementOfSeq
  <1> DEFINE N == {n \in Nat : n =< Len(e) => g[n] \in Seq(Fragment)}
  <1>2. 0 \in N
    BY <1>1, SplitsAllNone, EmptySeq DEF NoFragment
  <1>3. ASSUME NEW n \in Nat, n \in N
        PROVE  n + 1 \in N
    <2> SUFFICES ASSUME n + 1 =< Len(e) PROVE g[n + 1] \in Seq(Fragment)
      OBVIOUS
    <2>1. g[n] \in Seq(Fragment) /\ n + 1 \in 1 .. Len(e) /\ (n + 1) - 1 = n
      BY <1>1, <1>3
    <2>2. g[n + 1] = g[n] \o Split(e[n + 1])
      <3>1. \A i \in 1 .. Len(e) : g[i] = g[i - 1] \o Split(e[i])
        BY <1>1, SplitsAllAt
      <3> QED BY <2>1, <3>1
    <2>3. Split(e[n + 1]) \in Seq(Fragment)
      <3>1. e[n + 1] \in Nat /\ FALSE \in BOOLEAN
        BY <1>1, <2>1
      <3> HIDE DEF N
      <3> QED BY <3>1, SplitIsCut, CutType
    <2> QED BY <2>1, <2>2, <2>3, ConcatProperties
  <1> HIDE DEF N
  <1>4. \A n \in Nat : n \in N
    BY <1>2, <1>3, Induction
  <1> QED BY <1>1, <1>4 DEF N

\* It is the same for entries that are the same so far.
SameEntries(e, f, n) == \A i \in 1 .. n : e[i] = f[i]

LEMMA SplitsAllAgree ==
  ASSUME NEW e, NEW f, NEW n \in Nat, SameEntries(e, f, n),
         NEW g, NEW h, SplitsAll(g, e, n), SplitsAll(h, f, n + 1)
  PROVE  g[n] = h[n]
  <1> DEFINE N == {k \in Nat : k =< n => g[k] = h[k]}
  <1>1. 0 \in N
    <2>1. n + 1 \in Nat
      OBVIOUS
    <2> QED BY <2>1, SplitsAllNone
  <1>2. ASSUME NEW k \in Nat, k \in N
        PROVE  k + 1 \in N
    <2> SUFFICES ASSUME k + 1 =< n PROVE g[k + 1] = h[k + 1]
      OBVIOUS
    <2>1. /\ k + 1 \in 1 .. n /\ k + 1 \in 1 .. n + 1 /\ (k + 1) - 1 = k /\ e[k + 1] = f[k + 1]
          /\ n + 1 \in Nat /\ k =< n
      BY DEF SameEntries
    <2>2. \A i \in 1 .. n : g[i] = g[i - 1] \o Split(e[i])
      BY SplitsAllAt
    <2>3. \A i \in 1 .. n + 1 : h[i] = h[i - 1] \o Split(f[i])
      BY <2>1, SplitsAllAt
    <2>4. g[k + 1] = g[k] \o Split(e[k + 1]) /\ h[k + 1] = h[k] \o Split(f[k + 1])
      BY <2>1, <2>2, <2>3
    <2> QED BY <1>2, <2>1, <2>4
  <1> HIDE DEF N
  <1>3. \A k \in Nat : k \in N
    BY <1>1, <1>2, Induction
  <1> QED BY <1>3 DEF N

\* SplitAll is that function of the entries:
LEMMA SplitAllIs ==
  ASSUME entries \in Seq(Nat)
  PROVE  /\ SplitsAll(SplitAll, entries, Len(entries))
         /\ SplitAll[Len(entries)] \in Seq(Fragment)
  <1>1. Len(entries) \in Nat /\ Len(entries) \in 0 .. Len(entries)
    BY LenProperties
  <1> DEFINE g == CHOOSE f : SplitsAll(f, entries, Len(entries))
  <1>2. SplitsAll(g, entries, Len(entries))
    BY <1>1, SplitsAllExists
  <1>3. SplitAll = g
    BY DEF SplitAll, SplitsAll, NoFragment
  <1> HIDE DEF g
  <1>4. SplitsAll(SplitAll, entries, Len(entries))
    BY <1>2, <1>3
  <1> QED BY <1>1, <1>4, SplitsAllType

\* nothing for no entry,
LEMMA SplitAllNone == entries = << >> => SplitAll[Len(entries)] = << >>
  <1> SUFFICES ASSUME entries = << >> PROVE SplitAll[Len(entries)] = << >>
    OBVIOUS
  <1>1. entries \in Seq(Nat) /\ Len(entries) = 0 /\ Len(entries) \in Nat
    OBVIOUS
  <1> QED BY <1>1, SplitAllIs, SplitsAllNone DEF NoFragment

\* and what it was before, joined with the fragments of the entry taken.
LEMMA SplitAllTakes ==
  ASSUME entries \in Seq(Nat), NEW len \in Nat, entries' = Append(entries, len)
  PROVE  SplitAll'[Len(entries')] = SplitAll[Len(entries)] \o Cut(len, FALSE)
  <1> DEFINE n == Len(entries)
  <1>1. /\ n \in Nat /\ entries' \in Seq(Nat) /\ Len(entries') = n + 1
        /\ entries'[n + 1] = len /\ \A i \in 1 .. n : entries[i] = entries'[i]
    BY AppendProperties, LenProperties
  <1>2. SplitsAll(SplitAll, entries, n)
    BY SplitAllIs
  <1>3. SplitsAll(SplitAll', entries', n + 1)
    <2> DEFINE h == CHOOSE f : SplitsAll(f, entries', Len(entries'))
    <2>1. SplitsAll(h, entries', Len(entries'))
      <3>1. Len(entries') \in Nat
        BY <1>1
      <3>2. \E f : SplitsAll(f, entries', Len(entries'))
        BY <3>1, SplitsAllExists
      <3> QED BY <3>2
    <2>2. SplitAll' = h
      BY DEF SplitAll, SplitsAll, NoFragment
    <2> HIDE DEF h
    <2> QED BY <1>1, <2>1, <2>2
  <1> DEFINE g == SplitAll
             h == SplitAll'
  <1>g. SplitsAll(g, entries, n) /\ SplitsAll(h, entries', n + 1)
    BY <1>2, <1>3
  <1> HIDE DEF g, h, n
  <1>4. g[n] = h[n]
    <2>1. SameEntries(entries, entries', n) /\ n \in Nat
      BY <1>1 DEF SameEntries
    <2> QED BY ONLY <1>g, <2>1, SplitsAllAgree
  <1>5. h[n + 1] = h[n] \o Split(len)
    <2>1. n + 1 \in Nat /\ n + 1 \in 1 .. n + 1 /\ (n + 1) - 1 = n
      BY <1>1
    <2>2. \A i \in 1 .. n + 1 : h[i] = h[i - 1] \o Split(entries'[i])
      BY <1>g, <2>1, SplitsAllAt
    <2> QED BY <1>1, <2>1, <2>2
  <1>6. h[Len(entries')] = g[Len(entries)] \o Split(len)
    BY <1>1, <1>4, <1>5 DEF n
  <1> QED BY <1>6, SplitIsCut DEF g, h
----------------------------------------------------------------------------
(***************************************************************************)
(* The fragments of datagrams and journal entries.                         *)
(***************************************************************************)
\* What is still to be pushed of the current entry.
Remaining == IF main = "push" THEN Cut(rest.len, rest.cont) ELSE << >>

\* The inductive invariant: what the queue has taken and what remains are what
\* Split says of the entries, unless the queue was closed meanwhile.
Pieces ==
  /\ frags \in Seq(Fragment)
  /\ main = "push" => rest \in [len : Nat, cont : BOOLEAN]
  /\ ~refused => frags \o Remaining = SplitAll[Len(entries)]

\* A step that leaves the current entry alone,
LEMMA PiecesLeft ==
  ASSUME Pieces, UNCHANGED entryVars, refused => refused', main' = "push" <=> main = "push"
  PROVE  Pieces'
  <1>1. UNCHANGED <<rest, entries, frags>>
    BY DEF entryVars
  <1>2. Remaining' = Remaining
    BY <1>1 DEF Remaining
  <1>3. SplitAll' = SplitAll
    BY <1>1 DEF SplitAll
  <1> QED BY <1>1, <1>2, <1>3 DEF Pieces

\* one that takes the next,
LEMMA TakePieces ==
  ASSUME Pieces, entries \in Seq(Nat), main # "push", NEW len \in Nat, TakeEntry(len),
         UNCHANGED refused
  PROVE  Pieces'
  <1>1. /\ entries' = Append(entries, len) /\ rest' = [len |-> len, cont |-> FALSE]
        /\ main' = "push" /\ frags' = frags
    BY DEF TakeEntry
  <1>2. rest' \in [len : Nat, cont : BOOLEAN]
    BY <1>1
  <1>3. Remaining' = Cut(len, FALSE)
    BY <1>1 DEF Remaining
  <1>4. ASSUME ~refused
        PROVE  frags' \o Remaining' = SplitAll'[Len(entries')]
    <2>1. frags = SplitAll[Len(entries)]
      BY <1>4, ConcatEmptySeq DEF Pieces, Remaining
    <2>2. SplitAll'[Len(entries')] = SplitAll[Len(entries)] \o Cut(len, FALSE)
      BY <1>1, SplitAllTakes
    <2> QED BY <1>1, <1>3, <2>1, <2>2
  <1> QED BY <1>1, <1>2, <1>4 DEF Pieces

\* and a Push of the next fragment.
LEMMA PushPieces ==
  ASSUME Pieces, NEW next, next # "push", PushFragment(next)
  PROVE  Pieces'
  <1> DEFINE M == MaxFragmentBytes
             more == rest.len > M
             rec == [len |-> IF more THEN M ELSE rest.len,
                     end |-> IF more THEN "max-bytes" ELSE "newline", cont |-> rest.cont]
  <1>1. /\ main = "push" /\ PushReturns /\ entries' = entries
        /\ frags' = IF shut THEN frags ELSE Append(frags, rec)
        /\ rest' = IF more THEN [len |-> rest.len - M, cont |-> TRUE] ELSE Nothing
        /\ main' = IF more THEN "push" ELSE next
    BY DEF PushFragment
  <1>2. /\ rest.len \in Nat /\ rest.cont \in BOOLEAN /\ frags \in Seq(Fragment)
        /\ M \in Nat /\ M >= 1
    BY <1>1, PortAssumption DEF Pieces
  <1>3. rec \in Fragment
    <2>1. (IF more THEN M ELSE rest.len) \in Nat
      BY <1>2
    <2> QED BY <1>2, <2>1 DEF Fragment
  <1>4. (refused => refused') /\ (shut => refused') /\ (~shut => refused' = refused)
    BY <1>1 DEF PushReturns
  <1>5. SplitAll' = SplitAll
    BY <1>1 DEF SplitAll
  <1> HIDE DEF rec
  <1>6. frags' \in Seq(Fragment)
    BY <1>1, <1>2, <1>3, AppendProperties
  <1>7. main' = "push" => more
    BY <1>1
  <1>8. main' = "push" => rest' \in [len : Nat, cont : BOOLEAN]
    <2> SUFFICES ASSUME more PROVE rest' \in [len : Nat, cont : BOOLEAN]
      BY <1>7
    <2>1. rest.len - M \in Nat
      BY <1>2
    <2> QED BY <1>1, <2>1
  <1>9. Cut(rest.len, rest.cont) = <<rec>> \o Remaining' /\ Remaining' \in Seq(Fragment)
    <2>1. CASE more
      <3>1. /\ rest.len - M \in Nat
            /\ Cut(rest.len, rest.cont) =
                 <<[len |-> M, end |-> "max-bytes", cont |-> rest.cont]>> \o Cut(rest.len - M, TRUE)
        BY <1>2, <2>1, CutLong
      <3>2. rec = [len |-> M, end |-> "max-bytes", cont |-> rest.cont]
        BY <2>1 DEF rec
      <3>3. Remaining' = Cut(rest.len - M, TRUE)
        BY <1>1, <2>1 DEF Remaining
      <3>4. Cut(rest.len - M, TRUE) \in Seq(Fragment)
        BY <3>1, CutType
      <3> QED BY <3>1, <3>2, <3>3, <3>4
    <2>2. CASE ~more
      <3>1. Cut(rest.len, rest.cont) = <<[len |-> rest.len, end |-> "newline", cont |-> rest.cont]>>
        BY <1>2, <2>2, CutShort
      <3>2. rec = [len |-> rest.len, end |-> "newline", cont |-> rest.cont]
        BY <2>2 DEF rec
      <3>3. Remaining' = << >>
        BY <1>1, <2>2 DEF Remaining
      <3>4. << >> \in Seq(Fragment) /\ <<rec>> \in Seq(Fragment) /\ <<rec>> \o << >> = <<rec>>
        BY <1>3, ConcatEmptySeq
      <3> QED BY <3>1, <3>2, <3>3, <3>4
    <2> QED BY <2>1, <2>2
  <1>a. ASSUME ~refused'
        PROVE  frags' \o Remaining' = SplitAll'[Len(entries')]
    <2>1. ~shut /\ ~refused /\ frags' = Append(frags, rec)
      BY <1>1, <1>4, <1>a
    <2>2. frags \o Cut(rest.len, rest.cont) = SplitAll[Len(entries)]
      BY <1>1, <2>1 DEF Pieces, Remaining
    <2>3. Append(frags, rec) = frags \o <<rec>> /\ <<rec>> \in Seq(Fragment)
      BY <1>2, <1>3, AppendIsConcat
    <2> DEFINE r == Remaining'
               one == <<rec>>
    <2>4. frags \in Seq(Fragment) /\ one \in Seq(Fragment) /\ r \in Seq(Fragment)
      BY <1>2, <1>9, <2>3
    <2> HIDE DEF r, one
    <2>5. (frags \o one) \o r = frags \o (one \o r)
      BY ONLY <2>4, ConcatAssociative
    <2> QED BY <1>1, <1>5, <1>9, <2>1, <2>2, <2>3, <2>5 DEF r, one
  <1> QED BY <1>6, <1>8, <1>a DEF Pieces

\* Every step.
LEMMA PiecesKeep == SourcesInv /\ Pieces /\ [Next]_vars => Pieces'
  <1> SUFFICES ASSUME SourcesInv, Pieces, [Next]_vars PROVE Pieces'
    OBVIOUS
  <1>0. entries \in Seq(Nat) /\ stdout \in Seq(MessageLengths \cup {Bad})
    BY DEF SourcesInv, PipeInv, PipeCounts
  <1> DEFINE Left == UNCHANGED entryVars /\ (refused => refused') /\ (main' = "push" <=> main = "push")
  <1>1. CASE Left
    BY <1>1, PiecesLeft
  <1>2. CASE UNCHANGED vars \/ ClosesNext \/ WriterNext \/ StartFails
    <2>1. Left
      BY <1>2 DEF vars, portVars, queueVars, runVars, ClosesNext, AnyoneCloses, WriterNext,
         WriterPops, WriterFails, WriterGone, StartFails, OpenFails, CloseQueue
    <2> QED BY <1>1, <2>1
  <1>3. CASE kind # "journal" /\ NetworkNext /\ UNCHANGED <<kind, journalVars>>
    <2>1. CASE \/ Listen \/ PublishSocket \/ CloseSocket \/ CloseConns \/ SocketError \/ Drain
               \/ Finish \/ Check
      <3>1. Left
        BY <2>1, <1>3 DEF queueVars, runVars, Listen, PublishSocket, CloseSocket, CloseConns, Check,
           SocketError, Drain, Finish, Open, Publish, Shut, Report, CloseQueue,
           SourcesInv, LifeInv, LifeTypes, Life
      <3> QED BY <1>1, <3>1
    <2>2. ASSUME NEW c \in Conns,
                 \/ Accept(c) \/ AddConn(c) \/ ReadLine(c) \/ ReadEnds(c) \/ RemoveConn(c)
                 \/ ConnOver(c)
          PROVE  Pieces'
      <3>1. Left
        BY <2>2 DEF queueVars, runVars, Accept, AddConn, AddConn_If, ReadLine, ReadEnds,
           RemoveConn, ConnOver
      <3> QED BY <1>1, <3>1
    <2>3. ASSUME NEW c \in Conns, PushLine(c)
          PROVE  Pieces'
      <3>1. Left
        BY <2>3 DEF PushLine, PushReturns, runVars
      <3> QED BY <1>1, <3>1
    <2>4. ASSUME NEW len \in DatagramLengths, Datagram(len)
          PROVE  Pieces'
      <3>1. TakeEntry(len) /\ main # "push" /\ UNCHANGED refused /\ len \in Nat
        BY <2>4, NetworkAssumption DEF Datagram, queueVars
      <3> QED BY <1>0, <3>1, TakePieces
    <2>5. CASE PushDatagram
      BY <2>5, PushPieces DEF PushDatagram
    <2> QED BY <1>3, <2>1, <2>2, <2>3, <2>4, <2>5 DEF NetworkNext, NetworkMain, ConnStep
  <1>4. CASE kind = "journal" /\ JournalNext /\ UNCHANGED <<kind, networkVars>>
    <2>1. CASE PushEntry
      BY <2>1, PushPieces DEF PushEntry
    <2>2. CASE ReadEntry
      <3>1. CASE Head(stdout) = Bad
        <4>1. Left
          BY <2>2, <3>1 DEF ReadEntry, queueVars
        <4> QED BY <1>1, <4>1
      <3>2. CASE Head(stdout) # Bad
        <4>1. TakeEntry(Head(stdout)) /\ main # "push" /\ UNCHANGED refused /\ stdout # << >>
          BY <2>2, <3>2 DEF ReadEntry, queueVars
        <4>2. Head(stdout) \in MessageLengths \cup {Bad}
          BY <1>0, <4>1, HeadTailProperties
        <4>3. Head(stdout) \in Nat
          BY <3>2, <4>2, JournalAssumption
        <4> QED BY <1>0, <4>1, <4>3, TakePieces
      <3> QED BY <3>1, <3>2
    <2>3. CASE ~PushEntry /\ ~ReadEntry
      <3>1. Left
        BY <1>4, <2>3 DEF JournalNext, JournalMain, portVars, queueVars, runVars, StartProcess,
           PublishProcess, CloseTerm, CloseKill, Prints, WantsToComplain, Complain, Exit, Die,
           ReadStderr, StderrSent, Reap, GraceOver, EndOfEntries, Terminate, Waited, Judge,
           FinishJournal, Open, Publish, Shut, Report, CloseQueue, SourcesInv, LifeInv, Life
      <3> QED BY <1>1, <3>1
    <2> QED BY <2>1, <2>2, <2>3
  <1> QED BY <1>2, <1>3, <1>4 DEF Next

(***************************************************************************)
(* In every reachable state the fragments taken by the queue and those that *)
(* remain of the current entry are the fragments of the entries.           *)
(***************************************************************************)
THEOREM PiecesInvariant == Spec => [](SourcesInv /\ Pieces)
  <1>1. Init => Pieces
    <2> SUFFICES ASSUME Init PROVE Pieces
      OBVIOUS
    <2>1. frags = << >> /\ entries = << >> /\ main # "push" /\ << >> \in Seq(Fragment)
      BY DEF Init, PortInit
    <2>2. << >> \o << >> = << >>
      OBVIOUS
    <2> QED BY <2>1, <2>2, SplitAllNone DEF Pieces, Remaining
  <1> QED BY <1>1, SourcesInvariant, PiecesKeep, PTL DEF Spec

(***************************************************************************)
(* Datagrams and journal entries of any length come as the fragments Split *)
(* says, for every limit, in order and with their flags, whatever happens  *)
(* between two of them (pushDatagram, pushJournalLine).                    *)
(***************************************************************************)
THEOREM FragmentsAreSplit == Spec => []FragmentsRejoin
  <1>1. SourcesInv /\ Pieces => FragmentsRejoin
    <2> SUFFICES ASSUME Pieces, ~refused
                 PROVE  LET all == SplitAll[Len(entries)]
                        IN  IF main = "push" THEN IsStrictPrefix(frags, all) ELSE frags = all
      BY DEF FragmentsRejoin
    <2> DEFINE all == SplitAll[Len(entries)]
    <2>1. frags \in Seq(Fragment) /\ frags \o Remaining = all
      BY DEF Pieces
    <2>2. CASE main # "push"
      BY <2>1, <2>2, ConcatEmptySeq DEF Remaining
    <2>3. CASE main = "push"
      <3> DEFINE r == Remaining
      <3>1. r \in Seq(Fragment) /\ Len(r) \in Nat /\ Len(r) >= 1
        <4>1. rest.len \in Nat /\ rest.cont \in BOOLEAN
          BY <2>3 DEF Pieces
        <4>2. Remaining = Cut(rest.len, rest.cont)
          BY <2>3 DEF Remaining
        <4>3. r \in Seq(Fragment) /\ Len(r) = Count(rest.len)
          BY <4>1, <4>2, CutType
        <4> QED BY <4>1, <4>3, CountIs
      <3> HIDE DEF r, all
      <3>2. /\ Len(frags) \in Nat /\ Len(frags \o r) = Len(frags) + Len(r)
            /\ SubSeq(frags \o r, 1, Len(frags)) = frags
            /\ SubSeq(frags, 1, Len(frags)) = frags
        BY <2>1, <3>1, LenProperties, ConcatProperties, ConcatSimplifications, SubSeqOfConcat1,
           SubSeqFull
      <3>3. IsPrefix(frags, frags \o r) /\ frags # frags \o r
        <4> DEFINE joined == frags \o r
        <4>1. /\ Len(frags) \in Nat /\ Len(joined) = Len(frags) + Len(r)
              /\ SubSeq(joined, 1, Len(frags)) = SubSeq(frags, 1, Len(frags))
          BY <3>2
        <4> HIDE DEF joined
        <4>2. Len(frags) =< Len(joined) /\ Len(frags) # Len(joined)
          BY <3>1, <4>1
        <4>3. IsPrefix(frags, joined) /\ frags # joined
          BY <4>1, <4>2 DEF IsPrefix
        <4> QED BY <4>3 DEF joined
      <3> QED BY <2>1, <2>3, <3>3 DEF IsStrictPrefix, r, all
    <2> QED BY <2>2, <2>3
  <1> QED BY <1>1, PiecesInvariant, PTL
=============================================================================
