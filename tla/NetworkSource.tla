---------------------------- MODULE NetworkSource ----------------------------
(***************************************************************************)
(* networkSource (source_network.go): the accept loop with one framer per  *)
(* TCP connection, all of them pushing into one queue, or the UDP loop;    *)
(* Close, which may come from any goroutine at any time; and the peers,    *)
(* which connect, send and go as they like.  A framer is reduced to the    *)
(* records it pushes, the partial line left at the end included; module    *)
(* Framer has the rest.                                                    *)
(***************************************************************************)
EXTENDS SourcePort

CONSTANTS
  Conns,           \* the connections peers may make
  ConnectionLimits, \* values of max_connections explored
  LineBound,       \* bound: records of one connection
  DatagramLengths  \* of the lines datagrams carry

ASSUME NetworkAssumption ==
  /\ ConnectionLimits \subseteq Nat \ {0}
  /\ LineBound \in Nat
  /\ DatagramLengths \subseteq Nat

VARIABLES
  maxConnections,
  socket,    \* the listener or packet socket: "none", "open" or "closed"
  conn,      \* connection -> where it stands
  fd,        \* connections open on this side
  table,     \* conns, the connections Close will close
  active,    \* the count compared with it
  holding,   \* the connection Accept returned, in a set
  snapshot,  \* connections Close has still to close
  lines,     \* connection -> records framed so far
  gauge      \* stats.TCPActive

connVars == <<conn, fd, table, active, holding, lines, gauge>>
networkVars == <<maxConnections, socket, snapshot, connVars>>

NetworkInit ==
  /\ maxConnections \in ConnectionLimits
  /\ socket = "none" /\ snapshot = {}
  /\ conn = [c \in Conns |-> "none"] /\ fd = {} /\ table = {} /\ active = 0
  /\ holding = {} /\ lines = [c \in Conns |-> 0] /\ gauge = 0

Goes(c, to) == conn' = [conn EXCEPT ![c] = to]
----------------------------------------------------------------------------
Listen ==
  /\ Open
  /\ socket' = "open"
  /\ UNCHANGED <<maxConnections, snapshot, connVars, writer, entryVars>>

PublishSocket ==
  /\ Publish(IF kind = "tcp" THEN "accept" ELSE "read")
  /\ UNCHANGED <<networkVars, writer, entryVars>>

\* Close: with the lock held it copies the table as it sets the flag.
CopyTable ==
  /\ snapshot' = IF closed' # closed THEN table ELSE snapshot
  /\ UNCHANGED <<maxConnections, socket, connVars>>

CloseSocket ==
  /\ closer = "first" /\ closer' = "rest"
  /\ socket' = "closed"
  /\ UNCHANGED <<maxConnections, snapshot, connVars, closed, cut, runVars, queueVars, writer, entryVars>>

CloseConns ==
  /\ closer = "rest"
  /\ IF snapshot = {} THEN closer' = "done" /\ UNCHANGED <<snapshot, fd>>
     ELSE \E c \in snapshot : /\ fd' = fd \ {c}
                              /\ snapshot' = snapshot \ {c}
                              /\ UNCHANGED closer
  /\ UNCHANGED <<maxConnections, socket, conn, table, active, holding, lines, gauge, closed, cut,
                 runVars, queueVars, writer, entryVars>>
----------------------------------------------------------------------------
(***************************************************************************)
(* The accept loop.                                                        *)
(***************************************************************************)
\* A peer has connected.
Accept(c) ==
  /\ main = "accept" /\ socket = "open" /\ conn[c] = "none"
  /\ main' = "add"
  /\ Goes(c, "held") /\ holding' = {c} /\ fd' = fd \cup {c}
  /\ UNCHANGED <<maxConnections, socket, snapshot, table, active, lines, gauge,
                 start, verdict, done, closeVars, queueVars, writer, entryVars>>

\* addConn, then the connection's goroutine is started or the connection closed.
AddConn_If(c, ok) ==
  /\ main = "add" /\ c \in holding
  /\ main' = "accept" /\ holding' = {}
  /\ IF ok
       THEN /\ table' = table \cup {c} /\ active' = active + 1 /\ gauge' = gauge + 1
            /\ Goes(c, "reading")
            /\ UNCHANGED fd
       ELSE /\ Goes(c, "over") /\ fd' = fd \ {c}
            /\ UNCHANGED <<table, active, gauge>>
  /\ UNCHANGED <<maxConnections, socket, snapshot, lines,
                 start, verdict, done, closeVars, queueVars, writer, entryVars>>

\* Mutant: the limit is off by one.
AddConn_OneMore(c) == AddConn_If(c, ~closed /\ active =< maxConnections)

AddConn(c) == AddConn_If(c, ~closed /\ active < maxConnections)

\* Accept or ReadFrom fails: always once the socket is closed, else on its own.
SocketError ==
  /\ main \in {"accept", "read"}
  /\ main' = "check"
  /\ UNCHANGED <<networkVars, start, verdict, done, closeVars, queueVars, writer, entryVars>>

\* Mutant: the error counts although the source was closed.
Check_Always ==
  /\ main = "check"
  /\ verdict' = "err" /\ main' = "report"
  /\ UNCHANGED <<networkVars, start, done, closeVars, queueVars, writer, entryVars>>

\* isClosed decides what the error means.
Check ==
  /\ main = "check"
  /\ IF closed THEN verdict' = "nil" /\ main' = "drain"
               ELSE verdict' = "err" /\ main' = "report"
  /\ UNCHANGED <<networkVars, start, done, closeVars, queueVars, writer, entryVars>>

\* Mutant: nobody waits for the connections' goroutines.
Drain_NoWait ==
  /\ main = "drain" /\ main' = "shut"
  /\ UNCHANGED <<networkVars, start, verdict, done, closeVars, queueVars, writer, entryVars>>

\* wg.Wait; the UDP loop has no other goroutines.
Drain ==
  /\ main = "drain" /\ \A c \in Conns : conn[c] \in {"none", "over"}
  /\ main' = "shut"
  /\ UNCHANGED <<networkVars, start, verdict, done, closeVars, queueVars, writer, entryVars>>

\* A closed source closes the queue and reports nil; one that failed reports the
\* error first, and its connections still run when it closes the queue.
Finish ==
  /\ \/ Shut("shut", "report")
     \/ Report(IF verdict = "err" THEN "lateShut" ELSE "over")
     \/ Shut("lateShut", "over")
  /\ UNCHANGED <<networkVars, writer, entryVars>>
----------------------------------------------------------------------------
(***************************************************************************)
(* One connection: its chunk reader and framer, then removeConn.           *)
(***************************************************************************)
ReadLine(c) ==
  /\ conn[c] = "reading" /\ c \in fd /\ lines[c] < LineBound
  /\ Goes(c, "pushing") /\ lines' = [lines EXCEPT ![c] = @ + 1]
  /\ UNCHANGED <<maxConnections, socket, snapshot, fd, table, active, holding, gauge,
                 runVars, closeVars, queueVars, writer, entryVars>>

\* The peer is gone, or the connection was closed here: the rest of a line is
\* framed as it is.
ReadEnds(c) ==
  /\ conn[c] = "reading"
  /\ \/ Goes(c, "ended") /\ UNCHANGED lines
     \/ lines[c] < LineBound /\ Goes(c, "last") /\ lines' = [lines EXCEPT ![c] = @ + 1]
  /\ UNCHANGED <<maxConnections, socket, snapshot, fd, table, active, holding, gauge,
                 runVars, closeVars, queueVars, writer, entryVars>>

PushLine(c) ==
  /\ conn[c] \in {"pushing", "last"}
  /\ PushReturns
  /\ Goes(c, IF conn[c] = "last" THEN "ended" ELSE "reading")
  /\ UNCHANGED <<maxConnections, socket, snapshot, fd, table, active, holding, lines, gauge,
                 runVars, closeVars, writer, entryVars>>

RemoveConn(c) ==
  /\ conn[c] = "ended"
  /\ table' = table \ {c}
  /\ active' = IF c \in table THEN active - 1 ELSE active
  /\ Goes(c, "removed")
  /\ UNCHANGED <<maxConnections, socket, snapshot, fd, holding, lines, gauge,
                 runVars, closeVars, queueVars, writer, entryVars>>

ConnOver(c) ==
  /\ conn[c] = "removed"
  /\ fd' = fd \ {c} /\ gauge' = gauge - 1
  /\ Goes(c, "over")
  /\ UNCHANGED <<maxConnections, socket, snapshot, table, active, holding, lines,
                 runVars, closeVars, queueVars, writer, entryVars>>
----------------------------------------------------------------------------
(***************************************************************************)
(* The UDP loop: a datagram is a line, less its final line breaks.         *)
(***************************************************************************)
Datagram(len) ==
  /\ kind = "udp" /\ main = "read" /\ socket = "open" /\ Len(entries) < EntryBound
  /\ TakeEntry(len)
  /\ UNCHANGED <<networkVars, start, verdict, done, closeVars, queueVars, writer>>

PushDatagram ==
  /\ kind = "udp"
  /\ PushFragment("read")
  /\ UNCHANGED <<networkVars, start, verdict, done, closeVars, writer>>

NetworkMain ==
  \/ Check \/ Drain \/ Finish
  \/ \E c \in Conns : AddConn(c)
  \/ PushDatagram

ConnStep(c) == PushLine(c) \/ RemoveConn(c) \/ ConnOver(c)

NetworkNext ==
  \/ Listen \/ PublishSocket \/ CloseSocket \/ CloseConns
  \/ SocketError \/ NetworkMain
  \/ \E c \in Conns : Accept(c) \/ ReadLine(c) \/ ReadEnds(c) \/ ConnStep(c)
  \/ \E len \in DatagramLengths : Datagram(len)
----------------------------------------------------------------------------
(***************************************************************************)
(* Accept, Close and the ends of connections race over the table: it has   *)
(* exactly the connections whose framer runs, never more than allowed, and *)
(* the gauge counts them until they are closed.  A source that ended       *)
(* because it was closed has left neither connection nor count behind.     *)
(***************************************************************************)
ConnectionTable ==
  /\ table = {c \in Conns : conn[c] \in {"reading", "pushing", "last", "ended"}}
  /\ active = Cardinality(table) /\ active =< maxConnections
  /\ gauge = active + Cardinality({c \in Conns : conn[c] = "removed"})
  /\ kind = "tcp" /\ done = "nil" => gauge = 0 /\ fd = {}
============================================================================
