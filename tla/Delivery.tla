------------------------------- MODULE Delivery -------------------------------
(***************************************************************************)
(* From the queues to the outputs (writer.go, sink.go, sink_fanout.go,     *)
(* sink_wrapper.go, runner.go): the outputs are opened one after the       *)
(* other, each input's writer pops its records, strips them and calls the  *)
(* sink, which passes the call on to the outputs, one after the other.     *)
(* The daemon's writers share the sink under a lock and cannot close it;   *)
(* its parent does, when all writers have returned.  That it does so early *)
(* when an input cannot be started is module Daemon's.  A writer without a *)
(* daemon closes the sink itself.                                          *)
(*                                                                         *)
(* Any output may fail in any call.  What a queue holds and loses is       *)
(* module Queue's, what an output does with a record its own module's.     *)
(***************************************************************************)
EXTENDS Stripper, Integers, FiniteSets

CONSTANTS
  RecordBound,   \* bound on the records popped
  ByteBound      \* bound on the bytes of all of them, where they have control bytes

Nobody == [op |-> "none"]
Bytes == {"Esc", "[", "]", "\\", "BEL", "letter"}

VARIABLES
  daemon,     \* whether the writers share the sink
  modes,      \* the ANSI mode of each writer's input
  phase,      \* "config", "opening", "running", "closing" or "done"
  opened,     \* each output's state: "none", "open" or "failed"
  stripper,   \* each writer's ansiStripper
  writer,     \* each writer: "running", "nil" or "err"
  call,       \* the call of the sink under way: operation, caller, next output, first error
  result,     \* what the runner returns: "none", "setup", "nil" or "err"
  \* What the properties look back on.
  popped,     \* the bytes each writer has popped
  offered,    \* the records WriteRecord was called with; rejected: the output that failed
  taken,      \* the records each output has taken, as indices of offered
  closes,     \* how often each output was closed
  fault       \* whether an output has failed in a call

deliveryVars == <<daemon, modes, phase, opened, stripper, writer, call, result,
                  popped, offered, taken, closes, fault>>

Writers  == DOMAIN modes
OutputsK == DOMAIN opened
----------------------------------------------------------------------------
(***************************************************************************)
(* NewSink: an output that cannot be opened has those before it closed.    *)
(***************************************************************************)
NextOutput == CHOOSE k \in OutputsK : opened[k] # "open" /\ \A j \in 1 .. k - 1 : opened[j] = "open"

OpenOutput ==
  /\ phase = "opening"
  /\ opened' = [opened EXCEPT ![NextOutput] = "open"]
  /\ phase' = IF NextOutput = Len(opened) THEN "running" ELSE "opening"
  /\ UNCHANGED <<daemon, modes, stripper, writer, call, result, popped, offered, taken, closes, fault>>

OpenFails ==
  /\ phase = "opening"
  /\ opened' = [opened EXCEPT ![NextOutput] = "failed"]
  /\ closes' = [k \in OutputsK |-> IF opened[k] = "open" THEN closes[k] + 1 ELSE closes[k]]
  /\ phase' = "done" /\ result' = "setup"
  /\ UNCHANGED <<daemon, modes, stripper, writer, call, popped, offered, taken, fault>>
----------------------------------------------------------------------------
(***************************************************************************)
(* The writers.  A call of the sink starts when nobody else's is under     *)
(* way: lockedSink in the daemon; elsewhere there is one writer only.      *)
(* What a writer does before it waits for the lock is its own.             *)
(***************************************************************************)
Free(w) == phase = "running" /\ writer[w] = "running" /\ call = Nobody

Calls(op, by) == call' = [op |-> op, by |-> by, k |-> 1, err |-> FALSE]

\* The lines popped next: any bytes where a writer of its own strips for one output,
\* a letter where the properties are about more of them.
Lines(w) ==
  IF ~daemon /\ modes[w] = "strip" /\ Len(opened) = 1
  THEN UNION {[1 .. n -> Bytes] : n \in 1 .. ByteBound - Len(popped[w])}
  ELSE {<<"letter">>}

Written(w, line) == offered' = Append(offered, [by |-> w, line |-> line, rejected |-> 0])

\* drainQueue: a record of the input.
WriteNext(w) ==
  /\ Free(w)
  /\ Len(offered) < RecordBound
  /\ \E line \in Lines(w) :
       LET s == IF modes[w] = "strip" THEN Strip(stripper[w], line)
                ELSE [state |-> stripper[w], out |-> line]
       IN  /\ stripper' = [stripper EXCEPT ![w] = s.state]
           /\ popped' = [popped EXCEPT ![w] = @ \o line]
           /\ Written(w, s.out)
  /\ Calls("write", w)
  /\ UNCHANGED <<daemon, modes, phase, opened, writer, result, taken, closes, fault>>

\* emitDropSummary and diagnostics: an internal record, which is not stripped.
WriteInternal(w) ==
  /\ Free(w)
  /\ Len(offered) < RecordBound
  /\ Written(0, << >>) /\ Calls("write", w)
  /\ UNCHANGED <<daemon, modes, phase, opened, stripper, writer, result, popped, taken, closes, fault>>

Tick(w) ==
  /\ Free(w)
  /\ Calls("flush", w)
  /\ UNCHANGED <<daemon, modes, phase, opened, stripper, writer, result, popped, offered, taken, closes, fault>>

\* The queue is closed and empty: the writer closes its sink, noCloseSink nothing.
WriterEnds(w) ==
  /\ Free(w)
  /\ IF daemon THEN writer' = [writer EXCEPT ![w] = "nil"] /\ UNCHANGED <<call, phase>>
     ELSE Calls("close", w) /\ phase' = "closing" /\ UNCHANGED writer
  /\ UNCHANGED <<daemon, modes, opened, stripper, result, popped, offered, taken, closes, fault>>

\* runConfigMode has received from every writer and closes the sink.  Each writer
\* that failed has ended its input and, through stopAll, the others.
ParentCloses ==
  /\ daemon /\ phase = "running" /\ call = Nobody
  /\ \A w \in Writers : writer[w] # "running"
  /\ phase' = "closing" /\ Calls("close", 0)
  /\ UNCHANGED <<daemon, modes, opened, stripper, writer, result, popped, offered, taken, closes, fault>>
----------------------------------------------------------------------------
(***************************************************************************)
(* fanoutSink: one call of one output each; with one output the call is    *)
(* that output's.                                                          *)
(***************************************************************************)
\* What the call returns goes to its caller.
Returns(err) ==
  /\ call' = Nobody
  /\ writer' = IF call.by = 0 THEN writer
               ELSE IF err THEN [writer EXCEPT ![call.by] = "err"]
               ELSE IF call.op = "close" THEN [writer EXCEPT ![call.by] = "nil"] ELSE writer
  /\ IF call.op = "close" \/ (err /\ ~daemon)
     THEN /\ phase' = "done"
          /\ result' = IF err \/ \E w \in Writers : writer[w] = "err" THEN "err" ELSE "nil"
     ELSE UNCHANGED <<phase, result>>

\* WriteRecord passes the record on until an output fails.
TakeRecord ==
  /\ call.op = "write"
  /\ taken' = [taken EXCEPT ![call.k] = Append(@, Len(offered))]
  /\ IF call.k < Len(opened) THEN call' = [call EXCEPT !.k = @ + 1] /\ UNCHANGED <<writer, phase, result>>
                             ELSE Returns(FALSE)
  /\ UNCHANGED <<daemon, modes, opened, stripper, popped, offered, closes, fault>>

\* Mutant: the outputs behind the one that failed get the record as well.
RejectRecord_GoOn ==
  /\ call.op = "write"
  /\ offered' = [offered EXCEPT ![Len(offered)].rejected = call.k]
  /\ fault' = TRUE
  /\ IF call.k < Len(opened) THEN call' = [call EXCEPT !.k = @ + 1] /\ UNCHANGED <<writer, phase, result>>
                             ELSE Returns(TRUE)
  /\ UNCHANGED <<daemon, modes, opened, stripper, popped, taken, closes>>

RejectRecord ==
  /\ call.op = "write"
  /\ offered' = [offered EXCEPT ![Len(offered)].rejected = call.k]
  /\ fault' = TRUE
  /\ Returns(TRUE)
  /\ UNCHANGED <<daemon, modes, opened, stripper, popped, taken, closes>>

\* Flush and Close go on to every output and return the first error.
PassOn ==
  /\ call.op \in {"flush", "close"}
  /\ closes' = IF call.op = "close" THEN [closes EXCEPT ![call.k] = @ + 1] ELSE closes
  /\ \E fails \in BOOLEAN :
       LET err == call.err \/ fails
       IN  /\ fault' = (fault \/ fails)
           /\ IF call.k < Len(opened)
              THEN call' = [call EXCEPT !.k = @ + 1, !.err = err] /\ UNCHANGED <<writer, phase, result>>
              ELSE Returns(err)
  /\ UNCHANGED <<daemon, modes, opened, stripper, popped, offered, taken>>
----------------------------------------------------------------------------
WriterStep(w) == WriteNext(w) \/ WriteInternal(w) \/ Tick(w) \/ WriterEnds(w)

DeliveryNext ==
  \/ OpenOutput \/ OpenFails
  \/ \E w \in Writers : WriterStep(w)
  \/ TakeRecord \/ RejectRecord \/ PassOn
  \/ ParentCloses
----------------------------------------------------------------------------
\* Every variable keeps to its type, and a call to the phase it is made in.
DeliveryTypeOK ==
  /\ daemon \in BOOLEAN /\ fault \in BOOLEAN
  /\ phase \in {"config", "opening", "running", "closing", "done"}
  /\ result \in {"none", "setup", "nil", "err"} /\ (result # "none") = (phase = "done")
  /\ \A k \in OutputsK : opened[k] \in {"none", "open", "failed"}
  /\ \A w \in Writers :
       /\ writer[w] \in {"running", "nil", "err"}
       /\ stripper[w] \in {"Normal", "Esc", "CSI", "OSC", "OSCEsc"}
       /\ popped[w] \in Seq(Bytes)
  /\ call # Nobody =>
       /\ phase = (IF call.op = "close" THEN "closing" ELSE "running")
       /\ call.op \in {"write", "flush", "close"}
       /\ call.by \in Writers \cup {0} /\ call.k \in OutputsK

(***************************************************************************)
(* The text an input's records have in the outputs is the text of what was *)
(* popped from its queue, however an escape sequence was cut into records, *)
(* with flushes and internal records between them (ansi.go 27-29); with    *)
(* ansi = "keep" it is what was popped.                                    *)
(***************************************************************************)
StripsStream ==
  \A w \in Writers :
    LET own == SelectSeq(offered, LAMBDA r : r.by = w)
        all == FlattenSeq([i \in DOMAIN own |-> own[i].line])
    IN  all = IF modes[w] = "strip" THEN TextOf(popped[w]) ELSE popped[w]

(***************************************************************************)
(* The outputs hold the same records in the same order, but for those a    *)
(* call failed with: these are in the outputs before the one that failed   *)
(* and in none behind it.  The runner returns no error only when every     *)
(* output has every record and no call failed.  And every output that was  *)
(* opened is closed once, whatever failed, unless a writer without a       *)
(* daemon did: nobody closes its sink (writer.go 42).  DeliveryTypeOK with *)
(* it.                                                                     *)
(***************************************************************************)
UpTo(k, i) ==
  /\ offered[i].rejected = 0 \/ offered[i].rejected > k
  /\ i = Len(offered) /\ call.op = "write" => call.k > k

OutputsAgree ==
  /\ DeliveryTypeOK
  /\ \A k \in OutputsK :
       taken[k] = SelectSeq([i \in DOMAIN offered |-> i], LAMBDA i : UpTo(k, i))
  /\ result = "nil" =>
       ~fault /\ \A k \in OutputsK : Len(taken[k]) = Len(offered)
  /\ result # "none" /\ (daemon \/ \A w \in Writers : writer[w] # "err" \/ closes[1] > 0) =>
       \A k \in OutputsK : closes[k] = IF opened[k] = "open" THEN 1 ELSE 0
==============================================================================
