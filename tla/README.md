# Verification of logsurge

logsurge captures the output of a command, a file, standard input, a local
socket or the systemd journal, cuts it into records, passes them through a
bounded queue and writes them to standard output, a rotated directory or an
HTTP collector. This directory holds TLA+ modules that model it, TLC
configurations that check the models on small instances, and proofs, checked by
TLAPS, of what matters most about its pipeline, framer, directory and HTTP sinks,
sources, exec runner and daemon for every value of the constants. Paths and line numbers are
those of the repository.

1. [The system](#1-the-system)
2. [Modules and code](#2-modules-and-code)
3. [Runs, bounds, fairness](#3-runs-bounds-fairness)
4. [Proofs](#4-proofs)
5. [Disagreements and known limits](#5-disagreements-and-known-limits)
6. [What is not modelled](#6-what-is-not-modelled)
7. [Plan](#7-plan)

`PROJECT.json` is the index: runs, mutants, theorems, findings, hazards, and for
each definition the lines it stands for.

## 1. The system

    exec child ---pipe--\                                     /-- stdout
    stdin ---------------\   read      framer    queue   writer --- directory
    followed file -------->  goroutine --------> ------> goroutine- HTTP
    TCP connections ------/  (chunks)  (records)              \-- fanout of them
    UDP datagrams, journal records --------------^

One *input* is a source, a queue and a writer. The ad hoc modes have one input
and one sink; the daemon has many inputs and one sink behind a lock.

| Component | State | Operations | What makes it correct |
| --- | --- | --- | --- |
| bounded queue (`queue.go`) | ring of records, byte count, `closed`, `wake` channel of one token, condition variable, drop counters | `Push` (block, drop-oldest, drop-newest), `PushInternal`, `Pop`, `TakeDrops`, `Wake`, `Close` | order, both bounds, exact loss counts, no producer waits where nobody will signal it |
| writer (`writer.go`) | none but its position, record and summary in hand | tick: flush; wake: drain, report losses, finish | never asleep on work, output in order, losses reported, a failed sink frees the producers, a clean end leaves nothing behind |
| read goroutine and framer (`capture.go`, `framer.go`) | two buffers, two channels; pending line, idle timer | read, split at newlines and at the limit, idle flush, end of stream | no buffer shared, same records wherever reads cut the stream, bounded memory, end reaches the queue |
| directory sink (`sink_dir.go`) | current file, its size, buffered writer; the directory | write, rotate (7 system calls), retain, close, reopen | whole records, right order, durable segments, through errors, crashes and power loss |
| HTTP sink (`sink_http.go`) | batch, its record count | encode, post with retries, close | nothing disappears, order, caps, calls return |
| file follower (`source_file.go`) | descriptor, offset, closed | open, read, check for truncation and replacement, wait, close | each byte once and in order, catches up, closes |
| TCP and UDP source (`source_network.go`) | listener or socket, `conns`, `closed`, one framer per connection | start, accept, refuse, read, split datagrams, remove, close | no more connections than the limit, none left open, queue closed behind the last record, close always ends it |
| journal source (`source_journal.go`) | journalctl process, its two pipes, `closed`, the stderr kept | start, parse, split, close with TERM and KILL, reap | what was printed is delivered, process reaped, errors reported |
| exec runner (`runner.go`, `process_unix.go`) | child, timers, channels | start, forward signals, cancel, drain | output delivered, child waited for, errors not hidden |
| daemon (`runner.go`, `sink_wrapper.go`) | closers, `closeOnce`, results | start inputs, `stopAll`, wait, close sink | shutdown reaches everybody, first error comes out, sink closed last |
| configuration (`config_file.go`, `config_file_validate.go`, `config.go`) | the settings, inputs and outputs so far; current section | open a section, set a key, complete with defaults, validate | an accepted file keeps to the limits the other components assume |
| ANSI stripper (`ansi.go`) | one of five states, per writer | strip a record | stripping record by record strips the stream |
| fanout (`sink_fanout.go`, `sink.go`) | the outputs | open all or none, pass each call on | outputs agree, each closed once, errors reported |
| formatters, metadata, metrics, health endpoint, directory lock, test producer | little or none | | |

How they meet. Framers call `Push` and may block in it; the writer learns of
records through the `wake` channel only, whose one token many events share.
The writer is the only consumer: when the sink fails it calls `onError`, which
stops the source or the daemon, and closes the queue. Closing the queue is also
how a source that ends tells the writer. In the daemon `lockedSink` makes each
sink call one critical section, so a sink keeps state (a batch, a half-done
rotation) from one input's call to another's.

What is hard here: wakeups and condition variables shared by several events;
close, overflow and eviction at once; buffers that pass between goroutines; a
rotation that fails or is cut off between two system calls; answers lost after
the request was served; a log file renamed or truncated between two system
calls; processes that keep a pipe open or ignore signals; a shutdown while
things are still being started. `PROJECT.json` lists these hazards with their
lines and with the properties that cover them.

## 2. Modules and code

| Module | Models | State and steps |
| --- | --- | --- |
| `Queue` | `queue.go` | The ring as a function on slots with `head` and `queued`. A `Push` is several steps: waiting in `notFull.Wait`, notified, evicting; all between two releases of the mutex is one step, except that an eviction is one step per evicted record, under the mutex. |
| `BoundedFifo` | what a queue promises | A sequence, a loss count and a closed flag; each policy says what may be lost. |
| `Writer` | `RunWriterWithStats`, composed with `Queue` | One step per call of the queue or the sink; any sink call may fail, then `onError` and the queue's `Close` are two more steps. Producers are the framers; `CloseInput` is the end of the source. |
| `MCWriter` | the pipeline, for TLC and for `WriterProofs` | The refinement mapping to `BoundedFifo`. |
| `WriterProofs`, `FramerProofs`, `DirectorySinkProofs`, `HTTPSinkProofs`, `FollowFileProofs`, `SourcesProofs`, `ExecRunnerProofs`, `DaemonProofs` | theorems about the module of that name, `WriterProofs` also about `Queue` and `MCWriter` | Section 4. |
| `Framer` | `StartChunkReader` and `framer` | Buffers with contents, both channels, the scan byte by byte only where the code looks at bytes, the timer. |
| `DirectorySink` | `sink_dir.go` on a file system | One step per system call of `rotate`; inodes, a directory of which an older version may come back after power loss, synced lengths; `Kill` and `PowerLoss` anywhere. |
| `HTTPSink` | `sink_http.go`, `sink_wrapper.go` | The batch, the call under the lock, attempts, and a collector whose answers may be lost. |
| `FollowFile` | `followFileReader` | One step per system call; application and logrotate write, rename, create and truncate between them. |
| `Stream` | the input of a pipeline as a stream of bytes | A followed file (`FollowFile`) or the stream that is framed (`Framer`), for one run; see section 3. |
| `ExecRunner` | `runExec` and what it calls | Child, one descendant at a time, pipe, timers, channels `childDone` and `writerDone`; the pipeline reduced to what `Queue`, `Writer` and `Framer` establish. |
| `Daemon` | `runConfigMode`, the start, close and end of sources, the combining goroutines | Inputs started one by one; `stopAll` as Once plus a loop over the closers. |
| `Runner` | `Runner.run` | One command (`ExecRunner`) or the inputs of a configuration file (`Daemon`), chosen at the start. |
| `Source` | what a source promises the daemon | Stage, closed, cut and outcome of one input: the steps `Open`, `Publish`, `CloseSource`, `SourceEnds` of `Daemon`, alone. |
| `SourcePort` | what network and journal inputs share | Start in two steps, `Close` by anyone, the queue as a place to push to, the writer, datagrams or entries and the fragments they are split into. |
| `NetworkSource` | `source_network.go` | Accept loop, table and limit; a reader and a framer per connection; the datagram loop. Peers connect, send and leave as they like. |
| `JournalSource` | `source_journal.go` | journalctl as a process with two bounded pipes; the goroutine that keeps 16 KiB of stderr; lines that cannot be parsed; TERM, grace, KILL, reaping. |
| `Sources` | one input of any kind | Composes the three, with the fairness; maps to `Source`. |
| `ConfigFile` | the daemon's configuration file | One step per line; settings, an input and an output are functions from keys to values; sizes are products in a machine word. Completion and validation are operators on them, applied by the step `Validate`. |
| `Stripper` | `ansi.go` | The automaton folded over a record, and what the text of a whole stream is. |
| `Delivery` | from popped records to outputs | Outputs opened in order; writers strip and call the sink, which takes the call to one output after the other; the lock; who closes. |
| `Output` | configuration and delivery | An accepted file, or the flags of an ad hoc mode, says which writers and outputs `Delivery` has. |

Names are the code's where TLA+ allows it. Two conventions hold in all modules.
A history variable (named so in its declaration) records what happened for the
properties to speak about and is never read by a guard. An operator whose name
ends in an underscore and a word, such as `HasCapacity_Overrun`, is a mutant: the
definition as a plausible mistake would have it. Nothing uses it; putting it in
place of the definition must make a run fail, which shows that the property
could have caught the mistake.

Data is abstracted to what properties tell apart. A record in `Queue` is a
number, a length and a kind. A line in `Framer` is its bytes, of which newline,
carriage return and one other are told apart. A file in `DirectorySink` is a
sequence of record numbers, once per byte. In `ExecRunner` output is counted in
pieces. In `Sources` an entry is its length. A byte in `Stripper` is one of the
five the automaton looks for or a letter. In `ConfigFile` a value is one of the
few that validation or completion tells apart. Formatting and wording are left
out.

Go's scheduler is modelled as any interleaving of the goroutines' steps, a
`select` with several ready cases as any choice among them, a timer as something
that may fire at any moment.

## 3. Runs, bounds, fairness

| Run | What it asks |
| --- | --- |
| `pipeline` | Every overflow policy, chosen in the initial state; three framers, lines of 1 and 3 bytes in a queue of 2 records and 3 bytes: a woken producer may find no room while another would, three waiters is the least where a lost signal strands one of several, one line evicts two others, a line is as long as the cap, and the ring wraps around. Ring order, conservation, no lost wakeup, no stranded producer, clean end; the queue drains, blocked pushes return and the writer ends, also when the sink fails (`PipelineServes`); the queue implements `BoundedFifo`, which says what each policy may remove. |
| `stream` | Framing: all streams of up to 3 bytes with a limit of 1, in reads of 1 to 3: empty lines, lines at, over and over twice the limit, CRLF across chunks and across the limit, flushes anywhere. Following: two files, 3 bytes, reads of 1 and 2: one rotation, truncations, close anywhere, read errors. |
| `directory` | Two writers, up to 3 records shorter than and beyond the file limit, one segment kept, two process runs, clock values 1 to 3 that may repeat or step back, every call may fail, kill and power loss anywhere. |
| `http` | Two writers, batches of 2 records or 3 bytes, one retry, 4 records: a batch that fails under one writer is continued by the other, fails again in the final `Close`, or is sent with what was added. |
| `runner` | One command: a child with an exit code, one descendant, both timeouts on and off (chosen at the start), a pipe of one piece, two pieces between it and the sink, 3 pieces of output: all of these full, or what is written cut off by either timeout. Or two inputs of all nine pairs of kinds: one started before, one after whatever goes wrong. |
| `sources` | TCP, UDP or journal, a queue of one record. TCP: two peers for one or two places in the table, a listener that may fail. UDP and journal: two entries; empty datagrams, and entries of two fragments, the last one full or not. Journal: pipes of one place, stderr that fills what is kept and the pipe. Closed at any moment, also before `Start` has published the socket or process. What is taken is delivered and rejoins, the table keeps to its limit, the source implements `Source`, close ends it. |
| `output` | Files about inputs and files about outputs of up to five lines each, in any order, every one of them validated; then all of what two writers with different modes, two outputs and any failing call can do with up to three records; and every stream of up to five bytes, in up to three records, that one writer strips. |
| `directory_daemon`, `http_bytes`, `follow_switch`, `exec_code`, `daemon_stop` | Expected to fail: section 5. |

The type invariant is a run's own property in `pipeline` only. In the other
modules it is a conjunct of the invariant that rests on it: of `OneOwner`,
`Segments`, `Caps`, `NoDescriptorLeft`, `OutputDelivered`, `SinkClosedLast` and
`OutputsAgree`; in `Sources`, `ImplementsSource` and the invariants bound the state.

`Runner` and `Stream` put two modules into one run. Only one of the two moves in a
behaviour, and the other keeps its initial state: the command is run or the
configuration file, and a stream is framed whatever delivers it, since `Framer` lets
its reader return any bytes and any error at any time.

Bounds (`PushBound`, `StreamBound`, `RecordBound`, `RunBound`, `TimeBound`,
`InodeBound`, `ByteBound`, `OutputBound`, `EntryBound`, `ErrBound`, `LineBound`,
`InputBound`) only stop TLC from going on for ever;
each appears in the guard of the environment's step that it limits, never in a
step of the program. They are large enough for the cases named above, and each
mutant that stands for such a case is found at these bounds. None of the bounds
matters for the properties that are proved: the theorems hold for every value of them.

A configuration of five lines does not reach every combination of settings, so
`ConfigFile` asks two questions apart (`topic`): a file is about its inputs, or about
its outputs after one plain input. Five lines suffice for an input and its
limits with one of them from a section before or after it, and for two outputs
whose settings collide. What runs from the file is asked for a file that is
given whole, with two inputs of different modes and two outputs: nothing of
validation depends on what runs later. Records have control bytes where one
writer strips for one output, and are letters where the question is how several
writers and outputs agree: a writer has a stripper of its own (`writer.go`), so
what strips does not depend on who else writes.

Deadlock is checked for `Runner`, whose two modes end in a final state that may
repeat. In the other modules the bounded environment stops, so a state without
successor means only that the input is used up; liveness properties say what
must have happened by then. No run uses symmetry, which liveness does not allow.

Fairness, and why the code justifies it:

- *Pipeline* (`Writer!FairSpec`): the writer runs on, sink calls return, a wakeup
  that stays ready is taken even though ticks compete with it (Go's `select`
  chooses at random), and a producer that was notified or holds the mutex goes
  on. Nothing is assumed of new pushes, of the ticker or of the end of input.
- *Framer*: both goroutines run on and a `Read` of a stream that still delivers
  returns; the idle timer is not assumed to fire.
- *HTTP sink*: an attempt is answered or fails. This rests on the client's
  timeout, which is taken from `--http-timeout`.
- *Follower*: its steps are taken, waits end. Nothing is assumed of writers or
  logrotate.
- *Exec runner*: logsurge's goroutines run on, its timers fire and a SIGKILL is
  carried out. Processes owe nothing: they may never exit, write or heed SIGTERM.
- *Sources*: `Start` returns, goroutines run on, the writer takes records unless
  its sink fails, a read or accept on a closed socket returns, SIGKILL ends
  journalctl and an ended process is reaped, the grace period passes. Nothing
  is assumed of peers, of SIGTERM, of what journalctl prints, or that anybody
  calls `Close`.
- *Daemon*: goroutines run on and a source that was closed ends, which `sources`
  shows of network and journal inputs and `stream` of files. No signal, error or
  end of a source is assumed.
- *Output* states safety only. `Runner` and `Stream` assume of the module that moves
  what that module assumes.

## 4. Proofs

A module of proofs stands beside each module it is about and holds for every value
of that module's constants that its ASSUME allows.

| Proofs about | For every | Assumed, and where the code sees to it |
| --- | --- | --- |
| `Queue`, `Writer` | capacity, policy, set of line lengths, set of producers, number of pushes | positive limits and a fragment limit within the byte cap: `config.go` (`AcceptedConfig` shows the same of configuration files) |
| `Framer` | fragment limit, length of a read, size of the channels, stream | all at least 1; the pool has one buffer more than the channel has slots (`capture.go`) |
| `DirectorySink` | file limit, number of segments kept, size of the buffer, record lengths, number of writers, processes and records, clock values | positive limits and lengths: `config.go`, and a formatter ends each record with a newline (`format_*.go`); one process at a time (`lock_unix.go`) |
| `HTTPSink` | set of writers (one in the ad hoc modes), caps, number of retries, record lengths, number of records | at least one attempt and positive caps: `config.go`. Writers are told apart from the parent, which closes, and from nobody |
| `FollowFile` | number of files and of bytes, length of a read | all at least 1 |
| `Sources` | set of connections, number of peers, capacity of queue and pipes, limits of the table, entry lengths | what `NetworkSource`, `JournalSource` and `SourcePort` ask of them |
| `ExecRunner` | set of exit codes, capacity of pipe and pipeline, amount of output | capacities of at least one piece; exit codes told apart from signals |
| `Daemon` | number of inputs, each of any kind | at least one input: `config_file_validate.go` |

| Theorem | Property | In words |
| --- | --- | --- |
| `QueueRing` | `RingOrder`, `ByteAccounting`, `QueueTypeOK` | the ring holds the last records pushed, in order, other slots are released, bytes are exact and within the cap |
| `EvictionSucceeds` | `EvictionMakesRoom` | evicting for a line ends with room for it |
| `NoProducerStranded` | `NoStrandedProducer` | producers wait only where somebody will signal them |
| `TypeCorrect` | `TypeOK` | types and bounds of the pipeline |
| `WakeupsSuffice` | `NoLostWakeup` | shared tokens never leave the writer asleep on work |
| `RecordsConserved` | `Conservation`, `InOrder` | every record and loss in exactly one place, output in order |
| `ProducersReleased` | `FailureReleasesProducers` | a failed writer leaves no producer waiting |
| `FinishIsClean` | `CleanFinish` | a writer that ends without an error leaves nothing behind |
| `QueueImplemented` | `ImplementsBoundedFifo` | inside the pipeline the queue implements `BoundedFifo` |
| `FramerInvariant` | | where each buffer is, how much of a line is pending, what the last record says of the next |
| `BuffersHaveOneOwner` | `OneOwner` | a read never overwrites bytes the framer has not copied |
| `PendingStaysBounded` | `PendingBounded` | the framer waits with a fragment at most, its timer runs exactly if it holds something |
| `FlagsJoinRecords` | `Fragments` | `Continued` marks the records that go on with the one before; none is too long |
| `StreamInvariant` | | records and pending line are the stream; the byte-wise framer that goes on from here is where the stream would have brought it |
| `RecordsRejoin` | `RecordsJoin` | joined by their flags the records are the stream, whatever was flushed when |
| `ChunksInvisible` | `ChunkingInvisible` | how reads cut the stream does not show in the records |
| `SinkInvariant` | | what the process has in hand at each call of `rotate`, which inodes each directory that may come back has, what is in which file |
| `SegmentsHold` | `Segments` | no file past the limit but for one record, no record in two files, `size` is the length the file will have |
| `SegmentsDurable` | `DurableSegments` | under every directory that may come back, segments are complete |
| `RecordsInTurn` | | under every directory that may come back, files have the records as written and the names of segments follow them |
| `SegmentsStay` | `SegmentsSurvive` | a rotation never takes the name of a segment that exists |
| `CompleteInvariant` | | what was written is what retention took, the files and the buffer |
| `LogComplete` | `LogInOrder` | the files in the order of their names are the log, in order, less what retention took |
| `HTTPInvariant` | | batch, payloads and records written stay in order and accounted for within a call |
| `NothingDisappears` | `Accounted` | a record is buffered, at the collector, or was denied |
| `RedeliveredInOrder` | `Redelivery` | payloads in order, repeated only after a lost answer |
| `WithinTheCaps` | `Caps` | a payload without its last record is below both caps, or would be without one record more for each call that had failed |
| `FollowInvariant` | | what the reader has in hand, and that only newer bytes are ahead of it |
| `NothingTwice` | `NoRepeats` | no byte twice, none after a newer one |
| `NothingLeftOut` | `NothingSkipped` | all that was in a file at the last read of it is delivered, and before the next file |
| `NoDescriptorStays` | `NoDescriptorLeft` | no descriptor is open once `Read` has returned after `Close` |
| `SourcesInvariant` | | where the source stands and what it has decided, its connections, what journalctl printed |
| `TableCountsConnections` | `ConnectionTable` | the table has the connections whose framer runs, within its limit, and none in the end |
| `NothingPrintedIsLost` | `NothingLost` | a record is refused only after a failure; what was printed is taken |
| `SourceImplemented` | `ImplementsSource` | each kind of source implements `Source` |
| `PiecesInvariant` | | what was taken of an entry and what remains of it are its fragments |
| `FragmentsAreSplit` | `FragmentsRejoin` | datagrams and entries arrive as the fragments of the limit they consist of |
| `ExecInvariant` | | what `runExec` knows of child, writer and stream where it stands |
| `ReadIsDelivered` | `OutputDelivered` | with the child's status come all its output, or the drain timeout |
| `SinkErrorComesOut` | `SinkErrorReported` | a sink error is returned exactly if the writer ended with one |
| `NoChildLeftBehind` | `ChildHandled` | the child is waited for, and signalled for a cause only |
| `DaemonInvariant` | | inputs are started and registered in order, an outcome is final, its error kept |
| `ErrorsComeOut` | `NoErrorSwallowed` | the daemon returns nil only when no writer and no source has failed |
| `SinkIsClosedLast` | `SinkClosedLast` | unless an input could not be started, the sink outlives all that use it |

*Queue and writer.* `QueueInv` strengthens type correctness with the ring's shape:
`RingOrder` says which sequence number each slot holds, and for this to survive
an enqueue at `(head + queued) % MaxRecords` and a dequeue at `head` the proofs
need that `Slot` is one-to-one on `0 .. MaxRecords - 1` and reaches every slot
(`SlotInjective`, `SlotSurjective`, `SlotShift`). `ByteAccounting` relates the byte count
to history sums, which makes its preservation arithmetic and needs no induction
over the ring. `StepsOfQueue` shows every step of the pipeline to be a step of
the queue or a stutter, so `QueueInv` carries over.

`PipelineInv` adds what `NoLostWakeup`, `CleanFinish` and `Conservation` lack to
be inductive. `NoLostWakeup` alone is not: it speaks of a writer in its select,
and says nothing of one that has just found the queue empty. `DropsCovered` says
that an unreported loss has a record behind it in the queue or a writer that
will look, because a queue drops only when it is full; `ClosedKnown` ties the
writer's last steps to a closed, empty queue; `HandsKnown` says when a record or
summary is in hand; `OutputOld` that what the sink has is older than what is in
hand and in the queue. `PipelineStep` has one lemma per group of actions;
`ProducerEffect` states once what any producer's step can do to the writer's
part of the invariant.

For `QueueImplemented` the ring is read as a sequence: `EnqueueContents` and
`DequeueContents` say that the two elementary steps are `Append` and `Tail` of it. What
`BoundedFifo` lacks is the byte count, as it measures what is stored; `BytesKnown` says that
it measures `queuedByte`, so that a line fits the one exactly when it fits the other. As
`BoundedFifo` knows each byte by its record, that needs the sequence numbers to differ
(`AppendStored`, `TailStored`) and no sum over a sequence. `FifoStep` then has one step
per operation; that an eviction always ends with the line stored is `EmptyHasRoom`.

*Framer.* `OneOwner` counts the places a buffer is in, which no step can be
followed through. `FramerInv` says it without counting: no buffer is in two places
(`Apart`) and each is in one (`Somewhere`), and `Once` gets the count back at the end.
`InHand` says when a goroutine holds a buffer at all, and that a queued chunk is no
longer than its buffer's contents, without which the scan could run past them; the
read that overwrites a buffer keeps that only because of `Apart`. `PendingBounded`
speaks of the framer in its select; `Fits` carries it through a chunk. `Flagged`
relates the flag to the record pushed last, which is what `Fragments` needs for the
next one.

`StreamInv` is about the bytes. `Lossless` says that the records pushed, each spelled
with the line ending it stood for, and what is pending are what was consumed. `AsByteWise`
compares with the byte-wise framer without running both from the start: fed what is
pending, after the records already made, it is where the whole stream would bring it.
A chunk is then appended to both sides (`FeedAll` of a joined sequence goes on where the
first part left it), and a cut is what the byte-wise framer does by itself once it is fed a
byte beyond the limit.

*Directory sink.* The properties speak of one directory, the one that processes see; a
power loss brings back an older one. `Dirs` says of all versions together what keeps them
from contradicting each other: a file that was rotated in one of them is never the current
file of it or of a later one, so that nothing is ever appended to what was synced as a
segment, whichever version comes back. `InHand` says what each call of `rotate` leaves for
the next, up to the rename: the buffer is empty, then the file is synced, then it is
closed. `Together` is what `NotTooLong` needs for the file and the buffer before either is
known to be written: their bytes fit, or they are those of one record; a write that is
cut short, a lost buffer and a power loss only take from them. `NotSplit` adds the
buffer to what no two files may share. That `rotationPath` finds an unused suffix is
`UnusedName`: of `n + 1` names not all are taken by `n` segments. `Order` says,
record by record, that what is written is newer than every segment of every version
(`OrderKept`), as it was buffered for the current file or is the newest record. A
rename keeps it because nothing is buffered then and, if the clock moves forward, no
version has a later name (`RenameInOrder`).

`Complete` joins the files: there are bytes `gone` and `kept` such that what was written is
`gone`, `kept` and the buffer, `kept` has as many bytes as the files and is what they hold
in the order of their names while the clock moves forward, and `gone` is empty unless
retention keeps as many segments as it may. It speaks of lengths where the clock may
step back, because bytes that are out of order are still all there. The order of
`rotatedFiles` is determined by the names (`SortUnique`), so that a directory with one
segment more or less sorts into the same sequence with that segment put in or taken out,
and joining it is joining the rest (`FlattenWithout`). A rename puts the current file behind
all segments, retention takes the first one, and whatever a write, a cut or a power loss
takes is taken from the end, or was only buffered.

*HTTP sink.* The three properties speak of what the collector received, the batch
in hand decides what it receives next. `BufferLatest` says that the batch is the
latest records without a gap, `Runs` that each payload is such a run, and `LastPost`,
which is the heart of it, how the last payload and the batch are related: either its
answer was lost and the batch begins with it, or all between them was dropped. A new
payload then keeps `InTurn`, which is `Redelivery` over indices. `Accounted` is
inductive with these. A batch outgrows its caps only when a call has failed, because the
writer whose call it was has ended and each of the others adds a record before it
sends. `NotOver` says so of the batch: between calls it is below both caps once as many
of its records are taken away as calls have failed, so that the record that starts the
next call is one more.

*Follower.* Bytes are numbered in the order they were written, so that "nothing twice" is
"always larger". `FilesInOrder` says that they increase along each file and from file
to file; `AllAhead` that every byte the reader can still come to, behind its offset,
in a file that was truncated below it, in the file it will open or in a later one,
is newer than all that it delivered. It has a case for each place where `Read` acts
on a size or a file that may have changed since it looked (`ReadAt` says which of
these it has in hand). `Within` keeps positions inside files that were never
truncated, which is what `NothingSkipped` lacks: there, what is behind the offset is
exactly what is missing. `AtEnd` says that from the read that met the end up to the
switch the offset is where that read found the end, so that the file is not left
earlier.

*Sources.* `Life` says what the source's goroutine has decided where it stands, and
`Closing` who may have closed the queue. These carry the refinement: `start`, `verdict`
and `done` are the stage, the outcome and the report of `Source`, each step is shown
to be one of its steps or to leave them alone, and `Closing` is what shows that the
queue is closed before a good end is reported, and by nobody without a cause. `Connections` states the
table as the set of connections whose framer runs, with both counters as
cardinalities; `ConnsOver`, that `wg.Wait` has left none. `PipeCounts` balances what
journalctl printed with what was taken and what is in the pipe. `Pieces` says that the
fragments the queue has taken and those that cutting the rest of the current entry still
gives are the fragments of all entries. One push takes the first fragment of the rest; that
what remains is the cut of a shorter entry that goes on is arithmetic on rounded-up
quotients.

*Data of any length.* The theorems about streams, logs and entries need induction. It
is stated for sets of numbers (a set with 0 and with every successor of its members is
`Nat`: `Induction`, from the well-foundedness of `<`), which asks the provers for no
operator to be put in. `FlattenSeq`, the folds and `SplitAll` are defined by recursive
functions; lemmas show that such a function exists and what it gives for no element and
for one element more, and from there on only those are cited.

*Exec runner.* All three properties speak of `runExec` after it has returned.
`WriterKnown` and `ChildKnown` say what it knows of writer and child at each place of its
selects, in whichever order they end; `EndKnown` is why the stream has ended:
nobody holds the pipe and it is empty, or the reader was closed by a sink error or
by the drain timeout, and in that case a diagnostic says so. With `WriterDone` (a
writer that returned no error has left nothing behind) this gives `OutputDelivered`.

*Daemon.* Neither property is inductive: both speak of the end only.
`DaemonInv` adds where `runConfigMode` is when inputs are registered and waited for
(`StartOrder`, `WaitOrder`), and that an outcome which was received is still the
input's and, if it is an error, in `firstErr` (`OutcomesKept`). The combining goroutine
reads writer and source at different moments; that neither can change what the
other's end has decided is `OutcomeFinal`. `ElsewhereKeeps` settles the steps of
sources, writers and `stopAll` at once, `StartingKeeps` and `WaitingKeeps` those of
`runConfigMode`.

Each of these invariants was checked by TLC on the run's instance before it was
proved. Of the properties in the table, `ByteAccounting`, `EvictionMakesRoom`, `InOrder`,
`FailureReleasesProducers` and `Fragments` are proved and not listed in a run: the runs
look at the same behaviour through `TypeOK`, `Conservation`, `PipelineServes`,
`RecordsJoin` and the refinement.

Model-checked only:

- liveness, whose fairness and ENABLED are beyond the prover;
- `StripsStream`, `OutputsAgree` and `AcceptedConfig`, of which no proof has been
  attempted: the first needs an induction over a stream and its parse, the second
  one over the outputs of a fanout, the third is a finite matter of settings.

## 5. Disagreements and known limits

Five runs state what the repository says and find that the code does otherwise.

- `directory_daemon`: `rotate` sets `s.w` to nil and can then still fail. The
  daemon's other writers share the sink, and the next `WriteRecord` of one of
  them calls the nil writer (`sink_dir.go:70`, or `rotate`'s flush), while `Flush`
  and `Close` test for nil.
- `http_bytes`: the byte cap of a batch is looked at after a record was added, so
  that a payload of several records may exceed `--http-batch-bytes`
  (`sink_http.go:56`), which is said to cap the encoded bytes of a POST.
- `follow_switch`: what an application writes after the read that met the end of the
  file and before the look at the path that sees its replacement is never read
  (`source_file.go:142`), although the old file is said to be drained before the
  switch. The file need not be written to after the rename for it.
- `daemon_stop`: `stopAll` closes the inputs registered so far and works once
  only. A signal or a sink error while inputs are still being started leaves
  the later ones running; later signals do nothing, and `runConfigMode` waits.
- `exec_code`: a child that closes its output before it exits is terminated,
  and its exit code replaced by that of the signal, although nothing failed.

The models also show the following, which properties exclude by name or do not
claim; those that take several steps or actors are hazards in `PROJECT.json`.

- A source's `Close` from its writer's error handler may come before `Start` has
  published the listener or process; nobody closes it then (`ClosedTooSoon` in
  `Daemon`).
- When an input cannot be started, the raw sink is closed while writers of
  earlier inputs may use it (`SinkClosedLast` excludes it).
- In the daemon a batch that failed is continued by other writers and may then
  exceed both caps, by one record for each call that failed (`Caps`).
- In the ad hoc modes a sink that failed is not closed.
- "Start at end" skips to the size at the first open, of a file that took the first
  one's place before that as well; a truncated file that has grown back past the
  offset is read on from there.
- After the clock was set back, retention may remove the newest segment;
  `LogInOrder` claims order for a steady clock, `SegmentsSurvive` holds for any.
- An accept error closes the queue while framers of live connections still push
  (`NothingLost` of `Sources`: a record is refused only then or when the sink failed).
- journalctl is stuck once it has filled the 16 KiB that are read of its stderr
  and the pipe; nothing but `Close` ends it then (`StderrFlows` ends there).
- A configuration file with `http_retries = -1` is accepted (`config_file.go:337`),
  which the flag is not (`config.go:488`); `HTTPSink.Flush` then tries no POST and
  returns no error. `AcceptedConfig` does not promise it, and `HTTPSink` assumes at
  least one attempt.
- `http_batch_records = 0` in `[[outputs]]` is taken for "not given" and becomes the
  default, while the flag is refused.
- On a 64-bit machine the product of a size and its unit wraps around
  (`config.go:795-798` compares it with itself), to a wrong size or to one that is
  refused because it is not positive.
- The stripper's state runs on where records were dropped, or where connections
  share a queue: text may then be taken for the rest of an escape sequence.
- SIGTERM may be sent to the process group of a child that has been reaped, whose
  number may belong to somebody else by then (`process_unix.go:24`).
- A CRLF line of exactly the fragment limit is split before its newline.

## 6. What is not modelled

- Formatters, the HTTP encoders, metadata, metrics, health endpoint, test producer:
  text layout, one-time set-up, or counters nothing depends on. The sinks' modules
  see the length of what formatters produce.
- Of the configuration: the command line and the checks of its combinations, how
  lines are quoted, durations and addresses as text, formats and metadata, the
  `dir_*` limits. No other component's correctness rests on them here.
- The directory lock: one `flock` held while the sink is open; `DirectorySink`
  assumes one process at a time.
- The stdout sink: a formatter and a `bufio.Writer`; `Writer` and `Delivery` have
  sinks that may fail at any call.
- The runners for listen, stdin and file: set-up around one pipeline. Their waiting
  for source and writer is that of `Daemon` and `ExecRunner`.
- The JSON of journal entries: a line can be parsed or not.
- Windows process handling, reuse of process numbers, signals before handlers
  are installed.
- Data races in the sense of Go's memory model: shared variables are used under
  their locks, and steps are atomic between lock operations.

## 7. Plan

Order of work, most important first. Done: 1 to 10, and of 11 all but what it names as next.

1. `Queue`, `BoundedFifo`: ring, policies, condition variable. Abstract
   specification: a FIFO that loses only what its policy allows.
2. `Writer` with `Queue`: the pipeline, one run for all policies.
3. `WriterProofs`: inductive invariants, safety of the pipeline.
4. `Framer`: buffers, splitting, idle flush; a byte-wise framer as reference.
5. `DirectorySink`, `HTTPSink`: the sinks under faults and sharing.
6. `FollowFile`: the follower against rotation.
7. `ExecRunner`, `Daemon`: processes, start-up and shutdown.
8. `NetworkSource`, `JournalSource`, `Sources`: the other inputs. Abstract
   specification: `Source`, which is what `Daemon` has of them.
9. `Stripper`, `Delivery`: from records to outputs, fanout included.
10. `ConfigFile`, `Output`: what the other modules assume of their constants.
11. Proofs about the rest: `DaemonProofs`, `ExecRunnerProofs`, `HTTPSinkProofs`,
    `SourcesProofs` with the refinement of `Source`, `FollowFileProofs`, `FramerProofs`,
    `DirectorySinkProofs`; in `WriterProofs` the refinement of `BoundedFifo`.
    In `FramerProofs`, `SourcesProofs` and `DirectorySinkProofs` the properties of
    whole streams, entries and logs. Next: `OutputsAgree`
    and `StripsStream`.

Runs stay few, one per question, with the bounds of section 3. Properties join an
existing run where its instance shows them.
