------------------------------ MODULE ConfigFile ------------------------------
(***************************************************************************)
(* The daemon's configuration (config_file.go, config_file_validate.go and *)
(* the outputs' part of config.go): the file is read line by line, every   *)
(* line opens a section or gives a key its value at once, and the whole is *)
(* completed with defaults and validated at its end.                       *)
(*                                                                         *)
(* The global settings, an input and an output are functions from keys to  *)
(* values.  "" is an empty string.  Unset stands for a number whose Set    *)
(* field is false, for HTTPBatchBytes' and JournalStart's zero values, and *)
(* for a default of the inputs nobody has overridden.  [queue] records is  *)
(* the key queue_records here, as in an input, and so on.  Formats and     *)
(* metadata, which no other component's limits rest on, are left out.      *)
(***************************************************************************)
EXTENDS Integers, Sequences, SequencesExt, FiniteSetsExt

CONSTANTS
  Unset,       \* a model value: no line has given the key
  LineBound,   \* bound on the lines of a file
  InputBound   \* bound on its [[inputs]], and on its [[outputs]]

ASSUME ConfigAssumption == LineBound \in Nat /\ InputBound \in Nat \ {0}

VARIABLES
  topic,       \* what the lines are about: "inputs", "outputs" after one input, or
               \* nothing more: the file is "whole"
  lines,       \* how many lines have been read
  cfg,         \* the global settings
  inputs,      \* cfg.Inputs
  outputs,     \* cfg.Outputs
  section,     \* the section the next key belongs to
  hasOutput,   \* hasOutputSection; hasOutputsArray says that outputs is not empty
  parsed       \* "no", "accepted" or "rejected"

configVars == <<topic, lines, cfg, inputs, outputs, section, hasOutput, parsed>>
----------------------------------------------------------------------------
(***************************************************************************)
(* The values a line may give, as parsed.                                  *)
(***************************************************************************)
\* parseBytes: a positive number times its unit, in a machine word.  With an int
\* of 64 bits int64(int(v)) # v never holds, so a product too large wraps around:
\* to zero and to a negative size here, in a word of three bits.
WordSize == 3
Wrapped(v) == ((v + 2^(WordSize - 1)) % 2^WordSize) - 2^(WordSize - 1)
parseBytes == {Wrapped(n * unit) : n \in 1 .. 2^(WordSize - 1) - 1, unit \in {1, 4}}

OutputValues ==
  [kind               |-> {"stdout", "dir", "http"},
   target             |-> {"path", "url"},
   http_batch_records |-> {0, 2},
   http_batch_bytes   |-> parseBytes,
   http_format        |-> {"gelf"},
   http_retries       |-> {-1, 1},
   auth               |-> {"none", "basic"},
   auth_secret_file   |-> {"file"}]

QueueValues ==
  [queue_records |-> {-1, 0, 1}, queue_bytes |-> parseBytes,
   overflow |-> {"drop-newest"}, max_fragment_bytes |-> parseBytes]

FileValues == [file_poll_interval |-> {0, 2}, partial_flush_interval |-> {-1, 0}]

InputValues ==
  [kind |-> {"file", "journal", "tcp", "udp"}, path |-> {"file"},
   listen |-> {"loopback", "public"}, max_connections |-> {0, 1},
   directory |-> {"journal"}, start |-> {"end", "all"}, ansi |-> {"keep"}] @@ QueueValues @@ FileValues

Values ==
  [root |-> [flush_interval |-> {-1, 0}, ansi |-> {"keep"}],
   output |-> OutputValues, outputs |-> OutputValues,
   queue |-> QueueValues, file |-> FileValues, inputs |-> InputValues]
----------------------------------------------------------------------------
\* DefaultConfig and the daemon's own defaults (config_file.go 34-41), with the
\* sizes in the order they are in there: a fragment is smaller than the queue.
Defaults ==
  [flush_interval |-> 1, ansi |-> "strip", queue_records |-> 2, queue_bytes |-> 2,
   overflow |-> "drop-oldest", max_fragment_bytes |-> 1, partial_flush_interval |-> 1,
   file_poll_interval |-> 1,
   kind |-> "stdout", target |-> "", http_batch_records |-> Unset, http_batch_bytes |-> Unset,
   http_format |-> "jsonline", http_retries |-> 1, auth |-> "none", auth_secret_file |-> ""]

DefaultConnections  == 2
DefaultBatchRecords == 3
DefaultBatchBytes   == 3

EmptyInput ==
  [k \in DOMAIN InputValues |-> IF k \in {"kind", "path", "listen", "directory"} THEN "" ELSE Unset]

\* An output's own values when nothing has been given: the zero OutputConfig.
EmptyOutput ==
  [k \in DOMAIN OutputValues |->
     IF k \in {"http_batch_records", "http_batch_bytes", "http_retries"} THEN Unset ELSE ""]

outputDefaultsFromConfig ==
  [k \in DOMAIN OutputValues |-> IF k \in {"kind", "target"} THEN "" ELSE cfg[k]]

FileInput == [EmptyInput EXCEPT !.path = "file"]

\* Files about outputs have got as far as the path of their only input.  A whole
\* file has two inputs and two outputs.
ConfigInit ==
  /\ topic \in {"inputs", "outputs", "whole"}
  /\ lines = (IF topic = "whole" THEN LineBound ELSE 0)
  /\ cfg = Defaults
  /\ inputs = CASE topic = "inputs"  -> << >>
                [] topic = "outputs" -> <<FileInput>>
                [] topic = "whole"   -> <<FileInput, [FileInput EXCEPT !.ansi = "keep"]>>
  /\ outputs = IF topic # "whole" THEN << >>
               ELSE <<[outputDefaultsFromConfig EXCEPT !.kind = "stdout"],
                      [outputDefaultsFromConfig EXCEPT !.kind = "dir", !.target = "path"]>>
  /\ section = CASE topic = "inputs"  -> "root"
                 [] topic = "outputs" -> "inputs"
                 [] topic = "whole"   -> "outputs"
  /\ hasOutput = FALSE
  /\ parsed = "no"
----------------------------------------------------------------------------
\* The lines.
NextLine == parsed = "no" /\ lines < LineBound /\ lines' = lines + 1

ArrayOfInputs ==
  /\ NextLine /\ topic = "inputs" /\ Len(inputs) < InputBound
  /\ inputs' = Append(inputs, EmptyInput)
  /\ section' = "inputs"
  /\ UNCHANGED <<topic, cfg, outputs, hasOutput, parsed>>

ArrayOfOutputs ==
  /\ NextLine /\ topic = "outputs"
  /\ ~hasOutput /\ Len(outputs) < InputBound
  /\ outputs' = Append(outputs, outputDefaultsFromConfig)
  /\ section' = "outputs"
  /\ UNCHANGED <<topic, cfg, inputs, hasOutput, parsed>>

Section ==
  /\ NextLine
  /\ section' \in IF topic = "outputs" THEN {"output"} ELSE {"queue", "file"}
  /\ section' = "output" => outputs = << >>
  /\ hasOutput' = (hasOutput \/ section' = "output")
  /\ UNCHANGED <<topic, cfg, inputs, outputs, parsed>>

\* applyRootConfigValue, applyOutputConfigValue, applyQueueConfigValue,
\* applyFileConfigValue: a global setting.
GlobalValue ==
  /\ NextLine /\ section \in {"root", "output", "queue", "file"}
  /\ \E k \in DOMAIN Values[section] : \E v \in Values[section][k] : cfg' = [cfg EXCEPT ![k] = v]
  /\ UNCHANGED <<topic, inputs, outputs, section, hasOutput, parsed>>

\* applyInputConfigValue, for the input opened last.
InputValue ==
  /\ NextLine /\ section = "inputs" /\ topic = "inputs"
  /\ \E k \in DOMAIN Values[section] : \E v \in Values[section][k] :
       inputs' = [inputs EXCEPT ![Len(inputs)][k] = v]
  /\ UNCHANGED <<topic, cfg, outputs, section, hasOutput, parsed>>

\* applyOutputConfigValueToOutput, for the output opened last.
OutputValue ==
  /\ NextLine /\ section = "outputs"
  /\ \E k \in DOMAIN Values[section] : \E v \in Values[section][k] :
       outputs' = [outputs EXCEPT ![Len(outputs)][k] = v]
  /\ UNCHANGED <<topic, cfg, inputs, section, hasOutput, parsed>>

\* Anything else a line may be: no section, key or value the parser knows, the
\* policy block, a size that is not positive, or the other form of outputs.
BadLine ==
  /\ NextLine /\ parsed' = "rejected"
  /\ UNCHANGED <<topic, cfg, inputs, outputs, section, hasOutput>>
----------------------------------------------------------------------------
(***************************************************************************)
(* finalizeOutputs.                                                        *)
(***************************************************************************)
Given(v, default) == IF v = Unset THEN default ELSE v

fillOutputDefaults(o) ==
  LET text(k)   == IF o[k] = "" THEN cfg[k] ELSE o[k]
      oneRecord == /\ o.kind = "http" /\ text("http_format") = "gelf"
                   /\ o.http_batch_records = Unset /\ cfg.http_batch_records = Unset
  IN  [o EXCEPT
         !.http_format        = text("http_format"),
         !.auth               = text("auth"),
         !.auth_secret_file   = text("auth_secret_file"),
         !.http_retries       = Given(@, cfg.http_retries),
         !.http_batch_bytes   = IF @ \in {Unset, 0} THEN Given(cfg.http_batch_bytes, DefaultBatchBytes)
                                                    ELSE @,
         !.http_batch_records = IF oneRecord THEN 1
                                ELSE IF @ \in {Unset, 0}
                                     THEN Given(cfg.http_batch_records, DefaultBatchRecords) ELSE @]

normalizedOutputs(given) ==
  LET all == IF given # << >> THEN given
             ELSE <<[EmptyOutput EXCEPT !.kind = cfg.kind, !.target = cfg.target]>>
  IN  [i \in DOMAIN all |-> fillOutputDefaults(all[i])]

\* finalizeOutputs stores the outputs, validateOutput completes them once more.
Outputs == normalizedOutputs(normalizedOutputs(outputs))

ValidTarget(o) ==
  CASE o.kind = "stdout" -> o.target = ""
    [] o.kind = "dir"    -> o.target # ""
    [] o.kind = "http"   -> o.target = "url"
    [] OTHER             -> FALSE

validateOutput ==
  /\ \A i, j \in DOMAIN Outputs : i # j => Outputs[i].kind # Outputs[j].kind
  /\ \A o \in Range(Outputs) :
       /\ ValidTarget(o)
       /\ o.kind = "http" =>
            /\ o.http_batch_records > 0 /\ o.http_batch_bytes > 0
            /\ o.auth = "none" => o.auth_secret_file = ""
  /\ \/ \E o \in Range(Outputs) : o.kind = "http"
     \/ cfg.auth = "none" /\ cfg.auth_secret_file = ""
----------------------------------------------------------------------------
(***************************************************************************)
(* normalizeInputConfig.                                                   *)
(***************************************************************************)
applyInputDefaults(in) ==
  [k \in DOMAIN in |-> IF in[k] = Unset /\ k \in DOMAIN cfg THEN cfg[k] ELSE in[k]]

\* The kind follows from path or directory; a network input has to name its own.
Kind(in) ==
  IF in.kind # "" THEN in.kind
  ELSE IF in.path # "" THEN "file"
  ELSE IF in.listen = "" /\ in.directory # "" THEN "journal" ELSE ""

\* The input as the runner gets it.
Input(i) ==
  LET in == [applyInputDefaults(inputs[i]) EXCEPT !.kind = Kind(inputs[i])]
  IN  [in EXCEPT !.max_connections = IF in.kind = "tcp" THEN Given(@, DefaultConnections) ELSE @]

normalizeFileInput(in) ==
  in.path # "" /\ in.listen = "" /\ in.max_connections = Unset
  /\ in.directory = "" /\ in.start \in {Unset, "end"}

normalizeJournalInput(in) == in.path = "" /\ in.listen = "" /\ in.max_connections = Unset

normalizeNetworkInput(in) ==
  /\ in.listen = "loopback" /\ in.path = "" /\ in.directory = "" /\ in.start \in {Unset, "end"}
  /\ IF in.kind = "tcp" THEN in.max_connections > 0 ELSE in.max_connections = Unset

normalizeKind(in) ==
  CASE in.kind = "file"           -> normalizeFileInput(in)
    [] in.kind = "journal"        -> normalizeJournalInput(in)
    [] in.kind \in {"tcp", "udp"} -> normalizeNetworkInput(in)
    [] OTHER                      -> FALSE

\* Mutant: the fragment is compared with the bytes of [queue].
validateCommonInputConfig_Global(in) ==
  /\ in.queue_records > 0 /\ in.queue_bytes > 0
  /\ in.max_fragment_bytes > 0 /\ in.max_fragment_bytes =< cfg.queue_bytes
  /\ in.partial_flush_interval >= 0 /\ in.file_poll_interval > 0

\* No setter accepts a policy or an ANSI mode it would have to reject here.
validateCommonInputConfig(in) ==
  /\ in.queue_records > 0 /\ in.queue_bytes > 0
  /\ in.max_fragment_bytes > 0 /\ in.max_fragment_bytes =< in.queue_bytes
  /\ in.partial_flush_interval >= 0 /\ in.file_poll_interval > 0
----------------------------------------------------------------------------
\* The end of the file: validateConfigFile.
Validate ==
  /\ parsed = "no"
  /\ parsed' = IF /\ inputs # << >>
                  /\ validateOutput
                  /\ cfg.flush_interval >= 0
                  /\ \A i \in DOMAIN inputs :
                       normalizeKind(Input(i)) /\ validateCommonInputConfig(Input(i))
               THEN "accepted" ELSE "rejected"
  /\ UNCHANGED <<topic, lines, cfg, inputs, outputs, section, hasOutput>>

ConfigNext ==
  \/ ArrayOfInputs \/ ArrayOfOutputs \/ Section
  \/ GlobalValue \/ InputValue \/ OutputValue \/ BadLine
  \/ Validate
----------------------------------------------------------------------------
(***************************************************************************)
(* What a file that is accepted promises the other components, whatever    *)
(* order its lines are in and wherever a value comes from: every input is  *)
(* of one kind, with the limits Queue, Framer, FollowFile and              *)
(* NetworkSource assume, and a fragment of it fits its own queue; no two   *)
(* outputs are of one kind, HTTPSink has room for a record, one GELF       *)
(* record goes into a POST unless the file says otherwise (README 640),    *)
(* and the file has one form of outputs only, so that no value it gives is *)
(* passed over.  Not promised: that http_retries is not negative, which    *)
(* config_file.go 337 does not ask and config.go 488 does.                 *)
(***************************************************************************)
InputLimits(in) ==
  /\ in.queue_records > 0
  /\ 0 < in.max_fragment_bytes /\ in.max_fragment_bytes =< in.queue_bytes
  /\ in.overflow \in {"drop-oldest", "drop-newest"}
  /\ in.file_poll_interval > 0
  /\ (in.path # "") = (in.kind = "file")
  /\ (in.listen # "") = (in.kind \in {"tcp", "udp"})
  /\ in.kind = "tcp" => in.max_connections > 0

OutputLimits(o, given) ==
  o.kind = "http" =>
    /\ o.http_batch_records > 0 /\ o.http_batch_bytes > 0
    /\ (o.http_format = "gelf" /\ given = Unset) => o.http_batch_records = 1

AcceptedConfig ==
  parsed = "accepted" =>
    /\ \A i \in DOMAIN inputs : InputLimits(Input(i))
    /\ Cardinality({o.kind : o \in Range(Outputs)}) = Len(Outputs)
    /\ \A i \in DOMAIN Outputs :
         OutputLimits(Outputs[i], IF hasOutput THEN cfg.http_batch_records
                                  ELSE IF outputs = << >> THEN Unset ELSE outputs[i].http_batch_records)
    /\ hasOutput => outputs = << >>
==============================================================================
