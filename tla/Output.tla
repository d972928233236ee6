-------------------------------- MODULE Output --------------------------------
(***************************************************************************)
(* The daemon from its configuration file to its outputs: an accepted file *)
(* says which writers and outputs module Delivery has.  Or logsurge runs   *)
(* without a file, with one writer and the outputs of its flags.           *)
(***************************************************************************)
EXTENDS ConfigFile, Delivery

vars == <<configVars, deliveryVars>>

\* The writers and outputs there are to be, at rest.
Fresh(isDaemon, ansi, outputCount, at) ==
  [daemon |-> isDaemon, modes |-> ansi, phase |-> at,
   opened |-> [k \in 1 .. outputCount |-> "none"],
   stripper |-> [w \in DOMAIN ansi |-> "Normal"],
   writer |-> [w \in DOMAIN ansi |-> "running"],
   popped |-> [w \in DOMAIN ansi |-> << >>],
   taken |-> [k \in 1 .. outputCount |-> << >>],
   closes |-> [k \in 1 .. outputCount |-> 0]]

DeliveryInit(f) ==
  /\ daemon = f.daemon /\ modes = f.modes /\ phase = f.phase /\ opened = f.opened
  /\ stripper = f.stripper /\ writer = f.writer /\ call = Nobody /\ result = "none"
  /\ popped = f.popped /\ offered = << >> /\ taken = f.taken /\ closes = f.closes /\ fault = FALSE

AdHocInit ==
  /\ topic = "whole"
  /\ \E mode \in {"strip", "keep"}, n \in 1 .. 2 : DeliveryInit(Fresh(FALSE, <<mode>>, n, "opening"))

Init ==
  /\ ConfigInit
  /\ AdHocInit \/ DeliveryInit(Fresh(TRUE, << >>, 0, "config"))

\* runConfigMode: one writer per input, one sink per output.  What is not read any
\* more is forgotten, to keep the states few.
StartPipelines ==
  /\ phase = "config" /\ parsed = "accepted"
  /\ LET f == Fresh(TRUE, [i \in DOMAIN inputs |-> Input(i).ansi], Len(Outputs), "opening")
     IN  /\ modes' = f.modes /\ phase' = f.phase /\ opened' = f.opened
         /\ stripper' = f.stripper /\ writer' = f.writer
         /\ popped' = f.popped /\ taken' = f.taken /\ closes' = f.closes
  /\ topic' = "whole" /\ lines' = 0 /\ cfg' = Defaults /\ inputs' = << >> /\ outputs' = << >>
  /\ section' = "root" /\ hasOutput' = FALSE /\ parsed' = "no"
  /\ UNCHANGED <<daemon, call, result, offered, fault>>

Next ==
  \/ phase = "config" /\ ConfigNext /\ UNCHANGED deliveryVars
  \/ StartPipelines
  \/ phase # "config" /\ DeliveryNext /\ UNCHANGED configVars

Spec == Init /\ [][Next]_vars
==============================================================================
