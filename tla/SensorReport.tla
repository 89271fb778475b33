---------------------------- MODULE SensorReport ----------------------------
(***************************************************************************)
(* What the sensor hub promises an application that opened an element-type *)
(* device: the samples that pass the filter are delivered once, in order,  *)
(* in chunks of exactly the subscribed size, and a filter compares a       *)
(* sample with the last one kept in the current chunk (0 if it is empty).  *)
(* There are no buffers, indices or clearing here; SensorFifo implements   *)
(* this module.                                                            *)
(***************************************************************************)
EXTENDS SensorFilter, Sequences, FiniteSets

CONSTANTS
  NEle,      \* number of subscribed elements
  Vals,      \* values a sensor can deliver
  MaxFifo,   \* bound: the largest fifo_size and val_num an application asks for
  Rules      \* the filter rules an application asks for

Ele == 1 .. NEle

\* A loaded configuration (normalised): every element's chunk size is val_num.
Config == [tp      : {"DEFAULT", "GROUP", "SINGLE"},
           fsize   : 1 .. MaxFifo,
           val_num : [Ele -> 1 .. MaxFifo],
           rule    : [Ele -> Rules],
           val_tp  : [Ele -> VAL_TP]]

VARIABLES
  cfg,       \* the configuration the device was opened with
  pending,   \* per element, the accepted samples not delivered yet
  out        \* per element, the chunk delivered by the last acquisition

vars == <<cfg, pending, out>>

Nothing == [i \in Ele |-> <<>>]

Previous(i) == IF pending[i] = <<>> THEN 0 ELSE pending[i][Len(pending[i])]

\* Default mode filters nothing, a group stands or falls together, a single
\* subscription judges each element by itself.
Rejected(sample) ==
  {i \in Ele : /\ cfg.tp # "DEFAULT"
               /\ NeedFilter(sample[i], Previous(i), cfg.rule[i], cfg.val_tp[i])}

Accepted(sample) ==
  IF cfg.tp = "GROUP" /\ Rejected(sample) # {} THEN {} ELSE Ele \ Rejected(sample)

Take(sample) ==
  LET acc  == Accepted(sample)
      grown(i) == IF i \in acc THEN Append(pending[i], sample[i]) ELSE pending[i]
      full(i)  == Len(grown(i)) = cfg.val_num[i]
  IN  /\ pending' = [i \in Ele |-> IF full(i) THEN <<>> ELSE grown(i)]
      /\ out' = [i \in Ele |-> IF full(i) THEN grown(i) ELSE <<>>]
      /\ UNCHANGED cfg

\* An acquisition that fails delivers nothing and forgets nothing.
Miss == out' = Nothing /\ UNCHANGED <<cfg, pending>>

Init == cfg \in Config /\ pending = Nothing /\ out = Nothing

Next == Miss \/ \E sample \in [Ele -> Vals] : Take(sample)

Spec == Init /\ [][Next]_vars
=============================================================================
