----------------------------- MODULE SensorFifo -----------------------------
(***************************************************************************)
(* The data path of one opened element-type device of tdl_sensor_hub.c:    *)
(* __tdl_sensor_check_config and __tdl_sensor_load_config as they treat    *)
(* the FIFO, __tdl_sensor_prepare_app_fifo, and the acquisition            *)
(* (__tdl_sensor_load_ele_value then __tdl_sensor_inform_ele_value), which *)
(* the main task runs while it holds the device mutex.                     *)
(*                                                                         *)
(* Cells keep C's 0-based indices.  A write past fifo_size cells is not    *)
(* performed but recorded in overflow.                                     *)
(***************************************************************************)
EXTENDS SensorFilter, Sequences, FiniteSets

CONSTANTS NEle, Vals, MaxFifo, Rules

ASSUME FifoAssumption ==
  /\ NEle \in Nat \ {0}
  /\ Vals \subseteq IntT
  /\ MaxFifo \in Nat \ {0}
  /\ Rules \subseteq FilterRule

Ele == 1 .. NEle

VARIABLES
  cfg,       \* trig-independent part of the node: ele_sub and fifo_size
  num,       \* app_fifo.ele[i].val_num
  val,       \* app_fifo.ele[i].val[0 .. fifo_size - 1]
  out,       \* history: what inform_cb was given by the last acquisition
  overflow   \* history: some acquisition wrote past the end of a buffer

vars == <<cfg, num, val, out, overflow>>

\* What an application may put in SR_DEV_CFG_T; "DEFAULT" is ele_sub = NULL.
AppConfig == [tp      : {"DEFAULT", "GROUP", "SINGLE"},
              fsize   : 0 .. MaxFifo,
              val_num : [Ele -> 0 .. MaxFifo],
              rule    : [Ele -> Rules],
              val_tp  : [Ele -> VAL_TP]]

Nothing == [i \in Ele |-> <<>>]

\* fifo_size 0 is corrected to 1 before anything is compared with it.
Fsize(c) == IF c.fsize = 0 THEN 1 ELSE c.fsize
-----------------------------------------------------------------------------
\* Plausible slips, used to show that the properties notice them.
AcceptsAnyValNum(c) ==
  c.tp # "DEFAULT" => \A i \in Ele : ~SR_IS_RANG_ERR(c.rule[i].max, c.rule[i].min)
ClearedKeepsValues(cells) == cells
ReadyWhenOver(c, n, i) ==
  IF c.tp = "SINGLE" THEN n[i] > c.val_num[i] ELSE n[1] > c.fsize
-----------------------------------------------------------------------------
\* The checks that make __tdl_sensor_check_config refuse a subscription.
CheckConfig(c) ==
  c.tp # "DEFAULT" =>
    \A i \in Ele : /\ c.tp = "SINGLE" => c.val_num[i] <= Fsize(c)
                   /\ ~SR_IS_RANG_ERR(c.rule[i].max, c.rule[i].min)

\* The corrections it makes in place: val_num 0 means 1, a group reports
\* fifo_size values (as does the default mode, which has no rules at all).
Corrected(c) ==
  [c EXCEPT !.fsize = Fsize(c),
            !.val_num = [i \in Ele |-> IF c.tp # "SINGLE" THEN Fsize(c)
                                       ELSE IF c.val_num[i] = 0 THEN 1
                                       ELSE c.val_num[i]]]

\* __tdl_sensor_prepare_app_fifo: one zeroed buffer of fifo_size per element.
ZeroCells(c) == [k \in 0 .. c.fsize - 1 |-> 0]
PrepareAppFifo(c) == /\ num = [i \in Ele |-> 0]
                     /\ val = [i \in Ele |-> ZeroCells(c)]

Init == /\ \E c \in AppConfig : CheckConfig(c) /\ cfg = Corrected(c)
        /\ PrepareAppFifo(cfg)
        /\ out = Nothing
        /\ overflow = FALSE
-----------------------------------------------------------------------------
\* The index the filter reads as the previous value.  The local variable
\* val_num lives across the loop over the elements: an empty element is
\* compared at the index left behind by the last non-empty one before it.
PrevIndex(n, i) ==
  LET filled == {j \in 1 .. i : n[j] > 0}
  IN  IF filled = {} THEN 0
      ELSE n[CHOOSE j \in filled : \A k \in filled : k <= j] - 1

Rejected(sample) ==
  {i \in Ele : /\ cfg.tp # "DEFAULT"
               /\ NeedFilter(sample[i], val[i][PrevIndex(num, i)],
                             cfg.rule[i], cfg.val_tp[i])}

\* A group is dropped as a whole at the first element to be filtered.
Stored(c, rejected) ==
  IF c.tp = "GROUP" /\ rejected # {} THEN {} ELSE Ele \ rejected

\* Which buffers are handed to inform_cb once the sample is stored: default and
\* group mode look at the first element only.
Ready(c, n, i) ==
  IF c.tp = "SINGLE" THEN n[i] >= c.val_num[i] ELSE n[1] >= c.fsize

\* memset after the callback: the whole buffer or the val_num cells in use.
Cleared(cells) == [k \in DOMAIN cells |-> 0]

Prefix(cells, n) == [k \in 1 .. n |-> cells[k - 1]]

\* __tdl_sensor_load_ele_value returning OPRT_OK, then inform_ele_value.
Acquire(sample) ==
  LET st == Stored(cfg, Rejected(sample))
      n1 == [i \in Ele |-> IF i \in st THEN num[i] + 1 ELSE num[i]]
      v1 == [i \in Ele |-> IF i \in st THEN [val[i] EXCEPT ![num[i]] = sample[i]]
                                       ELSE val[i]]
  IN  /\ overflow' = (overflow \/ \E i \in st : num[i] >= cfg.fsize)
      /\ out' = [i \in Ele |-> IF Ready(cfg, n1, i) THEN Prefix(v1[i], n1[i]) ELSE <<>>]
      /\ num' = [i \in Ele |-> IF Ready(cfg, n1, i) THEN 0 ELSE n1[i]]
      /\ val' = [i \in Ele |-> IF Ready(cfg, n1, i) THEN Cleared(v1[i]) ELSE v1[i]]
      /\ UNCHANGED cfg

\* A failing malloc or a failing read_ele: nothing is stored or reported.  In
\* default mode the tp of a NULL ele_sub is read, so the second malloc may or
\* may not be made; its failure ends the same way.
AcquireFails == out' = Nothing /\ UNCHANGED <<cfg, num, val, overflow>>

Next == AcquireFails \/ \E sample \in [Ele -> Vals] : Acquire(sample)

Spec == Init /\ [][Next]_vars
-----------------------------------------------------------------------------
\* Type invariant of the device's FIFO state.
TypeOK ==
  /\ cfg \in [tp      : {"DEFAULT", "GROUP", "SINGLE"},
              fsize   : 1 .. MaxFifo,
              val_num : [Ele -> 1 .. MaxFifo],
              rule    : [Ele -> Rules],
              val_tp  : [Ele -> VAL_TP]]
  /\ num \in [Ele -> 0 .. MaxFifo]
  /\ val \in [Ele -> [0 .. cfg.fsize - 1 -> IntT]]
  /\ overflow \in BOOLEAN

\* No acquisition ever writes past fifo_size: between acquisitions every
\* element holds fewer values than its subscription asks for, however the
\* filter lets samples through and whatever the application asked for.
FifoBounded ==
  ~overflow /\ \A i \in Ele : num[i] < cfg.val_num[i] /\ cfg.val_num[i] <= cfg.fsize

\* Default and group mode test only element 0 for fullness; that is right
\* because all elements of a group always hold the same number of values.
GroupLockstep == cfg.tp # "SINGLE" => \A i, j \in Ele : num[i] = num[j]

\* Cells beyond val_num are zero, which the filter relies on twice: for an
\* empty buffer, and for the index carried over from another element.
TailIsZero == \A i \in Ele : \A k \in num[i] .. cfg.fsize - 1 : val[i][k] = 0

\* The previous value handed to the filter is the last value of the element's
\* own chunk, or 0 when the chunk is empty, never another sample's.
PreviousIsOwn ==
  \A i \in Ele : LET k == PrevIndex(num, i)
                 IN  /\ k < cfg.fsize
                     /\ val[i][k] = IF num[i] = 0 THEN 0 ELSE val[i][num[i] - 1]

Report == INSTANCE SensorReport
            WITH pending <- [i \in Ele |-> Prefix(val[i], num[i])]

\* The buffers, indices and clearing of the code implement the chunked,
\* in-order, exactly-once delivery that SensorReport promises.
RefinesReport == Report!Spec
=============================================================================
