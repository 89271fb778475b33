----------------------------- MODULE SensorHub ------------------------------
(***************************************************************************)
(* The acquisition framework of tdl_sensor_hub.c with its real actors:     *)
(*                                                                         *)
(*   - the main task "sr_main", which waits on sg_task_sem, takes the tick *)
(*     counters, and walks the device list three times (timer_proc,        *)
(*     exti_proc, acquire_handle), looking at a device's flags before it   *)
(*     takes the device's mutex;                                           *)
(*   - the software-timer thread (a read-modify-write of sg_soft_tm_cnt    *)
(*     the main task may preempt), the hardware-timer interrupt and the    *)
(*     GPIO interrupt, which run to completion between any two steps;      *)
(*   - an application thread that opens, closes, reads and configures      *)
(*     devices under their mutexes.                                        *)
(*                                                                         *)
(* The FIFO is reduced to the fill level of one subscribed element (for a  *)
(* raw device raw.len): SensorFifo has the cells, the elements of a group  *)
(* and the filter, which is a choice here.                                 *)
(***************************************************************************)
EXTENDS Integers, FiniteSets

CONSTANTS
  NDev,      \* registered devices; 1 .. NDev is the order of the list
  Raw,       \* the devices registered with ele_num = 0
  Configs,   \* per device, the (corrected) configurations the application uses
  Ops,       \* the calls the application makes: "open", "close", "call"
  Guarded,   \* the application opens only what is off and closes what is on
  SoftTick,  \* SR_SOFT_TM_MIN_INTV_MS
  MaxPend,   \* bound: largest tick count that piles up before the task runs
  SinceCap   \* bound: the elapsed-time history saturates here

Dev == 1 .. NDev
HardTick == 1   \* SR_HARD_TM_MIN_INTV_MS

\* ele_sub of a node; "NONE" is the NULL pointer.
NoSub == [tp |-> "NONE", val_num |-> 0]
Sub   == [tp : {"GROUP", "SINGLE"}, val_num : Nat \ {0}] \cup {NoSub}
Mode  == {"SOFT", "HARD", "EXTI"}

\* mode, poll_intv_ms or irq_pin, irq_mode, fifo_size, ele_sub of SR_DEV_CFG_T.
Config == [mode : Mode, word : Nat, edge : Nat, fsize : Nat \ {0}, sub : Sub]

\* The GPIO pins some configuration uses.
Pin == UNION {{c.word : c \in {x \in Configs[d] : x.mode = "EXTI"}} : d \in Dev}

ASSUME HubAssumption ==
  /\ NDev \in Nat \ {0}
  /\ Raw \subseteq Dev
  /\ Configs \in [Dev -> SUBSET Config]
  /\ Ops \subseteq {"open", "close", "call"}
  /\ Guarded \in BOOLEAN
  /\ SoftTick \in Nat \ {0}
  /\ MaxPend \in Nat
  /\ SinceCap \in Nat
  /\ \A d \in Dev : \A c \in Configs[d] : c.mode # "EXTI" => c.word <= SinceCap
  /\ \A d \in Raw : \A c \in Configs[d] : c.sub = NoSub

VARIABLES
  start, need, irq,        \* flag.is_start, is_need_acquire, is_irq_occur
  mode, word, run,         \* trig_mode; intv_ms | irq_pin; run_time_ms | irq_mode (a union)
  fsize, sub, fifo, num,   \* fifo_size, ele_sub, cells allocated (0 = NULL), fill
  mutex,                   \* who holds the device mutex
  softCnt, hardCnt, sem,   \* sg_soft_tm_cnt, sg_hard_tm_cnt, sg_task_sem
  softOn, hardOn, armed,   \* timers started; which node's pin each GPIO irq reads
  pc, at, soft, hard,      \* main task: program counter, list position, locals
  rdOk, irqReg,            \* main task: result of the read, flag byte in a register
  swReg,                   \* timer thread: the loaded sg_soft_tm_cnt, or -1
  app, appDev,             \* application thread: where it is inside a call
  turnOn,                  \* application: sg_sht30_flag.turn_on, per device
  since, evt,              \* history: ms since the last trigger; trigger not served
  fault                    \* history: the memory error the main task ran into

flagVars  == <<start, need, irq>>
cfgVars   == <<mode, word, fsize, sub>>
tickVars  == <<softCnt, hardCnt, softOn, hardOn, armed, swReg>>
localVars == <<soft, hard, rdOk, irqReg>>
appVars   == <<app, appDev, turnOn>>
vars == <<flagVars, cfgVars, run, fifo, num, mutex, tickVars, sem, pc, at, localVars,
          appVars, since, evt, fault>>

Saturate(n) == IF n > SinceCap THEN SinceCap ELSE n
-----------------------------------------------------------------------------
(* Plausible slips in small steps of the code, used to show that the       *)
(* properties notice them.                                                 *)

LocksNothing(d)       == app = "idle"
AnyPin(pin)           == {d \in Dev : start[d] /\ mode[d] = "EXTI"}
NotCleared            == hardCnt
SwappedBatch(d)       == IF mode[d] = "SOFT" THEN hard ELSE soft
ClearedOnSuccess(d)   == (d \in Raw \/ ~rdOk) /\ need[d]
ReportedWhenOver(d, n) ==
  IF n > (IF sub[d].tp = "SINGLE" THEN sub[d].val_num ELSE fsize[d]) THEN 0 ELSE n
IrqForgotten          == need
-----------------------------------------------------------------------------
(* Application: tdl_sensor_dev_open, _close, _read, _config.               *)

\* tkl_mutex_lock(device->mutex) in an application call.
AppLocks(d) == app = "idle" /\ mutex[d] = "free"

\* The interval part of __tdl_sensor_check_config and the bound on val_num.
CheckConfig(c) ==
  /\ c.mode = "SOFT" => c.word >= SoftTick
  /\ c.mode = "HARD" => c.word >= HardTick
  /\ c.sub.tp = "SINGLE" => c.sub.val_num <= c.fsize

\* __tdl_sensor_load_config.  An old ele_sub is kept when the new configuration
\* has none and freed when it has one; outcome "no_sub" is the malloc for the new
\* one that fails.  run_time_ms is not reset (an irq_mode overwrites it).
LoadConfig(d, c, outcome) ==
  /\ outcome = "no_sub" => c.sub # NoSub
  /\ mode'  = [mode EXCEPT ![d] = c.mode]
  /\ word'  = [word EXCEPT ![d] = c.word]
  /\ run'   = [run EXCEPT ![d] = IF c.mode = "EXTI" THEN c.edge ELSE @]
  /\ fsize' = [fsize EXCEPT ![d] = c.fsize]
  /\ sub'   = [sub EXCEPT ![d] = IF outcome = "no_sub" THEN NoSub
                                 ELSE IF c.sub # NoSub THEN c.sub ELSE @]

\* __tdl_sensor_prepare_app_fifo, unless load_config failed: the old FIFO is
\* freed, the new one may fail.  raw.len is not reset.
PrepareAppFifo(d, c, outcome) ==
  /\ fifo'  = [fifo EXCEPT ![d] = CASE outcome = "ok"      -> c.fsize
                                    [] outcome = "no_fifo" -> 0
                                    [] OTHER               -> @]
  /\ num'   = [num EXCEPT ![d] = IF d \in Raw \/ outcome = "no_sub" THEN @ ELSE 0]

\* tdl_sensor_dev_open and __tdl_sensor_dev_open up to the trigger; a failed
\* malloc returns.
OpenLoad(d, c, outcome) ==
  /\ AppLocks(d) /\ "open" \in Ops
  /\ Guarded => ~turnOn[d]
  /\ CheckConfig(c)
  /\ LoadConfig(d, c, outcome)
  /\ PrepareAppFifo(d, c, outcome)
  /\ since' = [since EXCEPT ![d] = SinceCap]
  /\ IF outcome = "ok"
     THEN mutex' = [mutex EXCEPT ![d] = "app"] /\ app' = "trig" /\ appDev' = d
     ELSE UNCHANGED <<mutex, app, appDev>>
  /\ UNCHANGED <<flagVars, tickVars, sem, pc, at, localVars, turnOn, evt, fault>>

AppReturns(d) == /\ mutex' = [mutex EXCEPT ![d] = "free"]
                 /\ app' = "idle"
                 /\ UNCHANGED appDev

\* __tdl_sensor_daq_trig_init: a timer is started once; the GPIO interrupt is
\* given a pointer into the node and enabled before the device is started.
OpenTrigInit(d, ok) ==
  /\ app = "trig" /\ appDev = d
  /\ (mode[d] = "SOFT" /\ softOn) \/ (mode[d] = "HARD" /\ hardOn) => ok
  /\ IF ok
     THEN /\ app' = "drv" /\ UNCHANGED <<mutex, appDev>>
          /\ softOn' = (softOn \/ mode[d] = "SOFT")
          /\ hardOn' = (hardOn \/ mode[d] = "HARD")
          /\ armed' = IF mode[d] = "EXTI" THEN [armed EXCEPT ![word[d]] = d] ELSE armed
     ELSE /\ AppReturns(d)
          /\ UNCHANGED <<softOn, hardOn, armed>>
  /\ UNCHANGED <<flagVars, cfgVars, run, fifo, num, softCnt, hardCnt, swReg, sem, pc, at,
                 localVars, turnOn, since, evt, fault>>

\* The driver's open, then is_start.  A failure leaves the configuration, the
\* FIFO and the trigger in place.
OpenDriver(d, ok) ==
  /\ app = "drv" /\ appDev = d
  /\ AppReturns(d)
  /\ start'  = [start EXCEPT ![d] = @ \/ ok]
  /\ turnOn' = [turnOn EXCEPT ![d] = @ \/ ok]
  /\ UNCHANGED <<need, irq, cfgVars, run, fifo, num, tickVars, sem, pc, at, localVars,
                 since, evt, fault>>

\* tdl_sensor_dev_close: flags and parameters are cleared, the FIFO and the
\* subscription freed; the GPIO interrupt stays armed.  (A failing driver
\* close returns without a change.)
Close(d) ==
  /\ AppLocks(d) /\ "close" \in Ops
  /\ Guarded => turnOn[d]
  /\ start'  = [start EXCEPT ![d] = FALSE]
  /\ need'   = [need EXCEPT ![d] = FALSE]
  /\ irq'    = [irq EXCEPT ![d] = FALSE]
  /\ word'   = [word EXCEPT ![d] = 0]
  /\ run'    = [run EXCEPT ![d] = 0]
  /\ fifo'   = [fifo EXCEPT ![d] = 0]
  /\ num'    = [num EXCEPT ![d] = 0]
  /\ mode'   = [mode EXCEPT ![d] = "SOFT"]
  /\ fsize'  = [fsize EXCEPT ![d] = 0]
  /\ sub'    = [sub EXCEPT ![d] = NoSub]
  /\ turnOn' = [turnOn EXCEPT ![d] = FALSE]
  /\ evt'    = [evt EXCEPT ![d] = FALSE]
  /\ UNCHANGED <<mutex, tickVars, sem, pc, at, localVars, app, appDev, since, fault>>

\* tdl_sensor_dev_read and _config: the mutex is held during a driver call.
Call(d) ==
  /\ AppLocks(d) /\ "call" \in Ops
  /\ mutex' = [mutex EXCEPT ![d] = "app"]
  /\ app' = "call" /\ appDev' = d
  /\ UNCHANGED <<flagVars, cfgVars, run, fifo, num, tickVars, sem, pc, at, localVars, turnOn,
                 since, evt, fault>>

CallReturns(d) ==
  /\ app = "call" /\ appDev = d
  /\ AppReturns(d)
  /\ UNCHANGED <<flagVars, cfgVars, run, fifo, num, tickVars, sem, pc, at, localVars, turnOn,
                 since, evt, fault>>

AppFinish == \E d \in Dev : \/ \E ok \in BOOLEAN : OpenTrigInit(d, ok) \/ OpenDriver(d, ok)
                            \/ CallReturns(d)
AppStep == \/ \E d \in Dev : \/ \E c \in Configs[d], o \in {"ok", "no_sub", "no_fifo"} :
                                   OpenLoad(d, c, o)
                             \/ Close(d) \/ Call(d)
           \/ AppFinish
-----------------------------------------------------------------------------
(* Timers and interrupts.                                                  *)

\* A tick of a time base ages the devices that poll on it.
Aged(tp, ms) == [d \in Dev |-> IF mode[d] = tp THEN Saturate(since[d] + ms) ELSE since[d]]

\* tkl_semaphore_post: sg_task_sem is created with a maximum of 1.
Posted == 1

\* __tdl_sensor_soft_timer_cb runs in the timer thread: the load and the store
\* of sg_soft_tm_cnt are two steps, then the post.
SoftTimerLoad ==
  /\ softOn /\ swReg = -1 /\ softCnt + SoftTick <= MaxPend
  /\ swReg' = softCnt
  /\ since' = Aged("SOFT", SoftTick)
  /\ UNCHANGED <<flagVars, cfgVars, run, fifo, num, mutex, softCnt, hardCnt, softOn, hardOn,
                 armed, sem, pc, at, localVars, appVars, evt, fault>>

SoftTimerStore ==
  /\ swReg # -1
  /\ softCnt' = swReg + SoftTick
  /\ swReg' = -1
  /\ sem' = Posted
  /\ UNCHANGED <<flagVars, cfgVars, run, fifo, num, mutex, hardCnt, softOn, hardOn, armed,
                 pc, at, localVars, appVars, since, evt, fault>>

\* __tdl_sensor_hard_timer_cb is an interrupt handler.
HardTimerIsr ==
  /\ hardOn /\ hardCnt + HardTick <= MaxPend
  /\ hardCnt' = hardCnt + HardTick
  /\ sem' = Posted
  /\ since' = Aged("HARD", HardTick)
  /\ UNCHANGED <<flagVars, cfgVars, run, fifo, num, mutex, softCnt, softOn, hardOn, armed,
                 swReg, pc, at, localVars, appVars, evt, fault>>

\* The devices __tdl_sensor_exti_cb would flag for a pin.
OnPin(pin) == {d \in Dev : start[d] /\ mode[d] = "EXTI" /\ word[d] = pin}

\* __tdl_sensor_exti_cb: the argument points at the arming node's irq_pin; the
\* first device of the list with that pin is flagged.
ExtiIsr(p) ==
  LET hits == OnPin(word[armed[p]])
      own  == {d \in Dev : start[d] /\ mode[d] = "EXTI" /\ word[d] = p}
  IN  /\ armed[p] # 0
      /\ irq' = [d \in Dev |-> irq[d] \/ (d \in hits /\ \A e \in hits : d <= e)]
      /\ sem' = Posted
      /\ evt' = [d \in Dev |-> evt[d] \/ d \in own]
      /\ UNCHANGED <<start, need, cfgVars, run, fifo, num, mutex, tickVars, pc, at, localVars,
                     appVars, since, fault>>

Timers == SoftTimerLoad \/ SoftTimerStore \/ HardTimerIsr \/ \E p \in Pin : ExtiIsr(p)
-----------------------------------------------------------------------------
(* __tdl_sensor_main_task.                                                 *)

Goto(label, pos) == pc' = label /\ at' = pos

\* tkl_semaphore_wait
TaskWakes ==
  /\ pc = "wait" /\ sem = 1
  /\ sem' = 0
  /\ Goto("soft_rd", 1)
  /\ UNCHANGED <<flagVars, cfgVars, run, fifo, num, mutex, tickVars, localVars, appVars,
                 since, evt, fault>>

\* The counters are copied and zeroed, four separate accesses.
TakeSoft ==
  \/ /\ pc = "soft_rd" /\ soft' = softCnt /\ Goto("soft_clr", 1) /\ UNCHANGED softCnt
     /\ UNCHANGED <<flagVars, cfgVars, run, fifo, num, mutex, hardCnt, softOn, hardOn, armed,
                    swReg, sem, hard, rdOk, irqReg, appVars, since, evt, fault>>
  \/ /\ pc = "soft_clr" /\ softCnt' = 0 /\ Goto("hard_rd", 1) /\ UNCHANGED soft
     /\ UNCHANGED <<flagVars, cfgVars, run, fifo, num, mutex, hardCnt, softOn, hardOn, armed,
                    swReg, sem, hard, rdOk, irqReg, appVars, since, evt, fault>>

ReadHard ==
  /\ pc = "hard_rd" /\ hard' = hardCnt /\ Goto("hard_clr", 1)
  /\ UNCHANGED <<flagVars, cfgVars, run, fifo, num, mutex, tickVars, sem, soft, rdOk, irqReg,
                 appVars, since, evt, fault>>

\* The hardware counter after the task has taken its copy.
LeftOver == 0

\* timer_proc returns at once when no tick was taken.
ClearHard ==
  /\ pc = "hard_clr" /\ hardCnt' = LeftOver
  /\ Goto(IF soft = 0 /\ hard = 0 THEN "exti" ELSE "tm", 1)
  /\ UNCHANGED <<flagVars, cfgVars, run, fifo, num, mutex, softCnt, softOn, hardOn, armed,
                 swReg, sem, localVars, appVars, since, evt, fault>>

\* The unlocked look at a device that each of the three list walks begins with.
Walk(label, wanted(_), locked, next) ==
  /\ pc = label
  /\ IF at > NDev THEN Goto(next, 1)
     ELSE IF wanted(at) THEN Goto(locked, at) ELSE Goto(label, at + 1)
  /\ UNCHANGED <<flagVars, cfgVars, run, fifo, num, mutex, tickVars, sem, rdOk, irqReg, appVars,
                 since, evt, fault>>

\* (The copied counts are dead after timer_proc; the model forgets them.)
TimerCheck ==
  LET polled(d) == start[d] /\ mode[d] # "EXTI"
  IN  /\ Walk("tm", polled, "tm_lock", "exti")
      /\ IF at > NDev THEN soft' = 0 /\ hard' = 0 ELSE UNCHANGED <<soft, hard>>

ExtiCheck ==
  LET hit(d) == start[d] /\ mode[d] = "EXTI" /\ irq[d]
  IN  Walk("exti", hit, "exti_lock", "acq") /\ UNCHANGED <<soft, hard>>

AcquireCheck ==
  LET due(d) == start[d] /\ need[d]
  IN  Walk("acq", due, "acq_lock", "wait") /\ UNCHANGED <<soft, hard>>

\* The ticks timer_proc adds to device d, and whether that makes it due.
Batch(d) == IF mode[d] = "SOFT" THEN soft ELSE hard
Due(d)   == run[d] + Batch(d) >= word[d]

\* timer_proc under the mutex.  The ticks already pending again are the part of
\* the next interval that has gone by.
TimerUpdate ==
  /\ pc = "tm_lock" /\ mutex[at] = "free"
  /\ run' = [run EXCEPT ![at] = IF Due(at) THEN 0 ELSE @ + Batch(at)]
  /\ need' = [need EXCEPT ![at] = @ \/ Due(at)]
  /\ since' = [since EXCEPT ![at] = IF ~Due(at) THEN @
                 ELSE Saturate(IF mode[at] = "SOFT" THEN softCnt ELSE hardCnt)]
  /\ evt' = [evt EXCEPT ![at] = @ \/ Due(at)]
  /\ Goto("tm", at + 1)
  /\ UNCHANGED <<start, irq, cfgVars, fifo, num, mutex, tickVars, sem, localVars, appVars,
                 fault>>

\* is_need_acquire after the interrupt of the current device was taken over.
IrqTaken == [need EXCEPT ![at] = TRUE]

\* exti_proc under the mutex.
ExtiUpdate ==
  /\ pc = "exti_lock" /\ mutex[at] = "free"
  /\ irq' = [irq EXCEPT ![at] = FALSE]
  /\ need' = IrqTaken
  /\ Goto("exti", at + 1)
  /\ UNCHANGED <<start, cfgVars, run, fifo, num, mutex, tickVars, sem, localVars, appVars,
                 since, evt, fault>>

Crash(what) == fault' = what /\ Goto("dead", at)

\* acquire_handle takes the mutex; load_ele_value fails at once without memory
\* for the sample (a raw device needs none), and is_need_acquire stays set.
AcquireNoMemory ==
  /\ pc = "acq_lock" /\ mutex[at] = "free" /\ at \notin Raw
  /\ Goto("acq", at + 1)
  /\ UNCHANGED <<flagVars, cfgVars, run, fifo, num, mutex, tickVars, sem, localVars, appVars,
                 since, evt, fault>>

\* Otherwise the FIFO is accessed: it is NULL when the device was closed after
\* the unlocked look.
AcquireBegin ==
  /\ pc = "acq_lock" /\ mutex[at] = "free"
  /\ mutex' = [mutex EXCEPT ![at] = "main"]
  /\ IF fifo[at] = 0 THEN Crash("null_fifo") ELSE Goto("acq_rd", at) /\ UNCHANGED fault
  /\ UNCHANGED <<flagVars, cfgVars, run, fifo, num, tickVars, sem, localVars, appVars,
                 since, evt>>

\* The driver's read_ele or read_raw.  read_raw writes at raw.len.  Then
\* load_ele_value loads the flag byte to clear is_need_acquire in it.
AcquireRead(ok) ==
  /\ pc = "acq_rd"
  /\ rdOk' = ok
  /\ irqReg' = irq[at]
  /\ evt' = [evt EXCEPT ![at] = FALSE]
  /\ IF ok /\ at \in Raw /\ num[at] >= fifo[at] THEN Crash("overflow")
     ELSE Goto("acq_st", at) /\ UNCHANGED fault
  /\ UNCHANGED <<flagVars, cfgVars, run, fifo, num, mutex, tickVars, sem, soft, hard, appVars,
                 since>>

\* How full the buffer must be to be reported.
Quota(d) == IF sub[d].tp = "SINGLE" THEN sub[d].val_num ELSE fsize[d]

\* What is left of n buffered values: a full buffer is reported and emptied.
Kept(d, n) == IF n >= Quota(d) THEN 0 ELSE n

\* is_need_acquire after the read, successful or not; load_and_inform_raw_value
\* never clears it.
StillNeeded(d) == d \in Raw /\ need[d]

\* Without a subscription load_ele_value reads ele_sub->tp through the NULL
\* pointer: undefined, it may stop the task or (AcquireStore) yield some value.
AcquireNullSub ==
  /\ pc = "acq_st" /\ rdOk /\ at \notin Raw /\ sub[at] = NoSub
  /\ Crash("null_sub")
  /\ UNCHANGED <<flagVars, cfgVars, run, fifo, num, mutex, tickVars, sem, localVars, appVars,
                 since, evt>>

\* The flag byte is stored back (not for a raw device); the sample, unless the
\* filter drops it, goes into the FIFO, and a full FIFO is reported and emptied.
\* After a failed read or a failed second malloc (never made for a group) the
\* FIFO is not looked at.
AcquireStore(keep) ==
  LET d == at
      n == IF rdOk /\ keep THEN num[d] + 1 ELSE num[d]
  IN  /\ pc = "acq_st"
      /\ keep => rdOk
      /\ d \in Raw => keep = rdOk
      /\ need' = [need EXCEPT ![d] = StillNeeded(d)]
      /\ irq'  = [irq EXCEPT ![d] = IF d \in Raw THEN @ ELSE irqReg]
      /\ \/ rdOk /\ num' = [num EXCEPT ![d] = Kept(d, n)]
         \/ ~keep /\ (rdOk => sub[d].tp # "GROUP") /\ UNCHANGED num
      /\ IF n > fifo[d] THEN Crash("overflow") /\ UNCHANGED mutex
         ELSE /\ Goto("acq", d + 1) /\ UNCHANGED fault
              /\ mutex' = [mutex EXCEPT ![d] = "free"]
      /\ rdOk' = FALSE /\ irqReg' = FALSE
      /\ UNCHANGED <<start, cfgVars, run, fifo, tickVars, sem, soft, hard, appVars, since, evt>>

MainStep ==
  \/ TaskWakes \/ TakeSoft \/ ReadHard \/ ClearHard
  \/ TimerCheck \/ TimerUpdate \/ ExtiCheck \/ ExtiUpdate
  \/ AcquireCheck \/ AcquireNoMemory \/ AcquireBegin \/ AcquireNullSub
  \/ \E ok \in BOOLEAN : AcquireRead(ok) \/ AcquireStore(ok)
-----------------------------------------------------------------------------
Init ==
  /\ start = [d \in Dev |-> FALSE] /\ need = start /\ irq = start
  /\ turnOn = start /\ evt = start
  /\ mode = [d \in Dev |-> "SOFT"]
  /\ word = [d \in Dev |-> 0] /\ run = word /\ fsize = word /\ fifo = word /\ num = word
  /\ sub = [d \in Dev |-> NoSub]
  /\ mutex = [d \in Dev |-> "free"]
  /\ softCnt = 0 /\ hardCnt = 0 /\ sem = 0
  /\ softOn = FALSE /\ hardOn = FALSE /\ armed = [p \in Pin |-> 0] /\ swReg = -1
  /\ pc = "wait" /\ at = 1 /\ soft = 0 /\ hard = 0 /\ rdOk = FALSE /\ irqReg = FALSE
  /\ app = "idle" /\ appDev = 1
  /\ since = [d \in Dev |-> SinceCap]
  /\ fault = "none"

Next == AppStep \/ Timers \/ MainStep

Spec == Init /\ [][Next]_vars

\* The scheduler runs the task and the application's unfinished call whenever
\* they can run infinitely often (the mutex is not handed past a waiting task),
\* ticks are not for ever confined to the moments when the task is awake, and
\* memory for a device's sample is not missing for ever.
Fairness ==
  /\ SF_vars(MainStep) /\ WF_vars(AppFinish) /\ WF_vars(SoftTimerStore)
  /\ \A d \in Dev : SF_vars(AcquireBegin /\ at = d)
  /\ SF_vars(HardTimerIsr /\ pc = "wait")
  /\ SF_vars(SoftTimerLoad /\ pc = "wait") /\ SF_vars(SoftTimerStore /\ pc = "wait")

FairSpec == Spec /\ Fairness
-----------------------------------------------------------------------------
(* Properties.                                                             *)

Labels == {"wait", "soft_rd", "soft_clr", "hard_rd", "hard_clr", "tm", "tm_lock",
           "exti", "exti_lock", "acq", "acq_lock", "acq_rd", "acq_st", "dead"}

\* Type invariant of the framework's state.
TypeOK ==
  /\ start \in [Dev -> BOOLEAN] /\ need \in [Dev -> BOOLEAN] /\ irq \in [Dev -> BOOLEAN]
  /\ mode \in [Dev -> Mode] /\ word \in [Dev -> Nat] /\ run \in [Dev -> Nat]
  /\ fsize \in [Dev -> Nat] /\ fifo \in [Dev -> Nat] /\ num \in [Dev -> Nat]
  /\ sub \in [Dev -> Sub]
  /\ mutex \in [Dev -> {"free", "main", "app"}]
  /\ softCnt \in Nat /\ hardCnt \in Nat /\ sem \in 0 .. 1
  /\ softOn \in BOOLEAN /\ hardOn \in BOOLEAN /\ armed \in [Pin -> 0 .. NDev]
  /\ pc \in Labels /\ at \in 1 .. NDev + 1
  /\ soft \in Nat /\ hard \in Nat /\ rdOk \in BOOLEAN /\ irqReg \in BOOLEAN
  /\ swReg \in Nat \cup {-1}
  /\ app \in {"idle", "trig", "drv", "call"} /\ appDev \in Dev
  /\ turnOn \in [Dev -> BOOLEAN]
  /\ since \in [Dev -> 0 .. SinceCap] /\ evt \in [Dev -> BOOLEAN]
  /\ fault \in {"none", "null_fifo", "null_sub", "overflow"}

\* The list position denotes a device wherever the main task uses it as one.
Located == pc \in {"tm_lock", "exti_lock", "acq_lock", "acq_rd", "acq_st"} => at \in Dev

\* The main task reads and stores only under the device's mutex, and a pending
\* application call holds the mutex of its device.
MutexHeld ==
  /\ pc \in {"acq_rd", "acq_st"} => mutex[at] = "main"
  /\ app # "idle" => mutex[appDev] = "app"

\* The hardware ticks that timer_proc has yet to add to device d.
Untaken(d) == IF pc \in {"tm", "tm_lock"} /\ at <= d THEN hard + hardCnt ELSE hardCnt

\* What a HARD device has been credited with and what it can still be credited
\* with is no more than the time since its last trigger; the copy is part of the
\* counter until the counter is cleared.
HardAccount ==
  /\ pc = "hard_clr" => hard <= hardCnt
  /\ \A d \in Dev : mode[d] = "HARD"
       => /\ word[d] <= SinceCap
          /\ since[d] = SinceCap \/ run[d] + Untaken(d) <= since[d]

\* The main task never writes past the end of a FIFO, whatever the application
\* opens and closes while samples arrive: a started device has a FIFO of the size
\* and for the subscription in force, and it is never left full.
StartedFifoFits ==
  /\ fault # "overflow"
  /\ \A d \in Dev : start[d] /\ mutex[d] # "app"
                    => fifo[d] = fsize[d] /\ num[d] < Quota(d) /\ Quota(d) <= fifo[d]

\* A device polled by the hardware timer becomes due only after its interval:
\* the racy copy-and-clear of the tick counter may lose ticks but never counts
\* one twice.  (The first trigger after a configuration was loaded is free.)
HardNeverEarly ==
  pc = "tm_lock" /\ mode[at] = "HARD" /\ Due(at) => since[at] >= word[at]

\* Device d keeps its buffers and their configuration in a step.
SameBuffers(d) == fifo'[d] = fifo[d] /\ fsize'[d] = fsize[d] /\ sub'[d] = sub[d]

\* While the main task reads a device and stores the sample, the buffers and the
\* configuration it uses are not freed, resized or replaced under it.
StableDuringAcquire == [][(pc = "acq_rd" \/ pc = "acq_st") => SameBuffers(at)]_vars

\* The driver of a device with elements is read only for a trigger that no
\* earlier read has served: at most one read per polling interval.  (A raw device,
\* whose is_need_acquire is never cleared, is read on every later wake-up.)
OneReadPerTrigger ==
  pc = "acq_rd" /\ at \notin Raw /\ start[at] /\ mode[at] # "EXTI" => evt[at]

\* An interrupt triggers only a device that was configured for its pin.
IrqIsOwn == [][\A d \in Dev : irq'[d] /\ ~irq[d] => evt'[d]]_vars

\* A polled device that is open is sampled again and again, in spite of lost
\* ticks, failing mallocs and reads, and an application that holds its mutex.
PolledIsSampled ==
  \A d \in Dev : (start[d] /\ mode[d] # "EXTI") ~> (pc = "acq_rd" /\ at = d)

\* The task has found device d due and is about to acquire it.
Attempted(d) == pc = "acq_lock" /\ at = d

\* An interrupt flag that is set when the task goes to sleep wakes it and leads
\* to an acquisition: the flag is set before the post and tested after the wait.
FlaggedIrqServed == \A d \in Dev : (irq[d] /\ pc = "wait") ~> Attempted(d)
=============================================================================
