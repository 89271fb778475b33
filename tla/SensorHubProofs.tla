-------------------------- MODULE SensorHubProofs ---------------------------
(***************************************************************************)
(* Theorems about SensorHub for every number of devices, every set of      *)
(* configurations and every bound.                                         *)
(***************************************************************************)
EXTENDS SensorHub, TLAPS

\* The inductive part that every theorem shares.
Basic == TypeOK /\ Located /\ MutexHeld
-----------------------------------------------------------------------------
(* Initial states.                                                         *)

\* No device is registered started, no call is pending: the shared invariant
\* holds initially.
LEMMA InitBasic == Init => Basic
  <1> SUFFICES ASSUME Init PROVE Basic
    OBVIOUS
  <1>a. /\ start \in [Dev -> BOOLEAN] /\ need \in [Dev -> BOOLEAN] /\ irq \in [Dev -> BOOLEAN]
        /\ turnOn \in [Dev -> BOOLEAN] /\ evt \in [Dev -> BOOLEAN]
    BY DEF Init
  <1>b. /\ word \in [Dev -> Nat] /\ run \in [Dev -> Nat] /\ fsize \in [Dev -> Nat]
        /\ fifo \in [Dev -> Nat] /\ num \in [Dev -> Nat]
    BY DEF Init
  <1>c. mode \in [Dev -> Mode] /\ sub \in [Dev -> Sub]
    BY DEF Init, Mode, Sub
  <1>d. /\ armed \in [Pin -> 0 .. NDev] /\ at \in 1 .. NDev + 1 /\ appDev \in Dev
        /\ since \in [Dev -> 0 .. SinceCap] /\ pc \in Labels
    BY HubAssumption DEF Init, Dev, Labels
  <1>e. /\ softOn \in BOOLEAN /\ hardOn \in BOOLEAN /\ rdOk \in BOOLEAN /\ irqReg \in BOOLEAN
        /\ mutex \in [Dev -> {"free", "main", "app"}]
    BY DEF Init
  <1>f. /\ softCnt \in Nat /\ hardCnt \in Nat /\ sem \in 0 .. 1 /\ soft \in Nat /\ hard \in Nat
        /\ swReg \in Nat \cup {-1}
    BY DEF Init
  <1>g. app \in {"idle", "trig", "drv", "call"}
        /\ fault \in {"none", "null_fifo", "null_sub", "overflow"}
    BY DEF Init
  <1>1. TypeOK
    BY <1>a, <1>b, <1>c, <1>d, <1>e, <1>f, <1>g DEF TypeOK
  <1>2. Located /\ MutexHeld
    BY DEF Init, Located, MutexHeld
  <1> QED
    BY <1>1, <1>2 DEF Basic
-----------------------------------------------------------------------------
(* One lemma per group of steps.                                           *)

\* Loading a configuration keeps the shared invariant.
LEMMA OpenLoadBasic ==
  ASSUME Basic, NEW d \in Dev, NEW c \in Configs[d],
         NEW o \in {"ok", "no_sub", "no_fifo"}, OpenLoad(d, c, o)
  PROVE  Basic'
  <1>1. c \in Config
    BY HubAssumption
  <1>2. /\ c.mode \in Mode /\ c.word \in Nat /\ c.edge \in Nat /\ c.fsize \in Nat
        /\ c.sub \in Sub
    BY <1>1 DEF Config
  <1>3. NoSub \in Sub
    BY DEF Sub
  <1>4. TypeOK'
    BY <1>2, <1>3, HubAssumption
    DEF Basic, TypeOK, OpenLoad, LoadConfig, PrepareAppFifo, AppLocks, flagVars, tickVars,
           localVars
  <1>5. Located'
    BY DEF Basic, Located, OpenLoad
  <1>6. MutexHeld'
    BY DEF Basic, TypeOK, Located, MutexHeld, OpenLoad, AppLocks
  <1> QED
    BY <1>4, <1>5, <1>6 DEF Basic

\* Starting the trigger keeps the shared invariant.
LEMMA OpenTrigInitBasic ==
  ASSUME Basic, NEW d \in Dev, NEW ok \in BOOLEAN, OpenTrigInit(d, ok)
  PROVE  Basic'
  <1>a. softOn' \in BOOLEAN /\ hardOn' \in BOOLEAN
    BY DEF Basic, TypeOK, OpenTrigInit
  <1>b. armed' \in [Pin -> 0 .. NDev]
    <2>1. armed \in [Pin -> 0 .. NDev] /\ d \in 0 .. NDev
      BY HubAssumption DEF Basic, TypeOK, Dev
    <2>2. armed' = armed \/ armed' = [armed EXCEPT ![word[d]] = d]
      BY Zenon DEF OpenTrigInit
    <2> QED
      BY <2>1, <2>2
  <1>c. mutex' \in [Dev -> {"free", "main", "app"}] /\ appDev' \in Dev
        /\ app' \in {"idle", "trig", "drv", "call"}
    BY DEF Basic, TypeOK, OpenTrigInit, AppReturns
  <1>1. TypeOK'
    BY <1>a, <1>b, <1>c DEF Basic, TypeOK, OpenTrigInit, flagVars, cfgVars, localVars
  <1>2. Located'
    BY HubAssumption DEF Basic, TypeOK, Located, Labels, OpenTrigInit, AppReturns, flagVars,
           cfgVars, tickVars, localVars, appVars, Dev
  <1>3. MutexHeld'
    BY DEF Basic, TypeOK, Located, MutexHeld, OpenTrigInit, AppReturns, flagVars, cfgVars,
           tickVars, localVars, appVars, Dev
  <1> QED
    BY <1>1, <1>2, <1>3 DEF Basic

\* Opening the driver keeps the shared invariant.
LEMMA OpenDriverBasic ==
  ASSUME Basic, NEW d \in Dev, NEW ok \in BOOLEAN, OpenDriver(d, ok)
  PROVE  Basic'
  <1>1. TypeOK'
    BY HubAssumption
    DEF Basic, TypeOK, Located, OpenDriver, AppReturns, flagVars, cfgVars, tickVars,
           localVars, appVars
  <1>2. Located'
    BY HubAssumption DEF Basic, TypeOK, Located, Labels, OpenDriver, AppReturns, flagVars,
           cfgVars, tickVars, localVars, appVars
  <1>3. MutexHeld'
    BY DEF Basic, TypeOK, Located, MutexHeld, OpenDriver, AppReturns, flagVars, cfgVars,
           tickVars, localVars, appVars
  <1> QED
    BY <1>1, <1>2, <1>3 DEF Basic

\* Closing a device keeps the shared invariant.
LEMMA CloseBasic ==
  ASSUME Basic, NEW d \in Dev, Close(d)
  PROVE  Basic'
  <1>1. TypeOK'
    BY HubAssumption
    DEF Basic, TypeOK, Located, Close, AppLocks, Mode, Sub, flagVars, cfgVars, tickVars,
           localVars, appVars
  <1>2. Located'
    BY HubAssumption DEF Basic, TypeOK, Located, Labels, Close, AppLocks, Mode, Sub,
           flagVars, cfgVars, tickVars, localVars, appVars
  <1>3. MutexHeld'
    BY DEF Basic, TypeOK, Located, MutexHeld, Close, AppLocks, Mode, Sub, flagVars, cfgVars,
           tickVars, localVars, appVars
  <1> QED
    BY <1>1, <1>2, <1>3 DEF Basic

\* A read or config call keeps the shared invariant.
LEMMA CallBasic ==
  ASSUME Basic, NEW d \in Dev, Call(d) \/ CallReturns(d)
  PROVE  Basic'
  <1>1. TypeOK'
    BY HubAssumption
    DEF Basic, TypeOK, Located, Call, CallReturns, AppReturns, AppLocks, flagVars, cfgVars,
           tickVars, localVars, appVars
  <1>2. Located'
    BY HubAssumption DEF Basic, TypeOK, Located, Labels, Call, CallReturns, AppReturns,
           AppLocks, flagVars, cfgVars, tickVars, localVars, appVars
  <1>3. MutexHeld'
    BY DEF Basic, TypeOK, Located, MutexHeld, Call, CallReturns, AppReturns, AppLocks,
           flagVars, cfgVars, tickVars, localVars, appVars
  <1> QED
    BY <1>1, <1>2, <1>3 DEF Basic

\* The timers and interrupts keep the shared invariant.
LEMMA TimersBasic ==
  ASSUME Basic, Timers
  PROVE  Basic'
  <1>1. TypeOK'
    BY HubAssumption
    DEF Basic, TypeOK, Located, Timers, SoftTimerLoad, SoftTimerStore, HardTimerIsr,
           ExtiIsr, Aged, Saturate, Posted, HardTick, OnPin, flagVars, cfgVars, tickVars,
           localVars, appVars
  <1>2. Located'
    BY HubAssumption DEF Basic, TypeOK, Located, Labels, Timers, SoftTimerLoad,
           SoftTimerStore, HardTimerIsr, ExtiIsr, Aged, Saturate, Posted, HardTick, OnPin,
           flagVars, cfgVars, tickVars, localVars, appVars
  <1>3. MutexHeld'
    BY DEF Basic, TypeOK, Located, MutexHeld, Timers, SoftTimerLoad, SoftTimerStore,
           HardTimerIsr, ExtiIsr, Aged, Saturate, Posted, HardTick, OnPin, flagVars,
           cfgVars, tickVars, localVars, appVars
  <1> QED
    BY <1>1, <1>2, <1>3 DEF Basic

\* Waking up and taking the tick counts keeps the shared invariant.
LEMMA TakeTicksBasic ==
  ASSUME Basic, TaskWakes \/ TakeSoft \/ ReadHard \/ ClearHard
  PROVE  Basic'
  <1>1. TypeOK'
    BY HubAssumption
    DEF Basic, TypeOK, Located, TaskWakes, TakeSoft, ReadHard, ClearHard, LeftOver, Goto,
           Labels, flagVars, cfgVars, tickVars, localVars, appVars
  <1>2. Located'
    BY HubAssumption DEF Basic, TypeOK, Located, Labels, TaskWakes, TakeSoft, ReadHard,
           ClearHard, LeftOver, Goto, flagVars, cfgVars, tickVars, localVars, appVars
  <1>3. MutexHeld'
    BY DEF Basic, TypeOK, Located, MutexHeld, TaskWakes, TakeSoft, ReadHard, ClearHard,
           LeftOver, Goto, Labels, flagVars, cfgVars, tickVars, localVars, appVars
  <1> QED
    BY <1>1, <1>2, <1>3 DEF Basic

\* How a list walk moves the task: to the next walk at the end of the list, to
\* the lock of the device it looks at, or past that device.
Moves(label, locked, next) ==
  /\ pc = label
  /\ \/ at > NDev /\ pc' = next /\ at' = 1
     \/ ~(at > NDev) /\ pc' = locked /\ at' = at
     \/ ~(at > NDev) /\ pc' = label /\ at' = at + 1

\* The three walks move like that, whatever they look for.
LEMMA WalksMove ==
  /\ TimerCheck => Moves("tm", "tm_lock", "exti")
                   /\ ((soft' = 0 /\ hard' = 0) \/ UNCHANGED <<soft, hard>>)
  /\ ExtiCheck => Moves("exti", "exti_lock", "acq") /\ UNCHANGED <<soft, hard>>
  /\ AcquireCheck => Moves("acq", "acq_lock", "wait") /\ UNCHANGED <<soft, hard>>
  <1>1. ASSUME TimerCheck
        PROVE  Moves("tm", "tm_lock", "exti")
               /\ ((soft' = 0 /\ hard' = 0) \/ UNCHANGED <<soft, hard>>)
    BY <1>1, Zenon DEF TimerCheck, Walk, Goto, Moves
  <1>2. ASSUME ExtiCheck
        PROVE  Moves("exti", "exti_lock", "acq") /\ UNCHANGED <<soft, hard>>
    BY <1>2, Zenon DEF ExtiCheck, Walk, Goto, Moves
  <1>3. ASSUME AcquireCheck
        PROVE  Moves("acq", "acq_lock", "wait") /\ UNCHANGED <<soft, hard>>
    BY <1>3, Zenon DEF AcquireCheck, Walk, Goto, Moves
  <1> QED
    BY <1>1, <1>2, <1>3

\* The unlocked looks at the list keep the shared invariant.
LEMMA WalkBasic ==
  ASSUME Basic, TimerCheck \/ ExtiCheck \/ AcquireCheck
  PROVE  Basic'
  <1>0. /\ NDev \in Nat \ {0} /\ at \in 1 .. NDev + 1 /\ soft \in Nat /\ hard \in Nat
    BY HubAssumption DEF Basic, TypeOK
  <1>1. /\ pc' \in Labels /\ at' \in 1 .. NDev + 1 /\ soft' \in Nat /\ hard' \in Nat
        /\ Located' /\ pc \notin {"acq_rd", "acq_st"} /\ pc' \notin {"acq_rd", "acq_st"}
    BY <1>0, WalksMove DEF Moves, Located, Labels, Dev
  <1>2. UNCHANGED <<flagVars, cfgVars, run, fifo, num, mutex, tickVars, sem, rdOk, irqReg,
                    appVars, since, evt, fault>>
    BY DEF TimerCheck, ExtiCheck, AcquireCheck, Walk
  <1>3. TypeOK'
    BY <1>1, <1>2 DEF Basic, TypeOK, flagVars, cfgVars, tickVars, appVars
  <1>4. MutexHeld'
    BY <1>1, <1>2 DEF Basic, MutexHeld, appVars
  <1> QED
    BY <1>1, <1>3, <1>4 DEF Basic

\* The locked updates of the flags keep the shared invariant.
LEMMA UpdateBasic ==
  ASSUME Basic, TimerUpdate \/ ExtiUpdate
  PROVE  Basic'
  <1>a. at \in Dev /\ at' = at + 1 /\ pc' \in Labels /\ pc' \notin {"acq_rd", "acq_st"}
    BY DEF Basic, Located, TimerUpdate, ExtiUpdate, Goto, Labels
  <1>b. at' \in 1 .. NDev + 1
    BY <1>a, HubAssumption DEF Dev
  <1>c. ASSUME TimerUpdate PROVE TypeOK'
    <2>1. Batch(at) \in Nat /\ run[at] \in Nat /\ Due(at) \in BOOLEAN
      BY <1>a DEF Basic, TypeOK, Batch, Due
    <2>2. run' \in [Dev -> Nat]
      BY <1>a, <1>c, <2>1 DEF Basic, TypeOK, TimerUpdate
    <2>3. need' \in [Dev -> BOOLEAN] /\ evt' \in [Dev -> BOOLEAN]
      BY <1>a, <1>c, <2>1 DEF Basic, TypeOK, TimerUpdate
    <2>4. since' \in [Dev -> 0 .. SinceCap]
      BY <1>a, <1>c, HubAssumption DEF Basic, TypeOK, TimerUpdate, Saturate
    <2>5. UNCHANGED <<start, irq, cfgVars, fifo, num, mutex, tickVars, sem, localVars, appVars,
                      fault>>
      BY <1>c DEF TimerUpdate
    <2> QED
      BY <1>a, <1>b, <2>2, <2>3, <2>4, <2>5
      DEF Basic, TypeOK, cfgVars, tickVars, localVars, appVars
  <1>d. ASSUME ExtiUpdate PROVE TypeOK'
    <2>1. need' \in [Dev -> BOOLEAN] /\ irq' \in [Dev -> BOOLEAN]
      BY <1>a, <1>d DEF Basic, TypeOK, ExtiUpdate, IrqTaken
    <2>2. UNCHANGED <<start, cfgVars, run, fifo, num, mutex, tickVars, sem, localVars, appVars,
                      since, evt, fault>>
      BY <1>d DEF ExtiUpdate
    <2> QED
      BY <1>a, <1>b, <2>1, <2>2
      DEF Basic, TypeOK, cfgVars, tickVars, localVars, appVars
  <1>1. TypeOK'
    BY <1>c, <1>d
  <1>2. Located'
    BY HubAssumption DEF Basic, TypeOK, Located, Labels, TimerUpdate, ExtiUpdate, Due,
           Batch, IrqTaken, Saturate, Goto, Dev, flagVars, cfgVars, tickVars, localVars,
           appVars
  <1>3. MutexHeld'
    BY DEF Basic, TypeOK, Located, MutexHeld, TimerUpdate, ExtiUpdate, Due, Batch, IrqTaken,
           Saturate, Goto, Labels, Dev, flagVars, cfgVars, tickVars, localVars, appVars
  <1> QED
    BY <1>1, <1>2, <1>3 DEF Basic

\* The acquisition up to the store keeps the shared invariant.
LEMMA AcquireBasic ==
  ASSUME Basic, NEW ok \in BOOLEAN, AcquireNoMemory \/ AcquireBegin \/ AcquireNullSub \/ AcquireRead(ok)
  PROVE  Basic'
  <1>x. /\ at \in Dev /\ at' \in {at, at + 1} /\ pc' \in {"acq", "acq_rd", "acq_st", "dead"}
        /\ fault' \in {fault, "null_fifo", "null_sub", "overflow"}
    BY DEF Basic, Located, AcquireNoMemory, AcquireBegin, AcquireNullSub, AcquireRead,
           Crash, Goto
  <1>a. /\ at \in Dev /\ at' \in 1 .. NDev + 1 /\ pc' \in Labels
        /\ fault' \in {"none", "null_fifo", "null_sub", "overflow"}
    BY <1>x, HubAssumption DEF Basic, TypeOK, Labels, Dev
  <1>b. /\ rdOk' \in BOOLEAN /\ irqReg' \in BOOLEAN /\ evt' \in [Dev -> BOOLEAN]
        /\ mutex' \in [Dev -> {"free", "main", "app"}]
    BY <1>a
    DEF Basic, TypeOK, AcquireNoMemory, AcquireBegin, AcquireNullSub, AcquireRead, localVars
  <1>1. TypeOK'
    BY <1>a, <1>b
    DEF Basic, TypeOK, AcquireNoMemory, AcquireBegin, AcquireNullSub, AcquireRead,
        flagVars, cfgVars, tickVars, localVars, appVars
  <1>2. Located'
    BY HubAssumption DEF Basic, TypeOK, Located, Labels, AcquireNoMemory, AcquireBegin,
           AcquireNullSub, AcquireRead, Crash, Goto, Dev, flagVars, cfgVars, tickVars,
           localVars, appVars
  <1>3. MutexHeld'
    BY DEF Basic, TypeOK, Located, MutexHeld, AcquireNoMemory, AcquireBegin, AcquireNullSub,
           AcquireRead, Crash, Goto, Labels, Dev, flagVars, cfgVars, tickVars, localVars,
           appVars
  <1> QED
    BY <1>1, <1>2, <1>3 DEF Basic

\* Storing and reporting the sample keeps the shared invariant.
LEMMA AcquireStoreBasic ==
  ASSUME Basic, NEW ok \in BOOLEAN, AcquireStore(ok)
  PROVE  Basic'
  <1>x. at \in Dev /\ at' \in {at, at + 1} /\ pc' \in {"acq", "dead"}
        /\ fault' \in {fault, "overflow"}
    BY DEF Basic, Located, AcquireStore, Crash, Goto
  <1>a. /\ at \in Dev /\ at' \in 1 .. NDev + 1 /\ pc' \in Labels
        /\ fault' \in {"none", "null_fifo", "null_sub", "overflow"}
    BY <1>x, HubAssumption DEF Basic, TypeOK, Labels, Dev
  <1>b. need' \in [Dev -> BOOLEAN] /\ irq' \in [Dev -> BOOLEAN]
    BY <1>a DEF Basic, TypeOK, AcquireStore, StillNeeded
  <1>c. num' \in [Dev -> Nat]
    BY <1>a DEF Basic, TypeOK, AcquireStore, Kept
  <1>d. mutex' \in [Dev -> {"free", "main", "app"}] /\ rdOk' \in BOOLEAN /\ irqReg' \in BOOLEAN
    BY <1>a DEF Basic, TypeOK, AcquireStore
  <1>1. TypeOK'
    BY <1>a, <1>b, <1>c, <1>d
    DEF Basic, TypeOK, AcquireStore, cfgVars, tickVars, appVars
  <1>2. Located'
    BY HubAssumption DEF Basic, TypeOK, Located, Labels, AcquireStore, Kept, StillNeeded,
           Crash, Goto, Dev, flagVars, cfgVars, tickVars, localVars, appVars
  <1>3. MutexHeld'
    BY DEF Basic, TypeOK, Located, MutexHeld, AcquireStore, Kept, StillNeeded, Crash, Goto,
           Labels, Dev, flagVars, cfgVars, tickVars, localVars, appVars
  <1> QED
    BY <1>1, <1>2, <1>3 DEF Basic

\* Every step keeps the shared invariant.
LEMMA NextBasic == Basic /\ [Next]_vars => Basic'
  <1> SUFFICES ASSUME Basic, [Next]_vars PROVE Basic'
    OBVIOUS
  <1>1. CASE AppStep
    BY <1>1, OpenLoadBasic, OpenTrigInitBasic, OpenDriverBasic, CloseBasic, CallBasic
    DEF AppStep, AppFinish
  <1>2. CASE Timers
    BY <1>2, TimersBasic
  <1>3. CASE MainStep
    BY <1>3, TakeTicksBasic, WalkBasic, UpdateBasic, AcquireBasic, AcquireStoreBasic
    DEF MainStep
  <1>4. CASE UNCHANGED vars
    BY <1>4 DEF vars, Basic, TypeOK, Located, MutexHeld, flagVars, cfgVars, tickVars, localVars,
                appVars
  <1> QED
    BY <1>1, <1>2, <1>3, <1>4 DEF Next
-----------------------------------------------------------------------------
(* The account of hardware ticks.                                          *)

\* A device's share of the account.
Credited(d) ==
  mode[d] = "HARD" => /\ word[d] <= SinceCap
                      /\ since[d] = SinceCap \/ run[d] + Untaken(d) <= since[d]

\* The facts about numbers that the lemmas below use.
LEMMA Numbers ==
  ASSUME Basic
  PROVE  /\ NDev \in Nat \ {0} /\ SinceCap \in Nat /\ at \in 1 .. NDev + 1
         /\ hard \in Nat /\ hardCnt \in Nat /\ soft \in Nat
         /\ \A d \in Dev : d \in Nat /\ run[d] \in Nat /\ word[d] \in Nat /\ since[d] \in 0 .. SinceCap
  BY HubAssumption DEF Basic, TypeOK, Dev

\* A step that leaves the counters, the task and the polling state of every
\* device alone keeps the account.
LEMMA AccountUntouched ==
  ASSUME HardAccount, UNCHANGED <<mode, word, run, since, pc, at, hard, hardCnt>>
  PROVE  HardAccount'
  BY DEF HardAccount, Untaken

\* Loading a configuration restarts the account of the device, which a checked
\* interval bounds.
LEMMA OpenLoadAccount ==
  ASSUME Basic, HardAccount, NEW d \in Dev, NEW c \in Configs[d],
         NEW o \in {"ok", "no_sub", "no_fifo"}, OpenLoad(d, c, o)
  PROVE  HardAccount'
  <1>1. UNCHANGED <<pc, at, hard, hardCnt>>
    BY DEF OpenLoad, tickVars, localVars
  <1>2. c.mode = "HARD" => c.word <= SinceCap
    BY HubAssumption
  <1>3. /\ mode' = [mode EXCEPT ![d] = c.mode] /\ word' = [word EXCEPT ![d] = c.word]
        /\ since' = [since EXCEPT ![d] = SinceCap]
        /\ \A e \in Dev : e # d => run'[e] = run[e]
    BY DEF OpenLoad, LoadConfig, Basic, TypeOK
  <1>4. ASSUME NEW e \in Dev PROVE Credited(e)'
    <2>1. CASE e = d
      BY <1>2, <1>3, <2>1 DEF Credited, Basic, TypeOK
    <2>2. CASE e # d
      BY <1>1, <1>3, <2>2 DEF HardAccount, Credited, Untaken, Basic, TypeOK
    <2> QED
      BY <2>1, <2>2
  <1> QED
    BY <1>1, <1>4 DEF HardAccount, Credited

\* A closed device is not on the hardware timer.
LEMMA CloseAccount ==
  ASSUME Basic, HardAccount, NEW d \in Dev, Close(d)
  PROVE  HardAccount'
  BY DEF HardAccount, Untaken, Close, tickVars, localVars, Basic, TypeOK

\* A tick adds to the counter and to the time since the last trigger alike.
LEMMA HardTimerAccount ==
  ASSUME Basic, HardAccount, HardTimerIsr
  PROVE  HardAccount'
  <1>1. /\ UNCHANGED <<mode, word, run, pc, at, hard>>
        /\ hardCnt' = hardCnt + 1
        /\ \A d \in Dev : mode[d] = "HARD"
              => since'[d] = IF since[d] + 1 > SinceCap THEN SinceCap ELSE since[d] + 1
    BY DEF HardTimerIsr, HardTick, Aged, Saturate, cfgVars, localVars
  <1>2. pc' = "hard_clr" => hard' <= hardCnt'
    BY <1>1, Numbers DEF HardAccount
  <1>3. ASSUME NEW d \in Dev PROVE Credited(d)'
    BY <1>1, Numbers DEF HardAccount, Credited, Untaken
  <1> QED
    BY <1>2, <1>3 DEF HardAccount, Credited

\* A tick of the software timer only ages devices that do not count here.
LEMMA SoftTimerAccount ==
  ASSUME Basic, HardAccount, SoftTimerLoad
  PROVE  HardAccount'
  <1>1. /\ UNCHANGED <<mode, word, run, pc, at, hard, hardCnt>>
        /\ \A d \in Dev : mode[d] = "HARD" => since'[d] = since[d]
    BY DEF SoftTimerLoad, Aged, cfgVars, localVars
  <1> QED
    BY <1>1 DEF HardAccount, Untaken

\* Taking the ticks moves them from the counter to the copy; those that arrive
\* between the copy and the clear are lost to the devices, never doubled.
LEMMA TakeTicksAccount ==
  ASSUME Basic, HardAccount, TaskWakes \/ TakeSoft \/ ReadHard \/ ClearHard
  PROVE  HardAccount'
  <1>1. UNCHANGED <<mode, word, run, since>>
    BY DEF TaskWakes, TakeSoft, ReadHard, ClearHard, cfgVars
  <1>2. CASE TaskWakes \/ TakeSoft
    BY <1>1, <1>2, Numbers
    DEF TaskWakes, TakeSoft, Goto, tickVars, localVars, HardAccount, Untaken
  <1>3. CASE ReadHard
    BY <1>1, <1>3, Numbers DEF ReadHard, Goto, tickVars, HardAccount, Untaken
  <1>4. CASE ClearHard
    <2>1. /\ pc = "hard_clr" /\ hardCnt' = 0 /\ hard' = hard /\ pc' \in {"tm", "exti"}
      BY <1>4 DEF ClearHard, LeftOver, Goto, localVars
    <2>2. ASSUME NEW d \in Dev PROVE Credited(d)'
      BY <1>1, <2>1, Numbers DEF HardAccount, Credited, Untaken
    <2> QED
      BY <2>1, <2>2 DEF HardAccount, Credited
  <1> QED
    BY <1>2, <1>3, <1>4

\* Passing a device by leaves it without the copied ticks.
LEMMA WalkAccount ==
  ASSUME Basic, HardAccount, TimerCheck \/ ExtiCheck \/ AcquireCheck
  PROVE  HardAccount'
  <1>1. UNCHANGED <<mode, word, run, since, hardCnt>>
    BY DEF TimerCheck, ExtiCheck, AcquireCheck, Walk, cfgVars, tickVars
  <1>2. pc' # "hard_clr"
    BY WalksMove DEF Moves
  <1>3. ASSUME NEW d \in Dev PROVE Untaken(d)' \in Nat /\ Untaken(d)' <= Untaken(d)
    BY <1>1, Numbers, WalksMove DEF Moves, Untaken
  <1>4. ASSUME NEW d \in Dev PROVE Credited(d)'
    BY <1>1, <1>3, Numbers DEF HardAccount, Credited, Untaken
  <1> QED
    BY <1>2, <1>4 DEF HardAccount, Credited

\* timer_proc moves a device's ticks from the copy to run_time_ms, or starts a
\* new interval with the ticks that are pending again.
LEMMA TimerUpdateAccount ==
  ASSUME Basic, HardAccount, TimerUpdate
  PROVE  HardAccount'
  <1>1. /\ UNCHANGED <<mode, word, hard, hardCnt>> /\ pc = "tm_lock" /\ pc' = "tm"
        /\ at' = at + 1 /\ at \in Dev
    BY DEF TimerUpdate, Goto, cfgVars, tickVars, localVars, Basic, Located
  <1>2. ASSUME NEW d \in Dev, d # at PROVE Credited(d)'
    <2>1. run'[d] = run[d] /\ since'[d] = since[d]
      BY <1>2 DEF TimerUpdate, Basic, TypeOK
    <2> QED
      BY <1>1, <1>2, <2>1, Numbers DEF HardAccount, Credited, Untaken
  <1>3. ASSUME NEW d \in Dev, d = at PROVE Credited(d)'
    <2>0. SUFFICES ASSUME mode[d] = "HARD" PROVE Credited(d)'
      BY <1>1 DEF Credited
    <2>1. Due(d) => run'[d] = 0 /\ since'[d] = Saturate(hardCnt)
      BY <1>1, <1>3, <2>0 DEF TimerUpdate, Basic, TypeOK
    <2>2. ~Due(d) => run'[d] = run[d] + hard /\ since'[d] = since[d]
      BY <1>1, <1>3, <2>0 DEF TimerUpdate, Batch, Basic, TypeOK
    <2>3. /\ word[d] <= SinceCap
          /\ since[d] = SinceCap \/ run[d] + hard + hardCnt <= since[d]
      BY <1>1, <1>3, <2>0, Numbers DEF HardAccount, Untaken
    <2>4. Untaken(d)' = hardCnt
      BY <1>1, <1>3, Numbers DEF Untaken
    <2> QED
      BY <1>1, <2>1, <2>2, <2>3, <2>4, Numbers DEF Credited, Saturate
  <1> QED
    BY <1>1, <1>2, <1>3 DEF HardAccount, Credited

\* Every step keeps the account.
LEMMA NextAccount == Basic /\ HardAccount /\ [Next]_vars => HardAccount'
  <1> SUFFICES ASSUME Basic, HardAccount, [Next]_vars PROVE HardAccount'
    OBVIOUS
  <1>1. CASE AppStep
    <2>1. \A d \in Dev, ok \in BOOLEAN :
            OpenTrigInit(d, ok) \/ OpenDriver(d, ok) \/ Call(d) \/ CallReturns(d)
              => UNCHANGED <<mode, word, run, since, pc, at, hard, hardCnt>>
      BY DEF OpenTrigInit, OpenDriver, Call, CallReturns, cfgVars, tickVars, localVars
    <2> QED
      BY <1>1, <2>1, OpenLoadAccount, CloseAccount, AccountUntouched DEF AppStep, AppFinish
  <1>2. CASE Timers
    <2>1. \A p \in Pin : ExtiIsr(p)
              => UNCHANGED <<mode, word, run, since, pc, at, hard, hardCnt>>
      BY DEF ExtiIsr, cfgVars, tickVars, localVars
    <2>2. SoftTimerStore => UNCHANGED <<mode, word, run, since, pc, at, hard, hardCnt>>
      BY DEF SoftTimerStore, cfgVars, localVars
    <2> QED
      BY <1>2, <2>1, <2>2, HardTimerAccount, SoftTimerAccount, AccountUntouched DEF Timers
  <1>3. CASE MainStep
    <2>1. ASSUME NEW ok \in BOOLEAN,
                 \/ ExtiUpdate \/ AcquireNoMemory \/ AcquireBegin \/ AcquireNullSub
                 \/ AcquireRead(ok) \/ AcquireStore(ok)
          PROVE  HardAccount'
      <3>1. UNCHANGED <<mode, word, run, since, hard, hardCnt>>
        BY <2>1 DEF ExtiUpdate, AcquireNoMemory, AcquireBegin, AcquireNullSub, AcquireRead,
                    AcquireStore, cfgVars, tickVars, localVars
      <3>2. pc \notin {"tm", "tm_lock"} /\ pc' \notin {"hard_clr", "tm", "tm_lock"}
        BY <2>1 DEF ExtiUpdate, AcquireNoMemory, AcquireBegin, AcquireNullSub, AcquireRead,
                    AcquireStore, Crash, Goto
      <3> QED
        BY <3>1, <3>2 DEF HardAccount, Untaken
    <2> QED
      BY <1>3, <2>1, TakeTicksAccount, WalkAccount, TimerUpdateAccount DEF MainStep
  <1>4. CASE UNCHANGED vars
    BY <1>4, AccountUntouched DEF vars, cfgVars, tickVars, localVars
  <1> QED
    BY <1>1, <1>2, <1>3, <1>4 DEF Next
-----------------------------------------------------------------------------
(* The theorems.                                                           *)

\* The framework's state is well typed in every reachable state: no counter
\* turns negative, the task's list position never leaves the list.
THEOREM TypeCorrect == Spec => []TypeOK
  <1>1. Basic => TypeOK
    BY DEF Basic
  <1> QED
    BY InitBasic, NextBasic, <1>1, PTL DEF Spec

\* The mutex discipline: the main task reads and stores under the device's
\* mutex and a pending application call holds its device's mutex.
THEOREM Locking == Spec => []MutexHeld
  <1>1. Basic => MutexHeld
    BY DEF Basic
  <1> QED
    BY InitBasic, NextBasic, <1>1, PTL DEF Spec

\* No step of any actor, application calls and interrupts included, frees,
\* resizes or replaces the buffers of the device the task is acquiring.
THEOREM AcquireIsolated == Spec => StableDuringAcquire
  <1>1. Basic /\ [Next]_vars => [(pc = "acq_rd" \/ pc = "acq_st") => SameBuffers(at)]_vars
    <2> SUFFICES ASSUME Basic, Next, pc = "acq_rd" \/ pc = "acq_st"
                 PROVE  SameBuffers(at)
      OBVIOUS
    <2>1. at \in Dev /\ mutex[at] = "main"
      BY DEF Basic, Located, MutexHeld
    <2>2. CASE UNCHANGED <<fifo, fsize, sub>>
      BY <2>2 DEF SameBuffers
    <2>3. CASE \E d \in Dev, c \in Config : \E o \in {"ok", "no_sub", "no_fifo"} :
                 OpenLoad(d, c, o)
      <3>1. PICK d \in Dev, c \in Config, o \in {"ok", "no_sub", "no_fifo"} :
                   OpenLoad(d, c, o)
        BY <2>3
      <3>2. d # at
        BY <2>1, <3>1 DEF OpenLoad, AppLocks
      <3> QED
        BY <2>1, <3>1, <3>2 DEF OpenLoad, LoadConfig, PrepareAppFifo, SameBuffers, Basic, TypeOK
    <2>4. CASE \E d \in Dev : Close(d)
      <3>1. PICK d \in Dev : Close(d)
        BY <2>4
      <3>2. d # at
        BY <2>1, <3>1 DEF Close, AppLocks
      <3> QED
        BY <2>1, <3>1, <3>2 DEF Close, SameBuffers, Basic, TypeOK
    <2>5. AppStep => \/ UNCHANGED <<fifo, fsize, sub>>
                     \/ \E d \in Dev, c \in Config : \E o \in {"ok", "no_sub", "no_fifo"} :
                          OpenLoad(d, c, o)
                     \/ \E d \in Dev : Close(d)
      <3>1. \A d \in Dev : Configs[d] \subseteq Config
        BY HubAssumption
      <3>2. \A d \in Dev, ok \in BOOLEAN :
              OpenTrigInit(d, ok) \/ OpenDriver(d, ok) \/ Call(d) \/ CallReturns(d)
                => UNCHANGED <<fifo, fsize, sub>>
        BY DEF OpenTrigInit, OpenDriver, Call, CallReturns, cfgVars
      <3> QED
        BY <3>1, <3>2 DEF AppStep, AppFinish
    <2>6. Timers => UNCHANGED <<fifo, fsize, sub>>
      BY DEF Timers, SoftTimerLoad, SoftTimerStore, HardTimerIsr, ExtiIsr, cfgVars
    <2>7. MainStep => UNCHANGED <<fifo, fsize, sub>>
      BY DEF MainStep, TaskWakes, TakeSoft, ReadHard, ClearHard, TimerCheck, ExtiCheck,
             AcquireCheck, Walk, TimerUpdate, ExtiUpdate, AcquireNoMemory, AcquireBegin,
             AcquireNullSub, AcquireRead, AcquireStore, cfgVars
    <2> QED
      BY <2>2, <2>3, <2>4, <2>5, <2>6, <2>7 DEF Next
  <1> QED
    BY InitBasic, NextBasic, <1>1, PTL DEF Spec, StableDuringAcquire

\* A device polled by the hardware timer is never triggered before its interval
\* has gone by, for any devices, intervals and interleavings of the tick
\* interrupt with the unprotected copy-and-clear of sg_hard_tm_cnt.
THEOREM HardPollingNeverEarly == Spec => []HardNeverEarly
  <1>1. Init => HardAccount
    BY DEF Init, HardAccount
  <1>2. Basic /\ HardAccount => HardNeverEarly
    <2> SUFFICES ASSUME Basic, HardAccount, pc = "tm_lock", mode[at] = "HARD", Due(at)
                 PROVE  since[at] >= word[at]
      BY DEF HardNeverEarly
    <2>1. at \in Dev /\ run[at] + hard >= word[at]
      BY DEF Basic, Located, Due, Batch
    <2> QED
      BY <2>1, Numbers DEF HardAccount, Untaken
  <1> QED
    BY InitBasic, NextBasic, NextAccount, <1>1, <1>2, PTL DEF Spec

\* The account behind it: whatever the interrupt does between the copy and the
\* clear of sg_hard_tm_cnt, a device is never credited with more time than has
\* passed since its last trigger.
THEOREM TicksCountedOnce == Spec => []HardAccount
  <1>1. Init => HardAccount
    BY DEF Init, HardAccount
  <1> QED
    BY InitBasic, NextBasic, NextAccount, <1>1, PTL DEF Spec
-----------------------------------------------------------------------------
(* The FIFO of a started device fits.                                      *)

\* A subscription that __tdl_sensor_load_config keeps, because the next
\* configuration has none, fits the FIFO of that configuration too.  The code
\* checks val_num only against the fifo_size it was given together with.
KeptSubsFit ==
  \A d \in Dev : \A c, e \in Configs[d] :
    CheckConfig(c) /\ c.sub.tp = "SINGLE" /\ e.sub = NoSub => c.sub.val_num <= e.fsize

\* A raw device is always configured with the same fifo_size: raw.len is not
\* reset when a FIFO is allocated.
RawOneSize == \A d \in Raw : \A c, e \in Configs[d] : c.fsize = e.fsize

\* The application is opening device d and the configuration is in place.
InOpen(d) == app \in {"trig", "drv"} /\ appDev = d

\* The FIFO of device d has the configured size, room for a sample, and is
\* reported before it is full.
Ready(d) == fifo[d] = fsize[d] /\ num[d] < Quota(d) /\ Quota(d) <= fifo[d]

\* The main task has found device d due; it reads the device.
AtWork(d)  == pc \in {"acq_lock", "acq_rd", "acq_st"} /\ at = d
Reading(d) == pc \in {"acq_rd", "acq_st"} /\ at = d

\* The subscription and the size of device d come from its configurations.
FromConfigs(d) ==
  /\ sub[d] = NoSub \/ \E c \in Configs[d] : CheckConfig(c) /\ sub[d] = c.sub
  /\ fsize[d] = 0 => fifo[d] = 0
  /\ fsize[d] # 0 => \E c \in Configs[d] : fsize[d] = c.fsize

\* What a raw device has received fits every FIFO it may be given.
RawFits(d) ==
  d \in Raw => sub[d] = NoSub /\ (num[d] # 0 => \A c \in Configs[d] : num[d] < c.fsize)

\* The inductive invariant of a device's FIFO.  A device closed and opened again
\* while the task waits for its mutex is acquired although it may not be started
\* yet; its FIFO is then empty.
FifoInv(d) ==
  /\ turnOn[d] = start[d]
  /\ start[d] \/ InOpen(d) => Ready(d)
  /\ AtWork(d) => start[d] \/ num[d] = 0
  /\ Reading(d) => fifo[d] # 0
  /\ FromConfigs(d)
  /\ RawFits(d)

FifosInv == fault # "overflow" /\ \A d \in Dev : FifoInv(d)

\* A step that leaves the FIFOs and the application alone keeps the invariant of
\* every device the task does not turn to.
LEMMA FifosUntouched ==
  ASSUME FifosInv, UNCHANGED <<start, turnOn, fifo, fsize, sub, num, app, appDev>>,
         fault' # "overflow",
         \A d \in Dev : /\ AtWork(d)' => AtWork(d) \/ start[d]
                        /\ Reading(d)' => Reading(d) \/ fifo[d] # 0
  PROVE  FifosInv'
  <1>1. ASSUME NEW d \in Dev PROVE FifoInv(d)'
    <2>1. FifoInv(d)
      BY DEF FifosInv
    <2>2. FromConfigs(d)' /\ RawFits(d)'
      BY <2>1 DEF FifoInv, FromConfigs, RawFits, CheckConfig
    <2>3. Ready(d)' <=> Ready(d)
      BY DEF Ready, Quota
    <2>4. InOpen(d)' <=> InOpen(d)
      BY DEF InOpen
    <2> QED
      BY <2>1, <2>2, <2>3, <2>4 DEF FifoInv
  <1> QED
    BY <1>1 DEF FifosInv

\* The facts about a configuration that the lemmas below use.
LEMMA ConfigFacts ==
  ASSUME NEW d \in Dev, NEW c \in Configs[d]
  PROVE  /\ c.fsize \in Nat /\ c.fsize > 0 /\ c.mode \in Mode /\ c.word \in Nat
         /\ c.sub.tp = "SINGLE" => c.sub.val_num \in Nat /\ c.sub.val_num > 0
         /\ c.sub = NoSub => c.sub.tp # "SINGLE"
         /\ d \in Raw => c.sub = NoSub
  <1>1. c \in Config
    BY HubAssumption
  <1>2. c.fsize \in Nat /\ c.fsize > 0 /\ c.mode \in Mode /\ c.word \in Nat /\ c.sub \in Sub
    BY <1>1 DEF Config
  <1>3. c.sub.tp = "SINGLE" => c.sub.val_num \in Nat /\ c.sub.val_num > 0
    BY <1>2 DEF Sub, NoSub
  <1>4. c.sub = NoSub => c.sub.tp # "SINGLE"
    BY DEF NoSub
  <1>5. d \in Raw => c.sub = NoSub
    BY HubAssumption
  <1> QED
    BY <1>2, <1>3, <1>4, <1>5

\* Loading a configuration and allocating its FIFO makes the device ready, with
\* the subscription it brings or with the one it inherits.
LEMMA OpenLoadFifo ==
  ASSUME Guarded, KeptSubsFit, Basic, FifosInv, NEW d \in Dev, NEW c \in Configs[d],
         NEW o \in {"ok", "no_sub", "no_fifo"}, OpenLoad(d, c, o)
  PROVE  FifosInv'
  <1>0. FifoInv(d) /\ ~turnOn[d] /\ ~start[d] /\ app = "idle" /\ mutex[d] = "free" /\ CheckConfig(c)
    BY DEF OpenLoad, AppLocks, FifosInv, FifoInv
  <1>1. /\ UNCHANGED <<start, turnOn, pc, at, fault>>
        /\ \A e \in Dev : e # d => /\ fifo'[e] = fifo[e] /\ fsize'[e] = fsize[e]
                                   /\ num'[e] = num[e] /\ sub'[e] = sub[e]
        /\ o = "ok" => app' = "trig" /\ appDev' = d
        /\ o # "ok" => app' = "idle"
    BY <1>0 DEF OpenLoad, LoadConfig, PrepareAppFifo, flagVars, Basic, TypeOK
  <1>2. /\ fsize'[d] = c.fsize
        /\ o = "ok" => fifo'[d] = c.fsize
        /\ o = "no_fifo" => fifo'[d] = 0
        /\ o = "no_sub" => fifo'[d] = fifo[d]
        /\ num'[d] = IF d \in Raw \/ o = "no_sub" THEN num[d] ELSE 0
        /\ sub'[d] = IF o = "no_sub" THEN NoSub ELSE IF c.sub # NoSub THEN c.sub ELSE sub[d]
    BY DEF OpenLoad, LoadConfig, PrepareAppFifo, Basic, TypeOK
  <1>3. ASSUME NEW e \in Dev, e # d PROVE FifoInv(e)'
    <2>1. FifoInv(e)
      BY DEF FifosInv
    <2>2. FromConfigs(e)' /\ RawFits(e)'
      BY <1>1, <1>3, <2>1 DEF FifoInv, FromConfigs, RawFits, CheckConfig
    <2>3. Ready(e)' <=> Ready(e)
      BY <1>1, <1>3 DEF Ready, Quota
    <2>4. ~InOpen(e)'
      BY <1>1, <1>3 DEF InOpen
    <2> QED
      BY <1>1, <1>3, <2>1, <2>2, <2>3, <2>4 DEF FifoInv, AtWork, Reading
  <1>4. ~Reading(d)
    BY <1>0 DEF Basic, MutexHeld, Reading
  <1>5. FromConfigs(d)'
    <2>1. c.fsize # 0
      BY ConfigFacts
    <2> QED
      BY <1>0, <1>2, <2>1 DEF FifoInv, FromConfigs, CheckConfig
  <1>6. RawFits(d)'
    <2>1. d \in Raw => c.sub = NoSub
      BY ConfigFacts
    <2> QED
      BY <1>0, <1>2, <2>1 DEF FifoInv, RawFits
  <1>7. ASSUME o = "ok" PROVE Ready(d)'
    <2>1. /\ fifo'[d] = c.fsize /\ fsize'[d] = c.fsize /\ c.fsize \in Nat /\ c.fsize > 0
          /\ num'[d] = IF d \in Raw THEN num[d] ELSE 0
          /\ sub'[d] = IF c.sub # NoSub THEN c.sub ELSE sub[d]
      BY <1>2, <1>7, ConfigFacts
    <2>2. /\ sub'[d].tp = "SINGLE"
             => sub'[d].val_num \in Nat /\ 0 < sub'[d].val_num /\ sub'[d].val_num <= c.fsize
      <3>1. CASE c.sub # NoSub
        BY <1>0, <2>1, <3>1, ConfigFacts DEF CheckConfig
      <3>2. CASE c.sub = NoSub /\ sub[d] = NoSub
        BY <2>1, <3>2 DEF NoSub
      <3>3. CASE c.sub = NoSub /\ sub[d] # NoSub
        <4>1. PICK e \in Configs[d] : CheckConfig(e) /\ sub[d] = e.sub
          BY <1>0, <3>3 DEF FifoInv, FromConfigs
        <4>2. e.sub.tp = "SINGLE" => e.sub.val_num <= c.fsize
          BY <3>3, <4>1 DEF KeptSubsFit
        <4>3. e.sub.tp = "SINGLE" => e.sub.val_num \in Nat /\ e.sub.val_num > 0
          BY ConfigFacts
        <4> QED
          BY <2>1, <3>3, <4>1, <4>2, <4>3
      <3> QED
        BY <3>1, <3>2, <3>3
    <2>3. num'[d] # 0 => d \in Raw /\ num'[d] < c.fsize /\ sub'[d] = NoSub
      BY <1>0, <1>6, <2>1 DEF FifoInv, RawFits
    <2>4. num'[d] < Quota(d)' /\ Quota(d)' <= fifo'[d]
      BY <2>1, <2>2, <2>3 DEF Quota, NoSub
    <2> QED
      BY <2>1, <2>4 DEF Ready
  <1>8. AtWork(d)' => num'[d] = 0
    BY <1>0, <1>1, <1>2 DEF FifoInv, AtWork
  <1>9. InOpen(d)' => o = "ok"
    BY <1>1 DEF InOpen
  <1>10. FifoInv(d)'
    BY <1>0, <1>1, <1>4, <1>5, <1>6, <1>7, <1>8, <1>9 DEF FifoInv, Reading
  <1> QED
    BY <1>1, <1>3, <1>10 DEF FifosInv

\* A device that is being opened is ready when its driver starts it.
LEMMA OpenRestFifo ==
  ASSUME Basic, FifosInv, NEW d \in Dev, NEW ok \in BOOLEAN,
         OpenTrigInit(d, ok) \/ OpenDriver(d, ok) \/ Call(d) \/ CallReturns(d)
  PROVE  FifosInv'
  <1>1. UNCHANGED <<fifo, fsize, sub, num, pc, at, fault>>
    BY DEF OpenTrigInit, OpenDriver, Call, CallReturns, cfgVars
  <1>2. \A e \in Dev : InOpen(e)' => InOpen(e)
    BY DEF InOpen, OpenTrigInit, OpenDriver, Call, CallReturns, AppReturns
  <1>3. \A e \in Dev : /\ start[e] => start'[e]
                       /\ start'[e] => start[e] \/ InOpen(e)
    BY DEF InOpen, OpenTrigInit, OpenDriver, Call, CallReturns, flagVars, Basic, TypeOK
  <1>4. ASSUME NEW e \in Dev PROVE turnOn'[e] = start'[e]
    <2>1. turnOn[e] = start[e]
      BY DEF FifosInv, FifoInv
    <2> QED
      BY <2>1 DEF OpenTrigInit, OpenDriver, Call, CallReturns, flagVars, Basic, TypeOK
  <1>5. ASSUME NEW e \in Dev PROVE FifoInv(e)'
    <2>1. FifoInv(e)
      BY DEF FifosInv
    <2>2. FromConfigs(e)' /\ RawFits(e)'
      BY <1>1, <2>1 DEF FifoInv, FromConfigs, RawFits, CheckConfig
    <2>3. Ready(e)' <=> Ready(e)
      BY <1>1 DEF Ready, Quota
    <2>4. (AtWork(e)' <=> AtWork(e)) /\ (Reading(e)' <=> Reading(e))
      BY <1>1 DEF AtWork, Reading
    <2> QED
      BY <1>1, <1>2, <1>3, <1>4, <2>1, <2>2, <2>3, <2>4 DEF FifoInv
  <1> QED
    BY <1>1, <1>5 DEF FifosInv

\* A closed device has an empty FIFO and no configuration.
LEMMA CloseFifo ==
  ASSUME Basic, FifosInv, NEW d \in Dev, Close(d)
  PROVE  FifosInv'
  <1>1. /\ UNCHANGED <<app, appDev, pc, at, fault>> /\ app = "idle" /\ mutex[d] = "free"
        /\ \A e \in Dev : e # d => /\ fifo'[e] = fifo[e] /\ fsize'[e] = fsize[e]
                                   /\ num'[e] = num[e] /\ sub'[e] = sub[e]
                                   /\ start'[e] = start[e] /\ turnOn'[e] = turnOn[e]
        /\ fifo'[d] = 0 /\ fsize'[d] = 0 /\ num'[d] = 0 /\ sub'[d] = NoSub
        /\ start'[d] = FALSE /\ turnOn'[d] = FALSE
    BY DEF Close, AppLocks, Basic, TypeOK
  <1>2. ASSUME NEW e \in Dev, e # d PROVE FifoInv(e)'
    <2>1. FifoInv(e)
      BY DEF FifosInv
    <2>2. FromConfigs(e)' /\ RawFits(e)'
      BY <1>1, <1>2, <2>1 DEF FifoInv, FromConfigs, RawFits, CheckConfig
    <2>3. Ready(e)' <=> Ready(e)
      BY <1>1, <1>2 DEF Ready, Quota
    <2> QED
      BY <1>1, <1>2, <2>1, <2>2, <2>3 DEF FifoInv, AtWork, Reading, InOpen
  <1>3. FifoInv(d)'
    <2>1. ~Reading(d)
      BY <1>1 DEF Basic, MutexHeld, Reading
    <2>2. FromConfigs(d)' /\ RawFits(d)'
      BY <1>1 DEF FromConfigs, RawFits
    <2> QED
      BY <1>1, <2>1, <2>2 DEF FifoInv, Reading, InOpen
  <1> QED
    BY <1>1, <1>2, <1>3 DEF FifosInv

\* The task turns only to started devices, and touches only an allocated FIFO.
LEMMA TurnsToStarted ==
  ASSUME Basic, FifosInv, NEW ok \in BOOLEAN,
         \/ TaskWakes \/ TakeSoft \/ ReadHard \/ ClearHard
         \/ TimerCheck \/ TimerUpdate \/ ExtiCheck \/ ExtiUpdate
         \/ AcquireCheck \/ AcquireNoMemory \/ AcquireBegin \/ AcquireNullSub \/ AcquireRead(ok)
  PROVE  FifosInv'
  <1>1. UNCHANGED <<start, turnOn, fifo, fsize, sub, num, app, appDev>>
    BY DEF TaskWakes, TakeSoft, ReadHard, ClearHard, TimerCheck, ExtiCheck, AcquireCheck, Walk,
           TimerUpdate, ExtiUpdate, AcquireNoMemory, AcquireBegin, AcquireNullSub, AcquireRead,
           flagVars, cfgVars, appVars
  <1>2. ASSUME NEW d \in Dev PROVE AtWork(d)' => AtWork(d) \/ start[d]
    <2>1. CASE TimerCheck \/ ExtiCheck
      BY <2>1, WalksMove DEF Moves, AtWork
    <2>2. CASE AcquireCheck
      BY <2>2, Zenon DEF AcquireCheck, Walk, Goto, AtWork
    <2> QED
      BY <2>1, <2>2
      DEF AtWork, TaskWakes, TakeSoft, ReadHard, ClearHard, TimerUpdate, ExtiUpdate,
          AcquireNoMemory, AcquireBegin, AcquireNullSub, AcquireRead, Crash, Goto
  <1>3. ASSUME NEW d \in Dev PROVE Reading(d)' => Reading(d) \/ fifo[d] # 0
    <2>1. CASE TimerCheck \/ ExtiCheck \/ AcquireCheck
      BY <2>1, WalksMove DEF Moves, Reading
    <2> QED
      BY <2>1
      DEF Reading, TaskWakes, TakeSoft, ReadHard, ClearHard, TimerUpdate, ExtiUpdate,
          AcquireNoMemory, AcquireBegin, AcquireNullSub, AcquireRead, Crash, Goto
  <1>4. fault' # "overflow"
    <2>1. fault # "overflow"
      BY DEF FifosInv
    <2>2. CASE AcquireRead(ok)
      <3>1. at \in Dev /\ FifoInv(at) /\ pc = "acq_rd"
        BY <2>2 DEF AcquireRead, Basic, Located, FifosInv
      <3>2. /\ fifo[at] # 0 /\ (start[at] \/ num[at] = 0)
            /\ start[at] => num[at] < Quota(at) /\ Quota(at) <= fifo[at]
        BY <3>1 DEF FifoInv, Ready, AtWork, Reading
      <3>3. fifo[at] \in Nat /\ num[at] \in Nat /\ (start[at] => Quota(at) \in Nat)
        <4>1. fsize[at] \in Nat /\ sub[at] \in Sub /\ fifo[at] \in Nat /\ num[at] \in Nat
          BY <3>1 DEF Basic, TypeOK
        <4> QED
          BY <4>1 DEF Quota, Sub, NoSub
      <3>4. ~(num[at] >= fifo[at])
        BY <3>2, <3>3
      <3> QED
        BY <2>1, <2>2, <3>4 DEF AcquireRead
    <2> QED
      BY <2>1, <2>2
      DEF TaskWakes, TakeSoft, ReadHard, ClearHard, TimerCheck, ExtiCheck, AcquireCheck, Walk,
          TimerUpdate, ExtiUpdate, AcquireNoMemory, AcquireBegin, AcquireNullSub, Crash
  <1> QED
    BY <1>1, <1>2, <1>3, <1>4, FifosUntouched

\* The sample fits, and a FIFO that it fills is emptied.
LEMMA StoreFifo ==
  ASSUME RawOneSize, Basic, FifosInv, NEW keep \in BOOLEAN, AcquireStore(keep)
  PROVE  FifosInv'
  <1>1. /\ pc = "acq_st" /\ at \in Dev /\ FifoInv(at) /\ mutex[at] = "main"
        /\ UNCHANGED <<start, turnOn, fifo, fsize, sub, app, appDev>>
    BY DEF AcquireStore, Basic, Located, MutexHeld, FifosInv, cfgVars, appVars
  <1>2. PICK n \in Nat : /\ n = num[at] \/ n = num[at] + 1
                         /\ num'[at] \in {num[at], Kept(at, n)}
                         /\ n > fifo[at] => fault' = "overflow" /\ pc' = "dead"
                         /\ ~(n > fifo[at]) => fault' = fault /\ pc' = "acq"
    <2> DEFINE m == IF rdOk /\ keep THEN num[at] + 1 ELSE num[at]
    <2>1. num[at] \in Nat /\ num \in [Dev -> Nat]
      BY <1>1 DEF Basic, TypeOK
    <2>2. m \in Nat /\ (m = num[at] \/ m = num[at] + 1)
      BY <2>1
    <2>3. num' = [num EXCEPT ![at] = Kept(at, m)] \/ num' = num
      BY DEF AcquireStore
    <2>4. num'[at] \in {num[at], Kept(at, m)}
      BY <1>1, <2>1, <2>3
    <2>5. /\ m > fifo[at] => fault' = "overflow" /\ pc' = "dead"
          /\ ~(m > fifo[at]) => fault' = fault /\ pc' = "acq"
      BY DEF AcquireStore, Crash, Goto
    <2> QED
      BY <2>2, <2>4, <2>5
  <1>3. \A e \in Dev : e # at => num'[e] = num[e]
    BY <1>1 DEF AcquireStore, Basic, TypeOK
  <1>4. /\ fifo[at] \in Nat /\ num[at] \in Nat /\ fsize[at] \in Nat /\ Quota(at) \in Nat
        /\ sub[at].tp = "SINGLE" => sub[at].val_num > 0
    <2>1. fsize[at] \in Nat /\ sub[at] \in Sub /\ fifo[at] \in Nat /\ num[at] \in Nat
      BY <1>1 DEF Basic, TypeOK
    <2> QED
      BY <2>1 DEF Quota, Sub, NoSub
  <1>5. /\ fifo[at] # 0 /\ fsize[at] # 0 /\ (start[at] \/ num[at] = 0)
        /\ start[at] => fifo[at] = fsize[at] /\ num[at] < Quota(at) /\ Quota(at) <= fifo[at]
    BY <1>1 DEF FifoInv, Ready, AtWork, Reading, FromConfigs
  <1>6. n <= fifo[at]
    BY <1>2, <1>4, <1>5
  <1>7. num'[at] < Quota(at)
    <2>1. Quota(at) > 0
      BY <1>4, <1>5 DEF Quota
    <2>2. num[at] < Quota(at)
      BY <1>4, <1>5, <2>1
    <2> QED
      BY <1>2, <1>4, <2>1, <2>2 DEF Kept
  <1>8. fault' = fault /\ pc' = "acq" /\ fault # "overflow"
    BY <1>2, <1>4, <1>6 DEF FifosInv
  <1>9. ASSUME NEW e \in Dev PROVE FifoInv(e)'
    <2>1. FifoInv(e)
      BY DEF FifosInv
    <2>2. FromConfigs(e)'
      BY <1>1, <2>1 DEF FifoInv, FromConfigs, CheckConfig
    <2>3. ~AtWork(e)' /\ ~Reading(e)'
      BY <1>8 DEF AtWork, Reading
    <2>4. InOpen(e)' <=> InOpen(e)
      BY <1>1 DEF InOpen
    <2>5. RawFits(e)'
      <3>1. CASE e # at
        BY <1>1, <1>3, <2>1, <3>1 DEF FifoInv, RawFits
      <3>2. CASE e = at /\ e \in Raw
        <4>1. sub[e] = NoSub /\ Quota(e) = fsize[e]
          BY <2>1, <3>2 DEF FifoInv, RawFits, Quota, NoSub
        <4>2. PICK c \in Configs[e] : fsize[e] = c.fsize
          BY <1>5, <2>1, <3>2 DEF FifoInv, FromConfigs
        <4>3. \A b \in Configs[e] : num'[e] < b.fsize
          BY <1>7, <3>2, <4>1, <4>2 DEF RawOneSize
        <4> QED
          BY <1>1, <4>1, <4>3 DEF RawFits
      <3> QED
        BY <3>1, <3>2 DEF RawFits
    <2>6. start[e] \/ InOpen(e) => Ready(e)'
      <3>1. CASE e # at
        BY <1>1, <1>3, <2>1, <3>1 DEF FifoInv, Ready, Quota
      <3>2. CASE e = at
        <4>1. ~InOpen(e)
          BY <1>1, <3>2 DEF InOpen, Basic, MutexHeld
        <4>2. Quota(e)' = Quota(e)
          BY <1>1 DEF Quota
        <4> QED
          BY <1>1, <1>5, <1>7, <3>2, <4>1, <4>2 DEF Ready
      <3> QED
        BY <3>1, <3>2
    <2> QED
      BY <1>1, <2>1, <2>2, <2>3, <2>4, <2>5, <2>6 DEF FifoInv
  <1> QED
    BY <1>8, <1>9 DEF FifosInv

\* Every step keeps the invariant of the FIFOs.
LEMMA NextFifos ==
  ASSUME Guarded, KeptSubsFit, RawOneSize
  PROVE  Basic /\ FifosInv /\ [Next]_vars => FifosInv'
  <1> SUFFICES ASSUME Basic, FifosInv, [Next]_vars PROVE FifosInv'
    OBVIOUS
  <1>1. CASE AppStep
    BY <1>1, OpenLoadFifo, OpenRestFifo, CloseFifo DEF AppStep, AppFinish
  <1>2. CASE Timers \/ UNCHANGED vars
    <2>1. UNCHANGED <<start, turnOn, fifo, fsize, sub, num, app, appDev, pc, at, fault>>
      BY <1>2 DEF Timers, SoftTimerLoad, SoftTimerStore, HardTimerIsr, ExtiIsr, flagVars, cfgVars,
                  appVars, vars
    <2>2. \A d \in Dev : (AtWork(d)' <=> AtWork(d)) /\ (Reading(d)' <=> Reading(d))
      BY <2>1 DEF AtWork, Reading
    <2>3. fault' # "overflow"
      BY <2>1 DEF FifosInv
    <2> QED
      BY <2>1, <2>2, <2>3, FifosUntouched
  <1>3. CASE MainStep
    BY <1>3, TurnsToStarted, StoreFifo DEF MainStep
  <1> QED
    BY <1>1, <1>2, <1>3 DEF Next

\* The main task never writes past the end of a FIFO and a started device is
\* never left with a full one, for any number of devices and configurations,
\* whatever is opened and closed while the task waits for a mutex.  The caller's
\* part: it opens only what is off, and changes neither the size of a raw FIFO nor
\* that of a FIFO whose subscription it leaves in place to a smaller one.
THEOREM FifoNeverOverflows ==
  ASSUME Guarded, KeptSubsFit, RawOneSize
  PROVE  Spec => []StartedFifoFits
  <1>1. Init => FifosInv
    <2> SUFFICES ASSUME Init PROVE FifosInv
      OBVIOUS
    <2>1. ASSUME NEW d \in Dev PROVE FifoInv(d)
      BY DEF Init, FifoInv, InOpen, AtWork, Reading, FromConfigs, RawFits
    <2> QED
      BY <2>1 DEF Init, FifosInv
  <1>2. FifosInv => StartedFifoFits
    BY DEF FifosInv, FifoInv, Ready, StartedFifoFits
  <1>3. Basic /\ FifosInv /\ [Next]_vars => FifosInv'
    BY NextFifos
  <1> QED
    BY InitBasic, NextBasic, <1>1, <1>2, <1>3, PTL DEF Spec
-----------------------------------------------------------------------------
(* One read for a trigger.                                                 *)

\* A device that has to be acquired is started, and if it is polled and has
\* elements, its last trigger is unserved, unless the task is just serving it.
NeedInv(d) ==
  /\ turnOn[d] = start[d]
  /\ ~start[d] => ~need[d]
  /\ d \notin Raw /\ start[d] /\ mode[d] # "EXTI" /\ need[d]
     => evt[d] \/ (pc \in {"acq_st", "dead"} /\ at = d)

\* What the unlocked look at a device found still holds under its mutex.
LookHolds ==
  /\ pc \in {"tm_lock", "exti_lock", "acq_lock", "acq_rd", "acq_st"} => start[at]
  /\ pc = "exti_lock" => mode[at] = "EXTI"
  /\ pc \in {"acq_lock", "acq_rd"} => need[at]

TrigInv == LookHolds /\ \A d \in Dev : NeedInv(d)

\* Only a device that is off is given another trigger mode, and no walk of the
\* task has found it due.
LEMMA AppTrig ==
  ASSUME Guarded, "close" \notin Ops, Basic, TrigInv, AppStep
  PROVE  TrigInv'
  <1>1. UNCHANGED <<need, pc, at, evt>>
    BY DEF AppStep, AppFinish, OpenLoad, OpenTrigInit, OpenDriver, Close, Call, CallReturns,
           flagVars
  <1>2. ASSUME NEW d \in Dev, NEW c \in Configs[d], NEW o \in {"ok", "no_sub", "no_fifo"},
               OpenLoad(d, c, o)
        PROVE  TrigInv'
    <2>1. /\ UNCHANGED <<start, turnOn>> /\ ~turnOn[d]
          /\ \A e \in Dev : e # d => mode'[e] = mode[e]
      BY <1>2 DEF OpenLoad, LoadConfig, flagVars, Basic, TypeOK
    <2>2. ~start[d]
      BY <2>1 DEF TrigInv, NeedInv
    <2>3. LookHolds'
      BY <1>1, <2>1, <2>2 DEF TrigInv, LookHolds, Basic, Located
    <2>4. ASSUME NEW e \in Dev PROVE NeedInv(e)'
      BY <1>1, <2>1, <2>2 DEF TrigInv, NeedInv
    <2> QED
      BY <2>3, <2>4 DEF TrigInv
  <1>3. ASSUME NEW d \in Dev, NEW ok \in BOOLEAN,
               OpenTrigInit(d, ok) \/ OpenDriver(d, ok) \/ Call(d) \/ CallReturns(d)
        PROVE  TrigInv'
    <2>1. mode' = mode
      BY <1>3 DEF OpenTrigInit, OpenDriver, Call, CallReturns, cfgVars
    <2>2. \A e \in Dev : start[e] => start'[e]
      BY <1>3 DEF OpenTrigInit, OpenDriver, Call, CallReturns, flagVars, Basic, TypeOK
    <2>3. ASSUME NEW e \in Dev PROVE turnOn'[e] = start'[e]
      <3>1. turnOn[e] = start[e]
        BY DEF TrigInv, NeedInv
      <3> QED
        BY <1>3, <3>1
        DEF OpenTrigInit, OpenDriver, Call, CallReturns, flagVars, Basic, TypeOK
    <2>4. LookHolds'
      BY <1>1, <2>1, <2>2 DEF TrigInv, LookHolds, Basic, Located
    <2>5. ASSUME NEW e \in Dev PROVE NeedInv(e)'
      <3>1. NeedInv(e)
        BY DEF TrigInv
      <3> QED
        BY <1>1, <2>1, <2>2, <2>3, <3>1 DEF NeedInv
    <2> QED
      BY <2>4, <2>5 DEF TrigInv
  <1>4. \A d \in Dev : ~Close(d)
    BY DEF Close
  <1> QED
    BY <1>2, <1>3, <1>4 DEF AppStep, AppFinish

\* Ticks and interrupts serve no trigger.
LEMMA TimersTrig ==
  ASSUME Basic, TrigInv, Timers \/ UNCHANGED vars
  PROVE  TrigInv'
  <1>1. UNCHANGED <<start, turnOn, need, mode, pc, at>>
    BY DEF Timers, SoftTimerLoad, SoftTimerStore, HardTimerIsr, ExtiIsr, flagVars, cfgVars,
           appVars, vars
  <1>2. \A d \in Dev : evt[d] => evt'[d]
    BY DEF Timers, SoftTimerLoad, SoftTimerStore, HardTimerIsr, ExtiIsr, vars
  <1>3. LookHolds'
    BY <1>1 DEF TrigInv, LookHolds
  <1>4. ASSUME NEW d \in Dev PROVE NeedInv(d)'
    BY <1>1, <1>2 DEF TrigInv, NeedInv
  <1> QED
    BY <1>3, <1>4 DEF TrigInv

\* A walk goes to the lock of a device only for what it saw there.
LEMMA WalkTrig ==
  ASSUME Basic, TrigInv, TimerCheck \/ ExtiCheck \/ AcquireCheck
  PROVE  TrigInv'
  <1>1. UNCHANGED <<start, turnOn, need, mode, evt>> /\ pc \in {"tm", "exti", "acq"}
    BY DEF TimerCheck, ExtiCheck, AcquireCheck, Walk, flagVars, cfgVars, appVars
  <1>2. /\ pc' \in {"tm", "tm_lock", "exti", "exti_lock", "acq", "acq_lock", "wait"}
        /\ pc' = "tm_lock" => at' = at /\ start[at]
        /\ pc' = "exti_lock" => at' = at /\ start[at] /\ mode[at] = "EXTI"
        /\ pc' = "acq_lock" => at' = at /\ start[at] /\ need[at]
    <2>1. CASE TimerCheck
      BY <2>1, Zenon DEF TimerCheck, Walk, Goto
    <2>2. CASE ExtiCheck
      BY <2>2, Zenon DEF ExtiCheck, Walk, Goto
    <2>3. CASE AcquireCheck
      BY <2>3, Zenon DEF AcquireCheck, Walk, Goto
    <2> QED
      BY <2>1, <2>2, <2>3
  <1>3. LookHolds'
    BY <1>1, <1>2 DEF LookHolds
  <1>4. ASSUME NEW d \in Dev PROVE NeedInv(d)'
    BY <1>1 DEF TrigInv, NeedInv
  <1> QED
    BY <1>3, <1>4 DEF TrigInv

\* timer_proc records a trigger with the flag it sets; exti_proc sets the flag
\* of a device that is not polled.
LEMMA UpdateTrig ==
  ASSUME Basic, TrigInv, TimerUpdate \/ ExtiUpdate
  PROVE  TrigInv'
  <1>1. /\ UNCHANGED <<start, turnOn, mode>> /\ pc \in {"tm_lock", "exti_lock"}
        /\ pc' \in {"tm", "exti"} /\ at \in Dev /\ start[at]
    BY DEF TimerUpdate, ExtiUpdate, Goto, cfgVars, appVars, Basic, Located, TrigInv, LookHolds
  <1>2. \A d \in Dev : d # at => need'[d] = need[d] /\ evt'[d] = evt[d]
    BY <1>1 DEF TimerUpdate, ExtiUpdate, IrqTaken, Basic, TypeOK
  <1>3. mode[at] # "EXTI" /\ need'[at] => evt'[at] \/ need[at]
    <2>1. CASE ExtiUpdate
      BY <2>1 DEF ExtiUpdate, TrigInv, LookHolds
    <2>2. CASE TimerUpdate
      BY <1>1, <2>2 DEF TimerUpdate, Basic, TypeOK
    <2> QED
      BY <2>1, <2>2
  <1>4. evt[at] => evt'[at]
    BY <1>1 DEF TimerUpdate, ExtiUpdate, Basic, TypeOK
  <1>5. LookHolds'
    BY <1>1 DEF LookHolds
  <1>6. ASSUME NEW d \in Dev PROVE NeedInv(d)'
    <2>1. NeedInv(d)
      BY DEF TrigInv
    <2>2. CASE d # at
      BY <1>1, <1>2, <2>1, <2>2 DEF NeedInv
    <2>3. CASE d = at
      BY <1>1, <1>3, <1>4, <2>1, <2>3 DEF NeedInv
    <2> QED
      BY <2>2, <2>3
  <1> QED
    BY <1>5, <1>6 DEF TrigInv

\* The read serves the trigger and the store clears is_need_acquire: of a device
\* with elements, whether the read succeeded or not.
LEMMA AcquireTrig ==
  ASSUME Basic, TrigInv, NEW ok \in BOOLEAN,
         \/ TaskWakes \/ TakeSoft \/ ReadHard \/ ClearHard
         \/ AcquireNoMemory \/ AcquireBegin \/ AcquireNullSub \/ AcquireRead(ok) \/ AcquireStore(ok)
  PROVE  TrigInv'
  <1>1. UNCHANGED <<start, turnOn, mode>>
    BY DEF TaskWakes, TakeSoft, ReadHard, ClearHard, AcquireNoMemory, AcquireBegin,
           AcquireNullSub, AcquireRead, AcquireStore, flagVars, cfgVars, appVars
  <1>2. CASE TaskWakes \/ TakeSoft \/ ReadHard \/ ClearHard \/ AcquireNoMemory \/ AcquireBegin
             \/ AcquireNullSub
    <2>1. /\ UNCHANGED <<need, evt>>
          /\ (pc' \in {"acq_rd", "acq_lock", "acq_st"} => pc = "acq_lock" /\ at' = at)
          /\ pc' \notin {"tm_lock", "exti_lock", "acq_lock", "acq_st"}
          /\ pc # "dead" /\ (pc = "acq_st" => pc' = "dead" /\ at' = at)
      BY <1>2 DEF TaskWakes, TakeSoft, ReadHard, ClearHard, AcquireNoMemory, AcquireBegin,
                  AcquireNullSub, Crash, Goto, flagVars
    <2>2. LookHolds'
      BY <1>1, <2>1 DEF TrigInv, LookHolds
    <2>3. ASSUME NEW d \in Dev PROVE NeedInv(d)'
      BY <1>1, <2>1 DEF TrigInv, NeedInv
    <2> QED
      BY <2>2, <2>3 DEF TrigInv
  <1>3. CASE AcquireRead(ok)
    <2>1. /\ need' = need /\ pc = "acq_rd" /\ at' = at /\ pc' \in {"acq_st", "dead"}
          /\ \A d \in Dev : d # at => evt'[d] = evt[d]
      BY <1>3 DEF AcquireRead, Crash, Goto, flagVars, Basic, TypeOK
    <2>2. LookHolds'
      BY <1>1, <2>1 DEF TrigInv, LookHolds
    <2>3. ASSUME NEW d \in Dev PROVE NeedInv(d)'
      BY <1>1, <2>1 DEF TrigInv, NeedInv
    <2> QED
      BY <2>2, <2>3 DEF TrigInv
  <1>4. CASE AcquireStore(ok)
    <2>1. /\ evt' = evt /\ pc = "acq_st" /\ pc' \in {"acq", "dead"} /\ at \in Dev /\ start[at]
          /\ \A d \in Dev : d # at => need'[d] = need[d]
          /\ at \notin Raw => ~need'[at]
      BY <1>4 DEF AcquireStore, StillNeeded, Crash, Goto, Basic, TypeOK, Located, TrigInv, LookHolds
    <2>2. LookHolds'
      BY <2>1 DEF LookHolds
    <2>3. ASSUME NEW d \in Dev PROVE NeedInv(d)'
      <3>1. NeedInv(d)
        BY DEF TrigInv
      <3> QED
        BY <1>1, <2>1, <3>1 DEF NeedInv
    <2> QED
      BY <2>2, <2>3 DEF TrigInv
  <1> QED
    BY <1>2, <1>3, <1>4

\* The driver of a polled device with elements is read at most once for a
\* trigger, for any number of devices, intervals and ticks that come between the
\* look, the read and the store, while the application opens devices that are off.
\* (tdl_sensor_dev_close is excluded: what the task saw without the mutex need
\* not hold once it has the mutex.)
THEOREM ReadOncePerTrigger ==
  ASSUME Guarded, "close" \notin Ops
  PROVE  Spec => []OneReadPerTrigger
  <1>1. Init => TrigInv
    BY DEF Init, TrigInv, LookHolds, NeedInv
  <1>2. Basic /\ TrigInv /\ [Next]_vars => TrigInv'
    <2> SUFFICES ASSUME Basic, TrigInv, [Next]_vars PROVE TrigInv'
      OBVIOUS
    <2>1. CASE MainStep
      BY <2>1, WalkTrig, UpdateTrig, AcquireTrig DEF MainStep
    <2> QED
      BY <2>1, AppTrig, TimersTrig DEF Next
  <1>3. Basic /\ TrigInv => OneReadPerTrigger
    BY DEF OneReadPerTrigger, TrigInv, LookHolds, NeedInv, Basic, Located
  <1> QED
    BY InitBasic, NextBasic, <1>1, <1>2, <1>3, PTL DEF Spec
-----------------------------------------------------------------------------
(* Interrupts reach their own devices.                                     *)

\* A device that is ever triggered by a pin has that pin in every configuration.
PinsFixed == \A d \in Dev : \A c, e \in Configs[d] : c.mode = "EXTI" => e.word = c.word

\* The pin a GPIO interrupt reads through its pointer is its own, the node the
\* application is arming holds one of its configurations, and the flag byte in
\* the register of the task has no bit that is not in memory.
ArmedRight ==
  \A p \in Pin : armed[p] # 0
    => word[armed[p]] = p /\ \E c \in Configs[armed[p]] : c.mode = "EXTI" /\ c.word = p
PinInv ==
  /\ ArmedRight
  /\ app = "trig" => \E c \in Configs[appDev] : mode[appDev] = c.mode /\ word[appDev] = c.word
  /\ pc = "acq_st" /\ irqReg => irq[at]

\* Opening a device keeps the pointer of an armed interrupt on its pin.
LEMMA AppPin ==
  ASSUME PinsFixed, "close" \notin Ops, Basic, PinInv, AppStep
  PROVE  PinInv' /\ irq' = irq
  <1>0. UNCHANGED <<irq, pc, at, irqReg>>
    BY DEF AppStep, AppFinish, OpenLoad, OpenTrigInit, OpenDriver, Close, Call, CallReturns,
           flagVars, localVars
  <1>1. \A p \in Pin : armed[p] # 0 => armed[p] \in Dev
    BY HubAssumption DEF Basic, TypeOK, Dev
  <1>2. ASSUME NEW d \in Dev, NEW c \in Configs[d], NEW o \in {"ok", "no_sub", "no_fifo"},
               OpenLoad(d, c, o)
        PROVE  PinInv'
    <2>1. /\ armed' = armed /\ word'[d] = c.word /\ mode'[d] = c.mode
          /\ \A e \in Dev : e # d => word'[e] = word[e]
          /\ app' = "trig" => appDev' = d
      BY <1>2 DEF OpenLoad, LoadConfig, AppLocks, tickVars, Basic, TypeOK
    <2>2. ASSUME NEW p \in Pin, armed[p] # 0 PROVE word'[armed[p]] = p
      <3>1. CASE armed[p] # d
        BY <1>1, <2>1, <2>2, <3>1 DEF PinInv, ArmedRight
      <3>2. CASE armed[p] = d
        <4>1. PICK e \in Configs[d] : e.mode = "EXTI" /\ e.word = p
          BY <2>2, <3>2 DEF PinInv, ArmedRight
        <4>2. c.word = e.word
          BY <4>1 DEF PinsFixed
        <4> QED
          BY <2>1, <3>2, <4>1, <4>2
      <3> QED
        BY <3>1, <3>2
    <2>3. ArmedRight'
      BY <2>1, <2>2 DEF PinInv, ArmedRight
    <2> QED
      BY <1>0, <2>1, <2>3 DEF PinInv
  <1>3. ASSUME NEW d \in Dev, NEW ok \in BOOLEAN, OpenTrigInit(d, ok)
        PROVE  PinInv'
    <2>1. app = "trig" /\ appDev = d /\ app' # "trig" /\ word' = word
      BY <1>3 DEF OpenTrigInit, AppReturns, cfgVars
    <2>2. PICK c \in Configs[d] : mode[d] = c.mode /\ word[d] = c.word
      BY <2>1 DEF PinInv
    <2>3. armed' = armed \/ (mode[d] = "EXTI" /\ armed' = [armed EXCEPT ![word[d]] = d])
      BY <1>3, Zenon DEF OpenTrigInit
    <2>4. armed \in [Pin -> 0 .. NDev]
      BY DEF Basic, TypeOK
    <2>5. ASSUME NEW p \in Pin, armed'[p] # 0
          PROVE  /\ word[armed'[p]] = p
                 /\ \E e \in Configs[armed'[p]] : e.mode = "EXTI" /\ e.word = p
      <3>1. CASE armed'[p] = armed[p]
        BY <2>5, <3>1 DEF PinInv, ArmedRight
      <3>2. CASE armed'[p] # armed[p]
        <4>1. mode[d] = "EXTI" /\ p = word[d] /\ armed'[p] = d
          BY <2>3, <2>4, <3>2
        <4> QED
          BY <2>2, <4>1
      <3> QED
        BY <3>1, <3>2
    <2>6. ArmedRight'
      BY <2>1, <2>5 DEF ArmedRight
    <2> QED
      BY <1>0, <2>1, <2>6 DEF PinInv
  <1>4. ASSUME NEW d \in Dev, NEW ok \in BOOLEAN,
               OpenDriver(d, ok) \/ Call(d) \/ CallReturns(d)
        PROVE  PinInv'
    <2>1. UNCHANGED <<armed, word>> /\ app' # "trig"
      BY <1>4 DEF OpenDriver, Call, CallReturns, AppReturns, cfgVars, tickVars
    <2> QED
      BY <1>0, <2>1 DEF PinInv, ArmedRight
  <1>5. \A d \in Dev : ~Close(d)
    BY DEF Close
  <1> QED
    BY <1>0, <1>2, <1>3, <1>4, <1>5 DEF AppStep, AppFinish

\* An interrupt flags a device on its pin and records the trigger of every device
\* on that pin.
LEMMA TimersPin ==
  ASSUME Basic, PinInv, Timers
  PROVE  PinInv' /\ \A d \in Dev : irq'[d] /\ ~irq[d] => evt'[d]
  <1>1. UNCHANGED <<armed, word, mode, app, appDev, pc, at, irqReg>>
    BY DEF Timers, SoftTimerLoad, SoftTimerStore, HardTimerIsr, ExtiIsr, flagVars, cfgVars,
           tickVars, localVars, appVars
  <1>2. \A d \in Dev : irq[d] => irq'[d]
    BY DEF Timers, SoftTimerLoad, SoftTimerStore, HardTimerIsr, ExtiIsr, flagVars
  <1>3. pc = "acq_st" => at \in Dev
    BY DEF Basic, Located
  <1>4. PinInv'
    BY <1>1, <1>2, <1>3 DEF PinInv, ArmedRight
  <1>5. ASSUME NEW p \in Pin, ExtiIsr(p), NEW d \in Dev, irq'[d], ~irq[d] PROVE evt'[d]
    <2>1. word[armed[p]] = p
      BY <1>5 DEF ExtiIsr, PinInv, ArmedRight
    <2>2. d \in OnPin(p)
      BY <1>5, <2>1 DEF ExtiIsr
    <2> QED
      BY <1>5, <2>2 DEF ExtiIsr, OnPin
  <1>6. ASSUME SoftTimerLoad \/ SoftTimerStore \/ HardTimerIsr PROVE irq' = irq
    BY <1>6 DEF SoftTimerLoad, SoftTimerStore, HardTimerIsr, flagVars
  <1> QED
    BY <1>4, <1>5, <1>6 DEF Timers

\* The task sets no interrupt flag: the flag byte it stores back was loaded while
\* it held the mutex, and only an interrupt has changed it since.
LEMMA MainPin ==
  ASSUME Basic, PinInv, MainStep
  PROVE  PinInv' /\ \A d \in Dev : irq'[d] => irq[d]
  <1>1. UNCHANGED <<armed, word, mode, app, appDev>>
    BY DEF MainStep, TaskWakes, TakeSoft, ReadHard, ClearHard, TimerCheck, ExtiCheck,
           AcquireCheck, Walk, TimerUpdate, ExtiUpdate, AcquireNoMemory, AcquireBegin,
           AcquireNullSub, AcquireRead, AcquireStore, cfgVars, tickVars, appVars
  <1>2. CASE \E ok \in BOOLEAN : AcquireRead(ok)
    <2>1. irq' = irq /\ irqReg' = irq[at] /\ at' = at
      BY <1>2 DEF AcquireRead, Crash, Goto, flagVars
    <2> QED
      BY <1>1, <2>1 DEF PinInv, ArmedRight
  <1>3. CASE \E ok \in BOOLEAN : AcquireStore(ok)
    <2>1. /\ pc = "acq_st" /\ pc' # "acq_st" /\ at \in Dev
          /\ irq' = [irq EXCEPT ![at] = IF at \in Raw THEN @ ELSE irqReg]
      BY <1>3 DEF AcquireStore, Crash, Goto, Basic, Located
    <2>2. \A d \in Dev : irq'[d] => irq[d]
      BY <2>1 DEF PinInv, Basic, TypeOK
    <2> QED
      BY <1>1, <2>1, <2>2 DEF PinInv, ArmedRight
  <1>4. CASE ExtiUpdate
    <2>1. pc' = "exti" /\ \A d \in Dev : irq'[d] => irq[d]
      BY <1>4 DEF ExtiUpdate, Goto, Basic, TypeOK
    <2> QED
      BY <1>1, <2>1 DEF PinInv, ArmedRight
  <1>5. CASE \/ TaskWakes \/ TakeSoft \/ ReadHard \/ ClearHard \/ TimerUpdate
             \/ TimerCheck \/ ExtiCheck \/ AcquireCheck
             \/ AcquireNoMemory \/ AcquireBegin \/ AcquireNullSub
    <2>1. irq' = irq
      BY <1>5 DEF TaskWakes, TakeSoft, ReadHard, ClearHard, TimerUpdate, TimerCheck, ExtiCheck,
           AcquireCheck, Walk, AcquireNoMemory, AcquireBegin, AcquireNullSub, flagVars
    <2>2. pc' # "acq_st"
      <3>1. CASE TimerCheck \/ ExtiCheck \/ AcquireCheck
        BY <3>1, WalksMove DEF Moves
      <3> QED
        BY <1>5, <3>1 DEF TaskWakes, TakeSoft, ReadHard, ClearHard, TimerUpdate,
             AcquireNoMemory, AcquireBegin, AcquireNullSub, Crash, Goto
    <2> QED
      BY <1>1, <2>1, <2>2 DEF PinInv, ArmedRight
  <1> QED
    BY <1>2, <1>3, <1>4, <1>5 DEF MainStep

\* A GPIO interrupt triggers only a started device that is configured for its
\* pin, for any devices, pins and reconfigurations that keep a device on its pin,
\* and the task's unprotected store of the flag byte brings back no interrupt flag
\* that was served.  (After tdl_sensor_dev_close, which clears irq_pin and leaves
\* the interrupt armed, the pointer reads another pin.)
THEOREM IrqReachesOwnDevice ==
  ASSUME PinsFixed, "close" \notin Ops
  PROVE  Spec => IrqIsOwn
  <1>1. Init => PinInv
    BY DEF Init, PinInv, ArmedRight
  <1>2. Basic /\ PinInv /\ [Next]_vars => PinInv'
    <2>1. Basic /\ PinInv /\ UNCHANGED vars => PinInv'
      BY DEF vars, PinInv, ArmedRight, flagVars, cfgVars, tickVars, localVars, appVars
    <2> QED
      BY <2>1, AppPin, TimersPin, MainPin DEF Next
  <1>3. Basic /\ PinInv /\ [Next]_vars => [\A d \in Dev : irq'[d] /\ ~irq[d] => evt'[d]]_vars
    BY AppPin, TimersPin, MainPin DEF Next
  <1> QED
    BY InitBasic, NextBasic, <1>1, <1>2, <1>3, PTL DEF Spec, IrqIsOwn
=============================================================================
