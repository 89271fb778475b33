---------------------------- MODULE EnergyMeter ----------------------------
(***************************************************************************)
(* Electricity metering with a pulse chip (BL0937, HLW8012):               *)
(* tdd_ele_energy_bl0937_hlw8012.c under tdl_ele_energy_ops.c.  The chip   *)
(* sends pulses on two lines, CF for power and CF1 for voltage or current, *)
(* as the driver selects.  Three contexts share the counters without a     *)
(* lock: the interrupts (each runs to its end), the software timer that    *)
(* collects every 300 ms, and the application.                             *)
(*                                                                         *)
(* A measured value is known by whether it is zero; the calibration        *)
(* constants of a factory test are too.                                    *)
(***************************************************************************)
EXTENDS Integers

CONSTANTS
  Single,          \* CAL_SINGLE_TIME
  Window,          \* [Channels -> ticks]: how long pulses are counted
  Overflow,        \* [Channels -> ticks]: D_TIME1_x_OVERFLOW
  VTime, ITime,    \* V_CAL_TIME, I_CAL_TIME: how long CF1 shows what
  ICycle,          \* I_CYCLE_TIME
  CalTime,         \* D_TIME1_CAL_TIME
  Coe,             \* e_coe in normal operation: pulses in a unit of energy
  Abnormal,        \* ENERGY_ABNORMAL
  Setups,          \* channels with pulses, and whether a factory test runs
  AppThread,       \* "timer" or "own": the thread the application reads from
  PulseMax         \* bound: pulses in all

Channels == {"p", "v", "i"}

ASSUME MeterAssumption ==
  /\ Single \in Nat \ {0} /\ VTime \in Nat \ {0} /\ ITime \in Nat /\ ICycle \in Nat
  /\ ITime > ICycle /\ Coe \in Nat \ {0} /\ Abnormal \in Nat /\ PulseMax \in Nat
  /\ CalTime \in Nat \ {0}
  /\ Window \in [Channels -> Nat] /\ Overflow \in [Channels -> Nat]
  /\ \A c \in Channels : Single < Window[c] /\ Single < Overflow[c]
  /\ Setups \subseteq (SUBSET Channels) \X BOOLEAN
  /\ AppThread \in {"timer", "own"}

VARIABLES
  active, testing,  \* the channels with pulses; is_start_test
  load,             \* something consumes power
  running,          \* timer and interrupts are on
  ch,               \* the channels' counters
  vi, left, finish, \* vi_testmode, vi_testtimes, is_sample_finish
  pluse, isrAdd,    \* pluse_cnt, isr_add_energy
  calc, coe,        \* calc_times; e_coe
  sampled, verdict, \* sample_finished, test_result
  rpc, rch, rmode,  \* where the timer callback is; the channel it reads
  width, eSample,   \* x_current_plusewidth, 1 if not zero; e_samplevalue
  value, energyData, \* energy_data: power, voltage, current; energy_val
  pvie, pvieE, acc, \* pvie_value; its energy_val; what += has loaded
  apc, got,         \* where the application is; what it has loaded
  pulses, delivered \* history: CF pulses; units of energy handed out

chipVars   == <<active, testing, load>>
isrVars    == <<ch, vi, left, finish, pluse, isrAdd, calc, coe, sampled, pulses>>
readerVars == <<rpc, rch, rmode, width, eSample, value, energyData, acc>>
appVars    == <<apc, got, delivered>>

vars == <<active, testing, load, running, ch, vi, left, finish, pluse, isrAdd, calc,
          coe, sampled, verdict, rpc, rch, rmode, width, eSample, value, energyData,
          pvie, pvieE, acc, apc, got, pulses, delivered>>
-----------------------------------------------------------------------------
(* Plausible slips, used to show that the properties notice them.          *)

NeverJudged(r)       == r
JudgedTooEarly(r)    == [r EXCEPT !.mode = IF r.cnt < 1 THEN 1 ELSE 0]
TimeKept(r)          == [r EXCEPT !.tot = 0, !.cnt = 0, !.mode = 0, !.ovf = FALSE]
OverflowForgotten(r) == [r EXCEPT !.ovf = TRUE, !.tot = 0, !.one = 0, !.cnt = 0,
                                  !.mode = 0]
EnergyKept           == energyData
LimitTooStrict       == IF eSample >= Abnormal THEN 0 ELSE eSample
NeverFinished(l)     == FALSE
-----------------------------------------------------------------------------
(* One channel.  tot counts ticks since the last pulse, one those since the *)
(* first, cnt pulses; mode is 1 for a single period, 0 for a window.       *)

\* __bl0937_hlw8012_run_params_init
Fresh == [tot |-> 0, one |-> 0, cnt |-> 0, mode |-> 1, ovf |-> TRUE,
          last |-> [one |-> 0, cnt |-> 0, mode |-> 1, ovf |-> TRUE]]

\* Within CAL_SINGLE_TIME there was one pulse, or more.
Judged(r) == [r EXCEPT !.mode = IF r.cnt < 2 THEN 1 ELSE 0]

Overflown(r) == [r EXCEPT !.ovf = TRUE, !.last.ovf = TRUE, !.tot = 0, !.one = 0,
                          !.cnt = 0, !.mode = 0]

Ticked(r) == IF r.cnt # 0 THEN [r EXCEPT !.one = @ + 1, !.tot = @ + 1] ELSE r

\* A slip: one tick too many.
OverflowLate(r, c) ==
  LET t == Ticked(r)
  IN  IF t.tot > Overflow[c] THEN Overflown(t)
      ELSE IF t.one = Single THEN Judged(t) ELSE t

\* __hw_timer_cb, for one channel.
TickOf(r, c) ==
  LET t == Ticked(r)
  IN  IF t.tot >= Overflow[c] THEN Overflown(t)
      ELSE IF t.one = Single THEN Judged(t) ELSE t

\* A new measurement, with this pulse as its first.
Restarted(r) == [r EXCEPT !.mode = 0, !.tot = 0, !.one = 0, !.cnt = 1, !.ovf = FALSE]

\* __power_gpio_isr_cb, __vol_curr_gpio_isr_cb
PulseOf(r, c) ==
  LET n == [r EXCEPT !.tot = 0, !.cnt = @ + 1]
  IN  IF r.ovf THEN Restarted(n)
      ELSE IF r.mode = 1 /\ r.one >= Single
        THEN Restarted([n EXCEPT !.last = [@ EXCEPT !.one = r.one, !.mode = 1, !.ovf = FALSE]])
      ELSE IF r.mode = 0 /\ r.one >= Window[c]
        THEN Restarted([n EXCEPT !.last = [one |-> r.one, cnt |-> n.cnt, mode |-> 0, ovf |-> FALSE]])
      ELSE n

\* What the switch of CF1 clears; mode stays.
Switched(r) == [r EXCEPT !.tot = 0, !.one = 0, !.cnt = 0, !.ovf = FALSE]
-----------------------------------------------------------------------------
(* The interrupts.                                                         *)

Other(c) == IF c = "v" THEN "i" ELSE "v"

PhaseTime(c) == IF c = "v" THEN VTime ELSE ITime

\* is_sample_finish; the test for the voltage phase never succeeds.
FinishAt(l) == IF vi = "v" THEN finish \/ l = VTime
               ELSE finish \/ l = ITime - ICycle

\* __hw_timer_cb
Tick ==
  /\ running
  /\ calc' = IF testing /\ calc <= CalTime THEN calc + 1 ELSE calc
  /\ IF testing /\ calc' = CalTime   \* times E_001E_GAIN
       THEN coe' = pluse /\ sampled' = TRUE
       ELSE UNCHANGED <<coe, sampled>>
  /\ LET t == [ch EXCEPT !["p"] = TickOf(@, "p"), ![vi] = TickOf(@, vi)]
     IN  IF left = 1
           THEN /\ ch' = [t EXCEPT ![Other(vi)] = Switched(@)]
                /\ vi' = Other(vi) /\ left' = PhaseTime(Other(vi))
                /\ finish' = FALSE
           ELSE /\ ch' = t /\ left' = left - 1 /\ finish' = FinishAt(left - 1)
                /\ UNCHANGED vi
  /\ UNCHANGED <<chipVars, running, pluse, isrAdd, pulses, verdict, readerVars,
                 pvie, pvieE, appVars>>

\* __power_gpio_isr_cb
PulseCF ==
  /\ running /\ load /\ "p" \in active /\ pulses < PulseMax
  /\ ch' = [ch EXCEPT !["p"] = PulseOf(@, "p")]
  /\ IF ~testing /\ pluse + 1 = coe
       THEN pluse' = 0 /\ isrAdd' = isrAdd + 1
       ELSE pluse' = pluse + 1 /\ UNCHANGED isrAdd
  /\ pulses' = pulses + 1
  /\ UNCHANGED <<chipVars, running, vi, left, finish, calc, coe, sampled, verdict,
                 readerVars, pvie, pvieE, appVars>>

\* __vol_curr_gpio_isr_cb
PulseCF1 ==
  /\ running /\ vi \in active /\ ch[vi].cnt < PulseMax
  /\ ch' = [ch EXCEPT ![vi] = PulseOf(@, vi)]
  /\ UNCHANGED <<chipVars, running, vi, left, finish, pluse, isrAdd, calc, coe,
                 sampled, pulses, verdict, readerVars, pvie, pvieE, appVars>>
-----------------------------------------------------------------------------
(* The software timer: __ele_energy_timer_cb, with                         *)
(* __bl0937_hlw8012_read_pvie_value.                                       *)

AppIdle == AppThread = "own" \/ apc = "idle"

\* Nothing is read before the samples are complete.
ReadStart ==
  /\ rpc = "idle" /\ AppIdle
  /\ IF finish THEN rpc' = "look" /\ rch' = "p"
               ELSE rpc' = "load" /\ UNCHANGED rch
  /\ UNCHANGED <<chipVars, running, isrVars, verdict, rmode, width, eSample,
                 value, energyData, acc, pvie, pvieE, appVars>>

NextStage == CASE rch = "p" -> "v" [] rch = "v" -> "i" [] rch = "i" -> "p"

\* __read_measure_origin_data looks at the mode first and refuses too few pulses;
\* its caller then goes on with the width of an earlier reading.
ReadLook ==
  /\ rpc = "look"
  /\ rmode' = ch[rch].last.mode
  /\ rpc' = IF rmode' = 0 /\ ch[rch].last.cnt < 2 THEN "skip" ELSE "take"
  /\ UNCHANGED <<chipVars, running, isrVars, verdict, rch, width, eSample, value,
                 energyData, acc, pvie, pvieE, appVars>>

Divisor == IF rmode = 1 THEN 1 ELSE ch[rch].last.cnt - 1

ReadTake ==
  /\ rpc \in {"take", "skip"}
  /\ width' = IF rpc = "skip" THEN width
              ELSE [width EXCEPT ![rch] = IF ch[rch].last.ovf THEN 0 ELSE 1]
  /\ rch' = NextStage /\ rmode' = 1
  /\ rpc' = IF rch = "i" THEN "energy" ELSE "look"
  /\ UNCHANGED <<chipVars, running, isrVars, verdict, eSample, value, energyData,
                 acc, pvie, pvieE, appVars>>

ReadEnergy ==
  /\ rpc = "energy"
  /\ eSample' = isrAdd
  /\ rpc' = "clear"
  /\ UNCHANGED <<chipVars, running, isrVars, verdict, rch, rmode, width, value,
                 energyData, acc, pvie, pvieE, appVars>>

\* An interrupt between the two has counted in vain.
ClearEnergy ==
  /\ rpc = "clear"
  /\ isrAdd' = 0
  /\ rpc' = "deal"
  /\ UNCHANGED <<chipVars, running, ch, vi, left, finish, pluse, calc, coe, sampled,
                 pulses, verdict, rch, rmode, width, eSample, value, energyData, acc,
                 pvie, pvieE, appVars>>

\* __deal_measure_value: what is too much for one reading is dropped.
Plausible == IF eSample > Abnormal THEN 0 ELSE eSample

\* Little power is none, and without power there is no current.  In a test the
\* widths become constants and the values stay.
Deal ==
  /\ rpc = "deal"
  /\ \E small \in BOOLEAN :
       LET p == IF small THEN 0 ELSE width["p"]
       IN  value' = IF testing THEN value
                    ELSE [p |-> p, v |-> width["v"], i |-> IF p = 0 THEN 0 ELSE width["i"]]
  /\ energyData' = Plausible /\ eSample' = 0
  /\ rpc' = "load"
  /\ UNCHANGED <<chipVars, running, isrVars, verdict, rch, rmode, width, acc, pvie,
                 pvieE, appVars>>

\* sg_pvie_value.energy_val += energy_data.energy_val
LoadEnergy ==
  /\ rpc = "load"
  /\ pvie' = value /\ acc' = pvieE
  /\ rpc' = "store"
  /\ UNCHANGED <<chipVars, running, isrVars, verdict, rch, rmode, width, eSample,
                 value, energyData, pvieE, appVars>>

EnergyAfterStore == 0

StoreEnergy ==
  /\ rpc = "store"
  /\ pvieE' = acc + energyData /\ acc' = 0
  /\ energyData' = EnergyAfterStore
  /\ rpc' = "idle"
  /\ UNCHANGED <<chipVars, running, isrVars, verdict, rch, rmode, width, eSample,
                 value, pvie, appVars>>

\* __bl0937_hlw8012_fac_test_timer_cb: the constants are within the tolerance or
\* not, and the timer stops.
FacTimer ==
  /\ testing /\ sampled /\ verdict = "none" /\ rpc = "idle" /\ AppIdle
  /\ verdict' \in {"PASS", "FAIL"}
  /\ UNCHANGED <<chipVars, running, isrVars, readerVars, pvie, pvieE, appVars>>
-----------------------------------------------------------------------------
(* The application.                                                        *)

AppMayCall == apc = "idle" /\ (AppThread = "timer" => rpc = "idle")

\* tdl_ele_energy_read_enery_value
AppGet ==
  /\ AppMayCall
  /\ got' = pvieE
  /\ apc' = "clear"
  /\ UNCHANGED <<chipVars, running, isrVars, verdict, readerVars, pvie, pvieE,
                 delivered>>

AppClear ==
  /\ apc = "clear"
  /\ pvieE' = 0 /\ delivered' = delivered + got /\ got' = 0
  /\ apc' = "idle"
  /\ UNCHANGED <<chipVars, running, isrVars, verdict, readerVars, pvie>>

\* tdl_ele_energy_ctrl: interrupts off, or on and all counters anew.
CtrlOff ==
  /\ AppMayCall
  /\ running' = FALSE
  /\ UNCHANGED <<chipVars, isrVars, verdict, readerVars, pvie, pvieE, appVars>>

CtrlOn ==
  /\ AppMayCall
  /\ running' = TRUE
  /\ apc' = "init"
  /\ UNCHANGED <<chipVars, isrVars, verdict, readerVars, pvie, pvieE, got, delivered>>

\* __bl0937_hlw8012_run_params_init
RunParamsInit ==
  /\ apc = "init"
  /\ ch' = [c \in Channels |-> Fresh]
  /\ vi' = "v" /\ left' = VTime /\ finish' = FALSE
  /\ pluse' = 0 /\ isrAdd' = 0 /\ calc' = 0 /\ eSample' = 0
  /\ width' = [c \in Channels |-> 0]
  /\ apc' = "idle"
  /\ UNCHANGED <<chipVars, running, coe, sampled, pulses, verdict, rpc, rch, rmode,
                 value, energyData, acc, pvie, pvieE, got, delivered>>

\* The consumer is switched on or off.
Switch ==
  /\ "p" \in active
  /\ load' = ~load
  /\ UNCHANGED <<active, testing, running, isrVars, verdict, readerVars, pvie, pvieE,
                 appVars>>
-----------------------------------------------------------------------------
\* __bl0937_hlw8012_hw_init and tdl_ele_energy_driver_register
Init ==
  /\ \E s \in Setups : active = s[1] /\ testing = s[2]
  /\ load = TRUE
  /\ running = TRUE
  /\ ch = [c \in Channels |-> Fresh]
  /\ vi = "v" /\ left = VTime /\ finish = FALSE
  /\ pluse = 0 /\ isrAdd = 0 /\ calc = 0 /\ coe = IF testing THEN 0 ELSE Coe
  /\ sampled = FALSE /\ verdict = "none"
  /\ rpc = "idle" /\ rch = "p" /\ rmode = 1
  /\ width = [c \in Channels |-> 0] /\ eSample = 0
  /\ value = [c \in Channels |-> 0] /\ energyData = 0
  /\ pvie = [c \in Channels |-> 0] /\ pvieE = 0 /\ acc = 0
  /\ apc = "idle" /\ got = 0
  /\ pulses = 0 /\ delivered = 0

Reader ==
  \/ ReadLook \/ ReadTake \/ ReadEnergy \/ ClearEnergy \/ Deal
  \/ LoadEnergy \/ StoreEnergy

App == AppGet \/ CtrlOff \/ CtrlOn

AppContinues == AppClear \/ RunParamsInit

Next ==
  \/ Tick \/ PulseCF \/ PulseCF1 \/ Switch
  \/ ReadStart \/ Reader \/ FacTimer
  \/ App \/ AppContinues

Spec == Init /\ [][Next]_vars

\* Interrupts that are on and threads that can run do.  The samples are complete
\* for 7.5 s, the callback comes every 300 ms: it cannot miss them for ever.
Fairness ==
  /\ WF_vars(Tick) /\ WF_vars(ReadStart) /\ WF_vars(Reader) /\ WF_vars(AppContinues)
  /\ []<>finish => []<><<ReadStart /\ finish>>_vars

FairSpec == Spec /\ Fairness
-----------------------------------------------------------------------------
LastType == [one : Nat, cnt : Nat, mode : {0, 1}, ovf : BOOLEAN]

ChannelType == [tot : Nat, one : Nat, cnt : Nat, mode : {0, 1}, ovf : BOOLEAN,
                last : LastType]

TypeOK ==
  /\ active \in SUBSET Channels /\ testing \in BOOLEAN /\ load \in BOOLEAN /\ running \in BOOLEAN
  /\ ch \in [Channels -> ChannelType]
  /\ vi \in {"v", "i"} /\ left \in 1 .. PhaseTime(vi) /\ finish \in BOOLEAN
  /\ pluse \in Nat /\ isrAdd \in Nat /\ calc \in 0 .. CalTime + 1 /\ coe \in Nat
  /\ sampled \in BOOLEAN /\ verdict \in {"none", "PASS", "FAIL"}
  /\ rpc \in {"idle", "look", "take", "skip", "energy", "clear", "deal", "load", "store"}
  /\ rch \in Channels /\ rmode \in {0, 1}
  /\ width \in [Channels -> {0, 1}] /\ value \in [Channels -> {0, 1}]
  /\ pvie \in [Channels -> {0, 1}]
  /\ eSample \in Nat /\ energyData \in Nat /\ pvieE \in Nat /\ acc \in Nat
  /\ apc \in {"idle", "clear", "init"} /\ got \in Nat
  /\ pulses \in Nat /\ delivered \in Nat

(* The channels.                                                           *)

\* A single-period measurement spans exactly one period: whenever a pulse would
\* end one, the only pulse so far is the one that began it.
OnePeriod ==
  \A c \in Channels :
    ch[c].mode = 1 /\ ch[c].one >= Single => ch[c].cnt = 1 /\ ch[c].tot = ch[c].one

\* The 16-bit counters cannot wrap: a window is ended by the next pulse, and a
\* pulse that does not come is an overflow.
NoWrap ==
  \A c \in Channels : /\ ch[c].one < Window[c] + Overflow[c] - 1
                      /\ ch[c].last.one < Window[c] + Overflow[c] - 1

\* Voltage and current share a pin: no measurement reaches back into the time
\* before the pin was switched to it.
PhaseOnly == ch[vi].one <= PhaseTime(vi) - left

\* With an application on the timer's thread, a width that is computed from a
\* window averages over two periods or more, although the interrupt may replace
\* the measurement between the check of its pulses and their use.
AveragesSeveral ==
  AppThread = "timer" /\ rpc = "take" /\ rmode = 0 => Divisor >= 2

(* The account of energy.                                                  *)

\* Units of energy that are somewhere between the interrupt and the application.
Held ==
  isrAdd + (IF rpc = "clear" THEN 0 ELSE eSample) + energyData + pvieE + delivered

\* With an application on the timer's thread, no energy is counted that was not
\* consumed.
NeverOverbilled ==
  AppThread = "timer" /\ ~testing => Coe * Held + pluse <= pulses

\* ... and energy is lost only when an interrupt falls between the reading and the
\* clearing of isr_add_energy, when more than ENERGY_ABNORMAL units come at
\* once, or when metering is started anew.
LossIsKnown ==
  [][AppThread = "timer" =>
       \/ Held' >= Held
       \/ rpc = "clear" /\ isrAdd > eSample
       \/ rpc = "deal" /\ eSample > Abnormal
       \/ apc = "init"]_vars

(* Liveness.                                                               *)

\* Metering that stays on, without a consumer: the reported power becomes 0.
PowerGoesOut ==
  <>[](~load /\ running /\ apc # "init") => <>[](pvie["p"] = 0)

\* A unit of energy counted by the interrupt is fetched, unless metering stops.
EnergyMoves == isrAdd > 0 ~> isrAdd = 0 \/ ~running \/ apc = "init"
=============================================================================
