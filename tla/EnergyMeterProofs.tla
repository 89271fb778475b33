------------------------- MODULE EnergyMeterProofs -------------------------
(***************************************************************************)
(* The pulse counters and the account of energy, for any windows, phases   *)
(* and number of pulses.                                                   *)
(***************************************************************************)
EXTENDS EnergyMeter, TLAPS

(* One channel.                                                            *)

\* one - tot is when the latest pulse came; at CAL_SINGLE_TIME the mode is set
\* by the pulses so far.
Chan(r, c) ==
  /\ r.cnt = 0 => r.one = 0
  /\ r.tot <= r.one /\ r.tot < Overflow[c]
  /\ r.cnt <= 1 => r.tot = r.one
  /\ r.one - r.tot < Window[c]
  /\ r.one >= Single => (r.mode = 1 /\ r.cnt = 1) \/ (r.mode = 0 /\ r.cnt >= 2)
  /\ r.last.mode = 0 => r.last.cnt >= 3
  /\ r.last.one < Window[c] + Overflow[c] - 1

\* The measurement handed to the reader.
Kept(r, q) == r.last.cnt >= 3 => q.last.cnt >= 3

\* A channel that has not seen a pulse.
LEMMA FreshFacts ==
  ASSUME NEW c \in Channels
  PROVE  Fresh \in ChannelType /\ Chan(Fresh, c) /\ Fresh.one = 0
<1>1. Window[c] \in Nat /\ Overflow[c] \in Nat /\ Single < Window[c] /\ Single < Overflow[c]
  BY MeterAssumption
<1>2. QED BY <1>1, MeterAssumption DEF Fresh, ChannelType, LastType, Chan

\* A tick advances a measurement by one, or ends it.
LEMMA TickFacts ==
  ASSUME NEW c \in Channels, NEW r \in ChannelType, Chan(r, c)
  PROVE  LET q == TickOf(r, c)
         IN  q \in ChannelType /\ Chan(q, c) /\ Kept(r, q) /\ q.one <= r.one + 1
<1> DEFINE t == Ticked(r)
<1>1. Window[c] \in Nat /\ Overflow[c] \in Nat /\ Single < Window[c] /\ Single < Overflow[c]
      /\ Single \in Nat \ {0}
  BY MeterAssumption
<1>2. r.tot \in Nat /\ r.one \in Nat /\ r.cnt \in Nat /\ r.mode \in {0, 1}
      /\ r.ovf \in BOOLEAN /\ r.last \in LastType
  BY DEF ChannelType
<1>3. /\ t \in ChannelType /\ t.last = r.last /\ t.mode = r.mode /\ t.cnt = r.cnt
      /\ \/ r.cnt # 0 /\ t.one = r.one + 1 /\ t.tot = r.tot + 1
         \/ r.cnt = 0 /\ t.one = r.one /\ t.tot = r.tot
  <2>1. r.one + 1 \in Nat /\ r.tot + 1 \in Nat
    BY <1>2
  <2>2. CASE r.cnt # 0
    <3>1. t = [r EXCEPT !.one = r.one + 1, !.tot = r.tot + 1]
      BY <2>2 DEF Ticked
    <3> HIDE DEF t
    <3>2. QED BY <2>1, <2>2, <3>1 DEF ChannelType
  <2>3. CASE r.cnt = 0
    BY <1>2, <2>3 DEF Ticked
  <2>4. QED BY <2>2, <2>3
<1> HIDE DEF t
<1>4. CASE t.tot >= Overflow[c]
  <2>1. TickOf(r, c) = Overflown(t)
    BY <1>4 DEF TickOf, t
  <2>2. /\ Overflown(t) \in ChannelType
        /\ Overflown(t).one = 0 /\ Overflown(t).tot = 0 /\ Overflown(t).cnt = 0
        /\ Overflown(t).last.cnt = r.last.cnt /\ Overflown(t).last.mode = r.last.mode
        /\ Overflown(t).last.one = r.last.one
    BY <1>2, <1>3 DEF Overflown, ChannelType, LastType
  <2>3. QED BY <1>1, <1>2, <2>1, <2>2 DEF Chan, Kept
<1>5. CASE t.tot < Overflow[c] /\ t.one = Single
  <2>1. TickOf(r, c) = Judged(t)
    BY <1>1, <1>3, <1>5 DEF TickOf, t, ChannelType
  <2>2. /\ Judged(t) \in ChannelType /\ Judged(t).one = t.one /\ Judged(t).tot = t.tot
        /\ Judged(t).cnt = r.cnt /\ Judged(t).last = r.last
        /\ Judged(t).mode = IF r.cnt < 2 THEN 1 ELSE 0
    BY <1>2, <1>3 DEF Judged, ChannelType
  <2>3. QED BY <1>1, <1>2, <1>3, <1>5, <2>1, <2>2 DEF Chan, Kept
<1>6. CASE t.tot < Overflow[c] /\ t.one # Single
  <2>1. TickOf(r, c) = t
    BY <1>1, <1>3, <1>6 DEF TickOf, t, ChannelType
  <2>2. QED BY <1>1, <1>2, <1>3, <1>6, <2>1 DEF Chan, Kept
<1>7. t.tot \in Nat
  BY <1>3 DEF ChannelType
<1>8. QED BY <1>1, <1>4, <1>5, <1>6, <1>7

\* A pulse ends a measurement or is one more of it.
LEMMA PulseFacts ==
  ASSUME NEW c \in Channels, NEW r \in ChannelType, Chan(r, c)
  PROVE  LET q == PulseOf(r, c)
         IN  q \in ChannelType /\ Chan(q, c) /\ Kept(r, q) /\ q.one <= r.one
<1> DEFINE n == [r EXCEPT !.tot = 0, !.cnt = @ + 1]
           s == [n EXCEPT !.last = [@ EXCEPT !.one = r.one, !.mode = 1, !.ovf = FALSE]]
           w == [n EXCEPT !.last = [one |-> r.one, cnt |-> n.cnt, mode |-> 0, ovf |-> FALSE]]
<1>1. Window[c] \in Nat /\ Overflow[c] \in Nat /\ Single < Window[c] /\ Single < Overflow[c]
      /\ Single \in Nat \ {0}
  BY MeterAssumption
<1>2. r.tot \in Nat /\ r.one \in Nat /\ r.cnt \in Nat /\ r.mode \in {0, 1}
      /\ r.ovf \in BOOLEAN /\ r.last \in LastType
  BY DEF ChannelType
<1>3. /\ n \in ChannelType /\ n.one = r.one /\ n.tot = 0 /\ n.cnt = r.cnt + 1
      /\ n.mode = r.mode /\ n.last = r.last
  <2>1. r.cnt + 1 \in Nat
    BY <1>2
  <2>2. n = [r EXCEPT !.tot = 0, !.cnt = r.cnt + 1]
    OBVIOUS
  <2> HIDE DEF n
  <2>3. QED BY <2>1, <2>2 DEF ChannelType
<1>4. /\ s \in ChannelType /\ s.last.one = r.one /\ s.last.mode = 1
      /\ s.last.cnt = r.last.cnt
  BY <1>2, <1>3 DEF ChannelType, LastType
<1>5. /\ w \in ChannelType /\ w.last.one = r.one /\ w.last.mode = 0
      /\ w.last.cnt = r.cnt + 1
  BY <1>2, <1>3 DEF ChannelType, LastType
<1>6. ASSUME NEW x \in ChannelType
      PROVE  /\ Restarted(x) \in ChannelType /\ Restarted(x).last = x.last
             /\ Restarted(x).one = 0 /\ Restarted(x).tot = 0 /\ Restarted(x).cnt = 1
  BY DEF Restarted, ChannelType
<1>7. CASE r.ovf
  <2>1. PulseOf(r, c) = Restarted(n)
    BY <1>7 DEF PulseOf
  <2> HIDE DEF n, s, w
  <2>2. QED BY <1>1, <1>2, <1>3, <1>6, <2>1 DEF Chan, Kept
<1>8. CASE ~r.ovf /\ r.mode = 1 /\ r.one >= Single
  <2>1. PulseOf(r, c) = Restarted(s)
    BY <1>8 DEF PulseOf
  <2> HIDE DEF n, s, w
  <2>2. r.one < Window[c] + Overflow[c] - 1
    BY <1>1, <1>2, <1>8 DEF Chan
  <2>3. QED BY <1>1, <1>2, <1>4, <1>6, <2>1, <2>2 DEF Chan, Kept
<1>9. CASE ~r.ovf /\ r.mode = 0 /\ r.one >= Window[c]
  <2>1. PulseOf(r, c) = Restarted(w)
    BY <1>9 DEF PulseOf
  <2> HIDE DEF n, s, w
  <2>2. r.one < Window[c] + Overflow[c] - 1 /\ r.cnt + 1 >= 3
    BY <1>1, <1>2, <1>9 DEF Chan
  <2>3. QED BY <1>1, <1>2, <1>5, <1>6, <2>1, <2>2 DEF Chan, Kept
<1>10. CASE /\ ~r.ovf /\ ~(r.mode = 1 /\ r.one >= Single)
            /\ ~(r.mode = 0 /\ r.one >= Window[c])
  <2>1. PulseOf(r, c) = n
    BY <1>10 DEF PulseOf
  <2> HIDE DEF n, s, w
  <2>2. QED BY <1>1, <1>2, <1>3, <1>10, <2>1 DEF Chan, Kept
<1>11. QED BY <1>2, <1>7, <1>8, <1>9, <1>10

\* Switching the pin to a channel begins with nothing.
LEMMA SwitchFacts ==
  ASSUME NEW c \in Channels, NEW r \in ChannelType, Chan(r, c)
  PROVE  LET q == Switched(r)
         IN  q \in ChannelType /\ Chan(q, c) /\ Kept(r, q) /\ q.one = 0
<1>1. Window[c] \in Nat /\ Overflow[c] \in Nat /\ Single < Window[c] /\ Single < Overflow[c]
      /\ Single \in Nat \ {0}
  BY MeterAssumption
<1>2. /\ Switched(r) \in ChannelType /\ Switched(r).last = r.last
      /\ Switched(r).one = 0 /\ Switched(r).tot = 0 /\ Switched(r).cnt = 0
  BY DEF Switched, ChannelType
<1>3. QED BY <1>1, <1>2 DEF Chan, Kept
-----------------------------------------------------------------------------
(* All channels.                                                           *)

Chans == ch \in [Channels -> ChannelType] /\ \A c \in Channels : Chan(ch[c], c)

PhaseInv == vi \in {"v", "i"} /\ left \in 1 .. PhaseTime(vi) /\ PhaseOnly

\* Everybody else leaves the counters alone.
LEMMA OthersKeepChannels ==
  ASSUME Switch \/ ReadStart \/ Reader \/ FacTimer \/ App \/ AppClear \/ UNCHANGED vars
  PROVE  UNCHANGED <<ch, vi, left>>
BY DEF Switch, ReadStart, Reader, ReadLook, ReadTake, ReadEnergy, ClearEnergy, Deal,
       LoadEnergy, StoreEnergy, FacTimer, App, AppGet, CtrlOff, CtrlOn, AppClear,
       isrVars, vars

\* The tick works on the power channel and on the one the pin is switched to.
LEMMA TickStep ==
  ASSUME Chans, PhaseInv, Tick
  PROVE  Chans' /\ PhaseInv' /\ \A c \in Channels : Kept(ch[c], ch'[c])
<1> DEFINE t == [ch EXCEPT !["p"] = TickOf(@, "p"), ![vi] = TickOf(@, vi)]
           o == Other(vi)
<1>1. vi \in Channels /\ vi # "p" /\ o \in Channels /\ o # "p" /\ o # vi
      /\ vi \in {"v", "i"} /\ o \in {"v", "i"}
  BY DEF PhaseInv, Channels, Other
<1>2. \A c \in Channels : ch[c] \in ChannelType /\ Chan(ch[c], c)
  BY DEF Chans
<1>3. /\ t \in [Channels -> ChannelType] /\ t["p"] = TickOf(ch["p"], "p")
      /\ t[vi] = TickOf(ch[vi], vi) /\ t[o] = ch[o]
  <2>1. "p" \in Channels /\ TickOf(ch["p"], "p") \in ChannelType
        /\ TickOf(ch[vi], vi) \in ChannelType
    BY <1>1, <1>2, TickFacts DEF Channels
  <2>2. QED BY <1>1, <2>1 DEF Chans
<1>4. \A c \in Channels : c = "p" \/ c = vi \/ c = o
  BY <1>1 DEF Channels
<1> HIDE DEF t, o
<1>5. \A c \in Channels : Chan(t[c], c) /\ Kept(ch[c], t[c]) /\ t[c] \in ChannelType
  <2>1. TAKE c \in Channels
  <2>2. CASE c = o
    BY <1>2, <1>3, <2>2 DEF Kept
  <2>3. CASE c = "p" \/ c = vi
    BY <1>2, <1>3, <2>3, TickFacts
  <2>4. QED BY <1>4, <2>2, <2>3
<1>6. t[vi].one <= ch[vi].one + 1
  BY <1>1, <1>2, <1>3, TickFacts
<1>7. CASE left = 1
  <2>1. ch' = [t EXCEPT ![o] = Switched(t[o])] /\ vi' = o /\ left' = PhaseTime(o)
    BY <1>7 DEF Tick, t, o
  <2>2. /\ Switched(t[o]) \in ChannelType /\ Chan(Switched(t[o]), o)
        /\ Kept(t[o], Switched(t[o])) /\ Switched(t[o]).one = 0
    BY <1>1, <1>5, SwitchFacts
  <2>3. Chans'
    BY <1>1, <1>3, <1>5, <2>1, <2>2 DEF Chans
  <2>4. \A c \in Channels : Kept(ch[c], ch'[c])
    BY <1>1, <1>3, <1>5, <2>1, <2>2 DEF Kept
  <2>5. PhaseTime(o) \in Nat \ {0}
    BY <1>1, MeterAssumption DEF PhaseTime
  <2>6. ch'[vi'].one = 0 /\ left' = PhaseTime(vi)'
    BY <1>1, <1>3, <2>1, <2>2 DEF PhaseTime
  <2>7. PhaseInv'
    BY <1>1, <2>1, <2>5, <2>6 DEF PhaseInv, PhaseOnly, PhaseTime
  <2>8. QED BY <2>3, <2>4, <2>7
<1>8. CASE left # 1
  <2>1. ch' = t /\ vi' = vi /\ left' = left - 1
    BY <1>8 DEF Tick, t, o
  <2>2. PhaseInv'
    <3>1. PhaseTime(vi) \in Nat /\ PhaseTime(vi)' = PhaseTime(vi)
      BY <1>1, <2>1, MeterAssumption DEF PhaseTime
    <3>2. t[vi].one \in Nat /\ ch[vi].one \in Nat
      BY <1>1, <1>2, <1>5 DEF ChannelType
    <3>3. left \in 1 .. PhaseTime(vi) /\ ch[vi].one <= PhaseTime(vi) - left
      BY DEF PhaseInv, PhaseOnly
    <3>4. left' \in 1 .. PhaseTime(vi) /\ t[vi].one <= PhaseTime(vi) - left'
      BY <1>6, <1>8, <2>1, <3>1, <3>2, <3>3
    <3>5. QED BY <1>1, <2>1, <3>1, <3>4 DEF PhaseInv, PhaseOnly
  <2>3. QED BY <1>3, <1>5, <2>1, <2>2 DEF Chans
<1>9. QED BY <1>7, <1>8

\* A pulse works on one channel.
LEMMA PulseStep ==
  ASSUME Chans, PhaseInv, NEW c \in Channels,
         ch' = [ch EXCEPT ![c] = PulseOf(ch[c], c)], UNCHANGED <<vi, left>>
  PROVE  Chans' /\ PhaseInv' /\ \A k \in Channels : Kept(ch[k], ch'[k])
<1>1. ch[c] \in ChannelType /\ Chan(ch[c], c)
  BY DEF Chans
<1>2. /\ PulseOf(ch[c], c) \in ChannelType /\ Chan(PulseOf(ch[c], c), c)
      /\ Kept(ch[c], PulseOf(ch[c], c)) /\ PulseOf(ch[c], c).one <= ch[c].one
  BY <1>1, PulseFacts
<1>3. Chans' /\ \A k \in Channels : Kept(ch[k], ch'[k])
  BY <1>2 DEF Chans, Kept
<1>4. vi \in Channels
  BY DEF PhaseInv, Channels
<1>5. ch'[vi].one <= ch[vi].one
  <2>1. ch[vi].one \in Nat
    BY <1>4 DEF Chans, ChannelType
  <2>2. QED BY <1>2, <1>4, <2>1 DEF Chans
<1>6. ch[vi].one \in Nat /\ ch'[vi].one \in Nat
  BY <1>3, <1>4 DEF Chans, ChannelType
<1>7. PhaseTime(vi) \in Nat /\ PhaseTime(vi)' = PhaseTime(vi)
  BY MeterAssumption DEF PhaseTime, PhaseInv
<1>8. QED BY <1>3, <1>5, <1>6, <1>7 DEF PhaseInv, PhaseOnly

\* Every step keeps the channels sound, and only a new start takes a measurement
\* away from the reader.
LEMMA ChannelStep ==
  ASSUME Chans, PhaseInv, [Next]_vars
  PROVE  /\ Chans' /\ PhaseInv'
         /\ apc # "init" => \A c \in Channels : Kept(ch[c], ch'[c])
<1>1. CASE Tick
  BY <1>1, TickStep
<1>2. CASE PulseCF
  <2>1. "p" \in Channels /\ ch' = [ch EXCEPT !["p"] = PulseOf(ch["p"], "p")]
        /\ UNCHANGED <<vi, left>>
    BY <1>2 DEF PulseCF, Channels
  <2>2. QED BY <2>1, PulseStep
<1>3. CASE PulseCF1
  <2>1. vi \in Channels /\ ch' = [ch EXCEPT ![vi] = PulseOf(ch[vi], vi)]
        /\ UNCHANGED <<vi, left>>
    BY <1>3 DEF PulseCF1, Channels, PhaseInv
  <2>2. QED BY <2>1, PulseStep
<1>4. CASE RunParamsInit
  <2>1. ch' = [c \in Channels |-> Fresh] /\ vi' = "v" /\ left' = VTime /\ apc = "init"
    BY <1>4 DEF RunParamsInit
  <2>2. Chans'
    BY <2>1, FreshFacts DEF Chans
  <2>3. ch'["v"].one = 0
    BY <2>1, FreshFacts DEF Channels
  <2>4. QED BY <2>1, <2>2, <2>3, MeterAssumption DEF PhaseInv, PhaseOnly, PhaseTime
<1>5. CASE Switch \/ ReadStart \/ Reader \/ FacTimer \/ App \/ AppClear \/ UNCHANGED vars
  BY <1>5, OthersKeepChannels DEF Chans, PhaseInv, PhaseOnly, PhaseTime, Kept
<1>6. QED BY <1>1, <1>2, <1>3, <1>4, <1>5 DEF Next, AppContinues
-----------------------------------------------------------------------------
(* The type invariant.                                                     *)

\* What is left of TypeOK besides the channels and the phase.
RestType ==
  /\ active \in SUBSET Channels /\ testing \in BOOLEAN /\ load \in BOOLEAN
  /\ running \in BOOLEAN /\ finish \in BOOLEAN /\ sampled \in BOOLEAN
  /\ calc \in 0 .. CalTime + 1 /\ coe \in Nat
  /\ verdict \in {"none", "PASS", "FAIL"}
  /\ rpc \in {"idle", "look", "take", "skip", "energy", "clear", "deal", "load", "store"}
  /\ rch \in Channels /\ rmode \in {0, 1}
  /\ width \in [Channels -> {0, 1}] /\ value \in [Channels -> {0, 1}]
  /\ pvie \in [Channels -> {0, 1}]
  /\ apc \in {"idle", "clear", "init"}

\* The variables of the account.
SumType ==
  /\ pluse \in Nat /\ isrAdd \in Nat /\ eSample \in Nat /\ energyData \in Nat
  /\ pvieE \in Nat /\ acc \in Nat /\ got \in Nat /\ pulses \in Nat /\ delivered \in Nat

\* The account's variables are numbers.
LEMMA SumStep ==
  ASSUME SumType, [Next]_vars
  PROVE  SumType'
<1> USE DEF SumType
<1>1. CASE Tick \/ PulseCF1 \/ Switch \/ ReadStart \/ FacTimer \/ UNCHANGED vars
  BY <1>1 DEF Tick, PulseCF1, Switch, ReadStart, FacTimer, vars, isrVars, readerVars,
              appVars
<1>2. CASE PulseCF
  BY <1>2 DEF PulseCF, readerVars, appVars
<1>3. CASE ReadLook \/ ReadTake \/ ReadEnergy \/ ClearEnergy
  BY <1>3 DEF ReadLook, ReadTake, ReadEnergy, ClearEnergy, isrVars, appVars
<1>4. CASE Deal
  BY <1>4 DEF Deal, Plausible, isrVars, appVars
<1>5. CASE LoadEnergy \/ StoreEnergy
  BY <1>5 DEF LoadEnergy, StoreEnergy, EnergyAfterStore, isrVars, appVars
<1>6. CASE App
  BY <1>6 DEF App, AppGet, CtrlOff, CtrlOn, isrVars, readerVars, appVars
<1>7. CASE AppContinues
  BY <1>7 DEF AppContinues, AppClear, RunParamsInit, isrVars, readerVars
<1>8. QED BY <1>1, <1>2, <1>3, <1>4, <1>5, <1>6, <1>7 DEF Next, Reader

\* The rest keeps its type.
LEMMA RestStep ==
  ASSUME RestType, SumType, PhaseInv, Chans, [Next]_vars
  PROVE  RestType'
<1>1. CASE Tick
  <2>1. calc' \in 0 .. CalTime + 1
    BY <1>1, MeterAssumption DEF Tick, RestType
  <2>2. coe' \in Nat
    BY <1>1 DEF Tick, RestType, SumType
  <2>3. sampled' \in BOOLEAN
    BY <1>1 DEF Tick, RestType
  <2>4. finish' \in BOOLEAN
    BY <1>1 DEF Tick, RestType, FinishAt
  <2>5. UNCHANGED <<active, testing, load, running, verdict, rpc, rch, rmode, width,
                    value, pvie, apc>>
    BY <1>1 DEF Tick, chipVars, readerVars, appVars
  <2>6. QED BY <2>1, <2>2, <2>3, <2>4, <2>5 DEF RestType
<1>2. CASE PulseCF \/ PulseCF1
  BY <1>2 DEF RestType, PulseCF, PulseCF1, chipVars, readerVars, appVars
<1>3. CASE Switch
  <2>1. load' \in BOOLEAN
    BY <1>3 DEF Switch
  <2>2. QED BY <1>3, <2>1 DEF RestType, Switch, isrVars, readerVars, appVars
<1>4. CASE ReadStart
  BY <1>4 DEF RestType, ReadStart, Channels, chipVars, isrVars, appVars
<1>5. CASE ReadLook
  <2>1. ch[rch].last.mode \in {0, 1}
    BY DEF Chans, ChannelType, LastType, RestType
  <2>2. rmode' \in {0, 1} /\ rpc' \in {"take", "skip"}
    BY <1>5, <2>1 DEF ReadLook
  <2>3. QED BY <1>5, <2>2 DEF RestType, ReadLook, chipVars, isrVars, appVars
<1>6. CASE ReadTake
  <2>1. width' \in [Channels -> {0, 1}]
    BY <1>6 DEF ReadTake, RestType
  <2>2. rch' \in Channels /\ rmode' \in {0, 1} /\ rpc' \in {"energy", "look"}
    BY <1>6 DEF ReadTake, RestType, NextStage, Channels
  <2>3. QED BY <1>6, <2>1, <2>2 DEF RestType, ReadTake, chipVars, isrVars, appVars
<1>7. CASE ReadEnergy \/ ClearEnergy
  BY <1>7 DEF RestType, ReadEnergy, ClearEnergy, chipVars, isrVars, appVars
<1>8. CASE Deal
  <2>1. value' \in [Channels -> {0, 1}]
    <3>1. PICK small \in BOOLEAN :
            LET p == IF small THEN 0 ELSE width["p"]
            IN  value' = IF testing THEN value
                         ELSE [p |-> p, v |-> width["v"], i |-> IF p = 0 THEN 0 ELSE width["i"]]
      BY <1>8 DEF Deal
    <3>2. ASSUME NEW a \in {0, 1}, NEW b \in {0, 1}, NEW d \in {0, 1}
          PROVE  [p |-> a, v |-> b, i |-> d] \in [Channels -> {0, 1}]
      BY DEF Channels
    <3>3. width["p"] \in {0, 1} /\ width["v"] \in {0, 1} /\ width["i"] \in {0, 1}
      BY DEF RestType, Channels
    <3>4. (IF small THEN 0 ELSE width["p"]) \in {0, 1}
      BY <3>3
    <3>5. (IF (IF small THEN 0 ELSE width["p"]) = 0 THEN 0 ELSE width["i"]) \in {0, 1}
      BY <3>3
    <3>6. QED BY <3>1, <3>2, <3>3, <3>4, <3>5 DEF RestType
  <2>2. QED BY <1>8, <2>1 DEF RestType, Deal, chipVars, isrVars, appVars
<1>9. CASE LoadEnergy \/ StoreEnergy
  BY <1>9 DEF RestType, LoadEnergy, StoreEnergy, chipVars, isrVars, appVars
<1>10. CASE FacTimer
  BY <1>10 DEF RestType, FacTimer, chipVars, isrVars, readerVars, appVars
<1>11. CASE App
  <2>1. running' \in BOOLEAN
    BY <1>11 DEF App, AppGet, CtrlOff, CtrlOn, RestType
  <2>2. QED BY <1>11, <2>1 DEF RestType, App, AppGet, CtrlOff, CtrlOn, chipVars, isrVars,
                               readerVars, appVars
<1>12. CASE AppClear
  BY <1>12 DEF RestType, AppClear, chipVars, isrVars, readerVars
<1>13. CASE RunParamsInit
  <2>1. finish' \in BOOLEAN
    BY <1>13 DEF RunParamsInit
  <2>2. width' \in [Channels -> {0, 1}]
    BY <1>13 DEF RunParamsInit
  <2>3. calc' \in 0 .. CalTime + 1
    BY <1>13, MeterAssumption DEF RunParamsInit
  <2>4. QED BY <1>13, <2>1, <2>2, <2>3 DEF RestType, RunParamsInit, chipVars
<1>14. CASE UNCHANGED vars
  BY <1>14 DEF RestType, vars
<1>15. QED BY <1>1, <1>2, <1>3, <1>4, <1>5, <1>6, <1>7, <1>8, <1>9, <1>10, <1>11, <1>12,
              <1>13, <1>14 DEF Next, Reader, AppContinues
-----------------------------------------------------------------------------
(* The reader and an application on the timer's thread.                    *)

\* One of the two runs at a time, and a window that was checked stays one of
\* three pulses or more until it is used.
ReaderInv ==
  AppThread = "timer" =>
    /\ rpc = "idle" \/ apc = "idle"
    /\ rpc = "take" /\ rmode = 0 => ch[rch].last.cnt >= 3

\* Where energy is and is not while it is passed on.
AccountInv ==
  AppThread = "timer" =>
    /\ rpc \notin {"clear", "deal"} => eSample = 0
    /\ rpc = "clear" => eSample <= isrAdd
    /\ rpc \notin {"load", "store"} => energyData = 0
    /\ rpc = "store" => acc = pvieE
    /\ apc = "clear" => got = pvieE

\* No interrupt and no step of the reader takes the window away.
LEMMA ReaderStep ==
  ASSUME RestType, Chans, PhaseInv, ReaderInv, [Next]_vars
  PROVE  ReaderInv'
<1> SUFFICES ASSUME AppThread = "timer" PROVE ReaderInv'
  BY DEF ReaderInv
<1>1. apc # "init" => \A c \in Channels : Kept(ch[c], ch'[c])
  BY ChannelStep
<1>2. ASSUME UNCHANGED <<rpc, apc, rch, rmode>> PROVE ReaderInv'
  BY <1>1, <1>2 DEF ReaderInv, Kept, RestType
<1>3. CASE Tick \/ PulseCF \/ PulseCF1 \/ Switch \/ FacTimer \/ UNCHANGED vars
  BY <1>2, <1>3 DEF Tick, PulseCF, PulseCF1, Switch, FacTimer, vars, readerVars, appVars
<1>4. CASE ReadLook
  <2>1. rpc' = "take" /\ rmode' = 0 => ch[rch].last.cnt >= 3
    BY <1>4 DEF ReadLook, Chans, Chan, RestType
  <2>2. rpc = "look" /\ UNCHANGED <<ch, rch, apc>>
    BY <1>4 DEF ReadLook, isrVars, appVars
  <2>3. QED BY <2>1, <2>2 DEF ReaderInv
<1>5. CASE ReadStart
  BY <1>5 DEF ReaderInv, ReadStart, AppIdle, appVars
<1>6. CASE ReadTake
  BY <1>6 DEF ReaderInv, ReadTake, appVars
<1>7. CASE ReadEnergy \/ ClearEnergy \/ Deal \/ LoadEnergy \/ StoreEnergy
  BY <1>7 DEF ReaderInv, ReadEnergy, ClearEnergy, Deal, LoadEnergy, StoreEnergy, appVars
<1>8. CASE App
  BY <1>8 DEF ReaderInv, App, AppGet, CtrlOff, CtrlOn, AppMayCall, appVars, readerVars
<1>9. CASE AppContinues
  BY <1>9 DEF ReaderInv, AppContinues, AppClear, RunParamsInit, readerVars
<1>10. QED BY <1>3, <1>4, <1>5, <1>6, <1>7, <1>8, <1>9 DEF Next, Reader

\* How a step changes what is held, and where it may be lost.
HeldChange ==
  \/ Held' = Held /\ UNCHANGED <<isrAdd, pluse, pulses>>
  \/ Held' = Held /\ isrAdd' = isrAdd /\ pluse' = pluse + 1 /\ pulses' = pulses + 1
  \/ /\ Held' = Held + 1 /\ pulses' = pulses + 1 /\ pluse' = 0
     /\ ~testing /\ pluse + 1 = coe
  \/ /\ Held' <= Held /\ pulses' = pulses /\ (pluse' = pluse \/ pluse' = 0)
     /\ \/ Held' = Held
        \/ rpc = "clear" /\ isrAdd > eSample
        \/ rpc = "deal" /\ eSample > Abnormal
        \/ apc = "init"

\* Energy stays on its way, or is lost where it is known to be.
LEMMA AccountStep ==
  ASSUME AppThread = "timer", RestType, SumType, ReaderInv, AccountInv, [Next]_vars
  PROVE  AccountInv' /\ HeldChange
<1> USE DEF AccountInv, HeldChange, Held, SumType
<1>1. CASE Tick \/ PulseCF1 \/ Switch \/ FacTimer \/ UNCHANGED vars
  BY <1>1 DEF Tick, PulseCF1, Switch, FacTimer, vars, isrVars, readerVars, appVars
<1>2. CASE PulseCF
  <2>1. UNCHANGED <<rpc, apc, eSample, energyData, pvieE, acc, got, delivered>>
    BY <1>2 DEF PulseCF, readerVars, appVars
  <2>2. \/ isrAdd' = isrAdd /\ pluse' = pluse + 1 /\ pulses' = pulses + 1
        \/ /\ isrAdd' = isrAdd + 1 /\ pluse' = 0 /\ pulses' = pulses + 1
           /\ ~testing /\ pluse + 1 = coe
    BY <1>2 DEF PulseCF
  <2>3. QED BY <2>1, <2>2
<1>3. CASE ReadStart
  BY <1>3 DEF ReadStart, isrVars, appVars
<1>4. CASE ReadLook \/ ReadTake
  BY <1>4 DEF ReadLook, ReadTake, isrVars, appVars
<1>5. CASE ReadEnergy
  BY <1>5 DEF ReadEnergy, isrVars, appVars
<1>6. CASE ClearEnergy
  BY <1>6 DEF ClearEnergy, appVars
<1>7. CASE Deal
  BY <1>7, MeterAssumption DEF Deal, Plausible, isrVars, appVars
<1>8. CASE LoadEnergy
  BY <1>8 DEF LoadEnergy, isrVars, appVars
<1>9. CASE StoreEnergy
  BY <1>9 DEF StoreEnergy, EnergyAfterStore, isrVars, appVars, ReaderInv
<1>10. CASE App
  BY <1>10 DEF App, AppGet, CtrlOff, CtrlOn, AppMayCall, isrVars, readerVars, appVars
<1>11. CASE AppClear
  BY <1>11 DEF AppClear, ReaderInv, isrVars, readerVars
<1>12. CASE RunParamsInit
  BY <1>12 DEF RunParamsInit, ReaderInv
<1>13. QED BY <1>1, <1>2, <1>3, <1>4, <1>5, <1>6, <1>7, <1>8, <1>9, <1>10, <1>11, <1>12
           DEF Next, Reader, AppContinues
-----------------------------------------------------------------------------
(* The bill.                                                               *)

BillInv == AppThread = "timer" /\ ~testing => coe = Coe /\ Coe * Held + pluse <= pulses

\* Multiples of a number.
LEMMA Multiples ==
  ASSUME NEW k \in Nat, NEW a \in Nat, NEW b \in Nat
  PROVE  /\ k * a \in Nat /\ k * (a + 1) = k * a + k
         /\ b <= a => k * b <= k * a
<1>1. k * a \in Nat /\ k * (a + 1) = k * a + k
  OBVIOUS
<1>2. ASSUME b <= a PROVE k * b <= k * a
  <2>1. a - b \in Nat /\ a = b + (a - b)
    BY <1>2
  <2>2. k * a = k * b + k * (a - b)
    BY <2>1
  <2>3. k * (a - b) \in Nat /\ k * b \in Nat
    BY <2>1
  <2>4. QED BY <1>1, <2>2, <2>3
<1>3. QED BY <1>1, <1>2

\* The constants of normal operation stay, and no step bills what was not consumed.
LEMMA BillStep ==
  ASSUME RestType, SumType, ReaderInv, AccountInv, BillInv, [Next]_vars
  PROVE  BillInv'
<1>1. testing' = testing
  BY DEF Next, Tick, PulseCF, PulseCF1, Switch, ReadStart, Reader, ReadLook, ReadTake,
         ReadEnergy, ClearEnergy, Deal, LoadEnergy, StoreEnergy, FacTimer, App, AppGet,
         CtrlOff, CtrlOn, AppContinues, AppClear, RunParamsInit, chipVars, vars
<1> SUFFICES ASSUME AppThread = "timer", ~testing
             PROVE  coe' = Coe /\ Coe * Held' + pluse' <= pulses'
  BY <1>1 DEF BillInv
<1>2. coe' = coe
  BY DEF Next, Tick, PulseCF, PulseCF1, Switch, ReadStart, Reader, ReadLook, ReadTake,
         ReadEnergy, ClearEnergy, Deal, LoadEnergy, StoreEnergy, FacTimer, App, AppGet,
         CtrlOff, CtrlOn, AppContinues, AppClear, RunParamsInit, isrVars, vars
<1>3. coe = Coe /\ Coe * Held + pluse <= pulses
  BY DEF BillInv
<1>4. Held \in Nat /\ Held' \in Nat
  <2>1. SumType'
    BY SumStep
  <2>2. Held \in Nat
    BY DEF SumType, Held
  <2>3. Held' \in Nat
    <3>1. (IF rpc' = "clear" THEN 0 ELSE eSample') \in Nat
      BY <2>1 DEF SumType
    <3>2. isrAdd' \in Nat /\ energyData' \in Nat /\ pvieE' \in Nat /\ delivered' \in Nat
      BY <2>1 DEF SumType
    <3>3. ASSUME NEW a \in Nat, NEW b \in Nat, NEW d \in Nat, NEW f \in Nat, NEW g \in Nat
          PROVE  a + b + d + f + g \in Nat
      OBVIOUS
    <3>4. QED BY <3>1, <3>2, <3>3, Zenon DEF Held
  <2>4. QED BY <2>2, <2>3
<1>5. HeldChange
  BY AccountStep
<1>6. Coe \in Nat
  BY MeterAssumption
<1> DEFINE h == Held
           g == Held'
<1>7. /\ Coe * h \in Nat /\ Coe * g \in Nat /\ Coe * (h + 1) = Coe * h + Coe
      /\ g <= h => Coe * g <= Coe * h
  BY <1>4, <1>6, Multiples
<1>8. /\ h \in Nat /\ g \in Nat /\ pluse \in Nat /\ pulses \in Nat
      /\ Coe * h + pluse <= pulses
  BY <1>3, <1>4 DEF SumType
<1>9. \/ g = h /\ pluse' = pluse /\ pulses' = pulses
      \/ g = h /\ pluse' = pluse + 1 /\ pulses' = pulses + 1
      \/ g = h + 1 /\ pulses' = pulses + 1 /\ pluse' = 0 /\ pluse + 1 = Coe
      \/ g <= h /\ pulses' = pulses /\ (pluse' = pluse \/ pluse' = 0)
  BY <1>3, <1>5 DEF HeldChange
<1> HIDE DEF h, g
<1>10. Coe * g + pluse' <= pulses'
  <2> DEFINE x == Coe * h
             y == Coe * g
  <2>1. x \in Nat /\ y \in Nat /\ (g <= h => y <= x) /\ x + pluse <= pulses
    BY <1>7, <1>8
  <2>2. g = h => y = x
    OBVIOUS
  <2>3. g = h + 1 => y = x + Coe
    BY <1>7
  <2> HIDE DEF x, y
  <2>4. y + pluse' <= pulses'
    BY <1>6, <1>8, <1>9, <2>1, <2>2, <2>3
  <2>5. QED BY <2>4 DEF y
<1>11. QED BY <1>2, <1>3, <1>10 DEF g
-----------------------------------------------------------------------------
(* The theorems.                                                           *)

MeterInv ==
  Chans /\ PhaseInv /\ RestType /\ SumType /\ ReaderInv /\ AccountInv /\ BillInv

\* Metering begins with all of it.
LEMMA MeterInit ==
  ASSUME Init
  PROVE  MeterInv
<1>1. PICK s \in Setups : active = s[1] /\ testing = s[2]
  BY DEF Init
<1>2. active \in SUBSET Channels
  BY <1>1, MeterAssumption
<1>3. testing \in BOOLEAN
  BY <1>1, MeterAssumption
<1>4. Chans
  BY FreshFacts DEF Init, Chans
<1>5. PhaseInv
  <2>1. ch["v"].one = 0
    BY FreshFacts DEF Init, Channels
  <2>2. QED BY <2>1, MeterAssumption DEF Init, PhaseInv, PhaseOnly, PhaseTime
<1>6. load \in BOOLEAN /\ running \in BOOLEAN /\ finish \in BOOLEAN /\ sampled \in BOOLEAN
  BY DEF Init
<1>7. /\ width \in [Channels -> {0, 1}] /\ value \in [Channels -> {0, 1}]
      /\ pvie \in [Channels -> {0, 1}]
  BY DEF Init
<1>8. coe \in Nat /\ calc \in 0 .. CalTime + 1
  BY <1>3, MeterAssumption DEF Init
<1>9. RestType
  BY <1>2, <1>3, <1>6, <1>7, <1>8 DEF Init, RestType, Channels
<1>10. SumType
  BY DEF Init, SumType
<1>11. ReaderInv /\ AccountInv
  BY DEF Init, ReaderInv, AccountInv
<1>12. BillInv
  <2>1. Held = 0 /\ Coe * 0 = 0
    BY MeterAssumption DEF Init, Held
  <2>2. QED BY <1>3, <2>1 DEF Init, BillInv
<1>13. QED BY <1>4, <1>5, <1>9, <1>10, <1>11, <1>12 DEF MeterInv

\* Every step keeps it.
LEMMA MeterStep ==
  ASSUME MeterInv, [Next]_vars
  PROVE  MeterInv'
<1> USE DEF MeterInv
<1>1. Chans' /\ PhaseInv'
  BY ChannelStep
<1>2. RestType' /\ SumType'
  BY RestStep, SumStep
<1>3. ReaderInv'
  BY ReaderStep
<1>4. AccountInv'
  <2>1. CASE AppThread = "timer"
    BY <2>1, AccountStep
  <2>2. CASE AppThread # "timer"
    BY <2>2 DEF AccountInv
  <2>3. QED BY <2>1, <2>2
<1>5. BillInv'
  BY BillStep
<1>6. QED BY <1>1, <1>2, <1>3, <1>4, <1>5

\* The inductive invariant holds always.
LEMMA MeterAlways == Spec => []MeterInv
<1>1. Init => MeterInv
  BY MeterInit
<1>2. MeterInv /\ [Next]_vars => MeterInv'
  BY MeterStep
<1>3. QED BY <1>1, <1>2, PTL DEF Spec

\* Every variable of the driver and of the application keeps its type.
THEOREM TypeCorrect == Spec => []TypeOK
<1>1. MeterInv => TypeOK
  BY DEF MeterInv, TypeOK, Chans, PhaseInv, RestType, SumType
<1>2. QED BY <1>1, MeterAlways, PTL

\* __hw_timer_cb judges the mode so that a single-period measurement spans one
\* period, whatever the windows and however pulses and ticks interleave.
THEOREM SinglePeriodMeasured == Spec => []OnePeriod
<1>1. MeterInv => OnePeriod
  <2> SUFFICES ASSUME MeterInv, NEW c \in Channels, ch[c].mode = 1, ch[c].one >= Single
               PROVE  ch[c].cnt = 1 /\ ch[c].tot = ch[c].one
    BY DEF OnePeriod
  <2>1. Chan(ch[c], c) /\ ch[c] \in ChannelType
    BY DEF MeterInv, Chans
  <2>2. QED BY <2>1 DEF Chan, ChannelType
<1>2. QED BY <1>1, MeterAlways, PTL

\* The tick counters stay below window and overflow time together, for the channel
\* being measured and for the measurement handed out.
THEOREM CountersBounded == Spec => []NoWrap
<1>1. MeterInv => NoWrap
  <2> SUFFICES ASSUME MeterInv, NEW c \in Channels
               PROVE  /\ ch[c].one < Window[c] + Overflow[c] - 1
                      /\ ch[c].last.one < Window[c] + Overflow[c] - 1
    BY DEF NoWrap
  <2>1. Chan(ch[c], c) /\ ch[c] \in ChannelType
    BY DEF MeterInv, Chans
  <2>2. ch[c].one \in Nat /\ ch[c].tot \in Nat /\ Window[c] \in Nat /\ Overflow[c] \in Nat
    BY <2>1, MeterAssumption DEF ChannelType
  <2>3. QED BY <2>1, <2>2 DEF Chan
<1>2. QED BY <1>1, MeterAlways, PTL

\* No measurement on the shared pin reaches back before the pin was switched.
THEOREM MeasuredInPhase == Spec => []PhaseOnly
<1>1. MeterInv => PhaseOnly
  BY DEF MeterInv, PhaseInv
<1>2. QED BY <1>1, MeterAlways, PTL

\* A window whose pulses were checked is still one of two periods or more when the
\* reader divides by them.
THEOREM DivisorSound == Spec => []AveragesSeveral
<1>1. MeterInv => AveragesSeveral
  <2> SUFFICES ASSUME MeterInv, AppThread = "timer", rpc = "take", rmode = 0
               PROVE  Divisor >= 2
    BY DEF AveragesSeveral
  <2>1. ch[rch].last.cnt >= 3
    BY DEF MeterInv, ReaderInv
  <2>2. ch[rch].last.cnt \in Nat
    BY DEF MeterInv, Chans, RestType, ChannelType, LastType
  <2>3. QED BY <2>1, <2>2 DEF Divisor
<1>2. QED BY <1>1, MeterAlways, PTL

\* With an application on the timer's thread nothing is billed that was not consumed.
THEOREM BillNeverTooHigh == Spec => []NeverOverbilled
<1>1. MeterInv => NeverOverbilled
  BY DEF MeterInv, BillInv, NeverOverbilled
<1>2. QED BY <1>1, MeterAlways, PTL

\* Energy on its way to the application is lost by the named steps only.
THEOREM LossesNamed == Spec => LossIsKnown
<1>1. MeterInv /\ [Next]_vars =>
        [AppThread = "timer" =>
           \/ Held' >= Held
           \/ rpc = "clear" /\ isrAdd > eSample
           \/ rpc = "deal" /\ eSample > Abnormal
           \/ apc = "init"]_vars
  <2> SUFFICES ASSUME MeterInv, [Next]_vars, AppThread = "timer"
               PROVE  \/ Held' >= Held
                      \/ rpc = "clear" /\ isrAdd > eSample
                      \/ rpc = "deal" /\ eSample > Abnormal
                      \/ apc = "init"
    OBVIOUS
  <2>1. HeldChange
    BY AccountStep DEF MeterInv
  <2>2. Held \in Nat
    BY DEF MeterInv, SumType, Held
  <2>3. QED BY <2>1, <2>2 DEF HeldChange
<1>2. QED BY <1>1, MeterAlways, PTL DEF Spec, LossIsKnown
=============================================================================
