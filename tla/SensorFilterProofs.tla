------------------------- MODULE SensorFilterProofs -------------------------
(***************************************************************************)
(* The step test of the sensor filter for a word of any size: what the     *)
(* unsigned arithmetic of an integer rule makes of values and steps that   *)
(* no sum carries out of the signed range.                                 *)
(***************************************************************************)
EXTENDS MCSensorFilter, TLAPS

\* A rule whose lower bound is 0 counts as one without a range: the range test lets every
\* value through.
LEMMA NoRangeNoDrop ==
  ASSUME NEW v, NEW max
  PROVE  ~SR_IS_VAL_OVER_RANG(v, max, 0)
BY DEF SR_IS_VAL_OVER_RANG

\* A value that moved by the step or more is outside the window, wherever the unsigned
\* sums put its ends.
LEMMA FarIsOutside ==
  ASSUME NEW cur \in IntT, NEW prv \in IntT, NEW step \in UintT, NEW tp \in VAL_TP,
         -HalfWord <= 2 * prv, 2 * prv < HalfWord, -HalfWord <= 2 * cur, 2 * cur < HalfWord,
         cur >= prv + step \/ cur <= prv - step
  PROVE  ~SR_IS_VAL_DIFF_IN_STEP(cur, prv, step, tp)
<1>1. HalfWord \in Nat /\ HalfWord > 0 /\ cur \in Int /\ prv \in Int /\ step \in Nat
      /\ step < 2 * HalfWord
  BY HalfWordAssumption DEF IntT, UintT, WordSize
<1>2. CASE tp # "INT"
  BY <1>1, <1>2 DEF SR_IS_VAL_DIFF_IN_STEP
<1>3. CASE tp = "INT"
  BY <1>1, <1>3 DEF SR_IS_VAL_DIFF_IN_STEP, ToUint, UintAdd, UintSub, WordSize
<1> QED
  BY <1>2, <1>3

\* Where the window does not reach below zero it is the interval it is meant to be.
LEMMA NearIsInside ==
  ASSUME NEW cur \in IntT, NEW prv \in IntT, NEW step \in UintT, NEW tp \in VAL_TP,
         2 * prv < HalfWord, prv >= step, prv - step < cur, cur < prv + step
  PROVE  SR_IS_VAL_DIFF_IN_STEP(cur, prv, step, tp)
<1>1. HalfWord \in Nat /\ HalfWord > 0 /\ cur \in Int /\ prv \in Int /\ step \in Nat
      /\ step < 2 * HalfWord
  BY HalfWordAssumption DEF IntT, UintT, WordSize
<1>2. CASE tp # "INT"
  BY <1>1, <1>2 DEF SR_IS_VAL_DIFF_IN_STEP
<1>3. CASE tp = "INT"
  BY <1>1, <1>3 DEF SR_IS_VAL_DIFF_IN_STEP, ToUint, UintAdd, UintSub, WordSize
<1> QED
  BY <1>2, <1>3

\* The stream of calls keeps the types of their arguments.
LEMMA CallsStep == call \in Calls /\ [Next]_call => (call \in Calls)'
<1> SUFFICES ASSUME call \in Calls, Next PROVE call' \in Calls
  OBVIOUS
<1>1. 0 \in IntT
  BY HalfWordAssumption DEF IntT
<1>2. PICK v \in IntT, p \in IntT : call' = [call EXCEPT !.prv = p, !.cur = v]
  BY <1>1 DEF Next, Sample, Reported, Calls
<1> QED
  BY <1>2 DEF Calls

\* For a word of any size, along any stream of samples and reports: the unsigned wrap of
\* SR_IS_VAL_DIFF_IN_STEP errs on one side only.  It never drops a value that moved by
\* the step or more, and it drops all that moved by less where the window stays above 0.
THEOREM StepTestRight == Spec => []StepTestSound
<1>1. Init => call \in Calls
  BY DEF Init
<1>2. call \in Calls => StepTestSound
  <2> SUFFICES ASSUME call \in Calls PROVE StepTestSound
    OBVIOUS
  <2>1. PICK cur \in IntT, prv \in IntT, rule \in FilterRule, tp \in VAL_TP :
          cur = call.cur /\ prv = call.prv /\ rule = call.rule /\ tp = call.tp
    BY DEF Calls
  <2>2. PICK step \in UintT, max \in IntT, min \in IntT :
          step = rule.step /\ max = rule.max /\ min = rule.min
    BY DEF FilterRule
  <2>3. /\ HalfWord \in Nat /\ cur \in Int /\ prv \in Int /\ step \in Int
        /\ Distance = IF cur > prv THEN cur - prv ELSE prv - cur
    BY <2>1, HalfWordAssumption DEF Distance, IntT, UintT, WordSize
  <2>4. min = 0 => (Drops <=> SR_IS_VAL_DIFF_IN_STEP(cur, prv, step, tp))
    BY <2>1, <2>2, NoRangeNoDrop DEF Drops, NeedFilter
  <2>5. ASSUME Moderate, min = 0, Distance >= step PROVE ~Drops
    <3>1. cur >= prv + step \/ cur <= prv - step
      BY <2>3, <2>5
    <3> QED
      BY <2>1, <2>4, <2>5, <3>1, FarIsOutside DEF Moderate
  <2>6. ASSUME Moderate, min = 0, prv >= step, Distance < step PROVE Drops
    <3>1. prv - step < cur /\ cur < prv + step
      BY <2>3, <2>6
    <3> QED
      BY <2>1, <2>4, <2>6, <3>1, NearIsInside DEF Moderate
  <2> QED
    BY <2>1, <2>2, <2>3, <2>5, <2>6 DEF StepTestSound
<1> QED
  BY <1>1, <1>2, CallsStep, PTL DEF Spec
=============================================================================
