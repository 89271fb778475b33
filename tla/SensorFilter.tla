---------------------------- MODULE SensorFilter ----------------------------
(***************************************************************************)
(* The filter arithmetic of tdl_sensor_hub.c: the three judgement macros   *)
(* and __tdl_sensor_is_need_filter.                                        *)
(*                                                                         *)
(* An INT_T value and bound are signed, the step of an integer rule is a   *)
(* UINT_T, so C evaluates the step comparison of integers in unsigned      *)
(* arithmetic modulo the word size: values are converted and sums wrap.    *)
(* The macros are used with FLOAT_T operands too; those comparisons have   *)
(* no conversion and are modelled over the integers without a wrap.        *)
(***************************************************************************)
EXTENDS Integers

CONSTANT HalfWord   \* 2^31 in the build: INT_T is -HalfWord .. HalfWord - 1

ASSUME HalfWordAssumption == HalfWord \in Nat \ {0}

WordSize == 2 * HalfWord
IntT  == -HalfWord .. HalfWord - 1
UintT == 0 .. WordSize - 1

\* C's conversion of an INT_T to UINT_T and the two wrapping operations.
ToUint(v)     == IF v < 0 THEN v + WordSize ELSE v
UintAdd(a, b) == IF a + b >= WordSize THEN a + b - WordSize ELSE a + b
UintSub(a, b) == IF a < b THEN a - b + WordSize ELSE a - b

VAL_TP == {"INT", "FLOAT"}

\* A filter rule (SR_FILTETR_U): range bounds and step of change.
FilterRule == [max : IntT, min : IntT, step : UintT]

-----------------------------------------------------------------------------
\* Plausible slips in the macros, used to show that the properties notice them.
InStepWrongSide(v1, v2, step, tp) ==
  IF tp = "INT" THEN /\ ToUint(v1) <= UintAdd(ToUint(v2), step)
                     /\ ToUint(v1) >= UintSub(ToUint(v2), step)
                ELSE v1 <= v2 + step /\ v1 >= v2 - step
-----------------------------------------------------------------------------

\* The code tests min twice and never max: a range that starts at 0 is taken
\* for "no range".
SR_IS_RANG_ERR(max, min) == max <= min /\ (min # 0 \/ min # 0)

SR_IS_VAL_OVER_RANG(val, max, min) ==
  (val > max \/ val < min) /\ (min # 0 \/ min # 0)

SR_IS_VAL_DIFF_IN_STEP(v1, v2, step, tp) ==
  IF tp = "INT" THEN /\ ToUint(v1) < UintAdd(ToUint(v2), step)
                     /\ ToUint(v1) > UintSub(ToUint(v2), step)
                ELSE v1 < v2 + step /\ v1 > v2 - step

\* __tdl_sensor_is_need_filter: TRUE when the sample is to be dropped.
NeedFilter(cur, prv, rule, tp) ==
  \/ SR_IS_VAL_OVER_RANG(cur, rule.max, rule.min)
  \/ SR_IS_VAL_DIFF_IN_STEP(cur, prv, rule.step, tp)
=============================================================================
