--------------------------- MODULE MCSensorFilter ---------------------------
(***************************************************************************)
(* A stream of samples of one element judged on a small word: a state is a *)
(* call of __tdl_sensor_is_need_filter under a rule that the configuration *)
(* check let through; a sample that is kept becomes the previous value,    *)
(* and a report empties the buffer, which makes the previous value 0.      *)
(***************************************************************************)
EXTENDS SensorFilter

VARIABLE call   \* the arguments of the call

Calls == [cur : IntT, prv : IntT, rule : FilterRule, tp : VAL_TP]

Drops == NeedFilter(call.cur, call.prv, call.rule, call.tp)

Init == call \in {c \in Calls : c.prv = 0 /\ ~SR_IS_RANG_ERR(c.rule.max, c.rule.min)}

\* The next sample is read: the judged one was dropped or is the new previous.
Sample == \E v \in IntT :
  call' = [call EXCEPT !.prv = IF Drops THEN @ ELSE call.cur, !.cur = v]

\* The chunk was complete and reported.
Reported == ~Drops /\ \E v \in IntT : call' = [call EXCEPT !.prv = 0, !.cur = v]

Next == Sample \/ Reported

Spec == Init /\ [][Next]_call

Distance == IF call.cur > call.prv THEN call.cur - call.prv ELSE call.prv - call.cur

\* Values and steps small enough that no sum leaves the signed range.
Moderate == /\ -HalfWord <= 2 * call.prv /\ 2 * call.prv < HalfWord
            /\ -HalfWord <= 2 * call.cur /\ 2 * call.cur < HalfWord

\* The unsigned wrap of the step test errs on one side only: a value that is
\* in range is never dropped when it moved by at least the step; and where the window
\* around the previous value does not reach below zero, exactly the values closer
\* than the step are dropped.
StepTestSound ==
  /\ Moderate /\ call.rule.max = 0 /\ call.rule.min = 0 /\ Distance >= call.rule.step
       => ~Drops
  /\ Moderate /\ call.rule.min = 0 /\ call.prv >= call.rule.step
       => (Drops <=> Distance < call.rule.step)
=============================================================================
