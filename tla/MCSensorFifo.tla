---------------------------- MODULE MCSensorFifo ----------------------------
\* Two elements with independent rules, buffers of up to three values.
EXTENDS SensorFifo

\* A negative, a small and a large value.
MCVals == {-1, 1, 3}

\* No filter; a range; a step that fits in the window and one that wraps.
MCRules == {[max |-> 0, min |-> 0, step |-> 0],
            [max |-> 3, min |-> 1, step |-> 0],
            [max |-> 0, min |-> 0, step |-> 2]}
=============================================================================
