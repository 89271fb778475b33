----------------------------- MODULE MCSensorHub ----------------------------
EXTENDS SensorHub

Single(n) == [tp |-> "SINGLE", val_num |-> n]
Group(n)  == [tp |-> "GROUP", val_num |-> n]

Hard(ms, n, s) == [mode |-> "HARD", word |-> ms, edge |-> 0, fsize |-> n, sub |-> s]
Soft(ms, n, s) == [mode |-> "SOFT", word |-> ms, edge |-> 0, fsize |-> n, sub |-> s]
Exti(pin, n, s) == [mode |-> "EXTI", word |-> pin, edge |-> 1, fsize |-> n, sub |-> s]

\* Device 1 polls on the hardware timer with two ways to subscribe and a third
\* that the check refuses, device 2 is triggered by a pin, subscribed or not.
HardAndExti == [d \in Dev |-> IF d = 1 THEN {Hard(2, 2, Group(2)), Hard(1, 2, Single(1)),
                                             Hard(1, 1, Single(2))}
                                       ELSE {Exti(1, 1, Single(1)), Exti(1, 1, NoSub)}]

\* A device polled on either time base, with chunks of one and of two samples.
EitherTimer == [d \in Dev |-> {Hard(2, 2, Group(2)), Soft(2, 1, Single(1)),
                               Soft(1, 2, Group(2))}]

\* Interrupt-driven devices, each on its own pin; the raw ones have no elements
\* to subscribe to.
OwnPins == [d \in Dev |-> {Exti(d - 1, 1, IF d \in Raw THEN NoSub ELSE Group(1))}]
=============================================================================
