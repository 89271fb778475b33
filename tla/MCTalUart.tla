------------------------------ MODULE MCTalUart -----------------------------
\* Two tasks, a ring of two bytes behind a hardware FIFO of two, so that both
\* overflow; reads of one byte and of more than the ring holds.
EXTENDS TalUart
=============================================================================
