----------------------------- MODULE MCIrDevice -----------------------------
\* Transmissions of one and two codes, once or twice, any code one that cannot
\* be output; a ring of three words, so that it wraps and overflows; a receive
\* queue of one message.
EXTENDS IrDevice
=============================================================================
