----------------------------- MODULE NecProtocol ----------------------------
(***************************************************************************)
(* The NEC remote control code (tdl_nec_protocol.c): a frame as a list of  *)
(* mark and space times in microseconds, and the parser of such a list.    *)
(*                                                                         *)
(* A byte has ByteBits bits (8 in the code), so that a frame is short.  A  *)
(* word is the set of its bits that are 1.  Lists of received codes are    *)
(* functions on 0 .. n - 1, as in C.                                       *)
(***************************************************************************)
EXTENDS Integers, FiniteSets, Sequences, SequencesExt

CONSTANTS
  ByteBits,     \* bits of a byte
  Msb,          \* is_nec_msb
  Tolerance     \* the percentages of IR_NEC_CFG_T

\* tdl_ir_nec_err_val_init refuses 100 and more.
ASSUME NecAssumption ==
  /\ ByteBits \in Nat \ {0} /\ Msb \in BOOLEAN
  /\ Tolerance \in [{"lead", "logics", "logic0", "logic1", "repeat"} -> 0 .. 99]

LEADER == <<9000, 4500>>
LOGIC_HIGH_US == 560
LOGIC0_LOW_US == 560
LOGIC1_LOW_US == 1690
REPEAT == <<9000, 2250>>
CODE_CYCLE == 110000

Bits     == 4 * ByteBits
DataLen  == 2 * Bits          \* NEC_CODE_DATA_LEN
FrameMin == DataLen + 2       \* NEC_TIMECODE_LEN_MIN: without the end mark and its space
FrameLen == DataLen + 4       \* a frame without repeats

\* IR_DATA_NEC_T: addr and cmd have two bytes.
HalfBits == 0 .. 2 * ByteBits - 1
Nec == [addr : SUBSET HalfBits, cmd : SUBSET HalfBits, repeat : Nat]
NoNec == [addr |-> {}, cmd |-> {}, repeat |-> 0]
-----------------------------------------------------------------------------
(* Sending.                                                                *)

\* Where bit k of the frame is taken from: the bytes of address and command from the
\* high end, the bits of a byte in the configured order.
SentBit(k) ==
  LET byte == k \div ByteBits
      j    == k % ByteBits
  IN  (3 - byte) * ByteBits + (IF Msb THEN ByteBits - 1 - j ELSE j)

\* The four bytes as one word.
Word32(f) == f.cmd \cup {b + 2 * ByteBits : b \in f.addr}

DataCodes(f) ==
  [i \in 1 .. DataLen |->
    IF i % 2 = 1 THEN LOGIC_HIGH_US
    ELSE IF SentBit(i \div 2 - 1) \in Word32(f) THEN LOGIC1_LOW_US
    ELSE LOGIC0_LOW_US]

\* The space that fills the cycle.
Gap(codes) ==
  LET left[k \in 0 .. Len(codes)] == IF k = 0 THEN CODE_CYCLE ELSE left[k - 1] - codes[k]
  IN  left[Len(codes)]

\* The end mark and its space.
Closed(codes) ==
  LET marked == Append(codes, LOGIC_HIGH_US)
  IN  Append(marked, Gap(marked))

\* tdl_ir_nec_build
Build(f) ==
  LET frame  == Closed(LEADER \o DataCodes(f))
      repeat == Closed(REPEAT)
  IN  [i \in 1 .. FrameLen + 4 * f.repeat |->
        IF i <= FrameLen THEN frame[i] ELSE repeat[((i - FrameLen - 1) % 4) + 1]]
-----------------------------------------------------------------------------
(* Receiving.                                                              *)

Distance(a, b) == IF a > b THEN a - b ELSE b - a

ErrVal(nominal, percent) == (nominal * percent) \div 100

Within(x, nominal, percent) == Distance(x, nominal) < ErrVal(nominal, percent)

IsLeader(high, low) ==
  /\ Distance(high, LEADER[1]) <= ErrVal(LEADER[1], Tolerance["lead"])
  /\ Distance(low, LEADER[2]) <= ErrVal(LEADER[2], Tolerance["lead"])

IsLogic0(high, low) ==
  /\ Within(high, LOGIC_HIGH_US, Tolerance["logics"])
  /\ Within(low, LOGIC0_LOW_US, Tolerance["logic0"])

IsLogic1(high, low) ==
  /\ Within(high, LOGIC_HIGH_US, Tolerance["logics"])
  /\ Within(low, LOGIC1_LOW_US, Tolerance["logic1"])

IsRepeat(high, low) ==
  Within(high, REPEAT[1], Tolerance["repeat"]) /\ Within(low, REPEAT[2], Tolerance["repeat"])

\* What the code reads at index i of a buffer: beyond its end, whatever is there.
Read(data, i, beyond) == IF i \in DOMAIN data THEN data[i] ELSE beyond

\* tdl_nec_get_frame_head, on len codes from offset on: the indices it would accept,
\* the smallest of which it returns.  The last one pairs with the code behind the end.
Heads(data, offset, len, beyond) ==
  {i \in 0 .. len - 1 : len >= 2 /\ IsLeader(Read(data, offset + i, beyond),
                                             Read(data, offset + i + 1, beyond))}

\* Where the parser puts bit k.
ReadBit(k) ==
  LET byte == k \div ByteBits
      cnt  == k % ByteBits
  IN  (3 - byte) * ByteBits + (IF Msb THEN ByteBits - 1 - cnt ELSE cnt)

NecOf(ones, repeats) ==
  LET word == {ReadBit(k) : k \in ones}
  IN  [addr |-> {b \in HalfBits : b + 2 * ByteBits \in word}, cmd |-> word \cap HalfBits,
       repeat |-> repeats]

\* tdl_ir_nec_parser_single: how far it came, and what it read.
ParserSingle(data, offset, len, beyond) ==
  LET W(i) == Read(data, offset + i, beyond)
      Data == {2 + 2 * k : k \in 0 .. Bits - 1}
      bad  == {i \in Data : ~IsLogic0(W(i), W(i + 1)) /\ ~IsLogic1(W(i), W(i + 1))}
      ones == {k \in 0 .. Bits - 1 : ~IsLogic0(W(2 + 2 * k), W(3 + 2 * k))}
      At(r) == FrameMin + 4 * r
      more == {r \in 0 .. len : At(r) + 3 < len /\ IsRepeat(W(At(r) + 2), W(At(r) + 3))}
      repeats == Min({r \in 0 .. len + 1 : r \notin more})
  IN  IF len < FrameMin THEN [len |-> 0, nec |-> NoNec]
      ELSE IF ~IsLeader(W(0), W(1)) THEN [len |-> 2, nec |-> NoNec]
      ELSE IF bad # {} THEN [len |-> Min(bad), nec |-> NoNec]
      ELSE [len |-> At(repeats), nec |-> NecOf(ones, repeats)]
=============================================================================
