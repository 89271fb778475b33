----------------------------- MODULE PixelColor -----------------------------
(***************************************************************************)
(* The arithmetic of the LED pixel driver: scaling of colours and shifts   *)
(* of the picture (tdl_pixel_color_manage.c), and the SPI code of a colour *)
(* (tdd_pixel_basic.c).  A picture is a function on 0 .. n - 1; the three  *)
(* to five components of a pixel are handled alike and stand as one.       *)
(***************************************************************************)
EXTENDS Integers

CONSTANTS
  Resolution,   \* pixel_resolution: the application's full brightness
  Maximum,      \* color_maximum: the driver's full brightness
  Bits          \* bits of a component on the line

ASSUME ColorAssumption ==
  /\ Resolution \in Nat \ {0} /\ Maximum \in Nat \ {0} /\ Bits \in Nat \ {0}
\* The values of a component's bits, and the size of its word above them.
Pow2[k \in 0 .. Bits] == IF k = 0 THEN 1 ELSE 2 * Pow2[k - 1]
-----------------------------------------------------------------------------
(* Plausible slips, used to show that the properties notice them.          *)

LowestBitFirst(v) == [k \in 0 .. Bits - 1 |-> (v \div Pow2[k]) % 2]

\* The cells are moved from the wrong end: moved ones are moved again.
FromTheLowEnd(b, from, to, step) ==
  LET m[k \in 0 .. to - from + 1 - step] ==
        IF k = 0 THEN b
        ELSE [m[k - 1] EXCEPT ![from + step + k - 1] = m[k - 1][from + k - 1]]
  IN  m[to - from + 1 - step]

SameDirection(dir, from, half) ==
  [from |-> from + half, to |-> from + 2 * half - 1,
   dir |-> IF dir = "close" THEN "right" ELSE "left"]
-----------------------------------------------------------------------------
(* Colours.                                                                *)

\* __tdl_pixel_set_color
Scaled(c) == (c * Maximum) \div Resolution

\* __tdl_pixel_get_color
Unscaled(v) == (v * Resolution) \div Maximum

\* tdd_rgb_transform_spi_data: the code of the upper bit, then the byte is shifted
\* left.  The driver has cast the component to the byte.
SpiData(v) ==
  LET byte[k \in 0 .. Bits] == (IF k = 0 THEN v ELSE 2 * byte[k - 1]) % Pow2[Bits]
  IN  [k \in 0 .. Bits - 1 |-> byte[k] \div Pow2[Bits - 1]]

\* The chip takes the bits as they come.
Received(bits) ==
  LET r[k \in 0 .. Bits] == IF k = 0 THEN 0 ELSE 2 * r[k - 1] + bits[k - 1]
  IN  r[Bits]
-----------------------------------------------------------------------------
(* Shifts, of b's cells from .. to.                                        *)

\* The loops of memmove, one cell at a time.
MovedRight(b, from, to, step) ==
  LET m[k \in 0 .. to - from + 1 - step] ==
        IF k = 0 THEN b
        ELSE [m[k - 1] EXCEPT ![to - (k - 1)] = m[k - 1][to - step - (k - 1)]]
  IN  m[to - from + 1 - step]

MovedLeft(b, from, to, step) ==
  LET m[k \in 0 .. to - from + 1 - step] ==
        IF k = 0 THEN b
        ELSE [m[k - 1] EXCEPT ![from + k - 1] = m[k - 1][from + k - 1 + step]]
  IN  m[to - from + 1 - step]

\* __tdl_pixel_right_shift, __tdl_pixel_left_shift: the cells that fall out were
\* saved and come back at the other end.
Shifted(b, dir, from, to, step) ==
  IF from = to THEN b
  ELSE IF dir = "right"
    THEN LET m == MovedRight(b, from, to, step)
         IN  [i \in DOMAIN b |-> IF i \in from .. from + step - 1
                                   THEN b[to - step + 1 + (i - from)] ELSE m[i]]
    ELSE LET m == MovedLeft(b, from, to, step)
         IN  [i \in DOMAIN b |-> IF i \in to - step + 1 .. to
                                   THEN b[from + (i - (to - step + 1))] ELSE m[i]]

\* tdl_pixel_mirror_cycle_shift_color: two halves, in opposite directions.
Half(from, to) == (to - from + 1) \div 2

FirstHalf(dir, from, half) ==
  [from |-> from, to |-> from + half - 1, dir |-> IF dir = "close" THEN "right" ELSE "left"]

SecondHalf(dir, from, half) ==
  [from |-> from + half, to |-> from + 2 * half - 1,
   dir |-> IF dir = "close" THEN "left" ELSE "right"]
=============================================================================
