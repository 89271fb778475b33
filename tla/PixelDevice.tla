---------------------------- MODULE PixelDevice -----------------------------
(***************************************************************************)
(* One LED pixel device: tdl_pixel_dev_manage.c, tdl_pixel_color_manage.c  *)
(* and a driver below them (tdd_pixel_ws2812.c; the others are the same    *)
(* but for their codes).                                                   *)
(*                                                                         *)
(* A drawing call tests is_start and pixel_num before it takes the mutex,  *)
(* and its body runs under the mutex: it is pending in between.  copy and  *)
(* get take no mutex at all.  Arguments are too small for the 32-bit sums  *)
(* of the tests to wrap.                                                   *)
(***************************************************************************)
EXTENDS PixelColor

CONSTANTS
  Users,     \* threads
  May,       \* [Users -> what each of them calls]
  Nums,      \* pixel numbers asked for
  Colors,    \* components the application sets
  Arrays,    \* arrays of them
  Indices,   \* indices, lengths and steps
  Junk,      \* what fresh memory holds
  Rules      \* what callers and memory are assumed to do, see below

RuleNames == {
  "alone",      \* open and resize run while nobody else is in a call
  "unlocked",   \* close and resize do not run during a copy or a get
  "memory"}     \* a resize gets its memory and its SPI port

ASSUME PixelAssumption ==
  /\ Nums \subseteq Nat /\ Colors \subseteq 0 .. Resolution /\ Indices \subseteq Nat
  /\ Junk \subseteq Nat /\ Rules \subseteq RuleNames
  /\ \A a \in Arrays : a \in [DOMAIN a -> Colors]

Kept(rule) == rule \in Rules

ShortRange == 65536   \* the driver takes the number as an unsigned short

VARIABLES
  start,        \* flag.is_start
  num,          \* pixel_num
  cells, buf,   \* pixel_buffer: its size in pixels, 0 for NULL; what it holds
  len,          \* pixel_buffer_len, in pixels
  drv,          \* drv_handle: the pixels its tx_buffer is for, 0 for NULL
  call,         \* the calls that have passed their tests
  fault         \* memory that is not the device's was used

deviceVars == <<start, num, cells, buf, len, drv>>

vars == <<start, num, cells, buf, len, drv, call, fault>>
-----------------------------------------------------------------------------
(* Plausible slips, used to show that the properties notice them.          *)

LengthForgotten(n)       == len
OnePastTheEnd(from, n)   == from <= num /\ from + n <= num + 1
OneTooMany(n, dark)      == [0 .. n -> Junk \cup {0}]
-----------------------------------------------------------------------------
(* Calls.                                                                  *)

Idle == [op |-> "idle"]

Quiet(u) == \A v \in Users \ {u} : call[v] = Idle

Begin(u, c) ==
  /\ call' = [call EXCEPT ![u] = c]
  /\ UNCHANGED <<deviceVars, fault>>

Ready(u, op) == call[u] = Idle /\ op \in May[u]

\* The test for a segment of n pixels.
InStrip(from, n) == from < num /\ from + n <= num

\* tdl_pixel_set_single_color
SetSingle(u) ==
  /\ Ready(u, "draw") /\ start
  /\ \E from, n \in Indices, c \in Colors :
       /\ InStrip(from, n)
       /\ Begin(u, [op |-> "paint", from |-> from, n |-> n,
                    color |-> [i \in 0 .. n - 1 |-> c]])

\* tdl_pixel_set_multi_color
SetMulti(u) ==
  /\ Ready(u, "draw") /\ start
  /\ \E from, n \in Indices, a \in Arrays :
       /\ InStrip(from, n) /\ DOMAIN a = 0 .. n - 1
       /\ Begin(u, [op |-> "paint", from |-> from, n |-> n, color |-> a])

\* tdl_pixel_set_single_color_with_backcolor
SetWithBack(u) ==
  /\ Ready(u, "draw") /\ start
  /\ \E from, n \in Indices, c, back \in Colors :
       /\ InStrip(from, n)
       /\ Begin(u, [op |-> "back", from |-> from, n |-> n, back |-> back,
                    color |-> [i \in 0 .. n - 1 |-> c]])

\* tdl_pixel_set_single_color_all
SetAll(u) ==
  /\ Ready(u, "draw") /\ start
  /\ \E c \in Colors : Begin(u, [op |-> "all", color |-> c])

\* tdl_pixel_cycle_shift_color
Shift(u) ==
  /\ Ready(u, "draw") /\ start
  /\ \E dir \in {"right", "left"}, from, to, step \in Indices :
       /\ from < num /\ to < num
       /\ Begin(u, [op |-> "shift", dir |-> dir, from |-> from, to |-> to, step |-> step])

\* tdl_pixel_mirror_cycle_shift_color
Mirror(u) ==
  /\ Ready(u, "draw") /\ start
  /\ \E dir \in {"close", "far"}, from, to, step \in Indices :
       /\ from < to /\ to < num
       /\ Begin(u, [op |-> "mirror", dir |-> dir, from |-> from, to |-> to, step |-> step])

\* tdl_pixel_copy_color
Copy(u) ==
  /\ Ready(u, "draw") /\ start
  /\ \E src, dst, n \in Indices :
       /\ n # 0 /\ InStrip(src, n) /\ InStrip(dst, n)
       /\ Begin(u, [op |-> "copy", src |-> src, dst |-> dst, n |-> n])

\* tdl_pixel_get_color, with the buffer's address.
Get(u) ==
  /\ Ready(u, "draw") /\ start
  /\ \E i \in Indices : i < num /\ Begin(u, [op |-> "get", index |-> i])

\* tdl_pixel_dev_refresh
Refresh(u) == Ready(u, "refresh") /\ start /\ Begin(u, [op |-> "refresh"])
-----------------------------------------------------------------------------
(* What the calls do under the mutex.  A buffer that is NULL is refused.    *)

\* Cells from .. from + n - 1 are used.
Uses(from, n) == fault' = (fault \/ (cells # 0 /\ from + n > cells))

Done(u) ==
  /\ call' = [call EXCEPT ![u] = Idle]
  /\ UNCHANGED <<start, num, cells, len, drv>>

Painted(b, from, n, color) ==
  [i \in DOMAIN b |-> IF i \in from .. from + n - 1 THEN Scaled(color[i - from]) ELSE b[i]]

DoPaint(u) ==
  LET c == call[u]
  IN  /\ c.op = "paint"
      /\ buf' = Painted(buf, c.from, c.n, c.color)
      /\ Uses(c.from, c.n)
      /\ Done(u)

\* pixel_num is read again for the background, not for the segment.
DoBack(u) ==
  LET c == call[u]
  IN  /\ c.op = "back"
      /\ buf' = Painted([i \in DOMAIN buf |-> IF i < num THEN Scaled(c.back) ELSE buf[i]],
                        c.from, c.n, c.color)
      /\ fault' = (fault \/ (cells # 0 /\ (c.from + c.n > cells \/ num > cells)))
      /\ Done(u)

DoAll(u) ==
  LET c == call[u]
  IN  /\ c.op = "all"
      /\ buf' = [i \in DOMAIN buf |-> IF i < num THEN Scaled(c.color) ELSE buf[i]]
      /\ Uses(0, num)
      /\ Done(u)

MayShift(s, step) == cells # 0 /\ s.from <= s.to /\ step <= s.to - s.from

\* The malloc for the saved cells may fail: nothing is shifted then.
DoShift(u) ==
  LET c == call[u]
  IN  /\ c.op = "shift"
      /\ IF MayShift(c, c.step)
           THEN /\ Uses(c.from, c.to - c.from + 1)
                /\ \/ ~fault' /\ buf' = Shifted(buf, c.dir, c.from, c.to, c.step)
                   \/ UNCHANGED buf
           ELSE UNCHANGED <<buf, fault>>
      /\ Done(u)

ShiftedBy(b, s, step) == Shifted(b, s.dir, s.from, s.to, step)

\* Without memory for the second half, the first one is shifted alone.
DoMirror(u) ==
  LET c == call[u]
      h == Half(c.from, c.to)
      s == FirstHalf(c.dir, c.from, h)
      t == SecondHalf(c.dir, c.from, h)
  IN  /\ c.op = "mirror"
      /\ IF MayShift(s, c.step)
           THEN /\ Uses(c.from, 2 * h)
                /\ \/ ~fault' /\ buf' = ShiftedBy(ShiftedBy(buf, s, c.step), t, c.step)
                   \/ ~fault' /\ buf' = ShiftedBy(buf, s, c.step)
                   \/ UNCHANGED buf
           ELSE UNCHANGED <<buf, fault>>
      /\ Done(u)

\* No mutex, and no test for NULL.
DoCopy(u) ==
  LET c == call[u]
  IN  /\ c.op = "copy"
      /\ fault' = (fault \/ c.src + c.n > cells \/ c.dst + c.n > cells)
      /\ buf' = IF fault' THEN buf
                ELSE [i \in DOMAIN buf |-> IF i \in c.dst .. c.dst + c.n - 1
                                             THEN buf[c.src + (i - c.dst)] ELSE buf[i]]
      /\ Done(u)

\* No mutex: an address that was read may be one of freed memory by now.
DoGet(u) ==
  /\ call[u].op = "get"
  /\ fault' = (fault \/ call[u].index >= cells)
  /\ UNCHANGED buf
  /\ Done(u)

\* __tdl_pixel_refresh and the driver's send_data, which refuses NULL and 0.
DoRefresh(u) ==
  /\ call[u].op = "refresh"
  /\ fault' = (fault \/ (drv # 0 /\ cells # 0 /\ (len > drv \/ len > cells)))
  /\ UNCHANGED buf
  /\ Done(u)
-----------------------------------------------------------------------------
(* The device's life; each call runs under the mutex as a whole.            *)

NoUnlockedCall(u) ==
  Kept("unlocked") => \A v \in Users \ {u} : call[v].op \notin {"copy", "get"}

\* The driver's open: tkl_spi_init or the malloc fail, or there is a tx_buffer.
DriverOpens(n, ok) == ok /\ n % ShortRange # 0

Fresh(n, dark) == {b \in [0 .. n - 1 -> Junk \cup {0}] : \A i \in DOMAIN b : i < dark => b[i] = 0}

LenFor(n) == n

\* __tdl_pixel_dev_open: half of the buffer is cleared, its size is in bytes.
Open(u) ==
  /\ Ready(u, "open") /\ (Kept("alone") => Quiet(u))
  /\ ~start
  /\ \E n \in Nums, ok, room \in BOOLEAN :
       /\ num' = n
       /\ IF ~DriverOpens(n, ok)
            THEN UNCHANGED <<start, cells, buf, len, drv>>
            ELSE /\ drv' = n % ShortRange /\ len' = LenFor(n) /\ start' = room
                 /\ cells' = IF room THEN n ELSE 0
                 /\ buf' \in Fresh(cells', n \div 2)
  /\ UNCHANGED <<call, fault>>

\* __tdl_pixel_dev_close; the driver refuses a handle that is NULL.
Close(u) ==
  /\ Ready(u, "close") /\ NoUnlockedCall(u)
  /\ start /\ drv # 0
  /\ start' = FALSE /\ drv' = 0 /\ num' = 0
  /\ cells' = 0 /\ buf' \in Fresh(0, 0) /\ len' = 0
  /\ UNCHANGED <<call, fault>>

\* __tdl_pixel_dev_num_set: the number, an unsigned short here already, is set
\* before anything can fail.
Resize(u) ==
  /\ Ready(u, "resize") /\ (Kept("alone") => Quiet(u)) /\ NoUnlockedCall(u)
  /\ \E n \in {k % ShortRange : k \in Nums} \ {0, num}, ok, room \in BOOLEAN :
       /\ Kept("memory") => ok /\ room
       /\ num' = n
       /\ IF drv = 0 THEN UNCHANGED <<cells, buf, len, drv>>
          ELSE IF ~DriverOpens(n, ok) THEN drv' = 0 /\ UNCHANGED <<cells, buf, len>>
          ELSE /\ drv' = n /\ len' = LenFor(n)
               /\ cells' = IF room THEN n ELSE 0
               /\ buf' \in Fresh(cells', 0)
  /\ UNCHANGED <<start, call, fault>>
-----------------------------------------------------------------------------
\* __tdl_pixel_dev_register
Init ==
  /\ start = FALSE /\ num = 0 /\ cells = 0 /\ buf = [i \in 0 .. -1 |-> 0] /\ len = 0
  /\ drv = 0 /\ call = [u \in Users |-> Idle] /\ fault = FALSE

Starts(u) ==
  \/ SetSingle(u) \/ SetMulti(u) \/ SetWithBack(u) \/ SetAll(u) \/ Shift(u) \/ Mirror(u)
  \/ Copy(u) \/ Get(u) \/ Refresh(u)

Does(u) ==
  \/ DoPaint(u) \/ DoBack(u) \/ DoAll(u) \/ DoShift(u) \/ DoMirror(u)
  \/ DoCopy(u) \/ DoGet(u) \/ DoRefresh(u)

Next == \E u \in Users : Starts(u) \/ Does(u) \/ Open(u) \/ Close(u) \/ Resize(u)

Spec == Init /\ [][Next]_vars
-----------------------------------------------------------------------------
OpNames == {"idle", "paint", "back", "all", "shift", "mirror", "copy", "get", "refresh"}

TypeOK ==
  /\ start \in BOOLEAN /\ num \in Nat /\ cells \in Nat /\ len \in Nat /\ drv \in Nat
  /\ buf \in [0 .. cells - 1 -> Nat]
  /\ \A u \in Users : call[u].op \in OpNames
  /\ fault \in BOOLEAN

\* An open device is of one piece: its number of pixels, the picture's memory, the
\* length that is sent and the driver's buffer agree, through any sequence of
\* failed opens, resizes and closes in which a resize finds its memory.
Fits ==
  Kept("memory") /\ start => cells = num /\ len = num /\ drv = num % ShortRange

\* No call touches memory outside the device's: a device may be closed, by any
\* thread, between the tests of a locked call and its mutex.
NoMemoryFault == Rules = RuleNames /\ (\A n \in Nums : n < ShortRange) => ~fault

(* The picture.                                                            *)

Rotated(b, dir, from, to, step) ==
  LET s == IF dir = "right" THEN step ELSE -step
  IN  [i \in DOMAIN b |-> IF i \in from .. to
                            THEN b[from + ((i - from - s) % (to - from + 1))] ELSE b[i]]

\* The shift in place, cell by cell with the lost cells saved, is the rotation of
\* the segment: no colour is lost and no other pixel moves.
ShiftIsRotation ==
  \A u \in Users :
    call[u].op = "shift" /\ MayShift(call[u], call[u].step) =>
      LET c == call[u]
      IN  Shifted(buf, c.dir, c.from, c.to, c.step) = Rotated(buf, c.dir, c.from, c.to, c.step)

Symmetric(b, from, to) == \A i \in from .. to : b[i] = b[to - (i - from)]

\* A mirrored shift keeps a symmetric picture symmetric, on an even segment.
MirrorKeepsSymmetry ==
  \A u \in Users :
    call[u].op = "mirror" =>
      LET c == call[u]
          h == Half(c.from, c.to)
          s == FirstHalf(c.dir, c.from, h)
          t == SecondHalf(c.dir, c.from, h)
      IN  MayShift(s, c.step) /\ (c.to - c.from) % 2 = 1 /\ Symmetric(buf, c.from, c.to)
            => Symmetric(ShiftedBy(ShiftedBy(buf, s, c.step), t, c.step), c.from, c.to)

(* Colours.                                                                *)

Sent(c) == Received(SpiData(Scaled(c)))

\* A brighter colour is never sent as a darker one, and full is full: the scaled
\* component fits the driver's byte.
BrightnessKept ==
  \A u \in Users :
    call[u].op = "all" =>
      LET color == call[u].color
      IN  /\ \A c \in 0 .. color : Sent(c) <= Sent(color)
          /\ color = Resolution => Sent(color) = Maximum
=============================================================================
